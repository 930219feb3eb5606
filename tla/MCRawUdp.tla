-------------------------------- MODULE MCRawUdp --------------------------------
(* Small instances of RawUdp.                                               *)
EXTENDS RawUdp

\* An empty packet, and packets of two and three datagrams of 2 bytes; the
\* longest does not fit a buffer of 4.
MCSizes == {0, 3, 5}

==============================================================================
