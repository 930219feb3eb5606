------------------------------- MODULE MCMpegTs -------------------------------
(* Small instances of MpegTs: packets of 12 bytes after the header, 8 of    *)
(* them taken by the PCR in a first packet.                                 *)
EXTENDS MpegTs

\* The unit ends with the first packet, and a byte short of, at, and a byte
\* past the end of the second; one unit of five packets.
MCLengths == {3, 4, 5, 15, 16, 17, 45}

===============================================================================
