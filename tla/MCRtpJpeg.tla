------------------------------- MODULE MCRtpJpeg -------------------------------
(* Small instances of RtpJpeg.                                              *)
EXTENDS RtpJpeg

\* Scans of one and of three packets, with one byte of room in the first
\* packet and two in the others.
MCSizesFew == {1, 4}

\* An empty scan, one of two packets that fills a buffer of 3, and one a byte
\* larger than it.
MCSizesEdge == {0, 3, 4}

Inband == {"inband"}
AnySender == {"inband", "reuse", "unsupported"}

MCStamps == {1, 2, 3}
MCFewStamps == {1, 2}

==============================================================================
