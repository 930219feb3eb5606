------------------------------ MODULE MCRtpSender ------------------------------
(* Small instances of RtpSender.                                            *)
EXTENDS RtpSender

File(segs, scan) == [segs |-> segs, scan |-> scan, eoi |-> TRUE]

Sof == Seg("SOF")
Sos == Seg("SOS")
One == Tables(<<0>>)
Two == Tables(<<0, 1>>)

\* What a camera makes: one packet or several, empty, and, with restart
\* markers and two tables, enough packets for the estimate to be too low.
Pictures ==
  {File(<<One, Sof, Sos>>, 5), File(<<One, Sof, Sos>>, 560),
   File(<<Two, Seg("DHT"), Sof, Sos>>, 0),
   File(<<Two, Sof, Seg("DRI"), Sos>>, 6300)}

\* Tables in another order, split, or not what the count says.
Odd ==
  {File(<<Seg("APP"), Tables(<<1>>), Sof, Tables(<<0>>), Sos>>, 5),
   File(<<Sof, Tables(<<1>>), Sos>>, 5)}

\* What parse refuses, each at another place.
Refused ==
  {File(<<Two, Sos>>, 5), File(<<One, Unfit("SOF"), Sos>>, 5),
   File(<<One, Unfit("DHT"), Sof, Sos>>, 5),
   File(<<Tables(<<2>>), Sof, Sos>>, 5),
   File(<<Sof, Seg("cut"), One, Sos>>, 5), File(<<One, Sof>>, 5),
   [File(<<One, Sof, Sos>>, 5) EXCEPT !.eoi = FALSE]}

MCJpegs == Pictures \cup Odd \cup Refused
MCFrameSizes == {WireLen(file) : file \in MCJpegs}

==============================================================================
