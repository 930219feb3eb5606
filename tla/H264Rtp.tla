-------------------------------- MODULE H264Rtp --------------------------------
(***************************************************************************)
(* An H.264 byte stream split into access units (core/annexb.rs), and each  *)
(* put into RTP packets: `H264Payloader::packetize` of core/rtp.rs, sent as *)
(* rtp_send's --h264 arm sends what its encoder gives, one access unit a    *)
(* call.  Here the units are those the crate's own splitter cuts.  The      *)
(* crate has no receiver for the packets; the reference one below takes     *)
(* them apart as RFC 6184 says.                                             *)
(***************************************************************************)
EXTENDS AnnexB

CONSTANTS
  Mtu,        \* bytes of a packet, RTP header included
  HeaderLen,  \* 12
  SeqMod,     \* 2^16
  FirstSeq,
  Payloads,   \* the NAL units the encoder produces
  Prefixes,   \* zeros before the 00 00 01
  Leads,      \* bytes before the first start code
  MaxPieces   \* bound: NAL units in the stream

ASSUME H264Assumption ==
  /\ HeaderLen \in Nat /\ Mtu \in Nat /\ Mtu >= HeaderLen + 3
  /\ SeqMod \in Nat \ {0} /\ FirstSeq \in 0 .. SeqMod - 1
  /\ Payloads \subseteq Seq(0 .. 255) /\ Prefixes \subseteq Seq({0})
  /\ Leads \subseteq Seq(0 .. 255) /\ MaxPieces \in Nat

FuA == 28

(* The types RFC 6184 gives its packets: aggregation (24 to 27), fragments. *)
PacketTypes == 24 .. 29

(* H.264 lets no NAL unit hold a start code (emulation prevention), and an  *)
(* encoder gives none of the types that RFC 6184 gives its packets.         *)
ASSUME NalUnitAssumption ==
  /\ \A p \in Payloads :
       Codes(p, 1) = {} /\ (p # << >> => NalType(p) \notin PacketTypes)
  /\ \A l \in Leads : Codes(l, 1) = {}

VARIABLES
  at,        \* "encode", "split", "packetize", "done" or "failed"
  stream,    \* the byte stream
  pieces,    \* NAL units put into it
  it,        \* the splitter
  units,     \* the access units it gave
  given,     \* ghost: the NAL units of those
  nal, off,  \* the NAL unit being sent, and `off` in its fragments
  seq,       \* Rtp::seq
  sent,      \* packets sent for this access unit
  got, open  \* the receiver: the NAL units it has of it, and one begun

splitVars == <<it, units, given>>
sendVars == <<nal, off, sent, got, open>>
h264Vars == <<at, stream, pieces, splitVars, seq, sendVars>>

H264Init ==
  /\ at = "encode"
  /\ stream \in Leads /\ pieces = 0
  /\ it = SplitterInit(<< >>) /\ units = << >> /\ given = << >>
  /\ nal = 1 /\ off = 0
  /\ seq = FirstSeq /\ sent = << >> /\ got = << >> /\ open = << >>

Encode ==
  /\ at = "encode" /\ pieces < MaxPieces
  /\ \E p \in Payloads, z \in Prefixes :
       stream' = stream \o z \o <<0, 0, 1>> \o p
  /\ pieces' = pieces + 1
  /\ UNCHANGED <<at, splitVars, seq, sendVars>>

(* The stream is there: access_units() over it.                             *)
BeginSplit ==
  /\ at = "encode"
  /\ at' = "split"
  /\ it' = SplitterInit(stream)
  /\ UNCHANGED <<stream, pieces, units, given, seq, sendVars>>

------------------------------------------------------------------------------
(* AccessUnits::next, a turn of its loop at a time.                         *)

Bytes(unit) == SubSeq(stream, unit.from, unit.to)

PassNal ==
  /\ at = "split" /\ it.span # NoSpan /\ ~ EndsUnit(stream, it)
  /\ it' = Pass(stream, it)
  /\ UNCHANGED <<at, stream, pieces, units, given, seq, sendVars>>

(* It gives a unit, and packetize begins on that.                           *)
Give(unit) ==
  /\ units' = Append(units, unit) /\ given' = given \o NalUnits(Bytes(unit))
  /\ at' = "packetize" /\ nal' = 1 /\ off' = 0
  /\ sent' = << >> /\ got' = << >> /\ open' = << >>
  /\ UNCHANGED <<stream, pieces, seq>>

GiveUnit ==
  /\ at = "split" /\ it.span # NoSpan /\ EndsUnit(stream, it)
  /\ Give([from |-> Start(it), to |-> Boundary(it) - 1])
  /\ it' = Cut(stream, it)

(* No NAL unit is left: the rest of the stream, which is never empty (the   *)
(* unit has begun with a start code), then nothing any more.                *)
GiveRest ==
  /\ at = "split" /\ it.span = NoSpan
  /\ ~ it.done /\ it.au_start # NoPosition
  /\ Give([from |-> it.au_start, to |-> Len(stream)])
  /\ it' = [it EXCEPT !.done = TRUE]

GiveNothing ==
  /\ at = "split" /\ it.span = NoSpan
  /\ it.done \/ it.au_start = NoPosition
  /\ at' = "done" /\ it' = [it EXCEPT !.done = TRUE]
  /\ UNCHANGED <<stream, pieces, units, given, seq, sendVars>>

Split == PassNal \/ GiveUnit \/ GiveRest \/ GiveNothing

------------------------------------------------------------------------------
(* A receiver by RFC 6184, section 5, for single NAL units and FU-A; a      *)
(* packet of another packet type gives it nothing.                          *)

Joined(p) ==
  (IF p[2] >= 128 THEN <<p[1] - (p[1] % 32) + (p[2] % 32)>> ELSE open)
    \o SubSeq(p, 3, Len(p))

Receive(p) ==
  \/ /\ p[1] % 32 # FuA
     /\ got' = IF p[1] % 32 \in PacketTypes THEN got ELSE Append(got, p)
     /\ open' = << >>
  \/ /\ p[1] % 32 = FuA /\ (p[2] \div 64) % 2 = 1
     /\ got' = Append(got, Joined(p)) /\ open' = << >>
  \/ /\ p[1] % 32 = FuA /\ (p[2] \div 64) % 2 = 0
     /\ open' = Joined(p) /\ UNCHANGED got

------------------------------------------------------------------------------
(* packetize, a packet at a time.                                           *)

(* The NAL units of the access unit being sent.                             *)
Nals == NalUnits(Bytes(units[Len(units)]))

SingleMax == Mtu - HeaderLen
FragMax == Mtu - HeaderLen - 2

LastNal == nal = Len(Nals)
Whole == Len(Nals[nal]) <= SingleMax

Body == Tail(Nals[nal])
Take == IF Len(Body) - off <= FragMax THEN Len(Body) - off ELSE FragMax
Ends == off + Take = Len(Body)

Indicator == Nals[nal][1] - NalType(Nals[nal]) + FuA
FuHeader ==
  NalType(Nals[nal]) + (IF off = 0 THEN 128 ELSE 0) + (IF Ends THEN 64 ELSE 0)

MarkerOnFragmentEnd == LastNal
Marker == LastNal /\ (Whole \/ Ends)

Payload ==
  IF Whole THEN Nals[nal]
  ELSE <<Indicator, FuHeader>> \o SubSeq(Body, off + 1, off + Take)

(* The number is taken when the header is written, before the packet goes.  *)
SequenceUnwrapped == seq' = seq + 1
TakeSequence == seq' = (seq + 1) % SeqMod

(* One packet: a whole NAL unit, or a fragment of one.                      *)
Emit ==
  /\ at = "packetize"
  /\ sent' = Append(sent, [seq |-> seq, marker |-> Marker, payload |-> Payload])
  /\ TakeSequence
  /\ Receive(Payload)
  /\ IF Whole \/ Ends
     THEN /\ nal' = nal + 1 /\ off' = 0
          /\ at' = IF LastNal THEN "split" ELSE "packetize"
     ELSE /\ off' = off + Take
          /\ UNCHANGED <<at, nal>>
  /\ UNCHANGED <<stream, pieces, splitVars>>

(* The socket refuses the packet: packetize, and with it run, returns.      *)
EmitFails ==
  /\ at = "packetize"
  /\ at' = "failed"
  /\ TakeSequence
  /\ UNCHANGED <<stream, pieces, splitVars, sendVars>>

H264Next == Encode \/ BeginSplit \/ Split \/ Emit \/ EmitFails

H264Spec == H264Init /\ [][H264Next]_h264Vars

------------------------------------------------------------------------------
(* Properties.                                                              *)

NalUnit == Seq(0 .. 255)

(* Type invariant.                                                          *)
H264TypeOK ==
  /\ at \in {"encode", "split", "packetize", "done", "failed"}
  /\ stream \in NalUnit /\ pieces \in 0 .. MaxPieces
  /\ it \in [span : [start_code : Nat, nal_start : Nat, nal_end : Nat],
             au_start : Nat, au_has_vcl : BOOLEAN, boundary_candidate : Nat,
             done : BOOLEAN]
  /\ units \in Seq([from : 1 .. Len(stream), to : 1 .. Len(stream)])
  /\ given \in Seq(NalUnit)
  /\ nal \in Nat \ {0} /\ off \in Nat
  /\ seq \in 0 .. SeqMod - 1
  /\ sent \in Seq([seq : 0 .. SeqMod - 1, marker : BOOLEAN, payload : NalUnit])

(* annexb.rs:193-197: the access units follow on from each other, none is   *)
(* empty, and taken apart again they give the NAL units of the stream: no   *)
(* NAL unit is cut, lost or given twice at a boundary.                      *)
SplitLosesNothing ==
  /\ \A i \in 1 .. Len(units) : NalUnits(Bytes(units[i])) # << >>
  /\ \A i \in 2 .. Len(units) : units[i].from = units[i - 1].to + 1
  /\ at = "done" => given = NalUnits(stream)

(* Where the splitter is in the stream: its next span is one of it; what it *)
(* has given reaches up to the unit it is in, which begins with a start     *)
(* code, and is the first NAL units of the stream.                          *)
NextStart == IF it.span = NoSpan THEN Len(stream) + 1 ELSE it.span.nal_start
GivenTo == IF it.done THEN Len(stream) ELSE it.au_start - 1

SplitterPlaced ==
  IF at = "encode" THEN units = << >> /\ given = << >> /\ sent = << >>
  ELSE
    LET starts == NalStarts(stream)
    IN /\ it.span = NoSpan \/ \E p \in starts : it.span = Span(stream, p)
       /\ it.done => it.span = NoSpan
       /\ IF it.au_start = NoPosition
          THEN units = << >> /\ \A p \in starts : p >= NextStart
          ELSE \E p \in starts :
                 p < NextStart /\ it.au_start = StartCode(stream, p)
       /\ units # << >> => units[Len(units)].to = GivenTo
       /\ given = SubSeq(NalUnits(stream), 1, UpToIn(starts, GivenTo))

(* What the splitter remembers of the NAL units of this unit that it has    *)
(* passed: whether one is a slice, and where what follows the last slice    *)
(* begins.  A unit but the first has begun with the first slice of its      *)
(* picture, and the one before it has ended with a slice.                   *)
Passed ==
  {p \in NalStarts(stream) : it.au_start <= p /\ p < NextStart}
Slices == {p \in Passed : IsVcl(NalAt(stream, p))}

SplitterRemembers ==
  at # "encode" =>
    /\ it.au_has_vcl = (Slices # {})
    /\ \A p \in Passed, v \in Slices :
         IsFirstSlice(NalAt(stream, p)) => p <= v
    /\ units # << >> /\ ~ it.done =>
         /\ \E p \in Passed : IsFirstSlice(NalAt(stream, p))
         /\ LET nals == NalUnits(Bytes(units[Len(units)]))
            IN IsVcl(nals[Len(nals)])
    /\ IF it.boundary_candidate = NoPosition
       THEN Slices # {} => \E v \in Slices : \A p \in Passed : p <= v
       ELSE \E c \in Passed, v \in Slices :
              /\ it.boundary_candidate = StartCode(stream, c)
              /\ \A p \in Passed : p <= v \/ p >= c
              /\ \A p \in Slices : p < c

(* The payloader is at a NAL unit of its access unit, and at a fragment of  *)
(* that only when it has fragments.                                         *)
SendPlaced ==
  at = "packetize" =>
    /\ units # << >> /\ nal \in 1 .. Len(Nals)
    /\ off > 0 => ~ Whole /\ off < Len(Body)

(* What holds of the splitter and the payloader: their types, their places  *)
(* and what the splitter remembers, and that nothing is lost at a boundary  *)
(* (annexb.rs:193-197).                                                     *)
SplitInv ==
  /\ H264TypeOK /\ SplitterPlaced /\ SplitterRemembers /\ SendPlaced
  /\ SplitLosesNothing

(* A first slice comes before every other slice of its unit, so there is    *)
(* one at most; only the first unit may have none; and what comes between   *)
(* the last slice of one picture and the first of the next belongs to the   *)
(* next.                                                                    *)
OnePictureEach ==
  \A i \in 1 .. Len(units) :
    LET nals == NalUnits(Bytes(units[i]))
    IN /\ \A j, k \in DOMAIN nals :
            IsFirstSlice(nals[j]) /\ IsVcl(nals[k]) => j <= k
       /\ i > 1 => \E j \in DOMAIN nals : IsFirstSlice(nals[j])
       /\ i < Len(units) => IsVcl(nals[Len(nals)])

(* Every packet fits the MTU, and what a receiver puts together is the NAL  *)
(* units of the access unit, in order; the marker comes with the last       *)
(* packet of it and never sooner (rtp.rs:144-146).                          *)
RoundTrip ==
  /\ \A i \in DOMAIN sent :
       /\ HeaderLen + Len(sent[i].payload) <= Mtu
       /\ sent[i].seq = (sent[1].seq + i - 1) % SeqMod
       /\ sent[i].marker => got = Nals /\ i = Len(sent)
  /\ at = "split" /\ sent # << >> => sent[Len(sent)].marker

(* While the unit is being sent, the receiver has the NAL units before      *)
(* `nal` and, of that one, the header and the `off` bytes sent.             *)
ReceivedSoFar ==
  /\ got \in Seq(NalUnit) /\ open \in NalUnit
  /\ at = "packetize" =>
       /\ got = SubSeq(Nals, 1, nal - 1)
       /\ off > 0 => open = <<Nals[nal][1]>> \o SubSeq(Body, 1, off)
       /\ sent # << >> => seq = (sent[1].seq + Len(sent)) % SeqMod

(* No NAL unit of the stream has the type of a packet.                      *)
NoPacketTypes ==
  \A c \in Codes(stream, 1) :
    c + 3 <= Len(stream) => stream[c + 3] % 32 \notin PacketTypes

(* What holds of sending: packets that fit the MTU, the sequence numbers and *)
(* the marker where rtp.rs:144-146 puts it, and the NAL units put together  *)
(* again (RoundTrip); with it what the receiver has half way, and that no   *)
(* NAL unit looks like a packet of another kind.                            *)
SendInv == RoundTrip /\ ReceivedSoFar /\ NoPacketTypes

==============================================================================
