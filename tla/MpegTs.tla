-------------------------------- MODULE MpegTs --------------------------------
(***************************************************************************)
(* The transport stream mux, `Mux` of core/mpegts.rs, writing into a sink   *)
(* that may fail and over a link that may lose packets, and `demux::parse`  *)
(* reading what arrives.                                                    *)
(*                                                                          *)
(* An access unit is its number and its length in bytes, PES header and     *)
(* delimiter included.  A packet carries the piece [off, off + len) of its  *)
(* unit; bytes past the unit's end are whatever was in the packet buffer.   *)
(***************************************************************************)
EXTENDS Integers, FiniteSets

CONSTANTS
  Body,         \* PACKET_LEN - 4: bytes after the header (184 in the code)
  PcrField,     \* adaptation bytes of a first packet: length, flags, PCR (8)
  CcMod,        \* 16: the continuity counter is 4 bits
  PsiInterval,  \* PSI_INTERVAL_PACKETS
  Lengths,      \* lengths of the access units
  MaxUnits,     \* bound: access units pushed
  MaxFail,      \* bound: writes the sink refuses
  MaxLoss       \* bound: packets lost on the link

ASSUME BodyAssumption ==
  /\ PcrField \in Nat /\ PcrField >= 2
  /\ Body \in Nat /\ Body > PcrField
ASSUME ModulusAssumption == CcMod \in Nat \ {0}
ASSUME InputAssumption ==
  /\ PsiInterval \in Nat \ {0} /\ Lengths \subseteq Nat \ {0}
  /\ MaxUnits \in Nat /\ MaxFail \in Nat /\ MaxLoss \in Nat

Pids == {"pat", "pmt", "video"}

VARIABLES
  cc,           \* next continuity counter of each PID
  since_psi,    \* packets written since the last PAT and PMT
  started,      \* a PAT and PMT have been written
  phase,        \* the packet push writes next: a PID, "idle", or "ended"
  unit,         \* number of the access unit pushed last
  key,          \* it is a key frame
  total, left,  \* its length, and what is still to be read of it
  expect,       \* demux: the counter expected on each PID, -1 for None
  stream_type,  \* demux: a PMT has been seen
  current,      \* demux: the access unit being gathered, or NoUnit
  access_units, \* demux: the access units recovered
  faults,       \* writes refused and packets lost so far
  since_pmt     \* ghost: packets written since the last whole PAT and PMT

mux == <<cc, since_psi, started, phase, unit, key, total, left>>
demux == <<expect, stream_type, current, access_units>>
vars == <<mux, demux, faults, since_pmt>>

(* What the demuxer gathers: the unit its first packet was of, the bytes    *)
(* appended while they were the unit's next ones, whether they all were,    *)
(* and (ghosts) whether every counter since the first packet was expected   *)
(* and whether the unit was handed over only because the stream ended.      *)
Gathered == [unit : Nat, total : Nat, have : Nat, intact : BOOLEAN,
             clean : BOOLEAN, last : BOOLEAN]
NoUnit == [unit |-> 0, total |-> 0, have |-> 0, intact |-> FALSE,
           clean |-> FALSE, last |-> FALSE]

Init ==
  /\ cc = [pid \in Pids |-> 0]
  /\ since_psi = 0 /\ started = FALSE
  /\ phase = "idle" /\ unit = 0 /\ key = FALSE /\ total = 0 /\ left = 0
  /\ expect = [pid \in Pids |-> -1]
  /\ stream_type = FALSE /\ current = NoUnit /\ access_units = {}
  /\ faults = [fail |-> 0, loss |-> 0]
  /\ since_pmt = 0

GreaterOf(a, b) == IF a >= b THEN a ELSE b
LesserOf(a, b) == IF a <= b THEN a ELSE b

------------------------------------------------------------------------------
(* Demultiplexing one packet p: the counter first, then the payload.        *)

Expected(p) == expect[p.pid] \in {-1, p.cc}

Gather(p) ==
  IF p.pusi
  THEN [unit |-> p.unit, total |-> p.total, have |-> p.len,
        intact |-> p.real, clean |-> TRUE, last |-> FALSE]
  ELSE [current EXCEPT
          !.have = @ + p.len,
          !.intact = @ /\ p.real /\ p.unit = current.unit
                       /\ p.off = current.have,
          !.clean = @ /\ Expected(p)]

(* A new start ends the unit being gathered.                                *)
Finished(p) ==
  IF p.pusi /\ current # NoUnit
  THEN {[current EXCEPT !.clean = @ /\ Expected(p)]}
  ELSE {}

Demux(p) ==
  /\ expect' = [expect EXCEPT ![p.pid] = (p.cc + 1) % CcMod]
  /\ stream_type' = (stream_type \/ p.pid = "pmt")
  /\ IF p.pid = "video"
     THEN /\ access_units' = access_units \cup Finished(p)
          /\ current' = IF p.pusi \/ current # NoUnit THEN Gather(p)
                        ELSE current
     ELSE UNCHANGED <<current, access_units>>

(* The stream ends, wherever the recording was cut: what is being gathered  *)
(* is handed over with no later start whose counter could be checked.       *)
EndOfStream ==
  /\ phase # "ended"
  /\ phase' = "ended"
  /\ access_units' = access_units \cup
       (IF current # NoUnit THEN {[current EXCEPT !.last = TRUE]} ELSE {})
  /\ current' = NoUnit
  /\ UNCHANGED <<cc, since_psi, started, unit, key, total, left, expect,
                 stream_type, faults, since_pmt>>

------------------------------------------------------------------------------
(* The mux.                                                                 *)

NeedsPsiOnlyOnKey(k) == ~ started \/ k
NeedsPsi(k) == ~ started \/ k \/ since_psi >= PsiInterval

(* An access unit is pushed.  (Another codec or an empty unit is refused    *)
(* with no change of state.)                                                *)
Push(n, k) ==
  /\ phase = "idle" /\ unit < MaxUnits
  /\ unit' = unit + 1
  /\ key' = k /\ total' = n /\ left' = n
  /\ phase' = IF NeedsPsi(k) THEN "pat" ELSE "video"
  /\ UNCHANGED <<cc, since_psi, started, demux, faults, since_pmt>>

TakeCounter(pid) == cc' = [cc EXCEPT ![pid] = (@ + 1) % CcMod]

First == left = total

(* Bytes of adaptation field after its length byte, -1 for no field: room   *)
(* for the PCR in a first packet, and stuffing when the unit ends here.     *)
StuffingOverLength ==
  IF First
  THEN GreaterOf(Body - 1 - LesserOf(left, Body - PcrField), PcrField - 1)
  ELSE IF left >= Body THEN -1 ELSE Body - left
Adaptation ==
  IF First
  THEN GreaterOf(Body - 1 - LesserOf(left, Body - PcrField), PcrField - 1)
  ELSE IF left >= Body THEN -1 ELSE Body - 1 - left

Take == Body - 1 - Adaptation

(* What reading across the PES header, the delimiter and the data gives: as *)
(* much as fits, and no more than there is.                                 *)
Reads == LesserOf(Take, left)

VideoPacket ==
  [pid |-> "video", cc |-> cc["video"], pusi |-> First, unit |-> unit,
   total |-> total, off |-> total - left, len |-> Take,
   real |-> Take <= left]

TablePacket(pid) ==
  [pid |-> pid, cc |-> cc[pid], pusi |-> TRUE, unit |-> unit, total |-> 0,
   off |-> 0, len |-> 0, real |-> TRUE]

(* The sink takes a packet, which arrives or is lost on the link.           *)
Sends(p) ==
  \/ Demux(p) /\ UNCHANGED faults
  \/ /\ faults.loss < MaxLoss
     /\ faults' = [fail |-> faults.fail, loss |-> faults.loss + 1]
     /\ UNCHANGED demux

WritePat ==
  /\ phase = "pat"
  /\ TakeCounter("pat")
  /\ Sends(TablePacket("pat"))
  /\ since_psi' = since_psi + 1 /\ since_pmt' = since_pmt + 1
  /\ phase' = "pmt"
  /\ UNCHANGED <<started, unit, key, total, left>>

WritePmt ==
  /\ phase = "pmt"
  /\ TakeCounter("pmt")
  /\ Sends(TablePacket("pmt"))
  /\ since_psi' = 0 /\ since_pmt' = 0
  /\ started' = TRUE
  /\ phase' = "video"
  /\ UNCHANGED <<unit, key, total, left>>

WriteVideo ==
  /\ phase = "video"
  /\ TakeCounter("video")
  /\ Sends(VideoPacket)
  /\ since_psi' = since_psi + 1 /\ since_pmt' = since_pmt + 1
  /\ left' = left - Reads
  /\ phase' = IF left' = 0 THEN "idle" ELSE "video"
  /\ UNCHANGED <<started, unit, key, total>>

(* The sink refuses a packet: push returns the error, and the counter the   *)
(* packet was given is used up.                                             *)
StartedAnyway == started' = (started \/ phase \in {"pat", "pmt"})
StartedOnlyWhole == UNCHANGED started

CounterKept(pid) == UNCHANGED cc
CounterSpent(pid) == TakeCounter(pid)

SinkFails ==
  /\ phase \in Pids /\ faults.fail < MaxFail
  /\ CounterSpent(phase)
  /\ faults' = [fail |-> faults.fail + 1, loss |-> faults.loss]
  /\ phase' = "idle"
  /\ StartedOnlyWhole
  /\ UNCHANGED <<since_psi, unit, key, total, left, demux,
                 since_pmt>>

Next ==
  \/ \E n \in Lengths, k \in BOOLEAN : Push(n, k)
  \/ WritePat
  \/ WritePmt
  \/ WriteVideo
  \/ SinkFails
  \/ EndOfStream

Spec == Init /\ [][Next]_vars

------------------------------------------------------------------------------
(* Properties.                                                              *)

(* Type invariant of mux and demuxer.                                       *)
TypeOK ==
  /\ cc \in [Pids -> 0 .. CcMod - 1]
  /\ since_psi \in Nat /\ started \in BOOLEAN
  /\ phase \in Pids \cup {"idle", "ended"}
  /\ unit \in Nat /\ key \in BOOLEAN
  /\ total \in Nat /\ left \in 0 .. total
  /\ expect \in [Pids -> -1 .. CcMod - 1]
  /\ stream_type \in BOOLEAN
  /\ current \in Gathered /\ access_units \subseteq Gathered
  /\ faults \in [fail : Nat, loss : Nat]
  /\ since_pmt \in Nat

(* push writes until nothing of the unit is left.                           *)
LeftToWrite == phase \in Pids => left > 0

(* Every packet is exactly full and carries no byte that is not the unit's, *)
(* and no packet but the unit's last is stuffed.                            *)
PacketFull ==
  phase = "video" =>
    /\ Take \in 1 .. left
    /\ Adaptation < Body
    /\ First => Adaptation >= PcrField - 1
    /\ Take < left => Take = IF First THEN Body - PcrField ELSE Body

(* The stream's last unit may lack its end unseen: the packets that are     *)
(* missing come after the last one that arrived, so no counter is off, or   *)
(* the stream ended while the mux was writing the unit.                     *)
EndUnseen(u) ==
  /\ u.last
  /\ expect["video"] # cc["video"] \/ (u.unit = unit /\ left > 0)

(* While fewer than CcMod packets have gone missing, what the demuxer       *)
(* gathers with every continuity counter as expected is of one unit, with   *)
(* no hole, and when a later start ends it, it is that unit whole: a sink   *)
(* that fails inside a unit, or a packet lost, shows in a counter before    *)
(* the unit is handed out.  Only the last unit, which parse hands over when *)
(* the stream ends (mpegts.rs:473-476), may be cut short and look clean.    *)
CleanIsWhole ==
  faults.fail + faults.loss < CcMod =>
    \A u \in access_units :
      u.clean => u.intact /\ (u.have = u.total \/ EndUnseen(u))

(* No video packet is written before a whole PAT and PMT have been, even    *)
(* when the sink refuses one of the two.                                    *)
TablesFirst ==
  faults.loss = 0 /\ (\E u \in access_units \cup {current} : u # NoUnit)
    => stream_type

(* What holds of the mux and the demuxer together: their types, and that no *)
(* video comes before the tables it needs (mpegts.rs:141-145).              *)
TsInv == TypeOK /\ TablesFirst

(* Between a PAT and PMT and the next there are fewer than PsiInterval      *)
(* packets and one access unit's, while the sink refuses none.              *)
UnitPackets(n) ==
  IF n <= Body - PcrField THEN 1
  ELSE 1 + (n - (Body - PcrField) + Body - 1) \div Body

PsiBounded ==
  faults.fail = 0 =>
    since_pmt = 0 \/ \E n \in Lengths : since_pmt <= PsiInterval + UnitPackets(n)

==============================================================================
