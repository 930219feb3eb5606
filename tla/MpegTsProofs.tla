---------------------------- MODULE MpegTsProofs ----------------------------
(* Every transport packet is exactly full, tables come first, and an access *)
(* unit gathered with clean counters is whole, for every packet length,     *)
(* size of the PCR field, access units and faults.                          *)
EXTENDS MpegTs, TLAPS

(* What of the state decides the layout of the next packet.                 *)
Layout == total \in Nat /\ left \in 0 .. total /\ LeftToWrite

LEMMA InitLayout == Init => Layout
  BY DEF Init, Layout, LeftToWrite, Pids

(* The adaptation field leaves room for what is left of the unit, or for    *)
(* all the packet can hold, and never for more.                             *)
LEMMA Fits ==
  ASSUME Layout, phase = "video"
  PROVE  /\ Adaptation \in -1 .. Body - 1
         /\ Take \in 1 .. left
         /\ First => Adaptation >= PcrField - 1
         /\ Take < left => Take = IF First THEN Body - PcrField ELSE Body
<1>1. /\ left \in Nat /\ left > 0 /\ Body \in Nat /\ PcrField \in Nat
      /\ PcrField >= 2 /\ Body > PcrField
  BY BodyAssumption DEF Layout, LeftToWrite, Pids
<1>2. CASE First /\ left < Body - PcrField
  <2>1. Adaptation = Body - 1 - left
    BY <1>1, <1>2 DEF Adaptation, GreaterOf, LesserOf
  <2>2. QED
    BY <1>1, <1>2, <2>1 DEF Take
<1>3. CASE First /\ left >= Body - PcrField
  <2>1. Adaptation = PcrField - 1
    BY <1>1, <1>3 DEF Adaptation, GreaterOf, LesserOf
  <2>2. QED
    BY <1>1, <1>3, <2>1 DEF Take
<1>4. CASE ~ First
  <2>1. Adaptation = IF left >= Body THEN -1 ELSE Body - 1 - left
    BY <1>4 DEF Adaptation
  <2>2. QED
    BY <1>1, <1>4, <2>1 DEF Take
<1>5. QED
  BY <1>1, <1>2, <1>3, <1>4

LEMMA NextLayout ==
  ASSUME Layout, [Next]_vars
  PROVE  Layout'
<1>1. ASSUME NEW n \in Lengths, NEW k \in BOOLEAN, Push(n, k)
      PROVE  Layout'
  <2>1. n \in Nat /\ n > 0
    BY InputAssumption
  <2>2. QED
    BY <1>1, <2>1 DEF Push, Layout, LeftToWrite
<1>2. CASE WriteVideo
  <2>1. Take \in 1 .. left /\ left \in Nat
    BY <1>2, Fits DEF WriteVideo, Layout
  <2>2. left' = left - Take /\ total' = total
    BY <1>2, <2>1 DEF WriteVideo, Reads, LesserOf
  <2>3. left' \in 0 .. total' /\ total' \in Nat
    BY <2>1, <2>2 DEF Layout
  <2>4. phase' \in Pids => left' > 0
    BY <1>2, <2>3 DEF WriteVideo, Pids
  <2>5. QED
    BY <2>3, <2>4 DEF Layout, LeftToWrite
<1>3. CASE WritePat \/ WritePmt
  BY <1>3 DEF WritePat, WritePmt, Layout, LeftToWrite, Pids
<1>4. CASE SinkFails \/ EndOfStream
  BY <1>4 DEF SinkFails, EndOfStream, Layout, LeftToWrite, Pids
<1>5. CASE UNCHANGED vars
  BY <1>5 DEF vars, mux, Layout, LeftToWrite
<1>6. QED
  BY <1>1, <1>2, <1>3, <1>4, <1>5 DEF Next

(* Every packet of an access unit is exactly full and carries no byte that  *)
(* is not the unit's, and only the unit's last packet is stuffed.           *)
THEOREM MpegTsPacketFull == Spec => []PacketFull
<1>1. Init => Layout
  BY InitLayout
<1>2. Layout /\ [Next]_vars => Layout'
  BY NextLayout
<1>3. Layout => PacketFull
  <2>1. SUFFICES ASSUME Layout, phase = "video" PROVE PacketFull
    BY DEF PacketFull
  <2>2. Body \in Nat
    BY BodyAssumption
  <2>3. QED
    BY <2>1, <2>2, Fits DEF PacketFull
<1>4. QED
  BY <1>1, <1>2, <1>3, PTL DEF Spec

------------------------------------------------------------------------------
(* What a clean run of continuity counters vouches for.                     *)

(* m video packets have gone missing since the last one the demuxer saw.    *)
Missing(m) ==
  cc["video"] = IF expect["video"] + m < CcMod THEN expect["video"] + m
                ELSE expect["video"] + m - CcMod

(* None has: what is gathered and what was written of the unit agree.       *)
Aligned ==
  /\ phase = "idle" => left \in {0, total}
  /\ current.clean =>
       /\ current.intact
       /\ IF left = total THEN current.have = current.total
          ELSE /\ current.unit = unit /\ current.total = total
               /\ current.have = total - left

UnitUntouched == phase \in {"pat", "pmt"} => left = total

NothingSeen == expect["video"] = -1 => current = NoUnit

(* Fewer packets are missing than the counter has values, so a counter that *)
(* is as expected means that none is.                                       *)
GapShows ==
  faults.fail + faults.loss < CcMod /\ expect["video"] # -1 =>
    \E m \in 0 .. faults.fail + faults.loss :
      Missing(m) /\ (m = 0 => Aligned)

(* The tables are written before the video that needs them, and arrive.     *)
TablesWritten ==
  /\ phase = "video" => started
  /\ started /\ faults.loss = 0 => stream_type

(* What is gathered clean is the beginning of one unit, whatever has gone   *)
(* missing since.                                                           *)
BeginsUnit ==
  faults.fail + faults.loss < CcMod => (current.clean => current.intact)

(* Only the end of the stream hands a unit over unchecked.                  *)
LastIsLast == phase # "ended" => \A u \in access_units \cup {current} : ~ u.last

MuxInv ==
  /\ TypeOK /\ LeftToWrite /\ UnitUntouched /\ NothingSeen /\ GapShows
  /\ TablesWritten /\ TablesFirst /\ BeginsUnit /\ LastIsLast /\ CleanIsWhole

LEMMA ModStep ==
  ASSUME NEW m \in Nat \ {0}, NEW n \in 0 .. m - 1
  PROVE  (n + 1) % m = IF n + 1 = m THEN 0 ELSE n + 1
<1>1. CASE n + 1 = m
  BY <1>1
<1>2. CASE n + 1 < m
  BY <1>2
<1>3. QED
  BY <1>1, <1>2

(* The demuxer is as it was, or has taken the packet p.                     *)
LEMMA SendsIs ==
  ASSUME NEW p, Sends(p)
  PROVE  \/ Demux(p) /\ faults' = faults
         \/ /\ expect' = expect /\ stream_type' = stream_type
            /\ current' = current /\ access_units' = access_units
            /\ faults' = [fail |-> faults.fail, loss |-> faults.loss + 1]
  BY DEF Sends, demux

LEMMA VideoPacketIs ==
  ASSUME TypeOK, LeftToWrite, phase = "video"
  PROVE  /\ Take \in 1 .. left /\ Reads = Take /\ left \in Nat /\ total \in Nat
         /\ VideoPacket.pid = "video" /\ VideoPacket.cc = cc["video"]
         /\ VideoPacket.pusi = First
         /\ VideoPacket.unit = unit /\ VideoPacket.total = total
         /\ VideoPacket.off = total - left /\ VideoPacket.len = Take
         /\ VideoPacket.real = TRUE
<1>1. Layout
  BY DEF Layout, TypeOK
<1>2. Take \in 1 .. left /\ left \in Nat /\ total \in Nat
  BY <1>1, Fits DEF Layout
<1>3. Reads = Take /\ Take <= left
  BY <1>2 DEF Reads, LesserOf
<1>4. QED
  BY <1>2, <1>3 DEF VideoPacket

(* What the demuxer gathers from a packet of the unit.                      *)
LEMMA VideoSeen ==
  ASSUME TypeOK, LeftToWrite, phase = "video", Demux(VideoPacket)
  PROVE  /\ expect' = [expect EXCEPT !["video"] = (cc["video"] + 1) % CcMod]
         /\ stream_type' = stream_type
         /\ access_units' = access_units \cup Finished(VideoPacket)
         /\ current' = IF First \/ current # NoUnit THEN Gather(VideoPacket)
                       ELSE current
  BY VideoPacketIs DEF Demux, TypeOK

LEMMA GatheredStart ==
  ASSUME NEW u \in Nat, NEW n \in Nat, NEW h \in Nat
  PROVE  [unit |-> u, total |-> n, have |-> h, intact |-> TRUE,
          clean |-> TRUE, last |-> FALSE] \in Gathered
  BY DEF Gathered

LEMMA GatheredMore ==
  ASSUME NEW g \in Gathered, NEW h \in Nat, NEW i \in BOOLEAN, NEW c \in BOOLEAN
  PROVE  [g EXCEPT !.have = h, !.intact = i, !.clean = c] \in Gathered
  BY DEF Gathered

LEMMA TypesOfGather ==
  ASSUME TypeOK, LeftToWrite, phase = "video"
  PROVE  Gather(VideoPacket) \in Gathered /\ Finished(VideoPacket) \subseteq Gathered
<1>1. current \in Gathered /\ unit \in Nat
  BY DEF TypeOK
<1>2. VideoPacket.len \in Nat
  BY VideoPacketIs
<1>3. ASSUME First PROVE Gather(VideoPacket) \in Gathered
  <2>1. Gather(VideoPacket) =
          [unit |-> unit, total |-> total, have |-> Take, intact |-> TRUE,
           clean |-> TRUE, last |-> FALSE]
    BY <1>3, VideoPacketIs DEF Gather
  <2>2. total \in Nat /\ Take \in Nat
    BY VideoPacketIs
  <2>3. QED
    BY <1>1, <2>1, <2>2, GatheredStart, Zenon
<1>4. ASSUME ~ First PROVE Gather(VideoPacket) \in Gathered
  <2>1. \E i \in BOOLEAN, c \in BOOLEAN :
          Gather(VideoPacket) =
            [current EXCEPT !.have = current.have + VideoPacket.len,
                            !.intact = i, !.clean = c]
    BY <1>4, VideoPacketIs, Zenon DEF Gather
  <2>2. PICK i \in BOOLEAN, c \in BOOLEAN :
          Gather(VideoPacket) =
            [current EXCEPT !.have = current.have + VideoPacket.len,
                            !.intact = i, !.clean = c]
    BY <2>1, Zenon
  <2>3. current.have + VideoPacket.len \in Nat
    BY <1>1, <1>2 DEF Gathered
  <2>4. \A h \in Nat : [current EXCEPT !.have = h, !.intact = i, !.clean = c]
                       \in Gathered
    BY <1>1, GatheredMore
  <2>5. QED
    BY <2>2, <2>3, <2>4
<1>5. Finished(VideoPacket) \subseteq Gathered
  <2> DEFINE clean == current.clean /\ Expected(VideoPacket)
  <2>1. Finished(VideoPacket) \subseteq {[current EXCEPT !.clean = clean]}
    BY Zenon DEF Finished
  <2>2. clean \in BOOLEAN
    BY Zenon
  <2> HIDE DEF clean
  <2>3. [current EXCEPT !.clean = clean] \in Gathered
    BY <1>1, <2>2 DEF Gathered
  <2>4. QED
    BY <2>1, <2>3, Zenon
<1>6. QED
  BY <1>3, <1>4, <1>5

(* What is clean after the packet was clean before it, and grows by the     *)
(* packet's bytes, which are the unit's next ones if none is missing.       *)
LEMMA GatherMore ==
  ASSUME TypeOK, LeftToWrite, phase = "video", ~ First,
         Gather(VideoPacket).clean
  PROVE  /\ current.clean /\ Expected(VideoPacket)
         /\ Gather(VideoPacket).unit = current.unit
         /\ Gather(VideoPacket).total = current.total
         /\ Gather(VideoPacket).have = current.have + Take
         /\ current.intact /\ unit = current.unit /\ total - left = current.have
              => Gather(VideoPacket).intact
<1>1. current \in Gathered
  BY DEF TypeOK
<1>2. PICK i, c :
        /\ i = (current.intact /\ VideoPacket.real
                  /\ VideoPacket.unit = current.unit
                  /\ VideoPacket.off = current.have)
        /\ c = (current.clean /\ Expected(VideoPacket))
        /\ Gather(VideoPacket) =
             [current EXCEPT !.have = current.have + VideoPacket.len,
                             !.intact = i, !.clean = c]
  BY VideoPacketIs, Zenon DEF Gather
<1>3. /\ Gather(VideoPacket).unit = current.unit
      /\ Gather(VideoPacket).total = current.total
      /\ Gather(VideoPacket).have = current.have + VideoPacket.len
      /\ Gather(VideoPacket).intact = i /\ Gather(VideoPacket).clean = c
  BY <1>1, <1>2 DEF Gathered
<1>4. QED
  BY <1>2, <1>3, VideoPacketIs, Zenon

LEMMA GatherFirst ==
  ASSUME TypeOK, LeftToWrite, phase = "video", First
  PROVE  /\ Gather(VideoPacket).unit = unit
         /\ Gather(VideoPacket).total = total
         /\ Gather(VideoPacket).have = Take
         /\ Gather(VideoPacket).intact
  BY VideoPacketIs DEF Gather

LEMMA FinishedIs ==
  ASSUME TypeOK, LeftToWrite, phase = "video",
         NEW u \in Finished(VideoPacket), u.clean
  PROVE  /\ First /\ current.clean /\ Expected(VideoPacket)
         /\ u.intact = current.intact
         /\ u.have = current.have /\ u.total = current.total
<1>1. current \in Gathered
  BY DEF TypeOK
<1>2. PICK c : /\ c = (current.clean /\ Expected(VideoPacket))
               /\ u = [current EXCEPT !.clean = c] /\ First
  BY VideoPacketIs, Zenon DEF Finished
<1>3. /\ u.intact = current.intact /\ u.have = current.have
      /\ u.total = current.total /\ u.clean = c
  BY <1>1, <1>2 DEF Gathered
<1>4. QED
  BY <1>2, <1>3, Zenon

------------------------------------------------------------------------------
(* Every step keeps the invariant.                                          *)

(* One packet of a table: the demuxer is none the wiser about the video.    *)
LEMMA TableSent ==
  ASSUME TypeOK, NEW pid \in {"pat", "pmt"}, TakeCounter(pid),
         Sends(TablePacket(pid))
  PROVE  /\ cc' \in [Pids -> 0 .. CcMod - 1]
         /\ expect' \in [Pids -> -1 .. CcMod - 1]
         /\ cc'["video"] = cc["video"] /\ expect'["video"] = expect["video"]
         /\ current' = current /\ access_units' = access_units
         /\ \/ faults' = faults /\ stream_type' = (stream_type \/ pid = "pmt")
            \/ /\ stream_type' = stream_type
               /\ faults' = [fail |-> faults.fail, loss |-> faults.loss + 1]
         /\ faults' \in [fail : Nat, loss : Nat] /\ stream_type' \in BOOLEAN
<1>1. cc[pid] \in 0 .. CcMod - 1 /\ pid \in Pids /\ CcMod \in Nat \ {0}
  BY ModulusAssumption DEF TypeOK, Pids
<1>2. (cc[pid] + 1) % CcMod \in 0 .. CcMod - 1
  BY <1>1, ModStep
<1>3. /\ cc' \in [Pids -> 0 .. CcMod - 1] /\ cc'["video"] = cc["video"]
  BY <1>1, <1>2 DEF TakeCounter, TypeOK, Pids
<1>4. TablePacket(pid).pid = pid /\ TablePacket(pid).cc = cc[pid]
  BY DEF TablePacket
<1>5. CASE Demux(TablePacket(pid)) /\ faults' = faults
  <2>1. /\ expect' = [expect EXCEPT ![pid] = (cc[pid] + 1) % CcMod]
        /\ stream_type' = (stream_type \/ pid = "pmt")
        /\ current' = current /\ access_units' = access_units
    BY <1>4, <1>5 DEF Demux
  <2>2. expect' \in [Pids -> -1 .. CcMod - 1] /\ expect'["video"] = expect["video"]
    BY <1>1, <1>2, <2>1 DEF TypeOK, Pids
  <2>3. stream_type' \in BOOLEAN
    BY <2>1
  <2>4. QED
    BY <1>3, <1>5, <2>1, <2>2, <2>3 DEF TypeOK
<1>6. CASE ~ (Demux(TablePacket(pid)) /\ faults' = faults)
  <2>1. /\ expect' = expect /\ stream_type' = stream_type
        /\ current' = current /\ access_units' = access_units
        /\ faults' = [fail |-> faults.fail, loss |-> faults.loss + 1]
    BY <1>6, SendsIs
  <2>2. QED
    BY <1>3, <2>1 DEF TypeOK
<1>7. QED
  BY <1>5, <1>6

(* One packet of video: seen by the demuxer, or lost.                       *)
LEMMA VideoSent ==
  ASSUME TypeOK, LeftToWrite, WriteVideo
  PROVE  /\ Take \in 1 .. left /\ left' = left - Take /\ left' \in Nat
         /\ left \in Nat /\ total \in Nat /\ total' = total /\ unit' = unit
         /\ left' # total /\ (phase' = "idle" => left' = 0)
         /\ phase' \in {"video", "idle"}
         /\ cc' \in [Pids -> 0 .. CcMod - 1]
         /\ cc'["video"] = IF cc["video"] + 1 = CcMod THEN 0 ELSE cc["video"] + 1
         /\ \/ /\ Demux(VideoPacket) /\ faults' = faults
               /\ expect' \in [Pids -> -1 .. CcMod - 1]
               /\ expect'["video"] = cc'["video"]
            \/ /\ expect' = expect /\ stream_type' = stream_type
               /\ current' = current /\ access_units' = access_units
               /\ faults' = [fail |-> faults.fail, loss |-> faults.loss + 1]
<1>1. phase = "video" /\ Sends(VideoPacket)
  BY DEF WriteVideo
<1>2. Take \in 1 .. left /\ Reads = Take /\ left \in Nat /\ total \in Nat
  BY <1>1, VideoPacketIs
<1>3. /\ left' = left - Take /\ left' \in Nat /\ total' = total /\ unit' = unit
      /\ left' # total
  <2>1. left <= total
    BY DEF TypeOK
  <2>2. QED
    BY <1>2, <2>1 DEF WriteVideo
<1>4. cc["video"] \in 0 .. CcMod - 1 /\ CcMod \in Nat \ {0}
  BY ModulusAssumption DEF TypeOK, Pids
<1>5. /\ (cc["video"] + 1) % CcMod
           = (IF cc["video"] + 1 = CcMod THEN 0 ELSE cc["video"] + 1)
      /\ (cc["video"] + 1) % CcMod \in 0 .. CcMod - 1
  BY <1>4, ModStep
<1>6. /\ cc' \in [Pids -> 0 .. CcMod - 1]
      /\ cc'["video"] = (cc["video"] + 1) % CcMod
  BY <1>4, <1>5 DEF WriteVideo, TakeCounter, TypeOK, Pids
<1>7. ASSUME Demux(VideoPacket)
      PROVE  /\ expect' \in [Pids -> -1 .. CcMod - 1]
             /\ expect'["video"] = cc'["video"]
  BY <1>1, <1>5, <1>6, <1>7, VideoSeen DEF TypeOK, Pids
<1>8. /\ phase' = "idle" => left' = 0
      /\ phase' \in {"video", "idle"}
  BY DEF WriteVideo
<1>9. QED
  BY <1>1, <1>2, <1>3, <1>5, <1>6, <1>7, <1>8, SendsIs

LEMMA NextTypes ==
  ASSUME TypeOK, LeftToWrite, [Next]_vars
  PROVE  TypeOK'
<1>1. ASSUME NEW n \in Lengths, NEW k \in BOOLEAN, Push(n, k)
      PROVE  TypeOK'
  <2>1. n \in Nat
    BY InputAssumption
  <2>2. QED
    BY <1>1, <2>1 DEF Push, demux, TypeOK, Pids
<1>2. CASE WritePat
  <2>1. TakeCounter("pat") /\ Sends(TablePacket("pat"))
    BY <1>2 DEF WritePat
  <2>2. QED
    BY <1>2, <2>1, TableSent DEF WritePat, TypeOK, Pids
<1>3. CASE WritePmt
  <2>1. TakeCounter("pmt") /\ Sends(TablePacket("pmt"))
    BY <1>3 DEF WritePmt
  <2>2. QED
    BY <1>3, <2>1, TableSent DEF WritePmt, TypeOK, Pids
<1>4. CASE WriteVideo
  <2>1. phase = "video"
    BY <1>4 DEF WriteVideo
  <2>2. /\ since_psi' \in Nat /\ since_pmt' \in Nat /\ started' = started
        /\ unit' = unit /\ key' = key
    BY <1>4 DEF WriteVideo, TypeOK
  <2>3. /\ left' \in 0 .. total' /\ total' \in Nat
        /\ phase' \in Pids \cup {"idle", "ended"} /\ cc' \in [Pids -> 0 .. CcMod - 1]
    BY <1>4, VideoSent DEF Pids, TypeOK
  <2>4. CASE Demux(VideoPacket) /\ faults' = faults
                /\ expect' \in [Pids -> -1 .. CcMod - 1]
    <3>1. current' \in Gathered /\ access_units' \subseteq Gathered
      BY <2>1, <2>4, VideoSeen, TypesOfGather DEF TypeOK
    <3>2. stream_type' = stream_type
      BY <2>1, <2>4, VideoSeen
    <3>3. QED
      BY <2>2, <2>3, <2>4, <3>1, <3>2 DEF TypeOK
  <2>5. CASE /\ expect' = expect /\ stream_type' = stream_type
             /\ current' = current /\ access_units' = access_units
             /\ faults' = [fail |-> faults.fail, loss |-> faults.loss + 1]
    BY <2>2, <2>3, <2>5 DEF TypeOK
  <2>6. QED
    BY <1>4, <2>4, <2>5, VideoSent
<1>5. CASE SinkFails
  <2>1. phase \in Pids
    BY <1>5 DEF SinkFails
  <2>2. (cc[phase] + 1) % CcMod \in 0 .. CcMod - 1
    BY <2>1, ModStep, ModulusAssumption DEF TypeOK
  <2>3. cc' \in [Pids -> 0 .. CcMod - 1]
    BY <1>5, <2>1, <2>2 DEF SinkFails, CounterSpent, TakeCounter, TypeOK
  <2>4. QED
    BY <1>5, <2>3 DEF SinkFails, StartedOnlyWhole, demux, TypeOK
<1>6. CASE EndOfStream
  <2>1. current \in Gathered /\ NoUnit \in Gathered
    BY DEF TypeOK, NoUnit, Gathered
  <2>2. [current EXCEPT !.last = TRUE] \in Gathered
    BY <2>1 DEF Gathered
  <2>3. access_units' \subseteq Gathered /\ current' \in Gathered
    BY <1>6, <2>1, <2>2 DEF EndOfStream, TypeOK
  <2>4. QED
    BY <1>6, <2>3 DEF EndOfStream, TypeOK
<1>7. CASE UNCHANGED vars
  BY <1>7 DEF vars, mux, demux, TypeOK
<1>8. QED
  BY <1>1, <1>2, <1>3, <1>4, <1>5, <1>6, <1>7 DEF Next

LEMMA NextLeft ==
  ASSUME TypeOK, LeftToWrite, [Next]_vars
  PROVE  LeftToWrite'
<1>1. Layout
  BY DEF Layout, TypeOK
<1>2. QED
  BY <1>1, NextLayout DEF Layout

LEMMA NextUntouched ==
  ASSUME UnitUntouched, [Next]_vars
  PROVE  UnitUntouched'
<1>1. CASE UNCHANGED vars
  BY <1>1 DEF vars, mux, UnitUntouched
<1>2. CASE WriteVideo
  BY <1>2 DEF WriteVideo, UnitUntouched
<1>3. QED
  BY <1>1, <1>2
  DEF Next, Push, WritePat, WritePmt, SinkFails, EndOfStream, UnitUntouched

(* Expected is: no counter seen yet, or the very one the packet has.        *)
LEMMA NextNothingSeen ==
  ASSUME TypeOK, LeftToWrite, NothingSeen, [Next]_vars
  PROVE  NothingSeen'
<1>1. CASE WritePat
  BY <1>1, TableSent DEF WritePat, NothingSeen
<1>2. CASE WritePmt
  BY <1>2, TableSent DEF WritePmt, NothingSeen
<1>3. CASE WriteVideo
  <2>1. cc'["video"] # -1
    BY <1>3, VideoSent, ModulusAssumption DEF Pids
  <2>2. QED
    BY <1>3, <2>1, VideoSent DEF NothingSeen
<1>4. CASE SinkFails \/ EndOfStream \/ UNCHANGED vars
  BY <1>4 DEF SinkFails, EndOfStream, vars, demux, NothingSeen
<1>5. ASSUME NEW n \in Lengths, NEW k \in BOOLEAN, Push(n, k)
      PROVE  NothingSeen'
  BY <1>5 DEF Push, demux, NothingSeen
<1>6. QED
  BY <1>1, <1>2, <1>3, <1>4, <1>5 DEF Next

LEMMA NextTables ==
  ASSUME TypeOK, LeftToWrite, TablesWritten, [Next]_vars
  PROVE  TablesWritten'
<1>1. CASE WritePat
  BY <1>1, TableSent DEF WritePat, TablesWritten, TypeOK
<1>2. CASE WritePmt
  BY <1>2, TableSent DEF WritePmt, TablesWritten, TypeOK
<1>3. CASE WriteVideo
  <2>1. phase = "video" /\ started' = started
    BY <1>3 DEF WriteVideo
  <2>2. CASE Demux(VideoPacket) /\ faults' = faults
    BY <2>1, <2>2, VideoSeen DEF TablesWritten
  <2>3. CASE /\ stream_type' = stream_type
             /\ faults' = [fail |-> faults.fail, loss |-> faults.loss + 1]
    BY <2>1, <2>3 DEF TablesWritten, TypeOK
  <2>4. QED
    BY <1>3, <2>2, <2>3, VideoSent
<1>4. CASE SinkFails
  BY <1>4 DEF SinkFails, StartedOnlyWhole, demux, TablesWritten, TypeOK
<1>5. ASSUME NEW n \in Lengths, NEW k \in BOOLEAN, Push(n, k)
      PROVE  TablesWritten'
  BY <1>5 DEF Push, NeedsPsi, demux, TablesWritten
<1>6. CASE EndOfStream \/ UNCHANGED vars
  BY <1>6 DEF EndOfStream, vars, mux, demux, TablesWritten
<1>7. QED
  BY <1>1, <1>2, <1>3, <1>4, <1>5, <1>6 DEF Next

LEMMA NextTablesFirst ==
  ASSUME TypeOK, LeftToWrite, TablesWritten, TablesFirst, [Next]_vars
  PROVE  TablesFirst'
<1>0. faults.loss \in Nat
  BY DEF TypeOK
<1>1. ASSUME NEW pid \in {"pat", "pmt"}, TakeCounter(pid),
             Sends(TablePacket(pid))
      PROVE  TablesFirst'
  <2>1. /\ current' = current /\ access_units' = access_units
        /\ stream_type => stream_type'
        /\ faults' = faults \/ faults'.loss # 0
    BY <1>0, <1>1, TableSent
  <2>2. QED
    BY <2>1 DEF TablesFirst
<1>2. CASE WritePat \/ WritePmt
  BY <1>1, <1>2 DEF WritePat, WritePmt
<1>3. CASE WriteVideo
  <2>1. phase = "video"
    BY <1>3 DEF WriteVideo
  <2>2. CASE Demux(VideoPacket) /\ faults' = faults
    BY <2>1, <2>2, VideoSeen DEF TablesFirst, TablesWritten
  <2>3. CASE faults' = [fail |-> faults.fail, loss |-> faults.loss + 1]
    BY <1>0, <2>3 DEF TablesFirst
  <2>4. QED
    BY <1>3, <2>2, <2>3, VideoSent
<1>4. CASE SinkFails \/ UNCHANGED vars
  BY <1>4 DEF SinkFails, vars, demux, TablesFirst
<1>5. ASSUME NEW n \in Lengths, NEW k \in BOOLEAN, Push(n, k)
      PROVE  TablesFirst'
  BY <1>5 DEF Push, demux, TablesFirst
<1>6. CASE EndOfStream
  BY <1>6 DEF EndOfStream, TablesFirst
<1>7. QED
  BY <1>2, <1>3, <1>4, <1>5, <1>6 DEF Next

(* A counter as expected, with fewer missing than it has values: nothing is *)
(* missing, and what is gathered is what was written.                       *)
LEMMA NoneMissing ==
  ASSUME TypeOK, GapShows, NothingSeen, LeftToWrite, phase = "video",
         faults.fail + faults.loss < CcMod,
         Expected(VideoPacket), current.clean
  PROVE  Aligned
<1>1. expect["video"] # -1
  <2>1. current # NoUnit
    BY DEF NoUnit
  <2>2. QED
    BY <2>1 DEF NothingSeen
<1>2. expect["video"] = cc["video"]
  BY <1>1, VideoPacketIs DEF Expected
<1>3. PICK m \in 0 .. faults.fail + faults.loss : Missing(m) /\ (m = 0 => Aligned)
  BY <1>1 DEF GapShows
<1>4. /\ faults.fail + faults.loss \in Nat /\ expect["video"] \in -1 .. CcMod - 1
      /\ CcMod \in Nat
  BY ModulusAssumption DEF TypeOK, Pids
<1>5. m = 0
  BY <1>1, <1>2, <1>3, <1>4 DEF Missing
<1>6. QED
  BY <1>3, <1>5

(* What the demuxer has seen of the unit, it has in the right place.        *)
LEMMA SeenAligned ==
  ASSUME TypeOK, LeftToWrite, GapShows, NothingSeen, WriteVideo,
         Demux(VideoPacket), faults.fail + faults.loss < CcMod
  PROVE  Aligned'
<1>1. phase = "video"
  BY DEF WriteVideo
<1>2. /\ Take \in 1 .. left /\ left' = left - Take /\ left' \in Nat
      /\ left \in Nat /\ total \in Nat /\ total' = total /\ unit' = unit
      /\ left' # total' /\ (phase' = "idle" => left' = 0)
  BY VideoSent
<1>3. current' = IF First \/ current # NoUnit THEN Gather(VideoPacket) ELSE current
  BY <1>1, VideoSeen
<1>4. ASSUME current'.clean
      PROVE  /\ current'.intact /\ current'.unit = unit
             /\ current'.total = total /\ current'.have = total - left'
  <2>1. CASE First
    <3>1. current' = Gather(VideoPacket)
      BY <1>3, <2>1
    <3>2. total - left' = Take
      BY <1>2, <2>1 DEF First
    <3>3. QED
      BY <1>1, <2>1, <3>1, <3>2, GatherFirst
  <2>2. CASE ~ First
    <3>1. current # NoUnit
      <4>1. ~ NoUnit.clean
        BY DEF NoUnit
      <4>2. QED
        BY <1>3, <1>4, <2>2, <4>1
    <3>2. current' = Gather(VideoPacket)
      BY <1>3, <3>1
    <3>3. /\ current.clean /\ Expected(VideoPacket)
          /\ current'.unit = current.unit
          /\ current'.total = current.total
          /\ current'.have = current.have + Take
          /\ current.intact /\ unit = current.unit /\ total - left = current.have
               => current'.intact
      BY <1>1, <1>4, <2>2, <3>2, GatherMore
    <3>4. Aligned
      BY <1>1, <3>3, NoneMissing
    <3>5. /\ current.intact /\ current.unit = unit /\ current.total = total
          /\ current.have = total - left
      BY <2>2, <3>3, <3>4 DEF Aligned, First
    <3>6. current'.have = total - left'
      BY <1>2, <3>3, <3>5
    <3>7. QED
      BY <3>3, <3>5, <3>6
  <2>3. QED
    BY <2>1, <2>2
<1>5. QED
  BY <1>2, <1>4 DEF Aligned

(* What is gathered changes with a packet of video that arrives, and with   *)
(* the end of the stream.                                                   *)
LEMMA NextBegins ==
  ASSUME TypeOK, LeftToWrite, NothingSeen, GapShows, BeginsUnit, [Next]_vars
  PROVE  BeginsUnit'
<1>0. faults.fail \in Nat /\ faults.loss \in Nat /\ CcMod \in Nat
  BY ModulusAssumption DEF TypeOK
<1>1. ASSUME current' = current,
             \/ faults' = faults
             \/ faults' = [fail |-> faults.fail, loss |-> faults.loss + 1]
             \/ faults' = [fail |-> faults.fail + 1, loss |-> faults.loss]
      PROVE  BeginsUnit'
  BY <1>0, <1>1 DEF BeginsUnit
<1>2. CASE WritePat
  <2>1. TakeCounter("pat") /\ Sends(TablePacket("pat"))
    BY <1>2 DEF WritePat
  <2>2. QED
    BY <1>1, <2>1, TableSent
<1>3. CASE WritePmt
  <2>1. TakeCounter("pmt") /\ Sends(TablePacket("pmt"))
    BY <1>3 DEF WritePmt
  <2>2. QED
    BY <1>1, <2>1, TableSent
<1>4. CASE WriteVideo
  <2>1. CASE Demux(VideoPacket) /\ faults' = faults
    BY <1>4, <2>1, SeenAligned DEF BeginsUnit, Aligned
  <2>2. QED
    BY <1>1, <1>4, <2>1, VideoSent
<1>5. CASE SinkFails \/ UNCHANGED vars
  BY <1>1, <1>5 DEF SinkFails, vars, demux
<1>6. ASSUME NEW n \in Lengths, NEW k \in BOOLEAN, Push(n, k)
      PROVE  BeginsUnit'
  BY <1>1, <1>6 DEF Push, demux
<1>7. CASE EndOfStream
  BY <1>7 DEF EndOfStream, BeginsUnit, NoUnit
<1>8. QED
  BY <1>2, <1>3, <1>4, <1>5, <1>6, <1>7 DEF Next

LEMMA NextLast ==
  ASSUME TypeOK, LeftToWrite, LastIsLast, [Next]_vars
  PROVE  LastIsLast'
<1>1. ASSUME phase # "ended", current' = current, access_units' = access_units
      PROVE  LastIsLast'
  BY <1>1 DEF LastIsLast
<1>2. CASE WritePat
  <2>1. TakeCounter("pat") /\ Sends(TablePacket("pat")) /\ phase = "pat"
    BY <1>2 DEF WritePat
  <2>2. QED
    BY <1>1, <2>1, TableSent
<1>3. CASE WritePmt
  <2>1. TakeCounter("pmt") /\ Sends(TablePacket("pmt")) /\ phase = "pmt"
    BY <1>3 DEF WritePmt
  <2>2. QED
    BY <1>1, <2>1, TableSent
<1>4. CASE WriteVideo
  <2>1. phase = "video" /\ current \in Gathered /\ ~ current.last
    BY <1>4 DEF WriteVideo, TypeOK, LastIsLast
  <2>2. CASE Demux(VideoPacket)
    <3>1. /\ access_units' = access_units \cup Finished(VideoPacket)
          /\ current' = IF First \/ current # NoUnit THEN Gather(VideoPacket)
                        ELSE current
      BY <2>1, <2>2, VideoSeen
    <3>2. ~ Gather(VideoPacket).last
      <4>1. \A h, i, c : ~ [current EXCEPT !.have = h, !.intact = i, !.clean = c].last
        BY <2>1 DEF Gathered
      <4>2. CASE VideoPacket.pusi
        BY <4>2 DEF Gather
      <4>3. CASE ~ VideoPacket.pusi
        BY <4>1, <4>3, Zenon DEF Gather
      <4>4. QED
        BY <4>2, <4>3
    <3>3. \A u \in Finished(VideoPacket) : ~ u.last
      <4>1. \A c : ~ [current EXCEPT !.clean = c].last
        BY <2>1 DEF Gathered
      <4>2. QED
        BY <4>1, Zenon DEF Finished
    <3>4. QED
      BY <2>1, <3>1, <3>2, <3>3, Zenon DEF LastIsLast
  <2>3. QED
    BY <1>1, <1>4, <2>1, <2>2, VideoSent
<1>5. CASE SinkFails
  BY <1>1, <1>5 DEF SinkFails, demux, Pids
<1>6. ASSUME NEW n \in Lengths, NEW k \in BOOLEAN, Push(n, k)
      PROVE  LastIsLast'
  BY <1>1, <1>6 DEF Push, demux
<1>7. CASE EndOfStream
  BY <1>7 DEF EndOfStream, LastIsLast
<1>8. CASE UNCHANGED vars
  BY <1>8 DEF LastIsLast, vars, mux, demux
<1>9. QED
  BY <1>2, <1>3, <1>4, <1>5, <1>6, <1>7, <1>8 DEF Next

(* What is being gathered when the stream ends is the beginning of a unit,  *)
(* and all of it unless its end is missing unseen.                          *)
LEMMA EndIsClean ==
  ASSUME TypeOK, NothingSeen, GapShows, BeginsUnit, EndOfStream,
         faults.fail + faults.loss < CcMod, current.clean,
         NEW u, u = [current EXCEPT !.last = TRUE]
  PROVE  u.intact /\ (u.have = u.total \/ EndUnseen(u)')
<1>1. /\ u.intact = current.intact /\ u.have = current.have
      /\ u.total = current.total /\ u.unit = current.unit /\ u.last
  BY DEF TypeOK, Gathered
<1>2. UNCHANGED <<cc, expect, unit, left, total>>
  BY DEF EndOfStream
<1>3. current.intact
  BY DEF BeginsUnit
<1>4. expect["video"] # -1
  BY DEF NothingSeen, NoUnit
<1>5. CASE expect["video"] # cc["video"]
  BY <1>1, <1>2, <1>3, <1>5 DEF EndUnseen
<1>6. CASE expect["video"] = cc["video"]
  <2>1. PICK m \in 0 .. faults.fail + faults.loss :
               Missing(m) /\ (m = 0 => Aligned)
    BY <1>4 DEF GapShows
  <2>2. /\ faults.fail + faults.loss \in Nat
        /\ expect["video"] \in -1 .. CcMod - 1 /\ CcMod \in Nat
    BY ModulusAssumption DEF TypeOK, Pids
  <2>3. m = 0
    BY <1>4, <1>6, <2>1, <2>2 DEF Missing
  <2>4. IF left = total THEN current.have = current.total
        ELSE /\ current.unit = unit /\ current.total = total
             /\ current.have = total - left
    BY <2>1, <2>3 DEF Aligned
  <2>5. left \in Nat /\ total \in Nat
    BY DEF TypeOK
  <2>6. current.have = current.total \/ (current.unit = unit /\ left > 0)
    BY <2>4, <2>5
  <2>7. QED
    BY <1>1, <1>2, <1>3, <2>6 DEF EndUnseen
<1>7. QED
  BY <1>5, <1>6

(* A unit handed out clean is whole: its last packet was seen, and nothing  *)
(* went missing before the start that ends it.                              *)
LEMMA NextClean ==
  ASSUME TypeOK, LeftToWrite, NothingSeen, GapShows, BeginsUnit, LastIsLast,
         CleanIsWhole, [Next]_vars
  PROVE  CleanIsWhole'
<1>0. faults.fail \in Nat /\ faults.loss \in Nat /\ CcMod \in Nat
  BY ModulusAssumption DEF TypeOK
<1>1. CASE UNCHANGED vars
  BY <1>1 DEF vars, mux, demux, CleanIsWhole, EndUnseen
<1> DEFINE AllWhole == \A u \in access_units : u.clean => u.intact /\ u.have = u.total
<1>2. ASSUME phase # "ended", faults.fail + faults.loss < CcMod
      PROVE  AllWhole
  BY <1>2 DEF CleanIsWhole, LastIsLast, EndUnseen
<1>3. AllWhole' => CleanIsWhole'
  BY DEF CleanIsWhole
<1>4. ASSUME phase # "ended", access_units' = access_units,
             \/ faults' = faults
             \/ faults' = [fail |-> faults.fail, loss |-> faults.loss + 1]
             \/ faults' = [fail |-> faults.fail + 1, loss |-> faults.loss]
      PROVE  CleanIsWhole'
  <2> SUFFICES ASSUME faults'.fail + faults'.loss < CcMod PROVE CleanIsWhole'
    BY DEF CleanIsWhole
  <2>1. faults.fail + faults.loss < CcMod
    BY <1>0, <1>4
  <2>2. AllWhole'
    BY <1>2, <1>4, <2>1
  <2>3. QED
    BY <1>3, <2>2
<1>5. CASE WritePat
  <2>1. TakeCounter("pat") /\ Sends(TablePacket("pat")) /\ phase = "pat"
    BY <1>5 DEF WritePat
  <2>2. QED
    BY <1>4, <2>1, TableSent
<1>6. CASE WritePmt
  <2>1. TakeCounter("pmt") /\ Sends(TablePacket("pmt")) /\ phase = "pmt"
    BY <1>6 DEF WritePmt
  <2>2. QED
    BY <1>4, <2>1, TableSent
<1>7. CASE WriteVideo
  <2>1. phase = "video"
    BY <1>7 DEF WriteVideo
  <2>2. CASE Demux(VideoPacket) /\ faults' = faults
    <3> SUFFICES ASSUME faults.fail + faults.loss < CcMod PROVE CleanIsWhole'
      BY <2>2 DEF CleanIsWhole
    <3>1. access_units' = access_units \cup Finished(VideoPacket)
      BY <2>1, <2>2, VideoSeen
    <3>2. ASSUME NEW u \in Finished(VideoPacket), u.clean
          PROVE  u.intact /\ u.have = u.total
      <4>1. /\ First /\ current.clean /\ Expected(VideoPacket)
            /\ u.intact = current.intact
            /\ u.have = current.have /\ u.total = current.total
        BY <2>1, <3>2, FinishedIs
      <4>2. Aligned
        BY <2>1, <3>2, <4>1, NoneMissing
      <4>3. QED
        BY <4>1, <4>2 DEF Aligned, First
    <3>3. AllWhole'
      BY <1>2, <2>1, <3>1, <3>2
    <3>4. QED
      BY <1>3, <3>3
  <2>3. QED
    BY <1>4, <1>7, <2>1, <2>2, VideoSent
<1>8. CASE SinkFails
  BY <1>4, <1>8 DEF SinkFails, demux, Pids
<1>9. ASSUME NEW n \in Lengths, NEW k \in BOOLEAN, Push(n, k)
      PROVE  CleanIsWhole'
  BY <1>4, <1>9 DEF Push, demux
<1>10. CASE EndOfStream
  <2> SUFFICES ASSUME faults.fail + faults.loss < CcMod, NEW u \in access_units',
                      u.clean
               PROVE  u.intact /\ (u.have = u.total \/ EndUnseen(u)')
    BY <1>10 DEF EndOfStream, CleanIsWhole
  <2>1. u \in access_units \/ u = [current EXCEPT !.last = TRUE]
    BY <1>10 DEF EndOfStream
  <2>2. CASE u \in access_units
    BY <1>2, <1>10, <2>2 DEF EndOfStream
  <2>3. CASE u = [current EXCEPT !.last = TRUE]
    <3>1. current.clean
      BY <2>3 DEF TypeOK, Gathered
    <3>2. QED
      BY <1>10, <2>3, <3>1, EndIsClean
  <2>4. QED
    BY <2>1, <2>2, <2>3
<1>11. QED
  BY <1>1, <1>5, <1>6, <1>7, <1>8, <1>9, <1>10 DEF Next

LEMMA NextGap ==
  ASSUME TypeOK, LeftToWrite, UnitUntouched, NothingSeen, GapShows, [Next]_vars
  PROVE  GapShows'
<1>0. /\ faults.fail \in Nat /\ faults.loss \in Nat /\ CcMod \in Nat \ {0}
      /\ cc["video"] \in 0 .. CcMod - 1 /\ expect["video"] \in -1 .. CcMod - 1
  BY ModulusAssumption DEF TypeOK, Pids
<1>1. SUFFICES ASSUME faults'.fail + faults'.loss < CcMod, expect'["video"] # -1
               PROVE  \E m \in 0 .. faults'.fail + faults'.loss :
                        Missing(m)' /\ (m = 0 => Aligned')
  BY DEF GapShows
(* One more goes missing.                                                   *)
<1>2. ASSUME expect'["video"] = expect["video"],
             cc'["video"] = IF cc["video"] + 1 = CcMod THEN 0 ELSE cc["video"] + 1,
             faults'.fail + faults'.loss = faults.fail + faults.loss + 1
      PROVE  \E m \in 0 .. faults'.fail + faults'.loss :
               Missing(m)' /\ (m = 0 => Aligned')
  <2>1. PICK m \in 0 .. faults.fail + faults.loss : Missing(m)
    BY <1>0, <1>1, <1>2 DEF GapShows
  <2>2. m + 1 \in 0 .. faults'.fail + faults'.loss /\ m + 1 # 0
    BY <1>0, <1>2, <2>1
  <2>3. Missing(m + 1)'
    <3>1. m \in Nat /\ m + 1 < CcMod
      BY <1>0, <1>1, <1>2
    <3>2. cc["video"] = IF expect["video"] + m < CcMod THEN expect["video"] + m
                        ELSE expect["video"] + m - CcMod
      BY <2>1 DEF Missing
    <3>3. cc'["video"] = IF expect["video"] + (m + 1) < CcMod
                         THEN expect["video"] + (m + 1)
                         ELSE expect["video"] + (m + 1) - CcMod
      BY <1>0, <1>1, <1>2, <3>1, <3>2
    <3>4. QED
      BY <1>2, <3>3 DEF Missing
  <2>4. QED
    BY <2>2, <2>3
(* Nothing of the video moves, but perhaps more faults are on the account.  *)
<1>3. ASSUME expect'["video"] = expect["video"], cc'["video"] = cc["video"],
             faults'.fail + faults'.loss \in Nat,
             faults'.fail + faults'.loss >= faults.fail + faults.loss,
             Aligned => Aligned'
      PROVE  \E m \in 0 .. faults'.fail + faults'.loss :
               Missing(m)' /\ (m = 0 => Aligned')
  <2>1. PICK m \in 0 .. faults.fail + faults.loss :
               Missing(m) /\ (m = 0 => Aligned)
    BY <1>0, <1>1, <1>3 DEF GapShows
  <2>2. m \in 0 .. faults'.fail + faults'.loss /\ Missing(m)'
    BY <1>0, <1>3, <2>1 DEF Missing
  <2>3. QED
    BY <1>3, <2>1, <2>2
<1>4. ASSUME NEW n \in Lengths, NEW k \in BOOLEAN, Push(n, k)
      PROVE  \E m \in 0 .. faults'.fail + faults'.loss :
               Missing(m)' /\ (m = 0 => Aligned')
  <2>1. phase = "idle" /\ left' = total' /\ phase' # "idle"
    BY <1>4 DEF Push
  <2>2. cc' = cc /\ expect' = expect /\ faults' = faults /\ current' = current
    BY <1>4 DEF Push, demux
  <2>3. total \in Nat /\ left \in 0 .. total
    BY DEF TypeOK
  <2>4. Aligned => Aligned'
    BY <2>1, <2>2, <2>3 DEF Aligned
  <2>5. QED
    BY <1>0, <1>3, <2>2, <2>4
<1>5. ASSUME NEW pid \in {"pat", "pmt"}, TakeCounter(pid),
             Sends(TablePacket(pid)), phase' # "idle",
             UNCHANGED <<unit, total, left>>
      PROVE  \E m \in 0 .. faults'.fail + faults'.loss :
               Missing(m)' /\ (m = 0 => Aligned')
  <2>1. /\ cc'["video"] = cc["video"] /\ expect'["video"] = expect["video"]
        /\ current' = current
        /\ \/ faults' = faults
           \/ faults' = [fail |-> faults.fail, loss |-> faults.loss + 1]
    BY <1>5, TableSent
  <2>2. Aligned => Aligned'
    BY <1>5, <2>1 DEF Aligned
  <2>3. /\ faults'.fail + faults'.loss \in Nat
        /\ faults'.fail + faults'.loss >= faults.fail + faults.loss
    BY <1>0, <2>1
  <2>4. QED
    BY <1>3, <2>1, <2>2, <2>3
<1>6. CASE WritePat \/ WritePmt
  BY <1>5, <1>6 DEF WritePat, WritePmt
<1>7. CASE WriteVideo
  <2>1. cc'["video"] = IF cc["video"] + 1 = CcMod THEN 0 ELSE cc["video"] + 1
    BY <1>7, VideoSent
  <2>2. CASE Demux(VideoPacket) /\ faults' = faults
                /\ expect'["video"] = cc'["video"]
    <3>1. Aligned'
      BY <1>1, <1>7, <2>2, SeenAligned
    <3>2. 0 \in 0 .. faults'.fail + faults'.loss
      BY <1>0, <2>2
    <3>3. Missing(0)'
      BY <1>0, <2>1, <2>2 DEF Missing
    <3>4. QED
      BY <3>1, <3>2, <3>3
  <2>3. CASE /\ expect' = expect
             /\ faults' = [fail |-> faults.fail, loss |-> faults.loss + 1]
    <3>1. faults'.fail + faults'.loss = faults.fail + faults.loss + 1
      BY <1>0, <2>3
    <3>2. QED
      BY <1>2, <2>1, <2>3, <3>1
  <2>4. QED
    BY <1>7, <2>2, <2>3, VideoSent
<1>8. CASE SinkFails
  <2>1. /\ expect' = expect /\ current' = current
        /\ faults'.fail + faults'.loss = faults.fail + faults.loss + 1
    BY <1>0, <1>8 DEF SinkFails, demux
  <2>2. CASE phase = "video"
    <3>1. cc'["video"] = IF cc["video"] + 1 = CcMod THEN 0 ELSE cc["video"] + 1
      BY <1>0, <1>8, <2>2, ModStep
      DEF SinkFails, CounterSpent, TakeCounter, TypeOK, Pids
    <3>2. QED
      BY <1>2, <2>1, <3>1
  <2>3. CASE phase # "video"
    <3>1. phase \in {"pat", "pmt"}
      BY <1>8, <2>3 DEF SinkFails, TypeOK, Pids
    <3>2. cc'["video"] = cc["video"]
      BY <1>8, <3>1 DEF SinkFails, CounterSpent, TakeCounter, TypeOK, Pids
    <3>3. left = total /\ left' = left /\ total' = total /\ unit' = unit
      BY <1>8, <3>1 DEF SinkFails, UnitUntouched
    <3>4. Aligned => Aligned'
      BY <2>1, <3>3 DEF Aligned
    <3>5. QED
      BY <1>0, <1>3, <2>1, <3>2, <3>4
  <2>4. QED
    BY <2>2, <2>3
<1>9. CASE UNCHANGED vars
  <2>1. cc' = cc /\ expect' = expect /\ faults' = faults /\ (Aligned => Aligned')
    BY <1>9 DEF vars, mux, demux, Aligned
  <2>2. QED
    BY <1>0, <1>3, <2>1
<1>10. CASE EndOfStream
  <2>1. cc' = cc /\ expect' = expect /\ faults' = faults /\ current' = NoUnit
        /\ phase' = "ended"
    BY <1>10 DEF EndOfStream
  <2>2. Aligned'
    BY <2>1 DEF Aligned, NoUnit
  <2>3. QED
    BY <1>0, <1>3, <2>1, <2>2
<1>11. QED
  BY <1>4, <1>6, <1>7, <1>8, <1>9, <1>10 DEF Next

LEMMA InitMuxInv == Init => MuxInv
<1>1. SUFFICES ASSUME Init PROVE MuxInv
  OBVIOUS
<1>2. TypeOK
  <2>1. NoUnit \in Gathered
    BY DEF NoUnit, Gathered
  <2>2. cc \in [Pids -> 0 .. CcMod - 1] /\ expect \in [Pids -> -1 .. CcMod - 1]
    BY <1>1, ModulusAssumption DEF Init
  <2>3. phase \in Pids \cup {"idle", "ended"} /\ left \in 0 .. total
    BY <1>1 DEF Init
  <2>4. QED
    BY <1>1, <2>1, <2>2, <2>3 DEF Init, TypeOK
<1>3. expect["video"] = -1 /\ current = NoUnit /\ access_units = {}
  BY <1>1 DEF Init, Pids
<1>4. LeftToWrite /\ UnitUntouched /\ NothingSeen /\ GapShows /\ TablesWritten
  BY <1>1, <1>3
  DEF Init, LeftToWrite, UnitUntouched, NothingSeen, GapShows, TablesWritten,
      Pids
<1>5. TablesFirst /\ BeginsUnit /\ LastIsLast /\ CleanIsWhole
  BY <1>3 DEF TablesFirst, BeginsUnit, LastIsLast, CleanIsWhole, NoUnit
<1>6. QED
  BY <1>2, <1>4, <1>5 DEF MuxInv

LEMMA NextMuxInv == MuxInv /\ [Next]_vars => MuxInv'
  BY NextTypes, NextLeft, NextUntouched, NextNothingSeen, NextGap, NextTables,
     NextTablesFirst, NextBegins, NextLast, NextClean
  DEF MuxInv

(* The inductive invariant of mux, link and demuxer.                        *)
THEOREM MpegTsInvariant == Spec => []MuxInv
  BY InitMuxInv, NextMuxInv, PTL DEF Spec

(* Mux and demuxer keep their types, and however the sink fails, and unless *)
(* the link loses a table, no video comes before the PMT that names it.     *)
THEOREM MpegTsTypesAndTables == Spec => []TsInv
<1>1. MuxInv => TsInv
  BY DEF MuxInv, TsInv
<1>2. QED
  BY <1>1, MpegTsInvariant, PTL

(* For any packet, counter and unit sizes, while fewer packets have been    *)
(* lost or refused than the counter has values: an access unit gathered     *)
(* with clean counters is the unit that was pushed, whole.                  *)
THEOREM MpegTsCleanIsWhole == Spec => []CleanIsWhole
<1>1. MuxInv => CleanIsWhole
  BY DEF MuxInv
<1>2. QED
  BY <1>1, MpegTsInvariant, PTL

------------------------------------------------------------------------------
(* How far apart the tables are.                                            *)

(* The packets that l bytes take when none of them holds a PCR.             *)
Whole(l) == (l + Body - 1) \div Body

(* The packets of the unit that are still to come.                          *)
ToCome == IF left = total THEN UnitPackets(total) ELSE Whole(left)

(* The count is within an interval and one access unit's packets, and e.    *)
Within(e) == \E n \in Lengths : since_psi < PsiInterval + UnitPackets(n) + e

(* Push looks at the count between two units only; once it lets a unit go,  *)
(* the packets to come of it are accounted for.                             *)
Spacing ==
  faults.fail = 0 =>
    /\ since_pmt = since_psi
    /\ phase \in Pids => total \in Lengths
    /\ phase \in {"idle", "pat"} => since_psi = 0 \/ Within(0)
    /\ phase = "pmt" => Within(1)
    /\ phase = "video" => since_psi + ToCome < PsiInterval + UnitPackets(total)
    /\ phase = "ended" => PsiBounded

LEMMA WholeIs ==
  ASSUME NEW l \in Nat
  PROVE  /\ Whole(l) \in Nat
         /\ l > 0 => Whole(l) >= 1
         /\ Whole(l + Body) = 1 + Whole(l)
<1>1. Body \in Nat /\ Body > 0
  BY BodyAssumption
<1> DEFINE a == l + Body - 1
<1>2. a \in Nat /\ (l > 0 => a >= Body) /\ (l + Body) + Body - 1 = a + Body
  BY <1>1
<1>3. Whole(l) = a \div Body /\ Whole(l + Body) = (a + Body) \div Body
  BY <1>2 DEF Whole
<1> HIDE DEF a
<1>4. /\ a \div Body \in Nat /\ (a + Body) \div Body = 1 + (a \div Body)
      /\ a >= Body => a \div Body >= 1
  BY <1>1, <1>2
<1>5. QED
  BY <1>2, <1>3, <1>4

LEMMA UnitPacketsIs ==
  ASSUME NEW n \in Nat
  PROVE  /\ UnitPackets(n) \in Nat /\ UnitPackets(n) >= 1
         /\ n > Body - PcrField =>
              UnitPackets(n) = 1 + Whole(n - (Body - PcrField))
<1>1. Body \in Nat /\ PcrField \in Nat /\ Body > PcrField
  BY BodyAssumption
<1>2. CASE n <= Body - PcrField
  BY <1>1, <1>2 DEF UnitPackets
<1>3. CASE n > Body - PcrField
  <2>1. n - (Body - PcrField) \in Nat
    BY <1>1, <1>3
  <2>2. UnitPackets(n) = 1 + Whole(n - (Body - PcrField))
    BY <1>1, <1>3 DEF UnitPackets, Whole
  <2>3. QED
    BY <2>1, <2>2, WholeIs
<1>4. QED
  BY <1>1, <1>2, <1>3

(* Each packet of a unit is one less to come, and only the last ends it.    *)
LEMMA OneLessToCome ==
  ASSUME TypeOK, LeftToWrite, WriteVideo
  PROVE  /\ ToCome \in Nat /\ ToCome >= 1
         /\ left' # 0 => ToCome' = ToCome - 1
<1>1. phase = "video" /\ left' = left - Reads /\ total' = total
  BY DEF WriteVideo
<1>2. Take \in 1 .. left /\ Reads = Take /\ left \in Nat /\ total \in Nat /\ left <= total
  <2>1. Take \in 1 .. left /\ Reads = Take /\ left \in Nat /\ total \in Nat
    BY <1>1, VideoPacketIs
  <2>2. left <= total
    BY <2>1 DEF TypeOK
  <2>3. QED
    BY <2>1, <2>2
<1>3. Body \in Nat /\ PcrField \in Nat /\ Body > PcrField
  BY BodyAssumption
<1>4. left' \in Nat /\ left' < left /\ left > 0
  BY <1>1, <1>2
<1>5. ToCome' = Whole(left')
  BY <1>1, <1>2, <1>4 DEF ToCome, Whole
<1>6. ASSUME left' # 0
      PROVE  left = left' + (IF First THEN Body - PcrField ELSE Body)
  <2>1. Take < left
    BY <1>1, <1>2, <1>4, <1>6
  <2>2. Layout
    BY DEF Layout, TypeOK
  <2>3. Take = IF First THEN Body - PcrField ELSE Body
    BY <1>1, <2>1, <2>2, Fits
  <2>4. QED
    BY <1>1, <1>2, <1>3, <2>3
<1>7. CASE First
  <2>1. ToCome = UnitPackets(total) /\ left = total
    BY <1>7 DEF First, ToCome
  <2>2. left' # 0 => total > Body - PcrField /\ total - (Body - PcrField) = left'
    <3>1. left' # 0 => total = left' + (Body - PcrField)
      BY <1>6, <1>7, <2>1
    <3>2. left' # 0 => left' > 0
      BY <1>4
    <3>3. \A b, l \in Int : l > 0 => l + b > b /\ (l + b) - b = l
      OBVIOUS
    <3>4. left' \in Int /\ Body - PcrField \in Int
      BY <1>3, <1>4
    <3>5. QED
      BY <3>1, <3>2, <3>3, <3>4
  <2>3. QED
    BY <1>2, <1>4, <1>5, <2>1, <2>2, UnitPacketsIs, WholeIs
<1>8. CASE ~ First
  <2>1. ToCome = Whole(left)
    BY <1>8 DEF First, ToCome
  <2>2. left' # 0 => left = left' + Body
    BY <1>6, <1>8
  <2>3. QED
    BY <1>2, <1>4, <1>5, <2>1, <2>2, WholeIs
<1>9. QED
  BY <1>7, <1>8

LEMMA InitSpacing == Init => Spacing
BY DEF Init, Spacing, Pids

LEMMA SpacingBounds ==
  ASSUME TypeOK, Spacing
  PROVE  PsiBounded
<1> SUFFICES ASSUME faults.fail = 0, since_pmt # 0
             PROVE  \E n \in Lengths : since_pmt <= PsiInterval + UnitPackets(n)
  BY DEF PsiBounded
<1>1. /\ PsiInterval \in Nat /\ since_psi \in Nat /\ since_pmt = since_psi
      /\ \A n \in Lengths : n \in Nat /\ UnitPackets(n) \in Nat
  BY InputAssumption, UnitPacketsIs DEF TypeOK, Spacing
<1>2. Within(0) \/ Within(1) \/ phase = "video" \/ phase = "ended"
  BY <1>1 DEF TypeOK, Spacing, Pids
<1>3. CASE Within(0) \/ Within(1)
  BY <1>1, <1>3 DEF Within
<1>4. CASE phase = "video"
  <2>1. total \in Lengths /\ since_psi + ToCome < PsiInterval + UnitPackets(total)
    BY <1>4 DEF Spacing, Pids
  <2>2. ToCome \in Nat
    BY UnitPacketsIs, WholeIs DEF ToCome, TypeOK
  <2>3. QED
    BY <1>1, <2>1, <2>2
<1>5. CASE phase = "ended"
  BY <1>5 DEF Spacing, PsiBounded
<1>6. QED
  BY <1>2, <1>3, <1>4, <1>5

LEMMA NextSpacing ==
  ASSUME TypeOK, LeftToWrite, UnitUntouched, Spacing, [Next]_vars
  PROVE  Spacing'
<1> USE DEF Within
<1>1. /\ PsiInterval \in Nat /\ PsiInterval >= 1 /\ since_psi \in Nat
      /\ since_pmt \in Nat /\ faults \in [fail : Nat, loss : Nat]
      /\ \A n \in Lengths : n \in Nat /\ UnitPackets(n) \in Nat /\ UnitPackets(n) >= 1
  BY InputAssumption, UnitPacketsIs DEF TypeOK
<1>2. SUFFICES ASSUME faults'.fail = 0 PROVE Spacing'
  BY DEF Spacing
<1>3. CASE SinkFails
  BY <1>1, <1>2, <1>3 DEF SinkFails
<1>4. ASSUME NEW p, Sends(p) PROVE faults.fail = 0
  BY <1>1, <1>2, <1>4, SendsIs
<1>5. CASE \E n \in Lengths, k \in BOOLEAN : Push(n, k)
  <2>1. PICK n \in Lengths, k \in BOOLEAN : Push(n, k)
    BY <1>5
  <2>2. /\ phase = "idle" /\ total' = n /\ left' = n /\ faults' = faults
        /\ since_psi' = since_psi /\ since_pmt' = since_pmt
        /\ phase' = IF NeedsPsi(k) THEN "pat" ELSE "video"
    BY <2>1 DEF Push
  <2>3. /\ since_pmt = since_psi
        /\ since_psi = 0 \/ \E m \in Lengths : since_psi < PsiInterval + UnitPackets(m) + 0
    BY <1>2, <2>2 DEF Spacing
  <2>4. CASE NeedsPsi(k)
    BY <2>2, <2>3, <2>4 DEF Spacing
  <2>5. CASE ~ NeedsPsi(k)
    <3>1. since_psi < PsiInterval
      BY <1>1, <2>5 DEF NeedsPsi
    <3>2. ToCome' = UnitPackets(n)
      BY <2>2 DEF ToCome, UnitPackets
    <3>3. (since_psi + ToCome < PsiInterval + UnitPackets(total))'
      <4>1. UnitPackets(total)' = UnitPackets(n)
        BY <2>2 DEF UnitPackets
      <4>2. QED
        BY <1>1, <2>2, <3>1, <3>2, <4>1
    <3>4. QED
      BY <2>2, <2>3, <2>5, <3>3 DEF Spacing
  <2>6. QED
    BY <2>4, <2>5
<1>6. CASE WritePat
  <2>1. /\ phase = "pat" /\ phase' = "pmt" /\ total' = total /\ left' = left
        /\ since_psi' = since_psi + 1 /\ since_pmt' = since_pmt + 1
        /\ faults.fail = 0
    BY <1>4, <1>6 DEF WritePat
  <2>2. /\ since_pmt = since_psi /\ total \in Lengths
        /\ since_psi = 0 \/ \E m \in Lengths : since_psi < PsiInterval + UnitPackets(m) + 0
    BY <2>1 DEF Spacing, Pids
  <2>3. \E m \in Lengths : since_psi' < PsiInterval + UnitPackets(m) + 1
    BY <1>1, <2>1, <2>2
  <2>4. QED
    BY <2>1, <2>2, <2>3 DEF Spacing
<1>7. CASE WritePmt
  <2>1. /\ phase = "pmt" /\ phase' = "video" /\ total' = total /\ left' = left
        /\ since_psi' = 0 /\ since_pmt' = 0 /\ faults.fail = 0
    BY <1>4, <1>7 DEF WritePmt
  <2>2. total \in Lengths /\ left = total
    BY <2>1 DEF Spacing, UnitUntouched, Pids
  <2>3. ToCome' = UnitPackets(total) /\ UnitPackets(total)' = UnitPackets(total)
    BY <2>1, <2>2 DEF ToCome, UnitPackets
  <2>4. (since_psi + ToCome < PsiInterval + UnitPackets(total))'
    BY <1>1, <2>1, <2>2, <2>3
  <2>5. QED
    BY <2>1, <2>2, <2>4 DEF Spacing
<1>8. CASE WriteVideo
  <2>1. /\ phase = "video" /\ total' = total /\ faults.fail = 0
        /\ since_psi' = since_psi + 1 /\ since_pmt' = since_pmt + 1
        /\ phase' = IF left' = 0 THEN "idle" ELSE "video"
    BY <1>4, <1>8 DEF WriteVideo
  <2>2. /\ since_pmt = since_psi /\ total \in Lengths
        /\ since_psi + ToCome < PsiInterval + UnitPackets(total)
    BY <2>1 DEF Spacing, Pids
  <2>3. /\ ToCome \in Nat /\ ToCome >= 1
        /\ left' # 0 => ToCome' = ToCome - 1
    BY <1>8, OneLessToCome
  <2>4. CASE left' = 0
    <3>1. since_psi' < PsiInterval + UnitPackets(total) + 0
      BY <1>1, <2>1, <2>2, <2>3
    <3>2. QED
      BY <2>1, <2>2, <2>4, <3>1 DEF Spacing
  <2>5. CASE left' # 0
    <3>1. since_psi' + ToCome' < PsiInterval + UnitPackets(total)
      BY <1>1, <2>1, <2>2, <2>3, <2>5
    <3>2. UnitPackets(total)' = UnitPackets(total)
      BY <2>1 DEF UnitPackets
    <3>3. QED
      BY <2>1, <2>2, <2>5, <3>1, <3>2 DEF Spacing
  <2>6. QED
    BY <2>4, <2>5
<1>9. CASE UNCHANGED vars
  BY <1>2, <1>9 DEF vars, mux, Spacing, ToCome, UnitPackets, Whole,
                       PsiBounded
<1>10. CASE EndOfStream
  <2>1. phase' = "ended" /\ UNCHANGED <<since_psi, since_pmt, faults, total>>
    BY <1>10 DEF EndOfStream
  <2>2. Spacing /\ PsiBounded /\ faults.fail = 0
    BY <1>2, <2>1, SpacingBounds
  <2>3. PsiBounded'
    BY <2>1, <2>2 DEF PsiBounded, UnitPackets
  <2>4. since_pmt = since_psi
    BY <2>2 DEF Spacing
  <2>5. QED
    BY <2>1, <2>3, <2>4 DEF Spacing, Pids
<1>11. QED
  BY <1>3, <1>5, <1>6, <1>7, <1>8, <1>9, <1>10 DEF Next

(* Between two pairs of tables there is at most an interval and one access  *)
(* unit, whatever the unit's length, while the sink refuses no packet       *)
(* (mpegts.rs:142, :195-197).                                               *)
THEOREM MpegTsTablesNear == Spec => []PsiBounded
<1>1. TypeOK /\ Spacing => PsiBounded
  BY SpacingBounds
<1>2. MuxInv => TypeOK /\ LeftToWrite /\ UnitUntouched
  BY DEF MuxInv
<1>3. Init => Spacing
  BY InitSpacing
<1>4. MuxInv /\ Spacing /\ [Next]_vars => Spacing'
  BY <1>2, NextSpacing
<1>5. QED
  BY <1>1, <1>2, <1>3, <1>4, MpegTsInvariant, PTL DEF Spec

==============================================================================
