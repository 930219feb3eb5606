----------------------------- MODULE RtpJpegProofs -----------------------------
(* RTP/JPEG for every frame size, packet room, buffer, sequence modulus and *)
(* number of frames, losses, repeats, failed sends and restarts: no mixed   *)
(* JPEG is handed over, a frame is delivered or dropped at most once, and   *)
(* the counters say what happened.                                          *)
EXTENDS RtpJpeg, FiniteSetTheorems, TLAPS

------------------------------------------------------------------------------
(* The inductive invariants.                                                *)

PieceOf(p) ==
  /\ p.frame \in 1 .. framed
  /\ p.ts = ts[p.frame] /\ p.mode = mode[p.frame]
  /\ p.len > 0 /\ p.off + p.len <= size[p.frame]
  /\ p.marker <=> p.off + p.len = size[p.frame]
  /\ p.seq \in 0 .. SeqMod - 1
  /\ p.idx < nextIdx

(* The sender is inside its frame, and what is in flight was cut from one.  *)
Framing ==
  /\ busy => cursor < size[framed]
  /\ \A p \in net : PieceOf(p)
  /\ in_frame => meta \in 1 .. framed
  /\ framed = 0 => nextIdx = 0

FaultsBounded ==
  /\ faults["loss"] <= MaxLoss /\ faults["fail"] <= MaxFail
  /\ faults["dup"] <= MaxDup /\ faults["restart"] <= MaxRestart

Sound == TypeOK /\ Framing /\ FaultsBounded

(* The frame in progress, and the one just completed, are one frame's.      *)
ProgressIsOwn ==
  /\ timestamp = ts[meta]
  /\ scan_len <= size[meta]
  /\ \A i \in 0 .. scan_len - 1 : scan[i] = meta
  /\ scan_len > 0 /\ mode[meta] = "inband" => qtables = meta

Own == JpegIsWhole /\ (in_frame => ProgressIsOwn)

ToldByStamp == DistinctStamps => Own

(* A frame whose start has not been received, and will be only once.        *)
Fresh(f) ==
  f \notin started \cup delivered \cup abandoned /\ (in_frame => meta # f)

StartOnce ==
  /\ \A p \in net : p.off = 0 => Fresh(p.frame)
  /\ \A p, q \in net : p.off = 0 /\ q.off = 0 /\ p.frame = q.frame => p = q
  /\ busy /\ cursor = 0 =>
       Fresh(framed) /\ \A p \in net : p.off = 0 => p.frame # framed
  /\ started \cup delivered \cup abandoned \subseteq 1 .. framed
  /\ in_frame => meta \notin delivered \cup abandoned

Started == faults["dup"] = 0 => StartOnce

NoReuse == \A f \in Frames : mode[f] # "reuse"

Accounted ==
  faults["dup"] = 0 /\ NoReuse =>
    /\ in_frame => scan_len > 0
    /\ Cardinality(started) = frames + dropped + (IF in_frame THEN 1 ELSE 0)

(* The packets that never arrive: lost, or refused by the socket.           *)
Gone == {i \in 0 .. nextIdx - 1 : i \notin arrived /\ \A p \in net : p.idx # i}

GoneBounded ==
  /\ arrived \subseteq 0 .. nextIdx - 1
  /\ Cardinality(Gone) <= faults["loss"] + faults["fail"]

SeqIs(seq, idx) == seq = (FirstSeq + idx) % SeqMod

(* Until the device restarts, a sequence number says which packet it is.    *)
Numbered ==
  faults["restart"] = 0 =>
    /\ SeqIs(nextSeq, nextIdx)
    /\ \A p \in net : SeqIs(p.seq, p.idx)

LatestIs(l) ==
  /\ l \in arrived
  /\ SeqIs(last_seq, l)
  /\ \A i \in arrived : lost >= Cardinality((i .. l) \ arrived)

Counting ==
  arrived # {} => \E l \in arrived : LatestIs(l)

(* On a network that keeps the order, the packet that follows the last one  *)
(* belongs to the frame in progress unless it starts another.               *)
Chain ==
  /\ \A p, q \in net : p.idx = q.idx => p = q
  /\ \A p, q \in net : q.idx = p.idx + 1 /\ q.off # 0 => q.frame = p.frame
  /\ \A p \in net : p.idx + 1 = nextIdx /\ busy /\ cursor # 0 => p.frame = framed

Follows(f, off) == off # 0 /\ mode[f] # "unsupported" /\ in_frame => f = meta

LastIn(l) ==
  /\ \A i \in arrived : i <= l
  /\ \A p \in net : l <= p.idx

After(l) ==
  /\ \A p \in net :
       /\ p.idx = l + 1 => Follows(p.frame, p.off)
       /\ p.idx = l /\ Supported(p) /\ in_frame => p.off = 0 \/ p.off < scan_len
  /\ busy /\ nextIdx = l + 1 => Follows(framed, cursor)

InOrder ==
  /\ Chain
  /\ in_frame => arrived # {}
  /\ arrived # {} => \E l \in arrived :
       LastIn(l) /\ (faults["restart"] = 0 => SeqIs(last_seq, l) /\ After(l))

ToldByOrder == faults["restart"] = 0 => Own

(* boot[i] numbers the runs of the device: packet i was, or will be, sent   *)
(* in run boot[i], and within a run sequence numbers count packets.         *)
SameRun(boot, i, si, j, sj) ==
  boot[i] = boot[j] => sj = (si + (j - i)) % SeqMod

Runs(boot) ==
  /\ \A i, j \in 0 .. nextIdx : i <= j => boot[i] <= boot[j]
  /\ \A p, q \in net : p.idx <= q.idx => SameRun(boot, p.idx, p.seq, q.idx, q.seq)
  /\ \A p \in net : SameRun(boot, p.idx, p.seq, nextIdx, nextSeq)

Missing(first, last) == last - first + 1 - Cardinality(arrived)

Ledger(boot, first, last) ==
  /\ first \in arrived /\ last \in arrived /\ last_seq # -1
  /\ \A i \in arrived : first <= i
  /\ LastIn(last)
  /\ \A p \in net : SameRun(boot, last, last_seq, p.idx, p.seq)
  /\ SameRun(boot, last, last_seq, nextIdx, nextSeq)
  /\ Missing(first, last) \in Nat
  /\ faults["restart"] = 0 => lost = Missing(first, last)
  /\ lost <= Missing(first, last) + boot[last] * (SeqMod \div 2)

Boots ==
  \E boot \in [0 .. nextIdx -> 0 .. faults["restart"]] :
    /\ Runs(boot)
    /\ arrived = {} => last_seq = -1 /\ lost = 0
    /\ arrived # {} => \E first, last \in arrived : Ledger(boot, first, last)

------------------------------------------------------------------------------
(* Types, and what is in flight.                                            *)

LEMMA ModBound ==
  ASSUME NEW n \in Int
  PROVE  n % SeqMod \in 0 .. SeqMod - 1
BY SeqModAssumption

(* What the next packet is: the next bytes of the scan being packetized.    *)
LEMMA NextPacketIs ==
  ASSUME Sound, busy
  PROVE  /\ NextPacket \in Packet
         /\ Take \in Nat /\ Take > 0 /\ cursor + Take <= size[framed]
         /\ LastPacket <=> cursor + Take = size[framed]
         /\ framed \in 1 .. MaxFrames /\ framed \in Nat /\ size[framed] \in Nat
         /\ cursor \in Nat /\ cursor < size[framed]
<1>1. /\ framed \in Frames /\ framed \in Nat /\ size[framed] \in Nat
      /\ cursor \in Nat /\ cursor < size[framed]
      /\ ts[framed] \in Nat /\ mode[framed] \in AllModes
      /\ nextIdx \in Nat /\ nextSeq \in Nat
  BY BoundsAssumption, SeqModAssumption DEF Sound, TypeOK, Framing, Frames
<1>2. Room \in Nat /\ Room > 0
  BY RoomAssumption DEF Room
<1>3. Left \in Nat /\ Left > 0
  BY <1>1 DEF Left
<1>4. Take \in Nat /\ Take > 0 /\ Take <= Left
  BY <1>2, <1>3 DEF Take
<1>5. LastPacket <=> Take = Left
  BY <1>2, <1>3 DEF Take, LastPacket
<1>6. cursor + Take <= size[framed] /\ (LastPacket <=> cursor + Take = size[framed])
  BY <1>1, <1>4, <1>5 DEF Left
<1>7. LastPacket \in BOOLEAN
  BY DEF LastPacket
<1>8. NextPacket \in Packet
  BY <1>1, <1>4, <1>7 DEF NextPacket, Packet
<1>9. QED
  BY <1>1, <1>4, <1>6, <1>8 DEF Frames

LEMMA SourceStays ==
  ASSUME Next \/ UNCHANGED vars
  PROVE  UNCHANGED source
BY DEF Next, vars, BeginFrame, Emit, EmitFails, Restart, Lose, Deliver,
       DeliverAndKeep, Receive, ReceiveStray, StopReceiving

(* The sender changes only its own state, what is in flight, the faults.    *)
SenderStep == BeginFrame \/ Emit \/ EmitFails \/ Restart

HubUnchanged == UNCHANGED <<listening, rx, ghosts, rxVars>>

LEMMA SenderLeavesHub ==
  ASSUME SenderStep
  PROVE  HubUnchanged
BY DEF SenderStep, BeginFrame, Emit, EmitFails, Restart, HubUnchanged

LEMMA HappensIs ==
  ASSUME TypeOK, NEW k \in FaultKinds, Happens(k)
  PROVE  /\ faults' \in [FaultKinds -> Nat]
         /\ faults'[k] = faults[k] + 1
         /\ \A j \in FaultKinds : j # k => faults'[j] = faults[j]
         /\ \A j \in FaultKinds : faults[j] \in Nat /\ faults'[j] \in Nat
                                  /\ faults'[j] >= faults[j]
<1>1. faults \in [FaultKinds -> Nat]
  BY DEF TypeOK
<1>2. \A j \in FaultKinds : faults[j] \in Nat
  BY <1>1
<1>3. faults' = [faults EXCEPT ![k] = faults[k] + 1]
  BY DEF Happens
<1>4. QED
  BY <1>1, <1>2, <1>3

LEMMA SenderSound ==
  ASSUME Sound, SenderStep
  PROVE  Sound'
<1> USE DEF Sound
<1>1. HubUnchanged /\ UNCHANGED source
  BY SenderLeavesHub DEF SenderStep, BeginFrame, Emit, EmitFails, Restart
<1>2. /\ framed \in 0 .. MaxFrames /\ MaxFrames \in Nat /\ nextIdx \in Nat
      /\ SeqMod \in Nat \ {0} /\ FirstSeq \in 0 .. SeqMod - 1
      /\ \A f \in Frames : size[f] \in Nat
      /\ net \subseteq Packet
  BY BoundsAssumption, SeqModAssumption, FirstSeqAssumption DEF TypeOK
<1>3. TypeOK'
  <2>1. /\ framed' \in 0 .. MaxFrames /\ nextIdx' \in Nat
        /\ busy' \in BOOLEAN /\ (busy' => framed' \in Frames)
    <3>1. CASE BeginFrame
      BY <1>2, <3>1 DEF TypeOK, BeginFrame, Frames
    <3>2. CASE Emit
      BY <1>2, <3>2 DEF TypeOK, Emit, TakeSequence, LastPacket
    <3>3. CASE EmitFails \/ Restart
      <4>1. busy' = FALSE /\ framed' = framed
            /\ (nextIdx' = nextIdx \/ nextIdx' = nextIdx + 1)
        BY <3>3 DEF EmitFails, Restart, TakeSequence
      <4>2. framed' \in 0 .. MaxFrames /\ nextIdx' \in Nat
        BY <1>2, <4>1
      <4>3. QED
        BY <4>1, <4>2
    <3>4. QED
      BY <3>1, <3>2, <3>3 DEF SenderStep
  <2>2. nextSeq' \in 0 .. SeqMod - 1
    <3>1. nextSeq \in 0 .. SeqMod - 1 /\ nextSeq + 1 \in Int
      BY <1>2 DEF TypeOK
    <3>2. (nextSeq + 1) % SeqMod \in 0 .. SeqMod - 1
      BY <3>1, ModBound
    <3>3. \/ nextSeq' = nextSeq
          \/ nextSeq' = (nextSeq + 1) % SeqMod
          \/ nextSeq' = FirstSeq
      BY DEF SenderStep, BeginFrame, Emit, EmitFails, Restart, TakeSequence
    <3>4. QED
      BY <1>2, <3>1, <3>2, <3>3
  <2>3. cursor' \in Nat /\ net' \subseteq Packet
    BY <1>2, NextPacketIs
    DEF TypeOK, SenderStep, BeginFrame, Emit, EmitFails, Restart
  <2>4. faults' \in [FaultKinds -> Nat]
    BY HappensIs
    DEF TypeOK, SenderStep, BeginFrame, Emit, EmitFails, Restart, FaultKinds
  <2>5. hurt' \subseteq Nat
    <3>1. hurt \subseteq Nat /\ framed \in Nat
      BY <1>2 DEF TypeOK
    <3>2. hurt' = hurt \/ hurt' = hurt \cup {framed}
      BY DEF SenderStep, BeginFrame, Emit, EmitFails, Restart
    <3>3. QED
      BY <3>1, <3>2
  <2>6. QED
    BY <1>1, <2>1, <2>2, <2>3, <2>4, <2>5
    DEF TypeOK, HubUnchanged, source, ghosts, rxVars, Frames
<1>4. Framing'
  <2>1. busy' => cursor' < size'[framed']
    <3>1. CASE BeginFrame
      BY <1>1, <1>2, <3>1 DEF BeginFrame, Frames, source
    <3>2. CASE Emit
      <4>1. busy /\ cursor' = cursor + Take /\ size'[framed'] = size[framed]
        BY <1>1, <3>2 DEF Emit, source
      <4>2. busy' => ~ LastPacket
        BY <3>2 DEF Emit
      <4>3. QED
        BY <4>1, <4>2, NextPacketIs
    <3>3. CASE EmitFails \/ Restart
      BY <3>3 DEF EmitFails, Restart
    <3>4. QED
      BY <3>1, <3>2, <3>3 DEF SenderStep
  <2>2. ASSUME NEW p \in net, net' \subseteq net \cup {NextPacket}
        PROVE  PieceOf(p)'
    <3>1. PieceOf(p) /\ p \in Packet
      BY <1>2 DEF Framing
    <3>2. framed' >= framed /\ framed' \in Nat /\ framed \in Nat
      BY <1>2, <1>3 DEF SenderStep, BeginFrame, Emit, EmitFails, Restart, TypeOK
    <3>3. nextIdx' >= nextIdx /\ nextIdx' \in Nat
      BY <1>2 DEF SenderStep, BeginFrame, Emit, EmitFails, Restart, TakeSequence
    <3>4. p.frame \in 1 .. framed' /\ p.idx < nextIdx'
      BY <1>2, <3>1, <3>2, <3>3 DEF PieceOf, Packet
    <3>5. QED
      BY <1>1, <3>1, <3>4 DEF PieceOf, source
  <2>3. ASSUME Emit, NEW p, p = NextPacket
        PROVE  PieceOf(p)'
    <3>1. busy /\ nextIdx' = nextIdx + 1 /\ UNCHANGED <<source, framed>>
      BY <2>3 DEF Emit, TakeSequence
    <3>2. /\ p.frame = framed /\ p.ts = ts[framed] /\ p.mode = mode[framed]
          /\ p.off = cursor /\ p.len = Take /\ p.marker = LastPacket
          /\ p.seq = nextSeq /\ p.idx = nextIdx
      BY <2>3 DEF NextPacket
    <3>3. /\ Take > 0 /\ cursor + Take <= size[framed]
          /\ LastPacket <=> cursor + Take = size[framed]
          /\ framed \in 1 .. framed
      BY <3>1, NextPacketIs
    <3>4. nextSeq \in 0 .. SeqMod - 1 /\ nextIdx < nextIdx + 1
      BY <1>2 DEF TypeOK
    <3>5. QED
      BY <3>1, <3>2, <3>3, <3>4 DEF PieceOf, source
  <2>4. net' \subseteq net \cup {NextPacket} /\ (~ Emit => net' = net)
    BY DEF SenderStep, BeginFrame, Emit, EmitFails, Restart
  <2>5. in_frame' => meta' \in 1 .. framed'
    BY <1>1, <1>2 DEF HubUnchanged, rxVars, Framing, SenderStep, BeginFrame,
                      Emit, EmitFails, Restart
  <2>6. framed' = 0 => nextIdx' = 0
    BY <1>2 DEF Framing, SenderStep, BeginFrame, Emit, EmitFails, Restart,
                TakeSequence, TypeOK, Frames
  <2>7. \A p \in net' : PieceOf(p)'
    BY <2>2, <2>3, <2>4
  <2>8. QED
    BY <2>1, <2>5, <2>6, <2>7 DEF Framing
<1>5. FaultsBounded'
  <2>1. faults' = faults \/ (faults["fail"] < MaxFail /\ Happens("fail"))
        \/ (faults["restart"] < MaxRestart /\ Happens("restart"))
    BY DEF SenderStep, BeginFrame, Emit, EmitFails, Restart
  <2>2. QED
    BY <2>1, HappensIs, BoundsAssumption DEF FaultsBounded, FaultKinds
<1>6. QED
  BY <1>3, <1>4, <1>5
(* What the network does to what is in flight.                              *)
LEMMA LoseSound ==
  ASSUME Sound, NEW p \in net, Lose(p)
  PROVE  Sound'
<1> USE DEF Sound
<1>1. /\ UNCHANGED <<source, txVars, listening, rx, ghosts, rxVars>>
      /\ net' \subseteq net /\ hurt' = hurt \cup {p.frame}
      /\ faults["loss"] < MaxLoss /\ Happens("loss")
  BY DEF Lose
<1>2. p.frame \in Nat /\ faults' \in [FaultKinds -> Nat]
  BY <1>1, HappensIs DEF TypeOK, Packet, FaultKinds
<1>3. TypeOK'
  BY <1>1, <1>2 DEF TypeOK, source, txVars, ghosts, rxVars, Frames
<1>4. Framing'
  BY <1>1 DEF Framing, PieceOf, source, txVars, rxVars
<1>5. FaultsBounded'
  BY <1>1, HappensIs, BoundsAssumption DEF FaultsBounded, FaultKinds
<1>6. QED
  BY <1>3, <1>4, <1>5

(* The fields of a packet in flight, for the prover's sake together.        *)
LEMMA InFlight ==
  ASSUME Sound, NEW p \in net
  PROVE  /\ p.frame \in Nat /\ p.idx \in Nat /\ p.seq \in Nat /\ p.ts \in Nat
         /\ p.off \in Nat /\ p.len \in Nat /\ p.marker \in BOOLEAN
         /\ p.mode \in AllModes
         /\ p.frame \in 1 .. framed /\ p.frame \in Frames
         /\ size[p.frame] \in Nat /\ p.mode = mode[p.frame]
         /\ p.off + p.len <= size[p.frame] /\ p.len > 0
         /\ p.marker <=> p.off + p.len = size[p.frame]
         /\ p.ts = ts[p.frame]
<1>1. p \in Packet /\ PieceOf(p) /\ framed \in 0 .. MaxFrames
  BY DEF Sound, TypeOK, Framing
<1>2. p.frame \in Frames
  BY <1>1, BoundsAssumption DEF PieceOf, Frames
<1>3. size[p.frame] \in Nat
  BY <1>2 DEF Sound, TypeOK
<1>4. QED
  BY <1>1, <1>2, <1>3 DEF Packet, PieceOf

LEMMA GapType ==
  ASSUME Sound, NEW p \in net
  PROVE  Gap(p) \in Nat /\ Gap(p) <= SeqMod \div 2
<1>1. last_seq \in Int /\ p.seq \in Int
  BY InFlight, SeqModAssumption DEF Sound, TypeOK
<1>2. Skipped(p) \in Nat
  BY <1>1, ModBound, SeqModAssumption DEF Skipped
<1>3. SeqMod \div 2 \in Nat
  BY SeqModAssumption
<1>4. QED
  BY <1>2, <1>3 DEF Gap

(* Of the six outcomes of push, the two that touch the scan or begin a      *)
(* frame, and the four that do neither.                                     *)
Aside(p) == Unsupported(p) \/ JoinedMidFrame(p) \/ Mismatch(p)

LEMMA PushType ==
  ASSUME Sound, NEW p \in net, Push(p)
  PROVE  /\ scan' \in [0 .. ScanMax - 1 -> Nat]
         /\ scan_len' \in 0 .. ScanMax
         /\ in_frame' \in BOOLEAN
         /\ timestamp' \in Nat /\ meta' \in Nat /\ qtables' \in Nat
         /\ last_seq' = p.seq
         /\ jpeg' \in Jpeg \cup {NoJpeg}
         /\ frames' \in Nat /\ dropped' \in Nat
         /\ lost' \in Nat /\ lost' = lost + Gap(p)
         /\ result' \in {"None", "Err", "Fragment", "Frame", "Dropped"}
         /\ meta' = meta \/ meta' = p.frame
         /\ in_frame' => in_frame \/ meta' = p.frame
<1>1. /\ p.frame \in Nat /\ p.ts \in Nat /\ p.len \in Nat /\ p.marker \in BOOLEAN
      /\ scan \in [0 .. ScanMax - 1 -> Nat]
      /\ scan_len \in 0 .. ScanMax /\ in_frame \in BOOLEAN
      /\ timestamp \in Nat /\ meta \in Nat /\ qtables \in Nat
      /\ frames \in Nat /\ dropped \in Nat /\ lost \in Nat
  BY InFlight DEF Sound, TypeOK
<1>2. lost' \in Nat /\ lost' = lost + Gap(p) /\ last_seq' = p.seq
  BY <1>1, GapType DEF Push, Unsupported, StartWithoutTables, JoinedMidFrame,
                       Mismatch, TooLong, Store, NoteSequence
<1>3. ScanMax \in Nat
  BY ScanMaxAssumption
<1>4. CASE Aside(p)
  <2>1. /\ UNCHANGED <<scan, scan_len, timestamp, meta, qtables, frames>>
        /\ in_frame' = in_frame \/ in_frame' = FALSE
        /\ dropped' = dropped \/ dropped' = dropped + 1
        /\ jpeg' = NoJpeg /\ result' \in {"Err", "Fragment", "Dropped"}
    BY <1>4 DEF Aside, Unsupported, JoinedMidFrame, Mismatch
  <2>2. in_frame' \in BOOLEAN /\ (in_frame' => in_frame)
    <3>1. in_frame \in BOOLEAN
      BY <1>1
    <3>2. CASE in_frame' = in_frame
      BY <3>1, <3>2
    <3>3. CASE in_frame' = FALSE
      BY <3>3
    <3>4. QED
      BY <2>1, <3>2, <3>3
  <2>3. dropped' \in Nat
    BY <1>1, <2>1
  <2>4. QED
    BY <1>1, <1>2, <2>1, <2>2, <2>3
<1>5. CASE StartWithoutTables(p)
  BY <1>1, <1>2, <1>3, <1>5 DEF StartWithoutTables
<1>6. Base(p) \in 0 .. ScanMax /\ Base(p) \in Nat
  BY <1>1, <1>3 DEF Base
<1>7. BeginOrKeep(p) =>
        /\ timestamp' \in Nat /\ meta' \in Nat /\ qtables' \in Nat
        /\ meta' = meta \/ meta' = p.frame
        /\ p.off # 0 \/ meta' = p.frame
  BY <1>1 DEF BeginOrKeep
<1>8. CASE TooLong(p)
  <2>1. dropped' \in Nat
    BY <1>1, <1>8 DEF TooLong
  <2>2. QED
    BY <1>1, <1>2, <1>6, <1>7, <1>8, <2>1 DEF TooLong
<1>9. CASE Store(p)
  <2>1. BeginOrKeep(p) /\ (p.off = 0 \/ in_frame)
    BY <1>9 DEF Store, Stores
  <2>2. scan' \in [0 .. ScanMax - 1 -> Nat]
    BY <1>1, <1>9 DEF Store
  <2>3. scan_len' \in 0 .. ScanMax
    BY <1>1, <1>3, <1>6, <1>9 DEF Store
  <2>4. dropped' \in Nat /\ in_frame' \in BOOLEAN
    BY <1>1, <1>9 DEF Store, StaysOpen
  <2>5. /\ jpeg' \in Jpeg \cup {NoJpeg} /\ frames' \in Nat
        /\ result' \in {"None", "Err", "Fragment", "Frame", "Dropped"}
    BY <1>1, <1>6, <1>7, <1>9, <2>1 DEF Store, Jpeg
  <2>6. in_frame' => in_frame \/ meta' = p.frame
    BY <1>7, <2>1
  <2>7. QED
    BY <1>2, <1>7, <2>1, <2>2, <2>3, <2>4, <2>5, <2>6
<1>10. QED
  BY <1>4, <1>5, <1>8, <1>9 DEF Push, Aside

LEMMA ReceiveSound ==
  ASSUME Sound, NEW p \in net, Deliver(p) \/ DeliverAndKeep(p)
  PROVE  Sound'
<1> USE DEF Sound
<1>1. /\ Push(p) /\ TrackGhosts(p) /\ UNCHANGED <<source, txVars, listening>>
      /\ net' \subseteq net
      /\ rx' = [packets |-> rx.packets + 1,
                frames |-> rx.frames + (IF result' = "Frame" THEN 1 ELSE 0),
                bad |-> rx.bad + (IF result' = "Err" THEN 1 ELSE 0)]
      /\ \/ UNCHANGED <<faults, hurt>>
         \/ faults["dup"] < MaxDup /\ Happens("dup") /\ hurt' = hurt \cup {p.frame}
  BY DEF Deliver, DeliverAndKeep, Receive
<1>2. /\ p.frame \in Nat /\ p.idx \in Nat /\ p.frame \in 1 .. framed
      /\ p.seq \in 0 .. SeqMod - 1
  BY InFlight DEF Framing, PieceOf
<1>3. /\ jpeg' # NoJpeg => jpeg' \in Jpeg
      /\ meta \in Nat /\ meta' \in Nat
  BY <1>1, PushType DEF TypeOK
<1>4. TypeOK'
  <2>1. /\ arrived' \subseteq Nat /\ started' \subseteq Nat
    BY <1>1, <1>2 DEF TypeOK, TrackGhosts
  <2>2. delivered' \subseteq Nat
    BY <1>1, <1>3 DEF TypeOK, TrackGhosts, Jpeg
  <2>3. abandoned' \subseteq Nat
    <3>1. abandoned' \subseteq abandoned \cup {meta} \cup {meta'}
      BY <1>1 DEF TrackGhosts
    <3>2. QED
      BY <1>3, <3>1 DEF TypeOK
  <2>4. hurt' \subseteq Nat /\ faults' \in [FaultKinds -> Nat]
    BY <1>1, <1>2, HappensIs DEF TypeOK, FaultKinds
  <2>5. rx' \in [packets : Nat, frames : Nat, bad : Nat]
    <3>1. rx.packets \in Nat /\ rx.frames \in Nat /\ rx.bad \in Nat
      BY DEF TypeOK
    <3>2. QED
      BY <1>1, <3>1
  <2>6. net' \subseteq Packet /\ last_seq' \in -1 .. SeqMod - 1
    <3>1. last_seq' = p.seq /\ -1 <= 0
      BY <1>1, PushType
    <3>2. last_seq' \in -1 .. SeqMod - 1
      BY <1>2, <3>1, SeqModAssumption
    <3>3. QED
      BY <1>1, <3>2 DEF TypeOK
  <2>7. UNCHANGED <<size, ts, mode, framed, nextSeq, nextIdx, busy, cursor,
                    listening>>
    BY <1>1 DEF source, txVars
  <2>8. QED
    BY <1>1, <2>1, <2>2, <2>3, <2>4, <2>5, <2>6, <2>7, PushType
    DEF TypeOK, Frames
<1>5. Framing'
  <2>1. UNCHANGED <<size, ts, mode, framed, nextSeq, nextIdx, busy, cursor>>
    BY <1>1 DEF source, txVars
  <2>2. in_frame' => meta' \in 1 .. framed'
    BY <1>1, <1>2, <2>1, PushType DEF Framing
  <2>3. QED
    BY <1>1, <2>1, <2>2 DEF Framing, PieceOf
<1>6. FaultsBounded'
  BY <1>1, HappensIs, BoundsAssumption DEF FaultsBounded, FaultKinds
<1>7. QED
  BY <1>4, <1>5, <1>6

LEMMA IdleSound ==
  ASSUME Sound, ReceiveStray \/ StopReceiving \/ UNCHANGED vars
  PROVE  Sound'
<1> USE DEF Sound
<1>1. /\ UNCHANGED <<source, txVars, net, faults, ghosts, hurt>>
      /\ UNCHANGED <<scan, scan_len, in_frame, timestamp, meta, qtables,
                     last_seq, jpeg, frames, dropped, lost>>
  BY DEF ReceiveStray, StopReceiving, vars, PushUnparsable, rxVars
<1>2. /\ listening' \in BOOLEAN
      /\ result' \in {"None", "Err", "Fragment", "Frame", "Dropped"}
  BY DEF ReceiveStray, StopReceiving, vars, PushUnparsable, rxVars, TypeOK
<1>3. rx' \in [packets : Nat, frames : Nat, bad : Nat]
  BY DEF ReceiveStray, StopReceiving, vars, TypeOK
<1>4. TypeOK'
  BY <1>1, <1>2, <1>3 DEF TypeOK, source, txVars, ghosts, Frames
<1>5. Framing' /\ FaultsBounded'
  BY <1>1 DEF Framing, FaultsBounded, PieceOf, source, txVars
<1>6. QED
  BY <1>4, <1>5

(* Every step is one of four kinds.                                         *)
LEMMA NextIs ==
  ASSUME [Next]_vars
  PROVE  \/ SenderStep
         \/ \E p \in net : Lose(p)
         \/ \E p \in Deliverable : Deliver(p) \/ DeliverAndKeep(p)
         \/ ReceiveStray \/ StopReceiving \/ UNCHANGED vars
BY DEF Next, SenderStep

LEMMA InitSound == Init => Sound
<1> SUFFICES ASSUME Init PROVE Sound
  OBVIOUS
<1>1. /\ size \in [Frames -> Sizes] /\ ts \in [Frames -> Stamps]
      /\ mode \in [Frames -> Modes] /\ framed = 0 /\ nextSeq = FirstSeq
      /\ nextIdx = 0 /\ busy = FALSE /\ cursor = 0 /\ net = {}
      /\ faults = [k \in FaultKinds |-> 0] /\ listening = TRUE
      /\ rx = [packets |-> 0, frames |-> 0, bad |-> 0]
      /\ arrived = {} /\ started = {} /\ delivered = {} /\ abandoned = {}
      /\ hurt = {} /\ DepayloaderInit
  BY DEF Init
<1>2. /\ size \in [Frames -> Nat] /\ ts \in [Frames -> Nat]
      /\ mode \in [Frames -> AllModes]
  BY <1>1, InputsAssumption
<1>3. /\ framed \in 0 .. MaxFrames /\ nextSeq \in 0 .. SeqMod - 1
      /\ nextIdx \in Nat /\ cursor \in Nat
  BY <1>1, BoundsAssumption, FirstSeqAssumption
<1>4. /\ scan \in [0 .. ScanMax - 1 -> Nat] /\ scan_len \in 0 .. ScanMax
      /\ timestamp \in Nat /\ meta \in Nat /\ qtables \in Nat
      /\ last_seq \in -1 .. SeqMod - 1
      /\ frames \in Nat /\ dropped \in Nat /\ lost \in Nat
  BY <1>1, ScanMaxAssumption, SeqModAssumption DEF DepayloaderInit
<1>5. /\ in_frame = FALSE /\ jpeg \in Jpeg \cup {NoJpeg}
      /\ result \in {"None", "Err", "Fragment", "Frame", "Dropped"}
  BY <1>1 DEF DepayloaderInit
<1>6. faults \in [FaultKinds -> Nat] /\ rx \in [packets : Nat, frames : Nat, bad : Nat]
  BY <1>1
<1>7. TypeOK
  <2>1. /\ busy \in BOOLEAN /\ (busy => framed \in Frames)
        /\ in_frame \in BOOLEAN /\ listening \in BOOLEAN
    BY <1>1, <1>5
  <2>2. /\ net \subseteq Packet /\ arrived \subseteq Nat /\ started \subseteq Nat
        /\ delivered \subseteq Nat /\ abandoned \subseteq Nat /\ hurt \subseteq Nat
    BY <1>1
  <2>3. QED
    BY <1>2, <1>3, <1>4, <1>5, <1>6, <2>1, <2>2 DEF TypeOK
<1>8. Framing
  BY <1>1, <1>5 DEF Framing
<1>9. FaultsBounded
  BY <1>1, BoundsAssumption DEF FaultsBounded, FaultKinds
<1>10. QED
  BY <1>7, <1>8, <1>9 DEF Sound

LEMMA NextSound == Sound /\ [Next]_vars => Sound'
BY NextIs, SenderSound, LoseSound, ReceiveSound, IdleSound DEF Deliverable

(* The types of sender, network and receiver hold in every state.           *)
THEOREM RtpJpegTypes == Spec => []TypeOK
<1>1. Sound => TypeOK
  BY DEF Sound
<1>2. QED
  BY InitSound, NextSound, <1>1, PTL DEF Spec

------------------------------------------------------------------------------
(* Whole JPEGs.                                                             *)

(* A packet that is stored where it belongs leaves the frame in progress,   *)
(* or completed, one frame's.                                               *)
LEMMA PushKeepsOwn ==
  ASSUME Sound, Own, NEW p \in net, Push(p), UNCHANGED source,
         Stores(p) /\ p.off # 0 => p.frame = meta
  PROVE  Own'
<1>1. /\ p.frame \in Frames /\ p.frame \in Nat /\ size[p.frame] \in Nat
      /\ p.mode = mode[p.frame] /\ p.ts = ts[p.frame]
      /\ p.off \in Nat /\ p.len \in Nat /\ p.len > 0
      /\ p.off + p.len <= size[p.frame]
      /\ p.marker <=> p.off + p.len = size[p.frame]
  BY InFlight
<1>2. /\ scan \in [0 .. ScanMax - 1 -> Nat] /\ scan_len \in 0 .. ScanMax
      /\ scan_len \in Nat /\ ScanMax \in Nat
  BY ScanMaxAssumption DEF Sound, TypeOK
<1>3. CASE Aside(p)
  <2>1. /\ UNCHANGED <<scan, scan_len, timestamp, meta, qtables>>
        /\ jpeg' = NoJpeg
    BY <1>3 DEF Aside, Unsupported, JoinedMidFrame, Mismatch
  <2>2. in_frame' => in_frame
    BY <1>3 DEF Aside, Unsupported, JoinedMidFrame, Mismatch
  <2>3. QED
    BY <2>1, <2>2 DEF Own, JpegIsWhole, ProgressIsOwn, source
<1>4. CASE StartWithoutTables(p)
  <2>1. /\ jpeg' = NoJpeg /\ scan_len' = 0 /\ meta' = p.frame
        /\ timestamp' = p.ts
    BY <1>4 DEF StartWithoutTables
  <2>2. QED
    BY <1>1, <2>1 DEF Own, JpegIsWhole, ProgressIsOwn, source
<1>5. CASE TooLong(p)
  BY <1>5 DEF TooLong, Own, JpegIsWhole
<1>6. CASE Store(p)
  <2>1. /\ p.frame = meta' /\ Base(p) = p.off /\ timestamp' = ts[meta']
        /\ p.off # 0 => p.off = scan_len /\ in_frame /\ UNCHANGED <<meta, qtables>>
        /\ p.off = 0 /\ p.mode = "inband" => qtables' = meta'
    BY <1>1, <1>6 DEF Store, Stores, Base, Continues, BeginOrKeep
  <2>2. /\ scan_len' = p.off + p.len /\ scan_len' \in Nat
        /\ scan_len' <= ScanMax /\ scan_len' <= size[meta']
        /\ p.marker <=> scan_len' = size[meta']
    BY <1>1, <1>6, <2>1 DEF Store
  <2>3. \A i \in 0 .. p.off - 1 : p.off # 0 => scan[i] = meta
    BY <2>1 DEF Own, ProgressIsOwn
  <2>4. scan' = [i \in 0 .. ScanMax - 1 |->
                   IF i \in p.off .. p.off + p.len - 1 THEN p.frame
                   ELSE scan[i]]
    BY <1>2, <1>6, <2>1 DEF Store
  <2>5. \A i \in 0 .. scan_len' - 1 : scan'[i] = meta'
    <3> SUFFICES ASSUME NEW i \in 0 .. scan_len' - 1
                 PROVE  scan'[i] = meta'
      OBVIOUS
    <3>1. i \in 0 .. ScanMax - 1
      BY <1>2, <2>2
    <3>2. CASE i \in p.off .. p.off + p.len - 1
      BY <2>1, <2>4, <3>1, <3>2
    <3>3. CASE i \notin p.off .. p.off + p.len - 1
      <4>1. i \in 0 .. p.off - 1 /\ p.off # 0
        BY <1>1, <2>2, <3>3
      <4>2. QED
        BY <2>1, <2>3, <2>4, <3>1, <3>3, <4>1
    <3>4. QED
      BY <3>2, <3>3
  <2>6. mode[meta'] = "inband" => qtables' = meta'
    <3>1. CASE p.off = 0
      BY <1>1, <2>1, <3>1
    <3>2. CASE p.off # 0
      <4>1. scan_len > 0 /\ in_frame /\ UNCHANGED <<meta, qtables>>
        BY <1>1, <1>2, <2>1, <3>2
      <4>2. QED
        BY <4>1 DEF Own, ProgressIsOwn
    <3>3. QED
      BY <3>1, <3>2
  <2>7. ProgressIsOwn'
    BY <2>1, <2>2, <2>5, <2>6 DEF ProgressIsOwn, source
  <2>8. JpegIsWhole'
    <3>1. CASE p.marker
      <4>1. jpeg' = [frame |-> meta', tables |-> qtables', len |-> scan_len']
        BY <1>6, <3>1 DEF Store
      <4>2. QED
        BY <2>2, <2>5, <2>6, <3>1, <4>1 DEF JpegIsWhole, source
    <3>2. CASE ~ p.marker
      BY <1>6, <3>2 DEF Store, JpegIsWhole
    <3>3. QED
      BY <3>1, <3>2
  <2>9. QED
    BY <2>7, <2>8 DEF Own
<1>7. QED
  BY <1>3, <1>4, <1>5, <1>6 DEF Push, Aside

(* Nothing but a packet received touches the frame in progress.             *)
LEMMA OwnStays ==
  ASSUME Own, UNCHANGED source,
         UNCHANGED <<scan, scan_len, in_frame, timestamp, meta, qtables, jpeg>>
  PROVE  Own'
BY DEF Own, JpegIsWhole, ProgressIsOwn, source

LEMMA HubStays ==
  ASSUME \/ SenderStep
         \/ \E p \in net : Lose(p)
         \/ ReceiveStray \/ StopReceiving \/ UNCHANGED vars
  PROVE  UNCHANGED <<scan, scan_len, in_frame, timestamp, meta, qtables,
                     last_seq, jpeg, frames, dropped, lost>>
         /\ UNCHANGED ghosts
<1>1. CASE SenderStep
  BY <1>1, SenderLeavesHub DEF HubUnchanged, rxVars
<1>2. CASE \E p \in net : Lose(p)
  BY <1>2 DEF Lose, rxVars
<1>3. CASE ReceiveStray \/ StopReceiving \/ UNCHANGED vars
  BY <1>3 DEF ReceiveStray, StopReceiving, vars, PushUnparsable, rxVars
<1>4. QED
  BY <1>1, <1>2, <1>3

(* Equal timestamps, equal frames: a packet that continues is one's own.    *)
LEMMA StampTells ==
  ASSUME Sound, DistinctStamps, Own, NEW p \in net, Stores(p), p.off # 0
  PROVE  p.frame = meta
<1>1. in_frame /\ p.ts = timestamp
  BY DEF Stores, Continues
<1>2. timestamp = ts[meta] /\ meta \in 1 .. framed
  BY <1>1 DEF Own, ProgressIsOwn, Sound, Framing
<1>3. p.frame \in Frames /\ p.ts = ts[p.frame]
  BY InFlight
<1>4. meta \in Frames
  BY <1>2, BoundsAssumption DEF Sound, TypeOK, Frames
<1>5. QED
  BY <1>1, <1>2, <1>3, <1>4 DEF DistinctStamps

LEMMA NextToldByStamp ==
  ASSUME Sound, ToldByStamp, [Next]_vars
  PROVE  ToldByStamp'
<1>1. UNCHANGED source
  BY SourceStays DEF vars
<1>2. DistinctStamps' = DistinctStamps
  BY <1>1 DEF DistinctStamps, source
<1> SUFFICES ASSUME DistinctStamps PROVE Own'
  BY <1>2 DEF ToldByStamp
<1>3. Own
  BY DEF ToldByStamp
<1>4. ASSUME NEW p \in Deliverable, Deliver(p) \/ DeliverAndKeep(p)
      PROVE  Own'
  <2>1. p \in net /\ Push(p)
    BY <1>4 DEF Deliver, DeliverAndKeep, Receive, Deliverable
  <2>2. QED
    BY <1>1, <1>3, <2>1, StampTells, PushKeepsOwn
<1>5. QED
  BY <1>1, <1>3, <1>4, NextIs, HubStays, OwnStays

LEMMA InitOwn == Init => Own
BY DEF Init, DepayloaderInit, Own, JpegIsWhole

(* No mixed JPEG is handed over while timestamps differ, whatever the       *)
(* network loses, repeats or reorders and however often the device restarts *)
(* (rtp.rs:633-634).                                                        *)
THEOREM RtpJpegIntegrity == Spec => []RtpInv
<1>1. Init => Sound /\ ToldByStamp
  BY InitSound, InitOwn DEF ToldByStamp
<1>2. (Sound /\ ToldByStamp) /\ [Next]_vars => (Sound /\ ToldByStamp)'
  BY NextSound, NextToldByStamp
<1>3. Sound /\ ToldByStamp => RtpInv
  BY DEF RtpInv, Sound, ToldByStamp, Own, Integrity
<1>4. QED
  BY <1>1, <1>2, <1>3, PTL DEF Spec

------------------------------------------------------------------------------
(* Each frame starts once and ends once.                                    *)

CutShort(p) == IF CutsShort(p) THEN {meta} ELSE {}
CutCount(p) == IF CutsShort(p) THEN 1 ELSE 0

(* What a push does to the frames: it begins one, it ends the one in        *)
(* progress, or it does neither.                                            *)
Begins(p) ==
  /\ p.off = 0 /\ meta' = p.frame
  /\ started' = started \cup {p.frame}
  /\ \/ /\ in_frame' = TRUE /\ UNCHANGED <<delivered, frames>>
        /\ abandoned' = abandoned \cup CutShort(p)
        /\ dropped' = dropped + CutCount(p)
     \/ /\ in_frame' = FALSE
        /\ delivered' = delivered \cup {p.frame} /\ frames' = frames + 1
        /\ abandoned' = abandoned \cup CutShort(p)
        /\ dropped' = dropped + CutCount(p)
     \/ /\ in_frame' = FALSE /\ UNCHANGED <<delivered, frames>>
        /\ abandoned' = abandoned \cup CutShort(p) \cup {p.frame}
        /\ dropped' = dropped + 1 + CutCount(p)

Ends ==
  /\ in_frame /\ in_frame' = FALSE /\ UNCHANGED <<meta, started>>
  /\ \/ /\ delivered' = delivered \cup {meta} /\ frames' = frames + 1
        /\ UNCHANGED <<abandoned, dropped>>
     \/ /\ abandoned' = abandoned \cup {meta} /\ dropped' = dropped + 1
        /\ UNCHANGED <<delivered, frames>>

KeepsOn ==
  UNCHANGED <<in_frame, meta, started, delivered, abandoned, frames, dropped>>

LEMMA PushFrames ==
  ASSUME Sound, NEW p \in net, Push(p), TrackGhosts(p)
  PROVE  Begins(p) \/ Ends \/ KeepsOn
<1>1. /\ in_frame \in BOOLEAN /\ p.marker \in BOOLEAN
      /\ dropped \in Nat
  BY InFlight DEF Sound, TypeOK
<1>2. CASE Unsupported(p)
  BY <1>2 DEF Unsupported, TrackGhosts, Supported, Stores, KeepsOn
<1>3. CASE StartWithoutTables(p)
  <2>1. /\ Supported(p) /\ p.off = 0 /\ ~ Stores(p) /\ result' = "Err"
        /\ jpeg' = NoJpeg /\ in_frame' = TRUE /\ meta' = p.frame
        /\ UNCHANGED frames /\ dropped' = dropped + CutCount(p)
    BY <1>3 DEF StartWithoutTables, Stores, CutCount
  <2>2. QED
    BY <2>1 DEF TrackGhosts, Begins, CutShort
<1>4. CASE JoinedMidFrame(p)
  BY <1>4 DEF JoinedMidFrame, TrackGhosts, CutsShort, KeepsOn
<1>5. CASE Mismatch(p)
  BY <1>5 DEF Mismatch, TrackGhosts, CutsShort, Stores, Ends
<1>6. CASE TooLong(p)
  <2>1. /\ Supported(p) /\ Stores(p) /\ result' = "Err" /\ jpeg' = NoJpeg
        /\ in_frame' = FALSE /\ UNCHANGED frames /\ BeginOrKeep(p)
        /\ dropped' = dropped + 1 + CutCount(p)
    BY <1>6 DEF TooLong, Stores, CutCount
  <2>2. CASE p.off = 0
    <3>1. meta' = p.frame
      BY <2>1, <2>2 DEF BeginOrKeep
    <3>2. /\ started' = started \cup {p.frame} /\ delivered' = delivered
          /\ abandoned' = abandoned \cup CutShort(p) \cup {p.frame}
      BY <2>1, <2>2, <3>1 DEF TrackGhosts, CutShort
    <3>3. QED
      BY <2>1, <2>2, <3>1, <3>2 DEF Begins
  <2>3. CASE p.off # 0
    <3>1. meta' = meta /\ in_frame /\ ~ CutsShort(p)
      BY <2>1, <2>3 DEF BeginOrKeep, Stores, CutsShort
    <3>2. /\ started' = started /\ delivered' = delivered
          /\ abandoned' = abandoned \cup {meta}
      BY <2>1, <2>3, <3>1 DEF TrackGhosts
    <3>3. dropped' = dropped + 1
      BY <1>1, <2>1, <3>1 DEF CutCount
    <3>4. QED
      BY <2>1, <3>1, <3>2, <3>3 DEF Ends
  <2>4. QED
    BY <2>2, <2>3
<1>7. CASE Store(p)
  <2>1. /\ Supported(p) /\ Stores(p) /\ BeginOrKeep(p)
        /\ dropped' = dropped + CutCount(p)
        /\ result' # "Err" /\ result' # "Dropped"
    BY <1>7 DEF Store, Stores, CutCount, CountsAsDropped
  <2>2. /\ p.marker => in_frame' = FALSE /\ frames' = frames + 1
        /\ ~ p.marker => in_frame' = TRUE /\ UNCHANGED frames
    BY <1>1, <1>7 DEF Store, StaysOpen
  <2>3. /\ p.marker => delivered' = delivered \cup {meta'}
        /\ ~ p.marker => UNCHANGED delivered
    <3>1. CASE ~ p.marker
      BY <1>7, <3>1 DEF Store, TrackGhosts
    <3>2. CASE p.marker
      <4>1. jpeg' = [frame |-> meta', tables |-> qtables', len |-> Base(p) + p.len]
        BY <1>7, <3>2 DEF Store
      <4>2. Base(p) + p.len \in Nat /\ meta' \in Nat /\ qtables' \in Nat
        <5>1. p.len \in Nat /\ scan_len \in Nat
          BY InFlight, ScanMaxAssumption DEF Sound, TypeOK
        <5>2. Base(p) + p.len \in Nat
          BY <5>1 DEF Base
        <5>3. QED
          BY <5>2, PushType
      <4>3. jpeg' \in Jpeg
        BY <4>1, <4>2 DEF Jpeg
      <4>4. jpeg' # NoJpeg
        BY <4>3, NoJpegAssumption
      <4>5. QED
        BY <3>2, <4>1, <4>4 DEF TrackGhosts
    <3>3. QED
      BY <3>1, <3>2
  <2>4. abandoned' = abandoned \cup CutShort(p)
    BY <2>1 DEF TrackGhosts, CutShort
  <2>5. CASE p.off = 0
    <3>1. meta' = p.frame /\ started' = started \cup {p.frame}
      BY <2>1, <2>5 DEF BeginOrKeep, TrackGhosts
    <3>2. CASE p.marker
      BY <2>1, <2>2, <2>3, <2>4, <2>5, <3>1, <3>2 DEF Begins
    <3>3. CASE ~ p.marker
      BY <2>1, <2>2, <2>3, <2>4, <2>5, <3>1, <3>3 DEF Begins
    <3>4. QED
      BY <3>2, <3>3
  <2>6. CASE p.off # 0
    <3>1. /\ UNCHANGED <<meta, started>> /\ in_frame /\ ~ CutsShort(p)
      BY <2>1, <2>6 DEF BeginOrKeep, Stores, CutsShort, TrackGhosts
    <3>2. abandoned' = abandoned /\ dropped' = dropped
      BY <1>1, <2>1, <2>4, <3>1 DEF CutShort, CutCount
    <3>3. CASE p.marker
      BY <2>2, <2>3, <3>1, <3>2, <3>3 DEF Ends
    <3>4. CASE ~ p.marker
      <4>1. in_frame' = in_frame
        BY <1>1, <2>2, <3>1, <3>4
      <4>2. QED
        BY <2>2, <2>3, <3>1, <3>2, <3>4, <4>1 DEF KeepsOn
    <3>5. QED
      BY <3>3, <3>4
  <2>7. QED
    BY <2>5, <2>6
<1>8. QED
  BY <1>2, <1>3, <1>4, <1>5, <1>6, <1>7 DEF Push

(* A frame not yet begun is still not begun, unless it is the one begun.    *)
LEMMA FreshStays ==
  ASSUME NEW p, NEW f, Fresh(f),
         (Begins(p) /\ f # p.frame) \/ Ends \/ KeepsOn
  PROVE  Fresh(f)'
<1>1. CASE Begins(p) /\ f # p.frame
  BY <1>1 DEF Begins, Fresh, CutShort, CutsShort
<1>2. CASE Ends
  BY <1>2 DEF Ends, Fresh
<1>3. CASE KeepsOn
  BY <1>3 DEF KeepsOn, Fresh
<1>4. QED
  BY <1>1, <1>2, <1>3

LEMMA DeliverStartOnce ==
  ASSUME Sound, StartOnce, NEW p \in net, Push(p), TrackGhosts(p),
         net' = net \ {p}, UNCHANGED txVars
  PROVE  StartOnce'
<1>1. UNCHANGED <<framed, busy, cursor>>
  BY DEF txVars
<1>2. Begins(p) \/ Ends \/ KeepsOn
  BY PushFrames
<1>3. ASSUME NEW q \in net', q.off = 0
      PROVE  Fresh(q.frame)'
  BY <1>2, <1>3, FreshStays DEF StartOnce, Begins
<1>4. ASSUME busy, cursor = 0
      PROVE  Fresh(framed)'
  <2>1. Fresh(framed) /\ (p.off = 0 => p.frame # framed)
    BY <1>4 DEF StartOnce
  <2>2. Begins(p) => p.off = 0
    BY DEF Begins
  <2>3. ASSUME NEW f, f = framed PROVE Fresh(f)'
    <3>1. Fresh(f)
      BY <2>1, <2>3
    <3>2. QED
      BY <1>2, <2>1, <2>2, <2>3, <3>1, FreshStays
  <2>4. Fresh(framed)' <=> \A f : f = framed => Fresh(f)'
    BY <1>1 DEF Fresh
  <2>5. QED
    BY <2>3, <2>4
<1>5. /\ p.frame \in 1 .. framed
      /\ in_frame => meta \in 1 .. framed /\ meta \notin delivered \cup abandoned
      /\ p.off = 0 => Fresh(p.frame)
      /\ started \cup delivered \cup abandoned \subseteq 1 .. framed
  BY InFlight DEF Sound, Framing, StartOnce
<1>6. started' \cup delivered' \cup abandoned' \subseteq 1 .. framed'
  BY <1>1, <1>2, <1>5 DEF Begins, Ends, KeepsOn, CutShort, CutsShort
<1>7. in_frame' => meta' \notin delivered' \cup abandoned'
  <2>1. CASE Begins(p)
    BY <1>5, <2>1 DEF Begins, CutShort, CutsShort, Fresh
  <2>2. CASE Ends
    BY <2>2 DEF Ends
  <2>3. CASE KeepsOn
    BY <1>5, <2>3 DEF KeepsOn
  <2>4. QED
    BY <1>2, <2>1, <2>2, <2>3
<1>8. QED
  BY <1>1, <1>3, <1>4, <1>6, <1>7 DEF StartOnce

LEMMA SenderStartOnce ==
  ASSUME Sound, StartOnce, SenderStep
  PROVE  StartOnce'
<1>1. UNCHANGED <<in_frame, meta>> /\ UNCHANGED ghosts
  BY SenderLeavesHub DEF HubUnchanged, rxVars
<1>2. \A f : Fresh(f)' <=> Fresh(f)
  BY <1>1 DEF Fresh, ghosts
<1>3. UNCHANGED <<started, delivered, abandoned>>
  BY <1>1 DEF ghosts
<1>4. framed \in Nat /\ \A p \in net : p.frame \in 1 .. framed
  BY InFlight, BoundsAssumption DEF Sound, TypeOK
<1>5. (in_frame => meta \in 1 .. framed)
  BY DEF Sound, Framing
<1>6. CASE BeginFrame
  <2>1. framed' = framed + 1 /\ net' = net
    BY <1>6 DEF BeginFrame
  <2>2. \A p \in net : p.frame # framed'
    BY <1>4, <2>1
  <2>3. ASSUME NEW f, f = framed' PROVE Fresh(f)
    BY <1>4, <1>5, <2>1, <2>3 DEF StartOnce, Fresh
  <2>4. Fresh(framed)'
    BY <1>1, <1>3, <2>3 DEF Fresh
  <2>5. 1 .. framed \subseteq 1 .. framed'
    BY <1>4, <2>1
  <2>6. started' \cup delivered' \cup abandoned' \subseteq 1 .. framed'
    BY <1>3, <2>5 DEF StartOnce
  <2>7. QED
    BY <1>1, <1>2, <1>3, <2>1, <2>2, <2>4, <2>6 DEF StartOnce
<1>7. CASE Emit
  <2>1. /\ busy /\ framed' = framed /\ net' = net \cup {NextPacket}
        /\ cursor' = cursor + Take
    BY <1>7 DEF Emit
  <2>2. NextPacket.off = cursor /\ NextPacket.frame = framed
    BY DEF NextPacket
  <2>3. cursor' # 0
    BY <2>1, NextPacketIs
  <2>4. \A p \in net' : p.off = 0 => Fresh(p.frame)
    BY <2>1, <2>2 DEF StartOnce
  <2>5. \A p, q \in net' : p.off = 0 /\ q.off = 0 /\ p.frame = q.frame => p = q
    BY <2>1, <2>2 DEF StartOnce
  <2>6. QED
    BY <1>1, <1>2, <1>3, <2>1, <2>3, <2>4, <2>5 DEF StartOnce
<1>8. CASE EmitFails \/ Restart
  <2>1. busy' = FALSE /\ UNCHANGED <<net, framed>>
    BY <1>8 DEF EmitFails, Restart
  <2>2. QED
    BY <1>1, <1>2, <1>3, <2>1 DEF StartOnce
<1>9. QED
  BY <1>6, <1>7, <1>8 DEF SenderStep

(* A fault counted once stays counted.                                      *)
LEMMA FaultsGrow ==
  ASSUME Sound, [Next]_vars, NEW k \in FaultKinds, faults'[k] = 0
  PROVE  faults[k] = 0
<1>1. faults \in [FaultKinds -> Nat]
  BY DEF Sound, TypeOK
<1>2. faults' = faults \/ \E j \in FaultKinds : Happens(j)
  BY DEF Next, vars, BeginFrame, Emit, EmitFails, Restart, Lose, Deliver,
         DeliverAndKeep, ReceiveStray, StopReceiving, FaultKinds
<1>3. CASE \E j \in FaultKinds : Happens(j)
  BY <1>1, <1>3, HappensIs DEF Sound
<1>4. QED
  BY <1>2, <1>3

LEMMA NextStarted ==
  ASSUME Sound, Started, [Next]_vars
  PROVE  Started'
<1> SUFFICES ASSUME faults'["dup"] = 0 PROVE StartOnce'
  BY DEF Started
<1>1. faults["dup"] = 0 /\ StartOnce /\ faults \in [FaultKinds -> Nat]
  BY FaultsGrow DEF Started, Sound, TypeOK, FaultKinds
<1>2. ASSUME NEW p \in net, Lose(p)
      PROVE  StartOnce'
  <2>1. net' \subseteq net /\ UNCHANGED <<txVars, ghosts, rxVars>>
    BY <1>2 DEF Lose
  <2>2. QED
    BY <1>1, <2>1 DEF StartOnce, Fresh, txVars, ghosts, rxVars
<1>3. ASSUME NEW p \in net, Deliver(p)
      PROVE  StartOnce'
  BY <1>1, <1>3, DeliverStartOnce DEF Deliver, Receive
<1>4. ASSUME NEW p \in net, DeliverAndKeep(p)
      PROVE  FALSE
  BY <1>1, <1>4, HappensIs DEF DeliverAndKeep, FaultKinds, Sound
<1>5. CASE ReceiveStray \/ StopReceiving \/ UNCHANGED vars
  <2>1. UNCHANGED <<txVars, net, ghosts>>
    BY <1>5 DEF ReceiveStray, StopReceiving, vars
  <2>2. UNCHANGED <<in_frame, meta>>
    BY <1>5, HubStays
  <2>3. QED
    BY <1>1, <2>1, <2>2 DEF StartOnce, Fresh, txVars, ghosts
<1>6. QED
  BY <1>1, <1>2, <1>3, <1>4, <1>5, NextIs, SenderStartOnce DEF Deliverable

LEMMA InitStarted == Init => Started
BY DEF Init, DepayloaderInit, Started, StartOnce

(* With tables in every frame, a frame in progress has bytes.               *)
LEMMA ProgressHasBytes ==
  ASSUME Sound, NoReuse, in_frame => scan_len > 0, NEW p \in net, Push(p)
  PROVE  in_frame' => scan_len' > 0
<1>1. /\ p.mode = mode[p.frame] /\ p.frame \in Frames
      /\ p.len \in Nat /\ p.len > 0
      /\ scan_len \in Nat
  BY InFlight, ScanMaxAssumption DEF Sound, TypeOK
<1>2. ~ StartWithoutTables(p)
  BY <1>1 DEF NoReuse, StartWithoutTables, TablesMissing
<1>3. CASE Aside(p)
  BY <1>3 DEF Aside, Unsupported, JoinedMidFrame, Mismatch
<1>4. CASE TooLong(p)
  BY <1>4 DEF TooLong
<1>5. CASE Store(p)
  <2>1. scan_len' = Base(p) + p.len /\ Base(p) \in Nat
    BY <1>1, <1>5 DEF Store, Base
  <2>2. QED
    BY <1>1, <2>1
<1>6. QED
  BY <1>2, <1>3, <1>4, <1>5 DEF Push, Aside

LEMMA NextAccounted ==
  ASSUME Sound, Started, Accounted, [Next]_vars
  PROVE  Accounted'
<1>1. UNCHANGED source
  BY SourceStays DEF vars
<1>2. NoReuse' = NoReuse
  BY <1>1 DEF NoReuse, source
<1> DEFINE Balance ==
      Cardinality(started) = frames + dropped + (IF in_frame THEN 1 ELSE 0)
<1> SUFFICES ASSUME faults'["dup"] = 0, NoReuse
             PROVE  (in_frame' => scan_len' > 0) /\ Balance'
  BY <1>2 DEF Accounted
<1>3. /\ faults["dup"] = 0 /\ StartOnce
      /\ in_frame => scan_len > 0
      /\ Balance
  BY FaultsGrow DEF Accounted, Started, FaultKinds
<1>4. /\ framed \in Nat /\ frames \in Nat /\ dropped \in Nat
      /\ in_frame \in BOOLEAN
  BY BoundsAssumption DEF Sound, TypeOK
<1>5. IsFiniteSet(started) /\ Cardinality(started) \in Nat
  <2>1. IsFiniteSet(1 .. framed) /\ started \subseteq 1 .. framed
    BY <1>3, <1>4, FS_Interval DEF StartOnce
  <2>2. QED
    BY <2>1, FS_Subset, FS_CardinalityType
<1>6. ASSUME NEW p \in net, Push(p), TrackGhosts(p)
      PROVE  (in_frame' => scan_len' > 0) /\ Balance'
  <2>1. in_frame' => scan_len' > 0
    BY <1>3, <1>6, ProgressHasBytes
  <2>2. CASE Begins(p)
    <3>1. p.off = 0 /\ p.frame \notin started
      BY <1>3, <2>2 DEF Begins, StartOnce, Fresh
    <3>2. Cardinality(started') = Cardinality(started) + 1
      BY <1>5, <2>2, <3>1, FS_AddElement DEF Begins
    <3>3. CutCount(p) = IF in_frame THEN 1 ELSE 0
      BY <1>3, <3>1 DEF CutCount, CutsShort
    <3>4. \/ in_frame' = TRUE /\ frames' = frames /\ dropped' = dropped + CutCount(p)
          \/ in_frame' = FALSE /\ frames' = frames + 1
             /\ dropped' = dropped + CutCount(p)
          \/ in_frame' = FALSE /\ frames' = frames
             /\ dropped' = dropped + 1 + CutCount(p)
      BY <2>2 DEF Begins
    <3>5. Balance'
      BY <1>3, <1>4, <1>5, <3>2, <3>3, <3>4
    <3>6. QED
      BY <2>1, <3>5
  <2>3. CASE Ends
    <3>1. /\ in_frame /\ in_frame' = FALSE /\ started' = started
          /\ \/ frames' = frames + 1 /\ dropped' = dropped
             \/ frames' = frames /\ dropped' = dropped + 1
      BY <2>3 DEF Ends
    <3>2. Balance'
      BY <1>3, <1>4, <1>5, <3>1
    <3>3. QED
      BY <2>1, <3>2
  <2>4. CASE KeepsOn
    BY <1>3, <2>1, <2>4 DEF KeepsOn
  <2>5. QED
    BY <1>6, <2>2, <2>3, <2>4, PushFrames
<1>7. ASSUME NEW p \in Deliverable, Deliver(p) \/ DeliverAndKeep(p)
      PROVE  (in_frame' => scan_len' > 0) /\ Balance'
  BY <1>6, <1>7 DEF Deliver, DeliverAndKeep, Receive, Deliverable
<1>8. CASE UNCHANGED <<in_frame, scan_len, frames, dropped>> /\ UNCHANGED ghosts
  BY <1>3, <1>8 DEF ghosts
<1>9. QED
  BY <1>7, <1>8, NextIs, HubStays

LEMMA InitAccounted == Init => Accounted
BY FS_EmptySet DEF Init, DepayloaderInit, Accounted

StartsInv == Sound /\ Started /\ Accounted

LEMMA StartsInvariant == Spec => []StartsInv
<1>1. Init => StartsInv
  BY InitSound, InitStarted, InitAccounted DEF StartsInv
<1>2. StartsInv /\ [Next]_vars => StartsInv'
  BY NextSound, NextStarted, NextAccounted DEF StartsInv
<1>3. QED
  BY <1>1, <1>2, PTL DEF Spec

(* Every frame whose start was received is delivered, dropped or in         *)
(* progress, and counted once, on a network that reorders too               *)
(* (rtp.rs:640-650).                                                        *)
THEOREM RtpJpegAccounted == Spec => []EveryStartAccounted
<1>1. StartsInv => EveryStartAccounted
  BY DEF StartsInv, Accounted, EveryStartAccounted, NoReuse
<1>2. QED
  BY StartsInvariant, <1>1, PTL

------------------------------------------------------------------------------
(* The packet channel.                                                      *)

ChannelStep == Channel!Next \/ UNCHANGED Channel!channelVars

LEMMA BeginsRefines ==
  ASSUME Sound, StartOnce, NEW p \in net, Begins(p), UNCHANGED txVars
  PROVE  ChannelStep
<1>1. framed' = framed /\ p.frame \in 1 .. framed /\ p.off = 0
  BY InFlight DEF txVars, Begins
<1>2. Channel!Open(p.frame) /\ (in_frame => Channel!Open(meta) /\ p.frame # meta)
  BY <1>1 DEF StartOnce, Fresh, Channel!Open, Sound, Framing
<1>3. in_frame => meta \in 1 .. framed
  BY DEF Sound, Framing
<1>4. CASE ~ CutsShort(p)
  <2>1. \/ UNCHANGED <<delivered, abandoned>>
        \/ delivered' = delivered \cup {p.frame} /\ UNCHANGED abandoned
        \/ abandoned' = abandoned \cup {p.frame} /\ UNCHANGED delivered
    BY <1>4 DEF Begins, CutShort
  <2>2. \/ UNCHANGED Channel!channelVars
        \/ Channel!Deliver(p.frame) \/ Channel!Abandon(p.frame)
    BY <1>1, <1>2, <2>1
    DEF Channel!channelVars, Channel!Deliver, Channel!Abandon
  <2>3. QED
    BY <1>1, <2>2 DEF ChannelStep, Channel!Next
<1>5. CASE CutsShort(p)
  <2>1. in_frame /\ CutShort(p) = {meta}
    BY <1>5 DEF CutsShort, CutShort
  <2>2. \/ abandoned' = abandoned \cup {meta} /\ UNCHANGED delivered
        \/ delivered' = delivered \cup {p.frame} /\ abandoned' = abandoned \cup {meta}
        \/ abandoned' = abandoned \cup {p.frame, meta} /\ UNCHANGED delivered
    BY <2>1 DEF Begins
  <2>3. \/ Channel!Abandon(meta) \/ Channel!DeliverFor(p.frame, meta)
        \/ Channel!AbandonBoth(p.frame, meta)
    BY <1>1, <1>2, <2>1, <2>2
    DEF Channel!Abandon, Channel!DeliverFor, Channel!AbandonBoth
  <2>4. QED
    BY <1>1, <1>3, <2>1, <2>3 DEF ChannelStep, Channel!Next
<1>6. QED
  BY <1>4, <1>5

LEMMA NextRefines ==
  ASSUME Sound, StartOnce, [Next]_vars
  PROVE  ChannelStep
<1>1. ASSUME NEW p \in net, Push(p), TrackGhosts(p), UNCHANGED txVars
      PROVE  ChannelStep
  <2>1. framed' = framed
    BY <1>1 DEF txVars
  <2>2. CASE Ends
    <3>1. in_frame /\ meta \in 1 .. framed /\ Channel!Open(meta)
      BY <2>2 DEF Ends, StartOnce, Sound, Framing, Channel!Open
    <3>2. Channel!Deliver(meta) \/ Channel!Abandon(meta)
      BY <2>1, <2>2, <3>1 DEF Ends, Channel!Deliver, Channel!Abandon
    <3>3. QED
      BY <3>1, <3>2 DEF ChannelStep, Channel!Next
  <2>3. CASE KeepsOn
    BY <2>1, <2>3 DEF KeepsOn, ChannelStep, Channel!channelVars
  <2>4. QED
    BY <1>1, <2>2, <2>3, PushFrames, BeginsRefines
<1>2. CASE BeginFrame
  <2>1. framed' = framed + 1 /\ UNCHANGED <<delivered, abandoned>>
    BY <1>2 DEF BeginFrame, ghosts
  <2>2. QED
    BY <2>1 DEF ChannelStep, Channel!Next, Channel!Offer
<1>3. CASE framed' = framed /\ UNCHANGED ghosts
  BY <1>3 DEF ChannelStep, Channel!channelVars, ghosts
<1>4. ASSUME NEW p \in net, Deliver(p) \/ DeliverAndKeep(p)
      PROVE  ChannelStep
  BY <1>1, <1>4 DEF Deliver, DeliverAndKeep, Receive
<1>5. CASE Emit \/ EmitFails \/ Restart
  BY <1>3, <1>5 DEF Emit, EmitFails, Restart
<1>6. CASE \E p \in net : Lose(p)
  BY <1>3, <1>6 DEF Lose, txVars
<1>7. CASE ReceiveStray \/ StopReceiving \/ UNCHANGED vars
  BY <1>3, <1>7 DEF ReceiveStray, StopReceiving, vars, txVars
<1>8. QED
  BY <1>2, <1>4, <1>5, <1>6, <1>7, NextIs DEF SenderStep, Deliverable

(* With nothing delivered twice, RTP/JPEG is a packet channel for frames:   *)
(* each is handed over or dropped, at most once and never both, whatever is *)
(* lost, reordered or cut off by a failed send or a restart, and whatever   *)
(* the timestamps and sizes (rtp.rs:633-641).                               *)
THEOREM RtpJpegImplementsChannel ==
  ASSUME MaxDup = 0
  PROVE  Spec => ImplementsChannel
<1>1. StartsInv => StartOnce
  BY BoundsAssumption DEF StartsInv, Started, Sound, TypeOK, FaultsBounded, FaultKinds
<1>2. Init => Channel!Init
  BY DEF Init, Channel!Init
<1>3. StartsInv /\ [Next]_vars => [Channel!Next]_(Channel!channelVars)
  BY <1>1, NextRefines DEF StartsInv, ChannelStep
<1>4. QED
  BY <1>2, <1>3, StartsInvariant, PTL DEF Spec, ImplementsChannel, Channel!Spec

------------------------------------------------------------------------------
(* Sequence numbers.                                                        *)

LEMMA DivMod ==
  ASSUME NEW a \in Int
  PROVE  /\ a = SeqMod * (a \div SeqMod) + (a % SeqMod)
         /\ a \div SeqMod \in Int /\ a % SeqMod \in 0 .. SeqMod - 1
BY SeqModAssumption

(* A remainder is the only one.                                             *)
LEMMA ModUnique ==
  ASSUME NEW q \in Int, NEW r \in 0 .. SeqMod - 1
  PROVE  (SeqMod * q + r) % SeqMod = r
<1> USE SeqModAssumption
<1> DEFINE k == (SeqMod * q + r) \div SeqMod
           s == (SeqMod * q + r) % SeqMod
<1>1. SeqMod * q + r \in Int
  OBVIOUS
<1>2. SeqMod * q + r = SeqMod * k + s /\ k \in Int /\ s \in 0 .. SeqMod - 1
  BY <1>1, DivMod
<1> HIDE DEF k, s
<1>3. SeqMod * (q - k) = s - r
  BY <1>2
<1>4. CASE q - k >= 1
  <2>1. SeqMod * (q - k) >= SeqMod
    BY <1>2, <1>4
  <2>2. QED
    BY <1>2, <1>3, <2>1
<1>5. CASE q - k <= -1
  <2>1. SeqMod * (q - k) <= -SeqMod
    BY <1>2, <1>5
  <2>2. QED
    BY <1>2, <1>3, <2>1
<1>6. CASE q - k = 0
  <2>1. SeqMod * (q - k) = 0
    BY <1>6
  <2>2. s = r
    BY <1>2, <1>3, <2>1
  <2>3. QED
    BY <2>2 DEF s
<1>7. QED
  BY <1>2, <1>4, <1>5, <1>6

LEMMA ModShift ==
  ASSUME NEW a \in Int, NEW b \in Int
  PROVE  ((a % SeqMod) + b) % SeqMod = (a + b) % SeqMod
<1> USE SeqModAssumption
<1> DEFINE q == a \div SeqMod
           s == a % SeqMod
           k == (s + b) \div SeqMod
           r == (s + b) % SeqMod
<1>1. a = SeqMod * q + s /\ q \in Int /\ s \in 0 .. SeqMod - 1
  BY DivMod
<1> HIDE DEF q, s
<1>2. s + b \in Int
  BY <1>1
<1>3. s + b = SeqMod * k + r /\ k \in Int /\ r \in 0 .. SeqMod - 1
  BY <1>2, DivMod
<1> HIDE DEF k, r
<1>4. (SeqMod * (q + k) + r) % SeqMod = r
  <2>1. q + k \in Int
    BY <1>1, <1>3
  <2>2. QED
    BY <1>3, <2>1, ModUnique
<1>5. a + b = SeqMod * (q + k) + r
  BY <1>1, <1>3
<1>6. (a + b) % SeqMod = r
  BY <1>4, <1>5
<1>7. QED
  BY <1>6 DEF r, s

(* Equally spaced indices, equally spaced sequence numbers.                 *)
LEMMA SeqAhead ==
  ASSUME NEW s, NEW i \in Int, NEW t, NEW j \in Int, SeqIs(s, i), SeqIs(t, j)
  PROVE  t = (s + (j - i)) % SeqMod
<1>1. FirstSeq + i \in Int /\ j - i \in Int
  BY FirstSeqAssumption, SeqModAssumption
<1>2. (s + (j - i)) % SeqMod = (FirstSeq + i + (j - i)) % SeqMod
  BY <1>1, ModShift DEF SeqIs
<1>3. FirstSeq + i + (j - i) = FirstSeq + j
  BY FirstSeqAssumption, SeqModAssumption
<1>4. QED
  BY <1>2, <1>3 DEF SeqIs

(* What the gap is: the packets in between, while they are fewer than half  *)
(* the circle; and none when the same packet comes again.                   *)
LEMMA GapIs ==
  ASSUME NEW p, NEW d \in Nat, d < SeqMod \div 2, last_seq \in 0 .. SeqMod - 1,
         p.seq = (last_seq + (d + 1)) % SeqMod
  PROVE  Gap(p) = d
<1> USE SeqModAssumption
<1> DEFINE k == (last_seq + (d + 1)) \div SeqMod
<1>1. last_seq + (d + 1) \in Int
  OBVIOUS
<1>2. last_seq + (d + 1) = SeqMod * k + p.seq /\ k \in Int
      /\ p.seq \in 0 .. SeqMod - 1
  BY <1>1, DivMod
<1>3. d \in 0 .. SeqMod - 1 /\ SeqMod \div 2 \in Nat
  OBVIOUS
<1>4. (SeqMod * (-k) + d) % SeqMod = d
  BY <1>2, <1>3, ModUnique
<1> HIDE DEF k
<1>5. p.seq - last_seq - 1 = SeqMod * (-k) + d
  BY <1>2
<1>6. Skipped(p) = d
  BY <1>4, <1>5 DEF Skipped
<1>7. QED
  BY <1>6 DEF Gap

LEMMA GapOfRepeat ==
  ASSUME NEW p, last_seq \in 0 .. SeqMod - 1, p.seq = last_seq
  PROVE  Gap(p) = 0
<1> USE SeqModAssumption
<1>1. (SeqMod * (-1) + (SeqMod - 1)) % SeqMod = SeqMod - 1
  <2>1. -1 \in Int /\ SeqMod - 1 \in 0 .. SeqMod - 1
    OBVIOUS
  <2>2. QED
    BY <2>1, ModUnique
<1>2. p.seq - last_seq - 1 = SeqMod * (-1) + (SeqMod - 1)
  OBVIOUS
<1>3. Skipped(p) = SeqMod - 1
  BY <1>1, <1>2 DEF Skipped
<1>4. ~ (SeqMod - 1 < SeqMod \div 2)
  OBVIOUS
<1>5. QED
  BY <1>3, <1>4 DEF Gap

------------------------------------------------------------------------------
(* Packets that never arrive.                                               *)

LEMMA OneMoreAtMost ==
  ASSUME NEW S, NEW T, NEW x, IsFiniteSet(S), T \subseteq S \cup {x}
  PROVE  IsFiniteSet(T) /\ Cardinality(T) \in Nat
         /\ Cardinality(T) <= Cardinality(S) + 1
<1>1. IsFiniteSet(S \cup {x}) /\ Cardinality(S) \in Nat
      /\ Cardinality(S \cup {x}) <= Cardinality(S) + 1
  <2>1. Cardinality(S \cup {x}) = IF x \in S THEN Cardinality(S)
                                            ELSE Cardinality(S) + 1
    BY FS_AddElement
  <2>2. QED
    BY <2>1, FS_AddElement, FS_CardinalityType
<1>2. QED
  BY <1>1, FS_Subset, FS_CardinalityType

LEMMA NotMore ==
  ASSUME NEW S, NEW T, IsFiniteSet(S), T \subseteq S
  PROVE  IsFiniteSet(T) /\ Cardinality(T) \in Nat /\ Cardinality(S) \in Nat
         /\ Cardinality(T) <= Cardinality(S)
BY FS_Subset, FS_CardinalityType

LEMMA GoneFinite ==
  ASSUME Sound
  PROVE  IsFiniteSet(Gone) /\ Cardinality(Gone) \in Nat
<1>1. 0 \in Int /\ nextIdx - 1 \in Int
  BY DEF Sound, TypeOK
<1>2. IsFiniteSet(0 .. nextIdx - 1)
  BY <1>1, FS_Interval
<1>3. Gone \subseteq 0 .. nextIdx - 1
  BY DEF Gone
<1>4. QED
  BY <1>2, <1>3, NotMore

LEMMA NextGone ==
  ASSUME Sound, GoneBounded, [Next]_vars
  PROVE  GoneBounded'
<1>1. /\ nextIdx \in Nat
      /\ \A p \in net : p.idx \in 0 .. nextIdx - 1
      /\ arrived \subseteq 0 .. nextIdx - 1
      /\ faults \in [FaultKinds -> Nat]
      /\ faults["loss"] \in Nat /\ faults["fail"] \in Nat
  <2>1. nextIdx \in Nat /\ faults \in [FaultKinds -> Nat]
    BY DEF Sound, TypeOK
  <2>2. ASSUME NEW p \in net PROVE p.idx \in 0 .. nextIdx - 1
    BY <2>1, InFlight DEF Sound, Framing, PieceOf
  <2>3. QED
    BY <2>1, <2>2 DEF GoneBounded, FaultKinds
<1>2. IsFiniteSet(Gone) /\ Cardinality(Gone) \in Nat
      /\ Cardinality(Gone) <= faults["loss"] + faults["fail"]
  BY GoneFinite DEF GoneBounded
<1>3. ASSUME Gone' \subseteq Gone, arrived' \subseteq 0 .. nextIdx' - 1,
             \/ faults' = faults
             \/ \E k \in FaultKinds : Happens(k)
      PROVE  GoneBounded'
  <2>1. Cardinality(Gone') <= Cardinality(Gone) /\ Cardinality(Gone') \in Nat
    BY <1>2, <1>3, NotMore
  <2>2. /\ faults'["loss"] >= faults["loss"] /\ faults'["fail"] >= faults["fail"]
        /\ faults'["loss"] \in Nat /\ faults'["fail"] \in Nat
    BY <1>1, <1>3, HappensIs DEF Sound, FaultKinds
  <2>3. QED
    BY <1>1, <1>2, <1>3, <2>1, <2>2 DEF GoneBounded
<1>4. ASSUME NEW x, Gone' \subseteq Gone \cup {x},
             arrived' \subseteq 0 .. nextIdx' - 1,
             NEW k \in {"loss", "fail"}, Happens(k)
      PROVE  GoneBounded'
  <2>1. Cardinality(Gone') <= Cardinality(Gone) + 1 /\ Cardinality(Gone') \in Nat
    BY <1>2, <1>4, OneMoreAtMost
  <2>2. /\ faults'[k] = faults[k] + 1
        /\ \A j \in FaultKinds : j # k => faults'[j] = faults[j]
    BY <1>4, HappensIs DEF Sound, FaultKinds
  <2>3. faults'["loss"] + faults'["fail"] = faults["loss"] + faults["fail"] + 1
    BY <1>1, <2>2 DEF FaultKinds
  <2>4. QED
    BY <1>1, <1>2, <1>4, <2>1, <2>3 DEF GoneBounded
<1>5. CASE Emit
  <2>1. /\ nextIdx' = nextIdx + 1 /\ net' = net \cup {NextPacket}
        /\ NextPacket.idx = nextIdx /\ UNCHANGED <<arrived, faults>>
    BY <1>5 DEF Emit, TakeSequence, NextPacket, ghosts
  <2>2. Gone' \subseteq Gone
    <3> SUFFICES ASSUME NEW i \in Gone' PROVE i \in Gone
      OBVIOUS
    <3>1. /\ i \in 0 .. nextIdx /\ i \notin arrived
          /\ \A q \in net \cup {NextPacket} : q.idx # i
      BY <1>1, <2>1 DEF Gone
    <3>2. i # nextIdx
      BY <2>1, <3>1
    <3>3. QED
      BY <1>1, <3>1, <3>2 DEF Gone
  <2>3. arrived' \subseteq 0 .. nextIdx' - 1
    BY <1>1, <2>1
  <2>4. QED
    BY <1>3, <2>1, <2>2, <2>3
<1>6. CASE EmitFails
  <2>1. /\ nextIdx' = nextIdx + 1 /\ net' = net /\ UNCHANGED arrived
        /\ Happens("fail")
    BY <1>6 DEF EmitFails, TakeSequence, ghosts
  <2>2. Gone' \subseteq Gone \cup {nextIdx}
    BY <1>1, <2>1 DEF Gone
  <2>3. arrived' \subseteq 0 .. nextIdx' - 1
    BY <1>1, <2>1
  <2>4. QED
    BY <1>4, <2>1, <2>2, <2>3
<1>7. ASSUME NEW p \in net, Lose(p)
      PROVE  GoneBounded'
  <2>1. /\ nextIdx' = nextIdx /\ net' = net \ {p} /\ UNCHANGED arrived
        /\ Happens("loss")
    BY <1>7 DEF Lose, txVars, ghosts
  <2>2. Gone' \subseteq Gone \cup {p.idx}
    BY <2>1 DEF Gone
  <2>3. QED
    BY <1>1, <1>4, <2>1, <2>2
<1>8. ASSUME NEW p \in net, Deliver(p) \/ DeliverAndKeep(p)
      PROVE  GoneBounded'
  <2>1. /\ nextIdx' = nextIdx /\ net \subseteq net' \cup {p}
        /\ arrived' = arrived \cup {p.idx}
        /\ faults' = faults \/ Happens("dup")
    BY <1>8 DEF Deliver, DeliverAndKeep, Receive, TrackGhosts, txVars
  <2>2. Gone' \subseteq Gone
    BY <2>1 DEF Gone
  <2>3. QED
    BY <1>1, <1>3, <2>1, <2>2 DEF FaultKinds
<1>9. CASE BeginFrame \/ Restart \/ ReceiveStray \/ StopReceiving \/ UNCHANGED vars
  <2>1. /\ nextIdx' = nextIdx /\ net' = net /\ arrived' = arrived
        /\ faults' = faults \/ Happens("restart")
    BY <1>9 DEF BeginFrame, Restart, ReceiveStray, StopReceiving, vars, txVars,
                ghosts
  <2>2. Gone' \subseteq Gone
    BY <2>1 DEF Gone
  <2>3. QED
    BY <1>1, <1>3, <2>1, <2>2 DEF FaultKinds
<1>10. QED
  BY <1>5, <1>6, <1>7, <1>8, <1>9, NextIs DEF SenderStep, Deliverable

LEMMA NextNumbered ==
  ASSUME Sound, Numbered, [Next]_vars
  PROVE  Numbered'
<1> SUFFICES ASSUME faults'["restart"] = 0
             PROVE  SeqIs(nextSeq, nextIdx)' /\ \A p \in net' : SeqIs(p.seq, p.idx)
  BY DEF Numbered, SeqIs
<1>1. faults["restart"] = 0 /\ nextIdx \in Nat
  BY FaultsGrow DEF FaultKinds, Sound, TypeOK
<1>2. /\ SeqIs(nextSeq, nextIdx)
      /\ \A p \in net : SeqIs(p.seq, p.idx)
  BY <1>1 DEF Numbered
<1>3. ~ Restart
  BY HappensIs DEF Restart, FaultKinds, Sound
<1>4. ASSUME TakeSequence
      PROVE  SeqIs(nextSeq, nextIdx)'
  <2>1. nextSeq' = (nextSeq + 1) % SeqMod /\ nextIdx' = nextIdx + 1
    BY <1>4 DEF TakeSequence
  <2>2. FirstSeq + nextIdx \in Int /\ 1 \in Int
    BY <1>1, FirstSeqAssumption, SeqModAssumption
  <2>3. nextSeq' = (FirstSeq + nextIdx + 1) % SeqMod
    BY <1>2, <2>1, <2>2, ModShift DEF SeqIs
  <2>4. FirstSeq + nextIdx + 1 = FirstSeq + nextIdx'
    BY <1>1, <2>1, FirstSeqAssumption, SeqModAssumption
  <2>5. QED
    BY <2>3, <2>4 DEF SeqIs
<1>5. TakeSequence \/ UNCHANGED <<nextSeq, nextIdx>>
  BY <1>3 DEF Next, vars, txVars, BeginFrame, Emit, EmitFails, Lose, Deliver,
              DeliverAndKeep, Receive, ReceiveStray, StopReceiving
<1>6. SeqIs(nextSeq, nextIdx)'
  BY <1>2, <1>4, <1>5 DEF SeqIs
<1>7. NextPacket.seq = nextSeq /\ NextPacket.idx = nextIdx
  BY DEF NextPacket
<1>8. net' \subseteq net \cup {NextPacket}
  BY DEF Next, vars, BeginFrame, Emit, EmitFails, Restart, Lose, Deliver,
         DeliverAndKeep, ReceiveStray, StopReceiving
<1>9. \A p \in net' : SeqIs(p.seq, p.idx)
  BY <1>2, <1>7, <1>8
<1>10. QED
  BY <1>6, <1>9

LEMMA InitGone == Init => GoneBounded /\ Numbered
<1> SUFFICES ASSUME Init PROVE GoneBounded /\ Numbered
  OBVIOUS
<1>1. /\ nextIdx = 0 /\ nextSeq = FirstSeq /\ net = {} /\ arrived = {}
      /\ faults["loss"] = 0 /\ faults["fail"] = 0
  BY DEF Init, FaultKinds
<1>2. Gone = {}
  BY <1>1 DEF Gone
<1>3. Cardinality(Gone) = 0
  BY <1>2, FS_EmptySet
<1>4. FirstSeq = (FirstSeq + 0) % SeqMod
  <2>1. 0 \in Int /\ FirstSeq \in 0 .. SeqMod - 1
    BY FirstSeqAssumption
  <2>2. (SeqMod * 0 + FirstSeq) % SeqMod = FirstSeq
    BY <2>1, ModUnique
  <2>3. SeqMod * 0 + FirstSeq = FirstSeq + 0
    BY <2>1, SeqModAssumption
  <2>4. QED
    BY <2>2, <2>3
<1>5. QED
  BY <1>1, <1>3, <1>4 DEF GoneBounded, Numbered, SeqIs

------------------------------------------------------------------------------
(* A network that keeps the order.                                          *)

LEMMA NextChain ==
  ASSUME Sound, Chain, [Next]_vars
  PROVE  Chain'
<1>1. nextIdx \in Nat /\ cursor \in Nat
      /\ \A p \in net : p.idx \in Nat /\ p.idx < nextIdx
  BY InFlight DEF Sound, TypeOK, Framing, PieceOf
<1>2. CASE Emit
  <2>1. /\ busy /\ nextIdx' = nextIdx + 1 /\ net' = net \cup {NextPacket}
        /\ framed' = framed
    BY <1>2 DEF Emit, TakeSequence
  <2>2. /\ NextPacket.frame = framed /\ NextPacket.idx = nextIdx
        /\ NextPacket.off = cursor
    BY DEF NextPacket
  <2>0. ASSUME NEW p \in net', NEW q \in net', p.idx = q.idx
        PROVE  p = q
    BY <1>1, <2>0, <2>1, <2>2 DEF Chain
  <2>3. ASSUME NEW p \in net', NEW q \in net', q.idx = p.idx + 1, q.off # 0
        PROVE  q.frame = p.frame
    <3>1. CASE q \in net
      <4>1. p \in net
        BY <1>1, <2>1, <2>2, <2>3, <3>1
      <4>2. QED
        BY <2>3, <3>1, <4>1 DEF Chain
    <3>2. CASE q = NextPacket
      <4>1. p.idx + 1 = nextIdx /\ cursor # 0
        BY <2>2, <2>3, <3>2
      <4>2. p \in net
        BY <1>1, <2>1, <2>2, <4>1
      <4>3. p.frame = framed
        BY <2>1, <4>1, <4>2 DEF Chain
      <4>4. QED
        BY <2>2, <3>2, <4>3
    <3>3. QED
      BY <2>1, <3>1, <3>2
  <2>4. ASSUME NEW p \in net', p.idx + 1 = nextIdx'
        PROVE  p.frame = framed'
    <3>1. p \notin net
      BY <1>1, <2>1, <2>4
    <3>2. QED
      BY <2>1, <2>2, <3>1
  <2>5. QED
    BY <2>0, <2>3, <2>4 DEF Chain
<1>3. CASE BeginFrame
  BY <1>3 DEF BeginFrame, Chain
<1>4. CASE EmitFails \/ Restart
  BY <1>4 DEF EmitFails, Restart, Chain
<1>5. CASE net' \subseteq net /\ UNCHANGED txVars
  BY <1>5 DEF Chain, txVars
<1>6. CASE \E p \in net : Lose(p) \/ Deliver(p) \/ DeliverAndKeep(p)
  BY <1>5, <1>6 DEF Lose, Deliver, DeliverAndKeep, Receive
<1>7. CASE ReceiveStray \/ StopReceiving \/ UNCHANGED vars
  BY <1>5, <1>7 DEF ReceiveStray, StopReceiving, vars
<1>8. QED
  BY <1>2, <1>3, <1>4, <1>6, <1>7, NextIs DEF SenderStep, Deliverable

(* What the hub does when a packet comes.                                   *)
LEMMA ReceiveIs ==
  ASSUME NEW p \in Deliverable, Deliver(p) \/ DeliverAndKeep(p)
  PROVE  /\ p \in net /\ Push(p) /\ TrackGhosts(p) /\ UNCHANGED <<source, txVars>>
         /\ arrived' = arrived \cup {p.idx}
         /\ net' \subseteq net
         /\ faults' = faults \/ Happens("dup")
         /\ Fifo => \A q \in net : p.idx <= q.idx
BY DEF Deliverable, Deliver, DeliverAndKeep, Receive, TrackGhosts

(* The packet received last is the latest.                                  *)
LEMMA ReceiveLast ==
  ASSUME Sound, Fifo, NEW l, arrived # {} => l \in arrived /\ LastIn(l),
         NEW p \in Deliverable, Deliver(p) \/ DeliverAndKeep(p)
  PROVE  /\ p.idx \in arrived' /\ LastIn(p.idx)'
         /\ arrived # {} => l \in Nat /\ p.idx \in Nat /\ l <= p.idx
<1>1. /\ p \in net /\ arrived' = arrived \cup {p.idx} /\ net' \subseteq net
      /\ \A q \in net : p.idx <= q.idx
  BY ReceiveIs
<1>2. \A i \in arrived : i <= l
  BY DEF LastIn
<1>3. arrived # {} => l <= p.idx
  BY <1>1 DEF LastIn
<1>4. p.idx \in Nat /\ \A i \in arrived : i \in Nat
  BY <1>1, InFlight DEF Sound, TypeOK
<1>5. \A i \in arrived' : i <= p.idx
  <2> SUFFICES ASSUME NEW i \in arrived PROVE i <= p.idx
    BY <1>1, <1>4
  <2>1. i <= l /\ l <= p.idx /\ l \in Nat /\ i \in Nat
    BY <1>2, <1>3, <1>4
  <2>2. QED
    BY <1>4, <2>1
<1>6. \A q \in net' : p.idx <= q.idx
  BY <1>1
<1>7. LastIn(p.idx)' <=> (\A i \in arrived' : i <= p.idx) /\ (\A q \in net' : p.idx <= q.idx)
  BY DEF LastIn
<1>8. QED
  BY <1>1, <1>3, <1>4, <1>5, <1>6, <1>7

(* The packet after the last one is never taken for another frame's.        *)
LEMMA ReceiveAfter ==
  ASSUME Sound, Chain, NEW p \in net, Push(p), UNCHANGED <<source, txVars>>,
         net' \subseteq net, Stores(p) /\ p.off # 0 => p.frame = meta,
         NEW l, l = p.idx
  PROVE  After(l)'
<1>1. /\ framed' = framed /\ busy' = busy /\ nextIdx' = nextIdx
      /\ cursor' = cursor /\ mode' = mode
  BY DEF source, txVars
<1>2. /\ p.off \in Nat /\ p.len \in Nat /\ p.len > 0 /\ p.idx \in Nat
      /\ p.mode = mode[p.frame] /\ scan_len \in Nat
  BY InFlight, ScanMaxAssumption DEF Sound, TypeOK
<1>3. ASSUME Supported(p), in_frame'
      PROVE  meta' = p.frame /\ (p.off = 0 \/ p.off < scan_len')
  <2>1. StartWithoutTables(p) \/ Store(p)
    BY <1>3 DEF Push, Unsupported, Supported, JoinedMidFrame, Mismatch, TooLong
  <2>2. CASE StartWithoutTables(p)
    BY <2>2 DEF StartWithoutTables
  <2>3. CASE Store(p)
    <3>1. Stores(p) /\ BeginOrKeep(p) /\ scan_len' = Base(p) + p.len
      BY <2>3 DEF Store
    <3>2. CASE p.off = 0
      BY <3>1, <3>2 DEF BeginOrKeep
    <3>3. CASE p.off # 0
      <4>1. meta' = meta /\ p.off = scan_len /\ Base(p) = scan_len
        BY <3>1, <3>3 DEF BeginOrKeep, Stores, Continues, Base
      <4>2. QED
        BY <1>2, <3>1, <3>3, <4>1
    <3>4. QED
      BY <3>2, <3>3
  <2>4. QED
    BY <2>1, <2>2, <2>3
<1>4. Supported(p) <=> mode[p.frame] # "unsupported"
  BY <1>2 DEF Supported
<1>5. ASSUME NEW q \in net', q.idx = l + 1
      PROVE  Follows(q.frame, q.off)'
  <2>1. q.off # 0 => q.frame = p.frame
    BY <1>5 DEF Chain
  <2>2. QED
    BY <1>1, <1>3, <1>4, <2>1 DEF Follows
<1>6. ASSUME NEW q \in net', q.idx = l, Supported(q), in_frame'
      PROVE  q.off = 0 \/ q.off < scan_len'
  <2>1. q = p
    BY <1>6 DEF Chain
  <2>2. QED
    BY <1>3, <1>6, <2>1
<1>7. ASSUME busy', nextIdx' = l + 1
      PROVE  Follows(framed, cursor)'
  <2>1. cursor # 0 => p.frame = framed
    BY <1>1, <1>7 DEF Chain
  <2>2. QED
    BY <1>1, <1>3, <1>4, <2>1 DEF Follows
<1>8. Supported(p)' = Supported(p)
  BY DEF Supported
<1>9. QED
  BY <1>5, <1>6, <1>7 DEF After, Supported

(* What is missing between the last packet and the next one will never come.*)
LEMMA GapWidth ==
  ASSUME Sound, GoneBounded, NEW l \in Nat, LastIn(l), NEW p \in net,
         \A q \in net : p.idx <= q.idx, l < p.idx
  PROVE  /\ p.idx - l - 1 \in Nat
         /\ p.idx - l - 1 <= MaxLoss + MaxFail
<1>1. /\ p.idx \in Nat /\ p.idx < nextIdx /\ nextIdx \in Nat
      /\ \A q \in net : q.idx \in Nat
      /\ \A i \in arrived : i \in Nat
  BY InFlight DEF Sound, Framing, PieceOf, TypeOK
<1>2. (l + 1) .. (p.idx - 1) \subseteq Gone
  <2> SUFFICES ASSUME NEW i \in (l + 1) .. (p.idx - 1) PROVE i \in Gone
    OBVIOUS
  <2>1. i \in 0 .. nextIdx - 1 /\ i > l /\ i < p.idx /\ i \in Nat
    BY <1>1
  <2>2. i \notin arrived
    BY <1>1, <2>1 DEF LastIn
  <2>3. \A q \in net : q.idx # i
    BY <1>1, <2>1
  <2>4. QED
    BY <2>1, <2>2, <2>3 DEF Gone
<1>3. Cardinality((l + 1) .. (p.idx - 1)) = p.idx - l - 1
  <2>1. l + 1 \in Int /\ p.idx - 1 \in Int
    BY <1>1
  <2>2. Cardinality((l + 1) .. (p.idx - 1))
          = IF l + 1 > p.idx - 1 THEN 0 ELSE p.idx - 1 - (l + 1) + 1
    BY <2>1, FS_Interval
  <2>3. QED
    BY <1>1, <2>2
<1>4. Cardinality((l + 1) .. (p.idx - 1)) <= Cardinality(Gone)
      /\ Cardinality(Gone) \in Nat
  BY <1>2, GoneFinite, NotMore
<1>5. /\ faults["loss"] \in Nat /\ faults["fail"] \in Nat
      /\ faults["loss"] <= MaxLoss /\ faults["fail"] <= MaxFail
      /\ Cardinality(Gone) <= faults["loss"] + faults["fail"]
  BY DEF Sound, TypeOK, FaultsBounded, GoneBounded, FaultKinds
<1>6. QED
  BY <1>1, <1>3, <1>4, <1>5, BoundsAssumption

(* A network that keeps the order and cannot lose half a circle of sequence *)
(* numbers: the receiver cannot mistake a gap for a repeat.                 *)
Orderly == Fifo /\ MaxLoss + MaxFail < SeqMod \div 2

(* Then a packet that continues is one's own, whatever the timestamps.      *)
LEMMA OrderTells ==
  ASSUME Orderly, Sound, GoneBounded, Numbered, faults["restart"] = 0,
         NEW l \in arrived, LastIn(l), SeqIs(last_seq, l), After(l),
         NEW p \in net, \A q \in net : p.idx <= q.idx,
         Stores(p), p.off # 0
  PROVE  p.frame = meta
<1>1. in_frame /\ Gap(p) = 0 /\ p.off = scan_len /\ Supported(p)
  BY DEF Stores, Continues
<1>2. l \in Nat /\ p.idx \in Nat /\ l <= p.idx /\ p.mode = mode[p.frame]
      /\ scan_len \in Nat
  BY InFlight, ScanMaxAssumption DEF Sound, TypeOK, LastIn
<1>3. CASE p.idx = l
  BY <1>1, <1>2, <1>3 DEF After
<1>4. CASE p.idx # l
  <2>1. p.idx - l - 1 \in Nat /\ p.idx - l - 1 <= MaxLoss + MaxFail
    BY <1>2, <1>4, GapWidth
  <2>2. p.idx - l - 1 < SeqMod \div 2
    BY <2>1, BoundsAssumption, SeqModAssumption DEF Orderly
  <2>3. p.seq = (last_seq + (p.idx - l)) % SeqMod
    BY <1>2, SeqAhead DEF Numbered
  <2>4. p.idx - l = (p.idx - l - 1) + 1
    BY <1>2
  <2>5. last_seq \in 0 .. SeqMod - 1
    <3>1. FirstSeq + l \in Int
      BY <1>2, FirstSeqAssumption
    <3>2. QED
      BY <3>1, ModBound DEF SeqIs
  <2>6. Gap(p) = p.idx - l - 1
    BY <2>1, <2>2, <2>3, <2>4, <2>5, GapIs
  <2>7. p.idx = l + 1
    BY <1>1, <1>2, <2>6
  <2>8. QED
    BY <1>1, <1>2, <2>7 DEF After, Follows, Supported
<1>5. QED
  BY <1>3, <1>4

(* A step that receives nothing keeps the last packet and what follows it.  *)
LEMMA OthersKeepOrder ==
  ASSUME Sound, GoneBounded, [Next]_vars, NEW l \in arrived, LastIn(l),
         UNCHANGED <<in_frame, meta, scan_len, arrived, source>>,
         SenderStep \/ (net' \subseteq net /\ UNCHANGED txVars)
  PROVE  LastIn(l)' /\ (After(l) => After(l)')
<1>1. /\ nextIdx \in Nat /\ l \in 0 .. nextIdx - 1 /\ l \in Nat
      /\ mode' = mode
  BY DEF Sound, TypeOK, GoneBounded, source
<1>2. CASE net' \subseteq net /\ UNCHANGED <<framed, busy, cursor, nextIdx>>
  BY <1>1, <1>2 DEF LastIn, After, Follows, Supported
<1>3. CASE BeginFrame
  <2>1. net' = net /\ cursor' = 0
    BY <1>3 DEF BeginFrame
  <2>2. QED
    BY <1>1, <2>1 DEF LastIn, After, Follows, Supported
<1>4. CASE EmitFails \/ Restart
  <2>1. net' = net /\ busy' = FALSE
    BY <1>4 DEF EmitFails, Restart
  <2>2. QED
    BY <1>1, <2>1 DEF LastIn, After, Follows, Supported
<1>5. CASE Emit
  <2>1. /\ busy /\ nextIdx' = nextIdx + 1 /\ net' = net \cup {NextPacket}
        /\ framed' = framed
    BY <1>5 DEF Emit, TakeSequence
  <2>2. /\ NextPacket.frame = framed /\ NextPacket.idx = nextIdx
        /\ NextPacket.off = cursor
    BY DEF NextPacket
  <2>3. LastIn(l)'
    <3>1. l <= nextIdx
      BY <1>1
    <3>2. \A q \in net' : l <= q.idx
      BY <2>1, <2>2, <3>1 DEF LastIn
    <3>3. QED
      BY <3>2 DEF LastIn
  <2>4. nextIdx' # l + 1 /\ nextIdx # l
    BY <1>1, <2>1
  <2>5. ASSUME After(l), NEW q \in net', q.idx = l + 1
        PROVE  Follows(q.frame, q.off)'
    <3>1. Follows(q.frame, q.off)
      BY <2>1, <2>2, <2>5 DEF After
    <3>2. QED
      BY <1>1, <3>1 DEF Follows
  <2>6. ASSUME After(l), NEW q \in net', q.idx = l, Supported(q), in_frame'
        PROVE  q.off = 0 \/ q.off < scan_len'
    BY <2>1, <2>2, <2>4, <2>6 DEF After
  <2>7. After(l) => After(l)'
    BY <2>4, <2>5, <2>6 DEF After, Supported
  <2>8. QED
    BY <2>3, <2>7
<1>6. QED
  BY <1>2, <1>3, <1>4, <1>5 DEF SenderStep, txVars

OrderInv == Sound /\ GoneBounded /\ Numbered /\ InOrder /\ ToldByOrder

LEMMA NextInOrder ==
  ASSUME Orderly, OrderInv, [Next]_vars
  PROVE  InOrder' /\ ToldByOrder'
<1>1. Chain' /\ UNCHANGED source
  BY NextChain, SourceStays DEF OrderInv, InOrder, vars
<1>2. faults'["restart"] = 0 => faults["restart"] = 0
  BY FaultsGrow DEF OrderInv, FaultKinds
<1>3. ASSUME NEW p \in Deliverable, Deliver(p) \/ DeliverAndKeep(p)
      PROVE  InOrder' /\ ToldByOrder'
  <2>1. /\ p \in net /\ Push(p) /\ UNCHANGED <<source, txVars>>
        /\ arrived' = arrived \cup {p.idx} /\ net' \subseteq net
        /\ \A q \in net : p.idx <= q.idx
    BY <1>3, ReceiveIs DEF Orderly
  <2>2. PICK l : arrived # {} =>
                   /\ l \in arrived /\ LastIn(l)
                   /\ faults["restart"] = 0 => SeqIs(last_seq, l) /\ After(l)
    BY DEF OrderInv, InOrder
  <2>3. p.idx \in arrived' /\ LastIn(p.idx)'
    BY <1>3, <2>2, ReceiveLast DEF OrderInv, Orderly
  <2>4. ASSUME faults["restart"] = 0
        PROVE  /\ Stores(p) /\ p.off # 0 => p.frame = meta
               /\ Own'
    <3>1. ASSUME Stores(p), p.off # 0
          PROVE  p.frame = meta
      <4>1. arrived # {}
        BY <3>1 DEF Stores, OrderInv, InOrder
      <4>2. QED
        BY <2>1, <2>2, <2>4, <3>1, <4>1, OrderTells DEF OrderInv
    <3>2. Own'
      BY <2>1, <2>4, <3>1, PushKeepsOwn DEF OrderInv, ToldByOrder
    <3>3. QED
      BY <3>1, <3>2
  <2>5. ASSUME faults["restart"] = 0, NEW m, m = p.idx
        PROVE  SeqIs(last_seq, m)' /\ After(m)'
    <3>1. After(m)'
      BY <2>1, <2>4, <2>5, ReceiveAfter DEF OrderInv, InOrder
    <3>2. last_seq' = p.seq /\ SeqIs(p.seq, p.idx)
      BY <2>1, <2>5, PushType DEF OrderInv, Numbered
    <3>3. QED
      BY <2>5, <3>1, <3>2 DEF SeqIs
  <2>6. \E m \in arrived' : LastIn(m)' /\ (faults'["restart"] = 0 =>
                                             SeqIs(last_seq, m)' /\ After(m)')
    <3>1. PICK m : m = p.idx
      OBVIOUS
    <3>2. m \in arrived' /\ LastIn(m)'
      BY <2>3, <3>1 DEF LastIn
    <3>3. QED
      BY <1>2, <2>5, <3>1, <3>2
  <2>7. ToldByOrder'
    BY <1>2, <2>4 DEF ToldByOrder
  <2>8. arrived' # {}
    BY <2>3
  <2>9. InOrder'
    BY <1>1, <2>6, <2>8 DEF InOrder
  <2>10. QED
    BY <2>7, <2>9
<1>4. CASE \/ SenderStep
           \/ \E p \in net : Lose(p)
           \/ ReceiveStray \/ StopReceiving \/ UNCHANGED vars
  <2>1. /\ UNCHANGED <<scan, scan_len, in_frame, timestamp, meta, qtables,
                       last_seq, jpeg>>
        /\ UNCHANGED arrived
    BY <1>4, HubStays DEF ghosts
  <2>2. SenderStep \/ (net' \subseteq net /\ UNCHANGED txVars)
    BY <1>4 DEF Lose, ReceiveStray, StopReceiving, vars
  <2>3. ToldByOrder'
    BY <1>1, <1>2, <2>1, OwnStays DEF OrderInv, ToldByOrder
  <2>4. ASSUME arrived' # {}
        PROVE  \E m \in arrived' : LastIn(m)' /\ (faults'["restart"] = 0 =>
                                             SeqIs(last_seq, m)' /\ After(m)')
    <3>1. PICK m \in arrived :
            /\ LastIn(m)
            /\ faults["restart"] = 0 => SeqIs(last_seq, m) /\ After(m)
      BY <2>1, <2>4 DEF OrderInv, InOrder
    <3>2. LastIn(m)' /\ (After(m) => After(m)')
      BY <1>1, <2>1, <2>2, <3>1, OthersKeepOrder DEF OrderInv
    <3>3. SeqIs(last_seq, m) => SeqIs(last_seq, m)'
      BY <2>1 DEF SeqIs
    <3>4. QED
      BY <1>2, <2>1, <3>1, <3>2, <3>3
  <2>5. in_frame' => arrived' # {}
    BY <2>1 DEF OrderInv, InOrder
  <2>6. InOrder'
    BY <1>1, <2>4, <2>5 DEF InOrder
  <2>7. QED
    BY <2>3, <2>6
<1>5. QED
  BY <1>3, <1>4, NextIs

LEMMA OrderInvariant ==
  ASSUME Orderly
  PROVE  Spec => []OrderInv
<1>1. Init => OrderInv
  <2> SUFFICES ASSUME Init PROVE OrderInv
    OBVIOUS
  <2>1. InOrder
    BY DEF Init, DepayloaderInit, InOrder, Chain
  <2>2. QED
    BY <2>1, InitSound, InitGone, InitOwn DEF OrderInv, ToldByOrder
<1>2. OrderInv /\ [Next]_vars => OrderInv'
  BY NextSound, NextGone, NextNumbered, NextInOrder DEF OrderInv
<1>3. QED
  BY <1>1, <1>2, PTL DEF Spec

(* Where the order is kept no mixed JPEG is handed over even if all frames  *)
(* share a timestamp, until the device restarts; and afterwards none is     *)
(* while timestamps differ (rtp.rs:633-634).                                *)
THEOREM RtpJpegWhole ==
  ASSUME Orderly
  PROVE  Spec => []WholeAcrossRestarts
<1>1. OrderInv /\ RtpInv => WholeAcrossRestarts
  BY DEF OrderInv, ToldByOrder, Own, RtpInv, Integrity, WholeAcrossRestarts
<1>2. QED
  BY <1>1, OrderInvariant, RtpJpegIntegrity, PTL

------------------------------------------------------------------------------
(* Losses on a network that reorders.                                       *)

LEMMA IntervalCard ==
  ASSUME NEW a \in Int, NEW b \in Int
  PROVE  /\ IsFiniteSet(a .. b) /\ Cardinality(a .. b) \in Nat
         /\ a <= b + 1 => Cardinality(a .. b) = b - a + 1
<1>1. Cardinality(a .. b) = IF a > b THEN 0 ELSE b - a + 1
  BY FS_Interval
<1>2. QED
  BY <1>1, FS_Interval

(* A set inside two others is no larger than both together.                 *)
LEMMA InsideBoth ==
  ASSUME NEW S, NEW T, NEW U, IsFiniteSet(S), IsFiniteSet(T), U \subseteq S \cup T
  PROVE  /\ Cardinality(U) \in Nat /\ Cardinality(S) \in Nat /\ Cardinality(T) \in Nat
         /\ Cardinality(U) <= Cardinality(S) + Cardinality(T)
<1>1. /\ IsFiniteSet(S \cup T) /\ IsFiniteSet(S \cap T)
      /\ Cardinality(S \cup T)
           = Cardinality(S) + Cardinality(T) - Cardinality(S \cap T)
  BY FS_Union, FS_Intersection
<1>2. /\ Cardinality(S) \in Nat /\ Cardinality(T) \in Nat
      /\ Cardinality(S \cap T) \in Nat
  BY <1>1, FS_CardinalityType
<1>3. Cardinality(U) \in Nat /\ Cardinality(U) <= Cardinality(S \cup T)
  BY <1>1, NotMore
<1>4. QED
  BY <1>1, <1>2, <1>3

(* Fewer than half a circle of packets, and no restart among them.          *)
ShortRun == faults["restart"] = 0 /\ nextIdx <= SeqMod \div 2

LEMMA NextCounting ==
  ASSUME Sound, GoneBounded, Numbered, Counting, ShortRun, [Next]_vars
  PROVE  Counting'
<1>1. ASSUME NEW p \in Deliverable, Deliver(p) \/ DeliverAndKeep(p)
      PROVE  Counting'
  <2>1. /\ p \in net /\ Push(p) /\ arrived' = arrived \cup {p.idx}
    BY <1>1, ReceiveIs
  <2>2. /\ p.idx \in Nat /\ nextIdx \in Nat /\ p.idx < nextIdx /\ lost \in Nat
        /\ arrived \subseteq Nat /\ arrived \subseteq 0 .. nextIdx - 1
    BY <2>1, InFlight DEF Sound, TypeOK, Framing, PieceOf, GoneBounded
  <2>3. last_seq' = p.seq /\ SeqIs(p.seq, p.idx)
    BY <2>1, PushType DEF Numbered, ShortRun
  <2>4. lost' = lost + Gap(p) /\ Gap(p) \in Nat
    BY <2>1, PushType, GapType
  <2>5. ASSUME NEW m, m = p.idx,
               \A i \in arrived : lost' >= Cardinality((i .. m) \ arrived')
        PROVE  Counting'
    <3>1. (m .. m) \ arrived' = {}
      BY <2>1, <2>2, <2>5
    <3>2. Cardinality((m .. m) \ arrived') = 0
      BY <3>1, FS_EmptySet
    <3>3. lost' >= 0
      BY <2>2, <2>4
    <3>4. \A i \in arrived' : lost' >= Cardinality((i .. m) \ arrived')
      BY <2>1, <2>5, <3>2, <3>3
    <3>5. m \in arrived' /\ SeqIs(last_seq', m)
      BY <2>1, <2>3, <2>5
    <3>6. LatestIs(m)'
      BY <3>4, <3>5 DEF LatestIs, SeqIs
    <3>7. QED
      BY <3>5, <3>6 DEF Counting
  <2>6. CASE arrived = {}
    BY <2>5, <2>6
  <2>7. ASSUME NEW l \in arrived, LatestIs(l), NEW i \in arrived
        PROVE  lost' >= Cardinality((i .. p.idx) \ arrived')
    <3> DEFINE before == (i .. l) \ arrived
    <3>1. l \in Nat /\ i \in Nat /\ l < nextIdx
      BY <2>2
    <3>2. IsFiniteSet(before) /\ Cardinality(before) \in Nat
      <4>1. IsFiniteSet(i .. l)
        BY <3>1, IntervalCard
      <4>2. QED
        BY <4>1, NotMore
    <3>3. lost >= Cardinality(before)
      BY <2>7 DEF LatestIs
    <3>4. CASE p.idx <= l
      <4>1. (i .. p.idx) \ arrived' \subseteq before
        BY <2>1, <2>2, <3>1, <3>4
      <4>2. Cardinality((i .. p.idx) \ arrived') <= Cardinality(before)
            /\ Cardinality((i .. p.idx) \ arrived') \in Nat
        BY <3>2, <4>1, NotMore
      <4>3. QED
        BY <2>2, <2>4, <3>2, <3>3, <4>2
    <3>5. CASE p.idx > l
      <4> DEFINE d == p.idx - l - 1
      <4>1. d \in Nat /\ p.idx - l = d + 1
        BY <2>2, <3>1, <3>5
      <4>2. d < SeqMod \div 2
        BY <2>2, <3>1, <3>5, SeqModAssumption DEF ShortRun
      <4>3. SeqIs(last_seq, l) /\ last_seq \in 0 .. SeqMod - 1
        <5>1. FirstSeq + l \in Int
          BY <3>1, FirstSeqAssumption
        <5>2. QED
          BY <2>7, <5>1, ModBound DEF LatestIs, SeqIs
      <4>4. p.seq = (last_seq + (p.idx - l)) % SeqMod
        BY <2>2, <2>3, <3>1, <4>3, SeqAhead
      <4>5. Gap(p) = d
        <5> HIDE DEF d
        <5>1. QED
          BY <4>1, <4>2, <4>3, <4>4, GapIs
      <4>6. (i .. p.idx) \ arrived' \subseteq before \cup ((l + 1) .. (p.idx - 1))
        BY <2>1, <2>2, <3>1, <3>5
      <4>7. /\ IsFiniteSet((l + 1) .. (p.idx - 1))
            /\ Cardinality((l + 1) .. (p.idx - 1)) = d
        <5>1. l + 1 \in Int /\ p.idx - 1 \in Int /\ l + 1 <= (p.idx - 1) + 1
              /\ (p.idx - 1) - (l + 1) + 1 = d
          BY <2>2, <3>1, <3>5
        <5>2. QED
          BY <5>1, IntervalCard
      <4>8. /\ Cardinality((i .. p.idx) \ arrived') <= Cardinality(before) + d
            /\ Cardinality((i .. p.idx) \ arrived') \in Nat
        BY <3>2, <4>6, <4>7, InsideBoth
      <4>9. QED
        BY <2>2, <2>4, <3>2, <3>3, <4>1, <4>5, <4>8
    <3>6. QED
      BY <2>2, <3>1, <3>4, <3>5
  <2>8. CASE arrived # {}
    BY <2>5, <2>7, <2>8 DEF Counting
  <2>9. QED
    BY <2>6, <2>8
<1>2. CASE UNCHANGED <<last_seq, lost>> /\ UNCHANGED ghosts
  BY <1>2 DEF Counting, LatestIs, SeqIs, ghosts
<1>3. QED
  BY <1>1, <1>2, NextIs, HubStays

(* In a short run a sequence number names one packet.                       *)
LEMMA SeqNames ==
  ASSUME NEW i \in Nat, NEW j \in Nat, i < SeqMod, j < SeqMod,
         NEW s, SeqIs(s, i), SeqIs(s, j)
  PROVE  i = j
<1>1. ASSUME NEW a \in Nat, NEW b \in Nat, a < b, b < SeqMod,
             SeqIs(s, a), SeqIs(s, b)
      PROVE  FALSE
  <2>1. s \in 0 .. SeqMod - 1 /\ s \in Int
    <3>1. FirstSeq + a \in Int
      BY FirstSeqAssumption
    <3>2. s \in 0 .. SeqMod - 1
      BY <1>1, <3>1, ModBound DEF SeqIs
    <3>3. QED
      BY <3>2
  <2>2. s = (s + (b - a)) % SeqMod
    BY <1>1, SeqAhead
  <2>3. b - a \in 1 .. SeqMod - 1 /\ s + (b - a) \in Int
    BY <1>1, <2>1, SeqModAssumption
  <2>4. /\ s + (b - a) = SeqMod * ((s + (b - a)) \div SeqMod) + s
        /\ (s + (b - a)) \div SeqMod \in Int
    BY <2>2, <2>3, DivMod
  <2>5. PICK k \in Int : b - a = SeqMod * k
    BY <1>1, <2>1, <2>4, SeqModAssumption
  <2>6. CASE k <= 0
    <3>1. SeqMod * k <= 0
      BY <2>6, SeqModAssumption
    <3>2. QED
      BY <2>3, <2>5, <3>1
  <2>7. CASE k >= 1
    <3>1. SeqMod * k >= SeqMod
      BY <2>7, SeqModAssumption
    <3>2. QED
      BY <2>3, <2>5, <3>1, SeqModAssumption
  <2>8. QED
    BY <2>6, <2>7
<1>2. QED
  BY <1>1

CountInv == Sound /\ GoneBounded /\ Numbered /\ Counting

(* Without a restart, and over half a circle of packets, a loss is never    *)
(* hidden however the network reorders: `lost` is at least the number of    *)
(* packets missing before the last one (rtp.rs:671-676).                    *)
THEOREM RtpJpegLossNeverHidden ==
  ASSUME MaxRestart = 0
  PROVE  Spec /\ [](nextIdx <= SeqMod \div 2) => []LossNeverHidden
<1>1. Init => CountInv
  BY InitSound, InitGone DEF CountInv, Init, Counting
<1>2. Sound => faults["restart"] = 0
  BY DEF Sound, TypeOK, FaultsBounded, FaultKinds
<1>3. CountInv /\ nextIdx <= SeqMod \div 2 /\ [Next]_vars => CountInv'
  BY <1>2, NextSound, NextGone, NextNumbered, NextCounting DEF CountInv, ShortRun
<1>4. CountInv /\ nextIdx <= SeqMod \div 2 => LossNeverHidden
  <2> SUFFICES ASSUME CountInv, nextIdx <= SeqMod \div 2,
                      NEW i \in arrived, NEW last \in arrived,
                      (FirstSeq + last) % SeqMod = last_seq
               PROVE  lost >= Cardinality((i .. last) \ arrived)
    BY DEF LossNeverHidden
  <2>1. PICK l \in arrived : LatestIs(l)
    BY DEF CountInv, Counting
  <2>2. /\ l \in Nat /\ last \in Nat /\ l < nextIdx /\ last < nextIdx
        /\ nextIdx \in Nat
    BY DEF CountInv, Sound, TypeOK, GoneBounded
  <2>3. l < SeqMod /\ last < SeqMod
    BY <2>2, SeqModAssumption
  <2>4. SeqIs(last_seq, l) /\ SeqIs(last_seq, last)
    BY <2>1 DEF LatestIs, SeqIs
  <2>5. last = l
    BY <2>2, <2>3, <2>4, SeqNames
  <2>6. QED
    BY <2>1, <2>5 DEF LatestIs
<1>5. QED
  BY <1>1, <1>3, <1>4, PTL DEF Spec

------------------------------------------------------------------------------
(* Losses on a network that keeps the order.                                *)

(* One number further on, in the same run.                                  *)
LEMMA SeqOnward ==
  ASSUME NEW s \in Int, NEW i \in Int, NEW j \in Int
  PROVE  (((s + (j - i)) % SeqMod) + 1) % SeqMod = (s + ((j + 1) - i)) % SeqMod
<1>1. s + (j - i) \in Int /\ 1 \in Int
  OBVIOUS
<1>2. (((s + (j - i)) % SeqMod) + 1) % SeqMod = (s + (j - i) + 1) % SeqMod
  BY <1>1, ModShift
<1>3. s + (j - i) + 1 = s + ((j + 1) - i)
  OBVIOUS
<1>4. QED
  BY <1>2, <1>3

LEMMA SeqSame ==
  ASSUME NEW s \in 0 .. SeqMod - 1, NEW i \in Int
  PROVE  s = (s + (i - i)) % SeqMod
<1>1. (SeqMod * 0 + s) % SeqMod = s
  <2>1. 0 \in Int
    OBVIOUS
  <2>2. QED
    BY <2>1, ModUnique
<1>2. SeqMod * 0 + s = s + (i - i)
  BY SeqModAssumption
<1>3. QED
  BY <1>1, <1>2

(* Runs of numbers: a packet is sent, or refused by the socket.             *)
LEMMA SequenceTaken ==
  ASSUME Sound, GoneBounded, TakeSequence, UNCHANGED <<arrived, lost, last_seq>>,
         faults'["restart"] = faults["restart"],
         net' = net \/ net' = net \cup {NextPacket},
         NEW boot \in [0 .. nextIdx -> 0 .. faults["restart"]], Runs(boot)
  PROVE  \E b \in [0 .. nextIdx' -> 0 .. faults'["restart"]] :
           /\ Runs(b)'
           /\ \A first, last \in arrived :
                Ledger(boot, first, last) => Ledger(b, first, last)'
<1> DEFINE n == nextIdx
<1>0. PICK b : b = [k \in 0 .. n + 1 |-> IF k = n + 1 THEN boot[n] ELSE boot[k]]
  OBVIOUS
<1>1. /\ n \in Nat /\ nextIdx' = n + 1 /\ nextSeq' = (nextSeq + 1) % SeqMod
      /\ nextSeq \in 0 .. SeqMod - 1 /\ nextSeq \in Int
      /\ arrived \subseteq 0 .. n - 1 /\ faults["restart"] \in Nat
  BY SeqModAssumption DEF Sound, TypeOK, GoneBounded, TakeSequence, FaultKinds
<1>2. ASSUME NEW p \in net
      PROVE  p.idx \in 0 .. n - 1 /\ p.seq \in 0 .. SeqMod - 1 /\ p.seq \in Int
  BY <1>1, InFlight, SeqModAssumption DEF Sound, Framing, PieceOf
<1>3. NextPacket.idx = n /\ NextPacket.seq = nextSeq
  BY DEF NextPacket
<1>4. /\ \A k \in 0 .. n : b[k] = boot[k]
      /\ b[n + 1] = boot[n] /\ b[n] = boot[n]
      /\ \A k \in 0 .. n : boot[k] \in 0 .. faults["restart"]
  BY <1>0, <1>1
<1>5. b \in [0 .. nextIdx' -> 0 .. faults'["restart"]]
  BY <1>0, <1>1
<1>6. ASSUME NEW i \in 0 .. n, NEW s \in Int, SameRun(boot, i, s, n, nextSeq)
      PROVE  SameRun(b, i, s, nextIdx', nextSeq')
  <2> SUFFICES ASSUME b[i] = b[nextIdx']
               PROVE  nextSeq' = (s + (nextIdx' - i)) % SeqMod
    BY DEF SameRun
  <2>1. boot[i] = boot[n]
    BY <1>1, <1>4
  <2>2. nextSeq = (s + (n - i)) % SeqMod /\ i \in Int
    BY <1>6, <2>1 DEF SameRun
  <2>3. n \in Int
    BY <1>1
  <2>4. (nextSeq + 1) % SeqMod = (s + ((n + 1) - i)) % SeqMod
    BY <2>2, <2>3, SeqOnward
  <2>5. QED
    BY <1>1, <2>4
<1>7. SameRun(boot, n, nextSeq, n, nextSeq)
  BY <1>1, SeqSame DEF SameRun
<1>8. ASSUME NEW i \in 0 .. n, NEW s, NEW j \in 0 .. n, NEW t, SameRun(boot, i, s, j, t)
      PROVE  SameRun(b, i, s, j, t)
  BY <1>4, <1>8 DEF SameRun
<1>9. \A i, j \in 0 .. nextIdx' : i <= j => b[i] <= b[j]
  <2> SUFFICES ASSUME NEW i \in 0 .. n + 1, NEW j \in 0 .. n + 1, i <= j
               PROVE  b[i] <= b[j]
    BY <1>1
  <2>1. CASE j \in 0 .. n
    BY <1>1, <1>4, <2>1 DEF Runs
  <2>2. CASE j = n + 1
    <3>1. CASE i = n + 1
      <4>1. boot[n] <= boot[n]
        BY <1>1, <1>4
      <4>2. QED
        BY <1>4, <2>2, <3>1, <4>1
    <3>2. CASE i \in 0 .. n
      <4>1. boot[i] <= boot[n]
        BY <1>1, <3>2 DEF Runs
      <4>2. QED
        BY <1>4, <2>2, <3>2, <4>1
    <3>3. QED
      BY <1>1, <3>1, <3>2
  <2>3. QED
    BY <1>1, <2>1, <2>2
<1>10. ASSUME NEW p \in net', NEW q \in net', p.idx <= q.idx
       PROVE  SameRun(b, p.idx, p.seq, q.idx, q.seq)
  <2>1. CASE p \in net /\ q \in net
    BY <1>1, <1>2, <1>8, <1>10, <2>1 DEF Runs
  <2>2. CASE p \in net /\ q = NextPacket
    BY <1>1, <1>2, <1>3, <1>8, <2>2 DEF Runs
  <2>3. CASE p = NextPacket /\ q \in net
    BY <1>1, <1>2, <1>3, <1>10, <2>3
  <2>4. CASE p = NextPacket /\ q = NextPacket
    BY <1>1, <1>3, <1>7, <1>8, <2>4
  <2>5. QED
    BY <2>1, <2>2, <2>3, <2>4
<1>11. ASSUME NEW p \in net'
       PROVE  SameRun(b, p.idx, p.seq, nextIdx', nextSeq')
  <2>1. CASE p \in net
    BY <1>1, <1>2, <1>6, <2>1 DEF Runs
  <2>2. CASE p = NextPacket
    BY <1>1, <1>3, <1>6, <1>7, <2>2
  <2>3. QED
    BY <2>1, <2>2
<1>12. Runs(b)'
  BY <1>9, <1>10, <1>11 DEF Runs, SameRun
<1>13. ASSUME NEW first \in arrived, NEW last \in arrived, Ledger(boot, first, last)
       PROVE  Ledger(b, first, last)'
  <2>1. last \in 0 .. n /\ last <= n /\ last_seq \in Int
    BY <1>1 DEF Sound, TypeOK
  <2>2. LastIn(last)'
    <3>1. /\ \A i \in arrived : i <= last
          /\ \A p \in net : last <= p.idx
      BY <1>13 DEF Ledger, LastIn
    <3>2. \A p \in net' : last <= p.idx
      BY <1>3, <2>1, <3>1
    <3>3. QED
      BY <3>1, <3>2 DEF LastIn
  <2>3. ASSUME NEW p \in net'
        PROVE  SameRun(b, last, last_seq, p.idx, p.seq)
    <3>1. CASE p \in net
      BY <1>1, <1>2, <1>8, <1>13, <2>1, <3>1 DEF Ledger
    <3>2. CASE p = NextPacket
      BY <1>1, <1>3, <1>8, <1>13, <2>1, <3>2 DEF Ledger
    <3>3. QED
      BY <3>1, <3>2
  <2>4. SameRun(b, last, last_seq, nextIdx', nextSeq')
    BY <1>6, <1>13, <2>1 DEF Ledger
  <2>5. b[last] = boot[last]
    BY <1>4, <2>1
  <2>6. Missing(first, last)' = Missing(first, last)
    BY DEF Missing
  <2>7. QED
    BY <1>13, <2>2, <2>3, <2>4, <2>5, <2>6 DEF Ledger, SameRun
<1>14. QED
  BY <1>5, <1>12, <1>13

(* The device restarts: what it sends from now on is in another run.        *)
LEMMA RunEnds ==
  ASSUME Sound, GoneBounded, Restart,
         NEW boot \in [0 .. nextIdx -> 0 .. faults["restart"]], Runs(boot)
  PROVE  \E b \in [0 .. nextIdx' -> 0 .. faults'["restart"]] :
           /\ Runs(b)'
           /\ \A first, last \in arrived :
                Ledger(boot, first, last) => Ledger(b, first, last)'
<1> DEFINE n == nextIdx
           r == faults["restart"]
<1>0. PICK b : b = [k \in 0 .. n |-> IF k = n THEN r + 1 ELSE boot[k]]
  OBVIOUS
<1>1. /\ n \in Nat /\ nextIdx' = n /\ net' = net
      /\ UNCHANGED <<arrived, lost, last_seq>>
      /\ arrived \subseteq 0 .. n - 1 /\ r \in Nat /\ faults'["restart"] = r + 1
  BY HappensIs
  DEF Sound, TypeOK, GoneBounded, Restart, FaultKinds, ghosts, rxVars
<1>2. ASSUME NEW p \in net
      PROVE  p.idx \in 0 .. n - 1
  BY <1>1, InFlight DEF Sound, Framing, PieceOf
<1>3. /\ \A k \in 0 .. n - 1 : b[k] = boot[k] /\ boot[k] \in 0 .. r
      /\ b[n] = r + 1
  BY <1>0, <1>1
<1>4. b \in [0 .. nextIdx' -> 0 .. faults'["restart"]]
  BY <1>0, <1>1
<1> HIDE DEF r
<1>5. \A k \in 0 .. n - 1 : b[k] # b[n] /\ b[k] <= b[n]
  BY <1>1, <1>3
<1>6. \A i, j \in 0 .. nextIdx' : i <= j => b[i] <= b[j]
  <2> SUFFICES ASSUME NEW i \in 0 .. n, NEW j \in 0 .. n, i <= j
               PROVE  b[i] <= b[j]
    BY <1>1
  <2>1. CASE j \in 0 .. n - 1
    <3>1. i \in 0 .. n - 1 /\ boot[i] <= boot[j]
      BY <1>1, <2>1 DEF Runs
    <3>2. QED
      BY <1>3, <2>1, <3>1
  <2>2. CASE j = n
    <3>1. CASE i \in 0 .. n - 1
      BY <1>5, <2>2, <3>1
    <3>2. CASE i = n
      BY <1>1, <1>3, <2>2, <3>2
    <3>3. QED
      BY <1>1, <3>1, <3>2
  <2>3. QED
    BY <1>1, <2>1, <2>2
<1>7. Runs(b)'
  <2>1. ASSUME NEW p \in net, NEW q \in net, p.idx <= q.idx
        PROVE  SameRun(b, p.idx, p.seq, q.idx, q.seq)
    BY <1>2, <1>3, <2>1 DEF Runs, SameRun
  <2>2. ASSUME NEW p \in net
        PROVE  SameRun(b, p.idx, p.seq, nextIdx', nextSeq')
    BY <1>1, <1>2, <1>5 DEF SameRun
  <2>3. QED
    BY <1>1, <1>6, <2>1, <2>2 DEF Runs, SameRun
<1>8. ASSUME NEW first \in arrived, NEW last \in arrived, Ledger(boot, first, last)
      PROVE  Ledger(b, first, last)'
  <2>1. last \in 0 .. n - 1
    BY <1>1
  <2>2. LastIn(last)'
    BY <1>1, <1>8 DEF Ledger, LastIn
  <2>3. ASSUME NEW p \in net
        PROVE  SameRun(b, last, last_seq, p.idx, p.seq)
    BY <1>2, <1>3, <1>8, <2>1 DEF Ledger, SameRun
  <2>4. SameRun(b, last, last_seq, nextIdx', nextSeq')
    BY <1>1, <1>5, <2>1 DEF SameRun
  <2>5. b[last] = boot[last]
    BY <1>3, <2>1
  <2>6. Missing(first, last)' = Missing(first, last)
    BY <1>1 DEF Missing
  <2>7. faults'["restart"] # 0
    BY <1>1
  <2>8. QED
    BY <1>1, <1>8, <2>2, <2>3, <2>4, <2>5, <2>6, <2>7 DEF Ledger, SameRun
<1>9. QED
  BY <1>4, <1>7, <1>8

(* A packet arrives: the gap before it is counted as it is, unless the      *)
(* device restarted in between; then no more than half a circle is counted. *)
LEMMA LedgerGoesOn ==
  ASSUME Orderly, Sound, GoneBounded,
         NEW boot \in [0 .. nextIdx -> 0 .. faults["restart"]], Runs(boot),
         arrived = {} => last_seq = -1 /\ lost = 0,
         NEW first, NEW last, arrived # {} => Ledger(boot, first, last),
         NEW p \in Deliverable, Deliver(p) \/ DeliverAndKeep(p),
         faults'["restart"] = faults["restart"],
         NEW l, l = p.idx
  PROVE  \E f \in arrived' : Ledger(boot, f, l)'
<1> DEFINE H == SeqMod \div 2
           d == l - last - 1
<1>1. /\ p \in net /\ Push(p) /\ arrived' = arrived \cup {l} /\ net' \subseteq net
      /\ nextIdx' = nextIdx /\ nextSeq' = nextSeq
      /\ \A q \in net : l <= q.idx
  BY ReceiveIs DEF Orderly, txVars
<1>2. /\ l \in Nat /\ l < nextIdx /\ nextIdx \in Nat /\ l \in 0 .. nextIdx
      /\ p.seq \in 0 .. SeqMod - 1
      /\ lost \in Nat /\ arrived \subseteq 0 .. nextIdx - 1
  <2>1. l \in Nat /\ nextIdx \in Nat /\ lost \in Nat /\ arrived \subseteq 0 .. nextIdx - 1
    BY <1>1, InFlight DEF Sound, TypeOK, GoneBounded
  <2>2. l < nextIdx /\ p.seq \in 0 .. SeqMod - 1
    BY <1>1 DEF Sound, Framing, PieceOf
  <2>3. QED
    BY <2>1, <2>2
<1>3. /\ last_seq' = p.seq /\ lost' = lost + Gap(p)
      /\ Gap(p) \in Nat /\ Gap(p) <= H /\ H \in Nat
  BY <1>1, PushType, GapType, SeqModAssumption
<1>4. LastIn(l)' /\ l \in arrived' /\ (arrived # {} => last <= l)
  <2>1. LastIn(p.idx)'
    BY ReceiveLast DEF Orderly, Ledger
  <2>2. LastIn(p.idx)' <=> (\A i \in arrived' : i <= p.idx) /\ (\A q \in net' : p.idx <= q.idx)
    BY DEF LastIn
  <2>3. QED
    BY <1>1, <2>1, <2>2 DEF LastIn, Ledger
<1>5. ASSUME NEW q \in net'
      PROVE  SameRun(boot, l, last_seq', q.idx, q.seq)
  BY <1>1, <1>3 DEF Runs
<1>6. SameRun(boot, l, last_seq', nextIdx', nextSeq')
  BY <1>1, <1>3 DEF Runs
<1>7. /\ IsFiniteSet(arrived) /\ Cardinality(arrived) \in Nat
      /\ boot[l] \in Nat
  <2>1. IsFiniteSet(0 .. nextIdx - 1)
    <3>1. 0 \in Int /\ nextIdx - 1 \in Int
      BY <1>2
    <3>2. QED
      BY <3>1, IntervalCard
  <2>2. boot[l] \in Nat
    BY <1>2
  <2>3. QED
    BY <1>2, <2>1, <2>2, NotMore
<1>8. ASSUME NEW f \in arrived', \A i \in arrived' : f <= i,
             Missing(f, l)' \in Nat,
             faults["restart"] = 0 => lost' = Missing(f, l)',
             lost' <= Missing(f, l)' + boot[l] * H
      PROVE  Ledger(boot, f, l)'
  <2>1. last_seq' # -1
    BY <1>2, <1>3
  <2>2. QED
    BY <1>4, <1>5, <1>6, <1>8, <2>1 DEF Ledger, SameRun
<1>9. CASE arrived = {}
  <2>1. arrived' = {l} /\ Cardinality(arrived') = 1
    <3>1. arrived' = {l}
      BY <1>1, <1>9
    <3>2. QED
      BY <3>1, FS_Singleton
  <2>2. Missing(l, l)' = 0
    BY <1>2, <2>1 DEF Missing
  <2>3. Gap(p) = 0 /\ lost' = 0
    BY <1>3, <1>9, SeqModAssumption DEF Gap, Skipped
  <2>4. boot[l] * H \in Nat
    BY <1>3, <1>7
  <2>5. QED
    BY <1>2, <1>8, <2>1, <2>2, <2>3, <2>4
<1>10. CASE arrived # {}
  <2>1. /\ first \in arrived /\ last \in arrived /\ last \in Nat /\ first \in Nat
        /\ last \in 0 .. nextIdx /\ last <= l
        /\ \A i \in arrived : first <= i
        /\ LastIn(last) /\ last_seq # -1
        /\ SameRun(boot, last, last_seq, p.idx, p.seq)
        /\ Missing(first, last) \in Nat
        /\ faults["restart"] = 0 => lost = Missing(first, last)
        /\ lost <= Missing(first, last) + boot[last] * H
    <3>1. Ledger(boot, first, last) /\ last <= l
      BY <1>4, <1>10
    <3>2. last \in Nat /\ first \in Nat /\ last \in 0 .. nextIdx
      BY <1>2, <3>1 DEF Ledger
    <3>3. QED
      BY <1>1, <3>1, <3>2 DEF Ledger
  <2>2. /\ boot[last] \in Nat /\ boot[last] <= boot[l]
        /\ faults["restart"] = 0 => boot[last] = boot[l]
    BY <1>2, <2>1 DEF Runs
  <2>3. last_seq \in 0 .. SeqMod - 1
    BY <2>1, SeqModAssumption DEF Sound, TypeOK
  <2>4. first \in arrived' /\ \A i \in arrived' : first <= i
    BY <1>1, <1>2, <2>1
  <2>5. CASE l = last
    <3>1. arrived' = arrived
      BY <1>1, <2>1, <2>5
    <3>2. p.seq = (last_seq + (l - l)) % SeqMod
      BY <2>1, <2>5 DEF SameRun
    <3>3. Gap(p) = 0
      <4>1. l \in Int
        BY <1>2
      <4>2. p.seq = last_seq
        BY <2>3, <3>2, <4>1, SeqSame
      <4>3. QED
        BY <2>3, <4>2, GapOfRepeat
    <3>4. lost' = lost
      BY <1>2, <1>3, <3>3
    <3>5. Missing(first, l)' = Missing(first, last)
      BY <2>5, <3>1 DEF Missing
    <3>6. QED
      BY <1>8, <2>1, <2>4, <2>5, <3>4, <3>5
  <2>6. CASE l # last
    <3>0. l \in Nat /\ last \in Nat /\ first \in Nat /\ last <= l
      BY <1>2, <2>1
    <3>1. d \in Nat /\ l - last = d + 1 /\ l > last
      BY <2>6, <3>0
    <3>2. d < H
      <4>1. d <= MaxLoss + MaxFail
        BY <1>1, <2>1, <3>1, GapWidth
      <4>2. QED
        BY <1>3, <3>1, <4>1, BoundsAssumption DEF Orderly
    <3>3. l \notin arrived
      BY <1>2, <2>1, <3>1 DEF LastIn
    <3>4. Cardinality(arrived') = Cardinality(arrived) + 1
      BY <1>1, <1>7, <3>3, FS_AddElement
    <3>5. Missing(first, l)' = Missing(first, last) + d
      <4>1. l - first + 1 - (Cardinality(arrived) + 1)
              = (last - first + 1 - Cardinality(arrived)) + (l - last - 1)
        BY <1>7, <3>0
      <4>2. QED
        BY <3>4, <4>1 DEF Missing
    <3>6. ASSUME boot[last] = boot[l]
          PROVE  Gap(p) = d
      <4>1. p.seq = (last_seq + (d + 1)) % SeqMod
        BY <2>1, <3>1, <3>6 DEF SameRun
      <4> HIDE DEF d, H
      <4>2. QED
        BY <2>3, <3>1, <3>2, <4>1, GapIs DEF H
    <3> DEFINE m == Missing(first, last)
               k == boot[last]
               j == boot[l]
    <3>7. /\ m \in Nat /\ k \in Nat /\ j \in Nat /\ H \in Nat /\ d \in Nat
          /\ lost \in Nat /\ lost <= m + k * H
      BY <1>2, <1>3, <1>7, <2>1, <2>2, <3>1
    <3>8. CASE j = k
      <4>1. lost' = lost + d
        BY <1>3, <3>6, <3>8
      <4>2. lost' <= m + d + k * H
        <5> HIDE DEF m, k, d, H
        <5>1. k * H \in Nat
          BY <3>7
        <5>2. QED
          BY <3>7, <4>1, <5>1
      <4>3. faults["restart"] = 0 => lost' = m + d
        BY <2>1, <4>1
      <4>4. m + d \in Nat
        BY <3>7
      <4>5. Missing(first, l)' = m + d
        BY <3>5
      <4>6. lost' <= Missing(first, l)' + boot[l] * H
        BY <3>8, <4>2, <4>5, Zenon
      <4>7. QED
        BY <1>8, <2>4, <4>3, <4>4, <4>5, <4>6, Zenon
    <3>9. CASE j # k
      <4>1. k + 1 <= j /\ faults["restart"] # 0
        BY <2>2, <3>7, <3>9
      <4>2. lost' <= m + d + j * H
        <5>1. lost' = lost + Gap(p) /\ Gap(p) \in Nat /\ Gap(p) <= H
          BY <1>3
        <5> HIDE DEF m, k, j, d, H
        <5>2. (k + 1) * H <= j * H /\ k * H \in Nat /\ j * H \in Nat
              /\ (k + 1) * H = k * H + H
          BY <3>7, <4>1
        <5>3. QED
          BY <3>7, <5>1, <5>2
      <4>3. m + d \in Nat
        BY <3>7
      <4>4. Missing(first, l)' = m + d
        BY <3>5
      <4>5. lost' <= Missing(first, l)' + boot[l] * H
        BY <4>2, <4>4, Zenon
      <4>6. QED
        BY <1>8, <2>4, <4>1, <4>3, <4>4, <4>5, Zenon
    <3>10. QED
      BY <3>8, <3>9
  <2>7. QED
    BY <2>5, <2>6
<1>11. QED
  BY <1>9, <1>10

LEMMA OthersKeepBoots ==
  ASSUME Boots, UNCHANGED <<nextIdx, nextSeq, arrived, lost, last_seq>>,
         net' \subseteq net, faults'["restart"] = faults["restart"]
  PROVE  Boots'
<1>1. PICK boot \in [0 .. nextIdx -> 0 .. faults["restart"]] :
        /\ Runs(boot)
        /\ arrived = {} => last_seq = -1 /\ lost = 0
        /\ arrived # {} => \E first, last \in arrived : Ledger(boot, first, last)
  BY DEF Boots
<1>2. Runs(boot)'
  BY <1>1 DEF Runs, SameRun
<1>3. ASSUME NEW first \in arrived, NEW last \in arrived, Ledger(boot, first, last)
      PROVE  Ledger(boot, first, last)'
  <2>1. Missing(first, last)' = Missing(first, last)
    BY DEF Missing
  <2>2. QED
    BY <1>3, <2>1 DEF Ledger, LastIn, SameRun
<1>4. boot \in [0 .. nextIdx' -> 0 .. faults'["restart"]]
  BY <1>1
<1>5. QED
  BY <1>1, <1>2, <1>3, <1>4 DEF Boots

(* A witness for Boots in the next state.                                   *)
LEMMA BootsFrom ==
  ASSUME NEW b \in [0 .. nextIdx' -> 0 .. faults'["restart"]], Runs(b)',
         arrived' = {} => last_seq' = -1 /\ lost' = 0,
         arrived' # {} => \E first, last \in arrived' : Ledger(b, first, last)'
  PROVE  Boots'
BY DEF Boots

LEMMA NextBoots ==
  ASSUME Orderly, Sound, GoneBounded, Boots, [Next]_vars
  PROVE  Boots'
<1>1. PICK boot \in [0 .. nextIdx -> 0 .. faults["restart"]] :
        /\ Runs(boot)
        /\ arrived = {} => last_seq = -1 /\ lost = 0
        /\ arrived # {} => \E first, last \in arrived : Ledger(boot, first, last)
  BY DEF Boots
<1>2. ASSUME NEW k \in FaultKinds, k # "restart", Happens(k)
      PROVE  faults'["restart"] = faults["restart"]
  BY <1>2, HappensIs DEF Sound, FaultKinds
<1>3. CASE Emit \/ EmitFails
  <2>1. /\ TakeSequence /\ UNCHANGED <<arrived, lost, last_seq>>
        /\ faults' = faults \/ Happens("fail")
        /\ net' = net \/ net' = net \cup {NextPacket}
    BY <1>3 DEF Emit, EmitFails, ghosts, rxVars
  <2>2. faults'["restart"] = faults["restart"]
    BY <1>2, <2>1 DEF FaultKinds
  <2>3. PICK b \in [0 .. nextIdx' -> 0 .. faults'["restart"]] :
           /\ Runs(b)'
           /\ \A first, last \in arrived :
                Ledger(boot, first, last) => Ledger(b, first, last)'
    BY <1>1, <2>1, <2>2, SequenceTaken
  <2>4. QED
    BY <1>1, <2>1, <2>3, BootsFrom
<1>4. CASE Restart
  <2>1. UNCHANGED <<arrived, lost, last_seq>>
    BY <1>4 DEF Restart, ghosts, rxVars
  <2>2. PICK b \in [0 .. nextIdx' -> 0 .. faults'["restart"]] :
           /\ Runs(b)'
           /\ \A first, last \in arrived :
                Ledger(boot, first, last) => Ledger(b, first, last)'
    BY <1>1, <1>4, RunEnds
  <2>3. QED
    BY <1>1, <2>1, <2>2, BootsFrom
<1>5. ASSUME NEW p \in Deliverable, Deliver(p) \/ DeliverAndKeep(p)
      PROVE  Boots'
  <2>1. /\ arrived' = arrived \cup {p.idx} /\ net' \subseteq net
        /\ nextIdx' = nextIdx /\ nextSeq' = nextSeq
        /\ faults' = faults \/ Happens("dup")
    BY <1>5, ReceiveIs DEF txVars
  <2>2. faults'["restart"] = faults["restart"]
    BY <1>2, <2>1 DEF FaultKinds
  <2>3. PICK first, last : arrived # {} => Ledger(boot, first, last)
    BY <1>1
  <2>4. PICK l : l = p.idx
    OBVIOUS
  <2>5. \E f \in arrived' : Ledger(boot, f, l)'
    BY <1>1, <1>5, <2>2, <2>3, <2>4, LedgerGoesOn
  <2>6. Runs(boot)'
    BY <1>1, <2>1 DEF Runs, SameRun
  <2>7. boot \in [0 .. nextIdx' -> 0 .. faults'["restart"]]
    BY <1>1, <2>1, <2>2
  <2>8. l \in arrived'
    BY <2>1, <2>4
  <2>9. QED
    BY <2>5, <2>6, <2>7, <2>8, BootsFrom
<1>6. CASE BeginFrame
  BY <1>6, OthersKeepBoots DEF BeginFrame, ghosts, rxVars
<1>7. ASSUME NEW p \in net, Lose(p)
      PROVE  Boots'
  <2>1. faults'["restart"] = faults["restart"]
    BY <1>2, <1>7 DEF Lose, FaultKinds
  <2>2. QED
    BY <1>7, <2>1, OthersKeepBoots DEF Lose, txVars, ghosts, rxVars
<1>8. CASE ReceiveStray \/ StopReceiving \/ UNCHANGED vars
  <2>1. UNCHANGED <<nextIdx, nextSeq, net, faults>> /\ UNCHANGED <<last_seq, lost>>
        /\ UNCHANGED arrived
    BY <1>8, HubStays DEF ReceiveStray, StopReceiving, vars, txVars, ghosts
  <2>2. QED
    BY <2>1, OthersKeepBoots
<1>9. QED
  BY <1>3, <1>4, <1>5, <1>6, <1>7, <1>8, NextIs DEF SenderStep

LEMMA InitBoots == Init => Boots
<1> SUFFICES ASSUME Init PROVE Boots
  OBVIOUS
<1>1. /\ nextIdx = 0 /\ net = {} /\ arrived = {} /\ last_seq = -1 /\ lost = 0
      /\ faults["restart"] = 0
  BY DEF Init, DepayloaderInit, FaultKinds
<1>2. PICK boot : boot = [k \in 0 .. 0 |-> 0]
  OBVIOUS
<1>3. boot \in [0 .. nextIdx -> 0 .. faults["restart"]]
  BY <1>1, <1>2
<1>4. Runs(boot)
  <2>1. \A i, j \in 0 .. 0 : boot[i] <= boot[j]
    BY <1>2
  <2>2. QED
    BY <1>1, <2>1 DEF Runs
<1>5. QED
  BY <1>1, <1>3, <1>4 DEF Boots

(* Where the order is kept `lost` is exactly what is missing, and a device  *)
(* that restarts adds half the circle of sequence numbers at most each time *)
(* (rtp.rs:671-676, :41).                                                   *)
THEOREM RtpJpegLostExact ==
  ASSUME Orderly
  PROVE  Spec => []LostExact
<1> DEFINE LossInv == Sound /\ GoneBounded /\ Boots
<1>1. Init => LossInv
  BY InitSound, InitGone, InitBoots
<1>2. LossInv /\ [Next]_vars => LossInv'
  BY NextSound, NextGone, NextBoots
<1>3. LossInv => LostExact
  <2> SUFFICES ASSUME LossInv, arrived # {}
               PROVE  LostExact
    BY DEF LostExact
  <2>1. PICK boot \in [0 .. nextIdx -> 0 .. faults["restart"]],
             first \in arrived, last \in arrived : Ledger(boot, first, last)
    BY DEF Boots
  <2> DEFINE H == SeqMod \div 2
             m == Missing(first, last)
  <2>2. /\ \A i \in arrived : first <= i /\ i <= last
        /\ faults["restart"] = 0 => lost = m
        /\ lost <= m + boot[last] * H /\ m \in Nat
    BY <2>1 DEF Ledger, LastIn
  <2>3. /\ boot[last] \in Nat /\ boot[last] <= faults["restart"]
        /\ faults["restart"] \in Nat /\ H \in Nat /\ lost \in Nat
    <3>1. last \in 0 .. nextIdx /\ faults["restart"] \in Nat /\ lost \in Nat
      BY DEF GoneBounded, Sound, TypeOK, FaultKinds
    <3>2. QED
      BY <3>1, SeqModAssumption
  <2>4. lost <= m + faults["restart"] * H
    <3>1. boot[last] * H <= faults["restart"] * H
      <4> HIDE DEF H
      <4>1. QED
        BY <2>3
    <3>2. boot[last] * H \in Nat /\ faults["restart"] * H \in Nat
      <4> HIDE DEF H
      <4>1. QED
        BY <2>3
    <3> HIDE DEF m, H
    <3>3. QED
      BY <2>2, <2>3, <3>1, <3>2
  <2>5. QED
    BY <2>2, <2>4 DEF LostExact, Missing
<1>4. QED
  BY <1>1, <1>2, <1>3, PTL DEF Spec

==============================================================================
