---------------------------- MODULE EncoderProofs ----------------------------
(* What comes of an encoder.  Its frames: the pacer's rate bound for every   *)
(* rate, burst and sequence of frames; that the source uses its pacer as the *)
(* pacer is specified; and that the grab loop is bounded, its counters agree *)
(* and its packets are spaced.  Its H.264: that the splitter loses nothing   *)
(* of any stream and gives an access unit a picture, and that the packets of *)
(* one carry it.                                                             *)
EXTENDS EncodedSource, H264Rtp, SequenceTheorems, FiniteSetTheorems,
        WellFoundedInduction, TLAPS

------------------------------------------------------------------------------
(* The pacer by itself: nothing here is about the source.                   *)

LEMMA IntervalType ==
  /\ Interval \in Nat
  /\ Tolerance \in Nat
<1>1. Interval \in Nat
  BY PacerAssumption DEF Interval
<1>2. Tolerance \in Nat
  BY <1>1, PacerAssumption DEF Tolerance
<1>3. QED
  BY <1>1, <1>2

LEMMA PacerInitInv == PacerInit => PacerInv
  BY PacerAssumption, IntervalType
  DEF PacerInit, PacerInv, PacerTypeOK, StretchBound, DueNear, DuePaysForCount,
      LastAdmitPlaced

(* One frame more in the stretch, one interval more in the product.         *)
LEMMA OneMore ==
  ASSUME NEW n \in Nat
  PROVE  /\ n * Interval \in Nat
         /\ (n + 1) * Interval = n * Interval + Interval
         /\ (n + 1 - 1 - Burst) * Interval = n * Interval - Tolerance
<1>1. Interval \in Nat /\ Burst \in Nat
  BY IntervalType, PacerAssumption
<1>2. n * Interval \in Nat
  BY <1>1
<1>3. (n + 1) * Interval = n * Interval + Interval
  BY <1>1
<1>4. (n + 1 - 1 - Burst) * Interval = n * Interval - Interval * Burst
  BY <1>1
<1>5. QED
  BY <1>2, <1>3, <1>4 DEF Tolerance

LEMMA AdmitKeepsInv ==
  ASSUME PacerInv, NEW t \in clock .. MaxTime, AdmitFrame(t), clock' = t,
         UNCHANGED resets
  PROVE  PacerInv'
<1> DEFINE T == Tolerance
           I == Interval
<1>1. /\ I \in Nat /\ T \in Nat /\ Burst \in Nat
      /\ clock \in Nat /\ t \in Nat /\ t >= clock
      /\ count \in Nat /\ from \in Nat /\ lastAdmit \in Nat
      /\ due \in Int /\ due >= -1
  BY IntervalType, PacerAssumption DEF PacerInv, PacerTypeOK
<1>2. /\ I * 0 = 0
      /\ I = 0 => T = 0
  BY <1>1, IntervalType, PacerAssumption DEF Tolerance
<1>3. /\ due' = IF I = 0 THEN due ELSE (IF due > t THEN due ELSE t) + I
      /\ I = 0 \/ due = -1 \/ t + T >= due
      /\ count' = count + (IF t >= from THEN 1 ELSE 0)
      /\ lastAdmit' = t /\ from' = from /\ clock' = t
      /\ admitted' = admitted + 1 /\ pdropped' = pdropped
  BY DEF AdmitFrame, InTime, NextDue
<1>4. /\ I > 0 /\ count > 0 => due # -1 /\ due >= from + count * I
      /\ lastAdmit <= clock /\ (count > 0 => from <= lastAdmit)
  BY DEF PacerInv, DuePaysForCount, LastAdmitPlaced
<1> HIDE DEF T, I
<1>5. PacerTypeOK' /\ LastAdmitPlaced'
  <2>1. due' \in Int /\ due' >= -1 /\ count' \in Nat
    BY <1>1, <1>3
  <2>2. admitted' \in Nat /\ pdropped' \in Nat /\ resets' \in Nat
    BY <1>3 DEF PacerInv, PacerTypeOK
  <2>3. lastAdmit' <= clock' /\ (count' > 0 => from' <= lastAdmit')
    BY <1>1, <1>3, <1>4
  <2>4. QED
    BY <1>1, <1>3, <2>1, <2>2, <2>3 DEF PacerTypeOK, LastAdmitPlaced
<1>6. I > 0 /\ due' # -1 => due' <= lastAdmit' + T + I
  BY <1>1, <1>3
<1>7. ASSUME I > 0, count' > 0
      PROVE  /\ due' # -1 /\ due' >= from' + count' * I
             /\ (count' - 1 - Burst) * I <= lastAdmit' - from'
  <2>1. t >= from
    BY <1>1, <1>3, <1>4, <1>7
  <2>2. count' = count + 1
    BY <1>1, <1>3, <2>1
  <2>3. /\ count * I \in Nat /\ (count + 1) * I = count * I + I
        /\ (count + 1 - 1 - Burst) * I = count * I - T
    BY <1>1, OneMore DEF I, T
  <2>4. CASE count = 0
    BY <1>1, <1>2, <1>3, <1>7, <2>1, <2>2, <2>3, <2>4
  <2>5. CASE count > 0
    BY <1>1, <1>3, <1>4, <1>7, <2>1, <2>2, <2>3, <2>5
  <2>6. QED
    BY <1>1, <2>4, <2>5
<1>8. QED
  BY <1>5, <1>6, <1>7
  DEF PacerInv, StretchBound, DueNear, DuePaysForCount, I, T, Tolerance,
      Interval

(* A frame dropped, or nothing at all, leaves every part as it is; time     *)
(* goes on.                                                                 *)
LEMMA DropKeepsInv ==
  ASSUME PacerInv, NEW t \in clock .. MaxTime, DropFrame(t), clock' = t,
         UNCHANGED resets
  PROVE  PacerInv'
  BY PacerAssumption
  DEF PacerInv, PacerTypeOK, StretchBound, DueNear, DuePaysForCount,
      LastAdmitPlaced, DropFrame, DueAfterDrop, pacerGhosts, Interval, Tolerance

LEMMA ResetKeepsInv == PacerInv /\ Reset => PacerInv'
  BY PacerAssumption
  DEF PacerInv, PacerTypeOK, StretchBound, DueNear, DuePaysForCount,
      LastAdmitPlaced, Reset, Interval, Tolerance

LEMMA StutterKeepsInv == PacerInv /\ UNCHANGED pacerVars => PacerInv'
  BY DEF PacerInv, PacerTypeOK, StretchBound, DueNear, DuePaysForCount,
         LastAdmitPlaced, pacerVars, pacerState, pacerGhosts, Interval, Tolerance

LEMMA PacerStep ==
  ASSUME PacerInv, [PacerNext]_pacerVars
  PROVE  PacerInv'
<1>1. ASSUME NEW t \in clock .. MaxTime, Frame(t)
      PROVE  PacerInv'
  BY <1>1, AdmitKeepsInv, DropKeepsInv DEF Frame
<1>2. CASE Reset
  BY <1>2, ResetKeepsInv
<1>3. CASE UNCHANGED pacerVars
  BY <1>3, StutterKeepsInv
<1>4. QED
  BY <1>1, <1>2, <1>3 DEF PacerNext

(* PacerInv holds in every state of every run of the pacer, for every rate  *)
(* and burst (pacer.rs:63-84).                                              *)
THEOREM PacerInvariant == PacerSpec => []PacerInv
BY PacerInitInv, PacerStep, PTL DEF PacerSpec

(* pacer.rs:21-22 made exact: in every stretch of time the frames admitted  *)
(* number at most one more than the whole intervals in it, plus the burst.  *)
THEOREM PacerRate == PacerSpec => []StretchBound
<1>1. PacerInv => StretchBound
  BY DEF PacerInv
<1>2. QED
  BY PacerInvariant, <1>1, PTL

(* The cap never costs more than it must (pacer.rs:63-79): a frame captured *)
(* a whole interval after the last one admitted is never dropped.           *)
THEOREM PacerDropsOnlyEarly == PacerSpec => NoNeedlessDrop
<1> DEFINE Needed == pdropped' > pdropped => clock' < lastAdmit + Interval
<1>1. PacerInv /\ [PacerNext]_pacerVars => [Needed]_pacerVars
  <2> SUFFICES ASSUME PacerInv, PacerNext, pdropped' > pdropped
               PROVE  clock' < lastAdmit + Interval
    OBVIOUS
  <2>1. PICK t \in clock .. MaxTime : Frame(t)
    BY DEF PacerNext, Reset, PacerInv, PacerTypeOK
  <2>2. DropFrame(t) /\ clock' = t
    BY <2>1 DEF Frame, AdmitFrame, PacerInv, PacerTypeOK
  <2>3. Interval # 0 /\ due # -1 /\ ~ (t + Tolerance >= due)
    BY <2>2 DEF DropFrame, DueAfterDrop, InTime
  <2>4. due <= lastAdmit + Tolerance + Interval
    BY <2>3, IntervalType DEF PacerInv, DueNear
  <2>5. /\ t \in Nat /\ due \in Int /\ lastAdmit \in Nat
        /\ Tolerance \in Nat /\ Interval \in Nat
    BY IntervalType, PacerAssumption DEF PacerInv, PacerTypeOK
  <2>6. QED
    BY <2>2, <2>3, <2>4, <2>5
<1>2. QED
  BY PacerInvariant, <1>1, PTL DEF PacerSpec, NoNeedlessDrop

------------------------------------------------------------------------------
(* The source uses its pacer as specified.                                  *)

LEMMA SourceStep ==
  ASSUME PacerTypeOK, [Next]_vars
  PROVE  [PacerNext]_pacerVars
<1>1. ASSUME NEW t \in Captures, Frame(t)
      PROVE  PacerNext
  <2>1. t \in clock .. MaxTime
    BY <1>1, PacerAssumption DEF Captures, PacerTypeOK
  <2>2. QED
    BY <1>1, <2>1 DEF PacerNext
<1>2. CASE Call \/ ScratchTooSmall \/ GrabFails \/ UNCHANGED vars
  BY <1>2 DEF Call, ScratchTooSmall, GrabFails, vars
<1>3. QED
  BY <1>1, <1>2 DEF Next, Grab, GrabDropped, GrabEncoded, GrabWasted

(* Everything but the pacer hidden, next_packet is a run of the pacer,      *)
(* whatever calls fail and wherever in the loop.                            *)
THEOREM SourceUsesPacer == Spec => PacerSpec
<1>1. Init => PacerInv
  BY PacerInitInv DEF Init
<1>2. PacerInv /\ [Next]_vars => PacerInv' /\ [PacerNext]_pacerVars
  BY SourceStep, PacerStep DEF PacerInv
<1>3. Init => PacerInit
  BY DEF Init
<1>4. QED
  BY <1>1, <1>2, <1>3, PTL DEF Spec, PacerSpec

(* The rate cap of the frames the source lets through.                      *)
THEOREM SourceRate == Spec => []StretchBound
BY SourceUsesPacer, PacerRate, PTL

(* The source never drops a frame captured an interval after the last one   *)
(* it admitted.                                                             *)
THEOREM SourceDropsOnlyEarly == Spec => NoNeedlessDrop
BY SourceUsesPacer, PacerDropsOnlyEarly, PTL

------------------------------------------------------------------------------
(* The grab loop.                                                           *)

LEMMA NoTolerance ==
  ASSUME NoBurst
  PROVE  Interval \in Nat /\ Tolerance = 0
BY IntervalType DEF NoBurst, Tolerance

LEMMA InitSource == Init => SourceInv
<1> SUFFICES ASSUME Init PROVE SourceInv
  OBVIOUS
<1>1. PacerTypeOK /\ lastAdmit <= clock /\ DueNear
  BY PacerAssumption DEF Init, PacerInit, PacerTypeOK, DueNear
<1>2. /\ in_call = FALSE /\ dropped = 0 /\ produced = 0 /\ fails = 0
      /\ wasted = 0 /\ spins = 0 /\ lastPacket = -1 /\ packet = -1
  BY DEF Init
<1>3. LoopBounded /\ DropsTakeTime
  BY <1>2 DEF LoopBounded, DropsTakeTime
<1>4. TypeOK
  <2>1. in_call \in BOOLEAN
    BY <1>2
  <2>2. /\ dropped \in Nat /\ produced \in Nat /\ fails \in Nat
        /\ wasted \in Nat /\ spins \in Nat
        /\ lastPacket \in Int /\ lastPacket >= -1
        /\ packet \in Int /\ packet >= -1
    <3>1. 0 \in Nat /\ -1 \in Int /\ -1 >= -1
      OBVIOUS
    <3>2. QED
      BY <1>2, <3>1, Zenon
  <2>3. QED
    BY <1>1, <2>1, <2>2, Zenon DEF TypeOK
<1>5. QED
  BY <1>1, <1>3, <1>4 DEF SourceInv

LEMMA CaptureAfter ==
  ASSUME TypeOK, NEW t \in Captures
  PROVE  t \in Nat /\ t > clock
  BY PacerAssumption DEF TypeOK, PacerTypeOK, Captures

(* A frame dropped: the loop has waited one more microsecond at least.      *)
LEMMA DroppedSource ==
  ASSUME NoBurst, SourceInv, NEW t \in Captures, GrabDropped(t)
  PROVE  SourceInv'
<1>1. t \in Nat /\ t > clock
  BY CaptureAfter DEF SourceInv
<1>2. /\ clock' = t /\ spins' = spins + 1 /\ in_call' = in_call
      /\ due' = due /\ lastAdmit' = lastAdmit /\ ~ InTime(t)
      /\ pdropped' = pdropped + 1 /\ dropped' = dropped + 1
  <2>1. DropFrame(t)
    BY DEF GrabDropped
  <2>2. clock' = t
    BY DEF GrabDropped, Frame
  <2>3. QED
    BY <2>1, <2>2 DEF GrabDropped, DropFrame, DueAfterDrop, CountDrop, pacerGhosts
<1>3. Interval > 0 /\ due # -1 /\ t < due
  BY <1>1, <1>2, NoTolerance DEF InTime, SourceInv, TypeOK, PacerTypeOK
<1>4. /\ clock \in Nat /\ lastAdmit \in Nat /\ spins \in Nat /\ due \in Int
      /\ lastAdmit <= clock /\ in_call
      /\ due <= lastAdmit + Interval
      /\ spins > 0 => spins <= clock - lastAdmit
  BY <1>3, NoTolerance
  DEF SourceInv, TypeOK, PacerTypeOK, DueNear, DropsTakeTime, GrabDropped
<1>5. spins' <= clock' - lastAdmit'
  BY <1>1, <1>2, <1>4
<1>6. LoopBounded' /\ DropsTakeTime'
  BY <1>1, <1>2, <1>3, <1>4, <1>5, NoTolerance DEF LoopBounded, DropsTakeTime
<1>7. DueNear' /\ (lastAdmit <= clock)'
  BY <1>1, <1>2, <1>4, NoTolerance DEF SourceInv, DueNear
<1>8. TypeOK'
  BY <1>1, <1>2
  DEF SourceInv, TypeOK, PacerTypeOK, GrabDropped, Frame, DropFrame, DueAfterDrop,
      pacerGhosts
<1>9. QED
  BY <1>6, <1>7, <1>8 DEF SourceInv

(* A frame admitted, encoded or wasted: the call is over.                   *)
LEMMA AdmittedSource ==
  ASSUME NoBurst, SourceInv, NEW t \in Captures, GrabEncoded(t) \/ GrabWasted(t)
  PROVE  SourceInv'
<1>1. t \in Nat /\ t > clock
  BY CaptureAfter DEF SourceInv
<1>2. /\ clock' = t /\ spins' = spins /\ in_call' = FALSE /\ lastAdmit' = t
      /\ InTime(t) /\ due' = IF Interval = 0 THEN due ELSE NextDue(t)
  BY DEF GrabEncoded, GrabWasted, Frame, AdmitFrame, Return
<1>3. due' \in Int /\ due' >= -1
  BY <1>1, <1>2, NoTolerance DEF NextDue, SourceInv, TypeOK, PacerTypeOK
<1>4. Interval > 0 /\ due' # -1 => due' <= t + Interval
  BY <1>1, <1>2, NoTolerance
  DEF NextDue, InTime, SourceInv, TypeOK, PacerTypeOK
<1>5. /\ admitted' \in Nat /\ pdropped' \in Nat /\ count' \in Nat
      /\ from' \in Nat /\ resets' \in Nat
  BY <1>1 DEF SourceInv, TypeOK, PacerTypeOK, GrabEncoded, GrabWasted, Frame,
              AdmitFrame
<1>6. /\ dropped' \in Nat /\ produced' \in Nat /\ fails' \in Nat
      /\ wasted' \in Nat /\ spins' \in Nat
      /\ lastPacket' \in Int /\ lastPacket' >= -1
      /\ packet' \in Int /\ packet' >= -1
  BY <1>1 DEF SourceInv, TypeOK, GrabEncoded, GrabWasted, Fails, Return
<1>7. TypeOK'
  BY <1>1, <1>2, <1>3, <1>5, <1>6 DEF TypeOK, PacerTypeOK
<1>8. LoopBounded' /\ DropsTakeTime'
  BY <1>2, NoTolerance DEF SourceInv, LoopBounded, DropsTakeTime
<1>9. DueNear' /\ (lastAdmit <= clock)'
  BY <1>1, <1>2, <1>4, NoTolerance DEF DueNear
<1>10. QED
  BY <1>7, <1>8, <1>9 DEF SourceInv

(* Every other step leaves the pacer alone.                                 *)
LEMMA IdleSource ==
  ASSUME SourceInv, Call \/ ScratchTooSmall \/ GrabFails \/ UNCHANGED vars
  PROVE  SourceInv'
<1>1. UNCHANGED pacerVars
  BY DEF Call, ScratchTooSmall, GrabFails, vars
<1>2. UNCHANGED <<due, clock, lastAdmit>> /\ PacerTypeOK' /\ DueNear'
  BY <1>1 DEF SourceInv, TypeOK, PacerTypeOK, DueNear, pacerVars, pacerState,
              pacerGhosts
<1>3. spins' = 0 \/ (spins' = spins /\ (in_call' => in_call))
  BY DEF Call, ScratchTooSmall, GrabFails, Return, vars, callVars
<1>4. /\ dropped' \in Nat /\ produced' \in Nat
      /\ fails' \in Nat /\ wasted' \in Nat /\ spins' \in Nat
      /\ lastPacket' \in Int /\ lastPacket' >= -1
  <2>1. /\ UNCHANGED <<dropped, produced, wasted, lastPacket>>
        /\ spins' \in {0, spins} /\ (fails' = fails \/ fails' = fails + 1)
    BY DEF Call, ScratchTooSmall, GrabFails, Fails, vars, callVars
  <2>2. QED
    BY <2>1 DEF SourceInv, TypeOK
<1>5. in_call' \in BOOLEAN /\ packet' \in Int /\ packet' >= -1
  <2>1. in_call' \in {in_call, TRUE, FALSE} /\ packet' \in {packet, -1}
    BY DEF Call, ScratchTooSmall, GrabFails, Return, vars, callVars
  <2>2. in_call' \in BOOLEAN
    BY <2>1, Zenon DEF SourceInv, TypeOK
  <2>3. packet' \in Int /\ packet' >= -1
    <3>1. packet \in Int /\ packet >= -1
      BY DEF SourceInv, TypeOK
    <3>2. QED
      BY <2>1, <3>1
  <2>4. QED
    BY <2>2, <2>3
<1>6. LoopBounded' /\ DropsTakeTime'
  BY <1>2, <1>3 DEF SourceInv, LoopBounded, DropsTakeTime
<1>7. QED
  BY <1>2, <1>4, <1>5, <1>6 DEF SourceInv, TypeOK

(* The inductive invariant holds at all times.                              *)
THEOREM SourceInvariant ==
  ASSUME NoBurst
  PROVE  Spec => []SourceInv
<1>1. Init => SourceInv
  BY InitSource
<1>2. SourceInv /\ [Next]_vars => SourceInv'
  BY DroppedSource, AdmittedSource, IdleSource DEF Next, Grab
<1>3. QED
  BY <1>1, <1>2, PTL DEF Spec

(* A call of next_packet drops fewer frames than the pacer's interval has   *)
(* microseconds, for every frame rate and however often calls fail: the     *)
(* camera decides how long the loop runs, in its own time.                  *)
THEOREM SourceLoopBounded ==
  ASSUME NoBurst
  PROVE  Spec => []LoopBounded
<1>1. SourceInv => LoopBounded
  BY DEF SourceInv
<1>2. QED
  BY <1>1, SourceInvariant, PTL

------------------------------------------------------------------------------
(* The counters change together, step by step.                              *)
LEMMA CountersStep ==
  ASSUME SourceInv, CountersAgree, Next \/ UNCHANGED vars
  PROVE  CountersAgree'
<1>1. /\ dropped \in Nat /\ produced \in Nat /\ wasted \in Nat /\ fails \in Nat
      /\ pdropped \in Nat /\ admitted \in Nat
  BY DEF SourceInv, TypeOK, PacerTypeOK
<1>2. ASSUME NEW t \in Captures, GrabDropped(t) PROVE CountersAgree'
  BY <1>1, <1>2 DEF CountersAgree, GrabDropped, Frame, DropFrame, AdmitFrame,
                    CountDrop
<1>3. ASSUME NEW t \in Captures, GrabEncoded(t) PROVE CountersAgree'
  BY <1>1, <1>3 DEF CountersAgree, GrabEncoded, AdmitFrame
<1>4. ASSUME NEW t \in Captures, GrabWasted(t) PROVE CountersAgree'
  BY <1>1, <1>4 DEF CountersAgree, GrabWasted, AdmitFrame, Fails
<1>5. ASSUME Call \/ ScratchTooSmall \/ GrabFails \/ UNCHANGED vars
      PROVE  CountersAgree'
  BY <1>1, <1>5 DEF CountersAgree, Call, ScratchTooSmall, GrabFails, Fails,
                    vars, callVars, pacerVars, pacerState
<1>6. QED
  BY <1>2, <1>3, <1>4, <1>5 DEF Next, Grab

(* The source's counters and the pacer's agree at all times, and every      *)
(* frame that was admitted and is not a packet is one call that failed.     *)
THEOREM SourceCountersAgree ==
  ASSUME NoBurst
  PROVE  Spec => []CountersAgree
<1>1. Init => CountersAgree
  BY DEF Init, PacerInit, CountersAgree
<1>2. SourceInv /\ CountersAgree /\ [Next]_vars => CountersAgree'
  BY CountersStep
<1>3. QED
  BY <1>1, <1>2, SourceInvariant, PTL DEF Spec

(* The due time stays an interval ahead of the last packet, whatever is     *)
(* admitted and lost after it: what PacketsSpaced rests on.                 *)
PacketPaid ==
  lastPacket # -1 =>
    /\ lastPacket <= clock
    /\ Interval > 0 => due # -1 /\ due >= lastPacket + Interval

LEMMA AdmittedPays ==
  ASSUME NoBurst, SourceInv, PacketPaid, NEW t \in Captures, Frame(t), AdmitFrame(t)
  PROVE  /\ lastPacket # -1 => t >= lastPacket + Interval
         /\ clock' = t /\ t > clock
         /\ due' \in Int
         /\ Interval > 0 => due' # -1 /\ due' >= t + Interval
<1>1. t \in Nat /\ t > clock
  BY CaptureAfter DEF SourceInv
<1>2. clock' = t
  BY DEF Frame
<1>3. due \in Int /\ due >= -1 /\ clock \in Nat /\ lastPacket \in Int
  BY DEF SourceInv, TypeOK, PacerTypeOK
<1>4. Interval > 0 => due' # -1 /\ due' >= t + Interval
  BY <1>1, <1>3, NoTolerance DEF AdmitFrame, NextDue
<1>5. lastPacket # -1 => t >= lastPacket + Interval
  BY <1>1, <1>3, NoTolerance DEF AdmitFrame, InTime, PacketPaid
<1>6. due' \in Int
  BY <1>1, <1>3, NoTolerance DEF AdmitFrame, NextDue
<1>7. QED
  BY <1>1, <1>2, <1>4, <1>5, <1>6

LEMMA PaidStep ==
  ASSUME NoBurst, SourceInv, PacketPaid, Next \/ UNCHANGED vars
  PROVE  /\ PacketPaid'
         /\ produced' > produced /\ lastPacket # -1
              => lastPacket' >= lastPacket + Interval
<1>1. /\ due \in Int /\ clock \in Nat /\ lastPacket \in Int
      /\ lastPacket >= -1 /\ produced \in Nat
  BY DEF SourceInv, TypeOK, PacerTypeOK
<1>2. ASSUME NEW t \in Captures, GrabDropped(t)
      PROVE  PacketPaid' /\ produced' = produced
  <2>1. t \in Nat /\ t > clock
    BY CaptureAfter DEF SourceInv
  <2>2. ~ InTime(t)
    BY <1>2 DEF GrabDropped, DropFrame
  <2>3. clock' = t /\ due' = due /\ lastPacket' = lastPacket
        /\ produced' = produced
    BY <1>2 DEF GrabDropped, Frame, DropFrame, DueAfterDrop
  <2>4. QED
    BY <1>1, <2>1, <2>3, NoTolerance DEF PacketPaid
<1>3. ASSUME NEW t \in Captures, GrabEncoded(t)
      PROVE  /\ PacketPaid'
             /\ lastPacket # -1 => lastPacket' >= lastPacket + Interval
  <2>1. lastPacket' = t /\ Frame(t) /\ AdmitFrame(t)
    BY <1>3 DEF GrabEncoded
  <2>2. /\ lastPacket # -1 => t >= lastPacket + Interval
        /\ clock' = t /\ due' \in Int /\ t \in Nat
        /\ Interval > 0 => due' # -1 /\ due' >= t + Interval
    BY <2>1, AdmittedPays, CaptureAfter DEF SourceInv
  <2>3. Interval' = Interval
    BY DEF Interval
  <2>4. QED
    BY <2>1, <2>2, <2>3 DEF PacketPaid
<1>4. ASSUME NEW t \in Captures, GrabWasted(t)
      PROVE  PacketPaid' /\ produced' = produced
  <2>1. lastPacket' = lastPacket /\ produced' = produced
        /\ Frame(t) /\ AdmitFrame(t)
    BY <1>4 DEF GrabWasted
  <2>2. /\ clock' = t /\ due' \in Int /\ t \in Nat /\ t > clock
        /\ Interval > 0 => due' # -1 /\ due' >= t + Interval
    BY <2>1, AdmittedPays, CaptureAfter DEF SourceInv
  <2>3. lastPacket # -1 => lastPacket <= clock
    BY DEF PacketPaid
  <2>4. lastPacket' # -1 =>
          /\ lastPacket' <= clock'
          /\ Interval > 0 => due' # -1 /\ due' >= lastPacket' + Interval
    BY <1>1, <2>1, <2>2, <2>3, NoTolerance
  <2>5. QED
    BY <2>1, <2>4 DEF PacketPaid
<1>5. ASSUME Call \/ ScratchTooSmall \/ GrabFails \/ UNCHANGED vars
      PROVE  PacketPaid' /\ produced' = produced
  BY <1>5 DEF PacketPaid, Call, ScratchTooSmall, GrabFails, vars, callVars,
              pacerVars, pacerState
<1>6. QED
  BY <1>1, <1>2, <1>3, <1>4, <1>5 DEF Next, Grab

(* Two packets in a row are an interval apart in capture time, for every    *)
(* frame rate and whatever calls fail between them.                         *)
THEOREM SourcePacketsSpaced ==
  ASSUME NoBurst
  PROVE  Spec => PacketsSpaced
<1>1. Init => PacketPaid
  BY DEF Init, PacketPaid
<1>2. SourceInv /\ PacketPaid /\ [Next]_vars => PacketPaid'
  BY PaidStep
<1>3. SourceInv /\ PacketPaid /\ [Next]_vars
        => [produced' > produced /\ lastPacket # -1
              => lastPacket' >= lastPacket + Interval]_vars
  BY PaidStep
<1>4. QED
  BY <1>1, <1>2, <1>3, SourceInvariant, PTL DEF Spec, PacketsSpaced

------------------------------------------------------------------------------
(* H.264: least numbers, and counting up.                                   *)

LEMMA LeastOf ==
  ASSUME NEW Q \in SUBSET Nat, Q # {}
  PROVE  \E m \in Q : \A k \in Q : m <= k
<1> DEFINE R == {ss \in Nat \X Nat : ss[1] < ss[2]}
<1>1. IsWellFoundedOn(R, Nat)
  BY NatLessThanWellFounded DEF OpToRel
<1>2. \A x, y \in Nat : x < y => <<x, y>> \in R
  OBVIOUS
<1> HIDE DEF R
<1>3. PICK x \in Q : \A y \in Q : ~ (<<y, x>> \in R)
  BY <1>1, WFMin, Zenon
<1>4. \A y \in Q : ~ (y < x)
  BY <1>2, <1>3
<1>5. QED
  BY <1>4

LEMMA CountUp ==
  ASSUME NEW n \in Nat, NEW P, 0 \in P, \A k \in 1 .. n : k - 1 \in P => k \in P
  PROVE  0 .. n \subseteq P
<1> SUFFICES ASSUME ~ (0 .. n \subseteq P) PROVE FALSE
  OBVIOUS
<1>1. PICK m \in (0 .. n) \ P : \A k \in (0 .. n) \ P : m <= k
  <2>1. (0 .. n) \ P \in SUBSET Nat /\ (0 .. n) \ P # {}
    OBVIOUS
  <2>2. QED
    BY <2>1, LeastOf
<1>2. QED
  BY <1>1

LEMMA FirstOfIs ==
  ASSUME NEW Q \in SUBSET Nat, Q # {}
  PROVE  FirstOf(Q) \in Q /\ \A j \in Q : FirstOf(Q) <= j
BY LeastOf DEF FirstOf

------------------------------------------------------------------------------
(* H.264: start codes, and the NAL units between them.                      *)

LEMMA BytesOf ==
  ASSUME NEW s \in NalUnit
  PROVE  Len(s) \in Nat /\ \A i \in 1 .. Len(s) : s[i] \in 0 .. 255
BY LenProperties DEF NalUnit

LEMMA BackUpIs ==
  ASSUME NEW s, NEW pos \in Nat, NEW i \in Nat, pos <= i
  PROVE  /\ BackUp(s, pos, i) \in pos .. i
         /\ \A j \in BackUp(s, pos, i) .. i - 1 : s[j] = 0
         /\ BackUp(s, pos, i) = pos \/ s[BackUp(s, pos, i) - 1] # 0
<1> DEFINE B == {c \in pos .. i : \A j \in c .. i - 1 : s[j] = 0}
           b == FirstOf(B)
<1>1. BackUp(s, pos, i) = b
  BY DEF BackUp
<1>2. B \in SUBSET Nat /\ i \in B
  OBVIOUS
<1>3. b \in B /\ \A j \in B : b <= j
  <2> HIDE DEF B
  <2> QED
    BY <1>2, FirstOfIs
<1>4. b \in pos .. i /\ \A j \in b .. i - 1 : s[j] = 0
  BY <1>3
<1> HIDE DEF b
<1>5. ASSUME b # pos, s[b - 1] = 0 PROVE FALSE
  <2>1. b - 1 \in pos .. i /\ \A j \in b - 1 .. i - 1 : s[j] = 0
    BY <1>4, <1>5
  <2>2. b - 1 \in B
    BY <2>1
  <2>3. QED
    BY <1>3, <1>4, <2>2
<1>6. QED
  BY <1>1, <1>4, <1>5

LEMMA BackUpTo ==
  ASSUME NEW s, NEW pos \in Nat, NEW i \in Nat, NEW b \in pos .. i,
         \A j \in b .. i - 1 : s[j] = 0, b = pos \/ s[b - 1] # 0
  PROVE  BackUp(s, pos, i) = b
<1> DEFINE c == BackUp(s, pos, i)
<1>1. /\ c \in pos .. i /\ \A j \in c .. i - 1 : s[j] = 0
      /\ c = pos \/ s[c - 1] # 0
  BY BackUpIs
<1> HIDE DEF c
<1>2. ~ c < b
  BY <1>1
<1>3. ~ b < c
  BY <1>1
<1>4. QED
  BY <1>1, <1>2, <1>3 DEF c

LEMMA CodesAre ==
  ASSUME NEW s \in NalUnit, NEW pos \in Nat \ {0}
  PROVE  /\ Codes(s, pos) \in SUBSET Nat
         /\ \A i \in Codes(s, pos) :
              /\ i \in pos .. Len(s) - 2
              /\ s[i] = 0 /\ s[i + 1] = 0 /\ s[i + 2] = 1
              /\ i \in Codes(s, 1)
         /\ \A i \in Codes(s, 1) : i >= pos => i \in Codes(s, pos)
BY BytesOf DEF Codes

(* No two start codes overlap.                                              *)
LEMMA CodesApart ==
  ASSUME NEW s \in NalUnit, NEW i \in Codes(s, 1), NEW j \in Codes(s, 1), i < j
  PROVE  i + 3 <= j
<1>1. /\ i \in Nat /\ j \in Nat
      /\ s[i + 1] = 0 /\ s[i + 2] = 1 /\ s[j] = 0 /\ s[j + 1] = 0
  BY CodesAre
<1>2. j # i + 1 /\ j # i + 2
  BY <1>1
<1>3. QED
  BY <1>1, <1>2

(* A NAL unit ends with the stream or before the zeros of the next code.    *)
LEMMA NalEndIs ==
  ASSUME NEW s \in NalUnit, NEW p \in 1 .. Len(s) + 1
  PROVE  /\ Codes(s, p) = {} => NalEnd(s, p) = Len(s) + 1
         /\ Codes(s, p) # {} =>
              LET c == FirstOf(Codes(s, p))
              IN /\ c \in Codes(s, p) /\ \A d \in Codes(s, p) : c <= d
                 /\ NalEnd(s, p) = BackUp(s, p, c)
                 /\ NalEnd(s, p) \in p .. c
                 /\ NalEnd(s, p) = p \/ s[NalEnd(s, p) - 1] # 0
         /\ NalEnd(s, p) \in p .. Len(s) + 1
<1>1. Len(s) \in Nat /\ p \in Nat \ {0}
  BY BytesOf
<1>2. CASE Codes(s, p) = {}
  BY <1>1, <1>2 DEF NalEnd
<1>3. CASE Codes(s, p) # {}
  <2> DEFINE c == FirstOf(Codes(s, p))
  <2>1. c \in Codes(s, p) /\ \A d \in Codes(s, p) : c <= d
    BY <1>1, <1>3, CodesAre, FirstOfIs
  <2>2. c \in Nat /\ p <= c /\ c <= Len(s) - 2
    BY <1>1, <2>1, CodesAre
  <2>3. NalEnd(s, p) = BackUp(s, p, c)
    BY <1>3 DEF NalEnd
  <2> HIDE DEF c
  <2>4. /\ BackUp(s, p, c) \in p .. c
        /\ BackUp(s, p, c) = p \/ s[BackUp(s, p, c) - 1] # 0
    BY <1>1, <2>2, BackUpIs
  <2>5. NalEnd(s, p) \in p .. Len(s) + 1
    BY <1>1, <2>2, <2>3, <2>4
  <2>6. QED
    BY <1>3, <2>1, <2>3, <2>4, <2>5 DEF c
<1>4. QED
  BY <1>2, <1>3

LEMMA StartsAre ==
  ASSUME NEW s \in NalUnit
  PROVE  /\ NalStarts(s) \in SUBSET (1 .. Len(s))
         /\ \A p \in NalStarts(s) :
              /\ p \in 4 .. Len(s) /\ p - 3 \in Codes(s, 1) /\ s[p - 1] = 1
              /\ NalEnd(s, p) \in p + 1 .. Len(s) + 1
         /\ \A p \in 4 .. Len(s) :
              p - 3 \in Codes(s, 1) /\ NalEnd(s, p) > p => p \in NalStarts(s)
<1>1. ASSUME NEW p \in NalStarts(s)
      PROVE  /\ p \in 4 .. Len(s) /\ p - 3 \in Codes(s, 1) /\ s[p - 1] = 1
             /\ NalEnd(s, p) \in p + 1 .. Len(s) + 1
  <2>1. PICK c \in Codes(s, 1) : p = c + 3
    BY DEF NalStarts
  <2>2. NalEnd(s, p) > p
    BY DEF NalStarts
  <2>3. c \in 1 .. Len(s) - 2 /\ s[c + 2] = 1 /\ Len(s) \in Nat
    BY CodesAre, BytesOf
  <2>4. p - 3 = c /\ p - 1 = c + 2 /\ p \in 1 .. Len(s) + 1
    BY <2>1, <2>3
  <2>5. NalEnd(s, p) \in p .. Len(s) + 1
    BY <2>4, NalEndIs
  <2>6. QED
    BY <2>1, <2>2, <2>3, <2>4, <2>5
<1>2. ASSUME NEW p \in 4 .. Len(s), p - 3 \in Codes(s, 1), NalEnd(s, p) > p
      PROVE  p \in NalStarts(s)
  <2>1. p = (p - 3) + 3
    OBVIOUS
  <2>2. QED
    BY <1>2, <2>1 DEF NalStarts
<1>3. NalStarts(s) \in SUBSET (1 .. Len(s))
  BY <1>1, BytesOf
<1>4. QED
  BY <1>1, <1>2, <1>3

(* The start code of a NAL unit, its leading zeros with it.                 *)
LEMMA StartCodeIs ==
  ASSUME NEW s \in NalUnit, NEW p \in NalStarts(s)
  PROVE  /\ StartCode(s, p) \in 1 .. p - 3
         /\ \A j \in StartCode(s, p) .. p - 2 : s[j] = 0
         /\ StartCode(s, p) = 1 \/ s[StartCode(s, p) - 1] # 0
<1>1. /\ p \in Nat /\ p >= 4 /\ Len(s) \in Nat
      /\ s[p - 3] = 0 /\ s[p - 2] = 0
  <2>1. p \in 4 .. Len(s) /\ p - 3 \in Codes(s, 1) /\ Len(s) \in Nat
    BY StartsAre, BytesOf
  <2>2. s[p - 3] = 0 /\ s[(p - 3) + 1] = 0
    BY <2>1, CodesAre
  <2>3. (p - 3) + 1 = p - 2
    BY <2>1
  <2>4. QED
    BY <2>1, <2>2, <2>3
<1> DEFINE b == BackUp(s, 1, p - 1)
<1>2. /\ b \in 1 .. p - 1 /\ \A j \in b .. (p - 1) - 1 : s[j] = 0
      /\ b = 1 \/ s[b - 1] # 0
  <2>1. p - 1 \in Nat /\ 1 \in Nat /\ 1 <= p - 1
    BY <1>1
  <2>2. QED
    BY <2>1, BackUpIs
<1> HIDE DEF b
<1>3. b # p - 1 /\ b # p - 2
  <2>1. b - 1 \in Nat
    BY <1>1, <1>2
  <2>2. (p - 1) - 1 = p - 2 /\ (p - 2) - 1 = p - 3
    BY <1>1
  <2>3. QED
    BY <1>1, <1>2, <2>1, <2>2
<1>4. b \in 1 .. p - 3 /\ \A j \in b .. p - 2 : s[j] = 0
  BY <1>1, <1>2, <1>3
<1>5. QED
  BY <1>2, <1>4 DEF b, StartCode

(* A NAL unit is over where the start code of a later one begins.           *)
LEMMA StartsApart ==
  ASSUME NEW s \in NalUnit, NEW p \in NalStarts(s), NEW q \in NalStarts(s), p < q
  PROVE  /\ NalEnd(s, p) <= StartCode(s, q)
         /\ p < StartCode(s, q) /\ StartCode(s, q) < q
         /\ NalEnd(s, p) < q
<1> DEFINE e == NalEnd(s, p)
           b == StartCode(s, q)
           c == FirstOf(Codes(s, p))
<1>1. /\ p \in 4 .. Len(s) /\ q \in 4 .. Len(s) /\ Len(s) \in Nat
      /\ p - 3 \in Codes(s, 1) /\ q - 3 \in Codes(s, 1)
      /\ e \in p + 1 .. Len(s) + 1
  BY StartsAre, BytesOf
<1>2. b \in 1 .. q - 3 /\ \A j \in b .. q - 2 : s[j] = 0
  BY StartCodeIs
<1>3. p <= q - 3
  <2>1. p - 3 < q - 3
    BY <1>1
  <2>2. (p - 3) + 3 <= q - 3
    BY <1>1, <2>1, CodesApart
  <2>3. QED
    BY <1>1, <2>2
<1>4. q - 3 \in Codes(s, p)
  BY <1>1, <1>3, CodesAre
<1>5. c <= q - 3 /\ e \in p .. c /\ (e = p \/ s[e - 1] # 0)
  <2>1. p \in 1 .. Len(s) + 1
    BY <1>1
  <2>2. QED
    BY <1>4, <2>1, NalEndIs
<1>6. c \in Nat
  <2>1. Codes(s, p) \in SUBSET Nat
    BY <1>1, CodesAre
  <2>2. QED
    BY <1>4, <2>1, FirstOfIs
<1> HIDE DEF e, b, c
<1>7. ~ b < e
  <2>1. s[e - 1] # 0
    BY <1>1, <1>5
  <2>2. b < e => e - 1 \in b .. q - 2
    BY <1>1, <1>2, <1>5, <1>6
  <2>3. QED
    BY <1>2, <2>1, <2>2
<1>8. e <= b /\ p < b /\ b < q /\ e < q
  BY <1>1, <1>2, <1>7
<1>9. QED
  BY <1>8 DEF e, b

(* A piece of a stream, from the start code of one NAL unit to the start    *)
(* code of a later one or the end, holds the NAL units that begin in it.    *)
Opens(s, a) == \E p \in NalStarts(s) : a = StartCode(s, p)

LEMMA NoneStraddles ==
  ASSUME NEW s \in NalUnit, NEW a \in Nat, Opens(s, a),
         NEW c \in Codes(s, 1), c + 3 > a
  PROVE  a <= c
<1>1. PICK p \in NalStarts(s) : a = StartCode(s, p)
  BY DEF Opens
<1>2. /\ a \in 1 .. p - 3 /\ \A j \in a .. p - 2 : s[j] = 0
      /\ a = 1 \/ s[a - 1] # 0
  BY <1>1, StartCodeIs
<1>3. c \in Nat /\ c >= 1 /\ s[c] = 0 /\ s[c + 1] = 0 /\ s[c + 2] = 1 /\ p \in Nat
  BY CodesAre, StartsAre
<1>4. s[a] = 0 /\ s[a + 1] = 0
  <2>1. a \in a .. p - 2 /\ a + 1 \in a .. p - 2
    BY <1>2, <1>3
  <2>2. QED
    BY <1>2, <2>1
<1>5. a # c + 2
  BY <1>3, <1>4
<1>6. a # c + 1
  <2>1. a = c + 1 => a # 1 /\ a - 1 = c
    BY <1>3
  <2>2. QED
    BY <1>2, <1>3, <2>1
<1>7. QED
  BY <1>3, <1>5, <1>6

LEMMA CodesOfPart ==
  ASSUME NEW s \in NalUnit, NEW a \in 1 .. Len(s), NEW b \in a .. Len(s)
  PROVE  LET u == SubSeq(s, a, b)
         IN /\ u \in NalUnit /\ Len(u) = b - a + 1
            /\ \A i \in 1 .. b - a + 1 : u[i] = s[a + i - 1]
            /\ \A p \in a .. b + 1 : \A c \in p .. b - 2 :
                 c \in Codes(s, p) <=> c - a + 1 \in Codes(u, p - a + 1)
<1> DEFINE u == SubSeq(s, a, b)
<1>1. Len(s) \in Nat /\ a \in Nat /\ b \in Nat /\ a >= 1 /\ a <= b /\ b <= Len(s)
  BY BytesOf
<1>2. \A i \in a .. b : s[i] \in 0 .. 255
  <2>1. \A i \in a .. b : i \in 1 .. Len(s)
    BY <1>1
  <2>2. QED
    BY <2>1, BytesOf
<1>3. u \in NalUnit /\ Len(u) = b - a + 1 /\ \A i \in 1 .. b - a + 1 : u[i] = s[a + i - 1]
  <2>1. a \in Int /\ b \in Int /\ a <= b
    BY <1>1
  <2>2. s \in Seq(0 .. 255)
    BY DEF NalUnit
  <2>3. \A i \in a .. b : i \in 1 .. Len(s)
    BY <1>1
  <2>4. /\ u \in Seq(0 .. 255) /\ Len(u) = b - a + 1
        /\ \A i \in 1 .. b - a + 1 : u[i] = s[a + i - 1]
    BY <2>1, <2>2, <2>3, <1>2, SubSeqProperties
  <2>5. QED
    BY <2>4 DEF NalUnit
<1> HIDE DEF u
<1>4. ASSUME NEW p \in a .. b + 1, NEW c \in p .. b - 2
      PROVE  c \in Codes(s, p) <=> c - a + 1 \in Codes(u, p - a + 1)
  <2>1. /\ c - a + 1 \in 1 .. b - a + 1
        /\ (c - a + 1) + 1 \in 1 .. b - a + 1
        /\ (c - a + 1) + 2 \in 1 .. b - a + 1
    BY <1>1
  <2>2. /\ u[c - a + 1] = s[c] /\ u[(c - a + 1) + 1] = s[c + 1]
        /\ u[(c - a + 1) + 2] = s[c + 2]
    <3>1. /\ a + (c - a + 1) - 1 = c
          /\ a + ((c - a + 1) + 1) - 1 = c + 1
          /\ a + ((c - a + 1) + 2) - 1 = c + 2
      BY <1>1
    <3>2. QED
      BY <1>3, <2>1, <3>1
  <2>3. /\ c \in p .. Len(s) - 2
        /\ c - a + 1 \in (p - a + 1) .. Len(u) - 2
    BY <1>1, <1>3
  <2>4. QED
    BY <2>2, <2>3 DEF Codes
<1>5. QED
  BY <1>3, <1>4 DEF u

LEMMA EndInPart ==
  ASSUME NEW s \in NalUnit, NEW a \in 1 .. Len(s), NEW b \in a .. Len(s),
         b = Len(s) \/ Opens(s, b + 1), NEW p \in a .. b
  PROVE  NalEnd(SubSeq(s, a, b), p - a + 1) = NalEnd(s, p) - a + 1
<1> DEFINE u == SubSeq(s, a, b)
           r == p - a + 1
           c == FirstOf(Codes(s, p))
           d == FirstOf(Codes(u, r))
<1>1. /\ Len(s) \in Nat /\ a \in Nat /\ b \in Nat /\ p \in Nat
      /\ a >= 1 /\ a <= p /\ p <= b /\ b <= Len(s)
  BY BytesOf
<1>2. /\ u \in NalUnit /\ Len(u) = b - a + 1
      /\ \A i \in 1 .. b - a + 1 : u[i] = s[a + i - 1]
      /\ \A i \in p .. b - 2 : i \in Codes(s, p) <=> i - a + 1 \in Codes(u, r)
  <2>1. p \in a .. b + 1
    BY <1>1
  <2>2. QED
    BY <2>1, CodesOfPart
<1>3. r \in 1 .. Len(u) + 1 /\ p \in 1 .. Len(s) + 1 /\ r \in Nat \ {0} /\ p \in Nat \ {0}
  BY <1>1, <1>2
<1> HIDE DEF u
<1>4. \A i \in Codes(s, p) : i \in p .. Len(s) - 2 /\ i \in Codes(s, 1)
  BY <1>3, CodesAre
<1>5. \A j \in Codes(u, r) : j + a - 1 \in p .. b - 2 /\ j + a - 1 \in Codes(s, p)
  <2> TAKE j \in Codes(u, r)
  <2>1. j \in r .. Len(u) - 2
    BY <1>2, <1>3, CodesAre
  <2>2. j + a - 1 \in p .. b - 2 /\ (j + a - 1) - a + 1 = j
    BY <1>1, <1>2, <2>1
  <2>3. QED
    BY <1>2, <2>2
<1>6. CASE Codes(u, r) # {}
  <2>1. /\ d \in Codes(u, r) /\ \A j \in Codes(u, r) : d <= j
        /\ NalEnd(u, r) = BackUp(u, r, d)
    BY <1>2, <1>3, <1>6, NalEndIs
  <2>2. d + a - 1 \in p .. b - 2 /\ d + a - 1 \in Codes(s, p)
    BY <1>5, <2>1
  <2>3. /\ c \in Codes(s, p) /\ \A j \in Codes(s, p) : c <= j
        /\ NalEnd(s, p) = BackUp(s, p, c)
    BY <1>3, <2>2, NalEndIs
  <2> HIDE DEF c, d
  <2>4. d \in Nat /\ c \in Nat /\ c <= d + a - 1 /\ c \in p .. b - 2
    <3>1. d \in r .. Len(u) - 2 /\ c \in p .. Len(s) - 2
      BY <1>2, <1>3, <1>4, <2>1, <2>3, CodesAre
    <3>2. c <= d + a - 1
      BY <2>2, <2>3
    <3>3. QED
      BY <1>1, <1>2, <2>2, <3>1, <3>2
  <2>5. d <= c - a + 1
    BY <1>2, <2>1, <2>3, <2>4
  <2>6. c = d + a - 1
    BY <1>1, <2>4, <2>5
  <2> DEFINE e == BackUp(s, p, c)
  <2>7. /\ e \in p .. c /\ \A j \in e .. c - 1 : s[j] = 0
        /\ e = p \/ s[e - 1] # 0
    <3>1. p \in Nat /\ c \in Nat /\ p <= c
      BY <1>1, <2>4
    <3>2. QED
      BY <3>1, BackUpIs
  <2> HIDE DEF e
  <2>8. /\ e - a + 1 \in r .. d
        /\ \A j \in e - a + 1 .. d - 1 : u[j] = 0
        /\ e - a + 1 = r \/ u[(e - a + 1) - 1] # 0
    <3>1. e - a + 1 \in r .. d
      BY <1>1, <2>4, <2>6, <2>7
    <3>2. ASSUME NEW j \in e - a + 1 .. d - 1
          PROVE  u[j] = 0
      <4>1. j \in 1 .. b - a + 1 /\ a + j - 1 \in e .. c - 1
        BY <1>1, <2>4, <2>6, <2>7
      <4>2. QED
        BY <1>2, <2>7, <4>1
    <3>3. ASSUME e # p
          PROVE  u[(e - a + 1) - 1] # 0
      <4>1. /\ (e - a + 1) - 1 \in 1 .. b - a + 1
            /\ a + ((e - a + 1) - 1) - 1 = e - 1
        BY <1>1, <2>4, <2>6, <2>7, <3>3
      <4>2. QED
        BY <1>2, <2>7, <3>3, <4>1
    <3>4. e = p => e - a + 1 = r
      OBVIOUS
    <3>5. QED
      BY <3>1, <3>2, <3>3, <3>4
  <2>9. BackUp(u, r, d) = e - a + 1
    <3>1. r \in Nat /\ d \in Nat
      BY <1>3, <2>4
    <3> DEFINE f == e - a + 1
    <3>2. /\ f \in r .. d /\ \A j \in f .. d - 1 : u[j] = 0
          /\ f = r \/ u[f - 1] # 0
      BY <2>8
    <3> HIDE DEF r, f
    <3>3. BackUp(u, r, d) = f
      BY <3>1, <3>2, BackUpTo
    <3>4. QED
      BY <3>3 DEF f
  <2>10. QED
    BY <2>1, <2>3, <2>9 DEF e, u
<1>7. CASE Codes(u, r) = {}
  <2>1. NalEnd(u, r) = b - a + 2
    <3>1. NalEnd(u, r) = Len(u) + 1
      BY <1>2, <1>3, <1>7, NalEndIs
    <3>2. QED
      BY <1>1, <1>2, <3>1
  <2>2. \A i \in Codes(s, p) : i > b - 2
    BY <1>1, <1>2, <1>4, <1>7
  <2>3. NalEnd(s, p) = b + 1
    <3>1. CASE b = Len(s)
      <4>1. Codes(s, p) = {}
        BY <1>1, <1>4, <2>2, <3>1
      <4>2. QED
        BY <1>3, <3>1, <4>1, NalEndIs
    <3>2. CASE Opens(s, b + 1)
      <4>1. PICK q \in NalStarts(s) : b + 1 = StartCode(s, q)
        BY <3>2 DEF Opens
      <4>2. /\ q \in 4 .. Len(s) /\ q - 3 \in Codes(s, 1)
            /\ b + 1 \in 1 .. q - 3 /\ \A j \in b + 1 .. q - 2 : s[j] = 0
            /\ b + 1 = 1 \/ s[(b + 1) - 1] # 0
        BY <4>1, StartCodeIs, StartsAre
      <4>3. q - 3 \in Codes(s, p)
        <5>1. q - 3 >= p
          BY <1>1, <4>2
        <5>2. QED
          BY <1>3, <4>2, <5>1, CodesAre
      <4>4. /\ c \in Codes(s, p) /\ c <= q - 3
            /\ NalEnd(s, p) = BackUp(s, p, c)
        BY <1>3, <4>3, NalEndIs
      <4> HIDE DEF c
      <4>5. c \in p .. Len(s) - 2 /\ c \in Codes(s, 1) /\ s[c + 2] = 1
        BY <1>3, <4>4, CodesAre
      <4>6. b + 1 <= c
        <5>1. c + 3 > b + 1
          BY <1>1, <2>2, <4>4, <4>5
        <5>2. b + 1 \in Nat
          BY <1>1
        <5>3. QED
          BY <3>2, <4>5, <5>1, <5>2, NoneStraddles
      <4>7. c + 2 \notin b + 1 .. q - 2
        BY <4>2, <4>5
      <4>8. c = q - 3
        BY <1>1, <4>2, <4>4, <4>5, <4>6, <4>7
      <4>9. BackUp(s, p, c) = b + 1
        <5>1. b + 1 \in p .. c
          BY <1>1, <4>5, <4>6
        <5>2. \A j \in b + 1 .. c - 1 : s[j] = 0
          BY <1>1, <4>2, <4>8
        <5>3. s[(b + 1) - 1] # 0 /\ p \in Nat /\ c \in Nat
          BY <1>1, <4>2, <4>5
        <5>4. QED
          BY <5>1, <5>2, <5>3, BackUpTo
      <4>10. QED
        BY <4>4, <4>9
    <3>3. QED
      BY <3>1, <3>2
  <2>4. QED
    BY <1>1, <2>1, <2>3 DEF u
<1>8. QED
  BY <1>6, <1>7

LEMMA NalOfPart ==
  ASSUME NEW s \in NalUnit, NEW a \in Nat, Opens(s, a), NEW b \in a .. Len(s),
         b = Len(s) \/ Opens(s, b + 1)
  PROVE  LET u == SubSeq(s, a, b)
         IN /\ \A p \in NalStarts(s) : p \in a .. b =>
                 p - a + 1 \in NalStarts(u) /\ NalAt(u, p - a + 1) = NalAt(s, p)
            /\ \A r \in NalStarts(u) : r + a - 1 \in NalStarts(s)
<1> DEFINE u == SubSeq(s, a, b)
<1>1. PICK q \in NalStarts(s) : a = StartCode(s, q)
  BY DEF Opens
<1>2. q \in 4 .. Len(s) /\ Len(s) \in Nat /\ a \in 1 .. q - 3 /\ a \in 1 .. Len(s)
  <2>1. q \in 4 .. Len(s) /\ Len(s) \in Nat /\ a \in 1 .. q - 3
    BY <1>1, StartsAre, StartCodeIs, BytesOf
  <2>2. QED
    BY <2>1
<1>3. b \in Nat /\ a <= b /\ b <= Len(s)
  BY <1>2
<1>4. /\ u \in NalUnit /\ Len(u) = b - a + 1
      /\ \A i \in 1 .. b - a + 1 : u[i] = s[a + i - 1]
      /\ \A c \in a .. b - 2 : c \in Codes(s, a) <=> c - a + 1 \in Codes(u, a - a + 1)
  <2>1. a \in a .. b + 1
    BY <1>2, <1>3
  <2>2. QED
    BY <1>2, <2>1, CodesOfPart
<1>5. \A c \in a .. b - 2 : c \in Codes(s, 1) <=> c - a + 1 \in Codes(u, 1)
  <2>1. a - a + 1 = 1 /\ a \in Nat \ {0}
    BY <1>2
  <2>2. \A c \in a .. b - 2 : c \in Codes(s, 1) <=> c \in Codes(s, a)
    BY <1>2, <2>1, CodesAre
  <2>3. QED
    BY <1>4, <2>1, <2>2
<1>6. ASSUME NEW p \in NalStarts(s), p \in a .. b
      PROVE  p - a + 1 \in NalStarts(u) /\ NalAt(u, p - a + 1) = NalAt(s, p)
  <2>1. /\ p \in 4 .. Len(s) /\ p - 3 \in Codes(s, 1)
        /\ NalEnd(s, p) \in p + 1 .. Len(s) + 1
    BY StartsAre
  <2>2. a < p
    <3>1. ~ p < q
      BY <1>1, <1>6, <2>1, <1>2, StartsApart
    <3>2. QED
      BY <1>2, <2>1, <3>1
  <2>3. a <= p - 3
    <3>1. (p - 3) + 3 > a
      BY <1>2, <2>1, <2>2
    <3>2. QED
      BY <2>1, <3>1, NoneStraddles
  <2>4. p - 3 \in a .. b - 2 /\ (p - 3) - a + 1 = (p - a + 1) - 3
    BY <1>2, <1>3, <1>6, <2>1, <2>3
  <2>5. (p - a + 1) - 3 \in Codes(u, 1)
    BY <1>5, <2>1, <2>4
  <2>6. NalEnd(u, p - a + 1) = NalEnd(s, p) - a + 1
    BY <1>2, <1>6, EndInPart
  <2>7. p - a + 1 \in 4 .. Len(u) /\ NalEnd(u, p - a + 1) > p - a + 1
    BY <1>2, <1>3, <1>4, <1>6, <2>1, <2>3, <2>6
  <2>8. p - a + 1 \in NalStarts(u)
    BY <1>4, <2>5, <2>7, StartsAre
  <2>9. NalEnd(u, p - a + 1) \in (p - a + 1) + 1 .. Len(u) + 1
    BY <1>4, <2>8, StartsAre
  <2>10. NalAt(u, p - a + 1) = SubSeq(u, p - a + 1, NalEnd(u, p - a + 1) - 1)
    BY DEF NalAt, Nal, Span
  <2>11. NalAt(s, p) = SubSeq(s, p, NalEnd(s, p) - 1)
    BY DEF NalAt, Nal, Span
  <2>12. SubSeq(u, p - a + 1, NalEnd(u, p - a + 1) - 1) = SubSeq(s, p, NalEnd(s, p) - 1)
    <3> DEFINE m == p - a + 1
               n == NalEnd(u, p - a + 1) - 1
    <3>1. m \in 1 .. b - a + 1 /\ n \in 1 .. b - a + 1
      BY <1>2, <1>3, <1>4, <2>7, <2>9
    <3>2. a + m - 1 = p /\ a + n - 1 = NalEnd(s, p) - 1
      BY <1>2, <1>3, <2>1, <2>6
    <3>3. a \in 1 .. Len(s) /\ b \in 1 .. Len(s) /\ s \in Seq(0 .. 255)
      BY <1>2, <1>3 DEF NalUnit
    <3> HIDE DEF m, n
    <3>4. SubSeq(SubSeq(s, a, b), m, n) = SubSeq(s, a + m - 1, a + n - 1)
      BY <3>1, <3>3, SubSeqOfSubSeq
    <3>5. QED
      BY <3>2, <3>4 DEF m, n
  <2>13. QED
    BY <2>8, <2>10, <2>11, <2>12
<1>7. ASSUME NEW r \in NalStarts(u)
      PROVE  r + a - 1 \in NalStarts(s)
  <2>1. /\ r \in 4 .. Len(u) /\ r - 3 \in Codes(u, 1)
        /\ NalEnd(u, r) \in r + 1 .. Len(u) + 1
    BY <1>4, StartsAre
  <2> DEFINE p == r + a - 1
  <2>2. p \in a .. b /\ p - 3 \in a .. b - 2 /\ (p - 3) - a + 1 = r - 3 /\ p - a + 1 = r
    BY <1>2, <1>3, <1>4, <2>1
  <2>3. p - 3 \in Codes(s, 1)
    BY <1>5, <2>1, <2>2
  <2>4. NalEnd(u, p - a + 1) = NalEnd(s, p) - a + 1
    BY <1>2, <2>2, EndInPart
  <2>5. p \in 4 .. Len(s) /\ NalEnd(s, p) > p
    <3>1. p \in 1 .. Len(s) + 1
      BY <1>2, <1>3, <2>2
    <3>2. NalEnd(s, p) \in p .. Len(s) + 1
      BY <3>1, NalEndIs
    <3>3. NalEnd(u, r) = NalEnd(s, p) - a + 1
      BY <2>2, <2>4
    <3>4. QED
      BY <1>2, <1>3, <2>1, <2>2, <3>2, <3>3
  <2> HIDE DEF p
  <2>6. QED
    BY <2>3, <2>5, StartsAre DEF p
<1>8. QED
  BY <1>6, <1>7

------------------------------------------------------------------------------
(* H.264: the k-th of a set of positions, and the sequence of NAL units.    *)

LEMMA RankIs ==
  ASSUME NEW n \in Nat, NEW S \in SUBSET (1 .. n)
  PROVE  /\ IsFiniteSet(S) /\ Cardinality(S) \in Nat
         /\ \A i \in Int : UpToIn(S, i) \in Nat /\ UpToIn(S, i) <= Cardinality(S)
         /\ \A i \in Int : i < 1 => UpToIn(S, i) = 0
         /\ \A i \in Int : i >= n => UpToIn(S, i) = Cardinality(S)
         /\ \A i \in Nat :
              UpToIn(S, i + 1) = UpToIn(S, i) + (IF i + 1 \in S THEN 1 ELSE 0)
<1>0. \A q \in S : q \in Nat /\ 1 <= q /\ q <= n
  OBVIOUS
<1>1. IsFiniteSet(S) /\ Cardinality(S) \in Nat
  <2>1. IsFiniteSet(1 .. n)
    BY FS_Interval
  <2>2. IsFiniteSet(S)
    BY <2>1, FS_Subset
  <2>3. QED
    BY <2>2, FS_CardinalityType
<1>2. ASSUME NEW i \in Int
      PROVE  /\ IsFiniteSet({q \in S : q <= i})
             /\ UpToIn(S, i) \in Nat /\ UpToIn(S, i) <= Cardinality(S)
  <2>1. {q \in S : q <= i} \in SUBSET S
    OBVIOUS
  <2>2. IsFiniteSet({q \in S : q <= i})
    BY <1>1, <2>1, FS_Subset
  <2>3. Cardinality({q \in S : q <= i}) <= Cardinality(S)
    BY <1>1, <2>1, FS_Subset
  <2>4. Cardinality({q \in S : q <= i}) \in Nat
    BY <2>2, FS_CardinalityType
  <2>5. QED
    BY <2>2, <2>3, <2>4 DEF UpToIn
<1>3. ASSUME NEW i \in Int, i < 1 PROVE UpToIn(S, i) = 0
  <2>1. {q \in S : q <= i} = {}
    <3>1. \A q \in S : ~ q <= i
      BY <1>0, <1>3
    <3>2. QED
      BY <3>1
  <2>2. QED
    BY <2>1, FS_EmptySet DEF UpToIn
<1>4. ASSUME NEW i \in Int, i >= n PROVE UpToIn(S, i) = Cardinality(S)
  <2>1. {q \in S : q <= i} = S
    <3>1. \A q \in S : q <= i
      BY <1>0, <1>4
    <3>2. QED
      BY <3>1
  <2>2. QED
    BY <2>1 DEF UpToIn
<1>5. ASSUME NEW i \in Nat
      PROVE  UpToIn(S, i + 1) = UpToIn(S, i) + (IF i + 1 \in S THEN 1 ELSE 0)
  <2> DEFINE A == {q \in S : q <= i}
             B == {q \in S : q <= i + 1}
  <2>1. IsFiniteSet(A) /\ Cardinality(A) \in Nat
    BY <1>2 DEF UpToIn
  <2>2. CASE i + 1 \in S
    <3>1. B = A \cup {i + 1} /\ i + 1 \notin A
      <4>1. \A q \in S : q <= i + 1 <=> q <= i \/ q = i + 1
        BY <1>0
      <4>2. ~ i + 1 <= i
        OBVIOUS
      <4>3. QED
        BY <2>2, <4>1, <4>2
    <3> HIDE DEF A, B
    <3>2. Cardinality(B) = Cardinality(A) + 1
      BY <2>1, <3>1, FS_AddElement
    <3>3. QED
      BY <2>2, <3>2 DEF UpToIn, A, B
  <2>3. CASE i + 1 \notin S
    <3>1. A = B
      <4>1. \A q \in S : q <= i + 1 <=> q <= i
        BY <1>0, <2>3
      <4>2. QED
        BY <4>1
    <3>2. Cardinality(B) = Cardinality(A)
      BY <3>1
    <3>3. QED
      BY <2>1, <2>3, <3>2 DEF UpToIn
  <2>4. QED
    BY <2>2, <2>3
<1>6. QED
  BY <1>1, <1>2, <1>3, <1>4, <1>5

LEMMA RankGrows ==
  ASSUME NEW n \in Nat, NEW S \in SUBSET (1 .. n)
  PROVE  /\ \A i, j \in Int : i <= j => UpToIn(S, i) <= UpToIn(S, j)
         /\ \A i \in Int, q \in S : i < q => UpToIn(S, i) < UpToIn(S, q)
<1>1. ASSUME NEW i \in Int, NEW j \in Int, i <= j
      PROVE  UpToIn(S, i) <= UpToIn(S, j)
  <2> DEFINE A == {q \in S : q <= i}
             B == {q \in S : q <= j}
  <2>1. A \in SUBSET B /\ B \in SUBSET S
    <3>1. \A q \in S : q <= i => q <= j
      BY <1>1
    <3>2. QED
      BY <3>1
  <2>2. IsFiniteSet(B)
    BY <2>1, RankIs, FS_Subset
  <2>3. Cardinality(A) <= Cardinality(B)
    BY <2>1, <2>2, FS_Subset
  <2>4. QED
    BY <2>3 DEF UpToIn
<1>2. ASSUME NEW i \in Int, NEW q \in S, i < q
      PROVE  UpToIn(S, i) < UpToIn(S, q)
  <2>1. q - 1 \in Nat /\ i <= q - 1 /\ (q - 1) + 1 = q /\ q - 1 \in Int
    BY <1>2
  <2>2. UpToIn(S, i) <= UpToIn(S, q - 1)
    BY <1>1, <2>1
  <2>3. UpToIn(S, (q - 1) + 1) = UpToIn(S, q - 1) + (IF (q - 1) + 1 \in S THEN 1 ELSE 0)
    BY <2>1, RankIs
  <2>4. UpToIn(S, q) = UpToIn(S, q - 1) + 1
    BY <2>1, <2>3
  <2>5. UpToIn(S, i) \in Nat /\ UpToIn(S, q - 1) \in Nat
    BY <2>1, RankIs
  <2>6. QED
    BY <2>2, <2>4, <2>5
<1>3. QED
  BY <1>1, <1>2

LEMMA NthIs ==
  ASSUME NEW n \in Nat, NEW S \in SUBSET (1 .. n)
  PROVE  /\ \A p \in S :
              UpToIn(S, p) \in 1 .. Cardinality(S) /\ Nth(S, UpToIn(S, p)) = p
         /\ \A k \in 1 .. Cardinality(S) :
              Nth(S, k) \in S /\ UpToIn(S, Nth(S, k)) = k
<1> DEFINE R(i) == UpToIn(S, i)
           N == Cardinality(S)
<1>1. /\ N \in Nat
      /\ \A i \in Int : R(i) \in Nat /\ R(i) <= N
      /\ R(0) = 0 /\ R(n) = N
      /\ \A i \in Nat : R(i + 1) = R(i) + (IF i + 1 \in S THEN 1 ELSE 0)
  BY RankIs
<1>2. \A i \in Int, q \in S : i < q => R(i) < R(q)
  BY RankGrows
<1> HIDE DEF R, N
<1>3. ASSUME NEW p \in S, NEW q \in S, R(p) = R(q) PROVE p = q
  <2>1. p \in Int /\ q \in Int /\ R(p) \in Int
    BY <1>1
  <2>2. ~ p < q /\ ~ q < p
    BY <1>2, <1>3, <2>1
  <2>3. QED
    BY <2>1, <2>2
<1>4. ASSUME NEW p \in S PROVE R(p) \in 1 .. N /\ Nth(S, R(p)) = p
  <2>1. p \in Int /\ 0 < p /\ R(p) \in Nat /\ R(p) <= N
    BY <1>1
  <2>2. R(p) > 0
    BY <1>1, <1>2, <2>1
  <2>3. Nth(S, R(p)) = p
    BY <1>3 DEF Nth, R
  <2>4. QED
    BY <1>1, <2>1, <2>2, <2>3
<1>5. ASSUME NEW k \in 1 .. N PROVE \E p \in S : R(p) = k
  <2> DEFINE Q == {i \in 0 .. n : R(i) >= k}
  <2>1. n \in Q /\ Q \in SUBSET Nat
    BY <1>1
  <2>2. PICK m \in Q : \A i \in Q : m <= i
    <3> HIDE DEF Q
    <3> QED
      BY <2>1, LeastOf
  <2>3. m # 0
    BY <1>1, <2>2
  <2>4. m - 1 \in Nat /\ m - 1 \notin Q /\ m - 1 \in 0 .. n /\ (m - 1) + 1 = m
    BY <2>2, <2>3
  <2>5. R(m - 1) < k /\ R(m) >= k /\ R(m - 1) \in Nat /\ R(m) \in Nat
    BY <1>1, <2>2, <2>4
  <2>6. R((m - 1) + 1) = R(m - 1) + (IF (m - 1) + 1 \in S THEN 1 ELSE 0)
    BY <1>1, <2>4
  <2>7. R(m) = R(m - 1) + (IF m \in S THEN 1 ELSE 0)
    BY <2>4, <2>6
  <2>8. m \in S /\ R(m) = k
    <3>1. m \in S
      BY <2>5, <2>7
    <3>2. R(m) = R(m - 1) + 1
      BY <2>7, <3>1
    <3>3. QED
      BY <2>5, <3>1, <3>2
  <2>9. QED
    BY <2>8
<1>6. ASSUME NEW k \in 1 .. N PROVE Nth(S, k) \in S /\ R(Nth(S, k)) = k
  BY <1>5 DEF Nth, R
<1>7. QED
  BY <1>4, <1>6 DEF R, N

LEMMA NalIs ==
  ASSUME NEW s \in NalUnit, NEW p \in NalStarts(s)
  PROVE  /\ NalAt(s, p) \in NalUnit /\ Len(NalAt(s, p)) \in Nat \ {0}
         /\ NalAt(s, p)[1] = s[p]
<1>1. p \in 4 .. Len(s) /\ NalEnd(s, p) \in p + 1 .. Len(s) + 1 /\ Len(s) \in Nat
  BY StartsAre, BytesOf
<1> DEFINE e == NalEnd(s, p) - 1
<1>2. e \in p .. Len(s) /\ p \in Int /\ e \in Int
  BY <1>1
<1>3. NalAt(s, p) = SubSeq(s, p, e)
  BY DEF NalAt, Nal, Span
<1> HIDE DEF e
<1>4. \A i \in p .. e : s[i] \in 0 .. 255
  <2>1. \A i \in p .. e : i \in 1 .. Len(s)
    BY <1>1, <1>2
  <2>2. QED
    BY <2>1, BytesOf
<1>5. /\ SubSeq(s, p, e) \in Seq(0 .. 255)
      /\ Len(SubSeq(s, p, e)) = e - p + 1
      /\ \A i \in 1 .. e - p + 1 : SubSeq(s, p, e)[i] = s[p + i - 1]
  BY <1>2, <1>4, SubSeqProperties
<1>6. 1 \in 1 .. e - p + 1 /\ p + 1 - 1 = p /\ e - p + 1 \in Nat \ {0}
  BY <1>1, <1>2
<1>7. SubSeq(s, p, e)[1] = s[p]
  BY <1>5, <1>6
<1>8. QED
  BY <1>3, <1>5, <1>6, <1>7 DEF NalUnit

LEMMA UnitsAre ==
  ASSUME NEW s \in NalUnit
  PROVE  /\ NalUnits(s) \in Seq(NalUnit)
         /\ Len(NalUnits(s)) = Cardinality(NalStarts(s))
         /\ \A p \in NalStarts(s) :
              /\ UpToIn(NalStarts(s), p) \in 1 .. Len(NalUnits(s))
              /\ NalUnits(s)[UpToIn(NalStarts(s), p)] = NalAt(s, p)
         /\ \A k \in 1 .. Len(NalUnits(s)) :
              /\ Nth(NalStarts(s), k) \in NalStarts(s)
              /\ UpToIn(NalStarts(s), Nth(NalStarts(s), k)) = k
              /\ NalUnits(s)[k] = NalAt(s, Nth(NalStarts(s), k))
<1> DEFINE S == NalStarts(s)
           N == Cardinality(S)
<1>1. S \in SUBSET (1 .. Len(s)) /\ Len(s) \in Nat
  BY StartsAre, BytesOf
<1>2. /\ N \in Nat
      /\ \A p \in S : UpToIn(S, p) \in 1 .. N /\ Nth(S, UpToIn(S, p)) = p
      /\ \A k \in 1 .. N : Nth(S, k) \in S /\ UpToIn(S, Nth(S, k)) = k
  <2> HIDE DEF S
  <2> QED
    BY <1>1, RankIs, NthIs
<1>3. NalUnits(s) = [k \in 1 .. N |-> NalAt(s, Nth(S, k))]
  BY DEF NalUnits
<1>4. \A k \in 1 .. N : NalAt(s, Nth(S, k)) \in NalUnit
  BY <1>2, NalIs
<1> HIDE DEF S, N
<1>5. NalUnits(s) \in Seq(NalUnit) /\ Len(NalUnits(s)) = N
  BY <1>2, <1>3, <1>4
<1>6. \A k \in 1 .. N : NalUnits(s)[k] = NalAt(s, Nth(S, k))
  BY <1>3
<1>7. \A p \in S : NalUnits(s)[UpToIn(S, p)] = NalAt(s, p)
  BY <1>2, <1>6
<1>8. QED
  BY <1>2, <1>5, <1>6, <1>7 DEF S, N

(* Two sets, one of which is a stretch of the other moved.                  *)
LEMMA ShiftRank ==
  ASSUME NEW n \in Nat, NEW S \in SUBSET (1 .. n), NEW a \in 1 .. n, NEW m \in Nat,
         a + m - 1 <= n, NEW T \in SUBSET (1 .. m),
         \A d \in 1 .. m : d \in T <=> d + a - 1 \in S
  PROVE  /\ \A d \in 0 .. m : UpToIn(S, d + a - 1) = UpToIn(S, a - 1) + UpToIn(T, d)
         /\ UpToIn(S, a + m - 1) = UpToIn(S, a - 1) + Cardinality(T)
<1> DEFINE P == {d \in 0 .. m : UpToIn(S, d + a - 1) = UpToIn(S, a - 1) + UpToIn(T, d)}
<1>1. /\ \A i \in Int : UpToIn(S, i) \in Nat /\ UpToIn(T, i) \in Nat
      /\ UpToIn(T, 0) = 0 /\ UpToIn(T, m) = Cardinality(T)
      /\ \A i \in Nat :
           UpToIn(S, i + 1) = UpToIn(S, i) + (IF i + 1 \in S THEN 1 ELSE 0)
      /\ \A i \in Nat :
           UpToIn(T, i + 1) = UpToIn(T, i) + (IF i + 1 \in T THEN 1 ELSE 0)
  BY RankIs
<1>2. 0 \in P
  <2>1. 0 + a - 1 = a - 1 /\ a - 1 \in Int
    OBVIOUS
  <2>2. UpToIn(S, 0 + a - 1) = UpToIn(S, a - 1) + UpToIn(T, 0)
    BY <1>1, <2>1
  <2>3. QED
    BY <2>2
<1>3. ASSUME NEW k \in 1 .. m, k - 1 \in P PROVE k \in P
  <2> DEFINE i == (k - 1) + a - 1
  <2>1. i \in Nat /\ i + 1 = k + a - 1 /\ k - 1 \in Nat /\ (k - 1) + 1 = k /\ a - 1 \in Int
    OBVIOUS
  <2>2. UpToIn(S, i) = UpToIn(S, a - 1) + UpToIn(T, k - 1)
    BY <1>3
  <2>3. UpToIn(S, i + 1) = UpToIn(S, i) + (IF i + 1 \in S THEN 1 ELSE 0)
    BY <1>1, <2>1
  <2>4. UpToIn(T, (k - 1) + 1) = UpToIn(T, k - 1) + (IF (k - 1) + 1 \in T THEN 1 ELSE 0)
    BY <1>1, <2>1
  <2>5. i + 1 \in S <=> k \in T
    BY <2>1
  <2> HIDE DEF i
  <2>6. UpToIn(S, k + a - 1) = UpToIn(S, i) + (IF k \in T THEN 1 ELSE 0)
    BY <2>1, <2>3, <2>5
  <2>7. UpToIn(T, k) = UpToIn(T, k - 1) + (IF k \in T THEN 1 ELSE 0)
    BY <2>1, <2>4
  <2>8. /\ UpToIn(S, i) \in Nat /\ UpToIn(S, a - 1) \in Nat /\ UpToIn(T, k - 1) \in Nat
    BY <1>1, <2>1
  <2>9. UpToIn(S, k + a - 1) = UpToIn(S, a - 1) + UpToIn(T, k)
    BY <2>2, <2>6, <2>7, <2>8
  <2>10. QED
    BY <2>9
<1>4. 0 .. m \subseteq P
  <2> HIDE DEF P
  <2> QED
    BY <1>2, <1>3, CountUp
<1>5. \A d \in 0 .. m : UpToIn(S, d + a - 1) = UpToIn(S, a - 1) + UpToIn(T, d)
  BY <1>4
<1>6. UpToIn(S, a + m - 1) = UpToIn(S, a - 1) + Cardinality(T)
  <2>1. m \in 0 .. m /\ m + a - 1 = a + m - 1
    OBVIOUS
  <2>2. UpToIn(S, m + a - 1) = UpToIn(S, a - 1) + UpToIn(T, m)
    BY <1>5, <2>1
  <2>3. QED
    BY <1>1, <2>1, <2>2
<1>7. QED
  BY <1>5, <1>6

(* The NAL units of a piece are those of the stream from the first that     *)
(* begins in it to the last.                                                *)
LEMMA UnitsOfPart ==
  ASSUME NEW s \in NalUnit, NEW a \in Nat, Opens(s, a), NEW b \in a .. Len(s),
         b = Len(s) \/ Opens(s, b + 1)
  PROVE  LET S == NalStarts(s)
             before == UpToIn(S, a - 1)
             nals == NalUnits(SubSeq(s, a, b))
         IN /\ before \in Nat /\ nals \in Seq(NalUnit)
            /\ UpToIn(S, b) = before + Len(nals)
            /\ \A k \in 1 .. Len(nals) :
                 /\ before + k \in 1 .. Len(NalUnits(s))
                 /\ nals[k] = NalUnits(s)[before + k]
            /\ \A p \in S : p \in a .. b => UpToIn(S, p) - before \in 1 .. Len(nals)
<1> DEFINE S == NalStarts(s)
           u == SubSeq(s, a, b)
           T == NalStarts(u)
           m == b - a + 1
           n == Len(s)
           nals == NalUnits(u)
           before == UpToIn(S, a - 1)
<1>1. /\ n \in Nat /\ b \in a .. n /\ a \in 1 .. n /\ a - 1 \in Int
      /\ m \in Nat /\ a + m - 1 = b /\ S \in SUBSET (1 .. n)
  <2>1. PICK q \in NalStarts(s) : a = StartCode(s, q)
    BY DEF Opens
  <2>2. q \in 4 .. Len(s) /\ Len(s) \in Nat /\ a \in 1 .. q - 3
    BY <2>1, StartsAre, StartCodeIs, BytesOf
  <2>3. S \in SUBSET (1 .. n)
    BY StartsAre
  <2>4. QED
    BY <2>2, <2>3
<1>2. u \in NalUnit /\ Len(u) = m
  BY <1>1, CodesOfPart
<1>3. T \in SUBSET (1 .. m)
  BY <1>2, StartsAre
<1>4. /\ \A p \in S : p \in a .. b =>
           p - a + 1 \in T /\ NalAt(u, p - a + 1) = NalAt(s, p)
      /\ \A r \in T : r + a - 1 \in S
  BY NalOfPart
<1>5. /\ nals \in Seq(NalUnit) /\ Len(nals) = Cardinality(T)
      /\ \A k \in 1 .. Len(nals) :
           /\ Nth(T, k) \in T /\ UpToIn(T, Nth(T, k)) = k
           /\ nals[k] = NalAt(u, Nth(T, k))
      /\ \A r \in T : UpToIn(T, r) \in 1 .. Len(nals)
  BY <1>2, UnitsAre
<1>6. /\ Len(NalUnits(s)) = Cardinality(S)
      /\ \A p \in S : /\ UpToIn(S, p) \in 1 .. Len(NalUnits(s))
                      /\ NalUnits(s)[UpToIn(S, p)] = NalAt(s, p)
  BY UnitsAre
<1>7. before \in Nat
  <2> HIDE DEF S, n
  <2> QED
    BY <1>1, RankIs
<1> HIDE DEF u, T, S, n, m, nals
<1>8. \A d \in 1 .. m : d \in T <=> d + a - 1 \in S
  <2> TAKE d \in 1 .. m
  <2>1. d + a - 1 \in a .. b /\ (d + a - 1) - a + 1 = d
    BY <1>1
  <2>2. QED
    BY <1>4, <2>1
<1>9. /\ \A d \in 0 .. m : UpToIn(S, d + a - 1) = before + UpToIn(T, d)
      /\ UpToIn(S, a + m - 1) = before + Cardinality(T)
  <2>1. a + m - 1 <= n
    BY <1>1
  <2>2. QED
    BY <1>1, <1>3, <1>8, <2>1, ShiftRank
<1>10. ASSUME NEW k \in 1 .. Len(nals)
       PROVE  /\ before + k \in 1 .. Len(NalUnits(s))
              /\ nals[k] = NalUnits(s)[before + k]
  <2>1. PICK r \in T : r = Nth(T, k)
    BY <1>5
  <2>2. UpToIn(T, r) = k /\ nals[k] = NalAt(u, r)
    BY <1>5, <2>1
  <2>3. r \in 0 .. m /\ r + a - 1 \in a .. b /\ (r + a - 1) - a + 1 = r
    BY <1>1, <1>3
  <2>4. r + a - 1 \in S /\ NalAt(u, r) = NalAt(s, r + a - 1)
    BY <1>4, <2>3
  <2>5. UpToIn(S, r + a - 1) = before + k
    BY <1>9, <2>2, <2>3
  <2>6. QED
    BY <1>6, <2>2, <2>4, <2>5
<1>11. ASSUME NEW p \in S, p \in a .. b
       PROVE  UpToIn(S, p) - before \in 1 .. Len(nals)
  <2>1. p - a + 1 \in T /\ p - a + 1 \in 0 .. m /\ (p - a + 1) + a - 1 = p
    BY <1>1, <1>4, <1>11
  <2>2. UpToIn(S, p) = before + UpToIn(T, p - a + 1)
    BY <1>9, <2>1
  <2>3. UpToIn(T, p - a + 1) \in 1 .. Len(nals)
    BY <1>5, <2>1
  <2>4. QED
    BY <1>7, <2>2, <2>3
<1>12. UpToIn(S, b) = before + Len(nals)
  BY <1>1, <1>5, <1>9
<1>13. QED
  BY <1>5, <1>7, <1>10, <1>11, <1>12 DEF u, S, nals

(* The next span from a position.                                           *)
LEMMA NextSpanIs ==
  ASSUME NEW s \in NalUnit, NEW pos \in Nat
  PROVE  \/ /\ NextSpan(s, pos) = NoSpan
            /\ \A p \in NalStarts(s) : p < pos
         \/ \E p \in NalStarts(s) :
              /\ NextSpan(s, pos) = Span(s, p) /\ p >= pos
              /\ \A q \in NalStarts(s) : q >= pos => p <= q
<1> DEFINE L == {p \in NalStarts(s) : p >= pos}
<1>1. NalStarts(s) \in SUBSET Nat /\ L \in SUBSET Nat
  <2>1. NalStarts(s) \in SUBSET (1 .. Len(s))
    BY StartsAre
  <2>2. QED
    BY <2>1
<1>2. CASE L = {}
  <2>1. NextSpan(s, pos) = NoSpan
    BY <1>2 DEF NextSpan
  <2>2. \A p \in NalStarts(s) : ~ p >= pos
    BY <1>2
  <2>3. QED
    BY <1>1, <2>1, <2>2
<1>3. CASE L # {}
  <2>1. NextSpan(s, pos) = Span(s, FirstOf(L))
    BY <1>3 DEF NextSpan
  <2>2. FirstOf(L) \in L /\ \A j \in L : FirstOf(L) <= j
    <3> HIDE DEF L
    <3> QED
      BY <1>1, <1>3, FirstOfIs
  <2>3. FirstOf(L) \in NalStarts(s) /\ FirstOf(L) >= pos
    BY <2>2
  <2>4. QED
    BY <2>1, <2>2, <2>3
<1>4. QED
  BY <1>2, <1>3

LEMMA SpanIs ==
  ASSUME NEW s \in NalUnit, NEW p \in NalStarts(s)
  PROVE  /\ Span(s, p) \in [start_code : Nat, nal_start : Nat, nal_end : Nat]
         /\ Span(s, p) # NoSpan
         /\ Span(s, p).start_code = StartCode(s, p)
         /\ Span(s, p).nal_start = p /\ Span(s, p).nal_end = NalEnd(s, p)
         /\ Nal(s, Span(s, p)) = NalAt(s, p)
         /\ p \in Nat /\ p >= 4 /\ p <= Len(s)
<1>1. p \in 4 .. Len(s) /\ NalEnd(s, p) \in p + 1 .. Len(s) + 1 /\ Len(s) \in Nat
  BY StartsAre, BytesOf
<1>2. StartCode(s, p) \in 1 .. p - 3
  BY StartCodeIs
<1>3. p \in Nat /\ p # 0 /\ NalEnd(s, p) \in Nat /\ StartCode(s, p) \in Nat
  BY <1>1, <1>2
<1>4. QED
  BY <1>1, <1>3 DEF Span, NoSpan, NalAt

(* The span after that of one NAL unit is that of the next.                 *)
LEMMA SpanAfter ==
  ASSUME NEW s \in NalUnit, NEW p \in NalStarts(s)
  PROVE  LET next == NextSpan(s, NalEnd(s, p))
         IN \/ next = NoSpan /\ \A q \in NalStarts(s) : q <= p
            \/ \E q \in NalStarts(s) :
                 /\ next = Span(s, q) /\ p < q
                 /\ \A r \in NalStarts(s) : r <= p \/ q <= r
<1>1. NalEnd(s, p) \in Nat /\ NalEnd(s, p) > p /\ p \in Nat
  <2>1. p \in 4 .. Len(s) /\ NalEnd(s, p) \in p + 1 .. Len(s) + 1 /\ Len(s) \in Nat
    BY StartsAre, BytesOf
  <2>2. QED
    BY <2>1
<1>2. \A q \in NalStarts(s) : q \in Nat /\ (q <= p \/ NalEnd(s, p) < q)
  <2> TAKE q \in NalStarts(s)
  <2>1. q \in Nat
    BY SpanIs
  <2>2. p < q => NalEnd(s, p) < q
    BY StartsApart
  <2>3. QED
    BY <1>1, <2>1, <2>2
<1>3. CASE /\ NextSpan(s, NalEnd(s, p)) = NoSpan
           /\ \A q \in NalStarts(s) : q < NalEnd(s, p)
  BY <1>1, <1>2, <1>3
<1>4. ASSUME NEW q \in NalStarts(s),
             NextSpan(s, NalEnd(s, p)) = Span(s, q), q >= NalEnd(s, p),
             \A r \in NalStarts(s) : r >= NalEnd(s, p) => q <= r
      PROVE  /\ NextSpan(s, NalEnd(s, p)) = Span(s, q) /\ p < q
             /\ \A r \in NalStarts(s) : r <= p \/ q <= r
  BY <1>1, <1>2, <1>4
<1>5. QED
  <2>1. \/ /\ NextSpan(s, NalEnd(s, p)) = NoSpan
           /\ \A q \in NalStarts(s) : q < NalEnd(s, p)
        \/ \E q \in NalStarts(s) :
             /\ NextSpan(s, NalEnd(s, p)) = Span(s, q) /\ q >= NalEnd(s, p)
             /\ \A r \in NalStarts(s) : r >= NalEnd(s, p) => q <= r
    BY <1>1, NextSpanIs
  <2>2. QED
    BY <1>3, <1>4, <2>1

(* The same from the side of the piece: its j-th NAL unit is one that       *)
(* begins in it.                                                            *)
LEMMA NalsInPart ==
  ASSUME NEW s \in NalUnit, NEW a \in Nat, Opens(s, a), NEW b \in a .. Len(s),
         b = Len(s) \/ Opens(s, b + 1)
  PROVE  LET S == NalStarts(s)
             before == UpToIn(S, a - 1)
             nals == NalUnits(SubSeq(s, a, b))
         IN /\ \A j \in 1 .. Len(nals) :
                 \E r \in S : /\ r \in a .. b /\ nals[j] = NalAt(s, r)
                              /\ UpToIn(S, r) = before + j
            /\ \A r \in S : r \in a .. b =>
                 \E j \in 1 .. Len(nals) :
                   nals[j] = NalAt(s, r) /\ UpToIn(S, r) = before + j
<1> DEFINE S == NalStarts(s)
           before == UpToIn(S, a - 1)
           nals == NalUnits(SubSeq(s, a, b))
           N == NalUnits(s)
<1>1. /\ before \in Nat /\ nals \in Seq(NalUnit)
      /\ UpToIn(S, b) = before + Len(nals)
      /\ \A k \in 1 .. Len(nals) :
           before + k \in 1 .. Len(N) /\ nals[k] = N[before + k]
      /\ \A p \in S : p \in a .. b => UpToIn(S, p) - before \in 1 .. Len(nals)
  BY UnitsOfPart
<1>2. /\ \A p \in S : N[UpToIn(S, p)] = NalAt(s, p)
      /\ \A k \in 1 .. Len(N) :
           Nth(S, k) \in S /\ UpToIn(S, Nth(S, k)) = k /\ N[k] = NalAt(s, Nth(S, k))
  BY UnitsAre
<1>3. S \in SUBSET (1 .. Len(s)) /\ Len(s) \in Nat /\ b \in Nat /\ a - 1 \in Int
  BY StartsAre, BytesOf
<1>4. Len(nals) \in Nat
  BY <1>1, LenProperties
<1> HIDE DEF S, before, nals, N
<1>5. ASSUME NEW j \in 1 .. Len(nals)
      PROVE  \E r \in S : /\ r \in a .. b /\ nals[j] = NalAt(s, r)
                          /\ UpToIn(S, r) = before + j
  <2>1. PICK r \in S : UpToIn(S, r) = before + j /\ N[before + j] = NalAt(s, r)
    BY <1>1, <1>2
  <2>2. r \in Int /\ UpToIn(S, r) \in Nat
    BY <1>1, <1>3, <2>1
  <2>3. r > a - 1
    <3>1. ~ r <= a - 1
      <4>1. r <= a - 1 => UpToIn(S, r) <= UpToIn(S, a - 1)
        BY <1>3, <2>2, RankGrows
      <4>2. ~ UpToIn(S, r) <= before
        BY <1>1, <2>1
      <4>3. QED
        BY <4>1, <4>2 DEF before
    <3>2. QED
      BY <1>3, <2>2, <3>1
  <2>4. r <= b
    <3>1. b < r => UpToIn(S, b) < UpToIn(S, r)
      <4>1. \A k \in Int, q \in S : k < q => UpToIn(S, k) < UpToIn(S, q)
        BY <1>3, RankGrows
      <4>2. QED
        BY <1>3, <4>1
    <3>2. ~ UpToIn(S, b) < UpToIn(S, r)
      BY <1>1, <1>4, <2>1
    <3>3. QED
      BY <1>3, <2>2, <3>1, <3>2
  <2>5. r \in a .. b
    BY <1>3, <2>2, <2>3, <2>4
  <2>6. QED
    BY <1>1, <2>1, <2>5
<1>6. ASSUME NEW r \in S, r \in a .. b
      PROVE  \E j \in 1 .. Len(nals) :
               nals[j] = NalAt(s, r) /\ UpToIn(S, r) = before + j
  <2>1. UpToIn(S, r) - before \in 1 .. Len(nals)
    BY <1>1, <1>6
  <2>2. UpToIn(S, r) \in Int
    <3>1. r \in Int
      BY <1>3
    <3>2. \A k \in Int : UpToIn(S, k) \in Nat
      BY <1>3, RankIs
    <3>3. QED
      BY <3>1, <3>2
  <2>3. before + (UpToIn(S, r) - before) = UpToIn(S, r)
    BY <1>1, <2>2
  <2>4. nals[UpToIn(S, r) - before] = NalAt(s, r)
    BY <1>1, <1>2, <2>1, <2>3
  <2>5. QED
    BY <2>1, <2>3, <2>4
<1>7. QED
  BY <1>5, <1>6 DEF S, before, nals

------------------------------------------------------------------------------
(* H.264: the splitter, as a matter of the stream `s`, the splitter `i`,    *)
(* the units `us` and the NAL units `g` given.                              *)

Iter ==
  [span : [start_code : Nat, nal_start : Nat, nal_end : Nat],
   au_start : Nat, au_has_vcl : BOOLEAN, boundary_candidate : Nat,
   done : BOOLEAN]

NextAt(s, i) == IF i.span = NoSpan THEN Len(s) + 1 ELSE i.span.nal_start
To(s, i) == IF i.done THEN Len(s) ELSE i.au_start - 1

Placed(s, i, us, g) ==
  /\ i.span = NoSpan \/ \E p \in NalStarts(s) : i.span = Span(s, p)
  /\ i.done => i.span = NoSpan
  /\ IF i.au_start = NoPosition
     THEN us = << >> /\ \A p \in NalStarts(s) : p >= NextAt(s, i)
     ELSE \E p \in NalStarts(s) :
            p < NextAt(s, i) /\ i.au_start = StartCode(s, p)
  /\ us # << >> => us[Len(us)].to = To(s, i)
  /\ g = SubSeq(NalUnits(s), 1, UpToIn(NalStarts(s), To(s, i)))

PassedIn(s, i) == {p \in NalStarts(s) : i.au_start <= p /\ p < NextAt(s, i)}
SlicesIn(s, i) == {p \in PassedIn(s, i) : IsVcl(NalAt(s, p))}

LastVcl(s, u) ==
  LET nals == NalUnits(SubSeq(s, u.from, u.to)) IN IsVcl(nals[Len(nals)])

Remembers(s, i, us) ==
  /\ i.au_has_vcl = (SlicesIn(s, i) # {})
  /\ \A p \in PassedIn(s, i), v \in SlicesIn(s, i) :
       IsFirstSlice(NalAt(s, p)) => p <= v
  /\ us # << >> /\ ~ i.done =>
       /\ \E p \in PassedIn(s, i) : IsFirstSlice(NalAt(s, p))
       /\ LastVcl(s, us[Len(us)])
  /\ IF i.boundary_candidate = NoPosition
     THEN SlicesIn(s, i) # {} =>
            \E v \in SlicesIn(s, i) : \A p \in PassedIn(s, i) : p <= v
     ELSE \E c \in PassedIn(s, i), v \in SlicesIn(s, i) :
            /\ i.boundary_candidate = StartCode(s, c)
            /\ \A p \in PassedIn(s, i) : p <= v \/ p >= c
            /\ \A p \in SlicesIn(s, i) : p < c

Joins(s, us) ==
  /\ \A k \in 1 .. Len(us) : NalUnits(SubSeq(s, us[k].from, us[k].to)) # << >>
  /\ \A k \in 2 .. Len(us) : us[k].from = us[k - 1].to + 1

OnePicture(s, u) ==
  LET nals == NalUnits(SubSeq(s, u.from, u.to))
  IN \A j, k \in DOMAIN nals : IsFirstSlice(nals[j]) /\ IsVcl(nals[k]) => j <= k

HasFirst(s, u) ==
  LET nals == NalUnits(SubSeq(s, u.from, u.to))
  IN \E j \in DOMAIN nals : IsFirstSlice(nals[j])

OneEach(s, us) ==
  \A k \in 1 .. Len(us) :
    /\ OnePicture(s, us[k])
    /\ k > 1 => HasFirst(s, us[k])
    /\ k < Len(us) => LastVcl(s, us[k])

UnitIn(s) == [from : 1 .. Len(s), to : 1 .. Len(s)]

(* A start code lies between the NAL units before it and the one after.     *)
LEMMA CodeBetween ==
  ASSUME NEW s \in NalUnit, NEW c \in NalStarts(s), NEW r \in NalStarts(s)
  PROVE  /\ StartCode(s, c) \in Nat \ {0} /\ c \in Nat /\ r \in Nat
         /\ StartCode(s, c) < c
         /\ r < StartCode(s, c) <=> r < c
         /\ StartCode(s, c) <= r <=> c <= r
<1>1. StartCode(s, c) \in 1 .. c - 3 /\ c \in Nat /\ r \in Nat
  BY StartCodeIs, SpanIs
<1>2. r < c => r < StartCode(s, c)
  BY StartsApart
<1>3. QED
  BY <1>1, <1>2

(* What a turn of the splitter's loop meets, and passes.                    *)
LEMMA TurnIs ==
  ASSUME NEW s \in NalUnit, NEW i \in Iter, NEW us, NEW g, Placed(s, i, us, g),
         i.span # NoSpan,
         NEW j, j.span = NextSpan(s, i.span.nal_end)
  PROVE  \E p \in NalStarts(s) :
           /\ i.span = Span(s, p) /\ NextAt(s, i) = p
           /\ Nal(s, i.span) = NalAt(s, p)
           /\ i.span.start_code = StartCode(s, p)
           /\ j.span = NoSpan \/ \E q \in NalStarts(s) : j.span = Span(s, q)
           /\ j.span \in [start_code : Nat, nal_start : Nat, nal_end : Nat]
           /\ \A r \in NalStarts(s) : r < NextAt(s, j) <=> r <= p
<1>1. PICK p \in NalStarts(s) : i.span = Span(s, p)
  BY DEF Placed
<1>2. /\ NextAt(s, i) = p /\ Nal(s, i.span) = NalAt(s, p) /\ p \in Nat
      /\ i.span.start_code = StartCode(s, p) /\ i.span.nal_end = NalEnd(s, p)
  BY <1>1, SpanIs DEF NextAt
<1>3. \A r \in NalStarts(s) : r \in Nat /\ r <= Len(s)
  BY SpanIs
<1>4. Len(s) \in Nat
  BY BytesOf
<1>5. CASE j.span = NoSpan /\ \A q \in NalStarts(s) : q <= p
  <2>1. NextAt(s, j) = Len(s) + 1
    BY <1>5 DEF NextAt
  <2>2. \A r \in NalStarts(s) : r < NextAt(s, j) <=> r <= p
    BY <1>3, <1>4, <1>5, <2>1
  <2>3. j.span \in [start_code : Nat, nal_start : Nat, nal_end : Nat]
    BY <1>5 DEF NoSpan
  <2>4. QED
    BY <1>1, <1>2, <1>5, <2>2, <2>3
<1>6. ASSUME NEW q \in NalStarts(s), j.span = Span(s, q), p < q,
             \A r \in NalStarts(s) : r <= p \/ q <= r
      PROVE  /\ j.span \in [start_code : Nat, nal_start : Nat, nal_end : Nat]
             /\ \A r \in NalStarts(s) : r < NextAt(s, j) <=> r <= p
  <2>1. NextAt(s, j) = q /\ q \in Nat
    BY <1>6, SpanIs DEF NextAt
  <2>2. \A r \in NalStarts(s) : r < NextAt(s, j) <=> r <= p
    BY <1>2, <1>3, <1>6, <2>1
  <2>3. QED
    BY <1>6, <2>2, SpanIs
<1>7. \/ j.span = NoSpan /\ \A q \in NalStarts(s) : q <= p
      \/ \E q \in NalStarts(s) :
           /\ j.span = Span(s, q) /\ p < q
           /\ \A r \in NalStarts(s) : r <= p \/ q <= r
  BY <1>2, SpanAfter
<1>8. QED
  BY <1>1, <1>2, <1>5, <1>6, <1>7

LEMMA PassIter ==
  ASSUME NEW s \in NalUnit, NEW i \in Iter, NEW us, NEW g, Placed(s, i, us, g),
         i.span # NoSpan
  PROVE  /\ Pass(s, i) \in Iter
         /\ EndsUnit(s, i) => Cut(s, i) \in Iter
<1>1. PICK p \in NalStarts(s) :
        /\ i.span.start_code = StartCode(s, p)
        /\ NextSpan(s, i.span.nal_end)
             \in [start_code : Nat, nal_start : Nat, nal_end : Nat]
  <2> DEFINE j == [span |-> NextSpan(s, i.span.nal_end)]
  <2>1. j.span = NextSpan(s, i.span.nal_end)
    OBVIOUS
  <2> HIDE DEF j
  <2>2. QED
    BY <2>1, TurnIs
<1>2. StartCode(s, p) \in Nat
  BY CodeBetween
<1>3. /\ i.au_start \in Nat /\ i.au_has_vcl \in BOOLEAN
      /\ i.boundary_candidate \in Nat
  BY DEF Iter
<1>4. Start(i) \in Nat /\ Boundary(i) \in Nat
  BY <1>1, <1>2, <1>3 DEF Start, Boundary
<1>5. IsVcl(Nal(s, i.span)) \in BOOLEAN
  BY DEF IsVcl
<1>6. NoPosition \in Nat
  BY DEF NoPosition
<1>7. Pass(s, i).au_has_vcl \in BOOLEAN /\ Pass(s, i).boundary_candidate \in Nat
  BY <1>3, <1>4, <1>5, <1>6 DEF Pass
<1>8. Pass(s, i) \in Iter
  <2>1. /\ Pass(s, i) = [span |-> Pass(s, i).span, au_start |-> Pass(s, i).au_start,
                         au_has_vcl |-> Pass(s, i).au_has_vcl,
                         boundary_candidate |-> Pass(s, i).boundary_candidate,
                         done |-> Pass(s, i).done]
        /\ Pass(s, i).span = NextSpan(s, i.span.nal_end)
        /\ Pass(s, i).au_start = Start(i) /\ Pass(s, i).done = FALSE
    BY DEF Pass
  <2>2. QED
    BY <1>1, <1>4, <1>7, <2>1 DEF Iter
<1>9. Cut(s, i) \in Iter
  BY <1>1, <1>4, <1>6 DEF Cut, Iter
<1>10. QED
  BY <1>8, <1>9

(* Before the first NAL unit of a unit is passed, none is.                  *)
LEMMA NonePassed ==
  ASSUME NEW s \in NalUnit, NEW i \in Iter, NEW us, NEW g, Placed(s, i, us, g),
         i.au_start = NoPosition
  PROVE  PassedIn(s, i) = {} /\ SlicesIn(s, i) = {}
<1>1. \A p \in NalStarts(s) : p >= NextAt(s, i)
  BY DEF Placed
<1>2. NextAt(s, i) \in Nat
  <2>1. Len(s) \in Nat
    BY BytesOf
  <2>2. i.span.nal_start \in Nat
    BY DEF Iter
  <2>3. QED
    BY <2>1, <2>2 DEF NextAt
<1>3. \A p \in NalStarts(s) : ~ p < NextAt(s, i)
  BY <1>1, <1>2, SpanIs
<1>4. QED
  BY <1>3 DEF PassedIn, SlicesIn

(* One NAL unit more passed.                                                *)
LEMMA PassedGrows ==
  ASSUME NEW s \in NalUnit, NEW i \in Iter, NEW us, NEW g, Placed(s, i, us, g),
         NEW p \in NalStarts(s), NextAt(s, i) = p,
         i.span.start_code = StartCode(s, p),
         NEW j, j.au_start = Start(i),
         \A r \in NalStarts(s) : r < NextAt(s, j) <=> r <= p
  PROVE  /\ PassedIn(s, j) = PassedIn(s, i) \cup {p}
         /\ \A r \in PassedIn(s, i) : r < p
         /\ \E q \in NalStarts(s) : q <= p /\ Start(i) = StartCode(s, q)
         /\ i.au_start # NoPosition => Start(i) = i.au_start
<1>1. p \in Nat /\ \A r \in NalStarts(s) : r \in Nat
  BY SpanIs
<1>2. \A r \in PassedIn(s, i) : r < p
  BY DEF PassedIn
<1>3. CASE i.au_start = NoPosition
  <2>1. Start(i) = StartCode(s, p) /\ PassedIn(s, i) = {}
    BY <1>3, NonePassed DEF Start
  <2>2. \A r \in NalStarts(s) : r >= p
    BY <1>3 DEF Placed
  <2>3. \A r \in NalStarts(s) : Start(i) <= r /\ r < NextAt(s, j) <=> r = p
    BY <1>1, <2>1, <2>2, CodeBetween
  <2>4. PassedIn(s, j) = {p}
    BY <2>3 DEF PassedIn
  <2>5. QED
    BY <1>1, <1>2, <1>3, <2>1, <2>4
<1>4. CASE i.au_start # NoPosition
  <2>1. PICK q \in NalStarts(s) : q < p /\ i.au_start = StartCode(s, q)
    BY <1>4 DEF Placed
  <2>2. Start(i) = i.au_start /\ i.au_start <= p
    <3>1. StartCode(s, q) <= p <=> q <= p
      BY CodeBetween
    <3>2. q <= p
      <4>1. q \in Nat /\ p \in Nat /\ q < p
        BY <1>1, <2>1
      <4>2. QED
        BY <4>1
    <3>3. QED
      BY <1>4, <2>1, <3>1, <3>2 DEF Start
  <2>3. \A r \in NalStarts(s) :
          i.au_start <= r /\ r < NextAt(s, j) <=> (i.au_start <= r /\ r < p) \/ r = p
    BY <1>1, <2>2
  <2>4. PassedIn(s, j) = PassedIn(s, i) \cup {p}
    BY <2>2, <2>3 DEF PassedIn
  <2>5. q <= p
    BY <1>1, <2>1
  <2>6. QED
    BY <1>2, <2>1, <2>2, <2>4, <2>5
<1>5. QED
  BY <1>3, <1>4

LEMMA PassPlaced ==
  ASSUME NEW s \in NalUnit, NEW i \in Iter, NEW us, NEW g, Placed(s, i, us, g),
         i.span # NoSpan
  PROVE  Placed(s, Pass(s, i), us, g)
<1> DEFINE j == Pass(s, i)
           S == NalStarts(s)
<1>1. /\ j.span = NextSpan(s, i.span.nal_end) /\ j.done = FALSE
      /\ j.au_start = Start(i)
  BY DEF Pass
<1> HIDE DEF j
<1>2. PICK p \in S :
        /\ NextAt(s, i) = p /\ i.span.start_code = StartCode(s, p)
        /\ j.span = NoSpan \/ \E q \in S : j.span = Span(s, q)
        /\ \A r \in S : r < NextAt(s, j) <=> r <= p
  BY <1>1, TurnIs
<1>3. PICK q \in S : q <= p /\ Start(i) = StartCode(s, q)
  BY <1>1, <1>2, PassedGrows
<1>4. i.done = FALSE /\ Start(i) # NoPosition
  BY <1>3, CodeBetween DEF Placed, Iter, NoPosition
<1>5. q < NextAt(s, j)
  BY <1>2, <1>3
<1>6. CASE i.au_start # NoPosition
  <2>1. To(s, j) = To(s, i)
    BY <1>1, <1>4, <1>6 DEF To, Start
  <2>2. QED
    BY <1>1, <1>2, <1>3, <1>4, <1>5, <2>1 DEF Placed, j
<1>7. CASE i.au_start = NoPosition
  <2>1. us = << >> /\ \A r \in S : r >= p
    BY <1>2, <1>7 DEF Placed
  <2>2. UpToIn(S, To(s, i)) = 0 /\ UpToIn(S, To(s, j)) = 0
    <3>1. S \in SUBSET (1 .. Len(s)) /\ Len(s) \in Nat
      BY StartsAre, BytesOf
    <3>2. To(s, i) = -1 /\ To(s, j) = StartCode(s, p) - 1
      BY <1>1, <1>2, <1>4, <1>7 DEF To, Start, NoPosition
    <3>3. \A r \in S : ~ r <= To(s, j) /\ ~ r <= To(s, i)
      <4>1. \A r \in S : r \in Nat /\ StartCode(s, p) <= r /\ StartCode(s, p) \in Nat
        BY <2>1, CodeBetween
      <4>2. QED
        BY <3>2, <4>1
    <3>4. {r \in S : r <= To(s, j)} = {} /\ {r \in S : r <= To(s, i)} = {}
      BY <3>3
    <3>5. QED
      BY <3>4, FS_EmptySet DEF UpToIn
  <2>3. QED
    BY <1>1, <1>2, <1>3, <1>4, <1>5, <2>1, <2>2 DEF Placed, j
<1>8. QED
  BY <1>6, <1>7

LEMMA PassRemembers ==
  ASSUME NEW s \in NalUnit, NEW i \in Iter, NEW us, NEW g, Placed(s, i, us, g),
         i.span # NoSpan, Remembers(s, i, us), ~ EndsUnit(s, i)
  PROVE  Remembers(s, Pass(s, i), us)
<1> DEFINE j == Pass(s, i)
           S == NalStarts(s)
           vcl == IsVcl(Nal(s, i.span))
<1>1. /\ j.span = NextSpan(s, i.span.nal_end) /\ j.done = FALSE
      /\ j.au_start = Start(i) /\ j.au_has_vcl = (i.au_has_vcl \/ vcl)
      /\ j.boundary_candidate =
           IF vcl THEN NoPosition
           ELSE IF i.au_has_vcl THEN Boundary(i) ELSE i.boundary_candidate
  BY DEF Pass
<1> HIDE DEF j
<1>2. PICK p \in S :
        /\ NextAt(s, i) = p /\ i.span.start_code = StartCode(s, p)
        /\ Nal(s, i.span) = NalAt(s, p)
        /\ \A r \in S : r < NextAt(s, j) <=> r <= p
  BY <1>1, TurnIs
<1> DEFINE A == PassedIn(s, i)
           V == SlicesIn(s, i)
<1>3. /\ PassedIn(s, j) = A \cup {p} /\ \A r \in A : r < p
  BY <1>1, <1>2, PassedGrows
<1>4. vcl <=> IsVcl(NalAt(s, p))
  BY <1>2
<1>5. /\ V \subseteq A /\ p \in Nat /\ \A r \in A : r \in Nat
      /\ \A v \in V : IsVcl(NalAt(s, v))
      /\ SlicesIn(s, j) = IF vcl THEN V \cup {p} ELSE V
  <2>1. A \subseteq S
    BY DEF PassedIn
  <2>2. SlicesIn(s, j) = {r \in A \cup {p} : IsVcl(NalAt(s, r))}
    BY <1>3 DEF SlicesIn
  <2>3. QED
    BY <1>4, <2>1, <2>2, SpanIs DEF SlicesIn
<1>6. /\ i.au_has_vcl = (V # {}) /\ i.done = FALSE
      /\ \A r \in A, v \in V : IsFirstSlice(NalAt(s, r)) => r <= v
      /\ us # << >> => /\ \E r \in A : IsFirstSlice(NalAt(s, r))
                       /\ LastVcl(s, us[Len(us)])
      /\ i.boundary_candidate = NoPosition =>
           (V # {} => \E v \in V : \A r \in A : r <= v)
      /\ i.boundary_candidate # NoPosition =>
           \E c \in A, v \in V : /\ i.boundary_candidate = StartCode(s, c)
                                 /\ \A r \in A : r <= v \/ r >= c
                                 /\ \A r \in V : r < c
  BY DEF Remembers, Placed, Iter
<1>7. IsFirstSlice(NalAt(s, p)) => V = {}
  BY <1>2, <1>6 DEF EndsUnit
<1> HIDE DEF A, V, vcl
<1>8. IsFirstSlice(NalAt(s, p)) => vcl
  BY <1>4 DEF IsFirstSlice
<1>9. ASSUME vcl PROVE Remembers(s, j, us)
  <2>1. j.boundary_candidate = NoPosition /\ j.au_has_vcl /\ SlicesIn(s, j) = V \cup {p}
    BY <1>1, <1>5, <1>9
  <2>2. \A r \in A \cup {p}, v \in V \cup {p} : IsFirstSlice(NalAt(s, r)) => r <= v
    BY <1>3, <1>5, <1>6, <1>7
  <2>3. \A r \in A \cup {p} : r <= p
    BY <1>3, <1>5
  <2>4. p \in SlicesIn(s, j)
    BY <2>1
  <2>5. j.au_has_vcl = (SlicesIn(s, j) # {})
    BY <1>1, <1>9, <2>4
  <2>6. QED
    BY <1>3, <1>6, <2>1, <2>2, <2>3, <2>4, <2>5 DEF Remembers
<1>10. ASSUME ~ vcl PROVE Remembers(s, j, us)
  <2>1. SlicesIn(s, j) = V /\ j.au_has_vcl = (V # {})
    BY <1>1, <1>5, <1>6, <1>10
  <2>2. \A r \in A \cup {p}, v \in V : IsFirstSlice(NalAt(s, r)) => r <= v
    BY <1>6, <1>8, <1>10
  <2>3. us # << >> => /\ \E r \in A \cup {p} : IsFirstSlice(NalAt(s, r))
                      /\ LastVcl(s, us[Len(us)])
    BY <1>6
  <2>4. CASE V = {}
    <3>1. j.boundary_candidate = NoPosition
      <4>1. i.boundary_candidate = NoPosition
        BY <1>6, <2>4
      <4>2. QED
        BY <1>1, <1>6, <1>10, <2>4, <4>1
    <3>2. QED
      BY <1>3, <2>1, <2>2, <2>3, <2>4, <3>1 DEF Remembers
  <2>5. CASE V # {}
    <3>1. j.boundary_candidate = Boundary(i)
      BY <1>1, <1>6, <1>10, <2>5
    <3>2. \E c \in A \cup {p}, v \in V :
            /\ Boundary(i) = StartCode(s, c)
            /\ \A r \in A \cup {p} : r <= v \/ r >= c
            /\ \A r \in V : r < c
      <4>1. CASE i.boundary_candidate = NoPosition
        <5>1. PICK v \in V : \A r \in A : r <= v
          BY <1>6, <2>5, <4>1
        <5>2. Boundary(i) = StartCode(s, p)
          BY <1>2, <4>1 DEF Boundary
        <5>3. \A r \in V : r < p
          BY <1>3, <1>5
        <5>4. \A r \in A \cup {p} : r <= v \/ r >= p
          BY <1>3, <1>5, <5>1
        <5>5. QED
          BY <5>2, <5>3, <5>4
      <4>2. CASE i.boundary_candidate # NoPosition
        <5>1. PICK c \in A, v \in V :
                /\ i.boundary_candidate = StartCode(s, c)
                /\ \A r \in A : r <= v \/ r >= c
                /\ \A r \in V : r < c
          BY <1>6, <4>2
        <5>2. Boundary(i) = StartCode(s, c)
          BY <4>2, <5>1 DEF Boundary
        <5>3. p >= c
          BY <1>3, <1>5
        <5>4. QED
          BY <5>1, <5>2, <5>3
      <4>3. QED
        BY <4>1, <4>2
    <3>3. Boundary(i) # NoPosition
      <4>1. \A c \in A \cup {p} : StartCode(s, c) # NoPosition
        BY CodeBetween DEF NoPosition, A, PassedIn
      <4>2. QED
        BY <3>2, <4>1
    <3>4. QED
      BY <1>3, <2>1, <2>2, <2>3, <3>1, <3>2, <3>3 DEF Remembers
  <2>6. QED
    BY <2>4, <2>5
<1>11. QED
  BY <1>9, <1>10 DEF j

(* What is given with one piece more is what the stream has up to its end.  *)
LEMMA GivenGrows ==
  ASSUME NEW s \in NalUnit, NEW a \in Nat, Opens(s, a), NEW b \in a .. Len(s),
         b = Len(s) \/ Opens(s, b + 1), NEW g,
         g = SubSeq(NalUnits(s), 1, UpToIn(NalStarts(s), a - 1))
  PROVE  g \o NalUnits(SubSeq(s, a, b))
           = SubSeq(NalUnits(s), 1, UpToIn(NalStarts(s), b))
<1> DEFINE S == NalStarts(s)
           n == UpToIn(S, a - 1)
           m == UpToIn(S, b)
           N == NalUnits(s)
           nals == NalUnits(SubSeq(s, a, b))
<1>1. /\ n \in Nat /\ nals \in Seq(NalUnit) /\ m = n + Len(nals)
      /\ \A k \in 1 .. Len(nals) : n + k \in 1 .. Len(N) /\ nals[k] = N[n + k]
  BY UnitsOfPart
<1>2. N \in Seq(NalUnit) /\ Len(N) = Cardinality(S)
  BY UnitsAre
<1>3. m <= Len(N) /\ Len(N) \in Nat /\ Len(nals) \in Nat
  <2>1. S \in SUBSET (1 .. Len(s)) /\ Len(s) \in Nat
    BY StartsAre, BytesOf
  <2>2. b \in Int
    BY <2>1
  <2> HIDE DEF S, N, nals
  <2>3. UpToIn(S, b) <= Cardinality(S)
    BY <2>1, <2>2, RankIs
  <2>4. QED
    BY <1>1, <1>2, <2>3, LenProperties
<1> HIDE DEF S, n, m, N, nals
<1>4. \A k \in 1 .. m : N[k] \in NalUnit
  <2>1. \A k \in 1 .. m : k \in 1 .. Len(N)
    BY <1>1, <1>3
  <2>2. QED
    BY <1>2, <2>1, ElementOfSeq
<1>5. \A k \in 1 .. n : N[k] \in NalUnit
  <2>1. \A k \in 1 .. n : k \in 1 .. m
    BY <1>1, <1>3
  <2>2. QED
    BY <1>4, <2>1
<1>6. /\ SubSeq(N, 1, n) \in Seq(NalUnit) /\ Len(SubSeq(N, 1, n)) = n
      /\ \A k \in 1 .. n : SubSeq(N, 1, n)[k] = N[k]
  <2>1. /\ SubSeq(N, 1, n) \in Seq(NalUnit)
        /\ Len(SubSeq(N, 1, n)) = IF 1 <= n THEN n - 1 + 1 ELSE 0
        /\ \A k \in 1 .. n - 1 + 1 : SubSeq(N, 1, n)[k] = N[1 + k - 1]
    BY <1>1, <1>5, SubSeqProperties
  <2>2. \A k \in 1 .. n : 1 + k - 1 = k /\ k \in 1 .. n - 1 + 1
    BY <1>1
  <2>3. QED
    BY <1>1, <2>1, <2>2
<1>7. /\ SubSeq(N, 1, m) \in Seq(NalUnit) /\ Len(SubSeq(N, 1, m)) = m
      /\ \A k \in 1 .. m : SubSeq(N, 1, m)[k] = N[k]
  <2>1. m \in Nat
    BY <1>1, <1>3
  <2>2. /\ SubSeq(N, 1, m) \in Seq(NalUnit)
        /\ Len(SubSeq(N, 1, m)) = IF 1 <= m THEN m - 1 + 1 ELSE 0
        /\ \A k \in 1 .. m - 1 + 1 : SubSeq(N, 1, m)[k] = N[1 + k - 1]
    BY <1>4, <2>1, SubSeqProperties
  <2>3. \A k \in 1 .. m : 1 + k - 1 = k /\ k \in 1 .. m - 1 + 1
    BY <2>1
  <2>4. QED
    BY <2>1, <2>2, <2>3
<1> DEFINE h == SubSeq(N, 1, n)
           w == SubSeq(N, 1, m)
<1> HIDE DEF h, w
<1>8. /\ h \o nals \in Seq(NalUnit) /\ Len(h \o nals) = Len(h) + Len(nals)
      /\ \A k \in 1 .. Len(h) + Len(nals) :
           (h \o nals)[k] = IF k <= Len(h) THEN h[k] ELSE nals[k - Len(h)]
  BY <1>1, <1>6, ConcatProperties DEF h
<1>9. Len(h \o nals) = Len(w)
  BY <1>1, <1>6, <1>7, <1>8 DEF h, w
<1>10. \A k \in 1 .. Len(h \o nals) : (h \o nals)[k] = w[k]
  <2> TAKE k \in 1 .. Len(h \o nals)
  <2>1. k \in 1 .. m /\ w[k] = N[k] /\ Len(h) = n /\ k \in 1 .. Len(h) + Len(nals)
    BY <1>1, <1>6, <1>7, <1>8 DEF h, w
  <2>2. CASE k <= n
    <3>1. k \in 1 .. n
      BY <1>1, <2>1, <2>2
    <3>2. (h \o nals)[k] = h[k]
      BY <1>8, <2>1, <2>2
    <3>3. h[k] = N[k]
      BY <1>6, <3>1 DEF h
    <3>4. QED
      BY <2>1, <3>2, <3>3
  <2>3. CASE ~ k <= n
    <3>1. k - n \in 1 .. Len(nals) /\ n + (k - n) = k
      BY <1>1, <1>3, <2>1, <2>3
    <3>2. (h \o nals)[k] = nals[k - n]
      BY <1>8, <2>1, <2>3
    <3>3. QED
      BY <1>1, <2>1, <3>1, <3>2
  <2>4. QED
    BY <2>2, <2>3
<1>11. h \o nals = w
  BY <1>7, <1>8, <1>9, <1>10, SeqEqual DEF w
<1>12. QED
  BY <1>11 DEF h, w, n, m, N, S, nals

(* Where a unit is cut: after its last slice, before what follows that.     *)
LEMMA CutAt ==
  ASSUME NEW s \in NalUnit, NEW i \in Iter, NEW us, NEW g, Placed(s, i, us, g),
         i.span # NoSpan, Remembers(s, i, us), EndsUnit(s, i)
  PROVE  \E p \in NalStarts(s), c \in NalStarts(s), v \in SlicesIn(s, i) :
           /\ i.span = Span(s, p) /\ NextAt(s, i) = p
           /\ IsFirstSlice(NalAt(s, p)) /\ v < c /\ c <= p
           /\ Boundary(i) = StartCode(s, c)
           /\ \A r \in PassedIn(s, i) : r <= v \/ r >= c
           /\ \A r \in SlicesIn(s, i) : r < c
<1>1. PICK p \in NalStarts(s) :
        /\ i.span = Span(s, p) /\ NextAt(s, i) = p
        /\ Nal(s, i.span) = NalAt(s, p) /\ i.span.start_code = StartCode(s, p)
  <2> DEFINE j == [span |-> NextSpan(s, i.span.nal_end)]
  <2>1. j.span = NextSpan(s, i.span.nal_end)
    OBVIOUS
  <2> HIDE DEF j
  <2>2. QED
    BY <2>1, TurnIs
<1>2. IsFirstSlice(NalAt(s, p)) /\ i.au_has_vcl
  BY <1>1 DEF EndsUnit
<1>3. SlicesIn(s, i) # {}
  BY <1>2 DEF Remembers
<1>4. /\ p \in Nat /\ SlicesIn(s, i) \subseteq PassedIn(s, i)
      /\ PassedIn(s, i) \subseteq NalStarts(s)
      /\ \A r \in PassedIn(s, i) : r \in Nat /\ r < p
  BY <1>1, SpanIs DEF PassedIn, SlicesIn
<1>5. CASE i.boundary_candidate = NoPosition
  <2>1. PICK v \in SlicesIn(s, i) : \A r \in PassedIn(s, i) : r <= v
    BY <1>3, <1>5 DEF Remembers
  <2>2. Boundary(i) = StartCode(s, p)
    BY <1>1, <1>5 DEF Boundary
  <2>3. v < p /\ p <= p /\ \A r \in SlicesIn(s, i) : r < p
    BY <1>4
  <2>4. QED
    BY <1>1, <1>2, <2>1, <2>2, <2>3
<1>6. CASE i.boundary_candidate # NoPosition
  <2>1. PICK c \in PassedIn(s, i), v \in SlicesIn(s, i) :
          /\ i.boundary_candidate = StartCode(s, c)
          /\ \A r \in PassedIn(s, i) : r <= v \/ r >= c
          /\ \A r \in SlicesIn(s, i) : r < c
    BY <1>6 DEF Remembers
  <2>2. Boundary(i) = StartCode(s, c)
    BY <1>6, <2>1 DEF Boundary
  <2>3. c \in NalStarts(s) /\ c <= p /\ v < c
    BY <1>4, <2>1
  <2>4. QED
    BY <1>1, <1>2, <2>1, <2>2, <2>3
<1>7. QED
  BY <1>5, <1>6

(* The unit that the cut gives.                                             *)
LEMMA CutUnit ==
  ASSUME NEW s \in NalUnit, NEW i \in Iter, NEW us, NEW g, Placed(s, i, us, g),
         NEW c \in NalStarts(s), NEW v \in SlicesIn(s, i), v < c,
         c <= NextAt(s, i),
         \A r \in PassedIn(s, i) : r <= v \/ r >= c
  PROVE  LET a == i.au_start
             b == StartCode(s, c) - 1
         IN /\ a # NoPosition /\ Start(i) = a /\ a \in 1 .. Len(s) /\ Opens(s, a)
            /\ b \in a .. Len(s) /\ Opens(s, b + 1)
            /\ v \in NalStarts(s) /\ v \in a .. b
            /\ \A r \in NalStarts(s) : r \in a .. b <=> r \in PassedIn(s, i) /\ r <= v
            /\ ~ i.done => To(s, i) = a - 1
<1> DEFINE a == i.au_start
           b == StartCode(s, c) - 1
<1>1. a # NoPosition
  BY NonePassed
<1>2. PICK q \in NalStarts(s) : a = StartCode(s, q)
  BY <1>1 DEF Placed
<1>3. Opens(s, a) /\ Start(i) = a /\ (~ i.done => To(s, i) = a - 1)
  BY <1>1, <1>2 DEF Opens, Start, To
<1>4. /\ v \in NalStarts(s) /\ v \in PassedIn(s, i) /\ a <= v
      /\ v \in Nat /\ v <= Len(s) /\ Len(s) \in Nat /\ c \in Nat /\ c <= Len(s)
  BY SpanIs, BytesOf DEF SlicesIn, PassedIn
<1>5. a \in Nat \ {0} /\ StartCode(s, c) \in Nat \ {0}
  BY <1>2, CodeBetween
<1>6. \A r \in NalStarts(s) : r \in Nat /\ (r < StartCode(s, c) <=> r < c)
  BY CodeBetween
<1>7. NextAt(s, i) \in Nat
  BY <1>4 DEF NextAt, Iter
<1>8. StartCode(s, c) < c
  BY CodeBetween
<1>9. b \in Nat /\ b + 1 = StartCode(s, c)
  BY <1>5
<1> HIDE DEF a, b
<1>10. v <= b /\ b <= Len(s)
  <2>1. v < StartCode(s, c)
    BY <1>4, <1>6
  <2>2. QED
    BY <1>4, <1>5, <1>8, <1>9, <2>1
<1>11. Opens(s, b + 1)
  BY <1>9 DEF Opens
<1>12. ASSUME NEW r \in NalStarts(s)
       PROVE  r \in a .. b <=> r \in PassedIn(s, i) /\ r <= v
  <2>1. r \in Nat /\ (r <= b <=> r < c)
    BY <1>6, <1>9
  <2>2. r \in PassedIn(s, i) <=> a <= r /\ r < NextAt(s, i)
    BY DEF PassedIn, a
  <2>3. r \in PassedIn(s, i) => r <= v \/ r >= c
    OBVIOUS
  <2>4. QED
    BY <1>4, <1>5, <1>7, <1>9, <2>1, <2>2, <2>3
<1>13. QED
  BY <1>1, <1>3, <1>4, <1>5, <1>9, <1>10, <1>11, <1>12 DEF a, b

(* A unit of the stream with a NAL unit that begins in it is not empty.     *)
LEMMA PartHolds ==
  ASSUME NEW s \in NalUnit, NEW a \in Nat, Opens(s, a), NEW b \in a .. Len(s),
         b = Len(s) \/ Opens(s, b + 1), NEW v \in NalStarts(s), v \in a .. b
  PROVE  NalUnits(SubSeq(s, a, b)) # << >>
<1>1. UpToIn(NalStarts(s), v) - UpToIn(NalStarts(s), a - 1)
        \in 1 .. Len(NalUnits(SubSeq(s, a, b)))
  BY UnitsOfPart
<1>2. NalUnits(SubSeq(s, a, b)) \in Seq(NalUnit)
  BY UnitsOfPart
<1>3. Len(NalUnits(SubSeq(s, a, b))) # 0
  BY <1>1, <1>2, LenProperties
<1>4. QED
  BY <1>3

(* A unit of the stream: what its slices are is told by where they lie.     *)
LEMMA PartPictures ==
  ASSUME NEW s \in NalUnit, NEW a \in Nat, Opens(s, a), NEW b \in a .. Len(s),
         b = Len(s) \/ Opens(s, b + 1),
         NEW u, u.from = a, u.to = b
  PROVE  /\ (\A p, v \in NalStarts(s) :
               p \in a .. b /\ v \in a .. b =>
                 (IsFirstSlice(NalAt(s, p)) /\ IsVcl(NalAt(s, v)) => p <= v))
              => OnePicture(s, u)
         /\ (\E p \in NalStarts(s) : p \in a .. b /\ IsFirstSlice(NalAt(s, p)))
              => HasFirst(s, u)
         /\ (\E v \in NalStarts(s) :
               /\ v \in a .. b /\ IsVcl(NalAt(s, v))
               /\ \A r \in NalStarts(s) : r \in a .. b => r <= v)
              => LastVcl(s, u)
<1> DEFINE S == NalStarts(s)
           n == UpToIn(S, a - 1)
           nals == NalUnits(SubSeq(s, a, b))
<1>1. /\ n \in Nat /\ nals \in Seq(NalUnit) /\ UpToIn(S, b) = n + Len(nals)
  BY UnitsOfPart
<1>2. /\ \A j \in 1 .. Len(nals) :
           \E r \in S : /\ r \in a .. b /\ nals[j] = NalAt(s, r)
                        /\ UpToIn(S, r) = n + j
      /\ \A r \in S : r \in a .. b =>
           \E j \in 1 .. Len(nals) :
             nals[j] = NalAt(s, r) /\ UpToIn(S, r) = n + j
  BY NalsInPart
<1>3. Len(nals) \in Nat /\ DOMAIN nals = 1 .. Len(nals)
  BY <1>1, LenProperties
<1>4. /\ \A r \in S, q \in S : r <= q => UpToIn(S, r) <= UpToIn(S, q)
      /\ \A r \in S : r \in Int /\ UpToIn(S, r) \in Nat
  <2>1. S \in SUBSET (1 .. Len(s)) /\ Len(s) \in Nat
    BY StartsAre, BytesOf
  <2>2. /\ \A r, q \in Int : r <= q => UpToIn(S, r) <= UpToIn(S, q)
        /\ \A r \in Int : UpToIn(S, r) \in Nat
    <3> HIDE DEF S
    <3> QED
      BY <2>1, RankGrows, RankIs
  <2>3. \A r \in S : r \in Int
    BY <2>1
  <2>4. QED
    BY <2>2, <2>3
<1> HIDE DEF S, n, nals
<1>5. ASSUME \A p, v \in S :
               p \in a .. b /\ v \in a .. b =>
                 (IsFirstSlice(NalAt(s, p)) /\ IsVcl(NalAt(s, v)) => p <= v)
      PROVE  OnePicture(s, u)
  <2>1. ASSUME NEW j \in 1 .. Len(nals), NEW k \in 1 .. Len(nals),
               IsFirstSlice(nals[j]), IsVcl(nals[k])
        PROVE  j <= k
    <3>1. PICK p \in S : p \in a .. b /\ nals[j] = NalAt(s, p) /\ UpToIn(S, p) = n + j
      BY <1>2
    <3>2. PICK v \in S : v \in a .. b /\ nals[k] = NalAt(s, v) /\ UpToIn(S, v) = n + k
      BY <1>2
    <3>3. p <= v
      BY <1>5, <2>1, <3>1, <3>2
    <3>4. n + j <= n + k
      BY <1>4, <3>1, <3>2, <3>3
    <3>5. QED
      BY <1>1, <3>4
  <2>2. QED
    BY <1>3, <2>1 DEF OnePicture, nals
<1>6. ASSUME NEW p \in S, p \in a .. b, IsFirstSlice(NalAt(s, p))
      PROVE  HasFirst(s, u)
  <2>1. \E j \in DOMAIN nals : IsFirstSlice(nals[j])
    BY <1>2, <1>3, <1>6
  <2>2. QED
    BY <2>1 DEF HasFirst, nals
<1>7. ASSUME NEW v \in S, v \in a .. b, IsVcl(NalAt(s, v)),
             \A r \in S : r \in a .. b => r <= v
      PROVE  LastVcl(s, u)
  <2>1. PICK j \in 1 .. Len(nals) : nals[j] = NalAt(s, v) /\ UpToIn(S, v) = n + j
    BY <1>2, <1>7
  <2>2. Len(nals) \in 1 .. Len(nals)
    BY <1>3, <2>1
  <2>3. PICK r \in S : r \in a .. b /\ UpToIn(S, r) = n + Len(nals)
    BY <1>2, <2>2
  <2>4. n + Len(nals) <= n + j
    BY <1>4, <1>7, <2>1, <2>3
  <2>5. j = Len(nals)
    <3>1. j \in Int /\ j <= Len(nals) /\ n \in Int /\ Len(nals) \in Int
      BY <1>1, <1>3
    <3>2. QED
      BY <2>4, <3>1
  <2>6. IsVcl(nals[Len(nals)])
    BY <1>7, <2>1, <2>5
  <2>7. QED
    BY <2>6 DEF LastVcl, nals
<1>8. QED
  BY <1>5, <1>6, <1>7 DEF S, nals

LEMMA UnitAppended ==
  ASSUME NEW s \in NalUnit, NEW us \in Seq(UnitIn(s)), NEW u \in UnitIn(s)
  PROVE  /\ Append(us, u) \in Seq(UnitIn(s)) /\ Append(us, u) # << >>
         /\ Len(us) \in Nat /\ Len(Append(us, u)) = Len(us) + 1
         /\ Append(us, u)[Len(Append(us, u))] = u
         /\ \A k \in 1 .. Len(us) : Append(us, u)[k] = us[k]
         /\ us # << >> <=> Len(us) > 0
<1>1. Len(us) \in Nat /\ (us = << >> <=> Len(us) = 0)
  BY LenProperties, EmptySeq
<1>2. /\ Append(us, u) \in Seq(UnitIn(s)) /\ Len(Append(us, u)) = Len(us) + 1
      /\ Append(us, u)[Len(us) + 1] = u
      /\ \A k \in 1 .. Len(us) : Append(us, u)[k] = us[k]
  BY AppendProperties
<1>3. Append(us, u) # << >>
  BY <1>1, <1>2, EmptySeq
<1>4. QED
  BY <1>1, <1>2, <1>3

LEMMA JoinsAppend ==
  ASSUME NEW s \in NalUnit, NEW us \in Seq(UnitIn(s)), NEW u \in UnitIn(s),
         Joins(s, us), NalUnits(SubSeq(s, u.from, u.to)) # << >>,
         us # << >> => u.from = us[Len(us)].to + 1
  PROVE  Joins(s, Append(us, u))
<1> DEFINE w == Append(us, u)
           n == Len(us)
<1>1. /\ n \in Nat /\ Len(w) = n + 1 /\ w[n + 1] = u
      /\ \A k \in 1 .. n : w[k] = us[k]
      /\ us # << >> <=> n > 0
  BY UnitAppended
<1> HIDE DEF w
<1>2. ASSUME NEW k \in 1 .. n + 1
      PROVE  NalUnits(SubSeq(s, w[k].from, w[k].to)) # << >>
  <2>1. k = n + 1 \/ k \in 1 .. n
    BY <1>1
  <2>2. QED
    BY <1>1, <2>1 DEF Joins
<1>3. ASSUME NEW k \in 2 .. n + 1
      PROVE  w[k].from = w[k - 1].to + 1
  <2>1. CASE k = n + 1
    <3>1. k - 1 = n /\ n \in 1 .. n /\ n > 0
      BY <1>1, <2>1
    <3>2. QED
      BY <1>1, <2>1, <3>1
  <2>2. CASE k # n + 1
    <3>1. k \in 2 .. n /\ k \in 1 .. n /\ k - 1 \in 1 .. n
      BY <1>1, <2>2
    <3>2. QED
      BY <1>1, <3>1 DEF Joins
  <2>3. QED
    BY <2>1, <2>2
<1>4. QED
  BY <1>1, <1>2, <1>3 DEF Joins, w

LEMMA OneAppend ==
  ASSUME NEW s \in NalUnit, NEW us \in Seq(UnitIn(s)), NEW u \in UnitIn(s),
         OneEach(s, us), OnePicture(s, u),
         us # << >> => HasFirst(s, u) /\ LastVcl(s, us[Len(us)])
  PROVE  OneEach(s, Append(us, u))
<1> DEFINE w == Append(us, u)
           n == Len(us)
<1>1. /\ n \in Nat /\ Len(w) = n + 1 /\ w[n + 1] = u
      /\ \A k \in 1 .. n : w[k] = us[k]
      /\ us # << >> <=> n > 0
  BY UnitAppended
<1> HIDE DEF w
<1>2. ASSUME NEW k \in 1 .. n + 1
      PROVE  /\ OnePicture(s, w[k])
             /\ k > 1 => HasFirst(s, w[k])
             /\ k < n + 1 => LastVcl(s, w[k])
  <2>1. CASE k = n + 1
    <3>1. w[k] = u /\ (k > 1 => n > 0) /\ ~ k < n + 1
      BY <1>1, <2>1
    <3>2. QED
      BY <1>1, <3>1
  <2>2. CASE k # n + 1
    <3>1. k \in 1 .. n /\ n > 0 /\ (k < n \/ k = n)
      BY <1>1, <2>2
    <3>2. w[k] = us[k]
      BY <1>1, <3>1
    <3>3. OnePicture(s, us[k]) /\ (k > 1 => HasFirst(s, us[k]))
      BY <3>1 DEF OneEach
    <3>4. LastVcl(s, us[k])
      BY <1>1, <3>1 DEF OneEach
    <3>5. QED
      BY <3>2, <3>3, <3>4
  <2>3. QED
    BY <2>1, <2>2
<1>3. QED
  BY <1>1, <1>2 DEF OneEach, w

(* The splitter gives a unit and goes on with the next.                     *)
LEMMA CutStep ==
  ASSUME NEW s \in NalUnit, NEW i \in Iter, NEW us \in Seq(UnitIn(s)), NEW g,
         Placed(s, i, us, g), i.span # NoSpan, Remembers(s, i, us),
         EndsUnit(s, i), Joins(s, us),
         NEW u, u = [from |-> Start(i), to |-> Boundary(i) - 1],
         NEW h, h = g \o NalUnits(SubSeq(s, u.from, u.to))
  PROVE  /\ u \in UnitIn(s) /\ NalUnits(SubSeq(s, u.from, u.to)) \in Seq(NalUnit)
         /\ NalUnits(SubSeq(s, u.from, u.to)) # << >>
         /\ Placed(s, Cut(s, i), Append(us, u), h)
         /\ Remembers(s, Cut(s, i), Append(us, u))
         /\ Joins(s, Append(us, u))
         /\ OneEach(s, us) => OneEach(s, Append(us, u))
<1> DEFINE j == Cut(s, i)
           S == NalStarts(s)
           A == PassedIn(s, i)
           V == SlicesIn(s, i)
           a == u.from
           b == u.to
<1>1. PICK p \in S, c \in S, v \in V :
        /\ i.span = Span(s, p) /\ NextAt(s, i) = p
        /\ IsFirstSlice(NalAt(s, p)) /\ v < c /\ c <= p
        /\ Boundary(i) = StartCode(s, c)
        /\ \A r \in A : r <= v \/ r >= c
        /\ \A r \in V : r < c
  BY CutAt
<1>2. /\ i.au_start # NoPosition /\ a = i.au_start /\ a \in 1 .. Len(s)
      /\ b = StartCode(s, c) - 1 /\ Opens(s, a)
      /\ b \in a .. Len(s) /\ Opens(s, b + 1) /\ v \in S /\ v \in a .. b
      /\ \A r \in S : r \in a .. b <=> r \in A /\ r <= v
      /\ ~ i.done => To(s, i) = a - 1
  <2>1. c <= NextAt(s, i)
    BY <1>1
  <2>2. a = Start(i) /\ b = StartCode(s, c) - 1
    BY <1>1
  <2> HIDE DEF a, b
  <2>3. QED
    BY <1>1, <2>1, <2>2, CutUnit
<1>3. i.done = FALSE
  BY DEF Placed, Iter
<1>4. a \in Nat /\ Len(s) \in Nat /\ b \in Nat /\ u \in UnitIn(s)
  <2>1. Len(s) \in Nat
    BY BytesOf
  <2>2. a \in Nat /\ b \in Nat /\ b \in 1 .. Len(s)
    BY <1>2, <2>1
  <2>3. QED
    BY <1>2, <2>1, <2>2 DEF UnitIn
<1>5. /\ \A r \in S : r \in Nat
      /\ A \subseteq S /\ V \subseteq A /\ \A r \in V : IsVcl(NalAt(s, r))
      /\ \A r \in A : r < p
      /\ \A r \in A : IsVcl(NalAt(s, r)) => r \in V
  BY <1>1, SpanIs DEF PassedIn, SlicesIn
<1>6. /\ \A r \in A, q \in V : IsFirstSlice(NalAt(s, r)) => r <= q
      /\ us # << >> => (\E r \in A : IsFirstSlice(NalAt(s, r)))
                         /\ LastVcl(s, us[Len(us)])
  BY <1>3 DEF Remembers
<1>7. /\ j.span = NextSpan(s, i.span.nal_end) /\ j.done = FALSE
      /\ j.au_start = StartCode(s, c) /\ j.au_has_vcl = TRUE
      /\ j.boundary_candidate = NoPosition
  BY <1>1 DEF Cut
<1> HIDE DEF j
<1>8. /\ j.span = NoSpan \/ \E q \in S : j.span = Span(s, q)
      /\ \A r \in S : r < NextAt(s, j) <=> r <= p
  <2>1. PICK q \in S :
          /\ NextAt(s, i) = q
          /\ j.span = NoSpan \/ \E r \in S : j.span = Span(s, r)
          /\ \A r \in S : r < NextAt(s, j) <=> r <= q
    BY <1>7, TurnIs
  <2>2. QED
    BY <1>1, <2>1
<1> DEFINE nals == NalUnits(SubSeq(s, a, b))
<1>9. nals \in Seq(NalUnit)
  BY <1>2, <1>4, UnitsOfPart
<1>10. nals # << >>
  <2>1. PICK aa \in Nat, bb \in Nat : aa = a /\ bb = b
    BY <1>4
  <2> HIDE DEF a, b
  <2>2. Opens(s, aa) /\ bb \in aa .. Len(s) /\ (bb = Len(s) \/ Opens(s, bb + 1))
    BY <1>2, <2>1
  <2>3. v \in S /\ v \in aa .. bb
    BY <1>2, <2>1
  <2>4. NalUnits(SubSeq(s, aa, bb)) # << >>
    BY <2>1, <2>2, <2>3, PartHolds
  <2>5. QED
    BY <2>1, <2>4
<1>11. h = SubSeq(NalUnits(s), 1, UpToIn(S, b))
  <2>1. g = SubSeq(NalUnits(s), 1, UpToIn(S, a - 1))
    BY <1>2, <1>3 DEF Placed
  <2> HIDE DEF a, b
  <2>2. g \o nals = SubSeq(NalUnits(s), 1, UpToIn(S, b))
    BY <1>2, <1>4, <2>1, GivenGrows
  <2>3. QED
    BY <2>2 DEF a, b
<1>12. OnePicture(s, u) /\ LastVcl(s, u) /\ (us # << >> => HasFirst(s, u))
  <2>1. \A q, r \in S :
          q \in a .. b /\ r \in a .. b =>
            (IsFirstSlice(NalAt(s, q)) /\ IsVcl(NalAt(s, r)) => q <= r)
    <3> HIDE DEF S, A, V, a, b
    <3>1. ASSUME NEW q \in S, NEW r \in S, q \in a .. b, r \in a .. b,
                 IsFirstSlice(NalAt(s, q)), IsVcl(NalAt(s, r))
          PROVE  q <= r
      <4>1. q \in A /\ r \in A
        BY <1>2, <3>1
      <4>2. r \in V
        BY <1>5, <3>1, <4>1
      <4>3. QED
        BY <1>6, <3>1, <4>1, <4>2
    <3>2. QED
      BY <3>1
  <2>2. \A r \in S : r \in a .. b => r <= v
    BY <1>2
  <2>3. us # << >> => \E q \in S : q \in a .. b /\ IsFirstSlice(NalAt(s, q))
    <3>1. SUFFICES ASSUME us # << >>
                   PROVE  \E q \in S : q \in a .. b /\ IsFirstSlice(NalAt(s, q))
      OBVIOUS
    <3>2. PICK q \in A : IsFirstSlice(NalAt(s, q))
      BY <1>6, <3>1
    <3>3. q <= v /\ q \in S
      BY <1>5, <1>6, <3>2
    <3>4. QED
      BY <1>2, <3>2, <3>3
  <2>4. IsVcl(NalAt(s, v))
    BY <1>5
  <2>5. PICK aa \in Nat, bb \in Nat : aa = a /\ bb = b
    BY <1>4
  <2> HIDE DEF a, b
  <2>6. u.from = aa /\ u.to = bb
    BY <2>5 DEF a, b
  <2>7. QED
    BY <1>2, <2>1, <2>2, <2>3, <2>4, <2>5, <2>6, PartPictures
<1> DEFINE w == Append(us, u)
<1>13. /\ w # << >> /\ w[Len(w)] = u /\ Len(us) \in Nat
  BY <1>4, UnitAppended
<1>14. us # << >> => u.from = us[Len(us)].to + 1
  <2>1. us # << >> => us[Len(us)].to = a - 1
    BY <1>2, <1>3 DEF Placed
  <2>2. (a - 1) + 1 = a
    BY <1>4
  <2>3. QED
    BY <2>1, <2>2
<1>15. Joins(s, w)
  BY <1>4, <1>10, <1>14, JoinsAppend
<1>16. OneEach(s, us) => OneEach(s, w)
  BY <1>4, <1>6, <1>12, OneAppend
<1> HIDE DEF w, nals
<1>17. Placed(s, j, w, h)
  <2>1. To(s, j) = b
    BY <1>2, <1>7 DEF To
  <2>2. c < NextAt(s, j)
    BY <1>1, <1>8
  <2>3. j.au_start # NoPosition
    BY <1>7, CodeBetween DEF NoPosition
  <2>4. QED
    BY <1>7, <1>8, <1>11, <1>13, <2>1, <2>2, <2>3 DEF Placed
<1>18. Remembers(s, j, w)
  <2>1. \A r \in PassedIn(s, j) : r \in S /\ r <= p /\ r >= c
    BY <1>7, <1>8, CodeBetween DEF PassedIn
  <2>2. p \in PassedIn(s, j)
    <3>1. StartCode(s, c) <= p /\ p < NextAt(s, j)
      BY <1>1, <1>5, <1>8, CodeBetween
    <3>2. QED
      BY <1>7, <3>1 DEF PassedIn
  <2>3. \A r \in PassedIn(s, j) : r # p => ~ IsVcl(NalAt(s, r))
    <3>1. ASSUME NEW r \in PassedIn(s, j), r # p, IsVcl(NalAt(s, r))
          PROVE  FALSE
      <4>1. r \in S /\ r < p /\ r >= c
        BY <1>5, <2>1, <3>1
      <4>2. r >= a
        <5>1. b < StartCode(s, c) /\ StartCode(s, c) <= r /\ a <= b
          BY <1>2, <1>4, <4>1, CodeBetween
        <5>2. QED
          BY <1>4, <1>5, <4>1, <5>1, CodeBetween
      <4>3. r \in A
        BY <1>1, <1>2, <4>1, <4>2 DEF PassedIn
      <4>4. r \in V
        BY <1>5, <3>1, <4>3
      <4>5. r < c /\ r \in Nat /\ c \in Nat
        BY <1>1, <1>5, <4>4
      <4>6. QED
        BY <4>1, <4>5
    <3>2. QED
      BY <3>1
  <2>4. IsVcl(NalAt(s, p))
    BY <1>1 DEF IsFirstSlice
  <2>5. SlicesIn(s, j) = {p}
    BY <2>2, <2>3, <2>4 DEF SlicesIn
  <2>6. \A r \in PassedIn(s, j), q \in SlicesIn(s, j) :
          IsFirstSlice(NalAt(s, r)) => r <= q
    BY <2>1, <2>5
  <2>7. p \in SlicesIn(s, j) /\ \A r \in PassedIn(s, j) : r <= p
    BY <2>1, <2>5
  <2>8. j.au_has_vcl = (SlicesIn(s, j) # {})
    BY <1>7, <2>5
  <2>9. \E r \in PassedIn(s, j) : IsFirstSlice(NalAt(s, r))
    BY <1>1, <2>2
  <2>10. QED
    BY <1>7, <1>12, <1>13, <2>6, <2>7, <2>8, <2>9 DEF Remembers
<1>19. QED
  BY <1>4, <1>9, <1>10, <1>15, <1>16, <1>17, <1>18 DEF j, w, nals

(* The stream is at its end: the splitter gives the rest of it.             *)
LEMMA RestStep ==
  ASSUME NEW s \in NalUnit, NEW i \in Iter, NEW us \in Seq(UnitIn(s)), NEW g,
         Placed(s, i, us, g), Remembers(s, i, us), Joins(s, us),
         i.span = NoSpan, ~ i.done, i.au_start # NoPosition,
         NEW u, u = [from |-> i.au_start, to |-> Len(s)],
         NEW h, h = g \o NalUnits(SubSeq(s, u.from, u.to))
  PROVE  /\ u \in UnitIn(s) /\ NalUnits(SubSeq(s, u.from, u.to)) \in Seq(NalUnit)
         /\ NalUnits(SubSeq(s, u.from, u.to)) # << >>
         /\ Placed(s, [i EXCEPT !.done = TRUE], Append(us, u), h)
         /\ Remembers(s, [i EXCEPT !.done = TRUE], Append(us, u))
         /\ Joins(s, Append(us, u))
         /\ OneEach(s, us) => OneEach(s, Append(us, u))
<1> DEFINE j == [i EXCEPT !.done = TRUE]
           S == NalStarts(s)
           A == PassedIn(s, i)
           V == SlicesIn(s, i)
           a == u.from
           b == u.to
<1>1. /\ j.span = i.span /\ j.done = TRUE /\ j.au_start = i.au_start
      /\ j.au_has_vcl = i.au_has_vcl
      /\ j.boundary_candidate = i.boundary_candidate
  BY DEF Iter
<1>2. NextAt(s, i) = Len(s) + 1 /\ NextAt(s, j) = NextAt(s, i) /\ Len(s) \in Nat
  BY <1>1, BytesOf DEF NextAt
<1>3. PICK q \in S : q < Len(s) + 1 /\ i.au_start = StartCode(s, q)
  BY <1>2 DEF Placed
<1>4. \A r \in S : r \in Nat /\ r <= Len(s) /\ (i.au_start <= r <=> q <= r)
  BY <1>3, CodeBetween, SpanIs
<1>5. a = StartCode(s, q) /\ b = Len(s) /\ a \in 1 .. Len(s) /\ Opens(s, a) /\ q \in a .. b
  <2>1. StartCode(s, q) \in Nat \ {0} /\ StartCode(s, q) < q
    BY CodeBetween
  <2>2. QED
    BY <1>2, <1>3, <1>4, <2>1 DEF Opens
<1>6. a \in Nat /\ b \in a .. Len(s) /\ u \in UnitIn(s)
  <2>1. a \in Nat /\ b \in a .. Len(s) /\ b \in 1 .. Len(s)
    BY <1>2, <1>5
  <2>2. QED
    BY <1>5, <2>1 DEF UnitIn
<1>7. \A r \in S : r \in a .. b <=> r \in A
  <2>1. \A r \in S : r \in A <=> i.au_start <= r
    BY <1>2, <1>4 DEF PassedIn
  <2>2. \A r \in S : r \in a .. b <=> i.au_start <= r
    BY <1>2, <1>4, <1>5, <1>6
  <2>3. QED
    BY <2>1, <2>2
<1>8. /\ A \subseteq S /\ \A r \in A : IsVcl(NalAt(s, r)) => r \in V
  BY DEF PassedIn, SlicesIn
<1> HIDE DEF j
<1> DEFINE nals == NalUnits(SubSeq(s, a, b))
<1>9. nals \in Seq(NalUnit) /\ nals # << >>
  <2> HIDE DEF a, b
  <2>1. b = Len(s)
    BY <1>5
  <2>2. nals \in Seq(NalUnit)
    BY <1>5, <1>6, <2>1, UnitsOfPart
  <2>3. PICK aa \in Nat, bb \in Nat : aa = a /\ bb = b
    BY <1>6
  <2>4. Opens(s, aa) /\ bb \in aa .. Len(s) /\ bb = Len(s) /\ q \in S /\ q \in aa .. bb
    BY <1>5, <1>6, <2>1, <2>3
  <2>5. NalUnits(SubSeq(s, aa, bb)) # << >>
    BY <2>4, PartHolds
  <2>6. QED
    BY <2>2, <2>3, <2>5
<1>10. h = SubSeq(NalUnits(s), 1, UpToIn(S, b))
  <2>1. g = SubSeq(NalUnits(s), 1, UpToIn(S, a - 1))
    BY <1>3, <1>5 DEF Placed, To
  <2> HIDE DEF a, b
  <2>2. b = Len(s)
    BY <1>5
  <2>3. g \o nals = SubSeq(NalUnits(s), 1, UpToIn(S, b))
    BY <1>5, <1>6, <2>1, <2>2, GivenGrows
  <2>4. QED
    BY <2>3 DEF a, b
<1>11. OnePicture(s, u) /\ (us # << >> => HasFirst(s, u) /\ LastVcl(s, us[Len(us)]))
  <2>1. /\ \A r \in A, v \in V : IsFirstSlice(NalAt(s, r)) => r <= v
        /\ us # << >> => (\E r \in A : IsFirstSlice(NalAt(s, r)))
                           /\ LastVcl(s, us[Len(us)])
    BY DEF Remembers
  <2>2. \A p, v \in S :
          p \in a .. b /\ v \in a .. b =>
            (IsFirstSlice(NalAt(s, p)) /\ IsVcl(NalAt(s, v)) => p <= v)
    <3> HIDE DEF S, A, V, a, b
    <3>1. ASSUME NEW p \in S, NEW v \in S, p \in a .. b, v \in a .. b,
                 IsFirstSlice(NalAt(s, p)), IsVcl(NalAt(s, v))
          PROVE  p <= v
      <4>1. p \in A /\ v \in V
        BY <1>7, <1>8, <3>1
      <4>2. QED
        BY <2>1, <3>1, <4>1
    <3>2. QED
      BY <3>1
  <2>3. us # << >> => \E p \in S : p \in a .. b /\ IsFirstSlice(NalAt(s, p))
    BY <1>7, <1>8, <2>1
  <2>4. PICK aa \in Nat, bb \in Nat : aa = a /\ bb = b
    BY <1>6
  <2> HIDE DEF a, b
  <2>5. u.from = aa /\ u.to = bb
    BY <2>4 DEF a, b
  <2>6. Opens(s, aa) /\ bb \in aa .. Len(s) /\ (bb = Len(s) \/ Opens(s, bb + 1))
    BY <1>5, <1>6, <2>4
  <2>7. /\ \A p, v \in S :
             p \in aa .. bb /\ v \in aa .. bb =>
               (IsFirstSlice(NalAt(s, p)) /\ IsVcl(NalAt(s, v)) => p <= v)
        /\ us # << >> =>
             \E p \in S : p \in aa .. bb /\ IsFirstSlice(NalAt(s, p))
    BY <2>2, <2>3, <2>4
  <2>8. OnePicture(s, u) /\ (us # << >> => HasFirst(s, u))
    BY <2>5, <2>6, <2>7, PartPictures
  <2>9. QED
    BY <2>1, <2>8
<1> DEFINE w == Append(us, u)
<1>12. /\ w # << >> /\ w[Len(w)] = u /\ Len(us) \in Nat
  BY <1>6, UnitAppended
<1>13. us # << >> => u.from = us[Len(us)].to + 1
  <2>1. us # << >> => us[Len(us)].to = a - 1
    BY <1>3, <1>5 DEF Placed, To
  <2>2. (a - 1) + 1 = a
    BY <1>6
  <2>3. QED
    BY <2>1, <2>2
<1>14. Joins(s, w)
  BY <1>6, <1>9, <1>13, JoinsAppend
<1>15. OneEach(s, us) => OneEach(s, w)
  BY <1>6, <1>11, OneAppend
<1> HIDE DEF w, nals
<1>16. Placed(s, j, w, h)
  <2>1. To(s, j) = b
    BY <1>1, <1>5 DEF To
  <2>2. QED
    BY <1>1, <1>2, <1>3, <1>10, <1>12, <2>1 DEF Placed
<1>17. Remembers(s, j, w)
  <2>1. PassedIn(s, j) = A
    BY <1>1, <1>2 DEF PassedIn
  <2>2. SlicesIn(s, j) = V
    BY <2>1 DEF SlicesIn
  <2>3. QED
    BY <1>1, <2>1, <2>2 DEF Remembers
<1>18. QED
  BY <1>6, <1>9, <1>14, <1>15, <1>16, <1>17 DEF j, w, nals

------------------------------------------------------------------------------
(* H.264: what the splitter does, as steps of the specification.            *)

H264Inv == SplitInv /\ OnePictureEach

LEMMA SplitParts ==
  /\ SplitterPlaced <=>
       IF at = "encode" THEN units = << >> /\ given = << >> /\ sent = << >>
       ELSE Placed(stream, it, units, given)
  /\ SplitterRemembers <=> (at # "encode" => Remembers(stream, it, units))
  /\ SplitLosesNothing <=>
       Joins(stream, units) /\ (at = "done" => given = NalUnits(stream))
  /\ OnePictureEach <=> OneEach(stream, units)
<1>1. SplitterPlaced <=>
        IF at = "encode" THEN units = << >> /\ given = << >> /\ sent = << >>
        ELSE Placed(stream, it, units, given)
  BY DEF SplitterPlaced, Placed, NextStart, NextAt, GivenTo, To
<1>2. SplitterRemembers <=> (at # "encode" => Remembers(stream, it, units))
  BY DEF SplitterRemembers, Remembers, Passed, Slices, PassedIn, SlicesIn,
         NextStart, NextAt, LastVcl, Bytes
<1>3. SplitLosesNothing <=>
        Joins(stream, units) /\ (at = "done" => given = NalUnits(stream))
  BY DEF SplitLosesNothing, Joins, Bytes
<1>4. OnePictureEach <=> OneEach(stream, units)
  BY DEF OnePictureEach, OneEach, OnePicture, HasFirst, LastVcl, Bytes
<1>5. QED
  BY <1>1, <1>2, <1>3, <1>4

LEMMA SplitPartsNext ==
  /\ SplitterPlaced' <=>
       IF at' = "encode" THEN units' = << >> /\ given' = << >> /\ sent' = << >>
       ELSE Placed(stream', it', units', given')
  /\ SplitterRemembers' <=> (at' # "encode" => Remembers(stream', it', units'))
  /\ SplitLosesNothing' <=>
       Joins(stream', units') /\ (at' = "done" => given' = NalUnits(stream'))
  /\ OnePictureEach' <=> OneEach(stream', units')
<1>1. SplitterPlaced' <=>
        IF at' = "encode" THEN units' = << >> /\ given' = << >> /\ sent' = << >>
        ELSE Placed(stream', it', units', given')
  BY DEF SplitterPlaced, Placed, NextStart, NextAt, GivenTo, To
<1>2. SplitterRemembers' <=> (at' # "encode" => Remembers(stream', it', units'))
  BY DEF SplitterRemembers, Remembers, Passed, Slices, PassedIn, SlicesIn,
         NextStart, NextAt, LastVcl, Bytes
<1>3. SplitLosesNothing' <=>
        Joins(stream', units') /\ (at' = "done" => given' = NalUnits(stream'))
  BY DEF SplitLosesNothing, Joins, Bytes
<1>4. OnePictureEach' <=> OneEach(stream', units')
  BY DEF OnePictureEach, OneEach, OnePicture, HasFirst, LastVcl, Bytes
<1>5. QED
  BY <1>1, <1>2, <1>3, <1>4

(* The types, split so that a step shows only those it touches.             *)
LEMMA H264Types ==
  H264TypeOK <=>
    /\ at \in {"encode", "split", "packetize", "done", "failed"}
    /\ stream \in NalUnit /\ pieces \in 0 .. MaxPieces /\ it \in Iter
    /\ units \in Seq(UnitIn(stream)) /\ given \in Seq(NalUnit)
    /\ nal \in Nat \ {0} /\ off \in Nat /\ seq \in 0 .. SeqMod - 1
    /\ sent \in Seq([seq : 0 .. SeqMod - 1, marker : BOOLEAN, payload : NalUnit])
BY DEF H264TypeOK, Iter, UnitIn

LEMMA H264TypesNext ==
  H264TypeOK' <=>
    /\ at' \in {"encode", "split", "packetize", "done", "failed"}
    /\ stream' \in NalUnit /\ pieces' \in 0 .. MaxPieces /\ it' \in Iter
    /\ units' \in Seq(UnitIn(stream')) /\ given' \in Seq(NalUnit)
    /\ nal' \in Nat \ {0} /\ off' \in Nat /\ seq' \in 0 .. SeqMod - 1
    /\ sent' \in Seq([seq : 0 .. SeqMod - 1, marker : BOOLEAN, payload : NalUnit])
BY DEF H264TypeOK, Iter, UnitIn

LEMMA InitIter ==
  ASSUME NEW s \in NalUnit
  PROVE  SplitterInit(s) \in Iter
<1>1. NextSpan(s, 1) \in [start_code : Nat, nal_start : Nat, nal_end : Nat]
  <2>1. NoSpan \in [start_code : Nat, nal_start : Nat, nal_end : Nat]
    BY DEF NoSpan
  <2>2. QED
    BY <2>1, NextSpanIs, SpanIs
<1>2. QED
  BY <1>1 DEF SplitterInit, Iter, NoPosition

LEMMA NothingGiven ==
  ASSUME NEW s
  PROVE  Joins(s, << >>) /\ OneEach(s, << >>) /\ << >> \in Seq(UnitIn(s))
BY DEF Joins, OneEach

LEMMA InitH264 == H264Init => H264Inv
<1> SUFFICES ASSUME H264Init PROVE H264Inv
  OBVIOUS
<1>1. stream \in NalUnit
  BY H264Assumption DEF H264Init, NalUnit
<1>2. it \in Iter
  <2>1. << >> \in NalUnit
    BY DEF NalUnit
  <2>2. QED
    BY <2>1, InitIter DEF H264Init
<1>3. H264TypeOK
  BY <1>1, <1>2, H264Assumption, H264Types DEF H264Init
<1>4. SplitterPlaced /\ SplitterRemembers /\ SplitLosesNothing /\ OnePictureEach
  BY SplitParts, NothingGiven DEF H264Init
<1>5. SendPlaced
  BY DEF H264Init, SendPlaced
<1>6. QED
  BY <1>3, <1>4, <1>5 DEF H264Inv, SplitInv

LEMMA EncodeSplit ==
  ASSUME H264Inv, Encode
  PROVE  H264Inv'
<1>1. H264TypeOK /\ SplitterPlaced
  BY DEF H264Inv, SplitInv
<1>2. /\ at = "encode" /\ at' = "encode" /\ units = << >> /\ given = << >>
      /\ sent = << >>
  BY <1>1, SplitParts DEF Encode
<1>3. /\ units' = units /\ given' = given /\ sent' = sent /\ it' = it
      /\ nal' = nal /\ off' = off /\ seq' = seq
      /\ pieces < MaxPieces /\ pieces' = pieces + 1
  BY DEF Encode, splitVars, sendVars
<1>4. stream' \in NalUnit
  <2>1. PICK p \in Payloads, z \in Prefixes : stream' = stream \o z \o <<0, 0, 1>> \o p
    BY DEF Encode
  <2>2. stream \in Seq(0 .. 255) /\ p \in Seq(0 .. 255)
    BY <1>1, H264Assumption, H264Types DEF NalUnit
  <2>3. z \in Seq(0 .. 255) /\ <<0, 0, 1>> \in Seq(0 .. 255)
    <3>1. z \in Seq({0}) /\ {0} \subseteq 0 .. 255
      BY H264Assumption
    <3>2. QED
      BY <3>1
  <2>4. stream \o z \in Seq(0 .. 255)
    BY <2>2, <2>3, ConcatProperties
  <2>5. stream \o z \o <<0, 0, 1>> \in Seq(0 .. 255)
    BY <2>3, <2>4, ConcatProperties
  <2>6. stream \o z \o <<0, 0, 1>> \o p \in Seq(0 .. 255)
    BY <2>2, <2>5, ConcatProperties
  <2>7. QED
    BY <2>1, <2>6 DEF NalUnit
<1>5. pieces' \in 0 .. MaxPieces
  <2>1. pieces \in 0 .. MaxPieces /\ MaxPieces \in Nat
    BY <1>1, H264Types, H264Assumption
  <2>2. QED
    BY <1>3, <2>1
<1>6. H264TypeOK'
  <2>1. units' \in Seq(UnitIn(stream'))
    BY <1>2, <1>3
  <2>2. QED
    BY <1>1, <1>2, <1>3, <1>4, <1>5, <2>1, H264Types, H264TypesNext
<1>7. SplitterPlaced' /\ SplitterRemembers' /\ SplitLosesNothing' /\ OnePictureEach'
  BY <1>2, <1>3, NothingGiven, SplitPartsNext
<1>8. SendPlaced'
  BY <1>2 DEF SendPlaced
<1>9. QED
  BY <1>6, <1>7, <1>8 DEF H264Inv, SplitInv

LEMMA BeginSplitSplit ==
  ASSUME H264Inv, BeginSplit
  PROVE  H264Inv'
<1> DEFINE i == SplitterInit(stream)
           S == NalStarts(stream)
<1>1. /\ H264TypeOK /\ SplitterPlaced /\ stream \in NalUnit /\ i \in Iter
  BY InitIter, H264Types DEF H264Inv, SplitInv
<1>2. /\ at' = "split" /\ units' = << >> /\ given' = << >> /\ it' = i
      /\ stream' = stream
  BY <1>1, SplitParts DEF BeginSplit
<1>3. /\ sent' = sent /\ pieces' = pieces /\ nal' = nal /\ off' = off /\ seq' = seq
  BY DEF BeginSplit, sendVars
<1>4. H264TypeOK'
  BY <1>1, <1>2, <1>3, H264Types, H264TypesNext
<1>5. /\ i.span = NextSpan(stream, 1) /\ i.au_start = NoPosition
      /\ i.au_has_vcl = FALSE /\ i.boundary_candidate = NoPosition
      /\ i.done = FALSE
  BY DEF SplitterInit
<1> HIDE DEF i
<1>6. /\ i.span = NoSpan \/ \E p \in S : i.span = Span(stream, p)
      /\ \A p \in S : p >= NextAt(stream, i)
  <2>1. \A p \in S : p \in Nat /\ p >= 4
    BY <1>1, SpanIs
  <2>2. CASE i.span = NoSpan /\ \A p \in S : p < 1
    <3>1. S = {}
      BY <2>1, <2>2
    <3>2. QED
      BY <2>2, <3>1
  <2>3. CASE \E p \in S : /\ i.span = Span(stream, p)
                          /\ \A q \in S : q >= 1 => p <= q
    <3>1. PICK p \in S : /\ i.span = Span(stream, p)
                         /\ \A q \in S : q >= 1 => p <= q
      BY <2>3
    <3>2. NextAt(stream, i) = p
      BY <1>1, <3>1, SpanIs DEF NextAt
    <3>3. QED
      BY <2>1, <3>1, <3>2
  <2>4. QED
    BY <1>1, <1>5, <2>2, <2>3, NextSpanIs
<1>7. SubSeq(NalUnits(stream), 1, UpToIn(S, To(stream, i))) = << >>
  <2>1. To(stream, i) = -1
    BY <1>5 DEF To, NoPosition
  <2>2. UpToIn(S, -1) = 0
    <3>1. S \in SUBSET (1 .. Len(stream)) /\ Len(stream) \in Nat
      BY <1>1, StartsAre, BytesOf
    <3>2. -1 \in Int /\ -1 < 1
      OBVIOUS
    <3>3. QED
      BY <3>1, <3>2, RankIs
  <2>3. SubSeq(NalUnits(stream), 1, 0) = << >>
    BY <1>1, UnitsAre, SubSeqProperties, EmptySeq
  <2>4. QED
    BY <2>1, <2>2, <2>3
<1>8. Placed(stream, i, << >>, << >>)
  BY <1>5, <1>6, <1>7 DEF Placed
<1>9. Remembers(stream, i, << >>)
  <2>1. PassedIn(stream, i) = {} /\ SlicesIn(stream, i) = {}
    BY <1>1, <1>5, <1>8, NonePassed
  <2>2. QED
    BY <1>5, <2>1 DEF Remembers
<1>10. SplitterPlaced' /\ SplitterRemembers' /\ SplitLosesNothing' /\ OnePictureEach'
  BY <1>2, <1>8, <1>9, NothingGiven, SplitPartsNext
<1>11. SendPlaced'
  BY <1>2 DEF SendPlaced
<1>12. QED
  BY <1>4, <1>10, <1>11 DEF H264Inv, SplitInv

LEMMA PassNalSplit ==
  ASSUME H264Inv, PassNal
  PROVE  H264Inv'
<1>1. /\ H264TypeOK /\ stream \in NalUnit /\ it \in Iter
      /\ at = "split" /\ it.span # NoSpan /\ ~ EndsUnit(stream, it)
  BY H264Types DEF H264Inv, SplitInv, PassNal
<1>2. /\ at' = at /\ stream' = stream /\ it' = Pass(stream, it)
      /\ units' = units /\ given' = given /\ pieces' = pieces /\ sent' = sent
      /\ nal' = nal /\ off' = off /\ seq' = seq
  BY DEF PassNal, sendVars
<1>3. /\ Placed(stream, it, units, given) /\ Remembers(stream, it, units)
      /\ Joins(stream, units) /\ OneEach(stream, units)
  BY <1>1, SplitParts DEF H264Inv, SplitInv
<1>4. it' \in Iter
  BY <1>1, <1>2, <1>3, PassIter
<1>5. H264TypeOK'
  BY <1>1, <1>2, <1>4, H264Types, H264TypesNext
<1>6. Placed(stream, it', units, given) /\ Remembers(stream, it', units)
  BY <1>1, <1>2, <1>3, PassPlaced, PassRemembers
<1>7. SplitterPlaced' /\ SplitterRemembers' /\ SplitLosesNothing' /\ OnePictureEach'
  BY <1>1, <1>2, <1>3, <1>6, SplitPartsNext
<1>8. SendPlaced'
  BY <1>1, <1>2 DEF SendPlaced
<1>9. QED
  BY <1>5, <1>7, <1>8 DEF H264Inv, SplitInv

(* What follows when the splitter gives a unit that is as CutStep and       *)
(* RestStep say.                                                            *)
LEMMA GiveSplit ==
  ASSUME H264Inv, NEW u \in UnitIn(stream), Give(u), at = "split",
         it' \in Iter,
         NalUnits(Bytes(u)) \in Seq(NalUnit), NalUnits(Bytes(u)) # << >>,
         Placed(stream, it', Append(units, u), given \o NalUnits(Bytes(u))),
         Remembers(stream, it', Append(units, u)),
         Joins(stream, Append(units, u)), OneEach(stream, Append(units, u))
  PROVE  H264Inv'
<1>1. /\ H264TypeOK /\ stream \in NalUnit /\ units \in Seq(UnitIn(stream))
      /\ given \in Seq(NalUnit)
  BY H264Types DEF H264Inv, SplitInv
<1>2. /\ at' = "packetize" /\ stream' = stream
      /\ units' = Append(units, u) /\ given' = given \o NalUnits(Bytes(u))
      /\ pieces' = pieces /\ sent' = << >> /\ nal' = 1 /\ off' = 0 /\ seq' = seq
  BY DEF Give
<1>3. H264TypeOK'
  <2>1. units' \in Seq(UnitIn(stream'))
    BY <1>1, <1>2, UnitAppended
  <2>2. given' \in Seq(NalUnit)
    BY <1>1, <1>2, ConcatProperties
  <2>3. QED
    BY <1>1, <1>2, <2>1, <2>2, H264Types, H264TypesNext
<1>4. SplitterPlaced' /\ SplitterRemembers' /\ SplitLosesNothing' /\ OnePictureEach'
  BY <1>2, SplitPartsNext
<1>5. SendPlaced'
  <2>1. units' # << >> /\ units'[Len(units')] = u
    BY <1>1, <1>2, UnitAppended
  <2>2. Nals' = NalUnits(Bytes(u))
    BY <1>2, <2>1 DEF Nals, Bytes
  <2>3. Len(Nals') \in Nat \ {0}
    BY <2>2, LenProperties, EmptySeq
  <2>4. nal' \in 1 .. Len(Nals')
    BY <1>2, <2>3
  <2>5. ~ off' > 0
    BY <1>2
  <2>6. QED
    BY <2>1, <2>4, <2>5 DEF SendPlaced
<1>6. QED
  BY <1>3, <1>4, <1>5 DEF H264Inv, SplitInv

LEMMA GiveUnitSplit ==
  ASSUME H264Inv, GiveUnit
  PROVE  H264Inv'
<1>1. /\ H264TypeOK /\ stream \in NalUnit /\ it \in Iter
      /\ units \in Seq(UnitIn(stream))
      /\ at = "split" /\ it.span # NoSpan /\ EndsUnit(stream, it)
      /\ it' = Cut(stream, it)
  BY H264Types DEF H264Inv, SplitInv, GiveUnit
<1>2. /\ Placed(stream, it, units, given) /\ Remembers(stream, it, units)
      /\ Joins(stream, units) /\ OneEach(stream, units)
  BY <1>1, SplitParts DEF H264Inv, SplitInv
<1>3. PICK u : /\ u = [from |-> Start(it), to |-> Boundary(it) - 1] /\ Give(u)
               /\ Bytes(u) = SubSeq(stream, u.from, u.to)
  BY DEF GiveUnit, Bytes
<1>4. PICK h : h = given \o NalUnits(SubSeq(stream, u.from, u.to))
  OBVIOUS
<1>5. it' \in Iter
  BY <1>1, <1>2, PassIter
<1>6. /\ u \in UnitIn(stream) /\ NalUnits(Bytes(u)) \in Seq(NalUnit)
      /\ NalUnits(Bytes(u)) # << >>
      /\ Placed(stream, it', Append(units, u), h)
      /\ Remembers(stream, it', Append(units, u))
      /\ Joins(stream, Append(units, u)) /\ OneEach(stream, Append(units, u))
  BY <1>1, <1>2, <1>3, <1>4, CutStep
<1>7. QED
  BY <1>1, <1>3, <1>4, <1>5, <1>6, GiveSplit

LEMMA GiveRestSplit ==
  ASSUME H264Inv, GiveRest
  PROVE  H264Inv'
<1>1. /\ H264TypeOK /\ stream \in NalUnit /\ it \in Iter
      /\ units \in Seq(UnitIn(stream))
      /\ at = "split" /\ it.span = NoSpan /\ ~ it.done
      /\ it.au_start # NoPosition /\ it' = [it EXCEPT !.done = TRUE]
  BY H264Types DEF H264Inv, SplitInv, GiveRest
<1>2. /\ Placed(stream, it, units, given) /\ Remembers(stream, it, units)
      /\ Joins(stream, units) /\ OneEach(stream, units)
  BY <1>1, SplitParts DEF H264Inv, SplitInv
<1>3. PICK u : /\ u = [from |-> it.au_start, to |-> Len(stream)] /\ Give(u)
               /\ Bytes(u) = SubSeq(stream, u.from, u.to)
  BY DEF GiveRest, Bytes
<1>4. PICK h : h = given \o NalUnits(SubSeq(stream, u.from, u.to))
  OBVIOUS
<1>5. it' \in Iter
  BY <1>1 DEF Iter
<1>6. /\ u \in UnitIn(stream) /\ NalUnits(Bytes(u)) \in Seq(NalUnit)
      /\ NalUnits(Bytes(u)) # << >>
      /\ Placed(stream, it', Append(units, u), h)
      /\ Remembers(stream, it', Append(units, u))
      /\ Joins(stream, Append(units, u)) /\ OneEach(stream, Append(units, u))
  BY <1>1, <1>2, <1>3, <1>4, RestStep
<1>7. QED
  BY <1>1, <1>3, <1>4, <1>5, <1>6, GiveSplit

LEMMA GiveNothingSplit ==
  ASSUME H264Inv, GiveNothing
  PROVE  H264Inv'
<1> DEFINE S == NalStarts(stream)
           n == Len(stream)
           j == [it EXCEPT !.done = TRUE]
<1>1. /\ H264TypeOK /\ stream \in NalUnit /\ it \in Iter
      /\ at = "split" /\ it.span = NoSpan /\ (it.done \/ it.au_start = NoPosition)
  BY H264Types DEF H264Inv, SplitInv, GiveNothing
<1>2. /\ at' = "done" /\ stream' = stream /\ it' = j
      /\ units' = units /\ given' = given /\ pieces' = pieces /\ sent' = sent
      /\ nal' = nal /\ off' = off /\ seq' = seq
  BY DEF GiveNothing, sendVars
<1>3. /\ j \in Iter /\ j.span = it.span /\ j.done = TRUE
      /\ j.au_start = it.au_start /\ j.au_has_vcl = it.au_has_vcl
      /\ j.boundary_candidate = it.boundary_candidate
  BY <1>1 DEF Iter
<1> HIDE DEF j
<1>4. /\ Placed(stream, it, units, given) /\ Remembers(stream, it, units)
      /\ Joins(stream, units) /\ OneEach(stream, units)
  BY <1>1, SplitParts DEF H264Inv, SplitInv
<1>5. H264TypeOK'
  BY <1>1, <1>2, <1>3, H264Types, H264TypesNext
<1>6. /\ NextAt(stream, j) = NextAt(stream, it) /\ To(stream, j) = n
      /\ NextAt(stream, it) = n + 1 /\ n \in Nat
  BY <1>1, <1>3, BytesOf DEF NextAt, To
<1>7. S \in SUBSET (1 .. n)
  BY <1>1, StartsAre
<1>8. given = SubSeq(NalUnits(stream), 1, UpToIn(S, n))
  <2>1. CASE it.done
    <3>1. To(stream, it) = n
      BY <2>1 DEF To
    <3>2. QED
      BY <1>4, <3>1 DEF Placed
  <2>2. CASE ~ it.done
    <3>1. it.au_start = NoPosition /\ \A p \in S : p >= n + 1
      BY <1>1, <1>4, <1>6, <2>2 DEF Placed
    <3>2. S = {}
      BY <1>6, <1>7, <3>1
    <3>3. \A k : UpToIn(S, k) = 0
      BY <3>2, FS_EmptySet DEF UpToIn
    <3>4. QED
      BY <1>4, <3>3 DEF Placed
  <2>3. QED
    BY <2>1, <2>2
<1>9. given = NalUnits(stream)
  <2>1. UpToIn(S, n) = Cardinality(S)
    <3> HIDE DEF S, n
    <3>1. n \in Int /\ n >= n
      BY <1>6
    <3>2. QED
      BY <1>6, <1>7, <3>1, RankIs
  <2>2. NalUnits(stream) \in Seq(NalUnit) /\ Len(NalUnits(stream)) = Cardinality(S)
    BY <1>1, UnitsAre
  <2>3. QED
    BY <1>8, <2>1, <2>2, SubSeqFull
<1>10. Placed(stream, j, units, given)
  <2>1. units # << >> => units[Len(units)].to = To(stream, j)
    <3>1. CASE it.done
      BY <1>4, <1>6, <3>1 DEF Placed, To
    <3>2. CASE ~ it.done
      BY <1>1, <1>4, <3>2 DEF Placed
    <3>3. QED
      BY <3>1, <3>2
  <2>2. QED
    BY <1>1, <1>3, <1>4, <1>6, <1>8, <2>1 DEF Placed
<1>11. Remembers(stream, j, units)
  <2>1. PassedIn(stream, j) = PassedIn(stream, it)
    BY <1>3, <1>6 DEF PassedIn
  <2>2. SlicesIn(stream, j) = SlicesIn(stream, it)
    BY <2>1 DEF SlicesIn
  <2>3. QED
    BY <1>3, <1>4, <2>1, <2>2 DEF Remembers
<1>12. SplitterPlaced' /\ SplitterRemembers' /\ SplitLosesNothing' /\ OnePictureEach'
  BY <1>2, <1>4, <1>9, <1>10, <1>11, SplitPartsNext
<1>13. SendPlaced'
  BY <1>2 DEF SendPlaced
<1>14. QED
  BY <1>5, <1>12, <1>13 DEF H264Inv, SplitInv

------------------------------------------------------------------------------
(* H.264: the payloader.                                                    *)

(* The two bytes of a fragment's header.                                    *)
LEMMA FuBytes ==
  ASSUME NEW b \in 0 .. 255, NEW f \in {0, 128}, NEW e \in {0, 64}
  PROVE  LET i == b - (b % 32) + 28
             h == (b % 32) + f + e
         IN /\ b % 32 \in 0 .. 31 /\ i \in 0 .. 255 /\ h \in 0 .. 255
            /\ i % 32 = 28 /\ i - (i % 32) + (h % 32) = b
            /\ h >= 128 <=> f = 128
            /\ (h \div 64) % 2 = 1 <=> e = 64
            /\ (h \div 64) % 2 = 0 <=> e = 0
<1>1. b % 32 \in 0 .. 31 /\ b % 32 <= b
  OBVIOUS
<1>2. PICK t \in 0 .. 31 : t = b % 32 /\ t <= b
  BY <1>1
<1>3. PICK k \in Nat : b = 32 * k + t /\ k <= 7
  <2>1. b = 32 * (b \div 32) + (b % 32) /\ b \div 32 \in Nat /\ b \div 32 <= 7
    OBVIOUS
  <2>2. QED
    BY <1>2, <2>1
<1>4. b - t + 28 = 32 * k + 28 /\ (32 * k + 28) % 32 = 28
  BY <1>3
<1>5. \A h \in 0 .. 255 : h = t + f + e => h % 32 = t
  BY <1>2
<1>6. t + f + e \in 0 .. 255
  BY <1>2
<1>7. (t + f + e) \div 64 = (IF f = 128 THEN 2 ELSE 0) + (IF e = 64 THEN 1 ELSE 0)
  BY <1>2
<1>8. QED
  BY <1>2, <1>3, <1>4, <1>5, <1>6, <1>7

(* The NAL unit being sent, and its bytes.                                  *)
LEMMA Sending ==
  ASSUME H264Inv, at = "packetize"
  PROVE  /\ Nals \in Seq(NalUnit) /\ Len(Nals) \in Nat /\ nal \in 1 .. Len(Nals)
         /\ Nals[nal] \in NalUnit /\ Len(Nals[nal]) \in Nat \ {0}
         /\ Nals[nal][1] \in 0 .. 255
         /\ Body \in NalUnit /\ Len(Body) = Len(Nals[nal]) - 1
         /\ Bytes(units[Len(units)]) \in NalUnit
         /\ \E p \in NalStarts(Bytes(units[Len(units)])) :
              Nals[nal] = NalAt(Bytes(units[Len(units)]), p)
<1>1. /\ stream \in NalUnit /\ units \in Seq(UnitIn(stream))
      /\ units # << >> /\ nal \in 1 .. Len(Nals)
  BY H264Types DEF H264Inv, SplitInv, SendPlaced
<1>2. units[Len(units)] \in UnitIn(stream)
  <2>1. Len(units) \in 1 .. Len(units)
    BY <1>1, LenProperties, EmptySeq
  <2>2. QED
    BY <1>1, <2>1, ElementOfSeq
<1>3. PICK u \in NalUnit : u = Bytes(units[Len(units)])
  <2>1. PICK a \in 1 .. Len(stream), b \in 1 .. Len(stream) :
          a = units[Len(units)].from /\ b = units[Len(units)].to
    BY <1>2 DEF UnitIn
  <2>2. a \in Int /\ b \in Int /\ \A i \in a .. b : stream[i] \in 0 .. 255
    <3>1. Len(stream) \in Nat /\ \A i \in 1 .. Len(stream) : stream[i] \in 0 .. 255
      BY <1>1, BytesOf
    <3>2. \A i \in a .. b : i \in 1 .. Len(stream)
      BY <3>1
    <3>3. QED
      BY <3>1, <3>2
  <2>3. SubSeq(stream, a, b) \in NalUnit
    BY <2>2, SubSeqProperties DEF NalUnit
  <2>4. QED
    BY <2>1, <2>3 DEF Bytes
<1>4. Nals = NalUnits(u)
  BY <1>3 DEF Nals
<1>5. /\ Nals \in Seq(NalUnit) /\ Len(Nals) \in Nat
      /\ \E p \in NalStarts(u) : Nals[nal] = NalAt(u, p)
  BY <1>1, <1>4, UnitsAre, LenProperties
<1>6. /\ Nals[nal] \in NalUnit /\ Len(Nals[nal]) \in Nat \ {0}
  BY <1>5, NalIs
<1>7. Nals[nal][1] \in 0 .. 255
  <2>1. 1 \in 1 .. Len(Nals[nal])
    BY <1>6
  <2>2. QED
    BY <1>6, <2>1, BytesOf
<1>8. Body \in NalUnit /\ Len(Body) = Len(Nals[nal]) - 1
  <2>1. Nals[nal] # << >>
    BY <1>6, EmptySeq
  <2>2. QED
    BY <1>6, <2>1, HeadTailProperties DEF Body, NalUnit
<1>9. QED
  BY <1>1, <1>3, <1>5, <1>6, <1>7, <1>8

(* A fragment: it is not empty, and fits.                                   *)
LEMMA Fragment ==
  ASSUME H264Inv, at = "packetize", ~ Whole
  PROVE  /\ off \in Nat /\ off < Len(Body) /\ Len(Body) \in Nat
         /\ Take \in Nat \ {0} /\ Take <= Mtu - HeaderLen - 2
         /\ off + Take <= Len(Body) /\ Len(Nals[nal]) > 1
<1>1. /\ Len(Nals[nal]) \in Nat \ {0} /\ Len(Body) = Len(Nals[nal]) - 1
  BY Sending
<1>2. Mtu \in Nat /\ HeaderLen \in Nat /\ Mtu >= HeaderLen + 3
  BY H264Assumption
<1>3. Len(Nals[nal]) > Mtu - HeaderLen
  BY <1>1, <1>2 DEF Whole, SingleMax
<1>4. off \in Nat /\ (off > 0 => off < Len(Body))
  BY H264Types DEF H264Inv, SplitInv, SendPlaced
<1>5. off < Len(Body) /\ Len(Body) \in Nat
  BY <1>1, <1>2, <1>3, <1>4
<1>6. PICK m \in Nat \ {0} : m = Mtu - HeaderLen - 2 /\ FragMax = m
  BY <1>2 DEF FragMax
<1>7. PICK k \in Nat \ {0} : k = Len(Body) - off
  BY <1>4, <1>5
<1>8. Take = IF k <= m THEN k ELSE m
  BY <1>6, <1>7 DEF Take
<1>9. Take \in Nat \ {0} /\ Take <= m /\ Take <= k
  BY <1>8
<1>10. QED
  BY <1>1, <1>2, <1>3, <1>4, <1>5, <1>6, <1>7, <1>9

(* What goes into a packet.                                                 *)
LEMMA PayloadIs ==
  ASSUME H264Inv, at = "packetize"
  PROVE  /\ Payload \in NalUnit /\ Len(Payload) \in Nat \ {0}
         /\ HeaderLen + Len(Payload) <= Mtu
         /\ Whole => Payload = Nals[nal]
         /\ ~ Whole =>
              /\ Payload[1] = Indicator /\ Payload[2] = FuHeader
              /\ SubSeq(Payload, 3, Len(Payload)) = SubSeq(Body, off + 1, off + Take)
              /\ Indicator % 32 = FuA
              /\ Indicator - (Indicator % 32) + (FuHeader % 32) = Nals[nal][1]
              /\ FuHeader >= 128 <=> off = 0
              /\ (FuHeader \div 64) % 2 = 1 <=> Ends
              /\ (FuHeader \div 64) % 2 = 0 <=> ~ Ends
<1>1. /\ Nals[nal] \in NalUnit /\ Len(Nals[nal]) \in Nat \ {0}
      /\ Nals[nal][1] \in 0 .. 255
      /\ Body \in NalUnit
  BY Sending
<1>2. Mtu \in Nat /\ HeaderLen \in Nat
  BY H264Assumption
<1>3. CASE Whole
  <2>1. Payload = Nals[nal] /\ Len(Nals[nal]) <= Mtu - HeaderLen
    BY <1>3 DEF Payload, Whole, SingleMax
  <2>2. HeaderLen + Len(Nals[nal]) <= Mtu
    BY <1>1, <1>2, <2>1
  <2>3. QED
    BY <1>1, <1>3, <2>1, <2>2
<1>4. CASE ~ Whole
  <2>1. /\ off \in Nat /\ Len(Body) \in Nat /\ Take \in Nat \ {0}
        /\ Take <= Mtu - HeaderLen - 2 /\ off + Take <= Len(Body)
    BY <1>4, Fragment
  <2> DEFINE f == IF off = 0 THEN 128 ELSE 0
             e == IF Ends THEN 64 ELSE 0
             c == SubSeq(Body, off + 1, off + Take)
  <2>2. Indicator = Nals[nal][1] - (Nals[nal][1] % 32) + 28
    BY DEF Indicator, NalType, FuA
  <2>3. FuHeader = (Nals[nal][1] % 32) + f + e
    BY DEF FuHeader, NalType
  <2>4. f \in {0, 128} /\ e \in {0, 64} /\ (f = 128 <=> off = 0) /\ (e = 64 <=> Ends)
        /\ (e = 0 <=> ~ Ends)
    OBVIOUS
  <2>5. Payload = <<Indicator, FuHeader>> \o c
    BY <1>4 DEF Payload
  <2> HIDE DEF f, e
  <2>0. PICK b \in 0 .. 255 : b = Nals[nal][1]
    BY <1>1
  <2>6. /\ Indicator \in 0 .. 255 /\ FuHeader \in 0 .. 255 /\ Indicator % 32 = FuA
        /\ Indicator - (Indicator % 32) + (FuHeader % 32) = Nals[nal][1]
        /\ FuHeader >= 128 <=> f = 128
        /\ (FuHeader \div 64) % 2 = 1 <=> e = 64
        /\ (FuHeader \div 64) % 2 = 0 <=> e = 0
    <3>1. Indicator = b - (b % 32) + 28 /\ FuHeader = (b % 32) + f + e
      BY <2>0, <2>2, <2>3
    <3>2. LET i == b - (b % 32) + 28
              h == (b % 32) + f + e
          IN /\ i \in 0 .. 255 /\ h \in 0 .. 255
             /\ i % 32 = 28 /\ i - (i % 32) + (h % 32) = b
             /\ h >= 128 <=> f = 128
             /\ (h \div 64) % 2 = 1 <=> e = 64
             /\ (h \div 64) % 2 = 0 <=> e = 0
      BY <2>4, FuBytes
    <3>3. QED
      BY <2>0, <3>1, <3>2 DEF FuA
  <2>7. /\ c \in NalUnit /\ Len(c) = Take
        /\ \A k \in 1 .. Take : c[k] = Body[off + k]
    <3>1. \A k \in off + 1 .. off + Take : Body[k] \in 0 .. 255
      BY <1>1, <2>1, BytesOf
    <3>2. off + 1 \in Int /\ off + Take \in Int /\ off + 1 <= off + Take
          /\ (off + Take) - (off + 1) + 1 = Take
      BY <2>1
    <3>3. /\ c \in Seq(0 .. 255)
          /\ Len(c) = (off + Take) - (off + 1) + 1
          /\ \A k \in 1 .. (off + Take) - (off + 1) + 1 : c[k] = Body[(off + 1) + k - 1]
      BY <3>1, <3>2, SubSeqProperties
    <3>4. \A k \in 1 .. Take : (off + 1) + k - 1 = off + k
      BY <2>1
    <3>5. QED
      BY <3>2, <3>3, <3>4 DEF NalUnit
  <2> HIDE DEF c
  <2>8. /\ Payload \in NalUnit /\ Len(Payload) = Take + 2
        /\ Payload[1] = Indicator /\ Payload[2] = FuHeader
        /\ \A k \in 1 .. Take : Payload[k + 2] = c[k]
    <3>1. <<Indicator, FuHeader>> \in Seq(0 .. 255) /\ c \in Seq(0 .. 255)
      BY <2>6, <2>7 DEF NalUnit
    <3>2. /\ Payload \in Seq(0 .. 255)
          /\ Len(Payload) = Len(<<Indicator, FuHeader>>) + Len(c)
          /\ \A k \in 1 .. Len(<<Indicator, FuHeader>>) + Len(c) :
               Payload[k] = IF k <= Len(<<Indicator, FuHeader>>)
                            THEN <<Indicator, FuHeader>>[k]
                            ELSE c[k - Len(<<Indicator, FuHeader>>)]
      BY <2>5, <3>1, ConcatProperties
    <3>3. Len(<<Indicator, FuHeader>>) = 2
      OBVIOUS
    <3>4. \A k \in 1 .. 2 + Take :
            Payload[k] = IF k <= 2 THEN <<Indicator, FuHeader>>[k] ELSE c[k - 2]
      BY <2>7, <3>2, <3>3
    <3>5. Payload[1] = Indicator /\ Payload[2] = FuHeader
      BY <2>1, <3>4
    <3>6. \A k \in 1 .. Take : Payload[k + 2] = c[k]
      <4>1. \A k \in 1 .. Take : k + 2 \in 1 .. 2 + Take /\ ~ k + 2 <= 2
                                 /\ (k + 2) - 2 = k
        BY <2>1
      <4>2. QED
        BY <3>4, <4>1
    <3>7. QED
      BY <2>1, <2>7, <3>2, <3>3, <3>5, <3>6 DEF NalUnit
  <2>9. SubSeq(Payload, 3, Len(Payload)) = c
    <3>1. /\ SubSeq(Payload, 3, Take + 2) \in Seq(0 .. 255)
          /\ Len(SubSeq(Payload, 3, Take + 2)) = Take
          /\ \A k \in 1 .. Take : SubSeq(Payload, 3, Take + 2)[k] = Payload[k + 2]
      <4>1. \A k \in 3 .. Take + 2 : Payload[k] \in 0 .. 255
        <5>1. \A k \in 3 .. Take + 2 : k \in 1 .. Len(Payload)
          BY <2>1, <2>8
        <5>2. QED
          BY <2>8, <5>1, BytesOf
      <4>2. 3 \in Int /\ Take + 2 \in Int /\ 3 <= Take + 2 /\ (Take + 2) - 3 + 1 = Take
            /\ \A k \in 1 .. Take : 3 + k - 1 = k + 2
        BY <2>1
      <4>3. /\ SubSeq(Payload, 3, Take + 2) \in Seq(0 .. 255)
            /\ Len(SubSeq(Payload, 3, Take + 2)) = (Take + 2) - 3 + 1
            /\ \A k \in 1 .. (Take + 2) - 3 + 1 :
                 SubSeq(Payload, 3, Take + 2)[k] = Payload[3 + k - 1]
        BY <4>1, <4>2, SubSeqProperties
      <4>4. QED
        BY <4>2, <4>3
    <3>2. c \in Seq(0 .. 255) /\ Len(c) = Take
      BY <2>7 DEF NalUnit
    <3>3. \A k \in 1 .. Take : SubSeq(Payload, 3, Take + 2)[k] = c[k]
      BY <2>8, <3>1
    <3>4. SubSeq(Payload, 3, Take + 2) = c
      BY <3>1, <3>2, <3>3, SeqEqual
    <3>5. QED
      BY <2>8, <3>4
  <2>10. HeaderLen + Len(Payload) <= Mtu /\ Len(Payload) \in Nat \ {0}
    BY <1>2, <2>1, <2>8
  <2>11. QED
    BY <1>4, <2>4, <2>6, <2>8, <2>9, <2>10 DEF c
<1>5. QED
  BY <1>3, <1>4

LEMMA SequenceTaken ==
  ASSUME H264TypeOK, TakeSequence
  PROVE  seq' \in 0 .. SeqMod - 1
<1>1. seq \in Nat /\ SeqMod \in Nat \ {0}
  BY H264Assumption, H264Types
<1>2. (seq + 1) % SeqMod \in 0 .. SeqMod - 1
  BY <1>1
<1>3. QED
  BY <1>2 DEF TakeSequence

(* Where a packet leaves the payloader.                                     *)
LEMMA EmitMoves ==
  ASSUME H264Inv, Emit
  PROVE  /\ at = "packetize" /\ stream' = stream /\ pieces' = pieces
         /\ it' = it /\ units' = units /\ given' = given /\ Nals' = Nals
         /\ \/ /\ Whole \/ Ends
               /\ nal' = nal + 1 /\ off' = 0
               /\ nal = Len(Nals) /\ at' = "split"
            \/ /\ Whole \/ Ends
               /\ nal' = nal + 1 /\ off' = 0
               /\ nal < Len(Nals) /\ at' = "packetize"
            \/ /\ ~ Whole /\ ~ Ends /\ nal' = nal /\ at' = at
               /\ off' = off + Take /\ off + Take < Len(Body)
<1>1. /\ at = "packetize" /\ stream' = stream /\ pieces' = pieces
      /\ it' = it /\ units' = units /\ given' = given
  BY DEF Emit, splitVars
<1>2. Nals' = Nals
  BY <1>1 DEF Nals, Bytes
<1>3. nal \in 1 .. Len(Nals) /\ Len(Nals) \in Nat
  BY <1>1, Sending
<1>4. CASE (Whole \/ Ends) /\ LastNal
  BY <1>1, <1>2, <1>3, <1>4 DEF Emit, LastNal
<1>5. CASE (Whole \/ Ends) /\ ~ LastNal
  <2>1. nal < Len(Nals)
    BY <1>3, <1>5 DEF LastNal
  <2>2. nal' = nal + 1 /\ off' = 0 /\ at' = "packetize"
    BY <1>5 DEF Emit
  <2>3. QED
    BY <1>1, <1>2, <1>5, <2>1, <2>2
<1>6. CASE ~ (Whole \/ Ends)
  <2>1. off + Take <= Len(Body) /\ off + Take # Len(Body)
        /\ off \in Nat /\ Take \in Nat /\ Len(Body) \in Nat
    BY <1>1, <1>6, Fragment DEF Ends
  <2>2. off + Take < Len(Body)
    BY <2>1
  <2>3. nal' = nal /\ at' = at /\ off' = off + Take
    BY <1>6 DEF Emit
  <2>4. QED
    BY <1>1, <1>2, <1>6, <2>2, <2>3
<1>7. QED
  BY <1>4, <1>5, <1>6

LEMMA EmitSplit ==
  ASSUME H264Inv, Emit
  PROVE  H264Inv'
<1>1. H264TypeOK /\ nal \in Nat \ {0} /\ off \in Nat
  BY H264Types DEF H264Inv, SplitInv
<1>2. /\ at = "packetize" /\ stream' = stream /\ pieces' = pieces
      /\ it' = it /\ units' = units /\ given' = given /\ Nals' = Nals
  BY EmitMoves
<1>3. /\ Placed(stream, it, units, given) /\ Remembers(stream, it, units)
      /\ Joins(stream, units) /\ OneEach(stream, units)
  BY <1>2, SplitParts DEF H264Inv, SplitInv
<1>4. at' \in {"split", "packetize"}
  BY <1>2, EmitMoves
<1>5. SplitterPlaced' /\ SplitterRemembers' /\ SplitLosesNothing' /\ OnePictureEach'
  BY <1>2, <1>3, <1>4, SplitPartsNext
<1>6. nal' \in Nat \ {0} /\ off' \in Nat
  <2>1. CASE nal' = nal + 1 /\ off' = 0
    BY <1>1, <2>1
  <2>2. CASE ~ Whole /\ nal' = nal /\ off' = off + Take
    <3>1. Take \in Nat
      BY <1>2, <2>2, Fragment
    <3>2. QED
      BY <1>1, <2>2, <3>1
  <2>3. QED
    BY <2>1, <2>2, EmitMoves
<1>7. sent' \in Seq([seq : 0 .. SeqMod - 1, marker : BOOLEAN, payload : NalUnit])
  <2>1. sent' = Append(sent, [seq |-> seq, marker |-> Marker, payload |-> Payload])
    BY DEF Emit
  <2>2. /\ sent \in Seq([seq : 0 .. SeqMod - 1, marker : BOOLEAN, payload : NalUnit])
        /\ seq \in 0 .. SeqMod - 1
    BY <1>1, H264Types
  <2>3. Payload \in NalUnit
    BY <1>2, PayloadIs
  <2>4. Marker \in BOOLEAN
    BY DEF Marker, LastNal
  <2>5. [seq |-> seq, marker |-> Marker, payload |-> Payload]
          \in [seq : 0 .. SeqMod - 1, marker : BOOLEAN, payload : NalUnit]
    BY <2>2, <2>3, <2>4
  <2>6. QED
    BY <2>1, <2>2, <2>5, AppendProperties
<1>8. seq' \in 0 .. SeqMod - 1
  BY <1>1, SequenceTaken DEF Emit
<1>9. H264TypeOK'
  BY <1>1, <1>2, <1>4, <1>6, <1>7, <1>8, H264Types, H264TypesNext
<1>10. SendPlaced'
  <2>1. SUFFICES ASSUME at' = "packetize"
                 PROVE  /\ units' # << >> /\ nal' \in 1 .. Len(Nals')
                        /\ off' > 0 => ~ Whole' /\ off' < Len(Body')
    BY DEF SendPlaced
  <2>2. units # << >> /\ nal \in 1 .. Len(Nals) /\ Len(Nals) \in Nat
    BY <1>2, Sending DEF H264Inv, SplitInv, SendPlaced
  <2>3. CASE nal' = nal + 1 /\ off' = 0 /\ nal < Len(Nals)
    <3>1. nal' \in 1 .. Len(Nals) /\ ~ off' > 0
      BY <2>2, <2>3
    <3>2. QED
      BY <1>2, <2>2, <3>1
  <2>4. CASE ~ Whole /\ nal' = nal /\ off' = off + Take /\ off + Take < Len(Body)
    <3>1. Whole' <=> Whole
      BY <1>2, <2>4 DEF Whole
    <3>2. Body' = Body
      BY <1>2, <2>4 DEF Body
    <3>3. QED
      BY <1>2, <2>2, <2>4, <3>1, <3>2
  <2>5. QED
    BY <2>1, <2>3, <2>4, EmitMoves
<1>11. QED
  BY <1>5, <1>9, <1>10 DEF H264Inv, SplitInv

LEMMA RestUnchanged ==
  ASSUME H264Inv, at' # "packetize", at # "encode", at' # "encode",
         at' # "done" \/ at' = at,
         at' \in {"encode", "split", "packetize", "done", "failed"},
         seq' \in 0 .. SeqMod - 1,
         UNCHANGED <<stream, pieces, splitVars, nal, off, sent>>
  PROVE  H264Inv'
<1>1. /\ stream' = stream /\ pieces' = pieces /\ it' = it /\ units' = units
      /\ given' = given /\ nal' = nal /\ off' = off /\ sent' = sent
  BY DEF splitVars
<1>2. H264TypeOK'
  BY <1>1, H264Types, H264TypesNext DEF H264Inv, SplitInv
<1>3. SplitterPlaced' /\ SplitterRemembers' /\ SplitLosesNothing' /\ OnePictureEach'
  BY <1>1, SplitParts, SplitPartsNext DEF H264Inv, SplitInv
<1>4. SendPlaced'
  BY DEF SendPlaced
<1>5. QED
  BY <1>2, <1>3, <1>4 DEF H264Inv, SplitInv

LEMMA H264Stutters ==
  ASSUME H264Inv, UNCHANGED h264Vars
  PROVE  H264Inv'
<1>1. /\ at' = at /\ stream' = stream /\ pieces' = pieces /\ it' = it
      /\ units' = units /\ given' = given /\ nal' = nal /\ off' = off
      /\ seq' = seq /\ sent' = sent
  BY DEF h264Vars, splitVars, sendVars
<1>2. H264TypeOK'
  BY <1>1, H264Types, H264TypesNext DEF H264Inv, SplitInv
<1>3. SplitterPlaced' /\ SplitterRemembers' /\ SplitLosesNothing' /\ OnePictureEach'
  BY <1>1, SplitParts, SplitPartsNext DEF H264Inv, SplitInv
<1>4. SendPlaced'
  BY <1>1 DEF H264Inv, SplitInv, SendPlaced, Nals, Bytes, Whole, SingleMax, Body
<1>5. QED
  BY <1>2, <1>3, <1>4 DEF H264Inv, SplitInv

LEMMA H264Step == H264Inv /\ [H264Next]_h264Vars => H264Inv'
<1> SUFFICES ASSUME H264Inv, [H264Next]_h264Vars
             PROVE  H264Inv'
  OBVIOUS
<1>1. CASE Encode
  BY <1>1, EncodeSplit
<1>2. CASE BeginSplit
  BY <1>2, BeginSplitSplit
<1>3. CASE PassNal
  BY <1>3, PassNalSplit
<1>4. CASE GiveUnit
  BY <1>4, GiveUnitSplit
<1>5. CASE GiveRest
  BY <1>5, GiveRestSplit
<1>6. CASE GiveNothing
  BY <1>6, GiveNothingSplit
<1>7. CASE Emit
  BY <1>7, EmitSplit
<1>8. CASE EmitFails
  <2>1. seq' \in 0 .. SeqMod - 1
    BY <1>8, SequenceTaken DEF EmitFails, H264Inv, SplitInv
  <2>2. at = "packetize" /\ at' = "failed"
        /\ UNCHANGED <<stream, pieces, splitVars, nal, off, sent>>
    BY <1>8 DEF EmitFails, sendVars
  <2>3. QED
    BY <2>1, <2>2, RestUnchanged
<1>9. CASE UNCHANGED h264Vars
  BY <1>9, H264Stutters
<1>10. QED
  BY <1>1, <1>2, <1>3, <1>4, <1>5, <1>6, <1>7, <1>8, <1>9 DEF H264Next, Split

(* Whatever the stream: the splitter and the payloader are where SplitInv   *)
(* says, and no NAL unit is cut, lost or given twice at the boundary of an  *)
(* access unit.                                                             *)
THEOREM H264SplitInvariant == H264Spec => []SplitInv
<1>1. H264Inv => SplitInv
  BY DEF H264Inv
<1>2. QED
  BY InitH264, H264Step, <1>1, PTL DEF H264Spec

(* No access unit has slices of two pictures, and none but the first lacks  *)
(* the first slice of its own.                                              *)
THEOREM H264OnePicture == H264Spec => []OnePictureEach
<1>1. H264Inv => OnePictureEach
  BY DEF H264Inv
<1>2. QED
  BY InitH264, H264Step, <1>1, PTL DEF H264Spec

(* The stream `t` is `s`, a start code, and the NAL unit `p` from k + 1 on. *)
Grown(s, p, k, t) ==
  /\ k >= Len(s) + 3 /\ t \in NalUnit /\ Len(t) = k + Len(p)
  /\ \A i \in 1 .. k + Len(p) :
       /\ i <= Len(s) => t[i] = s[i]
       /\ Len(s) < i /\ i < k => t[i] = 0
       /\ i = k => t[i] = 1
       /\ i > k => t[i] = p[i - k]

LEMMA EncodedBytes ==
  ASSUME NEW s \in NalUnit, NEW p \in NalUnit, NEW z \in Seq({0})
  PROVE  \E k \in Nat : Grown(s, p, k, s \o z \o <<0, 0, 1>> \o p)
<1>1. PICK n \in Nat, m \in Nat, l \in Nat : n = Len(s) /\ m = Len(z) /\ l = Len(p)
  BY LenProperties, BytesOf
<1>2. \A i \in 1 .. m : z[i] = 0
  BY <1>1, ElementOfSeq
<1>3. z \in NalUnit /\ <<0, 0, 1>> \in NalUnit
  <2>1. z \in Seq({0}) /\ {0} \subseteq 0 .. 255
    OBVIOUS
  <2>2. QED
    BY <2>1 DEF NalUnit
<1>4. PICK w : w = s \o z
  OBVIOUS
<1>5. /\ w \in NalUnit /\ Len(w) = n + m
      /\ \A i \in 1 .. n + m : w[i] = IF i <= n THEN s[i] ELSE z[i - n]
  BY <1>1, <1>3, <1>4, ConcatProperties DEF NalUnit
<1>6. PICK e : e = <<0, 0, 1>>
  OBVIOUS
<1>7. e \in NalUnit /\ Len(e) = 3 /\ e[1] = 0 /\ e[2] = 0 /\ e[3] = 1
  BY <1>3, <1>6
<1>8. PICK v : v = w \o e
  OBVIOUS
<1>9. /\ v \in NalUnit /\ Len(v) = (n + m) + 3
      /\ \A i \in 1 .. (n + m) + 3 : v[i] = IF i <= n + m THEN w[i] ELSE e[i - (n + m)]
  <2>1. /\ v \in Seq(0 .. 255) /\ Len(v) = Len(w) + Len(e)
        /\ \A i \in 1 .. Len(w) + Len(e) :
             v[i] = IF i <= Len(w) THEN w[i] ELSE e[i - Len(w)]
    BY <1>5, <1>7, <1>8, ConcatProperties DEF NalUnit
  <2>2. QED
    BY <1>5, <1>7, <2>1 DEF NalUnit
<1>10. PICK k \in Nat : k = n + m + 3 /\ k >= n + 3
  <2>1. n + m + 3 \in Nat /\ n + m + 3 >= n + 3
    OBVIOUS
  <2>2. QED
    BY <2>1
<1>11. PICK t : t = v \o p
  OBVIOUS
<1>12. /\ t \in NalUnit /\ Len(t) = k + l
       /\ \A i \in 1 .. k + l : t[i] = IF i <= k THEN v[i] ELSE p[i - k]
  <2>1. /\ t \in Seq(0 .. 255) /\ Len(t) = Len(v) + Len(p)
        /\ \A i \in 1 .. Len(v) + Len(p) :
             t[i] = IF i <= Len(v) THEN v[i] ELSE p[i - Len(v)]
    BY <1>9, <1>11, ConcatProperties DEF NalUnit
  <2>2. QED
    BY <1>1, <1>9, <1>10, <2>1 DEF NalUnit
<1>13. ASSUME NEW i \in 1 .. k + l
       PROVE  /\ i <= n => t[i] = s[i]
              /\ n < i /\ i < k => t[i] = 0
              /\ i = k => t[i] = 1
              /\ i > k => t[i] = p[i - k]
  <2>1. t[i] = IF i <= k THEN v[i] ELSE p[i - k]
    BY <1>12
  <2>2. i <= k => v[i] = IF i <= n + m THEN w[i] ELSE e[i - (n + m)]
    BY <1>9, <1>10
  <2>3. i <= n + m => w[i] = IF i <= n THEN s[i] ELSE z[i - n]
    BY <1>5
  <2>4. n < i /\ i <= n + m => z[i - n] = 0
    BY <1>2
  <2>5. n + m < i /\ i <= k => i - (n + m) = 1 \/ i - (n + m) = 2 \/ i = k
    BY <1>10
  <2>6. i = k => i - (n + m) = 3
    BY <1>10
  <2>7. i <= n => t[i] = s[i]
    BY <1>10, <2>1, <2>2, <2>3
  <2>8. n < i /\ i <= n + m => t[i] = 0
    BY <1>10, <2>1, <2>2, <2>3, <2>4
  <2>9. n + m < i /\ i < k => t[i] = 0
    BY <1>7, <1>10, <2>1, <2>2, <2>5
  <2>10. i = k => t[i] = 1
    BY <1>7, <1>10, <2>1, <2>2, <2>6
  <2>11. i > k => t[i] = p[i - k]
    BY <1>10, <2>1
  <2>12. QED
    BY <2>7, <2>8, <2>9, <2>10, <2>11
<1>14. t = s \o z \o <<0, 0, 1>> \o p
  BY <1>4, <1>6, <1>8, <1>11
<1>15. Grown(s, p, k, t)
  BY <1>1, <1>10, <1>12, <1>13 DEF Grown
<1>16. QED
  BY <1>14, <1>15

(* A start code in it: where that lies.                                     *)
LEMMA Encoded ==
  ASSUME NEW s \in NalUnit, NEW p \in NalUnit, Codes(p, 1) = {}, NEW t,
         NEW k \in Nat, Grown(s, p, k, t),
         NEW c \in Codes(t, 1), c + 3 <= Len(t)
  PROVE  \/ c \in Codes(s, 1) /\ c + 3 <= Len(s) /\ t[c + 3] = s[c + 3]
         \/ t[c + 3] = 0
         \/ p # << >> /\ t[c + 3] = p[1]
<1>0. PICK n \in Nat, l \in Nat :
        /\ n = Len(s) /\ l = Len(p) /\ k >= n + 3 /\ Len(t) = k + l
        /\ \A i \in 1 .. k + l :
             /\ i <= n => t[i] = s[i]
             /\ n < i /\ i < k => t[i] = 0
             /\ i = k => t[i] = 1
             /\ i > k => t[i] = p[i - k]
  BY BytesOf DEF Grown
<1>1. /\ c \in Nat /\ 1 <= c /\ c + 3 <= k + l
      /\ t[c] = 0 /\ t[c + 1] = 0 /\ t[c + 2] = 1
  <2>1. c \in 1 .. Len(t) - 2 /\ t[c] = 0 /\ t[c + 1] = 0 /\ t[c + 2] = 1
    BY DEF Codes
  <2>2. QED
    BY <1>0, <2>1
<1>2. /\ c \in 1 .. k + l /\ c + 1 \in 1 .. k + l /\ c + 2 \in 1 .. k + l
      /\ c + 3 \in 1 .. k + l
  BY <1>1
<1>3. CASE c + 3 <= n
  <2>1. c <= n /\ c + 1 <= n /\ c + 2 <= n
    BY <1>0, <1>1, <1>3
  <2>2. t[c] = s[c] /\ t[c + 1] = s[c + 1] /\ t[c + 2] = s[c + 2] /\ t[c + 3] = s[c + 3]
    BY <1>0, <1>2, <1>3, <2>1
  <2>3. c \in 1 .. Len(s) - 2
    BY <1>0, <1>1, <1>3
  <2>4. c \in Codes(s, 1)
    BY <1>1, <2>2, <2>3 DEF Codes
  <2>5. QED
    BY <1>0, <1>3, <2>2, <2>4
<1>4. CASE c + 2 = n
  <2>1. n < c + 3 /\ c + 3 < k
    BY <1>0, <1>1, <1>4
  <2>2. QED
    BY <1>0, <1>2, <2>1
<1>5. CASE c + 2 > n
  <2>1. ~ c + 2 < k
    <3>1. c + 2 < k => t[c + 2] = 0
      BY <1>0, <1>2, <1>5
    <3>2. QED
      BY <1>1, <3>1
  <2>2. CASE c + 2 = k
    <3>1. c + 3 > k /\ (c + 3) - k = 1 /\ l >= 1
      BY <1>0, <1>1, <2>2
    <3>2. t[c + 3] = p[(c + 3) - k]
      BY <1>0, <1>2, <3>1
    <3>3. Len(<< >>) = 0 /\ ~ Len(p) = 0
      BY <1>0, <3>1
    <3>4. p # << >>
      BY <3>3
    <3>5. QED
      BY <2>2, <3>1, <3>2, <3>4
  <2>3. CASE c + 2 > k
    <3>1. c + 1 # k /\ c # k
      BY <1>0, <1>1, <1>2
    <3>2. c > k /\ c + 1 > k
      BY <1>1, <2>3, <3>1
    <3>3. t[c] = p[c - k] /\ t[c + 1] = p[(c + 1) - k] /\ t[c + 2] = p[(c + 2) - k]
      BY <1>0, <1>2, <2>3, <3>2
    <3>4. PICK d \in Nat : d = c - k /\ d >= 1 /\ d <= l - 2
      BY <1>0, <1>1, <3>2
    <3>5. p[d] = 0 /\ p[d + 1] = 0 /\ p[d + 2] = 1
      <4>1. (c + 1) - k = d + 1 /\ (c + 2) - k = d + 2
        BY <1>1, <3>4
      <4>2. QED
        BY <1>1, <3>3, <3>4, <4>1
    <3>6. d \in Codes(p, 1)
      <4>1. d \in 1 .. Len(p) - 2
        BY <1>0, <3>4
      <4>2. QED
        BY <3>5, <4>1 DEF Codes
    <3>7. QED
      BY <3>6
  <2>4. QED
    BY <1>1, <2>1, <2>2, <2>3
<1>6. c + 3 <= n \/ c + 2 = n \/ c + 2 > n
  BY <1>1
<1>7. QED
  BY <1>3, <1>4, <1>5, <1>6

LEMMA EncodeTypes ==
  ASSUME H264Inv, NoPacketTypes, Encode
  PROVE  NoPacketTypes'
<1>1. stream \in NalUnit
  BY H264Types DEF H264Inv, SplitInv
<1>2. PICK p \in Payloads, z \in Prefixes : stream' = stream \o z \o <<0, 0, 1>> \o p
  BY DEF Encode
<1>3. p \in NalUnit /\ z \in Seq({0}) /\ Codes(p, 1) = {}
      /\ (p # << >> => p[1] % 32 \notin PacketTypes)
  BY H264Assumption, NalUnitAssumption DEF NalUnit, NalType
<1>4. PICK t : t = stream \o z \o <<0, 0, 1>> \o p
  OBVIOUS
<1>5. PICK k \in Nat : Grown(stream, p, k, t)
  BY <1>1, <1>3, <1>4, EncodedBytes
<1>6. ASSUME NEW c \in Codes(t, 1), c + 3 <= Len(t)
      PROVE  t[c + 3] % 32 \notin PacketTypes
  <2>1. CASE c \in Codes(stream, 1) /\ c + 3 <= Len(stream) /\ t[c + 3] = stream[c + 3]
    BY <2>1 DEF NoPacketTypes
  <2>2. CASE t[c + 3] = 0
    BY <2>2 DEF PacketTypes
  <2>3. CASE p # << >> /\ t[c + 3] = p[1]
    BY <1>3, <2>3
  <2>4. QED
    BY <1>1, <1>3, <1>5, <1>6, <2>1, <2>2, <2>3, Encoded
<1>7. QED
  BY <1>2, <1>4, <1>6 DEF NoPacketTypes

(* So none of the NAL units being sent has that type.                       *)
LEMMA NoneIsPacket ==
  ASSUME H264Inv, NoPacketTypes, at = "packetize"
  PROVE  Nals[nal][1] % 32 \notin PacketTypes
<1>1. stream \in NalUnit /\ units \in Seq(UnitIn(stream)) /\ units # << >>
  BY H264Types DEF H264Inv, SplitInv, SendPlaced
<1>2. units[Len(units)] \in UnitIn(stream)
  <2>1. Len(units) \in 1 .. Len(units)
    BY <1>1, LenProperties, EmptySeq
  <2>2. QED
    BY <1>1, <2>1, ElementOfSeq
<1>3. PICK a \in 1 .. Len(stream), b \in 1 .. Len(stream) :
        Bytes(units[Len(units)]) = SubSeq(stream, a, b)
  BY <1>2 DEF UnitIn, Bytes
<1> DEFINE u == SubSeq(stream, a, b)
<1>4. u \in NalUnit /\ \E p \in NalStarts(u) : Nals[nal] = NalAt(u, p)
  BY <1>3, Sending
<1>5. PICK p \in NalStarts(u) : Nals[nal] = NalAt(u, p)
  BY <1>4
<1> HIDE DEF u
<1>6. p \in 4 .. Len(u) /\ p - 3 \in Codes(u, 1) /\ Nals[nal][1] = u[p]
  BY <1>4, <1>5, StartsAre, NalIs
<1>7. Len(stream) \in Nat /\ a \in Nat /\ b \in Nat /\ Len(u) \in Nat
  BY <1>1, <1>4, BytesOf
<1>8. b >= a
  <2>1. b < a => u = << >>
    BY <1>7, SubSeqEmpty DEF u
  <2>2. Len(<< >>) = 0
    OBVIOUS
  <2>3. u # << >>
    BY <1>6, <1>7, <2>2
  <2>4. QED
    BY <1>7, <2>1, <2>3
<1>9. /\ Len(u) = b - a + 1
      /\ \A i \in 1 .. b - a + 1 : u[i] = stream[a + i - 1]
      /\ \A q \in a .. b + 1 : \A c \in q .. b - 2 :
           c \in Codes(stream, q) <=> c - a + 1 \in Codes(u, q - a + 1)
  <2>1. b \in a .. Len(stream)
    BY <1>7, <1>8
  <2>2. QED
    BY <1>1, <2>1, CodesOfPart DEF u
<1>10. PICK c \in Nat : c = (p - 3) + a - 1 /\ c \in a .. b - 2 /\ c + 3 <= Len(stream)
                        /\ c - a + 1 = p - 3 /\ a - a + 1 = 1 /\ a + p - 1 = c + 3
  BY <1>6, <1>7, <1>8, <1>9
<1>11. c \in Codes(stream, a)
  <2>1. a \in a .. b + 1
    BY <1>7, <1>8
  <2>2. QED
    BY <1>6, <1>9, <1>10, <2>1
<1>12. c \in Codes(stream, 1)
  BY <1>1, <1>7, <1>11, CodesAre
<1>13. Nals[nal][1] = stream[c + 3]
  <2>1. p \in 1 .. b - a + 1
    BY <1>6, <1>9
  <2>2. QED
    BY <1>6, <1>9, <1>10, <2>1
<1>14. QED
  BY <1>10, <1>12, <1>13 DEF NoPacketTypes

------------------------------------------------------------------------------
(* H.264: the packets of an access unit, and what a receiver makes of them. *)

LEMMA SeqDivMod ==
  ASSUME NEW a \in Int
  PROVE  /\ a = SeqMod * (a \div SeqMod) + (a % SeqMod)
         /\ a \div SeqMod \in Int /\ a % SeqMod \in 0 .. SeqMod - 1
BY H264Assumption

LEMMA SeqModIs ==
  ASSUME NEW q \in Int, NEW r \in 0 .. SeqMod - 1
  PROVE  (SeqMod * q + r) % SeqMod = r
<1> DEFINE k == (SeqMod * q + r) \div SeqMod
           s == (SeqMod * q + r) % SeqMod
<1>1. SeqMod \in Nat \ {0} /\ SeqMod * q + r \in Int
  BY H264Assumption
<1>2. SeqMod * q + r = SeqMod * k + s /\ k \in Int /\ s \in 0 .. SeqMod - 1
  BY <1>1, SeqDivMod
<1> HIDE DEF k, s
<1>3. SeqMod * (q - k) = s - r
  BY <1>1, <1>2
<1>4. CASE q - k >= 1
  <2>1. SeqMod * (q - k) >= SeqMod
    BY <1>1, <1>2, <1>4
  <2>2. QED
    BY <1>1, <1>2, <1>3, <2>1
<1>5. CASE q - k <= -1
  <2>1. SeqMod * (q - k) <= -SeqMod
    BY <1>1, <1>2, <1>5
  <2>2. QED
    BY <1>1, <1>2, <1>3, <2>1
<1>6. CASE q - k = 0
  <2>1. SeqMod * (q - k) = 0
    BY <1>1, <1>6
  <2>2. s = r
    BY <1>1, <1>2, <1>3, <2>1
  <2>3. QED
    BY <2>2 DEF s
<1>7. QED
  BY <1>2, <1>4, <1>5, <1>6

(* The number after the one that is n on from another.                      *)
LEMMA SeqOnward ==
  ASSUME NEW a \in Nat, NEW n \in Nat
  PROVE  (((a + n) % SeqMod) + 1) % SeqMod = (a + (n + 1)) % SeqMod
<1> DEFINE q == (a + n) \div SeqMod
           s == (a + n) % SeqMod
           k == (s + 1) \div SeqMod
           r == (s + 1) % SeqMod
<1>0. SeqMod \in Nat \ {0} /\ a + n \in Int
  BY H264Assumption
<1>1. a + n = SeqMod * q + s /\ q \in Int /\ s \in 0 .. SeqMod - 1
  BY <1>0, SeqDivMod
<1> HIDE DEF q, s
<1>2. s + 1 \in Int
  BY <1>0, <1>1
<1>3. s + 1 = SeqMod * k + r /\ k \in Int /\ r \in 0 .. SeqMod - 1
  BY <1>2, SeqDivMod
<1> HIDE DEF k, r
<1>4. (SeqMod * (q + k) + r) % SeqMod = r
  <2>1. q + k \in Int
    BY <1>1, <1>3
  <2>2. QED
    BY <1>3, <2>1, SeqModIs
<1>5. a + (n + 1) = SeqMod * (q + k) + r
  BY <1>0, <1>1, <1>3
<1>6. (a + (n + 1)) % SeqMod = r
  BY <1>4, <1>5
<1>7. QED
  BY <1>6 DEF r, s

LEMMA SeqSame ==
  ASSUME NEW a \in 0 .. SeqMod - 1
  PROVE  a % SeqMod = a
<1>1. (SeqMod * 0 + a) % SeqMod = a
  <2>1. 0 \in Int
    OBVIOUS
  <2>2. QED
    BY <2>1, SeqModIs
<1>2. SeqMod * 0 + a = a
  BY H264Assumption
<1>3. QED
  BY <1>1, <1>2

(* A prefix and one element more; a head and the rest.                      *)
LEMMA PrefixGrows ==
  ASSUME NEW T, NEW w \in Seq(T), NEW k \in 1 .. Len(w)
  PROVE  Append(SubSeq(w, 1, k - 1), w[k]) = SubSeq(w, 1, k)
<1>1. Len(w) \in Nat /\ \A i \in 1 .. Len(w) : w[i] \in T
  BY LenProperties, ElementOfSeq
<1>2. SubSeq(w, 1, k - 1) \in Seq(T)
  <2>1. 1 \in Int /\ k - 1 \in Int /\ \A i \in 1 .. k - 1 : w[i] \in T
    BY <1>1
  <2>2. QED
    BY <2>1, SubSeqProperties
<1>3. Append(SubSeq(w, 1, k - 1), w[k]) = SubSeq(w, 1, k - 1) \o <<w[k]>>
  BY <1>1, <1>2, AppendIsConcat
<1>4. SubSeq(w, 1, k) = SubSeq(w, 1, k - 1) \o <<w[k]>>
  <2>1. 1 \in 1 .. Len(w) /\ k \in 1 .. Len(w)
    BY <1>1
  <2>2. QED
    BY <2>1, SubSeqRecursiveSecond
<1>5. QED
  BY <1>3, <1>4

LEMMA HeadAndTail ==
  ASSUME NEW T, NEW w \in Seq(T), w # << >>
  PROVE  w = <<w[1]>> \o Tail(w)
<1>1. Len(w) \in Nat \ {0}
  BY EmptySeq
<1>2. 1 \in 1 .. Len(w) /\ Len(w) \in 1 .. Len(w) /\ 1 + 1 = 2
  BY <1>1
<1>3. SubSeq(w, 1, Len(w)) = <<w[1]>> \o SubSeq(w, 2, Len(w))
  BY <1>2, SubSeqRecursiveFirst
<1>4. QED
  BY <1>3, SubSeqFull, TailIsSubSeq

(* What the receiver does with a packet.                                    *)
LEMMA Received ==
  ASSUME H264Inv, SendInv, Emit
  PROVE  /\ got' \in Seq(NalUnit) /\ open' \in NalUnit
         /\ Whole \/ Ends => got' = SubSeq(Nals, 1, nal)
         /\ ~ Whole /\ ~ Ends =>
              /\ got' = got
              /\ open' = <<Nals[nal][1]>> \o SubSeq(Body, 1, off + Take)
<1>1. at = "packetize" /\ Receive(Payload)
  BY DEF Emit
<1>2. /\ Nals \in Seq(NalUnit) /\ Len(Nals) \in Nat /\ nal \in 1 .. Len(Nals)
      /\ Nals[nal] \in NalUnit /\ Len(Nals[nal]) \in Nat \ {0}
      /\ Nals[nal][1] \in 0 .. 255 /\ Body \in NalUnit
  BY <1>1, Sending
<1>3. /\ got \in Seq(NalUnit) /\ open \in NalUnit
      /\ got = SubSeq(Nals, 1, nal - 1)
      /\ off > 0 => open = <<Nals[nal][1]>> \o SubSeq(Body, 1, off)
  BY <1>1 DEF SendInv, ReceivedSoFar
<1>4. << >> \in NalUnit
  BY DEF NalUnit
<1>5. Append(got, Nals[nal]) \in Seq(NalUnit)
      /\ Append(got, Nals[nal]) = SubSeq(Nals, 1, nal)
  BY <1>2, <1>3, AppendProperties, PrefixGrows
<1>6. CASE Whole
  <2>1. Payload = Nals[nal]
    BY <1>1, <1>6, PayloadIs
  <2>2. Nals[nal][1] % 32 \notin PacketTypes /\ Nals[nal][1] % 32 # FuA
    BY <1>1, NoneIsPacket DEF SendInv, PacketTypes, FuA
  <2>3. got' = Append(got, Nals[nal]) /\ open' = << >>
    BY <1>1, <2>1, <2>2 DEF Receive
  <2>4. QED
    BY <1>4, <1>5, <1>6, <2>3
<1>7. CASE ~ Whole
  <2>1. /\ Payload[1] = Indicator /\ Payload[2] = FuHeader
        /\ SubSeq(Payload, 3, Len(Payload)) = SubSeq(Body, off + 1, off + Take)
        /\ Indicator % 32 = FuA
        /\ Indicator - (Indicator % 32) + (FuHeader % 32) = Nals[nal][1]
        /\ FuHeader >= 128 <=> off = 0
        /\ (FuHeader \div 64) % 2 = 1 <=> Ends
        /\ (FuHeader \div 64) % 2 = 0 <=> ~ Ends
    BY <1>1, <1>7, PayloadIs
  <2>2. /\ off \in Nat /\ Len(Body) \in Nat /\ Take \in Nat \ {0}
        /\ off + Take <= Len(Body) /\ Len(Nals[nal]) > 1
    BY <1>1, <1>7, Fragment
  <2>3. Joined(Payload)
          = (IF off = 0 THEN <<Nals[nal][1]>> ELSE open)
              \o SubSeq(Body, off + 1, off + Take)
    BY <2>1 DEF Joined
  <2>4. PICK b \in 0 .. 255, w \in NalUnit, i \in Nat, k \in Nat \ {0} :
          b = Nals[nal][1] /\ w = Body /\ i = off /\ k = Take
    BY <1>2, <2>2
  <2>5. i \in 0 .. Len(w) /\ i + k \in i .. Len(w) /\ Len(w) \in Nat
    BY <2>2, <2>4
  <2>6. <<b>> \in NalUnit /\ SubSeq(w, 1, i) \in NalUnit
        /\ SubSeq(w, i + 1, i + k) \in NalUnit /\ SubSeq(w, 1, i + k) \in NalUnit
    <3>1. \A m \in 1 .. Len(w) : w[m] \in 0 .. 255
      BY BytesOf
    <3>2. \A m \in 1 .. i : m \in 1 .. Len(w)
      BY <2>5
    <3>3. \A m \in i + 1 .. i + k : m \in 1 .. Len(w)
      BY <2>5
    <3>4. \A m \in 1 .. i + k : m \in 1 .. Len(w)
      BY <2>5
    <3>5. SubSeq(w, 1, i) \in NalUnit
      BY <3>1, <3>2, SubSeqProperties DEF NalUnit
    <3>6. SubSeq(w, i + 1, i + k) \in NalUnit
      <4>1. i + 1 \in Int /\ i + k \in Int
        OBVIOUS
      <4>2. QED
        BY <3>1, <3>3, <4>1, SubSeqProperties DEF NalUnit
    <3>7. SubSeq(w, 1, i + k) \in NalUnit
      <4>1. 1 \in Int /\ i + k \in Int
        OBVIOUS
      <4>2. QED
        BY <3>1, <3>4, <4>1, SubSeqProperties DEF NalUnit
    <3>8. <<b>> \in NalUnit
      BY DEF NalUnit
    <3>9. QED
      BY <3>5, <3>6, <3>7, <3>8
  <2>7. SubSeq(w, 1, i) \o SubSeq(w, i + 1, i + k) = SubSeq(w, 1, i + k)
    <3>1. 1 \in 1 .. Len(w) + 1 /\ i \in 1 - 1 .. Len(w)
      BY <2>5
    <3>2. QED
      BY <2>5, <3>1, ConcatAdjacentSubSeq DEF NalUnit
  <2>8. Joined(Payload) = <<b>> \o SubSeq(w, 1, i + k)
    <3>1. CASE i = 0
      <4>1. i + 1 = 1
        BY <3>1
      <4>2. QED
        BY <2>3, <2>4, <3>1, <4>1
    <3>2. CASE i # 0
      <4>1. open = <<b>> \o SubSeq(w, 1, i)
        BY <1>3, <2>4, <3>2
      <4>2. Joined(Payload) = (<<b>> \o SubSeq(w, 1, i)) \o SubSeq(w, i + 1, i + k)
        BY <2>3, <2>4, <3>2, <4>1
      <4>3. (<<b>> \o SubSeq(w, 1, i)) \o SubSeq(w, i + 1, i + k)
              = <<b>> \o (SubSeq(w, 1, i) \o SubSeq(w, i + 1, i + k))
        <5>1. PICK x \in Seq(0 .. 255), y \in Seq(0 .. 255), z \in Seq(0 .. 255) :
                /\ x = <<b>> /\ y = SubSeq(w, 1, i) /\ z = SubSeq(w, i + 1, i + k)
          BY <2>6 DEF NalUnit
        <5>2. (x \o y) \o z = x \o (y \o z)
          BY ConcatAssociative
        <5>3. QED
          BY <5>1, <5>2
      <4>4. QED
        BY <2>7, <4>2, <4>3
    <3>3. QED
      BY <3>1, <3>2
  <2>9. Joined(Payload) \in NalUnit
    BY <2>6, <2>8, ConcatProperties DEF NalUnit
  <2>10. CASE Ends
    <3>1. i + k = Len(w)
      BY <2>4, <2>10 DEF Ends
    <3>2. SubSeq(w, 1, i + k) = w
      BY <3>1, SubSeqFull DEF NalUnit
    <3>3. Nals[nal] = <<b>> \o w
      <4>1. Nals[nal] # << >>
        BY <2>2
      <4>2. QED
        BY <1>2, <2>4, <4>1, HeadAndTail DEF Body, NalUnit
    <3>4. got' = Append(got, Nals[nal]) /\ open' = << >>
      BY <1>1, <2>1, <2>8, <2>10, <3>2, <3>3 DEF Receive
    <3>5. QED
      BY <1>4, <1>5, <1>7, <2>10, <3>4
  <2>11. CASE ~ Ends
    <3>1. open' = Joined(Payload) /\ got' = got
      BY <1>1, <2>1, <2>11 DEF Receive
    <3>2. QED
      BY <1>3, <1>7, <2>4, <2>8, <2>9, <2>11, <3>1
  <2>12. QED
    BY <2>10, <2>11
<1>8. QED
  BY <1>6, <1>7

(* RoundTrip, with the positions in `sent` as numbers.                      *)
LEMMA RoundTripIs ==
  ASSUME H264TypeOK
  PROVE  RoundTrip <=>
           /\ \A i \in 1 .. Len(sent) :
                /\ HeaderLen + Len(sent[i].payload) <= Mtu
                /\ sent[i].seq = (sent[1].seq + i - 1) % SeqMod
                /\ sent[i].marker => got = Nals /\ i = Len(sent)
           /\ at = "split" /\ sent # << >> => sent[Len(sent)].marker
<1>1. DOMAIN sent = 1 .. Len(sent)
  BY H264Types, LenProperties
<1>2. QED
  BY <1>1 DEF RoundTrip

LEMMA RoundTripNext ==
  ASSUME H264TypeOK'
  PROVE  RoundTrip' <=>
           /\ \A i \in 1 .. Len(sent') :
                /\ HeaderLen + Len(sent'[i].payload) <= Mtu
                /\ sent'[i].seq = (sent'[1].seq + i - 1) % SeqMod
                /\ sent'[i].marker => got' = Nals' /\ i = Len(sent')
           /\ at' = "split" /\ sent' # << >> => sent'[Len(sent')].marker
<1>1. DOMAIN sent' = 1 .. Len(sent')
  BY H264TypesNext, LenProperties
<1>2. QED
  BY <1>1 DEF RoundTrip

(* While an access unit is being sent no packet of it has the marker.       *)
LEMMA NoMarkerYet ==
  ASSUME H264Inv, SendInv, at = "packetize", NEW i \in 1 .. Len(sent)
  PROVE  ~ sent[i].marker
<1>1. /\ Nals \in Seq(NalUnit) /\ Len(Nals) \in Nat /\ nal \in 1 .. Len(Nals)
  BY Sending
<1>2. got = SubSeq(Nals, 1, nal - 1)
  BY DEF SendInv, ReceivedSoFar
<1>3. Len(got) = nal - 1
  <2>1. \A k \in 1 .. nal - 1 : Nals[k] \in NalUnit
    <3>1. \A k \in 1 .. nal - 1 : k \in 1 .. Len(Nals)
      BY <1>1
    <3>2. QED
      BY <1>1, <3>1, ElementOfSeq
  <2>2. 1 \in Int /\ nal - 1 \in Int
    BY <1>1
  <2>3. Len(SubSeq(Nals, 1, nal - 1)) = IF 1 <= nal - 1 THEN (nal - 1) - 1 + 1 ELSE 0
    BY <2>1, <2>2, SubSeqProperties
  <2>4. QED
    BY <1>1, <1>2, <2>3
<1>4. Len(got) # Len(Nals)
  BY <1>1, <1>3
<1>5. sent[i].marker => got = Nals
  BY RoundTripIs DEF SendInv, H264Inv, SplitInv
<1>6. QED
  BY <1>4, <1>5

LEMMA EmitSends ==
  ASSUME H264Inv, SendInv, Emit
  PROVE  SendInv'
<1> DEFINE e == [seq |-> seq, marker |-> Marker, payload |-> Payload]
           n == Len(sent)
           Packet == [seq : 0 .. SeqMod - 1, marker : BOOLEAN, payload : NalUnit]
<1>1. /\ H264TypeOK /\ H264TypeOK' /\ H264Inv'
  BY EmitSplit DEF H264Inv, SplitInv
<1>2. /\ at = "packetize" /\ stream' = stream /\ Nals' = Nals
      /\ sent' = Append(sent, e) /\ seq' = (seq + 1) % SeqMod
  BY EmitMoves DEF Emit, TakeSequence
<1>3. /\ Nals \in Seq(NalUnit) /\ Len(Nals) \in Nat /\ nal \in 1 .. Len(Nals)
  BY <1>2, Sending
<1>4. /\ Payload \in NalUnit /\ HeaderLen + Len(Payload) <= Mtu
      /\ sent \in Seq(Packet) /\ seq \in 0 .. SeqMod - 1 /\ Marker \in BOOLEAN
      /\ e \in Packet
  BY <1>1, <1>2, PayloadIs, H264Types DEF Marker, LastNal
<1>5. /\ e.seq = seq /\ e.marker = Marker /\ e.payload = Payload
  OBVIOUS
<1> HIDE DEF e, Packet
<1>6. /\ n \in Nat /\ Len(sent') = n + 1 /\ sent'[n + 1] = e /\ sent' # << >>
      /\ \A i \in 1 .. n : sent'[i] = sent[i]
      /\ sent # << >> <=> n > 0
  BY <1>2, <1>4, AppendProperties, LenProperties, EmptySeq
<1>7. /\ \A i \in 1 .. n :
           /\ HeaderLen + Len(sent[i].payload) <= Mtu
           /\ sent[i].seq = (sent[1].seq + i - 1) % SeqMod
      /\ n > 0 => seq = (sent[1].seq + n) % SeqMod
      /\ n > 0 => sent[1].seq \in 0 .. SeqMod - 1
  <2>1. sent # << >> => seq = (sent[1].seq + Len(sent)) % SeqMod
    BY <1>2 DEF SendInv, ReceivedSoFar
  <2>2. n > 0 => sent[1].seq \in 0 .. SeqMod - 1
    <3>1. n > 0 => 1 \in 1 .. n
      BY <1>6
    <3>2. n > 0 => sent[1] \in Packet
      BY <1>4, <3>1, ElementOfSeq
    <3>3. QED
      BY <3>2 DEF Packet
  <2>3. QED
    BY <1>1, <1>6, <2>1, <2>2, RoundTripIs DEF SendInv
<1>8. \A i \in 1 .. n : ~ sent'[i].marker
  BY <1>2, <1>6, NoMarkerYet
<1>9. PICK a \in 0 .. SeqMod - 1 :
        /\ sent'[1].seq = a
        /\ seq = (a + n) % SeqMod
        /\ \A i \in 1 .. n : sent'[i].seq = (a + i - 1) % SeqMod
  <2>1. CASE n = 0
    <3>1. sent'[1].seq = seq
      BY <1>5, <1>6, <2>1
    <3>2. seq = (seq + n) % SeqMod
      <4>1. seq + n = seq
        BY <1>4, <2>1
      <4>2. QED
        BY <1>4, <4>1, SeqSame
    <3>3. QED
      BY <1>4, <2>1, <3>1, <3>2
  <2>2. CASE n > 0
    <3>1. sent'[1] = sent[1]
      <4>1. 1 \in 1 .. n
        BY <1>6, <2>2
      <4>2. QED
        BY <1>6, <4>1
    <3>2. QED
      BY <1>6, <1>7, <2>2, <3>1
  <2>3. QED
    BY <1>6, <2>1, <2>2
<1>10. /\ got' \in Seq(NalUnit) /\ open' \in NalUnit
       /\ Whole \/ Ends => got' = SubSeq(Nals, 1, nal)
       /\ ~ Whole /\ ~ Ends =>
            /\ got' = got
            /\ open' = <<Nals[nal][1]>> \o SubSeq(Body, 1, off + Take)
  BY Received
<1>11. Marker => got' = Nals'
  <2>1. Marker => nal = Len(Nals) /\ (Whole \/ Ends)
    BY DEF Marker, LastNal
  <2>2. SubSeq(Nals, 1, Len(Nals)) = Nals
    BY <1>3, SubSeqFull
  <2>3. QED
    BY <1>2, <1>10, <2>1, <2>2
<1>12. at' = "split" => Marker
  <2>1. CASE (Whole \/ Ends) /\ nal = Len(Nals)
    BY <2>1 DEF Marker, LastNal
  <2>2. CASE at' = "packetize" \/ at' = at
    BY <1>2, <2>2
  <2>3. QED
    BY <2>1, <2>2, EmitMoves
<1>13. RoundTrip'
  <2>1. ASSUME NEW i \in 1 .. n + 1
        PROVE  /\ HeaderLen + Len(sent'[i].payload) <= Mtu
               /\ sent'[i].seq = (sent'[1].seq + i - 1) % SeqMod
               /\ sent'[i].marker => got' = Nals' /\ i = n + 1
    <3>1. CASE i \in 1 .. n
      <4>1. HeaderLen + Len(sent'[i].payload) <= Mtu
        BY <1>6, <1>7, <3>1
      <4>2. sent'[i].seq = (sent'[1].seq + i - 1) % SeqMod
        BY <1>9, <3>1
      <4>3. ~ sent'[i].marker
        BY <1>8, <3>1
      <4>4. QED
        BY <4>1, <4>2, <4>3
    <3>2. CASE i = n + 1
      <4>1. sent'[i] = e
        BY <1>6, <3>2
      <4>2. HeaderLen + Len(sent'[i].payload) <= Mtu
        BY <1>4, <1>5, <4>1
      <4>3. a + i - 1 = a + n
        BY <1>6, <3>2
      <4>4. sent'[i].seq = (sent'[1].seq + i - 1) % SeqMod
        BY <1>5, <1>9, <4>1, <4>3
      <4>5. sent'[i].marker => got' = Nals'
        BY <1>5, <1>11, <4>1
      <4>6. QED
        BY <3>2, <4>2, <4>4, <4>5
    <3>3. i \in 1 .. n \/ i = n + 1
      BY <1>6
    <3>4. QED
      BY <3>1, <3>2, <3>3
  <2>2. at' = "split" => sent'[Len(sent')].marker
    BY <1>5, <1>6, <1>12
  <2>3. QED
    BY <1>1, <1>6, <2>1, <2>2, RoundTripNext
<1>14. ReceivedSoFar'
  <2>1. SUFFICES ASSUME at' = "packetize"
                 PROVE  /\ got' = SubSeq(Nals', 1, nal' - 1)
                        /\ off' > 0 => open' = <<Nals'[nal'][1]>> \o SubSeq(Body', 1, off')
                        /\ sent' # << >> => seq' = (sent'[1].seq + Len(sent')) % SeqMod
    BY <1>10 DEF ReceivedSoFar
  <2>2. seq' = (sent'[1].seq + Len(sent')) % SeqMod
    <3>1. (((a + n) % SeqMod) + 1) % SeqMod = (a + (n + 1)) % SeqMod
      BY <1>6, SeqOnward
    <3>2. QED
      BY <1>2, <1>6, <1>9, <3>1
  <2>3. CASE (Whole \/ Ends) /\ nal' = nal + 1 /\ off' = 0
    <3>1. (nal + 1) - 1 = nal /\ ~ off' > 0
      BY <1>3, <2>3
    <3>2. QED
      BY <1>2, <1>10, <2>2, <2>3, <3>1
  <2>4. CASE ~ Whole /\ ~ Ends /\ nal' = nal /\ off' = off + Take
    <3>1. Body' = Body
      BY <1>2, <2>4 DEF Body
    <3>2. got = SubSeq(Nals, 1, nal - 1)
      BY <1>2 DEF SendInv, ReceivedSoFar
    <3>3. QED
      BY <1>2, <1>10, <2>2, <2>4, <3>1, <3>2
  <2>5. QED
    BY <2>3, <2>4, EmitMoves
<1>15. NoPacketTypes'
  BY <1>2 DEF SendInv, NoPacketTypes
<1>16. QED
  BY <1>13, <1>14, <1>15 DEF SendInv

LEMMA InitSends == H264Init => SendInv
<1> SUFFICES ASSUME H264Init PROVE SendInv
  OBVIOUS
<1>1. sent = << >> /\ at = "encode" /\ got = << >> /\ open = << >> /\ stream \in Leads
  BY DEF H264Init
<1>2. RoundTrip
  BY <1>1 DEF RoundTrip
<1>3. ReceivedSoFar
  BY <1>1 DEF ReceivedSoFar, NalUnit
<1>4. NoPacketTypes
  <2>1. Codes(stream, 1) = {}
    BY <1>1, NalUnitAssumption
  <2>2. QED
    BY <2>1 DEF NoPacketTypes
<1>5. QED
  BY <1>2, <1>3, <1>4 DEF SendInv

(* Steps that leave the packets sent, the receiver and the unit alone.      *)
LEMMA PacketsRest ==
  ASSUME H264Inv, SendInv,
         UNCHANGED <<units, sent, got, open>>, at' # "packetize",
         sent = << >> \/ (stream' = stream /\ (at' = "split" => at = "split")),
         NoPacketTypes'
  PROVE  SendInv'
<1>1. RoundTrip'
  <2>1. CASE sent = << >>
    <3>1. sent' = << >> /\ DOMAIN (<< >>) = {}
      BY <2>1
    <3>2. QED
      BY <3>1 DEF RoundTrip
  <2>2. CASE stream' = stream /\ (at' = "split" => at = "split")
    <3>1. Nals' = Nals
      BY <2>2 DEF Nals, Bytes
    <3>2. QED
      BY <2>2, <3>1 DEF SendInv, RoundTrip
  <2>3. QED
    BY <2>1, <2>2
<1>2. ReceivedSoFar'
  BY DEF SendInv, ReceivedSoFar
<1>3. QED
  BY <1>1, <1>2 DEF SendInv

LEMMA SameStream ==
  ASSUME SendInv, stream' = stream
  PROVE  NoPacketTypes'
BY DEF SendInv, NoPacketTypes

(* A new access unit: nothing of it is sent yet.                            *)
LEMMA GiveSends ==
  ASSUME H264Inv, SendInv, NEW u, Give(u)
  PROVE  SendInv'
<1>1. /\ stream' = stream /\ sent' = << >> /\ at' = "packetize" /\ nal' = 1 /\ off' = 0
      /\ got' = << >> /\ open' = << >>
  BY DEF Give
<1>2. NoPacketTypes'
  BY <1>1, SameStream
<1>3. RoundTrip'
  <2>1. DOMAIN (<< >>) = {}
    OBVIOUS
  <2>2. QED
    BY <1>1, <2>1 DEF RoundTrip
<1>4. ReceivedSoFar'
  <2>1. got' = SubSeq(Nals', 1, nal' - 1)
    <3>1. nal' - 1 = 0 /\ 0 < 1 /\ 0 \in Int /\ 1 \in Int
      BY <1>1
    <3>2. SubSeq(Nals', 1, 0) = << >>
      BY <3>1, SubSeqEmpty
    <3>3. QED
      BY <1>1, <3>1, <3>2
  <2>2. ~ off' > 0
    BY <1>1
  <2>3. << >> \in Seq(NalUnit) /\ << >> \in NalUnit
    BY DEF NalUnit
  <2>4. QED
    BY <1>1, <2>1, <2>2, <2>3 DEF ReceivedSoFar
<1>5. QED
  BY <1>2, <1>3, <1>4 DEF SendInv

LEMMA SendsStep == H264Inv /\ SendInv /\ [H264Next]_h264Vars => SendInv'
<1> SUFFICES ASSUME H264Inv, SendInv, [H264Next]_h264Vars
             PROVE  SendInv'
  OBVIOUS
<1>0. at = "encode" => sent = << >>
  BY SplitParts DEF H264Inv, SplitInv
<1>1. CASE Encode
  <2>1. NoPacketTypes'
    BY <1>1, EncodeTypes DEF SendInv
  <2>2. at' # "packetize" /\ sent = << >> /\ UNCHANGED <<units, sent, got, open>>
    BY <1>0, <1>1 DEF Encode, splitVars, sendVars
  <2>3. QED
    BY <2>1, <2>2, PacketsRest
<1>2. CASE BeginSplit
  <2>1. NoPacketTypes'
    BY <1>2, SameStream DEF BeginSplit
  <2>2. at' # "packetize" /\ sent = << >> /\ UNCHANGED <<units, sent, got, open>>
    BY <1>0, <1>2 DEF BeginSplit, sendVars
  <2>3. QED
    BY <2>1, <2>2, PacketsRest
<1>3. CASE PassNal \/ GiveNothing \/ EmitFails
  <2>1. /\ stream' = stream /\ at' # "packetize" /\ (at' = "split" => at = "split")
        /\ UNCHANGED <<units, sent, got, open>>
    BY <1>3 DEF PassNal, GiveNothing, EmitFails, splitVars, sendVars
  <2>2. QED
    BY <2>1, SameStream, PacketsRest
<1>4. CASE GiveUnit \/ GiveRest
  BY <1>4, GiveSends DEF GiveUnit, GiveRest
<1>5. CASE Emit
  BY <1>5, EmitSends
<1>6. CASE UNCHANGED h264Vars
  BY <1>6 DEF h264Vars, splitVars, sendVars, SendInv, RoundTrip, ReceivedSoFar,
           NoPacketTypes, Nals, Bytes, Body
<1>7. QED
  BY <1>1, <1>2, <1>3, <1>4, <1>5, <1>6 DEF H264Next, Split

(* Whatever the NAL units and the MTU: every packet of an access unit fits, *)
(* a receiver puts the NAL units of it together again in order, and the     *)
(* marker is on the last packet alone.                                      *)
THEOREM H264RoundTrip == H264Spec => []SendInv
<1>1. H264Init => H264Inv /\ SendInv
  BY InitH264, InitSends
<1>2. H264Inv /\ SendInv /\ [H264Next]_h264Vars => (H264Inv /\ SendInv)'
  BY H264Step, SendsStep
<1>3. QED
  BY <1>1, <1>2, PTL DEF H264Spec

===============================================================================
