--------------------------------- MODULE Pacer ---------------------------------
(***************************************************************************)
(* The frame-rate cap, `Pacer` of core/pacer.rs: the generic cell rate      *)
(* algorithm over the capture timestamps of a camera whose device clock     *)
(* never goes back.                                                         *)
(*                                                                          *)
(* `from` is any instant, chosen once: `count` admitted frames were         *)
(* captured at or after it, which makes a statement about every stretch of  *)
(* time an invariant.                                                       *)
(***************************************************************************)
EXTENDS Integers

CONSTANTS
  Second,    \* 1_000_000 in the code
  Fps,       \* the cap; 0 admits everything
  Burst,     \* frames let through ahead of their due time
  MaxTime,   \* bound: last instant of device time
  MaxReset   \* bound: stream restarts

ASSUME PacerAssumption ==
  /\ Second \in Nat \ {0} /\ Fps \in Nat /\ Burst \in Nat
  /\ MaxTime \in Nat /\ MaxReset \in Nat

VARIABLES
  due,        \* when the next frame is due, -1 for None
  admitted,   \* frames admitted
  pdropped,   \* frames the pacer dropped
  clock,      \* capture time of the last frame
  resets,     \* stream restarts
  from,       \* ghost: start of the stretch looked at
  count,      \* ghost: frames admitted in it since the last reset
  lastAdmit   \* ghost: capture time of the last frame admitted

pacerState == <<due, admitted, pdropped>>
pacerGhosts == <<from, count, lastAdmit>>
pacerVars == <<pacerState, clock, resets, pacerGhosts>>

(* Whole microseconds: the division truncates.                              *)
Interval == IF Fps = 0 THEN 0 ELSE Second \div Fps
Tolerance == Interval * Burst

PacerInit ==
  /\ due = -1 /\ admitted = 0 /\ pdropped = 0
  /\ clock = 0 /\ resets = 0
  /\ from \in 0 .. MaxTime /\ count = 0 /\ lastAdmit = 0

InTimeEarly(t) == Interval = 0 \/ due = -1 \/ t + Tolerance + 1 >= due
InTime(t) == Interval = 0 \/ due = -1 \/ t + Tolerance >= due

(* One interval on from the due time, or from now when that is later.       *)
NextDueTwice(t) == (IF due > t THEN due ELSE t + Interval) + Interval
NextDue(t) == (IF due > t THEN due ELSE t) + Interval

(* admit(t) answers true, and what is recorded of it.                       *)
AdmitFrame(t) ==
  /\ InTime(t)
  /\ due' = IF Interval = 0 THEN due ELSE NextDue(t)
  /\ admitted' = admitted + 1
  /\ count' = count + (IF t >= from THEN 1 ELSE 0)
  /\ lastAdmit' = t
  /\ UNCHANGED <<pdropped, from>>

(* A frame that is dropped does not pay: the due time stays.                *)
DropPays == due + Interval
DueAfterDrop == due

(* admit(t) answers false.                                                  *)
DropFrame(t) ==
  /\ ~ InTime(t)
  /\ due' = DueAfterDrop
  /\ pdropped' = pdropped + 1
  /\ UNCHANGED <<admitted, pacerGhosts>>

(* A frame captured at t is put to the pacer.                               *)
Frame(t) ==
  /\ clock' = t
  /\ AdmitFrame(t) \/ DropFrame(t)
  /\ UNCHANGED resets

Reset ==
  /\ resets < MaxReset
  /\ resets' = resets + 1
  /\ due' = -1 /\ count' = 0
  /\ UNCHANGED <<admitted, pdropped, clock, from, lastAdmit>>

PacerNext ==
  \/ \E t \in clock .. MaxTime : Frame(t)
  \/ Reset

PacerSpec == PacerInit /\ [][PacerNext]_pacerVars

------------------------------------------------------------------------------
(* Type invariant of the pacer.                                             *)
PacerTypeOK ==
  /\ due \in Int /\ due >= -1
  /\ admitted \in Nat /\ pdropped \in Nat
  /\ clock \in Nat /\ resets \in Nat
  /\ from \in Nat /\ count \in Nat /\ lastAdmit \in Nat

(* pacer.rs:21-22: in every stretch of time that starts at `from`, the      *)
(* frames admitted number at most one more than the whole intervals in it,  *)
(* plus the burst.                                                          *)
StretchBound ==
  Interval > 0 /\ count > 0 =>
    (count - 1 - Burst) * Interval <= lastAdmit - from

(* A due time never runs away: it stays within the burst and one interval   *)
(* of the last frame admitted.                                              *)
DueNear ==
  Interval > 0 /\ due # -1 => due <= lastAdmit + Tolerance + Interval

(* The due time advances a whole interval for each frame in the stretch.    *)
DuePaysForCount ==
  Interval > 0 /\ count > 0 => due # -1 /\ due >= from + count * Interval

(* The last frame admitted is not after the last one seen, and is in the    *)
(* stretch once one in the stretch has been admitted.                       *)
LastAdmitPlaced == lastAdmit <= clock /\ (count > 0 => from <= lastAdmit)

(* The inductive invariant: what StretchBound rests on.                     *)
PacerInv ==
  PacerTypeOK /\ StretchBound /\ DueNear /\ DuePaysForCount /\ LastAdmitPlaced

(* The cap never costs more than it must: a frame captured a whole interval *)
(* after the last one admitted is never dropped.                            *)
NoNeedlessDrop ==
  [][pdropped' > pdropped => clock' < lastAdmit + Interval]_pacerVars

==============================================================================
