---------------------------- MODULE RtpSenderProofs ----------------------------
(* The bit-rate cap holds over every stretch of time, for every rate, burst *)
(* and frame size, although the refill is rounded; and the sender uses its  *)
(* Budget as Budget is specified, whatever files it is given and however    *)
(* its sends fail, so the cap holds of what send_frame lets through.  The   *)
(* parser accepts exactly what RFC 2435 can carry, for files of any length; *)
(* and from both, what goes out on the wire is within the cap, but for the  *)
(* restart headers.                                                         *)
EXTENDS RtpSender, WellFoundedInduction, TLAPS

------------------------------------------------------------------------------
(* The budget by itself: nothing here is about the sender.                  *)

LEMMA DivBelow ==
  ASSUME NEW a \in Nat, NEW s \in Nat \ {0}
  PROVE  a \div s \in Nat /\ s * (a \div s) <= a
  OBVIOUS

LEMMA Distributes ==
  ASSUME NEW a \in Int, NEW b \in Int, NEW c \in Int
  PROVE  a * (b + c) = a * b + a * c
  OBVIOUS

LEMMA TimesMonotone ==
  ASSUME NEW s \in Nat, NEW a \in Int, NEW b \in Int, a <= b
  PROVE  s * a <= s * b
  OBVIOUS

LEMMA TimesNat ==
  ASSUME NEW a \in Nat, NEW b \in Nat
  PROVE  a * b \in Nat
  OBVIOUS

(* What a frame at t finds: the bucket, refilled by no more than the rate   *)
(* allows for the time since the last frame.                                *)
LEMMA RefillBound ==
  ASSUME TypeOK, NEW t \in Nat, t >= clock
  PROVE  /\ Elapsed(t) \in Nat /\ Refill(t) \in Nat
         /\ Second * Refill(t) <= Elapsed(t) * bytes_per_second
         /\ TokensAt(t) \in 0 .. burst_bytes
         /\ TokensAt(t) <= tokens + Refill(t)
<1>1. Elapsed(t) \in Nat
  BY DEF TypeOK, Elapsed
<1>2. Elapsed(t) * bytes_per_second \in Nat
  BY <1>1, TimesNat DEF TypeOK
<1>3. Refill(t) \in Nat /\ Second * Refill(t) <= Elapsed(t) * bytes_per_second
  BY <1>2, DivBelow, BudgetAssumption DEF Refill
<1>4. TokensAt(t) \in 0 .. burst_bytes /\ TokensAt(t) <= tokens + Refill(t)
  BY <1>3 DEF TokensAt, LesserOf, TypeOK
<1>5. QED
  BY <1>1, <1>3, <1>4

(* One frame, admitted or dropped: bytes let through and bytes left in the  *)
(* bucket come out of the refilled bucket together.                         *)
LEMMA FrameBucket ==
  ASSUME BudgetInv, bytes_per_second > 0, NEW t \in Nat, t >= clock,
         NEW b \in Nat, b <= TokensAt(t),
         UNCHANGED config, last' = t, from' = from, tokens' = TokensAt(t) - b,
         stretchBytes' = stretchBytes + (IF t >= from THEN b ELSE 0)
  PROVE  RateBound' /\ BucketBound' /\ NothingBefore'
<1>1. /\ Second \in Nat \ {0} /\ bytes_per_second \in Nat /\ burst_bytes \in Nat
      /\ last \in Int /\ last <= clock /\ clock \in Nat /\ from \in Nat
      /\ tokens \in Nat /\ stretchBytes \in Nat
  BY BudgetAssumption DEF BudgetInv, TypeOK
<1>0. bytes_per_second' = bytes_per_second /\ burst_bytes' = burst_bytes
  BY DEF config
<1>2. /\ Elapsed(t) \in Nat /\ Refill(t) \in Nat
      /\ Second * Refill(t) <= Elapsed(t) * bytes_per_second
      /\ TokensAt(t) \in 0 .. burst_bytes
      /\ TokensAt(t) <= tokens + Refill(t)
  BY RefillBound DEF BudgetInv
<1>3. tokens' \in Nat /\ stretchBytes' \in Nat
  BY <1>1, <1>2
<1>4. CASE t < from
  <2>1. stretchBytes' = 0
    BY <1>1, <1>4 DEF BudgetInv, NothingBefore
  <2>2. QED
    BY <1>0, <1>1, <1>4, <2>1 DEF RateBound, BucketBound, NothingBefore
<1>5. CASE t >= from
  <2>1. stretchBytes' + tokens' = stretchBytes + TokensAt(t)
    BY <1>1, <1>2, <1>5
  <2>2. Second * (stretchBytes + TokensAt(t))
          <= Second * burst_bytes + bytes_per_second * (t - from)
    <3>1. CASE last >= from
      <4>1. Elapsed(t) = t - last
        BY <1>1, <3>1 DEF Elapsed
      <4>2. Second * (stretchBytes + tokens)
              <= Second * burst_bytes + bytes_per_second * (last - from)
        BY <3>1 DEF BudgetInv, BucketBound
      <4>3. Second * (stretchBytes + TokensAt(t))
              <= Second * (stretchBytes + tokens + Refill(t))
        BY <1>1, <1>2, TimesMonotone
      <4>4. Second * (stretchBytes + tokens + Refill(t))
              = Second * (stretchBytes + tokens) + Second * Refill(t)
        BY <1>1, <1>2, Distributes
      <4>5. bytes_per_second * (t - from)
              = bytes_per_second * (last - from) + Elapsed(t) * bytes_per_second
        BY <1>1, <4>1
      <4>6. QED
        BY <1>1, <1>2, <4>2, <4>3, <4>4, <4>5
    <3>2. CASE last < from
      <4>1. stretchBytes = 0
        BY <3>2 DEF BudgetInv, NothingBefore
      <4>2. Second * TokensAt(t) <= Second * burst_bytes
        BY <1>1, <1>2, TimesMonotone
      <4>3. /\ bytes_per_second * (t - from) \in Nat
            /\ Second * TokensAt(t) \in Nat /\ Second * burst_bytes \in Nat
        BY <1>1, <1>2, <1>5, TimesNat
      <4>4. stretchBytes + TokensAt(t) = TokensAt(t)
        BY <1>2, <4>1
      <4>5. Second * TokensAt(t)
              <= Second * burst_bytes + bytes_per_second * (t - from)
        BY <4>2, <4>3
      <4>6. QED
        BY <4>4, <4>5
    <3>3. QED
      BY <1>1, <3>1, <3>2
  <2>3. BucketBound'
    BY <1>0, <2>1, <2>2 DEF BucketBound
  <2>4. Second * stretchBytes' <= Second * (stretchBytes' + tokens')
    BY <1>1, <1>3, TimesMonotone
  <2>5. RateBound'
    <3>1. bytes_per_second * (t - from) \in Nat /\ Second * burst_bytes \in Nat
      BY <1>1, <1>5, TimesNat
    <3>2. Second * stretchBytes' \in Nat /\ Second * (stretchBytes' + tokens') \in Nat
      BY <1>1, <1>3, TimesNat
    <3>3. Second * (stretchBytes' + tokens')
            <= Second * burst_bytes + bytes_per_second * (t - from)
      BY <2>1, <2>2
    <3>4. QED
      BY <1>0, <2>4, <3>1, <3>2, <3>3 DEF RateBound
  <2>6. NothingBefore'
    BY <1>1, <1>5 DEF NothingBefore
  <2>7. QED
    BY <2>3, <2>5, <2>6
<1>6. QED
  BY <1>1, <1>4, <1>5

LEMMA InitBudget == Init => BudgetInv
<1> SUFFICES ASSUME Init PROVE BudgetInv
  OBVIOUS
<1>0. bytes_per_second \in Nat /\ burst_bytes \in Nat
  <2>1. bytes_per_second \in Nat /\ BurstMs \in Nat /\ Millis \in Nat \ {0}
    BY BudgetAssumption DEF Init
  <2>2. bytes_per_second * BurstMs \in Nat
    BY <2>1, TimesNat
  <2>3. QED
    BY <2>1, <2>2, DivBelow DEF Init
<1>1. burst_bytes * Second \in Nat
  BY <1>0, TimesNat, BudgetAssumption
<1>2. TypeOK
  BY <1>0, <1>1, BudgetAssumption DEF Init, TypeOK
<1>3. RateBound /\ BucketBound /\ NothingBefore
  BY <1>2 DEF Init, TypeOK, RateBound, BucketBound, NothingBefore
<1>4. QED
  BY <1>2, <1>3 DEF BudgetInv

(* The exact bucket of the ghost stays a number.                            *)
LEMMA IdealType ==
  ASSUME TypeOK, NEW t \in Nat, t >= clock, NEW b \in Nat
  PROVE  IdealAt(t) \in Int /\ IdealAt(t) - b * Second \in Int
<1>1. burst_bytes * Second \in Nat /\ b * Second \in Nat
      /\ Elapsed(t) * bytes_per_second \in Nat
  BY TimesNat, RefillBound, BudgetAssumption DEF TypeOK
<1>2. IdealAt(t) \in Int
  BY <1>1 DEF IdealAt, LesserOf, TypeOK
<1>3. QED
  BY <1>1, <1>2

LEMMA FrameBudget ==
  ASSUME BudgetInv, NEW t \in clock .. MaxTime, NEW b \in FrameSizes,
         AdmitUncapped(t, b) \/ Admit(t, b) \/ Drop(t, b)
  PROVE  BudgetInv'
<1>1. /\ t \in Nat /\ t >= clock /\ b \in Nat /\ clock \in Nat
      /\ bytes_per_second \in Nat /\ TypeOK
  BY BudgetAssumption DEF BudgetInv, TypeOK
<1>2. /\ TokensAt(t) \in 0 .. burst_bytes
      /\ IdealAt(t) \in Int /\ IdealAt(t) - b * Second \in Int
  BY <1>1, RefillBound, IdealType
<1>3. CASE AdmitUncapped(t, b)
  <2>1. bytes_per_second' = 0
    BY <1>1, <1>3 DEF AdmitUncapped, Capped, Record, config
  <2>2. TypeOK'
    BY <1>1, <1>3 DEF TypeOK, AdmitUncapped, Record, config
  <2>3. QED
    BY <2>1, <2>2 DEF BudgetInv, RateBound, BucketBound, NothingBefore
<1>4. CASE Admit(t, b)
  <2>1. /\ UNCHANGED config /\ last' = t /\ from' = from /\ tokens' = TokensAt(t) - b
        /\ stretchBytes' = stretchBytes + (IF t >= from THEN b ELSE 0)
        /\ bytes_per_second > 0 /\ b <= TokensAt(t) /\ clock' = t
    BY <1>4 DEF Admit, Capped, Record, Charged
  <2>2. ideal' \in Int
    BY <1>2, <1>4 DEF Admit
  <2>3. tokens' \in 0 .. burst_bytes
    BY <1>1, <1>2, <2>1 DEF TypeOK
  <2>4. TypeOK'
    BY <1>1, <1>4, <2>1, <2>2, <2>3 DEF TypeOK, Admit, Record, config
  <2>5. RateBound' /\ BucketBound' /\ NothingBefore'
    BY <1>1, <2>1, FrameBucket
  <2>6. QED
    BY <2>4, <2>5 DEF BudgetInv
<1>5. CASE Drop(t, b)
  <2>1. /\ UNCHANGED config /\ last' = t /\ from' = from /\ tokens' = TokensAt(t) - 0
        /\ stretchBytes' = stretchBytes + (IF t >= from THEN 0 ELSE 0)
        /\ bytes_per_second > 0 /\ 0 <= TokensAt(t) /\ clock' = t
    BY <1>1, <1>2, <1>5, BudgetAssumption
    DEF Drop, Capped, Record, DropKeeps, TypeOK
  <2>2. ideal' \in Int
    BY <1>2, <1>5 DEF Drop
  <2>3. TypeOK'
    BY <1>1, <1>2, <1>5, <2>1, <2>2 DEF TypeOK, Drop, Record, config
  <2>4. RateBound' /\ BucketBound' /\ NothingBefore'
    BY <1>1, <2>1, FrameBucket
  <2>5. QED
    BY <2>3, <2>4 DEF BudgetInv
<1>6. QED
  BY <1>3, <1>4, <1>5

LEMMA ResetBudget ==
  ASSUME BudgetInv, Reset
  PROVE  BudgetInv'
<1>1. burst_bytes * Second \in Nat
  BY TimesNat, BudgetAssumption DEF BudgetInv, TypeOK
<1>2. TypeOK'
  BY <1>1, BudgetAssumption DEF BudgetInv, TypeOK, Reset, config
<1>3. QED
  BY <1>2 DEF BudgetInv, TypeOK, Reset, config, RateBound, BucketBound, NothingBefore

(* The inductive invariant holds at all times.                              *)
THEOREM BudgetInvariant == Spec => []BudgetInv
<1>1. Init => BudgetInv
  BY InitBudget
<1>2. BudgetInv /\ [Next]_vars => BudgetInv'
  <2>1. ASSUME BudgetInv, UNCHANGED vars
        PROVE  BudgetInv'
    BY <2>1 DEF BudgetInv, TypeOK, RateBound, BucketBound, NothingBefore, vars, config
  <2>2. QED
    BY <2>1, FrameBudget, ResetBudget DEF Next
<1>3. QED
  BY <1>1, <1>2, PTL DEF Spec

(* In every stretch of time the bytes admitted are at most the burst plus   *)
(* the rate times its length.                                               *)
THEOREM BudgetRate == Spec => []RateBound
<1>1. BudgetInv => RateBound
  BY DEF BudgetInv
<1>2. QED
  BY <1>1, BudgetInvariant, PTL

------------------------------------------------------------------------------
(* What the rounding costs.                                                 *)

LEMMA DivAbove ==
  ASSUME NEW a \in Nat, NEW s \in Nat \ {0}
  PROVE  a <= s * (a \div s) + (s - 1)
  OBVIOUS

LEMMA DivAtLeast ==
  ASSUME NEW a \in Nat, NEW s \in Nat \ {0}, NEW b \in Nat, b * s <= a
  PROVE  b <= a \div s
<1> DEFINE q == a \div s
<1>1. q \in Nat /\ a < s * (q + 1)
  <2>1. q \in Nat
    BY DivBelow
  <2>2. s * (q + 1) = s * q + s * 1 /\ s * q \in Nat
    BY <2>1, Distributes, TimesNat
  <2>3. QED
    BY <2>1, <2>2, DivAbove
<1> HIDE DEF q
<1>2. ASSUME q < b PROVE FALSE
  <2>1. s * (q + 1) <= s * b
    BY <1>1, <1>2, TimesMonotone
  <2>2. s * b = b * s /\ s * b \in Nat /\ s * (q + 1) \in Nat
    BY <1>1, TimesNat
  <2>3. QED
    BY <1>1, <2>1, <2>2
<1>3. QED
  BY <1>1, <1>2 DEF q

(* The bucket and the exact one after a frame at t that takes b bytes: one  *)
(* refill lets them drift apart by less than a byte, and the burst caps     *)
(* both alike.                                                              *)
LEMMA FrameRounding ==
  ASSUME TypeOK, RoundingBounded, bytes_per_second > 0,
         NEW t \in Nat, t >= clock, NEW b \in Nat, b <= TokensAt(t),
         UNCHANGED config, tokens' = TokensAt(t) - b,
         ideal' = IdealAt(t) - b * Second, calls' = calls + 1
  PROVE  RoundingBounded'
<1> DEFINE x == Elapsed(t) * bytes_per_second
           r == Refill(t)
           slack == calls * (Second - 1)
<1>1. /\ Second \in Nat \ {0} /\ tokens \in Nat /\ burst_bytes \in Nat
      /\ ideal \in Int /\ calls \in Nat /\ Second - 1 \in Nat
  BY BudgetAssumption DEF TypeOK
<1>2. /\ Elapsed(t) \in Nat /\ r \in Nat /\ TokensAt(t) \in Nat
      /\ TokensAt(t) <= burst_bytes /\ TokensAt(t) <= tokens + r
      /\ TokensAt(t) = burst_bytes \/ TokensAt(t) = tokens + r
  BY <1>1, RefillBound DEF TokensAt, LesserOf
<1>3. x \in Nat /\ r = x \div Second
  BY <1>2, TimesNat DEF Refill, TypeOK
<1> HIDE DEF r, x
<1>4. Second * r <= x /\ x <= Second * r + (Second - 1)
  BY <1>1, <1>3, DivBelow, DivAbove
<1>5. /\ Second * tokens \in Nat /\ Second * r \in Nat /\ Second * b \in Nat
      /\ Second * burst_bytes \in Nat /\ Second * TokensAt(t) \in Nat
      /\ slack \in Nat
  BY <1>1, <1>2, TimesNat
<1>6. /\ tokens * Second = Second * tokens /\ b * Second = Second * b
      /\ burst_bytes * Second = Second * burst_bytes
      /\ tokens' * Second = Second * (TokensAt(t) - b)
  BY <1>1, <1>2
<1>7. Second * (TokensAt(t) - b) = Second * TokensAt(t) - Second * b
  <2>1. Second * (TokensAt(t) + (0 - b)) = Second * TokensAt(t) + Second * (0 - b)
    BY <1>1, <1>2, Distributes
  <2>2. Second * (0 - b) = 0 - Second * b
    BY <1>1
  <2>3. QED
    BY <1>1, <1>2, <1>5, <2>1, <2>2
<1>8. Second * (tokens + r) = Second * tokens + Second * r
  BY <1>1, <1>2, Distributes
<1>9. calls' * (Second - 1) = slack + (Second - 1)
  BY <1>1
<1> HIDE DEF slack
<1>10. Second * tokens <= ideal /\ ideal <= Second * tokens + slack
  BY <1>6 DEF RoundingBounded, slack
<1>11. IdealAt(t) = IF ideal + x <= Second * burst_bytes
                    THEN ideal + x ELSE Second * burst_bytes
  BY <1>6 DEF IdealAt, LesserOf, x
<1>12. Second * TokensAt(t) <= IdealAt(t)
  <2>1. Second * TokensAt(t) <= Second * (tokens + r)
    BY <1>1, <1>2, TimesMonotone
  <2>2. Second * TokensAt(t) <= Second * burst_bytes
    BY <1>1, <1>2, TimesMonotone
  <2>3. QED
    BY <1>1, <1>3, <1>4, <1>5, <1>8, <1>10, <1>11, <2>1, <2>2
<1>13. IdealAt(t) <= Second * TokensAt(t) + slack + (Second - 1)
  <2>1. CASE TokensAt(t) = burst_bytes
    BY <1>1, <1>3, <1>5, <1>11, <2>1
  <2>2. CASE TokensAt(t) = tokens + r
    BY <1>1, <1>3, <1>4, <1>5, <1>8, <1>10, <1>11, <2>2
  <2>3. QED
    BY <1>2, <2>1, <2>2
<1>14. IdealAt(t) \in Int
  BY <1>1, <1>3, <1>5, <1>11
<1>15. /\ tokens' * Second <= ideal'
       /\ ideal' <= tokens' * Second + calls' * (Second - 1)
  BY <1>1, <1>5, <1>6, <1>7, <1>9, <1>12, <1>13, <1>14
<1>16. QED
  BY <1>15 DEF RoundingBounded

LEMMA RoundingStep ==
  ASSUME BudgetInv, RoundingBounded, [Next]_vars
  PROVE  RoundingBounded'
<1>0. TypeOK
  BY DEF BudgetInv
<1>1. ASSUME NEW t \in clock .. MaxTime, NEW b \in FrameSizes,
             AdmitUncapped(t, b) \/ Admit(t, b) \/ Drop(t, b)
      PROVE  RoundingBounded'
  <2>1. t \in Nat /\ t >= clock /\ b \in Nat /\ bytes_per_second \in Nat
    BY <1>0, BudgetAssumption DEF TypeOK
  <2>2. CASE AdmitUncapped(t, b)
    BY <2>1, <2>2 DEF AdmitUncapped, Capped, Record, config, RoundingBounded
  <2>3. CASE Admit(t, b)
    BY <1>0, <2>1, <2>3, FrameRounding DEF Admit, Capped, Record, Charged
  <2>4. CASE Drop(t, b)
    <3>1. TokensAt(t) \in Nat /\ IdealAt(t) \in Int /\ 0 * Second = 0
      BY <1>0, <2>1, RefillBound, IdealType, BudgetAssumption DEF TypeOK
    <3>2. /\ 0 <= TokensAt(t) /\ tokens' = TokensAt(t) - 0
          /\ ideal' = IdealAt(t) - 0 * Second
      BY <2>4, <3>1 DEF Drop, DropKeeps
    <3>3. QED
      BY <1>0, <2>1, <2>4, <3>2, FrameRounding DEF Drop, Capped, Record
  <2>5. QED
    BY <1>1, <2>2, <2>3, <2>4
<1>2. CASE Reset
  <2>1. burst_bytes * Second \in Nat /\ 0 * (Second - 1) = 0
    BY <1>0, TimesNat, BudgetAssumption DEF TypeOK
  <2>2. QED
    BY <1>2, <2>1 DEF Reset, config, RoundingBounded
<1>3. CASE UNCHANGED vars
  BY <1>3 DEF vars, config, RoundingBounded
<1>4. QED
  BY <1>1, <1>2, <1>3 DEF Next

(* The bucket in whole bytes never falls behind an exact one by more than a *)
(* byte for each frame put to it, and is never ahead of it                  *)
(* (pacer.rs:141-145).                                                      *)
THEOREM BudgetRounding == Spec => []RoundingBounded
<1>1. Init => RoundingBounded
  <2> SUFFICES ASSUME Init PROVE RoundingBounded
    OBVIOUS
  <2>1. burst_bytes * Second \in Nat /\ 0 * (Second - 1) = 0
    BY InitBudget, TimesNat, BudgetAssumption DEF BudgetInv, TypeOK
  <2>2. QED
    BY <2>1 DEF Init, RoundingBounded
<1>2. QED
  BY <1>1, BudgetInvariant, RoundingStep, PTL DEF Spec

(* A frame dropped costs the ones after it nothing: the time since the last *)
(* frame has earned what it would have, up to the burst (pacer.rs:141-156). *)
THEOREM BudgetIdleGap == Spec => IdleGapEarns
<1>1. ASSUME BudgetInv, [Next]_vars, NEW bytes \in FrameSizes,
             dropped' > dropped, bytes <= burst_bytes, last # -1,
             (clock' - last) * bytes_per_second >= bytes * Second
      PROVE  tokens' >= bytes
  <2>1. PICK t \in clock .. MaxTime, b \in FrameSizes : Drop(t, b)
    BY <1>1 DEF Next, AdmitUncapped, Admit, Reset, vars, BudgetInv, TypeOK
  <2>2. /\ t \in Nat /\ t >= clock /\ bytes \in Nat /\ TypeOK
        /\ Second \in Nat \ {0}
    BY <1>1, BudgetAssumption DEF BudgetInv, TypeOK
  <2>3. clock' = t /\ tokens' = TokensAt(t)
    BY <2>1 DEF Drop, DropKeeps, Record
  <2>4. Elapsed(t) = t - last /\ Elapsed(t) \in Nat /\ Refill(t) \in Nat
    BY <1>1, <2>2, RefillBound DEF Elapsed
  <2>5. Elapsed(t) * bytes_per_second \in Nat
    BY <2>2, <2>4, TimesNat DEF TypeOK
  <2>6. bytes * Second <= Elapsed(t) * bytes_per_second
    <3>1. bytes * Second \in Nat
      BY <2>2, TimesNat
    <3>2. QED
      BY <1>1, <2>3, <2>4, <2>5, <3>1
  <2>7. bytes <= Refill(t)
    BY <2>2, <2>5, <2>6, DivAtLeast DEF Refill
  <2>8. QED
    BY <1>1, <2>2, <2>3, <2>4, <2>7 DEF TokensAt, LesserOf, TypeOK
<1>2. BudgetInv /\ [Next]_vars =>
        [\A bytes \in FrameSizes :
           dropped' > dropped /\ bytes <= burst_bytes /\ last # -1
             /\ (clock' - last) * bytes_per_second >= bytes * Second
           => tokens' >= bytes]_vars
  BY <1>1
<1>3. QED
  BY <1>2, BudgetInvariant, PTL DEF Spec, IdleGapEarns

------------------------------------------------------------------------------
(* The sender.                                                              *)

LEMMA EstimateIsFrameSize ==
  ASSUME NEW file \in Jpegs
  PROVE  WireLen(file) \in FrameSizes
  BY FrameSizesAssumption

(* Every step of the sender is a call of Budget::admit, or leaves the       *)
(* Budget alone.                                                            *)
LEMMA SenderStep ==
  ASSUME [SenderNext]_senderVars
  PROVE  [Next]_vars
<1>1. ASSUME NEW t \in clock .. MaxTime, NEW file \in Jpegs,
             FrameDropped(file, t) \/ FrameAdmitted(file, t)
      PROVE  Next
  BY <1>1, EstimateIsFrameSize DEF FrameDropped, FrameAdmitted, Ready, Next
<1>2. CASE CopyPanics \/ SendPacket \/ SendFails
  BY <1>2 DEF CopyPanics, SendPacket, SendFails
<1>3. CASE UNCHANGED senderVars
  BY <1>3 DEF senderVars
<1>4. QED
  BY <1>1, <1>2, <1>3 DEF SenderNext

(* The sender with everything but the Budget hidden is the Budget: nothing  *)
(* send_frame does between two calls of admit disturbs the bucket.          *)
THEOREM SenderUsesBudget == SenderSpec => Spec
<1>1. SenderInit => Init
  BY DEF SenderInit
<1>2. QED
  BY <1>1, SenderStep, PTL DEF SenderSpec, Spec

(* In every stretch of time the frames send_frame takes are charged at most *)
(* the burst plus the rate (udp_net.rs:65-67, :86-92).                      *)
THEOREM SenderRateBound == SenderSpec => []RateBound
BY SenderUsesBudget, BudgetRate, PTL

(* Nor does rounding, or a frame dropped or failed half way, take more from *)
(* the frames that follow than a byte each (pacer.rs:141-145).              *)
THEOREM SenderRounding == SenderSpec => []RoundingBounded
BY SenderUsesBudget, BudgetRounding, PTL

(* A gap in the stream is earned whatever became of the last frame          *)
(* (pacer.rs:141-156).                                                      *)
THEOREM SenderIdleGap == SenderSpec => IdleGapEarns
BY SenderUsesBudget, BudgetIdleGap, PTL

------------------------------------------------------------------------------
(* Induction over the segments of a file.                                   *)

LEMMA Least ==
  ASSUME NEW Q \in SUBSET Nat, Q # {}
  PROVE  \E m \in Q : \A k \in Q : m <= k
<1> DEFINE R == {ss \in Nat \X Nat : ss[1] < ss[2]}
<1>1. IsWellFoundedOn(R, Nat)
  BY NatLessThanWellFounded DEF OpToRel
<1>2. \A x, y \in Nat : x < y => <<x, y>> \in R
  OBVIOUS
<1> HIDE DEF R
<1>3. PICK x \in Q : \A y \in Q : ~ (<<y, x>> \in R)
  BY <1>1, WFMin, Zenon
<1>4. \A y \in Q : ~ (y < x)
  BY <1>2, <1>3
<1>5. QED
  BY <1>4

(* Whatever holds of 0 and goes from each k - 1 to k holds up to n.         *)
LEMMA UpTo ==
  ASSUME NEW n \in Nat, NEW P, 0 \in P, \A k \in 1 .. n : k - 1 \in P => k \in P
  PROVE  0 .. n \subseteq P
<1> SUFFICES ASSUME ~ (0 .. n \subseteq P) PROVE FALSE
  OBVIOUS
<1>1. PICK m \in (0 .. n) \ P : \A k \in (0 .. n) \ P : m <= k
  <2>1. (0 .. n) \ P \in SUBSET Nat /\ (0 .. n) \ P # {}
    OBVIOUS
  <2>2. QED
    BY <2>1, Least
<1>2. QED
  BY <1>1

(* A value for 0 and a step from each k - 1 to k make a function.           *)
Iterations(n, S, first, step) ==
  {f \in [0 .. n -> S] :
     f[0] = first /\ \A k \in 1 .. n : f[k] = step[k][f[k - 1]]}

LEMMA Iterated ==
  ASSUME NEW n \in Nat, NEW S, NEW first \in S, NEW step \in [1 .. n -> [S -> S]]
  PROVE  Iterations(n, S, first, step) # {}
<1> DEFINE Is(f, m) ==
             /\ f \in [0 .. m -> S] /\ f[0] = first
             /\ \A k \in 1 .. m : f[k] = step[k][f[k - 1]]
           P == {m \in 0 .. n : \E f : Is(f, m)}
<1>1. 0 \in P
  <2>1. Is([k \in 0 .. 0 |-> first], 0)
    OBVIOUS
  <2>2. \E f : Is(f, 0)
    <3> HIDE DEF Is
    <3> QED
      BY <2>1
  <2>3. QED
    BY <2>2
<1>2. ASSUME NEW k \in 1 .. n, k - 1 \in P
      PROVE  k \in P
  <2>1. PICK f : Is(f, k - 1)
    BY <1>2
  <2>2. k \in Nat /\ k >= 1 /\ (k - 1) \in 0 .. k - 1
    OBVIOUS
  <2>3. f[k - 1] \in S /\ step[k][f[k - 1]] \in S
    BY <2>1, <2>2
  <2> DEFINE g == [i \in 0 .. k |-> IF i = k THEN step[k][f[k - 1]] ELSE f[i]]
  <2>4. /\ g \in [0 .. k -> S] /\ g[k] = step[k][f[k - 1]]
        /\ \A i \in 0 .. k - 1 : g[i] = f[i]
    BY <2>1, <2>2, <2>3
  <2>5. \A i \in 1 .. k : g[i] = step[i][g[i - 1]]
    <3> TAKE i \in 1 .. k
    <3>1. CASE i = k
      BY <2>2, <2>4, <3>1
    <3>2. CASE i # k
      <4>1. i \in 1 .. k - 1 /\ i \in 0 .. k - 1 /\ i - 1 \in 0 .. k - 1
        BY <3>2
      <4>2. QED
        BY <2>1, <2>4, <4>1
    <3>3. QED
      BY <3>1, <3>2
  <2>6. Is(g, k)
    <3>1. 0 \in 0 .. k - 1
      BY <2>2
    <3>2. g[0] = first
      BY <2>1, <2>4, <3>1
    <3>3. QED
      BY <2>4, <2>5, <3>2
  <2>7. \E h : Is(h, k)
    <3> HIDE DEF Is, g
    <3> QED
      BY <2>6
  <2>8. QED
    BY <2>2, <2>7
<1>3. n \in P
  <2>1. 0 .. n \subseteq P
    <3> HIDE DEF P
    <3> QED
      BY <1>1, <1>2, UpTo
  <2>2. QED
    BY <2>1
<1>4. PICK f : Is(f, n)
  BY <1>3
<1>5. f \in Iterations(n, S, first, step)
  BY <1>4 DEF Iterations
<1>6. QED
  BY <1>5

------------------------------------------------------------------------------
(* What parse makes of a file.                                              *)

Info == [status : {"open", "ok", "InvalidFormat", "Unsupported"},
         present : SUBSET {0, 1}, count : 0 .. 2,
         dims : BOOLEAN, restart : BOOLEAN]

LEMMA SegLenType ==
  ASSUME NEW seg \in Segment
  PROVE  /\ SegLen(seg) \in Nat
         /\ seg.marker = "SOF" => SegLen(seg) = 19
         /\ seg.marker = "SOS" => SegLen(seg) = 14
BY DEF Segment, Markers, SegLen

LEMMA BytesAre ==
  ASSUME NEW file \in JpegFile
  PROVE  /\ Bytes(file) \in [0 .. Len(file.segs) -> Nat]
         /\ Bytes(file)[0] = 2
         /\ \A k \in 1 .. Len(file.segs) :
              Bytes(file)[k] = Bytes(file)[k - 1] + SegLen(file.segs[k])
<1> DEFINE n == Len(file.segs)
           Is(f) == f = [k \in 0 .. n |->
                           IF k = 0 THEN 2 ELSE f[k - 1] + SegLen(file.segs[k])]
           step == [k \in 1 .. n |-> [b \in Nat |-> b + SegLen(file.segs[k])]]
<1>1. n \in Nat /\ \A k \in 1 .. n : file.segs[k] \in Segment
  BY DEF JpegFile
<1>2. step \in [1 .. n -> [Nat -> Nat]]
  BY <1>1, SegLenType
<1>3. PICK f \in [0 .. n -> Nat] :
        f[0] = 2 /\ \A k \in 1 .. n : f[k] = step[k][f[k - 1]]
  <2>1. n \in Nat /\ 2 \in Nat
    BY <1>1
  <2>2. Iterations(n, Nat, 2, step) # {}
    <3> HIDE DEF step, n
    <3> QED
      BY <1>2, <2>1, Iterated
  <2>3. QED
    BY <2>2 DEF Iterations
<1>4. \A k \in 1 .. n : f[k] = f[k - 1] + SegLen(file.segs[k])
  <2> TAKE k \in 1 .. n
  <2>1. k - 1 \in 0 .. n /\ f[k - 1] \in Nat
    BY <1>1
  <2>2. QED
    BY <1>3, <2>1
<1>5. Is(f)
  BY <1>1, <1>3, <1>4
<1>6. Bytes(file) = CHOOSE g : Is(g)
  BY DEF Bytes
<1>7. Is(Bytes(file))
  <2> HIDE DEF Is
  <2> QED
    BY <1>5, <1>6
<1> DEFINE b == Bytes(file)
<1>8. \A k \in 0 .. n : b[k] = IF k = 0 THEN 2 ELSE b[k - 1] + SegLen(file.segs[k])
  BY <1>7
<1>9. b[0] = 2 /\ \A k \in 1 .. n : b[k] = b[k - 1] + SegLen(file.segs[k])
  BY <1>1, <1>8
<1>10. \A k \in 0 .. n : b[k] \in Nat
  <2> DEFINE P == {k \in 0 .. n : b[k] \in Nat}
  <2>1. 0 \in P
    BY <1>1, <1>9
  <2>2. ASSUME NEW k \in 1 .. n, k - 1 \in P PROVE k \in P
    BY <1>1, <1>9, <2>2, SegLenType
  <2>3. 0 .. n \subseteq P
    <3> HIDE DEF P
    <3> QED
      BY <1>1, <2>1, <2>2, UpTo
  <2>4. QED
    BY <2>3
<1>11. QED
  BY <1>7, <1>9, <1>10

(* The largest id plus one.                                                 *)
LEMMA HighestIdIs ==
  ASSUME NEW seen \in Info, NEW ids \in SUBSET {0, 1}
  PROVE  /\ HighestId(seen, ids) \in 0 .. 2
         /\ HighestId(seen, ids) = 0 <=> seen.count = 0 /\ ids = {}
<1> DEFINE S == {seen.count} \cup {id + 1 : id \in ids}
           Top == IF 1 \in ids THEN 2
                  ELSE IF 0 \in ids /\ seen.count = 0 THEN 1 ELSE seen.count
<1>1. seen.count \in 0 .. 2
  BY DEF Info
<1>2. S \subseteq 0 .. 2 /\ Top \in S /\ \A m \in S : m <= Top
  BY <1>1
<1>3. HighestId(seen, ids) = CHOOSE n \in S : \A m \in S : m <= n
  BY DEF HighestId
<1>4. HighestId(seen, ids) \in S /\ \A m \in S : m <= HighestId(seen, ids)
  <2> HIDE DEF S, Top
  <2> QED
    BY <1>2, <1>3
<1>5. HighestId(seen, ids) = Top
  <2> HIDE DEF S, Top
  <2>1. Top \in 0 .. 2 /\ HighestId(seen, ids) \in 0 .. 2
    BY <1>2, <1>4
  <2>2. Top <= HighestId(seen, ids) /\ HighestId(seen, ids) <= Top
    BY <1>2, <1>4
  <2>3. QED
    BY <2>1, <2>2
<1>6. QED
  BY <1>1, <1>5

(* What one segment changes of what parse has seen.                         *)
LEMMA TakeTablesIs ==
  ASSUME NEW seen \in Info, NEW seg \in Segment
  PROVE  LET new == TakeTables(seen, seg)
         IN  IF seg.fits /\ \A i \in DOMAIN seg.ids : seg.ids[i] <= 1
             THEN /\ new \in Info
                  /\ new.status = seen.status /\ new.dims = seen.dims
                  /\ new.count = 0 <=> seen.count = 0 /\ seg.ids = <<>>
             ELSE new = Refuse(seen, "Unsupported")
<1> DEFINE ids == {seg.ids[i] : i \in DOMAIN seg.ids}
<1>1. seg.ids \in Seq(Nat)
  BY DEF Segment
<1>2. ids \subseteq {0, 1} <=> \A i \in DOMAIN seg.ids : seg.ids[i] <= 1
  <2>1. \A i \in DOMAIN seg.ids : seg.ids[i] \in Nat /\ seg.ids[i] \in ids
    BY <1>1
  <2>2. \A i \in DOMAIN seg.ids : seg.ids[i] <= 1 <=> seg.ids[i] \in {0, 1}
    BY <2>1
  <2>3. ids \subseteq {0, 1} <=> \A i \in DOMAIN seg.ids : seg.ids[i] \in {0, 1}
    OBVIOUS
  <2>4. QED
    BY <2>2, <2>3
<1>3. ids = {} <=> seg.ids = <<>>
  <2>1. seg.ids = <<>> <=> DOMAIN seg.ids = {}
    <3>1. Len(seg.ids) \in Nat /\ DOMAIN seg.ids = 1 .. Len(seg.ids)
      BY <1>1
    <3>2. 1 .. Len(seg.ids) = {} <=> Len(seg.ids) = 0
      <4>1. Len(seg.ids) # 0 => 1 \in 1 .. Len(seg.ids)
        BY <3>1
      <4>2. Len(seg.ids) = 0 => \A i \in 1 .. Len(seg.ids) : FALSE
        BY <3>1
      <4>3. QED
        BY <4>1, <4>2
    <3>3. seg.ids = <<>> <=> Len(seg.ids) = 0
      BY <1>1
    <3>4. QED
      BY <3>1, <3>2, <3>3
  <2>2. QED
    BY <2>1
<1>4. CASE ~ (seg.fits /\ ids \subseteq {0, 1})
  <2>1. TakeTables(seen, seg) = Refuse(seen, "Unsupported")
    BY <1>4 DEF TakeTables
  <2>2. QED
    BY <1>2, <1>4, <2>1
<1>5. CASE seg.fits /\ ids \subseteq {0, 1}
  <2> DEFINE new == [seen EXCEPT !.present = @ \cup ids,
                                 !.count = HighestId(seen, ids)]
  <2>1. TakeTables(seen, seg) = new
    BY <1>5 DEF TakeTables
  <2>2. HighestId(seen, ids) \in 0 .. 2
        /\ (HighestId(seen, ids) = 0 <=> seen.count = 0 /\ ids = {})
    BY <1>5, HighestIdIs
  <2>3. /\ new \in Info /\ new.status = seen.status /\ new.dims = seen.dims
        /\ new.count = HighestId(seen, ids)
    <3> HIDE DEF ids
    <3> QED
      BY <1>5, <2>2 DEF Info
  <2> HIDE DEF ids, new
  <2>4. QED
    BY <1>2, <1>3, <1>5, <2>1, <2>2, <2>3
<1>6. QED
  BY <1>4, <1>5

LEMMA RefuseIs ==
  ASSUME NEW seen \in Info, NEW error \in {"InvalidFormat", "Unsupported"}
  PROVE  /\ Refuse(seen, error) \in Info
         /\ Refuse(seen, error).status = error
         /\ Refuse(seen, error).dims = seen.dims
BY DEF Refuse, Info

(* A segment that leaves the parser going.                                  *)
Fine(seg) ==
  /\ seg.marker \notin {"SOS", "EOI", "cut"}
  /\ seg.fits
  /\ \A i \in DOMAIN seg.ids : seg.ids[i] <= 1

LEMMA StepIs ==
  ASSUME NEW seen \in Info, NEW seg \in Segment, NEW file \in JpegFile
  PROVE  LET new == Step(seen, seg, file)
         IN  /\ new \in Info
             /\ seen.status # "open" => new = seen
             /\ seen.status = "open" /\ Fine(seg) =>
                  /\ new.status = "open"
                  /\ new.dims <=> seen.dims \/ seg.marker = "SOF"
                  /\ new.count # 0 <=> seen.count # 0 \/ seg.ids # <<>>
             /\ seen.status = "open" /\ ~ Fine(seg) =>
                  /\ new.status # "open" /\ new.dims = seen.dims
                  /\ new.status = "ok" <=>
                       seg.marker = "SOS" /\ file.eoi /\ seen.dims /\ seen.count # 0
<1> DEFINE new == Step(seen, seg, file)
<1>1. /\ seg.marker \in Markers /\ seg.fits \in BOOLEAN /\ seg.ids \in Seq(Nat)
      /\ seg.ids # <<>> => seg.marker = "DQT"
      /\ ~ seg.fits => seg.marker \in {"DQT", "SOF", "DHT"}
  BY DEF Segment
<1>2. /\ seen.status \in {"open", "ok", "InvalidFormat", "Unsupported"}
      /\ seen.dims \in BOOLEAN /\ seen.count \in 0 .. 2
  BY DEF Info
<1>3. CASE seen.status # "open"
  <2>1. new = seen
    BY <1>3 DEF Step
  <2>2. QED
    BY <1>3, <2>1
<1>4. CASE seen.status = "open" /\ seg.marker = "DQT"
  <2>1. new = TakeTables(seen, seg)
    BY <1>4 DEF Step
  <2>2. CASE Fine(seg)
    BY <1>2, <1>4, <2>1, <2>2, TakeTablesIs DEF Fine
  <2>3. CASE ~ Fine(seg)
    BY <1>4, <2>1, <2>3, TakeTablesIs, RefuseIs DEF Fine
  <2>4. QED
    BY <2>2, <2>3
<1>5. CASE seen.status = "open" /\ seg.marker # "DQT"
  <2>1. seg.ids = <<>> /\ \A i \in DOMAIN seg.ids : seg.ids[i] <= 1
    BY <1>1, <1>5
  <2>2. Fine(seg) <=> seg.fits /\ seg.marker \notin {"SOS", "EOI", "cut"}
    BY <2>1 DEF Fine
  <2>3. CASE seg.marker \in {"SOF", "DHT"} /\ ~ seg.fits
    <3>1. new = Refuse(seen, "Unsupported")
      BY <1>5, <2>3 DEF Step
    <3>2. QED
      BY <1>5, <2>2, <2>3, <3>1, RefuseIs
  <2>4. CASE seg.marker \in {"EOI", "cut"}
    <3>1. new = Refuse(seen, "InvalidFormat")
      BY <1>5, <2>4 DEF Step
    <3>2. QED
      BY <1>5, <2>2, <2>4, <3>1, RefuseIs
  <2>5. CASE seg.marker = "SOS"
    <3>1. new = StartOfScan(seen, file)
      BY <1>5, <2>5 DEF Step
    <3>2. CASE ~ seen.dims \/ seen.count = 0 \/ ~ file.eoi
      BY <1>5, <2>2, <2>5, <3>1, <3>2, RefuseIs DEF StartOfScan
    <3>3. CASE ~ (~ seen.dims \/ seen.count = 0 \/ ~ file.eoi)
      <4>1. new = [seen EXCEPT !.status = "ok"]
        BY <3>1, <3>3 DEF StartOfScan
      <4>2. new \in Info /\ new.status = "ok" /\ new.dims = seen.dims
        BY <4>1 DEF Info
      <4>3. QED
        BY <1>5, <2>2, <2>5, <3>3, <4>2
    <3>4. QED
      BY <3>2, <3>3
  <2>6. CASE seg.marker = "SOF" /\ seg.fits
    <3>1. new = [seen EXCEPT !.dims = TRUE]
      BY <1>5, <2>6 DEF Step
    <3>2. /\ new \in Info /\ new.status = seen.status /\ new.dims
          /\ new.count = seen.count
      BY <3>1 DEF Info
    <3>3. QED
      BY <1>5, <2>1, <2>2, <2>6, <3>2
  <2>7. CASE seg.marker = "DRI"
    <3>1. new = [seen EXCEPT !.restart = TRUE]
      BY <1>5, <2>7 DEF Step
    <3>2. /\ new \in Info /\ new.status = seen.status /\ new.dims = seen.dims
          /\ new.count = seen.count
      BY <3>1 DEF Info
    <3>3. seg.fits
      BY <1>1, <2>7
    <3>4. QED
      BY <1>5, <2>1, <2>2, <2>7, <3>2, <3>3
  <2>8. CASE seg.marker = "APP" \/ (seg.marker = "DHT" /\ seg.fits)
    <3>1. new = seen
      BY <1>5, <2>8 DEF Step
    <3>2. seg.fits
      BY <1>1, <2>8
    <3>3. QED
      BY <1>5, <2>1, <2>2, <2>8, <3>1, <3>2
  <2>9. QED
    BY <1>1, <1>5, <2>3, <2>4, <2>5, <2>6, <2>7, <2>8 DEF Markers
<1>6. QED
  BY <1>3, <1>4, <1>5

LEMMA SeenAre ==
  ASSUME NEW file \in JpegFile
  PROVE  /\ Seen(file) \in [0 .. Len(file.segs) -> Info]
         /\ Seen(file)[0] = Nothing
         /\ \A k \in 1 .. Len(file.segs) :
              Seen(file)[k] = Step(Seen(file)[k - 1], file.segs[k], file)
<1> DEFINE n == Len(file.segs)
           Is(f) == f = [k \in 0 .. n |->
                           IF k = 0 THEN Nothing
                           ELSE Step(f[k - 1], file.segs[k], file)]
           step == [k \in 1 .. n |-> [b \in Info |-> Step(b, file.segs[k], file)]]
<1>1. n \in Nat /\ \A k \in 1 .. n : file.segs[k] \in Segment
  BY DEF JpegFile
<1>2. step \in [1 .. n -> [Info -> Info]]
  <2>1. \A k \in 1 .. n, b \in Info : Step(b, file.segs[k], file) \in Info
    BY <1>1, StepIs
  <2>2. QED
    BY <2>1
<1>3. PICK f \in [0 .. n -> Info] :
        f[0] = Nothing /\ \A k \in 1 .. n : f[k] = step[k][f[k - 1]]
  <2>1. n \in Nat /\ Nothing \in Info
    BY <1>1 DEF Nothing, Info
  <2>2. Iterations(n, Info, Nothing, step) # {}
    <3> HIDE DEF step, n
    <3> QED
      BY <1>2, <2>1, Iterated
  <2>3. QED
    BY <2>2 DEF Iterations
<1>4. \A k \in 1 .. n : f[k] = Step(f[k - 1], file.segs[k], file)
  <2> TAKE k \in 1 .. n
  <2>1. k - 1 \in 0 .. n /\ f[k - 1] \in Info
    BY <1>1
  <2>2. QED
    BY <1>3, <2>1
<1>5. Is(f)
  BY <1>1, <1>3, <1>4
<1>6. Seen(file) = CHOOSE g : Is(g)
  BY DEF Seen
<1>7. Is(Seen(file))
  <2> HIDE DEF Is
  <2> QED
    BY <1>5, <1>6
<1> DEFINE s == Seen(file)
<1>8. \A k \in 0 .. n : s[k] = IF k = 0 THEN Nothing
                               ELSE Step(s[k - 1], file.segs[k], file)
  BY <1>7
<1>9. s[0] = Nothing /\ \A k \in 1 .. n : s[k] = Step(s[k - 1], file.segs[k], file)
  BY <1>1, <1>8
<1>10. \A k \in 0 .. n : s[k] \in Info
  <2> DEFINE P == {k \in 0 .. n : s[k] \in Info}
  <2>1. 0 \in P
    <3>1. Nothing \in Info
      BY DEF Nothing, Info
    <3>2. s[0] \in Info /\ 0 \in 0 .. n
      BY <1>1, <1>9, <3>1
    <3>3. QED
      BY <3>2
  <2>2. ASSUME NEW k \in 1 .. n, k - 1 \in P PROVE k \in P
    BY <1>1, <1>9, <2>2, StepIs
  <2>3. 0 .. n \subseteq P
    <3> HIDE DEF P
    <3> QED
      BY <1>1, <2>1, <2>2, UpTo
  <2>4. QED
    BY <2>3
<1>11. QED
  BY <1>7, <1>9, <1>10

(* The end of the file decides what no segment has.                         *)
LEMMA ParseIs ==
  ASSUME NEW file \in JpegFile
  PROVE  /\ Parse(file) \in Info
         /\ Parse(file).status # "open"
         /\ Parse(file).status = "ok" <=> Seen(file)[Len(file.segs)].status = "ok"
<1> DEFINE seen == Seen(file)[Len(file.segs)]
<1>1. seen \in Info
  <2>1. Len(file.segs) \in 0 .. Len(file.segs)
    BY DEF JpegFile
  <2>2. QED
    BY <2>1, SeenAre
<1>2. Parse(file) = IF seen.status = "open" THEN Refuse(seen, "InvalidFormat") ELSE seen
  BY DEF Parse
<1> HIDE DEF seen
<1>3. QED
  BY <1>1, <1>2, RefuseIs DEF seen

(* A file that is accepted has room, in front of its scan, for SOI, a       *)
(* picture header and the start of the scan.                                *)
LEMMA FileRoom ==
  ASSUME NEW file \in JpegFile
  PROVE  /\ FileLen(file) \in Nat
         /\ Parse(file).status = "ok" => FileLen(file) >= file.scan + 35
<1> DEFINE n == Len(file.segs)
           s == Seen(file)
           b == Bytes(file)
           P == {k \in 0 .. n : /\ b[k] \in Nat /\ s[k] \in Info
                                /\ b[k] >= 2
                                /\ s[k].dims => b[k] >= 21
                                /\ s[k].status = "ok" => b[k] >= 35}
<1>1. n \in Nat /\ \A k \in 1 .. n : file.segs[k] \in Segment
  BY DEF JpegFile
<1>2. 0 \in P
  <2>1. b[0] = 2 /\ s[0] = Nothing
    BY BytesAre, SeenAre
  <2>2. Nothing \in Info /\ ~ Nothing.dims /\ Nothing.status # "ok"
    BY DEF Nothing, Info
  <2>3. QED
    BY <1>1, <2>1, <2>2
<1>3. ASSUME NEW k \in 1 .. n, k - 1 \in P
      PROVE  k \in P
  <2> DEFINE seg == file.segs[k]
  <2>1. /\ b[k] = b[k - 1] + SegLen(seg)
        /\ s[k] = Step(s[k - 1], seg, file)
        /\ seg \in Segment /\ k \in 0 .. n
    BY <1>1, BytesAre, SeenAre
  <2>2. /\ SegLen(seg) \in Nat
        /\ seg.marker = "SOF" => SegLen(seg) = 19
        /\ seg.marker = "SOS" => SegLen(seg) = 14
    BY <2>1, SegLenType
  <2>3. /\ b[k - 1] \in Nat /\ s[k - 1] \in Info /\ b[k - 1] >= 2
        /\ s[k - 1].dims => b[k - 1] >= 21
        /\ s[k - 1].status = "ok" => b[k - 1] >= 35
    BY <1>3
  <2>4. /\ s[k] \in Info
        /\ s[k].dims => s[k - 1].dims \/ seg.marker = "SOF"
        /\ s[k].status = "ok" => s[k - 1].status = "ok"
                                  \/ (s[k - 1].dims /\ seg.marker = "SOS")
    BY <2>1, <2>3, StepIs
  <2> HIDE DEF s, b, seg
  <2>5. b[k] \in Nat /\ b[k] >= 2
    BY <2>1, <2>2, <2>3
  <2>6. s[k].dims => b[k] >= 21
    BY <2>1, <2>2, <2>3, <2>4
  <2>7. s[k].status = "ok" => b[k] >= 35
    BY <2>1, <2>2, <2>3, <2>4
  <2>8. QED
    BY <2>1, <2>4, <2>5, <2>6, <2>7
<1>4. n \in P
  <2>1. 0 .. n \subseteq P
    <3> HIDE DEF P, n
    <3> QED
      BY <1>1, <1>2, <1>3, UpTo
  <2>2. QED
    BY <1>1, <2>1
<1>5. b[n] \in Nat /\ (s[n].status = "ok" => b[n] >= 35)
  BY <1>4
<1>6. file.scan \in Nat
  BY DEF JpegFile
<1>7. /\ FileLen(file) \in Nat /\ FileLen(file) >= b[n] + file.scan
  <2>1. FileLen(file) = b[n] + file.scan + (IF file.eoi THEN 2 ELSE 0)
    BY DEF FileLen
  <2> HIDE DEF b, n
  <2>2. QED
    BY <1>5, <1>6, <2>1
<1>8. Parse(file).status = "ok" <=> s[n].status = "ok"
  BY ParseIs
<1> HIDE DEF b, s, n
<1>9. QED
  BY <1>5, <1>6, <1>7, <1>8

------------------------------------------------------------------------------
(* parse accepts what the reference does.                                   *)

Clean(file, k) == \A i \in 1 .. k : Fine(file.segs[i])
Headed(file, k) == \E i \in 1 .. k : file.segs[i].marker = "SOF"
Tabled(file, k) == \E i \in 1 .. k : file.segs[i].ids # <<>>
Started(file, k) ==
  \E j \in 1 .. k : /\ file.eoi /\ file.segs[j].marker = "SOS"
                    /\ Clean(file, j - 1) /\ Headed(file, j - 1) /\ Tabled(file, j - 1)

LEMMA OneMore ==
  ASSUME NEW file \in JpegFile, NEW k \in Nat, k >= 1
  PROVE  /\ Clean(file, k) <=> Clean(file, k - 1) /\ Fine(file.segs[k])
         /\ Headed(file, k) <=> Headed(file, k - 1) \/ file.segs[k].marker = "SOF"
         /\ Tabled(file, k) <=> Tabled(file, k - 1) \/ file.segs[k].ids # <<>>
         /\ Started(file, k) <=>
              \/ Started(file, k - 1)
              \/ /\ file.eoi /\ file.segs[k].marker = "SOS"
                 /\ Clean(file, k - 1) /\ Headed(file, k - 1) /\ Tabled(file, k - 1)
         /\ Started(file, k - 1) => ~ Clean(file, k - 1)
<1>1. 1 .. k = (1 .. k - 1) \cup {k}
  OBVIOUS
<1>2. Clean(file, k) <=> Clean(file, k - 1) /\ Fine(file.segs[k])
  BY <1>1 DEF Clean
<1>3. Headed(file, k) <=> Headed(file, k - 1) \/ file.segs[k].marker = "SOF"
  BY <1>1 DEF Headed
<1>4. Tabled(file, k) <=> Tabled(file, k - 1) \/ file.segs[k].ids # <<>>
  BY <1>1 DEF Tabled
<1>5. Started(file, k) <=>
        \/ Started(file, k - 1)
        \/ /\ file.eoi /\ file.segs[k].marker = "SOS"
           /\ Clean(file, k - 1) /\ Headed(file, k - 1) /\ Tabled(file, k - 1)
  BY <1>1, Zenon DEF Started
<1>6. Started(file, k - 1) => ~ Clean(file, k - 1)
  BY DEF Started, Clean, Fine
<1>7. QED
  BY <1>2, <1>3, <1>4, <1>5, <1>6

LEMMA ParseAccepts ==
  ASSUME NEW file \in JpegFile
  PROVE  Parse(file).status = "ok" <=> Carriable(file)
<1> DEFINE n == Len(file.segs)
           s == Seen(file)
           Agrees(k) ==
             /\ s[k].status = "open" <=> Clean(file, k)
             /\ s[k].status = "open" => /\ s[k].dims <=> Headed(file, k)
                                        /\ s[k].count # 0 <=> Tabled(file, k)
             /\ s[k].status = "ok" <=> Started(file, k)
           P == {k \in 0 .. n : Agrees(k)}
<1>1. n \in Nat /\ \A k \in 1 .. n : file.segs[k] \in Segment
  BY DEF JpegFile
<1>2. 0 \in P
  <2>1. s[0] = Nothing
    BY SeenAre
  <2>2. Agrees(0)
    BY <2>1 DEF Nothing, Clean, Headed, Tabled, Started
  <2>3. QED
    BY <1>1, <2>2
<1>3. ASSUME NEW k \in 1 .. n, k - 1 \in P
      PROVE  k \in P
  <2> DEFINE seg == file.segs[k]
  <2>1. /\ s[k] = Step(s[k - 1], seg, file) /\ s[k - 1] \in Info
        /\ seg \in Segment /\ k \in 0 .. n /\ k \in Nat /\ k >= 1
    <3>1. k \in 0 .. n /\ k - 1 \in 0 .. n /\ k \in Nat /\ k >= 1
      BY <1>1
    <3>2. s[k] = Step(s[k - 1], seg, file) /\ s[k - 1] \in Info
      BY <3>1, SeenAre
    <3>3. QED
      BY <1>1, <3>1, <3>2
  <2>2. Agrees(k - 1)
    BY <1>3
  <2>3. Agrees(k)
    <3> HIDE DEF s, n
    <3>1. CASE s[k - 1].status # "open"
      BY <2>1, <2>2, <3>1, StepIs, OneMore
    <3>2. CASE s[k - 1].status = "open" /\ Fine(seg)
      <4>1. /\ s[k].status = "open"
            /\ s[k].dims <=> s[k - 1].dims \/ seg.marker = "SOF"
            /\ s[k].count # 0 <=> s[k - 1].count # 0 \/ seg.ids # <<>>
        BY <2>1, <3>2, StepIs
      <4>2. seg.marker # "SOS"
        BY <3>2 DEF Fine
      <4>3. QED
        BY <2>1, <2>2, <3>2, <4>1, <4>2, OneMore
    <3>3. CASE s[k - 1].status = "open" /\ ~ Fine(seg)
      <4>1. /\ s[k].status # "open"
            /\ s[k].status = "ok" <=> seg.marker = "SOS" /\ file.eoi
                                       /\ s[k - 1].dims /\ s[k - 1].count # 0
        BY <2>1, <3>3, StepIs
      <4>2. QED
        BY <2>1, <2>2, <3>3, <4>1, OneMore
    <3>4. QED
      BY <3>1, <3>2, <3>3
  <2>4. QED
    BY <2>1, <2>3
<1>4. n \in P
  <2>1. 0 .. n \subseteq P
    <3> HIDE DEF P, n
    <3> QED
      BY <1>1, <1>2, <1>3, UpTo
  <2>2. QED
    BY <1>1, <2>1
<1>5. Parse(file).status = "ok" <=> Started(file, n)
  BY <1>4, ParseIs
<1>6. Started(file, n) <=> Carriable(file)
  <2>1. DOMAIN file.segs = 1 .. n
    BY DEF JpegFile
  <2>2. ASSUME NEW k \in 1 .. n
        PROVE  LET before == {file.segs[i] : i \in 1 .. k - 1}
               IN  /\ Clean(file, k - 1) <=> \A seg \in before : Fine(seg)
                   /\ Headed(file, k - 1) <=> \E seg \in before : seg.marker = "SOF"
                   /\ Tabled(file, k - 1) <=> \E seg \in before : seg.ids # <<>>
    BY DEF Clean, Headed, Tabled
  <2> HIDE DEF n
  <2>3. QED
    BY <2>1, <2>2 DEF Started, Carriable, Fine
<1>7. QED
  BY <1>5, <1>6

------------------------------------------------------------------------------
(* The packets of a frame.                                                  *)

LEMMA Mtus ==
  /\ Mtu \in Nat /\ Mtu >= 157
  /\ Room \in Nat /\ Room >= 137 /\ Mtu = Room + 20
BY MtuAssumption DEF HeaderLen, RestartLen, TablesLen, Room

LEMMA TablesLenIs ==
  ASSUME NEW n \in 0 .. 2
  PROVE  TablesLen(n) \in 0 .. 132
BY DEF TablesLen

(* What the packets still owed may use of the room paid for.                *)
Rest ==
  Mtu * (jpeg.scan - off + (IF off = 0 THEN TablesLen(info.count) ELSE 0))
  + HeaderLen * Room

(* The bytes on the wire, and what the rest of the frame may need, are paid *)
(* for by what the budget was charged and by the restart headers.           *)
Paid ==
  Room * sent + (IF sending /\ InStretch THEN Rest ELSE 0)
    <= Room * stretchBytes + Mtu * (RestartLen * marked)

PaidFrom == sent > 0 \/ (sending /\ InStretch) => stretchBytes > 0

(* A file is sent only as what parse made of it.                            *)
SentAsParsed ==
  /\ jpeg # NoFile => jpeg \in Jpegs /\ info = Parse(jpeg)
  /\ sending => jpeg # NoFile /\ info.status = "ok"

SendInv == SenderTypeOK /\ PacketFits /\ SentAsParsed /\ Paid /\ PaidFrom

LEMMA JpegIs ==
  ASSUME SenderTypeOK
  PROVE  /\ jpeg \in JpegFile /\ jpeg.scan \in Nat /\ off \in Nat
         /\ off <= jpeg.scan /\ (sending => off < jpeg.scan)
         /\ info \in Info /\ info.count \in 0 .. 2 /\ info.restart \in BOOLEAN
         /\ sending \in BOOLEAN
         /\ sent \in Nat /\ marked \in Nat
         /\ clock \in Nat /\ from \in Nat /\ stretchBytes \in Nat
<1>1. jpeg \in JpegFile
  <2>1. NoFile \in JpegFile
    <3>1. <<>> \in Seq(Segment)
      OBVIOUS
    <3>2. QED
      BY <3>1, Zenon DEF NoFile, JpegFile
  <2>2. QED
    BY <2>1, JpegsAssumption DEF SenderTypeOK
<1>2. jpeg.scan \in Nat
  BY <1>1 DEF JpegFile
<1>3. off \in 0 .. jpeg.scan /\ (sending => off < jpeg.scan)
  BY DEF SenderTypeOK
<1>4. info \in Info /\ info.count \in 0 .. 2 /\ info.restart \in BOOLEAN
  BY DEF SenderTypeOK, Info
<1>5. /\ sending \in BOOLEAN /\ sent \in Nat /\ marked \in Nat
      /\ clock \in Nat /\ from \in Nat /\ stretchBytes \in Nat
  BY DEF SenderTypeOK, TypeOK
<1>6. QED
  BY <1>1, <1>2, <1>3, <1>4, <1>5

(* A packet that ends the frame, or is as long as the MTU, uses no more     *)
(* than its share of the room.                                              *)
LEMMA PacketCost ==
  ASSUME NEW r \in Nat, NEW t \in Nat, NEW b \in Nat
  PROVE  /\ Room * (HeaderLen + r + t + b)
              <= Mtu * (t + b) + Mtu * r + HeaderLen * Room
         /\ HeaderLen + r + t + b = Mtu =>
              Room * (HeaderLen + r + t + b) = Mtu * (t + b) + Mtu * r
<1>1. Room \in Nat /\ Mtu = Room + 20 /\ HeaderLen = 20
  BY Mtus DEF HeaderLen
<1> DEFINE x == t + b
<1>2. x \in Nat /\ HeaderLen + r + t + b = 20 + (r + x)
  BY <1>1
<1>3. Room * (20 + (r + x)) = Room * 20 + Room * (r + x)
  BY <1>1, <1>2, Distributes
<1>4. Room * (r + x) = Room * r + Room * x
  BY <1>1, <1>2, Distributes
<1>5. Mtu * x = Room * x + 20 * x /\ Mtu * r = Room * r + 20 * r
  BY <1>1, <1>2
<1>6. Room * x \in Nat /\ Room * r \in Nat
  BY <1>1, <1>2, TimesNat
<1> HIDE DEF x
<1>7. Room * (HeaderLen + r + t + b) <= Mtu * x + Mtu * r + HeaderLen * Room
  BY <1>1, <1>2, <1>3, <1>4, <1>5, <1>6
<1>8. HeaderLen + r + t + b = Mtu =>
        Room * (HeaderLen + r + t + b) = Mtu * x + Mtu * r
  <2> SUFFICES ASSUME HeaderLen + r + t + b = Mtu
               PROVE  Room * (HeaderLen + r + t + b) = Mtu * x + Mtu * r
    OBVIOUS
  <2>1. Room = r + x
    BY <1>1, <1>2
  <2>2. QED
    BY <1>1, <1>2, <1>3, <1>4, <1>5, <1>6, <2>1
<1>9. QED
  BY <1>7, <1>8 DEF x

LEMMA CeilDivIs ==
  ASSUME NEW a \in Nat, NEW b \in Nat \ {0}
  PROVE  CeilDiv(a, b) \in Nat /\ b * CeilDiv(a, b) >= a
BY DEF CeilDiv

(* What the budget is charged pays for the whole frame.                     *)
LEMMA FramePaid ==
  ASSUME NEW file \in JpegFile
  PROVE  /\ WireLen(file) \in Nat /\ WireLen(file) > 0
         /\ Parse(file).status = "ok" =>
              Mtu * (file.scan + TablesLen(Parse(file).count)) + HeaderLen * Room
                <= Room * WireLen(file)
<1> DEFINE len == FileLen(file)
           packets == CeilDiv(len, Room)
           tables == TablesLen(Parse(file).count)
<1>1. len \in Nat /\ file.scan \in Nat
  BY FileRoom DEF JpegFile
<1>2. Room \in Nat \ {0} /\ Room >= 137 /\ Mtu = Room + 20
  BY Mtus
<1>3. packets \in Nat /\ Room * packets >= len
  BY <1>1, <1>2, CeilDivIs
<1>4. WireLen(file) = len + packets * 20 + 132
  BY <1>1, <1>3 DEF WireLen, HeaderLen
<1>5. WireLen(file) \in Nat /\ WireLen(file) > 0
  BY <1>1, <1>3, <1>4
<1>6. ASSUME Parse(file).status = "ok"
      PROVE  Mtu * (file.scan + tables) + HeaderLen * Room <= Room * WireLen(file)
  <2>1. len >= file.scan + 35
    BY <1>6, FileRoom
  <2>2. tables \in 0 .. 132
    BY ParseIs, TablesLenIs DEF Info
  <2> HIDE DEF len, packets, tables
  <2>3. Room * WireLen(file) = Room * len + 20 * (Room * packets) + 132 * Room
    BY <1>1, <1>2, <1>3, <1>4
  <2>4. Mtu * len = Room * len + 20 * len
    BY <1>1, <1>2
  <2>5. Mtu * (file.scan + 35) <= Mtu * len
    BY <1>1, <1>2, <2>1, TimesMonotone
  <2>6. Mtu * (file.scan + 35) = Mtu * file.scan + 35 * Mtu
    BY <1>1, <1>2
  <2>7. Mtu * (file.scan + tables) = Mtu * file.scan + Mtu * tables
    BY <1>1, <1>2, <2>2, Distributes
  <2>8. Mtu * tables <= Mtu * 132
    BY <1>2, <2>2, TimesMonotone
  <2>9. /\ Mtu * tables \in Nat /\ Mtu * file.scan \in Nat /\ Mtu * len \in Nat
        /\ Room * len \in Nat /\ Room * packets \in Nat
    BY <1>1, <1>2, <1>3, <2>2, TimesNat
  <2>10. 132 * Mtu + 20 * Room <= 35 * Mtu + 132 * Room
    BY <1>2
  <2>11. QED
    BY <1>1, <1>2, <1>3, <2>3, <2>4, <2>5, <2>6, <2>7, <2>8, <2>9, <2>10 DEF HeaderLen
<1>7. QED
  BY <1>5, <1>6

LEMMA InitSend == SenderInit => SendInv
<1> SUFFICES ASSUME SenderInit PROVE SendInv
  OBVIOUS
<1>1. TypeOK /\ stretchBytes \in Nat
  BY InitBudget DEF SenderInit, BudgetInv, TypeOK
<1>2. SenderTypeOK
  <2>1. jpeg.scan = 0 /\ off \in 0 .. jpeg.scan /\ ~ sending
    BY DEF SenderInit, NoFile
  <2>2. info = Nothing /\ Nothing \in Info
    BY DEF SenderInit, Nothing, Info
  <2>3. /\ stats \in [frames : Nat, packets : Nat, bytes : Nat, dropped : Nat]
        /\ fails \in Nat /\ sent \in Nat /\ marked \in Nat
        /\ packet \in [head : Nat, body : Nat]
    BY DEF SenderInit
  <2>4. jpeg = NoFile /\ sending \in BOOLEAN /\ panicked \in BOOLEAN
    BY DEF SenderInit
  <2>5. QED
    BY <1>1, <2>1, <2>2, <2>3, <2>4 DEF SenderTypeOK, Info
<1>3. PacketFits
  BY Mtus DEF SenderInit, PacketFits
<1>4. SentAsParsed
  BY DEF SenderInit, SentAsParsed
<1>5. Paid /\ PaidFrom
  <2>1. sent = 0 /\ ~ sending /\ stretchBytes = 0 /\ marked = 0
    BY DEF SenderInit, Init
  <2>2. Room * 0 = 0 /\ Mtu * (RestartLen * 0) = 0
    BY Mtus DEF RestartLen
  <2>3. QED
    BY <2>1, <2>2 DEF Paid, PaidFrom
<1>6. QED
  BY <1>2, <1>3, <1>4, <1>5 DEF SendInv

(* One packet: its size, and what is left of the frame after it.            *)
LEMMA PacketIs ==
  ASSUME SenderTypeOK, sending
  PROVE  LET r == IF info.restart THEN RestartLen ELSE 0
             t == IF off = 0 THEN TablesLen(info.count) ELSE 0
         IN  /\ r \in {0, 4} /\ t \in 0 .. 132
             /\ HeadLen = HeaderLen + r + t /\ HeadLen \in 20 .. 156
             /\ Take \in Nat /\ Take > 0 /\ HeadLen + Take <= Mtu
             /\ off + Take <= jpeg.scan
             /\ ~ Last => HeadLen + Take = Mtu /\ off + Take < jpeg.scan
<1> DEFINE r == IF info.restart THEN RestartLen ELSE 0
           t == IF off = 0 THEN TablesLen(info.count) ELSE 0
<1>1. r \in {0, 4} /\ t \in 0 .. 132
  BY JpegIs, TablesLenIs DEF RestartLen
<1>2. HeadLen = HeaderLen + r + t
  BY DEF HeadLen
<1>3. HeadLen \in 20 .. 156
  <2> HIDE DEF r, t
  <2> QED
    BY <1>1, <1>2 DEF HeaderLen
<1>4. /\ Mtu \in Nat /\ Mtu >= 157
      /\ jpeg.scan \in Nat /\ off \in Nat /\ off < jpeg.scan
  BY Mtus, JpegIs
<1>5. /\ Take = IF jpeg.scan - off <= Mtu - HeadLen THEN jpeg.scan - off ELSE Mtu - HeadLen
      /\ Last <=> off + Take = jpeg.scan
  BY DEF Take, Last, LesserOf
<1>6. /\ Take \in Nat /\ Take > 0 /\ HeadLen + Take <= Mtu
      /\ off + Take <= jpeg.scan
      /\ ~ Last => HeadLen + Take = Mtu /\ off + Take < jpeg.scan
  BY <1>3, <1>4, <1>5
<1>7. QED
  BY <1>1, <1>2, <1>3, <1>6

LEMMA SendPacketSend ==
  ASSUME SendInv, SendPacket
  PROVE  SendInv'
<1>1. /\ sending /\ SenderTypeOK
      /\ off' = off + Take /\ sending' = ~ Last
      /\ stats' = [stats EXCEPT !.packets = @ + 1, !.bytes = @ + HeadLen + Take,
                                !.frames = @ + (IF Last THEN 1 ELSE 0)]
      /\ sent' = sent + (IF InStretch THEN HeadLen + Take ELSE 0)
      /\ marked' = marked + (IF InStretch /\ info.restart THEN 1 ELSE 0)
      /\ packet' = [head |-> HeadLen, body |-> Take]
  BY DEF SendInv, SendPacket, Sendable
<1>2. UNCHANGED <<vars, jpeg, info, fails, panicked>>
  BY DEF SendPacket
<1>3. /\ jpeg' = jpeg /\ info' = info /\ stretchBytes' = stretchBytes
      /\ clock' = clock /\ from' = from
  BY <1>2 DEF vars
<1> DEFINE r == IF info.restart THEN RestartLen ELSE 0
           t == IF off = 0 THEN TablesLen(info.count) ELSE 0
<1>4. /\ r \in {0, 4} /\ t \in 0 .. 132
      /\ HeadLen = HeaderLen + r + t /\ HeadLen \in 20 .. 156
      /\ Take \in Nat /\ Take > 0 /\ HeadLen + Take <= Mtu
      /\ off + Take <= jpeg.scan
      /\ ~ Last => HeadLen + Take = Mtu /\ off + Take < jpeg.scan
  BY <1>1, PacketIs
<1>5. /\ jpeg.scan \in Nat /\ off \in Nat /\ off < jpeg.scan
      /\ sent \in Nat /\ marked \in Nat /\ stretchBytes \in Nat
      /\ Mtu \in Nat /\ Room \in Nat
  BY <1>1, JpegIs, Mtus
<1> HIDE DEF r, t
<1>6. SenderTypeOK'
  <2>1. TypeOK' /\ jpeg' \in Jpegs \cup {NoFile} /\ fails' \in Nat
        /\ panicked' \in BOOLEAN
    BY <1>1, <1>2 DEF SenderTypeOK, TypeOK, vars, config
  <2>2. info' \in Info
    BY <1>1, <1>3, JpegIs
  <2>3. off' \in 0 .. jpeg'.scan /\ (sending' => off' < jpeg'.scan)
    <3>1. off' \in 0 .. jpeg.scan
      BY <1>1, <1>4, <1>5
    <3>2. sending' => off' < jpeg.scan
      BY <1>1, <1>4
    <3>3. QED
      BY <1>3, <3>1, <3>2
  <2>4. sending' \in BOOLEAN
    BY <1>1 DEF Last
  <2>5. stats' \in [frames : Nat, packets : Nat, bytes : Nat, dropped : Nat]
    <3>1. /\ stats \in [frames : Nat, packets : Nat, bytes : Nat, dropped : Nat]
          /\ HeadLen \in Nat /\ Take \in Nat
      BY <1>1, <1>4 DEF SenderTypeOK
    <3>2. /\ stats.packets + 1 \in Nat /\ stats.bytes + HeadLen + Take \in Nat
          /\ stats.frames + (IF Last THEN 1 ELSE 0) \in Nat
      BY <3>1
    <3>3. QED
      BY <1>1, <3>1, <3>2
  <2>6. sent' \in Nat /\ marked' \in Nat
    BY <1>1, <1>4, <1>5
  <2>7. packet' \in [head : Nat, body : Nat]
    BY <1>1, <1>4
  <2>8. QED
    BY <2>1, <2>2, <2>3, <2>4, <2>5, <2>6, <2>7 DEF SenderTypeOK, Info
<1>7. PacketFits'
  BY <1>1, <1>4 DEF PacketFits
<1>8. SentAsParsed'
  BY <1>1, <1>3 DEF SendInv, SentAsParsed
<1>9. PaidFrom'
  <2>1. InStretch' <=> InStretch
    BY <1>3 DEF InStretch
  <2>2. CASE InStretch
    BY <1>1, <1>3, <2>2 DEF SendInv, PaidFrom
  <2>3. CASE ~ InStretch
    <3>1. sent' = sent
      BY <1>1, <1>5, <2>3
    <3>2. QED
      BY <1>3, <2>1, <2>3, <3>1 DEF SendInv, PaidFrom
  <2>4. QED
    BY <2>2, <2>3
<1>10. Paid'
  <2>0. InStretch' <=> InStretch
    BY <1>3 DEF InStretch
  <2>1. CASE ~ InStretch
    <3>1. sent' = sent /\ marked' = marked
      BY <1>1, <1>5, <2>1
    <3>2. QED
      BY <1>1, <1>3, <2>0, <2>1, <3>1 DEF SendInv, Paid
  <2>2. CASE InStretch
    <3> DEFINE left == jpeg.scan - off - Take
    <3>1. sent' = sent + (HeadLen + Take) /\ left \in Nat
      BY <1>1, <1>4, <1>5, <2>2
    <3>2. Mtu * (RestartLen * marked') = Mtu * (RestartLen * marked) + Mtu * r
      <4>1. RestartLen * marked' = RestartLen * marked + r
        BY <1>1, <1>5, <2>2 DEF RestartLen, r
      <4>2. r \in Nat /\ RestartLen * marked \in Nat
        BY <1>4, <1>5 DEF RestartLen
      <4>3. QED
        BY <1>5, <4>1, <4>2, Distributes
    <3>3. Room * sent' = Room * sent + Room * (HeaderLen + r + t + Take)
      BY <1>4, <1>5, <3>1, Distributes
    <3>4. Rest = Mtu * (t + Take) + Mtu * left + HeaderLen * Room
      <4>1. Rest = Mtu * ((t + Take) + left) + HeaderLen * Room
        <5>1. Rest = Mtu * (jpeg.scan - off + t) + HeaderLen * Room
          BY DEF Rest, t
        <5>2. jpeg.scan - off + t = (t + Take) + left
          BY <1>4, <1>5
        <5>3. QED
          BY <5>1, <5>2
      <4>2. QED
        BY <1>4, <1>5, <3>1, <4>1, Distributes
    <3>5. Room * sent + Rest <= Room * stretchBytes + Mtu * (RestartLen * marked)
      BY <1>1, <2>2 DEF SendInv, Paid
    <3>6. /\ Room * (HeaderLen + r + t + Take)
               <= Mtu * (t + Take) + Mtu * r + HeaderLen * Room
          /\ HeaderLen + r + t + Take = Mtu =>
               Room * (HeaderLen + r + t + Take) = Mtu * (t + Take) + Mtu * r
      <4>1. r \in Nat /\ t \in Nat
        BY <1>4
      <4>2. QED
        BY <1>4, <4>1, PacketCost
    <3>7. /\ Room * sent \in Nat /\ Room * stretchBytes \in Nat
          /\ Mtu * (RestartLen * marked) \in Nat /\ Mtu * r \in Nat
          /\ Mtu * (t + Take) \in Nat /\ Mtu * left \in Nat
          /\ HeaderLen * Room \in Nat /\ Room * (HeaderLen + r + t + Take) \in Nat
      <4>1. r \in Nat /\ t + Take \in Nat /\ RestartLen * marked \in Nat
            /\ HeaderLen \in Nat /\ HeaderLen + r + t + Take \in Nat
        BY <1>4, <1>5 DEF RestartLen, HeaderLen
      <4> HIDE DEF left
      <4>2. QED
        BY <1>5, <3>1, <4>1, TimesNat
    <3> HIDE DEF left
    <3>8. CASE Last
      <4>1. Room * sent' <= Room * stretchBytes + Mtu * (RestartLen * marked')
        BY <3>2, <3>3, <3>4, <3>5, <3>6, <3>7
      <4>2. (IF sending' /\ InStretch' THEN Rest' ELSE 0) = 0
        BY <1>1, <3>8
      <4>3. Room * sent' \in Nat
        BY <3>3, <3>7
      <4>4. QED
        BY <1>3, <4>1, <4>2, <4>3 DEF Paid
    <3>9. CASE ~ Last
      <4>1. Rest' = Mtu * left + HeaderLen * Room
        <5>1. off' # 0 /\ jpeg.scan - off' = left
          BY <1>1, <1>4, <1>5 DEF left
        <5>2. Rest' = Mtu * (jpeg.scan - off' + 0) + HeaderLen * Room
          BY <1>3, <5>1 DEF Rest
        <5>3. jpeg.scan - off' + 0 = left
          BY <3>1, <5>1
        <5>4. QED
          BY <5>2, <5>3
      <4>2. HeaderLen + r + t + Take = Mtu
        BY <1>4, <3>9
      <4>3. Room * sent' + (Mtu * left + HeaderLen * Room)
              <= Room * stretchBytes + Mtu * (RestartLen * marked')
        BY <3>2, <3>3, <3>4, <3>5, <3>6, <3>7, <4>2
      <4>4. sending' /\ InStretch'
        BY <1>1, <2>0, <2>2, <3>9
      <4>5. QED
        BY <1>3, <4>1, <4>3, <4>4 DEF Paid
    <3>10. QED
      BY <3>8, <3>9
  <2>3. QED
    BY <2>1, <2>2
<1>11. QED
  BY <1>6, <1>7, <1>8, <1>9, <1>10 DEF SendInv

LEMMA RestType ==
  ASSUME SenderTypeOK
  PROVE  Rest \in Nat
<1>1. /\ jpeg.scan \in Nat /\ off \in Nat /\ off <= jpeg.scan
      /\ info.count \in 0 .. 2 /\ Mtu \in Nat /\ Room \in Nat
  BY JpegIs, Mtus
<1>2. TablesLen(info.count) \in Nat
  BY <1>1, TablesLenIs
<1>3. jpeg.scan - off + (IF off = 0 THEN TablesLen(info.count) ELSE 0) \in Nat
  BY <1>1, <1>2
<1>4. HeaderLen * Room \in Nat
  BY <1>1 DEF HeaderLen
<1>5. QED
  BY <1>1, <1>3, <1>4, TimesNat DEF Rest

LEMMA FrameAdmittedSend ==
  ASSUME SendInv, TypeOK', NEW t \in Nat, NEW file \in Jpegs, t >= clock,
         FrameAdmitted(file, t)
  PROVE  SendInv'
<1>1. /\ ~ sending /\ clock' = t /\ from' = from
      /\ jpeg' = file /\ info' = Parse(file) /\ off' = 0
      /\ sending' = (info'.status = "ok" /\ file.scan > 0)
      /\ stats' = [stats EXCEPT !.frames =
                     @ + (IF info'.status = "ok" /\ file.scan = 0 THEN 1 ELSE 0)]
      /\ UNCHANGED <<fails, sent, marked, packet, panicked>>
      /\ stretchBytes' = stretchBytes + (IF t >= from THEN WireLen(file) ELSE 0)
  BY DEF FrameAdmitted, Ready, AdmitUncapped, Admit, Record
<1>2. /\ SenderTypeOK /\ sent \in Nat /\ marked \in Nat /\ stretchBytes \in Nat
      /\ from \in Nat /\ clock \in Nat
      /\ Mtu \in Nat /\ Room \in Nat
  BY JpegIs, Mtus DEF SendInv
<1>3. /\ file \in JpegFile /\ file.scan \in Nat
      /\ Parse(file) \in Info /\ Parse(file).status # "open"
      /\ WireLen(file) \in Nat /\ WireLen(file) > 0
  <2>1. file \in JpegFile
    BY JpegsAssumption
  <2>2. QED
    BY <2>1, ParseIs, FramePaid DEF JpegFile
<1>4. SenderTypeOK'
  <2>1. stats' \in [frames : Nat, packets : Nat, bytes : Nat, dropped : Nat]
    BY <1>1, <1>2 DEF SenderTypeOK
  <2>2. off' \in 0 .. jpeg'.scan /\ (sending' => off' < jpeg'.scan)
    <3>1. off' \in 0 .. file.scan
      BY <1>1, <1>3
    <3>2. sending' => off' < file.scan
      BY <1>1, <1>3
    <3>3. QED
      BY <1>1, <3>1, <3>2
  <2>3. info' \in Info /\ jpeg' \in Jpegs \cup {NoFile} /\ sending' \in BOOLEAN
    BY <1>1, <1>3
  <2>4. /\ panicked' \in BOOLEAN /\ fails' \in Nat /\ sent' \in Nat
        /\ marked' \in Nat /\ packet' \in [head : Nat, body : Nat]
    BY <1>1, <1>2 DEF SenderTypeOK
  <2>5. QED
    BY <2>1, <2>2, <2>3, <2>4 DEF SenderTypeOK, Info
<1>5. PacketFits'
  BY <1>1 DEF SendInv, PacketFits
<1>6. SentAsParsed'
  <2>1. sending' => file.scan > 0 /\ info'.status = "ok"
    BY <1>1
  <2>2. file.scan > 0 => file # NoFile
    BY DEF NoFile
  <2>3. QED
    BY <1>1, <2>1, <2>2 DEF SentAsParsed
<1>7. PaidFrom'
  <2>1. sent > 0 => stretchBytes > 0
    BY DEF SendInv, PaidFrom
  <2>2. InStretch' => stretchBytes' > 0
    BY <1>1, <1>2, <1>3 DEF InStretch
  <2>3. stretchBytes > 0 => stretchBytes' > 0
    BY <1>1, <1>2, <1>3
  <2>4. QED
    BY <1>1, <2>1, <2>2, <2>3 DEF PaidFrom
<1>8. Paid'
  <2>1. Room * sent <= Room * stretchBytes + Mtu * (RestartLen * marked)
    <3>1. Room * sent + 0 <= Room * stretchBytes + Mtu * (RestartLen * marked)
      BY <1>1 DEF SendInv, Paid
    <3>2. Room * sent \in Nat
      BY <1>2, TimesNat
    <3>3. QED
      BY <3>1, <3>2
  <2>2. /\ Room * sent \in Nat /\ Room * stretchBytes \in Nat
        /\ Room * WireLen(file) \in Nat /\ Mtu * (RestartLen * marked) \in Nat
    <3>1. RestartLen * marked \in Nat
      BY <1>2 DEF RestartLen
    <3>2. QED
      BY <1>2, <1>3, <3>1, TimesNat
  <2>3. Room * (stretchBytes + WireLen(file)) = Room * stretchBytes + Room * WireLen(file)
    BY <1>2, <1>3, Distributes
  <2>4. Room * stretchBytes <= Room * stretchBytes'
    BY <1>1, <1>2, <1>3, <2>2, <2>3
  <2>5. CASE sending' /\ InStretch'
    <3>1. Rest' <= Room * WireLen(file)
      <4>1. Rest' = Mtu * (file.scan + TablesLen(Parse(file).count)) + HeaderLen * Room
        <5>1. Rest' = Mtu * (file.scan - 0 + TablesLen(Parse(file).count)) + HeaderLen * Room
          BY <1>1 DEF Rest
        <5>2. file.scan - 0 = file.scan
          BY <1>3
        <5>3. QED
          BY <5>1, <5>2
      <4>2. QED
        BY <1>1, <1>3, <2>5, <4>1, FramePaid
    <3>2. stretchBytes' = stretchBytes + WireLen(file)
      BY <1>1, <2>5 DEF InStretch
    <3>3. Rest' \in Int
      <4>1. /\ info'.count \in 0 .. 2 /\ jpeg'.scan \in Nat
        BY <1>1, <1>3 DEF Info
      <4>2. TablesLen(info'.count) \in Nat
        BY <4>1, TablesLenIs
      <4>3. jpeg'.scan - off' + (IF off' = 0 THEN TablesLen(info'.count) ELSE 0) \in Nat
        BY <1>1, <4>1, <4>2
      <4>4. HeaderLen * Room \in Nat
        BY <1>2 DEF HeaderLen
      <4>5. QED
        BY <1>2, <4>3, <4>4, TimesNat DEF Rest
    <3>4. Room * sent + Rest' <= Room * stretchBytes' + Mtu * (RestartLen * marked)
      BY <2>1, <2>2, <2>3, <3>1, <3>2, <3>3
    <3>5. QED
      BY <1>1, <2>5, <3>4 DEF Paid
  <2>6. CASE ~ (sending' /\ InStretch')
    <3>1. Room * stretchBytes' \in Nat
      BY <1>1, <1>2, <1>3, TimesNat
    <3>2. Room * sent + 0 <= Room * stretchBytes' + Mtu * (RestartLen * marked)
      BY <2>1, <2>2, <2>4, <3>1
    <3>3. QED
      BY <1>1, <2>6, <3>2 DEF Paid
  <2>7. QED
    BY <2>5, <2>6
<1>9. QED
  BY <1>4, <1>5, <1>6, <1>7, <1>8 DEF SendInv

(* A frame dropped, a send that failed and a panic put nothing on the wire, *)
(* and no frame is sent after them.                                         *)
LEMMA NothingSent ==
  ASSUME SendInv, TypeOK', ~ sending', stretchBytes' = stretchBytes,
         UNCHANGED <<jpeg, info, off, sent, marked, packet>>,
         stats' \in [frames : Nat, packets : Nat, bytes : Nat, dropped : Nat],
         fails' \in Nat, panicked' \in BOOLEAN, sending' \in BOOLEAN
  PROVE  SendInv'
<1>1. SenderTypeOK'
  <2>1. /\ jpeg' \in Jpegs \cup {NoFile} /\ off' \in 0 .. jpeg'.scan
        /\ sent' \in Nat /\ marked' \in Nat /\ packet' \in [head : Nat, body : Nat]
    BY DEF SendInv, SenderTypeOK
  <2>2. info' \in Info
    BY JpegIs DEF SendInv
  <2>3. QED
    BY <2>1, <2>2 DEF SenderTypeOK, Info
<1>2. PacketFits' /\ SentAsParsed' /\ PaidFrom'
  BY DEF SendInv, PacketFits, SentAsParsed, PaidFrom
<1>3. Paid'
  <2>1. CASE sending /\ InStretch
    <3>1. Room * sent + Rest <= Room * stretchBytes + Mtu * (RestartLen * marked)
      BY <2>1 DEF SendInv, Paid
    <3>2. Rest \in Nat
      BY RestType DEF SendInv
    <3>3. /\ Room * sent \in Nat /\ Room * stretchBytes \in Nat
          /\ Mtu * (RestartLen * marked) \in Nat
      <4>1. /\ sent \in Nat /\ stretchBytes \in Nat /\ RestartLen * marked \in Nat
            /\ Mtu \in Nat /\ Room \in Nat
        BY JpegIs, Mtus DEF SendInv, RestartLen
      <4>2. QED
        BY <4>1, TimesNat
    <3>4. Room * sent + 0 <= Room * stretchBytes + Mtu * (RestartLen * marked)
      BY <3>1, <3>2, <3>3
    <3>5. QED
      BY <3>4 DEF Paid
  <2>2. CASE ~ (sending /\ InStretch)
    BY <2>2 DEF SendInv, Paid
  <2>3. QED
    BY <2>1, <2>2
<1>4. QED
  BY <1>1, <1>2, <1>3 DEF SendInv

LEMMA SendStep ==
  ASSUME SendInv, TypeOK', [SenderNext]_senderVars
  PROVE  SendInv'
<1>0. /\ stats \in [frames : Nat, packets : Nat, bytes : Nat, dropped : Nat]
      /\ fails \in Nat /\ panicked \in BOOLEAN /\ sending \in BOOLEAN
      /\ clock \in Nat
  BY DEF SendInv, SenderTypeOK, TypeOK
<1>1. ASSUME NEW t \in clock .. MaxTime, NEW file \in Jpegs, FrameDropped(file, t)
      PROVE  SendInv'
  <2>1. /\ ~ sending /\ stretchBytes' = stretchBytes
        /\ UNCHANGED <<jpeg, info, off, sending, sent, marked, packet, fails, panicked>>
        /\ stats' = [stats EXCEPT !.dropped = @ + 1]
    BY <1>1 DEF FrameDropped, Ready, Drop, frameVars
  <2>2. stats' \in [frames : Nat, packets : Nat, bytes : Nat, dropped : Nat]
    BY <1>0, <2>1
  <2>3. QED
    <3>1. ~ sending' /\ sending' \in BOOLEAN /\ panicked' \in BOOLEAN
      BY <1>0, <2>1
    <3>2. fails' \in Nat
      BY <1>0, <2>1
    <3>3. QED
      BY <2>1, <2>2, <3>1, <3>2, NothingSent
<1>2. ASSUME NEW t \in clock .. MaxTime, NEW file \in Jpegs, FrameAdmitted(file, t)
      PROVE  SendInv'
  <2>1. t \in Nat /\ t >= clock
    BY <1>0, BudgetAssumption
  <2>2. QED
    BY <1>2, <2>1, FrameAdmittedSend
<1>3. CASE CopyPanics
  <2>1. /\ panicked' = TRUE /\ sending' = FALSE /\ stretchBytes' = stretchBytes
        /\ UNCHANGED <<jpeg, info, off, sent, marked, packet, stats, fails>>
    BY <1>3 DEF CopyPanics, vars, sendVars
  <2>2. ~ sending' /\ sending' \in BOOLEAN /\ panicked' \in BOOLEAN
    BY <1>0, <2>1
  <2>3. /\ fails' \in Nat
        /\ stats' \in [frames : Nat, packets : Nat, bytes : Nat, dropped : Nat]
    BY <1>0, <2>1
  <2>4. QED
    BY <2>1, <2>2, <2>3, NothingSent
<1>4. CASE SendPacket
  BY <1>4, SendPacketSend
<1>5. CASE SendFails
  <2>1. /\ fails' = fails + 1 /\ sending' = FALSE /\ stretchBytes' = stretchBytes
        /\ UNCHANGED <<jpeg, info, off, sent, marked, packet, stats, panicked>>
    BY <1>5 DEF SendFails, vars
  <2>2. ~ sending' /\ sending' \in BOOLEAN /\ panicked' \in BOOLEAN
    BY <1>0, <2>1
  <2>3. /\ fails' \in Nat
        /\ stats' \in [frames : Nat, packets : Nat, bytes : Nat, dropped : Nat]
    BY <1>0, <2>1
  <2>4. QED
    BY <2>1, <2>2, <2>3, NothingSent
<1>6. CASE UNCHANGED senderVars
  <2>1. /\ UNCHANGED <<vars, jpeg, info, sending, off>>
        /\ UNCHANGED <<stats, fails, sent, marked, packet, panicked>>
    BY <1>6 DEF senderVars, frameVars, sendVars
  <2>2. SenderTypeOK' /\ PacketFits' /\ SentAsParsed'
    BY <2>1 DEF SendInv, SenderTypeOK, PacketFits, SentAsParsed
  <2>3. /\ stretchBytes' = stretchBytes /\ clock' = clock /\ from' = from
    BY <2>1 DEF vars
  <2>4. Paid' /\ PaidFrom'
    <3>1. InStretch' = InStretch /\ Rest' = Rest
      BY <2>1, <2>3 DEF InStretch, Rest
    <3>2. QED
      BY <2>1, <2>3, <3>1 DEF SendInv, Paid, PaidFrom
  <2>5. QED
    BY <2>2, <2>4 DEF SendInv
<1>7. QED
  BY <1>1, <1>2, <1>3, <1>4, <1>5, <1>6 DEF SenderNext

(* The sender's invariant holds at all times.                               *)
THEOREM SenderInvariant == SenderSpec => []SendInv
<1>1. SenderInit => SendInv
  BY InitSend
<1>2. BudgetInv' => TypeOK'
  BY DEF BudgetInv
<1>3. SendInv /\ BudgetInv' /\ [SenderNext]_senderVars => SendInv'
  BY <1>2, SendStep
<1>4. SenderSpec => []BudgetInv
  BY SenderUsesBudget, BudgetInvariant, PTL
<1>5. QED
  BY <1>1, <1>3, <1>4, PTL DEF SenderSpec

(* Whatever it is given, the sender's state is well formed, and every       *)
(* packet fits the MTU and carries some of the scan (rtp.rs:357-358).       *)
THEOREM SenderPackets == SenderSpec => []SenderInv
<1>1. SendInv => SenderInv
  BY DEF SendInv, SenderInv
<1>2. QED
  BY <1>1, SenderInvariant, PTL

(* The parser accepts exactly the files that RFC 2435 can carry, for every  *)
(* file of any length and order of its segments (rtp.rs:220-222).           *)
THEOREM SenderParses == SenderSpec => []ParseAgrees
<1>1. SendInv => ParseAgrees
  <2> SUFFICES ASSUME SendInv, jpeg # NoFile
               PROVE  info.status = "ok" <=> Carriable(jpeg)
    BY DEF ParseAgrees
  <2>1. jpeg \in JpegFile /\ info = Parse(jpeg)
    BY JpegsAssumption DEF SendInv, SentAsParsed
  <2>2. QED
    BY <2>1, ParseAccepts
<1>2. QED
  BY <1>1, SenderInvariant, PTL

(* In every stretch of time the packets of the frames captured in it stay   *)
(* within the burst and the rate, but for the restart headers               *)
(* (udp_net.rs:65-67).                                                      *)
THEOREM SenderWireRate == SenderSpec => []WireRateBound
<1>1. SendInv /\ RateBound => WireRateBound
  <2> SUFFICES ASSUME SendInv, RateBound, bytes_per_second > 0, sent > 0
               PROVE  Second * (Room * sent - Mtu * (RestartLen * marked))
                        <= Room * (Second * burst_bytes
                                   + bytes_per_second * (last - from))
    BY DEF WireRateBound
  <2> DEFINE extra == Mtu * (RestartLen * marked)
             bound == Second * burst_bytes + bytes_per_second * (last - from)
  <2>1. /\ sent \in Nat /\ marked \in Nat /\ stretchBytes \in Nat
        /\ Mtu \in Nat /\ Room \in Nat /\ Second \in Nat
        /\ bytes_per_second \in Nat /\ burst_bytes \in Nat
        /\ last \in Int /\ from \in Nat
    BY JpegIs, Mtus, BudgetAssumption DEF SendInv, SenderTypeOK, TypeOK
  <2>2. Second * stretchBytes <= bound
    BY DEF SendInv, PaidFrom, RateBound
  <2>3. Room * sent \in Nat /\ extra \in Nat /\ Room * stretchBytes \in Nat
    <3>1. RestartLen * marked \in Nat
      BY <2>1 DEF RestartLen
    <3>2. QED
      BY <2>1, <3>1, TimesNat
  <2>4. Room * sent - extra <= Room * stretchBytes
    <3>1. CASE sending /\ InStretch
      <4>1. Room * sent + Rest <= Room * stretchBytes + extra
        BY <3>1 DEF SendInv, Paid
      <4>2. Rest \in Nat
        BY RestType DEF SendInv
      <4> HIDE DEF extra
      <4>3. QED
        BY <2>3, <4>1, <4>2
    <3>2. CASE ~ (sending /\ InStretch)
      <4>1. Room * sent + 0 <= Room * stretchBytes + extra
        BY <3>2 DEF SendInv, Paid
      <4> HIDE DEF extra
      <4>2. QED
        BY <2>3, <4>1
    <3>3. QED
      BY <3>1, <3>2
  <2>5. bound \in Int
    <3>1. last - from \in Int
      BY <2>1
    <3>2. QED
      BY <2>1, <3>1
  <2> HIDE DEF extra, bound
  <2>6. Second * (Room * sent - extra) <= Second * (Room * stretchBytes)
    BY <2>1, <2>3, <2>4, TimesMonotone
  <2>7. Second * (Room * stretchBytes) = Room * (Second * stretchBytes)
    BY <2>1
  <2>8. Room * (Second * stretchBytes) <= Room * bound
    <3>1. Second * stretchBytes \in Int
      BY <2>1
    <3>2. QED
      BY <2>1, <2>2, <2>5, <3>1, TimesMonotone
  <2>9. /\ Second * (Room * sent - extra) \in Int /\ Room * bound \in Int
        /\ Second * (Room * stretchBytes) \in Int
    BY <2>1, <2>3, <2>5
  <2>10. Second * (Room * sent - extra) <= Room * bound
    BY <2>6, <2>7, <2>8, <2>9
  <2>11. QED
    BY <2>10 DEF extra, bound
<1>2. QED
  BY <1>1, SenderInvariant, SenderRateBound, PTL

===============================================================================
