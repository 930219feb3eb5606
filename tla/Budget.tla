--------------------------------- MODULE Budget ---------------------------------
(***************************************************************************)
(* The bit-rate cap, `Budget` of core/pacer.rs: a token bucket in bytes     *)
(* that admits a frame whole or drops it whole.  The RTP and raw senders    *)
(* put every frame to it before they packetize anything.                    *)
(***************************************************************************)
EXTENDS Integers

CONSTANTS
  Second,          \* 1_000_000 in the code
  Millis,          \* 1000 in the code: burst_ms counts these in a second
  Rates,           \* kbps * 1000 / 8 of the budgets made; 0 admits everything
  BurstMs,         \* max(burst_ms, 1)
  FrameSizes,      \* wire lengths of the frames
  MaxTime,         \* bound: last instant of device time
  MaxFrames,       \* bound: frames put to the budget
  MaxReset         \* bound: stream restarts

ASSUME BudgetAssumption ==
  /\ Second \in Nat \ {0} /\ Millis \in Nat \ {0}
  /\ Rates \subseteq Nat /\ BurstMs \in Nat \ {0} /\ FrameSizes \subseteq Nat
  /\ MaxTime \in Nat /\ MaxFrames \in Nat /\ MaxReset \in Nat

VARIABLES
  bytes_per_second, burst_bytes,  \* fixed when the budget is made
  tokens,          \* bytes in the bucket
  last,            \* time of the last call, -1 for None
  admitted, dropped, bytes_admitted,
  clock,           \* capture time of the last frame
  resets,          \* stream restarts
  from,            \* ghost: start of the stretch looked at
  stretchBytes,    \* ghost: bytes admitted in it since the last reset
  ideal,           \* ghost: a bucket without rounding, in bytes * Second
  calls            \* ghost: frames put to the budget since the last reset

config == <<bytes_per_second, burst_bytes>>
vars == <<config, tokens, last, admitted, dropped, bytes_admitted, clock, resets,
          from, stretchBytes, ideal, calls>>

LesserOf(a, b) == IF a <= b THEN a ELSE b

Init ==
  /\ bytes_per_second \in Rates
  /\ burst_bytes = (bytes_per_second * BurstMs) \div Millis
  /\ tokens = burst_bytes /\ last = -1
  /\ admitted = 0 /\ dropped = 0 /\ bytes_admitted = 0
  /\ clock = 0 /\ resets = 0
  /\ from \in 0 .. MaxTime /\ stretchBytes = 0
  /\ ideal = burst_bytes * Second /\ calls = 0

Elapsed(t) == IF last = -1 THEN 0 ELSE t - last

(* The refill is whole bytes: what is left of a byte is not carried over.   *)
RefillUp(t) == (Elapsed(t) * bytes_per_second) \div Second + 1
Refill(t) == (Elapsed(t) * bytes_per_second) \div Second

TokensAt(t) == LesserOf(tokens + Refill(t), burst_bytes)

IdealAt(t) ==
  LesserOf(ideal + Elapsed(t) * bytes_per_second, burst_bytes * Second)

(* The bookkeeping every frame does, admitted or not.                       *)
Record(t) ==
  /\ clock' = t
  /\ calls' = calls + 1
  /\ UNCHANGED <<config, resets, from>>

Capped == bytes_per_second > 0

(* No cap: neither the bucket nor its clock is touched.                     *)
AdmitUncapped(t, bytes) ==
  /\ ~ Capped
  /\ Record(t)
  /\ admitted' = admitted + 1
  /\ bytes_admitted' = bytes_admitted + bytes
  /\ stretchBytes' = stretchBytes + (IF t >= from THEN bytes ELSE 0)
  /\ UNCHANGED <<tokens, last, dropped, ideal>>

NotCharged(t, bytes) == TokensAt(t)
Charged(t, bytes) == TokensAt(t) - bytes

Admit(t, bytes) ==
  /\ Capped /\ bytes <= TokensAt(t)
  /\ Record(t)
  /\ tokens' = Charged(t, bytes)
  /\ last' = t
  /\ admitted' = admitted + 1
  /\ bytes_admitted' = bytes_admitted + bytes
  /\ stretchBytes' = stretchBytes + (IF t >= from THEN bytes ELSE 0)
  /\ ideal' = IdealAt(t) - bytes * Second
  /\ UNCHANGED dropped

(* The refill and the time are kept even when the frame is dropped.         *)
DropForgets(t, bytes) == UNCHANGED tokens
DropKeeps(t, bytes) == tokens' = TokensAt(t)

Drop(t, bytes) ==
  /\ Capped /\ bytes > TokensAt(t)
  /\ Record(t)
  /\ DropKeeps(t, bytes)
  /\ last' = t
  /\ dropped' = dropped + 1
  /\ ideal' = IdealAt(t)
  /\ UNCHANGED <<admitted, bytes_admitted, stretchBytes>>

Reset ==
  /\ resets < MaxReset
  /\ resets' = resets + 1
  /\ tokens' = burst_bytes /\ last' = -1
  /\ stretchBytes' = 0 /\ ideal' = burst_bytes * Second /\ calls' = 0
  /\ UNCHANGED <<config, admitted, dropped, bytes_admitted, clock, from>>

Next ==
  \/ \E t \in clock .. MaxTime, bytes \in FrameSizes :
       /\ admitted + dropped < MaxFrames
       /\ AdmitUncapped(t, bytes) \/ Admit(t, bytes) \/ Drop(t, bytes)
  \/ Reset

Spec == Init /\ [][Next]_vars

------------------------------------------------------------------------------
(* Type invariant of the budget: the bucket is never overdrawn, which the   *)
(* code's unsigned subtraction relies on, nor over-full.                    *)
TypeOK ==
  /\ bytes_per_second \in Nat /\ burst_bytes \in Nat
  /\ tokens \in 0 .. burst_bytes
  /\ last \in Int /\ last >= -1 /\ last <= clock
  /\ admitted \in Nat /\ dropped \in Nat /\ bytes_admitted \in Nat
  /\ clock \in Nat /\ resets \in Nat /\ from \in Nat
  /\ stretchBytes \in Nat /\ ideal \in Int /\ calls \in Nat

(* In every stretch of time that starts at `from`, the bytes admitted are   *)
(* at most the burst plus the rate times its length (pacer.rs:87-89).       *)
RateBound ==
  bytes_per_second > 0 /\ stretchBytes > 0 =>
    Second * stretchBytes <= Second * burst_bytes
                             + bytes_per_second * (last - from)

(* What is still in the bucket is within the bound too.                     *)
BucketBound ==
  bytes_per_second > 0 /\ last >= from =>
    Second * (stretchBytes + tokens) <= Second * burst_bytes
                                        + bytes_per_second * (last - from)

(* Nothing is admitted in a stretch before it starts.                       *)
NothingBefore == bytes_per_second > 0 /\ last < from => stretchBytes = 0

(* The inductive invariant: what RateBound rests on.                        *)
BudgetInv == TypeOK /\ RateBound /\ BucketBound /\ NothingBefore

(* The rounding costs the stream less than one byte for each frame put to   *)
(* the budget: the bucket never falls further behind an exact one.          *)
RoundingBounded ==
  bytes_per_second > 0 =>
    /\ tokens * Second <= ideal
    /\ ideal <= tokens * Second + calls * (Second - 1)

(* Dropping a frame costs the frames after it nothing: the bucket keeps     *)
(* whatever the time since the last frame has earned, up to the burst.      *)
IdleGapEarns ==
  [][\A bytes \in FrameSizes :
       dropped' > dropped /\ bytes <= burst_bytes /\ last # -1
         /\ (clock' - last) * bytes_per_second >= bytes * Second
       => tokens' >= bytes]_vars

==============================================================================
