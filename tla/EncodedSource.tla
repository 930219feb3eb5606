----------------------------- MODULE EncodedSource -----------------------------
(***************************************************************************)
(* `EncodedSource::next_packet` of core/source.rs: grab frames from a       *)
(* camera until the Pacer admits one, then encode it into the caller's      *)
(* scratch.  One action per turn of the grab loop.                          *)
(***************************************************************************)
EXTENDS Pacer

CONSTANTS
  MaxFails   \* bound: failed calls

ASSUME SourceAssumption == MaxFails \in Nat

(* EncodedSource::new makes its pacer with Pacer::new.                      *)
NoBurst == Burst = 0

VARIABLES
  in_call,    \* inside next_packet's loop
  dropped,    \* EncodedSource::dropped
  produced,   \* EncodedSource::produced
  fails,      \* calls that returned an error
  wasted,     \* ghost: frames admitted and then lost to an error
  spins,      \* ghost: turns of the loop in this call that dropped a frame
  lastPacket, \* ghost: timestamp of the last packet produced, -1 for none
  packet      \* what the last call returned: its timestamp, -1 for an error

callVars == <<in_call, dropped, produced, fails, wasted, spins, lastPacket,
              packet>>
vars == <<callVars, pacerVars>>

Init ==
  /\ PacerInit
  /\ in_call = FALSE /\ dropped = 0 /\ produced = 0 /\ fails = 0
  /\ wasted = 0 /\ spins = 0 /\ lastPacket = -1 /\ packet = -1

Fails == fails < MaxFails /\ fails' = fails + 1

Return(t) == in_call' = FALSE /\ packet' = t

(* The server asks for the next packet.                                     *)
Call ==
  /\ ~ in_call /\ in_call' = TRUE
  /\ spins' = 0
  /\ UNCHANGED <<dropped, produced, fails, wasted, lastPacket, packet,
                 pacerVars>>

(* The scratch has no room beyond the frame: refused before any grab.       *)
ScratchTooSmall ==
  /\ ~ in_call /\ Fails
  /\ packet' = -1
  /\ UNCHANGED <<in_call, dropped, produced, wasted, spins, lastPacket,
                 pacerVars>>

GrabFails ==
  /\ in_call /\ Fails /\ Return(-1)
  /\ UNCHANGED <<dropped, produced, wasted, spins, lastPacket, pacerVars>>

(* Each picture is captured after the one before it.                        *)
Captures == clock + 1 .. MaxTime

DropUncounted == UNCHANGED dropped
CountDrop == dropped' = dropped + 1

GrabDropped(t) ==
  /\ in_call /\ Frame(t) /\ DropFrame(t)
  /\ CountDrop
  /\ spins' = spins + 1
  /\ UNCHANGED <<in_call, produced, fails, wasted, lastPacket, packet>>

GrabEncoded(t) ==
  /\ in_call /\ Frame(t) /\ AdmitFrame(t)
  /\ Return(t)
  /\ produced' = produced + 1
  /\ lastPacket' = t
  /\ UNCHANGED <<dropped, fails, wasted, spins>>

(* The frame lies outside the buffer, or the encoder refuses it: the pacer  *)
(* has admitted it all the same.                                            *)
GrabWasted(t) ==
  /\ in_call /\ Frame(t) /\ AdmitFrame(t) /\ Fails
  /\ Return(-1)
  /\ wasted' = wasted + 1
  /\ UNCHANGED <<dropped, produced, spins, lastPacket>>

Grab == \E t \in Captures : GrabDropped(t) \/ GrabEncoded(t) \/ GrabWasted(t)

Next == Call \/ ScratchTooSmall \/ GrabFails \/ Grab

Spec == Init /\ [][Next]_vars

------------------------------------------------------------------------------
(* Type invariant of the source.                                            *)
TypeOK ==
  /\ PacerTypeOK
  /\ in_call \in BOOLEAN
  /\ dropped \in Nat /\ produced \in Nat /\ fails \in Nat
  /\ wasted \in Nat /\ spins \in Nat
  /\ lastPacket \in Int /\ lastPacket >= -1
  /\ packet \in Int /\ packet >= -1

(* source.rs:36-39: the source's counters and the pacer's tell the same     *)
(* story, and a frame that is neither dropped nor produced is one that was  *)
(* admitted and then failed.                                                *)
CountersAgree ==
  /\ dropped = pdropped
  /\ admitted = produced + wasted
  /\ wasted <= fails

(* The timestamps of two packets in a row are an interval apart, whatever   *)
(* calls failed between them: a failed call never lets the next one through *)
(* early.                                                                   *)
PacketsSpaced ==
  [][produced' > produced /\ lastPacket # -1 =>
       lastPacket' >= lastPacket + Interval]_vars

(* source.rs:85-87: "this loop is bounded by the pacer's interval in device *)
(* time": a call drops fewer frames than the interval has microseconds.     *)
LoopBounded == spins = 0 \/ spins < Interval

(* A call that has dropped frames waits for a due time still to come, and   *)
(* has spent at least a microsecond on each.                                *)
DropsTakeTime ==
  in_call /\ spins > 0 =>
    due # -1 /\ clock < due /\ spins <= clock - lastAdmit

(* The inductive invariant: what LoopBounded rests on.                      *)
SourceInv ==
  TypeOK /\ LoopBounded /\ DropsTakeTime /\ DueNear /\ lastAdmit <= clock

==============================================================================
