--------------------------------- MODULE Page ---------------------------------
(***************************************************************************)
(* The page server of the Track B firmware (xiao-s3-sense-hal-page): one    *)
(* connection at a time on a bare-metal stack, the camera driven by the     *)
(* same loop that writes its frames, and a pool of frame buffers.           *)
(*                                                                          *)
(* A request head is bytes here, because the loop searches it for its blank *)
(* line while it grows; what a whole head asks for is free.                 *)
(***************************************************************************)
EXTENDS Integers, Sequences

CONSTANTS
  MaxHead,        \* MAX_REQUEST_BYTES
  Word,           \* bytes next_newline_portable tests at a time: 8
  Slots,          \* of the frame pool: POOL_SLOTS of them
  MaxGrabErrors,  \* failed grabs a stream survives: 100
  NoSlot

ASSUME PageAssumption ==
  /\ MaxHead \in Nat \ {0} /\ Word \in Nat \ {0}
  /\ Slots # {} /\ NoSlot \notin Slots /\ MaxGrabErrors \in Nat

Byte == {"cr", "lf", "other"}
Asked == {"index", "stream", "another path", "another method", "malformed"}
Answer == {"index", "stream", "no-camera", "not-found", "method", "bad-request"}

VARIABLES
  camera,       \* a sensor answered at start-up
  at,           \* where the loop is
  viewer,       \* "open", "left", or "dead" once the stack knows
  head, seen,   \* bytes of the head read, and how many have been searched
  asked,        \* the request parsed
  answer,       \* what it is answered with
  ready,        \* frame_ready()
  free,         \* slots of the pool
  slot,         \* the slot held, or NoSlot
  grab_errors

connection == <<viewer, head, seen, asked, answer>>
frame == <<ready, free, slot, grab_errors>>
vars == <<camera, at, connection, frame>>

Init ==
  /\ camera \in BOOLEAN
  /\ at = "accept" /\ viewer = "dead"
  /\ head = << >> /\ seen = 0
  /\ asked = "none" /\ answer = "none"
  /\ ready = FALSE /\ free = Slots /\ slot = NoSlot /\ grab_errors = 0

------------------------------------------------------------------------------
(* The search for the blank line, core/http.rs.  Offsets count from 0.      *)

At(h, i) == h[i + 1]
Newlines(h, k) == {i \in k .. Len(h) - 1 : At(h, i) = "lf"}
First(S) == CHOOSE i \in S : \A j \in S : i <= j

(* A loop: what is left of `first` after n turns.                           *)
Loop(n, first, turn) ==
  LET after[k \in 0 .. n] == IF k = 0 THEN first ELSE turn[after[k - 1]]
  IN  after[n]

(* Whole words without a newline are passed over.                           *)
WordClear(h, k) ==
  k + Word <= Len(h) /\ Newlines(h, k) \cap (k .. k + Word - 1) = {}

SkipWords(h, k) ==
  Loop(Len(h), k, [j \in Nat |-> IF WordClear(h, j) THEN j + Word ELSE j])

NextNewline(h, k) == Newlines(h, SkipWords(h, k))

EndsBlankLine(h, i) ==
  At(h, i - 1) = "cr" /\ At(h, i - 2) = "lf" /\ At(h, i - 3) = "cr"

(* A search goes on at k until it has found a blank line.                   *)
Search == [k : Nat, found : BOOLEAN]
StartAt(k) == [k |-> k, found |-> FALSE]

TryNewline(h, s) ==
  LET newlines == NextNewline(h, s.k)
      i        == First(newlines)
  IN  IF s.found \/ s.k >= Len(h) \/ newlines = {} THEN s
      ELSE [k |-> i + 1, found |-> EndsBlankLine(h, i)]

BlankLinePortable(h, from) ==
  Loop(Len(h), StartAt(from + 3), [s \in Search |-> TryNewline(h, s)]).found

(* The vector unit's twin looks for the pair in the middle.                 *)
Pairs(h, j) ==
  {i \in j .. Len(h) - 2 : At(h, i) = "lf" /\ At(h, i + 1) = "cr"}

TryPair(h, s) ==
  LET i == First(Pairs(h, s.k))
  IN  IF s.found \/ Pairs(h, s.k) = {} THEN s
      ELSE [k |-> i + 1,
            found |-> At(h, i - 1) = "cr" /\ i + 2 < Len(h) /\ At(h, i + 2) = "lf"]

BlankLineVector(h, from) ==
  Loop(Len(h), StartAt(from + 1), [s \in Search |-> TryPair(h, s)]).found

(* Only the new bytes, and the three before them.                           *)
OnlyNewBytes(n) == n
SearchStart(n) == IF n >= 3 THEN n - 3 ELSE 0
HeadCompleteFrom(h, n) == BlankLinePortable(h, SearchStart(n))

------------------------------------------------------------------------------
(* The viewer and the sensor.                                               *)

Leave ==
  /\ viewer = "open"
  /\ viewer' = "left"
  /\ UNCHANGED <<camera, at, head, seen, asked, answer, frame>>

(* A reset arrives, or nothing is acknowledged for five seconds.            *)
StackNotices ==
  /\ viewer = "left"
  /\ viewer' = "dead"
  /\ UNCHANGED <<camera, at, head, seen, asked, answer, frame>>

FrameArrives ==
  /\ camera /\ ~ ready
  /\ ready' = TRUE
  /\ UNCHANGED <<camera, at, connection, free, slot, grab_errors>>

------------------------------------------------------------------------------
(* The head.                                                                *)

(* A failed accept makes a new socket and tries again: nothing changes.     *)
Accept ==
  /\ at = "accept"
  /\ at' = "read" /\ viewer' = "open"
  /\ head' = << >> /\ seen' = 0
  /\ UNCHANGED <<camera, asked, answer, frame>>

Complete == HeadCompleteFrom(head, seen)

(* parse_request, without a gate; the head is not looked at again.          *)
Parse(request) ==
  /\ asked' = request
  /\ at' = "dispatch"
  /\ head' = << >> /\ seen' = 0
  /\ UNCHANGED <<camera, viewer, answer, frame>>

HeadFound == at = "read" /\ Complete /\ \E r \in Asked : Parse(r)

HeadFull ==
  /\ at = "read" /\ ~ Complete /\ Len(head) >= MaxHead
  /\ Parse("malformed")

Read ==
  /\ at = "read" /\ ~ Complete /\ Len(head) < MaxHead
  /\ seen' = Len(head)
  /\ \E n \in 1 .. MaxHead - Len(head) : \E bytes \in [1 .. n -> Byte] :
       head' = head \o bytes
  /\ UNCHANGED <<camera, at, viewer, asked, answer, frame>>

(* The viewer closes, is gone, or sends nothing for five seconds.           *)
ReadFails ==
  /\ at = "read" /\ ~ Complete /\ Len(head) < MaxHead
  /\ Parse("malformed")

------------------------------------------------------------------------------
(* The answers.                                                             *)

(* Written in full, whether or not it gets through.                         *)
Respond(what) ==
  /\ answer' = what
  /\ at' = "close"
  /\ UNCHANGED <<camera, viewer, head, seen, asked, frame>>

Dispatch ==
  /\ at = "dispatch"
  /\ \/ asked = "index" /\ Respond("index")
     \/ asked = "stream" /\ ~ camera /\ Respond("no-camera")
     \/ asked = "another path" /\ Respond("not-found")
     \/ asked = "another method" /\ Respond("method")
     \/ asked = "malformed" /\ Respond("bad-request")

BeginStream ==
  /\ at = "dispatch" /\ asked = "stream" /\ camera
  /\ answer' = "stream"
  /\ at' = "stream head"
  /\ UNCHANGED <<camera, viewer, head, seen, asked, frame>>

(* Flush, close, and fifty milliseconds for the close to get through.  What *)
(* belongs to the connection is forgotten.                                  *)
Close ==
  /\ at = "close"
  /\ at' = "accept" /\ viewer' = "dead"
  /\ asked' = "none" /\ answer' = "none" /\ grab_errors' = 0
  /\ UNCHANGED <<camera, head, seen, ready, free, slot>>

------------------------------------------------------------------------------
(* The stream.                                                              *)

GoTo(next) == at' = next /\ UNCHANGED <<camera, connection>>

(* A write is taken by the stack while it does not know the viewer is gone. *)
WriteStreamHead ==
  /\ at = "stream head"
  /\ \/ viewer # "dead" /\ GoTo("wait")
     \/ viewer # "open" /\ GoTo("close")
  /\ UNCHANGED frame

(* Only the sensor ends this wait.  The pool is expected to have a slot.    *)
AcquireSlot ==
  /\ at = "wait" /\ ready
  /\ IF free = {}
     THEN GoTo("panic") /\ UNCHANGED <<free, slot>>
     ELSE /\ GoTo("grab")
          /\ slot' \in free
          /\ free' = free \ {slot'}
  /\ UNCHANGED <<ready, grab_errors>>

Release == free' = free \cup {slot} /\ slot' = NoSlot

GrabPacked ==
  /\ at = "grab"
  /\ GoTo("send")
  /\ ready' = FALSE
  /\ UNCHANGED <<free, slot, grab_errors>>

(* A frame that is not packed bytes goes back at once.                      *)
KeepSlot == UNCHANGED <<free, slot>>
ReleaseUnpacked == Release
GrabUnpacked ==
  /\ at = "grab"
  /\ GoTo("wait")
  /\ ReleaseUnpacked
  /\ ready' = FALSE
  /\ UNCHANGED grab_errors

(* Errors are counted over the whole stream, not in a row.                  *)
TooManyErrors == grab_errors + 1 > MaxGrabErrors

GrabFails ==
  /\ at = "grab"
  /\ grab_errors' = grab_errors + 1
  /\ GoTo(IF TooManyErrors THEN "close" ELSE "wait")
  /\ Release
  /\ ready' = FALSE

SendFrame ==
  /\ at = "send" /\ viewer # "dead"
  /\ GoTo("wait")
  /\ Release
  /\ UNCHANGED <<ready, grab_errors>>

(* The multipart writer refuses the frame, or the viewer is gone.           *)
SendUnchecked == "wait"
AfterFailedSend == "close"
SendFails ==
  /\ at = "send"
  /\ GoTo(AfterFailedSend)
  /\ Release
  /\ UNCHANGED <<ready, grab_errors>>

------------------------------------------------------------------------------
Next ==
  \/ Leave \/ StackNotices \/ FrameArrives
  \/ Accept \/ HeadFound \/ HeadFull \/ Read \/ ReadFails
  \/ Dispatch \/ BeginStream \/ Close
  \/ WriteStreamHead \/ AcquireSlot
  \/ GrabPacked \/ GrabUnpacked \/ GrabFails
  \/ SendFrame \/ SendFails

Spec == Init /\ [][Next]_vars

(* The loop's own steps are taken: a read returns or times out, the stack   *)
(* finds out about a viewer that left, a write to a dead one fails, and an  *)
(* answer that fits the send buffer can be flushed (a stream to a viewer    *)
(* that stays and does not read cannot).  A camera set to JPEG does not     *)
(* give other frames for ever.                                              *)
Fairness ==
  /\ WF_vars(HeadFound \/ HeadFull \/ Read \/ ReadFails)
  /\ WF_vars(Dispatch \/ BeginStream) /\ WF_vars(WriteStreamHead)
  /\ WF_vars(StackNotices)
  /\ WF_vars(AcquireSlot)
  /\ WF_vars(GrabPacked \/ GrabUnpacked \/ GrabFails)
  /\ SF_vars(GrabPacked \/ GrabFails)
  /\ WF_vars(SendFails /\ viewer = "dead")
  /\ WF_vars(Close /\ (answer # "stream" \/ viewer # "open"))

FairSpec == Spec /\ Fairness

------------------------------------------------------------------------------
(* Properties.                                                              *)

(* Type invariant; the head never outgrows its buffer.                      *)
TypeOK ==
  /\ camera \in BOOLEAN
  /\ at \in {"accept", "read", "dispatch", "close", "stream head", "wait",
             "grab", "send", "panic"}
  /\ viewer \in {"open", "left", "dead"}
  /\ Len(head) \in 0 .. MaxHead /\ seen \in 0 .. Len(head)
  /\ asked \in Asked \cup {"none"} /\ answer \in Answer \cup {"none"}
  /\ ready \in BOOLEAN
  /\ free \subseteq Slots /\ slot \in Slots \cup {NoSlot}
  /\ grab_errors \in 0 .. MaxGrabErrors + 1

HasBlankLine(h) ==
  \E i \in 1 .. Len(h) - 3 : SubSeq(h, i, i + 3) = <<"cr", "lf", "cr", "lf">>

(* http.rs:143-146: searching each read's new bytes gives the answer a      *)
(* search of the whole head would, wherever the reads cut the blank line,   *)
(* and both twins of the search find exactly the blank lines.               *)
SearchIsExact ==
  at = "read" =>
    /\ Complete <=> HasBlankLine(head)
    /\ BlankLinePortable(head, 0) <=> HasBlankLine(head)
    /\ BlankLineVector(head, SearchStart(seen)) <=> HasBlankLine(head)

(* The pool is expected to have a slot whenever a frame is ready            *)
(* (main.rs:363): whatever becomes of a frame, its slot comes back, so no   *)
(* run of odd frames, failed grabs and failed sends uses up the pool.       *)
SlotsComeBack ==
  /\ at # "panic"
  /\ at \notin {"grab", "send"} => free = Slots /\ slot = NoSlot
  /\ at \in {"grab", "send"} => free = Slots \ {slot} /\ slot \in Slots

(* What holds of the page server: its types (a head never outgrows its      *)
(* buffer), and that every slot is free or in hand (main.rs:358-394).       *)
PageInv == TypeOK /\ SlotsComeBack

(* The frame ready in the wait is there for good, or comes again.           *)
SensorRuns == []<>(at = "wait" => ready)

Streaming == at \in {"stream head", "wait", "grab", "send"} \/
             (at = "close" /\ answer = "stream")

(* While the sensor runs, only a viewer that stays on the stream keeps the  *)
(* server from its next connection: not one that is slow with its head, or  *)
(* never finishes it, or leaves at any moment.  (With a stalled sensor the  *)
(* wait for a frame, which does not look at the socket, is for ever.)       *)
AcceptsAgain ==
  SensorRuns => ((at # "accept") ~> (at = "accept" \/ (Streaming /\ viewer = "open")))

==============================================================================
