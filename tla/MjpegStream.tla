------------------------------ MODULE MjpegStream ------------------------------
(***************************************************************************)
(* The MJPEG stream over one TCP connection: `StreamConn::run` and          *)
(* `Multipart::push` on the device, and `pull_stream` with its `Reader` on  *)
(* the hub.                                                                 *)
(*                                                                          *)
(* TCP keeps the order, so bytes are counted, not named.  Part k is Headers *)
(* bytes of delimiter and headers, body[k] bytes of JPEG and a CRLF; the    *)
(* front of the reader's buffer is always the front of a part (or of the    *)
(* response head), since release() takes away whole parts.                  *)
(***************************************************************************)
EXTENDS Integers

CONSTANTS
  Head,       \* bytes of the response head
  Headers,    \* bytes of a part's delimiter and headers, blank line included
  Bodies,     \* JPEG lengths
  BufSize,    \* the buffer the caller of pull_stream gives
  Chunk,      \* bytes asked of the socket at a time (4096 in the code)
  Window,     \* bytes TCP holds between the two ends
  WantFrames, \* pull_stream's max_frames
  MaxParts,   \* bound: frames the source yields
  MaxCuts     \* bound: connections that break

ASSUME StreamAssumption ==
  /\ Head \in Nat \ {0} /\ Headers \in Nat \ {0} /\ Bodies \subseteq Nat \ {0}
  /\ BufSize \in Nat /\ Chunk \in Nat \ {0} /\ Window \in Nat \ {0}
  /\ WantFrames \in Nat \ {0} /\ MaxParts \in Nat /\ MaxCuts \in Nat

VARIABLES
  body,     \* length of each JPEG (fixed when the source is)
  server,   \* where run() is
  pending,  \* bytes of the current write not yet in the socket
  pushed,   \* frames pushed whole: `frames`, and ServeStats::frames
  flight,   \* bytes in the socket, sent and not yet read
  eof,      \* the device's end is closed
  client,   \* where pull_stream is
  state,    \* Reader::state
  len,      \* Reader::len
  frames,   \* PullStats::frames, and Reader::parts
  cuts      \* connections broken

serverVars == <<server, pending, pushed>>
clientVars == <<client, state, len, frames>>
vars == <<body, serverVars, flight, eof, clientVars, cuts>>

Parts == 1 .. MaxParts
PartLen(k) == Headers + body[k] + 2

Init ==
  /\ body \in [Parts -> Bodies]
  /\ server = "head" /\ pending = Head /\ pushed = 0
  /\ flight = 0 /\ eof = FALSE
  /\ client = "reading" /\ state = "Start" /\ len = 0 /\ frames = 0
  /\ cuts = 0

Gone == client \notin {"reading", "parsing"}

------------------------------------------------------------------------------
(* The device.                                                              *)

(* The source yields the next frame; its part is written piece by piece.    *)
NextPacket ==
  /\ server = "source" /\ pushed < MaxParts
  /\ server' = "part" /\ pending' = PartLen(pushed + 1)
  /\ UNCHANGED <<body, pushed, flight, eof, clientVars, cuts>>

(* The source fails: run() returns, which closes the connection.            *)
SourceFails ==
  /\ server = "source"
  /\ server' = "failed" /\ eof' = TRUE
  /\ UNCHANGED <<body, pending, pushed, flight, clientVars, cuts>>

(* write_all makes progress as TCP takes bytes, a reader or no reader; the  *)
(* frame is counted when its last byte is written.                          *)
Write ==
  /\ server \in {"head", "part"} /\ ~ eof
  /\ \E n \in 1 .. pending :
       /\ flight + n <= Window
       /\ flight' = flight + n
       /\ pending' = pending - n
  /\ server' = IF pending' = 0 THEN "source" ELSE server
  /\ pushed' = pushed + (IF server = "part" /\ pending' = 0 THEN 1 ELSE 0)
  /\ UNCHANGED <<body, eof, clientVars, cuts>>

(* TCP has noticed that the viewer has left, or that the connection is      *)
(* broken: run() ends.                                                      *)
WriteFails ==
  /\ server \in {"head", "part"} /\ (Gone \/ eof)
  /\ server' = "left" /\ eof' = TRUE
  /\ UNCHANGED <<body, pending, pushed, flight, clientVars, cuts>>

(* The connection breaks, wherever the device is in a part; what is in the  *)
(* socket still arrives (the device's program ended) ...                    *)
Cut ==
  /\ cuts < MaxCuts /\ ~ eof
  /\ cuts' = cuts + 1 /\ eof' = TRUE
  /\ UNCHANGED <<body, serverVars, flight, clientVars>>

(* ... or is lost, and the hub's read fails.                                *)
Reset ==
  /\ cuts < MaxCuts /\ ~ eof /\ client = "reading"
  /\ cuts' = cuts + 1 /\ eof' = TRUE
  /\ flight' = 0 /\ client' = "failed"
  /\ UNCHANGED <<body, serverVars, state, len, frames>>

------------------------------------------------------------------------------
(* The hub.                                                                 *)

(* read() returns some of the bytes there are; Reader::push refuses them    *)
(* when they do not all fit behind what is buffered, and pull_stream fails. *)
Fits(n) == len + n <= BufSize

Read ==
  /\ client = "reading"
  /\ \E n \in 1 .. flight :
       /\ n <= Chunk
       /\ flight' = flight - n
       /\ \/ Fits(n) /\ client' = "parsing" /\ len' = len + n
          \/ ~ Fits(n) /\ client' = "too small" /\ UNCHANGED len
  /\ UNCHANGED <<body, serverVars, eof, state, frames, cuts>>

(* Nothing comes for ten seconds: read() fails, and pull_stream with it.    *)
ReadTimesOut ==
  /\ client = "reading" /\ flight = 0 /\ ~ eof
  /\ client' = "failed"
  /\ UNCHANGED <<body, serverVars, flight, eof, state, len, frames, cuts>>

(* read() returns 0.                                                        *)
ReadEnd ==
  /\ client = "reading" /\ eof /\ flight = 0
  /\ client' = "ended"
  /\ UNCHANGED <<body, serverVars, flight, eof, state, len, frames, cuts>>

(* next_part: State::Start waits for five bytes, and the head is taken away *)
(* when its blank line is in.                                               *)
ParseHead ==
  /\ client = "parsing" /\ state \in {"Start", "Head"}
  /\ IF len < Head
     THEN /\ state' = IF len < 5 THEN state ELSE "Head"
          /\ client' = "reading"
          /\ UNCHANGED len
     ELSE /\ state' = "Parts" /\ len' = len - Head
          /\ UNCHANGED client
  /\ UNCHANGED <<body, serverVars, flight, eof, frames, cuts>>

(* next_part has no whole part: the headers are not all in, or the body is  *)
(* not; a body that the buffer could never hold ends the pull.              *)
NoRoomBehind(k) == len + PartLen(k) > BufSize
NoRoom(k) == PartLen(k) > BufSize

ParseNone ==
  /\ client = "parsing" /\ state = "Parts"
  /\ \/ len < Headers /\ client' = "reading"
     \/ /\ len >= Headers /\ len < PartLen(frames + 1)
        /\ client' = IF NoRoom(frames + 1) THEN "too small" ELSE "reading"
  /\ UNCHANGED <<body, serverVars, flight, eof, state, len, frames, cuts>>

(* A whole part: on_frame (which may fail), release, the next part, and     *)
(* stop when there were enough.                                             *)
ReleasedAll(k) == 0
Released(k) == len - PartLen(k)

AfterPartReads == IF frames + 1 >= WantFrames THEN "done" ELSE "reading"
AfterPart == IF frames + 1 >= WantFrames THEN "done" ELSE "parsing"

ParsePart ==
  /\ client = "parsing" /\ state = "Parts"
  /\ len >= Headers /\ len >= PartLen(frames + 1)
  /\ \/ /\ frames' = frames + 1
        /\ len' = Released(frames + 1)
        /\ client' = AfterPart
     \/ client' = "failed" /\ UNCHANGED <<frames, len>>
  /\ UNCHANGED <<body, serverVars, flight, eof, state, cuts>>

------------------------------------------------------------------------------
Next ==
  \/ NextPacket \/ SourceFails
  \/ Write \/ WriteFails
  \/ Cut \/ Reset
  \/ Read \/ ReadEnd \/ ReadTimesOut
  \/ ParseHead \/ ParseNone \/ ParsePart

Spec == Init /\ [][Next]_vars

(* Each end keeps running while it can, and TCP delivers what it took.      *)
(* Nothing makes the source yield or fail, on_frame fail, or the            *)
(* connection break.                                                        *)
Fairness ==
  /\ WF_vars(Write) /\ WF_vars(WriteFails)
  /\ WF_vars(Read) /\ WF_vars(ReadEnd)
  /\ WF_vars(ParseHead) /\ WF_vars(ParseNone) /\ WF_vars(ParsePart)

FairSpec == Spec /\ Fairness

------------------------------------------------------------------------------
(* Properties.                                                              *)

(* Type invariant of both ends.                                             *)
TypeOK ==
  /\ body \in [Parts -> Bodies]
  /\ server \in {"head", "source", "part", "left", "failed"}
  /\ pending \in Nat /\ pushed \in 0 .. MaxParts
  /\ flight \in 0 .. Window /\ eof \in BOOLEAN
  /\ client \in {"reading", "parsing", "done", "ended", "too small", "failed"}
  /\ state \in {"Start", "Head", "Parts"}
  /\ len \in 0 .. BufSize /\ frames \in 0 .. MaxParts
  /\ cuts \in 0 .. MaxCuts

(* The two counts agree: the hub never hands over a frame the device has    *)
(* not pushed to its last byte, and when the stream closes in order it has  *)
(* handed over every one, wherever in a part the device stopped.            *)
CountsAgree ==
  /\ frames <= pushed
  /\ client = "ended" => frames = pushed

(* What holds of both ends: their types (the bytes held never outgrow the   *)
(* buffer), and that their counts agree.                                    *)
StreamInv == TypeOK /\ CountsAgree

(* A buffer of the largest part and all but one byte of a chunk is enough,  *)
(* however TCP cuts the stream into reads.                                  *)
Roomy ==
  /\ BufSize >= Head + Chunk - 1
  /\ \A k \in Parts : BufSize >= PartLen(k) + Chunk - 1

RoomyNeverTooSmall == Roomy => client # "too small"

(* Every frame the device pushes reaches the hub, unless the hub has        *)
(* stopped, whatever the sizes of the reads.                                *)
PushedArrives ==
  \A k \in Parts : pushed >= k ~> (frames >= k \/ Gone)

==============================================================================
