------------------------------ MODULE HttpServer ------------------------------
(***************************************************************************)
(* The MJPEG HTTP server, `MjpegHttpServer` of esp/net.rs: one accepting    *)
(* thread over a backlog of connections.  It answers everything itself but  *)
(* an admitted /stream, which serve_one runs in place and a caller of       *)
(* accept_one on a thread of its own.                                       *)
(*                                                                          *)
(* Connections are numbered from 1 in the order they are made, which is the *)
(* order they are accepted in.  Some of them are of one browser, which      *)
(* keeps the cookie the page came with and sends it with what follows.      *)
(***************************************************************************)
EXTENDS Integers, FiniteSets, Sequences

CONSTANTS
  Requests,   \* the requests viewers make
  MaxHead,    \* MAX_REQUEST_BYTES
  Window,     \* frames TCP holds for a viewer that does not read
  MaxConns,   \* bound: connections made
  MaxFrames   \* bound: frames pushed

Paths == {"index", "stream", "update", "setup", "status", "other"}
Methods == {"GET", "PUT", "POST", "other", "malformed"}

Tokens == {"token", "stale"}

(* What a head says: the values of `t` in its query, in order, whether it   *)
(* comes from the browser, whether its query is one /v1/status knows, and   *)
(* how many bytes it has, blank line included.                              *)
Request == [method : Methods, path : Paths, query : Seq(Tokens),
            browser : BOOLEAN, query_ok : BOOLEAN, head : Nat \ {0}]

ASSUME HttpAssumption ==
  /\ Requests \subseteq Request /\ MaxHead \in Nat \ {0}
  /\ Window \in Nat \ {0} /\ MaxConns \in Nat /\ MaxFrames \in Nat

Served == {"Index", "NotFound", "MethodNotAllowed", "Forbidden", "BadRequest",
           "Status", "Stream"}

VARIABLES
  threaded,   \* streams run on threads of their own
  gated,      \* the server requires a token
  has_status, \* it has a status handler
  req,        \* the request of each connection
  connected,  \* connections made
  open,       \* the viewer's end of each
  sent,       \* bytes of its head that have reached the server's socket
  cookie,     \* the `t` cookies its head carries
  jar,        \* the `t` cookies the browser holds for this camera
  at,         \* where the accepting thread is
  len,        \* bytes of the head read so far
  stats,      \* ServeStats::connections and ::other
  run_stats,  \* ::streams and ::frames, of the ServeStats the streams run with
  stream,     \* where each connection's StreamConn is
  unread,     \* frames pushed and not yet read by the viewer
  answer,     \* what each connection turned out to be, "none" so far
  cut,        \* ghost: connections that fell silent or closed inside the head
  opened,     \* ghost: the browser has been given the page
  follows     \* ghost: connections it has made since

config == <<threaded, gated, has_status, req>>
viewers == <<connected, open, sent, cookie, follows>>
browser == <<jar, opened>>
streams == <<run_stats, stream, unread>>
vars == <<config, viewers, browser, at, len, stats, streams, answer, cut>>

Conns == 1 .. MaxConns

Init ==
  /\ threaded \in BOOLEAN /\ gated \in BOOLEAN /\ has_status \in BOOLEAN
  /\ req \in [Conns -> Requests]
  /\ connected = 0
  /\ open = [c \in Conns |-> TRUE] /\ sent = [c \in Conns |-> 0]
  /\ cookie = [c \in Conns |-> <<>>] /\ follows = {}
  /\ jar \in {<<>>, <<"stale">>} /\ opened = FALSE
  /\ at = "accept" /\ len = 0
  /\ stats = [connections |-> 0, other |-> 0]
  /\ run_stats = [streams |-> 0, frames |-> 0]
  /\ stream = [c \in Conns |-> "none"] /\ unread = [c \in Conns |-> 0]
  /\ answer = [c \in Conns |-> "none"]
  /\ cut = {}

------------------------------------------------------------------------------
(* The viewers.                                                             *)

Connect ==
  /\ connected < MaxConns
  /\ connected' = connected + 1
  /\ cookie' = [cookie EXCEPT ![connected'] =
                  IF req[connected'].browser THEN jar ELSE <<>>]
  /\ follows' = IF opened /\ req[connected'].browser
                THEN follows \cup {connected'} ELSE follows
  /\ UNCHANGED <<config, open, sent, browser, at, len, stats, streams, answer,
                 cut>>

SendHead(c) ==
  /\ c <= connected /\ open[c] /\ sent[c] < req[c].head
  /\ sent' = [sent EXCEPT ![c] = @ + 1]
  /\ UNCHANGED <<config, connected, open, cookie, follows, browser, at, len,
                 stats, streams, answer, cut>>

ReadFrame(c) ==
  /\ open[c] /\ unread[c] > 0
  /\ unread' = [unread EXCEPT ![c] = @ - 1]
  /\ UNCHANGED <<config, viewers, browser, at, len, stats, run_stats, stream,
                 answer, cut>>

Leave(c) ==
  /\ c <= connected /\ open[c]
  /\ open' = [open EXCEPT ![c] = FALSE]
  /\ UNCHANGED <<config, connected, sent, cookie, follows, browser, at, len,
                 stats, streams, answer, cut>>

------------------------------------------------------------------------------
(* The accepting thread.                                                    *)

Accept ==
  /\ at = "accept" /\ stats.connections < connected
  /\ stats' = [stats EXCEPT !.connections = @ + 1]
  /\ at' = "read" /\ len' = 0
  /\ UNCHANGED <<config, viewers, browser, streams, answer, cut>>

(* accept() itself fails: serve returns the error.                          *)
AcceptFails ==
  /\ at = "accept"
  /\ at' = "stopped"
  /\ UNCHANGED <<config, viewers, browser, len, stats, streams, answer, cut>>

(* The connection whose head is being read.                                 *)
Current == stats.connections
Asked == req[Current]

HeadComplete == len >= Asked.head

(* A read returns some of what has arrived, and no more than the buffer has *)
(* room for.                                                                *)
Room == IF sent[Current] <= MaxHead THEN sent[Current] ELSE MaxHead

ReadHead ==
  /\ at = "read" /\ ~ HeadComplete /\ len < MaxHead
  /\ len' \in len + 1 .. Room
  /\ UNCHANGED <<config, viewers, browser, at, stats, streams, answer, cut>>

OtherUncounted == stats.other
CountOther == stats.other + 1

(* Answered in full; whether the viewer took the answer makes no difference. *)
Answer(served) ==
  /\ answer' = [answer EXCEPT ![Current] = served]
  /\ stats' = [stats EXCEPT !.other = CountOther]
  /\ at' = "accept"
  /\ UNCHANGED <<config, viewers, len, streams>>

(* The buffer is full and the blank line has not come.                      *)
HeadTooLong ==
  /\ at = "read" /\ ~ HeadComplete /\ len >= MaxHead
  /\ Answer("BadRequest")
  /\ UNCHANGED <<browser, cut>>

(* Nothing more comes and the read times out, or the viewer has closed.     *)
HeadCutShort ==
  /\ at = "read" /\ ~ HeadComplete /\ len < MaxHead
  /\ len = sent[Current] \/ ~ open[Current]
  /\ Answer("BadRequest")
  /\ cut' = cut \cup {Current}
  /\ UNCHANGED browser

HasRequest == at = "read" /\ HeadComplete
Gets(path) == Asked.method = "GET" /\ Asked.path = path

(* The first `t` of the query; a cookie only when the query has none.  The  *)
(* token compares equal to itself alone.                                    *)
Presented == Asked.query \o cookie[Current]
Admitted == gated => Presented # <<>> /\ Head(Presented) = "token"

AnswerMalformed ==
  /\ HasRequest /\ Asked.method = "malformed"
  /\ Answer("BadRequest")
  /\ UNCHANGED <<browser, cut>>

(* The status is looked at before the gate.                                 *)
AnswerStatus ==
  /\ HasRequest /\ Gets("status")
  /\ Answer(IF ~ has_status THEN "NotFound"
            ELSE IF Asked.query_ok THEN "Status" ELSE "BadRequest")
  /\ UNCHANGED <<browser, cut>>

Forbid ==
  /\ HasRequest /\ Asked.method = "GET" /\ ~ Gets("status") /\ ~ Admitted
  /\ Answer("Forbidden")
  /\ UNCHANGED <<browser, cut>>

(* The page brings the token along as a cookie, which a browser that is     *)
(* still there keeps in place of the one it had.                            *)
NoCookie == jar
SetCookie == IF gated THEN <<"token">> ELSE jar

AnswerIndex ==
  /\ HasRequest /\ Gets("index") /\ Admitted
  /\ Answer("Index")
  /\ IF Asked.browser /\ open[Current]
     THEN opened' = TRUE /\ jar' = SetCookie
     ELSE UNCHANGED browser
  /\ UNCHANGED cut

AnswerNotFound ==
  /\ HasRequest /\ (Gets("other") \/ Gets("setup")) /\ Admitted
  /\ Answer("NotFound")
  /\ UNCHANGED <<browser, cut>>

RefuseMethod ==
  /\ HasRequest
  /\ (Gets("update") /\ Admitted) \/ Asked.method \in {"PUT", "POST", "other"}
  /\ Answer("MethodNotAllowed")
  /\ UNCHANGED <<browser, cut>>

(* An admitted /stream: run in place, or on a thread of its own.            *)
RunInPlace == "stream"
AfterHandOver == IF threaded THEN "accept" ELSE "stream"

HandOver ==
  /\ HasRequest /\ Gets("stream") /\ Admitted
  /\ answer' = [answer EXCEPT ![Current] = "Stream"]
  /\ stream' = [stream EXCEPT ![Current] = "head"]
  /\ at' = AfterHandOver
  /\ UNCHANGED <<config, viewers, browser, len, stats, run_stats, unread, cut>>

ServeRequest ==
  \/ ReadHead \/ HeadTooLong \/ HeadCutShort
  \/ AnswerMalformed \/ AnswerStatus \/ Forbid \/ AnswerIndex
  \/ AnswerNotFound \/ RefuseMethod \/ HandOver

------------------------------------------------------------------------------
(* StreamConn::run for connection c, on whichever thread: about to write    *)
(* the response head, waiting for a packet, or with one to push.            *)
Running == {"head", "frames", "push"}

(* The stream is over; serve_one returns to the accepting loop.             *)
StreamEnds(c, how) ==
  /\ stream' = [stream EXCEPT ![c] = how]
  /\ at' = IF threaded THEN at ELSE "accept"
  /\ UNCHANGED <<config, viewers, browser, len, stats, run_stats, unread,
                 answer, cut>>

WriteHead(c) ==
  /\ stream[c] = "head"
  /\ stream' = [stream EXCEPT ![c] = "frames"]
  /\ run_stats' = [run_stats EXCEPT !.streams = @ + 1]
  /\ UNCHANGED <<config, viewers, browser, at, len, stats, unread, answer, cut>>

(* The viewer is gone before the response head is written.                  *)
WriteHeadFails(c) == stream[c] = "head" /\ ~ open[c] /\ StreamEnds(c, "left")

(* The source yields the next packet: until then the stream waits in        *)
(* next_packet, and looks at its viewer no more than at anything else.      *)
SourceYields(c) ==
  /\ stream[c] = "frames"
  /\ stream' = [stream EXCEPT ![c] = "push"]
  /\ UNCHANGED <<config, viewers, browser, at, len, stats, run_stats, unread,
                 answer, cut>>

(* TCP takes a frame while it has room, from a viewer just gone as well.    *)
PushFrame(c) ==
  /\ stream[c] = "push"
  /\ unread[c] < Window /\ run_stats.frames < MaxFrames
  /\ stream' = [stream EXCEPT ![c] = "frames"]
  /\ unread' = [unread EXCEPT ![c] = @ + 1]
  /\ run_stats' = [run_stats EXCEPT !.frames = @ + 1]
  /\ UNCHANGED <<config, viewers, browser, at, len, stats, answer, cut>>

(* The write fails: the viewer closed the tab, not an error.                *)
ViewerGone(c) == stream[c] = "push" /\ ~ open[c] /\ StreamEnds(c, "ended")

(* The source fails, or has yielded a packet that Multipart refuses: run    *)
(* returns the error, and with it serve_one and serve.                      *)
SourceFails(c) ==
  /\ stream[c] \in {"frames", "push"}
  /\ stream' = [stream EXCEPT ![c] = "ended"]
  /\ at' = IF threaded THEN at ELSE "stopped"
  /\ UNCHANGED <<config, viewers, browser, len, stats, run_stats, unread,
                 answer, cut>>

RunStream(c) ==
  WriteHead(c) \/ WriteHeadFails(c) \/ SourceYields(c) \/ PushFrame(c)
    \/ ViewerGone(c)

------------------------------------------------------------------------------
Next ==
  \/ Connect
  \/ \E c \in Conns : SendHead(c) \/ ReadFrame(c) \/ Leave(c)
  \/ Accept
  \/ AcceptFails
  \/ ServeRequest
  \/ \E c \in Conns : RunStream(c) \/ SourceFails(c)

Spec == Init /\ [][Next]_vars

(* The accepting thread and each stream keep running: a read returns what   *)
(* has arrived or times out, and a write to a closed connection fails in    *)
(* the end.  Nothing makes a viewer send, read or leave, or the source      *)
(* yield.                                                                   *)
Fairness ==
  /\ WF_vars(Accept)
  /\ WF_vars(ServeRequest)
  /\ \A c \in Conns :
       WF_vars(WriteHead(c)) /\ WF_vars(PushFrame(c)) /\ WF_vars(ViewerGone(c))

FairSpec == Spec /\ Fairness

------------------------------------------------------------------------------
(* Properties.                                                              *)

(* Type invariant; a head never outgrows its buffer.                        *)
TypeOK ==
  /\ threaded \in BOOLEAN /\ gated \in BOOLEAN /\ has_status \in BOOLEAN
  /\ req \in [Conns -> Request]
  /\ connected \in 0 .. MaxConns
  /\ open \in [Conns -> BOOLEAN] /\ sent \in [Conns -> Nat]
  /\ cookie \in [Conns -> Seq(Tokens)] /\ jar \in Seq(Tokens)
  /\ opened \in BOOLEAN /\ follows \subseteq Conns
  /\ at \in {"accept", "read", "stream", "stopped"}
  /\ len \in 0 .. MaxHead
  /\ stats \in [connections : 0 .. MaxConns, other : Nat]
  /\ run_stats \in [streams : Nat, frames : Nat]
  /\ stream \in [Conns -> {"none", "left", "ended"} \cup Running]
  /\ unread \in [Conns -> 0 .. Window]
  /\ answer \in [Conns -> Served \cup {"none"}]
  /\ cut \subseteq Conns

In(state) == Cardinality({c \in Conns : stream[c] = state})

(* ServeStats: every connection accepted is counted once, among the streams *)
(* or the others, except one whose viewer left before its stream began; a   *)
(* connection still being read or about to begin is counted later.          *)
CountersAdd ==
  stats.connections =
    stats.other + run_stats.streams + In("left") + In("head")
      + (IF at = "read" THEN 1 ELSE 0)

(* What holds of the server: its types (a head never outgrows its buffer),  *)
(* and that its counters add up (net.rs:28-50).                             *)
HttpInv == TypeOK /\ CountersAdd

CarriesToken(c) == \E i \in DOMAIN (req[c].query \o cookie[c]) :
                     (req[c].query \o cookie[c])[i] = "token"

(* net.rs:168-171 and :306-308: behind the gate are the page and the        *)
(* stream; the status never is; and a request is only refused as bad that   *)
(* was malformed, too large or incomplete.  A head of exactly MaxHead bytes *)
(* is not too large.  And http.rs:406-407: once a browser has been given    *)
(* the page, what it asks for without a token in the query, the page's own  *)
(* picture first of all, is never refused, whatever cookie it came with.    *)
AnswersArePromised ==
  \A c \in Conns :
    /\ answer[c] \in {"Index", "Stream"} => (gated => CarriesToken(c))
    /\ answer[c] = "Forbidden" =>
         /\ gated /\ req[c].path # "status"
         /\ c \notin follows \/ req[c].query # <<>>
    /\ answer[c] = "BadRequest" =>
         \/ req[c].method = "malformed" \/ req[c].head > MaxHead \/ c \in cut
         \/ has_status /\ req[c].path = "status" /\ ~ req[c].query_ok

(* No stream waits in next_packet for ever.                                 *)
SourceRuns == \A c \in Conns : []<>(stream[c] # "frames")

(* net.rs:204-208: a viewer with the stream open never holds up the others  *)
(* when streams run on their own threads, even if the source stalls; and    *)
(* run in place, only a viewer that is still there does, provided the       *)
(* source keeps yielding: a stream notices that its viewer has left by the  *)
(* next write alone (net.rs:105-113).  However slowly heads come, every     *)
(* connection is answered in the end, unless the server stops.              *)
EveryoneAnswered ==
  threaded \/ SourceRuns =>
    \A c \in Conns :
      (c <= connected) ~>
        \/ answer[c] # "none"
        \/ at = "stopped"
        \/ ~ threaded /\ \E d \in Conns : stream[d] \in Running /\ open[d]

==============================================================================
