--------------------------- MODULE HttpServerProofs ---------------------------
(* The HTTP server answers as documented and counts every connection once,  *)
(* for any number of viewers, any requests, cookies and buffer sizes,       *)
(* whether streams run in place or on threads.                              *)
EXTENDS HttpServer, FiniteSetTheorems, TLAPS

(* The connections in a state of their stream.                              *)
Members(state) == {c \in Conns : stream[c] = state}

(* Where the accepting thread can be: the connection being read has not     *)
(* been accepted for long enough to stream, later ones have not been seen,  *)
(* and a stream run in place is the only one and has the thread.            *)
Places ==
  /\ stats.connections <= connected
  /\ \A c \in Conns : c > stats.connections =>
                        answer[c] = "none" /\ stream[c] = "none"
  /\ at = "read" => Current \in Conns /\ stream[Current] = "none"
  /\ ~ threaded => \A c \in Conns : stream[c] \in Running =>
                                      at = "stream" /\ c = Current

(* A browser that was given the page has its token, and brought it along    *)
(* with every connection it made since.                                     *)
Cookies ==
  /\ opened /\ gated => jar = <<"token">>
  /\ \A c \in follows : c <= connected /\ (gated => cookie[c] = <<"token">>)

ServerInv == HttpInv /\ AnswersArePromised /\ Places /\ Cookies

------------------------------------------------------------------------------
(* Sequences of tokens.                                                     *)

LEMMA FirstOfNonEmpty ==
  ASSUME NEW s \in Seq(Tokens), s # <<>>
  PROVE  1 \in DOMAIN s /\ Head(s) = s[1]
  OBVIOUS

LEMMA EmptyQuery ==
  ASSUME NEW s \in Seq(Tokens)
  PROVE  <<>> \o s = s
  OBVIOUS

(* A request let through the gate carries the token.                        *)
LEMMA AdmittedCarries ==
  ASSUME TypeOK, Current \in Conns, Admitted, gated
  PROVE  CarriesToken(Current)
<1>1. req[Current].query \in Seq(Tokens) /\ cookie[Current] \in Seq(Tokens)
  BY DEF TypeOK, Request
<1>2. Presented \in Seq(Tokens)
  BY <1>1 DEF Presented, Asked
<1>3. 1 \in DOMAIN Presented /\ Presented[1] = "token"
  BY <1>2, FirstOfNonEmpty DEF Admitted
<1>4. QED
  BY <1>3 DEF CarriesToken, Presented, Asked

(* A request without a token in its query, from a browser that was given    *)
(* the page, is let through.                                                *)
LEMMA FollowerAdmitted ==
  ASSUME TypeOK, Cookies, Current \in follows, req[Current].query = <<>>
  PROVE  Admitted
<1>1. CASE ~ gated
  BY <1>1 DEF Admitted
<1>2. CASE gated
  <2>1. cookie[Current] = <<"token">>
    BY <1>2 DEF Cookies
  <2>2. <<"token">> \in Seq(Tokens)
    BY DEF Tokens
  <2>3. Presented = <<"token">>
    BY <2>1, <2>2, EmptyQuery DEF Presented, Asked
  <2>4. QED
    BY <2>3 DEF Admitted
<1>3. QED
  BY <1>1, <1>2

------------------------------------------------------------------------------
(* Counting.                                                                *)

LEMMA MembersFinite ==
  ASSUME NEW S \in SUBSET Conns
  PROVE  IsFiniteSet(S) /\ Cardinality(S) \in Nat
<1>1. IsFiniteSet(Conns)
  BY HttpAssumption, FS_Interval DEF Conns
<1>2. IsFiniteSet(S)
  BY <1>1, FS_Subset
<1>3. QED
  BY <1>2, FS_CardinalityType

LEMMA InIsNat ==
  ASSUME NEW CONSTANT s
  PROVE  In(s) \in Nat
  BY MembersFinite DEF In

(* A connection enters a state.                                             *)
LEMMA MoveIn ==
  ASSUME TypeOK, NEW c \in Conns, NEW CONSTANT s, stream[c] # s,
         stream' = [stream EXCEPT ![c] = s]
  PROVE  In(s)' = In(s) + 1
<1>1. /\ Members(s)' = Members(s) \cup {c}
      /\ c \notin Members(s) /\ Members(s) \in SUBSET Conns
  BY DEF Members, TypeOK
<1>2. Cardinality(Members(s) \cup {c}) = Cardinality(Members(s)) + 1
  BY <1>1, MembersFinite, FS_AddElement
<1>3. QED
  BY <1>1, <1>2 DEF In, Members

(* It leaves one.                                                           *)
LEMMA MoveOut ==
  ASSUME TypeOK, NEW c \in Conns, NEW CONSTANT s, NEW CONSTANT t, t # s,
         stream[c] = s, stream' = [stream EXCEPT ![c] = t]
  PROVE  In(s)' = In(s) - 1
<1>1. /\ Members(s)' = Members(s) \ {c}
      /\ c \in Members(s) /\ Members(s) \in SUBSET Conns
  BY DEF Members, TypeOK
<1>2. Cardinality(Members(s) \ {c}) = Cardinality(Members(s)) - 1
  BY <1>1, MembersFinite, FS_RemoveElement
<1>3. QED
  BY <1>1, <1>2 DEF In, Members

(* It moves between two others.                                             *)
LEMMA MoveElsewhere ==
  ASSUME TypeOK, NEW c \in Conns, NEW CONSTANT s, NEW CONSTANT t, t # s,
         stream[c] # s, stream' = [stream EXCEPT ![c] = t]
  PROVE  In(s)' = In(s)
<1>1. Members(s)' = Members(s)
  BY DEF Members, TypeOK
<1>2. QED
  BY <1>1 DEF In, Members

LEMMA MoveNone ==
  ASSUME stream' = stream, NEW CONSTANT s
  PROVE  In(s)' = In(s)
  BY DEF In

------------------------------------------------------------------------------
(* The initial states.                                                      *)
LEMMA InitServer == Init => ServerInv
<1> SUFFICES ASSUME Init PROVE ServerInv
  OBVIOUS
<1>1. TypeOK
  <2>1. <<>> \in Seq(Tokens) /\ <<"stale">> \in Seq(Tokens)
    BY DEF Tokens
  <2>2. /\ connected \in 0 .. MaxConns /\ len \in 0 .. MaxHead
        /\ unread \in [Conns -> 0 .. Window] /\ sent \in [Conns -> Nat]
    BY HttpAssumption DEF Init
  <2>3. 0 \in 0 .. MaxConns
    BY HttpAssumption
  <2>4. /\ stats \in [connections : 0 .. MaxConns, other : Nat]
        /\ run_stats \in [streams : Nat, frames : Nat]
    BY <2>3 DEF Init
  <2>5. req \in [Conns -> Request]
    BY HttpAssumption DEF Init
  <2>6. jar \in Seq(Tokens) /\ cookie \in [Conns -> Seq(Tokens)]
    BY <2>1 DEF Init
  <2>7. /\ answer \in [Conns -> Served \cup {"none"}]
        /\ stream \in [Conns -> {"none", "left", "ended"} \cup Running]
        /\ open \in [Conns -> BOOLEAN]
    BY DEF Init
  <2>8. QED
    BY <2>2, <2>4, <2>5, <2>6, <2>7 DEF Init, TypeOK
<1>2. CountersAdd
  <2>1. \A s \in {"left", "head"} : Members(s) = {}
    BY DEF Init, Members
  <2>2. In("left") = 0 /\ In("head") = 0
    BY <2>1, FS_EmptySet DEF In, Members
  <2>3. QED
    BY <2>2 DEF Init, CountersAdd
<1>3. AnswersArePromised
  BY DEF Init, AnswersArePromised
<1>4. Places /\ Cookies
  BY HttpAssumption DEF Init, Places, Cookies, Conns, Running
<1>5. QED
  BY <1>1, <1>2, <1>3, <1>4 DEF ServerInv, HttpInv

(* The counters as records.                                                 *)
LEMMA StatsUpdate ==
  ASSUME TypeOK, NEW n
  PROVE  /\ [stats EXCEPT !.connections = n]
              = [connections |-> n, other |-> stats.other]
         /\ [stats EXCEPT !.other = n]
              = [connections |-> stats.connections, other |-> n]
<1>1. stats \in [connections : 0 .. MaxConns, other : Nat]
  BY DEF TypeOK
<1>2. QED
  BY <1>1, HttpAssumption

LEMMA StatsTypes ==
  ASSUME TypeOK
  PROVE  /\ stats.connections \in 0 .. MaxConns /\ stats.other \in Nat
         /\ stats.connections \in Nat
<1>1. stats \in [connections : 0 .. MaxConns, other : Nat]
  BY DEF TypeOK
<1>2. QED
  BY <1>1, HttpAssumption

LEMMA RunStatsUpdate ==
  ASSUME TypeOK, NEW n
  PROVE  /\ [run_stats EXCEPT !.streams = n]
              = [streams |-> n, frames |-> run_stats.frames]
         /\ [run_stats EXCEPT !.frames = n]
              = [streams |-> run_stats.streams, frames |-> n]
<1>1. run_stats \in [streams : Nat, frames : Nat]
  BY DEF TypeOK
<1>2. QED
  BY <1>1

LEMMA RunStatsTypes ==
  ASSUME TypeOK
  PROVE  run_stats.streams \in Nat /\ run_stats.frames \in Nat
<1>1. run_stats \in [streams : Nat, frames : Nat]
  BY DEF TypeOK
<1>2. QED
  BY <1>1

(* Answering the connection being read.                                     *)
LEMMA AnswerTypes ==
  ASSUME TypeOK, Places, at = "read", NEW CONSTANT served \in Served, Answer(served)
  PROVE  /\ answer' \in [Conns -> Served \cup {"none"}]
         /\ stats' \in [connections : 0 .. MaxConns, other : Nat]
         /\ stats'.connections = stats.connections
         /\ stats'.other = stats.other + 1
         /\ at' = "accept"
         /\ \A c \in Conns : answer'[c] =
              IF c = stats.connections THEN served ELSE answer[c]
<1>1. stats' = [connections |-> stats.connections, other |-> stats.other + 1]
  BY StatsUpdate DEF Answer, CountOther
<1>2. answer \in [Conns -> Served \cup {"none"}]
  BY DEF TypeOK
<1>3. answer' = [answer EXCEPT ![Current] = served] /\ at' = "accept"
  BY DEF Answer
<1>4. /\ stats' \in [connections : 0 .. MaxConns, other : Nat]
      /\ stats'.connections = stats.connections
      /\ stats'.other = stats.other + 1
  BY <1>1, StatsTypes
<1>5. QED
  BY <1>2, <1>3, <1>4 DEF Current

LEMMA TypeStep ==
  ASSUME TypeOK, Places, [Next]_vars
  PROVE  TypeOK'
<1> USE HttpAssumption DEF config, viewers, browser, streams, Running
<1>1. CASE Connect
  <2>1. connected' \in Conns /\ connected' \in 0 .. MaxConns
    BY <1>1 DEF TypeOK, Connect, Conns
  <2>2. <<>> \in Seq(Tokens)
    OBVIOUS
  <2>3. cookie' \in [Conns -> Seq(Tokens)]
    BY <1>1, <2>1, <2>2 DEF TypeOK, Connect
  <2>4. follows' \subseteq Conns
    BY <1>1, <2>1 DEF TypeOK, Connect
  <2>5. QED
    BY <1>1, <2>1, <2>3, <2>4 DEF TypeOK, Connect
<1>2. ASSUME NEW c \in Conns, SendHead(c) PROVE TypeOK'
  BY <1>2 DEF TypeOK, SendHead
<1>3. ASSUME NEW c \in Conns, ReadFrame(c) PROVE TypeOK'
  BY <1>3 DEF TypeOK, ReadFrame
<1>4. ASSUME NEW c \in Conns, Leave(c) PROVE TypeOK'
  BY <1>4 DEF TypeOK, Leave
<1>5. CASE Accept
  <2>1. stats' = [connections |-> stats.connections + 1, other |-> stats.other]
    BY <1>5, StatsUpdate DEF Accept
  <2>2. stats' \in [connections : 0 .. MaxConns, other : Nat]
    <3>1. connected \in 0 .. MaxConns /\ stats.connections < connected
      BY <1>5 DEF Accept, TypeOK
    <3>2. stats.connections + 1 \in 0 .. MaxConns
      BY <3>1, StatsTypes
    <3>3. QED
      BY <2>1, <3>2, StatsTypes
  <2>3. QED
    BY <1>5, <2>2 DEF TypeOK, Accept
<1>6. CASE AcceptFails
  BY <1>6 DEF TypeOK, AcceptFails
<1>7. CASE ReadHead
  <2>1. Current \in Conns /\ sent[Current] \in Nat
    BY <1>7 DEF ReadHead, Places, TypeOK
  <2>2. len' \in 0 .. MaxHead
    BY <1>7, <2>1 DEF ReadHead, Room, TypeOK
  <2>3. QED
    BY <1>7, <2>2 DEF TypeOK, ReadHead
<1>8. CASE HeadTooLong
  BY <1>8, AnswerTypes, "BadRequest" \in Served
     DEF TypeOK, HeadTooLong, Answer, Served
<1>9. CASE HeadCutShort
  <2>1. cut' \subseteq Conns
    BY <1>9 DEF HeadCutShort, Places, TypeOK
  <2>2. QED
    BY <1>9, <2>1, AnswerTypes DEF TypeOK, HeadCutShort, Answer, Served
<1>10. CASE AnswerMalformed
  BY <1>10, AnswerTypes DEF TypeOK, AnswerMalformed, HasRequest, Answer, Served
<1>11. CASE AnswerStatus
  BY <1>11, AnswerTypes DEF TypeOK, AnswerStatus, HasRequest, Answer, Served
<1>12. CASE Forbid
  BY <1>12, AnswerTypes DEF TypeOK, Forbid, HasRequest, Answer, Served
<1>13. CASE AnswerIndex
  <2>1. <<"token">> \in Seq(Tokens)
    BY DEF Tokens
  <2>2. jar' \in Seq(Tokens) /\ opened' \in BOOLEAN
    BY <1>13, <2>1 DEF AnswerIndex, SetCookie, TypeOK
  <2>3. QED
    BY <1>13, <2>2, AnswerTypes
       DEF TypeOK, AnswerIndex, HasRequest, Answer, Served
<1>14. CASE AnswerNotFound
  BY <1>14, AnswerTypes DEF TypeOK, AnswerNotFound, HasRequest, Answer, Served
<1>15. CASE RefuseMethod
  BY <1>15, AnswerTypes DEF TypeOK, RefuseMethod, HasRequest, Answer, Served
<1>16. CASE HandOver
  BY <1>16 DEF TypeOK, HandOver, AfterHandOver, Served
<1>17. ASSUME NEW c \in Conns, WriteHead(c) PROVE TypeOK'
  <2>1. run_stats' \in [streams : Nat, frames : Nat]
    <3>1. run_stats' = [streams |-> run_stats.streams + 1,
                        frames |-> run_stats.frames]
      BY <1>17, RunStatsUpdate DEF WriteHead
    <3>2. QED
      BY <3>1, RunStatsTypes
  <2>2. QED
    BY <1>17, <2>1 DEF TypeOK, WriteHead
<1>18. ASSUME NEW c \in Conns, WriteHeadFails(c) PROVE TypeOK'
  BY <1>18 DEF TypeOK, WriteHeadFails, StreamEnds
<1>19. ASSUME NEW c \in Conns, PushFrame(c) PROVE TypeOK'
  <2>1. run_stats' \in [streams : Nat, frames : Nat]
    <3>1. run_stats' = [streams |-> run_stats.streams,
                        frames |-> run_stats.frames + 1]
      BY <1>19, RunStatsUpdate DEF PushFrame
    <3>2. QED
      BY <3>1, RunStatsTypes
  <2>2. unread' \in [Conns -> 0 .. Window]
    BY <1>19 DEF TypeOK, PushFrame
  <2>3. QED
    BY <1>19, <2>1, <2>2 DEF TypeOK, PushFrame
<1>20. ASSUME NEW c \in Conns, SourceYields(c) \/ ViewerGone(c) PROVE TypeOK'
  BY <1>20 DEF TypeOK, SourceYields, ViewerGone, StreamEnds
<1>21. ASSUME NEW c \in Conns, SourceFails(c) PROVE TypeOK'
  BY <1>21 DEF TypeOK, SourceFails
<1>22. CASE UNCHANGED vars
  BY <1>22 DEF TypeOK, vars
<1>23. QED
  BY <1>1, <1>2, <1>3, <1>4, <1>5, <1>6, <1>7, <1>8, <1>9, <1>10, <1>11,
     <1>12, <1>13, <1>14, <1>15, <1>16, <1>17, <1>18, <1>19, <1>20, <1>21,
     <1>22 DEF Next, ServeRequest, RunStream

------------------------------------------------------------------------------
(* The counters.                                                            *)

(* The actions that answer a request themselves.                            *)
Answers ==
  \/ HeadTooLong \/ HeadCutShort \/ AnswerMalformed \/ AnswerStatus \/ Forbid
  \/ AnswerIndex \/ AnswerNotFound \/ RefuseMethod

(* Each of them answers the connection being read, and moves nothing else   *)
(* but the browser's cookie and the ghosts.                                 *)
LEMMA AnswersAnswer ==
  ASSUME Answers
  PROVE  /\ at = "read"
         /\ \E served \in Served : Answer(served)
         /\ UNCHANGED <<config, viewers, len, streams>>
<1> USE DEF Answer, Served, HasRequest
<1>1. CASE HeadTooLong
  BY <1>1 DEF HeadTooLong
<1>2. CASE HeadCutShort
  BY <1>2 DEF HeadCutShort
<1>3. CASE AnswerMalformed
  BY <1>3 DEF AnswerMalformed
<1>4. CASE AnswerStatus
  BY <1>4 DEF AnswerStatus
<1>5. CASE Forbid
  BY <1>5 DEF Forbid
<1>6. CASE AnswerIndex
  BY <1>6 DEF AnswerIndex
<1>7. CASE AnswerNotFound
  BY <1>7 DEF AnswerNotFound
<1>8. CASE RefuseMethod
  BY <1>8 DEF RefuseMethod
<1>9. QED
  BY <1>1, <1>2, <1>3, <1>4, <1>5, <1>6, <1>7, <1>8 DEF Answers

(* A stream that ends gives the thread back, if it had it.                  *)
LEMMA EndKeepsReading ==
  ASSUME Places, NEW c \in Conns, stream[c] \in Running,
         threaded => at' = at,
         ~ threaded => at' \in {"accept", "stopped"}
  PROVE  at' = "read" <=> at = "read"
  BY DEF Places, Running

LEMMA CountStep ==
  ASSUME TypeOK, CountersAdd, Places, [Next]_vars
  PROVE  CountersAdd'
<1> DEFINE Reading == IF at = "read" THEN 1 ELSE 0
<1>0. /\ In("left") \in Nat /\ In("head") \in Nat
      /\ stats.connections \in Nat /\ stats.other \in Nat
      /\ run_stats.streams \in Nat
  BY InIsNat, StatsTypes, RunStatsTypes
<1>1. ASSUME UNCHANGED <<stats, run_stats, stream>>, at' = "read" <=> at = "read"
      PROVE  CountersAdd'
  <2>1. In("left")' = In("left") /\ In("head")' = In("head")
    BY <1>1, MoveNone
  <2>2. QED
    BY <1>1, <2>1 DEF CountersAdd
<1>2. CASE Accept
  <2>1. In("left")' = In("left") /\ In("head")' = In("head")
    BY <1>2, MoveNone DEF Accept, streams
  <2>2. stats' = [connections |-> stats.connections + 1, other |-> stats.other]
    BY <1>2, StatsUpdate DEF Accept
  <2>3. /\ stats'.connections = stats.connections + 1
        /\ stats'.other = stats.other
    BY <2>2
  <2>4. at = "accept" /\ at' = "read" /\ run_stats' = run_stats
    BY <1>2 DEF Accept, streams
  <2>5. QED
    BY <1>0, <2>1, <2>3, <2>4 DEF CountersAdd
<1>3. CASE Answers
  <2>1. at = "read" /\ UNCHANGED <<stream, run_stats>>
    BY <1>3, AnswersAnswer DEF streams
  <2>2. In("left")' = In("left") /\ In("head")' = In("head")
    BY <2>1, MoveNone
  <2>3. /\ stats'.connections = stats.connections
        /\ stats'.other = stats.other + 1
        /\ at' = "accept"
    BY <1>3, AnswersAnswer, AnswerTypes
  <2>4. QED
    BY <1>0, <2>1, <2>2, <2>3 DEF CountersAdd
<1>4. CASE HandOver
  <2>1. /\ at = "read" /\ at' # "read" /\ UNCHANGED <<stats, run_stats>>
        /\ Current \in Conns /\ stream[Current] = "none"
        /\ stream' = [stream EXCEPT ![Current] = "head"]
    BY <1>4 DEF HandOver, HasRequest, AfterHandOver, Places
  <2>2. In("head")' = In("head") + 1
    BY <2>1, MoveIn
  <2>3. In("left")' = In("left")
    BY <2>1, MoveElsewhere
  <2>4. QED
    BY <1>0, <2>1, <2>2, <2>3 DEF CountersAdd
<1>5. ASSUME NEW c \in Conns, WriteHead(c) PROVE CountersAdd'
  <2>1. /\ UNCHANGED <<stats, at>> /\ stream[c] = "head"
        /\ stream' = [stream EXCEPT ![c] = "frames"]
    BY <1>5 DEF WriteHead
  <2>2. In("head")' = In("head") - 1
    BY <2>1, MoveOut
  <2>3. In("left")' = In("left")
    BY <2>1, MoveElsewhere
  <2>4. run_stats' = [streams |-> run_stats.streams + 1,
                      frames |-> run_stats.frames]
    BY <1>5, RunStatsUpdate DEF WriteHead
  <2>5. run_stats'.streams = run_stats.streams + 1
    BY <2>4
  <2>6. QED
    BY <1>0, <2>1, <2>2, <2>3, <2>5 DEF CountersAdd
<1>6. ASSUME NEW c \in Conns, WriteHeadFails(c) PROVE CountersAdd'
  <2>1. /\ UNCHANGED <<stats, run_stats>> /\ stream[c] = "head"
        /\ stream' = [stream EXCEPT ![c] = "left"]
    BY <1>6 DEF WriteHeadFails, StreamEnds
  <2>2. In("head")' = In("head") - 1
    BY <2>1, MoveOut
  <2>3. In("left")' = In("left") + 1
    BY <2>1, MoveIn
  <2>4. at' = "read" <=> at = "read"
    BY <1>6, <2>1, EndKeepsReading
       DEF WriteHeadFails, StreamEnds, Running
  <2>5. QED
    BY <1>0, <2>1, <2>2, <2>3, <2>4 DEF CountersAdd
<1>7. ASSUME NEW c \in Conns, PushFrame(c) PROVE CountersAdd'
  <2>1. In("left")' = In("left") /\ In("head")' = In("head")
    <3>1. stream[c] = "push" /\ stream' = [stream EXCEPT ![c] = "frames"]
      BY <1>7 DEF PushFrame
    <3>2. QED
      BY <3>1, MoveElsewhere
  <2>2. run_stats' = [streams |-> run_stats.streams,
                      frames |-> run_stats.frames + 1]
    BY <1>7, RunStatsUpdate DEF PushFrame
  <2>3. run_stats'.streams = run_stats.streams /\ UNCHANGED <<stats, at>>
    BY <1>7, <2>2 DEF PushFrame
  <2>4. QED
    BY <2>1, <2>3 DEF CountersAdd
<1>8. ASSUME NEW c \in Conns, ViewerGone(c) \/ SourceFails(c) PROVE CountersAdd'
  <2>1. /\ UNCHANGED <<stats, run_stats>> /\ stream[c] \in {"frames", "push"}
        /\ stream' = [stream EXCEPT ![c] = "ended"]
    BY <1>8 DEF ViewerGone, StreamEnds, SourceFails
  <2>2. In("left")' = In("left") /\ In("head")' = In("head")
    BY <2>1, MoveElsewhere
  <2>3. at' = "read" <=> at = "read"
    BY <1>8, <2>1, EndKeepsReading
       DEF ViewerGone, StreamEnds, SourceFails, Running
  <2>4. QED
    BY <2>1, <2>2, <2>3 DEF CountersAdd
<1>9. CASE Connect \/ AcceptFails \/ ReadHead \/ UNCHANGED vars
  BY <1>1, <1>9 DEF Connect, AcceptFails, ReadHead, vars, streams
<1>10. ASSUME NEW c \in Conns, SendHead(c) \/ ReadFrame(c) \/ Leave(c)
       PROVE  CountersAdd'
  BY <1>1, <1>10 DEF SendHead, ReadFrame, Leave, streams
<1>11. ASSUME NEW c \in Conns, SourceYields(c) PROVE CountersAdd'
  <2>1. /\ UNCHANGED <<stats, run_stats, at>> /\ stream[c] = "frames"
        /\ stream' = [stream EXCEPT ![c] = "push"]
    BY <1>11 DEF SourceYields
  <2>2. In("left")' = In("left") /\ In("head")' = In("head")
    BY <2>1, MoveElsewhere
  <2>3. QED
    BY <2>1, <2>2 DEF CountersAdd
<1>12. QED
  BY <1>2, <1>3, <1>4, <1>5, <1>6, <1>7, <1>8, <1>9, <1>10, <1>11
     DEF Next, ServeRequest, RunStream, Answers

------------------------------------------------------------------------------
(* The accepting thread and the cookies.                                    *)

LEMMA PlacesStep ==
  ASSUME TypeOK, Places, [Next]_vars
  PROVE  Places'
<1> USE StatsTypes DEF config, viewers, browser, streams, Running
<1>0. connected \in 0 .. MaxConns
  BY DEF TypeOK
<1>1. CASE Connect
  BY <1>0, <1>1 DEF Connect, Places, Current
<1>2. CASE Accept
  <2>1. stats' = [connections |-> stats.connections + 1, other |-> stats.other]
    BY <1>2, StatsUpdate DEF Accept
  <2>2. stats'.connections = stats.connections + 1
    BY <2>1
  <2>3. /\ at = "accept" /\ stats.connections < connected
        /\ UNCHANGED <<connected, answer, stream, threaded>>
    BY <1>2 DEF Accept
  <2>4. stats'.connections \in Conns /\ stats'.connections <= connected
    BY <1>0, <2>2, <2>3, HttpAssumption DEF Conns
  <2>5. stream[stats'.connections] = "none"
    BY <2>2, <2>4 DEF Places, Conns
  <2>6. \A c \in Conns : c > stats'.connections =>
                            answer[c] = "none" /\ stream[c] = "none"
    BY <2>2, HttpAssumption DEF Places, Conns
  <2>7. ~ threaded => \A c \in Conns : stream[c] \notin Running
    BY <2>3 DEF Places
  <2>8. QED
    BY <2>3, <2>4, <2>5, <2>6, <2>7, <1>2 DEF Accept, Places, Current
<1>3. CASE Answers
  <2>1. at = "read" /\ UNCHANGED <<stream, connected, threaded>>
    BY <1>3, AnswersAnswer
  <2>2. /\ stats'.connections = stats.connections /\ at' = "accept"
        /\ \A c \in Conns : c # stats.connections => answer'[c] = answer[c]
    BY <1>3, AnswersAnswer, AnswerTypes
  <2>3. QED
    BY <2>1, <2>2 DEF Places, Current, Conns
<1>4. CASE HandOver
  <2>1. /\ at = "read" /\ UNCHANGED <<stats, connected, threaded>>
        /\ at' = (IF threaded THEN "accept" ELSE "stream")
        /\ stream' = [stream EXCEPT ![Current] = "head"]
        /\ answer' = [answer EXCEPT ![Current] = "Stream"]
    BY <1>4 DEF HandOver, HasRequest, AfterHandOver
  <2>2. /\ stream \in [Conns -> {"none", "left", "ended"} \cup Running]
        /\ answer \in [Conns -> Served \cup {"none"}]
    BY DEF TypeOK
  <2>3. QED
    BY <2>1, <2>2 DEF Places, Current, Conns
<1>5. ASSUME NEW c \in Conns, RunStream(c) \/ SourceFails(c) PROVE Places'
  <2>1. /\ UNCHANGED <<stats, connected, threaded, answer>>
        /\ stream[c] \in Running
        /\ \A d \in Conns : d # c => stream'[d] = stream[d]
        /\ stream'[c] \in Running => at' = at
        /\ threaded => at' = at
        /\ at' # at => at' \in {"accept", "stopped"}
    BY <1>5 DEF RunStream, WriteHead, WriteHeadFails, SourceYields,
              PushFrame, ViewerGone,
                SourceFails, StreamEnds, TypeOK
  <2>2. QED
    BY <2>1 DEF Places, Current, Conns
<1>6. CASE AcceptFails \/ ReadHead \/ UNCHANGED vars
  BY <1>6 DEF AcceptFails, ReadHead, vars, Places, Current
<1>7. ASSUME NEW c \in Conns, SendHead(c) \/ ReadFrame(c) \/ Leave(c)
      PROVE  Places'
  BY <1>7 DEF SendHead, ReadFrame, Leave, Places, Current
<1>8. QED
  BY <1>1, <1>2, <1>3, <1>4, <1>5, <1>6, <1>7 DEF Next, ServeRequest, Answers

(* Only Connect and AnswerIndex touch the cookies, and no request, cut or   *)
(* connection made is ever forgotten.                                       *)
LEMMA Untouched ==
  ASSUME [Next]_vars
  PROVE  /\ UNCHANGED config /\ cut \subseteq cut'
         /\ Connect \/ UNCHANGED <<connected, cookie, follows>>
         /\ Connect \/ AnswerIndex \/ UNCHANGED browser
<1> USE DEF viewers
<1>1. CASE ServeRequest
  BY <1>1 DEF ServeRequest, ReadHead, HeadTooLong, HeadCutShort, AnswerMalformed,
              AnswerStatus, Forbid, AnswerIndex, AnswerNotFound, RefuseMethod,
              HandOver, Answer
<1>2. ASSUME NEW c \in Conns, RunStream(c) \/ SourceFails(c)
      PROVE  UNCHANGED <<config, viewers, browser, cut>>
  BY <1>2 DEF RunStream, WriteHead, WriteHeadFails, SourceYields,
              PushFrame, ViewerGone,
              SourceFails, StreamEnds
<1>3. ASSUME NEW c \in Conns, SendHead(c) \/ ReadFrame(c) \/ Leave(c)
      PROVE  UNCHANGED <<config, connected, cookie, follows, browser, cut>>
  BY <1>3 DEF SendHead, ReadFrame, Leave
<1>4. CASE Connect \/ Accept \/ AcceptFails \/ UNCHANGED vars
  BY <1>4 DEF Connect, Accept, AcceptFails, vars
<1>5. QED
  BY <1>1, <1>2, <1>3, <1>4 DEF Next

LEMMA CookiesStep ==
  ASSUME TypeOK, Cookies, [Next]_vars
  PROVE  Cookies'
<1>0. UNCHANGED config
  BY Untouched
<1>1. CASE Connect
  <2>1. /\ connected' = connected + 1 /\ connected \in Nat
        /\ connected' \in Conns /\ UNCHANGED browser
    BY <1>1, HttpAssumption DEF Connect, TypeOK, Conns
  <2>2. \A c \in follows : c \in Conns /\ c # connected'
    BY <2>1 DEF Cookies, TypeOK, Conns
  <2>3. \A c \in follows : cookie'[c] = cookie[c]
    BY <1>1, <2>1, <2>2 DEF Connect, TypeOK
  <2>4. connected' \in follows' => opened /\ cookie'[connected'] = jar
    BY <1>1, <2>1, <2>2 DEF Connect, TypeOK, config
  <2>5. follows' \subseteq follows \cup {connected'}
    BY <1>1 DEF Connect
  <2>6. \A c \in follows' : c <= connected'
    BY <2>1, <2>5 DEF Cookies, TypeOK, Conns
  <2>7. \A c \in follows' : gated => cookie'[c] = <<"token">>
    BY <2>3, <2>4, <2>5 DEF Cookies
  <2>8. QED
    BY <1>0, <2>1, <2>6, <2>7 DEF Cookies, config, browser
<1>2. CASE AnswerIndex
  <2>1. UNCHANGED <<connected, cookie, follows>>
    BY <1>2, Untouched DEF AnswerIndex, Answer, viewers
  <2>2. opened' /\ gated => jar' = <<"token">>
    BY <1>2 DEF AnswerIndex, SetCookie, Cookies, browser
  <2>3. QED
    BY <1>0, <2>1, <2>2 DEF Cookies, config
<1>3. CASE ~ Connect /\ ~ AnswerIndex
  BY <1>0, <1>3, Untouched DEF Cookies, config, browser
<1>4. QED
  BY <1>1, <1>2, <1>3

------------------------------------------------------------------------------
(* The answers.                                                             *)

(* What is promised of the answer `served` to connection c.                 *)
Promised(c, served) ==
  /\ served \in {"Index", "Stream"} => (gated => CarriesToken(c))
  /\ served = "Forbidden" =>
       /\ gated /\ req[c].path # "status"
       /\ c \notin follows \/ req[c].query # <<>>
  /\ served = "BadRequest" =>
       \/ req[c].method = "malformed" \/ req[c].head > MaxHead \/ c \in cut
       \/ has_status /\ req[c].path = "status" /\ ~ req[c].query_ok

(* An answer given stays as promised: its cookie came with the connection.  *)
LEMMA PromiseKept ==
  ASSUME TypeOK, Places, [Next]_vars, NEW c \in Conns, c <= connected,
         NEW CONSTANT served, Promised(c, served)
  PROVE  Promised(c, served)'
<1>1. UNCHANGED config /\ cut \subseteq cut'
  BY Untouched
<1>2. cookie'[c] = cookie[c] /\ (c \in follows' => c \in follows)
  <2>1. CASE Connect
    <3>1. connected' = connected + 1 /\ connected \in Nat /\ c # connected'
      BY <2>1, HttpAssumption DEF Connect, TypeOK, Conns
    <3>2. QED
      BY <2>1, <3>1 DEF Connect, TypeOK
  <2>2. CASE ~ Connect
    BY <2>2, Untouched
  <2>3. QED
    BY <2>1, <2>2
<1>3. CarriesToken(c)' <=> CarriesToken(c)
  BY <1>1, <1>2 DEF CarriesToken, config
<1>4. QED
  BY <1>1, <1>2, <1>3 DEF Promised, config

(* Every way of answering gives what is promised.                           *)
LEMMA AnswerPromised ==
  ASSUME TypeOK, Places, Cookies, Answers
  PROVE  \E served : Answer(served) /\ Promised(Current, served)'
<1>0. at = "read" /\ Current \in Conns
  BY AnswersAnswer DEF Places
<1>1. /\ UNCHANGED <<config, cookie, follows>>
  BY AnswersAnswer DEF viewers
<1>2. Current' = Current
  <2>1. stats'.connections = stats.connections
    BY AnswersAnswer, AnswerTypes
  <2>2. QED
    BY <2>1 DEF Current
<1>3. /\ len \in Nat /\ MaxHead \in Nat /\ Asked.head \in Nat
      /\ req[Current] \in Request
  BY <1>0, HttpAssumption DEF TypeOK, Asked, Request
<1>4. gated /\ Admitted => CarriesToken(Current)'
  BY <1>0, <1>1, <1>2, AdmittedCarries DEF CarriesToken, config
<1>5. ~ Admitted => gated /\ (Current \notin follows \/ req[Current].query # <<>>)
  BY FollowerAdmitted DEF Admitted
<1> USE <1>1, <1>2 DEF Promised, Asked, config
<1>6. CASE HeadTooLong
  <2>1. Answer("BadRequest")
    BY <1>6 DEF HeadTooLong
  <2>2. Promised(Current, "BadRequest")'
    BY <1>3, <1>6 DEF HeadTooLong, HeadComplete
  <2>3. QED
    BY <2>1, <2>2
<1>7. CASE HeadCutShort
  <2>1. Answer("BadRequest")
    BY <1>7 DEF HeadCutShort
  <2>2. Promised(Current, "BadRequest")'
    BY <1>7 DEF HeadCutShort
  <2>3. QED
    BY <2>1, <2>2
<1>8. CASE AnswerMalformed
  <2>1. Answer("BadRequest")
    BY <1>8 DEF AnswerMalformed
  <2>2. Promised(Current, "BadRequest")'
    BY <1>8 DEF AnswerMalformed
  <2>3. QED
    BY <2>1, <2>2
<1>9. CASE AnswerStatus
  <2>1. CASE ~ has_status
    <3>1. Answer("NotFound") /\ Promised(Current, "NotFound")'
      BY <1>9, <2>1 DEF AnswerStatus
    <3>2. QED
      BY <3>1
  <2>2. CASE has_status /\ req[Current].query_ok
    <3>1. Answer("Status") /\ Promised(Current, "Status")'
      BY <1>9, <2>2 DEF AnswerStatus
    <3>2. QED
      BY <3>1
  <2>3. CASE has_status /\ ~ req[Current].query_ok
    <3>1. Answer("BadRequest")
      BY <1>9, <2>3 DEF AnswerStatus
    <3>2. Promised(Current, "BadRequest")'
      BY <1>9, <2>3 DEF AnswerStatus, Gets
    <3>3. QED
      BY <3>1, <3>2
  <2>4. QED
    BY <2>1, <2>2, <2>3
<1>10. CASE Forbid
  <2>1. Answer("Forbidden")
    BY <1>10 DEF Forbid
  <2>2. Promised(Current, "Forbidden")'
    BY <1>5, <1>10 DEF Forbid, Gets
  <2>3. QED
    BY <2>1, <2>2
<1>11. CASE AnswerIndex
  <2>1. Answer("Index")
    BY <1>11 DEF AnswerIndex
  <2>2. Promised(Current, "Index")'
    BY <1>4, <1>11 DEF AnswerIndex
  <2>3. QED
    BY <2>1, <2>2
<1>12. CASE AnswerNotFound
  <2>1. Answer("NotFound")
    BY <1>12 DEF AnswerNotFound
  <2>2. Promised(Current, "NotFound")'
    BY <1>12 DEF AnswerNotFound
  <2>3. QED
    BY <2>1, <2>2
<1>13. CASE RefuseMethod
  <2>1. Answer("MethodNotAllowed")
    BY <1>13 DEF RefuseMethod
  <2>2. Promised(Current, "MethodNotAllowed")'
    BY <1>13 DEF RefuseMethod
  <2>3. QED
    BY <2>1, <2>2
<1>14. QED
  BY <1>6, <1>7, <1>8, <1>9, <1>10, <1>11, <1>12, <1>13 DEF Answers

LEMMA AnswersStep ==
  ASSUME TypeOK, Places, Cookies, AnswersArePromised, [Next]_vars
  PROVE  AnswersArePromised'
<1>1. SUFFICES ASSUME NEW c \in Conns, NEW CONSTANT served, served = answer'[c]
               PROVE  Promised(c, served)'
  BY <1>1 DEF AnswersArePromised, Promised
<1>3. answer \in [Conns -> Served \cup {"none"}]
  BY DEF TypeOK
<1>4. CASE served = answer[c]
  <2>1. Promised(c, served)
    BY <1>4 DEF AnswersArePromised, Promised
  <2>2. CASE c <= connected
    BY <2>1, <2>2, PromiseKept
  <2>3. CASE ~ (c <= connected)
    <3>1. c > stats.connections
      BY <2>3, StatsTypes, HttpAssumption DEF Places, TypeOK, Conns
    <3>2. served = "none"
      BY <1>4, <3>1 DEF Places
    <3>3. QED
      BY <3>2 DEF Promised
  <2>4. QED
    BY <2>2, <2>3
<1>5. CASE Answers
  <2>1. PICK s : Answer(s) /\ Promised(Current, s)'
    BY <1>5, AnswerPromised
  <2>2. answer' = [answer EXCEPT ![Current] = s]
    BY <2>1 DEF Answer
  <2>3. CASE c = Current
    <3>1. served = s
      BY <1>1, <1>3, <2>2, <2>3
    <3>2. stats'.connections = stats.connections
      BY <1>5, AnswersAnswer, AnswerTypes
    <3>3. Current' = c
      BY <2>3, <3>2 DEF Current
    <3>4. QED
      BY <2>1, <3>1, <3>3 DEF Promised, CarriesToken
  <2>4. CASE c # Current
    BY <1>1, <1>3, <1>4, <2>2, <2>4
  <2>5. QED
    BY <2>3, <2>4
<1>6. CASE HandOver
  <2>1. answer' = [answer EXCEPT ![Current] = "Stream"]
    BY <1>6 DEF HandOver
  <2>2. CASE c = Current
    <3>1. served = "Stream"
      BY <1>1, <1>3, <2>1, <2>2
    <3>2. gated => CarriesToken(c)
      BY <1>6, <2>2, AdmittedCarries DEF HandOver
    <3>3. UNCHANGED <<gated, req, cookie>>
      BY <1>6 DEF HandOver, config, viewers
    <3>4. (gated => CarriesToken(c))'
      BY <3>2, <3>3 DEF CarriesToken
    <3>5. QED
      BY <3>1, <3>4 DEF Promised
  <2>3. CASE c # Current
    BY <1>1, <1>3, <1>4, <2>1, <2>3
  <2>4. QED
    BY <2>2, <2>3
<1>7. CASE ReadHead \/ Accept \/ AcceptFails \/ Connect \/ UNCHANGED vars
  BY <1>1, <1>4, <1>7 DEF ReadHead, Accept, AcceptFails, Connect, vars
<1>8. ASSUME NEW d \in Conns, SendHead(d) \/ ReadFrame(d) \/ Leave(d)
      PROVE  answer' = answer
  BY <1>8 DEF SendHead, ReadFrame, Leave
<1>9. ASSUME NEW d \in Conns, RunStream(d) \/ SourceFails(d)
      PROVE  answer' = answer
  BY <1>9 DEF RunStream, WriteHead, WriteHeadFails, SourceYields,
              PushFrame, ViewerGone,
              SourceFails, StreamEnds
<1>10. QED
  BY <1>1, <1>4, <1>5, <1>6, <1>7, <1>8, <1>9 DEF Next, ServeRequest, Answers

------------------------------------------------------------------------------
(* Every state the server reaches satisfies ServerInv.                      *)
THEOREM HttpServerInvariant == Spec => []ServerInv
<1>1. ServerInv /\ [Next]_vars => ServerInv'
  <2> SUFFICES ASSUME ServerInv, [Next]_vars PROVE ServerInv'
    OBVIOUS
  <2>1. TypeOK'
    BY TypeStep DEF ServerInv, HttpInv
  <2>2. CountersAdd'
    BY CountStep DEF ServerInv, HttpInv
  <2>3. AnswersArePromised'
    BY AnswersStep DEF ServerInv, HttpInv
  <2>4. Places' /\ Cookies'
    BY PlacesStep, CookiesStep DEF ServerInv, HttpInv
  <2>5. QED
    BY <2>1, <2>2, <2>3, <2>4 DEF ServerInv, HttpInv
<1>2. QED
  BY InitServer, <1>1, PTL DEF Spec

(* Type correctness, and that every connection accepted is counted exactly  *)
(* once (net.rs:28-50).                                                     *)
THEOREM HttpServerCounts == Spec => []HttpInv
<1>1. ServerInv => HttpInv
  BY DEF ServerInv
<1>2. QED
  BY HttpServerInvariant, <1>1, PTL

(* The gate lets through only what carries the token, and never refuses a   *)
(* browser that was given the page the picture the page asks for; a request *)
(* refused as bad is one (net.rs:168-171, :306-308, http.rs:406-407).       *)
THEOREM HttpServerAnswers == Spec => []AnswersArePromised
<1>1. ServerInv => AnswersArePromised
  BY DEF ServerInv
<1>2. QED
  BY HttpServerInvariant, <1>1, PTL

===============================================================================
