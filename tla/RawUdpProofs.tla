------------------------------ MODULE RawUdpProofs ------------------------------
(* Whole packets or none, for every packet size, datagram size, buffer and  *)
(* number of packets, losses and failures, on a network that reorders; that *)
(* raw packets over UDP implement the packet channel; and that on an        *)
(* ordered network the counters are exact and packets come in order.        *)
EXTENDS RawUdp, FiniteSetTheorems, TLAPS

LEMMA ModBound ==
  ASSUME NEW m \in Nat \ {0}, NEW n \in Nat
  PROVE  n % m \in 0 .. m - 1
  OBVIOUS

LEMMA ModSmall ==
  ASSUME NEW m \in Nat \ {0}, NEW n \in 0 .. m - 1
  PROVE  n % m = n
  OBVIOUS

(* What the next datagram is: the next bytes of the packet being framed.    *)
LEMMA NextDatagramIs ==
  ASSUME TypeOK, CursorInPacket, busy
  PROVE  /\ NextDatagram \in Datagram
         /\ Take \in Nat
         /\ NextDatagram.pkt = framed /\ NextDatagram.seq = seqOf
         /\ NextDatagram.total = size[framed]
         /\ NextDatagram.off = cursor /\ NextDatagram.len = Take
         /\ cursor + Take <= size[framed]
         /\ cursor' = cursor + Take => cursor' \in Nat
<1>1. /\ framed \in Packets /\ framed \in Nat /\ size[framed] \in Nat
      /\ cursor \in Nat /\ cursor <= size[framed] /\ seqOf \in Nat
  BY BoundsAssumption, SeqModAssumption DEF TypeOK, CursorInPacket, Packets
<1>2. Take \in Nat /\ cursor + Take <= size[framed]
  BY <1>1, PayloadMaxAssumption DEF Take, SmallerOf
<1>3. QED
  BY <1>1, <1>2 DEF NextDatagram, Datagram

------------------------------------------------------------------------------
(* Types.                                                                   *)

LEMMA InitType == Init => TypeOK
<1> SUFFICES ASSUME Init PROVE TypeOK
  OBVIOUS
<1> USE SizesAssumption, SeqModAssumption, BoundsAssumption
<1>1. /\ size \in [Packets -> Nat] /\ framed = 0 /\ nextSeq = 0 /\ seqOf = 0
      /\ busy = FALSE /\ cursor = 0 /\ net = {} /\ listening = TRUE
  BY DEF Init
<1>2. tx \in [packets : Nat, frames : Nat, dropped : Nat]
  BY DEF Init
<1>3. faults \in [FaultKinds -> Nat]
  BY DEF Init
<1>4. rx \in [packets : Nat, bad : Nat]
  BY DEF Init
<1>5. /\ got \subseteq Nat /\ delivered \subseteq Nat /\ abandoned \subseteq Nat
      /\ whole \subseteq Nat /\ mixed \subseteq Nat /\ hurt \subseteq Nat
  BY DEF Init
<1>6. /\ buf \in [0 .. BufSize - 1 -> Nat]
      /\ current \in Datagram \cup {NoPacket}
      /\ received \in Nat /\ complete \in Nat /\ lost \in Nat
      /\ result \in Returned
  BY DEF Init, ReassemblerInit, Returned
<1>7. /\ framed \in 0 .. MaxPackets /\ cursor \in Nat
      /\ nextSeq \in 0 .. SeqMod - 1 /\ seqOf \in 0 .. SeqMod - 1
  <2>1. 0 \in 0 .. MaxPackets /\ 0 \in 0 .. SeqMod - 1
    OBVIOUS
  <2>2. QED
    BY <1>1, <2>1
<1>8. size \in [Packets -> Nat]
  BY <1>1
<1>9. /\ net \subseteq Datagram /\ listening \in BOOLEAN
      /\ busy \in BOOLEAN /\ (busy => framed \in Packets)
  BY <1>1, Zenon
<1> HIDE SizesAssumption, SeqModAssumption, BoundsAssumption
<1>10. QED
  BY <1>2, <1>3, <1>4, <1>5, <1>6, <1>7, <1>8, <1>9 DEF TypeOK

LEMMA HappensType ==
  ASSUME TypeOK, NEW k \in FaultKinds, Happens(k)
  PROVE  faults' \in [FaultKinds -> Nat]
  BY DEF TypeOK, Happens

LEMMA SenderType ==
  ASSUME TypeOK, CursorInPacket,
         BudgetRefuses \/ BeginFrame \/ Emit \/ EmitFails \/ Restart
  PROVE  TypeOK'
<1> USE PayloadMaxAssumption, SeqModAssumption, BoundsAssumption
<1> DEFINE Tx == [packets : Nat, frames : Nat, dropped : Nat]
<1>0. tx \in Tx /\ tx.packets \in Nat /\ tx.frames \in Nat /\ tx.dropped \in Nat
  BY DEF TypeOK
<1>1. CASE BudgetRefuses
  <2>1. tx' \in Tx
    BY <1>0, <1>1 DEF BudgetRefuses
  <2>2. QED
    BY <1>1, <2>1 DEF TypeOK, BudgetRefuses, Packets, rxVars, ghosts
<1>2. CASE BeginFrame
  <2>1. nextSeq' \in 0 .. SeqMod - 1
    BY <1>2, ModBound DEF TypeOK, BeginFrame, SeqAfter
  <2>2. framed' \in Packets /\ framed' \in 0 .. MaxPackets
    BY <1>2 DEF TypeOK, BeginFrame, Packets
  <2>3. QED
    BY <1>2, <2>1, <2>2 DEF TypeOK, BeginFrame, Packets, rxVars, ghosts
<1>3. CASE Emit
  <2>1. net' \subseteq Datagram /\ cursor' \in Nat
    BY <1>3, NextDatagramIs DEF TypeOK, Emit
  <2>2. busy' \in BOOLEAN /\ (busy' => framed' \in Packets)
    BY <1>3 DEF TypeOK, Emit, LastDatagram
  <2>3. tx' \in Tx
    BY <1>0, <1>3 DEF Emit
  <2>4. QED
    BY <1>3, <2>1, <2>2, <2>3 DEF TypeOK, Emit, Packets, rxVars, ghosts
<1>4. CASE EmitFails
  <2>1. faults' \in [FaultKinds -> Nat]
    BY <1>4, HappensType DEF EmitFails, FaultKinds
  <2>2. hurt' \subseteq Nat /\ busy' = FALSE
    BY <1>4 DEF TypeOK, EmitFails
  <2>3. QED
    BY <1>4, <2>1, <2>2 DEF TypeOK, EmitFails, Packets, rxVars, ghosts
<1>5. CASE Restart
  <2>1. faults' \in [FaultKinds -> Nat]
    BY <1>5, HappensType DEF Restart, FaultKinds
  <2>2. tx' \in Tx /\ hurt' \subseteq Nat /\ nextSeq' \in 0 .. SeqMod - 1
        /\ busy' = FALSE
    BY <1>5 DEF TypeOK, Restart
  <2>3. QED
    BY <1>5, <2>1, <2>2 DEF TypeOK, Restart, Packets, rxVars, ghosts
<1>6. QED
  BY <1>1, <1>2, <1>3, <1>4, <1>5

LEMMA LoseType ==
  ASSUME TypeOK, NEW d \in net, Lose(d)
  PROVE  TypeOK'
<1>1. faults' \in [FaultKinds -> Nat]
  BY HappensType DEF Lose, FaultKinds
<1>2. net' \subseteq Datagram /\ hurt' \subseteq Nat
  BY DEF TypeOK, Lose, Datagram
<1>3. UNCHANGED <<size, txVars, listening, rx, ghosts, rxVars>>
  BY DEF Lose
<1>4. QED
  BY <1>1, <1>2, <1>3 DEF TypeOK, Packets, txVars, rxVars, ghosts

LEMMA ReceiveType ==
  ASSUME TypeOK, NEW d \in net, Receive(d),
         net' \subseteq net,
         faults' \in [FaultKinds -> Nat], hurt' \subseteq Nat
  PROVE  TypeOK'
<1>1. /\ d \in Datagram /\ d.pkt \in Nat /\ d.len \in Nat /\ d.off \in Nat
      /\ d.total \in Nat
  BY DEF TypeOK, Datagram
<1>2. rx' \in [packets : Nat, bad : Nat]
  BY DEF TypeOK, Receive
<1>3. /\ UNCHANGED <<size, txVars, listening>>
      /\ TrackGhosts(d)
  BY DEF Receive
<1>4. CASE Refuse(d)
  BY <1>1, <1>2, <1>3, <1>4
  DEF Refuse, TrackGhosts, TypeOK, Returned, txVars, ghosts, Packets
<1>5. CASE Accept(d)
  <2>1. buf' \in [0 .. BufSize - 1 -> Nat]
    BY <1>1, <1>5 DEF Accept, TypeOK
  <2>2. current' \in Datagram \cup {NoPacket}
    BY <1>1, <1>5 DEF Accept, CurrentAfter, TypeOK
  <2>3. received' \in Nat /\ lost' \in Nat /\ complete' \in Nat
    <3>1. received \in Nat /\ lost \in Nat /\ complete \in Nat
      BY DEF TypeOK
    <3>2. Count(d) \in Nat
      BY <1>1, <3>1 DEF Count
    <3>3. QED
      BY <1>5, <3>1, <3>2 DEF Accept
  <2>4. Abandons(d) => current.pkt \in Nat
    BY DEF Abandons, TypeOK, Datagram
  <2>5. result' \in Returned
    BY <1>1, <1>5, <2>4 DEF Accept, Outcome, Returned
  <2>6. /\ got' \subseteq Nat /\ delivered' \subseteq Nat
        /\ abandoned' \subseteq Nat /\ whole' \subseteq Nat /\ mixed' \subseteq Nat
    <3>1. Span(d) \subseteq Nat
      BY <1>1 DEF Span
    <3>2. /\ got \subseteq Nat /\ delivered \subseteq Nat
          /\ abandoned \subseteq Nat /\ whole \subseteq Nat /\ mixed \subseteq Nat
      BY DEF TypeOK
    <3>3. ~ Refused(d)
      BY <1>5 DEF Accept
    <3>4. QED
      BY <1>1, <1>3, <2>4, <3>1, <3>2, <3>3 DEF TrackGhosts
  <2>7. QED
    BY <1>2, <1>3, <2>1, <2>2, <2>3, <2>5, <2>6 DEF TypeOK, txVars, Packets
<1>6. QED
  BY <1>4, <1>5 DEF Receive, Push

LEMMA ReceiverType ==
  ASSUME TypeOK,
         \/ \E d \in Deliverable : Deliver(d) \/ DeliverAndKeep(d)
         \/ ReceiveStray \/ StopReceiving
  PROVE  TypeOK'
<1>1. ASSUME NEW d \in net, Deliver(d) \/ DeliverAndKeep(d)
      PROVE  TypeOK'
  <2>1. Receive(d) /\ net' \subseteq net
    BY <1>1 DEF Deliver, DeliverAndKeep
  <2>2. faults' \in [FaultKinds -> Nat] /\ hurt' \subseteq Nat
    <3>1. d.pkt \in Nat /\ hurt \subseteq Nat
      BY DEF TypeOK, Datagram
    <3>2. hurt' \subseteq Nat
      BY <1>1, <3>1 DEF Deliver, DeliverAndKeep
    <3>3. QED
      BY <1>1, <3>2, HappensType DEF Deliver, DeliverAndKeep, FaultKinds, TypeOK
  <2>3. QED
    BY <2>1, <2>2, ReceiveType
<1>2. CASE ReceiveStray
  <2>1. rx' \in [packets : Nat, bad : Nat]
    <3>1. rx \in [packets : Nat, bad : Nat]
      BY DEF TypeOK
    <3>2. rx' = [packets |-> rx.packets + 1, bad |-> rx.bad + 1]
      BY <1>2 DEF ReceiveStray
    <3>3. QED
      BY <3>1, <3>2
  <2>2. result' \in Returned
    BY <1>2 DEF ReceiveStray, PushUnparsable, Returned
  <2>3. UNCHANGED <<size, txVars, net, faults, listening, ghosts, hurt, buf,
                    current, received, complete, lost>>
    BY <1>2 DEF ReceiveStray, PushUnparsable
  <2>4. QED
    BY <2>1, <2>2, <2>3 DEF TypeOK, txVars, ghosts, Packets
<1>3. CASE StopReceiving
  BY <1>3 DEF StopReceiving, TypeOK, txVars, ghosts, rxVars, Packets
<1>4. QED
  BY <1>1, <1>2, <1>3 DEF Deliverable

------------------------------------------------------------------------------
(* Datagrams in flight.                                                     *)

NetInv == NetOfFramed /\ NetDisjoint /\ CursorInPacket

LEMMA EmitNet ==
  ASSUME TypeOK, NetInv, Emit
  PROVE  NetInv'
<1>1. CursorInPacket /\ busy
  BY DEF NetInv, Emit
<1>2. /\ net' = net \cup {NextDatagram} /\ cursor' = cursor + Take
      /\ size' = size /\ framed' = framed /\ (busy' => busy)
  BY <1>1 DEF Emit
<1> DEFINE n == NextDatagram
<1>3. /\ n \in Datagram /\ Take \in Nat
      /\ n.pkt = framed /\ n.total = size[framed] /\ n.off = cursor
      /\ n.len = Take /\ cursor + Take <= size[framed]
  BY <1>1, NextDatagramIs
<1> HIDE DEF n
<1>4. framed \in 1 .. framed /\ framed \in Nat /\ cursor \in Nat
  BY <1>1, BoundsAssumption DEF TypeOK, Packets
<1>5. \A d \in net : /\ d.off \in Nat /\ d.len \in Nat
                     /\ d.pkt = framed => d.off + d.len <= cursor
  BY <1>1 DEF TypeOK, Datagram, NetInv, NetOfFramed
<1>6. NetOfFramed'
  BY <1>1, <1>2, <1>3, <1>4, <1>5 DEF NetInv, NetOfFramed, n
<1>7. NetDisjoint'
  BY <1>2, <1>3, <1>4, <1>5 DEF NetInv, NetDisjoint, n
<1>8. CursorInPacket'
  BY <1>2, <1>3 DEF CursorInPacket
<1>9. QED
  BY <1>6, <1>7, <1>8 DEF NetInv

LEMMA BeginNet ==
  ASSUME TypeOK, NetInv, BeginFrame
  PROVE  NetInv'
<1>1. /\ framed' = framed + 1 /\ net' = net /\ size' = size /\ cursor' = 0
      /\ framed \in Nat /\ framed' \in Packets
  BY BoundsAssumption DEF BeginFrame, TypeOK, Packets
<1>2. NetOfFramed'
  BY <1>1 DEF NetInv, NetOfFramed
<1>3. NetDisjoint'
  BY <1>1 DEF NetInv, NetDisjoint
<1>4. CursorInPacket'
  BY <1>1 DEF CursorInPacket, TypeOK
<1>5. QED
  BY <1>2, <1>3, <1>4 DEF NetInv

(* Every other step takes datagrams away at most, and ends a frame at most. *)
LEMMA OtherNet ==
  ASSUME NetInv, net' \subseteq net, UNCHANGED <<size, framed, cursor>>,
         busy' => busy
  PROVE  NetInv'
  BY DEF NetInv, NetOfFramed, NetDisjoint, CursorInPacket

LEMMA NextNet ==
  ASSUME TypeOK, NetInv, [Next]_vars
  PROVE  NetInv'
<1>1. CASE BeginFrame
  BY <1>1, BeginNet
<1>2. CASE Emit
  BY <1>2, EmitNet
<1>3. CASE ~ BeginFrame /\ ~ Emit
  <2>1. net' \subseteq net
    BY <1>3 DEF Next, BudgetRefuses, EmitFails, Restart, Lose, Deliver,
                DeliverAndKeep, ReceiveStray, StopReceiving, vars
  <2>2. ASSUME UNCHANGED <<size, txVars>>
        PROVE  UNCHANGED <<size, framed, cursor>> /\ (busy' => busy)
    BY <2>2 DEF txVars
  <2>3. UNCHANGED <<size, framed, cursor>> /\ (busy' => busy)
    <3>1. CASE BudgetRefuses
      BY <3>1 DEF BudgetRefuses
    <3>2. CASE EmitFails
      BY <3>2 DEF EmitFails
    <3>3. CASE Restart
      BY <3>3 DEF Restart
    <3>4. ASSUME NEW d \in net, Lose(d)
          PROVE  UNCHANGED <<size, txVars>>
      BY <3>4 DEF Lose
    <3>5. ASSUME NEW d \in Deliverable, Deliver(d) \/ DeliverAndKeep(d)
          PROVE  UNCHANGED <<size, txVars>>
      BY <3>5 DEF Deliver, DeliverAndKeep, Receive
    <3>6. CASE ReceiveStray \/ StopReceiving \/ UNCHANGED vars
      BY <3>6, <2>2 DEF ReceiveStray, StopReceiving, vars
    <3>7. QED
      BY <1>3, <2>2, <3>1, <3>2, <3>3, <3>4, <3>5, <3>6 DEF Next
  <2>4. QED
    BY <2>1, <2>3, OtherNet
<1>4. QED
  BY <1>1, <1>2, <1>3

LEMMA NextType ==
  ASSUME TypeOK, CursorInPacket, [Next]_vars
  PROVE  TypeOK'
<1>1. CASE BudgetRefuses \/ BeginFrame \/ Emit \/ EmitFails \/ Restart
  BY <1>1, SenderType
<1>2. ASSUME NEW d \in net, Lose(d)
      PROVE  TypeOK'
  BY <1>2, LoseType
<1>3. CASE \/ \E d \in Deliverable : Deliver(d) \/ DeliverAndKeep(d)
           \/ ReceiveStray \/ StopReceiving
  BY <1>3, ReceiverType
<1>4. CASE UNCHANGED vars
  BY <1>4 DEF TypeOK, vars, txVars, rxVars, ghosts, Packets
<1>5. QED
  BY <1>1, <1>2, <1>3, <1>4 DEF Next

LEMMA InitNet == Init => NetInv
  BY DEF Init, NetInv, NetOfFramed, NetDisjoint, CursorInPacket

(* Every variable has its type at all times, and what is in flight of a     *)
(* packet are disjoint pieces of what has been sent of it.                  *)
THEOREM RawUdpTypes == Spec => [](TypeOK /\ NetInv)
<1>1. Init => TypeOK /\ NetInv
  BY InitType, InitNet
<1>2. TypeOK /\ NetInv /\ [Next]_vars => TypeOK' /\ NetInv'
  BY NextType, NextNet DEF NetInv
<1>3. QED
  BY <1>1, <1>2, PTL DEF Spec

------------------------------------------------------------------------------
(* Whole packets or none.                                                   *)

WholeInv == SeqNamesPacket /\ CountIsArrived /\ NothingTwice /\ CompleteIsWhole

LEMMA IntervalSize ==
  ASSUME NEW a \in Nat, NEW n \in Nat
  PROVE  IsFiniteSet(a .. a + n - 1) /\ Cardinality(a .. a + n - 1) = n
<1> DEFINE b == a + n - 1
<1>1. a \in Int /\ b \in Int /\ (IF a > b THEN 0 ELSE b - a + 1) = n
  OBVIOUS
<1> HIDE DEF b
<1>2. IsFiniteSet(a .. b) /\ Cardinality(a .. b) = IF a > b THEN 0 ELSE b - a + 1
  BY <1>1, FS_Interval, Zenon
<1>3. IsFiniteSet(a .. b) /\ Cardinality(a .. b) = n
  BY <1>1, <1>2
<1>4. QED
  BY <1>3 DEF b

LEMMA SpanSize ==
  ASSUME NEW d \in Datagram
  PROVE  /\ IsFiniteSet(Span(d)) /\ Cardinality(Span(d)) = d.len
         /\ Span(d) \subseteq Nat
<1>1. d.off \in Nat /\ d.len \in Nat
  BY DEF Datagram
<1>2. IsFiniteSet(Span(d)) /\ Cardinality(Span(d)) = d.len
  BY <1>1, IntervalSize DEF Span
<1>3. Span(d) \subseteq Nat
  BY <1>1 DEF Span
<1>4. QED
  BY <1>2, <1>3

(* A set of n numbers below n is all of them.                               *)
LEMMA AllArrived ==
  ASSUME NEW n \in Nat, NEW S \in SUBSET (0 .. n - 1), Cardinality(S) >= n
  PROVE  S = 0 .. n - 1
<1> DEFINE T == 0 .. n - 1
<1>1. IsFiniteSet(T) /\ Cardinality(T) = n
  <2>1. 0 + n - 1 = n - 1
    OBVIOUS
  <2>2. QED
    BY <2>1, IntervalSize
<1> HIDE DEF T
<1>2. S \in SUBSET T
  BY DEF T
<1>3. /\ IsFiniteSet(S) /\ Cardinality(S) <= Cardinality(T)
      /\ Cardinality(T) = Cardinality(S) => T = S
  BY <1>1, <1>2, FS_Subset, Zenon
<1>4. Cardinality(S) \in Nat
  BY <1>3, FS_CardinalityType
<1>5. Cardinality(T) = Cardinality(S)
  BY <1>1, <1>3, <1>4
<1>6. QED
  BY <1>3, <1>5 DEF T

LEMMA InitWhole == Init => WholeInv
  BY DEF Init, ReassemblerInit, WholeInv, SeqNamesPacket, CountIsArrived,
         NothingTwice, CompleteIsWhole

(* One datagram received: the bytes counted stay the bytes that arrived.    *)
LEMMA AcceptWhole ==
  ASSUME TypeOK, NetInv, WholeInv, NEW d \in net, Accept(d), TrackGhosts(d),
         net' = net \ {d}, UNCHANGED <<size, txVars>>
  PROVE  WholeInv'
<1> DEFINE G == IF Starts(d) THEN {} ELSE got
           n == size[d.pkt]
<1>1. /\ d \in Datagram /\ d.pkt \in Nat /\ d.seq \in Nat /\ d.off \in Nat
      /\ d.len \in Nat /\ d.total \in Nat
  BY DEF TypeOK, Datagram
<1>2. /\ d.pkt \in 1 .. framed /\ d.seq = d.pkt - 1 /\ d.total = n /\ n \in Nat
      /\ d.off + d.len <= n /\ n <= BufSize
  <2>1. d.pkt \in 1 .. framed /\ d.total = n /\ d.off + d.len <= d.total
    BY DEF NetInv, NetOfFramed
  <2>2. d.seq = d.pkt - 1
    BY DEF WholeInv, SeqNamesPacket
  <2>3. d.pkt \in Packets /\ n \in Nat
    BY <2>1, BoundsAssumption DEF TypeOK, Packets
  <2>4. d.total <= BufSize
    BY <1>1, BufSizeAssumption DEF Accept, Refused
  <2>5. QED
    BY <2>1, <2>2, <2>3, <2>4
<1>3. ~ Starts(d) => current # NoPacket /\ current.pkt = d.pkt
                     /\ current.seq = d.seq
  <2>1. current # NoPacket => current.pkt \in Nat /\ current.seq = current.pkt - 1
    BY DEF TypeOK, Datagram, WholeInv, SeqNamesPacket
  <2>2. ~ Starts(d) => current # NoPacket /\ current.seq = d.seq
    BY Zenon DEF Starts, Abandons
  <2>3. \A a, b \in Nat : a - 1 = b - 1 => a = b
    OBVIOUS
  <2>4. d.seq = d.pkt - 1 /\ d.pkt \in Nat
    BY <1>1, <1>2
  <2>5. QED
    BY <2>1, <2>2, <2>3, <2>4, Zenon
<1>4. /\ framed' = framed /\ size' = size /\ busy' = busy /\ cursor' = cursor
      /\ nextSeq' = nextSeq /\ seqOf' = seqOf
  BY DEF txVars
<1>5. /\ G \subseteq 0 .. n - 1
      /\ Count(d) = Cardinality(G) + d.len
      /\ \A i \in G : buf[i] = d.pkt
      /\ \A e \in net : e.pkt = d.pkt => G \cap Span(e) = {}
      /\ busy /\ d.pkt = framed => \A i \in G : i < cursor
  <2>1. CASE Starts(d)
    BY <2>1, <1>1, FS_EmptySet DEF Count
  <2>2. CASE ~ Starts(d)
    BY <2>2, <1>3 DEF Count, WholeInv, CountIsArrived, NothingTwice
  <2>3. QED
    BY <2>1, <2>2
<1> HIDE DEF G
<1>6. Span(d) \subseteq 0 .. n - 1 /\ IsFiniteSet(Span(d))
      /\ Cardinality(Span(d)) = d.len
  BY <1>1, <1>2, SpanSize DEF Span
<1>7. got' = G \cup Span(d)
  BY DEF TrackGhosts, Accept, G
<1>8. got' \subseteq 0 .. n - 1
  BY <1>5, <1>6, <1>7
<1>9. Cardinality(got') = Count(d)
  <2>1. IsFiniteSet(G) /\ Cardinality(G) \in Nat
    <3>1. IsFiniteSet(0 .. n - 1)
      BY <1>2, FS_Interval
    <3>2. QED
      BY <1>5, <3>1, FS_Subset, FS_CardinalityType
  <2>2. G \cap Span(d) = {}
    BY <1>5
  <2>3. Cardinality(G \cup Span(d)) = Cardinality(G) + Cardinality(Span(d)) - 0
    BY <1>6, <2>1, <2>2, FS_Union, FS_EmptySet
  <2>4. QED
    BY <1>1, <1>5, <1>6, <1>7, <2>1, <2>3
<1>10. \A i \in got' : buf'[i] = d.pkt
  <2>1. \A i \in 0 .. n - 1 : i \in DOMAIN buf
    BY <1>2, BufSizeAssumption DEF TypeOK
  <2>2. QED
    BY <1>5, <1>7, <1>8, <2>1 DEF Accept
<1>11. /\ received' = Count(d)
       /\ current' # NoPacket => current'.pkt = d.pkt /\ current'.seq = d.seq
  BY <1>3 DEF Accept, CurrentAfter
<1>12. SeqNamesPacket'
  BY <1>2, <1>4, <1>11 DEF WholeInv, SeqNamesPacket
<1>13. CountIsArrived'
  BY <1>2, <1>4, <1>8, <1>9, <1>10, <1>11 DEF CountIsArrived
<1>14. NothingTwice'
  <2>1. ASSUME NEW e \in net, e # d, e.pkt = d.pkt
        PROVE  Span(d) \cap Span(e) = {}
    <3>1. d.off + d.len <= e.off \/ e.off + e.len <= d.off
      BY <2>1 DEF NetInv, NetDisjoint
    <3>2. e.off \in Nat /\ e.len \in Nat
      BY DEF TypeOK, Datagram
    <3>3. QED
      BY <1>1, <3>1, <3>2 DEF Span
  <2>2. ASSUME NEW e \in net, e # d, e.pkt = d.pkt
        PROVE  got' \cap Span(e) = {}
    BY <1>5, <1>7, <2>1, <2>2
  <2>3. ASSUME busy, d.pkt = framed
        PROVE  \A i \in got' : i < cursor
    <3>1. d.off + d.len <= cursor
      BY <2>3 DEF NetInv, NetOfFramed
    <3>2. \A i \in Span(d) : i < cursor
      BY <1>1, <3>1 DEF Span, TypeOK
    <3>3. QED
      BY <1>5, <1>7, <2>3, <3>2
  <2>4. QED
    BY <1>4, <1>11, <2>2, <2>3 DEF NothingTwice, Span
<1>15. CompleteIsWhole'
  <2>1. SUFFICES ASSUME Completes(d)
                 PROVE  \A i \in 0 .. n - 1 : buf'[i] = d.pkt
    BY <1>4 DEF Accept, Outcome, CompleteIsWhole
  <2>2. got' = 0 .. n - 1
    BY <1>2, <1>8, <1>9, <2>1, AllArrived DEF Completes
  <2>3. QED
    BY <1>10, <2>2
<1>16. QED
  BY <1>12, <1>13, <1>14, <1>15 DEF WholeInv

LEMMA EmitWhole ==
  ASSUME TypeOK, NetInv, WholeInv, Emit
  PROVE  WholeInv'
<1> DEFINE m == NextDatagram
<1>1. CursorInPacket /\ busy
  BY DEF NetInv, Emit
<1>2. /\ m \in Datagram /\ m.pkt = framed /\ m.seq = seqOf /\ m.off = cursor
      /\ cursor \in Nat /\ Take \in Nat
  BY <1>1, NextDatagramIs DEF TypeOK
<1> HIDE DEF m
<1>3. net' = net \cup {m} /\ cursor' = cursor + Take
  BY DEF Emit, m
<1>4. (busy' => busy) /\ UNCHANGED <<size, framed, nextSeq, seqOf, got, buf,
                                    current, received, result>>
  BY <1>1 DEF Emit, ghosts, rxVars
<1>5. SeqNamesPacket'
  BY <1>1, <1>2, <1>3, <1>4 DEF WholeInv, SeqNamesPacket
<1>6. CountIsArrived' /\ CompleteIsWhole'
  BY <1>4 DEF WholeInv, CountIsArrived, CompleteIsWhole
<1>7. NothingTwice'
  <2>1. SUFFICES ASSUME current # NoPacket
                 PROVE  /\ \A d \in net' : d.pkt = current.pkt => got \cap Span(d) = {}
                        /\ busy' /\ current.pkt = framed => \A i \in got : i < cursor'
    BY <1>4 DEF NothingTwice, Span
  <2>2. \A i \in Span(m) : i >= cursor
    BY <1>2 DEF Span, Datagram
  <2>3. ASSUME current.pkt = framed
        PROVE  \A i \in got : i \in Nat /\ i < cursor
    BY <1>1, <2>1, <2>3 DEF WholeInv, NothingTwice, TypeOK
  <2>4. m.pkt = current.pkt => got \cap Span(m) = {}
    BY <1>2, <2>2, <2>3
  <2>5. \A d \in net' : d.pkt = current.pkt => got \cap Span(d) = {}
    BY <1>3, <2>1, <2>4 DEF WholeInv, NothingTwice
  <2>6. busy' /\ current.pkt = framed => \A i \in got : i < cursor'
    BY <1>2, <1>3, <2>3
  <2>7. QED
    BY <2>5, <2>6
<1>8. QED
  BY <1>5, <1>6, <1>7 DEF WholeInv

LEMMA BeginWhole ==
  ASSUME TypeOK, NetInv, WholeInv, BeginFrame, framed' <= SeqMod
  PROVE  WholeInv'
<1>1. /\ framed \in Nat /\ framed' = framed + 1 /\ framed < SeqMod
  BY SeqModAssumption, BoundsAssumption DEF BeginFrame, TypeOK
<1>2. seqOf' = framed' - 1
  BY <1>1 DEF BeginFrame, WholeInv, SeqNamesPacket
<1>3. framed' < SeqMod => nextSeq' = framed'
  BY <1>1, ModSmall, SeqModAssumption
  DEF BeginFrame, SeqAfter, WholeInv, SeqNamesPacket
<1>4. UNCHANGED <<size, net, got, buf, current, received, result>>
  BY DEF BeginFrame, ghosts, rxVars
<1>5. SeqNamesPacket'
  BY <1>1, <1>2, <1>3, <1>4 DEF WholeInv, SeqNamesPacket
<1>6. CountIsArrived' /\ CompleteIsWhole'
  BY <1>1, <1>4 DEF WholeInv, CountIsArrived, CompleteIsWhole
<1>7. NothingTwice'
  BY <1>1, <1>4 DEF WholeInv, CountIsArrived, NothingTwice, Span
<1>8. QED
  BY <1>5, <1>6, <1>7 DEF WholeInv

(* Every other step leaves the packet in progress as it is; it may return   *)
(* an error, take datagrams away, or end a frame early.                     *)
LEMMA OtherWhole ==
  ASSUME WholeInv, net' \subseteq net, busy' => busy,
         UNCHANGED <<size, framed, nextSeq, seqOf, cursor, got, buf, current,
                     received>>,
         result' = result \/ result'.kind = "Err"
  PROVE  WholeInv'
<1>1. SeqNamesPacket'
  BY DEF WholeInv, SeqNamesPacket
<1>2. CountIsArrived' /\ CompleteIsWhole'
  BY DEF WholeInv, CountIsArrived, CompleteIsWhole
<1>3. NothingTwice'
  BY DEF WholeInv, NothingTwice, Span
<1>4. QED
  BY <1>1, <1>2, <1>3 DEF WholeInv

LEMMA DeliverWhole ==
  ASSUME TypeOK, NetInv, WholeInv, NEW d \in net, Deliver(d)
  PROVE  WholeInv'
<1>1. Push(d) /\ TrackGhosts(d) /\ UNCHANGED <<size, txVars>> /\ net' = net \ {d}
  BY DEF Deliver, Receive
<1>2. CASE Accept(d)
  BY <1>1, <1>2, AcceptWhole
<1>3. CASE Refuse(d)
  <2>1. UNCHANGED <<got, buf, current, received>> /\ result'.kind = "Err"
    BY <1>1, <1>3 DEF Refuse, TrackGhosts, ghosts
  <2>2. UNCHANGED <<size, framed, nextSeq, seqOf, cursor>> /\ (busy' => busy)
    BY <1>1 DEF txVars
  <2>3. QED
    BY <1>1, <2>1, <2>2, OtherWhole
<1>4. QED
  BY <1>1, <1>2, <1>3 DEF Push

(* A second delivery and a restart end the condition; nothing restores it.  *)
LEMMA StillDistinguishable ==
  ASSUME TypeOK, [Next]_vars, Distinguishable'
  PROVE  /\ Distinguishable
         /\ ~ Restart
         /\ \A d \in net : ~ DeliverAndKeep(d)
<1>1. faults \in [FaultKinds -> Nat] /\ framed \in Nat
  BY BoundsAssumption DEF TypeOK
<1>2. ASSUME NEW k \in FaultKinds, Happens(k)
      PROVE  /\ faults'[k] = faults[k] + 1
             /\ \A j \in FaultKinds \ {k} : faults'[j] = faults[j]
  BY <1>1, <1>2 DEF Happens
<1>3. ~ Restart
  <2>1. Restart => faults'["restart"] = faults["restart"] + 1
    BY <1>2 DEF Restart, FaultKinds
  <2>2. QED
    BY <1>1, <2>1 DEF Distinguishable, FaultKinds
<1>4. ASSUME NEW d \in net
      PROVE  ~ DeliverAndKeep(d)
  <2>1. DeliverAndKeep(d) => faults'["dup"] = faults["dup"] + 1
    BY <1>2 DEF DeliverAndKeep, FaultKinds
  <2>2. QED
    BY <1>1, <2>1 DEF Distinguishable, FaultKinds
<1>5. framed' \in Nat /\ framed <= framed'
  BY <1>1 DEF Next, vars, txVars, BudgetRefuses, BeginFrame, Emit, EmitFails,
              Restart, Lose, Deliver, DeliverAndKeep, Receive, ReceiveStray,
              StopReceiving
<1>6. faults'["dup"] = faults["dup"] /\ faults'["restart"] = faults["restart"]
  <2>1. CASE faults' = faults
    BY <2>1
  <2>2. CASE Happens("loss") \/ Happens("fail")
    BY <1>2, <2>2 DEF FaultKinds
  <2>3. faults' = faults \/ Happens("loss") \/ Happens("fail")
    BY <1>3, <1>4 DEF Next, vars, BudgetRefuses, BeginFrame, Emit, EmitFails,
                      Lose, Deliver, ReceiveStray, StopReceiving, Deliverable
  <2>4. QED
    BY <2>1, <2>2, <2>3
<1>7. Distinguishable
  BY <1>1, <1>5, <1>6, SeqModAssumption, BoundsAssumption
  DEF Distinguishable, FaultKinds
<1>8. QED
  BY <1>3, <1>4, <1>7

LEMMA NextWhole ==
  ASSUME TypeOK, NetInv, Distinguishable => WholeInv, [Next]_vars
  PROVE  Distinguishable' => WholeInv'
<1> SUFFICES ASSUME Distinguishable'
             PROVE  WholeInv'
  OBVIOUS
<1>1. /\ WholeInv /\ ~ Restart /\ \A d \in net : ~ DeliverAndKeep(d)
  BY StillDistinguishable
<1>2. CASE BeginFrame
  BY <1>1, <1>2, BeginWhole DEF Distinguishable
<1>3. CASE Emit
  BY <1>1, <1>3, EmitWhole
<1>4. ASSUME NEW d \in net, Deliver(d)
      PROVE  WholeInv'
  BY <1>1, <1>4, DeliverWhole
<1>5. CASE BudgetRefuses \/ EmitFails \/ StopReceiving \/ UNCHANGED vars
  <2>1. /\ net' \subseteq net /\ (busy' => busy) /\ result' = result
        /\ UNCHANGED <<size, framed, nextSeq, seqOf, cursor, got, buf, current,
                       received>>
    BY <1>5 DEF BudgetRefuses, EmitFails, StopReceiving, vars, txVars, ghosts,
                rxVars
  <2>2. QED
    BY <1>1, <2>1, OtherWhole
<1>6. CASE ReceiveStray
  <2>1. /\ net' = net /\ (busy' => busy) /\ result'.kind = "Err"
        /\ UNCHANGED <<size, framed, nextSeq, seqOf, cursor, got, buf, current,
                       received>>
    BY <1>6 DEF ReceiveStray, PushUnparsable, txVars, ghosts
  <2>2. QED
    BY <1>1, <2>1, OtherWhole
<1>7. ASSUME NEW d \in net, Lose(d)
      PROVE  WholeInv'
  <2>1. /\ net' \subseteq net /\ (busy' => busy) /\ result' = result
        /\ UNCHANGED <<size, framed, nextSeq, seqOf, cursor, got, buf, current,
                       received>>
    BY <1>7 DEF Lose, txVars, ghosts, rxVars
  <2>2. QED
    BY <1>1, <2>1, OtherWhole
<1>8. QED
  BY <1>1, <1>2, <1>3, <1>4, <1>5, <1>6, <1>7 DEF Next, Deliverable

(* The inductive invariant holds at all times.                              *)
THEOREM RawUdpInvariant == Spec => []UdpInv
<1>1. Init => TypeOK /\ NetInv /\ (Distinguishable => WholeInv)
  BY InitType, InitNet, InitWhole
<1>2. TypeOK /\ NetInv /\ (Distinguishable => WholeInv) /\ [Next]_vars
        => (TypeOK /\ NetInv /\ (Distinguishable => WholeInv))'
  BY NextType, NextNet, NextWhole DEF NetInv
<1>3. TypeOK /\ NetInv /\ (Distinguishable => WholeInv) => UdpInv
  BY DEF UdpInv, NetInv, WholeInv
<1>4. QED
  BY <1>1, <1>2, <1>3, PTL DEF Spec

(* As long as sequence numbers tell packets apart and nothing is delivered  *)
(* twice, a packet the reassembler announces is whole, for any number and   *)
(* length of packets, whatever is lost, reordered, refused or foreign.      *)
THEOREM RawUdpIntegrity == Spec => []Integrity
<1>1. UdpInv => Integrity
  BY DEF UdpInv, Integrity
<1>2. QED
  BY <1>1, RawUdpInvariant, PTL

------------------------------------------------------------------------------
(* The packet channel: on a network that neither duplicates nor restarts,   *)
(* of a packet that was given up a byte is gone for good, so that however   *)
(* late its other datagrams come it never completes, and of a packet        *)
(* delivered nothing is left.                                               *)

(* The environment under which the refinement holds.                        *)
Tellable == MaxDup = 0 /\ MaxRestart = 0 /\ MaxPackets <= SeqMod

(* Only an empty packet makes an empty datagram, and it makes no other.     *)
Pieces ==
  /\ busy => \/ cursor < size[framed]
             \/ size[framed] = 0 /\ \A d \in net : d.pkt # framed
  /\ \A d \in net : d.len > 0 \/ d.total = 0

CurrentBegun == current # NoPacket => got # {}

(* Byte i of packet p is not in flight, not to be sent, and has not arrived *)
(* since p was last begun.                                                  *)
Gone(p, i) ==
  /\ \A d \in net : d.pkt = p => i \notin Span(d)
  /\ busy /\ framed = p => i < cursor
  /\ current # NoPacket /\ current.pkt = p => i \notin got

Missed ==
  \A p \in abandoned :
    p \in 1 .. framed /\ \E i \in 0 .. size[p] - 1 : Gone(p, i)

Finished ==
  \A p \in delivered :
    /\ p \in 1 .. framed /\ p \notin abandoned
    /\ ~ (busy /\ framed = p)
    /\ \A d \in net : d.pkt # p
    /\ current # NoPacket => current.pkt # p

(* What the refinement rests on, apart from the invariant above.  *)
ChannelInv == Pieces /\ CurrentBegun /\ Missed /\ Finished

Known == TypeOK /\ NetInv /\ Distinguishable /\ WholeInv

------------------------------------------------------------------------------
(* Sequence numbers tell packets apart for good.                            *)
LEMMA KeepsDistinguishable ==
  ASSUME Tellable, TypeOK, TypeOK', Distinguishable, [Next]_vars
  PROVE  Distinguishable'
<1>1. faults \in [FaultKinds -> Nat] /\ faults["dup"] = 0 /\ faults["restart"] = 0
  BY DEF TypeOK, Distinguishable
<1>2. framed' <= SeqMod
  BY BoundsAssumption, SeqModAssumption DEF TypeOK, Tellable
<1>3. ~ Restart /\ \A d \in net : ~ DeliverAndKeep(d)
  BY <1>1 DEF Restart, DeliverAndKeep, Tellable
<1>4. faults' = faults \/ Happens("loss") \/ Happens("fail")
  BY <1>3 DEF Next, vars, BudgetRefuses, BeginFrame, Emit, EmitFails,
              Lose, Deliver, ReceiveStray, StopReceiving, Deliverable
<1>5. faults'["dup"] = 0 /\ faults'["restart"] = 0
  BY <1>1, <1>4 DEF Happens, FaultKinds
<1>6. QED
  BY <1>2, <1>5 DEF Distinguishable

LEMMA InitKnown == Init => Distinguishable /\ ChannelInv
<1> SUFFICES ASSUME Init PROVE Distinguishable /\ ChannelInv
  OBVIOUS
<1>1. Distinguishable
  BY SeqModAssumption DEF Init, Distinguishable, FaultKinds
<1>2. ChannelInv
  BY DEF Init, ReassemblerInit, ChannelInv, Pieces, CurrentBegun, Missed, Finished
<1>3. QED
  BY <1>1, <1>2

------------------------------------------------------------------------------
(* One datagram accepted.                                                   *)

(* What AcceptWhole showed of it, as facts about the packet in progress.    *)
LEMMA AcceptFacts ==
  ASSUME Known, NEW d \in net, Accept(d), TrackGhosts(d)
  PROVE  /\ d.pkt \in 1 .. framed /\ d.pkt \in Nat /\ d.total = size[d.pkt]
         /\ d.off \in Nat /\ d.len \in Nat /\ d.total \in Nat
         /\ d.off + d.len <= d.total
         /\ ~ Starts(d) => current # NoPacket /\ current.pkt = d.pkt
         /\ Abandons(d) => current # NoPacket /\ current.pkt # d.pkt
         /\ current' # NoPacket => current'.pkt = d.pkt
         /\ got' = (IF Starts(d) THEN {} ELSE got) \cup Span(d)
         /\ Completes(d) => got' = 0 .. d.total - 1 /\ current' = NoPacket
         /\ ~ Completes(d) => current' # NoPacket /\ d.total > 0
<1>1. d \in Datagram /\ ~ Refused(d)
  BY DEF Known, TypeOK, Accept
<1>2. /\ d.pkt \in 1 .. framed /\ d.total = size[d.pkt]
      /\ d.off + d.len <= d.total /\ d.seq = d.pkt - 1
  BY DEF Known, NetInv, NetOfFramed, WholeInv, SeqNamesPacket
<1>3. /\ d.pkt \in Nat /\ d.off \in Nat /\ d.len \in Nat /\ d.total \in Nat
  BY <1>1 DEF Datagram
<1>4. current # NoPacket => /\ current \in Datagram /\ current.pkt \in Nat
                            /\ current.seq = current.pkt - 1
                            /\ (current.seq = d.seq <=> current.pkt = d.pkt)
  <2>1. current # NoPacket =>
          current \in Datagram /\ current.seq = current.pkt - 1
    BY DEF Known, TypeOK, WholeInv, SeqNamesPacket
  <2>2. current # NoPacket => current.pkt \in Nat
    BY <2>1 DEF Datagram
  <2>3. current # NoPacket => (current.seq = d.seq <=> current.pkt = d.pkt)
    <3>1. d.seq = d.pkt - 1
      BY <1>2
    <3>2. QED
      BY <3>1, <1>3, <2>1, <2>2
  <2>4. QED
    BY <2>1, <2>2, <2>3
<1>5. ~ Starts(d) => current # NoPacket /\ current.pkt = d.pkt
  BY <1>4 DEF Starts, Abandons
<1>6. Abandons(d) => current # NoPacket /\ current.pkt # d.pkt
  BY <1>4 DEF Abandons
<1>7. current' # NoPacket => current'.pkt = d.pkt
  BY <1>5 DEF Accept, CurrentAfter
<1>8. got' = (IF Starts(d) THEN {} ELSE got) \cup Span(d)
  BY <1>1 DEF TrackGhosts
<1> DEFINE G == IF Starts(d) THEN {} ELSE got
<1>9. /\ G \subseteq 0 .. d.total - 1 /\ Count(d) = Cardinality(G) + d.len
      /\ G \cap Span(d) = {}
  <2>1. CASE Starts(d)
    BY <2>1, <1>3, FS_EmptySet DEF Count
  <2>2. CASE ~ Starts(d)
    BY <2>2, <1>2, <1>5 DEF Count, Known, WholeInv, CountIsArrived, NothingTwice
  <2>3. QED
    BY <2>1, <2>2
<1>10. got' \subseteq 0 .. d.total - 1
  BY <1>2, <1>3, <1>8, <1>9 DEF Span
<1>11. Cardinality(got') = Count(d) /\ Cardinality(G) \in Nat
  <2>1. IsFiniteSet(G) /\ Cardinality(G) \in Nat
    <3>1. IsFiniteSet(0 .. d.total - 1)
      BY <1>3, FS_Interval
    <3>2. QED
      BY <1>9, <3>1, FS_Subset, FS_CardinalityType
  <2>2. IsFiniteSet(Span(d)) /\ Cardinality(Span(d)) = d.len
    BY <1>1, SpanSize
  <2>3. Cardinality(G \cup Span(d)) = Cardinality(G) + Cardinality(Span(d)) - 0
    BY <1>9, <2>1, <2>2, FS_Union, FS_EmptySet
  <2>4. QED
    BY <1>3, <1>8, <1>9, <2>1, <2>2, <2>3
<1>12. Completes(d) => got' = 0 .. d.total - 1 /\ current' = NoPacket
  BY <1>3, <1>10, <1>11, AllArrived DEF Completes, Accept, CurrentAfter
<1>13. ~ Completes(d) => current' # NoPacket /\ d.total > 0
  <2>1. ~ Completes(d) => d.total > 0
    BY <1>3, <1>9, <1>11 DEF Completes
  <2>2. ~ Completes(d) => current' # NoPacket
    BY <1>1, <1>5, NoPacketAssumption DEF Accept, CurrentAfter
  <2>3. QED
    BY <2>1, <2>2
<1>14. QED
  BY <1>2, <1>3, <1>5, <1>6, <1>7, <1>8, <1>12, <1>13

LEMMA AcceptChannel ==
  ASSUME Known, ChannelInv, NEW d \in net, Accept(d), TrackGhosts(d),
         net' = net \ {d}, UNCHANGED <<size, txVars>>
  PROVE  ChannelInv'
<1> DEFINE G == IF Starts(d) THEN {} ELSE got
<1>1. /\ framed' = framed /\ size' = size /\ busy' = busy /\ cursor' = cursor
  BY DEF txVars
<1>2. /\ d.pkt \in 1 .. framed /\ d.pkt \in Nat /\ d.total = size[d.pkt]
      /\ d.off \in Nat /\ d.len \in Nat /\ d.total \in Nat
      /\ d.off + d.len <= d.total
  BY AcceptFacts
<1>3. /\ ~ Starts(d) => current # NoPacket /\ current.pkt = d.pkt
      /\ Abandons(d) => current # NoPacket /\ current.pkt # d.pkt
      /\ current' # NoPacket => current'.pkt = d.pkt
      /\ got' = G \cup Span(d)
      /\ Completes(d) => got' = 0 .. d.total - 1 /\ current' = NoPacket
      /\ ~ Completes(d) => current' # NoPacket /\ d.total > 0
  BY AcceptFacts
<1> HIDE DEF G
<1>4. Pieces'
  BY <1>1 DEF ChannelInv, Pieces
<1>5. CurrentBegun'
  <2>1. SUFFICES ASSUME ~ Completes(d) PROVE got' # {}
    BY <1>3 DEF CurrentBegun
  <2>2. d.len > 0
    BY <1>2, <1>3, <2>1 DEF ChannelInv, Pieces
  <2>3. d.off \in Span(d)
    BY <1>2, <2>2 DEF Span
  <2>4. QED
    BY <1>3, <2>3
<1>6. ASSUME NEW p, NEW i, Gone(p, i)
      PROVE  Gone(p, i)' /\ (p = d.pkt => i \notin got')
  <2>1. p = d.pkt => i \notin got'
    BY <1>3, <1>6 DEF Gone, G
  <2>2. QED
    BY <1>1, <1>3, <1>6, <2>1 DEF Gone, Span
<1>7. /\ delivered' = (IF Completes(d) THEN delivered \cup {d.pkt} ELSE delivered)
      /\ abandoned' = (IF Abandons(d) THEN abandoned \cup {current.pkt}
                       ELSE abandoned)
  BY DEF TrackGhosts, Accept
<1>8. ASSUME Abandons(d), NEW CONSTANT q, q = current.pkt
      PROVE  /\ q \in 1 .. framed /\ q \notin delivered /\ q # d.pkt
             /\ \E i \in 0 .. size[q] - 1 : Gone(q, i)'
  <2>1. current # NoPacket /\ current.pkt # d.pkt
    BY <1>3, <1>8
  <2>2. PICK i \in got : TRUE
    BY <2>1 DEF ChannelInv, CurrentBegun
  <2>3. q \in 1 .. framed /\ got \subseteq 0 .. size[q] - 1
    BY <1>8, <2>1 DEF Known, WholeInv, CountIsArrived
  <2>4. /\ \A e \in net : e.pkt = q => i \notin Span(e)
        /\ busy /\ q = framed => i < cursor
    BY <1>8, <2>1, <2>2 DEF Known, WholeInv, NothingTwice
  <2>5. q \notin delivered
    BY <1>8, <2>1 DEF ChannelInv, Finished
  <2>6. Gone(q, i)'
    BY <1>1, <1>3, <1>8, <2>1, <2>4 DEF Gone, Span
  <2>7. QED
    BY <1>8, <2>1, <2>2, <2>3, <2>5, <2>6
<1>9. Missed'
  <2>1. SUFFICES ASSUME NEW p \in abandoned'
                 PROVE  p \in 1 .. framed /\ \E i \in 0 .. size[p] - 1 : Gone(p, i)'
    BY <1>1 DEF Missed
  <2>2. CASE p \in abandoned
    BY <1>6, <2>2 DEF ChannelInv, Missed
  <2>3. CASE p \notin abandoned
    <3>1. Abandons(d) /\ p = current.pkt
      BY <1>7, <2>1, <2>3
    <3>2. QED
      BY <1>8, <3>1
  <2>4. QED
    BY <2>2, <2>3
<1>10. ASSUME Completes(d)
       PROVE  /\ d.pkt \notin abandoned'
              /\ ~ (busy /\ framed = d.pkt)
              /\ \A e \in net \ {d} : e.pkt # d.pkt
  <2>1. got' = 0 .. size[d.pkt] - 1
    BY <1>2, <1>3, <1>10
  <2>2. d.pkt \notin abandoned'
    <3>1. d.pkt \notin abandoned
      BY <1>6, <2>1 DEF ChannelInv, Missed
    <3>2. QED
      BY <1>3, <1>7, <3>1
  <2>3. ~ (busy /\ framed = d.pkt)
    <3> SUFFICES ASSUME busy, framed = d.pkt PROVE FALSE
      OBVIOUS
    <3>1. cursor < size[framed] /\ cursor \in Nat
      <4>1. cursor \in Nat
        BY DEF Known, TypeOK
      <4>2. cursor < size[framed] \/ \A e \in net : e.pkt # framed
        BY DEF ChannelInv, Pieces
      <4>3. QED
        BY <4>1, <4>2
    <3>2. \A i \in G : i < cursor
      BY <1>3 DEF Known, WholeInv, NothingTwice, G
    <3>3. d.off + d.len <= cursor
      BY DEF Known, NetInv, NetOfFramed
    <3>4. cursor \notin Span(d)
      BY <1>2, <3>1, <3>3 DEF Span
    <3>5. cursor \notin G
      BY <3>1, <3>2
    <3>6. cursor \in 0 .. size[d.pkt] - 1
      BY <1>2, <3>1
    <3>7. QED
      BY <1>3, <2>1, <3>4, <3>5, <3>6
  <2>4. ASSUME NEW e \in net, e # d, e.pkt = d.pkt PROVE FALSE
    <3>1. /\ e \in Datagram /\ d \in Datagram
          /\ e.off \in Nat /\ e.len \in Nat /\ e.total = d.total
          /\ e.off + e.len <= d.total /\ e.seq = d.seq
      <4>1. e \in Datagram /\ d \in Datagram
        BY <2>4 DEF Known, TypeOK
      <4>2. e.off \in Nat /\ e.len \in Nat
        BY <4>1 DEF Datagram
      <4>3. e.total = d.total /\ e.off + e.len <= d.total
        BY <1>2, <2>4 DEF Known, NetInv, NetOfFramed
      <4>4. e.seq = d.seq
        BY <2>4 DEF Known, WholeInv, SeqNamesPacket
      <4>5. QED
        BY <4>1, <4>2, <4>3, <4>4
    <3>2. CASE d.total = 0
      <4>1. e.off = d.off /\ e.len = d.len
        BY <1>2, <3>1, <3>2
      <4>2. QED
        BY <2>4, <3>1, <4>1 DEF Datagram
    <3>3. CASE d.total > 0
      <4>1. e.len > 0
        BY <3>1, <3>3 DEF ChannelInv, Pieces
      <4>2. e.off \in Span(e) /\ e.off \in got'
        BY <1>2, <2>1, <3>1, <4>1 DEF Span
      <4>3. e.off \notin G
        BY <1>3, <2>4, <4>2 DEF G, Known, WholeInv, NothingTwice
      <4>4. d.off + d.len <= e.off \/ e.off + e.len <= d.off
        BY <2>4 DEF Known, NetInv, NetDisjoint
      <4>5. e.off \notin Span(d)
        BY <1>2, <3>1, <4>1, <4>4 DEF Span
      <4>6. QED
        BY <1>3, <4>2, <4>3, <4>5
    <3>4. QED
      BY <1>2, <3>2, <3>3
  <2>5. QED
    BY <2>2, <2>3, <2>4
<1>11. Finished'
  <2>1. SUFFICES ASSUME NEW p \in delivered'
                 PROVE  /\ p \in 1 .. framed /\ p \notin abandoned'
                        /\ ~ (busy /\ framed = p)
                        /\ \A e \in net \ {d} : e.pkt # p
                        /\ current' # NoPacket => current'.pkt # p
    BY <1>1 DEF Finished
  <2>2. CASE p \in delivered
    <3>1. /\ p \in 1 .. framed /\ p \notin abandoned /\ ~ (busy /\ framed = p)
          /\ \A e \in net : e.pkt # p
      BY <2>2 DEF ChannelInv, Finished
    <3>2. p \notin abandoned'
      BY <1>7, <1>8, <2>2, <3>1
    <3>3. QED
      BY <1>3, <3>1, <3>2
  <2>3. CASE p \notin delivered
    <3>1. Completes(d) /\ p = d.pkt
      BY <1>7, <2>1, <2>3
    <3>2. QED
      BY <1>2, <1>3, <1>10, <3>1
  <2>4. QED
    BY <2>2, <2>3
<1>12. QED
  BY <1>4, <1>5, <1>9, <1>11 DEF ChannelInv

------------------------------------------------------------------------------
(* The other steps.                                                         *)

LEMMA EmitChannel ==
  ASSUME Known, ChannelInv, Emit
  PROVE  ChannelInv'
<1> DEFINE m == NextDatagram
<1>1. /\ busy /\ CursorInPacket /\ TypeOK
      /\ cursor \in Nat /\ framed \in Nat /\ size[framed] \in Nat
  <2>1. busy /\ CursorInPacket /\ TypeOK
    BY DEF Emit, Known, NetInv
  <2>2. /\ framed \in Packets /\ size \in [Packets -> Nat]
        /\ framed \in 0 .. MaxPackets /\ cursor \in Nat
    BY <2>1 DEF TypeOK
  <2>3. QED
    BY <2>1, <2>2, BoundsAssumption
<1>2. /\ m.pkt = framed /\ m.off = cursor /\ m.len = Take /\ Take \in Nat
      /\ m.total = size[framed] /\ cursor + Take <= size[framed]
  BY <1>1, NextDatagramIs
<1>3. cursor < size[framed] => Take > 0
  BY <1>1, PayloadMaxAssumption DEF Take, SmallerOf
<1> HIDE DEF m
<1>4. /\ net' = net \cup {m} /\ cursor' = cursor + Take
      /\ (busy' => cursor' < size[framed])
      /\ UNCHANGED <<size, framed, current, got, delivered, abandoned>>
  <2>1. /\ net' = net \cup {m} /\ cursor' = cursor + Take
        /\ UNCHANGED <<size, framed, current, got, delivered, abandoned>>
    BY DEF Emit, m, ghosts, rxVars
  <2>2. busy' => ~ (cursor + Take >= size[framed])
    BY DEF Emit, LastDatagram
  <2>3. QED
    BY <1>1, <1>2, <2>1, <2>2
<1>5. Pieces'
  <2>1. m.len > 0 \/ m.total = 0
    BY <1>1, <1>2, <1>3 DEF ChannelInv, Pieces
  <2>2. QED
    BY <1>4, <2>1 DEF ChannelInv, Pieces
<1>6. CurrentBegun'
  BY <1>4 DEF ChannelInv, CurrentBegun
<1>7. ASSUME NEW p, NEW i \in Nat, Gone(p, i)
      PROVE  Gone(p, i)'
  <2>1. p = framed => i < cursor
    BY <1>1, <1>7 DEF Gone
  <2>2. p = framed => i \notin Span(m)
    BY <1>1, <1>2, <2>1 DEF Span
  <2>3. busy' /\ framed = p => i < cursor'
    BY <1>1, <1>2, <1>4, <2>1
  <2>4. QED
    BY <1>2, <1>4, <1>7, <2>2, <2>3 DEF Gone, Span
<1>8. Missed'
  <2>1. \A p \in abandoned : size[p] \in Nat
    BY BoundsAssumption DEF ChannelInv, Missed, Known, TypeOK, Packets
  <2>2. ASSUME NEW p \in abandoned
        PROVE  p \in 1 .. framed /\ \E i \in 0 .. size[p] - 1 : Gone(p, i)'
    <3>1. PICK i \in 0 .. size[p] - 1 : Gone(p, i)
      BY DEF ChannelInv, Missed
    <3>2. Gone(p, i)'
      BY <1>7, <2>1, <3>1
    <3>3. QED
      BY <3>2 DEF ChannelInv, Missed
  <2>3. QED
    BY <1>4, <2>2 DEF Missed
<1>9. Finished'
  BY <1>1, <1>2, <1>4 DEF ChannelInv, Finished
<1>10. QED
  BY <1>5, <1>6, <1>8, <1>9 DEF ChannelInv

LEMMA BeginChannel ==
  ASSUME Known, ChannelInv, BeginFrame
  PROVE  ChannelInv'
<1>1. /\ framed \in Nat /\ framed' = framed + 1 /\ cursor' = 0 /\ ~ busy
      /\ framed' \in Packets /\ size[framed'] \in Nat
      /\ UNCHANGED <<size, net, current, got, delivered, abandoned>>
  BY BoundsAssumption DEF BeginFrame, Known, TypeOK, Packets, ghosts, rxVars
<1>2. \A d \in net : d.pkt \in 1 .. framed
  BY DEF Known, NetInv, NetOfFramed
<1>3. \A d \in net : d.pkt # framed'
  BY <1>1, <1>2
<1>4. Pieces'
  BY <1>1, <1>3 DEF ChannelInv, Pieces
<1>5. CurrentBegun'
  BY <1>1 DEF ChannelInv, CurrentBegun
<1>6. ASSUME NEW p \in 1 .. framed, NEW i, Gone(p, i)
      PROVE  Gone(p, i)'
  BY <1>1, <1>6 DEF Gone, Span
<1>7. Missed'
  <2>1. ASSUME NEW p \in abandoned
        PROVE  p \in 1 .. framed' /\ \E i \in 0 .. size[p] - 1 : Gone(p, i)'
    <3>1. PICK i \in 0 .. size[p] - 1 : Gone(p, i)
      BY DEF ChannelInv, Missed
    <3>2. p \in 1 .. framed
      BY DEF ChannelInv, Missed
    <3>3. QED
      BY <1>1, <1>6, <3>1, <3>2
  <2>2. QED
    BY <1>1, <2>1 DEF Missed
<1>8. Finished'
  BY <1>1 DEF ChannelInv, Finished
<1>9. QED
  BY <1>4, <1>5, <1>7, <1>8 DEF ChannelInv

(* Every other step takes datagrams away at most, and ends a frame at most. *)
LEMMA OtherChannel ==
  ASSUME ChannelInv, net' \subseteq net, busy' => busy,
         UNCHANGED <<size, framed, cursor, current, got, delivered, abandoned>>
  PROVE  ChannelInv'
<1>1. Pieces' /\ CurrentBegun' /\ Finished'
  BY DEF ChannelInv, Pieces, CurrentBegun, Finished
<1>2. ASSUME NEW p, NEW i, Gone(p, i)
      PROVE  Gone(p, i)'
  BY <1>2 DEF Gone, Span
<1>3. Missed'
  BY <1>2 DEF ChannelInv, Missed
<1>4. QED
  BY <1>1, <1>3 DEF ChannelInv

------------------------------------------------------------------------------
(* The refinement.                                                          *)

(* One step of the implementation: the invariant, and a step of the channel *)
(* or none.                                                                 *)
Refines == ChannelInv' /\ [Channel!Next]_(Channel!channelVars)

LEMMA Stutter ==
  ASSUME UNCHANGED <<framed, delivered, abandoned>>
  PROVE  [Channel!Next]_(Channel!channelVars)
  BY DEF Channel!channelVars

LEMMA AcceptRefines ==
  ASSUME Known, ChannelInv, NEW d \in net, Accept(d), TrackGhosts(d),
         net' = net \ {d}, UNCHANGED <<size, txVars>>
  PROVE  Refines
<1>1. ChannelInv'
  BY AcceptChannel
<1>2. framed' = framed /\ d.pkt \in 1 .. framed
  BY AcceptFacts DEF txVars
<1>3. /\ delivered' = (IF Completes(d) THEN delivered \cup {d.pkt} ELSE delivered)
      /\ abandoned' = (IF Abandons(d) THEN abandoned \cup {current.pkt}
                       ELSE abandoned)
  BY DEF TrackGhosts, Accept
<1>4. ASSUME Completes(d)
      PROVE  Channel!Open(d.pkt)
  <2>1. d.pkt \in delivered' /\ d.pkt \notin abandoned'
    BY <1>1, <1>3, <1>4 DEF ChannelInv, Finished
  <2>2. d.pkt \notin delivered
    BY DEF ChannelInv, Finished
  <2>3. QED
    BY <1>2, <1>3, <2>1, <2>2 DEF Channel!Open
<1>5. ASSUME Abandons(d)
      PROVE  /\ current.pkt \in 1 .. framed /\ current.pkt # d.pkt
             /\ current.pkt \notin delivered
  <2>1. current # NoPacket /\ current.pkt # d.pkt
    BY <1>5, AcceptFacts
  <2>2. QED
    BY <2>1 DEF Known, WholeInv, CountIsArrived, ChannelInv, Finished
<1>6. CASE ~ Completes(d) /\ (~ Abandons(d) \/ current.pkt \in abandoned)
  <2>1. UNCHANGED <<framed, delivered, abandoned>>
    BY <1>2, <1>3, <1>6
  <2>2. QED
    BY <1>1, <2>1, Stutter DEF Refines
<1>7. CASE Completes(d) /\ (~ Abandons(d) \/ current.pkt \in abandoned)
  <2>1. Channel!Deliver(d.pkt)
    BY <1>2, <1>3, <1>4, <1>7 DEF Channel!Deliver
  <2>2. QED
    BY <1>1, <1>2, <2>1 DEF Refines, Channel!Next
<1>8. CASE ~ Completes(d) /\ Abandons(d) /\ current.pkt \notin abandoned
  <2>1. Channel!Abandon(current.pkt)
    BY <1>2, <1>3, <1>5, <1>8 DEF Channel!Abandon, Channel!Open
  <2>2. QED
    BY <1>1, <1>5, <1>8, <2>1 DEF Refines, Channel!Next
<1>9. CASE Completes(d) /\ Abandons(d) /\ current.pkt \notin abandoned
  <2>1. Channel!Open(current.pkt) /\ d.pkt # current.pkt
    BY <1>5, <1>9 DEF Channel!Open
  <2>2. Channel!DeliverFor(d.pkt, current.pkt)
    BY <1>2, <1>3, <1>4, <1>9, <2>1 DEF Channel!DeliverFor
  <2>3. QED
    BY <1>1, <1>2, <1>5, <1>9, <2>2 DEF Refines, Channel!Next
<1>10. QED
  BY <1>6, <1>7, <1>8, <1>9

LEMMA NextRefines ==
  ASSUME Tellable, Known, ChannelInv, [Next]_vars
  PROVE  Refines
<1>1. ASSUME net' \subseteq net, busy' => busy,
             UNCHANGED <<size, framed, cursor, current, got, delivered, abandoned>>
      PROVE  Refines
  BY <1>1, OtherChannel, Stutter DEF Refines
<1>2. CASE BeginFrame
  <2>1. Channel!Offer
    BY <1>2 DEF BeginFrame, Channel!Offer, ghosts
  <2>2. QED
    BY <1>2, <2>1, BeginChannel DEF Refines, Channel!Next
<1>3. CASE Emit
  <2>1. UNCHANGED <<framed, delivered, abandoned>>
    BY <1>3 DEF Emit, ghosts
  <2>2. QED
    BY <1>3, <2>1, EmitChannel, Stutter DEF Refines
<1>4. CASE BudgetRefuses \/ StopReceiving \/ UNCHANGED vars
  BY <1>1, <1>4 DEF BudgetRefuses, StopReceiving, vars, txVars, ghosts, rxVars
<1>5. CASE EmitFails
  BY <1>1, <1>5 DEF EmitFails, ghosts, rxVars
<1>6. CASE ReceiveStray
  BY <1>1, <1>6 DEF ReceiveStray, PushUnparsable, txVars, ghosts
<1>7. ASSUME NEW d \in net, Lose(d)
      PROVE  Refines
  BY <1>1, <1>7 DEF Lose, txVars, ghosts, rxVars
<1>8. ASSUME NEW d \in net, Deliver(d)
      PROVE  Refines
  <2>1. /\ Push(d) /\ TrackGhosts(d) /\ UNCHANGED <<size, txVars>>
        /\ net' = net \ {d}
    BY <1>8 DEF Deliver, Receive
  <2>2. CASE Accept(d)
    BY <2>1, <2>2, AcceptRefines
  <2>3. CASE Refuse(d)
    BY <1>1, <2>1, <2>3 DEF Refuse, TrackGhosts, ghosts, txVars
  <2>4. QED
    BY <2>1, <2>2, <2>3 DEF Push
<1>9. ~ Restart /\ \A d \in net : ~ DeliverAndKeep(d)
  BY DEF Restart, DeliverAndKeep, Tellable, Known, Distinguishable
<1>10. QED
  BY <1>2, <1>3, <1>4, <1>5, <1>6, <1>7, <1>8, <1>9 DEF Next, Deliverable

(* Raw packets over UDP implement the packet channel: if the network        *)
(* delivers nothing twice, the sender does not restart and no sequence      *)
(* number is used twice, no packet is announced twice, and none that was    *)
(* given up is delivered later, however late its datagrams come             *)
(* (udp.rs:185-226).                                                        *)
THEOREM RawUdpImplementsChannel ==
  ASSUME Tellable
  PROVE  Spec => ImplementsChannel
<1>1. Init => Channel!Init
  BY DEF Init, Channel!Init
<1>2. Init => TypeOK /\ NetInv /\ WholeInv /\ Distinguishable /\ ChannelInv
  BY InitType, InitNet, InitWhole, InitKnown
<1>3. TypeOK /\ NetInv /\ WholeInv /\ Distinguishable /\ ChannelInv /\ [Next]_vars
        => (TypeOK /\ NetInv /\ WholeInv /\ Distinguishable /\ ChannelInv)'
  BY NextType, NextNet, NextWhole, KeepsDistinguishable, NextRefines
     DEF Known, NetInv, Refines
<1>4. TypeOK /\ NetInv /\ WholeInv /\ Distinguishable /\ ChannelInv /\ [Next]_vars
        => [Channel!Next]_(Channel!channelVars)
  BY NextRefines DEF Known, Refines
<1>5. QED
  BY <1>1, <1>2, <1>3, <1>4, PTL DEF Spec, ImplementsChannel, Channel!Spec

------------------------------------------------------------------------------
(* On a network that keeps the order and repeats nothing, the counters say  *)
(* what happened to the packets.  Sequence numbers may wrap and the sender  *)
(* may restart: then packets can be taken for one another, and still each   *)
(* is counted once.                                                         *)

(* A packet has one sequence number.                                        *)
OneSeq ==
  /\ \A d, e \in net : d.pkt = e.pkt => d.seq = e.seq
  /\ busy => \A d \in net : d.pkt = framed => d.seq = seqOf
  /\ current # NoPacket =>
       /\ \A d \in net : d.pkt = current.pkt => d.seq = current.seq
       /\ busy /\ framed = current.pkt => current.seq = seqOf

(* Only an empty packet has a datagram without bytes, and only that one.    *)
SomeBytes ==
  /\ \A d \in net : d.len = 0 => d.total = 0
  /\ busy => cursor < size[framed] \/ size[framed] = 0
  /\ busy /\ size[framed] = 0 => cursor = 0 /\ \A d \in net : d.pkt # framed

(* What has been dealt with is behind what is to come.                      *)
Behind ==
  /\ delivered \subseteq 1 .. framed /\ abandoned \subseteq 1 .. framed
  /\ current # NoPacket => current.pkt \in 1 .. framed
  /\ busy => framed \notin abandoned
  /\ \A d \in net :
       /\ \A p \in delivered : p <= d.pkt
       /\ \A p \in abandoned : p < d.pkt
       /\ current # NoPacket => current.pkt <= d.pkt
  /\ current # NoPacket => \A p \in abandoned : p < current.pkt

(* Of a packet that was delivered only a rest may still come, too little to *)
(* be taken for a whole one.                                                *)
OnlyRest(p, off) ==
  off > 0 /\ (current # NoPacket => current.pkt = p /\ received < off)

NotAgain ==
  \A p \in delivered :
    /\ \A d \in net : d.pkt = p => OnlyRest(p, d.off)
    /\ busy /\ framed = p => OnlyRest(p, cursor)

Counted == lost = Cardinality(abandoned) /\ complete = Cardinality(delivered)

Ordered == OneSeq /\ SomeBytes /\ Behind /\ NotAgain /\ Counted

OrderedInv == faults["dup"] = 0 => Ordered

LEMMA InitOrdered == Init => OrderedInv
<1> SUFFICES ASSUME Init PROVE Ordered
  BY DEF OrderedInv
<1>1. /\ net = {} /\ delivered = {} /\ abandoned = {} /\ ~ busy
      /\ current = NoPacket /\ lost = 0 /\ complete = 0
  BY DEF Init, ReassemblerInit
<1>2. QED
  BY <1>1, FS_EmptySet
  DEF Ordered, OneSeq, SomeBytes, Behind, NotAgain, Counted

(* Nothing new, and perhaps less in flight.                                 *)
LEMMA QuietOrdered ==
  ASSUME Ordered, net' \subseteq net, busy' => busy,
         UNCHANGED <<size, framed, seqOf, cursor, current, received, lost,
                     complete, delivered, abandoned>>
  PROVE  Ordered'
<1>1. OneSeq' /\ SomeBytes'
  BY DEF Ordered, OneSeq, SomeBytes
<1>2. Behind'
  BY DEF Ordered, Behind
<1>3. NotAgain'
  BY DEF Ordered, NotAgain, OnlyRest
<1>4. Counted'
  BY DEF Ordered, Counted
<1>5. QED
  BY <1>1, <1>2, <1>3, <1>4 DEF Ordered

LEMMA BeginOrdered ==
  ASSUME TypeOK, NetInv, Ordered, BeginFrame
  PROVE  Ordered'
<1>1. /\ framed' = framed + 1 /\ seqOf' = nextSeq /\ busy' = TRUE /\ cursor' = 0
      /\ framed \in Nat /\ framed + 1 \in Packets
      /\ UNCHANGED <<size, net, current, received, lost, complete, delivered,
                     abandoned>>
  BY BoundsAssumption DEF BeginFrame, TypeOK, Packets, ghosts, rxVars
<1>2. \A d \in net : d.pkt \in 1 .. framed
  BY DEF NetInv, NetOfFramed
<1>3. /\ \A d \in net : d.pkt # framed'
      /\ current # NoPacket => current.pkt # framed'
      /\ framed' \notin delivered /\ framed' \notin abandoned
  BY <1>1, <1>2 DEF Ordered, Behind
<1>4. OneSeq'
  BY <1>1, <1>3 DEF Ordered, OneSeq
<1>5. SomeBytes'
  <2>1. size[framed'] \in Nat
    BY <1>1 DEF TypeOK
  <2>2. 0 < size[framed'] \/ size[framed'] = 0
    BY <2>1
  <2>3. QED
    BY <1>1, <1>3, <2>2 DEF Ordered, SomeBytes
<1>6. Behind'
  <2>1. 1 .. framed \subseteq 1 .. framed'
    BY <1>1
  <2>2. QED
    BY <1>1, <1>3, <2>1 DEF Ordered, Behind
<1>7. NotAgain'
  BY <1>1, <1>3 DEF Ordered, NotAgain, OnlyRest
<1>8. Counted'
  BY <1>1 DEF Ordered, Counted
<1>9. QED
  BY <1>4, <1>5, <1>6, <1>7, <1>8 DEF Ordered

LEMMA EmitOrdered ==
  ASSUME TypeOK, NetInv, Ordered, Emit
  PROVE  Ordered'
<1> DEFINE m == NextDatagram
<1>1. CursorInPacket /\ busy
  BY DEF NetInv, Emit
<1>2. /\ m \in Datagram /\ m.pkt = framed /\ m.seq = seqOf /\ m.off = cursor
      /\ m.len = Take /\ m.total = size[framed]
      /\ cursor \in Nat /\ Take \in Nat /\ size[framed] \in Nat
      /\ framed \in Nat
  BY <1>1, NextDatagramIs, BoundsAssumption DEF TypeOK, Packets
<1>3. /\ net' = net \cup {m} /\ cursor' = cursor + Take
      /\ busy' = ~ LastDatagram
      /\ UNCHANGED <<size, framed, seqOf, current, received, lost, complete,
                     delivered, abandoned>>
  BY DEF Emit, ghosts, rxVars
<1>4. /\ Take = 0 => size[framed] = 0
      /\ ~ LastDatagram => cursor + Take < size[framed] /\ Take > 0
  <2>1. Take = IF size[framed] - cursor <= PayloadMax
               THEN size[framed] - cursor ELSE PayloadMax
    BY DEF Take, SmallerOf
  <2>2. cursor < size[framed] \/ size[framed] = 0
    BY <1>1 DEF Ordered, SomeBytes
  <2>3. LastDatagram <=> cursor + Take >= size[framed]
    BY DEF LastDatagram
  <2>4. QED
    BY <1>2, <2>1, <2>2, <2>3, PayloadMaxAssumption
<1> HIDE DEF m
<1>5. OneSeq'
  BY <1>1, <1>2, <1>3 DEF Ordered, OneSeq
<1>6. SomeBytes'
  <2>1. \A d \in net' : d.len = 0 => d.total = 0
    BY <1>2, <1>3, <1>4 DEF Ordered, SomeBytes
  <2>2. ASSUME busy'
        PROVE  cursor' < size[framed] /\ size[framed] # 0
    <3>1. ~ LastDatagram
      BY <1>3, <2>2
    <3>2. cursor + Take < size[framed] /\ cursor' = cursor + Take
      BY <1>3, <1>4, <3>1
    <3>3. QED
      BY <1>2, <3>2
  <2>3. QED
    BY <1>3, <2>1, <2>2 DEF SomeBytes
<1>7. Behind'
  <2>1. /\ \A p \in delivered : p <= framed
        /\ \A p \in abandoned : p < framed
        /\ current # NoPacket => current.pkt <= framed
    <3>1. \A p \in abandoned : p \in 1 .. framed /\ p # framed
      BY <1>1 DEF Ordered, Behind
    <3>2. QED
      BY <1>2, <3>1 DEF Ordered, Behind
  <2>2. QED
    BY <1>1, <1>2, <1>3, <2>1 DEF Ordered, Behind
<1>8. NotAgain'
  <2> SUFFICES ASSUME NEW p \in delivered
               PROVE  /\ \A d \in net' : d.pkt = p => OnlyRest(p, d.off)'
                      /\ busy' /\ framed = p => OnlyRest(p, cursor)'
    BY <1>3 DEF NotAgain, OnlyRest
  <2>1. /\ \A d \in net : d.pkt = p => OnlyRest(p, d.off)
        /\ framed = p => OnlyRest(p, cursor)
    BY <1>1 DEF Ordered, NotAgain
  <2>2. ASSUME NEW d \in net', d.pkt = p
        PROVE  OnlyRest(p, d.off)'
    BY <1>2, <1>3, <2>1, <2>2 DEF OnlyRest
  <2>3. ASSUME framed = p
        PROVE  OnlyRest(p, cursor)'
    <3>1. received \in Nat
      BY DEF TypeOK
    <3>2. OnlyRest(p, cursor)
      BY <2>1, <2>3
    <3>3. cursor > 0 => cursor + Take > 0
      BY <1>2
    <3>4. received < cursor => received < cursor + Take
      BY <1>2, <3>1
    <3>5. QED
      BY <1>3, <3>2, <3>3, <3>4 DEF OnlyRest
  <2>4. QED
    BY <2>2, <2>3
<1>9. Counted'
  BY <1>3 DEF Ordered, Counted
<1>10. QED
  BY <1>5, <1>6, <1>7, <1>8, <1>9 DEF Ordered

(* The first datagram in flight: what it finds and what is behind it.       *)
LEMMA FirstIs ==
  ASSUME TypeOK, NetInv, Ordered, NEW d \in net, \A e \in net : NotAfter(d, e)
  PROVE  /\ d \in Datagram /\ d.pkt \in 1 .. framed /\ d.pkt \in Nat
         /\ d.off \in Nat /\ d.len \in Nat /\ d.total \in Nat
         /\ d.off + d.len <= d.total
         /\ \A e \in net \ {d} :
              /\ e.pkt \in Nat /\ e.off \in Nat /\ d.pkt <= e.pkt
              /\ e.pkt = d.pkt => d.len > 0 /\ d.off + d.len <= e.off
         /\ busy /\ framed = d.pkt => d.len > 0 /\ d.off + d.len <= cursor
<1>1. \A e \in net :
        /\ e \in Datagram /\ e.pkt \in Nat /\ e.off \in Nat /\ e.len \in Nat
        /\ e.total \in Nat
        /\ e.pkt \in 1 .. framed /\ e.total = size[e.pkt]
        /\ e.off + e.len <= e.total
        /\ e.len = 0 => e.total = 0
  BY DEF TypeOK, Datagram, NetInv, NetOfFramed, Ordered, SomeBytes
<1>2. ASSUME NEW e \in net \ {d}
      PROVE  /\ d.pkt <= e.pkt
             /\ e.pkt = d.pkt => d.len > 0 /\ d.off + d.len <= e.off
  <2>1. d.pkt < e.pkt \/ (d.pkt = e.pkt /\ d.off <= e.off)
    BY DEF NotAfter
  <2>2. d.pkt <= e.pkt
    BY <1>1, <2>1
  <2>3. ASSUME e.pkt = d.pkt
        PROVE  d.len > 0 /\ d.off + d.len <= e.off
    <3>1. d.off <= e.off
      BY <1>1, <2>1, <2>3
    <3>2. d.off + d.len <= e.off \/ e.off + e.len <= d.off
      BY <2>3 DEF NetInv, NetDisjoint
    <3>3. e.total = d.total /\ e.seq = d.seq
      BY <1>1, <2>3 DEF Ordered, OneSeq
    <3>4. d.len > 0
      <4>1. ASSUME d.len = 0 PROVE FALSE
        <5>1. d.total = 0 /\ e.total = 0
          BY <1>1, <3>3, <4>1
        <5>2. d.off = 0 /\ e.off = 0 /\ e.len = 0
          BY <1>1, <5>1
        <5>3. d = e
          BY <1>1, <2>3, <3>3, <4>1, <5>1, <5>2 DEF Datagram
        <5>4. QED
          BY <5>3
      <4>2. QED
        BY <1>1, <4>1
    <3>5. e.len > 0
      BY <1>1, <3>3, <3>4
    <3>6. QED
      BY <1>1, <3>1, <3>2, <3>4, <3>5
  <2>4. QED
    BY <2>2, <2>3
<1>3. ASSUME busy, framed = d.pkt
      PROVE  d.len > 0 /\ d.off + d.len <= cursor
  <2>1. d.off + d.len <= cursor
    BY <1>3 DEF NetInv, NetOfFramed
  <2>2. size[framed] # 0
    BY <1>3 DEF Ordered, SomeBytes
  <2>3. d.total # 0
    BY <1>1, <1>3, <2>2
  <2>4. QED
    BY <1>1, <2>1, <2>3
<1>4. QED
  BY <1>1, <1>2, <1>3

LEMMA AcceptOrdered ==
  ASSUME TypeOK, NetInv, Ordered, NEW d \in net, \A e \in net : NotAfter(d, e),
         Accept(d), TrackGhosts(d), net' = net \ {d}, UNCHANGED <<size, txVars>>
  PROVE  /\ Ordered'
         /\ Completes(d) => d.pkt \notin delivered
<1>1. /\ d \in Datagram /\ d.pkt \in 1 .. framed /\ d.pkt \in Nat
      /\ d.off \in Nat /\ d.len \in Nat /\ d.total \in Nat
      /\ d.off + d.len <= d.total
      /\ \A e \in net \ {d} :
           /\ e.pkt \in Nat /\ e.off \in Nat /\ d.pkt <= e.pkt
           /\ e.pkt = d.pkt => d.len > 0 /\ d.off + d.len <= e.off
      /\ busy /\ framed = d.pkt => d.len > 0 /\ d.off + d.len <= cursor
  BY FirstIs
<1>2. /\ framed' = framed /\ seqOf' = seqOf /\ busy' = busy /\ cursor' = cursor
      /\ size' = size /\ framed \in Nat /\ cursor \in Nat /\ received \in Nat
      /\ lost \in Nat /\ complete \in Nat
  BY BoundsAssumption DEF txVars, TypeOK
<1>3. /\ received' = Count(d)
      /\ current' = IF Completes(d) THEN NoPacket ELSE IF Starts(d) THEN d ELSE current
      /\ delivered' = IF Completes(d) THEN delivered \cup {d.pkt} ELSE delivered
      /\ abandoned' = IF Abandons(d) THEN abandoned \cup {current.pkt} ELSE abandoned
      /\ lost' = lost + (IF Abandons(d) THEN 1 ELSE 0)
      /\ complete' = complete + (IF Completes(d) THEN 1 ELSE 0)
  BY Zenon DEF Accept, CurrentAfter, TrackGhosts
<1>4. /\ delivered \subseteq 1 .. framed /\ abandoned \subseteq 1 .. framed
      /\ \A p \in delivered : p <= d.pkt
      /\ \A p \in abandoned : p < d.pkt
      /\ current # NoPacket => /\ current.pkt \in 1 .. framed /\ current.pkt <= d.pkt
                               /\ \A p \in abandoned : p < current.pkt
  BY DEF Ordered, Behind
<1>5. Abandons(d) => /\ current # NoPacket /\ current.pkt < d.pkt /\ Starts(d)
                     /\ current.pkt \notin abandoned
  <2>1. Abandons(d) => current # NoPacket /\ current.pkt # d.pkt /\ Starts(d)
    BY DEF Abandons, Starts, Ordered, OneSeq
  <2>2. QED
    BY <1>1, <1>4, <2>1
<1>6. ~ Starts(d) => current # NoPacket /\ ~ Abandons(d)
  BY DEF Starts
<1>7. Count(d) = (IF Starts(d) THEN 0 ELSE received) + d.len
  BY DEF Count
<1>8. ASSUME d.pkt \in delivered
      PROVE  /\ d.off > 0 /\ ~ Abandons(d)
             /\ current # NoPacket => current.pkt = d.pkt
             /\ Count(d) \in Nat /\ Count(d) < d.off + d.len
  <2>1. d.off > 0 /\ (current # NoPacket => current.pkt = d.pkt /\ received < d.off)
    BY <1>8 DEF Ordered, NotAgain, OnlyRest
  <2>2. ~ Abandons(d)
    BY <1>1, <1>4, <1>5, <2>1
  <2>3. Count(d) \in Nat /\ Count(d) < d.off + d.len
    BY <1>1, <1>2, <1>6, <1>7, <2>1
  <2>4. QED
    BY <2>1, <2>2, <2>3
<1>9. Completes(d) => d.pkt \notin delivered
  <2>1. Completes(d) <=> Count(d) >= d.total
    BY DEF Completes
  <2>2. QED
    BY <1>1, <1>8, <2>1
<1>10. /\ current' # NoPacket => current' = d \/ (current' = current /\ ~ Starts(d))
       /\ current' # NoPacket => current'.pkt \in 1 .. framed /\ current'.pkt <= d.pkt
  <2>1. d.pkt <= d.pkt
    BY <1>1
  <2>2. current' # NoPacket => current' = d \/ (current' = current /\ ~ Starts(d))
    BY <1>3
  <2>3. QED
    BY <1>1, <1>4, <1>6, <2>1, <2>2
<1>11. OneSeq'
  <2>1. \A a, b \in net' : a.pkt = b.pkt => a.seq = b.seq
    BY DEF Ordered, OneSeq
  <2>2. busy' => \A e \in net' : e.pkt = framed' => e.seq = seqOf'
    BY <1>2 DEF Ordered, OneSeq
  <2>3. ASSUME current' # NoPacket
        PROVE  /\ \A e \in net' : e.pkt = current'.pkt => e.seq = current'.seq
               /\ busy' /\ framed' = current'.pkt => current'.seq = seqOf'
    <3>1. CASE current' = d
      BY <1>2, <3>1 DEF Ordered, OneSeq
    <3>2. CASE current' = current
      BY <1>2, <2>3, <3>2 DEF Ordered, OneSeq
    <3>3. QED
      BY <1>10, <2>3, <3>1, <3>2
  <2>4. QED
    BY <2>1, <2>2, <2>3 DEF OneSeq
<1>12. SomeBytes'
  BY <1>2 DEF Ordered, SomeBytes
<1>13. Behind'
  <2>1. delivered' \subseteq 1 .. framed /\ abandoned' \subseteq 1 .. framed
    BY <1>1, <1>3, <1>4, <1>5
  <2>2. /\ \A p \in delivered' : p <= d.pkt
        /\ \A p \in abandoned' : p < d.pkt
    BY <1>1, <1>3, <1>4, <1>5
  <2>3. busy' => framed' \notin abandoned'
    BY <1>1, <1>2, <2>2
  <2>4. ASSUME NEW e \in net'
        PROVE  /\ \A p \in delivered' : p <= e.pkt
               /\ \A p \in abandoned' : p < e.pkt
               /\ current' # NoPacket => current'.pkt <= e.pkt
    <3>1. e.pkt \in Nat /\ d.pkt <= e.pkt
      BY <1>1
    <3>2. \A p \in delivered' \cup abandoned' : p \in Nat
      BY <1>2, <2>1
    <3>3. QED
      BY <1>1, <1>10, <2>2, <3>1, <3>2
  <2>5. current' # NoPacket => \A p \in abandoned' : p < current'.pkt
    BY <1>3, <1>4, <1>6, <1>10, <2>2
  <2>6. QED
    BY <1>2, <1>10, <2>1, <2>3, <2>4, <2>5 DEF Behind
<1>14. NotAgain'
  <2> SUFFICES ASSUME NEW p \in delivered'
               PROVE  /\ \A e \in net' : e.pkt = p => OnlyRest(p, e.off)'
                      /\ busy /\ framed = p => OnlyRest(p, cursor)'
    BY <1>2 DEF NotAgain, OnlyRest
  <2>1. p = d.pkt \/ (p \in delivered /\ p < d.pkt)
    BY <1>1, <1>2, <1>3, <1>4
  <2>2. CASE p # d.pkt
    <3>1. \A e \in net' : e.pkt # p
      BY <1>1, <1>2, <1>4, <2>1, <2>2
    <3>2. framed # p
      BY <1>1, <1>2, <1>4, <2>1, <2>2
    <3>3. QED
      BY <3>1, <3>2
  <2>3. CASE p = d.pkt
    <3>1. ASSUME NEW off \in Nat, d.len > 0, d.off + d.len <= off
          PROVE  off > 0 /\ (current' # NoPacket => current'.pkt = p /\ received' < off)
      <4>1. off > 0
        BY <1>1, <3>1
      <4>2. ASSUME current' # NoPacket
            PROVE  current'.pkt = p /\ received' < off
        <5>1. ~ Completes(d) /\ d.pkt \in delivered
          BY <1>3, <2>3, <4>2
        <5>2. current'.pkt = p
          BY <1>6, <1>8, <1>10, <2>3, <4>2, <5>1
        <5>3. received' < off
          BY <1>1, <1>3, <1>8, <3>1, <5>1
        <5>4. QED
          BY <5>2, <5>3
      <4>3. QED
        BY <4>1, <4>2
    <3>2. \A e \in net' : e.pkt = p => OnlyRest(p, e.off)'
      BY <1>1, <2>3, <3>1 DEF OnlyRest
    <3>3. busy /\ framed = p => OnlyRest(p, cursor)'
      BY <1>1, <1>2, <2>3, <3>1 DEF OnlyRest
    <3>4. QED
      BY <3>2, <3>3
  <2>4. QED
    BY <2>2, <2>3
<1>15. Counted'
  <2>1. IsFiniteSet(delivered) /\ IsFiniteSet(abandoned)
    <3>1. IsFiniteSet(1 .. framed)
      BY <1>2, FS_Interval
    <3>2. QED
      BY <1>4, <3>1, FS_Subset
  <2>2. lost = Cardinality(abandoned) /\ complete = Cardinality(delivered)
    BY DEF Ordered, Counted
  <2>3. lost' = Cardinality(abandoned')
    <3>1. CASE Abandons(d)
      <4>1. Cardinality(abandoned \cup {current.pkt}) = Cardinality(abandoned) + 1
        BY <1>5, <2>1, <3>1, FS_AddElement
      <4>2. QED
        BY <1>3, <2>2, <3>1, <4>1
    <3>2. CASE ~ Abandons(d)
      BY <1>2, <1>3, <2>2, <3>2
    <3>3. QED
      BY <3>1, <3>2
  <2>4. complete' = Cardinality(delivered')
    <3>1. CASE Completes(d)
      <4>1. Cardinality(delivered \cup {d.pkt}) = Cardinality(delivered) + 1
        BY <1>9, <2>1, <3>1, FS_AddElement
      <4>2. QED
        BY <1>3, <2>2, <3>1, <4>1
    <3>2. CASE ~ Completes(d)
      BY <1>2, <1>3, <2>2, <3>2
    <3>3. QED
      BY <3>1, <3>2
  <2>5. QED
    BY <2>3, <2>4 DEF Counted
<1>16. QED
  BY <1>9, <1>11, <1>12, <1>13, <1>14, <1>15 DEF Ordered

(* A second delivery ends the condition; nothing restores it.               *)
LEMMA StillOnce ==
  ASSUME TypeOK, [Next]_vars, faults'["dup"] = 0
  PROVE  faults["dup"] = 0 /\ \A d \in net : ~ DeliverAndKeep(d)
<1>1. faults \in [FaultKinds -> Nat] /\ faults["dup"] \in Nat
  BY DEF TypeOK, FaultKinds
<1>2. ASSUME NEW k \in FaultKinds, Happens(k)
      PROVE  /\ faults'[k] = faults[k] + 1
             /\ \A j \in FaultKinds \ {k} : faults'[j] = faults[j]
  BY <1>1, <1>2 DEF Happens
<1>3. ASSUME NEW d \in net
      PROVE  ~ DeliverAndKeep(d)
  <2>1. DeliverAndKeep(d) => faults'["dup"] = faults["dup"] + 1
    BY <1>2 DEF DeliverAndKeep, FaultKinds
  <2>2. QED
    BY <1>1, <2>1
<1>4. faults'["dup"] = faults["dup"]
  <2>1. CASE faults' = faults
    BY <2>1
  <2>2. CASE Happens("loss") \/ Happens("fail") \/ Happens("restart")
    BY <1>2, <2>2 DEF FaultKinds
  <2>3. faults' = faults \/ Happens("loss") \/ Happens("fail") \/ Happens("restart")
    BY <1>3 DEF Next, vars, BudgetRefuses, BeginFrame, Emit, EmitFails, Restart,
                Lose, Deliver, ReceiveStray, StopReceiving, Deliverable
  <2>4. QED
    BY <2>1, <2>2, <2>3
<1>5. QED
  BY <1>3, <1>4

(* What a delivery does on a network that keeps the order.                  *)
LEMMA DeliverOrdered ==
  ASSUME Fifo, TypeOK, NetInv, Ordered, NEW d \in Deliverable, Deliver(d)
  PROVE  /\ Ordered'
         /\ complete' # complete =>
              /\ result'.pkt = d.pkt /\ d.pkt \notin delivered
              /\ \A p \in delivered : p <= d.pkt
<1>1. d \in net /\ \A e \in net : NotAfter(d, e)
  BY DEF Deliverable
<1>2. Push(d) /\ TrackGhosts(d) /\ UNCHANGED <<size, txVars>> /\ net' = net \ {d}
  BY DEF Deliver, Receive
<1>3. CASE Accept(d)
  <2>1. Ordered' /\ (Completes(d) => d.pkt \notin delivered)
    BY <1>1, <1>2, <1>3, AcceptOrdered
  <2>2. complete' # complete => Completes(d)
    <3>1. complete \in Nat /\ (~ Completes(d) => complete' = complete + 0)
      BY <1>3 DEF Accept, TypeOK
    <3>2. QED
      BY <3>1
  <2>3. Completes(d) => result'.pkt = d.pkt
    BY <1>3 DEF Accept, Outcome
  <2>4. \A p \in delivered : p <= d.pkt
    BY <1>1 DEF Ordered, Behind
  <2>5. QED
    BY <2>1, <2>2, <2>3, <2>4
<1>4. CASE Refuse(d)
  <2>1. UNCHANGED <<delivered, abandoned, current, received, complete, lost>>
    BY <1>2, <1>4 DEF Refuse, TrackGhosts, ghosts
  <2>2. UNCHANGED <<size, framed, seqOf, cursor>> /\ (busy' => busy)
    BY <1>2 DEF txVars
  <2>3. net' \subseteq net
    BY <1>2
  <2>4. Ordered'
    BY <2>1, <2>2, <2>3, QuietOrdered
  <2>5. QED
    BY <2>1, <2>4
<1>5. QED
  BY <1>2, <1>3, <1>4 DEF Push

(* Every other step but BeginFrame and Emit adds nothing.                   *)
LEMMA NextOrdered ==
  ASSUME Fifo, TypeOK, NetInv, OrderedInv, [Next]_vars
  PROVE  OrderedInv'
<1> SUFFICES ASSUME faults'["dup"] = 0
             PROVE  Ordered'
  BY DEF OrderedInv
<1>1. Ordered /\ \A d \in net : ~ DeliverAndKeep(d)
  BY StillOnce DEF OrderedInv
<1>2. CASE BeginFrame
  BY <1>1, <1>2, BeginOrdered
<1>3. CASE Emit
  BY <1>1, <1>3, EmitOrdered
<1>4. ASSUME NEW d \in Deliverable, Deliver(d)
      PROVE  Ordered'
  BY <1>1, <1>4, DeliverOrdered
<1>5. CASE \/ BudgetRefuses \/ EmitFails \/ Restart \/ StopReceiving
           \/ ReceiveStray \/ UNCHANGED vars
  <2>1. /\ net' = net /\ (busy' => busy)
        /\ UNCHANGED <<size, framed, seqOf, cursor, current, received, lost,
                       complete, delivered, abandoned>>
    BY <1>5 DEF BudgetRefuses, EmitFails, Restart, StopReceiving, ReceiveStray,
                PushUnparsable, vars, txVars, ghosts, rxVars
  <2>2. QED
    BY <1>1, <2>1, QuietOrdered
<1>6. ASSUME NEW d \in net, Lose(d)
      PROVE  Ordered'
  <2>1. /\ net' \subseteq net /\ (busy' => busy)
        /\ UNCHANGED <<size, framed, seqOf, cursor, current, received, lost,
                       complete, delivered, abandoned>>
    BY <1>6 DEF Lose, txVars, ghosts, rxVars
  <2>2. QED
    BY <1>1, <2>1, QuietOrdered
<1>7. QED
  BY <1>1, <1>2, <1>3, <1>4, <1>5, <1>6 DEF Next, Deliverable

(* Only a delivery counts a packet complete.                                *)
LEMMA NextInOrder ==
  ASSUME Fifo, TypeOK, NetInv, OrderedInv, [Next]_vars, faults'["dup"] = 0,
         complete' > complete
  PROVE  \A p \in delivered : p < result'.pkt
<1>1. Ordered /\ \A d \in net : ~ DeliverAndKeep(d)
  BY StillOnce DEF OrderedInv
<1>2. complete' # complete
  BY DEF TypeOK
<1>3. PICK d \in Deliverable : Deliver(d)
  <2>1. \/ complete' = complete
        \/ \E d \in Deliverable : Deliver(d) \/ DeliverAndKeep(d)
    BY DEF Next, vars, rxVars, BudgetRefuses, BeginFrame, Emit, EmitFails,
           Restart, Lose, StopReceiving, ReceiveStray, PushUnparsable
  <2>2. QED
    BY <1>1, <1>2, <2>1 DEF Deliverable
<1>4. /\ result'.pkt = d.pkt /\ d.pkt \notin delivered
      /\ \A p \in delivered : p <= d.pkt
  BY <1>1, <1>2, <1>3, DeliverOrdered
<1>5. d.pkt \in Nat /\ delivered \subseteq Nat
  BY <1>3 DEF TypeOK, Deliverable, Datagram
<1>6. QED
  BY <1>4, <1>5

LEMMA OrderedAlways ==
  ASSUME Fifo
  PROVE  Spec => [](TypeOK /\ NetInv /\ OrderedInv)
<1>1. Init => TypeOK /\ NetInv /\ OrderedInv
  BY InitType, InitNet, InitOrdered
<1>2. TypeOK /\ NetInv /\ OrderedInv /\ [Next]_vars
        => (TypeOK /\ NetInv /\ OrderedInv)'
  BY NextType, NextNet, NextOrdered DEF NetInv
<1>3. QED
  BY <1>1, <1>2, PTL DEF Spec

(* On a network that keeps the order, the receiver's two counters are exact *)
(* as long as nothing is repeated: each packet given up is counted lost     *)
(* once, each packet delivered complete once, for any modulus of the        *)
(* sequence numbers and any number of losses and restarts.                  *)
THEOREM RawUdpStats ==
  ASSUME Fifo
  PROVE  Spec => []StatsExact
<1>1. OrderedInv => StatsExact
  BY DEF OrderedInv, Ordered, Counted, StatsExact
<1>2. QED
  BY <1>1, OrderedAlways, PTL

(* On such a network, packets are announced in the order they were framed,  *)
(* across losses, failed sends, wraps of the sequence number and restarts   *)
(* of the sender.                                                           *)
THEOREM RawUdpOrder ==
  ASSUME Fifo
  PROVE  Spec => OrderedDelivery
<1>1. TypeOK /\ NetInv /\ OrderedInv /\ [Next]_vars =>
        [faults'["dup"] = 0 /\ complete' > complete =>
           \A p \in delivered : p < result'.pkt]_vars
  BY NextInOrder
<1>2. QED
  BY <1>1, OrderedAlways, PTL DEF Spec, OrderedDelivery

===============================================================================
