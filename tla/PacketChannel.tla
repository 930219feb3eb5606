----------------------------- MODULE PacketChannel -----------------------------
(***************************************************************************)
(* What raw datagram transport promises: packets are offered one after the  *)
(* other, and the receiver is told of each at most once, that it has        *)
(* arrived or that it was given up, and never both.  A packet whose every   *)
(* datagram was lost is simply never mentioned.                             *)
(***************************************************************************)
EXTENDS Integers

VARIABLES
  offered,    \* number of packets offered: they are 1 .. offered
  delivered,  \* packets handed over whole
  abandoned   \* packets given up

channelVars == <<offered, delivered, abandoned>>

Open(p) == p \in (1 .. offered) \ (delivered \cup abandoned)

Init == offered = 0 /\ delivered = {} /\ abandoned = {}

Offer ==
  /\ offered' = offered + 1
  /\ UNCHANGED <<delivered, abandoned>>

Deliver(p) ==
  /\ Open(p)
  /\ delivered' = delivered \cup {p}
  /\ UNCHANGED <<offered, abandoned>>

(* Giving up a packet that was given up before changes nothing.             *)
Abandon(q) ==
  /\ Open(q)
  /\ abandoned' = abandoned \cup {q}
  /\ UNCHANGED <<offered, delivered>>

(* Packet q is given up for p, which arrives whole at once; q may already   *)
(* have been given up.                                                      *)
DeliverFor(p, q) ==
  /\ p # q /\ Open(p) /\ Open(q)
  /\ delivered' = delivered \cup {p}
  /\ abandoned' = abandoned \cup {q}
  /\ UNCHANGED offered

(* Packet q is given up for p, which turns out too long to be kept.         *)
AbandonBoth(p, q) ==
  /\ p # q /\ Open(p) /\ Open(q)
  /\ abandoned' = abandoned \cup {p, q}
  /\ UNCHANGED <<offered, delivered>>

Next ==
  \/ Offer
  \/ \E p \in 1 .. offered : Deliver(p) \/ Abandon(p)
  \/ \E p, q \in 1 .. offered : DeliverFor(p, q) \/ AbandonBoth(p, q)

Spec == Init /\ [][Next]_channelVars

==============================================================================
