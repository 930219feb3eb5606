-------------------------------- MODULE RawUdp --------------------------------
(***************************************************************************)
(* Raw packets over UDP, end to end: `RawUdpSender::send_packet` and        *)
(* `Framer::frame` on the device, the network, and `receive_raw` around the *)
(* Reassembler on the hub.                                                  *)
(*                                                                          *)
(* Packets are numbered from 1 in the order they are framed; size[p] is the *)
(* length of packet p.  The number is a ghost: the wire carries only        *)
(* Framer's `seq`, which wraps and starts again at 0 when the device does.  *)
(***************************************************************************)
EXTENDS Reassembler

CONSTANTS
  PayloadMax,   \* mtu - HEADER_LEN: payload bytes in one datagram
  SeqMod,       \* 2^32 in the code: `seq` is a wrapping u32
  Sizes,        \* the packet lengths the source produces
  MaxPackets,   \* bound: packets framed
  MaxRefused,   \* bound: packets the rate budget refuses
  MaxStray,     \* bound: foreign datagrams that reach the socket
  MaxLoss,      \* bound: datagrams the network loses
  MaxDup,       \* bound: datagrams the network delivers once more
  MaxFail,      \* bound: failed socket sends
  MaxRestart,   \* bound: restarts of the sending device
  Fifo,         \* TRUE: the network does not reorder
  UntilFrames   \* Until::frames, 0 for no limit

ASSUME PayloadMaxAssumption == PayloadMax \in Nat \ {0}
ASSUME SeqModAssumption == SeqMod \in Nat \ {0}
ASSUME SizesAssumption == Sizes \subseteq Nat
ASSUME BoundsAssumption ==
  /\ MaxPackets \in Nat /\ MaxRefused \in Nat /\ MaxStray \in Nat
  /\ MaxLoss \in Nat /\ MaxDup \in Nat /\ MaxFail \in Nat /\ MaxRestart \in Nat
  /\ Fifo \in BOOLEAN /\ UntilFrames \in Nat

VARIABLES
  size,       \* length of each packet (fixed when the source is)
  framed,     \* packets framed so far; the number of the last one
  nextSeq,    \* Framer::seq
  seqOf,      \* `seq` of packet `framed`, held across the frame loop
  busy,       \* TRUE inside Framer::frame, between two datagrams
  cursor,     \* its `offset`
  tx,         \* TxStats
  net,        \* datagrams in flight
  faults,     \* what the environment did so far
  listening,  \* receive_raw is in its loop
  rx,         \* RxStats counted in the loop itself
  got,        \* ghost: positions of `current` that have arrived
  delivered,  \* ghost: packets announced to on_packet, whole or not
  abandoned,  \* ghost: packets given up
  whole,      \* ghost: packets announced with every byte their own
  mixed,      \* ghost: packets taken for an unfinished packet of the same `seq`
  hurt        \* ghost: packets the socket or the network lost or repeated a part of

txVars == <<framed, nextSeq, seqOf, busy, cursor, tx>>
ghosts == <<got, delivered, abandoned, whole, mixed>>
vars == <<size, txVars, net, faults, listening, rx, ghosts, hurt, rxVars>>

Packets == 1 .. MaxPackets

FaultKinds == {"loss", "dup", "fail", "restart"}

Happens(kind) == faults' = [faults EXCEPT ![kind] = @ + 1]

Init ==
  /\ size \in [Packets -> Sizes]
  /\ framed = 0 /\ nextSeq = 0 /\ seqOf = 0
  /\ busy = FALSE /\ cursor = 0
  /\ tx = [packets |-> 0, frames |-> 0, dropped |-> 0]
  /\ net = {}
  /\ faults = [k \in FaultKinds |-> 0]
  /\ listening = TRUE
  /\ rx = [packets |-> 0, bad |-> 0]
  /\ got = {} /\ delivered = {} /\ abandoned = {}
  /\ whole = {} /\ mixed = {} /\ hurt = {}
  /\ ReassemblerInit

------------------------------------------------------------------------------
(* The sender.                                                              *)

(* The budget refuses a packet: counted, and no sequence number is used.    *)
BudgetRefuses ==
  /\ ~ busy /\ tx.dropped < MaxRefused
  /\ tx' = [packets |-> tx.packets, frames |-> tx.frames,
            dropped |-> tx.dropped + 1]
  /\ UNCHANGED <<size, framed, nextSeq, seqOf, busy, cursor, net, faults,
                 listening, rx, ghosts, hurt, rxVars>>

(* frame() takes its sequence number before it emits anything.              *)
SeqAfter(s) == (s + 1) % SeqMod

BeginFrame ==
  /\ ~ busy /\ framed < MaxPackets
  /\ framed' = framed + 1
  /\ seqOf' = nextSeq
  /\ nextSeq' = SeqAfter(nextSeq)
  /\ busy' = TRUE /\ cursor' = 0
  /\ UNCHANGED <<size, tx, net, faults, listening, rx, ghosts, hurt, rxVars>>

SmallerOf(a, b) == IF a <= b THEN a ELSE b

Take == SmallerOf(size[framed] - cursor, PayloadMax)

NextDatagram ==
  [pkt |-> framed, seq |-> seqOf, total |-> size[framed],
   off |-> cursor, len |-> Take]

LastDatagram == cursor + Take >= size[framed]

(* One turn of the loop: the socket takes the datagram.  An empty packet    *)
(* makes one turn too.                                                      *)
Emit ==
  /\ busy
  /\ net' = net \cup {NextDatagram}
  /\ cursor' = cursor + Take
  /\ busy' = ~ LastDatagram
  /\ tx' = [packets |-> tx.packets + 1, dropped |-> tx.dropped,
            frames |-> tx.frames + (IF LastDatagram THEN 1 ELSE 0)]
  /\ UNCHANGED <<size, framed, nextSeq, seqOf, faults, listening, rx, ghosts,
                 hurt, rxVars>>

(* The socket refuses it: `emit(..)?` leaves the rest of the packet unsent. *)
EmitFails ==
  /\ busy /\ faults["fail"] < MaxFail
  /\ busy' = FALSE
  /\ Happens("fail")
  /\ hurt' = hurt \cup {framed}
  /\ UNCHANGED <<size, framed, nextSeq, seqOf, cursor, tx, net, listening, rx,
                 ghosts, rxVars>>

(* The device restarts, between packets or inside one: a new Framer.        *)
Restart ==
  /\ faults["restart"] < MaxRestart
  /\ Happens("restart")
  /\ nextSeq' = 0 /\ busy' = FALSE
  /\ tx' = [packets |-> 0, frames |-> 0, dropped |-> 0]
  /\ hurt' = IF busy THEN hurt \cup {framed} ELSE hurt
  /\ UNCHANGED <<size, framed, seqOf, cursor, net, listening, rx, ghosts,
                 rxVars>>

------------------------------------------------------------------------------
(* The network.                                                             *)

NotAfter(d, e) == d.pkt < e.pkt \/ (d.pkt = e.pkt /\ d.off <= e.off)

(* The datagrams the network may hand over next.                            *)
Deliverable == {d \in net : Fifo => \A e \in net : NotAfter(d, e)}

Lose(d) ==
  /\ faults["loss"] < MaxLoss
  /\ net' = net \ {d}
  /\ Happens("loss")
  /\ hurt' = hurt \cup {d.pkt}
  /\ UNCHANGED <<size, txVars, listening, rx, ghosts, rxVars>>

------------------------------------------------------------------------------
(* The receiver: the loop of receive_raw.                                   *)

Receiving == listening /\ (UntilFrames = 0 \/ complete < UntilFrames)

(* d comes while another packet with its sequence number is unfinished: the *)
(* receiver takes the two for one.                                          *)
Mixes(d) ==
  current # NoPacket /\ current.pkt # d.pkt /\ current.seq = d.seq

(* Every byte of d's packet is in the buffer once push has returned.        *)
LeavesWhole(d) == \A i \in 0 .. d.total - 1 : buf'[i] = d.pkt

TrackGhosts(d) ==
  IF Refused(d) THEN UNCHANGED ghosts
  ELSE /\ got' = (IF Starts(d) THEN {} ELSE got) \cup Span(d)
       /\ delivered' = IF Completes(d) THEN delivered \cup {d.pkt}
                       ELSE delivered
       /\ abandoned' = IF Abandons(d) THEN abandoned \cup {current.pkt}
                       ELSE abandoned
       /\ whole' = IF Completes(d) /\ LeavesWhole(d) THEN whole \cup {d.pkt}
                   ELSE whole
       /\ mixed' = IF Mixes(d) THEN mixed \cup {d.pkt} ELSE mixed

Receive(d) ==
  /\ Receiving
  /\ Push(d)
  /\ TrackGhosts(d)
  /\ rx' = [packets |-> rx.packets + 1,
            bad |-> rx.bad + (IF Refused(d) THEN 1 ELSE 0)]
  /\ UNCHANGED <<size, txVars, listening>>

Deliver(d) ==
  /\ Receive(d)
  /\ net' = net \ {d}
  /\ UNCHANGED <<faults, hurt>>

(* The network delivers d and will deliver it again.                        *)
DeliverAndKeep(d) ==
  /\ faults["dup"] < MaxDup
  /\ Receive(d)
  /\ Happens("dup")
  /\ hurt' = hurt \cup {d.pkt}
  /\ UNCHANGED net

ReceiveStray ==
  /\ Receiving /\ rx.bad < MaxStray
  /\ PushUnparsable
  /\ rx' = [packets |-> rx.packets + 1, bad |-> rx.bad + 1]
  /\ UNCHANGED <<size, txVars, net, faults, listening, ghosts, hurt>>

(* The deadline passes, the frame count is reached, or recv fails.          *)
StopReceiving ==
  /\ listening
  /\ listening' = FALSE
  /\ UNCHANGED <<size, txVars, net, faults, rx, ghosts, hurt, rxVars>>

------------------------------------------------------------------------------
Next ==
  \/ BudgetRefuses
  \/ BeginFrame
  \/ Emit
  \/ EmitFails
  \/ Restart
  \/ \E d \in net : Lose(d)
  \/ \E d \in Deliverable : Deliver(d)
  \/ \E d \in Deliverable : DeliverAndKeep(d)
  \/ ReceiveStray
  \/ StopReceiving

Spec == Init /\ [][Next]_vars

(* The sending loop and the receiving loop each keep running; nothing makes *)
(* the budget, the network or the deadline act.                             *)
Fairness ==
  /\ WF_vars(BeginFrame)
  /\ WF_vars(Emit)
  /\ WF_vars(\E d \in Deliverable : Deliver(d))

FairSpec == Spec /\ Fairness

------------------------------------------------------------------------------
(* Properties.                                                              *)

(* Type invariant of sender, network and receiver.                          *)
TypeOK ==
  /\ size \in [Packets -> Nat]
  /\ framed \in 0 .. MaxPackets
  /\ nextSeq \in 0 .. SeqMod - 1 /\ seqOf \in 0 .. SeqMod - 1
  /\ busy \in BOOLEAN /\ (busy => framed \in Packets)
  /\ cursor \in Nat
  /\ tx \in [packets : Nat, frames : Nat, dropped : Nat]
  /\ net \subseteq Datagram
  /\ faults \in [FaultKinds -> Nat]
  /\ listening \in BOOLEAN
  /\ rx \in [packets : Nat, bad : Nat]
  /\ got \subseteq Nat /\ delivered \subseteq Nat /\ abandoned \subseteq Nat
  /\ whole \subseteq Nat /\ mixed \subseteq Nat /\ hurt \subseteq Nat
  /\ buf \in [0 .. BufSize - 1 -> Nat]
  /\ current \in Datagram \cup {NoPacket}
  /\ received \in Nat /\ complete \in Nat /\ lost \in Nat
  /\ result \in Returned

(* As long as no two packets share a sequence number and the network has    *)
(* not delivered a datagram twice, `seq` and a byte count identify a whole  *)
(* packet.                                                                  *)
Distinguishable == faults["dup"] = 0 /\ faults["restart"] = 0 /\ framed <= SeqMod

(* When push returns Complete, every byte of the packet in the buffer is a  *)
(* byte of that packet (udp.rs:16-17, "reports gaps instead of guessing").  *)
CompleteIsWhole ==
  result.kind = "Complete" =>
    \A i \in 0 .. size[result.pkt] - 1 : buf[i] = result.pkt

(* Loss, reordering, failed sends and stray datagrams never make the        *)
(* reassembler hand over a packet with a byte missing or of another packet, *)
(* although it only counts bytes and never checks which ones arrived.       *)
Integrity == Distinguishable => CompleteIsWhole

(* The inductive invariant: what Integrity rests on.                        *)

(* Every datagram in flight is a piece of a packet already framed, and      *)
(* behind the cursor of the packet being framed.                            *)
NetOfFramed ==
  \A d \in net :
    /\ d.pkt \in 1 .. framed
    /\ d.total = size[d.pkt] /\ d.off + d.len <= d.total
    /\ busy /\ d.pkt = framed => d.off + d.len <= cursor

(* No two datagrams in flight carry the same byte of a packet.              *)
NetDisjoint ==
  \A d, e \in net :
    d # e /\ d.pkt = e.pkt => d.off + d.len <= e.off \/ e.off + e.len <= d.off

CursorInPacket == busy => cursor <= size[framed]

(* The sequence number tells packets apart.                                 *)
SeqNamesPacket ==
  /\ framed < SeqMod => nextSeq = framed
  /\ busy => seqOf = framed - 1
  /\ \A d \in net : d.seq = d.pkt - 1
  /\ current # NoPacket => current.seq = current.pkt - 1

(* What is counted for the packet in progress is what has arrived of it and *)
(* is in the buffer.                                                        *)
CountIsArrived ==
  current # NoPacket =>
    /\ current.pkt \in 1 .. framed /\ size[current.pkt] <= BufSize
    /\ got \subseteq 0 .. size[current.pkt] - 1
    /\ received = Cardinality(got)
    /\ \A i \in got : buf[i] = current.pkt

(* No byte that has arrived is still in flight or still to be sent.         *)
NothingTwice ==
  current # NoPacket =>
    /\ \A d \in net : d.pkt = current.pkt => got \cap Span(d) = {}
    /\ busy /\ current.pkt = framed => \A i \in got : i < cursor

UdpInv ==
  /\ TypeOK /\ NetOfFramed /\ NetDisjoint /\ CursorInPacket
  /\ Distinguishable =>
       SeqNamesPacket /\ CountIsArrived /\ NothingTwice /\ CompleteIsWhole

(* Under the same condition the receiver implements the packet channel: it  *)
(* never announces a packet twice, and never both gives it up and delivers  *)
(* it, in whatever order the datagrams come.                                *)
Channel == INSTANCE PacketChannel WITH offered <- framed
ImplementsChannel == Channel!Spec

(* On a network that keeps the order and delivers nothing twice,            *)
(* RxStats::lost and ::frames are exact: `lost` counts each packet given up *)
(* once, `complete` each packet delivered once, although sequence numbers   *)
(* wrap and the sender restarts, so that packets are taken for one another. *)
StatsExact ==
  faults["dup"] = 0 =>
    /\ lost = Cardinality(abandoned)
    /\ complete = Cardinality(delivered)

(* On a network that keeps the order and delivers nothing twice, packets    *)
(* are delivered in the order they were framed, whatever is lost between    *)
(* them.                                                                    *)
OrderedDelivery ==
  [][faults'["dup"] = 0 /\ complete' > complete =>
       \A p \in delivered : p < result'.pkt]_vars

(* On a network that keeps the order, a packet whose datagrams all come,    *)
(* each once, and which fits the buffer is announced with every byte of its *)
(* own in the buffer while the receiver listens, whatever befell the        *)
(* packets before it: a gap, a failed send or a second delivery costs only  *)
(* the packet it happens to.  The exception is a packet taken for an        *)
(* unfinished one that has its sequence number: that one is announced with  *)
(* a hole, or never (udp.rs:192-210), and it takes a restart or a wrap of   *)
(* the sequence numbers.                                                    *)
IntactArrives ==
  /\ \A p \in Packets :
       (framed = p /\ size[p] <= BufSize) ~>
         (p \in whole \/ p \in hurt \/ p \in mixed \/ ~ Receiving)
  /\ [](mixed # {} => faults["restart"] > 0 \/ framed > SeqMod)

==============================================================================
