-------------------------------- MODULE RtpJpeg --------------------------------
(***************************************************************************)
(* RTP/JPEG end to end: `RtpJpegSender::send_frame` and                     *)
(* `JpegPayloader::packetize` on the device, the network, and               *)
(* `receive_rtp_jpeg` around the JpegDepayloader on the hub.                *)
(*                                                                          *)
(* Frames are numbered from 1 in the order they are packetized; size[f] is  *)
(* the length of frame f's entropy-coded scan, ts[f] its RTP timestamp.     *)
(* Frames that the budget drops or the parser refuses never come this far:  *)
(* they, and the sender's statistics, are RtpSender's.                      *)
(***************************************************************************)
EXTENDS JpegDepayloader

CONSTANTS
  RoomFirst,    \* scan bytes in a first packet: the tables take the rest
  RoomRest,     \* scan bytes in the others
  FirstSeq,     \* ssrc & 0xFFFF
  Sizes,        \* scan lengths the camera produces (below 2^24)
  Stamps,       \* RTP timestamps
  Modes,        \* what the senders on this port do about tables
  MaxFrames,    \* bound: frames packetized
  MaxStray,     \* bound: foreign datagrams that reach the socket
  MaxLoss,      \* bound: packets the network loses
  MaxDup,       \* bound: packets the network delivers once more
  MaxFail,      \* bound: failed socket sends
  MaxRestart,   \* bound: restarts of the sending device
  Fifo          \* TRUE: the network does not reorder

ASSUME RoomAssumption == RoomFirst \in Nat \ {0} /\ RoomRest \in Nat \ {0}
ASSUME FirstSeqAssumption == FirstSeq \in 0 .. SeqMod - 1
ASSUME InputsAssumption ==
  Sizes \subseteq Nat /\ Stamps \subseteq Nat /\ Modes \subseteq AllModes
ASSUME BoundsAssumption ==
  /\ MaxFrames \in Nat /\ MaxStray \in Nat
  /\ MaxLoss \in Nat /\ MaxDup \in Nat /\ MaxFail \in Nat
  /\ MaxRestart \in Nat /\ Fifo \in BOOLEAN

VARIABLES
  size, ts, mode,  \* of each frame (fixed when the source is)
  framed,          \* frames packetized so far; the number of the last one
  nextSeq,         \* Rtp::seq
  nextIdx,         \* ghost: the same, unwrapped and from 0
  busy,            \* TRUE inside packetize, between two packets
  cursor,          \* its `off`
  net,             \* packets in flight
  faults,          \* what the environment did so far
  listening,       \* receive_rtp_jpeg is in its loop
  rx,              \* RxStats counted in the loop itself
  arrived,         \* ghost: idx of every packet the receiver has seen
  started,         \* ghost: frames whose first packet was stored
  delivered,       \* ghost: frames handed to on_frame
  abandoned,       \* ghost: frames given up
  hurt             \* ghost: frames a packet of which was lost, refused by the
                   \* socket, or repeated

source == <<size, ts, mode>>
txVars == <<framed, nextSeq, nextIdx, busy, cursor>>
ghosts == <<arrived, started, delivered, abandoned>>
vars == <<source, txVars, net, faults, listening, rx, ghosts, hurt, rxVars>>

Frames == 1 .. MaxFrames

FaultKinds == {"loss", "dup", "fail", "restart"}

Happens(kind) == faults' = [faults EXCEPT ![kind] = @ + 1]

(* The device clock never goes back.                                        *)
Init ==
  /\ size \in [Frames -> Sizes]
  /\ ts \in [Frames -> Stamps]
  /\ \A f, g \in Frames : f <= g => ts[f] <= ts[g]
  /\ mode \in [Frames -> Modes]
  /\ framed = 0 /\ nextSeq = FirstSeq /\ nextIdx = 0
  /\ busy = FALSE /\ cursor = 0
  /\ net = {}
  /\ faults = [k \in FaultKinds |-> 0]
  /\ listening = TRUE
  /\ rx = [packets |-> 0, frames |-> 0, bad |-> 0]
  /\ arrived = {} /\ started = {} /\ delivered = {} /\ abandoned = {}
  /\ hurt = {}
  /\ DepayloaderInit

------------------------------------------------------------------------------
(* The sender.                                                              *)

(* An empty scan makes no packet at all.                                    *)
BeginFrame ==
  /\ ~ busy /\ framed < MaxFrames
  /\ framed' = framed + 1
  /\ cursor' = 0
  /\ busy' = (size[framed + 1] > 0)
  /\ UNCHANGED <<source, nextSeq, nextIdx, net, faults, listening, rx, ghosts,
                 hurt, rxVars>>

Room == IF cursor = 0 THEN RoomFirst ELSE RoomRest
Left == size[framed] - cursor
Take == IF Left <= Room THEN Left ELSE Room
LastPacket == Left <= Room

NextPacket ==
  [frame |-> framed, idx |-> nextIdx, seq |-> nextSeq, ts |-> ts[framed],
   off |-> cursor, len |-> Take, marker |-> LastPacket, mode |-> mode[framed]]

(* write_header takes the sequence number before the packet is emitted, so  *)
(* a packet the socket refuses has used one.                                *)
SequenceStuck == UNCHANGED nextSeq /\ nextIdx' = nextIdx + 1
SequenceUnwrapped == nextSeq' = nextSeq + 1 /\ nextIdx' = nextIdx + 1
TakeSequence ==
  /\ nextSeq' = (nextSeq + 1) % SeqMod
  /\ nextIdx' = nextIdx + 1

Emit ==
  /\ busy
  /\ TakeSequence
  /\ net' = net \cup {NextPacket}
  /\ cursor' = cursor + Take
  /\ busy' = ~ LastPacket
  /\ UNCHANGED <<source, framed, faults, listening, rx, ghosts, hurt, rxVars>>

EmitFails ==
  /\ busy /\ faults["fail"] < MaxFail
  /\ TakeSequence
  /\ busy' = FALSE
  /\ Happens("fail")
  /\ hurt' = hurt \cup {framed}
  /\ UNCHANGED <<source, framed, cursor, net, listening, rx, ghosts,
                 rxVars>>

(* The device restarts, perhaps inside a frame: a new payloader begins at   *)
(* the sequence number the first one began at.                              *)
Restart ==
  /\ faults["restart"] < MaxRestart
  /\ Happens("restart")
  /\ nextSeq' = FirstSeq
  /\ busy' = FALSE
  /\ hurt' = IF busy THEN hurt \cup {framed} ELSE hurt
  /\ UNCHANGED <<source, framed, nextIdx, cursor, net, listening, rx, ghosts,
                 rxVars>>

------------------------------------------------------------------------------
(* The network.                                                             *)

Deliverable == {p \in net : Fifo => \A q \in net : p.idx <= q.idx}

Lose(p) ==
  /\ faults["loss"] < MaxLoss
  /\ net' = net \ {p}
  /\ Happens("loss")
  /\ hurt' = hurt \cup {p.frame}
  /\ UNCHANGED <<source, txVars, listening, rx, ghosts, rxVars>>

------------------------------------------------------------------------------
(* The receiver: the loop of receive_rtp_jpeg.                              *)

TrackGhosts(p) ==
  /\ arrived' = arrived \cup {p.idx}
  /\ started' = IF Supported(p) /\ p.off = 0 THEN started \cup {p.frame}
                ELSE started
  /\ delivered' = IF jpeg' # NoJpeg THEN delivered \cup {jpeg'.frame}
                  ELSE delivered
  /\ abandoned' =
       abandoned \cup (IF Supported(p) /\ CutsShort(p) THEN {meta} ELSE {})
                 \cup (IF result' = "Dropped" THEN {meta} ELSE {})
                 \cup (IF Stores(p) /\ result' = "Err" THEN {meta'} ELSE {})

Receive(p) ==
  /\ listening
  /\ Push(p)
  /\ TrackGhosts(p)
  /\ rx' = [packets |-> rx.packets + 1,
            frames |-> rx.frames + (IF result' = "Frame" THEN 1 ELSE 0),
            bad |-> rx.bad + (IF result' = "Err" THEN 1 ELSE 0)]
  /\ UNCHANGED <<source, txVars, listening>>

Deliver(p) ==
  /\ Receive(p)
  /\ net' = net \ {p}
  /\ UNCHANGED <<faults, hurt>>

(* The network delivers p and will deliver it again: the second copy is not *)
(* at the next offset, so the frame is dropped.                             *)
DeliverAndKeep(p) ==
  /\ faults["dup"] < MaxDup
  /\ Receive(p)
  /\ Happens("dup")
  /\ hurt' = hurt \cup {p.frame}
  /\ UNCHANGED net

ReceiveStray ==
  /\ listening /\ rx.bad < MaxStray
  /\ PushUnparsable
  /\ rx' = [packets |-> rx.packets + 1, frames |-> rx.frames,
            bad |-> rx.bad + 1]
  /\ UNCHANGED <<source, txVars, net, faults, listening, ghosts, hurt>>

(* The deadline passes, the frame count is reached, or recv fails.          *)
StopReceiving ==
  /\ listening
  /\ listening' = FALSE
  /\ UNCHANGED <<source, txVars, net, faults, rx, ghosts, hurt, rxVars>>

------------------------------------------------------------------------------
Next ==
  \/ BeginFrame
  \/ Emit
  \/ EmitFails
  \/ Restart
  \/ \E p \in net : Lose(p)
  \/ \E p \in Deliverable : Deliver(p)
  \/ \E p \in Deliverable : DeliverAndKeep(p)
  \/ ReceiveStray
  \/ StopReceiving

Spec == Init /\ [][Next]_vars

(* The sending loop and the receiving loop each keep running; nothing makes *)
(* the network or the deadline act, or the device restart.                  *)
Fairness ==
  /\ WF_vars(BeginFrame)
  /\ WF_vars(Emit)
  /\ WF_vars(\E p \in Deliverable : Deliver(p))

FairSpec == Spec /\ Fairness

------------------------------------------------------------------------------
(* Properties.                                                              *)

(* Type invariant of sender, network and receiver.                          *)
TypeOK ==
  /\ size \in [Frames -> Nat] /\ ts \in [Frames -> Nat]
  /\ mode \in [Frames -> AllModes]
  /\ framed \in 0 .. MaxFrames
  /\ nextSeq \in 0 .. SeqMod - 1 /\ nextIdx \in Nat
  /\ busy \in BOOLEAN /\ (busy => framed \in Frames)
  /\ cursor \in Nat
  /\ net \subseteq Packet
  /\ faults \in [FaultKinds -> Nat]
  /\ listening \in BOOLEAN
  /\ rx \in [packets : Nat, frames : Nat, bad : Nat]
  /\ arrived \subseteq Nat /\ started \subseteq Nat
  /\ delivered \subseteq Nat /\ abandoned \subseteq Nat /\ hurt \subseteq Nat
  /\ scan \in [0 .. ScanMax - 1 -> Nat]
  /\ scan_len \in 0 .. ScanMax
  /\ in_frame \in BOOLEAN
  /\ timestamp \in Nat /\ meta \in Nat /\ qtables \in Nat
  /\ last_seq \in -1 .. SeqMod - 1
  /\ jpeg \in Jpeg \cup {NoJpeg}
  /\ frames \in Nat /\ dropped \in Nat /\ lost \in Nat
  /\ result \in {"None", "Err", "Fragment", "Frame", "Dropped"}

(* A JPEG handed to on_frame has its own sender's size and type, its own    *)
(* tables when it came with some, and every byte of its own scan and no     *)
(* other (rtp.rs:633-634, "Loss is reported, not guessed").                 *)
JpegIsWhole ==
  jpeg # NoJpeg =>
    /\ jpeg.len = size[jpeg.frame]
    /\ \A i \in 0 .. jpeg.len - 1 : scan[i] = jpeg.frame
    /\ mode[jpeg.frame] = "inband" => jpeg.tables = jpeg.frame

DistinctStamps == \A f, g \in Frames : f # g => ts[f] # ts[g]

(* While the sender does not restart the order alone keeps frames apart;    *)
(* across a restart, which may repeat the sequence numbers of a frame left  *)
(* unfinished, only their timestamps do.                                    *)
WholeAcrossRestarts ==
  faults["restart"] = 0 \/ DistinctStamps => JpegIsWhole

(* Whatever the network loses, reorders or repeats, while no two frames     *)
(* share an RTP timestamp: the offset alone does not tell frames apart, the *)
(* timestamp has to.                                                        *)
Integrity == DistinctStamps => JpegIsWhole

(* What holds of sender, network and receiver: their types, and that no     *)
(* mixed JPEG is ever handed over (rtp.rs:633-634).                         *)
RtpInv == TypeOK /\ Integrity

(* With nothing delivered twice, the receiver implements the packet         *)
(* channel: a frame is delivered or dropped, at most once and never both.   *)
Channel == INSTANCE PacketChannel WITH offered <- framed
ImplementsChannel == Channel!Spec

(* On a network that keeps the order, `lost` is exactly the number of       *)
(* packets missing between the first and the last that arrived; a sender    *)
(* that restarts (rtp.rs:41) adds at most half the circle of sequence       *)
(* numbers each time.                                                       *)
LostExact ==
  arrived # {} =>
    \E first, last \in arrived :
      LET missing == last - first + 1 - Cardinality(arrived)
      IN  /\ \A i \in arrived : first <= i /\ i <= last
          /\ faults["restart"] = 0 => lost = missing
          /\ lost <= missing + faults["restart"] * (SeqMod \div 2)

(* On a network that repeats nothing, whatever it loses or reorders, and    *)
(* with senders that put the tables in every frame, every frame whose start *)
(* was received is accounted for once: delivered, dropped or in progress.   *)
(* (A frame refused for want of tables stays in progress with an empty      *)
(* scan, and is counted as dropped only if one of its packets arrives       *)
(* before the next start.)                                                  *)
EveryStartAccounted ==
  faults["dup"] = 0 /\ (\A f \in Frames : mode[f] # "reuse") =>
    Cardinality(started) = frames + dropped + (IF in_frame THEN 1 ELSE 0)

(* On a network that keeps the order, a frame that brings its tables, fits  *)
(* the buffer and had no packet lost or repeated is delivered while the     *)
(* receiver listens, whatever befell the frames before it: the receiver     *)
(* always resynchronises at a frame start.                                  *)
IntactArrives ==
  \A f \in Frames :
    (framed = f /\ size[f] \in 1 .. ScanMax /\ mode[f] = "inband") ~>
      (f \in delivered \/ f \in hurt \/ ~ listening)

(* In whatever order the packets come (and `lost` may count one of a pair   *)
(* that was swapped), a loss is never hidden: `lost` is at least the number *)
(* of packets missing between any that came before and the last that came.  *)
LossNeverHidden ==
  \A i, last \in arrived :
    (FirstSeq + last) % SeqMod = last_seq =>
      lost >= Cardinality((i .. last) \ arrived)

==============================================================================
