------------------------------- MODULE RtpSender -------------------------------
(***************************************************************************)
(* `RtpJpegSender::send_frame` of esp/udp_net.rs, whole: the Budget is      *)
(* charged an estimate, the JPEG is parsed, and `JpegPayloader::packetize`  *)
(* sends it packet by packet over a socket that may fail.  Sizes are the    *)
(* code's own, in bytes.  What becomes of the packets is RtpJpeg's.         *)
(*                                                                          *)
(* A sender made without a budget is one whose rate is 0.                   *)
(***************************************************************************)
EXTENDS Budget, JpegScan

CONSTANTS
  Mtu,          \* bytes of a packet, at most
  Jpegs,        \* the files handed to send_frame
  MaxFail       \* bound: failed socket sends

HeaderLen == 12 + 8        \* RTP, and the main JPEG header
RestartLen == 4
TablesLen(n) == 4 + 64 * n

(* JpegPayloader::new refuses a smaller one.                                *)
ASSUME MtuAssumption == Mtu \in Nat /\ Mtu >= HeaderLen + RestartLen + TablesLen(2) + 1
ASSUME JpegsAssumption == Jpegs \subseteq JpegFile
ASSUME MaxFailAssumption == MaxFail \in Nat

NoFile == [segs |-> <<>>, scan |-> 0, eoi |-> FALSE]

VARIABLES
  jpeg,         \* the file in hand
  info,         \* what JpegScan::parse made of it
  sending,      \* TRUE inside packetize, between two packets
  off,          \* its `off`
  stats,        \* TxStats
  fails,        \* failed socket sends
  panicked,     \* the thread of the sender is gone
  sent,         \* ghost: bytes sent of the frames captured since `from`
  marked,       \* ghost: packets of them with a restart header
  packet        \* ghost: header and scan bytes of the last packet

frameVars == <<jpeg, info, sending, off>>
sendVars == <<stats, fails, sent, marked, packet>>
senderVars == <<vars, frameVars, sendVars, panicked>>

CeilDiv(a, b) == (a + b - 1) \div b

Room == Mtu - HeaderLen    \* of a packet, without restart header or tables

(* The estimate, from the length of the whole file.                         *)
WireLenOfFile(file) == FileLen(file)
WireLen(file) ==
  LET len == FileLen(file)
  IN  len + CeilDiv(len, Room) * HeaderLen + 4 + 128

(* What the budget can be asked for.                                        *)
ASSUME FrameSizesAssumption == FrameSizes = {WireLen(file) : file \in Jpegs}

SenderInit ==
  /\ Init
  /\ jpeg = NoFile /\ info = Nothing /\ sending = FALSE /\ off = 0
  /\ stats = [frames |-> 0, packets |-> 0, bytes |-> 0, dropped |-> 0]
  /\ fails = 0 /\ panicked = FALSE
  /\ sent = 0 /\ marked = 0 /\ packet = [head |-> 0, body |-> 1]

Ready == ~ sending /\ ~ panicked /\ admitted + dropped < MaxFrames

(* The budget refuses the frame: it is not even parsed.                     *)
FrameDropped(file, t) ==
  /\ Ready
  /\ Drop(t, WireLen(file))
  /\ stats' = [stats EXCEPT !.dropped = @ + 1]
  /\ UNCHANGED <<frameVars, fails, sent, marked, packet, panicked>>

(* The budget is charged, and then the file turns out not to be carriable,  *)
(* to have an empty scan (no packet, and still a frame sent), or to be sent.*)
FrameAdmitted(file, t) ==
  /\ Ready
  /\ AdmitUncapped(t, WireLen(file)) \/ Admit(t, WireLen(file))
  /\ jpeg' = file
  /\ info' = Parse(file)
  /\ off' = 0
  /\ sending' = (info'.status = "ok" /\ file.scan > 0)
  /\ stats' = [stats EXCEPT !.frames =
                 @ + (IF info'.status = "ok" /\ file.scan = 0 THEN 1 ELSE 0)]
  /\ UNCHANGED <<fails, sent, marked, packet, panicked>>

(* Before the first packet the tables 0 .. count - 1 are copied, 64 bytes   *)
(* from each: one that the file does not have is a slice of another length, *)
(* and copy_from_slice panics.                                              *)
TablesHeld == 0 .. info.count - 1 \subseteq info.present

CopyPanics ==
  /\ sending /\ off = 0 /\ ~ TablesHeld
  /\ panicked' = TRUE /\ sending' = FALSE
  /\ UNCHANGED <<vars, jpeg, info, off, sendVars>>

HeadLen ==
  HeaderLen + (IF info.restart THEN RestartLen ELSE 0)
            + (IF off = 0 THEN TablesLen(info.count) ELSE 0)
TakeToTheBrim == LesserOf(jpeg.scan - off, Room)
Take == LesserOf(jpeg.scan - off, Mtu - HeadLen)
Last == off + Take = jpeg.scan

Sendable == sending /\ (off = 0 => TablesHeld)

InStretch == clock >= from

SendPacket ==
  /\ Sendable
  /\ off' = off + Take
  /\ sending' = ~ Last
  /\ stats' = [stats EXCEPT !.packets = @ + 1, !.bytes = @ + HeadLen + Take,
                            !.frames = @ + (IF Last THEN 1 ELSE 0)]
  /\ sent' = sent + (IF InStretch THEN HeadLen + Take ELSE 0)
  /\ marked' = marked + (IF InStretch /\ info.restart THEN 1 ELSE 0)
  /\ packet' = [head |-> HeadLen, body |-> Take]
  /\ UNCHANGED <<vars, jpeg, info, fails, panicked>>

(* The rest of the frame is not sent, and what it was charged is not given  *)
(* back.                                                                    *)
SendFails ==
  /\ Sendable /\ fails < MaxFail
  /\ fails' = fails + 1
  /\ sending' = FALSE
  /\ UNCHANGED <<vars, jpeg, info, off, stats, sent, marked, packet, panicked>>

SenderNext ==
  \/ \E t \in clock .. MaxTime, file \in Jpegs :
       FrameDropped(file, t) \/ FrameAdmitted(file, t)
  \/ CopyPanics
  \/ SendPacket
  \/ SendFails

SenderSpec == SenderInit /\ [][SenderNext]_senderVars

------------------------------------------------------------------------------
(* Type invariant of the sender.                                            *)
SenderTypeOK ==
  /\ TypeOK
  /\ jpeg \in Jpegs \cup {NoFile}
  /\ info \in [status : {"open", "ok", "InvalidFormat", "Unsupported"},
               present : SUBSET {0, 1}, count : 0 .. 2,
               dims : BOOLEAN, restart : BOOLEAN]
  /\ sending \in BOOLEAN /\ panicked \in BOOLEAN
  /\ off \in 0 .. jpeg.scan /\ (sending => off < jpeg.scan)
  /\ stats \in [frames : Nat, packets : Nat, bytes : Nat, dropped : Nat]
  /\ fails \in Nat /\ sent \in Nat /\ marked \in Nat
  /\ packet \in [head : Nat, body : Nat]

(* Down to the smallest MTU the payloader accepts, with two tables and a    *)
(* restart header, every packet fits and carries at least one byte of the   *)
(* scan: packetize's loop ends (rtp.rs:357-358).                            *)
PacketFits == packet.body > 0 /\ packet.head + packet.body <= Mtu

SenderInv == SenderTypeOK /\ PacketFits

(* udp_net.rs:65-67, the cap is on wire bytes: in every stretch of time the *)
(* frames captured in it put at most the burst plus the rate on the wire.   *)
(* The estimate overlooks restart headers: each packet that has one may     *)
(* cost its 4 bytes more, and, because they leave less room for the scan,   *)
(* 4 parts in Room of the header of another packet.                         *)
WireRateBound ==
  bytes_per_second > 0 /\ sent > 0 =>
    Second * (Room * sent - Mtu * (RestartLen * marked))
      <= Room * (Second * burst_bytes + bytes_per_second * (last - from))

(* parse lets a file through exactly if RFC 2435 can carry it, in whatever  *)
(* order its segments come (rtp.rs:220-222).                                *)
ParseAgrees == jpeg # NoFile => (info.status = "ok" <=> Carriable(jpeg))

(* rtp.rs:210-213: qtables are "64 bytes each" and qtable_count the "number *)
(* of quantization tables present", so whatever parse accepts can be copied *)
(* into the first packet.                                                   *)
TablesPresent == info.status = "ok" => TablesHeld

==============================================================================
