----------------------------- MODULE Reassembler -----------------------------
(***************************************************************************)
(* The receiving half of raw datagram framing: `Reassembler` of             *)
(* core/udp.rs.  It rebuilds one packet at a time into a caller buffer.     *)
(*                                                                          *)
(* A datagram is a record: its header's `seq`, `total` and `off`, the       *)
(* length `len` of its payload, and the number `pkt` of the packet the      *)
(* payload was cut from.  `pkt` is not on the wire; it stands for the       *)
(* payload's bytes.  buf[i] = p says that byte i of the buffer is byte i of *)
(* packet p (0: never written), which is all the properties tell apart.     *)
(***************************************************************************)
EXTENDS Integers, FiniteSets

CONSTANTS
  BufSize,   \* bytes in the caller's reassembly buffer
  NoPacket   \* `current` when no packet is being rebuilt (Option::None)

ASSUME BufSizeAssumption == BufSize \in Nat

VARIABLES
  buf,       \* the caller's buffer
  current,   \* header of the packet being rebuilt, or NoPacket
  received,  \* payload bytes counted for it
  complete,  \* packets completed
  lost,      \* packets abandoned
  result     \* what the last push returned

rxVars == <<buf, current, received, complete, lost, result>>

Datagram == [pkt : Nat, seq : Nat, total : Nat, off : Nat, len : Nat]

ASSUME NoPacketAssumption == NoPacket \notin Datagram

Returned == [kind : {"None", "Err", "Partial", "Gap", "Complete"}, pkt : Nat]

ReassemblerInit ==
  /\ buf = [i \in 0 .. BufSize - 1 |-> 0]
  /\ current = NoPacket
  /\ received = 0
  /\ complete = 0
  /\ lost = 0
  /\ result = [kind |-> "None", pkt |-> 0]

(* The positions a datagram's payload occupies in its packet. *)
Span(d) == d.off .. d.off + d.len - 1

(* Larger than the buffer (BufferTooSmall) or past its own end              *)
(* (InvalidFormat): refused before anything is changed.                     *)
Refused(d) == d.total > BufSize \/ d.off + d.len > d.total

(* A datagram of another packet takes the place of the one in progress.     *)
NeverAbandons(d) == FALSE
Abandons(d) == current # NoPacket /\ current.seq # d.seq

Starts(d) == current = NoPacket \/ Abandons(d)

(* The payload bytes counted once d is in.                                  *)
CountWithoutReset(d) == received + d.len
Count(d) == (IF Starts(d) THEN 0 ELSE received) + d.len

LastByteMissing(d) == Count(d) > d.total
Completes(d) == Count(d) >= d.total

(* The packet being rebuilt once d is in.                                   *)
CurrentNotCleared(d) == IF Starts(d) THEN d ELSE current
CurrentAfter(d) ==
  IF Completes(d) THEN NoPacket ELSE IF Starts(d) THEN d ELSE current

(* What push returns: completion wins over the gap it may have caused.      *)
Outcome(d) ==
  IF Completes(d) THEN [kind |-> "Complete", pkt |-> d.pkt]
  ELSE IF Abandons(d) THEN [kind |-> "Gap", pkt |-> current.pkt]
  ELSE [kind |-> "Partial", pkt |-> d.pkt]

Refuse(d) ==
  /\ Refused(d)
  /\ result' = [kind |-> "Err", pkt |-> 0]
  /\ UNCHANGED <<buf, current, received, complete, lost>>

Accept(d) ==
  /\ ~ Refused(d)
  /\ buf' = [i \in DOMAIN buf |-> IF i \in Span(d) THEN d.pkt ELSE buf[i]]
  /\ received' = Count(d)
  /\ lost' = lost + (IF Abandons(d) THEN 1 ELSE 0)
  /\ complete' = complete + (IF Completes(d) THEN 1 ELSE 0)
  /\ current' = CurrentAfter(d)
  /\ result' = Outcome(d)

(* Bytes that are no Janus datagram: Header::parse fails.                   *)
PushUnparsable ==
  /\ result' = [kind |-> "Err", pkt |-> 0]
  /\ UNCHANGED <<buf, current, received, complete, lost>>

Push(d) == Refuse(d) \/ Accept(d)

==============================================================================
