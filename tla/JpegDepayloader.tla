---------------------------- MODULE JpegDepayloader ----------------------------
(***************************************************************************)
(* The RFC 2435 receiver: `JpegDepayloader` of core/rtp.rs.  It rebuilds    *)
(* one JPEG at a time in a caller buffer from RTP packets.                  *)
(*                                                                          *)
(* A packet is a record: RTP `seq`, `ts` and `marker`; the JPEG header's    *)
(* `off`; the number `len` of scan bytes; `mode`, what its frame does about *)
(* quantization tables; and two ghosts, the number `frame` of the frame it  *)
(* was cut from, standing for its bytes, size and type, and the number      *)
(* `idx` of the packet in the stream, standing for its unwrapped `seq`.     *)
(***************************************************************************)
EXTENDS Integers, FiniteSets

CONSTANTS
  ScanMax,   \* buf.len() - HEADER_RESERVE - 2: the largest scan that fits
  SeqMod,    \* 2^16 in the code: `seq` is a wrapping u16
  NoJpeg     \* `jpeg` when no frame was just completed (Option::None)

ASSUME ScanMaxAssumption == ScanMax \in Nat
ASSUME SeqModAssumption == SeqMod \in Nat \ {0}

VARIABLES
  scan,       \* buf[HEADER_RESERVE ..]: scan[i] = f is byte i of frame f
  scan_len,   \* bytes of the frame in progress
  in_frame,   \* a frame is in progress
  timestamp,  \* its RTP timestamp
  meta,       \* the frame whose size, type and restart interval are held
  qtables,    \* the frame whose quantization tables are held, 0 if qcount = 0
  last_seq,   \* sequence number of the last packet, -1 for None
  jpeg,       \* the frame just completed, or NoJpeg
  frames, dropped, lost,
  result      \* what the last push returned

rxVars == <<scan, scan_len, in_frame, timestamp, meta, qtables, last_seq,
            jpeg, frames, dropped, lost, result>>

\* "inband": tables with the frame; "reuse": Q = 255 and none, the previous
\* ones apply; "unsupported": a JPEG type this receiver does not know.
AllModes == {"inband", "reuse", "unsupported"}

Packet == [frame : Nat, idx : Nat, seq : Nat, ts : Nat, off : Nat, len : Nat,
           marker : BOOLEAN, mode : AllModes]

Jpeg == [frame : Nat, tables : Nat, len : Nat]

ASSUME NoJpegAssumption == NoJpeg \notin Jpeg

DepayloaderInit ==
  /\ scan = [i \in 0 .. ScanMax - 1 |-> 0]
  /\ scan_len = 0
  /\ in_frame = FALSE
  /\ timestamp = 0 /\ meta = 0 /\ qtables = 0
  /\ last_seq = -1
  /\ jpeg = NoJpeg
  /\ frames = 0 /\ dropped = 0 /\ lost = 0
  /\ result = "None"

(* Sequence numbers skipped since the last packet; half the circle or more  *)
(* is a reordered or repeated packet and not a gap.                         *)
Skipped(p) == IF last_seq = -1 THEN 0 ELSE (p.seq - last_seq - 1) % SeqMod
GapCountedOnce(p) == IF Skipped(p) \in 1 .. SeqMod \div 2 - 1 THEN 1 ELSE 0
Gap(p) == IF Skipped(p) < SeqMod \div 2 THEN Skipped(p) ELSE 0

(* Done for every well-formed RTP/JPEG packet, before anything can fail.    *)
NoteSequence(p) ==
  /\ lost' = lost + Gap(p)
  /\ last_seq' = p.seq

Unsupported(p) ==
  /\ p.mode = "unsupported"
  /\ NoteSequence(p)
  /\ jpeg' = NoJpeg
  /\ result' = "Err"
  /\ UNCHANGED <<scan, scan_len, in_frame, timestamp, meta, qtables, frames,
                 dropped>>

Supported(p) == p.mode # "unsupported"

(* A start takes the place of a frame in progress.                          *)
CutsShort(p) == p.off = 0 /\ in_frame /\ scan_len > 0

TablesMissing(p) == p.mode = "reuse" /\ qtables = 0

(* The frame is begun before its tables are looked at: an error leaves      *)
(* in_frame set and the scan empty.                                         *)
StartWithoutTables(p) ==
  /\ Supported(p) /\ p.off = 0 /\ TablesMissing(p)
  /\ NoteSequence(p)
  /\ dropped' = dropped + (IF CutsShort(p) THEN 1 ELSE 0)
  /\ in_frame' = TRUE /\ scan_len' = 0
  /\ timestamp' = p.ts /\ meta' = p.frame
  /\ jpeg' = NoJpeg
  /\ result' = "Err"
  /\ UNCHANGED <<scan, qtables, frames>>

JoinedMidFrame(p) ==
  /\ Supported(p) /\ p.off # 0 /\ ~ in_frame
  /\ NoteSequence(p)
  /\ jpeg' = NoJpeg
  /\ result' = "Fragment"
  /\ UNCHANGED <<scan, scan_len, in_frame, timestamp, meta, qtables, frames,
                 dropped>>

(* The three signs that a packet does not continue the frame in progress.   *)
ContinuesWhateverGap(p) == p.off = scan_len /\ p.ts = timestamp
ContinuesWhateverTime(p) == Gap(p) = 0 /\ p.off = scan_len
Continues(p) == Gap(p) = 0 /\ p.off = scan_len /\ p.ts = timestamp

Mismatch(p) ==
  /\ Supported(p) /\ p.off # 0 /\ in_frame /\ ~ Continues(p)
  /\ NoteSequence(p)
  /\ in_frame' = FALSE
  /\ dropped' = dropped + 1
  /\ jpeg' = NoJpeg
  /\ result' = "Dropped"
  /\ UNCHANGED <<scan, scan_len, timestamp, meta, qtables, frames>>

(* The packet's bytes are to be stored: it starts a frame or continues one. *)
Stores(p) ==
  /\ Supported(p)
  /\ IF p.off = 0 THEN ~ TablesMissing(p) ELSE in_frame /\ Continues(p)

BaseNotReset(p) == scan_len
Base(p) == IF p.off = 0 THEN 0 ELSE scan_len

BeginOrKeep(p) ==
  IF p.off = 0
  THEN /\ timestamp' = p.ts /\ meta' = p.frame
       /\ qtables' = IF p.mode = "inband" THEN p.frame ELSE qtables
  ELSE UNCHANGED <<timestamp, meta, qtables>>

TooLong(p) ==
  /\ Stores(p) /\ Base(p) + p.len > ScanMax
  /\ NoteSequence(p)
  /\ BeginOrKeep(p)
  /\ in_frame' = FALSE /\ scan_len' = Base(p)
  /\ dropped' = dropped + 1 + (IF CutsShort(p) THEN 1 ELSE 0)
  /\ jpeg' = NoJpeg
  /\ result' = "Err"
  /\ UNCHANGED <<scan, frames>>

StartNotDropping(p) == FALSE
CountsAsDropped(p) == CutsShort(p)

(* The marker ends the frame.                                               *)
NeverCloses(p) == TRUE
StaysOpen(p) == ~ p.marker

Store(p) ==
  /\ Stores(p) /\ Base(p) + p.len <= ScanMax
  /\ NoteSequence(p)
  /\ BeginOrKeep(p)
  /\ scan' = [i \in DOMAIN scan |->
                IF i \in Base(p) .. Base(p) + p.len - 1 THEN p.frame
                ELSE scan[i]]
  /\ scan_len' = Base(p) + p.len
  /\ in_frame' = StaysOpen(p)
  /\ dropped' = dropped + (IF CountsAsDropped(p) THEN 1 ELSE 0)
  /\ IF p.marker
     THEN /\ frames' = frames + 1
          /\ jpeg' = [frame |-> meta', tables |-> qtables',
                      len |-> Base(p) + p.len]
          /\ result' = "Frame"
     ELSE /\ jpeg' = NoJpeg
          /\ result' = "Fragment"
          /\ UNCHANGED frames

Push(p) ==
  \/ Unsupported(p)
  \/ StartWithoutTables(p)
  \/ JoinedMidFrame(p)
  \/ Mismatch(p)
  \/ TooLong(p)
  \/ Store(p)

(* Not RTP, or another payload type: refused before anything is changed.    *)
PushUnparsable ==
  /\ result' = "Err"
  /\ UNCHANGED <<scan, scan_len, in_frame, timestamp, meta, qtables, last_seq,
                 jpeg, frames, dropped, lost>>

==============================================================================
