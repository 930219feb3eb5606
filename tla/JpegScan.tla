-------------------------------- MODULE JpegScan --------------------------------
(***************************************************************************)
(* `JpegScan::parse` of core/rtp.rs: which JPEG files RTP/JPEG can carry,   *)
(* and what of them the packets need.                                       *)
(*                                                                          *)
(* A file is the sequence of its marker segments, the length of its         *)
(* entropy-coded scan, and whether an EOI ends it.  A segment is its marker *)
(* and what the parser looks at; `fits` says that its payload is as the     *)
(* parser needs it (8-bit tables with an id of 0 or 1, a baseline picture   *)
(* of a carriable size and sampling, the Huffman tables of Annex K).        *)
(***************************************************************************)
EXTENDS Integers, Sequences

Markers == {"DQT", "SOF", "DHT", "DRI", "SOS", "EOI", "APP", "cut"}

(* Only tables have ids, and only what the parser looks into can be unfit.  *)
Segment ==
  {seg \in [marker : Markers, fits : BOOLEAN, ids : Seq(Nat)] :
     /\ seg.ids # <<>> => seg.marker = "DQT"
     /\ ~ seg.fits => seg.marker \in {"DQT", "SOF", "DHT"}}

JpegFile == [segs : Seq(Segment), scan : Nat, eoi : BOOLEAN]

Seg(marker) == [marker |-> marker, fits |-> TRUE, ids |-> <<>>]
Unfit(marker) == [Seg(marker) EXCEPT !.fits = FALSE]
Tables(ids) == [Seg("DQT") EXCEPT !.ids = ids]

(* Bytes of a segment, its marker included: what a picture of three         *)
(* components needs, and 64 bytes and an id for each quantization table.    *)
SegLen(seg) ==
  CASE seg.marker = "DQT" -> 4 + 65 * Len(seg.ids)
    [] seg.marker = "SOF" -> 19
    [] seg.marker = "DHT" -> 33
    [] seg.marker = "DRI" -> 6
    [] seg.marker = "SOS" -> 14
    [] seg.marker = "EOI" -> 2
    [] seg.marker = "APP" -> 18
    [] seg.marker = "cut" -> 3

(* SOI, the segments, the scan, EOI.                                        *)
Bytes(jpeg) ==
  LET upTo[k \in 0 .. Len(jpeg.segs)] ==
        IF k = 0 THEN 2 ELSE upTo[k - 1] + SegLen(jpeg.segs[k])
  IN  upTo

FileLen(jpeg) ==
  Bytes(jpeg)[Len(jpeg.segs)] + jpeg.scan + (IF jpeg.eoi THEN 2 ELSE 0)

(* What parse has seen: `present` the ids its qtables hold 64 bytes for.    *)
Nothing == [status |-> "open", present |-> {}, count |-> 0, dims |-> FALSE,
            restart |-> FALSE]

Refuse(info, error) == [info EXCEPT !.status = error]

(* qcount is the largest id plus one, not the number of tables.             *)
HighestId(info, ids) ==
  CHOOSE n \in {info.count} \cup {id + 1 : id \in ids} :
    \A m \in {info.count} \cup {id + 1 : id \in ids} : m <= n

TakeTables(info, seg) ==
  LET ids == {seg.ids[i] : i \in DOMAIN seg.ids}
  IN  IF ~ seg.fits \/ ~ ids \subseteq {0, 1} THEN Refuse(info, "Unsupported")
      ELSE [info EXCEPT !.present = @ \cup ids, !.count = HighestId(info, ids)]

(* The scan ends at the last EOI of the file, which must be behind its      *)
(* start.                                                                   *)
StartWithoutPicture(info, jpeg) ==
  IF info.count = 0 \/ ~ jpeg.eoi
  THEN Refuse(info, "InvalidFormat") ELSE [info EXCEPT !.status = "ok"]
StartOfScan(info, jpeg) ==
  IF ~ info.dims \/ info.count = 0 \/ ~ jpeg.eoi
  THEN Refuse(info, "InvalidFormat") ELSE [info EXCEPT !.status = "ok"]

Step(info, seg, jpeg) ==
  IF info.status # "open" THEN info ELSE
  CASE seg.marker = "DQT" -> TakeTables(info, seg)
    [] seg.marker = "SOF" -> IF seg.fits THEN [info EXCEPT !.dims = TRUE]
                             ELSE Refuse(info, "Unsupported")
    [] seg.marker = "DHT" -> IF seg.fits THEN info
                             ELSE Refuse(info, "Unsupported")
    [] seg.marker = "DRI" -> [info EXCEPT !.restart = TRUE]
    [] seg.marker = "SOS" -> StartOfScan(info, jpeg)
    [] seg.marker \in {"EOI", "cut"} -> Refuse(info, "InvalidFormat")
    [] seg.marker = "APP" -> info

(* What parse has seen after k segments.                                    *)
Seen(jpeg) ==
  LET after[k \in 0 .. Len(jpeg.segs)] ==
        IF k = 0 THEN Nothing ELSE Step(after[k - 1], jpeg.segs[k], jpeg)
  IN  after

(* A file that ends before its scan is invalid.                             *)
Parse(jpeg) ==
  LET info == Seen(jpeg)[Len(jpeg.segs)]
  IN  IF info.status = "open" THEN Refuse(info, "InvalidFormat") ELSE info

(* The reference: a file is carriable if its first scan comes after a       *)
(* picture header and a table, with nothing the RTP receiver cannot         *)
(* rebuild before it, and an EOI after it (rtp.rs:220-222).                 *)
Carriable(jpeg) ==
  /\ jpeg.eoi
  /\ \E k \in DOMAIN jpeg.segs :
       LET before == {jpeg.segs[i] : i \in 1 .. k - 1}
       IN  /\ jpeg.segs[k].marker = "SOS"
           /\ \A seg \in before :
                /\ seg.marker \notin {"SOS", "EOI", "cut"}
                /\ seg.fits
                /\ \A i \in DOMAIN seg.ids : seg.ids[i] <= 1
           /\ \E seg \in before : seg.marker = "SOF"
           /\ \E seg \in before : seg.ids # <<>>

==============================================================================
