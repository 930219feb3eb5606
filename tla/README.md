# Formal model of rusty_esp_video

TLA+ modules for the parts of `rusty_esp_video` that decide what a viewer or a
hub receives: the transports a device sends its pictures over, the caps that
drop frames, and the receivers that put the pictures together again. TLC checks
the modules on small instances; TLAPS proves the main safety results for every
value of the constants. Paths are below `src/`; `core` is
`crates/rusty_esp_video-core/src`, `esp` is `crates/rusty_esp_video-esp/src`.

Check one run with `tlc -config raw_reorder.cfg MCRawUdp` (the run's module is
in `PROJECT.json`, and in the tables below), one proof with
`tlapm RawUdpProofs.tla`. `PROJECT.json` also maps every definition to its
lines of Rust.

## 1. The system

A device (an ESP32-S3 with a camera) grabs pictures, drops what exceeds the
frame-rate cap, encodes the rest and sends each packet over one of five paths:

    camera -> EncodedSource (Pacer) -> MediaPacket
       |-> RtpJpegSender (Budget) -> RTP/JPEG over UDP -> JpegDepayloader
       |-> RawUdpSender  (Budget) -> raw datagrams     -> Reassembler
       |-> H264Payloader -> RTP/H.264 over UDP         -> (a standard receiver)
       |-> Multipart -> HTTP over TCP                  -> pull_stream / Reader
       |-> Mux -> MPEG transport stream                -> demux::parse

Everything on the device is called by one loop, with no queues between the
parts; only a caller of the HTTP server's `accept_one` may run streams on
threads of their own. The concurrency is between the device, the network and
the receivers or viewers, and the hard behaviour is there: loss, repetition and
reordering; sends that fail in the middle of a packet; a device that restarts;
TCP that cuts a stream anywhere; a viewer that sends slowly, stops reading or
leaves; counters that wrap; arithmetic that truncates.

| Component | State | Operations | What makes it correct | Module |
|---|---|---|---|---|
| Raw framing, `core/udp.rs` | `seq`; packet in progress, byte count, buffer, counters | `frame`, `push` | a packet handed over is whole and its own; an undisturbed packet arrives whole; counters exact | `Reassembler`, `RawUdp` |
| UDP ends, `esp/udp_net.rs` | socket, statistics | `send_packet`, `send_frame`, `receive_*` | the cap is kept on the wire; (otherwise the loops around the parts above and below) | `RawUdp`, `RtpJpeg`, `RtpSender` |
| RTP/JPEG, `core/rtp.rs` | `seq`; frame in progress, its scan, tables and stamp, last sequence number | `JpegScan::parse`, `packetize`, `push` | the parser lets through what RTP/JPEG can carry; packets fit; a JPEG handed over is whole, with its own tables; loss counted; resynchronisation at a frame start | `JpegScan`, `RtpSender`, `JpegDepayloader`, `RtpJpeg` |
| RTP/H.264, `core/rtp.rs` | `seq` | `H264Payloader::packetize` | a standard receiver gets the NAL units back; marker on the last packet only | `H264Rtp` |
| Annex-B, `core/annexb.rs` | position, start of the access unit, boundary candidate | `NalSpans::next`, `AccessUnits::next` | nothing lost or cut at a boundary; one picture to a unit | `AnnexB`, `H264Rtp` |
| `Pacer`, `core/pacer.rs` | due time | `admit`, `reset` | rate bound over every stretch of time; no needless drop | `Pacer` |
| `Budget`, `core/pacer.rs` | tokens, time of the last call | `admit`, `reset` | byte bound over every stretch; rounding bounded | `Budget` |
| `EncodedSource`, `core/source.rs` | pacer, two counters | `next_packet` | the grab loop ends; counters add up; packets spaced across errors | `EncodedSource` |
| `Mux`, `core/mpegts.rs` | continuity counters, packets since the tables | `push` | packets exactly full; tables first and repeated; damage shows in a counter, but for a last unit cut short | `MpegTs` |
| MJPEG stream, `core/mjpeg_http.rs`, `core/mjpeg_reader.rs`, `esp/net.rs`, `esp/client.rs` | bytes buffered, parser state, counters | `run`, `push`, `next_part`, `release`, `pull_stream` | the ends agree on the frames; the buffer suffices; every pushed frame arrives | `MjpegStream` |
| HTTP server and gate, `esp/net.rs`, `core/http.rs`, `core/mjpeg_http.rs` | listener, token, status handler, counters | `accept_one`, `serve_one`, `serve`, `run`, `admits` | everyone is answered, as documented; the gate never locks out its own page; each connection counted once | `HttpServer` |
| Head search, `core/http.rs` | bytes read | `head_complete_from`, its portable and vector twins | finds exactly the blank lines, however the reads cut them | `Page` |
| Track B page server, `firmware/xiao-s3-sense-hal-page` | socket, camera, frame pool, error count | its connection loop | no slot is lost; it accepts again | `Page` |
| Request line and header fields, JPEG and SPS headers, H.264 encoder wrapper | none | field extraction, calls into other crates | | not modelled |
| Policy | none | one constant table of codec by job and chip | | not modelled |
| Encoder trait, sinks | none | one-method adapters; that they may fail is an action of their callers | | not modelled |
| Track A firmware | connection loop | board bring-up, `serve_one` | | its loop is the unthreaded `HttpServer` |

The hazards these properties are aimed at, each at its line, are listed in
`PROJECT.json`; those no property covers yet say why.

## 2. The modules

**`Reassembler`** is `core/udp.rs`'s receiver. A datagram is its header and,
as a ghost, the number `pkt` of the packet its payload was cut from; the buffer
holds, at each position, the packet whose byte is there. `Push(d)` is
`Reassembler::push`: `Refuse` its two early errors, `Accept` the rest, with the
abandoning of the packet in progress (`Abandons`), the count (`Count`) and the
result (`Outcome`).

**`RawUdp`** puts a sender, a network and `receive_raw` around it. `BeginFrame`
takes the sequence number, `Emit` is one turn of `Framer::frame`'s loop, so the
receiver and the network run between any two datagrams; `EmitFails` is the `?`
in the loop; `Restart` makes a new `Framer`; `BudgetRefuses` is the budget's
answer, left free here. The network is a set of datagrams that may be lost,
delivered again and, unless `Fifo`, delivered in any order.

**`PacketChannel`** is what the transports promise: a packet offered is
delivered or given up at most once, and never both. `RawUdp` and `RtpJpeg` both
implement it (`ImplementsChannel`), with the packets framed as those offered
and the ghosts `delivered` and `abandoned`. In `RawUdp`, `delivered` says that a
packet was announced, `whole` that all its bytes were then its own, and `mixed`
that it was taken for an unfinished packet with its sequence number.

**`JpegDepayloader`** is `JpegDepayloader::push`, one action per way out of it,
in the code's order: the sequence number is noted before anything can fail, a
start is begun before its tables are looked at, and only then are the bytes
stored. `PushUnparsable` is a datagram that is not RTP/JPEG. The tables are the
number of the frame they came with; the scan is per byte the frame it is of.

**`RtpJpeg`** is the same composition for RTP: `Emit` is one turn of
`packetize`, with the first packet's room smaller by the tables. `TakeSequence`
happens before the send, so a failed send uses a number. `Restart` makes a new
payloader, which begins at the same sequence number again, in the middle of a
frame perhaps.

**`JpegScan`** is `JpegScan::parse`: a file is the sequence of its marker
segments, and `Seen` what the loop has made of the first k of them, one `Step`
each; `Carriable` says, without an order, what the
parser should let through. **`RtpSender`** extends `Budget` and `JpegScan` with
`send_frame` whole, in the code's own bytes: the estimate of `wire_len` put to
the budget, the parse, the packets of `packetize` with a socket that may fail,
the statistics, and the panic of a table that is counted and not there.

**`AnnexB`** is the pure part of `core/annexb.rs`: `NextSpan` is `NalSpans::next`,
whose loop is the choice of the first NAL unit from its position on (`NalStarts`),
and `Pass` and `Cut` what `AccessUnits` makes of the next one. **`H264Rtp`** runs a
stream through it: `Encode` appends a NAL unit, `Split` is one turn of the loop in
`AccessUnits::next` (`PassNal`), or one that gives a unit (`GiveUnit`,
`GiveRest`), on which `packetize` then begins; `Emit` sends one packet of it, whole
or FU-A. `given` is a ghost, the NAL units of the access units given so far. The
encoder is external, and so is the receiver, which the crate does not have:
`Receive` takes each packet as it is sent and is RFC 6184, section 5.

**`Pacer`** and **`Budget`** are the two caps of `core/pacer.rs`. Device time is
an integer; `from` is an arbitrary instant fixed at the start, so that a
statement about every stretch of time becomes an invariant. `Budget` also keeps
`ideal`, a bucket without rounding, to bound what the rounding costs. They are
checked inside the modules that use them.

**`EncodedSource`** extends `Pacer` with `next_packet`: one action per turn of
the grab loop, and one per way of failing (`ScratchTooSmall`, `GrabFails`,
`GrabWasted` when the picture was admitted and then lost to an error). Its pacer
is made by `Pacer::new`, so it has no burst (`NoBurst`).

**`MpegTs`** is the mux, one action per transport packet, with the sink's
failure (`SinkFails`) possible at each, and the demuxer reading what the link
did not lose. It hands a unit over in two ways: when the next one starts
(`Finished`) and, what it holds then, when the stream ends (`EndOfStream`),
wherever that is. An access unit is a number and a length; a packet carries a
piece.

**`MjpegStream`** is one viewer's connection: `StreamConn::run` writing parts,
TCP holding at most `Window` bytes, and `pull_stream` reading chunks into the
`Reader`. TCP keeps the order, so bytes are counted and not named.

**`HttpServer`** is the other side of `esp/net.rs`: the accepting thread over a
backlog of viewers, each with a request fixed at the start. `ReadHead` is one
read of `read_request`; then there is one action per way `accept_one` answers,
in the code's order, the status ahead of the gate. The gate (`Admitted`) looks
at the first `t` of the query, and at the cookie only when there is none. Some
connections are of one browser, which may bring a stale cookie (`jar`) and keeps
the one the page sets. `threaded` chooses between
`serve_one`, which runs the stream in place (Track A's loop, and `serve`), and a
caller of `accept_one` that gives each `StreamConn` a thread. A stream here is
only whether frames can be written; what is in them is `MjpegStream`'s. Its loop
waits in `next_packet` (`SourceYields`) and then in the push, while TCP is full,
as a write without a timeout does; that its viewer has left it only learns from
a write (`ViewerGone`).

**`Page`** is the connection loop of the Track B firmware: one viewer, a head
that is searched as it grows, the camera asked for frames by the loop that
writes them, and the pool of frame slots. The head is bytes, because the search
is modelled: `BlankLinePortable` tests a word at a time, `BlankLineVector` looks
for the pair in the middle (both loops are `Loop`, a body applied as often as
the head has bytes), and `HeadCompleteFrom` starts three bytes back. The
network stack (`StackNotices`) and the camera driver (`FrameArrives`) are
external.

The `MC*` modules only name the sets of inputs of the small instances.

## 3. What the runs check

Every bound is a constant (`Max...`) in the guard of the action it bounds.

| Run | Module | Instance | Shows |
|---|---|---|---|
| `raw_reorder` | MCRawUdp | 3 packets of 0, 3 or 5 bytes in datagrams of 2, any order, one loss, one failed send, one refusal | `UdpInv` (the inductive invariant), `Integrity`, `ImplementsChannel` |
| `raw_fifo` | MCRawUdp | in order; one each of a loss, a repetition, a failed send, a restart and a stray datagram; packets larger than the buffer, sequence modulus 2 with 3 packets, stop after 2 frames | `StatsExact`, `OrderedDelivery`, `IntactArrives` |
| `rtp_reorder` | MCRtpJpeg | 3 frames of one or three packets, sequence wrapping at 32, one loss, any order | `RtpInv`, `LossNeverHidden`, `ImplementsChannel` |
| `rtp_fifo` | MCRtpJpeg | in order, 2 frames with equal or distinct stamps, with tables, without them or of an unknown type, empty scans and scans longer than the buffer; one each of a loss, a repetition, a failed send, a restart and a stray | `WholeAcrossRestarts`, `LostExact`, `EveryStartAccounted`, `IntactArrives` |
| `source` | EncodedSource | 10 ticks a second at 3 fps (the interval truncates), 13 ticks, 2 failed calls | `SourceInv` (with the bound on the grab loop), `StretchBound`, `CountersAgree`, `PacketsSpaced`, `NoNeedlessDrop` |
| `sender` | MCRtpSender | the smallest MTU, 157; no cap, a bucket of 791 bytes (three of the smallest pictures), one of 7574 (just the largest); a second of 7 ticks; 3 frames out of 13 files (pictures of 1, 5 and 49 packets, an empty one, odd tables, files to refuse); one failed send | `SenderInv`, `RateBound`, `RoundingBounded`, `WireRateBound`, `ParseAgrees`, `IdleGapEarns` |
| `ts_faults` | MCMpegTs | packets of 12 bytes, units that end a byte before, at and after a packet's end and one longer than the table interval, 2 sink failures and 2 losses, a continuity counter of 4 values, so that the faults can use it up | `TsInv`, `PacketFull`, `CleanIsWhole`, `PsiBounded` |
| `stream` | MjpegStream | 4 parts of 4 to 11 bytes with their headers, chunks of 5, a window of 5, a buffer of 10, one broken connection | `StreamInv`, `RoomyNeverTooSmall`, `PushedArrives` |
| `http` | MCHttpServer | 2 viewers with any two of 9 requests, heads of 1 to 3 bytes for a buffer of 2, a window of one frame, 2 frames; a browser with no cookie or a stale one; gated or not, threaded or not, with a status handler or not | `HttpInv`, `AnswersArePromised`, `EveryoneAnswered` |
| `page` | Page | heads of up to 6 bytes in any reads, words of 2, a pool of 2 slots, a third failed grab ends a stream; with a sensor or without | `PageInv`, `SearchIsExact`, `AcceptsAgain` |
| `h264` | MCH264Rtp | packets of 16 bytes, streams of up to 4 of 4 NAL units (none, two and three fragments, just what a packet holds, empty, ending in a zero), start codes of 3 and 4 bytes, bytes before the first that end in a zero, or none; sequence wrapping | `SplitInv`, `OnePictureEach`, `SendInv` (`RoundTrip` and what it needs half way) |

The two orders need different properties: with reordering the receivers only
promise that nothing wrong is handed over; that everything intact arrives, in
order and exactly counted, is true of a link that keeps the order.

Why the bounds are enough. A packet is at most three datagrams: a first, one
that is neither first nor last, and a last, which is every case the loops
distinguish; three packets give a packet a predecessor it may be merged with
and a successor that must survive it. Sequence numbers start just below the
wrap, or wrap at two, so that the wrap is inside every behaviour. The MPEG
lengths are on both sides of each comparison in the stuffing arithmetic. The
times and rates are chosen so that every division leaves a remainder. The sizes
of the stream instance let one chunk hold the end of a part and all of the
next, and contain parts that are comfortable, tight and too large for the
buffer. The pictures of the `sender` instance are on both sides of the point
where the estimate stops covering the wire: the largest, with restart markers,
is estimated at 7569 bytes and takes 7608. Two viewers are enough for one to hold up, or to be counted as, another;
a third would only wait behind the second. The heads fill the buffer short of,
at and past its end. The page server's head is two bytes longer than the blank
line, and its words are two bytes, so that the line begins and ends inside a
word, and is cut by the reads, at every place. Four NAL units hold two pictures
with something between them. No sequence number is claimed to tell more than
its modulus of packets apart.

Deadlock checking is off everywhere because every instance really stops: the
source has a last frame and the receiver a deadline.

### Where the code and its documentation disagree

One run checks what a comment says, and TLC finds the program doing otherwise.

| Run | Comment | What happens |
|---|---|---|
| `sender_tables` | `rtp.rs:210-213`: `qtables` are "64 bytes each", `qtable_count` the "Number of quantization tables present" | the count is the highest id plus one (`rtp.rs:408`): a file whose only table has id 1 is accepted, and the payloader panics copying the empty first one (`TablesPresent`) |

The premises of the other properties name more, each a place where a statement
had to be narrowed to hold:

* Raw framing. A datagram delivered twice is counted twice and completes a
  packet with a hole, where `udp.rs:16-17` "reports gaps instead of guessing"
  (`Distinguishable`). After a sender's restart `seq` is 0 again and two packets
  of the same length can be merged, as they can when `seq` wraps: the second is
  then announced as soon as the bytes of both add up, with what the first had at
  its end. `IntactArrives` therefore leaves out a packet that was itself
  repeated (`hurt`) or merged (`mixed`), shows that a merge takes a restart or a
  wrap, and that the packets around it arrive whole. A gap noted by a datagram that also completes its
  packet is counted and not returned (`udp.rs:210`). A late datagram of an older
  packet abandons the newer one (`udp.rs:194`).
* RTP/JPEG. A reordered packet is "not a loss" (`rtp.rs:707`), but `last_seq`
  goes back with it and the next in order counts as a gap: two swapped packets
  raise `lost`, which is why `LossNeverHidden` is a lower bound. A repeated
  packet drops its frame (`hurt` in `DeliverAndKeep`). A frame refused for want
  of tables may or may not be counted as dropped (`EveryStartAccounted`). After
  a restart, a frame whose first packet is lost can be joined to one left
  unfinished with the same timestamp (the premise of `WholeAcrossRestarts`).
* The budget on the wire. "The budget counts wire bytes" (`udp_net.rs:66`), but
  it counts an estimate of the whole file, which overlooks restart headers: 4
  bytes a packet, and, as they leave less room for the scan, a packet more for
  every so many. At the smallest MTU that outweighs the rest from some 46 packets
  on (`WireRateBound` allows for it); without restart markers the estimate is
  too high. A
  frame that fails half way keeps what it was charged. `send_frame` returns 0
  for an empty scan too, not only "when the budget dropped the frame"
  (`udp_net.rs:89-90`).
* The caps. The truncated pacer interval lets one frame more than `fps` into a
  second (`StretchBound` counts intervals).
* The mux. The table interval is only looked at between access units
  (`PsiBounded`). The demuxer hands over the unit it holds when the stream ends
  without a counter left to check (`mpegts.rs:473-476`): a last unit whose tail
  was lost or refused, or never written, is truncated with `cc_errors` at 0
  (`EndUnseen` in `CleanIsWhole`).
* The MJPEG reader. A buffer that "must hold one whole part" (`client.rs:28-29`,
  `mjpeg_reader.rs:72-73`) is not enough: the next chunk does not fit behind an
  incomplete part. `RoomyNeverTooSmall` is the size that is: a part and a chunk
  less a byte.
* The HTTP server. `serve` "returns only on a source error" (`net.rs:293`), and
  also when an accept fails (`AcceptFails`). The gate admits what carries the
  token in its query or as a cookie (`mjpeg_http.rs:104-106`), but a wrong `t`
  in the query hides a right cookie, hence `req[c].query # <<>>` in
  `AnswersArePromised`. "Everything else is `403`" (`net.rs:170-171`) is so for
  GET; a PUT or POST is 405 whatever it carries (`RefuseMethod`).
* The page server answers everything else "what the `std` server would say"
  (`main.rs:13-14`); `GET /update` is 404 here and 405 there. While it waits for
  a frame (`main.rs:360`) it does not look at its socket: with a stalled sensor
  it never accepts again, which `AcceptsAgain` has as a premise, and frames that
  are not packed bytes would keep it in the same loop.

### Fairness

`FairSpec` says only that a loop that can take its next step takes it: the
sender begins and goes on with its frames (`BeginFrame`, `Emit`, `Write`), the
receiver takes a datagram that is there (`Deliver`) or reads and parses what
TCP holds. These are plain loops with nothing to wait for but their input. The
adversary has no fairness: no loss, repetition, failure, restart, timeout,
refusal or deadline ever has to happen. `IntactArrives` needs the network to be
in order, because only a later packet can show the receiver that an earlier one
will not complete. In `HttpServer` the accepting thread and each stream's thread
keep running: an accept with a connection waiting returns, a read returns what
has come or times out (`request_timeout`), a write fails once the viewer is
gone. No viewer ever has to send, to read or to leave, and `EveryoneAnswered`
names the case in which that holds the others up. Nor does the source have to
yield: run in place, a stream waiting in `next_packet` (`net.rs:106`) does not
notice that its viewer has left, and a stalled source then keeps the server. So
`EveryoneAnswered` has `SourceRuns` as a premise for streams run in place, and
none for streams on threads. In `Page` the loop's own
steps are taken, the stack finds out about a viewer that left (a reset, or its
five-second timeout), and a camera set to JPEG does not give other frames for
ever (strong fairness on a packed grab or a failed one). That the sensor goes on
giving frames is not assumed but is the premise of the property (`SensorRuns`),
since nothing in the code makes it.

## 4. What is proved

For every value of the constants that satisfies the modules' `ASSUME`s (a
datagram has room for a byte, a modulus is positive, a transport packet has
room for more than the PCR), so for the code's own sizes as well:

* `RawUdpProofs`: `UdpInv`, and from it `Integrity`. That bytes are only counted
  is sound because no two datagrams in flight carry the same byte
  (`NetDisjoint`) and what has arrived is neither in flight nor still to be sent
  (`NothingTwice`); so the count is the number of positions filled
  (`CountIsArrived`), and a count of `total` distinct positions below `total` is
  all of them (lemma `AllArrived`). `SeqNamesPacket` is what keeps packets
  apart. Each part is an invariant only together with the others. The theorem
  assumes, in `Distinguishable`, what is needed: no repetition, no restart, no
  reuse of a sequence number. Under the same assumptions (`Tellable`), every
  step of `RawUdp` is a step of `PacketChannel` or a stutter
  (`RawUdpImplementsChannel`). Of a packet that was given up a byte is gone for
  good (`Missed`), so however late its other datagrams come it never completes;
  of one delivered nothing is left (`Finished`), so it is delivered once and
  never given up. `StatsExact` and `OrderedDelivery` assume an ordered network
  and no repetition, and allow restarts and sequence numbers that wrap, so that
  packets are merged: what has been dealt with is behind everything in flight
  (`Behind`), and of a packet that was delivered only a rest can still come, too
  short to be counted as a whole one (`NotAgain`).
* `RtpJpegProofs`: all of `RtpJpeg`'s safety.
  - `RtpInv` needs nothing of the network: the scan held is a prefix of one
    frame (`Own`), because a packet is only appended at the offset it has, and
    the timestamp says of which frame (`ToldByStamp`).
  - `EveryStartAccounted` counts the starts of frames, and with nothing repeated
    a frame has one start (`StartOnce`). The same invariant gives
    `ImplementsChannel`, assuming `MaxDup = 0`; one packet can give up two frames
    (`AbandonBoth` of `PacketChannel`): the one it interrupts, and its own when
    that is too long.
  - `WholeAcrossRestarts` and `LostExact` assume `Orderly`: the order is kept,
    and fewer packets can be lost or fail than half a circle of sequence numbers,
    beyond which the receiver takes a gap for a late packet (`rtp.rs:671-676`).
    `After` says where the frame in progress stands between the packets that
    came and those in flight. For `LostExact` the loss counted is split by the
    sender's boots: `Boots` says that some assignment of the packets to boots
    exists under which what was counted adds up.
  - `LossNeverHidden` assumes no restart and at most half a circle of packets in
    all: with more, a loss of half a circle could hide. `Chain` follows, through
    every reordering and repetition, what each packet may have added.
* `RtpSenderProofs`: the budget, the parser, and the sender that uses both.
  - `BudgetInv`, and from it `RateBound`. The strengthening (`BucketBound`)
    counts what is still in the bucket with what was admitted. `RoundingBounded`
    and `IdleGapEarns` follow from the two sides of the truncated refill.
  - `send_frame` with everything but its budget hidden is the budget
    (`SenderUsesBudget`), so the three results carry over to the sender, for any
    files, MTU and failing sends.
  - `ParseAgrees`, for files of any length, by induction over the segments: what
    the parser has seen after k of them is what the reference says of the first
    k (lemma `ParseAccepts`).
  - `SenderInv`, and `WireRateBound`: the bytes sent, and what the rest of the
    frame in hand may still need (`Rest`), are paid for by what the budget was
    charged (`Paid`). A packet that is full costs the MTU for each byte of scan or
    tables in it, the last one at most a header more (lemma `PacketCost`), and
    the estimate covers that because a file that is accepted has at least 35
    bytes in front of its scan (lemma `FileRoom`).
* `EncoderProofs`: the pacer, the source that uses it, and H.264.
  - `PacerInv`, for every burst, and from it `StretchBound` and the action
    property `NoNeedlessDrop`. The due time pays one interval for each frame
    admitted in the stretch (`DuePaysForCount`) and is never further ahead of the
    last frame than the burst allows (`DueNear`); the bound is the two together.
  - `next_packet` with everything but its pacer hidden is the pacer
    (`SourceUsesPacer`), so both carry over to the frames the source lets
    through, wherever its calls fail.
  - For a pacer without a burst, as the code makes it (`NoBurst`): `SourceInv`,
    and from it `LoopBounded`: a call that drops waits for a due time that stays
    where it is (`DropsTakeTime`). `CountersAgree` is inductive with it.
    `PacketsSpaced` rests on the due time being an interval past the last packet,
    whatever was admitted and lost since (`PacketPaid`).
  - `SplitInv` and `OnePictureEach`, for any stream, which the parts of its
    invariant give together. `SplitterPlaced` says where the splitter is: the
    next span is one of the stream, and what was given is the stream's NAL units
    up to where the unit in hand begins. `SplitterRemembers` says of
    `au_has_vcl` and `boundary_candidate` which of the NAL units passed they
    speak of. Both rest on one lemma about bytes: a piece of the stream that
    begins with a start code and ends where one begins, or at the end, has the
    NAL units that the stream has there, neither more nor others
    (`UnitsOfPart`), because backing up over zeros never leaves the piece
    (`BackUp`). As the units are counted (`UpToIn`, `Nth`), there is a lemma for
    each way in which a set and its ranks go together.
  - `SendInv`: while a unit is being sent, the receiver has the NAL units before
    the one at hand and `off` bytes of that (`ReceivedSoFar`); the bits of FU-A
    put the header together again for any byte (`FuBytes`). It assumes what
    H.264 promises and `NalUnitAssumption` states: no start code inside a NAL
    unit (emulation prevention), and none of the types 24 to 29, which
    H.264 leaves unspecified and RFC 6184 gives to its own packets (aggregates
    and fragments): the payloader sends such a unit as it is, and a receiver
    would take it for one of those (`PacketTypes`).
* `MpegTsProofs`: `PacketFull`, the stuffing arithmetic for every packet size
  and length; `TsInv`; `CleanIsWhole`; and `PsiBounded`. For `CleanIsWhole`, the
  number of video packets gone missing since the last one seen is what the two
  counters differ by (`GapShows`), so while it is less than `CcMod` an expected
  counter means that none is missing (`NoneMissing`), and then what is gathered
  is what was written of the unit (`Aligned`). A unit that the end of the stream
  ends is compared with no counter: it is whole, or packets written after the
  last one seen are missing, or the mux was still writing it (`EndIsClean`). For `PsiBounded`, the packets
  since the tables and those the unit in hand has still to come (`ToCome`) are
  never more than the interval and a unit's (`Spacing`).
* `MjpegStreamProofs`: `StreamInv` and `RoomyNeverTooSmall`. Every byte the
  device wrote is in flight, in the buffer or in a part taken out (`Books`,
  which says that places where the parts end exist under which this adds up),
  and the hub only reads on while nothing it holds is whole (`Hungry`): what is
  left in the buffer is less than a part, so a chunk fits behind it.
* `HttpServerProofs`: `HttpInv` and `AnswersArePromised`. The counters add up
  because of where the accepting thread can be while streams run (`Places`);
  the page's own picture is never refused because a browser that was given the
  page has the token, and brings it along on every connection it makes
  afterwards (`Cookies`).
* `PageProofs`: `SearchIsExact`, for any head and any length of word. Passing
  over words changes nothing (lemma `NextNewlineIs`); a search has found a blank
  line, or has none behind it and gets a byte further with each turn
  (`Searching`); what was searched before has none, since a head is only read on
  while it is not complete (`NoneSeen`). And `PageInv`, for any number of slots:
  every frame ends in `Release`, and a stream that fails too often goes nowhere
  but to its close (`ErrorsBounded`).

Besides the properties the runs check, `PacerInv`, `BudgetInv` and
`LoopBounded` are proved as theorems; the runs see their consequences.

Induction over data is done with sets, since the library's induction theorems
take an operator: the numbers up to `n` that satisfy what is to be shown are a
set that holds 0 and, with each k - 1, k (lemma `UpTo`, from the library's
well-foundedness of the naturals). For this `JpegScan` writes the loop over the
segments as a recursive function, `AnnexB` the spans as a set of positions that
are counted, and `Page` its searches as a `Loop`, of which
`LoopInvariant` says: what holds at first and is kept by each turn holds in the
end.

Only model-checked: liveness (`IntactArrives`, `PushedArrives`,
`EveryoneAnswered`, `AcceptsAgain`), which the prover does not reach. Every
invariant and every action property of a passing run is proved, and so is the
refinement of `PacketChannel` by both transports.

## 5. Abstractions

* Bytes are what they are bytes of. Two packets with equal bytes are still two.
* A frame's capture time only matters to RTP, where it is its timestamp; stamps
  do not decrease, as the device clock does not, and do not wrap.
* The budget's answer is free in `RawUdp`, whose estimate leaves out one header
  of a packet without bytes; in `RtpJpeg` a frame dropped or refused by the
  parser never comes to the payloader at all. `RtpSender` has both.
* A segment of a JPEG is its marker, its table ids and whether the parser can
  use it (`fits`); its length is the shortest of its kind. A file always begins
  with SOI (`rtp.rs:223` refuses any other), a DRI always has its two bytes
  (`rtp.rs:305-307`), and the refusals InvalidFormat and Unsupported are one.
  Likewise the receiver's several errors about tables (`rtp.rs:743-768`) are one
  action of `JpegDepayloader`, as all leave the same state.
* A NAL unit is its bytes; where only its type matters to the code, one of each
  kind is in the instance.
* Saturating 64-bit arithmetic is modelled without saturation: reaching it takes
  half a million years of microseconds.
* `MjpegStream` gives every part the same header length, and models the server
  of this repository only, not a foreign one the `Reader` might be pointed at.
* Statistics that are only ever added to and read by a log are left out where no
  property needs them (`bytes`, `psi_written`, wall-clock times).
* The PTS and PCR of the transport stream are left out: one subtraction and a
  wrap that no other state depends on.
* A request head in `HttpServer` is its length and what it asks for; that a
  closing connection may lose bytes already sent is the early end of a read
  (`HeadCutShort`). `set_read_timeout` bounds each read, not the whole head.
* In `Page` what a whole head asks for is free: parsing it is the same code as
  the other server's. A failed grab and a failed write are free choices of the
  driver and the stack.
* Not modelled at all: board bring-up, Wi-Fi, the CRC and the contents of PAT,
  PMT and PES headers, the bytes of the JPEG headers the receiver rebuilds, the
  SPS parser, splitting a request line and finding a header by name.

## 6. Plan

What is left, in order of importance:

1. The `Reader` against a foreign MJPEG server (another boundary, no
   Content-Length, a closing delimiter).
2. `EncodedSource` and the budgets under a device clock that steps back; RTP
   timestamps that wrap.
