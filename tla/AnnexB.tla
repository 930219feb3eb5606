-------------------------------- MODULE AnnexB --------------------------------
(***************************************************************************)
(* H.264 byte streams, core/annexb.rs: the NAL units between start codes    *)
(* and the splitting of a stream into access units.                         *)
(*                                                                          *)
(* Bytes are numbers.  A position is a 1-based index into the stream, and   *)
(* an end is the position after the last byte.                              *)
(***************************************************************************)
EXTENDS Integers, Sequences, FiniteSets

NoPosition == 0
NoSpan == [start_code |-> 0, nal_start |-> 0, nal_end |-> 0]

(* The positions from `pos` on at which a 00 00 01 begins, and the first.   *)
Codes(s, pos) ==
  {i \in pos .. Len(s) - 2 : s[i] = 0 /\ s[i + 1] = 0 /\ s[i + 2] = 1}
FirstOf(S) == CHOOSE i \in S : \A j \in S : i <= j

(* Where the run of zeros that ends just before position i begins, looking  *)
(* back no further than `pos`.                                              *)
NoBackUp(s, pos, i) == i
BackUp(s, pos, i) ==
  FirstOf({b \in pos .. i : \A j \in b .. i - 1 : s[j] = 0})

(* A NAL unit lies between a start code and the next, or the end; where the *)
(* two meet there is none, and NalSpans::next goes on to the next.          *)
NalEnd(s, pos) ==
  LET codes == Codes(s, pos)
  IN IF codes = {} THEN Len(s) + 1 ELSE BackUp(s, pos, FirstOf(codes))

NalStarts(s) == {p \in {c + 3 : c \in Codes(s, 1)} : NalEnd(s, p) > p}

StartCode(s, p) == BackUp(s, 1, p - 1)

Span(s, p) ==
  [start_code |-> StartCode(s, p), nal_start |-> p, nal_end |-> NalEnd(s, p)]

(* NalSpans::next with its position at `pos`; NoSpan at the end.            *)
NextSpan(s, pos) ==
  LET left == {p \in NalStarts(s) : p >= pos}
  IN IF left = {} THEN NoSpan ELSE Span(s, FirstOf(left))

Nal(s, span) == SubSeq(s, span.nal_start, span.nal_end - 1)

(* The k-th of a finite set of numbers.                                     *)
UpToIn(S, i) == Cardinality({q \in S : q <= i})
Nth(S, k) == CHOOSE p \in S : UpToIn(S, p) = k

NalAt(s, p) == Nal(s, Span(s, p))
NalUnits(s) ==
  LET starts == NalStarts(s)
  IN [k \in 1 .. Cardinality(starts) |-> NalAt(s, Nth(starts, k))]

NalType(nal) == nal[1] % 32
IsVcl(nal) == NalType(nal) \in 1 .. 5

(* first_mb_in_slice is 0: its code is a single one bit.                    *)
IsFirstSlice(nal) == IsVcl(nal) /\ Len(nal) >= 2 /\ nal[2] >= 128

------------------------------------------------------------------------------
(* AccessUnits: `span` is the span its NalSpans will give next.             *)

SplitterInit(s) ==
  [span |-> NextSpan(s, 1), au_start |-> NoPosition, au_has_vcl |-> FALSE,
   boundary_candidate |-> NoPosition, done |-> FALSE]

Start(it) == IF it.au_start = NoPosition THEN it.span.start_code ELSE it.au_start

CandidateIgnored(it) == it.span.start_code
Boundary(it) ==
  IF it.boundary_candidate = NoPosition THEN it.span.start_code
  ELSE it.boundary_candidate

EndsUnit(s, it) == IsFirstSlice(Nal(s, it.span)) /\ it.au_has_vcl

(* The splitter after a NAL unit that does not end the access unit,         *)
Pass(s, it) ==
  LET vcl == IsVcl(Nal(s, it.span))
  IN [span |-> NextSpan(s, it.span.nal_end), au_start |-> Start(it),
      au_has_vcl |-> it.au_has_vcl \/ vcl,
      boundary_candidate |->
        IF vcl THEN NoPosition
        ELSE IF it.au_has_vcl THEN Boundary(it) ELSE it.boundary_candidate,
      done |-> FALSE]

(* and after one that does, which begins the next.                          *)
Cut(s, it) ==
  [span |-> NextSpan(s, it.span.nal_end), au_start |-> Boundary(it),
   au_has_vcl |-> TRUE, boundary_candidate |-> NoPosition, done |-> FALSE]

==============================================================================
