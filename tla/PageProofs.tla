------------------------------- MODULE PageProofs -------------------------------
(* The page server finds the end of a request head wherever reads cut it,   *)
(* for any length of head and any word of the search, and its frame buffers *)
(* all come back.                                                           *)
EXTENDS Page, SequenceTheorems, WellFoundedInduction, TLAPS

------------------------------------------------------------------------------
(* Loops.                                                                   *)

LEMMA Least ==
  ASSUME NEW Q \in SUBSET Nat, Q # {}
  PROVE  \E m \in Q : \A k \in Q : m <= k
<1> DEFINE R == {ss \in Nat \X Nat : ss[1] < ss[2]}
<1>1. IsWellFoundedOn(R, Nat)
  BY NatLessThanWellFounded DEF OpToRel
<1>2. \A x, y \in Nat : x < y => <<x, y>> \in R
  OBVIOUS
<1> HIDE DEF R
<1>3. PICK x \in Q : \A y \in Q : ~ (<<y, x>> \in R)
  BY <1>1, WFMin, Zenon
<1>4. \A y \in Q : ~ (y < x)
  BY <1>2, <1>3
<1>5. QED
  BY <1>4

(* Whatever holds of 0 and goes from each k - 1 to k holds up to n.         *)
LEMMA UpTo ==
  ASSUME NEW n \in Nat, NEW P, 0 \in P, \A k \in 1 .. n : k - 1 \in P => k \in P
  PROVE  0 .. n \subseteq P
<1> SUFFICES ASSUME ~ (0 .. n \subseteq P) PROVE FALSE
  OBVIOUS
<1>1. PICK m \in (0 .. n) \ P : \A k \in (0 .. n) \ P : m <= k
  <2>1. (0 .. n) \ P \in SUBSET Nat /\ (0 .. n) \ P # {}
    OBVIOUS
  <2>2. QED
    BY <2>1, Least
<1>2. QED
  BY <1>1

(* The states of a loop of n turns.                                         *)
Runs(n, S, first, turn) ==
  {f \in [0 .. n -> S] :
     f[0] = first /\ \A k \in 1 .. n : f[k] = turn[f[k - 1]]}

LEMMA LoopRuns ==
  ASSUME NEW n \in Nat, NEW S, NEW first \in S, NEW turn \in [S -> S]
  PROVE  Runs(n, S, first, turn) # {}
<1> DEFINE P == {m \in 0 .. n : Runs(m, S, first, turn) # {}}
<1>1. 0 \in P
  <2>1. [k \in 0 .. 0 |-> first] \in Runs(0, S, first, turn)
    BY DEF Runs
  <2>2. QED
    BY <2>1
<1>2. ASSUME NEW k \in 1 .. n, k - 1 \in P
      PROVE  k \in P
  <2>1. PICK f : f \in Runs(k - 1, S, first, turn)
    BY <1>2
  <2>2. /\ k \in Nat /\ k >= 1 /\ (k - 1) \in 0 .. k - 1
        /\ f \in [0 .. k - 1 -> S] /\ f[0] = first
        /\ \A i \in 1 .. k - 1 : f[i] = turn[f[i - 1]]
    BY <2>1 DEF Runs
  <2>3. turn[f[k - 1]] \in S
    BY <2>2
  <2> DEFINE g == [i \in 0 .. k |-> IF i = k THEN turn[f[k - 1]] ELSE f[i]]
  <2>4. /\ g \in [0 .. k -> S] /\ g[k] = turn[f[k - 1]]
        /\ \A i \in 0 .. k - 1 : g[i] = f[i]
    BY <2>2, <2>3
  <2>5. \A i \in 1 .. k : g[i] = turn[g[i - 1]]
    <3> TAKE i \in 1 .. k
    <3>1. CASE i = k
      BY <2>2, <2>4, <3>1
    <3>2. CASE i # k
      <4>1. i \in 1 .. k - 1 /\ i \in 0 .. k - 1 /\ i - 1 \in 0 .. k - 1
        BY <3>2
      <4>2. QED
        BY <2>2, <2>4, <4>1
    <3>3. QED
      BY <3>1, <3>2
  <2>6. g[0] = first
    <3>1. 0 \in 0 .. k - 1
      BY <2>2
    <3>2. QED
      BY <2>2, <2>4, <3>1
  <2>7. g \in Runs(k, S, first, turn)
    <3> HIDE DEF g
    <3> QED
      BY <2>4, <2>5, <2>6 DEF Runs
  <2>8. QED
    BY <2>7
<1>3. n \in P
  <2>1. 0 .. n \subseteq P
    <3> HIDE DEF P
    <3> QED
      BY <1>1, <1>2, UpTo
  <2>2. QED
    BY <2>1
<1>4. QED
  BY <1>3

(* What holds of the states a loop may be in after k turns, when it holds   *)
(* at first and each turn leads from one to the next, holds in the end.     *)
LEMMA LoopInvariant ==
  ASSUME NEW n \in Nat, NEW S, NEW first \in S, NEW turn \in [S -> S],
         NEW inv \in [0 .. n -> SUBSET S], first \in inv[0],
         \A k \in 1 .. n : \A s \in inv[k - 1] : turn[s] \in inv[k]
  PROVE  Loop(n, first, turn) \in inv[n]
<1> DEFINE Is(f) == f = [k \in 0 .. n |-> IF k = 0 THEN first ELSE turn[f[k - 1]]]
<1>1. PICK f : f \in Runs(n, S, first, turn)
  BY LoopRuns
<1>2. f \in [0 .. n -> S] /\ f[0] = first /\ \A k \in 1 .. n : f[k] = turn[f[k - 1]]
  BY <1>1 DEF Runs
<1>3. Is(f)
  <2>1. \A k \in 0 .. n : f[k] = IF k = 0 THEN first ELSE turn[f[k - 1]]
    <3> TAKE k \in 0 .. n
    <3>1. CASE k = 0
      BY <1>2, <3>1
    <3>2. CASE k # 0
      <4>1. k \in 1 .. n
        BY <3>2
      <4>2. QED
        BY <1>2, <3>2, <4>1
    <3>3. QED
      BY <3>1, <3>2
  <2>2. QED
    BY <1>2, <2>1
<1> DEFINE after == CHOOSE g : Is(g)
<1>4. Loop(n, first, turn) = after[n] /\ Is(after)
  <2>1. Is(after)
    <3> HIDE DEF Is
    <3> QED
      BY <1>3
  <2>2. QED
    BY <2>1 DEF Loop
<1>5. \A k \in 0 .. n : after[k] \in inv[k]
  <2> DEFINE P == {k \in 0 .. n : after[k] \in inv[k]}
  <2>1. after[0] = first /\ \A k \in 1 .. n : after[k] = turn[after[k - 1]]
    <3> HIDE DEF after
    <3>1. Is(after)
      BY <1>4
    <3>2. QED
      BY <3>1
  <2> HIDE DEF after
  <2>2. 0 \in P
    BY <2>1
  <2>3. \A k \in 1 .. n : k - 1 \in P => k \in P
    BY <2>1
  <2>4. 0 .. n \subseteq P
    <3> HIDE DEF P
    <3> QED
      BY <2>2, <2>3, UpTo
  <2>5. QED
    BY <2>4
<1>6. QED
  BY <1>4, <1>5

------------------------------------------------------------------------------
(* The search for a blank line finds it, whatever the word.                 *)

(* The last byte of a blank line is at i.                                   *)
BlankEnd(h, i) == At(h, i) = "lf" /\ EndsBlankLine(h, i)

BlankEnds(h, k) == {i \in k .. Len(h) - 1 : BlankEnd(h, i)}

LEMMA FirstIs ==
  ASSUME NEW S \in SUBSET Nat, S # {}
  PROVE  First(S) \in S /\ \A j \in S : First(S) <= j
BY Least DEF First

LEMMA NewlinesBelow ==
  ASSUME NEW h \in Seq(Byte), NEW j \in Nat, NEW k \in Nat, k <= j,
         Newlines(h, k) \cap (k .. j - 1) = {}
  PROVE  Newlines(h, j) = Newlines(h, k)
<1>1. Newlines(h, j) \subseteq Newlines(h, k)
  BY DEF Newlines
<1>2. ASSUME NEW i \in Newlines(h, k)
      PROVE  i \in Newlines(h, j)
  <2>1. i \in k .. Len(h) - 1 /\ At(h, i) = "lf" /\ ~ (i \in k .. j - 1)
    BY <1>2 DEF Newlines
  <2>2. i \in j .. Len(h) - 1
    BY <2>1
  <2>3. QED
    BY <2>1, <2>2 DEF Newlines
<1>3. QED
  BY <1>1, <1>2

LEMMA NextNewlineIs ==
  ASSUME NEW h \in Seq(Byte), NEW k \in Nat
  PROVE  NextNewline(h, k) = Newlines(h, k)
<1> DEFINE turn == [j \in Nat |-> IF WordClear(h, j) THEN j + Word ELSE j]
           Good == {j \in Nat : k <= j /\ Newlines(h, k) \cap (k .. j - 1) = {}}
           inv  == [n \in 0 .. Len(h) |-> Good]
<1>1. Word \in Nat /\ Len(h) \in Nat
  BY PageAssumption
<1>2. turn \in [Nat -> Nat]
  BY <1>1
<1>3. k \in Good
  OBVIOUS
<1>4. ASSUME NEW j \in Good
      PROVE  turn[j] \in Good
  <2>1. /\ j \in Nat /\ k <= j /\ Newlines(h, j) = Newlines(h, k)
        /\ Newlines(h, k) \cap (k .. j - 1) = {}
    BY NewlinesBelow
  <2>2. CASE WordClear(h, j)
    <3> DEFINE next == j + Word
    <3>1. turn[j] = next
      BY <2>1, <2>2
    <3>2. Newlines(h, k) \cap (j .. j + Word - 1) = {}
      BY <2>1, <2>2 DEF WordClear
    <3>3. Newlines(h, k) \cap (k .. next - 1) = {}
      <4> SUFFICES ASSUME NEW i \in k .. next - 1, i \in Newlines(h, k)
                   PROVE  FALSE
        OBVIOUS
      <4>1. i \in k .. j - 1 \/ i \in j .. j + Word - 1
        BY <1>1, <2>1
      <4>2. QED
        BY <2>1, <3>2, <4>1
    <3>4. next \in Nat /\ k <= next
      BY <1>1, <2>1
    <3>5. next \in Good
      <4> HIDE DEF next
      <4> QED
        BY <3>3, <3>4
    <3>6. QED
      BY <3>1, <3>5, Zenon
  <2>3. CASE ~ WordClear(h, j)
    BY <2>1, <2>3
  <2>4. QED
    BY <2>2, <2>3
<1>5. Loop(Len(h), k, turn) \in Good
  <2>1. inv \in [0 .. Len(h) -> SUBSET Nat] /\ k \in inv[0]
    BY <1>1, <1>3
  <2>2. \A n \in 1 .. Len(h) : \A j \in inv[n - 1] : turn[j] \in inv[n]
    <3> HIDE DEF turn, Good
    <3>1. \A n \in 1 .. Len(h) : n \in 0 .. Len(h) /\ n - 1 \in 0 .. Len(h)
      BY <1>1
    <3>2. QED
      BY <1>4, <3>1
  <2>3. Loop(Len(h), k, turn) \in inv[Len(h)]
    <3> HIDE DEF inv, turn
    <3> QED
      BY <1>1, <1>2, <2>1, <2>2, LoopInvariant
  <2>4. QED
    BY <1>1, <2>3
<1>6. SkipWords(h, k) \in Good
  BY <1>5 DEF SkipWords
<1>7. QED
  BY <1>6, NewlinesBelow DEF NextNewline

(* A search that looks at each candidate in turn: what it has found is      *)
(* there, and there is nothing before where it goes on.                     *)
Searching(h, from, n, last) ==
  {s \in Search :
     IF s.found THEN BlankEnds(h, from) # {}
     ELSE /\ s.k >= from - last /\ BlankEnds(h, from) \cap (from .. s.k + last - 1) = {}
          /\ s.k >= n \/ BlankEnds(h, from) = {}}

LEMMA SearchFinds ==
  ASSUME NEW h \in Seq(Byte), NEW from \in Nat, NEW last \in {0, 2},
         from >= last, NEW turn \in [Search -> Search],
         \A n \in 1 .. Len(h) :
           \A s \in Searching(h, from, n - 1, last) :
             turn[s] \in Searching(h, from, n, last)
  PROVE  Loop(Len(h), StartAt(from - last), turn).found <=> BlankEnds(h, from) # {}
<1> DEFINE first == StartAt(from - last)
           inv == [n \in 0 .. Len(h) |-> Searching(h, from, n, last)]
<1>1. Len(h) \in Nat /\ first \in Search /\ first.k = from - last /\ ~ first.found
  BY DEF StartAt, Search
<1>2. first \in Searching(h, from, 0, last)
  <2>1. from .. first.k + last - 1 = {}
    BY <1>1
  <2>2. QED
    BY <1>1, <2>1 DEF Searching
<1>3. inv \in [0 .. Len(h) -> SUBSET Search] /\ first \in inv[0]
  BY <1>1, <1>2 DEF Searching
<1>4. \A n \in 1 .. Len(h) : \A s \in inv[n - 1] : turn[s] \in inv[n]
  <2>1. \A n \in 1 .. Len(h) : n \in 0 .. Len(h) /\ n - 1 \in 0 .. Len(h)
    BY <1>1
  <2>2. QED
    BY <2>1
<1>5. Loop(Len(h), first, turn) \in inv[Len(h)]
  <2> HIDE DEF inv, first
  <2> QED
    BY <1>1, <1>3, <1>4, LoopInvariant
<1> DEFINE s == Loop(Len(h), first, turn)
<1>6. s \in Searching(h, from, Len(h), last)
  BY <1>1, <1>5
<1> HIDE DEF s
<1>7. CASE s.found
  BY <1>6, <1>7 DEF Searching, s
<1>8. CASE ~ s.found
  <2>1. /\ s.k \in Nat /\ BlankEnds(h, from) \cap (from .. s.k + last - 1) = {}
        /\ s.k >= Len(h) \/ BlankEnds(h, from) = {}
    BY <1>6, <1>8 DEF Searching, Search
  <2>2. ASSUME NEW i \in BlankEnds(h, from), s.k >= Len(h)
        PROVE  FALSE
    <3>1. i \in from .. Len(h) - 1
      BY DEF BlankEnds
    <3>2. i \in from .. s.k + last - 1
      BY <1>1, <2>1, <2>2, <3>1
    <3>3. QED
      BY <2>1, <3>2
  <2>3. BlankEnds(h, from) = {}
    BY <2>1, <2>2
  <2>4. QED
    BY <1>8, <2>3 DEF s
<1>9. QED
  BY <1>7, <1>8

LEMMA TryNewlineSearches ==
  ASSUME NEW h \in Seq(Byte), NEW from \in Nat, NEW n \in 1 .. Len(h),
         NEW s \in Searching(h, from, n - 1, 0)
  PROVE  TryNewline(h, s) \in Searching(h, from, n, 0)
<1>1. /\ s \in Search /\ s.k \in Nat /\ s.found \in BOOLEAN /\ Len(h) \in Nat
      /\ s.found => BlankEnds(h, from) # {}
      /\ ~ s.found => /\ s.k >= from
                      /\ BlankEnds(h, from) \cap (from .. s.k - 1) = {}
                      /\ s.k >= n - 1 \/ BlankEnds(h, from) = {}
  BY DEF Searching, Search
<1>2. NextNewline(h, s.k) = Newlines(h, s.k)
  BY <1>1, NextNewlineIs
<1>3. CASE s.found
  BY <1>1, <1>3 DEF TryNewline, Searching
<1>4. ASSUME ~ s.found, NEW b \in BlankEnds(h, from)
      PROVE  b \in Newlines(h, s.k)
  <2>1. b \in from .. Len(h) - 1 /\ At(h, b) = "lf"
    BY DEF BlankEnds, BlankEnd
  <2>2. b \in s.k .. Len(h) - 1
    BY <1>1, <1>4, <2>1
  <2>3. QED
    BY <2>1, <2>2 DEF Newlines
<1>5. CASE ~ s.found /\ (s.k >= Len(h) \/ Newlines(h, s.k) = {})
  <2>1. TryNewline(h, s) = s
    BY <1>2, <1>5 DEF TryNewline
  <2>2. s.k >= n \/ BlankEnds(h, from) = {}
    BY <1>1, <1>4, <1>5
  <2>3. QED
    BY <1>1, <1>5, <2>1, <2>2 DEF Searching
<1>6. CASE ~ s.found /\ ~ (s.k >= Len(h) \/ Newlines(h, s.k) = {})
  <2> DEFINE i == First(Newlines(h, s.k))
             t == [k |-> i + 1, found |-> EndsBlankLine(h, i)]
  <2>1. i \in Newlines(h, s.k) /\ \A j \in Newlines(h, s.k) : i <= j
    <3>1. Newlines(h, s.k) \in SUBSET Nat
      BY <1>1 DEF Newlines
    <3>2. QED
      BY <1>6, <3>1, FirstIs
  <2>2. TryNewline(h, s) = t
    BY <1>2, <1>6 DEF TryNewline
  <2>3. i \in s.k .. Len(h) - 1 /\ At(h, i) = "lf" /\ i \in Nat
    BY <1>1, <2>1 DEF Newlines
  <2> HIDE DEF i
  <2>4. t \in Search /\ t.k = i + 1 /\ t.found = EndsBlankLine(h, i)
    <3>1. EndsBlankLine(h, i) \in BOOLEAN
      BY DEF EndsBlankLine
    <3>2. QED
      BY <2>3, <3>1 DEF Search
  <2> HIDE DEF t
  <2>5. CASE EndsBlankLine(h, i)
    <3>1. i \in from .. Len(h) - 1
      BY <1>1, <1>6, <2>3
    <3>2. i \in BlankEnds(h, from)
      BY <2>3, <2>5, <3>1 DEF BlankEnds, BlankEnd
    <3>3. QED
      BY <2>2, <2>4, <2>5, <3>2 DEF Searching
  <2>6. CASE ~ EndsBlankLine(h, i)
    <3>1. ASSUME NEW b \in BlankEnds(h, from), b \in from .. i
          PROVE  FALSE
      <4>1. i <= b /\ b \in Nat
        BY <1>4, <1>6, <2>1, <3>1
      <4>2. b = i
        BY <2>3, <3>1, <4>1
      <4>3. QED
        BY <2>6, <4>2 DEF BlankEnds, BlankEnd
    <3>2. t.k + 0 - 1 = i /\ t.k >= from - 0
      BY <1>1, <1>6, <2>3, <2>4
    <3>3. t.k >= n \/ BlankEnds(h, from) = {}
      BY <1>1, <1>6, <2>3, <2>4
    <3>4. QED
      BY <2>2, <2>4, <2>6, <3>1, <3>2, <3>3 DEF Searching
  <2>7. QED
    BY <2>5, <2>6
<1>7. QED
  BY <1>1, <1>3, <1>5, <1>6

(* The portable search, whatever the length of its word.                    *)
LEMMA PortableFinds ==
  ASSUME NEW h \in Seq(Byte), NEW from \in Nat
  PROVE  BlankLinePortable(h, from) <=> BlankEnds(h, from + 3) # {}
<1> DEFINE turn == [s \in Search |-> TryNewline(h, s)]
<1>1. ASSUME NEW s \in Search
      PROVE  TryNewline(h, s) \in Search
  <2>1. s.k \in Nat /\ NextNewline(h, s.k) = Newlines(h, s.k)
    BY NextNewlineIs DEF Search
  <2>2. CASE s.found \/ s.k >= Len(h) \/ Newlines(h, s.k) = {}
    BY <2>1, <2>2 DEF TryNewline
  <2>3. CASE ~ (s.found \/ s.k >= Len(h) \/ Newlines(h, s.k) = {})
    <3>1. Newlines(h, s.k) \in SUBSET Nat
      BY <2>1 DEF Newlines
    <3>2. First(Newlines(h, s.k)) \in Nat
      BY <2>3, <3>1, FirstIs
    <3>3. QED
      BY <2>1, <2>3, <3>2 DEF TryNewline, Search, EndsBlankLine
  <2>4. QED
    BY <2>2, <2>3
<1>2. turn \in [Search -> Search]
  BY <1>1
<1>3. \A n \in 1 .. Len(h) : \A s \in Searching(h, from + 3, n - 1, 0) :
        turn[s] \in Searching(h, from + 3, n, 0)
  BY TryNewlineSearches DEF Searching
<1>4. Loop(Len(h), StartAt((from + 3) - 0), turn).found
        <=> BlankEnds(h, from + 3) # {}
  <2> HIDE DEF turn
  <2>1. from + 3 \in Nat /\ from + 3 >= 0 /\ 0 \in {0, 2}
    OBVIOUS
  <2>2. QED
    BY <1>2, <1>3, <2>1, SearchFinds
<1>5. (from + 3) - 0 = from + 3
  OBVIOUS
<1>6. QED
  BY <1>4, <1>5 DEF BlankLinePortable

LEMMA TryPairSearches ==
  ASSUME NEW h \in Seq(Byte), NEW from \in Nat, from >= 2, NEW n \in 1 .. Len(h),
         NEW s \in Searching(h, from, n - 1, 2)
  PROVE  TryPair(h, s) \in Searching(h, from, n, 2)
<1>1. /\ s \in Search /\ s.k \in Nat /\ s.found \in BOOLEAN /\ Len(h) \in Nat
      /\ s.found => BlankEnds(h, from) # {}
      /\ ~ s.found => /\ s.k >= from - 2
                      /\ BlankEnds(h, from) \cap (from .. s.k + 1) = {}
                      /\ s.k >= n - 1 \/ BlankEnds(h, from) = {}
  BY DEF Searching, Search
<1>2. CASE s.found
  BY <1>1, <1>2 DEF TryPair, Searching
<1>3. ASSUME ~ s.found, NEW b \in BlankEnds(h, from)
      PROVE  b \in Nat /\ b - 2 \in Pairs(h, s.k)
  <2>1. b \in from .. Len(h) - 1 /\ At(h, b - 1) = "cr" /\ At(h, b - 2) = "lf"
    BY DEF BlankEnds, BlankEnd, EndsBlankLine
  <2>2. b - 2 \in s.k .. Len(h) - 2 /\ (b - 2) + 1 = b - 1 /\ b \in Nat
    BY <1>1, <1>3, <2>1
  <2>3. QED
    BY <2>1, <2>2 DEF Pairs
<1>4. CASE ~ s.found /\ Pairs(h, s.k) = {}
  <2>1. TryPair(h, s) = s
    BY <1>4 DEF TryPair
  <2>2. BlankEnds(h, from) = {}
    BY <1>3, <1>4
  <2>3. QED
    BY <1>1, <1>4, <2>1, <2>2 DEF Searching
<1>5. CASE ~ s.found /\ Pairs(h, s.k) # {}
  <2> DEFINE i == First(Pairs(h, s.k))
             Whole == At(h, i - 1) = "cr" /\ i + 2 < Len(h) /\ At(h, i + 2) = "lf"
             t == [k |-> i + 1, found |-> Whole]
  <2>1. i \in Pairs(h, s.k) /\ \A j \in Pairs(h, s.k) : i <= j
    <3>1. Pairs(h, s.k) \in SUBSET Nat
      BY <1>1 DEF Pairs
    <3>2. QED
      BY <1>5, <3>1, FirstIs
  <2>2. TryPair(h, s) = t
    BY <1>5 DEF TryPair
  <2>3. /\ i \in s.k .. Len(h) - 2 /\ i \in Nat
        /\ At(h, i) = "lf" /\ At(h, i + 1) = "cr"
    BY <1>1, <2>1 DEF Pairs
  <2> HIDE DEF i
  <2>4. t \in Search /\ t.k = i + 1 /\ t.found = Whole
    <3>1. Whole \in BOOLEAN
      OBVIOUS
    <3> HIDE DEF Whole
    <3>2. QED
      BY <2>3, <3>1 DEF Search
  <2>5. Whole <=> i + 2 \in BlankEnds(h, from)
    <3>1. (i + 2) - 1 = i + 1 /\ (i + 2) - 2 = i /\ (i + 2) - 3 = i - 1
      BY <2>3
    <3>2. i + 2 \in from .. Len(h) - 1 <=> i + 2 < Len(h)
      BY <1>1, <1>5, <2>3
    <3>3. QED
      BY <2>3, <3>1, <3>2 DEF BlankEnds, BlankEnd, EndsBlankLine
  <2> HIDE DEF t, Whole
  <2>6. CASE Whole
    BY <2>2, <2>4, <2>5, <2>6 DEF Searching
  <2>7. CASE ~ Whole
    <3>1. ASSUME NEW b \in BlankEnds(h, from), b \in from .. i + 2
          PROVE  FALSE
      <4>1. i <= b - 2 /\ b \in Nat
        BY <1>3, <1>5, <2>1
      <4>2. b = i + 2
        BY <2>3, <3>1, <4>1
      <4>3. QED
        BY <2>5, <2>7, <4>2
    <3>2. t.k + 2 - 1 = i + 2 /\ t.k >= from - 2
      BY <1>1, <1>5, <2>3, <2>4
    <3>3. t.k >= n \/ BlankEnds(h, from) = {}
      BY <1>1, <1>5, <2>3, <2>4
    <3>4. QED
      BY <2>2, <2>4, <2>7, <3>1, <3>2, <3>3 DEF Searching
  <2>8. QED
    BY <2>6, <2>7
<1>6. QED
  BY <1>1, <1>2, <1>4, <1>5

(* The vector unit's twin finds the same.                                   *)
LEMMA VectorFinds ==
  ASSUME NEW h \in Seq(Byte), NEW from \in Nat
  PROVE  BlankLineVector(h, from) <=> BlankEnds(h, from + 3) # {}
<1> DEFINE turn == [s \in Search |-> TryPair(h, s)]
<1>1. ASSUME NEW s \in Search
      PROVE  TryPair(h, s) \in Search
  <2>1. s.k \in Nat
    BY DEF Search
  <2>2. CASE s.found \/ Pairs(h, s.k) = {}
    BY <2>2 DEF TryPair
  <2>3. CASE ~ (s.found \/ Pairs(h, s.k) = {})
    <3>1. Pairs(h, s.k) \in SUBSET Nat
      BY <2>1 DEF Pairs
    <3>2. First(Pairs(h, s.k)) \in Nat
      BY <2>3, <3>1, FirstIs
    <3>3. QED
      BY <2>3, <3>2 DEF TryPair, Search
  <2>4. QED
    BY <2>2, <2>3
<1>2. turn \in [Search -> Search]
  BY <1>1
<1>3. \A n \in 1 .. Len(h) : \A s \in Searching(h, from + 3, n - 1, 2) :
        turn[s] \in Searching(h, from + 3, n, 2)
  <2>1. from + 3 \in Nat /\ from + 3 >= 2
    OBVIOUS
  <2>2. QED
    BY <2>1, TryPairSearches DEF Searching
<1>4. Loop(Len(h), StartAt((from + 3) - 2), turn).found
        <=> BlankEnds(h, from + 3) # {}
  <2> HIDE DEF turn
  <2>1. from + 3 \in Nat /\ from + 3 >= 2 /\ 2 \in {0, 2}
    OBVIOUS
  <2>2. QED
    BY <1>2, <1>3, <2>1, SearchFinds
<1>5. (from + 3) - 2 = from + 1
  OBVIOUS
<1>6. QED
  BY <1>4, <1>5 DEF BlankLineVector

------------------------------------------------------------------------------
(* The head.                                                                *)

LEMMA HasBlankLineIs ==
  ASSUME NEW h \in Seq(Byte)
  PROVE  HasBlankLine(h) <=> BlankEnds(h, 3) # {}
<1>1. Len(h) \in Nat
  OBVIOUS
<1>2. ASSUME NEW i \in 1 .. Len(h) - 3
      PROVE  SubSeq(h, i, i + 3) = <<"cr", "lf", "cr", "lf">> <=> BlankEnd(h, i + 2)
  <2> DEFINE part == SubSeq(h, i, i + 3)
             line == <<"cr", "lf", "cr", "lf">>
  <2>1. /\ part \in Seq(Byte) /\ Len(part) = 4
        /\ part[1] = h[i] /\ part[2] = h[i + 1] /\ part[3] = h[i + 2]
        /\ part[4] = h[i + 3]
    <3>1. /\ i \in Int /\ i + 3 \in Int /\ i <= i + 3 /\ (i + 3) - i + 1 = 4
          /\ \A j \in i .. i + 3 : h[j] \in Byte
      BY <1>1
    <3>2. /\ part \in Seq(Byte) /\ Len(part) = 4
          /\ \A j \in 1 .. 4 : part[j] = h[i + j - 1]
      BY <3>1, SubSeqProperties
    <3>3. i + 1 - 1 = i /\ i + 2 - 1 = i + 1 /\ i + 3 - 1 = i + 2 /\ i + 4 - 1 = i + 3
      BY <3>1
    <3> HIDE DEF part
    <3>4. /\ part[1] = h[i + 1 - 1] /\ part[2] = h[i + 2 - 1]
          /\ part[3] = h[i + 3 - 1] /\ part[4] = h[i + 4 - 1]
      BY <3>2
    <3>5. QED
      BY <3>2, <3>3, <3>4
  <2>2. /\ line \in Seq(Byte) /\ Len(line) = 4
        /\ line[1] = "cr" /\ line[2] = "lf" /\ line[3] = "cr" /\ line[4] = "lf"
    BY DEF Byte
  <2> HIDE DEF part, line
  <2>3. part = line <=> \A j \in 1 .. 4 : part[j] = line[j]
    BY <2>1, <2>2
  <2>4. part = line <=> /\ h[i] = "cr" /\ h[i + 1] = "lf" /\ h[i + 2] = "cr"
                        /\ h[i + 3] = "lf"
    BY <2>1, <2>2, <2>3
  <2>5. /\ At(h, i + 2) = h[i + 3] /\ At(h, (i + 2) - 1) = h[i + 2]
        /\ At(h, (i + 2) - 2) = h[i + 1] /\ At(h, (i + 2) - 3) = h[i]
    BY DEF At
  <2>6. QED
    BY <2>4, <2>5 DEF BlankEnd, EndsBlankLine, part, line
<1>3. HasBlankLine(h) => BlankEnds(h, 3) # {}
  <2> SUFFICES ASSUME NEW i \in 1 .. Len(h) - 3, BlankEnd(h, i + 2)
               PROVE  BlankEnds(h, 3) # {}
    BY <1>2 DEF HasBlankLine
  <2>1. i + 2 \in 3 .. Len(h) - 1
    BY <1>1
  <2>2. QED
    BY <2>1 DEF BlankEnds
<1>4. BlankEnds(h, 3) # {} => HasBlankLine(h)
  <2> SUFFICES ASSUME NEW e \in BlankEnds(h, 3)
               PROVE  HasBlankLine(h)
    OBVIOUS
  <2>1. e \in 3 .. Len(h) - 1 /\ BlankEnd(h, e)
    BY DEF BlankEnds
  <2>2. e - 2 \in 1 .. Len(h) - 3 /\ (e - 2) + 2 = e
    BY <1>1, <2>1
  <2>3. QED
    BY <1>2, <2>1, <2>2 DEF HasBlankLine
<1>5. QED
  BY <1>3, <1>4

(* What was searched has no blank line: a head is not read on once it has.  *)
NoneSeen == \A i \in 3 .. seen - 1 : ~ BlankEnd(head, i)

HeadInv ==
  /\ head \in Seq(Byte) /\ Len(head) <= MaxHead
  /\ seen \in 0 .. Len(head)
  /\ NoneSeen

LEMMA HeadIsExact ==
  ASSUME HeadInv
  PROVE  /\ Complete <=> HasBlankLine(head)
         /\ BlankLinePortable(head, 0) <=> HasBlankLine(head)
         /\ BlankLineVector(head, SearchStart(seen)) <=> HasBlankLine(head)
<1>1. seen \in Nat /\ Len(head) \in Nat /\ SearchStart(seen) \in Nat
  BY DEF HeadInv, SearchStart
<1>2. BlankEnds(head, SearchStart(seen) + 3) # {} <=> BlankEnds(head, 3) # {}
  <2>1. ASSUME NEW i \in BlankEnds(head, 3)
        PROVE  i \in BlankEnds(head, SearchStart(seen) + 3)
    <3>1. i \in 3 .. Len(head) - 1 /\ BlankEnd(head, i) /\ ~ (i \in 3 .. seen - 1)
      BY DEF BlankEnds, HeadInv, NoneSeen
    <3>2. i \in SearchStart(seen) + 3 .. Len(head) - 1
      BY <1>1, <3>1 DEF SearchStart
    <3>3. QED
      BY <3>1, <3>2 DEF BlankEnds
  <2>2. ASSUME NEW i \in BlankEnds(head, SearchStart(seen) + 3)
        PROVE  i \in BlankEnds(head, 3)
    BY <1>1 DEF BlankEnds
  <2>3. QED
    BY <2>1, <2>2
<1>3. HasBlankLine(head) <=> BlankEnds(head, 3) # {}
  BY HasBlankLineIs DEF HeadInv
<1>4. BlankLinePortable(head, 0) <=> BlankEnds(head, 0 + 3) # {}
  BY PortableFinds DEF HeadInv
<1>5. BlankLineVector(head, SearchStart(seen))
        <=> BlankEnds(head, SearchStart(seen) + 3) # {}
  BY <1>1, VectorFinds DEF HeadInv
<1>6. Complete <=> BlankEnds(head, SearchStart(seen) + 3) # {}
  BY <1>1, PortableFinds DEF HeadInv, Complete, HeadCompleteFrom
<1>7. QED
  BY <1>2, <1>3, <1>4, <1>5, <1>6

LEMMA ReadHead ==
  ASSUME HeadInv, Read
  PROVE  HeadInv'
<1> PICK n \in 1 .. MaxHead - Len(head) :
      \E bytes \in [1 .. n -> Byte] : head' = head \o bytes
  BY DEF Read
<1>1. PICK bytes \in [1 .. n -> Byte] : head' = head \o bytes
  OBVIOUS
<1>2. /\ head \in Seq(Byte) /\ Len(head) \in Nat /\ MaxHead \in Nat
      /\ Len(head) <= MaxHead /\ n \in Nat /\ seen' = Len(head)
  BY PageAssumption DEF HeadInv, Read
<1>3. bytes \in Seq(Byte) /\ Len(bytes) = n
  BY <1>2
<1>4. /\ head' \in Seq(Byte) /\ Len(head') = Len(head) + n
      /\ \A j \in 1 .. Len(head) : head'[j] = head[j]
  <2>1. /\ head \o bytes \in Seq(Byte) /\ Len(head \o bytes) = Len(head) + n
        /\ \A j \in 1 .. Len(head) + n :
             (head \o bytes)[j] = IF j <= Len(head) THEN head[j] ELSE bytes[j - Len(head)]
    BY <1>2, <1>3, ConcatProperties
  <2>2. \A j \in 1 .. Len(head) : j \in 1 .. Len(head) + n /\ j <= Len(head)
    BY <1>2
  <2>3. QED
    BY <1>1, <2>1, <2>2
<1>5. Len(head') <= MaxHead /\ seen' \in 0 .. Len(head')
  BY <1>2, <1>4
<1>6. BlankEnds(head, 3) = {}
  <2>1. ~ Complete
    BY DEF Read
  <2>2. QED
    BY <2>1, HeadIsExact, HasBlankLineIs DEF HeadInv
<1>7. ASSUME NEW i \in 3 .. seen' - 1
      PROVE  ~ BlankEnd(head', i)
  <2>1. i \in 3 .. Len(head) - 1
    BY <1>2
  <2>2. ~ BlankEnd(head, i)
    BY <1>6, <2>1 DEF BlankEnds
  <2>3. BlankEnd(head', i) <=> BlankEnd(head, i)
    <3>1. \A j \in 0 .. 3 : (i - j) + 1 \in 1 .. Len(head)
      BY <1>2, <2>1
    <3>2. /\ head'[i + 1] = head[i + 1] /\ head'[(i - 1) + 1] = head[(i - 1) + 1]
          /\ head'[(i - 2) + 1] = head[(i - 2) + 1]
          /\ head'[(i - 3) + 1] = head[(i - 3) + 1]
      BY <1>2, <1>4, <2>1
    <3>3. QED
      BY <3>2 DEF BlankEnd, EndsBlankLine, At
  <2>4. QED
    BY <2>2, <2>3
<1>8. QED
  BY <1>4, <1>5, <1>7 DEF HeadInv, NoneSeen

LEMMA NextHead ==
  ASSUME HeadInv, [Next]_vars
  PROVE  HeadInv'
<1>1. CASE Read
  BY <1>1, ReadHead
<1>2. CASE UNCHANGED <<head, seen>>
  BY <1>2 DEF HeadInv, NoneSeen, BlankEnd, EndsBlankLine, At
<1>3. CASE head' = << >> /\ seen' = 0
  BY <1>3, PageAssumption DEF HeadInv, NoneSeen
<1>4. Read \/ UNCHANGED <<head, seen>> \/ (head' = << >> /\ seen' = 0)
  <2>1. ASSUME NEW r, Parse(r) PROVE head' = << >> /\ seen' = 0
    BY <2>1 DEF Parse
  <2>2. HeadFound \/ HeadFull \/ ReadFails => head' = << >> /\ seen' = 0
    BY <2>1 DEF HeadFound, HeadFull, ReadFails
  <2>3. Dispatch => UNCHANGED <<head, seen>>
    BY DEF Dispatch, Respond
  <2>4. WriteStreamHead \/ AcquireSlot \/ GrabPacked \/ GrabUnpacked \/ GrabFails
          \/ SendFrame \/ SendFails => UNCHANGED <<head, seen>>
    BY DEF WriteStreamHead, AcquireSlot, GrabPacked, GrabUnpacked, GrabFails,
           SendFrame, SendFails, GoTo, connection
  <2>5. QED
    BY <2>2, <2>3, <2>4
    DEF Next, Leave, StackNotices, FrameArrives, Accept, BeginStream, Close,
        vars, connection
<1>5. QED
  BY <1>1, <1>2, <1>3, <1>4

(* The head searched has no blank line, and outgrows nothing.               *)
LEMMA HeadAlways == Spec => []HeadInv
<1>1. Init => HeadInv
  BY PageAssumption DEF Init, HeadInv, NoneSeen
<1>2. QED
  BY <1>1, NextHead, PTL DEF Spec

(* Searching each read's new bytes gives the answer a search of the whole   *)
(* head would, for any length of head, wherever the reads cut it, with the  *)
(* portable search of any word and with the vector unit's.                  *)
THEOREM PageSearch == Spec => []SearchIsExact
<1>1. HeadInv => SearchIsExact
  BY HeadIsExact DEF SearchIsExact
<1>2. QED
  BY <1>1, HeadAlways, PTL

------------------------------------------------------------------------------
(* The frame buffers.                                                       *)

(* A stream that has failed too often only closes.                          *)
ErrorsBounded ==
  /\ grab_errors \in 0 .. MaxGrabErrors + 1
  /\ grab_errors > MaxGrabErrors => at = "close"

SlotInv == PageInv /\ ErrorsBounded

LEMMA InitSlots == Init => SlotInv
<1> SUFFICES ASSUME Init PROVE SlotInv
  OBVIOUS
<1>1. Len(head) \in 0 .. MaxHead /\ seen \in 0 .. Len(head)
  BY PageAssumption DEF Init
<1>2. ErrorsBounded
  BY PageAssumption DEF Init, ErrorsBounded
<1>3. QED
  BY <1>1, <1>2 DEF Init, SlotInv, PageInv, TypeOK, SlotsComeBack, ErrorsBounded

LEMMA HeadBounds ==
  ASSUME HeadInv'
  PROVE  Len(head') \in 0 .. MaxHead /\ seen' \in 0 .. Len(head')
<1>1. head' \in Seq(Byte) /\ Len(head') <= MaxHead /\ seen' \in 0 .. Len(head')
  BY DEF HeadInv
<1>2. \A h \in Seq(Byte) : Len(h) \in Nat
  OBVIOUS
<1>3. QED
  BY <1>1, <1>2, PageAssumption

(* Steps that leave the pool alone.                                         *)
LEMMA QuietSlots ==
  ASSUME SlotInv, UNCHANGED <<camera, free, slot, grab_errors>>,
         HeadInv', ready' \in BOOLEAN, viewer' \in {"open", "left", "dead"},
         asked' \in Asked \cup {"none"}, answer' \in Answer \cup {"none"},
         \/ at' = at
         \/ at \in {"accept", "read", "dispatch", "stream head"}
            /\ at' \in {"read", "dispatch", "stream head", "wait", "close"}
            /\ grab_errors <= MaxGrabErrors
         \/ at = "grab" /\ at' = "send"
  PROVE  SlotInv'
<1>1. Len(head') \in 0 .. MaxHead /\ seen' \in 0 .. Len(head')
  BY HeadBounds
<1>2. TypeOK'
  BY <1>1 DEF SlotInv, PageInv, TypeOK
<1>3. SlotsComeBack'
  BY DEF SlotInv, PageInv, SlotsComeBack
<1>4. ErrorsBounded'
  <2>1. grab_errors \in 0 .. MaxGrabErrors + 1 /\ MaxGrabErrors \in Nat
    BY PageAssumption DEF SlotInv, ErrorsBounded
  <2>2. at = "close" => at' = "close"
    OBVIOUS
  <2>3. grab_errors > MaxGrabErrors => at' = "close"
    BY <2>1, <2>2 DEF SlotInv, ErrorsBounded
  <2>4. QED
    BY <2>3 DEF SlotInv, ErrorsBounded
<1>5. QED
  BY <1>2, <1>3, <1>4 DEF SlotInv, PageInv

(* The end of a frame, however it ends.                                     *)
LEMMA ReleaseSlots ==
  ASSUME SlotInv, Release, at \in {"grab", "send"}, at' \in {"wait", "close"},
         UNCHANGED <<camera, connection>>, ready' \in BOOLEAN,
         \/ grab_errors' = grab_errors
         \/ /\ grab_errors' = grab_errors + 1
            /\ grab_errors' > MaxGrabErrors => at' = "close"
  PROVE  SlotInv'
<1>1. /\ free = Slots \ {slot} /\ slot \in Slots
      /\ free' = free \cup {slot} /\ slot' = NoSlot
  BY DEF SlotInv, PageInv, SlotsComeBack, Release
<1>2. free' = Slots
  BY <1>1
<1>3. ErrorsBounded'
  <2>1. /\ grab_errors \in Nat /\ grab_errors <= MaxGrabErrors /\ MaxGrabErrors \in Nat
    BY PageAssumption DEF SlotInv, ErrorsBounded
  <2>2. QED
    BY <2>1 DEF ErrorsBounded
<1>4. TypeOK'
  <2>1. grab_errors' \in 0 .. MaxGrabErrors + 1
    BY <1>3 DEF ErrorsBounded
  <2>2. QED
    BY <1>1, <1>2, <2>1 DEF SlotInv, PageInv, TypeOK, connection
<1>5. SlotsComeBack'
  BY <1>1, <1>2 DEF SlotsComeBack
<1>6. QED
  BY <1>3, <1>4, <1>5 DEF SlotInv, PageInv

LEMMA NextSlots ==
  ASSUME SlotInv, HeadInv', [Next]_vars
  PROVE  SlotInv'
<1>1. /\ ready \in BOOLEAN /\ viewer \in {"open", "left", "dead"}
      /\ asked \in Asked \cup {"none"} /\ answer \in Answer \cup {"none"}
      /\ at # "close" => grab_errors <= MaxGrabErrors
  <2>1. at # "close" => grab_errors <= MaxGrabErrors
    BY PageAssumption DEF SlotInv, ErrorsBounded
  <2>2. QED
    BY <2>1 DEF SlotInv, PageInv, TypeOK
<1>2. CASE Leave \/ StackNotices \/ FrameArrives \/ UNCHANGED vars
  BY <1>1, <1>2, QuietSlots
  DEF Leave, StackNotices, FrameArrives, vars, connection, frame
<1>3. CASE Accept \/ Read
  BY <1>1, <1>3, QuietSlots DEF Accept, Read, frame
<1>4. CASE HeadFound \/ HeadFull \/ ReadFails
  <2>1. PICK r \in Asked : Parse(r) /\ at = "read"
    BY <1>4 DEF HeadFound, HeadFull, ReadFails, Asked
  <2>2. QED
    BY <1>1, <2>1, QuietSlots DEF Parse, frame
<1>5. CASE Dispatch \/ BeginStream
  <2>1. CASE Dispatch
    <3>1. PICK what \in Answer : Respond(what) /\ at = "dispatch"
      BY <2>1 DEF Dispatch, Answer
    <3>2. QED
      BY <1>1, <3>1, QuietSlots DEF Respond, frame
  <2>2. CASE BeginStream
    <3>1. answer' \in Answer
      BY <2>2 DEF BeginStream, Answer
    <3>2. QED
      BY <1>1, <2>2, <3>1, QuietSlots DEF BeginStream, frame
  <2>3. QED
    BY <1>5, <2>1, <2>2
<1>6. CASE Close
  <2>1. /\ at = "close" /\ at' = "accept" /\ viewer' = "dead" /\ asked' = "none"
        /\ answer' = "none" /\ grab_errors' = 0
        /\ UNCHANGED <<camera, head, seen, ready, free, slot>>
    BY <1>6 DEF Close
  <2>2. ErrorsBounded' /\ 0 \in 0 .. MaxGrabErrors + 1
    BY <2>1, PageAssumption DEF ErrorsBounded
  <2>3. TypeOK'
    BY <2>1, <2>2 DEF SlotInv, PageInv, TypeOK
  <2>4. SlotsComeBack'
    BY <2>1 DEF SlotInv, PageInv, SlotsComeBack
  <2>5. QED
    BY <2>2, <2>3, <2>4 DEF SlotInv, PageInv
<1>7. CASE WriteStreamHead \/ GrabPacked
  BY <1>1, <1>7, QuietSlots DEF WriteStreamHead, GrabPacked, GoTo, connection, frame
<1>8. CASE AcquireSlot
  <2>1. /\ at = "wait" /\ free = Slots
    BY <1>8 DEF AcquireSlot, SlotInv, PageInv, SlotsComeBack
  <2>2. /\ at' = "grab" /\ slot' \in Slots /\ free' = Slots \ {slot'}
        /\ UNCHANGED <<camera, connection, ready, grab_errors>>
    BY <1>8, <2>1, PageAssumption DEF AcquireSlot, GoTo
  <2>3. TypeOK'
    BY <2>1, <2>2 DEF SlotInv, PageInv, TypeOK, connection
  <2>4. SlotsComeBack'
    BY <2>2 DEF SlotsComeBack
  <2>5. ErrorsBounded'
    BY <2>1, <2>2 DEF SlotInv, ErrorsBounded
  <2>6. QED
    BY <2>3, <2>4, <2>5 DEF SlotInv, PageInv
<1>9. CASE GrabUnpacked \/ GrabFails
  <2>1. /\ Release /\ at = "grab" /\ ready' = FALSE /\ UNCHANGED <<camera, connection>>
    BY <1>9 DEF GrabUnpacked, ReleaseUnpacked, GrabFails, GoTo
  <2>2. \/ at' = "wait" /\ grab_errors' = grab_errors
        \/ /\ grab_errors' = grab_errors + 1
           /\ at' = IF TooManyErrors THEN "close" ELSE "wait"
    BY <1>9 DEF GrabUnpacked, GrabFails, GoTo
  <2>3. QED
    BY <2>1, <2>2, ReleaseSlots DEF TooManyErrors
<1>10. CASE SendFrame \/ SendFails
  BY <1>1, <1>10, ReleaseSlots DEF SendFrame, SendFails, GoTo, AfterFailedSend
<1>11. QED
  BY <1>2, <1>3, <1>4, <1>5, <1>6, <1>7, <1>8, <1>9, <1>10 DEF Next

(* The types of the page server hold, its head never outgrows the buffer,   *)
(* and whatever becomes of a frame its slot comes back: the wait always     *)
(* finds one free, for any pool and any number of errors allowed.           *)
THEOREM PageInvariant == Spec => []PageInv
<1>1. Init => HeadInv /\ SlotInv
  BY PageAssumption, InitSlots DEF Init, HeadInv, NoneSeen
<1>2. HeadInv /\ SlotInv /\ [Next]_vars => (HeadInv /\ SlotInv)'
  BY NextHead, NextSlots
<1>3. SlotInv => PageInv
  BY DEF SlotInv
<1>4. QED
  BY <1>1, <1>2, <1>3, PTL DEF Spec

==============================================================================
