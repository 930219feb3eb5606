--------------------------- MODULE MjpegStreamProofs ---------------------------
(* The counts of the two ends of an MJPEG stream agree, and a buffer of a   *)
(* part and a chunk less a byte is enough, for all part lengths, buffers,   *)
(* chunks and windows, however TCP cuts the stream: no byte is made or lost *)
(* between the two ends.                                                    *)
EXTENDS MjpegStream, TLAPS

(* mark[k] is where part k ends, counted from the end of the response head. *)
Marks(mark) ==
  /\ mark[0] = 0
  /\ \A k \in 1 .. pushed : mark[k] = mark[k - 1] + PartLen(k)
  /\ \A i, j \in 0 .. pushed : i < j => mark[i + 1] <= mark[j]

(* The bytes the hub has taken from the socket, with those still in it.     *)
Carried(mark) ==
  (IF state = "Parts" THEN Head + mark[frames] ELSE 0) + len + flight

InHead(n) == pushed = 0 /\ n < Head

InPart(n, mark) ==
  /\ pushed < MaxParts
  /\ Head + mark[pushed] <= n /\ n < Head + mark[pushed] + PartLen(pushed + 1)

(* They are the bytes the device has written.                               *)
Conserved(mark) ==
  /\ server = "head" =>
       pushed = 0 /\ Carried(mark) + pending = Head
  /\ server \in {"source", "failed"} => Carried(mark) = Head + mark[pushed]
  /\ server = "part" =>
       /\ pushed < MaxParts
       /\ Carried(mark) + pending = Head + mark[pushed] + PartLen(pushed + 1)
  /\ server = "left" => InHead(Carried(mark)) \/ InPart(Carried(mark), mark)

Books ==
  \E mark \in [0 .. pushed -> Nat] :
    Marks(mark) /\ (~ Gone => Conserved(mark))

(* What the device has yet to write of what it is writing.                  *)
PendingIs ==
  /\ server = "head" => pushed = 0 /\ pending \in 1 .. Head
  /\ server = "part" =>
       pushed < MaxParts /\ pending \in 1 .. PartLen(pushed + 1)

(* The hub goes back to reading only when nothing it holds is whole.        *)
Hungry ==
  /\ state # "Parts" => frames = 0
  /\ client = "reading" /\ state # "Parts" => len < Head
  /\ client = "reading" /\ state = "Parts" =>
       len < Headers \/ len < PartLen(frames + 1)

EndIsEnd == client = "ended" => eof /\ frames = pushed

Inv ==
  /\ TypeOK /\ Books /\ PendingIs /\ Hungry /\ EndIsEnd /\ frames <= pushed
  /\ RoomyNeverTooSmall

------------------------------------------------------------------------------
LEMMA Numbers ==
  ASSUME TypeOK
  PROVE  /\ frames \in Nat /\ pushed \in Nat /\ pushed <= MaxParts
         /\ len \in Nat /\ len <= BufSize /\ flight \in Nat /\ pending \in Nat
         /\ Head \in Nat \ {0} /\ Headers \in Nat \ {0} /\ MaxParts \in Nat
         /\ BufSize \in Nat /\ Chunk \in Nat \ {0}
<1>1. /\ Head \in Nat \ {0} /\ Headers \in Nat \ {0} /\ MaxParts \in Nat
      /\ BufSize \in Nat /\ Chunk \in Nat \ {0} /\ Window \in Nat
  BY StreamAssumption
<1>2. /\ frames \in 0 .. MaxParts /\ pushed \in 0 .. MaxParts
      /\ len \in 0 .. BufSize /\ flight \in 0 .. Window /\ pending \in Nat
  BY DEF TypeOK
<1>3. QED
  BY <1>1, <1>2

LEMMA PartLenType ==
  ASSUME TypeOK, NEW k \in Parts
  PROVE  PartLen(k) \in Nat /\ PartLen(k) > Headers
<1>1. body[k] \in Nat \ {0}
  BY StreamAssumption DEF TypeOK
<1>2. Headers \in Nat
  BY StreamAssumption
<1>3. QED
  BY <1>1, <1>2 DEF PartLen

LEMMA InitInv == Init => Inv
<1> SUFFICES ASSUME Init PROVE Inv
  OBVIOUS
<1>0. /\ Head \in Nat \ {0} /\ MaxParts \in Nat /\ BufSize \in Nat
      /\ Window \in Nat /\ MaxCuts \in Nat
  BY StreamAssumption
<1>1. TypeOK
  <2>1. body \in [Parts -> Bodies]
    BY DEF Init
  <2>2. /\ server \in {"head", "source", "part", "left", "failed"}
        /\ client \in {"reading", "parsing", "done", "ended", "too small", "failed"}
        /\ state \in {"Start", "Head", "Parts"} /\ eof \in BOOLEAN
    BY DEF Init
  <2>3. /\ pending \in Nat /\ pushed \in 0 .. MaxParts /\ flight \in 0 .. Window
        /\ len \in 0 .. BufSize /\ frames \in 0 .. MaxParts /\ cuts \in 0 .. MaxCuts
    BY <1>0 DEF Init
  <2>4. QED
    BY <2>1, <2>2, <2>3 DEF TypeOK
<1>2. Books
  <2> DEFINE mark == [k \in 0 .. pushed |-> 0]
  <2>1. mark \in [0 .. pushed -> Nat] /\ Marks(mark)
    BY DEF Init, Marks
  <2>2. Conserved(mark)
    BY <1>0 DEF Init, Conserved, Carried
  <2>3. QED
    BY <2>1, <2>2 DEF Books
<1>3. PendingIs /\ Hungry
  BY <1>0 DEF Init, PendingIs, Hungry
<1>4. EndIsEnd /\ frames <= pushed /\ RoomyNeverTooSmall
  BY DEF Init, EndIsEnd, RoomyNeverTooSmall
<1>5. QED
  BY <1>1, <1>2, <1>3, <1>4 DEF Inv

------------------------------------------------------------------------------
(* While the hub runs, what the socket has carried is at least the parts    *)
(* pushed, and less than one part more.                                     *)
LEMMA CarriedBounds ==
  ASSUME TypeOK, PendingIs, NEW mark, Conserved(mark),
         Carried(mark) \in Nat, mark[pushed] \in Nat
  PROVE  \/ InHead(Carried(mark))
         \/ Carried(mark) = Head + mark[pushed]
         \/ InPart(Carried(mark), mark)
<1>0. /\ Head \in Nat \ {0} /\ pending \in Nat
      /\ pushed \in Nat /\ MaxParts \in Nat
  BY Numbers
<1>1. CASE server = "head"
  BY <1>0, <1>1 DEF Conserved, PendingIs, InHead
<1>2. CASE server \in {"source", "failed"}
  BY <1>2 DEF Conserved
<1>3. CASE server = "part"
  <2>1. /\ Carried(mark) + pending = Head + mark[pushed] + PartLen(pushed + 1)
        /\ pushed < MaxParts /\ pending \in 1 .. PartLen(pushed + 1)
    BY <1>3 DEF Conserved, PendingIs
  <2>2. PartLen(pushed + 1) \in Nat
    <3>1. pushed + 1 \in Parts
      BY <1>0, <2>1 DEF Parts
    <3>2. QED
      BY <3>1, PartLenType
  <2>3. QED
    BY <1>0, <2>1, <2>2 DEF InPart
<1>4. CASE server = "left"
  BY <1>4 DEF Conserved
<1>5. QED
  BY <1>1, <1>2, <1>3, <1>4 DEF TypeOK

(* So the hub and the socket hold the next part whole if it was pushed, and *)
(* only a piece of it if not.                                               *)
LEMMA Rest ==
  ASSUME Inv, ~ Gone
  PROVE  /\ state = "Parts" /\ frames < pushed => len + flight >= PartLen(frames + 1)
         /\ state = "Parts" /\ frames = pushed =>
              \/ len + flight = 0
              \/ pushed < MaxParts /\ len + flight < PartLen(frames + 1)
         /\ state # "Parts" /\ pushed > 0 => len + flight >= Head
<1>1. PICK mark \in [0 .. pushed -> Nat] : Marks(mark) /\ Conserved(mark)
  BY DEF Inv, Books
<1>2. /\ frames \in Nat /\ frames <= pushed /\ pushed \in Nat /\ pushed <= MaxParts
      /\ len \in Nat /\ flight \in Nat /\ Head \in Nat \ {0} /\ MaxParts \in Nat
  BY Numbers DEF Inv
<1>3. mark[frames] \in Nat /\ mark[pushed] \in Nat
  BY <1>2
<1>4. Carried(mark) \in Nat
  BY <1>2, <1>3 DEF Carried
<1>5. \/ InHead(Carried(mark))
      \/ Carried(mark) = Head + mark[pushed]
      \/ InPart(Carried(mark), mark)
  BY <1>1, <1>3, <1>4, CarriedBounds DEF Inv
<1>6. pushed < MaxParts => PartLen(pushed + 1) \in Nat
  <2>1. pushed < MaxParts => pushed + 1 \in Parts
    BY <1>2 DEF Parts
  <2>2. QED
    BY <2>1, PartLenType DEF Inv
<1>7. ASSUME state = "Parts", frames < pushed
      PROVE  len + flight >= PartLen(frames + 1)
  <2>1. frames + 1 \in 1 .. pushed /\ (frames + 1) - 1 = frames /\ frames \in 0 .. pushed
    BY <1>2, <1>7
  <2>2. /\ mark[frames + 1] = mark[frames] + PartLen(frames + 1)
        /\ mark[frames + 1] <= mark[pushed]
    BY <1>1, <1>2, <1>7, <2>1 DEF Marks
  <2>3. PartLen(frames + 1) \in Nat
    <3>1. frames + 1 \in Parts
      BY <1>2, <1>7 DEF Parts
    <3>2. QED
      BY <3>1, PartLenType DEF Inv
  <2>4. Carried(mark) = Head + mark[frames] + len + flight
    BY <1>2, <1>3, <1>7 DEF Carried
  <2>5. Carried(mark) >= Head + mark[pushed]
    BY <1>2, <1>3, <1>4, <1>5, <1>6, <1>7 DEF InHead, InPart
  <2>6. QED
    BY <1>2, <1>3, <2>2, <2>3, <2>4, <2>5
<1>8. ASSUME state = "Parts", frames = pushed
      PROVE  \/ len + flight = 0
             \/ pushed < MaxParts /\ len + flight < PartLen(frames + 1)
  <2>1. Carried(mark) = Head + mark[pushed] + len + flight
    BY <1>2, <1>3, <1>8 DEF Carried
  <2>2. QED
    BY <1>2, <1>3, <1>5, <1>6, <1>8, <2>1 DEF InHead, InPart
<1>9. ASSUME state # "Parts", pushed > 0
      PROVE  len + flight >= Head
  BY <1>2, <1>3, <1>5, <1>6, <1>9 DEF Carried, InHead, InPart
<1>10. QED
  BY <1>7, <1>8, <1>9

(* A part handed over is one that was pushed.                               *)
LEMMA OnlyPushed ==
  ASSUME Inv, ParsePart
  PROVE  frames < pushed
<1>1. ~ Gone /\ state = "Parts" /\ len >= Headers /\ len >= PartLen(frames + 1)
  BY DEF ParsePart, Gone
<1>2. /\ frames \in Nat /\ pushed \in Nat /\ MaxParts \in Nat /\ frames <= pushed
      /\ len \in Nat /\ flight \in Nat /\ Headers \in Nat \ {0}
  BY Numbers DEF Inv
<1>3. frames = pushed /\ pushed < MaxParts => PartLen(frames + 1) \in Nat
  <2>1. frames = pushed /\ pushed < MaxParts => frames + 1 \in Parts
    BY <1>2 DEF Parts
  <2>2. QED
    BY <2>1, PartLenType DEF Inv
<1>4. QED
  BY <1>1, <1>2, <1>3, Rest

(* What a read of n bytes does.                                             *)
ReadsBytes(n) ==
  /\ flight' = flight - n
  /\ \/ Fits(n) /\ client' = "parsing" /\ len' = len + n
     \/ ~ Fits(n) /\ client' = "too small" /\ len' = len

LEMMA ReadIs ==
  ASSUME Read
  PROVE  \E n \in 1 .. flight : n <= Chunk /\ ReadsBytes(n)
BY Zenon DEF Read, ReadsBytes

(* What a buffer with room for a part and a chunk less a byte is good for.  *)
LEMMA RoomEnough ==
  ASSUME Inv, Roomy
  PROVE  /\ \A n \in 1 .. flight :
              client = "reading" /\ n <= Chunk => Fits(n)
         /\ client = "parsing" /\ state = "Parts"
              /\ len >= Headers /\ len < PartLen(frames + 1)
              => ~ NoRoom(frames + 1)
<1>1. /\ frames \in Nat /\ pushed \in Nat /\ pushed <= MaxParts /\ frames <= pushed
      /\ len \in Nat /\ flight \in Nat /\ Head \in Nat \ {0} /\ MaxParts \in Nat
      /\ Headers \in Nat \ {0} /\ BufSize \in Nat /\ Chunk \in Nat \ {0}
  BY Numbers DEF Inv
<1>2. BufSize >= Head + Chunk - 1
  BY DEF Roomy
<1>3. frames + 1 \in Parts =>
        /\ PartLen(frames + 1) \in Nat /\ PartLen(frames + 1) > Headers
        /\ BufSize >= PartLen(frames + 1) + Chunk - 1
  BY PartLenType DEF Inv, Roomy
<1>4. ASSUME ~ Gone, state = "Parts", len + flight > 0
      PROVE  frames + 1 \in Parts
  <2>1. frames = pushed => pushed < MaxParts
    BY <1>1, <1>4, Rest
  <2>2. QED
    BY <1>1, <2>1 DEF Parts
<1>5. ASSUME NEW n \in 1 .. flight, client = "reading", n <= Chunk
      PROVE  Fits(n)
  <2>1. n \in Nat /\ n > 0 /\ flight > 0
    BY <1>1, <1>5
  <2>2. CASE state # "Parts"
    <3>1. len < Head
      BY <1>5, <2>2 DEF Inv, Hungry
    <3>2. QED
      BY <1>1, <1>2, <1>5, <2>1, <3>1 DEF Fits
  <2>3. CASE state = "Parts"
    <3>1. frames + 1 \in Parts
      BY <1>1, <1>4, <1>5, <2>1, <2>3 DEF Gone
    <3>2. len < Headers \/ len < PartLen(frames + 1)
      BY <1>5, <2>3 DEF Inv, Hungry
    <3>3. QED
      BY <1>1, <1>3, <1>5, <2>1, <3>1, <3>2 DEF Fits
  <2>4. QED
    BY <2>2, <2>3
<1>6. ASSUME client = "parsing", state = "Parts", len >= Headers
      PROVE  ~ NoRoom(frames + 1)
  <2>1. frames + 1 \in Parts
    BY <1>1, <1>4, <1>6 DEF Gone
  <2>2. QED
    BY <1>1, <1>3, <2>1 DEF NoRoom
<1>7. QED
  BY <1>5, <1>6

------------------------------------------------------------------------------
(* Types.                                                                   *)

LEMMA NextType == Inv /\ [Next]_vars => TypeOK'
<1> SUFFICES ASSUME Inv, [Next]_vars PROVE TypeOK'
  OBVIOUS
<1>0. TypeOK /\ frames <= pushed /\ PendingIs
  BY DEF Inv
<1>1. /\ frames \in Nat /\ pushed \in Nat /\ pushed <= MaxParts
      /\ len \in Nat /\ len <= BufSize /\ flight \in Nat /\ pending \in Nat
      /\ Head \in Nat \ {0} /\ MaxParts \in Nat /\ BufSize \in Nat
      /\ flight \in 0 .. Window /\ Window \in Nat
      /\ cuts \in 0 .. MaxCuts /\ MaxCuts \in Nat
  BY <1>0, Numbers, StreamAssumption DEF TypeOK
<1>2. CASE NextPacket
  <2>1. pushed + 1 \in Parts
    BY <1>1, <1>2 DEF NextPacket, Parts
  <2>2. pending' \in Nat
    BY <1>0, <1>2, <2>1, PartLenType DEF NextPacket
  <2>3. QED
    BY <1>0, <1>2, <2>2 DEF NextPacket, clientVars, TypeOK
<1>3. CASE SourceFails \/ WriteFails
  BY <1>0, <1>3 DEF SourceFails, WriteFails, clientVars, TypeOK
<1>4. CASE Write
  <2>1. PICK n \in 1 .. pending :
          flight + n <= Window /\ flight' = flight + n /\ pending' = pending - n
    BY <1>4 DEF Write
  <2>2. flight' \in 0 .. Window /\ pending' \in Nat
    BY <1>1, <2>1
  <2>3. pushed' \in 0 .. MaxParts
    BY <1>0, <1>1, <1>4 DEF Write, PendingIs
  <2>4. server' \in {"head", "source", "part", "left", "failed"}
    BY <1>4 DEF Write
  <2>5. QED
    BY <1>0, <1>4, <2>2, <2>3, <2>4 DEF Write, clientVars, TypeOK
<1>5. CASE Cut \/ Reset
  <2>1. cuts' \in 0 .. MaxCuts /\ 0 \in 0 .. Window
    BY <1>1, <1>5 DEF Cut, Reset
  <2>2. CASE Cut
    BY <1>0, <2>1, <2>2 DEF Cut, serverVars, clientVars, TypeOK
  <2>3. CASE Reset
    BY <1>0, <2>1, <2>3 DEF Reset, serverVars, TypeOK
  <2>4. QED
    BY <1>5, <2>2, <2>3
<1>6. CASE Read
  <2>1. PICK n \in 1 .. flight : ReadsBytes(n)
    BY <1>6, ReadIs
  <2>2. flight' = flight - n /\ (len' = len \/ (len' = len + n /\ Fits(n)))
        /\ client' \in {"parsing", "too small"}
    BY <2>1 DEF ReadsBytes
  <2>3. flight' \in 0 .. Window /\ len' \in 0 .. BufSize
    <3>1. n \in Nat /\ n <= flight
      BY <1>1
    <3>2. len' = len \/ (len' = len + n /\ len + n <= BufSize)
      BY <2>2 DEF Fits
    <3>3. flight' \in 0 .. Window
      <4>1. flight' = flight - n
        BY <2>2
      <4>2. flight - n \in Nat /\ flight - n <= flight /\ flight <= Window
        BY <1>1, <3>1
      <4>3. QED
        BY <1>1, <4>1, <4>2
    <3>4. len' \in 0 .. BufSize
      BY <1>1, <3>1, <3>2
    <3>5. QED
      BY <3>3, <3>4
  <2>4. QED
    BY <1>0, <1>6, <2>2, <2>3 DEF Read, serverVars, TypeOK
<1>7. CASE ReadEnd \/ ReadTimesOut
  BY <1>0, <1>7 DEF ReadEnd, ReadTimesOut, serverVars, TypeOK
<1>8. CASE ParseHead
  <2>1. len' \in 0 .. BufSize
    BY <1>1, <1>8 DEF ParseHead
  <2>2. /\ state' \in {"Start", "Head", "Parts"}
        /\ client' \in {"reading", "parsing"}
    BY <1>8 DEF ParseHead
  <2>3. QED
    BY <1>0, <1>8, <2>1, <2>2 DEF ParseHead, serverVars, TypeOK
<1>9. CASE ParseNone
  <2>1. client' \in {"reading", "too small"}
    BY <1>9 DEF ParseNone
  <2>2. QED
    BY <1>0, <1>9, <2>1 DEF ParseNone, serverVars, TypeOK
<1>10. CASE ParsePart
  <2>1. frames < pushed
    BY <1>10, OnlyPushed
  <2>2. PartLen(frames + 1) \in Nat
    <3>1. frames + 1 \in Parts
      BY <1>1, <2>1 DEF Parts
    <3>2. QED
      BY <1>0, <3>1, PartLenType
  <2>3. /\ frames' \in 0 .. MaxParts /\ len' \in 0 .. BufSize
        /\ client' \in {"parsing", "done", "failed"}
    BY <1>1, <1>10, <2>1, <2>2 DEF ParsePart, Released, AfterPart
  <2>4. QED
    BY <1>0, <1>10, <2>3 DEF ParsePart, serverVars, TypeOK
<1>11. CASE UNCHANGED vars
  BY <1>0, <1>11 DEF vars, serverVars, clientVars, TypeOK
<1>12. QED
  BY <1>2, <1>3, <1>4, <1>5, <1>6, <1>7, <1>8, <1>9, <1>10, <1>11 DEF Next

------------------------------------------------------------------------------
(* The books.                                                               *)

(* A step that writes no last byte of a part keeps the marks.               *)
LEMMA SameMarks ==
  ASSUME UNCHANGED <<body, pushed>>, NEW mark \in [0 .. pushed -> Nat], Marks(mark)
  PROVE  mark \in [0 .. pushed' -> Nat] /\ Marks(mark)'
<1>1. body' = body /\ pushed' = pushed
  OBVIOUS
<1>2. QED
  BY <1>1 DEF Marks, PartLen

LEMMA DeviceBooks ==
  ASSUME Inv, NextPacket \/ SourceFails \/ WriteFails
  PROVE  Books'
<1>1. PICK mark \in [0 .. pushed -> Nat] : Marks(mark) /\ (~ Gone => Conserved(mark))
  BY DEF Inv, Books
<1>2. UNCHANGED <<body, pushed, flight, client, state, len, frames>>
  BY DEF NextPacket, SourceFails, WriteFails, clientVars
<1>3. mark \in [0 .. pushed' -> Nat] /\ Marks(mark)'
  BY <1>1, <1>2, SameMarks
<1>4. /\ Carried(mark)' = Carried(mark) /\ Gone' = Gone
      /\ PartLen(pushed + 1)' = PartLen(pushed + 1)
  BY <1>2 DEF Carried, Gone, PartLen
<1>5. /\ frames \in Nat /\ pushed \in Nat /\ frames <= pushed
      /\ len \in Nat /\ flight \in Nat /\ Head \in Nat \ {0} /\ pushed <= MaxParts
      /\ MaxParts \in Nat /\ pending \in Nat
  BY Numbers DEF Inv
<1>6. /\ mark[frames] \in Nat /\ mark[pushed] \in Nat /\ Carried(mark) \in Nat
  BY <1>5 DEF Carried
<1>7. pushed < MaxParts => PartLen(pushed + 1) \in Nat
  <2>1. pushed < MaxParts => pushed + 1 \in Parts
    BY <1>5 DEF Parts
  <2>2. QED
    BY <2>1, PartLenType DEF Inv
<1>8. ASSUME ~ Gone' PROVE Conserved(mark)'
  <2>1. Conserved(mark)
    BY <1>1, <1>4, <1>8
  <2>2. CASE NextPacket
    <3>1. Carried(mark) = Head + mark[pushed]
      BY <2>1, <2>2 DEF NextPacket, Conserved
    <3>2. server' = "part" /\ pending' = PartLen(pushed + 1) /\ pushed < MaxParts
      BY <2>2 DEF NextPacket
    <3>3. QED
      BY <1>2, <1>4, <3>1, <3>2 DEF Conserved
  <2>3. CASE SourceFails
    BY <1>2, <1>4, <2>1, <2>3 DEF SourceFails, Conserved
  <2>4. CASE WriteFails
    <3>1. server' = "left" /\ server \in {"head", "part"}
      BY <2>4 DEF WriteFails
    <3>2. CASE server = "head"
      <4>1. pushed = 0 /\ Carried(mark) + pending = Head /\ pending > 0
        BY <1>5, <2>1, <3>2 DEF Conserved, Inv, PendingIs
      <4>2. InHead(Carried(mark))
        BY <1>5, <1>6, <4>1 DEF InHead
      <4>3. InHead(Carried(mark))'
        BY <1>2, <1>4, <4>2 DEF InHead
      <4>4. QED
        BY <3>1, <4>3 DEF Conserved
    <3>3. CASE server = "part"
      <4>1. /\ Carried(mark) + pending = Head + mark[pushed] + PartLen(pushed + 1)
            /\ pushed < MaxParts /\ pending \in 1 .. PartLen(pushed + 1)
        BY <2>1, <3>3 DEF Conserved, Inv, PendingIs
      <4>2. InPart(Carried(mark), mark)
        BY <1>5, <1>6, <1>7, <4>1 DEF InPart
      <4>3. InPart(Carried(mark), mark)'
        BY <1>2, <1>4, <4>2 DEF InPart
      <4>4. QED
        BY <3>1, <4>3 DEF Conserved
    <3>4. QED
      BY <3>1, <3>2, <3>3
  <2>5. QED
    BY <2>2, <2>3, <2>4
<1>9. QED
  BY <1>3, <1>8 DEF Books

(* The last byte of a part is written: it ends there.                       *)
LEMMA WriteBooks ==
  ASSUME Inv, Write
  PROVE  Books'
<1>1. PICK mark \in [0 .. pushed -> Nat] : Marks(mark) /\ (~ Gone => Conserved(mark))
  BY DEF Inv, Books
<1>2. PICK n \in 1 .. pending : flight' = flight + n /\ pending' = pending - n
  BY DEF Write
<1>3. /\ UNCHANGED <<body, client, state, len, frames>>
      /\ server \in {"head", "part"}
      /\ server' = IF pending' = 0 THEN "source" ELSE server
      /\ pushed' = pushed + (IF server = "part" /\ pending' = 0 THEN 1 ELSE 0)
  BY DEF Write, clientVars
<1>4. /\ frames \in Nat /\ pushed \in Nat /\ frames <= pushed
      /\ len \in Nat /\ flight \in Nat /\ Head \in Nat \ {0} /\ pushed <= MaxParts
      /\ MaxParts \in Nat /\ pending \in Nat /\ n \in Nat
  BY <1>2, Numbers DEF Inv
<1>5. Gone' = Gone
  BY <1>3 DEF Gone
<1>6. mark[frames] \in Nat /\ mark[pushed] \in Nat /\ Carried(mark) \in Nat
  BY <1>4 DEF Carried
<1>7. Carried(mark)' = Carried(mark) + n
  BY <1>2, <1>3, <1>4, <1>6 DEF Carried
<1>8. CASE server = "head"
  <2>1. pushed' = pushed /\ pushed = 0
    BY <1>3, <1>4, <1>8 DEF Inv, PendingIs
  <2>2. mark \in [0 .. pushed' -> Nat] /\ Marks(mark)'
    BY <1>1, <1>3, <2>1, SameMarks
  <2>3. ASSUME ~ Gone' PROVE Conserved(mark)'
    <3>1. Carried(mark) + pending = Head
      BY <1>1, <1>5, <1>8, <2>3 DEF Conserved
    <3>2. Carried(mark)' + pending' = Head
      BY <1>2, <1>4, <1>6, <1>7, <3>1
    <3>3. mark[0] = 0
      BY <1>1 DEF Marks
    <3>4. CASE pending' = 0
      BY <1>3, <1>4, <1>6, <1>7, <2>1, <3>2, <3>3, <3>4 DEF Conserved
    <3>5. CASE pending' # 0
      BY <1>3, <1>8, <2>1, <3>2, <3>5 DEF Conserved
    <3>6. QED
      BY <3>4, <3>5
  <2>4. QED
    BY <2>2, <2>3 DEF Books
<1>9. CASE server = "part"
  <2>1. pushed < MaxParts /\ pending <= PartLen(pushed + 1) /\ pushed + 1 \in Parts
    BY <1>4, <1>9 DEF Inv, PendingIs, Parts
  <2>2. PartLen(pushed + 1) \in Nat
    BY <2>1, PartLenType DEF Inv
  <2>3. ASSUME ~ Gone
        PROVE  Carried(mark)' + pending' = Head + mark[pushed] + PartLen(pushed + 1)
    <3>1. Carried(mark) + pending = Head + mark[pushed] + PartLen(pushed + 1)
      BY <1>1, <1>9, <2>3 DEF Conserved
    <3>2. QED
      BY <1>2, <1>4, <1>6, <1>7, <2>2, <3>1
  <2>4. CASE pending' # 0
    <3>1. pushed' = pushed /\ server' = "part"
      BY <1>3, <1>4, <1>9, <2>4
    <3>2. mark \in [0 .. pushed' -> Nat] /\ Marks(mark)'
      BY <1>1, <1>3, <3>1, SameMarks
    <3>3. PartLen(pushed + 1)' = PartLen(pushed + 1)
      BY <1>3, <3>1 DEF PartLen
    <3>4. ASSUME ~ Gone' PROVE Conserved(mark)'
      BY <1>5, <2>1, <2>3, <3>1, <3>3, <3>4 DEF Conserved
    <3>5. QED
      BY <3>2, <3>4 DEF Books
  <2>5. CASE pending' = 0
    <3>1. pushed' = pushed + 1 /\ server' = "source"
      BY <1>3, <1>9, <2>5
    <3> DEFINE end == mark[pushed] + PartLen(pushed + 1)
               longer == [k \in 0 .. pushed + 1 |-> IF k = pushed + 1 THEN end ELSE mark[k]]
    <3>2. end \in Nat
      BY <1>6, <2>2
    <3> HIDE DEF end
    <3>3. PICK new : new = longer
      OBVIOUS
    <3>4. /\ new \in [0 .. pushed + 1 -> Nat] /\ new[pushed + 1] = end
          /\ \A k \in 0 .. pushed : new[k] = mark[k]
      <4>1. \A k \in 0 .. pushed + 1 : (IF k = pushed + 1 THEN end ELSE mark[k]) \in Nat
        BY <1>4, <3>2
      <4>2. \A k \in 0 .. pushed : k \in 0 .. pushed + 1 /\ k # pushed + 1
        BY <1>4
      <4>3. QED
        BY <1>4, <3>3, <4>1, <4>2
    <3>5. \A k \in 1 .. pushed' : PartLen(k)' = PartLen(k)
      BY <1>3 DEF PartLen
    <3>6. Marks(new)'
      <4>1. new[0] = 0
        BY <1>1, <1>4, <3>4 DEF Marks
      <4>2. ASSUME NEW k \in 1 .. pushed'
            PROVE  new[k] = new[k - 1] + PartLen(k)'
        <5>1. CASE k = pushed + 1
          <6>1. new[k - 1] = mark[pushed]
            BY <1>4, <3>4, <5>1
          <6>2. QED
            BY <3>4, <3>5, <4>2, <5>1, <6>1 DEF end
        <5>2. CASE k # pushed + 1
          <6>1. k \in 1 .. pushed /\ k \in 0 .. pushed /\ k - 1 \in 0 .. pushed
            BY <1>4, <3>1, <4>2, <5>2
          <6>2. QED
            BY <1>1, <3>4, <3>5, <4>2, <6>1 DEF Marks
        <5>3. QED
          BY <5>1, <5>2
      <4>3. ASSUME NEW i \in 0 .. pushed', NEW j \in 0 .. pushed', i < j
            PROVE  new[i + 1] <= new[j]
        <5>1. i \in 0 .. pushed /\ i + 1 \in 0 .. pushed + 1
          BY <1>4, <3>1, <4>3
        <5>2. CASE j = pushed + 1
          <6>1. CASE i = pushed
            BY <3>2, <3>4, <5>2, <6>1
          <6>2. CASE i # pushed
            <7>1. i + 1 \in 0 .. pushed /\ pushed \in 0 .. pushed /\ i < pushed
              BY <1>4, <5>1, <6>2
            <7>2. mark[i + 1] <= mark[pushed] /\ mark[i + 1] \in Nat
              BY <1>1, <5>1, <7>1 DEF Marks
            <7>3. QED
              BY <1>6, <2>2, <3>4, <5>2, <7>1, <7>2 DEF end
          <6>3. QED
            BY <6>1, <6>2
        <5>3. CASE j # pushed + 1
          <6>1. j \in 0 .. pushed /\ i + 1 \in 0 .. pushed
            BY <1>4, <3>1, <4>3, <5>1, <5>3
          <6>2. QED
            BY <1>1, <3>4, <4>3, <5>1, <6>1 DEF Marks
        <5>4. QED
          BY <5>2, <5>3
      <4>4. QED
        BY <4>1, <4>2, <4>3 DEF Marks
    <3>7. ASSUME ~ Gone' PROVE Conserved(new)'
      <4>1. Carried(new)' = Carried(mark)'
        <5>1. frames' = frames /\ frames \in 0 .. pushed
          BY <1>3, <1>4
        <5>2. new[frames'] = mark[frames']
          BY <3>4, <5>1
        <5>3. QED
          BY <5>2 DEF Carried
      <4>2. Carried(new)' = Head + end
        BY <1>4, <1>5, <1>6, <1>7, <2>2, <2>3, <2>5, <3>7, <4>1 DEF end
      <4>3. QED
        BY <3>1, <3>4, <4>2 DEF Conserved
    <3>8. new \in [0 .. pushed' -> Nat]
      BY <3>1, <3>4
    <3>9. QED
      BY <3>6, <3>7, <3>8 DEF Books
  <2>6. QED
    BY <2>4, <2>5
<1>10. QED
  BY <1>3, <1>8, <1>9

LEMMA HubBooks ==
  ASSUME Inv, TypeOK', Cut \/ Reset \/ Read \/ ReadEnd \/ ReadTimesOut
                         \/ ParseHead \/ ParseNone \/ ParsePart
  PROVE  Books'
<1>1. PICK mark \in [0 .. pushed -> Nat] : Marks(mark) /\ (~ Gone => Conserved(mark))
  BY DEF Inv, Books
<1>2. UNCHANGED <<body, server, pending, pushed>>
  BY DEF Cut, Reset, Read, ReadEnd, ReadTimesOut, ParseHead, ParseNone, ParsePart,
         serverVars
<1>3. mark \in [0 .. pushed' -> Nat] /\ Marks(mark)'
  BY <1>1, <1>2, SameMarks
<1>4. /\ frames \in Nat /\ pushed \in Nat /\ frames <= pushed
      /\ len \in Nat /\ flight \in Nat /\ Head \in Nat \ {0} /\ pushed <= MaxParts
      /\ MaxParts \in Nat
  BY Numbers DEF Inv
<1>5. mark[frames] \in Nat /\ mark[0] = 0 /\ (frames < pushed => mark[frames + 1] \in Nat)
  <2>1. frames < pushed => frames + 1 \in 0 .. pushed
    BY <1>4
  <2>2. frames \in 0 .. pushed
    BY <1>4
  <2>3. QED
    BY <1>1, <2>1, <2>2 DEF Marks
<1>6. ASSUME ~ Gone' PROVE ~ Gone /\ Carried(mark)' = Carried(mark)
  <2>1. CASE Cut
    BY <2>1, <1>6 DEF Cut, clientVars, Gone, Carried
  <2>2. CASE Reset \/ ReadEnd \/ ReadTimesOut
    BY <2>2, <1>6 DEF Reset, ReadEnd, ReadTimesOut, Gone
  <2>3. CASE Read
    <3>1. PICK n \in 1 .. flight : ReadsBytes(n)
      BY <2>3, ReadIs
    <3>2. flight' = flight - n /\ len' = len + n
      BY <1>6, <3>1 DEF ReadsBytes, Gone
    <3> n \in Nat
      BY <1>4
    <3>3. state' = state /\ frames' = frames /\ ~ Gone
      BY <2>3 DEF Read, Gone
    <3>4. QED
      BY <1>4, <1>5, <3>2, <3>3 DEF Carried
  <2>4. CASE ParseHead
    <3>1. flight' = flight /\ frames' = frames /\ ~ Gone /\ state # "Parts"
      BY <2>4 DEF ParseHead, Gone
    <3>2. CASE len < Head
      BY <2>4, <3>1, <3>2 DEF ParseHead, Carried
    <3>3. CASE ~ len < Head
      <4>1. state' = "Parts" /\ len' = len - Head
        BY <2>4, <3>3 DEF ParseHead
      <4>2. frames = 0
        BY <3>1 DEF Inv, Hungry
      <4>3. QED
        BY <1>4, <1>5, <3>1, <4>1, <4>2 DEF Carried
    <3>4. QED
      BY <3>2, <3>3
  <2>5. CASE ParseNone
    BY <2>5 DEF ParseNone, Gone, Carried
  <2>6. CASE ParsePart
    <3>1. frames < pushed
      BY <2>6, OnlyPushed
    <3>2. /\ frames' = frames + 1 /\ len' = len - PartLen(frames + 1)
          /\ flight' = flight /\ state = "Parts" /\ state' = "Parts" /\ ~ Gone
      BY <1>6, <2>6 DEF ParsePart, Released, Gone
    <3>3. mark[frames + 1] = mark[frames] + PartLen(frames + 1)
      <4>1. frames + 1 \in 1 .. pushed /\ (frames + 1) - 1 = frames
        BY <1>4, <3>1
      <4>2. QED
        BY <1>1, <4>1 DEF Marks
    <3>4. PartLen(frames + 1) \in Nat
      <4>1. frames + 1 \in Parts
        BY <1>4, <3>1 DEF Parts
      <4>2. QED
        BY <4>1, PartLenType DEF Inv
    <3>5. QED
      BY <1>4, <1>5, <3>1, <3>2, <3>3, <3>4 DEF Carried
  <2>7. QED
    BY <2>1, <2>2, <2>3, <2>4, <2>5, <2>6
<1>7. PartLen(pushed + 1)' = PartLen(pushed + 1)
  BY <1>2 DEF PartLen
<1>8. ASSUME ~ Gone' PROVE Conserved(mark)'
  <2>1. Conserved(mark)
    BY <1>1, <1>6, <1>8
  <2>2. Carried(mark)' = Carried(mark)
    BY <1>6, <1>8
  <2>3. /\ InHead(Carried(mark))' <=> InHead(Carried(mark))
        /\ InPart(Carried(mark), mark)' <=> InPart(Carried(mark), mark)
    BY <1>2, <1>7, <2>2 DEF InHead, InPart
  <2>4. QED
    BY <1>2, <1>7, <2>1, <2>2, <2>3 DEF Conserved
<1>9. QED
  BY <1>3, <1>8 DEF Books

------------------------------------------------------------------------------
(* What the device has to write, what the hub waits for, and the counts.    *)

LEMMA NextPending ==
  ASSUME Inv, TypeOK', [Next]_vars
  PROVE  PendingIs'
<1>1. /\ pushed \in Nat /\ pushed <= MaxParts /\ MaxParts \in Nat /\ pending \in Nat
      /\ Head \in Nat \ {0}
  BY Numbers DEF Inv
<1>2. PendingIs
  BY DEF Inv
<1>3. CASE NextPacket
  <2>1. pushed + 1 \in Parts /\ server' = "part" /\ pushed' = pushed /\ body' = body
        /\ pending' = PartLen(pushed + 1) /\ pushed < MaxParts
    BY <1>1, <1>3 DEF NextPacket, Parts
  <2>2. PartLen(pushed + 1) \in Nat /\ PartLen(pushed + 1) > 0
    BY <2>1, PartLenType, Numbers DEF Inv
  <2>3. PartLen(pushed + 1)' = PartLen(pushed + 1)
    BY <2>1 DEF PartLen
  <2>4. QED
    BY <2>1, <2>2, <2>3 DEF PendingIs
<1>4. CASE SourceFails \/ WriteFails
  BY <1>4 DEF SourceFails, WriteFails, PendingIs
<1>5. CASE Write
  <2>1. PICK n \in 1 .. pending : pending' = pending - n
    BY <1>5 DEF Write
  <2>2. /\ server' = (IF pending' = 0 THEN "source" ELSE server) /\ body' = body
        /\ pushed' = pushed + (IF server = "part" /\ pending' = 0 THEN 1 ELSE 0)
    BY <1>5 DEF Write
  <2>3. CASE pending' = 0
    BY <2>2, <2>3 DEF PendingIs
  <2>4. CASE pending' # 0
    <3>1. server' = server /\ pushed' = pushed
      BY <1>1, <2>2, <2>4
    <3>2. pending' \in Nat /\ pending' > 0 /\ pending' < pending
      BY <1>1, <2>1, <2>4
    <3>3. PartLen(pushed + 1)' = PartLen(pushed + 1)
      BY <2>2, <3>1 DEF PartLen
    <3>4. server = "part" => PartLen(pushed + 1) \in Nat
      <4>1. server = "part" => pushed + 1 \in Parts
        BY <1>1, <1>2 DEF PendingIs, Parts
      <4>2. QED
        BY <4>1, PartLenType DEF Inv
    <3>5. server = "part" => pending' \in 1 .. PartLen(pushed + 1)
      BY <1>2, <3>2, <3>4 DEF PendingIs
    <3>6. server = "head" => pending' \in 1 .. Head
      BY <1>1, <1>2, <3>2 DEF PendingIs
    <3>7. QED
      BY <1>2, <3>1, <3>3, <3>5, <3>6 DEF PendingIs
  <2>5. QED
    BY <2>3, <2>4
<1>6. CASE UNCHANGED serverVars /\ UNCHANGED body
  BY <1>2, <1>6 DEF serverVars, PendingIs, PartLen
<1>7. QED
  BY <1>3, <1>4, <1>5, <1>6 DEF Next, Cut, Reset, Read, ReadEnd, ReadTimesOut,
     ParseHead, ParseNone, ParsePart, vars

LEMMA NextHungry ==
  ASSUME Inv, TypeOK', [Next]_vars
  PROVE  Hungry'
<1>1. Hungry
  BY DEF Inv
<1>2. /\ len \in Nat /\ Headers \in Nat \ {0} /\ Head \in Nat
  BY Numbers DEF Inv
<1>3. CASE NextPacket \/ SourceFails \/ Write \/ WriteFails \/ Cut \/ UNCHANGED vars
  <2>1. UNCHANGED <<body, client, state, len, frames>>
    BY <1>3 DEF NextPacket, SourceFails, Write, WriteFails, Cut, vars, clientVars
  <2>2. QED
    BY <1>1, <2>1 DEF Hungry, PartLen
<1>4. CASE Reset \/ Read \/ ReadEnd \/ ReadTimesOut
  <2>1. client' # "reading" /\ UNCHANGED <<state, frames>>
    BY <1>4 DEF Reset, Read, ReadEnd, ReadTimesOut
  <2>2. QED
    BY <1>1, <2>1 DEF Hungry
<1>5. CASE ParseHead
  <2>1. CASE len < Head
    <3>1. len' = len /\ frames' = frames /\ state' # "Parts" /\ state # "Parts"
      BY <1>5, <2>1 DEF ParseHead
    <3>2. QED
      BY <1>1, <2>1, <3>1 DEF Hungry
  <2>2. CASE ~ len < Head
    BY <1>5, <2>2 DEF ParseHead, Hungry
  <2>3. QED
    BY <2>1, <2>2
<1>6. CASE ParseNone
  <2>1. /\ UNCHANGED <<body, state, len, frames>> /\ state = "Parts"
        /\ len < Headers \/ len < PartLen(frames + 1)
    BY <1>6 DEF ParseNone
  <2>2. QED
    BY <1>1, <2>1 DEF Hungry, PartLen
<1>7. CASE ParsePart
  <2>1. client' # "reading" /\ state' = "Parts"
    BY <1>7 DEF ParsePart, AfterPart
  <2>2. QED
    BY <2>1 DEF Hungry
<1>8. QED
  BY <1>3, <1>4, <1>5, <1>6, <1>7 DEF Next

(* When the stream has come to its end nothing is left in the socket, and   *)
(* the hub held no whole part when it went to read: there is none.          *)
LEMMA NextCounts ==
  ASSUME Inv, TypeOK', [Next]_vars
  PROVE  EndIsEnd' /\ (frames <= pushed)'
<1>1. /\ frames \in Nat /\ pushed \in Nat /\ len \in Nat /\ flight \in Nat
      /\ frames <= pushed /\ EndIsEnd /\ MaxParts \in Nat /\ pushed <= MaxParts
      /\ Head \in Nat \ {0} /\ Headers \in Nat
  BY Numbers DEF Inv
<1>2. CASE NextPacket \/ SourceFails \/ WriteFails \/ Cut \/ UNCHANGED vars
  <2>1. /\ UNCHANGED <<client, frames, pushed>>
        /\ eof' = eof \/ eof' = TRUE
    BY <1>2 DEF NextPacket, SourceFails, WriteFails, Cut, vars, clientVars, serverVars
  <2>2. QED
    BY <1>1, <2>1 DEF EndIsEnd
<1>3. CASE Write
  <2>1. /\ UNCHANGED <<client, frames>> /\ ~ eof
        /\ pushed' = pushed + (IF server = "part" /\ pending' = 0 THEN 1 ELSE 0)
    BY <1>3 DEF Write, clientVars
  <2>2. pushed' >= pushed
    BY <1>1, <2>1
  <2>3. (frames <= pushed)'
    BY <1>1, <2>1, <2>2
  <2>4. QED
    BY <1>1, <2>1, <2>3 DEF EndIsEnd
<1>4. CASE Reset \/ Read \/ ReadTimesOut \/ ParseHead \/ ParseNone
  <2>1. UNCHANGED <<frames, pushed>> /\ client' # "ended"
    BY <1>4 DEF Reset, Read, ReadTimesOut, ParseHead, ParseNone, serverVars
  <2>2. QED
    BY <1>1, <2>1 DEF EndIsEnd
<1>5. CASE ReadEnd
  <2>1. /\ UNCHANGED <<frames, pushed, eof>> /\ eof /\ flight = 0
        /\ client = "reading"
    BY <1>5 DEF ReadEnd, serverVars
  <2>2. /\ state # "Parts" => frames = 0 /\ len < Head
        /\ state = "Parts" => len < Headers \/ len < PartLen(frames + 1)
    BY <2>1 DEF Inv, Hungry
  <2>3. ~ Gone
    BY <2>1 DEF Gone
  <2>4. CASE state # "Parts"
    <3>1. ~ pushed > 0
      BY <1>1, <2>1, <2>2, <2>3, <2>4, Rest
    <3>2. QED
      BY <1>1, <2>1, <2>2, <2>4, <3>1 DEF EndIsEnd
  <2>5. CASE state = "Parts"
    <3>1. frames < pushed => PartLen(frames + 1) \in Nat /\ PartLen(frames + 1) > Headers
      <4>1. frames < pushed => frames + 1 \in Parts
        BY <1>1 DEF Parts
      <4>2. QED
        BY <4>1, PartLenType DEF Inv
    <3>2. frames < pushed => len + flight >= PartLen(frames + 1)
      BY <2>3, <2>5, Rest
    <3>3. frames = pushed
      BY <1>1, <2>1, <2>2, <2>5, <3>1, <3>2
    <3>4. QED
      BY <1>1, <2>1, <3>3 DEF EndIsEnd
  <2>6. QED
    BY <2>4, <2>5
<1>6. CASE ParsePart
  <2>1. frames < pushed
    BY <1>6, OnlyPushed
  <2>2. /\ pushed' = pushed /\ client' # "ended"
        /\ frames' = frames \/ frames' = frames + 1
    BY <1>6 DEF ParsePart, AfterPart, serverVars
  <2>3. QED
    BY <1>1, <2>1, <2>2 DEF EndIsEnd
<1>7. QED
  BY <1>2, <1>3, <1>4, <1>5, <1>6 DEF Next

LEMMA NextRoom ==
  ASSUME Inv, [Next]_vars
  PROVE  RoomyNeverTooSmall'
<1>1. body' = body
  BY DEF Next, vars, NextPacket, SourceFails, Write, WriteFails, Cut, Reset, Read,
         ReadEnd, ReadTimesOut, ParseHead, ParseNone, ParsePart
<1>2. Roomy' => Roomy
  BY <1>1 DEF Roomy, PartLen
<1>3. SUFFICES ASSUME Roomy PROVE client' # "too small"
  BY <1>2 DEF RoomyNeverTooSmall
<1>4. client # "too small"
  BY <1>3 DEF Inv, RoomyNeverTooSmall
<1>5. CASE Read
  <2>1. PICK n \in 1 .. flight : n <= Chunk /\ ReadsBytes(n)
    BY <1>5, ReadIs
  <2>2. Fits(n)
    BY <1>3, <1>5, <2>1, RoomEnough DEF Read
  <2>3. QED
    BY <2>1, <2>2 DEF ReadsBytes
<1>6. CASE ParseNone
  <2>1. CASE len >= Headers /\ len < PartLen(frames + 1)
    <3>1. ~ NoRoom(frames + 1)
      BY <1>3, <1>6, <2>1, RoomEnough DEF ParseNone
    <3>2. QED
      BY <1>6, <3>1 DEF ParseNone
  <2>2. CASE ~ (len >= Headers /\ len < PartLen(frames + 1))
    BY <1>6, <2>2 DEF ParseNone
  <2>3. QED
    BY <2>1, <2>2
<1>7. CASE ~ Read /\ ~ ParseNone
  BY <1>4, <1>7 DEF Next, vars, clientVars, NextPacket, SourceFails, Write, WriteFails,
     Cut, Reset, ReadEnd, ReadTimesOut, ParseHead, ParsePart, AfterPart
<1>8. QED
  BY <1>5, <1>6, <1>7

------------------------------------------------------------------------------
LEMMA NextInv == Inv /\ [Next]_vars => Inv'
<1> SUFFICES ASSUME Inv, [Next]_vars PROVE Inv'
  OBVIOUS
<1>1. TypeOK'
  BY NextType
<1>2. Books'
  <2>1. CASE UNCHANGED vars
    BY <2>1 DEF Inv, vars, serverVars, clientVars, Books, Marks, PartLen, Gone,
       Conserved, Carried, InHead, InPart
  <2>2. QED
    BY <1>1, <2>1, DeviceBooks, WriteBooks, HubBooks DEF Next
<1>3. PendingIs' /\ Hungry' /\ EndIsEnd' /\ (frames <= pushed)' /\ RoomyNeverTooSmall'
  BY <1>1, NextPending, NextHungry, NextCounts, NextRoom
<1>4. QED
  BY <1>1, <1>2, <1>3 DEF Inv

(* The inductive invariant of the two ends of a stream.                     *)
THEOREM MjpegStreamInvariant == Spec => []Inv
<1>1. Init => Inv
  BY InitInv
<1>2. QED
  BY <1>1, NextInv, PTL DEF Spec

(* A frame the hub hands over was pushed to its last byte, and a stream     *)
(* that closes in order has brought every one, wherever the device stopped, *)
(* the connection broke or TCP cut the reads (net.rs, mjpeg_reader.rs:88).  *)
THEOREM MjpegStreamCounts == Spec => []StreamInv
<1>1. Inv => StreamInv
  BY DEF Inv, StreamInv, CountsAgree, EndIsEnd
<1>2. QED
  BY <1>1, MjpegStreamInvariant, PTL

(* A buffer of a part and a chunk less a byte never proves too small        *)
(* (client.rs:28-29, mjpeg_reader.rs:72-73).                                *)
THEOREM MjpegStreamRoom == Spec => []RoomyNeverTooSmall
<1>1. Inv => RoomyNeverTooSmall
  BY DEF Inv
<1>2. QED
  BY <1>1, MjpegStreamInvariant, PTL

==============================================================================
