---------------------------- MODULE UartRxProofs ----------------------------
(***************************************************************************)
(* Proofs about the receive path, for every size of the ring and of the    *)
(* two buffers, and for every number of bytes.  The argument: the ring     *)
(* holds the bytes that follow the ones the parse thread took (RingInv);   *)
(* the room the receive thread found only grows and the bytes the parse    *)
(* thread found only become more (SpaceInv), so the cells one thread       *)
(* writes are never among those the other reads.                           *)
(***************************************************************************)
EXTENDS UartRx, TLAPS

-----------------------------------------------------------------------------
(* Indices of the ring. *)

Cell == 0 .. Size - 1

LEMMA SizeType == Size \in Nat /\ Size > 1
  BY SizeAssumption DEF Size

\* The cell k cells after a.
At(a, k) == (a + k) % Size

\* The number of bytes from index t on to index h.
Gap(h, t) == (h + Size - t) % Size

\* % on the indices the code forms: at most one turn around the ring.
LEMMA NoTurn == ASSUME NEW a \in Int, 0 <= a, a < Size  PROVE a % Size = a
  BY SizeType, SMT

LEMMA OneTurn == ASSUME NEW a \in Int, Size <= a, a - Size < Size  PROVE a % Size = a - Size
  BY SizeType, SMT

LEMMA AtValue ==
  \A a, k \in Cell : At(a, k) = IF a + k < Size THEN a + k ELSE a + k - Size
<1> SUFFICES ASSUME NEW a \in Cell, NEW k \in Cell
             PROVE  At(a, k) = IF a + k < Size THEN a + k ELSE a + k - Size
  OBVIOUS
<1>1. PICK s \in Int : s = a + k
  BY SizeType DEF Cell
<1>2. 0 <= s /\ s - Size < Size
  BY <1>1, SizeType DEF Cell
<1>3. s % Size = IF s < Size THEN s ELSE s - Size
  BY <1>2, NoTurn, OneTurn, SizeType
<1>4. At(a, k) = s % Size
  BY <1>1, Zenon DEF At
<1> QED
  BY <1>1, <1>3, <1>4, SizeType DEF Cell

LEMMA GapValue ==
  \A h, t \in Cell : Gap(h, t) = IF t <= h THEN h - t ELSE h + Size - t
<1> SUFFICES ASSUME NEW h \in Cell, NEW t \in Cell
             PROVE  Gap(h, t) = IF t <= h THEN h - t ELSE h + Size - t
  OBVIOUS
<1>1. PICK s \in Int : s = h + Size - t
  BY SizeType DEF Cell
<1>2. 0 <= s /\ s - Size < Size /\ (t <= h <=> Size <= s) /\ h - t = s - Size
  BY <1>1, SizeType DEF Cell
<1>3. s % Size = IF s < Size THEN s ELSE s - Size
  BY <1>2, NoTurn, OneTurn, SizeType
<1>4. Gap(h, t) = s % Size
  BY <1>1, Zenon DEF Gap
<1>5. s % Size = IF t <= h THEN h - t ELSE s
  BY <1>2, <1>3, SizeType
<1> QED
  BY <1>1, <1>4, <1>5, SizeType DEF Cell

LEMMA AtType == \A a, k \in Cell : At(a, k) \in Cell
  BY AtValue, SizeType DEF Cell

LEMMA GapType == \A h, t \in Cell : Gap(h, t) \in Cell
<1> SUFFICES ASSUME NEW h \in Cell, NEW t \in Cell
             PROVE  Gap(h, t) \in Cell
  OBVIOUS
<1> DEFINE g == Gap(h, t)
<1>1. g = IF t <= h THEN h - t ELSE h + Size - t
  BY GapValue
<1> HIDE DEF g
<1>2. g \in Cell
  BY <1>1, SizeType DEF Cell
<1> QED
  BY <1>2 DEF g

\* head moves on by k bytes that were free.
LEMMA GapGrows ==
  ASSUME NEW h \in Cell, NEW t \in Cell, NEW k \in Cell, Gap(h, t) + k < Size
  PROVE  Gap(At(h, k), t) = Gap(h, t) + k
<1> DEFINE a == At(h, k)  g == Gap(h, t)  n == Gap(a, t)
<1>1. a \in Cell /\ g \in Cell /\ g + k < Size
  BY AtType, GapType
<1>2. n \in Cell
  BY <1>1, GapType
<1>3. g = IF t <= h THEN h - t ELSE h + Size - t
  BY GapValue
<1>4. a = IF h + k < Size THEN h + k ELSE h + k - Size
  BY AtValue
<1>5. n = IF t <= a THEN a - t ELSE a + Size - t
  BY <1>1, GapValue
<1> HIDE DEF a, g, n
<1>6. n = g + k
  BY <1>1, <1>2, <1>3, <1>4, <1>5, SizeType DEF Cell
<1> QED
  BY <1>6 DEF a, g, n

\* tail moves on by k bytes that were there.
LEMMA GapShrinks ==
  ASSUME NEW h \in Cell, NEW t \in Cell, NEW k \in Cell, k <= Gap(h, t)
  PROVE  Gap(h, At(t, k)) = Gap(h, t) - k
<1> DEFINE a == At(t, k)  g == Gap(h, t)  n == Gap(h, a)
<1>1. a \in Cell /\ g \in Cell /\ k <= g
  BY AtType, GapType
<1>2. n \in Cell
  BY <1>1, GapType
<1>3. g = IF t <= h THEN h - t ELSE h + Size - t
  BY GapValue
<1>4. a = IF t + k < Size THEN t + k ELSE t + k - Size
  BY AtValue
<1>5. n = IF a <= h THEN h - a ELSE h + Size - a
  BY <1>1, GapValue
<1> HIDE DEF a, g, n
<1>6. n = g - k
  BY <1>1, <1>2, <1>3, <1>4, <1>5, SizeType DEF Cell
<1> QED
  BY <1>6 DEF a, g, n

\* Cells counted from tail beyond the data are cells counted from head.
LEMMA BeyondData ==
  ASSUME NEW h \in Cell, NEW t \in Cell, NEW i \in Cell, Gap(h, t) <= i
  PROVE  At(t, i) = At(h, i - Gap(h, t))
<1> DEFINE g == Gap(h, t)  x == At(t, i)  y == At(h, i - g)
<1>1. g \in Cell /\ x \in Cell /\ g <= i
  BY AtType, GapType
<1>2. i - g \in Cell
  BY <1>1, SizeType DEF Cell
<1>3. y \in Cell
  BY <1>2, AtType
<1>4. g = IF t <= h THEN h - t ELSE h + Size - t
  BY GapValue
<1>5. x = IF t + i < Size THEN t + i ELSE t + i - Size
  BY AtValue
<1>6. y = IF h + (i - g) < Size THEN h + (i - g) ELSE h + (i - g) - Size
  BY <1>2, AtValue
<1> HIDE DEF g, x, y
<1>7. x = y
  BY <1>1, <1>3, <1>4, <1>5, <1>6, SizeType DEF Cell
<1> QED
  BY <1>7 DEF g, x, y

LEMMA AtAt ==
  ASSUME NEW t \in Cell, NEW k \in Cell, NEW i \in Cell, k + i < Size
  PROVE  At(At(t, k), i) = At(t, k + i)
<1> DEFINE a == At(t, k)  x == At(a, i)  y == At(t, k + i)
<1>1. a \in Cell /\ k + i \in Cell
  BY AtType, SizeType DEF Cell
<1>2. x \in Cell /\ y \in Cell
  BY <1>1, AtType
<1>3. a = IF t + k < Size THEN t + k ELSE t + k - Size
  BY AtValue
<1>4. x = IF a + i < Size THEN a + i ELSE a + i - Size
  BY <1>1, AtValue
<1>5. y = IF t + (k + i) < Size THEN t + (k + i) ELSE t + (k + i) - Size
  BY <1>1, AtValue
<1> HIDE DEF a, x, y
<1>6. x = y
  BY <1>1, <1>2, <1>3, <1>4, <1>5, SizeType DEF Cell
<1> QED
  BY <1>6 DEF a, x, y

LEMMA AtInjective ==
  ASSUME NEW a \in Cell, NEW i \in Cell, NEW j \in Cell, i # j
  PROVE  At(a, i) # At(a, j)
<1> DEFINE x == At(a, i)  y == At(a, j)
<1>1. x \in Cell /\ y \in Cell
  BY AtType
<1>2. x = IF a + i < Size THEN a + i ELSE a + i - Size
  BY AtValue
<1>3. y = IF a + j < Size THEN a + j ELSE a + j - Size
  BY AtValue
<1> HIDE DEF x, y
<1>4. x # y
  BY <1>1, <1>2, <1>3, SizeType DEF Cell
<1> QED
  BY <1>4 DEF x, y

\* A free cell, j from head, is none of the cells that hold data.
LEMMA FreeIsNotData ==
  ASSUME NEW h \in Cell, NEW t \in Cell, NEW i \in Cell, NEW j \in Cell,
         i < Gap(h, t), Gap(h, t) + j < Size
  PROVE  At(t, i) # At(h, j)
<1> DEFINE g == Gap(h, t)  x == At(t, i)  y == At(h, j)
<1>1. g \in Cell /\ x \in Cell /\ y \in Cell /\ i < g /\ g + j < Size
  BY AtType, GapType
<1>2. g = IF t <= h THEN h - t ELSE h + Size - t
  BY GapValue
<1>3. x = IF t + i < Size THEN t + i ELSE t + i - Size
  BY AtValue
<1>4. y = IF h + j < Size THEN h + j ELSE h + j - Size
  BY AtValue
<1> HIDE DEF g, x, y
<1>5. x # y
  BY <1>1, <1>2, <1>3, <1>4, SizeType DEF Cell
<1> QED
  BY <1>5 DEF x, y
-----------------------------------------------------------------------------
(* Type correctness. *)

RecvPC == {"loop", "select", "check", "write", "copy", "done"}
ParsePC == {"loop", "read", "copy", "feed", "done"}
RecvRec == [pc : RecvPC, read_len : 0 .. READ_MAX, copied : 0 .. READ_MAX]
ParseRec == [pc : ParsePC, len : 0 .. PARSE_MAX, copied : 0 .. PARSE_MAX]

LEMMA Types ==
  TypeOK <=> /\ is_running \in BOOLEAN
             /\ device \in 0 .. DeviceCap /\ arrived \in 0 .. MaxBytes
             /\ cells \in [Cell -> Nat] /\ head \in Cell /\ tail \in Cell
             /\ recv \in RecvRec /\ parse \in ParseRec
             /\ buf \in [0 .. PARSE_MAX - 1 -> Nat]
             /\ written \in Nat /\ parsed \in Nat
  BY Zenon DEF TypeOK, Cell, RecvRec, RecvPC, ParseRec, ParsePC

LEMMA InitType == Init => TypeOK
<1> SUFFICES ASSUME Init  PROVE TypeOK
  OBVIOUS
<1>1. head \in Cell /\ tail \in Cell /\ cells \in [Cell -> Nat]
  BY SizeType DEF Init, Cell
<1>2. recv \in RecvRec /\ parse \in ParseRec
  BY SizeAssumption DEF Init, RecvRec, ParseRec, RecvPC, ParsePC
<1>3. buf \in [0 .. PARSE_MAX - 1 -> Nat]
  BY DEF Init
<1> QED
  BY <1>1, <1>2, <1>3, Types, SizeAssumption DEF Init

\* What a step of the receive thread does to its record.
LEMMA RecvRecStep ==
  ASSUME recv \in RecvRec, NEW pc \in RecvPC, recv' = [recv EXCEPT !.pc = pc]
  PROVE  /\ recv' \in RecvRec
         /\ recv'.pc = pc /\ recv'.read_len = recv.read_len /\ recv'.copied = recv.copied
  BY DEF RecvRec

LEMMA ParseRecStep ==
  ASSUME parse \in ParseRec, NEW pc \in ParsePC, parse' = [parse EXCEPT !.pc = pc]
  PROVE  /\ parse' \in ParseRec
         /\ parse'.pc = pc /\ parse'.len = parse.len /\ parse'.copied = parse.copied
  BY DEF ParseRec

LEMMA DataSizeType ==
  ASSUME head \in Cell, tail \in Cell
  PROVE  DataSize = Gap(head, tail) /\ DataSize \in Nat /\ DataSize < Size
<1>1. DataSize = Gap(head, tail)
  BY Zenon DEF DataSize, Gap
<1>2. Gap(head, tail) \in Cell
  BY GapType
<1> QED
  BY <1>1, <1>2, SizeType DEF Cell

-----------------------------------------------------------------------------
(* The inductive invariant. *)

\* The cells between tail and head hold the bytes that follow those taken.
RingInv ==
  \A i \in Cell : i < DataSize => cells[At(tail, i)] = written - DataSize + i + 1

\* What the receive thread found out about the room, and what it has copied.
RecvInv ==
  /\ recv.pc \in {"check", "write"} => recv.copied = 0
  /\ recv.pc \in {"write", "copy"} => DataSize + recv.read_len < Size
  /\ recv.pc = "copy" =>
       /\ recv.copied <= recv.read_len
       /\ \A i \in Cell : i < recv.copied => cells[At(head, i)] = written + i + 1

\* The same of the parse thread and the bytes it found.
ParseInv ==
  /\ parse.pc = "read" => parse.copied = 0
  /\ parse.pc \in {"read", "copy"} => parse.len <= DataSize
  /\ parse.pc = "copy" =>
       /\ parse.copied <= parse.len
       /\ \A i \in 0 .. PARSE_MAX - 1 : i < parse.copied => buf[i] = parsed + i + 1

IInv ==
  /\ TypeOK
  /\ NothingLost
  /\ RingInv
  /\ RecvInv
  /\ ParseInv
  /\ ParsedInOrder

LEMMA InitIInv == Init => IInv
<1> SUFFICES ASSUME Init  PROVE IInv
  OBVIOUS
<1>1. TypeOK
  BY InitType
<1>2. head = 0 /\ tail = 0 /\ 0 \in Cell
  BY SizeType DEF Init, Cell
<1>3. DataSize = 0
  BY <1>2, DataSizeType, GapValue, SizeType
<1>4. recv.pc = "loop" /\ parse.pc = "loop" /\ written = 0 /\ parsed = 0
  BY DEF Init
<1>5. NothingLost
  BY <1>3, <1>4 DEF NothingLost
<1>6. RingInv
  BY <1>3 DEF RingInv, Cell
<1>7. RecvInv /\ ParseInv /\ ParsedInOrder
  BY <1>4 DEF RecvInv, ParseInv, ParsedInOrder
<1> QED
  BY <1>1, <1>5, <1>6, <1>7 DEF IInv

\* Steps that leave the ring and the other thread alone.
LEMMA RecvOnly ==
  ASSUME IInv, TypeOK', RecvInv',
         UNCHANGED <<cells, head, written, tail, parse, buf, parsed>>
  PROVE  IInv'
<1>1. DataSize' = DataSize
  BY DEF DataSize
<1> QED
  BY <1>1 DEF IInv, NothingLost, RingInv, ParseInv, ParsedInOrder

LEMMA EnvironmentStep == IInv /\ (Arrive \/ UartFinalize) => IInv'
<1> SUFFICES ASSUME IInv, Arrive \/ UartFinalize  PROVE IInv'
  OBVIOUS
<1>1. UNCHANGED <<cells, head, written, tail, parse, buf, parsed, recv>>
  BY DEF Arrive, UartFinalize, ringVars
<1>2. is_running' \in BOOLEAN /\ device' \in 0 .. DeviceCap /\ arrived' \in 0 .. MaxBytes
  <2>1. is_running \in BOOLEAN /\ device \in 0 .. DeviceCap /\ arrived \in 0 .. MaxBytes
    BY DEF IInv, TypeOK
  <2>2. CASE Arrive
    BY <2>1, <2>2, SizeAssumption DEF Arrive
  <2>3. CASE UartFinalize
    BY <2>1, <2>3 DEF UartFinalize
  <2> QED
    BY <2>2, <2>3
<1>3. TypeOK'
  BY <1>1, <1>2 DEF IInv, TypeOK
<1>4. DataSize' = DataSize
  BY <1>1 DEF DataSize
<1>5. RecvInv'
  BY <1>1, <1>4 DEF IInv, RecvInv
<1> QED
  BY <1>1, <1>3, <1>5, RecvOnly

LEMMA RecvStepIInv == IInv /\ RecvStep => IInv'
<1> SUFFICES ASSUME IInv, RecvStep  PROVE IInv'
  OBVIOUS
<1>t. /\ head \in Cell /\ tail \in Cell /\ cells \in [Cell -> Nat]
      /\ recv \in RecvRec /\ parse \in ParseRec
      /\ written \in Nat /\ parsed \in Nat /\ device \in 0 .. DeviceCap
  BY Types, Zenon DEF IInv
<1>d. DataSize = Gap(head, tail) /\ DataSize \in Nat /\ DataSize < Size
  BY <1>t, DataSizeType
<1>n. recv.read_len \in 0 .. READ_MAX /\ recv.copied \in 0 .. READ_MAX
  BY <1>t DEF RecvRec
<1>u. UNCHANGED <<is_running, arrived, tail, parse, buf, parsed>>
  BY DEF RecvStep, RecvLoop, RecvTimeout, RecvRead, RecvCheck, RecvWrite, RecvCopy,
         RecvPublish, RecvUnchanged
<1>1. CASE RecvLoop \/ RecvTimeout
  <2>1. PICK pc \in {"select", "loop", "done"} : RecvGoto(pc)
    BY <1>1 DEF RecvLoop, RecvTimeout
  <2>2. recv' \in RecvRec /\ recv'.pc = pc
    BY <2>1, <1>t, RecvRecStep DEF RecvGoto, RecvPC
  <2>3. UNCHANGED <<device, cells, head, written>>
    BY <1>1 DEF RecvLoop, RecvTimeout, ringVars
  <2>4. TypeOK'
    BY <1>u, <2>2, <2>3 DEF IInv, TypeOK, RecvRec, RecvPC
  <2>5. RecvInv'
    BY <2>2 DEF RecvInv
  <2> QED
    BY <1>u, <2>3, <2>4, <2>5, RecvOnly
<1>2. CASE RecvRead
  <2>1. PICK n \in 1 .. Smaller(device, READ_MAX) :
          /\ recv' = [pc |-> "check", read_len |-> n, copied |-> 0]
          /\ device' = device - n
    BY <1>2 DEF RecvRead
  <2>2. n \in 0 .. READ_MAX /\ device' \in 0 .. DeviceCap
    BY <2>1, <1>t, SizeAssumption DEF Smaller
  <2>3. recv' \in RecvRec /\ recv'.pc = "check" /\ recv'.copied = 0
    BY <2>1, <2>2, SizeAssumption DEF RecvRec, RecvPC
  <2>4. UNCHANGED <<cells, head, written>>
    BY <1>2 DEF RecvRead, ringVars
  <2>5. TypeOK'
    BY <1>u, <2>2, <2>3, <2>4 DEF IInv, TypeOK, RecvRec, RecvPC
  <2>6. RecvInv'
    BY <2>3 DEF RecvInv
  <2> QED
    BY <1>u, <2>4, <2>5, <2>6, RecvOnly
<1>3. CASE RecvCheck \/ RecvWrite
  <2>1. PICK pc \in {"loop", "write", "copy"} : RecvGoto(pc)
    BY <1>3 DEF RecvCheck, RecvWrite
  <2>2. /\ recv' \in RecvRec
        /\ recv'.pc = pc /\ recv'.read_len = recv.read_len /\ recv'.copied = recv.copied
    BY <2>1, <1>t, RecvRecStep DEF RecvGoto, RecvPC
  <2>3. UNCHANGED <<device, cells, head, written>>
    BY <1>3 DEF RecvCheck, RecvWrite, ringVars
  <2>4. TypeOK'
    BY <1>u, <2>2, <2>3 DEF IInv, TypeOK, RecvRec, RecvPC
  <2>5. recv.copied = 0
    BY <1>3 DEF RecvCheck, RecvWrite, IInv, RecvInv
  <2>6. ASSUME pc # "loop"  PROVE recv.read_len <= FreeSize
    <3>1. CASE RecvCheck
      <4>1. RecvGoto(IF FreeSize > recv.read_len THEN "write" ELSE "loop")
        BY <3>1 DEF RecvCheck
      <4>2. recv'.pc = IF FreeSize > recv.read_len THEN "write" ELSE "loop"
        BY <4>1, <1>t, RecvRecStep DEF RecvGoto, RecvPC
      <4> QED
        BY <4>2, <2>2, <2>6, <1>d, <1>n, SizeType DEF FreeSize
    <3>2. CASE RecvWrite
      <4>1. RecvGoto(IF FreeSize < recv.read_len THEN "loop" ELSE "copy")
        BY <3>2 DEF RecvWrite
      <4>2. recv'.pc = IF FreeSize < recv.read_len THEN "loop" ELSE "copy"
        BY <4>1, <1>t, RecvRecStep DEF RecvGoto, RecvPC
      <4> QED
        BY <4>2, <2>2, <2>6, <1>d, <1>n, SizeType DEF FreeSize
    <3> QED
      BY <1>3, <3>1, <3>2
  <2>7. DataSize' = DataSize
    BY <1>u, <2>3 DEF DataSize
  <2>8. pc # "loop" => DataSize + recv.read_len < Size
    BY <2>6, <1>d, <1>n, SizeType DEF FreeSize
  <2>9. RecvInv'
    BY <2>2, <2>5, <2>7, <2>8, <1>n, SizeType DEF RecvInv, Cell
  <2> QED
    BY <1>u, <2>3, <2>4, <2>9, RecvOnly
<1>4. CASE RecvCopy
  <2> DEFINE k == recv.copied  c == At(head, k)
  <2>1. /\ recv.pc = "copy" /\ k < recv.read_len
        /\ cells' = [cells EXCEPT ![c] = written + k + 1]
        /\ recv' = [recv EXCEPT !.copied = k + 1]
        /\ UNCHANGED <<device, head, written>>
    BY <1>4 DEF RecvCopy, At
  <2>2. DataSize + recv.read_len < Size
    BY <2>1 DEF IInv, RecvInv
  <2>3. k \in Cell /\ DataSize + k < Size /\ k + 1 \in 0 .. READ_MAX
    BY <2>1, <2>2, <1>d, <1>n, SizeType, SizeAssumption DEF Cell
  <2>4. c \in Cell
    BY <1>t, <2>3, AtType
  <2>5. /\ recv' \in RecvRec /\ recv'.pc = "copy"
        /\ recv'.read_len = recv.read_len /\ recv'.copied = k + 1
    BY <2>1, <2>3, <1>t DEF RecvRec
  <2>6. cells' \in [Cell -> Nat]
    BY <2>1, <2>3, <2>4, <1>t, <1>n
  <2>7. TypeOK'
    BY <1>u, <2>1, <2>5, <2>6 DEF IInv, TypeOK, RecvRec, RecvPC, Cell
  <2>8. DataSize' = DataSize
    BY <1>u, <2>1 DEF DataSize
  <2>9. RingInv'
    <3> SUFFICES ASSUME NEW i \in Cell, i < DataSize
                 PROVE  cells'[At(tail, i)] = written - DataSize + i + 1
      BY <1>u, <2>1, <2>8 DEF RingInv
    <3>1. At(tail, i) # c
      BY <1>t, <1>d, <2>3, FreeIsNotData
    <3>2. At(tail, i) \in Cell
      BY <1>t, AtType
    <3>3. cells'[At(tail, i)] = cells[At(tail, i)]
      BY <2>1, <3>1, <3>2, <1>t
    <3> QED
      BY <3>3 DEF IInv, RingInv
  <2>10. RecvInv'
    <3>1. ASSUME NEW i \in Cell, i < k + 1
          PROVE  cells'[At(head, i)] = written + i + 1
      <4>1. CASE i = k
        BY <4>1, <2>1, <2>4, <1>t
      <4>2. CASE i # k
        <5>1. i < k
          BY <4>2, <3>1, <2>3, SizeType DEF Cell
        <5>2. At(head, i) # c /\ At(head, i) \in Cell
          BY <4>2, <2>3, <1>t, AtInjective, AtType
        <5>3. cells'[At(head, i)] = cells[At(head, i)]
          BY <2>1, <5>2, <1>t
        <5> QED
          BY <5>1, <5>3, <2>1 DEF IInv, RecvInv
      <4> QED
        BY <4>1, <4>2
    <3>2. k + 1 <= recv.read_len
      BY <2>1, <1>n
    <3> HIDE DEF k, c
    <3> QED
      BY <2>1, <2>2, <2>5, <2>8, <3>1, <3>2 DEF RecvInv
  <2>11. NothingLost' /\ ParseInv' /\ ParsedInOrder'
    BY <1>u, <2>1, <2>8 DEF IInv, NothingLost, ParseInv, ParsedInOrder
  <2> QED
    BY <2>7, <2>9, <2>10, <2>11 DEF IInv
<1>5. CASE RecvPublish
  <2> DEFINE n == recv.read_len
  <2>1. /\ recv.pc = "copy" /\ recv.copied = n
        /\ head' = At(head, n) /\ written' = written + n
        /\ RecvGoto("loop") /\ UNCHANGED <<device, cells>>
    BY <1>5 DEF RecvPublish, At
  <2>2. DataSize + n < Size
    BY <2>1 DEF IInv, RecvInv
  <2>3. n \in Cell
    BY <2>2, <1>d, <1>n, SizeType DEF Cell
  <2>4. recv' \in RecvRec /\ recv'.pc = "loop"
    BY <2>1, <1>t, RecvRecStep DEF RecvGoto, RecvPC
  <2>5. head' \in Cell /\ written' \in Nat
    BY <2>1, <2>3, <1>t, <1>n, AtType
  <2>6. TypeOK'
    BY <1>u, <2>1, <2>4, <2>5 DEF IInv, TypeOK, RecvRec, RecvPC, Cell
  <2>7. DataSize' = Gap(head', tail)
    BY <2>5, <1>t, <1>u, Zenon DEF DataSize, Gap
  <2>8. DataSize' = DataSize + n
    BY <2>1, <2>2, <2>3, <2>7, <1>t, <1>d, GapGrows
  <2>9. written' - DataSize' = written - DataSize
    BY <2>1, <2>8, <1>d, <1>n, <1>t
  <2>10. RingInv'
    <3> SUFFICES ASSUME NEW i \in Cell, i < DataSize + n
                 PROVE  cells[At(tail, i)] = written - DataSize + i + 1
      BY <1>u, <2>1, <2>8, <2>9 DEF RingInv
    <3>1. CASE i < DataSize
      BY <3>1 DEF IInv, RingInv
    <3>2. CASE ~(i < DataSize)
      <4> DEFINE j == i - DataSize
      <4>1. j \in Cell /\ j < n
        BY <3>2, <1>d, <1>n, SizeType DEF Cell
      <4>2. At(tail, i) = At(head, j)
        BY <3>2, <1>t, <1>d, BeyondData, SizeType DEF Cell
      <4>3. cells[At(head, j)] = written + j + 1
        BY <4>1, <2>1 DEF IInv, RecvInv
      <4>4. written + j + 1 = written - DataSize + i + 1
        BY <1>t, <1>d, SizeType DEF Cell
      <4> QED
        BY <4>2, <4>3, <4>4
    <3> QED
      BY <3>1, <3>2
  <2>11. NothingLost'
    BY <1>u, <2>1, <2>8, <1>d, <1>n, <1>t DEF IInv, NothingLost, ParseRec
  <2>12. RecvInv' /\ ParseInv' /\ ParsedInOrder'
    <3>1. RecvInv'
      BY <2>4 DEF RecvInv
    <3>2. parse.len \in Nat
      BY <1>t, SizeAssumption DEF ParseRec
    <3>3. parse.len <= DataSize => parse.len <= DataSize'
      BY <3>2, <2>8, <1>d, <1>n
    <3> QED
      BY <1>u, <3>1, <3>3 DEF IInv, ParseInv, ParsedInOrder
  <2> QED
    BY <2>6, <2>10, <2>11, <2>12 DEF IInv
<1> QED
  BY <1>1, <1>2, <1>3, <1>4, <1>5 DEF RecvStep

LEMMA ParseStepIInv == IInv /\ ParseStep => IInv'
<1> SUFFICES ASSUME IInv, ParseStep  PROVE IInv'
  OBVIOUS
<1>t. /\ head \in Cell /\ tail \in Cell /\ cells \in [Cell -> Nat]
      /\ recv \in RecvRec /\ parse \in ParseRec
      /\ buf \in [0 .. PARSE_MAX - 1 -> Nat]
      /\ written \in Nat /\ parsed \in Nat
  BY Types, Zenon DEF IInv
<1>d. DataSize = Gap(head, tail) /\ DataSize \in Nat /\ DataSize < Size
  BY <1>t, DataSizeType
<1>n. parse.len \in 0 .. PARSE_MAX /\ parse.copied \in 0 .. PARSE_MAX
  BY <1>t DEF ParseRec
<1>u. UNCHANGED <<is_running, device, arrived, cells, head, written, recv>>
  BY DEF ParseStep, ParseLoop, ParseRead, ParseCopy, ParseRelease, ParseFeed,
         ParseUnchanged, ringVars
<1>1. CASE ParseLoop \/ ParseRead
  <2>1. UNCHANGED <<tail, buf, parsed>>
    BY <1>1 DEF ParseLoop, ParseRead
  <2>2. DataSize' = DataSize
    BY <1>u, <2>1 DEF DataSize
  <2>3. /\ parse' \in ParseRec /\ parse'.pc \in {"read", "copy", "done"}
        /\ parse'.pc \in {"read", "copy"} => parse'.copied = 0 /\ parse'.len <= DataSize
    <3>1. CASE ParseLoop /\ is_running
      <4>1. parse' = [pc |-> "read", len |-> Smaller(DataSize, PARSE_MAX), copied |-> 0]
        BY <3>1 DEF ParseLoop
      <4>2. Smaller(DataSize, PARSE_MAX) \in 0 .. PARSE_MAX /\ Smaller(DataSize, PARSE_MAX) <= DataSize
        BY <1>d, SizeAssumption DEF Smaller
      <4> QED
        BY <4>1, <4>2, SizeAssumption DEF ParseRec, ParsePC
    <3>2. CASE ParseLoop /\ ~is_running
      <4>1. ParseGoto("done")
        BY <3>2 DEF ParseLoop, ParseGoto
      <4> QED
        BY <4>1, <1>t, ParseRecStep DEF ParseGoto, ParsePC
    <3>3. CASE ParseRead
      <4>1. parse.pc = "read" /\ parse.copied = 0 /\ parse.len <= DataSize
        BY <3>3 DEF ParseRead, IInv, ParseInv
      <4>2. ParseGoto("copy")
        BY <3>3, <4>1, <1>d, <1>n DEF ParseRead
      <4> QED
        BY <4>1, <4>2, <1>t, ParseRecStep DEF ParseGoto, ParsePC
    <3> QED
      BY <1>1, <3>1, <3>2, <3>3
  <2>4. TypeOK'
    BY <1>u, <2>1, <2>3 DEF IInv, TypeOK, ParseRec, ParsePC
  <2>5. ParseInv'
    <3>1. parse'.copied \in Nat /\ parse'.len \in Nat
      BY <2>3, SizeAssumption DEF ParseRec
    <3> QED
      BY <2>2, <2>3, <3>1 DEF ParseInv
  <2>6. parse.pc # "feed" /\ parse'.pc # "feed"
    BY <1>1, <2>3 DEF ParseLoop, ParseRead
  <2> QED
    BY <1>u, <2>1, <2>2, <2>4, <2>5, <2>6
       DEF IInv, NothingLost, RingInv, RecvInv, ParsedInOrder
<1>2. CASE ParseCopy
  <2> DEFINE k == parse.copied
  <2>1. /\ parse.pc = "copy" /\ k < parse.len
        /\ buf' = [buf EXCEPT ![k] = cells[At(tail, k)]]
        /\ parse' = [parse EXCEPT !.copied = k + 1]
        /\ UNCHANGED <<tail, parsed>>
    BY <1>2 DEF ParseCopy, At
  <2>2. DataSize' = DataSize
    BY <1>u, <2>1 DEF DataSize
  <2>3. parse.len <= DataSize /\ written = parsed + DataSize
    BY <2>1, <1>d, <1>t DEF IInv, ParseInv, NothingLost
  <2>4. k \in Cell /\ k < DataSize /\ k \in 0 .. PARSE_MAX - 1 /\ k + 1 \in 0 .. PARSE_MAX
    BY <2>1, <2>3, <1>d, <1>n, SizeType, SizeAssumption DEF Cell
  <2>5. /\ parse' \in ParseRec /\ parse'.pc = "copy"
        /\ parse'.len = parse.len /\ parse'.copied = k + 1
    BY <2>1, <2>4, <1>t DEF ParseRec
  <2>6. cells[At(tail, k)] = parsed + k + 1
    <3>1. cells[At(tail, k)] = written - DataSize + k + 1
      BY <2>4 DEF IInv, RingInv
    <3>2. written - DataSize = parsed
      BY <2>3, <1>d, <1>t
    <3> QED
      BY <3>1, <3>2, Zenon
  <2>7. buf' \in [0 .. PARSE_MAX - 1 -> Nat]
    BY <2>1, <2>4, <2>6, <1>t, <1>n
  <2>8. TypeOK'
    BY <1>u, <2>1, <2>5, <2>7 DEF IInv, TypeOK, ParseRec, ParsePC
  <2>9. ParseInv'
    <3>1. ASSUME NEW i \in 0 .. PARSE_MAX - 1, i < k + 1
          PROVE  buf'[i] = parsed + i + 1
      <4>1. CASE i = k
        BY <4>1, <2>1, <2>4, <2>6, <1>t
      <4>2. CASE i # k
        <5>1. i < k
          BY <4>2, <3>1, <1>n, SizeAssumption
        <5>2. buf'[i] = buf[i]
          BY <4>2, <2>1, <1>t
        <5> QED
          BY <5>1, <5>2, <2>1 DEF IInv, ParseInv
      <4> QED
        BY <4>1, <4>2
    <3>2. k + 1 <= parse.len
      BY <2>1, <1>n
    <3> HIDE DEF k
    <3> QED
      BY <2>1, <2>2, <2>3, <2>5, <3>1, <3>2 DEF ParseInv
  <2> QED
    BY <1>u, <2>1, <2>2, <2>5, <2>8, <2>9
       DEF IInv, NothingLost, RingInv, RecvInv, ParsedInOrder
<1>3. CASE ParseRelease
  <2> DEFINE n == parse.len
  <2>1. /\ parse.pc = "copy" /\ parse.copied = n
        /\ tail' = At(tail, n) /\ ParseGoto("feed") /\ UNCHANGED <<buf, parsed>>
    BY <1>3 DEF ParseRelease, At
  <2>2. n <= DataSize /\ written = parsed + DataSize
    BY <2>1, <1>d, <1>t DEF IInv, ParseInv, NothingLost
  <2>3. n \in Cell
    BY <2>2, <1>d, <1>n, SizeType DEF Cell
  <2>4. parse' \in ParseRec /\ parse'.pc = "feed" /\ parse'.len = n
    BY <2>1, <1>t, ParseRecStep DEF ParseGoto, ParsePC
  <2>5. tail' \in Cell
    BY <2>1, <2>3, <1>t, AtType
  <2>6. TypeOK'
    BY <1>u, <2>1, <2>4, <2>5 DEF IInv, TypeOK, ParseRec, ParsePC, Cell
  <2>7. DataSize' = Gap(head, tail')
    BY <1>u, Zenon DEF DataSize, Gap
  <2>8. DataSize' = DataSize - n
    BY <2>1, <2>2, <2>3, <2>7, <1>t, <1>d, GapShrinks
  <2>9. NothingLost'
    BY <1>u, <2>1, <2>2, <2>4, <2>8, <1>d, <1>n, <1>t DEF NothingLost
  <2>10. RingInv'
    <3> SUFFICES ASSUME NEW i \in Cell, i < DataSize - n
                 PROVE  cells[At(tail', i)] = written - (DataSize - n) + i + 1
      BY <1>u, <2>8 DEF RingInv
    <3>1. n + i \in Cell /\ n + i < DataSize /\ n + i < Size
      BY <2>3, <1>d, SizeType DEF Cell
    <3>2. At(tail', i) = At(tail, n + i)
      BY <2>1, <2>3, <3>1, <1>t, AtAt
    <3>3. cells[At(tail, n + i)] = written - DataSize + (n + i) + 1
      BY <3>1 DEF IInv, RingInv
    <3> PICK d \in Nat, m \in Nat : d = DataSize /\ m = n
      BY <1>d, <1>n, SizeAssumption
    <3>4. written - d + (m + i) + 1 = written - (d - m) + i + 1
      BY <1>t, SizeType DEF Cell
    <3> HIDE DEF n
    <3> QED
      BY <3>2, <3>3, <3>4
  <2>11. RecvInv'
    <3>1. recv.read_len \in Nat
      BY <1>t, SizeAssumption DEF RecvRec
    <3>2. DataSize + recv.read_len < Size => DataSize' + recv.read_len < Size
      BY <3>1, <2>8, <1>d, <1>n, SizeType
    <3> QED
      BY <1>u, <3>2 DEF IInv, RecvInv
  <2>12. ParsedInOrder'
    <3>1. \A i \in 0 .. PARSE_MAX - 1 : i < n => buf[i] = parsed + i + 1
      BY <2>1 DEF IInv, ParseInv
    <3>2. \A i \in 0 .. n - 1 : i \in 0 .. PARSE_MAX - 1 /\ i < n
      BY <1>n, SizeAssumption
    <3> HIDE DEF n
    <3>3. \A i \in 0 .. n - 1 : buf[i] = parsed + i + 1
      BY <3>1, <3>2
    <3> QED
      BY <2>1, <2>4, <3>3 DEF ParsedInOrder
  <2>13. ParseInv'
    BY <2>4 DEF ParseInv
  <2> QED
    BY <2>6, <2>9, <2>10, <2>11, <2>12, <2>13 DEF IInv
<1>4. CASE ParseFeed
  <2>1. /\ parse.pc = "feed" /\ parsed' = parsed + parse.len
        /\ ParseGoto("loop") /\ UNCHANGED <<tail, buf>>
    BY <1>4 DEF ParseFeed
  <2>2. parse' \in ParseRec /\ parse'.pc = "loop"
    BY <2>1, <1>t, ParseRecStep DEF ParseGoto, ParsePC
  <2>3. TypeOK'
    BY <1>u, <1>n, <1>t, <2>1, <2>2 DEF IInv, TypeOK, ParseRec, ParsePC
  <2>4. DataSize' = DataSize
    BY <1>u, <2>1 DEF DataSize
  <2>5. NothingLost'
    BY <1>u, <1>d, <1>n, <1>t, <2>1, <2>2, <2>4 DEF IInv, NothingLost
  <2>6. ParseInv' /\ ParsedInOrder'
    BY <2>2 DEF ParseInv, ParsedInOrder
  <2> QED
    BY <1>u, <2>1, <2>3, <2>4, <2>5, <2>6 DEF IInv, RingInv, RecvInv
<1> QED
  BY <1>1, <1>2, <1>3, <1>4 DEF ParseStep

-----------------------------------------------------------------------------
LEMMA IInvInductive == Spec => []IInv
<1>1. IInv /\ [Next]_vars => IInv'
  <2> SUFFICES ASSUME IInv, [Next]_vars  PROVE IInv'
    OBVIOUS
  <2>1. CASE UNCHANGED vars
    <3>1. UNCHANGED <<is_running, device, arrived, cells, head, tail, recv, parse, buf,
                      written, parsed>>
      BY <2>1 DEF vars
    <3>2. DataSize' = DataSize
      BY <3>1 DEF DataSize
    <3> QED
      BY <3>1, <3>2 DEF IInv, TypeOK, NothingLost, RingInv, RecvInv, ParseInv, ParsedInOrder
  <2> QED
    BY <2>1, EnvironmentStep, RecvStepIInv, ParseStepIInv DEF Next
<1> QED
  BY InitIInv, <1>1, PTL DEF Spec

(* The types hold for every size of ring and buffers. *)
THEOREM RxTypeOK == Spec => []TypeOK
<1>1. IInv => TypeOK
  BY DEF IInv
<1> QED
  BY IInvInductive, <1>1, PTL

(* Whatever the two threads' steps interleave to, the parser is fed the    *)
(* bytes that entered the ring, each once and in order.                    *)
THEOREM RxParsedInOrder == Spec => []ParsedInOrder
<1>1. IInv => ParsedInOrder
  BY DEF IInv
<1> QED
  BY IInvInductive, <1>1, PTL

(* Every byte that entered the ring is parsed, in hand or in the ring. *)
THEOREM RxNothingLost == Spec => []NothingLost
<1>1. IInv => NothingLost
  BY DEF IInv
<1> QED
  BY IInvInductive, <1>1, PTL

(* The room and the bytes a thread found are still there when it uses      *)
(* them: RingBufferWrite and RingBufferRead never return the -1 that both  *)
(* threads ignore.                                                         *)
THEOREM RxChecksStayTrue == Spec => []ChecksStayTrue
<1>1. IInv => ChecksStayTrue
  <2> SUFFICES ASSUME IInv  PROVE ChecksStayTrue
    OBVIOUS
  <2>1. head \in Cell /\ tail \in Cell /\ recv \in RecvRec
    BY Types, Zenon DEF IInv
  <2>2. recv.read_len \in Nat
    BY <2>1, SizeAssumption DEF RecvRec
  <2>3. DataSize \in Nat
    BY <2>1, DataSizeType
  <2>4. DataSize + recv.read_len < Size => recv.read_len <= FreeSize
    BY <2>2, <2>3, SizeType DEF FreeSize
  <2> QED
    BY <2>4 DEF IInv, RecvInv, ParseInv, ChecksStayTrue
<1> QED
  BY IInvInductive, <1>1, PTL

=============================================================================
