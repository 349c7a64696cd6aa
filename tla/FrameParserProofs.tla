------------------------- MODULE FrameParserProofs -------------------------
(* TLAPS proofs about FrameParser, for every set of lengths on the line.    *)
EXTENDS FrameParser, TLAPS

\* The sizes a buffer goes through: n -> 2n + 16.
Sizes == {16, 48, 112, 240, 496, 1008, 2032, 4080, 8176, 16368}

\* The buffer has the size the parser believes, and what is stored fits.
BufferInv ==
  /\ protocol_buffer_length \in Sizes
  /\ allocated \in {0, protocol_buffer_length}
  /\ allocated = 0 => protocol_buffer_length = HEADER
  /\ index <= HEADER => protocol_buffer_length <= GC_TRIGGER_SIZE

\* The position in the frame agrees with what has been read of it; a frame
\* that is being dropped has filled the largest buffer.
PositionInv ==
  /\ index <= LEN_HIGH => length = 0
  /\ index = LEN_LOW => length <= 255 * 256
  /\ index \in {LEN_LOW, LEN_LOW + 1, CRC_LOW} => declared = length
  /\ index >= HEADER => consumed + length = HEADER + declared /\ length > 0
  /\ index < 8177 => consumed = index /\ Parsing
  /\ index >= 8177 => consumed >= index
  /\ ~Parsing => index >= 8177

\* The buffer's steps let the parser store frames of up to 8177 bytes.
DroppedBytes == out.what = "dropped" => out.bytes > 8177

IInv ==
  /\ TypeOK /\ NoOverrun /\ BufferInv /\ PositionInv
  /\ FrameAligned /\ DroppedBytes

\* The provers need only this of the width of a length.
LEMMA U16Value == U16 \in Nat /\ U16 > 65535
  BY DEF U16

\* The invariant holds when the parser starts.
LEMMA InitIInv == Init => IInv
  BY U16Value DEF Init, IInv, TypeOK, NoOverrun, BufferInv, PositionInv, FrameAligned,
         DroppedBytes, NoFrame, Sizes, HEADER, GC_TRIGGER_SIZE, LEN_HIGH, LEN_LOW,
         CRC_LOW, Parsing, Overflow, SUPPORT_MAX_SIZE

\* What _protocol_buffer_alloc leaves room for: the byte about to be stored.
LEMMA CapacityFits ==
  ASSUME IInv, Parsing
  PROVE  /\ Capacity \in Sizes /\ index < Capacity
         /\ Capacity = 16368 => index = 8176
         /\ index <= HEADER => Capacity <= 1008
<1> USE DEF HEADER
<1>1. /\ protocol_buffer_length \in Sizes \ {16368}
      /\ index \in Nat /\ index <= protocol_buffer_length
      /\ allocated = 0 => index = 0
      /\ index <= HEADER => protocol_buffer_length <= 1008
  BY DEF IInv, TypeOK, NoOverrun, BufferInv, Sizes, GC_TRIGGER_SIZE, Parsing,
         Overflow, SUPPORT_MAX_SIZE
<1>2. (protocol_buffer_length * 2 + HEADER) % U16 = protocol_buffer_length * 2 + HEADER
  BY <1>1 DEF Sizes, U16
<1>3. Capacity = IF allocated # 0 /\ protocol_buffer_length <= index
                  THEN protocol_buffer_length * 2 + 16 ELSE protocol_buffer_length
  BY <1>2 DEF Capacity
<1>4. CASE allocated # 0 /\ protocol_buffer_length <= index
  <2>1. index = protocol_buffer_length
    BY <1>1, <1>4 DEF Sizes
  <2> QED BY <1>1, <1>3, <1>4, <2>1 DEF Sizes
<1>5. CASE ~(allocated # 0 /\ protocol_buffer_length <= index)
  BY <1>1, <1>3, <1>5 DEF Sizes
<1> QED BY <1>4, <1>5

\* A step that stores a byte and stays in the frame.
LEMMA StoreKeeps ==
  ASSUME IInv, Parsing,
         NEW len \in 0 .. U16 - 1, Store(len), declared' \in 0 .. U16 - 1,
         index < LEN_HIGH => len = 0 /\ index < SYNC + 6,
         index = LEN_HIGH => len <= 255 * 256,
         index \in {LEN_HIGH, LEN_LOW, LEN_LOW + 1} => declared' = len,
         index >= CRC_LOW => len > 0 /\ declared' = declared,
         index = CRC_LOW => len = declared,
         index > CRC_LOW => len = length - 1
  PROVE  IInv'
<1> USE DEF HEADER, SYNC, LEN_HIGH, LEN_LOW, CRC_LOW, GC_TRIGGER_SIZE
<1> USE U16Value
<1>1. /\ Capacity \in Sizes /\ index < Capacity
      /\ Capacity = 16368 => index = 8176
      /\ index <= HEADER => Capacity <= 1008
  BY CapacityFits
<1>2. index \in Nat /\ consumed \in Nat /\ consumed = index /\ index < 8177
  BY DEF IInv, TypeOK, PositionInv, NoOverrun, BufferInv, Sizes, Parsing, Overflow, SUPPORT_MAX_SIZE
<1>7. /\ length \in Nat /\ declared \in Nat
      /\ index > CRC_LOW => consumed + length = HEADER + declared
  <2>1. PositionInv /\ TypeOK
    BY DEF IInv
  <2>2. length \in Nat /\ declared \in Nat /\ index \in Nat
    BY <2>1 DEF TypeOK
  <2> QED BY <2>1, <2>2 DEF PositionInv
<1>3. /\ index' = index + 1 /\ length' = len /\ consumed' = consumed + 1
      /\ protocol_buffer_length' = Capacity /\ allocated' = Capacity /\ out' = NoFrame
  BY DEF Store, Keep
<1>4. TypeOK' /\ NoOverrun' /\ FrameAligned' /\ DroppedBytes'
  BY <1>1, <1>2, <1>3 DEF TypeOK, NoOverrun, FrameAligned, DroppedBytes, NoFrame, Sizes
<1>5. BufferInv'
  BY <1>1, <1>2, <1>3 DEF BufferInv, Sizes
<1>6. PositionInv'
  <2>1. Parsing' \/ index' = 8177
    BY <1>1, <1>3 DEF Parsing, Overflow, SUPPORT_MAX_SIZE, Sizes
  <2>2. index' < 8177 => Capacity < SUPPORT_MAX_SIZE
    BY <1>1, <1>2, <1>3 DEF Sizes, SUPPORT_MAX_SIZE
  <2>3. index' < 8177 => Parsing'
    BY <1>1, <1>3, <2>2 DEF Parsing, Overflow, Sizes, SUPPORT_MAX_SIZE
  <2>4. index' <= LEN_HIGH => length' = 0
    BY <1>2, <1>3
  <2>5. index' = LEN_LOW => length' <= 255 * 256
    BY <1>2, <1>3
  <2>6. index' \in {LEN_LOW, LEN_LOW + 1, CRC_LOW} => declared' = length'
    BY <1>2, <1>3
  <2>7. ASSUME index' >= HEADER
        PROVE  consumed' + length' = HEADER + declared' /\ length' > 0
    <3>1. index >= CRC_LOW
      BY <1>2, <1>3, <2>7
    <3>2. CASE index = CRC_LOW
      BY <1>2, <1>3, <1>7, <3>2
    <3>3. CASE index > CRC_LOW
      <4>1. len = length - 1 /\ len > 0 /\ declared' = declared
        BY <1>2, <3>3
      <4>2. consumed + length = HEADER + declared
        BY <1>7, <3>3
      <4> QED BY <1>2, <1>3, <1>7, <4>1, <4>2
    <3> QED BY <1>2, <3>1, <3>2, <3>3
  <2>8. /\ index' < 8177 => consumed' = index' /\ Parsing'
        /\ index' >= 8177 => consumed' >= index'
        /\ ~Parsing' => index' >= 8177
    BY <1>2, <1>3, <2>1, <2>3
  <2> HIDE DEF HEADER, SYNC, LEN_HIGH, LEN_LOW, CRC_LOW, GC_TRIGGER_SIZE
  <2> QED BY <2>4, <2>5, <2>6, <2>7, <2>8 DEF PositionInv
<1> QED BY <1>4, <1>5, <1>6 DEF IInv

\* A step that begins a new frame with a buffer of a size it may have there.
LEMMA ResetKeeps ==
  ASSUME IInv,
         NEW what \in {"noise", "nack", "frame", "dropped"}, NEW d \in 0 .. U16 - 1,
         Reset(what, d),
         protocol_buffer_length' \in Sizes, protocol_buffer_length' <= GC_TRIGGER_SIZE,
         allocated' \in {0, protocol_buffer_length'},
         allocated' = 0 => protocol_buffer_length' = HEADER,
         what \in {"frame", "dropped"} => consumed + 1 = HEADER + d,
         what = "dropped" => consumed + 1 > 8177
  PROVE  IInv'
<1> USE DEF HEADER, LEN_HIGH, LEN_LOW, CRC_LOW, GC_TRIGGER_SIZE
<1> USE U16Value
<1>1. /\ index' = 0 /\ length' = 0 /\ consumed' = 0 /\ declared' = 0
      /\ out' = [what |-> what, bytes |-> consumed + 1, declared |-> d]
      /\ consumed \in Nat
  BY DEF Reset, IInv, TypeOK
<1>2. TypeOK' /\ NoOverrun' /\ FrameAligned' /\ DroppedBytes'
  BY <1>1 DEF TypeOK, NoOverrun, FrameAligned, DroppedBytes, Sizes
<1>3. BufferInv' /\ PositionInv'
  BY <1>1 DEF BufferInv, PositionInv, Parsing, Overflow, SUPPORT_MAX_SIZE, Sizes
<1> QED BY <1>2, <1>3 DEF IInv

\* The sizes garbage collection leaves.
LEMMA CollectLeaves ==
  ASSUME NEW n \in Sizes, Collect(n)
  PROVE  /\ protocol_buffer_length' \in Sizes
         /\ protocol_buffer_length' <= GC_TRIGGER_SIZE
         /\ allocated' \in {0, protocol_buffer_length'}
         /\ allocated' = 0 => protocol_buffer_length' = HEADER
  BY DEF Collect, Sizes, GC_TRIGGER_SIZE, HEADER

LEMMA NextIInv == IInv /\ [Next]_vars => IInv'
<1> SUFFICES ASSUME IInv, [Next]_vars PROVE IInv'
  OBVIOUS
<1> USE DEF HEADER, SYNC, LEN_HIGH, LEN_LOW, CRC_LOW
<1> USE U16Value
<1>0. /\ index \in Nat /\ consumed \in Nat
      /\ length \in 0 .. U16 - 1 /\ declared \in 0 .. U16 - 1 /\ PositionInv
      /\ protocol_buffer_length \in Sizes
  BY DEF IInv, TypeOK, BufferInv
<1>1. CASE SyncByte
  <2>1. Parsing /\ Store(length) /\ declared' = declared /\ index < 6 /\ length = 0
    BY <1>0, <1>1 DEF SyncByte, PositionInv
  <2> QED BY <1>0, <2>1, StoreKeeps
<1>2. CASE WrongSyncByte
  <2>1. Parsing /\ Reset("noise", 0) /\ index < 6
        /\ protocol_buffer_length' = Capacity /\ allocated' = Capacity
    BY <1>2 DEF WrongSyncByte, Keep
  <2>2. Capacity \in Sizes /\ Capacity <= GC_TRIGGER_SIZE /\ Capacity # 0
    BY <1>0, <2>1, CapacityFits DEF Sizes, GC_TRIGGER_SIZE
  <2> QED BY <2>1, <2>2, ResetKeeps
<1>3. CASE HeaderByte
  <2>1. /\ Parsing /\ Store(length) /\ declared' = declared
        /\ index \in 6 .. 14 /\ index \notin {12, 13}
    BY <1>0, <1>3 DEF HeaderByte
  <2>2. index < 12 => length = 0
    BY <1>0, <2>1 DEF PositionInv
  <2>3. index = 14 => declared = length
    BY <1>0 DEF PositionInv
  <2> QED BY <1>0, <2>1, <2>2, <2>3, StoreKeeps
<1>4. CASE LengthHigh
  <2>1. PICK b \in Highs : Store(b * 256) /\ declared' = b * 256
    BY <1>4 DEF LengthHigh
  <2>2. Parsing /\ index = 12 /\ b \in 0 .. 255
    BY <1>4, ByteAssumption DEF LengthHigh
  <2> QED BY <2>1, <2>2, StoreKeeps
<1>5. CASE LengthLow
  <2>1. PICK b \in Lows : Store(length + b) /\ declared' = length + b
    BY <1>5 DEF LengthLow
  <2>2. Parsing /\ index = 13 /\ b \in 0 .. 255 /\ length <= 255 * 256
    BY <1>0, <1>5, ByteAssumption DEF LengthLow, PositionInv
  <2>3. length + b \in 0 .. U16 - 1
    BY <1>0, <2>2
  <2> QED BY <2>1, <2>2, <2>3, StoreKeeps
<1>6. CASE LengthGood
  <2>1. Parsing /\ index = 15 /\ declared = length /\ consumed = 15
    BY <1>0, <1>6 DEF LengthGood, PositionInv
  <2>2. CASE length > 0 /\ Store(length) /\ UNCHANGED declared
    BY <1>0, <2>1, <2>2, StoreKeeps
  <2>3. CASE length = 0 /\ Process(declared)
    <3>1. Reset("frame", declared) /\ Collect(Capacity) /\ Capacity \in Sizes
      BY <2>1, <2>3, CapacityFits DEF Process
    <3> QED BY <1>0, <2>1, <2>3, <3>1, CollectLeaves, ResetKeeps
  <2> QED BY <1>6, <2>2, <2>3 DEF LengthGood
<1>7. CASE LengthBad
  <2>1. Parsing /\ index = 15 /\ Reset("nack", declared)
        /\ protocol_buffer_length' = Capacity /\ allocated' = Capacity
    BY <1>7 DEF LengthBad, Keep
  <2>2. Capacity \in Sizes /\ Capacity <= GC_TRIGGER_SIZE /\ Capacity # 0
    BY <1>0, <2>1, CapacityFits DEF Sizes, GC_TRIGGER_SIZE
  <2> QED BY <1>0, <2>1, <2>2, ResetKeeps
<1>8. CASE Payload
  <2>1. Parsing /\ index >= 16 /\ consumed + length = 16 + declared
    BY <1>0, <1>8 DEF Payload, PositionInv
  <2>2. CASE length > 1 /\ Store(length - 1) /\ UNCHANGED declared
    <3>1. length - 1 \in 0 .. U16 - 1
      BY <1>0, <2>2
    <3> QED BY <1>0, <2>1, <2>2, <3>1, StoreKeeps
  <2>3. CASE length = 1 /\ Process(declared)
    <3>1. Reset("frame", declared) /\ Collect(Capacity) /\ Capacity \in Sizes
      BY <2>1, <2>3, CapacityFits DEF Process
    <3> QED BY <1>0, <2>1, <2>3, <3>1, CollectLeaves, ResetKeeps
  <2> QED BY <1>8, <2>2, <2>3 DEF Payload
<1>9. CASE Drop
  <2>1. /\ ~Parsing /\ length > 1 /\ length' = length - 1 /\ consumed' = consumed + 1
        /\ out' = NoFrame /\ index' = index /\ declared' = declared
        /\ protocol_buffer_length' = protocol_buffer_length /\ allocated' = allocated
    BY <1>9 DEF Drop
  <2>2. TypeOK' /\ NoOverrun' /\ FrameAligned' /\ DroppedBytes' /\ BufferInv'
    BY <1>0, <2>1 DEF IInv, TypeOK, NoOverrun, FrameAligned, DroppedBytes, BufferInv,
                      NoFrame
  <2>3. PositionInv'
    BY <1>0, <2>1 DEF PositionInv, Parsing, Overflow, SUPPORT_MAX_SIZE
  <2> QED BY <2>2, <2>3 DEF IInv
<1>10. CASE DropLast
  <2>1. ~Parsing /\ length <= 1 /\ Reset("dropped", declared) /\ Collect(protocol_buffer_length)
    BY <1>10 DEF DropLast
  <2>2. index >= 8177 /\ consumed >= 8177 /\ length = 1 /\ consumed + 1 = 16 + declared
    BY <1>0, <2>1 DEF PositionInv
  <2> QED BY <1>0, <2>1, <2>2, CollectLeaves, ResetKeeps
<1>11. CASE UNCHANGED vars
  BY <1>11 DEF vars, IInv, TypeOK, NoOverrun, BufferInv, PositionInv, FrameAligned,
               DroppedBytes, Parsing, Overflow
<1> QED BY <1>1, <1>2, <1>3, <1>4, <1>5, <1>6, <1>7, <1>8, <1>9, <1>10, <1>11 DEF Next

LEMMA SpecIInv == Spec => []IInv
  BY InitIInv, NextIInv, PTL DEF Spec

\* For every length field that can arrive, no byte is stored behind the end
\* of protocol_buffer.
THEOREM ParserNoOverrun == Spec => []NoOverrun
<1>1. IInv => NoOverrun
  BY DEF IInv
<1> QED BY <1>1, SpecIInv, PTL

\* Every frame ends where its header says, stored or dropped: a frame too
\* long never shifts the frames after it.
THEOREM ParserFrameAligned == Spec => []FrameAligned
<1>1. IInv => FrameAligned
  BY DEF IInv
<1> QED BY <1>1, SpecIInv, PTL

\* Between frames the buffer is small, so the parser never stays in the
\* state in which it drops what arrives.
THEOREM ParserIdleHeapSmall == Spec => []IdleHeapSmall
<1>1. IInv => IdleHeapSmall
  BY DEF IInv, TypeOK, BufferInv, IdleHeapSmall, HEADER
<1> QED BY <1>1, SpecIInv, PTL

\* For every payload length, the sums of the sender that wrap at 16 bits
\* included: the parser drops no frame whose header the sender has written,
\* but for 14 lengths.
THEOREM ParserDroppedIsTooLong == Spec => []DroppedIsTooLong
<1>1. ASSUME IInv, out.what = "dropped"
      PROVE  out.declared \in Nat /\ 8162 <= out.declared /\ out.declared < 65536
  <2>1. out.declared \in 0 .. U16 - 1
    BY <1>1 DEF IInv, TypeOK
  <2>2. U16 = 65536 /\ HEADER = 16
    BY DEF U16, HEADER
  <2>3. out.declared \in Nat /\ out.declared < U16
    BY <2>1, U16Value
  <2>4. out.bytes = 16 + out.declared /\ out.bytes > 8177
    BY <1>1, <2>2 DEF IInv, FrameAligned, DroppedBytes
  <2> QED BY <2>2, <2>3, <2>4
<1>2. ASSUME NEW n \in Nat, 8176 <= n, n < 65520
      PROVE  Transmitted(n) = 0
  <2>1. (16 + n) % 65536 = 16 + n
    BY <1>2
  <2> QED BY <1>2, <2>1 DEF Transmitted, Overflow, SUPPORT_MAX_SIZE, HEADER, U16
<1>3. ASSUME NEW n \in Nat, 65520 <= n, n < 65536
      PROVE  Transmitted(n) < 16
  <2>1. (16 + n) % 65536 = n - 65520
    BY <1>3
  <2> QED BY <1>3, <2>1 DEF Transmitted, Overflow, SUPPORT_MAX_SIZE, HEADER, U16
<1>4. IInv => DroppedIsTooLong
  <2> SUFFICES ASSUME IInv, out.what = "dropped"
               PROVE  \/ Transmitted(out.declared) < 16
                      \/ 8162 <= out.declared /\ out.declared <= 8175
    BY DEF DroppedIsTooLong, HEADER
  <2> DEFINE d == out.declared
  <2>1. d \in Nat /\ 8162 <= d /\ d < 65536
    BY <1>1
  <2> HIDE DEF d
  <2>2. CASE d < 65520 /\ 8176 <= d
    BY <1>2, <2>1, <2>2 DEF d
  <2>3. CASE 65520 <= d
    BY <1>3, <2>1, <2>3 DEF d
  <2>4. CASE d <= 8175
    BY <2>1, <2>4 DEF d
  <2>5. d <= 8175 \/ (d < 65520 /\ 8176 <= d) \/ 65520 <= d
    BY <2>1
  <2> QED BY <2>2, <2>3, <2>4, <2>5
<1> QED BY <1>4, SpecIInv, PTL

\* The variables of the parser keep their widths.
THEOREM ParserTypeOK == Spec => []TypeOK
<1>1. IInv => TypeOK
  BY DEF IInv
<1> QED BY <1>1, SpecIInv, PTL
=============================================================================
