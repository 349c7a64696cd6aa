---------------------------- MODULE FrameParser ----------------------------
(***************************************************************************)
(* _protocol_buffer_generate_byte_by_byte of protocol/uni_communication.c: *)
(* the parse thread feeds it one byte at a time and it keeps its position  *)
(* in static variables.  The constants are those of the code.  What is     *)
(* abstracted: the bytes that are only stored, and the two CRCs, which     *)
(* either fit or do not.                                                   *)
(***************************************************************************)
EXTENDS Integers

CONSTANTS
  Highs, Lows   \* high and low bytes of the length field that may arrive

ASSUME ByteAssumption == Highs \subseteq 0 .. 255 /\ Lows \subseteq 0 .. 255

HEADER   == 16                  \* sizeof(struct header)
GC_TRIGGER_SIZE  == 1024 + HEADER
SUPPORT_MAX_SIZE == 8192
SYNC     == 6                   \* sizeof(g_sync)
LEN_HIGH == 12
LEN_LOW  == 13
CRC_LOW  == 15
U16      == 65536               \* CommPayloadLen is an unsigned short

VARIABLES
  index,                   \* bytes of the frame stored so far
  length,                  \* bytes of the frame still to come, once known
  protocol_buffer_length,  \* size of the buffer, or the size it will get
  allocated,               \* bytes malloc() gave protocol_buffer; 0 for NULL
  consumed,                \* history: bytes of this frame seen so far
  declared,                \* history: the payload length its header told
  out                      \* history: the frame that ended with the last byte

vars == <<index, length, protocol_buffer_length, allocated, consumed, declared, out>>

NoFrame == [what |-> "none", bytes |-> 0, declared |-> 0]

Init ==
  /\ index = 0
  /\ length = 0
  /\ protocol_buffer_length = HEADER
  /\ allocated = 0
  /\ consumed = 0
  /\ declared = 0
  /\ out = NoFrame

Overflow(n) == n >= SUPPORT_MAX_SIZE

\* The bytes that CommProtocolPacketAssembleAndSend hands to on_write for a
\* payload of n bytes.  Both the check and _packet_len_get cut the sum to 16
\* bits, so that of the longest payloads less than a header is written.
Transmitted(n) ==
  LET size == (HEADER + n) % U16 IN IF Overflow(size) THEN 0 ELSE size

\* Mutant of Capacity: the buffer is enlarged one byte too late.
CapacityLate ==
  IF allocated # 0 /\ protocol_buffer_length < index
    THEN (protocol_buffer_length * 2 + HEADER) % U16
    ELSE protocol_buffer_length

\* Mutant of Capacity: the buffer grows fourfold.
CapacityFourfold ==
  IF allocated # 0 /\ protocol_buffer_length <= index
    THEN (protocol_buffer_length * 4 + HEADER) % U16
    ELSE protocol_buffer_length

\* The size after _protocol_buffer_alloc: a missing buffer is allocated, a
\* full one is enlarged.
Capacity ==
  IF allocated # 0 /\ protocol_buffer_length <= index
    THEN (protocol_buffer_length * 2 + HEADER) % U16
    ELSE protocol_buffer_length

Keep == protocol_buffer_length' = Capacity /\ allocated' = Capacity

\* Mutant of Collect: the buffer is never given back.
CollectNever(n) == protocol_buffer_length' = n /\ allocated' = n

\* _try_garbage_collection_protocol_buffer of a buffer of n bytes.
Collect(n) ==
  IF n > GC_TRIGGER_SIZE
    THEN protocol_buffer_length' = HEADER /\ allocated' = 0
    ELSE protocol_buffer_length' = n /\ allocated' = n

\* A byte reaches the parser and no frame is being dropped.
Parsing == ~Overflow(protocol_buffer_length)

\* The byte is stored and the frame goes on, with len bytes to come.
Store(len) ==
  /\ index' = index + 1
  /\ length' = len
  /\ consumed' = consumed + 1
  /\ out' = NoFrame
  /\ Keep

Reset(what, d) ==
  /\ index' = 0
  /\ length' = 0
  /\ consumed' = 0
  /\ declared' = 0
  /\ out' = [what |-> what, bytes |-> consumed + 1, declared |-> d]

\* The byte is the last one: _one_protocol_frame_process, then a new frame.
Process(d) == Reset("frame", d) /\ Collect(Capacity)

-----------------------------------------------------------------------------
SyncByte ==
  /\ Parsing
  /\ index < SYNC
  /\ Store(length)
  /\ UNCHANGED declared

\* A byte that is not the next one of "uArTcP" starts the search again.
WrongSyncByte ==
  /\ Parsing
  /\ index < SYNC
  /\ Reset("noise", 0)
  /\ Keep

\* Sequence, control, command and checksum, and the first byte of the CRC.
HeaderByte ==
  /\ Parsing
  /\ SYNC <= index /\ index < CRC_LOW
  /\ index \notin {LEN_HIGH, LEN_LOW}
  /\ Store(length)
  /\ UNCHANGED declared

LengthHigh ==
  /\ Parsing
  /\ index = LEN_HIGH
  /\ \E b \in Highs : Store(b * 256) /\ declared' = b * 256

LengthLow ==
  /\ Parsing
  /\ index = LEN_LOW
  /\ \E b \in Lows : Store(length + b) /\ declared' = length + b

\* The CRC of the length fits: a frame without payload is complete.
LengthGood ==
  /\ Parsing
  /\ index = CRC_LOW
  /\ \/ length > 0 /\ Store(length) /\ UNCHANGED declared
     \/ length = 0 /\ Process(declared)

\* The CRC of the length does not fit: a NACK goes out, a new frame begins.
LengthBad ==
  /\ Parsing
  /\ index = CRC_LOW
  /\ Reset("nack", declared)
  /\ Keep

Payload ==
  /\ Parsing
  /\ HEADER <= index /\ length > 0
  /\ \/ length > 1 /\ Store(length - 1) /\ UNCHANGED declared
     \/ length = 1 /\ Process(declared)

\* Mutant of Drop: the last byte of the frame does not end it.
DropOneMore ==
  /\ ~Parsing
  /\ length > 0
  /\ length' = length - 1
  /\ consumed' = consumed + 1
  /\ out' = NoFrame
  /\ UNCHANGED <<index, protocol_buffer_length, allocated, declared>>

\* Mutant of Drop: nothing ends the frame, and length goes on below 0.
DropForever ==
  /\ ~Parsing
  /\ length' = length - 1
  /\ consumed' = consumed + 1
  /\ out' = NoFrame
  /\ UNCHANGED <<index, protocol_buffer_length, allocated, declared>>

\* The rest of a frame that is too long for the buffer.
Drop ==
  /\ ~Parsing
  /\ length > 1
  /\ length' = length - 1
  /\ consumed' = consumed + 1
  /\ out' = NoFrame
  /\ UNCHANGED <<index, protocol_buffer_length, allocated, declared>>

DropLast ==
  /\ ~Parsing
  /\ length <= 1
  /\ Reset("dropped", declared)
  /\ Collect(protocol_buffer_length)

Next ==
  \/ SyncByte \/ WrongSyncByte \/ HeaderByte
  \/ LengthHigh \/ LengthLow \/ LengthGood \/ LengthBad
  \/ Payload \/ Drop \/ DropLast

Spec == Init /\ [][Next]_vars

-----------------------------------------------------------------------------
\* The types of the variables.
TypeOK ==
  /\ index \in Nat
  /\ length \in 0 .. U16 - 1
  /\ protocol_buffer_length \in 0 .. U16 - 1
  /\ allocated \in 0 .. U16 - 1
  /\ consumed \in Nat
  /\ declared \in 0 .. U16 - 1
  /\ out \in [what : {"none", "noise", "nack", "frame", "dropped"},
              bytes : Nat, declared : 0 .. U16 - 1]

\* No byte is stored behind the end of the buffer, however often it grows
\* and is given back, and whatever lengths the headers tell.
NoOverrun == IF allocated = 0 THEN index = 0 ELSE index <= allocated

\* A frame ends exactly where its header says, also one that is dropped for
\* its length: the byte after it is taken for the first of the next frame.
FrameAligned == out.what \in {"frame", "dropped"} => out.bytes = HEADER + out.declared

\* "small heap memory stays alway, only garbage collection big bins": between
\* frames the buffer is small, and never in the state that drops frames.
IdleHeapSmall == index = 0 => protocol_buffer_length <= GC_TRIGGER_SIZE

\* Parser and sender agree on what is too long, however the sums wrap: of a
\* frame that the parser drops the sender has not written even the header,
\* but for 14 lengths just below the limit.
DroppedIsTooLong ==
  out.what = "dropped" =>
    \/ Transmitted(out.declared) < HEADER
    \/ 8162 <= out.declared /\ out.declared <= 8175
=============================================================================
