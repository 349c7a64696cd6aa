------------------------------- MODULE UartRx -------------------------------
(***************************************************************************)
(* The receive path of uart/uni_uart.c: the receive thread _recv_task      *)
(* moves what the driver has into the ring buffer of utils/uni_ringbuf.c,  *)
(* the parse thread _protocol_stack_parse_task moves it on into the frame  *)
(* parser.  The two threads share head, tail and the cells with no lock.   *)
(* Each read or write of a shared index is one step and memcpy copies byte *)
(* by byte; the steps are seen in program order, as x86 without compiler   *)
(* reordering keeps them.                                                  *)
(*                                                                         *)
(* A byte is named by its rank among the bytes that entered the ring.      *)
(***************************************************************************)
EXTENDS Integers

CONSTANTS
  RING_SIZE,   \* bytes the ring is created for: 8192 in the code
  READ_MAX,    \* the receive thread's buffer: 4096 in the code
  PARSE_MAX,   \* the parse thread's buffer: 2048 in the code
  DeviceCap,   \* bytes the driver holds
  MaxBytes     \* bound: bytes that arrive

ASSUME SizeAssumption ==
  /\ RING_SIZE \in Nat \ {0}
  /\ READ_MAX \in Nat \ {0}
  /\ PARSE_MAX \in Nat \ {0}
  /\ DeviceCap \in Nat
  /\ MaxBytes \in Nat

VARIABLES
  is_running,
  device,      \* bytes that wait in the driver
  arrived,     \* bytes that arrived so far, for the bound
  cells,       \* ring_buf->buf
  head,        \* ring_buf->head, written by the receive thread only
  tail,        \* ring_buf->tail, written by the parse thread only
  recv,        \* the receive thread: [pc, read_len, copied]
  parse,       \* the parse thread: [pc, len, copied]
  buf,         \* the parse thread's buffer
  written,     \* history: bytes that entered the ring
  parsed       \* history: bytes given to the frame parser

ringVars == <<cells, head, written>>
vars == <<is_running, device, arrived, cells, head, tail, recv, parse, buf, written, parsed>>

Size == RING_SIZE + 1   \* RINGBBUF_FILL_BYTE_SIZE

Smaller(a, b) == IF a < b THEN a ELSE b

DataSize == (head + Size - tail) % Size

FreeSize == Size - DataSize - 1

\* After UartInitialize: both threads are started.  buf holds no byte yet.
Init ==
  /\ is_running = TRUE
  /\ device = 0 /\ arrived = 0
  /\ cells = [c \in 0 .. Size - 1 |-> 0] /\ head = 0 /\ tail = 0
  /\ recv = [pc |-> "loop", read_len |-> 0, copied |-> 0]
  /\ parse = [pc |-> "loop", len |-> 0, copied |-> 0]
  /\ buf = [c \in 0 .. PARSE_MAX - 1 |-> 0]
  /\ written = 0 /\ parsed = 0

-----------------------------------------------------------------------------
\* The driver receives a byte from the line.
Arrive ==
  /\ arrived < MaxBytes /\ device < DeviceCap
  /\ device' = device + 1 /\ arrived' = arrived + 1
  /\ UNCHANGED <<is_running, ringVars, tail, recv, parse, buf, parsed>>

UartFinalize ==
  /\ is_running
  /\ is_running' = FALSE
  /\ UNCHANGED <<device, arrived, ringVars, tail, recv, parse, buf, parsed>>

-----------------------------------------------------------------------------
(* The receive thread. *)

RecvUnchanged == UNCHANGED <<is_running, arrived, tail, parse, buf, parsed>>

RecvGoto(pc) == recv' = [recv EXCEPT !.pc = pc]

\* Mutant of RecvLoop: the flag is not looked at again.
RecvLoopForever ==
  /\ recv.pc = "loop"
  /\ RecvGoto("select")
  /\ UNCHANGED <<device, ringVars>> /\ RecvUnchanged

RecvLoop ==
  /\ recv.pc = "loop"
  /\ RecvGoto(IF is_running THEN "select" ELSE "done")
  /\ UNCHANGED <<device, ringVars>> /\ RecvUnchanged

\* select() gives up after 100 ms with nothing to read.
RecvTimeout ==
  /\ recv.pc = "select" /\ device = 0
  /\ RecvGoto("loop")
  /\ UNCHANGED <<device, ringVars>> /\ RecvUnchanged

RecvRead ==
  /\ recv.pc = "select"
  /\ \E n \in 1 .. Smaller(device, READ_MAX) :
       /\ recv' = [pc |-> "check", read_len |-> n, copied |-> 0]
       /\ device' = device - n
  /\ UNCHANGED ringVars /\ RecvUnchanged

\* Mutant of RecvCheck: the chunk is written whatever the room.
RecvCheckNot ==
  /\ recv.pc = "check"
  /\ RecvGoto("write")
  /\ UNCHANGED <<device, ringVars>> /\ RecvUnchanged

\* A chunk the ring has no room for is thrown away ("uart ringbuf full").
RecvCheck ==
  /\ recv.pc = "check"
  /\ RecvGoto(IF FreeSize > recv.read_len THEN "write" ELSE "loop")
  /\ UNCHANGED <<device, ringVars>> /\ RecvUnchanged

\* RingBufferWrite looks at the room again and may refuse.
RecvWrite ==
  /\ recv.pc = "write"
  /\ RecvGoto(IF FreeSize < recv.read_len THEN "loop" ELSE "copy")
  /\ UNCHANGED <<device, ringVars>> /\ RecvUnchanged

RecvCopy ==
  /\ recv.pc = "copy" /\ recv.copied < recv.read_len
  /\ cells' = [cells EXCEPT ![(head + recv.copied) % Size] = written + recv.copied + 1]
  /\ recv' = [recv EXCEPT !.copied = recv.copied + 1]
  /\ UNCHANGED <<device, head, written>> /\ RecvUnchanged

\* Mutant of RecvPublish: head moves before the last byte is copied.
RecvPublishEarly ==
  /\ recv.pc = "copy" /\ recv.copied = recv.read_len - 1
  /\ head' = (head + recv.read_len) % Size
  /\ written' = written + recv.read_len
  /\ RecvGoto("loop")
  /\ UNCHANGED <<device, cells>> /\ RecvUnchanged

\* Mutant of RecvPublish: head is not wrapped around.
RecvPublishStraight ==
  /\ recv.pc = "copy" /\ recv.copied = recv.read_len
  /\ head' = head + recv.read_len
  /\ written' = written + recv.read_len
  /\ RecvGoto("loop")
  /\ UNCHANGED <<device, cells>> /\ RecvUnchanged

RecvPublish ==
  /\ recv.pc = "copy" /\ recv.copied = recv.read_len
  /\ head' = (head + recv.read_len) % Size
  /\ written' = written + recv.read_len
  /\ RecvGoto("loop")
  /\ UNCHANGED <<device, cells>> /\ RecvUnchanged

RecvStep ==
  RecvLoop \/ RecvTimeout \/ RecvRead \/ RecvCheck \/ RecvWrite \/ RecvCopy \/ RecvPublish

-----------------------------------------------------------------------------
(* The parse thread.  With nothing to read it sleeps 2 ms and goes on with *)
(* a length of 0.                                                          *)

ParseUnchanged == UNCHANGED <<is_running, device, arrived, ringVars, recv>>

ParseGoto(pc) == parse' = [parse EXCEPT !.pc = pc]

\* Mutant of ParseLoop: an empty ring ends the thread.
ParseLoopOnce ==
  /\ parse.pc = "loop"
  /\ parse' = IF is_running /\ DataSize > 0
                THEN [pc |-> "read", len |-> Smaller(DataSize, PARSE_MAX), copied |-> 0]
                ELSE [parse EXCEPT !.pc = "done"]
  /\ UNCHANGED <<tail, buf, parsed>> /\ ParseUnchanged

ParseLoop ==
  /\ parse.pc = "loop"
  /\ parse' = IF is_running
                THEN [pc |-> "read", len |-> Smaller(DataSize, PARSE_MAX), copied |-> 0]
                ELSE [parse EXCEPT !.pc = "done"]
  /\ UNCHANGED <<tail, buf, parsed>> /\ ParseUnchanged

\* RingBufferRead looks at the size again; when it refuses, the result is
\* ignored and buf is parsed as it is.
ParseRead ==
  /\ parse.pc = "read"
  /\ ParseGoto(IF DataSize < parse.len THEN "feed" ELSE "copy")
  /\ UNCHANGED <<tail, buf, parsed>> /\ ParseUnchanged

ParseCopy ==
  /\ parse.pc = "copy" /\ parse.copied < parse.len
  /\ buf' = [buf EXCEPT ![parse.copied] = cells[(tail + parse.copied) % Size]]
  /\ parse' = [parse EXCEPT !.copied = parse.copied + 1]
  /\ UNCHANGED <<tail, parsed>> /\ ParseUnchanged

\* Mutant of ParseRelease: all that is in the ring by now is released.
ParseReleaseAll ==
  /\ parse.pc = "copy" /\ parse.copied = parse.len
  /\ tail' = head
  /\ ParseGoto("feed")
  /\ UNCHANGED <<buf, parsed>> /\ ParseUnchanged

ParseRelease ==
  /\ parse.pc = "copy" /\ parse.copied = parse.len
  /\ tail' = (tail + parse.len) % Size
  /\ ParseGoto("feed")
  /\ UNCHANGED <<buf, parsed>> /\ ParseUnchanged

\* CommProtocolReceiveUartData
ParseFeed ==
  /\ parse.pc = "feed"
  /\ parsed' = parsed + parse.len
  /\ ParseGoto("loop")
  /\ UNCHANGED <<tail, buf>> /\ ParseUnchanged

ParseStep == ParseLoop \/ ParseRead \/ ParseCopy \/ ParseRelease \/ ParseFeed

-----------------------------------------------------------------------------
Next == Arrive \/ UartFinalize \/ RecvStep \/ ParseStep

Spec == Init /\ [][Next]_vars

\* Both are threads of the system's scheduler.
FairSpec == Spec /\ WF_vars(RecvStep) /\ WF_vars(ParseStep)

-----------------------------------------------------------------------------
(* The types of the variables. *)
TypeOK ==
  /\ is_running \in BOOLEAN
  /\ device \in 0 .. DeviceCap
  /\ arrived \in 0 .. MaxBytes
  /\ cells \in [0 .. Size - 1 -> Nat]
  /\ head \in 0 .. Size - 1
  /\ tail \in 0 .. Size - 1
  /\ recv \in [pc : {"loop", "select", "check", "write", "copy", "done"},
               read_len : 0 .. READ_MAX, copied : 0 .. READ_MAX]
  /\ parse \in [pc : {"loop", "read", "copy", "feed", "done"},
                len : 0 .. PARSE_MAX, copied : 0 .. PARSE_MAX]
  /\ buf \in [0 .. PARSE_MAX - 1 -> Nat]
  /\ written \in Nat
  /\ parsed \in Nat

(* The parser gets the bytes that entered the ring, each once and in their *)
(* order: no byte of a chunk that is still being copied, none overwritten  *)
(* by a chunk that came too early, none of a stale buffer.                 *)
ParsedInOrder ==
  parse.pc = "feed" =>
    \A i \in 0 .. parse.len - 1 : buf[i] = parsed + i + 1

(* No byte is lost in the ring: those that entered it are parsed, in the   *)
(* parse thread's hand, or still counted by RingBufferGetDataSize.         *)
NothingLost ==
  written = parsed + (IF parse.pc = "feed" THEN parse.len ELSE 0) + DataSize

(* What a thread saw of the other's index stays good enough: the room that *)
(* RingBufferGetFreeSize promised is there when RingBufferWrite looks and  *)
(* until the copy ends; the bytes RingBufferGetDataSize promised are there *)
(* when RingBufferRead looks, so the return codes both threads ignore are  *)
(* never -1.                                                               *)
ChecksStayTrue ==
  /\ recv.pc \in {"write", "copy"} => recv.read_len <= FreeSize
  /\ parse.pc \in {"read", "copy"} => parse.len <= DataSize

(* A byte that entered the ring is parsed, unless the UART is finalized.   *)
WrittenIsParsed ==
  \A n \in 1 .. MaxBytes : written = n ~> (parsed >= n \/ ~is_running)

(* UartFinalize ends both threads. *)
FinalizeStops == ~is_running ~> (recv.pc = "done" /\ parse.pc = "done")
=============================================================================
