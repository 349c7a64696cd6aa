------------------------------ MODULE UartComm ------------------------------
(***************************************************************************)
(* The reliable-transmission half of protocol/uni_communication.c, with    *)
(* the interruptible sleep of utils/uni_interruptable.c it waits on.       *)
(*                                                                         *)
(* Two ends of a UART run the same code.  On each end application threads  *)
(* call CommProtocolPacketAssembleAndSend, one at a time (the mutex        *)
(* app_send_sync_lock), and one parse thread consumes the frames of the    *)
(* other end.  The two kinds of thread share sequence, acked,              *)
(* current_acked_seq and the interrupt pipe with no lock: every shared     *)
(* access is a step of its own here.                                       *)
(***************************************************************************)
EXTENDS Integers, Sequences, FiniteSets

CONSTANTS
  Node,              \* the ends of the UART
  Peer,              \* Peer[n] is the end that n is wired to
  Thread,            \* the application threads that send
  Home,              \* Home[t] is the end thread t runs on
  NoThread,          \* the value of a free lock
  Modes,             \* values of CommAttribute.reliable the threads use
  SeqMod,            \* number of CommSequence values: 2^8 in the code
  TRY_RESEND_TIMES,  \* 5 in the code
  WireCap,           \* frames a direction of the UART holds; more are cut off
  HeaderDamage,      \* can line noise change the sequence and control bytes?
  Restartable,       \* ends whose process may restart
  MaxCalls,          \* bound: MaxCalls[n] calls are accepted on end n
  MaxFaults,         \* bound: frames lost or damaged on the line
  MaxRestarts        \* bound: restarts of one end

ASSUME TopologyAssumption ==
  /\ Peer \in [Node -> Node]
  /\ \A n \in Node : Peer[n] # n /\ Peer[Peer[n]] = n
  /\ Home \in [Thread -> Node]
  /\ NoThread \notin Thread

ASSUME ParameterAssumption ==
  /\ Modes \subseteq BOOLEAN
  /\ SeqMod \in Nat \ {0}
  /\ TRY_RESEND_TIMES \in Nat
  /\ WireCap \in Nat \ {0}
  /\ HeaderDamage \in BOOLEAN
  /\ Restartable \subseteq Node
  /\ MaxCalls \in [Node -> Nat]
  /\ MaxFaults \in Nat
  /\ MaxRestarts \in Nat

VARIABLES
  sequence,           \* g_comm_protocol_business.sequence of each end
  acked,              \* .acked
  current_acked_seq,  \* .current_acked_seq
  app_send_sync_lock, \* the thread that holds the mutex, or NoThread
  pipe,               \* bytes in the pipe of .interrupt_handle
  call,               \* locals of the sending threads
  rx,                 \* the parse thread of each end
  last_recv_packet_seq, \* static of _is_duplicate_frame
  wire,               \* wire[n]: frames written by n, not yet parsed
  log,                \* history: every call of n that took a sequence number
  delivered,          \* history: packets handed to on_recv_frame on n
  faults,             \* frames lost or damaged so far
  restarts            \* restarts of each end so far

senderVars   == <<sequence, app_send_sync_lock, call, log>>
ackVars      == <<acked, current_acked_seq>>
receiverVars == <<rx, last_recv_packet_seq, delivered>>
faultVars    == <<faults, restarts>>
vars == <<senderVars, ackVars, pipe, receiverVars, wire, faultVars>>

-----------------------------------------------------------------------------
(* Frames.  pkt names the packet carried (its position in the sender's     *)
(* log); 0 stands for cmd = 0 and an empty payload, the mark of an         *)
(* acknowledgement.  crc says which check of the receiver fails, if any:   *)
(* the CRC of the length field or the checksum of the whole frame.         *)

SeqNum == 0 .. SeqMod - 1
Bits   == {"ACK", "ACKED", "NACK"}
Frame  == [ctrl : SUBSET Bits, seq : SeqNum, pkt : Nat, crc : {"ok", "sum", "len"}]

DataFrame(c) == [ctrl |-> IF c.rel THEN {"ACK"} ELSE {}, seq |-> c.seq,
                 pkt |-> c.pkt, crc |-> "ok"]
AckFrame(s)  == [ctrl |-> {"ACKED"}, seq |-> s, pkt |-> 0, crc |-> "ok"]
NackFrame(s) == [ctrl |-> {"NACK"}, seq |-> s, pkt |-> 0, crc |-> "ok"]

IsAcked(f)  == f.pkt = 0 /\ "ACKED" \in f.ctrl
IsNacked(f) == f.pkt = 0 /\ "NACK" \in f.ctrl

\* on_write: the device is opened O_NDELAY and the result of write() is not
\* looked at, so what does not fit is cut off and never reaches the peer.
Put(w, f) == IF Len(w) < WireCap THEN Append(w, f) ELSE w

CurrentSeqIsNext(n) == sequence[n]      \* mutant of CurrentSeq: no - 1

\* The value _current_sequence_get returns: the number used last.
CurrentSeq(n) == (sequence[n] + SeqMod - 1) % SeqMod

NoCall == [pc |-> "idle", rel |-> FALSE, pkt |-> 0, seq |-> 0, left |-> 0]
IdleRx == [pc |-> "idle", frm |-> NackFrame(0)]

InitAckedSeq == (SeqMod - 1) \div 2     \* ((CommSequence)-1) >> 1

NoSeq == -1                             \* last_recv_packet_seq before any packet

Init ==
  /\ sequence = [n \in Node |-> 0]
  /\ acked = [n \in Node |-> FALSE]
  /\ current_acked_seq = [n \in Node |-> InitAckedSeq]
  /\ app_send_sync_lock = [n \in Node |-> NoThread]
  /\ pipe = [n \in Node |-> 0]
  /\ call = [t \in Thread |-> NoCall]
  /\ rx = [n \in Node |-> IdleRx]
  /\ last_recv_packet_seq = [n \in Node |-> NoSeq]
  /\ wire = [n \in Node |-> <<>>]
  /\ log = [n \in Node |-> <<>>]
  /\ delivered = [n \in Node |-> <<>>]
  /\ faults = 0
  /\ restarts = [n \in Node |-> 0]

-----------------------------------------------------------------------------
(* A sending thread.                                                       *)

Goto(t, pc) == call' = [call EXCEPT ![t].pc = pc]

Unnumbered(n) == {t \in Thread : Home[t] = n /\ call[t].pc \in {"lock", "assemble"}}

\* The application calls CommProtocolPacketAssembleAndSend.
Call(t) ==
  /\ call[t].pc = "idle"
  /\ Len(log[Home[t]]) + Cardinality(Unnumbered(Home[t])) < MaxCalls[Home[t]]
  /\ \E r \in Modes : call' = [call EXCEPT ![t] = [NoCall EXCEPT !.pc = "lock", !.rel = r]]
  /\ UNCHANGED <<sequence, app_send_sync_lock, log, ackVars, pipe, receiverVars, wire, faultVars>>

\* Mutant of Lock: no mutual exclusion of senders.
LockAnyway(t) ==
  /\ call[t].pc = "lock"
  /\ app_send_sync_lock' = [app_send_sync_lock EXCEPT ![Home[t]] = t]
  /\ Goto(t, "assemble")
  /\ UNCHANGED <<sequence, log, ackVars, pipe, receiverVars, wire, faultVars>>

Lock(t) ==
  /\ call[t].pc = "lock"
  /\ app_send_sync_lock[Home[t]] = NoThread
  /\ app_send_sync_lock' = [app_send_sync_lock EXCEPT ![Home[t]] = t]
  /\ Goto(t, "assemble")
  /\ UNCHANGED <<sequence, log, ackVars, pipe, receiverVars, wire, faultVars>>

\* The payload is too long or malloc fails: an error code, nothing changed.
Reject(t) ==
  /\ call[t].pc = "assemble"
  /\ Goto(t, "return")
  /\ UNCHANGED <<sequence, app_send_sync_lock, log, ackVars, pipe, receiverVars, wire, faultVars>>

\* _assmeble_packet: take the next sequence number.
Assemble(t) ==
  LET n == Home[t] IN
  /\ call[t].pc = "assemble"
  /\ sequence' = [sequence EXCEPT ![n] = (@ + 1) % SeqMod]
  /\ log' = [log EXCEPT ![n] = Append(@, [rel |-> call[t].rel, res |-> "pending"])]
  /\ call' = [call EXCEPT ![t].pc = IF call[t].rel THEN "unset" ELSE "write",
                          ![t].pkt = Len(log[n]) + 1,
                          ![t].seq = sequence[n],
                          ![t].left = TRY_RESEND_TIMES]
  /\ UNCHANGED <<app_send_sync_lock, ackVars, pipe, receiverVars, wire, faultVars>>

\* _unset_acked_sync_flag, before the first write of a reliable packet.
Unset(t) ==
  /\ call[t].pc = "unset"
  /\ acked' = [acked EXCEPT ![Home[t]] = FALSE]
  /\ Goto(t, "write")
  /\ UNCHANGED <<sequence, app_send_sync_lock, log, current_acked_seq, pipe, receiverVars, wire, faultVars>>

Verdict(t, r) == log' = [log EXCEPT ![Home[t]][call[t].pkt].res = r]

\* on_write under write_sync_lock: one frame, never interleaved with another.
\* An unreliable call is over once its frame is written.
Transmit(t) ==
  LET n == Home[t] IN
  /\ call[t].pc = "write"
  /\ wire' = [wire EXCEPT ![n] = Put(@, DataFrame(call[t]))]
  /\ \/ /\ call[t].rel
        /\ Goto(t, "wait")
        /\ UNCHANGED log
     \/ /\ ~call[t].rel
        /\ Goto(t, "return")
        /\ Verdict(t, "sent")
  /\ UNCHANGED <<sequence, app_send_sync_lock, ackVars, pipe, receiverVars, faultVars>>

PIPE_READ == 64     \* sizeof(t) in _interruptable_select

\* InterruptableSleep returns because the pipe is readable, and drains it.
Wake(t) ==
  LET n == Home[t] IN
  /\ call[t].pc = "wait"
  /\ pipe[n] > 0
  /\ pipe' = [pipe EXCEPT ![n] = IF @ > PIPE_READ THEN @ - PIPE_READ ELSE 0]
  /\ Goto(t, "check")
  /\ UNCHANGED <<sequence, app_send_sync_lock, log, ackVars, receiverVars, wire, faultVars>>

\* Mutant of Timeout: select without a timeout.
TimeoutNever(t) == Wake(t)

\* InterruptableSleep returns after WAIT_ACK_TIMEOUT_MSEC, pipe empty.
Timeout(t) ==
  /\ call[t].pc = "wait"
  /\ pipe[Home[t]] = 0
  /\ Goto(t, "check")
  /\ UNCHANGED <<sequence, app_send_sync_lock, log, ackVars, pipe, receiverVars, wire, faultVars>>

\* _wait_ack finds the flag set: the call succeeds.
CheckAcked(t) ==
  /\ call[t].pc = "check"
  /\ acked[Home[t]]
  /\ Verdict(t, "acked")
  /\ Goto(t, "return")
  /\ UNCHANGED <<sequence, app_send_sync_lock, ackVars, pipe, receiverVars, wire, faultVars>>

\* Mutant of CheckResend: resend_times >= 0.
CheckResendOnceMore(t) ==
  /\ call[t].pc = "check"
  /\ ~acked[Home[t]]
  /\ call' = [call EXCEPT ![t].pc = "write", ![t].left = @ - 1]
  /\ UNCHANGED <<sequence, app_send_sync_lock, log, ackVars, pipe, receiverVars, wire, faultVars>>

\* No acknowledgement and resend_times > 0: RESENDING.
CheckResend(t) ==
  /\ call[t].pc = "check"
  /\ ~acked[Home[t]]
  /\ call[t].left > 0
  /\ call' = [call EXCEPT ![t].pc = "write", ![t].left = @ - 1]
  /\ UNCHANGED <<sequence, app_send_sync_lock, log, ackVars, pipe, receiverVars, wire, faultVars>>

\* Mutant of CheckGiveUp: the result of _wait_ack is not passed on.
CheckGiveUpSilently(t) ==
  /\ call[t].pc = "check"
  /\ ~acked[Home[t]]
  /\ call[t].left = 0
  /\ Verdict(t, "acked")
  /\ Goto(t, "return")
  /\ UNCHANGED <<sequence, app_send_sync_lock, ackVars, pipe, receiverVars, wire, faultVars>>

\* No acknowledgement and no attempt left: E_UNI_COMM_PAYLOAD_ACK_TIMEOUT.
CheckGiveUp(t) ==
  /\ call[t].pc = "check"
  /\ ~acked[Home[t]]
  /\ call[t].left = 0
  /\ Verdict(t, "timeout")
  /\ Goto(t, "return")
  /\ UNCHANGED <<sequence, app_send_sync_lock, ackVars, pipe, receiverVars, wire, faultVars>>

\* The mutex is released and the result goes back to the caller.
Return(t) ==
  /\ call[t].pc = "return"
  /\ app_send_sync_lock' = [app_send_sync_lock EXCEPT ![Home[t]] = NoThread]
  /\ call' = [call EXCEPT ![t] = NoCall]
  /\ UNCHANGED <<sequence, log, ackVars, pipe, receiverVars, wire, faultVars>>

-----------------------------------------------------------------------------
(* The parse thread of end n: one frame of the peer at a time.             *)

Incoming(n) == Head(wire[Peer[n]])

\* A whole frame is there and the thread is free to process it.
FrameReady(n) == rx[n].pc = "idle" /\ wire[Peer[n]] # <<>>

Take(n)      == wire' = [wire EXCEPT ![Peer[n]] = Tail(@)]
Answer(n, f) == wire' = [wire EXCEPT ![Peer[n]] = Tail(@), ![n] = Put(@, f)]
RxGoto(n, pc) == rx' = [rx EXCEPT ![n] = [pc |-> pc, frm |-> Incoming(n)]]

\* The CRC of the length field fails: the frame is given up, a NACK is sent.
ReceiveBadLength(n) ==
  /\ FrameReady(n)
  /\ Incoming(n).crc = "len"
  /\ Answer(n, NackFrame(Incoming(n).seq))
  /\ UNCHANGED <<senderVars, ackVars, pipe, receiverVars, faultVars>>

LengthGood(n) == FrameReady(n) /\ Incoming(n).crc # "len"

\* Mutant of FirstAck: one sequence breaks as often as it is answered.
FirstAckEveryTime(n, f) == f.seq = CurrentSeq(n)

\* An acknowledgement of the number used last, and not acted upon before.
FirstAck(n, f) == f.seq = CurrentSeq(n) /\ f.seq # current_acked_seq[n]

\* _is_acked_packet, "one sequence can only break once".
ReceiveAcked(n) ==
  /\ LengthGood(n)
  /\ IsAcked(Incoming(n))
  /\ FirstAck(n, Incoming(n))
  /\ RxGoto(n, "set")
  /\ Take(n)
  /\ UNCHANGED <<senderVars, ackVars, pipe, last_recv_packet_seq, delivered, faultVars>>

ReceiveStaleAcked(n) ==
  /\ LengthGood(n)
  /\ IsAcked(Incoming(n))
  /\ ~FirstAck(n, Incoming(n))
  /\ Take(n)
  /\ UNCHANGED <<senderVars, ackVars, pipe, receiverVars, faultVars>>

\* Mutant of ReceiveNacked: any answer counts as an acknowledgement.
ReceiveNackedAsAcked(n) ==
  /\ LengthGood(n)
  /\ IsNacked(Incoming(n)) /\ FirstAck(n, Incoming(n))
  /\ RxGoto(n, "set")
  /\ Take(n)
  /\ UNCHANGED <<senderVars, ackVars, pipe, last_recv_packet_seq, delivered, faultVars>>

\* _is_nacked_packet: wake the sender, which finds no acknowledgement.
ReceiveNacked(n) ==
  /\ LengthGood(n)
  /\ ~IsAcked(Incoming(n)) /\ IsNacked(Incoming(n))
  /\ IF Incoming(n).seq = CurrentSeq(n)
        THEN RxGoto(n, "break")
        ELSE UNCHANGED rx
  /\ Take(n)
  /\ UNCHANGED <<senderVars, ackVars, pipe, last_recv_packet_seq, delivered, faultVars>>

IsData(f) == ~IsAcked(f) /\ ~IsNacked(f)

\* Mutant of ReceiveCorrupt: the answer goes out before the checksum is looked at.
ReceiveCorruptAcked(n) ==
  /\ LengthGood(n)
  /\ IsData(Incoming(n))
  /\ Incoming(n).crc = "sum"
  /\ Answer(n, AckFrame(Incoming(n).seq))
  /\ UNCHANGED <<senderVars, ackVars, pipe, receiverVars, faultVars>>

\* _packet_disassemble fails: the checksum is wrong.
ReceiveCorrupt(n) ==
  /\ LengthGood(n)
  /\ IsData(Incoming(n))
  /\ Incoming(n).crc = "sum"
  /\ Answer(n, NackFrame(Incoming(n).seq))
  /\ UNCHANGED <<senderVars, ackVars, pipe, receiverVars, faultVars>>

\* A good packet: _do_ack answers first, the application sees it after.
ReceiveData(n) ==
  /\ LengthGood(n)
  /\ IsData(Incoming(n))
  /\ Incoming(n).crc = "ok"
  /\ RxGoto(n, "deliver")
  /\ IF "ACK" \in Incoming(n).ctrl
        THEN Answer(n, AckFrame(Incoming(n).seq))
        ELSE Take(n)
  /\ UNCHANGED <<senderVars, ackVars, pipe, last_recv_packet_seq, delivered, faultVars>>

\* Mutant of SetAcked: the sleeping sender is not woken.
SetAckedOnly(n) ==
  /\ rx[n].pc = "set"
  /\ acked' = [acked EXCEPT ![n] = TRUE]
  /\ current_acked_seq' = [current_acked_seq EXCEPT ![n] = rx[n].frm.seq]
  /\ rx' = [rx EXCEPT ![n] = IdleRx]
  /\ UNCHANGED <<senderVars, pipe, last_recv_packet_seq, delivered, wire, faultVars>>

\* _set_acked_sync_flag and _set_current_acked_seq (only this thread reads
\* the latter, so the two stores are one step).
SetAcked(n) ==
  /\ rx[n].pc = "set"
  /\ acked' = [acked EXCEPT ![n] = TRUE]
  /\ current_acked_seq' = [current_acked_seq EXCEPT ![n] = rx[n].frm.seq]
  /\ rx' = [rx EXCEPT ![n].pc = "break"]
  /\ UNCHANGED <<senderVars, pipe, last_recv_packet_seq, delivered, wire, faultVars>>

\* InterruptableBreak writes one byte to the pipe.
Break(n) ==
  /\ rx[n].pc = "break"
  /\ pipe' = [pipe EXCEPT ![n] = @ + 1]
  /\ rx' = [rx EXCEPT ![n] = IdleRx]
  /\ UNCHANGED <<senderVars, ackVars, last_recv_packet_seq, delivered, wire, faultVars>>

IsDuplicateNever(n) == FALSE            \* mutant of IsDuplicate
IsDuplicate(n) == last_recv_packet_seq[n] = rx[n].frm.seq

\* _is_duplicate_frame, then on_recv_frame unless it is one.
Deliver(n) ==
  /\ rx[n].pc = "deliver"
  /\ last_recv_packet_seq' = [last_recv_packet_seq EXCEPT ![n] = rx[n].frm.seq]
  /\ delivered' = IF IsDuplicate(n) THEN delivered
                  ELSE [delivered EXCEPT ![n] = Append(@, rx[n].frm.pkt)]
  /\ rx' = [rx EXCEPT ![n] = IdleRx]
  /\ UNCHANGED <<senderVars, ackVars, pipe, wire, faultVars>>

-----------------------------------------------------------------------------
(* The line, and processes that stop and start again.                      *)

Fault == faults < MaxFaults /\ faults' = faults + 1

\* A frame is lost as a whole.
Lose(n) ==
  /\ Fault
  /\ wire[n] # <<>>
  /\ wire' = [wire EXCEPT ![n] = Tail(@)]
  /\ UNCHANGED <<senderVars, ackVars, pipe, receiverVars, restarts>>

\* Noise in a frame; a CRC detects it, if the receiver looks at that CRC.
Noisy(f, c, s, b) == [f EXCEPT !.crc = c, !.seq = s, !.ctrl = b]

Damage(n) ==
  LET f == Head(wire[n]) IN
  /\ Fault
  /\ wire[n] # <<>>
  /\ f.crc = "ok"
  /\ \E c \in {"sum", "len"}, s \in SeqNum, b \in SUBSET Bits :
       /\ (HeaderDamage /\ c = "sum") \/ (s = f.seq /\ b = f.ctrl)
       /\ wire' = [wire EXCEPT ![n] = <<Noisy(f, c, s, b)>> \o Tail(@)]
  /\ UNCHANGED <<senderVars, ackVars, pipe, receiverVars, restarts>>

\* The process of end n stops and is started again: CommProtocolInit, statics
\* initialised, and tcflush discards what the device has received by then;
\* what is still on its way arrives later.
Restart(n) ==
  /\ n \in Restartable
  /\ restarts[n] < MaxRestarts
  /\ restarts' = [restarts EXCEPT ![n] = @ + 1]
  /\ sequence' = [sequence EXCEPT ![n] = 0]
  /\ acked' = [acked EXCEPT ![n] = FALSE]
  /\ current_acked_seq' = [current_acked_seq EXCEPT ![n] = InitAckedSeq]
  /\ app_send_sync_lock' = [app_send_sync_lock EXCEPT ![n] = NoThread]
  /\ pipe' = [pipe EXCEPT ![n] = 0]
  /\ call' = [t \in Thread |-> IF Home[t] = n THEN NoCall ELSE call[t]]
  /\ rx' = [rx EXCEPT ![n] = IdleRx]
  /\ last_recv_packet_seq' = [last_recv_packet_seq EXCEPT ![n] = NoSeq]
  /\ \E k \in 0 .. Len(wire[Peer[n]]) :
       wire' = [wire EXCEPT ![Peer[n]] = SubSeq(@, k + 1, Len(@))]
  /\ log' = [log EXCEPT ![n] = [i \in 1 .. Len(@) |->
                IF @[i].res = "pending" THEN [@[i] EXCEPT !.res = "crashed"] ELSE @[i]]]
  /\ UNCHANGED <<delivered, faults>>

-----------------------------------------------------------------------------
Write(t) == Unset(t) \/ Transmit(t)
Wait(t)  == Wake(t) \/ Timeout(t)
Check(t) == CheckAcked(t) \/ CheckResend(t) \/ CheckGiveUp(t)

\* The steps of a thread once its call is accepted.
ThreadStep(t) ==
  Lock(t) \/ Reject(t) \/ Assemble(t) \/ Write(t) \/ Wait(t) \/ Check(t) \/ Return(t)

ParseStep(n) ==
  \/ ReceiveBadLength(n) \/ ReceiveAcked(n) \/ ReceiveStaleAcked(n)
  \/ ReceiveNacked(n) \/ ReceiveCorrupt(n) \/ ReceiveData(n)
  \/ SetAcked(n) \/ Break(n) \/ Deliver(n)

Environment(n) == Lose(n) \/ Damage(n) \/ Restart(n)

Next ==
  \/ \E t \in Thread : Call(t) \/ ThreadStep(t)
  \/ \E n \in Node : ParseStep(n) \/ Environment(n)

Spec == Init /\ [][Next]_vars

\* Every thread is scheduled again and again (weak fairness); nothing is owed
\* by callers or by the line, and a waiter of the mutex may lose every race
\* for it, as pthread_mutex_lock allows.
FairSpec ==
  /\ Spec
  /\ \A t \in Thread : WF_vars(ThreadStep(t))
  /\ \A n \in Node : WF_vars(ParseStep(n))

-----------------------------------------------------------------------------
(* Properties.                                                             *)

CallPC  == {"idle", "lock", "assemble", "unset", "write", "wait", "check", "return"}
Result  == {"pending", "acked", "timeout", "sent", "crashed"}
CallRec == [pc : CallPC, rel : BOOLEAN, pkt : Nat, seq : SeqNum, left : 0 .. TRY_RESEND_TIMES]
RxRec   == [pc : {"idle", "set", "break", "deliver"}, frm : Frame]

\* The types of the variables.
TypeOK ==
  /\ sequence \in [Node -> SeqNum]
  /\ acked \in [Node -> BOOLEAN]
  /\ current_acked_seq \in [Node -> SeqNum]
  /\ app_send_sync_lock \in [Node -> Thread \cup {NoThread}]
  /\ pipe \in [Node -> Nat]
  /\ call \in [Thread -> CallRec]
  /\ rx \in [Node -> RxRec]
  /\ last_recv_packet_seq \in [Node -> SeqNum \cup {NoSeq}]
  /\ wire \in [Node -> Seq(Frame)]
  /\ log \in [Node -> Seq([rel : BOOLEAN, res : Result])]
  /\ delivered \in [Node -> Seq(Nat)]
  /\ faults \in Nat
  /\ restarts \in [Node -> Nat]

\* An application never sees a packet twice nor out of the order of sending,
\* whatever is lost, damaged, retransmitted or restarted at the other end:
\* what app_send_sync_lock ("avoid app send concurrency, out of sequence")
\* and _is_duplicate_frame are for.  Only its own restart forgets.
InOrderOnce ==
  \A n \in Node : restarts[n] = 0 =>
    \A i, j \in 1 .. Len(delivered[n]) : i < j => delivered[n][i] < delivered[n][j]

\* Packet p of end n has reached the application of the peer, or is in the
\* hands of the peer's parse thread, which has answered it and not yet
\* called on_recv_frame.
Received(n, p) ==
  LET m == Peer[n] IN
  \/ \E i \in 1 .. Len(delivered[m]) : delivered[m][i] = p
  \/ rx[m].pc = "deliver" /\ rx[m].frm.pkt = p

Acked(n, p)         == log[n][p].res = "acked"
EarlierTimeout(n, p) == \E q \in 1 .. p - 1 : log[n][q].res \in {"timeout", "crashed"}

\* CommAttribute.reliable, "reliable transmission": a call that returned 0
\* has reached the other application.
ReliableTransmission ==
  \A n \in Node : \A p \in 1 .. Len(log[n]) : Acked(n, p) => Received(n, p)

\* The same as long as no earlier call of that end gave up: only then may
\* an acknowledgement that comes too late be taken for the next packet's.
AckedIsReceived ==
  \A n \in Node : \A p \in 1 .. Len(log[n]) :
    Acked(n, p) /\ ~EarlierTimeout(n, p) => Received(n, p)

\* A sender that sleeps although its packet is acknowledged is about to be
\* woken: the flag is stored before the pipe is written, so draining the
\* pipe for an older byte never swallows the only wake-up.
NoLostWakeup ==
  \A t \in Thread : LET n == Home[t] IN
    call[t].pc = "wait" /\ acked[n] => pipe[n] > 0 \/ rx[n].pc = "break"

\* Thread t is between the first write and the verdict of a reliable packet.
AwaitsAck(t) == call[t].rel /\ call[t].pc \in {"write", "wait", "check"}

\* The first intact acknowledgement of the packet that is being sent is
\* acted upon: it is not mistaken for one that "can only break once".
AckHonoured ==
  [][\A t \in Thread : LET n == Home[t] IN
       /\ AwaitsAck(t) /\ ~acked[n]
       /\ FrameReady(n) /\ Incoming(n).crc = "ok" /\ IsAcked(Incoming(n))
       /\ Incoming(n).seq = call[t].seq
       /\ ReceiveAcked(n) \/ ReceiveStaleAcked(n)
       => rx'[n].pc = "set"]_vars

\* The packets of n that count as received by the other application: those
\* it was called with and the one it is about to be called with.
ReceivedOf(n) ==
  LET m == Peer[n] IN
  IF rx[m].pc = "deliver" /\ last_recv_packet_seq[m] # rx[m].frm.seq
    THEN Append(delivered[m], rx[m].frm.pkt)
    ELSE delivered[m]

\* The two ends together keep the promises of CommService.
Service == INSTANCE CommService WITH received <- [n \in Node |-> ReceivedOf(n)]
ServiceSpec == Service!Spec

\* A call that has got the mutex gives it back: the retries are bounded, and
\* neither a lost answer nor a missed wake-up keeps it from returning.
EveryCallReturns ==
  \A t \in Thread : call[t].pc \notin {"idle", "lock"} ~> call[t].pc = "idle"

\* What reliable means to the caller, whatever is lost, damaged or cut off
\* by a full driver: a reliable packet reaches the other application in the
\* end, or its call (or an earlier one, whose late acknowledgement it may
\* then take for its own) has reported a failure.  Restarts are left out,
\* and packets whose number comes round again: after SeqMod - 1 unreliable
\* packets that nobody saw, the next looks like a repetition of the last.
DeliveredOrReported ==
  \A n \in Node : \A p \in 1 .. MaxCalls[n] :
    (p <= SeqMod /\ p <= Len(log[n]) /\ log[n][p].rel) ~>
      \/ \E i \in 1 .. Len(delivered[Peer[n]]) : delivered[Peer[n]][i] = p
      \/ \E q \in 1 .. Len(log[n]) : q <= p /\ log[n][q].res = "timeout"
      \/ \E m \in Node : restarts[m] > 0
=============================================================================
