------------------------------ MODULE UartCli ------------------------------
(***************************************************************************)
(* The program uart-cli: main.c with the channel (channel/uni_channel.c),  *)
(* its services and the protocol below them.  main() starts the threads of *)
(* the UART, the first event list, the protocol and the channel, in this   *)
(* order, while packets may already arrive; then it sends commands.        *)
(*                                                                         *)
(* A packet is handed from the parse thread to the first event list, from  *)
(* its worker ("relay") to the channel's list, and from that one's worker  *)
(* ("worker") to a service, which answers from within its handler: it      *)
(* waits for acknowledgements there, which the parse thread has to read.   *)
(*                                                                         *)
(* The other end of the line ("peer") runs the same protocol.  UartComm    *)
(* has the protocol's own races; here an attempt does not time out while   *)
(* the frame or its answer is still on its way.                            *)
(***************************************************************************)
EXTENDS Integers, Sequences

CONSTANTS
  Kinds,             \* the kinds of packets that the peer sends
  TRY_RESEND_TIMES,  \* 5 in the code
  MaxRequests,       \* bound: packets that the peer sends
  MaxCommands,       \* bound: commands that are typed
  MaxFaults          \* bound: frames that are lost

\* net: a call for the network helper.  start (resume is alike) and stop (so
\* are pause and volume): audio control.  other: a packet that is logged,
\* appended to asr.pcm or not known, and that no service answers.
Kind == {"net", "start", "stop", "other"}

ASSUME KindAssumption == Kinds \subseteq Kind
ASSUME BoundAssumption ==
  /\ TRY_RESEND_TIMES \in Nat
  /\ MaxRequests \in Nat /\ MaxCommands \in Nat /\ MaxFaults \in Nat

Sender == {"main", "worker"}   \* the threads that send packets
None   == "none"               \* the holder of a free lock

VARIABLES
  process,     \* whether the process runs, and how it has ended
  boot,        \* how far main() is
  ready,       \* what has been created or registered
  buf,         \* protocol_buffer is not NULL
  parse,       \* the parse thread and the frame it stores
  last,        \* last_recv_packet_seq, as the number of a packet; 0 for none
  list1,       \* g_event_list of main.c
  relay,       \* the packet its worker holds, or 0
  list2,       \* g_channel.event_handle
  worker,      \* the worker of list2, with the answers it has yet to send
  file,        \* g_file_name, as the request that it was copied from; 0 at first
  app_lock,    \* the thread that holds app_send_sync_lock
  acked,
  call,        \* calls of CommProtocolPacketAssembleAndSend
  to_cli,      \* frames on their way from the peer
  to_peer,     \* frames on their way to the peer
  peer,        \* the peer's sending thread
  requests,    \* history: the packets of the peer, numbered from 1
  sent,        \* history: the packets of this end, numbered from 1
  got,         \* history: packets given to the peer's application
  handled,     \* history: packets whose handler has returned
  commands,    \* commands so far
  faults       \* frames lost so far

bootVars  == <<process, boot, ready>>
rxVars    == <<buf, parse, last>>
queueVars == <<list1, relay, list2>>
workVars  == <<worker, file, handled>>
sendVars  == <<app_lock, acked, call, sent>>
peerVars  == <<peer, requests, got>>
lineVars  == <<to_cli, to_peer>>
countVars == <<commands, faults>>
vars == <<bootVars, rxVars, queueVars, workVars, sendVars, peerVars, lineVars, countVars>>

Packet(i) == [what |-> "packet", id |-> i]
Ack(i)    == [what |-> "ack", id |-> i]
Nack(i)   == [what |-> "nack", id |-> i]

Resting == [pc |-> "idle", frm |-> Nack(0), more |-> FALSE, torn |-> FALSE]
NoCall  == [pc |-> "idle", re |-> 0, part |-> "command", file |-> 0, left |-> 0]

Init ==
  /\ process = "running" /\ boot = "uart" /\ ready = {}
  /\ buf = FALSE /\ parse = Resting /\ last = 0
  /\ list1 = <<>> /\ relay = 0 /\ list2 = <<>>
  /\ worker = [pc |-> "rest", item |-> 0, todo |-> <<>>]
  /\ file = 0 /\ handled = <<>>
  /\ app_lock = None /\ acked = FALSE
  /\ call = [t \in Sender |-> NoCall] /\ sent = <<>>
  /\ peer = [pc |-> "rest", left |-> 0] /\ requests = <<>> /\ got = <<>>
  /\ to_cli = <<>> /\ to_peer = <<>>
  /\ commands = 0 /\ faults = 0

Crash == process' = "crashed"

-----------------------------------------------------------------------------
(* main(), until it reads commands.                                        *)

Step(from, to, what) ==
  /\ boot = from
  /\ boot' = to
  /\ ready' = ready \cup what
  /\ UNCHANGED process

BootUnchanged == UNCHANGED <<last, queueVars, workVars, sendVars, peerVars, lineVars, countVars>>

\* The device is opened and both threads are started.
UartInitialize == Step("uart", "list", {"uart"}) /\ UNCHANGED <<buf, parse>> /\ BootUnchanged

\* The device cannot be opened or configured, or there is no memory for the
\* list: main returns -1.
StartFails ==
  /\ boot \in {"uart", "list"}
  /\ process' = "exited"
  /\ UNCHANGED <<boot, ready, buf, parse>> /\ BootUnchanged

\* Mutant of CreateList: main() does not look at the handle either.
CreateListUnchecked ==
  \E made \in BOOLEAN :
    /\ Step("list", "zero", IF made THEN {"list"} ELSE {})
    /\ UNCHANGED <<buf, parse>> /\ BootUnchanged

\* EventListCreate for g_event_list.
CreateList == Step("list", "zero", {"list"}) /\ UNCHANGED <<buf, parse>> /\ BootUnchanged

\* _protocol_business_init zeroes the structure, and with it the pointer to
\* a buffer that the parse thread may be filling; the parser's own position
\* in the frame is static and stays.  A frame is stored in up to two parts.
ProtocolBusinessInit ==
  /\ Step("zero", "register", {})
  /\ buf' = FALSE
  /\ parse' = [parse EXCEPT !.torn = parse.pc \in {"store", "between"}]
  /\ BootUnchanged

\* on_write and on_recv_frame are registered.
RegisterHandlers ==
  Step("register", "channel", {"protocol"}) /\ UNCHANGED <<buf, parse>> /\ BootUnchanged

\* EventListCreate for g_channel.
ChnlInit == Step("channel", "up", {"channel"}) /\ UNCHANGED <<buf, parse>> /\ BootUnchanged

\* ... finds no memory.  ChnlInit does not look at the handle and returns 0,
\* and main() goes on to read commands.
ChnlInitFails == Step("channel", "up", {}) /\ UNCHANGED <<buf, parse>> /\ BootUnchanged

Boot ==
  \/ UartInitialize \/ CreateList \/ ProtocolBusinessInit
  \/ RegisterHandlers \/ ChnlInit \/ ChnlInitFails

\* A line is typed: one packet is sent.  (--help sends none, and --quit is
\* the end of all threads, wherever they are.)
Command ==
  /\ boot = "up" /\ call["main"].pc = "idle"
  /\ commands < MaxCommands
  /\ commands' = commands + 1
  /\ call' = [call EXCEPT !["main"].pc = "lock"]
  /\ UNCHANGED <<bootVars, rxVars, queueVars, workVars, app_lock, acked, sent,
                 peerVars, lineVars, faults>>

-----------------------------------------------------------------------------
(* CommProtocolPacketAssembleAndSend, of a reliable packet.                *)

SendUnchanged ==
  UNCHANGED <<bootVars, rxVars, queueVars, workVars, peerVars, to_cli, countVars>>

\* app_send_sync_lock is taken, the packet gets its number and acked is
\* cleared.
Begin(t) ==
  /\ call[t].pc = "lock"
  /\ app_lock = None
  /\ app_lock' = t
  /\ sent' = Append(sent, [by |-> t, re |-> call[t].re, part |-> call[t].part,
                           file |-> call[t].file, res |-> "pending"])
  /\ acked' = FALSE
  /\ call' = [call EXCEPT ![t].pc = "write", ![t].left = TRY_RESEND_TIMES]
  /\ UNCHANGED to_peer /\ SendUnchanged

\* on_write does not wait, so that write_sync_lock is free again at once.
Write(t) ==
  /\ call[t].pc = "write"
  /\ to_peer' = Append(to_peer, Packet(Len(sent)))
  /\ call' = [call EXCEPT ![t].pc = "wait"]
  /\ UNCHANGED <<app_lock, acked, sent>> /\ SendUnchanged

\* Mutant of Return: the mutex is released on success only.
ReturnLocked(t, r) ==
  /\ sent' = [sent EXCEPT ![Len(sent)].res = r]
  /\ app_lock' = IF r = "acked" THEN None ELSE app_lock
  /\ call' = [call EXCEPT ![t] = NoCall]
  /\ UNCHANGED <<acked, to_peer>> /\ SendUnchanged

\* The call returns: its result is known and the mutex is released.
Return(t, r) ==
  /\ sent' = [sent EXCEPT ![Len(sent)].res = r]
  /\ app_lock' = None
  /\ call' = [call EXCEPT ![t] = NoCall]
  /\ UNCHANGED <<acked, to_peer>> /\ SendUnchanged

Acked(t) == call[t].pc = "wait" /\ acked /\ Return(t, "acked")

Among(f, s) == \E i \in 1 .. Len(s) : s[i] = f

\* Packet n, or the answer to it, is still on its way.
Coming(n) ==
  Among(Packet(n), to_peer) \/ Among(Ack(n), to_cli) \/ (parse.pc # "idle" /\ parse.frm = Ack(n))

Unanswered(t) == call[t].pc = "wait" /\ ~acked /\ ~Coming(Len(sent))

Resend(t) ==
  /\ Unanswered(t)
  /\ call[t].left > 0
  /\ call' = [call EXCEPT ![t].pc = "write", ![t].left = @ - 1]
  /\ UNCHANGED <<app_lock, acked, sent, to_peer>> /\ SendUnchanged

GiveUp(t) == Unanswered(t) /\ call[t].left = 0 /\ Return(t, "timeout")

SenderStep(t) ==
  \/ Begin(t) \/ Write(t)
  \/ Acked(t) \/ Resend(t) \/ GiveUp(t)

-----------------------------------------------------------------------------
(* The parse thread.                                                       *)

ParseUnchanged == UNCHANGED <<boot, ready, relay, list2, workVars, peerVars, countVars>>

\* The parse thread starts on a frame: the buffer is there from now on.
StartFrame(pc, more) ==
  /\ "uart" \in ready
  /\ parse.pc = "idle" /\ to_cli # <<>>
  /\ parse' = [pc |-> pc, frm |-> Head(to_cli), more |-> more, torn |-> FALSE]
  /\ buf' = TRUE
  /\ to_cli' = Tail(to_cli)
  /\ UNCHANGED <<process, last, list1, sendVars, to_peer>> /\ ParseUnchanged

\* Until ProtocolBusinessInit is over it matters when the bytes are stored.
FirstByte == boot \in {"list", "zero"} /\ \E more \in BOOLEAN : StartFrame("store", more)

ReadFrame == boot \notin {"list", "zero"} /\ StartFrame("whole", FALSE)

\* The bytes are stored.
Store ==
  /\ parse.pc = "store" /\ buf
  /\ parse' = [parse EXCEPT !.pc = IF parse.more THEN "between" ELSE "stored"]
  /\ UNCHANGED <<process, buf, last, list1, sendVars, lineVars>> /\ ParseUnchanged

\* ... to a buffer that ProtocolBusinessInit has taken away in between.
StoreCrashes ==
  /\ parse.pc = "store" /\ ~buf
  /\ Crash
  /\ UNCHANGED <<rxVars, list1, sendVars, lineVars>> /\ ParseUnchanged

\* The rest of the frame arrives: _protocol_buffer_alloc before each byte.
NextByte ==
  /\ parse.pc = "between"
  /\ buf' = TRUE
  /\ parse' = [parse EXCEPT !.pc = "store", !.more = FALSE]
  /\ UNCHANGED <<process, last, list1, sendVars, lineVars>> /\ ParseUnchanged

\* After the last byte the pointer is read again and handed on: it is NULL
\* if ProtocolBusinessInit came in between.
HandOver ==
  /\ parse.pc = "stored"
  /\ parse' = [parse EXCEPT !.pc = IF buf THEN "whole" ELSE "null"]
  /\ UNCHANGED <<process, buf, last, list1, sendVars, lineVars>> /\ ParseUnchanged

FrameDone == parse' = Resting

\* "when application not register hook, ignore all"
Ignore ==
  /\ parse.pc \in {"whole", "null"} /\ "protocol" \notin ready
  /\ FrameDone
  /\ UNCHANGED <<process, buf, last, list1, sendVars, lineVars>> /\ ParseUnchanged

Process == parse.pc = "whole" /\ "protocol" \in ready

\* An acknowledgement of the packet sent last.  One that was acted upon
\* already is passed over by the code (current_acked_seq); here acked is
\* still set then, as it is cleared with the next number only.
ProcessAck ==
  /\ Process /\ ~parse.torn /\ parse.frm.what = "ack"
  /\ acked' = (acked \/ parse.frm.id = Len(sent))
  /\ FrameDone
  /\ UNCHANGED <<process, buf, last, list1, app_lock, call, sent, lineVars>>
  /\ ParseUnchanged

\* A good packet is acknowledged before anything else is done with it.
ProcessPacket ==
  /\ Process /\ ~parse.torn /\ parse.frm.what = "packet"
  /\ to_peer' = Append(to_peer, Ack(parse.frm.id))
  /\ parse' = [parse EXCEPT !.pc = "deliver"]
  /\ UNCHANGED <<process, buf, last, list1, sendVars, to_cli>> /\ ParseUnchanged

\* A frame whose beginning is in the lost buffer: the checksum is wrong, and
\* the number that the NACK names is whatever the new buffer holds.
ProcessTorn ==
  /\ Process /\ parse.torn
  /\ \E i \in 0 .. Len(requests) : to_peer' = Append(to_peer, Nack(i))
  /\ FrameDone
  /\ UNCHANGED <<process, buf, last, list1, sendVars, to_cli>> /\ ParseUnchanged

\* So is its length, which the checksum is taken over; and of a frame that
\* was handed on as NULL everything is missing.
ProcessTornCrashes ==
  /\ "protocol" \in ready
  /\ (parse.pc = "whole" /\ parse.torn) \/ parse.pc = "null"
  /\ Crash
  /\ UNCHANGED <<rxVars, list1, sendVars, lineVars>> /\ ParseUnchanged

\* Mutants of IsDuplicate: no comparison; last is assigned before it.
IsDuplicateNever(id)  == FALSE
IsDuplicateAlways(id) == TRUE

IsDuplicate(id) == last = id

\* on_recv_frame copies the packet into g_event_list, unless that is NULL.
Deliver ==
  /\ parse.pc = "deliver"
  /\ process' = IF "list" \in ready \/ IsDuplicate(parse.frm.id) THEN process ELSE "crashed"
  /\ last' = parse.frm.id
  /\ list1' = IF IsDuplicate(parse.frm.id) THEN list1 ELSE Append(list1, parse.frm.id)
  /\ FrameDone
  /\ UNCHANGED <<buf, sendVars, lineVars>> /\ ParseUnchanged

Parse ==
  \/ FirstByte \/ ReadFrame \/ Store \/ StoreCrashes \/ NextByte \/ HandOver
  \/ Ignore \/ ProcessAck \/ ProcessPacket \/ ProcessTorn \/ ProcessTornCrashes
  \/ Deliver

-----------------------------------------------------------------------------
(* The worker of g_event_list.                                             *)

RelayUnchanged == UNCHANGED <<boot, ready, rxVars, workVars, sendVars, peerVars, lineVars, countVars>>

RelayTake ==
  /\ relay = 0 /\ list1 # <<>>
  /\ relay' = Head(list1) /\ list1' = Tail(list1)
  /\ UNCHANGED <<process, list2>> /\ RelayUnchanged

\* ChnlReceiveCommProtocolPacket: EventListAdd.
RelayPass ==
  /\ relay # 0 /\ "channel" \in ready
  /\ list2' = Append(list2, relay) /\ relay' = 0
  /\ UNCHANGED <<process, list1>> /\ RelayUnchanged

\* ... to a list that ChnlInit has not created yet, or could not create.
RelayCrashes ==
  /\ relay # 0 /\ "channel" \notin ready
  /\ Crash
  /\ UNCHANGED queueVars /\ RelayUnchanged

Relay == RelayTake \/ RelayPass \/ RelayCrashes

-----------------------------------------------------------------------------
(* The worker of the channel: the packet is offered to the network helper, *)
(* then to the ASR business, then to audio control, which takes the rest.  *)

WorkUnchanged ==
  UNCHANGED <<bootVars, rxVars, list1, relay, app_lock, acked, sent,
              peerVars, lineVars, countVars>>

Handle(item, pc, todo) == worker' = [pc |-> pc, item |-> item, todo |-> todo]

\* A call for the network helper is carried out, then answered.
NetHelper(item) ==
  /\ requests[item].kind = "net"
  /\ Handle(item, "syscall", <<"answer">>)
  /\ UNCHANGED file

\* Results and recorded audio are written down; nothing is answered.
AsrBusiness(item) ==
  /\ requests[item].kind = "other"
  /\ Handle(item, "reply", <<>>)
  /\ UNCHANGED file

\* Mutant of Answers: the end is reported before the start is answered.
AnswersSwapped(k) == [start |-> <<"end", "ack">>, stop |-> <<"ack">>][k]

\* A start is answered and its end reported at once: there is no player.
Answers(k) == [start |-> <<"ack", "end">>, stop |-> <<"ack">>][k]

AudioControl(item) ==
  LET k == requests[item].kind IN
  /\ k \in {"start", "stop"}
  /\ Handle(item, "reply", Answers(k))
  /\ file' = IF k = "start" THEN item ELSE file

\* The item is offered to the services; each knows its own commands.
WorkerTake ==
  /\ worker.pc = "rest" /\ list2 # <<>>
  /\ list2' = Tail(list2)
  /\ LET item == Head(list2) IN NetHelper(item) \/ AsrBusiness(item) \/ AudioControl(item)
  /\ UNCHANGED <<call, handled>> /\ WorkUnchanged

\* recv, select or connect returns, if it ever does.
SyscallReturns ==
  /\ worker.pc = "syscall"
  /\ worker' = [worker EXCEPT !.pc = "reply"]
  /\ UNCHANGED <<list2, call, file, handled>> /\ WorkUnchanged

Free == worker.pc = "reply" /\ call["worker"].pc = "idle"

\* The next answer of the handler.  The file it names (if it is the end of a
\* start) is copied before the packet waits for its turn to be sent.
Reply ==
  /\ Free /\ worker.todo # <<>>
  /\ call' = [call EXCEPT !["worker"] =
                 [pc |-> "lock", re |-> worker.item, part |-> Head(worker.todo),
                  file |-> file, left |-> 0]]
  /\ worker' = [worker EXCEPT !.todo = Tail(@)]
  /\ UNCHANGED <<list2, file, handled>> /\ WorkUnchanged

HandlerReturns ==
  /\ Free /\ worker.todo = <<>>
  /\ handled' = Append(handled, worker.item)
  /\ worker' = [worker EXCEPT !.pc = "rest", !.item = 0]
  /\ UNCHANGED <<list2, call, file>> /\ WorkUnchanged

Work == WorkerTake \/ Reply \/ HandlerReturns

-----------------------------------------------------------------------------
(* The peer, by what it has in common with this end: one reliable packet   *)
(* at a time, packets acknowledged and given to the application once.      *)

PeerUnchanged ==
  UNCHANGED <<bootVars, rxVars, queueVars, workVars, sendVars, commands>>

\* A frame of the peer; UartInitialize flushes what came before it.
ToCli(f) == to_cli' = IF "uart" \in ready THEN Append(to_cli, f) ELSE to_cli

PeerSend ==
  /\ peer.pc = "rest" /\ Len(requests) < MaxRequests
  /\ \E k \in Kinds : requests' = Append(requests, [kind |-> k, res |-> "pending"])
  /\ peer' = [pc |-> "wait", left |-> TRY_RESEND_TIMES]
  /\ ToCli(Packet(Len(requests) + 1))
  /\ UNCHANGED <<got, to_peer, faults>> /\ PeerUnchanged

PeerReturn(r) ==
  /\ requests' = [requests EXCEPT ![Len(requests)].res = r]
  /\ peer' = [pc |-> "rest", left |-> 0]

PeerTake(what) ==
  /\ to_peer # <<>> /\ Head(to_peer).what = what
  /\ to_peer' = Tail(to_peer)
  /\ UNCHANGED faults /\ PeerUnchanged

PeerReceiveAck ==
  /\ PeerTake("ack")
  /\ IF peer.pc = "wait" /\ Head(to_peer).id = Len(requests)
       THEN PeerReturn("acked")
       ELSE UNCHANGED <<peer, requests>>
  /\ UNCHANGED <<got, to_cli>>

\* What follows is PeerResend or PeerGiveUp.
PeerReceiveNack == PeerTake("nack") /\ UNCHANGED <<peer, requests, got, to_cli>>

PeerReceivePacket ==
  /\ PeerTake("packet")
  /\ LET p == Head(to_peer).id IN
       /\ got' = IF Among(p, got) THEN got ELSE Append(got, p)
       /\ ToCli(Ack(p))
  /\ UNCHANGED <<peer, requests>>

\* The peer's last packet, or the answer to it, is still on its way.
PeerComing(n) ==
  \/ Among(Packet(n), to_cli)
  \/ parse.pc \notin {"idle", "deliver"} /\ parse.frm = Packet(n)
  \/ Among(Ack(n), to_peer) \/ Among(Nack(n), to_peer)

PeerUnanswered == peer.pc = "wait" /\ ~PeerComing(Len(requests))

PeerResend ==
  /\ PeerUnanswered /\ peer.left > 0
  /\ peer' = [peer EXCEPT !.left = @ - 1]
  /\ ToCli(Packet(Len(requests)))
  /\ UNCHANGED <<requests, got, to_peer, faults>> /\ PeerUnchanged

PeerGiveUp ==
  /\ PeerUnanswered /\ peer.left = 0
  /\ PeerReturn("timeout")
  /\ UNCHANGED <<got, lineVars, faults>> /\ PeerUnchanged

PeerStep ==
  \/ PeerReceiveAck \/ PeerReceiveNack \/ PeerReceivePacket
  \/ PeerResend \/ PeerGiveUp

\* The next frame of a direction is lost.
Lose ==
  /\ faults < MaxFaults
  /\ faults' = faults + 1
  /\ \/ to_cli # <<>> /\ to_cli' = Tail(to_cli) /\ UNCHANGED to_peer
     \/ to_peer # <<>> /\ to_peer' = Tail(to_peer) /\ UNCHANGED to_cli
  /\ UNCHANGED peerVars /\ PeerUnchanged

-----------------------------------------------------------------------------
(* What the line and the peer do after this process has ended is left out. *)

\* A start whose file name is longer than g_file_name overwrites what lies
\* behind it (strcpy).
Overrun ==
  /\ worker.pc = "rest" /\ list2 # <<>>
  /\ requests[Head(list2)].kind = "start"

\* There is no memory for the copy of a packet that goes into a list, which
\* nobody checks, or for the list's own item: then the packet is dropped.
NoMemory == (parse.pc = "deliver" /\ ~IsDuplicate(parse.frm.id)) \/ relay # 0

\* From there on nothing is claimed.
Undefined ==
  /\ Overrun \/ NoMemory
  /\ process' = "undefined"
  /\ UNCHANGED <<boot, ready, buf, parse>> /\ BootUnchanged

Program ==
  \/ Boot \/ StartFails \/ Undefined
  \/ \E t \in Sender : SenderStep(t)
  \/ Parse \/ Relay \/ Work \/ SyscallReturns

Next ==
  /\ process = "running"
  /\ Program \/ Command \/ PeerSend \/ PeerStep \/ Lose

Spec == Init /\ [][Next]_vars

\* Each thread runs, and a mutex is released after finitely many steps.  The
\* operator, the kernel's network calls, the line and the peer's application
\* promise nothing.
Running(A) == process = "running" /\ A

FairSpec ==
  /\ Spec
  /\ WF_vars(Running(Boot)) /\ WF_vars(Running(Parse))
  /\ WF_vars(Running(Relay)) /\ WF_vars(Running(Work))
  /\ \A t \in Sender : WF_vars(Running(SenderStep(t)))
  /\ WF_vars(Running(PeerStep))

-----------------------------------------------------------------------------
(* Properties.                                                             *)

Request == 0 .. MaxRequests

\* Type invariant of the whole program.
TypeOK ==
  /\ process \in {"running", "exited", "crashed", "undefined"}
  /\ boot \in {"uart", "list", "zero", "register", "channel", "up"}
  /\ ready \subseteq {"uart", "list", "protocol", "channel"}
  /\ buf \in BOOLEAN /\ acked \in BOOLEAN
  /\ parse.pc \in {"idle", "store", "between", "stored", "null", "whole", "deliver"}
  /\ last \in Request /\ relay \in Request /\ file \in Request /\ worker.item \in Request
  /\ list1 \in Seq(1 .. MaxRequests) /\ list2 \in Seq(1 .. MaxRequests)
  /\ worker.pc \in {"rest", "syscall", "reply"}
  /\ app_lock \in Sender \cup {None}
  /\ \A t \in Sender :
       /\ call[t].pc \in {"idle", "lock", "write", "wait"}
       /\ call[t].pc \notin {"idle", "lock"} <=> app_lock = t

\* Where a packet is between its acknowledgement and the end of its handler.
InHand ==
  (IF worker.item = 0 THEN <<>> ELSE <<worker.item>>) \o list2
  \o (IF relay = 0 THEN <<>> ELSE <<relay>>) \o list1
  \o (IF parse.pc = "deliver" /\ ~IsDuplicate(parse.frm.id) THEN <<parse.frm.id>> ELSE <<>>)

Verdicts(s) == [i \in 1 .. Len(s) |-> [rel |-> TRUE, res |-> s[i].res]]

\* The two ends of the line as nodes of CommService: what each has submitted
\* (at most a command or two answers to a packet), and what of it is taken.
Node           == {"peer", "cli"}
MostCalls(n)   == IF n = "peer" THEN MaxRequests ELSE MaxCommands + 2 * MaxRequests
SubmittedBy(n) == Verdicts(IF n = "peer" THEN requests ELSE sent)
TakenFrom(n)   == IF n = "peer" THEN handled \o InHand ELSE got

Service == INSTANCE CommService WITH
  Modes <- {TRUE}, MaxCalls <- [n \in Node |-> MostCalls(n)],
  log <- [n \in Node |-> SubmittedBy(n)], received <- [n \in Node |-> TakenFrom(n)]

\* Through both event lists and the worker's handlers, while this program
\* starts, sends from two threads and dies, either end's packets are taken
\* in order and at most once, and a call succeeds only if its packet was.
ServiceSpec == Service!Spec

\* main() reads commands, all it has created is there, and the parse thread
\* has no frame in hand.
PastStart == boot = "up" /\ "channel" \in ready /\ parse.pc = "idle"

\* Start-up order (main.c): packets arrive while main() starts the threads,
\* zeroes the protocol and creates the lists one after another.  Once it is
\* past that, and has not failed to create the channel's list, no packet can
\* reach what is not there, however long the program runs.
StartIsOver == [](PastStart => [](process # "crashed"))

\* The answers of the services leave in the order of the requests, each
\* once; the end of a start comes after its own answer and names the file
\* of that start, whatever has been received in the meantime.
AnswersInOrder ==
  \A i, j \in 1 .. Len(sent) :
    sent[j].by = "worker" =>
      /\ i < j /\ sent[i].by = "worker" =>
           \/ sent[i].re < sent[j].re
           \/ sent[i].re = sent[j].re /\ sent[i].part = "ack" /\ sent[j].part = "end"
      /\ sent[j].part = "end" =>
           /\ sent[j].file = sent[j].re
           /\ \E k \in 1 .. j - 1 : sent[k].re = sent[j].re /\ sent[k].part = "ack"

AllHandled == \A i \in 1 .. Len(requests) : requests[i].res = "acked" => Among(i, handled)

\* A packet that is acknowledged is handled unless the worker is stuck in a
\* network call for ever (it is in finitely many of them).  In particular the
\* handlers, which send and wait for an acknowledgement, never wait for a
\* thread that waits for them.
AckedIsHandled == []<>(AllHandled \/ worker.pc = "syscall" \/ process # "running")

\* A command ends although handlers compete for the same lock, and although
\* the worker of the channel may be stuck in a network call.
CommandReturns == []<>(call["main"].pc = "idle" \/ process # "running")
=============================================================================
