# Verification of the UART communication protocol (Linux client)

TLA+ models of the program in `src/`, the TLC configurations that check them and the
TLAPS proofs about them. The program is a command-line client (`src/main.c`) that talks to a
device over a UART: a byte stream is cut into frames, frames carry packets with optional
acknowledgement and retransmission, and packets are dispatched to small services.

## 1. Inventory

Data flows like this; every arrow is a call unless it says otherwise.

    application threads --CommProtocolPacketAssembleAndSend--> uni_communication.c --UartWrite--> tty
    tty --read--> _recv_task --ring buffer--> _protocol_stack_parse_task
        --CommProtocolReceiveUartData--> frame parser --_one_protocol_frame_process-->
              acknowledgement: flag `acked` + pipe  (wakes the sleeping sender)
              packet: on_recv_frame (main.c) --event list--> worker --ChnlReceive-->
                     --event list--> worker --dispatch by command--> audio / ASR / network services

| Component | State | Operations | Hard behaviours | What makes it correct |
|---|---|---|---|---|
| Reliable transmission `protocol/uni_communication.c` | `sequence`, `acked`, `current_acked_seq`, two mutexes, static `last_recv_packet_seq` | `CommProtocolPacketAssembleAndSend` (any thread), `_one_protocol_frame_process` (parse thread) | the two threads share four variables with no lock; frames are lost, damaged, cut off; timeouts race answers; restarts | order, no duplicates, success means received, no lost wake-up, calls end |
| Interruptible sleep `utils/uni_interruptable.c` | a pipe | `InterruptableSleep`, `InterruptableBreak` | stale bytes, byte written before or after the timeout | a wake-up is never lost |
| Frame parser `protocol/uni_communication.c:434-660` | static `index`, `length`, `protocol_buffer_length`; the buffer | one byte at a time | buffer growth at the boundaries, dropping long frames | no overrun, frames stay aligned, memory is given back |
| UART device layer `uart/uni_uart.c` | `uart_fd`, `is_running`, `ringbuf` | two threads, `UartInitialize`, `UartFinalize`, `UartWrite` | bursts, termination | bytes reach the parser in order; both threads end |
| Ring buffer `utils/uni_ringbuf.c` | `head`, `tail`, bytes | read, write, sizes | used by two threads without a lock | sizes checked stay valid, nothing torn |
| Event list `utils/uni_event_list.c` | three queues with counters, mutex, condition, `running` | `Add`, `Clear`, `Destroy`, the worker | counts read outside the mutex, priorities, destruction while in use | every event handled or freed once, no sleep with work pending |
| Channel `channel/uni_channel.c` | one event list | `ChnlInit`, `ChnlReceiveCommProtocolPacket`, dispatch | handlers run on its one worker, send packets themselves and wait there for acknowledgements that the parse thread has to read | packets handled in order and once; handlers and parse thread never wait for each other |
| Network helper client / server | eight slots with semaphores / none | remote socket calls | answers matched to waiting calls by semaphore only; blocking handlers | a call gets its own answer, slots come back |
| Audio control server `channel/uni_audio_control_server.c` | last file name under a mutex | start, stop, pause, resume, volume | two answers from one handler, the second with the name of the file | answers fit requests, in order |
| `main.c` | how far the start is | starting everything, one packet per typed command | the UART threads run before the lists and the protocol they feed exist | no crash once it is up; commands return |
| ASR business, IoT debug, daemon, CRC-16, log, list_head | none, but for the file asr.pcm | wrappers, pure functions | none of their own | see section 7 |

`PROJECT.json` lists under "hazards" where each of these behaviours bites, with the property
that watches it or the reason why none does yet.

## 2. Modules

| Module | Models |
|---|---|
| `CommService` | abstract specification: what sending and receiving promise together |
| `UartComm` | both ends of the line: sending threads, parse threads, line, restarts |
| `MCUartComm` | topologies for TLC |
| `UartCommProofs` | type correctness, no lost wake-up |
| `UartOrderProofs` | order and at-most-once |
| `UartServiceProofs` | acknowledged means received, the refinement of `CommService`, answers honoured |
| `FrameParser`, `MCFrameParser`, `FrameParserProofs` | the parser, lengths for TLC, its proofs |
| `UartRx`, `UartRxProofs` | the two UART threads with the ring buffer, its proofs |
| `EventList`, `EventListProofs` | the event list with its worker, adding and clearing threads, its proofs |
| `NetHelper`, `NetHelperProofs` | the network helper's client and server over the service of `CommService`, its proofs |
| `UartCli`, `UartCliProofs` | the whole program: start-up, both event lists, channel, services, sending threads, and a peer; its proofs |

Definitions called "mutant of X" are not part of any specification: each is a plausible bug in
`X`, kept so that a reader can put it in X's place and see which property notices.

### UartComm

`Node` are the ends, `Thread` the sending threads (`Home[t]` is the end of t). One action is one
access to shared state by one thread, in the order of the C statements. A sending thread goes
through `lock` (waiting for `app_send_sync_lock`), `assemble` (taking a number in
`_sequence_set`), `unset` (clearing `acked`), `write` (`on_write`), `wait`
(`InterruptableSleep`), `check` (`_wait_ack` and `_resend_status`), `return`. A parse thread
takes a whole frame (`Receive...`) and, between the check it makes and the store or callback that
follows, rests in `set`, `break` or `deliver`, where other threads may step in. What is abstracted:

* A packet is its position in the history `log` of its sender; `pkt = 0` is `cmd = 0` with no
  payload, the mark of an answer. `crc` tells which check of the receiver fails. Applications
  are assumed never to send command 0 without payload (no command of the repository is 0).
* `write_sync_lock` makes `on_write` atomic, so a frame is one element of `wire`. The device is
  opened `O_NDELAY` and the result of `write` is ignored: a frame beyond `WireCap` is cut off.
  That a cut frame swallows part of the next one is a frame lost, as `Lose` does.
* `Lose` and `Damage` are noise, at most `MaxFaults` of them. With `HeaderDamage`, noise may also change the
  sequence number and the control bits of a frame: the checksum detects that in packets, but the
  code never looks at the checksum of an answer.
* `Restart` is a new process: `CommProtocolInit`, statics, and the `tcflush` of `_set_speed`, which discards
  what the device has received by then: any number of the frames on their way, the later ones arrive after the restart. `log` and
  `delivered` are history and survive.
* `malloc` may fail for the packet to send (`Reject`). Failures of `malloc` in `_send_ack_frame`,
  `_packet_disassemble` and the parser's buffer are not modelled; the first two have the effect of a
  lost answer and of a corrupt packet.

### FrameParser

One action per branch of `_protocol_buffer_generate_byte_by_byte`, with the constants of the code,
16-bit sizes included. Byte values are abstracted to what the branch decides: the next sync byte or
another, a length byte, a CRC that fits or not. `consumed`, `declared` and `out` are history.

### UartRx

`_recv_task` and `_protocol_stack_parse_task`. Every read or write of `head` and `tail` is a step and
`memcpy` copies byte by byte. A byte is its rank in the stream of bytes that entered the ring. The steps happen in program order: the ring buffer has neither locks nor barriers, and relies on
the stores of one thread becoming visible in order, as on x86 in the build of `build.sh` (no
optimisation). On a weaker memory model these results do not hold.

### EventList

One action per step that another thread can tell apart. The body of `EventListAdd` is split inside the mutex
(link, count, signal) because the worker also reads the counters outside it (`WorkerPeek`, one counter at a
time); taking an item, whose inside nobody can see, is one step, and `free_handler` and `event_handler` run
outside the mutex in steps of their own. An event is its rank in the history `added`. The wait on the condition is `sleep`; a
signal, the timeout or a spurious wake-up moves it to `wake`, where the worker waits for the mutex.
`Destroy` has a guard the code does not have: no user is in a call, and none starts one afterwards. The
code frees the list without looking, so a use after that is undefined; no caller in the repository destroys or clears
a list today, so `Clear` and `Destroy` model the interface as it is offered.

### NetHelper

The client's threads (`Caller`), its receiving thread (`handler`), the server's thread (`requests`, `reply`, `open`) and the
packets between them. All calls of the client have one shape: build a request from the slot, send it, wait on the
semaphore of the slot and the kind of call, read the result. Kinds in `Opening` (`SocketInit`, `ConnectWebSocket`) first take an
idle slot and are answered by session; the kinds in `Op` (connect, send, receive, options, select) and `close` are answered by
descriptor. The slots are looked through one at a time and without the mutex, as in the code. What a result says is
abstracted to the call it answers (`call`, history), which is what the properties compare.

The line is abstracted to what `CommService` promises without restarts and late acknowledgements: `Transmit` and `SendOk`; or
`TransmitLost`; or `SendUnacked`, the request that arrives although its send is reported as failed. Opening may be
refused and an answer may be lost. These are the faults, at most `MaxFaults`.

`ServeOpen`, `ServeOp` and the like are the return of the server's system call. The kinds in `Blocking` (`connect`, `recv`, `select`) may stay in the kernel for
ever, and the server has one thread: `InKernel` is the state in which it does, and fairness promises no step from there.

Taken from use, not from the code: threads that share a socket do so for different kinds of calls, and no call uses a socket that is
being closed. The client is not part of `build.sh`, so how its receiving function is called is inferred: by one
thread, like the server's in `uni_channel.c`.

The code cannot hold its promises in every case, and `Off` names the cases: a call was reported as failed though it was carried
out (a send for its own semaphore, an opening or closing for all), or one descriptor stood in two slots (`crossed`). The second happens with no
fault at all: the server gives a closed descriptor away again before the closing thread has released its slot. The
answers for the new socket then go to the old slot, and the new caller waits for ever. The properties hold in all other cases.

### UartCli

The composition: what `main.c` starts and how a packet travels through it. `boot` is how far `main()` is, one action per call it makes
(`UartInitialize`, `CreateList`, the two halves of `CommProtocolInit`, `ChnlInit`), `StartFails` its early returns, `ChnlInitFails` the list that could not be created and that nobody looks at, and `Command`
one typed command (each sends exactly one reliable packet). The threads are the parse thread (`parse`), the worker of
`g_event_list` (`relay` holds the packet it is handing on), the worker of the channel (`worker`, with the answers it still has to
send), and `main`. `call` are the calls of `CommProtocolPacketAssembleAndSend` by `main` and by the worker.

* The components that have a module of their own are coarser here. The two event lists are FIFO queues (each is used with one priority;
  `HandledInOrder` of `EventList` is the reason). The receive thread and the ring buffer are part of the line (`NothingLost`,
  `ParsedInOrder`). `Begin` is the taking of `app_send_sync_lock` with the steps under it up to `acked = false`; `write_sync_lock` is dropped, since `on_write` does not wait.
* While the protocol is being initialised it matters when the bytes of a frame are stored: `FirstByte`, `Store`, `NextByte` store it in one or
  two parts, and `ProtocolBusinessInit` may zero the pointer to the buffer before, between or after them, also between the last byte and the
  step that reads the pointer again to hand the frame on (`HandOver`). Afterwards a frame is one step (`ReadFrame`; the parser itself is `FrameParser`). A frame torn in this way lies in two buffers: its length and numbers are
  whatever the second one holds, so `ProcessTorn` answers with a NACK for any number and `ProcessTornCrashes` takes the checksum over memory
  that is not there.
* A packet is its rank in the history `requests` (of the peer) or `sent` (of this end), with its kind: for the network helper, audio start
  (resume is alike), audio stop (pause and volume are alike), or other. The name of a file is the request that brought it.
* A system call of the network helper (`SyscallReturns`) may never return. The peer is the same protocol seen from outside: one reliable packet
  at a time, resent, acknowledged and taken once. The line loses at most `MaxFaults` frames and damages none: that is `UartComm`'s.
* No attempt times out while its frame or answer is on the way (`Coming`, `PeerComing`). Late answers are `UartComm`'s as well
  (`uart_late_ack`); here they would only mix its findings with the composition's.

* Two acts of the code have no defined effect: a file name longer than `g_file_name` is copied over what lies behind it
  (`Overrun`, `uni_audio_control_server.c:52`, `:113`), and the copies of a packet are written to without a look at `malloc`'s result
  (`main.c:21`, `uni_channel.c:46`). When there is no memory for a list's own item (`uni_event_list.c:245`) the packet is dropped after it has
  been acknowledged. `Undefined` is any of these: the program is `undefined` from there on and no property says anything of it.
* `current_acked_seq` is not a variable here. Within one number it only filters a second acknowledgement, which
  finds `acked` set already, and its initial value is the subject of `uart_initial_seq`.

The end of a run by `--quit` is no step: `exit` ends every thread wherever it is, and nothing is persistent.

## 3. Runs

| Run | Expect | Question | Instance |
|---|---|---|---|
| `uart_line` | pass | order, no duplicates, no lost wake-up under every fault | 2 threads on A, 3 packets, numbers modulo 2, one fault of any kind in any header field, A restarts once; 1.4 million states |
| `uart_ack` | pass | success means received; answers are honoured; the protocol implements `CommService` | 2 threads on A, 3 packets, modulo 8, one fault, one retry |
| `uart_live` | pass | calls end; a reliable packet arrives or a failure is reported | 2 threads on A, 2 packets, room for 1 frame, one fault, A restarts once, weak fairness; 110 thousand states |
| `uart_late_ack` | violation | "reliable transmission": success means received, always | see findings |
| `uart_sender_restart` | violation | the same after a restart of the sender | see findings |
| `uart_initial_seq` | violation | an acknowledgement breaks the sleep once | see findings |
| `frame_parser` | pass | overrun, alignment, memory, agreement with the sender's limit | constants of the code; lengths around 0, 1, 1024, 8161, 8176, 65535 |
| `uart_rx` | pass | ring buffer and termination | ring 4, reads of at most 3, parse buffer 2, 8 bytes |
| `net_helper` | pass | own answer, own socket, semaphores, slots, calls return | 2 threads, 2 slots, 4 calls of 4 kinds, one fault |
| `net_opened` | violation | "@return socket fd, -1 failed" | see findings |
| `uart_cli` | pass | start-up, order through both lists, answers, no deadlock between handlers and parse thread | 2 packets of the peer of 3 kinds, 1 command, one retry, 2 lost frames; 470 thousand states |
| `event_list` | pass | one owner per event, order, priorities, waiting, destruction | 2 threads, 3 events of any priority, one clear, one destroy |

Why the bounds are enough. Sequence numbers: at most two frames per direction and the current
packet are alive at a time, so a few numbers show every coincidence but the wrap. `uart_line` has the wrap too: of three
packets modulo 2 the third carries the number of the first. The other runs send fewer packets than there are numbers, and what the wrap means for `AckedIsReceived`
and `AckHonoured` is proved, not run (section 4). A restart of the receiving end is in the model and in the proofs of `uart_line`'s three
invariants; the run restarts the sending end only, since the receiver's restart exempts what it could spoil. The initial `current_acked_seq` is scaled with it
(127 of 256 becomes 3 of 8), so that `uart_ack` stays below it and `uart_initial_seq` reaches
it. One retry (`TRY_RESEND_TIMES = 1`) gives a first attempt, a repetition and a give-up. Two wire places
give a full line and two answers in flight; in `uart_live` there is one, so that a second frame is cut off whenever one is under way. The ring of 4 bytes wraps twice in 8 bytes, with chunks
smaller and larger than the room and a parse buffer smaller than the ring, like 8192 / 4096 /
2048. Three events are two of one priority, whose order shows, and one of another; two threads let an event be linked while
another is counted or cleared. Four calls of the network helper are enough to open, fail or close, open again and use a socket, and two slots to mix
two sockets up. In `uart_cli` two packets of the peer are one in a handler and one behind it, or one that is resent while the first is still
handed on; with the command there are two threads for the send lock; two lost frames use up both attempts of a call. `CHECK_DEADLOCK FALSE` stands in the `Uart*` configurations and in those of `EventList` and `NetHelper` because their systems
really stop: when all calls of the bound have returned, when both UART threads have ended, when the program has exited or crashed, or when the worker of a destroyed list has ended. The parser never stops and is checked for deadlock.

**Fairness.** Every thread takes steps again and again while it can (weak fairness per thread), which
is what the scheduler gives. Nothing is assumed of callers, of the line, or of who gets the mutex:
`EveryCallReturns` starts when the call has it. `DeliveredOrReported` exempts restarts in its
statement, not in the specification. In `event_list` weak fairness is enough for the mutex because the callers stop
after `MaxAdds` events; under an endless stream of higher events the lower queues do wait, by design of the code, and
`EveryEventFreed` does not claim otherwise. In `uart_cli` the threads of the program and the protocol of the peer are weakly fair; typing, the peer's
application, the line and the network's system calls are not. Nor are they in `net_helper`: the server's thread is fair outside `InKernel` only. Weak fairness suffices for the send lock because the calls that compete for it are finitely many.

**What the properties say.** `InOrderOnce`: an application sees packets in order and none twice
unless it restarts itself. `AckedIsReceived`: a reliable call that returned 0 reached the other
application if no earlier call of that end gave up. `ReliableTransmission` drops the condition and
is violated. `DeliveredOrReported` is the other half: a reliable packet that took a number reaches the peer's application in the end, or its call or an earlier one has
reported a failure, also when the driver cuts frames off. `AckHonoured`: the first good acknowledgement of the packet being sent is acted upon. `NoLostWakeup`: no
sender sleeps out its 200 ms with an acknowledgement stored. `ServiceSpec`: refinement of
`CommService`, with a packet counted as received from the moment the parse thread has decided to deliver it.
`FrameAligned`: a frame ends where its header says, also when it is dropped. `DroppedIsTooLong`: what the parser drops is a frame that the
sender, whose sum of lengths wraps at 65536, has refused or sent without a full header, but for the 14 payload lengths between the two limits. `ChecksStayTrue`: what a
thread concluded from the other's index stays true until it acts. `CountsMatch`: the counters of the event list, on which the
worker decides to sleep or to leave a lower queue, follow the queues. `OneOwner`: an event is queued, in one thread's hands,
or freed, never two of these and never none. `NoSleepWithWork`: no event waits out the worker's 1000 ms.

`OwnAnswer`, `OwnSocket`: a call of the network helper is woken by the answer to its own request, which the server carried out on
the socket that was opened for the slot, outside the cases of `Off`. `NoStalePost`: no semaphore is up without a
caller to take it down. `SlotsOwned`: no slot has two owners and none that is taken has no owner. `CallsReturn`: if the server comes out of the
kernel again and again, then without faults and crossed descriptors nobody waits for ever. Neither a server stuck in `recv`, nor a lost
answer, nor crossed descriptors are repaired by the code, so nothing is claimed of these.
`OwnAnswer` looks at a close when its thread is woken; `close_ret` is read after the slot is released (client, line 209), when another
thread may already have opened and closed the same slot, so the value returned can be the other's.

Of the whole program: `ServiceSpec` refines `CommService` in both directions at once, where a packet of the peer now counts as received when its
handler has returned or when it is in a queue or in a thread's hand on the way there; it also holds of a program that crashes
or exits, since it then takes no step. `StartIsOver`: once `main()` reads commands with the channel's list created and the parse thread has been without a frame, no packet
reaches a list or a buffer that is not there, for as long as the program runs. Without the list (`ChnlInitFails`) the first packet does end it. `AnswersInOrder`: answers leave in the order of the requests, and the report of the end of a start follows its answer and names
its file. `AckedIsHandled`: what was acknowledged is handled, unless the worker stays in a system call for ever (passing through one does not excuse it, as there are finitely many); `CommandReturns`: a command ends even
then. A parse thread that waited for a handler, or for the send lock, would break both.

## 4. Proofs

All theorems hold for every value of the constants allowed by the named assumptions (any number of ends in
pairs, threads, retries, sequence numbers, wire places, faults; any ring and buffer sizes). Where a theorem needs a
hypothesis more, the hypothesis is named in it, and the text below says which run breaks the property without it.

* `UartTypeOK`, `UartNoLostWakeup` (`UartCommProofs`). Type correctness is inductive by itself and is split
  per action, with `LockInv`: past `lock` a thread holds the mutex of its end, so two senders of one
  end never wait together. `NoLostWakeup` is strengthened to `WakeInv`, which speaks of the sender from the write of
  its packet on: an answer that arrives before the sender sleeps has left its byte too. A
  sender reaches the write with the flag clear (`Unset`, or `CheckResend` finding it clear).
* `UartInOrderOnce` (`UartOrderProofs`). The strengthening says that the packet numbers along one direction,
  delivered ones, the one in the parse thread's hand, the ones in the line, the one being sent, never
  decrease, that equal packet numbers carry equal sequence numbers, and that `last_recv_packet_seq` is the
  number of the last packet processed. The filter then removes exactly what does not increase.
* `UartReceivedUnlessDoubtful`, `UartAckedIsReceived`, `UartService`, `UartHonouredUnlessDoubtful` (`UartServiceProofs`). All four assume `SoundLine`:
  noise does not alter the unprotected header of a frame and no end restarts. Both are needed: with `HeaderDamage` the instance of `uart_ack`
  violates `AckedIsReceived`, and `uart_sender_restart` breaks the promise with a restart. The invariant (`AllInv`) says that every
  frame carries the number of its packet and `last_recv_packet_seq` that of the last one delivered (`CarryInv`), that a packet not yet written is neither on the line nor
  received (`UnsentInv`), and that an acknowledgement with the number of the packet being sent, be it on the line, in the parse thread's hand or in the flag
  `acked`, is there only because that packet was received (`AckInv`). From there the result of the call inherits it (`ReceivedInv`).
  A number tells two packets apart only while fewer than `SeqMod` stand between them. After `SeqMod - 1` unreliable packets in a row, which may all be lost with
  nobody noticing, it does not (`LongRun`); `UartReceivedUnlessDoubtful` leaves out just these packets and those after a failed call, in sessions of any length.
  `NumbersSuffice` (a session of at most `SeqMod` packets, or one without unreliable packets) excludes long runs; under it hold `AckedIsReceived`
  and, action by action, the refinement: `log` is its own image, and what an end has received is what was delivered to it and the packet in its parse thread's hand (`ReceivedOf`).
  `UartHonouredUnlessDoubtful` is about sessions of any length too, through any number of wraps. Its invariant (`ActedInv`) says that `current_acked_seq` is the number of the last reliable packet
  before the one being sent, or still the initial value if there is none. It leaves out exactly what the code gets wrong: packets in doubt, and a first reliable packet with the initial number (`InitialNumber`, `uart_initial_seq`).
* `ParserTypeOK`, `ParserNoOverrun`, `ParserFrameAligned`, `ParserIdleHeapSmall`, `ParserDroppedIsTooLong`
  (`FrameParserProofs`). The invariant lists the sizes the buffer can have
  (16, 48, 112, 240, 496, 1008, 2032, 4080, 8176, 16368) and relates `index`, `length`, `consumed` and `declared`. For
  `DroppedIsTooLong` it also says (`DroppedBytes`) that bytes are dropped only of a frame longer than a buffer of 8176 bytes.
* `RxTypeOK`, `RxParsedInOrder`, `RxNothingLost`, `RxChecksStayTrue` (`UartRxProofs`). The invariant says
  where in the ring each byte between `parsed` and `written` stands, which part of the current chunk is
  copied on either side, and that each thread's length fits the other's index.
* `ListTypeOK`, `ListCountsMatch`, `ListNoSleepWithWork`, `ListGoneIsEmpty`, `ListPriorityRespected` (`EventListProofs`).
  The invariant adds two facts. `MutexInv`: a thread between `link` and `signal` is the one that holds the mutex, so at most one event is
  linked and not counted. `FinalInv`: in the last round nobody adds, and the queues already visited are empty. `ListPriorityRespected` is
  an action property and follows from `CountsMatch`: what the worker reads as 0 is an empty queue.
* `ListOneOwner`, `ListHandledInOrder` (`EventListProofs`), from `WhereInv`. `KnownInv`: queues and hands hold only events that were added, each queue those of its
  priority. `OwnerInv`: each event has one place, and the threads that hold it are finitely many, so that they can be counted. `OrderInv`: a queue is in the order of
  adding, behind the event in the worker's hands and behind all of its priority that were handled; clearing removes from a queue but never reorders it.
* `NetTypeOK`, `NetSlotsOwned`, `NetNoStalePost`, `NetOwnAnswer`, `NetOwnSocket` (`NetHelperProofs`), with every loss and refusal the model has. `TInv` (types) counts:
  there are as many descriptors as sockets the calls can open, so `socket()` always finds one, and no two descriptors belong to one session. `OInv` adds who owns a slot:
  at most one thread opens it, and never while the application holds it; threads that use one slot use it for different calls. `LineInv` sees the answer in the
  receiving thread's hand, the answers behind it, the one the server is about to send and the requests as one queue (`Item`, `LineLen`): a
  step takes from its front, appends at its end, or turns an item into its answer (`FromLine`). Two calls of one kind on one slot are never both in it, and nothing follows
  a close (`PairInv`); somebody waits for each item (`AwaitInv`); a semaphore that is up means that its call has left the queue and its
  caller has yet to take it (`SemInv`). All this is said of the slots and kinds that none of the cases of `Off` has touched (`Quiet`), since the properties say no more.
  `GoodInv` is what ties slots to the server's descriptors while no case of `Off` has occurred: slots that are done have different descriptors, and the server has each of
  them open for the session of the slot. It is needed for the lookups by descriptor alone; those by session are sound in every state.
* `CliTypeOK`, `CliStartIsOver` (`UartCliProofs`). The first is inductive with the types of the frames on the line (the peer's packets
  are numbered from 1 to `MaxRequests`, so the lists hold only such numbers) and with `LockInv`: a thread is between `Begin` and `Return` exactly when
  it holds the send lock, and then a packet has been sent. The second needs what the start leaves behind (`StartInv`): the first list is there before the protocol is,
  no torn frame is left once the parser is idle, and a program past its start has not crashed. `Clear` is what holds once the start is over, and every step keeps it.
* `CliAnswersInOrder` (`UartCliProofs`), from `FlowInv`. Handled packets, the worker's, those of the second list, the relay's and those of the first list are one
  sequence (`Taken`). It is increasing and ends with `last_recv_packet_seq` (`TakenInv`), because packets come in the order of sending and none on the line is older
  than the last one taken (`ComingInv`): a duplicate is always of that one, and one comparison filters it. So the packet that the worker takes is newer than all that
  were handled, and `ReplyInv` ties to it what the worker still has to send, what it waits to send and what it has sent; `file` is its own until the end of a start has
  copied it.
* `CliService` (`UartCliProofs`): every step of the program is a step of `CommService` or a stutter, under no hypothesis but `Spec`. An
  acknowledgement on the line is of a packet that is in `Taken` or in the parse thread's hand (`AckedInv`), one that reached this end, up to the flag
  `acked`, is of a packet that the peer got (`GotInv`, `FlagInv`), and a call is in progress exactly while the lock is held (`PendingInv`). `CountInv` bounds the
  packets of this end: one to a command and two to a packet taken. That late answers cannot come here (`Coming`) is part of the
  model; `UartService` is the theorem that has to name its hypotheses.

Only model-checked: liveness (`EveryCallReturns`, `DeliveredOrReported`, `WrittenIsParsed`,
`FinalizeStops`, `EveryEventFreed`, `DestroyEnds`, `CallsReturn`, `AckedIsHandled`, `CommandReturns`), which needs ENABLED; and `AckHonoured`
without an exception, which holds in the short sessions of `uart_ack` only. Every other property of the passing runs is proved.

## 5. Findings

* **A late acknowledgement counts for the next packet** (`uart_late_ack`). The parse thread accepts the
  answer to packet 1 just when its sender gives up; the next call clears `acked`, the parse thread sets it,
  and packet 2, lost or still in flight, is reported as acknowledged. With 5 retries of 200 ms it takes an answer delayed by
  more than a second, or five NACKs or stale wake-ups.
* **The first packet after a restart is acknowledged and dropped** (`uart_sender_restart`) when the last number
  the peer saw was 0.
* **Packet 127 of a process is never acknowledged** (`uart_initial_seq`) unless a reliable packet with another
  number was acknowledged before it: the initial value of `current_acked_seq` is a number in use.
* **Opening returns a socket that is none** (`net_opened`): when `socket()` fails on the server the client still returns the index of a
  slot, whose descriptor is -1.

Observed while modelling, and not stated by any text that a run could refute:

* A packet that arrives while the program starts can end it (`StoreCrashes`, `ProcessTornCrashes`, `RelayCrashes`): the UART threads run before
  `g_comm_protocol_business` is zeroed and before `g_channel` has its list. `StartIsOver` is what holds.
* `ChnlInit` returns 0 also when it could not create its list, and `main()` does not look; the first packet then ends the program (`ChnlInitFails`).
* The parser's buffer has up to 16368 bytes although a comment (`uni_communication.c:575`) speaks of 8K: the size is checked before it is
  doubled. Frames of 8178 to 8191 bytes, which the sender accepts, are dropped by the receiver.
* `_do_resume` takes the name of the file from behind an `AudioCtrlStartRequest`, not behind an `AudioCtrlResumeRequest`.
* `AudioCtrlSerRpcReceiveCommProtocolPacket` returns 0 for every command, so that the channel never logs "recv unsupport cmd".

## 6. Plan

Done: all modules of section 2, and a proof of every invariant, action property and refinement that the passing runs check. Next, in this order:

1. The safe half of liveness, as invariants that need no ENABLED: in no state of `UartCli`, `EventList` and `NetHelper` do all threads wait for each other. For each
   waiting thread the invariant names the one that will wake it and the step that one can take.
2. `UartReceivedUnlessDoubtful` for sessions with a restart of the receiving end, which forgets `last_recv_packet_seq` and so may deliver a packet twice but loses none.
3. The hypothesis of `UartCli` that no answer is late, as a lemma about `UartComm` with a line that delivers within an attempt.

## 7. Not modelled

CRC-16 and logging are pure functions. Configuring the tty is system calls without
state of their own. The wrappers of the ASR business build one packet and send it, which is a `Command`; its handlers only log or append
to asr.pcm, a file nobody reads. IoT debug and the daemon are stateless wrappers around one packet and not part of `build.sh`. `UartFinalize` followed by
`UartInitialize`, `CommProtocolFinal` and `ChnlFinal` have no caller in the repository: no state of the program comes after them. Of the network helper, the
network status and the softAP calls are left out (`NetHelperCliRpcSoftApEnable` posts a semaphore that nobody creates). So is an event whose priority
is none of the three (`EventListAdd` would lose it): no caller passes one. Two ends that send at the same time are covered by the proofs of `UartComm`, which hold
for every topology, and by `uart_cli`, without late answers and damage; the runs of `UartComm` have one sending end, so `AckedIsReceived` is checked for one
direction at a time; `UartAckedIsReceived` proves it for all of them.
