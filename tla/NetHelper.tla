----------------------------- MODULE NetHelper -----------------------------
(***************************************************************************)
(* channel/uni_network_helper_client.c and _server.c: sockets of the       *)
(* device used from the other end of the line.  Threads of the client send *)
(* a request and wait on a semaphore of the socket's slot; one thread of   *)
(* the client receives the answers, stores them in the slot and posts.     *)
(* One thread of the server carries out requests in order.                 *)
(*                                                                         *)
(* The line is what CommService promises while nobody restarts: packets    *)
(* arrive in order and once, a send reported as successful has arrived, and *)
(* one reported as failed may have arrived as well.                        *)
(***************************************************************************)
EXTENDS Integers, Sequences, FiniteSets, FiniteSetsExt

CONSTANTS
  Caller,       \* the client's threads
  FD_SIZE_MAX,  \* slots of the client, 8 in the code
  Opening,      \* kinds of calls that open a socket: SocketInit, ConnectWebSocket
  Op,           \* kinds of calls on an open one: connect, send, recv, select...
  Blocking,     \* of these, the kinds that wait for the network, maybe for ever
  MaxCalls,     \* bound: calls of the client
  MaxFaults     \* bound: sends reported as failed, answers lost, sockets refused

ASSUME SizeAssumption == FD_SIZE_MAX \in Nat \ {0}
ASSUME KindAssumption == Opening \cap Op = {} /\ "close" \notin Opening \cup Op
ASSUME BlockingAssumption == Blocking \subseteq Opening \cup Op
ASSUME BoundAssumption == MaxCalls \in Nat /\ MaxFaults \in Nat

Slot == 0 .. FD_SIZE_MAX - 1
Kind == Opening \cup Op \cup {"close"}   \* each has a semaphore in every slot
NoFd == -1
Fd   == 1 .. MaxCalls                    \* descriptors the server can need

VARIABLES
  slot,        \* g_socks: status, session_id, sock_fd
  sem,         \* g_socks[i].sem[kind]
  result,      \* g_socks[i].send_len and the like: the call it answers
  session,     \* the static session_id
  caller,      \* the client's threads
  handler,     \* the client's receiving thread
  requests,    \* packets on their way to the server
  answers,     \* packets on their way to the client
  open,        \* the server's descriptors: open[fd] is its session, 0 if closed
  reply,       \* what the server's thread is about to answer, if anything
  held,        \* history: slots an application may use
  calls,       \* history: calls so far
  faults,      \* history: faults so far
  stale,       \* history: <<slot, kind>> of calls reported as failed that arrived
  crossed      \* history: a descriptor named two slots, or none

slotVars    == <<slot, sem, result, session>>
lineVars    == <<requests, answers>>
serverVars  == <<open, reply>>
historyVars == <<held, calls, faults, stale, crossed>>
vars == <<slotVars, caller, handler, lineVars, serverVars, historyVars>>

\* A request carries the descriptor, or the session of a socket to be opened.
\* Its slot and call, and the session of other requests, are history.
Request == [kind : Kind, session : Nat, fd : Fd \cup {NoFd}, slot : Slot, call : Nat]
NoRequest == [kind |-> "close", session |-> 0, fd |-> NoFd, slot |-> 0, call |-> 0]

Idle == [pc |-> "idle", req |-> NoRequest]
Rest == [pc |-> "rest", at |-> 0, answer |-> NoRequest]

\* _sock_fds_init.
Init ==
  /\ slot = [i \in Slot |-> [status |-> "idle", session |-> -1, fd |-> NoFd]]
  /\ sem = [i \in Slot |-> [k \in Kind |-> 0]]
  /\ result = [i \in Slot |-> [k \in Kind |-> 0]]
  /\ session = 0
  /\ caller = [c \in Caller |-> Idle]
  /\ handler = Rest
  /\ requests = <<>> /\ answers = <<>>
  /\ open = [f \in Fd |-> 0] /\ reply = NoRequest
  /\ held = {} /\ calls = 0 /\ faults = 0 /\ stale = {} /\ crossed = FALSE

-----------------------------------------------------------------------------
(* The calling threads.                                                    *)

Goto(c, pc) == caller' = [caller EXCEPT ![c].pc = pc]
Fault == faults < MaxFaults /\ faults' = faults + 1

IdleSlots == {i \in Slot : slot[i].status = "idle"}

\* NetHelperCliRpcSocketInit and ConnectWebSocket: a slot is taken under
\* g_mutex.  Without an idle slot they return -1 and change nothing.
Open(c, k) ==
  LET i == Min(IdleSlots) IN
  /\ caller[c].pc = "idle"
  /\ calls < MaxCalls
  /\ IdleSlots # {}
  /\ session' = session + 1
  /\ slot' = [slot EXCEPT ![i] = [status |-> "wait", session |-> session', fd |-> NoFd]]
  /\ calls' = calls + 1
  /\ caller' = [caller EXCEPT ![c] = [pc |-> "send",
       req |-> [kind |-> k, session |-> session', fd |-> NoFd, slot |-> i, call |-> calls']]]
  /\ UNCHANGED <<sem, result, handler, lineVars, serverVars, held, faults, stale, crossed>>

Calling(i, k) == {c \in Caller : caller[c].pc # "idle" /\ caller[c].req.slot = i
                                                      /\ caller[c].req.kind = k}

\* The other calls read sock_fd without the mutex.  Threads may share a
\* socket as long as each kind of call has one thread at a time, and none
\* uses a socket that is being closed.
Call(c, i, k) ==
  /\ caller[c].pc = "idle"
  /\ calls < MaxCalls
  /\ i \in held
  /\ Calling(i, k) = {} /\ Calling(i, "close") = {}
  /\ k = "close" => \A j \in Op : Calling(i, j) = {}
  /\ calls' = calls + 1
  /\ caller' = [caller EXCEPT ![c] = [pc |-> "send",
       req |-> [kind |-> k, session |-> slot[i].session, fd |-> slot[i].fd,
                slot |-> i, call |-> calls']]]
  /\ crossed' = (crossed \/ slot[i].fd = NoFd)
  /\ UNCHANGED <<slotVars, handler, lineVars, serverVars, held, faults, stale>>

\* Mutant of Transmit: the line repeats a request.
TransmitTwice(c) ==
  /\ caller[c].pc = "send"
  /\ \A d \in Caller : caller[d].pc # "sent"
  /\ requests' = requests \o <<caller[c].req, caller[c].req>>
  /\ Goto(c, "sent")
  /\ UNCHANGED <<slotVars, handler, answers, serverVars, historyVars>>

\* CommProtocolPacketAssembleAndSend, one thread at a time: the request arrives...
Transmit(c) ==
  /\ caller[c].pc = "send"
  /\ \A d \in Caller : caller[d].pc # "sent"
  /\ requests' = Append(requests, caller[c].req)
  /\ Goto(c, "sent")
  /\ UNCHANGED <<slotVars, handler, answers, serverVars, historyVars>>

\* ... or not, and the call of the protocol fails.
TransmitLost(c) ==
  /\ caller[c].pc = "send"
  /\ \A d \in Caller : caller[d].pc # "sent"
  /\ Fault
  /\ Goto(c, "failed")
  /\ UNCHANGED <<slotVars, handler, lineVars, serverVars, held, calls, stale, crossed>>

SendOk(c) ==
  /\ caller[c].pc = "sent"
  /\ Goto(c, "wait")
  /\ UNCHANGED <<slotVars, handler, lineVars, serverVars, historyVars>>

\* All acknowledgements were lost: the request arrived and the send failed.
SendUnacked(c) ==
  /\ caller[c].pc = "sent"
  /\ Fault
  /\ stale' = stale \cup {<<caller[c].req.slot, caller[c].req.kind>>}
  /\ Goto(c, "failed")
  /\ UNCHANGED <<slotVars, handler, lineVars, serverVars, held, calls, crossed>>

\* Mutant of Failed: the slot is not released.
FailedKeepsSlot(c) ==
  /\ caller[c].pc = "failed"
  /\ caller' = [caller EXCEPT ![c] = Idle]
  /\ UNCHANGED <<slotVars, handler, lineVars, serverVars, historyVars>>

\* The call returns -1.  A slot that was to be opened is released; a socket
\* that was to be closed stays as it is.
Failed(c) ==
  LET r == caller[c].req IN
  /\ caller[c].pc = "failed"
  /\ slot' = IF r.kind \in Opening THEN [slot EXCEPT ![r.slot].status = "idle"] ELSE slot
  /\ caller' = [caller EXCEPT ![c] = Idle]
  /\ UNCHANGED <<sem, result, session, handler, lineVars, serverVars, historyVars>>

\* Mutant of Wait: the semaphore is taken down without waiting.
WaitNot(c) ==
  LET r == caller[c].req IN
  /\ caller[c].pc = "wait"
  /\ sem' = [sem EXCEPT ![r.slot][r.kind] = @ - 1]
  /\ Goto(c, IF r.kind = "close" THEN "release" ELSE "return")
  /\ UNCHANGED <<slot, result, session, handler, lineVars, serverVars, historyVars>>

\* uni_sem_wait on the semaphore of the slot and the kind of call.
Wait(c) ==
  LET r == caller[c].req IN
  /\ caller[c].pc = "wait"
  /\ sem[r.slot][r.kind] > 0
  /\ sem' = [sem EXCEPT ![r.slot][r.kind] = @ - 1]
  /\ Goto(c, IF r.kind = "close" THEN "release" ELSE "return")
  /\ UNCHANGED <<slot, result, session, handler, lineVars, serverVars, historyVars>>

\* A closed slot is released under g_mutex, and close_ret is read after that.
Release(c) ==
  LET r == caller[c].req IN
  /\ caller[c].pc = "release"
  /\ slot' = [slot EXCEPT ![r.slot].status = "idle", ![r.slot].fd = NoFd]
  /\ held' = held \ {r.slot}
  /\ Goto(c, "return")
  /\ UNCHANGED <<sem, result, session, handler, lineVars, serverVars, calls, faults, stale, crossed>>

\* The result is read from the slot; opening returns the index of the slot.
Return(c) ==
  LET r == caller[c].req IN
  /\ caller[c].pc = "return"
  /\ held' = IF r.kind \in Opening THEN held \cup {r.slot} ELSE held
  /\ caller' = [caller EXCEPT ![c] = Idle]
  /\ UNCHANGED <<slotVars, handler, lineVars, serverVars, calls, faults, stale, crossed>>

-----------------------------------------------------------------------------
(* The server: NetHelperSerRpcReceiveCommProtocolPacket on the thread of   *)
(* the channel's event list.                                               *)

Free == {f \in Fd : open[f] = 0}

\* The next request is carried out; d is what becomes of the descriptors.
Serve(d, fd) ==
  /\ reply = NoRequest
  /\ requests # <<>>
  /\ open' = d
  /\ reply' = [Head(requests) EXCEPT !.fd = fd]
  /\ requests' = Tail(requests)
  /\ UNCHANGED <<slotVars, caller, handler, answers, held, calls, stale, crossed>>

\* socket(), which gives the lowest descriptor that is free.
ServeOpen ==
  /\ requests # <<>> /\ Head(requests).kind \in Opening
  /\ Serve([open EXCEPT ![Min(Free)] = Head(requests).session], Min(Free))
  /\ UNCHANGED faults

\* socket() fails, or no address of the web socket's host answers.
ServeRefused ==
  /\ requests # <<>> /\ Head(requests).kind \in Opening
  /\ Fault
  /\ Serve(open, NoFd)

\* Mutant of ServeClose: the answer does not name the descriptor.
ServeCloseUnnamed ==
  /\ requests # <<>> /\ Head(requests).kind = "close"
  /\ LET fd == Head(requests).fd IN
     Serve([f \in Fd |-> IF f = fd THEN 0 ELSE open[f]], NoFd)
  /\ UNCHANGED faults

ServeClose ==
  /\ requests # <<>> /\ Head(requests).kind = "close"
  /\ LET fd == Head(requests).fd IN
     Serve([f \in Fd |-> IF f = fd THEN 0 ELSE open[f]], fd)
  /\ UNCHANGED faults

\* connect(), send(), recv(), setsockopt(), fcntl(), select() on a descriptor:
\* this step is the return of the system call.
ServeOp ==
  /\ requests # <<>> /\ Head(requests).kind \in Op
  /\ Serve(open, Head(requests).fd)
  /\ UNCHANGED faults

\* The answer is sent from the handler, before the next request is taken.
Answer ==
  /\ reply # NoRequest
  /\ answers' = Append(answers, reply)
  /\ reply' = NoRequest
  /\ UNCHANGED <<slotVars, caller, handler, requests, open, historyVars>>

\* Sending the answer fails, which is logged.
AnswerLost ==
  /\ reply # NoRequest
  /\ Fault
  /\ reply' = NoRequest
  /\ UNCHANGED <<slotVars, caller, handler, lineVars, open, held, calls, stale, crossed>>

-----------------------------------------------------------------------------
(* The client's receiving thread,                                          *)
(* NetHelperCliRpcReceiveCommProtocolPacket.                               *)

Receive ==
  /\ handler.pc = "rest"
  /\ answers # <<>>
  /\ handler' = [pc |-> "look", at |-> 0, answer |-> Head(answers)]
  /\ answers' = Tail(answers)
  /\ UNCHANGED <<slotVars, caller, requests, serverVars, historyVars>>

\* Mutant of Fits: any slot that waits takes the answer.
FitsWaiting(i, r) ==
  IF r.kind \in Opening THEN slot[i].status = "wait"
  ELSE slot[i].status = "done" /\ slot[i].fd = r.fd

\* Which slot an answer belongs to: by session when it opens a socket, else
\* by descriptor.
Fits(i, r) ==
  IF r.kind \in Opening THEN slot[i].session = r.session
  ELSE slot[i].status = "done" /\ slot[i].fd = r.fd

\* The slots are looked through without the mutex.
Look ==
  LET i == handler.at IN
  /\ handler.pc = "look"
  /\ handler' = IF i = FD_SIZE_MAX THEN Rest
                ELSE IF Fits(i, handler.answer) THEN [handler EXCEPT !.pc = "store"]
                ELSE [handler EXCEPT !.at = i + 1]
  /\ UNCHANGED <<slotVars, caller, lineVars, serverVars, historyVars>>

\* The answer is stored; a new socket's descriptor and status under g_mutex.
Store ==
  LET i == handler.at
      r == handler.answer
  IN
  /\ handler.pc = "store"
  /\ slot' = IF r.kind \in Opening
               THEN [slot EXCEPT ![i].fd = r.fd, ![i].status = "done"] ELSE slot
  /\ result' = [result EXCEPT ![i][r.kind] = r.call]
  /\ crossed' = \/ crossed
                \/ /\ r.kind \in Opening
                   /\ \E j \in Slot \ {i} : slot[j].status = "done" /\ slot[j].fd = r.fd
  /\ handler' = [handler EXCEPT !.pc = "post"]
  /\ UNCHANGED <<sem, session, caller, lineVars, serverVars, held, calls, faults, stale>>

\* Mutant of Post: one semaphore for all kinds of calls.
PostAll ==
  LET i == handler.at IN
  /\ handler.pc = "post"
  /\ sem' = [sem EXCEPT ![i] = [k \in Kind |-> @[k] + 1]]
  /\ handler' = Rest
  /\ UNCHANGED <<slot, result, session, caller, lineVars, serverVars, historyVars>>

\* The caller is woken.  The handler of close goes on to the next slot.
Post ==
  LET i == handler.at
      k == handler.answer.kind
  IN
  /\ handler.pc = "post"
  /\ sem' = [sem EXCEPT ![i][k] = @ + 1]
  /\ handler' = IF k = "close" THEN [handler EXCEPT !.pc = "look", !.at = i + 1] ELSE Rest
  /\ UNCHANGED <<slot, result, session, caller, lineVars, serverVars, historyVars>>

-----------------------------------------------------------------------------
CallerStep(c) ==
  \/ Transmit(c) \/ TransmitLost(c) \/ SendOk(c) \/ SendUnacked(c)
  \/ Failed(c) \/ Wait(c) \/ Release(c) \/ Return(c)

ServerStep  == ServeOpen \/ ServeRefused \/ ServeClose \/ ServeOp \/ Answer \/ AnswerLost
HandlerStep == Receive \/ Look \/ Store \/ Post

Next ==
  \/ \E c \in Caller :
       \/ \E k \in Opening : Open(c, k)
       \/ \E i \in Slot, k \in Op \cup {"close"} : Call(c, i, k)
       \/ CallerStep(c)
  \/ ServerStep
  \/ HandlerStep

Spec == Init /\ [][Next]_vars

\* The server's only thread is in a system call that need not return.
InKernel ==
  /\ reply = NoRequest
  /\ requests # <<>> /\ Head(requests).kind \in Blocking

\* Threads run, and packets on the line arrive; the network promises nothing.
FairSpec ==
  /\ Spec
  /\ \A c \in Caller : WF_vars(CallerStep(c))
  /\ WF_vars(ServerStep /\ ~InKernel)
  /\ WF_vars(HandlerStep)

-----------------------------------------------------------------------------
(* Properties.                                                             *)

\* The types of the variables.
TypeOK ==
  /\ slot \in [Slot -> [status : {"idle", "wait", "done"},
                        session : Nat \cup {-1}, fd : Fd \cup {NoFd}]]
  /\ sem \in [Slot -> [Kind -> Nat]]
  /\ result \in [Slot -> [Kind -> Nat]]
  /\ session \in Nat
  /\ caller \in [Caller -> [pc : {"idle", "send", "sent", "wait", "failed", "release", "return"},
                            req : Request]]
  /\ handler \in [pc : {"rest", "look", "store", "post"}, at : 0 .. FD_SIZE_MAX, answer : Request]
  /\ requests \in Seq(Request) /\ answers \in Seq(Request)
  /\ open \in [Fd -> Nat] /\ reply \in Request
  /\ held \subseteq Slot /\ calls \in Nat /\ faults \in Nat
  /\ stale \subseteq Slot \X Kind /\ crossed \in BOOLEAN

\* The known ways in which a semaphore of kind k in slot i can be off: such a
\* call was reported as failed though the server carried it out; opening or
\* closing was, so that client and server disagree about a descriptor; or two
\* slots had one descriptor.
Off(i, k) ==
  \/ crossed
  \/ <<i, k>> \in stale
  \/ \E t \in stale : t[2] \notin Op

\* A call that has been woken finds the answer to its own request.
OwnAnswer ==
  \A c \in Caller :
    LET r == caller[c].req IN
    caller[c].pc = (IF r.kind = "close" THEN "release" ELSE "return") /\ ~Off(r.slot, r.kind)
      => result[r.slot][r.kind] = r.call

\* The server carries out a call on the socket that was opened for its slot.
OwnSocket ==
  requests # <<>> =>
    LET r == Head(requests) IN
    r.kind \notin Opening /\ ~Off(r.slot, r.kind) => open[r.fd] = r.session

\* A semaphore is up only for a caller that has yet to wait for it.
NoStalePost ==
  \A i \in Slot, k \in Kind :
    ~Off(i, k) => sem[i][k] <= Cardinality({c \in Calling(i, k) : caller[c].pc \in {"sent", "wait"}})

\* A slot that is not idle is being opened by one thread or held: no slot is
\* given to two threads, and none is lost.
SlotsOwned ==
  \A i \in Slot :
    LET openers == UNION {Calling(i, k) : k \in Opening} IN
    /\ Cardinality(openers) + (IF i \in held THEN 1 ELSE 0) <= 1
    /\ slot[i].status # "idle" /\ (\A k \in Opening : <<i, k>> \notin stale)
         => openers # {} \/ i \in held

\* Unless the server stays in a system call for ever, and without a fault of
\* the line, every call returns, except that two slots may have had the same
\* descriptor.
CallsReturn ==
  []<>~InKernel =>
    \A c \in Caller :
      caller[c].pc = "wait" ~> (caller[c].pc = "idle" \/ faults > 0 \/ crossed)

\* "@return socket fd, -1 failed": a call that opens a socket and returns an
\* index has opened one.
OpenedIsOpen ==
  \A c \in Caller :
    LET r == caller[c].req IN
    caller[c].pc = "return" /\ r.kind \in Opening => slot[r.slot].fd # NoFd
=============================================================================
