----------------------------- MODULE EventList -----------------------------
(***************************************************************************)
(* utils/uni_event_list.c: three queues of events, one per priority, and a *)
(* worker thread that hands them to event_handler and then frees them.     *)
(* Threads of the application add events and may clear the queues; the     *)
(* worker waits on a condition while all counters are 0.                   *)
(*                                                                         *)
(* The steps of EventListAdd inside the mutex are separate because the     *)
(* worker also reads the counters outside it.  A critical section whose    *)
(* intermediate states nobody can see is one step.                         *)
(***************************************************************************)
EXTENDS Integers, Sequences, FiniteSets

CONSTANTS
  User,      \* the threads that call EventListAdd and EventListClear
  NoUser,    \* the owner of a free mutex
  MaxAdds,   \* bound: events that are added
  MaxClears  \* bound: calls of EventListClear

ASSUME UserAssumption == NoUser \notin User
ASSUME BoundAssumption == MaxAdds \in Nat /\ MaxClears \in Nat

Priority  == {1, 2, 4}     \* EVENT_LIST_PRIORITY_HIGHEST, MEDIUM, LOWEST
Higher(p) == {q \in Priority : q < p}

VARIABLES
  queue,     \* queue[p]: the items of highest_list, medium_list, lowest_list
  cnt,       \* highest_cnt, medium_cnt, lowest_cnt
  mutex,     \* the user inside the mutex; steps of the worker are whole sections
  running,
  worker,    \* the worker thread
  user,      \* the application threads
  added,     \* history: the priorities of all events, in the order of adding
  handled,   \* history: events given to event_handler
  freed,     \* history: events given to free_handler
  clears     \* calls of EventListClear so far

listVars    == <<queue, cnt>>
historyVars == <<added, handled, freed>>
vars == <<listVars, mutex, running, worker, user, historyVars, clears>>

\* An event is named by its rank in added.
Idle == [pc |-> "idle", prio |-> 1, item |-> 0]

\* EventListCreate.
Init ==
  /\ queue = [p \in Priority |-> <<>>]
  /\ cnt = [p \in Priority |-> 0]
  /\ mutex = NoUser
  /\ running = TRUE
  /\ worker = [pc |-> "loop", prio |-> 1, item |-> 0, final |-> FALSE]
  /\ user = [u \in User |-> Idle]
  /\ added = <<>> /\ handled = <<>> /\ freed = <<>>
  /\ clears = 0

-----------------------------------------------------------------------------
(* EventListAdd.                                                           *)

Adding == {u \in User : user[u].pc \in {"lock", "link"}}

\* The list may be used until it is destroyed.
Add(u) ==
  /\ running
  /\ user[u].pc = "idle"
  /\ Len(added) + Cardinality(Adding) < MaxAdds
  /\ \E p \in Priority : user' = [user EXCEPT ![u] = [pc |-> "lock", prio |-> p, item |-> 0]]
  /\ UNCHANGED <<listVars, mutex, running, worker, historyVars, clears>>

UserGoto(u, pc) == user' = [user EXCEPT ![u].pc = pc]

\* Mutant of AddLock: no mutual exclusion.
AddLockAnyway(u) ==
  /\ user[u].pc = "lock"
  /\ mutex' = u
  /\ UserGoto(u, "link")
  /\ UNCHANGED <<listVars, running, worker, historyVars, clears>>

AddLock(u) ==
  /\ user[u].pc = "lock"
  /\ mutex = NoUser
  /\ mutex' = u
  /\ UserGoto(u, "link")
  /\ UNCHANGED <<listVars, running, worker, historyVars, clears>>

\* Mutant of AddLink: list_add_head for list_add_tail.
AddLinkHead(u) ==
  LET e == Len(added) + 1 IN
  /\ user[u].pc = "link"
  /\ queue' = [queue EXCEPT ![user[u].prio] = <<e>> \o @]
  /\ added' = Append(added, user[u].prio)
  /\ UserGoto(u, "count")
  /\ UNCHANGED <<cnt, mutex, running, worker, handled, freed, clears>>

AddLink(u) ==
  LET e == Len(added) + 1 IN
  /\ user[u].pc = "link"
  /\ queue' = [queue EXCEPT ![user[u].prio] = Append(@, e)]
  /\ added' = Append(added, user[u].prio)
  /\ UserGoto(u, "count")
  /\ UNCHANGED <<cnt, mutex, running, worker, handled, freed, clears>>

\* Mutant of AddCount: every event counts as one of the highest.
AddCountHighest(u) ==
  /\ user[u].pc = "count"
  /\ cnt' = [cnt EXCEPT ![1] = @ + 1]
  /\ UserGoto(u, "signal")
  /\ UNCHANGED <<queue, mutex, running, worker, historyVars, clears>>

AddCount(u) ==
  /\ user[u].pc = "count"
  /\ cnt' = [cnt EXCEPT ![user[u].prio] = @ + 1]
  /\ UserGoto(u, "signal")
  /\ UNCHANGED <<queue, mutex, running, worker, historyVars, clears>>

\* pthread_cond_signal, which wakes the worker if it sleeps, and unlock.
AddSignal(u) ==
  /\ user[u].pc = "signal"
  /\ worker' = IF worker.pc = "sleep" THEN [worker EXCEPT !.pc = "wake"] ELSE worker
  /\ mutex' = NoUser
  /\ user' = [user EXCEPT ![u] = Idle]
  /\ UNCHANGED <<listVars, running, historyVars, clears>>

-----------------------------------------------------------------------------
(* EventListClear: each list in turn, one item at a time, not handled.     *)

Clear(u) ==
  /\ running
  /\ user[u].pc = "idle"
  /\ clears < MaxClears
  /\ clears' = clears + 1
  /\ user' = [user EXCEPT ![u] = [pc |-> "clear", prio |-> 1, item |-> 0]]
  /\ UNCHANGED <<listVars, mutex, running, worker, historyVars>>

\* The first item of list p is taken out.
Take(p) ==
  /\ mutex = NoUser
  /\ queue[p] # <<>>
  /\ queue' = [queue EXCEPT ![p] = Tail(@)]
  /\ cnt' = [cnt EXCEPT ![p] = @ - 1]

ClearTake(u) ==
  LET p == user[u].prio IN
  /\ user[u].pc = "clear"
  /\ Take(p)
  /\ user' = [user EXCEPT ![u] = [pc |-> "free", prio |-> p, item |-> Head(queue[p])]]
  /\ UNCHANGED <<mutex, running, worker, historyVars, clears>>

\* free_handler, outside the mutex.
ClearFree(u) ==
  /\ user[u].pc = "free"
  /\ freed' = Append(freed, user[u].item)
  /\ user' = [user EXCEPT ![u].pc = "clear", ![u].item = 0]
  /\ UNCHANGED <<listVars, mutex, running, worker, added, handled, clears>>

\* The list is empty: on to the next one, or back to the caller.
ClearNext(u) ==
  LET p == user[u].prio IN
  /\ user[u].pc = "clear"
  /\ mutex = NoUser
  /\ queue[p] = <<>>
  /\ user' = [user EXCEPT ![u] = IF p = 4 THEN Idle ELSE [@ EXCEPT !.prio = p * 2]]
  /\ UNCHANGED <<listVars, mutex, running, worker, historyVars, clears>>

\* EventListDestroy, of a list nobody is using.
Destroy ==
  /\ running
  /\ \A u \in User : user[u] = Idle
  /\ running' = FALSE
  /\ UNCHANGED <<listVars, mutex, worker, user, historyVars, clears>>

-----------------------------------------------------------------------------
(* The worker, _event_handler.                                             *)

WorkerGoto(pc) == worker' = [worker EXCEPT !.pc = pc]

\* Mutant of WorkerLoop: the list is given back with its events.
WorkerLoopGone ==
  /\ worker.pc = "loop"
  /\ worker' = [worker EXCEPT !.pc = IF running THEN "take" ELSE "gone", !.prio = 1]
  /\ UNCHANGED <<listVars, mutex, running, user, historyVars, clears>>

\* while (running) consume and wait; then _free_all consumes without handlers.
WorkerLoop ==
  /\ worker.pc = "loop"
  /\ worker' = [worker EXCEPT !.pc = "take", !.prio = 1, !.final = ~running]
  /\ UNCHANGED <<listVars, mutex, running, user, historyVars, clears>>

\* Mutant of Interrupted: the lowest queue does not look at the highest.
InterruptedByNext == ~worker.final /\ worker.prio > 1 /\ cnt[worker.prio \div 2] > 0

\* _medium_interruptable_handler, _lowest_interruptable_handler.
Interrupted == ~worker.final /\ \E q \in Higher(worker.prio) : cnt[q] > 0

WorkerTake ==
  LET p == worker.prio IN
  /\ worker.pc = "take"
  /\ ~Interrupted
  /\ Take(p)
  /\ worker' = [worker EXCEPT !.pc = "handle", !.item = Head(queue[p])]
  /\ UNCHANGED <<mutex, running, user, historyVars, clears>>

\* Mutant of WorkerNext: the final round ends with the medium list.
WorkerNextShort ==
  LET p == worker.prio IN
  /\ worker.pc = "take"
  /\ mutex = NoUser
  /\ Interrupted \/ queue[p] = <<>>
  /\ worker' = IF p < (IF worker.final THEN 2 ELSE 4)
                 THEN [worker EXCEPT !.prio = p * 2]
                 ELSE [worker EXCEPT !.pc = IF worker.final THEN "gone" ELSE "peek", !.prio = 1]
  /\ UNCHANGED <<listVars, mutex, running, user, historyVars, clears>>

\* The list is empty or a higher one is not: on to the next list, then to
\* the wait, or to the end of the event list.
WorkerNext ==
  LET p == worker.prio IN
  /\ worker.pc = "take"
  /\ mutex = NoUser
  /\ Interrupted \/ queue[p] = <<>>
  /\ worker' = IF p < 4
                 THEN [worker EXCEPT !.prio = p * 2]
                 ELSE [worker EXCEPT !.pc = IF worker.final THEN "gone" ELSE "peek", !.prio = 1]
  /\ UNCHANGED <<listVars, mutex, running, user, historyVars, clears>>

\* The handler is called unless the list is being destroyed.
WorkerHandle ==
  /\ worker.pc = "handle"
  /\ handled' = IF running THEN Append(handled, worker.item) ELSE handled
  /\ WorkerGoto("free")
  /\ UNCHANGED <<listVars, mutex, running, user, added, freed, clears>>

\* Mutant of WorkerFree: only an event that is handled is freed.
WorkerFreeHandled ==
  /\ worker.pc = "free"
  /\ freed' = IF running THEN Append(freed, worker.item) ELSE freed
  /\ worker' = [worker EXCEPT !.pc = "take", !.item = 0]
  /\ UNCHANGED <<listVars, mutex, running, user, added, handled, clears>>

WorkerFree ==
  /\ worker.pc = "free"
  /\ freed' = Append(freed, worker.item)
  /\ worker' = [worker EXCEPT !.pc = "take", !.item = 0]
  /\ UNCHANGED <<listVars, mutex, running, user, added, handled, clears>>

\* _all_list_empty outside the mutex, one counter after the other.
WorkerPeek ==
  LET p == worker.prio IN
  /\ worker.pc = "peek"
  /\ worker' = IF cnt[p] # 0 THEN [worker EXCEPT !.pc = "loop"]
               ELSE IF p < 4 THEN [worker EXCEPT !.prio = p * 2]
               ELSE [worker EXCEPT !.pc = "wait"]
  /\ UNCHANGED <<listVars, mutex, running, user, historyVars, clears>>

\* Mutant of WorkerWait: the counters are not looked at again in the mutex.
WorkerWaitAnyway ==
  /\ worker.pc = "wait"
  /\ mutex = NoUser
  /\ WorkerGoto("sleep")
  /\ UNCHANGED <<listVars, mutex, running, user, historyVars, clears>>

\* _all_list_empty again inside the mutex, then pthread_cond_timedwait.
WorkerWait ==
  /\ worker.pc = "wait"
  /\ mutex = NoUser
  /\ WorkerGoto(IF \A p \in Priority : cnt[p] = 0 THEN "sleep" ELSE "loop")
  /\ UNCHANGED <<listVars, mutex, running, user, historyVars, clears>>

\* Mutant of WorkerTimeout: pthread_cond_wait, which only a signal ends.
WorkerTimeoutNever ==
  /\ worker.pc = "sleep"
  /\ \E p \in Priority : cnt[p] > 0
  /\ WorkerGoto("wake")
  /\ UNCHANGED <<listVars, mutex, running, user, historyVars, clears>>

\* The wait ends by itself: after 1000 ms, or spuriously.
WorkerTimeout ==
  /\ worker.pc = "sleep"
  /\ WorkerGoto("wake")
  /\ UNCHANGED <<listVars, mutex, running, user, historyVars, clears>>

\* pthread_cond_timedwait takes the mutex again before it returns.
WorkerWake ==
  /\ worker.pc = "wake"
  /\ mutex = NoUser
  /\ WorkerGoto("loop")
  /\ UNCHANGED <<listVars, mutex, running, user, historyVars, clears>>

-----------------------------------------------------------------------------
UserStep(u) ==
  AddLock(u) \/ AddLink(u) \/ AddCount(u) \/ AddSignal(u)
  \/ ClearTake(u) \/ ClearFree(u) \/ ClearNext(u)

WorkerStep ==
  \/ WorkerLoop \/ WorkerTake \/ WorkerNext \/ WorkerHandle \/ WorkerFree
  \/ WorkerPeek \/ WorkerWait \/ WorkerTimeout \/ WorkerWake

Next ==
  \/ \E u \in User : Add(u) \/ Clear(u) \/ UserStep(u)
  \/ Destroy
  \/ WorkerStep

Spec == Init /\ [][Next]_vars

\* Every thread is scheduled again and again (weak fairness).  That is enough
\* for the worker to get the mutex because callers stop adding: under an
\* endless stream of events of higher priority the lower queues wait.
FairSpec ==
  /\ Spec
  /\ WF_vars(WorkerStep)
  /\ \A u \in User : WF_vars(UserStep(u))

-----------------------------------------------------------------------------
(* Properties.                                                             *)

\* The types of the variables.
TypeOK ==
  /\ queue \in [Priority -> Seq(Nat)]
  /\ cnt \in [Priority -> Nat]
  /\ mutex \in User \cup {NoUser}
  /\ running \in BOOLEAN
  /\ worker \in [pc : {"loop", "take", "handle", "free", "peek", "wait", "sleep", "wake", "gone"},
                 prio : Priority, item : Nat, final : BOOLEAN]
  /\ user \in [User -> [pc : {"idle", "lock", "link", "count", "signal", "clear", "free"},
                        prio : Priority, item : Nat]]
  /\ added \in Seq(Priority)
  /\ handled \in Seq(Nat)
  /\ freed \in Seq(Nat)
  /\ clears \in Nat

\* The counters, which decide whether the worker sleeps and whether a lower
\* queue is served, tell the lengths of the queues, but for the one event
\* that is linked and not yet counted.
CountsMatch ==
  \A p \in Priority :
    Len(queue[p]) = cnt[p] +
      (IF \E u \in User : user[u].pc = "count" /\ user[u].prio = p THEN 1 ELSE 0)

\* The worker never sleeps on the condition with an event in a queue, unless
\* the thread that added it is about to signal: its look at the counters
\* outside the mutex is not what it relies on.
NoSleepWithWork ==
  worker.pc = "sleep" /\ (\E p \in Priority : queue[p] # <<>>) =>
    \E u \in User : user[u].pc \in {"count", "signal"}

Occurrences(e, s) == Cardinality({i \in 1 .. Len(s) : s[i] = e})

\* Where event e is, counted over all places.
Places(e) ==
  Occurrences(e, queue[added[e]]) + Occurrences(e, freed)
  + (IF worker.item = e THEN 1 ELSE 0)
  + Cardinality({u \in User : user[u].item = e})

\* Every event is in its queue, in the hands of one thread or freed, and in
\* one of these places only: no leak, no second free, no use after free by
\* the handler, with a worker and clearing threads that take items at once.
OneOwner == \A e \in 1 .. Len(added) : Places(e) = 1

\* Events of one priority are handled in the order of adding, each once.
HandledInOrder ==
  \A i, j \in 1 .. Len(handled) :
    i < j /\ added[handled[i]] = added[handled[j]] => handled[i] < handled[j]

\* When the worker takes an event to handle it, no event of a higher
\* priority waits.
PriorityRespected ==
  [][WorkerTake /\ ~worker.final => \A q \in Higher(worker.prio) : queue[q] = <<>>]_vars

\* A destroyed list has freed everything before its memory is given back.
GoneIsEmpty ==
  worker.pc = "gone" => \A p \in Priority : queue[p] = <<>>

\* Every event is freed at last, also in the lowest queue, when the list is
\* cleared or destroyed meanwhile.
EveryEventFreed ==
  \A e \in 1 .. MaxAdds :
    Len(added) >= e ~> \E i \in 1 .. Len(freed) : freed[i] = e

\* EventListDestroy ends the worker.
DestroyEnds == ~running ~> worker.pc = "gone"
=============================================================================
