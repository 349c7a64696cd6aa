-------------------------- MODULE EventListProofs --------------------------
(***************************************************************************)
(* Proofs about the event list, for any number of threads and events.  The *)
(* mutex makes linking and counting one (MutexInv, CountsMatch), so the    *)
(* counters the worker trusts before it sleeps, and before it serves a     *)
(* lower queue, tell whether the queues are empty.                         *)
(*                                                                         *)
(* The second half is about where the events are: each is in its queue, in *)
(* the hands of one thread or freed (OneOwner), and those of one priority  *)
(* are handled in the order of adding (HandledInOrder).  Both rest on      *)
(* KnownInv, which says that lists and hands hold events that were added,  *)
(* each in the queue of its priority.                                      *)
(***************************************************************************)
EXTENDS EventList, SequenceTheorems, FiniteSetTheorems, TLAPS

WorkerRec == [pc : {"loop", "take", "handle", "free", "peek", "wait", "sleep", "wake", "gone"},
              prio : Priority, item : Nat, final : BOOLEAN]
UserRec   == [pc : {"idle", "lock", "link", "count", "signal", "clear", "free"},
              prio : Priority, item : Nat]

\* The steps of EventListAdd that a thread takes inside the mutex.
Inside == {"link", "count", "signal"}

MutexInv == \A u \in User : user[u].pc \in Inside <=> mutex = u

\* The list is destroyed when nobody uses it, and the worker's last round
\* leaves the lists behind it empty.
FinalInv ==
  /\ ~running => \A u \in User : user[u] = Idle
  /\ worker.final => ~running
  /\ worker.final => worker.pc \in {"take", "handle", "free", "gone"}
  /\ worker.final => \A q \in Higher(worker.prio) : queue[q] = <<>>
  /\ worker.pc = "gone" => worker.final /\ GoneIsEmpty

IInv == TypeOK /\ MutexInv /\ CountsMatch /\ NoSleepWithWork /\ FinalInv

\* What the invariant says of the variables' types, for the provers.
LEMMA Types ==
  ASSUME IInv
  PROVE  /\ queue \in [Priority -> Seq(Nat)] /\ cnt \in [Priority -> Nat]
         /\ worker \in WorkerRec /\ user \in [User -> UserRec]
         /\ mutex \in User \cup {NoUser} /\ NoUser \notin User
         /\ Len(added) \in Nat
         /\ \A p \in Priority : Len(queue[p]) \in Nat /\ (queue[p] = << >> <=> Len(queue[p]) = 0)
<1>1. /\ queue \in [Priority -> Seq(Nat)] /\ cnt \in [Priority -> Nat]
      /\ worker \in WorkerRec /\ user \in [User -> UserRec]
      /\ mutex \in User \cup {NoUser} /\ added \in Seq(Priority)
  BY DEF IInv, TypeOK, WorkerRec, UserRec
<1>2. \A p \in Priority : Len(queue[p]) \in Nat /\ (queue[p] = << >> <=> Len(queue[p]) = 0)
  BY <1>1, LenProperties, EmptySeq
<1>3. Len(added) \in Nat
  BY <1>1, LenProperties
<1> QED BY <1>1, <1>2, <1>3, UserAssumption

\* With the mutex free every event that is linked is counted.
LEMMA Quiet ==
  ASSUME IInv, mutex = NoUser
  PROVE  /\ \A u \in User : user[u].pc \notin Inside
         /\ \A p \in Priority : Len(queue[p]) = cnt[p]
<1>1. \A u \in User : user[u].pc \notin Inside
  BY Types DEF IInv, MutexInv
<1>2. \A u \in User : user[u].pc # "count"
  BY <1>1 DEF Inside
<1> QED BY <1>1, <1>2, Types DEF IInv, CountsMatch

-----------------------------------------------------------------------------
(* What the building blocks of the actions do.                             *)

LEMMA UserGotoFacts ==
  ASSUME IInv, NEW u \in User, NEW pc, UserGoto(u, pc),
         pc \in {"idle", "lock", "link", "count", "signal", "clear", "free"}
  PROVE  /\ user' \in [User -> UserRec]
         /\ user'[u].pc = pc /\ user'[u].prio = user[u].prio
         /\ \A v \in User \ {u} : user'[v] = user[v]
<1>1. user \in [User -> UserRec]
  BY Types
<1> QED BY <1>1 DEF UserGoto, UserRec

LEMMA WorkerGotoFacts ==
  ASSUME IInv, NEW pc, WorkerGoto(pc),
         pc \in {"loop", "take", "handle", "free", "peek", "wait", "sleep", "wake", "gone"}
  PROVE  /\ worker' \in WorkerRec
         /\ worker'.pc = pc /\ worker'.prio = worker.prio
         /\ worker'.item = worker.item /\ worker'.final = worker.final
<1>1. worker \in WorkerRec
  BY Types
<1> QED BY <1>1 DEF WorkerGoto, WorkerRec

LEMMA TakeFacts ==
  ASSUME IInv, NEW p \in Priority, Take(p)
  PROVE  /\ queue' \in [Priority -> Seq(Nat)] /\ cnt' \in [Priority -> Nat]
         /\ Head(queue[p]) \in Nat
         /\ \A q \in Priority : Len(queue'[q]) = cnt'[q]
         /\ \A q \in Priority : queue[q] = << >> => queue'[q] = << >>
<1>1. /\ mutex = NoUser /\ queue[p] # << >>
      /\ queue' = [queue EXCEPT ![p] = Tail(queue[p])]
      /\ cnt' = [cnt EXCEPT ![p] = cnt[p] - 1]
  BY DEF Take
<1>2. queue \in [Priority -> Seq(Nat)] /\ cnt \in [Priority -> Nat]
  BY Types
<1>3. /\ Head(queue[p]) \in Nat /\ Tail(queue[p]) \in Seq(Nat)
      /\ Len(Tail(queue[p])) = Len(queue[p]) - 1
  BY <1>1, <1>2, HeadTailProperties
<1>4. \A q \in Priority : Len(queue[q]) = cnt[q] /\ Len(queue[q]) \in Nat
  BY <1>1, Quiet, Types
<1>5. cnt[p] > 0
  BY <1>1, <1>4, Types
<1>6. /\ queue'[p] = Tail(queue[p]) /\ cnt'[p] = cnt[p] - 1
      /\ \A q \in Priority \ {p} : queue'[q] = queue[q] /\ cnt'[q] = cnt[q]
  BY <1>1, <1>2
<1>7. queue' \in [Priority -> Seq(Nat)]
  BY <1>1, <1>2, <1>3
<1>8. cnt' \in [Priority -> Nat]
  BY <1>1, <1>2, <1>5
<1>9. \A q \in Priority : Len(queue'[q]) = cnt'[q]
  BY <1>3, <1>4, <1>6
<1>10. \A q \in Priority : queue[q] = << >> => queue'[q] = << >>
  BY <1>1, <1>6
<1> QED BY <1>3, <1>7, <1>8, <1>9, <1>10

-----------------------------------------------------------------------------
(* The steps.                                                              *)

LEMMA InitIInv == Init => IInv
<1> SUFFICES ASSUME Init PROVE IInv
  OBVIOUS
<1>1. TypeOK
  BY EmptySeq DEF Init, TypeOK, Priority, Idle
<1>2. MutexInv
  BY UserAssumption DEF Init, MutexInv, Inside, Idle
<1>3. CountsMatch
  BY EmptySeq DEF Init, CountsMatch, Idle
<1>4. NoSleepWithWork /\ FinalInv
  BY DEF Init, NoSleepWithWork, FinalInv
<1> QED BY <1>1, <1>2, <1>3, <1>4 DEF IInv

\* A thread that is not inside the mutex moves to another place outside it;
\* lists and worker stay as they are.
LEMMA OutsideStep ==
  ASSUME IInv, NEW u \in User, running,
         user' \in [User -> UserRec], \A v \in User \ {u} : user'[v] = user[v],
         user[u].pc \notin Inside, user'[u].pc \notin Inside,
         UNCHANGED <<listVars, mutex, running, worker>>,
         added' \in Seq(Priority), handled' \in Seq(Nat), freed' \in Seq(Nat), clears' \in Nat
  PROVE  IInv'
<1>1. TypeOK'
  BY DEF IInv, TypeOK, listVars, UserRec
<1>2. MutexInv'
  BY DEF IInv, MutexInv
<1>3. /\ \A p \in Priority : (\E v \in User : user'[v].pc = "count" /\ user'[v].prio = p)
                            <=> (\E v \in User : user[v].pc = "count" /\ user[v].prio = p)
      /\ \A v \in User : user[v].pc \in {"count", "signal"} => user'[v] = user[v]
  BY DEF Inside
<1>4. CountsMatch' /\ NoSleepWithWork'
  <2>1. CountsMatch'
    BY <1>3 DEF IInv, CountsMatch, listVars
  <2>2. NoSleepWithWork'
    BY <1>3 DEF IInv, NoSleepWithWork, listVars
  <2> QED BY <2>1, <2>2
<1>5. FinalInv'
  BY DEF IInv, FinalInv, listVars
<1> QED BY <1>1, <1>2, <1>4, <1>5 DEF IInv

LEMMA AddKeeps ==
  ASSUME IInv, NEW u \in User, Add(u) \/ AddLock(u) \/ AddLink(u) \/ AddCount(u) \/ AddSignal(u)
  PROVE  IInv'
<1>0. /\ user \in [User -> UserRec] /\ worker \in WorkerRec
      /\ queue \in [Priority -> Seq(Nat)] /\ cnt \in [Priority -> Nat]
      /\ Len(added) \in Nat /\ added \in Seq(Priority) /\ handled \in Seq(Nat)
      /\ freed \in Seq(Nat) /\ clears \in Nat
      /\ user[u].prio \in Priority
      /\ user[u] # Idle => running
  BY Types DEF IInv, TypeOK, FinalInv, UserRec
<1>1. CASE Add(u)
  <2>1. PICK p \in Priority : user' = [user EXCEPT ![u] = [pc |-> "lock", prio |-> p, item |-> 0]]
    BY <1>1 DEF Add
  <2>2. /\ user' \in [User -> UserRec] /\ \A v \in User \ {u} : user'[v] = user[v]
        /\ user'[u].pc = "lock"
    BY <1>0, <2>1 DEF UserRec
  <2> QED BY <1>0, <1>1, <2>2, OutsideStep DEF Add, Inside, historyVars
<1>2. CASE AddLock(u)
  <2>1. /\ user' \in [User -> UserRec] /\ user'[u].pc = "link"
        /\ \A v \in User \ {u} : user'[v] = user[v]
    BY <1>2, UserGotoFacts DEF AddLock
  <2>2. \A v \in User : user[v].pc \notin Inside
    BY <1>2, Quiet DEF AddLock
  <2>3. TypeOK'
    BY <1>2, <2>1 DEF AddLock, IInv, TypeOK, listVars, historyVars, UserRec
  <2>4. MutexInv'
    BY <1>2, <2>1, <2>2 DEF AddLock, MutexInv, Inside
  <2>5. CountsMatch' /\ NoSleepWithWork'
    BY <1>2, <2>1, <2>2 DEF AddLock, IInv, CountsMatch, NoSleepWithWork, listVars, Inside
  <2>6. FinalInv'
    BY <1>0, <1>2 DEF AddLock, IInv, FinalInv, listVars, Idle
  <2> QED BY <2>3, <2>4, <2>5, <2>6 DEF IInv
<1>3. CASE AddLink(u)
  <2> DEFINE p == user[u].prio
  <2>1. /\ user' \in [User -> UserRec] /\ user'[u].pc = "count" /\ user'[u].prio = p
        /\ \A v \in User \ {u} : user'[v] = user[v]
    BY <1>3, UserGotoFacts DEF AddLink
  <2>2. mutex = u /\ \A v \in User \ {u} : user[v].pc \notin Inside
    BY <1>3 DEF AddLink, IInv, MutexInv, Inside
  <2>3. /\ queue' = [queue EXCEPT ![p] = Append(queue[p], Len(added) + 1)]
        /\ Append(queue[p], Len(added) + 1) \in Seq(Nat)
        /\ Len(Append(queue[p], Len(added) + 1)) = Len(queue[p]) + 1
        /\ added' \in Seq(Priority)
    BY <1>0, <1>3, AppendProperties DEF AddLink
  <2>4. /\ queue' \in [Priority -> Seq(Nat)] /\ Len(queue'[p]) = Len(queue[p]) + 1
        /\ \A q \in Priority \ {p} : queue'[q] = queue[q]
    BY <1>0, <2>3
  <2> HIDE DEF p
  <2>5. TypeOK'
    BY <1>3, <2>1, <2>3, <2>4 DEF AddLink, IInv, TypeOK, UserRec
  <2>6. MutexInv'
    BY <1>3, <2>1, <2>2 DEF AddLink, IInv, MutexInv, Inside
  <2>7. CountsMatch'
    <3>1. \A q \in Priority : Len(queue[q]) = cnt[q]
      <4>1. \A v \in User : user[v].pc # "count"
        BY <1>3, <2>2 DEF AddLink, Inside
      <4> QED BY <4>1, Types DEF IInv, CountsMatch
    <3>2. \A q \in Priority :
            (\E v \in User : user'[v].pc = "count" /\ user'[v].prio = q) <=> q = p
      BY <2>1, <2>2 DEF Inside
    <3>3. \A q \in Priority : Len(queue'[q]) = cnt'[q] + (IF q = p THEN 1 ELSE 0)
      BY <1>0, <1>3, <2>4, <3>1, Types DEF AddLink
    <3> QED BY <3>2, <3>3 DEF CountsMatch
  <2>8. NoSleepWithWork'
    BY <2>1 DEF NoSleepWithWork
  <2>9. FinalInv'
    BY <1>0, <1>3 DEF AddLink, IInv, FinalInv, Idle
  <2> QED BY <2>5, <2>6, <2>7, <2>8, <2>9 DEF IInv
<1>4. CASE AddCount(u)
  <2> DEFINE p == user[u].prio
  <2>1. /\ user' \in [User -> UserRec] /\ user'[u].pc = "signal"
        /\ \A v \in User \ {u} : user'[v] = user[v]
    BY <1>4, UserGotoFacts DEF AddCount
  <2>2. mutex = u /\ \A v \in User \ {u} : user[v].pc \notin Inside
    BY <1>4 DEF AddCount, IInv, MutexInv, Inside
  <2>3. /\ cnt' \in [Priority -> Nat] /\ cnt'[p] = cnt[p] + 1
        /\ \A q \in Priority \ {p} : cnt'[q] = cnt[q]
    BY <1>0, <1>4 DEF AddCount
  <2>4. TypeOK'
    BY <1>4, <2>1, <2>3 DEF AddCount, IInv, TypeOK, UserRec, historyVars
  <2>5. MutexInv'
    BY <1>4, <2>1, <2>2 DEF AddCount, IInv, MutexInv, Inside
  <2>6. CountsMatch'
    <3>1. \A q \in Priority : Len(queue[q]) = cnt[q] + (IF q = p THEN 1 ELSE 0)
      BY <1>4, <2>2 DEF AddCount, IInv, CountsMatch, Inside
    <3>2. \A v \in User : user'[v].pc # "count"
      BY <2>1, <2>2 DEF Inside
    <3> QED BY <1>0, <1>4, <2>3, <3>1, <3>2 DEF AddCount, CountsMatch
  <2>7. NoSleepWithWork'
    BY <2>1 DEF NoSleepWithWork
  <2>8. FinalInv'
    BY <1>0, <1>4 DEF AddCount, IInv, FinalInv, Idle
  <2> QED BY <2>4, <2>5, <2>6, <2>7, <2>8 DEF IInv
<1>5. CASE AddSignal(u)
  <2>1. /\ user' \in [User -> UserRec] /\ user'[u].pc = "idle"
        /\ \A v \in User \ {u} : user'[v] = user[v]
    BY <1>0, <1>5 DEF AddSignal, Idle, UserRec, Priority
  <2>2. mutex = u /\ \A v \in User \ {u} : user[v].pc \notin Inside
    BY <1>5 DEF AddSignal, IInv, MutexInv, Inside
  <2>3. /\ worker' \in WorkerRec /\ worker'.pc # "sleep"
        /\ worker'.final = worker.final /\ worker'.prio = worker.prio
        /\ worker.final => worker'.pc = worker.pc
    BY <1>0, <1>5 DEF AddSignal, IInv, FinalInv, WorkerRec
  <2>4. TypeOK'
    BY <1>5, <2>1, <2>3 DEF AddSignal, IInv, TypeOK, listVars, historyVars, UserRec, WorkerRec
  <2>5. MutexInv'
    BY <1>5, <2>1, <2>2, UserAssumption DEF AddSignal, MutexInv, Inside
  <2>6. CountsMatch'
    BY <1>5, <2>1 DEF AddSignal, IInv, CountsMatch, listVars
  <2>7. NoSleepWithWork'
    BY <2>3 DEF NoSleepWithWork
  <2>8. FinalInv'
    <3>1. running
      BY <1>0, <1>5 DEF AddSignal, Idle
    <3> QED BY <1>5, <2>3, <3>1 DEF AddSignal, IInv, FinalInv, listVars
  <2> QED BY <2>4, <2>5, <2>6, <2>7, <2>8 DEF IInv
<1> QED BY <1>1, <1>2, <1>3, <1>4, <1>5

LEMMA ClearKeeps ==
  ASSUME IInv, NEW u \in User, Clear(u) \/ ClearTake(u) \/ ClearFree(u) \/ ClearNext(u)
  PROVE  IInv'
<1>0. /\ user \in [User -> UserRec] /\ user[u].prio \in Priority
      /\ added \in Seq(Priority) /\ handled \in Seq(Nat) /\ freed \in Seq(Nat) /\ clears \in Nat
      /\ user[u].pc # "idle" => running
      /\ clears + 1 \in Nat
  BY Types DEF IInv, TypeOK, FinalInv, UserRec, Idle
<1>1. CASE Clear(u)
  <2>1. /\ user' \in [User -> UserRec] /\ \A v \in User \ {u} : user'[v] = user[v]
        /\ user'[u].pc = "clear"
    BY <1>0, <1>1 DEF Clear, UserRec, Priority
  <2> QED BY <1>0, <1>1, <2>1, OutsideStep DEF Clear, Inside, historyVars
<1>2. CASE ClearTake(u)
  <2> DEFINE p == user[u].prio
  <2>1. /\ queue' \in [Priority -> Seq(Nat)] /\ cnt' \in [Priority -> Nat]
        /\ Head(queue[p]) \in Nat
        /\ \A q \in Priority : Len(queue'[q]) = cnt'[q]
        /\ \A q \in Priority : queue[q] = << >> => queue'[q] = << >>
    BY <1>0, <1>2, TakeFacts DEF ClearTake
  <2>2. user' = [user EXCEPT ![u] = [pc |-> "free", prio |-> p, item |-> Head(queue[p])]]
    BY <1>2 DEF ClearTake
  <2> HIDE DEF p
  <2>3. [pc |-> "free", prio |-> p, item |-> Head(queue[p])] \in UserRec
    BY <1>0, <2>1 DEF UserRec, p
  <2>4. /\ user' \in [User -> UserRec] /\ user'[u].pc = "free"
        /\ \A v \in User \ {u} : user'[v] = user[v]
    BY <1>0, <2>2, <2>3
  <2>5. /\ mutex = NoUser /\ mutex' = NoUser /\ worker' = worker /\ running' = running
        /\ running
        /\ UNCHANGED <<historyVars, clears>>
    BY <1>0, <1>2 DEF ClearTake, Take
  <2>6. \A v \in User : user[v].pc \notin Inside /\ user'[v].pc \notin Inside
    BY <2>4, <2>5, Quiet DEF Inside
  <2>7. TypeOK'
    BY <2>1, <2>4, <2>5 DEF IInv, TypeOK, UserRec, historyVars
  <2>8. MutexInv'
    BY <2>5, <2>6, UserAssumption DEF MutexInv
  <2>9. CountsMatch'
    <3>1. \A v \in User : user'[v].pc # "count"
      BY <2>6 DEF Inside
    <3> QED BY <2>1, <3>1 DEF CountsMatch
  <2>10. NoSleepWithWork'
    <3>1. worker.pc = "sleep" => \A q \in Priority : queue[q] = << >>
      BY <2>6 DEF IInv, NoSleepWithWork, Inside
    <3> QED BY <2>1, <2>5, <3>1 DEF NoSleepWithWork
  <2>11. FinalInv'
    BY <2>5 DEF IInv, FinalInv
  <2> QED BY <2>7, <2>8, <2>9, <2>10, <2>11 DEF IInv
<1>3. CASE ClearFree(u)
  <2>1. user[u] \in UserRec
    BY <1>0
  <2>2. user[u].item \in Nat
    BY <2>1 DEF UserRec
  <2>3. freed' \in Seq(Nat)
    BY <1>0, <1>3, <2>2, AppendProperties DEF ClearFree
  <2>4. [[user[u] EXCEPT !.pc = "clear"] EXCEPT !.item = 0] \in UserRec
    BY <2>1 DEF UserRec
  <2>5. [[user[u] EXCEPT !.pc = "clear"] EXCEPT !.item = 0].pc = "clear"
    BY <2>1 DEF UserRec
  <2>6. user' = [user EXCEPT ![u] = [[user[u] EXCEPT !.pc = "clear"] EXCEPT !.item = 0]]
    BY <1>0, <1>3 DEF ClearFree
  <2>7. /\ user' \in [User -> UserRec] /\ \A v \in User \ {u} : user'[v] = user[v]
        /\ user'[u].pc = "clear"
    BY <1>0, <2>4, <2>5, <2>6
  <2> QED BY <1>0, <1>3, <2>3, <2>7, OutsideStep DEF ClearFree, Inside, listVars
<1>4. CASE ClearNext(u)
  <2>1. user[u] \in UserRec
    BY <1>0
  <2>2. CASE user[u].prio = 4
    <3>1. user' = [user EXCEPT ![u] = Idle]
      BY <1>4, <2>2 DEF ClearNext
    <3>2. /\ user' \in [User -> UserRec] /\ \A v \in User \ {u} : user'[v] = user[v]
          /\ user'[u].pc = "idle"
      BY <1>0, <3>1 DEF UserRec, Idle, Priority
    <3> QED BY <1>0, <1>4, <3>2, OutsideStep DEF ClearNext, Inside, historyVars
  <2>3. CASE user[u].prio # 4
    <3>1. user[u].prio * 2 \in Priority
      BY <1>0, <2>3 DEF Priority
    <3>2. [user[u] EXCEPT !.prio = user[u].prio * 2] \in UserRec
      BY <2>1, <3>1 DEF UserRec
    <3>3. user' = [user EXCEPT ![u] = [user[u] EXCEPT !.prio = user[u].prio * 2]]
      BY <1>4, <2>3 DEF ClearNext
    <3>4. user'[u] = [user[u] EXCEPT !.prio = user[u].prio * 2]
      BY <1>0, <3>3
    <3>5. user'[u].pc = "clear"
      BY <1>4, <2>1, <3>4 DEF ClearNext, UserRec
    <3>6. /\ user' \in [User -> UserRec] /\ \A v \in User \ {u} : user'[v] = user[v]
          /\ user'[u].pc = "clear"
      BY <1>0, <3>2, <3>3, <3>5
    <3> QED BY <1>0, <1>4, <3>6, OutsideStep DEF ClearNext, Inside, historyVars
  <2> QED BY <2>2, <2>3
<1> QED BY <1>1, <1>2, <1>3, <1>4

LEMMA DestroyKeeps == ASSUME IInv, Destroy PROVE IInv'
<1>1. TypeOK' /\ MutexInv' /\ CountsMatch' /\ NoSleepWithWork'
  BY DEF Destroy, IInv, TypeOK, MutexInv, CountsMatch, NoSleepWithWork, listVars, historyVars
<1>2. FinalInv'
  BY DEF Destroy, IInv, FinalInv, listVars
<1> QED BY <1>1, <1>2 DEF IInv

-----------------------------------------------------------------------------
(* The worker.                                                             *)

\* A step of the worker that leaves the lists and the users alone.
LEMMA WorkerQuietStep ==
  ASSUME IInv, worker' \in WorkerRec,
         UNCHANGED <<listVars, mutex, running, user, added, clears>>,
         handled' \in Seq(Nat), freed' \in Seq(Nat),
         worker'.pc = "sleep" => \A p \in Priority : queue[p] = << >>,
         worker'.final =>
           /\ ~running
           /\ worker'.pc \in {"take", "handle", "free", "gone"}
           /\ \A q \in Higher(worker'.prio) : queue[q] = << >>,
         worker'.pc = "gone" => worker'.final /\ \A p \in Priority : queue[p] = << >>
  PROVE  IInv'
<1>1. TypeOK'
  BY DEF IInv, TypeOK, listVars, WorkerRec
<1>2. MutexInv' /\ CountsMatch'
  BY DEF IInv, MutexInv, CountsMatch, listVars
<1>3. NoSleepWithWork'
  BY DEF NoSleepWithWork, listVars
<1>4. FinalInv'
  BY DEF IInv, FinalInv, GoneIsEmpty, listVars
<1> QED BY <1>1, <1>2, <1>3, <1>4 DEF IInv

\* The lists above the next one are those above this one, and this one.
LEMMA NextHigher ==
  ASSUME NEW p \in Priority, p < 4
  PROVE  p * 2 \in Priority /\ Higher(p * 2) = Higher(p) \cup {p}
  BY DEF Priority, Higher

LEMMA WorkerKeeps == ASSUME IInv, WorkerStep PROVE IInv'
<1>0. /\ worker \in WorkerRec /\ worker.prio \in Priority /\ worker.item \in Nat
      /\ worker.pc \in {"loop", "take", "handle", "free", "peek", "wait", "sleep", "wake", "gone"}
      /\ worker.final \in BOOLEAN
      /\ handled \in Seq(Nat) /\ freed \in Seq(Nat)
      /\ worker.final =>
           /\ ~running /\ worker.pc \in {"take", "handle", "free", "gone"}
           /\ \A q \in Higher(worker.prio) : queue[q] = << >>
  BY Types DEF IInv, TypeOK, WorkerRec, FinalInv
<1>1. CASE WorkerLoop
  <2>1. worker' = [[[worker EXCEPT !.pc = "take"] EXCEPT !.prio = 1] EXCEPT !.final = ~running]
    BY <1>0, <1>1 DEF WorkerLoop, WorkerRec
  <2>2. running \in BOOLEAN
    BY DEF IInv, TypeOK
  <2>3. /\ worker' \in WorkerRec /\ worker'.pc = "take" /\ worker'.prio = 1
        /\ worker'.final = ~running
    BY <1>0, <2>1, <2>2 DEF WorkerRec, Priority
  <2>4. Higher(1) = {}
    BY DEF Higher, Priority
  <2>5. worker'.final => ~running
    BY <2>3
  <2> QED BY <1>0, <1>1, <2>3, <2>4, <2>5, WorkerQuietStep DEF WorkerLoop, historyVars
<1>2. CASE WorkerTake
  <2> DEFINE p == worker.prio
  <2>1. /\ queue' \in [Priority -> Seq(Nat)] /\ cnt' \in [Priority -> Nat]
        /\ Head(queue[p]) \in Nat
        /\ \A q \in Priority : Len(queue'[q]) = cnt'[q]
        /\ \A q \in Priority : queue[q] = << >> => queue'[q] = << >>
    BY <1>0, <1>2, TakeFacts DEF WorkerTake
  <2>2. worker' = [[worker EXCEPT !.pc = "handle"] EXCEPT !.item = Head(queue[p])]
    BY <1>0, <1>2 DEF WorkerTake, WorkerRec
  <2>3. worker' \in WorkerRec /\ worker'.pc = "handle" /\ worker'.prio = p /\ worker'.final = worker.final
    BY <1>0, <2>1, <2>2 DEF WorkerRec
  <2> HIDE DEF p
  <2>4. mutex = NoUser /\ UNCHANGED <<mutex, running, user, historyVars, clears>>
    BY <1>2 DEF WorkerTake, Take
  <2>5. TypeOK'
    BY <2>1, <2>3, <2>4 DEF IInv, TypeOK, WorkerRec, historyVars
  <2>6. MutexInv' /\ NoSleepWithWork'
    BY <2>3, <2>4 DEF IInv, MutexInv, NoSleepWithWork
  <2>7. CountsMatch'
    <3>1. \A v \in User : user'[v].pc # "count"
      BY <2>4, Quiet DEF Inside
    <3> QED BY <2>1, <3>1 DEF CountsMatch
  <2>8. FinalInv'
    <3>1. \A q \in Higher(worker.prio) : q \in Priority
      BY DEF Higher
    <3> QED BY <1>0, <2>1, <2>3, <2>4, <3>1 DEF IInv, FinalInv, p
  <2> QED BY <2>5, <2>6, <2>7, <2>8 DEF IInv
<1>3. CASE WorkerNext
  <2>1. worker.final => queue[worker.prio] = << >>
    BY <1>3 DEF WorkerNext, Interrupted
  <2>2. CASE worker.prio < 4
    <3>1. /\ worker' \in WorkerRec /\ worker'.pc = "take" /\ worker'.prio = worker.prio * 2
          /\ worker'.final = worker.final
      BY <1>0, <1>3, <2>2, NextHigher DEF WorkerNext, WorkerRec
    <3>2. worker.final => \A q \in Higher(worker'.prio) : queue[q] = << >>
      BY <1>0, <2>1, <2>2, <3>1, NextHigher
    <3> QED BY <1>0, <1>3, <3>1, <3>2, WorkerQuietStep DEF WorkerNext, historyVars
  <2>3. CASE ~(worker.prio < 4)
    <3>1. worker' = [[worker EXCEPT !.pc = IF worker.final THEN "gone" ELSE "peek"] EXCEPT !.prio = 1]
      BY <1>0, <1>3, <2>3 DEF WorkerNext, WorkerRec
    <3>2. /\ worker' \in WorkerRec /\ worker'.prio = 1 /\ worker'.final = worker.final
          /\ worker'.pc \in {"gone", "peek"} /\ (worker.final => worker'.pc = "gone")
      BY <1>0, <3>1 DEF WorkerRec, Priority
    <3>3. Higher(1) = {} /\ worker.prio = 4 /\ Priority = Higher(4) \cup {4}
      BY <1>0, <2>3 DEF Higher, Priority
    <3>4. worker'.pc = "gone" => worker'.final /\ \A p \in Priority : queue[p] = << >>
      BY <1>0, <2>1, <3>1, <3>2, <3>3
    <3> QED BY <1>0, <1>3, <3>2, <3>3, <3>4, WorkerQuietStep DEF WorkerNext, historyVars
  <2> QED BY <2>2, <2>3
<1>4. CASE WorkerHandle
  <2>1. /\ worker' \in WorkerRec /\ worker'.pc = "free" /\ worker'.prio = worker.prio
        /\ worker'.final = worker.final
    BY <1>4, WorkerGotoFacts DEF WorkerHandle
  <2>2. handled' \in Seq(Nat)
    BY <1>0, <1>4, AppendProperties DEF WorkerHandle
  <2> QED BY <1>0, <1>4, <2>1, <2>2, WorkerQuietStep DEF WorkerHandle
<1>5. CASE WorkerFree
  <2>1. worker' = [[worker EXCEPT !.pc = "take"] EXCEPT !.item = 0]
    BY <1>0, <1>5 DEF WorkerFree, WorkerRec
  <2>2. /\ worker' \in WorkerRec /\ worker'.pc = "take" /\ worker'.prio = worker.prio
        /\ worker'.final = worker.final
    BY <1>0, <2>1 DEF WorkerRec
  <2>3. freed' \in Seq(Nat)
    BY <1>0, <1>5, AppendProperties DEF WorkerFree
  <2> QED BY <1>0, <1>5, <2>2, <2>3, WorkerQuietStep DEF WorkerFree
<1>6. CASE WorkerPeek
  <2>1. worker' \in WorkerRec /\ worker'.pc \in {"loop", "peek", "wait"} /\ worker'.final = worker.final
    BY <1>0, <1>6, NextHigher DEF WorkerPeek, WorkerRec
  <2>2. ~worker.final
    BY <1>0, <1>6 DEF WorkerPeek
  <2> QED BY <1>0, <1>6, <2>1, <2>2, WorkerQuietStep DEF WorkerPeek, historyVars
<1>7. CASE WorkerWait
  <2>1. /\ worker' \in WorkerRec /\ worker'.final = worker.final /\ worker'.pc # "gone"
        /\ worker'.pc = "sleep" => \A p \in Priority : cnt[p] = 0
    BY <1>7, WorkerGotoFacts DEF WorkerWait
  <2>2. \A p \in Priority : cnt[p] = 0 => queue[p] = << >>
    BY <1>7, Quiet, Types DEF WorkerWait
  <2>3. ~worker.final
    BY <1>0, <1>7 DEF WorkerWait
  <2> QED BY <1>0, <1>7, <2>1, <2>2, <2>3, WorkerQuietStep DEF WorkerWait, historyVars
<1>8. CASE WorkerTimeout \/ WorkerWake
  <2>1. worker' \in WorkerRec /\ worker'.pc \notin {"sleep", "gone"} /\ worker'.final = worker.final
    BY <1>8, WorkerGotoFacts DEF WorkerTimeout, WorkerWake
  <2>2. ~worker.final
    BY <1>0, <1>8 DEF WorkerTimeout, WorkerWake
  <2> QED BY <1>0, <1>8, <2>1, <2>2, WorkerQuietStep DEF WorkerTimeout, WorkerWake, historyVars
<1> QED BY <1>1, <1>2, <1>3, <1>4, <1>5, <1>6, <1>7, <1>8 DEF WorkerStep
-----------------------------------------------------------------------------
LEMMA StepIInv == IInv /\ [Next]_vars => IInv'
<1> SUFFICES ASSUME IInv, [Next]_vars PROVE IInv'
  OBVIOUS
<1>1. ASSUME NEW u \in User, Add(u) \/ Clear(u) \/ UserStep(u) PROVE IInv'
  BY <1>1, AddKeeps, ClearKeeps DEF UserStep
<1>2. CASE UNCHANGED vars
  BY <1>2 DEF vars, listVars, historyVars, IInv, TypeOK, MutexInv, CountsMatch,
              NoSleepWithWork, FinalInv, GoneIsEmpty
<1> QED BY <1>1, <1>2, DestroyKeeps, WorkerKeeps DEF Next

LEMMA SpecIInv == Spec => []IInv
<1>1. Init => IInv
  BY InitIInv
<1>2. IInv /\ [Next]_vars => IInv'
  BY StepIInv
<1> QED BY <1>1, <1>2, PTL DEF Spec

\* Type correctness: in particular no counter falls below 0, because the
\* mutex keeps the worker from an event that is linked and not yet counted.
THEOREM ListTypeOK == Spec => []TypeOK
<1>1. IInv => TypeOK
  BY DEF IInv
<1> QED BY <1>1, SpecIInv, PTL

\* The counters of the event list tell the lengths of its queues.
THEOREM ListCountsMatch == Spec => []CountsMatch
<1>1. IInv => CountsMatch
  BY DEF IInv
<1> QED BY <1>1, SpecIInv, PTL

\* The worker never sleeps while an event waits that nobody will signal.
THEOREM ListNoSleepWithWork == Spec => []NoSleepWithWork
<1>1. IInv => NoSleepWithWork
  BY DEF IInv
<1> QED BY <1>1, SpecIInv, PTL

\* A destroyed list is empty when its memory is given back.
THEOREM ListGoneIsEmpty == Spec => []GoneIsEmpty
<1>1. IInv => GoneIsEmpty
  BY DEF IInv, FinalInv, GoneIsEmpty
<1> QED BY <1>1, SpecIInv, PTL

\* When the worker takes an event to handle it, every queue of a higher
\* priority is empty: their counters are 0, and inside the mutex a counter
\* of 0 means an empty queue.
THEOREM ListPriorityRespected == Spec => PriorityRespected
<1>1. IInv /\ [Next]_vars =>
        [WorkerTake /\ ~worker.final => \A q \in Higher(worker.prio) : queue[q] = << >>]_vars
  <2> SUFFICES ASSUME IInv, WorkerTake, ~worker.final, NEW q \in Higher(worker.prio)
               PROVE  queue[q] = << >>
    OBVIOUS
  <2>1. mutex = NoUser /\ q \in Priority /\ ~(cnt[q] > 0)
    BY DEF WorkerTake, Take, Interrupted, Higher
  <2> QED BY <2>1, Quiet, Types
<1> QED BY <1>1, SpecIInv, PTL DEF Spec, PriorityRespected

-----------------------------------------------------------------------------
(* Where every event is.                                                   *)

\* What the lists and the hands hold.
KnownInv ==
  /\ \A p \in Priority : \A i \in 1 .. Len(queue[p]) :
       queue[p][i] \in 1 .. Len(added) /\ added[queue[p][i]] = p
  /\ \A i \in 1 .. Len(freed) : freed[i] \in 1 .. Len(added)
  /\ worker.item \in 0 .. Len(added)
  /\ worker.item # 0 <=> worker.pc \in {"handle", "free"}
  /\ \A u \in User : user[u].item \in 0 .. Len(added)
  /\ \A u \in User : user[u].item # 0 <=> user[u].pc = "free"

\* The threads that hold event e.
Holders(e) == {u \in User : user[u].item = e}

\* OneOwner with what Cardinality needs to count.
OwnerInv == OneOwner /\ \A e \in 1 .. Len(added) : IsFiniteSet(Holders(e))

\* Each queue is in the order of adding, behind the event in the worker's
\* hands and behind what was handled before.
OrderInv ==
  /\ \A p \in Priority : \A i, j \in 1 .. Len(queue[p]) : i < j => queue[p][i] < queue[p][j]
  /\ \A i \in 1 .. Len(handled) : handled[i] \in 1 .. Len(added)
  /\ \A i \in 1 .. Len(handled) :
       LET q == queue[added[handled[i]]] IN \A k \in 1 .. Len(q) : handled[i] < q[k]
  /\ worker.pc = "handle" =>
       LET q == queue[added[worker.item]] IN
         /\ \A k \in 1 .. Len(q) : worker.item < q[k]
         /\ \A i \in 1 .. Len(handled) :
              added[handled[i]] = added[worker.item] => handled[i] < worker.item
  /\ HandledInOrder

-----------------------------------------------------------------------------
(* How often an event occurs in a sequence.                                *)

LEMMA OccursType ==
  ASSUME NEW s \in Seq(Nat), NEW e
  PROVE  /\ IsFiniteSet({i \in 1 .. Len(s) : s[i] = e})
         /\ Occurrences(e, s) \in Nat
<1>1. Len(s) \in Nat
  BY LenProperties
<1>2. IsFiniteSet(1 .. Len(s))
  BY <1>1, FS_Interval
<1>3. IsFiniteSet({i \in 1 .. Len(s) : s[i] = e})
  BY <1>2, FS_Subset
<1> QED BY <1>3, FS_CardinalityType DEF Occurrences

LEMMA OccursNowhere ==
  ASSUME NEW s \in Seq(Nat), NEW e, \A i \in 1 .. Len(s) : s[i] # e
  PROVE  Occurrences(e, s) = 0
<1>1. {i \in 1 .. Len(s) : s[i] = e} = {}
  OBVIOUS
<1> QED BY <1>1, FS_EmptySet DEF Occurrences

LEMMA OccursAppend ==
  ASSUME NEW s \in Seq(Nat), NEW x \in Nat, NEW e
  PROVE  Occurrences(e, Append(s, x)) = Occurrences(e, s) + (IF x = e THEN 1 ELSE 0)
<1> DEFINE old == {i \in 1 .. Len(s) : s[i] = e}
           new == {i \in 1 .. Len(Append(s, x)) : Append(s, x)[i] = e}
<1>1. /\ Len(s) \in Nat /\ Len(Append(s, x)) = Len(s) + 1
      /\ \A i \in 1 .. Len(s) : Append(s, x)[i] = s[i]
      /\ Append(s, x)[Len(s) + 1] = x
  BY LenProperties, AppendProperties
<1>2. new = IF x = e THEN old \cup {Len(s) + 1} ELSE old
  BY <1>1
<1>3. IsFiniteSet(old) /\ Len(s) + 1 \notin old
  <2>1. IsFiniteSet(old)
    BY OccursType
  <2>2. Len(s) + 1 \notin old
    BY <1>1
  <2> QED BY <2>1, <2>2
<1> HIDE DEF old, new
<1>4. Cardinality(old \cup {Len(s) + 1}) = Cardinality(old) + 1 /\ Cardinality(old) \in Nat
  BY <1>3, FS_AddElement, FS_CardinalityType
<1>5. CASE x = e
  <2>1. Cardinality(new) = Cardinality(old) + 1
    BY <1>2, <1>4, <1>5
  <2> QED BY <1>5, <2>1 DEF Occurrences, old, new
<1>6. CASE x # e
  <2>1. Cardinality(new) = Cardinality(old) + 0
    BY <1>2, <1>4, <1>6
  <2> QED BY <1>6, <2>1 DEF Occurrences, old, new
<1> QED BY <1>5, <1>6

LEMMA OccursTail ==
  ASSUME NEW s \in Seq(Nat), s # << >>, NEW e
  PROVE  Occurrences(e, s) = Occurrences(e, Tail(s)) + (IF Head(s) = e THEN 1 ELSE 0)
<1> DEFINE rest  == {i \in 1 .. Len(Tail(s)) : Tail(s)[i] = e}
           later == {i \in 2 .. Len(s) : s[i] = e}
           all   == {i \in 1 .. Len(s) : s[i] = e}
           shift == [i \in rest |-> i + 1]
<1>1. /\ Tail(s) \in Seq(Nat) /\ Len(Tail(s)) = Len(s) - 1
      /\ \A i \in 1 .. Len(Tail(s)) : Tail(s)[i] = s[i + 1]
      /\ Len(s) \in Nat \ {0} /\ Head(s) = s[1]
  BY HeadTailProperties, EmptySeq, LenProperties
<1>2. IsFiniteSet(rest) /\ IsFiniteSet(all)
  BY <1>1, OccursType
<1>3. \A i \in rest : i + 1 \in later
  BY <1>1
<1>4. shift \in Injection(rest, later)
  <2>1. shift \in [rest -> later]
    BY <1>3
  <2>2. \A i, j \in rest : shift[i] = shift[j] => i = j
    BY <1>1
  <2> HIDE DEF shift, rest, later
  <2> QED BY <2>1, <2>2 DEF Injection, IsInjective
<1>5. \A j \in later : j - 1 \in rest /\ shift[j - 1] = j
  BY <1>1
<1>6. shift \in Surjection(rest, later)
  BY <1>3, <1>5 DEF Surjection
<1>7. ExistsBijection(rest, later)
  BY <1>4, <1>6 DEF Bijection, ExistsBijection
<1> HIDE DEF rest, later, all, shift
<1>8. IsFiniteSet(later) /\ Cardinality(later) = Cardinality(rest)
  BY <1>2, <1>7, FS_Bijection
<1>9. Cardinality(later \cup {1}) = Cardinality(later) + 1 /\ Cardinality(later) \in Nat
  <2>1. 1 \notin later
    BY DEF later
  <2> QED BY <1>8, <2>1, FS_AddElement, FS_CardinalityType
<1>10. CASE Head(s) = e
  <2>1. all = later \cup {1}
    BY <1>1, <1>10 DEF all, later
  <2>2. Cardinality(all) = Cardinality(rest) + 1
    BY <1>8, <1>9, <2>1
  <2> QED BY <1>10, <2>2 DEF Occurrences, all, rest
<1>11. CASE Head(s) # e
  <2>1. all = later
    BY <1>1, <1>11 DEF all, later
  <2>2. Cardinality(all) = Cardinality(rest) + 0
    BY <1>8, <1>9, <2>1
  <2> QED BY <1>11, <2>2 DEF Occurrences, all, rest
<1> QED BY <1>10, <1>11

\* One thread takes something into its hands or puts it down.
LEMMA HoldersChange ==
  ASSUME NEW e, NEW u \in User, IsFiniteSet(Holders(e)),
         \A v \in User \ {u} : user'[v].item = user[v].item
  PROVE  /\ IsFiniteSet(Holders(e)')
         /\ Cardinality(Holders(e)) \in Nat /\ Cardinality(Holders(e)') \in Nat
         /\ user[u].item = e /\ user'[u].item # e =>
              Cardinality(Holders(e)') = Cardinality(Holders(e)) - 1
         /\ user[u].item # e /\ user'[u].item = e =>
              Cardinality(Holders(e)') = Cardinality(Holders(e)) + 1
         /\ (user[u].item = e <=> user'[u].item = e) =>
              Cardinality(Holders(e)') = Cardinality(Holders(e))
<1> DEFINE old == Holders(e)
           new == Holders(e)'
<1>1. /\ user[u].item = e <=> u \in old
      /\ user'[u].item = e <=> u \in new
      /\ \A v : v # u => (v \in new <=> v \in old)
  BY DEF Holders
<1>2. new \in {old, old \cup {u}, old \ {u}}
  BY <1>1
<1> HIDE DEF old, new
<1>3. IsFiniteSet(old) /\ Cardinality(old) \in Nat
  BY FS_CardinalityType DEF old
<1>4. CASE u \in old
  <2>1. IsFiniteSet(old \ {u}) /\ Cardinality(old \ {u}) = Cardinality(old) - 1
    BY <1>3, <1>4, FS_RemoveElement
  <2>2. ASSUME u \in new PROVE new = old
    <3>1. \A v : v \in new <=> v \in old
      BY <1>1, <1>4, <2>2
    <3> QED BY <3>1
  <2>3. u \notin new => new = old \ {u}
    BY <1>1, <1>4
  <2>4. IsFiniteSet(new)
    BY <1>3, <2>1, <2>2, <2>3
  <2>5. Cardinality(new) \in Nat
    BY <2>4, FS_CardinalityType
  <2> QED BY <1>1, <1>3, <1>4, <2>1, <2>2, <2>3, <2>4, <2>5 DEF old, new
<1>5. CASE u \notin old
  <2>1. IsFiniteSet(old \cup {u}) /\ Cardinality(old \cup {u}) = Cardinality(old) + 1
    BY <1>3, <1>5, FS_AddElement
  <2>2. u \notin new => new = old
    BY <1>1, <1>5
  <2>3. u \in new => new = old \cup {u}
    BY <1>1, <1>5
  <2>4. IsFiniteSet(new)
    BY <1>3, <2>1, <2>2, <2>3
  <2>5. Cardinality(new) \in Nat
    BY <2>4, FS_CardinalityType
  <2> QED BY <1>1, <1>3, <1>5, <2>1, <2>2, <2>3, <2>4, <2>5 DEF old, new
<1> QED BY <1>4, <1>5

-----------------------------------------------------------------------------
(* Steps that move no event.                                               *)

WhereInv == KnownInv /\ OwnerInv /\ OrderInv

LEMMA WhereTypes ==
  ASSUME IInv
  PROVE  /\ queue \in [Priority -> Seq(Nat)] /\ \A p \in Priority : queue[p] \in Seq(Nat)
         /\ added \in Seq(Priority) /\ handled \in Seq(Nat) /\ freed \in Seq(Nat)
         /\ Len(added) \in Nat /\ Len(handled) \in Nat /\ Len(freed) \in Nat
         /\ \A e \in 1 .. Len(added) : added[e] \in Priority
         /\ worker \in WorkerRec /\ worker.item \in Nat /\ worker.prio \in Priority
         /\ user \in [User -> UserRec]
         /\ \A u \in User : user[u].item \in Nat /\ user[u].prio \in Priority
<1>1. /\ queue \in [Priority -> Seq(Nat)] /\ worker \in WorkerRec /\ user \in [User -> UserRec]
      /\ added \in Seq(Priority) /\ handled \in Seq(Nat) /\ freed \in Seq(Nat)
  BY Types DEF IInv, TypeOK
<1>2. \A e \in 1 .. Len(added) : added[e] \in Priority
  BY <1>1, ElementOfSeq
<1>3. Len(added) \in Nat /\ Len(handled) \in Nat /\ Len(freed) \in Nat
  BY <1>1, LenProperties
<1>4. worker.item \in Nat /\ worker.prio \in Priority
  BY <1>1 DEF WorkerRec
<1>5. \A u \in User : user[u].item \in Nat /\ user[u].prio \in Priority
  BY <1>1 DEF UserRec
<1> QED BY <1>1, <1>2, <1>3, <1>4, <1>5

LEMMA SameItems ==
  ASSUME WhereInv, UNCHANGED <<queue, historyVars>>,
         worker'.item = worker.item,
         worker'.pc \in {"handle", "free"} <=> worker.pc \in {"handle", "free"},
         worker'.pc = "handle" => worker.pc = "handle",
         \A u \in User : user'[u].item = user[u].item,
         \A u \in User : user'[u].pc = "free" <=> user[u].pc = "free"
  PROVE  WhereInv'
<1>1. KnownInv'
  BY DEF WhereInv, KnownInv, historyVars
<1>2. \A e : Holders(e)' = Holders(e)
  BY DEF Holders
<1>3. \A e : Places(e)' = Places(e)
  BY <1>2 DEF Places, Holders, historyVars
<1>4. OwnerInv'
  BY <1>2, <1>3 DEF WhereInv, OwnerInv, OneOwner, historyVars
<1>5. OrderInv'
  BY DEF WhereInv, OrderInv, HandledInOrder, historyVars
<1> QED BY <1>1, <1>4, <1>5 DEF WhereInv
-----------------------------------------------------------------------------
(* EventListAdd puts the event behind all others.                          *)

LEMMA LinkKeeps == ASSUME IInv, WhereInv, NEW u \in User, AddLink(u) PROVE WhereInv'
<1> DEFINE p == user[u].prio
<1> PICK n : n = Len(added) + 1
  OBVIOUS
<1>0. /\ queue \in [Priority -> Seq(Nat)] /\ p \in Priority /\ n \in Nat /\ Len(added) \in Nat
      /\ added \in Seq(Priority) /\ freed \in Seq(Nat) /\ queue[p] \in Seq(Nat)
      /\ \A q \in Priority : Len(queue[q]) \in Nat
      /\ \A e \in 1 .. Len(added) : added[e] \in Priority
  BY WhereTypes, Types
<1>1. /\ queue' = [queue EXCEPT ![p] = Append(queue[p], n)]
      /\ added' = Append(added, p)
      /\ UNCHANGED <<worker, handled, freed>>
  BY DEF AddLink
<1>2. /\ Len(added') = n /\ added'[n] = p
      /\ \A e \in 1 .. Len(added) : added'[e] = added[e]
  BY <1>0, <1>1, AppendProperties
<1>3. /\ \A q \in Priority \ {p} : queue'[q] = queue[q]
      /\ queue'[p] = Append(queue[p], n)
      /\ Len(queue'[p]) = Len(queue[p]) + 1
      /\ \A i \in 1 .. Len(queue[p]) : queue'[p][i] = queue[p][i]
      /\ queue'[p][Len(queue[p]) + 1] = n
  BY <1>0, <1>1, AppendProperties
<1>4. /\ \A v \in User : user'[v].item = user[v].item
      /\ \A v \in User : user'[v].pc = "free" <=> user[v].pc = "free"
  <2>1. user \in [User -> UserRec] /\ user[u].pc = "link"
    BY WhereTypes DEF AddLink
  <2>2. user' = [user EXCEPT ![u] = [user[u] EXCEPT !.pc = "count"]]
    BY DEF AddLink, UserGoto
  <2> QED BY <2>1, <2>2 DEF UserRec
<1>5. /\ \A q \in Priority : \A i \in 1 .. Len(queue[q]) :
           queue[q][i] \in 1 .. Len(added) /\ added[queue[q][i]] = q
      /\ \A i \in 1 .. Len(freed) : freed[i] \in 1 .. Len(added)
      /\ worker.item \in 0 .. Len(added)
      /\ worker.item # 0 <=> worker.pc \in {"handle", "free"}
      /\ \A v \in User : user[v].item \in 0 .. Len(added)
      /\ \A v \in User : user[v].item # 0 <=> user[v].pc = "free"
  BY DEF WhereInv, KnownInv
<1> HIDE DEF p
<1>6. /\ \A e \in 1 .. Len(added) : e \in 1 .. n /\ e < n /\ e # n
      /\ \A e \in 0 .. Len(added) : e \in 0 .. n /\ e # n
      /\ n \in 1 .. n /\ \A e \in 1 .. n : e = n \/ e \in 1 .. Len(added)
  BY <1>0
<1>7. ASSUME NEW q \in Priority, NEW i \in 1 .. Len(queue'[q]), q # p \/ i # Len(queue[p]) + 1
      PROVE  i \in 1 .. Len(queue[q]) /\ queue'[q][i] = queue[q][i]
  <2>1. CASE q = p
    <3>1. i \in 1 .. (Len(queue[p]) + 1) /\ i # Len(queue[p]) + 1
      BY <1>3, <1>7, <2>1
    <3>2. i \in 1 .. Len(queue[p])
      BY <1>0, <3>1
    <3> QED BY <1>3, <2>1, <3>2
  <2>2. CASE q # p
    BY <1>3, <2>2
  <2> QED BY <2>1, <2>2
<1>8. KnownInv'
  <2>1. ASSUME NEW q \in Priority, NEW i \in 1 .. Len(queue'[q])
        PROVE  queue'[q][i] \in 1 .. Len(added') /\ added'[queue'[q][i]] = q
    <3>1. CASE q = p /\ i = Len(queue[p]) + 1
      BY <1>2, <1>3, <1>6, <3>1
    <3>2. CASE q # p \/ i # Len(queue[p]) + 1
      <4>1. i \in 1 .. Len(queue[q]) /\ queue'[q][i] = queue[q][i]
        BY <1>7, <3>2
      <4>2. queue[q][i] \in 1 .. Len(added) /\ added[queue[q][i]] = q
        BY <1>5, <4>1
      <4> QED BY <1>2, <1>6, <4>1, <4>2
    <3> QED BY <3>1, <3>2
  <2>2. \A i \in 1 .. Len(freed') : freed'[i] \in 1 .. Len(added')
    BY <1>1, <1>2, <1>5, <1>6
  <2>3. /\ worker'.item \in 0 .. Len(added')
        /\ worker'.item # 0 <=> worker'.pc \in {"handle", "free"}
    BY <1>1, <1>2, <1>5, <1>6
  <2>4. /\ \A v \in User : user'[v].item \in 0 .. Len(added')
        /\ \A v \in User : user'[v].item # 0 <=> user'[v].pc = "free"
    BY <1>2, <1>4, <1>5, <1>6
  <2> QED BY <2>1, <2>2, <2>3, <2>4 DEF KnownInv
<1>9. \A e : Holders(e)' = Holders(e)
  BY <1>4 DEF Holders
<1>10. OwnerInv'
  <2>1. ASSUME NEW e \in 1 .. Len(added) PROVE Places(e)' = 1 /\ IsFiniteSet(Holders(e)')
    <3>1. IsFiniteSet(Holders(e)) /\ Places(e) = 1
      BY DEF WhereInv, OwnerInv, OneOwner
    <3>2. Occurrences(e, queue'[added'[e]]) = Occurrences(e, queue[added[e]])
      <4>1. CASE added[e] = p
        <5>1. n # e
          BY <1>6
        <5>2. /\ Occurrences(e, Append(queue[p], n)) = Occurrences(e, queue[p]) + (IF n = e THEN 1 ELSE 0)
              /\ Occurrences(e, queue[p]) \in Nat
          BY <1>0, OccursAppend, OccursType
        <5>3. Occurrences(e, Append(queue[p], n)) = Occurrences(e, queue[p])
          BY <5>1, <5>2
        <5> QED BY <1>2, <1>3, <4>1, <5>3
      <4>2. CASE added[e] # p
        BY <1>0, <1>2, <1>3, <4>2
      <4> QED BY <4>1, <4>2
    <3>3. Occurrences(e, freed') = Occurrences(e, freed) /\ worker' = worker
      BY <1>1
    <3>4. Places(e)' = Places(e)
      BY <1>9, <3>2, <3>3 DEF Places, Holders
    <3> QED BY <1>9, <3>1, <3>4
  <2>2. Places(n)' = 1 /\ IsFiniteSet(Holders(n)')
    <3>1. Holders(n)' = {}
      BY <1>4, <1>5, <1>6 DEF Holders
    <3>2. IsFiniteSet(Holders(n)') /\ Cardinality(Holders(n)') = 0
      BY <3>1, FS_EmptySet
    <3>3. Occurrences(n, queue[p]) = 0 /\ Occurrences(n, freed) = 0
      <4>1. \A i \in 1 .. Len(queue[p]) : queue[p][i] # n
        BY <1>0, <1>5, <1>6
      <4>2. \A i \in 1 .. Len(freed) : freed[i] # n
        BY <1>0, <1>5, <1>6
      <4> QED BY <1>0, <4>1, <4>2, OccursNowhere
    <3>4. Occurrences(n, Append(queue[p], n)) = 1
      BY <1>0, <3>3, OccursAppend
    <3>5. worker'.item # n
      BY <1>1, <1>5, <1>6
    <3>6. Occurrences(n, queue'[added'[n]]) = 1 /\ Occurrences(n, freed') = 0
      BY <1>1, <1>2, <1>3, <3>3, <3>4
    <3> QED BY <3>2, <3>5, <3>6 DEF Places, Holders
  <2>3. \A e \in 1 .. Len(added') : e = n \/ e \in 1 .. Len(added)
    BY <1>2, <1>6
  <2> QED BY <2>1, <2>2, <2>3 DEF OwnerInv, OneOwner
<1>11. OrderInv'
  <2>1. ASSUME NEW q \in Priority, NEW i \in 1 .. Len(queue'[q]), NEW j \in 1 .. Len(queue'[q]), i < j
        PROVE  queue'[q][i] < queue'[q][j]
    <3>1. i \in 1 .. Len(queue[q]) /\ queue'[q][i] = queue[q][i]
      <4>1. i # Len(queue'[q])
        BY <2>1
      <4> QED BY <1>3, <1>7, <4>1
    <3>2. queue[q][i] < n
      BY <1>5, <1>6, <3>1
    <3>3. CASE q = p /\ j = Len(queue[p]) + 1
      BY <1>3, <3>1, <3>2, <3>3
    <3>4. CASE q # p \/ j # Len(queue[p]) + 1
      <4>1. j \in 1 .. Len(queue[q]) /\ queue'[q][j] = queue[q][j]
        BY <1>7, <3>4
      <4> QED BY <2>1, <3>1, <4>1 DEF WhereInv, OrderInv
    <3> QED BY <3>3, <3>4
  <2>2. ASSUME NEW e \in 1 .. Len(added),
               \A k \in 1 .. Len(queue[added[e]]) : e < queue[added[e]][k]
        PROVE  \A k \in 1 .. Len(queue'[added'[e]]) : e < queue'[added'[e]][k]
    <3>1. e < n /\ added'[e] = added[e] /\ added[e] \in Priority
      BY <1>0, <1>2, <1>6
    <3>2. ASSUME NEW k \in 1 .. Len(queue'[added[e]]) PROVE e < queue'[added[e]][k]
      <4>1. CASE added[e] = p /\ k = Len(queue[p]) + 1
        BY <1>3, <3>1, <4>1
      <4>2. CASE added[e] # p \/ k # Len(queue[p]) + 1
        BY <1>7, <2>2, <3>1, <4>2
      <4> QED BY <4>1, <4>2
    <3> QED BY <3>1, <3>2
  <2>3. /\ \A i \in 1 .. Len(handled) : handled[i] \in 1 .. Len(added)
        /\ \A i \in 1 .. Len(handled) :
             \A k \in 1 .. Len(queue[added[handled[i]]]) : handled[i] < queue[added[handled[i]]][k]
    BY DEF WhereInv, OrderInv
  <2>4. \A i \in 1 .. Len(handled') : handled'[i] \in 1 .. Len(added')
    BY <1>1, <1>2, <1>6, <2>3
  <2>5. \A i \in 1 .. Len(handled') :
          \A k \in 1 .. Len(queue'[added'[handled'[i]]]) : handled'[i] < queue'[added'[handled'[i]]][k]
    BY <1>1, <2>2, <2>3
  <2>6. \A i \in 1 .. Len(handled) : added'[handled[i]] = added[handled[i]]
    BY <1>2, <2>3
  <2>7. ASSUME worker'.pc = "handle"
        PROVE  /\ \A k \in 1 .. Len(queue'[added'[worker'.item]]) : worker'.item < queue'[added'[worker'.item]][k]
               /\ \A i \in 1 .. Len(handled') :
                    added'[handled'[i]] = added'[worker'.item] => handled'[i] < worker'.item
    <3>1. worker'.item = worker.item /\ worker.pc = "handle"
      BY <1>1, <2>7
    <3>2. worker.item \in 1 .. Len(added)
      BY <1>0, <1>5, <3>1
    <3>3. /\ \A k \in 1 .. Len(queue[added[worker.item]]) : worker.item < queue[added[worker.item]][k]
          /\ \A i \in 1 .. Len(handled) :
               added[handled[i]] = added[worker.item] => handled[i] < worker.item
      BY <3>1 DEF WhereInv, OrderInv
    <3>4. added'[worker.item] = added[worker.item]
      BY <1>2, <3>2
    <3> QED BY <1>1, <2>2, <2>6, <3>1, <3>2, <3>3, <3>4
  <2>8. HandledInOrder'
    BY <1>1, <2>6 DEF WhereInv, OrderInv, HandledInOrder
  <2> QED BY <2>1, <2>4, <2>5, <2>7, <2>8 DEF OrderInv
<1> QED BY <1>8, <1>10, <1>11 DEF WhereInv
-----------------------------------------------------------------------------
(* The first item of a list goes into the hands of a thread.               *)

\* What Take does to the lists, by position.
LEMMA TakeShift ==
  ASSUME IInv, NEW p \in Priority, Take(p)
  PROVE  /\ Head(queue[p]) = queue[p][1] /\ 1 \in 1 .. Len(queue[p]) /\ queue[p] # << >>
         /\ \A q \in Priority \ {p} : queue'[q] = queue[q]
         /\ queue'[p] = Tail(queue[p])
         /\ \A i \in 1 .. Len(queue'[p]) :
              i \in Nat /\ i + 1 \in 1 .. Len(queue[p]) /\ queue'[p][i] = queue[p][i + 1]
<1>1. queue[p] # << >> /\ queue' = [queue EXCEPT ![p] = Tail(queue[p])]
  BY DEF Take
<1>2. queue \in [Priority -> Seq(Nat)] /\ queue[p] \in Seq(Nat) /\ Len(queue[p]) \in Nat \ {0}
  BY <1>1, WhereTypes, EmptySeq
<1>3. /\ Len(Tail(queue[p])) = Len(queue[p]) - 1
      /\ \A i \in 1 .. Len(Tail(queue[p])) : Tail(queue[p])[i] = queue[p][i + 1]
  BY <1>1, <1>2, HeadTailProperties
<1>4. queue'[p] = Tail(queue[p]) /\ \A q \in Priority \ {p} : queue'[q] = queue[q]
  BY <1>1, <1>2
<1> QED BY <1>1, <1>2, <1>3, <1>4

\* A list that loses its first item still holds what it should, in order.
LEMMA TakeKnown ==
  ASSUME IInv, WhereInv, NEW p \in Priority, Take(p), UNCHANGED <<added, handled>>
  PROVE  /\ Head(queue[p]) \in 1 .. Len(added) /\ added[Head(queue[p])] = p
         /\ \A q \in Priority : \A i \in 1 .. Len(queue'[q]) :
              queue'[q][i] \in 1 .. Len(added) /\ added[queue'[q][i]] = q
         /\ \A q \in Priority : \A i, j \in 1 .. Len(queue'[q]) : i < j => queue'[q][i] < queue'[q][j]
         /\ \A k \in 1 .. Len(queue'[p]) : Head(queue[p]) < queue'[p][k]
         /\ \A i \in 1 .. Len(handled) : handled[i] \in 1 .. Len(added)
         /\ \A i \in 1 .. Len(handled) : added[handled[i]] = p => handled[i] < Head(queue[p])
         /\ \A i \in 1 .. Len(handled) :
              LET q == queue'[added[handled[i]]] IN \A k \in 1 .. Len(q) : handled[i] < q[k]
<1>1. /\ Head(queue[p]) = queue[p][1] /\ 1 \in 1 .. Len(queue[p])
      /\ \A q \in Priority \ {p} : queue'[q] = queue[q]
      /\ \A i \in 1 .. Len(queue'[p]) :
           i \in Nat /\ i + 1 \in 1 .. Len(queue[p]) /\ queue'[p][i] = queue[p][i + 1]
  BY TakeShift
<1>2. /\ \A q \in Priority : \A i \in 1 .. Len(queue[q]) :
           queue[q][i] \in 1 .. Len(added) /\ added[queue[q][i]] = q
      /\ \A q \in Priority : \A i, j \in 1 .. Len(queue[q]) : i < j => queue[q][i] < queue[q][j]
      /\ \A i \in 1 .. Len(handled) : handled[i] \in 1 .. Len(added)
      /\ \A i \in 1 .. Len(handled) : \A k \in 1 .. Len(queue[added[handled[i]]]) :
           handled[i] < queue[added[handled[i]]][k]
  BY DEF WhereInv, KnownInv, OrderInv
<1>3. \A e \in 1 .. Len(added) : added[e] \in Priority
  BY WhereTypes
<1>4. Head(queue[p]) \in 1 .. Len(added) /\ added[Head(queue[p])] = p
  BY <1>1, <1>2
<1>5. \A q \in Priority : \A i \in 1 .. Len(queue'[q]) :
        queue'[q][i] \in 1 .. Len(added) /\ added[queue'[q][i]] = q
  BY <1>1, <1>2
<1>6. ASSUME NEW q \in Priority, NEW i \in 1 .. Len(queue'[q]), NEW j \in 1 .. Len(queue'[q]), i < j
      PROVE  queue'[q][i] < queue'[q][j]
  <2>1. CASE q = p
    <3>1. i + 1 < j + 1 /\ i + 1 \in 1 .. Len(queue[p]) /\ j + 1 \in 1 .. Len(queue[p])
      BY <1>1, <1>6, <2>1
    <3> QED BY <1>1, <1>2, <2>1, <3>1
  <2>2. CASE q # p
    BY <1>1, <1>2, <1>6, <2>2
  <2> QED BY <2>1, <2>2
<1>7. \A k \in 1 .. Len(queue'[p]) : Head(queue[p]) < queue'[p][k]
  <2> TAKE k \in 1 .. Len(queue'[p])
  <2>1. 1 < k + 1 /\ k + 1 \in 1 .. Len(queue[p])
    BY <1>1
  <2> QED BY <1>1, <1>2, <2>1
<1>8. \A i \in 1 .. Len(handled) : added[handled[i]] = p => handled[i] < Head(queue[p])
  BY <1>1, <1>2
<1>9. ASSUME NEW i \in 1 .. Len(handled), NEW k \in 1 .. Len(queue'[added[handled[i]]])
      PROVE  handled[i] < queue'[added[handled[i]]][k]
  <2>1. added[handled[i]] \in Priority
    BY <1>2, <1>3
  <2>2. CASE added[handled[i]] = p
    BY <1>1, <1>2, <2>2
  <2>3. CASE added[handled[i]] # p
    BY <1>1, <1>2, <2>1, <2>3
  <2> QED BY <2>2, <2>3
<1> QED BY <1>2, <1>4, <1>5, <1>6, <1>7, <1>8, <1>9

\* Only the event that is taken occurs less often in its list.
LEMMA TakeOccurs ==
  ASSUME IInv, WhereInv, NEW p \in Priority, Take(p), UNCHANGED <<added, handled>>,
         NEW e \in 1 .. Len(added)
  PROVE  /\ Occurrences(e, queue'[added[e]]) \in Nat
         /\ Occurrences(e, queue[added[e]]) =
              Occurrences(e, queue'[added[e]]) + (IF Head(queue[p]) = e THEN 1 ELSE 0)
<1>1. /\ \A q \in Priority \ {p} : queue'[q] = queue[q]
      /\ queue'[p] = Tail(queue[p]) /\ queue[p] # << >>
  BY TakeShift
<1>2. added[Head(queue[p])] = p
  BY TakeKnown
<1>3. added[e] \in Priority /\ queue[added[e]] \in Seq(Nat)
  BY WhereTypes
<1>4. CASE added[e] = p
  <2>1. Tail(queue[p]) \in Seq(Nat)
    BY <1>1, <1>3, <1>4, HeadTailProperties
  <2>2. Occurrences(e, Tail(queue[p])) \in Nat
    BY <2>1, OccursType
  <2>3. Occurrences(e, queue[p]) = Occurrences(e, Tail(queue[p])) + (IF Head(queue[p]) = e THEN 1 ELSE 0)
    BY <1>1, <1>3, <1>4, OccursTail
  <2> QED BY <1>1, <1>4, <2>2, <2>3
<1>5. CASE added[e] # p
  <2>1. Head(queue[p]) # e /\ queue'[added[e]] = queue[added[e]]
    BY <1>1, <1>2, <1>3, <1>5
  <2>2. Occurrences(e, queue[added[e]]) \in Nat
    BY <1>3, OccursType
  <2> QED BY <2>1, <2>2
<1> QED BY <1>4, <1>5

LEMMA ClearTakeKeeps == ASSUME IInv, WhereInv, NEW u \in User, ClearTake(u) PROVE WhereInv'
<1> DEFINE p == user[u].prio
           x == Head(queue[p])
<1>1. /\ p \in Priority /\ Take(p) /\ user[u].pc = "clear"
      /\ UNCHANGED <<worker, added, handled, freed>>
      /\ user' = [user EXCEPT ![u] = [pc |-> "free", prio |-> p, item |-> x]]
      /\ user \in [User -> UserRec]
  BY WhereTypes DEF ClearTake, historyVars
<1>2. /\ x \in 1 .. Len(added) /\ added[x] = p
      /\ \A q \in Priority : \A i \in 1 .. Len(queue'[q]) :
           queue'[q][i] \in 1 .. Len(added) /\ added[queue'[q][i]] = q
      /\ \A q \in Priority : \A i, j \in 1 .. Len(queue'[q]) : i < j => queue'[q][i] < queue'[q][j]
      /\ \A i \in 1 .. Len(handled) : handled[i] \in 1 .. Len(added)
      /\ \A i \in 1 .. Len(handled) :
           LET q == queue'[added[handled[i]]] IN \A k \in 1 .. Len(q) : handled[i] < q[k]
  BY <1>1, TakeKnown
<1>3. /\ user'[u].pc = "free" /\ user'[u].item = x
      /\ \A v \in User \ {u} : user'[v] = user[v]
  BY <1>1
<1>4. \A e \in 1 .. Len(added) :
        /\ Occurrences(e, queue'[added[e]]) \in Nat
        /\ Occurrences(e, queue[added[e]]) =
             Occurrences(e, queue'[added[e]]) + (IF x = e THEN 1 ELSE 0)
  BY <1>1, TakeOccurs
<1>5. user[u].item = 0
  BY <1>1 DEF WhereInv, KnownInv
<1> HIDE DEF p, x
<1>6. KnownInv'
  <2>1. \A q \in Priority : \A i \in 1 .. Len(queue'[q]) :
          queue'[q][i] \in 1 .. Len(added') /\ added'[queue'[q][i]] = q
    BY <1>1, <1>2, <1>3 DEF WhereInv, KnownInv
  <2>2. /\ \A v \in User : user'[v].item \in 0 .. Len(added')
        /\ \A v \in User : user'[v].item # 0 <=> user'[v].pc = "free"
    BY <1>1, <1>2, <1>3 DEF WhereInv, KnownInv
  <2>3. /\ worker'.item \in 0 .. Len(added')
        /\ worker'.item # 0 <=> worker'.pc \in {"handle", "free"}
    BY <1>1, <1>2, <1>3 DEF WhereInv, KnownInv
  <2>4. \A i \in 1 .. Len(freed') : freed'[i] \in 1 .. Len(added')
    BY <1>1, <1>2, <1>3 DEF WhereInv, KnownInv
  <2> QED BY <2>1, <2>2, <2>3, <2>4 DEF KnownInv
<1>7. OwnerInv'
  <2> SUFFICES ASSUME NEW e \in 1 .. Len(added)
               PROVE  Places(e)' = 1 /\ IsFiniteSet(Holders(e)')
    BY <1>1 DEF OwnerInv, OneOwner
  <2>1. IsFiniteSet(Holders(e)) /\ Places(e) = 1 /\ e # 0
    BY DEF WhereInv, OwnerInv, OneOwner
  <2>2. /\ IsFiniteSet(Holders(e)')
        /\ Cardinality(Holders(e)) \in Nat
        /\ Cardinality(Holders(e)') = Cardinality(Holders(e)) + (IF x = e THEN 1 ELSE 0)
    <3>1. \A v \in User \ {u} : user'[v].item = user[v].item
      BY <1>3
    <3>2. /\ IsFiniteSet(Holders(e)')
          /\ Cardinality(Holders(e)) \in Nat
          /\ user[u].item # e /\ user'[u].item = e =>
               Cardinality(Holders(e)') = Cardinality(Holders(e)) + 1
          /\ (user[u].item = e <=> user'[u].item = e) =>
               Cardinality(Holders(e)') = Cardinality(Holders(e))
      BY <2>1, <3>1, HoldersChange
    <3> QED BY <1>3, <1>5, <2>1, <3>2
  <2>3. Occurrences(e, freed) \in Nat
    BY WhereTypes, OccursType
  <2>4. /\ Occurrences(e, queue'[added[e]]) \in Nat
        /\ Occurrences(e, queue[added[e]]) =
             Occurrences(e, queue'[added[e]]) + (IF x = e THEN 1 ELSE 0)
    BY <1>4
  <2> DEFINE w == IF worker.item = e THEN 1 ELSE 0
  <2>5. /\ Places(e)' = Occurrences(e, queue'[added[e]]) + Occurrences(e, freed)
                          + w + Cardinality(Holders(e)')
        /\ Places(e) = Occurrences(e, queue[added[e]]) + Occurrences(e, freed)
                         + w + Cardinality(Holders(e))
        /\ w \in Nat
    <3>1. UNCHANGED <<worker, added, freed>>
      BY <1>1
    <3> QED BY <3>1 DEF Places, Holders
  <2> HIDE DEF w
  <2>6. Places(e)' = Places(e)
    BY <2>2, <2>3, <2>4, <2>5
  <2> QED BY <2>1, <2>2, <2>6
<1>8. OrderInv'
  <2>1. ASSUME worker.pc = "handle"
        PROVE  LET q == queue'[added[worker.item]] IN \A k \in 1 .. Len(q) : worker.item < q[k]
    <3>1. worker.item \in 1 .. Len(added)
      BY <2>1, WhereTypes DEF WhereInv, KnownInv
    <3>2. added[worker.item] \in Priority
      BY <3>1, WhereTypes
    <3>3. \A k \in 1 .. Len(queue[added[worker.item]]) : worker.item < queue[added[worker.item]][k]
      BY <2>1 DEF WhereInv, OrderInv
    <3>4. /\ \A q \in Priority \ {p} : queue'[q] = queue[q]
          /\ \A i \in 1 .. Len(queue'[p]) :
               i + 1 \in 1 .. Len(queue[p]) /\ queue'[p][i] = queue[p][i + 1]
      BY <1>1, TakeShift
    <3> QED BY <3>2, <3>3, <3>4
  <2> QED BY <1>1, <1>2, <2>1 DEF WhereInv, OrderInv, HandledInOrder
<1> QED BY <1>6, <1>7, <1>8 DEF WhereInv

LEMMA WorkerTakeKeeps == ASSUME IInv, WhereInv, WorkerTake PROVE WhereInv'
<1> DEFINE p == worker.prio
           x == Head(queue[p])
<1>1. /\ p \in Priority /\ Take(p) /\ worker.pc = "take"
      /\ UNCHANGED <<user, added, handled, freed>>
      /\ worker \in WorkerRec
  BY WhereTypes DEF WorkerTake, historyVars
<1>2. /\ x \in 1 .. Len(added) /\ added[x] = p
      /\ \A q \in Priority : \A i \in 1 .. Len(queue'[q]) :
           queue'[q][i] \in 1 .. Len(added) /\ added[queue'[q][i]] = q
      /\ \A q \in Priority : \A i, j \in 1 .. Len(queue'[q]) : i < j => queue'[q][i] < queue'[q][j]
      /\ \A k \in 1 .. Len(queue'[p]) : x < queue'[p][k]
      /\ \A i \in 1 .. Len(handled) : handled[i] \in 1 .. Len(added)
      /\ \A i \in 1 .. Len(handled) : added[handled[i]] = p => handled[i] < x
      /\ \A i \in 1 .. Len(handled) :
           LET q == queue'[added[handled[i]]] IN \A k \in 1 .. Len(q) : handled[i] < q[k]
  BY <1>1, TakeKnown
<1>3. worker'.pc = "handle" /\ worker'.item = x
  <2>1. worker' = [[worker EXCEPT !.pc = "handle"] EXCEPT !.item = x]
    BY <1>1 DEF WorkerTake, WorkerRec
  <2> QED BY <1>1, <2>1 DEF WorkerRec
<1>4. \A e \in 1 .. Len(added) :
        /\ Occurrences(e, queue'[added[e]]) \in Nat
        /\ Occurrences(e, queue[added[e]]) =
             Occurrences(e, queue'[added[e]]) + (IF x = e THEN 1 ELSE 0)
  BY <1>1, TakeOccurs
<1>5. worker.item = 0
  BY <1>1 DEF WhereInv, KnownInv
<1> HIDE DEF p, x
<1>6. KnownInv'
  <2>1. \A q \in Priority : \A i \in 1 .. Len(queue'[q]) :
          queue'[q][i] \in 1 .. Len(added') /\ added'[queue'[q][i]] = q
    BY <1>1, <1>2, <1>3 DEF WhereInv, KnownInv
  <2>2. /\ \A v \in User : user'[v].item \in 0 .. Len(added')
        /\ \A v \in User : user'[v].item # 0 <=> user'[v].pc = "free"
    BY <1>1, <1>2, <1>3 DEF WhereInv, KnownInv
  <2>3. /\ worker'.item \in 0 .. Len(added')
        /\ worker'.item # 0 <=> worker'.pc \in {"handle", "free"}
    BY <1>1, <1>2, <1>3 DEF WhereInv, KnownInv
  <2>4. \A i \in 1 .. Len(freed') : freed'[i] \in 1 .. Len(added')
    BY <1>1, <1>2, <1>3 DEF WhereInv, KnownInv
  <2> QED BY <2>1, <2>2, <2>3, <2>4 DEF KnownInv
<1>7. OwnerInv'
  <2> SUFFICES ASSUME NEW e \in 1 .. Len(added)
               PROVE  Places(e)' = 1 /\ IsFiniteSet(Holders(e)')
    BY <1>1 DEF OwnerInv, OneOwner
  <2>1. IsFiniteSet(Holders(e)) /\ Places(e) = 1 /\ e # 0
    BY DEF WhereInv, OwnerInv, OneOwner
  <2>2. Holders(e)' = Holders(e)
    BY <1>1 DEF Holders
  <2>3. Occurrences(e, freed) \in Nat /\ Cardinality(Holders(e)) \in Nat
    BY <2>1, WhereTypes, OccursType, FS_CardinalityType
  <2> PICK f, h : f = Occurrences(e, freed) /\ h = Cardinality(Holders(e))
    OBVIOUS
  <2> PICK a, b : a = Occurrences(e, queue[added[e]]) /\ b = Occurrences(e, queue'[added[e]])
    OBVIOUS
  <2>4. a + f + 0 + h = 1
    BY <1>5, <2>1 DEF Places, Holders
  <2>5. Places(e)' = b + f + (IF x = e THEN 1 ELSE 0) + h
    BY <1>1, <1>3, <2>2 DEF Places, Holders
  <2>6. a = b + (IF x = e THEN 1 ELSE 0) /\ b \in Nat
    BY <1>4
  <2>7. Places(e)' = 1
    BY <2>3, <2>4, <2>5, <2>6
  <2> QED BY <2>1, <2>2, <2>7
<1>8. OrderInv'
  BY <1>1, <1>2, <1>3 DEF WhereInv, OrderInv, HandledInOrder
<1> QED BY <1>6, <1>7, <1>8 DEF WhereInv
-----------------------------------------------------------------------------
(* free_handler and event_handler.                                         *)

LEMMA ClearFreeKeeps == ASSUME IInv, WhereInv, NEW u \in User, ClearFree(u) PROVE WhereInv'
<1> DEFINE x == user[u].item
<1>1. /\ user[u].pc = "free" /\ x \in 1 .. Len(added) /\ x \in Nat
      /\ freed' = Append(freed, x)
      /\ UNCHANGED <<queue, worker, added, handled>>
  BY WhereTypes DEF ClearFree, listVars, WhereInv, KnownInv
<1>2. /\ user'[u].pc = "clear" /\ user'[u].item = 0
      /\ \A v \in User \ {u} : user'[v] = user[v]
  <2>1. user \in [User -> UserRec] /\ user[u] \in UserRec
    BY WhereTypes
  <2>2. user' = [user EXCEPT ![u] = [[user[u] EXCEPT !.pc = "clear"] EXCEPT !.item = 0]]
    BY <2>1 DEF ClearFree
  <2> QED BY <2>1, <2>2 DEF UserRec
<1>3. /\ freed \in Seq(Nat) /\ Len(freed) \in Nat
      /\ Len(freed') = Len(freed) + 1 /\ freed'[Len(freed) + 1] = x
      /\ \A i \in 1 .. Len(freed) : freed'[i] = freed[i]
  BY <1>1, WhereTypes, AppendProperties
<1> HIDE DEF x
<1>4. KnownInv'
  <2>1. \A i \in 1 .. Len(freed') : freed'[i] \in 1 .. Len(added')
    BY <1>1, <1>3 DEF WhereInv, KnownInv
  <2>2. \A q \in Priority : \A i \in 1 .. Len(queue'[q]) :
          queue'[q][i] \in 1 .. Len(added') /\ added'[queue'[q][i]] = q
    BY <1>1, <1>2 DEF WhereInv, KnownInv
  <2>3. /\ \A v \in User : user'[v].item \in 0 .. Len(added')
        /\ \A v \in User : user'[v].item # 0 <=> user'[v].pc = "free"
    BY <1>1, <1>2 DEF WhereInv, KnownInv
  <2>4. /\ worker'.item \in 0 .. Len(added')
        /\ worker'.item # 0 <=> worker'.pc \in {"handle", "free"}
    BY <1>1, <1>2 DEF WhereInv, KnownInv
  <2> QED BY <2>1, <2>2, <2>3, <2>4 DEF KnownInv
<1>5. OwnerInv'
  <2> SUFFICES ASSUME NEW e \in 1 .. Len(added)
               PROVE  Places(e)' = 1 /\ IsFiniteSet(Holders(e)')
    BY <1>1 DEF OwnerInv, OneOwner
  <2>1. IsFiniteSet(Holders(e)) /\ Places(e) = 1 /\ e # 0
    BY DEF WhereInv, OwnerInv, OneOwner
  <2>2. /\ IsFiniteSet(Holders(e)')
        /\ Cardinality(Holders(e)') \in Nat
        /\ Cardinality(Holders(e)) = Cardinality(Holders(e)') + (IF x = e THEN 1 ELSE 0)
    <3>1. \A v \in User \ {u} : user'[v].item = user[v].item
      BY <1>2
    <3>2. /\ IsFiniteSet(Holders(e)')
          /\ Cardinality(Holders(e)) \in Nat /\ Cardinality(Holders(e)') \in Nat
          /\ user[u].item = e /\ user'[u].item # e =>
               Cardinality(Holders(e)') = Cardinality(Holders(e)) - 1
          /\ (user[u].item = e <=> user'[u].item = e) =>
               Cardinality(Holders(e)') = Cardinality(Holders(e))
      BY <2>1, <3>1, HoldersChange
    <3> QED BY <1>2, <2>1, <3>2 DEF x
  <2>3. /\ Occurrences(e, freed) \in Nat
        /\ Occurrences(e, freed') = Occurrences(e, freed) + (IF x = e THEN 1 ELSE 0)
    BY <1>1, <1>3, OccursType, OccursAppend
  <2>4. Occurrences(e, queue[added[e]]) \in Nat
    BY WhereTypes, OccursType
  <2> PICK a, f, h, k : /\ a = Occurrences(e, queue[added[e]]) /\ f = Occurrences(e, freed)
                       /\ h = Cardinality(Holders(e)') /\ k = IF x = e THEN 1 ELSE 0
    OBVIOUS
  <2> PICK w : w = IF worker.item = e THEN 1 ELSE 0
    OBVIOUS
  <2>5. a + f + w + (h + k) = 1
    BY <2>1, <2>2 DEF Places, Holders
  <2>6. Places(e)' = a + (f + k) + w + h
    BY <1>1, <2>3 DEF Places, Holders
  <2>7. k \in Nat /\ w \in Nat /\ a \in Nat /\ f \in Nat /\ h \in Nat
    BY <2>2, <2>3, <2>4
  <2>8. a + (f + k) + w + h = a + f + w + (h + k)
    BY <2>7
  <2> QED BY <2>2, <2>5, <2>6, <2>8
<1>6. OrderInv'
  BY <1>1 DEF WhereInv, OrderInv, HandledInOrder
<1> QED BY <1>4, <1>5, <1>6 DEF WhereInv

LEMMA WorkerFreeKeeps == ASSUME IInv, WhereInv, WorkerFree PROVE WhereInv'
<1> DEFINE x == worker.item
<1>1. /\ worker.pc = "free" /\ x \in 1 .. Len(added) /\ x \in Nat
      /\ freed' = Append(freed, x)
      /\ UNCHANGED <<queue, user, added, handled>>
  BY WhereTypes DEF WorkerFree, listVars, WhereInv, KnownInv
<1>2. worker'.pc = "take" /\ worker'.item = 0
  <2>1. worker \in WorkerRec
    BY WhereTypes
  <2>2. worker' = [[worker EXCEPT !.pc = "take"] EXCEPT !.item = 0]
    BY <2>1 DEF WorkerFree
  <2> QED BY <2>1, <2>2 DEF WorkerRec
<1>3. /\ freed \in Seq(Nat) /\ Len(freed) \in Nat
      /\ Len(freed') = Len(freed) + 1 /\ freed'[Len(freed) + 1] = x
      /\ \A i \in 1 .. Len(freed) : freed'[i] = freed[i]
  BY <1>1, WhereTypes, AppendProperties
<1> HIDE DEF x
<1>4. KnownInv'
  <2>1. \A i \in 1 .. Len(freed') : freed'[i] \in 1 .. Len(added')
    BY <1>1, <1>3 DEF WhereInv, KnownInv
  <2>2. \A q \in Priority : \A i \in 1 .. Len(queue'[q]) :
          queue'[q][i] \in 1 .. Len(added') /\ added'[queue'[q][i]] = q
    BY <1>1, <1>2 DEF WhereInv, KnownInv
  <2>3. /\ \A v \in User : user'[v].item \in 0 .. Len(added')
        /\ \A v \in User : user'[v].item # 0 <=> user'[v].pc = "free"
    BY <1>1, <1>2 DEF WhereInv, KnownInv
  <2>4. /\ worker'.item \in 0 .. Len(added')
        /\ worker'.item # 0 <=> worker'.pc \in {"handle", "free"}
    BY <1>1, <1>2 DEF WhereInv, KnownInv
  <2> QED BY <2>1, <2>2, <2>3, <2>4 DEF KnownInv
<1>5. OwnerInv'
  <2> SUFFICES ASSUME NEW e \in 1 .. Len(added)
               PROVE  Places(e)' = 1 /\ IsFiniteSet(Holders(e)')
    BY <1>1 DEF OwnerInv, OneOwner
  <2>1. IsFiniteSet(Holders(e)) /\ Places(e) = 1 /\ e # 0
    BY DEF WhereInv, OwnerInv, OneOwner
  <2>2. Holders(e)' = Holders(e) /\ Cardinality(Holders(e)) \in Nat
    <3>1. Cardinality(Holders(e)) \in Nat
      BY <2>1, FS_CardinalityType
    <3> QED BY <1>1, <3>1 DEF Holders
  <2>3. /\ Occurrences(e, freed) \in Nat
        /\ Occurrences(e, freed') = Occurrences(e, freed) + (IF x = e THEN 1 ELSE 0)
    BY <1>1, <1>3, OccursType, OccursAppend
  <2>4. Occurrences(e, queue[added[e]]) \in Nat
    BY WhereTypes, OccursType
  <2> QED BY <1>1, <1>2, <2>1, <2>2, <2>3, <2>4 DEF Places, Holders, x
<1>6. OrderInv'
  BY <1>1, <1>2 DEF WhereInv, OrderInv, HandledInOrder
<1> QED BY <1>4, <1>5, <1>6 DEF WhereInv

LEMMA WorkerHandleKeeps == ASSUME IInv, WhereInv, WorkerHandle PROVE WhereInv'
<1> DEFINE x == worker.item
<1>1. /\ worker.pc = "handle" /\ x \in 1 .. Len(added) /\ x \in Nat
      /\ handled' = IF running THEN Append(handled, x) ELSE handled
      /\ UNCHANGED <<queue, user, added, freed>>
  BY WhereTypes DEF WorkerHandle, listVars, WhereInv, KnownInv
<1>2. worker'.pc = "free" /\ worker'.item = x
  BY WorkerGotoFacts DEF WorkerHandle
<1> HIDE DEF x
<1>3. KnownInv'
  <2>1. \A q \in Priority : \A i \in 1 .. Len(queue'[q]) :
          queue'[q][i] \in 1 .. Len(added') /\ added'[queue'[q][i]] = q
    BY <1>1, <1>2 DEF WhereInv, KnownInv, x
  <2>2. /\ \A v \in User : user'[v].item \in 0 .. Len(added')
        /\ \A v \in User : user'[v].item # 0 <=> user'[v].pc = "free"
    BY <1>1, <1>2 DEF WhereInv, KnownInv, x
  <2>3. /\ worker'.item \in 0 .. Len(added')
        /\ worker'.item # 0 <=> worker'.pc \in {"handle", "free"}
    BY <1>1, <1>2 DEF WhereInv, KnownInv, x
  <2>4. \A i \in 1 .. Len(freed') : freed'[i] \in 1 .. Len(added')
    BY <1>1, <1>2 DEF WhereInv, KnownInv, x
  <2> QED BY <2>1, <2>2, <2>3, <2>4 DEF KnownInv
<1>4. OwnerInv'
  BY <1>1, <1>2 DEF WhereInv, OwnerInv, OneOwner, Places, Holders, x
<1>5. OrderInv'
  <2>1. CASE ~running
    BY <1>1, <1>2, <2>1 DEF WhereInv, OrderInv, HandledInOrder
  <2>2. CASE running
    <3>1. /\ handled \in Seq(Nat) /\ Len(handled) \in Nat
          /\ Len(handled') = Len(handled) + 1 /\ handled'[Len(handled) + 1] = x
          /\ \A i \in 1 .. Len(handled) : handled'[i] = handled[i]
      BY <1>1, <2>2, WhereTypes, AppendProperties
    <3>2. /\ \A k \in 1 .. Len(queue[added[x]]) : x < queue[added[x]][k]
          /\ \A i \in 1 .. Len(handled) : added[handled[i]] = added[x] => handled[i] < x
      BY <1>1 DEF WhereInv, OrderInv, x
    <3>3. \A i \in 1 .. Len(handled') : handled'[i] \in 1 .. Len(added')
      BY <1>1, <3>1 DEF WhereInv, OrderInv
    <3>4. \A i \in 1 .. Len(handled') : \A k \in 1 .. Len(queue'[added'[handled'[i]]]) :
            handled'[i] < queue'[added'[handled'[i]]][k]
      <4> TAKE i \in 1 .. Len(handled')
      <4>1. CASE i = Len(handled) + 1
        BY <1>1, <3>1, <3>2, <4>1
      <4>2. CASE i # Len(handled) + 1
        <5>1. i \in 1 .. Len(handled) /\ handled'[i] = handled[i]
          BY <3>1, <4>2
        <5>2. \A k \in 1 .. Len(queue[added[handled[i]]]) : handled[i] < queue[added[handled[i]]][k]
          BY <5>1 DEF WhereInv, OrderInv
        <5> QED BY <1>1, <5>1, <5>2
      <4> QED BY <4>1, <4>2
    <3>5. HandledInOrder'
      <4> SUFFICES ASSUME NEW i \in 1 .. Len(handled'), NEW j \in 1 .. Len(handled'),
                          i < j, added[handled'[i]] = added[handled'[j]]
                   PROVE  handled'[i] < handled'[j]
        BY <1>1 DEF HandledInOrder
      <4>1. i \in 1 .. Len(handled) /\ handled'[i] = handled[i]
        BY <3>1
      <4>2. CASE j = Len(handled) + 1
        BY <3>1, <3>2, <4>1, <4>2
      <4>3. CASE j # Len(handled) + 1
        <5>1. j \in 1 .. Len(handled) /\ handled'[j] = handled[j]
          BY <3>1, <4>3
        <5> QED BY <4>1, <5>1 DEF WhereInv, OrderInv, HandledInOrder
      <4> QED BY <4>2, <4>3
    <3> QED BY <1>1, <1>2, <3>3, <3>4, <3>5 DEF WhereInv, OrderInv
  <2> QED BY <2>1, <2>2
<1> QED BY <1>3, <1>4, <1>5 DEF WhereInv

-----------------------------------------------------------------------------
(* The steps together.                                                     *)

LEMMA InitWhere == Init => WhereInv
<1> SUFFICES ASSUME Init PROVE WhereInv
  OBVIOUS
<1>1. KnownInv
  BY EmptySeq DEF Init, KnownInv, Idle
<1>2. OwnerInv
  BY EmptySeq DEF Init, OwnerInv, OneOwner
<1>3. OrderInv
  BY EmptySeq DEF Init, OrderInv, HandledInOrder
<1> QED BY <1>1, <1>2, <1>3 DEF WhereInv

LEMMA UserWhere ==
  ASSUME IInv, WhereInv, NEW u \in User, Add(u) \/ Clear(u) \/ UserStep(u)
  PROVE  WhereInv'
<1>0. user \in [User -> UserRec] /\ user[u] \in UserRec
      /\ worker \in WorkerRec
  BY WhereTypes
<1>1. ASSUME user[u].pc \notin {"free"}, UNCHANGED <<queue, historyVars>>,
             worker' = worker \/ (worker.pc = "sleep" /\ worker' = [worker EXCEPT !.pc = "wake"]),
             user'[u].item = 0 \/ user'[u].item = user[u].item,
             user'[u].pc # "free",
             \A v \in User \ {u} : user'[v] = user[v]
      PROVE  WhereInv'
  <2>1. user[u].item = 0
    BY <1>1 DEF WhereInv, KnownInv
  <2>2. /\ worker'.item = worker.item
        /\ worker'.pc \in {"handle", "free"} <=> worker.pc \in {"handle", "free"}
        /\ worker'.pc = "handle" => worker.pc = "handle"
    BY <1>0, <1>1 DEF WorkerRec
  <2>3. /\ \A v \in User : user'[v].item = user[v].item
        /\ \A v \in User : user'[v].pc = "free" <=> user[v].pc = "free"
    BY <1>1, <2>1
  <2> QED BY <1>1, <2>2, <2>3, SameItems
<1>2. CASE Add(u)
  <2>1. PICK p \in Priority : user' = [user EXCEPT ![u] = [pc |-> "lock", prio |-> p, item |-> 0]]
    BY <1>2 DEF Add
  <2> QED BY <1>0, <1>1, <1>2, <2>1 DEF Add, listVars
<1>3. CASE AddLock(u) \/ AddCount(u)
  <2>1. PICK c \in {"link", "signal"} : user' = [user EXCEPT ![u] = [user[u] EXCEPT !.pc = c]]
    BY <1>3 DEF AddLock, AddCount, UserGoto
  <2>2. /\ user'[u].pc = c /\ user'[u].item = user[u].item
        /\ \A v \in User \ {u} : user'[v] = user[v]
    BY <1>0, <2>1 DEF UserRec
  <2> QED BY <1>1, <1>3, <2>2 DEF AddLock, AddCount, listVars
<1>4. CASE AddSignal(u)
  BY <1>0, <1>1, <1>4 DEF AddSignal, listVars, Idle
<1>5. CASE Clear(u)
  BY <1>0, <1>1, <1>5 DEF Clear, listVars
<1>6. CASE ClearNext(u)
  <2>1. PICK r : r \in {Idle, [user[u] EXCEPT !.prio = user[u].prio * 2]}
                 /\ user' = [user EXCEPT ![u] = r]
    BY <1>0, <1>6 DEF ClearNext
  <2>2. /\ user'[u].pc # "free" /\ (user'[u].item = 0 \/ user'[u].item = user[u].item)
        /\ \A v \in User \ {u} : user'[v] = user[v]
    BY <1>0, <1>6, <2>1 DEF ClearNext, Idle, UserRec
  <2> QED BY <1>1, <1>6, <2>2 DEF ClearNext, listVars
<1> QED BY <1>2, <1>3, <1>4, <1>5, <1>6, LinkKeeps, ClearTakeKeeps, ClearFreeKeeps DEF UserStep

LEMMA WorkerWhere == ASSUME IInv, WhereInv, WorkerStep PROVE WhereInv'
<1>0. worker \in WorkerRec
  BY WhereTypes
<1>1. ASSUME UNCHANGED <<queue, historyVars, user>>, worker'.item = worker.item,
             worker.pc \notin {"handle", "free"}, worker'.pc \notin {"handle", "free"}
      PROVE  WhereInv'
  BY <1>1, SameItems
<1>2. CASE WorkerLoop
  <2>1. worker' = [[[worker EXCEPT !.pc = "take"] EXCEPT !.prio = 1] EXCEPT !.final = ~running]
    BY <1>0, <1>2 DEF WorkerLoop, WorkerRec
  <2>2. worker'.item = worker.item /\ worker'.pc = "take"
    BY <1>0, <2>1 DEF WorkerRec
  <2> QED BY <1>1, <1>2, <2>2 DEF WorkerLoop, listVars
<1>3. CASE WorkerNext
  <2>1. worker'.item = worker.item /\ worker'.pc \notin {"handle", "free"}
    <3>1. CASE worker.prio < 4
      <4>1. worker' = [worker EXCEPT !.prio = worker.prio * 2] /\ worker.pc = "take"
        BY <1>3, <3>1 DEF WorkerNext
      <4> QED BY <1>0, <4>1 DEF WorkerRec
    <3>2. CASE ~(worker.prio < 4)
      <4> DEFINE pc == IF worker.final THEN "gone" ELSE "peek"
      <4>1. worker' = [[worker EXCEPT !.pc = pc] EXCEPT !.prio = 1]
        BY <1>0, <1>3, <3>2 DEF WorkerNext, WorkerRec
      <4>2. pc \in {"gone", "peek"}
        OBVIOUS
      <4> HIDE DEF pc
      <4> QED BY <1>0, <4>1, <4>2 DEF WorkerRec
    <3> QED BY <3>1, <3>2
  <2> QED BY <1>1, <1>3, <2>1 DEF WorkerNext, listVars
<1>4. CASE WorkerPeek
  <2>1. worker'.item = worker.item /\ worker'.pc \notin {"handle", "free"}
    BY <1>0, <1>4 DEF WorkerPeek, WorkerRec
  <2> QED BY <1>1, <1>4, <2>1 DEF WorkerPeek, listVars
<1>5. CASE WorkerWait \/ WorkerTimeout \/ WorkerWake
  <2>1. worker'.item = worker.item /\ worker'.pc \in {"sleep", "wake", "loop"}
    BY <1>5, WorkerGotoFacts DEF WorkerWait, WorkerTimeout, WorkerWake
  <2> QED BY <1>1, <1>5, <2>1 DEF WorkerWait, WorkerTimeout, WorkerWake, listVars
<1> QED BY <1>2, <1>3, <1>4, <1>5, WorkerTakeKeeps, WorkerHandleKeeps, WorkerFreeKeeps DEF WorkerStep

LEMMA SpecWhere == Spec => []WhereInv
<1>1. Init => WhereInv
  BY InitWhere
<1>2. IInv /\ WhereInv /\ [Next]_vars => WhereInv'
  <2> SUFFICES ASSUME IInv, WhereInv, [Next]_vars PROVE WhereInv'
    OBVIOUS
  <2>1. CASE Destroy
    BY <2>1, SameItems DEF Destroy, listVars
  <2>2. CASE UNCHANGED vars
    BY <2>2, SameItems DEF vars, listVars
  <2> QED BY <2>1, <2>2, UserWhere, WorkerWhere DEF Next
<1> QED BY <1>1, <1>2, SpecIInv, PTL DEF Spec

\* Every event is in its queue, in the hands of one thread or freed, in one
\* place exactly: _list_remove and free_handler of the worker and of any
\* number of clearing threads lose no event and free none a second time.
THEOREM ListOneOwner == Spec => []OneOwner
<1>1. WhereInv => OneOwner
  BY DEF WhereInv, OwnerInv
<1> QED BY <1>1, SpecWhere, PTL

\* event_handler gets the events of one priority in the order of adding.
THEOREM ListHandledInOrder == Spec => []HandledInOrder
<1>1. WhereInv => HandledInOrder
  BY DEF WhereInv, OrderInv
<1> QED BY <1>1, SpecWhere, PTL
=============================================================================
