--------------------------- MODULE NetHelperProofs ---------------------------
(****************************************************************************)
(* TLAPS proofs about the network helper, for any number of threads, slots, *)
(* kinds of calls, calls and faults: types, the ownership of the slots      *)
(* (SlotsOwned), the semaphores (NoStalePost), and that a call gets the     *)
(* answer to its own request (OwnAnswer), carried out on its own socket     *)
(* (OwnSocket).                                                             *)
(****************************************************************************)
EXTENDS NetHelper, SequenceTheorems, FiniteSetTheorems, TLAPS

Pc == {"idle", "send", "sent", "wait", "failed", "release", "return"}

SlotRec    == [status : {"idle", "wait", "done"}, session : Nat \cup {-1}, fd : Fd \cup {NoFd}]
CallerRec  == [pc : Pc, req : Request]
HandlerRec == [pc : {"rest", "look", "store", "post"}, at : 0 .. FD_SIZE_MAX, answer : Request]

Busy(c)   == caller[c].pc # "idle"
Opener(c) == Busy(c) /\ caller[c].req.kind \in Opening
User(c)   == Busy(c) /\ caller[c].req.kind \notin Opening

-----------------------------------------------------------------------------
(* Steps of records and functions, one field at a time.                    *)

LEMMA RequestFields ==
  ASSUME NEW r \in Request
  PROVE  /\ r.kind \in Kind /\ r.session \in Nat /\ r.fd \in Fd \cup {NoFd}
         /\ r.slot \in Slot /\ r.call \in Nat
BY DEF Request

LEMMA SlotFields ==
  ASSUME NEW s \in SlotRec
  PROVE  /\ s.status \in {"idle", "wait", "done"}
         /\ s.session \in Nat \cup {-1} /\ s.fd \in Fd \cup {NoFd}
BY DEF SlotRec

LEMMA CallerFields ==
  ASSUME NEW r \in CallerRec
  PROVE  r.pc \in Pc /\ r.req \in Request
BY DEF CallerRec

LEMMA HandlerFields ==
  ASSUME NEW h \in HandlerRec
  PROVE  h.pc \in {"rest", "look", "store", "post"} /\ h.at \in 0 .. FD_SIZE_MAX
         /\ h.answer \in Request
BY DEF HandlerRec

LEMMA SlotIs == Slot \subseteq Nat /\ 0 \in Slot /\ FD_SIZE_MAX \in Nat
                /\ \A i \in 0 .. FD_SIZE_MAX : i # FD_SIZE_MAX => i \in Slot /\ i + 1 \in 0 .. FD_SIZE_MAX
                /\ Slot \subseteq 0 .. FD_SIZE_MAX
BY SizeAssumption DEF Slot

LEMMA NoRequestType == NoRequest \in Request /\ NoRequest.call = 0
BY SlotIs DEF NoRequest, Request, Kind, NoFd

LEMMA RestType == Rest \in HandlerRec /\ Rest.pc = "rest"
BY NoRequestType, SlotIs DEF Rest, HandlerRec, Slot

LEMMA IdleType == Idle \in CallerRec /\ Idle.pc = "idle" /\ Idle.req = NoRequest
BY NoRequestType DEF Idle, CallerRec, Pc

\* The socket calls are none of the others.
LEMMA Kinds ==
  /\ \A k \in Opening : k \in Kind /\ k \notin Op /\ k # "close"
  /\ \A k \in Op : k \in Kind /\ k \notin Opening /\ k # "close"
  /\ "close" \in Kind /\ "close" \notin Opening /\ "close" \notin Op
  /\ \A k \in Kind : k \in Opening \/ k \in Op \/ k = "close"
BY KindAssumption DEF Kind

\* A thread goes on with the same request.
LEMMA GotoStep ==
  ASSUME caller \in [Caller -> CallerRec], NEW c \in Caller, NEW pc \in Pc, Goto(c, pc)
  PROVE  /\ caller' \in [Caller -> CallerRec]
         /\ caller'[c].pc = pc /\ caller'[c].req = caller[c].req
         /\ \A d \in Caller : d # c => caller'[d] = caller[d]
<1>1. [caller[c] EXCEPT !.pc = pc] = [pc |-> pc, req |-> caller[c].req]
  BY DEF CallerRec
<1>2. [caller[c] EXCEPT !.pc = pc] \in CallerRec
  BY <1>1, CallerFields DEF CallerRec
<1> QED BY <1>1, <1>2 DEF Goto

\* A thread starts a call or returns.
LEMMA CallerStep1 ==
  ASSUME caller \in [Caller -> CallerRec], NEW c \in Caller, NEW r \in CallerRec,
         caller' = [caller EXCEPT ![c] = r]
  PROVE  /\ caller' \in [Caller -> CallerRec] /\ caller'[c] = r
         /\ \A d \in Caller : d # c => caller'[d] = caller[d]
OBVIOUS

\* The lowest of some numbers.
LEMMA MinIs ==
  ASSUME NEW S, S # {}, S \subseteq Nat
  PROVE  Min(S) \in S
<1> DEFINE R == {ss \in Nat \X Nat : ss[1] < ss[2]}
<1>1. IsWellFoundedOn(R, Nat)
  BY NatLessThanWellFounded DEF OpToRel
<1>2. \A x, y \in Nat : <<y, x>> \notin R => x <= y
  OBVIOUS
<1>3. \E x \in S : \A y \in S : <<y, x>> \notin R
  <2> HIDE DEF R
  <2> QED BY <1>1, WFMin
<1>4. \E x \in S : \A y \in S : x <= y
  BY <1>2, <1>3
<1> QED BY <1>4 DEF Min

-----------------------------------------------------------------------------
(* Types.  The server never runs out of descriptors within MaxCalls calls:  *)
(* every open one belongs to a session of its own, and so does every        *)
(* opening request on its way.                                              *)

Types ==
  /\ slot \in [Slot -> SlotRec]
  /\ sem \in [Slot -> [Kind -> Nat]]
  /\ result \in [Slot -> [Kind -> Nat]]
  /\ session \in Nat
  /\ caller \in [Caller -> CallerRec]
  /\ handler \in HandlerRec
  /\ requests \in Seq(Request) /\ answers \in Seq(Request)
  /\ open \in [Fd -> Nat] /\ reply \in Request
  /\ held \subseteq Slot /\ calls \in Nat /\ faults \in Nat
  /\ stale \subseteq Slot \X Kind /\ crossed \in BOOLEAN

LEMMA TypesAreTypeOK == Types <=> TypeOK
BY DEF Types, TypeOK, SlotRec, CallerRec, HandlerRec, Pc

CountInv == session <= calls /\ calls <= MaxCalls

\* The receiving thread stores and posts only in slots.
PlaceInv == handler.pc \in {"store", "post"} => handler.at \in Slot

\* A slot that is being opened or held has a session, and so has the request
\* of the thread that opens it.
UsedInv ==
  /\ \A i \in held : slot[i].session \in Nat
  /\ \A c \in Caller : Opener(c) => /\ slot[caller[c].req.slot].session \in Nat
                                    /\ caller[c].req.session \in 1 .. session

\* Descriptors are open for different sessions, none of which is still to come.
OpenOnce ==
  /\ \A f \in Fd : open[f] <= session
  /\ \A f, g \in Fd : f # g /\ open[f] # 0 => open[f] # open[g]

NotOpen(s) == \A f \in Fd : open[f] # s

\* Neither are two opening requests for one session on their way.
RequestsOnce ==
  \A p \in 1 .. Len(requests) : requests[p].kind \in Opening =>
    /\ requests[p].session \in 1 .. session
    /\ NotOpen(requests[p].session)
    /\ \A q \in 1 .. Len(requests) :
         p # q /\ requests[q].kind \in Opening => requests[q].session # requests[p].session

Sending(c) == Opener(c) /\ caller[c].pc = "send"

SendersOnce ==
  \A c \in Caller : Sending(c) =>
    /\ NotOpen(caller[c].req.session)
    /\ \A p \in 1 .. Len(requests) :
         requests[p].kind \in Opening => requests[p].session # caller[c].req.session
    /\ \A d \in Caller : d # c /\ Sending(d) => caller[d].req.session # caller[c].req.session

TInv == Types /\ CountInv /\ PlaceInv /\ UsedInv /\ OpenOnce /\ RequestsOnce /\ SendersOnce

LEMMA TInvInit == Init => TInv
<1> SUFFICES ASSUME Init PROVE TInv
  OBVIOUS
<1> USE DEF Init
<1>1. Types
  <2>1. [status |-> "idle", session |-> -1, fd |-> NoFd] \in SlotRec
    BY DEF SlotRec
  <2> QED BY <2>1, IdleType, RestType, NoRequestType, EmptySeq DEF Types
<1>2. CountInv
  BY BoundAssumption DEF CountInv
<1>3. PlaceInv
  BY RestType DEF PlaceInv
<1>4. \A c \in Caller : ~Busy(c)
  BY IdleType DEF Busy
<1>5. UsedInv /\ SendersOnce
  BY <1>4 DEF UsedInv, SendersOnce, Sending, Opener
<1>6. OpenOnce /\ RequestsOnce
  BY DEF OpenOnce, RequestsOnce
<1> QED BY <1>1, <1>2, <1>3, <1>5, <1>6 DEF TInv

LEMMA Counting ==
  ASSUME NEW n \in Nat
  PROVE  IsFiniteSet(1 .. n) /\ Cardinality(1 .. n) = n
BY FS_Interval

\* An opening request always finds a free descriptor.
LEMMA SomeFree ==
  ASSUME TInv, requests # <<>>, Head(requests).kind \in Opening
  PROVE  Free # {} /\ Min(Free) \in Free
<1> DEFINE r == Head(requests)
          S == {f \in Fd : open[f] # 0}
          T == (1 .. session) \ {r.session}
          g == [f \in S |-> open[f]]
<1>1. /\ requests \in Seq(Request) /\ session \in Nat /\ open \in [Fd -> Nat]
      /\ session <= MaxCalls /\ MaxCalls \in Nat
  BY BoundAssumption DEF TInv, Types, CountInv
<1>2. 1 \in 1 .. Len(requests) /\ r = requests[1]
  BY <1>1, EmptySeq
<1>3. r.session \in 1 .. session /\ \A f \in Fd : open[f] # r.session
  BY <1>2 DEF TInv, RequestsOnce, NotOpen
<1>4. \A f \in S : open[f] \in T
  BY <1>1, <1>3 DEF TInv, OpenOnce
<1>5. g \in Injection(S, T)
  BY <1>4 DEF TInv, OpenOnce, Injection, IsInjective
<1>6. IsFiniteSet(T) /\ Cardinality(T) = session - 1
  <2>1. IsFiniteSet(1 .. session) /\ Cardinality(1 .. session) = session
    BY <1>1, Counting
  <2> QED BY <2>1, <1>3, <1>1, FS_RemoveElement
<1>7. IsFiniteSet(S) /\ Cardinality(S) <= session - 1
  <2> HIDE DEF S, T, g
  <2> QED BY <1>5, <1>6, FS_Injection
<1>8. IsFiniteSet(Fd) /\ Cardinality(Fd) = MaxCalls
  BY <1>1, Counting DEF Fd
<1>9. S # Fd
  <2> HIDE DEF S
  <2> SUFFICES ASSUME S = Fd PROVE FALSE
    OBVIOUS
  <2> QED BY <1>1, <1>7, <1>8
<1>10. Free # {} /\ Free \subseteq Nat
  BY <1>9, <1>1 DEF Free, Fd
<1> QED BY <1>10, MinIs

\* What Open takes is a slot.
LEMMA SomeIdle ==
  ASSUME IdleSlots # {}
  PROVE  Min(IdleSlots) \in Slot /\ slot[Min(IdleSlots)].status = "idle"
<1>1. IdleSlots \subseteq Nat
  BY SlotIs DEF IdleSlots
<1>2. Min(IdleSlots) \in IdleSlots
  BY <1>1, MinIs
<1> QED BY <1>2 DEF IdleSlots

-----------------------------------------------------------------------------
(* What each step changes, and that it keeps the types.                     *)

LEMMA OpenStep ==
  ASSUME Types, NEW c \in Caller, NEW k \in Opening, Open(c, k)
  PROVE  /\ Types'
         /\ \E i \in Slot :
              /\ slot[i].status = "idle"
              /\ slot'[i] = [status |-> "wait", session |-> session + 1, fd |-> NoFd]
              /\ \A j \in Slot : j # i => slot'[j] = slot[j]
              /\ caller'[c] = [pc |-> "send", req |-> [kind |-> k, session |-> session + 1,
                                 fd |-> NoFd, slot |-> i, call |-> calls + 1]]
         /\ caller[c].pc = "idle" /\ \A d \in Caller : d # c => caller'[d] = caller[d]
         /\ session' = session + 1 /\ calls' = calls + 1 /\ calls < MaxCalls
         /\ UNCHANGED <<sem, result, handler, requests, answers, open, reply, held, stale, crossed>>
<1> DEFINE i == Min(IdleSlots)
          r == [kind |-> k, session |-> session + 1, fd |-> NoFd, slot |-> i, call |-> calls + 1]
          s == [status |-> "wait", session |-> session + 1, fd |-> NoFd]
<1>1. i \in Slot /\ slot[i].status = "idle"
  BY SomeIdle DEF Open
<1>2. session \in Nat /\ calls \in Nat
  BY DEF Types
<1>3. r \in Request /\ s \in SlotRec
  BY <1>1, <1>2, Kinds DEF Request, SlotRec
<1>4. [pc |-> "send", req |-> r] \in CallerRec
  BY <1>3 DEF CallerRec, Pc
<1>5. slot' = [slot EXCEPT ![i] = s] /\ caller' = [caller EXCEPT ![c] = [pc |-> "send", req |-> r]]
  BY DEF Open
<1>6. /\ caller' \in [Caller -> CallerRec] /\ caller'[c] = [pc |-> "send", req |-> r]
      /\ \A d \in Caller : d # c => caller'[d] = caller[d]
  BY <1>4, <1>5, CallerStep1 DEF Types
<1>7. /\ slot' \in [Slot -> SlotRec] /\ slot'[i] = s
      /\ \A j \in Slot : j # i => slot'[j] = slot[j]
  BY <1>1, <1>3, <1>5 DEF Types
<1>8. /\ session' = session + 1 /\ calls' = calls + 1 /\ calls < MaxCalls /\ caller[c].pc = "idle"
      /\ UNCHANGED <<sem, result, handler, requests, answers, open, reply, held, faults, stale, crossed>>
  BY DEF Open, lineVars, serverVars
<1>9. Types'
  BY <1>2, <1>6, <1>7, <1>8 DEF Types
<1> HIDE DEF i, s
<1> QED BY <1>1, <1>6, <1>7, <1>8, <1>9 DEF s

LEMMA CallStep ==
  ASSUME Types, UsedInv, NEW c \in Caller, NEW i \in Slot, NEW k \in Op \cup {"close"},
         Call(c, i, k)
  PROVE  /\ Types'
         /\ caller'[c] = [pc |-> "send", req |-> [kind |-> k, session |-> slot[i].session,
                            fd |-> slot[i].fd, slot |-> i, call |-> calls + 1]]
         /\ i \in held /\ Calling(i, k) = {} /\ Calling(i, "close") = {}
         /\ k = "close" => \A j \in Op : Calling(i, j) = {}
         /\ crossed' = (crossed \/ slot[i].fd = NoFd)
         /\ caller[c].pc = "idle" /\ \A d \in Caller : d # c => caller'[d] = caller[d]
         /\ calls' = calls + 1 /\ calls < MaxCalls
         /\ UNCHANGED <<slot, sem, result, session, handler, requests, answers, open, reply,
                        held, stale>>
<1> DEFINE r == [kind |-> k, session |-> slot[i].session, fd |-> slot[i].fd,
                slot |-> i, call |-> calls + 1]
<1>1. slot[i].session \in Nat /\ slot[i].fd \in Fd \cup {NoFd} /\ calls \in Nat
  BY SlotFields DEF Types, UsedInv, Call
<1>2. r \in Request
  BY <1>1, Kinds DEF Request
<1>3. [pc |-> "send", req |-> r] \in CallerRec
  BY <1>2 DEF CallerRec, Pc
<1>4. calls' = calls + 1 /\ caller' = [caller EXCEPT ![c] = [pc |-> "send", req |-> r]]
  BY DEF Call
<1>5. /\ caller' \in [Caller -> CallerRec] /\ caller'[c] = [pc |-> "send", req |-> r]
      /\ \A d \in Caller : d # c => caller'[d] = caller[d]
  BY <1>3, <1>4, CallerStep1 DEF Types
<1>6. /\ i \in held /\ Calling(i, k) = {} /\ Calling(i, "close") = {}
      /\ k = "close" => \A j \in Op : Calling(i, j) = {}
      /\ crossed' = (crossed \/ slot[i].fd = NoFd)
      /\ caller[c].pc = "idle" /\ calls < MaxCalls
      /\ UNCHANGED <<slot, sem, result, session, handler, requests, answers, open, reply,
                     held, faults, stale>>
  BY DEF Call, slotVars, lineVars, serverVars
<1>7. Types'
  BY <1>1, <1>4, <1>5, <1>6 DEF Types
<1> QED BY <1>4, <1>5, <1>6, <1>7

Quietly == UNCHANGED <<slot, result, session, handler, answers, open, reply, calls, crossed>>

LEMMA TransmitStep ==
  ASSUME Types, NEW c \in Caller, Transmit(c)
  PROVE  /\ Types'
         /\ caller[c].pc = "send" /\ caller'[c].pc = "sent" /\ caller'[c].req = caller[c].req
         /\ \A d \in Caller : d # c => caller'[d] = caller[d]
         /\ Len(requests') = Len(requests) + 1 /\ Len(requests) \in Nat
         /\ requests'[Len(requests) + 1] = caller[c].req
         /\ \A p \in 1 .. Len(requests) : requests'[p] = requests[p]
         /\ Quietly /\ UNCHANGED <<sem, held, stale>>
<1>1. caller[c] \in CallerRec /\ requests \in Seq(Request)
  BY DEF Types
<1>2. caller[c].req \in Request
  BY <1>1, CallerFields
<1>3. /\ caller' \in [Caller -> CallerRec]
      /\ caller'[c].pc = "sent" /\ caller'[c].req = caller[c].req
      /\ \A d \in Caller : d # c => caller'[d] = caller[d]
  BY GotoStep DEF Types, Transmit, Pc
<1>4. requests' = Append(requests, caller[c].req)
  BY DEF Transmit
<1>5. /\ requests' \in Seq(Request) /\ Len(requests') = Len(requests) + 1 /\ Len(requests) \in Nat
      /\ requests'[Len(requests) + 1] = caller[c].req
      /\ \A p \in 1 .. Len(requests) : requests'[p] = requests[p]
  BY <1>1, <1>2, <1>4, AppendProperties, LenProperties
<1>6. /\ caller[c].pc = "send" /\ Quietly
      /\ UNCHANGED <<sem, held, faults, stale>>
  BY DEF Transmit, slotVars, serverVars, historyVars, Quietly
<1>7. Types'
  BY <1>3, <1>5, <1>6 DEF Types, Quietly
<1> QED BY <1>3, <1>5, <1>6, <1>7

\* A step of a thread that only changes its place, but for faults.
Moves(c, from, to) ==
  /\ Quietly /\ UNCHANGED requests
  /\ caller[c].pc = from /\ caller'[c].pc = to /\ caller'[c].req = caller[c].req
  /\ \A d \in Caller : d # c => caller'[d] = caller[d]

LEMMA TransmitLostStep ==
  ASSUME Types, NEW c \in Caller, TransmitLost(c)
  PROVE  Types' /\ Moves(c, "send", "failed") /\ UNCHANGED <<sem, held, stale>>
<1>1. /\ caller' \in [Caller -> CallerRec]
      /\ caller'[c].pc = "failed" /\ caller'[c].req = caller[c].req
      /\ \A d \in Caller : d # c => caller'[d] = caller[d]
  BY GotoStep DEF Types, TransmitLost, Pc
<1>2. /\ caller[c].pc = "send" /\ faults' = faults + 1 /\ Quietly
      /\ UNCHANGED <<sem, held, stale, requests>>
  BY DEF TransmitLost, slotVars, lineVars, serverVars, Fault, Quietly
<1>3. Types'
  BY <1>1, <1>2 DEF Types, Quietly
<1> QED BY <1>1, <1>2, <1>3 DEF Moves

LEMMA SendOkStep ==
  ASSUME Types, NEW c \in Caller, SendOk(c)
  PROVE  Types' /\ Moves(c, "sent", "wait") /\ UNCHANGED <<sem, held, stale>>
<1>1. /\ caller' \in [Caller -> CallerRec]
      /\ caller'[c].pc = "wait" /\ caller'[c].req = caller[c].req
      /\ \A d \in Caller : d # c => caller'[d] = caller[d]
  BY GotoStep DEF Types, SendOk, Pc
<1>2. /\ caller[c].pc = "sent" /\ Quietly
      /\ UNCHANGED <<sem, held, stale, requests, faults>>
  BY DEF SendOk, slotVars, lineVars, serverVars, historyVars, Quietly
<1>3. Types'
  BY <1>1, <1>2 DEF Types, Quietly
<1> QED BY <1>1, <1>2, <1>3 DEF Moves

LEMMA SendUnackedStep ==
  ASSUME Types, NEW c \in Caller, SendUnacked(c)
  PROVE  /\ Types' /\ Moves(c, "sent", "failed") /\ UNCHANGED <<sem, held>>
         /\ stale' = stale \cup {<<caller[c].req.slot, caller[c].req.kind>>}
<1>1. /\ caller' \in [Caller -> CallerRec]
      /\ caller'[c].pc = "failed" /\ caller'[c].req = caller[c].req
      /\ \A d \in Caller : d # c => caller'[d] = caller[d]
  BY GotoStep DEF Types, SendUnacked, Pc
<1>2. /\ caller[c].pc = "sent" /\ Quietly /\ faults' = faults + 1
      /\ stale' = stale \cup {<<caller[c].req.slot, caller[c].req.kind>>}
      /\ UNCHANGED <<sem, held, requests>>
  BY DEF SendUnacked, slotVars, lineVars, serverVars, Fault, Quietly
<1>3. <<caller[c].req.slot, caller[c].req.kind>> \in Slot \X Kind
  BY CallerFields, RequestFields DEF Types
<1>4. Types'
  BY <1>1, <1>2, <1>3 DEF Types, Quietly
<1> QED BY <1>1, <1>2, <1>4 DEF Moves

LEMMA FailedStep ==
  ASSUME Types, NEW c \in Caller, Failed(c)
  PROVE  /\ Types'
         /\ caller[c].pc = "failed" /\ caller'[c] = Idle
         /\ \A d \in Caller : d # c => caller'[d] = caller[d]
         /\ \A i \in Slot : i # caller[c].req.slot \/ caller[c].req.kind \notin Opening => slot'[i] = slot[i]
         /\ caller[c].req.kind \in Opening =>
              LET i == caller[c].req.slot IN
              slot'[i] = [status |-> "idle", session |-> slot[i].session, fd |-> slot[i].fd]
         /\ UNCHANGED <<sem, result, session, handler, requests, answers, open, reply, held,
                        calls, stale, crossed>>
         /\ \A j \in Slot : slot'[j].session = slot[j].session
<1> DEFINE i == caller[c].req.slot
          s == [status |-> "idle", session |-> slot[i].session, fd |-> slot[i].fd]
<1>1. i \in Slot /\ slot \in [Slot -> SlotRec]
  BY CallerFields, RequestFields DEF Types
<1>2. s \in SlotRec /\ [slot[i] EXCEPT !.status = "idle"] = s
  BY <1>1, SlotFields DEF SlotRec
<1>3. /\ caller' \in [Caller -> CallerRec] /\ caller'[c] = Idle
      /\ \A d \in Caller : d # c => caller'[d] = caller[d]
  BY CallerStep1, IdleType DEF Types, Failed
<1>4. /\ caller[c].pc = "failed"
      /\ slot' = IF caller[c].req.kind \in Opening THEN [slot EXCEPT ![i].status = "idle"] ELSE slot
      /\ UNCHANGED <<sem, result, session, handler, requests, answers, open, reply, held,
                     calls, faults, stale, crossed>>
  BY DEF Failed, lineVars, serverVars, historyVars
<1>5. caller[c].req.kind \in Opening => slot' = [slot EXCEPT ![i] = s]
  BY <1>2, <1>4
<1> HIDE DEF i, s
<1>6. /\ slot' \in [Slot -> SlotRec]
      /\ caller[c].req.kind \in Opening => slot'[i] = s
      /\ \A j \in Slot : j # i \/ caller[c].req.kind \notin Opening => slot'[j] = slot[j]
  <2>1. CASE caller[c].req.kind \in Opening
    BY <2>1, <1>1, <1>2, <1>5
  <2>2. CASE caller[c].req.kind \notin Opening
    BY <2>2, <1>1, <1>4
  <2> QED BY <2>1, <2>2
<1>7. Types'
  BY <1>3, <1>4, <1>6 DEF Types
<1>8. \A j \in Slot : slot'[j].session = slot[j].session
  BY <1>6 DEF s
<1> QED BY <1>3, <1>4, <1>6, <1>7, <1>8 DEF i, s

LEMMA WaitStep ==
  ASSUME Types, NEW c \in Caller, Wait(c)
  PROVE  LET r == caller[c].req IN
         /\ Types'
         /\ Moves(c, "wait", IF r.kind = "close" THEN "release" ELSE "return")
         /\ sem[r.slot][r.kind] > 0
         /\ sem'[r.slot][r.kind] = sem[r.slot][r.kind] - 1
         /\ \A i \in Slot, k \in Kind : <<i, k>> # <<r.slot, r.kind>> => sem'[i][k] = sem[i][k]
         /\ UNCHANGED <<held, stale>>
<1> DEFINE r == caller[c].req
          pc == IF r.kind = "close" THEN "release" ELSE "return"
<1>1. r.slot \in Slot /\ r.kind \in Kind
  BY CallerFields, RequestFields DEF Types
<1>2. /\ caller' \in [Caller -> CallerRec]
      /\ caller'[c].pc = pc /\ caller'[c].req = r
      /\ \A d \in Caller : d # c => caller'[d] = caller[d]
  <2>1. pc \in Pc /\ Goto(c, pc)
    BY DEF Pc, Wait
  <2> HIDE DEF pc
  <2> QED BY <2>1, GotoStep DEF Types
<1>3. /\ caller[c].pc = "wait" /\ sem[r.slot][r.kind] > 0
      /\ sem' = [sem EXCEPT ![r.slot][r.kind] = @ - 1]
      /\ Quietly /\ UNCHANGED <<held, stale, requests, faults>>
  BY DEF Wait, lineVars, serverVars, historyVars, Quietly
<1> HIDE DEF r, pc
<1>4. /\ sem' \in [Slot -> [Kind -> Nat]]
      /\ sem'[r.slot][r.kind] = sem[r.slot][r.kind] - 1
      /\ \A i \in Slot, k \in Kind : <<i, k>> # <<r.slot, r.kind>> => sem'[i][k] = sem[i][k]
  <2>1. sem \in [Slot -> [Kind -> Nat]] /\ sem[r.slot][r.kind] \in Nat
    BY <1>1 DEF Types
  <2>2. sem[r.slot][r.kind] - 1 \in Nat
    BY <2>1, <1>3
  <2> QED BY <2>1, <2>2, <1>1, <1>3
<1>5. Types'
  BY <1>2, <1>3, <1>4 DEF Types, Quietly
<1> QED BY <1>2, <1>3, <1>4, <1>5 DEF Moves, r, pc

LEMMA ReleaseStep ==
  ASSUME Types, NEW c \in Caller, Release(c)
  PROVE  LET i == caller[c].req.slot IN
         /\ Types'
         /\ caller[c].pc = "release" /\ caller'[c].pc = "return" /\ caller'[c].req = caller[c].req
         /\ \A d \in Caller : d # c => caller'[d] = caller[d]
         /\ slot'[i] = [status |-> "idle", session |-> slot[i].session, fd |-> NoFd]
         /\ \A j \in Slot : j # i => slot'[j] = slot[j]
         /\ held' = held \ {i}
         /\ \A j \in Slot : slot'[j].session = slot[j].session
         /\ UNCHANGED <<sem, result, session, handler, requests, answers, open, reply,
                        calls, stale, crossed>>
<1> DEFINE i == caller[c].req.slot
          s == [status |-> "idle", session |-> slot[i].session, fd |-> NoFd]
<1>1. i \in Slot /\ slot \in [Slot -> SlotRec]
  BY CallerFields, RequestFields DEF Types
<1>2. s \in SlotRec
  BY <1>1, SlotFields DEF SlotRec
<1>3. /\ caller' \in [Caller -> CallerRec]
      /\ caller'[c].pc = "return" /\ caller'[c].req = caller[c].req
      /\ \A d \in Caller : d # c => caller'[d] = caller[d]
  BY GotoStep DEF Types, Release, Pc
<1>4. /\ caller[c].pc = "release" /\ held' = held \ {i}
      /\ slot' = [slot EXCEPT ![i].status = "idle", ![i].fd = NoFd]
      /\ UNCHANGED <<sem, result, session, handler, requests, answers, open, reply,
                     calls, faults, stale, crossed>>
  BY DEF Release, lineVars, serverVars
<1>5. slot' \in [Slot -> SlotRec] /\ slot'[i] = s /\ \A j \in Slot : j # i => slot'[j] = slot[j]
  <2>0. slot[i] \in SlotRec
    BY <1>1
  <2>1. [slot[i] EXCEPT !.status = "idle", !.fd = NoFd] = s
    <3> DEFINE t == [status |-> "idle", session |-> slot[i].session, fd |-> slot[i].fd]
    <3>1. [slot[i] EXCEPT !.status = "idle"] = t
      BY <2>0 DEF SlotRec
    <3>2. [t EXCEPT !.fd = NoFd] = s
      OBVIOUS
    <3>3. [slot[i] EXCEPT !.status = "idle", !.fd = NoFd] = [[slot[i] EXCEPT !.status = "idle"] EXCEPT !.fd = NoFd]
      BY Zenon
    <3> QED BY <3>1, <3>2, <3>3
  <2>2. slot' = [slot EXCEPT ![i] = [slot[i] EXCEPT !.status = "idle", !.fd = NoFd]]
    BY <1>1, <1>4, Zenon
  <2>3. slot' = [slot EXCEPT ![i] = s]
    BY <2>1, <2>2
  <2> HIDE DEF s, i
  <2> QED BY <2>3, <1>1, <1>2
<1>6. Types'
  BY <1>3, <1>4, <1>5 DEF Types
<1>7. \A j \in Slot : slot'[j].session = slot[j].session
  BY <1>5
<1> QED BY <1>3, <1>4, <1>5, <1>6, <1>7

LEMMA ReturnStep ==
  ASSUME Types, NEW c \in Caller, Return(c)
  PROVE  /\ Types'
         /\ caller[c].pc = "return" /\ caller'[c] = Idle
         /\ \A d \in Caller : d # c => caller'[d] = caller[d]
         /\ held' = IF caller[c].req.kind \in Opening THEN held \cup {caller[c].req.slot} ELSE held
         /\ Quietly /\ UNCHANGED <<sem, requests, stale>>
<1>1. caller[c].req.slot \in Slot
  BY CallerFields, RequestFields DEF Types
<1>2. /\ caller' \in [Caller -> CallerRec] /\ caller'[c] = Idle
      /\ \A d \in Caller : d # c => caller'[d] = caller[d]
  BY CallerStep1, IdleType DEF Types, Return
<1>3. /\ caller[c].pc = "return"
      /\ held' = IF caller[c].req.kind \in Opening THEN held \cup {caller[c].req.slot} ELSE held
      /\ Quietly /\ UNCHANGED <<sem, requests, stale, faults>>
  BY DEF Return, slotVars, lineVars, serverVars, Quietly
<1>4. Types'
  BY <1>1, <1>2, <1>3 DEF Types, Quietly
<1> QED BY <1>2, <1>3, <1>4

LEMMA ServeStep ==
  ASSUME Types, NEW d \in [Fd -> Nat], NEW fd \in Fd \cup {NoFd}, Serve(d, fd),
         faults' \in Nat
  PROVE  LET r == requests[1] IN
         /\ Types'
         /\ reply = NoRequest /\ Len(requests) > 0 /\ r = Head(requests)
         /\ open' = d
         /\ reply' = [kind |-> r.kind, session |-> r.session, fd |-> fd, slot |-> r.slot, call |-> r.call]
         /\ Len(requests') = Len(requests) - 1 /\ Len(requests) \in Nat
         /\ \A p \in 1 .. Len(requests) - 1 : requests'[p] = requests[p + 1]
         /\ UNCHANGED <<slot, sem, result, session, caller, handler, answers, held, calls,
                        stale, crossed>>
<1> DEFINE r == requests[1]
<1>1. requests \in Seq(Request) /\ requests # <<>>
  BY DEF Types, Serve
<1>2. /\ Len(requests) \in Nat /\ Len(requests) > 0 /\ r = Head(requests)
      /\ requests' = Tail(requests)
  BY <1>1, EmptySeq DEF Serve
<1>3. r \in Request
  BY <1>1, <1>2, ElementOfSeq
<1>4. /\ requests' \in Seq(Request) /\ Len(requests') = Len(requests) - 1
      /\ \A p \in 1 .. Len(requests) - 1 : requests'[p] = requests[p + 1]
  BY <1>1, <1>2, HeadTailProperties
<1>5. /\ reply = NoRequest /\ open' = d /\ reply' = [r EXCEPT !.fd = fd]
      /\ UNCHANGED <<slot, sem, result, session, caller, handler, answers, held, calls,
                     stale, crossed>>
  BY <1>2 DEF Serve, slotVars
<1>6. reply' = [kind |-> r.kind, session |-> r.session, fd |-> fd, slot |-> r.slot, call |-> r.call]
  BY <1>3, <1>5 DEF Request
<1>7. reply' \in Request
  BY <1>3, <1>6, RequestFields DEF Request
<1>8. Types'
  BY <1>4, <1>5, <1>7 DEF Types
<1> QED BY <1>2, <1>4, <1>5, <1>6, <1>8

\* The request that is served, and what becomes of the descriptors.
Served(fd) ==
  LET r == requests[1] IN
  /\ reply = NoRequest /\ Len(requests) > 0
  /\ reply' = [kind |-> r.kind, session |-> r.session, fd |-> fd, slot |-> r.slot, call |-> r.call]
  /\ Len(requests') = Len(requests) - 1 /\ Len(requests) \in Nat
  /\ \A p \in 1 .. Len(requests) - 1 : requests'[p] = requests[p + 1]
  /\ UNCHANGED <<slot, sem, result, session, caller, handler, answers, held, calls, stale, crossed>>

LEMMA ServeOpenStep ==
  ASSUME TInv, ServeOpen
  PROVE  /\ Types' /\ requests[1].kind \in Opening
         /\ \E f \in Fd :
              /\ Served(f) /\ open[f] = 0 /\ open'[f] = requests[1].session
              /\ \A g \in Fd : g # f => open'[g] = open[g]
<1> DEFINE f == Min(Free)
          s == Head(requests).session
<1>1. requests # <<>> /\ Head(requests).kind \in Opening /\ requests \in Seq(Request)
      /\ open \in [Fd -> Nat]
  BY DEF ServeOpen, TInv, Types
<1>2. f \in Fd /\ open[f] = 0
  BY <1>1, SomeFree DEF Free
<1>3. Head(requests) = requests[1] /\ 1 \in 1 .. Len(requests)
  BY <1>1, EmptySeq
<1>4. s \in Nat
  BY <1>1, <1>3, ElementOfSeq, RequestFields
<1>5. Serve([open EXCEPT ![f] = s], f) /\ faults' \in Nat
  BY DEF ServeOpen, TInv, Types
<1> HIDE DEF f, s
<1>6. [open EXCEPT ![f] = s] \in [Fd -> Nat]
  BY <1>1, <1>4
<1>7. Types' /\ Served(f) /\ open' = [open EXCEPT ![f] = s]
  BY <1>2, <1>5, <1>6, ServeStep DEF TInv, Served
<1>8. open'[f] = s /\ \A g \in Fd : g # f => open'[g] = open[g]
  BY <1>1, <1>2, <1>7
<1> QED BY <1>1, <1>2, <1>3, <1>7, <1>8 DEF s

LEMMA ServeRefusedStep ==
  ASSUME Types, ServeRefused
  PROVE  Types' /\ requests[1].kind \in Opening /\ Served(NoFd) /\ UNCHANGED open
<1>1. Serve(open, NoFd) /\ faults' \in Nat /\ open \in [Fd -> Nat] /\ Head(requests).kind \in Opening
  BY DEF ServeRefused, Fault, Types
<1> QED BY <1>1, ServeStep DEF Served

LEMMA ServeCloseStep ==
  ASSUME Types, ServeClose
  PROVE  /\ Types' /\ requests[1].kind = "close" /\ Served(requests[1].fd)
         /\ \A f \in Fd : open'[f] = IF f = requests[1].fd THEN 0 ELSE open[f]
<1> DEFINE fd == requests[1].fd
          d == [f \in Fd |-> IF f = fd THEN 0 ELSE open[f]]
<1>1. requests \in Seq(Request) /\ requests # <<>> /\ open \in [Fd -> Nat]
  BY DEF ServeClose, Types
<1>2. Head(requests) = requests[1] /\ 1 \in 1 .. Len(requests)
  BY <1>1, EmptySeq
<1>3. fd \in Fd \cup {NoFd}
  BY <1>1, <1>2, ElementOfSeq, RequestFields
<1>4. Serve(d, fd) /\ faults' \in Nat /\ requests[1].kind = "close"
  BY <1>2 DEF ServeClose, Types
<1>5. d \in [Fd -> Nat]
  BY <1>1
<1> HIDE DEF fd, d
<1>6. Types' /\ Served(fd) /\ open' = d
  BY <1>3, <1>4, <1>5, ServeStep DEF Served
<1> QED BY <1>4, <1>6 DEF fd, d

LEMMA ServeOpStep ==
  ASSUME Types, ServeOp
  PROVE  Types' /\ requests[1].kind \in Op /\ Served(requests[1].fd) /\ UNCHANGED open
<1>1. requests \in Seq(Request) /\ requests # <<>> /\ open \in [Fd -> Nat]
  BY DEF ServeOp, Types
<1>2. Head(requests) = requests[1] /\ 1 \in 1 .. Len(requests)
  BY <1>1, EmptySeq
<1>3. requests[1].fd \in Fd \cup {NoFd}
  BY <1>1, <1>2, ElementOfSeq, RequestFields
<1>4. Serve(open, requests[1].fd) /\ faults' \in Nat /\ requests[1].kind \in Op
  BY <1>2 DEF ServeOp, Types
<1> QED BY <1>1, <1>3, <1>4, ServeStep DEF Served

LEMMA AnswerStep ==
  ASSUME Types, Answer
  PROVE  /\ Types'
         /\ reply # NoRequest /\ reply' = NoRequest
         /\ Len(answers') = Len(answers) + 1 /\ Len(answers) \in Nat
         /\ answers'[Len(answers) + 1] = reply
         /\ \A p \in 1 .. Len(answers) : answers'[p] = answers[p]
         /\ UNCHANGED <<slot, sem, result, session, caller, handler, requests, open, held, calls,
                        stale, crossed>>
<1>1. answers \in Seq(Request) /\ reply \in Request /\ answers' = Append(answers, reply)
  BY DEF Types, Answer
<1>2. /\ answers' \in Seq(Request) /\ Len(answers') = Len(answers) + 1 /\ Len(answers) \in Nat
      /\ answers'[Len(answers) + 1] = reply
      /\ \A p \in 1 .. Len(answers) : answers'[p] = answers[p]
  BY <1>1, AppendProperties, LenProperties
<1>3. /\ reply # NoRequest /\ reply' = NoRequest
      /\ UNCHANGED <<slot, sem, result, session, caller, handler, requests, open, held, calls,
                     faults, stale, crossed>>
  BY DEF Answer, slotVars, historyVars
<1>4. Types'
  BY <1>2, <1>3, NoRequestType DEF Types
<1> QED BY <1>2, <1>3, <1>4

LEMMA AnswerLostStep ==
  ASSUME Types, AnswerLost
  PROVE  /\ Types'
         /\ reply # NoRequest /\ reply' = NoRequest
         /\ UNCHANGED <<slot, sem, result, session, caller, handler, requests, answers, open, held,
                        calls, stale, crossed>>
<1>1. /\ reply # NoRequest /\ reply' = NoRequest /\ faults' = faults + 1
      /\ UNCHANGED <<slot, sem, result, session, caller, handler, requests, answers, open, held,
                     calls, stale, crossed>>
  BY DEF AnswerLost, slotVars, lineVars, Fault
<1>2. Types'
  BY <1>1, NoRequestType DEF Types
<1> QED BY <1>1, <1>2

LEMMA ReceiveStep ==
  ASSUME Types, Receive
  PROVE  /\ Types'
         /\ handler.pc = "rest" /\ handler'.pc = "look" /\ handler'.at = 0
         /\ Len(answers) > 0 /\ handler'.answer = answers[1] /\ answers[1] \in Request
         /\ Len(answers') = Len(answers) - 1 /\ Len(answers) \in Nat
         /\ \A p \in 1 .. Len(answers) - 1 : answers'[p] = answers[p + 1]
         /\ UNCHANGED <<slot, sem, result, session, caller, requests, open, reply, held, calls,
                        stale, crossed>>
<1>1. answers \in Seq(Request) /\ answers # <<>>
  BY DEF Types, Receive
<1>2. Len(answers) \in Nat /\ Len(answers) > 0 /\ answers[1] = Head(answers)
  BY <1>1, EmptySeq
<1>3. answers[1] \in Request
  BY <1>1, <1>2, ElementOfSeq
<1>4. /\ answers' \in Seq(Request) /\ Len(answers') = Len(answers) - 1
      /\ \A p \in 1 .. Len(answers) - 1 : answers'[p] = answers[p + 1]
  BY <1>1, <1>2, HeadTailProperties DEF Receive
<1>5. /\ handler.pc = "rest" /\ handler' = [pc |-> "look", at |-> 0, answer |-> answers[1]]
      /\ UNCHANGED <<slot, sem, result, session, caller, requests, open, reply, held, calls,
                     faults, stale, crossed>>
  BY <1>2 DEF Receive, slotVars, serverVars, historyVars
<1>6. handler' \in HandlerRec
  BY <1>3, <1>5, SlotIs DEF HandlerRec
<1>7. Types'
  BY <1>4, <1>5, <1>6 DEF Types
<1> QED BY <1>2, <1>3, <1>4, <1>5, <1>7

LEMMA LookStep ==
  ASSUME Types, Look
  PROVE  /\ Types' /\ handler.pc = "look"
         /\ \/ handler.at = FD_SIZE_MAX /\ handler' = Rest
            \/ /\ handler.at \in Slot /\ Fits(handler.at, handler.answer)
               /\ handler'.pc = "store" /\ handler'.at = handler.at
               /\ handler'.answer = handler.answer
            \/ /\ handler.at \in Slot /\ ~Fits(handler.at, handler.answer)
               /\ handler'.pc = "look" /\ handler'.at = handler.at + 1
               /\ handler'.answer = handler.answer
         /\ UNCHANGED <<slot, sem, result, session, caller, requests, answers, open, reply, held,
                        calls, stale, crossed>>
<1>1. /\ handler \in HandlerRec
      /\ handler.at \in 0 .. FD_SIZE_MAX /\ handler.answer \in Request
  BY HandlerFields DEF Types
<1>2. /\ handler.pc = "look"
      /\ UNCHANGED <<slot, sem, result, session, caller, requests, answers, open, reply, held,
                     calls, faults, stale, crossed>>
  BY DEF Look, slotVars, lineVars, serverVars, historyVars
<1>3. [handler EXCEPT !.pc = "store"] = [pc |-> "store", at |-> handler.at, answer |-> handler.answer]
  BY <1>1 DEF HandlerRec
<1>4. [handler EXCEPT !.at = handler.at + 1]
        = [pc |-> handler.pc, at |-> handler.at + 1, answer |-> handler.answer]
  BY <1>1 DEF HandlerRec
<1>5. CASE handler.at = FD_SIZE_MAX
  <2>1. handler' = Rest
    BY <1>5 DEF Look
  <2> QED BY <1>2, <1>5, <2>1, RestType DEF Types
<1>6. CASE handler.at # FD_SIZE_MAX /\ Fits(handler.at, handler.answer)
  <2>1. handler' = [pc |-> "store", at |-> handler.at, answer |-> handler.answer]
    BY <1>3, <1>6 DEF Look
  <2>2. handler' \in HandlerRec
    BY <1>1, <2>1 DEF HandlerRec
  <2>3. Types'
    BY <1>2, <2>2 DEF Types
  <2> QED BY <1>1, <1>2, <1>6, <2>1, <2>3, SlotIs
<1>7. CASE handler.at # FD_SIZE_MAX /\ ~Fits(handler.at, handler.answer)
  <2>1. handler' = [pc |-> "look", at |-> handler.at + 1, answer |-> handler.answer]
    BY <1>2, <1>4, <1>7 DEF Look
  <2>2. handler.at + 1 \in 0 .. FD_SIZE_MAX
    BY <1>1, <1>7, SlotIs
  <2>3. handler' \in HandlerRec
    BY <1>1, <2>1, <2>2 DEF HandlerRec
  <2>4. Types'
    BY <1>2, <2>3 DEF Types
  <2> QED BY <1>1, <1>2, <1>7, <2>1, <2>4, SlotIs
<1> QED BY <1>5, <1>6, <1>7

LEMMA StoreStep ==
  ASSUME Types, PlaceInv, Store
  PROVE  LET i == handler.at
             r == handler.answer
         IN
         /\ Types' /\ i \in Slot
         /\ handler.pc = "store" /\ handler'.pc = "post" /\ handler'.at = i /\ handler'.answer = r
         /\ r.kind \in Opening =>
              slot'[i] = [status |-> "done", session |-> slot[i].session, fd |-> r.fd]
         /\ \A j \in Slot : j # i \/ r.kind \notin Opening => slot'[j] = slot[j]
         /\ \A j \in Slot : slot'[j].session = slot[j].session
         /\ result'[i][r.kind] = r.call
         /\ \A j \in Slot, k \in Kind : <<j, k>> # <<i, r.kind>> => result'[j][k] = result[j][k]
         /\ crossed' = \/ crossed
                       \/ /\ r.kind \in Opening
                          /\ \E j \in Slot \ {i} : slot[j].status = "done" /\ slot[j].fd = r.fd
         /\ UNCHANGED <<sem, session, caller, requests, answers, open, reply, held, calls, stale>>
<1> DEFINE i == handler.at
          r == handler.answer
          s == [status |-> "done", session |-> slot[i].session, fd |-> r.fd]
<1>1. /\ handler \in HandlerRec /\ r \in Request /\ r.kind \in Kind /\ r.call \in Nat
      /\ r.fd \in Fd \cup {NoFd} /\ handler.at \in 0 .. FD_SIZE_MAX
  BY HandlerFields, RequestFields DEF Types
<1>2. /\ handler.pc = "store" /\ i \in Slot /\ slot \in [Slot -> SlotRec]
      /\ result \in [Slot -> [Kind -> Nat]]
  BY DEF Store, PlaceInv, Types
<1>3. s \in SlotRec
  BY <1>1, <1>2, SlotFields DEF SlotRec
<1>4. handler' = [pc |-> "post", at |-> i, answer |-> r]
  BY <1>1 DEF Store, HandlerRec
<1>5. handler' \in HandlerRec
  BY <1>1, <1>4 DEF HandlerRec
<1>6. /\ slot' = IF r.kind \in Opening
                   THEN [slot EXCEPT ![i].fd = r.fd, ![i].status = "done"] ELSE slot
      /\ result' = [result EXCEPT ![i][r.kind] = r.call]
      /\ crossed' = \/ crossed
                    \/ /\ r.kind \in Opening
                       /\ \E j \in Slot \ {i} : slot[j].status = "done" /\ slot[j].fd = r.fd
      /\ UNCHANGED <<sem, session, caller, requests, answers, open, reply, held, calls, faults, stale>>
  BY DEF Store, lineVars, serverVars
<1>7. r.kind \in Opening => slot' = [slot EXCEPT ![i] = s]
  <2> SUFFICES ASSUME r.kind \in Opening PROVE slot' = [slot EXCEPT ![i] = s]
    OBVIOUS
  <2>0. slot[i] \in SlotRec
    BY <1>2
  <2>1. [slot[i] EXCEPT !.fd = r.fd, !.status = "done"] = s
    <3> DEFINE t == [status |-> slot[i].status, session |-> slot[i].session, fd |-> r.fd]
    <3>1. [slot[i] EXCEPT !.fd = r.fd] = t
      BY <2>0 DEF SlotRec
    <3>2. [t EXCEPT !.status = "done"] = s
      OBVIOUS
    <3>3. [slot[i] EXCEPT !.fd = r.fd, !.status = "done"]
            = [[slot[i] EXCEPT !.fd = r.fd] EXCEPT !.status = "done"]
      BY Zenon
    <3> QED BY <3>1, <3>2, <3>3
  <2>2. slot' = [slot EXCEPT ![i] = [slot[i] EXCEPT !.fd = r.fd, !.status = "done"]]
    BY <1>6, Zenon
  <2> QED BY <2>1, <2>2
<1> HIDE DEF s
<1>8. /\ slot' \in [Slot -> SlotRec]
      /\ r.kind \in Opening => slot'[i] = s
      /\ \A j \in Slot : j # i \/ r.kind \notin Opening => slot'[j] = slot[j]
  <2> HIDE DEF i, r
  <2>1. CASE r.kind \in Opening
    BY <2>1, <1>2, <1>3, <1>7
  <2>2. CASE r.kind \notin Opening
    BY <2>2, <1>2, <1>6
  <2> QED BY <2>1, <2>2
<1>9. /\ result' \in [Slot -> [Kind -> Nat]] /\ result'[i][r.kind] = r.call
      /\ \A j \in Slot, k \in Kind : <<j, k>> # <<i, r.kind>> => result'[j][k] = result[j][k]
  <2> HIDE DEF i, r
  <2> QED BY <1>1, <1>2, <1>6
<1>10. crossed' \in BOOLEAN
  BY <1>6 DEF Types
<1>11. Types'
  BY <1>5, <1>6, <1>8, <1>9, <1>10 DEF Types
<1>12. \A j \in Slot : slot'[j].session = slot[j].session
  BY <1>8 DEF s
<1> QED BY <1>2, <1>4, <1>6, <1>8, <1>9, <1>11, <1>12 DEF s

LEMMA PostStep ==
  ASSUME Types, PlaceInv, Post
  PROVE  LET i == handler.at
             k == handler.answer.kind
         IN
         /\ Types' /\ handler.pc = "post" /\ i \in Slot
         /\ sem'[i][k] = sem[i][k] + 1
         /\ \A j \in Slot, l \in Kind : <<j, l>> # <<i, k>> => sem'[j][l] = sem[j][l]
         /\ \/ k # "close" /\ handler' = Rest
            \/ k = "close" /\ handler' = [pc |-> "look", at |-> i + 1, answer |-> handler.answer]
         /\ UNCHANGED <<slot, result, session, caller, requests, answers, open, reply, held,
                        calls, stale, crossed>>
<1> DEFINE i == handler.at
          k == handler.answer.kind
<1>1. /\ handler \in HandlerRec /\ handler.answer \in Request /\ k \in Kind
      /\ handler.at \in 0 .. FD_SIZE_MAX /\ sem \in [Slot -> [Kind -> Nat]]
  BY HandlerFields, RequestFields DEF Types
<1>2. handler.pc = "post" /\ i \in Slot
  BY DEF Post, PlaceInv
<1>3. /\ sem' = [sem EXCEPT ![i][k] = @ + 1]
      /\ handler' = IF k = "close" THEN [handler EXCEPT !.pc = "look", !.at = i + 1] ELSE Rest
      /\ UNCHANGED <<slot, result, session, caller, requests, answers, open, reply, held,
                     calls, faults, stale, crossed>>
  BY DEF Post, lineVars, serverVars, historyVars
<1>4. [handler EXCEPT !.pc = "look", !.at = i + 1]
        = [pc |-> "look", at |-> i + 1, answer |-> handler.answer]
  <2> DEFINE t == [pc |-> "look", at |-> handler.at, answer |-> handler.answer]
  <2>1. [handler EXCEPT !.pc = "look"] = t
    BY <1>1 DEF HandlerRec
  <2>2. [t EXCEPT !.at = i + 1] = [pc |-> "look", at |-> i + 1, answer |-> handler.answer]
    OBVIOUS
  <2>3. [handler EXCEPT !.pc = "look", !.at = i + 1] = [[handler EXCEPT !.pc = "look"] EXCEPT !.at = i + 1]
    BY Zenon
  <2> QED BY <2>1, <2>2, <2>3
<1>5. i + 1 \in 0 .. FD_SIZE_MAX
  BY <1>2, SlotIs DEF Slot
<1>6. [pc |-> "look", at |-> i + 1, answer |-> handler.answer] \in HandlerRec
  BY <1>1, <1>5 DEF HandlerRec
<1>7. handler' \in HandlerRec
  BY <1>3, <1>4, <1>6, RestType
<1> HIDE DEF i, k
<1>8. /\ sem' \in [Slot -> [Kind -> Nat]] /\ sem'[i][k] = sem[i][k] + 1
      /\ \A j \in Slot, l \in Kind : <<j, l>> # <<i, k>> => sem'[j][l] = sem[j][l]
  <2>1. sem[i][k] \in Nat
    BY <1>1, <1>2
  <2>2. sem[i][k] + 1 \in Nat
    BY <2>1
  <2> QED BY <1>1, <1>2, <1>3, <2>2
<1>9. Types'
  BY <1>3, <1>7, <1>8 DEF Types
<1> QED BY <1>2, <1>3, <1>4, <1>8, <1>9 DEF i, k

-----------------------------------------------------------------------------
(* The invariant of the types is kept.                                      *)

\* No thread starts to open a socket, and descriptors and requests stay.
LEMMA FreshKept ==
  ASSUME TInv, Types', CountInv', session' = session, UNCHANGED <<open, requests>>,
         \A d \in Caller : Opener(d)' => Opener(d) /\ caller'[d].req = caller[d].req,
         \A d \in Caller : Sending(d)' => Sending(d),
         \A i \in Slot : slot'[i].session = slot[i].session,
         \A i \in held' : slot[i].session \in Nat
  PROVE  UsedInv' /\ OpenOnce' /\ RequestsOnce' /\ SendersOnce'
<1>1. OpenOnce' /\ RequestsOnce'
  BY DEF TInv, OpenOnce, RequestsOnce, NotOpen
<1>2. \A d \in Caller : Sending(d)' => caller'[d].req = caller[d].req
  BY DEF Sending
<1>3. SendersOnce'
  BY <1>2 DEF TInv, SendersOnce, NotOpen
<1>4. \A d \in Caller : caller[d].req.slot \in Slot
  BY CallerFields, RequestFields DEF TInv, Types
<1>5. held' \subseteq Slot
  BY DEF Types
<1>6. UsedInv'
  BY <1>4, <1>5 DEF TInv, UsedInv
<1> QED BY <1>1, <1>3, <1>6

LEMMA OpenTInv ==
  ASSUME TInv, NEW c \in Caller, NEW k \in Opening, Open(c, k)
  PROVE  TInv'
<1>0. Types /\ Types' /\ session \in Nat /\ calls \in Nat /\ MaxCalls \in Nat
  BY OpenStep, BoundAssumption DEF TInv, Types
<1>1. PICK i \in Slot :
        /\ slot[i].status = "idle"
        /\ slot'[i] = [status |-> "wait", session |-> session + 1, fd |-> NoFd]
        /\ \A j \in Slot : j # i => slot'[j] = slot[j]
        /\ caller'[c] = [pc |-> "send", req |-> [kind |-> k, session |-> session + 1,
                           fd |-> NoFd, slot |-> i, call |-> calls + 1]]
  BY <1>0, OpenStep
<1>2. /\ caller[c].pc = "idle" /\ \A d \in Caller : d # c => caller'[d] = caller[d]
      /\ session' = session + 1 /\ calls' = calls + 1 /\ calls < MaxCalls
      /\ UNCHANGED <<handler, requests, open, held>>
  BY <1>0, OpenStep
<1>3. CountInv'
  BY <1>0, <1>2 DEF TInv, CountInv
<1>4. PlaceInv'
  BY <1>2 DEF TInv, PlaceInv
<1>5. UsedInv'
  <2>1. \A j \in Slot : slot[j].session \in Nat => slot'[j].session \in Nat
    BY <1>0, <1>1
  <2>2. \A d \in Caller : caller[d].req.slot \in Slot
    BY <1>0, CallerFields, RequestFields DEF Types
  <2>3. held' \subseteq Slot
    BY <1>0 DEF Types
  <2>4. Opener(c)' => /\ slot'[caller'[c].req.slot].session \in Nat
                      /\ caller'[c].req.session \in 1 .. session'
    BY <1>0, <1>1, <1>2
  <2>5. \A d \in Caller : d # c /\ Opener(d)' =>
           /\ slot'[caller'[d].req.slot].session \in Nat
           /\ caller'[d].req.session \in 1 .. session'
    BY <1>0, <1>2, <2>1, <2>2 DEF TInv, UsedInv, Opener, Busy
  <2>6. \A j \in held' : slot'[j].session \in Nat
    BY <1>2, <2>1, <2>3 DEF TInv, UsedInv
  <2> QED BY <2>4, <2>5, <2>6 DEF UsedInv
<1>6. \A f \in Fd : open[f] <= session /\ open[f] \in Nat
  BY <1>0 DEF TInv, OpenOnce, Types
<1>7. OpenOnce'
  BY <1>0, <1>2, <1>6 DEF TInv, OpenOnce
<1>8. RequestsOnce'
  BY <1>0, <1>2 DEF TInv, RequestsOnce, NotOpen
<1>9. SendersOnce'
  <2>1. \A d \in Caller : d # c => (Sending(d)' <=> Sending(d)) /\ caller'[d].req = caller[d].req
    BY <1>2 DEF Sending, Opener, Busy
  <2>2. \A d \in Caller : Sending(d) => caller[d].req.session \in 1 .. session
    BY DEF TInv, UsedInv, Sending
  <2>3. caller'[c].req.session = session + 1
    BY <1>1
  <2>4. \A p \in 1 .. Len(requests) : requests[p].kind \in Opening => requests[p].session \in 1 .. session
    BY DEF TInv, RequestsOnce
  <2>5. NotOpen(session + 1)
    BY <1>0, <1>6 DEF NotOpen
  <2>6. /\ \A f \in Fd : open'[f] # session + 1
        /\ \A p \in 1 .. Len(requests') :
             requests'[p].kind \in Opening => requests'[p].session # session + 1
        /\ \A d \in Caller : d # c /\ Sending(d)' => caller'[d].req.session # session + 1
    BY <1>0, <1>2, <2>1, <2>2, <2>4, <2>5 DEF NotOpen
  <2>7. \A d \in Caller : d # c /\ Sending(d)' =>
           /\ NotOpen(caller[d].req.session)
           /\ \A p \in 1 .. Len(requests') :
                requests'[p].kind \in Opening => requests'[p].session # caller'[d].req.session
           /\ \A e \in Caller : e # d /\ Sending(e)' => caller'[e].req.session # caller'[d].req.session
    BY <1>2, <2>1, <2>3, <2>6 DEF TInv, SendersOnce
  <2>8. \A d \in Caller : d # c /\ Sending(d)' => \A f \in Fd : open'[f] # caller'[d].req.session
    BY <1>2, <2>1, <2>7 DEF NotOpen
  <2>9. \A d \in Caller : d = c => \A f \in Fd : open'[f] # caller'[d].req.session
    BY <2>3, <2>6 DEF NotOpen
  <2> QED BY <2>3, <2>6, <2>7, <2>8, <2>9 DEF SendersOnce, NotOpen
<1> QED BY <1>0, <1>3, <1>4, <1>5, <1>7, <1>8, <1>9 DEF TInv

LEMMA CallTInv ==
  ASSUME TInv, NEW c \in Caller, NEW i \in Slot, NEW k \in Op \cup {"close"}, Call(c, i, k)
  PROVE  TInv'
<1>0. Types /\ UsedInv /\ session \in Nat /\ calls \in Nat /\ MaxCalls \in Nat
  BY BoundAssumption DEF TInv, Types
<1>1. /\ Types'
      /\ caller'[c] = [pc |-> "send", req |-> [kind |-> k, session |-> slot[i].session,
                         fd |-> slot[i].fd, slot |-> i, call |-> calls + 1]]
      /\ \A d \in Caller : d # c => caller'[d] = caller[d]
      /\ calls' = calls + 1 /\ calls < MaxCalls
      /\ UNCHANGED <<slot, session, handler, requests, open, held>>
  <2> HIDE DEF Types, UsedInv
  <2> QED BY <1>0, CallStep
<1>2. k \notin Opening /\ caller'[c].req.kind = k
  BY <1>1, Kinds
<1>3. /\ \A d \in Caller : Opener(d)' => Opener(d) /\ caller'[d].req = caller[d].req
      /\ \A d \in Caller : Sending(d)' => Sending(d)
  BY <1>1, <1>2 DEF Opener, Sending, Busy
<1>4. CountInv'
  BY <1>0, <1>1 DEF TInv, CountInv
<1>5. PlaceInv'
  BY <1>1 DEF TInv, PlaceInv
<1>6. UsedInv' /\ OpenOnce' /\ RequestsOnce' /\ SendersOnce'
  BY <1>1, <1>3, <1>4, FreshKept DEF TInv, UsedInv
<1> QED BY <1>1, <1>4, <1>5, <1>6 DEF TInv

LEMMA TransmitTInv ==
  ASSUME TInv, NEW c \in Caller, Transmit(c)
  PROVE  TInv'
<1>0. Types
  BY DEF TInv
<1>1. /\ Types'
      /\ caller[c].pc = "send" /\ caller'[c].pc = "sent" /\ caller'[c].req = caller[c].req
      /\ \A d \in Caller : d # c => caller'[d] = caller[d]
      /\ Len(requests') = Len(requests) + 1 /\ Len(requests) \in Nat
      /\ requests'[Len(requests) + 1] = caller[c].req
      /\ \A p \in 1 .. Len(requests) : requests'[p] = requests[p]
      /\ UNCHANGED <<slot, session, handler, open, calls, held>>
  BY <1>0, TransmitStep DEF Quietly
<1>2. CountInv' /\ PlaceInv' /\ OpenOnce'
  BY <1>1 DEF TInv, CountInv, PlaceInv, OpenOnce
<1>3. UsedInv'
  BY <1>1 DEF TInv, UsedInv, Opener, Busy
<1>4. \A p \in 1 .. Len(requests') : p \in 1 .. Len(requests) \/ p = Len(requests) + 1
  BY <1>1
<1>5. caller[c].req.kind \in Opening => Sending(c) /\ Opener(c)
  BY <1>1 DEF Sending, Opener, Busy
<1>6. RequestsOnce'
  <2>1. caller[c].req.kind \in Opening =>
          /\ caller[c].req.session \in 1 .. session
          /\ NotOpen(caller[c].req.session)
          /\ \A p \in 1 .. Len(requests) :
               requests[p].kind \in Opening => requests[p].session # caller[c].req.session
    BY <1>5 DEF TInv, SendersOnce, UsedInv
  <2>2. \A p \in 1 .. Len(requests') : requests'[p].kind \in Opening =>
          /\ requests'[p].session \in 1 .. session'
          /\ \A f \in Fd : open'[f] # requests'[p].session
    BY <1>1, <1>4, <2>1 DEF TInv, RequestsOnce, NotOpen
  <2>3. \A p, q \in 1 .. Len(requests') :
          p # q /\ requests'[p].kind \in Opening /\ requests'[q].kind \in Opening
            => requests'[q].session # requests'[p].session
    BY <1>1, <1>4, <2>1 DEF TInv, RequestsOnce
  <2> QED BY <2>2, <2>3 DEF RequestsOnce, NotOpen
<1>7. SendersOnce'
  <2>1. \A d \in Caller : Sending(d)' => Sending(d) /\ d # c /\ caller'[d].req = caller[d].req
    BY <1>1 DEF Sending, Opener, Busy
  <2>2. \A d \in Caller : Sending(d)' =>
          \A p \in 1 .. Len(requests') :
            requests'[p].kind \in Opening => requests'[p].session # caller[d].req.session
    BY <1>1, <1>4, <1>5, <2>1 DEF TInv, SendersOnce
  <2> QED BY <1>1, <2>1, <2>2 DEF TInv, SendersOnce, NotOpen
<1> QED BY <1>1, <1>2, <1>3, <1>6, <1>7 DEF TInv

\* The steps of a thread between sending and returning, and those of the
\* receiving thread.
LEMMA OtherTInv ==
  ASSUME TInv, Types', UNCHANGED <<session, calls, open, requests>>, PlaceInv',
         \A d \in Caller : \/ caller'[d].pc = "idle"
                           \/ /\ caller[d].pc # "idle" /\ caller'[d].req = caller[d].req
                              /\ caller'[d].pc = "send" => caller[d].pc = "send",
         \A i \in Slot : slot'[i].session = slot[i].session,
         \A i \in held' : slot[i].session \in Nat
  PROVE  TInv'
<1>1. CountInv'
  BY DEF TInv, CountInv
<1>2. /\ \A d \in Caller : Opener(d)' => Opener(d) /\ caller'[d].req = caller[d].req
      /\ \A d \in Caller : Sending(d)' => Sending(d)
  BY DEF Sending, Opener, Busy
<1>3. UsedInv' /\ OpenOnce' /\ RequestsOnce' /\ SendersOnce'
  <2> HIDE DEF Types, CountInv, UsedInv, OpenOnce, RequestsOnce, SendersOnce, TInv, Opener, Sending
  <2> QED BY <1>1, <1>2, FreshKept
<1> QED BY <1>1, <1>3 DEF TInv

LEMMA ThreadTInv ==
  ASSUME TInv, NEW c \in Caller,
         TransmitLost(c) \/ SendOk(c) \/ SendUnacked(c) \/ Failed(c) \/ Wait(c) \/ Release(c) \/ Return(c)
  PROVE  TInv'
<1>0. Types /\ held \subseteq Slot /\ (\A i \in held : slot[i].session \in Nat) /\ PlaceInv
      /\ \A d \in Caller : caller[d].req.slot \in Slot
  BY CallerFields, RequestFields DEF TInv, UsedInv, Types
<1>1. ASSUME NEW from \in Pc, NEW to \in Pc, from # "idle", to # "send", Types', Moves(c, from, to),
             UNCHANGED held
      PROVE  TInv'
  BY <1>0, <1>1, OtherTInv DEF Moves, Quietly, PlaceInv
<1>2. CASE TransmitLost(c)
  BY <1>0, <1>1, <1>2, TransmitLostStep DEF Pc
<1>3. CASE SendOk(c)
  BY <1>0, <1>1, <1>3, SendOkStep DEF Pc
<1>4. CASE SendUnacked(c)
  BY <1>0, <1>1, <1>4, SendUnackedStep DEF Pc
<1>5. CASE Wait(c)
  <2>1. PICK to \in {"release", "return"} : Types' /\ Moves(c, "wait", to) /\ UNCHANGED held
    BY <1>0, <1>5, WaitStep
  <2> QED BY <1>1, <2>1 DEF Pc
<1>6. CASE Failed(c)
  <2>1. /\ Types' /\ caller[c].pc = "failed" /\ caller'[c] = Idle
        /\ \A d \in Caller : d # c => caller'[d] = caller[d]
        /\ \A i \in Slot : slot'[i].session = slot[i].session
        /\ UNCHANGED <<session, calls, open, requests, handler, held>>
    BY <1>0, <1>6, FailedStep
  <2>2. PlaceInv'
    BY <1>0, <2>1 DEF PlaceInv
  <2> QED BY <1>0, <2>1, <2>2, IdleType, OtherTInv
<1>7. CASE Release(c)
  <2>1. /\ Types' /\ caller[c].pc = "release" /\ caller'[c].pc = "return"
        /\ caller'[c].req = caller[c].req
        /\ \A d \in Caller : d # c => caller'[d] = caller[d]
        /\ \A i \in Slot : slot'[i].session = slot[i].session
        /\ held' \subseteq held
        /\ UNCHANGED <<session, calls, open, requests, handler>>
    BY <1>0, <1>7, ReleaseStep
  <2>2. PlaceInv'
    BY <1>0, <2>1 DEF PlaceInv
  <2> QED BY <1>0, <2>1, <2>2, OtherTInv
<1>8. CASE Return(c)
  <2>1. /\ Types' /\ caller[c].pc = "return" /\ caller'[c] = Idle
        /\ \A d \in Caller : d # c => caller'[d] = caller[d]
        /\ held' = IF caller[c].req.kind \in Opening THEN held \cup {caller[c].req.slot} ELSE held
        /\ UNCHANGED <<session, calls, open, requests, handler, slot>>
    BY <1>0, <1>8, ReturnStep DEF Quietly
  <2>2. PlaceInv'
    BY <1>0, <2>1 DEF PlaceInv
  <2>3. \A i \in held' : slot[i].session \in Nat
    BY <1>0, <2>1 DEF TInv, UsedInv, Opener, Busy
  <2> QED BY <1>0, <2>1, <2>2, <2>3, IdleType, OtherTInv
<1> QED BY <1>2, <1>3, <1>4, <1>5, <1>6, <1>7, <1>8

LEMMA HandlerTInv ==
  ASSUME TInv, Answer \/ AnswerLost \/ Receive \/ Look \/ Store \/ Post
  PROVE  TInv'
<1>0. Types /\ PlaceInv /\ \A i \in held : slot[i].session \in Nat
  BY DEF TInv, UsedInv
<1>1. /\ Types' /\ PlaceInv' /\ \A i \in Slot : slot'[i].session = slot[i].session
      /\ UNCHANGED <<session, calls, open, requests, caller, held>>
  <2>1. CASE Answer
    BY <1>0, <2>1, AnswerStep DEF PlaceInv
  <2>2. CASE AnswerLost
    BY <1>0, <2>2, AnswerLostStep DEF PlaceInv
  <2>3. CASE Receive
    BY <1>0, <2>3, ReceiveStep DEF PlaceInv
  <2>4. CASE Look
    BY <1>0, <2>4, LookStep, RestType DEF PlaceInv
  <2>5. CASE Store
    BY <1>0, <2>5, StoreStep DEF PlaceInv
  <2>6. CASE Post
    BY <1>0, <2>6, PostStep, RestType DEF PlaceInv
  <2> QED BY <2>1, <2>2, <2>3, <2>4, <2>5, <2>6
<1> QED BY <1>0, <1>1, OtherTInv

\* A request leaves; descriptors are closed, or the one of its session opened.
LEMMA ServedTInv ==
  ASSUME TInv, NEW fd, Served(fd), Types',
         \/ \A f \in Fd : open'[f] = 0 \/ open'[f] = open[f]
         \/ /\ requests[1].kind \in Opening
            /\ \E f \in Fd : /\ open'[f] = requests[1].session
                             /\ \A g \in Fd : g # f => open'[g] = open[g]
  PROVE  TInv'
<1>1. /\ Len(requests) \in Nat /\ Len(requests) > 0 /\ Len(requests') = Len(requests) - 1
      /\ \A p \in 1 .. Len(requests) - 1 : requests'[p] = requests[p + 1]
      /\ UNCHANGED <<slot, session, caller, handler, held, calls>>
  BY DEF Served
<1>2. CountInv' /\ PlaceInv'
  BY <1>1 DEF TInv, CountInv, PlaceInv
<1>3. UsedInv'
  BY <1>1 DEF TInv, UsedInv, Opener, Busy
<1>4. requests[1].kind \in Opening =>
        /\ requests[1].session \in 1 .. session
        /\ \A f \in Fd : open[f] # requests[1].session
        /\ \A p \in 1 .. Len(requests) :
             p # 1 /\ requests[p].kind \in Opening => requests[p].session # requests[1].session
        /\ \A c \in Caller : Sending(c) => caller[c].req.session # requests[1].session
  BY <1>1 DEF TInv, RequestsOnce, NotOpen, SendersOnce
<1>5. session \in Nat /\ open \in [Fd -> Nat] /\ open' \in [Fd -> Nat]
  BY DEF TInv, Types
<1>6. OpenOnce'
  <2>1. /\ \A f \in Fd : open[f] <= session
        /\ \A f, g \in Fd : f # g /\ open[f] # 0 => open[f] # open[g]
    BY DEF TInv, OpenOnce
  <2>2. \A f \in Fd : open'[f] <= session'
    BY <1>1, <1>4, <1>5, <2>1
  <2>3. \A f, g \in Fd : f # g /\ open'[f] # 0 => open'[f] # open'[g]
    BY <1>1, <1>4, <1>5, <2>1
  <2> QED BY <2>2, <2>3 DEF OpenOnce
<1>7. \A s \in Nat : s > 0 /\ NotOpen(s) /\ (requests[1].kind \in Opening => s # requests[1].session)
                       => \A f \in Fd : open'[f] # s
  BY <1>5 DEF NotOpen
<1>8. RequestsOnce'
  <2>1. \A p \in 1 .. Len(requests') :
          p + 1 \in 1 .. Len(requests) /\ p + 1 # 1 /\ requests'[p] = requests[p + 1]
    BY <1>1
  <2>2. \A p \in 1 .. Len(requests) : requests[p].kind \in Opening =>
          /\ requests[p].session \in 1 .. session /\ NotOpen(requests[p].session)
          /\ \A q \in 1 .. Len(requests) :
               p # q /\ requests[q].kind \in Opening => requests[q].session # requests[p].session
    BY DEF TInv, RequestsOnce
  <2>3. ASSUME NEW p \in 1 .. Len(requests'), requests'[p].kind \in Opening
        PROVE  /\ requests'[p].session \in 1 .. session'
               /\ \A f \in Fd : open'[f] # requests'[p].session
    <3>1. PICK q \in 1 .. Len(requests) : q = p + 1 /\ q # 1 /\ requests'[p] = requests[q]
      BY <2>1
    <3>2. requests[q].session \in 1 .. session /\ NotOpen(requests[q].session)
      BY <2>2, <2>3, <3>1
    <3>3. requests[1].kind \in Opening => requests[q].session # requests[1].session
      BY <1>4, <2>3, <3>1
    <3>4. requests[q].session \in Nat /\ requests[q].session > 0
      BY <1>5, <3>2
    <3>5. \A f \in Fd : open'[f] # requests[q].session
      BY <1>7, <3>2, <3>3, <3>4
    <3> QED BY <1>1, <3>1, <3>2, <3>5
  <2>4. \A p, q \in 1 .. Len(requests') :
          p # q /\ requests'[p].kind \in Opening /\ requests'[q].kind \in Opening
            => requests'[q].session # requests'[p].session
    BY <1>1, <2>1, <2>2
  <2> QED BY <2>3, <2>4 DEF RequestsOnce, NotOpen
<1>9. SendersOnce'
  <2>1. \A c \in Caller : Sending(c)' <=> Sending(c)
    BY <1>1 DEF Sending, Opener, Busy
  <2>2. \A c \in Caller : Sending(c) => caller[c].req.session \in 1 .. session
    BY DEF TInv, UsedInv, Sending
  <2>3. ASSUME NEW c \in Caller, Sending(c)'
        PROVE  /\ \A f \in Fd : open'[f] # caller'[c].req.session
               /\ \A p \in 1 .. Len(requests') :
                    requests'[p].kind \in Opening => requests'[p].session # caller'[c].req.session
    <3>1. Sending(c) /\ caller'[c] = caller[c]
      BY <1>1, <2>1, <2>3
    <3>2. /\ NotOpen(caller[c].req.session)
          /\ \A p \in 1 .. Len(requests) :
               requests[p].kind \in Opening => requests[p].session # caller[c].req.session
      BY <3>1 DEF TInv, SendersOnce
    <3>3. caller[c].req.session \in Nat /\ caller[c].req.session > 0
      BY <1>5, <2>2, <3>1
    <3>4. \A f \in Fd : open'[f] # caller[c].req.session
      BY <1>4, <1>7, <3>1, <3>2, <3>3
    <3>5. \A p \in 1 .. Len(requests') : p + 1 \in 1 .. Len(requests) /\ requests'[p] = requests[p + 1]
      BY <1>1
    <3> QED BY <3>1, <3>2, <3>4, <3>5
  <2>4. \A c, d \in Caller : Sending(c)' /\ d # c /\ Sending(d)'
          => caller'[d].req.session # caller'[c].req.session
    BY <1>1, <2>1 DEF TInv, SendersOnce
  <2> QED BY <2>3, <2>4 DEF SendersOnce, NotOpen
<1> QED BY <1>2, <1>3, <1>6, <1>8, <1>9 DEF TInv

LEMMA ServerTInv ==
  ASSUME TInv, ServeOpen \/ ServeRefused \/ ServeClose \/ ServeOp
  PROVE  TInv'
<1>0. Types
  BY DEF TInv
<1>1. CASE ServeOpen
  BY <1>1, ServeOpenStep, ServedTInv
<1>2. CASE ServeRefused
  BY <1>0, <1>2, ServeRefusedStep, ServedTInv
<1>3. CASE ServeClose
  BY <1>0, <1>3, ServeCloseStep, ServedTInv
<1>4. CASE ServeOp
  BY <1>0, <1>4, ServeOpStep, ServedTInv
<1> QED BY <1>1, <1>2, <1>3, <1>4

LEMMA TInvNext == TInv /\ [Next]_vars => TInv'
<1> SUFFICES ASSUME TInv, [Next]_vars PROVE TInv'
  OBVIOUS
<1>1. ASSUME NEW c \in Caller, NEW k \in Opening, Open(c, k) PROVE TInv'
  BY <1>1, OpenTInv
<1>2. ASSUME NEW c \in Caller, NEW i \in Slot, NEW k \in Op \cup {"close"}, Call(c, i, k) PROVE TInv'
  BY <1>2, CallTInv
<1>3. ASSUME NEW c \in Caller, CallerStep(c) PROVE TInv'
  BY <1>3, TransmitTInv, ThreadTInv DEF CallerStep
<1>4. CASE ServerStep
  BY <1>4, ServerTInv, HandlerTInv DEF ServerStep
<1>5. CASE HandlerStep
  BY <1>5, HandlerTInv DEF HandlerStep
<1>6. CASE UNCHANGED vars
  <2>1. Types'
    BY <1>6 DEF vars, slotVars, lineVars, serverVars, historyVars, TInv, Types
  <2>2. CountInv' /\ PlaceInv' /\ UsedInv' /\ OpenOnce'
    BY <1>6 DEF vars, slotVars, lineVars, serverVars, historyVars, TInv,
                CountInv, PlaceInv, UsedInv, OpenOnce, Opener, Busy
  <2>3. RequestsOnce' /\ SendersOnce'
    BY <1>6 DEF vars, slotVars, lineVars, serverVars, historyVars, TInv,
                RequestsOnce, SendersOnce, NotOpen, Sending, Opener, Busy
  <2> QED BY <2>1, <2>2, <2>3 DEF TInv
<1> QED BY <1>1, <1>2, <1>3, <1>4, <1>5, <1>6 DEF Next

\* Every variable keeps its type; in particular the server always finds a free
\* descriptor, semaphores are never negative, and the receiving thread stores
\* nothing outside g_socks.
THEOREM NetTypeOK == Spec => []TypeOK
<1>1. Init => TInv
  BY TInvInit
<1>2. TInv /\ [Next]_vars => TInv'
  BY TInvNext
<1>3. TInv => TypeOK
  BY TypesAreTypeOK DEF TInv
<1> QED BY <1>1, <1>2, <1>3, PTL DEF Spec

-----------------------------------------------------------------------------
(* Who owns a slot: the thread that opens it, or whoever uses it once it is *)
(* held.  This holds whatever goes wrong on the line.                       *)

OneOpener ==
  \A c, d \in Caller : Opener(c) /\ Opener(d) /\ caller[c].req.slot = caller[d].req.slot => c = d

Taken ==
  /\ \A c \in Caller : Opener(c) => /\ caller[c].req.slot \notin held
                                    /\ slot[caller[c].req.slot].status # "idle"
  /\ \A i \in held : slot[i].status # "idle"

\* The thread that closes a slot has let go of it when it returns.
Using(c) == User(c) /\ ~(caller[c].req.kind = "close" /\ caller[c].pc = "return")

UsersHold ==
  /\ \A c \in Caller : Using(c) => caller[c].req.slot \in held
  /\ \A c \in Caller : caller[c].pc = "release" => caller[c].req.kind = "close"

\* Nobody uses a slot for what another thread does with it, or closes it
\* while another uses it.
UsersApart ==
  \A c, d \in Caller : User(c) /\ User(d) /\ caller[c].req.slot = caller[d].req.slot
    => c = d \/ (caller[c].req.kind # caller[d].req.kind /\ caller[c].req.kind # "close")

OwnInv == OneOpener /\ Taken /\ UsersHold /\ UsersApart

\* Sessions are never given twice, and an opening thread has that of its slot.
SessionInv ==
  /\ \A i \in Slot : slot[i].session <= session
  /\ \A i, j \in Slot : i # j /\ slot[i].session > 0 => slot[i].session # slot[j].session
  /\ \A c \in Caller : Opener(c) => slot[caller[c].req.slot].session = caller[c].req.session
  /\ \A i \in held : slot[i].session > 0
  /\ \A c \in Caller : Busy(c) => caller[c].req.call \in 1 .. calls

OInv == TInv /\ OwnInv /\ SessionInv

LEMMA ReqSlot ==
  ASSUME Types, NEW c \in Caller
  PROVE  /\ caller[c].req \in Request /\ caller[c].pc \in Pc
         /\ caller[c].req.slot \in Slot /\ caller[c].req.kind \in Kind
BY CallerFields, RequestFields DEF Types

LEMMA OInvInit == Init => OwnInv /\ SessionInv
<1> SUFFICES ASSUME Init PROVE OwnInv /\ SessionInv
  OBVIOUS
<1>1. \A c \in Caller : ~Busy(c) /\ caller[c].pc = "idle"
  BY IdleType DEF Init, Busy
<1>2. OwnInv
  BY <1>1 DEF Init, OwnInv, OneOpener, Taken, UsersHold, UsersApart, Using, User, Opener
<1>3. \A i \in Slot : slot[i].session = -1
  BY DEF Init
<1>4. SessionInv
  BY <1>1, <1>3 DEF Init, SessionInv, Opener
<1> QED BY <1>2, <1>4

LEMMA OpenOInv ==
  ASSUME OInv, NEW c \in Caller, NEW k \in Opening, Open(c, k)
  PROVE  OwnInv' /\ SessionInv'
<1>0. Types /\ session \in Nat /\ calls \in Nat /\ held \subseteq Slot /\ slot \in [Slot -> SlotRec]
  BY DEF OInv, TInv, Types
<1>1. PICK i \in Slot :
        /\ slot[i].status = "idle"
        /\ slot'[i] = [status |-> "wait", session |-> session + 1, fd |-> NoFd]
        /\ \A j \in Slot : j # i => slot'[j] = slot[j]
        /\ caller'[c] = [pc |-> "send", req |-> [kind |-> k, session |-> session + 1,
                           fd |-> NoFd, slot |-> i, call |-> calls + 1]]
  BY <1>0, OpenStep
<1>2. /\ caller[c].pc = "idle" /\ \A d \in Caller : d # c => caller'[d] = caller[d]
      /\ session' = session + 1 /\ calls' = calls + 1 /\ UNCHANGED held
  BY <1>0, OpenStep
<1>3. /\ \A d \in Caller : d # c => (Opener(d)' <=> Opener(d)) /\ (User(d)' <=> User(d))
                                    /\ (Using(d)' <=> Using(d)) /\ (Busy(d)' <=> Busy(d))
      /\ ~User(c)' /\ ~Using(c)' /\ caller'[c].req.slot = i
  BY <1>1, <1>2 DEF Opener, User, Using, Busy
<1>4. i \notin held /\ \A d \in Caller : Opener(d) => caller[d].req.slot # i
  BY <1>1 DEF OInv, OwnInv, Taken
<1>5. OneOpener'
  BY <1>2, <1>3, <1>4 DEF OInv, OwnInv, OneOpener
<1>6. Taken'
  BY <1>0, <1>1, <1>2, <1>3, <1>4, ReqSlot DEF OInv, OwnInv, Taken
<1>7. UsersHold' /\ UsersApart'
  BY <1>1, <1>2, <1>3 DEF OInv, OwnInv, UsersHold, UsersApart
<1>8. SessionInv'
  <2>1. \A j \in Slot : slot[j].session <= session /\ slot[j].session \in Int
    BY <1>0, SlotFields DEF OInv, SessionInv
  <2>2. \A j \in Slot : slot'[j].session <= session'
    BY <1>0, <1>1, <1>2, <2>1
  <2>3. \A j, l \in Slot : j # l /\ slot'[j].session > 0 => slot'[j].session # slot'[l].session
    BY <1>0, <1>1, <1>2, <2>1 DEF OInv, SessionInv
  <2>4. \A d \in Caller : Opener(d)' => slot'[caller'[d].req.slot].session = caller'[d].req.session
    <3>1. slot'[caller'[c].req.slot].session = caller'[c].req.session
      BY <1>1
    <3> QED BY <3>1, <1>0, <1>1, <1>2, <1>3, <1>4, ReqSlot DEF OInv, SessionInv
  <2>5. \A j \in held' : slot'[j].session > 0
    BY <1>0, <1>1, <1>2, <1>4 DEF OInv, SessionInv
  <2>6. \A d \in Caller : Busy(d)' => caller'[d].req.call \in 1 .. calls'
    <3>1. caller'[c].req.call = calls + 1
      BY <1>1
    <3> QED BY <3>1, <1>0, <1>2, <1>3 DEF OInv, SessionInv
  <2> QED BY <2>2, <2>3, <2>4, <2>5, <2>6 DEF SessionInv
<1> QED BY <1>5, <1>6, <1>7, <1>8 DEF OwnInv

LEMMA CallOInv ==
  ASSUME OInv, NEW c \in Caller, NEW i \in Slot, NEW k \in Op \cup {"close"}, Call(c, i, k)
  PROVE  OwnInv' /\ SessionInv'
<1>0. Types /\ UsedInv /\ session \in Nat /\ calls \in Nat
  BY DEF OInv, TInv, Types
<1>1. /\ caller'[c] = [pc |-> "send", req |-> [kind |-> k, session |-> slot[i].session,
                         fd |-> slot[i].fd, slot |-> i, call |-> calls + 1]]
      /\ i \in held /\ Calling(i, k) = {} /\ Calling(i, "close") = {}
      /\ k = "close" => \A j \in Op : Calling(i, j) = {}
      /\ caller[c].pc = "idle" /\ \A d \in Caller : d # c => caller'[d] = caller[d]
      /\ calls' = calls + 1
      /\ UNCHANGED <<slot, session, held>>
  <2> HIDE DEF Types, UsedInv
  <2> QED BY <1>0, CallStep
<1>2. caller'[c].req.kind = k /\ caller'[c].req.slot = i /\ caller'[c].req.call = calls + 1
      /\ caller'[c].pc = "send"
  BY <1>1
<1>3. /\ \A d \in Caller : d # c => (Opener(d)' <=> Opener(d)) /\ (User(d)' <=> User(d))
                                    /\ (Using(d)' <=> Using(d)) /\ (Busy(d)' <=> Busy(d))
      /\ ~Opener(c)'
  BY <1>1, <1>2, Kinds DEF Opener, User, Using, Busy
<1>4. \A d \in Caller : User(d) /\ caller[d].req.slot = i
         => caller[d].req.kind # k /\ caller[d].req.kind # "close" /\ k # "close"
  <2> SUFFICES ASSUME NEW d \in Caller, User(d), caller[d].req.slot = i
               PROVE  caller[d].req.kind # k /\ caller[d].req.kind # "close" /\ k # "close"
    OBVIOUS
  <2>1. caller[d].req.kind # k /\ caller[d].req.kind # "close"
    BY <1>1 DEF Calling, User, Busy
  <2>2. caller[d].req.kind \in Op
    BY <1>0, <2>1, ReqSlot, Kinds DEF User
  <2>3. d \in Calling(i, caller[d].req.kind)
    BY DEF Calling, User, Busy
  <2> QED BY <1>1, <2>1, <2>2, <2>3
<1>5. OneOpener' /\ Taken'
  BY <1>1, <1>3 DEF OInv, OwnInv, OneOpener, Taken
<1>6. UsersHold'
  BY <1>1, <1>2, <1>3 DEF OInv, OwnInv, UsersHold
<1>7. UsersApart'
  BY <1>1, <1>2, <1>3, <1>4 DEF OInv, OwnInv, UsersApart
<1>8. SessionInv'
  BY <1>0, <1>1, <1>2, <1>3 DEF OInv, SessionInv
<1> QED BY <1>5, <1>6, <1>7, <1>8 DEF OwnInv


LEMMA MovesOInv ==
  ASSUME OInv, NEW c \in Caller, NEW from, NEW to, Moves(c, from, to),
         from \notin {"idle", "return"}, to # "idle", UNCHANGED held,
         to = "release" => caller[c].req.kind = "close"
  PROVE  OwnInv' /\ SessionInv'
<1>1. /\ caller[c].pc = from /\ caller'[c].pc = to
      /\ \A d \in Caller : d # c => caller'[d] = caller[d]
      /\ \A d \in Caller : caller'[d].req = caller[d].req
      /\ UNCHANGED <<slot, session, calls, held>>
  BY DEF Moves, Quietly
<1>2. \A d \in Caller : (Opener(d)' <=> Opener(d)) /\ (User(d)' <=> User(d)) /\ (Busy(d)' <=> Busy(d))
  BY <1>1 DEF Opener, User, Busy
<1>3. \A d \in Caller : Using(d)' => Using(d)
  BY <1>1, <1>2 DEF Using
<1>4. OneOpener' /\ Taken' /\ UsersApart'
  BY <1>1, <1>2 DEF OInv, OwnInv, OneOpener, Taken, UsersApart
<1>5. UsersHold'
  BY <1>1, <1>3 DEF OInv, OwnInv, UsersHold
<1>6. SessionInv'
  BY <1>1, <1>2 DEF OInv, SessionInv
<1> QED BY <1>4, <1>5, <1>6 DEF OwnInv

LEMMA FailedOInv ==
  ASSUME OInv, NEW c \in Caller, Failed(c)
  PROVE  OwnInv' /\ SessionInv'
<1> DEFINE i == caller[c].req.slot
<1>0. Types /\ held \subseteq Slot /\ \A d \in Caller : caller[d].req.slot \in Slot
  BY ReqSlot DEF OInv, TInv, Types
<1>1. /\ caller[c].pc = "failed" /\ caller'[c] = Idle
      /\ \A d \in Caller : d # c => caller'[d] = caller[d]
      /\ \A j \in Slot : j # i \/ caller[c].req.kind \notin Opening => slot'[j] = slot[j]
      /\ \A j \in Slot : slot'[j].session = slot[j].session
      /\ UNCHANGED <<session, held, calls>>
  BY <1>0, FailedStep
<1>2. \A d \in Caller :
        /\ Opener(d)' => Opener(d) /\ d # c /\ caller'[d] = caller[d]
        /\ User(d)' => User(d) /\ d # c /\ caller'[d] = caller[d]
        /\ Using(d)' => Using(d) /\ d # c /\ caller'[d] = caller[d]
        /\ Busy(d)' => Busy(d) /\ d # c /\ caller'[d] = caller[d]
  BY <1>1, IdleType DEF Opener, User, Using, Busy
<1>3. OneOpener' /\ UsersApart'
  BY <1>2 DEF OInv, OwnInv, OneOpener, UsersApart
<1>4. UsersHold'
  BY <1>1, <1>2, IdleType DEF OInv, OwnInv, UsersHold
<1>5. caller[c].req.kind \in Opening =>
        i \notin held /\ \A d \in Caller : d # c /\ Opener(d) => caller[d].req.slot # i
  BY <1>1 DEF OInv, OwnInv, OneOpener, Taken, Opener, Busy
<1>6. Taken'
  BY <1>0, <1>1, <1>2, <1>5 DEF OInv, OwnInv, Taken
<1>7. SessionInv'
  BY <1>0, <1>1, <1>2 DEF OInv, SessionInv
<1> QED BY <1>3, <1>4, <1>6, <1>7 DEF OwnInv

LEMMA ReleaseOInv ==
  ASSUME OInv, NEW c \in Caller, Release(c)
  PROVE  OwnInv' /\ SessionInv'
<1> DEFINE i == caller[c].req.slot
<1>0. Types /\ held \subseteq Slot /\ \A d \in Caller : caller[d].req.slot \in Slot
  BY ReqSlot DEF OInv, TInv, Types
<1>1. /\ caller[c].pc = "release" /\ caller'[c].pc = "return" /\ caller'[c].req = caller[c].req
      /\ \A d \in Caller : d # c => caller'[d] = caller[d]
      /\ \A j \in Slot : j # i => slot'[j] = slot[j]
      /\ \A j \in Slot : slot'[j].session = slot[j].session
      /\ held' = held \ {i}
      /\ UNCHANGED <<session, calls>>
  BY <1>0, ReleaseStep
<1>2. \A d \in Caller : /\ caller'[d].req = caller[d].req
                        /\ (Opener(d)' <=> Opener(d)) /\ (User(d)' <=> User(d)) /\ (Busy(d)' <=> Busy(d))
  BY <1>1 DEF Opener, User, Busy
<1>3. caller[c].req.kind = "close" /\ User(c) /\ Using(c) /\ i \in held
  BY <1>1, Kinds DEF OInv, OwnInv, UsersHold, Using, User, Busy
<1>4. \A d \in Caller : d # c /\ User(d) => caller[d].req.slot # i
  BY <1>3 DEF OInv, OwnInv, UsersApart
<1>5. \A d \in Caller : Opener(d) => caller[d].req.slot # i
  BY <1>3 DEF OInv, OwnInv, Taken
<1>6. OneOpener' /\ UsersApart'
  BY <1>2 DEF OInv, OwnInv, OneOpener, UsersApart
<1>7. UsersHold'
  <2>1. ~Using(c)'
    BY <1>1, <1>3 DEF Using
  <2>2. \A d \in Caller : d # c /\ Using(d)' => Using(d) /\ User(d)
    BY <1>1, <1>2 DEF Using
  <2> QED BY <1>1, <1>2, <1>4, <2>1, <2>2 DEF OInv, OwnInv, UsersHold
<1>8. Taken'
  BY <1>0, <1>1, <1>2, <1>5 DEF OInv, OwnInv, Taken
<1>9. SessionInv'
  BY <1>0, <1>1, <1>2 DEF OInv, SessionInv
<1> QED BY <1>6, <1>7, <1>8, <1>9 DEF OwnInv

LEMMA ReturnOInv ==
  ASSUME OInv, NEW c \in Caller, Return(c)
  PROVE  OwnInv' /\ SessionInv'
<1> DEFINE i == caller[c].req.slot
<1>0. Types /\ held \subseteq Slot /\ \A d \in Caller : caller[d].req.slot \in Slot
  BY ReqSlot DEF OInv, TInv, Types
<1>1. /\ caller[c].pc = "return" /\ caller'[c] = Idle
      /\ \A d \in Caller : d # c => caller'[d] = caller[d]
      /\ held' = IF caller[c].req.kind \in Opening THEN held \cup {i} ELSE held
      /\ UNCHANGED <<slot, session, calls>>
  BY <1>0, ReturnStep DEF Quietly
<1>2. \A d \in Caller :
        /\ Opener(d)' => Opener(d) /\ d # c /\ caller'[d] = caller[d]
        /\ User(d)' => User(d) /\ d # c /\ caller'[d] = caller[d]
        /\ Using(d)' => Using(d) /\ d # c /\ caller'[d] = caller[d]
        /\ Busy(d)' => Busy(d) /\ d # c /\ caller'[d] = caller[d]
  BY <1>1, IdleType DEF Opener, User, Using, Busy
<1>3. caller[c].req.kind \in Opening => Opener(c)
  BY <1>1 DEF Opener, Busy
<1>4. OneOpener' /\ UsersApart'
  BY <1>2 DEF OInv, OwnInv, OneOpener, UsersApart
<1>5. UsersHold'
  BY <1>1, <1>2, IdleType DEF OInv, OwnInv, UsersHold
<1>6. Taken'
  BY <1>0, <1>1, <1>2, <1>3 DEF OInv, OwnInv, Taken, OneOpener
<1>7. SessionInv'
  <2>1. Opener(c) => slot[i].session > 0
    <3>1. Opener(c) => caller[c].req.session \in 1 .. session /\ slot[i].session = caller[c].req.session
      BY DEF OInv, SessionInv, TInv, UsedInv
    <3>2. session \in Nat
      BY <1>0 DEF Types
    <3> QED BY <3>1, <3>2
  <2> QED BY <1>0, <1>1, <1>2, <1>3, <2>1 DEF OInv, SessionInv
<1> QED BY <1>4, <1>5, <1>6, <1>7 DEF OwnInv

\* The server, the line and the receiving thread own nothing.
LEMMA OthersOInv ==
  ASSUME OInv, UNCHANGED <<caller, held, session, calls>>,
         \A i \in Slot : slot'[i].session = slot[i].session,
         \A i \in Slot : slot'[i].status = "idle" => slot[i].status = "idle"
  PROVE  OwnInv' /\ SessionInv'
<1>0. held \subseteq Slot /\ \A d \in Caller : caller[d].req.slot \in Slot
  BY ReqSlot DEF OInv, TInv, Types
<1>1. \A d \in Caller : (Opener(d)' <=> Opener(d)) /\ (User(d)' <=> User(d))
                        /\ (Using(d)' <=> Using(d)) /\ (Busy(d)' <=> Busy(d))
  BY DEF Opener, User, Using, Busy
<1>2. OneOpener' /\ UsersApart' /\ UsersHold'
  BY <1>1 DEF OInv, OwnInv, OneOpener, UsersApart, UsersHold
<1>3. Taken'
  BY <1>0, <1>1 DEF OInv, OwnInv, Taken
<1>4. SessionInv'
  BY <1>0, <1>1 DEF OInv, SessionInv
<1> QED BY <1>2, <1>3, <1>4 DEF OwnInv

LEMMA OInvNext == OInv /\ [Next]_vars => OInv'
<1> SUFFICES ASSUME OInv, [Next]_vars PROVE OwnInv' /\ SessionInv'
  BY TInvNext DEF OInv
<1>0. TInv /\ Types /\ PlaceInv
  BY DEF OInv, TInv
<1>1. ASSUME NEW c \in Caller, NEW k \in Opening, Open(c, k) PROVE OwnInv' /\ SessionInv'
  BY <1>1, OpenOInv
<1>2. ASSUME NEW c \in Caller, NEW i \in Slot, NEW k \in Op \cup {"close"}, Call(c, i, k)
      PROVE  OwnInv' /\ SessionInv'
  BY <1>2, CallOInv
<1>3. ASSUME NEW c \in Caller, CallerStep(c) PROVE OwnInv' /\ SessionInv'
  <2>1. CASE Transmit(c)
    <3>1. /\ caller[c].pc = "send" /\ caller'[c].pc = "sent" /\ caller'[c].req = caller[c].req
          /\ \A d \in Caller : d # c => caller'[d] = caller[d]
          /\ UNCHANGED <<slot, session, calls, held>>
      BY <1>0, <2>1, TransmitStep DEF Quietly
    <3>2. \A d \in Caller : /\ caller'[d].req = caller[d].req
                            /\ (Opener(d)' <=> Opener(d)) /\ (User(d)' <=> User(d))
                            /\ (Using(d)' <=> Using(d)) /\ (Busy(d)' <=> Busy(d))
      BY <3>1 DEF Opener, User, Using, Busy
    <3>3. OneOpener' /\ UsersApart' /\ UsersHold' /\ Taken'
      BY <3>1, <3>2 DEF OInv, OwnInv, OneOpener, UsersApart, UsersHold, Taken
    <3>4. SessionInv'
      BY <3>1, <3>2 DEF OInv, SessionInv
    <3> QED BY <3>3, <3>4 DEF OwnInv
  <2>2. CASE TransmitLost(c)
    BY <1>0, <2>2, TransmitLostStep, MovesOInv
  <2>3. CASE SendOk(c)
    BY <1>0, <2>3, SendOkStep, MovesOInv
  <2>4. CASE SendUnacked(c)
    BY <1>0, <2>4, SendUnackedStep, MovesOInv
  <2>5. CASE Wait(c)
    <3>1. PICK to \in {"release", "return"} :
            Moves(c, "wait", to) /\ (to = "release" => caller[c].req.kind = "close")
      BY <1>0, <2>5, WaitStep
    <3>2. UNCHANGED held
      BY <1>0, <2>5, WaitStep
    <3> QED BY <3>1, <3>2, MovesOInv
  <2>6. CASE Failed(c)
    BY <2>6, FailedOInv
  <2>7. CASE Release(c)
    BY <2>7, ReleaseOInv
  <2>8. CASE Return(c)
    BY <2>8, ReturnOInv
  <2> QED BY <1>3, <2>1, <2>2, <2>3, <2>4, <2>5, <2>6, <2>7, <2>8 DEF CallerStep
<1>4. CASE ServerStep
  <2>1. CASE ServeOpen
    BY <1>0, <2>1, ServeOpenStep, OthersOInv DEF Served
  <2>2. CASE ServeRefused
    BY <1>0, <2>2, ServeRefusedStep, OthersOInv DEF Served
  <2>3. CASE ServeClose
    BY <1>0, <2>3, ServeCloseStep, OthersOInv DEF Served
  <2>4. CASE ServeOp
    BY <1>0, <2>4, ServeOpStep, OthersOInv DEF Served
  <2>5. CASE Answer
    BY <1>0, <2>5, AnswerStep, OthersOInv
  <2>6. CASE AnswerLost
    BY <1>0, <2>6, AnswerLostStep, OthersOInv
  <2> QED BY <1>4, <2>1, <2>2, <2>3, <2>4, <2>5, <2>6 DEF ServerStep
<1>5. CASE HandlerStep
  <2>1. CASE Receive
    BY <1>0, <2>1, ReceiveStep, OthersOInv
  <2>2. CASE Look
    BY <1>0, <2>2, LookStep, OthersOInv
  <2>3. CASE Store
    <3>1. /\ \A j \in Slot : slot'[j].session = slot[j].session
          /\ UNCHANGED <<caller, held, session, calls>>
      BY <1>0, <2>3, StoreStep
    <3>2. \A j \in Slot : slot'[j].status = "idle" => slot[j].status = "idle"
      <4>1. \A j \in Slot : j # handler.at \/ handler.answer.kind \notin Opening => slot'[j] = slot[j]
        BY <1>0, <2>3, StoreStep
      <4>2. handler.answer.kind \in Opening => slot'[handler.at].status = "done"
        BY <1>0, <2>3, StoreStep
      <4> QED BY <4>1, <4>2
    <3> QED BY <3>1, <3>2, OthersOInv
  <2>4. CASE Post
    BY <1>0, <2>4, PostStep, OthersOInv
  <2> QED BY <1>5, <2>1, <2>2, <2>3, <2>4 DEF HandlerStep
<1>6. CASE UNCHANGED vars
  BY <1>6, OthersOInv DEF vars, slotVars, historyVars
<1> QED BY <1>1, <1>2, <1>3, <1>4, <1>5, <1>6 DEF Next

-----------------------------------------------------------------------------
(* The line as one queue: the answer in the receiving thread's hands, until *)
(* its slot has been passed, the answers behind it, the one the server is   *)
(* about to send, and the requests.                                         *)

HandLen == IF handler.pc # "rest" /\ handler.at <= handler.answer.slot THEN 1 ELSE 0
PendLen == IF reply = NoRequest THEN 0 ELSE 1
LineLen == HandLen + Len(answers) + PendLen + Len(requests)

Item(p) ==
  IF p <= HandLen THEN handler.answer
  ELSE IF p <= HandLen + Len(answers) THEN answers[p - HandLen]
  ELSE IF p <= HandLen + Len(answers) + PendLen THEN reply
  ELSE requests[p - HandLen - Len(answers) - PendLen]

\* x is what y has become: the same, or an opening request that was served.
Alike(x, y) ==
  /\ x.kind = y.kind /\ x.session = y.session /\ x.slot = y.slot /\ x.call = y.call
  /\ x.fd = y.fd \/ (x.kind \in Opening /\ x.fd \in Fd /\ open'[x.fd] = x.session)

\* The line holds what it held at low and behind it, or less, in its order.
FromLine(low) ==
  /\ \A p \in 1 .. LineLen' : \E a \in low .. LineLen : Alike(Item(p)', Item(a))
  /\ \A p, q \in 1 .. LineLen' : p < q =>
       \E a, b \in low .. LineLen : a < b /\ Alike(Item(p)', Item(a)) /\ Alike(Item(q)', Item(b))

\* It is enough to tell where each item was.
LEMMA FromLineBy ==
  ASSUME NEW low \in Nat, NEW f,
         \A p \in 1 .. LineLen' : f[p] \in low .. LineLen /\ Alike(Item(p)', Item(f[p])),
         \A p, q \in 1 .. LineLen' : p < q => f[p] < f[q]
  PROVE  FromLine(low)
BY DEF FromLine

LEMMA Lens ==
  ASSUME Types
  PROVE  /\ HandLen \in {0, 1} /\ PendLen \in {0, 1}
         /\ Len(answers) \in Nat /\ Len(requests) \in Nat /\ LineLen \in Nat
<1>1. Len(answers) \in Nat /\ Len(requests) \in Nat
  BY LenProperties DEF Types
<1>2. HandLen \in {0, 1} /\ PendLen \in {0, 1}
  BY DEF HandLen, PendLen
<1>3. LineLen \in Nat
  BY <1>1, <1>2 DEF LineLen
<1> QED BY <1>1, <1>2, <1>3

LEMMA ItemType ==
  ASSUME Types, NEW p \in 1 .. LineLen
  PROVE  Item(p) \in Request
<1>1. /\ handler.answer \in Request /\ reply \in Request
      /\ answers \in Seq(Request) /\ requests \in Seq(Request)
  BY HandlerFields DEF Types
<1>2. /\ \A q \in 1 .. Len(answers) : answers[q] \in Request
      /\ \A q \in 1 .. Len(requests) : requests[q] \in Request
  BY <1>1, ElementOfSeq
<1>3. PICK h \in {0, 1}, d \in {0, 1}, n \in Nat, m \in Nat :
        h = HandLen /\ d = PendLen /\ n = Len(answers) /\ m = Len(requests)
  BY Lens
<1> QED BY <1>1, <1>2, <1>3 DEF Item, LineLen

\* Steps that leave the four parts alone.
LEMMA LineUnchanged ==
  ASSUME Types, UNCHANGED <<answers, reply, requests>>,
         handler'.answer = handler.answer, handler'.at = handler.at,
         handler'.pc # "rest" <=> handler.pc # "rest"
  PROVE  LineLen' = LineLen /\ (\A p : Item(p)' = Item(p)) /\ FromLine(1)
<1>1. HandLen' = HandLen /\ PendLen' = PendLen
  BY DEF HandLen, PendLen
<1>2. LineLen' = LineLen /\ \A p : Item(p)' = Item(p)
  BY <1>1 DEF LineLen, Item
<1>3. LineLen \in Nat
  BY Lens
<1>4. \A p \in 1 .. LineLen' : Alike(Item(p)', Item(p))
  BY <1>2 DEF Alike
<1> QED BY <1>2, <1>3, <1>4 DEF FromLine

LEMMA TransmitLine ==
  ASSUME Types, NEW c \in Caller, Transmit(c)
  PROVE  \E last \in Nat : /\ LineLen = last /\ LineLen' = last + 1
                           /\ \A p \in 1 .. last : Item(p)' = Item(p)
                           /\ Item(last + 1)' = caller[c].req
<1>1. /\ Len(requests') = Len(requests) + 1
      /\ requests'[Len(requests) + 1] = caller[c].req
      /\ \A p \in 1 .. Len(requests) : requests'[p] = requests[p]
      /\ UNCHANGED <<handler, answers, reply>>
  BY TransmitStep DEF Quietly
<1>2. HandLen' = HandLen /\ PendLen' = PendLen
  BY <1>1 DEF HandLen, PendLen
<1>3. PICK h \in {0, 1}, d \in {0, 1}, n \in Nat, m \in Nat :
        h = HandLen /\ d = PendLen /\ n = Len(answers) /\ m = Len(requests)
  BY Lens
<1>4. LineLen = h + n + d + m /\ LineLen' = h + n + d + m + 1
  BY <1>1, <1>2, <1>3 DEF LineLen
<1>5. \A p \in 1 .. h + n + d + m : Item(p)' = Item(p)
  BY <1>1, <1>2, <1>3 DEF Item
<1>6. Item(h + n + d + m + 1)' = caller[c].req
  <2>1. Item(h + n + d + m + 1)' = requests'[(h + n + d + m + 1) - h - n - d]
    BY <1>1, <1>2, <1>3 DEF Item
  <2>2. (h + n + d + m + 1) - h - n - d = Len(requests) + 1
    BY <1>3
  <2> QED BY <1>1, <2>1, <2>2
<1> QED BY <1>3, <1>4, <1>5, <1>6

LEMMA ServedLine ==
  ASSUME Types, NEW fd, Served(fd), requests[1].call > 0,
         \/ fd = requests[1].fd
         \/ requests[1].kind \in Opening /\ fd \in Fd /\ open'[fd] = requests[1].session
  PROVE  FromLine(1)
<1>1. /\ reply = NoRequest /\ Len(requests) > 0
      /\ Len(requests') = Len(requests) - 1
      /\ \A p \in 1 .. Len(requests) - 1 : requests'[p] = requests[p + 1]
      /\ Alike(reply', requests[1]) /\ reply'.call > 0
      /\ UNCHANGED <<handler, answers>>
  BY DEF Served, Alike
<1>2. HandLen' = HandLen /\ PendLen = 0 /\ PendLen' = 1
  BY <1>1, NoRequestType DEF HandLen, PendLen
<1>3. PICK h \in {0, 1}, n \in Nat, m \in Nat :
        h = HandLen /\ n = Len(answers) /\ m = Len(requests)
  BY Lens
<1>4. LineLen = h + n + m /\ LineLen' = h + n + m
  BY <1>1, <1>2, <1>3 DEF LineLen
<1>5. \A p \in 1 .. h + n + m : p # h + n + 1 => Item(p)' = Item(p)
  <2>1. \A p \in 1 .. h + n : Item(p)' = Item(p)
    BY <1>1, <1>2, <1>3 DEF Item
  <2>2. ASSUME NEW p \in h + n + 2 .. h + n + m PROVE Item(p)' = Item(p)
    <3>1. Item(p)' = requests'[p - h - n - 1]
      BY <1>1, <1>2, <1>3 DEF Item
    <3>2. Item(p) = requests[p - h - n]
      BY <1>1, <1>2, <1>3 DEF Item
    <3>3. p - h - n - 1 \in 1 .. Len(requests) - 1 /\ (p - h - n - 1) + 1 = p - h - n
      BY <1>3
    <3> QED BY <1>1, <3>1, <3>2, <3>3
  <2> QED BY <1>3, <2>1, <2>2
<1>6. Item(h + n + 1)' = reply' /\ Item(h + n + 1) = requests[1]
  BY <1>1, <1>2, <1>3 DEF Item
<1>7. \A p \in 1 .. LineLen' : Alike(Item(p)', Item(p))
  BY <1>1, <1>4, <1>5, <1>6 DEF Alike
<1> QED BY <1>3, <1>4, <1>7 DEF FromLine

LEMMA AnswerLine ==
  ASSUME Types, Answer
  PROVE  FromLine(1)
<1>1. /\ reply # NoRequest /\ reply' = NoRequest
      /\ Len(answers') = Len(answers) + 1
      /\ answers'[Len(answers) + 1] = reply
      /\ \A p \in 1 .. Len(answers) : answers'[p] = answers[p]
      /\ UNCHANGED <<handler, requests>>
  BY AnswerStep
<1>2. HandLen' = HandLen /\ PendLen = 1 /\ PendLen' = 0
  BY <1>1 DEF HandLen, PendLen
<1>3. PICK h \in {0, 1}, n \in Nat, m \in Nat :
        h = HandLen /\ n = Len(answers) /\ m = Len(requests)
  BY Lens
<1>4. LineLen = h + n + 1 + m /\ LineLen' = h + n + 1 + m
  BY <1>1, <1>2, <1>3 DEF LineLen
<1>5. ASSUME NEW p \in 1 .. h + n + 1 + m PROVE Item(p)' = Item(p)
  <2>1. CASE p <= h + n
    BY <1>1, <1>2, <1>3, <2>1 DEF Item
  <2>2. CASE p = h + n + 1
    <3>1. Item(p) = reply
      BY <1>2, <1>3, <2>2 DEF Item
    <3>2. Item(p)' = answers'[p - h]
      BY <1>1, <1>2, <1>3, <2>2 DEF Item
    <3>3. p - h = Len(answers) + 1
      BY <1>3, <2>2
    <3> QED BY <1>1, <3>1, <3>2, <3>3
  <2>3. CASE p > h + n + 1
    <3>1. Item(p) = requests[p - h - n - 1]
      BY <1>2, <1>3, <2>3 DEF Item
    <3>2. Item(p)' = requests[p - h - (n + 1) - 0]
      BY <1>1, <1>2, <1>3, <2>3 DEF Item
    <3>3. p - h - n - 1 = p - h - (n + 1) - 0
      BY <1>3
    <3> QED BY <3>1, <3>2, <3>3
  <2> QED BY <1>3, <2>1, <2>2, <2>3
<1>6. \A p \in 1 .. LineLen' : Alike(Item(p)', Item(p))
  BY <1>4, <1>5 DEF Alike
<1> QED BY <1>3, <1>4, <1>6 DEF FromLine

LEMMA AnswerLostLine ==
  ASSUME Types, AnswerLost
  PROVE  FromLine(1)
<1>1. reply # NoRequest /\ reply' = NoRequest /\ UNCHANGED <<handler, answers, requests>>
  BY AnswerLostStep
<1>2. HandLen' = HandLen /\ PendLen = 1 /\ PendLen' = 0
  BY <1>1 DEF HandLen, PendLen
<1>3. PICK h \in {0, 1}, n \in Nat, m \in Nat :
        h = HandLen /\ n = Len(answers) /\ m = Len(requests)
  BY Lens
<1>4. LineLen = h + n + 1 + m /\ LineLen' = h + n + m
  BY <1>1, <1>2, <1>3 DEF LineLen
<1> DEFINE f == [p \in 1 .. h + n + m |-> IF p <= h + n THEN p ELSE p + 1]
<1>5. ASSUME NEW p \in 1 .. h + n + m PROVE Item(p)' = Item(f[p])
  <2>1. CASE p <= h + n
    <3>1. f[p] = p
      BY <2>1
    <3>2. Item(p)' = Item(p)
      BY <1>1, <1>2, <1>3, <2>1 DEF Item
    <3> QED BY <3>1, <3>2
  <2>2. CASE p > h + n
    <3>1. f[p] = p + 1
      BY <1>3, <2>2
    <3>2. Item(p)' = requests[p - h - n - 0]
      BY <1>1, <1>2, <1>3, <2>2 DEF Item
    <3>3. Item(p + 1) = requests[(p + 1) - h - n - 1]
      BY <1>2, <1>3, <2>2 DEF Item
    <3>4. p - h - n - 0 = (p + 1) - h - n - 1
      BY <1>3
    <3> QED BY <3>1, <3>2, <3>3, <3>4
  <2> QED BY <1>3, <2>1, <2>2
<1>6. \A p \in 1 .. h + n + m : f[p] \in 1 .. LineLen /\ Alike(Item(p)', Item(f[p]))
  BY <1>3, <1>4, <1>5 DEF Alike
<1>7. \A p, q \in 1 .. h + n + m : p < q => f[p] < f[q]
  BY <1>3
<1> HIDE DEF f
<1> QED BY <1>4, <1>6, <1>7, FromLineBy

LEMMA ReceiveLine ==
  ASSUME Types, Receive
  PROVE  FromLine(1)
<1>1. /\ handler.pc = "rest" /\ handler'.pc = "look" /\ handler'.at = 0
      /\ Len(answers) > 0 /\ handler'.answer = answers[1] /\ answers[1] \in Request
      /\ Len(answers') = Len(answers) - 1
      /\ \A p \in 1 .. Len(answers) - 1 : answers'[p] = answers[p + 1]
      /\ UNCHANGED <<reply, requests>>
  BY ReceiveStep
<1>2. handler'.at <= handler'.answer.slot
  <2>1. answers[1].slot \in Nat
    BY <1>1, RequestFields, SlotIs
  <2> QED BY <1>1, <2>1
<1>3. HandLen = 0 /\ HandLen' = 1 /\ PendLen' = PendLen
  BY <1>1, <1>2 DEF HandLen, PendLen
<1>4. PICK d \in {0, 1}, n \in Nat, m \in Nat :
        d = PendLen /\ n = Len(answers) /\ m = Len(requests)
  BY Lens
<1>5. LineLen = n + d + m /\ LineLen' = n + d + m
  BY <1>1, <1>3, <1>4 DEF LineLen
<1>6. ASSUME NEW p \in 1 .. n + d + m PROVE Item(p)' = Item(p)
  <2>1. CASE p = 1
    <3>1. Item(p)' = handler'.answer
      BY <1>3, <2>1 DEF Item
    <3>2. Item(p) = answers[p - 0]
      BY <1>1, <1>3, <1>4, <2>1 DEF Item
    <3> QED BY <1>1, <2>1, <3>1, <3>2
  <2>2. CASE p > 1 /\ p <= n
    <3>1. Item(p)' = answers'[p - 1]
      BY <1>1, <1>3, <1>4, <2>2 DEF Item
    <3>2. Item(p) = answers[p - 0]
      BY <1>3, <1>4, <2>2 DEF Item
    <3>3. p - 1 \in 1 .. Len(answers) - 1 /\ (p - 1) + 1 = p - 0
      BY <1>4, <2>2
    <3>4. answers'[p - 1] = answers[(p - 1) + 1]
      BY <1>1, <3>3
    <3> QED BY <3>1, <3>2, <3>3, <3>4
  <2>3. CASE p > n
    <3>1. n \in Nat \ {0}
      BY <1>1, <1>4
    <3>2. CASE p <= n + d
      BY <1>1, <1>3, <1>4, <2>3, <3>1, <3>2 DEF Item
    <3>3. CASE p > n + d
      <4>1. Item(p)' = requests[p - 1 - (n - 1) - d]
        BY <1>1, <1>3, <1>4, <2>3, <3>1, <3>3 DEF Item
      <4>2. Item(p) = requests[p - 0 - n - d]
        BY <1>3, <1>4, <2>3, <3>1, <3>3 DEF Item
      <4>3. p - 1 - (n - 1) - d = p - 0 - n - d
        BY <1>4
      <4> QED BY <4>1, <4>2, <4>3
    <3> QED BY <1>4, <3>2, <3>3
  <2> QED BY <1>4, <2>1, <2>2, <2>3
<1>7. \A p \in 1 .. LineLen' : Alike(Item(p)', Item(p))
  BY <1>5, <1>6 DEF Alike
<1> QED BY <1>4, <1>5, <1>7 DEF FromLine

\* The receiving thread is done with an answer, or passes its slot.
LEMMA HandLine ==
  ASSUME Types, UNCHANGED <<answers, reply, requests>>, HandLen = 1, HandLen' = 0
  PROVE  LineLen >= 1 /\ Item(1) = handler.answer /\ FromLine(2)
<1>1. PendLen' = PendLen
  BY DEF PendLen
<1>2. PICK d \in {0, 1}, n \in Nat, m \in Nat :
        d = PendLen /\ n = Len(answers) /\ m = Len(requests)
  BY Lens
<1>3. LineLen = 1 + n + d + m /\ LineLen' = n + d + m
  BY <1>1, <1>2 DEF LineLen
<1> DEFINE f == [p \in 1 .. n + d + m |-> p + 1]
<1>4. \A p \in 1 .. n + d + m : Item(p)' = Item(f[p])
  BY <1>1, <1>2 DEF Item
<1>5. \A p \in 1 .. n + d + m : f[p] \in 2 .. LineLen /\ Alike(Item(p)', Item(f[p]))
  BY <1>2, <1>3, <1>4 DEF Alike
<1>6. \A p, q \in 1 .. n + d + m : p < q => f[p] < f[q]
  BY <1>2
<1>7. Item(1) = handler.answer
  BY DEF Item
<1> HIDE DEF f
<1>8. \A p \in 1 .. LineLen' : f[p] \in 2 .. LineLen /\ Alike(Item(p)', Item(f[p]))
  BY <1>3, <1>5
<1>9. \A p, q \in 1 .. LineLen' : p < q => f[p] < f[q]
  BY <1>3, <1>6
<1>10. FromLine(2)
  BY <1>8, <1>9, FromLineBy
<1>11. LineLen >= 1
  BY <1>2, <1>3
<1> QED BY <1>7, <1>10, <1>11

LEMMA FromTwoFromOne ==
  ASSUME FromLine(2)
  PROVE  FromLine(1)
<1>1. \A a : a \in 2 .. LineLen => a \in 1 .. LineLen
  OBVIOUS
<1> QED BY <1>1 DEF FromLine

\* What is in the receiving thread's hands stays there.
LEMMA HandSame ==
  ASSUME Types, UNCHANGED <<answers, reply, requests>>, HandLen' = HandLen,
         HandLen = 1 => handler'.answer = handler.answer
  PROVE  FromLine(1)
<1>1. PendLen' = PendLen
  BY DEF PendLen
<1>2. LineLen' = LineLen /\ LineLen \in Nat /\ HandLen \in {0, 1}
  BY <1>1, Lens DEF LineLen
<1>3. \A p \in 1 .. LineLen : Item(p)' = Item(p)
  BY <1>1, <1>2 DEF Item
<1>4. \A p \in 1 .. LineLen' : Alike(Item(p)', Item(p))
  BY <1>2, <1>3 DEF Alike
<1> QED BY <1>2, <1>4 DEF FromLine

-----------------------------------------------------------------------------
(* The semaphores.  While Good, client and server agree about every socket. *)
(* A semaphore is Quiet as long as each of its posts was waited for.        *)

Good == ~crossed /\ \A t \in stale : t[2] \in Op
Quiet(i, k) == <<i, k>> \notin stale /\ (k \notin Opening => Good)

\* Only the slot that it is to open has the session of r.
Named(r) == r.session \in 1 .. session /\ \A j \in Slot : slot[j].session = r.session => j = r.slot

NamedInv ==
  /\ \A p \in 1 .. LineLen : Item(p).call > 0 /\ (Item(p).kind \in Opening => Named(Item(p)))
  /\ handler.pc # "rest" /\ handler.answer.kind \in Opening => Named(handler.answer)
  /\ \A p \in 1 .. Len(requests) : requests[p].kind \in Opening => requests[p].fd = NoFd
  /\ \A c \in Caller : Opener(c) => caller[c].req.fd = NoFd

Awaits(c, i, k) == caller[c].pc \in {"sent", "wait"} /\ caller[c].req.slot = i /\ caller[c].req.kind = k

\* Somebody waits for what is in the line.
AwaitInv ==
  \A p \in 1 .. LineLen :
    Quiet(Item(p).slot, Item(p).kind) =>
      \E c \in Caller : /\ Awaits(c, Item(p).slot, Item(p).kind)
                        /\ caller[c].req.call = Item(p).call

\* The line never holds two calls of one kind on a slot, or one on a slot
\* behind the one that closes it.
Clash(x, y) ==
  /\ x.slot = y.slot
  /\ \/ Quiet(x.slot, x.kind) /\ x.kind = y.kind
     \/ Good /\ x.kind = "close" /\ y.kind \notin Opening

PairInv == \A p, q \in 1 .. LineLen : p < q => ~Clash(Item(p), Item(q))

\* When a semaphore is up the line no longer holds the call, its result is
\* that of the call, and its caller is about to take it down.
SemInv ==
  \A i \in Slot, k \in Kind :
    Quiet(i, k) /\ sem[i][k] > 0 =>
      /\ sem[i][k] = 1
      /\ \E c \in Caller : Awaits(c, i, k) /\ caller[c].req.call = result[i][k]
      /\ \A p \in 1 .. LineLen : Item(p).slot = i =>
           Item(p).kind # k /\ (k = "close" => Item(p).kind \in Opening)

\* The thread has been woken and is about to read the result.
Woken(c) == caller[c].pc = (IF caller[c].req.kind = "close" THEN "release" ELSE "return")

WokenInv ==
  \A c \in Caller : Woken(c) =>
    /\ Quiet(caller[c].req.slot, caller[c].req.kind) =>
         result[caller[c].req.slot][caller[c].req.kind] = caller[c].req.call
    /\ Good /\ caller[c].req.kind = "close" =>
         \A p \in 1 .. LineLen : Item(p).slot = caller[c].req.slot => Item(p).kind \in Opening

\* The receiving thread finds the slot that an answer belongs to, and no other.
HandInv ==
  LET r == handler.answer IN
  /\ handler.pc \in {"store", "post"} /\ (r.kind \in Opening \/ Good) => handler.at = r.slot
  /\ handler.pc = "post" /\ Quiet(r.slot, r.kind) => result[r.slot][r.kind] = r.call
  /\ handler.pc # "rest" /\ Good /\ r.kind \notin Opening =>
       \A j \in Slot : slot[j].status = "done" /\ slot[j].fd = r.fd => j = r.slot

OpeningInv ==
  \A i \in Slot :
    slot[i].status # "idle" /\ (\A k \in Opening : <<i, k>> \notin stale)
      => i \in held \/ \E c \in Caller : Opener(c) /\ caller[c].req.slot = i

-----------------------------------------------------------------------------
(* While Good: the slots and the server's descriptors.                      *)

\* A slot that is done has a session and a descriptor of its own.
DoneInv ==
  /\ \A i, j \in Slot : i # j /\ slot[i].status = "done" /\ slot[j].status = "done"
                          => slot[i].fd # slot[j].fd
  /\ \A i \in Slot : slot[i].status = "done" => slot[i].session > 0
  /\ \A i \in held : slot[i].status = "done"

\* The answer that opens a slot has been stored.
Stored(r) == handler.pc = "post" /\ handler.answer.slot = r.slot /\ handler.answer.kind = r.kind

\* A slot is done from the time the answer is stored.
OpenerInv ==
  /\ \A c \in Caller : Opener(c) =>
       /\ caller[c].pc \in {"send", "failed"} => slot[caller[c].req.slot].status = "wait"
       /\ caller[c].pc = "return" => slot[caller[c].req.slot].status = "done"
  /\ \A i \in Slot, k \in Opening : sem[i][k] > 0 => slot[i].status = "done"
  /\ handler.pc = "post" /\ handler.answer.kind \in Opening =>
       slot[handler.answer.slot].status = "done"

\* A call goes to the socket its slot has, as long as it is in the line.
ToSlot(r) ==
  /\ slot[r.slot].session = r.session
  /\ r.kind \in Opening => slot[r.slot].status = "wait" \/ Stored(r)
  /\ r.kind \notin Opening => slot[r.slot].status = "done" /\ slot[r.slot].fd = r.fd /\ r.fd # NoFd

ToSlotInv ==
  /\ \A p \in 1 .. LineLen : ToSlot(Item(p))
  /\ \A c \in Caller : User(c) /\ caller[c].pc = "send" => ToSlot(caller[c].req)

\* No request that closes slot i has reached the server.
NotClosing(i) ==
  \A c \in Caller : Busy(c) /\ caller[c].req.slot = i /\ caller[c].req.kind = "close"
                      => caller[c].pc \in {"send", "failed", "return"}

OpenInv ==
  /\ \A i \in Slot : slot[i].status = "done" /\ slot[i].fd # NoFd /\ NotClosing(i)
                       => open[slot[i].fd] = slot[i].session
  /\ \A p \in 1 .. Len(requests) : requests[p].kind \notin Opening =>
       open[requests[p].fd] = requests[p].session
  /\ \A p \in 1 .. LineLen : Item(p).kind \in Opening /\ Item(p).fd # NoFd =>
       Stored(Item(p)) \/ open[Item(p).fd] = Item(p).session

GoodInv == Good => DoneInv /\ OpenerInv /\ ToSlotInv /\ OpenInv

LineInv == NamedInv /\ AwaitInv /\ PairInv /\ SemInv /\ WokenInv /\ HandInv /\ OpeningInv

NInv == OInv /\ LineInv /\ GoodInv

LEMMA NInvInit == Init => LineInv /\ GoodInv
<1> SUFFICES ASSUME Init PROVE LineInv /\ GoodInv
  OBVIOUS
<1>1. /\ answers = <<>> /\ requests = <<>> /\ reply = NoRequest /\ handler = Rest
      /\ held = {} /\ stale = {}
      /\ sem = [i \in Slot |-> [k \in Kind |-> 0]]
      /\ slot = [i \in Slot |-> [status |-> "idle", session |-> -1, fd |-> NoFd]]
  BY DEF Init
<1>2. \A c \in Caller : ~Busy(c) /\ caller[c].pc = "idle"
  BY IdleType DEF Init, Busy
<1>3. LineLen = 0 /\ handler.pc = "rest" /\ Len(requests) = 0
  BY <1>1, RestType, EmptySeq DEF LineLen, HandLen, PendLen
<1>4. NamedInv /\ AwaitInv /\ PairInv
  BY <1>2, <1>3 DEF NamedInv, AwaitInv, PairInv, Opener
<1>5. SemInv
  BY <1>1 DEF SemInv
<1>6. WokenInv /\ HandInv /\ OpeningInv
  BY <1>1, <1>2, <1>3 DEF WokenInv, Woken, HandInv, OpeningInv
<1>7. \A i \in Slot : slot[i].status = "idle"
  BY <1>1
<1>8. DoneInv /\ OpenerInv
  BY <1>1, <1>2, <1>3, <1>7, Kinds DEF DoneInv, OpenerInv, Opener
<1>9. ToSlotInv /\ OpenInv
  BY <1>2, <1>3, <1>7 DEF ToSlotInv, OpenInv, User
<1> QED BY <1>4, <1>5, <1>6, <1>8, <1>9 DEF LineInv, GoodInv

-----------------------------------------------------------------------------
(* Steps of the line, the server and the receiving thread that post nothing.*)

LEMMA LineNamed ==
  ASSUME NInv, FromLine(1), UNCHANGED <<slot, session>>
  PROVE  \A p \in 1 .. LineLen' :
           Item(p)'.call > 0 /\ (Item(p)'.kind \in Opening => Named(Item(p))')
<1> SUFFICES ASSUME NEW p \in 1 .. LineLen'
             PROVE  Item(p)'.call > 0 /\ (Item(p)'.kind \in Opening => Named(Item(p))')
  OBVIOUS
<1>1. PICK a \in 1 .. LineLen : Alike(Item(p)', Item(a))
  BY DEF FromLine
<1>2. Item(a).call > 0 /\ (Item(a).kind \in Opening => Named(Item(a)))
  BY DEF NInv, LineInv, NamedInv
<1> QED BY <1>1, <1>2 DEF Alike, Named

LEMMA LineKept ==
  ASSUME NInv, FromLine(1), UNCHANGED <<result, caller, stale, crossed>>
  PROVE  AwaitInv' /\ PairInv' /\ WokenInv' /\ (sem' = sem => SemInv')
<1>1. (Good' <=> Good) /\ \A i, k : Quiet(i, k)' <=> Quiet(i, k)
  BY DEF Good, Quiet
<1>2. AwaitInv'
  <2> SUFFICES ASSUME NEW p \in 1 .. LineLen', Quiet(Item(p).slot, Item(p).kind)'
               PROVE  \E c \in Caller : /\ Awaits(c, Item(p).slot, Item(p).kind)'
                                        /\ caller'[c].req.call = Item(p)'.call
    BY DEF AwaitInv
  <2>1. PICK a \in 1 .. LineLen : Alike(Item(p)', Item(a))
    BY DEF FromLine
  <2>2. Quiet(Item(a).slot, Item(a).kind)
    BY <1>1, <2>1 DEF Alike, Quiet, Good
  <2>3. PICK c \in Caller : /\ Awaits(c, Item(a).slot, Item(a).kind)
                            /\ caller[c].req.call = Item(a).call
    BY <2>2 DEF NInv, LineInv, AwaitInv
  <2> QED BY <2>1, <2>3 DEF Alike, Awaits
<1>3. PairInv'
  <2> SUFFICES ASSUME NEW p \in 1 .. LineLen', NEW q \in 1 .. LineLen', p < q,
                      Clash(Item(p), Item(q))'
               PROVE  FALSE
    BY DEF PairInv
  <2>1. PICK a \in 1 .. LineLen, b \in 1 .. LineLen :
          a < b /\ Alike(Item(p)', Item(a)) /\ Alike(Item(q)', Item(b))
    BY DEF FromLine
  <2>2. Clash(Item(a), Item(b))
    BY <2>1 DEF Clash, Alike, Quiet, Good
  <2> QED BY <2>1, <2>2 DEF NInv, LineInv, PairInv
<1>4. \A p \in 1 .. LineLen' : \E a \in 1 .. LineLen :
         Item(p)'.slot = Item(a).slot /\ Item(p)'.kind = Item(a).kind
  BY DEF FromLine, Alike
<1>5. ASSUME sem' = sem PROVE SemInv'
  <2> SUFFICES ASSUME NEW i \in Slot, NEW k \in Kind, Quiet(i, k)', sem'[i][k] > 0
               PROVE  /\ sem'[i][k] = 1
                      /\ \E c \in Caller : Awaits(c, i, k)' /\ caller'[c].req.call = result'[i][k]
                      /\ \A p \in 1 .. LineLen' : Item(p)'.slot = i =>
                           Item(p)'.kind # k /\ (k = "close" => Item(p)'.kind \in Opening)
    BY DEF SemInv
  <2>1. /\ sem[i][k] = 1
        /\ \E c \in Caller : Awaits(c, i, k) /\ caller[c].req.call = result[i][k]
        /\ \A p \in 1 .. LineLen : Item(p).slot = i =>
             Item(p).kind # k /\ (k = "close" => Item(p).kind \in Opening)
    BY <1>1, <1>5 DEF NInv, LineInv, SemInv
  <2> QED BY <1>4, <1>5, <2>1 DEF Awaits
<1>6. WokenInv'
  <2> SUFFICES ASSUME NEW c \in Caller, Woken(c)'
               PROVE  /\ Quiet(caller[c].req.slot, caller[c].req.kind)' =>
                           result'[caller'[c].req.slot][caller'[c].req.kind] = caller'[c].req.call
                      /\ Good' /\ caller'[c].req.kind = "close" =>
                           \A p \in 1 .. LineLen' :
                             Item(p)'.slot = caller'[c].req.slot => Item(p)'.kind \in Opening
    BY DEF WokenInv
  <2>1. Woken(c)
    BY DEF Woken
  <2>2. Quiet(caller[c].req.slot, caller[c].req.kind)' => Quiet(caller[c].req.slot, caller[c].req.kind)
    BY DEF Quiet, Good
  <2> QED BY <1>1, <1>4, <2>1, <2>2 DEF NInv, LineInv, WokenInv
<1> QED BY <1>2, <1>3, <1>5, <1>6

LEMMA LineGood ==
  ASSUME NInv, Good, FromLine(1), UNCHANGED <<slot, sem, caller, held>>,
         \A r : Stored(r)' <=> Stored(r)
  PROVE  DoneInv' /\ OpenerInv' /\ ToSlotInv'
<1>1. DoneInv /\ OpenerInv /\ ToSlotInv
  BY DEF NInv, GoodInv
<1>2. DoneInv'
  BY <1>1 DEF DoneInv
<1>3. OpenerInv'
  <2>1. handler'.pc = "post" => Stored(handler'.answer)
    BY DEF Stored
  <2> QED BY <1>1, <2>1 DEF OpenerInv, Opener, Busy, Stored
<1>4. ASSUME NEW p \in 1 .. LineLen' PROVE ToSlot(Item(p))'
  <2>1. PICK a \in 1 .. LineLen : Alike(Item(p)', Item(a))
    BY DEF FromLine
  <2>2. ToSlot(Item(a))
    BY <1>1 DEF ToSlotInv
  <2>3. Stored(Item(a)) => Stored(Item(p))'
    BY <2>1 DEF Stored, Alike
  <2> QED BY <2>1, <2>2, <2>3 DEF ToSlot, Alike
<1>5. ASSUME NEW c \in Caller, User(c)', caller'[c].pc = "send" PROVE ToSlot(caller[c].req)'
  BY <1>1, <1>5 DEF ToSlotInv, ToSlot, User, Busy
<1> QED BY <1>2, <1>3, <1>4, <1>5 DEF ToSlotInv

LEMMA LineStep ==
  ASSUME NInv, FromLine(1), UNCHANGED <<slot, sem, result, session, caller, held, stale, crossed>>,
         \A p \in 1 .. Len(requests') : \E q \in 1 .. Len(requests) : requests'[p] = requests[q],
         HandInv',
         handler'.pc # "rest" /\ handler'.answer.kind \in Opening => Named(handler.answer)',
         \A r : Stored(r)' <=> Stored(r)
  PROVE  LineInv' /\ (Good' => DoneInv' /\ OpenerInv' /\ ToSlotInv')
<1>1. AwaitInv' /\ PairInv' /\ SemInv' /\ WokenInv'
  BY LineKept
<1>2. NamedInv'
  <2>1. \A p \in 1 .. LineLen' :
          Item(p)'.call > 0 /\ (Item(p)'.kind \in Opening => Named(Item(p))')
    BY LineNamed
  <2>2. \A p \in 1 .. Len(requests') : requests'[p].kind \in Opening => requests'[p].fd = NoFd
    BY DEF NInv, LineInv, NamedInv
  <2>3. \A c \in Caller : Opener(c)' => caller'[c].req.fd = NoFd
    BY DEF NInv, LineInv, NamedInv, Opener, Busy
  <2> QED BY <2>1, <2>2, <2>3 DEF NamedInv
<1>3. OpeningInv'
  BY DEF NInv, LineInv, OpeningInv, Opener, Busy
<1>4. Good' => Good
  BY DEF Good
<1>5. Good' => DoneInv' /\ OpenerInv' /\ ToSlotInv'
  BY <1>4, LineGood
<1> QED BY <1>1, <1>2, <1>3, <1>5 DEF LineInv

\* The requests that the server has not answered are the end of the line.
LEMMA RequestItem ==
  ASSUME Types, reply = NoRequest
  PROVE  \E b \in Nat : /\ LineLen = b + Len(requests)
                        /\ \A p \in 1 .. Len(requests) : Item(b + p) = requests[p]
<1>1. PICK h \in {0, 1}, n \in Nat, m \in Nat :
        h = HandLen /\ n = Len(answers) /\ m = Len(requests)
  BY Lens
<1>2. PendLen = 0
  BY DEF PendLen
<1>3. LineLen = (h + n) + m
  BY <1>1, <1>2 DEF LineLen
<1>4. \A p \in 1 .. m : Item((h + n) + p) = requests[p]
  BY <1>1, <1>2 DEF Item
<1> QED BY <1>1, <1>3, <1>4

\* Steps that leave the descriptors alone.
LEMMA SameOpen ==
  ASSUME NInv, Good, FromLine(1), UNCHANGED <<slot, caller, open>>,
         \A p \in 1 .. Len(requests') : \E q \in 1 .. Len(requests) : requests'[p] = requests[q],
         \A r : Stored(r)' <=> Stored(r)
  PROVE  OpenInv'
<1>0. OpenInv
  BY DEF NInv, GoodInv
<1>1. \A i \in Slot : slot'[i].status = "done" /\ slot'[i].fd # NoFd /\ NotClosing(i)'
                       => open'[slot'[i].fd] = slot'[i].session
  BY <1>0 DEF OpenInv, NotClosing, Busy
<1>2. \A p \in 1 .. Len(requests') : requests'[p].kind \notin Opening =>
       open'[requests'[p].fd] = requests'[p].session
  BY <1>0 DEF OpenInv
<1>3. ASSUME NEW p \in 1 .. LineLen', Item(p)'.kind \in Opening, Item(p)'.fd # NoFd
      PROVE  Stored(Item(p))' \/ open'[Item(p)'.fd] = Item(p)'.session
  <2>1. PICK a \in 1 .. LineLen : Alike(Item(p)', Item(a))
    BY DEF FromLine
  <2>2. Item(a).kind \in Opening /\ Item(a).fd # NoFd => Stored(Item(a)) \/ open[Item(a).fd] = Item(a).session
    BY <1>0 DEF OpenInv
  <2>3. Stored(Item(a)) => Stored(Item(p))'
    BY <2>1 DEF Stored, Alike
  <2> QED BY <1>3, <2>1, <2>2, <2>3 DEF Alike
<1> QED BY <1>1, <1>2, <1>3 DEF OpenInv

\* The first request, and what stands behind it.
LEMMA ServedItem ==
  ASSUME NInv, NEW fd, Served(fd)
  PROVE  /\ requests[1].call > 0 /\ requests[1] \in Request
         /\ requests[1].kind \in Opening => Named(requests[1]) /\ requests[1].fd = NoFd
         /\ Good => ToSlot(requests[1])
         /\ Quiet(requests[1].slot, requests[1].kind) =>
              \E c \in Caller : Awaits(c, requests[1].slot, requests[1].kind)
         /\ \A p \in 1 .. Len(requests') :
              /\ p + 1 \in 1 .. Len(requests) /\ requests'[p] = requests[p + 1]
              /\ requests'[p] \in Request /\ ~Clash(requests[1], requests'[p])
              /\ Good => ToSlot(requests'[p])
         /\ UNCHANGED <<slot, sem, result, session, caller, handler, answers, held, calls, stale, crossed>>
<1>0. Types /\ requests \in Seq(Request)
  BY DEF NInv, OInv, TInv, Types
<1>1. /\ reply = NoRequest /\ Len(requests) > 0
      /\ Len(requests') = Len(requests) - 1 /\ Len(requests) \in Nat
      /\ \A p \in 1 .. Len(requests) - 1 : requests'[p] = requests[p + 1]
      /\ UNCHANGED <<slot, sem, result, session, caller, handler, answers, held, calls, stale, crossed>>
  BY DEF Served
<1>2. PICK b \in Nat : /\ LineLen = b + Len(requests)
                       /\ \A p \in 1 .. Len(requests) : Item(b + p) = requests[p]
  BY <1>0, <1>1, RequestItem
<1>3. b + 1 \in 1 .. LineLen /\ Item(b + 1) = requests[1] /\ 1 \in 1 .. Len(requests)
  BY <1>1, <1>2
<1>4. requests[1].call > 0 /\ (requests[1].kind \in Opening => Named(requests[1]) /\ requests[1].fd = NoFd)
  BY <1>3 DEF NInv, LineInv, NamedInv
<1>5. Good => ToSlot(requests[1])
  BY <1>3 DEF NInv, GoodInv, ToSlotInv
<1>6. Quiet(requests[1].slot, requests[1].kind) =>
        \E c \in Caller : Awaits(c, requests[1].slot, requests[1].kind)
  BY <1>3 DEF NInv, LineInv, AwaitInv
<1>7. requests[1] \in Request
  BY <1>0, <1>3, ElementOfSeq
<1>8. ASSUME NEW p \in 1 .. Len(requests')
      PROVE  /\ p + 1 \in 1 .. Len(requests) /\ requests'[p] = requests[p + 1]
             /\ requests'[p] \in Request /\ ~Clash(requests[1], requests'[p])
             /\ Good => ToSlot(requests'[p])
  <2>1. p \in 1 .. Len(requests) - 1 /\ p + 1 \in 1 .. Len(requests)
    BY <1>1
  <2>2. requests'[p] = requests[p + 1]
    BY <1>1, <2>1
  <2>3. b + (p + 1) \in 1 .. LineLen /\ b + 1 < b + (p + 1) /\ Item(b + (p + 1)) = requests[p + 1]
    BY <1>2, <2>1
  <2>4. requests[p + 1] \in Request
    BY <1>0, <2>1, ElementOfSeq
  <2>5. ~Clash(requests[1], requests[p + 1])
    BY <1>3, <2>3 DEF NInv, LineInv, PairInv
  <2>6. Good => ToSlot(requests[p + 1])
    BY <2>3 DEF NInv, GoodInv, ToSlotInv
  <2> QED BY <2>1, <2>2, <2>4, <2>5, <2>6
<1> QED BY <1>1, <1>4, <1>5, <1>6, <1>7, <1>8

\* What the server's steps have in common.
LEMMA ServedInv ==
  ASSUME NInv, NEW fd, Served(fd),
         \/ fd = requests[1].fd
         \/ requests[1].kind \in Opening /\ fd \in Fd /\ open'[fd] = requests[1].session
  PROVE  /\ FromLine(1)
         /\ LineInv' /\ (Good' => DoneInv' /\ OpenerInv' /\ ToSlotInv')
         /\ (\A r : Stored(r)' <=> Stored(r)) /\ (Good' <=> Good)
<1>0. Types
  BY DEF NInv, OInv, TInv
<1>1. /\ requests[1].call > 0
      /\ \A p \in 1 .. Len(requests') : p + 1 \in 1 .. Len(requests) /\ requests'[p] = requests[p + 1]
      /\ UNCHANGED <<slot, sem, result, session, caller, handler, answers, held, calls, stale, crossed>>
  BY ServedItem
<1>2. FromLine(1)
  BY <1>0, <1>1, ServedLine
<1>3. \A r : Stored(r)' <=> Stored(r)
  BY <1>1 DEF Stored
<1>4. HandInv'
  BY <1>1 DEF NInv, LineInv, HandInv, Good, Quiet
<1>5. handler'.pc # "rest" /\ handler'.answer.kind \in Opening => Named(handler.answer)'
  BY <1>1 DEF NInv, LineInv, NamedInv, Named
<1>6. \A p \in 1 .. Len(requests') : \E q \in 1 .. Len(requests) : requests'[p] = requests[q]
  BY <1>1
<1>7. LineInv' /\ (Good' => DoneInv' /\ OpenerInv' /\ ToSlotInv')
  BY <1>1, <1>2, <1>3, <1>4, <1>5, <1>6, LineStep
<1>8. Good' <=> Good
  BY <1>1 DEF Good
<1> QED BY <1>2, <1>3, <1>7, <1>8

LEMMA ServeOpenNInv ==
  ASSUME NInv, ServeOpen
  PROVE  LineInv' /\ GoodInv'
<1>0. TInv
  BY DEF NInv, OInv
<1>1. PICK f \in Fd : /\ Served(f) /\ open[f] = 0 /\ open'[f] = requests[1].session
                      /\ \A g \in Fd : g # f => open'[g] = open[g]
  BY <1>0, ServeOpenStep
<1>2. requests[1].kind \in Opening
  BY <1>0, ServeOpenStep
<1>3. /\ FromLine(1)
      /\ LineInv' /\ (Good' => DoneInv' /\ OpenerInv' /\ ToSlotInv')
      /\ (\A r : Stored(r)' <=> Stored(r)) /\ (Good' <=> Good)
  BY <1>1, <1>2, ServedInv
<1>4. /\ UNCHANGED <<slot, caller>>
      /\ \A p \in 1 .. Len(requests') :
           /\ p + 1 \in 1 .. Len(requests) /\ requests'[p] = requests[p + 1]
           /\ requests'[p] \in Request
           /\ Good => ToSlot(requests'[p])
  BY <1>1, ServedItem
<1>5. SUFFICES ASSUME Good PROVE OpenInv'
  BY <1>3 DEF GoodInv
<1>6. DoneInv /\ OpenInv /\ slot \in [Slot -> SlotRec] /\ session \in Nat
  BY <1>0, <1>5 DEF NInv, GoodInv, TInv, Types
<1>7. \A i \in Slot : slot'[i].status = "done" /\ slot'[i].fd # NoFd /\ NotClosing(i)'
                       => open'[slot'[i].fd] = slot'[i].session
  <2> SUFFICES ASSUME NEW i \in Slot, slot[i].status = "done", slot[i].fd # NoFd, NotClosing(i)
               PROVE  open'[slot[i].fd] = slot[i].session
    BY <1>4 DEF NotClosing, Busy
  <2>1. open[slot[i].fd] = slot[i].session /\ slot[i].session > 0 /\ slot[i].fd \in Fd
    BY <1>6, SlotFields DEF OpenInv, DoneInv
  <2> QED BY <1>1, <2>1
<1>8. \A p \in 1 .. Len(requests') : requests'[p].kind \notin Opening =>
       open'[requests'[p].fd] = requests'[p].session
  <2> SUFFICES ASSUME NEW p \in 1 .. Len(requests'), requests'[p].kind \notin Opening
               PROVE  open'[requests'[p].fd] = requests'[p].session
    OBVIOUS
  <2>1. open[requests'[p].fd] = requests'[p].session
    BY <1>4, <1>6 DEF OpenInv
  <2>2. requests'[p].fd \in Fd /\ requests'[p].session > 0
    BY <1>4, <1>5, <1>6, RequestFields DEF ToSlot, DoneInv
  <2> QED BY <1>1, <2>1, <2>2
<1>9. ASSUME NEW p \in 1 .. LineLen', Item(p)'.kind \in Opening, Item(p)'.fd # NoFd
      PROVE  Stored(Item(p))' \/ open'[Item(p)'.fd] = Item(p)'.session
  <2>1. PICK a \in 1 .. LineLen : Alike(Item(p)', Item(a))
    BY <1>3 DEF FromLine
  <2>2. SUFFICES ASSUME Item(p)'.fd = Item(a).fd, ~Stored(Item(a))
                 PROVE  open'[Item(p)'.fd] = Item(p)'.session
    BY <1>3, <2>1 DEF Stored, Alike
  <2>3. open[Item(a).fd] = Item(a).session
    BY <1>6, <1>9, <2>1, <2>2 DEF OpenInv, Alike
  <2>4. Item(a).fd \in Fd
    BY <1>0, <1>9, <2>2, ItemType, RequestFields DEF TInv
  <2>5. Item(a).session \in 1 .. session
    BY <1>9, <2>1 DEF NInv, LineInv, NamedInv, Named, Alike
  <2> QED BY <1>1, <1>6, <2>1, <2>2, <2>3, <2>4, <2>5 DEF Alike
<1> QED BY <1>7, <1>8, <1>9 DEF OpenInv

LEMMA ServeCloseNInv ==
  ASSUME NInv, ServeClose
  PROVE  LineInv' /\ GoodInv'
<1> DEFINE r == requests[1]
<1>0. Types
  BY DEF NInv, OInv, TInv
<1>1. /\ r.kind = "close" /\ Served(r.fd)
      /\ \A f \in Fd : open'[f] = IF f = r.fd THEN 0 ELSE open[f]
  BY <1>0, ServeCloseStep
<1>2. /\ FromLine(1)
      /\ LineInv' /\ (Good' => DoneInv' /\ OpenerInv' /\ ToSlotInv')
      /\ (\A s : Stored(s)' <=> Stored(s)) /\ (Good' <=> Good)
  BY <1>1, ServedInv
<1>3. /\ UNCHANGED <<slot, caller>> /\ r \in Request
      /\ Good => ToSlot(r)
      /\ Quiet(r.slot, r.kind) => \E c \in Caller : Awaits(c, r.slot, r.kind)
      /\ \A p \in 1 .. Len(requests') :
           /\ p + 1 \in 1 .. Len(requests) /\ requests'[p] = requests[p + 1]
           /\ requests'[p] \in Request /\ ~Clash(r, requests'[p])
           /\ Good => ToSlot(requests'[p])
  BY <1>1, ServedItem
<1> HIDE DEF r
<1>4. SUFFICES ASSUME Good PROVE OpenInv'
  BY <1>2 DEF GoodInv
<1>5. DoneInv /\ OpenInv /\ ToSlotInv /\ slot \in [Slot -> SlotRec] /\ session \in Nat
  BY <1>0, <1>4 DEF NInv, GoodInv, Types
<1>6. r.slot \in Slot /\ slot[r.slot].status = "done" /\ slot[r.slot].fd = r.fd
      /\ slot[r.slot].session = r.session
  BY <1>1, <1>3, <1>4, Kinds, RequestFields DEF ToSlot
<1>7. \A i \in Slot : slot'[i].status = "done" /\ slot'[i].fd # NoFd /\ NotClosing(i)'
                       => open'[slot'[i].fd] = slot'[i].session
  <2> SUFFICES ASSUME NEW i \in Slot, slot[i].status = "done", slot[i].fd # NoFd, NotClosing(i)
               PROVE  open'[slot[i].fd] = slot[i].session
    BY <1>3 DEF NotClosing, Busy
  <2>1. open[slot[i].fd] = slot[i].session /\ slot[i].fd \in Fd
    BY <1>5, SlotFields DEF OpenInv
  <2>2. slot[i].fd # r.fd
    <3> SUFFICES ASSUME slot[i].fd = r.fd PROVE FALSE
      OBVIOUS
    <3>1. i = r.slot
      BY <1>5, <1>6 DEF DoneInv
    <3>2. Quiet(r.slot, r.kind)
      <4>1. <<r.slot, "close">> \notin stale
        BY <1>4, Kinds DEF Good
      <4> QED BY <1>1, <1>4, <4>1 DEF Quiet
    <3>3. PICK c \in Caller : Awaits(c, r.slot, r.kind)
      BY <1>3, <3>2
    <3> QED BY <1>1, <3>1, <3>3 DEF Awaits, NotClosing, Busy
  <2> QED BY <1>1, <2>1, <2>2
<1>8. \A p \in 1 .. Len(requests') : requests'[p].kind \notin Opening =>
       open'[requests'[p].fd] = requests'[p].session
  <2> SUFFICES ASSUME NEW p \in 1 .. Len(requests'), requests'[p].kind \notin Opening
               PROVE  open'[requests'[p].fd] = requests'[p].session
    OBVIOUS
  <2> DEFINE s == requests'[p]
  <2>1. /\ s.slot \in Slot /\ slot[s.slot].status = "done" /\ slot[s.slot].fd = s.fd
        /\ s.fd \in Fd /\ ~Clash(r, s)
    BY <1>3, <1>4, RequestFields DEF ToSlot
  <2>2. open[s.fd] = s.session
    BY <1>3, <1>5 DEF OpenInv
  <2>3. s.slot # r.slot
    BY <1>1, <1>4, <2>1 DEF Clash
  <2>4. s.fd # r.fd
    BY <1>5, <1>6, <2>1, <2>3 DEF DoneInv
  <2> QED BY <1>1, <2>1, <2>2, <2>4
<1>9. ASSUME NEW p \in 1 .. LineLen', Item(p)'.kind \in Opening, Item(p)'.fd # NoFd
      PROVE  Stored(Item(p))' \/ open'[Item(p)'.fd] = Item(p)'.session
  <2>1. PICK a \in 1 .. LineLen : Alike(Item(p)', Item(a))
    BY <1>2 DEF FromLine
  <2>2. SUFFICES ASSUME Item(p)'.fd = Item(a).fd, ~Stored(Item(a))
                 PROVE  open'[Item(p)'.fd] = Item(p)'.session
    BY <1>2, <2>1 DEF Stored, Alike
  <2>3. open[Item(a).fd] = Item(a).session
    BY <1>5, <1>9, <2>1, <2>2 DEF OpenInv, Alike
  <2>4. Item(a).fd \in Fd
    BY <1>0, <1>9, <2>2, ItemType, RequestFields
  <2>5. Named(Item(a)) /\ ToSlot(Item(a)) /\ Item(a).kind \in Opening
    BY <1>5, <1>9, <2>1 DEF NInv, LineInv, NamedInv, ToSlotInv, Alike
  <2>6. Item(a).fd # r.fd
    <3> SUFFICES ASSUME Item(a).fd = r.fd PROVE FALSE
      OBVIOUS
    <3>1. open[r.fd] = r.session
      <4>1. r.fd # NoFd
        BY <1>9, <2>2
      <4>2. r = requests[1] /\ 1 \in 1 .. Len(requests)
        BY <1>1 DEF Served, r
      <4> QED BY <1>1, <1>5, <4>2, Kinds DEF OpenInv
    <3>2. Item(a).slot = r.slot
      BY <1>6, <2>3, <2>5, <3>1 DEF Named
    <3> QED BY <1>6, <2>2, <2>5, <3>2 DEF ToSlot
  <2> QED BY <1>1, <2>1, <2>2, <2>3, <2>4, <2>6 DEF Alike
<1> QED BY <1>7, <1>8, <1>9 DEF OpenInv

\* Nothing becomes of the descriptors.
LEMMA ServeOtherNInv ==
  ASSUME NInv, ServeRefused \/ ServeOp
  PROVE  LineInv' /\ GoodInv'
<1>0. Types
  BY DEF NInv, OInv, TInv
<1>1. PICK fd : Served(fd) /\ fd = requests[1].fd /\ UNCHANGED open
  <2>1. CASE ServeOp
    BY <1>0, <2>1, ServeOpStep
  <2>2. CASE ServeRefused
    <3>1. requests[1].kind \in Opening /\ Served(NoFd) /\ UNCHANGED open
      BY <1>0, <2>2, ServeRefusedStep
    <3>2. requests[1].fd = NoFd
      BY <3>1, ServedItem
    <3> QED BY <3>1, <3>2
  <2> QED BY <2>1, <2>2
<1>2. /\ FromLine(1)
      /\ LineInv' /\ (Good' => DoneInv' /\ OpenerInv' /\ ToSlotInv')
      /\ (\A r : Stored(r)' <=> Stored(r)) /\ (Good' <=> Good)
  BY <1>1, ServedInv
<1>3. /\ UNCHANGED <<slot, caller>>
      /\ \A p \in 1 .. Len(requests') : \E q \in 1 .. Len(requests) : requests'[p] = requests[q]
  BY <1>1, ServedItem
<1>4. Good => OpenInv'
  BY <1>1, <1>2, <1>3, SameOpen
<1> QED BY <1>2, <1>4 DEF GoodInv

LEMMA AnswerNInv ==
  ASSUME NInv, Answer \/ AnswerLost
  PROVE  LineInv' /\ GoodInv'
<1>0. Types
  BY DEF NInv, OInv, TInv
<1>1. UNCHANGED <<slot, sem, result, session, caller, handler, requests, open, held, stale, crossed>>
  BY <1>0, AnswerStep, AnswerLostStep
<1>2. FromLine(1)
  BY <1>0, AnswerLine, AnswerLostLine
<1>3. (\A r : Stored(r)' <=> Stored(r)) /\ (Good' <=> Good)
  BY <1>1 DEF Stored, Good
<1>4. HandInv'
  BY <1>1 DEF NInv, LineInv, HandInv, Good, Quiet
<1>5. handler'.pc # "rest" /\ handler'.answer.kind \in Opening => Named(handler.answer)'
  BY <1>1 DEF NInv, LineInv, NamedInv, Named
<1>6. \A p \in 1 .. Len(requests') : \E q \in 1 .. Len(requests) : requests'[p] = requests[q]
  BY <1>1
<1>7. LineInv' /\ (Good' => DoneInv' /\ OpenerInv' /\ ToSlotInv')
  BY <1>1, <1>2, <1>3, <1>4, <1>5, <1>6, LineStep
<1>8. Good => OpenInv'
  BY <1>1, <1>2, <1>3, <1>6, SameOpen
<1> QED BY <1>3, <1>7, <1>8 DEF GoodInv

LEMMA ReceiveNInv ==
  ASSUME NInv, Receive
  PROVE  LineInv' /\ GoodInv'
<1>0. Types
  BY DEF NInv, OInv, TInv
<1>1. /\ handler.pc = "rest" /\ handler'.pc = "look" /\ handler'.at = 0
      /\ Len(answers) > 0 /\ handler'.answer = answers[1] /\ answers[1] \in Request
      /\ UNCHANGED <<slot, sem, result, session, caller, requests, open, held, stale, crossed>>
  BY <1>0, ReceiveStep
<1>2. FromLine(1)
  BY <1>0, ReceiveLine
<1>3. (\A r : Stored(r)' <=> Stored(r)) /\ (Good' <=> Good)
  BY <1>1 DEF Stored, Good
<1>4. 1 \in 1 .. LineLen /\ Item(1) = answers[1]
  <2>1. HandLen = 0
    BY <1>1 DEF HandLen
  <2>2. PICK d \in {0, 1}, n \in Nat, m \in Nat :
          d = PendLen /\ n = Len(answers) /\ m = Len(requests)
    BY <1>0, Lens
  <2> QED BY <1>1, <2>1, <2>2 DEF LineLen, Item
<1>5. HandInv'
  <2> SUFFICES ASSUME Good, answers[1].kind \notin Opening,
                      NEW j \in Slot, slot[j].status = "done", slot[j].fd = answers[1].fd
               PROVE  j = answers[1].slot
    BY <1>1, <1>3 DEF HandInv
  <2>1. ToSlot(answers[1]) /\ DoneInv
    BY <1>4 DEF NInv, GoodInv, ToSlotInv
  <2>2. answers[1].slot \in Slot
    BY <1>1, RequestFields
  <2> QED BY <2>1, <2>2 DEF ToSlot, DoneInv
<1>6. handler'.pc # "rest" /\ handler'.answer.kind \in Opening => Named(handler.answer)'
  BY <1>1, <1>4 DEF NInv, LineInv, NamedInv, Named
<1>7. \A p \in 1 .. Len(requests') : \E q \in 1 .. Len(requests) : requests'[p] = requests[q]
  BY <1>1
<1>8. LineInv' /\ (Good' => DoneInv' /\ OpenerInv' /\ ToSlotInv')
  BY <1>1, <1>2, <1>3, <1>5, <1>6, <1>7, LineStep
<1>9. Good => OpenInv'
  BY <1>1, <1>2, <1>3, <1>7, SameOpen
<1> QED BY <1>3, <1>8, <1>9 DEF GoodInv

LEMMA LookNInv ==
  ASSUME NInv, Look
  PROVE  LineInv' /\ GoodInv'
<1> DEFINE i == handler.at
          r == handler.answer
<1>0. Types
  BY DEF NInv, OInv, TInv
<1>1. /\ handler.pc = "look"
      /\ UNCHANGED <<slot, sem, result, session, caller, requests, answers, open, reply, held,
                     stale, crossed>>
  BY <1>0, LookStep
<1>2. r \in Request /\ r.slot \in Slot /\ r.slot \in Nat /\ i \in Nat
      /\ FD_SIZE_MAX \in Nat /\ r.slot <= FD_SIZE_MAX - 1
  BY <1>0, HandlerFields, RequestFields, SlotIs DEF Types, Slot
<1>3. \/ i = FD_SIZE_MAX /\ handler' = Rest
      \/ i \in Slot /\ Fits(i, r) /\ handler'.pc = "store" /\ handler'.at = i /\ handler'.answer = r
      \/ i \in Slot /\ ~Fits(i, r) /\ handler'.pc = "look" /\ handler'.at = i + 1 /\ handler'.answer = r
  BY <1>0, LookStep
<1>4. /\ r.kind \in Opening => Named(r)
      /\ Good /\ r.kind \notin Opening =>
           \A j \in Slot : slot[j].status = "done" /\ slot[j].fd = r.fd => j = r.slot
  BY <1>1 DEF NInv, LineInv, NamedInv, HandInv
<1>5. FromLine(1)
  <2>1. CASE i = FD_SIZE_MAX /\ handler' = Rest
    <3>1. HandLen = 0 /\ HandLen' = 0
      BY <1>2, <2>1, RestType DEF HandLen
    <3> QED BY <1>0, <1>1, <3>1, HandSame
  <2>2. CASE i \in Slot /\ handler'.pc = "store" /\ handler'.at = i /\ handler'.answer = r
    <3>1. HandLen' = HandLen
      BY <1>1, <2>2 DEF HandLen
    <3> QED BY <1>0, <1>1, <2>2, <3>1, HandSame
  <2>3. CASE handler'.pc = "look" /\ handler'.at = i + 1 /\ handler'.answer = r
    <3>1. CASE i = r.slot
      <4>1. HandLen = 1 /\ HandLen' = 0
        BY <1>1, <1>2, <2>3, <3>1 DEF HandLen
      <4> QED BY <1>0, <1>1, <4>1, HandLine, FromTwoFromOne
    <3>2. CASE i # r.slot
      <4>1. HandLen' = HandLen
        BY <1>1, <1>2, <2>3, <3>2 DEF HandLen
      <4> QED BY <1>0, <1>1, <2>3, <4>1, HandSame
    <3> QED BY <3>1, <3>2
  <2> QED BY <1>3, <2>1, <2>2, <2>3
<1>6. handler'.pc # "rest" => handler'.answer = r
  BY <1>3, RestType
<1>7. handler'.pc # "post" /\ handler.pc # "post"
  BY <1>1, <1>3, RestType
<1>8. (\A s : Stored(s)' <=> Stored(s)) /\ (Good' <=> Good)
  BY <1>1, <1>7 DEF Stored, Good
<1>9. HandInv'
  <2>1. ASSUME handler'.pc = "store", r.kind \in Opening \/ Good PROVE handler'.at = r.slot
    <3>1. i \in Slot /\ Fits(i, r) /\ handler'.at = i
      BY <1>3, <2>1, RestType
    <3> QED BY <1>4, <2>1, <3>1 DEF Fits, Named
  <2> QED BY <1>1, <1>4, <1>6, <1>7, <1>8, <2>1 DEF HandInv
<1>10. handler'.pc # "rest" /\ handler'.answer.kind \in Opening => Named(handler.answer)'
  BY <1>1, <1>4, <1>6 DEF Named
<1>11. \A p \in 1 .. Len(requests') : \E q \in 1 .. Len(requests) : requests'[p] = requests[q]
  BY <1>1
<1> HIDE DEF i, r
<1>12. LineInv' /\ (Good' => DoneInv' /\ OpenerInv' /\ ToSlotInv')
  BY <1>1, <1>5, <1>8, <1>9, <1>10, <1>11, LineStep
<1>13. Good => OpenInv'
  BY <1>1, <1>5, <1>8, <1>11, SameOpen
<1> QED BY <1>8, <1>12, <1>13 DEF GoodInv

-----------------------------------------------------------------------------
(* Steps of the callers that leave the line alone.                         *)

LEMMA SameLine ==
  ASSUME NInv, UNCHANGED <<handler, requests, answers, reply>>
  PROVE  LineLen' = LineLen /\ (\A p : Item(p)' = Item(p)) /\ (\A r : Stored(r)' <=> Stored(r))
<1>1. Types
  BY DEF NInv, OInv, TInv
<1>2. \A r : Stored(r)' <=> Stored(r)
  BY DEF Stored
<1> QED BY <1>1, <1>2, LineUnchanged

LEMMA CallerLine ==
  ASSUME NInv, NEW c \in Caller,
         UNCHANGED <<result, handler, requests, answers, reply>>,
         \A d \in Caller : d # c => caller'[d] = caller[d],
         stale \subseteq stale', crossed => crossed', crossed' \in BOOLEAN,
         \A r : Named(r) => Named(r)',
         \A j \in Slot : slot'[j].status = "done" => slot'[j] = slot[j],
         \A i \in Slot, k \in Kind : sem'[i][k] > 0 => sem'[i][k] = sem[i][k] \/ ~Quiet(i, k)',
         \A i \in Slot, k \in Kind : Awaits(c, i, k) =>
           \/ Awaits(c, i, k)' /\ caller'[c].req = caller[c].req
           \/ ~Quiet(i, k)'
           \/ ~(sem'[i][k] > 0) /\ \A p \in 1 .. LineLen : Item(p).slot = i => Item(p).kind # k,
         Opener(c)' => caller'[c].req.fd = NoFd,
         Woken(c)' =>
           /\ Quiet(caller[c].req.slot, caller[c].req.kind)' =>
                result[caller'[c].req.slot][caller'[c].req.kind] = caller'[c].req.call
           /\ Good' /\ caller'[c].req.kind = "close" =>
                \A p \in 1 .. LineLen : Item(p).slot = caller'[c].req.slot => Item(p).kind \in Opening,
         OpeningInv'
  PROVE  LineInv'
<1>0. Types /\ handler.answer \in Request
  BY HandlerFields DEF NInv, OInv, TInv, Types
<1>1. LineLen' = LineLen /\ \A p : Item(p)' = Item(p)
  BY SameLine
<1>2. (Good' => Good) /\ \A i, k : Quiet(i, k)' => Quiet(i, k)
  <2>1. Good' => Good
    BY DEF Good
  <2> QED BY <2>1 DEF Quiet
<1>3. \A p \in 1 .. LineLen : Item(p) \in Request /\ Item(p).slot \in Slot /\ Item(p).kind \in Kind
  BY <1>0, ItemType, RequestFields
<1>4. NamedInv'
  <2>1. \A p \in 1 .. LineLen' :
          Item(p)'.call > 0 /\ (Item(p)'.kind \in Opening => Named(Item(p))')
    <3> SUFFICES ASSUME NEW p \in 1 .. LineLen'
                 PROVE  Item(p)'.call > 0 /\ (Item(p)'.kind \in Opening => Named(Item(p))')
      OBVIOUS
    <3>1. PICK r : r = Item(p)
      OBVIOUS
    <3>2. r.call > 0 /\ (r.kind \in Opening => Named(r))
      BY <1>1, <3>1 DEF NInv, LineInv, NamedInv
    <3>3. Item(p)' = r
      BY <1>1, <3>1
    <3>4. r.kind \in Opening => Named(r)'
      BY <3>2
    <3> QED BY <3>2, <3>3, <3>4 DEF Named
  <2>2. handler'.pc # "rest" /\ handler'.answer.kind \in Opening => Named(handler.answer)'
    <3>1. PICK r : r = handler.answer
      OBVIOUS
    <3>2. handler.pc # "rest" /\ r.kind \in Opening => Named(r)
      BY <3>1 DEF NInv, LineInv, NamedInv
    <3> QED BY <3>1, <3>2 DEF Named
  <2>3. \A p \in 1 .. Len(requests') : requests'[p].kind \in Opening => requests'[p].fd = NoFd
    BY DEF NInv, LineInv, NamedInv
  <2>4. \A d \in Caller : Opener(d)' => caller'[d].req.fd = NoFd
    BY DEF NInv, LineInv, NamedInv, Opener, Busy
  <2> QED BY <2>1, <2>2, <2>3, <2>4 DEF NamedInv
<1>5. AwaitInv'
  <2> SUFFICES ASSUME NEW p \in 1 .. LineLen, Quiet(Item(p).slot, Item(p).kind)'
               PROVE  \E d \in Caller : /\ Awaits(d, Item(p).slot, Item(p).kind)'
                                        /\ caller'[d].req.call = Item(p)'.call
    BY <1>1 DEF AwaitInv
  <2>1. PICK i \in Slot, k \in Kind : i = Item(p).slot /\ k = Item(p).kind
    BY <1>3
  <2>2. Quiet(i, k)'
    BY <1>1, <2>1 DEF Quiet
  <2>3. PICK d \in Caller : Awaits(d, i, k) /\ caller[d].req.call = Item(p).call
    BY <1>2, <2>1, <2>2 DEF NInv, LineInv, AwaitInv
  <2>4. Awaits(d, i, k)' /\ caller'[d].req = caller[d].req
    BY <2>1, <2>2, <2>3 DEF Awaits
  <2> QED BY <1>1, <2>1, <2>3, <2>4 DEF Awaits
<1>6. PairInv'
  <2> SUFFICES ASSUME NEW p \in 1 .. LineLen, NEW q \in 1 .. LineLen, p < q, Clash(Item(p), Item(q))'
               PROVE  FALSE
    BY <1>1 DEF PairInv
  <2>1. Clash(Item(p), Item(q))
    BY <1>1, <1>2 DEF Clash, Quiet
  <2> QED BY <2>1 DEF NInv, LineInv, PairInv
<1>7. SemInv'
  <2> SUFFICES ASSUME NEW i \in Slot, NEW k \in Kind, Quiet(i, k)', sem'[i][k] > 0
               PROVE  /\ sem'[i][k] = 1
                      /\ \E d \in Caller : Awaits(d, i, k)' /\ caller'[d].req.call = result[i][k]
                      /\ \A p \in 1 .. LineLen : Item(p).slot = i =>
                           Item(p).kind # k /\ (k = "close" => Item(p).kind \in Opening)
    BY <1>1 DEF SemInv
  <2>1. sem'[i][k] = sem[i][k] /\ Quiet(i, k)
    BY <1>2
  <2>2. /\ sem[i][k] = 1
        /\ \A p \in 1 .. LineLen : Item(p).slot = i =>
             Item(p).kind # k /\ (k = "close" => Item(p).kind \in Opening)
    BY <2>1 DEF NInv, LineInv, SemInv
  <2>3. PICK d \in Caller : Awaits(d, i, k) /\ caller[d].req.call = result[i][k]
    BY <2>1 DEF NInv, LineInv, SemInv
  <2>4. Awaits(d, i, k)' /\ caller'[d].req = caller[d].req
    BY <2>1, <2>3 DEF Awaits
  <2> QED BY <2>1, <2>2, <2>3, <2>4
<1>8. WokenInv'
  <2> SUFFICES ASSUME NEW d \in Caller, Woken(d)'
               PROVE  /\ Quiet(caller[d].req.slot, caller[d].req.kind)' =>
                           result[caller'[d].req.slot][caller'[d].req.kind] = caller'[d].req.call
                      /\ Good' /\ caller'[d].req.kind = "close" =>
                           \A p \in 1 .. LineLen :
                             Item(p).slot = caller'[d].req.slot => Item(p).kind \in Opening
    BY <1>1 DEF WokenInv
  <2>1. CASE d = c
    BY <2>1
  <2>2. CASE d # c
    <3>1. caller'[d] = caller[d] /\ Woken(d)
      BY <2>2 DEF Woken
    <3>2. Quiet(caller[d].req.slot, caller[d].req.kind)' => Quiet(caller[d].req.slot, caller[d].req.kind)
      BY <1>2, <3>1 DEF Quiet
    <3> QED BY <1>2, <3>1, <3>2 DEF NInv, LineInv, WokenInv
  <2> QED BY <2>1, <2>2
<1>9. HandInv'
  <2>1. Quiet(handler.answer.slot, handler.answer.kind)' => Quiet(handler.answer.slot, handler.answer.kind)
    BY <1>2 DEF Quiet
  <2> QED BY <1>2, <2>1 DEF NInv, LineInv, HandInv
<1> QED BY <1>4, <1>5, <1>6, <1>7, <1>8, <1>9 DEF LineInv

\* Nothing is under way for slot j.
Unused(j) ==
  /\ \A p \in 1 .. LineLen : Item(p).slot # j
  /\ ~(handler.pc = "post" /\ handler.answer.kind \in Opening /\ handler.answer.slot = j)
  /\ \A k \in Opening : ~(sem[j][k] > 0)
  /\ \A d \in Caller : User(d) /\ caller[d].pc = "send" => caller[d].req.slot # j

LEMMA CallerGood ==
  ASSUME NInv, Good, NEW c \in Caller,
         UNCHANGED <<handler, requests, answers, reply, open>>,
         \A d \in Caller : d # c => caller'[d] = caller[d],
         \A j \in Slot : slot'[j].status = "done" => slot'[j] = slot[j],
         \A j \in Slot : slot'[j] = slot[j] \/ Unused(j),
         \A j \in held' : slot'[j].status = "done",
         \A d \in Caller : Opener(d)' =>
           /\ caller'[d].pc \in {"send", "failed"} => slot'[caller'[d].req.slot].status = "wait"
           /\ caller'[d].pc = "return" => slot'[caller'[d].req.slot].status = "done",
         \A j \in Slot, k \in Opening : sem'[j][k] > 0 => sem[j][k] > 0,
         User(c)' /\ caller'[c].pc = "send" => ToSlot(caller[c].req)',
         \A j \in Slot : slot'[j].status = "done" /\ NotClosing(j)' => NotClosing(j)
  PROVE  DoneInv' /\ OpenerInv' /\ ToSlotInv' /\ OpenInv'
<1>0. DoneInv /\ OpenerInv /\ ToSlotInv /\ OpenInv /\ Types
  BY DEF NInv, GoodInv, OInv, TInv
<1>1. LineLen' = LineLen /\ (\A p : Item(p)' = Item(p)) /\ (\A r : Stored(r)' <=> Stored(r))
  BY SameLine
<1>2. DoneInv'
  BY <1>0 DEF DoneInv
<1>3. OpenerInv'
  <2>1. \A j \in Slot, k \in Opening : sem'[j][k] > 0 => slot'[j].status = "done"
    BY <1>0 DEF OpenerInv, Unused
  <2>2. handler.pc = "post" /\ handler.answer.kind \in Opening =>
          slot'[handler.answer.slot].status = "done"
    <3>1. handler.answer.slot \in Slot
      BY <1>0, HandlerFields, RequestFields DEF Types
    <3> QED BY <1>0, <3>1 DEF OpenerInv, Unused
  <2> QED BY <2>1, <2>2 DEF OpenerInv
<1>4. ToSlotInv'
  <2>1. ASSUME NEW p \in 1 .. LineLen PROVE ToSlot(Item(p))'
    <3>1. Item(p).slot \in Slot
      BY <1>0, ItemType, RequestFields
    <3>2. slot'[Item(p).slot] = slot[Item(p).slot]
      BY <3>1 DEF Unused
    <3>3. ToSlot(Item(p))
      BY <1>0 DEF ToSlotInv
    <3>4. Stored(Item(p)) => Stored(Item(p))'
      BY <1>1 DEF Stored
    <3> QED BY <1>1, <3>2, <3>3, <3>4 DEF ToSlot
  <2>2. ASSUME NEW d \in Caller, User(d)', caller'[d].pc = "send" PROVE ToSlot(caller[d].req)'
    <3>1. CASE d = c
      BY <2>2, <3>1
    <3>2. CASE d # c
      <4>1. caller'[d] = caller[d] /\ User(d) /\ caller[d].pc = "send"
        BY <2>2, <3>2 DEF User, Busy
      <4>2. caller[d].req.slot \in Slot
        BY <1>0, ReqSlot
      <4>3. slot'[caller[d].req.slot] = slot[caller[d].req.slot]
        BY <4>1, <4>2 DEF Unused
      <4>4. ToSlot(caller[d].req)
        BY <1>0, <4>1 DEF ToSlotInv
      <4> QED BY <4>1, <4>3, <4>4 DEF ToSlot, User
    <3> QED BY <3>1, <3>2
  <2> QED BY <1>1, <2>1, <2>2 DEF ToSlotInv
<1>5. OpenInv'
  <2>1. \A i \in Slot : slot'[i].status = "done" /\ slot'[i].fd # NoFd /\ NotClosing(i)'
                         => open[slot'[i].fd] = slot'[i].session
    BY <1>0 DEF OpenInv
  <2>2. ASSUME NEW p \in 1 .. LineLen, Item(p).kind \in Opening, Item(p).fd # NoFd
        PROVE  Stored(Item(p))' \/ open[Item(p).fd] = Item(p).session
    <3>1. Stored(Item(p)) => Stored(Item(p))'
      BY <1>1 DEF Stored
    <3> QED BY <1>0, <2>2, <3>1 DEF OpenInv
  <2> QED BY <1>0, <1>1, <2>1, <2>2 DEF OpenInv
<1> QED BY <1>2, <1>3, <1>4, <1>5

LEMMA SendNInv ==
  ASSUME NInv, NEW c \in Caller, TransmitLost(c) \/ SendOk(c) \/ SendUnacked(c)
  PROVE  LineInv' /\ GoodInv'
<1> DEFINE r == caller[c].req
<1>0. Types /\ Types'
  BY TransmitLostStep, SendOkStep, SendUnackedStep DEF NInv, OInv, TInv
<1>1. /\ \/ Moves(c, "send", "failed") /\ UNCHANGED stale
         \/ Moves(c, "sent", "wait") /\ UNCHANGED stale
         \/ Moves(c, "sent", "failed") /\ stale' = stale \cup {<<r.slot, r.kind>>}
      /\ UNCHANGED <<sem, held>>
  BY <1>0, TransmitLostStep, SendOkStep, SendUnackedStep
<1>2. /\ UNCHANGED <<slot, result, session, handler, requests, answers, open, reply, crossed, sem, held>>
      /\ \A d \in Caller : d # c => caller'[d] = caller[d]
      /\ caller'[c].req = r /\ caller[c].pc \in {"send", "sent"} /\ caller'[c].pc \in {"failed", "wait"}
      /\ stale \subseteq stale' /\ crossed' \in BOOLEAN
  BY <1>0, <1>1 DEF Moves, Quietly, Types
<1>3. \A d \in Caller : (Opener(d)' <=> Opener(d)) /\ (User(d)' <=> User(d)) /\ (Busy(d)' <=> Busy(d))
  BY <1>2 DEF Opener, User, Busy
<1>4. \A s : Named(s) => Named(s)'
  BY <1>2 DEF Named
<1>5. \A i \in Slot, k \in Kind : Awaits(c, i, k) =>
        \/ Awaits(c, i, k)' /\ caller'[c].req = caller[c].req
        \/ ~Quiet(i, k)'
  <2> SUFFICES ASSUME NEW i \in Slot, NEW k \in Kind, Awaits(c, i, k), ~Awaits(c, i, k)'
               PROVE  ~Quiet(i, k)'
    BY <1>2
  <2>1. stale' = stale \cup {<<r.slot, r.kind>>} /\ r.slot = i /\ r.kind = k
    BY <1>1 DEF Moves, Awaits
  <2> QED BY <2>1 DEF Quiet
<1>6. Opener(c)' => caller'[c].req.fd = NoFd
  BY <1>2, <1>3 DEF NInv, LineInv, NamedInv
<1>7. ~Woken(c)'
  BY <1>2 DEF Woken
<1>8. OpeningInv'
  <2> SUFFICES ASSUME NEW i \in Slot, slot[i].status # "idle", \A k \in Opening : <<i, k>> \notin stale
               PROVE  i \in held \/ \E d \in Caller : Opener(d)' /\ caller'[d].req.slot = i
    BY <1>2 DEF OpeningInv
  <2> QED BY <1>2, <1>3 DEF NInv, LineInv, OpeningInv
<1>9. LineInv'
  BY <1>2, <1>4, <1>5, <1>6, <1>7, <1>8, CallerLine
<1>10. GoodInv'
  <2> SUFFICES ASSUME Good' PROVE DoneInv' /\ OpenerInv' /\ ToSlotInv' /\ OpenInv'
    BY DEF GoodInv
  <2>1. Good
    BY <1>2 DEF Good
  <2>2. DoneInv /\ OpenerInv
    BY <2>1 DEF NInv, GoodInv
  <2>3. caller[c].pc = "sent" /\ caller'[c].pc = "failed" => r.kind \in Op
    <3> SUFFICES ASSUME caller[c].pc = "sent", caller'[c].pc = "failed" PROVE r.kind \in Op
      OBVIOUS
    <3>1. <<r.slot, r.kind>> \in stale'
      BY <1>1 DEF Moves
    <3> QED BY <3>1 DEF Good
  <2>4. \A d \in Caller : Opener(d)' =>
          /\ caller'[d].pc \in {"send", "failed"} => slot'[caller'[d].req.slot].status = "wait"
          /\ caller'[d].pc = "return" => slot'[caller'[d].req.slot].status = "done"
    <3> SUFFICES ASSUME NEW d \in Caller, Opener(d)
                 PROVE  /\ caller'[d].pc \in {"send", "failed"} => slot[caller'[d].req.slot].status = "wait"
                        /\ caller'[d].pc = "return" => slot[caller'[d].req.slot].status = "done"
      BY <1>2, <1>3
    <3>1. CASE d # c
      BY <1>2, <2>2, <3>1 DEF OpenerInv
    <3>2. CASE d = c
      <4>1. caller'[c].pc = "failed" => caller[c].pc = "send"
        BY <1>2, <2>3, <3>2, Kinds DEF Opener
      <4> QED BY <1>2, <2>2, <3>2, <4>1 DEF OpenerInv
    <3> QED BY <3>1, <3>2
  <2>5. \A j \in Slot : slot'[j].status = "done" /\ NotClosing(j)' => NotClosing(j)
    <3> SUFFICES ASSUME NEW j \in Slot, NotClosing(j)', NEW d \in Caller,
                        Busy(d), caller[d].req.slot = j, caller[d].req.kind = "close"
                 PROVE  caller[d].pc \in {"send", "failed", "return"}
      BY DEF NotClosing
    <3>1. Busy(d)' /\ caller'[d].req = caller[d].req
      BY <1>2, <1>3
    <3>2. caller'[d].pc \in {"send", "failed", "return"}
      BY <3>1 DEF NotClosing
    <3> QED BY <1>2, <2>3, <3>2, Kinds
  <2>6. ~(User(c)' /\ caller'[c].pc = "send")
    BY <1>2
  <2>7. \A j \in held' : slot'[j].status = "done"
    BY <1>2, <2>2 DEF DoneInv
  <2> QED BY <1>2, <2>1, <2>4, <2>5, <2>6, <2>7, CallerGood
<1> QED BY <1>9, <1>10

\* The thread that waits for a semaphore is the only one.
LEMMA OneAwaits ==
  ASSUME NInv, NEW c \in Caller, NEW d \in Caller,
         Busy(c), Busy(d), caller[c].req.slot = caller[d].req.slot,
         \/ caller[c].req.kind = caller[d].req.kind
         \/ caller[c].req.kind = "close" /\ caller[d].req.kind \notin Opening
         \/ caller[d].req.kind = "close" /\ caller[c].req.kind \notin Opening
  PROVE  c = d
<1>1. OneOpener /\ UsersApart
  BY DEF NInv, OInv, OwnInv
<1>2. CASE caller[c].req.kind \in Opening
  BY <1>1, <1>2, Kinds DEF OneOpener, Opener
<1>3. CASE caller[c].req.kind \notin Opening
  BY <1>1, <1>3, Kinds DEF UsersApart, User
<1> QED BY <1>2, <1>3

LEMMA WaitNInv ==
  ASSUME NInv, NEW c \in Caller, Wait(c)
  PROVE  LineInv' /\ GoodInv'
<1> DEFINE r == caller[c].req
          to == IF r.kind = "close" THEN "release" ELSE "return"
<1>0. Types /\ Types' /\ r.slot \in Slot /\ r.kind \in Kind
  BY WaitStep, ReqSlot DEF NInv, OInv, TInv
<1>1. /\ Moves(c, "wait", to)
      /\ sem[r.slot][r.kind] > 0
      /\ sem'[r.slot][r.kind] = sem[r.slot][r.kind] - 1
      /\ \A i \in Slot, k \in Kind : <<i, k>> # <<r.slot, r.kind>> => sem'[i][k] = sem[i][k]
      /\ UNCHANGED <<held, stale>>
  BY <1>0, WaitStep
<1>2. /\ UNCHANGED <<slot, result, session, handler, requests, answers, open, reply, crossed, held, stale>>
      /\ \A d \in Caller : d # c => caller'[d] = caller[d]
      /\ caller'[c].req = r /\ caller[c].pc = "wait" /\ caller'[c].pc = to
      /\ to \in {"release", "return"}
      /\ stale \subseteq stale' /\ crossed' \in BOOLEAN
  BY <1>0, <1>1 DEF Moves, Quietly, Types
<1>3. /\ \A d \in Caller : (Opener(d)' <=> Opener(d)) /\ (User(d)' <=> User(d)) /\ (Busy(d)' <=> Busy(d))
      /\ Busy(c) /\ (Good' <=> Good) /\ \A i, k : Quiet(i, k)' <=> Quiet(i, k)
  BY <1>2 DEF Opener, User, Busy, Good, Quiet
<1>4. \A s : Named(s) => Named(s)'
  BY <1>2 DEF Named
<1>5. Quiet(r.slot, r.kind) =>
        /\ sem[r.slot][r.kind] = 1 /\ ~(sem'[r.slot][r.kind] > 0)
        /\ result[r.slot][r.kind] = r.call
        /\ \A p \in 1 .. LineLen : Item(p).slot = r.slot =>
             Item(p).kind # r.kind /\ (r.kind = "close" => Item(p).kind \in Opening)
  <2> SUFFICES ASSUME Quiet(r.slot, r.kind)
               PROVE  /\ sem[r.slot][r.kind] = 1 /\ ~(sem'[r.slot][r.kind] > 0)
                      /\ result[r.slot][r.kind] = r.call
                      /\ \A p \in 1 .. LineLen : Item(p).slot = r.slot =>
                           Item(p).kind # r.kind /\ (r.kind = "close" => Item(p).kind \in Opening)
    OBVIOUS
  <2>1. /\ sem[r.slot][r.kind] = 1
        /\ \E d \in Caller : Awaits(d, r.slot, r.kind) /\ caller[d].req.call = result[r.slot][r.kind]
        /\ \A p \in 1 .. LineLen : Item(p).slot = r.slot =>
             Item(p).kind # r.kind /\ (r.kind = "close" => Item(p).kind \in Opening)
    BY <1>0, <1>1 DEF NInv, LineInv, SemInv
  <2>2. PICK d \in Caller : Awaits(d, r.slot, r.kind) /\ caller[d].req.call = result[r.slot][r.kind]
    BY <2>1
  <2>3. d = c
    BY <1>3, <2>2, OneAwaits DEF Awaits, Busy
  <2> QED BY <1>1, <2>1, <2>2, <2>3
<1>6. \A i \in Slot, k \in Kind : sem'[i][k] > 0 => sem'[i][k] = sem[i][k] \/ ~Quiet(i, k)'
  BY <1>1, <1>3, <1>5
<1>7. \A i \in Slot, k \in Kind : Awaits(c, i, k) =>
        \/ Awaits(c, i, k)' /\ caller'[c].req = caller[c].req
        \/ ~Quiet(i, k)'
        \/ ~(sem'[i][k] > 0) /\ \A p \in 1 .. LineLen : Item(p).slot = i => Item(p).kind # k
  BY <1>3, <1>5 DEF Awaits
<1>8. Opener(c)' => caller'[c].req.fd = NoFd
  BY <1>2, <1>3 DEF NInv, LineInv, NamedInv
<1>9. Quiet(caller[c].req.slot, caller[c].req.kind)' =>
        result[caller'[c].req.slot][caller'[c].req.kind] = caller'[c].req.call
  <2>1. Quiet(caller[c].req.slot, caller[c].req.kind)' => Quiet(r.slot, r.kind)
    BY <1>2, <1>3 DEF Quiet
  <2> QED BY <1>2, <1>5, <2>1
<1>10. Good' /\ caller'[c].req.kind = "close" =>
         \A p \in 1 .. LineLen : Item(p).slot = caller'[c].req.slot => Item(p).kind \in Opening
  <2> SUFFICES ASSUME Good, r.kind = "close"
               PROVE  \A p \in 1 .. LineLen : Item(p).slot = r.slot => Item(p).kind \in Opening
    BY <1>2, <1>3
  <2>1. <<r.slot, "close">> \notin stale
    BY Kinds DEF Good
  <2>2. Quiet(r.slot, r.kind)
    BY <2>1 DEF Quiet
  <2> QED BY <1>5, <2>2
<1>11. OpeningInv'
  <2> SUFFICES ASSUME NEW i \in Slot, slot[i].status # "idle", \A k \in Opening : <<i, k>> \notin stale
               PROVE  i \in held \/ \E d \in Caller : Opener(d)' /\ caller'[d].req.slot = i
    BY <1>2 DEF OpeningInv
  <2> QED BY <1>2, <1>3 DEF NInv, LineInv, OpeningInv
<1> HIDE DEF r, to
<1>12. LineInv'
  BY <1>2, <1>4, <1>6, <1>7, <1>8, <1>9, <1>10, <1>11, CallerLine
<1>13. GoodInv'
  <2> SUFFICES ASSUME Good' PROVE DoneInv' /\ OpenerInv' /\ ToSlotInv' /\ OpenInv'
    BY DEF GoodInv
  <2>1. Good
    BY <1>3
  <2>2. DoneInv /\ OpenerInv
    BY <2>1 DEF NInv, GoodInv
  <2>3. \A j \in Slot, k \in Opening : sem'[j][k] > 0 => sem[j][k] > 0
    <3> SUFFICES ASSUME NEW j \in Slot, NEW k \in Opening, sem'[j][k] > 0 PROVE sem[j][k] > 0
      OBVIOUS
    <3>1. k \in Kind
      BY Kinds
    <3> QED BY <1>1, <3>1
  <2>4. \A d \in Caller : Opener(d)' =>
          /\ caller'[d].pc \in {"send", "failed"} => slot'[caller'[d].req.slot].status = "wait"
          /\ caller'[d].pc = "return" => slot'[caller'[d].req.slot].status = "done"
    <3> SUFFICES ASSUME NEW d \in Caller, Opener(d)
                 PROVE  /\ caller'[d].pc \in {"send", "failed"} => slot[caller'[d].req.slot].status = "wait"
                        /\ caller'[d].pc = "return" => slot[caller'[d].req.slot].status = "done"
      BY <1>2, <1>3
    <3>1. CASE d # c
      BY <1>2, <2>2, <3>1 DEF OpenerInv
    <3>2. CASE d = c
      <4>1. slot[r.slot].status = "done"
        BY <1>0, <1>1, <2>2, <3>2 DEF OpenerInv, Opener, r
      <4> QED BY <1>2, <3>2, <4>1
    <3> QED BY <3>1, <3>2
  <2>5. \A j \in Slot : slot'[j].status = "done" /\ NotClosing(j)' => NotClosing(j)
    <3> SUFFICES ASSUME NEW j \in Slot, NotClosing(j)', NEW d \in Caller,
                        Busy(d), caller[d].req.slot = j, caller[d].req.kind = "close"
                 PROVE  caller[d].pc \in {"send", "failed", "return"}
      BY DEF NotClosing
    <3>1. Busy(d)' /\ caller'[d].req = caller[d].req
      BY <1>2, <1>3 DEF r
    <3>2. caller'[d].pc \in {"send", "failed", "return"}
      BY <3>1 DEF NotClosing
    <3>3. d # c
      BY <1>2, <3>2 DEF r, to
    <3> QED BY <1>2, <3>2, <3>3
  <2>6. ~(User(c)' /\ caller'[c].pc = "send")
    BY <1>2
  <2>7. \A j \in held' : slot'[j].status = "done"
    BY <1>2, <2>2 DEF DoneInv
  <2> QED BY <1>2, <2>1, <2>3, <2>4, <2>5, <2>6, <2>7, CallerGood
<1> QED BY <1>12, <1>13

\* Nothing is under way for an idle slot.
LEMMA IdleUnused ==
  ASSUME NInv, Good, NEW i \in Slot, slot[i].status = "idle"
  PROVE  Unused(i)
<1>0. OpenerInv /\ ToSlotInv
  BY DEF NInv, GoodInv
<1>1. ~(handler.pc = "post" /\ handler.answer.kind \in Opening /\ handler.answer.slot = i)
  BY <1>0 DEF OpenerInv
<1>2. \A p \in 1 .. LineLen : Item(p).slot # i
  <2> SUFFICES ASSUME NEW p \in 1 .. LineLen, Item(p).slot = i PROVE FALSE
    OBVIOUS
  <2>1. ToSlot(Item(p))
    BY <1>0 DEF ToSlotInv
  <2> QED BY <1>1, <2>1 DEF ToSlot, Stored
<1>3. \A k \in Opening : ~(sem[i][k] > 0)
  BY <1>0 DEF OpenerInv
<1>4. \A d \in Caller : User(d) /\ caller[d].pc = "send" => caller[d].req.slot # i
  BY <1>0 DEF ToSlotInv, ToSlot, User
<1> QED BY <1>1, <1>2, <1>3, <1>4 DEF Unused

LEMMA OpenNInv ==
  ASSUME NInv, NEW c \in Caller, NEW k \in Opening, Open(c, k)
  PROVE  LineInv' /\ GoodInv'
<1>0. Types /\ Types' /\ session \in Nat /\ k \in Kind
  BY OpenStep, Kinds DEF NInv, OInv, TInv, Types
<1>1. PICK i \in Slot :
        /\ slot[i].status = "idle"
        /\ slot'[i] = [status |-> "wait", session |-> session + 1, fd |-> NoFd]
        /\ \A j \in Slot : j # i => slot'[j] = slot[j]
        /\ caller'[c] = [pc |-> "send", req |-> [kind |-> k, session |-> session + 1,
                           fd |-> NoFd, slot |-> i, call |-> calls + 1]]
  BY <1>0, OpenStep
<1>2. /\ caller[c].pc = "idle" /\ \A d \in Caller : d # c => caller'[d] = caller[d]
      /\ session' = session + 1
      /\ UNCHANGED <<sem, result, handler, requests, answers, open, reply, held, stale, crossed>>
  BY <1>0, OpenStep
<1>3. /\ caller'[c].pc = "send" /\ caller'[c].req.kind = k /\ caller'[c].req.slot = i
      /\ caller'[c].req.fd = NoFd /\ slot'[i].status = "wait" /\ slot'[i].session = session + 1
      /\ stale \subseteq stale' /\ crossed' \in BOOLEAN /\ (Good' <=> Good)
  BY <1>0, <1>1, <1>2 DEF Types, Good
<1>4. /\ ~Busy(c) /\ ~Opener(c) /\ Opener(c)' /\ ~User(c)'
      /\ \A d \in Caller : d # c => (Opener(d)' <=> Opener(d)) /\ (User(d)' <=> User(d)) /\ (Busy(d)' <=> Busy(d))
  BY <1>2, <1>3 DEF Opener, User, Busy
<1>5. \A s : Named(s) => Named(s)'
  <2> SUFFICES ASSUME NEW s, Named(s), NEW j \in Slot, slot'[j].session = s.session PROVE j = s.slot
    BY <1>0, <1>2 DEF Named
  <2>1. j # i
    BY <1>0, <1>3 DEF Named
  <2> QED BY <1>1, <2>1 DEF Named
<1>6. \A j \in Slot : slot'[j].status = "done" => slot'[j] = slot[j]
  BY <1>1, <1>3
<1>7. \A j \in Slot, l \in Kind : ~Awaits(c, j, l)
  BY <1>2 DEF Awaits
<1>8. ~Woken(c)'
  BY <1>3 DEF Woken
<1>9. OpeningInv'
  <2> SUFFICES ASSUME NEW j \in Slot, slot'[j].status # "idle", \A l \in Opening : <<j, l>> \notin stale,
                      j \notin held
               PROVE  \E d \in Caller : Opener(d)' /\ caller'[d].req.slot = j
    BY <1>2 DEF OpeningInv
  <2>1. CASE j = i
    BY <1>3, <1>4, <2>1
  <2>2. CASE j # i
    <3>1. PICK d \in Caller : Opener(d) /\ caller[d].req.slot = j
      BY <1>1, <2>2 DEF NInv, LineInv, OpeningInv
    <3> QED BY <1>2, <1>4, <3>1
  <2> QED BY <2>1, <2>2
<1>10. LineInv'
  BY <1>2, <1>3, <1>5, <1>6, <1>7, <1>8, <1>9, CallerLine
<1>11. GoodInv'
  <2> SUFFICES ASSUME Good PROVE DoneInv' /\ OpenerInv' /\ ToSlotInv' /\ OpenInv'
    BY <1>3 DEF GoodInv
  <2>1. DoneInv /\ OpenerInv /\ Taken /\ held \subseteq Slot
    BY DEF NInv, GoodInv, OInv, OwnInv, TInv, Types
  <2>2. \A j \in Slot : slot'[j] = slot[j] \/ Unused(j)
    BY <1>1, IdleUnused
  <2>3. \A j \in held' : slot'[j].status = "done"
    BY <1>1, <1>2, <2>1 DEF DoneInv, Taken
  <2>4. \A d \in Caller : Opener(d)' =>
          /\ caller'[d].pc \in {"send", "failed"} => slot'[caller'[d].req.slot].status = "wait"
          /\ caller'[d].pc = "return" => slot'[caller'[d].req.slot].status = "done"
    <3> SUFFICES ASSUME NEW d \in Caller, d # c, Opener(d)
                 PROVE  /\ caller[d].pc \in {"send", "failed"} => slot'[caller[d].req.slot].status = "wait"
                        /\ caller[d].pc = "return" => slot'[caller[d].req.slot].status = "done"
      BY <1>2, <1>3, <1>4
    <3>1. caller[d].req.slot \in Slot /\ caller[d].req.slot # i
      BY <1>0, <1>1, <2>1, ReqSlot DEF Taken
    <3> QED BY <1>1, <2>1, <3>1 DEF OpenerInv
  <2>5. \A j \in Slot : slot'[j].status = "done" /\ NotClosing(j)' => NotClosing(j)
    <3> SUFFICES ASSUME NEW j \in Slot, NotClosing(j)', NEW d \in Caller,
                        Busy(d), caller[d].req.slot = j, caller[d].req.kind = "close"
                 PROVE  caller[d].pc \in {"send", "failed", "return"}
      BY DEF NotClosing
    <3>1. d # c /\ Busy(d)' /\ caller'[d] = caller[d]
      BY <1>2, <1>4
    <3> QED BY <3>1 DEF NotClosing
  <2>6. \A j \in Slot, l \in Opening : sem'[j][l] > 0 => sem[j][l] > 0
    BY <1>2
  <2> QED BY <1>2, <1>4, <1>6, <2>2, <2>3, <2>4, <2>5, <2>6, CallerGood
<1> QED BY <1>10, <1>11

LEMMA CallNInv ==
  ASSUME NInv, NEW c \in Caller, NEW i \in Slot, NEW k \in Op \cup {"close"}, Call(c, i, k)
  PROVE  LineInv' /\ GoodInv'
<1>0. Types /\ UsedInv /\ Types' /\ k \in Kind
  BY CallStep, Kinds DEF NInv, OInv, TInv
<1>1. /\ caller'[c] = [pc |-> "send", req |-> [kind |-> k, session |-> slot[i].session,
                         fd |-> slot[i].fd, slot |-> i, call |-> calls + 1]]
      /\ i \in held
      /\ crossed' = (crossed \/ slot[i].fd = NoFd)
      /\ caller[c].pc = "idle" /\ \A d \in Caller : d # c => caller'[d] = caller[d]
      /\ UNCHANGED <<slot, sem, result, session, handler, requests, answers, open, reply, held, stale>>
  <2> HIDE DEF Types, UsedInv
  <2> QED BY <1>0, CallStep
<1>2. /\ caller'[c].pc = "send" /\ caller'[c].req.kind = k /\ caller'[c].req.slot = i
      /\ caller'[c].req.fd = slot[i].fd /\ caller'[c].req.session = slot[i].session
      /\ stale \subseteq stale' /\ crossed' \in BOOLEAN
  BY <1>0, <1>1 DEF Types
<1>3. /\ ~Busy(c) /\ ~Opener(c) /\ ~Opener(c)' /\ k \notin Opening
      /\ \A d \in Caller : d # c => (Opener(d)' <=> Opener(d)) /\ (User(d)' <=> User(d)) /\ (Busy(d)' <=> Busy(d))
  BY <1>1, <1>2, Kinds DEF Opener, User, Busy
<1>4. \A s : Named(s) => Named(s)'
  BY <1>1 DEF Named
<1>5. \A j \in Slot, l \in Kind : ~Awaits(c, j, l)
  BY <1>1 DEF Awaits
<1>6. ~Woken(c)'
  BY <1>2 DEF Woken
<1>7. OpeningInv'
  <2> SUFFICES ASSUME NEW j \in Slot, slot[j].status # "idle", \A l \in Opening : <<j, l>> \notin stale,
                      j \notin held
               PROVE  \E d \in Caller : Opener(d)' /\ caller'[d].req.slot = j
    BY <1>1 DEF OpeningInv
  <2>1. PICK d \in Caller : Opener(d) /\ caller[d].req.slot = j
    BY DEF NInv, LineInv, OpeningInv
  <2> QED BY <1>1, <1>3, <2>1
<1>8. LineInv'
  BY <1>1, <1>2, <1>3, <1>4, <1>5, <1>6, <1>7, CallerLine
<1>9. GoodInv'
  <2> SUFFICES ASSUME Good' PROVE DoneInv' /\ OpenerInv' /\ ToSlotInv' /\ OpenInv'
    BY DEF GoodInv
  <2>1. Good /\ slot[i].fd # NoFd
    BY <1>1 DEF Good
  <2>2. DoneInv /\ OpenerInv
    BY <2>1 DEF NInv, GoodInv
  <2>3. ToSlot(caller[c].req)'
    BY <1>1, <1>2, <1>3, <2>1, <2>2 DEF ToSlot, DoneInv
  <2>4. \A d \in Caller : Opener(d)' =>
          /\ caller'[d].pc \in {"send", "failed"} => slot'[caller'[d].req.slot].status = "wait"
          /\ caller'[d].pc = "return" => slot'[caller'[d].req.slot].status = "done"
    <3> SUFFICES ASSUME NEW d \in Caller, d # c, Opener(d)
                 PROVE  /\ caller[d].pc \in {"send", "failed"} => slot[caller[d].req.slot].status = "wait"
                        /\ caller[d].pc = "return" => slot[caller[d].req.slot].status = "done"
      BY <1>1, <1>3
    <3> QED BY <2>2 DEF OpenerInv
  <2>5. \A j \in Slot : slot'[j].status = "done" /\ NotClosing(j)' => NotClosing(j)
    <3> SUFFICES ASSUME NEW j \in Slot, NotClosing(j)', NEW d \in Caller,
                        Busy(d), caller[d].req.slot = j, caller[d].req.kind = "close"
                 PROVE  caller[d].pc \in {"send", "failed", "return"}
      BY DEF NotClosing
    <3>1. d # c /\ Busy(d)' /\ caller'[d] = caller[d]
      BY <1>1, <1>3
    <3> QED BY <3>1 DEF NotClosing
  <2>6. \A j \in held' : slot'[j].status = "done"
    BY <1>1, <2>2 DEF DoneInv
  <2> QED BY <1>1, <2>1, <2>3, <2>4, <2>5, <2>6, CallerGood
<1> QED BY <1>8, <1>9

LEMMA FailedNInv ==
  ASSUME NInv, NEW c \in Caller, Failed(c)
  PROVE  LineInv' /\ GoodInv'
<1>0. Types /\ Types'
  BY FailedStep DEF NInv, OInv, TInv
<1>1. PICK r \in Request : r = caller[c].req
  BY <1>0, ReqSlot
<1>2. /\ caller[c].pc = "failed" /\ caller'[c] = Idle
      /\ \A d \in Caller : d # c => caller'[d] = caller[d]
      /\ \A j \in Slot : j # r.slot \/ r.kind \notin Opening => slot'[j] = slot[j]
      /\ r.kind \in Opening => slot'[r.slot].status = "idle"
      /\ \A j \in Slot : slot'[j].session = slot[j].session
      /\ UNCHANGED <<sem, result, session, handler, requests, answers, open, reply, held,
                     stale, crossed>>
  <2>1. /\ caller[c].pc = "failed" /\ caller'[c] = Idle
        /\ \A d \in Caller : d # c => caller'[d] = caller[d]
        /\ \A j \in Slot : j # r.slot \/ r.kind \notin Opening => slot'[j] = slot[j]
        /\ \A j \in Slot : slot'[j].session = slot[j].session
        /\ UNCHANGED <<sem, result, session, handler, requests, answers, open, reply, held,
                       stale, crossed>>
    <3> HIDE DEF Types
    <3> QED BY <1>0, <1>1, FailedStep
  <2>2. r.kind \in Opening => slot'[r.slot] = [status |-> "idle", session |-> slot[r.slot].session,
                                              fd |-> slot[r.slot].fd]
    BY <1>0, <1>1, FailedStep
  <2> QED BY <2>1, <2>2
<1>3. /\ stale \subseteq stale' /\ crossed' \in BOOLEAN /\ (Good' <=> Good) /\ r.slot \in Slot
      /\ caller'[c].pc = "idle"
  BY <1>0, <1>1, <1>2, IdleType, RequestFields DEF Types, Good
<1>4. /\ ~Opener(c)' /\ ~User(c)' /\ ~Busy(c)' /\ Busy(c)
      /\ \A d \in Caller : d # c => (Opener(d)' <=> Opener(d)) /\ (User(d)' <=> User(d)) /\ (Busy(d)' <=> Busy(d))
  BY <1>2, <1>3 DEF Opener, User, Busy
<1>5. \A s : Named(s) => Named(s)'
  BY <1>2 DEF Named
<1>6. \A j \in Slot : slot'[j].status = "done" => slot'[j] = slot[j]
  BY <1>2
<1>7. \A j \in Slot, l \in Kind : ~Awaits(c, j, l)
  BY <1>2 DEF Awaits
<1>8. ~Woken(c)'
  BY <1>3 DEF Woken
<1>9. OpeningInv'
  <2> SUFFICES ASSUME NEW j \in Slot, slot'[j].status # "idle", \A l \in Opening : <<j, l>> \notin stale,
                      j \notin held
               PROVE  \E d \in Caller : Opener(d)' /\ caller'[d].req.slot = j
    BY <1>2 DEF OpeningInv
  <2>1. PICK d \in Caller : Opener(d) /\ caller[d].req.slot = j
    BY <1>2 DEF NInv, LineInv, OpeningInv
  <2>2. d # c
    BY <1>1, <1>2, <2>1 DEF Opener
  <2> QED BY <1>2, <1>4, <2>1, <2>2
<1>10. LineInv'
  BY <1>2, <1>3, <1>4, <1>5, <1>6, <1>7, <1>8, <1>9, CallerLine
<1>11. GoodInv'
  <2> SUFFICES ASSUME Good PROVE DoneInv' /\ OpenerInv' /\ ToSlotInv' /\ OpenInv'
    BY <1>3 DEF GoodInv
  <2>1. DoneInv /\ OpenerInv /\ ToSlotInv /\ Taken /\ OneOpener /\ held \subseteq Slot
    BY DEF NInv, GoodInv, OInv, OwnInv, TInv, Types
  <2>2. r.kind \in Opening => Unused(r.slot)
    <3> SUFFICES ASSUME r.kind \in Opening PROVE Unused(r.slot)
      OBVIOUS
    <3>1. slot[r.slot].status = "wait" /\ Opener(c)
      BY <1>1, <1>2, <1>4, <2>1 DEF OpenerInv, Opener
    <3>2. ~(handler.pc = "post" /\ handler.answer.kind \in Opening /\ handler.answer.slot = r.slot)
      BY <2>1, <3>1 DEF OpenerInv
    <3>3. \A p \in 1 .. LineLen : Item(p).slot # r.slot
      <4> SUFFICES ASSUME NEW p \in 1 .. LineLen, Item(p).slot = r.slot PROVE FALSE
        OBVIOUS
      <4>1. ToSlot(Item(p))
        BY <2>1 DEF ToSlotInv
      <4>2. Item(p).kind \in Opening
        BY <3>1, <4>1 DEF ToSlot
      <4>3. <<Item(p).slot, Item(p).kind>> \notin stale
        BY <4>2, Kinds DEF Good
      <4>4. Quiet(Item(p).slot, Item(p).kind)
        BY <4>3 DEF Quiet
      <4>5. PICK d \in Caller : Awaits(d, Item(p).slot, Item(p).kind)
        BY <4>4 DEF NInv, LineInv, AwaitInv
      <4>6. Opener(d) /\ caller[d].req.slot = r.slot /\ d # c
        BY <1>2, <4>2, <4>5 DEF Awaits, Opener, Busy
      <4> QED BY <1>1, <2>1, <3>1, <4>6 DEF OneOpener
    <3>4. \A k \in Opening : ~(sem[r.slot][k] > 0)
      BY <1>3, <2>1, <3>1 DEF OpenerInv
    <3>5. \A d \in Caller : User(d) /\ caller[d].pc = "send" => caller[d].req.slot # r.slot
      BY <2>1, <3>1 DEF ToSlotInv, ToSlot, User
    <3> QED BY <3>2, <3>3, <3>4, <3>5 DEF Unused
  <2>3. \A j \in Slot : slot'[j] = slot[j] \/ Unused(j)
    BY <1>2, <2>2
  <2>4. r.kind \in Opening => r.slot \notin held /\ \A d \in Caller : d # c /\ Opener(d) => caller[d].req.slot # r.slot
    BY <1>1, <1>4, <2>1 DEF Taken, OneOpener, Opener
  <2>5. \A j \in held' : slot'[j].status = "done"
    BY <1>2, <2>1, <2>4 DEF DoneInv
  <2>6. \A d \in Caller : Opener(d)' =>
          /\ caller'[d].pc \in {"send", "failed"} => slot'[caller'[d].req.slot].status = "wait"
          /\ caller'[d].pc = "return" => slot'[caller'[d].req.slot].status = "done"
    <3> SUFFICES ASSUME NEW d \in Caller, d # c, Opener(d)
                 PROVE  /\ caller[d].pc \in {"send", "failed"} => slot'[caller[d].req.slot].status = "wait"
                        /\ caller[d].pc = "return" => slot'[caller[d].req.slot].status = "done"
      BY <1>2, <1>4
    <3>1. slot'[caller[d].req.slot] = slot[caller[d].req.slot]
      BY <1>0, <1>2, <2>4, ReqSlot
    <3> QED BY <2>1, <3>1 DEF OpenerInv
  <2>7. \A j \in Slot : slot'[j].status = "done" /\ NotClosing(j)' => NotClosing(j)
    <3> SUFFICES ASSUME NEW j \in Slot, NotClosing(j)', NEW d \in Caller,
                        Busy(d), caller[d].req.slot = j, caller[d].req.kind = "close", d # c
                 PROVE  caller[d].pc \in {"send", "failed", "return"}
      BY <1>2 DEF NotClosing
    <3>1. Busy(d)' /\ caller'[d] = caller[d]
      BY <1>2, <1>4
    <3> QED BY <3>1 DEF NotClosing
  <2> QED BY <1>2, <1>4, <1>6, <2>3, <2>5, <2>6, <2>7, CallerGood
<1> QED BY <1>10, <1>11

LEMMA ReleaseNInv ==
  ASSUME NInv, NEW c \in Caller, Release(c)
  PROVE  LineInv' /\ GoodInv'
<1>0. Types /\ Types'
  BY ReleaseStep DEF NInv, OInv, TInv
<1>1. PICK i \in Slot : i = caller[c].req.slot
  BY <1>0, ReqSlot
<1>2. /\ caller[c].pc = "release" /\ caller'[c].pc = "return" /\ caller'[c].req = caller[c].req
      /\ \A d \in Caller : d # c => caller'[d] = caller[d]
      /\ slot'[i].status = "idle" /\ \A j \in Slot : j # i => slot'[j] = slot[j]
      /\ \A j \in Slot : slot'[j].session = slot[j].session
      /\ held' = held \ {i}
      /\ UNCHANGED <<sem, result, session, handler, requests, answers, open, reply, stale, crossed>>
  <2>1. slot'[i] = [status |-> "idle", session |-> slot[i].session, fd |-> NoFd]
    BY <1>0, <1>1, ReleaseStep
  <2>2. /\ caller[c].pc = "release" /\ caller'[c].pc = "return" /\ caller'[c].req = caller[c].req
        /\ \A d \in Caller : d # c => caller'[d] = caller[d]
        /\ \A j \in Slot : j # i => slot'[j] = slot[j]
        /\ \A j \in Slot : slot'[j].session = slot[j].session
        /\ held' = held \ {i}
        /\ UNCHANGED <<sem, result, session, handler, requests, answers, open, reply, stale, crossed>>
    BY <1>0, <1>1, ReleaseStep
  <2> QED BY <2>1, <2>2
<1>3. /\ stale \subseteq stale' /\ crossed' \in BOOLEAN /\ (Good' <=> Good)
      /\ caller[c].req.kind = "close" /\ i \in held
  <2>1. caller[c].req.kind = "close"
    BY <1>2 DEF NInv, OInv, OwnInv, UsersHold
  <2>2. i \in held
    BY <1>1, <1>2, <2>1, Kinds DEF NInv, OInv, OwnInv, UsersHold, Using, User, Busy
  <2> QED BY <1>0, <1>2, <2>1, <2>2 DEF Types, Good
<1>4. /\ ~Opener(c) /\ Busy(c) /\ User(c)
      /\ \A d \in Caller : (Opener(d)' <=> Opener(d)) /\ (User(d)' <=> User(d)) /\ (Busy(d)' <=> Busy(d))
  BY <1>2, <1>3, Kinds DEF Opener, User, Busy
<1>5. \A s : Named(s) => Named(s)'
  BY <1>2 DEF Named
<1>6. \A j \in Slot : slot'[j].status = "done" => slot'[j] = slot[j]
  BY <1>2
<1>7. \A j \in Slot, l \in Kind : ~Awaits(c, j, l)
  BY <1>2 DEF Awaits
<1>8. ~Woken(c)'
  BY <1>2, <1>3 DEF Woken
<1>9. OpeningInv'
  <2> SUFFICES ASSUME NEW j \in Slot, slot'[j].status # "idle", \A l \in Opening : <<j, l>> \notin stale,
                      j \notin held'
               PROVE  \E d \in Caller : Opener(d)' /\ caller'[d].req.slot = j
    BY <1>2 DEF OpeningInv
  <2>1. j # i /\ j \notin held /\ slot[j].status # "idle"
    BY <1>2
  <2>2. PICK d \in Caller : Opener(d) /\ caller[d].req.slot = j
    BY <2>1 DEF NInv, LineInv, OpeningInv
  <2> QED BY <1>2, <1>4, <2>2
<1>10. LineInv'
  BY <1>2, <1>3, <1>4, <1>5, <1>6, <1>7, <1>8, <1>9, CallerLine
<1>11. GoodInv'
  <2> SUFFICES ASSUME Good PROVE DoneInv' /\ OpenerInv' /\ ToSlotInv' /\ OpenInv'
    BY <1>3 DEF GoodInv
  <2>1. DoneInv /\ OpenerInv /\ ToSlotInv /\ Taken /\ held \subseteq Slot
    BY DEF NInv, GoodInv, OInv, OwnInv, TInv, Types
  <2>2. \A d \in Caller : Opener(d) => caller[d].req.slot # i
    BY <1>3, <2>1 DEF Taken
  <2>3. \A k \in Opening : Quiet(i, k)
    <3> SUFFICES ASSUME NEW k \in Opening PROVE Quiet(i, k)
      OBVIOUS
    <3>1. <<i, k>> \notin stale
      BY Kinds DEF Good
    <3> QED BY <3>1 DEF Quiet
  <2>4. Unused(i)
    <3>1. \A p \in 1 .. LineLen : Item(p).slot # i
      <4> SUFFICES ASSUME NEW p \in 1 .. LineLen, Item(p).slot = i PROVE FALSE
        OBVIOUS
      <4>1. Woken(c)
        BY <1>2, <1>3 DEF Woken
      <4>2. Item(p).kind \in Opening
        BY <1>1, <1>3, <4>1 DEF NInv, LineInv, WokenInv
      <4>3. Quiet(Item(p).slot, Item(p).kind)
        BY <2>3, <4>2
      <4>4. PICK d \in Caller : Awaits(d, Item(p).slot, Item(p).kind)
        BY <4>3 DEF NInv, LineInv, AwaitInv
      <4> QED BY <2>2, <4>2, <4>4 DEF Awaits, Opener, Busy
    <3>2. ~(handler.pc = "post" /\ handler.answer.kind \in Opening /\ handler.answer.slot = i)
      <4> SUFFICES ASSUME handler.pc = "post", handler.answer.kind \in Opening, handler.answer.slot = i
                   PROVE  FALSE
        OBVIOUS
      <4>1. handler.at = i
        BY DEF NInv, LineInv, HandInv
      <4>2. HandLen = 1
        BY <4>1, SlotIs DEF HandLen
      <4>3. 1 \in 1 .. LineLen /\ Item(1) = handler.answer
        <5>1. PICK d \in {0, 1}, n \in Nat, m \in Nat :
                d = PendLen /\ n = Len(answers) /\ m = Len(requests)
          BY <1>0, Lens
        <5> QED BY <4>2, <5>1 DEF LineLen, Item
      <4> QED BY <3>1, <4>3
    <3>3. \A k \in Opening : ~(sem[i][k] > 0)
      <4> SUFFICES ASSUME NEW k \in Opening, sem[i][k] > 0 PROVE FALSE
        OBVIOUS
      <4>1. PICK d \in Caller : Awaits(d, i, k)
        BY <2>3, Kinds DEF NInv, LineInv, SemInv
      <4> QED BY <2>2, <4>1 DEF Awaits, Opener, Busy
    <3>4. \A d \in Caller : User(d) /\ caller[d].pc = "send" => caller[d].req.slot # i
      <4> SUFFICES ASSUME NEW d \in Caller, User(d), caller[d].pc = "send", caller[d].req.slot = i PROVE FALSE
        OBVIOUS
      <4>1. c = d
        BY <1>1, <1>3, <1>4, OneAwaits DEF User
      <4> QED BY <1>2, <4>1
    <3> QED BY <3>1, <3>2, <3>3, <3>4 DEF Unused
  <2>5. \A j \in Slot : slot'[j] = slot[j] \/ Unused(j)
    BY <1>2, <2>4
  <2>6. \A j \in held' : slot'[j].status = "done"
    BY <1>2, <2>1 DEF DoneInv
  <2>7. \A d \in Caller : Opener(d)' =>
          /\ caller'[d].pc \in {"send", "failed"} => slot'[caller'[d].req.slot].status = "wait"
          /\ caller'[d].pc = "return" => slot'[caller'[d].req.slot].status = "done"
    <3> SUFFICES ASSUME NEW d \in Caller, d # c, Opener(d)
                 PROVE  /\ caller[d].pc \in {"send", "failed"} => slot'[caller[d].req.slot].status = "wait"
                        /\ caller[d].pc = "return" => slot'[caller[d].req.slot].status = "done"
      BY <1>2, <1>4
    <3>1. slot'[caller[d].req.slot] = slot[caller[d].req.slot]
      BY <1>0, <1>2, <2>2, ReqSlot
    <3> QED BY <2>1, <3>1 DEF OpenerInv
  <2>8. \A j \in Slot : slot'[j].status = "done" /\ NotClosing(j)' => NotClosing(j)
    <3> SUFFICES ASSUME NEW j \in Slot, j # i, NotClosing(j)', NEW d \in Caller,
                        Busy(d), caller[d].req.slot = j, caller[d].req.kind = "close"
                 PROVE  caller[d].pc \in {"send", "failed", "return"}
      BY <1>2 DEF NotClosing
    <3>1. d # c
      BY <1>1
    <3>2. Busy(d)' /\ caller'[d] = caller[d]
      BY <1>2, <1>4, <3>1
    <3> QED BY <3>2 DEF NotClosing
  <2> QED BY <1>2, <1>6, <2>1, <2>5, <2>6, <2>7, <2>8, CallerGood
<1> QED BY <1>10, <1>11

LEMMA ReturnNInv ==
  ASSUME NInv, NEW c \in Caller, Return(c)
  PROVE  LineInv' /\ GoodInv'
<1>0. Types /\ Types'
  BY ReturnStep DEF NInv, OInv, TInv
<1>1. PICK r \in Request : r = caller[c].req
  BY <1>0, ReqSlot
<1>2. /\ caller[c].pc = "return" /\ caller'[c] = Idle
      /\ \A d \in Caller : d # c => caller'[d] = caller[d]
      /\ held' = IF r.kind \in Opening THEN held \cup {r.slot} ELSE held
      /\ UNCHANGED <<slot, sem, result, session, handler, requests, answers, open, reply, stale, crossed>>
  BY <1>0, <1>1, ReturnStep DEF Quietly
<1>3. /\ stale \subseteq stale' /\ crossed' \in BOOLEAN /\ (Good' <=> Good)
      /\ caller'[c].pc = "idle"
  BY <1>0, <1>2, IdleType DEF Types, Good
<1>4. /\ ~Opener(c)' /\ ~User(c)' /\ ~Busy(c)' /\ Busy(c)
      /\ \A d \in Caller : d # c => (Opener(d)' <=> Opener(d)) /\ (User(d)' <=> User(d)) /\ (Busy(d)' <=> Busy(d))
  BY <1>2, <1>3 DEF Opener, User, Busy
<1>5. \A s : Named(s) => Named(s)'
  BY <1>2 DEF Named
<1>6. \A j \in Slot, l \in Kind : ~Awaits(c, j, l)
  BY <1>2 DEF Awaits
<1>7. ~Woken(c)'
  BY <1>3 DEF Woken
<1>8. OpeningInv'
  <2> SUFFICES ASSUME NEW j \in Slot, slot[j].status # "idle", \A l \in Opening : <<j, l>> \notin stale,
                      j \notin held'
               PROVE  \E d \in Caller : Opener(d)' /\ caller'[d].req.slot = j
    BY <1>2 DEF OpeningInv
  <2>1. PICK d \in Caller : Opener(d) /\ caller[d].req.slot = j
    BY <1>2 DEF NInv, LineInv, OpeningInv
  <2>2. d # c
    BY <1>1, <1>2, <2>1 DEF Opener
  <2> QED BY <1>2, <1>4, <2>1, <2>2
<1>9. LineInv'
  BY <1>2, <1>3, <1>4, <1>5, <1>6, <1>7, <1>8, CallerLine
<1>10. GoodInv'
  <2> SUFFICES ASSUME Good PROVE DoneInv' /\ OpenerInv' /\ ToSlotInv' /\ OpenInv'
    BY <1>3 DEF GoodInv
  <2>1. DoneInv /\ OpenerInv
    BY DEF NInv, GoodInv
  <2>2. \A j \in held' : slot'[j].status = "done"
    <3>1. r.kind \in Opening => slot[r.slot].status = "done"
      BY <1>1, <1>2, <1>4, <2>1 DEF OpenerInv, Opener
    <3> QED BY <1>2, <2>1, <3>1 DEF DoneInv
  <2>3. \A d \in Caller : Opener(d)' =>
          /\ caller'[d].pc \in {"send", "failed"} => slot'[caller'[d].req.slot].status = "wait"
          /\ caller'[d].pc = "return" => slot'[caller'[d].req.slot].status = "done"
    <3> SUFFICES ASSUME NEW d \in Caller, d # c, Opener(d)
                 PROVE  /\ caller[d].pc \in {"send", "failed"} => slot[caller[d].req.slot].status = "wait"
                        /\ caller[d].pc = "return" => slot[caller[d].req.slot].status = "done"
      BY <1>2, <1>4
    <3> QED BY <2>1 DEF OpenerInv
  <2>4. \A j \in Slot : slot'[j].status = "done" /\ NotClosing(j)' => NotClosing(j)
    <3> SUFFICES ASSUME NEW j \in Slot, NotClosing(j)', NEW d \in Caller,
                        Busy(d), caller[d].req.slot = j, caller[d].req.kind = "close", d # c
                 PROVE  caller[d].pc \in {"send", "failed", "return"}
      BY <1>2 DEF NotClosing
    <3>1. Busy(d)' /\ caller'[d] = caller[d]
      BY <1>2, <1>4
    <3> QED BY <3>1 DEF NotClosing
  <2> QED BY <1>2, <1>4, <2>2, <2>3, <2>4, CallerGood
<1> QED BY <1>9, <1>10

-----------------------------------------------------------------------------
(* A request is put on the line.                                            *)

LEMMA TransmitNInv ==
  ASSUME NInv, NEW c \in Caller, Transmit(c)
  PROVE  LineInv' /\ GoodInv'
<1>0. Types /\ Types' /\ requests \in Seq(Request)
  BY TransmitStep DEF NInv, OInv, TInv, Types
<1>1. PICK r \in Request : r = caller[c].req /\ r.slot \in Slot /\ r.kind \in Kind
  BY <1>0, ReqSlot
<1>2. /\ UNCHANGED <<slot, sem, result, session, handler, answers, open, reply, crossed, held, stale>>
      /\ caller[c].pc = "send" /\ caller'[c].pc = "sent" /\ caller'[c].req = r
      /\ \A d \in Caller : d # c => caller'[d] = caller[d]
      /\ Len(requests') = Len(requests) + 1 /\ Len(requests) \in Nat
      /\ requests'[Len(requests) + 1] = r
      /\ \A p \in 1 .. Len(requests) : requests'[p] = requests[p]
  BY <1>0, <1>1, TransmitStep DEF Quietly
<1>3. PICK last \in Nat : /\ LineLen = last /\ LineLen' = last + 1
                          /\ \A p \in 1 .. last : Item(p)' = Item(p)
                          /\ Item(last + 1)' = r
  <2>1. \E last \in Nat : /\ LineLen = last /\ LineLen' = last + 1
                          /\ \A p \in 1 .. last : Item(p)' = Item(p)
                          /\ Item(last + 1)' = caller[c].req
    BY <1>0, TransmitLine
  <2> QED BY <1>1, <2>1
<1>4. /\ Busy(c) /\ (Good' <=> Good) /\ (\A i, k : Quiet(i, k)' <=> Quiet(i, k))
      /\ (\A s : Named(s)' <=> Named(s)) /\ (\A s : Stored(s)' <=> Stored(s))
      /\ \A d \in Caller : /\ (Opener(d)' <=> Opener(d)) /\ (User(d)' <=> User(d)) /\ (Busy(d)' <=> Busy(d))
                           /\ caller'[d].req = caller[d].req
                           /\ (Woken(d)' => Woken(d) /\ d # c)
      /\ \A d \in Caller : \A i, k : Awaits(d, i, k) => Awaits(d, i, k)' /\ d # c
  BY <1>1, <1>2 DEF Busy, Opener, User, Good, Quiet, Named, Stored, Woken, Awaits
\* No other call of the kind is under way, and none that closes the slot.
<1>5. ASSUME NEW d \in Caller, d # c, Busy(d), caller[d].req.slot = r.slot
      PROVE  /\ caller[d].req.kind # r.kind
             /\ caller[d].req.kind = "close" => r.kind \in Opening
  BY <1>1, <1>4, <1>5, OneAwaits
<1>6. \A k : Good /\ k = "close" => Quiet(r.slot, k)
  <2>1. Good => <<r.slot, "close">> \notin stale
    BY Kinds DEF Good
  <2> QED BY <2>1 DEF Quiet
<1>7. \A p \in 1 .. last + 1 : p \in 1 .. last \/ p = last + 1
  OBVIOUS
<1>8. NamedInv'
  <2>1. r.call > 0 /\ (r.kind \in Opening => Named(r) /\ r.fd = NoFd)
    <3>1. r.call > 0
      BY <1>1, <1>4 DEF NInv, OInv, SessionInv
    <3>2. ASSUME r.kind \in Opening PROVE Named(r) /\ r.fd = NoFd
      <4>1. Opener(c)
        BY <1>1, <1>4, <3>2 DEF Opener
      <4>2. r.session \in 1 .. session /\ slot[r.slot].session = r.session
        BY <1>1, <4>1 DEF NInv, OInv, TInv, UsedInv, SessionInv
      <4>3. \A j \in Slot : slot[j].session = r.session => j = r.slot
        BY <1>1, <4>2 DEF NInv, OInv, SessionInv
      <4> QED BY <1>1, <4>1, <4>2, <4>3 DEF Named, NInv, LineInv, NamedInv
    <3> QED BY <3>1, <3>2
  <2>2. ASSUME NEW p \in 1 .. LineLen'
        PROVE  Item(p)'.call > 0 /\ (Item(p)'.kind \in Opening => Named(Item(p))')
    <3>1. CASE p = last + 1
      BY <1>2, <1>3, <2>1, <3>1 DEF Named
    <3>2. CASE p \in 1 .. last
      BY <1>2, <1>3, <3>2 DEF NInv, LineInv, NamedInv, Named
    <3> QED BY <1>3, <1>7, <3>1, <3>2
  <2>3. handler'.pc # "rest" /\ handler'.answer.kind \in Opening => Named(handler.answer)'
    BY <1>2 DEF NInv, LineInv, NamedInv, Named
  <2>4. \A p \in 1 .. Len(requests') : requests'[p].kind \in Opening => requests'[p].fd = NoFd
    BY <1>2, <2>1 DEF NInv, LineInv, NamedInv
  <2>5. \A d \in Caller : Opener(d)' => caller'[d].req.fd = NoFd
    BY <1>4 DEF NInv, LineInv, NamedInv
  <2> QED BY <2>2, <2>3, <2>4, <2>5 DEF NamedInv
<1>9. AwaitInv'
  <2> SUFFICES ASSUME NEW p \in 1 .. last + 1, Quiet(Item(p).slot, Item(p).kind)'
               PROVE  \E d \in Caller : /\ Awaits(d, Item(p).slot, Item(p).kind)'
                                        /\ caller'[d].req.call = Item(p)'.call
    BY <1>3 DEF AwaitInv
  <2>1. CASE p = last + 1
    BY <1>2, <1>3, <2>1 DEF Awaits
  <2>2. CASE p \in 1 .. last
    <3>1. Quiet(Item(p).slot, Item(p).kind)
      BY <1>2, <1>3, <2>2 DEF Quiet, Good
    <3>2. PICK d \in Caller : /\ Awaits(d, Item(p).slot, Item(p).kind)
                              /\ caller[d].req.call = Item(p).call
      BY <1>3, <2>2, <3>1 DEF NInv, LineInv, AwaitInv
    <3>3. d # c /\ caller'[d] = caller[d]
      BY <1>2, <3>2 DEF Awaits
    <3> QED BY <1>3, <2>2, <3>2, <3>3 DEF Awaits
  <2> QED BY <1>7, <2>1, <2>2
<1>10. PairInv'
  <2> SUFFICES ASSUME NEW p \in 1 .. last + 1, NEW q \in 1 .. last + 1, p < q, Clash(Item(p), Item(q))'
               PROVE  FALSE
    BY <1>3 DEF PairInv
  <2>0. p \in 1 .. last /\ Item(p)' = Item(p)
    BY <1>3
  <2>1. CASE q \in 1 .. last
    <3>1. Clash(Item(p), Item(q))
      BY <1>2, <1>3, <2>0, <2>1 DEF Clash, Quiet, Good
    <3> QED BY <1>3, <2>0, <2>1, <3>1 DEF NInv, LineInv, PairInv
  <2>2. CASE q = last + 1
    <3>1. Clash(Item(p), r)
      BY <1>2, <1>3, <2>0, <2>2 DEF Clash, Quiet, Good
    <3>2. Quiet(Item(p).slot, Item(p).kind)
      BY <1>6, <3>1 DEF Clash
    <3>3. PICK d \in Caller : Awaits(d, Item(p).slot, Item(p).kind)
      BY <1>3, <2>0, <3>2 DEF NInv, LineInv, AwaitInv
    <3>4. d # c /\ Busy(d) /\ caller[d].req.slot = r.slot /\ caller[d].req.kind = Item(p).kind
      BY <1>2, <3>1, <3>3 DEF Awaits, Busy, Clash
    <3> QED BY <1>5, <3>1, <3>4 DEF Clash
  <2> QED BY <1>7, <2>1, <2>2
<1>11. SemInv'
  <2> SUFFICES ASSUME NEW i \in Slot, NEW k \in Kind, Quiet(i, k), sem[i][k] > 0
               PROVE  /\ sem[i][k] = 1
                      /\ \E d \in Caller : Awaits(d, i, k)' /\ caller'[d].req.call = result[i][k]
                      /\ \A p \in 1 .. LineLen' : Item(p)'.slot = i =>
                           Item(p)'.kind # k /\ (k = "close" => Item(p)'.kind \in Opening)
    BY <1>2, <1>4 DEF SemInv
  <2>1. /\ sem[i][k] = 1
        /\ \E d \in Caller : Awaits(d, i, k) /\ caller[d].req.call = result[i][k]
        /\ \A p \in 1 .. LineLen : Item(p).slot = i =>
             Item(p).kind # k /\ (k = "close" => Item(p).kind \in Opening)
    BY DEF NInv, LineInv, SemInv
  <2>2. PICK d \in Caller : Awaits(d, i, k) /\ caller[d].req.call = result[i][k]
    BY <2>1
  <2>3. Awaits(d, i, k)' /\ d # c /\ Busy(d) /\ caller[d].req.slot = i /\ caller[d].req.kind = k
    BY <1>4, <2>2 DEF Awaits, Busy
  <2>4. r.slot = i => r.kind # k /\ (k = "close" => r.kind \in Opening)
    BY <1>5, <2>3
  <2>5. \A p \in 1 .. LineLen' : Item(p)'.slot = i =>
          Item(p)'.kind # k /\ (k = "close" => Item(p)'.kind \in Opening)
    BY <1>3, <1>7, <2>1, <2>4
  <2> QED BY <1>4, <2>1, <2>2, <2>3, <2>5
<1>12. WokenInv'
  <2> SUFFICES ASSUME NEW d \in Caller, Woken(d)'
               PROVE  /\ Quiet(caller[d].req.slot, caller[d].req.kind)' =>
                           result'[caller'[d].req.slot][caller'[d].req.kind] = caller'[d].req.call
                      /\ Good' /\ caller'[d].req.kind = "close" =>
                           \A p \in 1 .. LineLen' :
                             Item(p)'.slot = caller'[d].req.slot => Item(p)'.kind \in Opening
    BY DEF WokenInv
  <2>1. Woken(d) /\ d # c /\ caller'[d] = caller[d] /\ Busy(d)
    BY <1>2, <1>4 DEF Woken, Busy
  <2>2. Quiet(caller[d].req.slot, caller[d].req.kind)' => Quiet(caller[d].req.slot, caller[d].req.kind)
    BY <1>4, <2>1 DEF Quiet
  <2>3. caller[d].req.kind = "close" /\ r.slot = caller[d].req.slot => r.kind \in Opening
    BY <1>5, <2>1
  <2>4. /\ Quiet(caller[d].req.slot, caller[d].req.kind) =>
             result[caller[d].req.slot][caller[d].req.kind] = caller[d].req.call
        /\ Good /\ caller[d].req.kind = "close" =>
             \A p \in 1 .. LineLen : Item(p).slot = caller[d].req.slot => Item(p).kind \in Opening
    BY <2>1 DEF NInv, LineInv, WokenInv
  <2>5. ASSUME Good, caller[d].req.kind = "close"
        PROVE  \A p \in 1 .. LineLen' : Item(p)'.slot = caller[d].req.slot => Item(p)'.kind \in Opening
    BY <1>3, <1>7, <2>3, <2>4, <2>5
  <2> QED BY <1>2, <1>4, <2>1, <2>2, <2>4, <2>5
<1>13. HandInv'
  BY <1>2 DEF NInv, LineInv, HandInv, Good, Quiet
<1>14. OpeningInv'
  <2> SUFFICES ASSUME NEW i \in Slot, slot[i].status # "idle", \A k \in Opening : <<i, k>> \notin stale
               PROVE  i \in held \/ \E d \in Caller : Opener(d)' /\ caller'[d].req.slot = i
    BY <1>2 DEF OpeningInv
  <2> QED BY <1>4 DEF NInv, LineInv, OpeningInv
<1>15. LineInv'
  BY <1>8, <1>9, <1>10, <1>11, <1>12, <1>13, <1>14 DEF LineInv
<1>16. GoodInv'
  <2> SUFFICES ASSUME Good PROVE DoneInv' /\ OpenerInv' /\ ToSlotInv' /\ OpenInv'
    BY <1>4 DEF GoodInv
  <2>1. DoneInv /\ OpenerInv /\ ToSlotInv /\ OpenInv
    BY DEF NInv, GoodInv
  <2>2. DoneInv'
    BY <1>2, <2>1 DEF DoneInv
  <2>3. OpenerInv'
    <3>1. ASSUME NEW d \in Caller, Opener(d)'
          PROVE  /\ caller'[d].pc \in {"send", "failed"} => slot[caller'[d].req.slot].status = "wait"
                 /\ caller'[d].pc = "return" => slot[caller'[d].req.slot].status = "done"
      <4>1. CASE d = c
        BY <1>2, <4>1
      <4>2. CASE d # c
        BY <1>2, <1>4, <2>1, <3>1, <4>2 DEF OpenerInv
      <4> QED BY <4>1, <4>2
    <3> QED BY <1>2, <2>1, <3>1 DEF OpenerInv
  <2>4. ToSlot(r)
    <3>1. CASE r.kind \in Opening
      <4>1. Opener(c)
        BY <1>1, <1>4, <3>1 DEF Opener
      <4>2. slot[r.slot].session = r.session /\ slot[r.slot].status = "wait"
        BY <1>1, <1>2, <2>1, <4>1 DEF NInv, OInv, SessionInv, OpenerInv
      <4> QED BY <3>1, <4>2 DEF ToSlot
    <3>2. CASE r.kind \notin Opening
      BY <1>1, <1>2, <1>4, <2>1, <3>2 DEF ToSlotInv, User
    <3> QED BY <3>1, <3>2
  <2>5. ToSlotInv'
    <3>1. ASSUME NEW p \in 1 .. LineLen' PROVE ToSlot(Item(p))'
      <4>1. PICK s : s = Item(p)' /\ ToSlot(s)
        BY <1>3, <1>7, <2>1, <2>4 DEF ToSlotInv
      <4>2. Stored(s)' <=> Stored(s)
        BY <1>4
      <4>3. Stored(Item(p))' <=> Stored(s)'
        BY <4>1 DEF Stored
      <4> QED BY <1>2, <4>1, <4>2, <4>3 DEF ToSlot
    <3>2. ASSUME NEW d \in Caller, User(d)', caller'[d].pc = "send" PROVE ToSlot(caller[d].req)'
      <4>1. d # c /\ User(d) /\ caller'[d] = caller[d]
        BY <1>2, <1>4, <3>2
      <4>2. ToSlot(caller[d].req)
        BY <2>1, <3>2, <4>1 DEF ToSlotInv
      <4> QED BY <1>2, <4>1, <4>2 DEF ToSlot, User
    <3> QED BY <3>1, <3>2 DEF ToSlotInv
  <2>6. OpenInv'
    <3>1. \A i \in Slot : NotClosing(i)' => NotClosing(i)
      <4> SUFFICES ASSUME NEW i \in Slot, NotClosing(i)', NEW d \in Caller,
                          Busy(d), caller[d].req.slot = i, caller[d].req.kind = "close"
                   PROVE  caller[d].pc \in {"send", "failed", "return"}
        BY DEF NotClosing
      <4> QED BY <1>2, <1>4 DEF NotClosing
    <3>2. \A i \in Slot : slot'[i].status = "done" /\ slot'[i].fd # NoFd /\ NotClosing(i)'
                           => open'[slot'[i].fd] = slot'[i].session
      BY <1>2, <2>1, <3>1 DEF OpenInv
    <3>3. r.kind \notin Opening => open[r.fd] = r.session
      <4> SUFFICES ASSUME r.kind \notin Opening PROVE open[r.fd] = r.session
        OBVIOUS
      <4>1. slot[r.slot].session = r.session /\ slot[r.slot].status = "done" /\ slot[r.slot].fd = r.fd
            /\ r.fd # NoFd
        BY <2>4 DEF ToSlot
      <4>2. NotClosing(r.slot)
        BY <1>2, <1>5 DEF NotClosing
      <4> QED BY <1>1, <2>1, <4>1, <4>2 DEF OpenInv
    <3>4. \A p \in 1 .. Len(requests') : requests'[p].kind \notin Opening =>
            open'[requests'[p].fd] = requests'[p].session
      BY <1>2, <2>1, <3>3 DEF OpenInv
    <3>5. ASSUME NEW p \in 1 .. LineLen', Item(p)'.kind \in Opening, Item(p)'.fd # NoFd
          PROVE  Stored(Item(p))' \/ open'[Item(p)'.fd] = Item(p)'.session
      <4>1. r.kind \in Opening => r.fd = NoFd
        BY <1>1, <1>4 DEF NInv, LineInv, NamedInv, Opener
      <4>2. p \in 1 .. last /\ Item(p)' = Item(p)
        BY <1>3, <1>7, <3>5, <4>1
      <4>3. Stored(Item(p)) \/ open[Item(p).fd] = Item(p).session
        BY <1>3, <2>1, <3>5, <4>2 DEF OpenInv
      <4> QED BY <1>2, <4>2, <4>3 DEF Stored
    <3> QED BY <3>2, <3>4, <3>5 DEF OpenInv
  <2> QED BY <2>2, <2>3, <2>5, <2>6
<1> QED BY <1>15, <1>16

-----------------------------------------------------------------------------
(* An answer is stored in its slot.                                        *)

\* The receiving thread has the first item of the line in its hands.
LEMMA InHand ==
  ASSUME NInv, handler.pc # "rest", handler.at = handler.answer.slot
  PROVE  HandLen = 1 /\ 1 \in 1 .. LineLen /\ Item(1) = handler.answer
<1>0. Types /\ handler.at \in 0 .. FD_SIZE_MAX
  BY HandlerFields DEF NInv, OInv, TInv, Types
<1>1. HandLen = 1
  BY <1>0, SlotIs DEF HandLen
<1>2. PICK d \in {0, 1}, n \in Nat, m \in Nat :
        d = PendLen /\ n = Len(answers) /\ m = Len(requests)
  BY <1>0, Lens
<1> QED BY <1>1, <1>2 DEF LineLen, Item

\* A kind that opens sockets is not stale while Good, nor is closing.
LEMMA GoodQuiet ==
  ASSUME Good, NEW i, NEW k, k \in Opening \/ k = "close"
  PROVE  Quiet(i, k)
<1>1. <<i, k>> \notin stale
  BY Kinds DEF Good
<1> QED BY <1>1 DEF Quiet

LEMMA StoreNInv ==
  ASSUME NInv, Store
  PROVE  LineInv' /\ GoodInv'
<1>0. Types /\ Types' /\ PlaceInv
  BY StoreStep DEF NInv, OInv, TInv
<1>1. PICK i \in Slot, r \in Request : i = handler.at /\ r = handler.answer /\ r.slot \in Slot /\ r.kind \in Kind
  <2>1. handler.at \in Slot
    BY <1>0, StoreStep
  <2>2. handler.answer \in Request /\ handler.answer.slot \in Slot /\ handler.answer.kind \in Kind
    BY <1>0, HandlerFields, RequestFields DEF Types
  <2> QED BY <2>1, <2>2
<1>2. /\ handler.pc = "store" /\ handler'.pc = "post" /\ handler'.at = i /\ handler'.answer = r
      /\ \A j \in Slot : j # i \/ r.kind \notin Opening => slot'[j] = slot[j]
      /\ \A j \in Slot : slot'[j].session = slot[j].session
      /\ result'[i][r.kind] = r.call
      /\ \A j \in Slot, k \in Kind : <<j, k>> # <<i, r.kind>> => result'[j][k] = result[j][k]
      /\ UNCHANGED <<sem, session, caller, requests, answers, open, reply, held, calls, stale>>
  <2> HIDE DEF Types, PlaceInv
  <2> QED BY <1>0, <1>1, StoreStep
<1>3. r.kind \in Opening => slot'[i] = [status |-> "done", session |-> slot[i].session, fd |-> r.fd]
  <2> HIDE DEF Types, PlaceInv
  <2> QED BY <1>0, <1>1, StoreStep
<1>4. r.kind \in Opening => slot'[i].status = "done" /\ slot'[i].fd = r.fd
  BY <1>3
<1>5. crossed' = \/ crossed
                 \/ /\ r.kind \in Opening
                    /\ \E j \in Slot \ {i} : slot[j].status = "done" /\ slot[j].fd = r.fd
  BY <1>1 DEF Store
<1>6. LineLen' = LineLen /\ \A p : Item(p)' = Item(p)
  <2>1. handler'.pc # "rest" <=> handler.pc # "rest"
    BY <1>2
  <2>2. handler'.answer = handler.answer /\ handler'.at = handler.at
    BY <1>1, <1>2
  <2> QED BY <1>0, <1>2, <2>1, <2>2, LineUnchanged
<1>7. (Good' => Good) /\ \A j, k : Quiet(j, k)' => Quiet(j, k)
  BY <1>2, <1>5 DEF Good, Quiet
<1>8. r.kind \in Opening \/ Good => i = r.slot /\ 1 \in 1 .. LineLen /\ Item(1) = r
  <2>1. r.kind \in Opening \/ Good => i = r.slot
    BY <1>1, <1>2 DEF NInv, LineInv, HandInv
  <2> QED BY <1>1, <1>2, <2>1, InHand
<1>9. \A j : Quiet(j, r.kind) => r.kind \in Opening \/ Good
  BY DEF Quiet
\* Somebody waits for it.
<1>10. Quiet(i, r.kind) => \E d \in Caller : Awaits(d, i, r.kind)
  BY <1>8, <1>9 DEF NInv, LineInv, AwaitInv
<1>11. NamedInv'
  <2>1. \A s : Named(s)' <=> Named(s)
    BY <1>2 DEF Named
  <2>2. ASSUME NEW p \in 1 .. LineLen'
        PROVE  Item(p)'.call > 0 /\ (Item(p)'.kind \in Opening => Named(Item(p))')
    BY <1>2, <1>6 DEF NInv, LineInv, NamedInv, Named
  <2>3. handler'.pc # "rest" /\ handler'.answer.kind \in Opening => Named(handler.answer)'
    BY <1>1, <1>2 DEF NInv, LineInv, NamedInv, Named
  <2> QED BY <1>2, <2>2, <2>3 DEF NInv, LineInv, NamedInv, Opener, Busy
<1>12. AwaitInv'
  <2> SUFFICES ASSUME NEW p \in 1 .. LineLen, Quiet(Item(p).slot, Item(p).kind)'
               PROVE  \E d \in Caller : /\ Awaits(d, Item(p).slot, Item(p).kind)'
                                        /\ caller'[d].req.call = Item(p)'.call
    BY <1>6 DEF AwaitInv
  <2>1. Quiet(Item(p).slot, Item(p).kind)
    BY <1>2, <1>6, <1>7 DEF Quiet
  <2> QED BY <1>2, <1>6, <2>1 DEF NInv, LineInv, AwaitInv, Awaits
<1>13. PairInv'
  <2> SUFFICES ASSUME NEW p \in 1 .. LineLen, NEW q \in 1 .. LineLen, p < q, Clash(Item(p), Item(q))'
               PROVE  FALSE
    BY <1>6 DEF PairInv
  <2>1. Clash(Item(p), Item(q))
    BY <1>2, <1>6, <1>7 DEF Clash, Quiet
  <2> QED BY <2>1 DEF NInv, LineInv, PairInv
<1>14. SemInv'
  <2> SUFFICES ASSUME NEW j \in Slot, NEW k \in Kind, Quiet(j, k)', sem[j][k] > 0
               PROVE  /\ sem[j][k] = 1
                      /\ \E d \in Caller : Awaits(d, j, k)' /\ caller'[d].req.call = result'[j][k]
                      /\ \A p \in 1 .. LineLen : Item(p).slot = j =>
                           Item(p).kind # k /\ (k = "close" => Item(p).kind \in Opening)
    BY <1>2, <1>6 DEF SemInv
  <2>1. Quiet(j, k)
    BY <1>7
  <2>2. /\ sem[j][k] = 1
        /\ \E d \in Caller : Awaits(d, j, k) /\ caller[d].req.call = result[j][k]
        /\ \A p \in 1 .. LineLen : Item(p).slot = j =>
             Item(p).kind # k /\ (k = "close" => Item(p).kind \in Opening)
    BY <2>1 DEF NInv, LineInv, SemInv
  <2>3. <<j, k>> # <<i, r.kind>>
    BY <1>8, <1>9, <2>1, <2>2
  <2>4. result'[j][k] = result[j][k]
    BY <1>2, <2>3
  <2> QED BY <1>2, <2>2, <2>4 DEF Awaits
<1>15. WokenInv'
  <2> SUFFICES ASSUME NEW c \in Caller, Woken(c)
               PROVE  /\ Quiet(caller[c].req.slot, caller[c].req.kind)' =>
                           result'[caller[c].req.slot][caller[c].req.kind] = caller[c].req.call
                      /\ Good' /\ caller[c].req.kind = "close" =>
                           \A p \in 1 .. LineLen :
                             Item(p).slot = caller[c].req.slot => Item(p).kind \in Opening
    BY <1>2, <1>6 DEF WokenInv, Woken
  <2>1. /\ Quiet(caller[c].req.slot, caller[c].req.kind) =>
             result[caller[c].req.slot][caller[c].req.kind] = caller[c].req.call
        /\ Good /\ caller[c].req.kind = "close" =>
             \A p \in 1 .. LineLen : Item(p).slot = caller[c].req.slot => Item(p).kind \in Opening
    BY DEF NInv, LineInv, WokenInv
  <2>2. ASSUME Quiet(caller[c].req.slot, caller[c].req.kind)'
        PROVE  result'[caller[c].req.slot][caller[c].req.kind] = caller[c].req.call
    <3>1. Quiet(caller[c].req.slot, caller[c].req.kind)
      BY <1>2, <1>7, <2>2 DEF Quiet
    <3>2. <<caller[c].req.slot, caller[c].req.kind>> # <<i, r.kind>>
      <4> SUFFICES ASSUME caller[c].req.slot = i, caller[c].req.kind = r.kind PROVE FALSE
        OBVIOUS
      <4>1. PICK d \in Caller : Awaits(d, i, r.kind)
        BY <1>10, <3>1
      <4>2. d = c
        BY <4>1, OneAwaits DEF Awaits, Busy, Woken
      <4> QED BY <4>1, <4>2 DEF Awaits, Woken
    <3>3. caller[c].req.slot \in Slot /\ caller[c].req.kind \in Kind
      BY <1>0, ReqSlot
    <3> QED BY <1>2, <2>1, <3>1, <3>2, <3>3
  <2> QED BY <1>7, <2>1, <2>2
<1>16. HandInv'
  <2>1. Quiet(r.slot, r.kind)' => result'[r.slot][r.kind] = r.call
    BY <1>2, <1>7, <1>8, <1>9
  <2>2. (r.kind \in Opening \/ Good') => i = r.slot
    BY <1>7, <1>8
  <2>3. Good' /\ r.kind \notin Opening =>
          \A j \in Slot : slot'[j].status = "done" /\ slot'[j].fd = r.fd => j = r.slot
    BY <1>1, <1>2, <1>7 DEF NInv, LineInv, HandInv
  <2>4. Quiet(handler.answer.slot, handler.answer.kind)' => Quiet(r.slot, r.kind)'
    BY <1>2 DEF Quiet
  <2> QED BY <1>2, <2>1, <2>2, <2>3, <2>4 DEF HandInv
<1>17. OpeningInv'
  <2> SUFFICES ASSUME NEW j \in Slot, slot'[j].status # "idle", \A k \in Opening : <<j, k>> \notin stale,
                      j \notin held
               PROVE  \E d \in Caller : Opener(d) /\ caller[d].req.slot = j
    BY <1>2 DEF OpeningInv, Opener, Busy
  <2>1. CASE slot'[j] = slot[j]
    BY <2>1 DEF NInv, LineInv, OpeningInv
  <2>2. CASE j = i /\ r.kind \in Opening
    <3>1. Quiet(i, r.kind)
      BY <2>2 DEF Quiet
    <3>2. PICK d \in Caller : Awaits(d, i, r.kind)
      BY <1>10, <3>1
    <3> QED BY <2>2, <3>2 DEF Awaits, Opener, Busy
  <2> QED BY <1>2, <2>1, <2>2
<1>18. LineInv'
  BY <1>11, <1>12, <1>13, <1>14, <1>15, <1>16, <1>17 DEF LineInv
<1>19. GoodInv'
  <2> SUFFICES ASSUME Good' PROVE DoneInv' /\ OpenerInv' /\ ToSlotInv' /\ OpenInv'
    BY DEF GoodInv
  <2>1. Good /\ i = r.slot /\ 1 \in 1 .. LineLen /\ Item(1) = r
    BY <1>7, <1>8
  <2>2. DoneInv /\ OpenerInv /\ ToSlotInv /\ OpenInv
    BY <2>1 DEF NInv, GoodInv
  <2>3. \A s : ~Stored(s)
    BY <1>2 DEF Stored
  <2>4. \A j \in Slot \ {i} : r.kind \in Opening /\ slot[j].status = "done" => slot[j].fd # r.fd
    BY <1>5 DEF Good
  \* The slot that is opened.
  <2>5. r.kind \in Opening =>
          /\ slot[i].status = "wait" /\ slot[i].session = r.session /\ slot[i].session > 0
          /\ \A d \in Caller : Opener(d) /\ caller[d].req.slot = i => Awaits(d, i, r.kind)
    <3> SUFFICES ASSUME r.kind \in Opening
                 PROVE  /\ slot[i].status = "wait" /\ slot[i].session = r.session /\ slot[i].session > 0
                        /\ \A d \in Caller : Opener(d) /\ caller[d].req.slot = i => Awaits(d, i, r.kind)
      OBVIOUS
    <3>1. ToSlot(r) /\ Named(r)
      BY <2>1, <2>2 DEF ToSlotInv, NInv, LineInv, NamedInv
    <3>2. slot[i].status = "wait" /\ slot[i].session = r.session
      BY <2>1, <2>3, <3>1 DEF ToSlot
    <3>3. slot[i].session > 0
      BY <1>0, <3>1, <3>2 DEF Named, Types
    <3>4. Quiet(i, r.kind)
      BY <2>1, GoodQuiet
    <3>5. PICK d \in Caller : Awaits(d, i, r.kind)
      BY <1>10, <3>4
    <3>6. \A e \in Caller : Opener(e) /\ caller[e].req.slot = i => e = d
      BY <3>5 DEF NInv, OInv, OwnInv, OneOpener, Opener, Awaits, Busy
    <3> QED BY <3>2, <3>3, <3>5, <3>6
  <2>6. DoneInv'
    <3>1. CASE r.kind \in Opening
      <4>1. \A j, l \in Slot : j # l /\ slot'[j].status = "done" /\ slot'[l].status = "done"
                                 => slot'[j].fd # slot'[l].fd
        BY <1>2, <1>4, <2>2, <2>4, <3>1 DEF DoneInv
      <4>2. \A j \in Slot : slot'[j].status = "done" => slot'[j].session > 0
        BY <1>2, <2>2, <2>5, <3>1 DEF DoneInv
      <4>3. \A j \in held' : slot'[j].status = "done"
        BY <1>0, <1>2, <1>4, <2>2, <3>1 DEF DoneInv, Types
      <4> QED BY <4>1, <4>2, <4>3 DEF DoneInv
    <3>2. CASE r.kind \notin Opening
      <4>1. held \subseteq Slot
        BY <1>0 DEF Types
      <4> QED BY <1>2, <2>2, <3>2, <4>1 DEF DoneInv
    <3> QED BY <3>1, <3>2
  <2>7. OpenerInv'
    <3>1. ASSUME NEW d \in Caller, Opener(d)
          PROVE  /\ caller[d].pc \in {"send", "failed"} => slot'[caller[d].req.slot].status = "wait"
                 /\ caller[d].pc = "return" => slot'[caller[d].req.slot].status = "done"
      <4>1. CASE r.kind \in Opening /\ caller[d].req.slot = i
        <5>1. Awaits(d, i, r.kind)
          BY <2>5, <3>1, <4>1
        <5> QED BY <5>1 DEF Awaits
      <4>2. CASE ~(r.kind \in Opening /\ caller[d].req.slot = i)
        <5>1. slot'[caller[d].req.slot] = slot[caller[d].req.slot]
          BY <1>0, <1>2, <4>2, ReqSlot
        <5> QED BY <2>2, <3>1, <5>1 DEF OpenerInv
      <4> QED BY <4>1, <4>2
    <3>2. \A j \in Slot, k \in Opening : sem[j][k] > 0 => slot'[j].status = "done"
      BY <1>2, <1>4, <2>2 DEF OpenerInv
    <3>3. r.kind \in Opening => slot'[r.slot].status = "done"
      BY <1>4, <2>1
    <3> QED BY <1>2, <3>1, <3>2, <3>3 DEF OpenerInv, Opener, Busy
  <2>8. ToSlotInv'
    <3>1. ASSUME NEW p \in 1 .. LineLen PROVE ToSlot(Item(p))'
      <4>1. PICK s \in Request : s = Item(p) /\ s.slot \in Slot
        BY <1>0, ItemType, RequestFields
      <4>2. ToSlot(s)
        BY <2>2, <4>1 DEF ToSlotInv
      <4>3. ToSlot(s)'
        <5>1. CASE r.kind \in Opening /\ s.slot = i
          <6>1. s.kind \in Opening
            BY <2>5, <4>2, <5>1 DEF ToSlot
          <6>2. PICK d \in Caller : Awaits(d, i, s.kind)
            BY <2>1, <4>1, <5>1, <6>1, GoodQuiet DEF NInv, LineInv, AwaitInv
          <6>3. Awaits(d, i, r.kind)
            BY <2>5, <5>1, <6>1, <6>2 DEF Awaits, Opener, Busy
          <6>4. s.kind = r.kind
            BY <6>2, <6>3 DEF Awaits
          <6>5. Stored(s)'
            BY <1>2, <2>1, <5>1, <6>4 DEF Stored
          <6> QED BY <1>2, <4>1, <4>2, <6>1, <6>5 DEF ToSlot
        <5>2. CASE ~(r.kind \in Opening /\ s.slot = i)
          <6>1. slot'[s.slot] = slot[s.slot]
            BY <1>2, <4>1, <5>2
          <6> QED BY <2>3, <4>2, <6>1 DEF ToSlot
        <5> QED BY <5>1, <5>2
      <4>4. Item(p)' = s
        BY <1>6, <4>1
      <4>5. Stored(Item(p))' <=> Stored(s)'
        BY <4>4 DEF Stored
      <4> QED BY <4>3, <4>4, <4>5 DEF ToSlot
    <3>2. ASSUME NEW d \in Caller, User(d), caller[d].pc = "send" PROVE ToSlot(caller[d].req)'
      <4>1. ToSlot(caller[d].req) /\ caller[d].req.slot \in Slot /\ caller[d].req.kind \notin Opening
        BY <1>0, <2>2, <3>2, ReqSlot DEF ToSlotInv, User
      <4>2. slot'[caller[d].req.slot] = slot[caller[d].req.slot]
        BY <1>2, <2>5, <4>1 DEF ToSlot
      <4> QED BY <1>2, <4>1, <4>2 DEF ToSlot
    <3> QED BY <1>2, <1>6, <3>1, <3>2 DEF ToSlotInv, User, Busy
  <2>9. OpenInv'
    <3>1. \A j \in Slot : NotClosing(j)' => NotClosing(j)
      BY <1>2 DEF NotClosing, Busy
    <3>2. ASSUME NEW j \in Slot, slot'[j].status = "done", slot'[j].fd # NoFd, NotClosing(j)'
          PROVE  open[slot'[j].fd] = slot'[j].session
      <4>1. CASE r.kind \in Opening /\ j = i
        <5>1. open[r.fd] = r.session
          BY <1>4, <2>1, <2>2, <2>3, <3>2, <4>1 DEF OpenInv
        <5> QED BY <1>2, <1>4, <2>5, <4>1, <5>1
      <4>2. CASE ~(r.kind \in Opening /\ j = i)
        <5>1. slot'[j] = slot[j]
          BY <1>2, <4>2
        <5> QED BY <2>2, <3>1, <3>2, <5>1 DEF OpenInv
      <4> QED BY <4>1, <4>2
    <3>3. \A p \in 1 .. LineLen : Item(p).kind \in Opening /\ Item(p).fd # NoFd
            => open[Item(p).fd] = Item(p).session
      BY <2>2, <2>3 DEF OpenInv
    <3> QED BY <1>2, <1>6, <2>2, <3>2, <3>3 DEF OpenInv
  <2> QED BY <2>6, <2>7, <2>8, <2>9
<1> QED BY <1>18, <1>19

-----------------------------------------------------------------------------
(* A caller is woken.                                                       *)

LEMMA PostNInv ==
  ASSUME NInv, Post
  PROVE  LineInv' /\ GoodInv'
<1>0. Types /\ Types' /\ PlaceInv
  BY PostStep DEF NInv, OInv, TInv
<1>1. PICK i \in Slot, r \in Request, k \in Kind :
        i = handler.at /\ r = handler.answer /\ k = r.kind /\ r.slot \in Slot
  <2>1. handler.at \in Slot
    BY <1>0, PostStep
  <2>2. handler.answer \in Request /\ handler.answer.slot \in Slot /\ handler.answer.kind \in Kind
    BY <1>0, HandlerFields, RequestFields DEF Types
  <2> QED BY <2>1, <2>2
<1>2. /\ handler.pc = "post"
      /\ sem'[i][k] = sem[i][k] + 1
      /\ \A j \in Slot, l \in Kind : <<j, l>> # <<i, k>> => sem'[j][l] = sem[j][l]
      /\ \/ k # "close" /\ handler' = Rest
         \/ k = "close" /\ handler' = [pc |-> "look", at |-> i + 1, answer |-> handler.answer]
      /\ UNCHANGED <<slot, result, session, caller, requests, answers, open, reply, held,
                     calls, stale, crossed>>
  <2> HIDE DEF Types, PlaceInv
  <2> QED BY <1>0, <1>1, PostStep
<1>3. \/ k # "close" /\ handler' = Rest /\ handler'.pc = "rest"
      \/ /\ k = "close" /\ handler'.pc = "look" /\ handler'.at = i + 1 /\ handler'.answer = r
  BY <1>1, <1>2, RestType
<1>4. /\ (Good' <=> Good) /\ (\A j, l : Quiet(j, l)' <=> Quiet(j, l))
      /\ (\A s : ~Stored(s)') /\ (\A s : Named(s)' <=> Named(s))
  BY <1>2, <1>3 DEF Good, Quiet, Stored, Named
<1>5. k \in Opening \/ Good => i = r.slot
  BY <1>1, <1>2 DEF NInv, LineInv, HandInv
<1>6. i \in Nat /\ r.slot \in Nat
  BY <1>1, SlotIs
<1>7. i = r.slot => FromLine(2) /\ 1 \in 1 .. LineLen /\ Item(1) = r
  <2> SUFFICES ASSUME i = r.slot PROVE FromLine(2) /\ 1 \in 1 .. LineLen /\ Item(1) = r
    OBVIOUS
  <2>1. HandLen = 1 /\ 1 \in 1 .. LineLen /\ Item(1) = r
    BY <1>1, <1>2, InHand
  <2>2. HandLen' = 0
    BY <1>3, <1>6 DEF HandLen
  <2> QED BY <1>0, <1>2, <2>1, <2>2, HandLine
<1>8. FromLine(1)
  <2>1. CASE i = r.slot
    BY <1>7, <2>1, FromTwoFromOne
  <2>2. CASE i # r.slot /\ k # "close"
    <3>1. HandLen' = 0
      BY <1>3, <2>2 DEF HandLen
    <3>2. CASE HandLen = 1
      BY <1>0, <1>2, <3>1, <3>2, HandLine, FromTwoFromOne
    <3>3. CASE HandLen = 0
      BY <1>0, <1>2, <3>1, <3>3, HandSame
    <3> QED BY <1>0, <3>2, <3>3, Lens
  <2>3. CASE i # r.slot /\ k = "close"
    <3>1. HandLen' = HandLen
      BY <1>1, <1>2, <1>3, <1>6, <2>3 DEF HandLen
    <3> QED BY <1>0, <1>1, <1>2, <1>3, <2>3, <3>1, HandSame
  <2> QED BY <2>1, <2>2, <2>3
\* Nothing else on the line is for the thread that is woken.
<1>9. ASSUME Quiet(i, k)
      PROVE  /\ i = r.slot
             /\ \A a \in 2 .. LineLen : Item(a).slot = i =>
                  Item(a).kind # k /\ (k = "close" => Item(a).kind \in Opening)
  <2>1. i = r.slot
    BY <1>5, <1>9 DEF Quiet
  <2>2. ASSUME NEW a \in 2 .. LineLen, Item(a).slot = i
        PROVE  Item(a).kind # k /\ (k = "close" => Item(a).kind \in Opening)
    <3>1. a \in 1 .. LineLen /\ 1 < a
      OBVIOUS
    <3>2. ~Clash(r, Item(a))
      BY <1>7, <2>1, <3>1 DEF NInv, LineInv, PairInv
    <3>3. k = "close" => Good
      BY <1>9, Kinds DEF Quiet
    <3> QED BY <1>1, <1>9, <2>1, <2>2, <3>2, <3>3 DEF Clash
  <2> QED BY <2>1, <2>2
<1>10. AwaitInv' /\ PairInv' /\ WokenInv'
  BY <1>2, <1>8, LineKept
<1>11. NamedInv'
  <2>1. \A p \in 1 .. LineLen' :
          Item(p)'.call > 0 /\ (Item(p)'.kind \in Opening => Named(Item(p))')
    BY <1>2, <1>8, LineNamed
  <2>2. ~(handler'.pc # "rest" /\ handler'.answer.kind \in Opening)
    BY <1>1, <1>3, Kinds
  <2> QED BY <1>2, <2>1, <2>2 DEF NInv, LineInv, NamedInv, Opener, Busy
<1>12. SemInv'
  <2> SUFFICES ASSUME NEW j \in Slot, NEW l \in Kind, Quiet(j, l), sem'[j][l] > 0
               PROVE  /\ sem'[j][l] = 1
                      /\ \E c \in Caller : Awaits(c, j, l) /\ caller[c].req.call = result[j][l]
                      /\ \A p \in 1 .. LineLen' : Item(p)'.slot = j =>
                           Item(p)'.kind # l /\ (l = "close" => Item(p)'.kind \in Opening)
    BY <1>2, <1>4 DEF SemInv, Awaits
  <2>1. CASE j = i /\ l = k
    <3>1. i = r.slot /\ Quiet(i, k)
      BY <1>9, <2>1
    <3>2. ~(sem[i][k] > 0)
      BY <1>1, <1>7, <3>1 DEF NInv, LineInv, SemInv
    <3>3. sem[i][k] \in Nat
      BY <1>0 DEF Types
    <3>4. \E c \in Caller : Awaits(c, i, k) /\ caller[c].req.call = r.call
      BY <1>1, <1>7, <3>1 DEF NInv, LineInv, AwaitInv
    <3>5. result[i][k] = r.call
      BY <1>1, <1>2, <3>1 DEF NInv, LineInv, HandInv
    <3>6. ASSUME NEW p \in 1 .. LineLen', Item(p)'.slot = i
          PROVE  Item(p)'.kind # k /\ (k = "close" => Item(p)'.kind \in Opening)
      <4>1. PICK a \in 2 .. LineLen : Alike(Item(p)', Item(a))
        BY <1>7, <3>1 DEF FromLine
      <4> QED BY <1>9, <3>1, <3>6, <4>1 DEF Alike
    <3> QED BY <1>2, <2>1, <3>2, <3>3, <3>4, <3>5, <3>6
  <2>2. CASE ~(j = i /\ l = k)
    <3>1. sem'[j][l] = sem[j][l]
      BY <1>2, <2>2
    <3>2. /\ sem[j][l] = 1
          /\ \E c \in Caller : Awaits(c, j, l) /\ caller[c].req.call = result[j][l]
          /\ \A p \in 1 .. LineLen : Item(p).slot = j =>
               Item(p).kind # l /\ (l = "close" => Item(p).kind \in Opening)
      BY <3>1 DEF NInv, LineInv, SemInv
    <3>3. \A p \in 1 .. LineLen' : \E a \in 1 .. LineLen :
            Item(p)'.slot = Item(a).slot /\ Item(p)'.kind = Item(a).kind
      BY <1>8 DEF FromLine, Alike
    <3> QED BY <3>1, <3>2, <3>3
  <2> QED BY <2>1, <2>2
<1>13. HandInv'
  <2>1. CASE handler'.pc = "rest"
    BY <2>1 DEF HandInv
  <2>2. CASE handler'.pc = "look" /\ handler'.answer = handler.answer
    BY <1>2, <1>4, <2>2 DEF NInv, LineInv, HandInv
  <2> QED BY <1>1, <1>3, <2>1, <2>2
<1>14. OpeningInv'
  BY <1>2 DEF NInv, LineInv, OpeningInv, Opener, Busy
<1>15. LineInv'
  BY <1>10, <1>11, <1>12, <1>13, <1>14 DEF LineInv
<1>16. GoodInv'
  <2> SUFFICES ASSUME Good PROVE DoneInv' /\ OpenerInv' /\ ToSlotInv' /\ OpenInv'
    BY <1>4 DEF GoodInv
  <2>1. DoneInv /\ OpenerInv /\ ToSlotInv /\ OpenInv /\ i = r.slot
    BY <1>5 DEF NInv, GoodInv
  <2>2. DoneInv'
    BY <1>2, <2>1 DEF DoneInv
  <2>3. OpenerInv'
    <3>1. ASSUME NEW j \in Slot, NEW l \in Opening, sem'[j][l] > 0 PROVE slot[j].status = "done"
      <4>1. CASE j = i /\ l = k
        BY <1>1, <1>2, <2>1, <4>1 DEF OpenerInv
      <4>2. CASE ~(j = i /\ l = k)
        <5>1. sem'[j][l] = sem[j][l]
          BY <1>2, <4>2, Kinds
        <5> QED BY <2>1, <3>1, <5>1 DEF OpenerInv
      <4> QED BY <4>1, <4>2
    <3>2. handler'.pc # "post"
      BY <1>3
    <3> QED BY <1>2, <2>1, <3>1, <3>2 DEF OpenerInv, Opener, Busy
  \* The answer that was stored is no longer on the line.
  <2>4. ASSUME NEW a \in 2 .. LineLen, Item(a).kind \in Opening PROVE ~Stored(Item(a))
    <3> SUFFICES ASSUME Item(a).slot = i, k \in Opening, Item(a).kind = k PROVE FALSE
      BY <1>1, <2>1, <2>4 DEF Stored
    <3>1. Quiet(i, k)
      BY GoodQuiet
    <3> QED BY <1>9, <3>1
  <2>5. \A p \in 1 .. LineLen' : \E a \in 2 .. LineLen : Alike(Item(p)', Item(a))
    BY <1>7, <2>1 DEF FromLine
  <2>6. \A a \in 2 .. LineLen : a \in 1 .. LineLen
    OBVIOUS
  <2>7. ToSlotInv'
    <3>1. ASSUME NEW p \in 1 .. LineLen' PROVE ToSlot(Item(p))'
      <4>1. PICK a \in 2 .. LineLen : Alike(Item(p)', Item(a))
        BY <2>5
      <4>2. ToSlot(Item(a)) /\ (Item(a).kind \in Opening => ~Stored(Item(a)))
        BY <2>1, <2>4, <2>6 DEF ToSlotInv
      <4> QED BY <1>2, <4>1, <4>2 DEF ToSlot, Alike
    <3>2. ASSUME NEW d \in Caller, User(d), caller[d].pc = "send" PROVE ToSlot(caller[d].req)'
      BY <1>2, <2>1, <3>2 DEF ToSlotInv, ToSlot, User
    <3> QED BY <1>2, <3>1, <3>2 DEF ToSlotInv, User, Busy
  <2>8. OpenInv'
    <3>1. ASSUME NEW p \in 1 .. LineLen', Item(p)'.kind \in Opening, Item(p)'.fd # NoFd
          PROVE  open'[Item(p)'.fd] = Item(p)'.session
      <4>1. PICK a \in 2 .. LineLen : Alike(Item(p)', Item(a))
        BY <2>5
      <4>2. Item(a).kind \in Opening /\ ~Stored(Item(a))
        BY <2>4, <3>1, <4>1 DEF Alike
      <4>3. Item(a).fd # NoFd => open[Item(a).fd] = Item(a).session
        BY <2>1, <2>6, <4>2 DEF OpenInv
      <4> QED BY <1>2, <3>1, <4>1, <4>3 DEF Alike
    <3>2. \A j \in Slot : slot'[j].status = "done" /\ slot'[j].fd # NoFd /\ NotClosing(j)'
                           => open'[slot'[j].fd] = slot'[j].session
      BY <1>2, <2>1 DEF OpenInv, NotClosing, Busy
    <3> QED BY <1>2, <2>1, <3>1, <3>2 DEF OpenInv
  <2> QED BY <2>2, <2>3, <2>7, <2>8
<1> QED BY <1>15, <1>16

-----------------------------------------------------------------------------
(* The invariant, and what it says of the network helper.                   *)

LEMMA StutterNInv ==
  ASSUME NInv, UNCHANGED vars
  PROVE  LineInv' /\ GoodInv'
<1>0. Types
  BY DEF NInv, OInv, TInv
<1>1. UNCHANGED <<slot, sem, result, session, caller, handler, requests, answers, open, reply, held,
                  stale, crossed>>
  BY DEF vars, slotVars, lineVars, serverVars, historyVars
<1>2. FromLine(1)
  BY <1>0, <1>1, LineUnchanged
<1>3. (\A r : Stored(r)' <=> Stored(r)) /\ (Good' <=> Good)
  BY <1>1 DEF Stored, Good
<1>4. HandInv'
  BY <1>1 DEF NInv, LineInv, HandInv, Good, Quiet
<1>5. handler'.pc # "rest" /\ handler'.answer.kind \in Opening => Named(handler.answer)'
  BY <1>1 DEF NInv, LineInv, NamedInv, Named
<1>6. \A p \in 1 .. Len(requests') : \E q \in 1 .. Len(requests) : requests'[p] = requests[q]
  BY <1>1
<1>7. LineInv' /\ (Good' => DoneInv' /\ OpenerInv' /\ ToSlotInv')
  BY <1>1, <1>2, <1>3, <1>4, <1>5, <1>6, LineStep
<1>8. Good => OpenInv'
  BY <1>1, <1>2, <1>3, <1>6, SameOpen
<1> QED BY <1>3, <1>7, <1>8 DEF GoodInv

LEMMA NInvNext == NInv /\ [Next]_vars => NInv'
<1> SUFFICES ASSUME NInv, [Next]_vars PROVE NInv'
  OBVIOUS
<1>0. OInv'
  BY TInvNext, OInvNext DEF NInv, OInv
<1> SUFFICES LineInv' /\ GoodInv'
  BY <1>0 DEF NInv
<1>1. ASSUME NEW c \in Caller, NEW k \in Opening, Open(c, k) PROVE LineInv' /\ GoodInv'
  BY <1>1, OpenNInv
<1>2. ASSUME NEW c \in Caller, NEW i \in Slot, NEW k \in Op \cup {"close"}, Call(c, i, k)
      PROVE  LineInv' /\ GoodInv'
  BY <1>2, CallNInv
<1>3. ASSUME NEW c \in Caller, CallerStep(c) PROVE LineInv' /\ GoodInv'
  BY <1>3, TransmitNInv, SendNInv, FailedNInv, WaitNInv, ReleaseNInv, ReturnNInv DEF CallerStep
<1>4. CASE ServerStep
  BY <1>4, ServeOpenNInv, ServeCloseNInv, ServeOtherNInv, AnswerNInv DEF ServerStep
<1>5. CASE HandlerStep
  BY <1>5, ReceiveNInv, LookNInv, StoreNInv, PostNInv DEF HandlerStep
<1>6. CASE UNCHANGED vars
  BY <1>6, StutterNInv
<1> QED BY <1>1, <1>2, <1>3, <1>4, <1>5, <1>6 DEF Next

LEMMA NInvAlways == Spec => []NInv
<1>1. Init => NInv
  BY TInvInit, OInvInit, NInvInit DEF NInv, OInv
<1>2. NInv /\ [Next]_vars => NInv'
  BY NInvNext
<1> QED BY <1>1, <1>2, PTL DEF Spec

\* The known ways of going wrong are all there are.
LEMMA NotOff ==
  ASSUME NEW i, NEW k, ~Off(i, k)
  PROVE  Good /\ Quiet(i, k)
BY DEF Off, Good, Quiet

\* A set in which any two elements are the same has at most one.
LEMMA AtMostOne ==
  ASSUME NEW S, \A x, y \in S : x = y
  PROVE  \/ S = {} /\ Cardinality(S) = 0
         \/ S # {} /\ Cardinality(S) = 1
<1>1. CASE S = {}
  BY <1>1, FS_EmptySet
<1>2. CASE S # {}
  <2>1. PICK x : x \in S
    BY <1>2
  <2>2. S = {x}
    BY <2>1
  <2> QED BY <1>2, <2>2, FS_Singleton
<1> QED BY <1>1, <1>2

LEMMA OwnedSlots == NInv => SlotsOwned
<1> SUFFICES ASSUME NInv, NEW i \in Slot
             PROVE  LET openers == UNION {Calling(i, k) : k \in Opening} IN
                    /\ Cardinality(openers) + (IF i \in held THEN 1 ELSE 0) <= 1
                    /\ slot[i].status # "idle" /\ (\A k \in Opening : <<i, k>> \notin stale)
                         => openers # {} \/ i \in held
  BY DEF SlotsOwned
<1> DEFINE openers == UNION {Calling(i, k) : k \in Opening}
<1>1. \A c : c \in openers <=> c \in Caller /\ Opener(c) /\ caller[c].req.slot = i
  BY DEF Calling, Opener, Busy
<1>2. \A c, d \in openers : c = d
  BY <1>1 DEF NInv, OInv, OwnInv, OneOpener
<1>3. i \in held => openers = {}
  BY <1>1 DEF NInv, OInv, OwnInv, Taken
<1>4. slot[i].status # "idle" /\ (\A k \in Opening : <<i, k>> \notin stale)
        => openers # {} \/ i \in held
  BY <1>1 DEF NInv, LineInv, OpeningInv
<1> HIDE DEF openers
<1>5. (openers = {} /\ Cardinality(openers) = 0) \/ (openers # {} /\ Cardinality(openers) = 1)
  BY <1>2, AtMostOne
<1>6. Cardinality(openers) + (IF i \in held THEN 1 ELSE 0) <= 1
  BY <1>3, <1>5
<1> QED BY <1>4, <1>6 DEF openers

LEMMA PostsForCallers == NInv => NoStalePost
<1> SUFFICES ASSUME NInv, NEW i \in Slot, NEW k \in Kind, ~Off(i, k)
             PROVE  sem[i][k] <= Cardinality({c \in Calling(i, k) : caller[c].pc \in {"sent", "wait"}})
  BY DEF NoStalePost
<1> DEFINE S == {c \in Calling(i, k) : caller[c].pc \in {"sent", "wait"}}
<1>1. \A c : c \in S <=> c \in Caller /\ Awaits(c, i, k)
  BY DEF Calling, Awaits
<1>2. \A c, d \in S : c = d
  BY <1>1, OneAwaits DEF Awaits, Busy
<1>3. sem[i][k] > 0 => sem[i][k] = 1 /\ S # {}
  <2>1. Quiet(i, k)
    BY NotOff
  <2> QED BY <1>1, <2>1 DEF NInv, LineInv, SemInv
<1>4. sem[i][k] \in Nat
  BY DEF NInv, OInv, TInv, Types
<1> HIDE DEF S
<1>5. (S = {} /\ Cardinality(S) = 0) \/ (S # {} /\ Cardinality(S) = 1)
  BY <1>2, AtMostOne
<1>6. sem[i][k] <= Cardinality(S)
  BY <1>3, <1>4, <1>5
<1> QED BY <1>6 DEF S

LEMMA AnswersOwned == NInv => OwnAnswer
<1> SUFFICES ASSUME NInv, NEW c \in Caller, Woken(c), ~Off(caller[c].req.slot, caller[c].req.kind)
             PROVE  result[caller[c].req.slot][caller[c].req.kind] = caller[c].req.call
  BY DEF OwnAnswer, Woken
<1>1. Quiet(caller[c].req.slot, caller[c].req.kind)
  BY NotOff
<1> QED BY <1>1 DEF NInv, LineInv, WokenInv

LEMMA SocketsOwned == NInv => OwnSocket
<1> SUFFICES ASSUME NInv, requests # <<>>, Head(requests).kind \notin Opening,
                    ~Off(Head(requests).slot, Head(requests).kind)
             PROVE  open[Head(requests).fd] = Head(requests).session
  BY DEF OwnSocket
<1>1. Good
  BY NotOff
<1>2. requests \in Seq(Request)
  BY DEF NInv, OInv, TInv, Types
<1>3. 1 \in 1 .. Len(requests) /\ Head(requests) = requests[1]
  BY <1>2, EmptySeq
<1> QED BY <1>1, <1>3 DEF NInv, GoodInv, OpenInv

\* NetHelperCliRpcSocketInit, ConnectWebSocket, Close: whatever is lost on the
\* line, a slot of g_socks is being opened by one thread or held by the
\* application but not both, and one that is not idle is one of the two, unless
\* the request that was to open it was reported as failed and arrived.
THEOREM NetSlotsOwned == Spec => []SlotsOwned
<1>1. NInv => SlotsOwned
  BY OwnedSlots
<1> QED BY <1>1, NInvAlways, PTL

\* NetHelperCliRpcReceiveCommProtocolPacket posts a semaphore of a slot only
\* for a thread that has sent the call and has yet to wait for it, in every
\* state that none of the known ways of going wrong has led to.
THEOREM NetNoStalePost == Spec => []NoStalePost
<1>1. NInv => NoStalePost
  BY PostsForCallers
<1> QED BY <1>1, NInvAlways, PTL

\* A thread that is woken reads the result of its own call from the slot.
THEOREM NetOwnAnswer == Spec => []OwnAnswer
<1>1. NInv => OwnAnswer
  BY AnswersOwned
<1> QED BY <1>1, NInvAlways, PTL

\* The server carries out a call on the socket that was opened for the slot the
\* application used.
THEOREM NetOwnSocket == Spec => []OwnSocket
<1>1. NInv => OwnSocket
  BY SocketsOwned
<1> QED BY <1>1, NInvAlways, PTL
=============================================================================
