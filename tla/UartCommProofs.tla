--------------------------- MODULE UartCommProofs ---------------------------
(* TLAPS proofs about UartComm, for any number of threads on either end,    *)
(* any number of calls, faults and restarts, and any capacity of the line.  *)
EXTENDS UartComm, SequenceTheorems, TLAPS

\* The steps between taking a sequence number and the verdict.
Numbered == {"unset", "write", "wait", "check"}

\* What the mutex protects: past Lock a thread holds it, and the packet of a
\* numbered call is the last one of its end.
LockInv ==
  \A t \in Thread :
    /\ call[t].pc \notin {"idle", "lock"} => app_send_sync_lock[Home[t]] = t
    /\ call[t].pc \in Numbered => /\ Len(log[Home[t]]) > 0
                                  /\ call[t].pkt = Len(log[Home[t]])
    /\ call[t].pc \in {"unset", "wait"} => call[t].rel

TInv == TypeOK /\ LockInv

-----------------------------------------------------------------------------
(* Facts about the operators of the model.                                 *)

LEMMA SeqNumFacts ==
  /\ 0 \in SeqNum /\ InitAckedSeq \in SeqNum
  /\ \A s \in SeqNum : (s + 1) % SeqMod \in SeqNum
  /\ \A s \in SeqNum : s \in Nat
  BY ParameterAssumption DEF SeqNum, InitAckedSeq

LEMMA FrameFacts ==
  /\ \A c \in CallRec : DataFrame(c) \in Frame
  /\ \A s \in SeqNum : AckFrame(s) \in Frame /\ NackFrame(s) \in Frame
  /\ \A f \in Frame, c \in {"sum", "len"}, s \in SeqNum, b \in SUBSET Bits :
       Noisy(f, c, s, b) \in Frame
  /\ NoCall \in CallRec /\ IdleRx \in RxRec
<1>1. \A c \in CallRec : DataFrame(c) \in Frame
  BY DEF CallRec, DataFrame, Frame, Bits
<1>2. \A s \in SeqNum : AckFrame(s) \in Frame /\ NackFrame(s) \in Frame
  BY DEF AckFrame, NackFrame, Frame, Bits
<1>3. \A f \in Frame, c \in {"sum", "len"}, s \in SeqNum, b \in SUBSET Bits :
        Noisy(f, c, s, b) \in Frame
  BY DEF Noisy, Frame
<1>4. NoCall \in CallRec /\ IdleRx \in RxRec
  BY <1>2, SeqNumFacts, ParameterAssumption DEF NoCall, IdleRx, CallRec, RxRec, CallPC
<1> QED BY <1>1, <1>2, <1>3, <1>4

\* Put adds a frame at the end or leaves the line as it is.
LEMMA PutFacts ==
  ASSUME NEW w \in Seq(Frame), NEW f \in Frame
  PROVE  /\ Put(w, f) \in Seq(Frame)
         /\ Len(Put(w, f)) \in {Len(w), Len(w) + 1}
         /\ \A i \in 1 .. Len(w) : Put(w, f)[i] = w[i]
         /\ Len(Put(w, f)) = Len(w) + 1 => Put(w, f)[Len(w) + 1] = f
<1>1. Len(w) \in Nat
  BY LenProperties
<1>2. CASE Len(w) < WireCap
  BY <1>1, <1>2, AppendProperties DEF Put
<1>3. CASE ~(Len(w) < WireCap)
  BY <1>1, <1>3 DEF Put
<1> QED BY <1>2, <1>3

\* A verdict changes no packet and no result but its own.
Entry == [rel : BOOLEAN, res : Result]

\* What tcflush leaves is the end of the line.
LEMMA FlushFacts ==
  ASSUME NEW w \in Seq(Frame), NEW k \in 0 .. Len(w)
  PROVE  /\ SubSeq(w, k + 1, Len(w)) \in Seq(Frame)
         /\ Len(SubSeq(w, k + 1, Len(w))) = Len(w) - k
         /\ \A i \in 1 .. Len(w) - k : SubSeq(w, k + 1, Len(w))[i] = w[k + i]
<1>1. Len(w) \in Nat /\ \A i \in 1 .. Len(w) : w[i] \in Frame
  BY LenProperties, ElementOfSeq
<1>2. /\ k + 1 \in Int /\ Len(w) \in Int
      /\ \A i \in k + 1 .. Len(w) : w[i] \in Frame
  BY <1>1
<1>3. /\ SubSeq(w, k + 1, Len(w)) \in Seq(Frame)
      /\ Len(SubSeq(w, k + 1, Len(w))) = IF k + 1 <= Len(w) THEN Len(w) - (k + 1) + 1 ELSE 0
      /\ \A i \in 1 .. Len(w) - (k + 1) + 1 : SubSeq(w, k + 1, Len(w))[i] = w[(k + 1) + i - 1]
  BY <1>2, SubSeqProperties
<1>4. \A i \in 1 .. Len(w) - k : (k + 1) + i - 1 = k + i
  BY <1>1
<1> QED BY <1>1, <1>3, <1>4

LEMMA VerdictFacts ==
  ASSUME NEW s \in Seq(Entry), NEW p \in 1 .. Len(s), NEW r \in Result
  PROVE  /\ [s EXCEPT ![p].res = r] \in Seq(Entry)
         /\ Len([s EXCEPT ![p].res = r]) = Len(s)
<1>1. s[p] \in Entry
  BY ElementOfSeq
<1>2. [s[p] EXCEPT !.res = r] \in Entry
  BY <1>1 DEF Entry
<1>3. [s EXCEPT ![p].res = r] = [s EXCEPT ![p] = [s[p] EXCEPT !.res = r]]
  OBVIOUS
<1> QED BY <1>2, <1>3, ExceptSeq

\* A restart marks the calls it interrupts.
Interrupted(s) ==
  [i \in 1 .. Len(s) |-> IF s[i].res = "pending" THEN [s[i] EXCEPT !.res = "crashed"] ELSE s[i]]

LEMMA InterruptedFacts ==
  ASSUME NEW s \in Seq(Entry)
  PROVE  Interrupted(s) \in Seq(Entry) /\ Len(Interrupted(s)) = Len(s)
<1>1. Len(s) \in Nat /\ \A i \in 1 .. Len(s) : s[i] \in Entry
  BY LenProperties, ElementOfSeq
<1>2. Interrupted(s) \in [1 .. Len(s) -> Entry]
  BY <1>1 DEF Interrupted, Entry, Result
<1>3. Interrupted(s) \in Seq(Entry)
  BY <1>1, <1>2, SeqDef
<1> QED BY <1>1, <1>2, <1>3, LenProperties

\* Goto moves one thread and keeps what it carries.
LEMMA GotoFacts ==
  ASSUME call \in [Thread -> CallRec], NEW t \in Thread, NEW pc \in CallPC, Goto(t, pc)
  PROVE  /\ call' \in [Thread -> CallRec]
         /\ \A u \in Thread \ {t} : call'[u] = call[u]
         /\ call'[t] = [call[t] EXCEPT !.pc = pc]
         /\ call'[t].pc = pc /\ call'[t].rel = call[t].rel
         /\ call'[t].pkt = call[t].pkt /\ call'[t].seq = call[t].seq
  BY DEF Goto, CallRec

\* The other two ways a call changes: it takes a number, it is retried.  The
\* solver updates one field of a record at a time.
LEMMA FieldFacts ==
  ASSUME NEW c \in CallRec
  PROVE  /\ \A pc \in CallPC : [c EXCEPT !.pc = pc] \in CallRec
         /\ \A r \in BOOLEAN : [c EXCEPT !.rel = r] \in CallRec
         /\ \A p \in Nat : [c EXCEPT !.pkt = p] \in CallRec
         /\ \A s \in SeqNum : [c EXCEPT !.seq = s] \in CallRec
         /\ \A l \in 0 .. TRY_RESEND_TIMES : [c EXCEPT !.left = l] \in CallRec
  BY DEF CallRec

WithNumber(c, pc, p, s) ==
  [c EXCEPT !.pc = pc, !.pkt = p, !.seq = s, !.left = TRY_RESEND_TIMES]

LEMMA WithNumberFacts ==
  ASSUME NEW c \in CallRec, NEW pc \in CallPC, NEW p \in Nat, NEW s \in SeqNum
  PROVE  LET d == WithNumber(c, pc, p, s)
         IN  d \in CallRec /\ d.pc = pc /\ d.rel = c.rel /\ d.pkt = p /\ d.seq = s
<1> DEFINE d == WithNumber(c, pc, p, s)
<1> DEFINE c1 == [c EXCEPT !.pc = pc]
<1>1. c1 \in CallRec /\ c1.pc = pc /\ c1.rel = c.rel
  BY FieldFacts DEF CallRec
<1> DEFINE c2 == [c1 EXCEPT !.pkt = p]
<1> HIDE DEF c1
<1>2. c2 \in CallRec /\ c2.pc = pc /\ c2.rel = c.rel /\ c2.pkt = p
  BY <1>1, FieldFacts DEF CallRec
<1> DEFINE c3 == [c2 EXCEPT !.seq = s]
<1> HIDE DEF c2
<1>3. c3 \in CallRec /\ c3.pc = pc /\ c3.rel = c.rel /\ c3.pkt = p /\ c3.seq = s
  BY <1>2, FieldFacts DEF CallRec
<1> DEFINE c4 == [c3 EXCEPT !.left = TRY_RESEND_TIMES]
<1> HIDE DEF c3
<1>4. c4 \in CallRec /\ c4.pc = pc /\ c4.rel = c.rel /\ c4.pkt = p /\ c4.seq = s
  BY <1>3, FieldFacts, ParameterAssumption DEF CallRec
<1>5. d = c4
  BY DEF c1, c2, c3, WithNumber
<1> HIDE DEF c4
<1> QED BY <1>4, <1>5

LEMMA RetryFacts ==
  ASSUME NEW c \in CallRec, c.left > 0
  PROVE  LET d == [c EXCEPT !.pc = "write", !.left = @ - 1]
         IN  /\ d \in CallRec /\ d.pc = "write" /\ d.rel = c.rel /\ d.pkt = c.pkt /\ d.seq = c.seq
<1> DEFINE l == c.left - 1
           c1 == [c EXCEPT !.pc = "write"]
           c2 == [c1 EXCEPT !.left = l]
<1>1. l \in 0 .. TRY_RESEND_TIMES
  BY ParameterAssumption DEF CallRec
<1>2. c1 \in CallRec /\ c1.pc = "write" /\ c1.rel = c.rel /\ c1.pkt = c.pkt /\ c1.seq = c.seq
  BY FieldFacts DEF CallRec, CallPC
<1> HIDE DEF l
<1>3. /\ c2 \in CallRec /\ c2.pc = "write" /\ c2.rel = c.rel
      /\ c2.pkt = c.pkt /\ c2.seq = c.seq
  BY <1>1, <1>2, FieldFacts DEF CallRec
<1>4. c2 = [c EXCEPT !.pc = "write", !.left = l]
  BY DEF CallRec
<1> HIDE DEF c1, c2
<1> QED BY <1>3, <1>4 DEF l

\* A verdict goes to the packet the thread carries.
LEMMA LogFacts ==
  ASSUME TInv, NEW t \in Thread, call[t].pc \in Numbered, NEW r \in Result, Verdict(t, r)
  PROVE  /\ log' \in [Node -> Seq(Entry)]
         /\ \A m \in Node : Len(log'[m]) = Len(log[m])
<1> DEFINE n == Home[t]
<1>0. log \in [Node -> Seq(Entry)] /\ n \in Node /\ log[n] \in Seq(Entry)
  BY TopologyAssumption DEF TInv, TypeOK, Entry
<1>1. call[t].pkt \in 1 .. Len(log[n])
  <2>1. Len(log[n]) \in Nat
    BY <1>0, LenProperties
  <2>2. Len(log[n]) > 0 /\ call[t].pkt = Len(log[n])
    BY DEF TInv, LockInv
  <2> QED BY <2>1, <2>2
<1>2. log' = [log EXCEPT ![n] = [log[n] EXCEPT ![call[t].pkt].res = r]]
  BY DEF Verdict
<1>3. /\ [log[n] EXCEPT ![call[t].pkt].res = r] \in Seq(Entry)
      /\ Len([log[n] EXCEPT ![call[t].pkt].res = r]) = Len(log[n])
  BY <1>0, <1>1, VerdictFacts
<1> QED BY <1>0, <1>1, <1>2, <1>3

-----------------------------------------------------------------------------
(* Types and the mutex.                                                    *)

LEMMA InitTInv == Init => TInv
<1> SUFFICES ASSUME Init PROVE TInv
  OBVIOUS
<1> USE SeqNumFacts, FrameFacts, ParameterAssumption, TopologyAssumption
<1>1. TypeOK
  BY DEF Init, TypeOK
<1>2. LockInv
  BY DEF Init, LockInv, NoCall, Numbered
<1> QED BY <1>1, <1>2 DEF TInv

\* A step of the thread that holds the mutex and goes on holding it.
LEMMA HolderLockInv ==
  ASSUME LockInv, NEW t \in Thread,
         \A u \in Thread \ {t} : call'[u] = call[u],
         app_send_sync_lock' = app_send_sync_lock,
         \A m \in Node : Len(log'[m]) = Len(log[m]),
         call[t].pc \notin {"idle", "lock"},
         call'[t].pc \in Numbered => call[t].pc \in Numbered,
         call'[t].pkt = call[t].pkt,
         call'[t].pc \in {"unset", "wait"} => call'[t].rel
  PROVE  LockInv'
<1>1. \A u \in Thread : Home[u] \in Node
  BY TopologyAssumption
<1> QED BY <1>1 DEF LockInv

\* Every step of a thread keeps the types and the mutex.
LEMMA ThreadTInv ==
  ASSUME TInv, NEW t \in Thread, Call(t) \/ ThreadStep(t)
  PROVE  TInv'
<1> DEFINE n == Home[t]
<1>0. /\ TypeOK /\ LockInv /\ n \in Node /\ call[t] \in CallRec
      /\ call \in [Thread -> CallRec]
      /\ \A u \in Thread : Home[u] \in Node /\ call[u] \in CallRec
      /\ log \in [Node -> Seq(Entry)] /\ Len(log[n]) \in Nat
      /\ wire[n] \in Seq(Frame)
  BY TopologyAssumption, LenProperties DEF TInv, TypeOK, Entry
<1>1. CASE Call(t)
  <2>1. PICK r \in Modes : call' = [call EXCEPT ![t] = [NoCall EXCEPT !.pc = "lock", !.rel = r]]
    BY <1>1 DEF Call
  <2> DEFINE c == [NoCall EXCEPT !.pc = "lock", !.rel = r]
  <2>2. c \in CallRec /\ c.pc = "lock"
    <3> DEFINE c1 == [NoCall EXCEPT !.pc = "lock"]
    <3>1. c1 \in CallRec /\ c1.pc = "lock"
      BY FrameFacts, FieldFacts DEF CallRec, CallPC
    <3>2. c = [c1 EXCEPT !.rel = r]
      OBVIOUS
    <3> HIDE DEF c1, c
    <3> QED BY <3>1, <3>2, ParameterAssumption, FieldFacts DEF CallRec
  <2>3. call' \in [Thread -> CallRec] /\ call'[t].pc = "lock"
        /\ \A u \in Thread \ {t} : call'[u] = call[u]
    BY <1>0, <2>1, <2>2
  <2>4. TypeOK'
    BY <1>0, <1>1, <2>3 DEF Call, TypeOK, ackVars, receiverVars, faultVars
  <2>5. LockInv'
    BY <1>0, <1>1, <2>3 DEF Call, LockInv, Numbered
  <2> QED BY <2>4, <2>5 DEF TInv
<1>2. CASE Lock(t)
  <2>1. TypeOK'
    BY <1>0, <1>2 DEF Lock, Goto, CallRec, CallPC, TypeOK, ackVars, receiverVars, faultVars
  <2>2. /\ \A u \in Thread \ {t} : call'[u] = call[u]
        /\ call'[t].pc = "assemble"
        /\ app_send_sync_lock \in [Node -> Thread \cup {NoThread}]
        /\ app_send_sync_lock[n] = NoThread
        /\ app_send_sync_lock' = [app_send_sync_lock EXCEPT ![n] = t]
        /\ log' = log
    BY <1>0, <1>2, GotoFacts DEF Lock, CallPC, TypeOK
  <2>3. \A u \in Thread \ {t} : call[u].pc \notin {"idle", "lock"} => Home[u] # n
    BY <1>0, <2>2, TopologyAssumption DEF LockInv
  <2>4. LockInv'
    BY <1>0, <2>2, <2>3 DEF LockInv, Numbered
  <2> QED BY <2>1, <2>4 DEF TInv
<1>3. CASE Reject(t)
  <2>1. TypeOK'
    BY <1>0, <1>3 DEF Reject, Goto, CallRec, CallPC, TypeOK, ackVars, receiverVars, faultVars
  <2>2. LockInv'
    BY <1>0, <1>3, GotoFacts, HolderLockInv DEF Reject, CallPC, Numbered
  <2> QED BY <2>1, <2>2 DEF TInv
<1>4. CASE Assemble(t)
  <2> DEFINE e == [rel |-> call[t].rel, res |-> "pending"]
             pc == IF call[t].rel THEN "unset" ELSE "write"
             c == [call[t] EXCEPT !.pc = pc,
                                  !.pkt = Len(log[n]) + 1,
                                  !.seq = sequence[n],
                                  !.left = TRY_RESEND_TIMES]
  <2>1. /\ call[t].pc = "assemble"
        /\ sequence' = [sequence EXCEPT ![n] = (@ + 1) % SeqMod]
        /\ log' = [log EXCEPT ![n] = Append(@, e)]
        /\ call' = [call EXCEPT ![t] = c]
        /\ UNCHANGED <<app_send_sync_lock, ackVars, pipe, receiverVars, wire, faultVars>>
    BY <1>4 DEF Assemble
  <2>2. sequence \in [Node -> SeqNum] /\ sequence' \in [Node -> SeqNum]
    BY <1>0, <2>1, SeqNumFacts DEF TypeOK
  <2>3. e \in Entry
    BY <1>0 DEF Entry, Result, CallRec
  <2>4. /\ log' \in [Node -> Seq(Entry)]
        /\ Len(log'[n]) = Len(log[n]) + 1
        /\ \A m \in Node \ {n} : log'[m] = log[m]
    BY <1>0, <2>1, <2>3, AppendProperties
  <2>5. /\ c \in CallRec /\ c.pc = pc
        /\ c.pkt = Len(log[n]) + 1 /\ c.rel = call[t].rel
    <3> DEFINE p == Len(log[n]) + 1
               s == sequence[n]
    <3>1. s \in SeqNum /\ p \in Nat /\ pc \in CallPC
      BY <1>0, <2>2 DEF CallPC
    <3>2. c = WithNumber(call[t], pc, p, s)
      BY DEF WithNumber
    <3> HIDE DEF pc, c, p, s
    <3>3. c \in CallRec /\ c.pc = pc /\ c.rel = call[t].rel /\ c.pkt = p
      BY <1>0, <3>1, <3>2, WithNumberFacts
    <3> QED BY <3>3 DEF p
  <2>6. /\ call' \in [Thread -> CallRec] /\ call'[t] = c
        /\ \A u \in Thread \ {t} : call'[u] = call[u]
    BY <1>0, <2>1, <2>5
  <2>7. TypeOK'
    BY <1>0, <2>1, <2>2, <2>4, <2>6 DEF TypeOK, ackVars, receiverVars, faultVars, Entry
  <2>8. \A u \in Thread \ {t} : call[u].pc \notin {"idle", "lock"} => Home[u] # n
    BY <1>0, <2>1 DEF LockInv
  <2>9. LockInv'
    BY <1>0, <2>1, <2>4, <2>5, <2>6, <2>8 DEF LockInv, Numbered
  <2> QED BY <2>7, <2>9 DEF TInv
<1>5. CASE Unset(t)
  <2>1. TypeOK'
    BY <1>0, <1>5 DEF Unset, Goto, CallRec, CallPC, TypeOK, receiverVars, faultVars
  <2>2. LockInv'
    BY <1>0, <1>5, GotoFacts, HolderLockInv DEF Unset, CallPC, Numbered
  <2> QED BY <2>1, <2>2 DEF TInv
<1>6. CASE Transmit(t)
  <2>1. DataFrame(call[t]) \in Frame
    BY <1>0, FrameFacts
  <2>2. Put(wire[n], DataFrame(call[t])) \in Seq(Frame)
    BY <1>0, <2>1, PutFacts
  <2>3. wire' \in [Node -> Seq(Frame)]
    BY <1>0, <1>6, <2>2 DEF Transmit, TypeOK
  <2>4. call[t].pc \in Numbered
    BY <1>6 DEF Transmit, Numbered
  <2>5. PICK pc \in {"wait", "return"} : Goto(t, pc) /\ (pc = "wait" => call[t].rel)
    BY <1>6 DEF Transmit
  <2>6. log' \in [Node -> Seq(Entry)] /\ \A m \in Node : Len(log'[m]) = Len(log[m])
    <3>1. CASE UNCHANGED log
      BY <1>0, <3>1
    <3>2. CASE Verdict(t, "sent")
      BY <2>4, <3>2, LogFacts DEF Result
    <3> QED BY <1>6, <3>1, <3>2 DEF Transmit
  <2>7. /\ call' \in [Thread -> CallRec]
        /\ \A u \in Thread \ {t} : call'[u] = call[u]
        /\ call'[t].pc = pc /\ call'[t].rel = call[t].rel /\ call'[t].pkt = call[t].pkt
    BY <1>0, <2>5, GotoFacts DEF CallPC
  <2>8. UNCHANGED <<sequence, app_send_sync_lock, ackVars, pipe, receiverVars, faultVars>>
    BY <1>6 DEF Transmit
  <2>9. TypeOK'
    BY <1>0, <2>3, <2>6, <2>7, <2>8 DEF TypeOK, ackVars, receiverVars, faultVars, Entry
  <2>10. LockInv'
    BY <1>0, <2>4, <2>5, <2>6, <2>7, <2>8, HolderLockInv DEF Numbered
  <2> QED BY <2>9, <2>10 DEF TInv
<1>7. CASE Wake(t)
  <2>1. pipe' \in [Node -> Nat]
    BY <1>0, <1>7 DEF Wake, TypeOK, PIPE_READ
  <2>2. TypeOK'
    BY <1>0, <1>7, <2>1, GotoFacts DEF Wake, CallPC, TypeOK, ackVars, receiverVars, faultVars
  <2>3. LockInv'
    BY <1>0, <1>7, GotoFacts, HolderLockInv DEF Wake, CallPC, Numbered
  <2> QED BY <2>2, <2>3 DEF TInv
<1>8. CASE Timeout(t)
  <2>1. TypeOK'
    BY <1>0, <1>8, GotoFacts DEF Timeout, CallPC, TypeOK, ackVars, receiverVars, faultVars
  <2>2. LockInv'
    BY <1>0, <1>8, GotoFacts, HolderLockInv DEF Timeout, CallPC, Numbered
  <2> QED BY <2>1, <2>2 DEF TInv
<1>9. ASSUME CheckAcked(t) \/ CheckGiveUp(t)
      PROVE  TInv'
  <2>1. PICK r \in {"acked", "timeout"} : Verdict(t, r)
    BY <1>9 DEF CheckAcked, CheckGiveUp
  <2>2. /\ call[t].pc = "check" /\ call[t].pc \in Numbered /\ Goto(t, "return")
        /\ UNCHANGED <<sequence, app_send_sync_lock, ackVars, pipe, receiverVars, wire, faultVars>>
    BY <1>9 DEF CheckAcked, CheckGiveUp, Numbered
  <2>3. log' \in [Node -> Seq(Entry)] /\ \A m \in Node : Len(log'[m]) = Len(log[m])
    BY <2>1, <2>2, LogFacts DEF Result
  <2>4. TypeOK'
    BY <1>0, <2>2, <2>3, GotoFacts DEF CallPC, TypeOK, ackVars, receiverVars, faultVars, Entry
  <2>5. LockInv'
    BY <1>0, <2>2, <2>3, GotoFacts, HolderLockInv DEF CallPC, Numbered
  <2> QED BY <2>4, <2>5 DEF TInv
<1>10. CASE CheckResend(t)
  <2> DEFINE c == [call[t] EXCEPT !.pc = "write", !.left = @ - 1]
  <2>1. c \in CallRec /\ c.pc = "write" /\ c.pkt = call[t].pkt
    BY <1>0, <1>10, RetryFacts DEF CheckResend
  <2>2. call' = [call EXCEPT ![t] = c]
    BY <1>10 DEF CheckResend
  <2>3. /\ call' \in [Thread -> CallRec] /\ call'[t] = c
        /\ \A u \in Thread \ {t} : call'[u] = call[u]
    BY <1>0, <2>1, <2>2
  <2>4. TypeOK'
    BY <1>0, <1>10, <2>3 DEF CheckResend, TypeOK, ackVars, receiverVars, faultVars
  <2>5. LockInv'
    BY <1>0, <1>10, <2>1, <2>3, HolderLockInv DEF CheckResend, Numbered
  <2> QED BY <2>4, <2>5 DEF TInv
<1>11. CASE Return(t)
  <2>1. TypeOK'
    BY <1>0, <1>11, FrameFacts, TopologyAssumption DEF Return, TypeOK, ackVars, receiverVars, faultVars
  <2>2. /\ \A u \in Thread \ {t} : call'[u] = call[u]
        /\ call'[t].pc = "idle" /\ log' = log
        /\ app_send_sync_lock' = [app_send_sync_lock EXCEPT ![n] = NoThread]
        /\ call[t].pc = "return"
        /\ app_send_sync_lock \in [Node -> Thread \cup {NoThread}]
    BY <1>0, <1>11 DEF Return, NoCall, TypeOK
  <2>3. \A u \in Thread \ {t} : call[u].pc \notin {"idle", "lock"} => Home[u] # n
    <3>1. app_send_sync_lock[n] = t
      BY <1>0, <2>2 DEF LockInv
    <3> QED BY <1>0, <3>1 DEF LockInv
  <2>4. LockInv'
    BY <1>0, <2>2, <2>3 DEF LockInv, Numbered
  <2> QED BY <2>1, <2>4 DEF TInv
<1> QED BY <1>1, <1>2, <1>3, <1>4, <1>5, <1>6, <1>7, <1>8, <1>9, <1>10, <1>11
        DEF ThreadStep, Write, Wait, Check

\* What the parse thread takes off the line, and what it puts on it.
LEMMA LineFacts ==
  ASSUME TypeOK, NEW n \in Node, FrameReady(n)
  PROVE  /\ Incoming(n) \in Frame /\ Incoming(n).seq \in SeqNum
         /\ Take(n) => wire' \in [Node -> Seq(Frame)]
         /\ \A f \in Frame : Answer(n, f) => wire' \in [Node -> Seq(Frame)]
         /\ \A pc \in {"set", "break", "deliver"} : RxGoto(n, pc) => rx' \in [Node -> RxRec]
<1>1. /\ Peer[n] \in Node /\ Peer[n] # n
      /\ wire \in [Node -> Seq(Frame)] /\ wire[Peer[n]] # <<>>
      /\ wire[Peer[n]] \in Seq(Frame) /\ rx \in [Node -> RxRec]
  BY TopologyAssumption DEF TypeOK, FrameReady
<1>2. Incoming(n) \in Frame /\ Tail(wire[Peer[n]]) \in Seq(Frame)
  BY <1>1, HeadTailProperties DEF Incoming
<1>3. Incoming(n).seq \in SeqNum
  BY <1>2 DEF Frame
<1>4. Take(n) => wire' \in [Node -> Seq(Frame)]
  BY <1>1, <1>2 DEF Take
<1>5. ASSUME NEW f \in Frame, Answer(n, f)
      PROVE  wire' \in [Node -> Seq(Frame)]
  <2>1. Put(wire[n], f) \in Seq(Frame)
    BY <1>1, PutFacts
  <2> QED BY <1>1, <1>2, <1>5, <2>1 DEF Answer
<1>6. ASSUME NEW pc \in {"set", "break", "deliver"}, RxGoto(n, pc)
      PROVE  rx' \in [Node -> RxRec]
  BY <1>1, <1>2, <1>6 DEF RxGoto, RxRec
<1> QED BY <1>2, <1>3, <1>4, <1>5, <1>6

\* The parse thread takes no part in the sending of packets.
LEMMA ParseTInv ==
  ASSUME TInv, NEW n \in Node, ParseStep(n)
  PROVE  TInv'
<1>0. TypeOK /\ LockInv
  BY DEF TInv
<1>1. UNCHANGED senderVars
  BY DEF ParseStep, ReceiveBadLength, ReceiveAcked, ReceiveStaleAcked, ReceiveNacked,
         ReceiveCorrupt, ReceiveData, SetAcked, Break, Deliver
<1>2. LockInv'
  BY <1>0, <1>1 DEF LockInv, senderVars
<1>3. CASE ReceiveBadLength(n) \/ ReceiveCorrupt(n)
  <2>1. /\ FrameReady(n) /\ Answer(n, NackFrame(Incoming(n).seq))
        /\ UNCHANGED <<senderVars, ackVars, pipe, receiverVars, faultVars>>
    BY <1>3 DEF ReceiveBadLength, ReceiveCorrupt, LengthGood
  <2>2. wire' \in [Node -> Seq(Frame)]
    BY <1>0, <2>1, LineFacts, FrameFacts
  <2> QED BY <1>0, <1>2, <2>1, <2>2
          DEF TInv, TypeOK, senderVars, ackVars, receiverVars, faultVars
<1>4. CASE ReceiveAcked(n) \/ ReceiveStaleAcked(n) \/ ReceiveNacked(n)
  <2>1. /\ FrameReady(n) /\ Take(n)
        /\ UNCHANGED <<senderVars, ackVars, pipe, last_recv_packet_seq, delivered, faultVars>>
    BY <1>4 DEF ReceiveAcked, ReceiveStaleAcked, ReceiveNacked, LengthGood, receiverVars
  <2>2. wire' \in [Node -> Seq(Frame)]
    BY <1>0, <2>1, LineFacts
  <2>3. rx' \in [Node -> RxRec]
    <3>1. RxGoto(n, "set") \/ RxGoto(n, "break") \/ UNCHANGED rx
      BY <1>4 DEF ReceiveAcked, ReceiveStaleAcked, ReceiveNacked, receiverVars
    <3> QED BY <1>0, <2>1, <3>1, LineFacts DEF TypeOK
  <2> QED BY <1>0, <1>2, <2>1, <2>2, <2>3
          DEF TInv, TypeOK, senderVars, ackVars, faultVars
<1>5. CASE ReceiveData(n)
  <2>1. /\ FrameReady(n) /\ RxGoto(n, "deliver")
        /\ Take(n) \/ Answer(n, AckFrame(Incoming(n).seq))
        /\ UNCHANGED <<senderVars, ackVars, pipe, last_recv_packet_seq, delivered, faultVars>>
    BY <1>5 DEF ReceiveData, LengthGood
  <2>2. wire' \in [Node -> Seq(Frame)] /\ rx' \in [Node -> RxRec]
    BY <1>0, <2>1, LineFacts, FrameFacts
  <2> QED BY <1>0, <1>2, <2>1, <2>2
          DEF TInv, TypeOK, senderVars, ackVars, faultVars
<1>6. ASSUME rx[n].pc \in {"set", "break", "deliver"},
             SetAcked(n) \/ Break(n) \/ Deliver(n)
      PROVE  TInv'
  <2>1. rx[n] \in RxRec /\ rx[n].frm.seq \in SeqNum /\ rx[n].frm.pkt \in Nat
    BY <1>0 DEF TypeOK, RxRec, Frame
  <2>2. CASE SetAcked(n)
    <3>1. [rx[n] EXCEPT !.pc = "break"] \in RxRec
      BY <2>1 DEF RxRec
    <3>2. rx' \in [Node -> RxRec]
      BY <1>0, <2>2, <3>1 DEF SetAcked, TypeOK
    <3> QED BY <1>0, <1>2, <2>1, <2>2, <3>2
            DEF SetAcked, TInv, TypeOK, senderVars, faultVars
  <2>3. CASE Break(n)
    <3>1. rx' \in [Node -> RxRec]
      BY <1>0, <2>3, FrameFacts DEF Break, TypeOK
    <3>2. pipe' \in [Node -> Nat]
      BY <1>0, <2>3 DEF Break, TypeOK
    <3> QED BY <1>0, <1>2, <2>3, <3>1, <3>2
            DEF Break, TInv, TypeOK, senderVars, ackVars, faultVars
  <2>4. CASE Deliver(n)
    <3>1. rx' \in [Node -> RxRec]
      BY <1>0, <2>4, FrameFacts DEF Deliver, TypeOK
    <3>2. delivered[n] \in Seq(Nat) /\ Append(delivered[n], rx[n].frm.pkt) \in Seq(Nat)
      BY <1>0, <2>1, AppendProperties DEF TypeOK
    <3>3. delivered' \in [Node -> Seq(Nat)]
      BY <1>0, <2>4, <3>2 DEF Deliver, TypeOK
    <3> QED BY <1>0, <1>2, <2>1, <2>4, <3>1, <3>3
            DEF Deliver, TInv, TypeOK, senderVars, ackVars, faultVars
  <2> QED BY <1>6, <2>2, <2>3, <2>4
<1> QED BY <1>3, <1>4, <1>5, <1>6 DEF ParseStep, SetAcked, Break, Deliver

\* Faults touch the line only; a restart releases the mutex of its end and
\* ends the calls made there.
LEMMA EnvironmentTInv ==
  ASSUME TInv, NEW n \in Node, Environment(n)
  PROVE  TInv'
<1>0. TypeOK /\ LockInv /\ wire[n] \in Seq(Frame) /\ wire \in [Node -> Seq(Frame)]
  BY DEF TInv, TypeOK
<1>1. CASE Lose(n)
  <2>1. wire' \in [Node -> Seq(Frame)]
    <3>1. wire[n] # <<>> /\ Tail(wire[n]) \in Seq(Frame)
      BY <1>0, <1>1, HeadTailProperties DEF Lose
    <3> QED BY <1>0, <1>1, <3>1 DEF Lose
  <2>2. TypeOK'
    <3>1. faults' \in Nat
      BY <1>0, <1>1 DEF Lose, Fault, TypeOK
    <3>2. UNCHANGED <<senderVars, ackVars, pipe, receiverVars, restarts>>
      BY <1>1 DEF Lose
    <3> QED BY <1>0, <2>1, <3>1, <3>2 DEF TypeOK, senderVars, ackVars, receiverVars
  <2>3. LockInv'
    BY <1>0, <1>1 DEF Lose, LockInv, senderVars
  <2> QED BY <2>2, <2>3 DEF TInv
<1>2. CASE Damage(n)
  <2>1. wire[n] # <<>> /\ Head(wire[n]) \in Frame /\ Tail(wire[n]) \in Seq(Frame)
    BY <1>0, <1>2, HeadTailProperties DEF Damage
  <2>2. PICK c \in {"sum", "len"}, s \in SeqNum, b \in SUBSET Bits :
          wire' = [wire EXCEPT ![n] = <<Noisy(Head(wire[n]), c, s, b)>> \o Tail(@)]
    BY <1>2 DEF Damage
  <2> DEFINE g == Noisy(Head(wire[n]), c, s, b)
  <2>3. g \in Frame
    BY <2>1, FrameFacts
  <2>4. wire' = [wire EXCEPT ![n] = <<g>> \o Tail(wire[n])]
    BY <2>2
  <2> HIDE DEF g
  <2>5. <<g>> \o Tail(wire[n]) \in Seq(Frame)
    BY <2>1, <2>3, ConcatProperties
  <2>6. wire' \in [Node -> Seq(Frame)]
    BY <1>0, <2>4, <2>5
  <2>7. TypeOK'
    <3>1. faults' \in Nat
      BY <1>0, <1>2 DEF Damage, Fault, TypeOK
    <3>2. UNCHANGED <<senderVars, ackVars, pipe, receiverVars, restarts>>
      BY <1>2 DEF Damage
    <3> QED BY <1>0, <2>6, <3>1, <3>2 DEF TypeOK, senderVars, ackVars, receiverVars
  <2>8. LockInv'
    BY <1>0, <1>2 DEF Damage, LockInv, senderVars
  <2> QED BY <2>7, <2>8 DEF TInv
<1>3. CASE Restart(n)
  <2>1. /\ app_send_sync_lock' = [app_send_sync_lock EXCEPT ![n] = NoThread]
        /\ call' = [t \in Thread |-> IF Home[t] = n THEN NoCall ELSE call[t]]
        /\ log' = [log EXCEPT ![n] = Interrupted(@)]
    BY <1>3 DEF Restart, Interrupted
  <2>2. log \in [Node -> Seq(Entry)] /\ log[n] \in Seq(Entry)
    BY <1>0 DEF TypeOK, Entry
  <2>3. Interrupted(log[n]) \in Seq(Entry) /\ Len(Interrupted(log[n])) = Len(log[n])
    BY <2>2, InterruptedFacts
  <2>4. /\ log' \in [Node -> Seq(Entry)]
        /\ \A m \in Node : Len(log'[m]) = Len(log[m])
    BY <2>1, <2>2, <2>3
  <2>5. call' \in [Thread -> CallRec]
    BY <1>0, <2>1, FrameFacts DEF TypeOK
  <2>6. wire' \in [Node -> Seq(Frame)]
    <3>1. wire \in [Node -> Seq(Frame)] /\ Peer[n] \in Node
      BY <1>0, TopologyAssumption DEF TypeOK
    <3>2. PICK k \in 0 .. Len(wire[Peer[n]]) :
            wire' = [wire EXCEPT ![Peer[n]] = SubSeq(@, k + 1, Len(@))]
      BY <1>3 DEF Restart
    <3>3. SubSeq(wire[Peer[n]], k + 1, Len(wire[Peer[n]])) \in Seq(Frame)
      BY <3>1, FlushFacts
    <3> QED BY <3>1, <3>2, <3>3
  <2>7. app_send_sync_lock' \in [Node -> Thread \cup {NoThread}] /\ rx' \in [Node -> RxRec]
    BY <1>0, <1>3, FrameFacts DEF Restart, TypeOK
  <2>8. /\ sequence' \in [Node -> SeqNum] /\ acked' \in [Node -> BOOLEAN]
        /\ current_acked_seq' \in [Node -> SeqNum] /\ pipe' \in [Node -> Nat]
        /\ last_recv_packet_seq' \in [Node -> SeqNum \cup {NoSeq}]
        /\ restarts' \in [Node -> Nat]
    <3>1. 0 \in SeqNum /\ InitAckedSeq \in SeqNum
      BY SeqNumFacts
    <3>2. /\ sequence' = [sequence EXCEPT ![n] = 0]
          /\ acked' = [acked EXCEPT ![n] = FALSE]
          /\ current_acked_seq' = [current_acked_seq EXCEPT ![n] = InitAckedSeq]
          /\ pipe' = [pipe EXCEPT ![n] = 0]
          /\ last_recv_packet_seq' = [last_recv_packet_seq EXCEPT ![n] = NoSeq]
      BY <1>3 DEF Restart
    <3>3. restarts' \in [Node -> Nat]
      BY <1>0, <1>3 DEF Restart, TypeOK
    <3> QED BY <1>0, <3>1, <3>2, <3>3 DEF TypeOK
  <2>9. TypeOK'
    BY <1>0, <1>3, <2>4, <2>5, <2>6, <2>7, <2>8 DEF Restart, TypeOK, Entry
  <2>10. LockInv'
    <3> SUFFICES ASSUME NEW t \in Thread
                 PROVE  /\ call'[t].pc \notin {"idle", "lock"} => app_send_sync_lock'[Home[t]] = t
                        /\ call'[t].pc \in Numbered => /\ Len(log'[Home[t]]) > 0
                                                       /\ call'[t].pkt = Len(log'[Home[t]])
                        /\ call'[t].pc \in {"unset", "wait"} => call'[t].rel
      BY DEF LockInv
    <3>1. CASE Home[t] = n
      BY <2>1, <3>1 DEF NoCall, Numbered
    <3>2. CASE Home[t] # n
      <4>1. Home[t] \in Node /\ call'[t] = call[t] /\ Len(log'[Home[t]]) = Len(log[Home[t]])
        BY <2>1, <2>4, <3>2, TopologyAssumption
      <4>2. app_send_sync_lock'[Home[t]] = app_send_sync_lock[Home[t]]
        BY <1>0, <2>1, <3>2, <4>1 DEF TypeOK
      <4> QED BY <1>0, <4>1, <4>2 DEF LockInv
    <3> QED BY <3>1, <3>2
  <2> QED BY <2>9, <2>10 DEF TInv
<1> QED BY <1>1, <1>2, <1>3 DEF Environment

LEMMA NextTInv == TInv /\ [Next]_vars => TInv'
<1> SUFFICES ASSUME TInv, [Next]_vars PROVE TInv'
  OBVIOUS
<1>1. CASE Next
  BY <1>1, ThreadTInv, ParseTInv, EnvironmentTInv DEF Next
<1>2. CASE UNCHANGED vars
  BY <1>2 DEF TInv, TypeOK, LockInv, vars, senderVars, ackVars, receiverVars, faultVars
<1> QED BY <1>1, <1>2

LEMMA SpecTInv == Spec => []TInv
<1> QED BY InitTInv, NextTInv, PTL DEF Spec

\* Every variable keeps its type: sequence numbers stay below SeqMod, a
\* thread never has more retries left than TRY_RESEND_TIMES nor fewer than
\* none, and only frames are on the line.
THEOREM UartTypeOK == Spec => []TypeOK
<1>1. TInv => TypeOK
  BY DEF TInv
<1> QED BY <1>1, SpecTInv, PTL

-----------------------------------------------------------------------------
(* No wake-up is lost.                                                     *)

\* NoLostWakeup from the write of the packet on: an acknowledgement that
\* arrives before the sender sleeps counts as well.
WakeInv ==
  \A t \in Thread : LET n == Home[t] IN
    call[t].pc \in {"write", "wait"} /\ call[t].rel /\ acked[n]
      => pipe[n] > 0 \/ rx[n].pc = "break"

\* A thread moves no other thread and leaves the receiving side alone.
LEMMA ThreadFacts ==
  ASSUME TInv, NEW t \in Thread, Call(t) \/ ThreadStep(t)
  PROVE  /\ \A u \in Thread \ {t} : call'[u] = call[u]
         /\ UNCHANGED <<rx, last_recv_packet_seq, delivered, restarts>>
<1>1. call \in [Thread -> CallRec]
  BY DEF TInv, TypeOK
<1>2. \A u \in Thread \ {t} : call'[u] = call[u]
  BY <1>1 DEF ThreadStep, Write, Wait, Check, Call, Lock, Reject, Assemble, Unset, Transmit,
              Wake, Timeout, CheckAcked, CheckResend, CheckGiveUp, Return, Goto
<1>3. UNCHANGED <<rx, last_recv_packet_seq, delivered, restarts>>
  BY DEF ThreadStep, Write, Wait, Check, Call, Lock, Reject, Assemble, Unset, Transmit,
         Wake, Timeout, CheckAcked, CheckResend, CheckGiveUp, Return, receiverVars, faultVars
<1> QED BY <1>2, <1>3

\* A thread comes to the write of a reliable packet with the flag clear: it
\* has just cleared it or has just found it clear.
LEMMA WriteFacts ==
  ASSUME TInv, NEW t \in Thread, Call(t) \/ ThreadStep(t),
         call'[t].pc \in {"write", "wait"}, call'[t].rel, acked'[Home[t]]
  PROVE  call[t].pc \in {"write", "wait"} /\ call[t].rel /\ acked[Home[t]] /\ UNCHANGED pipe
<1>1. /\ call \in [Thread -> CallRec] /\ call[t] \in CallRec
      /\ Home[t] \in Node /\ acked \in [Node -> BOOLEAN]
  BY TopologyAssumption DEF TInv, TypeOK
<1>2. CASE Call(t)
  <2>1. PICK r \in Modes : call' = [call EXCEPT ![t] = [NoCall EXCEPT !.pc = "lock", !.rel = r]]
    BY <1>2 DEF Call
  <2>2. call'[t].pc = "lock"
    BY <1>1, <2>1 DEF NoCall
  <2> QED BY <2>2
<1>3. CASE Lock(t)
  BY <1>1, <1>3, GotoFacts DEF Lock, CallPC
<1>4. CASE Reject(t) \/ Wake(t) \/ Timeout(t) \/ CheckAcked(t) \/ CheckGiveUp(t)
  <2>1. PICK pc \in {"return", "check"} : Goto(t, pc)
    BY <1>4 DEF Reject, Wake, Timeout, CheckAcked, CheckGiveUp
  <2>2. call'[t].pc = pc
    BY <1>1, <2>1, GotoFacts DEF CallPC
  <2> QED BY <2>1, <2>2
<1>5. CASE Assemble(t)
  <2>1. call'[t].pc = (IF call'[t].rel THEN "unset" ELSE "write")
    BY <1>1, <1>5 DEF Assemble
  <2> QED BY <2>1
<1>6. CASE Unset(t)
  <2>1. acked'[Home[t]] = FALSE
    BY <1>1, <1>6 DEF Unset
  <2> QED BY <2>1
<1>7. CASE Transmit(t)
  <2>1. call[t].pc = "write" /\ UNCHANGED <<acked, pipe>>
    BY <1>7 DEF Transmit, ackVars
  <2>2. PICK pc \in {"wait", "return"} : Goto(t, pc)
    BY <1>7 DEF Transmit
  <2>3. call'[t].rel = call[t].rel
    BY <1>1, <2>2, GotoFacts DEF CallPC
  <2> QED BY <2>1, <2>3
<1>8. CASE CheckResend(t)
  <2>1. ~acked'[Home[t]]
    BY <1>8 DEF CheckResend, ackVars
  <2> QED BY <2>1
<1>9. CASE Return(t)
  <2>1. call'[t] = NoCall
    BY <1>1, <1>9 DEF Return
  <2> QED BY <2>1 DEF NoCall
<1> QED BY <1>2, <1>3, <1>4, <1>5, <1>6, <1>7, <1>8, <1>9 DEF ThreadStep, Write, Wait, Check

LEMMA ThreadWakeInv ==
  ASSUME TInv, WakeInv, NEW t \in Thread, Call(t) \/ ThreadStep(t)
  PROVE  WakeInv'
<1> SUFFICES ASSUME NEW u \in Thread, call'[u].pc \in {"write", "wait"},
                    call'[u].rel, acked'[Home[u]]
             PROVE  pipe'[Home[u]] > 0 \/ rx'[Home[u]].pc = "break"
  BY DEF WakeInv
<1>1. UNCHANGED rx
  BY ThreadFacts
<1>2. CASE u = t
  <2>1. call[t].pc \in {"write", "wait"} /\ call[t].rel /\ acked[Home[t]] /\ UNCHANGED pipe
    BY <1>2, WriteFacts
  <2> QED BY <1>1, <1>2, <2>1 DEF WakeInv
<1>3. CASE u # t
  <2>1. call'[u] = call[u]
    BY <1>3, ThreadFacts
  <2>2. Home[t] \in Node /\ Home[u] \in Node /\ acked \in [Node -> BOOLEAN]
        /\ pipe \in [Node -> Nat]
    BY TopologyAssumption DEF TInv, TypeOK
  <2>3. acked[Home[u]]
    BY <2>2 DEF ThreadStep, Write, Wait, Check, Call, Lock, Reject, Assemble, Unset, Transmit,
         Wake, Timeout, CheckAcked, CheckResend, CheckGiveUp, Return, ackVars
  <2>4. pipe'[Home[u]] = pipe[Home[u]]
    <3>1. CASE Wake(t)
      <4>1. app_send_sync_lock[Home[t]] = t /\ app_send_sync_lock[Home[u]] = u
        BY <2>1, <3>1 DEF Wake, TInv, LockInv
      <4>2. Home[u] # Home[t]
        BY <1>3, <4>1
      <4> QED BY <2>2, <3>1, <4>2 DEF Wake
    <3>2. CASE ~Wake(t)
      BY <3>2 DEF ThreadStep, Write, Wait, Check, Call, Lock, Reject, Assemble, Unset, Transmit,
           Timeout, CheckAcked, CheckResend, CheckGiveUp, Return
    <3> QED BY <3>1, <3>2
  <2> QED BY <1>1, <2>1, <2>3, <2>4 DEF WakeInv
<1> QED BY <1>2, <1>3

LEMMA ParseWakeInv ==
  ASSUME TInv, WakeInv, NEW n \in Node, ParseStep(n)
  PROVE  WakeInv'
<1>0. /\ rx \in [Node -> RxRec] /\ pipe \in [Node -> Nat] /\ acked \in [Node -> BOOLEAN]
      /\ pipe[n] \in Nat /\ \A u \in Thread : Home[u] \in Node
  BY TopologyAssumption DEF TInv, TypeOK
<1>1. UNCHANGED call
  BY DEF ParseStep, ReceiveBadLength, ReceiveAcked, ReceiveStaleAcked, ReceiveNacked,
         ReceiveCorrupt, ReceiveData, SetAcked, Break, Deliver, senderVars
<1>2. CASE SetAcked(n)
  <2>1. rx'[n].pc = "break" /\ \A m \in Node \ {n} : rx'[m] = rx[m] /\ acked'[m] = acked[m]
    BY <1>0, <1>2 DEF SetAcked, RxRec
  <2>2. UNCHANGED pipe
    BY <1>2 DEF SetAcked
  <2> QED BY <1>0, <1>1, <2>1, <2>2 DEF WakeInv
<1>3. CASE Break(n)
  <2>1. pipe'[n] = pipe[n] + 1
        /\ \A m \in Node \ {n} : rx'[m] = rx[m] /\ pipe'[m] = pipe[m]
    BY <1>0, <1>3 DEF Break
  <2>2. pipe'[n] > 0 /\ UNCHANGED acked
    BY <1>0, <1>3, <2>1 DEF Break, ackVars
  <2> QED BY <1>0, <1>1, <2>1, <2>2 DEF WakeInv
<1>4. CASE ~SetAcked(n) /\ ~Break(n)
  <2>1. rx[n].pc # "break" /\ UNCHANGED <<acked, pipe>>
    BY <1>4 DEF ParseStep, ReceiveBadLength, ReceiveAcked, ReceiveStaleAcked, ReceiveNacked,
       ReceiveCorrupt, ReceiveData, Deliver, ackVars, LengthGood, FrameReady
  <2>2. \A m \in Node \ {n} : rx'[m] = rx[m]
    BY <1>0, <1>4 DEF ParseStep, ReceiveBadLength, ReceiveAcked, ReceiveStaleAcked, ReceiveNacked,
       ReceiveCorrupt, ReceiveData, Deliver, RxGoto, receiverVars
  <2> QED BY <1>0, <1>1, <2>1, <2>2 DEF WakeInv
<1> QED BY <1>2, <1>3, <1>4

LEMMA EnvironmentWakeInv ==
  ASSUME TInv, WakeInv, NEW n \in Node, Environment(n)
  PROVE  WakeInv'
<1>1. CASE Lose(n) \/ Damage(n)
  BY <1>1 DEF Lose, Damage, WakeInv, senderVars, ackVars, receiverVars
<1>2. CASE Restart(n)
  <2>1. /\ rx \in [Node -> RxRec] /\ pipe \in [Node -> Nat] /\ acked \in [Node -> BOOLEAN]
        /\ \A u \in Thread : Home[u] \in Node
    BY TopologyAssumption DEF TInv, TypeOK
  <2>2. \A m \in Node \ {n} : rx'[m] = rx[m] /\ pipe'[m] = pipe[m] /\ acked'[m] = acked[m]
    BY <1>2, <2>1 DEF Restart
  <2>3. \A u \in Thread : call'[u] = IF Home[u] = n THEN NoCall ELSE call[u]
    BY <1>2 DEF Restart
  <2> QED BY <2>1, <2>2, <2>3 DEF WakeInv, NoCall
<1> QED BY <1>1, <1>2 DEF Environment

LEMMA SpecWakeInv == Spec => []WakeInv
<1>1. Init => WakeInv
  BY TopologyAssumption DEF Init, WakeInv, NoCall
<1>2. TInv /\ WakeInv /\ [Next]_vars => WakeInv'
  <2> SUFFICES ASSUME TInv, WakeInv, [Next]_vars PROVE WakeInv'
    OBVIOUS
  <2>1. CASE Next
    BY <2>1, ThreadWakeInv, ParseWakeInv, EnvironmentWakeInv DEF Next
  <2>2. CASE UNCHANGED vars
    BY <2>2 DEF WakeInv, vars, senderVars, ackVars, receiverVars
  <2> QED BY <2>1, <2>2
<1> QED BY <1>1, <1>2, SpecTInv, PTL DEF Spec

\* A sender never sleeps through its acknowledgement: whatever the parse
\* thread and the sender do between the two unlocked accesses, a byte for
\* the sleeper is in the pipe or about to be written.
THEOREM UartNoLostWakeup == Spec => []NoLostWakeup
<1>1. TInv /\ WakeInv => NoLostWakeup
  BY DEF TInv, LockInv, WakeInv, NoLostWakeup
<1> QED BY <1>1, SpecTInv, SpecWakeInv, PTL
=============================================================================
