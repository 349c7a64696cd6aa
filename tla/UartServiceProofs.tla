-------------------------- MODULE UartServiceProofs --------------------------
(* TLAPS proofs that the two ends keep what CommService promises: a call    *)
(* that returned 0 has reached the other application (AckedIsReceived), the *)
(* ends refine CommService, and which acknowledgements a sender may pass    *)
(* over as repeated ones (HonouredUnlessDoubtful).                          *)
(*                                                                          *)
(* Two assumptions on the environment are needed: noise does not alter the  *)
(* unprotected header of a frame, and no end restarts.  With HeaderDamage   *)
(* the instance of the run UartAck violates AckedIsReceived; with a restart *)
(* the run UartSenderRestart breaks the promise.  Sequence numbers wrap     *)
(* around; a number tells two packets apart as long as fewer than SeqMod    *)
(* packets stand between them, which LongRun is about.                      *)
EXTENDS UartOrderProofs, FiniteSetTheorems

SoundLine == ~HeaderDamage /\ Restartable = {}

\* The number of packet p.
SeqOf(p) == (p - 1) % SeqMod

\* Before packet p, SeqMod - 1 or more packets in a row were not reliable, so
\* that all of them may have been lost with nobody noticing.
LongRun(n, p) ==
  \E a, b \in 1 .. p : b - a >= SeqMod /\ \A i \in a + 1 .. b - 1 : ~log[n][i].rel

\* When a number may stand for a packet other than the one it is taken for.
Doubtful(n, p) == EarlierTimeout(n, p) \/ LongRun(n, p)

-----------------------------------------------------------------------------
(* Arithmetic of the sequence numbers.                                     *)

LEMMA Division ==
  ASSUME NEW S \in Nat \ {0}, NEW a \in Int
  PROVE  /\ a % S \in 0 .. S - 1 /\ a \div S \in Int
         /\ a = (S * (a \div S)) + (a % S)
  OBVIOUS

LEMMA Remainder ==
  ASSUME NEW S \in Nat \ {0}, NEW r \in 0 .. S - 1, NEW k \in Int
  PROVE  ((S * k) + r) % S = r
  OBVIOUS

\* Numbers closer than S have different remainders.
LEMMA Apart ==
  ASSUME NEW S \in Nat \ {0}, NEW a \in Nat, NEW b \in Nat, a < b, b - a < S
  PROVE  a % S # b % S
<1> SUFFICES ASSUME a % S = b % S PROVE FALSE
  OBVIOUS
<1> DEFINE x == a \div S
           y == b \div S
<1>1. x \in Int /\ y \in Int /\ b - a = S * y - S * x
  BY Division
<1> HIDE DEF x, y
<1>2. S * y - S * x = S * (y - x)
  BY <1>1
<1>3. CASE y - x <= 0
  BY <1>1, <1>2, <1>3
<1>4. CASE y - x >= 1
  <2>1. S * (y - x) >= S
    BY <1>1, <1>4
  <2> QED BY <1>1, <1>2, <2>1
<1> QED BY <1>1, <1>3, <1>4

LEMMA NextRemainder ==
  ASSUME NEW S \in Nat \ {0}, NEW a \in Nat
  PROVE  ((a % S) + 1) % S = (a + 1) % S
<1> DEFINE k == a \div S
           r == a % S
<1>1. a = (S * k) + r /\ k \in Int /\ r \in 0 .. S - 1
  BY Division
<1> HIDE DEF k, r
<1>2. CASE r + 1 < S
  <2>1. a + 1 = (S * k) + (r + 1) /\ r + 1 \in 0 .. S - 1
    BY <1>1, <1>2
  <2>2. (a + 1) % S = r + 1
    BY <1>1, <2>1, Remainder
  <2>3. (S * 0) + (r + 1) = r + 1 /\ ((S * 0) + (r + 1)) % S = r + 1
    BY <1>1, <2>1, Remainder
  <2> QED BY <2>2, <2>3 DEF r
<1>3. CASE r + 1 = S
  <2>1. a + 1 = (S * (k + 1)) + 0 /\ k + 1 \in Int /\ 0 \in 0 .. S - 1
    BY <1>1, <1>3
  <2>2. (a + 1) % S = 0
    BY <2>1, Remainder
  <2>3. ((S * 1) + 0) % S = 0 /\ (S * 1) + 0 = r + 1
    BY <1>1, <1>3, <2>1, Remainder
  <2> QED BY <2>2, <2>3 DEF r
<1> QED BY <1>1, <1>2, <1>3

LEMMA PreviousRemainder ==
  ASSUME NEW S \in Nat \ {0}, NEW a \in Nat, a > 0
  PROVE  ((a % S) + S - 1) % S = (a - 1) % S
<1> DEFINE k == a \div S
           r == a % S
<1>1. a = (S * k) + r /\ k \in Int /\ r \in 0 .. S - 1
  BY Division
<1> HIDE DEF k, r
<1>2. CASE r = 0
  <2>1. a - 1 = (S * (k - 1)) + (S - 1) /\ k - 1 \in Int /\ S - 1 \in 0 .. S - 1
    BY <1>1, <1>2
  <2>2. (a - 1) % S = S - 1
    BY <2>1, Remainder
  <2>3. ((S * 0) + (S - 1)) % S = S - 1 /\ (S * 0) + (S - 1) = r + S - 1
    BY <1>1, <1>2, <2>1, Remainder
  <2> QED BY <2>2, <2>3 DEF r
<1>3. CASE r > 0
  <2>1. a - 1 = (S * k) + (r - 1) /\ r - 1 \in 0 .. S - 1
    BY <1>1, <1>3
  <2>2. (a - 1) % S = r - 1
    BY <1>1, <2>1, Remainder
  <2>3. ((S * 1) + (r - 1)) % S = r - 1 /\ (S * 1) + (r - 1) = r + S - 1
    BY <1>1, <1>3, <2>1, Remainder
  <2> QED BY <2>2, <2>3 DEF r
<1> QED BY <1>1, <1>2, <1>3

\* Packets that are fewer than SeqMod apart carry different numbers.
LEMMA SeqOfFacts ==
  /\ \A p \in Nat : p > 0 => SeqOf(p) \in SeqNum
  /\ \A p, q \in Nat : 0 < p /\ p < q /\ SeqOf(p) = SeqOf(q) => q - p >= SeqMod
  /\ \A p \in Nat : (p + 1) % SeqMod = ((p % SeqMod) + 1) % SeqMod
  /\ \A p \in Nat : p % SeqMod = SeqOf(p + 1)
  /\ \A p \in Nat : p > 0 => ((p % SeqMod) + SeqMod - 1) % SeqMod = SeqOf(p)
<1> USE ParameterAssumption
<1>1. \A p \in Nat : p > 0 => SeqOf(p) \in SeqNum
  BY Division DEF SeqOf, SeqNum
<1>2. ASSUME NEW p \in Nat, NEW q \in Nat, 0 < p, p < q, SeqOf(p) = SeqOf(q)
      PROVE  q - p >= SeqMod
  <2>1. p - 1 \in Nat /\ q - 1 \in Nat /\ p - 1 < q - 1 /\ (q - 1) - (p - 1) = q - p
    BY <1>2
  <2>2. ~((q - 1) - (p - 1) < SeqMod)
    BY <1>2, <2>1, Apart DEF SeqOf
  <2> QED BY <2>1, <2>2
<1>3. \A p \in Nat : p % SeqMod = SeqOf(p + 1)
  <2>1. \A p \in Nat : (p + 1) - 1 = p
    OBVIOUS
  <2> QED BY <2>1 DEF SeqOf
<1>4. \A p \in Nat : p > 0 => ((p % SeqMod) + SeqMod - 1) % SeqMod = SeqOf(p)
  BY PreviousRemainder DEF SeqOf
<1> QED BY <1>1, <1>2, <1>3, <1>4, NextRemainder

-----------------------------------------------------------------------------
(* The calls and their results.                                            *)

Sending(n) == \E t \in Thread : Home[t] = n /\ call[t].pc \in Numbered

\* A numbered call carries the number of its packet, which has no result yet.
CallInv(t) ==
  /\ call[t].pc \in Numbered =>
       /\ call[t].seq = SeqOf(call[t].pkt)
       /\ log[Home[t]][call[t].pkt].rel = call[t].rel
       /\ log[Home[t]][call[t].pkt].res = "pending"
  /\ call[t].pc = "check" => call[t].rel

EntryInv(n, i) ==
  /\ log[n][i].res = "pending" => i = Len(log[n]) /\ Sending(n)
  /\ log[n][i].res = "sent" => ~log[n][i].rel
  /\ log[n][i].res = "acked" => log[n][i].rel
  /\ log[n][i].res # "crashed"

EntriesInv(n) ==
  /\ sequence[n] = Len(log[n]) % SeqMod
  /\ \A i \in 1 .. Len(log[n]) : EntryInv(n, i)

LogInv == (\A t \in Thread : CallInv(t)) /\ (\A n \in Node : EntriesInv(n))

\* Nothing new in the log, only the last packet may have got its result.
LogKept(n) ==
  /\ Len(log'[n]) = Len(log[n])
  /\ \A i \in 1 .. Len(log[n]) :
       /\ log'[n][i].rel = log[n][i].rel
       /\ i < Len(log[n]) => log'[n][i].res = log[n][i].res

LEMMA LogTypes ==
  ASSUME TInv, NEW n \in Node
  PROVE  /\ log \in [Node -> Seq(Entry)] /\ log[n] \in Seq(Entry) /\ Len(log[n]) \in Nat
         /\ \A i \in 1 .. Len(log[n]) : log[n][i] \in Entry
         /\ \A i \in 1 .. Len(log[n]) : log[n][i].rel \in BOOLEAN /\ log[n][i].res \in Result
         /\ sequence \in [Node -> SeqNum] /\ Peer[n] \in Node /\ Peer[n] # n /\ Peer[Peer[n]] = n
<1>1. log \in [Node -> Seq(Entry)] /\ log[n] \in Seq(Entry) /\ sequence \in [Node -> SeqNum]
      /\ Peer[n] \in Node /\ Peer[n] # n /\ Peer[Peer[n]] = n
  BY TopologyAssumption DEF TInv, TypeOK, Entry
<1>2. Len(log[n]) \in Nat /\ \A i \in 1 .. Len(log[n]) : log[n][i] \in Entry
  BY <1>1, LenProperties, ElementOfSeq
<1> QED BY <1>1, <1>2 DEF Entry

LEMMA NumberedFacts ==
  ASSUME TInv, NEW t \in Thread, call[t].pc \in Numbered
  PROVE  /\ Home[t] \in Node /\ call[t] \in CallRec
         /\ call[t].pkt = Len(log[Home[t]]) /\ call[t].pkt > 0
         /\ call[t].pkt \in 1 .. Len(log[Home[t]])
         /\ \A u \in Thread : Home[u] = Home[t] /\ call[u].pc \notin {"idle", "lock"} => u = t
<1>1. Home[t] \in Node /\ call[t] \in CallRec
  BY TopologyAssumption DEF TInv, TypeOK
<1>2. Len(log[Home[t]]) \in Nat
  BY <1>1, LogTypes
<1>3. call[t].pkt = Len(log[Home[t]]) /\ call[t].pkt > 0
  BY DEF TInv, LockInv
<1>4. \A u \in Thread : Home[u] = Home[t] /\ call[u].pc \notin {"idle", "lock"} => u = t
  BY DEF TInv, LockInv, Numbered
<1> QED BY <1>1, <1>2, <1>3, <1>4

LEMMA VerdictStep ==
  ASSUME TInv, NEW t \in Thread, call[t].pc \in Numbered, NEW r \in Result, Verdict(t, r)
  PROVE  /\ LogKept(Home[t]) /\ log'[Home[t]][Len(log[Home[t]])].res = r
         /\ \A k \in Node \ {Home[t]} : log'[k] = log[k]
<1> DEFINE n == Home[t]
           p == call[t].pkt
<1>1. n \in Node /\ p \in 1 .. Len(log[n]) /\ p = Len(log[n])
  BY NumberedFacts
<1>2. log \in [Node -> Seq(Entry)] /\ log[n] \in Seq(Entry) /\ log[n][p] \in Entry
      /\ Len(log[n]) \in Nat
  BY <1>1, LogTypes
<1>3. log' = [log EXCEPT ![n][p].res = r]
  BY DEF Verdict
<1> HIDE DEF p
<1>4. Len(log'[n]) = Len(log[n]) /\ \A k \in Node \ {n} : log'[k] = log[k]
  <2>1. log'[n] = [log[n] EXCEPT ![p].res = r] /\ \A k \in Node \ {n} : log'[k] = log[k]
    BY <1>1, <1>2, <1>3
  <2> QED BY <1>1, <1>2, <2>1, VerdictFacts
<1>5. log'[n] = [log[n] EXCEPT ![p] = [log[n][p] EXCEPT !.res = r]]
  BY <1>1, <1>2, <1>3
<1>6. \A i \in 1 .. Len(log[n]) : i # p => log'[n][i] = log[n][i]
  BY <1>1, <1>2, <1>5, LenProperties
<1>7. log'[n][p] = [log[n][p] EXCEPT !.res = r]
  BY <1>1, <1>2, <1>5, LenProperties
<1>8. log'[n][p].res = r /\ log'[n][p].rel = log[n][p].rel
  BY <1>2, <1>7 DEF Entry
<1> QED BY <1>1, <1>2, <1>4, <1>6, <1>8 DEF LogKept

\* The packet that takes the next number.
NewEntry(t) == [rel |-> call[t].rel, res |-> "pending"]

LEMMA AssembleStep ==
  ASSUME TInv, NEW t \in Thread, Assemble(t)
  PROVE  LET n == Home[t] IN
         /\ n \in Node /\ call[t].rel \in BOOLEAN
         /\ Len(log'[n]) = Len(log[n]) + 1
         /\ \A i \in 1 .. Len(log[n]) : log'[n][i] = log[n][i]
         /\ log'[n][Len(log[n]) + 1].rel = call[t].rel
         /\ log'[n][Len(log[n]) + 1].res = "pending"
         /\ \A k \in Node \ {n} : log'[k] = log[k] /\ sequence'[k] = sequence[k]
         /\ sequence'[n] = (sequence[n] + 1) % SeqMod
         /\ call'[t].pc = IF call[t].rel THEN "unset" ELSE "write"
         /\ call'[t].pkt = Len(log[n]) + 1 /\ call'[t].seq = sequence[n]
         /\ call'[t].rel = call[t].rel
         /\ ~Sending(n)
<1> DEFINE n == Home[t]
           e == NewEntry(t)
           pc == IF call[t].rel THEN "unset" ELSE "write"
           p == Len(log[n]) + 1
           s == sequence[n]
           c == WithNumber(call[t], pc, p, s)
<1>1. n \in Node /\ call \in [Thread -> CallRec] /\ call[t] \in CallRec /\ call[t].rel \in BOOLEAN
  BY TopologyAssumption DEF TInv, TypeOK, CallRec
<1>2. log \in [Node -> Seq(Entry)] /\ log[n] \in Seq(Entry) /\ Len(log[n]) \in Nat
      /\ sequence \in [Node -> SeqNum] /\ s \in SeqNum
  BY <1>1, LogTypes
<1>3. e \in Entry /\ e.rel = call[t].rel /\ e.res = "pending"
  BY <1>1 DEF NewEntry, Entry, Result
<1>4. /\ log' = [log EXCEPT ![n] = Append(@, e)]
      /\ sequence' = [sequence EXCEPT ![n] = (@ + 1) % SeqMod]
      /\ call' = [call EXCEPT ![t] = c]
  BY DEF Assemble, NewEntry, WithNumber
<1> HIDE DEF e
<1>5. /\ Len(log'[n]) = Len(log[n]) + 1
      /\ \A i \in 1 .. Len(log[n]) : log'[n][i] = log[n][i]
      /\ log'[n][Len(log[n]) + 1] = e
      /\ \A k \in Node \ {n} : log'[k] = log[k]
  BY <1>1, <1>2, <1>3, <1>4, AppendProperties
<1>6. /\ \A k \in Node \ {n} : sequence'[k] = sequence[k]
      /\ sequence'[n] = (sequence[n] + 1) % SeqMod
  BY <1>1, <1>2, <1>4
<1>7. c.pc = pc /\ c.rel = call[t].rel /\ c.pkt = p /\ c.seq = s
  <2>1. pc \in CallPC /\ p \in Nat
    BY <1>2 DEF CallPC
  <2> HIDE DEF pc, p, s, c
  <2> QED BY <1>1, <1>2, <2>1, WithNumberFacts DEF c
<1>8. call'[t] = c
  BY <1>1, <1>4
<1>9. ~Sending(n)
  <2>1. call[t].pc = "assemble"
    BY DEF Assemble
  <2>2. \A u \in Thread : Home[u] = n /\ call[u].pc \in Numbered => u = t
    BY <2>1 DEF TInv, LockInv, Numbered
  <2> QED BY <2>1, <2>2 DEF Sending, Numbered
<1> HIDE DEF c
<1> QED BY <1>1, <1>3, <1>5, <1>6, <1>7, <1>8, <1>9

\* The steps that give a packet its result.
Ends(t, r) ==
  /\ call[t].pc \in Numbered \ {"unset"} /\ call'[t].pc = "return" /\ Verdict(t, r)
  /\ UNCHANGED <<acked, current_acked_seq>>
  /\ r = "acked" => acked[Home[t]]
  /\ \/ r = "sent" /\ ~call[t].rel
     \/ r \in {"acked", "timeout"} /\ call[t].rel

\* The steps that concern neither the numbers nor the results.
Stays(t) ==
  /\ UNCHANGED <<log, sequence>>
  /\ call'[t].pc \in Numbered <=> call[t].pc \in Numbered
  /\ call'[t].pc \in Numbered => /\ call'[t].pkt = call[t].pkt /\ call'[t].seq = call[t].seq
                                 /\ call'[t].rel = call[t].rel
  /\ call'[t].pc = "check" => call'[t].rel

LEMMA LogSteps ==
  ASSUME TInv, LogInv, NEW t \in Thread, Call(t) \/ ThreadStep(t)
  PROVE  \/ Assemble(t)
         \/ \E r \in {"sent", "acked", "timeout"} : Ends(t, r) /\ UNCHANGED sequence
         \/ Stays(t)
<1>0. call \in [Thread -> CallRec] /\ call[t] \in CallRec
  BY DEF TInv, TypeOK
<1>1. CASE Call(t)
  <2>1. PICK r \in Modes : call' = [call EXCEPT ![t] = [NoCall EXCEPT !.pc = "lock", !.rel = r]]
    BY <1>1 DEF Call
  <2>2. call'[t].pc = "lock" /\ call[t].pc = "idle"
    BY <1>0, <1>1, <2>1 DEF Call, NoCall
  <2> QED BY <1>1, <2>2 DEF Call, Stays, Numbered
<1>2. CASE Lock(t) \/ Reject(t)
  <2>1. call[t].pc \in {"lock", "assemble"} /\ call'[t].pc \in {"assemble", "return"}
        /\ UNCHANGED <<log, sequence>>
    BY <1>0, <1>2, GotoFacts DEF Lock, Reject, CallPC
  <2> QED BY <2>1 DEF Stays, Numbered
<1>3. CASE Return(t)
  <2>1. call[t].pc = "return" /\ call'[t].pc = "idle" /\ UNCHANGED <<log, sequence>>
    BY <1>0, <1>3 DEF Return, NoCall
  <2> QED BY <2>1 DEF Stays, Numbered
<1>4. CASE Unset(t) \/ Wake(t) \/ Timeout(t)
  <2>1. PICK pc \in {"write", "check"} : Goto(t, pc)
    BY <1>4 DEF Unset, Wake, Timeout
  <2>2. call'[t].pc = pc /\ call'[t].rel = call[t].rel
        /\ call'[t].pkt = call[t].pkt /\ call'[t].seq = call[t].seq
    BY <1>0, <2>1, GotoFacts DEF CallPC
  <2>3. call[t].pc \in {"unset", "wait"} /\ UNCHANGED <<log, sequence>> /\ call[t].rel
    BY <1>4 DEF Unset, Wake, Timeout, TInv, LockInv
  <2> QED BY <2>1, <2>2, <2>3 DEF Stays, Numbered
<1>5. CASE CheckResend(t)
  <2> DEFINE d == [call[t] EXCEPT !.pc = "write", !.left = @ - 1]
  <2>1. call' = [call EXCEPT ![t] = d] /\ call[t].left > 0
    BY <1>5 DEF CheckResend
  <2>2. d.pc = "write" /\ d.rel = call[t].rel /\ d.pkt = call[t].pkt /\ d.seq = call[t].seq
    BY <1>0, <2>1, RetryFacts
  <2>3. call'[t] = d
    BY <1>0, <2>1
  <2> HIDE DEF d
  <2>4. call[t].pc = "check" /\ UNCHANGED <<log, sequence>>
    BY <1>5 DEF CheckResend
  <2> QED BY <2>2, <2>3, <2>4 DEF Stays, Numbered
<1>6. CASE Transmit(t)
  <2>1. call[t].pc = "write" /\ UNCHANGED sequence
    BY <1>6 DEF Transmit
  <2>2. CASE call[t].rel
    <3>1. Goto(t, "wait") /\ UNCHANGED log
      BY <1>6, <2>2 DEF Transmit
    <3>2. call'[t].pc = "wait" /\ call'[t].rel = call[t].rel
          /\ call'[t].pkt = call[t].pkt /\ call'[t].seq = call[t].seq
      BY <1>0, <3>1, GotoFacts DEF CallPC
    <3> QED BY <2>1, <3>1, <3>2 DEF Stays, Numbered
  <2>3. CASE ~call[t].rel
    <3>1. Goto(t, "return") /\ Verdict(t, "sent") /\ UNCHANGED <<acked, current_acked_seq>>
      BY <1>6, <2>3 DEF Transmit, ackVars
    <3>2. call'[t].pc = "return"
      BY <1>0, <3>1, GotoFacts DEF CallPC
    <3> QED BY <2>1, <2>3, <3>1, <3>2 DEF Ends, Numbered
  <2> QED BY <2>2, <2>3
<1>7. CASE CheckAcked(t) \/ CheckGiveUp(t)
  <2>1. PICK r \in {"acked", "timeout"} : Verdict(t, r) /\ (r = "acked" => acked[Home[t]])
    BY <1>7 DEF CheckAcked, CheckGiveUp
  <2>2. call[t].pc = "check" /\ Goto(t, "return")
        /\ UNCHANGED <<sequence, acked, current_acked_seq>>
    BY <1>7 DEF CheckAcked, CheckGiveUp, ackVars
  <2>3. call'[t].pc = "return"
    BY <1>0, <2>2, GotoFacts DEF CallPC
  <2>4. call[t].rel
    BY <2>2 DEF LogInv, CallInv
  <2> QED BY <2>1, <2>2, <2>3, <2>4 DEF Ends, Numbered
<1> QED BY <1>1, <1>2, <1>3, <1>4, <1>5, <1>6, <1>7 DEF ThreadStep, Write, Wait, Check

\* Nothing but a thread changes the calls and the log, as no end restarts.
LEMMA OtherLog ==
  ASSUME SoundLine, NEW n \in Node, ParseStep(n) \/ Environment(n)
  PROVE  UNCHANGED <<sequence, app_send_sync_lock, call, log>>
<1>1. ~Restart(n)
  BY DEF SoundLine, Restart
<1> QED BY <1>1 DEF ParseStep, ReceiveBadLength, ReceiveAcked, ReceiveStaleAcked, ReceiveNacked,
     ReceiveCorrupt, ReceiveData, SetAcked, Break, Deliver, Environment, Lose, Damage, senderVars

LEMMA AssembleLogInv ==
  ASSUME TInv, LogInv, NEW t \in Thread, Assemble(t)
  PROVE  LogInv'
<1> DEFINE n == Home[t]
<1>1. /\ n \in Node /\ call[t].rel \in BOOLEAN
      /\ Len(log'[n]) = Len(log[n]) + 1
      /\ \A i \in 1 .. Len(log[n]) : log'[n][i] = log[n][i]
      /\ log'[n][Len(log[n]) + 1].rel = call[t].rel
      /\ log'[n][Len(log[n]) + 1].res = "pending"
      /\ \A k \in Node \ {n} : log'[k] = log[k] /\ sequence'[k] = sequence[k]
      /\ sequence'[n] = (sequence[n] + 1) % SeqMod
      /\ call'[t].pc = IF call[t].rel THEN "unset" ELSE "write"
      /\ call'[t].pkt = Len(log[n]) + 1 /\ call'[t].seq = sequence[n]
      /\ call'[t].rel = call[t].rel
      /\ ~Sending(n)
  BY AssembleStep
<1>2. \A u \in Thread \ {t} : call'[u] = call[u]
  BY ThreadFacts DEF ThreadStep
<1>3. Len(log[n]) \in Nat /\ sequence[n] = Len(log[n]) % SeqMod
  BY <1>1, LogTypes DEF LogInv, EntriesInv
<1>4. ASSUME NEW u \in Thread
      PROVE  CallInv(u)'
  <2>1. CASE u = t
    <3>1. call'[t].seq = SeqOf(call'[t].pkt)
      BY <1>1, <1>3, SeqOfFacts
    <3> QED BY <1>1, <2>1, <3>1 DEF CallInv
  <2>2. CASE u # t
    <3>1. CallInv(u) /\ call'[u] = call[u] /\ Home[u] \in Node
      BY <1>2, <2>2, TopologyAssumption DEF LogInv
    <3>2. call[u].pc \in Numbered => Home[u] # n
      BY <1>1 DEF Sending
    <3> QED BY <1>1, <3>1, <3>2 DEF CallInv
  <2> QED BY <2>1, <2>2
<1>5. ASSUME NEW k \in Node, k # n
      PROVE  EntriesInv(k)'
  <2>1. log'[k] = log[k] /\ sequence'[k] = sequence[k] /\ EntriesInv(k)
    BY <1>1, <1>5 DEF LogInv
  <2>2. Sending(k) => Sending(k)'
    BY <1>2, <1>5 DEF Sending
  <2> QED BY <2>1, <2>2 DEF EntriesInv, EntryInv
<1>6. EntriesInv(n)'
  <2>1. sequence'[n] = Len(log'[n]) % SeqMod
    BY <1>1, <1>3, SeqOfFacts
  <2>2. ASSUME NEW i \in 1 .. Len(log'[n])
        PROVE  EntryInv(n, i)'
    <3>1. CASE i = Len(log[n]) + 1
      <4>1. Sending(n)'
        BY <1>1 DEF Sending, Numbered
      <4> QED BY <1>1, <3>1, <4>1 DEF EntryInv
    <3>2. CASE i # Len(log[n]) + 1
      <4>1. i \in 1 .. Len(log[n]) /\ log'[n][i] = log[n][i]
        BY <1>1, <1>3, <3>2
      <4>2. EntryInv(n, i)
        BY <1>1, <4>1 DEF LogInv, EntriesInv
      <4> QED BY <1>1, <4>1, <4>2 DEF EntryInv
    <3> QED BY <3>1, <3>2
  <2> QED BY <2>1, <2>2 DEF EntriesInv
<1> QED BY <1>4, <1>5, <1>6 DEF LogInv

LEMMA EndsLogInv ==
  ASSUME TInv, LogInv, NEW t \in Thread, Call(t) \/ ThreadStep(t),
         NEW r \in {"sent", "acked", "timeout"}, Ends(t, r), UNCHANGED sequence
  PROVE  LogInv'
<1> DEFINE n == Home[t]
<1>1. \A u \in Thread \ {t} : call'[u] = call[u]
  BY ThreadFacts
<1>2. /\ n \in Node /\ call[t].pkt = Len(log[n]) /\ call[t].pkt \in 1 .. Len(log[n])
      /\ \A u \in Thread : Home[u] = n /\ call[u].pc \notin {"idle", "lock"} => u = t
  BY NumberedFacts DEF Ends
<1>3. /\ LogKept(n) /\ log'[n][Len(log[n])].res = r /\ \A k \in Node \ {n} : log'[k] = log[k]
  BY VerdictStep DEF Ends, Result
<1>4. ASSUME NEW u \in Thread
      PROVE  CallInv(u)'
  <2>1. CASE u = t
    BY <2>1 DEF Ends, CallInv, Numbered
  <2>2. CASE u # t
    <3>1. CallInv(u) /\ call'[u] = call[u] /\ Home[u] \in Node
      BY <1>1, <2>2, TopologyAssumption DEF LogInv
    <3>2. call[u].pc \in Numbered => Home[u] # n
      BY <1>2, <2>2 DEF Numbered
    <3> QED BY <1>3, <3>1, <3>2 DEF CallInv
  <2> QED BY <2>1, <2>2
<1>5. ASSUME NEW k \in Node, k # n
      PROVE  EntriesInv(k)'
  <2>1. log'[k] = log[k] /\ EntriesInv(k)
    BY <1>3, <1>5 DEF LogInv
  <2>2. Sending(k) => Sending(k)'
    BY <1>1, <1>5 DEF Sending
  <2> QED BY <2>1, <2>2 DEF EntriesInv, EntryInv
<1>6. EntriesInv(n)'
  <2>0. EntriesInv(n) /\ Len(log'[n]) = Len(log[n]) /\ Len(log[n]) \in Nat
    BY <1>2, <1>3, LogTypes DEF LogInv, LogKept
  <2>1. ASSUME NEW i \in 1 .. Len(log'[n])
        PROVE  EntryInv(n, i)'
    <3>1. CASE i = Len(log[n])
      <4>1. log'[n][i].res = r /\ log'[n][i].rel = log[n][i].rel
        BY <1>2, <1>3, <3>1 DEF LogKept
      <4>2. log[n][i].rel = call[t].rel
        BY <1>2, <3>1 DEF LogInv, CallInv, Ends
      <4> QED BY <4>1, <4>2 DEF EntryInv, Ends
    <3>2. CASE i # Len(log[n])
      <4>1. i \in 1 .. Len(log[n]) /\ i < Len(log[n])
        BY <2>0, <3>2
      <4>2. log'[n][i].res = log[n][i].res /\ log'[n][i].rel = log[n][i].rel
        BY <1>3, <4>1 DEF LogKept
      <4>3. EntryInv(n, i)
        BY <2>0, <4>1 DEF EntriesInv
      <4> QED BY <4>1, <4>2, <4>3 DEF EntryInv
    <3> QED BY <3>1, <3>2
  <2> QED BY <2>0, <2>1 DEF EntriesInv
<1> QED BY <1>4, <1>5, <1>6 DEF LogInv

LEMMA StaysLogInv ==
  ASSUME TInv, LogInv, NEW t \in Thread, Call(t) \/ ThreadStep(t), Stays(t)
  PROVE  LogInv'
<1>1. \A u \in Thread \ {t} : call'[u] = call[u]
  BY ThreadFacts
<1>2. UNCHANGED <<log, sequence>>
  BY DEF Stays
<1>3. ASSUME NEW u \in Thread
      PROVE  CallInv(u)'
  <2>1. CASE u = t
    <3>1. CallInv(t)
      BY DEF LogInv
    <3> QED BY <1>2, <2>1, <3>1 DEF CallInv, Stays
  <2>2. CASE u # t
    <3>1. CallInv(u) /\ call'[u] = call[u]
      BY <1>1, <2>2 DEF LogInv
    <3> QED BY <1>2, <3>1 DEF CallInv
  <2> QED BY <2>1, <2>2
<1>4. ASSUME NEW k \in Node
      PROVE  EntriesInv(k)'
  <2>1. EntriesInv(k)
    BY DEF LogInv
  <2>2. Sending(k) => Sending(k)'
    BY <1>1 DEF Sending, Stays
  <2> QED BY <1>2, <2>1, <2>2 DEF EntriesInv, EntryInv
<1> QED BY <1>3, <1>4 DEF LogInv

LEMMA InitLogInv == Init => LogInv
<1> SUFFICES ASSUME Init PROVE LogInv
  OBVIOUS
<1>1. \A t \in Thread : call[t].pc = "idle"
  BY DEF Init, NoCall
<1>2. \A n \in Node : log[n] = << >> /\ sequence[n] = 0 /\ Len(log[n]) = 0
  BY DEF Init
<1>3. 0 % SeqMod = 0
  <2>1. (SeqMod * 0) + 0 = 0
    BY ParameterAssumption
  <2>2. ((SeqMod * 0) + 0) % SeqMod = 0
    BY ParameterAssumption, Remainder
  <2> QED BY <2>1, <2>2
<1> QED BY <1>1, <1>2, <1>3 DEF LogInv, CallInv, EntriesInv, Numbered

LEMMA NextLogInv ==
  ASSUME SoundLine, TInv, LogInv, [Next]_vars
  PROVE  LogInv'
<1>1. ASSUME NEW t \in Thread, Call(t) \/ ThreadStep(t)
      PROVE  LogInv'
  BY <1>1, LogSteps, AssembleLogInv, EndsLogInv, StaysLogInv
<1>2. CASE UNCHANGED <<sequence, call, log>>
  <2>1. \A t \in Thread : CallInv(t)'
    BY <1>2 DEF LogInv, CallInv
  <2>2. \A n \in Node : EntriesInv(n)'
    BY <1>2 DEF LogInv, EntriesInv, EntryInv, Sending
  <2> QED BY <2>1, <2>2 DEF LogInv
<1>3. ASSUME NEW n \in Node, ParseStep(n) \/ Environment(n)
      PROVE  LogInv'
  BY <1>2, <1>3, OtherLog
<1>4. UNCHANGED vars => UNCHANGED <<sequence, call, log>>
  BY DEF vars, senderVars
<1> QED BY <1>1, <1>2, <1>3, <1>4 DEF Next

-----------------------------------------------------------------------------
(* The line: what it carries, and in which order the answers come.         *)

Acks(w) == {i \in 1 .. Len(w) : IsAcked(w[i])}

\* Once an acknowledgement s comes, only acknowledgements s follow.
Settles(w, s) == \A i, j \in Acks(w) : i < j /\ w[i].seq = s => w[j].seq = s

Same(f, g) == f.pkt = g.pkt /\ f.seq = g.seq /\ f.ctrl = g.ctrl

\* Line v has no packet, no acknowledgement that line w does not have.
PacketsKept(w, v) ==
  \A i \in 1 .. Len(v) : v[i].pkt > 0 => \E j \in 1 .. Len(w) : Same(v[i], w[j])

AcksKept(w, v) ==
  /\ \A i \in Acks(v) : \E j \in Acks(w) : v[i].seq = w[j].seq
  /\ \A s \in SeqNum : Settles(w, s) => Settles(v, s)

LEMMA SelfKept ==
  ASSUME NEW w
  PROVE  PacketsKept(w, w) /\ AcksKept(w, w)
  BY DEF PacketsKept, AcksKept, Same

LEMMA TailKept ==
  ASSUME NEW w \in Seq(Frame), w # << >>
  PROVE  /\ PacketsKept(w, Tail(w)) /\ AcksKept(w, Tail(w))
         /\ IsAcked(Head(w)) => \E i \in Acks(w) : w[i].seq = Head(w).seq
         /\ IsAcked(Head(w)) /\ Settles(w, Head(w).seq) =>
              \A i \in Acks(Tail(w)) : Tail(w)[i].seq = Head(w).seq
<1>1. /\ Len(w) \in Nat /\ Len(w) > 0 /\ Len(Tail(w)) = Len(w) - 1
      /\ \A i \in 1 .. Len(Tail(w)) : i + 1 \in 1 .. Len(w) /\ Tail(w)[i] = w[i + 1] /\ 1 < i + 1
      /\ Head(w) = w[1] /\ 1 \in 1 .. Len(w)
  BY HeadTailProperties, LenProperties, EmptySeq
<1>2. \A i \in Acks(Tail(w)) : i + 1 \in Acks(w) /\ Tail(w)[i] = w[i + 1] /\ 1 < i + 1
  BY <1>1 DEF Acks
<1>3. PacketsKept(w, Tail(w))
  BY <1>1 DEF PacketsKept, Same
<1>4. AcksKept(w, Tail(w))
  <2>1. \A i, j \in Acks(Tail(w)) : i < j => i + 1 < j + 1
    BY <1>1 DEF Acks
  <2> QED BY <1>2, <2>1 DEF AcksKept, Settles
<1>5. IsAcked(Head(w)) => 1 \in Acks(w)
  BY <1>1 DEF Acks
<1> QED BY <1>1, <1>2, <1>3, <1>4, <1>5 DEF Settles

LEMMA DamageKept ==
  ASSUME NEW w \in Seq(Frame), w # << >>, NEW g \in Frame, Same(g, Head(w))
  PROVE  PacketsKept(w, <<g>> \o Tail(w)) /\ AcksKept(w, <<g>> \o Tail(w))
<1> DEFINE v == <<g>> \o Tail(w)
<1>1. /\ Len(w) \in Nat /\ Len(w) > 0 /\ Tail(w) \in Seq(Frame) /\ Len(Tail(w)) = Len(w) - 1
      /\ \A i \in 1 .. Len(Tail(w)) : Tail(w)[i] = w[i + 1]
      /\ Head(w) = w[1]
  BY HeadTailProperties, LenProperties, EmptySeq
<1>2. <<g>> \in Seq(Frame) /\ Len(<<g>>) = 1 /\ <<g>>[1] = g
  OBVIOUS
<1>3. /\ Len(v) = Len(<<g>>) + Len(Tail(w))
      /\ \A i \in 1 .. Len(<<g>>) + Len(Tail(w)) :
           v[i] = IF i <= Len(<<g>>) THEN <<g>>[i] ELSE Tail(w)[i - Len(<<g>>)]
  BY <1>1, <1>2, ConcatProperties
<1>4. Len(v) = Len(w)
  BY <1>1, <1>2, <1>3
<1>5. ASSUME NEW i \in 1 .. Len(w)
      PROVE  Same(v[i], w[i])
  <2>1. CASE i = 1
    BY <1>1, <1>2, <1>3, <2>1
  <2>2. CASE i > 1
    <3>1. v[i] = Tail(w)[i - 1] /\ i - 1 \in 1 .. Len(Tail(w))
      BY <1>1, <1>2, <1>3, <2>2
    <3>2. Tail(w)[i - 1] = w[(i - 1) + 1] /\ (i - 1) + 1 = i
      BY <1>1, <3>1
    <3> QED BY <3>1, <3>2 DEF Same
  <2> QED BY <2>1, <2>2
<1> HIDE DEF v
<1>6. \A i \in Acks(v) : i \in Acks(w) /\ v[i].seq = w[i].seq
  BY <1>4, <1>5 DEF Acks, IsAcked, Same
<1>7. AcksKept(w, v)
  BY <1>6 DEF AcksKept, Settles
<1>8. PacketsKept(w, v)
  BY <1>4, <1>5 DEF PacketsKept
<1> QED BY <1>7, <1>8 DEF v

\* A frame put on the line comes last.
LEMMA PutKept ==
  ASSUME NEW w \in Seq(Frame), NEW f \in Frame
  PROVE  LET v == Put(w, f) IN
         /\ \A i \in 1 .. Len(v) : v[i] = f \/ \E j \in 1 .. Len(w) : v[i] = w[j]
         /\ \A i \in Acks(v) : v[i] = f \/ \E j \in Acks(w) : v[i] = w[j]
         /\ \A s \in SeqNum :
              Settles(w, s) /\ ((\E i \in Acks(w) : w[i].seq = s) => f.seq = s) => Settles(v, s)
         /\ f.pkt = 0 => PacketsKept(w, v)
         /\ ~IsAcked(f) => AcksKept(w, v)
<1> DEFINE v == Put(w, f)
<1>0. /\ Len(w) \in Nat /\ Len(v) \in {Len(w), Len(w) + 1}
      /\ \A i \in 1 .. Len(w) : v[i] = w[i]
      /\ Len(v) = Len(w) + 1 => v[Len(w) + 1] = f
  BY PutFacts, LenProperties
<1> HIDE DEF v
<1>1. \A i \in 1 .. Len(v) : \/ i \in 1 .. Len(w) /\ v[i] = w[i]
                             \/ i = Len(w) + 1 /\ v[i] = f
  BY <1>0
<1>2. \A i \in Acks(v) : \/ i \in Acks(w) /\ v[i] = w[i]
                         \/ i = Len(w) + 1 /\ v[i] = f
  BY <1>1 DEF Acks
<1>3. ASSUME NEW s \in SeqNum, Settles(w, s), (\E i \in Acks(w) : w[i].seq = s) => f.seq = s
      PROVE  Settles(v, s)
  <2> SUFFICES ASSUME NEW i \in Acks(v), NEW j \in Acks(v), i < j, v[i].seq = s
               PROVE  v[j].seq = s
    BY DEF Settles
  <2>1. i \in Acks(w) /\ v[i] = w[i]
    <3>1. j \in 1 .. Len(v) /\ i \in 1 .. Len(v)
      BY DEF Acks
    <3>2. i # Len(w) + 1
      BY <1>0, <3>1
    <3> QED BY <1>2, <3>2
  <2>2. CASE j \in Acks(w) /\ v[j] = w[j]
    BY <1>3, <2>1, <2>2 DEF Settles
  <2>3. CASE v[j] = f
    BY <1>3, <2>1, <2>3
  <2> QED BY <1>2, <2>2, <2>3
<1>4. f.pkt = 0 => PacketsKept(w, v)
  BY <1>1 DEF PacketsKept, Same, Frame
<1>5. ASSUME ~IsAcked(f) PROVE AcksKept(w, v)
  <2>1. \A i \in Acks(v) : i \in Acks(w) /\ v[i] = w[i]
    BY <1>2, <1>5 DEF Acks
  <2> QED BY <2>1 DEF AcksKept, Settles
<1> QED BY <1>1, <1>2, <1>3, <1>4, <1>5 DEF v

\* What a step does to the line of end n.
Sends(n, t) ==
  Home[t] = n /\ Transmit(t) /\ wire'[n] = Put(wire[n], DataFrame(call[t]))

Acknowledges(n) ==
  /\ ReceiveData(n) /\ "ACK" \in Incoming(n).ctrl
  /\ wire'[n] = Put(wire[n], AckFrame(Incoming(n).seq))

LineMove(n) ==
  /\ PacketsKept(wire[n], wire'[n]) \/ \E t \in Thread : Sends(n, t)
  /\ AcksKept(wire[n], wire'[n]) \/ Acknowledges(n)

LEMMA LineStays ==
  ASSUME NEW n \in Node, wire'[n] = wire[n]
  PROVE  LineMove(n)
  BY SelfKept DEF LineMove

LEMMA ThreadLineMove ==
  ASSUME TInv, NEW t \in Thread, Call(t) \/ ThreadStep(t)
  PROVE  \A n \in Node : LineMove(n)
<1>0. /\ wire \in [Node -> Seq(Frame)] /\ call \in [Thread -> CallRec] /\ Home[t] \in Node
  BY TopologyAssumption DEF TInv, TypeOK
<1>1. CASE Transmit(t)
  <2> DEFINE n == Home[t]
             d == DataFrame(call[t])
  <2>1. call[t].pc = "write" /\ wire' = [wire EXCEPT ![n] = Put(@, d)]
    BY <1>1 DEF Transmit
  <2>2. wire'[n] = Put(wire[n], d) /\ \A k \in Node \ {n} : wire'[k] = wire[k]
    BY <1>0, <2>1
  <2>3. d \in Frame /\ ~IsAcked(d)
    <3>1. d \in Frame
      BY <1>0, FrameFacts
    <3>2. d.ctrl \in {{"ACK"}, {}}
      BY DEF DataFrame
    <3> QED BY <3>1, <3>2 DEF IsAcked
  <2>4. wire[n] \in Seq(Frame)
    BY <1>0
  <2>5. Sends(n, t)
    BY <1>1, <2>2 DEF Sends
  <2> HIDE DEF d
  <2>6. AcksKept(wire[n], wire'[n])
    BY <2>2, <2>3, <2>4, PutKept
  <2>7. LineMove(n)
    BY <2>5, <2>6 DEF LineMove
  <2> QED BY <2>2, <2>7, LineStays
<1>2. CASE ~Transmit(t)
  <2>1. UNCHANGED wire
    BY <1>2 DEF ThreadStep, Write, Wait, Check, Call, Lock, Reject, Assemble, Unset,
         Wake, Timeout, CheckAcked, CheckResend, CheckGiveUp, Return
  <2> QED BY <2>1, LineStays
<1> QED BY <1>1, <1>2

LEMMA ParseLineMove ==
  ASSUME TInv, NEW n \in Node, ParseStep(n)
  PROVE  \A k \in Node : LineMove(k)
<1>0. /\ TypeOK /\ wire \in [Node -> Seq(Frame)] /\ wire[n] \in Seq(Frame)
      /\ Peer[n] \in Node /\ Peer[n] # n /\ wire[Peer[n]] \in Seq(Frame)
  BY TopologyAssumption DEF TInv, TypeOK
<1>1. CASE SetAcked(n) \/ Break(n) \/ Deliver(n)
  <2>1. UNCHANGED wire
    BY <1>1 DEF SetAcked, Break, Deliver
  <2> QED BY <2>1, LineStays
<1>2. CASE ~(SetAcked(n) \/ Break(n) \/ Deliver(n))
  <2> DEFINE a == AckFrame(Incoming(n).seq)
             k == NackFrame(Incoming(n).seq)
  <2>1. /\ FrameReady(n)
        /\ \/ Take(n) \/ Answer(n, k)
           \/ ReceiveData(n) /\ "ACK" \in Incoming(n).ctrl /\ Answer(n, a)
    BY <1>2 DEF ParseStep, ReceiveBadLength, ReceiveAcked, ReceiveStaleAcked, ReceiveNacked,
       ReceiveCorrupt, ReceiveData, LengthGood
  <2>2. a \in Frame /\ k \in Frame /\ a.pkt = 0 /\ k.pkt = 0 /\ ~IsAcked(k)
    <3>1. a \in Frame /\ k \in Frame
      BY <1>0, <2>1, LineFacts, FrameFacts
    <3> QED BY <3>1 DEF AckFrame, NackFrame, IsAcked
  <2>3. /\ wire'[Peer[n]] = Tail(wire[Peer[n]])
        /\ \/ wire'[n] = wire[n] \/ wire'[n] = Put(wire[n], k)
           \/ wire'[n] = Put(wire[n], a) /\ Acknowledges(n)
        /\ \A l \in Node \ {n, Peer[n]} : wire'[l] = wire[l]
    BY <1>0, <2>1 DEF Take, Answer, Acknowledges
  <2> HIDE DEF a, k
  <2>4. LineMove(Peer[n])
    BY <1>0, <2>1, <2>3, TailKept DEF LineMove, FrameReady
  <2>5. LineMove(n)
    <3>1. CASE wire'[n] = wire[n]
      BY <3>1, LineStays
    <3>2. CASE wire'[n] = Put(wire[n], k)
      BY <1>0, <2>2, <3>2, PutKept DEF LineMove
    <3>3. CASE wire'[n] = Put(wire[n], a) /\ Acknowledges(n)
      BY <1>0, <2>2, <3>3, PutKept DEF LineMove
    <3> QED BY <2>3, <3>1, <3>2, <3>3
  <2> QED BY <2>3, <2>4, <2>5, LineStays
<1> QED BY <1>1, <1>2

LEMMA EnvironmentLineMove ==
  ASSUME SoundLine, TInv, NEW n \in Node, Environment(n)
  PROVE  \A k \in Node : LineMove(k)
<1>0. wire \in [Node -> Seq(Frame)] /\ wire[n] \in Seq(Frame)
  BY DEF TInv, TypeOK
<1>1. CASE Lose(n)
  <2>1. wire'[n] = Tail(wire[n]) /\ wire[n] # << >> /\ \A k \in Node \ {n} : wire'[k] = wire[k]
    BY <1>0, <1>1 DEF Lose
  <2>2. LineMove(n)
    BY <1>0, <2>1, TailKept DEF LineMove
  <2> QED BY <2>1, <2>2, LineStays
<1>2. CASE Damage(n)
  <2>1. PICK c \in {"sum", "len"}, s \in SeqNum, b \in SUBSET Bits :
          /\ s = Head(wire[n]).seq /\ b = Head(wire[n]).ctrl
          /\ wire' = [wire EXCEPT ![n] = <<Noisy(Head(wire[n]), c, s, b)>> \o Tail(@)]
    BY <1>2 DEF Damage, SoundLine
  <2> DEFINE g == Noisy(Head(wire[n]), c, s, b)
  <2>2. wire[n] # << >> /\ Head(wire[n]) \in Frame
    BY <1>0, <1>2, HeadTailProperties DEF Damage
  <2>3. g \in Frame
    BY <2>2, FrameFacts
  <2>4. Same(g, Head(wire[n]))
    BY <2>1, <2>2 DEF Same, Noisy, Frame
  <2>5. wire'[n] = <<g>> \o Tail(wire[n]) /\ \A k \in Node \ {n} : wire'[k] = wire[k]
    BY <1>0, <2>1
  <2> HIDE DEF g
  <2>6. LineMove(n)
    BY <1>0, <2>2, <2>3, <2>4, <2>5, DamageKept DEF LineMove
  <2> QED BY <2>5, <2>6, LineStays
<1>3. ~Restart(n)
  BY DEF SoundLine, Restart
<1> QED BY <1>1, <1>2, <1>3 DEF Environment

-----------------------------------------------------------------------------
(* Packets keep their numbers on their way to the application.             *)

\* What frame f of end n says of the packet it carries is true.
TellsTruth(n, f) ==
  /\ f.pkt <= Len(log[n]) /\ f.seq = SeqOf(f.pkt)
  /\ "ACK" \in f.ctrl => log[n][f.pkt].rel

CarryInv(n) ==
  LET m == Peer[n] IN
  /\ restarts[m] = 0
  /\ \A i \in 1 .. Len(wire[n]) : wire[n][i].pkt > 0 => TellsTruth(n, wire[n][i])
  /\ rx[m].pc = "deliver" =>
       rx[m].frm.pkt \in 1 .. Len(log[n]) /\ rx[m].frm.seq = SeqOf(rx[m].frm.pkt)
  /\ delivered[m] = << >> => last_recv_packet_seq[m] = NoSeq
  /\ delivered[m] # << >> =>
       Latest(m) \in 1 .. Len(log[n]) /\ last_recv_packet_seq[m] = SeqOf(Latest(m))

\* A packet whose first write is still to come is nowhere.
UnsentInv(n) ==
  \A t \in Thread : Home[t] = n /\ call[t].pc = "unset" =>
    /\ \A i \in 1 .. Len(wire[n]) : wire[n][i].pkt # call[t].pkt
    /\ ~Received(n, call[t].pkt)

LogGrows(n) ==
  /\ Len(log[n]) <= Len(log'[n])
  /\ \A i \in 1 .. Len(log[n]) : log'[n][i].rel = log[n][i].rel

LEMMA NextLogGrows ==
  ASSUME SoundLine, TInv, LogInv, [Next]_vars
  PROVE  \A n \in Node : LogGrows(n)
<1>1. ASSUME NEW n \in Node, log'[n] = log[n]
      PROVE  LogGrows(n)
  <2>1. Len(log[n]) \in Nat
    BY LogTypes
  <2> QED BY <1>1, <2>1 DEF LogGrows
<1>2. ASSUME NEW t \in Thread, Call(t) \/ ThreadStep(t)
      PROVE  \A n \in Node : LogGrows(n)
  <2>1. CASE Assemble(t)
    <3>1. /\ Home[t] \in Node /\ Len(log[Home[t]]) \in Nat
          /\ Len(log'[Home[t]]) = Len(log[Home[t]]) + 1
          /\ \A i \in 1 .. Len(log[Home[t]]) : log'[Home[t]][i] = log[Home[t]][i]
          /\ \A k \in Node \ {Home[t]} : log'[k] = log[k]
      BY <2>1, TopologyAssumption, LogTypes, AssembleStep
    <3>2. LogGrows(Home[t])
      BY <3>1 DEF LogGrows
    <3> QED BY <1>1, <3>1, <3>2
  <2>2. ASSUME NEW r \in {"sent", "acked", "timeout"}, Ends(t, r)
        PROVE  \A n \in Node : LogGrows(n)
    <3>1. Len(log[Home[t]]) \in Nat
      BY TopologyAssumption, LogTypes
    <3>2. LogKept(Home[t]) /\ \A k \in Node \ {Home[t]} : log'[k] = log[k]
      BY <2>2, VerdictStep DEF Ends, Result
    <3> QED BY <1>1, <3>1, <3>2 DEF LogGrows, LogKept
  <2>3. CASE Stays(t)
    BY <1>1, <2>3 DEF Stays
  <2> QED BY <1>2, <2>1, <2>2, <2>3, LogSteps
<1>3. ASSUME NEW n \in Node, ParseStep(n) \/ Environment(n)
      PROVE  \A k \in Node : LogGrows(k)
  BY <1>1, <1>3, OtherLog
<1>4. UNCHANGED vars => \A n \in Node : LogGrows(n)
  BY <1>1 DEF vars, senderVars
<1> QED BY <1>2, <1>3, <1>4 DEF Next

LEMMA NextLineMove ==
  ASSUME SoundLine, TInv, [Next]_vars
  PROVE  \A n \in Node : LineMove(n)
<1>1. UNCHANGED vars => \A n \in Node : LineMove(n)
  BY LineStays DEF vars
<1> QED BY <1>1, ThreadLineMove, ParseLineMove, EnvironmentLineMove DEF Next

\* What a step does to the receiving side of end m.
Listens(m) ==
  /\ delivered'[m] = delivered[m] /\ last_recv_packet_seq'[m] = last_recv_packet_seq[m]
  /\ rx[m].pc = "deliver" \/ rx'[m].pc = "deliver" => rx'[m] = rx[m]

LEMMA NextReceives ==
  ASSUME SoundLine, TInv, [Next]_vars
  PROVE  /\ restarts' = restarts
         /\ \A m \in Node : Deliver(m) \/ ReceiveData(m) \/ Listens(m)
<1>0. rx \in [Node -> RxRec] /\ delivered \in [Node -> Seq(Nat)]
      /\ last_recv_packet_seq \in [Node -> SeqNum \cup {NoSeq}]
  BY DEF TInv, TypeOK
<1>1. ASSUME NEW t \in Thread, Call(t) \/ ThreadStep(t)
      PROVE  restarts' = restarts /\ \A m \in Node : Listens(m)
  BY <1>1, ThreadFacts DEF Listens
<1>2. ASSUME NEW n \in Node, Environment(n)
      PROVE  restarts' = restarts /\ \A m \in Node : Listens(m)
  <2>1. ~Restart(n)
    BY DEF SoundLine, Restart
  <2> QED BY <1>2, <2>1 DEF Environment, Lose, Damage, Listens, receiverVars
<1>3. ASSUME NEW n \in Node, ParseStep(n)
      PROVE  /\ restarts' = restarts
             /\ \A m \in Node : Deliver(m) \/ ReceiveData(m) \/ Listens(m)
  <2>1. restarts' = restarts
    BY <1>3 DEF ParseStep, ReceiveBadLength, ReceiveAcked, ReceiveStaleAcked, ReceiveNacked,
       ReceiveCorrupt, ReceiveData, SetAcked, Break, Deliver, faultVars
  <2>2. ASSUME NEW m \in Node, m # n
        PROVE  Listens(m)
    BY <1>0, <1>3, <2>2 DEF ParseStep, ReceiveBadLength, ReceiveAcked, ReceiveStaleAcked,
       ReceiveNacked, ReceiveCorrupt, ReceiveData, SetAcked, Break, Deliver, RxGoto, receiverVars,
       Listens
  <2>3. Deliver(n) \/ ReceiveData(n) \/ Listens(n)
    BY <1>0, <1>3 DEF ParseStep, ReceiveBadLength, ReceiveAcked, ReceiveStaleAcked,
       ReceiveNacked, ReceiveCorrupt, SetAcked, Break, LengthGood, FrameReady, RxGoto, IdleRx,
       RxRec, receiverVars, Listens
  <2> QED BY <2>1, <2>2, <2>3
<1>4. UNCHANGED vars => restarts' = restarts /\ \A m \in Node : Listens(m)
  BY DEF vars, receiverVars, faultVars, Listens
<1> QED BY <1>1, <1>2, <1>3, <1>4 DEF Next

\* The good packet that the parse thread of m takes.
LEMMA ReceiveDataFacts ==
  ASSUME TInv, OrderInv, NEW n \in Node, ReceiveData(Peer[n])
  PROVE  LET m == Peer[n]
             f == Incoming(m)
         IN  /\ f \in Frame /\ Intact(f) /\ f \in IntactFrames(wire[n])
             /\ \E i \in 1 .. Len(wire[n]) : wire[n][i] = f
             /\ rx[m].pc = "idle"
             /\ rx'[m] = [pc |-> "deliver", frm |-> f]
             /\ UNCHANGED <<delivered, last_recv_packet_seq, log, call>>
<1> DEFINE m == Peer[n]
           f == Incoming(m)
<1>1. /\ m \in Node /\ Peer[m] = n /\ wire[n] \in Seq(Frame) /\ wire[n] # << >>
      /\ rx \in [Node -> RxRec] /\ f = Head(wire[n])
  BY TopologyAssumption DEF TInv, TypeOK, ReceiveData, LengthGood, FrameReady, Incoming
<1>2. f \in Frame /\ f = wire[n][1] /\ 1 \in 1 .. Len(wire[n])
  BY <1>1, HeadTailProperties, LenProperties, EmptySeq
<1>3. Intact(f)
  <2>1. f.crc = "ok" /\ IsData(f)
    BY DEF ReceiveData
  <2>2. Marked(wire[n])
    BY DEF OrderInv, LineInv
  <2>3. f.pkt # 0
    BY <1>2, <2>1, <2>2 DEF Marked
  <2> QED BY <1>2, <2>1, <2>3 DEF Intact, Frame
<1>4. f \in IntactFrames(wire[n])
  BY <1>1, <1>3, HeadFirst DEF OrderInv, LineInv
<1>5. /\ rx[m].pc = "idle" /\ rx'[m] = [pc |-> "deliver", frm |-> f]
      /\ UNCHANGED <<delivered, last_recv_packet_seq, log, call>>
  BY <1>1 DEF ReceiveData, RxGoto, LengthGood, FrameReady, senderVars
<1> HIDE DEF f
<1> QED BY <1>2, <1>3, <1>4, <1>5 DEF f

\* What is received comes before what is not, and was sent.
LEMMA ReceivedFacts ==
  ASSUME TInv, OrderInv, NEW n \in Node, CarryInv(n), NEW p \in Nat, Received(n, p)
  PROVE  LET m == Peer[n] IN
         /\ p <= Len(log[n])
         /\ \A g \in IntactFrames(wire[n]) : p <= g.pkt
         /\ rx[m].pc = "deliver" => p <= rx[m].frm.pkt
         /\ rx[m].pc # "deliver" => delivered[m] # << >> /\ p <= Latest(m)
         /\ rx[m].frm.pkt # p => delivered[m] # << >> /\ p <= Latest(m)
<1> DEFINE m == Peer[n]
<1>1. m \in Node /\ Peer[m] = n
  BY TopologyAssumption
<1>2. /\ rx[m].frm.pkt \in Nat /\ Len(delivered[m]) \in Nat
      /\ delivered[m] # << >> => Len(delivered[m]) > 0 /\ Latest(m) \in Nat
      /\ \A i \in 1 .. Len(delivered[m]) : delivered[m][i] \in Nat
      /\ delivered[m] \in Seq(Nat)
  BY <1>1, NodeTypes
<1>3. RxInv(m) /\ LastInv(m) /\ Increasing(m) /\ restarts[m] = 0
  BY <1>1 DEF OrderInv, CarryInv
<1>4. ASSUME NEW i \in 1 .. Len(delivered[m]), delivered[m][i] = p
      PROVE  delivered[m] # << >> /\ p <= Latest(m)
  <2>1. delivered[m] # << >> /\ Len(delivered[m]) > 0
    BY <1>2, <1>4, EmptySeq
  <2>2. CASE i = Len(delivered[m])
    BY <1>2, <1>4, <2>1, <2>2 DEF Latest
  <2>3. CASE i < Len(delivered[m])
    <3>1. Len(delivered[m]) \in 1 .. Len(delivered[m])
      BY <1>2, <2>1
    <3>2. delivered[m][i] < delivered[m][Len(delivered[m])]
      BY <1>3, <2>3, <3>1 DEF Increasing
    <3> QED BY <1>2, <1>4, <2>1, <3>2 DEF Latest
  <2> QED BY <1>2, <2>1, <2>2, <2>3
<1>5. CASE rx[m].pc = "deliver" /\ rx[m].frm.pkt = p
  <2>1. NotBefore(m, rx[m].frm.pkt, rx[m].frm.seq)
    BY <1>3, <1>5 DEF RxInv
  <2>2. p <= Len(log[n]) /\ \A g \in IntactFrames(wire[n]) : p <= g.pkt
    BY <1>1, <1>5, <2>1 DEF NotBefore, Issued, Behind
  <2> QED BY <1>5, <2>2
<1>6. CASE \E i \in 1 .. Len(delivered[m]) : delivered[m][i] = p
  <2>1. delivered[m] # << >> /\ p <= Latest(m) /\ Latest(m) \in Nat
    BY <1>2, <1>4, <1>6
  <2>2. /\ NotBefore(m, Latest(m), last_recv_packet_seq[m])
        /\ rx[m].pc = "deliver" => Latest(m) <= rx[m].frm.pkt
    BY <1>3, <2>1 DEF LastInv, Behind
  <2>3. Latest(m) <= Len(log[n]) /\ \A g \in IntactFrames(wire[n]) : Latest(m) <= g.pkt
    BY <1>1, <2>2 DEF NotBefore, Issued, Behind
  <2>4. \A g \in IntactFrames(wire[n]) : g.pkt \in Nat
    <3>1. wire[n] \in Seq(Frame)
      BY DEF TInv, TypeOK
    <3>2. \A g \in IntactFrames(wire[n]) : g \in Frame
      BY <3>1, ElementOfSeq DEF IntactFrames
    <3> QED BY <3>2 DEF Frame
  <2>5. Len(log[n]) \in Nat
    BY LogTypes
  <2> QED BY <1>2, <2>1, <2>2, <2>3, <2>4, <2>5
<1> QED BY <1>1, <1>5, <1>6 DEF Received

\* A packet is received only when the parse thread takes it off the line.
LEMMA ReceivedBefore ==
  ASSUME SoundLine, TInv, [Next]_vars, NEW n \in Node, NEW p \in Nat, Received(n, p)'
  PROVE  \/ Received(n, p)
         \/ ReceiveData(Peer[n]) /\ p = Incoming(Peer[n]).pkt
<1> DEFINE m == Peer[n]
<1>0. /\ m \in Node /\ rx \in [Node -> RxRec] /\ delivered \in [Node -> Seq(Nat)]
      /\ delivered[m] \in Seq(Nat) /\ rx[m].frm.pkt \in Nat
  BY TopologyAssumption, NodeTypes DEF TInv, TypeOK
<1>1. CASE Deliver(m)
  <2>1. rx[m].pc = "deliver" /\ rx'[m].pc = "idle"
        /\ delivered'[m] \in {delivered[m], Append(delivered[m], rx[m].frm.pkt)}
    BY <1>0, <1>1 DEF Deliver, IdleRx
  <2>2. PICK i \in 1 .. Len(delivered'[m]) : delivered'[m][i] = p
    BY <2>1 DEF Received
  <2>3. CASE delivered'[m] = delivered[m]
    BY <2>2, <2>3 DEF Received
  <2>4. CASE delivered'[m] = Append(delivered[m], rx[m].frm.pkt)
    <3>1. /\ Len(delivered'[m]) = Len(delivered[m]) + 1 /\ Len(delivered[m]) \in Nat
          /\ \A k \in 1 .. Len(delivered[m]) : delivered'[m][k] = delivered[m][k]
          /\ delivered'[m][Len(delivered[m]) + 1] = rx[m].frm.pkt
      BY <1>0, <2>4, AppendProperties, LenProperties
    <3>2. CASE i = Len(delivered[m]) + 1
      BY <2>1, <2>2, <3>1, <3>2 DEF Received
    <3>3. CASE i # Len(delivered[m]) + 1
      <4>1. i \in 1 .. Len(delivered[m])
        BY <3>1, <3>3
      <4> QED BY <2>2, <3>1, <4>1 DEF Received
    <3> QED BY <3>2, <3>3
  <2> QED BY <2>1, <2>3, <2>4
<1>2. CASE ReceiveData(m)
  <2>1. rx'[m] = [pc |-> "deliver", frm |-> Incoming(m)] /\ delivered'[m] = delivered[m]
    BY <1>0, <1>2 DEF ReceiveData, RxGoto
  <2> QED BY <1>2, <2>1 DEF Received
<1>3. CASE Listens(m)
  BY <1>3 DEF Listens, Received
<1> QED BY <1>0, <1>1, <1>2, <1>3, NextReceives

LEMMA NextCarryInv ==
  ASSUME SoundLine, TInv, OrderInv, LogInv, NEW n \in Node, CarryInv(n), [Next]_vars
  PROVE  CarryInv(n)'
<1> DEFINE m == Peer[n]
<1>0. /\ m \in Node /\ Len(log[n]) \in Nat /\ LogGrows(n) /\ LineMove(n)
      /\ restarts' = restarts
      /\ Deliver(m) \/ ReceiveData(m) \/ Listens(m)
      /\ wire[n] \in Seq(Frame) /\ rx \in [Node -> RxRec] /\ delivered[m] \in Seq(Nat)
      /\ delivered \in [Node -> Seq(Nat)]
      /\ last_recv_packet_seq \in [Node -> SeqNum \cup {NoSeq}]
  BY TopologyAssumption, LogTypes, NextLogGrows, NextLineMove, NextReceives, NodeTypes
     DEF TInv, TypeOK
<1>1. ASSUME NEW f, f.pkt \in Nat, f.pkt > 0, TellsTruth(n, f)
      PROVE  TellsTruth(n, f)' /\ f.pkt \in 1 .. Len(log[n]) /\ f.pkt \in 1 .. Len(log'[n])
  <2>1. f.pkt \in 1 .. Len(log[n]) /\ Len(log[n]) <= Len(log'[n])
    BY <1>0, <1>1 DEF TellsTruth, LogGrows
  <2>2. Len(log'[n]) \in Nat
    <3>1. TInv'
      BY NextTInv
    <3> QED BY <3>1, LenProperties DEF TInv, TypeOK
  <2>3. log'[n][f.pkt].rel = log[n][f.pkt].rel
    BY <1>0, <2>1 DEF LogGrows
  <2> QED BY <1>0, <1>1, <2>1, <2>2, <2>3 DEF TellsTruth
<1>2. \A i \in 1 .. Len(wire[n]) : wire[n][i] \in Frame /\ wire[n][i].pkt \in Nat
  <2>1. \A i \in 1 .. Len(wire[n]) : wire[n][i] \in Frame
    BY <1>0, ElementOfSeq
  <2> QED BY <2>1 DEF Frame
<1>3. ASSUME NEW i \in 1 .. Len(wire'[n]), NEW f, f = wire'[n][i], f.pkt > 0
      PROVE  TellsTruth(n, f)'
  <2>1. CASE PacketsKept(wire[n], wire'[n])
    <3>1. PICK j \in 1 .. Len(wire[n]) : Same(f, wire[n][j])
      BY <1>3, <2>1 DEF PacketsKept
    <3>2. wire[n][j].pkt > 0 /\ TellsTruth(n, wire[n][j])
      BY <1>3, <3>1 DEF CarryInv, Same
    <3>3. f.pkt \in Nat /\ TellsTruth(n, f)
      BY <1>2, <3>1, <3>2 DEF TellsTruth, Same
    <3> QED BY <1>1, <1>3, <3>3
  <2>2. ASSUME NEW t \in Thread, Sends(n, t)
        PROVE  TellsTruth(n, f)'
    <3> PICK d : d = DataFrame(call[t])
      OBVIOUS
    <3>1. /\ call[t] \in CallRec /\ call[t].pc \in Numbered /\ Home[t] = n
          /\ call[t].pkt = Len(log[n]) /\ call[t].pkt > 0 /\ call[t].pkt \in 1 .. Len(log[n])
      <4>1. call[t].pc \in Numbered /\ Home[t] = n
        BY <2>2 DEF Sends, Transmit, Numbered
      <4> QED BY <4>1, NumberedFacts
    <3>2. d \in Frame /\ d.pkt = call[t].pkt /\ d.seq = call[t].seq
          /\ ("ACK" \in d.ctrl => call[t].rel)
      BY <3>1, FrameFacts DEF DataFrame
    <3>3. wire'[n] = Put(wire[n], d)
      BY <2>2 DEF Sends
    <3>4. call[t].seq = SeqOf(call[t].pkt) /\ log[n][call[t].pkt].rel = call[t].rel
      BY <3>1 DEF LogInv, CallInv
    <3>5. f = d \/ \E j \in 1 .. Len(wire[n]) : f = wire[n][j]
      <4>1. \A k \in 1 .. Len(Put(wire[n], d)) :
              Put(wire[n], d)[k] = d \/ \E j \in 1 .. Len(wire[n]) : Put(wire[n], d)[k] = wire[n][j]
        BY <1>0, <3>2, PutKept
      <4> QED BY <1>3, <3>3, <4>1
    <3>6. TellsTruth(n, d)
      BY <1>0, <3>1, <3>2, <3>4 DEF TellsTruth
    <3>7. f.pkt \in Nat /\ TellsTruth(n, f)
      BY <1>2, <1>3, <3>1, <3>2, <3>5, <3>6 DEF CarryInv
    <3> QED BY <1>1, <1>3, <3>7
  <2> QED BY <1>0, <2>1, <2>2 DEF LineMove
<1>4. rx'[m].pc = "deliver" =>
        rx'[m].frm.pkt \in 1 .. Len(log'[n]) /\ rx'[m].frm.seq = SeqOf(rx'[m].frm.pkt)
  <2>1. CASE Deliver(m)
    BY <1>0, <2>1 DEF Deliver, IdleRx
  <2>2. CASE ReceiveData(m)
    <3>1. PICK f : f = Incoming(m)
      OBVIOUS
    <3>2. /\ f \in Frame /\ Intact(f) /\ rx'[m] = [pc |-> "deliver", frm |-> f]
          /\ \E i \in 1 .. Len(wire[n]) : wire[n][i] = f
      BY <2>2, <3>1, ReceiveDataFacts
    <3>3. f.pkt \in Nat /\ f.pkt > 0 /\ TellsTruth(n, f)
      BY <1>2, <3>2 DEF Intact, CarryInv
    <3> QED BY <1>1, <3>2, <3>3 DEF TellsTruth
  <2>3. CASE Listens(m)
    <3>1. rx[m].frm.pkt \in 1 .. Len(log[n]) => rx[m].frm.pkt \in 1 .. Len(log'[n])
      <4>1. TInv' /\ Len(log[n]) <= Len(log'[n])
        BY <1>0, NextTInv DEF LogGrows
      <4>2. Len(log'[n]) \in Nat
        BY <4>1, LenProperties DEF TInv, TypeOK
      <4> QED BY <1>0, <4>1, <4>2
    <3> QED BY <2>3, <3>1 DEF Listens, CarryInv
  <2> QED BY <1>0, <2>1, <2>2, <2>3
<1>5. /\ delivered'[m] = << >> => last_recv_packet_seq'[m] = NoSeq
      /\ delivered'[m] # << >> => /\ Latest(m)' \in 1 .. Len(log'[n])
                                  /\ last_recv_packet_seq'[m] = SeqOf(Latest(m)')
  <2>0. \A p \in 1 .. Len(log[n]) : p \in 1 .. Len(log'[n])
    <3>1. TInv' /\ Len(log[n]) <= Len(log'[n])
      BY <1>0, NextTInv DEF LogGrows
    <3>2. Len(log'[n]) \in Nat
      BY <3>1, LenProperties DEF TInv, TypeOK
    <3> QED BY <1>0, <3>1, <3>2
  <2>1. CASE Deliver(m)
    <3>1. PICK p : p = rx[m].frm.pkt
      OBVIOUS
    <3>2. p \in 1 .. Len(log[n]) /\ rx[m].frm.seq = SeqOf(p) /\ SeqOf(p) \in SeqNum
      <4>1. p \in 1 .. Len(log[n]) /\ rx[m].frm.seq = SeqOf(p)
        BY <2>1, <3>1 DEF Deliver, CarryInv
      <4>2. p \in Nat /\ p > 0
        BY <1>0, <4>1
      <4> QED BY <4>1, <4>2, SeqOfFacts
    <3>3. last_recv_packet_seq'[m] = SeqOf(p)
      BY <1>0, <2>1, <3>2 DEF Deliver
    <3>4. CASE last_recv_packet_seq[m] = SeqOf(p)
      <4>1. delivered'[m] = delivered[m]
        BY <2>1, <3>2, <3>4 DEF Deliver, IsDuplicate
      <4>2. last_recv_packet_seq[m] # NoSeq
        BY <3>2, <3>4 DEF SeqNum, NoSeq
      <4> QED BY <2>0, <3>3, <3>4, <4>1, <4>2 DEF CarryInv, Latest
    <3>5. CASE last_recv_packet_seq[m] # SeqOf(p)
      <4>1. delivered'[m] = Append(delivered[m], p)
        BY <1>0, <2>1, <3>1, <3>2, <3>5 DEF Deliver, IsDuplicate
      <4>2. /\ Len(delivered'[m]) = Len(delivered[m]) + 1 /\ Len(delivered[m]) \in Nat
            /\ delivered'[m][Len(delivered[m]) + 1] = p /\ delivered'[m] # << >>
        <5>1. p \in Nat /\ Len(delivered[m]) \in Nat /\ Append(delivered[m], p) \in Seq(Nat)
          BY <1>0, <3>2, LenProperties
        <5>2. /\ Len(delivered'[m]) = Len(delivered[m]) + 1
              /\ delivered'[m][Len(delivered[m]) + 1] = p
          BY <1>0, <4>1, <5>1, AppendProperties
        <5> QED BY <4>1, <5>1, <5>2, EmptySeq
      <4> QED BY <2>0, <3>2, <3>3, <4>2 DEF Latest
    <3> QED BY <3>4, <3>5
  <2>2. CASE ReceiveData(m)
    <3>1. delivered'[m] = delivered[m] /\ last_recv_packet_seq'[m] = last_recv_packet_seq[m]
      BY <2>2 DEF ReceiveData
    <3> QED BY <2>0, <3>1 DEF CarryInv, Latest
  <2>3. CASE Listens(m)
    BY <2>0, <2>3 DEF Listens, CarryInv, Latest
  <2> QED BY <1>0, <2>1, <2>2, <2>3
<1>6. restarts'[m] = 0
  BY <1>0 DEF CarryInv
<1> QED BY <1>3, <1>4, <1>5, <1>6 DEF CarryInv

LEMMA UnsetSource ==
  ASSUME TInv, NEW t \in Thread, Call(t) \/ ThreadStep(t), call'[t].pc = "unset"
  PROVE  Assemble(t)
<1>0. call \in [Thread -> CallRec] /\ call[t] \in CallRec
  BY DEF TInv, TypeOK
<1>1. CASE Call(t)
  <2>1. PICK r \in Modes : call' = [call EXCEPT ![t] = [NoCall EXCEPT !.pc = "lock", !.rel = r]]
    BY <1>1 DEF Call
  <2>2. call'[t].pc = "lock"
    BY <1>0, <2>1 DEF NoCall
  <2> QED BY <2>2
<1>2. CASE Lock(t) \/ Reject(t) \/ Unset(t) \/ Wake(t) \/ Timeout(t) \/ CheckAcked(t)
           \/ CheckGiveUp(t) \/ Transmit(t)
  <2>1. PICK pc \in {"assemble", "return", "write", "check", "wait"} : Goto(t, pc)
    BY <1>2 DEF Lock, Reject, Unset, Wake, Timeout, CheckAcked, CheckGiveUp, Transmit
  <2>2. call'[t].pc = pc
    BY <1>0, <2>1, GotoFacts DEF CallPC
  <2> QED BY <2>1, <2>2
<1>3. CASE CheckResend(t)
  <2> DEFINE d == [call[t] EXCEPT !.pc = "write", !.left = @ - 1]
  <2>1. call' = [call EXCEPT ![t] = d] /\ call[t].left > 0
    BY <1>3 DEF CheckResend
  <2>2. d.pc = "write"
    BY <1>0, <2>1, RetryFacts
  <2>3. call'[t] = d
    BY <1>0, <2>1
  <2> HIDE DEF d
  <2> QED BY <2>2, <2>3
<1>4. CASE Return(t)
  <2>1. call'[t] = NoCall
    BY <1>0, <1>4 DEF Return
  <2> QED BY <2>1 DEF NoCall
<1> QED BY <1>1, <1>2, <1>3, <1>4 DEF ThreadStep, Write, Wait, Check

\* A call that is about to clear the flag has just been numbered, or stays.
LEMMA UnsetBefore ==
  ASSUME SoundLine, TInv, [Next]_vars, NEW t \in Thread, call'[t].pc = "unset"
  PROVE  Assemble(t) \/ call'[t] = call[t]
<1>1. ASSUME NEW u \in Thread, Call(u) \/ ThreadStep(u)
      PROVE  Assemble(t) \/ call'[t] = call[t]
  <2>1. CASE u = t
    BY <1>1, <2>1, UnsetSource
  <2>2. CASE u # t
    BY <1>1, <2>2, ThreadFacts
  <2> QED BY <2>1, <2>2
<1>2. ASSUME NEW n \in Node, ParseStep(n) \/ Environment(n)
      PROVE  call'[t] = call[t]
  BY <1>2, OtherLog
<1>3. UNCHANGED vars => call'[t] = call[t]
  BY DEF vars, senderVars
<1> QED BY <1>1, <1>2, <1>3 DEF Next

LEMMA NextUnsentInv ==
  ASSUME SoundLine, TInv, OrderInv, LogInv, NEW n \in Node, CarryInv(n), UnsentInv(n), [Next]_vars
  PROVE  UnsentInv(n)'
<1> SUFFICES ASSUME NEW t \in Thread, Home[t] = n, call'[t].pc = "unset",
                    NEW p, p = call'[t].pkt
             PROVE  /\ \A i \in 1 .. Len(wire'[n]) : wire'[n][i].pkt # p
                    /\ ~Received(n, p)'
  BY DEF UnsentInv, Received
<1> DEFINE m == Peer[n]
<1>0. /\ m \in Node /\ Len(log[n]) \in Nat /\ wire[n] \in Seq(Frame)
      /\ \A i \in 1 .. Len(wire[n]) : wire[n][i] \in Frame
      /\ LineMove(n)
  BY TopologyAssumption, LogTypes, NextLineMove, ElementOfSeq DEF TInv, TypeOK
<1>1. CASE Assemble(t)
  <2>1. p = Len(log[n]) + 1 /\ wire' = wire
    <3>1. p = Len(log[n]) + 1
      BY <1>1, AssembleStep
    <3>2. wire' = wire
      BY <1>1 DEF Assemble
    <3> QED BY <3>1, <3>2
  <2>2. UNCHANGED <<rx, delivered>>
    BY <1>1, ThreadFacts DEF ThreadStep
  <2>3. ASSUME NEW i \in 1 .. Len(wire[n])
        PROVE  wire[n][i].pkt # p
    <3>1. wire[n][i].pkt \in Nat
      BY <1>0 DEF Frame
    <3>2. wire[n][i].pkt > 0 => wire[n][i].pkt <= Len(log[n])
      BY DEF CarryInv, TellsTruth
    <3> QED BY <1>0, <2>1, <3>1, <3>2
  <2>4. ~Received(n, p)
    <3>1. p \in Nat /\ ~(p <= Len(log[n]))
      BY <1>0, <2>1
    <3> QED BY <3>1, ReceivedFacts
  <2>5. ~Received(n, p)'
    BY <2>2, <2>4 DEF Received
  <2> QED BY <2>1, <2>3, <2>5
<1>2. CASE call'[t] = call[t]
  <2>1. call[t].pc = "unset" /\ call[t].pkt = p /\ p \in Nat /\ p > 0 /\ p \in 1 .. Len(log[n])
        /\ \A u \in Thread : Home[u] = n /\ call[u].pc \notin {"idle", "lock"} => u = t
    <3>1. call[t].pc \in Numbered
      BY <1>2 DEF Numbered
    <3> QED BY <1>0, <1>2, <3>1, NumberedFacts
  <2>2. /\ \A i \in 1 .. Len(wire[n]) : wire[n][i].pkt # p
        /\ ~Received(n, p)
    BY <2>1 DEF UnsentInv
  <2>3. PacketsKept(wire[n], wire'[n])
    <3>1. \A u \in Thread : ~Sends(n, u)
      BY <2>1 DEF Sends, Transmit
    <3> QED BY <1>0, <3>1 DEF LineMove
  <2>4. \A i \in 1 .. Len(wire'[n]) : wire'[n][i].pkt # p
    BY <2>1, <2>2, <2>3 DEF PacketsKept, Same
  <2>5. ~Received(n, p)'
    <3>1. ReceiveData(m) => Incoming(m).pkt # p
      BY <2>2, ReceiveDataFacts
    <3> QED BY <2>1, <2>2, <3>1, ReceivedBefore
  <2> QED BY <2>4, <2>5
<1> QED BY <1>1, <1>2, UnsetBefore

-----------------------------------------------------------------------------
(* What is settled for a packet that is not in doubt.                      *)

\* What was acknowledged has been received.
ReceivedInv(n) ==
  \A p \in 1 .. Len(log[n]) : Acked(n, p) /\ ~Doubtful(n, p) => Received(n, p)

\* Doubt about a packet is doubt about all later ones.
LEMMA DoubtGrows ==
  ASSUME NEW n, NEW p \in Nat, NEW q \in Nat, p <= q, Doubtful(n, p)
  PROVE  Doubtful(n, q)
<1>1. \A i : (i \in 1 .. p => i \in 1 .. q) /\ (i \in 1 .. p - 1 => i \in 1 .. q - 1)
  OBVIOUS
<1> QED BY <1>1 DEF Doubtful, EarlierTimeout, LongRun

\* Doubt looks at earlier packets only.
LEMMA DoubtStays ==
  ASSUME TInv, NEW n \in Node, NEW p \in 0 .. Len(log[n]),
         \A i \in 1 .. Len(log[n]) :
           /\ log'[n][i].rel = log[n][i].rel
           /\ i < Len(log[n]) => log'[n][i].res = log[n][i].res
  PROVE  Doubtful(n, p)' <=> Doubtful(n, p)
<1>0. Len(log[n]) \in Nat
  BY LogTypes
<1>1. \A i \in 1 .. p - 1 : i \in 1 .. Len(log[n]) /\ i < Len(log[n])
  BY <1>0
<1>2. \A a, b \in 1 .. p : \A i \in a + 1 .. b - 1 : i \in 1 .. p - 1
  BY <1>0
<1>3. EarlierTimeout(n, p)' <=> EarlierTimeout(n, p)
  BY <1>1 DEF EarlierTimeout
<1>4. LongRun(n, p)' <=> LongRun(n, p)
  <2>1. \A a, b \in 1 .. p : (\A i \in a + 1 .. b - 1 : ~log'[n][i].rel)
                         <=> (\A i \in a + 1 .. b - 1 : ~log[n][i].rel)
    BY <1>1, <1>2
  <2> QED BY <2>1 DEF LongRun
<1> QED BY <1>3, <1>4 DEF Doubtful

\* Without doubt about p, every reliable packet before it has been received.
LEMMA ReliableBefore ==
  ASSUME TInv, LogInv, NEW n \in Node, ReceivedInv(n), NEW p \in 1 .. Len(log[n]),
         ~Doubtful(n, p), NEW i \in 1 .. p - 1, log[n][i].rel
  PROVE  Acked(n, i) /\ ~Doubtful(n, i) /\ Received(n, i)
<1>0. Len(log[n]) \in Nat /\ i \in 1 .. Len(log[n]) /\ i < Len(log[n]) /\ i <= p
  <2>1. Len(log[n]) \in Nat
    BY LogTypes
  <2> QED BY <2>1
<1>1. EntryInv(n, i) /\ log[n][i].res \in Result
  BY <1>0, LogTypes DEF LogInv, EntriesInv
<1>2. log[n][i].res # "timeout"
  BY DEF Doubtful, EarlierTimeout
<1>3. Acked(n, i)
  BY <1>0, <1>1, <1>2 DEF EntryInv, Result, Acked
<1>4. ~Doubtful(n, i)
  BY <1>0, DoubtGrows
<1> QED BY <1>0, <1>3, <1>4 DEF ReceivedInv

\* Between two packets with one number a reliable one stands.
LEMMA ReliableBetween ==
  ASSUME TInv, NEW n \in Node, NEW p \in 1 .. Len(log[n]), ~Doubtful(n, p),
         NEW a \in 1 .. p - 1, SeqOf(a) = SeqOf(p)
  PROVE  \E i \in a + 1 .. p - 1 : log[n][i].rel
<1>1. Len(log[n]) \in Nat /\ a \in Nat /\ p \in Nat /\ 0 < a /\ a < p
      /\ a \in 1 .. p /\ p \in 1 .. p
  <2>1. Len(log[n]) \in Nat
    BY LogTypes
  <2> QED BY <2>1
<1>2. p - a >= SeqMod
  BY <1>1, SeqOfFacts
<1> QED BY <1>1, <1>2 DEF Doubtful, LongRun

\* A packet that is not in doubt is not taken for a copy of an older one.
LEMMA NotACopy ==
  ASSUME TInv, OrderInv, LogInv, NEW n \in Node, CarryInv(n), ReceivedInv(n),
         NEW p \in 1 .. Len(log[n]), ~Doubtful(n, p),
         rx[Peer[n]].pc = "deliver", rx[Peer[n]].frm.pkt = p,
         ~\E i \in 1 .. Len(delivered[Peer[n]]) : delivered[Peer[n]][i] = p
  PROVE  ~IsDuplicate(Peer[n])
<1> DEFINE m == Peer[n]
<1>0. /\ m \in Node /\ Len(delivered[m]) \in Nat /\ p \in Nat /\ Len(log[n]) \in Nat
      /\ delivered[m] # << >> => Len(delivered[m]) > 0 /\ Latest(m) \in Nat
  <2>1. m \in Node /\ Len(log[n]) \in Nat /\ p \in Nat
    BY TopologyAssumption, LogTypes
  <2> QED BY <2>1, NodeTypes
<1> SUFFICES ASSUME IsDuplicate(m) PROVE FALSE
  OBVIOUS
<1>1. last_recv_packet_seq[m] = SeqOf(p) /\ SeqOf(p) \in SeqNum
  BY <1>0, SeqOfFacts DEF IsDuplicate, CarryInv
<1>2. last_recv_packet_seq[m] # NoSeq
  BY <1>1 DEF SeqNum, NoSeq
<1> PICK a : a = Latest(m)
  OBVIOUS
<1>3. delivered[m] # << >> /\ a \in 1 .. Len(log[n]) /\ SeqOf(a) = SeqOf(p)
  BY <1>1, <1>2 DEF CarryInv
<1>4. a # p
  <2>1. Len(delivered[m]) \in 1 .. Len(delivered[m])
    BY <1>0, <1>3
  <2> QED BY <2>1 DEF Latest
<1>5. a <= p
  BY <1>0, <1>3 DEF OrderInv, LastInv, CarryInv, Behind
<1>6. a \in 1 .. p - 1
  BY <1>0, <1>3, <1>4, <1>5
<1>7. PICK i \in a + 1 .. p - 1 : log[n][i].rel
  BY <1>3, <1>6, ReliableBetween
<1>8. i \in 1 .. p - 1 /\ i \in Nat /\ i > a /\ i # p
  BY <1>0, <1>6
<1>9. Received(n, i)
  BY <1>7, <1>8, ReliableBefore
<1>10. i <= a
  BY <1>8, <1>9, ReceivedFacts
<1> QED BY <1>0, <1>3, <1>8, <1>10

LEMMA ReceivedStays ==
  ASSUME SoundLine, TInv, OrderInv, LogInv, NEW n \in Node, CarryInv(n), ReceivedInv(n),
         [Next]_vars, NEW p \in 1 .. Len(log[n]), ~Doubtful(n, p), Received(n, p)
  PROVE  Received(n, p)'
<1> DEFINE m == Peer[n]
<1>0. /\ m \in Node /\ rx \in [Node -> RxRec] /\ delivered \in [Node -> Seq(Nat)]
      /\ delivered[m] \in Seq(Nat) /\ Len(delivered[m]) \in Nat /\ rx[m].frm.pkt \in Nat
      /\ delivered[m] # << >> => Len(delivered[m]) > 0 /\ Latest(m) \in Nat
      /\ Len(log[n]) \in Nat /\ p \in Nat
  <2>1. m \in Node /\ Len(log[n]) \in Nat /\ p \in Nat
    BY TopologyAssumption, LogTypes
  <2>2. rx \in [Node -> RxRec] /\ delivered \in [Node -> Seq(Nat)]
    BY DEF TInv, TypeOK
  <2> QED BY <2>1, <2>2, NodeTypes
<1>1. CASE ReceiveData(m)
  <2>1. rx[m].pc = "idle" /\ delivered' = delivered
    BY <1>1 DEF ReceiveData, LengthGood, FrameReady
  <2> QED BY <2>1 DEF Received
<1>2. CASE Listens(m)
  BY <1>2 DEF Listens, Received
<1>3. CASE Deliver(m)
  <2>1. CASE \E i \in 1 .. Len(delivered[m]) : delivered[m][i] = p
    <3>1. CASE delivered'[m] = delivered[m]
      BY <2>1, <3>1 DEF Received
    <3>2. CASE delivered'[m] = Append(delivered[m], rx[m].frm.pkt)
      <4>1. /\ Len(delivered'[m]) = Len(delivered[m]) + 1
            /\ \A i \in 1 .. Len(delivered[m]) : delivered'[m][i] = delivered[m][i]
        BY <1>0, <3>2, AppendProperties
      <4>2. \A i \in 1 .. Len(delivered[m]) : i \in 1 .. Len(delivered'[m])
        BY <1>0, <4>1
      <4> QED BY <2>1, <4>1, <4>2 DEF Received
    <3> QED BY <1>0, <1>3, <3>1, <3>2 DEF Deliver
  <2>2. CASE rx[m].frm.pkt = p /\ ~(\E i \in 1 .. Len(delivered[m]) : delivered[m][i] = p)
    <3>1. rx[m].pc = "deliver"
      BY <1>3 DEF Deliver
    <3>2. ~IsDuplicate(m)
      BY <2>2, <3>1, NotACopy
    <3>3. delivered'[m] = Append(delivered[m], p)
      BY <1>0, <1>3, <2>2, <3>2 DEF Deliver
    <3>4. Len(delivered'[m]) = Len(delivered[m]) + 1 /\ delivered'[m][Len(delivered[m]) + 1] = p
      BY <1>0, <3>3, AppendProperties
    <3>5. Len(delivered[m]) + 1 \in 1 .. Len(delivered'[m])
      BY <1>0, <3>4
    <3> QED BY <3>4, <3>5 DEF Received
  <2> QED BY <2>1, <2>2 DEF Received
<1> QED BY <1>0, <1>1, <1>2, <1>3, NextReceives

-----------------------------------------------------------------------------
(* Acknowledgements: the one that a sender acts upon is its packet's.      *)

NoUnset(n) == \A t \in Thread : Home[t] = n => call[t].pc # "unset"

\* An acknowledgement s for end n belongs to a packet that was received, the
\* last one or the reliable one before it.
Answers(n, s) ==
  \E p \in 1 .. Len(log[n]) :
    /\ log[n][p].rel /\ SeqOf(p) = s /\ Received(n, p)
    /\ \A i \in p + 1 .. Len(log[n]) - 1 : ~log[n][i].rel

AllAnswer(n, s) == \A i \in Acks(wire[Peer[n]]) : wire[Peer[n]][i].seq = s

\* The acknowledgements on the way to end n.
OnTheWay(n) ==
  LET q == Len(log[n]) IN
  /\ \A i \in Acks(wire[Peer[n]]) : Answers(n, wire[Peer[n]][i].seq)
  /\ q > 0 /\ log[n][q].rel => Settles(wire[Peer[n]], SeqOf(q))

\* The acknowledgement that the parse thread of n is about to act upon.
InHand(n) ==
  LET q == Len(log[n]) IN
  rx[n].pc = "set" =>
    /\ q > 0 /\ log[n][q].rel /\ log[n][q].res \in {"pending", "timeout"}
    /\ rx[n].frm.seq = SeqOf(q) /\ Received(n, q)
    /\ ~acked[n] /\ AllAnswer(n, SeqOf(q))

\* The flag, once the sender of the last packet has cleared it.
FlagSet(n) ==
  LET q == Len(log[n]) IN
  q > 0 /\ log[n][q].rel /\ NoUnset(n) /\ acked[n] =>
    current_acked_seq[n] = SeqOf(q) /\ Received(n, q) /\ AllAnswer(n, SeqOf(q))

AckInv(n) ==
  LET q == Len(log[n]) IN
  /\ ~Doubtful(n, q) => OnTheWay(n) /\ InHand(n) /\ FlagSet(n)
  /\ q > 0 /\ log[n][q].res = "acked" => acked[n]

\* Everything that is known of the packets of end n.
ServiceInv(n) == CarryInv(n) /\ UnsentInv(n) /\ ReceivedInv(n) /\ AckInv(n)

\* An acknowledgement with the number of the last packet is its own.
LEMMA LastAnswered ==
  ASSUME TInv, NEW n \in Node, Len(log[n]) > 0, ~Doubtful(n, Len(log[n])),
         Answers(n, SeqOf(Len(log[n])))
  PROVE  log[n][Len(log[n])].rel /\ Received(n, Len(log[n]))
<1>0. Len(log[n]) \in Nat
  BY LogTypes
<1> PICK q : q = Len(log[n])
  OBVIOUS
<1>1. PICK p \in 1 .. q : /\ log[n][p].rel /\ SeqOf(p) = SeqOf(q) /\ Received(n, p)
                          /\ \A i \in p + 1 .. q - 1 : ~log[n][i].rel
  BY DEF Answers
<1>2. p = q
  <2> SUFFICES ASSUME p # q PROVE FALSE
    OBVIOUS
  <2>1. p \in 1 .. q - 1 /\ q \in 1 .. Len(log[n])
    BY <1>0
  <2>2. \E i \in p + 1 .. q - 1 : log[n][i].rel
    BY <1>1, <2>1, ReliableBetween
  <2> QED BY <1>1, <2>2
<1> QED BY <1>1, <1>2

\* What a step has to leave alone to keep AckInv.
Quiet(n) ==
  LET q == Len(log[n]) IN
  /\ LogKept(n)
  /\ q > 0 /\ log[n][q].rel /\ ~acked[n] /\ log[n][q].res \in {"pending", "timeout"}
       => log'[n][q].res \in {"pending", "timeout"}
  /\ q > 0 /\ log'[n][q].res = "acked"
       => log[n][q].res = "acked" \/ (acked[n] /\ log[n][q].rel /\ NoUnset(n))
  /\ acked'[n] = acked[n] /\ current_acked_seq'[n] = current_acked_seq[n]
  /\ rx'[n].pc = "set" => rx'[n] = rx[n]
  /\ NoUnset(n)' => NoUnset(n)
  /\ AcksKept(wire[Peer[n]], wire'[Peer[n]])

LEMMA AnswersStays ==
  ASSUME SoundLine, TInv, OrderInv, LogInv, NEW n \in Node, CarryInv(n), ReceivedInv(n),
         [Next]_vars, LogKept(n), ~Doubtful(n, Len(log[n])), NEW s, Answers(n, s)
  PROVE  Answers(n, s)'
<1>0. Len(log[n]) \in Nat /\ Len(log'[n]) = Len(log[n])
  BY LogTypes DEF LogKept
<1>1. PICK p \in 1 .. Len(log[n]) :
        /\ log[n][p].rel /\ SeqOf(p) = s /\ Received(n, p)
        /\ \A i \in p + 1 .. Len(log[n]) - 1 : ~log[n][i].rel
  BY DEF Answers
<1>2. Received(n, p)'
  <2>1. ~Doubtful(n, p)
    BY <1>0, DoubtGrows
  <2> QED BY <1>1, <2>1, ReceivedStays
<1>3. log'[n][p].rel /\ \A i \in p + 1 .. Len(log[n]) - 1 : ~log'[n][i].rel
  <2>1. \A i \in p + 1 .. Len(log[n]) - 1 : i \in 1 .. Len(log[n])
    BY <1>0
  <2> QED BY <1>1, <2>1 DEF LogKept
<1> QED BY <1>0, <1>1, <1>2, <1>3 DEF Answers

LEMMA QuietAckInv ==
  ASSUME SoundLine, TInv, OrderInv, LogInv, NEW n \in Node, ServiceInv(n), [Next]_vars, Quiet(n)
  PROVE  AckInv(n)' /\ ReceivedInv(n)'
<1> DEFINE m == Peer[n]
<1> PICK q : q = Len(log[n])
  OBVIOUS
<1>0. /\ q \in Nat /\ Len(log'[n]) = q /\ LogKept(n) /\ m \in Node
      /\ CarryInv(n) /\ ReceivedInv(n) /\ AckInv(n)
      /\ q > 0 => SeqOf(q) \in SeqNum
  BY LogTypes, SeqOfFacts DEF Quiet, LogKept, ServiceInv
<1>1. \A p \in 0 .. q : Doubtful(n, p)' <=> Doubtful(n, p)
  BY <1>0, DoubtStays DEF LogKept
<1>2. q > 0 => log'[n][q].rel = log[n][q].rel
  BY <1>0 DEF LogKept
<1>3. ASSUME ~Doubtful(n, q)
      PROVE  OnTheWay(n)' /\ InHand(n)' /\ FlagSet(n)'
  <2>1. OnTheWay(n) /\ InHand(n) /\ FlagSet(n)
    BY <1>0, <1>3 DEF AckInv
  <2>2. \A i \in Acks(wire'[m]) : \E j \in Acks(wire[m]) : wire'[m][i].seq = wire[m][j].seq
    BY DEF Quiet, AcksKept
  <2>3. ASSUME NEW i \in Acks(wire'[m]), NEW s, s = wire'[m][i].seq
        PROVE  Answers(n, s)'
    <3>1. Answers(n, s)
      BY <2>1, <2>2, <2>3 DEF OnTheWay
    <3> QED BY <1>0, <1>3, <3>1, AnswersStays
  <2>4. q > 0 /\ Received(n, q) => Received(n, q)'
    <3>1. q > 0 => q \in 1 .. Len(log[n])
      BY <1>0
    <3> QED BY <1>0, <1>3, <3>1, ReceivedStays
  <2>5. q > 0 /\ log'[n][q].rel => Settles(wire'[m], SeqOf(q))
    BY <1>0, <1>2, <2>1 DEF Quiet, AcksKept, OnTheWay
  <2>6. \A s : AllAnswer(n, s) => AllAnswer(n, s)'
    BY <2>2 DEF AllAnswer
  <2>7. OnTheWay(n)'
    BY <1>0, <2>3, <2>5 DEF OnTheWay, Answers
  <2>8. InHand(n)'
    BY <1>0, <1>2, <2>1, <2>4, <2>6 DEF InHand, Quiet, AllAnswer
  <2>9. FlagSet(n)'
    BY <1>0, <1>2, <2>1, <2>4, <2>6 DEF FlagSet, Quiet, AllAnswer
  <2> QED BY <2>7, <2>8, <2>9
<1>4. AckInv(n)'
  <2>1. 0 <= q /\ q \in 0 .. q
    BY <1>0
  <2>2. q > 0 /\ log'[n][q].res = "acked" => acked'[n]
    BY <1>0 DEF AckInv, Quiet
  <2>3. ~Doubtful(n, q)' => ~Doubtful(n, q)
    BY <1>1, <2>1
  <2> QED BY <1>0, <1>3, <2>2, <2>3 DEF AckInv
<1>5. ASSUME NEW p \in 1 .. q, Acked(n, p)', ~Doubtful(n, p)'
      PROVE  Received(n, p)'
  <2>1. ~Doubtful(n, p) /\ p \in 1 .. Len(log[n])
    BY <1>0, <1>1, <1>5
  <2>2. Received(n, p)
    <3>1. CASE Acked(n, p)
      BY <1>0, <2>1, <3>1 DEF ReceivedInv
    <3>2. CASE ~Acked(n, p)
      <4>1. p = q
        <5>1. ~(p < Len(log[n]))
          BY <1>0, <1>5, <2>1, <3>2 DEF LogKept, Acked
        <5> QED BY <1>0, <5>1
      <4>2. acked[n] /\ log[n][q].rel /\ NoUnset(n)
        BY <1>0, <1>5, <3>2, <4>1 DEF Quiet, Acked
      <4>3. FlagSet(n)
        BY <1>0, <2>1, <4>1 DEF AckInv
      <4> QED BY <1>0, <4>1, <4>2, <4>3 DEF FlagSet
    <3> QED BY <3>1, <3>2
  <2> QED BY <1>0, <2>1, <2>2, ReceivedStays
<1> QED BY <1>0, <1>4, <1>5 DEF ReceivedInv

\* A call takes the next number: the old acknowledgements are all of the
\* packet before, and that is settled.
LEMMA AssembleAckInv ==
  ASSUME SoundLine, TInv, OrderInv, LogInv, NEW n \in Node, ServiceInv(n),
         NEW t \in Thread, Home[t] = n, Assemble(t)
  PROVE  AckInv(n)' /\ ReceivedInv(n)'
<1> DEFINE m == Peer[n]
<1> PICK q : q = Len(log[n])
  OBVIOUS
<1>0. /\ q \in Nat /\ m \in Node /\ \A i \in 1 .. q : log[n][i].rel \in BOOLEAN
      /\ CarryInv(n) /\ ReceivedInv(n) /\ AckInv(n) /\ EntriesInv(n)
  BY LogTypes DEF ServiceInv, LogInv
<1>1. /\ Len(log'[n]) = q + 1
      /\ \A i \in 1 .. q : log'[n][i] = log[n][i]
      /\ log'[n][q + 1].res = "pending" /\ log'[n][q + 1].rel = call[t].rel
      /\ call'[t].pc = IF call[t].rel THEN "unset" ELSE "write"
      /\ ~Sending(n)
  BY AssembleStep
<1>2. /\ UNCHANGED <<wire, acked, current_acked_seq, rx, delivered>>
      /\ \A p : Received(n, p)' <=> Received(n, p)
  <2>1. UNCHANGED <<wire, acked, current_acked_seq, rx, delivered>>
    BY DEF Assemble, ackVars, receiverVars
  <2> QED BY <2>1 DEF Received
<1>3. \A p \in 0 .. q : Doubtful(n, p)' <=> Doubtful(n, p)
  BY <1>0, <1>1, DoubtStays
<1>4. ASSUME NEW p \in 1 .. q + 1, Acked(n, p)', ~Doubtful(n, p)'
      PROVE  Received(n, p)'
  <2>1. p \in 1 .. q
    <3>1. p # q + 1
      BY <1>1, <1>4 DEF Acked
    <3> QED BY <1>0, <3>1
  <2>2. p \in 0 .. q
    BY <2>1
  <2>3. Acked(n, p) /\ ~Doubtful(n, p)
    BY <1>1, <1>3, <1>4, <2>1, <2>2 DEF Acked
  <2> QED BY <1>0, <1>2, <2>1, <2>3 DEF ReceivedInv
<1>5. ASSUME ~Doubtful(n, q + 1)'
      PROVE  OnTheWay(n)' /\ InHand(n)' /\ FlagSet(n)'
  <2>1. ~Doubtful(n, q)
    <3>1. Doubtful(n, q)' => Doubtful(n, q + 1)'
      <4>1. \A i : (i \in 1 .. q => i \in 1 .. q + 1) /\ (i \in 1 .. q - 1 => i \in 1 .. (q + 1) - 1)
        BY <1>0
      <4> QED BY <4>1 DEF Doubtful, EarlierTimeout, LongRun
    <3> QED BY <1>0, <1>3, <1>5, <3>1
  <2>2. OnTheWay(n) /\ InHand(n) /\ FlagSet(n)
    BY <1>0, <2>1 DEF AckInv
  <2>3. q > 0 => log[n][q].res \in {"acked", "sent"}
    <3> SUFFICES ASSUME q > 0 PROVE log[n][q].res \in {"acked", "sent"}
      OBVIOUS
    <3>1. q \in 1 .. Len(log[n]) /\ q \in 1 .. (q + 1) - 1
      BY <1>0
    <3>2. EntryInv(n, q) /\ log[n][q].res \in Result
      BY <1>0, <3>1, LogTypes DEF EntriesInv
    <3>3. log'[n][q].res # "timeout"
      BY <1>5, <3>1 DEF Doubtful, EarlierTimeout
    <3> QED BY <1>1, <3>1, <3>2, <3>3 DEF EntryInv, Result
  <2>4. InHand(n)'
    <3>1. rx[n].pc # "set"
      BY <2>2, <2>3 DEF InHand
    <3> QED BY <1>2, <3>1 DEF InHand
  <2>5. FlagSet(n)'
    <3>1. log'[n][q + 1].rel => ~NoUnset(n)'
      BY <1>1 DEF NoUnset
    <3> QED BY <1>1, <3>1 DEF FlagSet
  <2>6. ASSUME NEW i \in Acks(wire[m]), NEW s, s = wire[m][i].seq
        PROVE  \E p \in 1 .. q : /\ log[n][p].rel /\ SeqOf(p) = s /\ Received(n, p)
                                 /\ \A j \in p + 1 .. q : ~log[n][j].rel
    <3>1. PICK p \in 1 .. q : /\ log[n][p].rel /\ SeqOf(p) = s /\ Received(n, p)
                              /\ \A j \in p + 1 .. q - 1 : ~log[n][j].rel
      BY <2>2, <2>6 DEF OnTheWay, Answers
    <3>2. q > 0 /\ q \in 1 .. Len(log[n])
      BY <1>0
    <3>3. CASE log[n][q].rel
      <4>1. log[n][q].res = "acked"
        BY <1>0, <2>3, <3>2, <3>3 DEF EntriesInv, EntryInv
      <4>2. acked[n] /\ NoUnset(n)
        BY <1>0, <1>1, <3>2, <4>1 DEF AckInv, NoUnset, Sending, Numbered
      <4>3. Received(n, q) /\ s = SeqOf(q)
        BY <2>2, <2>6, <3>2, <3>3, <4>2 DEF FlagSet, AllAnswer
      <4>4. \A j \in q + 1 .. q : ~log[n][j].rel
        BY <1>0
      <4> QED BY <3>2, <3>3, <4>3, <4>4
    <3>4. CASE ~log[n][q].rel
      <4>1. \A j \in p + 1 .. q : j = q \/ j \in p + 1 .. q - 1
        BY <1>0
      <4> QED BY <3>1, <3>4, <4>1
    <3> QED BY <3>3, <3>4
  <2>7. ASSUME NEW i \in Acks(wire[m]), NEW s, s = wire[m][i].seq
        PROVE  Answers(n, s)' /\ s # SeqOf(q + 1)
    <3>1. PICK p \in 1 .. q : /\ log[n][p].rel /\ SeqOf(p) = s /\ Received(n, p)
                              /\ \A j \in p + 1 .. q : ~log[n][j].rel
      BY <2>6, <2>7
    <3>2. /\ p \in 1 .. Len(log'[n]) /\ log'[n][p].rel /\ Received(n, p)'
          /\ \A j \in p + 1 .. q : ~log'[n][j].rel
          /\ (q + 1) - 1 = q
      <4>1. p \in 1 .. q + 1 /\ \A j \in p + 1 .. q : j \in 1 .. q
        BY <1>0
      <4>2. log'[n][p].rel = log[n][p].rel /\ \A j \in p + 1 .. q : log'[n][j].rel = log[n][j].rel
        BY <1>1, <4>1
      <4>3. Received(n, p)'
        BY <1>2, <3>1
      <4>4. (q + 1) - 1 = q /\ p \in 1 .. Len(log'[n])
        BY <1>0, <1>1, <4>1
      <4> QED BY <3>1, <4>2, <4>3, <4>4
    <3>3. Answers(n, s)'
      BY <1>1, <3>1, <3>2 DEF Answers
    <3>4. ASSUME s = SeqOf(q + 1) PROVE FALSE
      <4>1. (q + 1) - p >= SeqMod
        BY <1>0, <3>1, <3>4, SeqOfFacts
      <4>2. p \in 1 .. q + 1 /\ q + 1 \in 1 .. q + 1
        BY <1>0
      <4>3. LongRun(n, q + 1)'
        BY <3>2, <4>1, <4>2 DEF LongRun
      <4> QED BY <1>5, <4>3 DEF Doubtful
    <3> QED BY <3>3, <3>4
  <2>8. OnTheWay(n)'
    <3>1. \A i \in Acks(wire[m]) : wire[m][i].seq # SeqOf(q + 1)
      BY <2>7
    <3>2. Settles(wire[m], SeqOf(q + 1))
      BY <3>1 DEF Settles
    <3>3. ASSUME NEW i \in Acks(wire'[m]), NEW s, s = wire'[m][i].seq
          PROVE  Answers(n, s)'
      BY <1>2, <2>7, <3>3
    <3> QED BY <1>1, <1>2, <3>2, <3>3 DEF OnTheWay, Answers
  <2> QED BY <2>4, <2>5, <2>8
<1>6. AckInv(n)'
  BY <1>1, <1>5 DEF AckInv
<1> QED BY <1>1, <1>4, <1>6 DEF ReceivedInv

\* A call clears the flag.
LEMMA UnsetAckInv ==
  ASSUME SoundLine, TInv, OrderInv, LogInv, NEW n \in Node, ServiceInv(n),
         NEW t \in Thread, Home[t] = n, Unset(t)
  PROVE  AckInv(n)' /\ ReceivedInv(n)'
<1>1. /\ UNCHANGED <<log, wire, current_acked_seq, rx, delivered>>
      /\ ~acked'[n] /\ call[t].pc = "unset"
  BY DEF Unset, receiverVars, TInv, TypeOK
<1>2. AckInv(n) /\ ReceivedInv(n)
  BY DEF ServiceInv
<1>3. Len(log[n]) > 0 /\ log[n][Len(log[n])].res = "pending"
  <2>1. call[t].pc \in Numbered
    BY <1>1 DEF Numbered
  <2> QED BY <2>1, NumberedFacts DEF LogInv, CallInv
<1>4. \A p : /\ Received(n, p)' <=> Received(n, p)
             /\ Doubtful(n, p)' <=> Doubtful(n, p)
             /\ Acked(n, p)' <=> Acked(n, p)
  BY <1>1 DEF Received, Doubtful, EarlierTimeout, LongRun, Acked
<1>5. ReceivedInv(n)'
  BY <1>1, <1>2, <1>4 DEF ReceivedInv
<1>6. FlagSet(n)'
  BY <1>1 DEF FlagSet
<1>7. InHand(n) => InHand(n)'
  BY <1>1, <1>4 DEF InHand, AllAnswer
<1>8. OnTheWay(n) => OnTheWay(n)'
  BY <1>1, <1>4 DEF OnTheWay, Answers
<1> QED BY <1>1, <1>2, <1>3, <1>4, <1>5, <1>6, <1>7, <1>8 DEF AckInv

\* The parse thread takes the acknowledgement of the packet being sent.
LEMMA TakeAckInv ==
  ASSUME SoundLine, TInv, OrderInv, LogInv, NEW n \in Node, ServiceInv(n), ReceiveAcked(n)
  PROVE  AckInv(n)' /\ ReceivedInv(n)'
<1> DEFINE m == Peer[n]
<1> PICK q : q = Len(log[n])
  OBVIOUS
<1> PICK f : f = Incoming(n)
  OBVIOUS
<1>0. /\ q \in Nat /\ m \in Node /\ m # n /\ wire[m] \in Seq(Frame)
      /\ rx \in [Node -> RxRec] /\ wire \in [Node -> Seq(Frame)]
      /\ ReceivedInv(n) /\ AckInv(n) /\ UnsentInv(n) /\ EntriesInv(n)
      /\ sequence[n] = q % SeqMod
  BY LogTypes DEF ServiceInv, LogInv, EntriesInv, TInv, TypeOK
<1>1. /\ wire[m] # << >> /\ f = Head(wire[m]) /\ IsAcked(f)
      /\ f.seq = CurrentSeq(n) /\ f.seq # current_acked_seq[n]
      /\ wire'[m] = Tail(wire[m])
      /\ rx'[n] = [pc |-> "set", frm |-> f] /\ rx'[m] = rx[m]
      /\ UNCHANGED <<log, call, acked, current_acked_seq, delivered>>
  BY <1>0 DEF ReceiveAcked, LengthGood, FrameReady, Incoming, FirstAck, RxGoto, Take, senderVars,
     ackVars
<1>2. \A p : /\ Received(n, p)' <=> Received(n, p)
             /\ Doubtful(n, p)' <=> Doubtful(n, p)
             /\ Acked(n, p)' <=> Acked(n, p)
  BY <1>1 DEF Received, Doubtful, EarlierTimeout, LongRun, Acked
<1>3. ReceivedInv(n)'
  BY <1>0, <1>1, <1>2 DEF ReceivedInv
<1>4. ASSUME ~Doubtful(n, q)
      PROVE  OnTheWay(n)' /\ InHand(n)' /\ FlagSet(n)'
  <2>1. OnTheWay(n) /\ FlagSet(n)
    BY <1>0, <1>4 DEF AckInv
  <2>2. Answers(n, f.seq)
    <3>1. \E i \in Acks(wire[m]) : wire[m][i].seq = f.seq
      BY <1>0, <1>1, TailKept
    <3> QED BY <2>1, <3>1 DEF OnTheWay
  <2>3. q > 0 /\ q \in 1 .. Len(log[n])
    <3>1. \E p \in 1 .. q : TRUE
      BY <2>2 DEF Answers
    <3> QED BY <1>0, <3>1
  <2>4. f.seq = SeqOf(q) /\ SeqOf(q) \in SeqNum
    BY <1>0, <1>1, <2>3, SeqOfFacts DEF CurrentSeq
  <2>5. log[n][q].rel /\ Received(n, q)
    BY <1>4, <2>2, <2>3, <2>4, LastAnswered
  <2>6. \A i \in Acks(wire'[m]) : wire'[m][i].seq = SeqOf(q)
    <3>1. Settles(wire[m], SeqOf(q))
      BY <2>1, <2>3, <2>5 DEF OnTheWay
    <3> QED BY <1>0, <1>1, <2>4, <3>1, TailKept
  <2>7. NoUnset(n)
    <3> SUFFICES ASSUME NEW t \in Thread, Home[t] = n, call[t].pc = "unset"
                 PROVE  FALSE
      BY DEF NoUnset
    <3>1. call[t].pkt = q
      BY NumberedFacts DEF Numbered
    <3> QED BY <1>0, <2>5, <3>1 DEF UnsentInv
  <2>8. ~acked[n]
    BY <1>1, <2>1, <2>3, <2>4, <2>5, <2>7 DEF FlagSet
  <2>9. log[n][q].res \in {"pending", "timeout"}
    <3>1. EntryInv(n, q) /\ log[n][q].res \in Result
      BY <1>0, <2>3, LogTypes DEF EntriesInv
    <3>2. log[n][q].res # "acked"
      BY <1>0, <2>3, <2>8 DEF AckInv
    <3> QED BY <2>5, <3>1, <3>2 DEF EntryInv, Result
  <2>10. InHand(n)'
    <3>1. AllAnswer(n, SeqOf(q))'
      BY <1>1, <2>6 DEF AllAnswer, SeqOf
    <3>2. rx'[n].frm.seq = SeqOf(q) /\ Received(n, q)' /\ ~acked'[n]
      BY <1>1, <1>2, <2>4, <2>5, <2>8
    <3> QED BY <1>1, <2>3, <2>5, <2>9, <3>1, <3>2 DEF InHand
  <2>11. FlagSet(n)'
    BY <1>1, <2>8 DEF FlagSet
  <2>12. OnTheWay(n)'
    <3>1. ASSUME NEW i \in Acks(wire'[m]), NEW s, s = wire'[m][i].seq
          PROVE  Answers(n, s)'
      <4>1. Answers(n, s)
        BY <2>2, <2>4, <2>6, <3>1
      <4> QED BY <1>1, <1>2, <4>1 DEF Answers
    <3>2. Settles(wire'[m], SeqOf(q))
      BY <2>6 DEF Settles
    <3> QED BY <1>1, <3>1, <3>2 DEF OnTheWay, Answers
  <2> QED BY <2>10, <2>11, <2>12
<1> QED BY <1>0, <1>1, <1>2, <1>3, <1>4 DEF AckInv

\* The parse thread sets the flag.
LEMMA SetAckInv ==
  ASSUME SoundLine, TInv, OrderInv, LogInv, NEW n \in Node, ServiceInv(n), SetAcked(n)
  PROVE  AckInv(n)' /\ ReceivedInv(n)'
<1>0. /\ Peer[n] \in Node /\ Peer[n] # n /\ rx \in [Node -> RxRec]
      /\ acked \in [Node -> BOOLEAN] /\ current_acked_seq \in [Node -> SeqNum]
      /\ ReceivedInv(n) /\ AckInv(n)
  BY LogTypes DEF ServiceInv, TInv, TypeOK
<1>1. /\ rx[n].pc = "set" /\ rx'[n].pc = "break" /\ rx'[Peer[n]] = rx[Peer[n]]
      /\ acked'[n] = TRUE /\ current_acked_seq'[n] = rx[n].frm.seq
      /\ UNCHANGED <<log, call, wire, delivered>>
  BY <1>0 DEF SetAcked, RxRec, senderVars
<1>2. \A p : /\ Received(n, p)' <=> Received(n, p)
             /\ Doubtful(n, p)' <=> Doubtful(n, p)
             /\ Acked(n, p)' <=> Acked(n, p)
  BY <1>1 DEF Received, Doubtful, EarlierTimeout, LongRun, Acked
<1>3. ReceivedInv(n)'
  BY <1>0, <1>1, <1>2 DEF ReceivedInv
<1>4. OnTheWay(n) => OnTheWay(n)'
  BY <1>1, <1>2 DEF OnTheWay, Answers
<1>5. InHand(n) => InHand(n)' /\ FlagSet(n)'
  BY <1>1, <1>2 DEF InHand, FlagSet, AllAnswer
<1> QED BY <1>0, <1>1, <1>2, <1>3, <1>4, <1>5 DEF AckInv

\* The peer acknowledges a packet: the last one, or the one before as long as
\* the last one has not been received.
LEMMA AnswerAckInv ==
  ASSUME SoundLine, TInv, OrderInv, LogInv, NEW n \in Node, ServiceInv(n), [Next]_vars,
         Acknowledges(Peer[n])
  PROVE  AckInv(n)' /\ ReceivedInv(n)'
<1> DEFINE m == Peer[n]
<1> PICK q : q = Len(log[n])
  OBVIOUS
<1> PICK f : f = Incoming(m)
  OBVIOUS
<1> PICK g : g = AckFrame(f.seq)
  OBVIOUS
<1>0. /\ q \in Nat /\ m \in Node /\ m # n /\ wire[m] \in Seq(Frame) /\ rx \in [Node -> RxRec]
      /\ CarryInv(n) /\ ReceivedInv(n) /\ AckInv(n)
  BY LogTypes DEF ServiceInv, TInv, TypeOK
<1>1. /\ f \in Frame /\ Intact(f) /\ f \in IntactFrames(wire[n])
      /\ \E i \in 1 .. Len(wire[n]) : wire[n][i] = f
      /\ rx[m].pc = "idle" /\ rx'[m] = [pc |-> "deliver", frm |-> f]
      /\ UNCHANGED <<delivered, log, call>>
  BY ReceiveDataFacts DEF Acknowledges
<1>2. /\ rx'[n] = rx[n] /\ UNCHANGED <<acked, current_acked_seq>>
      /\ "ACK" \in f.ctrl /\ wire'[m] = Put(wire[m], g)
  BY <1>0 DEF Acknowledges, ReceiveData, RxGoto, ackVars
<1>3. f.pkt \in Nat /\ f.pkt > 0 /\ f.seq \in SeqNum
  BY <1>1 DEF Intact, Frame
<1>4. f.pkt \in 1 .. Len(log[n]) /\ f.seq = SeqOf(f.pkt) /\ log[n][f.pkt].rel
  BY <1>0, <1>1, <1>2, <1>3 DEF CarryInv, TellsTruth
<1>5. g \in Frame /\ g.seq = f.seq
  BY <1>3, FrameFacts DEF AckFrame
<1>6. \A p : /\ Received(n, p) => Received(n, p)'
             /\ Doubtful(n, p)' <=> Doubtful(n, p)
             /\ Acked(n, p)' <=> Acked(n, p)
  BY <1>1 DEF Received, Doubtful, EarlierTimeout, LongRun, Acked
<1>7. ReceivedInv(n)'
  BY <1>0, <1>1, <1>6 DEF ReceivedInv
<1>8. Received(n, f.pkt)'
  BY <1>1 DEF Received
<1>9. ASSUME NEW p \in 1 .. q, Received(n, p)
      PROVE  p <= f.pkt
  BY <1>0, <1>1, <1>9, ReceivedFacts
<1>10. ASSUME ~Doubtful(n, q)
       PROVE  OnTheWay(n)' /\ InHand(n)' /\ FlagSet(n)'
  <2>1. OnTheWay(n) /\ InHand(n) /\ FlagSet(n)
    BY <1>0, <1>10 DEF AckInv
  <2>2. \A i \in Acks(wire'[m]) : wire'[m][i] = g \/ \E j \in Acks(wire[m]) : wire'[m][i] = wire[m][j]
    <3>1. \A i \in Acks(Put(wire[m], g)) :
            Put(wire[m], g)[i] = g \/ \E j \in Acks(wire[m]) : Put(wire[m], g)[i] = wire[m][j]
      BY <1>0, <1>5, PutKept
    <3> QED BY <1>2, <3>1
  <2>3. Answers(n, f.seq)'
    <3>1. ASSUME NEW i \in f.pkt + 1 .. q - 1, log[n][i].rel
          PROVE  FALSE
      <4>1. i \in 1 .. q - 1 /\ i \in 1 .. q /\ q \in 1 .. Len(log[n]) /\ ~(i <= f.pkt)
        BY <1>0, <1>3
      <4>2. Received(n, i)
        BY <1>0, <1>10, <3>1, <4>1, ReliableBefore
      <4> QED BY <1>9, <4>1, <4>2
    <3> QED BY <1>1, <1>4, <1>8, <3>1 DEF Answers
  <2>4. ASSUME NEW i \in Acks(wire'[m]), NEW s, s = wire'[m][i].seq
        PROVE  Answers(n, s)'
    <3>1. CASE wire'[m][i] = g
      BY <1>5, <2>3, <2>4, <3>1
    <3>2. CASE \E j \in Acks(wire[m]) : wire'[m][i] = wire[m][j]
      <4>1. Answers(n, s)
        BY <2>1, <2>4, <3>2 DEF OnTheWay
      <4> QED BY <1>1, <1>6, <4>1 DEF Answers
    <3> QED BY <2>2, <3>1, <3>2
  <2>5. q > 0 /\ Received(n, q) => f.pkt = q
    <3>1. q > 0 => q \in 1 .. q
      BY <1>0
    <3> QED BY <1>0, <1>3, <1>4, <1>9, <3>1
  <2>6. ASSUME q > 0, log[n][q].rel
        PROVE  Settles(wire'[m], SeqOf(q))
    <3>1. SeqOf(q) \in SeqNum /\ Settles(wire[m], SeqOf(q))
      BY <1>0, <2>1, <2>6, SeqOfFacts DEF OnTheWay
    <3>2. ASSUME NEW i \in Acks(wire[m]), wire[m][i].seq = SeqOf(q)
          PROVE  g.seq = SeqOf(q)
      <4>1. Answers(n, SeqOf(q))
        BY <2>1, <3>2 DEF OnTheWay
      <4>2. Received(n, q)
        BY <1>10, <2>6, <4>1, LastAnswered
      <4> QED BY <1>4, <1>5, <2>5, <2>6, <4>2
    <3>3. Settles(Put(wire[m], g), SeqOf(q))
      BY <1>0, <1>5, <3>1, <3>2, PutKept
    <3> QED BY <1>2, <3>3
  <2>7. OnTheWay(n)'
    BY <1>1, <2>4, <2>6 DEF OnTheWay, Answers
  <2>8. q > 0 /\ Received(n, q) /\ AllAnswer(n, SeqOf(q)) => AllAnswer(n, SeqOf(q))'
    <3> SUFFICES ASSUME q > 0, Received(n, q), AllAnswer(n, SeqOf(q)),
                        NEW i \in Acks(wire'[m])
                 PROVE  wire'[m][i].seq = SeqOf(q)
      BY DEF AllAnswer, SeqOf
    <3> QED BY <1>4, <1>5, <2>2, <2>5 DEF AllAnswer
  <2>9. InHand(n)'
    BY <1>1, <1>2, <1>6, <2>1, <2>8 DEF InHand
  <2>10. NoUnset(n)' <=> NoUnset(n)
    BY <1>1 DEF NoUnset
  <2>11. FlagSet(n)'
    BY <1>1, <1>2, <1>6, <2>1, <2>8, <2>10 DEF FlagSet
  <2> QED BY <2>7, <2>9, <2>11
<1> QED BY <1>0, <1>1, <1>2, <1>6, <1>7, <1>10 DEF AckInv

LEMMA SameLogQuiet ==
  ASSUME TInv, NEW n \in Node, log'[n] = log[n],
         acked'[n] = acked[n], current_acked_seq'[n] = current_acked_seq[n],
         rx'[n].pc = "set" => rx'[n] = rx[n],
         NoUnset(n)' => NoUnset(n), AcksKept(wire[Peer[n]], wire'[Peer[n]])
  PROVE  Quiet(n)
<1>1. Len(log[n]) \in Nat
  BY LogTypes
<1>2. LogKept(n)
  BY DEF LogKept
<1> QED BY <1>1, <1>2 DEF Quiet

LEMMA ThreadQuiet ==
  ASSUME TInv, LogInv, NEW n \in Node, NEW t \in Thread, Call(t) \/ ThreadStep(t),
         Home[t] = n => ~Assemble(t) /\ ~Unset(t), AcksKept(wire[Peer[n]], wire'[Peer[n]])
  PROVE  Quiet(n)
<1>1. Home[t] \in Node /\ acked \in [Node -> BOOLEAN] /\ rx' = rx
      /\ \A u \in Thread \ {t} : call'[u] = call[u]
  BY TopologyAssumption, ThreadFacts DEF TInv, TypeOK
<1>2. acked'[n] = acked[n] /\ current_acked_seq'[n] = current_acked_seq[n]
  <2>1. CASE Unset(t)
    BY <1>1, <2>1 DEF Unset
  <2>2. CASE ~Unset(t)
    BY <2>2 DEF ThreadStep, Write, Wait, Check, Call, Lock, Reject, Assemble, Transmit,
       Wake, Timeout, CheckAcked, CheckResend, CheckGiveUp, Return, ackVars
  <2> QED BY <2>1, <2>2
<1>3. NoUnset(n)' => NoUnset(n)
  <2> SUFFICES ASSUME NoUnset(n)', NEW u \in Thread, Home[u] = n, call[u].pc = "unset"
               PROVE  FALSE
    BY DEF NoUnset
  <2>1. CASE u = t
    <3>1. Unset(t)
      BY <2>1 DEF ThreadStep, Write, Wait, Check, Call, Lock, Reject, Assemble, Transmit,
         Wake, Timeout, CheckAcked, CheckResend, CheckGiveUp, Return
    <3> QED BY <2>1, <3>1
  <2>2. CASE u # t
    BY <1>1, <2>2 DEF NoUnset
  <2> QED BY <2>1, <2>2
<1>4. CASE log'[n] = log[n]
  BY <1>1, <1>2, <1>3, <1>4, SameLogQuiet
<1>5. CASE Assemble(t)
  <2>1. log'[n] = log[n]
    BY <1>1, <1>5, AssembleStep
  <2> QED BY <1>4, <2>1
<1>6. CASE Stays(t)
  <2>1. log'[n] = log[n]
    BY <1>6 DEF Stays
  <2> QED BY <1>4, <2>1
<1>7. ASSUME NEW r \in {"sent", "acked", "timeout"}, Ends(t, r), Home[t] # n
      PROVE  Quiet(n)
  <2>1. log'[n] = log[n]
    BY <1>1, <1>7, VerdictStep DEF Ends, Result
  <2> QED BY <1>4, <2>1
<1>8. ASSUME NEW r \in {"sent", "acked", "timeout"}, Ends(t, r), Home[t] = n
      PROVE  Quiet(n)
  <2>1. /\ LogKept(n) /\ log'[n][Len(log[n])].res = r
        /\ call[t].pc \in Numbered
    BY <1>8, VerdictStep DEF Ends, Result
  <2>2. /\ call[t].pkt = Len(log[n])
        /\ \A u \in Thread : Home[u] = n /\ call[u].pc \notin {"idle", "lock"} => u = t
    BY <1>8, <2>1, NumberedFacts
  <2>3. log[n][Len(log[n])].rel = call[t].rel
    BY <1>8, <2>1, <2>2 DEF LogInv, CallInv
  <2>4. NoUnset(n)
    BY <1>8, <2>2 DEF NoUnset, Ends
  <2>5. r = "sent" => ~call[t].rel
    BY <1>8 DEF Ends
  <2>6. r = "acked" => acked[n] /\ call[t].rel
    BY <1>8 DEF Ends
  <2> QED BY <1>1, <1>2, <1>3, <2>1, <2>3, <2>4, <2>5, <2>6 DEF Quiet
<1> QED BY <1>5, <1>6, <1>7, <1>8, LogSteps

LEMMA OtherQuiet ==
  ASSUME SoundLine, TInv, NEW n \in Node, NEW k \in Node, ParseStep(k) \/ Environment(k),
         ~ReceiveAcked(n), ~SetAcked(n), AcksKept(wire[Peer[n]], wire'[Peer[n]])
  PROVE  Quiet(n)
<1>1. UNCHANGED <<call, log>>
  BY OtherLog
<1>2. rx \in [Node -> RxRec] /\ acked \in [Node -> BOOLEAN] /\ current_acked_seq \in [Node -> SeqNum]
  BY DEF TInv, TypeOK
<1>3. acked'[n] = acked[n] /\ current_acked_seq'[n] = current_acked_seq[n]
  <2>1. CASE SetAcked(k)
    BY <1>2, <2>1 DEF SetAcked
  <2>2. CASE ~SetAcked(k)
    <3>1. ~Restart(k)
      BY DEF SoundLine, Restart
    <3> QED BY <2>2, <3>1 DEF ParseStep, ReceiveBadLength, ReceiveAcked, ReceiveStaleAcked,
         ReceiveNacked, ReceiveCorrupt, ReceiveData, Break, Deliver, Environment, Lose, Damage, ackVars
  <2> QED BY <2>1, <2>2
<1>4. rx'[n].pc = "set" => rx'[n] = rx[n]
  <2>1. CASE Environment(k)
    <3>1. ~Restart(k)
      BY DEF SoundLine, Restart
    <3> QED BY <2>1, <3>1 DEF Environment, Lose, Damage, receiverVars
  <2>2. CASE ParseStep(k) /\ k # n
    <3>1. rx'[n] = rx[n]
      BY <1>2, <2>2 DEF ParseStep, ReceiveBadLength, ReceiveAcked, ReceiveStaleAcked, ReceiveNacked,
         ReceiveCorrupt, ReceiveData, SetAcked, Break, Deliver, RxGoto, receiverVars
    <3> QED BY <3>1
  <2>3. CASE ParseStep(n)
    BY <1>2, <2>3 DEF ParseStep, ReceiveBadLength, ReceiveStaleAcked, ReceiveNacked,
       ReceiveCorrupt, ReceiveData, Break, Deliver, RxGoto, IdleRx, receiverVars
  <2> QED BY <2>1, <2>2, <2>3
<1>5. NoUnset(n)' => NoUnset(n)
  BY <1>1 DEF NoUnset
<1> QED BY <1>1, <1>3, <1>4, <1>5, SameLogQuiet

\* One case for every way a step can concern the acknowledgements for end n.
LEMMA NextServiceInv ==
  ASSUME SoundLine, TInv, OrderInv, LogInv, NEW n \in Node, ServiceInv(n), [Next]_vars
  PROVE  ServiceInv(n)'
<1> DEFINE m == Peer[n]
<1>0. m \in Node /\ CarryInv(n) /\ UnsentInv(n)
  BY TopologyAssumption DEF ServiceInv
<1>1. CarryInv(n)' /\ UnsentInv(n)'
  BY <1>0, NextCarryInv, NextUnsentInv
<1>2. AckInv(n)' /\ ReceivedInv(n)'
  <2>1. CASE Acknowledges(m)
    BY <2>1, AnswerAckInv
  <2>2. CASE ReceiveAcked(n)
    BY <2>2, TakeAckInv
  <2>3. CASE SetAcked(n)
    BY <2>3, SetAckInv
  <2>4. CASE ~Acknowledges(m) /\ ~ReceiveAcked(n) /\ ~SetAcked(n)
    <3>1. AcksKept(wire[m], wire'[m])
      BY <1>0, <2>4, NextLineMove DEF LineMove
    <3>2. ASSUME NEW t \in Thread, Call(t) \/ ThreadStep(t)
          PROVE  AckInv(n)' /\ ReceivedInv(n)'
      <4>1. CASE Home[t] = n /\ Assemble(t)
        BY <4>1, AssembleAckInv
      <4>2. CASE Home[t] = n /\ Unset(t)
        BY <4>2, UnsetAckInv
      <4>3. CASE Home[t] = n => ~Assemble(t) /\ ~Unset(t)
        <5>1. Quiet(n)
          BY <3>1, <3>2, <4>3, ThreadQuiet
        <5> QED BY <5>1, QuietAckInv
      <4> QED BY <4>1, <4>2, <4>3
    <3>3. ASSUME NEW k \in Node, ParseStep(k) \/ Environment(k)
          PROVE  AckInv(n)' /\ ReceivedInv(n)'
      <4>1. Quiet(n)
        BY <2>4, <3>1, <3>3, OtherQuiet
      <4> QED BY <4>1, QuietAckInv
    <3>4. CASE UNCHANGED vars
      <4>1. /\ log'[n] = log[n] /\ rx'[n] = rx[n]
            /\ acked'[n] = acked[n] /\ current_acked_seq'[n] = current_acked_seq[n]
            /\ NoUnset(n)' => NoUnset(n)
        BY <3>4 DEF vars, senderVars, ackVars, receiverVars, NoUnset
      <4>2. Quiet(n)
        BY <3>1, <4>1, SameLogQuiet
      <4> QED BY <4>2, QuietAckInv
    <3> QED BY <3>2, <3>3, <3>4 DEF Next
  <2> QED BY <2>1, <2>2, <2>3, <2>4
<1> QED BY <1>1, <1>2 DEF ServiceInv

LEMMA InitServiceInv ==
  ASSUME Init
  PROVE  \A n \in Node : ServiceInv(n)
<1> SUFFICES ASSUME NEW n \in Node PROVE ServiceInv(n)
  OBVIOUS
<1>1. /\ Peer[n] \in Node /\ log[n] = << >> /\ Len(log[n]) = 0
      /\ wire[n] = << >> /\ Len(wire[n]) = 0 /\ wire[Peer[n]] = << >> /\ Len(wire[Peer[n]]) = 0
      /\ delivered[Peer[n]] = << >> /\ rx[Peer[n]].pc = "idle" /\ rx[n].pc = "idle"
      /\ last_recv_packet_seq[Peer[n]] = NoSeq /\ restarts[Peer[n]] = 0
      /\ \A t \in Thread : call[t].pc = "idle"
  BY TopologyAssumption DEF Init, IdleRx, NoCall
<1>2. CarryInv(n)
  BY <1>1 DEF CarryInv
<1>3. UnsentInv(n)
  BY <1>1 DEF UnsentInv
<1>4. ReceivedInv(n)
  BY <1>1 DEF ReceivedInv
<1>5. AckInv(n)
  BY <1>1 DEF AckInv, OnTheWay, InHand, FlagSet, Acks
<1> QED BY <1>2, <1>3, <1>4, <1>5 DEF ServiceInv

AllInv == TInv /\ OrderInv /\ LogInv /\ \A n \in Node : ServiceInv(n)

LEMMA SpecAllInv ==
  ASSUME SoundLine
  PROVE  Spec => []AllInv
<1>1. Init => AllInv
  BY InitTInv, InitOrderInv, InitLogInv, InitServiceInv DEF AllInv
<1>2. AllInv /\ [Next]_vars => AllInv'
  BY NextTInv, NextOrderInv, NextLogInv, NextServiceInv DEF AllInv
<1> QED BY <1>1, <1>2, PTL DEF Spec


-----------------------------------------------------------------------------
(* Sessions in which no sequence number is in doubt.                       *)

\* Either there are no more calls than numbers, or all of them are reliable.
NumbersSuffice ==
  (\A n \in Node : MaxCalls[n] <= SeqMod) \/ (FALSE \notin Modes /\ SeqMod > 1)

\* Calls whose packet has no number yet count against the bound of the session.
BoundInv(n) ==
  /\ IsFiniteSet(Unnumbered(n))
  /\ Len(log[n]) + Cardinality(Unnumbered(n)) <= MaxCalls[n]

ModesInv ==
  /\ \A t \in Thread : call[t].pc # "idle" => call[t].rel \in Modes
  /\ \A n \in Node : \A i \in 1 .. Len(log[n]) : log[n][i].rel \in Modes

SessionInv == ModesInv /\ \A n \in Node : BoundInv(n)

\* What a step of thread t does to its place among the unnumbered calls.
Begins(t) ==
  /\ Len(log[Home[t]]) + Cardinality(Unnumbered(Home[t])) < MaxCalls[Home[t]]
  /\ call[t].pc = "idle" /\ call'[t].pc = "lock" /\ call'[t].rel \in Modes
  /\ UNCHANGED log

GoesOn(t) ==
  /\ call[t].pc # "idle" /\ (call'[t].pc # "idle" => call'[t].rel = call[t].rel)
  /\ call'[t].pc \in {"lock", "assemble"} => call[t].pc \in {"lock", "assemble"}

LEMMA ThreadProgress ==
  ASSUME TInv, LogInv, NEW t \in Thread, Call(t) \/ ThreadStep(t)
  PROVE  Begins(t) \/ GoesOn(t)
<1>0. call \in [Thread -> CallRec] /\ call[t] \in CallRec
  BY DEF TInv, TypeOK
<1>1. CASE Call(t)
  <2>1. PICK r \in Modes : call' = [call EXCEPT ![t] = [NoCall EXCEPT !.pc = "lock", !.rel = r]]
    BY <1>1 DEF Call
  <2>2. call'[t].pc = "lock" /\ call[t].pc = "idle" /\ call'[t].rel = r
    BY <1>0, <1>1, <2>1 DEF Call, NoCall
  <2> QED BY <1>1, <2>2 DEF Call, Begins
<1>2. CASE Assemble(t)
  <2>1. call'[t].pc \in {"unset", "write"} /\ call'[t].rel = call[t].rel
    BY <1>2, AssembleStep
  <2>2. call[t].pc = "assemble"
    BY <1>2 DEF Assemble
  <2> QED BY <2>1, <2>2 DEF GoesOn
<1>3. CASE Return(t)
  <2>1. call[t].pc = "return" /\ call'[t].pc = "idle"
    BY <1>0, <1>3 DEF Return, NoCall
  <2> QED BY <2>1 DEF GoesOn
<1>4. CASE CheckResend(t)
  <2> DEFINE d == [call[t] EXCEPT !.pc = "write", !.left = @ - 1]
  <2>1. call' = [call EXCEPT ![t] = d] /\ call[t].left > 0 /\ call[t].pc = "check"
    BY <1>4 DEF CheckResend
  <2>2. d.pc = "write" /\ d.rel = call[t].rel
    BY <1>0, <2>1, RetryFacts
  <2>3. call'[t] = d
    BY <1>0, <2>1
  <2> HIDE DEF d
  <2> QED BY <2>1, <2>2, <2>3 DEF GoesOn
<1>5. CASE Lock(t) \/ Reject(t) \/ Unset(t) \/ Transmit(t) \/ Wait(t) \/ CheckAcked(t) \/ CheckGiveUp(t)
  <2>1. PICK pc \in CallPC \ {"lock"} : Goto(t, pc)
    BY <1>5 DEF Lock, Reject, Unset, Transmit, Wait, Wake, Timeout, CheckAcked, CheckGiveUp, CallPC
  <2>2. call'[t].pc = pc /\ call'[t].rel = call[t].rel
    BY <1>0, <2>1, GotoFacts
  <2>3. call[t].pc # "idle"
    BY <1>5 DEF Lock, Reject, Unset, Transmit, Wait, Wake, Timeout, CheckAcked, CheckGiveUp
  <2>4. pc = "assemble" => call[t].pc = "lock"
    <3>1. CASE Lock(t)
      BY <3>1 DEF Lock
    <3>2. CASE ~Lock(t)
      <4>1. \E x \in CallPC \ {"lock", "assemble"} : call'[t].pc = x
        <5>1. PICK x \in CallPC \ {"lock", "assemble"} : Goto(t, x)
          BY <1>5, <3>2 DEF Reject, Unset, Transmit, Wait, Wake, Timeout, CheckAcked, CheckGiveUp, CallPC
        <5> QED BY <1>0, <5>1, GotoFacts
      <4> QED BY <2>2, <4>1
    <3> QED BY <3>1, <3>2
  <2> QED BY <2>2, <2>3, <2>4 DEF GoesOn
<1> QED BY <1>1, <1>2, <1>3, <1>4, <1>5 DEF ThreadStep, Write, Check

LEMMA ThreadModesInv ==
  ASSUME TInv, LogInv, ModesInv, NEW t \in Thread, Call(t) \/ ThreadStep(t)
  PROVE  ModesInv'
<1>1. ASSUME NEW u \in Thread, call'[u].pc # "idle"
      PROVE  call'[u].rel \in Modes
  <2>1. CASE u # t
    <3>1. call'[u] = call[u]
      BY <2>1, ThreadFacts
    <3> QED BY <1>1, <3>1 DEF ModesInv
  <2>2. CASE u = t
    BY <1>1, <2>2, ThreadProgress DEF Begins, GoesOn, ModesInv
  <2> QED BY <2>1, <2>2
<1>2. ASSUME NEW n \in Node, NEW i \in 1 .. Len(log'[n])
      PROVE  log'[n][i].rel \in Modes
  <2>0. Len(log[n]) \in Nat
    BY LogTypes
  <2>1. CASE Stays(t) \/ (Home[t] # n /\ Assemble(t))
    <3>1. log'[n] = log[n]
      BY <2>1, AssembleStep DEF Stays
    <3> QED BY <1>2, <3>1 DEF ModesInv
  <2>2. CASE Assemble(t) /\ Home[t] = n
    <3>1. /\ Len(log'[n]) = Len(log[n]) + 1
          /\ \A k \in 1 .. Len(log[n]) : log'[n][k] = log[n][k]
          /\ log'[n][Len(log[n]) + 1].rel = call[t].rel
      BY <2>2, AssembleStep
    <3>2. call[t].rel \in Modes
      BY <2>2 DEF Assemble, ModesInv
    <3>3. CASE i = Len(log[n]) + 1
      BY <3>1, <3>2, <3>3
    <3>4. CASE i # Len(log[n]) + 1
      <4>1. i \in 1 .. Len(log[n])
        BY <1>2, <2>0, <3>1, <3>4
      <4> QED BY <3>1, <4>1 DEF ModesInv
    <3> QED BY <3>3, <3>4
  <2>3. ASSUME NEW r \in {"sent", "acked", "timeout"}, Ends(t, r)
        PROVE  log'[n][i].rel \in Modes
    <3>1. /\ LogKept(Home[t])
          /\ \A k \in Node \ {Home[t]} : log'[k] = log[k]
      BY <2>3, VerdictStep DEF Ends, Result
    <3>2. Len(log'[n]) = Len(log[n]) /\ log'[n][i].rel = log[n][i].rel
      BY <1>2, <3>1 DEF LogKept
    <3> QED BY <1>2, <3>2 DEF ModesInv
  <2> QED BY <2>1, <2>2, <2>3, LogSteps
<1> QED BY <1>1, <1>2 DEF ModesInv

LEMMA ThreadBoundInv ==
  ASSUME TInv, LogInv, NEW n \in Node, BoundInv(n), NEW t \in Thread, Call(t) \/ ThreadStep(t)
  PROVE  BoundInv(n)'
<1> DEFINE U == Unnumbered(n)
           V == Unnumbered(n)'
<1>0. /\ Len(log[n]) \in Nat /\ Len(log'[n]) \in Nat
      /\ IsFiniteSet(U) /\ Cardinality(U) \in Nat
      /\ Len(log[n]) + Cardinality(U) <= MaxCalls[n] /\ MaxCalls[n] \in Nat
  <2>1. TInv'
    BY NextTInv DEF Next
  <2>2. log' \in [Node -> Seq(Entry)]
    BY <2>1 DEF TInv, TypeOK, Entry
  <2>3. Len(log'[n]) \in Nat
    BY <2>2, LenProperties
  <2> QED BY <2>3, LogTypes, FS_CardinalityType, ParameterAssumption DEF BoundInv
<1>1. \A u \in Thread \ {t} : u \in V <=> u \in U
  BY ThreadFacts DEF Unnumbered
<1>2. Home[t] = n /\ Assemble(t) => t \in U /\ t \notin V
  <2>1. Assemble(t) => call[t].pc = "assemble" /\ call'[t].pc \in {"unset", "write"}
    BY AssembleStep DEF Assemble
  <2> QED BY <2>1 DEF Unnumbered
<1>3. ~Begins(t) => V \subseteq U
  BY <1>1, ThreadProgress DEF GoesOn, Unnumbered
<1>4. U \subseteq Thread /\ V \subseteq Thread
  BY DEF Unnumbered
<1> SUFFICES IsFiniteSet(V) /\ Len(log'[n]) + Cardinality(V) <= MaxCalls[n]
  BY DEF BoundInv
<1>5. CASE Home[t] = n /\ Assemble(t)
  <2>1. V \subseteq U \ {t}
    BY <1>1, <1>2, <1>4, <1>5
  <2>2. IsFiniteSet(U \ {t}) /\ Cardinality(U \ {t}) = Cardinality(U) - 1
    BY <1>0, <1>2, <1>5, FS_RemoveElement
  <2>3. IsFiniteSet(V) /\ Cardinality(V) <= Cardinality(U) - 1 /\ Cardinality(V) \in Nat
    <3> HIDE DEF U, V
    <3> QED BY <2>1, <2>2, FS_Subset, FS_CardinalityType
  <2>4. Len(log'[n]) = Len(log[n]) + 1
    BY <1>5, AssembleStep
  <2> HIDE DEF U, V
  <2> QED BY <1>0, <2>3, <2>4
<1>6. CASE ~(Home[t] = n /\ Assemble(t))
  <2>1. Len(log'[n]) = Len(log[n])
    <3>1. ASSUME NEW r \in {"sent", "acked", "timeout"}, Ends(t, r)
          PROVE  Len(log'[n]) = Len(log[n])
      BY <3>1, VerdictStep DEF Ends, Result, LogKept
    <3>2. Assemble(t) => Home[t] # n /\ log'[n] = log[n]
      BY <1>6, AssembleStep
    <3> QED BY <3>1, <3>2, LogSteps DEF Stays
  <2>2. CASE V \subseteq U
    <3>1. IsFiniteSet(V) /\ Cardinality(V) <= Cardinality(U) /\ Cardinality(V) \in Nat
      <4> HIDE DEF U, V
      <4> QED BY <1>0, <2>2, FS_Subset, FS_CardinalityType
    <3> HIDE DEF U, V
    <3> QED BY <1>0, <2>1, <3>1
  <2>3. CASE ~(V \subseteq U)
    <3>1. Begins(t) /\ Home[t] = n
      <4>1. Begins(t)
        BY <1>3, <2>3
      <4>2. Home[t] # n => t \notin V
        BY DEF Unnumbered
      <4> QED BY <1>1, <1>4, <2>3, <4>1, <4>2
    <3>2. V = U \cup {t} /\ t \notin U
      <4>1. t \in V /\ t \notin U
        BY <3>1 DEF Begins, Unnumbered
      <4> QED BY <1>1, <1>4, <4>1
    <3>3. Len(log[n]) + Cardinality(U) < MaxCalls[n]
      BY <3>1 DEF Begins
    <3> HIDE DEF U, V
    <3>4. IsFiniteSet(V) /\ Cardinality(V) = Cardinality(U) + 1
      BY <1>0, <3>2, FS_AddElement
    <3> QED BY <1>0, <2>1, <3>3, <3>4
  <2> QED BY <2>2, <2>3
<1> QED BY <1>5, <1>6

LEMMA NextSessionInv ==
  ASSUME SoundLine, TInv, LogInv, SessionInv, [Next]_vars
  PROVE  SessionInv'
<1>1. ASSUME NEW t \in Thread, Call(t) \/ ThreadStep(t)
      PROVE  SessionInv'
  BY <1>1, ThreadModesInv, ThreadBoundInv DEF SessionInv
<1>2. ASSUME UNCHANGED <<call, log>>
      PROVE  SessionInv'
  <2>1. \A n \in Node : Unnumbered(n)' = Unnumbered(n)
    BY <1>2 DEF Unnumbered
  <2>2. \A n \in Node : BoundInv(n)'
    BY <1>2, <2>1 DEF BoundInv, SessionInv
  <2>3. ModesInv'
    BY <1>2 DEF ModesInv, SessionInv
  <2> QED BY <2>2, <2>3 DEF SessionInv
<1>3. ASSUME NEW n \in Node, ParseStep(n) \/ Environment(n)
      PROVE  SessionInv'
  BY <1>2, <1>3, OtherLog
<1>4. UNCHANGED vars => SessionInv'
  BY <1>2 DEF vars, senderVars
<1> QED BY <1>1, <1>3, <1>4 DEF Next

LEMMA SpecSessionInv ==
  ASSUME SoundLine
  PROVE  Spec => []SessionInv
<1>1. Init => SessionInv
  <2> SUFFICES ASSUME Init PROVE SessionInv
    OBVIOUS
  <2>1. ASSUME NEW n \in Node
        PROVE  Unnumbered(n) = {} /\ Len(log[n]) = 0 /\ MaxCalls[n] \in Nat
    BY ParameterAssumption DEF Init, Unnumbered, NoCall
  <2>2. ASSUME NEW n \in Node
        PROVE  BoundInv(n)
    <3>1. IsFiniteSet(Unnumbered(n)) /\ Cardinality(Unnumbered(n)) = 0
      BY <2>1, FS_EmptySet
    <3> QED BY <2>1, <3>1 DEF BoundInv
  <2>3. ModesInv
    BY <2>1 DEF Init, NoCall, ModesInv
  <2> QED BY <2>2, <2>3 DEF SessionInv
<1>2. AllInv /\ SessionInv /\ [Next]_vars => SessionInv'
  BY NextSessionInv DEF AllInv
<1> QED BY <1>1, <1>2, SpecAllInv, PTL DEF Spec

\* In such a session a number is not used for a second packet unnoticed.
LEMMA NoLongRun ==
  ASSUME NumbersSuffice, TInv, SessionInv, NEW n \in Node, NEW p \in 1 .. Len(log[n])
  PROVE  ~LongRun(n, p)
<1> SUFFICES ASSUME NEW a \in 1 .. p, NEW b \in 1 .. p, b - a >= SeqMod,
                    \A i \in a + 1 .. b - 1 : ~log[n][i].rel
             PROVE  FALSE
  BY DEF LongRun
<1>0. Len(log[n]) \in Nat /\ SeqMod \in Nat /\ a \in Nat /\ b \in Nat /\ p \in Nat
  BY LogTypes, ParameterAssumption
<1>1. CASE \A k \in Node : MaxCalls[k] <= SeqMod
  <2>1. Cardinality(Unnumbered(n)) \in Nat
    BY FS_CardinalityType DEF SessionInv, BoundInv
  <2>2. Len(log[n]) <= SeqMod
    BY <1>0, <1>1, <2>1, ParameterAssumption DEF SessionInv, BoundInv
  <2> QED BY <1>0, <2>2
<1>2. CASE FALSE \notin Modes /\ SeqMod > 1
  <2>1. a + 1 \in a + 1 .. b - 1 /\ a + 1 \in 1 .. Len(log[n])
    BY <1>0, <1>2
  <2>2. ~log[n][a + 1].rel /\ log[n][a + 1].rel \in Modes /\ log[n][a + 1].rel \in BOOLEAN
    BY <2>1, LogTypes DEF SessionInv, ModesInv
  <2> QED BY <1>2, <2>2
<1> QED BY <1>1, <1>2 DEF NumbersSuffice

\* Without retries that gave up there is no doubt left.
LEMMA NoDoubt ==
  ASSUME SoundLine, NumbersSuffice, AllInv, SessionInv, NEW n \in Node,
         NEW p \in 1 .. Len(log[n]), Acked(n, p), ~EarlierTimeout(n, p)
  PROVE  Received(n, p)
<1>1. ~Doubtful(n, p)
  BY NoLongRun DEF Doubtful, AllInv
<1>2. ReceivedInv(n)
  BY DEF AllInv, ServiceInv
<1> QED BY <1>1, <1>2 DEF ReceivedInv

\* A reliable call that returned 0 has reached the other application, in a
\* session of any length: only an earlier call that gave up, or SeqMod - 1
\* unreliable packets in a row, can make an acknowledgement mean another
\* packet (_is_acked_packet compares sequence numbers only).
THEOREM UartReceivedUnlessDoubtful ==
  ASSUME SoundLine
  PROVE  Spec => [](\A n \in Node : \A p \in 1 .. Len(log[n]) :
                      Acked(n, p) /\ ~Doubtful(n, p) => Received(n, p))
<1>1. AllInv => \A n \in Node : \A p \in 1 .. Len(log[n]) :
                  Acked(n, p) /\ ~Doubtful(n, p) => Received(n, p)
  BY DEF AllInv, ServiceInv, ReceivedInv
<1> QED BY <1>1, SpecAllInv, PTL

\* As long as no earlier call of that end gave up, a reliable call that
\* returned 0 has reached the other application: retransmissions, copies and
\* late acknowledgements included (_wait_ack, _is_acked_packet, _do_ack).
THEOREM UartAckedIsReceived ==
  ASSUME SoundLine, NumbersSuffice
  PROVE  Spec => []AckedIsReceived
<1>1. AllInv /\ SessionInv => AckedIsReceived
  BY NoDoubt DEF AckedIsReceived
<1> QED BY <1>1, SpecAllInv, SpecSessionInv, PTL

-----------------------------------------------------------------------------
(* The two ends implement CommService.                                     *)

LEMMA SubmitService ==
  ASSUME NEW n \in Node, NEW r \in Modes, Len(log[n]) < MaxCalls[n],
         log[n] # << >> => log[n][Len(log[n])].res # "pending",
         log' = [log EXCEPT ![n] = Append(@, [rel |-> r, res |-> "pending"])],
         \A k \in Node : ReceivedOf(k)' = ReceivedOf(k)
  PROVE  Service!Submit(n)
BY DEF Service!Submit, Service!InProgress

LEMMA EndService ==
  ASSUME NEW n \in Node, NEW r, log[n] # << >>, log[n][Len(log[n])].res = "pending",
         log' = [log EXCEPT ![n][Len(log[n])].res = r],
         \A k \in Node : ReceivedOf(k)' = ReceivedOf(k)
  PROVE  Service!InProgress(n) /\ Service!End(n, r)
BY DEF Service!End, Service!InProgress

LEMMA DeliverService ==
  ASSUME NEW n \in Node, NEW p, p <= Len(log[n]), log' = log,
         \A i \in 1 .. Len(ReceivedOf(n)) : ReceivedOf(n)[i] < p,
         ReceivedOf(n)' = Append(ReceivedOf(n), p),
         \A k \in Node \ {n} : ReceivedOf(k)' = ReceivedOf(k)
  PROVE  Service!Deliver(n, p)
<1>1. [k \in Node |-> ReceivedOf(k)]'
        = [[k \in Node |-> ReceivedOf(k)] EXCEPT ![n] = Append(@, p)]
  OBVIOUS
<1>2. \A i \in 1 .. Len([k \in Node |-> ReceivedOf(k)][n]) :
        [k \in Node |-> ReceivedOf(k)][n][i] < p
  OBVIOUS
<1> QED BY <1>1, <1>2 DEF Service!Deliver

LEMMA StutterService ==
  ASSUME log' = log, \A k \in Node : ReceivedOf(k)' = ReceivedOf(k)
  PROVE  UNCHANGED Service!vars
BY DEF Service!vars

\* Handing a packet over, or doing something else, receives nothing new.
LEMMA ReceivedOfStays ==
  ASSUME TInv, NEW n \in Node, Deliver(Peer[n]) \/ Listens(Peer[n])
  PROVE  ReceivedOf(n)' = ReceivedOf(n)
<1>0. /\ Peer[n] \in Node /\ rx \in [Node -> RxRec] /\ delivered \in [Node -> Seq(Nat)]
      /\ last_recv_packet_seq \in [Node -> SeqNum \cup {NoSeq}]
  BY TopologyAssumption DEF TInv, TypeOK
<1>1. CASE Deliver(Peer[n])
  BY <1>0, <1>1 DEF Deliver, IsDuplicate, IdleRx, ReceivedOf
<1>2. CASE Listens(Peer[n])
  BY <1>2 DEF Listens, ReceivedOf
<1> QED BY <1>1, <1>2

\* A packet that is not in doubt counts as received for the service as well.
LEMMA ReceivedCounts ==
  ASSUME TInv, OrderInv, LogInv, NEW n \in Node, CarryInv(n), ReceivedInv(n),
         NEW p \in 1 .. Len(log[n]), ~Doubtful(n, p), Received(n, p)
  PROVE  Service!IsReceived(n, p)
<1> DEFINE m == Peer[n]
<1>0. delivered[m] \in Seq(Nat) /\ Len(delivered[m]) \in Nat /\ rx[m].frm.pkt \in Nat
      /\ last_recv_packet_seq[m] \in SeqNum \cup {NoSeq}
  BY TopologyAssumption, NodeTypes
<1> DEFINE s == Append(delivered[m], rx[m].frm.pkt)
<1>1. /\ Len(s) = Len(delivered[m]) + 1 /\ s[Len(delivered[m]) + 1] = rx[m].frm.pkt
      /\ \A i \in 1 .. Len(delivered[m]) : s[i] = delivered[m][i]
  BY <1>0, AppendProperties
<1>2. ReceivedOf(n) \in {delivered[m], s}
  BY DEF ReceivedOf
<1> HIDE DEF s
<1>3. \E i \in 1 .. Len(ReceivedOf(n)) : ReceivedOf(n)[i] = p
  <2>1. CASE \E i \in 1 .. Len(delivered[m]) : delivered[m][i] = p
    <3>1. PICK i \in 1 .. Len(delivered[m]) : delivered[m][i] = p
      BY <2>1
    <3>2. i \in 1 .. Len(s) /\ s[i] = p
      BY <1>0, <1>1, <3>1
    <3> QED BY <1>2, <3>1, <3>2
  <2>2. CASE ~\E i \in 1 .. Len(delivered[m]) : delivered[m][i] = p
    <3>1. rx[m].pc = "deliver" /\ rx[m].frm.pkt = p
      BY <2>2 DEF Received
    <3>2. ~IsDuplicate(m)
      BY <2>2, <3>1, NotACopy
    <3>3. ReceivedOf(n) = s
      BY <3>1, <3>2 DEF IsDuplicate, ReceivedOf, s
    <3>4. Len(delivered[m]) + 1 \in 1 .. Len(s)
      BY <1>0, <1>1
    <3> QED BY <1>1, <3>1, <3>3, <3>4
  <2> QED BY <2>1, <2>2
<1> QED BY <1>3 DEF Service!IsReceived

LEMMA AssembleService ==
  ASSUME AllInv, SessionInv, NEW t \in Thread, Assemble(t)
  PROVE  Service!Submit(Home[t])
<1> DEFINE n == Home[t]
<1>0. TInv /\ LogInv /\ n \in Node /\ Len(log[n]) \in Nat /\ log[n] \in Seq(Entry)
  BY TopologyAssumption, LogTypes DEF AllInv
<1>1. \A k \in Node : ReceivedOf(k)' = ReceivedOf(k)
  BY DEF Assemble, receiverVars, ReceivedOf
<1>2. call[t].rel \in Modes /\ t \in Unnumbered(n)
  BY DEF Assemble, SessionInv, ModesInv, Unnumbered
<1>3. Len(log[n]) < MaxCalls[n]
  <2>1. BoundInv(n) /\ MaxCalls[n] \in Nat
    BY <1>0, ParameterAssumption DEF SessionInv
  <2>2. Cardinality(Unnumbered(n)) \in Nat /\ Cardinality(Unnumbered(n)) # 0
    BY <1>2, <2>1, FS_CardinalityType, FS_EmptySet DEF BoundInv
  <2> QED BY <1>0, <2>1, <2>2 DEF BoundInv
<1>4. log[n] # << >> => log[n][Len(log[n])].res # "pending"
  <2> SUFFICES ASSUME log[n] # << >> PROVE log[n][Len(log[n])].res # "pending"
    OBVIOUS
  <2>1. Len(log[n]) \in 1 .. Len(log[n])
    BY <1>0, EmptySeq
  <2>2. EntryInv(n, Len(log[n])) /\ ~Sending(n)
    BY <1>0, <2>1, AssembleStep DEF LogInv, EntriesInv
  <2> QED BY <2>2 DEF EntryInv
<1>5. log' = [log EXCEPT ![n] = Append(@, [rel |-> call[t].rel, res |-> "pending"])]
  BY DEF Assemble
<1> QED BY <1>0, <1>1, <1>2, <1>3, <1>4, <1>5, SubmitService

LEMMA EndsService ==
  ASSUME SoundLine, NumbersSuffice, AllInv, SessionInv, AckedIsReceived',
         NEW t \in Thread, Call(t) \/ ThreadStep(t),
         NEW r \in {"sent", "acked", "timeout"}, Ends(t, r)
  PROVE  Service!Succeed(Home[t]) \/ Service!GiveUp(Home[t]) \/ Service!Sent(Home[t])
<1> DEFINE n == Home[t]
<1> PICK q : q = Len(log[n])
  OBVIOUS
<1>0. /\ TInv /\ OrderInv /\ LogInv /\ n \in Node /\ q \in Nat /\ log[n] \in Seq(Entry)
      /\ call[t].pc \in Numbered
  BY TopologyAssumption, LogTypes DEF AllInv, Ends
<1>1. call[t].pkt = q /\ q > 0 /\ q \in 1 .. Len(log[n]) /\ log[n] # << >>
  BY <1>0, NumberedFacts, EmptySeq
<1>2. log[n][q].res = "pending" /\ log[n][q].rel = call[t].rel
  BY <1>0, <1>1 DEF LogInv, CallInv
<1>3. \A k \in Node : ReceivedOf(k)' = ReceivedOf(k)
  BY <1>0, ThreadFacts DEF ReceivedOf
<1>4. log' = [log EXCEPT ![n][Len(log[n])].res = r]
  BY <1>1 DEF Ends, Verdict
<1>5. Service!InProgress(n) /\ Service!End(n, r)
  BY <1>0, <1>1, <1>2, <1>3, <1>4, EndService
<1>6. CASE r = "sent"
  BY <1>1, <1>2, <1>5, <1>6 DEF Ends, Service!Sent
<1>7. CASE r = "timeout"
  BY <1>1, <1>2, <1>5, <1>7 DEF Ends, Service!GiveUp
<1>8. CASE r = "acked"
  <2>1. /\ LogKept(n) /\ log'[n][q].res = "acked"
    BY <1>0, <1>8, VerdictStep DEF Ends, Result
  <2>2. q \in 1 .. Len(log'[n]) /\ Acked(n, q)'
    BY <1>1, <2>1 DEF LogKept, Acked
  <2>3. CASE EarlierTimeout(n, q)'
    <3>1. PICK i \in 1 .. q - 1 : log'[n][i].res \in {"timeout", "crashed"}
      BY <2>3 DEF EarlierTimeout
    <3>2. i \in 1 .. Len(log[n]) /\ i < Len(log[n])
      BY <1>0, <1>1, <3>1
    <3>3. log'[n][i].res = log[n][i].res
      BY <2>1, <3>2 DEF LogKept
    <3>4. log[n][i].res # "crashed"
      BY <1>0, <3>2 DEF LogInv, EntriesInv, EntryInv
    <3>5. Service!GaveUpBefore(n, Len(log[n]))
      BY <3>1, <3>3, <3>4 DEF Service!GaveUpBefore
    <3> QED BY <1>1, <1>2, <1>5, <1>8, <3>5 DEF Ends, Service!Succeed
  <2>4. CASE ~EarlierTimeout(n, q)'
    <3>1. Received(n, q)'
      BY <1>0, <2>2, <2>4 DEF AckedIsReceived
    <3>2. Received(n, q)
      BY <1>0, <3>1, ThreadFacts DEF Received
    <3>3. ~Doubtful(n, q)
      <4>1. ~EarlierTimeout(n, q)
        <5>1. \A i \in 1 .. q - 1 : i \in 1 .. Len(log[n]) /\ i < Len(log[n])
          BY <1>0
        <5>2. \A i \in 1 .. q - 1 : log'[n][i].res = log[n][i].res
          BY <2>1, <5>1 DEF LogKept
        <5> QED BY <2>4, <5>2 DEF EarlierTimeout
      <4> QED BY <1>0, <1>1, <4>1, NoLongRun DEF Doubtful
    <3>4. Service!IsReceived(n, Len(log[n]))
      BY <1>0, <1>1, <3>2, <3>3, ReceivedCounts DEF AllInv, ServiceInv
    <3> QED BY <1>1, <1>2, <1>5, <1>8, <3>4 DEF Ends, Service!Succeed
  <2> QED BY <2>3, <2>4
<1> QED BY <1>6, <1>7, <1>8

\* The parse thread of the peer takes a packet off the line.
LEMMA ReceiveService ==
  ASSUME AllInv, SessionInv, NEW n \in Node, ReceiveData(Peer[n])
  PROVE  \/ \E p \in 1 .. MaxCalls[n] : Service!Deliver(n, p)
         \/ UNCHANGED Service!vars
<1> DEFINE m == Peer[n]
           f == Incoming(m)
           d == delivered[m]
<1>0. /\ TInv /\ OrderInv /\ LogInv /\ CarryInv(n) /\ m \in Node /\ Peer[m] = n
      /\ Len(log[n]) \in Nat /\ d \in Seq(Nat) /\ Len(d) \in Nat
      /\ \A i \in 1 .. Len(d) : d[i] \in Nat
      /\ d # << >> => Len(d) > 0 /\ Latest(m) \in Nat
      /\ rx \in [Node -> RxRec]
  <2>1. TInv /\ OrderInv /\ LogInv /\ CarryInv(n) /\ m \in Node /\ Peer[m] = n
    BY TopologyAssumption DEF AllInv, ServiceInv
  <2> QED BY <2>1, NodeTypes, LogTypes DEF TInv, TypeOK
<1>1. /\ f \in Frame /\ Intact(f) /\ f \in IntactFrames(wire[n])
      /\ \E i \in 1 .. Len(wire[n]) : wire[n][i] = f
      /\ rx[m].pc = "idle" /\ rx'[m] = [pc |-> "deliver", frm |-> f]
      /\ UNCHANGED <<delivered, last_recv_packet_seq, log, call>>
  BY <1>0, ReceiveDataFacts
<1>2. \A k \in Node \ {n} : ReceivedOf(k)' = ReceivedOf(k)
  <2> SUFFICES ASSUME NEW k \in Node \ {n} PROVE ReceivedOf(k)' = ReceivedOf(k)
    OBVIOUS
  <2>1. Peer[k] \in Node /\ Peer[k] # m
    BY TopologyAssumption
  <2>2. rx'[Peer[k]] = rx[Peer[k]]
    BY <1>0, <2>1 DEF ReceiveData, RxGoto
  <2> QED BY <1>1, <2>2 DEF ReceivedOf
<1>3. ReceivedOf(n) = d
  BY <1>1 DEF ReceivedOf
<1> HIDE DEF f
<1>4. CASE last_recv_packet_seq[m] = f.seq
  <2>1. ReceivedOf(n)' = d
    BY <1>1, <1>4 DEF ReceivedOf
  <2>2. \A k \in Node : ReceivedOf(k)' = ReceivedOf(k)
    BY <1>2, <1>3, <2>1
  <2> QED BY <1>1, <2>2, StutterService
<1>5. CASE last_recv_packet_seq[m] # f.seq
  <2> PICK p : p = f.pkt
    OBVIOUS
  <2>1. ReceivedOf(n)' = Append(d, p)
    BY <1>1, <1>5 DEF ReceivedOf
  <2>2. p \in Nat /\ p > 0 /\ p <= Len(log[n])
    <3>1. p \in Nat
      BY <1>1 DEF Frame
    <3>2. p > 0
      BY <1>1 DEF Intact
    <3>3. PICK i \in 1 .. Len(wire[n]) : wire[n][i] = f
      BY <1>1
    <3>4. TellsTruth(n, f)
      BY <1>0, <3>2, <3>3 DEF CarryInv
    <3> QED BY <3>1, <3>2, <3>4 DEF TellsTruth
  <2>3. ASSUME NEW i \in 1 .. Len(d)
        PROVE  d[i] < p
    <3>1. d # << >> /\ Len(d) > 0
      BY <1>0, EmptySeq
    <3>2. restarts[m] = 0
      BY <1>0 DEF CarryInv
    <3>3. NotBefore(m, Latest(m), last_recv_packet_seq[m])
      BY <1>0, <3>1, <3>2 DEF OrderInv, LastInv
    <3>4. Behind(Latest(m), last_recv_packet_seq[m], p, f.seq)
      BY <1>0, <1>1, <3>3 DEF NotBefore
    <3>5. Latest(m) < p
      BY <1>0, <1>5, <2>2, <3>1, <3>4 DEF Behind
    <3>6. CASE i = Len(d)
      BY <3>5, <3>6 DEF Latest
    <3>7. CASE i # Len(d)
      <4>1. Increasing(m) /\ Len(d) \in 1 .. Len(d) /\ i < Len(d)
        BY <1>0, <3>1, <3>7 DEF OrderInv
      <4>2. d[i] < Latest(m)
        BY <3>2, <4>1 DEF Increasing, Latest
      <4> QED BY <1>0, <2>2, <3>1, <3>5, <4>2
    <3> QED BY <3>6, <3>7
  <2>4. Service!Deliver(n, p)
    <3>1. \A i \in 1 .. Len(ReceivedOf(n)) : ReceivedOf(n)[i] < p
      BY <1>3, <2>3
    <3>2. ReceivedOf(n)' = Append(ReceivedOf(n), p)
      BY <1>3, <2>1
    <3> HIDE DEF d
    <3> QED BY <1>1, <1>2, <2>2, <3>1, <3>2, DeliverService
  <2>5. p \in 1 .. MaxCalls[n]
    <3>1. BoundInv(n) /\ Cardinality(Unnumbered(n)) \in Nat /\ MaxCalls[n] \in Nat
      BY FS_CardinalityType, ParameterAssumption DEF SessionInv, BoundInv
    <3> QED BY <1>0, <2>2, <3>1 DEF BoundInv
  <2> QED BY <2>4, <2>5
<1> QED BY <1>4, <1>5

LEMMA NextService ==
  ASSUME SoundLine, NumbersSuffice, AllInv, SessionInv, AckedIsReceived', [Next]_vars
  PROVE  Service!Next \/ UNCHANGED Service!vars
<1>0. TInv /\ OrderInv /\ LogInv
  BY DEF AllInv
<1>1. ASSUME NEW t \in Thread, Call(t) \/ ThreadStep(t)
      PROVE  Service!Next \/ UNCHANGED Service!vars
  <2>0. Home[t] \in Node
    BY TopologyAssumption
  <2>1. CASE Assemble(t)
    BY <2>0, <2>1, AssembleService DEF Service!Next
  <2>2. ASSUME NEW r \in {"sent", "acked", "timeout"}, Ends(t, r)
        PROVE  Service!Next
    BY <1>1, <2>0, <2>2, EndsService DEF Service!Next
  <2>3. CASE Stays(t)
    <3>1. \A k \in Node : ReceivedOf(k)' = ReceivedOf(k)
      BY <1>0, <1>1, ThreadFacts DEF ReceivedOf
    <3> QED BY <2>3, <3>1, StutterService DEF Stays
  <2> QED BY <1>0, <1>1, <2>1, <2>2, <2>3, LogSteps
<1>2. ASSUME log' = log
      PROVE  Service!Next \/ UNCHANGED Service!vars
  <2>1. CASE \E n \in Node : ReceiveData(Peer[n])
    BY <2>1, ReceiveService DEF Service!Next
  <2>2. CASE ~\E n \in Node : ReceiveData(Peer[n])
    <3>1. \A n \in Node : Peer[n] \in Node
      BY TopologyAssumption
    <3>2. \A n \in Node : Deliver(Peer[n]) \/ Listens(Peer[n])
      BY <1>0, <2>2, <3>1, NextReceives
    <3>3. \A n \in Node : ReceivedOf(n)' = ReceivedOf(n)
      BY <1>0, <3>2, ReceivedOfStays
    <3> QED BY <1>2, <3>3, StutterService
  <2> QED BY <2>1, <2>2
<1>3. ASSUME NEW n \in Node, ParseStep(n) \/ Environment(n)
      PROVE  Service!Next \/ UNCHANGED Service!vars
  BY <1>2, <1>3, OtherLog
<1>4. UNCHANGED vars => log' = log
  BY DEF vars, senderVars
<1> QED BY <1>1, <1>2, <1>3, <1>4 DEF Next

LEMMA InitService == Init => Service!Init
<1> SUFFICES ASSUME Init PROVE Service!Init
  OBVIOUS
<1>1. \A n \in Node : ReceivedOf(n) = << >>
  BY TopologyAssumption DEF Init, IdleRx, ReceivedOf
<1>2. log = [n \in Node |-> << >>]
  BY DEF Init
<1> QED BY <1>1, <1>2 DEF Service!Init

\* Two ends, their threads, copies, acknowledgements and lost frames together
\* are one reliable service: packets arrive in order and at most once, and a
\* call that returned 0 succeeded (CommProtocolPacketAssembleAndSend).
THEOREM UartService ==
  ASSUME SoundLine, NumbersSuffice
  PROVE  Spec => ServiceSpec
<1>1. AllInv /\ SessionInv /\ AckedIsReceived' /\ [Next]_vars => [Service!Next]_(Service!vars)
  BY NextService
<1> QED BY <1>1, InitService, SpecAllInv, SpecSessionInv, UartAckedIsReceived, PTL DEF Spec, ServiceSpec, Service!Spec

-----------------------------------------------------------------------------
(* No acknowledgement is mistaken for one that was acted upon before.      *)

\* Number s is the one of the last reliable packet among the first k, or, if
\* none of them is reliable, the one that current_acked_seq starts with.
LastOf(n, k, s) ==
  \/ s = InitAckedSeq /\ \A i \in 1 .. k : ~log[n][i].rel
  \/ \E p \in 1 .. k : /\ log[n][p].rel /\ SeqOf(p) = s
                       /\ \A i \in p + 1 .. k : ~log[n][i].rel

\* Until the last packet is acknowledged, the number acted upon last belongs
\* to a packet before it.
ActedInv(n) ==
  LET q == Len(log[n]) IN
  ~Doubtful(n, q) /\ ~(q > 0 /\ log[n][q].rel /\ acked[n] /\ NoUnset(n))
    => LastOf(n, q - 1, current_acked_seq[n])

\* What a step leaves alone that acts upon no acknowledgement.
Calm(n) ==
  /\ LogKept(n) /\ current_acked_seq'[n] = current_acked_seq[n]
  /\ acked[n] /\ NoUnset(n) => acked'[n] /\ NoUnset(n)'

LEMMA NextCalm ==
  ASSUME SoundLine, TInv, LogInv, NEW n \in Node, [Next]_vars,
         ~SetAcked(n), \A t \in Thread : Home[t] = n => ~Assemble(t)
  PROVE  Calm(n)
<1>0. /\ acked \in [Node -> BOOLEAN] /\ current_acked_seq \in [Node -> SeqNum]
      /\ Len(log[n]) \in Nat
  BY LogTypes DEF TInv, TypeOK
<1>1. NoUnset(n) => NoUnset(n)'
  BY UnsetBefore DEF NoUnset
<1>2. log'[n] = log[n] => LogKept(n)
  BY <1>0 DEF LogKept
<1>3. ASSUME NEW t \in Thread, Call(t) \/ ThreadStep(t)
      PROVE  Calm(n)
  <2>1. LogKept(n)
    <3>1. CASE Assemble(t)
      BY <1>2, <3>1, AssembleStep
    <3>2. CASE Stays(t)
      BY <1>2, <3>2 DEF Stays
    <3>3. ASSUME NEW r \in {"sent", "acked", "timeout"}, Ends(t, r)
          PROVE  LogKept(n)
      BY <1>2, <3>3, VerdictStep DEF Ends, Result
    <3> QED BY <1>3, <3>1, <3>2, <3>3, LogSteps
  <2>2. CASE Unset(t)
    <3>1. Home[t] = n => ~NoUnset(n)
      BY <2>2 DEF Unset, NoUnset
    <3>2. Home[t] # n => acked'[n] = acked[n]
      BY <1>0, <2>2 DEF Unset
    <3> QED BY <1>1, <2>1, <2>2, <3>1, <3>2 DEF Unset, Calm
  <2>3. CASE ~Unset(t)
    <3>1. UNCHANGED ackVars
      BY <1>3, <2>3 DEF ThreadStep, Write, Wait, Check, Call, Lock, Reject, Assemble, Transmit,
         Wake, Timeout, CheckAcked, CheckResend, CheckGiveUp, Return
    <3> QED BY <1>1, <2>1, <3>1 DEF ackVars, Calm
  <2> QED BY <2>2, <2>3
<1>4. ASSUME NEW k \in Node, ParseStep(k) \/ Environment(k)
      PROVE  Calm(n)
  <2>1. LogKept(n)
    BY <1>2, <1>4, OtherLog
  <2>2. acked'[n] = acked[n] /\ current_acked_seq'[n] = current_acked_seq[n]
    <3>1. CASE SetAcked(k)
      BY <1>0, <3>1 DEF SetAcked
    <3>2. CASE ~SetAcked(k)
      <4>1. ~Restart(k)
        BY DEF SoundLine, Restart
      <4> QED BY <1>4, <3>2, <4>1 DEF ParseStep, ReceiveBadLength, ReceiveAcked, ReceiveStaleAcked,
           ReceiveNacked, ReceiveCorrupt, ReceiveData, Break, Deliver, Environment, Lose, Damage,
           ackVars
    <3> QED BY <3>1, <3>2
  <2> QED BY <1>1, <2>1, <2>2 DEF Calm
<1>5. UNCHANGED vars => Calm(n)
  BY <1>1, <1>2 DEF vars, senderVars, ackVars, Calm
<1> QED BY <1>3, <1>4, <1>5 DEF Next

\* A calm step.
LEMMA CalmActedInv ==
  ASSUME TInv, NEW n \in Node, ActedInv(n), Calm(n)
  PROVE  ActedInv(n)'
<1> PICK q : q = Len(log[n])
  OBVIOUS
<1>0. q \in Nat /\ Len(log'[n]) = q /\ LogKept(n)
  BY LogTypes DEF Calm, LogKept
<1>1. Doubtful(n, q)' <=> Doubtful(n, q)
  <2>1. q \in 0 .. Len(log[n])
    BY <1>0
  <2> QED BY <1>0, <2>1, DoubtStays DEF LogKept
<1>2. \A i \in 1 .. q : log'[n][i].rel = log[n][i].rel
  BY <1>0 DEF LogKept
<1>3. q > 0 => q \in 1 .. q
  BY <1>0
<1>4. ASSUME LastOf(n, q - 1, current_acked_seq[n])
      PROVE  LastOf(n, q - 1, current_acked_seq[n])'
  <2>1. \A i \in 1 .. q - 1 : i \in 1 .. q
    BY <1>0
  <2>2. \A p \in 1 .. q - 1 : \A i \in p + 1 .. q - 1 : i \in 1 .. q
    BY <1>0
  <2>3. current_acked_seq'[n] = current_acked_seq[n]
    BY DEF Calm
  <2>4. CASE current_acked_seq[n] = InitAckedSeq /\ \A i \in 1 .. q - 1 : ~log[n][i].rel
    BY <1>0, <1>2, <2>1, <2>3, <2>4 DEF LastOf, InitAckedSeq
  <2>5. CASE \E p \in 1 .. q - 1 : /\ log[n][p].rel /\ SeqOf(p) = current_acked_seq[n]
                                   /\ \A i \in p + 1 .. q - 1 : ~log[n][i].rel
    <3> PICK p \in 1 .. q - 1 : /\ log[n][p].rel /\ SeqOf(p) = current_acked_seq[n]
                                /\ \A i \in p + 1 .. q - 1 : ~log[n][i].rel
      BY <2>5
    <3>1. log'[n][p].rel /\ \A i \in p + 1 .. q - 1 : ~log'[n][i].rel
      BY <1>2, <2>1, <2>2
    <3> QED BY <1>0, <2>3, <3>1 DEF LastOf, SeqOf
  <2> QED BY <1>4, <2>4, <2>5 DEF LastOf
<1>5. q > 0 /\ log[n][q].rel /\ acked[n] /\ NoUnset(n)
        => log'[n][q].rel /\ acked'[n] /\ NoUnset(n)'
  BY <1>2, <1>3 DEF Calm
<1> QED BY <1>0, <1>1, <1>4, <1>5 DEF ActedInv

\* A call takes the next number: if the packet before is reliable, it is the
\* one acted upon last.
LEMMA AssembleActedInv ==
  ASSUME TInv, LogInv, NEW n \in Node, AckInv(n), ActedInv(n),
         NEW t \in Thread, Home[t] = n, Assemble(t)
  PROVE  ActedInv(n)'
<1> PICK q : q = Len(log[n])
  OBVIOUS
<1> PICK c : c = current_acked_seq[n]
  OBVIOUS
<1>0. q \in Nat /\ EntriesInv(n) /\ \A i \in 1 .. q : log[n][i].rel \in BOOLEAN
  BY LogTypes DEF LogInv
<1>1. /\ Len(log'[n]) = q + 1 /\ \A i \in 1 .. q : log'[n][i] = log[n][i]
      /\ ~Sending(n)
  BY AssembleStep
<1>2. current_acked_seq'[n] = c
  BY DEF Assemble, ackVars
<1>3. NoUnset(n)
  BY <1>1 DEF NoUnset, Sending, Numbered
<1>4. ASSUME ~Doubtful(n, q + 1)'
      PROVE  LastOf(n, q, c)
  <2>1. ~Doubtful(n, q)
    <3>1. \A i : (i \in 1 .. q => i \in 1 .. q + 1) /\ (i \in 1 .. q - 1 => i \in 1 .. (q + 1) - 1)
      BY <1>0
    <3>2. Doubtful(n, q)' => Doubtful(n, q + 1)'
      BY <3>1 DEF Doubtful, EarlierTimeout, LongRun
    <3>3. q \in 0 .. Len(log[n])
      BY <1>0
    <3>4. Doubtful(n, q)' <=> Doubtful(n, q)
      BY <1>0, <1>1, <3>3, DoubtStays
    <3> QED BY <1>4, <3>2, <3>4
  <2>2. CASE q > 0 /\ log[n][q].rel
    <3>1. q \in 1 .. Len(log[n]) /\ q \in 1 .. (q + 1) - 1 /\ q \in 1 .. q
      BY <1>0, <2>2
    <3>2. EntryInv(n, q) /\ log[n][q].res \in Result
      BY <1>0, <3>1, LogTypes DEF EntriesInv
    <3>3. log'[n][q].res # "timeout"
      BY <1>4, <3>1 DEF Doubtful, EarlierTimeout
    <3>4. log[n][q].res = "acked"
      BY <1>1, <2>2, <3>1, <3>2, <3>3 DEF EntryInv, Result
    <3>5. c = SeqOf(q)
      BY <1>3, <2>1, <2>2, <3>4 DEF AckInv, FlagSet
    <3>6. \A i \in q + 1 .. q : ~log[n][i].rel
      BY <1>0
    <3> QED BY <2>2, <3>1, <3>5, <3>6 DEF LastOf
  <2>3. CASE ~(q > 0 /\ log[n][q].rel)
    <3>1. LastOf(n, q - 1, c)
      BY <2>1, <2>3 DEF ActedInv
    <3>2. \A i \in 1 .. q : i \in 1 .. q - 1 \/ ~log[n][i].rel
      BY <1>0, <2>3
    <3>3. CASE \A i \in 1 .. q - 1 : ~log[n][i].rel
      <4>1. c = InitAckedSeq
        BY <3>1, <3>3 DEF LastOf
      <4> QED BY <3>2, <3>3, <4>1 DEF LastOf
    <3>4. ASSUME NEW p \in 1 .. q - 1, log[n][p].rel, SeqOf(p) = c,
                 \A i \in p + 1 .. q - 1 : ~log[n][i].rel
          PROVE  LastOf(n, q, c)
      <4>1. p \in 1 .. q
        BY <1>0
      <4>2. \A i \in p + 1 .. q : i \in p + 1 .. q - 1 \/ ~log[n][i].rel
        BY <1>0, <2>3
      <4> QED BY <3>4, <4>1, <4>2 DEF LastOf
    <3> QED BY <3>1, <3>3, <3>4 DEF LastOf
  <2> QED BY <2>2, <2>3
<1>5. LastOf(n, q, c) => LastOf(n, q, c)'
  <2>1. \A p \in 1 .. q : \A i \in p + 1 .. q : i \in 1 .. q
    BY <1>0
  <2>2. \A i \in 1 .. q : log'[n][i].rel = log[n][i].rel
    BY <1>1
  <2>3. CASE c = InitAckedSeq /\ \A i \in 1 .. q : ~log[n][i].rel
    BY <2>2, <2>3 DEF LastOf, InitAckedSeq
  <2>4. ASSUME NEW p \in 1 .. q, log[n][p].rel, SeqOf(p) = c, \A i \in p + 1 .. q : ~log[n][i].rel
        PROVE  LastOf(n, q, c)'
    <3>1. log'[n][p].rel /\ \A i \in p + 1 .. q : ~log'[n][i].rel
      BY <2>1, <2>2, <2>4
    <3> QED BY <2>4, <3>1 DEF LastOf, SeqOf
  <2> QED BY <2>3, <2>4 DEF LastOf
<1>6. (q + 1) - 1 = q
  BY <1>0
<1> QED BY <1>1, <1>2, <1>4, <1>5, <1>6 DEF ActedInv

\* The parse thread acts upon the acknowledgement of the last packet.
LEMMA SetActedInv ==
  ASSUME SoundLine, TInv, LogInv, NEW n \in Node, UnsentInv(n), AckInv(n), SetAcked(n)
  PROVE  ActedInv(n)'
<1> PICK q : q = Len(log[n])
  OBVIOUS
<1>0. acked \in [Node -> BOOLEAN]
  BY DEF TInv, TypeOK
<1>1. rx[n].pc = "set" /\ acked'[n] /\ UNCHANGED <<log, call>>
  BY <1>0 DEF SetAcked, senderVars
<1>2. Doubtful(n, q)' <=> Doubtful(n, q)
  BY <1>1 DEF Doubtful, EarlierTimeout, LongRun
<1>3. ASSUME ~Doubtful(n, q)
      PROVE  q > 0 /\ log[n][q].rel /\ NoUnset(n)
  <2>1. q > 0 /\ log[n][q].rel /\ Received(n, q)
    BY <1>1, <1>3 DEF AckInv, InHand
  <2>2. ASSUME NEW t \in Thread, Home[t] = n, call[t].pc = "unset"
        PROVE  FALSE
    <3>1. call[t].pkt = q
      BY <2>2, NumberedFacts DEF Numbered
    <3> QED BY <2>1, <2>2, <3>1 DEF UnsentInv
  <2> QED BY <2>1, <2>2 DEF NoUnset
<1> QED BY <1>1, <1>2, <1>3 DEF ActedInv, NoUnset

LEMMA SpecActedInv ==
  ASSUME SoundLine
  PROVE  Spec => [](\A n \in Node : ActedInv(n))
<1> DEFINE AInv == \A n \in Node : ActedInv(n)
<1>1. Init => AInv
  <2> SUFFICES ASSUME Init, NEW n \in Node PROVE ActedInv(n)
    OBVIOUS
  <2>1. log[n] = << >> /\ Len(log[n]) = 0 /\ current_acked_seq[n] = InitAckedSeq
    BY DEF Init
  <2>2. \A i \in 1 .. 0 - 1 : FALSE
    OBVIOUS
  <2> QED BY <2>1, <2>2 DEF ActedInv, LastOf
<1>2. AllInv /\ AInv /\ [Next]_vars => AInv'
  <2> SUFFICES ASSUME AllInv, AInv, [Next]_vars, NEW n \in Node PROVE ActedInv(n)'
    OBVIOUS
  <2>1. TInv /\ LogInv /\ UnsentInv(n) /\ AckInv(n) /\ ActedInv(n)
    BY DEF AllInv, ServiceInv
  <2>2. CASE SetAcked(n)
    BY <2>1, <2>2, SetActedInv
  <2>3. CASE \E t \in Thread : Home[t] = n /\ Assemble(t)
    BY <2>1, <2>3, AssembleActedInv
  <2>4. CASE ~SetAcked(n) /\ \A t \in Thread : Home[t] = n => ~Assemble(t)
    BY <2>1, <2>4, NextCalm, CalmActedInv
  <2> QED BY <2>2, <2>3, <2>4
<1> HIDE DEF AInv
<1>3. Spec => []AInv
  BY <1>1, <1>2, SpecAllInv, PTL DEF Spec
<1> QED BY <1>3 DEF AInv

\* The very first reliable packet of end n, numbered as current_acked_seq is
\* initialised (src/protocol/uni_communication.c:682): the run UartInitialSeq.
InitialNumber(n, p) == SeqOf(p) = InitAckedSeq /\ \A i \in 1 .. p - 1 : ~log[n][i].rel

LEMMA HonourStep ==
  ASSUME TInv, LogInv, NEW t \in Thread, ActedInv(Home[t]),
         AwaitsAck(t), ~acked[Home[t]],
         ~Doubtful(Home[t], call[t].pkt), ~InitialNumber(Home[t], call[t].pkt),
         FrameReady(Home[t]), Incoming(Home[t]).seq = call[t].seq,
         ReceiveAcked(Home[t]) \/ ReceiveStaleAcked(Home[t])
  PROVE  rx'[Home[t]].pc = "set"
<1> DEFINE n == Home[t]
<1>0. n \in Node /\ rx \in [Node -> RxRec]
  BY TopologyAssumption DEF TInv, TypeOK
<1>1. call[t].pc \in Numbered
  BY DEF AwaitsAck, Numbered
<1> PICK q : q = Len(log[n])
  OBVIOUS
<1>2. call[t].pkt = q /\ call[t].seq = SeqOf(q) /\ q \in Nat /\ q \in 1 .. Len(log[n])
  BY <1>0, <1>1, NumberedFacts, LogTypes DEF LogInv, CallInv
<1>3. sequence[n] = q % SeqMod
  BY <1>0 DEF LogInv, EntriesInv
<1>4. CurrentSeq(n) = SeqOf(q)
  BY <1>2, <1>3, SeqOfFacts DEF CurrentSeq
<1>5. current_acked_seq[n] # SeqOf(q)
  <2>1. LastOf(n, q - 1, current_acked_seq[n])
    BY <1>2 DEF ActedInv
  <2>2. ~(SeqOf(q) = InitAckedSeq /\ \A i \in 1 .. q - 1 : ~log[n][i].rel)
    BY <1>2 DEF InitialNumber
  <2>3. ASSUME NEW p \in 1 .. q - 1, SeqOf(p) = SeqOf(q), \A i \in p + 1 .. q - 1 : ~log[n][i].rel
        PROVE  FALSE
    BY <1>0, <1>2, <2>3, ReliableBetween
  <2> QED BY <2>1, <2>2, <2>3 DEF LastOf
<1>6. FirstAck(n, Incoming(n))
  BY <1>2, <1>4, <1>5 DEF FirstAck
<1>7. ReceiveAcked(n)
  BY <1>6 DEF ReceiveStaleAcked
<1> QED BY <1>0, <1>7 DEF ReceiveAcked, RxGoto

\* In a session of any length, with numbers that come round again: the first
\* intact acknowledgement of the packet being sent wakes its sender, so that
\* _is_acked_packet ("one sequence can only break once") never takes it for
\* an older one.  Only the three cases that the code gets wrong are left out:
\* an earlier call gave up, SeqMod - 1 unreliable packets in a row precede
\* (both make Doubtful true), or the number is the initial one.
HonouredUnlessDoubtful ==
  [][\A t \in Thread : LET n == Home[t] IN
       /\ AwaitsAck(t) /\ ~acked[n]
       /\ ~Doubtful(n, call[t].pkt) /\ ~InitialNumber(n, call[t].pkt)
       /\ FrameReady(n) /\ Incoming(n).crc = "ok" /\ IsAcked(Incoming(n))
       /\ Incoming(n).seq = call[t].seq
       /\ ReceiveAcked(n) \/ ReceiveStaleAcked(n)
       => rx'[n].pc = "set"]_vars

\* AckHonoured holds of every packet that is not in doubt, however long the
\* session is.
THEOREM UartHonouredUnlessDoubtful ==
  ASSUME SoundLine
  PROVE  Spec => HonouredUnlessDoubtful
<1> DEFINE AInv == \A n \in Node : ActedInv(n)
           A == \A t \in Thread : LET n == Home[t] IN
                  /\ AwaitsAck(t) /\ ~acked[n]
                  /\ ~Doubtful(n, call[t].pkt) /\ ~InitialNumber(n, call[t].pkt)
                  /\ FrameReady(n) /\ Incoming(n).crc = "ok" /\ IsAcked(Incoming(n))
                  /\ Incoming(n).seq = call[t].seq
                  /\ ReceiveAcked(n) \/ ReceiveStaleAcked(n)
                  => rx'[n].pc = "set"
<1>1. AllInv /\ AInv => A
  BY HonourStep, TopologyAssumption DEF AllInv
<1> HIDE DEF AInv, A
<1>2. Spec => []AInv
  BY SpecActedInv DEF AInv
<1>3. Spec => [][A]_vars
  BY <1>1, <1>2, SpecAllInv, PTL DEF Spec
<1> QED BY <1>3 DEF A, HonouredUnlessDoubtful

=============================================================================
