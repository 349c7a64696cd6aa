-------------------------- MODULE UartOrderProofs --------------------------
(* TLAPS proof of InOrderOnce: an application sees no packet twice and none *)
(* out of order.                                                            *)
(*                                                                          *)
(* The invariant follows a packet from the call that numbers it to the      *)
(* application of the peer: what was delivered last, what the parse thread  *)
(* is about to deliver, the intact packets on the line and the packet that  *)
(* is being sent stand in this order, and two of them that are the same     *)
(* packet carry the same sequence number, so that _is_duplicate_frame       *)
(* recognises the copy.                                                     *)
EXTENDS UartCommProofs

\* A frame that the receiver will deliver: a packet whose checks succeed.
Intact(f) == f.crc = "ok" /\ f.pkt > 0

\* Packet p numbered s was sent before packet q numbered r, or is the same.
Behind(p, s, q, r) == p <= q /\ (p = q => s = r)

IntactFrames(w) == {w[i] : i \in {j \in 1 .. Len(w) : Intact(w[j])}}

Ordered(w) ==
  \A i, j \in 1 .. Len(w) :
    i < j /\ Intact(w[i]) /\ Intact(w[j]) => Behind(w[i].pkt, w[i].seq, w[j].pkt, w[j].seq)

\* An intact frame without a packet is an acknowledgement and marked as one.
Marked(w) == \A i \in 1 .. Len(w) : w[i].crc = "ok" /\ w[i].pkt = 0 => ~IsData(w[i])

\* End n has sent a packet p numbered s, or is sending it.
Issued(n, p, s) ==
  /\ p <= Len(log[n])
  /\ \A t \in Thread :
       Home[t] = n /\ call[t].pc \in Numbered /\ call[t].pkt = p => call[t].seq = s

\* Nothing that end m has yet to see was sent before packet p, numbered s.
NotBefore(m, p, s) ==
  /\ Issued(Peer[m], p, s)
  /\ \A g \in IntactFrames(wire[Peer[m]]) : Behind(p, s, g.pkt, g.seq)

LineInv ==
  \A n \in Node :
    /\ Ordered(wire[n])
    /\ Marked(wire[n])
    /\ \A f \in IntactFrames(wire[n]) : Issued(n, f.pkt, f.seq)

\* What the parse thread is about to deliver.
RxInv(m) == rx[m].pc = "deliver" => NotBefore(m, rx[m].frm.pkt, rx[m].frm.seq)

Latest(m) == delivered[m][Len(delivered[m])]

\* What was delivered last.
LastInv(m) ==
  restarts[m] = 0 /\ delivered[m] # << >> =>
    /\ NotBefore(m, Latest(m), last_recv_packet_seq[m])
    /\ rx[m].pc = "deliver" =>
         Behind(Latest(m), last_recv_packet_seq[m], rx[m].frm.pkt, rx[m].frm.seq)

Increasing(m) ==
  restarts[m] = 0 =>
    \A i, j \in 1 .. Len(delivered[m]) : i < j => delivered[m][i] < delivered[m][j]

OrderInv == LineInv /\ \A m \in Node : RxInv(m) /\ LastInv(m) /\ Increasing(m)

-----------------------------------------------------------------------------
(* The line.                                                               *)

\* Line v holds no packet that line w does not hold, and keeps their order.
Shrinks(w, v) ==
  /\ IntactFrames(v) \subseteq IntactFrames(w)
  /\ Ordered(w) => Ordered(v)
  /\ Marked(w) => Marked(v)

LEMMA TailShrinks ==
  ASSUME NEW w \in Seq(Frame), w # << >>
  PROVE  Shrinks(w, Tail(w))
<1>1. /\ Len(w) \in Nat /\ Len(w) > 0 /\ Len(Tail(w)) = Len(w) - 1
      /\ \A i \in 1 .. Len(Tail(w)) : i + 1 \in 1 .. Len(w) /\ Tail(w)[i] = w[i + 1]
  BY HeadTailProperties, LenProperties, EmptySeq
<1>2. IntactFrames(Tail(w)) \subseteq IntactFrames(w)
  BY <1>1 DEF IntactFrames
<1>3. Ordered(w) => Ordered(Tail(w))
  <2> SUFFICES ASSUME Ordered(w), NEW i \in 1 .. Len(Tail(w)), NEW j \in 1 .. Len(Tail(w)),
                      i < j, Intact(Tail(w)[i]), Intact(Tail(w)[j])
               PROVE  Behind(Tail(w)[i].pkt, Tail(w)[i].seq, Tail(w)[j].pkt, Tail(w)[j].seq)
    BY DEF Ordered
  <2>1. i + 1 \in 1 .. Len(w) /\ j + 1 \in 1 .. Len(w) /\ i + 1 < j + 1
        /\ Tail(w)[i] = w[i + 1] /\ Tail(w)[j] = w[j + 1]
    BY <1>1
  <2> QED BY <2>1 DEF Ordered
<1>4. Marked(w) => Marked(Tail(w))
  BY <1>1 DEF Marked
<1> QED BY <1>2, <1>3, <1>4 DEF Shrinks

\* The frame at the front stands before the others.
LEMMA HeadFirst ==
  ASSUME NEW w \in Seq(Frame), w # << >>, Ordered(w), Intact(Head(w))
  PROVE  /\ Head(w) \in IntactFrames(w)
         /\ \A g \in IntactFrames(Tail(w)) : Behind(Head(w).pkt, Head(w).seq, g.pkt, g.seq)
<1>1. /\ Len(w) \in Nat /\ Len(w) > 0 /\ Head(w) = w[1] /\ 1 \in 1 .. Len(w)
      /\ \A i \in 1 .. Len(Tail(w)) : i + 1 \in 1 .. Len(w) /\ Tail(w)[i] = w[i + 1] /\ 1 < i + 1
  BY HeadTailProperties, LenProperties, EmptySeq
<1>2. Head(w) \in IntactFrames(w)
  BY <1>1 DEF IntactFrames
<1>3. ASSUME NEW g \in IntactFrames(Tail(w))
      PROVE  Behind(Head(w).pkt, Head(w).seq, g.pkt, g.seq)
  <2>1. PICK i \in 1 .. Len(Tail(w)) : Intact(Tail(w)[i]) /\ g = Tail(w)[i]
    BY DEF IntactFrames
  <2> QED BY <1>1, <2>1 DEF Ordered
<1> QED BY <1>2, <1>3

LEMMA AnswerShrinks ==
  ASSUME NEW w \in Seq(Frame), NEW f \in Frame, f.pkt = 0, ~IsData(f)
  PROVE  Shrinks(w, Put(w, f))
<1>1. /\ Len(w) \in Nat
      /\ Len(Put(w, f)) \in {Len(w), Len(w) + 1}
      /\ \A i \in 1 .. Len(w) : Put(w, f)[i] = w[i]
      /\ Len(Put(w, f)) = Len(w) + 1 => Put(w, f)[Len(w) + 1] = f
  BY PutFacts, LenProperties
<1>2. ~Intact(f)
  BY DEF Intact
<1>3. \A i \in 1 .. Len(Put(w, f)) :
        \/ i \in 1 .. Len(w) /\ Put(w, f)[i] = w[i]
        \/ Put(w, f)[i] = f
  BY <1>1
<1>4. IntactFrames(Put(w, f)) \subseteq IntactFrames(w)
  BY <1>2, <1>3 DEF IntactFrames
<1>5. Ordered(w) => Ordered(Put(w, f))
  BY <1>2, <1>3 DEF Ordered
<1>6. Marked(w) => Marked(Put(w, f))
  BY <1>3 DEF Marked
<1> QED BY <1>4, <1>5, <1>6 DEF Shrinks

LEMMA DamageShrinks ==
  ASSUME NEW w \in Seq(Frame), w # << >>, NEW g \in Frame, g.crc # "ok"
  PROVE  Shrinks(w, <<g>> \o Tail(w))
<1> DEFINE v == <<g>> \o Tail(w)
<1>1. /\ Len(w) \in Nat /\ Len(v) = Len(w)
      /\ \A i \in 1 .. Len(w) : v[i] = g \/ v[i] = w[i]
  <2>1. /\ Len(w) \in Nat /\ Len(w) > 0 /\ Tail(w) \in Seq(Frame) /\ Len(Tail(w)) = Len(w) - 1
        /\ \A i \in 1 .. Len(Tail(w)) : Tail(w)[i] = w[i + 1]
    BY HeadTailProperties, LenProperties, EmptySeq
  <2>2. <<g>> \in Seq(Frame) /\ Len(<<g>>) = 1 /\ <<g>>[1] = g
    OBVIOUS
  <2>3. /\ Len(v) = Len(<<g>>) + Len(Tail(w))
        /\ \A i \in 1 .. Len(<<g>>) + Len(Tail(w)) :
             v[i] = IF i <= Len(<<g>>) THEN <<g>>[i] ELSE Tail(w)[i - Len(<<g>>)]
    BY <2>1, <2>2, ConcatProperties
  <2>4. Len(v) = Len(w)
    BY <2>1, <2>2, <2>3
  <2>5. ASSUME NEW i \in 1 .. Len(w)
        PROVE  v[i] = g \/ v[i] = w[i]
    <3>1. CASE i = 1
      BY <2>1, <2>2, <2>3, <3>1
    <3>2. CASE i > 1
      <4>1. v[i] = Tail(w)[i - 1] /\ i - 1 \in 1 .. Len(Tail(w))
        BY <2>1, <2>2, <2>3, <3>2
      <4>2. Tail(w)[i - 1] = w[(i - 1) + 1] /\ (i - 1) + 1 = i
        BY <2>1, <4>1
      <4> QED BY <4>1, <4>2
    <3> QED BY <3>1, <3>2
  <2> QED BY <2>1, <2>4, <2>5
<1> HIDE DEF v
<1>2. ~Intact(g)
  BY DEF Intact
<1>3. IntactFrames(v) \subseteq IntactFrames(w)
  BY <1>1, <1>2 DEF IntactFrames
<1>4. Ordered(w) => Ordered(v)
  BY <1>1, <1>2 DEF Ordered
<1>5. Marked(w) => Marked(v)
  BY <1>1 DEF Marked
<1> QED BY <1>3, <1>4, <1>5 DEF Shrinks, v

LEMMA SameShrinks ==
  ASSUME NEW w \in Seq(Frame)
  PROVE  Shrinks(w, w)
  BY DEF Shrinks

LEMMA FlushShrinks ==
  ASSUME NEW w \in Seq(Frame), NEW k \in 0 .. Len(w)
  PROVE  Shrinks(w, SubSeq(w, k + 1, Len(w)))
<1> DEFINE v == SubSeq(w, k + 1, Len(w))
<1>1. /\ Len(w) \in Nat /\ Len(v) = Len(w) - k
      /\ \A i \in 1 .. Len(v) : k + i \in 1 .. Len(w) /\ v[i] = w[k + i]
  <2>1. Len(w) \in Nat /\ Len(v) = Len(w) - k /\ \A i \in 1 .. Len(w) - k : v[i] = w[k + i]
    BY FlushFacts, LenProperties
  <2> HIDE DEF v
  <2> QED BY <2>1
<1> HIDE DEF v
<1>2. IntactFrames(v) \subseteq IntactFrames(w)
  BY <1>1 DEF IntactFrames
<1>3. Ordered(w) => Ordered(v)
  <2> SUFFICES ASSUME Ordered(w), NEW i \in 1 .. Len(v), NEW j \in 1 .. Len(v),
                      i < j, Intact(v[i]), Intact(v[j])
               PROVE  Behind(v[i].pkt, v[i].seq, v[j].pkt, v[j].seq)
    BY DEF Ordered
  <2>1. k + i \in 1 .. Len(w) /\ k + j \in 1 .. Len(w) /\ k + i < k + j
        /\ v[i] = w[k + i] /\ v[j] = w[k + j]
    BY <1>1
  <2> QED BY <2>1 DEF Ordered
<1>4. Marked(w) => Marked(v)
  BY <1>1 DEF Marked
<1> QED BY <1>2, <1>3, <1>4 DEF Shrinks, v

-----------------------------------------------------------------------------
(* What a step does to the line and to the calls.                          *)

\* The line of end n after a step: nothing new on it, or the packet that a
\* thread of n is sending.
LineStep(n) ==
  \/ Shrinks(wire[n], wire'[n])
  \/ \E t \in Thread : /\ Home[t] = n /\ call[t].pc = "write"
                       /\ wire'[n] = Put(wire[n], DataFrame(call[t]))
                       /\ \A u \in Thread :
                            /\ call'[u].pkt = call[u].pkt /\ call'[u].seq = call[u].seq
                            /\ call'[u].pc \in Numbered => call[u].pc \in Numbered

LEMMA UnchangedLine ==
  ASSUME TInv, NEW n \in Node, wire'[n] = wire[n]
  PROVE  LineStep(n)
  BY SameShrinks DEF TInv, TypeOK, LineStep

LEMMA ThreadLineStep ==
  ASSUME TInv, NEW t \in Thread, Call(t) \/ ThreadStep(t)
  PROVE  \A n \in Node : LineStep(n)
<1>0. /\ wire \in [Node -> Seq(Frame)] /\ call \in [Thread -> CallRec] /\ Home[t] \in Node
  BY TopologyAssumption DEF TInv, TypeOK
<1>1. CASE Transmit(t)
  <2>1. /\ call[t].pc = "write"
        /\ wire' = [wire EXCEPT ![Home[t]] = Put(@, DataFrame(call[t]))]
    BY <1>1 DEF Transmit
  <2>2. PICK pc \in {"wait", "return"} : Goto(t, pc)
    BY <1>1 DEF Transmit
  <2>3. \A u \in Thread :
          /\ call'[u].pkt = call[u].pkt /\ call'[u].seq = call[u].seq
          /\ call'[u].pc \in Numbered => call[u].pc \in Numbered
    BY <1>0, <2>1, <2>2, GotoFacts DEF CallPC, Numbered
  <2>4. wire'[Home[t]] = Put(wire[Home[t]], DataFrame(call[t]))
    BY <1>0, <2>1
  <2>5. LineStep(Home[t])
    BY <2>1, <2>3, <2>4 DEF LineStep
  <2>6. \A n \in Node \ {Home[t]} : wire'[n] = wire[n]
    BY <1>0, <2>1
  <2> QED BY <2>5, <2>6, UnchangedLine
<1>2. CASE ~Transmit(t)
  <2>1. UNCHANGED wire
    BY <1>2 DEF ThreadStep, Write, Wait, Check, Call, Lock, Reject, Assemble, Unset,
         Wake, Timeout, CheckAcked, CheckResend, CheckGiveUp, Return
  <2> QED BY <2>1, UnchangedLine
<1> QED BY <1>1, <1>2

LEMMA ParseLineStep ==
  ASSUME TInv, NEW n \in Node, ParseStep(n)
  PROVE  \A m \in Node : LineStep(m)
<1>0. /\ TypeOK /\ wire \in [Node -> Seq(Frame)]
      /\ Peer[n] \in Node /\ Peer[n] # n
  BY TopologyAssumption DEF TInv, TypeOK
<1>1. CASE SetAcked(n) \/ Break(n) \/ Deliver(n)
  <2>1. UNCHANGED wire
    BY <1>1 DEF SetAcked, Break, Deliver
  <2> QED BY <2>1, UnchangedLine
<1>2. ASSUME FrameReady(n), Take(n) \/ Answer(n, AckFrame(Incoming(n).seq))
                                    \/ Answer(n, NackFrame(Incoming(n).seq))
      PROVE  \A m \in Node : LineStep(m)
  <2> DEFINE a == AckFrame(Incoming(n).seq)
             k == NackFrame(Incoming(n).seq)
  <2>1. /\ a \in Frame /\ k \in Frame
        /\ a.pkt = 0 /\ ~IsData(a) /\ k.pkt = 0 /\ ~IsData(k)
    <3>1. a \in Frame /\ k \in Frame
      BY <1>0, <1>2, LineFacts, FrameFacts
    <3> QED BY <3>1 DEF AckFrame, NackFrame, IsData, IsAcked, IsNacked
  <2> HIDE DEF a, k
  <2>2. Shrinks(wire[Peer[n]], Tail(wire[Peer[n]]))
    BY <1>0, <1>2, TailShrinks DEF FrameReady
  <2>3. wire'[Peer[n]] = Tail(wire[Peer[n]])
    BY <1>0, <1>2 DEF Take, Answer
  <2>4. LineStep(Peer[n])
    BY <2>2, <2>3 DEF LineStep
  <2>5. wire'[n] \in {wire[n], Put(wire[n], a), Put(wire[n], k)}
    BY <1>0, <1>2 DEF Take, Answer, a, k
  <2>6. wire[n] \in Seq(Frame)
    BY <1>0
  <2>7. LineStep(n)
    BY <2>1, <2>5, <2>6, AnswerShrinks, SameShrinks DEF LineStep
  <2>8. \A m \in Node \ {n, Peer[n]} : wire'[m] = wire[m]
    BY <1>0, <1>2 DEF Take, Answer
  <2> QED BY <2>4, <2>7, <2>8, UnchangedLine
<1>3. CASE ~(SetAcked(n) \/ Break(n) \/ Deliver(n))
  <2>1. /\ FrameReady(n)
        /\ Take(n) \/ Answer(n, AckFrame(Incoming(n).seq)) \/ Answer(n, NackFrame(Incoming(n).seq))
    BY <1>3 DEF ParseStep, ReceiveBadLength, ReceiveAcked, ReceiveStaleAcked, ReceiveNacked,
       ReceiveCorrupt, ReceiveData, LengthGood
  <2> QED BY <1>2, <2>1
<1> QED BY <1>1, <1>3

LEMMA EnvironmentLineStep ==
  ASSUME TInv, NEW n \in Node, Environment(n)
  PROVE  \A m \in Node : LineStep(m)
<1>0. /\ wire \in [Node -> Seq(Frame)] /\ wire[n] \in Seq(Frame)
      /\ Peer[n] \in Node /\ wire[Peer[n]] \in Seq(Frame)
  BY TopologyAssumption DEF TInv, TypeOK
<1>1. CASE Lose(n)
  <2>1. wire'[n] = Tail(wire[n]) /\ wire[n] # << >>
        /\ \A m \in Node \ {n} : wire'[m] = wire[m]
    BY <1>0, <1>1 DEF Lose
  <2>2. LineStep(n)
    BY <1>0, <2>1, TailShrinks DEF LineStep
  <2> QED BY <2>1, <2>2, UnchangedLine
<1>2. CASE Damage(n)
  <2>1. PICK c \in {"sum", "len"}, s \in SeqNum, b \in SUBSET Bits :
          wire' = [wire EXCEPT ![n] = <<Noisy(Head(wire[n]), c, s, b)>> \o Tail(@)]
    BY <1>2 DEF Damage
  <2> DEFINE g == Noisy(Head(wire[n]), c, s, b)
  <2>2. wire[n] # << >> /\ Head(wire[n]) \in Frame
    BY <1>0, <1>2, HeadTailProperties DEF Damage
  <2>3. g \in Frame /\ g.crc # "ok"
    <3>1. g \in Frame
      BY <2>2, FrameFacts
    <3>2. g.crc = c
      BY <2>2 DEF Noisy, Frame
    <3> QED BY <3>1, <3>2
  <2>4. wire'[n] = <<g>> \o Tail(wire[n]) /\ \A m \in Node \ {n} : wire'[m] = wire[m]
    BY <1>0, <2>1
  <2> HIDE DEF g
  <2>5. LineStep(n)
    BY <1>0, <2>2, <2>3, <2>4, DamageShrinks DEF LineStep
  <2> QED BY <2>4, <2>5, UnchangedLine
<1>3. CASE Restart(n)
  <2>1. PICK k \in 0 .. Len(wire[Peer[n]]) :
          wire' = [wire EXCEPT ![Peer[n]] = SubSeq(@, k + 1, Len(@))]
    BY <1>3 DEF Restart
  <2>2. /\ wire'[Peer[n]] = SubSeq(wire[Peer[n]], k + 1, Len(wire[Peer[n]]))
        /\ \A m \in Node \ {Peer[n]} : wire'[m] = wire[m]
    BY <1>0, <2>1
  <2>3. LineStep(Peer[n])
    BY <1>0, <2>2, FlushShrinks DEF LineStep
  <2> QED BY <2>2, <2>3, UnchangedLine
<1> QED BY <1>1, <1>2, <1>3 DEF Environment

\* A packet that is issued stays so: a call that takes a number takes a new
\* one, and no numbered call changes the packet or the number it carries.
CallStep ==
  /\ \A n \in Node : Len(log[n]) <= Len(log'[n])
  /\ \A u \in Thread : call'[u].pc \in Numbered =>
       \/ /\ call[u].pc \in Numbered
          /\ call'[u].pkt = call[u].pkt /\ call'[u].seq = call[u].seq
       \/ call'[u].pkt > Len(log[Home[u]])

LEMMA IssuedStays ==
  ASSUME TInv, TInv', CallStep, NEW n \in Node, NEW p \in Nat, NEW s, Issued(n, p, s)
  PROVE  Issued(n, p, s)'
<1>1. Len(log[n]) \in Nat /\ Len(log'[n]) \in Nat /\ Len(log[n]) <= Len(log'[n])
  BY LenProperties DEF TInv, TypeOK, CallStep
<1>2. p <= Len(log'[n])
  BY <1>1 DEF Issued
<1>3. ASSUME NEW t \in Thread, Home[t] = n, call'[t].pc \in Numbered, call'[t].pkt = p
      PROVE  call'[t].seq = s
  <2>1. ~(p > Len(log[n]))
    BY <1>1 DEF Issued
  <2>2. /\ call[t].pc \in Numbered
        /\ call'[t].pkt = call[t].pkt /\ call'[t].seq = call[t].seq
    BY <1>3, <2>1 DEF CallStep
  <2> QED BY <1>3, <2>2 DEF Issued
<1> QED BY <1>2, <1>3 DEF Issued

LEMMA ThreadCallStep ==
  ASSUME TInv, NEW t \in Thread, Call(t) \/ ThreadStep(t)
  PROVE  CallStep
<1>0. /\ call \in [Thread -> CallRec] /\ call[t] \in CallRec /\ Home[t] \in Node
      /\ log \in [Node -> Seq(Entry)]
      /\ \A n \in Node : Len(log[n]) \in Nat
  BY TopologyAssumption, LenProperties DEF TInv, TypeOK, Entry
<1>1. \A u \in Thread \ {t} : call'[u] = call[u]
  BY ThreadFacts
<1>2. CASE Assemble(t)
  <2>1. /\ call'[t].pkt = Len(log[Home[t]]) + 1
        /\ log' = [log EXCEPT ![Home[t]] = Append(@, [rel |-> call[t].rel, res |-> "pending"])]
    BY <1>0, <1>2 DEF Assemble
  <2>2. [rel |-> call[t].rel, res |-> "pending"] \in Entry
    BY <1>0 DEF Entry, Result, CallRec
  <2>3. Len(log'[Home[t]]) = Len(log[Home[t]]) + 1
        /\ \A n \in Node \ {Home[t]} : log'[n] = log[n]
    BY <1>0, <2>1, <2>2, AppendProperties
  <2> QED BY <1>0, <1>1, <2>1, <2>3 DEF CallStep
<1>3. CASE Unset(t) \/ CheckResend(t) \/ Transmit(t) \/ Wake(t) \/ Timeout(t)
            \/ CheckAcked(t) \/ CheckGiveUp(t)
  <2>1. call[t].pc \in Numbered
    BY <1>3 DEF Unset, CheckResend, Transmit, Wake, Timeout, CheckAcked, CheckGiveUp, Numbered
  <2>2. call'[t].pkt = call[t].pkt /\ call'[t].seq = call[t].seq
    BY <1>0, <1>3 DEF Unset, CheckResend, Transmit, Wake, Timeout, CheckAcked, CheckGiveUp, Goto, CallRec
  <2>3. \A n \in Node : Len(log'[n]) = Len(log[n])
    <3>1. (\E r \in {"sent", "acked", "timeout"} : Verdict(t, r)) \/ UNCHANGED log
      BY <1>3 DEF Unset, CheckResend, Transmit, Wake, Timeout, CheckAcked, CheckGiveUp
    <3> QED BY <2>1, <3>1, LogFacts DEF Result
  <2> QED BY <1>0, <1>1, <2>1, <2>2, <2>3 DEF CallStep
<1>4. CASE Call(t) \/ Lock(t) \/ Reject(t) \/ Return(t)
  <2>1. UNCHANGED log
    BY <1>4 DEF Call, Lock, Reject, Return
  <2>2. call'[t].pc \notin Numbered
    <3>1. CASE Call(t)
      <4>1. PICK r \in Modes : call' = [call EXCEPT ![t] = [NoCall EXCEPT !.pc = "lock", !.rel = r]]
        BY <3>1 DEF Call
      <4>2. call'[t].pc = "lock"
        BY <1>0, <4>1 DEF NoCall
      <4> QED BY <4>2 DEF Numbered
    <3>2. CASE Lock(t) \/ Reject(t)
      BY <1>0, <3>2, GotoFacts DEF Lock, Reject, CallPC, Numbered
    <3>3. CASE Return(t)
      BY <1>0, <3>3 DEF Return, NoCall, Numbered
    <3> QED BY <1>4, <3>1, <3>2, <3>3
  <2> QED BY <1>0, <1>1, <2>1, <2>2 DEF CallStep
<1> QED BY <1>2, <1>3, <1>4 DEF ThreadStep, Write, Wait, Check

LEMMA OtherCallStep ==
  ASSUME TInv, NEW n \in Node, ParseStep(n) \/ Environment(n)
  PROVE  CallStep
<1>0. \A m \in Node : log[m] \in Seq(Entry) /\ Len(log[m]) \in Nat
  BY LenProperties DEF TInv, TypeOK, Entry
<1>1. CASE Restart(n)
  <2>1. log \in [Node -> Seq(Entry)] /\ log' = [log EXCEPT ![n] = Interrupted(@)]
    BY <1>1 DEF Restart, Interrupted, TInv, TypeOK, Entry
  <2>2. Len(Interrupted(log[n])) = Len(log[n])
    BY <1>0, InterruptedFacts
  <2>3. \A m \in Node : Len(log'[m]) = Len(log[m])
    BY <2>1, <2>2
  <2>4. \A u \in Thread : call'[u] = NoCall \/ call'[u] = call[u]
    BY <1>1 DEF Restart
  <2> QED BY <1>0, <2>3, <2>4 DEF CallStep, NoCall, Numbered
<1>2. CASE ~Restart(n)
  <2>1. UNCHANGED <<call, log>>
    BY <1>2 DEF ParseStep, ReceiveBadLength, ReceiveAcked, ReceiveStaleAcked, ReceiveNacked,
       ReceiveCorrupt, ReceiveData, SetAcked, Break, Deliver, Environment, Lose, Damage, senderVars
  <2> QED BY <1>0, <2>1 DEF CallStep
<1> QED BY <1>1, <1>2

-----------------------------------------------------------------------------
(* The invariant.                                                          *)

\* The packet that is being sent goes behind those on the line.
LEMMA PacketPut ==
  ASSUME NEW w \in Seq(Frame), Ordered(w), Marked(w), NEW d \in Frame, Intact(d),
         \A g \in IntactFrames(w) : Behind(g.pkt, g.seq, d.pkt, d.seq)
  PROVE  /\ Ordered(Put(w, d)) /\ Marked(Put(w, d))
         /\ IntactFrames(Put(w, d)) \subseteq IntactFrames(w) \cup {d}
<1> DEFINE v == Put(w, d)
<1>0. /\ Len(w) \in Nat /\ Len(v) \in {Len(w), Len(w) + 1}
      /\ \A i \in 1 .. Len(w) : v[i] = w[i]
      /\ Len(v) = Len(w) + 1 => v[Len(w) + 1] = d
  BY PutFacts, LenProperties
<1> HIDE DEF v
<1>1. \A i \in 1 .. Len(v) : \/ i \in 1 .. Len(w) /\ v[i] = w[i]
                             \/ i = Len(w) + 1 /\ v[i] = d
  BY <1>0
<1>2. IntactFrames(v) \subseteq IntactFrames(w) \cup {d}
  BY <1>1 DEF IntactFrames
<1>3. Marked(v)
  BY <1>1 DEF Marked, Intact
<1>4. Ordered(v)
  <2> SUFFICES ASSUME NEW i \in 1 .. Len(v), NEW j \in 1 .. Len(v),
                      i < j, Intact(v[i]), Intact(v[j])
               PROVE  Behind(v[i].pkt, v[i].seq, v[j].pkt, v[j].seq)
    BY DEF Ordered
  <2>1. i \in 1 .. Len(w) /\ v[i] = w[i]
    BY <1>0, <1>1
  <2>2. CASE j \in 1 .. Len(w) /\ v[j] = w[j]
    BY <2>1, <2>2 DEF Ordered
  <2>3. CASE v[j] = d
    <3>1. w[i] \in IntactFrames(w)
      BY <2>1 DEF IntactFrames
    <3> QED BY <2>1, <2>3, <3>1
  <2> QED BY <1>1, <2>2, <2>3
<1> QED BY <1>2, <1>3, <1>4 DEF v

LEMMA LineInvStep ==
  ASSUME TInv, TInv', LineInv, CallStep, \A n \in Node : LineStep(n)
  PROVE  /\ LineInv'
         /\ \A m \in Node, p \in Nat, s \in SeqNum \cup {NoSeq} :
              NotBefore(m, p, s) => NotBefore(m, p, s)'
<1>0. /\ \A n \in Node : wire[n] \in Seq(Frame) /\ Peer[n] \in Node
      /\ \A n \in Node : \A f \in IntactFrames(wire[n]) : f \in Frame
  <2>1. \A n \in Node : wire[n] \in Seq(Frame) /\ Peer[n] \in Node
    BY TopologyAssumption DEF TInv, TypeOK
  <2> QED BY <2>1, ElementOfSeq DEF IntactFrames
<1>1. ASSUME NEW n \in Node
      PROVE  /\ Ordered(wire'[n]) /\ Marked(wire'[n])
             /\ \A f \in IntactFrames(wire'[n]) :
                  /\ f.pkt \in Nat
                  /\ Issued(n, f.pkt, f.seq)
                  /\ \/ f \in IntactFrames(wire[n])
                     \/ \A p \in Nat : \A s : Issued(n, p, s) => Behind(p, s, f.pkt, f.seq)
  <2>1. CASE Shrinks(wire[n], wire'[n])
    BY <1>0, <2>1 DEF Shrinks, LineInv, Frame
  <2>2. CASE ~Shrinks(wire[n], wire'[n])
    <3>1. PICK t \in Thread : /\ Home[t] = n /\ call[t].pc = "write"
                              /\ wire'[n] = Put(wire[n], DataFrame(call[t]))
      BY <2>2 DEF LineStep
    <3> DEFINE d == DataFrame(call[t])
    <3>2. /\ d \in Frame /\ call[t].pc \in Numbered
          /\ d.pkt = call[t].pkt /\ d.seq = call[t].seq /\ d.crc = "ok"
      BY <3>1, FrameFacts DEF TInv, TypeOK, DataFrame, Numbered
    <3> HIDE DEF d
    <3>3. Len(log[n]) \in Nat /\ Len(log[n]) > 0 /\ d.pkt = Len(log[n])
      BY <3>1, <3>2, LenProperties DEF TInv, TypeOK, LockInv
    <3>4. Intact(d)
      BY <3>2, <3>3 DEF Intact
    <3>5. \A p \in Nat : \A s : Issued(n, p, s) => Behind(p, s, d.pkt, d.seq)
      BY <3>1, <3>2, <3>3 DEF Issued, Behind
    <3>6. \A g \in IntactFrames(wire[n]) : Behind(g.pkt, g.seq, d.pkt, d.seq)
      BY <1>0, <3>5 DEF LineInv, Frame
    <3>7. Issued(n, d.pkt, d.seq)
      <4>1. ASSUME NEW u \in Thread, Home[u] = n, call[u].pc \in Numbered
            PROVE  u = t
        BY <3>1, <3>2, <4>1 DEF TInv, LockInv, Numbered
      <4> QED BY <3>2, <3>3, <4>1 DEF Issued
    <3>8. /\ Ordered(wire'[n]) /\ Marked(wire'[n])
          /\ IntactFrames(wire'[n]) \subseteq IntactFrames(wire[n]) \cup {d}
      BY <1>0, <3>1, <3>2, <3>4, <3>6, PacketPut DEF LineInv, d
    <3> QED BY <1>0, <3>2, <3>3, <3>5, <3>7, <3>8 DEF LineInv, Frame
  <2> QED BY <2>1, <2>2
<1>2. \A n \in Node, p \in Nat : \A s : Issued(n, p, s) => Issued(n, p, s)'
  BY IssuedStays
<1>3. LineInv'
  BY <1>1, <1>2 DEF LineInv
<1>4. ASSUME NEW m \in Node, NEW p \in Nat, NEW s \in SeqNum \cup {NoSeq}, NotBefore(m, p, s)
      PROVE  NotBefore(m, p, s)'
  <2>1. Issued(Peer[m], p, s) /\ Issued(Peer[m], p, s)'
    BY <1>0, <1>2, <1>4 DEF NotBefore
  <2>2. \A g \in IntactFrames(wire'[Peer[m]]) : Behind(p, s, g.pkt, g.seq)
    BY <1>0, <1>1, <1>4, <2>1 DEF NotBefore
  <2> QED BY <2>1, <2>2 DEF NotBefore
<1> QED BY <1>3, <1>4

\* Types of what the invariant speaks of.
LEMMA NodeTypes ==
  ASSUME TInv, NEW m \in Node
  PROVE  /\ rx[m] \in RxRec /\ rx[m].frm.pkt \in Nat /\ rx[m].frm.seq \in SeqNum
         /\ last_recv_packet_seq[m] \in SeqNum \cup {NoSeq}
         /\ delivered[m] \in Seq(Nat) /\ Len(delivered[m]) \in Nat
         /\ delivered[m] # << >> => Len(delivered[m]) > 0 /\ Latest(m) \in Nat
         /\ \A i \in 1 .. Len(delivered[m]) : delivered[m][i] \in Nat
<1>1. rx[m] \in RxRec /\ delivered[m] \in Seq(Nat)
      /\ last_recv_packet_seq[m] \in SeqNum \cup {NoSeq}
  BY DEF TInv, TypeOK
<1>2. rx[m].frm.pkt \in Nat /\ rx[m].frm.seq \in SeqNum
  BY <1>1 DEF RxRec, Frame
<1>3. Len(delivered[m]) \in Nat /\ \A i \in 1 .. Len(delivered[m]) : delivered[m][i] \in Nat
  BY <1>1, LenProperties, ElementOfSeq
<1>4. delivered[m] # << >> => Len(delivered[m]) > 0
  BY <1>1, EmptySeq, LenProperties
<1>5. delivered[m] # << >> => Len(delivered[m]) > 0 /\ Latest(m) \in Nat
  BY <1>3, <1>4 DEF Latest
<1> QED BY <1>1, <1>2, <1>3, <1>5

\* A step in which end m delivers nothing and takes no packet off the line.
LEMMA QuietStep ==
  ASSUME TInv, OrderInv, NEW m \in Node,
         \A p \in Nat, s \in SeqNum \cup {NoSeq} : NotBefore(m, p, s) => NotBefore(m, p, s)',
         restarts'[m] = 0 => /\ restarts[m] = 0
                             /\ delivered'[m] = delivered[m]
                             /\ last_recv_packet_seq'[m] = last_recv_packet_seq[m],
         rx'[m].pc = "deliver" => rx'[m] = rx[m]
  PROVE  RxInv(m)' /\ LastInv(m)' /\ Increasing(m)'
<1>1. RxInv(m) /\ LastInv(m) /\ Increasing(m)
  BY DEF OrderInv
<1>2. RxInv(m)'
  BY <1>1, NodeTypes DEF RxInv
<1>3. LastInv(m)'
  BY <1>1, NodeTypes DEF LastInv, Latest
<1>4. Increasing(m)'
  BY <1>1 DEF Increasing
<1> QED BY <1>2, <1>3, <1>4

\* The parse thread takes a good packet off the line.
LEMMA ReceiveDataStep ==
  ASSUME TInv, TInv', OrderInv, NEW m \in Node, ReceiveData(m),
         \A p \in Nat, s \in SeqNum \cup {NoSeq} : NotBefore(m, p, s) => NotBefore(m, p, s)',
         CallStep
  PROVE  RxInv(m)' /\ LastInv(m)' /\ Increasing(m)'
<1> DEFINE n == Peer[m]
<1>1. /\ n \in Node /\ n # m /\ wire[n] \in Seq(Frame) /\ wire[n] # << >>
      /\ wire \in [Node -> Seq(Frame)] /\ rx \in [Node -> RxRec]
  BY TopologyAssumption DEF TInv, TypeOK, ReceiveData, LengthGood, FrameReady
<1> PICK f : f = Head(wire[n])
  OBVIOUS
<1>2. f \in Frame /\ f.pkt \in Nat /\ f.seq \in SeqNum /\ Incoming(m) = f
  <2>1. f \in Frame
    BY <1>1, HeadTailProperties
  <2> QED BY <2>1 DEF Incoming, Frame
<1>3. Intact(f)
  <2>1. Head(wire[n]) = wire[n][1] /\ 1 \in 1 .. Len(wire[n])
    BY <1>1, HeadTailProperties, LenProperties, EmptySeq
  <2>2. f.crc = "ok" /\ IsData(f)
    BY <1>2 DEF ReceiveData
  <2>3. Marked(wire[n])
    BY <1>1 DEF OrderInv, LineInv
  <2>4. f.pkt # 0
    BY <2>1, <2>2, <2>3 DEF Marked
  <2> QED BY <1>2, <2>2, <2>4 DEF Intact
<1>4. /\ f \in IntactFrames(wire[n])
      /\ \A g \in IntactFrames(Tail(wire[n])) : Behind(f.pkt, f.seq, g.pkt, g.seq)
  BY <1>1, <1>3, HeadFirst DEF OrderInv, LineInv
<1>5. wire'[n] = Tail(wire[n]) /\ rx'[m] = [pc |-> "deliver", frm |-> f]
      /\ UNCHANGED <<last_recv_packet_seq, delivered, restarts>>
  BY <1>1, <1>2 DEF ReceiveData, RxGoto, Take, Answer, faultVars
<1>6. Issued(n, f.pkt, f.seq)'
  <2>1. Issued(n, f.pkt, f.seq)
    BY <1>1, <1>4 DEF OrderInv, LineInv
  <2> QED BY <1>1, <1>2, <2>1, IssuedStays
<1>7. RxInv(m)'
  <2>1. NotBefore(m, f.pkt, f.seq)'
    BY <1>4, <1>5, <1>6 DEF NotBefore
  <2>2. rx'[m].frm = f
    BY <1>5
  <2> QED BY <2>1, <2>2 DEF RxInv
<1>8. LastInv(m)'
  <2> SUFFICES ASSUME restarts[m] = 0, delivered[m] # << >>
               PROVE  /\ NotBefore(m, Latest(m), last_recv_packet_seq[m])'
                      /\ Behind(Latest(m), last_recv_packet_seq[m], f.pkt, f.seq)
    BY <1>5 DEF LastInv, Latest
  <2> PICK p : p = Latest(m)
    OBVIOUS
  <2> PICK s : s = last_recv_packet_seq[m]
    OBVIOUS
  <2>1. NotBefore(m, p, s) /\ p \in Nat /\ s \in SeqNum \cup {NoSeq}
    BY NodeTypes DEF OrderInv, LastInv
  <2>2. NotBefore(m, p, s)'
    BY <2>1
  <2>3. Latest(m)' = p /\ last_recv_packet_seq'[m] = s
    BY <1>5 DEF Latest
  <2> QED BY <1>4, <2>1, <2>2, <2>3 DEF NotBefore
<1>9. Increasing(m)'
  BY <1>5 DEF OrderInv, Increasing
<1> QED BY <1>7, <1>8, <1>9

\* The application of end m gets the packet, unless it is a copy of the last.
LEMMA DeliverStep ==
  ASSUME TInv, OrderInv, NEW m \in Node, Deliver(m),
         \A p \in Nat, s \in SeqNum \cup {NoSeq} : NotBefore(m, p, s) => NotBefore(m, p, s)'
  PROVE  RxInv(m)' /\ LastInv(m)' /\ Increasing(m)'
<1> PICK p : p = rx[m].frm.pkt
  OBVIOUS
<1> PICK s : s = rx[m].frm.seq
  OBVIOUS
<1>1. /\ rx[m].pc = "deliver" /\ rx'[m].pc = "idle" /\ UNCHANGED restarts
      /\ last_recv_packet_seq'[m] = s
      /\ IF last_recv_packet_seq[m] = s
           THEN delivered' = delivered
           ELSE delivered'[m] = Append(delivered[m], p)
  BY DEF Deliver, IsDuplicate, IdleRx, TInv, TypeOK, faultVars
<1>2. RxInv(m)'
  BY <1>1 DEF RxInv
<1>3. p \in Nat /\ s \in SeqNum /\ NotBefore(m, p, s)
  BY <1>1, NodeTypes DEF OrderInv, RxInv
<1>4. NotBefore(m, p, s)'
  BY <1>3
<1>5. CASE last_recv_packet_seq[m] = s
  <2>1. LastInv(m)'
    <3> SUFFICES ASSUME restarts[m] = 0, delivered[m] # << >>
                 PROVE  NotBefore(m, Latest(m), last_recv_packet_seq[m])'
      BY <1>1, <1>5 DEF LastInv, Latest
    <3> PICK q : q = Latest(m)
      OBVIOUS
    <3>1. NotBefore(m, q, s) /\ q \in Nat
      BY <1>5, NodeTypes DEF OrderInv, LastInv
    <3>2. NotBefore(m, q, s)'
      BY <1>3, <3>1
    <3>3. Latest(m)' = q
      BY <1>1, <1>5 DEF Latest
    <3> QED BY <1>1, <3>2, <3>3
  <2>2. Increasing(m)'
    BY <1>1, <1>5 DEF OrderInv, Increasing
  <2> QED BY <1>2, <2>1, <2>2
<1>6. CASE last_recv_packet_seq[m] # s
  <2>1. /\ delivered[m] \in Seq(Nat) /\ Len(delivered[m]) \in Nat
        /\ delivered'[m] = Append(delivered[m], p)
    BY <1>1, <1>6, NodeTypes
  <2>2. /\ Len(delivered'[m]) = Len(delivered[m]) + 1
        /\ \A i \in 1 .. Len(delivered[m]) : delivered'[m][i] = delivered[m][i]
        /\ delivered'[m][Len(delivered[m]) + 1] = p
    BY <1>3, <2>1, AppendProperties
  <2>3. Latest(m)' = p
    BY <2>2 DEF Latest
  <2>4. LastInv(m)'
    BY <1>1, <1>4, <2>3 DEF LastInv
  <2>5. Increasing(m)'
    <3> SUFFICES ASSUME restarts[m] = 0,
                        NEW i \in 1 .. Len(delivered'[m]), NEW j \in 1 .. Len(delivered'[m]), i < j
                 PROVE  delivered'[m][i] < delivered'[m][j]
      BY <1>1 DEF Increasing
    <3> DEFINE k == Len(delivered[m])
    <3>1. i \in 1 .. k /\ j \in 1 .. k + 1
      BY <2>1, <2>2
    <3>2. CASE j \in 1 .. k
      BY <2>2, <3>1, <3>2 DEF OrderInv, Increasing
    <3>3. CASE j = k + 1
      <4>1. k > 0 /\ delivered[m] # << >> /\ delivered[m][k] \in Nat /\ delivered[m][i] \in Nat
        BY <2>1, <3>1, NodeTypes, EmptySeq
      <4>2. Behind(delivered[m][k], last_recv_packet_seq[m], p, s)
        BY <1>1, <4>1 DEF OrderInv, LastInv, Latest
      <4>3. delivered[m][k] < p
        BY <1>3, <1>6, <4>1, <4>2 DEF Behind
      <4>4. delivered[m][i] <= delivered[m][k]
        <5>1. CASE i = k
          BY <4>1, <5>1
        <5>2. CASE i < k
          <6>1. delivered[m][i] < delivered[m][k]
            BY <2>1, <3>1, <5>2 DEF OrderInv, Increasing
          <6> QED BY <4>1, <6>1
        <5> QED BY <2>1, <3>1, <5>1, <5>2
      <4>5. delivered'[m][i] = delivered[m][i] /\ delivered'[m][j] = p
        BY <2>2, <3>1, <3>3
      <4> QED BY <1>3, <4>1, <4>3, <4>4, <4>5
    <3> QED BY <2>1, <3>1, <3>2, <3>3
  <2> QED BY <1>2, <2>4, <2>5
<1> QED BY <1>5, <1>6

-----------------------------------------------------------------------------
LEMMA InitOrderInv == Init => OrderInv
<1> SUFFICES ASSUME Init PROVE OrderInv
  OBVIOUS
<1>1. \A n \in Node : /\ wire[n] = << >> /\ delivered[n] = << >> /\ rx[n].pc = "idle"
  BY DEF Init, IdleRx
<1>2. LineInv
  BY <1>1 DEF LineInv, Ordered, Marked, IntactFrames
<1>3. \A m \in Node : RxInv(m) /\ LastInv(m) /\ Increasing(m)
  BY <1>1 DEF RxInv, LastInv, Increasing
<1> QED BY <1>2, <1>3 DEF OrderInv

\* One case for every way a step can concern end m.
LEMMA NextOrderInv == TInv /\ OrderInv /\ [Next]_vars => OrderInv'
<1> SUFFICES ASSUME TInv, OrderInv, [Next]_vars PROVE OrderInv'
  OBVIOUS
<1>1. CASE Next
  <2>1. TInv'
    BY <1>1, NextTInv
  <2>2. CallStep /\ \A n \in Node : LineStep(n)
    BY <1>1, ThreadCallStep, OtherCallStep, ThreadLineStep, ParseLineStep, EnvironmentLineStep
       DEF Next
  <2>3. /\ LineInv'
        /\ \A m \in Node, p \in Nat, s \in SeqNum \cup {NoSeq} :
             NotBefore(m, p, s) => NotBefore(m, p, s)'
    BY <2>1, <2>2, LineInvStep DEF OrderInv
  <2>4. ASSUME NEW m \in Node
        PROVE  RxInv(m)' /\ LastInv(m)' /\ Increasing(m)'
    <3> DEFINE Quiet == /\ restarts'[m] = 0 => /\ restarts[m] = 0
                                               /\ delivered'[m] = delivered[m]
                                               /\ last_recv_packet_seq'[m] = last_recv_packet_seq[m]
                        /\ rx'[m].pc = "deliver" => rx'[m] = rx[m]
    <3>0. /\ rx \in [Node -> RxRec] /\ delivered \in [Node -> Seq(Nat)]
          /\ restarts \in [Node -> Nat] /\ last_recv_packet_seq \in [Node -> SeqNum \cup {NoSeq}]
      BY DEF TInv, TypeOK
    <3>1. CASE \E t \in Thread : Call(t) \/ ThreadStep(t)
      <4>1. Quiet
        BY <3>1, ThreadFacts
      <4> QED BY <2>3, <4>1, QuietStep
    <3>2. ASSUME NEW n \in Node, Environment(n)
          PROVE  RxInv(m)' /\ LastInv(m)' /\ Increasing(m)'
      <4>1. CASE Lose(n) \/ Damage(n)
        <5>1. Quiet
          BY <4>1 DEF Lose, Damage, receiverVars
        <5> QED BY <2>3, <5>1, QuietStep
      <4>2. CASE Restart(n)
        <5>1. Quiet
          BY <3>0, <4>2 DEF Restart, IdleRx
        <5> QED BY <2>3, <5>1, QuietStep
      <4> QED BY <3>2, <4>1, <4>2 DEF Environment
    <3>3. ASSUME NEW n \in Node, ParseStep(n)
          PROVE  RxInv(m)' /\ LastInv(m)' /\ Increasing(m)'
      <4>1. CASE n = m /\ ReceiveData(m)
        BY <2>1, <2>2, <2>3, <4>1, ReceiveDataStep
      <4>2. CASE n = m /\ Deliver(m)
        BY <2>3, <4>2, DeliverStep
      <4>3. CASE n # m \/ ~(ReceiveData(n) \/ Deliver(n))
        <5>1. Quiet
          BY <3>0, <3>3, <4>3 DEF ParseStep, ReceiveBadLength, ReceiveAcked, ReceiveStaleAcked,
             ReceiveNacked, ReceiveCorrupt, ReceiveData, SetAcked, Break, Deliver, RxGoto, IdleRx,
             RxRec, receiverVars, faultVars
        <5> QED BY <2>3, <5>1, QuietStep
      <4> QED BY <4>1, <4>2, <4>3
    <3> QED BY <1>1, <3>1, <3>2, <3>3 DEF Next
  <2> QED BY <2>3, <2>4 DEF OrderInv
<1>2. CASE UNCHANGED vars
  BY <1>2 DEF OrderInv, LineInv, RxInv, LastInv, Increasing, NotBefore, Issued, Latest,
     vars, senderVars, receiverVars, faultVars
<1> QED BY <1>1, <1>2

\* An application never sees a packet twice nor out of the order of sending,
\* whatever is lost, damaged, sent again or restarted at the other end.
THEOREM UartInOrderOnce == Spec => []InOrderOnce
<1>1. Spec => []OrderInv
  BY InitOrderInv, NextOrderInv, SpecTInv, PTL DEF Spec
<1>2. OrderInv => InOrderOnce
  BY DEF OrderInv, Increasing, InOrderOnce
<1> QED BY <1>1, <1>2, PTL
=============================================================================
