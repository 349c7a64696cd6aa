--------------------------- MODULE UartCliProofs ---------------------------
(***************************************************************************)
(* Proofs about the whole program, for any number of packets, commands,    *)
(* retries and lost frames: types, the send lock (one thread at a time is  *)
(* between Begin and Return), and when the start is over.                  *)
(*                                                                         *)
(* Then the way of a packet of the peer through both event lists and the   *)
(* worker's hand, seen as one increasing sequence (Taken), from which the  *)
(* order of the answers follows (AnswersInOrder); and, with what is on the *)
(* line and in the flag acked, that the program implements CommService.    *)
(***************************************************************************)
EXTENDS UartCli, SequenceTheorems, TLAPS

\* Frames on their way from the peer: its packets, and its answers.
CliFrame  == [what : {"packet"}, id : 1 .. MaxRequests] \cup [what : {"ack"}, id : Nat]
PeerFrame == [what : {"packet", "ack", "nack"}, id : Nat]

\* What a packet of this end is, and how a call ends.
Part   == {"command", "answer", "ack", "end"}
Result == {"pending", "acked", "timeout"}

ParseRec   == [pc : {"idle", "store", "between", "stored", "null", "whole", "deliver"},
               frm : CliFrame \cup {Nack(0)}, more : BOOLEAN, torn : BOOLEAN]
WorkerRec  == [pc : {"rest", "syscall", "reply"}, item : Request, todo : Seq(Part)]
CallRec    == [pc : {"idle", "lock", "write", "wait"}, re : Nat, part : Part,
               file : Nat, left : Int]
SentRec    == [by : Sender, re : Nat, part : Part, file : Nat, res : Result]
PeerRec    == [pc : {"rest", "wait"}, left : Int]
RequestRec == [kind : Kind, res : Result]

StartType ==
  /\ process \in {"running", "exited", "crashed", "undefined"}
  /\ boot \in {"uart", "list", "zero", "register", "channel", "up"}
  /\ ready \subseteq {"uart", "list", "protocol", "channel"}
  /\ buf \in BOOLEAN

ParseType ==
  /\ parse \in ParseRec
  /\ parse.pc = "deliver" => parse.frm.what = "packet"
  /\ last \in Request

QueueType ==
  /\ list1 \in Seq(1 .. MaxRequests) /\ list2 \in Seq(1 .. MaxRequests)
  /\ relay \in Request

WorkType == worker \in WorkerRec /\ file \in Request

SendType ==
  /\ acked \in BOOLEAN
  /\ app_lock \in Sender \cup {None}
  /\ call \in [Sender -> CallRec]
  /\ sent \in Seq(SentRec)

LineType ==
  /\ to_cli \in Seq(CliFrame)
  /\ to_peer \in Seq(PeerFrame)

\* The peer waits for the answer to a packet, the last one it has sent.
PeerType ==
  /\ peer \in PeerRec
  /\ requests \in Seq(RequestRec) /\ Len(requests) <= MaxRequests
  /\ peer.pc = "wait" => requests # <<>>

Holds(t) == call[t].pc \notin {"idle", "lock"}

\* One thread sends at a time, and the packet it sends is the last one.
LockInv ==
  /\ \A t \in Sender : Holds(t) <=> app_lock = t
  /\ \A t \in Sender : Holds(t) => sent # <<>>

TypeInv ==
  /\ StartType /\ ParseType /\ QueueType /\ WorkType
  /\ SendType /\ LineType /\ PeerType /\ LockInv

\* The order in which main() creates what a packet meets, and what is never
\* so at a crash.
StartInv ==
  /\ boot \in {"zero", "register", "channel", "up"} => "list" \in ready
  /\ "protocol" \in ready => "list" \in ready
  /\ parse.pc = "deliver" => "protocol" \in ready
  /\ parse.pc = "idle" => ~parse.torn
  /\ process = "crashed" => ~PastStart

\* Once the start is over: no frame in hand, or one that was begun since then.
Clear ==
  /\ boot = "up" /\ "channel" \in ready /\ process # "crashed"
  /\ parse.pc \in {"idle", "whole", "deliver"} /\ ~parse.torn

LEMMA NoneHolds == None \notin Sender
  BY DEF None, Sender

LEMMA TypeInvImplies == TypeInv => TypeOK
  BY DEF TypeInv, StartType, ParseType, QueueType, WorkType, SendType, LockInv, TypeOK,
         ParseRec, WorkerRec, CallRec, Holds

LEMMA InitTypeInv == Init => TypeInv
<1> SUFFICES ASSUME Init PROVE TypeInv
  OBVIOUS
<1> USE BoundAssumption DEF Init
<1>1. StartType
  BY DEF StartType
<1>2. ParseType
  BY DEF ParseType, Resting, ParseRec, Nack, Request
<1>3. WorkType
  BY DEF WorkType, WorkerRec, Request
<1>4. SendType
  <2>1. NoCall \in CallRec
    BY DEF NoCall, CallRec, Part
  <2>2. sent \in Seq(SentRec)
    OBVIOUS
  <2> QED BY <2>1, <2>2 DEF SendType
<1>5. LineType
  BY DEF LineType
<1>6. PeerType
  BY DEF PeerType, PeerRec
<1>7. LockInv
  BY DEF LockInv, Holds, NoCall, Sender, None
<1>8. QueueType
  BY DEF QueueType, Request
<1> QED BY <1>1, <1>2, <1>3, <1>4, <1>5, <1>6, <1>7, <1>8 DEF TypeInv

-----------------------------------------------------------------------------
(* main().                                                                  *)

LEMMA BootKeeps ==
  ASSUME TypeInv, Boot \/ StartFails \/ Undefined
  PROVE  TypeInv'
<1> USE DEF BootUnchanged, queueVars, workVars, sendVars, peerVars, lineVars, countVars
<1>1. QueueType' /\ WorkType' /\ SendType' /\ LineType' /\ PeerType' /\ LockInv'
  BY DEF TypeInv, Boot, StartFails, Undefined, UartInitialize, CreateList, ProtocolBusinessInit,
         RegisterHandlers, ChnlInit, ChnlInitFails, QueueType, WorkType, SendType, LineType, PeerType,
         LockInv, Holds
<1>2. StartType'
  BY DEF TypeInv, StartType, Boot, StartFails, Undefined, UartInitialize, CreateList,
         ProtocolBusinessInit, RegisterHandlers, ChnlInit, ChnlInitFails, Step
<1>3. ParseType'
  <2>1. CASE ProtocolBusinessInit
    <3> DEFINE torn == parse.pc \in {"store", "between"}
    <3>1. torn \in BOOLEAN
      OBVIOUS
    <3>2. parse' = [parse EXCEPT !.torn = torn] /\ last' = last
      BY <2>1 DEF ProtocolBusinessInit
    <3> HIDE DEF torn
    <3> QED BY <3>1, <3>2 DEF TypeInv, ParseType, ParseRec
  <2>2. CASE ~ProtocolBusinessInit
    BY <2>2 DEF TypeInv, ParseType, Boot, StartFails, Undefined, UartInitialize, CreateList,
                RegisterHandlers, ChnlInit, ChnlInitFails
  <2> QED BY <2>1, <2>2
<1> QED BY <1>1, <1>2, <1>3 DEF TypeInv

LEMMA CommandKeeps ==
  ASSUME TypeInv, Command
  PROVE  TypeInv'
<1> USE DEF Command, bootVars, rxVars, queueVars, workVars, peerVars, lineVars
<1>1. StartType' /\ ParseType' /\ QueueType' /\ WorkType' /\ LineType' /\ PeerType'
  BY DEF TypeInv, StartType, ParseType, QueueType, WorkType, LineType, PeerType
<1>2. SendType'
  BY DEF TypeInv, SendType, CallRec, Sender
<1>3. LockInv'
  BY DEF TypeInv, SendType, LockInv, Holds, CallRec, Sender
<1> QED BY <1>1, <1>2, <1>3 DEF TypeInv

-----------------------------------------------------------------------------
(* The sending threads.                                                     *)

\* What no step of a sending thread touches.
LEMMA SenderLeaves ==
  ASSUME TypeInv, SendUnchanged
  PROVE  StartType' /\ ParseType' /\ QueueType' /\ WorkType' /\ PeerType'
BY DEF TypeInv, SendUnchanged, bootVars, rxVars, queueVars, workVars, peerVars,
       StartType, ParseType, QueueType, WorkType, PeerType

\* A thread goes on to write, with so many attempts left.
LEMMA WriteNext ==
  ASSUME NEW t \in Sender, NEW left \in Int, call \in [Sender -> CallRec],
         call' = [call EXCEPT ![t].pc = "write", ![t].left = left]
  PROVE  call' \in [Sender -> CallRec]
<1> DEFINE c == [call[t] EXCEPT !.pc = "write"]
           d == [c EXCEPT !.left = left]
<1>1. c \in CallRec
  BY DEF CallRec
<1>2. d \in CallRec
  BY <1>1 DEF CallRec
<1>3. call' = [call EXCEPT ![t] = d]
  OBVIOUS
<1> HIDE DEF c, d
<1> QED BY <1>2, <1>3

LEMMA BeginKeeps ==
  ASSUME TypeInv, NEW t \in Sender, Begin(t)
  PROVE  TypeInv'
<1> DEFINE new == [by |-> t, re |-> call[t].re, part |-> call[t].part,
                   file |-> call[t].file, res |-> "pending"]
<1>1. StartType' /\ ParseType' /\ QueueType' /\ WorkType' /\ PeerType' /\ LineType'
  BY SenderLeaves DEF Begin, SendUnchanged, LineType, TypeInv
<1>2. new \in SentRec
  BY DEF TypeInv, SendType, CallRec, SentRec, Result
<1>3. sent' \in Seq(SentRec) /\ sent' # <<>>
  BY <1>2, AppendProperties DEF TypeInv, SendType, Begin
<1>4. SendType'
  <2>1. call' \in [Sender -> CallRec]
    <3>1. TRY_RESEND_TIMES \in Int /\ call \in [Sender -> CallRec]
      BY BoundAssumption DEF TypeInv, SendType
    <3>2. call' = [call EXCEPT ![t].pc = "write", ![t].left = TRY_RESEND_TIMES]
      BY DEF Begin
    <3> QED BY ONLY <3>1, <3>2, WriteNext, t \in Sender, Zenon
  <2> QED BY <1>3, <2>1 DEF TypeInv, SendType, Begin
<1>5. LockInv'
  BY <1>3, NoneHolds DEF TypeInv, LockInv, SendType, Begin, CallRec, Holds
<1> QED BY <1>1, <1>4, <1>5 DEF TypeInv

LEMMA ReturnKeeps ==
  ASSUME TypeInv, NEW t \in Sender, Holds(t), NEW r \in Result, Return(t, r)
  PROVE  TypeInv'
<1>1. StartType' /\ ParseType' /\ QueueType' /\ WorkType' /\ PeerType' /\ LineType'
  BY SenderLeaves DEF Return, SendUnchanged, LineType, TypeInv
<1>2. sent \in Seq(SentRec) /\ sent # <<>>
  BY DEF TypeInv, LockInv, SendType
<1>3. Len(sent) \in 1 .. Len(sent) /\ sent[Len(sent)] \in SentRec
  BY <1>2
<1>4. [sent[Len(sent)] EXCEPT !.res = r] \in SentRec
  BY <1>3 DEF SentRec
<1>5. sent' = [sent EXCEPT ![Len(sent)] = [sent[Len(sent)] EXCEPT !.res = r]]
  BY DEF Return
<1>6. sent' \in Seq(SentRec) /\ sent' # <<>>
  BY <1>2, <1>3, <1>4, <1>5, ExceptSeq
<1>7. SendType'
  BY <1>6 DEF TypeInv, SendType, Return, NoCall, CallRec, Part
<1>8. LockInv'
  BY <1>6, NoneHolds DEF TypeInv, LockInv, SendType, Return, NoCall, CallRec, Holds
<1> QED BY <1>1, <1>7, <1>8 DEF TypeInv

LEMMA SenderKeeps ==
  ASSUME TypeInv, NEW t \in Sender, SenderStep(t)
  PROVE  TypeInv'
<1>1. CASE Begin(t)
  BY <1>1, BeginKeeps
<1>2. CASE Write(t)
  <2>1. StartType' /\ ParseType' /\ QueueType' /\ WorkType' /\ PeerType'
    BY <1>2, SenderLeaves DEF Write
  <2>2. LineType'
    <3>1. sent \in Seq(SentRec) /\ Packet(Len(sent)) \in PeerFrame
      BY DEF TypeInv, SendType, Packet, PeerFrame
    <3> QED BY <1>2, <3>1, AppendProperties DEF TypeInv, LineType, Write, SendUnchanged
  <2>3. SendType'
    BY <1>2 DEF TypeInv, SendType, Write, CallRec
  <2>4. LockInv'
    BY <1>2 DEF TypeInv, LockInv, SendType, Write, CallRec, Holds
  <2> QED BY <2>1, <2>2, <2>3, <2>4 DEF TypeInv
<1>3. CASE Acked(t)
  BY <1>3, ReturnKeeps DEF Acked, Holds, Result
<1>4. CASE Resend(t)
  <2>1. StartType' /\ ParseType' /\ QueueType' /\ WorkType' /\ PeerType' /\ LineType'
    BY <1>4, SenderLeaves DEF Resend, SendUnchanged, LineType, TypeInv
  <2>2. SendType'
    <3>1. call[t].left \in Int
      BY DEF TypeInv, SendType, CallRec
    <3>2. call' = [call EXCEPT ![t].pc = "write", ![t].left = call[t].left - 1]
      BY <1>4 DEF Resend
    <3>3. call[t].left - 1 \in Int /\ call \in [Sender -> CallRec]
      BY <3>1 DEF TypeInv, SendType
    <3>4. call' \in [Sender -> CallRec]
      BY ONLY <3>2, <3>3, WriteNext, t \in Sender, Zenon
    <3> QED BY <1>4, <3>4 DEF TypeInv, SendType, Resend
  <2>3. LockInv'
    BY <1>4 DEF TypeInv, LockInv, SendType, Resend, Unanswered, CallRec, Holds
  <2> QED BY <2>1, <2>2, <2>3 DEF TypeInv
<1>5. CASE GiveUp(t)
  BY <1>5, ReturnKeeps DEF GiveUp, Unanswered, Holds, Result
<1> QED BY <1>1, <1>2, <1>3, <1>4, <1>5 DEF SenderStep

-----------------------------------------------------------------------------
(* The parse thread.                                                        *)

\* What no step of the parse thread touches.
LEMMA ParseLeaves ==
  ASSUME TypeInv, ParseUnchanged, UNCHANGED <<app_lock, call, sent>>
  PROVE  WorkType' /\ PeerType' /\ LockInv'
BY DEF TypeInv, ParseUnchanged, workVars, peerVars, WorkType, PeerType, LockInv, Holds

\* The parse thread puts nothing but its own answers on the line, and no
\* packet but the one in its hand into the list.
LEMMA ParseKeeps ==
  ASSUME TypeInv, Parse
  PROVE  TypeInv'
<1> USE DEF sendVars, lineVars, rxVars
<1>1. WorkType' /\ PeerType' /\ LockInv'
  BY ParseLeaves DEF Parse, FirstByte, ReadFrame, StartFrame, Store, HandOver, StoreCrashes, NextByte,
     Ignore, ProcessAck, ProcessPacket, ProcessTorn, ProcessTornCrashes, Deliver
<1>2. StartType'
  BY DEF TypeInv, StartType, Parse, FirstByte, ReadFrame, StartFrame, Store, HandOver, StoreCrashes,
     NextByte, Ignore, ProcessAck, ProcessPacket, ProcessTorn, ProcessTornCrashes, Deliver,
     ParseUnchanged, Crash
<1>3. Resting \in ParseRec
  BY DEF Resting, ParseRec
<1>4. CASE \E more \in BOOLEAN, pc \in {"store", "whole"} : StartFrame(pc, more)
  <2>1. PICK more \in BOOLEAN, pc \in {"store", "whole"} : StartFrame(pc, more)
    BY <1>4
  <2>2. to_cli \in Seq(CliFrame) /\ to_cli # <<>>
    BY <2>1 DEF TypeInv, LineType, StartFrame
  <2>3. Head(to_cli) \in CliFrame /\ Tail(to_cli) \in Seq(CliFrame)
    BY <2>2, HeadTailProperties
  <2>4. ParseType'
    BY <2>1, <2>3 DEF TypeInv, ParseType, StartFrame, ParseRec
  <2>5. QueueType' /\ SendType' /\ LineType'
    BY <2>1, <2>3 DEF TypeInv, StartFrame, QueueType, SendType, LineType, ParseUnchanged
  <2> QED BY <1>1, <1>2, <2>4, <2>5 DEF TypeInv
<1>5. CASE Store \/ HandOver \/ StoreCrashes \/ NextByte \/ Ignore \/ ProcessTornCrashes
  <2>1. QueueType' /\ SendType' /\ LineType'
    BY <1>5 DEF TypeInv, Store, HandOver, StoreCrashes, NextByte, Ignore, ProcessTornCrashes,
                QueueType, SendType, LineType, ParseUnchanged
  <2>2. ParseType'
    BY <1>5, <1>3 DEF TypeInv, ParseType, Store, HandOver, StoreCrashes, NextByte, Ignore, FrameDone,
                      ProcessTornCrashes, ParseRec, Resting
  <2> QED BY <1>1, <1>2, <2>1, <2>2 DEF TypeInv
<1>6. CASE ProcessAck
  <2>1. QueueType' /\ LineType'
    BY <1>6 DEF TypeInv, ProcessAck, QueueType, LineType, ParseUnchanged
  <2>2. ParseType'
    BY <1>6, <1>3 DEF TypeInv, ParseType, ProcessAck, FrameDone, Resting
  <2>3. SendType'
    <3>1. acked' \in BOOLEAN
      <4> DEFINE b == acked \/ parse.frm.id = Len(sent)
      <4>1. b \in BOOLEAN
        OBVIOUS
      <4>2. acked' = b
        BY <1>6 DEF ProcessAck
      <4> QED BY <4>1, <4>2
    <3> QED BY <1>6, <3>1 DEF TypeInv, SendType, ProcessAck
  <2> QED BY <1>1, <1>2, <2>1, <2>2, <2>3 DEF TypeInv
<1>7. CASE ProcessPacket
  <2>1. QueueType' /\ SendType'
    BY <1>7 DEF TypeInv, ProcessPacket, QueueType, SendType, ParseUnchanged
  <2>2. ParseType'
    BY <1>7 DEF TypeInv, ParseType, ProcessPacket, Process, ParseRec
  <2>3. Ack(parse.frm.id) \in PeerFrame
    BY <1>7 DEF TypeInv, ParseType, ParseRec, CliFrame, PeerFrame, Ack, Nack, ProcessPacket
  <2>4. LineType'
    BY <1>7, <2>3, AppendProperties DEF TypeInv, LineType, ProcessPacket
  <2> QED BY <1>1, <1>2, <2>1, <2>2, <2>4 DEF TypeInv
<1>8. CASE ProcessTorn
  <2>1. QueueType' /\ SendType'
    BY <1>8 DEF TypeInv, ProcessTorn, QueueType, SendType, ParseUnchanged
  <2>2. ParseType'
    BY <1>8, <1>3 DEF TypeInv, ParseType, ProcessTorn, FrameDone, Resting
  <2>3. PICK i \in 0 .. Len(requests) : to_peer' = Append(to_peer, Nack(i))
    BY <1>8 DEF ProcessTorn
  <2>4. Nack(i) \in PeerFrame
    BY DEF TypeInv, PeerType, Nack, PeerFrame
  <2>5. LineType'
    BY <1>8, <2>3, <2>4, AppendProperties DEF TypeInv, LineType, ProcessTorn
  <2> QED BY <1>1, <1>2, <2>1, <2>2, <2>5 DEF TypeInv
<1>9. CASE Deliver
  <2>1. parse.frm.id \in 1 .. MaxRequests
    BY <1>9 DEF Deliver, TypeInv, ParseType, ParseRec, CliFrame, Nack
  <2>2. ParseType'
    BY <1>9, <1>3, <2>1 DEF TypeInv, ParseType, Deliver, FrameDone, Resting, Request
  <2>3. QueueType'
    BY <1>9, <2>1, AppendProperties DEF TypeInv, QueueType, Deliver, ParseUnchanged
  <2>4. SendType' /\ LineType'
    BY <1>9 DEF TypeInv, Deliver, SendType, LineType
  <2> QED BY <1>1, <1>2, <2>2, <2>3, <2>4 DEF TypeInv
<1> QED BY <1>4, <1>5, <1>6, <1>7, <1>8, <1>9 DEF Parse, FirstByte, ReadFrame

-----------------------------------------------------------------------------
(* The workers of the two event lists.                                      *)

LEMMA RelayKeeps ==
  ASSUME TypeInv, Relay
  PROVE  TypeInv'
<1>1. ParseType' /\ WorkType' /\ SendType' /\ LineType' /\ PeerType' /\ LockInv'
  BY DEF TypeInv, Relay, RelayTake, RelayPass, RelayCrashes, RelayUnchanged, rxVars,
         workVars, sendVars, peerVars, lineVars, ParseType, WorkType, SendType, LineType,
         PeerType, LockInv, Holds
<1>2. StartType'
  BY DEF TypeInv, Relay, RelayTake, RelayPass, RelayCrashes, RelayUnchanged, rxVars,
         StartType, Crash
<1>3. QueueType'
  <2>1. CASE RelayTake
    <3>1. Head(list1) \in 1 .. MaxRequests /\ Tail(list1) \in Seq(1 .. MaxRequests)
      BY <2>1, HeadTailProperties DEF TypeInv, QueueType, RelayTake
    <3> QED BY <2>1, <3>1 DEF TypeInv, QueueType, RelayTake, Request
  <2>2. CASE RelayPass
    <3>1. relay \in 1 .. MaxRequests
      BY <2>2, BoundAssumption DEF TypeInv, QueueType, RelayPass, Request
    <3>2. list2' \in Seq(1 .. MaxRequests)
      BY <2>2, <3>1, AppendProperties DEF TypeInv, QueueType, RelayPass
    <3>3. relay' \in Request /\ list1' = list1
      BY <2>2, BoundAssumption DEF RelayPass, Request
    <3> QED BY <3>2, <3>3 DEF TypeInv, QueueType
  <2>3. CASE RelayCrashes
    BY <2>3 DEF TypeInv, QueueType, RelayCrashes, queueVars
  <2> QED BY <2>1, <2>2, <2>3 DEF Relay
<1> QED BY <1>1, <1>2, <1>3 DEF TypeInv

\* What no step of the channel's worker touches.
LEMMA WorkLeaves ==
  ASSUME TypeInv, WorkUnchanged
  PROVE  StartType' /\ ParseType' /\ LineType' /\ PeerType'
BY DEF TypeInv, WorkUnchanged, bootVars, rxVars, peerVars, lineVars, StartType, ParseType,
       LineType, PeerType

LEMMA WorkKeeps ==
  ASSUME TypeInv, Work \/ SyscallReturns
  PROVE  TypeInv'
<1>1. CASE WorkerTake
  <2> DEFINE item == Head(list2)
  <2>1. StartType' /\ ParseType' /\ LineType' /\ PeerType' /\ SendType' /\ LockInv'
    BY <1>1, WorkLeaves DEF WorkerTake, WorkUnchanged, TypeInv, SendType, LockInv, Holds
  <2>2. item \in 1 .. MaxRequests /\ list2' \in Seq(1 .. MaxRequests)
    BY <1>1, HeadTailProperties DEF TypeInv, QueueType, WorkerTake
  <2>3. QueueType'
    BY <1>1, <2>2 DEF TypeInv, QueueType, WorkerTake, WorkUnchanged
  <2>4. item \in Request /\ (NetHelper(item) \/ AsrBusiness(item) \/ AudioControl(item))
    BY <1>1, <2>2 DEF WorkerTake, Request
  <2> HIDE DEF item
  <2>5. CASE NetHelper(item)
    <3>1. worker' = [pc |-> "syscall", item |-> item, todo |-> <<"answer">>] /\ file' = file
      BY <2>5 DEF NetHelper, Handle
    <3>2. <<"answer">> \in Seq(Part)
      BY DEF Part
    <3>3. WorkType'
      BY <2>4, <3>1, <3>2 DEF TypeInv, WorkType, WorkerRec
    <3> QED BY <2>1, <2>3, <3>3 DEF TypeInv
  <2>6. CASE AsrBusiness(item)
    <3>1. worker' = [pc |-> "reply", item |-> item, todo |-> <<>>] /\ file' = file
      BY <2>6 DEF AsrBusiness, Handle
    <3>2. <<>> \in Seq(Part)
      OBVIOUS
    <3>3. WorkType'
      BY <2>4, <3>1, <3>2 DEF TypeInv, WorkType, WorkerRec
    <3> QED BY <2>1, <2>3, <3>3 DEF TypeInv
  <2>7. CASE AudioControl(item)
    <3> DEFINE k == requests[item].kind
    <3>1. /\ k \in {"start", "stop"}
          /\ worker' = [pc |-> "reply", item |-> item, todo |-> Answers(k)]
          /\ file' \in {item, file}
      BY <2>7 DEF AudioControl, Handle
    <3>2. Answers(k) \in Seq(Part)
      <4>1. Answers(k) \in {<<"ack", "end">>, <<"ack">>}
        BY <3>1 DEF Answers
      <4>2. <<"ack", "end">> \in Seq(Part) /\ <<"ack">> \in Seq(Part)
        BY DEF Part
      <4> QED BY <4>1, <4>2
    <3>3. WorkType'
      BY <2>4, <3>1, <3>2 DEF TypeInv, WorkType, WorkerRec
    <3> QED BY <2>1, <2>3, <3>3 DEF TypeInv
  <2> QED BY <2>4, <2>5, <2>6, <2>7
<1>2. CASE SyscallReturns
  <2>1. StartType' /\ ParseType' /\ LineType' /\ PeerType' /\ SendType' /\ LockInv' /\ QueueType'
    BY <1>2, WorkLeaves DEF SyscallReturns, WorkUnchanged, TypeInv, SendType, QueueType,
                            LockInv, Holds
  <2>2. WorkType'
    BY <1>2 DEF TypeInv, WorkType, SyscallReturns, WorkerRec
  <2> QED BY <2>1, <2>2 DEF TypeInv
<1>3. CASE Reply
  <2>1. StartType' /\ ParseType' /\ LineType' /\ PeerType' /\ QueueType'
    BY <1>3, WorkLeaves DEF Reply, WorkUnchanged, TypeInv, QueueType
  <2>2. Head(worker.todo) \in Part /\ Tail(worker.todo) \in Seq(Part)
    BY <1>3, HeadTailProperties DEF TypeInv, WorkType, WorkerRec, Reply
  <2>3. WorkType'
    BY <1>3, <2>2 DEF TypeInv, WorkType, Reply, WorkerRec
  <2> DEFINE c == [pc |-> "lock", re |-> worker.item, part |-> Head(worker.todo),
                   file |-> file, left |-> 0]
  <2>4. c \in CallRec
    <3>1. worker.item \in Nat /\ file \in Nat
      BY BoundAssumption DEF TypeInv, WorkType, WorkerRec, Request
    <3> QED BY <2>2, <3>1 DEF CallRec
  <2>5. c.pc = "lock"
    OBVIOUS
  <2>6. call' = [call EXCEPT !["worker"] = c] /\ UNCHANGED <<app_lock, acked, sent>>
    BY <1>3 DEF Reply, WorkUnchanged
  <2>7. call["worker"].pc = "idle"
    BY <1>3 DEF Reply, Free
  <2> HIDE DEF c
  <2>8. SendType'
    BY <2>4, <2>6 DEF TypeInv, SendType, Sender
  <2>9. LockInv'
    BY <2>5, <2>6, <2>7 DEF TypeInv, LockInv, SendType, Holds, Sender
  <2> QED BY <2>1, <2>3, <2>8, <2>9 DEF TypeInv
<1>4. CASE HandlerReturns
  <2>1. StartType' /\ ParseType' /\ LineType' /\ PeerType' /\ SendType' /\ LockInv' /\ QueueType'
    BY <1>4, WorkLeaves DEF HandlerReturns, WorkUnchanged, TypeInv, SendType, QueueType,
                            LockInv, Holds
  <2>2. WorkType'
    <3> DEFINE w == [worker EXCEPT !.pc = "rest"]
    <3>1. w \in WorkerRec
      BY DEF TypeInv, WorkType, WorkerRec
    <3>2. worker' = [w EXCEPT !.item = 0] /\ file' = file
      BY <1>4 DEF HandlerReturns
    <3> HIDE DEF w
    <3>3. worker' \in WorkerRec
      BY <3>1, <3>2, BoundAssumption DEF WorkerRec, Request
    <3> QED BY <3>2, <3>3 DEF TypeInv, WorkType
  <2> QED BY <2>1, <2>2 DEF TypeInv
<1> QED BY <1>1, <1>2, <1>3, <1>4 DEF Work

-----------------------------------------------------------------------------
(* The peer and the line.                                                   *)

\* What no step of the peer or the line touches.
LEMMA PeerLeaves ==
  ASSUME TypeInv, PeerUnchanged
  PROVE  /\ StartType' /\ ParseType' /\ QueueType' /\ WorkType'
         /\ SendType' /\ LockInv'
BY DEF TypeInv, PeerUnchanged, bootVars, rxVars, queueVars, workVars, sendVars, StartType,
       ParseType, QueueType, WorkType, SendType, LockInv, Holds

LEMMA ToCliType ==
  ASSUME TypeInv, NEW f \in CliFrame, ToCli(f)
  PROVE  to_cli' \in Seq(CliFrame)
BY AppendProperties DEF TypeInv, LineType, ToCli

LEMMA PeerKeeps ==
  ASSUME TypeInv, PeerSend \/ PeerStep \/ Lose
  PROVE  TypeInv'
<1> USE BoundAssumption
<1>1. StartType' /\ ParseType' /\ QueueType' /\ WorkType' /\ SendType' /\ LockInv'
  BY PeerLeaves DEF PeerSend, PeerStep, PeerReceiveAck, PeerReceiveNack, PeerReceivePacket,
     PeerTake, PeerResend, PeerGiveUp, Lose
<1>2. to_peer' \in Seq(PeerFrame)
  BY HeadTailProperties DEF TypeInv, LineType, lineVars, PeerSend, PeerStep, PeerReceiveAck,
     PeerReceiveNack, PeerReceivePacket, PeerTake, PeerResend, PeerGiveUp, Lose
<1>3. requests \in Seq(RequestRec) /\ Len(requests) \in Nat /\ Len(requests) <= MaxRequests
  BY DEF TypeInv, PeerType
<1>4. ASSUME NEW r \in Result, PeerReturn(r), peer.pc = "wait"
      PROVE  PeerType'
  <2>1. Len(requests) \in 1 .. Len(requests) /\ requests[Len(requests)] \in RequestRec
    BY <1>3, <1>4 DEF TypeInv, PeerType
  <2>2. [requests[Len(requests)] EXCEPT !.res = r] \in RequestRec
    BY <1>4, <2>1 DEF RequestRec
  <2>3. requests' = [requests EXCEPT ![Len(requests)] =
                       [requests[Len(requests)] EXCEPT !.res = r]]
    BY <1>4 DEF PeerReturn
  <2>4. requests' \in Seq(RequestRec) /\ Len(requests') = Len(requests)
    BY <1>3, <2>1, <2>2, <2>3, ExceptSeq
  <2> QED BY <1>3, <1>4, <2>4 DEF PeerReturn, PeerType, PeerRec
<1>5. CASE PeerSend
  <2>1. PICK k \in Kinds : requests' = Append(requests, [kind |-> k, res |-> "pending"])
    BY <1>5 DEF PeerSend
  <2>2. [kind |-> k, res |-> "pending"] \in RequestRec
    BY KindAssumption DEF RequestRec, Result
  <2>3. /\ requests' \in Seq(RequestRec) /\ requests' # <<>>
        /\ Len(requests') = Len(requests) + 1
    BY <1>3, <2>1, <2>2, AppendProperties
  <2>4. PeerType'
    BY <1>3, <1>5, <2>3 DEF PeerSend, PeerType, PeerRec
  <2>5. Packet(Len(requests) + 1) \in CliFrame
    BY <1>3, <1>5 DEF PeerSend, Packet, CliFrame
  <2>6. to_cli' \in Seq(CliFrame)
    BY <1>5, <2>5, ToCliType DEF PeerSend
  <2> QED BY <1>1, <1>2, <2>4, <2>6 DEF TypeInv, LineType
<1>6. CASE PeerReceiveAck
  <2>1. PeerType'
    BY <1>4, <1>6 DEF PeerReceiveAck, TypeInv, PeerType, Result
  <2> QED BY <1>1, <1>2, <1>6, <2>1 DEF TypeInv, LineType, PeerReceiveAck
<1>7. CASE PeerReceiveNack \/ Lose
  <2>1. PeerType'
    BY <1>7 DEF PeerReceiveNack, Lose, TypeInv, PeerType, peerVars
  <2>2. to_cli' \in Seq(CliFrame)
    BY <1>7, HeadTailProperties DEF PeerReceiveNack, Lose, TypeInv, LineType
  <2> QED BY <1>1, <1>2, <2>1, <2>2 DEF TypeInv, LineType
<1>8. CASE PeerReceivePacket
  <2>1. PeerType'
    BY <1>8 DEF PeerReceivePacket, TypeInv, PeerType
  <2>2. Head(to_peer) \in PeerFrame
    BY <1>8, HeadTailProperties DEF PeerReceivePacket, PeerTake, TypeInv, LineType
  <2>3. Ack(Head(to_peer).id) \in CliFrame
    BY <2>2 DEF PeerFrame, CliFrame, Ack
  <2>4. to_cli' \in Seq(CliFrame)
    BY <1>8, <2>3, ToCliType DEF PeerReceivePacket
  <2> QED BY <1>1, <1>2, <2>1, <2>4 DEF TypeInv, LineType
<1>9. CASE PeerResend
  <2>1. PeerType'
    BY <1>9 DEF PeerResend, TypeInv, PeerType, PeerRec
  <2>2. Packet(Len(requests)) \in CliFrame
    BY <1>3, <1>9 DEF PeerResend, PeerUnanswered, TypeInv, PeerType, Packet, CliFrame
  <2>3. to_cli' \in Seq(CliFrame)
    BY <1>9, <2>2, ToCliType DEF PeerResend
  <2> QED BY <1>1, <1>2, <2>1, <2>3 DEF TypeInv, LineType
<1>10. CASE PeerGiveUp
  <2>1. PeerType'
    BY <1>4, <1>10 DEF PeerGiveUp, PeerUnanswered, Result
  <2> QED BY <1>1, <1>2, <1>10, <2>1 DEF TypeInv, LineType, PeerGiveUp, lineVars
<1> QED BY <1>5, <1>6, <1>7, <1>8, <1>9, <1>10 DEF PeerStep

-----------------------------------------------------------------------------
(* The theorems.                                                            *)

LEMMA NextTypeInv == TypeInv /\ [Next]_vars => TypeInv'
<1> SUFFICES ASSUME TypeInv, [Next]_vars PROVE TypeInv'
  OBVIOUS
<1>1. CASE Boot \/ StartFails \/ Undefined
  BY <1>1, BootKeeps
<1>2. CASE \E t \in Sender : SenderStep(t)
  BY <1>2, SenderKeeps
<1>3. CASE Parse
  BY <1>3, ParseKeeps
<1>4. CASE Relay
  BY <1>4, RelayKeeps
<1>5. CASE Work \/ SyscallReturns
  BY <1>5, WorkKeeps
<1>6. CASE Command
  BY <1>6, CommandKeeps
<1>7. CASE PeerSend \/ PeerStep \/ Lose
  BY <1>7, PeerKeeps
<1>8. CASE UNCHANGED vars
  BY <1>8 DEF vars, bootVars, rxVars, queueVars, workVars, sendVars, peerVars, lineVars,
     TypeInv, StartType, ParseType, QueueType, WorkType, SendType, LineType, PeerType,
     LockInv, Holds
<1> QED BY <1>1, <1>2, <1>3, <1>4, <1>5, <1>6, <1>7, <1>8 DEF Next, Program

LEMMA AlwaysTypeInv == Spec => []TypeInv
BY InitTypeInv, NextTypeInv, PTL DEF Spec

\* The types of the whole program, and with them that one thread at a time
\* is between the taking and the release of app_send_sync_lock.
THEOREM CliTypeOK == Spec => []TypeOK
BY AlwaysTypeInv, TypeInvImplies, PTL

LEMMA InitStartInv == Init => StartInv
  BY DEF Init, StartInv, PastStart, Resting

\* Steps that leave main() and the parse thread as they are.
LEMMA OtherSteps ==
  ASSUME Command \/ Work \/ SyscallReturns \/ PeerSend \/ PeerStep \/ Lose
         \/ (\E t \in Sender : SenderStep(t)) \/ UNCHANGED vars
  PROVE  UNCHANGED <<process, boot, ready, buf, parse>>
<1>1. CASE Command \/ UNCHANGED vars
  BY <1>1 DEF Command, vars, bootVars, rxVars
<1>2. CASE Work \/ SyscallReturns
  BY <1>2 DEF Work, WorkerTake, SyscallReturns, Reply, HandlerReturns, WorkUnchanged, bootVars, rxVars
<1>3. CASE PeerSend \/ PeerStep \/ Lose
  BY <1>3 DEF PeerSend, PeerStep, PeerReceiveAck, PeerReceiveNack, PeerReceivePacket,
     PeerTake, PeerResend, PeerGiveUp, Lose, PeerUnchanged, bootVars, rxVars
<1>4. CASE \E t \in Sender : SenderStep(t)
  BY <1>4 DEF SenderStep, Begin, Write, Acked, Resend, GiveUp, Return, SendUnchanged, bootVars, rxVars
<1> QED BY <1>1, <1>2, <1>3, <1>4

LEMMA RelayLeaves ==
  ASSUME Relay
  PROVE  /\ UNCHANGED <<boot, ready, buf, parse>>
         /\ process' = process \/ ("channel" \notin ready /\ process' = "crashed")
BY DEF Relay, RelayTake, RelayPass, RelayCrashes, RelayUnchanged, Crash, rxVars

LEMMA NextStartInv == TypeInv /\ StartInv /\ [Next]_vars => StartInv'
<1> SUFFICES ASSUME TypeInv, StartInv, [Next]_vars PROVE StartInv'
  OBVIOUS
<1> USE DEF StartInv, PastStart
<1>1. parse \in ParseRec
  BY DEF TypeInv, ParseType
<1>2. CASE Next /\ (Boot \/ StartFails \/ Undefined)
  <2>0. process = "running"
    BY <1>2 DEF Next
  <2>1. CASE ProtocolBusinessInit
    <3> DEFINE torn == parse.pc \in {"store", "between"}
    <3>1. /\ parse' = [parse EXCEPT !.torn = torn]
          /\ boot = "zero" /\ boot' = "register" /\ ready' = ready /\ process' = process
      BY <2>1 DEF ProtocolBusinessInit, Step
    <3>2. parse'.pc = parse.pc /\ parse'.torn = torn
      BY <1>1, <3>1 DEF ParseRec
    <3> QED BY <2>0, <3>1, <3>2
  <2>2. CASE UartInitialize \/ CreateList \/ RegisterHandlers \/ ChnlInit \/ ChnlInitFails
    BY <2>0, <2>2 DEF UartInitialize, CreateList, RegisterHandlers, ChnlInit, ChnlInitFails, Step
  <2>3. CASE StartFails \/ Undefined
    BY <2>3 DEF StartFails, Undefined
  <2> QED BY <1>2, <2>1, <2>2, <2>3 DEF Boot
<1>3. CASE Next /\ Parse
  <2>0. process = "running" /\ UNCHANGED <<boot, ready>>
    BY <1>3 DEF Next, Parse, FirstByte, ReadFrame, StartFrame, Store, HandOver, StoreCrashes, NextByte,
       Ignore, ProcessAck, ProcessPacket, ProcessTorn, ProcessTornCrashes, Deliver, ParseUnchanged
  <2>1. CASE FirstByte \/ ReadFrame
    BY <2>0, <2>1 DEF FirstByte, ReadFrame, StartFrame
  <2>2. CASE Store \/ HandOver \/ NextByte \/ ProcessPacket
    BY <1>1, <2>0, <2>2 DEF Store, HandOver, NextByte, Process, ProcessPacket, ParseRec
  <2>3. CASE StoreCrashes \/ ProcessTornCrashes
    BY <2>0, <2>3 DEF StoreCrashes, ProcessTornCrashes, rxVars
  <2>4. CASE Ignore \/ ProcessAck \/ ProcessTorn \/ Deliver
    <3>1. parse' = Resting /\ process' = process
      BY <2>4 DEF Ignore, ProcessAck, ProcessTorn, Deliver, FrameDone
    <3> QED BY <2>0, <3>1 DEF Resting
  <2> QED BY <1>3, <2>1, <2>2, <2>3, <2>4 DEF Parse
<1>4. CASE Next /\ Relay
  BY <1>4, RelayLeaves DEF Next
<1>5. CASE UNCHANGED <<process, boot, ready, buf, parse>>
  BY <1>5
<1> QED BY <1>2, <1>3, <1>4, <1>5, OtherSteps DEF Next, Program

\* With no frame left over from the start there is nothing to crash on.
LEMMA NextClear == TypeInv /\ StartInv /\ Clear /\ [Next]_vars => Clear'
<1> SUFFICES ASSUME TypeInv, StartInv, Clear, [Next]_vars PROVE Clear'
  OBVIOUS
<1> USE DEF Clear
<1>1. parse \in ParseRec
  BY DEF TypeInv, ParseType
<1>2. CASE Boot \/ StartFails \/ Undefined
  BY <1>2 DEF Boot, UartInitialize, CreateList, ProtocolBusinessInit, RegisterHandlers, ChnlInit,
     ChnlInitFails, Step, StartFails, Undefined
<1>3. CASE Parse
  <2>0. UNCHANGED <<boot, ready>>
    BY <1>3 DEF Parse, FirstByte, ReadFrame, StartFrame, Store, HandOver, StoreCrashes, NextByte,
       Ignore, ProcessAck, ProcessPacket, ProcessTorn, ProcessTornCrashes, Deliver, ParseUnchanged
  <2>1. CASE FirstByte \/ Store \/ HandOver \/ StoreCrashes \/ NextByte \/ ProcessTorn \/ ProcessTornCrashes
    BY <2>1 DEF FirstByte, Store, HandOver, StoreCrashes, NextByte, Process, ProcessTorn, ProcessTornCrashes
  <2>2. CASE ReadFrame \/ ProcessPacket
    BY <1>1, <2>0, <2>2 DEF ReadFrame, StartFrame, ProcessPacket, ParseRec
  <2>3. CASE Ignore \/ ProcessAck \/ Deliver
    <3>1. parse' = Resting /\ process' = process
      BY <2>3 DEF StartInv, Ignore, ProcessAck, Deliver, FrameDone
    <3> QED BY <2>0, <3>1 DEF Resting
  <2> QED BY <1>3, <2>1, <2>2, <2>3 DEF Parse
<1>4. CASE Relay
  BY <1>4, RelayLeaves
<1>5. CASE UNCHANGED <<process, boot, ready, buf, parse>>
  BY <1>5
<1> QED BY <1>2, <1>3, <1>4, <1>5, OtherSteps DEF Next, Program

\* Whatever arrived while main() started the threads one after another: once
\* it reads commands, with its list created and no frame left over from then,
\* no packet ever meets something that is not there.
THEOREM CliStartIsOver == Spec => StartIsOver
<1>1. StartInv /\ PastStart => Clear
  BY DEF StartInv, PastStart, Clear
<1>2. Clear => process # "crashed"
  BY DEF Clear
<1> QED BY <1>1, <1>2, InitStartInv, NextStartInv, NextClear, AlwaysTypeInv, PTL DEF Spec, StartIsOver

-----------------------------------------------------------------------------
(* Order and answers.                                                       *)

\* The packets of the peer that have got past the duplicate filter, from the
\* first one handled to the last one that the parse thread has handed over.
WorkerHas == IF worker.item = 0 THEN <<>> ELSE <<worker.item>>
RelayHas  == IF relay = 0 THEN <<>> ELSE <<relay>>
Taken     == handled \o (WorkerHas \o list2 \o RelayHas \o list1)

Increasing(s) == \A i, j \in 1 .. Len(s) : i < j => s[i] < s[j]

\* They are taken in the order of sending, and last_recv_packet_seq is the
\* number of the last one.
TakenInv ==
  /\ handled \in Seq(1 .. MaxRequests)
  /\ Increasing(Taken)
  /\ Len(Taken) <= last
  /\ \A i \in 1 .. Len(Taken) : Taken[i] <= last
  /\ last # 0 => Among(last, Taken)

IsPacket(f) == f.what = "packet"

\* The peer's packets come in the order of sending, repeated or not, and none
\* is older than the last one taken.
ComingInv ==
  /\ last <= Len(requests)
  /\ \A i \in 1 .. Len(to_cli) : IsPacket(to_cli[i]) =>
       last <= to_cli[i].id /\ to_cli[i].id <= Len(requests)
  /\ \A i, j \in 1 .. Len(to_cli) :
       i < j /\ IsPacket(to_cli[i]) /\ IsPacket(to_cli[j]) => to_cli[i].id <= to_cli[j].id
  /\ IsPacket(parse.frm) =>
       /\ last <= parse.frm.id /\ parse.frm.id <= Len(requests)
       /\ \A i \in 1 .. Len(to_cli) : IsPacket(to_cli[i]) => parse.frm.id <= to_cli[i].id

\* Packet p has been taken or is about to be.
IsTaken(p) == Among(p, Taken) \/ (parse.pc = "deliver" /\ parse.frm.id = p)

\* Only what was taken is acknowledged.
AckedInv == \A i \in 1 .. Len(to_peer) : to_peer[i].what = "ack" => IsTaken(to_peer[i].id)

\* The same of the packets of this end.
GotInv ==
  /\ got \in Seq(Nat) /\ Increasing(got)
  /\ \A k \in 1 .. Len(got) : 1 <= got[k] /\ got[k] <= Len(sent)
  /\ \A i \in 1 .. Len(to_peer) : IsPacket(to_peer[i]) =>
       /\ 1 <= to_peer[i].id /\ to_peer[i].id <= Len(sent)
       /\ \A k \in 1 .. Len(got) : got[k] <= to_peer[i].id
  /\ \A i, j \in 1 .. Len(to_peer) :
       i < j /\ IsPacket(to_peer[i]) /\ IsPacket(to_peer[j]) => to_peer[i].id <= to_peer[j].id

\* An acknowledgement, on the line, in the parse thread's hand or in the flag
\* of the packet being sent, is there because the peer has got the packet.
FlagInv ==
  /\ \A i \in 1 .. Len(to_cli) : to_cli[i].what = "ack" => Among(to_cli[i].id, got)
  /\ parse.frm.what = "ack" => Among(parse.frm.id, got)
  /\ acked => Among(Len(sent), got)

IsPending(s) == s # <<>> /\ s[Len(s)].res = "pending"

\* The call in progress, if any, is that of the last packet.
PendingInv ==
  /\ IsPending(sent) <=> app_lock # None
  /\ IsPending(requests) <=> peer.pc = "wait"

\* What of the answers to request p has been sent.
NoAnswer(p) == \A i \in 1 .. Len(sent) : sent[i].by = "worker" => sent[i].re # p
OnlyAck(p) ==
  /\ \A i \in 1 .. Len(sent) : sent[i].by = "worker" /\ sent[i].re = p => sent[i].part = "ack"
  /\ \E i \in 1 .. Len(sent) : sent[i].re = p /\ sent[i].part = "ack"

\* The worker holds a packet unless it rests.
RestInv == worker.pc = "rest" <=> worker.item = 0

\* The worker of the channel: what it still has to answer, and what it is
\* about to send, belong to the packet in its hand; what it has sent does not,
\* or comes before them.
ReplyInv ==
  LET c == call["worker"] IN
  /\ worker.pc = "rest" => worker.todo = <<>> /\ c.pc = "idle"
  /\ \A i \in 1 .. Len(sent) : sent[i].by = "worker" =>
       \/ Among(sent[i].re, handled)
       \/ sent[i].re = worker.item /\ worker.item # 0
  /\ worker.todo \in {<<"ack", "end">>, <<"end">>, <<"ack">>, <<"answer">>, <<>>}
  /\ worker.todo \notin {<<"end">>, <<>>} => c.pc = "idle" /\ NoAnswer(worker.item)
  /\ worker.todo \in {<<"ack", "end">>, <<"end">>} => file = worker.item
  /\ c.pc = "lock" => c.re = worker.item /\ c.part \in {"answer", "ack", "end"}
  /\ c.pc = "lock" /\ c.part # "end" => NoAnswer(worker.item)
  /\ c.pc = "lock" /\ c.part = "end" =>
       worker.todo = <<>> /\ c.file = worker.item /\ OnlyAck(worker.item)
  /\ worker.todo = <<"end">> =>
       IF c.pc = "lock" THEN c.part = "ack" ELSE OnlyAck(worker.item)

Packets == 1 .. MaxRequests

LEMMA TakenTypes ==
  ASSUME TypeInv, handled \in Seq(Packets)
  PROVE  /\ WorkerHas \in Seq(Packets) /\ list2 \in Seq(Packets)
         /\ RelayHas \in Seq(Packets) /\ list1 \in Seq(Packets)
         /\ Taken \in Seq(Packets)
<1>1. list1 \in Seq(Packets) /\ list2 \in Seq(Packets)
  BY DEF TypeInv, QueueType, Packets
<1>2. worker.item # 0 => worker.item \in Packets
  BY BoundAssumption DEF TypeInv, WorkType, WorkerRec, Request, Packets
<1>3. relay # 0 => relay \in Packets
  BY BoundAssumption DEF TypeInv, QueueType, Request, Packets
<1>4. WorkerHas \in Seq(Packets) /\ RelayHas \in Seq(Packets)
  BY <1>2, <1>3 DEF WorkerHas, RelayHas
<1> HIDE DEF Packets
<1>5. Taken \in Seq(Packets)
  <2>1. WorkerHas \o list2 \in Seq(Packets)
    BY <1>1, <1>4, ConcatProperties
  <2>2. WorkerHas \o list2 \o RelayHas \in Seq(Packets)
    BY <1>4, <2>1, ConcatProperties
  <2>3. WorkerHas \o list2 \o RelayHas \o list1 \in Seq(Packets)
    BY <1>1, <2>2, ConcatProperties
  <2> QED BY <2>3, ConcatProperties DEF Taken
<1> QED BY <1>1, <1>4, <1>5

LEMMA HeadFirst ==
  ASSUME NEW S, NEW s \in Seq(S), s # <<>>
  PROVE  s = <<Head(s)>> \o Tail(s)
<1>1. Head(s) \in S /\ Tail(s) \in Seq(S) /\ Len(Tail(s)) = Len(s) - 1
      /\ \A i \in 1 .. Len(Tail(s)) : Tail(s)[i] = s[i + 1]
  BY HeadTailProperties
<1>2. <<Head(s)>> \in Seq(S) /\ Len(<<Head(s)>>) = 1 /\ <<Head(s)>>[1] = s[1]
  BY <1>1
<1> DEFINE t == <<Head(s)>> \o Tail(s)
<1>3. Len(s) \in Nat \ {0}
  BY EmptySeq
<1>4. /\ t \in Seq(S) /\ Len(t) = Len(s)
      /\ \A i \in 1 .. Len(s) : t[i] = IF i <= 1 THEN <<Head(s)>>[i] ELSE Tail(s)[i - 1]
  BY <1>1, <1>2, <1>3, ConcatProperties
<1>5. \A i \in 1 .. Len(s) : s[i] = t[i]
  BY <1>1, <1>2, <1>3, <1>4
<1> HIDE DEF t
<1>6. s = t
  BY <1>4, <1>5, SeqEqual
<1> QED BY <1>6 DEF t

\* Handing a packet on leaves the order as it is.
LEMMA HandOn ==
  ASSUME NEW S, NEW a \in Seq(S), NEW e \in S, NEW b \in Seq(S)
  PROVE  /\ Append(a, e) = a \o <<e>>
         /\ a \o <<e>> \o b = a \o (<<e>> \o b)
         /\ a \o <<e>> \in Seq(S) /\ <<e>> \in Seq(S)
<1>1. <<e>> \in Seq(S)
  OBVIOUS
<1> QED BY <1>1, AppendIsConcat, ConcatAssociative, ConcatProperties

LEMMA AppendBehind ==
  ASSUME NEW S, NEW a \in Seq(S), NEW b \in Seq(S), NEW e \in S
  PROVE  a \o Append(b, e) = Append(a \o b, e)
<1>1. <<e>> \in Seq(S) /\ a \o b \in Seq(S)
  BY ConcatProperties
<1>2. Append(b, e) = b \o <<e>> /\ Append(a \o b, e) = a \o b \o <<e>>
  BY <1>1, AppendIsConcat
<1> QED BY <1>1, <1>2, ConcatAssociative

LEMMA RelayTakes ==
  ASSUME TypeInv, handled \in Seq(Packets), RelayTake
  PROVE  Taken' = Taken
<1> DEFINE a == WorkerHas \o list2
<1>1. /\ a \in Seq(Packets) /\ list1 \in Seq(Packets) /\ list1 # <<>> /\ RelayHas = <<>>
      /\ Head(list1) \in Packets /\ Tail(list1) \in Seq(Packets)
  BY TakenTypes, ConcatProperties, HeadTailProperties DEF RelayTake, RelayHas
<1>2. RelayHas' = <<Head(list1)>> /\ list1' = Tail(list1) /\ a' = a /\ handled' = handled
  <2>1. Head(list1) # 0
    BY <1>1, BoundAssumption DEF Packets
  <2> QED BY <2>1 DEF RelayTake, RelayHas, RelayUnchanged, workVars, WorkerHas
<1> HIDE DEF a
<1>3. a \o <<Head(list1)>> \o Tail(list1) = a \o list1
  BY <1>1, HandOn, HeadFirst
<1>4. a \o RelayHas \o list1 = a \o list1
  BY <1>1, ConcatEmptySeq
<1>5. Taken = handled \o (a \o list1)
  BY <1>4 DEF Taken, a
<1>6. Taken' = handled \o (a \o <<Head(list1)>> \o Tail(list1))
  BY <1>2 DEF Taken, a
<1> QED BY <1>3, <1>5, <1>6

LEMMA RelayPasses ==
  ASSUME TypeInv, handled \in Seq(Packets), RelayPass
  PROVE  Taken' = Taken
<1>1. /\ WorkerHas \in Seq(Packets) /\ list2 \in Seq(Packets)
      /\ relay \in Packets /\ RelayHas = <<relay>>
  BY TakenTypes, BoundAssumption DEF TypeInv, QueueType, RelayPass, RelayHas, Request, Packets
<1>2. /\ RelayHas' = <<>> /\ list2' = Append(list2, relay) /\ list1' = list1
      /\ WorkerHas' = WorkerHas /\ handled' = handled
  BY DEF RelayPass, RelayHas, RelayUnchanged, workVars, WorkerHas
<1>3. WorkerHas \o Append(list2, relay) = WorkerHas \o list2 \o <<relay>>
  BY <1>1, HandOn, ConcatAssociative
<1>4. WorkerHas \o list2 \o <<relay>> \in Seq(Packets)
  BY <1>1, HandOn, ConcatProperties
<1>5. WorkerHas \o Append(list2, relay) \o <<>> = WorkerHas \o list2 \o <<relay>>
  BY <1>3, <1>4, ConcatEmptySeq
<1>6. Taken' = handled \o (WorkerHas \o Append(list2, relay) \o <<>> \o list1)
  BY <1>2 DEF Taken
<1>7. Taken = handled \o (WorkerHas \o list2 \o <<relay>> \o list1)
  BY <1>1 DEF Taken
<1> QED BY <1>5, <1>6, <1>7

LEMMA WorkerTakes ==
  ASSUME TypeInv, handled \in Seq(Packets), WorkerTake, worker.item = 0
  PROVE  Taken' = Taken /\ worker'.item = Head(list2) /\ Head(list2) \in Packets
<1>1. /\ WorkerHas = <<>> /\ list2 \in Seq(Packets) /\ list2 # <<>>
      /\ Head(list2) \in Packets /\ Tail(list2) \in Seq(Packets)
  BY TakenTypes, HeadTailProperties DEF WorkerTake, WorkerHas
<1>2. worker'.item = Head(list2) /\ Head(list2) # 0
  BY <1>1, BoundAssumption DEF WorkerTake, NetHelper, AsrBusiness, AudioControl, Handle, Packets
<1>3. /\ WorkerHas' = <<Head(list2)>> /\ list2' = Tail(list2)
      /\ RelayHas' = RelayHas /\ list1' = list1 /\ handled' = handled
  BY <1>2 DEF WorkerTake, WorkUnchanged, RelayHas, WorkerHas
<1>4. <<Head(list2)>> \o Tail(list2) = <<>> \o list2
  BY <1>1, HeadFirst, ConcatEmptySeq
<1>5. Taken' = handled \o (<<Head(list2)>> \o Tail(list2) \o RelayHas \o list1)
  BY <1>3 DEF Taken
<1>6. Taken = handled \o (<<>> \o list2 \o RelayHas \o list1)
  BY <1>1 DEF Taken
<1> QED BY <1>1, <1>2, <1>4, <1>5, <1>6

LEMMA HandlerDone ==
  ASSUME TypeInv, handled \in Seq(Packets), HandlerReturns, worker.item # 0
  PROVE  Taken' = Taken /\ handled' \in Seq(Packets) /\ worker'.item = 0
<1>1. /\ list2 \in Seq(Packets) /\ RelayHas \in Seq(Packets) /\ list1 \in Seq(Packets)
      /\ worker.item \in Packets /\ WorkerHas = <<worker.item>>
  BY TakenTypes, BoundAssumption DEF TypeInv, WorkType, WorkerRec, WorkerHas, Request, Packets
<1>2. worker'.item = 0
  BY DEF TypeInv, WorkType, WorkerRec, HandlerReturns
<1>3. /\ WorkerHas' = <<>> /\ handled' = Append(handled, worker.item)
      /\ list2' = list2 /\ RelayHas' = RelayHas /\ list1' = list1
  BY <1>2 DEF HandlerReturns, WorkUnchanged, WorkerHas, RelayHas
<1>4. handled' \in Seq(Packets)
  BY <1>1, <1>3, AppendProperties
<1> DEFINE b == list2 \o RelayHas \o list1
<1>5. b \in Seq(Packets) /\ list2 \o RelayHas \in Seq(Packets)
  BY <1>1, ConcatProperties
<1>6. <<worker.item>> \in Seq(Packets)
  BY <1>1
<1>7. <<worker.item>> \o list2 \o RelayHas \o list1 = <<worker.item>> \o b
  <2>1. <<worker.item>> \o list2 \o RelayHas = <<worker.item>> \o (list2 \o RelayHas)
    BY <1>1, <1>6, ConcatAssociative
  <2> QED BY <1>1, <1>5, <1>6, <2>1, ConcatAssociative
<1>8. <<>> \o list2 \o RelayHas \o list1 = b
  BY <1>1, ConcatEmptySeq
<1>9. Taken = handled \o (<<worker.item>> \o b)
  BY <1>1, <1>7 DEF Taken
<1>10. Taken' = Append(handled, worker.item) \o b
  BY <1>3, <1>8 DEF Taken
<1> HIDE DEF b
<1>11. Append(handled, worker.item) \o b = handled \o (<<worker.item>> \o b)
  <2>1. Append(handled, worker.item) = handled \o <<worker.item>>
    BY <1>1, AppendIsConcat
  <2>2. handled \o <<worker.item>> \o b = handled \o (<<worker.item>> \o b)
    BY <1>5, <1>6, ConcatAssociative
  <2> QED BY <2>1, <2>2
<1> QED BY <1>2, <1>4, <1>9, <1>10, <1>11

\* Deliver: what is not a repetition becomes the last one taken.
LEMMA ListGrows ==
  ASSUME TypeInv, handled \in Seq(Packets), NEW e \in Packets, list1' = Append(list1, e),
         UNCHANGED <<handled, worker, list2, relay>>
  PROVE  Taken' = Append(Taken, e)
<1> DEFINE a == WorkerHas \o list2 \o RelayHas
<1>1. /\ WorkerHas \in Seq(Packets) /\ list2 \in Seq(Packets) /\ RelayHas \in Seq(Packets)
      /\ list1 \in Seq(Packets) /\ Taken \in Seq(Packets)
  BY TakenTypes
<1>2. a \in Seq(Packets) /\ a \o list1 \in Seq(Packets)
  BY <1>1, ConcatProperties
<1>3. a' = a
  BY DEF WorkerHas, RelayHas
<1>4. Taken' = handled \o (a \o Append(list1, e)) /\ Taken = handled \o (a \o list1)
  BY <1>3 DEF Taken
<1> HIDE DEF a
<1>5. a \o Append(list1, e) = Append(a \o list1, e)
  BY <1>1, <1>2, AppendBehind
<1>6. handled \o Append(a \o list1, e) = Append(handled \o (a \o list1), e)
  BY <1>2, AppendBehind
<1> QED BY <1>4, <1>5, <1>6

\* Only Deliver adds to what has been taken.
LEMMA TakenMoves ==
  ASSUME TypeInv, handled \in Seq(Packets), RestInv, [Next]_vars, ~Deliver
  PROVE  Taken' = Taken /\ last' = last /\ handled' \in Seq(Packets)
<1>1. ASSUME UNCHANGED <<handled, worker, list2, relay, list1, last>>
      PROVE  Taken' = Taken /\ last' = last /\ handled' \in Seq(Packets)
  BY <1>1 DEF Taken, WorkerHas, RelayHas
<1>2. CASE Boot \/ StartFails \/ Undefined \/ Command
  BY <1>1, <1>2 DEF Boot, StartFails, Undefined, Command, UartInitialize, CreateList,
     ProtocolBusinessInit, RegisterHandlers, ChnlInit, ChnlInitFails, BootUnchanged, rxVars, queueVars, workVars
<1>3. CASE \E t \in Sender : SenderStep(t)
  BY <1>1, <1>3 DEF SenderStep, Begin, Write, Acked, Resend, GiveUp, Return, SendUnchanged,
     rxVars, queueVars, workVars
<1>4. CASE Parse
  BY <1>1, <1>4 DEF Parse, FirstByte, ReadFrame, StartFrame, Store, HandOver, StoreCrashes, NextByte,
     Ignore, ProcessAck, ProcessPacket, ProcessTorn, ProcessTornCrashes, ParseUnchanged,
     rxVars, workVars
<1>5. CASE Relay
  <2>1. CASE RelayTake
    BY <2>1, RelayTakes DEF RelayTake, RelayUnchanged, rxVars, workVars
  <2>2. CASE RelayPass
    BY <2>2, RelayPasses DEF RelayPass, RelayUnchanged, rxVars, workVars
  <2>3. CASE RelayCrashes
    BY <1>1, <2>3 DEF RelayCrashes, RelayUnchanged, rxVars, workVars, queueVars
  <2> QED BY <1>5, <2>1, <2>2, <2>3 DEF Relay
<1>6. CASE WorkerTake
  BY <1>6, WorkerTakes DEF WorkerTake, WorkUnchanged, rxVars, RestInv
<1>7. CASE HandlerReturns
  BY <1>7, HandlerDone DEF HandlerReturns, WorkUnchanged, rxVars, RestInv, Free
<1>8. CASE Reply \/ SyscallReturns
  <2>1. worker'.item = worker.item
    BY <1>8 DEF Reply, SyscallReturns, TypeInv, WorkType, WorkerRec
  <2>2. UNCHANGED <<handled, list2, relay, list1, last>>
    BY <1>8 DEF Reply, SyscallReturns, WorkUnchanged, rxVars
  <2> QED BY <2>1, <2>2 DEF Taken, WorkerHas, RelayHas
<1>9. CASE PeerSend \/ PeerStep \/ Lose
  BY <1>1, <1>9 DEF PeerSend, PeerStep, PeerReceiveAck, PeerReceiveNack, PeerReceivePacket,
     PeerTake, PeerResend, PeerGiveUp, Lose, PeerUnchanged, rxVars, queueVars, workVars
<1>10. CASE UNCHANGED vars
  BY <1>1, <1>10 DEF vars, rxVars, queueVars, workVars
<1> QED BY <1>2, <1>3, <1>4, <1>5, <1>6, <1>7, <1>8, <1>9, <1>10 DEF Next, Program, Work

\* What Deliver does: the packet in hand is, or becomes, the last one taken.
LEMMA DeliverTakes ==
  ASSUME TypeInv, TakenInv, ComingInv, Deliver
  PROVE  LET e == parse.frm.id IN
         /\ e \in Packets /\ last' = e /\ handled' = handled
         /\ \/ e = last /\ Taken' = Taken
            \/ e > last /\ Taken' = Append(Taken, e)
<1> DEFINE e == parse.frm.id
<1>1. e \in Packets /\ last <= e
  BY DEF Deliver, TypeInv, ParseType, ParseRec, CliFrame, Nack, Packets, ComingInv, IsPacket
<1>2. last' = e /\ UNCHANGED <<handled, worker, list2, relay>>
  BY DEF Deliver, ParseUnchanged, workVars
<1>3. last \in Nat
  BY BoundAssumption DEF TypeInv, ParseType, Request
<1>4. CASE e = last
  <2>1. list1' = list1
    BY <1>4 DEF Deliver, IsDuplicate
  <2>2. Taken' = Taken
    BY <1>2, <2>1 DEF Taken, WorkerHas, RelayHas
  <2> QED BY <1>1, <1>2, <1>4, <2>2
<1>5. CASE e # last
  <2>1. list1' = Append(list1, e)
    BY <1>5 DEF Deliver, IsDuplicate
  <2>2. Taken' = Append(Taken, e)
    BY <1>1, <1>2, <2>1, ListGrows DEF TakenInv, Packets
  <2>3. e > last
    BY <1>1, <1>3, <1>5, BoundAssumption DEF Packets
  <2> QED BY <1>1, <1>2, <2>2, <2>3
<1> QED BY <1>4, <1>5

LEMMA IncreasingAppend ==
  ASSUME NEW s \in Seq(Int), NEW e \in Int, Increasing(s), \A i \in 1 .. Len(s) : s[i] < e
  PROVE  Increasing(Append(s, e))
<1>1. /\ Len(Append(s, e)) = Len(s) + 1 /\ Append(s, e)[Len(s) + 1] = e
      /\ \A i \in 1 .. Len(s) : Append(s, e)[i] = s[i]
  BY AppendProperties
<1>2. Len(s) \in Nat
  OBVIOUS
<1> QED BY <1>1, <1>2 DEF Increasing

LEMMA NextTakenInv ==
  ASSUME TypeInv, TakenInv, ComingInv, RestInv, [Next]_vars
  PROVE  TakenInv' /\ \A p : Among(p, Taken) => Among(p, Taken)'
<1>0. Taken \in Seq(Packets) /\ last \in Nat /\ handled \in Seq(Packets)
  BY TakenTypes, BoundAssumption DEF TypeInv, ParseType, Request, TakenInv, Packets
<1>1. ASSUME Taken' = Taken, last' = last, handled' \in Seq(Packets)
      PROVE  TakenInv' /\ \A p : Among(p, Taken) => Among(p, Taken)'
  BY <1>1 DEF TakenInv, Increasing, Among, Packets
<1>2. CASE ~Deliver
  BY <1>0, <1>1, <1>2, TakenMoves
<1>3. CASE Deliver
  <2> PICK e : e = parse.frm.id
    OBVIOUS
  <2>1. /\ e \in Packets /\ last' = e /\ handled' = handled
        /\ \/ e = last /\ Taken' = Taken
           \/ e > last /\ Taken' = Append(Taken, e)
    BY <1>3, DeliverTakes
  <2>2. CASE e = last /\ Taken' = Taken
    BY <1>0, <1>1, <2>1, <2>2
  <2>3. CASE e > last /\ Taken' = Append(Taken, e)
    <3>1. /\ Len(Taken') = Len(Taken) + 1 /\ Taken'[Len(Taken) + 1] = e
          /\ \A i \in 1 .. Len(Taken) : Taken'[i] = Taken[i]
      BY <1>0, <2>1, <2>3, AppendProperties
    <3>0. Taken \in Seq(Int)
      <4>1. Packets \subseteq Int
        BY DEF Packets
      <4> QED BY <1>0, <4>1, SeqMonotonic
    <3>2. Len(Taken) \in Nat /\ \A i \in 1 .. Len(Taken) : Taken[i] \in Int
      BY <3>0, ElementOfSeq
    <3>3. \A i \in 1 .. Len(Taken) : Taken[i] < e
      BY <1>0, <2>1, <2>3, <3>2 DEF TakenInv, Packets
    <3>4. Increasing(Taken')
      <4>2. e \in Int /\ Increasing(Taken)
        BY <2>1 DEF Packets, TakenInv
      <4>3. Increasing(Append(Taken, e))
        BY <3>0, <3>3, <4>2, IncreasingAppend
      <4> QED BY <2>3, <4>3
    <3>5. Len(Taken') <= last'
      BY <1>0, <2>1, <2>3, <3>1, <3>2 DEF TakenInv, Packets
    <3>6. \A i \in 1 .. Len(Taken') : Taken'[i] <= last'
      BY <2>1, <3>1, <3>2, <3>3 DEF Packets
    <3>7. \A p : Among(p, Taken) => Among(p, Taken)'
      BY <3>1, <3>2 DEF Among
    <3>8. Among(last', Taken')
      BY <2>1, <3>1, <3>2 DEF Among
    <3>9. handled' \in Seq(1 .. MaxRequests)
      BY <1>0, <2>1 DEF Packets
    <3>10. Increasing(Taken)' /\ (last # 0 => Among(last, Taken))'
      BY <3>4, <3>8 DEF Increasing, Among
    <3> QED BY <3>5, <3>6, <3>7, <3>9, <3>10 DEF TakenInv
  <2> QED BY <2>1, <2>2, <2>3
<1> QED BY <1>2, <1>3

-----------------------------------------------------------------------------
(* The line from the peer.                                                  *)

\* What a step that takes nothing off the line to the program and puts
\* nothing on it can do to the rest.
LEMMA ComingKept ==
  ASSUME ComingInv, to_cli' = to_cli, last' = last, Len(requests') = Len(requests),
         parse'.frm = parse.frm \/ parse'.frm = Nack(0)
  PROVE  ComingInv'
<1>1. parse'.frm = Nack(0) => ~IsPacket(parse'.frm)
  BY DEF Nack, IsPacket
<1> QED BY <1>1 DEF ComingInv, IsPacket

LEMMA ComingShorter ==
  ASSUME TypeInv, ComingInv, to_cli # <<>>, to_cli' = Tail(to_cli), last' = last,
         Len(requests') = Len(requests),
         parse'.frm = parse.frm \/ parse'.frm = Head(to_cli)
  PROVE  ComingInv'
<1>1. /\ to_cli \in Seq(CliFrame) /\ Len(to_cli) \in Nat \ {0}
      /\ Len(to_cli') = Len(to_cli) - 1
      /\ \A i \in 1 .. Len(to_cli') : to_cli'[i] = to_cli[i + 1] /\ i + 1 \in 1 .. Len(to_cli)
  <2>1. to_cli \in Seq(CliFrame)
    BY DEF TypeInv, LineType
  <2> QED BY <2>1, HeadTailProperties, EmptySeq
<1>2. Head(to_cli) = to_cli[1] /\ 1 \in 1 .. Len(to_cli)
  BY <1>1
<1>3. last <= Len(requests) /\ UNCHANGED <<last, Len(requests)>>
  BY DEF ComingInv
<1>4. \A i \in 1 .. Len(to_cli') : IsPacket(to_cli'[i]) =>
        last' <= to_cli'[i].id /\ to_cli'[i].id <= Len(requests')
  BY <1>1, <1>3 DEF ComingInv
<1>5. \A i, j \in 1 .. Len(to_cli') :
        i < j /\ IsPacket(to_cli'[i]) /\ IsPacket(to_cli'[j]) => to_cli'[i].id <= to_cli'[j].id
  <2> SUFFICES ASSUME NEW i \in 1 .. Len(to_cli'), NEW j \in 1 .. Len(to_cli'), i < j,
                      IsPacket(to_cli'[i]), IsPacket(to_cli'[j])
               PROVE  to_cli'[i].id <= to_cli'[j].id
    OBVIOUS
  <2>1. i + 1 < j + 1 /\ i + 1 \in 1 .. Len(to_cli) /\ j + 1 \in 1 .. Len(to_cli)
    BY <1>1
  <2>2. to_cli'[i] = to_cli[i + 1] /\ to_cli'[j] = to_cli[j + 1]
    BY <1>1
  <2> QED BY <2>1, <2>2 DEF ComingInv
<1>6. CASE parse'.frm = parse.frm
  <2>1. IsPacket(parse'.frm) =>
          /\ last' <= parse'.frm.id /\ parse'.frm.id <= Len(requests')
          /\ \A i \in 1 .. Len(to_cli') : IsPacket(to_cli'[i]) => parse'.frm.id <= to_cli'[i].id
    BY <1>1, <1>3, <1>6 DEF ComingInv
  <2> QED BY <1>3, <1>4, <1>5, <2>1 DEF ComingInv, IsPacket
<1>7. CASE parse'.frm = Head(to_cli)
  <2>1. IsPacket(parse'.frm) => last' <= parse'.frm.id /\ parse'.frm.id <= Len(requests')
    BY <1>2, <1>3, <1>7 DEF ComingInv
  <2>2. ASSUME IsPacket(parse'.frm), NEW i \in 1 .. Len(to_cli'), IsPacket(to_cli'[i])
        PROVE  parse'.frm.id <= to_cli'[i].id
    <3>1. 1 < i + 1 /\ i + 1 \in 1 .. Len(to_cli) /\ to_cli'[i] = to_cli[i + 1]
      BY <1>1
    <3> QED BY <1>2, <1>7, <2>2, <3>1 DEF ComingInv
  <2> QED BY <1>3, <1>4, <1>5, <2>1, <2>2 DEF ComingInv, IsPacket
<1> QED BY <1>6, <1>7

\* The peer sends an acknowledgement, or its last packet once more or first.
LEMMA ComingLonger ==
  ASSUME TypeInv, ComingInv, NEW f \in CliFrame,
         to_cli' = Append(to_cli, f) \/ to_cli' = to_cli, UNCHANGED <<last, parse>>,
         Len(requests') \in Nat, Len(requests) <= Len(requests'),
         IsPacket(f) => f.id = Len(requests')
  PROVE  ComingInv'
<1>0. /\ Len(requests) \in Nat /\ last \in Nat /\ to_cli \in Seq(CliFrame)
      /\ \A i \in 1 .. Len(to_cli) : to_cli[i].id \in Nat
      /\ IsPacket(parse.frm) => parse.frm.id \in Nat
  <2>1. to_cli \in Seq(CliFrame)
    BY DEF TypeInv, LineType
  <2>2. ASSUME NEW i \in 1 .. Len(to_cli) PROVE to_cli[i].id \in Nat
    <3>1. to_cli[i] \in CliFrame
      BY <2>1, ElementOfSeq
    <3> QED BY <3>1, BoundAssumption DEF CliFrame
  <2>3. IsPacket(parse.frm) => parse.frm.id \in Nat
    BY BoundAssumption DEF TypeInv, ParseType, ParseRec, CliFrame, IsPacket, Nack
  <2> QED BY <2>1, <2>2, <2>3, BoundAssumption DEF TypeInv, PeerType, ParseType, Request
<1>1. CASE to_cli' = to_cli
  BY <1>0, <1>1 DEF ComingInv, IsPacket
<1>2. CASE to_cli' = Append(to_cli, f)
  <2>1. /\ Len(to_cli') = Len(to_cli) + 1 /\ to_cli'[Len(to_cli) + 1] = f
        /\ \A i \in 1 .. Len(to_cli) : to_cli'[i] = to_cli[i]
        /\ Len(to_cli) \in Nat
    BY <1>0, <1>2, AppendProperties
  <2>2. \A i \in 1 .. Len(to_cli') : i \in 1 .. Len(to_cli) \/ i = Len(to_cli) + 1
    BY <2>1
  <2>3. last' <= Len(requests')
    BY <1>0 DEF ComingInv
  <2>4. \A i \in 1 .. Len(to_cli') : IsPacket(to_cli'[i]) =>
          last' <= to_cli'[i].id /\ to_cli'[i].id <= Len(requests')
    BY <1>0, <2>1, <2>2, <2>3 DEF ComingInv
  <2>5. ASSUME NEW i \in 1 .. Len(to_cli'), NEW j \in 1 .. Len(to_cli'), i < j,
               IsPacket(to_cli'[i]), IsPacket(to_cli'[j])
        PROVE  to_cli'[i].id <= to_cli'[j].id
    <3>1. i \in 1 .. Len(to_cli)
      BY <2>1, <2>2, <2>5
    <3>2. CASE j \in 1 .. Len(to_cli)
      BY <2>1, <2>5, <3>1, <3>2 DEF ComingInv
    <3>3. CASE j = Len(to_cli) + 1
      BY <1>0, <2>1, <2>5, <3>1, <3>3 DEF ComingInv
    <3> QED BY <2>2, <3>2, <3>3
  <2>6. IsPacket(parse.frm) =>
          /\ last' <= parse.frm.id /\ parse.frm.id <= Len(requests')
          /\ \A i \in 1 .. Len(to_cli') : IsPacket(to_cli'[i]) => parse.frm.id <= to_cli'[i].id
    BY <1>0, <2>1, <2>2 DEF ComingInv
  <2> QED BY <2>3, <2>4, <2>5, <2>6 DEF ComingInv, IsPacket
<1> QED BY <1>1, <1>2

LEMMA NextComingInv ==
  ASSUME TypeInv, TypeInv', ComingInv, [Next]_vars
  PROVE  ComingInv'
<1>0. Len(requests) \in Nat /\ requests \in Seq(RequestRec)
  BY DEF TypeInv, PeerType
<1>1. ASSUME UNCHANGED <<to_cli, last, requests, parse>> PROVE ComingInv'
  BY <1>1, ComingKept
<1>2. CASE Boot \/ StartFails \/ Undefined
  <2>1. UNCHANGED <<to_cli, last, requests>> /\ parse'.frm = parse.frm
    BY <1>2 DEF Boot, StartFails, Undefined, UartInitialize, CreateList, ProtocolBusinessInit,
       RegisterHandlers, ChnlInit, ChnlInitFails, BootUnchanged, lineVars, peerVars, TypeInv, ParseType, ParseRec
  <2> QED BY <2>1, ComingKept
<1>3. CASE Command \/ Relay \/ Work \/ SyscallReturns \/ UNCHANGED vars
  BY <1>1, <1>3 DEF Command, Relay, RelayTake, RelayPass, RelayCrashes, RelayUnchanged, Work,
     WorkerTake, Reply, HandlerReturns, SyscallReturns, WorkUnchanged, vars, lineVars, peerVars, rxVars
<1>4. CASE \E t \in Sender : SenderStep(t)
  BY <1>1, <1>4 DEF SenderStep, Begin, Write, Acked, Resend, GiveUp, Return, SendUnchanged,
     peerVars, rxVars
<1>5. CASE FirstByte \/ ReadFrame
  <2>1. /\ to_cli # <<>> /\ to_cli' = Tail(to_cli) /\ UNCHANGED <<last, requests>>
        /\ parse'.frm = Head(to_cli)
    BY <1>5 DEF FirstByte, ReadFrame, StartFrame, ParseUnchanged, peerVars
  <2> QED BY <2>1, ComingShorter
<1>6. CASE Store \/ HandOver \/ StoreCrashes \/ NextByte \/ ProcessPacket \/ ProcessTornCrashes
  <2>1. UNCHANGED <<to_cli, last, requests>> /\ parse'.frm = parse.frm
    BY <1>6 DEF Store, HandOver, StoreCrashes, NextByte, ProcessPacket, ProcessTornCrashes, ParseUnchanged,
       lineVars, peerVars, rxVars, TypeInv, ParseType, ParseRec
  <2> QED BY <2>1, ComingKept
<1>7. CASE Ignore \/ ProcessAck \/ ProcessTorn
  <2>1. UNCHANGED <<to_cli, last, requests>> /\ parse'.frm = Nack(0)
    BY <1>7 DEF Ignore, ProcessAck, ProcessTorn, ParseUnchanged, FrameDone, Resting,
       lineVars, peerVars
  <2> QED BY <2>1, ComingKept
<1>8. CASE Deliver
  <2>1. /\ UNCHANGED <<to_cli, requests>> /\ parse'.frm = Nack(0) /\ last' = parse.frm.id
        /\ IsPacket(parse.frm)
    BY <1>8 DEF Deliver, ParseUnchanged, FrameDone, Resting, lineVars, peerVars, TypeInv,
       ParseType, IsPacket
  <2>2. ~IsPacket(parse'.frm)
    BY <2>1 DEF IsPacket, Nack
  <2> QED BY <2>1, <2>2 DEF ComingInv, IsPacket
<1>9. CASE Lose
  BY <1>1, <1>9, ComingShorter DEF Lose, PeerUnchanged, peerVars, rxVars
<1>10. CASE PeerSend
  <2>1. Len(requests') = Len(requests) + 1
    BY <1>0, <1>10 DEF PeerSend
  <2>2. Packet(Len(requests) + 1) \in CliFrame /\ Packet(Len(requests) + 1).id = Len(requests) + 1
    <3>1. Len(requests) + 1 \in 1 .. MaxRequests
      BY <1>0, <1>10, BoundAssumption DEF PeerSend
    <3> QED BY <3>1 DEF Packet, CliFrame
  <2>3. UNCHANGED <<last, parse>>
    BY <1>10 DEF PeerSend, PeerUnchanged, rxVars
  <2>4. to_cli' = Append(to_cli, Packet(Len(requests) + 1)) \/ to_cli' = to_cli
    BY <1>10 DEF PeerSend, ToCli
  <2> QED BY <1>0, <2>1, <2>2, <2>3, <2>4, ComingLonger
<1>11. CASE PeerResend
  <2>1. Packet(Len(requests)) \in CliFrame /\ Packet(Len(requests)).id = Len(requests)
    BY <1>0, <1>11, BoundAssumption DEF PeerResend, PeerUnanswered, TypeInv, PeerType, Packet, CliFrame
  <2>2. UNCHANGED <<last, parse, requests>>
    BY <1>11 DEF PeerResend, PeerUnchanged, rxVars
  <2>3. to_cli' = Append(to_cli, Packet(Len(requests))) \/ to_cli' = to_cli
    BY <1>11 DEF PeerResend, ToCli
  <2> QED BY <1>0, <2>1, <2>2, <2>3, ComingLonger
<1>12. CASE PeerReceivePacket
  <2> PICK p : p = Head(to_peer).id
    OBVIOUS
  <2>1. p \in Nat
    <3>1. Head(to_peer) \in PeerFrame
      BY <1>12, HeadTailProperties DEF PeerReceivePacket, PeerTake, TypeInv, LineType
    <3> QED BY <3>1 DEF PeerFrame
  <2>2. Ack(p) \in CliFrame /\ ~IsPacket(Ack(p))
    BY <2>1 DEF Ack, CliFrame, IsPacket
  <2>3. UNCHANGED <<last, parse, requests>>
    BY <1>12 DEF PeerReceivePacket, PeerTake, PeerUnchanged, rxVars
  <2>4. to_cli' = Append(to_cli, Ack(p)) \/ to_cli' = to_cli
    BY <1>12 DEF PeerReceivePacket, ToCli
  <2> QED BY <1>0, <2>2, <2>3, <2>4, ComingLonger
<1>13. CASE PeerReceiveAck \/ PeerReceiveNack \/ PeerGiveUp
  <2>1. UNCHANGED <<to_cli, last, parse>>
    BY <1>13 DEF PeerReceiveAck, PeerReceiveNack, PeerGiveUp, PeerTake, PeerUnchanged, rxVars, lineVars
  <2>2. Len(requests') = Len(requests)
    BY <1>0, <1>13 DEF PeerReceiveAck, PeerReceiveNack, PeerGiveUp, PeerReturn
  <2> QED BY <2>1, <2>2, ComingKept
<1> QED BY <1>2, <1>3, <1>4, <1>5, <1>6, <1>7, <1>8, <1>9, <1>10, <1>11, <1>12, <1>13
        DEF Next, Program, Parse, PeerStep

-----------------------------------------------------------------------------
(* The line to the peer.                                                    *)

LEMMA TakenStays ==
  ASSUME TypeInv, TakenInv, ComingInv, RestInv, [Next]_vars, NEW p, IsTaken(p)
  PROVE  IsTaken(p)'
<1>1. CASE Among(p, Taken)
  BY <1>1, NextTakenInv DEF IsTaken
<1>2. CASE Deliver /\ parse.frm.id = p
  <2> PICK e : e = parse.frm.id
    OBVIOUS
  <2>1. TakenInv' /\ last' = e /\ e \in Packets
    BY <1>2, NextTakenInv, DeliverTakes
  <2>2. Among(e, Taken)'
    BY <2>1 DEF TakenInv, Packets
  <2> QED BY <1>2, <2>2 DEF IsTaken
<1>3. CASE parse.pc = "deliver" /\ parse.frm.id = p /\ ~Deliver
  <2>1. CASE Boot \/ StartFails \/ Undefined
    <3>1. parse'.pc = parse.pc /\ parse'.frm = parse.frm
      BY <2>1 DEF Boot, StartFails, Undefined, UartInitialize, CreateList, ProtocolBusinessInit,
         RegisterHandlers, ChnlInit, ChnlInitFails, TypeInv, ParseType, ParseRec
    <3> QED BY <1>3, <3>1 DEF IsTaken
  <2>2. CASE UNCHANGED parse
    BY <1>3, <2>2 DEF IsTaken
  <2>3. CASE Parse
    BY <1>3, <2>2, <2>3 DEF Parse, FirstByte, ReadFrame, StartFrame, Store, HandOver, StoreCrashes,
       NextByte, Ignore, Process, ProcessAck, ProcessPacket, ProcessTorn, ProcessTornCrashes
  <2>4. CASE Command \/ Relay \/ Work \/ SyscallReturns \/ UNCHANGED vars
    BY <2>2, <2>4 DEF Command, Relay, RelayTake, RelayPass, RelayCrashes, RelayUnchanged, Work,
       WorkerTake, Reply, HandlerReturns, SyscallReturns, WorkUnchanged, vars, rxVars
  <2>5. CASE \E t \in Sender : SenderStep(t)
    BY <2>2, <2>5 DEF SenderStep, Begin, Write, Acked, Resend, GiveUp, Return, SendUnchanged, rxVars
  <2>6. CASE PeerSend \/ PeerStep \/ Lose
    BY <2>2, <2>6 DEF PeerSend, PeerStep, PeerReceiveAck, PeerReceiveNack, PeerReceivePacket,
       PeerTake, PeerResend, PeerGiveUp, Lose, PeerUnchanged, rxVars
  <2> QED BY <2>1, <2>3, <2>4, <2>5, <2>6 DEF Next, Program
<1> QED BY <1>1, <1>2, <1>3 DEF IsTaken

\* A frame for the peer: the packet being sent, or an answer.
Written(f) ==
  \/ f = Packet(Len(sent)) /\ sent # <<>> /\ UNCHANGED <<sent, got>>
  \/ f = Ack(parse.frm.id) /\ ProcessPacket
  \/ f.what = "nack" /\ UNCHANGED <<sent, got>>

LEMMA PeerLineMoves ==
  ASSUME TypeInv, [Next]_vars
  PROVE  \/ to_peer' = to_peer
         \/ to_peer # <<>> /\ to_peer' = Tail(to_peer)
         \/ \E f \in PeerFrame : to_peer' = Append(to_peer, f) /\ Written(f)
<1>1. CASE Boot \/ StartFails \/ Undefined \/ Command \/ Relay \/ Work \/ SyscallReturns \/ UNCHANGED vars
  BY <1>1 DEF Boot, StartFails, Undefined, UartInitialize, CreateList, ProtocolBusinessInit,
     RegisterHandlers, ChnlInit, ChnlInitFails, BootUnchanged, Command, Relay, RelayTake, RelayPass, RelayCrashes,
     RelayUnchanged, Work, WorkerTake, Reply, HandlerReturns, SyscallReturns, WorkUnchanged, vars, lineVars
<1>2. CASE PeerSend \/ PeerStep \/ Lose
  BY <1>2 DEF PeerSend, PeerStep, PeerReceiveAck, PeerReceiveNack, PeerReceivePacket,
     PeerTake, PeerResend, PeerGiveUp, Lose, lineVars
<1>3. CASE Parse /\ ~ProcessPacket /\ ~ProcessTorn
  BY <1>3 DEF Parse, FirstByte, ReadFrame, StartFrame, Store, HandOver, StoreCrashes, NextByte, Ignore,
     ProcessAck, ProcessTornCrashes, Deliver, lineVars
<1>4. CASE ProcessPacket
  <2>1. Ack(parse.frm.id) \in PeerFrame
    BY <1>4 DEF TypeInv, ParseType, ParseRec, CliFrame, PeerFrame, Ack, Nack, ProcessPacket
  <2> QED BY <1>4, <2>1 DEF ProcessPacket, Written
<1>5. CASE ProcessTorn
  <2>1. PICK i \in 0 .. Len(requests) : to_peer' = Append(to_peer, Nack(i))
    BY <1>5 DEF ProcessTorn
  <2>2. Nack(i) \in PeerFrame /\ Nack(i).what = "nack"
    BY DEF TypeInv, PeerType, Nack, PeerFrame
  <2>3. UNCHANGED <<sent, got>>
    BY <1>5 DEF ProcessTorn, sendVars, ParseUnchanged, peerVars
  <2> QED BY <2>1, <2>2, <2>3 DEF Written
<1>6. ASSUME NEW t \in Sender, SenderStep(t)
      PROVE  \/ to_peer' = to_peer
             \/ \E f \in PeerFrame : to_peer' = Append(to_peer, f) /\ Written(f)
  <2>1. CASE Write(t)
    <3>1. sent # <<>> /\ Packet(Len(sent)) \in PeerFrame
      BY <2>1 DEF TypeInv, SendType, LockInv, Holds, Write, Packet, PeerFrame
    <3> QED BY <2>1, <3>1 DEF Write, SendUnchanged, peerVars, Written
  <2>2. CASE ~Write(t)
    BY <1>6, <2>2 DEF SenderStep, Begin, Acked, Resend, GiveUp, Return
  <2> QED BY <2>1, <2>2
<1> QED BY <1>1, <1>2, <1>3, <1>4, <1>5, <1>6 DEF Next, Program

LEMMA NextAckedInv ==
  ASSUME TypeInv, TakenInv, ComingInv, RestInv, AckedInv, [Next]_vars
  PROVE  AckedInv'
<1>1. \A p : IsTaken(p) => IsTaken(p)'
  BY TakenStays
<1>2. to_peer \in Seq(PeerFrame) /\ Len(to_peer) \in Nat
  BY DEF TypeInv, LineType
<1>3. CASE to_peer' = to_peer
  BY <1>1, <1>3 DEF AckedInv
<1>4. CASE to_peer # <<>> /\ to_peer' = Tail(to_peer)
  <2>1. \A i \in 1 .. Len(to_peer') : to_peer'[i] = to_peer[i + 1] /\ i + 1 \in 1 .. Len(to_peer)
    BY <1>2, <1>4, HeadTailProperties
  <2> QED BY <1>1, <2>1 DEF AckedInv
<1>5. ASSUME NEW f \in PeerFrame, to_peer' = Append(to_peer, f), Written(f)
      PROVE  AckedInv'
  <2>1. /\ Len(to_peer') = Len(to_peer) + 1 /\ to_peer'[Len(to_peer) + 1] = f
        /\ \A i \in 1 .. Len(to_peer) : to_peer'[i] = to_peer[i]
    BY <1>2, <1>5, AppendProperties
  <2>2. f.what = "ack" => IsTaken(f.id)'
    <3>1. CASE f = Ack(parse.frm.id) /\ ProcessPacket
      <4>1. parse'.pc = "deliver" /\ parse'.frm = parse.frm /\ f.id = parse.frm.id
        BY <3>1 DEF ProcessPacket, Ack, TypeInv, ParseType, ParseRec
      <4> QED BY <4>1 DEF IsTaken
    <3>2. CASE ~ProcessPacket
      BY <1>5, <3>2 DEF Written, Packet
    <3> QED BY <1>5, <3>1, <3>2 DEF Written, Packet
  <2>3. \A i \in 1 .. Len(to_peer') : i \in 1 .. Len(to_peer) \/ i = Len(to_peer) + 1
    BY <1>2, <2>1
  <2> QED BY <1>1, <2>1, <2>2, <2>3 DEF AckedInv
<1> QED BY <1>3, <1>4, <1>5, PeerLineMoves

\* Calls begin with a new packet and end with a result for the last one.
Begins == \E t \in Sender : Begin(t)
Ends   == \E t \in Sender, r \in {"acked", "timeout"} : Holds(t) /\ Return(t, r)

LEMMA SentMoves ==
  ASSUME TypeInv, [Next]_vars
  PROVE  UNCHANGED <<sent, app_lock>> \/ Begins \/ Ends
<1>1. CASE Boot \/ StartFails \/ Undefined \/ Command \/ Relay \/ Work \/ SyscallReturns \/ UNCHANGED vars
  BY <1>1 DEF Boot, StartFails, Undefined, UartInitialize, CreateList, ProtocolBusinessInit,
     RegisterHandlers, ChnlInit, ChnlInitFails, BootUnchanged, Command, Relay, RelayTake, RelayPass, RelayCrashes,
     RelayUnchanged, Work, WorkerTake, Reply, HandlerReturns, SyscallReturns, WorkUnchanged, vars, sendVars
<1>2. CASE PeerSend \/ PeerStep \/ Lose
  BY <1>2 DEF PeerSend, PeerStep, PeerReceiveAck, PeerReceiveNack, PeerReceivePacket,
     PeerTake, PeerResend, PeerGiveUp, Lose, PeerUnchanged, sendVars
<1>3. CASE Parse
  BY <1>3 DEF Parse, FirstByte, ReadFrame, StartFrame, Store, HandOver, StoreCrashes, NextByte, Ignore,
     ProcessAck, ProcessPacket, ProcessTorn, ProcessTornCrashes, Deliver, sendVars
<1>4. CASE \E t \in Sender : SenderStep(t)
  BY <1>4 DEF SenderStep, Write, Acked, Resend, GiveUp, Unanswered, Begins, Ends, Holds
<1> QED BY <1>1, <1>2, <1>3, <1>4 DEF Next, Program

LEMMA BeginsFacts ==
  ASSUME TypeInv, NEW t \in Sender, Begin(t)
  PROVE  /\ sent \in Seq(SentRec) /\ Len(sent) \in Nat /\ Len(sent') = Len(sent) + 1
         /\ \A i \in 1 .. Len(sent) : sent'[i] = sent[i]
         /\ sent'[Len(sent) + 1] = [by |-> t, re |-> call[t].re, part |-> call[t].part,
                                    file |-> call[t].file, res |-> "pending"]
<1> DEFINE new == [by |-> t, re |-> call[t].re, part |-> call[t].part,
                   file |-> call[t].file, res |-> "pending"]
<1>1. sent \in Seq(SentRec) /\ new \in SentRec /\ sent' = Append(sent, new)
  BY DEF TypeInv, SendType, CallRec, SentRec, Result, Begin
<1> HIDE DEF new
<1>2. /\ sent \in Seq(SentRec) /\ Len(sent) \in Nat /\ Len(sent') = Len(sent) + 1
      /\ \A i \in 1 .. Len(sent) : sent'[i] = sent[i]
      /\ sent'[Len(sent) + 1] = new
  BY <1>1, AppendProperties
<1> QED BY <1>2 DEF new

LEMMA EndsFacts ==
  ASSUME TypeInv, NEW t \in Sender, NEW r \in {"acked", "timeout"}, Holds(t), Return(t, r)
  PROVE  /\ sent \in Seq(SentRec) /\ Len(sent) \in Nat \ {0} /\ Len(sent') = Len(sent)
         /\ \A i \in 1 .. Len(sent) :
              sent'[i] = IF i = Len(sent) THEN [sent[i] EXCEPT !.res = r] ELSE sent[i]
         /\ sent \in Seq(SentRec)
<1>1. sent \in Seq(SentRec) /\ sent # <<>>
  BY DEF TypeInv, LockInv, SendType
<1>2. Len(sent) \in 1 .. Len(sent) /\ sent[Len(sent)] \in SentRec
  BY <1>1
<1>3. [sent[Len(sent)] EXCEPT !.res = r] \in SentRec
  BY <1>2 DEF SentRec, Result
<1>4. sent' = [sent EXCEPT ![Len(sent)] = [sent[Len(sent)] EXCEPT !.res = r]]
  BY DEF Return
<1> QED BY <1>1, <1>2, <1>3, <1>4, ExceptSeq

LEMMA SentGrows ==
  ASSUME TypeInv, [Next]_vars
  PROVE  Len(sent) \in Nat /\ Len(sent') \in Nat /\ Len(sent) <= Len(sent')
<1>1. Len(sent) \in Nat
  BY DEF TypeInv, SendType
<1>2. CASE UNCHANGED <<sent, app_lock>>
  BY <1>1, <1>2
<1>3. CASE Begins
  <2>1. PICK t \in Sender : Begin(t)
    BY <1>3 DEF Begins
  <2>2. Len(sent') = Len(sent) + 1
    BY <2>1, BeginsFacts
  <2> QED BY <1>1, <2>2
<1>4. CASE Ends
  <2>1. PICK t \in Sender, r \in {"acked", "timeout"} : Holds(t) /\ Return(t, r)
    BY <1>4 DEF Ends
  <2>2. Len(sent') = Len(sent)
    BY <2>1, EndsFacts
  <2> QED BY <1>1, <2>2
<1> QED BY <1>2, <1>3, <1>4, SentMoves

\* The peer's application gets the packet at the head of the line.
LEMMA GotMoves ==
  ASSUME TypeInv, [Next]_vars
  PROVE  got' = got \/ PeerReceivePacket
<1>1. CASE Boot \/ StartFails \/ Undefined \/ Command \/ Relay \/ Work \/ SyscallReturns \/ UNCHANGED vars
  BY <1>1 DEF Boot, StartFails, Undefined, UartInitialize, CreateList, ProtocolBusinessInit,
     RegisterHandlers, ChnlInit, ChnlInitFails, BootUnchanged, Command, Relay, RelayTake, RelayPass, RelayCrashes,
     RelayUnchanged, Work, WorkerTake, Reply, HandlerReturns, SyscallReturns, WorkUnchanged, vars, peerVars
<1>2. CASE PeerSend \/ PeerStep \/ Lose
  BY <1>2 DEF PeerSend, PeerStep, PeerReceiveAck, PeerReceiveNack, PeerResend, PeerGiveUp, Lose, peerVars
<1>3. CASE Parse
  BY <1>3 DEF Parse, FirstByte, ReadFrame, StartFrame, Store, HandOver, StoreCrashes, NextByte, Ignore,
     ProcessAck, ProcessPacket, ProcessTorn, ProcessTornCrashes, Deliver, ParseUnchanged, peerVars
<1>4. CASE \E t \in Sender : SenderStep(t)
  BY <1>4 DEF SenderStep, Begin, Write, Acked, Resend, GiveUp, Return, SendUnchanged, peerVars
<1> QED BY <1>1, <1>2, <1>3, <1>4 DEF Next, Program

LEMMA GotTypes ==
  ASSUME TypeInv, GotInv
  PROVE  /\ got \in Seq(Nat) /\ Len(got) \in Nat /\ \A k \in 1 .. Len(got) : got[k] \in Nat
         /\ to_peer \in Seq(PeerFrame) /\ Len(to_peer) \in Nat
         /\ \A i \in 1 .. Len(to_peer) : to_peer[i].id \in Nat
<1>1. got \in Seq(Nat) /\ to_peer \in Seq(PeerFrame)
  BY DEF GotInv, TypeInv, LineType
<1>2. ASSUME NEW i \in 1 .. Len(to_peer) PROVE to_peer[i].id \in Nat
  <2>1. to_peer[i] \in PeerFrame
    BY <1>1, ElementOfSeq
  <2> QED BY <2>1 DEF PeerFrame
<1> QED BY <1>1, <1>2, ElementOfSeq

LEMMA GotLonger ==
  ASSUME TypeInv, GotInv, [Next]_vars, PeerReceivePacket
  PROVE  LET p == Head(to_peer).id IN
         /\ p \in 1 .. Len(sent) /\ to_peer # <<>> /\ to_peer' = Tail(to_peer) /\ sent' = sent
         /\ p = to_peer[1].id /\ IsPacket(to_peer[1])
         /\ \/ Among(p, got) /\ got' = got
            \/ ~Among(p, got) /\ got' = Append(got, p) /\ \A k \in 1 .. Len(got) : got[k] < p
<1> DEFINE p == Head(to_peer).id
<1>1. /\ to_peer # <<>> /\ to_peer' = Tail(to_peer) /\ IsPacket(Head(to_peer)) /\ sent' = sent
      /\ got' = IF Among(p, got) THEN got ELSE Append(got, p)
  BY DEF PeerReceivePacket, PeerTake, IsPacket, PeerUnchanged, sendVars
<1>2. Len(to_peer) \in Nat \ {0} /\ Head(to_peer) = to_peer[1]
  BY <1>1, GotTypes, EmptySeq
<1>3. 1 \in 1 .. Len(to_peer)
  BY <1>2
<1>4. /\ 1 <= p /\ p <= Len(sent) /\ p \in Nat
      /\ \A k \in 1 .. Len(got) : got[k] <= p
  BY <1>1, <1>2, <1>3, GotTypes DEF GotInv
<1>5. Len(sent) \in Nat
  BY SentGrows
<1>6. ~Among(p, got) => \A k \in 1 .. Len(got) : got[k] < p
  BY <1>4, GotTypes DEF Among
<1> HIDE DEF p
<1>7. \/ Among(p, got) /\ got' = got
      \/ ~Among(p, got) /\ got' = Append(got, p) /\ \A k \in 1 .. Len(got) : got[k] < p
  BY <1>1, <1>6
<1>8. p \in 1 .. Len(sent) /\ p = to_peer[1].id
  BY <1>2, <1>4, <1>5 DEF p
<1> QED BY <1>1, <1>2, <1>7, <1>8 DEF p

LEMMA NextGotInv ==
  ASSUME TypeInv, GotInv, [Next]_vars
  PROVE  GotInv' /\ \A p : Among(p, got) => Among(p, got')
<1>0. /\ got \in Seq(Nat) /\ Len(got) \in Nat /\ to_peer \in Seq(PeerFrame) /\ Len(to_peer) \in Nat
      /\ Len(sent) \in Nat /\ Len(sent') \in Nat /\ Len(sent) <= Len(sent')
  BY GotTypes, SentGrows
<1>b. /\ \A k \in 1 .. Len(got) : got[k] \in Nat /\ 1 <= got[k] /\ got[k] <= Len(sent')
      /\ \A i \in 1 .. Len(to_peer) : to_peer[i].id \in Nat /\ (IsPacket(to_peer[i]) =>
           /\ 1 <= to_peer[i].id /\ to_peer[i].id <= Len(sent')
           /\ \A k \in 1 .. Len(got) : got[k] <= to_peer[i].id)
  <2>1. /\ \A k \in 1 .. Len(got) : got[k] \in Nat
        /\ \A i \in 1 .. Len(to_peer) : to_peer[i].id \in Nat
    BY GotTypes
  <2> QED BY <1>0, <2>1 DEF GotInv
<1>1. CASE got' = got /\ to_peer' = to_peer
  BY <1>0, <1>1, <1>b DEF GotInv, Increasing, Among, IsPacket
<1>2. ASSUME to_peer # <<>>, to_peer' = Tail(to_peer)
      PROVE  /\ \A i \in 1 .. Len(to_peer') : to_peer'[i] = to_peer[i + 1] /\ i + 1 \in 1 .. Len(to_peer)
             /\ \A i \in 1 .. Len(to_peer') : IsPacket(to_peer'[i]) =>
                   /\ 1 <= to_peer'[i].id /\ to_peer'[i].id <= Len(sent')
                   /\ \A k \in 1 .. Len(got) : got[k] <= to_peer'[i].id
             /\ \A i, j \in 1 .. Len(to_peer') :
                  i < j /\ IsPacket(to_peer'[i]) /\ IsPacket(to_peer'[j])
                    => to_peer'[i].id <= to_peer'[j].id
  <2>1. /\ Len(to_peer') = Len(to_peer) - 1 /\ Len(to_peer) \in Nat
        /\ \A i \in 1 .. Len(to_peer') : to_peer'[i] = to_peer[i + 1] /\ i + 1 \in 1 .. Len(to_peer)
    BY <1>0, <1>2, HeadTailProperties
  <2>2. \A i \in 1 .. Len(to_peer') : IsPacket(to_peer'[i]) =>
          /\ 1 <= to_peer'[i].id /\ to_peer'[i].id <= Len(sent')
          /\ \A k \in 1 .. Len(got) : got[k] <= to_peer'[i].id
    BY <1>b, <2>1
  <2>3. ASSUME NEW i \in 1 .. Len(to_peer'), NEW j \in 1 .. Len(to_peer'), i < j,
               IsPacket(to_peer'[i]), IsPacket(to_peer'[j])
        PROVE  to_peer'[i].id <= to_peer'[j].id
    <3>1. i + 1 < j + 1 /\ i + 1 \in 1 .. Len(to_peer) /\ j + 1 \in 1 .. Len(to_peer)
      BY <2>1, <2>3
    <3>2. to_peer'[i] = to_peer[i + 1] /\ to_peer'[j] = to_peer[j + 1]
      BY <2>1
    <3> QED BY <2>3, <3>1, <3>2 DEF GotInv
  <2> QED BY <2>1, <2>2, <2>3
<1>3. CASE got' = got /\ to_peer # <<>> /\ to_peer' = Tail(to_peer)
  <2> QED BY <1>2, <1>3, <1>b DEF GotInv, Increasing, Among, IsPacket
<1>4. CASE PeerReceivePacket
  <2> PICK p : p = Head(to_peer).id
    OBVIOUS
  <2>1. /\ p \in 1 .. Len(sent) /\ to_peer # <<>> /\ to_peer' = Tail(to_peer) /\ sent' = sent
        /\ p = to_peer[1].id /\ IsPacket(to_peer[1])
        /\ \/ Among(p, got) /\ got' = got
           \/ ~Among(p, got) /\ got' = Append(got, p) /\ \A k \in 1 .. Len(got) : got[k] < p
    BY <1>4, GotLonger
  <2>2. CASE got' = got
    BY <1>3, <2>1, <2>2
  <2>3. CASE got' = Append(got, p) /\ \A k \in 1 .. Len(got) : got[k] < p
    <3>1. /\ got' \in Seq(Nat) /\ Len(got') = Len(got) + 1 /\ got'[Len(got) + 1] = p
          /\ \A k \in 1 .. Len(got) : got'[k] = got[k]
      <4>1. p \in Nat
        BY <1>0, <2>1
      <4> QED BY <1>0, <2>3, <4>1, AppendProperties
    <3>2. \A k \in 1 .. Len(got') : k \in 1 .. Len(got) \/ k = Len(got) + 1
      BY <1>0, <3>1
    <3>3. Increasing(got)'
      <4>1. got \in Seq(Int)
        BY <1>0, SeqMonotonic
      <4>2. p \in Int /\ Increasing(got)
        BY <1>0, <2>1 DEF GotInv
      <4>3. Increasing(Append(got, p))
        BY <2>3, <4>1, <4>2, IncreasingAppend
      <4> QED BY <2>3, <4>3 DEF Increasing
    <3>4. \A k \in 1 .. Len(got') : 1 <= got'[k] /\ got'[k] <= Len(sent')
      BY <1>b, <2>1, <3>1, <3>2
    <3>5. ASSUME NEW i \in 1 .. Len(to_peer'), IsPacket(to_peer'[i])
          PROVE  p <= to_peer'[i].id
      <4>1. /\ 1 < i + 1 /\ i + 1 \in 1 .. Len(to_peer) /\ to_peer'[i] = to_peer[i + 1]
            /\ 1 \in 1 .. Len(to_peer)
        BY <1>0, <1>2, <2>1
      <4> QED BY <2>1, <3>5, <4>1 DEF GotInv
    <3>6. \A i \in 1 .. Len(to_peer') : IsPacket(to_peer'[i]) =>
            \A k \in 1 .. Len(got') : got'[k] <= to_peer'[i].id
      <4> SUFFICES ASSUME NEW i \in 1 .. Len(to_peer'), IsPacket(to_peer'[i]),
                          NEW k \in 1 .. Len(got')
                   PROVE  got'[k] <= to_peer'[i].id
        OBVIOUS
      <4>1. CASE k \in 1 .. Len(got)
        BY <1>2, <2>1, <3>1, <4>1
      <4>2. CASE k = Len(got) + 1
        BY <3>1, <3>5, <4>2
      <4> QED BY <3>2, <4>1, <4>2
    <3>7. \A q : Among(q, got) => Among(q, got')
      BY <3>1, <3>2 DEF Among
    <3> QED BY <1>2, <2>1, <3>1, <3>3, <3>4, <3>6, <3>7 DEF GotInv, IsPacket
  <2> QED BY <2>1, <2>2, <2>3
<1>5. ASSUME got' = got, NEW f \in PeerFrame, to_peer' = Append(to_peer, f), Written(f)
      PROVE  GotInv' /\ \A p : Among(p, got) => Among(p, got')
  <2>1. /\ Len(to_peer') = Len(to_peer) + 1 /\ to_peer'[Len(to_peer) + 1] = f
        /\ \A i \in 1 .. Len(to_peer) : to_peer'[i] = to_peer[i]
    BY <1>0, <1>5, AppendProperties
  <2>2. \A i \in 1 .. Len(to_peer') : i \in 1 .. Len(to_peer) \/ i = Len(to_peer) + 1
    BY <1>0, <2>1
  <2>3. IsPacket(f) => f.id = Len(sent) /\ Len(sent) >= 1
    <3>1. sent # <<>> => Len(sent) >= 1
      BY EmptySeq DEF TypeInv, SendType
    <3> QED BY <1>5, <3>1 DEF Written, Packet, Ack, IsPacket
  <2>5. \A i \in 1 .. Len(to_peer') : IsPacket(to_peer'[i]) =>
          /\ 1 <= to_peer'[i].id /\ to_peer'[i].id <= Len(sent')
          /\ \A k \in 1 .. Len(got) : got[k] <= to_peer'[i].id
    <3>1. IsPacket(f) => \A k \in 1 .. Len(got) : got[k] <= f.id
      BY <2>3 DEF GotInv
    <3> QED BY <1>0, <1>b, <2>1, <2>2, <2>3, <3>1
  <2>6. ASSUME NEW i \in 1 .. Len(to_peer'), NEW j \in 1 .. Len(to_peer'), i < j,
               IsPacket(to_peer'[i]), IsPacket(to_peer'[j])
        PROVE  to_peer'[i].id <= to_peer'[j].id
    <3>1. i \in 1 .. Len(to_peer)
      BY <1>0, <2>1, <2>2, <2>6
    <3>2. CASE j \in 1 .. Len(to_peer)
      BY <2>1, <2>6, <3>1, <3>2 DEF GotInv
    <3>3. CASE j = Len(to_peer) + 1
      BY <2>1, <2>3, <2>6, <3>1, <3>3 DEF GotInv
    <3> QED BY <2>2, <3>2, <3>3
  <2> QED BY <1>5, <1>b, <2>5, <2>6 DEF GotInv, Increasing, Among, IsPacket
<1>6. CASE got' = got
  BY <1>1, <1>3, <1>5, <1>6, PeerLineMoves
<1> QED BY <1>4, <1>6, GotMoves

-----------------------------------------------------------------------------
(* Results of calls.                                                        *)

\* What a step does to the answers on their way to this end.
LEMMA FlagMoves ==
  ASSUME TypeInv, [Next]_vars, ~PeerReceivePacket
  PROVE  /\ \/ to_cli' = to_cli
            \/ to_cli # <<>> /\ to_cli' = Tail(to_cli)
            \/ \E i : to_cli' = Append(to_cli, Packet(i)) /\ Packet(i) \in CliFrame
         /\ \/ parse'.frm \in {parse.frm, Nack(0)}
            \/ to_cli # <<>> /\ parse'.frm = Head(to_cli)
         /\ \/ ~acked'
            \/ acked' = acked
            \/ acked' = (acked \/ parse.frm.id = Len(sent)) /\ parse.frm.what = "ack" /\ sent' = sent
<1>1. CASE Boot \/ StartFails \/ Undefined
  <2>1. parse'.frm = parse.frm
    BY <1>1 DEF Boot, StartFails, Undefined, UartInitialize, CreateList, ProtocolBusinessInit,
       RegisterHandlers, ChnlInit, ChnlInitFails, TypeInv, ParseType, ParseRec
  <2> QED BY <1>1, <2>1 DEF Boot, StartFails, Undefined, UartInitialize, CreateList, ProtocolBusinessInit,
     RegisterHandlers, ChnlInit, ChnlInitFails, BootUnchanged, lineVars, sendVars
<1>2. CASE Command \/ Relay \/ Work \/ SyscallReturns \/ UNCHANGED vars
  BY <1>2 DEF Command, Relay, RelayTake, RelayPass, RelayCrashes, RelayUnchanged, Work,
     WorkerTake, Reply, HandlerReturns, SyscallReturns, WorkUnchanged, vars, lineVars, sendVars, rxVars
<1>3. CASE \E t \in Sender : SenderStep(t)
  BY <1>3 DEF SenderStep, Begin, Write, Acked, Resend, GiveUp, Return, SendUnchanged, rxVars
<1>4. CASE FirstByte \/ ReadFrame
  BY <1>4 DEF FirstByte, ReadFrame, StartFrame, sendVars
<1>5. CASE Store \/ HandOver \/ StoreCrashes \/ NextByte \/ ProcessPacket \/ ProcessTornCrashes
  <2>1. parse'.frm = parse.frm
    BY <1>5 DEF Store, HandOver, StoreCrashes, NextByte, ProcessPacket, ProcessTornCrashes,
       rxVars, TypeInv, ParseType, ParseRec
  <2> QED BY <1>5, <2>1 DEF Store, HandOver, StoreCrashes, NextByte, ProcessPacket, ProcessTornCrashes,
       lineVars, sendVars
<1>6. CASE Ignore \/ ProcessTorn \/ Deliver
  BY <1>6 DEF Ignore, ProcessTorn, Deliver, FrameDone, Resting, lineVars, sendVars
<1>7. CASE ProcessAck
  BY <1>7 DEF ProcessAck, FrameDone, Resting, lineVars
<1>8. CASE Lose \/ PeerReceiveAck \/ PeerReceiveNack \/ PeerGiveUp
  BY <1>8 DEF Lose, PeerReceiveAck, PeerReceiveNack, PeerGiveUp, PeerTake, PeerUnchanged,
     rxVars, sendVars, lineVars
<1>9. CASE PeerSend \/ PeerResend
  <2>1. UNCHANGED <<parse, acked>>
    BY <1>9 DEF PeerSend, PeerResend, PeerUnchanged, rxVars, sendVars
  <2>2. PICK i \in Nat : ToCli(Packet(i)) /\ i <= MaxRequests /\ i > 0
    <3>1. Len(requests) \in Nat /\ Len(requests) <= MaxRequests
      BY DEF TypeInv, PeerType
    <3>2. CASE PeerSend
      BY <3>1, <3>2, BoundAssumption DEF PeerSend
    <3>3. CASE PeerResend
      <4>1. Len(requests) > 0
        BY <3>3, EmptySeq DEF PeerResend, PeerUnanswered, TypeInv, PeerType
      <4> QED BY <3>1, <3>3, <4>1 DEF PeerResend
    <3> QED BY <1>9, <3>2, <3>3
  <2>3. i \in 1 .. MaxRequests
    BY <2>2, BoundAssumption
  <2>4. Packet(i) \in CliFrame
    BY <2>3 DEF Packet, CliFrame
  <2> QED BY <2>1, <2>2, <2>4 DEF ToCli
<1> QED BY <1>1, <1>2, <1>3, <1>4, <1>5, <1>6, <1>7, <1>8, <1>9 DEF Next, Program, Parse, PeerStep

LEMMA NextFlagInv ==
  ASSUME TypeInv, TypeInv', GotInv, FlagInv, [Next]_vars
  PROVE  FlagInv'
<1>0. /\ to_cli \in Seq(CliFrame) /\ Len(to_cli) \in Nat
      /\ \A p : Among(p, got) => Among(p, got')
  BY NextGotInv DEF TypeInv, LineType
<1>1. \A i \in 1 .. Len(to_cli) : to_cli[i].what = "ack" => Among(to_cli[i].id, got')
  BY <1>0 DEF FlagInv
<1>2. to_cli # <<>> => 1 \in 1 .. Len(to_cli) /\ Head(to_cli) = to_cli[1]
  BY <1>0, EmptySeq
<1>3. ASSUME to_cli # <<>>, to_cli' = Tail(to_cli)
      PROVE  \A i \in 1 .. Len(to_cli') : to_cli'[i] = to_cli[i + 1] /\ i + 1 \in 1 .. Len(to_cli)
  BY <1>0, <1>3, HeadTailProperties
<1>4. ASSUME NEW f \in CliFrame, to_cli' = Append(to_cli, f), f.what = "ack" => Among(f.id, got')
      PROVE  \A i \in 1 .. Len(to_cli') : to_cli'[i].what = "ack" => Among(to_cli'[i].id, got')
  <2>1. /\ Len(to_cli') = Len(to_cli) + 1 /\ to_cli'[Len(to_cli) + 1] = f
        /\ \A i \in 1 .. Len(to_cli) : to_cli'[i] = to_cli[i]
    BY <1>0, <1>4, AppendProperties
  <2>2. \A i \in 1 .. Len(to_cli') : i \in 1 .. Len(to_cli) \/ i = Len(to_cli) + 1
    BY <1>0, <2>1
  <2> QED BY <1>1, <1>4, <2>1, <2>2
<1>5. acked' => Among(Len(sent), got)'
  <2>1. CASE acked' = acked /\ UNCHANGED <<sent, app_lock>>
    BY <1>0, <2>1 DEF FlagInv, Among
  <2>2. CASE Begins
    BY <2>2 DEF Begins, Begin
  <2>3. CASE Ends
    <3>1. Len(sent') = Len(sent) /\ acked' = acked
      BY <2>3, EndsFacts DEF Ends, Return
    <3> QED BY <1>0, <3>1 DEF FlagInv, Among
  <2>4. CASE acked' = (acked \/ parse.frm.id = Len(sent)) /\ parse.frm.what = "ack" /\ sent' = sent
    BY <1>0, <2>4 DEF FlagInv, Among
  <2>5. CASE PeerReceivePacket
    <3>1. UNCHANGED <<acked, sent, app_lock>>
      BY <2>5 DEF PeerReceivePacket, PeerTake, PeerUnchanged, sendVars
    <3> QED BY <2>1, <3>1
  <2> QED BY <2>1, <2>2, <2>3, <2>4, <2>5, FlagMoves, SentMoves
<1>6. CASE PeerReceivePacket
  <2> PICK p : p = Head(to_peer).id
    OBVIOUS
  <2>1. p \in Nat /\ Among(p, got')
    <3>1. /\ p \in 1 .. Len(sent)
          /\ \/ Among(p, got) /\ got' = got
             \/ got' = Append(got, p)
      BY <1>6, GotLonger
    <3>2. p \in Nat /\ got \in Seq(Nat)
      BY <3>1, SentGrows, GotTypes
    <3>3. CASE got' = Append(got, p)
      <4>1. got'[Len(got) + 1] = p /\ Len(got') = Len(got) + 1 /\ Len(got) \in Nat
        BY <3>2, <3>3, AppendProperties
      <4> QED BY <3>2, <4>1 DEF Among
    <3> QED BY <1>0, <3>1, <3>2, <3>3
  <2>2. UNCHANGED parse /\ (to_cli' = Append(to_cli, Ack(p)) \/ to_cli' = to_cli)
    BY <1>6 DEF PeerReceivePacket, ToCli, PeerTake, PeerUnchanged, rxVars
  <2>3. Ack(p) \in CliFrame /\ Ack(p).id = p
    BY <2>1 DEF Ack, CliFrame
  <2>4. parse'.frm.what = "ack" => Among(parse'.frm.id, got')
    BY <1>0, <2>2 DEF FlagInv
  <2> QED BY <1>1, <1>4, <1>5, <2>1, <2>2, <2>3, <2>4 DEF FlagInv, Among
<1>7. CASE ~PeerReceivePacket
  <2>1. \/ to_cli' = to_cli
        \/ to_cli # <<>> /\ to_cli' = Tail(to_cli)
        \/ \E i : to_cli' = Append(to_cli, Packet(i)) /\ Packet(i) \in CliFrame
    BY <1>7, FlagMoves
  <2>2. \/ parse'.frm \in {parse.frm, Nack(0)}
        \/ to_cli # <<>> /\ parse'.frm = Head(to_cli)
    BY <1>7, FlagMoves
  <2>3. \A i \in 1 .. Len(to_cli') : to_cli'[i].what = "ack" => Among(to_cli'[i].id, got')
    <3>1. \A i : Packet(i).what # "ack"
      BY DEF Packet
    <3> QED BY <1>1, <1>3, <1>4, <2>1, <3>1
  <2>4. parse'.frm.what = "ack" => Among(parse'.frm.id, got')
    <3>1. Nack(0).what # "ack"
      BY DEF Nack
    <3>2. parse.frm.what = "ack" => Among(parse.frm.id, got')
      BY <1>0 DEF FlagInv
    <3> QED BY <1>1, <1>2, <2>2, <3>1, <3>2
  <2> QED BY <1>5, <2>3, <2>4 DEF FlagInv, Among
<1> QED BY <1>6, <1>7

\* Only PeerSend begins a call of the peer, only PeerReceiveAck and PeerGiveUp
\* end one.
LEMMA PeerMoves ==
  ASSUME TypeInv, [Next]_vars
  PROVE  \/ UNCHANGED <<requests, peer.pc>>
         \/ PeerSend
         \/ peer.pc = "wait" /\ \E r \in {"acked", "timeout"} : PeerReturn(r)
<1>1. CASE Boot \/ StartFails \/ Undefined \/ Command \/ Relay \/ Work \/ SyscallReturns \/ UNCHANGED vars
  BY <1>1 DEF Boot, StartFails, Undefined, UartInitialize, CreateList, ProtocolBusinessInit,
     RegisterHandlers, ChnlInit, ChnlInitFails, BootUnchanged, Command, Relay, RelayTake, RelayPass, RelayCrashes,
     RelayUnchanged, Work, WorkerTake, Reply, HandlerReturns, SyscallReturns, WorkUnchanged, vars, peerVars
<1>2. CASE Parse
  BY <1>2 DEF Parse, FirstByte, ReadFrame, StartFrame, Store, HandOver, StoreCrashes, NextByte, Ignore,
     ProcessAck, ProcessPacket, ProcessTorn, ProcessTornCrashes, Deliver, ParseUnchanged, peerVars
<1>3. CASE \E t \in Sender : SenderStep(t)
  BY <1>3 DEF SenderStep, Begin, Write, Acked, Resend, GiveUp, Return, SendUnchanged, peerVars
<1>4. CASE PeerReceiveNack \/ PeerReceivePacket \/ Lose
  BY <1>4 DEF PeerReceiveNack, PeerReceivePacket, Lose, PeerTake, peerVars
<1>5. CASE PeerReceiveAck \/ PeerGiveUp
  BY <1>5 DEF PeerReceiveAck, PeerGiveUp, PeerUnanswered
<1>6. CASE PeerResend
  BY <1>6 DEF PeerResend, TypeInv, PeerType, PeerRec
<1> QED BY <1>1, <1>2, <1>3, <1>4, <1>5, <1>6 DEF Next, Program, PeerStep

LEMMA PeerEnds ==
  ASSUME TypeInv, NEW r \in {"acked", "timeout"}, peer.pc = "wait", PeerReturn(r)
  PROVE  /\ requests \in Seq(RequestRec) /\ Len(requests) \in Nat \ {0} /\ Len(requests') = Len(requests)
         /\ \A i \in 1 .. Len(requests) :
              requests'[i] = IF i = Len(requests) THEN [requests[i] EXCEPT !.res = r] ELSE requests[i]
         /\ peer'.pc = "rest"
<1>1. requests \in Seq(RequestRec) /\ requests # <<>>
  BY DEF TypeInv, PeerType
<1>2. Len(requests) \in 1 .. Len(requests) /\ requests[Len(requests)] \in RequestRec
  BY <1>1
<1>3. [requests[Len(requests)] EXCEPT !.res = r] \in RequestRec
  BY <1>2 DEF RequestRec, Result
<1>4. /\ requests' = [requests EXCEPT ![Len(requests)] = [requests[Len(requests)] EXCEPT !.res = r]]
      /\ peer'.pc = "rest"
  BY DEF PeerReturn
<1> QED BY <1>1, <1>2, <1>3, <1>4, ExceptSeq

LEMMA PeerSends ==
  ASSUME TypeInv, PeerSend
  PROVE  /\ requests \in Seq(RequestRec) /\ Len(requests) \in Nat
         /\ \E k \in Kind : LET new == [kind |-> k, res |-> "pending"] IN
              /\ new \in RequestRec /\ requests' = Append(requests, new)
              /\ Len(requests') = Len(requests) + 1
              /\ requests'[Len(requests) + 1] = new
         /\ peer.pc = "rest" /\ peer'.pc = "wait"
<1>1. PICK k \in Kinds : requests' = Append(requests, [kind |-> k, res |-> "pending"])
  BY DEF PeerSend
<1> DEFINE new == [kind |-> k, res |-> "pending"]
<1>2. requests \in Seq(RequestRec) /\ new \in RequestRec /\ k \in Kind
  BY KindAssumption DEF TypeInv, PeerType, RequestRec, Result
<1>3. peer.pc = "rest" /\ peer'.pc = "wait"
  BY DEF PeerSend
<1>4. requests' = Append(requests, new)
  BY <1>1
<1> HIDE DEF new
<1>5. Len(requests') = Len(requests) + 1 /\ requests'[Len(requests) + 1] = new /\ Len(requests) \in Nat
  BY <1>2, <1>4, AppendProperties
<1> QED BY <1>2, <1>3, <1>4, <1>5 DEF new

LEMMA NextPendingInv ==
  ASSUME TypeInv, PendingInv, [Next]_vars
  PROVE  PendingInv'
<1>1. IsPending(sent)' <=> app_lock' # None
  <2>1. CASE UNCHANGED <<sent, app_lock>>
    BY <2>1 DEF PendingInv, IsPending
  <2>2. CASE Begins
    <3>1. PICK t \in Sender : Begin(t)
      BY <2>2 DEF Begins
    <3>2. /\ Len(sent) \in Nat /\ Len(sent') = Len(sent) + 1
          /\ sent'[Len(sent) + 1].res = "pending" /\ app_lock' = t
      BY <3>1, BeginsFacts DEF Begin
    <3>3. sent' # <<>>
      BY <3>2
    <3> QED BY <3>2, <3>3, NoneHolds DEF IsPending
  <2>3. CASE Ends
    <3>1. PICK t \in Sender, r \in {"acked", "timeout"} : Holds(t) /\ Return(t, r)
      BY <2>3 DEF Ends
    <3>2. /\ sent \in Seq(SentRec) /\ Len(sent) \in Nat \ {0} /\ Len(sent') = Len(sent)
          /\ sent'[Len(sent)] = [sent[Len(sent)] EXCEPT !.res = r] /\ app_lock' = None
      <4>1. \A i \in 1 .. Len(sent) :
              sent'[i] = IF i = Len(sent) THEN [sent[i] EXCEPT !.res = r] ELSE sent[i]
        BY <3>1, EndsFacts
      <4>2. /\ sent \in Seq(SentRec) /\ Len(sent) \in Nat \ {0} /\ Len(sent') = Len(sent)
            /\ app_lock' = None
        BY <3>1, EndsFacts DEF Return
      <4> QED BY <4>1, <4>2
    <3>3. sent[Len(sent)] \in SentRec
      BY <3>2, ElementOfSeq
    <3>4. sent'[Len(sent')].res = r
      BY <3>2, <3>3 DEF SentRec
    <3> QED BY <3>2, <3>4 DEF IsPending
  <2> QED BY <2>1, <2>2, <2>3, SentMoves
<1>2. IsPending(requests)' <=> peer'.pc = "wait"
  <2>1. CASE UNCHANGED <<requests, peer.pc>>
    BY <2>1 DEF PendingInv, IsPending
  <2>2. CASE PeerSend
    <3>1. /\ Len(requests) \in Nat /\ Len(requests') = Len(requests) + 1
          /\ requests'[Len(requests) + 1].res = "pending" /\ peer'.pc = "wait"
      <4>1. PICK k \in Kind : /\ Len(requests') = Len(requests) + 1
                              /\ requests'[Len(requests) + 1] = [kind |-> k, res |-> "pending"]
        BY <2>2, PeerSends
      <4> QED BY <2>2, <4>1, PeerSends
    <3>2. requests' # <<>>
      BY <3>1
    <3> QED BY <3>1, <3>2 DEF IsPending
  <2>3. CASE peer.pc = "wait" /\ \E r \in {"acked", "timeout"} : PeerReturn(r)
    <3>1. PICK r \in {"acked", "timeout"} : PeerReturn(r)
      BY <2>3
    <3>2. /\ requests \in Seq(RequestRec) /\ Len(requests) \in Nat \ {0} /\ Len(requests') = Len(requests)
          /\ requests'[Len(requests)] = [requests[Len(requests)] EXCEPT !.res = r]
          /\ peer'.pc = "rest"
      BY <2>3, <3>1, PeerEnds
    <3>3. requests[Len(requests)] \in RequestRec
      BY <3>2, ElementOfSeq
    <3>4. requests'[Len(requests')].res = r
      BY <3>2, <3>3 DEF RequestRec
    <3> QED BY <3>2, <3>4 DEF IsPending
  <2> QED BY <2>1, <2>2, <2>3, PeerMoves
<1> QED BY <1>1, <1>2 DEF PendingInv

-----------------------------------------------------------------------------
(* The worker of the channel and its answers.                               *)

LEMMA NextRestInv ==
  ASSUME TypeInv, TakenInv, RestInv, [Next]_vars
  PROVE  RestInv'
<1>0. handled \in Seq(Packets) /\ worker \in WorkerRec
  BY DEF TakenInv, Packets, TypeInv, WorkType
<1>1. CASE WorkerTake
  <2>1. worker'.item = Head(list2) /\ Head(list2) \in Packets
    BY <1>0, <1>1, WorkerTakes DEF WorkerTake, RestInv
  <2>2. worker'.pc # "rest"
    BY <1>1 DEF WorkerTake, NetHelper, AsrBusiness, AudioControl, Handle
  <2> QED BY <2>1, <2>2, BoundAssumption DEF RestInv, Packets
<1>2. CASE HandlerReturns
  BY <1>0, <1>2 DEF HandlerReturns, RestInv, WorkerRec
<1>3. CASE Reply \/ SyscallReturns
  BY <1>0, <1>3 DEF Reply, Free, SyscallReturns, RestInv, WorkerRec
<1>4. ASSUME UNCHANGED worker PROVE RestInv'
  BY <1>4 DEF RestInv
<1>5. CASE Boot \/ StartFails \/ Undefined \/ Command \/ Relay \/ UNCHANGED vars
  BY <1>4, <1>5 DEF Boot, StartFails, Undefined, UartInitialize, CreateList, ProtocolBusinessInit,
     RegisterHandlers, ChnlInit, ChnlInitFails, BootUnchanged, Command, Relay, RelayTake, RelayPass, RelayCrashes,
     RelayUnchanged, vars, workVars
<1>6. CASE PeerSend \/ PeerStep \/ Lose
  BY <1>4, <1>6 DEF PeerSend, PeerStep, PeerReceiveAck, PeerReceiveNack, PeerReceivePacket,
     PeerTake, PeerResend, PeerGiveUp, Lose, PeerUnchanged, workVars
<1>7. CASE Parse
  BY <1>4, <1>7 DEF Parse, FirstByte, ReadFrame, StartFrame, Store, HandOver, StoreCrashes, NextByte, Ignore,
     ProcessAck, ProcessPacket, ProcessTorn, ProcessTornCrashes, Deliver, ParseUnchanged, workVars
<1>8. CASE \E t \in Sender : SenderStep(t)
  BY <1>4, <1>8 DEF SenderStep, Begin, Write, Acked, Resend, GiveUp, Return, SendUnchanged, workVars
<1> QED BY <1>1, <1>2, <1>3, <1>5, <1>6, <1>7, <1>8 DEF Next, Program, Work

\* A step that neither begins a call nor is one of the worker.
SentSame ==
  /\ Len(sent') = Len(sent)
  /\ \A i \in 1 .. Len(sent) :
       /\ sent'[i].by = sent[i].by /\ sent'[i].re = sent[i].re
       /\ sent'[i].part = sent[i].part /\ sent'[i].file = sent[i].file

CallQuiet(t) ==
  \/ call'[t] = call[t]
  \/ call[t].pc \in {"write", "wait"} /\ call'[t].pc \in {"write", "wait", "idle"}

WorkQuiet ==
  /\ UNCHANGED <<worker, file, handled>> /\ SentSame
  /\ CallQuiet("worker")
  /\ \/ UNCHANGED commands /\ CallQuiet("main")
     \/ Command

LEMMA WorkMoves ==
  ASSUME TypeInv, [Next]_vars
  PROVE  WorkerTake \/ SyscallReturns \/ Reply \/ HandlerReturns \/ Begins \/ WorkQuiet
<1>1. ASSUME UNCHANGED <<worker, file, handled, sent, call, commands>> PROVE WorkQuiet
  BY <1>1 DEF WorkQuiet, SentSame, CallQuiet
<1>2. CASE Boot \/ StartFails \/ Undefined \/ Relay \/ UNCHANGED vars
  BY <1>1, <1>2 DEF Boot, StartFails, Undefined, UartInitialize, CreateList, ProtocolBusinessInit,
     RegisterHandlers, ChnlInit, ChnlInitFails, BootUnchanged, Relay, RelayTake, RelayPass, RelayCrashes,
     RelayUnchanged, vars, workVars, sendVars, countVars
<1>3. CASE PeerSend \/ PeerStep \/ Lose
  BY <1>1, <1>3 DEF PeerSend, PeerStep, PeerReceiveAck, PeerReceiveNack, PeerReceivePacket,
     PeerTake, PeerResend, PeerGiveUp, Lose, PeerUnchanged, workVars, sendVars
<1>4. CASE Parse
  BY <1>1, <1>4 DEF Parse, FirstByte, ReadFrame, StartFrame, Store, HandOver, StoreCrashes, NextByte, Ignore,
     ProcessAck, ProcessPacket, ProcessTorn, ProcessTornCrashes, Deliver, ParseUnchanged,
     workVars, sendVars, countVars
<1>5. CASE Command
  <2>1. call'["worker"] = call["worker"]
    BY <1>5 DEF Command, TypeInv, SendType, Sender
  <2> QED BY <1>5, <2>1 DEF Command, WorkQuiet, SentSame, CallQuiet, workVars
<1>6. CASE \E t \in Sender : SenderStep(t)
  <2>1. PICK t \in Sender : SenderStep(t)
    BY <1>6
  <2>2. CASE Begin(t)
    BY <2>2 DEF Begins
  <2>3. CASE ~Begin(t)
    <3>1. UNCHANGED <<worker, file, handled, commands>>
      BY <2>1, <2>3 DEF SenderStep, Write, Acked, Resend, GiveUp, Return, SendUnchanged, workVars, countVars
    <3>2. SentSame
      <4>1. CASE Write(t) \/ Resend(t)
        BY <4>1 DEF Write, Resend, SentSame
      <4>2. CASE Acked(t) \/ GiveUp(t)
        <5>1. PICK r \in {"acked", "timeout"} : Return(t, r)
          BY <4>2 DEF Acked, GiveUp
        <5>2. Holds(t)
          BY <4>2 DEF Acked, GiveUp, Unanswered, Holds
        <5>3. /\ sent \in Seq(SentRec) /\ Len(sent') = Len(sent)
              /\ \A i \in 1 .. Len(sent) :
                   sent'[i] = IF i = Len(sent) THEN [sent[i] EXCEPT !.res = r] ELSE sent[i]
          BY <5>1, <5>2, EndsFacts
        <5>4. \A i \in 1 .. Len(sent) : sent[i] \in SentRec
          BY <5>3, ElementOfSeq
        <5> QED BY <5>3, <5>4 DEF SentSame, SentRec
      <4> QED BY <2>1, <2>3, <4>1, <4>2 DEF SenderStep
    <3>3. \A u \in Sender : CallQuiet(u)
      BY <2>1, <2>3 DEF SenderStep, Write, Acked, Resend, GiveUp, Unanswered, Return, NoCall,
         TypeInv, SendType, CallRec, CallQuiet
    <3> QED BY <3>1, <3>2, <3>3 DEF WorkQuiet, Sender
  <2> QED BY <2>2, <2>3
<1> QED BY <1>2, <1>3, <1>4, <1>5, <1>6 DEF Next, Program, Work

LEMMA FirstBehind ==
  ASSUME NEW a \in Seq(Int), NEW b \in Seq(Int), b # <<>>, Increasing(a \o b)
  PROVE  \A k \in 1 .. Len(a) : a[k] < b[1]
<1>1. Len(a) \in Nat /\ Len(b) \in Nat \ {0}
  BY EmptySeq
<1>2. /\ Len(a \o b) = Len(a) + Len(b)
      /\ \A i \in 1 .. Len(a) + Len(b) :
           (a \o b)[i] = IF i <= Len(a) THEN a[i] ELSE b[i - Len(a)]
  BY ConcatProperties
<1> TAKE k \in 1 .. Len(a)
<1>3. k \in 1 .. Len(a \o b) /\ Len(a) + 1 \in 1 .. Len(a \o b) /\ k < Len(a) + 1
  BY <1>1, <1>2
<1>4. (a \o b)[k] = a[k] /\ (a \o b)[Len(a) + 1] = b[1]
  BY <1>1, <1>2, <1>3
<1> QED BY <1>3, <1>4 DEF Increasing

\* What the channel's worker holds or takes next is younger than all handled.
LEMMA NextIsNew ==
  ASSUME TypeInv, TakenInv, NEW e \in Packets,
         \/ worker.item # 0 /\ e = worker.item
         \/ worker.item = 0 /\ list2 # <<>> /\ e = Head(list2)
  PROVE  ~Among(e, handled) /\ \A k \in 1 .. Len(handled) : handled[k] < e
<1> DEFINE f == WorkerHas \o list2
           b == f \o RelayHas \o list1
<1>1. /\ handled \in Seq(Packets) /\ WorkerHas \in Seq(Packets) /\ list2 \in Seq(Packets)
      /\ RelayHas \in Seq(Packets) /\ list1 \in Seq(Packets)
  BY TakenTypes DEF TakenInv, Packets
<1>2. f \in Seq(Packets) /\ f \o RelayHas \in Seq(Packets) /\ b \in Seq(Packets)
  BY <1>1, ConcatProperties
<1>3. f # <<>> /\ f[1] = e
  <2>1. CASE worker.item # 0 /\ e = worker.item
    <3>1. WorkerHas = <<e>>
      BY <2>1 DEF WorkerHas
    <3>2. Len(<<e>>) = 1 /\ <<e>>[1] = e /\ Len(list2) \in Nat
      BY <1>1
    <3>3. Len(f) = 1 + Len(list2) /\ f[1] = e
      BY <1>1, <3>1, <3>2, ConcatProperties
    <3> QED BY <3>2, <3>3
  <2>2. CASE worker.item = 0 /\ list2 # <<>> /\ e = Head(list2)
    <3>1. WorkerHas = <<>>
      BY <2>2 DEF WorkerHas
    <3>2. f = list2
      BY <1>1, <3>1, ConcatEmptySeq
    <3> QED BY <1>1, <2>2, <3>2
  <2> QED BY <2>1, <2>2
<1>4. b # <<>> /\ b[1] = e
  <2>1. Len(f) \in Nat \ {0} /\ Len(RelayHas) \in Nat /\ Len(list1) \in Nat
    BY <1>1, <1>2, <1>3, EmptySeq
  <2>2. Len(f \o RelayHas) = Len(f) + Len(RelayHas) /\ (f \o RelayHas)[1] = f[1]
    BY <1>1, <1>2, <2>1, ConcatProperties
  <2>3. Len(b) = Len(f \o RelayHas) + Len(list1) /\ b[1] = (f \o RelayHas)[1]
    BY <1>1, <1>2, <2>1, <2>2, ConcatProperties
  <2> QED BY <1>3, <2>1, <2>2, <2>3
<1>5. Increasing(handled \o b)
  BY DEF TakenInv, Taken
<1> HIDE DEF b
<1>6. handled \in Seq(Int) /\ b \in Seq(Int)
  <2>1. Packets \subseteq Int
    BY DEF Packets
  <2> QED BY <1>1, <1>2, <2>1, SeqMonotonic
<1>7. \A k \in 1 .. Len(handled) : handled[k] < e
  BY <1>4, <1>5, <1>6, FirstBehind
<1>8. \A k \in 1 .. Len(handled) : handled[k] \in Int
  BY <1>6, ElementOfSeq
<1>9. e \in Int
  BY DEF Packets
<1> QED BY <1>7, <1>8, <1>9 DEF Among

\* The answers that a handler has to send are told apart.
LEMMA TodosDiffer ==
  /\ <<"ack">> # <<"end">> /\ <<"answer">> # <<"end">> /\ <<"ack", "end">> # <<"end">>
  /\ <<"ack">> # <<"ack", "end">> /\ <<"answer">> # <<"ack", "end">>
  /\ <<"ack">> # <<>> /\ <<"answer">> # <<>> /\ <<"end">> # <<>> /\ <<"ack", "end">> # <<>>
<1>1. /\ Len(<<"ack">>) = 1 /\ Len(<<"answer">>) = 1 /\ Len(<<"end">>) = 1
      /\ Len(<<"ack", "end">>) = 2 /\ Len(<<>>) = 0
  OBVIOUS
<1>2. <<"ack">>[1] = "ack" /\ <<"answer">>[1] = "answer" /\ <<"end">>[1] = "end"
  OBVIOUS
<1>3. <<"ack">> # <<"end">> /\ <<"answer">> # <<"end">>
  BY <1>2
<1> QED BY <1>1, <1>3

LEMMA TodoEnds ==
  /\ Head(<<"ack", "end">>) = "ack" /\ Tail(<<"ack", "end">>) = <<"end">>
  /\ Head(<<"end">>) = "end" /\ Tail(<<"end">>) = <<>>
  /\ Head(<<"ack">>) = "ack" /\ Tail(<<"ack">>) = <<>>
  /\ Head(<<"answer">>) = "answer" /\ Tail(<<"answer">>) = <<>>
OBVIOUS

LEMMA SameAnswers ==
  ASSUME SentSame, Len(sent) \in Nat
  PROVE  /\ \A p : NoAnswer(p) => NoAnswer(p)'
         /\ \A p : OnlyAck(p) => OnlyAck(p)'
BY DEF SentSame, NoAnswer, OnlyAck

LEMMA QuietKeepsReply ==
  ASSUME TypeInv, ReplyInv, WorkQuiet
  PROVE  ReplyInv'
<1> DEFINE c == call["worker"]
<1>1. Len(sent) \in Nat
  BY DEF TypeInv, SendType
<1>2. /\ NoAnswer(worker.item) => NoAnswer(worker.item)'
      /\ OnlyAck(worker.item) => OnlyAck(worker.item)'
  <2> PICK p : p = worker.item
    OBVIOUS
  <2>1. worker'.item = p /\ SentSame
    BY DEF WorkQuiet
  <2>2. (NoAnswer(p) => NoAnswer(p)') /\ (OnlyAck(p) => OnlyAck(p)')
    BY <1>1, <2>1, SameAnswers
  <2>3. (NoAnswer(p)' => NoAnswer(worker.item)') /\ (OnlyAck(p)' => OnlyAck(worker.item)')
    BY <2>1 DEF NoAnswer, OnlyAck
  <2> QED BY <2>2, <2>3
<1>3. \A i \in 1 .. Len(sent') : sent'[i].by = "worker" =>
        \/ Among(sent'[i].re, handled')
        \/ sent'[i].re = worker'.item /\ worker'.item # 0
  BY <1>1 DEF WorkQuiet, SentSame, ReplyInv
<1>4. CASE call'["worker"] = c
  BY <1>2, <1>3, <1>4 DEF WorkQuiet, ReplyInv
<1>5. CASE c.pc \in {"write", "wait"} /\ call'["worker"].pc \in {"write", "wait", "idle"}
  <2>1. c.pc # "idle" /\ c.pc # "lock" /\ call'["worker"].pc # "lock"
    BY <1>5
  <2>2. worker' = worker /\ file' = file
    BY DEF WorkQuiet
  <2>3. worker.pc # "rest" /\ worker.todo \in {<<"end">>, <<>>}
    BY <2>1 DEF ReplyInv
  <2> QED BY <1>2, <1>3, <2>1, <2>2, <2>3 DEF ReplyInv
<1> QED BY <1>4, <1>5 DEF WorkQuiet, CallQuiet

\* The main thread sends a command.
LEMMA CommandKeepsReply ==
  ASSUME TypeInv, ReplyInv, Begin("main")
  PROVE  ReplyInv'
<1>0. "main" \in Sender /\ "worker" \in Sender
  BY DEF Sender
<1>1. /\ Len(sent) \in Nat /\ Len(sent') = Len(sent) + 1
      /\ \A i \in 1 .. Len(sent) : sent'[i] = sent[i]
      /\ sent'[Len(sent) + 1].by = "main"
  <2>1. /\ Len(sent) \in Nat /\ Len(sent') = Len(sent) + 1
        /\ \A i \in 1 .. Len(sent) : sent'[i] = sent[i]
    BY <1>0, BeginsFacts
  <2>2. sent'[Len(sent) + 1].by = "main"
    <3>1. sent'[Len(sent) + 1] = [by |-> "main", re |-> call["main"].re, part |-> call["main"].part,
                                  file |-> call["main"].file, res |-> "pending"]
      BY <1>0, BeginsFacts
    <3> QED BY <3>1
  <2> QED BY <2>1, <2>2
<1>2. \A i \in 1 .. Len(sent') : i \in 1 .. Len(sent) \/ i = Len(sent) + 1
  BY <1>1
<1>3. UNCHANGED <<worker, file, handled>> /\ call'["worker"] = call["worker"]
  BY DEF Begin, SendUnchanged, workVars, TypeInv, SendType, Sender
<1>4. /\ NoAnswer(worker.item) => NoAnswer(worker.item)'
      /\ OnlyAck(worker.item) => OnlyAck(worker.item)'
  BY <1>1, <1>2, <1>3 DEF NoAnswer, OnlyAck
<1>5. \A i \in 1 .. Len(sent') : sent'[i].by = "worker" =>
        \/ Among(sent'[i].re, handled')
        \/ sent'[i].re = worker'.item /\ worker'.item # 0
  BY <1>1, <1>2, <1>3 DEF ReplyInv
<1> QED BY <1>3, <1>4, <1>5 DEF ReplyInv

\* The worker sends an answer.
LEMMA AnswerKeepsReply ==
  ASSUME TypeInv, RestInv, ReplyInv, Begin("worker")
  PROVE  ReplyInv'
<1> DEFINE c == call["worker"]
<1>0. "worker" \in Sender /\ c.pc = "lock"
  BY DEF Sender, Begin
<1>1. /\ Len(sent) \in Nat /\ Len(sent') = Len(sent) + 1
      /\ \A i \in 1 .. Len(sent) : sent'[i] = sent[i]
  BY <1>0, BeginsFacts
<1>2. /\ sent'[Len(sent) + 1].by = "worker" /\ sent'[Len(sent) + 1].re = c.re
      /\ sent'[Len(sent) + 1].part = c.part
  <2>1. sent'[Len(sent) + 1] = [by |-> "worker", re |-> c.re, part |-> c.part,
                                file |-> c.file, res |-> "pending"]
    BY <1>0, BeginsFacts
  <2> QED BY <2>1
<1>3. \A i \in 1 .. Len(sent') : i \in 1 .. Len(sent) \/ i = Len(sent) + 1
  BY <1>1
<1>4. UNCHANGED <<worker, file, handled>> /\ call'["worker"].pc = "write"
  BY DEF Begin, SendUnchanged, workVars, TypeInv, SendType, CallRec, Sender
<1>5. c.re = worker.item /\ worker.pc # "rest" /\ worker.item # 0
  BY <1>0 DEF ReplyInv, RestInv
<1>6. \A i \in 1 .. Len(sent') : sent'[i].by = "worker" =>
        \/ Among(sent'[i].re, handled')
        \/ sent'[i].re = worker'.item /\ worker'.item # 0
  BY <1>1, <1>2, <1>3, <1>4, <1>5 DEF ReplyInv
<1>7. worker.todo \in {<<"end">>, <<>>}
  BY <1>0 DEF ReplyInv
<1>8. worker.todo = <<"end">> => OnlyAck(worker.item)'
  <2> SUFFICES ASSUME worker.todo = <<"end">> PROVE OnlyAck(worker.item)'
    OBVIOUS
  <2>1. c.part = "ack" /\ NoAnswer(worker.item)
    BY <1>0 DEF ReplyInv
  <2>2. Len(sent) + 1 \in 1 .. Len(sent')
    BY <1>1
  <2> QED BY <1>1, <1>2, <1>3, <1>4, <1>5, <2>1, <2>2 DEF NoAnswer, OnlyAck
<1>9. call'["worker"].pc # "lock"
  BY <1>4
<1> QED BY <1>4, <1>5, <1>6, <1>7, <1>8, <1>9 DEF ReplyInv

LEMMA TakeKeepsReply ==
  ASSUME TypeInv, TakenInv, RestInv, ReplyInv, WorkerTake
  PROVE  ReplyInv'
<1> PICK e : e = Head(list2)
  OBVIOUS
<1>1. worker.pc = "rest" /\ worker.item = 0 /\ call["worker"].pc = "idle" /\ list2 # <<>>
  BY DEF WorkerTake, RestInv, ReplyInv
<1>2. e \in Packets /\ worker'.item = e
  BY <1>1, WorkerTakes DEF TakenInv, Packets
<1>3. UNCHANGED <<handled, call, sent>>
  BY DEF WorkerTake, WorkUnchanged
<1>4. \A i \in 1 .. Len(sent) : sent[i].by = "worker" => Among(sent[i].re, handled)
  BY <1>1 DEF ReplyInv
<1>5. ~Among(e, handled)
  BY <1>1, <1>2, NextIsNew
<1>6. NoAnswer(e)
  BY <1>4, <1>5 DEF NoAnswer
<1>7. NoAnswer(worker.item)'
  BY <1>2, <1>3, <1>6 DEF NoAnswer
<1>8. /\ worker'.pc # "rest"
      /\ \/ worker'.todo \in {<<"ack">>, <<"answer">>, <<>>}
         \/ worker'.todo = <<"ack", "end">> /\ file' = e
  <2>1. NetHelper(e) \/ AsrBusiness(e) \/ AudioControl(e)
    BY DEF WorkerTake
  <2>2. CASE NetHelper(e) \/ AsrBusiness(e)
    BY <2>2 DEF NetHelper, AsrBusiness, Handle
  <2>3. CASE AudioControl(e)
    <3>1. /\ requests[e].kind \in {"start", "stop"} /\ worker'.todo = Answers(requests[e].kind)
          /\ worker'.pc = "reply" /\ (requests[e].kind = "start" => file' = e)
      BY <2>3 DEF AudioControl, Handle
    <3> QED BY <3>1 DEF Answers
  <2> QED BY <2>1, <2>2, <2>3
<1>9. call'["worker"].pc = "idle" /\ worker'.todo # <<"end">>
  BY <1>1, <1>3, <1>8, TodosDiffer
<1> QED BY <1>2, <1>3, <1>4, <1>7, <1>8, <1>9, TodosDiffer DEF ReplyInv

LEMMA ReplyKeepsReply ==
  ASSUME TypeInv, ReplyInv, Reply
  PROVE  ReplyInv'
<1> DEFINE c == call["worker"]
           d == call'["worker"]
<1>1. c.pc = "idle" /\ worker.pc = "reply" /\ worker.todo # <<>>
  BY DEF Reply, Free
<1>2. /\ d.pc = "lock" /\ d.re = worker.item /\ d.part = Head(worker.todo) /\ d.file = file
  <2>1. call' = [call EXCEPT !["worker"] =
                 [pc |-> "lock", re |-> worker.item, part |-> Head(worker.todo),
                  file |-> file, left |-> 0]]
    BY DEF Reply
  <2>2. call \in [Sender -> CallRec] /\ "worker" \in Sender
    BY DEF TypeInv, SendType, Sender
  <2>3. d = [pc |-> "lock", re |-> worker.item, part |-> Head(worker.todo),
             file |-> file, left |-> 0]
    BY <2>1, <2>2
  <2> QED BY <2>3
<1>3. /\ worker'.pc = "reply" /\ worker'.item = worker.item /\ worker'.todo = Tail(worker.todo)
      /\ UNCHANGED <<file, handled, sent>>
  BY <1>1 DEF Reply, WorkUnchanged, TypeInv, WorkType, WorkerRec
<1>4. worker.todo \in {<<"ack", "end">>, <<"end">>, <<"ack">>, <<"answer">>}
  BY <1>1 DEF ReplyInv
<1>5. /\ NoAnswer(worker.item) => NoAnswer(worker.item)'
      /\ OnlyAck(worker.item) => OnlyAck(worker.item)'
  BY <1>3 DEF NoAnswer, OnlyAck
<1>6. \A i \in 1 .. Len(sent') : sent'[i].by = "worker" =>
        \/ Among(sent'[i].re, handled')
        \/ sent'[i].re = worker'.item /\ worker'.item # 0
  BY <1>3 DEF ReplyInv
<1>7. CASE worker.todo = <<"ack", "end">>
  <2>1. d.part = "ack" /\ worker'.todo = <<"end">>
    BY <1>2, <1>3, <1>7, TodoEnds
  <2>2. NoAnswer(worker.item) /\ file = worker.item
    <3>1. worker.todo \notin {<<"end">>, <<>>}
      BY <1>7, TodosDiffer
    <3> QED BY <1>7, <3>1 DEF ReplyInv
  <2> QED BY <1>2, <1>3, <1>5, <1>6, <2>1, <2>2, TodosDiffer DEF ReplyInv
<1>8. CASE worker.todo = <<"end">>
  <2>1. d.part = "end" /\ worker'.todo = <<>>
    BY <1>2, <1>3, <1>8, TodoEnds
  <2>2. OnlyAck(worker.item) /\ file = worker.item
    BY <1>1, <1>8 DEF ReplyInv
  <2> QED BY <1>2, <1>3, <1>5, <1>6, <2>1, <2>2, TodosDiffer DEF ReplyInv
<1>9. CASE worker.todo \in {<<"ack">>, <<"answer">>}
  <2>1. d.part \in {"ack", "answer"} /\ worker'.todo = <<>>
    BY <1>2, <1>3, <1>9, TodoEnds
  <2>2. NoAnswer(worker.item)
    <3>1. worker.todo \notin {<<"end">>, <<>>}
      BY <1>9, TodosDiffer
    <3> QED BY <3>1 DEF ReplyInv
  <2> QED BY <1>2, <1>3, <1>5, <1>6, <2>1, <2>2, TodosDiffer DEF ReplyInv
<1> QED BY <1>4, <1>7, <1>8, <1>9

LEMMA ReturnKeepsReply ==
  ASSUME TypeInv, TakenInv, RestInv, ReplyInv, HandlerReturns \/ SyscallReturns
  PROVE  ReplyInv'
<1>1. CASE SyscallReturns
  <2>1. /\ worker'.pc = "reply" /\ worker'.item = worker.item /\ worker'.todo = worker.todo
        /\ UNCHANGED <<file, handled, sent, call>> /\ worker.pc # "rest"
    BY <1>1 DEF SyscallReturns, WorkUnchanged, TypeInv, WorkType, WorkerRec
  <2>2. /\ NoAnswer(worker.item) => NoAnswer(worker.item)'
        /\ OnlyAck(worker.item) => OnlyAck(worker.item)'
    BY <2>1 DEF NoAnswer, OnlyAck
  <2> QED BY <2>1, <2>2 DEF ReplyInv
<1>2. CASE HandlerReturns
  <2>1. /\ worker'.pc = "rest" /\ worker'.item = 0 /\ worker'.todo = <<>>
        /\ UNCHANGED <<file, sent, call>> /\ call["worker"].pc = "idle"
        /\ handled' = Append(handled, worker.item)
    BY <1>2 DEF HandlerReturns, Free, WorkUnchanged, TypeInv, WorkType, WorkerRec
  <2>2. handled \in Seq(Packets) /\ worker.item \in Packets
    BY <1>2, BoundAssumption DEF HandlerReturns, Free, TakenInv, RestInv, Packets, TypeInv,
       WorkType, WorkerRec, Request
  <2>3. /\ Len(handled') = Len(handled) + 1 /\ handled'[Len(handled) + 1] = worker.item
        /\ \A i \in 1 .. Len(handled) : handled'[i] = handled[i]
        /\ Len(handled) \in Nat
    BY <2>1, <2>2, AppendProperties
  <2>4. \A p : Among(p, handled) \/ p = worker.item => Among(p, handled')
    BY <2>3 DEF Among
  <2>5. \A i \in 1 .. Len(sent') : sent'[i].by = "worker" => Among(sent'[i].re, handled')
    BY <2>1, <2>4 DEF ReplyInv
  <2> QED BY <2>1, <2>5 DEF ReplyInv
<1> QED BY <1>1, <1>2

LEMMA NextReplyInv ==
  ASSUME TypeInv, TakenInv, RestInv, ReplyInv, [Next]_vars
  PROVE  ReplyInv'
BY WorkMoves, QuietKeepsReply, CommandKeepsReply, AnswerKeepsReply, TakeKeepsReply,
   ReplyKeepsReply, ReturnKeepsReply DEF Begins, Sender

\* What AnswersInOrder says of the answers sent[i] and sent[j].
LEMMA NextAnswersInOrder ==
  ASSUME TypeInv, TakenInv, RestInv, ReplyInv, AnswersInOrder, [Next]_vars
  PROVE  AnswersInOrder'
<1>0. Len(sent) \in Nat
  BY DEF TypeInv, SendType
<1>1. CASE SentSame
  BY <1>0, <1>1 DEF SentSame, AnswersInOrder
<1>2. CASE WorkerTake \/ SyscallReturns \/ Reply \/ HandlerReturns
  <2>1. sent' = sent
    BY <1>2 DEF WorkerTake, SyscallReturns, Reply, HandlerReturns, WorkUnchanged
  <2> QED BY <2>1 DEF AnswersInOrder
<1>3. CASE Begins
  <2> PICK n : n = Len(sent) + 1
    OBVIOUS
  <2>1. PICK t \in Sender : Begin(t)
    BY <1>3 DEF Begins
  <2>a. /\ Len(sent') = Len(sent) + 1
        /\ \A i \in 1 .. Len(sent) : sent'[i] = sent[i]
    BY <2>1, BeginsFacts
  <2>2. /\ Len(sent') = n /\ n \in Nat
        /\ \A i \in 1 .. Len(sent) : sent'[i] = sent[i]
    BY <1>0, <2>a
  <2>3. sent'[n] = [by |-> t, re |-> call[t].re, part |-> call[t].part,
                    file |-> call[t].file, res |-> "pending"]
    BY <2>1, BeginsFacts
  <2>4. \A i \in 1 .. n : i \in 1 .. Len(sent) \/ i = n
    BY <1>0, <2>2
  <2>5. \A i, j \in 1 .. Len(sent) :
          sent'[j].by = "worker" =>
            /\ i < j /\ sent'[i].by = "worker" =>
                 \/ sent'[i].re < sent'[j].re
                 \/ sent'[i].re = sent'[j].re /\ sent'[i].part = "ack" /\ sent'[j].part = "end"
            /\ sent'[j].part = "end" =>
                 /\ sent'[j].file = sent'[j].re
                 /\ \E k \in 1 .. j - 1 : sent'[k].re = sent'[j].re /\ sent'[k].part = "ack"
    <3>1. \A j \in 1 .. Len(sent) : \A k \in 1 .. j - 1 : k \in 1 .. Len(sent)
      BY <1>0
    <3> QED BY <2>2, <3>1 DEF AnswersInOrder
  <2>6. ASSUME sent'[n].by = "worker"
        PROVE  /\ \A i \in 1 .. Len(sent) : sent'[i].by = "worker" =>
                    \/ sent'[i].re < sent'[n].re
                    \/ sent'[i].re = sent'[n].re /\ sent'[i].part = "ack" /\ sent'[n].part = "end"
               /\ sent'[n].part = "end" =>
                    /\ sent'[n].file = sent'[n].re
                    /\ \E k \in 1 .. n - 1 : sent'[k].re = sent'[n].re /\ sent'[k].part = "ack"
    <3> PICK c : c = call["worker"]
      OBVIOUS
    <3> PICK e : e = worker.item
      OBVIOUS
    <3>1. t = "worker" /\ c.pc = "lock"
      BY <2>1, <2>3, <2>6 DEF Begin
    <3>2. /\ sent'[n].re = c.re /\ sent'[n].part = c.part /\ sent'[n].file = c.file
      BY <2>3, <3>1
    <3>3. c.re = e /\ c.part \in {"answer", "ack", "end"} /\ e # 0
      BY <3>1 DEF ReplyInv, RestInv
    <3>4. e \in Packets
      BY <3>3, BoundAssumption DEF TypeInv, WorkType, WorkerRec, Request, Packets
    <3>5. \A k \in 1 .. Len(handled) : handled[k] < e
      BY <3>3, <3>4, NextIsNew
    <3>6. \A i \in 1 .. Len(sent) : sent[i].by = "worker" => sent[i].re < e \/ sent[i].re = e
      BY <3>5 DEF ReplyInv, Among
    <3>7. CASE c.part # "end"
      <4>1. NoAnswer(e)
        BY <3>1, <3>7 DEF ReplyInv
      <4> QED BY <2>2, <3>2, <3>3, <3>6, <3>7, <4>1 DEF NoAnswer
    <3>8. CASE c.part = "end"
      <4>1. c.file = e /\ OnlyAck(e)
        BY <3>1, <3>8 DEF ReplyInv
      <4>2. \A k \in 1 .. Len(sent) : k \in 1 .. n - 1
        BY <1>0, <2>2
      <4>3. \A i \in 1 .. Len(sent) : sent'[i].by = "worker" =>
              sent'[i].re < e \/ (sent'[i].re = e /\ sent'[i].part = "ack")
        BY <2>2, <3>6, <4>1 DEF OnlyAck
      <4>4. \E k \in 1 .. n - 1 : sent'[k].re = e /\ sent'[k].part = "ack"
        BY <2>2, <4>1, <4>2 DEF OnlyAck
      <4> QED BY <3>2, <3>3, <3>8, <4>1, <4>3, <4>4
    <3> QED BY <3>7, <3>8
  <2>7. \A i \in 1 .. n : i < n => i \in 1 .. Len(sent)
    BY <1>0, <2>2, <2>4
  <2>8. \A j \in 1 .. Len(sent) : j < n
    BY <1>0
  <2> SUFFICES ASSUME NEW i \in 1 .. Len(sent'), NEW j \in 1 .. Len(sent'), sent'[j].by = "worker"
               PROVE  /\ i < j /\ sent'[i].by = "worker" =>
                           \/ sent'[i].re < sent'[j].re
                           \/ sent'[i].re = sent'[j].re /\ sent'[i].part = "ack" /\ sent'[j].part = "end"
                      /\ sent'[j].part = "end" =>
                           /\ sent'[j].file = sent'[j].re
                           /\ \E k \in 1 .. j - 1 : sent'[k].re = sent'[j].re /\ sent'[k].part = "ack"
    BY DEF AnswersInOrder
  <2>9. CASE j = n
    BY <2>2, <2>6, <2>7, <2>9
  <2>10. CASE j \in 1 .. Len(sent)
    <3>1. CASE i \in 1 .. Len(sent)
      BY <2>5, <2>10, <3>1
    <3>2. CASE i = n
      <4>1. ~(i < j)
        BY <1>0, <2>2, <2>10, <3>2
      <4> QED BY <2>5, <2>10, <4>1
    <3> QED BY <2>2, <2>4, <3>1, <3>2
  <2> QED BY <2>2, <2>4, <2>9, <2>10
<1> QED BY <1>1, <1>2, <1>3, WorkMoves DEF WorkQuiet

-----------------------------------------------------------------------------
(* The invariant of the queues and of the answers.                          *)

FlowInv ==
  /\ TypeInv /\ TakenInv /\ ComingInv /\ AckedInv /\ GotInv /\ FlagInv /\ PendingInv
  /\ RestInv /\ ReplyInv /\ AnswersInOrder

LEMMA InitFlowInv == Init => FlowInv
<1> SUFFICES ASSUME Init PROVE FlowInv
  OBVIOUS
<1>1. TypeInv
  BY InitTypeInv
<1>2. TakenInv /\ Taken = <<>>
  <2>1. handled = <<>> /\ WorkerHas = <<>> /\ list2 = <<>> /\ RelayHas = <<>> /\ list1 = <<>> /\ last = 0
    BY DEF Init, WorkerHas, RelayHas
  <2>2. Taken = <<>>
    <3>1. <<>> \in Seq(Packets)
      OBVIOUS
    <3> QED BY <2>1, <3>1, ConcatEmptySeq DEF Taken
  <2> QED BY <2>1, <2>2 DEF TakenInv, Increasing
<1>3. to_cli = <<>> /\ to_peer = <<>> /\ got = <<>> /\ sent = <<>> /\ requests = <<>>
  BY DEF Init
<1>4. parse.frm.what = "nack" /\ last = 0 /\ acked = FALSE
  BY DEF Init, Resting, Nack
<1>5. ComingInv
  BY <1>3, <1>4 DEF ComingInv, IsPacket
<1>6. AckedInv /\ GotInv /\ FlagInv
  BY <1>3, <1>4 DEF AckedInv, GotInv, FlagInv, Increasing
<1>7. PendingInv
  BY <1>3 DEF Init, PendingInv, IsPending
<1>8. worker.pc = "rest" /\ worker.item = 0 /\ worker.todo = <<>> /\ call["worker"].pc = "idle"
  BY DEF Init, NoCall, Sender
<1>9. RestInv /\ ReplyInv
  BY <1>3, <1>8, TodosDiffer DEF RestInv, ReplyInv
<1>10. AnswersInOrder
  BY <1>3 DEF AnswersInOrder
<1> QED BY <1>1, <1>2, <1>5, <1>6, <1>7, <1>9, <1>10 DEF FlowInv

LEMMA NextFlowInv == FlowInv /\ [Next]_vars => FlowInv'
<1> SUFFICES ASSUME FlowInv, [Next]_vars PROVE FlowInv'
  OBVIOUS
<1> USE DEF FlowInv
<1>1. TypeInv'
  BY NextTypeInv
<1>2. TakenInv' /\ RestInv'
  BY NextTakenInv, NextRestInv
<1>3. ComingInv' /\ FlagInv'
  BY <1>1, NextComingInv, NextFlagInv
<1>4. AckedInv' /\ GotInv' /\ PendingInv'
  BY NextAckedInv, NextGotInv, NextPendingInv
<1>5. ReplyInv' /\ AnswersInOrder'
  BY NextReplyInv, NextAnswersInOrder
<1> QED BY <1>1, <1>2, <1>3, <1>4, <1>5

LEMMA AlwaysFlowInv == Spec => []FlowInv
BY InitFlowInv, NextFlowInv, PTL DEF Spec

\* The answers of the services (net_helper and audio_control handlers, on the
\* worker of the channel) leave in the order of the requests, each once, and
\* the end of a start follows its own answer and names its own file.
THEOREM CliAnswersInOrder == Spec => []AnswersInOrder
<1>1. FlowInv => AnswersInOrder
  BY DEF FlowInv
<1> QED BY <1>1, AlwaysFlowInv, PTL

-----------------------------------------------------------------------------
(* The refinement of CommService.                                           *)

\* The packet that thread t waits to send.
Locked(t) == IF call[t].pc = "lock" THEN 1 ELSE 0

\* A command is one packet, and a packet of the peer has at most two answers.
CountInv ==
  /\ commands \in 0 .. MaxCommands
  /\ worker.todo # <<>> => worker.item # 0
  /\ Len(sent) + Locked("main") + Locked("worker")
       + Len(worker.todo)
     <= commands + 2 * (Len(handled) + Len(WorkerHas))

LEMMA CountTypes ==
  ASSUME TypeInv, TakenInv
  PROVE  /\ Len(sent) \in Nat /\ Len(worker.todo) \in Nat /\ Len(handled) \in Nat
         /\ Len(WorkerHas) \in {0, 1} /\ Locked("main") \in {0, 1} /\ Locked("worker") \in {0, 1}
<1>1. sent \in Seq(SentRec) /\ worker.todo \in Seq(Part) /\ handled \in Seq(1 .. MaxRequests)
  BY DEF TypeInv, SendType, WorkType, WorkerRec, TakenInv
<1>2. Len(WorkerHas) \in {0, 1}
  BY DEF WorkerHas
<1>3. Locked("main") \in {0, 1} /\ Locked("worker") \in {0, 1}
  BY DEF Locked
<1> QED BY <1>1, <1>2, <1>3

\* The inequality of CountInv, by itself.
LEMMA CountKept ==
  ASSUME NEW s \in Nat, NEW m \in {0, 1}, NEW w \in {0, 1}, NEW t \in Nat, NEW c \in Nat,
         NEW h \in Nat, NEW i \in {0, 1}, s + m + w + t <= c + 2 * (h + i),
         NEW s1 \in Nat, NEW m1 \in {0, 1}, NEW w1 \in {0, 1}, NEW t1 \in Nat, NEW c1 \in Nat,
         NEW h1 \in Nat, NEW i1 \in {0, 1},
         (s1 + m1 + w1 + t1) - (s + m + w + t) <= (c1 - c) + 2 * ((h1 + i1) - (h + i))
  PROVE  s1 + m1 + w1 + t1 <= c1 + 2 * (h1 + i1)
OBVIOUS

LEMMA AnswersCounted ==
  \A k \in {"start", "stop"} : Len(Answers(k)) <= 2
<1>1. Answers("start") = <<"ack", "end">> /\ Answers("stop") = <<"ack">>
  BY DEF Answers
<1>2. Len(<<"ack", "end">>) <= 2 /\ Len(<<"ack">>) <= 2
  OBVIOUS
<1>3. Len(Answers("start")) <= 2 /\ Len(Answers("stop")) <= 2
  BY <1>1, <1>2
<1> QED BY <1>3

LEMMA NextCountInv ==
  ASSUME FlowInv, FlowInv', CountInv, [Next]_vars
  PROVE  CountInv'
<1> USE DEF FlowInv
<1>0. /\ Len(sent) \in Nat /\ Len(worker.todo) \in Nat /\ Len(handled) \in Nat
      /\ Len(WorkerHas) \in {0, 1} /\ Locked("main") \in {0, 1} /\ Locked("worker") \in {0, 1}
  BY CountTypes
<1>1. /\ Len(sent') \in Nat /\ Len(worker'.todo) \in Nat /\ Len(handled') \in Nat
      /\ Len(WorkerHas') \in {0, 1} /\ Locked("main")' \in {0, 1} /\ Locked("worker")' \in {0, 1}
  <2>1. sent' \in Seq(SentRec) /\ worker'.todo \in Seq(Part) /\ handled' \in Seq(1 .. MaxRequests)
    BY DEF TypeInv, SendType, WorkType, WorkerRec, TakenInv
  <2> QED BY <2>1 DEF WorkerHas, Locked
<1>2. call \in [Sender -> CallRec] /\ commands \in Nat /\ commands <= MaxCommands /\ MaxCommands \in Nat
  BY BoundAssumption DEF CountInv, TypeInv, SendType
\* The terms of the inequality before and after the step.
<1> PICK s, m, w, td, h, i : s = Len(sent) /\ m = Locked("main") /\ w = Locked("worker")
           /\ td = Len(worker.todo) /\ h = Len(handled) /\ i = Len(WorkerHas)
  OBVIOUS
<1> PICK s1, m1, w1, td1, h1, i1 : s1 = Len(sent') /\ m1 = Locked("main")' /\ w1 = Locked("worker")'
           /\ td1 = Len(worker'.todo) /\ h1 = Len(handled') /\ i1 = Len(WorkerHas')
  OBVIOUS
<1>3. s + m + w + td <= commands + 2 * (h + i)
  BY DEF CountInv
<1>4. ASSUME commands' \in Nat, commands' <= MaxCommands, worker'.todo # <<>> => worker'.item # 0,
             (s1 + m1 + w1 + td1) - (s + m + w + td) <= (commands' - commands) + 2 * ((h1 + i1) - (h + i))
      PROVE  CountInv'
  <2> PICK c, c1 : c = commands /\ c1 = commands'
    OBVIOUS
  <2>1. /\ s \in Nat /\ m \in {0, 1} /\ w \in {0, 1} /\ td \in Nat /\ h \in Nat /\ i \in {0, 1}
        /\ s1 \in Nat /\ m1 \in {0, 1} /\ w1 \in {0, 1} /\ td1 \in Nat /\ h1 \in Nat
        /\ i1 \in {0, 1} /\ c \in Nat /\ c1 \in Nat
    BY <1>0, <1>1, <1>2, <1>4
  <2>2. s + m + w + td <= c + 2 * (h + i)
    BY <1>3
  <2>3. (s1 + m1 + w1 + td1) - (s + m + w + td) <= (c1 - c) + 2 * ((h1 + i1) - (h + i))
    BY <1>4
  <2>4. s1 + m1 + w1 + td1 <= c1 + 2 * (h1 + i1)
    BY ONLY <2>1, <2>2, <2>3, CountKept
  <2> QED BY <1>2, <1>4, <2>4 DEF CountInv
<1>5. CASE WorkerTake
  <2>1. worker.pc = "rest" /\ worker.item = 0 /\ worker.todo = <<>>
    BY <1>5 DEF WorkerTake, RestInv, ReplyInv
  <2>2. worker'.item # 0
    <3>1. handled \in Seq(Packets)
      BY DEF TakenInv, Packets
    <3>2. worker'.item = Head(list2) /\ Head(list2) \in Packets
      BY <1>5, <2>1, <3>1, WorkerTakes
    <3> QED BY <3>2 DEF Packets
  <2>3. td1 <= 2
    <3> PICK todo : todo = worker'.todo
      OBVIOUS
    <3>1. todo = <<>> \/ todo = <<"answer">> \/ \E k \in {"start", "stop"} : todo = Answers(k)
      BY <1>5 DEF WorkerTake, NetHelper, AsrBusiness, AudioControl, Handle
    <3>2. CASE todo = <<>>
      BY <3>2
    <3>3. CASE todo = <<"answer">>
      BY <3>3
    <3>4. CASE \E k \in {"start", "stop"} : todo = Answers(k)
      BY <3>4, AnswersCounted
    <3> QED BY <3>1, <3>2, <3>3, <3>4
  <2>4. UNCHANGED <<sent, call, handled, commands>>
    BY <1>5 DEF WorkerTake, WorkUnchanged, countVars
  <2>5. i = 0 /\ i1 = 1 /\ td = 0
    BY <2>1, <2>2 DEF WorkerHas
  <2>6. s1 = s /\ m1 = m /\ w1 = w /\ h1 = h
    BY <2>4 DEF Locked
  <2> QED BY <1>0, <1>1, <1>2, <1>4, <2>2, <2>3, <2>4, <2>5, <2>6
<1>6. CASE Reply
  <2>1. worker.todo # <<>> /\ worker.todo \in Seq(Part)
    BY <1>6 DEF Reply, TypeInv, WorkType, WorkerRec
  <2>2. td1 = td - 1 /\ worker'.item = worker.item
    <3>1. worker' = [worker EXCEPT !.todo = Tail(worker.todo)]
      BY <1>6 DEF Reply
    <3>2. Len(Tail(worker.todo)) = Len(worker.todo) - 1
      BY <2>1
    <3> QED BY <3>1, <3>2 DEF TypeInv, WorkType, WorkerRec
  <2>3. UNCHANGED <<sent, handled, commands>>
    BY <1>6 DEF Reply, WorkUnchanged, countVars
  <2>4. call'["worker"].pc = "lock" /\ call["worker"].pc = "idle" /\ call'["main"] = call["main"]
    BY <1>6, <1>2 DEF Reply, Free, Sender
  <2>5. s1 = s /\ m1 = m /\ w1 = 1 /\ w = 0 /\ h1 = h /\ i1 = i
    BY <2>2, <2>3, <2>4 DEF WorkerHas, Locked
  <2>6. worker.item # 0
    BY <2>1 DEF CountInv
  <2> QED BY <1>0, <1>1, <1>2, <1>4, <2>2, <2>3, <2>5, <2>6
<1>7. CASE HandlerReturns
  <2>1. worker.todo = <<>> /\ worker.item # 0 /\ worker'.item = 0 /\ worker'.todo = <<>>
    BY <1>7 DEF HandlerReturns, Free, RestInv, TypeInv, WorkType, WorkerRec
  <2>2. UNCHANGED <<sent, call, commands>>
    BY <1>7 DEF HandlerReturns, WorkUnchanged, countVars
  <2>3. h1 = h + 1
    BY <1>7 DEF HandlerReturns, TakenInv
  <2>4. i = 1 /\ i1 = 0 /\ td = td1
    BY <2>1 DEF WorkerHas
  <2>5. s1 = s /\ m1 = m /\ w1 = w
    BY <2>2 DEF Locked
  <2> QED BY <1>0, <1>1, <1>2, <1>4, <2>1, <2>2, <2>3, <2>4, <2>5
<1>8. CASE Begins
  <2>1. PICK t \in Sender : Begin(t)
    BY <1>8 DEF Begins
  <2>2. s1 = s + 1
    BY <2>1, BeginsFacts
  <2>3. UNCHANGED <<worker, handled, commands>>
    BY <2>1 DEF Begin, SendUnchanged, workVars, countVars
  <2>4. /\ call[t].pc = "lock" /\ call'[t].pc = "write"
        /\ \A u \in Sender \ {t} : call'[u] = call[u]
    BY <2>1, <1>2 DEF Begin, CallRec
  <2>5. h1 = h /\ i1 = i /\ td1 = td
    BY <2>3 DEF WorkerHas
  <2>6. m1 + w1 = m + w - 1
    BY <2>4 DEF Locked, Sender
  <2> QED BY <1>0, <1>1, <1>2, <1>4, <2>2, <2>3, <2>5, <2>6 DEF CountInv
<1>9. CASE SyscallReturns
  <2>1. UNCHANGED <<sent, call, handled, commands>> /\ worker'.todo = worker.todo /\ worker'.item = worker.item
    BY <1>9 DEF SyscallReturns, WorkUnchanged, countVars, TypeInv, WorkType, WorkerRec
  <2> QED BY <2>1 DEF CountInv, WorkerHas, Locked
<1>10. CASE WorkQuiet
  <2>1. UNCHANGED <<worker, handled>> /\ s1 = s /\ i1 = i /\ h1 = h /\ td1 = td
    BY <1>10 DEF WorkQuiet, SentSame, WorkerHas
  <2>2. w1 <= w
    BY <1>10 DEF WorkQuiet, CallQuiet, Locked
  <2>3. CASE UNCHANGED commands /\ CallQuiet("main")
    <3>1. m1 <= m
      BY <2>3 DEF CallQuiet, Locked
    <3> QED BY <1>0, <1>1, <1>2, <1>4, <2>1, <2>2, <2>3, <3>1 DEF CountInv
  <2>4. CASE Command
    <3>1. commands < MaxCommands /\ commands' = commands + 1
      BY <2>4 DEF Command
    <3>2. commands' \in Nat /\ commands' <= MaxCommands /\ commands' - commands = 1
      BY <1>2, <3>1
    <3>3. worker'.todo # <<>> => worker'.item # 0
      BY <2>1 DEF CountInv
    <3>4. (s1 + m1 + w1 + td1) - (s + m + w + td) <= 1
      BY <1>0, <1>1, <2>1, <2>2
    <3>5. (commands' - commands) + 2 * ((h1 + i1) - (h + i)) = 1
      BY <1>0, <1>2, <2>1, <3>1
    <3>6. (s1 + m1 + w1 + td1) - (s + m + w + td) <= (commands' - commands) + 2 * ((h1 + i1) - (h + i))
      BY <3>4, <3>5
    <3> QED BY <1>4, <3>2, <3>3, <3>6
  <2> QED BY <1>10, <2>3, <2>4 DEF WorkQuiet
<1> QED BY <1>5, <1>6, <1>7, <1>8, <1>9, <1>10, WorkMoves

LEMMA InitCountInv == Init => CountInv
<1> SUFFICES ASSUME Init PROVE CountInv
  OBVIOUS
<1>1. /\ sent = <<>> /\ handled = <<>> /\ worker.item = 0 /\ worker.todo = <<>> /\ commands = 0
      /\ \A t \in Sender : call[t].pc = "idle"
  BY DEF Init, NoCall
<1>2. Len(WorkerHas) = 0
  BY <1>1 DEF WorkerHas
<1> QED BY <1>1, <1>2, BoundAssumption DEF CountInv, Locked, Sender

\* What is not in the bounds of a run can be sent by nobody.
LEMMA CallsBounded ==
  ASSUME FlowInv, CountInv
  PROVE  /\ Len(sent) <= MaxCommands + 2 * MaxRequests
         /\ \A t \in Sender : call[t].pc = "lock" => Len(sent) < MaxCommands + 2 * MaxRequests
<1> USE DEF FlowInv
<1>0. /\ Len(sent) \in Nat /\ Len(worker.todo) \in Nat /\ Len(handled) \in Nat
      /\ Len(WorkerHas) \in {0, 1} /\ Locked("main") \in {0, 1} /\ Locked("worker") \in {0, 1}
  BY CountTypes
<1>1. Len(handled) + Len(WorkerHas) <= Len(Taken)
  <2>1. /\ handled \in Seq(Packets) /\ WorkerHas \in Seq(Packets) /\ list2 \in Seq(Packets)
        /\ RelayHas \in Seq(Packets) /\ list1 \in Seq(Packets)
    BY TakenTypes DEF TakenInv, Packets
  <2>2. Len(Taken) = Len(handled) + (Len(WorkerHas) + Len(list2) + Len(RelayHas) + Len(list1))
    BY <2>1, ConcatProperties DEF Taken
  <2> QED BY <2>1, <2>2
<1>2. Len(Taken) <= MaxRequests /\ Len(Taken) \in Nat /\ MaxRequests \in Nat /\ MaxCommands \in Nat
  <2>1. Taken \in Seq(Packets)
    BY TakenTypes DEF TakenInv, Packets
  <2> QED BY <2>1, BoundAssumption DEF TakenInv, TypeInv, ParseType, Request
<1>3. commands \in Nat /\ commands <= MaxCommands
  BY <1>2 DEF CountInv
<1> PICK s, m, w, td, h, i, c : s = Len(sent) /\ m = Locked("main") /\ w = Locked("worker")
           /\ td = Len(worker.todo) /\ h = Len(handled) /\ i = Len(WorkerHas) /\ c = commands
  OBVIOUS
<1>4. s + m + w + td <= c + 2 * (h + i)
  BY DEF CountInv
<1>5. h + i <= MaxRequests
  BY <1>0, <1>1, <1>2
<1>6. s + m + w <= MaxCommands + 2 * MaxRequests
  BY <1>0, <1>2, <1>3, <1>4, <1>5
<1>7. \A t \in Sender : call[t].pc = "lock" => m + w >= 1
  BY <1>0 DEF Locked, Sender
<1> QED BY <1>0, <1>2, <1>6, <1>7

\* A log of CommService, and how it follows a history of packets.
Entry == [rel : BOOLEAN, res : Result]

LEMMA EntryEnds ==
  ASSUME NEW e \in Entry, NEW r \in Result
  PROVE  [e EXCEPT !.res = r] = [rel |-> e.rel, res |-> r]
BY DEF Entry

LEMMA VerdictsFacts ==
  ASSUME NEW S, NEW s \in Seq(S), \A i \in 1 .. Len(s) : s[i].res \in Result
  PROVE  /\ Verdicts(s) \in Seq(Entry) /\ Len(Verdicts(s)) = Len(s) /\ Len(s) \in Nat
         /\ \A i \in 1 .. Len(s) : Verdicts(s)[i] = [rel |-> TRUE, res |-> s[i].res]
<1>1. \A i \in 1 .. Len(s) : [rel |-> TRUE, res |-> s[i].res] \in Entry
  BY DEF Entry
<1> QED BY <1>1 DEF Verdicts

\* A packet is submitted.
LEMMA VerdictsAppend ==
  ASSUME NEW S, NEW s \in Seq(S), \A i \in 1 .. Len(s) : s[i].res \in Result,
         NEW t \in Seq(S), \A i \in 1 .. Len(t) : t[i].res \in Result,
         Len(t) = Len(s) + 1, \A i \in 1 .. Len(s) : t[i].res = s[i].res,
         t[Len(s) + 1].res = "pending"
  PROVE  Verdicts(t) = Append(Verdicts(s), [rel |-> TRUE, res |-> "pending"])
<1> DEFINE e == [rel |-> TRUE, res |-> "pending"]
           u == Append(Verdicts(s), e)
<1>1. e \in Entry
  BY DEF Entry, Result
<1>2. /\ Verdicts(s) \in Seq(Entry) /\ Len(Verdicts(s)) = Len(s) /\ Len(s) \in Nat
      /\ \A i \in 1 .. Len(s) : Verdicts(s)[i] = [rel |-> TRUE, res |-> s[i].res]
  BY VerdictsFacts
<1>3. /\ Verdicts(t) \in Seq(Entry) /\ Len(Verdicts(t)) = Len(t)
      /\ \A i \in 1 .. Len(t) : Verdicts(t)[i] = [rel |-> TRUE, res |-> t[i].res]
  BY VerdictsFacts
<1> HIDE DEF e
<1>4. /\ u \in Seq(Entry) /\ Len(u) = Len(s) + 1 /\ u[Len(s) + 1] = e
      /\ \A i \in 1 .. Len(s) : u[i] = Verdicts(s)[i]
  BY <1>1, <1>2, AppendProperties
<1>5. ASSUME NEW i \in 1 .. Len(t) PROVE Verdicts(t)[i] = u[i]
  <2>1. CASE i \in 1 .. Len(s)
    BY <1>2, <1>3, <1>4, <2>1
  <2>2. CASE i = Len(s) + 1
    BY <1>3, <1>4, <2>2 DEF e
  <2> QED BY <1>2, <2>1, <2>2
<1> HIDE DEF u
<1>6. Verdicts(t) = u
  BY <1>3, <1>4, <1>5, SeqEqual
<1> QED BY <1>6 DEF u, e

\* A call returns.
LEMMA VerdictsEnd ==
  ASSUME NEW S, NEW s \in Seq(S), \A i \in 1 .. Len(s) : s[i].res \in Result,
         NEW t \in Seq(S), \A i \in 1 .. Len(t) : t[i].res \in Result,
         Len(t) = Len(s), s # <<>>, NEW r \in Result,
         \A i \in 1 .. Len(s) : t[i].res = IF i = Len(s) THEN r ELSE s[i].res
  PROVE  Verdicts(t) = [Verdicts(s) EXCEPT ![Len(Verdicts(s))].res = r]
<1> DEFINE v == Verdicts(s)
           n == Len(s)
           e == [v[n] EXCEPT !.res = r]
           u == [v EXCEPT ![n] = e]
<1>1. /\ v \in Seq(Entry) /\ Len(v) = n /\ n \in Nat /\ n \in 1 .. n
      /\ \A i \in 1 .. n : v[i] = [rel |-> TRUE, res |-> s[i].res]
  BY VerdictsFacts
<1>2. /\ Verdicts(t) \in Seq(Entry) /\ Len(Verdicts(t)) = n
      /\ \A i \in 1 .. n : Verdicts(t)[i] = [rel |-> TRUE, res |-> t[i].res]
  BY VerdictsFacts
<1>3. e = [rel |-> TRUE, res |-> r] /\ e \in Entry
  <2>1. v[n] = [rel |-> TRUE, res |-> s[n].res]
    BY <1>1
  <2> HIDE DEF v
  <2>2. e = [rel |-> TRUE, res |-> r]
    <3>1. v[n] \in Entry
      BY <1>1, ElementOfSeq
    <3>2. e = [rel |-> v[n].rel, res |-> r]
      BY <3>1, EntryEnds
    <3> QED BY <2>1, <3>2
  <2> HIDE DEF e
  <2> QED BY <2>2 DEF Entry
<1> HIDE DEF e, v
<1>4. /\ u \in Seq(Entry) /\ Len(u) = n /\ u[n] = e
      /\ \A i \in 1 .. n : i # n => u[i] = v[i]
  BY <1>1, <1>3, ExceptSeq
<1>5. ASSUME NEW i \in 1 .. n PROVE Verdicts(t)[i] = u[i]
  <2>1. Verdicts(t)[i] = [rel |-> TRUE, res |-> t[i].res]
    BY <1>2
  <2>2. CASE i = n
    BY <1>3, <1>4, <2>1, <2>2
  <2>3. CASE i # n
    <3>1. u[i] = v[i] /\ v[i] = [rel |-> TRUE, res |-> s[i].res]
      BY <1>1, <1>4, <2>3
    <3> QED BY <2>1, <2>3, <3>1
  <2> QED BY <2>2, <2>3
<1> HIDE DEF u
<1>6. Verdicts(t) = u
  BY <1>1, <1>2, <1>4, <1>5, SeqEqual
<1> QED BY <1>1, <1>6 DEF u, e, v

-----------------------------------------------------------------------------
(* Steps of CommService.                                                    *)

LEMMA Stutters ==
  ASSUME \A n \in Node : SubmittedBy(n)' = SubmittedBy(n), \A n \in Node : TakenFrom(n)' = TakenFrom(n)
  PROVE  UNCHANGED Service!vars
BY DEF Service!vars

LEMMA Submits ==
  ASSUME NEW n \in Node, Len(SubmittedBy(n)) < MostCalls(n), ~Service!InProgress(n),
         SubmittedBy(n)' = Append(SubmittedBy(n), [rel |-> TRUE, res |-> "pending"]),
         \A m \in Node \ {n} : SubmittedBy(m)' = SubmittedBy(m),
         \A m \in Node : TakenFrom(m)' = TakenFrom(m)
  PROVE  Service!Next
<1>1. Service!Submit(n)
  BY DEF Service!Submit
<1> QED BY <1>1 DEF Service!Next

LEMMA Delivers ==
  ASSUME NEW n \in Node, NEW p \in 1 .. MostCalls(n), p <= Len(SubmittedBy(n)),
         \A i \in 1 .. Len(TakenFrom(n)) : TakenFrom(n)[i] < p,
         TakenFrom(n)' = Append(TakenFrom(n), p),
         \A m \in Node \ {n} : TakenFrom(m)' = TakenFrom(m),
         \A m \in Node : SubmittedBy(m)' = SubmittedBy(m)
  PROVE  Service!Next
<1>1. Service!Deliver(n, p)
  BY DEF Service!Deliver
<1> QED BY <1>1 DEF Service!Next

LEMMA Concludes ==
  ASSUME NEW n \in Node, NEW r \in {"acked", "timeout"}, Service!InProgress(n),
         SubmittedBy(n)[Len(SubmittedBy(n))].rel,
         r = "acked" => Service!IsReceived(n, Len(SubmittedBy(n))),
         SubmittedBy(n)' = [SubmittedBy(n) EXCEPT ![Len(SubmittedBy(n))].res = r],
         \A m \in Node \ {n} : SubmittedBy(m)' = SubmittedBy(m),
         \A m \in Node : TakenFrom(m)' = TakenFrom(m)
  PROVE  Service!Next
<1>1. Service!End(n, r)
  BY DEF Service!End
<1>2. Service!Succeed(n) \/ Service!GiveUp(n)
  BY <1>1 DEF Service!Succeed, Service!GiveUp
<1> QED BY <1>2 DEF Service!Next

-----------------------------------------------------------------------------
(* What is taken from the peer.                                             *)

\* The packet in the parse thread's hand, unless it is a duplicate.
DeliverHas == IF parse.pc = "deliver" /\ ~IsDuplicate(parse.frm.id) THEN <<parse.frm.id>> ELSE <<>>

LEMMA Regroup ==
  ASSUME NEW S, NEW h \in Seq(S), NEW x \in Seq(S), NEW e \in Seq(S)
  PROVE  h \o (x \o e) = (h \o x) \o e
BY ConcatAssociative

LEMMA DeliverHasType == TypeInv => DeliverHas \in Seq(Packets)
<1>1. TypeInv /\ parse.pc = "deliver" => parse.frm.id \in Packets
  BY DEF TypeInv, ParseType, ParseRec, CliFrame, Nack, Packets
<1> QED BY <1>1 DEF DeliverHas

LEMMA TakenFromPeer ==
  ASSUME TypeInv, TakenInv, TypeInv', TakenInv'
  PROVE  /\ TakenFrom("peer") = Taken \o DeliverHas
         /\ TakenFrom("peer")' = Taken' \o DeliverHas'
         /\ Taken \in Seq(Packets) /\ Taken' \in Seq(Packets)
         /\ DeliverHas \in Seq(Packets) /\ DeliverHas' \in Seq(Packets)
<1>1. /\ handled \in Seq(Packets) /\ WorkerHas \in Seq(Packets) /\ list2 \in Seq(Packets)
      /\ RelayHas \in Seq(Packets) /\ list1 \in Seq(Packets) /\ Taken \in Seq(Packets)
  BY TakenTypes DEF TakenInv, Packets
<1>2. DeliverHas \in Seq(Packets)
  BY DeliverHasType
<1>3. TakenFrom("peer") = handled \o (WorkerHas \o list2 \o RelayHas \o list1 \o DeliverHas)
  BY DEF TakenFrom, InHand, WorkerHas, RelayHas, DeliverHas
<1>4. TakenFrom("peer") = Taken \o DeliverHas
  <2> PICK h, x, d : h = handled /\ x = WorkerHas \o list2 \o RelayHas \o list1 /\ d = DeliverHas
    OBVIOUS
  <2>1. h \in Seq(Packets) /\ x \in Seq(Packets) /\ d \in Seq(Packets)
    BY <1>1, <1>2, ConcatProperties
  <2>2. h \o (x \o d) = (h \o x) \o d
    BY ONLY <2>1, Regroup
  <2> QED BY <1>3, <2>2 DEF Taken
<1>5. /\ handled' \in Seq(Packets) /\ list2' \in Seq(Packets) /\ list1' \in Seq(Packets)
      /\ WorkerHas' \in Seq(Packets) /\ RelayHas' \in Seq(Packets)
  <2>1. handled' \in Seq(Packets) /\ list2' \in Seq(Packets) /\ list1' \in Seq(Packets)
    BY DEF TakenInv, TypeInv, QueueType, Packets
  <2>2. WorkerHas' \in Seq(Packets)
    <3>1. worker'.item \in Request
      BY DEF TypeInv, WorkType, WorkerRec
    <3>2. worker'.item # 0 => worker'.item \in Packets
      BY <3>1, BoundAssumption DEF Request, Packets
    <3> QED BY <3>2 DEF WorkerHas
  <2>3. RelayHas' \in Seq(Packets)
    <3>1. relay' # 0 => relay' \in Packets
      BY BoundAssumption DEF TypeInv, QueueType, Request, Packets
    <3> QED BY <3>1 DEF RelayHas
  <2> QED BY <2>1, <2>2, <2>3
<1>6. DeliverHas' \in Seq(Packets)
  <2>1. parse'.pc = "deliver" => parse'.frm.id \in Packets
    BY DEF TypeInv, ParseType, ParseRec, CliFrame, Nack, Packets
  <2> QED BY <2>1 DEF DeliverHas
<1>7. TakenFrom("peer")' = handled' \o (WorkerHas' \o list2' \o RelayHas' \o list1' \o DeliverHas')
  BY DEF TakenFrom, InHand, WorkerHas, RelayHas, DeliverHas
<1>8. TakenFrom("peer")' = Taken' \o DeliverHas'
  <2> PICK h, x, d : h = handled' /\ x = WorkerHas' \o list2' \o RelayHas' \o list1' /\ d = DeliverHas'
    OBVIOUS
  <2>1. h \in Seq(Packets) /\ x \in Seq(Packets) /\ d \in Seq(Packets)
    BY <1>5, <1>6, ConcatProperties
  <2>2. h \o (x \o d) = (h \o x) \o d
    BY ONLY <2>1, Regroup
  <2> QED BY <1>7, <2>2 DEF Taken
<1>9. Taken' \in Seq(Packets)
  BY <1>5, ConcatProperties DEF Taken
<1> QED BY <1>1, <1>2, <1>4, <1>6, <1>8, <1>9

\* Only ProcessPacket and Deliver change what the parse thread has in hand.
LEMMA ParseKept ==
  ASSUME TypeInv, [Next]_vars, ~ProcessPacket, ~Deliver
  PROVE  /\ parse'.pc = "deliver" <=> parse.pc = "deliver"
         /\ parse.pc = "deliver" => parse'.frm = parse.frm
<1>1. CASE parse' = parse
  BY <1>1
<1>2. CASE ProtocolBusinessInit
  <2> DEFINE torn == parse.pc \in {"store", "between"}
  <2>1. parse' = [parse EXCEPT !.torn = torn]
    BY <1>2 DEF ProtocolBusinessInit
  <2> HIDE DEF torn
  <2> QED BY <2>1 DEF TypeInv, ParseType, ParseRec
<1>3. CASE Parse
  <2>1. parse.pc # "deliver"
    BY <1>3 DEF Parse, FirstByte, ReadFrame, StartFrame, Store, HandOver, StoreCrashes, NextByte,
       Ignore, ProcessAck, ProcessTorn, ProcessTornCrashes, Process
  <2>2. parse'.pc # "deliver"
    <3>1. CASE FirstByte \/ ReadFrame
      BY <3>1 DEF FirstByte, ReadFrame, StartFrame
    <3>2. CASE Store \/ HandOver \/ NextByte
      BY <3>2 DEF Store, HandOver, NextByte, TypeInv, ParseType, ParseRec
    <3>3. CASE Ignore \/ ProcessAck \/ ProcessTorn
      BY <3>3 DEF Ignore, ProcessAck, ProcessTorn, FrameDone, Resting
    <3>4. CASE StoreCrashes \/ ProcessTornCrashes
      BY <2>1, <3>4 DEF StoreCrashes, ProcessTornCrashes, rxVars
    <3> QED BY <1>3, <3>1, <3>2, <3>3, <3>4 DEF Parse
  <2> QED BY <2>1, <2>2
<1>4. CASE StartFails \/ Undefined \/ Command \/ UNCHANGED vars \/ (Boot /\ ~ProtocolBusinessInit)
  BY <1>1, <1>4 DEF StartFails, Undefined, Command, vars, Boot, UartInitialize, CreateList, RegisterHandlers,
     ChnlInit, ChnlInitFails, rxVars
<1>5. CASE Relay \/ Work \/ SyscallReturns
  BY <1>1, <1>5 DEF Relay, RelayTake, RelayPass, RelayCrashes, RelayUnchanged, Work, WorkerTake, Reply,
     HandlerReturns, SyscallReturns, WorkUnchanged, rxVars
<1>6. CASE PeerSend \/ PeerStep \/ Lose
  BY <1>1, <1>6 DEF PeerSend, PeerStep, PeerReceiveAck, PeerReceiveNack, PeerReceivePacket,
     PeerTake, PeerResend, PeerGiveUp, Lose, PeerUnchanged, rxVars
<1>7. CASE \E t \in Sender : SenderStep(t)
  BY <1>1, <1>7 DEF SenderStep, Begin, Write, Acked, Resend, GiveUp, Return, SendUnchanged, rxVars
<1> QED BY <1>2, <1>3, <1>4, <1>5, <1>6, <1>7 DEF Next, Program

LEMMA HandKept ==
  ASSUME FlowInv, FlowInv', [Next]_vars, ~ProcessPacket
  PROVE  TakenFrom("peer")' = TakenFrom("peer")
<1> USE DEF FlowInv
<1>0. handled \in Seq(Packets)
  BY DEF TakenInv, Packets
<1>1. /\ TakenFrom("peer") = Taken \o DeliverHas
      /\ TakenFrom("peer")' = Taken' \o DeliverHas'
      /\ Taken \in Seq(Packets) /\ DeliverHas \in Seq(Packets) /\ Taken' \in Seq(Packets)
  BY TakenFromPeer
<1>2. CASE ~Deliver
  <2>1. Taken' = Taken /\ last' = last
    BY <1>0, <1>2, TakenMoves
  <2>2. DeliverHas' = DeliverHas
    BY <1>2, <2>1, ParseKept DEF DeliverHas, IsDuplicate
  <2> QED BY <1>1, <2>1, <2>2
<1>3. CASE Deliver
  <2> PICK e : e = parse.frm.id
    OBVIOUS
  <2>1. parse.pc = "deliver" /\ parse'.pc = "idle"
    BY <1>3 DEF Deliver, FrameDone, Resting
  <2>2. DeliverHas' = <<>>
    BY <2>1 DEF DeliverHas
  <2>3. /\ e \in Packets
        /\ \/ e = last /\ Taken' = Taken
           \/ e > last /\ Taken' = Append(Taken, e)
    BY <1>3, DeliverTakes
  <2>4. TakenFrom("peer")' = Taken'
    BY <1>1, <2>2, ConcatEmptySeq
  <2>5. CASE e = last /\ Taken' = Taken
    <3>1. DeliverHas = <<>>
      BY <2>5 DEF DeliverHas, IsDuplicate
    <3> QED BY <1>1, <2>4, <2>5, <3>1, ConcatEmptySeq
  <2>6. CASE e > last /\ Taken' = Append(Taken, e)
    <3>1. DeliverHas = <<e>>
      <4>1. e # last
        BY <2>3, <2>6, BoundAssumption DEF Packets, TypeInv, ParseType, Request
      <4> QED BY <2>1, <4>1 DEF DeliverHas, IsDuplicate
    <3>2. Append(Taken, e) = Taken \o <<e>>
      BY <1>1, <2>3, HandOn
    <3> QED BY <1>1, <2>4, <2>6, <3>1, <3>2
  <2> QED BY <2>3, <2>5, <2>6
<1> QED BY <1>2, <1>3

\* A packet counts as taken once it has been acknowledged, for the first time.
LEMMA HandGrows ==
  ASSUME FlowInv, FlowInv', [Next]_vars, ProcessPacket
  PROVE  \/ TakenFrom("peer")' = TakenFrom("peer")
         \/ LET p == parse.frm.id IN
              /\ p \in 1 .. MaxRequests /\ p <= Len(requests)
              /\ \A i \in 1 .. Len(TakenFrom("peer")) : TakenFrom("peer")[i] < p
              /\ TakenFrom("peer")' = Append(TakenFrom("peer"), p)
<1> USE DEF FlowInv
<1> PICK p : p = parse.frm.id
  OBVIOUS
<1>0. handled \in Seq(Packets)
  BY DEF TakenInv, Packets
<1>1. /\ TakenFrom("peer") = Taken \o DeliverHas
      /\ TakenFrom("peer")' = Taken' \o DeliverHas'
      /\ Taken \in Seq(Packets)
  BY TakenFromPeer
<1>2. parse.pc = "whole" /\ parse'.pc = "deliver" /\ parse'.frm = parse.frm /\ parse.frm.what = "packet"
  BY DEF ProcessPacket, Process, TypeInv, ParseType, ParseRec
<1>3. Taken' = Taken /\ last' = last
  <2>1. ~Deliver
    BY <1>2 DEF Deliver
  <2> QED BY <1>0, <2>1, TakenMoves
<1>4. TakenFrom("peer") = Taken
  <2>1. DeliverHas = <<>>
    BY <1>2 DEF DeliverHas
  <2> QED BY <1>1, <2>1, ConcatEmptySeq
<1>5. p \in Packets /\ last <= p /\ p <= Len(requests)
  BY <1>2 DEF TypeInv, ParseType, ParseRec, CliFrame, Nack, Packets, ComingInv, IsPacket
<1>6. CASE p = last
  <2>1. DeliverHas' = <<>>
    BY <1>2, <1>3, <1>6 DEF DeliverHas, IsDuplicate
  <2> QED BY <1>1, <1>3, <1>4, <2>1, ConcatEmptySeq
<1>7. CASE p # last
  <2>1. DeliverHas' = <<p>>
    BY <1>2, <1>3, <1>7 DEF DeliverHas, IsDuplicate
  <2>2. Append(Taken, p) = Taken \o <<p>>
    BY <1>1, <1>5, HandOn
  <2>3. \A i \in 1 .. Len(Taken) : Taken[i] < p
    <3>1. last \in Nat /\ p \in Nat
      BY <1>5, BoundAssumption DEF TypeInv, ParseType, Request, Packets
    <3>2. last < p
      BY <1>5, <1>7, <3>1
    <3>3. ASSUME NEW i \in 1 .. Len(Taken) PROVE Taken[i] < p
      <4>1. Taken[i] \in Nat /\ Taken[i] <= last
        <5>1. Taken[i] \in Packets
          BY <1>1, ElementOfSeq
        <5> QED BY <5>1 DEF TakenInv, Packets
      <4> QED BY <3>1, <3>2, <4>1
    <3> QED BY <3>3
  <2> QED BY <1>1, <1>3, <1>4, <1>5, <2>1, <2>2, <2>3 DEF Packets
<1> QED BY <1>6, <1>7

-----------------------------------------------------------------------------
(* Each step of the program is a step of CommService, or none.              *)

LEMMA LogFacts ==
  ASSUME FlowInv
  PROVE  /\ sent \in Seq(SentRec) /\ requests \in Seq(RequestRec)
         /\ \A i \in 1 .. Len(sent) : sent[i].res \in Result
         /\ \A i \in 1 .. Len(requests) : requests[i].res \in Result
         /\ Len(SubmittedBy("cli")) = Len(sent) /\ Len(SubmittedBy("peer")) = Len(requests)
         /\ \A i \in 1 .. Len(sent) : SubmittedBy("cli")[i] = [rel |-> TRUE, res |-> sent[i].res]
         /\ \A i \in 1 .. Len(requests) : SubmittedBy("peer")[i] = [rel |-> TRUE, res |-> requests[i].res]
         /\ Len(sent) \in Nat /\ Len(requests) \in Nat
<1>1. sent \in Seq(SentRec) /\ requests \in Seq(RequestRec)
  BY DEF FlowInv, TypeInv, SendType, PeerType
<1>2. \A i \in 1 .. Len(sent) : sent[i].res \in Result
  <2> TAKE i \in 1 .. Len(sent)
  <2>1. sent[i] \in SentRec
    BY <1>1, ElementOfSeq
  <2> QED BY <2>1 DEF SentRec
<1>3. \A i \in 1 .. Len(requests) : requests[i].res \in Result
  <2> TAKE i \in 1 .. Len(requests)
  <2>1. requests[i] \in RequestRec
    BY <1>1, ElementOfSeq
  <2> QED BY <2>1 DEF RequestRec
<1>4. SubmittedBy("cli") = Verdicts(sent) /\ SubmittedBy("peer") = Verdicts(requests)
  BY DEF SubmittedBy
<1>5. /\ Len(Verdicts(sent)) = Len(sent) /\ Len(sent) \in Nat
      /\ \A i \in 1 .. Len(sent) : Verdicts(sent)[i] = [rel |-> TRUE, res |-> sent[i].res]
  BY <1>1, <1>2, VerdictsFacts
<1>6. /\ Len(Verdicts(requests)) = Len(requests) /\ Len(requests) \in Nat
      /\ \A i \in 1 .. Len(requests) : Verdicts(requests)[i] = [rel |-> TRUE, res |-> requests[i].res]
  BY <1>1, <1>3, VerdictsFacts
<1> QED BY <1>1, <1>2, <1>3, <1>4, <1>5, <1>6

LEMMA ServiceInProgress ==
  ASSUME FlowInv
  PROVE  /\ Service!InProgress("cli") <=> IsPending(sent)
         /\ Service!InProgress("peer") <=> IsPending(requests)
<1>1. /\ SubmittedBy("cli") # <<>> <=> sent # <<>>
      /\ SubmittedBy("peer") # <<>> <=> requests # <<>>
  <2>1. /\ sent \in Seq(SentRec) /\ requests \in Seq(RequestRec)
        /\ Len(Verdicts(sent)) = Len(sent) /\ Len(Verdicts(requests)) = Len(requests)
        /\ Verdicts(sent) \in Seq(Entry) /\ Verdicts(requests) \in Seq(Entry)
    BY LogFacts, VerdictsFacts DEF SubmittedBy
  <2>2. \A S : \A s \in Seq(S) : s # <<>> <=> Len(s) # 0
    BY EmptySeq
  <2> QED BY <2>1, <2>2 DEF SubmittedBy
<1>2. /\ Service!InProgress("cli") <=>
           SubmittedBy("cli") # <<>> /\ SubmittedBy("cli")[Len(SubmittedBy("cli"))].res = "pending"
      /\ Service!InProgress("peer") <=>
           SubmittedBy("peer") # <<>> /\ SubmittedBy("peer")[Len(SubmittedBy("peer"))].res = "pending"
  BY DEF Service!InProgress, Node
<1>3. /\ Len(SubmittedBy("cli")) = Len(sent) /\ Len(SubmittedBy("peer")) = Len(requests)
      /\ sent # <<>> => SubmittedBy("cli")[Len(sent)].res = sent[Len(sent)].res
      /\ requests # <<>> => SubmittedBy("peer")[Len(requests)].res = requests[Len(requests)].res
  <2>1. /\ sent # <<>> => Len(sent) \in 1 .. Len(sent)
        /\ requests # <<>> => Len(requests) \in 1 .. Len(requests)
    BY LogFacts
  <2>2. /\ sent # <<>> => SubmittedBy("cli")[Len(sent)] = [rel |-> TRUE, res |-> sent[Len(sent)].res]
        /\ requests # <<>> =>
             SubmittedBy("peer")[Len(requests)] = [rel |-> TRUE, res |-> requests[Len(requests)].res]
    BY <2>1, LogFacts
  <2>3. Len(SubmittedBy("cli")) = Len(sent) /\ Len(SubmittedBy("peer")) = Len(requests)
    BY LogFacts
  <2> QED BY <2>2, <2>3
<1> QED BY <1>1, <1>2, <1>3 DEF IsPending

\* What the sending threads, the peer and the rest of the program leave as it is.
LEMMA SameBooks ==
  /\ UNCHANGED sent => SubmittedBy("cli")' = SubmittedBy("cli")
  /\ UNCHANGED requests => SubmittedBy("peer")' = SubmittedBy("peer")
  /\ UNCHANGED got => TakenFrom("cli")' = TakenFrom("cli")
BY DEF SubmittedBy, TakenFrom, Verdicts

LEMMA SendersKeep ==
  ASSUME FlowInv, FlowInv', [Next]_vars, NEW t \in Sender, SenderStep(t)
  PROVE  /\ SubmittedBy("peer")' = SubmittedBy("peer")
         /\ TakenFrom("cli")' = TakenFrom("cli") /\ TakenFrom("peer")' = TakenFrom("peer")
<1>1. UNCHANGED <<requests, got, parse>>
  BY DEF SenderStep, Begin, Write, Acked, Resend, GiveUp, Return, SendUnchanged, peerVars, rxVars
<1>2. ~ProcessPacket
  <2>1. ProcessPacket => parse'.pc = "deliver" /\ parse.pc = "whole"
    BY DEF ProcessPacket, Process, FlowInv, TypeInv, ParseType, ParseRec
  <2> QED BY <1>1, <2>1
<1> QED BY <1>1, <1>2, SameBooks, HandKept

\* A packet of this end.
LEMMA CliSubmits ==
  ASSUME FlowInv, FlowInv', CountInv, [Next]_vars, NEW t \in Sender, Begin(t)
  PROVE  Service!Next
<1>1. SenderStep(t)
  BY DEF SenderStep
<1>2. /\ Len(sent') = Len(sent) + 1 /\ \A i \in 1 .. Len(sent) : sent'[i] = sent[i]
      /\ sent'[Len(sent) + 1].res = "pending"
  <2>1. sent'[Len(sent) + 1] = [by |-> t, re |-> call[t].re, part |-> call[t].part,
                                file |-> call[t].file, res |-> "pending"]
    BY BeginsFacts DEF FlowInv
  <2> QED BY <2>1, BeginsFacts DEF FlowInv
<1> PICK s, u : s = sent /\ u = sent'
  OBVIOUS
<1>3. /\ s \in Seq(SentRec) /\ \A i \in 1 .. Len(s) : s[i].res \in Result
      /\ u \in Seq(SentRec) /\ \A i \in 1 .. Len(u) : u[i].res \in Result
  <2>1. s \in Seq(SentRec) /\ u \in Seq(SentRec)
    BY DEF FlowInv, TypeInv, SendType
  <2>2. \A q \in Seq(SentRec) : \A i \in 1 .. Len(q) : q[i].res \in Result
    <3> TAKE q \in Seq(SentRec)
    <3> TAKE i \in 1 .. Len(q)
    <3>1. q[i] \in SentRec
      BY ElementOfSeq
    <3> QED BY <3>1 DEF SentRec
  <2> QED BY <2>1, <2>2
<1>4. Verdicts(u) = Append(Verdicts(s), [rel |-> TRUE, res |-> "pending"])
  BY <1>2, <1>3, VerdictsAppend
<1>5. SubmittedBy("cli")' = Append(SubmittedBy("cli"), [rel |-> TRUE, res |-> "pending"])
  BY <1>4 DEF SubmittedBy, Verdicts
<1>6. Len(SubmittedBy("cli")) < MostCalls("cli")
  <2>1. Len(sent) < MaxCommands + 2 * MaxRequests
    BY CallsBounded DEF Begin
  <2> QED BY <2>1, LogFacts DEF MostCalls
<1>7. ~Service!InProgress("cli")
  BY ServiceInProgress DEF Begin, FlowInv, PendingInv
<1>8. /\ \A m \in Node \ {"cli"} : SubmittedBy(m)' = SubmittedBy(m)
      /\ \A m \in Node : TakenFrom(m)' = TakenFrom(m)
  BY <1>1, SendersKeep DEF Node
<1>9. "cli" \in Node
  BY DEF Node
<1> QED BY <1>5, <1>6, <1>7, <1>8, <1>9, Submits

\* The result of a call.
LEMMA CliReturns ==
  ASSUME FlowInv, FlowInv', [Next]_vars, NEW t \in Sender, NEW r \in {"acked", "timeout"},
         SenderStep(t), Holds(t), Return(t, r), r = "acked" => acked
  PROVE  Service!Next
<1>1. r \in Result /\ sent # <<>> /\ Len(sent') = Len(sent)
  BY EndsFacts DEF FlowInv, TypeInv, LockInv, Result
<1>2. \A i \in 1 .. Len(sent) : sent'[i].res = IF i = Len(sent) THEN r ELSE sent[i].res
  <2> TAKE i \in 1 .. Len(sent)
  <2>1. sent'[i] = IF i = Len(sent) THEN [sent[i] EXCEPT !.res = r] ELSE sent[i]
    BY EndsFacts DEF FlowInv
  <2>2. sent[i] \in SentRec
    BY LogFacts, ElementOfSeq
  <2> QED BY <2>1, <2>2 DEF SentRec
<1> PICK s, u : s = sent /\ u = sent'
  OBVIOUS
<1>3. /\ s \in Seq(SentRec) /\ \A i \in 1 .. Len(s) : s[i].res \in Result
      /\ u \in Seq(SentRec) /\ \A i \in 1 .. Len(u) : u[i].res \in Result
  <2>1. s \in Seq(SentRec) /\ u \in Seq(SentRec)
    BY DEF FlowInv, TypeInv, SendType
  <2>2. \A q \in Seq(SentRec) : \A i \in 1 .. Len(q) : q[i].res \in Result
    <3> TAKE q \in Seq(SentRec)
    <3> TAKE i \in 1 .. Len(q)
    <3>1. q[i] \in SentRec
      BY ElementOfSeq
    <3> QED BY <3>1 DEF SentRec
  <2> QED BY <2>1, <2>2
<1>4. Verdicts(u) = [Verdicts(s) EXCEPT ![Len(Verdicts(s))].res = r]
  BY <1>1, <1>2, <1>3, VerdictsEnd
<1>5. SubmittedBy("cli")' = [SubmittedBy("cli") EXCEPT ![Len(SubmittedBy("cli"))].res = r]
  BY <1>4 DEF SubmittedBy, Verdicts
<1>6. Service!InProgress("cli")
  <2>1. app_lock = t
    BY DEF FlowInv, TypeInv, LockInv
  <2> QED BY <2>1, NoneHolds, ServiceInProgress DEF FlowInv, PendingInv
<1>7. SubmittedBy("cli")[Len(SubmittedBy("cli"))].rel
  <2>1. Len(sent) \in 1 .. Len(sent) /\ Len(SubmittedBy("cli")) = Len(sent)
    BY <1>1, LogFacts
  <2>2. SubmittedBy("cli")[Len(sent)] = [rel |-> TRUE, res |-> sent[Len(sent)].res]
    BY <2>1, LogFacts
  <2> QED BY <2>1, <2>2
<1>8. r = "acked" => Service!IsReceived("cli", Len(SubmittedBy("cli")))
  <2>1. r = "acked" => Among(Len(sent), got)
    BY DEF FlowInv, FlagInv
  <2>2. Len(SubmittedBy("cli")) = Len(sent)
    BY LogFacts
  <2> QED BY <2>1, <2>2 DEF Service!IsReceived, TakenFrom, Among, Node
<1>9. /\ \A m \in Node \ {"cli"} : SubmittedBy(m)' = SubmittedBy(m)
      /\ \A m \in Node : TakenFrom(m)' = TakenFrom(m)
  BY SendersKeep DEF Node
<1>10. "cli" \in Node
  BY DEF Node
<1> QED BY <1>5, <1>6, <1>7, <1>8, <1>9, <1>10, Concludes

LEMMA SenderRefines ==
  ASSUME FlowInv, FlowInv', CountInv, [Next]_vars, NEW t \in Sender, SenderStep(t)
  PROVE  Service!Next \/ UNCHANGED Service!vars
<1>1. CASE Begin(t)
  BY <1>1, CliSubmits
<1>2. CASE Write(t) \/ Resend(t)
  <2>1. UNCHANGED sent
    BY <1>2 DEF Write, Resend
  <2>2. /\ \A m \in Node : SubmittedBy(m)' = SubmittedBy(m)
        /\ \A m \in Node : TakenFrom(m)' = TakenFrom(m)
    BY <2>1, SendersKeep, SameBooks DEF Node
  <2> QED BY <2>2, Stutters
<1>3. CASE Acked(t)
  BY <1>3, CliReturns DEF Acked, Holds
<1>4. CASE GiveUp(t)
  BY <1>4, CliReturns DEF GiveUp, Unanswered, Holds
<1> QED BY <1>1, <1>2, <1>3, <1>4 DEF SenderStep

-----------------------------------------------------------------------------
(* The peer.                                                                *)

LEMMA PeerKeepsBooks ==
  ASSUME FlowInv, FlowInv', [Next]_vars, PeerUnchanged
  PROVE  /\ SubmittedBy("cli")' = SubmittedBy("cli")
         /\ TakenFrom("peer")' = TakenFrom("peer")
<1>1. UNCHANGED <<sent, parse>>
  BY DEF PeerUnchanged, sendVars, rxVars
<1>2. ~ProcessPacket
  <2>1. ProcessPacket => parse'.pc = "deliver" /\ parse.pc = "whole"
    BY DEF ProcessPacket, Process, FlowInv, TypeInv, ParseType, ParseRec
  <2> QED BY <1>1, <2>1
<1> QED BY <1>1, <1>2, SameBooks, HandKept

LEMMA PeerSubmits ==
  ASSUME FlowInv, FlowInv', [Next]_vars, PeerSend
  PROVE  Service!Next
<1>1. PICK k \in Kind :
        /\ requests' = Append(requests, [kind |-> k, res |-> "pending"])
        /\ Len(requests') = Len(requests) + 1
        /\ requests'[Len(requests) + 1] = [kind |-> k, res |-> "pending"]
  BY PeerSends DEF FlowInv
<1>2. /\ \A i \in 1 .. Len(requests) : requests'[i] = requests[i]
      /\ requests'[Len(requests) + 1].res = "pending"
  <2>1. requests \in Seq(RequestRec) /\ [kind |-> k, res |-> "pending"] \in RequestRec
    BY LogFacts DEF RequestRec, Result
  <2> PICK e : e = [kind |-> k, res |-> "pending"]
    OBVIOUS
  <2>2. requests' = Append(requests, e) /\ e \in RequestRec /\ e.res = "pending"
    BY <1>1, <2>1
  <2> QED BY <1>1, <2>1, <2>2, AppendProperties
<1> PICK s, u : s = requests /\ u = requests'
  OBVIOUS
<1>3. /\ s \in Seq(RequestRec) /\ \A i \in 1 .. Len(s) : s[i].res \in Result
      /\ u \in Seq(RequestRec) /\ \A i \in 1 .. Len(u) : u[i].res \in Result
  <2>1. s \in Seq(RequestRec) /\ u \in Seq(RequestRec)
    BY DEF FlowInv, TypeInv, PeerType
  <2>2. \A q \in Seq(RequestRec) : \A i \in 1 .. Len(q) : q[i].res \in Result
    <3> TAKE q \in Seq(RequestRec)
    <3> TAKE i \in 1 .. Len(q)
    <3>1. q[i] \in RequestRec
      BY ElementOfSeq
    <3> QED BY <3>1 DEF RequestRec
  <2> QED BY <2>1, <2>2
<1>4. Verdicts(u) = Append(Verdicts(s), [rel |-> TRUE, res |-> "pending"])
  BY <1>1, <1>2, <1>3, VerdictsAppend
<1>5. SubmittedBy("peer")' = Append(SubmittedBy("peer"), [rel |-> TRUE, res |-> "pending"])
  BY <1>4 DEF SubmittedBy, Verdicts
<1>6. Len(SubmittedBy("peer")) < MostCalls("peer")
  BY LogFacts DEF PeerSend, MostCalls
<1>7. ~Service!InProgress("peer")
  BY ServiceInProgress DEF PeerSend, FlowInv, PendingInv
<1>8. /\ \A m \in Node \ {"peer"} : SubmittedBy(m)' = SubmittedBy(m)
      /\ \A m \in Node : TakenFrom(m)' = TakenFrom(m)
  <2>1. PeerUnchanged /\ UNCHANGED got
    BY DEF PeerSend
  <2> QED BY <2>1, PeerKeepsBooks, SameBooks DEF Node
<1>9. "peer" \in Node
  BY DEF Node
<1> QED BY <1>5, <1>6, <1>7, <1>8, <1>9, Submits

\* What is taken has been received, in the sense of CommService.
LEMMA TakenIsReceived ==
  ASSUME FlowInv, FlowInv', NEW p \in Nat \ {0}, IsTaken(p)
  PROVE  Among(p, TakenFrom("peer"))
<1>1. /\ TakenFrom("peer") = Taken \o DeliverHas /\ Taken \in Seq(Packets) /\ DeliverHas \in Seq(Packets)
  BY TakenFromPeer DEF FlowInv
<1>2. /\ Len(Taken) \in Nat /\ Len(DeliverHas) \in Nat
      /\ Len(Taken \o DeliverHas) = Len(Taken) + Len(DeliverHas)
      /\ \A i \in 1 .. Len(Taken) : (Taken \o DeliverHas)[i] = Taken[i]
      /\ Len(DeliverHas) = 1 => (Taken \o DeliverHas)[Len(Taken) + 1] = DeliverHas[1]
  BY <1>1, ConcatProperties
<1>3. CASE Among(p, Taken)
  <2>1. PICK i \in 1 .. Len(Taken) : Taken[i] = p
    BY <1>3 DEF Among
  <2>2. i \in 1 .. Len(Taken \o DeliverHas) /\ (Taken \o DeliverHas)[i] = p
    BY <1>2, <2>1
  <2> QED BY <1>1, <2>2 DEF Among
<1>4. CASE parse.pc = "deliver" /\ parse.frm.id = p /\ p # last
  <2>1. DeliverHas = <<p>>
    BY <1>4 DEF DeliverHas, IsDuplicate
  <2>2. Len(DeliverHas) = 1 /\ DeliverHas[1] = p
    BY <2>1
  <2>3. Len(Taken) + 1 \in 1 .. Len(Taken \o DeliverHas) /\ (Taken \o DeliverHas)[Len(Taken) + 1] = p
    BY <1>2, <2>2
  <2> QED BY <1>1, <2>3 DEF Among
<1>5. p = last => Among(p, Taken)
  BY DEF FlowInv, TakenInv
<1> QED BY <1>3, <1>4, <1>5 DEF IsTaken

LEMMA PeerReturns ==
  ASSUME FlowInv, FlowInv', [Next]_vars, PeerUnchanged, UNCHANGED got, peer.pc = "wait",
         NEW r \in {"acked", "timeout"}, PeerReturn(r), r = "acked" => IsTaken(Len(requests))
  PROVE  Service!Next
<1>1. r \in Result /\ requests # <<>> /\ Len(requests') = Len(requests)
  BY PeerEnds DEF FlowInv, TypeInv, PeerType, Result
<1>2. \A i \in 1 .. Len(requests) : requests'[i].res = IF i = Len(requests) THEN r ELSE requests[i].res
  <2> TAKE i \in 1 .. Len(requests)
  <2>1. requests'[i] = IF i = Len(requests) THEN [requests[i] EXCEPT !.res = r] ELSE requests[i]
    BY PeerEnds DEF FlowInv
  <2>2. requests[i] \in RequestRec
    BY LogFacts, ElementOfSeq
  <2> QED BY <2>1, <2>2 DEF RequestRec
<1> PICK s, u : s = requests /\ u = requests'
  OBVIOUS
<1>3. /\ s \in Seq(RequestRec) /\ \A i \in 1 .. Len(s) : s[i].res \in Result
      /\ u \in Seq(RequestRec) /\ \A i \in 1 .. Len(u) : u[i].res \in Result
  <2>1. s \in Seq(RequestRec) /\ u \in Seq(RequestRec)
    BY DEF FlowInv, TypeInv, PeerType
  <2>2. \A q \in Seq(RequestRec) : \A i \in 1 .. Len(q) : q[i].res \in Result
    <3> TAKE q \in Seq(RequestRec)
    <3> TAKE i \in 1 .. Len(q)
    <3>1. q[i] \in RequestRec
      BY ElementOfSeq
    <3> QED BY <3>1 DEF RequestRec
  <2> QED BY <2>1, <2>2
<1>4. Verdicts(u) = [Verdicts(s) EXCEPT ![Len(Verdicts(s))].res = r]
  BY <1>1, <1>2, <1>3, VerdictsEnd
<1>5. SubmittedBy("peer")' = [SubmittedBy("peer") EXCEPT ![Len(SubmittedBy("peer"))].res = r]
  <2>1. SubmittedBy("peer") = Verdicts(s)
    BY DEF SubmittedBy
  <2>2. SubmittedBy("peer")' = Verdicts(u)
    BY DEF SubmittedBy, Verdicts
  <2> QED BY ONLY <1>4, <2>1, <2>2
<1>6. Service!InProgress("peer")
  BY ServiceInProgress DEF FlowInv, PendingInv
<1>7. SubmittedBy("peer")[Len(SubmittedBy("peer"))].rel
  <2>1. Len(requests) \in 1 .. Len(requests) /\ Len(SubmittedBy("peer")) = Len(requests)
    BY <1>1, LogFacts
  <2>2. SubmittedBy("peer")[Len(requests)] = [rel |-> TRUE, res |-> requests[Len(requests)].res]
    BY <2>1, LogFacts
  <2> QED BY <2>1, <2>2
<1>8. r = "acked" => Service!IsReceived("peer", Len(SubmittedBy("peer")))
  <2>1. r = "acked" => Among(Len(requests), TakenFrom("peer"))
    BY <1>1, TakenIsReceived
  <2>2. Len(SubmittedBy("peer")) = Len(requests)
    BY LogFacts
  <2> QED BY <2>1, <2>2 DEF Service!IsReceived, Among, Node
<1>9. /\ \A m \in Node \ {"peer"} : SubmittedBy(m)' = SubmittedBy(m)
      /\ \A m \in Node : TakenFrom(m)' = TakenFrom(m)
  BY PeerKeepsBooks, SameBooks DEF Node
<1>10. "peer" \in Node
  BY DEF Node
<1> QED BY <1>5, <1>6, <1>7, <1>8, <1>9, <1>10, Concludes

\* A frame of this end reaches the peer.
LEMMA PeerTakesPacket ==
  ASSUME FlowInv, FlowInv', CountInv, [Next]_vars, PeerReceivePacket
  PROVE  Service!Next \/ UNCHANGED Service!vars
<1> PICK p : p = Head(to_peer).id
  OBVIOUS
<1>1. PeerUnchanged /\ UNCHANGED requests
  BY DEF PeerReceivePacket, PeerTake
<1>2. /\ \A m \in Node : SubmittedBy(m)' = SubmittedBy(m)
      /\ TakenFrom("peer")' = TakenFrom("peer")
  BY <1>1, PeerKeepsBooks, SameBooks DEF Node
<1>3. /\ p \in 1 .. Len(sent)
      /\ \/ got' = got
         \/ got' = Append(got, p) /\ \A k \in 1 .. Len(got) : got[k] < p
  BY GotLonger DEF FlowInv
<1>4. CASE got' = got
  <2>1. \A m \in Node : TakenFrom(m)' = TakenFrom(m)
    BY <1>2, <1>4, SameBooks DEF Node
  <2> QED BY <1>2, <2>1, Stutters
<1>5. CASE got' = Append(got, p) /\ \A k \in 1 .. Len(got) : got[k] < p
  <2>1. p \in 1 .. MostCalls("cli")
    <3>1. Len(sent) <= MaxCommands + 2 * MaxRequests /\ Len(sent) \in Nat
      BY CallsBounded, LogFacts
    <3>2. MaxCommands + 2 * MaxRequests \in Nat
      BY BoundAssumption
    <3> QED BY <1>3, <3>1, <3>2 DEF MostCalls
  <2>2. p <= Len(SubmittedBy("cli"))
    BY <1>3, LogFacts
  <2>3. /\ TakenFrom("cli")' = Append(TakenFrom("cli"), p)
        /\ \A i \in 1 .. Len(TakenFrom("cli")) : TakenFrom("cli")[i] < p
    BY <1>5 DEF TakenFrom
  <2>4. "cli" \in Node /\ \A m \in Node \ {"cli"} : TakenFrom(m)' = TakenFrom(m)
    BY <1>2 DEF Node
  <2> QED BY <1>2, <2>1, <2>2, <2>3, <2>4, Delivers
<1> QED BY <1>3, <1>4, <1>5

LEMMA PeerTakesAck ==
  ASSUME FlowInv, FlowInv', [Next]_vars, PeerReceiveAck
  PROVE  Service!Next \/ UNCHANGED Service!vars
<1>1. PeerUnchanged /\ UNCHANGED got
  BY DEF PeerReceiveAck, PeerTake
<1>2. CASE UNCHANGED requests
  <2>1. /\ \A m \in Node : SubmittedBy(m)' = SubmittedBy(m)
        /\ \A m \in Node : TakenFrom(m)' = TakenFrom(m)
    BY <1>1, <1>2, PeerKeepsBooks, SameBooks DEF Node
  <2> QED BY <2>1, Stutters
<1>3. CASE peer.pc = "wait" /\ Head(to_peer).id = Len(requests) /\ PeerReturn("acked")
  <2>1. IsTaken(Len(requests))
    <3>1. to_peer \in Seq(PeerFrame) /\ to_peer # <<>> /\ Head(to_peer).what = "ack"
      BY DEF PeerReceiveAck, PeerTake, FlowInv, TypeInv, LineType
    <3>2. 1 \in 1 .. Len(to_peer) /\ Head(to_peer) = to_peer[1]
      BY <3>1
    <3> QED BY <1>3, <3>1, <3>2 DEF FlowInv, AckedInv
  <2> QED BY <1>1, <1>3, <2>1, PeerReturns
<1> QED BY <1>2, <1>3 DEF PeerReceiveAck

LEMMA PeerRefines ==
  ASSUME FlowInv, FlowInv', CountInv, [Next]_vars, PeerSend \/ PeerStep \/ Lose
  PROVE  Service!Next \/ UNCHANGED Service!vars
<1>1. CASE PeerSend
  BY <1>1, PeerSubmits
<1>2. CASE PeerReceiveAck
  BY <1>2, PeerTakesAck
<1>3. CASE PeerReceivePacket
  BY <1>3, PeerTakesPacket
<1>4. CASE PeerGiveUp
  BY <1>4, PeerReturns DEF PeerGiveUp, PeerUnanswered
<1>5. CASE PeerReceiveNack \/ PeerResend \/ Lose
  <2>1. PeerUnchanged /\ UNCHANGED <<requests, got>>
    BY <1>5 DEF PeerReceiveNack, PeerTake, PeerResend, Lose, peerVars
  <2>2. /\ \A m \in Node : SubmittedBy(m)' = SubmittedBy(m)
        /\ \A m \in Node : TakenFrom(m)' = TakenFrom(m)
    BY <2>1, PeerKeepsBooks, SameBooks DEF Node
  <2> QED BY <2>2, Stutters
<1> QED BY <1>1, <1>2, <1>3, <1>4, <1>5 DEF PeerStep

-----------------------------------------------------------------------------
(* Receiving, and everything else.                                          *)

LEMMA ReceiveRefines ==
  ASSUME FlowInv, FlowInv', [Next]_vars, UNCHANGED <<sent, requests, got>>
  PROVE  Service!Next \/ UNCHANGED Service!vars
<1>1. /\ \A m \in Node : SubmittedBy(m)' = SubmittedBy(m)
      /\ TakenFrom("cli")' = TakenFrom("cli")
  BY SameBooks DEF Node
<1>2. CASE TakenFrom("peer")' = TakenFrom("peer")
  <2>1. \A m \in Node : TakenFrom(m)' = TakenFrom(m)
    BY <1>1, <1>2 DEF Node
  <2> QED BY <1>1, <2>1, Stutters
<1>3. CASE ProcessPacket /\ TakenFrom("peer")' # TakenFrom("peer")
  <2> PICK p : p = parse.frm.id
    OBVIOUS
  <2>1. /\ p \in 1 .. MaxRequests /\ p <= Len(requests)
        /\ \A i \in 1 .. Len(TakenFrom("peer")) : TakenFrom("peer")[i] < p
        /\ TakenFrom("peer")' = Append(TakenFrom("peer"), p)
    BY <1>3, HandGrows
  <2>2. p \in 1 .. MostCalls("peer") /\ p <= Len(SubmittedBy("peer"))
    BY <2>1, LogFacts DEF MostCalls
  <2>3. "peer" \in Node /\ \A m \in Node \ {"peer"} : TakenFrom(m)' = TakenFrom(m)
    BY <1>1 DEF Node
  <2> QED BY <1>1, <2>1, <2>2, <2>3, Delivers
<1> QED BY <1>2, <1>3, HandKept

LEMMA NextRefines ==
  ASSUME FlowInv, FlowInv', CountInv, [Next]_vars
  PROVE  Service!Next \/ UNCHANGED Service!vars
<1>1. CASE \E t \in Sender : SenderStep(t)
  BY <1>1, SenderRefines
<1>2. CASE PeerSend \/ PeerStep \/ Lose
  BY <1>2, PeerRefines
<1>3. CASE Boot \/ StartFails \/ Undefined \/ Command \/ Relay \/ UNCHANGED vars
  <2>1. UNCHANGED <<sent, requests, got>>
    BY <1>3 DEF Boot, StartFails, Undefined, UartInitialize, CreateList, ProtocolBusinessInit, RegisterHandlers,
       ChnlInit, ChnlInitFails, BootUnchanged, Command, Relay, RelayTake, RelayPass, RelayCrashes, RelayUnchanged,
       vars, sendVars, peerVars
  <2> QED BY <2>1, ReceiveRefines
<1>4. CASE Work \/ SyscallReturns
  <2>1. UNCHANGED <<sent, requests, got>>
    BY <1>4 DEF Work, WorkerTake, Reply, HandlerReturns, SyscallReturns, WorkUnchanged, peerVars
  <2> QED BY <2>1, ReceiveRefines
<1>5. CASE Parse
  <2>1. UNCHANGED <<sent, requests, got>>
    BY <1>5 DEF Parse, FirstByte, ReadFrame, StartFrame, Store, HandOver, StoreCrashes, NextByte, Ignore,
       ProcessAck, ProcessPacket, ProcessTorn, ProcessTornCrashes, Deliver, ParseUnchanged,
       sendVars, peerVars
  <2> QED BY <2>1, ReceiveRefines
<1> QED BY <1>1, <1>2, <1>3, <1>4, <1>5 DEF Next, Program

LEMMA InitRefines == Init => Service!Init
<1> SUFFICES ASSUME Init PROVE Service!Init
  OBVIOUS
<1>1. sent = <<>> /\ requests = <<>> /\ got = <<>>
  BY DEF Init
<1>2. \A n \in Node : SubmittedBy(n) = <<>>
  <2>1. Verdicts(<<>>) = <<>>
    BY DEF Verdicts
  <2> QED BY <1>1, <2>1 DEF SubmittedBy
<1>3. \A n \in Node : TakenFrom(n) = <<>>
  <2>1. handled = <<>> /\ list2 = <<>> /\ list1 = <<>> /\ worker.item = 0 /\ relay = 0 /\ parse.pc = "idle"
    BY DEF Init, Resting
  <2>2. InHand = <<>> \o <<>> \o <<>> \o <<>> \o <<>>
    BY <2>1 DEF InHand
  <2>3. <<>> \in Seq(Nat)
    OBVIOUS
  <2>4. <<>> \o <<>> = <<>>
    BY <2>3, ConcatEmptySeq
  <2> QED BY <1>1, <2>1, <2>2, <2>4 DEF TakenFrom
<1> QED BY <1>2, <1>3 DEF Service!Init

\* The whole program implements CommService towards either end: through both
\* event lists, the handlers and two sending threads, packets are taken in
\* order and at most once, and a call succeeds only if its packet was taken.
THEOREM CliService == Spec => ServiceSpec
<1>1. FlowInv /\ FlowInv' /\ CountInv /\ [Next]_vars => [Service!Next]_(Service!vars)
  BY NextRefines
<1>2. Spec => []CountInv
  <2>1. FlowInv /\ FlowInv' /\ CountInv /\ [Next]_vars => CountInv'
    BY NextCountInv
  <2> QED BY <2>1, InitCountInv, AlwaysFlowInv, PTL DEF Spec
<1>3. Spec => Service!Init /\ [][Service!Next]_(Service!vars)
  BY <1>1, <1>2, InitRefines, AlwaysFlowInv, PTL DEF Spec
<1> QED BY <1>3 DEF ServiceSpec, Service!Spec
=============================================================================
