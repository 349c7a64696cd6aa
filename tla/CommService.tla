---------------------------- MODULE CommService ----------------------------
(***************************************************************************)
(* What CommProtocolPacketAssembleAndSend and on_recv_frame promise        *)
(* together, with no frames, acknowledgements or threads: each end submits *)
(* one packet at a time, the other application gets some of them, in order *)
(* and at most once, and each call ends with a result.                     *)
(***************************************************************************)
EXTENDS Integers, Sequences

CONSTANTS Node, Modes, MaxCalls

VARIABLES
  log,      \* log[n]: the packets n has submitted, with their results
  received  \* received[n]: the packets of n its peer has got

vars == <<log, received>>

Init ==
  /\ log = [n \in Node |-> <<>>]
  /\ received = [n \in Node |-> <<>>]

\* The packet whose call is in progress, if any, is the last one.
InProgress(n) == log[n] # <<>> /\ log[n][Len(log[n])].res = "pending"

Submit(n) ==
  /\ Len(log[n]) < MaxCalls[n]
  /\ ~InProgress(n)
  /\ \E r \in Modes : log' = [log EXCEPT ![n] = Append(@, [rel |-> r, res |-> "pending"])]
  /\ UNCHANGED received

\* Packet p reaches the peer, also after its call has ended, but never after
\* a later one.
Deliver(n, p) ==
  /\ p <= Len(log[n])
  /\ \A i \in 1 .. Len(received[n]) : received[n][i] < p
  /\ received' = [received EXCEPT ![n] = Append(@, p)]
  /\ UNCHANGED log

IsReceived(n, p) == \E i \in 1 .. Len(received[n]) : received[n][i] = p
GaveUpBefore(n, p) == \E q \in 1 .. p - 1 : log[n][q].res = "timeout"

End(n, r) == log' = [log EXCEPT ![n][Len(log[n])].res = r] /\ UNCHANGED received

\* Success of a reliable call: the packet is there, unless an earlier call
\* of this end gave up.
Succeed(n) ==
  /\ InProgress(n)
  /\ log[n][Len(log[n])].rel
  /\ IsReceived(n, Len(log[n])) \/ GaveUpBefore(n, Len(log[n]))
  /\ End(n, "acked")

GiveUp(n) == InProgress(n) /\ log[n][Len(log[n])].rel /\ End(n, "timeout")
Sent(n)   == InProgress(n) /\ ~log[n][Len(log[n])].rel /\ End(n, "sent")

Next ==
  \E n \in Node :
    \/ Submit(n)
    \/ \E p \in 1 .. MaxCalls[n] : Deliver(n, p)
    \/ Succeed(n) \/ GiveUp(n) \/ Sent(n)

Spec == Init /\ [][Next]_vars
=============================================================================
