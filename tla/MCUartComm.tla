----------------------------- MODULE MCUartComm -----------------------------
(* Two ends A and B of one UART for TLC: the senders a1 and a2 on A, or a1  *)
(* alone.                                                                  *)
EXTENDS UartComm, TLC

CONSTANTS A, B, a1, a2

TwoEnds  == {A, B}
Crossed  == (A :> B) @@ (B :> A)

OneWayThreads == {a1, a2}
OneWayHome    == [t \in OneWayThreads |-> A]
SingleThreads == {a1}
SingleHome    == [t \in SingleThreads |-> A]

SenderSymmetry == Permutations({a1, a2})

OnlyReliable == {TRUE}
AnyMode      == BOOLEAN

TwoCalls   == (A :> 2) @@ (B :> 0)
ThreeCalls == (A :> 3) @@ (B :> 0)
FourCalls  == (A :> 4) @@ (B :> 0)
=============================================================================
