------------------------------ MODULE MCFlowRun ------------------------------
(* Small instances of FlowRun.                                             *)
EXTENDS FlowRun

\* Two chains: the first has two stages; its second stage and the other chain
\* share a pool.
Chained  == [c \in Calls |-> IF c = 3 THEN {1} ELSE {}]
Shared   == [c \in Calls |-> IF c = 1 THEN "p1" ELSE "p2"]

\* Two chains of two stages each.
Piped    == [c \in Calls |-> IF c > 2 THEN {c - 2} ELSE {}]
ByParity == [c \in Calls |-> IF c % 2 = 1 THEN "p1" ELSE "p2"]

NoFault    == [b \in Faults |-> 0]
KilledOnce == [NoFault EXCEPT !["kill"] = 1]
KilledTwice == [NoFault EXCEPT !["kill"] = 2]
EachOnce   == [b \in Faults |-> 1]
=============================================================================
