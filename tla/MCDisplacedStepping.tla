-------------------------- MODULE MCDisplacedStepping --------------------------
(***************************************************************************)
(* Instances of DisplacedStepping for TLC.                                 *)
(***************************************************************************)
EXTENDS DisplacedStepping, TLC

CONSTANTS w1, w2, w3, q1, q2, i1, i2, i3

\* Waves of one queue are alike, and so are ids.
Alike ==
  Permutations(Ids) \cup UNION {Permutations(WavesOf(q)) : q \in Queues}

\* A loop of a short and a long instruction and a branch; behind it, an
\* instruction that can be neither displaced nor simulated, and the end.
Loop == {0, 1, 3, 4, 5}
LoopSize == [a \in Loop |-> IF a = 1 THEN 2 ELSE 1]
LoopKind == [a \in Loop |-> CASE a \in {0, 1} -> "plain" [] a = 3 -> "branch"
                              [] a = 4 -> "other" [] a = 5 -> "end"]
LoopSucc == [a \in Loop |-> CASE a = 0 -> {1} [] a = 1 -> {3} [] a = 3 -> {1, 4}
                              [] a = 4 -> {5} [] a = 5 -> {}]

OneQueue == [w \in Waves |-> q1]
TwoQueues == [w \in Waves |-> IF w = w1 THEN q1 ELSE q2]
Bases == [q \in Queues |-> IF q = q1 THEN 8 ELSE 64]

===============================================================================
