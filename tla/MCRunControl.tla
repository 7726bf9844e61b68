------------------------------ MODULE MCRunControl ------------------------------
(***************************************************************************)
(* Instances of RunControl for TLC.                                        *)
(***************************************************************************)
EXTENDS RunControl

CONSTANTS w1, w2, q1, q2

\* Every wave in one queue, and one wave in each of two queues.
OneQueue == [w \in Waves |-> q1]
TwoQueues == [w \in Waves |-> IF w = w1 THEN q1 ELSE q2]

\* Every way to resume a wave, and the ones that leave it to the hardware.
AllCommands == [mode : {"run", "step", "simulate", "terminate"},
                exceptions : BOOLEAN]
PlainCommands == [mode : {"run", "step"}, exceptions : {FALSE}]

\* The waves of one queue are interchangeable.
WaveSymmetry == Permutations(Waves)

===============================================================================
