---------------------------- MODULE InlineStepping ----------------------------
(***************************************************************************)
(* What stepping promises a client: every wave runs through its own        *)
(* program, one instruction after the other, as if no breakpoint had ever  *)
(* been written over it.  There are no buffers, parked waves or simulated  *)
(* instructions here.                                                      *)
(***************************************************************************)
CONSTANTS Queues, Waves, QueueOf,
          Code,     \* the addresses of the instructions
          Kind,     \* "plain", "branch", "end" or "other", of each of them
          Succ,     \* the addresses that may follow each of them
          Entry,    \* where the waves begin
          NoAddress

VARIABLES state,    \* "run", "step", "stop" or "absent"
          at,       \* the address of the next instruction of each wave
          done,     \* the instruction that each wave executed last
          alive     \* the queues that the inferior has not destroyed

stepVars == <<state, at, done, alive>>

Init ==
  /\ state = [w \in Waves |-> "run"]
  /\ at = [w \in Waves |-> Entry]
  /\ done = [w \in Waves |-> NoAddress]
  /\ alive = Queues

\* The instruction of a wave is executed.  A wave that runs goes on; one that
\* steps is stopped after it, by the hardware or, when it was stopped before
\* and the library simulates the instruction, at once.
Execute(w) ==
  /\ state[w] # "absent"
  /\ done' = [done EXCEPT ![w] = at[w]]
  /\ \E next \in Succ[at[w]] : at' = [at EXCEPT ![w] = next]
  /\ state' = [state EXCEPT ![w] = IF @ = "run" THEN "run" ELSE "stop"]
  /\ UNCHANGED alive

\* A wave is stopped, by the client or by a breakpoint: it stays where it is.
Stop(w) ==
  /\ state[w] \in {"run", "step"}
  /\ state' = [state EXCEPT ![w] = "stop"]
  /\ UNCHANGED <<at, done, alive>>

\* A stopped wave is resumed, and no other.
Resume(w) ==
  /\ state[w] = "stop"
  /\ \E mode \in {"run", "step"} : state' = [state EXCEPT ![w] = mode]
  /\ UNCHANGED <<at, done, alive>>

\* The library lets go of the process: a wave that steps or is stopped runs on
\* from where it is.
Free(W) ==
  /\ \A w \in W : state[w] \in {"step", "stop"}
  /\ state' = [w \in Waves |-> IF w \in W THEN "run" ELSE state[w]]
  /\ UNCHANGED <<at, done, alive>>

\* The waves of W are no more.
Vanish(W) ==
  /\ state' = [w \in Waves |-> IF w \in W THEN "absent" ELSE state[w]]
  /\ at' = [w \in Waves |-> IF w \in W THEN NoAddress ELSE at[w]]
  /\ done' = [w \in Waves |-> IF w \in W THEN NoAddress ELSE done[w]]
  /\ UNCHANGED alive

\* As long as its queue is there, only its last instruction ends a wave.
End(w) ==
  /\ state[w] # "absent"
  /\ Kind[at[w]] = "end"
  /\ Vanish({w})

\* The inferior destroys queues, and the waves of such a queue are dropped.
Lose(Q) ==
  /\ alive' = alive \ Q
  /\ UNCHANGED <<state, at, done>>

Drop(q) ==
  /\ q \notin alive
  /\ Vanish({w \in Waves : QueueOf[w] = q})

Next ==
  \/ \E w \in Waves : Execute(w) \/ Stop(w) \/ Resume(w) \/ End(w)
  \/ \E W \in SUBSET Waves : Free(W)
  \/ \E Q \in SUBSET Queues : Lose(Q)
  \/ \E q \in Queues : Drop(q)

Spec == Init /\ [][Next]_stepVars

===============================================================================
