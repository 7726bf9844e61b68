---------------------------- MODULE MCMemoryCache ----------------------------
(***************************************************************************)
(* Instances of MemoryCache for TLC: two waves of one queue, or one wave   *)
(* in each of two, with two or three bytes of registers.                   *)
(***************************************************************************)
EXTENDS MemoryCache

CONSTANTS w1, w2, q1, q2

\* A vector register of one or two bytes, saved below the ttmp with the id.
TwoBytes == {"v1", "id"}
ThreeBytes == {"v0", "v1", "id"}
Position == [i \in ThreeBytes |->
               CASE i = "v0" -> 0 [] i = "v1" -> 1 [] i = "id" -> 2]
ControlBytes == {"id"}
ClientRegisters == {Index \ ControlBytes}

\* The layout with the given address of each wave's first byte.
From(base) == [b \in Waves \X Index |-> base[b[1]] + Position[b[2]]]

\* Two waves of one queue, in two lines of six bytes.  Both ids are in one
\* line; in the second layout the vector register of w2 begins in the other
\* line, which nothing prefetches.
OneQueue == [w \in Waves |-> q1]
OneBase == [q \in Queues |-> 0]
OneSize == [q \in Queues |-> 12]
OneLayouts == {From([w \in Waves |-> IF w = w1 THEN 0 ELSE 3]),
               From([w \in Waves |-> IF w = w1 THEN 8 ELSE 5])}

\* A wave in each of two queues, in two lines of two bytes per queue.
TwoQueues == [w \in Waves |-> IF w = w1 THEN q1 ELSE q2]
TwoBase == [q \in Queues |-> IF q = q1 THEN 0 ELSE 4]
TwoSize == [q \in Queues |-> 4]
TwoLayouts == {From([w \in Waves |-> IF w = w1 THEN 0 ELSE 4]),
               From([w \in Waves |-> IF w = w1 THEN 1 ELSE 5])}

===============================================================================
