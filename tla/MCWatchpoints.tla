--------------------------- MODULE MCWatchpoints ---------------------------
(* Small instances of Watchpoints.                                         *)
EXTENDS Watchpoints, TLC

CONSTANTS w1, p1, p2, p3

MCShareKind == <<"unshared", "shared">>

(* Heap addresses are only compared.                                       *)
HeapSymmetry == Permutations(Heap)
=============================================================================
