----------------------------- MODULE WatchRange -----------------------------
(***************************************************************************)
(* The range a watchpoint really watches: the smallest one the agents can  *)
(* match with a mask (the constructor of watchpoint_t, watchpoint.cpp).    *)
(* Addresses and masks have AddressBits bits.                              *)
(***************************************************************************)
EXTENDS Integers, FiniteSets, FiniteSetsExt, Bitwise

CONSTANT AddressBits    \* bits of an address, 64 in the library

ASSUME WatchRangeAssumption == AddressBits \in Nat \ {0}

Modulus  == 2^AddressBits
Neg(x)   == (Modulus - x) % Modulus
Compl(x) == Modulus - 1 - x

next_power_of_two(x) ==
    Min({2^b : b \in {n \in 0..AddressBits : 2^n >= x}}) % Modulus

(* The bits that every agent can program.                                  *)
programmable_mask_bits(masks) ==
    FoldSet(LAMBDA m, acc : m & acc, Modulus - 1, masks)

StableBits(first, last) == Neg(next_power_of_two((first ^^ last) + 1))

(* Mutant: the bits below the programmable ones are not masked out.        *)
WatchRangeUnmasked(address, size, masks) ==
    LET n == Neg(StableBits(address, address + size - 1))
    IN [error |-> "none", address |-> address & Neg(n), size |-> n]

watch_range(address, size, masks) ==
    LET B == programmable_mask_bits(masks)
        A == Compl(B | (B - 1))
        C == Compl(A | B)
        stable  == StableBits(address, address + size - 1)
        end     == ((address + Compl(A)) % Modulus) & A
        clamped == StableBits(address, (end - 1) % Modulus)
        bits    == IF stable < A THEN clamped ELSE stable
        n       == Neg(bits & Compl(C))
    IN IF stable < A /\ clamped < A THEN [error |-> "assertion", address |-> 0, size |-> 0]
       ELSE [error |-> "none", address |-> address & Neg(n), size |-> n]
=============================================================================
