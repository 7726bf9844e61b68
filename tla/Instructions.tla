---------------------------- MODULE Instructions ----------------------------
(***************************************************************************)
(* How the architectures decode the instructions that read or change the   *)
(* pc, how they classify them for the client, and how they simulate them   *)
(* instead of stepping them on the hardware (architecture.cpp).            *)
(*                                                                         *)
(* An instruction is a record of its encoding (format, opcode, operands)   *)
(* and of the disassembler's verdict on it.  A register is a word of       *)
(* WordBits bits, a wave has two words of lanes, and an address is a pair  *)
(* of words.                                                               *)
(***************************************************************************)
EXTENDS Integers, FiniteSets, Sequences, TLC, Bitwise

CONSTANTS
    WordBits,   \* bits of a word, 32 in the hardware
    NumSgprs    \* scalar registers the wave has allocated

ASSUME InstructionsAssumption == WordBits \in Nat \ {0} /\ NumSgprs \in Nat \ {0}

InstructionArchs == {"gfx9", "gfx940", "gfx10", "gfx11", "gfx12"}
OnGfx9(i) == i.arch \in {"gfx9", "gfx940"}

-----------------------------------------------------------------------------
(* Decoding: the predicates is_endpgm, is_trap, ... as one set of kinds.   *)
(* A table gives the opcodes of each kind in each format.                  *)

Size == 4
Word == 2^WordBits
Even(operand) == operand % 2 = 0

(* is_sopp_encoding, is_sop1_encoding, is_sop2_encoding, is_sopk_encoding. *)
Encoded(i, fmt, ops) == i.fmt = fmt /\ i.op \in ops

cbranch_opcodes_gfx9 ==
    4 :> "scc0" @@ 5 :> "scc1" @@ 6 :> "vccz" @@ 7 :> "vccnz" @@ 8 :> "execz"
    @@ 9 :> "execnz" @@ 23 :> "cdbgsys" @@ 24 :> "cdbguser"
    @@ 25 :> "cdbgsys_or_user" @@ 26 :> "cdbgsys_and_user"
cbranch_opcodes_gfx11 ==
    33 :> "scc0" @@ 34 :> "scc1" @@ 35 :> "vccz" @@ 36 :> "vccnz"
    @@ 37 :> "execz" @@ 38 :> "execnz" @@ 39 :> "cdbgsys" @@ 40 :> "cdbguser"
    @@ 41 :> "cdbgsys_or_user" @@ 42 :> "cdbgsys_and_user"
cbranch_opcodes_gfx12 ==
    33 :> "scc0" @@ 34 :> "scc1" @@ 35 :> "vccz" @@ 36 :> "vccnz"
    @@ 37 :> "execz" @@ 38 :> "execnz"

(* Instructions of the SOPP format have no register operand, and are       *)
(* recognised without asking the disassembler.                             *)
Sopp_gfx9 == [endpgm |-> {1}, trap |-> {18}, sethalt |-> {13},
              barrier |-> {10}, sleep |-> {14}, branch |-> {2},
              cbranch |-> DOMAIN cbranch_opcodes_gfx9]
Sopp_gfx11 == [endpgm |-> {48}, trap |-> {16}, sethalt |-> {2},
               barrier |-> {61}, sleep |-> {3}, branch |-> {32},
               sendmsg |-> {54}, cbranch |-> DOMAIN cbranch_opcodes_gfx11]
Sopp_gfx12 == [Sopp_gfx11 EXCEPT !.barrier = {20},
                                 !.cbranch = DOMAIN cbranch_opcodes_gfx12]

SoppKinds(i, table) ==
    {k \in DOMAIN table : Encoded(i, "sopp", table[k])}

Kinds_gfx9(i) ==
    SoppKinds(i, Sopp_gfx9)
    \cup {k \in {"call", "getpc", "setpc", "swappc", "i_fork", "g_fork", "join"} :
            /\ i.valid
            /\ CASE k = "call"   -> Encoded(i, "sopk", {21}) /\ Even(i.dst)
                 [] k = "i_fork" -> Encoded(i, "sopk", {16}) /\ Even(i.dst)
                 [] k = "getpc"  -> Encoded(i, "sop1", {28}) /\ Even(i.dst)
                 [] k = "setpc"  -> Encoded(i, "sop1", {29}) /\ Even(i.src0)
                 [] k = "swappc" -> Encoded(i, "sop1", {30}) /\ Even(i.src0)
                                    /\ Even(i.dst)
                 [] k = "g_fork" -> Encoded(i, "sop2", {41}) /\ Even(i.src0)
                                    /\ Even(i.src1)
                 [] k = "join"   -> Encoded(i, "sop1", {46})}

Kinds_gfx10(i) ==
    SoppKinds(i, Sopp_gfx9)
    \cup {k \in {"code_end"} : Encoded(i, "sopp", {31})}
    \cup {k \in {"call", "getpc", "setpc", "swappc", "loop_begin", "loop_end"} :
            /\ i.valid
            /\ CASE k = "call"       -> Encoded(i, "sopk", {22}) /\ Even(i.dst)
                 [] k = "getpc"      -> Encoded(i, "sop1", {31}) /\ Even(i.dst)
                 [] k = "setpc"      -> Encoded(i, "sop1", {32})
                 [] k = "swappc"     -> Encoded(i, "sop1", {33}) /\ Even(i.src0)
                 [] k = "loop_begin" -> Encoded(i, "sopk", {27})
                 [] k = "loop_end"   -> Encoded(i, "sopk", {28})}

Jumps_gfx11(i) ==
    {k \in {"call", "getpc", "setpc", "swappc"} :
        CASE k = "call"   -> Encoded(i, "sopk", {20})
          [] k = "getpc"  -> Encoded(i, "sop1", {71})
          [] k = "setpc"  -> Encoded(i, "sop1", {72})
          [] k = "swappc" -> Encoded(i, "sop1", {73})}

Kinds_gfx11(i) ==
    SoppKinds(i, Sopp_gfx11) \cup Jumps_gfx11(i)
    \cup {k \in {"code_end"} : Encoded(i, "sopp", {31})}
    \cup {k \in {"loop_begin", "loop_end"} :
            i.valid /\ Encoded(i, "sopk", IF k = "loop_begin" THEN {22} ELSE {23})}

Kinds_gfx12(i) ==
    SoppKinds(i, Sopp_gfx12) \cup Jumps_gfx11(i)
    \cup {k \in {"code_end"} : Encoded(i, "sopp", {31})}

Kinds(i) == CASE OnGfx9(i) -> Kinds_gfx9(i)
              [] i.arch = "gfx10" -> Kinds_gfx10(i)
              [] i.arch = "gfx11" -> Kinds_gfx11(i)
              [] i.arch = "gfx12" -> Kinds_gfx12(i)

(* What follows is about a decoded instruction, which carries its kinds.   *)
Decoded(i) == i @@ [kinds |-> Kinds(i)]
Is(i, kinds) == i.kinds \cap kinds # {}

cbranch_condition_code(i) ==
    CASE i.arch = "gfx12" -> cbranch_opcodes_gfx12[i.op]
      [] i.arch = "gfx11" -> cbranch_opcodes_gfx11[i.op]
      [] OTHER -> cbranch_opcodes_gfx9[i.op]

(* is_sequential lists the opcodes that are not.                           *)
NonSequential_gfx9 ==
    [sopp |-> {1, 2, 4, 5, 6, 7, 8, 9, 23, 24, 25, 26}, sop1 |-> {29, 30, 46},
     sop2 |-> {41}, sopk |-> {16, 21}]
NonSequential_gfx10 ==
    [sopp |-> {1, 2, 4, 5, 6, 7, 8, 9, 23, 24, 25, 26}, sop1 |-> {32, 33},
     sop2 |-> {}, sopk |-> {22, 27, 28}]
NonSequential_gfx11 ==
    [sopp |-> {48} \cup 32..42, sop1 |-> {72, 73}, sop2 |-> {},
     sopk |-> {20, 22, 23}]
NonSequential_gfx12 ==
    [sopp |-> {48} \cup 32..38, sop1 |-> {72, 73}, sop2 |-> {}, sopk |-> {20}]

is_sequential(i) ==
    LET table == CASE OnGfx9(i) -> NonSequential_gfx9
                   [] i.arch = "gfx10" -> NonSequential_gfx10
                   [] i.arch = "gfx11" -> NonSequential_gfx11
                   [] i.arch = "gfx12" -> NonSequential_gfx12
    IN i.valid /\ ~(i.fmt \in DOMAIN table /\ i.op \in table[i.fmt])

-----------------------------------------------------------------------------
(* The register an operand names: NoReg for a constant or a literal.       *)

NullReg == 200
ExecLo == 126
ExecHi == 127
NoReg == -1

scalar_operand_gfx9(o) ==
    CASE o \in 108..123 -> NullReg        \* a ttmp, without privilege
      [] o \in (0..107) \cup {124, ExecLo, ExecHi} -> o
      [] OTHER -> NoReg
scalar_operand_gfx10(o) == IF o = 125 THEN NullReg ELSE scalar_operand_gfx9(o)

scalar_operand_to_regnum(i, o) == IF OnGfx9(i) THEN scalar_operand_gfx9(o)
                                  ELSE scalar_operand_gfx10(o)
HasReg(i, o) == scalar_operand_to_regnum(i, o) # NoReg

-----------------------------------------------------------------------------
(* Which instructions are stepped out of line, and which are simulated.    *)

Dealloc(i) == i.arch \in {"gfx11", "gfx12"} /\ Is(i, {"sendmsg"})
              /\ i.imm % 256 = 3          \* MSG_DEALLOC_VGPRS

can_execute_displaced_base(i) ==
    /\ i.valid
    /\ ~Is(i, {"branch", "cbranch", "i_fork", "call"})
    /\ ~Is(i, {"g_fork", "join", "getpc", "setpc", "swappc"})
can_execute_displaced_gfx10(i) ==
    ~Is(i, {"loop_begin", "loop_end"}) /\ can_execute_displaced_base(i)
can_execute_displaced_gfx11(i) ==
    ~Dealloc(i) /\ can_execute_displaced_gfx10(i)
can_execute_displaced(i) ==
    CASE OnGfx9(i) -> can_execute_displaced_base(i)
      [] i.arch = "gfx10" -> can_execute_displaced_gfx10(i)
      [] OTHER -> can_execute_displaced_gfx11(i)

(* g_fork is not among the simulated ones: the code tests i_fork twice.    *)
can_simulate_base(i) ==
    CASE Is(i, {"getpc", "call", "i_fork"}) -> HasReg(i, i.dst)
      [] Is(i, {"setpc"}) -> HasReg(i, i.src0)
      [] Is(i, {"swappc"}) -> HasReg(i, i.src0) /\ HasReg(i, i.dst)
      [] OTHER -> Is(i, {"branch", "cbranch", "join", "endpgm"})
can_simulate_gfx10(i, lanes) ==
    /\ i.valid
    /\ IF Is(i, {"loop_begin", "loop_end"})
         THEN HasReg(i, i.dst) /\ lanes = 2 * WordBits
         ELSE can_simulate_base(i)
can_simulate_gfx11(i, lanes) ==
    i.valid /\ (Dealloc(i) \/ can_simulate_gfx10(i, lanes))
can_simulate(i, lanes) ==
    CASE OnGfx9(i) -> can_simulate_base(i)
      [] i.arch = "gfx10" -> can_simulate_gfx10(i, lanes)
      [] OTHER -> can_simulate_gfx11(i, lanes)

-----------------------------------------------------------------------------
(* The wave m, and reading and writing its scalar registers: a register    *)
(* beyond those allocated reads as s0, and a write to it is dropped.       *)

read_register(m, r) ==
    CASE r = NullReg -> 0
      [] r = ExecLo -> m.exec % Word
      [] r = ExecHi -> m.exec \div Word
      [] r \in DOMAIN m.s -> m.s[r]
      [] OTHER -> m.s[0]
write_register(m, r, v) ==
    CASE r = ExecLo -> [m EXCEPT !.exec = v + Word * (m.exec \div Word)]
      [] r = ExecHi -> [m EXCEPT !.exec = (m.exec % Word) + Word * v]
      [] r \in DOMAIN m.s -> [m EXCEPT !.s[r] = v]
      [] OTHER -> m

Pair(m, r) == read_register(m, r) + Word * read_register(m, r + 1)
WritePair(m, r, v) ==
    write_register(write_register(m, r, v % Word), r + 1, v \div Word)

LanesOf(mask) == {l \in 0..(2 * WordBits - 1) : (mask \div 2^l) % 2 = 1}
MaskReg(i) == scalar_operand_to_regnum(i, IF Is(i, {"i_fork"}) THEN i.dst ELSE i.src0)
Pass(m, i) == Pair(m, MaskReg(i)) & m.exec
Fail(m, i) == m.exec - Pass(m, i)
StackTop(csp) == 4 * csp

-----------------------------------------------------------------------------
(* is_branch_taken and branch_target.  The condition bits are those of the *)
(* status register; on gfx12 scc is in state_priv.                         *)

Condition(code, status) ==
    CASE code = "scc0" -> ~status.scc
      [] code = "scc1" -> status.scc
      [] code = "execz" -> status.execz
      [] code = "execnz" -> ~status.execz
      [] code = "vccz" -> status.vccz
      [] code = "vccnz" -> ~status.vccz
      [] code = "cdbgsys" -> status.sys
      [] code = "cdbguser" -> status.user
      [] code = "cdbgsys_or_user" -> status.sys \/ status.user
      [] code = "cdbgsys_and_user" -> status.sys /\ status.user

is_branch_taken_gfx12(m, i) ==
    Is(i, {"cbranch"}) => Condition(cbranch_condition_code(i), m.status)

is_branch_taken(m, i) ==
    CASE Is(i, {"cbranch"}) -> Condition(cbranch_condition_code(i), m.status)
      [] Is(i, {"i_fork", "g_fork"}) ->
           IF Pass(m, i) = m.exec THEN TRUE
           ELSE IF Fail(m, i) = m.exec THEN FALSE
           ELSE Cardinality(LanesOf(Fail(m, i))) >= Cardinality(LanesOf(Pass(m, i)))
      [] Is(i, {"join"}) ->
           m.csp # read_register(m, scalar_operand_to_regnum(i, i.src0))
      [] OTHER -> TRUE
Taken(m, i) == IF i.arch = "gfx12" THEN is_branch_taken_gfx12(m, i)
                                   ELSE is_branch_taken(m, i)

Relative(pc, i) == pc + Size + 4 * i.imm
align_down(address, n) == (address \div n) * n

branch_target_base(m, i) ==
    align_down(
      CASE Is(i, {"branch", "call", "cbranch", "i_fork"}) -> Relative(m.pc, i)
        [] Is(i, {"g_fork"}) -> Pair(m, scalar_operand_to_regnum(i, i.src1))
        [] Is(i, {"setpc", "swappc"}) -> Pair(m, scalar_operand_to_regnum(i, i.src0))
        [] Is(i, {"join"}) -> Pair(m, StackTop(m.csp - 1) + 2),
      Size)
branch_target(m, i) == IF Is(i, {"loop_begin", "loop_end"}) THEN Relative(m.pc, i)
                                                            ELSE branch_target_base(m, i)

-----------------------------------------------------------------------------
(* classify_instruction: the kind shown to the client, the target of a     *)
(* direct branch and the registers of an indirect one or of a call.        *)

classify_base(pc, i) ==
    LET direct == [target |-> Relative(pc, i), src |-> NoReg]
        via(o) == [target |-> NoReg, src |-> scalar_operand_to_regnum(i, o)]
        other  == [target |-> NoReg, src |-> NoReg]
        class(k, info) == [kind |-> k] @@ info
    IN CASE Is(i, {"branch"}) -> class("direct_branch", direct)
         [] Is(i, {"cbranch", "i_fork"}) -> class("direct_branch_conditional", direct)
         [] Is(i, {"g_fork"}) -> class("indirect_branch_conditional", via(i.src1))
         [] Is(i, {"join"}) -> class("special", other)
         [] Is(i, {"setpc"}) -> class("indirect_branch", via(i.src0))
         [] Is(i, {"call"}) -> class("direct_call", direct)
         [] Is(i, {"swappc"}) -> class("indirect_call", via(i.src0))
         [] Is(i, {"endpgm"}) -> class("terminate", other)
         [] Is(i, {"trap"}) -> class("trap", other)
         [] Is(i, {"sethalt"}) /\ i.imm % 2 = 1 -> class("halt", other)
         [] Is(i, {"barrier"}) -> class("barrier", other)
         [] Is(i, {"sleep"}) -> class("sleep", other)
         [] OTHER -> class(IF is_sequential(i) THEN "sequential" ELSE "unknown", other)

classify_instruction(pc, i) ==
    CASE Is(i, {"loop_begin", "loop_end"}) ->
           [kind |-> "direct_branch_conditional", target |-> Relative(pc, i),
            src |-> NoReg]
      [] Is(i, {"code_end"}) -> [kind |-> "unknown", target |-> NoReg, src |-> NoReg]
      [] OTHER -> classify_base(pc, i)

-----------------------------------------------------------------------------
(* simulate_instruction: the wave after the instruction at its pc.         *)

\* Mutant: the lanes that go on are saved.
ForkSwapped(m, i) ==
    LET taken == is_branch_taken(m, i)
        saved == WritePair(m, StackTop(m.csp),
                           IF taken THEN Pass(m, i) ELSE Fail(m, i))
        pcs   == WritePair(saved, StackTop(m.csp) + 2,
                           IF taken THEN m.pc + Size ELSE branch_target(m, i))
    IN IF Pass(m, i) = m.exec \/ Fail(m, i) = m.exec THEN m
       ELSE [pcs EXCEPT !.csp = @ + 1,
                        !.exec = IF taken THEN Pass(m, i) ELSE Fail(m, i)]

(* The lanes part: those of the path not taken first are pushed on the     *)
(* stack in s0 and above, with the pc they go on from.                     *)
SimulateFork(m, i) ==
    LET taken == is_branch_taken(m, i)
        saved == WritePair(m, StackTop(m.csp),
                           IF taken THEN Fail(m, i) ELSE Pass(m, i))
        pcs   == WritePair(saved, StackTop(m.csp) + 2,
                           IF taken THEN m.pc + Size ELSE branch_target(m, i))
    IN IF Pass(m, i) = m.exec \/ Fail(m, i) = m.exec THEN m
       ELSE [pcs EXCEPT !.csp = @ + 1,
                        !.exec = IF taken THEN Pass(m, i) ELSE Fail(m, i)]

SimulateJoin(m, i) ==
    IF is_branch_taken(m, i)
      THEN [m EXCEPT !.csp = @ - 1, !.exec = Pair(m, StackTop(m.csp - 1))]
      ELSE m

(* The new pc is computed from the registers after the change.             *)
simulate_base(m, i) ==
    LET after == CASE Is(i, {"i_fork", "g_fork"}) -> SimulateFork(m, i)
                   [] Is(i, {"join"}) -> SimulateJoin(m, i)
                   [] Is(i, {"call", "getpc", "swappc"}) ->
                        WritePair(m, scalar_operand_to_regnum(i, i.dst), m.pc + Size)
                   [] OTHER -> m
    IN IF Is(i, {"endpgm"}) THEN [m EXCEPT !.ended = TRUE]
       ELSE [after EXCEPT !.pc = IF is_sequential(i) \/ ~Taken(after, i)
                                   THEN m.pc + Size ELSE branch_target(after, i)]

(* A loop over the two halves of a wave: the half that waits is in s0.     *)
SimulateLoopBegin(m, i) ==
    LET reg  == scalar_operand_to_regnum(i, i.dst)
        lo   == read_register(m, ExecLo)
        hi   == read_register(m, ExecHi)
        next == [m EXCEPT !.pc = @ + Size]
    IN CASE lo = 0 /\ hi = 0 -> [m EXCEPT !.pc = branch_target(m, i)]
         [] lo = 0 /\ hi # 0 -> write_register(next, reg, lo)
         [] OTHER -> write_register(write_register(next, reg, hi), ExecHi, 0)

SimulateLoopEnd(m, i) ==
    LET reg  == scalar_operand_to_regnum(i, i.dst)
        lo   == read_register(m, ExecLo)
        hi   == read_register(m, ExecHi)
        s0   == read_register(m, reg)
        next == [m EXCEPT !.pc = @ + Size]
    IN CASE hi # 0 -> write_register(next, ExecLo, s0)
         [] hi = 0 /\ s0 # 0 ->
              [write_register(write_register(write_register(m, ExecHi, s0), ExecLo, 0),
                              reg, lo)
                 EXCEPT !.pc = branch_target(m, i)]
         [] OTHER -> next

simulate_gfx10(m, i) == CASE Is(i, {"loop_begin"}) -> SimulateLoopBegin(m, i)
                          [] Is(i, {"loop_end"}) -> SimulateLoopEnd(m, i)
                          [] OTHER -> simulate_base(m, i)

(* The architectures with precise steps flag the step, unless the wave has *)
(* ended; on gfx11 and gfx12 the vector registers may be given up.         *)
Flagged(m) == IF m.ended THEN m ELSE [m EXCEPT !.flagged = TRUE]
GiveUpVgprs(m) == [m EXCEPT !.no_vgprs = TRUE, !.pc = @ + Size]

simulate_gfx940(m, i) == Flagged(simulate_base(m, i))
simulate_gfx11(m, i) ==
    Flagged(IF Dealloc(i) THEN GiveUpVgprs(m) ELSE simulate_gfx10(m, i))
simulate_gfx12(m, i) ==
    Flagged(IF Dealloc(i) THEN GiveUpVgprs(m) ELSE simulate_gfx10(m, i))

simulate_instruction(m, i) ==
    CASE i.arch = "gfx9" -> simulate_base(m, i)
      [] i.arch = "gfx940" -> simulate_gfx940(m, i)
      [] i.arch = "gfx10" -> simulate_gfx10(m, i)
      [] i.arch = "gfx11" -> simulate_gfx11(m, i)
      [] i.arch = "gfx12" -> simulate_gfx12(m, i)
=============================================================================
