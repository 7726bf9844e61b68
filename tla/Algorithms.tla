----------------------------- MODULE Algorithms -----------------------------
(***************************************************************************)
(* The computations of the library that have no interleavings: those of    *)
(* Addressing, instructions, save areas and watched ranges.  A behaviour   *)
(* starts from one input; for a program the client then steps a wave       *)
(* through it one instruction at a time: what can be simulated is          *)
(* simulated, the rest runs on the hardware.  The client may also let the  *)
(* wave run over a join.                                                   *)
(***************************************************************************)
EXTENDS Addressing, Instructions, SaveArea, WatchRange

CONSTANT Inputs     \* the inputs that are not of Addressing

-----------------------------------------------------------------------------
(* Programs: the instruction at each address.  A block is a sequential     *)
(* instruction that leaves a trace in the lanes that execute it, save_csp  *)
(* one that copies the branch stack pointer.                               *)

Insn(arch, fmt, op, dst, src, imm) ==
    [arch |-> arch, fmt |-> fmt, op |-> op, dst |-> dst, src0 |-> src,
     src1 |-> src, imm |-> imm, valid |-> TRUE, effect |-> "none"]
Block(arch, name) == [Insn(arch, "vop", 0, 0, 0, 0) EXCEPT !.effect = name]

Endpgm(arch) == Insn(arch, "sopp", IF arch \in {"gfx11", "gfx12"} THEN 48 ELSE 1, 0, 0, 0)

(* Two forks, the second on one side of the first.                         *)
ForkProgram(arch) ==
    0 :> [Block(arch, "save_csp") EXCEPT !.dst = 20]
    @@ 4  :> Insn(arch, "sopk", 16, 16, 0, 2)
    @@ 8  :> Block(arch, "A")
    @@ 12 :> Insn(arch, "sopp", 2, 0, 0, 7)
    @@ 16 :> Block(arch, "B")
    @@ 20 :> [Block(arch, "save_csp") EXCEPT !.dst = 21]
    @@ 24 :> Insn(arch, "sopk", 16, 18, 0, 2)
    @@ 28 :> Block(arch, "C")
    @@ 32 :> Insn(arch, "sopp", 2, 0, 0, 1)
    @@ 36 :> Block(arch, "D")
    @@ 40 :> Insn(arch, "sop1", 46, 0, 21, 0)
    @@ 44 :> Insn(arch, "sop1", 46, 0, 20, 0)
    @@ 48 :> Endpgm(arch)

(* A loop over the halves of a wave.                                       *)
LoopProgram(arch) ==
    LET enter == IF arch = "gfx10" THEN 27 ELSE 22 IN
    0 :> Insn(arch, "sopk", enter, 20, 0, 2)
    @@ 4  :> Block(arch, "A")
    @@ 8  :> Insn(arch, "sopk", enter + 1, 20, 0, -2)
    @@ 12 :> Endpgm(arch)

(* A direct and an indirect call.                                          *)
CallProgram(arch) ==
    LET call  == CASE arch \in {"gfx9", "gfx940"} -> 21 [] arch = "gfx10" -> 22
                   [] OTHER -> 20
        getpc == CASE arch \in {"gfx9", "gfx940"} -> 28 [] arch = "gfx10" -> 31
                   [] OTHER -> 71
    IN 0 :> Insn(arch, "sop1", getpc, 16, 0, 0)
       @@ 4  :> Insn(arch, "sopk", call, 18, 0, 4)
       @@ 8  :> Block(arch, "A")
       @@ 12 :> Insn(arch, "sop1", getpc + 2, 20, 22, 0)
       @@ 16 :> Block(arch, "B")
       @@ 20 :> Endpgm(arch)
       @@ 24 :> Block(arch, "C")
       @@ 28 :> Insn(arch, "sop1", getpc + 1, 0, 18, 0)
       @@ 32 :> Block(arch, "D")
       @@ 36 :> Insn(arch, "sop1", getpc + 1, 0, 20, 0)

Program(c) == CASE c.program = "fork" -> ForkProgram(c.arch)
                [] c.program = "loop" -> LoopProgram(c.arch)
                [] c.program = "call" -> CallProgram(c.arch)

Lanes == 0..(2 * WordBits - 1)

(* The wave before its program: the masks are in s16 and s18, and the      *)
(* address of the second function in s22.                                  *)
Start(c) ==
    LET regs == [r \in 0..(NumSgprs - 1) |-> 0]
        m == [pc |-> 0, s |-> regs, exec |-> c.exec, csp |-> 0,
              status |-> [scc |-> FALSE, vccz |-> FALSE, execz |-> c.exec = 0,
                          sys |-> FALSE, user |-> FALSE],
              ended |-> FALSE, flagged |-> FALSE, no_vgprs |-> FALSE,
              ran |-> [l \in Lanes |-> <<>>]]
    IN WritePair(WritePair(WritePair(m, 16, c.mask1), 18, c.mask2), 22, 32)

(* The hardware: what a block, a copy of csp and a join do.                *)
HwExecute(m, i) ==
    CASE i.effect = "save_csp" -> [m EXCEPT !.s[i.dst] = m.csp, !.pc = @ + Size]
      [] i.effect \notin {"none", "save_csp"} ->
           [m EXCEPT !.ran = [l \in Lanes |-> IF l \in LanesOf(m.exec)
                                                THEN Append(@[l], i.effect) ELSE @[l]],
                     !.pc = @ + Size]
      [] Is(i, {"join"}) ->
           IF m.csp = m.s[i.src0] THEN [m EXCEPT !.pc = @ + Size]
           ELSE [m EXCEPT !.csp = @ - 1,
                          !.exec = Pair(m, StackTop(m.csp - 1)),
                          !.pc = Pair(m, StackTop(m.csp - 1) + 2)]

Execute(m, i) ==
    IF can_simulate(i, 2 * WordBits) THEN simulate_instruction(m, i)
                                     ELSE HwExecute(m, i)

(* Do lanes wait for the wave at this join?                                *)
LanesWait(m, i) == Is(i, {"join"}) /\ m.csp # m.s[i.src0]

AtInsn == Decoded(Program(case)[case.m.pc])

(* What a step of a join does to waiting lanes is remembered in astray.    *)
StepProgram ==
    /\ case.tag = "program"
    /\ ~case.m.ended
    /\ case' = [case EXCEPT !.m = Execute(@, AtInsn),
                            !.astray = @ \/ LanesWait(case.m, AtInsn)]

RunOverJoin ==
    /\ case.tag = "program"
    /\ ~case.m.ended
    /\ Is(AtInsn, {"join"})
    /\ case' = [case EXCEPT !.m = HwExecute(@, AtInsn)]

AlgorithmsInit ==
    \/ Init
    \/ \E c \in Inputs : 
          case = IF c.tag = "program" THEN c @@ [m |-> Start(c), astray |-> FALSE] ELSE c
AlgorithmsNext == StepProgram \/ RunOverJoin \/ StepTransfer
AlgorithmsSpec == AlgorithmsInit /\ [][AlgorithmsNext]_case /\ WF_case(StepTransfer)

-----------------------------------------------------------------------------
(* Properties of the instructions.                                         *)

(* The blocks each lane must go through, and the lanes active at the end.  *)
Expected(c, l) ==
    CASE l \notin LanesOf(c.exec) -> <<>>
      [] c.program = "fork" /\ l \in LanesOf(c.exec) ->
           IF l \notin LanesOf(c.mask1) THEN <<"A">>
           ELSE IF l \in LanesOf(c.mask2) THEN <<"B", "D">> ELSE <<"B", "C">>
      [] c.program = "loop" /\ l \in LanesOf(c.exec) -> <<"A">>
      [] c.program = "call" /\ l \in LanesOf(c.exec) -> <<"C", "A", "D", "B">>

Finished ==
    /\ \A l \in Lanes : case.m.ran[l] = Expected(case, l)
    /\ case.program \in {"loop", "call"} => case.m.exec = case.exec
    /\ case.program = "call" => Pair(case.m, 16) = 4

(* A program stepped by the client does what it does on its own: every     *)
(* lane goes through its own blocks, once and in order.  The simulation of *)
(* s_cbranch_join breaks it: having popped the waiting lanes, it computes  *)
(* the pc they go on from after the pop (simulate_instruction).            *)
LanesRunOnce == (case.tag = "program" /\ case.m.ended) => Finished

(* A program stepped by the client takes no lane through a block that is   *)
(* not its own, twice or out of order, and it ends with every lane through *)
(* all of its blocks, a call returned behind itself and the lanes of a     *)
(* loop over halves active again, whatever lanes are active and however    *)
(* they part, unless lanes waited at a join that was stepped.  A step of   *)
(* that join also pops the right lanes, and only the pc it gives them is   *)
(* wrong; of a join at which none wait it is right (simulate_instruction). *)
LanesKeepTheirPath ==
    case.tag = "program" =>
        /\ \A l \in Lanes : IsPrefix(case.m.ran[l], Expected(case, l))
        /\ (case.m.ended /\ ~case.astray) => Finished
        /\ (~case.m.ended /\ Is(AtInsn, {"join"})) =>
             LET stepped == Execute(case.m, AtInsn)
                 run     == [HwExecute(case.m, AtInsn) EXCEPT !.flagged = stepped.flagged]
             IN stepped = IF LanesWait(case.m, AtInsn)
                            THEN [run EXCEPT !.pc = stepped.pc] ELSE run

RegisterOperands(i) ==
    HasReg(i, i.dst) /\ HasReg(i, i.src0) /\ HasReg(i, i.src1)
    /\ Even(i.dst) /\ Even(i.src0) /\ Even(i.src1)

(* The tables of an architecture agree: an instruction is of one kind, it  *)
(* is sequential exactly when no kind of it leaves the sequence, every     *)
(* instruction that is not sequential is simulated (wave_get_state of gfx9 *)
(* relies on it) and none is both simulated and stepped out of line, and   *)
(* the client is told the target the simulation goes to.  Nothing is said  *)
(* of stepping s_cbranch_g_fork: can_execute_displaced leaves it to the    *)
(* simulation, and can_simulate asks for i_fork a second time instead.     *)
DecodesAs(i, class) ==
    LET leaves == {"endpgm", "branch", "cbranch", "call", "setpc", "swappc",
                   "i_fork", "g_fork", "join", "loop_begin", "loop_end"}
        lanes == 2 * WordBits
    IN /\ Cardinality(i.kinds) <= 1
       /\ (i.valid /\ RegisterOperands(i)) =>
            /\ is_sequential(i) <=> ~Is(i, leaves)
            /\ (~is_sequential(i) /\ ~Is(i, {"g_fork"})) => can_simulate(i, lanes)
            /\ is_sequential(i) => (can_simulate(i, lanes) \/ can_execute_displaced(i))
            /\ (can_simulate(i, lanes) /\ can_execute_displaced(i))
                 => Is(i, {"endpgm"})
            /\ class.kind \in {"direct_branch", "direct_branch_conditional",
                               "direct_call"}
                 => class.target = branch_target([pc |-> 16], i)
            /\ (class.kind = "unknown") = Is(i, {"code_end"})
DecodeConsistent ==
    case.tag = "instruction" =>
        DecodesAs(Decoded(case.insn), classify_instruction(16, Decoded(case.insn)))

(* An instruction is decoded once for all: what is simulated, displaced    *)
(* and classified is the same instruction (can_simulate, simulate,         *)
(* classify_instruction), and stepping a program keeps every lane on its   *)
(* path, up to the pc that a simulated join gives to waiting lanes.        *)
InstructionsAgree == LanesKeepTheirPath /\ DecodeConsistent

-----------------------------------------------------------------------------
(* Properties of the save area.                                            *)

(* A control stack is given as blocks; from gfx10 on the second word of a  *)
(* state may look like any entry.                                          *)
StackOf(arch, blocks) ==
    LET word2 == [kind |-> "wave", first |-> TRUE, last |-> TRUE]
        words(b) == IF b.kind = "state" /\ arch \notin Gfx9Archs THEN <<b, word2>> ELSE <<b>>
        header == [kind |-> "event"]
    IN FoldLeft(LAMBDA acc, b : acc \o words(b), <<header, header>>, blocks)

StateAt(blocks, n) ==
    blocks[Max({k \in 1..(n - 1) : blocks[k].kind = "state"})].state
WaveBlocks(blocks) == {n \in DOMAIN blocks : blocks[n].kind = "wave"}

(* The words of a record, from the sizes the state gives.                  *)
RecordWords(r) ==
    (IF r.first THEN lds_size(r) ELSE 0) + 32 + sgpr_count(r)
    + (vgpr_count(r) + acc_vgpr_count(r)) * lane_count(r)
    + shared_vgpr_count(r) * 32
PaddingWords(arch) == IF arch \in Gfx9Archs THEN 16 ELSE 0

(* The records rs, read with the state before them, fill base down to bottom. *)
Tile(blocks, base, pad, rs, bottom) ==
    LET above(k) == FoldSet(LAMBDA j, n : n + RecordWords(rs[j]) + pad, 0, 1..(k - 1))
    IN /\ Len(rs) = Cardinality(WaveBlocks(blocks))
       /\ bottom = base - above(Len(rs) + 1)
       /\ \A k \in DOMAIN rs :
            LET n == CHOOSE x \in WaveBlocks(blocks) :
                         Cardinality({y \in WaveBlocks(blocks) : y <= x}) = k
                state == StateAt(blocks, n)
            IN /\ \A f \in DOMAIN state : rs[k][f] = state[f]
               /\ rs[k].first = blocks[n].first
               /\ rs[k].top = base - above(k) - pad
               /\ \A reg \in register_set(rs[k].arch) :
                    (~Pseudo(reg) /\ is_register_available(rs[k], reg)) =>
                        Words(rs[k], reg)
                          \subseteq (rs[k].top - RecordWords(rs[k]))..(rs[k].top - 1)
(* Walking the control stack downwards finds the waves of the save area:   *)
(* one record per wave entry, read with the latest state, the records and  *)
(* their padding laid end to end (control_stack_iterate), and the words of *)
(* every register inside the record of its own wave (register_address).    *)
RecordsTile ==
    case.tag = "stack" =>
        LET base  == 100000
            found == control_stack_iterate(case.arch, StackOf(case.arch, case.blocks), base)
        IN Tile(case.blocks, base, PaddingWords(case.arch), found.records, found.bottom)

(* Of two registers whose words meet, the one written says that the other  *)
(* must be read again (register_properties): a client that caches          *)
(* registers and honours the properties never shows a stale value.  The    *)
(* exception is the saved halt bit, in ttmp6 and in the status.            *)
WritesDeclared ==
    case.tag = "record" =>
        LET regs == {reg \in register_set(case.r.arch) : is_register_available(case.r, reg)}
            halts == {R("pseudo_status"), R("pseudo_state_priv"), <<"ttmp", 6>>}
        IN \A a, b \in regs :
             (a # b /\ WrittenWords(case.r, a) \cap ReadWords(case.r, b) # {}) =>
                 \/ {a, b} \subseteq halts
                 \/ /\ "invalidate_volatile" \in register_properties(case.r.arch, a)
                    /\ "volatile" \in register_properties(case.r.arch, b)

(* A write of some bytes of a register changes exactly the writable bits   *)
(* among them, each to its own bit of the value (write_register).          *)
WriteExact ==
    case.tag = "write" =>
        LET mask == register_read_only_mask(case.arch, case.reg)
            new  == write_register_bytes(case.old, mask, case.offset, case.size, case.value)
        IN \A b \in 0..63 :
             b \in new <=>
               IF b \in WrittenBits(case.offset, case.size) \ mask
               THEN b - 8 * case.offset \in case.value ELSE b \in case.old

(* A register write does what it says: it changes the bits it was given,   *)
(* and of other registers only those it declares (write_register,          *)
(* write_pseudo_register, register_properties).                            *)
WritesExact == WriteExact /\ WritesDeclared

-----------------------------------------------------------------------------
(* The property of the watched ranges.                                      *)

(* The ranges every agent can match, and how much of a request the one of  *)
(* size n that holds its first address covers.                             *)
WatchSizes(masks) ==
    LET B   == programmable_mask_bits(masks)
        low == Min({2^b : b \in {n \in 0..(AddressBits - 1) : (B \div 2^n) % 2 = 1}})
    IN {2^b : b \in {n \in 0..AddressBits : low <= 2^n /\ 2^n <= B + low}}
Covered(c, n) == Min({c.size, (c.address \div n + 1) * n - c.address})

Promised(c, r) ==
    LET sizes == WatchSizes(c.masks)
        most  == Max({Covered(c, n) : n \in sizes})
    IN /\ r.error = "none"
       /\ r.size = Min({n \in sizes : Covered(c, n) = most})
       /\ r.address = (c.address \div r.size) * r.size

Watched(c) == watch_range(c.address, c.size, c.masks)

(* A watchpoint watches the smallest range the agents can match that holds *)
(* the first address and covers as much of the request as possible, as the *)
(* header says of amd_dbgapi_set_watchpoint.  A request that starts where  *)
(* a largest range starts and is larger fails an assertion (watchpoint_t). *)
WatchAsPromised == case.tag = "watch" => Promised(case, Watched(case))

(* The range watched is the smallest that holds the first address and      *)
(* covers as much of the request as one range can, whether the request     *)
(* fits in a range or not; the assertion of the constructor fails only for *)
(* a request too large for any range that starts where a largest one does  *)
(* (watchpoint_t).                                                         *)
WatchesTheRequest ==
    case.tag = "watch" =>
        IF Watched(case).error = "assertion"
          THEN LET high == Max(WatchSizes(case.masks))
               IN case.address % high = 0 /\ case.size > high
          ELSE Promised(case, Watched(case))
=============================================================================
