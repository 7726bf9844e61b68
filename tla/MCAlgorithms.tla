---------------------------- MODULE MCAlgorithms ----------------------------
(* The bounded inputs of the algorithms.                                   *)
EXTENDS Algorithms, MCAddressing

ForkCases == [tag : {"program"}, program : {"fork"}, arch : {"gfx9", "gfx940"},
              exec : {0, 1, 45, 56, 63}, mask1 : 0..63, mask2 : {0, 1, 21, 38, 63}]
LoopCases == [tag : {"program"}, program : {"loop"}, arch : {"gfx10", "gfx11"},
              exec : 0..63, mask1 : {0}, mask2 : {0}]
CallCases == [tag : {"program"}, program : {"call"}, arch : InstructionArchs,
              exec : {0, 63}, mask1 : {0}, mask2 : {0}]

Opcodes(fmt) == CASE fmt = "sopk" -> 0..31 [] fmt = "sop1" -> 0..255 [] OTHER -> 0..127
InstructionCases ==
    {[tag |-> "instruction",
      insn |-> [arch |-> a, fmt |-> e[1], op |-> e[2], dst |-> r[1], src0 |-> r[2],
                src1 |-> r[2], imm |-> n, valid |-> v]] :
        a \in InstructionArchs,
        e \in UNION {{f} \X Opcodes(f) : f \in {"sopp", "sop1", "sop2", "sopk"}},
        r \in {<<0, 2>>, <<1, 3>>, <<4, 255>>}, n \in {-1, 3}, v \in BOOLEAN}


SaveState(lds, sgprs, vgprs, accum, shared, w32) ==
    [lds |-> lds, sgprs |-> sgprs, vgprs |-> vgprs, accum |-> accum, shared |-> shared,
     w32 |-> w32]
SaveStates == {SaveState(1, 1, 0, 0, 0, FALSE), SaveState(0, 5, 1, 1, 1, TRUE),
               SaveState(2, 6, 1, 2, 0, FALSE)}

Blocks == {[kind |-> "event"]} \cup [kind : {"state"}, state : SaveStates]
          \cup [kind : {"wave"}, first : BOOLEAN, last : {FALSE}]
StackCases ==
    {[tag |-> "stack", arch |-> a, blocks |-> <<[kind |-> "state", state |-> st]>> \o bs] :
        a \in SaveAreaArchs, st \in SaveStates,
        bs \in UNION {[1..n -> Blocks] : n \in 0..3}}
RecordCases ==
    {[tag |-> "record",
      r |-> Record(a, SaveState(1, sg, vg, vg, 1, w), [first |-> TRUE, last |-> TRUE], 100000)] :
        a \in SaveAreaArchs, sg \in {1, 2, 6, 7}, vg \in {0, 1}, w \in BOOLEAN}

WriteCase(a, reg, old, value, offset, size) ==
    [tag |-> "write", arch |-> a, reg |-> reg, old |-> old, value |-> value,
     offset |-> offset, size |-> size]
Widths(reg) == IF reg = "pc" THEN 8 ELSE 4
(* Bits of the value that differ from byte to byte.                        *)
WriteValues == {{}, 0..63, {b \in 0..63 : (b \div 8) % 2 = 0}, {b \in 0..63 : b % 3 = 0}}
WritesOf(archs, registers, sizes) ==
    {WriteCase(a, reg, old, v, o[1], o[2]) :
        a \in archs, reg \in registers,
        old \in {{}, 0..31}, v \in WriteValues, o \in sizes}
Archs_12 == {"gfx12"}
Archs_9_11 == {"gfx9", "gfx940", "gfx11"}
Registers_12 == {"mode", "trap_ctrl", "excp_flag_priv", "excp_flag_user"}
Registers_9_11 == {"mode", "trapsts"}
WholeOrByte == {<<0, 4>>} \cup ((0..3) \X {1})
SomeBytes == {<<0, 2>>, <<1, 2>>, <<2, 2>>, <<1, 3>>}
WriteCases ==
    WritesOf(Archs_12, Registers_12, WholeOrByte)
    \cup WritesOf(Archs_9_11, Registers_9_11, WholeOrByte)
    \cup WritesOf({"gfx9", "gfx12"}, {"pc"}, WholeOrByte \cup {<<0, 8>>, <<7, 1>>})
    \cup WritesOf({"gfx9", "gfx12"}, {"m0"}, SomeBytes)
PartialWriteCases ==
    WritesOf(Archs_12, Registers_12, SomeBytes)
    \cup WritesOf(Archs_9_11, Registers_9_11, SomeBytes)

WatchesOf(sizes) ==
    {[tag |-> "watch", address |-> a, size |-> n, masks |-> m] :
        a \in 0..255, n \in sizes, m \in {{60}, {62, 124}, {12, 28}, {8}}}
(* The requests within the address space.                                  *)
WatchCases == {c \in WatchesOf({1, 2, 3, 4, 5, 8, 9, 16, 31, 32, 33, 64, 65, 80}) :
                 c.address + c.size <= 256}

AllInputs == ForkCases \cup LoopCases \cup CallCases \cup InstructionCases
             \cup StackCases \cup RecordCases \cup WriteCases
             \cup WatchCases

(* The inputs on which the code is not what its documentation says.        *)
FindingCases == ForkCases \cup PartialWriteCases \cup WatchCases
=============================================================================
