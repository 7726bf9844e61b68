------------------------------ MODULE SaveArea ------------------------------
(***************************************************************************)
(* Where the registers of a wave are when its queue is suspended: the      *)
(* control stack that lists the waves, the record of a wave in the save    *)
(* area, the registers the client is shown, and what reading or writing    *)
(* one of them touches (architecture.cpp, register.cpp, wave.cpp).         *)
(*                                                                         *)
(* Addresses and sizes are in words of 4 bytes.  A register is a pair of a *)
(* name and an index; the index is 0 for the registers that have none.     *)
(***************************************************************************)
EXTENDS Integers, FiniteSets, Sequences, SequencesExt, FiniteSetsExt

SaveAreaArchs == {"gfx9", "gfx908", "gfx90a", "gfx10", "gfx11", "gfx12"}
Gfx9Archs     == {"gfx9", "gfx908", "gfx90a"}

NoAddress == -1
R(name)   == <<name, 0>>
Regs(name, indices) == {name} \X indices

-----------------------------------------------------------------------------
(* The sizes a record derives from the state words of the control stack.   *)
(* A state is [lds, sgprs, vgprs, accum, shared, w32] and a record adds    *)
(* the architecture, the first and last wave flags, and its top address.   *)

scalar_register_count(arch) == IF arch \in Gfx9Archs THEN 102 ELSE 106
scalar_alias_count(arch)    == IF arch \in Gfx9Archs THEN 6 ELSE 2

lane_count(r) == IF r.arch \notin Gfx9Archs /\ r.w32 THEN 32 ELSE 64
lds_size(r)   == r.lds * 128

sgpr_count_gfx9(r) == (r.sgprs + 1) * 16 - 16
sgpr_count(r) == IF r.arch \in Gfx9Archs THEN sgpr_count_gfx9(r) ELSE 128

vgpr_count_gfx9(r)  == (r.vgprs + 1) * 4
vgpr_count_gfx90a(r) == (r.accum + 1) * 4
vgpr_count_gfx10(r) == (1 + r.vgprs) * (IF r.w32 THEN 8 ELSE 4)
vgpr_count(r) == CASE r.arch \in {"gfx9", "gfx908"} -> vgpr_count_gfx9(r)
                   [] r.arch = "gfx90a"             -> vgpr_count_gfx90a(r)
                   [] OTHER                         -> vgpr_count_gfx10(r)
acc_vgpr_count(r) == CASE r.arch = "gfx908" -> vgpr_count(r)
                       [] r.arch = "gfx90a" -> (r.vgprs + 1) * 8 - vgpr_count(r)
                       [] OTHER             -> 0
shared_vgpr_count(r) == IF r.arch \in Gfx9Archs THEN 0 ELSE r.shared * 8

-----------------------------------------------------------------------------
(* register_address of each architecture.  The blocks of a record lie one  *)
(* below the other: lds, ttmps, hwregs, sgprs, and the vector registers.   *)

TtmpCount  == 16
HwregCount == 16

lds_addr(r)    == r.top - (IF r.first THEN lds_size(r) ELSE 0)
ttmps_addr(r)  == lds_addr(r) - TtmpCount
hwregs_addr(r) == ttmps_addr(r) - HwregCount
sgprs_addr(r)  == hwregs_addr(r) - sgpr_count(r)

HwregOf_gfx9(reg) ==
    CASE reg[1] = "m0"                        -> <<"hwreg", 0>>
      [] reg[1] = "pc"                        -> <<"hwreg", 1>>
      [] reg[1] \in {"exec_lo", "exec_64"}    -> <<"hwreg", 3>>
      [] reg[1] = "exec_hi"                   -> <<"hwreg", 4>>
      [] reg[1] = "status"                    -> <<"hwreg", 5>>
      [] reg[1] = "trapsts"                   -> <<"hwreg", 6>>
      [] reg[1] \in {"xnack_mask_lo", "xnack_mask_64"} -> <<"hwreg", 7>>
      [] reg[1] = "xnack_mask_hi"             -> <<"hwreg", 8>>
      [] reg[1] = "mode"                      -> <<"hwreg", 9>>
      [] OTHER                                -> reg

aliased_sgpr_end(r) ==
    Min({scalar_register_count(r.arch) + scalar_alias_count(r.arch), sgpr_count(r)})

SgprOf(end, reg) ==
    CASE reg[1] \in {"vcc_64", "vcc_lo"}                -> <<"sgpr", end - 2>>
      [] reg[1] = "vcc_hi"                              -> <<"sgpr", end - 1>>
      [] reg[1] \in {"flat_scratch", "flat_scratch_lo"} -> <<"sgpr", end - 6>>
      [] reg[1] = "flat_scratch_hi"                     -> <<"sgpr", end - 5>>
      [] OTHER                                          -> reg

(* Neither an sgpr that is an alias nor one that is not allocated has an   *)
(* address of its own.                                                     *)
SgprAddress(r, end, asked, reg) ==
    LET alias == (end - scalar_alias_count(r.arch))..(end - 1) IN
    CASE \/ asked[1] = "sgpr" /\ asked[2] \in alias
         \/ reg[1] = "shadow" /\ reg[2] \notin alias
         \/ reg[1] = "sgpr" /\ reg[2] >= end
         \/ reg[1] \notin {"shadow", "sgpr"} -> NoAddress
      [] OTHER -> IF reg[1] = "shadow" /\ reg[2] \in {end - 4, end - 3}
                  THEN hwregs_addr(r) + (11 - (end - reg[2])) ELSE sgprs_addr(r) + reg[2]
scalar_address(r, asked) ==
    LET end == aliased_sgpr_end(r) IN SgprAddress(r, end, asked, SgprOf(end, asked))

register_address_gfx9(r, asked) ==
    LET reg == HwregOf_gfx9(asked)
        vgprs == sgprs_addr(r) - vgpr_count(r) * 64
    IN CASE reg[1] = "lds_0" /\ r.first -> lds_addr(r)
         [] reg[1] = "ttmp"  -> ttmps_addr(r) + reg[2]
         [] reg[1] = "hwreg" -> hwregs_addr(r) + reg[2]
         [] reg[1] = "v64" /\ reg[2] < vgpr_count(r) -> vgprs + reg[2] * 64
         [] OTHER -> scalar_address(r, reg)

register_address_mi(r, reg) ==
    LET acc   == sgprs_addr(r) - acc_vgpr_count(r) * 64
        vgprs == acc - vgpr_count(r) * 64
    IN CASE reg[1] \notin {"v64", "a64", "v32", "a32"} -> register_address_gfx9(r, reg)
         [] reg[1] = "a64" /\ reg[2] < acc_vgpr_count(r) -> acc + reg[2] * 64
         [] reg[1] = "v64" /\ reg[2] < vgpr_count(r) -> vgprs + reg[2] * 64
         [] OTHER -> NoAddress

HwregOf_gfx10(reg) ==
    CASE reg[1] = "exec_32"       -> <<"hwreg", 3>>
      [] reg[1] = "xnack_mask_32" -> <<"hwreg", 7>>
      [] reg[1] = "mode"          -> <<"hwreg", 8>>
      [] reg[1] = "flat_scratch"  -> <<"hwreg", 9>>
      [] reg[1] = "vcc_32"        -> R("vcc_lo")
      [] OTHER                    -> reg

vector_address_gfx10(r, reg) ==
    LET lanes  == lane_count(r)
        shared == sgprs_addr(r) - shared_vgpr_count(r) * 32
        vgprs  == shared - vgpr_count(r) * lanes
        count  == vgpr_count(r)
    IN CASE reg[1] = "v32" /\ reg[2] >= count /\ reg[2] < count + shared_vgpr_count(r)
              -> shared + (reg[2] - count) * 32
         [] lanes = 32 /\ reg[1] = "v32" /\ reg[2] < count -> vgprs + reg[2] * 32
         [] lanes = 64 /\ reg[1] = "v64" /\ reg[2] < count -> vgprs + reg[2] * 64
         [] OTHER -> NoAddress

register_address_gfx10(r, asked) ==
    LET reg == HwregOf_gfx10(asked)
        wrong_lanes == IF lane_count(r) = 32 THEN {"exec_64", "vcc_64"}
                       ELSE {"exec_32", "xnack_mask_32", "vcc_32"}
    IN CASE asked[1] \in wrong_lanes \cup {"xnack_mask_hi", "xnack_mask_64"} -> NoAddress
         [] reg[1] \in {"v64", "a64", "v32", "a32"} -> vector_address_gfx10(r, reg)
         [] OTHER -> register_address_gfx9(r, reg)

(* The last vector register of each width is not covered by the test of    *)
(* status.no_vgprs.                                                        *)
register_address_gfx11(r, reg) ==
    IF r.no_vgprs /\ reg[1] \in {"v64", "v32"} /\ reg[2] < 255 THEN NoAddress
    ELSE register_address_gfx10(r, reg)

HwregOf_gfx12(reg) ==
    CASE reg[1] = "state_priv"     -> <<"hwreg", 5>>
      [] reg[1] = "excp_flag_priv" -> <<"hwreg", 6>>
      [] reg[1] = "excp_flag_user" -> <<"hwreg", 11>>
      [] reg[1] = "trap_ctrl"      -> <<"hwreg", 12>>
      [] reg[1] = "status"         -> <<"hwreg", 13>>
      [] OTHER                     -> reg
register_address_gfx12(r, reg) == register_address_gfx11(r, HwregOf_gfx12(reg))

register_address(r, reg) ==
    CASE r.arch = "gfx9"                -> register_address_gfx9(r, reg)
      [] r.arch \in {"gfx908", "gfx90a"} -> register_address_mi(r, reg)
      [] r.arch = "gfx10"               -> register_address_gfx10(r, reg)
      [] r.arch = "gfx11"               -> register_address_gfx11(r, reg)
      [] r.arch = "gfx12"               -> register_address_gfx12(r, reg)

begin(r) == register_address(r, IF lane_count(r) = 32 THEN R("v32") ELSE R("v64"))

-----------------------------------------------------------------------------
(* The control stack: events, states and waves.  iterate returns the       *)
(* records in the order of the waves, and the address it ended at.         *)

(* Mutant: the padding between two records is forgotten.                   *)
RecordTopUnpadded(arch, last_wave_area) == last_wave_area
RecordTop(arch, last_wave_area) ==
    IF arch \in Gfx9Archs THEN last_wave_area - 16 ELSE last_wave_area

Record(arch, state, wave, top) ==
    state @@ [arch |-> arch, first |-> wave.first, last |-> wave.last, top |-> top,
              no_vgprs |-> FALSE]

NextEntry_gfx9(arch, acc, entry) ==
    CASE entry.kind = "event" -> acc
      [] entry.kind = "state" -> [acc EXCEPT !.state = entry.state]
      [] entry.kind = "wave"  ->
           LET r == Record(arch, acc.state, entry, RecordTop(arch, acc.bottom))
           IN [acc EXCEPT !.records = Append(@, r),
                          !.bottom = register_address(r, R("v64"))]

(* From gfx10 on a state takes two words.                                  *)
NextEntry_gfx10(arch, acc, entry) ==
    CASE acc.second -> [acc EXCEPT !.second = FALSE]
      [] ~acc.second /\ entry.kind = "event" -> acc
      [] ~acc.second /\ entry.kind = "state" ->
           [acc EXCEPT !.state = entry.state, !.second = TRUE]
      [] ~acc.second /\ entry.kind = "wave" ->
           LET r == Record(arch, acc.state, entry, RecordTop(arch, acc.bottom))
           IN [acc EXCEPT !.records = Append(@, r), !.bottom = begin(r)]

control_stack_iterate(arch, stack, wave_area) ==
    LET step(acc, entry) == IF arch \in Gfx9Archs THEN NextEntry_gfx9(arch, acc, entry)
                            ELSE NextEntry_gfx10(arch, acc, entry)
    IN FoldLeft(step,
                [records |-> <<>>, bottom |-> wave_area, state |-> <<>>, second |-> FALSE],
                SubSeq(stack, 3, Len(stack)))

-----------------------------------------------------------------------------
(* The registers the client is shown, their sizes and properties.  Only    *)
(* some of each large block of registers are looked at.                    *)

VgprSample == {0, 1, 2, 3, 7, 8, 15, 16, 23, 24, 254, 255}
SgprSample(arch) == {0, 1, 9, 10, 11, 12, 13, 14, 15, 16, 25, 26, 27, 28, 29, 30, 31, 89, 90,
                     91, 92, 93, 94, 95, scalar_register_count(arch) - 1}

register_set_gfx9 ==
    Regs("sgpr", SgprSample("gfx9")) \cup Regs("shadow", SgprSample("gfx9"))
    \cup Regs("v64", VgprSample)
    \cup Regs("ttmp", (4..11) \cup {13})
    \cup {R("pseudo_status"), R("mode"), R("trapsts"), R("flat_scratch"),
          R("xnack_mask_64"), R("m0"), R("pc"), R("pseudo_exec_64"), R("pseudo_vcc_64")}
register_set_mi == register_set_gfx9 \cup Regs("a64", VgprSample)
register_set_gfx10 ==
    (register_set_gfx9 \ {R("xnack_mask_64")})
    \cup Regs("sgpr", {102, 105}) \cup Regs("shadow", {102, 105})
    \cup Regs("v32", VgprSample)
    \cup {R("xnack_mask_32"), R("pseudo_exec_32"), R("pseudo_vcc_32")}
register_set_gfx12 ==
    (register_set_gfx10 \ {R("trapsts")})
    \cup {R("pseudo_state_priv"), R("trap_ctrl"), R("excp_flag_priv"), R("excp_flag_user")}
register_set(arch) ==
    CASE arch = "gfx9"                -> register_set_gfx9
      [] arch \in {"gfx908", "gfx90a"} -> register_set_mi
      [] arch \in {"gfx10", "gfx11"}   -> register_set_gfx10
      [] arch = "gfx12"               -> register_set_gfx12

register_size_gfx9(reg) ==
    CASE reg[1] = "v64" -> 64
      [] reg[1] \in {"exec_64", "pseudo_exec_64", "vcc_64", "pseudo_vcc_64",
                     "xnack_mask_64", "pc", "wave_id", "flat_scratch"} -> 2
      [] OTHER -> 1
register_size_mi(reg)    == IF reg[1] = "a64" THEN 64 ELSE register_size_gfx9(reg)
register_size_gfx10(reg) == CASE reg[1] = "v32" -> 32 [] OTHER -> register_size_gfx9(reg)
register_size(arch, reg) ==
    CASE arch = "gfx9"                -> register_size_gfx9(reg)
      [] arch \in {"gfx908", "gfx90a"} -> register_size_mi(reg)
      [] OTHER                        -> register_size_gfx10(reg)

(* The properties that tell the client what a write makes stale.           *)
Properties_gfx9(reg) ==
    (IF reg[1] = "pseudo_status" THEN {"volatile"} ELSE {})
    \cup (IF reg[1] \in {"shadow", "flat_scratch", "xnack_mask_64", "pseudo_vcc_64"}
          THEN {"volatile", "invalidate_volatile"} ELSE {})
    \cup (IF reg[1] \in {"pseudo_exec_64", "pseudo_vcc_64"}
          THEN {"invalidate_volatile"} ELSE {})
Properties_gfx10(reg) ==
    Properties_gfx9(reg)
    \cup (IF reg[1] \in {"xnack_mask_32", "pseudo_vcc_32"}
          THEN {"volatile", "invalidate_volatile"} ELSE {})
    \cup (IF reg[1] \in {"pseudo_exec_32", "pseudo_vcc_32"}
          THEN {"invalidate_volatile"} ELSE {})
register_properties(arch, reg) ==
    IF arch \in Gfx9Archs THEN Properties_gfx9(reg) ELSE Properties_gfx10(reg)

-----------------------------------------------------------------------------
(* Reading and writing a register, as the words it touches.                *)

Pseudo(reg) == reg[1] \in {"pseudo_status", "pseudo_state_priv", "pseudo_exec_32",
                           "pseudo_exec_64", "pseudo_vcc_32", "pseudo_vcc_64"}

is_pseudo_register_available_gfx9(reg) ==
    reg[1] \in {"pseudo_status", "pseudo_exec_64", "pseudo_vcc_64"}
is_pseudo_register_available_gfx10(r, reg) ==
    CASE reg[1] \in {"pseudo_exec_32", "pseudo_vcc_32"} -> lane_count(r) = 32
      [] reg[1] \in {"pseudo_exec_64", "pseudo_vcc_64"} -> lane_count(r) = 64
      [] OTHER -> is_pseudo_register_available_gfx9(reg)
is_pseudo_register_available_gfx12(r, reg) ==
    reg[1] \in {"pseudo_status", "pseudo_state_priv"}
    \/ is_pseudo_register_available_gfx10(r, reg)

is_register_available(r, reg) ==
    CASE ~Pseudo(reg)         -> register_address(r, reg) # NoAddress
      [] r.arch \in Gfx9Archs -> is_pseudo_register_available_gfx9(reg)
      [] r.arch = "gfx12"     -> is_pseudo_register_available_gfx12(r, reg)
      [] OTHER                -> is_pseudo_register_available_gfx10(r, reg)

Words(r, reg) ==
    {register_address(r, reg) + n : n \in 0..(register_size(r.arch, reg) - 1)}

BaseOf(reg) == CASE reg[1] = "pseudo_exec_32" -> R("exec_32")
                 [] reg[1] = "pseudo_exec_64" -> R("exec_64")
                 [] reg[1] = "pseudo_vcc_32"  -> R("vcc_32")
                 [] reg[1] = "pseudo_vcc_64"  -> R("vcc_64")

(* The registers that reading or writing a pseudo register reads or writes. *)
read_pseudo_gfx9(reg) ==
    IF reg[1] = "pseudo_status" THEN {R("status"), <<"ttmp", 6>>} ELSE {BaseOf(reg)}
read_pseudo_gfx12(reg) ==
    CASE reg[1] = "pseudo_status"     -> {R("status")}
      [] reg[1] = "pseudo_state_priv" -> {R("state_priv"), <<"ttmp", 6>>}
      [] OTHER                        -> {BaseOf(reg)}

write_pseudo_gfx9(reg) ==
    IF reg[1] = "pseudo_status" THEN {R("status"), <<"ttmp", 6>>}
    ELSE {R("status"), BaseOf(reg)}
write_pseudo_gfx12(reg) ==
    CASE reg[1] = "pseudo_status"     -> {R("status")}
      [] reg[1] = "pseudo_state_priv" -> {R("state_priv"), <<"ttmp", 6>>}
      [] OTHER                        -> {R("status"), BaseOf(reg)}

WordsOf(r, regs) == UNION {Words(r, reg) : reg \in regs}
ReadWords(r, reg) ==
    WordsOf(r, CASE ~Pseudo(reg)     -> {reg}
                 [] r.arch = "gfx12" -> read_pseudo_gfx12(reg)
                 [] OTHER            -> read_pseudo_gfx9(reg))
WrittenWords(r, reg) ==
    WordsOf(r, CASE ~Pseudo(reg)     -> {reg}
                 [] r.arch = "gfx12" -> write_pseudo_gfx12(reg)
                 [] OTHER            -> write_pseudo_gfx9(reg))

-----------------------------------------------------------------------------
(* Writing some bytes of a register.  A register is the set of its bits    *)
(* that are 1, and so is the value, whose bit 0 goes to byte offset.       *)

ReadOnly_gfx9(reg) ==
    CASE reg = "trapsts" -> {9, 15} \cup 22..27
      [] reg = "mode"    -> 21..22
      [] reg = "pc"      -> 0..1
      [] OTHER           -> {}
ReadOnly_gfx940(reg) ==
    CASE reg = "trapsts" -> {9, 15, 27}
      [] reg = "mode"    -> {22}
      [] OTHER           -> ReadOnly_gfx9(reg)
ReadOnly_gfx11(reg) ==
    CASE reg = "trapsts" -> {9} \cup 21..27 \cup 29..31
      [] reg = "mode"    -> {22} \cup 24..26 \cup 28..31
      [] OTHER           -> ReadOnly_gfx9(reg)
ReadOnly_gfx12(reg) ==
    CASE reg = "mode"           -> 8..22 \cup 25..26 \cup 28..31
      [] reg = "trap_ctrl"      -> 10..31
      [] reg = "excp_flag_priv" -> 13..29
      [] reg = "excp_flag_user" -> 7..29
      [] OTHER                  -> ReadOnly_gfx11(reg)
register_read_only_mask(arch, reg) ==
    CASE arch = "gfx940" -> ReadOnly_gfx940(reg)
      [] arch = "gfx11"  -> ReadOnly_gfx11(reg)
      [] arch = "gfx12"  -> ReadOnly_gfx12(reg)
      [] OTHER           -> ReadOnly_gfx9(reg)

WrittenBits(offset, size) == (8 * offset)..(8 * (offset + size) - 1)

(* Mutant: the read-only bits of the new value are cleared, not kept.      *)
write_register_cleared(old, mask, offset, size, value) ==
    (old \ WrittenBits(offset, size))
    \cup {b \in WrittenBits(offset, size) \ mask : b - 8 * offset \in value}
(* A masked write of part of a register goes byte by byte, and takes every *)
(* byte from the first one of the value.                                   *)
write_register_bytes(old, mask, offset, size, value) ==
    LET whole     == mask = {} \/ (offset = 0 /\ size \in {4, 8})
        source(b) == IF whole THEN b - 8 * offset ELSE (b - 8 * offset) % 8
    IN (old \ WrittenBits(offset, size))
       \cup {b \in WrittenBits(offset, size) :
               IF b \in mask THEN b \in old ELSE source(b) \in value}
=============================================================================
