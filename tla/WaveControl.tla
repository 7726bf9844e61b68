---------------------------- MODULE WaveControl ----------------------------
(***************************************************************************)
(* The registers through which one wave is stopped, stepped and resumed,   *)
(* and the functions of the architectures that read and write them         *)
(* (architecture.cpp), called from wave_t::update and wave_t::set_state.   *)
(*                                                                         *)
(* The trap handler and the library share these registers: ttmp6 holds     *)
(* "stopped", the halt bit the program had set, and the trap id; the       *)
(* exception flags tell why the wave stopped and stay set until someone    *)
(* clears them; the pc of a parked wave is in other ttmps.  While the      *)
(* queue runs, the hardware and the trap handler write them; while it is   *)
(* suspended, the library does.                                            *)
(***************************************************************************)
EXTENDS Integers, FiniteSets

CONSTANTS
    Configs,      \* [arch, version, spi, halts]: the architecture, the
                  \* version of the runtime's interface, whether the hardware
                  \* set up the ttmps of this wave, and whether the client
                  \* halts waves: at launch, or to send their exceptions on
    Code,         \* the program: the instruction at each pc
    Raisable,     \* exceptions the program may raise
    Enabled,      \* exceptions the program enabled in mode.excp_en
    TrapIds,      \* operands of the s_trap instructions
    StatusHalts   \* halt bits the client writes with the status register

(* Architectures without the extended exceptions, and all of them.         *)
Plain == {"gfx9", "gfx10", "gfx10_3"}
Archs == Plain \cup {"gfx940", "gfx11", "gfx12"}
Fp == {"invalid", "input_denorm", "float_div0", "overflow", "underflow",
       "inexact", "int_div0"}
Watch == {"addr_watch0", "addr_watch1", "addr_watch2", "addr_watch3"}
Unmaskable == {"xnack_error", "mem_viol", "illegal_inst"}
Extended == {"wave_begin", "wave_end", "trap_after_inst", "host_trap"}
Exceptions == Fp \cup Watch \cup Unmaskable \cup Extended
Instructions == {"sequential", "branch_self", "sethalt", "trap", "invalid"}

ASSUME WaveControlAssumption ==
    /\ \A c \in Configs :
         /\ c.arch \in Archs /\ c.version \in Nat /\ c.spi \in BOOLEAN
         /\ c.halts \in BOOLEAN
         /\ c.arch = "gfx12" => c.spi
    /\ Raisable \subseteq Exceptions \ {"trap_after_inst", "host_trap"}
    /\ Enabled \subseteq Fp \cup {"addr_watch"}
    /\ Cardinality(DOMAIN Code) \in Nat \ {0, 1}
    /\ DOMAIN Code = 0..(Cardinality(DOMAIN Code) - 1)
    /\ \A p \in DOMAIN Code : Code[p] \in Instructions
    /\ TrapIds \subseteq 1..15
    /\ StatusHalts \subseteq BOOLEAN

Pcs == DOMAIN Code
ParkPc == -1                          \* address of the park instruction
Entry == 0                            \* address of the kernel
After(p) == (p + 1) % Cardinality(Pcs)

VARIABLES
    config,      \* the configuration, which never changes
    hw,          \* the registers of the wave
    m_state, m_stop_reason, m_last_stopped_pc, m_is_parked,
    m_ttmps_initialized,
    suspended,   \* is the queue suspended?
    intent       \* what the program did, for the properties: the halt it
                 \* asked for, its own pc, what it raised and how many
                 \* instructions it executed since it was last resumed;
                 \* which exceptions an earlier resume could not clear; and
                 \* whether the client freed the wave while it was stopped

lib == <<m_state, m_stop_reason, m_last_stopped_pc, m_is_parked,
         m_ttmps_initialized>>
vars == <<config, hw, lib, suspended, intent>>

Arch       == config.arch
Version    == config.version
SpiEnabled == config.spi

-----------------------------------------------------------------------------
(* Properties of the architectures.                                        *)

(* The hardware flags a completed single-step.                             *)
Precise == Arch \in {"gfx940", "gfx11", "gfx12"}

park_stopped_waves ==
    CASE Arch \in {"gfx9", "gfx10"} -> TRUE
      [] Arch \in {"gfx940", "gfx10_3"} -> FALSE
      [] OTHER -> Version > 8

EnabledBy(e) == e \in Unmaskable \cup Extended
                \/ e \in Enabled
                \/ (e \in Watch /\ "addr_watch" \in Enabled)

(* signaled_exceptions of each architecture.                               *)
signaled_base(h)   == {e \in h.excp \ Extended : EnabledBy(e)}
signaled_gfx940(h) == (h.excp \cap Extended) \cup signaled_base(h)
signaled_gfx11(h)  == (h.excp \cap Extended) \cup signaled_base(h)
signaled_gfx12(h)  == {e \in h.excp : EnabledBy(e)}

signaled_exceptions(h) ==
    CASE Arch = "gfx940" -> signaled_gfx940(h)
      [] Arch = "gfx11" -> signaled_gfx11(h)
      [] Arch = "gfx12" -> signaled_gfx12(h)
      [] OTHER -> signaled_base(h)

(* The flags set_exceptions of each architecture can change.               *)
\* Mutant: another flag is forgotten.
SettableFewer == (Fp \ {"inexact", "overflow"}) \cup Watch
                 \cup {"mem_viol", "illegal_inst"}

settable_base   == (Fp \ {"inexact"}) \cup Watch \cup {"mem_viol", "illegal_inst"}
settable_gfx940 == settable_base \cup Extended
settable_gfx11  == settable_base \cup Extended
settable_gfx12  == Exceptions

ClearExceptions(h, mask) ==
    LET settable == CASE Arch = "gfx940" -> settable_gfx940
                      [] Arch = "gfx11" -> settable_gfx11
                      [] Arch = "gfx12" -> settable_gfx12
                      [] OTHER -> settable_base
    IN [h EXCEPT !.excp = @ \ (mask \cap settable)]

(* The exceptions a stop reason stands for.                                *)
ExceptionsOf(reason) ==
    CASE reason = "memory_violation" -> {"mem_viol", "xnack_error"}
      [] reason = "address_error" -> {"mem_viol"}
      [] reason = "watchpoint" -> Watch
      [] reason = "single_step" -> {"trap_after_inst"}
      [] reason \in Fp \cup {"illegal_inst"} -> {reason}
      [] OTHER -> {}

clear_stop_reasons(h) ==
    ClearExceptions(h, {"wave_begin", "wave_end"}
                       \cup UNION {ExceptionsOf(r) : r \in m_stop_reason})

-----------------------------------------------------------------------------
(* Stopping: the trap handler, and its simulation.                         *)

save_pc_for_park(h, pc) == [h EXCEPT !.saved_pc = pc]
saved_parked_pc(h) == h.saved_pc

EnterTrapHandler(h, pc, id) ==
    LET stopped == [h EXCEPT !.stopped = TRUE, !.saved_halt = h.halt,
                             !.trap_id = id, !.halt = TRUE, !.mark = TRUE]
    IN IF park_stopped_waves
         THEN [save_pc_for_park(stopped, pc) EXCEPT !.pc = ParkPc]
         ELSE [stopped EXCEPT !.pc = pc]

(* The simulation of a step has no trap id.                                *)
simulate_trap_handler(h, pc) == EnterTrapHandler(h, pc, 0)

(* The pc the client and the library read: wave_t::read_register.          *)
pc_of(h, parked) == IF parked THEN saved_parked_pc(h) ELSE h.pc

(* wave_t::park and unpark.                                                *)
park(h) == IF park_stopped_waves
             THEN [save_pc_for_park(h, h.pc) EXCEPT !.pc = ParkPc] ELSE h
unpark(h) == IF park_stopped_waves
               THEN [h EXCEPT !.pc = saved_parked_pc(h)] ELSE h

(* wave_set_state: the program's halt bit is saved when the wave stops,    *)
(* and restored when it is resumed; reported exceptions are cleared.       *)
\* Mutant: the halt bit of the program is not saved.
StoppingUnsaved(h) == [h EXCEPT !.stopped = TRUE, !.halt = TRUE]

Stopping(h) == [h EXCEPT !.stopped = TRUE, !.saved_halt = h.halt, !.halt = TRUE]
Resuming(h, mode) ==
    [h EXCEPT !.halt = h.saved_halt, !.stopped = FALSE, !.saved_halt = FALSE,
              !.step = (mode = "single_step")]

wave_set_state_base(h, mode) ==
    IF mode = "stop" THEN [Stopping(h) EXCEPT !.skip_export = TRUE]
                     ELSE [Resuming(h, mode) EXCEPT !.skip_export = FALSE]

wave_set_state_gfx12(h, mode) ==
    IF mode = "stop" THEN Stopping(h) ELSE Resuming(h, mode)

wave_set_state(h, mode) ==
    LET set == IF Arch = "gfx12" THEN wave_set_state_gfx12(h, mode)
                                 ELSE wave_set_state_base(h, mode)
    IN IF mode # "stop" /\ m_state = "stop" /\ m_stop_reason # {}
         THEN clear_stop_reasons(set) ELSE set

wave_get_halt(h) == IF h.stopped THEN h.saved_halt ELSE h.halt

wave_set_halt_base(h, b) ==
    IF h.stopped THEN [h EXCEPT !.saved_halt = b] ELSE [h EXCEPT !.halt = b]

(* On gfx12 the mask of the status register is applied to state_priv,      *)
(* whose halt bit is another one: a running wave is not halted.            *)
wave_set_halt_gfx12(h, b) ==
    IF h.stopped THEN [h EXCEPT !.saved_halt = b] ELSE h

wave_set_halt(h, b) == IF Arch = "gfx12" THEN wave_set_halt_gfx12(h, b)
                                         ELSE wave_set_halt_base(h, b)

-----------------------------------------------------------------------------
(* Updating: what a suspended wave's registers say about it.               *)

ReasonsOf(h) ==
    LET s == signaled_exceptions(h) IN
    (s \cap (Fp \cup {"illegal_inst"}))
    \cup (IF "xnack_error" \in s THEN {"memory_violation"}
          ELSE IF "mem_viol" \in s THEN {"address_error"} ELSE {})
    \cup (IF s \cap Watch # {} THEN {"watchpoint"} ELSE {})
    \cup (IF "trap_after_inst" \in s THEN {"single_step"} ELSE {})
    \cup (IF s \cap {"wave_begin", "wave_end"} # {} THEN {"trap"} ELSE {})
    \cup (CASE h.trap_id = 0 -> {}
            [] h.trap_id = 1 -> {"breakpoint"}
            [] h.trap_id = 2 -> {"assert_trap"}
            [] h.trap_id = 3 -> {"debug_trap"}
            [] OTHER -> {"trap"})

(* The state, the stop reason and the registers after wave_get_state of    *)
(* the common architecture: a wave the trap handler stopped is unparked.   *)
get_state_base(h, state) ==
    IF ~h.stopped THEN [state |-> state, reason |-> {}, hw |-> h]
    ELSE [state |-> "stop", reason |-> ReasonsOf(h),
          hw |-> unpark(h)]

\* Mutant: a stop without another reason is taken for a step.
ReportSpurious(h, state) ==
    LET base == get_state_base(h, state) IN
    IF Arch = "gfx940" \/ state # "single_step" \/ base.state # "stop"
      THEN base
      ELSE [base EXCEPT !.reason = @ \cup {"single_step"}]

(* gfx9 and its successors, except gfx940, decide from the pc whether a    *)
(* step was taken, and send a wave that stopped without one back.          *)
wave_get_state(h, state) ==
    LET base == get_state_base(h, state) IN
    IF Arch = "gfx940" \/ state # "single_step" \/ base.state # "stop"
      THEN base
    ELSE IF base.hw.pc # m_last_stopped_pc
      THEN [base EXCEPT !.reason = @ \cup {"single_step"}]
    ELSE IF base.reason # {} THEN base
    ELSE IF Code[base.hw.pc] \in {"sequential", "sethalt", "trap"}
      THEN [state |-> "single_step", reason |-> {},
            hw |-> wave_set_state(base.hw, "single_step")]
      ELSE [base EXCEPT !.reason = {"single_step"}]

(* What the trap handler wrote is kept: a trap handler of version 10 marks *)
(* a wave it stops with skip_export.                                       *)
KeepStopped(h) ==
    IF Version >= 10 /\ h.skip_export THEN h
    ELSE [h EXCEPT !.stopped = FALSE, !.saved_halt = FALSE, !.trap_id = 0]

(* The ttmps of a wave that started before their setup was enabled ...     *)
initialize_spi_ttmps(h)        == KeepStopped(h)
initialize_spi_ttmps_gfx940(h) == [h EXCEPT !.mark = FALSE]

(* ... and those of one that has not entered the trap handler, which       *)
(* leaves a mark on the architectures where it sets them up.               *)
initialize_trap_handler_ttmps_gfx940(h) == [KeepStopped(h) EXCEPT !.mark = TRUE]
initialize_trap_handler_ttmps_gfx12(h) ==
    [h EXCEPT !.stopped = FALSE, !.saved_halt = FALSE, !.trap_id = 0,
              !.mark = TRUE]

InitializeTtmps(h) ==
    LET spi == IF SpiEnabled THEN h
               ELSE IF Arch = "gfx940" THEN initialize_spi_ttmps_gfx940(h)
               ELSE initialize_spi_ttmps(h)
    IN CASE Arch = "gfx940" /\ ~spi.mark -> initialize_trap_handler_ttmps_gfx940(spi)
         [] Arch = "gfx12" /\ ~spi.mark -> initialize_trap_handler_ttmps_gfx12(spi)
         [] OTHER -> spi

(* wave_t::update: registers h of a wave in the given state.               *)
update(h, state) ==
    LET init == IF m_ttmps_initialized THEN h ELSE InitializeTtmps(h)
        got  == wave_get_state(init, state)
    IN IF got.state = "stop" THEN [got EXCEPT !.hw = park(@)] ELSE got

(* queue_t::update_waves: a new wave that is halted at the entry of its    *)
(* kernel was halted by the launch mode; that halt is taken back and the   *)
(* wave is stopped, hidden from the client.                                *)
HoldAtLaunch(u) ==
    IF /\ ~m_ttmps_initialized /\ u.state = "run"
       /\ u.hw.pc = Entry /\ wave_get_halt(u.hw)
      THEN [state |-> "stop", reason |-> {},
            hw |-> park(wave_set_state(wave_set_halt(u.hw, FALSE), "stop"))]
      ELSE u

-----------------------------------------------------------------------------
(* The hardware.                                                           *)

Raised(es, id) == [intent EXCEPT !.raised = @ \cup {e \in es : EnabledBy(e)},
                                 !.trap = IF id = 0 THEN @ ELSE id,
                                 !.executed = IF @ = 2 THEN 2 ELSE @ + 1]

(* The exception flags the architecture has.                               *)
Flags == Raisable \ (IF Arch \in Plain THEN Extended ELSE {})

(* A stopped wave whose halt bit the client cleared: it executes whatever  *)
(* its pc is at, and from there on nothing is said about it.               *)
RunsOn == ~suspended /\ m_state = "stop" /\ ~hw.halt
HwRunsOn == RunsOn /\ UNCHANGED vars

(* One instruction, with the exceptions it raises: the wave enters the     *)
(* trap handler for a trap, an enabled exception or a step.                *)
HwExecute ==
    /\ ~suspended /\ ~hw.halt /\ ~RunsOn
    /\ LET insn == Code[hw.pc] IN
       \E es \in {{}} \cup {{e} : e \in Flags},
          id \in IF insn = "trap" THEN TrapIds ELSE {0} :
       \E next \in CASE insn = "branch_self" -> {hw.pc}
                     [] insn = "invalid" -> {hw.pc, After(hw.pc)}
                     [] OTHER -> {After(hw.pc)} :
          LET ran     == [hw EXCEPT !.pc = next,
                                    !.excp = @ \cup es,
                                    !.halt = @ \/ insn = "sethalt"]
              steps   == ran.step /\ (Precise \/ ~ran.halt)
              flagged == IF steps /\ Precise
                           THEN [ran EXCEPT !.excp = @ \cup {"trap_after_inst"}]
                           ELSE ran
              traps   == steps \/ id # 0 \/ \E e \in es : EnabledBy(e)
          IN /\ hw' = IF traps
                        THEN [EnterTrapHandler(flagged, next, id)
                                EXCEPT !.skip_export = TRUE]
                        ELSE flagged
             /\ intent' = [Raised(es, id) EXCEPT !.pc = next,
                                                 !.halt = ran.halt]
    /\ UNCHANGED <<lib, suspended>>

(* The queue is suspended and every wave updated.  On architectures that   *)
(* do not flag a step, the context save itself may take a stepping wave    *)
(* into the trap handler.                                                  *)
Suspend ==
    /\ ~suspended /\ ~RunsOn
    /\ suspended' = TRUE
    /\ \E h \in {hw} \cup
              IF hw.step /\ ~hw.halt /\ ~Precise
                THEN {[EnterTrapHandler(hw, hw.pc, 0) EXCEPT !.skip_export = TRUE]}
                ELSE {} :
         IF m_state = "stop"
           THEN /\ hw' = h
                /\ UNCHANGED <<m_state, m_stop_reason, m_is_parked>>
           ELSE LET u == HoldAtLaunch(update(h, m_state)) IN
                /\ hw' = u.hw
                /\ m_state' = u.state /\ m_stop_reason' = u.reason
                /\ m_is_parked' = (u.state = "stop" /\ park_stopped_waves)
    /\ m_ttmps_initialized' = TRUE
    /\ UNCHANGED <<m_last_stopped_pc, intent>>

ResumeQueue ==
    /\ suspended
    /\ suspended' = FALSE
    /\ UNCHANGED <<hw, lib, intent>>

-----------------------------------------------------------------------------
(* The client, while the queue is suspended: wave_t::set_state.            *)

(* amd_dbgapi_wave_stop on a wave that runs.                               *)
StopWave ==
    /\ suspended /\ m_state # "stop"
    /\ hw' = park(wave_set_state(hw, "stop"))
    /\ m_state' = "stop" /\ m_stop_reason' = {}
    /\ m_is_parked' = park_stopped_waves
    /\ UNCHANGED <<m_last_stopped_pc, m_ttmps_initialized, suspended, intent>>

(* The registers and pc of a wave set_state resumes.                       *)
Resumed(mode) == unpark(wave_set_state(hw, mode))

(* The flags that set_exceptions has no bit for: what was reported of them *)
(* stays set when the wave is resumed, and is reported again.              *)
Forgotten == IF Arch = "gfx12" THEN {} ELSE {"inexact", "xnack_error"}

(* A resume begins a new account, in which n instructions were executed.   *)
Afresh(n) == [intent EXCEPT !.raised = {}, !.trap = 0, !.executed = n,
                            !.stale = (@ \cup intent.raised) \cap Forgotten,
                            !.freed = FALSE]

(* amd_dbgapi_wave_resume, run or step on the hardware.                    *)
ResumeWave(mode) ==
    /\ suspended /\ m_state = "stop"
    /\ LET h == Resumed(mode) IN
       /\ ~(mode = "single_step" /\ Code[h.pc] = "branch_self"
            /\ (Arch = "gfx12" \/ ~h.halt))
       /\ hw' = h
       /\ m_last_stopped_pc' = h.pc
    /\ m_state' = mode /\ m_stop_reason' = {} /\ m_is_parked' = FALSE
    /\ intent' = Afresh(0)
    /\ UNCHANGED <<m_ttmps_initialized, suspended>>

(* A step over an instruction that is simulated: the wave is updated as    *)
(* if it had come back from the trap handler.  gfx12 looks for the halt    *)
(* bit in the status register, where it no longer is.                      *)
StepSimulated ==
    /\ suspended /\ m_state = "stop"
    /\ LET h == Resumed("single_step") IN
       /\ Code[h.pc] = "branch_self"
       /\ Arch = "gfx12" \/ ~h.halt
       /\ LET flagged == IF Precise THEN [h EXCEPT !.excp = @ \cup {"trap_after_inst"}]
                                    ELSE h
              trapped == simulate_trap_handler(flagged, h.pc)
              got     == get_state_base(trapped, "single_step")
              \* wave_get_state, with the last stopped pc just recorded
              reason  == IF got.reason = {} THEN {"single_step"} ELSE got.reason
          IN /\ hw' = park(got.hw)
             /\ m_stop_reason' = reason
             /\ m_last_stopped_pc' = h.pc
    /\ m_state' = "stop"
    /\ m_is_parked' = park_stopped_waves
    /\ intent' = Afresh(1)
    /\ UNCHANGED <<m_ttmps_initialized, suspended>>

(* amd_dbgapi_wave_resume with exceptions, to run or to step: the wave is  *)
(* halted until the runtime has handled them, and nothing is simulated.    *)
ResumeWithExceptions(mode) ==
    /\ config.halts
    /\ suspended /\ m_state = "stop"
    /\ LET h == Resumed(mode) IN
       /\ hw' = wave_set_halt(h, TRUE)
       /\ m_last_stopped_pc' = h.pc
    /\ m_state' = mode /\ m_stop_reason' = {} /\ m_is_parked' = FALSE
    /\ intent' = [Afresh(0) EXCEPT !.halt = TRUE]
    /\ UNCHANGED <<m_ttmps_initialized, suspended>>

(* The client writes the status register of a stopped wave, with halt bit  *)
(* b: pseudo_status.  It goes to the saved halt bit, and with the rest of  *)
(* the register to the halt bit that keeps the wave stopped.  On gfx12 the *)
(* value written to pseudo_state_priv is not looked at: whatever it is,    *)
(* the program is halted from then on.                                     *)
write_pseudo_status(h, b) == [h EXCEPT !.saved_halt = b, !.halt = b,
                                       !.skip_export = FALSE]
write_pseudo_state_priv(h) == [h EXCEPT !.saved_halt = h.halt]

WriteStatus(b) ==
    /\ suspended /\ m_state = "stop" /\ Arch # "gfx12"
    /\ hw' = write_pseudo_status(hw, b)
    /\ intent' = [intent EXCEPT !.halt = b, !.freed = ~b]
    /\ UNCHANGED <<lib, suspended>>

WriteStatePriv ==
    /\ suspended /\ m_state = "stop" /\ Arch = "gfx12"
    /\ hw' = write_pseudo_state_priv(hw)
    /\ intent' = [intent EXCEPT !.halt = TRUE]
    /\ UNCHANGED <<lib, suspended>>

(* The client writes the pc of a stopped wave.                             *)
WritePc(p) ==
    /\ suspended /\ m_state = "stop"
    /\ hw' = IF m_is_parked THEN save_pc_for_park(hw, p) ELSE [hw EXCEPT !.pc = p]
    /\ intent' = [intent EXCEPT !.pc = p]
    /\ UNCHANGED <<lib, suspended>>

-----------------------------------------------------------------------------
(* ttmp6 of a wave that runs when the debugger attaches holds anything     *)
(* when nobody has set it up.                                              *)
Garbage == IF SpiEnabled /\ Arch \notin {"gfx940", "gfx12"}
             THEN {[stopped |-> FALSE, halt |-> FALSE, id |-> 0]}
             ELSE [stopped : BOOLEAN, halt : BOOLEAN, id : {0, 1}]

Init ==
    /\ config \in Configs
    /\ \E p \in Pcs, g \in Garbage, launch \in BOOLEAN :
        /\ launch => config.halts /\ p = Entry
        /\ hw = [halt |-> launch, step |-> FALSE, excp |-> {},
                 stopped |-> g.stopped, saved_halt |-> g.halt,
                 trap_id |-> g.id, pc |-> p, saved_pc |-> p,
                 skip_export |-> FALSE, mark |-> FALSE]
        /\ intent = [halt |-> FALSE, pc |-> p, raised |-> {}, trap |-> 0,
                     executed |-> 0, stale |-> {}, freed |-> FALSE]
        /\ m_last_stopped_pc = p
    /\ m_state = "run" /\ m_stop_reason = {} /\ m_is_parked = FALSE
    /\ m_ttmps_initialized = FALSE
    /\ suspended = FALSE

Next ==
    /\ UNCHANGED config
    /\ \/ HwExecute
       \/ HwRunsOn
       \/ Suspend
       \/ ResumeQueue
       \/ StopWave
       \/ ResumeWave("run")
       \/ ResumeWave("single_step")
       \/ StepSimulated
       \/ ResumeWithExceptions("run")
       \/ ResumeWithExceptions("single_step")
       \/ \E b \in StatusHalts : WriteStatus(b)
       \/ WriteStatePriv
       \/ \E p \in Pcs : WritePc(p)

Spec == Init /\ [][Next]_vars

-----------------------------------------------------------------------------
Reasons == Fp \cup {"illegal_inst", "memory_violation", "address_error",
                    "watchpoint", "single_step", "breakpoint", "assert_trap",
                    "debug_trap", "trap"}

(* The type invariant.                                                     *)
TypeOK ==
    /\ config \in Configs
    /\ hw \in [halt : BOOLEAN, step : BOOLEAN, excp : SUBSET Exceptions,
               stopped : BOOLEAN, saved_halt : BOOLEAN, trap_id : 0..15,
               pc : Pcs \cup {ParkPc}, saved_pc : Pcs,
               skip_export : BOOLEAN, mark : BOOLEAN]
    /\ m_state \in {"run", "stop", "single_step"}
    /\ m_stop_reason \subseteq Reasons
    /\ m_last_stopped_pc \in Pcs
    /\ m_is_parked \in BOOLEAN /\ m_ttmps_initialized \in BOOLEAN
    /\ suspended \in BOOLEAN
    /\ intent \in [halt : BOOLEAN, pc : Pcs, raised : SUBSET Exceptions,
                   trap : 0..15, executed : 0..2,
                   stale : SUBSET Exceptions, freed : BOOLEAN]

(* The halt bit is the program's own: however often the wave is stopped,   *)
(* stepped, parked and resumed, by the trap handler or by the library, the *)
(* halt that wave_get_halt returns, and that a resume restores, is the one *)
(* the program or the client last set, and never the one that holds the    *)
(* wave at its launch or in the stop state.                                *)
HaltKept ==
    m_ttmps_initialized => wave_get_halt(hw) = intent.halt

(* The reasons for which exceptions S and an s_trap with operand id stop   *)
(* a wave.                                                                 *)
ReasonsFor(e, S) ==
    CASE e = "mem_viol" -> {IF "xnack_error" \in S THEN "memory_violation"
                                                   ELSE "address_error"}
      [] e \in {"wave_begin", "wave_end"} -> {"trap"}
      [] OTHER -> {x \in Reasons \ {"single_step"} : e \in ExceptionsOf(x)}
TrapReason(id) == CASE id = 0 -> {}
                    [] id = 1 -> {"breakpoint"}
                    [] id = 2 -> {"assert_trap"}
                    [] id = 3 -> {"debug_trap"}
                    [] OTHER -> {"trap"}
Expected(S, id) == (UNION {ReasonsFor(e, S) : e \in S}) \cup TrapReason(id)

(* A stop is reported with what the program raised since it was resumed,   *)
(* and nothing of that is missing.  Nothing else is reported with it, from *)
(* uninitialized registers, from masked exceptions or from an earlier      *)
(* stop, but for the exceptions that a resume could not clear: each of     *)
(* them is reported again whenever the trap handler stops the wave, though *)
(* not when the client does.                                               *)
ReportedIsRaised ==
    m_state = "stop" =>
        LET said == m_stop_reason \ {"single_step"} IN
        \/ said = Expected(intent.raised \cup intent.stale, intent.trap)
        \/ said = {} /\ intent.raised = {} /\ intent.trap = 0

(* A single-step executes one instruction: it is reported when the wave    *)
(* has executed exactly one since it was resumed, and never after none.    *)
(* The hardware of some architectures cannot tell for an invalid encoding, *)
(* which wave_get_state says it may report without having executed it.     *)
StepsOnce ==
    (m_state = "stop" /\ "single_step" \in m_stop_reason) =>
        \/ intent.executed = 1
        \/ ~Precise /\ Code[m_last_stopped_pc] = "invalid"

(* The pc the library reads and writes is the program's own, whether or    *)
(* not the wave is parked, and a resumed wave goes on from there.          *)
VisiblePc ==
    (suspended /\ m_ttmps_initialized) =>
        pc_of(hw, m_is_parked) = intent.pc

(* The library borrows the halt bit and the pc of a wave to hold it, and   *)
(* gives both back: what the client reads of them, and what a resume       *)
(* restores, is the program's own (wave_set_state, park, unpark).          *)
ProgramStateKept == TypeOK /\ HaltKept /\ VisiblePc

(* "halt the wave (status.halt=1)" (wave_set_state): a wave the library    *)
(* holds stopped is halted, and executes nothing when its queue runs.      *)
StoppedIsHalted == m_state = "stop" => hw.halt

(* What of it holds: a stopped wave is halted unless the client wrote a    *)
(* clear halt bit to its status register after it stopped.                 *)
HaltedUnlessFreed == m_state = "stop" => hw.halt \/ intent.freed

(* "clear the exceptions in the hardware exceptions register that have     *)
(* already been reported" (wave_set_state): none is set when the wave has  *)
(* executed nothing since it was resumed.                                  *)
AtResume == m_state # "stop" /\ intent.executed = 0 /\ m_ttmps_initialized
ReportedAreCleared == AtResume => signaled_exceptions(hw) = {}

(* What of it holds: only those are still set that set_exceptions forgets, *)
(* and that were reported before.                                          *)
OnlyForgottenLeft ==
    AtResume => signaled_exceptions(hw) = intent.stale
                /\ intent.stale \subseteq Forgotten
=============================================================================
