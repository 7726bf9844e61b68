------------------------- MODULE WaveControl_proofs -------------------------
(***************************************************************************)
(* Proofs about WaveControl, for any program, any exceptions and any set   *)
(* of configurations.                                                      *)
(***************************************************************************)
EXTENDS WaveControl, TLAPS

-----------------------------------------------------------------------------
(* What the code relies on.  Each condition excludes a case in which the   *)
(* library does lose track of a wave.                                      *)

(* The halt bits are the library's to use: gfx12 waves are not halted from *)
(* outside, a trap handler older than version 10 only runs where the       *)
(* hardware sets up the ttmps, and a program does not halt itself at its   *)
(* entry, where it would be taken for a wave held at its launch.           *)
HaltsRespected ==
    /\ \A c \in Configs : /\ c.arch = "gfx12" => ~c.halts
                          /\ c.spi \/ c.version >= 10
    /\ \A p \in Pcs : Code[p] = "sethalt" => After(p) # Entry

-----------------------------------------------------------------------------
(* The inductive invariant.                                                *)

(* Has the trap handler, or the library, stopped the wave?  Until the      *)
(* ttmps are initialized, "stopped" means nothing, but the trap handler's  *)
(* mark does.                                                              *)
Held == IF m_ttmps_initialized THEN hw.stopped ELSE hw.skip_export

(* The registers of a wave that is held, which is halted unless the client *)
(* freed it ...                                                            *)
HeldRegs ==
    /\ hw.halt \/ (m_state = "stop" /\ intent.freed)
    /\ hw.saved_halt = intent.halt
    /\ IF park_stopped_waves THEN hw.pc = ParkPc /\ hw.saved_pc = intent.pc
                             ELSE hw.pc = intent.pc

(* ... and of one that is not, unless its launch is being held.            *)
AtLaunch == /\ ~m_ttmps_initialized /\ config.halts
            /\ hw.halt /\ ~intent.halt /\ intent.pc = Entry
FreeRegs == hw.pc = intent.pc /\ (AtLaunch \/ hw.halt = intent.halt)

(* A wave the library has not seen yet.                                    *)
Unseen ==
    ~m_ttmps_initialized =>
        /\ m_state = "run" /\ ~suspended /\ ~hw.step
        /\ hw.mark = hw.skip_export
        /\ hw.skip_export => hw.stopped
        /\ ~hw.skip_export /\ hw.stopped => ~SpiEnabled \/ Arch \in {"gfx940", "gfx12"}
        /\ intent.halt => intent.pc # Entry

KeptInv ==
    /\ TypeOK
    /\ Unseen
    /\ Held => HeldRegs
    /\ ~Held => FreeRegs
    /\ m_state = "stop" => Held
    /\ suspended /\ Held => m_state = "stop"
    /\ m_is_parked = (m_state = "stop" /\ park_stopped_waves)
    /\ intent.freed => Arch # "gfx12"

(* A step flag of the hardware is of a step that was taken, and is         *)
(* reported.                                                               *)
StepFlag == "trap_after_inst" \in hw.excp
SteppingInv ==
    /\ StepFlag => Precise
    /\ m_state = "run" => ~hw.step /\ ~StepFlag
    /\ m_state = "stop" => StepsOnce /\ (StepFlag => "single_step" \in m_stop_reason)
    /\ m_state = "single_step" => hw.step
    /\ m_state = "single_step" /\ Held =>
         /\ intent.executed = 1
         /\ Code[m_last_stopped_pc] \in {"sequential", "sethalt", "trap"}
              => intent.pc # m_last_stopped_pc
    /\ m_state = "single_step" /\ ~Held =>
         /\ ~StepFlag
         /\ \/ intent.executed = 1 /\ hw.halt
            \/ /\ intent.executed = 0 /\ intent.pc = m_last_stopped_pc
               /\ Code[intent.pc] = "branch_self" => hw.halt
StepInv == KeptInv /\ SteppingInv

(* The exceptions that signal, but for the step, and those a resume clears. *)
Signals(h) == signaled_exceptions(h) \ {"trap_after_inst"}
Cleared == IF m_stop_reason = {} THEN {}
           ELSE {"wave_begin", "wave_end"} \cup UNION {ExceptionsOf(r) : r \in m_stop_reason}

RaisedInv ==
    /\ hw.excp \subseteq Raisable \cup {"trap_after_inst"}
    /\ intent.stale \subseteq Forgotten
    /\ Signals(hw) = intent.raised \cup intent.stale
    /\ Held /\ m_state # "stop" => hw.trap_id = intent.trap
    /\ ~Held => intent.raised = {} /\ intent.trap = 0
    /\ m_state = "stop" => ReportedIsRaised /\ intent.raised \subseteq Cleared
ReportInv == StepInv /\ RaisedInv

-----------------------------------------------------------------------------
(* The registers that the operations leave behind.                         *)

Regs == [halt : BOOLEAN, step : BOOLEAN, excp : SUBSET Exceptions,
         stopped : BOOLEAN, saved_halt : BOOLEAN, trap_id : 0..15,
         pc : Pcs \cup {ParkPc}, saved_pc : Pcs,
         skip_export : BOOLEAN, mark : BOOLEAN]

Intents == [halt : BOOLEAN, pc : Pcs, raised : SUBSET Exceptions,
            trap : 0..15, executed : 0..2,
            stale : SUBSET Exceptions, freed : BOOLEAN]

(* What a step of the library does not touch.                              *)
SameFlags(g, h) == g.excp = h.excp /\ g.trap_id = h.trap_id

(* The architecture is one of the six.                                     *)
LEMMA ArchIs ==
    ASSUME config \in Configs
    PROVE  /\ Arch \in Archs /\ Version \in Nat /\ SpiEnabled \in BOOLEAN
           /\ park_stopped_waves \in BOOLEAN /\ Precise \in BOOLEAN
           /\ config.halts \in BOOLEAN
<1>1. Arch \in Archs /\ Version \in Nat /\ SpiEnabled \in BOOLEAN /\ config.halts \in BOOLEAN
  BY WaveControlAssumption DEF WaveControlAssumption, Arch, Version, SpiEnabled
<1>2. park_stopped_waves \in BOOLEAN
  <2>1. CASE Arch \in {"gfx9", "gfx10"}
    BY <2>1 DEF park_stopped_waves
  <2>2. CASE Arch \in {"gfx940", "gfx10_3"}
    BY <2>2 DEF park_stopped_waves
  <2>3. CASE Arch \in {"gfx11", "gfx12"}
    <3>1. park_stopped_waves = (Version > 8)
      BY <2>3 DEF park_stopped_waves
    <3> QED BY <3>1
  <2> QED BY <1>1, <2>1, <2>2, <2>3 DEF Archs, Plain
<1>3. Precise \in BOOLEAN
  BY DEF Precise
<1> QED BY <1>1, <1>2, <1>3

(* The trap handler holds the wave, whatever the architecture.             *)
TrapId == 0..15
LEMMA EnterRegs ==
    ASSUME NEW h \in Regs, NEW pc \in Pcs, NEW id \in TrapId, config \in Configs
    PROVE  LET e == EnterTrapHandler(h, pc, id) IN
           /\ e \in Regs
           /\ e.stopped /\ e.halt /\ e.mark /\ e.saved_halt = h.halt /\ e.trap_id = id
           /\ e.step = h.step /\ e.excp = h.excp /\ e.skip_export = h.skip_export
           /\ IF park_stopped_waves THEN e.pc = ParkPc /\ e.saved_pc = pc ELSE e.pc = pc
  BY ArchIs DEF EnterTrapHandler, save_pc_for_park, Regs, TrapId

(* Parking hides the pc and unparking restores it.                         *)
LEMMA ParkRegs ==
    ASSUME NEW h \in Regs, h.pc \in Pcs, config \in Configs
    PROVE  LET e == park(h) IN
           /\ e \in Regs
           /\ e.halt = h.halt /\ e.step = h.step /\ e.excp = h.excp /\ e.stopped = h.stopped
           /\ e.saved_halt = h.saved_halt /\ e.trap_id = h.trap_id
           /\ IF park_stopped_waves THEN e.pc = ParkPc /\ e.saved_pc = h.pc ELSE e.pc = h.pc
  BY ArchIs DEF park, save_pc_for_park, Regs

LEMMA UnparkRegs ==
    ASSUME NEW h \in Regs, config \in Configs
    PROVE  LET e == unpark(h) IN
           /\ e \in Regs
           /\ e.halt = h.halt /\ e.step = h.step /\ e.excp = h.excp /\ e.stopped = h.stopped
           /\ e.saved_halt = h.saved_halt /\ e.trap_id = h.trap_id
           /\ e.pc = IF park_stopped_waves THEN h.saved_pc ELSE h.pc
  BY ArchIs DEF unpark, saved_parked_pc, Regs

(* The exceptions that signal, whatever the architecture.                  *)
Signaling(e) == EnabledBy(e) /\ (Arch \in Plain => e \notin Extended)
LEMMA SignaledIs ==
    ASSUME config \in Configs, NEW h \in Regs
    PROVE  signaled_exceptions(h) = {e \in h.excp : Signaling(e)}
<1>1. \A e \in Extended : EnabledBy(e)
  BY DEF EnabledBy
<1>2. CASE Arch = "gfx940"
  BY <1>1, <1>2 DEF signaled_exceptions, signaled_gfx940, signaled_base, Signaling, Plain
<1>3. CASE Arch = "gfx11"
  BY <1>1, <1>3 DEF signaled_exceptions, signaled_gfx11, signaled_base, Signaling, Plain
<1>4. CASE Arch = "gfx12"
  BY <1>4 DEF signaled_exceptions, signaled_gfx12, Signaling, Plain
<1>5. CASE Arch \in Plain
  BY <1>5 DEF signaled_exceptions, signaled_base, Signaling, Plain
<1> QED BY <1>2, <1>3, <1>4, <1>5, ArchIs DEF Archs

(* The flags that set_exceptions can change on this architecture.          *)
Settable == CASE Arch = "gfx940" -> settable_gfx940
              [] Arch = "gfx11" -> settable_gfx11
              [] Arch = "gfx12" -> settable_gfx12
              [] OTHER -> settable_base
Mask == {"wave_begin", "wave_end"} \cup UNION {ExceptionsOf(r) : r \in m_stop_reason}

LEMMA StopRegs ==
    ASSUME NEW h \in Regs
    PROVE  LET e == wave_set_state(h, "stop") IN
           /\ e \in Regs
           /\ e.stopped /\ e.halt /\ e.saved_halt = h.halt
           /\ e.pc = h.pc /\ e.saved_pc = h.saved_pc /\ e.step = h.step
           /\ e.excp = h.excp /\ e.trap_id = h.trap_id
<1>1. CASE Arch = "gfx12"
  BY <1>1 DEF wave_set_state, wave_set_state_gfx12, Stopping, Regs
<1>2. CASE Arch # "gfx12"
  BY <1>2 DEF wave_set_state, wave_set_state_base, Stopping, Regs
<1> QED BY <1>1, <1>2

LEMMA ResumeRegs ==
    ASSUME NEW h \in Regs, NEW mode \in {"run", "single_step"}
    PROVE  LET e == wave_set_state(h, mode) IN
           /\ e \in Regs
           /\ ~e.stopped /\ e.halt = h.saved_halt
           /\ e.pc = h.pc /\ e.saved_pc = h.saved_pc
           /\ e.step = (mode = "single_step") /\ e.trap_id = h.trap_id
           /\ e.excp = IF m_state = "stop" /\ m_stop_reason # {}
                         THEN h.excp \ (Mask \cap Settable) ELSE h.excp
<1> DEFINE set == IF Arch = "gfx12" THEN wave_set_state_gfx12(h, mode)
                                    ELSE wave_set_state_base(h, mode)
<1>1. /\ set \in Regs
      /\ ~set.stopped /\ set.halt = h.saved_halt
      /\ set.pc = h.pc /\ set.saved_pc = h.saved_pc
      /\ set.step = (mode = "single_step") /\ set.trap_id = h.trap_id
      /\ set.excp = h.excp
  <2>1. CASE Arch = "gfx12"
    BY <2>1 DEF wave_set_state_gfx12, Resuming, Regs
  <2>2. CASE Arch # "gfx12"
    BY <2>2 DEF wave_set_state_base, Resuming, Regs
  <2> QED BY <2>1, <2>2
<1>2. wave_set_state(h, mode)
        = IF m_state = "stop" /\ m_stop_reason # {} THEN clear_stop_reasons(set) ELSE set
  BY DEF wave_set_state
<1>3. clear_stop_reasons(set) = [set EXCEPT !.excp = set.excp \ (Mask \cap Settable)]
  BY DEF clear_stop_reasons, ClearExceptions, Mask, Settable
<1> HIDE DEF set
<1> QED BY <1>1, <1>2, <1>3 DEF Regs

(* Initializing the ttmps keeps what the trap handler wrote, and clears    *)
(* what nobody did.                                                        *)
LEMMA InitializeRegs ==
    ASSUME KeptInv, HaltsRespected, ~m_ttmps_initialized
    PROVE  LET e == InitializeTtmps(hw) IN
           /\ e \in Regs
           /\ e.stopped = hw.skip_export
           /\ hw.skip_export => e.saved_halt = hw.saved_halt /\ e.trap_id = hw.trap_id
           /\ e.halt = hw.halt /\ e.pc = hw.pc /\ e.saved_pc = hw.saved_pc
           /\ e.step = hw.step /\ e.excp = hw.excp
<1> DEFINE e == InitializeTtmps(hw)
           wiped == [hw EXCEPT !.stopped = FALSE, !.saved_halt = FALSE, !.trap_id = 0]
<1>1. /\ hw \in Regs /\ config \in Configs /\ hw.mark = hw.skip_export
      /\ hw.skip_export => hw.stopped
      /\ ~hw.skip_export /\ hw.stopped => ~SpiEnabled \/ Arch \in {"gfx940", "gfx12"}
      /\ SpiEnabled \/ Version >= 10
      /\ Arch = "gfx12" => SpiEnabled
  BY WaveControlAssumption
     DEF KeptInv, TypeOK, Unseen, Regs, HaltsRespected, SpiEnabled, Version, Arch,
         WaveControlAssumption
<1>2. CASE hw.skip_export
  <2>1. SpiEnabled => e = hw
    BY <1>1, <1>2 DEF InitializeTtmps
  <2>2. ~SpiEnabled /\ Arch # "gfx940" => e = hw
    BY <1>1, <1>2 DEF InitializeTtmps, initialize_spi_ttmps, KeepStopped
  <2>3. ASSUME ~SpiEnabled, Arch = "gfx940"
        PROVE  e = [[hw EXCEPT !.mark = FALSE] EXCEPT !.mark = TRUE]
    <3> DEFINE spi == [hw EXCEPT !.mark = FALSE]
    <3>1. ~spi.mark /\ spi.skip_export
      BY <1>1, <1>2 DEF Regs
    <3>2. e = [KeepStopped(spi) EXCEPT !.mark = TRUE]
      BY <2>3, <3>1 DEF InitializeTtmps, initialize_spi_ttmps_gfx940,
                        initialize_trap_handler_ttmps_gfx940
    <3>3. KeepStopped(spi) = spi
      BY <1>1, <2>3, <3>1 DEF KeepStopped
    <3> QED BY <3>2, <3>3
  <2> QED BY <1>1, <1>2, <2>1, <2>2, <2>3 DEF Regs
<1>3. CASE ~hw.skip_export
  <2>1. SpiEnabled /\ Arch \notin {"gfx940", "gfx12"} => e = hw
    BY <1>1, <1>3 DEF InitializeTtmps
  <2>2. ~SpiEnabled /\ Arch # "gfx940" => e = wiped
    BY <1>1, <1>3 DEF InitializeTtmps, initialize_spi_ttmps, KeepStopped
  <2>3. KeepStopped(hw) = wiped
    BY <1>3 DEF KeepStopped
  <2>4. SpiEnabled /\ Arch = "gfx940" => e = [wiped EXCEPT !.mark = TRUE]
    BY <1>1, <1>3, <2>3 DEF InitializeTtmps, initialize_trap_handler_ttmps_gfx940
  <2>5. Arch = "gfx12" => e = [hw EXCEPT !.stopped = FALSE, !.saved_halt = FALSE,
                                         !.trap_id = 0, !.mark = TRUE]
    BY <1>1, <1>3 DEF InitializeTtmps, initialize_trap_handler_ttmps_gfx12
  <2>6. ASSUME ~SpiEnabled, Arch = "gfx940"
        PROVE  e = [wiped EXCEPT !.mark = TRUE]
    <3>1. hw = [hw EXCEPT !.mark = FALSE]
      BY <1>1, <1>3 DEF Regs
    <3>2. e = [KeepStopped(hw) EXCEPT !.mark = TRUE]
      BY <1>1, <1>3, <2>6, <3>1 DEF InitializeTtmps, initialize_spi_ttmps_gfx940,
                                    initialize_trap_handler_ttmps_gfx940
    <3> QED BY <2>3, <3>2
  <2>7. \/ e = hw /\ ~hw.stopped
        \/ e = wiped
        \/ e = [wiped EXCEPT !.mark = TRUE]
        \/ e = [hw EXCEPT !.stopped = FALSE, !.saved_halt = FALSE, !.trap_id = 0, !.mark = TRUE]
    BY <1>1, <1>3, <2>1, <2>2, <2>4, <2>5, <2>6
  <2>0. 0 \in 0..15
    OBVIOUS
  <2>8. wiped \in Regs /\ ~wiped.stopped
    BY <1>1, <2>0 DEF Regs
  <2>9. CASE e = hw /\ ~hw.stopped
    BY <1>1, <1>3, <2>9 DEF Regs
  <2>10. CASE e = wiped
    BY <1>1, <1>3, <2>8, <2>10 DEF Regs
  <2>11. CASE e = [wiped EXCEPT !.mark = TRUE]
    BY <1>1, <1>3, <2>8, <2>11 DEF Regs
  <2>12. CASE e = [hw EXCEPT !.stopped = FALSE, !.saved_halt = FALSE, !.trap_id = 0,
                             !.mark = TRUE]
    BY <1>1, <1>3, <2>0, <2>12 DEF Regs
  <2> QED BY <2>7, <2>9, <2>10, <2>11, <2>12
<1> QED BY <1>2, <1>3, <1>1 DEF Regs

(* The wave a suspension finds: h are its registers, from the hardware or  *)
(* from the context save that took it into the trap handler.               *)
Saved == {hw} \cup IF hw.step /\ ~hw.halt /\ ~Precise
                     THEN {[EnterTrapHandler(hw, hw.pc, 0) EXCEPT !.skip_export = TRUE]}
                     ELSE {}
Taken == m_ttmps_initialized /\ ~Held /\ hw.step /\ ~hw.halt /\ ~Precise
Known(h) == IF m_ttmps_initialized THEN h ELSE InitializeTtmps(h)

LEMMA SavedRegs ==
    ASSUME KeptInv, HaltsRespected, m_state # "stop", NEW h \in Saved
    PROVE  LET k == Known(h) IN
           /\ k \in Regs /\ k.step = hw.step /\ k.excp = hw.excp
           /\ k.stopped =>
                /\ k.halt /\ k.saved_halt = intent.halt
                /\ IF park_stopped_waves THEN k.pc = ParkPc /\ k.saved_pc = intent.pc
                                         ELSE k.pc = intent.pc
                /\ \/ Held /\ k.trap_id = hw.trap_id
                   \/ Taken /\ k.trap_id = 0
           /\ ~k.stopped => ~Held /\ k.pc = intent.pc /\ k.halt = hw.halt
<1>1. hw \in Regs /\ config \in Configs /\ intent.pc \in Pcs
  BY DEF KeptInv, TypeOK, Regs
<1>2. CASE ~m_ttmps_initialized
  <2>1. h = hw
    BY <1>2 DEF Saved, KeptInv, Unseen
  <2>2. Held = hw.skip_export
    BY <1>2 DEF Held
  <2> QED BY <1>1, <1>2, <2>1, <2>2, InitializeRegs DEF Known, KeptInv, HeldRegs, FreeRegs
<1>3. CASE m_ttmps_initialized /\ h = hw
  BY <1>1, <1>3 DEF Known, KeptInv, HeldRegs, FreeRegs, Held
<1>4. CASE m_ttmps_initialized /\ h # hw
  <2>1. /\ hw.step /\ ~hw.halt /\ ~Precise
        /\ h = [EnterTrapHandler(hw, hw.pc, 0) EXCEPT !.skip_export = TRUE]
    BY <1>4 DEF Saved
  <2>2. ~Held
    BY <2>1 DEF KeptInv, HeldRegs
  <2>3. hw.pc = intent.pc /\ intent.halt = hw.halt
    BY <1>4, <2>2 DEF KeptInv, FreeRegs, AtLaunch
  <2>4. Taken /\ Known(h) = h
    BY <1>4, <2>1, <2>2 DEF Taken, Known
  <2> DEFINE t == EnterTrapHandler(hw, hw.pc, 0)
  <2>5. /\ t \in Regs
        /\ t.halt /\ t.saved_halt = hw.halt /\ t.trap_id = 0 /\ t.stopped
        /\ t.step = hw.step /\ t.excp = hw.excp
        /\ IF park_stopped_waves THEN t.pc = ParkPc /\ t.saved_pc = hw.pc ELSE t.pc = hw.pc
    <3>1. hw.pc \in Pcs /\ 0 \in TrapId
      BY <1>1, <2>3 DEF TrapId
    <3> QED BY <1>1, <3>1, EnterRegs
  <2> HIDE DEF t
  <2> QED BY <1>1, <2>1, <2>3, <2>4, <2>5 DEF Regs, t
<1> QED BY <1>2, <1>3, <1>4

-----------------------------------------------------------------------------
(* What a suspension makes of a wave that was not stopped.                 *)

Advances == {"sequential", "sethalt", "trap"}

HeldAs(h) ==
    /\ h \in Regs /\ h.stopped /\ h.halt /\ h.saved_halt = intent.halt
    /\ h.excp = hw.excp /\ h.step = hw.step
    /\ IF park_stopped_waves THEN h.pc = ParkPc /\ h.saved_pc = intent.pc ELSE h.pc = intent.pc
FreeAs(h) ==
    /\ h \in Regs /\ ~h.stopped /\ h.halt = intent.halt
    /\ h.excp = hw.excp /\ h.pc = intent.pc

(* It goes on ...                                                          *)
GoesOn(state, reason, h) ==
    /\ ~Held /\ state = m_state /\ reason = {} /\ FreeAs(h)
    /\ h.step = hw.step /\ h.halt = hw.halt
(* ... or its launch is held ...                                           *)
HeldAtLaunch(state, reason, h) ==
    ~Held /\ ~m_ttmps_initialized /\ state = "stop" /\ reason = {} /\ HeldAs(h)
(* ... or it had stopped, for reasons rs the registers give ...            *)
HasStopped(state, reason, h, rs) ==
    /\ Held \/ Taken
    /\ state = "stop" /\ HeldAs(h)
    /\ \/ reason = rs
       \/ m_state = "single_step" /\ intent.pc # m_last_stopped_pc
          /\ reason = rs \cup {"single_step"}
       \/ m_state = "single_step" /\ intent.pc = m_last_stopped_pc
          /\ rs = {} /\ reason = {"single_step"} /\ Code[intent.pc] \notin Advances
(* ... or it is sent back to take its step.                                *)
SentBack(state, reason, h, rs) ==
    /\ Held \/ Taken
    /\ m_state = "single_step" /\ state = m_state /\ reason = {} /\ FreeAs(h)
    /\ h.step /\ rs = {}
    /\ intent.pc = m_last_stopped_pc /\ Code[intent.pc] \in Advances

(* A wave found stopped has stopped or is sent back.                       *)
LEMMA StoppedOutcome ==
    ASSUME KeptInv, HaltsRespected, m_state # "stop", NEW h \in Saved, Known(h).stopped
    PROVE  LET u == update(h, m_state) IN
           \/ HasStopped(u.state, u.reason, u.hw, ReasonsOf(Known(h)))
           \/ SentBack(u.state, u.reason, u.hw, ReasonsOf(Known(h)))
<1> DEFINE k   == Known(h)
           b   == unpark(k)
           rs  == ReasonsOf(k)
           got == wave_get_state(k, m_state)
<1>1. /\ k \in Regs /\ k.step = hw.step /\ k.excp = hw.excp
      /\ k.halt /\ k.saved_halt = intent.halt /\ k.stopped
      /\ IF park_stopped_waves THEN k.pc = ParkPc /\ k.saved_pc = intent.pc
                               ELSE k.pc = intent.pc
      /\ Held \/ Taken
  BY SavedRegs
<1>2. config \in Configs /\ intent.pc \in Pcs /\ m_state \in {"run", "single_step"}
  BY DEF KeptInv, TypeOK
<1>3. /\ b \in Regs /\ b.pc = intent.pc /\ b.step = hw.step /\ b.excp = hw.excp
      /\ b.halt /\ b.saved_halt = intent.halt /\ b.stopped
  BY <1>1, <1>2, UnparkRegs
<1>4. get_state_base(k, m_state) = [state |-> "stop", reason |-> rs, hw |-> b]
  BY <1>1 DEF get_state_base
<1>5. update(h, m_state) = IF got.state = "stop" THEN [got EXCEPT !.hw = park(got.hw)] ELSE got
  BY DEF update, Known
<1>6. HeldAs(park(b))
  BY <1>2, <1>3, ParkRegs DEF HeldAs
<1>7. ASSUME NEW r, got = [state |-> "stop", reason |-> r, hw |-> b]
      PROVE  LET u == update(h, m_state) IN u.state = "stop" /\ u.reason = r /\ u.hw = park(b)
  BY <1>5, <1>7
<1>8. \/ got = [state |-> "stop", reason |-> rs, hw |-> b]
      \/ m_state = "single_step" /\ intent.pc # m_last_stopped_pc
         /\ got = [state |-> "stop", reason |-> rs \cup {"single_step"}, hw |-> b]
      \/ m_state = "single_step" /\ intent.pc = m_last_stopped_pc
         /\ rs = {} /\ Code[intent.pc] \notin Advances
         /\ got = [state |-> "stop", reason |-> {"single_step"}, hw |-> b]
      \/ m_state = "single_step" /\ intent.pc = m_last_stopped_pc
         /\ rs = {} /\ Code[intent.pc] \in Advances
         /\ got = [state |-> "single_step", reason |-> {}, hw |-> wave_set_state(b, "single_step")]
  BY <1>2, <1>3, <1>4 DEF wave_get_state, Advances
<1>9. ASSUME m_state = "single_step"
      PROVE  FreeAs(wave_set_state(b, "single_step")) /\ wave_set_state(b, "single_step").step
  BY <1>3, <1>9, ResumeRegs DEF FreeAs
<1> HIDE DEF got, b, k, rs
<1>10. CASE got = [state |-> "stop", reason |-> rs, hw |-> b]
  BY <1>1, <1>6, <1>7, <1>10 DEF HasStopped, rs, k
<1>11. CASE m_state = "single_step" /\ intent.pc # m_last_stopped_pc
            /\ got = [state |-> "stop", reason |-> rs \cup {"single_step"}, hw |-> b]
  BY <1>1, <1>6, <1>7, <1>11 DEF HasStopped, rs, k
<1>12. CASE m_state = "single_step" /\ intent.pc = m_last_stopped_pc
            /\ rs = {} /\ Code[intent.pc] \notin Advances
            /\ got = [state |-> "stop", reason |-> {"single_step"}, hw |-> b]
  BY <1>1, <1>6, <1>7, <1>12 DEF HasStopped, rs, k
<1>13. CASE m_state = "single_step" /\ intent.pc = m_last_stopped_pc
            /\ rs = {} /\ Code[intent.pc] \in Advances
            /\ got = [state |-> "single_step", reason |-> {},
                      hw |-> wave_set_state(b, "single_step")]
  BY <1>1, <1>5, <1>9, <1>13 DEF SentBack, rs, k
<1> QED BY <1>8, <1>10, <1>11, <1>12, <1>13

(* A wave found running goes on, or is held where it was launched.         *)
LEMMA RunningOutcome ==
    ASSUME KeptInv, HaltsRespected, m_state # "stop", NEW h \in Saved, ~Known(h).stopped
    PROVE  LET u == HoldAtLaunch(update(h, m_state)) IN
           \/ GoesOn(u.state, u.reason, u.hw)
           \/ HeldAtLaunch(u.state, u.reason, u.hw)
<1> DEFINE k == Known(h)
           u == [state |-> m_state, reason |-> {}, hw |-> k]
<1>1. /\ k \in Regs /\ k.step = hw.step /\ k.excp = hw.excp /\ ~k.stopped
      /\ ~Held /\ k.pc = intent.pc /\ k.halt = hw.halt
  BY SavedRegs
<1>2. /\ config \in Configs /\ intent.pc \in Pcs /\ m_state \in {"run", "single_step"}
      /\ intent.halt \in BOOLEAN
  BY DEF KeptInv, TypeOK
<1>3. AtLaunch \/ k.halt = intent.halt
  BY <1>1 DEF KeptInv, FreeRegs
<1>4. update(h, m_state) = u
  <2>1. get_state_base(k, m_state) = u
    BY <1>1 DEF get_state_base
  <2>2. wave_get_state(k, m_state) = u
    BY <1>2, <2>1 DEF wave_get_state
  <2> QED BY <1>2, <2>2 DEF update, Known
<1>5. wave_get_halt(k) = k.halt
  BY <1>1 DEF wave_get_halt
<1> DEFINE atEntry == ~m_ttmps_initialized /\ m_state = "run" /\ k.pc = Entry /\ k.halt
           free == wave_set_halt(k, FALSE)
           stop == wave_set_state(free, "stop")
<1> HIDE DEF k
<1>6. HoldAtLaunch(u) = IF atEntry THEN [state |-> "stop", reason |-> {}, hw |-> park(stop)] ELSE u
  BY <1>5 DEF HoldAtLaunch
<1>7. CASE ~atEntry
  <2>1. k.halt = intent.halt
    BY <1>1, <1>3, <1>7 DEF AtLaunch, KeptInv, Unseen
  <2> QED BY <1>1, <1>4, <1>6, <1>7, <2>1 DEF GoesOn, FreeAs
<1>8. CASE atEntry
  <2>1. ~intent.halt /\ AtLaunch
    BY <1>1, <1>2, <1>3, <1>8 DEF KeptInv, Unseen
  <2>2. Arch # "gfx12"
    BY <1>2, <2>1 DEF AtLaunch, HaltsRespected, Arch
  <2>3. free = [k EXCEPT !.halt = FALSE]
    BY <1>1, <2>2 DEF wave_set_halt, wave_set_halt_base
  <2>4. /\ free \in Regs /\ ~free.halt /\ free.pc = intent.pc
        /\ free.step = hw.step /\ free.excp = hw.excp
    BY <1>1, <2>3 DEF Regs
  <2> HIDE DEF free
  <2>5. /\ stop \in Regs /\ stop.stopped /\ stop.halt /\ ~stop.saved_halt
        /\ stop.pc = intent.pc /\ stop.step = hw.step /\ stop.excp = hw.excp
    BY <2>4, StopRegs
  <2> HIDE DEF stop
  <2>6. stop.saved_halt = intent.halt
    BY <1>2, <2>1, <2>5 DEF Regs
  <2>7. HeldAs(park(stop))
    BY <1>2, <2>5, <2>6, ParkRegs DEF HeldAs
  <2> QED BY <1>1, <1>4, <1>6, <1>8, <2>7 DEF HeldAtLaunch
<1> QED BY <1>7, <1>8

(* Every suspension of a wave that was not stopped is one of the four.     *)
LEMMA SuspendOutcome ==
    ASSUME KeptInv, HaltsRespected, m_state # "stop", Suspend
    PROVE  /\ m_ttmps_initialized' /\ suspended' /\ ~suspended
           /\ m_is_parked' = (m_state' = "stop" /\ park_stopped_waves)
           /\ UNCHANGED <<m_last_stopped_pc, intent>>
           /\ \/ GoesOn(m_state', m_stop_reason', hw')
              \/ HeldAtLaunch(m_state', m_stop_reason', hw')
              \/ \E k \in Regs :
                   /\ k.excp = hw.excp
                   /\ \/ Held /\ k.trap_id = hw.trap_id
                      \/ Taken /\ k.trap_id = 0
                   /\ \/ HasStopped(m_state', m_stop_reason', hw', ReasonsOf(k))
                      \/ SentBack(m_state', m_stop_reason', hw', ReasonsOf(k))
<1>1. PICK h \in Saved :
        LET u == HoldAtLaunch(update(h, m_state)) IN
        /\ hw' = u.hw
        /\ m_state' = u.state /\ m_stop_reason' = u.reason
        /\ m_is_parked' = (u.state = "stop" /\ park_stopped_waves)
  BY DEF Suspend, Saved
<1>2. CASE ~Known(h).stopped
  BY <1>1, <1>2, RunningOutcome DEF Suspend
<1>3. CASE Known(h).stopped
  <2>1. update(h, m_state).state = "stop" \/ m_state = "single_step"
    BY <1>3, StoppedOutcome DEF HasStopped, SentBack
  <2>2. HoldAtLaunch(update(h, m_state)) = update(h, m_state)
    <3>1. m_state = "single_step" => m_ttmps_initialized
      BY DEF KeptInv, Unseen
    <3> QED BY <2>1, <3>1 DEF HoldAtLaunch
  <2>3. /\ Known(h) \in Regs /\ Known(h).excp = hw.excp
        /\ \/ Held /\ Known(h).trap_id = hw.trap_id
           \/ Taken /\ Known(h).trap_id = 0
    BY <1>3, SavedRegs
  <2> QED BY <1>1, <1>3, <2>2, <2>3, StoppedOutcome DEF Suspend
<1> QED BY <1>2, <1>3

-----------------------------------------------------------------------------
(* What an instruction makes of a wave.                                    *)

LEMMA AfterIs == ASSUME NEW p \in Pcs PROVE After(p) \in Pcs /\ After(p) # p
<1> DEFINE n == Cardinality(Pcs)
<1>1. n \in Nat \ {0, 1} /\ Pcs = 0..(n - 1)
  BY WaveControlAssumption DEF WaveControlAssumption, Pcs
<1> HIDE DEF n
<1>2. p \in 0..(n - 1)
  BY <1>1
<1>3. (p + 1) % n \in 0..(n - 1) /\ (p + 1) % n # p
  <2>1. CASE p + 1 < n
    BY <1>1, <1>2, <2>1
  <2>2. CASE p + 1 = n
    BY <1>1, <1>2, <2>2
  <2> QED BY <1>1, <1>2, <2>1, <2>2
<1> QED BY <1>1, <1>3 DEF After, n

(* The wave takes a step, and enters the trap handler.                     *)
Steps(halts) == hw.step /\ (Precise \/ ~halts)
Traps(es, id, halts) == Steps(halts) \/ id # 0 \/ \E e \in es : EnabledBy(e)

Executes(es, id, next, halts) ==
    /\ es \subseteq Flags /\ id \in {0} \cup TrapIds /\ next \in Pcs
    /\ Code[hw.pc] \in Advances => next = After(hw.pc)
    /\ halts = (Code[hw.pc] = "sethalt")
    /\ intent' = [Raised(es, id) EXCEPT !.pc = next, !.halt = halts]
    /\ hw' \in Regs /\ hw'.step = hw.step
    /\ hw'.excp = hw.excp \cup es
                  \cup (IF Steps(halts) /\ Precise THEN {"trap_after_inst"} ELSE {})
    /\ IF Traps(es, id, halts)
         THEN /\ hw'.stopped /\ hw'.halt /\ hw'.mark /\ hw'.skip_export
              /\ hw'.saved_halt = halts /\ hw'.trap_id = id
              /\ IF park_stopped_waves THEN hw'.pc = ParkPc /\ hw'.saved_pc = next
                                       ELSE hw'.pc = next
         ELSE /\ hw'.stopped = hw.stopped /\ hw'.skip_export = hw.skip_export
              /\ hw'.mark = hw.mark /\ hw'.halt = halts /\ hw'.pc = next

LEMMA ExecuteOutcome ==
    ASSUME KeptInv, HwExecute
    PROVE  /\ ~suspended /\ ~hw.halt /\ ~Held /\ hw.pc = intent.pc /\ ~intent.halt
           /\ \E es, id, next, halts : Executes(es, id, next, halts)
<1>1. /\ hw \in Regs /\ config \in Configs /\ intent.pc \in Pcs /\ intent.halt \in BOOLEAN
      /\ ~suspended /\ ~hw.halt /\ m_state # "stop"
  BY DEF KeptInv, TypeOK, Regs, HwExecute, RunsOn
<1>2. ~Held /\ hw.pc = intent.pc /\ ~intent.halt
  BY <1>1 DEF KeptInv, HeldRegs, FreeRegs, AtLaunch
<1> DEFINE insn    == Code[hw.pc]
           halts   == insn = "sethalt"
           nexts   == CASE insn = "branch_self" -> {hw.pc}
                        [] insn = "invalid" -> {hw.pc, After(hw.pc)}
                        [] OTHER -> {After(hw.pc)}
           ran(es, next) == [hw EXCEPT !.pc = next, !.excp = @ \cup es,
                                       !.halt = @ \/ insn = "sethalt"]
           steps(r) == r.step /\ (Precise \/ ~r.halt)
           flagged(r) == IF steps(r) /\ Precise
                           THEN [r EXCEPT !.excp = @ \cup {"trap_after_inst"}] ELSE r
<1>3. PICK es \in SUBSET Flags, id \in TrapId, next \in Pcs :
        /\ id \in {0} \cup TrapIds
        /\ insn \in Advances => next = After(hw.pc)
        /\ LET r == ran(es, next)
               f == flagged(r)
               traps == steps(r) \/ id # 0 \/ \E e \in es : EnabledBy(e)
           IN /\ hw' = IF traps THEN [EnterTrapHandler(f, next, id) EXCEPT !.skip_export = TRUE]
                                ELSE f
              /\ intent' = [Raised(es, id) EXCEPT !.pc = next, !.halt = r.halt]
  <2>1. PICK es \in {{}} \cup {{e} : e \in Flags},
             id \in IF insn = "trap" THEN TrapIds ELSE {0},
             next \in nexts :
          LET r == ran(es, next)
              f == flagged(r)
              traps == steps(r) \/ id # 0 \/ \E e \in es : EnabledBy(e)
          IN /\ hw' = IF traps THEN [EnterTrapHandler(f, next, id) EXCEPT !.skip_export = TRUE]
                               ELSE f
             /\ intent' = [Raised(es, id) EXCEPT !.pc = next, !.halt = r.halt]
    BY DEF HwExecute
  <2>2. next \in Pcs /\ (insn \in Advances => next = After(hw.pc))
    BY <1>1, <1>2, <2>1, AfterIs DEF Advances
  <2>3. es \subseteq Flags /\ id \in {0} \cup TrapIds
    BY <2>1
  <2>4. id \in TrapId
    BY <2>3, WaveControlAssumption DEF WaveControlAssumption, TrapId
  <2> QED BY <2>1, <2>2, <2>3, <2>4
<1>5. es \subseteq Exceptions
  BY <1>3, WaveControlAssumption DEF WaveControlAssumption, Flags
<1> DEFINE r == ran(es, next)
           f == flagged(r)
<1>11. /\ hw' = IF steps(r) \/ id # 0 \/ \E e \in es : EnabledBy(e)
                  THEN [EnterTrapHandler(f, next, id) EXCEPT !.skip_export = TRUE] ELSE f
       /\ intent' = [Raised(es, id) EXCEPT !.pc = next, !.halt = r.halt]
  BY <1>3
<1>6. /\ r \in Regs /\ r.pc = next /\ r.halt = halts /\ r.excp = hw.excp \cup es
      /\ r.step = hw.step /\ r.stopped = hw.stopped /\ r.skip_export = hw.skip_export
      /\ r.mark = hw.mark
  BY <1>1, <1>5 DEF Regs
<1> HIDE DEF r
<1>7. steps(r) = Steps(halts)
  BY <1>6 DEF Steps
<1>8. /\ f \in Regs /\ f.pc = next /\ f.halt = halts
      /\ f.excp = hw.excp \cup es \cup (IF Steps(halts) /\ Precise THEN {"trap_after_inst"} ELSE {})
      /\ f.step = hw.step /\ f.stopped = hw.stopped /\ f.skip_export = hw.skip_export
      /\ f.mark = hw.mark
  <2>1. CASE ~(Steps(halts) /\ Precise)
    BY <1>6, <1>7, <2>1
  <2>2. CASE Steps(halts) /\ Precise
    <3>1. f = [r EXCEPT !.excp = @ \cup {"trap_after_inst"}]
      BY <1>7, <2>2
    <3>2. "trap_after_inst" \in Exceptions
      BY DEF Exceptions, Extended
    <3> QED BY <1>6, <2>2, <3>1, <3>2 DEF Regs
  <2> QED BY <2>1, <2>2
<1> HIDE DEF f
<1>9. /\ hw' = IF Traps(es, id, halts)
                 THEN [EnterTrapHandler(f, next, id) EXCEPT !.skip_export = TRUE] ELSE f
      /\ intent' = [Raised(es, id) EXCEPT !.pc = next, !.halt = halts]
  BY <1>6, <1>7, <1>11 DEF Traps
<1>10. Executes(es, id, next, halts)
  <2>1. CASE Traps(es, id, halts)
    <3> DEFINE t == EnterTrapHandler(f, next, id)
    <3>1. /\ t \in Regs
          /\ t.stopped /\ t.halt /\ t.mark /\ t.saved_halt = halts /\ t.trap_id = id
          /\ t.step = hw.step /\ t.excp = f.excp
          /\ IF park_stopped_waves THEN t.pc = ParkPc /\ t.saved_pc = next ELSE t.pc = next
      <4>1. f \in Regs
        BY <1>8
      <4>2. /\ t \in Regs
            /\ t.stopped /\ t.halt /\ t.mark /\ t.saved_halt = f.halt /\ t.trap_id = id
            /\ t.step = f.step /\ t.excp = f.excp
            /\ IF park_stopped_waves THEN t.pc = ParkPc /\ t.saved_pc = next ELSE t.pc = next
        BY <1>1, <4>1, EnterRegs
      <4> HIDE DEF t
      <4> QED BY <1>8, <4>2
    <3>2. hw' = [t EXCEPT !.skip_export = TRUE]
      BY <1>9, <2>1
    <3> HIDE DEF t
    <3>3. /\ hw' \in Regs /\ hw'.skip_export
          /\ hw'.stopped /\ hw'.halt /\ hw'.mark /\ hw'.saved_halt = halts /\ hw'.trap_id = id
          /\ hw'.step = hw.step /\ hw'.excp = f.excp
          /\ IF park_stopped_waves THEN hw'.pc = ParkPc /\ hw'.saved_pc = next ELSE hw'.pc = next
      BY <3>1, <3>2 DEF Regs
    <3> QED BY <1>3, <1>8, <1>9, <2>1, <3>3 DEF Executes
  <2>2. CASE ~Traps(es, id, halts)
    BY <1>3, <1>8, <1>9, <2>2 DEF Executes
  <2> QED BY <2>1, <2>2
<1> QED BY <1>1, <1>2, <1>10

-----------------------------------------------------------------------------
(* The program's state is kept: KeptInv is inductive.                      *)

LEMMA SameConfig ==
    ASSUME UNCHANGED config
    PROVE  /\ park_stopped_waves' = park_stopped_waves /\ Precise' = Precise
           /\ SpiEnabled' = SpiEnabled /\ Arch' = Arch
  BY DEF park_stopped_waves, Precise, SpiEnabled, Arch, Version

(* What is not in the registers has its type.                              *)
RestTypes ==
    /\ config \in Configs
    /\ m_state \in {"run", "stop", "single_step"} /\ m_stop_reason \subseteq Reasons
    /\ m_last_stopped_pc \in Pcs
    /\ m_is_parked \in BOOLEAN /\ m_ttmps_initialized \in BOOLEAN /\ suspended \in BOOLEAN
    /\ intent \in Intents
LEMMA TypeParts == TypeOK <=> hw \in Regs /\ RestTypes
  BY DEF TypeOK, Regs, RestTypes, Intents

LEMMA TypePartsNext == TypeOK' <=> hw' \in Regs /\ RestTypes'
  BY DEF TypeOK, Regs, RestTypes, Intents

(* What a resume makes of the account of the program.                      *)
LEMMA AfreshIs ==
    ASSUME RestTypes, NEW n \in 0..2
    PROVE  LET a == Afresh(n) IN
           /\ a \in Intents
           /\ a.raised = {} /\ a.trap = 0 /\ a.executed = n /\ ~a.freed
           /\ a.pc = intent.pc /\ a.halt = intent.halt
           /\ a.stale = (intent.stale \cup intent.raised) \cap Forgotten
<1>1. (intent.stale \cup intent.raised) \cap Forgotten \in SUBSET Exceptions /\ 0 \in 0..15
  BY DEF RestTypes, Intents
<1> QED BY <1>1 DEF Afresh, RestTypes, Intents

(* The reasons a wave may stop for are reasons.                            *)
LEMMA ReasonsType == ASSUME NEW h PROVE ReasonsOf(h) \subseteq Reasons
<1>1. CASE h.trap_id = 0 BY <1>1 DEF ReasonsOf, Reasons
<1>2. CASE h.trap_id = 1 BY <1>2 DEF ReasonsOf, Reasons
<1>3. CASE h.trap_id = 2 BY <1>3 DEF ReasonsOf, Reasons
<1>4. CASE h.trap_id = 3 BY <1>4 DEF ReasonsOf, Reasons
<1>5. CASE h.trap_id \notin {0, 1, 2, 3} BY <1>5 DEF ReasonsOf, Reasons
<1> QED BY <1>1, <1>2, <1>3, <1>4, <1>5

(* An instruction, before the library has seen the wave or after.          *)
LEMMA KeptExecute ==
    ASSUME KeptInv, HaltsRespected, UNCHANGED config, HwExecute
    PROVE  KeptInv'
<1>1. PICK es, id, next, halts : Executes(es, id, next, halts)
  BY ExecuteOutcome
<1>2. /\ ~suspended /\ ~hw.halt /\ ~Held /\ hw.pc = intent.pc
      /\ UNCHANGED <<m_state, m_stop_reason, m_last_stopped_pc, m_is_parked,
                     m_ttmps_initialized, suspended>>
  BY ExecuteOutcome DEF HwExecute, lib
<1>3. hw \in Regs /\ RestTypes
  BY TypeParts DEF KeptInv
<1>4. halts \in BOOLEAN /\ next \in Pcs /\ es \subseteq Exceptions /\ id \in 0..15 /\ hw' \in Regs
  BY <1>1, WaveControlAssumption DEF Executes, WaveControlAssumption, Flags
<1>5. /\ intent' \in Intents
      /\ intent'.pc = next /\ intent'.halt = halts /\ intent'.freed = intent.freed
  <2>1. intent' = [Raised(es, id) EXCEPT !.pc = next, !.halt = halts]
    BY <1>1 DEF Executes
  <2>2. Raised(es, id) \in Intents /\ Raised(es, id).freed = intent.freed
    <3> DEFINE x == intent.raised \cup {e \in es : EnabledBy(e)}
               t == IF id = 0 THEN intent.trap ELSE id
               n == IF intent.executed = 2 THEN 2 ELSE intent.executed + 1
    <3>1. x \in SUBSET Exceptions
      BY <1>3, <1>4 DEF RestTypes, Intents
    <3>2. t \in 0..15
      BY <1>3, <1>4 DEF RestTypes, Intents
    <3>3. n \in 0..2
      BY <1>3 DEF RestTypes, Intents
    <3>4. Raised(es, id) = [intent EXCEPT !.raised = x, !.trap = t, !.executed = n]
      BY DEF Raised
    <3> HIDE DEF x, t, n
    <3> QED BY <1>3, <3>1, <3>2, <3>3, <3>4 DEF RestTypes, Intents
  <2> QED BY <1>4, <2>1, <2>2 DEF Intents
<1>6. TypeOK'
  BY <1>2, <1>3, <1>4, <1>5, TypePartsNext DEF RestTypes
<1>7. m_state # "stop" /\ m_state' = m_state
  BY <1>2 DEF KeptInv
<1>8. Traps(es, id, halts) => Held' /\ HeldRegs'
  BY <1>1, <1>2, <1>5, SameConfig DEF Executes, Held, HeldRegs
<1>9. ~Traps(es, id, halts) => ~Held' /\ FreeRegs'
  BY <1>1, <1>2, <1>5, SameConfig DEF Executes, Held, FreeRegs
<1>10. Unseen'
  <2>1. SUFFICES ASSUME ~m_ttmps_initialized
                 PROVE  /\ m_state = "run" /\ ~suspended /\ ~hw'.step
                        /\ hw'.mark = hw'.skip_export
                        /\ hw'.skip_export => hw'.stopped
                        /\ ~hw'.skip_export /\ hw'.stopped
                             => ~SpiEnabled \/ Arch \in {"gfx940", "gfx12"}
                        /\ halts => next # Entry
    BY <1>2, <1>5, SameConfig DEF Unseen
  <2>2. /\ m_state = "run" /\ ~suspended /\ ~hw.step
        /\ hw.mark = hw.skip_export
        /\ hw.skip_export => hw.stopped
        /\ ~hw.skip_export /\ hw.stopped => ~SpiEnabled \/ Arch \in {"gfx940", "gfx12"}
    BY <2>1 DEF KeptInv, Unseen
  <2>3. halts => next # Entry
    BY <1>1, <1>2, <1>3 DEF Executes, Advances, HaltsRespected, RestTypes, Intents
  <2>4. ~(~hw'.skip_export /\ hw'.stopped) \/ ~SpiEnabled \/ Arch \in {"gfx940", "gfx12"}
    BY <1>1, <2>2 DEF Executes
  <2>5. hw'.mark = hw'.skip_export /\ (hw'.skip_export => hw'.stopped) /\ ~hw'.step
    BY <1>1, <1>4, <2>2 DEF Executes, Regs
  <2> QED BY <2>2, <2>3, <2>4, <2>5
<1> QED BY <1>2, <1>5, <1>6, <1>7, <1>8, <1>9, <1>10, SameConfig DEF KeptInv

(* A suspension.                                                           *)
LEMMA KeptSuspend ==
    ASSUME KeptInv, HaltsRespected, UNCHANGED config, Suspend
    PROVE  KeptInv'
<1>1. hw \in Regs /\ RestTypes
  BY TypeParts DEF KeptInv
<1>2. CASE m_state = "stop"
  <2>1. /\ Held /\ m_ttmps_initialized /\ HeldRegs
    BY <1>2 DEF KeptInv, Unseen
  <2>2. hw' = hw
    BY <1>2, <2>1 DEF Suspend, RunsOn
  <2>3. m_ttmps_initialized' /\ suspended'
        /\ UNCHANGED <<m_state, m_stop_reason, m_is_parked, m_last_stopped_pc, intent>>
    BY <1>2 DEF Suspend
  <2>4. TypeOK'
    BY <1>1, <2>2, <2>3, TypePartsNext DEF RestTypes
  <2>5. Held' /\ HeldRegs'
    BY <2>1, <2>2, <2>3, SameConfig DEF Held, HeldRegs
  <2> QED BY <1>2, <2>3, <2>4, <2>5, SameConfig DEF KeptInv, Unseen
<1>3. CASE m_state # "stop"
  <2>1. /\ m_ttmps_initialized' /\ suspended'
        /\ m_is_parked' = (m_state' = "stop" /\ park_stopped_waves)
        /\ UNCHANGED <<m_last_stopped_pc, intent>>
    BY <1>3, SuspendOutcome
  <2>2. \/ m_state' = m_state /\ m_stop_reason' = {} /\ FreeAs(hw')
        \/ m_state' = "stop" /\ m_stop_reason' \subseteq Reasons /\ HeldAs(hw')
    <3>1. "single_step" \in Reasons
      BY DEF Reasons
    <3> QED BY <1>3, <3>1, SuspendOutcome, ReasonsType
            DEF GoesOn, HeldAtLaunch, HasStopped, SentBack
  <2>3. CASE m_state' = m_state /\ m_stop_reason' = {} /\ FreeAs(hw')
    <3>1. TypeOK'
      BY <1>1, <2>1, <2>3, TypePartsNext DEF RestTypes, FreeAs
    <3>2. ~Held' /\ FreeRegs'
      BY <2>1, <2>3 DEF Held, FreeRegs, FreeAs
    <3> QED BY <1>3, <2>1, <2>3, <3>1, <3>2, SameConfig DEF KeptInv, Unseen
  <2>4. CASE m_state' = "stop" /\ m_stop_reason' \subseteq Reasons /\ HeldAs(hw')
    <3>1. m_is_parked' \in BOOLEAN
      BY <2>1, ArchIs, <1>1 DEF RestTypes
    <3>2. TypeOK'
      BY <1>1, <2>1, <2>4, <3>1, TypePartsNext DEF RestTypes, HeldAs
    <3>3. Held' /\ HeldRegs'
      BY <2>1, <2>4, SameConfig DEF Held, HeldRegs, HeldAs
    <3> QED BY <2>1, <2>4, <3>2, <3>3, SameConfig DEF KeptInv, Unseen
  <2> QED BY <2>2, <2>3, <2>4
<1> QED BY <1>2, <1>3

(* The client stops a wave that runs.                                      *)
LEMMA KeptStop ==
    ASSUME KeptInv, UNCHANGED config, StopWave
    PROVE  KeptInv' /\ ~Held /\ hw'.excp = hw.excp /\ hw'.step = hw.step
<1>1. hw \in Regs /\ RestTypes
  BY TypeParts DEF KeptInv
<1>2. /\ ~Held /\ m_ttmps_initialized /\ hw.pc = intent.pc /\ hw.halt = intent.halt
  BY DEF KeptInv, Unseen, FreeRegs, AtLaunch, StopWave
<1> DEFINE s == wave_set_state(hw, "stop")
<1>3. /\ s \in Regs /\ s.stopped /\ s.halt /\ s.saved_halt = intent.halt /\ s.pc = intent.pc
      /\ s.excp = hw.excp /\ s.step = hw.step
  BY <1>1, <1>2, StopRegs
<1> HIDE DEF s
<1>4. /\ hw' = park(s) /\ m_state' = "stop" /\ m_stop_reason' = {}
      /\ m_is_parked' = park_stopped_waves
      /\ UNCHANGED <<m_last_stopped_pc, m_ttmps_initialized, suspended, intent>>
  BY DEF StopWave, s
<1>5. HeldAs(hw')
  BY <1>1, <1>3, <1>4, ParkRegs DEF HeldAs, RestTypes, Intents
<1>6. m_is_parked' \in BOOLEAN
  BY <1>1, <1>4, ArchIs DEF RestTypes
<1>7. TypeOK'
  BY <1>1, <1>4, <1>5, <1>6, TypePartsNext DEF RestTypes, HeldAs
<1>8. Held' /\ HeldRegs'
  BY <1>2, <1>4, <1>5, SameConfig DEF Held, HeldRegs, HeldAs
<1>9. KeptInv'
  <2>1. m_is_parked' = (m_state' = "stop" /\ park_stopped_waves')
    BY <1>1, <1>4, ArchIs, SameConfig DEF RestTypes
  <2> QED BY <1>2, <1>4, <1>7, <1>8, <2>1, SameConfig DEF KeptInv, Unseen
<1> QED BY <1>2, <1>5, <1>9 DEF HeldAs

(* The registers of a wave that is resumed.                                *)
LEMMA ResumedRegs ==
    ASSUME KeptInv, m_state = "stop", NEW mode \in {"run", "single_step"}
    PROVE  LET r == Resumed(mode) IN
           /\ r \in Regs /\ ~r.stopped /\ r.halt = intent.halt /\ r.pc = intent.pc
           /\ r.pc \in Pcs /\ r.step = (mode = "single_step")
           /\ r.excp = IF m_stop_reason = {} THEN hw.excp ELSE hw.excp \ (Mask \cap Settable)
           /\ m_ttmps_initialized
<1>1. hw \in Regs /\ RestTypes /\ HeldRegs /\ m_ttmps_initialized
  BY TypeParts DEF KeptInv, Unseen
<1> DEFINE s == wave_set_state(hw, mode)
<1>2. /\ s \in Regs /\ ~s.stopped /\ s.halt = hw.saved_halt
      /\ s.pc = hw.pc /\ s.saved_pc = hw.saved_pc
      /\ s.step = (mode = "single_step")
      /\ s.excp = IF m_stop_reason = {} THEN hw.excp ELSE hw.excp \ (Mask \cap Settable)
  BY <1>1, ResumeRegs
<1> HIDE DEF s
<1>3. Resumed(mode) = unpark(s)
  BY DEF Resumed, s
<1> QED BY <1>1, <1>2, <1>3, UnparkRegs DEF HeldRegs, RestTypes, Intents

(* A wave that is resumed, or resumed halted, is the program's again.      *)
LEMMA KeptFree ==
    ASSUME KeptInv, UNCHANGED config, m_ttmps_initialized, m_state = "stop",
           NEW mode \in {"run", "single_step"},
           hw' \in Regs, ~hw'.stopped, hw'.pc = intent.pc,
           hw'.halt = intent'.halt, hw'.halt \in BOOLEAN,
           m_state' = mode, m_stop_reason' = {}, m_is_parked' = FALSE,
           m_last_stopped_pc' = intent.pc,
           intent' = [Afresh(0) EXCEPT !.halt = hw'.halt],
           UNCHANGED <<m_ttmps_initialized, suspended>>
    PROVE  KeptInv'
<1>1. RestTypes
  BY TypeParts DEF KeptInv
<1>2. /\ intent' \in Intents
      /\ intent'.pc = intent.pc /\ ~intent'.freed
  <2>1. 0 \in 0..2
    OBVIOUS
  <2> QED BY <1>1, <2>1, AfreshIs DEF Intents
<1>3. RestTypes'
  BY <1>1, <1>2 DEF RestTypes, Intents
<1>4. ~Held' /\ FreeRegs'
  BY <1>2 DEF Held, FreeRegs
<1> QED BY <1>2, <1>3, <1>4, TypePartsNext DEF KeptInv, Unseen

LEMMA KeptResume ==
    ASSUME KeptInv, UNCHANGED config, NEW mode \in {"run", "single_step"}, ResumeWave(mode)
    PROVE  KeptInv'
<1>1. m_state = "stop"
  BY DEF ResumeWave
<1> DEFINE r == Resumed(mode)
<1>2. /\ r \in Regs /\ ~r.stopped /\ r.halt = intent.halt /\ r.pc = intent.pc
      /\ m_ttmps_initialized
  BY <1>1, ResumedRegs
<1>3. /\ hw' = r /\ m_last_stopped_pc' = r.pc
      /\ m_state' = mode /\ m_stop_reason' = {} /\ m_is_parked' = FALSE
      /\ intent' = Afresh(0)
      /\ UNCHANGED <<m_ttmps_initialized, suspended>>
  BY DEF ResumeWave
<1> HIDE DEF r
<1>4. RestTypes
  BY TypeParts DEF KeptInv
<1>5. /\ intent'.halt = intent.halt /\ hw'.halt \in BOOLEAN
      /\ intent' = [Afresh(0) EXCEPT !.halt = hw'.halt]
  <2>1. 0 \in 0..2
    OBVIOUS
  <2> QED BY <1>2, <1>3, <1>4, <2>1, AfreshIs DEF Intents, Regs
<1> QED BY <1>1, <1>2, <1>3, <1>5, KeptFree

LEMMA KeptResumeExceptions ==
    ASSUME KeptInv, HaltsRespected, UNCHANGED config,
           NEW mode \in {"run", "single_step"}, ResumeWithExceptions(mode)
    PROVE  /\ KeptInv' /\ hw'.step = (mode = "single_step") /\ hw'.halt /\ ~hw'.stopped
           /\ intent'.pc = intent.pc /\ m_last_stopped_pc' = intent.pc
           /\ hw'.excp = IF m_stop_reason = {} THEN hw.excp ELSE hw.excp \ (Mask \cap Settable)
<1>1. m_state = "stop" /\ config.halts
  BY DEF ResumeWithExceptions
<1> DEFINE r == Resumed(mode)
<1>2. /\ r \in Regs /\ ~r.stopped /\ r.pc = intent.pc /\ r.step = (mode = "single_step")
      /\ r.excp = IF m_stop_reason = {} THEN hw.excp ELSE hw.excp \ (Mask \cap Settable)
      /\ m_ttmps_initialized
  BY <1>1, ResumedRegs
<1>3. /\ hw' = wave_set_halt(r, TRUE) /\ m_last_stopped_pc' = r.pc
      /\ m_state' = mode /\ m_stop_reason' = {} /\ m_is_parked' = FALSE
      /\ intent' = [Afresh(0) EXCEPT !.halt = TRUE]
      /\ UNCHANGED <<m_ttmps_initialized, suspended>>
  BY DEF ResumeWithExceptions
<1> HIDE DEF r
<1>4. RestTypes
  BY TypeParts DEF KeptInv
<1>5. Arch # "gfx12"
  BY <1>1, <1>4 DEF RestTypes, HaltsRespected, Arch
<1>6. hw' = [r EXCEPT !.halt = TRUE]
  BY <1>2, <1>3, <1>5 DEF wave_set_halt, wave_set_halt_base
<1>7. /\ hw' \in Regs /\ ~hw'.stopped /\ hw'.pc = intent.pc /\ hw'.halt = TRUE
      /\ hw'.step = r.step /\ hw'.excp = r.excp
  BY <1>2, <1>6 DEF Regs
<1>8. intent'.halt = TRUE /\ intent'.pc = intent.pc
  <2>1. 0 \in 0..2
    OBVIOUS
  <2> QED BY <1>3, <1>4, <2>1, AfreshIs DEF Intents
<1>9. KeptInv'
  BY <1>1, <1>2, <1>3, <1>7, <1>8, KeptFree
<1> QED BY <1>2, <1>3, <1>7, <1>8, <1>9

(* A simulated step: the wave is held again, where it was.                 *)
SimulatedFlags(h) == h.excp \cup (IF Precise THEN {"trap_after_inst"} ELSE {})
LEMMA SimulateOutcome ==
    ASSUME KeptInv, StepSimulated
    PROVE  /\ m_state = "stop" /\ m_ttmps_initialized /\ suspended
           /\ hw' \in Regs /\ hw'.stopped /\ hw'.halt /\ hw'.saved_halt = intent.halt
           /\ IF park_stopped_waves THEN hw'.pc = ParkPc /\ hw'.saved_pc = intent.pc
                                    ELSE hw'.pc = intent.pc
           /\ hw'.excp = SimulatedFlags(Resumed("single_step"))
           /\ m_last_stopped_pc' = intent.pc
           /\ \E t \in Regs :
                /\ t.excp = hw'.excp /\ t.trap_id = 0
                /\ m_stop_reason' = IF ReasonsOf(t) = {} THEN {"single_step"} ELSE ReasonsOf(t)
<1>1. m_state = "stop" /\ suspended
  BY DEF StepSimulated
<1>2. config \in Configs
  BY DEF KeptInv, TypeOK
<1> DEFINE h == Resumed("single_step")
           f == IF Precise THEN [h EXCEPT !.excp = @ \cup {"trap_after_inst"}] ELSE h
           t == simulate_trap_handler(f, h.pc)
           got == get_state_base(t, "single_step")
<1>3. /\ h \in Regs /\ ~h.stopped /\ h.halt = intent.halt /\ h.pc = intent.pc
      /\ h.pc \in Pcs /\ m_ttmps_initialized
  BY <1>1, ResumedRegs
<1>4. /\ hw' = park(got.hw) /\ m_last_stopped_pc' = h.pc
      /\ m_stop_reason' = IF got.reason = {} THEN {"single_step"} ELSE got.reason
  BY DEF StepSimulated
<1> HIDE DEF h
<1>5. /\ f \in Regs /\ f.halt = intent.halt /\ f.excp = SimulatedFlags(h)
  <2>1. CASE ~Precise
    BY <1>3, <2>1 DEF SimulatedFlags
  <2>2. CASE Precise
    <3>1. "trap_after_inst" \in Exceptions
      BY DEF Exceptions, Extended
    <3> QED BY <1>3, <2>2, <3>1 DEF SimulatedFlags, Regs
  <2> QED BY <2>1, <2>2
<1> HIDE DEF f
<1>6. /\ t \in Regs /\ t.stopped /\ t.halt /\ t.saved_halt = intent.halt /\ t.trap_id = 0
      /\ t.excp = f.excp
      /\ IF park_stopped_waves THEN t.pc = ParkPc /\ t.saved_pc = intent.pc
                               ELSE t.pc = intent.pc
  <2>1. 0 \in TrapId
    BY DEF TrapId
  <2>2. t = EnterTrapHandler(f, h.pc, 0)
    BY DEF simulate_trap_handler
  <2> HIDE DEF t
  <2> QED BY <1>2, <1>3, <1>5, <2>1, <2>2, EnterRegs
<1> HIDE DEF t
<1>7. got = [state |-> "stop", reason |-> ReasonsOf(t), hw |-> unpark(t)]
  BY <1>6 DEF get_state_base
<1> DEFINE b == unpark(t)
<1>8. /\ b \in Regs /\ b.pc = intent.pc /\ b.excp = t.excp
      /\ b.halt /\ b.saved_halt = intent.halt /\ b.stopped
  BY <1>2, <1>6, UnparkRegs
<1> HIDE DEF b
<1>9. hw' = park(b) /\ m_stop_reason' = IF ReasonsOf(t) = {} THEN {"single_step"} ELSE ReasonsOf(t)
  BY <1>4, <1>7 DEF b
<1>10. /\ hw' \in Regs /\ hw'.stopped /\ hw'.halt /\ hw'.saved_halt = intent.halt
       /\ IF park_stopped_waves THEN hw'.pc = ParkPc /\ hw'.saved_pc = intent.pc
                                ELSE hw'.pc = intent.pc
       /\ hw'.excp = b.excp
  BY <1>2, <1>3, <1>8, <1>9, ParkRegs
<1>11. t.excp = hw'.excp /\ hw'.excp = SimulatedFlags(h)
  BY <1>5, <1>6, <1>8, <1>10
<1> QED BY <1>1, <1>3, <1>4, <1>6, <1>9, <1>10, <1>11 DEF h

LEMMA KeptSimulated ==
    ASSUME KeptInv, UNCHANGED config, StepSimulated
    PROVE  KeptInv'
<1>1. RestTypes
  BY TypeParts DEF KeptInv
<1>2. /\ m_state' = "stop" /\ m_is_parked' = park_stopped_waves
      /\ intent' = Afresh(1)
      /\ UNCHANGED <<m_ttmps_initialized, suspended>>
  BY DEF StepSimulated
<1>3. /\ intent' \in Intents
      /\ intent'.pc = intent.pc /\ intent'.halt = intent.halt /\ ~intent'.freed
  <2>1. 1 \in 0..2
    OBVIOUS
  <2> QED BY <1>1, <1>2, <2>1, AfreshIs
<1>4. m_stop_reason' \subseteq Reasons
  <2>1. "single_step" \in Reasons
    BY DEF Reasons
  <2> QED BY <2>1, SimulateOutcome, ReasonsType
<1>5. m_is_parked' = (m_state' = "stop" /\ park_stopped_waves') /\ m_is_parked' \in BOOLEAN
  BY <1>1, <1>2, ArchIs, SameConfig DEF RestTypes
<1>6. TypeOK'
  BY <1>1, <1>2, <1>3, <1>4, <1>5, SimulateOutcome, TypePartsNext DEF RestTypes, Intents
<1>7. Held' /\ HeldRegs' /\ m_ttmps_initialized'
  BY <1>2, <1>3, SimulateOutcome, SameConfig DEF Held, HeldRegs
<1> QED BY <1>2, <1>3, <1>5, <1>6, <1>7 DEF KeptInv, Unseen

(* The client writes a register of a stopped wave.                         *)
LEMMA KeptWrite ==
    ASSUME KeptInv, UNCHANGED config, m_state = "stop",
           hw' \in Regs, hw'.stopped = hw.stopped, UNCHANGED <<lib, suspended>>,
           HeldRegs', intent' \in Intents, intent'.freed => Arch # "gfx12"
    PROVE  KeptInv'
<1>1. RestTypes /\ Held /\ m_ttmps_initialized
  BY TypeParts DEF KeptInv, Unseen
<1>2. /\ m_state' = m_state /\ m_stop_reason' = m_stop_reason /\ m_is_parked' = m_is_parked
      /\ m_last_stopped_pc' = m_last_stopped_pc /\ m_ttmps_initialized' = m_ttmps_initialized
      /\ suspended' = suspended
  BY DEF lib
<1>3. TypeOK'
  BY <1>1, <1>2, TypePartsNext DEF RestTypes
<1>4. Held'
  BY <1>1, <1>2 DEF Held
<1> QED BY <1>1, <1>2, <1>3, <1>4, SameConfig DEF KeptInv, Unseen

LEMMA KeptWriteStatus ==
    ASSUME KeptInv, UNCHANGED config, NEW b \in StatusHalts, WriteStatus(b)
    PROVE  KeptInv' /\ hw'.excp = hw.excp
<1>1. hw \in Regs /\ RestTypes /\ HeldRegs
  BY TypeParts DEF KeptInv, WriteStatus
<1>2. b \in BOOLEAN /\ Arch # "gfx12"
  BY WaveControlAssumption DEF WaveControlAssumption, WriteStatus
<1>3. /\ hw' = [hw EXCEPT !.saved_halt = b, !.halt = b, !.skip_export = FALSE]
      /\ intent' = [intent EXCEPT !.halt = b, !.freed = ~b]
      /\ UNCHANGED <<lib, suspended>> /\ m_state = "stop" /\ m_state' = "stop"
  BY DEF WriteStatus, write_pseudo_status, lib
<1>4. /\ hw' \in Regs /\ hw'.stopped = hw.stopped /\ hw'.saved_halt = b /\ hw'.halt = b
      /\ hw'.pc = hw.pc /\ hw'.saved_pc = hw.saved_pc /\ hw'.excp = hw.excp
  BY <1>1, <1>2, <1>3 DEF Regs
<1>5. /\ intent' \in Intents /\ intent'.halt = b /\ intent'.freed = ~b
      /\ intent'.pc = intent.pc
  BY <1>1, <1>2, <1>3 DEF RestTypes, Intents
<1>6. HeldRegs'
  <2>1. (hw'.halt \/ intent'.freed) /\ hw'.saved_halt = intent'.halt
    BY <1>2, <1>4, <1>5
  <2>2. IF park_stopped_waves THEN hw'.pc = ParkPc /\ hw'.saved_pc = intent'.pc
                              ELSE hw'.pc = intent'.pc
    BY <1>1, <1>4, <1>5 DEF HeldRegs
  <2> QED BY <1>3, <2>1, <2>2, SameConfig DEF HeldRegs
<1> QED BY <1>2, <1>3, <1>4, <1>5, <1>6, KeptWrite

LEMMA KeptWriteStatePriv ==
    ASSUME KeptInv, UNCHANGED config, WriteStatePriv
    PROVE  KeptInv' /\ hw'.excp = hw.excp
<1>1. hw \in Regs /\ RestTypes /\ HeldRegs /\ ~intent.freed
  BY TypeParts DEF KeptInv, WriteStatePriv
<1>2. /\ hw' = [hw EXCEPT !.saved_halt = hw.halt]
      /\ intent' = [intent EXCEPT !.halt = TRUE]
      /\ UNCHANGED <<lib, suspended>> /\ m_state = "stop"
  BY DEF WriteStatePriv, write_pseudo_state_priv
<1>3. /\ hw' \in Regs /\ hw'.stopped = hw.stopped /\ hw'.saved_halt = hw.halt
      /\ hw'.halt = hw.halt /\ hw.halt = TRUE
      /\ hw'.pc = hw.pc /\ hw'.saved_pc = hw.saved_pc /\ hw'.excp = hw.excp
  BY <1>1, <1>2 DEF Regs, HeldRegs
<1>4. /\ intent' \in Intents /\ intent'.halt = TRUE /\ intent'.pc = intent.pc
      /\ ~intent'.freed
  BY <1>1, <1>2 DEF RestTypes, Intents
<1>5. HeldRegs'
  <2>1. hw'.halt /\ hw'.saved_halt = intent'.halt
    BY <1>3, <1>4
  <2>2. IF park_stopped_waves THEN hw'.pc = ParkPc /\ hw'.saved_pc = intent'.pc
                              ELSE hw'.pc = intent'.pc
    BY <1>1, <1>3, <1>4 DEF HeldRegs
  <2> QED BY <2>1, <2>2, SameConfig DEF HeldRegs
<1> QED BY <1>2, <1>3, <1>4, <1>5, KeptWrite DEF Intents, KeptInv

LEMMA KeptWritePc ==
    ASSUME KeptInv, UNCHANGED config, NEW p \in Pcs, WritePc(p)
    PROVE  KeptInv' /\ hw'.excp = hw.excp
<1>1. /\ hw \in Regs /\ RestTypes /\ HeldRegs /\ m_state = "stop"
      /\ m_is_parked = park_stopped_waves
  <2>1. RestTypes /\ park_stopped_waves \in BOOLEAN
    BY TypeParts, ArchIs DEF KeptInv, RestTypes
  <2> QED BY <2>1, TypeParts DEF KeptInv, WritePc
<1>2. /\ hw' = IF park_stopped_waves THEN [hw EXCEPT !.saved_pc = p] ELSE [hw EXCEPT !.pc = p]
      /\ intent' = [intent EXCEPT !.pc = p]
      /\ UNCHANGED <<lib, suspended>>
  BY <1>1 DEF WritePc, save_pc_for_park
<1>3. /\ hw' \in Regs /\ hw'.stopped = hw.stopped /\ hw'.saved_halt = hw.saved_halt
      /\ hw'.halt = hw.halt /\ hw'.excp = hw.excp
      /\ IF park_stopped_waves THEN hw'.pc = hw.pc /\ hw'.saved_pc = p ELSE hw'.pc = p
  <2>1. CASE park_stopped_waves
    BY <1>1, <1>2, <2>1 DEF Regs
  <2>2. CASE ~park_stopped_waves
    BY <1>1, <1>2, <2>2 DEF Regs
  <2> QED BY <2>1, <2>2
<1>4. /\ intent' \in Intents /\ intent'.halt = intent.halt /\ intent'.pc = p
      /\ intent'.freed = intent.freed
  BY <1>1, <1>2 DEF RestTypes, Intents
<1>5. HeldRegs'
  <2>1. (hw'.halt \/ (m_state' = "stop" /\ intent'.freed)) /\ hw'.saved_halt = intent'.halt
    BY <1>1, <1>2, <1>3, <1>4 DEF HeldRegs, lib
  <2>2. IF park_stopped_waves THEN hw'.pc = ParkPc /\ hw'.saved_pc = intent'.pc
                              ELSE hw'.pc = intent'.pc
    BY <1>1, <1>3, <1>4 DEF HeldRegs
  <2> QED BY <2>1, <2>2, SameConfig DEF HeldRegs
<1> QED BY <1>1, <1>2, <1>3, <1>4, <1>5, KeptWrite DEF Intents, KeptInv

(* The queue runs again.                                                   *)
LEMMA KeptResumeQueue ==
    ASSUME KeptInv, UNCHANGED config, ResumeQueue
    PROVE  KeptInv'
<1>1. /\ suspended /\ ~suspended' /\ UNCHANGED <<hw, m_state, m_stop_reason, m_last_stopped_pc,
                                     m_is_parked, m_ttmps_initialized, intent>>
      /\ suspended' \in BOOLEAN
  BY DEF ResumeQueue, lib
<1>2. hw \in Regs /\ RestTypes /\ m_ttmps_initialized
  BY <1>1, TypeParts DEF KeptInv, Unseen
<1>3. TypeOK'
  BY <1>1, <1>2, TypePartsNext DEF RestTypes
<1>4. Held' = Held /\ (HeldRegs <=> HeldRegs') /\ (FreeRegs <=> FreeRegs')
  BY <1>1, SameConfig DEF Held, HeldRegs, FreeRegs, AtLaunch
<1> QED BY <1>1, <1>2, <1>3, <1>4, SameConfig DEF KeptInv, Unseen

LEMMA KeptStutter == ASSUME KeptInv, UNCHANGED vars PROVE KeptInv'
<1>1. UNCHANGED <<config, hw, m_state, m_stop_reason, m_last_stopped_pc, m_is_parked,
                  m_ttmps_initialized, suspended, intent>>
  BY DEF vars, lib
<1>2. TypeOK'
  BY <1>1, TypeParts, TypePartsNext DEF KeptInv, RestTypes
<1>3. Held' = Held /\ (HeldRegs <=> HeldRegs') /\ (FreeRegs <=> FreeRegs') /\ (Unseen <=> Unseen')
  BY <1>1, SameConfig DEF Held, HeldRegs, FreeRegs, AtLaunch, Unseen
<1> QED BY <1>1, <1>2, <1>3, SameConfig DEF KeptInv

LEMMA KeptStep ==
    ASSUME KeptInv, HaltsRespected, Next
    PROVE  KeptInv'
<1>1. UNCHANGED config
  BY DEF Next
<1>2. CASE HwExecute BY <1>1, <1>2, KeptExecute
<1>3. CASE Suspend BY <1>1, <1>3, KeptSuspend
<1>4. CASE ResumeQueue BY <1>1, <1>4, KeptResumeQueue
<1>5. CASE StopWave BY <1>1, <1>5, KeptStop
<1>6. CASE ResumeWave("run") BY <1>1, <1>6, KeptResume
<1>7. CASE ResumeWave("single_step") BY <1>1, <1>7, KeptResume
<1>8. CASE StepSimulated BY <1>1, <1>8, KeptSimulated
<1>9. CASE ResumeWithExceptions("run") \/ ResumeWithExceptions("single_step")
  BY <1>1, <1>9, KeptResumeExceptions
<1>13. CASE HwRunsOn BY <1>13, KeptStutter DEF HwRunsOn
<1>10. CASE \E b \in StatusHalts : WriteStatus(b) BY <1>1, <1>10, KeptWriteStatus
<1>11. CASE WriteStatePriv BY <1>1, <1>11, KeptWriteStatePriv
<1>12. CASE \E p \in Pcs : WritePc(p) BY <1>1, <1>12, KeptWritePc
<1> QED BY <1>2, <1>3, <1>4, <1>5, <1>6, <1>7, <1>8, <1>9, <1>10, <1>11, <1>12, <1>13 DEF Next

(* A wave the debugger attaches to, whatever its ttmps hold.               *)
LEMMA KeptInit == ASSUME Init PROVE KeptInv
<1>1. PICK p \in Pcs, g \in Garbage, launch \in BOOLEAN :
        /\ launch => config.halts /\ p = Entry
        /\ hw = [halt |-> launch, step |-> FALSE, excp |-> {},
                 stopped |-> g.stopped, saved_halt |-> g.halt,
                 trap_id |-> g.id, pc |-> p, saved_pc |-> p,
                 skip_export |-> FALSE, mark |-> FALSE]
        /\ intent = [halt |-> FALSE, pc |-> p, raised |-> {}, trap |-> 0, executed |-> 0,
                     stale |-> {}, freed |-> FALSE]
        /\ m_last_stopped_pc = p
  BY DEF Init
<1>2. /\ config \in Configs /\ m_state = "run" /\ m_stop_reason = {} /\ m_is_parked = FALSE
      /\ m_ttmps_initialized = FALSE /\ suspended = FALSE
  BY DEF Init
<1>3. /\ g.stopped \in BOOLEAN /\ g.halt \in BOOLEAN /\ g.id \in {0, 1}
      /\ g.stopped => ~SpiEnabled \/ Arch \in {"gfx940", "gfx12"}
  <2>1. CASE SpiEnabled /\ Arch \notin {"gfx940", "gfx12"}
    <3>1. g = [stopped |-> FALSE, halt |-> FALSE, id |-> 0]
      BY <2>1 DEF Garbage
    <3> QED BY <3>1
  <2>2. CASE ~(SpiEnabled /\ Arch \notin {"gfx940", "gfx12"})
    <3>1. g \in [stopped : BOOLEAN, halt : BOOLEAN, id : {0, 1}]
      BY <2>2 DEF Garbage
    <3> QED BY <2>2, <3>1
  <2> QED BY <2>1, <2>2
<1>4. TypeOK
  <2>1. hw \in Regs
    BY <1>1, <1>3 DEF Regs
  <2>2. intent \in Intents
    BY <1>1 DEF Intents
  <2> QED BY <1>1, <1>2, <2>1, <2>2, TypeParts DEF RestTypes, Intents
<1>5. ~Held /\ FreeRegs /\ Unseen
  BY <1>1, <1>2, <1>3 DEF Held, FreeRegs, AtLaunch, Unseen
<1> QED BY <1>1, <1>2, <1>4, <1>5 DEF KeptInv

(* What the invariant says of the halt bit and of the pc.                  *)
LEMMA KeptIsKept == ASSUME KeptInv PROVE ProgramStateKept
<1>1. HaltKept
  BY DEF KeptInv, HaltKept, wave_get_halt, Held, HeldRegs, FreeRegs, AtLaunch
<1>2. VisiblePc
  BY ArchIs DEF KeptInv, TypeOK, VisiblePc, pc_of, saved_parked_pc, Held, HeldRegs, FreeRegs
<1> QED BY <1>1, <1>2 DEF ProgramStateKept, KeptInv

(* However a wave is stopped, stepped and resumed, by the trap handler or  *)
(* by the library, the halt bit and the pc that the client reads, and that *)
(* a resume restores, are the program's own: for every program, on every   *)
(* architecture (wave_set_state, park, unpark, wave_get_state).            *)
THEOREM StateKept == HaltsRespected => (Spec => []ProgramStateKept)
<1> SUFFICES ASSUME HaltsRespected PROVE Spec => []ProgramStateKept
  OBVIOUS
<1>1. Init => KeptInv
  BY KeptInit
<1>2. KeptInv /\ [Next]_vars => KeptInv'
  BY KeptStep, KeptStutter
<1>3. KeptInv => ProgramStateKept
  BY KeptIsKept
<1> QED BY <1>1, <1>2, <1>3, PTL DEF Spec

-----------------------------------------------------------------------------
(* A step is one instruction: StepInv is inductive.                        *)

(* A step is reported from its flag, which only some architectures have.   *)
LEMMA StepReason ==
    ASSUME NEW k \in Regs, config \in Configs, "trap_after_inst" \in k.excp => Precise
    PROVE  "single_step" \in ReasonsOf(k) <=> "trap_after_inst" \in k.excp
<1>1. "single_step" \in ReasonsOf(k) <=> "trap_after_inst" \in signaled_exceptions(k)
  <2> DEFINE s == signaled_exceptions(k)
  <2>1. "single_step" \notin Fp
    BY DEF Fp
  <2> HIDE DEF s
  <2>2. CASE k.trap_id = 0 BY <2>1, <2>2 DEF ReasonsOf, s
  <2>3. CASE k.trap_id = 1 BY <2>1, <2>3 DEF ReasonsOf, s
  <2>4. CASE k.trap_id = 2 BY <2>1, <2>4 DEF ReasonsOf, s
  <2>5. CASE k.trap_id = 3 BY <2>1, <2>5 DEF ReasonsOf, s
  <2>6. CASE k.trap_id \notin {0, 1, 2, 3} BY <2>1, <2>6 DEF ReasonsOf, s
  <2> QED BY <2>2, <2>3, <2>4, <2>5, <2>6
<1>2. Precise => Signaling("trap_after_inst")
  BY DEF Precise, Signaling, EnabledBy, Extended, Plain
<1> QED BY <1>1, <1>2, SignaledIs

(* A resume clears it, once it is reported.                                *)
LEMMA StepCleared ==
    ASSUME StepInv, m_state = "stop"
    PROVE  "trap_after_inst" \notin
             IF m_stop_reason = {} THEN hw.excp ELSE hw.excp \ (Mask \cap Settable)
<1>1. CASE StepFlag
  <2>1. Precise /\ "single_step" \in m_stop_reason
    BY <1>1 DEF StepInv, SteppingInv
  <2>2. "trap_after_inst" \in Mask
    <3>1. ExceptionsOf("single_step") = {"trap_after_inst"}
      BY DEF ExceptionsOf, Fp
    <3> QED BY <2>1, <3>1 DEF Mask
  <2>3. "trap_after_inst" \in Settable
    BY <2>1 DEF Precise, Settable, settable_gfx940, settable_gfx11, settable_gfx12,
                Exceptions, Extended
  <2> QED BY <2>1, <2>2, <2>3
<1>2. CASE ~StepFlag
  BY <1>2 DEF StepFlag
<1> QED BY <1>1, <1>2

LEMMA SteppingExecute ==
    ASSUME StepInv, UNCHANGED config, HwExecute
    PROVE  SteppingInv'
<1>1. PICK es, id, next, halts : Executes(es, id, next, halts)
  BY ExecuteOutcome DEF StepInv
<1>2. /\ ~hw.halt /\ ~Held /\ hw.pc = intent.pc
      /\ UNCHANGED <<m_state, m_stop_reason, m_last_stopped_pc, m_ttmps_initialized>>
  BY ExecuteOutcome DEF HwExecute, lib, StepInv
<1>3. m_state \in {"run", "single_step"} /\ RestTypes
  BY <1>2, TypeParts DEF StepInv, KeptInv, RestTypes
<1>4. "trap_after_inst" \notin es
  BY <1>1, WaveControlAssumption DEF Executes, Flags, WaveControlAssumption
<1>5. ~StepFlag
  BY <1>2, <1>3 DEF StepInv, SteppingInv
<1>6. StepFlag' <=> Steps(halts) /\ Precise
  BY <1>1, <1>4, <1>5 DEF Executes, StepFlag
<1>7. Held' <=> Traps(es, id, halts)
  BY <1>1, <1>2 DEF Executes, Held
<1>8. hw'.step = hw.step
  BY <1>1 DEF Executes
<1>9. CASE m_state = "run"
  BY <1>2, <1>6, <1>8, <1>9, SameConfig DEF StepInv, SteppingInv, Steps
<1>10. CASE m_state = "single_step"
  <2>1. /\ hw.step /\ intent.executed = 0 /\ intent.pc = m_last_stopped_pc
    BY <1>2, <1>10 DEF StepInv, SteppingInv
  <2>2. intent'.executed = 1 /\ intent'.pc = next
    <3>1. intent' = [Raised(es, id) EXCEPT !.pc = next, !.halt = halts]
      BY <1>1 DEF Executes
    <3> QED BY <1>3, <2>1, <3>1 DEF Raised, RestTypes, Intents
  <2>3. Code[m_last_stopped_pc] \in Advances => next # m_last_stopped_pc
    BY <1>1, <1>2, <1>3, <2>1, AfterIs DEF Executes, RestTypes
  <2>4. ~Traps(es, id, halts) => hw'.halt /\ ~Steps(halts)
    <3>1. ASSUME ~Traps(es, id, halts) PROVE halts /\ hw'.halt = halts
      BY <1>1, <2>1, <3>1 DEF Executes, Traps, Steps
    <3> QED BY <3>1 DEF Traps
  <2>5. SteppingInv' <=>
          /\ Held' => intent'.executed = 1
                      /\ (Code[m_last_stopped_pc] \in Advances => next # m_last_stopped_pc)
          /\ ~Held' => ~StepFlag' /\ \/ intent'.executed = 1 /\ hw'.halt
                                     \/ /\ intent'.executed = 0
                                        /\ next = m_last_stopped_pc
                                        /\ Code[next] = "branch_self" => hw'.halt
    BY <1>2, <1>6, <1>8, <1>10, <2>1, <2>2, SameConfig DEF SteppingInv, Advances
  <2> QED BY <1>6, <1>7, <2>2, <2>3, <2>4, <2>5
<1> QED BY <1>3, <1>9, <1>10

LEMMA SteppingSuspend ==
    ASSUME StepInv, HaltsRespected, UNCHANGED config, Suspend
    PROVE  SteppingInv'
<1>0. KeptInv /\ config \in Configs
  BY DEF StepInv, KeptInv, TypeOK
<1>1. CASE m_state = "stop"
  <2>1. HeldRegs
    BY <1>1 DEF StepInv, KeptInv
  <2>2. /\ hw' = hw
        /\ UNCHANGED <<m_state, m_stop_reason, m_last_stopped_pc, intent>>
    BY <1>1, <2>1 DEF Suspend, RunsOn
  <2> QED BY <1>1, <2>2, SameConfig DEF StepInv, SteppingInv, StepsOnce, StepFlag
<1>2. CASE m_state # "stop"
  <2>1. /\ m_ttmps_initialized' /\ UNCHANGED <<m_last_stopped_pc, intent>>
    BY <1>0, <1>2, SuspendOutcome
  <2>2. CASE GoesOn(m_state', m_stop_reason', hw')
    <3>1. ~Held /\ ~Held' /\ m_state' = m_state /\ hw'.excp = hw.excp /\ hw'.step = hw.step
          /\ hw'.halt = hw.halt
      BY <2>1, <2>2 DEF GoesOn, FreeAs, Held
    <3> QED BY <1>2, <2>1, <3>1, SameConfig DEF StepInv, SteppingInv, StepFlag
  <2>3. CASE HeldAtLaunch(m_state', m_stop_reason', hw')
    <3>1. ~StepFlag /\ m_state' = "stop" /\ m_stop_reason' = {} /\ hw'.excp = hw.excp
      BY <2>3 DEF HeldAtLaunch, HeldAs, StepInv, KeptInv, Unseen, SteppingInv
    <3> QED BY <3>1 DEF SteppingInv, StepFlag, StepsOnce
  <2>4. ASSUME NEW k \in Regs, k.excp = hw.excp,
               HasStopped(m_state', m_stop_reason', hw', ReasonsOf(k))
        PROVE  SteppingInv'
    <3>1. "single_step" \in ReasonsOf(k) <=> StepFlag
      BY <1>0, <2>4, StepReason DEF StepFlag, StepInv, SteppingInv
    <3>2. m_state' = "stop" /\ hw'.excp = hw.excp /\ (StepFlag' <=> StepFlag)
      BY <2>4 DEF HasStopped, HeldAs, StepFlag
    <3>3. StepFlag => "single_step" \in m_stop_reason'
      BY <2>4, <3>1 DEF HasStopped
    <3>4. ASSUME "single_step" \in m_stop_reason'
          PROVE  intent.executed = 1 \/ (~Precise /\ Code[m_last_stopped_pc] = "invalid")
      <4>1. CASE m_state = "run"
        BY <2>4, <3>1, <3>4, <4>1 DEF HasStopped, StepInv, SteppingInv
      <4>2. CASE m_state = "single_step" /\ Held
        BY <4>2 DEF StepInv, SteppingInv
      <4>3. CASE m_state = "single_step" /\ ~Held
        <5>1. Taken
          BY <2>4, <4>3 DEF HasStopped
        <5>2. /\ ~Precise /\ intent.executed = 0 /\ intent.pc = m_last_stopped_pc
              /\ Code[intent.pc] # "branch_self" /\ ~StepFlag
          BY <4>3, <5>1 DEF Taken, StepInv, SteppingInv
        <5>3. Code[intent.pc] \notin Advances
          BY <2>4, <3>1, <3>4, <5>2 DEF HasStopped
        <5>4. intent.pc \in Pcs
          BY <1>0 DEF KeptInv, TypeOK
        <5> QED BY <5>2, <5>3, <5>4, WaveControlAssumption
                DEF WaveControlAssumption, Pcs, Instructions, Advances
      <4> QED BY <1>0, <1>2, <4>1, <4>2, <4>3 DEF KeptInv, TypeOK
    <3>5. StepsOnce'
      BY <2>1, <3>4, SameConfig DEF StepsOnce
    <3> QED BY <3>2, <3>3, <3>5, SameConfig DEF SteppingInv, StepInv
  <2>5. ASSUME NEW k \in Regs,
               SentBack(m_state', m_stop_reason', hw', ReasonsOf(k))
        PROVE  SteppingInv'
    <3>1. /\ m_state = "single_step" /\ m_state' = "single_step" /\ hw'.step
          /\ hw'.excp = hw.excp /\ ~Held'
          /\ intent.pc = m_last_stopped_pc /\ Code[intent.pc] \in Advances
      BY <2>1, <2>5 DEF SentBack, FreeAs, Held
    <3>2. ~Held
      BY <3>1 DEF StepInv, SteppingInv, Advances
    <3>3. Taken
      BY <2>5, <3>2 DEF SentBack
    <3>4. ~StepFlag /\ intent.executed = 0
      BY <3>1, <3>2, <3>3 DEF StepInv, SteppingInv, Taken
    <3>5. Code[intent.pc] # "branch_self"
      BY <3>1 DEF Advances
    <3> QED BY <2>1, <3>1, <3>4, <3>5 DEF SteppingInv, StepFlag
  <2> QED BY <1>0, <1>2, <2>2, <2>3, <2>4, <2>5, SuspendOutcome
<1> QED BY <1>1, <1>2

LEMMA SteppingResume ==
    ASSUME StepInv, UNCHANGED config, NEW mode \in {"run", "single_step"}, ResumeWave(mode)
    PROVE  SteppingInv'
<1>1. m_state = "stop" /\ KeptInv /\ RestTypes
  BY TypeParts DEF ResumeWave, StepInv, KeptInv
<1> DEFINE r == Resumed(mode)
<1>2. /\ r \in Regs /\ ~r.stopped /\ r.halt = intent.halt /\ r.pc = intent.pc
      /\ r.step = (mode = "single_step") /\ m_ttmps_initialized
      /\ r.excp = IF m_stop_reason = {} THEN hw.excp ELSE hw.excp \ (Mask \cap Settable)
  BY <1>1, ResumedRegs
<1>3. /\ hw' = r /\ m_last_stopped_pc' = r.pc /\ m_state' = mode
      /\ intent' = Afresh(0)
      /\ UNCHANGED m_ttmps_initialized
      /\ ~(mode = "single_step" /\ Code[r.pc] = "branch_self" /\ (Arch = "gfx12" \/ ~r.halt))
  BY DEF ResumeWave
<1> HIDE DEF r
<1>4. ~StepFlag'
  BY <1>1, <1>2, <1>3, StepCleared DEF StepFlag
<1>5. ~Held'
  BY <1>2, <1>3 DEF Held
<1>6. intent'.executed = 0 /\ intent'.pc = m_last_stopped_pc'
  <2>1. 0 \in 0..2
    OBVIOUS
  <2> QED BY <1>1, <1>2, <1>3, <2>1, AfreshIs
<1>7. hw'.step = (mode = "single_step")
  BY <1>2, <1>3
<1>8. mode = "single_step" /\ Code[intent'.pc] = "branch_self" => hw'.halt
  BY <1>3, <1>6
<1> QED BY <1>3, <1>4, <1>5, <1>6, <1>7, <1>8 DEF SteppingInv

LEMMA SteppingSimulated ==
    ASSUME StepInv, UNCHANGED config, StepSimulated
    PROVE  SteppingInv'
<1>1. m_state = "stop" /\ KeptInv /\ RestTypes
  BY TypeParts DEF StepSimulated, StepInv, KeptInv
<1>2. m_state' = "stop" /\ intent'.executed = 1
  <2>1. 1 \in 0..2 /\ intent' = Afresh(1) /\ m_state' = "stop"
    BY DEF StepSimulated
  <2> QED BY <1>1, <2>1, AfreshIs
<1>3. /\ hw'.excp = SimulatedFlags(Resumed("single_step"))
      /\ \E t \in Regs :
           /\ t.excp = hw'.excp
           /\ m_stop_reason' = IF ReasonsOf(t) = {} THEN {"single_step"} ELSE ReasonsOf(t)
  BY <1>1, SimulateOutcome
<1>4. StepFlag' => Precise
  <2>1. "trap_after_inst" \notin Resumed("single_step").excp
    BY <1>1, ResumedRegs, StepCleared
  <2> QED BY <1>3, <2>1 DEF StepFlag, SimulatedFlags
<1>5. StepFlag' => "single_step" \in m_stop_reason'
  <2>1. PICK t \in Regs :
           /\ t.excp = hw'.excp
           /\ m_stop_reason' = IF ReasonsOf(t) = {} THEN {"single_step"} ELSE ReasonsOf(t)
    BY <1>3
  <2>2. "single_step" \in ReasonsOf(t) <=> StepFlag'
    BY <1>1, <1>4, <2>1, StepReason DEF StepFlag, RestTypes
  <2> QED BY <2>1, <2>2
<1> QED BY <1>2, <1>4, <1>5, SameConfig DEF SteppingInv, StepsOnce

LEMMA SteppingStep ==
    ASSUME StepInv, HaltsRespected, Next
    PROVE  SteppingInv'
<1>1. UNCHANGED config /\ KeptInv /\ RestTypes
  BY TypeParts DEF Next, StepInv, KeptInv
<1>2. CASE HwExecute BY <1>1, <1>2, SteppingExecute
<1>3. CASE Suspend BY <1>1, <1>3, SteppingSuspend
<1>4. CASE ResumeQueue
  BY <1>1, <1>4, SameConfig
     DEF ResumeQueue, lib, StepInv, SteppingInv, StepsOnce, StepFlag, Held
<1>5. CASE StopWave
  <2>1. ~Held /\ hw'.excp = hw.excp
    BY <1>1, <1>5, KeptStop
  <2>2. ~StepFlag
    BY <1>1, <1>5, <2>1 DEF StopWave, StepInv, SteppingInv, RestTypes
  <2>3. m_state' = "stop" /\ m_stop_reason' = {}
    BY <1>5 DEF StopWave
  <2> QED BY <2>1, <2>2, <2>3 DEF SteppingInv, StepFlag, StepsOnce
<1>6. CASE ResumeWave("run") BY <1>1, <1>6, SteppingResume
<1>7. CASE ResumeWave("single_step") BY <1>1, <1>7, SteppingResume
<1>8. CASE StepSimulated BY <1>1, <1>8, SteppingSimulated
<1>9. ASSUME NEW mode \in {"run", "single_step"}, ResumeWithExceptions(mode)
      PROVE  SteppingInv'
  <2>1. /\ hw'.step = (mode = "single_step") /\ ~StepFlag' /\ m_state' = mode
        /\ hw'.halt /\ intent'.pc = m_last_stopped_pc'
    BY <1>1, <1>9, KeptResumeExceptions, StepCleared DEF ResumeWithExceptions, StepFlag
  <2>2. intent'.executed = 0
    <3>1. 0 \in 0..2 /\ intent' = [Afresh(0) EXCEPT !.halt = TRUE]
      BY <1>9 DEF ResumeWithExceptions
    <3> QED BY <1>1, <3>1, AfreshIs DEF Intents
  <2>3. ~Held'
    <3>1. KeptInv' /\ suspended'
      BY <1>1, <1>9, KeptResumeExceptions DEF ResumeWithExceptions
    <3> QED BY <1>9, <2>1, <3>1 DEF KeptInv
  <2> QED BY <1>9, <2>1, <2>2, <2>3 DEF SteppingInv
<1>14. CASE HwRunsOn
  BY <1>14, SameConfig DEF HwRunsOn, vars, lib, StepInv, SteppingInv, StepsOnce, StepFlag, Held
<1>10. ASSUME m_state = "stop", hw'.excp = hw.excp, UNCHANGED lib,
              intent'.executed = intent.executed
       PROVE  SteppingInv'
  BY <1>1, <1>10, SameConfig DEF lib, StepInv, SteppingInv, StepsOnce, StepFlag
<1>11. CASE \E b \in StatusHalts : WriteStatus(b)
  BY <1>1, <1>10, <1>11, KeptWriteStatus DEF WriteStatus, RestTypes, Intents
<1>12. CASE WriteStatePriv
  BY <1>1, <1>10, <1>12, KeptWriteStatePriv DEF WriteStatePriv, RestTypes, Intents
<1>13. CASE \E p \in Pcs : WritePc(p)
  BY <1>1, <1>10, <1>13, KeptWritePc DEF WritePc, RestTypes, Intents
<1> QED BY <1>2, <1>3, <1>4, <1>5, <1>6, <1>7, <1>8, <1>9, <1>11, <1>12, <1>13, <1>14 DEF Next

LEMMA StepInductive ==
    ASSUME HaltsRespected
    PROVE  (Init => StepInv) /\ (StepInv /\ [Next]_vars => StepInv')
<1>1. ASSUME Init PROVE SteppingInv
  BY <1>1 DEF Init, SteppingInv, StepFlag
<1>2. ASSUME StepInv, UNCHANGED vars PROVE SteppingInv'
  BY <1>2, SameConfig DEF vars, lib, StepInv, SteppingInv, StepsOnce, StepFlag, Held
<1> QED BY <1>1, <1>2, KeptInit, KeptStep, KeptStutter, SteppingStep DEF StepInv

(* A single-step is reported when the wave has executed exactly one        *)
(* instruction since it was resumed, and never after none, but for an      *)
(* invalid encoding on the architectures that cannot tell: the spurious    *)
(* entries of the trap handler during a context save are sent back, and    *)
(* the flag of a step is never reported twice (wave_get_state,             *)
(* wave_set_state, simulate_trap_handler).                                 *)
THEOREM StepsAreSingle == HaltsRespected => (Spec => []StepsOnce)
<1> SUFFICES ASSUME HaltsRespected PROVE Spec => []StepsOnce
  OBVIOUS
<1>1. Init => StepInv
  BY StepInductive
<1>2. StepInv /\ [Next]_vars => StepInv'
  BY StepInductive
<1>3. StepInv => StepsOnce
  BY DEF StepInv, SteppingInv, StepsOnce
<1> QED BY <1>1, <1>2, <1>3, PTL DEF Spec

-----------------------------------------------------------------------------
(* A stop is reported with what was raised: ReportInv is inductive.        *)

(* What ReportedIsRaised says of the reasons R of a stop.                  *)
Explained(R, i) ==
    \/ R \ {"single_step"} = Expected(i.raised \cup i.stale, i.trap)
    \/ R \ {"single_step"} = {} /\ i.raised = {} /\ i.trap = 0

LEMMA ReportedIs ==
    /\ ReportedIsRaised <=> (m_state = "stop" => Explained(m_stop_reason, intent))
    /\ ReportedIsRaised' <=> (m_state' = "stop" => Explained(m_stop_reason', intent'))
  BY DEF ReportedIsRaised, Explained

LEMMA ExceptionsAre ==
    /\ \A x \in Fp \cup {"illegal_inst"} : ExceptionsOf(x) = {x}
    /\ ExceptionsOf("memory_violation") = {"mem_viol", "xnack_error"}
    /\ ExceptionsOf("address_error") = {"mem_viol"}
    /\ ExceptionsOf("watchpoint") = Watch
    /\ ExceptionsOf("single_step") = {"trap_after_inst"}
    /\ \A x \in {"breakpoint", "assert_trap", "debug_trap", "trap"} : ExceptionsOf(x) = {}
  BY DEF ExceptionsOf, Fp

(* The reasons of one exception.                                           *)
LEMMA ReasonsForIs ==
    ASSUME NEW S, NEW e \in Exceptions \ {"trap_after_inst", "host_trap"}
    PROVE  /\ e \in Fp \cup {"illegal_inst"} => ReasonsFor(e, S) = {e}
           /\ e \in Watch => ReasonsFor(e, S) = {"watchpoint"}
           /\ e = "xnack_error" => ReasonsFor(e, S) = {"memory_violation"}
           /\ e = "mem_viol" => ReasonsFor(e, S) = {IF "xnack_error" \in S THEN "memory_violation"
                                                    ELSE "address_error"}
           /\ e \in {"wave_begin", "wave_end"} => ReasonsFor(e, S) = {"trap"}
           /\ e \in Fp \cup Watch \cup {"illegal_inst", "xnack_error", "mem_viol",
                                        "wave_begin", "wave_end"}
<1>1. e \in Fp \cup {"illegal_inst"} => ReasonsFor(e, S) = {e}
  BY ExceptionsAre DEF ReasonsFor, Reasons, Fp, Watch
<1>2. e \in Watch => ReasonsFor(e, S) = {"watchpoint"}
  BY ExceptionsAre DEF ReasonsFor, Reasons, Fp, Watch
<1>3. e = "xnack_error" => ReasonsFor(e, S) = {"memory_violation"}
  BY ExceptionsAre DEF ReasonsFor, Reasons, Fp, Watch
<1>4. e \in {"mem_viol", "wave_begin", "wave_end"} =>
        ReasonsFor(e, S) = IF e = "mem_viol"
                           THEN {IF "xnack_error" \in S THEN "memory_violation"
                                 ELSE "address_error"}
                           ELSE {"trap"}
  BY DEF ReasonsFor
<1> QED BY <1>1, <1>2, <1>3, <1>4 DEF Exceptions, Unmaskable, Extended

(* The reasons of the exceptions that signal are those expected.           *)
Raising(S) ==
    (S \cap (Fp \cup {"illegal_inst"}))
    \cup (IF "xnack_error" \in S THEN {"memory_violation"}
          ELSE IF "mem_viol" \in S THEN {"address_error"} ELSE {})
    \cup (IF S \cap Watch # {} THEN {"watchpoint"} ELSE {})
    \cup (IF S \cap {"wave_begin", "wave_end"} # {} THEN {"trap"} ELSE {})
LEMMA RaisingIs ==
    ASSUME NEW S \in SUBSET (Exceptions \ {"trap_after_inst", "host_trap"})
    PROVE  UNION {ReasonsFor(e, S) : e \in S} = Raising(S)
<1>1. ASSUME NEW e \in S PROVE ReasonsFor(e, S) \subseteq Raising(S)
  BY <1>1, ReasonsForIs DEF Raising
<1>2. ASSUME NEW x \in Raising(S) PROVE \E e \in S : x \in ReasonsFor(e, S)
  <2>1. CASE x \in S \cap (Fp \cup {"illegal_inst"})
    BY <2>1, ReasonsForIs
  <2>2. CASE x = "memory_violation" /\ "xnack_error" \in S
    BY <2>2, ReasonsForIs
  <2>3. CASE x = "address_error" /\ "mem_viol" \in S /\ "xnack_error" \notin S
    BY <2>3, ReasonsForIs
  <2>4. CASE x = "watchpoint" /\ S \cap Watch # {}
    BY <2>4, ReasonsForIs
  <2>5. CASE x = "trap" /\ S \cap {"wave_begin", "wave_end"} # {}
    BY <2>5, ReasonsForIs
  <2> QED BY <2>1, <2>2, <2>3, <2>4, <2>5 DEF Raising
<1> QED BY <1>1, <1>2

Ordinary == Exceptions \ {"trap_after_inst", "host_trap"}

LEMMA SignalsAre ==
    ASSUME config \in Configs, NEW h \in Regs
    PROVE  Signals(h) = {e \in h.excp : Signaling(e) /\ e # "trap_after_inst"}
  BY SignaledIs DEF Signals

(* The stop reason read from the registers is the one expected ...         *)
LEMMA ReasonsExpected ==
    ASSUME config \in Configs, NEW k \in Regs, k.excp \subseteq Ordinary \cup {"trap_after_inst"}
    PROVE  /\ ReasonsOf(k) \ {"single_step"} = Expected(Signals(k), k.trap_id)
           /\ Signals(k) \subseteq Ordinary
<1> DEFINE s == signaled_exceptions(k)
           S == Signals(k)
<1>1. S \subseteq Ordinary
  BY SignalsAre
<1>2. S = s \ {"trap_after_inst"}
  BY DEF Signals
<1>3. ReasonsOf(k) = (s \cap (Fp \cup {"illegal_inst"}))
        \cup (IF "xnack_error" \in s THEN {"memory_violation"}
              ELSE IF "mem_viol" \in s THEN {"address_error"} ELSE {})
        \cup (IF s \cap Watch # {} THEN {"watchpoint"} ELSE {})
        \cup (IF "trap_after_inst" \in s THEN {"single_step"} ELSE {})
        \cup (IF s \cap {"wave_begin", "wave_end"} # {} THEN {"trap"} ELSE {})
        \cup TrapReason(k.trap_id)
  BY DEF ReasonsOf, TrapReason
<1> HIDE DEF s, S
<1>4. /\ S \cap (Fp \cup {"illegal_inst"}) = s \cap (Fp \cup {"illegal_inst"})
      /\ S \cap Watch = s \cap Watch
      /\ S \cap {"wave_begin", "wave_end"} = s \cap {"wave_begin", "wave_end"}
      /\ "xnack_error" \in S <=> "xnack_error" \in s
      /\ "mem_viol" \in S <=> "mem_viol" \in s
  BY <1>2 DEF Fp, Watch
<1>5. ReasonsOf(k) = Raising(S) \cup (IF "trap_after_inst" \in s THEN {"single_step"} ELSE {})
                     \cup TrapReason(k.trap_id)
  BY <1>3, <1>4 DEF Raising
<1>6. "single_step" \notin Raising(S) \cup TrapReason(k.trap_id)
  <2>1. "single_step" \notin Raising(S)
    BY DEF Raising, Fp
  <2>2. "single_step" \notin TrapReason(k.trap_id)
    <3>1. CASE k.trap_id = 0 BY <3>1 DEF TrapReason
    <3>2. CASE k.trap_id = 1 BY <3>2 DEF TrapReason
    <3>3. CASE k.trap_id = 2 BY <3>3 DEF TrapReason
    <3>4. CASE k.trap_id = 3 BY <3>4 DEF TrapReason
    <3>5. CASE k.trap_id \notin {0, 1, 2, 3} BY <3>5 DEF TrapReason
    <3> QED BY <3>1, <3>2, <3>3, <3>4, <3>5
  <2> QED BY <2>1, <2>2
<1>7. ReasonsOf(k) \ {"single_step"} = Raising(S) \cup TrapReason(k.trap_id)
  BY <1>5, <1>6
<1>8. Expected(S, k.trap_id) = Raising(S) \cup TrapReason(k.trap_id)
  <2>1. S \in SUBSET (Exceptions \ {"trap_after_inst", "host_trap"})
    BY <1>1 DEF Ordinary
  <2>2. UNION {ReasonsFor(e, S) : e \in S} = Raising(S)
    BY <2>1, RaisingIs
  <2> QED BY <2>2 DEF Expected
<1> QED BY <1>1, <1>7, <1>8 DEF S

(* ... and names every exception that signals, so that a resume clears it. *)
LEMMA ReasonsClear ==
    ASSUME config \in Configs, NEW k \in Regs, k.excp \subseteq Ordinary \cup {"trap_after_inst"},
           NEW R, ReasonsOf(k) \subseteq R
    PROVE  /\ Signals(k) # {} => R # {}
           /\ Signals(k) \subseteq {"wave_begin", "wave_end"} \cup UNION {ExceptionsOf(r) : r \in R}
<1> DEFINE S == Signals(k)
<1>1. S \subseteq Ordinary /\ Expected(S, k.trap_id) \subseteq R
  BY ReasonsExpected
<1> HIDE DEF S
<1>2. ASSUME NEW e \in S
      PROVE  /\ \E r \in R : TRUE
             /\ e \in {"wave_begin", "wave_end"} \/ \E r \in R : e \in ExceptionsOf(r)
  <2>1. ReasonsFor(e, S) \subseteq R
    BY <1>1 DEF Expected
  <2>2. CASE e \in Fp \cup {"illegal_inst"}
    BY <1>1, <2>1, <2>2, ReasonsForIs, ExceptionsAre DEF Ordinary
  <2>3. CASE e \in Watch
    BY <1>1, <2>1, <2>3, ReasonsForIs, ExceptionsAre DEF Ordinary
  <2>4. CASE e = "xnack_error"
    BY <1>1, <2>1, <2>4, ReasonsForIs, ExceptionsAre DEF Ordinary
  <2>5. CASE e = "mem_viol"
    BY <1>1, <2>1, <2>5, ReasonsForIs, ExceptionsAre DEF Ordinary
  <2>6. CASE e \in {"wave_begin", "wave_end"}
    BY <1>1, <2>1, <2>6, ReasonsForIs DEF Ordinary
  <2> QED BY <1>1, <2>2, <2>3, <2>4, <2>5, <2>6, ReasonsForIs DEF Ordinary
<1> QED BY <1>2 DEF S

(* set_exceptions can change the flags that signal, but for the forgotten. *)
LEMMA SettableIs ==
    ASSUME config \in Configs, NEW e \in Ordinary, Signaling(e)
    PROVE  e \in Settable <=> e \notin Forgotten
<1>1. CASE Arch = "gfx12"
  BY <1>1 DEF Settable, settable_gfx12, Forgotten, Ordinary
<1>2. CASE Arch \in {"gfx940", "gfx11"}
  BY <1>2 DEF Settable, settable_gfx940, settable_gfx11, settable_base, Forgotten,
              Ordinary, Exceptions, Unmaskable, Fp, Watch, Extended
<1>3. CASE Arch \in Plain
  <2>1. e \notin Extended
    BY <1>3 DEF Signaling
  <2>2. Settable = settable_base /\ Forgotten = {"inexact", "xnack_error"}
    BY <1>3 DEF Settable, Forgotten, Plain
  <2> QED BY <2>1, <2>2 DEF settable_base, Ordinary, Exceptions, Unmaskable, Fp, Watch
<1> QED BY <1>1, <1>2, <1>3, ArchIs DEF Archs

(* Only what is forgotten signals in a wave that is resumed.               *)
LEMMA SignalsCleared ==
    ASSUME ReportInv, m_state = "stop", NEW r \in Regs,
           r.excp = IF m_stop_reason = {} THEN hw.excp ELSE hw.excp \ (Mask \cap Settable)
    PROVE  Signals(r) = (intent.stale \cup intent.raised) \cap Forgotten
<1>1. hw \in Regs /\ config \in Configs
  BY TypeParts DEF ReportInv, StepInv, KeptInv, RestTypes
<1>2. /\ Signals(hw) = intent.raised \cup intent.stale /\ intent.stale \subseteq Forgotten
      /\ intent.raised \subseteq Cleared
      /\ hw.excp \subseteq Raisable \cup {"trap_after_inst"}
  BY DEF ReportInv, RaisedInv
<1>3. CASE m_stop_reason = {}
  BY <1>1, <1>2, <1>3, SignalsAre DEF Cleared
<1>4. CASE m_stop_reason # {}
  <2>1. intent.raised \subseteq Mask
    BY <1>2, <1>4 DEF Cleared, Mask
  <2>2. ASSUME NEW e \in Signals(hw)
        PROVE  e \in Signals(r) <=> e \in Forgotten
    <3>1. e \in hw.excp /\ Signaling(e) /\ e # "trap_after_inst"
      BY <1>1, <2>2, SignalsAre
    <3>2. e \in Ordinary
      BY <1>2, <3>1, WaveControlAssumption DEF WaveControlAssumption, Ordinary
    <3>3. e \in Signals(r) <=> e \notin Mask \cap Settable
      BY <1>1, <1>4, <3>1, SignalsAre
    <3>4. e \in Settable <=> e \notin Forgotten
      BY <1>1, <3>1, <3>2, SettableIs
    <3> QED BY <1>2, <2>1, <2>2, <3>3, <3>4
  <2>3. Signals(r) \subseteq Signals(hw)
    BY <1>1, <1>4, SignalsAre
  <2> QED BY <1>2, <2>2, <2>3
<1> QED BY <1>3, <1>4

(* The invariant of the next state, in the configuration of this one.      *)
ClearedBy(R) == IF R = {} THEN {}
                ELSE {"wave_begin", "wave_end"} \cup UNION {ExceptionsOf(r) : r \in R}
LEMMA RaisedNext ==
    ASSUME UNCHANGED config
    PROVE  RaisedInv' <=>
           /\ hw'.excp \subseteq Raisable \cup {"trap_after_inst"}
           /\ intent'.stale \subseteq Forgotten
           /\ Signals(hw') = intent'.raised \cup intent'.stale
           /\ Held' /\ m_state' # "stop" => hw'.trap_id = intent'.trap
           /\ ~Held' => intent'.raised = {} /\ intent'.trap = 0
           /\ m_state' = "stop" =>
                /\ Explained(m_stop_reason', intent')
                /\ intent'.raised \subseteq ClearedBy(m_stop_reason')
<1>1. Signals(hw)' = Signals(hw')
  BY DEF Signals, signaled_exceptions, signaled_gfx940, signaled_gfx11, signaled_gfx12,
         signaled_base, Arch
<1>2. Cleared' = ClearedBy(m_stop_reason')
  BY DEF Cleared, ClearedBy
<1>3. Forgotten' = Forgotten
  BY DEF Forgotten, Arch
<1> QED BY <1>1, <1>2, <1>3, ReportedIs DEF RaisedInv

(* A wave that stops for the reasons its registers give.                   *)
LEMMA RaisedStop ==
    ASSUME config \in Configs, UNCHANGED config, hw' \in Regs, Held', m_state' = "stop",
           hw'.excp \subseteq Raisable \cup {"trap_after_inst"},
           NEW k \in Regs, k.excp = hw'.excp,
           Signals(k) = intent'.raised \cup intent'.stale, intent'.stale \subseteq Forgotten,
           k.trap_id = intent'.trap,
           m_stop_reason' = ReasonsOf(k) \/ m_stop_reason' = ReasonsOf(k) \cup {"single_step"}
    PROVE  RaisedInv'
<1>1. k.excp \subseteq Ordinary \cup {"trap_after_inst"}
  BY WaveControlAssumption DEF WaveControlAssumption, Ordinary
<1>2. Explained(m_stop_reason', intent')
  BY <1>1, ReasonsExpected DEF Explained
<1>3. Signals(hw') = Signals(k)
  BY SignalsAre
<1>4. Signals(k) \subseteq ClearedBy(m_stop_reason')
  <2>1. ReasonsOf(k) \subseteq m_stop_reason'
    OBVIOUS
  <2>2. /\ Signals(k) # {} => m_stop_reason' # {}
        /\ Signals(k) \subseteq {"wave_begin", "wave_end"}
                                \cup UNION {ExceptionsOf(r) : r \in m_stop_reason'}
    BY <1>1, <2>1, ReasonsClear
  <2> QED BY <2>2 DEF ClearedBy
<1> QED BY <1>2, <1>3, <1>4, RaisedNext

(* A wave that the library stops, or holds at its launch.                  *)
LEMMA RaisedQuiet ==
    ASSUME ReportInv, UNCHANGED <<config, intent>>, hw' \in Regs, ~Held, Held',
           m_state' = "stop", m_stop_reason' = {}, hw'.excp = hw.excp
    PROVE  RaisedInv'
<1>1. hw \in Regs /\ config \in Configs
  BY TypeParts DEF ReportInv, StepInv, KeptInv, RestTypes
<1>2. /\ hw.excp \subseteq Raisable \cup {"trap_after_inst"}
      /\ Signals(hw) = intent.stale /\ intent.stale \subseteq Forgotten
      /\ intent.raised = {} /\ intent.trap = 0
  BY DEF ReportInv, RaisedInv
<1>3. Signals(hw') = Signals(hw)
  BY <1>1, <1>2, SignalsAre
<1>4. Explained(m_stop_reason', intent')
  BY <1>2 DEF Explained
<1> QED BY <1>2, <1>3, <1>4, RaisedNext

(* An instruction of a wave in which only what is forgotten signals.       *)
LEMMA RaisedExecute ==
    ASSUME ReportInv, UNCHANGED config, HwExecute
    PROVE  RaisedInv'
<1>1. PICK es, id, next, halts : Executes(es, id, next, halts)
  BY ExecuteOutcome DEF ReportInv, StepInv
<1>2. ~Held /\ m_state # "stop" /\ UNCHANGED <<m_state, m_ttmps_initialized>>
  BY ExecuteOutcome DEF HwExecute, lib, ReportInv, StepInv, KeptInv
<1>3. hw \in Regs /\ RestTypes /\ config \in Configs
  BY TypeParts DEF ReportInv, StepInv, KeptInv, RestTypes
<1>4. /\ hw.excp \subseteq Raisable \cup {"trap_after_inst"}
      /\ Signals(hw) = intent.stale /\ intent.stale \subseteq Forgotten
      /\ intent.raised = {} /\ intent.trap = 0
  BY <1>2 DEF ReportInv, RaisedInv
<1>5. /\ es \subseteq Raisable /\ "trap_after_inst" \notin es
      /\ \A e \in es : Signaling(e) <=> EnabledBy(e)
  BY <1>1, WaveControlAssumption DEF Executes, Flags, WaveControlAssumption, Signaling
<1>6. Held' <=> Traps(es, id, halts)
  BY <1>1, <1>2 DEF Executes, Held
<1>7. /\ intent'.raised = {e \in es : EnabledBy(e)}
      /\ intent'.trap = id /\ intent'.stale = intent.stale
  <2>1. intent' = [Raised(es, id) EXCEPT !.pc = next, !.halt = halts]
    BY <1>1 DEF Executes
  <2> QED BY <1>3, <1>4, <2>1 DEF Raised, RestTypes, Intents
<1>8. hw' \in Regs /\ hw'.excp \ {"trap_after_inst"} = (hw.excp \cup es) \ {"trap_after_inst"}
  BY <1>1 DEF Executes
<1>9. hw'.excp \subseteq Raisable \cup {"trap_after_inst"}
  BY <1>4, <1>5, <1>8
<1>10. Signals(hw') = {e \in es : EnabledBy(e)} \cup intent.stale
  BY <1>3, <1>4, <1>5, <1>8, SignalsAre
<1>11. Held' => hw'.trap_id = id
  BY <1>1, <1>6 DEF Executes
<1>12. ~Held' => id = 0 /\ {e \in es : EnabledBy(e)} = {}
  BY <1>6 DEF Traps
<1> QED BY <1>2, <1>4, <1>7, <1>9, <1>10, <1>11, <1>12, RaisedNext

(* A suspension.                                                           *)
LEMMA RaisedSuspend ==
    ASSUME ReportInv, HaltsRespected, UNCHANGED config, Suspend
    PROVE  RaisedInv'
<1>0. KeptInv /\ StepInv /\ config \in Configs /\ hw \in Regs /\ RestTypes
  BY TypeParts DEF ReportInv, StepInv, KeptInv, RestTypes
<1>1. CASE m_state = "stop"
  <2>1. HeldRegs /\ Held /\ m_ttmps_initialized
    BY <1>0, <1>1 DEF KeptInv, Unseen
  <2>2. /\ hw' = hw
        /\ m_ttmps_initialized' /\ UNCHANGED <<m_state, m_stop_reason, intent>>
    BY <1>1, <2>1 DEF Suspend, RunsOn
  <2>3. Held'
    BY <2>1, <2>2 DEF Held
  <2>4. /\ ReportedIsRaised /\ intent.raised \subseteq ClearedBy(m_stop_reason)
        /\ Signals(hw) = intent.raised \cup intent.stale /\ intent.stale \subseteq Forgotten
        /\ hw.excp \subseteq Raisable \cup {"trap_after_inst"}
    BY <1>1 DEF ReportInv, RaisedInv, Cleared, ClearedBy
  <2> QED BY <1>1, <2>2, <2>3, <2>4, ReportedIs, RaisedNext
<1>2. CASE m_state # "stop"
  <2>1. m_ttmps_initialized' /\ UNCHANGED intent
    BY <1>0, <1>2, SuspendOutcome
  <2>2. /\ hw.excp \subseteq Raisable \cup {"trap_after_inst"}
        /\ Signals(hw) = intent.raised \cup intent.stale /\ intent.stale \subseteq Forgotten
        /\ Held => hw.trap_id = intent.trap
        /\ ~Held => intent.raised = {} /\ intent.trap = 0
    BY <1>2 DEF ReportInv, RaisedInv
  <2>3. ASSUME ~Held, FreeAs(hw'), m_state' # "stop"
        PROVE  RaisedInv'
    <3>1. hw' \in Regs /\ hw'.excp = hw.excp /\ ~Held'
      BY <2>1, <2>3 DEF FreeAs, Held
    <3>2. Signals(hw') = Signals(hw)
      BY <1>0, <2>2, <2>3, <3>1, SignalsAre
    <3> QED BY <2>1, <2>2, <2>3, <3>1, <3>2, RaisedNext
  <2>4. CASE GoesOn(m_state', m_stop_reason', hw')
    BY <1>2, <2>3, <2>4 DEF GoesOn
  <2>5. CASE HeldAtLaunch(m_state', m_stop_reason', hw')
    <3>1. /\ ~Held /\ hw' \in Regs /\ hw'.excp = hw.excp /\ Held'
          /\ m_state' = "stop" /\ m_stop_reason' = {}
      BY <2>1, <2>5 DEF HeldAtLaunch, HeldAs, Held
    <3> QED BY <2>1, <3>1, RaisedQuiet
  <2>6. ASSUME NEW k \in Regs, k.excp = hw.excp,
               \/ Held /\ k.trap_id = hw.trap_id
               \/ Taken /\ k.trap_id = 0,
               HasStopped(m_state', m_stop_reason', hw', ReasonsOf(k))
        PROVE  RaisedInv'
    <3>1. /\ m_state' = "stop" /\ hw' \in Regs /\ hw'.excp = hw.excp /\ Held'
      BY <2>1, <2>6 DEF HasStopped, HeldAs, Held
    <3>2. Signals(k) = Signals(hw)
      BY <1>0, <2>6, SignalsAre
    <3>3. Signals(k) = intent'.raised \cup intent'.stale /\ k.trap_id = intent'.trap
      BY <2>1, <2>2, <2>6, <3>2 DEF Taken
    <3>4. m_stop_reason' = ReasonsOf(k) \/ m_stop_reason' = ReasonsOf(k) \cup {"single_step"}
      BY <2>6 DEF HasStopped
    <3> QED BY <1>0, <2>1, <2>2, <2>6, <3>1, <3>3, <3>4, RaisedStop
  <2>7. ASSUME NEW k \in Regs,
               SentBack(m_state', m_stop_reason', hw', ReasonsOf(k))
        PROVE  RaisedInv'
    <3>1. /\ m_state = "single_step" /\ m_state' = "single_step" /\ FreeAs(hw')
          /\ intent.pc = m_last_stopped_pc /\ Code[intent.pc] \in Advances
      BY <2>7 DEF SentBack
    <3>2. ~Held
      BY <1>0, <3>1 DEF StepInv, SteppingInv, Advances
    <3> QED BY <2>3, <3>1, <3>2
  <2> QED BY <1>0, <1>2, <2>4, <2>5, <2>6, <2>7, SuspendOutcome
<1> QED BY <1>1, <1>2

(* A wave that is resumed, in any of three ways.                           *)
LEMMA RaisedFree ==
    ASSUME ReportInv, UNCHANGED config, m_state = "stop", m_state' # "stop",
           hw' \in Regs, ~Held', intent'.raised = {}, intent'.trap = 0,
           intent'.stale = (intent.stale \cup intent.raised) \cap Forgotten,
           hw'.excp = IF m_stop_reason = {} THEN hw.excp ELSE hw.excp \ (Mask \cap Settable)
    PROVE  RaisedInv'
<1>1. Signals(hw') = intent'.stale
  BY SignalsCleared
<1>2. hw'.excp \subseteq Raisable \cup {"trap_after_inst"}
  BY DEF ReportInv, RaisedInv
<1> QED BY <1>1, <1>2, RaisedNext

LEMMA RaisedResume ==
    ASSUME ReportInv, UNCHANGED config,
           NEW mode \in {"run", "single_step"}, ResumeWave(mode)
    PROVE  RaisedInv'
<1>1. m_state = "stop" /\ KeptInv /\ RestTypes
  BY TypeParts DEF ResumeWave, ReportInv, StepInv, KeptInv
<1> DEFINE r == Resumed(mode)
<1>2. /\ r \in Regs /\ ~r.stopped /\ m_ttmps_initialized
      /\ r.excp = IF m_stop_reason = {} THEN hw.excp ELSE hw.excp \ (Mask \cap Settable)
  BY <1>1, ResumedRegs
<1>3. /\ hw' = r /\ m_state' = mode
      /\ intent' = Afresh(0)
      /\ UNCHANGED m_ttmps_initialized
  BY DEF ResumeWave
<1> HIDE DEF r
<1>4. /\ intent'.raised = {} /\ intent'.trap = 0
      /\ intent'.stale = (intent.stale \cup intent.raised) \cap Forgotten
  <2>1. 0 \in 0..2
    OBVIOUS
  <2> QED BY <1>1, <1>3, <2>1, AfreshIs
<1>5. ~Held'
  BY <1>2, <1>3 DEF Held
<1> QED BY <1>1, <1>2, <1>3, <1>4, <1>5, RaisedFree

LEMMA RaisedResumeExceptions ==
    ASSUME ReportInv, HaltsRespected, UNCHANGED config,
           NEW mode \in {"run", "single_step"}, ResumeWithExceptions(mode)
    PROVE  RaisedInv'
<1>1. m_state = "stop" /\ KeptInv /\ RestTypes /\ m_state' = mode
  BY TypeParts DEF ResumeWithExceptions, ReportInv, StepInv, KeptInv
<1>2. /\ KeptInv'
      /\ hw'.excp = IF m_stop_reason = {} THEN hw.excp ELSE hw.excp \ (Mask \cap Settable)
  BY <1>1, KeptResumeExceptions
<1>3. hw' \in Regs
  BY <1>2, TypePartsNext DEF KeptInv
<1>4. /\ intent'.raised = {} /\ intent'.trap = 0
      /\ intent'.stale = (intent.stale \cup intent.raised) \cap Forgotten
  <2>1. 0 \in 0..2 /\ intent' = [Afresh(0) EXCEPT !.halt = TRUE]
    BY DEF ResumeWithExceptions
  <2> QED BY <1>1, <2>1, AfreshIs DEF Intents
<1>5. ~Held'
  <2>1. suspended'
    BY DEF ResumeWithExceptions
  <2> QED BY <1>1, <1>2, <2>1 DEF KeptInv
<1> QED BY <1>1, <1>2, <1>3, <1>4, <1>5, RaisedFree

LEMMA RaisedSimulated ==
    ASSUME ReportInv, UNCHANGED config, StepSimulated
    PROVE  RaisedInv'
<1>1. m_state = "stop" /\ KeptInv /\ RestTypes /\ config \in Configs
  BY TypeParts DEF StepSimulated, ReportInv, StepInv, KeptInv, RestTypes
<1>2. /\ m_state' = "stop" /\ UNCHANGED m_ttmps_initialized
      /\ intent'.raised = {} /\ intent'.trap = 0
      /\ intent'.stale = (intent.stale \cup intent.raised) \cap Forgotten
  <2>1. /\ 1 \in 0..2 /\ intent' = Afresh(1) /\ m_state' = "stop"
        /\ UNCHANGED m_ttmps_initialized
    BY DEF StepSimulated
  <2> QED BY <1>1, <2>1, AfreshIs
<1>3. /\ hw' \in Regs /\ hw'.stopped /\ m_ttmps_initialized
      /\ hw'.excp = SimulatedFlags(Resumed("single_step"))
  BY <1>1, SimulateOutcome
<1>4. PICK t \in Regs :
        /\ t.excp = hw'.excp /\ t.trap_id = 0
        /\ m_stop_reason' = IF ReasonsOf(t) = {} THEN {"single_step"} ELSE ReasonsOf(t)
  BY <1>1, SimulateOutcome
<1> DEFINE r == Resumed("single_step")
<1>5. /\ r \in Regs
      /\ r.excp = IF m_stop_reason = {} THEN hw.excp ELSE hw.excp \ (Mask \cap Settable)
  BY <1>1, ResumedRegs
<1>6. hw'.excp = SimulatedFlags(r)
  BY <1>3
<1> HIDE DEF r
<1>7. Signals(r) = intent'.stale
  BY <1>1, <1>2, <1>5, SignalsCleared
<1>8. hw'.excp \subseteq r.excp \cup {"trap_after_inst"}
  BY <1>6 DEF SimulatedFlags
<1>9. Signals(t) = intent'.raised \cup intent'.stale
  <2>1. hw'.excp \ {"trap_after_inst"} = r.excp \ {"trap_after_inst"}
    BY <1>6 DEF SimulatedFlags
  <2> QED BY <1>1, <1>2, <1>4, <1>5, <1>7, <2>1, SignalsAre
<1>10. hw'.excp \subseteq Raisable \cup {"trap_after_inst"}
  BY <1>5, <1>8 DEF ReportInv, RaisedInv
<1>11. Held'
  BY <1>2, <1>3 DEF Held
<1>12. m_stop_reason' = ReasonsOf(t) \/ m_stop_reason' = ReasonsOf(t) \cup {"single_step"}
  BY <1>4
<1> QED BY <1>1, <1>2, <1>3, <1>4, <1>9, <1>10, <1>11, <1>12, RaisedStop

(* A step that leaves the flags, the reasons and what was raised alone.    *)
LEMMA RaisedSame ==
    ASSUME ReportInv, UNCHANGED <<config, m_state, m_stop_reason>>, hw' \in Regs,
           hw'.excp = hw.excp, hw'.trap_id = hw.trap_id \/ m_state = "stop",
           Held' = Held, intent'.raised = intent.raised, intent'.trap = intent.trap,
           intent'.stale = intent.stale
    PROVE  RaisedInv'
<1>1. hw \in Regs /\ config \in Configs
  BY TypeParts DEF ReportInv, StepInv, KeptInv, RestTypes
<1>2. Signals(hw') = Signals(hw)
  BY <1>1, SignalsAre
<1>3. RaisedInv
  BY DEF ReportInv
<1>4. m_state = "stop" => Explained(m_stop_reason, intent')
  BY <1>3, ReportedIs DEF RaisedInv, Explained
<1>5. Cleared = ClearedBy(m_stop_reason)
  BY DEF Cleared, ClearedBy
<1> QED BY <1>2, <1>3, <1>4, <1>5, RaisedNext DEF RaisedInv

LEMMA RaisedStutter == ASSUME ReportInv, UNCHANGED vars PROVE RaisedInv'
<1>1. UNCHANGED <<config, hw, m_state, m_stop_reason, m_ttmps_initialized, intent>>
  BY DEF vars, lib
<1>2. hw \in Regs /\ Held' = Held
  BY <1>1, TypeParts DEF ReportInv, StepInv, KeptInv, Held
<1> QED BY <1>1, <1>2, RaisedSame

LEMMA RaisedStep ==
    ASSUME ReportInv, HaltsRespected, Next
    PROVE  RaisedInv'
<1>1. UNCHANGED config /\ KeptInv /\ RestTypes /\ hw \in Regs
  BY TypeParts DEF Next, ReportInv, StepInv, KeptInv
<1>0. KeptInv' /\ hw' \in Regs
  BY <1>1, KeptStep, TypePartsNext DEF KeptInv
<1>2. CASE HwExecute BY <1>1, <1>2, RaisedExecute
<1>3. CASE Suspend BY <1>1, <1>3, RaisedSuspend
<1>4. CASE ResumeQueue
  <2>1. UNCHANGED <<hw, m_state, m_stop_reason, m_ttmps_initialized, intent>>
    BY <1>4 DEF ResumeQueue, lib
  <2>2. Held' = Held
    BY <2>1 DEF Held
  <2> QED BY <1>0, <1>1, <2>1, <2>2, RaisedSame
<1>5. CASE StopWave
  <2>1. ~Held /\ hw'.excp = hw.excp
    BY <1>1, <1>5, KeptStop
  <2>2. m_state' = "stop" /\ m_stop_reason' = {} /\ UNCHANGED intent
    BY <1>5 DEF StopWave
  <2>3. Held'
    BY <1>0, <2>2 DEF KeptInv
  <2> QED BY <1>0, <1>1, <2>1, <2>2, <2>3, RaisedQuiet
<1>6. CASE ResumeWave("run") BY <1>1, <1>6, RaisedResume
<1>7. CASE ResumeWave("single_step") BY <1>1, <1>7, RaisedResume
<1>8. CASE StepSimulated BY <1>1, <1>8, RaisedSimulated
<1>9. CASE ResumeWithExceptions("run") \/ ResumeWithExceptions("single_step")
  BY <1>1, <1>9, RaisedResumeExceptions
<1>14. CASE HwRunsOn BY <1>14, RaisedStutter DEF HwRunsOn
<1>10. ASSUME m_state = "stop", hw'.excp = hw.excp, UNCHANGED lib,
              intent'.raised = intent.raised, intent'.trap = intent.trap,
              intent'.stale = intent.stale
       PROVE  RaisedInv'
  <2>1. m_state' = m_state /\ m_stop_reason' = m_stop_reason
    BY <1>10 DEF lib
  <2>2. Held = TRUE /\ Held' = TRUE
    <3>1. Held /\ Held'
      BY <1>0, <1>1, <1>10, <2>1 DEF KeptInv
    <3>2. Held \in BOOLEAN /\ Held' \in BOOLEAN
      BY <1>0, <1>1 DEF Held, Regs
    <3> QED BY <3>1, <3>2
  <2> QED BY <1>0, <1>1, <1>10, <2>1, <2>2, RaisedSame
<1>11. CASE \E b \in StatusHalts : WriteStatus(b)
  BY <1>1, <1>10, <1>11, KeptWriteStatus DEF WriteStatus, RestTypes, Intents
<1>12. CASE WriteStatePriv
  BY <1>1, <1>10, <1>12, KeptWriteStatePriv DEF WriteStatePriv, RestTypes, Intents
<1>13. CASE \E p \in Pcs : WritePc(p)
  BY <1>1, <1>10, <1>13, KeptWritePc DEF WritePc, RestTypes, Intents
<1> QED BY <1>2, <1>3, <1>4, <1>5, <1>6, <1>7, <1>8, <1>9, <1>11, <1>12, <1>13, <1>14 DEF Next

LEMMA RaisedInit == ASSUME Init PROVE RaisedInv
<1>1. /\ hw.excp = {} /\ ~hw.skip_export /\ intent.raised = {} /\ intent.trap = 0
      /\ ~m_ttmps_initialized /\ m_state = "run" /\ config \in Configs
  BY DEF Init
<1>2. hw \in Regs
  BY KeptInit, TypeParts DEF KeptInv
<1>3. Signals(hw) = {} /\ ~Held /\ intent.stale = {}
  BY <1>1, <1>2, SignalsAre DEF Held, Init
<1> QED BY <1>1, <1>3 DEF RaisedInv

(* A stop is reported with what the program raised since it was resumed    *)
(* and nothing of that is missing; nothing that is masked and nothing that *)
(* was left in the registers of a wave nobody had set up is reported, and  *)
(* of an earlier stop only what set_exceptions cannot clear, an inexact    *)
(* result or a memory violation on gfx9 to gfx11 (wave_get_state,          *)
(* signaled_exceptions, clear_stop_reasons, initialize_spi_ttmps).         *)
THEOREM StopsAreExplained == HaltsRespected => (Spec => []ReportedIsRaised)
<1> SUFFICES ASSUME HaltsRespected PROVE Spec => []ReportedIsRaised
  OBVIOUS
<1>1. Init => ReportInv
  BY StepInductive, RaisedInit DEF ReportInv
<1>2. ReportInv /\ [Next]_vars => ReportInv'
  BY StepInductive, RaisedStep, RaisedStutter DEF ReportInv
<1>3. ReportInv => ReportedIsRaised
  BY DEF ReportInv, RaisedInv, ReportedIsRaised
<1> QED BY <1>1, <1>2, <1>3, PTL DEF Spec

(* A wave the library holds stopped is halted and executes nothing, as     *)
(* "halt the wave (status.halt=1)" of wave_set_state says, unless the      *)
(* client itself has written a clear halt bit to its status register since *)
(* it stopped, which write_pseudo_register passes on.                      *)
THEOREM StoppedStaysHalted == HaltsRespected => (Spec => []HaltedUnlessFreed)
<1> SUFFICES ASSUME HaltsRespected PROVE Spec => []HaltedUnlessFreed
  OBVIOUS
<1>1. Init => KeptInv
  BY KeptInit
<1>2. KeptInv /\ [Next]_vars => KeptInv'
  BY KeptStep, KeptStutter
<1>3. KeptInv => HaltedUnlessFreed
  BY DEF KeptInv, HeldRegs, HaltedUnlessFreed
<1> QED BY <1>1, <1>2, <1>3, PTL DEF Spec

(* A wave that entered the trap handler has executed something.            *)
Moved == m_state = "run" /\ Held => intent.executed # 0

LEMMA MovedStep ==
    ASSUME ReportInv, HaltsRespected, Moved, Next
    PROVE  Moved'
<1>1. UNCHANGED config /\ KeptInv /\ RestTypes
  BY TypeParts DEF Next, ReportInv, StepInv, KeptInv
<1>2. CASE HwExecute
  <2>1. PICK es, id, next, halts : Executes(es, id, next, halts)
    BY <1>1, <1>2, ExecuteOutcome
  <2>2. intent' = [Raised(es, id) EXCEPT !.pc = next, !.halt = halts]
    BY <2>1 DEF Executes
  <2>3. intent'.executed # 0
    BY <1>1, <2>2 DEF Raised, RestTypes, Intents
  <2> QED BY <2>3 DEF Moved
<1>3. CASE Suspend
  <2>1. CASE m_state = "stop"
    BY <1>3, <2>1 DEF Suspend, Moved
  <2>2. CASE m_state # "stop"
    <3>1. m_ttmps_initialized'
      BY <1>3 DEF Suspend
    <3>2. m_state' = "run" => ~hw'.stopped
      BY <1>1, <1>3, <2>2, SuspendOutcome
         DEF GoesOn, HeldAtLaunch, HasStopped, SentBack, FreeAs
    <3> QED BY <3>1, <3>2 DEF Moved, Held
  <2> QED BY <2>1, <2>2
<1>4. CASE ResumeQueue
  BY <1>4 DEF ResumeQueue, lib, Moved, Held
<1>5. CASE \/ StopWave
           \/ HwRunsOn
           \/ ResumeWave("single_step") \/ ResumeWithExceptions("single_step")
           \/ StepSimulated
           \/ \E b \in StatusHalts : WriteStatus(b)
           \/ WriteStatePriv
           \/ \E p \in Pcs : WritePc(p)
  BY <1>5 DEF StopWave, ResumeWave, ResumeWithExceptions, StepSimulated, WriteStatus,
              WriteStatePriv, WritePc, HwRunsOn, RunsOn, vars, lib, Moved
<1>6. CASE ResumeWave("run") \/ ResumeWithExceptions("run")
  <2>1. KeptInv' /\ suspended' /\ m_state' # "stop"
    <3>1. CASE ResumeWave("run")
      BY <1>1, <3>1, KeptResume DEF ResumeWave
    <3>2. CASE ResumeWithExceptions("run")
      BY <1>1, <3>2, KeptResumeExceptions DEF ResumeWithExceptions
    <3> QED BY <1>6, <3>1, <3>2
  <2> QED BY <2>1 DEF KeptInv, Moved
<1> QED BY <1>2, <1>3, <1>4, <1>5, <1>6 DEF Next

(* "Clear the exceptions in the hardware exceptions register that have     *)
(* already been reported" (wave_set_state): when a wave is resumed, those  *)
(* that are still set, and enabled, are the ones set_exceptions has no bit *)
(* for (inexact and xnack_error, before gfx12) and that were reported.     *)
THEOREM ReportedStayCleared == HaltsRespected => (Spec => []OnlyForgottenLeft)
<1> SUFFICES ASSUME HaltsRespected PROVE Spec => []OnlyForgottenLeft
  OBVIOUS
<1>1. Init => ReportInv /\ Moved
  <2>1. ASSUME Init PROVE Moved
    BY <2>1 DEF Init, Moved, Held
  <2> QED BY <2>1, StepInductive, RaisedInit DEF ReportInv
<1>2. ReportInv /\ Moved /\ [Next]_vars => (ReportInv /\ Moved)'
  <2>1. ASSUME Moved, UNCHANGED vars PROVE Moved'
    BY <2>1 DEF vars, lib, Moved, Held
  <2> QED BY <2>1, StepInductive, RaisedStep, RaisedStutter, MovedStep DEF ReportInv
<1>3. ReportInv /\ Moved => OnlyForgottenLeft
  <2> SUFFICES ASSUME ReportInv, Moved, m_state # "stop", intent.executed = 0
               PROVE  signaled_exceptions(hw) = intent.stale /\ intent.stale \subseteq Forgotten
    BY DEF OnlyForgottenLeft, AtResume
  <2>1. hw \in Regs /\ config \in Configs /\ m_state \in {"run", "single_step"}
    BY TypeParts DEF ReportInv, StepInv, KeptInv, RestTypes
  <2>2. ~Held
    BY <2>1 DEF ReportInv, StepInv, SteppingInv, Moved
  <2>3. ~StepFlag /\ Signals(hw) = intent.stale /\ intent.stale \subseteq Forgotten
    BY <2>1, <2>2 DEF ReportInv, StepInv, SteppingInv, RaisedInv
  <2> QED BY <2>1, <2>3, SignaledIs DEF Signals, StepFlag
<1> QED BY <1>1, <1>2, <1>3, PTL DEF Spec
=============================================================================
