---------------------------- MODULE Watchpoints ----------------------------
(***************************************************************************)
(* Hardware watchpoints: amd_dbgapi_set_watchpoint and                     *)
(* amd_dbgapi_remove_watchpoint, the process_t and agent_t functions they  *)
(* call, and the registers of the kernel driver they program.              *)
(*                                                                         *)
(* A watchpoint takes effect when one register of every agent matches its  *)
(* range and every wave has the address watch exception enabled.  The      *)
(* library is one thread, but between two of its driver calls waves start, *)
(* end and hit watchpoints, another process may take or release registers  *)
(* of the same agents, and the debugged process may exit.                  *)
(*                                                                         *)
(* m_watchpoints holds pointers to watchpoint objects.  The pointers are   *)
(* kept as heap addresses, because an entry outlives its object:           *)
(* remove_watchpoint does not clear it, and the allocator may give the     *)
(* address to another watchpoint.                                          *)
(***************************************************************************)
EXTENDS Integers, FiniteSets, FiniteSetsExt

CONSTANTS
    NumAgents,   \* number of agents of the process
    NumRegs,     \* address_watch_register_count, the same for every agent
    ShareKind,   \* watchpoint_share_kind of the agents, in iteration order
    Waves,       \* wave slots of the device
    Heap,        \* addresses at which a watchpoint_t can be allocated
    MaxIds       \* bound: watchpoints created

Agents == 1..NumAgents
Regs   == 0..(NumRegs - 1)
Ids    == 1..MaxIds
None   == 0         \* no watchpoint, no pointer, no wave trap
Other  == -1        \* a register that belongs to another process

ASSUME WatchpointsAssumption ==
    /\ NumAgents \in Nat /\ NumRegs \in Nat /\ MaxIds \in Nat
    /\ ShareKind \in [1..NumAgents -> {"unsupported", "shared", "unshared"}]
    /\ None \notin Heap /\ IsFiniteSet(Heap)

VARIABLES
    object,         \* heap address -> id of the live watchpoint_t there
    freed,          \* history: addresses of watchpoints destroyed so far
    next_id,        \* the next watchpoint id
    m_watchpoints,  \* agent_t: register -> pointer
    watch,          \* kernel: register -> watchpoint programmed in it
    trap_override,  \* kernel and m_wave_trap_mask: new waves get the trap
    trap_en,        \* wave -> does the wave have the trap enabled?
    triggered,      \* wave -> the watch register that stopped it, if any
    call,           \* the call in progress
    exited,         \* the debugged process is gone: driver calls fail
    failure         \* fatal_error was called, or memory was corrupted

vars == <<object, freed, next_id, m_watchpoints, watch, trap_override,
          trap_en, triggered, call, exited, failure>>
library == <<object, freed, next_id, m_watchpoints>>
device  == <<watch, trap_override, trap_en, triggered>>

Live == {p \in Heap : object[p] # None}

-----------------------------------------------------------------------------
(* What process_t::watchpoint_shared_kind returns: the agents are scanned  *)
(* in order, one without support ends the scan, otherwise the last one     *)
(* decides.  (agent_t::watchpoint_share_kind is the element.)              *)
watchpoint_shared_kind ==
    IF NumAgents = 0 \/ \E a \in Agents : ShareKind[a] = "unsupported"
      THEN "unsupported"
      ELSE ShareKind[NumAgents]

(* process_t::watchpoint_count: the lowest register count of the agents.   *)
watchpoint_count == IF NumAgents = 0 THEN 0 ELSE NumRegs

Idle == call.op = "none"
Return == [op |-> "none", at |-> "none", ptr |-> None, agent |-> 0]
At(step) == call.at = step
GoTo(step) == call' = [call EXCEPT !.at = step]

(* destroy: the object is freed, every pointer to it is left as it is.     *)
Destroy(p) == /\ object' = [object EXCEPT ![p] = None]
              /\ freed' = freed \cup {p}

-----------------------------------------------------------------------------
(* amd_dbgapi_set_watchpoint up to the first driver call: the process must *)
(* support watchpoints; the object is created first, so that the count     *)
(* tells whether it is the only one.                                       *)
SetWatchpoint(p) ==
    /\ Idle
    /\ watchpoint_shared_kind # "unsupported"
    /\ object[p] = None
    /\ next_id <= MaxIds
    /\ object' = [object EXCEPT ![p] = next_id]
    /\ next_id' = next_id + 1
    /\ call' = [op |-> "set", ptr |-> p, agent |-> 1,
                at |-> IF Live = {} THEN "override" ELSE "insert"]
    /\ UNCHANGED <<freed, m_watchpoints, device, exited, failure>>

(* The first watchpoint: waves created from now on have the trap enabled.  *)
SetTrapOverride ==
    /\ call.op = "set" /\ At("override")
    /\ trap_override' = IF exited THEN trap_override ELSE TRUE
    /\ GoTo("waves")
    /\ UNCHANGED <<library, watch, trap_en, triggered, exited, failure>>

(* The trap of every wave that exists is set in, or cleared from, its mode *)
(* register (trap_ctrl on gfx12); its other bits are kept.                 *)
wave_enable_traps ==
    [w \in Waves |-> IF trap_en[w] = "none" THEN "none" ELSE "on"]
wave_disable_traps ==
    [w \in Waves |-> IF trap_en[w] = "none" THEN "none" ELSE "off"]

(* Then the queues are suspended and the waves that exist get it.          *)
EnableTraps ==
    /\ call.op = "set" /\ At("waves")
    /\ trap_en' = wave_enable_traps
    /\ GoTo("insert")
    /\ UNCHANGED <<library, watch, trap_override, triggered, exited, failure>>

(* What follows the last agent of an insertion, or the next agent.         *)
NextInsert ==
    call' = IF call.agent = NumAgents THEN Return
            ELSE [call EXCEPT !.agent = @ + 1]

(* set_address_watch of the driver: the kernel programs a free register.   *)
set_address_watch(a, r, id) ==
    /\ watch[a][r] = None
    /\ watch' = [watch EXCEPT ![a][r] = id]

(* clear_address_watch: the kernel refuses to clear a register this        *)
(* process does not own, which is a fatal error.                           *)
clear_address_watch(a, r) ==
    IF watch[a][r] \in Ids
      THEN /\ watch' = [watch EXCEPT ![a][r] = None]
           /\ UNCHANGED failure
      ELSE /\ failure' = TRUE
           /\ UNCHANGED watch

\* Mutant: the register is not recorded.
InsertUnrecorded ==
    /\ call.op = "set" /\ At("insert") /\ ~exited
    /\ \E r \in Regs : set_address_watch(call.agent, r, object[call.ptr])
    /\ NextInsert
    /\ UNCHANGED <<library, trap_override, trap_en, triggered, exited, failure>>

(* agent_t::insert_watchpoint: the kernel picks a free register ...        *)
InsertAgent ==
    /\ call.op = "set" /\ At("insert") /\ ~exited
    /\ \E r \in Regs :
        /\ set_address_watch(call.agent, r, object[call.ptr])
        /\ m_watchpoints' = [m_watchpoints EXCEPT ![call.agent][r] = call.ptr]
    /\ NextInsert
    /\ UNCHANGED <<object, freed, next_id, trap_override, trap_en, triggered,
                   exited, failure>>

\* Mutant: the agents that have the watchpoint keep it.
RefusedKept ==
    /\ call.op = "set" /\ At("insert") /\ ~exited
    /\ \A r \in Regs : watch[call.agent][r] # None
    /\ Destroy(call.ptr)
    /\ call' = Return
    /\ UNCHANGED <<next_id, m_watchpoints, device, exited, failure>>

(* ... or has none left, and the watchpoint is taken back from all agents. *)
InsertRefused ==
    /\ call.op = "set" /\ At("insert") /\ ~exited
    /\ \A r \in Regs : watch[call.agent][r] # None
    /\ call' = [call EXCEPT !.at = "undo", !.agent = 1]
    /\ UNCHANGED <<library, device, exited, failure>>

(* When the process has exited the driver reports it, agent_t goes on as   *)
(* if a register had been set, and os_watch_id was never assigned: any     *)
(* value, of which the check lets NumRegs through.                         *)
InsertExited ==
    /\ call.op = "set" /\ At("insert") /\ exited
    /\ \/ \E r \in Regs :
            /\ m_watchpoints' = [m_watchpoints EXCEPT ![call.agent][r] = call.ptr]
            /\ UNCHANGED failure
       \/ /\ failure' = TRUE
          /\ UNCHANGED m_watchpoints
    /\ NextInsert
    /\ UNCHANGED <<object, freed, next_id, device, exited>>

(* agent_t::remove_watchpoint.  The first entry that holds the pointer     *)
(* names the register; without one nothing is done.                        *)
RemoveFrom(a, p) ==
    LET entries == {r \in Regs : m_watchpoints[a][r] = p}
        reg     == Min(entries)
    IN IF entries = {} \/ exited
         THEN UNCHANGED <<watch, failure>>
         ELSE clear_address_watch(a, reg)

(* fatal_error does not return: the call stays where it is.                *)
UndoAgent ==
    /\ call.op = "set" /\ At("undo")
    /\ RemoveFrom(call.agent, call.ptr)
    /\ LET last == call.agent = NumAgents
       IN /\ call' = IF failure' THEN call
                     ELSE IF last THEN Return
                     ELSE [call EXCEPT !.agent = @ + 1]
          /\ IF last /\ ~failure' THEN Destroy(call.ptr)
                                  ELSE UNCHANGED <<object, freed>>
    /\ UNCHANGED <<next_id, m_watchpoints, trap_override, trap_en, triggered,
                   exited>>

(* amd_dbgapi_remove_watchpoint: every agent, then, for the last           *)
(* watchpoint, the traps of new waves and of the waves that exist.         *)
RemoveWatchpoint(p) ==
    /\ Idle
    /\ p \in Live
    /\ call' = [op |-> "remove", at |-> "clear", ptr |-> p, agent |-> 1]
    /\ UNCHANGED <<library, device, exited, failure>>

\* Mutant: the last watchpoint but one is taken for the last.
OnlyTwo == Cardinality(Live) <= 2

\* The only watchpoint left is the one being removed.
Only == Cardinality(Live) = 1

ClearAgent ==
    /\ call.op = "remove" /\ At("clear")
    /\ RemoveFrom(call.agent, call.ptr)
    /\ LET last == call.agent = NumAgents
       IN /\ call' = IF failure' THEN call
                     ELSE IF ~last THEN [call EXCEPT !.agent = @ + 1]
                     ELSE IF Only THEN [call EXCEPT !.at = "override"]
                     ELSE Return
          /\ IF last /\ ~Only /\ ~failure' THEN Destroy(call.ptr)
                                          ELSE UNCHANGED <<object, freed>>
    /\ UNCHANGED <<next_id, m_watchpoints, trap_override, trap_en, triggered,
                   exited>>

ClearTrapOverride ==
    /\ call.op = "remove" /\ At("override")
    /\ trap_override' = IF exited THEN trap_override ELSE FALSE
    /\ GoTo("waves")
    /\ UNCHANGED <<library, watch, trap_en, triggered, exited, failure>>

DisableTraps ==
    /\ call.op = "remove" /\ At("waves")
    /\ trap_en' = wave_disable_traps
    /\ Destroy(call.ptr)
    /\ call' = Return
    /\ UNCHANGED <<next_id, m_watchpoints, watch, trap_override, triggered,
                   exited, failure>>

-----------------------------------------------------------------------------
(* The device and the world outside the library.                           *)

WaveLaunch(w) ==
    /\ trap_en[w] = "none" /\ ~exited
    /\ trap_en' = [trap_en EXCEPT ![w] = IF trap_override THEN "on" ELSE "off"]
    /\ UNCHANGED <<library, watch, trap_override, triggered, call, exited,
                   failure>>

WaveEnd(w) ==
    /\ trap_en[w] # "none" /\ triggered[w] = {}
    /\ trap_en' = [trap_en EXCEPT ![w] = "none"]
    /\ UNCHANGED <<library, watch, trap_override, triggered, call, exited,
                   failure>>

(* An access in a programmed range stops a wave that has the trap enabled: *)
(* the exception bit names the register.                                   *)
Trigger(w, a, r) ==
    /\ trap_en[w] = "on" /\ triggered[w] = {} /\ ~exited
    /\ watch[a][r] \in Ids
    /\ triggered' = [triggered EXCEPT ![w] = {[agent |-> a, reg |-> r,
                                               id |-> watch[a][r]]}]
    /\ UNCHANGED <<library, watch, trap_override, trap_en, call, exited,
                   failure>>

(* The client resumes the wave, which clears its exceptions.               *)
ResumeWave(w) ==
    /\ Idle
    /\ triggered[w] # {}
    /\ triggered' = [triggered EXCEPT ![w] = {}]
    /\ UNCHANGED <<library, watch, trap_override, trap_en, call, exited,
                   failure>>

OtherProcess(a, r) ==
    /\ watch[a][r] \in {None, Other}
    /\ watch' = [watch EXCEPT ![a][r] = IF @ = None THEN Other ELSE None]
    /\ UNCHANGED <<library, trap_override, trap_en, triggered, call, exited,
                   failure>>

Exit ==
    /\ ~exited
    /\ exited' = TRUE
    /\ UNCHANGED <<library, device, call, failure>>

-----------------------------------------------------------------------------
(* The registers that stopped a wave, and AMD_DBGAPI_WAVE_INFO_WATCHPOINTS *)
(* of it: the entry of each register in the table of the agent.            *)
triggered_watchpoints(w) == {<<t.agent, t.reg>> : t \in triggered[w]}
WaveInfoWatchpoints(w) ==
    {m_watchpoints[t[1]][t[2]] : t \in triggered_watchpoints(w)}

-----------------------------------------------------------------------------
Init ==
    /\ object = [p \in Heap |-> None]
    /\ freed = {}
    /\ next_id = 1
    /\ m_watchpoints = [a \in Agents |-> [r \in Regs |-> None]]
    /\ watch = [a \in Agents |-> [r \in Regs |-> None]]
    /\ trap_override = FALSE
    /\ trap_en = [w \in Waves |-> "none"]
    /\ triggered = [w \in Waves |-> {}]
    /\ call = Return
    /\ exited = FALSE
    /\ failure = FALSE

Next ==
    /\ ~failure
    /\ \/ \E p \in Heap : SetWatchpoint(p) \/ RemoveWatchpoint(p)
       \/ SetTrapOverride
       \/ EnableTraps
       \/ InsertAgent
       \/ InsertRefused
       \/ InsertExited
       \/ UndoAgent
       \/ ClearAgent
       \/ ClearTrapOverride
       \/ DisableTraps
       \/ \E w \in Waves : WaveLaunch(w) \/ WaveEnd(w) \/ ResumeWave(w)
       \/ \E w \in Waves, a \in Agents, r \in Regs : Trigger(w, a, r)
       \/ \E a \in Agents, r \in Regs : OtherProcess(a, r)
       \/ Exit

Spec == Init /\ [][Next]_vars

-----------------------------------------------------------------------------
(* The type invariant.                                                     *)
TypeOK ==
    /\ object \in [Heap -> Ids \cup {None}]
    /\ freed \subseteq Heap
    /\ next_id \in 1..(MaxIds + 1)
    /\ m_watchpoints \in [Agents -> [Regs -> Heap \cup {None}]]
    /\ watch \in [Agents -> [Regs -> Ids \cup {None, Other}]]
    /\ trap_override \in BOOLEAN
    /\ trap_en \in [Waves -> {"none", "off", "on"}]
    /\ triggered \in [Waves -> SUBSET [agent : Agents, reg : Regs, id : Ids]]
    /\ call \in [op : {"none", "set", "remove"},
                 at : {"none", "override", "waves", "insert", "undo", "clear"},
                 ptr : Heap \cup {None}, agent : 0..NumAgents]
    /\ exited \in BOOLEAN /\ failure \in BOOLEAN

(* No access goes unnoticed: while some register is programmed, every wave *)
(* that runs, and every wave that will start, has the address watch trap   *)
(* enabled.  It rests on the order of insert_watchpoint (override, waves,  *)
(* registers), on that of remove_watchpoint (registers, override, waves)   *)
(* and on the counts that find the first and the last watchpoint.          *)
TrapsCoverWatches ==
    (~exited /\ \E a \in Agents, r \in Regs : watch[a][r] \in Ids)
        => /\ trap_override
           /\ \A w \in Waves : trap_en[w] # "off"

(* When no call is in progress the registers and the watchpoints agree: a  *)
(* watchpoint the client holds is in exactly one register of every agent,  *)
(* and no register holds a watchpoint that was refused or removed.         *)
RegistersAgree ==
    (Idle /\ ~exited /\ ~failure) =>
        /\ \A p \in Live, a \in Agents :
               Cardinality({r \in Regs : watch[a][r] = object[p]}) = 1
        /\ \A a \in Agents, r \in Regs :
               watch[a][r] \in Ids => \E p \in Live : object[p] = watch[a][r]

(* A wave stopped by a watchpoint that still exists is reported with that  *)
(* watchpoint: the entry WAVE_INFO_WATCHPOINTS reads points to it.         *)
ReportedIsTriggered ==
    \A w \in Waves : \A t \in triggered[w] : \A p \in Live :
        (~exited /\ object[p] = t.id /\ p # call.ptr)
            => WaveInfoWatchpoints(w) = {p}

(* While the process lives the library clears only registers it owns, for  *)
(* anything else the driver turns into a fatal error; the one exception is *)
(* a watchpoint_t at the address of one that was destroyed, for which      *)
(* agent_t::remove_watchpoint may find the entry that one left.            *)
FatalOnlyIfReused == failure /\ ~exited => call.ptr \in freed

(* What the client was told of its watchpoints is what the agents watch,   *)
(* after any sequence of insertions, refusals and removals, until a stale  *)
(* entry makes a call fail (process_t::insert_watchpoint,                  *)
(* process_t::remove_watchpoint, agent_t::remove_watchpoint).              *)
WatchesAgree == TypeOK /\ RegistersAgree /\ FatalOnlyIfReused

(* "Removing a watchpoint that is not inserted is a no-op": no call fails  *)
(* while the process lives.                                                *)
NeverFatal == failure => exited
=============================================================================
