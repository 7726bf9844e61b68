-------------------------- MODULE ProcessLifecycle --------------------------
(***************************************************************************)
(* The life of an attached process around its run control: attaching to    *)
(* and detaching from it, following its runtime as that is loaded and       *)
(* unloaded, keeping the list of code objects, and the settings the client  *)
(* makes, which reach the driver at once or when the runtime is loaded.     *)
(*                                                                         *)
(* The inferior runs while the library works: a thread of it may be         *)
(* updating the code object list, the runtime may come or go, the process   *)
(* may exit.  A call is cut into steps where that matters; `call' says      *)
(* which step is next.  The runtime waits in the kernel, when debugging is  *)
(* enabled, until the library answers its process_runtime exception, and a  *)
(* thread that calls r_brk waits for the client once the breakpoint of the  *)
(* library is inserted there.                                               *)
(*                                                                         *)
(* Queues and waves are the subject of RunControl and DisplacedStepping;    *)
(* of watchpoints, whose registers are in Watchpoints, there is here only   *)
(* their number and the trap override they need, a setting.  m_precise_     *)
(* memory and m_precise_alu_exceptions are handled alike by the code and    *)
(* are one setting, `precise'.                                              *)
(***************************************************************************)
EXTENDS Integers, FiniteSets, Sequences

CONSTANTS
    Objects,     \* code objects, each a load address with a URI
    Threads,     \* threads of the inferior that load and unload code objects
    Precise,     \* do all agents support precise memory reporting?
    MaxWatches,  \* bound: watchpoints at a time
    MaxAttaches, \* bound: how often the client attaches
    MaxLoads,    \* bound: how often the runtime is loaded
    MaxUpdates   \* bound: updates of the code object list

ASSUME LifecycleAssumption ==
    /\ Precise \in BOOLEAN
    /\ Threads # {}
    /\ MaxWatches \in Nat
    /\ MaxAttaches \in Nat /\ MaxLoads \in Nat /\ MaxUpdates \in Nat

VARIABLES
    \* The library: process_t.
    attached,   \* the process_t exists
    runtime,    \* m_runtime_state
    info,       \* m_runtime_info.runtime_state
    flag,       \* runtime_enable_during_attach is set in m_flags
    setting,    \* m_wave_launch_mode, m_wave_trap_mask, m_precise_memory
    supports,   \* m_supports_precise_memory
    watches,    \* count<watchpoint_t>
    objects,    \* the code_object_t objects
    changed,    \* m_changed of their set
    bpt,        \* the breakpoint_t at r_brk: absent, inserted, or refused
    pending,    \* m_pending_events
    reported,   \* events reported and not processed
    call,       \* the call in progress
    fault,      \* the error that ended the library, or "none"
    \* The client.
    seen,       \* the code objects it was last given
    \* The driver.
    drv,        \* debugging enabled, exceptions reported, settings applied
    excp,       \* the process_runtime exception is raised
    rtState,    \* the runtime_state of the driver
    \* The inferior.
    rtWait,     \* its runtime waits for the answer to the exception
    rtList,     \* the list of code objects at r_debug
    loader,     \* the thread that updates the list
    exited,     \* the process has exited
    count,      \* attaches, loads and updates so far
    \* History, for the properties.
    kept        \* a detach ended with the trap override still set

client == <<attached, setting, supports, seen, watches, kept>>
lists  == <<objects, changed>>
events == <<pending, reported>>
kfd    == <<drv, excp, rtState>>
host   == <<rtWait, rtList, loader, exited, count>>
vars == <<client, lists, events, runtime, info, flag, bpt, call, fault, kfd,
          host>>

-----------------------------------------------------------------------------
(* State. *)

RuntimeStates == {"unloaded", "success", "restriction"}
OsStates == {"disabled", "enabled", "busy"}

Defaults == [launch |-> "normal", trap |-> FALSE, precise |-> FALSE]
Settings == [launch : {"normal", "halt"}, trap : BOOLEAN, precise : BOOLEAN]

\* A driver that is not debugging the process, with nothing changed in it.
NoDebug == [debug |-> FALSE, all |-> FALSE, set |-> Defaults]

\* The same, when the trap override was left set in it.
TrapsLeft == [debug |-> FALSE, all |-> FALSE,
              set |-> [Defaults EXCEPT !.trap = TRUE]]

\* Mutant: the event does not remember that attach found the runtime.
RuntimeEventUnflagged(state, attach) ==
    [kind |-> "runtime", state |-> state, attach |-> FALSE]

\* An event is a runtime event, with its state and whether the runtime was
\* found loaded by attach, or one of the two events for a thread at r_brk.
RuntimeEvent(state, attach) ==
    [kind |-> "runtime", state |-> state, attach |-> attach]
ListEvent(t)   == [kind |-> "list", thread |-> t]
ResumeEvent(t) == [kind |-> "resume", thread |-> t]
PendingSet == {pending[i] : i \in DOMAIN pending}

\* `stage' is the next step, `op' the call, `to' the runtime state to enable
\* and `saved' the flag that the code objects changed, when it was cleared.
Return == [op |-> "none", stage |-> "idle", to |-> "disabled", saved |-> FALSE]
Idle == call.stage = "idle" /\ fault = "none"
Live == Idle /\ attached
At(stage) == call.stage = stage /\ fault = "none"
Goto(stage) == call' = [call EXCEPT !.stage = stage]

\* runtime_enable returns: to attach, or to next_pending_event, which takes the
\* first event there is now.
Finish(queue) ==
    IF call.op = "event" /\ queue # <<>> THEN Goto("take")
                                         ELSE call' = Return

\* The phases of an update: the thread calls r_brk, changes the list, calls
\* r_brk again.  At the breakpoint it is stopped: "entry", "exit", and
\* "halted" once the client was told to leave it there.
Stopped == loader.phase \in {"entry", "exit"}
Consistent == loader.phase \notin {"entry", "changing"}   \* r_state
NextPhase == IF exited \/ loader.phase # "entry" THEN "idle" ELSE "changing"
ResumeThread == loader' = [loader EXCEPT !.phase = NextPhase]

\* event_t::event_t with process_t::enqueue_event.
Enqueue(e) == pending' = Append(pending, e) /\ UNCHANGED reported

\* A call that passes settings on to the driver: without effect once the
\* process has exited, and while its agents are not in debug mode because the
\* runtime is not loaded, which the library may not have learned yet.
Apply(s) ==
    drv' = IF exited \/ rtState = "disabled" THEN drv
                                             ELSE [drv EXCEPT !.set = s]

\* os_driver_t::set_exceptions_reported.
ReportAll(b) == drv' = IF exited THEN drv ELSE [drv EXCEPT !.all = b]

-----------------------------------------------------------------------------
(* The settings. *)

\* process_t::set_wave_launch_mode, set_wave_launch_trap_override and
\* set_precise_memory: recorded, and passed on if the runtime is loaded.
Set(new) ==
    /\ setting' = new
    /\ IF runtime = "success" THEN Apply(new) ELSE UNCHANGED drv

\* A call of the client that does no more than that.
SetOnly(new) ==
    /\ Live /\ new # setting
    /\ Set(new)
    /\ UNCHANGED <<attached, supports, seen, watches, kept, lists, events,
                   runtime, info, flag, bpt, call, fault, excp, rtState, host>>

SetWaveCreation == \E m \in {"normal", "halt"} :
    SetOnly([setting EXCEPT !.launch = m])

SetMemoryPrecision ==
    /\ supports
    /\ \E b \in BOOLEAN : SetOnly([setting EXCEPT !.precise = b])

\* amd_dbgapi_set_watchpoint with process_t::insert_watchpoint: the first one
\* needs the trap override.  An agent without a free register refuses it, and
\* the override stays.  The driver has no registers to give before the runtime
\* is loaded.
SetWatchpoint ==
    /\ Live /\ watches < MaxWatches
    /\ rtState # "disabled" \/ exited
    /\ Set([setting EXCEPT !.trap = @ \/ watches = 0])
    /\ watches' \in {watches, watches + 1}
    /\ UNCHANGED <<attached, supports, seen, kept, lists, events, runtime, info,
                   flag, bpt, call, fault, excp, rtState, host>>

\* process_t::remove_watchpoint: the override goes with the only watchpoint
\* there is.
RemoveOverride == Set([setting EXCEPT !.trap = @ /\ watches # 1])

\* amd_dbgapi_remove_watchpoint.
RemoveWatchpoint ==
    /\ Live /\ watches > 0
    /\ RemoveOverride
    /\ watches' = watches - 1
    /\ UNCHANGED <<attached, supports, seen, kept, lists, events, runtime, info,
                   flag, bpt, call, fault, excp, rtState, host>>

-----------------------------------------------------------------------------
(* Agents and code objects. *)

\* process_t::update_agents: the support every agent has, none without agents.
\* The driver has no agents to report unless debugging is enabled.
SupportsAfter(debug) == Precise /\ debug /\ ~exited

\* amd_dbgapi_process_agent_list.
AgentList ==
    /\ Live
    /\ supports' = SupportsAfter(drv.debug)
    /\ UNCHANGED <<attached, setting, seen, watches, kept, lists, events,
                   runtime, info, flag, bpt, call, fault, kfd, host>>

\* amd_dbgapi_process_code_object_list: the list, if it changed.
CodeObjectList ==
    /\ Live /\ changed
    /\ seen' = objects
    /\ changed' = FALSE
    /\ UNCHANGED <<attached, setting, supports, watches, kept, objects, events,
                   runtime, info, flag, bpt, call, fault, kfd, host>>

\* process_t::update_code_objects, up to the check of r_state.  Nothing is
\* read unless the runtime is loaded, or while a thread updates the list.
ReadState ==
    /\ At("state")
    /\ IF exited \/ (runtime = "success" /\ Consistent)
         THEN Goto("list")
         ELSE Goto("listed")
    /\ UNCHANGED <<client, lists, events, runtime, info, flag, bpt, fault,
                   kfd, host>>

\* The rest of it: objects that are not in the list are pruned, all of them
\* if the process is found to have exited.  A list read while a thread
\* changes it is no list.
ReadList ==
    /\ At("list")
    /\ LET read == IF exited THEN {} ELSE rtList IN
       /\ objects' = IF runtime = "success" THEN read ELSE objects
       /\ changed' = (changed \/ objects' # objects)
    /\ fault' = IF ~exited /\ loader.phase = "changing" THEN "torn list"
                                                      ELSE fault
    /\ Goto("listed")
    /\ UNCHANGED <<client, events, runtime, info, flag, bpt, kfd, host>>

-----------------------------------------------------------------------------
(* The runtime is loaded or unloaded: process_t::runtime_enable. *)

\* The state that is recorded and reported: an enabled runtime must also have
\* a version the library and the architectures present can work with.
StatesFor(os) ==
    CASE os = "disabled" -> {"unloaded"}
      [] os = "busy"     -> {"restriction"}
      [] os = "enabled"  -> {"success", "restriction"}

\* The step after the exception that says the process exited: attach disables
\* debugging and leaves the process attached; next_pending_event is tried
\* again once the agents of the process are updated.
ProcessExited ==
    /\ Finish(pending)
    /\ IF call.op = "attach"
         THEN drv' = [drv EXCEPT !.debug = FALSE] /\ UNCHANGED supports
         ELSE supports' = FALSE /\ UNCHANGED drv

\* Mutant: only a runtime that can be debugged is reported.
ComputeStateSilent ==
    /\ At("compute")
    /\ IF exited /\ call.to = "enabled"
         THEN ProcessExited /\ UNCHANGED <<runtime, info, events>>
         ELSE /\ \E s \in StatesFor(call.to) :
                   /\ runtime' = s
                   /\ IF s = "restriction"
                        THEN UNCHANGED events /\ Finish(pending)
                        ELSE Enqueue(RuntimeEvent(s, flag)) /\ Goto("subscribe")
              /\ info' = call.to
              /\ UNCHANGED <<supports, drv>>
    /\ UNCHANGED <<attached, setting, seen, watches, kept, lists, flag, bpt,
                   fault, excp, rtState, host>>

\* Reading r_version throws if the process has exited, before anything is
\* recorded; otherwise the state is recorded and its event enqueued.
ComputeState ==
    /\ At("compute")
    /\ IF exited /\ call.to = "enabled"
         THEN ProcessExited /\ UNCHANGED <<runtime, info, events>>
         ELSE /\ \E s \in StatesFor(call.to) :
                   /\ runtime' = s
                   /\ Enqueue(RuntimeEvent(s, flag))
                   /\ IF s = "restriction" THEN Finish(pending')
                                           ELSE Goto("subscribe")
              /\ info' = call.to
              /\ UNCHANGED <<supports, drv>>
    /\ UNCHANGED <<attached, setting, seen, watches, kept, lists, flag, bpt,
                   fault, excp, rtState, host>>

\* set_exceptions_reported is the one driver call that does not tolerate an
\* exited process.  A runtime that is unloaded takes its code objects and the
\* breakpoint with it.
Subscribe ==
    /\ At("subscribe")
    /\ IF exited
         THEN /\ fault' = "set_exceptions_reported"
              /\ UNCHANGED <<lists, bpt, call, drv>>
         ELSE /\ ReportAll(runtime = "success")
              /\ IF runtime = "success"
                   THEN /\ Goto("breakpoint")
                        /\ UNCHANGED <<lists, bpt>>
                   ELSE /\ Finish(pending)
                        /\ objects' = {}
                        /\ changed' = (changed \/ objects # {})
                        /\ bpt' = "absent"
              /\ UNCHANGED fault
    /\ UNCHANGED <<client, events, runtime, info, flag, excp, rtState, host>>

\* An early exit of runtime_enable is a restriction: the address of r_brk
\* cannot be read in an exited process, or the client cannot insert the
\* breakpoint.
InsertBreakpoint ==
    /\ At("breakpoint")
    /\ \/ /\ exited
          /\ runtime' = "restriction"
          /\ ProcessExited
          /\ UNCHANGED bpt
       \/ /\ ~exited
          /\ bpt' = "refused"
          /\ runtime' = "restriction"
          /\ Finish(pending)
          /\ ReportAll(FALSE)
          /\ UNCHANGED supports
       \/ /\ ~exited
          /\ bpt' = "inserted"
          /\ Goto("state")
          /\ UNCHANGED <<runtime, supports, drv>>
    /\ UNCHANGED <<attached, setting, seen, watches, kept, lists, events, info,
                   flag, fault, excp, rtState, host>>

\* Mutant: only the wave launch mode is passed on.
ApplyLaunchMode ==
    /\ At("listed") /\ call.op # "hit"
    /\ Apply([drv.set EXCEPT !.launch = setting.launch])
    /\ flag' = FALSE
    /\ UNCHANGED <<client, lists, events, runtime, info, bpt, fault, excp,
                   rtState, host>>
    /\ Finish(pending)

\* The driver is given every setting that was made so far; then queues and
\* waves are updated (RunControl).
ApplySettings ==
    /\ At("listed") /\ call.op # "hit"
    /\ Apply([setting EXCEPT !.precise = IF supports THEN @
                                         ELSE drv.set.precise])
    /\ flag' = FALSE
    /\ UNCHANGED <<client, lists, events, runtime, info, bpt, fault, excp,
                   rtState, host>>
    /\ Finish(pending)

-----------------------------------------------------------------------------
(* Attaching and detaching. *)

\* amd_dbgapi_process_attach with process_t::attach, up to the call of
\* runtime_enable.  enable_debug snapshots the state of the runtime, busy if
\* an agent is debugged by another process.  An attach that is refused leaves
\* nothing behind and is no step.
Attach ==
    /\ Idle /\ ~attached
    /\ count.attaches < MaxAttaches
    /\ count' = [count EXCEPT !.attaches = @ + 1]
    /\ attached' = TRUE
    /\ supports' = SupportsAfter(TRUE)
    /\ \E os \in IF exited \/ rtState = "disabled" THEN {"disabled"}
                                                  ELSE {"enabled", "busy"} :
         /\ drv' = [drv EXCEPT !.debug = ~exited, !.all = FALSE]
         /\ rtState' = IF exited THEN rtState ELSE os
         /\ flag' = (os # "disabled")
         /\ call' = IF os = "disabled" THEN Return
                    ELSE [Return EXCEPT !.op = "attach", !.stage = "compute",
                                        !.to = os]
    /\ UNCHANGED <<setting, seen, watches, kept, lists, events, runtime, info,
                   bpt, fault, excp, rtWait, rtList, loader, exited>>

\* amd_dbgapi_process_detach with process_t::detach, cut where it calls the
\* driver.  First precise memory is turned off, which throws if it is no
\* longer supported: the rest is skipped, up to disabling debugging.
Detach ==
    /\ Live
    /\ IF setting.precise /\ ~supports
         THEN /\ call' = [Return EXCEPT !.op = "failing", !.stage = "disable"]
              /\ UNCHANGED <<setting, drv>>
         ELSE /\ call' = [Return EXCEPT !.op = "detach", !.stage = "launch"]
              /\ Set([setting EXCEPT !.precise = FALSE])
    /\ UNCHANGED <<attached, supports, seen, watches, kept, lists, events,
                   runtime, info, flag, bpt, fault, excp, rtState, host>>

\* The launch mode returns to normal.
DetachLaunchMode ==
    /\ At("launch")
    /\ Set([setting EXCEPT !.launch = "normal"])
    /\ Goto("watches")
    /\ UNCHANGED <<attached, supports, seen, watches, kept, lists, events,
                   runtime, info, flag, bpt, fault, excp, rtState, host>>

\* Queues are suspended (RunControl), and remove_watchpoint is called for each
\* watchpoint.  None is destroyed before all are removed, so that their number
\* is the same in each call.
DetachWatchpoints ==
    /\ At("watches")
    /\ RemoveOverride
    /\ kept' = (kept \/ setting'.trap)
    /\ Goto("disable")
    /\ UNCHANGED <<attached, supports, seen, watches, lists, events, runtime,
                   info, flag, bpt, fault, excp, rtState, host>>

\* Everything the process_t holds is destroyed: breakpoints are removed from
\* the inferior, events are dropped.
Forget ==
    /\ attached' = FALSE
    /\ setting' = Defaults
    /\ supports' = FALSE
    /\ runtime' = "unloaded"
    /\ info' = "disabled"
    /\ flag' = FALSE
    /\ objects' = {} /\ changed' = FALSE /\ seen' = {}
    /\ bpt' = "absent"
    /\ pending' = <<>> /\ reported' = {}

\* Debugging is disabled, which lets a waiting runtime go on, and the objects
\* are destroyed; the client lets the threads it holds go on.  What the driver
\* was told is left as it is.  A call that failed leaves the process_t.
DetachDisable ==
    /\ At("disable")
    /\ drv' = [drv EXCEPT !.debug = FALSE, !.all = FALSE]
    /\ excp' = FALSE
    /\ rtWait' = FALSE
    /\ IF Stopped \/ loader.phase = "halted" THEN ResumeThread
                                             ELSE UNCHANGED loader
    /\ watches' = 0
    /\ call' = Return
    /\ IF call.op = "failing"
         THEN /\ fault' = "detach"
              /\ objects' = {} /\ bpt' = "absent"
              /\ changed' = (changed \/ objects # {})
              /\ UNCHANGED <<attached, setting, supports, seen, events, runtime,
                             info, flag>>
         ELSE Forget /\ UNCHANGED fault
    /\ UNCHANGED <<kept, rtState, rtList, exited, count>>

-----------------------------------------------------------------------------
(* Events. *)

\* process_t::next_pending_event reports the head of the FIFO.
ReportEvent ==
    /\ Live \/ At("take")
    /\ pending # <<>>
    /\ pending' = Tail(pending)
    /\ reported' = reported \cup {Head(pending)}
    /\ call' = Return
    /\ UNCHANGED <<client, lists, runtime, info, flag, bpt, fault, kfd, host>>

\* With the FIFO empty the driver is asked; it has the exception of the
\* runtime, which must say that the runtime was loaded or unloaded.
QueryRuntime ==
    /\ Live /\ pending = <<>>
    /\ drv.debug /\ excp /\ ~exited
    /\ excp' = FALSE
    /\ IF (rtState # "disabled") = (info # "disabled")
         THEN fault' = "spurious runtime exception" /\ UNCHANGED call
         ELSE /\ call' = [Return EXCEPT !.op = "event", !.stage = "compute",
                                        !.to = rtState]
              /\ UNCHANGED fault
    /\ UNCHANGED <<client, lists, events, runtime, info, flag, bpt, drv,
                   rtState, host>>

\* process_t::send_exceptions: the runtime goes on.
send_exceptions == rtWait' = FALSE

\* Mutant: the event that resumes the thread is never enqueued.
ProcessedOnly(e) ==
    /\ Live /\ e \in reported
    /\ reported' = reported \ {e}
    /\ IF e.kind = "runtime" /\ ~e.attach THEN send_exceptions
                                          ELSE UNCHANGED rtWait
    /\ UNCHANGED <<client, lists, pending, runtime, info, flag, bpt, call,
                   fault, kfd, rtList, loader, exited, count>>

\* amd_dbgapi_event_processed with event_t::set_state.  A runtime event
\* answers the runtime unless it was found loaded by attach.  An event for
\* the list of code objects is followed by the event that resumes the thread,
\* and when that is processed the client resumes it.
EventProcessed(e) ==
    /\ Live /\ e \in reported
    /\ reported' = reported \ {e}
    /\ IF e.kind = "list" THEN pending' = Append(pending, ResumeEvent(e.thread))
                          ELSE UNCHANGED pending
    /\ IF e.kind = "runtime" /\ ~e.attach THEN send_exceptions
                                          ELSE UNCHANGED rtWait
    /\ IF /\ e.kind = "resume"
          /\ loader = [phase |-> "halted", thread |-> e.thread]
         THEN ResumeThread
         ELSE UNCHANGED loader
    /\ UNCHANGED <<client, lists, runtime, info, flag, bpt, call, fault, kfd,
                   rtList, exited, count>>

-----------------------------------------------------------------------------
(* The breakpoint at r_brk. *)

\* amd_dbgapi_report_breakpoint_hit: without the breakpoint the call is
\* refused and the client lets the thread go on; otherwise the callback of
\* the breakpoint updates the list, with the flag that says it changed
\* cleared first, to see whether this update changes it.
ReportBreakpointHit ==
    /\ Idle /\ Stopped
    /\ IF attached /\ bpt = "inserted"
         THEN /\ call' = [Return EXCEPT !.op = "hit", !.stage = "state",
                                        !.saved = changed]
              /\ changed' = FALSE
              /\ UNCHANGED loader
         ELSE ResumeThread /\ UNCHANGED <<call, changed>>
    /\ UNCHANGED <<client, objects, events, runtime, info, flag, bpt, fault,
                   kfd, rtWait, rtList, exited, count>>

\* Mutant: a change the client has not seen yet is forgotten.
ActionForgets ==
    /\ At("listed") /\ call.op = "hit"
    /\ IF ~changed
         THEN /\ IF Stopped THEN ResumeThread ELSE UNCHANGED loader
              /\ UNCHANGED events
         ELSE /\ loader' = [loader EXCEPT !.phase =
                              IF exited THEN "idle" ELSE "halted"]
              /\ Enqueue(ListEvent(loader.thread))
    /\ call' = Return
    /\ UNCHANGED <<client, lists, runtime, info, flag, bpt, fault, kfd,
                   rtWait, rtList, exited, count>>

\* The end of the callback.  The flag is what it was or became; if the list
\* did not change just now the thread may go on, otherwise it waits for the
\* client to process the event.
BreakpointAction ==
    /\ At("listed") /\ call.op = "hit"
    /\ changed' = (changed \/ call.saved)
    /\ IF ~changed
         THEN /\ IF Stopped THEN ResumeThread ELSE UNCHANGED loader
              /\ UNCHANGED events
         ELSE /\ loader' = [loader EXCEPT !.phase =
                              IF exited THEN "idle" ELSE "halted"]
              /\ Enqueue(ListEvent(loader.thread))
    /\ call' = Return
    /\ UNCHANGED <<client, objects, runtime, info, flag, bpt, fault, kfd,
                   rtWait, rtList, exited, count>>

-----------------------------------------------------------------------------
(* The inferior and the driver. *)

\* The runtime is loaded or unloaded.  If the process is debugged, the driver
\* raises an exception and the runtime waits; an agent that is debugged by
\* another process makes it busy.  Unloading ends the debug mode of the
\* agents and with it the settings.
RuntimeLoad ==
    /\ ~exited /\ rtState = "disabled" /\ ~rtWait
    /\ count.loads < MaxLoads
    /\ count' = [count EXCEPT !.loads = @ + 1]
    /\ rtState' \in IF drv.debug THEN {"enabled", "busy"} ELSE {"enabled"}
    /\ excp' = drv.debug
    /\ rtWait' = drv.debug
    /\ UNCHANGED <<client, lists, events, runtime, info, flag, bpt, call,
                   fault, drv, rtList, loader, exited>>

RuntimeUnload ==
    /\ ~exited /\ rtState # "disabled" /\ ~rtWait
    /\ loader.phase = "idle"
    /\ rtState' = "disabled"
    /\ rtList' = {}
    /\ excp' = drv.debug
    /\ rtWait' = drv.debug
    /\ drv' = [drv EXCEPT !.set = Defaults]
    /\ UNCHANGED <<client, lists, events, runtime, info, flag, bpt, call,
                   fault, loader, exited, count>>

BeginUpdate(t) ==
    /\ ~exited /\ rtState # "disabled" /\ ~rtWait
    /\ loader.phase = "idle"
    /\ count.updates < MaxUpdates
    /\ count' = [count EXCEPT !.updates = @ + 1]
    /\ loader' = [thread |-> t,
                  phase |-> IF bpt = "inserted" THEN "entry" ELSE "changing"]
    /\ UNCHANGED <<client, lists, events, runtime, info, flag, bpt, call,
                   fault, kfd, rtWait, rtList, exited>>

EndUpdate ==
    /\ ~exited /\ loader.phase = "changing"
    /\ \E o \in Objects :
         rtList' = IF o \in rtList THEN rtList \ {o} ELSE rtList \cup {o}
    /\ loader' = [loader EXCEPT !.phase = IF bpt = "inserted" THEN "exit"
                                                             ELSE "idle"]
    /\ UNCHANGED <<client, lists, events, runtime, info, flag, bpt, call,
                   fault, kfd, rtWait, exited, count>>

Exit ==
    /\ ~exited
    /\ exited' = TRUE
    /\ rtWait' = FALSE
    /\ loader' = [loader EXCEPT !.phase = "idle"]
    /\ UNCHANGED <<client, lists, events, runtime, info, flag, bpt, call,
                   fault, kfd, rtList, count>>

-----------------------------------------------------------------------------

Init ==
    /\ attached = FALSE
    /\ runtime = "unloaded" /\ info = "disabled" /\ flag = FALSE
    /\ setting = Defaults /\ supports = FALSE /\ watches = 0 /\ kept = FALSE
    /\ objects = {} /\ changed = FALSE /\ seen = {}
    /\ bpt = "absent"
    /\ pending = <<>> /\ reported = {}
    /\ call = Return /\ fault = "none"
    /\ drv = NoDebug /\ excp = FALSE /\ rtState = "disabled"
    /\ rtWait = FALSE /\ rtList = {} /\ exited = FALSE
    /\ loader = [thread |-> CHOOSE t \in Threads : TRUE, phase |-> "idle"]
    /\ count = [attaches |-> 0, loads |-> 0, updates |-> 0]

\* The rest of a call in progress.
Continue ==
    \/ ComputeState
    \/ Subscribe
    \/ InsertBreakpoint
    \/ ReadState
    \/ ReadList
    \/ ApplySettings
    \/ BreakpointAction
    \/ DetachLaunchMode
    \/ DetachWatchpoints
    \/ DetachDisable

\* What a client does that follows the events.
ServeEvents ==
    \/ ReportEvent
    \/ QueryRuntime
    \/ \E e \in reported : EventProcessed(e)
    \/ ReportBreakpointHit

Next ==
    \/ Continue
    \/ ServeEvents
    \/ SetWaveCreation \/ SetMemoryPrecision
    \/ SetWatchpoint \/ RemoveWatchpoint
    \/ AgentList \/ CodeObjectList
    \/ Attach \/ Detach
    \/ RuntimeLoad \/ RuntimeUnload
    \/ \E t \in Threads : BeginUpdate(t)
    \/ EndUpdate
    \/ Exit

Spec == Init /\ [][Next]_vars /\ WF_vars(Continue) /\ WF_vars(ServeEvents)

-----------------------------------------------------------------------------
(* Properties. *)

\* The type invariant.
TypeOK ==
    /\ attached \in BOOLEAN /\ supports \in BOOLEAN /\ flag \in BOOLEAN
    /\ setting \in Settings
    /\ watches \in 0..MaxWatches /\ kept \in BOOLEAN
    /\ objects \subseteq Objects /\ seen \subseteq Objects
    /\ changed \in BOOLEAN
    /\ runtime \in RuntimeStates /\ info \in OsStates
    /\ bpt \in {"absent", "inserted", "refused"}
    /\ reported \cup PendingSet \subseteq
         [kind : {"runtime"}, state : RuntimeStates, attach : BOOLEAN]
           \cup [kind : {"list", "resume"}, thread : Threads]
    /\ call \in [op : {"none", "attach", "event", "hit", "detach", "failing"},
                 stage : {"idle", "compute", "subscribe", "breakpoint", "state",
                          "list", "listed", "take", "launch", "watches",
                          "disable"},
                 to : OsStates, saved : BOOLEAN]
    /\ fault \in {"none", "torn list", "set_exceptions_reported", "detach",
                  "spurious runtime exception"}
    /\ drv \in [debug : BOOLEAN, all : BOOLEAN, set : Settings]
    /\ excp \in BOOLEAN /\ rtState \in OsStates
    /\ rtWait \in BOOLEAN /\ exited \in BOOLEAN
    /\ rtList \subseteq Objects
    /\ loader \in [thread : Threads,
                   phase : {"idle", "entry", "changing", "exit", "halted"}]
    /\ count \in [attaches : 0..MaxAttaches, loads : 0..MaxLoads,
                  updates : 0..MaxUpdates]

\* A setting the client made is in force: whenever the runtime is loaded and
\* no call is in progress, the driver has every setting of the process,
\* although it was made before the runtime was loaded, while it was being
\* unloaded, or in an earlier life of it (process_t::set_wave_launch_mode and
\* its kin, process_t::runtime_enable).
SettingsApplied ==
    Live /\ ~exited /\ runtime = "success" /\ rtState = "enabled" =>
      drv.set = setting

\* The code objects of the library are those of the inferior whenever no
\* thread is updating them, and none when the runtime is not loaded; they
\* were read whole; and a client whose list differs is told that it changed
\* when it asks (process_t::update_code_objects, the callback at r_brk).
ListReported ==
    /\ fault # "torn list"
    /\ Live =>
         /\ runtime # "success" => objects = {}
         /\ runtime = "success" /\ ~exited /\ rtState = "enabled"
              /\ loader.phase \in {"idle", "halted"} => objects = rtList
         /\ seen # objects => changed

\* What a detach leaves in the process and its driver, whatever happens to the
\* runtime and its threads between the calls of it: debugging is disabled,
\* nothing is reported, the launch mode and precise memory are the defaults
\* again, and the breakpoint is gone.  The trap override alone may be left, and
\* only by a detach that found it set and did not find exactly one watchpoint:
\* two or more, or none after the first one was refused (process_t::detach,
\* process_t::remove_watchpoint).
NothingLeft ==
    ~attached /\ ~exited =>
      /\ bpt = "absent"
      /\ drv = NoDebug \/ (kept /\ drv = TrapsLeft)

\* The driver follows the library: it has the settings of the process while
\* the runtime is loaded, and of them no more than NothingLeft says once it is
\* detached from.
DriverFollows == TypeOK /\ SettingsApplied /\ NothingLeft

\* The runtime is answered for each of its exceptions, never for a state that
\* attach found: at most one event that will answer it exists, and only while
\* it waits; and each exception is a change of the runtime's state
\* (event_t::set_state, process_t::next_pending_event).
AnswersMatch ==
    LET answers == {e \in PendingSet \cup reported :
                      e.kind = "runtime" /\ ~e.attach} IN
    /\ Cardinality(answers) <= 1
    /\ answers # {} => rtWait \/ exited
    /\ fault # "spurious runtime exception"

\* A client that follows the events is never left with a thread it was told
\* to hold: the event that resumes the thread is delivered, for that thread
\* (amd_dbgapi_report_breakpoint_hit, event_t::set_state).
ThreadResumed == loader.phase = "halted" ~> loader.phase # "halted"

\* A client that follows the events never leaves the runtime waiting, unless
\* the process was attached to while its runtime could not be debugged: the
\* flag that says so is then still set (process_t::runtime_enable).
RuntimeAnswered == rtWait /\ ~flag ~> ~rtWait

\* A client that follows the events never leaves the runtime waiting.
RuntimeContinues == rtWait ~> ~rtWait

\* "Detaching causes execution of the associated native operating system
\* process to continue unaffected by the library."
Unaffected == ~attached /\ ~exited => drv.set = Defaults

\* A process that has exited can be detached from.
ExitedDetaches == fault # "detach"

\* The exit of the process while the library works on it is not an error.
ExitTolerated == fault # "set_exceptions_reported"

\* What the client is told of the runtime is the state the library is in.
ToldState ==
    Live /\ runtime = "restriction" =>
      \A e \in PendingSet : e.kind = "runtime" => e.state # "success"
=============================================================================
