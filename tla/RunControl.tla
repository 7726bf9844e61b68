------------------------------ MODULE RunControl ------------------------------
(***************************************************************************)
(* Run control of one attached process: how the library suspends and       *)
(* resumes the queues of the inferior, learns the state of the waves from   *)
(* the context save areas, stops and resumes single waves, and reports what *)
(* happened as a FIFO of events.                                            *)
(*                                                                         *)
(* Three actors interleave: the GPU (waves launch, trap and end), the       *)
(* kernel driver and the inferior (queues are created and destroyed, the    *)
(* process exits) and the library, which the client drives one API call at  *)
(* a time.  A call is cut into steps at its driver calls, because that is   *)
(* where the other two actors get in between; `call' is its program counter *)
(* and its locals.                                                          *)
(*                                                                         *)
(* The build modelled is the one with dbgapi_assert enabled: an assertion   *)
(* that fails puts its name in `fault' and the library makes no further     *)
(* step (fatal_error leaves it uninitialized).                              *)
(***************************************************************************)
EXTENDS Integers, FiniteSets, SequencesExt

CONSTANTS Queues,        \* the queues the inferior may create, each once
          Waves,         \* the waves the hardware may launch, each once
          QueueOf,       \* the queue a wave belongs to
          Commands,      \* the mode and exceptions a wave may be resumed with
          MaxDestroys,   \* bound: queues the inferior may destroy
          MayExit        \* whether the process may exit

ASSUME ConstantsAssumption ==
  /\ IsFiniteSet(Waves)
  /\ QueueOf \in [Waves -> Queues]
  /\ Commands \subseteq
       [mode : {"run", "step", "simulate", "terminate"}, exceptions : BOOLEAN]
  /\ MaxDestroys \in Nat
  /\ MayExit \in BOOLEAN

VARIABLES
  \* The library.
  qState,        \* queue_t::m_state, "absent" without a queue_t
  wavesRunning,  \* compute_queue_t::m_waves_running, NoCount when reset
  wave,          \* wave_t, a record per wave (see WaveRecord)
  dirty,         \* waves with register updates only in the memory cache
  evState,       \* event_t::m_state of the (at most two) events of a wave
  evKind,        \* event_t::m_event_kind
  pending,       \* process_t::m_pending_events
  fwd,           \* process_t::m_forward_progress_needed
  launchMode,    \* process_t::m_wave_launch_mode
  frozen,        \* process_t::m_frozen
  call,          \* the API call in progress
  fault,         \* the assertion that failed, or "none"
  \* The kernel driver, the inferior and the hardware.
  osQueue,       \* "unborn", "alive" or "destroyed"
  osSusp,        \* queues the driver holds off the hardware
  osMode,        \* the launch mode the driver applies to new waves
  excp,          \* queues with a wave exception not yet queried
  hw,            \* what the registers of a wave in its save area say
  exited,        \* the process has exited
  destroys       \* how many queues were destroyed

libVars == <<qState, wavesRunning, wave, dirty, evState, evKind, pending, fwd,
             launchMode, frozen, call, fault>>
extVars == <<osQueue, osSusp, osMode, excp, hw, exited, destroys>>
vars == <<libVars, extVars>>
evVars == <<evState, evKind, pending>>

-----------------------------------------------------------------------------
(* State. *)

NoCount == -1
Slots == {1, 2}
NoSlot == 0        \* AMD_DBGAPI_EVENT_NONE

QueueStates == {"absent", "running", "suspended", "invalid"}

\* `state' is m_state, `vis' m_visibility, `reason' m_stop_reason (a completed
\* single step, or anything else that trapped), `stopReq' m_stop_requested,
\* `last' m_last_stop_event_id and `halted' the halt bit the library holds for
\* the wave (status.halt, or its copy in ttmp6 while the wave is stopped).
WaveRecord == [state   : {"absent", "run", "step", "stop"},
               vis     : {"visible", "at_launch", "terminating"},
               reason  : {"none", "step", "trap"},
               stopReq : BOOLEAN,
               last    : {NoSlot} \cup Slots,
               halted  : BOOLEAN]

\* A wave_t just constructed; a wave that does not exist is the same with its
\* state "absent".
NewWave == [state |-> "run", vis |-> "visible", reason |-> "none",
            stopReq |-> FALSE, last |-> NoSlot, halted |-> FALSE]
NoWave == [NewWave EXCEPT !.state = "absent"]

EventStates == {"none", "queued", "reported"}
EventKinds == {"none", "stop", "terminated"}

Known(w) == wave[w].state # "absent"
Found(w) == Known(w) /\ wave[w].vis = "visible"   \* process_t::find (wave_id)
Present(w) == hw[w] \notin {"unborn", "ended"}     \* has a CWSR record

\* wave_t::last_stop_event: the event still exists and has this state.
LastEventIs(w, states) ==
  wave[w].last # NoSlot /\ evState[w][wave[w].last] \in states

LiveEvents(w) == {n \in Slots : evState[w][n] # "none"}

\* Event ids are never reused by the code.  Here an id is recycled once its
\* event is destroyed and no wave refers to it any more, which no code can
\* tell from a fresh one.
FreshSlot(w) ==
  IF evState[w][1] = "none" /\ wave[w].last # 1 THEN 1 ELSE 2

\* Mutant: a processed event is taken for one that is not reported yet.
ClientStateReported(w) ==
  IF wave[w].state # "stop" \/ LastEventIs(w, {"reported"})
    THEN wave[w].state
    ELSE IF wave[w].reason = "step" THEN "step" ELSE "run"

\* wave_t::client_visible_state
ClientState(w) ==
  IF wave[w].state # "stop" \/ ~LastEventIs(w, {"queued"})
    THEN wave[w].state
    ELSE IF wave[w].reason = "step" THEN "step" ELSE "run"

\* compute_queue_t::is_all_stopped
AllStopped(q) == launchMode = "halt" /\ wavesRunning[q] = 0

IdleCall == [op |-> "none", stage |-> "idle", wave |-> {}, mode |-> "run",
             exceptions |-> FALSE, queues |-> {}, resume |-> {}, new |-> {}]

Call(op, stage, queues) ==
  [IdleCall EXCEPT !.op = op, !.stage = stage, !.queues = queues]

Idle == call.stage = "idle" /\ fault = "none"
InStage(s) == call.stage = s /\ fault = "none"

\* An assertion fails: the call is abandoned where it stands.
Fail(name) ==
  /\ fault' = name
  /\ UNCHANGED <<qState, wavesRunning, wave, dirty, evVars, fwd, launchMode,
                 frozen, call, extVars>>

-----------------------------------------------------------------------------
(* Events: wave_t::raise_event with process_t::enqueue_event. *)

\* One event for every wave of W, of the kind the function `kind' gives it, at
\* the end of the FIFO.  The waves of one call are visited in the order of
\* the control stack, which is arbitrary.
RaiseEvents(W, kind) ==
  /\ evState' = [w \in Waves |->
       IF w \in W THEN [evState[w] EXCEPT ![FreshSlot(w)] = "queued"]
                  ELSE evState[w]]
  /\ evKind' = [w \in Waves |->
       IF w \in W THEN [evKind[w] EXCEPT ![FreshSlot(w)] = kind[w]]
                  ELSE evKind[w]]
  /\ \E order \in SetToSeqs({<<w, FreshSlot(w)>> : w \in W}) :
       pending' = pending \o order

RaiseNothing == UNCHANGED evVars

\* Mutant: the destructor raises no event.
SilentlyDestroyed(W) == {}

\* wave_t::~wave_t: of the waves W being destroyed, the ones whose client waits
\* for the outcome of a single step get a command terminated event.
Unanswered(W) == {w \in W : wave[w].state = "step"}

-----------------------------------------------------------------------------
(* process_t::update_queues and aql_queue_t::~aql_queue_t *)

QueuesAfterUpdate ==
  [q \in Queues |-> IF osQueue[q] # "alive" THEN "absent"
                    ELSE IF qState[q] = "absent" THEN "running"
                    ELSE qState[q]]

\* Queues the snapshot no longer names are destroyed with all their waves.
UpdateQueues ==
  LET swept == {q \in Queues : osQueue[q] # "alive"}
      gone  == {w \in Waves : QueueOf[w] \in swept /\ Known(w)}
  IN /\ qState' = QueuesAfterUpdate
     /\ wavesRunning' = [q \in Queues |->
          IF q \in swept \/ qState[q] = "absent" THEN NoCount
                                                 ELSE wavesRunning[q]]
     /\ wave' = [w \in Waves |-> IF w \in gone THEN NoWave ELSE wave[w]]
     /\ dirty' = dirty \ gone
     /\ RaiseEvents(Unanswered(gone), [w \in Waves |-> "terminated"])

-----------------------------------------------------------------------------
(* The steps all calls share: process_t::suspend_queues, with the listener *)
(* aql_queue_t::queue_state_changed and update_waves, and resume_queues.   *)

\* architecture_t::wave_get_state: the trap handler stopped the wave.
Trapped(w) == hw[w] \in {"trapped", "stepped"}

\* A wave update_waves sees for the first time, halted at its entry point.
HaltedAtLaunch(w) == ~Known(w) /\ hw[w] = "at_launch"

\* Mutant: a completed single step is not recognised.
NewlyStoppedOnTrap(w) == wave[w].state # "stop" /\ hw[w] = "trapped"

\* The wave ran when the library last looked, and has been stopped since.
NewlyStopped(w) == wave[w].state # "stop" /\ Trapped(w)

\* The wave_t after update_waves has visited its CWSR record.
Updated(w) ==
  LET cur == IF Known(w) THEN wave[w] ELSE NewWave
  IN IF HaltedAtLaunch(w)
       THEN [cur EXCEPT !.state = "stop", !.vis = "at_launch",
                        !.stopReq = TRUE]
     ELSE IF NewlyStopped(w)
       THEN [cur EXCEPT !.state = "stop",
                        !.reason = IF hw[w] = "stepped" THEN "step" ELSE "trap",
                        !.last = IF cur.vis = "visible" THEN FreshSlot(w)
                                                        ELSE cur.last]
     ELSE cur

\* update_waves on every queue of Q: new waves are created and get their
\* wave_id register written, the state of the others is read, and the waves
\* without a record are destroyed.
UpdateWaves(Q) ==
  LET found == {w \in Waves : QueueOf[w] \in Q /\ Present(w)}
      gone  == {w \in Waves : QueueOf[w] \in Q /\ ~Present(w) /\ Known(w)}
      stops == {w \in found : NewlyStopped(w) /\ Updated(w).vis = "visible"}
  IN /\ wave' = [w \in Waves |-> IF w \in found THEN Updated(w)
                                 ELSE IF w \in gone THEN NoWave
                                 ELSE wave[w]]
     /\ wavesRunning' = [q \in Queues |->
          IF q \in Q
            THEN Cardinality({w \in found : /\ QueueOf[w] = q
                                            /\ Updated(w).state # "stop"})
            ELSE wavesRunning[q]]
     /\ dirty' = (dirty \ gone) \cup {w \in found : ~Known(w)}
     /\ RaiseEvents(stops \cup Unanswered(gone),
                    [w \in Waves |-> IF w \in stops THEN "stop"
                                                    ELSE "terminated"])

\* What the caller does once its queues are suspended.  A caller that wanted
\* the queues suspended only for the time of the call resumes the ones it
\* suspended, if forward progress is needed.
ResumeOrReturn(Q) ==
  IF fwd /\ Q # {} THEN [Call(call.op, "resume", {}) EXCEPT !.resume = Q]
                   ELSE IdleCall

\* Mutant: the queues of an earlier iteration are forgotten.
AfterSuspendForgets(valid) ==
  CASE call.op = "next" /\ valid # {} ->
         [call EXCEPT !.stage = "query", !.queues = {},
                      !.resume = IF fwd THEN valid ELSE {}]
    [] call.op = "next" /\ valid = {} ->
         [call EXCEPT !.stage = "resume", !.queues = {}]
    [] call.op \in {"stop", "resume"} ->
         [call EXCEPT !.stage = "body", !.queues = valid]
    [] call.op \in {"creation", "freeze"} ->
         [call EXCEPT !.stage = "body"]
    [] OTHER -> ResumeOrReturn(call.queues)

\* `valid' are the queues of the call that are still valid.  The event loop
\* queries again as long as it suspended a queue; a wave or process call goes
\* on with its body.
AfterSuspend(valid) ==
  CASE call.op = "next" /\ valid # {} ->
         [call EXCEPT !.stage = "query", !.queues = {},
                      !.resume = @ \cup (IF fwd THEN valid ELSE {})]
    [] call.op = "next" /\ valid = {} ->
         [call EXCEPT !.stage = "resume", !.queues = {}]
    [] call.op \in {"stop", "resume"} ->
         [call EXCEPT !.stage = "body", !.queues = valid]
    [] call.op \in {"creation", "freeze"} ->
         [call EXCEPT !.stage = "body"]
    [] OTHER -> ResumeOrReturn(call.queues)

ValidQueues(Q) == {q \in Q : qState[q] # "invalid"}

\* The queues the driver is asked about: an all-stopped queue is off the
\* hardware already, and stays there.
Sent(Q) == {q \in ValidQueues(Q) : ~AllStopped(q)}

\* Why suspending the queues of Q fails an assertion, "none" if it does not.
SuspendFault(Q) ==
  LET ok == {q \in Sent(Q) : osQueue[q] = "alive"}
      lost == {w \in Waves : /\ QueueOf[w] \in ok
                             /\ ~Present(w)
                             /\ wave[w].state = "stop"}
  IN IF \E q \in Q : qState[q] = "absent" THEN "dangling_queue"
     ELSE IF \E q \in Q : qState[q] = "suspended" THEN "already_suspended"
     ELSE IF \E w \in dirty : QueueOf[w] \in ok THEN "discarding_dirty_line"
     ELSE IF lost # {} THEN "stopped_wave_ended"
     ELSE "none"

SuspendFails ==
  /\ InStage("suspend")
  /\ SuspendFault(call.queues) # "none"
  /\ Fail(SuspendFault(call.queues))

\* The driver call fails because the process exited.
SuspendExited ==
  /\ InStage("suspend")
  /\ SuspendFault(call.queues) = "none"
  /\ call.queues # {} /\ exited
  /\ qState' = [q \in Queues |-> IF q \in call.queues THEN "invalid"
                                                      ELSE qState[q]]
  /\ call' = AfterSuspend({})
  /\ UNCHANGED <<wavesRunning, wave, dirty, evVars, fwd, launchMode, frozen,
                 fault, extVars>>

\* The driver suspends the queues that still exist and flags the others; the
\* flagged ones become invalid, and the listeners of the suspended ones read
\* the context save areas.
SuspendLive ==
  /\ InStage("suspend")
  /\ SuspendFault(call.queues) = "none"
  /\ call.queues = {} \/ ~exited
  /\ LET Q     == call.queues
         ok    == {q \in Sent(Q) : osQueue[q] = "alive"}
         valid == (ValidQueues(Q) \ Sent(Q)) \cup ok
     IN /\ qState' = [q \in Queues |-> IF q \in valid THEN "suspended"
                                       ELSE IF q \in Q THEN "invalid"
                                       ELSE qState[q]]
        /\ UpdateWaves(ok)
        /\ osSusp' = osSusp \cup ok
        /\ excp' = excp \ ok
        /\ call' = AfterSuspend(valid)
        /\ UNCHANGED <<fwd, launchMode, frozen, fault, osQueue, osMode, hw,
                       exited, destroys>>

\* What the registers of a wave say once the library's updates are written.
Registers(w) ==
  IF wave[w].state = "stop" THEN "stopped"
  ELSE IF wave[w].halted THEN "halted"
  ELSE IF wave[w].state = "step" THEN "stepping"
  ELSE IF wave[w].vis = "terminating" THEN "ending"
  ELSE "running"

\* Mutant: the listener does not write the cache back.
NoWriteBack(Q) == UNCHANGED <<hw, dirty>>

\* memory_cache_t::write_back over the save areas of the queues of Q.
WriteBack(Q) ==
  LET W == {w \in dirty : QueueOf[w] \in Q}
  IN /\ hw' = [w \in Waves |-> IF w \in W /\ Present(w) THEN Registers(w)
                                                        ELSE hw[w]]
     /\ dirty' = dirty \ W

\* Mutant: the count survives the resume.
StaleCounts(Q) == wavesRunning

\* The queues that go back on the hardware lose their count.
CountsAfterResume(Q) ==
  [q \in Queues |-> IF q \in Sent(Q) THEN NoCount ELSE wavesRunning[q]]

\* The call returns, or next_pending_event goes on to take an event.
AfterResume ==
  IF call.op = "next" THEN [IdleCall EXCEPT !.op = "next", !.stage = "pop"]
                      ELSE IdleCall

\* Why resuming the queues of Q fails an assertion.  The flag the driver sets
\* on a queue that no longer exists is tested after it has been masked out, so
\* such a queue is neither resumed nor counted as invalid.
ResumeFault(Q) ==
  IF frozen THEN "resume_frozen"
  ELSE IF \E q \in Q : qState[q] = "absent" THEN "dangling_queue"
  ELSE IF \E q \in Q : qState[q] = "running" THEN "already_running"
  ELSE IF ~exited /\ \E q \in Sent(Q) : osQueue[q] # "alive"
    THEN "resume_count"
  ELSE "none"

ResumeFails ==
  /\ InStage("resume")
  /\ ResumeFault(call.resume) # "none"
  /\ Fail(ResumeFault(call.resume))

\* The listeners have run before the driver call fails: the dirty lines of an
\* exited process are dropped.
ResumeExited ==
  /\ InStage("resume")
  /\ ResumeFault(call.resume) = "none"
  /\ call.resume # {} /\ exited
  /\ qState' = [q \in Queues |-> IF q \in call.resume THEN "invalid"
                                                      ELSE qState[q]]
  /\ wavesRunning' = CountsAfterResume(call.resume)
  /\ WriteBack(Sent(call.resume))
  /\ call' = AfterResume
  /\ UNCHANGED <<wave, evVars, fwd, launchMode, frozen, fault, osQueue, osSusp,
                 osMode, excp, exited, destroys>>

\* The state is published first: the listeners write the cached register
\* updates back before the driver puts the queues on the hardware again.
ResumeLive ==
  /\ InStage("resume")
  /\ ResumeFault(call.resume) = "none"
  /\ call.resume = {} \/ ~exited
  /\ LET Q == call.resume
     IN /\ qState' = [q \in Queues |->
             IF q \in ValidQueues(Q) THEN "running" ELSE qState[q]]
        /\ wavesRunning' = CountsAfterResume(Q)
        /\ WriteBack(Sent(Q))
        /\ osSusp' = osSusp \ Sent(Q)
        /\ call' = AfterResume
        /\ UNCHANGED <<wave, evVars, fwd, launchMode, frozen, fault, osQueue,
                       osMode, excp, exited, destroys>>

-----------------------------------------------------------------------------
(* amd_dbgapi_wave_stop *)

\* Mutant: the scope suspends a queue that is suspended already.
ScopedAlways(w) == {QueueOf[w]}

\* The scoped_queue_suspend_t of a wave call: nothing to suspend when the
\* queue is suspended already.
ScopedQueues(w) ==
  IF qState[QueueOf[w]] = "suspended" THEN {} ELSE {QueueOf[w]}

WaveStop(w) ==
  /\ Idle
  /\ Found(w)
  /\ ClientState(w) # "stop"
  /\ ~wave[w].stopReq
  /\ call' = [Call("stop", "suspend", ScopedQueues(w)) EXCEPT !.wave = {w}]
  /\ UNCHANGED <<qState, wavesRunning, wave, dirty, evVars, fwd, launchMode,
                 frozen, fault, extVars>>

\* Mutant: wave_state_changed without its assertions.
StopUnchecked(w) == "none"

\* wave_t::set_state (AMD_DBGAPI_WAVE_STATE_STOP) on a wave that runs.
StopFault(w) ==
  IF wavesRunning[QueueOf[w]] = NoCount THEN "no_wave_count"
  ELSE IF wavesRunning[QueueOf[w]] = 0 THEN "wave_count_is_zero"
  ELSE "none"

Stopped(w) ==
  [wave[w] EXCEPT !.state = "stop", !.stopReq = TRUE, !.reason = "none",
                  !.last = FreshSlot(w)]

\* The wave is gone, or has stopped by itself while the queue was suspended.
StopNothing(w) ==
  /\ ~Found(w) \/ frozen \/ wave[w].state = "stop"
  /\ call' = ResumeOrReturn(call.queues)
  /\ UNCHANGED <<qState, wavesRunning, wave, dirty, evVars, fwd, launchMode,
                 frozen, fault, extVars>>

\* The stop request of a single-stepping wave is a terminated command.
StopRunning(w) ==
  /\ Found(w) /\ ~frozen /\ wave[w].state # "stop"
  /\ StopFault(w) = "none"
  /\ wave' = [wave EXCEPT ![w] = Stopped(w)]
  /\ wavesRunning' = [wavesRunning EXCEPT ![QueueOf[w]] = @ - 1]
  /\ dirty' = dirty \cup {w}
  /\ RaiseEvents({w}, [x \in Waves |->
       IF wave[w].state = "step" THEN "terminated" ELSE "stop"])
  /\ call' = ResumeOrReturn(call.queues)
  /\ UNCHANGED <<qState, fwd, launchMode, frozen, fault, extVars>>

StopFails(w) ==
  /\ Found(w) /\ ~frozen /\ wave[w].state # "stop"
  /\ StopFault(w) # "none"
  /\ Fail(StopFault(w))

StopBody ==
  /\ InStage("body") /\ call.op = "stop"
  /\ \E w \in call.wave : StopNothing(w) \/ StopRunning(w) \/ StopFails(w)

-----------------------------------------------------------------------------
(* amd_dbgapi_wave_resume *)

\* How a resumed wave goes on: in RUN, in SINGLE_STEP, or in SINGLE_STEP at an
\* instruction that the library simulates or that terminates the wave.  An
\* instruction is neither simulated nor recognised as terminating when the
\* wave is resumed with exceptions.
ResumeModes == {"run", "step", "simulate", "terminate"}

\* Mutant: a reported event need not be processed.
ResumableWhenReported(w) == ~LastEventIs(w, {"queued"})

\* The last stop event of the wave, if any, has been processed.
Resumable(w) == ~LastEventIs(w, {"queued", "reported"})

WaveResume(w, mode, exceptions) ==
  /\ Idle
  /\ Found(w)
  /\ ~frozen
  /\ exceptions => mode \in {"run", "step"}
  /\ ClientState(w) = "stop"
  /\ Resumable(w)
  /\ call' = [Call("resume", "suspend", ScopedQueues(w)) EXCEPT
                !.wave = {w}, !.mode = mode, !.exceptions = exceptions]
  /\ UNCHANGED <<qState, wavesRunning, wave, dirty, evVars, fwd, launchMode,
                 frozen, fault, extVars>>

ResumeWaveFault(w) ==
  IF wavesRunning[QueueOf[w]] = NoCount THEN "no_wave_count"
  ELSE IF wave[w].state # "stop" THEN "wave_already_running"
  ELSE IF LastEventIs(w, {"queued"}) THEN "stop_event_pending"
  ELSE "none"

\* wave_t::set_state away from STOP, terminate () and the simulated step,
\* which stops the wave again before the queue ever resumes.
Resumed(w, mode, exceptions) ==
  LET clear == [wave[w] EXCEPT !.stopReq = FALSE, !.reason = "none",
                               !.last = NoSlot]
  IN CASE mode = "simulate" ->
            [clear EXCEPT !.state = "stop", !.reason = "step",
                          !.last = FreshSlot(w)]
       [] mode = "terminate" ->
            [clear EXCEPT !.state = "run", !.vis = "terminating",
                          !.last = FreshSlot(w)]
       [] OTHER ->
            [clear EXCEPT !.state = mode, !.halted = @ \/ exceptions]

\* The instruction at the pc cannot be read once the process has exited, and
\* the wave is then just single-stepped.
BodyMode ==
  IF exited /\ call.mode \in {"simulate", "terminate"} THEN "step"
                                                       ELSE call.mode

\* Mutant: a simulated step is counted as if the wave still ran.
CountSimulated(w) == wavesRunning[QueueOf[w]] + 1

\* The count after the calls to wave_state_changed: the wave runs, unless its
\* step was simulated and it has stopped again.
CountResumed(w) ==
  IF BodyMode = "simulate" THEN wavesRunning[QueueOf[w]]
                           ELSE wavesRunning[QueueOf[w]] + 1

\* The state amd_dbgapi_wave_resume asks for.
RequestedState == IF call.mode = "run" THEN "run" ELSE "step"

ResumeNothing(w) ==
  /\ ~Found(w) \/ wave[w].state = RequestedState
  /\ call' = ResumeOrReturn(call.queues)
  /\ UNCHANGED <<qState, wavesRunning, wave, dirty, evVars, fwd, launchMode,
                 frozen, fault, extVars>>

\* A simulated step raises its stop event at once; a terminating instruction
\* raises the terminated event that the hardware will not.
ResumeStopped(w) ==
  /\ Found(w) /\ wave[w].state # RequestedState
  /\ ResumeWaveFault(w) = "none"
  /\ wave' = [wave EXCEPT ![w] = Resumed(w, BodyMode, call.exceptions)]
  /\ wavesRunning' = [wavesRunning EXCEPT ![QueueOf[w]] = CountResumed(w)]
  /\ dirty' = dirty \cup {w}
  /\ RaiseEvents(IF BodyMode \in {"simulate", "terminate"} THEN {w} ELSE {},
                 [x \in Waves |-> IF BodyMode = "simulate" THEN "stop"
                                                           ELSE "terminated"])
  /\ call' = ResumeOrReturn(call.queues)
  /\ UNCHANGED <<qState, fwd, launchMode, frozen, fault, extVars>>

ResumeWaveFails(w) ==
  /\ Found(w) /\ wave[w].state # RequestedState
  /\ ResumeWaveFault(w) # "none"
  /\ Fail(ResumeWaveFault(w))

ResumeBody ==
  /\ InStage("body") /\ call.op = "resume"
  /\ \E w \in call.wave :
       ResumeNothing(w) \/ ResumeStopped(w) \/ ResumeWaveFails(w)

-----------------------------------------------------------------------------
(* amd_dbgapi_process_wave_list *)

NotSuspended(qs) == {q \in Queues : qs[q] \in {"running", "invalid"}}

WaveList ==
  /\ Idle
  /\ UpdateQueues
  /\ call' = Call("list", "suspend", NotSuspended(QueuesAfterUpdate))
  /\ UNCHANGED <<fwd, launchMode, frozen, fault, extVars>>

-----------------------------------------------------------------------------
(* amd_dbgapi_process_set_progress *)

SetProgress(needed) ==
  /\ Idle
  /\ ~frozen
  /\ fwd # needed
  /\ fwd' = needed
  /\ call' = IF needed
               THEN [Call("progress", "resume", {}) EXCEPT
                       !.resume = {q \in Queues : qState[q] = "suspended"}]
               ELSE IdleCall
  /\ UNCHANGED <<qState, wavesRunning, wave, dirty, evVars, launchMode,
                 frozen, fault, extVars>>

-----------------------------------------------------------------------------
(* amd_dbgapi_process_set_wave_creation: process_t::set_wave_launch_mode *)

StopCreation ==
  /\ Idle
  /\ ~frozen
  /\ launchMode = "normal"
  /\ osMode' = "halt"
  /\ launchMode' = "halt"
  /\ UNCHANGED <<qState, wavesRunning, wave, dirty, evVars, fwd, frozen, call,
                 fault, osQueue, osSusp, excp, hw, exited, destroys>>

NormalCreation ==
  /\ Idle
  /\ ~frozen
  /\ launchMode = "halt"
  /\ osMode' = "normal"
  /\ call' = Call("creation", "update", {})
  /\ UNCHANGED <<qState, wavesRunning, wave, dirty, evVars, fwd, launchMode,
                 frozen, fault, osQueue, osSusp, excp, hw, exited, destroys>>

\* The queues are updated once the driver has changed the mode.
NormalCreationQueues ==
  /\ InStage("update") /\ call.op = "creation"
  /\ UpdateQueues
  /\ call' = Call("creation", "suspend", NotSuspended(QueuesAfterUpdate))
  /\ UNCHANGED <<fwd, launchMode, frozen, fault, extVars>>

\* Mutant: only the waves of the queues suspended by this call.
HiddenInCall == {w \in Waves : /\ Known(w) /\ wave[w].vis = "at_launch"
                               /\ QueueOf[w] \in call.queues}

Hidden == {w \in Waves : Known(w) /\ wave[w].vis = "at_launch"}

HiddenFault ==
  IF \E w \in Hidden : wavesRunning[QueueOf[w]] = NoCount THEN "no_wave_count"
                                                          ELSE "none"

NormalCreationFails ==
  /\ InStage("body") /\ call.op = "creation"
  /\ HiddenFault # "none"
  /\ Fail(HiddenFault)

\* Every wave halted at launch is resumed and shown to the client.  The mode
\* changes before the queues are resumed, so that none is all-stopped.
NormalCreationBody ==
  /\ InStage("body") /\ call.op = "creation"
  /\ HiddenFault = "none"
  /\ wave' = [w \in Waves |->
       IF w \in Hidden THEN [wave[w] EXCEPT !.state = "run", !.vis = "visible",
                                            !.stopReq = FALSE,
                                            !.reason = "none", !.last = NoSlot]
                       ELSE wave[w]]
  /\ wavesRunning' = [q \in Queues |->
       wavesRunning[q] + Cardinality({w \in Hidden : QueueOf[w] = q})]
  /\ dirty' = dirty \cup Hidden
  /\ launchMode' = "normal"
  /\ call' = ResumeOrReturn(call.queues)
  /\ UNCHANGED <<qState, evVars, fwd, frozen, fault, extVars>>

-----------------------------------------------------------------------------
(* amd_dbgapi_process_freeze and amd_dbgapi_process_unfreeze *)

Freeze ==
  /\ Idle
  /\ ~fwd
  /\ launchMode = "halt"
  /\ ~frozen
  /\ UpdateQueues
  /\ call' = Call("freeze", "suspend", NotSuspended(QueuesAfterUpdate))
  /\ UNCHANGED <<fwd, launchMode, frozen, fault, extVars>>

\* Mutant: the cache is not flushed.
FreezeUnflushed ==
  /\ InStage("body") /\ call.op = "freeze"
  /\ frozen' = TRUE
  /\ call' = IdleCall
  /\ UNCHANGED <<qState, wavesRunning, wave, dirty, evVars, fwd, launchMode,
                 fault, extVars>>

FreezeBody ==
  /\ InStage("body") /\ call.op = "freeze"
  /\ WriteBack(Queues)
  /\ frozen' = TRUE
  /\ call' = IdleCall
  /\ UNCHANGED <<qState, wavesRunning, wave, evVars, fwd, launchMode, fault,
                 osQueue, osSusp, osMode, excp, exited, destroys>>

Unfreeze ==
  /\ Idle
  /\ frozen
  /\ frozen' = FALSE
  /\ UNCHANGED <<qState, wavesRunning, wave, dirty, evVars, fwd, launchMode,
                 call, fault, extVars>>

-----------------------------------------------------------------------------
(* amd_dbgapi_process_next_pending_event and amd_dbgapi_event_processed *)

\* The event at the head of the FIFO is returned to the client.
ReportHead ==
  LET e == Head(pending)
  IN /\ pending' = Tail(pending)
     /\ evState' = [evState EXCEPT ![e[1]][e[2]] = "reported"]
     /\ UNCHANGED evKind

NextPendingEvent ==
  /\ Idle
  /\ IF pending # <<>>
       THEN ReportHead /\ UNCHANGED call
       ELSE /\ call' = Call("next", "query", {})
            /\ RaiseNothing
  /\ UNCHANGED <<qState, wavesRunning, wave, dirty, fwd, launchMode, frozen,
                 fault, extVars>>

\* A queue the library has not met makes it update the queues first.
AfterQuery(q) ==
  IF qState[q] = "absent"
    THEN [call EXCEPT !.stage = "update", !.new = {q}]
    ELSE [call EXCEPT !.queues = @ \cup (IF qState[q] = "suspended" THEN {}
                                                                   ELSE {q})]

\* Mutant: the exception is returned without being cleared.
QueryKeepsException(q) ==
  /\ InStage("query")
  /\ q \in excp
  /\ call' = AfterQuery(q)
  /\ UNCHANGED <<qState, wavesRunning, wave, dirty, evVars, fwd, launchMode,
                 frozen, fault, extVars>>

\* query_debug_event returns a wave exception of q.
QueryDebugEvent(q) ==
  /\ InStage("query")
  /\ q \in excp
  /\ excp' = excp \ {q}
  /\ call' = AfterQuery(q)
  /\ UNCHANGED <<qState, wavesRunning, wave, dirty, evVars, fwd, launchMode,
                 frozen, fault, osQueue, osSusp, osMode, hw, exited, destroys>>

\* The queues are updated for a queue the library has not met.  If it has been
\* destroyed since the query, the event is dropped.
QueryNewQueue ==
  /\ InStage("update") /\ call.op = "next"
  /\ UpdateQueues
  /\ call' = [call EXCEPT !.stage = "query", !.new = {},
                          !.queues = @ \cup {q \in call.new : osQueue[q] = "alive"}]
  /\ UNCHANGED <<fwd, launchMode, frozen, fault, extVars>>

\* There are no more exceptions: suspend the queues that had one.
QueriesDone ==
  /\ InStage("query")
  /\ excp = {}
  /\ call' = [call EXCEPT !.stage = "suspend"]
  /\ UNCHANGED <<qState, wavesRunning, wave, dirty, evVars, fwd, launchMode,
                 frozen, fault, extVars>>

TakeEvent ==
  /\ InStage("pop")
  /\ IF pending # <<>> THEN ReportHead ELSE RaiseNothing
  /\ call' = IdleCall
  /\ UNCHANGED <<qState, wavesRunning, wave, dirty, fwd, launchMode, frozen,
                 fault, extVars>>

EventProcessed(w, n) ==
  /\ Idle
  /\ evState[w][n] = "reported"
  /\ evState' = [evState EXCEPT ![w][n] = "none"]
  /\ evKind' = [evKind EXCEPT ![w][n] = "none"]
  /\ UNCHANGED <<qState, wavesRunning, wave, dirty, pending, fwd, launchMode,
                 frozen, call, fault, extVars>>

-----------------------------------------------------------------------------
(* The hardware, the driver and the inferior. *)

OnHardware(w) == osQueue[QueueOf[w]] = "alive" /\ QueueOf[w] \notin osSusp

HwStep(w, from, to) ==
  /\ OnHardware(w)
  /\ hw[w] \in from
  /\ hw' = [hw EXCEPT ![w] = to]
  /\ UNCHANGED <<libVars, osQueue, osSusp, osMode, exited, destroys>>

HwLaunch(w) ==
  /\ HwStep(w, {"unborn"}, IF osMode = "halt" THEN "at_launch" ELSE "running")
  /\ UNCHANGED excp

\* The trap handler halts the wave and the driver raises an exception for its
\* queue.  A single-stepping wave traps after its instruction, or on it.
HwTrap(w) ==
  /\ HwStep(w, {"running", "stepping"}, "trapped")
  /\ excp' = excp \cup {QueueOf[w]}

HwSingleStep(w) ==
  /\ HwStep(w, {"stepping"}, "stepped")
  /\ excp' = excp \cup {QueueOf[w]}

HwEnd(w) ==
  /\ HwStep(w, {"running", "stepping", "ending"}, "ended")
  /\ UNCHANGED excp

\* The client must stop the host threads before it freezes the process, and
\* keep them stopped until it unfreezes it.
HostRuns == ~frozen /\ call.op # "freeze"

OsCreateQueue(q) ==
  /\ osQueue[q] = "unborn"
  /\ HostRuns /\ ~exited
  /\ osQueue' = [osQueue EXCEPT ![q] = "alive"]
  /\ UNCHANGED <<libVars, osSusp, osMode, excp, hw, exited, destroys>>

\* The driver removes the queue, suspended or not, with all its waves.  This is
\* wider than what kfd_ioctl.h says of a suspend, that the destruction of the
\* queue is blocked until the resume, and as wide as what it says of a resume,
\* that it flags a queue that does not exist, which resume_queues expects.
OsDestroyQueue(q) ==
  /\ osQueue[q] = "alive"
  /\ HostRuns
  /\ destroys < MaxDestroys
  /\ destroys' = destroys + 1
  /\ osQueue' = [osQueue EXCEPT ![q] = "destroyed"]
  /\ osSusp' = osSusp \ {q}
  /\ excp' = excp \ {q}
  /\ hw' = [w \in Waves |-> IF QueueOf[w] = q THEN "ended" ELSE hw[w]]
  /\ UNCHANGED <<libVars, osMode, exited>>

ProcessExit ==
  /\ MayExit
  /\ ~exited
  /\ exited' = TRUE
  /\ osQueue' = [q \in Queues |-> "destroyed"]
  /\ osSusp' = {}
  /\ excp' = {}
  /\ hw' = [w \in Waves |-> "ended"]
  /\ UNCHANGED <<libVars, osMode, destroys>>

-----------------------------------------------------------------------------

Init ==
  /\ qState = [q \in Queues |-> "absent"]
  /\ wavesRunning = [q \in Queues |-> NoCount]
  /\ wave = [w \in Waves |-> NoWave]
  /\ dirty = {}
  /\ evState = [w \in Waves |-> [n \in Slots |-> "none"]]
  /\ evKind = [w \in Waves |-> [n \in Slots |-> "none"]]
  /\ pending = <<>>
  /\ fwd = TRUE
  /\ launchMode = "normal"
  /\ frozen = FALSE
  /\ call = IdleCall
  /\ fault = "none"
  /\ osQueue = [q \in Queues |-> "unborn"]
  /\ osSusp = {}
  /\ osMode = "normal"
  /\ excp = {}
  /\ hw = [w \in Waves |-> "unborn"]
  /\ exited = FALSE
  /\ destroys = 0

\* The steps of the library inside a call.
LibraryStep ==
  \/ SuspendFails \/ SuspendExited \/ SuspendLive
  \/ StopBody \/ ResumeBody
  \/ NormalCreationQueues \/ NormalCreationFails \/ NormalCreationBody
  \/ FreezeBody
  \/ ResumeFails \/ ResumeExited \/ ResumeLive
  \/ \E q \in Queues : QueryDebugEvent(q)
  \/ QueryNewQueue \/ QueriesDone \/ TakeEvent

\* The calls of the client.
ClientStep ==
  \/ \E w \in Waves : WaveStop(w)
  \/ \E w \in Waves, c \in Commands : WaveResume(w, c.mode, c.exceptions)
  \/ WaveList
  \/ \E needed \in BOOLEAN : SetProgress(needed)
  \/ StopCreation \/ NormalCreation
  \/ Freeze \/ Unfreeze
  \/ NextPendingEvent
  \/ \E w \in Waves, n \in Slots : EventProcessed(w, n)

EnvironmentStep ==
  \/ \E w \in Waves : HwLaunch(w) \/ HwTrap(w) \/ HwSingleStep(w) \/ HwEnd(w)
  \/ \E q \in Queues : OsCreateQueue(q) \/ OsDestroyQueue(q)
  \/ ProcessExit

Next == LibraryStep \/ ClientStep \/ EnvironmentStep

Spec == Init /\ [][Next]_vars

-----------------------------------------------------------------------------
(* What makes run control correct. *)

HwStates == {"unborn", "at_launch", "running", "stepping", "trapped",
             "stepped", "stopped", "halted", "ending", "ended"}

Calls == [op         : {"none", "stop", "resume", "list", "progress",
                        "creation", "freeze", "next"},
          stage      : {"idle", "query", "update", "suspend", "body", "resume",
                        "pop"},
          wave       : SUBSET Waves,
          mode       : ResumeModes,
          exceptions : BOOLEAN,
          queues     : SUBSET Queues,
          resume     : SUBSET Queues,
          new        : SUBSET Queues]

Faults == {"none", "dangling_queue", "already_suspended",
           "discarding_dirty_line", "stopped_wave_ended", "resume_frozen",
           "already_running", "resume_count", "no_wave_count",
           "wave_count_is_zero", "wave_already_running", "stop_event_pending"}

\* Every variable has the type its declaration in the code gives it.
TypeOK ==
  /\ qState \in [Queues -> QueueStates]
  /\ wavesRunning \in [Queues -> Nat \cup {NoCount}]
  /\ wave \in [Waves -> WaveRecord]
  /\ dirty \subseteq Waves
  /\ evState \in [Waves -> [Slots -> EventStates]]
  /\ evKind \in [Waves -> [Slots -> EventKinds]]
  /\ pending \in Seq(Waves \X Slots)
  /\ fwd \in BOOLEAN
  /\ launchMode \in {"normal", "halt"}
  /\ frozen \in BOOLEAN
  /\ call \in Calls
  /\ fault \in Faults
  /\ osQueue \in [Queues -> {"unborn", "alive", "destroyed"}]
  /\ osSusp \subseteq Queues
  /\ osMode \in {"normal", "halt"}
  /\ excp \subseteq Queues
  /\ hw \in [Waves -> HwStates]
  /\ exited \in BOOLEAN
  /\ destroys \in Nat

Alive(q) == osQueue[q] = "alive"

\* The driver holds a queue off the hardware exactly when the library believes
\* it is suspended or all-stopped: the two notions of "suspended" that
\* suspend_queues and resume_queues keep in step without asking the driver.
SuspensionAgrees ==
  \A q \in Queues : Alive(q) /\ qState[q] \in {"running", "suspended"} =>
    (q \in osSusp <=> qState[q] = "suspended" \/ AllStopped(q))

\* What the registers of a wave may say when the library believes `state' of
\* it.  A running wave may have trapped or ended since the library looked.
RegistersAgree(w) ==
  CASE wave[w].state = "stop" -> hw[w] \in {"trapped", "stepped", "stopped"}
    [] wave[w].state = "run" ->
         hw[w] \in {"running", "trapped", "halted", "ending", "ended"}
    [] wave[w].state = "step" ->
         hw[w] \in {"stepping", "stepped", "trapped", "halted", "ended"}
    [] OTHER -> TRUE

\* The point of run control: a wave of a live queue does what the client was
\* told it does.  A stopped wave never executes, and a resumed wave is not
\* left halted or in the wrong mode: its registers can differ from the
\* library's view only while the update sits in the cache (wave_t::set_state,
\* memory_cache_t::write_back), and then the queue is off the hardware.
WavesObey ==
  \A w \in Waves : Known(w) /\ Alive(QueueOf[w]) =>
    IF w \in dirty THEN QueueOf[w] \in osSusp /\ Present(w)
                   ELSE RegistersAgree(w)

\* compute_queue_t::m_waves_running, kept by increments and decrements in
\* update_waves and wave_state_changed, is the number of waves of the queue
\* that are not stopped whenever it has a value; is_all_stopped relies on it.
CountMatches ==
  \A q \in Queues : wavesRunning[q] # NoCount =>
    wavesRunning[q] = Cardinality({w \in Waves : /\ QueueOf[w] = q
                                                 /\ Known(w)
                                                 /\ wave[w].state # "stop"})

\* Nothing of a suspended queue escapes the library: every wave in its save
\* area is known, and every wave the trap handler stopped is seen stopped,
\* unless the library has resumed it since (aql_queue_t::update_waves).
NothingMissed ==
  \A w \in Waves :
    /\ Alive(QueueOf[w]) /\ qState[QueueOf[w]] = "suspended"
    /\ Present(w)
    => /\ Known(w)
       /\ Trapped(w) /\ w \notin dirty => wave[w].state = "stop"

\* The FIFO and the states of the events tell the same story: the pending
\* queue holds every queued event exactly once and nothing else
\* (process_t::enqueue_event, event_t::set_state).
PendingIsQueued ==
  /\ IsInjective(pending)
  /\ ToSet(pending) = {e \in Waves \X Slots : evState[e[1]][e[2]] = "queued"}

\* The client never has two events of one wave in hand, and never has an event
\* of a wave that runs: a wave raises its next event only after the client has
\* processed the last one and resumed it (wave_t::raise_event, the checks of
\* amd_dbgapi_wave_resume).
OneEventPerWave ==
  \A w \in Waves :
    /\ Cardinality(LiveEvents(w)) <= 1
    /\ Found(w) /\ wave[w].state # "stop" => LiveEvents(w) = {}

\* Every event reaches the client once and in its turn: the FIFO holds what is
\* queued, and the client is given the events of a wave one at a time
\* (process_t::next_pending_event, event_t::set_state, wave_t::raise_event).
EventsInTurn == PendingIsQueued /\ OneEventPerWave

\* Between calls, a process that needs forward progress has no suspended
\* queue: every path that suspends queues resumes them, whatever failed.
ForwardProgress ==
  Idle /\ fwd => \A q \in Queues : qState[q] # "suspended"

\* A frozen process can be dumped: no queue executes, and the registers in
\* memory say of every wave what the library says (process_t::freeze).
FrozenIsFlushed ==
  frozen /\ fault = "none" =>
    /\ \A q \in Queues : Alive(q) => q \in osSusp
    /\ \A w \in Waves : Known(w) /\ Alive(QueueOf[w]) => RegistersAgree(w)

\* Once wave creation is normal again, no wave stays halted at its entry point,
\* hidden from the client: not one the library has seen, nor one that launched
\* while the mode was changing (process_t::set_wave_launch_mode).
NoWaveLeftAtLaunch ==
  Idle /\ launchMode = "normal" =>
    \A w \in Waves : /\ Known(w) => wave[w].vis # "at_launch"
                     /\ hw[w] = "at_launch" => w \in dirty

\* The assertions that hold in every execution.  Of the others, three are below;
\* the fourth is that of resume_queues on a frozen process, which every request
\* for an event of a frozen process fails.
AssertionsHold ==
  fault \notin {"already_suspended", "already_running", "discarding_dirty_line",
                "stopped_wave_ended", "wave_count_is_zero",
                "wave_already_running", "stop_event_pending"}

\* A client that single-steps a wave gets an answer: however the wave leaves
\* the single-step state (the step completes, the wave traps, is stopped, ends
\* or its queue is destroyed), an event for it is raised in that very step.
StepAnswered ==
  [][\A w \in Waves : wave[w].state = "step" /\ wave'[w].state # "step" =>
       \E n \in Slots : evState[w][n] = "none" /\ evState'[w][n] = "queued"]_vars

\* A wave the client has seen stopped stays so until the client resumes it: its
\* event may be processed and destroyed, its queue suspended and updated, and
\* the state shown, which is computed from both, never goes back to running
\* (wave_t::client_visible_state, wave_t::update).
StopStaysVisible ==
  [][\A w \in Waves : Found(w) /\ Found(w)' /\ ClientState(w) = "stop" =>
       \/ ClientState(w)' = "stop"
       \/ call.op = "resume" /\ w \in call.wave]_vars

\* The assertion at the end of resume_queues: the queues that were not resumed
\* are those the driver flagged as gone.
ResumeCountsInvalidQueues == fault # "resume_count"

\* The assertion of compute_queue_t::wave_state_changed: a queue whose wave
\* changes its state has a count of its running waves.
WaveCountKnown == fault # "no_wave_count"

\* The queue_t that next_pending_event holds pointers to are not destroyed.
QueuePointersValid == fault # "dangling_queue"

-----------------------------------------------------------------------------
(* Liveness. *)

\* The library's own steps are not interrupted for ever, and a client that
\* debugs a process keeps asking for events and processing them.
Fairness ==
  /\ WF_vars(LibraryStep)
  /\ SF_vars(NextPendingEvent)

FairSpec == Spec /\ Fairness

\* Every call returns.  next_pending_event loops until no queue has an
\* exception left, while the waves keep trapping: "This is guaranteed to
\* terminate as once a queue is suspended it cannot create any new events."
CallsReturn == call.stage # "idle" ~> Idle \/ fault # "none"

\* A wave that traps is reported: the client is told about it, or the queue is
\* gone, or an assertion has failed.  The trap may come at any point of any
\* call, and the exception it raises may be cleared by a suspend_queues that
\* was not looking for it.
TrapReported ==
  \A w \in Waves :
    (/\ wave[w].state # "stop" /\ Trapped(w) /\ w \notin dirty
     /\ Alive(QueueOf[w]) /\ (Known(w) => Found(w)))
      ~> (\/ \E n \in Slots : evState[w][n] = "reported"
          \/ ~Alive(QueueOf[w])
          \/ fault # "none")

===============================================================================
