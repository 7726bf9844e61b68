------------------------- MODULE RunControlCalls_proofs -------------------------
(***************************************************************************)
(* Safety of the calls and of the events of RunControl, for every set of   *)
(* queues and waves: a call resumes what it suspended, counts the waves it *)
(* stopped, misses no wave and freezes the whole process; the assertions   *)
(* of the library that hold in every execution; and each event reaches the *)
(* client once and in its turn, a client that single-steps a wave gets an  *)
(* answer, and a wave seen stopped stays so until resumed.                 *)
(***************************************************************************)
EXTENDS RunControl_proofs, SequenceTheorems

(***************************************************************************)
(* The inductive invariant.  None of the properties is inductive: each needs *)
(* to know what the call in progress has suspended so far, and what may have *)
(* happened to the queues and waves it names since it started.               *)
(***************************************************************************)

\* The waves of a queue that m_waves_running counts.
RunningWaves(q) ==
  {w \in Waves : QueueOf[w] = q /\ Known(w) /\ wave[w].state # "stop"}

\* A wave has a record only while its queue lives, and the library knows no
\* wave that was never launched.
RecordsLive ==
  \A w \in Waves : /\ Present(w) => Alive(QueueOf[w])
                   /\ Known(w) => hw[w] # "unborn"

\* A wave hidden at its entry point is stopped; one whose next instruction
\* ends it is never stopped again.
HiddenShape ==
  \A w \in Waves : Known(w) =>
    /\ wave[w].vis = "at_launch" => wave[w].state = "stop"
    /\ wave[w].vis = "terminating" =>
         /\ wave[w].state = "run"
         /\ w \in dirty \/ hw[w] \in {"ending", "halted", "ended"}

\* What NothingMissed says of suspended queues holds of every queue the driver
\* holds, the all-stopped ones included: they become suspended without a look.
HeldSeen ==
  \A w \in Waves : QueueOf[w] \in osSusp /\ Present(w) =>
    /\ Known(w)
    /\ Trapped(w) /\ w \notin dirty => wave[w].state = "stop"

\* With normal wave creation nothing is hidden, and no wave is halted at launch
\* behind the back of the library.  The driver has the new mode before the
\* library has met all the queues, but then no new wave is halted.
LaunchShown ==
  /\ launchMode = "normal" =>
       /\ osMode = "normal"
       /\ \A w \in Waves : Known(w) => wave[w].vis # "at_launch"
       /\ \A w \in Waves : hw[w] = "at_launch" => Known(w)
  /\ call.op = "creation" /\ call.stage \in {"update", "suspend", "body"} =>
       osMode = "normal"
  /\ call.op = "creation" /\ call.stage \in {"suspend", "body"} =>
       \A w \in Waves : hw[w] = "at_launch" => qState[QueueOf[w]] # "absent"

\* The queues a call names: it suspends none twice, and resumes only what it
\* suspended.  A queue it holds may have been swept by update_queues since; one
\* it has yet to meet is not suspended.
CallQueues ==
  /\ call.stage \in {"query", "update", "suspend"} =>
       \A q \in call.queues : qState[q] # "suspended"
  /\ call.stage = "update" => \A q \in call.new : qState[q] # "suspended"
  /\ call.stage = "body" =>
       \A q \in call.queues : qState[q] \in {"suspended", "invalid"}
  /\ \A q \in call.resume :
       \/ qState[q] \in {"suspended", "invalid"}
       \/ qState[q] = "absent" /\ osQueue[q] = "destroyed"
  /\ call.stage \in {"update", "suspend", "body"} /\ call.op # "next" =>
       call.resume = {}

\* A process that needs forward progress has no queue suspended but for the
\* call in progress, which will resume it.
ProgressDue ==
  fwd /\ fault = "none" =>
    \A q \in Queues : qState[q] = "suspended" =>
      \/ call.stage \in {"query", "update", "suspend", "resume"} /\ q \in call.resume
      \/ call.stage = "body" /\ q \in call.queues

\* Freezing suspends every queue, and a frozen process has nothing to write.
FreezeHolds ==
  /\ call.op = "freeze" =>
       /\ ~fwd
       /\ call.stage = "suspend" =>
            \A q \in Queues : Alive(q) => q \in call.queues \/ qState[q] = "suspended"
       /\ call.stage = "body" =>
            \A q \in Queues : Alive(q) => qState[q] = "suspended"
  /\ frozen =>
       /\ call.op \in {"none", "stop", "list", "next"}
       /\ dirty = {}
       /\ \A q \in Queues : Alive(q) => q \in osSusp

\* The wave that amd_dbgapi_wave_resume found stopped, with its event
\* processed, is still so when its queue is suspended, if it is still there.
ResumeTarget ==
  call.op = "resume" /\ call.stage \in {"suspend", "body"} =>
    \A w \in call.wave :
      /\ call.stage = "suspend" => Known(w)
      /\ Known(w) => wave[w].state = "stop" /\ ~LastEventIs(w, {"queued", "reported"})

\* What a call knows of the queues, and of the wave it resumes.
CallInv == CallQueues /\ ProgressDue /\ FreezeHolds

\* What the library knows of the waves.
WaveInv == CountMatches /\ RecordsLive /\ HiddenShape /\ HeldSeen /\ LaunchShown

-----------------------------------------------------------------------------
(* Calls. *)

\* A call that has suspended its queues and whose body is done.
LEMMA ReturnFields ==
  ASSUME CallType, NEW Q \in SUBSET Queues
  PROVE  \/ /\ fwd /\ Q # {}
            /\ ResumeOrReturn(Q).op = call.op /\ ResumeOrReturn(Q).stage = "resume"
            /\ ResumeOrReturn(Q).queues = {} /\ ResumeOrReturn(Q).resume = Q
         \/ /\ ~(fwd /\ Q # {})
            /\ ResumeOrReturn(Q).op = "none" /\ ResumeOrReturn(Q).stage = "idle"
            /\ ResumeOrReturn(Q).queues = {} /\ ResumeOrReturn(Q).resume = {}
<1>1. /\ IdleCall.op = "none" /\ IdleCall.stage = "idle"
      /\ IdleCall.queues = {} /\ IdleCall.resume = {}
  BY DEF IdleCall
<1>2. CASE fwd /\ Q # {}
  <2> DEFINE c == Call(call.op, "resume", {})
  <2>1. c \in Calls /\ c.op = call.op /\ c.stage = "resume" /\ c.queues = {}
    BY CallTyped DEF CallType, Calls
  <2>2. ResumeOrReturn(Q) = [c EXCEPT !.resume = Q]
    BY <1>2 DEF ResumeOrReturn
  <2> HIDE DEF c
  <2> QED BY <1>2, <2>1, <2>2 DEF Calls
<1>3. CASE ~(fwd /\ Q # {})
  BY <1>1, <1>3 DEF ResumeOrReturn
<1> QED BY <1>2, <1>3

\* How a call goes on once its queues are suspended.
LEMMA AfterSuspendFields ==
  ASSUME CallType, NEW V \in SUBSET Queues, NEW c, c = AfterSuspend(V)
  PROVE  /\ call.op = "next" /\ V # {} =>
              /\ c.op = "next" /\ c.stage = "query" /\ c.queues = {}
              /\ c.resume = call.resume \cup (IF fwd THEN V ELSE {})
         /\ call.op = "next" /\ V = {} =>
              /\ c.op = "next" /\ c.stage = "resume" /\ c.queues = {}
              /\ c.resume = call.resume
         /\ call.op \in {"stop", "resume"} =>
              /\ c.op = call.op /\ c.stage = "body" /\ c.queues = V
              /\ c.resume = call.resume /\ c.wave = call.wave
         /\ call.op \in {"creation", "freeze"} =>
              /\ c.op = call.op /\ c.stage = "body" /\ c.queues = call.queues
              /\ c.resume = call.resume
         /\ call.op \notin {"next", "stop", "resume", "creation", "freeze"} =>
              c = ResumeOrReturn(call.queues)
<1>1. CASE call.op = "next" /\ V # {}
  BY <1>1 DEF AfterSuspend, CallType, Calls
<1>2. CASE call.op = "next" /\ V = {}
  BY <1>2 DEF AfterSuspend, CallType, Calls
<1>3. CASE call.op \in {"stop", "resume"}
  BY <1>3 DEF AfterSuspend, CallType, Calls
<1>4. CASE call.op \in {"creation", "freeze"}
  BY <1>4 DEF AfterSuspend, CallType, Calls
<1>5. CASE call.op \notin {"next", "stop", "resume", "creation", "freeze"}
  BY <1>5 DEF AfterSuspend
<1> QED BY <1>1, <1>2, <1>3, <1>4, <1>5

\* What a call has when it has resumed its queues.
LEMMA AfterResumeFields ==
  /\ AfterResume.op \in {"none", "next"} /\ AfterResume.stage \in {"idle", "pop"}
  /\ AfterResume.queues = {} /\ AfterResume.resume = {}
  BY DEF AfterResume, IdleCall

\* Of the queues of a call, the ones the driver suspends, and the ones that are
\* suspended afterwards: an all-stopped queue the driver has already.
OkQueues == {q \in Sent(call.queues) : osQueue[q] = "alive"}
ValidAfter == (ValidQueues(call.queues) \ Sent(call.queues)) \cup OkQueues

\* process_t::suspend_queues suspends running queues only, which have nothing
\* in the cache.
LEMMA SuspendEffect ==
  ASSUME Inv, SuspendLive
  PROVE  /\ OkQueues \subseteq ValidAfter /\ ValidAfter \in SUBSET Queues
         /\ ValidAfter \subseteq call.queues /\ call.queues \in SUBSET Queues
         /\ call.stage = "suspend" /\ fault = "none"
         /\ \A q \in call.queues : qState[q] \in {"running", "invalid"}
         /\ \A q \in OkQueues : qState[q] = "running" /\ Alive(q) /\ q \notin osSusp
         /\ \A w \in dirty : QueueOf[w] \notin OkQueues
         /\ \A q \in Queues : qState'[q] = IF q \in ValidAfter THEN "suspended"
                                           ELSE IF q \in call.queues THEN "invalid"
                                           ELSE qState[q]
         /\ UpdateWaves(OkQueues)
         /\ osSusp' = osSusp \cup OkQueues
         /\ call' = AfterSuspend(ValidAfter)
         /\ UNCHANGED <<fwd, launchMode, frozen, fault, osQueue, osMode, hw, exited>>
<1>1. /\ call.queues \in SUBSET Queues /\ qState \in [Queues -> QueueStates]
  BY DEF Inv, TypeOK, Calls
<1>2. /\ \A q \in call.queues : qState[q] \in {"running", "invalid"}
      /\ \A w \in dirty : QueueOf[w] \notin OkQueues
  BY <1>1 DEF SuspendLive, SuspendFault, QueueStates, OkQueues
<1>3. \A q \in OkQueues : qState[q] = "running" /\ Alive(q) /\ q \notin osSusp
  BY <1>1, <1>2 DEF OkQueues, Sent, ValidQueues, Alive, Inv, Core, SuspensionAgrees
<1>4. /\ OkQueues \subseteq ValidAfter /\ ValidAfter \in SUBSET Queues
      /\ ValidAfter \subseteq call.queues
  BY <1>1 DEF OkQueues, ValidAfter, Sent, ValidQueues
<1>5. /\ call.stage = "suspend" /\ fault = "none"
      /\ \A q \in Queues : qState'[q] = IF q \in ValidAfter THEN "suspended"
                                        ELSE IF q \in call.queues THEN "invalid"
                                        ELSE qState[q]
      /\ UpdateWaves(OkQueues)
      /\ osSusp' = osSusp \cup OkQueues
      /\ call' = AfterSuspend(ValidAfter)
      /\ UNCHANGED <<fwd, launchMode, frozen, fault, osQueue, osMode, hw, exited>>
  BY DEF SuspendLive, OkQueues, ValidAfter, InStage
<1> QED BY <1>1, <1>2, <1>3, <1>4, <1>5

-----------------------------------------------------------------------------
(* Which queues a call holds. *)

\* A call goes on with what it suspended: it owes the driver every queue it
\* took, and resumes no other.
LEMMA SuspendedCall ==
  ASSUME Inv, CallInv, call.stage = "suspend", fault = "none",
         NEW V \in SUBSET Queues, V \subseteq call.queues, call' = AfterSuspend(V),
         \A q \in Queues : qState'[q] = IF q \in V THEN "suspended"
                                        ELSE IF q \in call.queues THEN "invalid"
                                        ELSE qState[q],
         \A q \in call.queues : qState[q] # "absent",
         \A q \in Queues \ V : q \in call.queues => ~Alive(q),
         dirty' = dirty \/ ~frozen,
         osSusp \subseteq osSusp', UNCHANGED <<fwd, fault, frozen, osQueue>>
  PROVE  CallInv'
<1>1. CallType /\ call.queues \in SUBSET Queues /\ call.resume \in SUBSET Queues
  BY DEF Inv, TypeOK, CallType, Calls
<1>2. \A q \in call.resume : \/ qState'[q] \in {"suspended", "invalid"}
                             \/ qState'[q] = "absent" /\ osQueue[q] = "destroyed"
  BY <1>1 DEF CallInv, CallQueues
<1>3. \A q \in call.queues : qState'[q] \in {"suspended", "invalid"}
  BY <1>1
<1>4. /\ \A q \in V : qState'[q] = "suspended"
      /\ fwd => \A q \in Queues : qState'[q] = "suspended" => q \in V \cup call.resume
  BY DEF CallInv, ProgressDue
<1>5. frozen => \A q \in Queues : Alive(q)' => q \in osSusp'
  BY DEF CallInv, FreezeHolds, Alive
<1>6. CASE call.op = "next"
  <2>1. /\ call'.op = "next" /\ call'.stage \in {"query", "resume"} /\ call'.queues = {}
        /\ call'.resume \subseteq call.resume \cup V /\ call.resume \subseteq call'.resume
        /\ fwd => V \subseteq call'.resume
    BY <1>1, <1>6, AfterSuspendFields
  <2>2. CallQueues'
    BY <1>2, <1>4, <2>1 DEF CallQueues
  <2>3. ProgressDue'
    BY <1>4, <2>1 DEF ProgressDue
  <2>4. FreezeHolds'
    BY <1>5, <2>1 DEF FreezeHolds, CallInv, Alive
  <2> QED BY <2>2, <2>3, <2>4 DEF CallInv
<1>7. CASE call.op \in {"stop", "resume"}
  <2>1. /\ call'.op = call.op /\ call'.stage = "body" /\ call'.queues = V
        /\ call'.resume = {}
    BY <1>1, <1>7, AfterSuspendFields DEF CallInv, CallQueues
  <2>2. CallQueues'
    BY <1>4, <2>1 DEF CallQueues
  <2>3. ProgressDue'
    BY <1>4, <1>7, <2>1 DEF ProgressDue, CallInv, CallQueues
  <2>4. FreezeHolds'
    BY <1>5, <1>7, <2>1 DEF FreezeHolds, CallInv, Alive
  <2> QED BY <2>2, <2>3, <2>4 DEF CallInv
<1>8. CASE call.op \in {"creation", "freeze"}
  <2>1. /\ call'.op = call.op /\ call'.stage = "body" /\ call'.queues = call.queues
        /\ call'.resume = {} /\ call.resume = {}
    BY <1>1, <1>8, AfterSuspendFields DEF CallInv, CallQueues
  <2>2. CallQueues'
    BY <1>3, <2>1 DEF CallQueues
  <2>3. ProgressDue'
    BY <1>4, <1>8, <2>1 DEF ProgressDue
  <2>4. FreezeHolds'
    BY <1>5, <1>8, <2>1 DEF FreezeHolds, CallInv, Alive
  <2> QED BY <2>2, <2>3, <2>4 DEF CallInv
<1>9. CASE call.op \notin {"next", "stop", "resume", "creation", "freeze"}
  <2>1. call' = ResumeOrReturn(call.queues) /\ call.resume = {}
    BY <1>1, <1>9, AfterSuspendFields DEF CallInv, CallQueues
  <2>2. CallQueues'
    BY <1>1, <1>3, <2>1, ReturnFields DEF CallQueues
  <2>3. ProgressDue'
    BY <1>1, <1>4, <2>1, ReturnFields DEF ProgressDue
  <2>4. FreezeHolds'
    BY <1>1, <1>5, <1>9, <2>1, ReturnFields DEF FreezeHolds, CallInv, Alive
  <2> QED BY <2>2, <2>3, <2>4 DEF CallInv
<1> QED BY <1>6, <1>7, <1>8, <1>9

\* process_t::suspend_queues keeps what calls know of their queues.
LEMMA SuspendCalls ==
  ASSUME Inv, CallInv, SuspendExited \/ SuspendLive
  PROVE  CallInv'
<1>1. CASE SuspendExited
  <2>1. /\ call.stage = "suspend" /\ fault = "none" /\ call' = AfterSuspend({})
        /\ \A q \in Queues : qState'[q] = IF q \in call.queues THEN "invalid" ELSE qState[q]
        /\ UNCHANGED <<dirty, fwd, fault, frozen, osQueue, osSusp>>
        /\ \A q \in call.queues : qState[q] # "absent"
    BY <1>1 DEF SuspendExited, InStage, extVars, SuspendFault
  <2>2. \A q \in Queues : ~Alive(q)
    BY <1>1 DEF SuspendExited, Inv, Core, Lifetimes, Alive
  <2> QED BY <2>1, <2>2, SuspendedCall
<1>2. CASE SuspendLive
  <2> USE <1>2, SuspendEffect
  <2>1. \A q \in Queues \ ValidAfter : q \in call.queues => ~Alive(q)
    BY DEF ValidAfter, OkQueues, ValidQueues, Sent, Inv, Core, Lifetimes, Alive
  <2>2. frozen => OkQueues = {}
    BY DEF CallInv, FreezeHolds
  <2>3. dirty' = dirty \/ ~frozen
    BY <2>2 DEF UpdateWaves
  <2>4. \A q \in call.queues : qState[q] # "absent"
    OBVIOUS
  <2> QED BY <2>1, <2>3, <2>4, SuspendedCall
<1> QED BY <1>1, <1>2

\* process_t::resume_queues keeps what calls know of their queues.
LEMMA ResumeCalls ==
  ASSUME Inv, CallInv, ResumeExited \/ ResumeLive
  PROVE  CallInv'
<1>1. /\ call' = AfterResume /\ ~frozen /\ call.stage = "resume" /\ fault = "none"
      /\ UNCHANGED <<fwd, fault, frozen, osQueue>>
  BY DEF ResumeExited, ResumeLive, InStage, ResumeFault
<1>2. \A q \in Queues : qState'[q] = "suspended" => qState[q] = "suspended" /\ q \notin call.resume
  BY DEF ResumeExited, ResumeLive, ValidQueues
<1>3. CallQueues'
  BY <1>1, AfterResumeFields DEF CallQueues
<1>4. ProgressDue'
  BY <1>1, <1>2 DEF CallInv, ProgressDue
<1>5. FreezeHolds'
  BY <1>1, AfterResumeFields DEF FreezeHolds
<1> QED BY <1>3, <1>4, <1>5 DEF CallInv

\* The end of the body of a call.
LEMMA ReturnCalls ==
  ASSUME Inv, CallInv, call.stage = "body", call.op # "freeze",
         call' = ResumeOrReturn(call.queues), dirty' = dirty \/ ~frozen,
         UNCHANGED <<qState, fwd, fault, frozen, osQueue, osSusp>>
  PROVE  CallInv'
<1>1. CallType /\ call.queues \in SUBSET Queues
  BY DEF Inv, TypeOK, CallType, Calls
<1>2. CallQueues'
  BY <1>1, ReturnFields DEF CallInv, CallQueues
<1>3. ProgressDue'
  BY <1>1, ReturnFields DEF CallInv, ProgressDue
<1>4. FreezeHolds'
  BY <1>1, ReturnFields DEF CallInv, FreezeHolds, Alive
<1> QED BY <1>2, <1>3, <1>4 DEF CallInv

\* An assertion that fails stops the call where it is.
LEMMA FailCalls ==
  ASSUME Inv, CallInv, NEW name, name # "none", Fail(name)
  PROVE  CallInv'
  BY DEF Fail, extVars, CallInv, CallQueues, ProgressDue, FreezeHolds, Alive

\* The bodies of the calls keep what they know of their queues.
LEMMA BodyCalls ==
  ASSUME Inv, CallInv, StopBody \/ ResumeBody \/ NormalCreationBody \/ FreezeBody
  PROVE  CallInv'
<1>1. CASE StopBody
  <2>1. PICK w \in call.wave : StopNothing(w) \/ StopRunning(w) \/ StopFails(w)
    BY <1>1 DEF StopBody
  <2>2. call.stage = "body" /\ call.op = "stop"
    BY <1>1 DEF StopBody, InStage
  <2> QED BY <2>1, <2>2, ReturnCalls, FailCalls
          DEF StopNothing, StopRunning, StopFails, extVars
<1>2. CASE ResumeBody
  <2>1. PICK w \in call.wave : ResumeNothing(w) \/ ResumeStopped(w) \/ ResumeWaveFails(w)
    BY <1>2 DEF ResumeBody
  <2>2. call.stage = "body" /\ call.op = "resume" /\ ~frozen
    BY <1>2 DEF ResumeBody, InStage, CallInv, FreezeHolds
  <2> QED BY <2>1, <2>2, ReturnCalls, FailCalls
          DEF ResumeNothing, ResumeStopped, ResumeWaveFails, extVars
<1>3. CASE NormalCreationBody
  <2>1. call.stage = "body" /\ call.op = "creation" /\ ~frozen
    BY <1>3 DEF NormalCreationBody, InStage, CallInv, FreezeHolds
  <2> QED BY <1>3, <2>1, ReturnCalls DEF NormalCreationBody, extVars
<1>4. CASE FreezeBody
  <2>1. /\ call.stage = "body" /\ call.op = "freeze" /\ call' = IdleCall /\ frozen'
        /\ UNCHANGED <<qState, fwd, fault, osQueue, osSusp>>
        /\ dirty' = dirty \ {w \in dirty : QueueOf[w] \in Queues}
    BY <1>4 DEF FreezeBody, InStage, WriteBack
  <2>2. IdleCall.op = "none" /\ IdleCall.stage = "idle" /\ IdleCall.queues = {}
        /\ IdleCall.resume = {}
    BY DEF IdleCall
  <2>3. dirty' = {}
    BY <2>1, ConstantsAssumption DEF ConstantsAssumption, Inv, TypeOK
  <2>4. \A q \in Queues : Alive(q) => q \in osSusp
    BY <2>1 DEF CallInv, FreezeHolds, Inv, Core, SuspensionAgrees
  <2>5. CallQueues' /\ ProgressDue'
    BY <2>1, <2>2 DEF CallQueues, ProgressDue, CallInv, FreezeHolds
  <2>6. FreezeHolds'
    BY <2>1, <2>2, <2>3, <2>4 DEF FreezeHolds, Alive
  <2> QED BY <2>5, <2>6 DEF CallInv
<1> QED BY <1>1, <1>2, <1>3, <1>4

\* process_t::update_queues only removes queues the driver has destroyed, and
\* adds queues that run.
LEMMA UpdateQueuesStates ==
  ASSUME TypeOK, UpdateQueues
  PROVE  \A q \in Queues :
           /\ qState'[q] = QueuesAfterUpdate[q]
           /\ qState'[q] = "suspended" => qState[q] = "suspended"
           /\ qState'[q] = qState[q] \/ (qState[q] = "absent" /\ Alive(q) /\ qState'[q] = "running")
                                     \/ (qState'[q] = "absent" /\ ~Alive(q))
           /\ Alive(q) => qState'[q] # "absent"
  BY DEF UpdateQueues, QueuesAfterUpdate, Alive

\* A call that updates the queues and then suspends them all.
LEMMA SuspendAllCalls ==
  ASSUME Inv, CallInv, UpdateQueues,
         Idle \/ (call.stage = "update" /\ call.op = "creation"),
         NEW op \in {"list", "creation", "freeze"},
         call' = Call(op, "suspend", NotSuspended(QueuesAfterUpdate)),
         op = "freeze" => ~fwd, frozen => op = "list",
         UNCHANGED <<fwd, fault, frozen, osQueue, osSusp>>
  PROVE  CallInv'
<1>1. /\ call'.op = op /\ call'.stage = "suspend" /\ call'.resume = {}
      /\ call'.queues = NotSuspended(QueuesAfterUpdate)
  <2>1. NotSuspended(QueuesAfterUpdate) \in SUBSET Queues
    BY DEF NotSuspended
  <2>2. call'.resume = {}
    BY DEF Call, IdleCall
  <2> QED BY <2>1, <2>2, CallTyped
<1>2. \A q \in Queues :
        /\ q \in call'.queues => qState'[q] \in {"running", "invalid"}
        /\ qState'[q] \in {"running", "invalid"} => q \in call'.queues
  BY <1>1, UpdateQueuesStates DEF NotSuspended, Inv
<1>3. call'.queues \subseteq Queues
  BY <1>1 DEF NotSuspended
<1>4. CallQueues'
  <2>1. call'.new = {}
    BY DEF Call, IdleCall
  <2> QED BY <1>1, <1>2, <1>3, <2>1 DEF CallQueues
<1>5. ProgressDue'
  BY <1>1, UpdateQueuesStates DEF Inv, CallInv, CallQueues, ProgressDue, Idle
<1>6. \A q \in Queues : Alive(q)' => q \in call'.queues \/ qState'[q] = "suspended"
  <2>1. \A q \in Queues : qState'[q] \in QueueStates
    BY TypeStep DEF Inv, TypeOK, UpdateQueues, QueuesAfterUpdate, QueueStates
  <2> QED BY <1>2, <2>1, UpdateQueuesStates DEF Alive, Inv, QueueStates
<1>7. frozen => dirty' = {}
  BY DEF UpdateQueues, CallInv, FreezeHolds
<1>8. FreezeHolds'
  BY <1>1, <1>6, <1>7 DEF CallInv, FreezeHolds, Alive
<1> QED BY <1>4, <1>5, <1>8 DEF CallInv

\* The calls of the client start with what they know of the queues.
LEMMA ClientCalls ==
  ASSUME Inv, CallInv, ClientStep
  PROVE  CallInv'
<1>1. ASSUME NEW w \in Waves, WaveStop(w) \/ \E c \in Commands : WaveResume(w, c.mode, c.exceptions)
      PROVE  CallInv'
  <2>1. /\ UNCHANGED <<qState, dirty, fwd, fault, frozen, osQueue, osSusp>> /\ Idle
    BY <1>1 DEF WaveStop, WaveResume, extVars
  <2>2. /\ call'.stage = "suspend" /\ call'.queues = ScopedQueues(w) /\ call'.resume = {}
        /\ call'.op = "stop" \/ (call'.op = "resume" /\ ~frozen)
    <3>1. ScopedQueues(w) \in SUBSET Queues
      BY ConstantsAssumption DEF ConstantsAssumption, ScopedQueues
    <3> DEFINE stop   == Call("stop", "suspend", ScopedQueues(w))
               resume == Call("resume", "suspend", ScopedQueues(w))
    <3>2. stop.resume = {} /\ resume.resume = {}
      BY DEF Call, IdleCall
    <3>3. /\ stop \in Calls /\ stop.op = "stop" /\ stop.stage = "suspend"
          /\ stop.queues = ScopedQueues(w)
          /\ resume \in Calls /\ resume.op = "resume" /\ resume.stage = "suspend"
          /\ resume.queues = ScopedQueues(w)
      BY <3>1, CallTyped
    <3>4. \/ call' = [stop EXCEPT !.wave = {w}]
          \/ /\ ~frozen
             /\ \E c \in Commands :
                  call' = [resume EXCEPT !.wave = {w}, !.mode = c.mode,
                                         !.exceptions = c.exceptions]
      BY <1>1 DEF WaveStop, WaveResume
    <3> HIDE DEF stop, resume
    <3> QED BY <3>2, <3>3, <3>4 DEF Calls
  <2>3. CallQueues'
    BY <2>1, <2>2 DEF CallQueues, ScopedQueues
  <2>4. ProgressDue' /\ FreezeHolds'
    BY <2>1, <2>2 DEF CallInv, ProgressDue, FreezeHolds, Idle, Alive
  <2> QED BY <2>3, <2>4 DEF CallInv
<1>2. CASE WaveList \/ Freeze
  BY <1>2, SuspendAllCalls DEF WaveList, Freeze, extVars
<1>6. CASE NormalCreation
  <2>1. /\ UNCHANGED <<qState, dirty, fwd, fault, frozen, osQueue, osSusp>>
        /\ Idle /\ ~frozen /\ call' = Call("creation", "update", {})
    BY <1>6 DEF NormalCreation
  <2> DEFINE c == Call("creation", "update", {})
  <2>2. /\ c.op = "creation" /\ c.stage = "update"
        /\ c.queues = {} /\ c.resume = {} /\ c.new = {}
    BY DEF Call, IdleCall
  <2> HIDE DEF c
  <2> QED BY <2>1, <2>2 DEF c, CallInv, CallQueues, ProgressDue, FreezeHolds, Idle
<1>3. ASSUME NEW needed \in BOOLEAN, SetProgress(needed) PROVE CallInv'
  <2>1. /\ UNCHANGED <<qState, dirty, fault, frozen, osQueue, osSusp>> /\ Idle
        /\ fwd' = needed /\ ~frozen
    BY <1>3 DEF SetProgress, extVars
  <2>2. /\ needed => /\ call'.op = "progress" /\ call'.stage = "resume" /\ call'.queues = {}
                     /\ call'.resume = {q \in Queues : qState[q] = "suspended"}
        /\ ~needed => call' = IdleCall
    <3>1. Call("progress", "resume", {}) \in Calls
      BY CallTyped
    <3> QED BY <1>3, <3>1, CallTyped DEF SetProgress, Calls
  <2>3. IdleCall.op = "none" /\ IdleCall.stage = "idle" /\ IdleCall.queues = {}
        /\ IdleCall.resume = {}
    BY DEF IdleCall
  <2>4. CallQueues' /\ ProgressDue' /\ FreezeHolds'
    BY <2>1, <2>2, <2>3 DEF CallQueues, ProgressDue, FreezeHolds
  <2> QED BY <2>4 DEF CallInv
<1>4. CASE StopCreation \/ Unfreeze \/ \E w \in Waves, n \in Slots : EventProcessed(w, n)
  <2>1. UNCHANGED <<qState, dirty, fwd, fault, osQueue, osSusp, call>>
        /\ (frozen' => frozen)
    BY <1>4 DEF StopCreation, Unfreeze, EventProcessed, extVars
  <2> QED BY <2>1 DEF CallInv, CallQueues, ProgressDue, FreezeHolds, Alive
<1>5. CASE NextPendingEvent
  <2>1. /\ UNCHANGED <<qState, dirty, fwd, fault, frozen, osQueue, osSusp>> /\ Idle
        /\ UNCHANGED call \/ call' = Call("next", "query", {})
    BY <1>5 DEF NextPendingEvent, extVars
  <2>2. /\ Call("next", "query", {}).op = "next" /\ Call("next", "query", {}).stage = "query"
        /\ Call("next", "query", {}).queues = {} /\ Call("next", "query", {}).resume = {}
    BY DEF Call, IdleCall
  <2> QED BY <2>1, <2>2 DEF CallInv, CallQueues, ProgressDue, FreezeHolds, Alive, Idle
<1> QED BY <1>1, <1>2, <1>3, <1>4, <1>5, <1>6 DEF ClientStep

\* The inferior creates no queue while the process is frozen, and destroying
\* one leaves less to suspend.
LEMMA EnvironmentCalls ==
  ASSUME Inv, CallInv, EnvironmentStep
  PROVE  CallInv'
<1>1. /\ UNCHANGED libVars
      /\ \A q \in Queues : \/ osQueue'[q] = osQueue[q]
                           \/ osQueue'[q] = "destroyed"
                           \/ osQueue'[q] = "alive" /\ osQueue[q] = "unborn" /\ HostRuns
      /\ \A q \in osSusp : q \in osSusp' \/ osQueue'[q] = "destroyed"
  BY DEF EnvironmentStep, HwLaunch, HwTrap, HwSingleStep, HwEnd, HwStep, OsCreateQueue,
         OsDestroyQueue, ProcessExit, Inv, TypeOK
<1>2. CallQueues' /\ ProgressDue'
  BY <1>1 DEF CallInv, CallQueues, ProgressDue, libVars, Inv, TypeOK, Calls
<1>3. FreezeHolds'
  BY <1>1 DEF CallInv, FreezeHolds, libVars, HostRuns, Alive
<1> QED BY <1>2, <1>3 DEF CallInv

\* Every step keeps what the call in progress knows of its queues.
LEMMA CallStep ==
  ASSUME Inv, CallInv, [Next]_vars
  PROVE  CallInv'
<1>1. CASE SuspendFails \/ ResumeFails \/ NormalCreationFails
  BY <1>1, FailCalls DEF SuspendFails, ResumeFails, NormalCreationFails
<1>2. ASSUME NEW q \in Queues, QueryDebugEvent(q) PROVE CallInv'
  <2>1. /\ UNCHANGED <<qState, dirty, fwd, fault, frozen, osQueue, osSusp>>
        /\ call.stage = "query" /\ call'.stage \in {"query", "update"}
        /\ call'.op = call.op /\ call'.resume = call.resume
        /\ \A p \in call'.queues : p \in call.queues \/ qState[p] # "suspended"
        /\ call'.stage = "update" => \A p \in call'.new : qState[p] # "suspended"
    BY <1>2 DEF QueryDebugEvent, AfterQuery, InStage, Inv, TypeOK, Calls
  <2> QED BY <2>1 DEF CallInv, CallQueues, ProgressDue, FreezeHolds, Alive, Inv, CallHolds
<1>3. CASE QueriesDone
  <2>1. /\ UNCHANGED <<qState, dirty, fwd, fault, frozen, osQueue, osSusp>>
        /\ call.stage = "query" /\ call'.stage = "suspend" /\ call'.op = call.op
        /\ call'.resume = call.resume /\ call'.queues = call.queues
    BY <1>3 DEF QueriesDone, InStage, Inv, TypeOK, Calls, extVars
  <2> QED BY <2>1 DEF CallInv, CallQueues, ProgressDue, FreezeHolds, Alive, Inv, CallHolds
<1>4. CASE TakeEvent
  <2>1. /\ UNCHANGED <<qState, dirty, fwd, fault, frozen, osQueue, osSusp>>
        /\ call.stage = "pop" /\ call' = IdleCall
    BY <1>4 DEF TakeEvent, InStage, extVars
  <2>2. IdleCall.op = "none" /\ IdleCall.stage = "idle" /\ IdleCall.queues = {}
        /\ IdleCall.resume = {}
    BY DEF IdleCall
  <2> QED BY <2>1, <2>2 DEF CallInv, CallQueues, ProgressDue, FreezeHolds, Alive
<1>5. CASE UNCHANGED vars
  BY <1>5 DEF vars, libVars, extVars, CallInv, CallQueues, ProgressDue, FreezeHolds, Alive
<1>6. CASE QueryNewQueue
  <2>1. /\ UNCHANGED <<fwd, fault, frozen, osQueue, osSusp>>
        /\ call.stage = "update" /\ call'.stage = "query"
        /\ call.op = "next" /\ call'.op = "next"
        /\ call'.resume = call.resume
        /\ call'.new = {} /\ call'.queues \subseteq call.queues \cup call.new
        /\ UpdateQueues
    BY <1>6 DEF QueryNewQueue, InStage, Inv, TypeOK, Calls, extVars
  <2>2. /\ \A p \in Queues : qState'[p] = "suspended" => qState[p] = "suspended"
        /\ \A p \in Queues : \/ qState'[p] = qState[p]
                             \/ qState[p] = "absent" /\ Alive(p)
                             \/ qState'[p] = "absent" /\ ~Alive(p)
    BY <2>1, UpdateQueuesStates DEF Inv
  <2>3. dirty' \subseteq dirty
    BY <2>1 DEF UpdateQueues
  <2>4. CallQueues'
    <3>1. call.resume \subseteq Queues /\ call.queues \cup call.new \subseteq Queues
      BY DEF Inv, TypeOK, Calls
    <3>2. \A p \in call.resume : \/ qState'[p] \in {"suspended", "invalid"}
                                 \/ qState'[p] = "absent" /\ osQueue'[p] = "destroyed"
      BY <2>1, <2>2, <3>1
         DEF CallInv, CallQueues, Inv, Core, Lifetimes, Alive, TypeOK
    <3> QED BY <2>1, <2>2, <3>1, <3>2 DEF CallInv, CallQueues
  <2>5. ProgressDue' /\ FreezeHolds'
    BY <2>1, <2>2, <2>3 DEF CallInv, ProgressDue, FreezeHolds, Alive, Inv, CallHolds
  <2> QED BY <2>4, <2>5 DEF CallInv
<1>7. CASE NormalCreationQueues
  <2>1. ~frozen
    BY <1>7 DEF NormalCreationQueues, CallInv, FreezeHolds
  <2> QED BY <1>7, <2>1, SuspendAllCalls DEF NormalCreationQueues, InStage, extVars
<1> QED BY <1>1, <1>2, <1>3, <1>4, <1>5, <1>6, <1>7, SuspendCalls, ResumeCalls, BodyCalls,
           ClientCalls, EnvironmentCalls
        DEF Next, LibraryStep

-----------------------------------------------------------------------------
(* What update_queues, update_waves and write_back do to one wave. *)

\* process_t::update_queues destroys the waves of the queues that are gone.
LEMMA UpdateQueuesEffect ==
  ASSUME TypeOK, UpdateQueues
  PROVE  /\ \A q \in Queues : wavesRunning'[q] = IF ~Alive(q) \/ qState[q] = "absent"
                                                   THEN NoCount ELSE wavesRunning[q]
         /\ \A w \in Waves : wave'[w] = IF ~Alive(QueueOf[w]) /\ Known(w)
                                          THEN NoWave ELSE wave[w]
         /\ \A w \in Waves : w \in dirty' <=> w \in dirty /\ ~(~Alive(QueueOf[w]) /\ Known(w))
         /\ NoWave.state = "absent"
  BY ConstantsAssumption
     DEF UpdateQueues, Alive, NoWave, NewWave, ConstantsAssumption

\* aql_queue_t::update_waves visits the waves of the queues of Q.
LEMMA UpdateWavesEffect ==
  ASSUME TypeOK, NEW Q \in SUBSET Queues, UpdateWaves(Q)
  PROVE  /\ \A w \in Waves : wave'[w] =
              IF QueueOf[w] \in Q /\ Present(w) THEN Updated(w)
              ELSE IF QueueOf[w] \in Q /\ Known(w) THEN NoWave
              ELSE wave[w]
         /\ \A w \in Waves : w \in dirty' <=>
              \/ w \in dirty /\ ~(QueueOf[w] \in Q /\ ~Present(w) /\ Known(w))
              \/ QueueOf[w] \in Q /\ Present(w) /\ ~Known(w)
         /\ \A q \in Queues \ Q : wavesRunning'[q] = wavesRunning[q]
         /\ NoWave.state = "absent"
  BY DEF UpdateWaves, NoWave, NewWave

\* The wave_t after update_waves, by what the library knew and what it reads.
LEMMA UpdatedFields ==
  ASSUME TypeOK, NEW w \in Waves
  PROVE  /\ Updated(w) \in WaveRecord /\ Updated(w).state # "absent"
         /\ Known(w) /\ (wave[w].state = "stop" \/ ~Trapped(w)) => Updated(w) = wave[w]
         /\ Known(w) /\ wave[w].state # "stop" /\ Trapped(w) =>
              /\ Updated(w).state = "stop" /\ Updated(w).vis = wave[w].vis
              /\ Updated(w).last = IF wave[w].vis = "visible" THEN FreshSlot(w)
                                                              ELSE wave[w].last
         /\ ~Known(w) /\ hw[w] = "at_launch" =>
              /\ Updated(w).state = "stop" /\ Updated(w).vis = "at_launch"
              /\ Updated(w).last = NoSlot
         /\ ~Known(w) /\ Trapped(w) =>
              /\ Updated(w).state = "stop" /\ Updated(w).vis = "visible"
              /\ Updated(w).last = FreshSlot(w)
         /\ ~Known(w) /\ hw[w] # "at_launch" /\ ~Trapped(w) =>
              /\ Updated(w).state = "run" /\ Updated(w).vis = "visible"
              /\ Updated(w).last = NoSlot
<1> DEFINE cur == IF Known(w) THEN wave[w] ELSE NewWave
<1>1. /\ NewWave \in WaveRecord /\ NewWave.state = "run" /\ NewWave.vis = "visible"
      /\ NewWave.last = NoSlot
  BY DEF NewWave, WaveRecord, NoSlot
<1>2. /\ cur \in WaveRecord /\ cur.state # "absent"
      /\ Known(w) => cur = wave[w]
      /\ ~Known(w) => cur = NewWave
  BY <1>1 DEF TypeOK, Known
<1>3. Updated(w) = IF HaltedAtLaunch(w)
                     THEN [cur EXCEPT !.state = "stop", !.vis = "at_launch",
                                      !.stopReq = TRUE]
                   ELSE IF NewlyStopped(w)
                     THEN [cur EXCEPT !.state = "stop",
                             !.reason = IF hw[w] = "stepped" THEN "step"
                                                             ELSE "trap",
                             !.last = IF cur.vis = "visible" THEN FreshSlot(w)
                                                             ELSE cur.last]
                   ELSE cur
  BY DEF Updated
<1>4. Updated(w) \in WaveRecord
  BY UpdatedType, TypeParts
<1> HIDE DEF cur
<1>5. CASE HaltedAtLaunch(w)
  <2>1. /\ Updated(w).state = "stop" /\ Updated(w).vis = "at_launch"
        /\ Updated(w).last = cur.last
    BY <1>2, <1>3, <1>5 DEF WaveRecord
  <2> QED BY <1>1, <1>2, <1>4, <1>5, <2>1 DEF HaltedAtLaunch, Trapped
<1>6. CASE ~HaltedAtLaunch(w) /\ NewlyStopped(w)
  <2>1. /\ Updated(w).state = "stop" /\ Updated(w).vis = cur.vis
        /\ Updated(w).last = IF cur.vis = "visible" THEN FreshSlot(w) ELSE cur.last
    BY <1>2, <1>3, <1>6 DEF WaveRecord
  <2>2. wave[w].state # "stop" /\ Trapped(w) /\ hw[w] # "at_launch"
    BY <1>6 DEF NewlyStopped, Trapped
  <2> QED BY <1>1, <1>2, <1>4, <2>1, <2>2
<1>7. CASE ~HaltedAtLaunch(w) /\ ~NewlyStopped(w)
  <2>1. Updated(w) = cur
    BY <1>3, <1>7
  <2> QED BY <1>1, <1>2, <1>4, <1>7, <2>1 DEF NewlyStopped, HaltedAtLaunch, Known
<1> QED BY <1>5, <1>6, <1>7

\* memory_cache_t::write_back leaves a wave neither trapped nor at its launch.
LEMMA WriteBackEffect ==
  ASSUME TypeOK, NEW Q, WriteBack(Q), NEW w \in Waves
  PROVE  /\ w \in dirty' <=> w \in dirty /\ QueueOf[w] \notin Q
         /\ \/ /\ w \in dirty /\ QueueOf[w] \in Q /\ Present(w)
               /\ hw'[w] \in {"stopped", "halted", "stepping", "ending", "running"}
               /\ wave[w].state = "run" /\ wave[w].vis = "terminating" =>
                    hw'[w] \in {"halted", "ending"}
            \/ /\ ~(w \in dirty /\ QueueOf[w] \in Q /\ Present(w))
               /\ hw'[w] = hw[w]
<1>1. w \in dirty' <=> w \in dirty /\ QueueOf[w] \notin Q
  BY DEF WriteBack
<1>2. hw'[w] = IF w \in dirty /\ QueueOf[w] \in Q /\ Present(w) THEN Registers(w) ELSE hw[w]
  BY DEF WriteBack
<1>3. /\ Registers(w) \in {"stopped", "halted", "stepping", "ending", "running"}
      /\ wave[w].state = "run" /\ wave[w].vis = "terminating" =>
           Registers(w) \in {"halted", "ending"}
  BY DEF Registers
<1> QED BY <1>1, <1>2, <1>3

\* The count of a queue whose waves are untouched.
LEMMA CountKept ==
  ASSUME CountMatches, NEW q \in Queues, wavesRunning'[q] = wavesRunning[q],
         \A w \in Waves : QueueOf[w] = q => wave'[w] = wave[w]
  PROVE  wavesRunning'[q] # NoCount =>
           wavesRunning'[q] = Cardinality(RunningWaves(q)')
<1>1. RunningWaves(q)' = RunningWaves(q)
  BY DEF RunningWaves, Known
<1> QED BY <1>1 DEF CountMatches, RunningWaves

\* CountMatches, with the set it counts.
LEMMA CountParts ==
  /\ CountMatches <=> \A q \in Queues : wavesRunning[q] # NoCount =>
                        wavesRunning[q] = Cardinality(RunningWaves(q))
  /\ CountMatches' <=> \A q \in Queues : wavesRunning'[q] # NoCount =>
                         wavesRunning'[q] = Cardinality(RunningWaves(q)')
  BY DEF CountMatches, RunningWaves

-----------------------------------------------------------------------------
(* What the library knows of the waves. *)

\* What WaveInv is about, but for the call.
waveVars == <<wavesRunning, wave, dirty, hw, osQueue, osSusp, launchMode, osMode>>

\* A step that touches no wave and no queue of the driver.
LEMMA WaveUnchanged ==
  ASSUME WaveInv, UNCHANGED waveVars,
         call'.op # "creation" \/ call'.stage \notin {"update", "suspend", "body"}
           \/ UNCHANGED <<call, qState>>
  PROVE  WaveInv'
  BY DEF WaveInv, waveVars, CountMatches, RecordsLive, HiddenShape, HeldSeen, LaunchShown,
         Known, Present, Alive, Trapped

\* process_t::update_queues keeps what the library knows of the waves it keeps.
LEMMA UpdateQueuesWaves ==
  ASSUME Inv, WaveInv, UpdateQueues, UNCHANGED <<hw, osQueue, osSusp, launchMode, osMode>>,
         call'.op = "creation" /\ call'.stage \in {"update", "suspend", "body"} =>
           osMode' = "normal"
  PROVE  WaveInv'
<1> USE ConstantsAssumption DEF ConstantsAssumption
<1>1. TypeOK
  BY DEF Inv
<1>2. ASSUME NEW w \in Waves, Known(w)'
      PROVE  Known(w) /\ wave'[w] = wave[w] /\ Alive(QueueOf[w]) /\ (w \in dirty' <=> w \in dirty)
  BY <1>1, <1>2, UpdateQueuesEffect DEF Known
<1>3. ASSUME NEW w \in Waves, Alive(QueueOf[w])
      PROVE  wave'[w] = wave[w] /\ (w \in dirty' <=> w \in dirty)
  BY <1>1, <1>3, UpdateQueuesEffect
<1>4. CountMatches'
  <2>1. ASSUME NEW q \in Queues, wavesRunning'[q] # NoCount
        PROVE  wavesRunning'[q] = Cardinality(RunningWaves(q)')
    <3>1. Alive(q) /\ wavesRunning'[q] = wavesRunning[q]
      BY <1>1, <2>1, UpdateQueuesEffect
    <3> QED BY <1>3, <2>1, <3>1, CountKept DEF WaveInv
  <2> QED BY <2>1, CountParts
<1>5. RecordsLive'
  BY <1>2 DEF WaveInv, RecordsLive, Present, Alive
<1>6. HiddenShape'
  BY <1>2 DEF WaveInv, HiddenShape
<1>7. HeldSeen'
  BY <1>3 DEF WaveInv, HeldSeen, RecordsLive, Present, Known, Trapped
<1>8. LaunchShown'
  <2>1. \A w \in Waves : hw[w] = "at_launch" => Alive(QueueOf[w])
    BY DEF WaveInv, RecordsLive, Present
  <2>2. \A w \in Waves : hw[w] = "at_launch" => qState'[QueueOf[w]] # "absent"
    BY <1>1, <2>1, UpdateQueuesStates
  <2>3. launchMode' = "normal" => \A w \in Waves : hw'[w] = "at_launch" => Known(w)'
    BY <1>3, <2>1 DEF WaveInv, LaunchShown, Known
  <2>4. launchMode' = "normal" => \A w \in Waves : Known(w)' => wave'[w].vis # "at_launch"
    BY <1>2 DEF WaveInv, LaunchShown
  <2>5. launchMode' = "normal" => osMode' = "normal"
    BY DEF WaveInv, LaunchShown
  <2> QED BY <2>2, <2>3, <2>4, <2>5 DEF LaunchShown
<1> QED BY <1>4, <1>5, <1>6, <1>7, <1>8 DEF WaveInv

\* aql_queue_t::update_waves counts the waves it finds running, and sees every
\* wave of the queues the driver now holds.
LEMMA SuspendWaves ==
  ASSUME Inv, WaveInv, SuspendLive
  PROVE  WaveInv'
<1> USE ConstantsAssumption DEF ConstantsAssumption
<1> DEFINE ok == OkQueues
<1>1. TypeOK
  BY DEF Inv
<1>2. /\ ok \in SUBSET Queues /\ UpdateWaves(ok) /\ osSusp' = osSusp \cup ok
      /\ UNCHANGED <<launchMode, osQueue, osMode, hw>>
      /\ \A q \in ok : Alive(q)
      /\ \A w \in dirty : QueueOf[w] \notin ok
  BY SuspendEffect
<1> HIDE DEF ok
<1>3. /\ \A w \in Waves : wave'[w] =
           IF QueueOf[w] \in ok /\ Present(w) THEN Updated(w)
           ELSE IF QueueOf[w] \in ok /\ Known(w) THEN NoWave
           ELSE wave[w]
      /\ \A w \in Waves : w \in dirty' <=>
           \/ w \in dirty /\ ~(QueueOf[w] \in ok /\ ~Present(w) /\ Known(w))
           \/ QueueOf[w] \in ok /\ Present(w) /\ ~Known(w)
      /\ \A q \in Queues \ ok : wavesRunning'[q] = wavesRunning[q]
      /\ NoWave.state = "absent"
  BY <1>1, <1>2, UpdateWavesEffect
<1>4. ASSUME NEW w \in Waves, QueueOf[w] \notin ok
      PROVE  wave'[w] = wave[w] /\ (w \in dirty' <=> w \in dirty)
  BY <1>3, <1>4
<1>5. ASSUME NEW w \in Waves, QueueOf[w] \in ok
      PROVE  /\ Present(w) => wave'[w] = Updated(w) /\ Known(w)' /\ (w \in dirty' <=> ~Known(w))
             /\ ~Present(w) => ~Known(w)'
  BY <1>1, <1>2, <1>3, <1>5, UpdatedFields DEF Known
<1>6. CountMatches'
  <2>1. ASSUME NEW q \in ok
        PROVE  wavesRunning'[q] = Cardinality(RunningWaves(q)')
    <3> DEFINE S == {w \in {w \in Waves : QueueOf[w] \in ok /\ Present(w)} :
                        QueueOf[w] = q /\ Updated(w).state # "stop"}
    <3>1. wavesRunning'[q] = Cardinality(S)
      BY <1>2, <2>1 DEF UpdateWaves
    <3>2. RunningWaves(q)' = S
      BY <1>5, <2>1 DEF RunningWaves
    <3> QED BY <3>1, <3>2
  <2>2. ASSUME NEW q \in Queues \ ok, wavesRunning'[q] # NoCount
        PROVE  wavesRunning'[q] = Cardinality(RunningWaves(q)')
    BY <1>3, <1>4, <2>2, CountKept DEF WaveInv
  <2> QED BY <2>1, <2>2, CountParts
<1>7. RecordsLive'
  BY <1>2, <1>4, <1>5 DEF WaveInv, RecordsLive, Present, Alive, Known
<1>8. HiddenShape'
  <2> SUFFICES ASSUME NEW w \in Waves, Known(w)'
               PROVE  /\ wave'[w].vis = "at_launch" => wave'[w].state = "stop"
                      /\ wave'[w].vis = "terminating" =>
                           /\ wave'[w].state = "run"
                           /\ w \in dirty' \/ hw'[w] \in {"ending", "halted", "ended"}
    BY DEF HiddenShape
  <2>1. CASE QueueOf[w] \notin ok
    BY <1>2, <1>4, <2>1 DEF WaveInv, HiddenShape, Known
  <2>2. CASE QueueOf[w] \in ok /\ ~Known(w)
    BY <1>1, <1>5, <2>2, UpdatedFields
  <2>3. CASE QueueOf[w] \in ok /\ Known(w)
    BY <1>1, <1>2, <1>5, <2>3, UpdatedFields DEF WaveInv, HiddenShape, Trapped
  <2> QED BY <2>1, <2>2, <2>3
<1>9. HeldSeen'
  <2> SUFFICES ASSUME NEW w \in Waves, QueueOf[w] \in osSusp', Present(w)'
               PROVE  /\ Known(w)'
                      /\ Trapped(w)' /\ w \notin dirty' => wave'[w].state = "stop"
    BY DEF HeldSeen
  <2>1. Present(w) /\ (Trapped(w)' => Trapped(w))
    BY <1>2 DEF Present, Trapped
  <2>2. CASE QueueOf[w] \in ok
    BY <1>1, <1>5, <2>1, <2>2, UpdatedFields
  <2>3. CASE QueueOf[w] \notin ok
    BY <1>2, <1>4, <2>1, <2>3 DEF WaveInv, HeldSeen, Known
  <2> QED BY <2>2, <2>3
<1>10. LaunchShown'
  <2>1. ASSUME launchMode = "normal"
        PROVE  /\ \A w \in Waves : Known(w)' => wave'[w].vis # "at_launch"
               /\ \A w \in Waves : hw'[w] = "at_launch" => Known(w)'
    <3> SUFFICES ASSUME NEW w \in Waves
                 PROVE  /\ Known(w)' => wave'[w].vis # "at_launch"
                        /\ hw'[w] = "at_launch" => Known(w)'
      OBVIOUS
    <3>1. /\ Known(w) => wave[w].vis # "at_launch"
          /\ hw[w] = "at_launch" => Known(w) /\ Present(w)
      BY <2>1 DEF WaveInv, LaunchShown, Present
    <3>2. CASE QueueOf[w] \notin ok
      BY <1>2, <1>4, <3>1, <3>2 DEF Known
    <3>3. CASE QueueOf[w] \in ok
      BY <1>1, <1>2, <1>5, <3>1, <3>3, UpdatedFields
    <3> QED BY <3>2, <3>3
  <2>2. /\ call.stage = "suspend"
        /\ call'.op = "creation" /\ call'.stage \in {"update", "suspend", "body"} =>
          call.op = "creation" /\ call'.stage # "update"
    BY SuspendEffect, AfterSuspendFields, ReturnFields DEF Inv, TypeOK, CallType, Calls
  <2>3. \A q \in Queues : qState[q] # "absent" => qState'[q] # "absent"
    BY SuspendEffect
  <2> QED BY <1>2, <2>1, <2>2, <2>3 DEF WaveInv, LaunchShown
<1> QED BY <1>6, <1>7, <1>8, <1>9, <1>10 DEF WaveInv

\* memory_cache_t::write_back changes what registers say, and not what the
\* library believes.
LEMMA WriteBackWaves ==
  ASSUME Inv, WaveInv, NEW Q, WriteBack(Q),
         UNCHANGED <<wave, osQueue, launchMode, osMode>>,
         osSusp' \subseteq osSusp,
         \A q \in Queues : wavesRunning'[q] \in {NoCount, wavesRunning[q]},
         call'.stage \notin {"update", "suspend", "body"}
  PROVE  WaveInv'
<1> USE ConstantsAssumption DEF ConstantsAssumption
<1>1. TypeOK
  BY DEF Inv
<1>2. ASSUME NEW w \in Waves
      PROVE  /\ Present(w)' => Present(w)
             /\ hw'[w] = "unborn" => hw[w] = "unborn"
             /\ hw'[w] = "at_launch" => hw[w] = "at_launch"
             /\ Known(w)' <=> Known(w)
  BY <1>1, WriteBackEffect DEF Present, Known
<1>3. CountMatches'
  BY CountKept, CountParts DEF WaveInv
<1>4. RecordsLive'
  BY <1>2 DEF WaveInv, RecordsLive, Alive
<1>5. HiddenShape'
  <2> SUFFICES ASSUME NEW w \in Waves, Known(w), wave[w].vis = "terminating", w \notin dirty'
               PROVE  hw'[w] \in {"ending", "halted", "ended"}
    BY <1>2 DEF WaveInv, HiddenShape
  <2>1. /\ wave[w].state = "run" /\ hw[w] # "unborn"
        /\ w \in dirty \/ hw[w] \in {"ending", "halted", "ended"}
    BY DEF WaveInv, HiddenShape, RecordsLive
  <2> QED BY <1>1, <2>1, WriteBackEffect DEF Present
<1>6. HeldSeen'
  <2> SUFFICES ASSUME NEW w \in Waves, QueueOf[w] \in osSusp', Present(w)'
               PROVE  /\ Known(w)'
                      /\ Trapped(w)' /\ w \notin dirty' => wave'[w].state = "stop"
    BY DEF HeldSeen
  <2>1. Present(w) /\ Known(w) /\ (Trapped(w) /\ w \notin dirty => wave[w].state = "stop")
    BY <1>2 DEF WaveInv, HeldSeen
  <2>2. Trapped(w)' /\ w \notin dirty' => Trapped(w) /\ w \notin dirty
    BY <1>1, <2>1, WriteBackEffect DEF Trapped
  <2> QED BY <1>2, <2>1, <2>2
<1>7. LaunchShown'
  BY <1>2 DEF WaveInv, LaunchShown
<1> QED BY <1>3, <1>4, <1>5, <1>6, <1>7 DEF WaveInv

\* process_t::resume_queues and process_t::freeze write the cache back.
LEMMA ResumeWaves ==
  ASSUME Inv, WaveInv, ResumeExited \/ ResumeLive \/ FreezeBody
  PROVE  WaveInv'
<1>1. /\ AfterResume.stage \notin {"update", "suspend", "body"}
      /\ IdleCall.stage \notin {"update", "suspend", "body"}
  BY AfterResumeFields DEF IdleCall
<1>2. CASE ResumeExited
  BY <1>1, <1>2, WriteBackWaves DEF ResumeExited, CountsAfterResume
<1>3. CASE ResumeLive
  BY <1>1, <1>3, WriteBackWaves DEF ResumeLive, CountsAfterResume
<1>4. CASE FreezeBody
  BY <1>1, <1>4, WriteBackWaves DEF FreezeBody
<1> QED BY <1>2, <1>3, <1>4

\* wave_t::set_state on one wave keeps what the library knows of the waves if
\* the count follows.
LEMMA SetStateWaves ==
  ASSUME Inv, WaveInv, NEW w \in Waves, Found(w), Known(w)',
         UNCHANGED <<osQueue, osSusp, hw, launchMode, osMode>>,
         \A x \in Waves \ {w} : wave'[x] = wave[x],
         wave'[w].vis = "visible" \/ (wave'[w].vis = "terminating" /\ wave'[w].state = "run"),
         \A q \in Queues \ {QueueOf[w]} : wavesRunning'[q] = wavesRunning[q],
         dirty' = dirty \cup {w},
         wavesRunning'[QueueOf[w]] = Cardinality(RunningWaves(QueueOf[w])'),
         call'.stage \notin {"update", "suspend", "body"}
  PROVE  WaveInv'
<1> USE ConstantsAssumption DEF ConstantsAssumption
<1>1. CountMatches'
  <2>1. ASSUME NEW q \in Queues \ {QueueOf[w]}, wavesRunning'[q] # NoCount
        PROVE  wavesRunning'[q] = Cardinality(RunningWaves(q)')
    BY <2>1, CountKept DEF WaveInv
  <2> QED BY <2>1, CountParts
<1>2. RecordsLive'
  BY DEF WaveInv, RecordsLive, Known, Present, Alive, Found
<1>3. HiddenShape'
  BY DEF WaveInv, HiddenShape, Known
<1>4. HeldSeen'
  BY DEF WaveInv, HeldSeen, Known, Present, Trapped
<1>5. LaunchShown'
  BY DEF WaveInv, LaunchShown, Known
<1> QED BY <1>1, <1>2, <1>3, <1>4, <1>5 DEF WaveInv

\* The part of amd_dbgapi_wave_stop after its suspension: the count goes down
\* by the wave that stops.
LEMMA StopWaves ==
  ASSUME Inv, WaveInv, NEW w \in Waves, StopRunning(w)
  PROVE  WaveInv'
<1> USE ConstantsAssumption DEF ConstantsAssumption
<1> DEFINE q == QueueOf[w]
<1>1. /\ Found(w) /\ wave[w].state # "stop" /\ q \in Queues
      /\ wavesRunning[q] \in Nat /\ wavesRunning[q] # 0
      /\ wavesRunning'[q] = wavesRunning[q] - 1
  BY DEF StopRunning, StopFault, Inv, TypeOK
<1>2. /\ wave[w] \in WaveRecord /\ wave'[w] = Stopped(w)
      /\ \A x \in Waves \ {w} : wave'[x] = wave[x]
  BY DEF StopRunning, Inv, TypeOK
<1>3. wave'[w].state = "stop" /\ wave'[w].vis = "visible"
  BY <1>1, <1>2 DEF Stopped, WaveRecord, Found
<1>4. RunningWaves(q)' = RunningWaves(q) \ {w}
  BY <1>2, <1>3 DEF RunningWaves, Known
<1>5. wavesRunning'[q] = Cardinality(RunningWaves(q)')
  <2>1. w \in RunningWaves(q) /\ RunningWaves(q) \in SUBSET Waves
    BY <1>1 DEF RunningWaves, Found
  <2>2. IsFiniteSet(RunningWaves(q))
    BY <2>1, WavesFinite
  <2>3. Cardinality(RunningWaves(q) \ {w}) = Cardinality(RunningWaves(q)) - 1
    BY <2>1, <2>2, FS_RemoveElement
  <2>4. wavesRunning[q] = Cardinality(RunningWaves(q))
    BY <1>1, CountParts DEF WaveInv, NoCount
  <2> QED BY <1>1, <1>4, <2>3, <2>4
<1>6. /\ UNCHANGED <<osQueue, osSusp, hw, launchMode, osMode>>
      /\ dirty' = dirty \cup {w}
      /\ \A p \in Queues \ {q} : wavesRunning'[p] = wavesRunning[p]
  BY DEF StopRunning, extVars, Inv, TypeOK
<1>7. call'.stage \notin {"update", "suspend", "body"}
  BY ReturnStages DEF StopRunning, Inv, TypeOK, CallType
<1>8. Known(w)'
  BY <1>3 DEF Known
<1> HIDE DEF q
<1> QED BY <1>1, <1>2, <1>3, <1>5, <1>6, <1>7, <1>8, SetStateWaves DEF q

\* The wave amd_dbgapi_wave_resume resumes, by the way it goes on.
LEMMA ResumedFields ==
  ASSUME TypeOK, NEW w \in Waves, NEW mode \in ResumeModes, NEW exceptions \in BOOLEAN
  PROVE  /\ mode = "simulate" =>
              /\ Resumed(w, mode, exceptions).state = "stop"
              /\ Resumed(w, mode, exceptions).vis = wave[w].vis
              /\ Resumed(w, mode, exceptions).last = FreshSlot(w)
         /\ mode = "terminate" =>
              /\ Resumed(w, mode, exceptions).state = "run"
              /\ Resumed(w, mode, exceptions).vis = "terminating"
              /\ Resumed(w, mode, exceptions).last = FreshSlot(w)
         /\ mode \in {"run", "step"} =>
              /\ Resumed(w, mode, exceptions).state = mode
              /\ Resumed(w, mode, exceptions).vis = wave[w].vis
              /\ Resumed(w, mode, exceptions).last = NoSlot
<1> DEFINE clear == [wave[w] EXCEPT !.stopReq = FALSE, !.reason = "none",
                                    !.last = NoSlot]
<1>1. /\ clear \in WaveRecord /\ clear.vis = wave[w].vis /\ clear.last = NoSlot
  BY DEF TypeOK, WaveRecord
<1>2. CASE mode = "simulate"
  <2>1. Resumed(w, mode, exceptions) =
          [clear EXCEPT !.state = "stop", !.reason = "step", !.last = FreshSlot(w)]
    BY <1>2 DEF Resumed
  <2> HIDE DEF clear
  <2> QED BY <1>1, <1>2, <2>1 DEF WaveRecord
<1>3. CASE mode = "terminate"
  <2>1. Resumed(w, mode, exceptions) =
          [clear EXCEPT !.state = "run", !.vis = "terminating", !.last = FreshSlot(w)]
    BY <1>3 DEF Resumed
  <2> HIDE DEF clear
  <2> QED BY <1>1, <1>3, <2>1 DEF WaveRecord
<1>4. CASE mode \in {"run", "step"}
  <2>1. Resumed(w, mode, exceptions) =
          [clear EXCEPT !.state = mode, !.halted = @ \/ exceptions]
    BY <1>4 DEF Resumed
  <2> HIDE DEF clear
  <2> QED BY <1>1, <1>4, <2>1 DEF WaveRecord
<1> QED BY <1>2, <1>3, <1>4 DEF ResumeModes

\* The part of amd_dbgapi_wave_resume after its suspension: the count goes up
\* by the wave that runs, unless its step was simulated.
LEMMA ResumeStoppedWaves ==
  ASSUME Inv, WaveInv, NEW w \in Waves, ResumeStopped(w)
  PROVE  WaveInv'
<1> USE ConstantsAssumption DEF ConstantsAssumption
<1> DEFINE q == QueueOf[w]
           r == Resumed(w, BodyMode, call.exceptions)
<1>1. /\ Found(w) /\ wave[w].state = "stop" /\ q \in Queues
      /\ wavesRunning[q] \in Nat
      /\ wavesRunning'[q] = CountResumed(w)
  BY DEF ResumeStopped, ResumeWaveFault, Inv, TypeOK
<1>2. /\ wave'[w] = r /\ \A x \in Waves \ {w} : wave'[x] = wave[x]
  BY DEF ResumeStopped, Inv, TypeOK
<1>3. BodyMode \in ResumeModes /\ call.exceptions \in BOOLEAN
  BY DEF Inv, TypeOK, Calls, BodyMode, ResumeModes
<1>4. /\ BodyMode = "simulate" => r.state = "stop" /\ r.vis = "visible"
      /\ BodyMode = "terminate" => r.state = "run" /\ r.vis = "terminating"
      /\ BodyMode \in {"run", "step"} => r.state = BodyMode /\ r.vis = "visible"
  BY <1>1, <1>3, ResumedFields DEF Inv, Found
<1> HIDE DEF r
<1>5. RunningWaves(q)' = IF BodyMode = "simulate" THEN RunningWaves(q)
                                                  ELSE RunningWaves(q) \cup {w}
  BY <1>1, <1>2, <1>3, <1>4 DEF RunningWaves, Known, ResumeModes
<1>6. wavesRunning'[q] = Cardinality(RunningWaves(q)')
  <2>1. w \notin RunningWaves(q) /\ RunningWaves(q) \in SUBSET Waves
    BY <1>1 DEF RunningWaves
  <2>2. IsFiniteSet(RunningWaves(q))
    BY <2>1, WavesFinite
  <2>3. Cardinality(RunningWaves(q) \cup {w}) = Cardinality(RunningWaves(q)) + 1
    BY <2>1, <2>2, FS_AddElement
  <2>4. wavesRunning[q] = Cardinality(RunningWaves(q))
    BY <1>1, CountParts DEF WaveInv, NoCount
  <2> QED BY <1>1, <1>5, <2>3, <2>4 DEF CountResumed
<1>7. /\ UNCHANGED <<osQueue, osSusp, hw, launchMode, osMode>>
      /\ dirty' = dirty \cup {w}
      /\ \A p \in Queues \ {q} : wavesRunning'[p] = wavesRunning[p]
  BY DEF ResumeStopped, extVars, Inv, TypeOK
<1>8. call'.stage \notin {"update", "suspend", "body"}
  BY ReturnStages DEF ResumeStopped, Inv, TypeOK, CallType
<1>9. Known(w)'
  BY <1>2, <1>3, <1>4 DEF Known, ResumeModes
<1> HIDE DEF q
<1>10. wave'[w].vis = "visible" \/ (wave'[w].vis = "terminating" /\ wave'[w].state = "run")
  BY <1>2, <1>3, <1>4 DEF ResumeModes
<1> QED BY <1>1, <1>2, <1>6, <1>7, <1>8, <1>9, <1>10, SetStateWaves DEF q

\* process_t::set_wave_launch_mode: every queue that existed when the driver got
\* the new mode is suspended by now, so that no wave at its launch is unknown.
LEMMA CreationWaves ==
  ASSUME Inv, WaveInv, NormalCreationBody
  PROVE  WaveInv'
<1> USE ConstantsAssumption DEF ConstantsAssumption
<1>1. /\ call.op = "creation" /\ call.stage = "body" /\ HiddenFault = "none"
      /\ UNCHANGED <<qState, osQueue, osSusp, osMode, hw>>
      /\ launchMode' = "normal" /\ dirty' = dirty \cup Hidden
      /\ \A w \in Waves \ Hidden : wave'[w] = wave[w]
  BY DEF NormalCreationBody, InStage, extVars
<1>2. \A w \in Hidden : w \in Waves /\ Known(w) /\ wave[w].state = "stop"
  BY DEF Hidden, WaveInv, HiddenShape
<1>3. \A w \in Hidden : wave'[w].state = "run" /\ wave'[w].vis = "visible"
  <2>1. ASSUME NEW w \in Hidden PROVE wave'[w].state = "run" /\ wave'[w].vis = "visible"
    <3>1. w \in Waves /\ wave[w] \in WaveRecord
      BY <1>2 DEF Inv, TypeOK
    <3>2. wave'[w] = [wave[w] EXCEPT !.state = "run", !.vis = "visible", !.stopReq = FALSE,
                                     !.reason = "none", !.last = NoSlot]
      BY <3>1 DEF NormalCreationBody
    <3> QED BY <3>1, <3>2 DEF WaveRecord
  <2> QED BY <2>1
<1>4. \A w \in Waves : Known(w)' <=> Known(w)
  BY <1>1, <1>2, <1>3 DEF Known
<1>5. CountMatches'
  <2>1. ASSUME NEW q \in Queues, wavesRunning'[q] # NoCount
        PROVE  wavesRunning'[q] = Cardinality(RunningWaves(q)')
    <3> DEFINE H == {w \in Hidden : QueueOf[w] = q}
    <3>1. wavesRunning'[q] = wavesRunning[q] + Cardinality(H)
      BY DEF NormalCreationBody
    <3>2. wavesRunning[q] # NoCount
      <4> SUFFICES ASSUME wavesRunning[q] = NoCount PROVE FALSE
        OBVIOUS
      <4>1. H = {}
        BY <1>1 DEF HiddenFault
      <4>2. Cardinality(H) = 0
        BY <4>1, FS_EmptySet
      <4>3. wavesRunning'[q] = NoCount + 0
        BY <3>1, <4>2
      <4> QED BY <2>1, <4>3 DEF NoCount
    <3>3. wavesRunning[q] = Cardinality(RunningWaves(q))
      BY <3>2, CountParts DEF WaveInv
    <3>4. RunningWaves(q)' = RunningWaves(q) \cup H
      BY <1>1, <1>2, <1>3, <1>4 DEF RunningWaves
    <3>5. RunningWaves(q) \cap H = {}
      BY <1>2 DEF RunningWaves
    <3>6. RunningWaves(q) \in SUBSET Waves /\ H \in SUBSET Waves
      BY <1>2 DEF RunningWaves
    <3> HIDE DEF H
    <3>7. /\ IsFiniteSet(RunningWaves(q)) /\ IsFiniteSet(H)
          /\ Cardinality(RunningWaves(q)) \in Nat /\ Cardinality(H) \in Nat
      BY <3>6, WavesFinite
    <3>8. Cardinality(RunningWaves(q) \cup H) =
            Cardinality(RunningWaves(q)) + Cardinality(H) - Cardinality({})
      BY <3>5, <3>7, FS_Union
    <3> QED BY <3>1, <3>3, <3>4, <3>7, <3>8, FS_EmptySet
  <2> QED BY <2>1, CountParts
<1>6. RecordsLive'
  BY <1>1, <1>4 DEF WaveInv, RecordsLive, Present, Alive
<1>7. HiddenShape'
  BY <1>1, <1>3, <1>4 DEF WaveInv, HiddenShape
<1>8. HeldSeen'
  <2>1. \A w \in Waves : wave[w].state = "stop" => wave'[w].state = "stop" \/ w \in dirty'
    BY <1>1
  <2> QED BY <1>1, <1>4, <2>1 DEF WaveInv, HeldSeen, Present, Trapped
<1>9. LaunchShown'
  <2>1. osMode' = "normal"
    BY <1>1 DEF WaveInv, LaunchShown
  <2>2. ASSUME NEW w \in Waves, Known(w)' PROVE wave'[w].vis # "at_launch"
    BY <1>1, <1>3, <1>4, <2>2 DEF Hidden
  <2>3. ASSUME NEW w \in Waves, hw[w] = "at_launch" PROVE Known(w)
    <3>1. Present(w) /\ Alive(QueueOf[w])
      BY <2>3 DEF WaveInv, RecordsLive, Present
    <3>2. qState[QueueOf[w]] = "suspended"
      BY <1>1, <2>3, <3>1 DEF WaveInv, LaunchShown, Inv, CallHolds, Core, Lifetimes, Alive,
                              TypeOK, QueueStates
    <3>3. QueueOf[w] \in osSusp
      BY <3>1, <3>2 DEF Inv, Core, SuspensionAgrees
    <3> QED BY <3>1, <3>3 DEF WaveInv, HeldSeen
  <2>4. call'.stage \notin {"update", "suspend", "body"}
    BY ReturnStages DEF NormalCreationBody, Inv, TypeOK, CallType
  <2> QED BY <1>1, <1>4, <2>1, <2>2, <2>3, <2>4 DEF LaunchShown
<1> QED BY <1>5, <1>6, <1>7, <1>8, <1>9 DEF WaveInv

\* The hardware moves a wave only on a queue the driver does not hold, and
\* halts none at its launch in the normal mode.
LEMMA HwWaves ==
  ASSUME Inv, WaveInv, NEW w \in Waves,
         HwLaunch(w) \/ HwTrap(w) \/ HwSingleStep(w) \/ HwEnd(w)
  PROVE  WaveInv'
<1> USE ConstantsAssumption DEF ConstantsAssumption
<1>1. /\ UNCHANGED <<qState, wavesRunning, wave, dirty, launchMode, call, osQueue, osSusp,
                     osMode>>
      /\ Alive(QueueOf[w]) /\ QueueOf[w] \notin osSusp
      /\ \A x \in Waves \ {w} : hw'[x] = hw[x]
  BY DEF HwLaunch, HwTrap, HwSingleStep, HwEnd, HwStep, libVars, OnHardware, Alive, Inv,
         TypeOK
<1>2. \/ hw[w] = "unborn" /\ hw'[w] = IF osMode = "halt" THEN "at_launch" ELSE "running"
      \/ hw[w] \in {"running", "stepping"} /\ hw'[w] \in {"trapped", "stepped"}
      \/ hw[w] \in {"running", "stepping", "ending"} /\ hw'[w] = "ended"
  BY DEF HwLaunch, HwTrap, HwSingleStep, HwEnd, HwStep, Inv, TypeOK
<1>3. Known(w) => w \notin dirty /\ hw[w] # "unborn"
  BY <1>1 DEF Inv, Core, WavesObey, WaveInv, RecordsLive
<1>4. CountMatches'
  BY <1>1 DEF WaveInv, CountMatches, Known
<1>5. RecordsLive'
  BY <1>1, <1>2, <1>3 DEF WaveInv, RecordsLive, Known, Present, Alive
<1>6. HiddenShape'
  BY <1>1, <1>2, <1>3 DEF WaveInv, HiddenShape, Known
<1>7. HeldSeen'
  BY <1>1 DEF WaveInv, HeldSeen, Known, Present, Trapped
<1>8. LaunchShown'
  BY <1>1, <1>2 DEF WaveInv, LaunchShown, Known
<1> QED BY <1>4, <1>5, <1>6, <1>7, <1>8 DEF WaveInv

\* The waves of a queue end with it.
LEMMA EnvironmentWaves ==
  ASSUME Inv, WaveInv, EnvironmentStep
  PROVE  WaveInv'
<1> USE ConstantsAssumption DEF ConstantsAssumption
<1>1. CASE \/ \E q \in Queues : OsCreateQueue(q) \/ OsDestroyQueue(q)
           \/ ProcessExit
  <2>1. /\ UNCHANGED <<qState, wavesRunning, wave, dirty, launchMode, call, osMode>>
        /\ \A w \in Waves : hw'[w] = "ended" \/ (hw'[w] = hw[w] /\
                              (Alive(QueueOf[w]) => Alive(QueueOf[w])'))
        /\ osSusp' \subseteq osSusp
    BY <1>1 DEF OsCreateQueue, OsDestroyQueue, ProcessExit, libVars, Alive, Inv, TypeOK
  <2>2. CountMatches'
    BY <2>1 DEF WaveInv, CountMatches, Known
  <2>3. RecordsLive'
    BY <2>1 DEF WaveInv, RecordsLive, Known, Present
  <2>4. HiddenShape' /\ HeldSeen' /\ LaunchShown'
    BY <2>1 DEF WaveInv, HiddenShape, HeldSeen, LaunchShown, Known, Present, Trapped
  <2> QED BY <2>2, <2>3, <2>4 DEF WaveInv
<1> QED BY <1>1, HwWaves DEF EnvironmentStep

\* The calls of the client leave the waves to update_queues.
LEMMA ClientWaves ==
  ASSUME Inv, WaveInv, ClientStep
  PROVE  WaveInv'
<1>1. ASSUME NEW w \in Waves, WaveStop(w) \/ \E c \in Commands : WaveResume(w, c.mode, c.exceptions)
      PROVE  WaveInv'
  <2>1. UNCHANGED waveVars
    BY <1>1 DEF WaveStop, WaveResume, extVars, waveVars
  <2>2. call'.op \in {"stop", "resume"}
    <3>1. ScopedQueues(w) \in SUBSET Queues
      BY ConstantsAssumption DEF ConstantsAssumption, ScopedQueues
    <3>2. /\ Call("stop", "suspend", ScopedQueues(w)).op = "stop"
          /\ Call("resume", "suspend", ScopedQueues(w)).op = "resume"
          /\ Call("stop", "suspend", ScopedQueues(w)) \in Calls
          /\ Call("resume", "suspend", ScopedQueues(w)) \in Calls
      BY <3>1, CallTyped
    <3> QED BY <1>1, <3>2 DEF WaveStop, WaveResume, Calls
  <2> QED BY <2>1, <2>2, WaveUnchanged
<1>2. ASSUME WaveList \/ Freeze PROVE WaveInv'
  <2>1. call'.op \in {"list", "freeze"}
    BY <1>2, CallTyped DEF WaveList, Freeze, NotSuspended
  <2> QED BY <1>2, <2>1, UpdateQueuesWaves DEF WaveList, Freeze, extVars
<1>3. CASE NormalCreation
  <2>1. /\ UNCHANGED <<qState, wavesRunning, wave, dirty, hw, osQueue, osSusp, launchMode>>
        /\ osMode' = "normal"
    BY <1>3 DEF NormalCreation
  <2>2. call'.stage = "update"
    BY <1>3, CallTyped DEF NormalCreation
  <2> QED BY <2>1, <2>2 DEF WaveInv, CountMatches, RecordsLive, HiddenShape, HeldSeen,
                            LaunchShown, Known, Present, Alive, Trapped
<1>4. ASSUME NEW needed \in BOOLEAN, SetProgress(needed) PROVE WaveInv'
  <2>1. UNCHANGED waveVars
    BY <1>4 DEF SetProgress, extVars, waveVars
  <2>2. call'.stage \in {"resume", "idle"}
    BY <1>4, CallTyped, IdleCallType DEF SetProgress, Calls, IdleCall
  <2> QED BY <2>1, <2>2, WaveUnchanged
<1>5. CASE StopCreation
  <2>1. /\ UNCHANGED <<qState, wavesRunning, wave, dirty, hw, osQueue, osSusp, call>>
        /\ launchMode' = "halt" /\ call.stage = "idle"
    BY <1>5 DEF StopCreation, Idle
  <2> QED BY <2>1 DEF WaveInv, CountMatches, RecordsLive, HiddenShape, HeldSeen, LaunchShown,
                      Known, Present, Alive, Trapped
<1>6. CASE Unfreeze \/ NextPendingEvent \/ \E w \in Waves, n \in Slots : EventProcessed(w, n)
  <2>1. UNCHANGED waveVars
    BY <1>6 DEF Unfreeze, NextPendingEvent, EventProcessed, extVars, waveVars
  <2>2. \/ UNCHANGED <<call, qState>>
        \/ call' = Call("next", "query", {})
    BY <1>6 DEF Unfreeze, NextPendingEvent, EventProcessed
  <2>3. Call("next", "query", {}).op = "next"
    BY CallTyped
  <2> QED BY <2>1, <2>2, <2>3, WaveUnchanged
<1> QED BY <1>1, <1>2, <1>3, <1>4, <1>5, <1>6 DEF ClientStep

\* Every step keeps what the library knows of the waves.
LEMMA WaveStep ==
  ASSUME Inv, WaveInv, [Next]_vars
  PROVE  WaveInv'
<1>1. ASSUME NEW name, Fail(name) PROVE WaveInv'
  BY <1>1, WaveUnchanged DEF Fail, extVars, waveVars
<1>2. CASE SuspendFails \/ ResumeFails \/ NormalCreationFails
  BY <1>1, <1>2 DEF SuspendFails, ResumeFails, NormalCreationFails
<1>3. CASE SuspendExited
  <2>1. /\ UNCHANGED waveVars /\ exited
        /\ call.stage = "suspend" /\ call' = AfterSuspend({})
        /\ \A q \in Queues : qState[q] # "absent" => qState'[q] # "absent"
    BY <1>3 DEF SuspendExited, InStage, extVars, waveVars
  <2>2. call'.op = "creation" /\ call'.stage \in {"update", "suspend", "body"} =>
          call.op = "creation" /\ call'.stage # "update"
    BY <2>1, AfterSuspendFields, ReturnFields DEF Inv, TypeOK, CallType, Calls
  <2> QED BY <2>1, <2>2, ConstantsAssumption
          DEF ConstantsAssumption, WaveInv, waveVars, CountMatches, RecordsLive, HiddenShape,
              HeldSeen, LaunchShown, Known, Present, Alive, Trapped
<1>4. CASE StopBody
  <2>1. PICK w \in call.wave : StopNothing(w) \/ StopRunning(w) \/ StopFails(w)
    BY <1>4 DEF StopBody
  <2>2. w \in Waves
    BY DEF Inv, TypeOK, Calls
  <2>3. CASE StopNothing(w)
    BY <2>3, WaveUnchanged, ReturnStages
       DEF StopNothing, extVars, waveVars, Inv, TypeOK, CallType
  <2> QED BY <1>1, <2>1, <2>2, <2>3, StopWaves DEF StopFails
<1>5. CASE ResumeBody
  <2>1. PICK w \in call.wave : ResumeNothing(w) \/ ResumeStopped(w) \/ ResumeWaveFails(w)
    BY <1>5 DEF ResumeBody
  <2>2. w \in Waves
    BY DEF Inv, TypeOK, Calls
  <2>3. CASE ResumeNothing(w)
    BY <2>3, WaveUnchanged, ReturnStages
       DEF ResumeNothing, extVars, waveVars, Inv, TypeOK, CallType
  <2> QED BY <1>1, <2>1, <2>2, <2>3, ResumeStoppedWaves DEF ResumeWaveFails
<1>6. ASSUME NEW q \in Queues, QueryDebugEvent(q) PROVE WaveInv'
  <2>1. call'.op = "next" /\ UNCHANGED waveVars
    BY <1>6 DEF QueryDebugEvent, AfterQuery, InStage, Inv, CallHolds, TypeOK, Calls, waveVars
  <2> QED BY <2>1, WaveUnchanged
<1>7. CASE QueriesDone \/ TakeEvent
  <2>1. UNCHANGED waveVars
    BY <1>7 DEF QueriesDone, TakeEvent, extVars, waveVars
  <2>2. call'.op \in {"next", "none"}
    BY <1>7 DEF QueriesDone, TakeEvent, InStage, Inv, CallHolds, TypeOK, Calls, IdleCall
  <2> QED BY <2>1, <2>2, WaveUnchanged
<1>8. CASE UNCHANGED vars
  BY <1>8, WaveUnchanged DEF vars, libVars, extVars, waveVars
<1>9. CASE QueryNewQueue
  <2>1. call'.op = "next"
    BY <1>9 DEF QueryNewQueue, Inv, TypeOK, Calls
  <2> QED BY <1>9, <2>1, UpdateQueuesWaves DEF QueryNewQueue, extVars
<1>10. CASE NormalCreationQueues
  <2>1. osMode = "normal"
    BY <1>10 DEF NormalCreationQueues, InStage, WaveInv, LaunchShown
  <2> QED BY <1>10, <2>1, UpdateQueuesWaves DEF NormalCreationQueues, extVars
<1> QED BY <1>2, <1>3, <1>4, <1>5, <1>6, <1>7, <1>8, <1>9, <1>10, SuspendWaves, ResumeWaves,
           CreationWaves,
           ClientWaves, EnvironmentWaves
        DEF Next, LibraryStep

-----------------------------------------------------------------------------
(* The wave that a call resumes. *)

\* wave_t::raise_event gives each wave of W one event, and no other wave any.
LEMMA RaiseEffect ==
  ASSUME NEW W, NEW kind, RaiseEvents(W, kind), NEW w \in Waves
  PROVE  evState'[w] = IF w \in W THEN [evState[w] EXCEPT ![FreshSlot(w)] = "queued"]
                                  ELSE evState[w]
  BY DEF RaiseEvents

\* A wave the library holds stopped is left alone when its queue is suspended,
\* unless it is gone; it gets no event.
LEMMA StoppedUntouched ==
  ASSUME Inv, SuspendLive, NEW w \in Waves, wave[w].state = "stop"
  PROVE  /\ Known(w)' => wave'[w] = wave[w]
         /\ evState'[w] = evState[w]
<1> DEFINE found == {x \in Waves : QueueOf[x] \in OkQueues /\ Present(x)}
           gone  == {x \in Waves : QueueOf[x] \in OkQueues /\ ~Present(x) /\ Known(x)}
           stops == {x \in found : NewlyStopped(x) /\ Updated(x).vis = "visible"}
<1>1. TypeOK /\ Known(w)
  BY DEF Inv, Known
<1>2. OkQueues \in SUBSET Queues /\ UpdateWaves(OkQueues)
  BY SuspendEffect
<1>3. Known(w)' => wave'[w] = wave[w]
  BY <1>1, <1>2, UpdateWavesEffect, UpdatedFields DEF Known
<1>4. RaiseEvents(stops \cup Unanswered(gone),
                  [x \in Waves |-> IF x \in stops THEN "stop" ELSE "terminated"])
  BY <1>2 DEF UpdateWaves
<1>5. w \notin stops \cup Unanswered(gone)
  BY DEF NewlyStopped, Unanswered
<1> HIDE DEF stops, gone
<1> QED BY <1>3, <1>4, <1>5, RaiseEffect

\* Every step keeps the wave of a resume in progress stopped.
LEMMA ResumeTargetStep ==
  ASSUME Inv, ResumeTarget, [Next]_vars
  PROVE  ResumeTarget'
<1>1. ASSUME UNCHANGED <<call, wave, evState>> PROVE ResumeTarget'
  BY <1>1 DEF ResumeTarget, Known, LastEventIs
<1>2. ASSUME call'.op # "resume" \/ call'.stage \notin {"suspend", "body"} PROVE ResumeTarget'
  BY <1>2 DEF ResumeTarget
<1>3. CASE SuspendFails \/ ResumeFails \/ NormalCreationFails
  BY <1>1, <1>3 DEF SuspendFails, ResumeFails, NormalCreationFails, Fail, evVars
<1>4. CASE SuspendExited \/ SuspendLive
  <2>1. PICK V \in SUBSET Queues : call' = AfterSuspend(V) /\ call.stage = "suspend"
    BY <1>4, SuspendEffect DEF SuspendExited, InStage
  <2>2. CASE call.op # "resume"
    <3>1. call'.op # "resume" \/ call'.stage \notin {"suspend", "body"}
      BY <2>1, <2>2, AfterSuspendFields, ReturnFields DEF Inv, TypeOK, CallType, Calls
    <3> QED BY <1>2, <3>1
  <2>3. CASE call.op = "resume"
    <3>1. call'.op = "resume" /\ call'.stage = "body" /\ call'.wave = call.wave
      BY <2>1, <2>3, AfterSuspendFields DEF Inv, TypeOK, CallType
    <3> SUFFICES ASSUME NEW w \in call.wave, Known(w)'
                 PROVE  wave'[w].state = "stop" /\ ~LastEventIs(w, {"queued", "reported"})'
      BY <3>1 DEF ResumeTarget
    <3>2. /\ w \in Waves /\ wave[w].state = "stop"
          /\ ~LastEventIs(w, {"queued", "reported"})
      BY <2>1, <2>3 DEF ResumeTarget, Inv, TypeOK, Calls
    <3>3. wave'[w] = wave[w] /\ evState'[w] = evState[w]
      BY <1>4, <3>2, StoppedUntouched DEF SuspendExited, evVars
    <3> QED BY <3>2, <3>3 DEF LastEventIs
  <2> QED BY <2>2, <2>3
<1>5. CASE ResumeExited \/ ResumeLive
  <2>1. AfterResume.stage \notin {"suspend", "body"}
    BY AfterResumeFields
  <2> QED BY <1>2, <1>5, <2>1 DEF ResumeExited, ResumeLive
<1>6. CASE StopBody \/ ResumeBody \/ NormalCreationBody
  <2>1. \/ call' = ResumeOrReturn(call.queues)
        \/ \E name : Fail(name)
    BY <1>6 DEF StopBody, StopNothing, StopRunning, StopFails, ResumeBody, ResumeNothing,
                ResumeStopped, ResumeWaveFails, NormalCreationBody
  <2>2. ResumeOrReturn(call.queues).stage \notin {"suspend", "body"}
    BY ReturnStages DEF Inv, TypeOK, CallType
  <2> QED BY <1>1, <1>2, <2>1, <2>2 DEF Fail, evVars
<1>7. CASE FreezeBody \/ TakeEvent
  <2>1. IdleCall.stage = "idle"
    BY DEF IdleCall
  <2> QED BY <1>2, <1>7, <2>1 DEF FreezeBody, TakeEvent
<1>8. ASSUME NEW q \in Queues, QueryDebugEvent(q) PROVE ResumeTarget'
  <2>1. call'.stage \in {"query", "update"}
    BY <1>8 DEF QueryDebugEvent, AfterQuery, InStage, Inv, TypeOK, Calls
  <2> QED BY <1>2, <2>1
<1>9. CASE QueriesDone
  <2>1. call'.op = "next"
    BY <1>9 DEF QueriesDone, InStage, Inv, CallHolds, TypeOK, Calls
  <2> QED BY <1>2, <2>1
<1>10. ASSUME NEW w \in Waves, NEW c \in Commands, WaveResume(w, c.mode, c.exceptions)
       PROVE  ResumeTarget'
  <2>1. /\ UNCHANGED <<wave, evState>> /\ Known(w) /\ wave[w].state = "stop"
        /\ ~LastEventIs(w, {"queued", "reported"})
    BY <1>10 DEF WaveResume, Found, ClientState, Resumable, evVars
  <2>2. call'.wave = {w}
    <3>1. ScopedQueues(w) \in SUBSET Queues
      BY ConstantsAssumption DEF ConstantsAssumption, ScopedQueues
    <3>2. Call("resume", "suspend", ScopedQueues(w)) \in Calls
      BY <3>1, CallTyped
    <3> QED BY <1>10, <3>2 DEF WaveResume, Calls
  <2> QED BY <2>1, <2>2 DEF ResumeTarget, Known, LastEventIs
<1>11. ASSUME NEW w \in Waves, WaveStop(w) PROVE ResumeTarget'
  <2>1. ScopedQueues(w) \in SUBSET Queues
    BY ConstantsAssumption DEF ConstantsAssumption, ScopedQueues
  <2>2. /\ Call("stop", "suspend", ScopedQueues(w)) \in Calls
        /\ Call("stop", "suspend", ScopedQueues(w)).op = "stop"
    BY <2>1, CallTyped
  <2>3. call'.op = "stop"
    BY <1>11, <2>2 DEF WaveStop, Calls
  <2> QED BY <1>2, <2>3
<1>12. CASE WaveList \/ NormalCreation \/ NormalCreationQueues \/ Freeze
  <2>1. NotSuspended(QueuesAfterUpdate) \in SUBSET Queues
    BY DEF NotSuspended
  <2>2. call'.op \in {"list", "creation", "freeze"}
    BY <1>12, <2>1, CallTyped DEF WaveList, NormalCreation, NormalCreationQueues, Freeze
  <2> QED BY <1>2, <2>2
<1>13. ASSUME NEW needed \in BOOLEAN, SetProgress(needed) PROVE ResumeTarget'
  <2>1. call'.stage \in {"resume", "idle"}
    BY <1>13, CallTyped, IdleCallType DEF SetProgress, Calls, IdleCall
  <2> QED BY <1>2, <2>1
<1>14. CASE \/ StopCreation \/ Unfreeze \/ NextPendingEvent
            \/ \E w \in Waves, n \in Slots : EventProcessed(w, n)
  <2>1. call' \in {call, Call("next", "query", {})}
    BY <1>14 DEF StopCreation, Unfreeze, NextPendingEvent, EventProcessed
  <2>2. Call("next", "query", {}).op = "next"
    BY CallTyped
  <2>3. Idle
    BY <1>14 DEF StopCreation, Unfreeze, NextPendingEvent, EventProcessed
  <2> QED BY <1>2, <2>1, <2>2, <2>3 DEF Idle
<1>15. CASE EnvironmentStep \/ UNCHANGED vars
  <2>1. UNCHANGED libVars
    BY <1>15 DEF EnvironmentStep, HwLaunch, HwTrap, HwSingleStep, HwEnd, HwStep,
                 OsCreateQueue, OsDestroyQueue, ProcessExit, vars
  <2> QED BY <1>1, <2>1 DEF libVars
<1>16. CASE QueryNewQueue
  <2>1. call'.op = "next"
    BY <1>16 DEF QueryNewQueue, Inv, TypeOK, Calls
  <2> QED BY <1>2, <2>1
<1> QED BY <1>3, <1>4, <1>5, <1>6, <1>7, <1>8, <1>9, <1>10, <1>11, <1>12, <1>13, <1>14, <1>15,
           <1>16
        DEF Next, LibraryStep, ClientStep

-----------------------------------------------------------------------------
(* The theorems. *)

\* The inductive invariant.
CallsInv == Inv /\ CallInv /\ WaveInv /\ ResumeTarget

\* The invariant holds when the process is attached and has no queue.
LEMMA InitCalls == Init => CallsInv
<1> SUFFICES ASSUME Init PROVE CallsInv
  OBVIOUS
<1>1. Inv
  BY InitInv
<1>2. \A w \in Waves : ~Known(w) /\ ~Present(w) /\ hw[w] = "unborn"
  BY DEF Init, Known, Present, NoWave, NewWave
<1>3. call.op = "none" /\ call.stage = "idle" /\ call.queues = {} /\ call.resume = {}
  BY DEF Init, IdleCall
<1>4. CallInv /\ ResumeTarget
  BY <1>3 DEF Init, CallInv, CallQueues, ProgressDue, FreezeHolds, ResumeTarget
<1>5. WaveInv
  BY <1>2, <1>3 DEF Init, WaveInv, CountMatches, RecordsLive, HiddenShape, HeldSeen,
                    LaunchShown
<1> QED BY <1>1, <1>4, <1>5 DEF CallsInv

\* Every step keeps the invariant.
LEMMA CallsStep == CallsInv /\ [Next]_vars => CallsInv'
  BY InvStep, CallStep, WaveStep, ResumeTargetStep DEF CallsInv

\* The inductive invariant holds in every execution of run control.
LEMMA CallsInvariance == Spec => []CallsInv
  BY InitCalls, CallsStep, PTL DEF Spec

\* compute_queue_t::m_waves_running, kept by increments and decrements over
\* update_waves, wave_state_changed and set_wave_launch_mode, is the number of
\* the waves of the queue that are not stopped.
THEOREM WavesCounted == Spec => []CountMatches
<1>1. CallsInv => CountMatches
  BY DEF CallsInv, WaveInv
<1> QED BY <1>1, CallsInvariance, PTL

\* aql_queue_t::update_waves misses nothing of a suspended queue, although an
\* all-stopped queue becomes suspended without a look at its save area.
THEOREM NoneMissed == Spec => []NothingMissed
<1>1. CallsInv => NothingMissed
  <2> SUFFICES ASSUME CallsInv, NEW w \in Waves, Alive(QueueOf[w]),
                      qState[QueueOf[w]] = "suspended", Present(w)
               PROVE  Known(w) /\ (Trapped(w) /\ w \notin dirty => wave[w].state = "stop")
    BY DEF NothingMissed
  <2>1. QueueOf[w] \in osSusp
    BY ConstantsAssumption
       DEF ConstantsAssumption, CallsInv, Inv, Core, SuspensionAgrees
  <2> QED BY <2>1 DEF CallsInv, WaveInv, HeldSeen
<1> QED BY <1>1, CallsInvariance, PTL

\* Every path through a call that suspends queues resumes them, if forward
\* progress is needed: those that throw, those whose wave is gone, and the
\* iterations of next_pending_event.
THEOREM ProgressMade == Spec => []ForwardProgress
<1>1. CallsInv => ForwardProgress
  BY DEF CallsInv, CallInv, ProgressDue, ForwardProgress, Idle
<1> QED BY <1>1, CallsInvariance, PTL

\* process_t::freeze leaves no queue on the hardware and nothing in the cache,
\* and nothing the client may call on a frozen process changes that.
THEOREM FrozenFlushed == Spec => []FrozenIsFlushed
<1>1. CallsInv => FrozenIsFlushed
  BY DEF CallsInv, CallInv, FreezeHolds, FrozenIsFlushed, Inv, Core, WavesObey
<1> QED BY <1>1, CallsInvariance, PTL

\* process_t::set_wave_launch_mode resumes every wave that was halted at its
\* launch, those of queues it had not met and those of all-stopped queues too.
THEOREM NoneLeftAtLaunch == Spec => []NoWaveLeftAtLaunch
<1>1. CallsInv => NoWaveLeftAtLaunch
  <2> SUFFICES ASSUME CallsInv, launchMode = "normal", NEW w \in Waves
               PROVE  /\ Known(w) => wave[w].vis # "at_launch"
                      /\ hw[w] = "at_launch" => w \in dirty
    BY DEF NoWaveLeftAtLaunch
  <2>1. Known(w) => wave[w].vis # "at_launch"
    BY DEF CallsInv, WaveInv, LaunchShown
  <2>2. ASSUME hw[w] = "at_launch" PROVE w \in dirty
    <3>1. Known(w) /\ Alive(QueueOf[w])
      BY <2>2 DEF CallsInv, WaveInv, LaunchShown, RecordsLive, Present
    <3>2. ~RegistersAgree(w)
      BY <2>2, <3>1 DEF RegistersAgree, Known, CallsInv, Inv, TypeOK, WaveRecord
    <3> QED BY <3>1, <3>2 DEF CallsInv, Inv, Core, WavesObey
  <2> QED BY <2>1, <2>2
<1> QED BY <1>1, CallsInvariance, PTL

\* No call suspends a queue twice, or resumes one that runs.
LEMMA QueueAssertions ==
  ASSUME CallsInv
  PROVE  /\ call.stage = "suspend" => SuspendFault(call.queues) \in {"none", "dangling_queue"}
         /\ ResumeFault(call.resume) # "already_running"
<1>1. ASSUME call.stage = "suspend"
      PROVE  SuspendFault(call.queues) \in {"none", "dangling_queue"}
  <2>1. \A q \in call.queues : qState[q] # "suspended"
    BY <1>1 DEF CallsInv, CallInv, CallQueues
  <2>2. SuspendFault(call.queues) # "already_suspended"
    BY <2>1 DEF SuspendFault
  <2>3. SuspendFault(call.queues) \notin {"discarding_dirty_line", "stopped_wave_ended"}
    BY SuspensionLosesNothing DEF CallsInv
  <2> QED BY <2>2, <2>3 DEF SuspendFault
<1>2. ResumeFault(call.resume) # "already_running"
  BY DEF CallsInv, CallInv, CallQueues, ResumeFault
<1> QED BY <1>1, <1>2

\* The seven assertions of AssertionsHold never fail: those of suspend_queues
\* and resume_queues on the state of the queues, that of the memory cache, and
\* those of wave_state_changed and wave_t::set_state.
THEOREM Asserted == Spec => []AssertionsHold
<1>1. Init => AssertionsHold
  BY DEF Init, AssertionsHold
<1>2. CallsInv /\ AssertionsHold /\ [Next]_vars => AssertionsHold'
  <2> SUFFICES ASSUME CallsInv, AssertionsHold, [Next]_vars PROVE AssertionsHold'
    OBVIOUS
  <2>1. CASE UNCHANGED fault
    BY <2>1 DEF AssertionsHold
  <2>2. CASE SuspendFails
    BY <2>2, QueueAssertions DEF SuspendFails, InStage, Fail, AssertionsHold
  <2>3. CASE ResumeFails \/ NormalCreationFails
    BY <2>3, QueueAssertions
       DEF ResumeFails, NormalCreationFails, ResumeFault, HiddenFault, Fail, AssertionsHold
  <2>4. ASSUME NEW w \in call.wave, StopNothing(w) \/ StopRunning(w) \/ StopFails(w)
        PROVE  AssertionsHold'
    <3>1. CASE StopFails(w)
      <4> DEFINE q == QueueOf[w]
      <4>1. w \in Waves /\ q \in Queues
        BY ConstantsAssumption DEF ConstantsAssumption, CallsInv, Inv, TypeOK, Calls
      <4>2. w \in RunningWaves(q) /\ RunningWaves(q) \in SUBSET Waves
        BY <3>1, <4>1 DEF StopFails, Found, RunningWaves
      <4>3. Cardinality(RunningWaves(q)) # 0
        BY <4>2, WavesFinite, FS_EmptySet
      <4>4. wavesRunning[q] # 0
        BY <4>1, <4>3, CountParts DEF CallsInv, WaveInv, NoCount
      <4> QED BY <3>1, <4>4 DEF StopFails, StopFault, Fail, AssertionsHold
    <3> QED BY <2>1, <2>4, <3>1 DEF StopNothing, StopRunning
  <2>5. ASSUME NEW w \in call.wave, InStage("body"), call.op = "resume",
               ResumeNothing(w) \/ ResumeStopped(w) \/ ResumeWaveFails(w)
        PROVE  AssertionsHold'
    <3>1. CASE ResumeWaveFails(w)
      <4>1. wave[w].state = "stop" /\ ~LastEventIs(w, {"queued", "reported"})
        BY <2>5, <3>1 DEF ResumeWaveFails, Found, InStage, CallsInv, ResumeTarget
      <4>2. ~LastEventIs(w, {"queued"})
        BY <4>1 DEF LastEventIs
      <4> QED BY <3>1, <4>1, <4>2 DEF ResumeWaveFails, ResumeWaveFault, Fail, AssertionsHold
    <3> QED BY <2>1, <2>5, <3>1 DEF ResumeNothing, ResumeStopped
  <2>6. CASE StopBody \/ ResumeBody
    BY <2>4, <2>5, <2>6 DEF StopBody, ResumeBody
  <2>7. CASE \/ SuspendExited \/ SuspendLive \/ NormalCreationBody \/ FreezeBody
             \/ ResumeExited \/ ResumeLive \/ QueriesDone \/ TakeEvent
             \/ NormalCreationQueues \/ QueryNewQueue
             \/ \E q \in Queues : QueryDebugEvent(q)
    BY <2>1, <2>7 DEF SuspendExited, SuspendLive, NormalCreationBody, FreezeBody,
                ResumeExited, ResumeLive, QueriesDone, TakeEvent, QueryDebugEvent,
                NormalCreationQueues, QueryNewQueue
  <2>8. CASE ClientStep
    BY <2>1, <2>8 DEF ClientStep, WaveStop, WaveResume, WaveList, SetProgress,
                StopCreation, NormalCreation, Freeze, Unfreeze,
                NextPendingEvent, EventProcessed
  <2>9. CASE EnvironmentStep
    BY <2>1, <2>9 DEF EnvironmentStep, HwLaunch, HwTrap, HwSingleStep, HwEnd,
                HwStep, OsCreateQueue, OsDestroyQueue, ProcessExit, libVars
  <2>10. CASE UNCHANGED vars
    BY <2>1, <2>10 DEF vars, libVars
  <2> QED BY <2>2, <2>3, <2>6, <2>7, <2>8, <2>9, <2>10 DEF Next, LibraryStep
<1> QED BY <1>1, <1>2, CallsInvariance, PTL DEF Spec

-----------------------------------------------------------------------------
(***************************************************************************)
(* The inductive invariant.  OneEventPerWave is not inductive: a wave gets  *)
(* a new event when it stops, ends or is resumed, and that it has no other  *)
(* then follows from which event it is allowed to have meanwhile, its last. *)
(***************************************************************************)

\* A wave has at most one event, its last; one that runs, or that was never
\* shown to the client, has none.
EventsOf(w) ==
  /\ \A m, n \in LiveEvents(w) : m = n
  /\ Known(w) => LiveEvents(w) \subseteq {wave[w].last}
  /\ Known(w) /\ wave[w].vis = "visible" /\ wave[w].state # "stop" => LiveEvents(w) = {}
  /\ Known(w) /\ wave[w].vis = "at_launch" => LiveEvents(w) = {}
  /\ ~Known(w) /\ hw[w] # "ended" => LiveEvents(w) = {}

EventsInv ==
  /\ CallsInv
  /\ \A w \in Waves : EventsOf(w)
  /\ PendingIsQueued

\* A step answers the single step of w, if it ends it.
Answers(w) ==
  wave[w].state = "step" /\ wave'[w].state # "step" =>
    \E n \in Slots : evState[w][n] = "none" /\ evState'[w][n] = "queued"

\* A step keeps w stopped for the client, unless it resumes it.
KeepsStop(w) ==
  Found(w) /\ Found(w)' /\ ClientState(w) = "stop" =>
    \/ ClientState(w)' = "stop"
    \/ call.op = "resume" /\ w \in call.wave

\* What is to be shown of every step and every wave.
EventStep == \A w \in Waves : EventsOf(w)' /\ Answers(w) /\ KeepsStop(w)

-----------------------------------------------------------------------------
(* The FIFO. *)

\* Two sequences without repetitions that have no element in common.
LEMMA JoinInjective ==
  ASSUME NEW S, NEW s \in Seq(S), NEW t \in Seq(S), IsInjective(s), IsInjective(t),
         ToSet(s) \cap ToSet(t) = {}
  PROVE  IsInjective(s \o t) /\ ToSet(s \o t) = ToSet(s) \cup ToSet(t)
<1>1. /\ s \o t \in Seq(S) /\ Len(s \o t) = Len(s) + Len(t)
      /\ DOMAIN (s \o t) = 1..(Len(s) + Len(t))
      /\ DOMAIN s = 1..Len(s) /\ DOMAIN t = 1..Len(t)
      /\ Len(s) \in Nat /\ Len(t) \in Nat
  OBVIOUS
<1>2. /\ \A i \in 1..Len(s) : (s \o t)[i] = s[i]
      /\ \A i \in (Len(s) + 1)..(Len(s) + Len(t)) : (s \o t)[i] = t[i - Len(s)]
  OBVIOUS
<1>3. \A i \in DOMAIN (s \o t) :
        \/ i \in DOMAIN s /\ (s \o t)[i] = s[i]
        \/ i - Len(s) \in DOMAIN t /\ (s \o t)[i] = t[i - Len(s)]
  BY <1>1, <1>2
<1>4. \A i \in DOMAIN s, j \in DOMAIN t : s[i] # t[j]
  BY DEF ToSet
<1>5. IsInjective(s \o t)
  <2> SUFFICES ASSUME NEW i \in DOMAIN (s \o t), NEW j \in DOMAIN (s \o t),
                      (s \o t)[i] = (s \o t)[j]
               PROVE  i = j
    BY DEF IsInjective
  <2>1. CASE i \in 1..Len(s) /\ j \in 1..Len(s)
    BY <1>1, <1>2, <2>1 DEF IsInjective
  <2>2. CASE i \notin 1..Len(s) /\ j \notin 1..Len(s)
    <3>1. /\ i - Len(s) \in DOMAIN t /\ j - Len(s) \in DOMAIN t
          /\ t[i - Len(s)] = t[j - Len(s)]
      BY <1>1, <1>3, <2>2
    <3>2. i - Len(s) = j - Len(s)
      BY <3>1 DEF IsInjective
    <3> QED BY <1>1, <3>2
  <2>3. CASE (i \in 1..Len(s)) # (j \in 1..Len(s))
    BY <1>1, <1>3, <1>4, <2>3
  <2> QED BY <2>1, <2>2, <2>3
<1>6. ToSet(s \o t) \subseteq ToSet(s) \cup ToSet(t)
  BY <1>3 DEF ToSet
<1>7. ToSet(s) \subseteq ToSet(s \o t)
  BY <1>1, <1>2 DEF ToSet
<1>8. ToSet(t) \subseteq ToSet(s \o t)
  <2> SUFFICES ASSUME NEW i \in DOMAIN t PROVE t[i] \in ToSet(s \o t)
    BY DEF ToSet
  <2>1. i + Len(s) \in (Len(s) + 1)..(Len(s) + Len(t)) /\ (i + Len(s)) - Len(s) = i
    BY <1>1
  <2>2. (s \o t)[i + Len(s)] = t[i] /\ i + Len(s) \in DOMAIN (s \o t)
    BY <1>1, <1>2, <2>1
  <2> QED BY <2>2 DEF ToSet
<1>9. ToSet(s \o t) = ToSet(s) \cup ToSet(t)
  BY <1>6, <1>7, <1>8
<1> QED BY <1>5, <1>9

\* A sequence without repetitions loses exactly its head.
LEMMA TailInjective ==
  ASSUME NEW S, NEW s \in Seq(S), s # <<>>, IsInjective(s)
  PROVE  /\ IsInjective(Tail(s)) /\ ToSet(Tail(s)) = ToSet(s) \ {Head(s)}
         /\ Head(s) \in ToSet(s)
<1>1. /\ Len(s) \in Nat \ {0} /\ DOMAIN s = 1..Len(s) /\ Head(s) = s[1]
      /\ Tail(s) \in Seq(S) /\ DOMAIN Tail(s) = 1..(Len(s) - 1)
      /\ \A i \in 1..(Len(s) - 1) : Tail(s)[i] = s[i + 1]
  BY EmptySeq, HeadTailProperties
<1>2. IsInjective(Tail(s))
  <2> SUFFICES ASSUME NEW i \in 1..(Len(s) - 1), NEW j \in 1..(Len(s) - 1),
                      s[i + 1] = s[j + 1]
               PROVE  i = j
    BY <1>1 DEF IsInjective
  <2>1. i + 1 = j + 1
    BY <1>1 DEF IsInjective
  <2> QED BY <1>1, <2>1
<1>3. Head(s) \in ToSet(s)
  BY <1>1 DEF ToSet
<1>4. ToSet(Tail(s)) \subseteq ToSet(s) \ {Head(s)}
  <2> SUFFICES ASSUME NEW i \in 1..(Len(s) - 1) PROVE s[i + 1] \in ToSet(s) \ {s[1]}
    BY <1>1 DEF ToSet
  <2>1. i + 1 \in DOMAIN s /\ 1 \in DOMAIN s /\ i + 1 # 1
    BY <1>1
  <2> QED BY <2>1 DEF ToSet, IsInjective
<1>5. ToSet(s) \ {Head(s)} \subseteq ToSet(Tail(s))
  <2> SUFFICES ASSUME NEW i \in DOMAIN s, s[i] # s[1] PROVE s[i] \in ToSet(Tail(s))
    BY <1>1 DEF ToSet
  <2>1. i - 1 \in 1..(Len(s) - 1) /\ (i - 1) + 1 = i
    BY <1>1
  <2>2. Tail(s)[i - 1] = s[i] /\ i - 1 \in DOMAIN Tail(s)
    BY <1>1, <2>1
  <2> QED BY <2>2 DEF ToSet
<1> QED BY <1>2, <1>3, <1>4, <1>5

\* The order in which the waves of a call are visited names each of them once.
LEMMA OrderOfAll ==
  ASSUME NEW E, IsFiniteSet(E), NEW order \in SetToSeqs(E)
  PROVE  order \in Seq(E) /\ IsInjective(order) /\ ToSet(order) = E
<1> DEFINE n == Cardinality(E)
<1>1. n \in Nat
  BY FS_CardinalityType
<1>2. order \in [1..n -> E] /\ \A i, j \in 1..n : i # j => order[i] # order[j]
  BY DEF SetToSeqs
<1> HIDE DEF n
<1>3. order \in Seq(E) /\ DOMAIN order = 1..n
  BY <1>1, <1>2
<1>4. IsInjective(order)
  BY <1>2 DEF IsInjective
<1>5. order \in Injection(1..n, E)
  BY <1>2, <1>4 DEF Injection
<1>6. Cardinality(1..n) = n
  BY <1>1, FS_Interval
<1>7. order \in Surjection(1..n, E)
  BY <1>5, <1>6, FS_Injection DEF n
<1>8. ToSet(order) = E
  BY <1>2, <1>7 DEF Surjection, ToSet
<1> QED BY <1>3, <1>4, <1>8

\* wave_t::raise_event on waves that have no event: each gets one, in a fresh
\* slot, and the FIFO gets it too.
LEMMA RaiseKeeps ==
  ASSUME TypeOK, PendingIsQueued, NEW W \in SUBSET Waves, NEW kind, RaiseEvents(W, kind),
         \A w \in W : LiveEvents(w) = {}
  PROVE  /\ PendingIsQueued'
         /\ \A w \in Waves \ W : evState'[w] = evState[w]
         /\ \A w \in W : /\ LiveEvents(w)' = {FreshSlot(w)}
                         /\ evState[w][FreshSlot(w)] = "none"
                         /\ evState'[w][FreshSlot(w)] = "queued"
<1> DEFINE E == {<<w, FreshSlot(w)>> : w \in W}
           queued == {e \in Waves \X Slots : evState[e[1]][e[2]] = "queued"}
<1>1. /\ evState \in [Waves -> [Slots -> EventStates]] /\ pending \in Seq(Waves \X Slots)
      /\ \A w : FreshSlot(w) \in Slots
  BY FreshSlotType DEF TypeOK
<1>2. \A w \in Waves : evState'[w] = IF w \in W
                                       THEN [evState[w] EXCEPT ![FreshSlot(w)] = "queued"]
                                       ELSE evState[w]
  BY DEF RaiseEvents
<1>3. \A w \in W, n \in Slots : evState[w][n] = "none"
  BY DEF LiveEvents
<1>4. \A w \in W, n \in Slots : evState'[w][n] = IF n = FreshSlot(w) THEN "queued" ELSE "none"
  BY <1>1, <1>2, <1>3
<1>5. \A w \in W : LiveEvents(w)' = {FreshSlot(w)}
  BY <1>1, <1>4 DEF LiveEvents
<1>6. E \subseteq Waves \X Slots /\ IsFiniteSet(E)
  <2>1. E \subseteq W \X Slots
    BY <1>1
  <2>2. IsFiniteSet(Slots)
    <3>1. IsFiniteSet({1}) /\ IsFiniteSet({2})
      BY FS_Singleton
    <3>2. IsFiniteSet({1} \cup {2})
      BY <3>1, FS_Union
    <3>3. Slots = {1} \cup {2}
      BY DEF Slots
    <3> QED BY <3>2, <3>3
  <2>3. IsFiniteSet(W \X Slots)
    BY <2>2, WavesFinite, FS_Product
  <2> QED BY <2>1, <2>3, FS_Subset
<1>7. PICK order \in SetToSeqs(E) : pending' = pending \o order
  BY DEF RaiseEvents
<1>8. queued \cap E = {}
  BY <1>1, <1>3
<1>9. {e \in Waves \X Slots : evState'[e[1]][e[2]] = "queued"} = queued \cup E
  <2>1. ASSUME NEW w \in Waves, NEW n \in Slots
        PROVE  evState'[w][n] = "queued" <=> <<w, n>> \in queued \cup E
    <3>1. CASE w \notin W
      BY <1>2, <2>1, <3>1
    <3>2. CASE w \in W
      BY <1>3, <1>4, <2>1, <3>2
    <3> QED BY <3>1, <3>2
  <2>2. queued \cup E \subseteq Waves \X Slots
    BY <1>6
  <2> HIDE DEF queued, E
  <2> QED BY <2>1, <2>2
<1>10. IsInjective(pending) /\ ToSet(pending) = queued
  BY DEF PendingIsQueued
<1> HIDE DEF E, queued
<1>11. order \in Seq(E) /\ IsInjective(order) /\ ToSet(order) = E
  BY <1>6, <1>7, OrderOfAll
<1>12. order \in Seq(Waves \X Slots)
  BY <1>6, <1>11
<1>13. IsInjective(pending') /\ ToSet(pending') = queued \cup E
  BY <1>1, <1>7, <1>8, <1>10, <1>11, <1>12, JoinInjective
<1>14. PendingIsQueued'
  BY <1>9, <1>13 DEF PendingIsQueued
<1> QED BY <1>1, <1>2, <1>3, <1>4, <1>5, <1>14

\* process_t::next_pending_event takes the head of the FIFO.
LEMMA ReportKeeps ==
  ASSUME TypeOK, PendingIsQueued, pending # <<>>, ReportHead
  PROVE  /\ PendingIsQueued'
         /\ \A w \in Waves, n \in Slots :
              \/ evState'[w][n] = evState[w][n]
              \/ evState[w][n] = "queued" /\ evState'[w][n] = "reported"
<1> DEFINE h == Head(pending)
           queued == {e \in Waves \X Slots : evState[e[1]][e[2]] = "queued"}
<1>1. evState \in [Waves -> [Slots -> EventStates]] /\ pending \in Seq(Waves \X Slots)
  BY DEF TypeOK
<1>2. IsInjective(pending) /\ ToSet(pending) = queued
  BY DEF PendingIsQueued
<1>3. IsInjective(Tail(pending)) /\ ToSet(Tail(pending)) = queued \ {h} /\ h \in queued
  BY <1>1, <1>2, TailInjective
<1>4. pending' = Tail(pending) /\ evState' = [evState EXCEPT ![h[1]][h[2]] = "reported"]
  BY DEF ReportHead
<1>5. h \in Waves \X Slots /\ h[1] \in Waves /\ h[2] \in Slots /\ h = <<h[1], h[2]>>
      /\ evState[h[1]][h[2]] = "queued"
  BY <1>3
<1> HIDE DEF h
<1>6. \A w \in Waves, n \in Slots :
        evState'[w][n] = IF w = h[1] /\ n = h[2] THEN "reported" ELSE evState[w][n]
  BY <1>1, <1>4, <1>5
<1>7. {e \in Waves \X Slots : evState'[e[1]][e[2]] = "queued"} = queued \ {h}
  <2>1. ASSUME NEW w \in Waves, NEW n \in Slots
        PROVE  evState'[w][n] = "queued" <=> <<w, n>> \in queued \ {h}
    BY <1>5, <1>6, <2>1
  <2> HIDE DEF queued
  <2>2. queued \subseteq Waves \X Slots
    BY DEF queued
  <2> QED BY <2>1, <2>2
<1>8. PendingIsQueued'
  BY <1>3, <1>4, <1>7 DEF PendingIsQueued
<1> QED BY <1>5, <1>6, <1>8

-----------------------------------------------------------------------------
(* One wave and one step. *)

\* A wave the step does not touch.
LEMMA Untouched ==
  ASSUME NEW w \in Waves, EventsOf(w), wave'[w] = wave[w], evState'[w] = evState[w],
         hw[w] = "ended" => hw'[w] = "ended"
  PROVE  EventsOf(w)' /\ Answers(w) /\ KeepsStop(w)
  BY DEF EventsOf, Answers, KeepsStop, LiveEvents, Known, Found, ClientState, LastEventIs

\* A wave that gets an event, because it stops, ends, or is resumed: it had
\* none, and it is not one the client saw stopped.
LEMMA Raised ==
  ASSUME TypeOK, NEW w \in Waves,
         LiveEvents(w)' = {FreshSlot(w)}, evState[w][FreshSlot(w)] = "none",
         evState'[w][FreshSlot(w)] = "queued",
         Known(w)' => /\ wave'[w].last = FreshSlot(w)
                      /\ \/ wave'[w].vis = "visible" /\ wave'[w].state = "stop"
                         \/ wave'[w].vis = "terminating",
         ~Known(w)' => hw'[w] = "ended",
         wave[w].state = "stop" => call.op = "resume" /\ w \in call.wave
  PROVE  EventsOf(w)' /\ Answers(w) /\ KeepsStop(w)
<1>1. EventsOf(w)'
  BY DEF EventsOf
<1>2. Answers(w)
  BY FreshSlotType DEF Answers
<1>3. KeepsStop(w)
  BY DEF KeepsStop, ClientState
<1> QED BY <1>1, <1>2, <1>3

\* A wave with an event already processed, or none: the client may resume it.
LEMMA Processed ==
  ASSUME TypeOK, NEW w \in Waves, EventsOf(w), Known(w),
         ~LastEventIs(w, {"queued", "reported"})
  PROVE  LiveEvents(w) = {}
  BY DEF EventsOf, LiveEvents, LastEventIs, TypeOK, EventStates, WaveRecord, NoSlot, Slots

\* A wave_t that is destroyed while the client waits for nothing.
LEMMA Removed ==
  ASSUME NEW w \in Waves, EventsOf(w), evState'[w] = evState[w], ~Known(w)',
         hw'[w] = "ended", wave[w].state # "step"
  PROVE  EventsOf(w)' /\ Answers(w) /\ KeepsStop(w)
  BY DEF EventsOf, Answers, KeepsStop, LiveEvents, Found

\* A wave of a queue that is gone, or that has no record any more, has ended.
LEMMA WithoutRecord ==
  ASSUME CallsInv, NEW w \in Waves, Known(w), ~Present(w) \/ ~Alive(QueueOf[w])
  PROVE  hw[w] = "ended"
  BY DEF CallsInv, WaveInv, RecordsLive, Present

\* A wave that single-steps, or that traps, is visible and has no event.
LEMMA SteppingHasNone ==
  ASSUME EventsInv, NEW w \in Waves, wave[w].state = "step"
  PROVE  Known(w) /\ LiveEvents(w) = {}
<1>1. Known(w) /\ wave[w].vis \in {"visible", "at_launch", "terminating"}
  BY DEF EventsInv, CallsInv, Inv, TypeOK, WaveRecord, Known
<1>2. wave[w].vis = "visible"
  BY <1>1 DEF EventsInv, CallsInv, WaveInv, HiddenShape
<1> QED BY <1>1, <1>2 DEF EventsInv, EventsOf

-----------------------------------------------------------------------------
(* The steps of the library. *)

\* process_t::update_queues answers the single steps of the waves it destroys.
LEMMA UpdateQueuesEvents ==
  ASSUME EventsInv, UpdateQueues, UNCHANGED hw
  PROVE  PendingIsQueued' /\ EventStep
<1> DEFINE gone == {w \in Waves : QueueOf[w] \in {q \in Queues : osQueue[q] # "alive"} /\ Known(w)}
<1>1. TypeOK /\ CallsInv /\ PendingIsQueued /\ \A w \in Waves : EventsOf(w)
  BY DEF EventsInv, CallsInv, Inv
<1>2. /\ Unanswered(gone) \in SUBSET Waves
      /\ \A w \in Unanswered(gone) : w \in gone /\ wave[w].state = "step"
      /\ \A w \in gone : wave[w].state = "step" => w \in Unanswered(gone)
  BY DEF Unanswered
<1>3. RaiseEvents(Unanswered(gone), [w \in Waves |-> "terminated"])
  BY DEF UpdateQueues
<1>4. \A w \in Waves : w \in gone <=> ~Alive(QueueOf[w]) /\ Known(w)
  BY ConstantsAssumption DEF ConstantsAssumption, Alive
<1>5. \A w \in Waves : /\ w \in gone => wave'[w] = NoWave
                       /\ w \notin gone => wave'[w] = wave[w]
  BY <1>1, <1>4, UpdateQueuesEffect
<1>6. \A w \in gone : w \in Waves /\ hw[w] = "ended" /\ ~Known(w)'
  BY <1>1, <1>4, <1>5, UpdateQueuesEffect, WithoutRecord DEF Known
<1> HIDE DEF gone
<1>7. \A w \in Unanswered(gone) : LiveEvents(w) = {}
  BY <1>2, SteppingHasNone
<1>8. /\ PendingIsQueued'
      /\ \A w \in Waves \ Unanswered(gone) : evState'[w] = evState[w]
      /\ \A w \in Unanswered(gone) : /\ LiveEvents(w)' = {FreshSlot(w)}
                                     /\ evState[w][FreshSlot(w)] = "none"
                                     /\ evState'[w][FreshSlot(w)] = "queued"
  BY <1>1, <1>2, <1>3, <1>7, RaiseKeeps
<1>9. ASSUME NEW w \in Waves PROVE EventsOf(w)' /\ Answers(w) /\ KeepsStop(w)
  <2>1. CASE w \in Unanswered(gone)
    BY <1>1, <1>2, <1>6, <1>8, <2>1, Raised
  <2>2. CASE w \in gone /\ w \notin Unanswered(gone)
    BY <1>1, <1>2, <1>6, <1>8, <2>2, Removed
  <2>3. CASE w \notin gone
    BY <1>1, <1>2, <1>5, <1>8, <2>3, Untouched
  <2> QED BY <2>1, <2>2, <2>3
<1> QED BY <1>8, <1>9 DEF EventStep

\* process_t::suspend_queues: a wave found trapped gets its stop event, one
\* that ended in its single step its command terminated event, and a wave the
\* client has stopped nothing.
LEMMA SuspendEvents ==
  ASSUME EventsInv, SuspendLive
  PROVE  PendingIsQueued' /\ EventStep
<1> DEFINE found == {w \in Waves : QueueOf[w] \in OkQueues /\ Present(w)}
           gone  == {w \in Waves : QueueOf[w] \in OkQueues /\ ~Present(w) /\ Known(w)}
           stops == {w \in found : NewlyStopped(w) /\ Updated(w).vis = "visible"}
           W     == stops \cup Unanswered(gone)
<1>1. TypeOK /\ CallsInv /\ Inv /\ PendingIsQueued /\ \A w \in Waves : EventsOf(w)
  BY DEF EventsInv, CallsInv, Inv
<1>2. /\ OkQueues \in SUBSET Queues /\ UpdateWaves(OkQueues) /\ UNCHANGED hw
      /\ \A w \in dirty : QueueOf[w] \notin OkQueues
  BY <1>1, SuspendEffect
<1>3. RaiseEvents(W, [w \in Waves |-> IF w \in stops THEN "stop" ELSE "terminated"])
  BY <1>2 DEF UpdateWaves
<1>4. /\ \A w \in found : wave'[w] = Updated(w)
      /\ \A w \in gone : wave'[w] = NoWave /\ ~Known(w)' /\ hw[w] = "ended"
      /\ \A w \in Waves \ (found \cup gone) : wave'[w] = wave[w]
  <2>1. \A w \in gone : wave'[w] = NoWave /\ ~Known(w)'
    BY <1>1, <1>2, UpdateWavesEffect DEF Known
  <2>2. \A w \in gone : hw[w] = "ended"
    BY <1>1, WithoutRecord
  <2> QED BY <1>1, <1>2, <2>1, <2>2, UpdateWavesEffect
<1>5. /\ W \in SUBSET Waves /\ found \in SUBSET Waves /\ gone \in SUBSET Waves
      /\ \A w \in gone : w \in W <=> wave[w].state = "step"
      /\ \A w \in found : w \in W <=> NewlyStopped(w) /\ Updated(w).vis = "visible"
      /\ W \subseteq found \cup gone
      /\ found \cap gone = {}
  BY DEF Unanswered
\* A wave found trapped is visible already, or new.
<1>6. ASSUME NEW w \in found, Known(w), NewlyStopped(w)
      PROVE  wave[w].vis = "visible" /\ wave[w].state # "stop"
  <2>1. wave[w].state # "stop" /\ Trapped(w) /\ w \notin dirty
    BY <1>2, <1>6 DEF NewlyStopped
  <2>2. wave[w].vis \in {"visible", "at_launch", "terminating"}
    BY <1>1, <1>5, <1>6 DEF TypeOK, WaveRecord
  <2> QED BY <1>1, <1>5, <1>6, <2>1, <2>2 DEF CallsInv, WaveInv, HiddenShape, Trapped
<1>7. \A w \in found : hw[w] # "ended"
  BY DEF Present
<1> HIDE DEF found, gone, stops, W
<1>8. ASSUME NEW w \in W PROVE LiveEvents(w) = {}
  <2>1. CASE w \in gone
    BY <1>5, <2>1, SteppingHasNone
  <2>2. CASE w \in found /\ Known(w)
    BY <1>1, <1>5, <1>6, <2>2 DEF EventsOf
  <2>3. CASE w \in found /\ ~Known(w)
    BY <1>1, <1>5, <1>7, <2>3 DEF EventsOf
  <2> QED BY <1>5, <2>1, <2>2, <2>3
<1>9. /\ PendingIsQueued'
      /\ \A w \in Waves \ W : evState'[w] = evState[w]
      /\ \A w \in W : /\ LiveEvents(w)' = {FreshSlot(w)}
                      /\ evState[w][FreshSlot(w)] = "none"
                      /\ evState'[w][FreshSlot(w)] = "queued"
  BY <1>1, <1>3, <1>5, <1>8, RaiseKeeps
<1>10. ASSUME NEW w \in found PROVE EventsOf(w)' /\ Answers(w) /\ KeepsStop(w)
  <2>1. w \in Waves /\ wave'[w] = Updated(w) /\ hw'[w] = hw[w]
    BY <1>2, <1>4, <1>5
  <2>2. CASE Known(w) /\ (wave[w].state = "stop" \/ ~Trapped(w))
    <3>1. wave'[w] = wave[w] /\ evState'[w] = evState[w]
      BY <1>1, <1>5, <1>9, <2>1, <2>2, UpdatedFields DEF NewlyStopped
    <3> QED BY <1>1, <2>1, <3>1, Untouched
  <2>3. CASE wave[w].state # "stop" /\ Trapped(w)
    <3>1. /\ w \in W /\ wave'[w].state = "stop" /\ wave'[w].vis = "visible"
          /\ wave'[w].last = FreshSlot(w)
      BY <1>1, <1>5, <1>6, <2>1, <2>3, UpdatedFields DEF NewlyStopped
    <3> QED BY <1>1, <1>9, <2>1, <2>3, <3>1, Raised DEF Known
  <2>4. CASE ~Known(w) /\ ~Trapped(w)
    <3>1. evState'[w] = evState[w]
      BY <1>5, <1>9, <2>1, <2>4 DEF NewlyStopped
    <3>2. LiveEvents(w)' = {}
      BY <1>1, <1>7, <2>1, <2>4, <3>1 DEF EventsOf, LiveEvents
    <3> QED BY <2>4, <3>2 DEF EventsOf, Answers, KeepsStop, Found, Known
  <2> QED BY <2>2, <2>3, <2>4 DEF Known
<1>11. ASSUME NEW w \in Waves PROVE EventsOf(w)' /\ Answers(w) /\ KeepsStop(w)
  <2>1. CASE w \in gone /\ w \in W
    BY <1>1, <1>2, <1>4, <1>5, <1>9, <2>1, Raised
  <2>2. CASE w \in gone /\ w \notin W
    BY <1>1, <1>2, <1>4, <1>5, <1>9, <2>2, Removed
  <2>3. CASE w \notin found \cup gone
    BY <1>1, <1>2, <1>4, <1>5, <1>9, <2>3, Untouched
  <2> QED BY <1>10, <2>1, <2>2, <2>3
<1> QED BY <1>9, <1>11 DEF EventStep

\* A step that raises nothing and changes no wave_t.  A wave that has ended
\* never comes back.
LEMMA QuietEvents ==
  ASSUME EventsInv, UNCHANGED <<wave, evState, pending>>,
         \A w \in Waves : hw[w] = "ended" => hw'[w] = "ended"
  PROVE  PendingIsQueued' /\ EventStep
<1>1. PendingIsQueued'
  BY DEF EventsInv, PendingIsQueued
<1>2. ASSUME NEW w \in Waves PROVE EventsOf(w)' /\ Answers(w) /\ KeepsStop(w)
  BY Untouched DEF EventsInv
<1> QED BY <1>1, <1>2 DEF EventStep

\* The body of amd_dbgapi_wave_stop: the wave that runs has no event yet.
LEMMA StopEvents ==
  ASSUME EventsInv, NEW w \in call.wave, StopRunning(w)
  PROVE  PendingIsQueued' /\ EventStep
<1>1. TypeOK /\ w \in Waves /\ PendingIsQueued /\ \A x \in Waves : EventsOf(x)
  BY DEF EventsInv, CallsInv, Inv, TypeOK, Calls
<1>2. /\ wave[w].state # "stop" /\ LiveEvents(w) = {} /\ UNCHANGED hw
      /\ {w} \in SUBSET Waves
  BY <1>1 DEF StopRunning, Found, EventsOf, extVars
<1>3. /\ PendingIsQueued'
      /\ \A x \in Waves \ {w} : evState'[x] = evState[x]
      /\ LiveEvents(w)' = {FreshSlot(w)}
      /\ evState[w][FreshSlot(w)] = "none" /\ evState'[w][FreshSlot(w)] = "queued"
  BY <1>1, <1>2, RaiseKeeps DEF StopRunning
<1>4. /\ wave'[w] = Stopped(w) /\ \A x \in Waves \ {w} : wave'[x] = wave[x]
  BY <1>1 DEF StopRunning, TypeOK
<1>5. Stopped(w).state = "stop" /\ Stopped(w).vis = "visible" /\ Stopped(w).last = FreshSlot(w)
  BY <1>1 DEF StopRunning, Found, Stopped, TypeOK, WaveRecord
<1>6. ASSUME NEW x \in Waves PROVE EventsOf(x)' /\ Answers(x) /\ KeepsStop(x)
  <2>1. CASE x = w
    BY <1>1, <1>2, <1>3, <1>4, <1>5, <2>1, Raised DEF Known
  <2>2. CASE x # w
    BY <1>1, <1>2, <1>3, <1>4, <2>2, Untouched
  <2> QED BY <2>1, <2>2
<1> QED BY <1>3, <1>6 DEF EventStep

\* The body of amd_dbgapi_wave_resume: the events of the wave have been
\* processed, and it gets a new one if it is not going to run.
LEMMA ResumeEvents ==
  ASSUME EventsInv, InStage("body"), call.op = "resume", NEW w \in call.wave,
         ResumeStopped(w)
  PROVE  PendingIsQueued' /\ EventStep
<1>1. TypeOK /\ w \in Waves /\ PendingIsQueued /\ \A x \in Waves : EventsOf(x)
  BY DEF EventsInv, CallsInv, Inv, TypeOK, Calls
<1>2. /\ Known(w) /\ wave[w].vis = "visible" /\ wave[w].state = "stop" /\ UNCHANGED hw
      /\ ~LastEventIs(w, {"queued", "reported"})
  BY DEF ResumeStopped, Found, extVars, InStage, EventsInv, CallsInv, ResumeTarget
<1>3. LiveEvents(w) = {}
  BY <1>1, <1>2, Processed
<1>4. BodyMode \in ResumeModes /\ call.exceptions \in BOOLEAN
  BY <1>1 DEF BodyMode, ResumeModes, TypeOK, Calls
<1>5. /\ wave'[w] = Resumed(w, BodyMode, call.exceptions)
      /\ \A x \in Waves \ {w} : wave'[x] = wave[x]
  BY <1>1 DEF ResumeStopped, TypeOK
<1>6. CASE BodyMode \in {"simulate", "terminate"}
  <2>1. RaiseEvents({w}, [x \in Waves |-> IF BodyMode = "simulate" THEN "stop"
                                                                   ELSE "terminated"])
    BY <1>6 DEF ResumeStopped
  <2>2. /\ PendingIsQueued'
        /\ \A x \in Waves \ {w} : evState'[x] = evState[x]
        /\ LiveEvents(w)' = {FreshSlot(w)}
        /\ evState[w][FreshSlot(w)] = "none" /\ evState'[w][FreshSlot(w)] = "queued"
    <3>1. {w} \in SUBSET Waves /\ \A x \in {w} : LiveEvents(x) = {}
      BY <1>1, <1>3
    <3> QED BY <1>1, <2>1, <3>1, RaiseKeeps
  <2>3. /\ wave'[w].last = FreshSlot(w) /\ Known(w)'
        /\ \/ wave'[w].vis = "visible" /\ wave'[w].state = "stop"
           \/ wave'[w].vis = "terminating"
    BY <1>1, <1>2, <1>4, <1>5, <1>6, ResumedFields DEF Known
  <2>4. ASSUME NEW x \in Waves PROVE EventsOf(x)' /\ Answers(x) /\ KeepsStop(x)
    <3>1. CASE x = w
      BY <1>1, <2>2, <2>3, <3>1, Raised
    <3>2. CASE x # w
      BY <1>1, <1>2, <1>5, <2>2, <3>2, Untouched
    <3> QED BY <3>1, <3>2
  <2> QED BY <2>2, <2>4 DEF EventStep
<1>7. CASE BodyMode \notin {"simulate", "terminate"}
  <2>1. RaiseEvents({}, [x \in Waves |-> IF BodyMode = "simulate" THEN "stop"
                                                                  ELSE "terminated"])
    BY <1>7 DEF ResumeStopped
  <2>2. PendingIsQueued' /\ \A x \in Waves : evState'[x] = evState[x]
    <3>1. {} \in SUBSET Waves /\ \A x \in {} : LiveEvents(x) = {}
      OBVIOUS
    <3> QED BY <1>1, <2>1, <3>1, RaiseKeeps
  <2>3. LiveEvents(w)' = {}
    BY <1>1, <1>3, <2>2 DEF LiveEvents
  <2>4. ASSUME NEW x \in Waves PROVE EventsOf(x)' /\ Answers(x) /\ KeepsStop(x)
    <3>1. CASE x = w
      BY <1>2, <2>3, <3>1 DEF EventsOf, Answers, KeepsStop
    <3>2. CASE x # w
      BY <1>1, <1>2, <1>5, <2>2, <3>2, Untouched
    <3> QED BY <3>1, <3>2
  <2> QED BY <2>2, <2>4 DEF EventStep
<1> QED BY <1>6, <1>7

\* process_t::set_wave_launch_mode shows the hidden waves running: the client
\* has not seen them before, and they have no event.
LEMMA CreationEvents ==
  ASSUME EventsInv, NormalCreationBody
  PROVE  PendingIsQueued' /\ EventStep
<1>1. TypeOK /\ \A w \in Waves : EventsOf(w)
  BY DEF EventsInv, CallsInv, Inv
<1>2. UNCHANGED <<evState, pending, hw>>
  BY DEF NormalCreationBody, evVars, extVars
<1>3. PendingIsQueued'
  BY <1>2 DEF EventsInv, PendingIsQueued
<1>4. ASSUME NEW w \in Waves PROVE EventsOf(w)' /\ Answers(w) /\ KeepsStop(w)
  <2>1. CASE w \notin Hidden
    <3>1. wave'[w] = wave[w]
      BY <2>1 DEF NormalCreationBody
    <3> QED BY <1>1, <1>2, <3>1, Untouched
  <2>2. CASE w \in Hidden
    <3>1. Known(w) /\ wave[w].vis = "at_launch" /\ wave[w].state = "stop"
      BY <2>2 DEF Hidden, EventsInv, CallsInv, WaveInv, HiddenShape
    <3>2. LiveEvents(w)' = {}
      BY <1>1, <1>2, <3>1 DEF EventsOf, LiveEvents
    <3> QED BY <3>1, <3>2 DEF EventsOf, Answers, KeepsStop, Found
  <2> QED BY <2>1, <2>2
<1> QED BY <1>3, <1>4 DEF EventStep

\* An event that is reported is still the only one of its wave.
LEMMA ReportEvents ==
  ASSUME EventsInv, pending # <<>>, ReportHead, UNCHANGED <<wave, hw>>
  PROVE  PendingIsQueued' /\ EventStep
<1>1. TypeOK /\ PendingIsQueued /\ \A w \in Waves : EventsOf(w)
  BY DEF EventsInv, CallsInv, Inv
<1>2. /\ PendingIsQueued'
      /\ \A w \in Waves, n \in Slots :
           \/ evState'[w][n] = evState[w][n]
           \/ evState[w][n] = "queued" /\ evState'[w][n] = "reported"
  BY <1>1, ReportKeeps
<1>3. ASSUME NEW w \in Waves PROVE EventsOf(w)' /\ Answers(w) /\ KeepsStop(w)
  <2>1. LiveEvents(w)' = LiveEvents(w)
    BY <1>2 DEF LiveEvents
  <2>2. EventsOf(w)'
    BY <1>1, <2>1 DEF EventsOf, Known
  <2>3. LastEventIs(w, {"queued"})' => LastEventIs(w, {"queued"})
    BY <1>1, <1>2 DEF LastEventIs, TypeOK, WaveRecord
  <2>4. KeepsStop(w)
    BY <2>3 DEF KeepsStop, ClientState
  <2> QED BY <2>2, <2>4 DEF Answers
<1> QED BY <1>2, <1>3 DEF EventStep

\* An event that is processed was not in the FIFO.
LEMMA ProcessedEvents ==
  ASSUME EventsInv, NEW w \in Waves, NEW n \in Slots, EventProcessed(w, n)
  PROVE  PendingIsQueued' /\ EventStep
<1>1. TypeOK /\ PendingIsQueued /\ \A x \in Waves : EventsOf(x)
  BY DEF EventsInv, CallsInv, Inv
<1>2. UNCHANGED <<wave, hw, pending>> /\ evState[w][n] = "reported"
  BY DEF EventProcessed, extVars
<1>3. \A x \in Waves, m \in Slots :
        evState'[x][m] = IF x = w /\ m = n THEN "none" ELSE evState[x][m]
  BY <1>1 DEF EventProcessed, TypeOK
<1>4. PendingIsQueued'
  <2>1. \A x \in Waves, m \in Slots : evState'[x][m] = "queued" <=> evState[x][m] = "queued"
    BY <1>2, <1>3
  <2>2. {e \in Waves \X Slots : evState'[e[1]][e[2]] = "queued"}
          = {e \in Waves \X Slots : evState[e[1]][e[2]] = "queued"}
    BY <2>1
  <2> QED BY <1>1, <1>2, <2>2 DEF PendingIsQueued
<1>5. ASSUME NEW x \in Waves PROVE EventsOf(x)' /\ Answers(x) /\ KeepsStop(x)
  <2>1. LiveEvents(x)' \subseteq LiveEvents(x)
    BY <1>3 DEF LiveEvents
  <2>2. EventsOf(x)'
    BY <1>1, <1>2, <2>1 DEF EventsOf, Known
  <2>3. LastEventIs(x, {"queued"})' => LastEventIs(x, {"queued"})
    BY <1>1, <1>2, <1>3 DEF LastEventIs, TypeOK, WaveRecord
  <2>4. KeepsStop(x)
    BY <1>2, <2>3 DEF KeepsStop, ClientState
  <2> QED BY <1>2, <2>2, <2>4 DEF Answers
<1> QED BY <1>4, <1>5 DEF EventStep

-----------------------------------------------------------------------------
(* Every step. *)

\* The steps of the library inside a call.
LEMMA LibraryEvents ==
  ASSUME EventsInv, LibraryStep
  PROVE  PendingIsQueued' /\ EventStep
<1>1. TypeOK /\ CallsInv
  BY DEF EventsInv, CallsInv, Inv
<1>2. ASSUME UNCHANGED <<wave, evVars, hw>> PROVE PendingIsQueued' /\ EventStep
  BY <1>2, QuietEvents DEF evVars
<1>3. CASE SuspendFails \/ SuspendExited \/ NormalCreationFails \/ ResumeFails \/ QueriesDone
  BY <1>2, <1>3 DEF SuspendFails, SuspendExited, NormalCreationFails, ResumeFails, QueriesDone,
                    Fail, extVars
<1>4. CASE ResumeExited \/ ResumeLive \/ FreezeBody
  <2>1. PICK Q : WriteBack(Q)
    BY <1>4 DEF ResumeExited, ResumeLive, FreezeBody
  <2>2. \A w \in Waves : hw[w] = "ended" => hw'[w] = "ended"
    BY <1>1, <2>1, WriteBackEffect DEF Present
  <2>3. UNCHANGED <<wave, evState, pending>>
    BY <1>4 DEF ResumeExited, ResumeLive, FreezeBody, evVars
  <2> QED BY <2>2, <2>3, QuietEvents
<1>5. CASE StopBody
  <2>1. PICK w \in call.wave : StopNothing(w) \/ StopRunning(w) \/ StopFails(w)
    BY <1>5 DEF StopBody
  <2>2. CASE StopNothing(w) \/ StopFails(w)
    BY <1>2, <2>2 DEF StopNothing, StopFails, Fail, extVars
  <2> QED BY <2>1, <2>2, StopEvents
<1>6. CASE ResumeBody
  <2>1. PICK w \in call.wave : ResumeNothing(w) \/ ResumeStopped(w) \/ ResumeWaveFails(w)
    BY <1>6 DEF ResumeBody
  <2>2. CASE ResumeNothing(w) \/ ResumeWaveFails(w)
    BY <1>2, <2>2 DEF ResumeNothing, ResumeWaveFails, Fail, extVars
  <2>3. InStage("body") /\ call.op = "resume"
    BY <1>6 DEF ResumeBody
  <2> QED BY <2>1, <2>2, <2>3, ResumeEvents
<1>7. ASSUME NEW q \in Queues, QueryDebugEvent(q) PROVE PendingIsQueued' /\ EventStep
  BY <1>2, <1>7 DEF QueryDebugEvent
<1>9. CASE QueryNewQueue \/ NormalCreationQueues
  BY <1>9, UpdateQueuesEvents DEF QueryNewQueue, NormalCreationQueues, extVars
<1>8. CASE TakeEvent
  <2>1. CASE pending # <<>>
    BY <1>8, <2>1, ReportEvents DEF TakeEvent, extVars
  <2>2. CASE pending = <<>>
    BY <1>2, <1>8, <2>2 DEF TakeEvent, RaiseNothing, extVars
  <2> QED BY <2>1, <2>2
<1> QED BY <1>3, <1>4, <1>5, <1>6, <1>7, <1>8, <1>9, SuspendEvents, CreationEvents
        DEF LibraryStep

\* The calls of the client.
LEMMA ClientEvents ==
  ASSUME EventsInv, ClientStep
  PROVE  PendingIsQueued' /\ EventStep
<1>1. ASSUME UNCHANGED <<wave, evVars, hw>> PROVE PendingIsQueued' /\ EventStep
  BY <1>1, QuietEvents DEF evVars
<1>2. CASE \/ \E w \in Waves : WaveStop(w)
           \/ \E w \in Waves, c \in Commands : WaveResume(w, c.mode, c.exceptions)
           \/ \E needed \in BOOLEAN : SetProgress(needed)
           \/ StopCreation \/ NormalCreation \/ Unfreeze
  BY <1>1, <1>2 DEF WaveStop, WaveResume, SetProgress, StopCreation, NormalCreation, Unfreeze,
                    extVars
<1>3. CASE WaveList \/ Freeze
  BY <1>3, UpdateQueuesEvents DEF WaveList, Freeze, extVars
<1>4. CASE NextPendingEvent
  <2>1. CASE pending # <<>>
    BY <1>4, <2>1, ReportEvents DEF NextPendingEvent, extVars
  <2>2. CASE pending = <<>>
    BY <1>1, <1>4, <2>2 DEF NextPendingEvent, RaiseNothing, extVars
  <2> QED BY <2>1, <2>2
<1> QED BY <1>2, <1>3, <1>4, ProcessedEvents DEF ClientStep

\* The hardware, the driver and the inferior.
LEMMA EnvironmentEvents ==
  ASSUME EventsInv, EnvironmentStep
  PROVE  PendingIsQueued' /\ EventStep
<1>1. UNCHANGED <<wave, evState, pending>>
  BY DEF EnvironmentStep, HwLaunch, HwTrap, HwSingleStep, HwEnd, HwStep, OsCreateQueue,
         OsDestroyQueue, ProcessExit, libVars
<1>2. ASSUME NEW w \in Waves, hw[w] = "ended" PROVE hw'[w] = "ended"
  <2>1. hw \in [Waves -> HwStates]
    BY DEF EventsInv, CallsInv, Inv, TypeOK
  <2>2. ASSUME NEW x \in Waves, NEW from, NEW to, HwStep(x, from, to), "ended" \notin from
        PROVE  hw'[w] = "ended"
    BY <1>2, <2>1, <2>2 DEF HwStep
  <2>3. ASSUME NEW x \in Waves, HwLaunch(x) \/ HwTrap(x) \/ HwSingleStep(x) \/ HwEnd(x)
        PROVE  hw'[w] = "ended"
    BY <2>2, <2>3 DEF HwLaunch, HwTrap, HwSingleStep, HwEnd
  <2>4. CASE (\E q \in Queues : OsCreateQueue(q) \/ OsDestroyQueue(q)) \/ ProcessExit
    BY <1>2, <2>4 DEF OsCreateQueue, OsDestroyQueue, ProcessExit
  <2> QED BY <2>3, <2>4 DEF EnvironmentStep
<1> QED BY <1>1, <1>2, QuietEvents

\* Every step keeps the FIFO and the events of every wave in order.
LEMMA EventsNext ==
  ASSUME EventsInv, [Next]_vars
  PROVE  PendingIsQueued' /\ EventStep
<1>1. CASE UNCHANGED vars
  BY <1>1, QuietEvents DEF vars, libVars, extVars
<1> QED BY <1>1, LibraryEvents, ClientEvents, EnvironmentEvents DEF Next

-----------------------------------------------------------------------------
(* The theorems. *)

\* There are no events when the process is attached.
LEMMA InitEvents == Init => EventsInv
<1> SUFFICES ASSUME Init PROVE EventsInv
  OBVIOUS
<1>1. CallsInv
  BY InitCalls
<1>2. \A w \in Waves : LiveEvents(w) = {}
  BY DEF Init, LiveEvents
<1>3. PendingIsQueued
  BY DEF Init, PendingIsQueued, IsInjective, ToSet
<1> QED BY <1>1, <1>2, <1>3 DEF EventsInv, EventsOf

\* The inductive invariant holds in every execution of run control.
LEMMA EventsInvariance == Spec => []EventsInv
<1>1. EventsInv /\ [Next]_vars => EventsInv'
  BY EventsNext, CallsStep DEF EventsInv, EventStep
<1> QED BY <1>1, InitEvents, PTL DEF Spec

\* Every event reaches the client once and in its turn, over
\* process_t::enqueue_event, next_pending_event and event_t::set_state: the FIFO
\* holds exactly what is queued, and no wave has two events, or one while it
\* runs.
THEOREM InTurn == Spec => []EventsInTurn
<1>1. EventsInv => EventsInTurn
  <2> SUFFICES ASSUME EventsInv, NEW w \in Waves
               PROVE  /\ Cardinality(LiveEvents(w)) <= 1
                      /\ Found(w) /\ wave[w].state # "stop" => LiveEvents(w) = {}
    BY DEF EventsInTurn, OneEventPerWave, EventsInv
  <2>1. EventsOf(w)
    BY DEF EventsInv
  <2>2. CASE LiveEvents(w) = {}
    BY <2>2, FS_EmptySet
  <2>3. ASSUME NEW n \in LiveEvents(w)
        PROVE  Cardinality(LiveEvents(w)) <= 1
    <3>1. LiveEvents(w) = {n}
      BY <2>1, <2>3 DEF EventsOf
    <3>2. Cardinality({n}) = 1
      BY FS_Singleton, Zenon
    <3>3. Cardinality(LiveEvents(w)) = 1
      BY <3>1, <3>2, Zenon
    <3> QED BY <3>3
  <2> QED BY <2>1, <2>2, <2>3 DEF EventsOf, Found
<1> QED BY <1>1, EventsInvariance, PTL

\* The client that single-steps a wave is answered in the very step in which
\* the wave leaves the single-step state: by wave_t::update, wave_t::set_state,
\* or, when the wave or its queue is gone, by wave_t::~wave_t.
THEOREM Answering == Spec => StepAnswered
<1>1. EventsInv /\ [Next]_vars =>
        [\A w \in Waves : wave[w].state = "step" /\ wave'[w].state # "step" =>
           \E n \in Slots : evState[w][n] = "none" /\ evState'[w][n] = "queued"]_vars
  BY EventsNext DEF EventStep, Answers
<1> QED BY <1>1, EventsInvariance, PTL DEF Spec, StepAnswered

\* What wave_t::client_visible_state computes from the state of the wave and of
\* its last event does not go back from stopped to running, whatever happens to
\* the event and the queue, unless the client resumes the wave.
THEOREM StopsStayVisible == Spec => StopStaysVisible
<1>1. EventsInv /\ [Next]_vars =>
        [\A w \in Waves : Found(w) /\ Found(w)' /\ ClientState(w) = "stop" =>
           \/ ClientState(w)' = "stop"
           \/ call.op = "resume" /\ w \in call.wave]_vars
  BY EventsNext DEF EventStep, KeepsStop
<1> QED BY <1>1, EventsInvariance, PTL DEF Spec, StopStaysVisible
===============================================================================
