--------------------------- MODULE RunControl_proofs ---------------------------
(***************************************************************************)
(* Type correctness and safety of RunControl, for every set of queues and  *)
(* waves: the library and the driver agree on what is suspended, and the   *)
(* waves do what the client was told they do.                              *)
(***************************************************************************)
EXTENDS RunControl, FiniteSetTheorems, TLAPS

-----------------------------------------------------------------------------
(* Types. *)

EventTypes ==
  /\ evState \in [Waves -> [Slots -> EventStates]]
  /\ evKind \in [Waves -> [Slots -> EventKinds]]
  /\ pending \in Seq(Waves \X Slots)

\* A fresh slot is a slot.
LEMMA FreshSlotType == \A w : FreshSlot(w) \in Slots
  BY DEF FreshSlot, Slots

\* Any subset of the waves is finite, and has a size.
LEMMA WavesFinite ==
  ASSUME NEW W \in SUBSET Waves
  PROVE  IsFiniteSet(W) /\ Cardinality(W) \in Nat
  BY ConstantsAssumption, FS_Subset, FS_CardinalityType DEF ConstantsAssumption

\* Raising events keeps the events well typed.
LEMMA RaiseEventsType ==
  ASSUME EventTypes, NEW W \in SUBSET Waves, NEW kind \in [Waves -> EventKinds],
         RaiseEvents(W, kind)
  PROVE  EventTypes'
<1> DEFINE E == {<<w, FreshSlot(w)>> : w \in W}
<1>1. evState' \in [Waves -> [Slots -> EventStates]]
  BY FreshSlotType DEF RaiseEvents, EventTypes, EventStates
<1>2. evKind' \in [Waves -> [Slots -> EventKinds]]
  BY FreshSlotType DEF RaiseEvents, EventTypes
<1>3. E \in SUBSET (Waves \X Slots)
  BY FreshSlotType
<1>4. Cardinality(E) \in Nat
  <2>1. IsFiniteSet(Slots)
    <3>1. IsFiniteSet({1}) /\ IsFiniteSet({2})
      BY FS_Singleton
    <3>2. IsFiniteSet({1} \cup {2})
      BY <3>1, FS_Union
    <3>3. Slots = {1} \cup {2}
      BY DEF Slots
    <3> QED BY <3>2, <3>3
  <2>2. IsFiniteSet(Waves \X Slots)
    BY <2>1, WavesFinite, FS_Product
  <2> QED BY <1>3, <2>2, FS_Subset, FS_CardinalityType
<1>5. PICK order \in SetToSeqs(E) : pending' = pending \o order
  BY DEF RaiseEvents
<1>6. order \in [1..Cardinality(E) -> E]
  BY <1>5 DEF SetToSeqs
<1>7. order \in Seq(Waves \X Slots)
  <2> HIDE DEF E
  <2>1. order \in [1..Cardinality(E) -> Waves \X Slots]
    BY <1>3, <1>6
  <2> QED BY <1>4, <2>1
<1>8. pending' \in Seq(Waves \X Slots)
  BY <1>5, <1>7 DEF EventTypes
<1> QED BY <1>1, <1>2, <1>8 DEF EventTypes


LibTypes ==
  /\ qState \in [Queues -> QueueStates]
  /\ wavesRunning \in [Queues -> Nat \cup {NoCount}]
  /\ wave \in [Waves -> WaveRecord]
  /\ dirty \subseteq Waves

\* process_t::update_queues keeps the library well typed.
LEMMA UpdateQueuesType ==
  ASSUME LibTypes, EventTypes, UpdateQueues
  PROVE  LibTypes' /\ EventTypes'
<1> DEFINE gone == {w \in Waves : QueueOf[w] \in {q \in Queues : osQueue[q] # "alive"} /\ Known(w)}
<1>1. qState' \in [Queues -> QueueStates]
  BY DEF UpdateQueues, QueuesAfterUpdate, LibTypes, QueueStates
<1>2. wavesRunning' \in [Queues -> Nat \cup {NoCount}]
  BY DEF UpdateQueues, LibTypes
<1>3. NoWave \in WaveRecord
  BY DEF NoWave, NewWave, WaveRecord, NoSlot
<1>4. wave' \in [Waves -> WaveRecord] /\ dirty' \subseteq Waves
  BY <1>3 DEF UpdateQueues, LibTypes
<1>5. EventTypes'
  <2>1. [w \in Waves |-> "terminated"] \in [Waves -> EventKinds]
    BY DEF EventKinds
  <2>2. Unanswered(gone) \in SUBSET Waves
    BY DEF Unanswered
  <2>3. RaiseEvents(Unanswered(gone), [w \in Waves |-> "terminated"])
    BY DEF UpdateQueues
  <2> HIDE DEF gone
  <2> QED BY <2>1, <2>2, <2>3, RaiseEventsType
<1> QED BY <1>1, <1>2, <1>4, <1>5 DEF LibTypes

\* A record that update_waves has visited is a record.
LEMMA UpdatedType ==
  ASSUME LibTypes, NEW w \in Waves
  PROVE  Updated(w) \in WaveRecord
<1>1. NewWave \in WaveRecord
  BY DEF NewWave, WaveRecord, NoSlot
<1> DEFINE cur == IF Known(w) THEN wave[w] ELSE NewWave
<1>2. cur \in WaveRecord
  BY <1>1 DEF LibTypes
<1>3. Updated(w) = IF HaltedAtLaunch(w)
                     THEN [cur EXCEPT !.state = "stop", !.vis = "at_launch",
                                      !.stopReq = TRUE]
                   ELSE IF NewlyStopped(w)
                     THEN [cur EXCEPT !.state = "stop",
                             !.reason = IF hw[w] = "stepped" THEN "step"
                                                             ELSE "trap",
                             !.last = IF cur.vis = "visible" THEN FreshSlot(w)
                                                             ELSE cur.last]
                   ELSE cur
  BY DEF Updated
<1>4. FreshSlot(w) \in Slots
  BY FreshSlotType
<1> HIDE DEF cur
<1>5. CASE HaltedAtLaunch(w)
  BY <1>2, <1>3, <1>5 DEF WaveRecord
<1>6. CASE ~HaltedAtLaunch(w) /\ NewlyStopped(w)
  BY <1>2, <1>3, <1>4, <1>6 DEF WaveRecord
<1>7. CASE ~HaltedAtLaunch(w) /\ ~NewlyStopped(w)
  BY <1>2, <1>3, <1>7
<1> QED BY <1>5, <1>6, <1>7

\* aql_queue_t::update_waves keeps the library well typed.
LEMMA UpdateWavesType ==
  ASSUME LibTypes, EventTypes, NEW Q \in SUBSET Queues, UpdateWaves(Q)
  PROVE  /\ wavesRunning' \in [Queues -> Nat \cup {NoCount}]
         /\ wave' \in [Waves -> WaveRecord]
         /\ dirty' \subseteq Waves
         /\ EventTypes'
<1> DEFINE found == {w \in Waves : QueueOf[w] \in Q /\ Present(w)}
           gone  == {w \in Waves : QueueOf[w] \in Q /\ ~Present(w) /\ Known(w)}
           stops == {w \in found : NewlyStopped(w) /\ Updated(w).vis = "visible"}
           kind  == [w \in Waves |-> IF w \in stops THEN "stop" ELSE "terminated"]
<1>1. NoWave \in WaveRecord
  BY DEF NoWave, NewWave, WaveRecord, NoSlot
<1>2. wave' \in [Waves -> WaveRecord] /\ dirty' \subseteq Waves
  BY <1>1, UpdatedType DEF UpdateWaves, LibTypes
<1>3. wavesRunning' \in [Queues -> Nat \cup {NoCount}]
  <2> DEFINE live(q) == {w \in found : QueueOf[w] = q /\ Updated(w).state # "stop"}
  <2>1. \A q : Cardinality(live(q)) \in Nat
    BY WavesFinite
  <2>2. wavesRunning' = [q \in Queues |-> IF q \in Q THEN Cardinality(live(q))
                                                     ELSE wavesRunning[q]]
    BY DEF UpdateWaves
  <2> HIDE DEF live
  <2> QED BY <2>1, <2>2 DEF LibTypes
<1>4. EventTypes'
  <2>1. kind \in [Waves -> EventKinds]
    BY DEF EventKinds
  <2>2. (stops \cup Unanswered(gone)) \in SUBSET Waves
    BY DEF Unanswered
  <2>3. RaiseEvents(stops \cup Unanswered(gone), kind)
    BY DEF UpdateWaves
  <2> HIDE DEF stops, gone, kind, found
  <2> QED BY <2>1, <2>2, <2>3, RaiseEventsType
<1> QED BY <1>2, <1>3, <1>4


\* The rest of TypeOK: the process, the call and the world outside.
ProcessTypes ==
  /\ fwd \in BOOLEAN
  /\ launchMode \in {"normal", "halt"}
  /\ frozen \in BOOLEAN
  /\ fault \in Faults

CallType == call \in Calls

ExternalTypes ==
  /\ osQueue \in [Queues -> {"unborn", "alive", "destroyed"}]
  /\ osSusp \subseteq Queues
  /\ osMode \in {"normal", "halt"}
  /\ excp \subseteq Queues
  /\ hw \in [Waves -> HwStates]
  /\ exited \in BOOLEAN
  /\ destroys \in Nat

\* TypeOK, by the parts of the library and of its environment.
LEMMA TypeParts ==
  TypeOK <=> LibTypes /\ EventTypes /\ ProcessTypes /\ CallType /\ ExternalTypes
  BY DEF TypeOK, LibTypes, EventTypes, ProcessTypes, CallType, ExternalTypes

\* The same of the next state: a step need only keep the parts it touches.
LEMMA TypePartsNext ==
  LibTypes' /\ EventTypes' /\ ProcessTypes' /\ CallType' /\ ExternalTypes'
    => TypeOK'
  BY DEF TypeOK, LibTypes, EventTypes, ProcessTypes, CallType, ExternalTypes

\* The library between two calls is in a typed state.
LEMMA IdleCallType == IdleCall \in Calls
  BY DEF IdleCall, Calls, ResumeModes

\* A call that has only been started is a call.
LEMMA CallTyped ==
  ASSUME NEW op \in {"none", "stop", "resume", "list", "progress", "creation",
                     "freeze", "next"},
         NEW stage \in {"idle", "query", "update", "suspend", "body", "resume",
                        "pop"},
         NEW Q \in SUBSET Queues
  PROVE  /\ Call(op, stage, Q) \in Calls
         /\ Call(op, stage, Q).op = op
         /\ Call(op, stage, Q).stage = stage
         /\ Call(op, stage, Q).queues = Q
  BY IdleCallType DEF Call, Calls

\* The calls the code makes are calls.
LEMMA CallsTyped ==
  ASSUME CallType
  PROVE  /\ \A Q \in SUBSET Queues : ResumeOrReturn(Q) \in Calls
         /\ \A Q \in SUBSET Queues : AfterSuspend(Q) \in Calls
         /\ AfterResume \in Calls
<1>1. ASSUME NEW Q \in SUBSET Queues PROVE ResumeOrReturn(Q) \in Calls
  <2>1. Call(call.op, "resume", {}) \in Calls
    BY CallTyped DEF CallType, Calls
  <2> QED BY <2>1, IdleCallType DEF ResumeOrReturn, Calls
<1>2. ASSUME NEW Q \in SUBSET Queues PROVE AfterSuspend(Q) \in Calls
  <2>1. ResumeOrReturn(call.queues) \in Calls
    BY <1>1 DEF CallType, Calls
  <2>2. CASE call.op = "next" /\ Q # {}
    BY <2>2 DEF AfterSuspend, CallType, Calls
  <2>3. CASE call.op = "next" /\ Q = {}
    BY <2>3 DEF AfterSuspend, CallType, Calls
  <2>4. CASE call.op \in {"stop", "resume"}
    BY <2>4 DEF AfterSuspend, CallType, Calls
  <2>5. CASE call.op \in {"creation", "freeze"}
    BY <2>5 DEF AfterSuspend, CallType, Calls
  <2>6. CASE call.op \notin {"next", "stop", "resume", "creation", "freeze"}
    BY <2>1, <2>6 DEF AfterSuspend
  <2> QED BY <2>2, <2>3, <2>4, <2>5, <2>6
<1>3. AfterResume \in Calls
  BY IdleCallType DEF AfterResume, Calls
<1> QED BY <1>1, <1>2, <1>3

\* Writing back keeps the registers well typed.
LEMMA WriteBackType ==
  ASSUME TypeOK, NEW Q, WriteBack(Q)
  PROVE  hw' \in [Waves -> HwStates] /\ dirty' \subseteq Waves
  BY DEF WriteBack, TypeOK, Registers, HwStates


\* The event at the head of a non-empty FIFO is an event.
LEMMA ReportHeadType ==
  ASSUME EventTypes, pending # <<>>, ReportHead
  PROVE  EventTypes'
<1>1. Head(pending) \in Waves \X Slots /\ Tail(pending) \in Seq(Waves \X Slots)
  BY DEF EventTypes
<1> QED BY <1>1 DEF ReportHead, EventTypes, EventStates

\* A failed assertion has a name.
LEMMA FaultTypes ==
  /\ \A Q : SuspendFault(Q) \in Faults
  /\ \A Q : ResumeFault(Q) \in Faults
  /\ \A w : StopFault(w) \in Faults
  /\ \A w : ResumeWaveFault(w) \in Faults
<1>1. \A Q : SuspendFault(Q) \in Faults
  BY DEF SuspendFault, Faults
<1>2. \A Q : ResumeFault(Q) \in Faults
  BY DEF ResumeFault, Faults
<1>3. \A w : StopFault(w) \in Faults
  BY DEF StopFault, Faults
<1>4. \A w : ResumeWaveFault(w) \in Faults
  BY DEF ResumeWaveFault, Faults
<1> QED BY <1>1, <1>2, <1>3, <1>4

\* A wave that wave_t::set_state resumes is a wave.
LEMMA ResumedType ==
  ASSUME LibTypes, NEW w \in Waves, NEW mode \in ResumeModes,
         NEW exceptions \in BOOLEAN
  PROVE  Resumed(w, mode, exceptions) \in WaveRecord
<1> DEFINE clear == [wave[w] EXCEPT !.stopReq = FALSE, !.reason = "none",
                                    !.last = NoSlot]
<1>1. clear \in WaveRecord
  BY DEF LibTypes, WaveRecord
<1>2. FreshSlot(w) \in Slots
  BY FreshSlotType
<1>3. CASE mode = "simulate"
  BY <1>1, <1>2, <1>3 DEF Resumed, WaveRecord
<1>4. CASE mode = "terminate"
  BY <1>1, <1>2, <1>4 DEF Resumed, WaveRecord
<1>5. CASE mode \in {"run", "step"}
  BY <1>1, <1>5 DEF Resumed, WaveRecord
<1> QED BY <1>3, <1>4, <1>5 DEF ResumeModes

\* No step leaves the types.
LEMMA TypeStep ==
  ASSUME TypeOK, [Next]_vars
  PROVE  TypeOK'
<1> USE TypeParts, TypePartsNext
<1>f. ASSUME NEW name \in Faults, Fail(name) PROVE TypeOK'
  BY <1>f DEF Fail, TypeOK, evVars, extVars
<1>1. CASE SuspendFails
  BY <1>1, <1>f, FaultTypes DEF SuspendFails
<1>2. CASE SuspendExited
  <2>1. call' \in Calls
    BY <1>2, CallsTyped DEF SuspendExited, CallType
  <2> QED BY <1>2, <2>1 DEF SuspendExited, TypeOK, QueueStates, evVars, extVars
<1>3. CASE SuspendLive
  <2> DEFINE Q     == call.queues
             ok    == {q \in Sent(Q) : osQueue[q] = "alive"}
             valid == (ValidQueues(Q) \ Sent(Q)) \cup ok
  <2>1. Q \in SUBSET Queues
    BY DEF CallType, Calls
  <2>2. ok \in SUBSET Queues /\ valid \in SUBSET Queues
    BY <2>1 DEF Sent, ValidQueues
  <2>3. UpdateWaves(ok) /\ call' = AfterSuspend(valid)
    BY <1>3 DEF SuspendLive
  <2>4. LibTypes' /\ EventTypes'
    <3>1. qState' \in [Queues -> QueueStates]
      BY <1>3 DEF SuspendLive, LibTypes, QueueStates
    <3> HIDE DEF ok, valid
    <3> QED BY <2>2, <2>3, <3>1, UpdateWavesType DEF LibTypes
  <2>5. CallType'
    <3> HIDE DEF ok, valid
    <3> QED BY <2>2, <2>3, CallsTyped DEF CallType
  <2>6. ProcessTypes' /\ ExternalTypes'
    BY <1>3, <2>2 DEF SuspendLive, ProcessTypes, ExternalTypes
  <2> QED BY <2>4, <2>5, <2>6
<1>4. CASE ResumeFails
  BY <1>4, <1>f, FaultTypes DEF ResumeFails
<1>5. CASE ResumeExited
  <2>1. call' \in Calls
    BY <1>5, CallsTyped DEF ResumeExited, CallType
  <2>2. hw' \in [Waves -> HwStates] /\ dirty' \subseteq Waves
    BY <1>5, WriteBackType DEF ResumeExited
  <2> QED BY <1>5, <2>1, <2>2
          DEF ResumeExited, CountsAfterResume, TypeOK, QueueStates, evVars
<1>6. CASE ResumeLive
  <2>1. call' \in Calls
    BY <1>6, CallsTyped DEF ResumeLive, CallType
  <2>2. hw' \in [Waves -> HwStates] /\ dirty' \subseteq Waves
    BY <1>6, WriteBackType DEF ResumeLive
  <2> QED BY <1>6, <2>1, <2>2
          DEF ResumeLive, CountsAfterResume, TypeOK, QueueStates, evVars
<1>7. CASE \E w \in Waves : WaveStop(w)
  <2>1. PICK w \in Waves : WaveStop(w)
    BY <1>7
  <2>2. ScopedQueues(w) \in SUBSET Queues
    BY ConstantsAssumption DEF ScopedQueues, ConstantsAssumption
  <2>3. Call("stop", "suspend", ScopedQueues(w)) \in Calls
    BY <2>2, CallTyped
  <2>4. call' \in Calls
    BY <2>1, <2>3 DEF WaveStop, Calls
  <2> QED BY <2>1, <2>4 DEF WaveStop, TypeOK, evVars, extVars
<1>8. CASE \E w \in Waves, c \in Commands : WaveResume(w, c.mode, c.exceptions)
  <2>1. PICK w \in Waves, c \in Commands : WaveResume(w, c.mode, c.exceptions)
    BY <1>8
  <2>2. ScopedQueues(w) \in SUBSET Queues
    BY ConstantsAssumption DEF ScopedQueues, ConstantsAssumption
  <2>3. Call("resume", "suspend", ScopedQueues(w)) \in Calls
    BY <2>2, CallTyped
  <2>4. c.mode \in ResumeModes /\ c.exceptions \in BOOLEAN
    BY ConstantsAssumption DEF ConstantsAssumption, ResumeModes
  <2>5. call' \in Calls
    BY <2>1, <2>3, <2>4 DEF WaveResume, Calls
  <2> QED BY <2>1, <2>5 DEF WaveResume, TypeOK, evVars, extVars
<1>9. CASE WaveList
  <2>1. Call("list", "suspend", NotSuspended(QueuesAfterUpdate)) \in Calls
    BY CallTyped DEF NotSuspended
  <2>2. LibTypes' /\ EventTypes'
    BY <1>9, UpdateQueuesType DEF WaveList
  <2> QED BY <1>9, <2>1, <2>2
          DEF WaveList, CallType, ProcessTypes, ExternalTypes, extVars
<1>10. CASE \E needed \in BOOLEAN : SetProgress(needed)
  <2>1. PICK needed \in BOOLEAN : SetProgress(needed)
    BY <1>10
  <2>2. Call("progress", "resume", {}) \in Calls
    BY CallTyped
  <2>3. call' \in Calls
    BY <2>1, <2>2, IdleCallType DEF SetProgress, Calls
  <2> QED BY <2>1, <2>3 DEF SetProgress, TypeOK, evVars, extVars
<1>11. CASE StopCreation
  BY <1>11 DEF StopCreation, TypeOK, evVars
<1>12. CASE NormalCreation
  <2>1. Call("creation", "update", {}) \in Calls
    BY CallTyped
  <2> QED BY <1>12, <2>1 DEF NormalCreation, TypeOK, evVars
<1>13. CASE Freeze
  <2>1. Call("freeze", "suspend", NotSuspended(QueuesAfterUpdate)) \in Calls
    BY CallTyped DEF NotSuspended
  <2>2. LibTypes' /\ EventTypes'
    BY <1>13, UpdateQueuesType DEF Freeze
  <2> QED BY <1>13, <2>1, <2>2
          DEF Freeze, CallType, ProcessTypes, ExternalTypes, extVars
<1>14. CASE FreezeBody
  BY <1>14, WriteBackType, IdleCallType DEF FreezeBody, TypeOK, evVars
<1>15. CASE Unfreeze
  BY <1>15 DEF Unfreeze, TypeOK, evVars, extVars
<1>16. CASE NextPendingEvent
  <2>1. Call("next", "query", {}) \in Calls
    BY CallTyped
  <2>2. EventTypes' /\ CallType'
    BY <1>16, <2>1, ReportHeadType
       DEF NextPendingEvent, RaiseNothing, evVars, EventTypes, CallType
  <2> QED BY <1>16, <2>2
          DEF NextPendingEvent, LibTypes, ProcessTypes, ExternalTypes, extVars
<1>17. CASE \E q \in Queues : QueryDebugEvent(q)
  <2>1. PICK q \in Queues : QueryDebugEvent(q)
    BY <1>17
  <2>2. call' \in Calls
    BY <2>1 DEF QueryDebugEvent, AfterQuery, CallType, Calls
  <2> QED BY <2>1, <2>2 DEF QueryDebugEvent, TypeOK, evVars
<1>18. CASE QueriesDone
  BY <1>18 DEF QueriesDone, TypeOK, Calls, evVars, extVars
<1>19. CASE TakeEvent
  <2>1. EventTypes' /\ CallType'
    BY <1>19, IdleCallType, ReportHeadType
       DEF TakeEvent, RaiseNothing, evVars, EventTypes, CallType
  <2> QED BY <1>19, <2>1
          DEF TakeEvent, LibTypes, ProcessTypes, ExternalTypes, extVars
<1>20. CASE \E w \in Waves, n \in Slots : EventProcessed(w, n)
  BY <1>20 DEF EventProcessed, TypeOK, EventStates, EventKinds, extVars
<1>21. CASE StopBody
  <2>1. PICK w \in call.wave : StopNothing(w) \/ StopRunning(w) \/ StopFails(w)
    BY <1>21 DEF StopBody
  <2>2. w \in Waves /\ QueueOf[w] \in Queues
    BY ConstantsAssumption DEF CallType, Calls, ConstantsAssumption
  <2>3. ResumeOrReturn(call.queues) \in Calls
    BY CallsTyped DEF CallType, Calls
  <2>4. CASE StopNothing(w)
    BY <2>3, <2>4 DEF StopNothing, TypeOK, evVars, extVars
  <2>5. CASE StopFails(w)
    BY <2>5, <1>f, FaultTypes DEF StopFails
  <2>6. CASE StopRunning(w)
    <3>1. wavesRunning' \in [Queues -> Nat \cup {NoCount}]
      BY <2>2, <2>6 DEF StopRunning, StopFault, LibTypes, NoCount
    <3>2. Stopped(w) \in WaveRecord
      BY <2>2, FreshSlotType DEF Stopped, LibTypes, WaveRecord
    <3>3. EventTypes'
      <4>1. [x \in Waves |-> IF wave[w].state = "step" THEN "terminated"
                                                      ELSE "stop"]
              \in [Waves -> EventKinds]
        BY DEF EventKinds
      <4> QED BY <2>2, <2>6, <4>1, RaiseEventsType DEF StopRunning
    <3>4. LibTypes'
      BY <2>2, <2>6, <3>1, <3>2 DEF StopRunning, LibTypes
    <3> QED BY <2>3, <2>6, <3>3, <3>4
            DEF StopRunning, CallType, ProcessTypes, ExternalTypes, extVars
  <2> QED BY <2>1, <2>4, <2>5, <2>6
<1>22. CASE ResumeBody
  <2>1. PICK w \in call.wave :
          ResumeNothing(w) \/ ResumeStopped(w) \/ ResumeWaveFails(w)
    BY <1>22 DEF ResumeBody
  <2>2. w \in Waves /\ QueueOf[w] \in Queues
    BY ConstantsAssumption DEF CallType, Calls, ConstantsAssumption
  <2>3. ResumeOrReturn(call.queues) \in Calls
    BY CallsTyped DEF CallType, Calls
  <2>4. CASE ResumeNothing(w)
    BY <2>3, <2>4 DEF ResumeNothing, TypeOK, evVars, extVars
  <2>5. CASE ResumeWaveFails(w)
    BY <2>5, <1>f, FaultTypes DEF ResumeWaveFails
  <2>6. CASE ResumeStopped(w)
    <3>1. wavesRunning' \in [Queues -> Nat \cup {NoCount}]
      BY <2>2, <2>6
         DEF ResumeStopped, ResumeWaveFault, CountResumed, LibTypes, NoCount
    <3>2. Resumed(w, BodyMode, call.exceptions) \in WaveRecord
      BY <2>2, ResumedType DEF BodyMode, CallType, Calls, ResumeModes
    <3>3. EventTypes'
      <4> DEFINE W == IF BodyMode \in {"simulate", "terminate"} THEN {w} ELSE {}
                 kind == [x \in Waves |-> IF BodyMode = "simulate"
                                            THEN "stop" ELSE "terminated"]
      <4>1. W \in SUBSET Waves /\ kind \in [Waves -> EventKinds]
        BY <2>2 DEF EventKinds
      <4>2. RaiseEvents(W, kind)
        BY <2>6 DEF ResumeStopped
      <4> HIDE DEF W, kind
      <4> QED BY <4>1, <4>2, RaiseEventsType
    <3>4. LibTypes'
      BY <2>2, <2>6, <3>1, <3>2 DEF ResumeStopped, LibTypes
    <3> QED BY <2>3, <2>6, <3>3, <3>4
            DEF ResumeStopped, CallType, ProcessTypes, ExternalTypes, extVars
  <2> QED BY <2>1, <2>4, <2>5, <2>6
<1>23. CASE NormalCreationBody
  <2>1. ResumeOrReturn(call.queues) \in Calls
    BY CallsTyped DEF CallType, Calls
  <2>2. wavesRunning' \in [Queues -> Nat \cup {NoCount}]
    <3>1. SUFFICES ASSUME NEW q \in Queues
                   PROVE  wavesRunning[q]
                            + Cardinality({w \in Hidden : QueueOf[w] = q})
                              \in Nat \cup {NoCount}
      BY <1>23 DEF NormalCreationBody
    <3>2. CASE {w \in Hidden : QueueOf[w] = q} = {}
      <4>1. Cardinality({w \in Hidden : QueueOf[w] = q}) = 0
        BY <3>2, FS_EmptySet
      <4>2. wavesRunning[q] \in Nat \cup {NoCount}
        BY DEF LibTypes
      <4> HIDE DEF Hidden
      <4> QED BY <4>1, <4>2 DEF NoCount
    <3>3. CASE {w \in Hidden : QueueOf[w] = q} # {}
      <4>1. wavesRunning[q] \in Nat
        BY <1>23, <3>3 DEF NormalCreationBody, HiddenFault, LibTypes
      <4>2. Cardinality({w \in Hidden : QueueOf[w] = q}) \in Nat
        BY WavesFinite DEF Hidden
      <4> QED BY <4>1, <4>2
    <3> QED BY <3>2, <3>3
  <2>3. wave' \in [Waves -> WaveRecord] /\ dirty' \subseteq Waves
    BY <1>23 DEF NormalCreationBody, Hidden, LibTypes, WaveRecord
  <2> QED BY <1>23, <2>1, <2>2, <2>3
          DEF NormalCreationBody, TypeOK, evVars, extVars
<1>24. CASE NormalCreationFails
  BY <1>24, <1>f DEF NormalCreationFails, HiddenFault, Faults
<1>25. CASE EnvironmentStep
  <2> USE ConstantsAssumption DEF ConstantsAssumption, TypeOK, libVars, HwStates
  <2>1. ASSUME NEW w \in Waves,
               HwLaunch(w) \/ HwTrap(w) \/ HwSingleStep(w) \/ HwEnd(w)
        PROVE  TypeOK'
    BY <2>1 DEF HwLaunch, HwTrap, HwSingleStep, HwEnd, HwStep
  <2>2. ASSUME NEW q \in Queues, OsCreateQueue(q) PROVE TypeOK'
    BY <2>2 DEF OsCreateQueue
  <2>3. ASSUME NEW q \in Queues, OsDestroyQueue(q) PROVE TypeOK'
    BY <2>3 DEF OsDestroyQueue
  <2>4. CASE ProcessExit
    BY <2>4 DEF ProcessExit
  <2> QED BY <1>25, <2>1, <2>2, <2>3, <2>4 DEF EnvironmentStep
<1>26. CASE NormalCreationQueues
  <2>1. Call("creation", "suspend", NotSuspended(QueuesAfterUpdate)) \in Calls
    BY CallTyped DEF NotSuspended
  <2>2. LibTypes' /\ EventTypes'
    BY <1>26, UpdateQueuesType DEF NormalCreationQueues
  <2> QED BY <1>26, <2>1, <2>2
          DEF NormalCreationQueues, CallType, ProcessTypes, ExternalTypes,
              extVars
<1>27. CASE QueryNewQueue
  <2>1. LibTypes' /\ EventTypes'
    BY <1>27, UpdateQueuesType DEF QueryNewQueue
  <2>2. call' \in Calls
    BY <1>27 DEF QueryNewQueue, CallType, Calls
  <2> QED BY <1>27, <2>1, <2>2
          DEF QueryNewQueue, CallType, ProcessTypes, ExternalTypes, extVars
<1>28. CASE UNCHANGED vars
  BY <1>28 DEF vars, libVars, extVars, TypeOK
<1> QED BY <1>1, <1>2, <1>3, <1>4, <1>5, <1>6, <1>7, <1>8, <1>9, <1>10, <1>11,
           <1>12, <1>13, <1>14, <1>15, <1>16, <1>17, <1>18, <1>19, <1>20,
           <1>21, <1>22, <1>23, <1>24, <1>25, <1>26, <1>27, <1>28
        DEF Next, LibraryStep, ClientStep

\* The state the library starts from has the types.
LEMMA InitType == Init => TypeOK
<1> SUFFICES ASSUME Init PROVE TypeOK
  OBVIOUS
<1>1. NoWave \in WaveRecord
  BY DEF NoWave, NewWave, WaveRecord, NoSlot
<1>2. LibTypes
  BY <1>1 DEF Init, LibTypes, QueueStates
<1>3. EventTypes
  BY DEF Init, EventTypes, EventStates, EventKinds
<1>4. ProcessTypes /\ CallType
  BY IdleCallType DEF Init, ProcessTypes, CallType, Faults
<1>5. ExternalTypes
  BY DEF Init, ExternalTypes, HwStates
<1> QED BY <1>2, <1>3, <1>4, <1>5, TypeParts

\* Every variable keeps the type the code declares it with: in particular the
\* count of running waves never goes below its "unknown" value.
THEOREM TypeCorrect == Spec => []TypeOK
<1>1. Init => TypeOK
  BY InitType
<1>2. TypeOK /\ [Next]_vars => TypeOK'
  BY TypeStep
<1> QED BY <1>1, <1>2, PTL DEF Spec

-----------------------------------------------------------------------------
(***************************************************************************)
(* The inductive invariant.  SuspensionAgrees and WavesObey are not        *)
(* inductive on their own: they need to know which queues a call in        *)
(* progress has suspended, that a count is reset before its queue runs, and *)
(* that what the library believes dead is dead.                            *)
(***************************************************************************)

\* A queue the library knows has been created, an invalid one has been
\* destroyed, and nothing lives in a process that exited.
Lifetimes ==
  /\ \A q \in Queues : qState[q] # "absent" => osQueue[q] # "unborn"
  /\ \A q \in Queues : qState[q] = "invalid" => osQueue[q] = "destroyed"
  /\ exited => \A q \in Queues : osQueue[q] = "destroyed"

\* The driver only holds queues that exist and that the library knows.
HeldIsKnown ==
  \A q \in osSusp : osQueue[q] = "alive" /\ qState[q] # "absent"

\* A wave_t lives in a queue_t.
KnownHasQueue ==
  \A w \in Waves : Known(w) => qState[QueueOf[w]] # "absent"

\* A queue on the hardware has no count; nor has one the library forgot.
RunningUncounted ==
  \A q \in Queues :
    qState[q] \in {"absent", "running"} =>
      wavesRunning[q] = NoCount \/ (qState[q] = "running" /\ AllStopped(q))

\* An update in the cache is of a wave the library knows.
DirtyIsKnown == \A w \in dirty : Known(w)

\* What a call has suspended when it reaches its body.
CallHolds ==
  /\ call.stage = "query" => call.op = "next"
  /\ call.op \in {"stop", "resume"} /\ call.stage = "suspend" =>
       \A w \in call.wave : \/ QueueOf[w] \in call.queues
                            \/ qState[QueueOf[w]] = "suspended"
  /\ call.op \in {"stop", "resume"} /\ call.stage = "body" =>
       \A w \in call.wave : qState[QueueOf[w]] \in {"suspended", "invalid"}
  /\ call.op = "creation" /\ call.stage = "suspend" =>
       \A q \in Queues : q \in call.queues \/ qState[q] \in {"suspended", "absent"}
  /\ call.op = "creation" /\ call.stage = "body" =>
       \A q \in Queues : qState[q] # "running"

\* A wave of a suspended queue has a record in the save area.
SuspendedPresent ==
  \A w \in Waves : Known(w) /\ QueueOf[w] \in osSusp => Present(w)

Core ==
  /\ Lifetimes
  /\ HeldIsKnown
  /\ KnownHasQueue
  /\ RunningUncounted
  /\ SuspensionAgrees
  /\ SuspendedPresent
  /\ DirtyIsKnown
  /\ WavesObey

\* What Core is about.
coreVars == <<qState, wavesRunning, wave, dirty, launchMode, osQueue, osSusp,
              hw, exited>>

Inv ==
  /\ TypeOK
  /\ Core
  /\ CallHolds

-----------------------------------------------------------------------------
(* Lemmas. *)

\* A step of the library that touches nothing the invariant speaks of keeps it.
LEMMA CoreUnchanged == Core /\ UNCHANGED coreVars => Core'
  BY DEF Core, coreVars, Lifetimes, HeldIsKnown, KnownHasQueue,
         RunningUncounted, SuspensionAgrees, SuspendedPresent, DirtyIsKnown,
         WavesObey, Known, Present, Alive, AllStopped, RegistersAgree

\* Outside the stages of a call that the invariant speaks of.
LEMMA QuietCall == call'.stage \notin {"query", "suspend", "body"} => CallHolds'
  BY DEF CallHolds

\* What a call has established about its queues lasts while both are untouched.
LEMMA CallUnchanged == CallHolds /\ UNCHANGED <<call, qState>> => CallHolds'
  BY DEF CallHolds

\* A call whose body is done resumes its queues or returns.
LEMMA ReturnStages ==
  ASSUME CallType
  PROVE  /\ \A Q : ResumeOrReturn(Q).stage \notin {"query", "update", "suspend", "body"}
         /\ AfterResume.stage \notin {"query", "update", "suspend", "body"}
<1>1. IdleCall.stage = "idle"
  BY DEF IdleCall
<1>2. Call(call.op, "resume", {}) \in Calls
      /\ Call(call.op, "resume", {}).stage = "resume"
  BY CallTyped DEF CallType, Calls
<1>3. ASSUME NEW Q
      PROVE  ResumeOrReturn(Q).stage \notin {"query", "update", "suspend", "body"}
  BY <1>1, <1>2 DEF ResumeOrReturn, Calls
<1>4. AfterResume.stage \notin {"query", "update", "suspend", "body"}
  BY <1>1, IdleCallType DEF AfterResume, Calls
<1> QED BY <1>3, <1>4

\* process_t::update_queues destroys only what the driver has destroyed, and
\* a queue it discovers runs.
LEMMA UpdateQueuesCore ==
  ASSUME TypeOK, Core, UpdateQueues,
         UNCHANGED <<launchMode, osQueue, osSusp, hw, exited>>
  PROVE  Core'
<1> USE ConstantsAssumption DEF ConstantsAssumption
<1>1. ASSUME NEW q \in Queues
      PROVE  qState'[q] = IF osQueue[q] # "alive" THEN "absent"
                          ELSE IF qState[q] = "absent" THEN "running"
                          ELSE qState[q]
  BY DEF UpdateQueues, QueuesAfterUpdate
<1>2. ASSUME NEW q \in Queues
      PROVE  wavesRunning'[q] = IF osQueue[q] # "alive" \/ qState[q] = "absent"
                                  THEN NoCount ELSE wavesRunning[q]
  BY DEF UpdateQueues
<1>3. ASSUME NEW w \in Waves
      PROVE  wave'[w] = IF osQueue[QueueOf[w]] # "alive" /\ Known(w)
                          THEN NoWave ELSE wave[w]
  BY DEF UpdateQueues
<1>4. ASSUME NEW w \in Waves
      PROVE  w \in dirty' <=> w \in dirty /\ ~(/\ osQueue[QueueOf[w]] # "alive"
                                               /\ Known(w))
  BY DEF UpdateQueues
<1>5. NoWave.state = "absent"
  BY DEF NoWave, NewWave
<1>6. ASSUME NEW w \in Waves, Known(w)'
      PROVE  wave'[w] = wave[w] /\ Known(w) /\ osQueue[QueueOf[w]] = "alive"
             /\ (w \in dirty' <=> w \in dirty)
  BY <1>3, <1>4, <1>5, <1>6 DEF Known
<1>7. Lifetimes'
  BY <1>1 DEF Core, Lifetimes, TypeOK
<1>8. HeldIsKnown'
  BY <1>1 DEF Core, HeldIsKnown, TypeOK
<1>9. KnownHasQueue'
  BY <1>1, <1>6 DEF KnownHasQueue
<1>10. RunningUncounted'
  BY <1>1, <1>2 DEF Core, RunningUncounted, AllStopped
<1>11. SuspensionAgrees'
  BY <1>1, <1>2
     DEF Core, SuspensionAgrees, HeldIsKnown, Alive, AllStopped, NoCount
<1>12. SuspendedPresent'
  BY <1>6 DEF Core, SuspendedPresent, Present
<1>13. DirtyIsKnown'
  BY <1>3, <1>4 DEF UpdateQueues, Core, DirtyIsKnown, Known, TypeOK
<1>14. WavesObey'
  BY <1>6 DEF Core, WavesObey, Alive, Present, RegistersAgree
<1> QED BY <1>7, <1>8, <1>9, <1>10, <1>11, <1>12, <1>13, <1>14 DEF Core

\* Register updates that reach memory say what the library believes.
LEMMA WriteBackObeys ==
  ASSUME TypeOK, WavesObey, NEW Q, WriteBack(Q), UNCHANGED <<wave, osQueue>>,
         \A w \in dirty' : QueueOf[w] \in osSusp => QueueOf[w] \in osSusp'
  PROVE  WavesObey'
<1> SUFFICES ASSUME NEW w \in Waves, Known(w)', Alive(QueueOf[w])'
             PROVE  IF w \in dirty' THEN QueueOf[w] \in osSusp' /\ Present(w)'
                                    ELSE RegistersAgree(w)'
  BY DEF WavesObey
<1>1. Known(w) /\ Alive(QueueOf[w])
  BY DEF Known, Alive
<1>2. CASE w \in dirty /\ QueueOf[w] \in Q
  <2>1. w \notin dirty' /\ Present(w)
    BY <1>1, <1>2 DEF WavesObey, WriteBack
  <2>2. hw'[w] = Registers(w)
    BY <1>2, <2>1 DEF WriteBack
  <2>3. wave[w].state \in {"run", "step", "stop"}
    BY <1>1 DEF Known, TypeOK, WaveRecord
  <2>4. RegistersAgree(w)'
    BY <2>2, <2>3 DEF RegistersAgree, Registers
  <2> QED BY <2>1, <2>4
<1>3. CASE w \in dirty /\ QueueOf[w] \notin Q
  <2>1. w \in dirty' /\ hw'[w] = hw[w]
    BY <1>3 DEF WriteBack
  <2> QED BY <1>1, <1>3, <2>1 DEF WavesObey, Present
<1>4. CASE w \notin dirty
  <2>1. w \notin dirty' /\ hw'[w] = hw[w]
    BY <1>4 DEF WriteBack
  <2> QED BY <1>1, <1>4, <2>1 DEF WavesObey, RegistersAgree
<1> QED BY <1>2, <1>3, <1>4

\* Writing back never makes a wave appear or disappear.
LEMMA WriteBackPresent ==
  ASSUME TypeOK, NEW Q, WriteBack(Q), NEW w \in Waves, Present(w)
  PROVE  Present(w)'
  BY DEF WriteBack, Present, Registers

-----------------------------------------------------------------------------
(* process_t::suspend_queues *)

\* What the body of a call finds, from what its suspension was asked for.
LEMMA SuspendCall ==
  ASSUME TypeOK, CallHolds, call.stage = "suspend",
         NEW V \in SUBSET Queues, call' = AfterSuspend(V),
         \A q \in call.queues : qState'[q] \in {"suspended", "invalid"},
         \A q \in Queues \ call.queues : qState'[q] = qState[q]
  PROVE  CallHolds'
<1> USE ConstantsAssumption DEF ConstantsAssumption
<1>1. CallType
  BY DEF TypeOK, CallType
<1>2. CASE call.op = "next"
  <2>1. call'.stage \in {"query", "resume"} /\ call'.op = "next"
    BY <1>1, <1>2 DEF AfterSuspend, CallType, Calls
  <2> QED BY <2>1 DEF CallHolds
<1>3. CASE call.op \in {"stop", "resume"}
  <2>1. /\ call'.op = call.op /\ call'.stage = "body"
        /\ call'.wave = call.wave /\ call.wave \in SUBSET Waves
    BY <1>1, <1>3 DEF AfterSuspend, CallType, Calls
  <2>2. \A w \in call.wave : qState'[QueueOf[w]] \in {"suspended", "invalid"}
    BY <1>3, <2>1 DEF CallHolds
  <2> QED BY <1>3, <2>1, <2>2 DEF CallHolds
<1>4. CASE call.op \in {"creation", "freeze"}
  <2>1. call'.op = call.op /\ call'.stage = "body"
    BY <1>1, <1>4 DEF AfterSuspend, CallType, Calls
  <2>2. call.op = "creation" => \A q \in Queues : qState'[q] # "running"
    BY <1>4 DEF CallHolds
  <2> QED BY <1>4, <2>1, <2>2 DEF CallHolds
<1>5. CASE call.op \notin {"next", "stop", "resume", "creation", "freeze"}
  <2>1. call' = ResumeOrReturn(call.queues)
    BY <1>5 DEF AfterSuspend
  <2> QED BY <1>1, <2>1, ReturnStages, QuietCall
<1> QED BY <1>2, <1>3, <1>4, <1>5

\* process_t::suspend_queues after the process exited keeps the invariant: all
\* its queues are destroyed, and become invalid.
LEMMA SuspendExitedInv ==
  ASSUME Inv, SuspendExited
  PROVE  Core' /\ CallHolds'
<1> DEFINE Q == call.queues
<1>1. Q \in SUBSET Queues /\ qState \in [Queues -> QueueStates]
  BY DEF Inv, TypeOK, Calls
<1>2. \A q \in Queues : osQueue[q] = "destroyed"
  BY DEF SuspendExited, Inv, Core, Lifetimes
<1>3. osSusp = {}
  BY <1>2 DEF Inv, TypeOK, Core, HeldIsKnown
<1>4. \A q \in Queues : qState'[q] = IF q \in Q THEN "invalid" ELSE qState[q]
  BY DEF SuspendExited
<1>5. UNCHANGED <<wavesRunning, wave, dirty, launchMode, osQueue, osSusp, hw,
                  exited>>
  BY DEF SuspendExited, extVars
<1>6. Lifetimes' /\ HeldIsKnown' /\ SuspensionAgrees' /\ SuspendedPresent'
  BY <1>2, <1>3, <1>4, <1>5
     DEF Lifetimes, HeldIsKnown, SuspensionAgrees, SuspendedPresent, Alive
<1>7. RunningUncounted'
  BY <1>4, <1>5 DEF Inv, Core, RunningUncounted, AllStopped
<1>8. KnownHasQueue' /\ DirtyIsKnown' /\ WavesObey'
  BY <1>2, <1>4, <1>5, ConstantsAssumption
     DEF Inv, Core, KnownHasQueue, DirtyIsKnown, WavesObey, Known, Alive,
         ConstantsAssumption
<1>9. CallHolds'
  <2>1. call.stage = "suspend" /\ call' = AfterSuspend({})
    BY DEF SuspendExited, InStage
  <2> QED BY <1>1, <1>4, <2>1, SuspendCall DEF Inv
<1> QED BY <1>6, <1>7, <1>8, <1>9 DEF Core

\* process_t::suspend_queues and aql_queue_t::update_waves keep the invariant:
\* what is read of a wave is what its registers say.
LEMMA SuspendLiveInv ==
  ASSUME Inv, SuspendLive
  PROVE  Core' /\ CallHolds'
<1> USE ConstantsAssumption DEF ConstantsAssumption
<1> DEFINE Q     == call.queues
           ok    == {q \in Sent(Q) : osQueue[q] = "alive"}
           valid == (ValidQueues(Q) \ Sent(Q)) \cup ok
           found == {w \in Waves : QueueOf[w] \in ok /\ Present(w)}
           gone  == {w \in Waves : QueueOf[w] \in ok /\ ~Present(w) /\ Known(w)}
<1>1. /\ Q \in SUBSET Queues /\ qState \in [Queues -> QueueStates]
      /\ osQueue \in [Queues -> {"unborn", "alive", "destroyed"}]
  BY DEF Inv, TypeOK, Calls
<1>2. ok \subseteq Queues /\ valid \in SUBSET Queues /\ ok \subseteq valid
      /\ valid \subseteq Q
  BY <1>1 DEF Sent, ValidQueues
<1>3. SuspendFault(Q) = "none"
  BY DEF SuspendLive
<1>4. /\ \A q \in Q : qState[q] \in {"running", "invalid"}
      /\ \A w \in dirty : QueueOf[w] \notin ok
  BY <1>1, <1>3 DEF SuspendFault, QueueStates
<1>5. \A q \in Queues : qState'[q] = IF q \in valid THEN "suspended"
                                     ELSE IF q \in Q THEN "invalid"
                                     ELSE qState[q]
  BY DEF SuspendLive
<1>6. /\ UNCHANGED <<launchMode, osQueue, hw, exited>>
      /\ osSusp' = osSusp \cup ok
  BY DEF SuspendLive
<1>7. \A q \in Queues \ ok : wavesRunning'[q] = wavesRunning[q]
  BY DEF SuspendLive, UpdateWaves
<1>8. /\ \A w \in Waves : wave'[w] = IF w \in found THEN Updated(w)
                                     ELSE IF w \in gone THEN NoWave
                                     ELSE wave[w]
      /\ dirty' = (dirty \ gone) \cup {w \in found : ~Known(w)}
  BY DEF SuspendLive, UpdateWaves
<1>9. \A q \in valid : osQueue[q] = "alive" => q \in osSusp'
  <2> SUFFICES ASSUME NEW q \in valid, osQueue[q] = "alive", q \notin ok
               PROVE  q \in osSusp
    BY <1>6
  <2>1. q \in Queues /\ qState[q] = "running" /\ AllStopped(q)
    BY <1>2, <1>4 DEF ValidQueues, Sent
  <2> QED BY <2>1 DEF Inv, Core, SuspensionAgrees, Alive
<1>10. \A q \in ok : osQueue[q] = "alive" /\ q \in Queues /\ q \in Q
  BY <1>2
<1>11. \A q \in Q \ valid : osQueue[q] = "destroyed"
  BY <1>1, <1>4
     DEF ValidQueues, Sent, Inv, Core, Lifetimes
<1>12. NoWave.state = "absent"
  BY DEF NoWave, NewWave
<1> HIDE DEF ok, valid, Q
<1>13. ASSUME NEW w \in Waves, Known(w)', QueueOf[w] \notin ok
       PROVE  wave'[w] = wave[w] /\ Known(w) /\ (w \in dirty' <=> w \in dirty)
  BY <1>8, <1>13 DEF Known
<1>14. ASSUME NEW w \in Waves, Known(w)', QueueOf[w] \in ok
       PROVE  w \in found
  BY <1>8, <1>12, <1>14 DEF Known
<1>15. Lifetimes'
  BY <1>1, <1>2, <1>4, <1>5, <1>6, <1>11 DEF Inv, Core, Lifetimes
<1>16. HeldIsKnown'
  BY <1>1, <1>2, <1>5, <1>6, <1>10 DEF Inv, TypeOK, Core, HeldIsKnown
<1>17. KnownHasQueue'
  BY <1>2, <1>5, <1>13 DEF Inv, Core, KnownHasQueue
<1>18. RunningUncounted'
  BY <1>2, <1>5, <1>6, <1>7 DEF Inv, Core, RunningUncounted, AllStopped
<1>19. SuspensionAgrees'
  BY <1>2, <1>5, <1>6, <1>7, <1>9
     DEF Inv, Core, SuspensionAgrees, Alive, AllStopped
<1>20. SuspendedPresent'
  BY <1>6, <1>13, <1>14 DEF Inv, Core, SuspendedPresent, Present
<1>21. WavesObey'
  <2> SUFFICES ASSUME NEW w \in Waves, Known(w)', Alive(QueueOf[w])'
               PROVE  IF w \in dirty' THEN QueueOf[w] \in osSusp' /\ Present(w)'
                                      ELSE RegistersAgree(w)'
    BY DEF WavesObey
  <2>1. CASE QueueOf[w] \notin ok
    BY <1>6, <1>13, <2>1
       DEF Inv, Core, WavesObey, Alive, Present, RegistersAgree
  <2>2. CASE QueueOf[w] \in ok /\ ~Known(w)
    BY <1>6, <1>8, <1>14, <2>2 DEF Present
  <2>3. CASE QueueOf[w] \in ok /\ Known(w)
    <3>1. w \notin dirty' /\ wave'[w] = Updated(w) /\ ~HaltedAtLaunch(w)
      BY <1>4, <1>8, <1>14, <2>3 DEF HaltedAtLaunch
    <3>2. RegistersAgree(w)
      BY <1>4, <1>6, <2>3 DEF Inv, Core, WavesObey, Alive
    <3>3. CASE NewlyStopped(w)
      <4>1. wave[w] \in WaveRecord
        BY DEF Inv, TypeOK
      <4>2. wave'[w].state = "stop"
        BY <2>3, <3>1, <3>3, <4>1 DEF Updated, WaveRecord
      <4>3. hw'[w] \in {"trapped", "stepped"}
        BY <1>6, <3>3 DEF NewlyStopped, Trapped
      <4> QED BY <3>1, <4>2, <4>3 DEF RegistersAgree
    <3>4. CASE ~NewlyStopped(w)
      <4>1. wave'[w] = wave[w]
        BY <2>3, <3>1, <3>4 DEF Updated
      <4> QED BY <1>6, <3>1, <3>2, <4>1 DEF RegistersAgree
    <3> QED BY <3>3, <3>4
  <2> QED BY <2>1, <2>2, <2>3
<1>22. DirtyIsKnown'
  <2>1. ASSUME NEW w \in Waves, ~Known(w) PROVE Updated(w).state # "absent"
    BY <2>1 DEF Updated, NewWave
  <2>2. ASSUME NEW w \in dirty, w \notin gone PROVE Known(w)'
    BY <1>4, <1>8, <2>2 DEF Inv, TypeOK, Core, DirtyIsKnown, Known
  <2> QED BY <1>8, <2>1, <2>2 DEF DirtyIsKnown, Known
<1>23. CallHolds'
  <2>1. call.stage = "suspend" /\ call' = AfterSuspend(valid)
    BY DEF SuspendLive, InStage, valid, ok, Q
  <2>2. \A q \in call.queues : qState'[q] \in {"suspended", "invalid"}
    BY <1>1, <1>5 DEF Q
  <2>3. \A q \in Queues \ call.queues : qState'[q] = qState[q]
    BY <1>2, <1>5 DEF Q
  <2> QED BY <1>2, <2>1, <2>2, <2>3, SuspendCall DEF Inv
<1> QED BY <1>15, <1>16, <1>17, <1>18, <1>19, <1>20, <1>21, <1>22, <1>23 DEF Core

-----------------------------------------------------------------------------
(* process_t::resume_queues *)

\* process_t::resume_queues after the exit of the process keeps the invariant.
LEMMA ResumeExitedInv ==
  ASSUME Inv, ResumeExited
  PROVE  Core' /\ CallHolds'
<1> DEFINE Q == call.resume
<1>1. \A q \in Queues : osQueue[q] = "destroyed"
  BY DEF ResumeExited, Inv, Core, Lifetimes
<1>2. osSusp = {}
  BY <1>1 DEF Inv, TypeOK, Core, HeldIsKnown
<1>3. \A q \in Queues : qState'[q] = IF q \in Q THEN "invalid" ELSE qState[q]
  BY DEF ResumeExited
<1>4. UNCHANGED <<wave, launchMode, osQueue, osSusp, exited>>
  BY DEF ResumeExited
<1>5. Lifetimes' /\ HeldIsKnown' /\ SuspensionAgrees' /\ SuspendedPresent'
  BY <1>1, <1>2, <1>3, <1>4
     DEF Lifetimes, HeldIsKnown, SuspensionAgrees, SuspendedPresent, Alive
<1>6. RunningUncounted'
  <2>1. \A q \in Queues \ Q : wavesRunning'[q] = wavesRunning[q]
    BY DEF ResumeExited, CountsAfterResume, Sent, ValidQueues
  <2> QED BY <1>3, <1>4, <2>1 DEF Inv, Core, RunningUncounted, AllStopped
<1>7. KnownHasQueue' /\ DirtyIsKnown' /\ WavesObey'
  <2>1. dirty' \subseteq dirty
    BY DEF ResumeExited, WriteBack
  <2> QED BY <1>1, <1>3, <1>4, <2>1, ConstantsAssumption
          DEF Inv, Core, KnownHasQueue, DirtyIsKnown, WavesObey, Known, Alive,
              ConstantsAssumption
<1>8. CallHolds'
  BY ReturnStages, QuietCall DEF ResumeExited, Inv, TypeOK, CallType
<1> QED BY <1>5, <1>6, <1>7, <1>8 DEF Core

\* process_t::resume_queues keeps the invariant: updates are written before the
\* driver gets the queue back, and an all-stopped queue is not given back.
LEMMA ResumeLiveInv ==
  ASSUME Inv, ResumeLive
  PROVE  Core' /\ CallHolds'
<1> USE ConstantsAssumption DEF ConstantsAssumption
<1> DEFINE Q == call.resume
<1>1. Q \in SUBSET Queues /\ qState \in [Queues -> QueueStates]
  BY DEF Inv, TypeOK, Calls
<1>2. \A q \in Q : qState[q] \in {"suspended", "invalid"}
  BY <1>1 DEF ResumeLive, ResumeFault, QueueStates
<1>3. /\ Sent(Q) \subseteq ValidQueues(Q) /\ ValidQueues(Q) \subseteq Q
      /\ \A q \in ValidQueues(Q) : qState[q] = "suspended"
      /\ \A q \in ValidQueues(Q) \ Sent(Q) : AllStopped(q)
  BY <1>2 DEF Sent, ValidQueues
<1>4. \A q \in Queues : qState'[q] = IF q \in ValidQueues(Q) THEN "running"
                                                             ELSE qState[q]
  BY DEF ResumeLive
<1>5. \A q \in Queues : wavesRunning'[q] = IF q \in Sent(Q) THEN NoCount
                                                           ELSE wavesRunning[q]
  BY DEF ResumeLive, CountsAfterResume
<1>6. /\ UNCHANGED <<wave, launchMode, osQueue, exited>>
      /\ osSusp' = osSusp \ Sent(Q)
      /\ WriteBack(Sent(Q))
  BY DEF ResumeLive
<1> HIDE DEF Q
<1>7. Lifetimes'
  BY <1>1, <1>3, <1>4, <1>6 DEF Inv, Core, Lifetimes
<1>8. HeldIsKnown'
  BY <1>4, <1>6 DEF Inv, TypeOK, Core, HeldIsKnown
<1>9. KnownHasQueue'
  BY <1>4, <1>6 DEF Inv, Core, KnownHasQueue, Known
<1>10. RunningUncounted'
  BY <1>3, <1>4, <1>5, <1>6 DEF Inv, Core, RunningUncounted, AllStopped
<1>11. SuspensionAgrees'
  BY <1>3, <1>4, <1>5, <1>6
     DEF Inv, Core, SuspensionAgrees, Alive, AllStopped, NoCount
<1>12. SuspendedPresent'
  BY <1>6, WriteBackPresent DEF Inv, Core, SuspendedPresent, Known
<1>13. WavesObey'
  <2>1. \A w \in dirty' : QueueOf[w] \in osSusp => QueueOf[w] \in osSusp'
    BY <1>6 DEF WriteBack
  <2> QED BY <1>6, <2>1, WriteBackObeys DEF Inv, Core
<1>14. DirtyIsKnown'
  BY <1>6 DEF Inv, Core, DirtyIsKnown, WriteBack, Known
<1>15. CallHolds'
  BY ReturnStages, QuietCall DEF ResumeLive, Inv, TypeOK, CallType
<1> QED BY <1>7, <1>8, <1>9, <1>10, <1>11, <1>12, <1>13, <1>14, <1>15 DEF Core

-----------------------------------------------------------------------------
(* The bodies of the wave and process calls. *)

\* wave_t::set_state on a wave of a queue the call holds suspended: whatever
\* it does to the wave and the count, the update waits in the cache.
LEMMA SetStateInv ==
  ASSUME Inv, NEW w \in Waves, Known(w), Known(w)',
         qState[QueueOf[w]] \in {"suspended", "invalid"},
         UNCHANGED <<qState, launchMode, osQueue, osSusp, hw, exited>>,
         \A x \in Waves \ {w} : wave'[x] = wave[x],
         \A q \in Queues \ {QueueOf[w]} : wavesRunning'[q] = wavesRunning[q],
         dirty' = dirty \cup {w}
  PROVE  Core'
<1> USE ConstantsAssumption DEF ConstantsAssumption
<1>1. Lifetimes' /\ HeldIsKnown'
  BY DEF Inv, Core, Lifetimes, HeldIsKnown
<1>2. KnownHasQueue'
  BY DEF Inv, Core, KnownHasQueue, Known
<1>3. RunningUncounted'
  BY DEF Inv, Core, RunningUncounted, AllStopped
<1>4. SuspensionAgrees'
  BY DEF Inv, Core, SuspensionAgrees, AllStopped, Alive
<1>5. SuspendedPresent'
  BY DEF Inv, Core, SuspendedPresent, Known, Present
<1>6. Alive(QueueOf[w]) => QueueOf[w] \in osSusp /\ Present(w)
  BY DEF Inv, Core, Lifetimes, SuspensionAgrees, SuspendedPresent, Alive
<1>7. WavesObey'
  <2> SUFFICES ASSUME NEW x \in Waves, Known(x)', Alive(QueueOf[x])'
               PROVE  IF x \in dirty' THEN QueueOf[x] \in osSusp' /\ Present(x)'
                                      ELSE RegistersAgree(x)'
    BY DEF WavesObey
  <2>1. CASE x = w
    BY <1>6, <2>1 DEF Alive, Present
  <2>2. CASE x # w
    BY <2>2 DEF Inv, Core, WavesObey, Known, Alive, Present, RegistersAgree
  <2> QED BY <2>1, <2>2
<1>8. DirtyIsKnown'
  BY DEF Inv, TypeOK, Core, DirtyIsKnown, Known
<1> QED BY <1>1, <1>2, <1>3, <1>4, <1>5, <1>7, <1>8 DEF Core

\* The part of amd_dbgapi_wave_stop after its suspension keeps the invariant.
LEMMA StopBodyInv ==
  ASSUME Inv, StopBody
  PROVE  Core' /\ CallHolds'
<1>1. PICK w \in call.wave : StopNothing(w) \/ StopRunning(w) \/ StopFails(w)
  BY DEF StopBody
<1>2. w \in Waves /\ qState[QueueOf[w]] \in {"suspended", "invalid"}
  BY DEF StopBody, InStage, Inv, CallHolds, TypeOK, Calls
<1>3. CASE StopNothing(w)
  BY <1>3, CoreUnchanged, ReturnStages, QuietCall
     DEF StopNothing, coreVars, extVars, Inv, TypeOK, CallType
<1>4. CASE StopFails(w)
  BY <1>4, CoreUnchanged, CallUnchanged
     DEF StopFails, Fail, coreVars, extVars, Inv
<1>5. CASE StopRunning(w)
  <2>1. Core'
    <3>1. Known(w)'
      BY <1>2, <1>5 DEF StopRunning, Stopped, Known, Inv, TypeOK, WaveRecord
    <3> QED BY <1>2, <1>5, <3>1, SetStateInv
            DEF StopRunning, Found, extVars, Inv, TypeOK
  <2>2. CallHolds'
    BY <1>5, ReturnStages, QuietCall DEF StopRunning, Inv, TypeOK, CallType
  <2> QED BY <2>1, <2>2
<1> QED BY <1>1, <1>3, <1>4, <1>5

\* The part of amd_dbgapi_wave_resume after its suspension keeps the invariant.
LEMMA ResumeBodyInv ==
  ASSUME Inv, ResumeBody
  PROVE  Core' /\ CallHolds'
<1>1. PICK w \in call.wave :
        ResumeNothing(w) \/ ResumeStopped(w) \/ ResumeWaveFails(w)
  BY DEF ResumeBody
<1>2. w \in Waves /\ qState[QueueOf[w]] \in {"suspended", "invalid"}
  BY DEF ResumeBody, InStage, Inv, CallHolds, TypeOK, Calls
<1>3. CASE ResumeNothing(w)
  BY <1>3, CoreUnchanged, ReturnStages, QuietCall
     DEF ResumeNothing, coreVars, extVars, Inv, TypeOK, CallType
<1>4. CASE ResumeWaveFails(w)
  BY <1>4, CoreUnchanged, CallUnchanged
     DEF ResumeWaveFails, Fail, coreVars, extVars, Inv
<1>5. CASE ResumeStopped(w)
  <2>1. Core'
    <3>1. BodyMode \in ResumeModes
      BY DEF Inv, TypeOK, Calls, BodyMode, ResumeModes
    <3>2. Resumed(w, BodyMode, call.exceptions).state # "absent"
      BY <1>2, <3>1 DEF Resumed, ResumeModes, Inv, TypeOK, WaveRecord
    <3>3. Known(w)'
      BY <1>2, <1>5, <3>2 DEF ResumeStopped, Known, Inv, TypeOK
    <3> QED BY <1>2, <1>5, <3>3, SetStateInv
            DEF ResumeStopped, Found, extVars, Inv, TypeOK
  <2>2. CallHolds'
    BY <1>5, ReturnStages, QuietCall DEF ResumeStopped, Inv, TypeOK, CallType
  <2> QED BY <2>1, <2>2
<1> QED BY <1>1, <1>3, <1>4, <1>5

\* process_t::set_wave_launch_mode: the mode leaves "halt" while no queue runs,
\* so that no queue was counting on being all-stopped.
LEMMA NormalCreationBodyInv ==
  ASSUME Inv, NormalCreationBody
  PROVE  Core' /\ CallHolds'
<1> USE ConstantsAssumption DEF ConstantsAssumption
<1>1. \A q \in Queues : qState[q] # "running"
  BY DEF NormalCreationBody, InStage, Inv, CallHolds
<1>2. /\ UNCHANGED <<qState, osQueue, osSusp, hw, exited>>
      /\ launchMode' = "normal"
      /\ dirty' = dirty \cup Hidden
      /\ \A w \in Waves \ Hidden : wave'[w] = wave[w]
  BY DEF NormalCreationBody, extVars
<1>3. \A w \in Hidden : w \in Waves /\ Known(w)
  BY DEF Hidden
<1>4. Lifetimes' /\ HeldIsKnown'
  BY <1>2 DEF Inv, Core, Lifetimes, HeldIsKnown
<1>5. KnownHasQueue'
  BY <1>2, <1>3 DEF Inv, Core, KnownHasQueue, Known
<1>6. RunningUncounted'
  <2> SUFFICES ASSUME NEW q \in Queues, qState[q] = "absent"
               PROVE  wavesRunning'[q] = NoCount
    BY <1>1, <1>2 DEF RunningUncounted
  <2>1. wavesRunning[q] = NoCount
    BY DEF Inv, Core, RunningUncounted
  <2>2. {w \in Hidden : QueueOf[w] = q} = {}
    BY <1>3 DEF Inv, Core, KnownHasQueue
  <2>3. Cardinality({w \in Hidden : QueueOf[w] = q}) = 0
    BY <2>2, FS_EmptySet
  <2>4. wavesRunning'[q] = NoCount + 0
    BY <2>1, <2>3 DEF NormalCreationBody
  <2> QED BY <2>4 DEF NoCount
<1>7. SuspensionAgrees'
  BY <1>1, <1>2 DEF Inv, Core, SuspensionAgrees, AllStopped, Alive
<1>8. SuspendedPresent'
  BY <1>2, <1>3 DEF Inv, Core, SuspendedPresent, Known, Present
<1>9. \A w \in Hidden : Alive(QueueOf[w]) => QueueOf[w] \in osSusp /\ Present(w)
  <2> SUFFICES ASSUME NEW w \in Hidden, Alive(QueueOf[w])
               PROVE  QueueOf[w] \in osSusp /\ Present(w)
    OBVIOUS
  <2>1. qState[QueueOf[w]] = "suspended"
    BY <1>1, <1>3
       DEF Inv, TypeOK, QueueStates, Core, KnownHasQueue, Lifetimes, Alive
  <2> QED BY <1>3, <2>1 DEF Inv, Core, SuspensionAgrees, SuspendedPresent
<1>10. WavesObey'
  BY <1>2, <1>9
     DEF Inv, Core, WavesObey, Known, Alive, Present, RegistersAgree
<1>11. CallHolds'
  BY ReturnStages, QuietCall DEF NormalCreationBody, Inv, TypeOK, CallType
<1>12. DirtyIsKnown'
  <2>1. \A w \in Hidden : Known(w)'
    BY <1>3 DEF NormalCreationBody, Known, Inv, TypeOK, WaveRecord
  <2> QED BY <1>2, <2>1 DEF Inv, TypeOK, Core, DirtyIsKnown, Known
<1> QED BY <1>4, <1>5, <1>6, <1>7, <1>8, <1>10, <1>11, <1>12 DEF Core

\* A running queue has no count, so that stopping wave creation makes no
\* running queue look all-stopped.
LEMMA StopCreationInv ==
  ASSUME Inv, StopCreation
  PROVE  Core' /\ CallHolds'
<1>1. UNCHANGED <<qState, wavesRunning, wave, dirty, osQueue, osSusp, hw,
                  exited, call>>
  BY DEF StopCreation
<1>2. \A q \in Queues : qState[q] \in {"absent", "running"} =>
                          wavesRunning[q] = NoCount
  BY DEF StopCreation, Inv, Core, RunningUncounted, AllStopped
<1>3. RunningUncounted'
  BY <1>1, <1>2 DEF RunningUncounted
<1>4. SuspensionAgrees'
  BY <1>1, <1>2
     DEF StopCreation, Inv, Core, SuspensionAgrees, AllStopped, Alive, NoCount
<1>5. /\ Lifetimes' /\ HeldIsKnown' /\ KnownHasQueue' /\ SuspendedPresent'
      /\ DirtyIsKnown' /\ WavesObey'
  BY <1>1 DEF Inv, Core, Lifetimes, HeldIsKnown, KnownHasQueue,
              SuspendedPresent, DirtyIsKnown, WavesObey, Known, Present, Alive,
              RegistersAgree
<1>6. CallHolds'
  BY <1>1, CallUnchanged DEF Inv
<1> QED BY <1>3, <1>4, <1>5, <1>6 DEF Core

\* process_t::freeze keeps the invariant: it writes every update back.
LEMMA FreezeBodyInv ==
  ASSUME Inv, FreezeBody
  PROVE  Core' /\ CallHolds'
<1>1. /\ UNCHANGED <<qState, wavesRunning, wave, launchMode, osQueue, osSusp,
                     exited>>
      /\ WriteBack(Queues)
  BY DEF FreezeBody
<1>2. /\ Lifetimes' /\ HeldIsKnown' /\ KnownHasQueue' /\ RunningUncounted'
      /\ SuspensionAgrees'
  BY <1>1 DEF Inv, Core, Lifetimes, HeldIsKnown, KnownHasQueue,
              RunningUncounted, SuspensionAgrees, Known, Alive, AllStopped
<1>3. SuspendedPresent' /\ DirtyIsKnown'
  BY <1>1, WriteBackPresent
     DEF Inv, Core, SuspendedPresent, DirtyIsKnown, WriteBack, Known
<1>4. WavesObey'
  BY <1>1, WriteBackObeys DEF Inv, Core
<1>5. CallHolds'
  BY QuietCall DEF FreezeBody, IdleCall
<1> QED BY <1>2, <1>3, <1>4, <1>5 DEF Core

-----------------------------------------------------------------------------
(* The hardware, the driver and the inferior. *)

\* A wave moves only on a queue the driver has not suspended, where no update
\* waits in the cache; so that it moves from what the library told it to do.
LEMMA HwInv ==
  ASSUME Inv, NEW w \in Waves,
         HwLaunch(w) \/ HwTrap(w) \/ HwSingleStep(w) \/ HwEnd(w)
  PROVE  Core' /\ CallHolds'
<1>1. /\ UNCHANGED <<qState, wavesRunning, wave, dirty, launchMode, call,
                     osQueue, osSusp, exited>>
      /\ OnHardware(w)
      /\ \A x \in Waves \ {w} : hw'[x] = hw[x]
  BY DEF HwLaunch, HwTrap, HwSingleStep, HwEnd, HwStep, libVars, Inv, TypeOK
<1>2. /\ Lifetimes' /\ HeldIsKnown' /\ KnownHasQueue' /\ RunningUncounted'
      /\ SuspensionAgrees' /\ DirtyIsKnown'
  BY <1>1
     DEF Inv, Core, Lifetimes, HeldIsKnown, KnownHasQueue, RunningUncounted,
         SuspensionAgrees, DirtyIsKnown, Known, Alive, AllStopped
<1>3. SuspendedPresent'
  BY <1>1 DEF Inv, Core, SuspendedPresent, Known, Present, OnHardware
<1>4. Known(w) => w \notin dirty /\ RegistersAgree(w)
  BY <1>1 DEF Inv, Core, WavesObey, OnHardware, Alive
<1>5. Known(w) => RegistersAgree(w)'
  <2> SUFFICES ASSUME Known(w) PROVE RegistersAgree(w)'
    OBVIOUS
  <2>1. wave[w].state \in {"run", "step", "stop"}
    BY DEF Known, Inv, TypeOK, WaveRecord
  <2>2. \/ hw[w] = "unborn"
        \/ hw[w] \in {"running", "stepping"} /\ hw'[w] \in {"trapped", "ended"}
        \/ hw[w] = "stepping" /\ hw'[w] = "stepped"
        \/ hw[w] = "ending" /\ hw'[w] = "ended"
    BY DEF HwLaunch, HwTrap, HwSingleStep, HwEnd, HwStep, Inv, TypeOK
  <2> QED BY <1>1, <1>4, <2>1, <2>2 DEF RegistersAgree
<1>6. WavesObey'
  <2> SUFFICES ASSUME NEW x \in Waves, Known(x)', Alive(QueueOf[x])'
               PROVE  IF x \in dirty' THEN QueueOf[x] \in osSusp' /\ Present(x)'
                                      ELSE RegistersAgree(x)'
    BY DEF WavesObey
  <2>1. CASE x = w
    BY <1>1, <1>4, <1>5, <2>1 DEF Known
  <2>2. CASE x # w
    BY <1>1, <2>2 DEF Inv, Core, WavesObey, Known, Alive, Present, RegistersAgree
  <2> QED BY <2>1, <2>2
<1>7. CallHolds'
  BY <1>1, CallUnchanged DEF Inv
<1> QED BY <1>2, <1>3, <1>6, <1>7 DEF Core

\* The hardware, the driver and the inferior keep the invariant.
LEMMA EnvironmentInv ==
  ASSUME Inv, EnvironmentStep
  PROVE  Core' /\ CallHolds'
<1> USE ConstantsAssumption DEF ConstantsAssumption
<1>1. ASSUME NEW q \in Queues, OsCreateQueue(q) PROVE Core' /\ CallHolds'
  <2>1. /\ UNCHANGED <<qState, wavesRunning, wave, dirty, launchMode, call,
                       osSusp, hw, exited>>
        /\ osQueue[q] = "unborn" /\ ~exited
        /\ \A p \in Queues : osQueue'[p] = IF p = q THEN "alive" ELSE osQueue[p]
    BY <1>1 DEF OsCreateQueue, libVars, Inv, TypeOK
  <2>2. qState[q] = "absent" /\ \A w \in Waves : Known(w) => QueueOf[w] # q
    BY <2>1 DEF Inv, Core, Lifetimes, KnownHasQueue
  <2>3. /\ Lifetimes' /\ HeldIsKnown' /\ KnownHasQueue' /\ RunningUncounted'
        /\ SuspensionAgrees' /\ DirtyIsKnown'
    BY <2>1, <2>2
       DEF Inv, TypeOK, Core, Lifetimes, HeldIsKnown, KnownHasQueue,
           RunningUncounted, SuspensionAgrees, DirtyIsKnown, Known, Alive,
           AllStopped
  <2>4. SuspendedPresent' /\ WavesObey'
    BY <2>1, <2>2 DEF Inv, Core, SuspendedPresent, WavesObey, Known, Present,
                      Alive, RegistersAgree
  <2> QED BY <2>1, <2>3, <2>4, CallUnchanged DEF Core, Inv
<1>2. ASSUME NEW q \in Queues, OsDestroyQueue(q) PROVE Core' /\ CallHolds'
  <2>1. /\ UNCHANGED <<qState, wavesRunning, wave, dirty, launchMode, call,
                       exited>>
        /\ osQueue[q] = "alive" /\ osSusp' = osSusp \ {q}
        /\ \A p \in Queues : osQueue'[p] = IF p = q THEN "destroyed"
                                                    ELSE osQueue[p]
        /\ \A w \in Waves : QueueOf[w] # q => hw'[w] = hw[w]
    BY <1>2 DEF OsDestroyQueue, libVars, Inv, TypeOK
  <2>2. /\ Lifetimes' /\ HeldIsKnown' /\ KnownHasQueue' /\ RunningUncounted'
        /\ SuspensionAgrees' /\ DirtyIsKnown'
    BY <2>1
       DEF Inv, TypeOK, Core, Lifetimes, HeldIsKnown, KnownHasQueue,
           RunningUncounted, SuspensionAgrees, DirtyIsKnown, Known, Alive,
           AllStopped
  <2>3. SuspendedPresent' /\ WavesObey'
    BY <2>1 DEF Inv, Core, SuspendedPresent, WavesObey, Known, Present,
                Alive, RegistersAgree
  <2> QED BY <2>1, <2>2, <2>3, CallUnchanged DEF Core, Inv
<1>3. CASE ProcessExit
  <2>1. /\ UNCHANGED <<qState, wavesRunning, wave, dirty, launchMode, call>>
        /\ osSusp' = {} /\ \A p \in Queues : osQueue'[p] = "destroyed"
    BY <1>3 DEF ProcessExit, libVars
  <2>2. /\ Lifetimes' /\ HeldIsKnown' /\ KnownHasQueue' /\ RunningUncounted'
        /\ SuspensionAgrees' /\ SuspendedPresent' /\ DirtyIsKnown' /\ WavesObey'
    BY <2>1
       DEF Inv, Core, Lifetimes, HeldIsKnown, KnownHasQueue, RunningUncounted,
           SuspensionAgrees, SuspendedPresent, DirtyIsKnown, WavesObey, Known,
           Alive, AllStopped
  <2> QED BY <2>1, <2>2, CallUnchanged DEF Core, Inv
<1> QED BY <1>1, <1>2, <1>3, HwInv DEF EnvironmentStep

-----------------------------------------------------------------------------
(* The calls of the client. *)

\* A call that only notes what it wants to suspend.
LEMMA ClientInv ==
  ASSUME Inv, ClientStep
  PROVE  Core' /\ CallHolds'
<1> USE ConstantsAssumption DEF ConstantsAssumption
<1>1. ASSUME NEW w \in Waves, WaveStop(w) PROVE Core' /\ CallHolds'
  <2>1. UNCHANGED coreVars
    BY <1>1 DEF WaveStop, coreVars, extVars
  <2>2. call'.op = "stop" /\ call'.stage = "suspend" /\ call'.wave = {w}
        /\ call'.queues = ScopedQueues(w)
    BY <1>1, CallTyped DEF WaveStop, ScopedQueues, Calls
  <2>3. CallHolds'
    BY <2>1, <2>2 DEF CallHolds, ScopedQueues, coreVars
  <2> QED BY <2>1, <2>3, CoreUnchanged DEF Inv
<1>2. ASSUME NEW w \in Waves, NEW c \in Commands,
             WaveResume(w, c.mode, c.exceptions)
      PROVE  Core' /\ CallHolds'
  <2>1. UNCHANGED coreVars
    BY <1>2 DEF WaveResume, coreVars, extVars
  <2>2. call'.op = "resume" /\ call'.stage = "suspend" /\ call'.wave = {w}
        /\ call'.queues = ScopedQueues(w)
    BY <1>2, CallTyped DEF WaveResume, ScopedQueues, Calls
  <2>3. CallHolds'
    BY <2>1, <2>2 DEF CallHolds, ScopedQueues, coreVars
  <2> QED BY <2>1, <2>3, CoreUnchanged DEF Inv
<1>3. ASSUME WaveList \/ Freeze PROVE Core' /\ CallHolds'
  <2>1. Core'
    BY <1>3, UpdateQueuesCore DEF WaveList, Freeze, extVars, Inv
  <2>2. call'.op \in {"list", "freeze"} /\ call'.stage = "suspend"
    BY <1>3, CallTyped DEF WaveList, Freeze, NotSuspended
  <2> QED BY <2>1, <2>2 DEF CallHolds
<1>4. CASE NormalCreation
  <2>1. UNCHANGED coreVars
    BY <1>4 DEF NormalCreation, coreVars
  <2>2. call'.stage = "update"
    BY <1>4, CallTyped DEF NormalCreation
  <2> QED BY <2>1, <2>2, CoreUnchanged, QuietCall DEF Inv
<1>5. ASSUME NEW needed \in BOOLEAN, SetProgress(needed)
      PROVE  Core' /\ CallHolds'
  <2>1. UNCHANGED coreVars
    BY <1>5 DEF SetProgress, coreVars, extVars
  <2>2. call'.stage \in {"resume", "idle"}
    BY <1>5, CallTyped, IdleCallType DEF SetProgress, Calls, IdleCall
  <2> QED BY <2>1, <2>2, CoreUnchanged, QuietCall DEF Inv
<1>6. CASE StopCreation
  BY <1>6, StopCreationInv
<1>7. CASE Unfreeze
  BY <1>7, CoreUnchanged, CallUnchanged
     DEF Unfreeze, coreVars, extVars, Inv
<1>8. CASE NextPendingEvent
  <2>1. UNCHANGED coreVars
    BY <1>8 DEF NextPendingEvent, coreVars, extVars
  <2>2. \/ call'.stage = "query" /\ call'.op = "next"
        \/ UNCHANGED <<call, qState>>
    BY <1>8, CallTyped DEF NextPendingEvent
  <2>3. CallHolds'
    BY <2>2, CallUnchanged DEF Inv, CallHolds
  <2> QED BY <2>1, <2>3, CoreUnchanged DEF Inv
<1>9. ASSUME NEW w \in Waves, NEW n \in Slots, EventProcessed(w, n)
      PROVE  Core' /\ CallHolds'
  BY <1>9, CoreUnchanged, CallUnchanged
     DEF EventProcessed, coreVars, extVars, Inv
<1> QED BY <1>1, <1>2, <1>3, <1>4, <1>5, <1>6, <1>7, <1>8, <1>9 DEF ClientStep

\* The steps inside a call.
LEMMA LibraryInv ==
  ASSUME Inv, LibraryStep
  PROVE  Core' /\ CallHolds'
<1>1. ASSUME NEW name, Fail(name) PROVE Core' /\ CallHolds'
  BY <1>1, CoreUnchanged, CallUnchanged DEF Fail, coreVars, extVars, Inv
<1>2. CASE SuspendFails \/ ResumeFails \/ NormalCreationFails
  BY <1>1, <1>2 DEF SuspendFails, ResumeFails, NormalCreationFails
<1>3. ASSUME NEW q \in Queues, QueryDebugEvent(q) PROVE Core' /\ CallHolds'
  <2>1. Core'
    BY <1>3, CoreUnchanged DEF QueryDebugEvent, coreVars, Inv
  <2>2. call'.stage \in {"query", "update"} /\ call'.op = "next"
    BY <1>3 DEF QueryDebugEvent, AfterQuery, InStage, Inv, CallHolds, TypeOK, Calls
  <2> QED BY <2>1, <2>2 DEF CallHolds
<1>4. CASE QueriesDone
  <2>1. Core'
    BY <1>4, CoreUnchanged DEF QueriesDone, coreVars, extVars, Inv
  <2>2. call'.stage = "suspend" /\ call'.op = "next"
    BY <1>4 DEF QueriesDone, InStage, Inv, CallHolds, TypeOK, Calls
  <2> QED BY <2>1, <2>2 DEF CallHolds
<1>5. CASE TakeEvent
  BY <1>5, CoreUnchanged, QuietCall DEF TakeEvent, coreVars, extVars, Inv, IdleCall
<1>6. CASE QueryNewQueue
  <2>1. Core'
    BY <1>6, UpdateQueuesCore DEF QueryNewQueue, extVars, Inv
  <2>2. call'.stage = "query" /\ call'.op = "next"
    BY <1>6 DEF QueryNewQueue, Inv, TypeOK, Calls
  <2> QED BY <2>1, <2>2 DEF CallHolds
<1>7. CASE NormalCreationQueues
  <2>1. Core'
    BY <1>7, UpdateQueuesCore DEF NormalCreationQueues, extVars, Inv
  <2>2. call'.op = "creation" /\ call'.stage = "suspend"
        /\ call'.queues = NotSuspended(QueuesAfterUpdate)
    BY <1>7, CallTyped DEF NormalCreationQueues, NotSuspended
  <2>3. \A q \in Queues : q \in call'.queues \/ qState'[q] \in {"suspended", "absent"}
    BY <1>7, <2>2
       DEF NormalCreationQueues, UpdateQueues, NotSuspended, QueuesAfterUpdate,
           Inv, TypeOK, QueueStates
  <2> QED BY <2>1, <2>2, <2>3 DEF CallHolds
<1> QED BY <1>2, <1>3, <1>4, <1>5, <1>6, <1>7, SuspendExitedInv, SuspendLiveInv,
           ResumeExitedInv, ResumeLiveInv, StopBodyInv, ResumeBodyInv,
           NormalCreationBodyInv, FreezeBodyInv
        DEF LibraryStep

-----------------------------------------------------------------------------
(* The theorems. *)

\* The invariant holds when the process is attached and has no queue.
LEMMA InitInv == Init => Inv
<1> SUFFICES ASSUME Init PROVE Inv
  OBVIOUS
<1>1. TypeOK
  BY InitType
<1>2. \A w \in Waves : ~Known(w)
  BY DEF Init, Known, NoWave, NewWave
<1>3. Core
  BY <1>2 DEF Init, Core, Lifetimes, HeldIsKnown, KnownHasQueue,
              RunningUncounted, SuspensionAgrees, SuspendedPresent,
              DirtyIsKnown, WavesObey
<1>4. CallHolds
  BY DEF Init, CallHolds, IdleCall
<1> QED BY <1>1, <1>3, <1>4 DEF Inv

\* Every step keeps the invariant.
LEMMA InvStep == Inv /\ [Next]_vars => Inv'
<1> SUFFICES ASSUME Inv, [Next]_vars PROVE Inv'
  OBVIOUS
<1>1. TypeOK'
  BY TypeStep DEF Inv
<1>2. CASE LibraryStep
  BY <1>1, <1>2, LibraryInv DEF Inv
<1>3. CASE ClientStep
  BY <1>1, <1>3, ClientInv DEF Inv
<1>4. CASE EnvironmentStep
  BY <1>1, <1>4, EnvironmentInv DEF Inv
<1>5. CASE UNCHANGED vars
  BY <1>1, <1>5, CoreUnchanged, CallUnchanged
     DEF Inv, vars, libVars, extVars, coreVars
<1> QED BY <1>2, <1>3, <1>4, <1>5 DEF Next

\* The inductive invariant holds in every execution of run control.
LEMMA Invariance == Spec => []Inv
  BY InitInv, InvStep, PTL DEF Spec

\* The driver holds a queue exactly when the library believes it suspended or
\* all-stopped, although suspend_queues and resume_queues skip the driver call
\* for all-stopped queues and never ask the driver what it holds.
THEOREM SuspensionAgreement == Spec => []SuspensionAgrees
<1>1. Inv => SuspensionAgrees
  BY DEF Inv, Core
<1> QED BY <1>1, Invariance, PTL

\* Waves do what the client was told they do: a wave whose queue can execute
\* has in its registers what wave_t::m_state says, and the updates that sit in
\* the memory cache are of waves whose queue is held by the driver.
THEOREM WavesObeyClient == Spec => []WavesObey
<1>1. Inv => WavesObey
  BY DEF Inv, Core
<1> QED BY <1>1, Invariance, PTL

\* memory_cache_t::discard never meets a dirty line, and update_waves never
\* finds that a wave it holds stopped has ended: neither assertion can fail.
NothingLost == fault \notin {"discarding_dirty_line", "stopped_wave_ended"}

\* No suspension finds an update that was never written, or a stopped wave gone.
LEMMA SuspensionLosesNothing ==
  ASSUME Inv
  PROVE  SuspendFault(call.queues)
           \notin {"discarding_dirty_line", "stopped_wave_ended"}
<1> USE ConstantsAssumption DEF ConstantsAssumption
<1> DEFINE ok == {q \in Sent(call.queues) : osQueue[q] = "alive"}
<1>1. CASE \E q \in call.queues : qState[q] \in {"absent", "suspended"}
  <2>1. SuspendFault(call.queues) \in {"dangling_queue", "already_suspended"}
    BY <1>1 DEF SuspendFault
  <2> QED BY <2>1
<1>2. CASE \A q \in call.queues : qState[q] \notin {"absent", "suspended"}
  <2>1. \A q \in ok : q \in Queues /\ Alive(q) /\ q \notin osSusp
    BY <1>2 DEF Sent, ValidQueues, Inv, Core, SuspensionAgrees, TypeOK, Calls,
                QueueStates, Alive
  <2> HIDE DEF ok
  <2>2. ASSUME NEW w \in dirty PROVE QueueOf[w] \notin ok
    BY <2>1, <2>2 DEF Inv, TypeOK, Core, DirtyIsKnown, WavesObey
  <2>3. ASSUME NEW w \in Waves, QueueOf[w] \in ok, wave[w].state = "stop"
        PROVE  Present(w)
    BY <2>1, <2>3 DEF Inv, Core, WavesObey, RegistersAgree, Known, Present
  <2>4. SuspendFault(call.queues) = "none"
    BY <1>2, <2>2, <2>3 DEF SuspendFault, ok
  <2> QED BY <2>4
<1> QED BY <1>1, <1>2

\* No update of a wave is lost and no stopped wave disappears while its queue
\* is suspended and resumed around it.
THEOREM NothingIsLost == Spec => []NothingLost
<1>1. Init => NothingLost
  BY DEF Init, NothingLost
<1>2. Inv /\ NothingLost /\ [Next]_vars => NothingLost'
  <2> SUFFICES ASSUME Inv, NothingLost, [Next]_vars PROVE NothingLost'
    OBVIOUS
  <2>1. CASE UNCHANGED fault
    BY <2>1 DEF NothingLost
  <2>2. CASE SuspendFails
    BY <2>2, SuspensionLosesNothing DEF SuspendFails, Fail, NothingLost
  <2>3. CASE ResumeFails \/ NormalCreationFails
    BY <2>3 DEF ResumeFails, NormalCreationFails, ResumeFault, HiddenFault,
                Fail, NothingLost
  <2>4. ASSUME NEW w, StopNothing(w) \/ StopRunning(w) \/ StopFails(w)
        PROVE  NothingLost'
    BY <2>4 DEF StopNothing, StopRunning, StopFails, StopFault, Fail, NothingLost
  <2>5. ASSUME NEW w, ResumeNothing(w) \/ ResumeStopped(w) \/ ResumeWaveFails(w)
        PROVE  NothingLost'
    BY <2>5 DEF ResumeNothing, ResumeStopped, ResumeWaveFails, ResumeWaveFault,
                Fail, NothingLost
  <2>6. CASE StopBody \/ ResumeBody
    BY <2>4, <2>5, <2>6 DEF StopBody, ResumeBody
  <2>7. CASE \/ SuspendExited \/ SuspendLive \/ NormalCreationBody \/ FreezeBody
             \/ ResumeExited \/ ResumeLive \/ QueriesDone \/ TakeEvent
             \/ NormalCreationQueues \/ QueryNewQueue
             \/ \E q \in Queues : QueryDebugEvent(q)
    BY <2>1, <2>7 DEF SuspendExited, SuspendLive, NormalCreationBody, FreezeBody,
                ResumeExited, ResumeLive, QueriesDone, TakeEvent, QueryDebugEvent,
                NormalCreationQueues, QueryNewQueue
  <2>8. CASE ClientStep
    BY <2>1, <2>8 DEF ClientStep, WaveStop, WaveResume, WaveList, SetProgress,
                StopCreation, NormalCreation, Freeze, Unfreeze,
                NextPendingEvent, EventProcessed
  <2>9. CASE EnvironmentStep
    BY <2>1, <2>9 DEF EnvironmentStep, HwLaunch, HwTrap, HwSingleStep, HwEnd,
                HwStep, OsCreateQueue, OsDestroyQueue, ProcessExit, libVars
  <2>10. CASE UNCHANGED vars
    BY <2>1, <2>10 DEF vars, libVars
  <2> QED BY <2>2, <2>3, <2>6, <2>7, <2>8, <2>9, <2>10 DEF Next, LibraryStep
<1> QED BY <1>1, <1>2, Invariance, PTL DEF Spec
===============================================================================
