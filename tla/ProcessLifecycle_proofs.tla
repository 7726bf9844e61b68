----------------------- MODULE ProcessLifecycle_proofs -----------------------
(***************************************************************************)
(* Proofs about ProcessLifecycle, for any code objects and threads and any *)
(* number of attaches, loads of the runtime and updates of its list.       *)
(***************************************************************************)
EXTENDS ProcessLifecycle, FiniteSetTheorems, TLAPS

-----------------------------------------------------------------------------
(* The inductive invariant.                                                *)

Events == [kind : {"runtime"}, state : RuntimeStates, attach : BOOLEAN]
            \cup [kind : {"list", "resume"}, thread : Threads]
Calls == [op : {"none", "attach", "event", "hit", "detach", "failing"},
          stage : {"idle", "compute", "subscribe", "breakpoint", "state",
                   "list", "listed", "take", "launch", "watches", "disable"},
          to : OsStates, saved : BOOLEAN]

(* The types, by owner.                                                    *)
ClientType ==
    /\ attached \in BOOLEAN /\ supports \in BOOLEAN /\ flag \in BOOLEAN
    /\ setting \in Settings
    /\ watches \in 0..MaxWatches /\ kept \in BOOLEAN
    /\ objects \subseteq Objects /\ seen \subseteq Objects /\ changed \in BOOLEAN
    /\ runtime \in RuntimeStates /\ info \in OsStates
    /\ bpt \in {"absent", "inserted", "refused"}
CallType ==
    /\ call \in Calls
    /\ fault \in {"none", "torn list", "set_exceptions_reported", "detach",
                  "spurious runtime exception"}
EventType == pending \in Seq(Events) /\ reported \subseteq Events
DriverType ==
    /\ drv \in [debug : BOOLEAN, all : BOOLEAN, set : Settings]
    /\ excp \in BOOLEAN /\ rtState \in OsStates
HostType ==
    /\ rtWait \in BOOLEAN /\ exited \in BOOLEAN /\ rtList \subseteq Objects
    /\ loader \in [thread : Threads,
                   phase : {"idle", "entry", "changing", "exit", "halted"}]
    /\ count \in [attaches : 0..MaxAttaches, loads : 0..MaxLoads, updates : 0..MaxUpdates]
(* Settings of a driver nobody asked for anything: the defaults, but for a  *)
(* trap override that a detach did not remove.                             *)
Left == drv.set = Defaults \/ (kept /\ drv.set = TrapsLeft.set)

(* Before attach and after detach nothing is left of the process_t.        *)
Detached ==
    /\ setting = Defaults /\ ~supports
    /\ runtime = "unloaded" /\ info = "disabled" /\ ~flag
    /\ objects = {} /\ ~changed /\ seen = {}
    /\ bpt = "absent"
    /\ pending = <<>> /\ reported = {}
    /\ call = Return /\ fault = "none"
    /\ ~exited => Left /\ ~drv.debug /\ ~drv.all /\ ~excp /\ ~rtWait
    /\ loader.phase \in {"idle", "changing"}

(* The error paths belong to a process that has exited; while it lives its *)
(* agents are in debug mode and support what the client was given.         *)
Healthy ==
    /\ fault \notin {"torn list", "spurious runtime exception"}
    /\ fault # "none" => exited /\ attached
    /\ attached /\ ~exited => drv.debug
    /\ supports => Precise
    /\ setting.precise /\ ~exited => supports

(* The calls in progress, and the runtime state at each of their stages.   *)
CallShape ==
    /\ call.stage = "idle" => call = Return
    /\ call.stage \in {"compute", "subscribe", "breakpoint", "take"}
         => call.op \in {"attach", "event"}
    /\ call.stage \in {"state", "list", "listed"} => call.op \in {"attach", "event", "hit"}
    /\ call.stage \in {"launch", "watches"} => call.op = "detach"
    /\ call.stage = "disable" => call.op \in {"detach", "failing"}
    /\ call.stage # "idle" => attached
    /\ runtime = "unloaded" <=> info = "disabled"
    /\ call.stage = "compute" => (call.to = "disabled" <=> info # "disabled")
    /\ call.stage = "compute" /\ call.op = "attach" => flag /\ info = "disabled"
    /\ call.stage = "subscribe" => runtime # "restriction"
    /\ call.stage \in {"breakpoint", "state", "list", "listed"} => runtime = "success"

(* The breakpoint at r_brk is inserted while the runtime is followed.      *)
BreakpointShape ==
    /\ bpt = "inserted" =>
         \/ runtime = "success" /\ call.stage \notin {"subscribe", "breakpoint"}
         \/ runtime = "unloaded" /\ call.stage = "subscribe"
    /\ fault = "none" /\ runtime = "success" /\ call.stage \notin {"subscribe", "breakpoint"}
         => bpt = "inserted"

(* The runtime state the library knows, or is about to record; the driver  *)
(* has an exception for it when its own differs, and then the runtime      *)
(* waits.                                                                  *)
Known == IF call.stage = "compute" THEN call.to ELSE info
EventCompute == call.stage = "compute" /\ call.op = "event"
Exceptions ==
    attached /\ ~exited =>
        /\ excp <=> ~(Known = "disabled" <=> rtState = "disabled")
        /\ excp \/ EventCompute => rtWait
        /\ EventCompute => ~excp

(* An answer to the runtime.  There is one at most, in the queue or        *)
(* reported, and none while an exception is still to become an event.      *)
IsAnswer(e) == e.kind = "runtime" /\ ~e.attach
Answers == {e \in PendingSet \cup reported : IsAnswer(e)}
AtMostOne ==
    /\ \A i, j \in DOMAIN pending : IsAnswer(pending[i]) /\ IsAnswer(pending[j]) => i = j
    /\ \A e, f \in reported : IsAnswer(e) /\ IsAnswer(f) => e = f
    /\ \A i \in DOMAIN pending, e \in reported : ~(IsAnswer(pending[i]) /\ IsAnswer(e))
Answering ==
    /\ Answers # {} => rtWait \/ exited
    /\ EventCompute \/ (excp /\ ~exited) => Answers = {}
    /\ AtMostOne

(* A detach undoes the settings one by one; it gives up only in a process  *)
(* that has exited.                                                        *)
DetachShape ==
    /\ call.op = "failing" => exited
    /\ call.op = "detach" => ~setting.precise
    /\ call.op = "detach" /\ call.stage # "launch" => setting.launch = "normal"
    /\ call.op = "detach" /\ call.stage = "disable" /\ setting.trap => kept

(* What the driver has of the settings.                                    *)
InForce ==
    /\ attached /\ runtime = "success" /\ rtState # "disabled"
    /\ call.stage \in {"idle", "take"} \/ call.op \in {"hit", "detach"}
DriverSet ==
    ~exited => IF InForce THEN drv.set = setting ELSE Left

(* The code objects: none without a runtime, those of the inferior where   *)
(* no update is under way; a change the client has not seen is remembered. *)
ListSafe ==
    /\ objects # {} =>
         \/ runtime = "success" /\ call.stage \notin {"subscribe", "breakpoint"}
         \/ runtime = "unloaded" /\ call.stage = "subscribe"
    /\ call.stage = "list" /\ ~exited => loader.phase # "changing"
    /\ call.op = "hit" /\ ~exited => Stopped
    /\ seen # objects => changed \/ (call.op = "hit" /\ call.saved)
EntryUnread ==
    call.op = "hit" /\ ~exited /\ loader.phase = "entry" => ~changed /\ call.stage # "list"
ListRead ==
    /\ attached /\ ~exited /\ runtime = "success" /\ rtState # "disabled"
    /\ call.stage \in {"idle", "take", "listed"}
    /\ \/ loader.phase \in {"idle", "halted"}
       \/ call.op = "hit" /\ loader.phase = "exit"
    => objects = rtList

IInv ==
    /\ ClientType /\ CallType /\ EventType /\ DriverType /\ HostType
    /\ ~attached => Detached
    /\ Healthy /\ CallShape /\ DetachShape /\ BreakpointShape
    /\ Exceptions /\ Answering /\ DriverSet
    /\ ListSafe /\ EntryUnread /\ ListRead

-----------------------------------------------------------------------------
(* The helpers the calls are made of.                                      *)

(* Goto changes the stage of the call only.                                *)
LEMMA GotoFacts ==
  ASSUME CallType, Goto("subscribe") \/ Goto("breakpoint") \/ Goto("state") \/ Goto("list")
                   \/ Goto("listed") \/ Goto("take") \/ Goto("watches") \/ Goto("disable")
  PROVE  /\ call'.op = call.op /\ call'.to = call.to /\ call'.saved = call.saved
         /\ call' \in Calls
         /\ Goto("subscribe") => call'.stage = "subscribe"
         /\ Goto("breakpoint") => call'.stage = "breakpoint"
         /\ Goto("state") => call'.stage = "state"
         /\ Goto("list") => call'.stage = "list"
         /\ Goto("listed") => call'.stage = "listed"
         /\ Goto("take") => call'.stage = "take"
         /\ Goto("watches") => call'.stage = "watches"
         /\ Goto("disable") => call'.stage = "disable"
<1>1. call \in Calls
  BY DEF CallType
<1>2. PICK s \in {"subscribe", "breakpoint", "state",
                   "list", "listed", "take", "watches", "disable"} :
        call' = [call EXCEPT !.stage = s]
  BY DEF Goto
<1>3. /\ call'.op = call.op /\ call'.to = call.to /\ call'.saved = call.saved
      /\ call' \in Calls
  BY <1>1, <1>2 DEF Calls
<1> QED BY <1>1, <1>3 DEF Goto, Calls

(* A call that is done has returned, or takes an event.                    *)
Done == /\ call \in Calls
        /\ call = Return \/ (call.stage = "take" /\ call.op = "event")
LEMMA FinishFacts ==
  ASSUME CallType, NEW q, Finish(q)
  PROVE  Done' /\ call'.stage \in {"idle", "take"} /\ call'.op \in {"none", "event"}
<1>1. CASE call' = Return
  BY <1>1 DEF Done, Calls, Return, OsStates
<1>2. CASE call.op = "event" /\ Goto("take")
  BY <1>2, GotoFacts DEF Done
<1> QED BY <1>1, <1>2 DEF Finish

(* An event is added at the end of the FIFO.                               *)
LEMMA AppendEvent ==
  ASSUME EventType, NEW e \in Events, pending' = Append(pending, e)
  PROVE  /\ pending' \in Seq(Events) /\ PendingSet' = PendingSet \cup {e}
         /\ DOMAIN pending' = 1..(Len(pending) + 1) /\ pending'[Len(pending) + 1] = e
         /\ \A i \in DOMAIN pending : pending'[i] = pending[i]
         /\ DOMAIN pending = 1..Len(pending) /\ Len(pending) \in Nat
<1>1. /\ pending' \in Seq(Events)
      /\ DOMAIN pending' = 1..(Len(pending) + 1) /\ pending'[Len(pending) + 1] = e
      /\ \A i \in DOMAIN pending : pending'[i] = pending[i]
      /\ DOMAIN pending = 1..Len(pending) /\ Len(pending) \in Nat
  BY DEF EventType
<1>2. PendingSet' = PendingSet \cup {e}
  BY <1>1 DEF PendingSet
<1> QED BY <1>1, <1>2

(* The first event leaves the FIFO.                                        *)
LEMMA TailEvent ==
  ASSUME EventType, pending # <<>>, pending' = Tail(pending)
  PROVE  /\ pending' \in Seq(Events) /\ PendingSet' \subseteq PendingSet
         /\ 1 \in DOMAIN pending /\ Head(pending) = pending[1] /\ Head(pending) \in Events
         /\ Head(pending) \in PendingSet
         /\ \A i \in DOMAIN pending' : /\ i + 1 \in DOMAIN pending /\ i \in Nat \ {0}
                                       /\ pending'[i] = pending[i + 1]
<1>1. /\ pending' \in Seq(Events) /\ DOMAIN pending' = 1..(Len(pending) - 1)
      /\ DOMAIN pending = 1..Len(pending) /\ Len(pending) \in Nat \ {0}
      /\ \A i \in DOMAIN pending' : pending'[i] = pending[i + 1]
      /\ Head(pending) = pending[1]
  BY DEF EventType
<1>2. 1 \in DOMAIN pending /\ pending[1] \in Events /\ pending[1] \in PendingSet
  BY <1>1 DEF EventType, PendingSet
<1>3. \A i \in DOMAIN pending' : i + 1 \in DOMAIN pending /\ i \in Nat \ {0}
  BY <1>1
<1>4. PendingSet' \subseteq PendingSet
  BY <1>1, <1>3 DEF PendingSet
<1> QED BY <1>1, <1>2, <1>3, <1>4

(* The types together are the type invariant.                              *)
LEMMA TypesTogether ==
  ClientType /\ CallType /\ EventType /\ DriverType /\ HostType => TypeOK
<1> SUFFICES ASSUME ClientType, CallType, EventType, DriverType, HostType PROVE TypeOK
  OBVIOUS
<1>1. reported \cup PendingSet \subseteq Events
  BY DEF EventType, PendingSet
<1> QED
  BY <1>1 DEF TypeOK, ClientType, CallType, Calls, DriverType, HostType, Events

(* An event that is no answer changes nothing for the runtime.             *)
LEMMA NoAnswerAdded ==
  ASSUME EventType, AtMostOne, NEW e \in Events, ~IsAnswer(e),
         pending' = Append(pending, e), reported' \subseteq reported
  PROVE  AtMostOne' /\ Answers' \subseteq Answers
<1>1. /\ PendingSet' = PendingSet \cup {e}
      /\ DOMAIN pending' = 1..(Len(pending) + 1) /\ pending'[Len(pending) + 1] = e
      /\ \A i \in DOMAIN pending : pending'[i] = pending[i]
      /\ DOMAIN pending = 1..Len(pending) /\ Len(pending) \in Nat
  BY AppendEvent
<1>2. \A i \in DOMAIN pending' : IsAnswer(pending'[i]) =>
         i \in DOMAIN pending /\ pending'[i] = pending[i]
  BY <1>1
<1>3. AtMostOne'
  BY <1>2 DEF AtMostOne, IsAnswer
<1>4. Answers' \subseteq Answers
  BY <1>1 DEF Answers, IsAnswer
<1> QED BY <1>3, <1>4

(* Where there is no answer, one may be added.                             *)
LEMMA AnswerAdded ==
  ASSUME EventType, Answers = {}, NEW e \in Events,
         pending' = Append(pending, e), UNCHANGED reported
  PROVE  AtMostOne'
<1>1. /\ DOMAIN pending' = 1..(Len(pending) + 1)
      /\ \A i \in DOMAIN pending : pending'[i] = pending[i]
      /\ DOMAIN pending = 1..Len(pending) /\ Len(pending) \in Nat
  BY AppendEvent
<1>2. \A i \in DOMAIN pending : ~IsAnswer(pending[i])
  BY DEF Answers, PendingSet
<1>3. \A f \in reported : ~IsAnswer(f)
  BY DEF Answers
<1>4. \A i \in DOMAIN pending' : IsAnswer(pending'[i]) => i = Len(pending) + 1
  BY <1>1, <1>2
<1> QED BY <1>3, <1>4 DEF AtMostOne

(* Reporting an event moves it from the FIFO.                              *)
LEMMA AnswerReported ==
  ASSUME EventType, AtMostOne, pending # <<>>, pending' = Tail(pending),
         reported' = reported \cup {Head(pending)}
  PROVE  AtMostOne' /\ Answers' \subseteq Answers
<1>1. /\ PendingSet' \subseteq PendingSet /\ Head(pending) \in PendingSet
      /\ 1 \in DOMAIN pending /\ Head(pending) = pending[1]
      /\ \A i \in DOMAIN pending' : /\ i + 1 \in DOMAIN pending /\ i \in Nat \ {0}
                                    /\ pending'[i] = pending[i + 1]
  BY TailEvent
<1>2. Answers' \subseteq Answers
  BY <1>1 DEF Answers, IsAnswer
<1>3. \A i, j \in DOMAIN pending' : IsAnswer(pending'[i]) /\ IsAnswer(pending'[j]) => i = j
  <2> SUFFICES ASSUME NEW i \in DOMAIN pending', NEW j \in DOMAIN pending',
                      IsAnswer(pending'[i]), IsAnswer(pending'[j])
               PROVE  i = j
    OBVIOUS
  <2>1. i + 1 = j + 1
    BY <1>1 DEF AtMostOne
  <2> QED BY <1>1, <2>1
<1>4. \A e, f \in reported' : IsAnswer(e) /\ IsAnswer(f) => e = f
  BY <1>1 DEF AtMostOne
<1>5. \A i \in DOMAIN pending', e \in reported' : ~(IsAnswer(pending'[i]) /\ IsAnswer(e))
  <2> SUFFICES ASSUME NEW i \in DOMAIN pending', NEW e \in reported',
                      IsAnswer(pending'[i]), IsAnswer(e)
               PROVE  FALSE
    OBVIOUS
  <2>1. CASE e \in reported
    BY <1>1, <2>1 DEF AtMostOne
  <2>2. CASE e = Head(pending)
    <3>1. i + 1 = 1
      BY <1>1, <2>2 DEF AtMostOne
    <3> QED BY <1>1, <3>1
  <2> QED BY <2>1, <2>2
<1> QED BY <1>2, <1>3, <1>4, <1>5 DEF AtMostOne, IsAnswer

(* Processing an answer leaves none.                                       *)
LEMMA AnswerGiven ==
  ASSUME EventType, AtMostOne, NEW e \in reported, IsAnswer(e),
         UNCHANGED pending, reported' = reported \ {e}
  PROVE  AtMostOne' /\ Answers' = {}
<1>1. PendingSet' = PendingSet
  BY DEF PendingSet
<1>2. \A f \in PendingSet' \cup reported' : ~IsAnswer(f)
  BY <1>1 DEF AtMostOne, PendingSet
<1> QED BY <1>2 DEF AtMostOne, Answers, IsAnswer

-----------------------------------------------------------------------------
(* The steps, one lemma each.                                              *)

(* A setting reaches the driver if the runtime is followed, and only then. *)
LEMMA SetFacts ==
  ASSUME IInv, NEW new \in Settings, Set(new)
  PROVE  /\ setting' = new
         /\ drv' \in [debug : BOOLEAN, all : BOOLEAN, set : Settings] /\ drv'.debug = drv.debug
         /\ drv'.set = IF runtime = "success" /\ ~exited /\ rtState # "disabled"
                       THEN new ELSE drv.set
  BY DEF Set, Apply, IInv, DriverType

(* A call of the client that changes settings, and watchpoints with them.  *)
LEMMA SettingStep ==
  ASSUME IInv, Live, NEW new \in Settings, Set(new),
         new.precise => supports \/ setting.precise,
         watches' \in 0..MaxWatches,
         UNCHANGED <<attached, supports, seen, kept, lists, events, runtime, info, flag, bpt,
                     call, fault, excp, rtState, host>>
  PROVE  IInv'
<1> USE LifecycleAssumption DEF LifecycleAssumption
<1>1. /\ UNCHANGED <<kept, attached, supports, seen, objects, changed, pending, reported, runtime,
                    info, flag, bpt, call, fault, excp, rtState, rtWait, rtList, loader, exited,
                    count>>
      /\ setting' = new
      /\ attached /\ fault = "none" /\ call = Return /\ call.stage = "idle" /\ call.op = "none"
  BY SetFacts DEF lists, events, host, Live, Idle, IInv, CallShape, Return
<1>2. /\ drv' \in [debug : BOOLEAN, all : BOOLEAN, set : Settings] /\ drv'.debug = drv.debug
      /\ drv'.set = IF runtime = "success" /\ ~exited /\ rtState # "disabled"
                    THEN new ELSE drv.set
  BY SetFacts
<1>4. PendingSet' = PendingSet
  BY <1>1 DEF PendingSet
<1>5. CallType' /\ EventType' /\ HostType'
  BY <1>1 DEF IInv, CallType, EventType, HostType
<1>6. CallShape' /\ DetachShape' /\ BreakpointShape' /\ Exceptions' /\ Answering'
  BY <1>1, <1>4
  DEF IInv, CallShape, DetachShape, BreakpointShape, Exceptions, Known, EventCompute,
      Answering, AtMostOne, Answers, IsAnswer
<1>7. ListSafe' /\ EntryUnread' /\ ListRead'
  BY <1>1 DEF IInv, ListSafe, Stopped, EntryUnread, ListRead
<1>8. ClientType'
  BY <1>1 DEF IInv, ClientType
<1>9. DriverType'
  BY <1>1, <1>2 DEF IInv, DriverType
<1>10. (~attached => Detached)'
  BY <1>1
<1>11. Healthy'
  BY <1>1, <1>2 DEF IInv, Healthy
<1>12. DriverSet'
  BY <1>1, <1>2 DEF IInv, DriverSet, InForce, Left
<1> QED
  BY <1>5, <1>6, <1>7, <1>8, <1>9, <1>10, <1>11, <1>12 DEF IInv

(* The launch mode and precise memory.                                     *)
LEMMA SetOnlyStep ==
  ASSUME IInv, NEW new \in Settings, SetOnly(new),
         new.precise => supports \/ setting.precise
  PROVE  IInv'
<1>1. /\ UNCHANGED <<attached, supports, seen, kept, lists, events, runtime, info, flag, bpt,
                     call, fault, excp, rtState, host>>
      /\ Live /\ Set(new) /\ watches' \in 0..MaxWatches
  BY DEF SetOnly, IInv, ClientType
<1> QED BY <1>1, SettingStep

(* A watchpoint is set, or refused.                                        *)
LEMMA SetWatchpointStep ==
  ASSUME IInv, SetWatchpoint
  PROVE  IInv'
<1> USE LifecycleAssumption DEF LifecycleAssumption
<1> DEFINE new == [setting EXCEPT !.trap = @ \/ watches = 0]
<1>1. new \in Settings /\ new.precise = setting.precise
  BY DEF IInv, ClientType, Settings
<1>2. watches' \in 0..MaxWatches
  BY DEF SetWatchpoint, IInv, ClientType
<1>3. /\ UNCHANGED <<attached, supports, seen, kept, lists, events, runtime, info, flag, bpt,
                     call, fault, excp, rtState, host>>
      /\ Live /\ Set(new)
  BY DEF SetWatchpoint
<1> HIDE DEF new
<1> QED BY <1>1, <1>2, <1>3, SettingStep

(* The override goes with the only watchpoint there is.                    *)
LEMMA OverrideFacts ==
  ASSUME IInv, RemoveOverride
  PROVE  \E new \in Settings :
           /\ Set(new) /\ new.precise = setting.precise /\ new.launch = setting.launch
<1> DEFINE new == [setting EXCEPT !.trap = @ /\ watches # 1]
<1>1. new \in Settings /\ new.precise = setting.precise /\ new.launch = setting.launch
  BY DEF IInv, ClientType, Settings
<1>2. Set(new)
  BY DEF RemoveOverride
<1> HIDE DEF new
<1> QED BY <1>1, <1>2

(* A watchpoint is removed.                                                *)
LEMMA RemoveWatchpointStep ==
  ASSUME IInv, RemoveWatchpoint
  PROVE  IInv'
<1> USE LifecycleAssumption DEF LifecycleAssumption
<1>1. PICK new \in Settings :
        /\ Set(new) /\ new.precise = setting.precise /\ new.launch = setting.launch
  BY OverrideFacts DEF RemoveWatchpoint
<1>2. watches' \in 0..MaxWatches
  BY DEF RemoveWatchpoint, IInv, ClientType
<1>3. /\ UNCHANGED <<attached, supports, seen, kept, lists, events, runtime, info, flag, bpt,
                     call, fault, excp, rtState, host>>
      /\ Live
  BY DEF RemoveWatchpoint
<1> QED BY <1>1, <1>2, <1>3, SettingStep

(* The agents are listed again: their support is lost with the process only. *)
LEMMA AgentListStep ==
  ASSUME IInv, AgentList
  PROVE  IInv'
<1> USE LifecycleAssumption DEF LifecycleAssumption
<1>1. /\ UNCHANGED <<watches, kept, attached, setting, seen, objects, changed, pending, reported, runtime,
                    info, flag, bpt, call, fault, drv, excp, rtState, rtWait, rtList, loader, exited,
                    count>>
      /\ supports' = (Precise /\ drv.debug /\ ~exited)
      /\ attached /\ fault = "none" /\ call = Return /\ call.stage = "idle" /\ call.op = "none"
  BY DEF AgentList, SupportsAfter, lists, events, kfd, host, Live, Idle, IInv, CallShape, Return
<1>2. PendingSet' = PendingSet
  BY <1>1 DEF PendingSet
<1>3. CallType' /\ EventType' /\ DriverType' /\ HostType'
  BY <1>1 DEF IInv, CallType, EventType, DriverType, HostType
<1>4. CallShape' /\ DetachShape' /\ BreakpointShape' /\ Exceptions' /\ Answering'
  BY <1>1, <1>2
  DEF IInv, CallShape, DetachShape, BreakpointShape, Exceptions, Known, EventCompute, Answering,
      AtMostOne, Answers, IsAnswer
<1>5. DriverSet' /\ ListSafe' /\ EntryUnread' /\ ListRead'
  BY <1>1 DEF IInv, DriverSet, InForce, Left, ListSafe, Stopped, EntryUnread, ListRead
<1>6. ClientType'
  BY <1>1 DEF IInv, ClientType
<1>7. (~attached => Detached)'
  BY <1>1 DEF IInv, Detached, Left
<1>8. Healthy'
  BY <1>1 DEF IInv, Healthy
<1> QED
  BY <1>3, <1>4, <1>5, <1>6, <1>7, <1>8 DEF IInv

(* The client is given the list.                                           *)
LEMMA CodeObjectListStep ==
  ASSUME IInv, CodeObjectList
  PROVE  IInv'
<1> USE LifecycleAssumption DEF LifecycleAssumption
<1>1. /\ UNCHANGED <<watches, kept, attached, setting, supports, objects, pending, reported, runtime, info,
                    flag, bpt, call, fault, drv, excp, rtState, rtWait, rtList, loader, exited, count>>
      /\ seen' = objects /\ changed' = FALSE
      /\ attached /\ fault = "none" /\ call = Return /\ call.stage = "idle" /\ call.op = "none"
  BY DEF CodeObjectList, lists, events, kfd, host, Live, Idle, IInv, CallShape, Return
<1>2. PendingSet' = PendingSet
  BY <1>1 DEF PendingSet
<1>3. CallType' /\ EventType' /\ DriverType' /\ HostType'
  BY <1>1 DEF IInv, CallType, EventType, DriverType, HostType
<1>4. Healthy' /\ CallShape' /\ DetachShape' /\ BreakpointShape' /\ Exceptions'
  BY <1>1 DEF IInv, Healthy, CallShape, DetachShape, BreakpointShape, Exceptions, Known, EventCompute
<1>5. Answering' /\ DriverSet' /\ ListRead'
  BY <1>1, <1>2
  DEF IInv, Answering, AtMostOne, Answers, IsAnswer, EventCompute, DriverSet, InForce, Left,
      ListRead
<1>6. ClientType'
  BY <1>1 DEF IInv, ClientType
<1>7. (~attached => Detached)'
  BY <1>1 DEF IInv, Detached, Left
<1>8. ListSafe'
  BY <1>1 DEF IInv, ListSafe, Stopped
<1>9. EntryUnread'
  BY <1>1 DEF IInv, EntryUnread
<1> QED
  BY <1>3, <1>4, <1>5, <1>6, <1>7, <1>8, <1>9 DEF IInv

(* A list is read only if no thread is changing it.                        *)
LEMMA ReadStateStep ==
  ASSUME IInv, ReadState
  PROVE  IInv'
<1> USE LifecycleAssumption DEF LifecycleAssumption
<1>1. /\ UNCHANGED <<watches, kept, attached, setting, supports, seen, objects, changed, pending, reported,
                    runtime, info, flag, bpt, fault, drv, excp, rtState, rtWait, rtList, loader,
                    exited, count>>
      /\ call.stage = "state" /\ fault = "none" /\ attached /\ runtime = "success"
  BY DEF ReadState, At, client, lists, events, kfd, host, IInv, CallShape
<1>2. \/ Goto("list") /\ (exited \/ Consistent)
      \/ Goto("listed") /\ ~exited /\ ~Consistent
  BY <1>1 DEF ReadState
<1>3. /\ call'.op = call.op /\ call'.saved = call.saved /\ call' \in Calls
      /\ \/ call'.stage = "list" /\ (exited \/ loader.phase \notin {"entry", "changing"})
         \/ call'.stage = "listed" /\ ~exited /\ loader.phase \in {"entry", "changing"}
  BY <1>2, GotoFacts DEF IInv, Consistent
<1>4. PendingSet' = PendingSet
  BY <1>1 DEF PendingSet
<1>5. ClientType' /\ EventType' /\ DriverType' /\ HostType'
  BY <1>1 DEF IInv, ClientType, EventType, DriverType, HostType
<1>6. Healthy'
  BY <1>1 DEF IInv, Healthy
<1>7. CallType'
  BY <1>1, <1>2, <1>3 DEF IInv, CallType
<1>8. (~attached => Detached)'
  BY <1>1, <1>2, <1>3 DEF IInv, Detached, Left
<1>9. CallShape' /\ DetachShape'
  BY <1>1, <1>2, <1>3 DEF IInv, CallShape, DetachShape
<1>10. BreakpointShape'
  BY <1>1, <1>2, <1>3 DEF IInv, BreakpointShape
<1>11. Exceptions'
  BY <1>1, <1>2, <1>3 DEF IInv, Exceptions, Known, EventCompute
<1>12. Answering'
  BY <1>1, <1>2, <1>3, <1>4 DEF IInv, Answering, AtMostOne, Answers, IsAnswer, EventCompute
<1>13. DriverSet'
  BY <1>1, <1>2, <1>3 DEF IInv, DriverSet, InForce, Left
<1>14. ListSafe'
  BY <1>1, <1>2, <1>3 DEF IInv, ListSafe, Stopped
<1>15. EntryUnread'
  BY <1>1, <1>2, <1>3 DEF IInv, EntryUnread
<1>16. ListRead'
  BY <1>1, <1>2, <1>3 DEF IInv, ListRead
<1> QED
  BY <1>5, <1>6, <1>7, <1>8, <1>9, <1>10, <1>11, <1>12, <1>13, <1>14, <1>15, <1>16 DEF IInv

(* The list is read whole: the thread that would change it is stopped.      *)
LEMMA ReadListStep ==
  ASSUME IInv, ReadList
  PROVE  IInv'
<1> USE LifecycleAssumption DEF LifecycleAssumption
<1>1. /\ UNCHANGED <<watches, kept, attached, setting, supports, seen, pending, reported, runtime, info,
                    flag, bpt, fault, drv, excp, rtState, rtWait, rtList, loader, exited, count>>
      /\ call.stage = "list" /\ fault = "none" /\ attached /\ runtime = "success"
  <2>1. fault' = fault
    BY DEF ReadList, At, IInv, ListSafe
  <2> QED BY <2>1 DEF ReadList, At, client, events, kfd, host, IInv, CallShape
<1>2. /\ objects' = IF exited THEN {} ELSE rtList
      /\ changed' = (changed \/ objects' # objects)
  BY <1>1 DEF ReadList
<1>3. /\ call'.op = call.op /\ call'.saved = call.saved /\ call' \in Calls /\ call'.stage = "listed"
  BY GotoFacts DEF ReadList, IInv
<1>4. PendingSet' = PendingSet
  BY <1>1 DEF PendingSet
<1>5. EventType' /\ DriverType' /\ HostType'
  BY <1>1 DEF IInv, EventType, DriverType, HostType
<1>6. Healthy'
  BY <1>1 DEF IInv, Healthy
<1>7. ClientType'
  BY <1>1, <1>2, <1>3 DEF IInv, ClientType, HostType
<1>8. CallType'
  BY <1>1, <1>2, <1>3 DEF IInv, CallType
<1>9. (~attached => Detached)'
  BY <1>1, <1>2, <1>3 DEF IInv, Detached, Left
<1>10. CallShape' /\ DetachShape'
  BY <1>1, <1>2, <1>3 DEF IInv, CallShape, DetachShape
<1>11. BreakpointShape'
  BY <1>1, <1>2, <1>3 DEF IInv, BreakpointShape
<1>12. Exceptions'
  BY <1>1, <1>2, <1>3 DEF IInv, Exceptions, Known, EventCompute
<1>13. Answering'
  BY <1>1, <1>2, <1>3, <1>4 DEF IInv, Answering, AtMostOne, Answers, IsAnswer, EventCompute
<1>14. DriverSet'
  BY <1>1, <1>2, <1>3 DEF IInv, DriverSet, InForce, Left
<1>15. ListSafe'
  BY <1>1, <1>2, <1>3 DEF IInv, ListSafe, Stopped
<1>16. EntryUnread'
  BY <1>1, <1>2, <1>3 DEF IInv, EntryUnread
<1>17. ListRead'
  BY <1>1, <1>2, <1>3 DEF IInv, ListRead
<1> QED
  BY <1>5, <1>6, <1>7, <1>8, <1>9, <1>10, <1>11, <1>12, <1>13, <1>14, <1>15, <1>16, <1>17
  DEF IInv

(* The driver is given the settings made so far, which are all of them.     *)
LEMMA ApplySettingsStep ==
  ASSUME IInv, ApplySettings
  PROVE  IInv'
<1> USE LifecycleAssumption DEF LifecycleAssumption
<1>1. /\ UNCHANGED <<watches, kept, attached, setting, supports, seen, objects, changed, pending, reported,
                    runtime, info, bpt, fault, excp, rtState, rtWait, rtList, loader, exited, count>>
      /\ call.stage = "listed" /\ fault = "none" /\ call.op # "hit" /\ attached /\ runtime = "success"
      /\ flag' = FALSE
  BY DEF ApplySettings, At, client, lists, events, host, IInv, CallShape
<1>2. /\ Done' /\ call'.stage \in {"idle", "take"} /\ call'.op \in {"none", "event"}
      /\ call' \in Calls /\ (call'.stage = "idle" => call' = Return)
      /\ call'.stage = "take" => call'.op = "event"
  BY FinishFacts DEF ApplySettings, IInv, Done, Return
<1>3. ~exited => [setting EXCEPT !.precise = IF supports THEN setting.precise
                                              ELSE drv.set.precise] = setting
  <2>1. ~exited => drv.set.precise = FALSE
    BY <1>1 DEF IInv, CallShape, DriverSet, InForce, Left, TrapsLeft, NoDebug, Defaults
  <2>2. ~exited /\ ~supports => drv.set.precise = setting.precise
    <3>1. setting.precise \in BOOLEAN
      BY DEF IInv, ClientType, Settings
    <3> QED BY <2>1, <3>1 DEF IInv, Healthy
  <2> QED BY <2>2 DEF IInv, ClientType, Settings
<1>4. /\ drv' \in [debug : BOOLEAN, all : BOOLEAN, set : Settings] /\ drv'.debug = drv.debug
      /\ ~exited => drv'.set = IF rtState # "disabled" THEN setting ELSE drv.set
  BY <1>3 DEF ApplySettings, Apply, IInv, DriverType, ClientType, Settings
<1>5. PendingSet' = PendingSet
  BY <1>1 DEF PendingSet
<1>6. EventType' /\ HostType'
  BY <1>1 DEF IInv, EventType, HostType
<1>7. ClientType'
  BY <1>1, <1>2, <1>3, <1>4 DEF IInv, ClientType
<1>8. CallType'
  BY <1>1, <1>2, <1>3, <1>4 DEF IInv, CallType
<1>9. DriverType'
  BY <1>1, <1>2, <1>3, <1>4 DEF IInv, DriverType
<1>10. (~attached => Detached)'
  BY <1>1, <1>2, <1>3, <1>4 DEF IInv, Detached, Left
<1>11. Healthy'
  BY <1>1, <1>2, <1>3, <1>4 DEF IInv, Healthy
<1>12. CallShape' /\ DetachShape'
  BY <1>1, <1>2, <1>3, <1>4 DEF IInv, CallShape, DetachShape
<1>13. BreakpointShape'
  BY <1>1, <1>2, <1>3, <1>4 DEF IInv, BreakpointShape
<1>14. Exceptions'
  BY <1>1, <1>2, <1>3, <1>4 DEF IInv, Exceptions, Known, EventCompute
<1>15. Answering'
  BY <1>1, <1>2, <1>3, <1>4, <1>5
  DEF IInv, Answering, AtMostOne, Answers, IsAnswer, EventCompute
<1>16. DriverSet'
  BY <1>1, <1>2, <1>3, <1>4 DEF IInv, DriverSet, InForce, Left
<1>17. ListSafe'
  BY <1>1, <1>2, <1>3, <1>4 DEF IInv, ListSafe, Stopped
<1>18. EntryUnread'
  BY <1>1, <1>2, <1>3, <1>4 DEF IInv, EntryUnread
<1>19. ListRead'
  BY <1>1, <1>2, <1>3, <1>4 DEF IInv, ListRead
<1> QED
  BY <1>6, <1>7, <1>8, <1>9, <1>10, <1>11, <1>12, <1>13, <1>14, <1>15, <1>16, <1>17, <1>18, <1>19
  DEF IInv

(* The callback at r_brk, when the list did not change: the thread goes on. *)
LEMMA NothingChangedStep ==
  ASSUME IInv, BreakpointAction, ~changed
  PROVE  IInv'
<1> USE LifecycleAssumption DEF LifecycleAssumption
<1>1. /\ UNCHANGED <<watches, kept, attached, setting, supports, seen, objects, pending, reported, runtime,
                    info, flag, bpt, fault, drv, excp, rtState, rtWait, rtList, exited, count>>
      /\ call.stage = "listed" /\ fault = "none" /\ call.op = "hit" /\ attached /\ runtime = "success"
      /\ call' = Return /\ changed' = call.saved
  BY DEF BreakpointAction, At, client, events, kfd, host, IInv, CallShape, CallType, Calls
<1>2. loader' = IF Stopped THEN [loader EXCEPT !.phase = NextPhase] ELSE loader
  BY DEF BreakpointAction, ResumeThread
<1>3. /\ loader' \in [thread : Threads,
                      phase : {"idle", "entry", "changing", "exit", "halted"}]
      /\ loader'.phase = IF Stopped THEN NextPhase ELSE loader.phase
  BY <1>2 DEF IInv, HostType, NextPhase
<1>4. /\ Return \in Calls /\ Return.stage = "idle" /\ Return.op = "none" /\ ~Return.saved
  BY DEF Return, Calls, OsStates
<1>5. PendingSet' = PendingSet
  BY <1>1 DEF PendingSet
<1>6. EventType' /\ DriverType'
  BY <1>1 DEF IInv, EventType, DriverType
<1>7. Healthy'
  BY <1>1 DEF IInv, Healthy
<1>8. ClientType'
  BY <1>1, <1>2, <1>3, <1>4 DEF IInv, ClientType, CallType, Calls
<1>9. CallType'
  BY <1>1, <1>2, <1>3, <1>4 DEF IInv, CallType
<1>10. HostType'
  BY <1>1, <1>2, <1>3, <1>4 DEF IInv, HostType
<1>11. (~attached => Detached)'
  BY <1>1, <1>2, <1>3, <1>4 DEF IInv, Detached, Left
<1>12. CallShape' /\ DetachShape'
  BY <1>1, <1>2, <1>3, <1>4 DEF IInv, CallShape, DetachShape
<1>13. BreakpointShape'
  BY <1>1, <1>2, <1>3, <1>4 DEF IInv, BreakpointShape
<1>14. Exceptions'
  BY <1>1, <1>2, <1>3, <1>4 DEF IInv, Exceptions, Known, EventCompute
<1>15. Answering'
  BY <1>1, <1>2, <1>3, <1>4, <1>5
  DEF IInv, Answering, AtMostOne, Answers, IsAnswer, EventCompute
<1>16. DriverSet'
  BY <1>1, <1>2, <1>3, <1>4 DEF IInv, DriverSet, InForce, Left
<1>17. ListSafe'
  BY <1>1, <1>2, <1>3, <1>4 DEF IInv, ListSafe, Stopped, NextPhase
<1>18. EntryUnread'
  BY <1>1, <1>2, <1>3, <1>4 DEF IInv, EntryUnread
<1>19. ListRead'
  BY <1>1, <1>2, <1>3, <1>4 DEF IInv, ListRead, ListSafe, Stopped, NextPhase
<1> QED
  BY <1>6, <1>7, <1>8, <1>9, <1>10, <1>11, <1>12, <1>13, <1>14, <1>15, <1>16, <1>17, <1>18, <1>19
  DEF IInv

(* The callback at r_brk, when the list changed: the thread waits for the   *)
(* client to process the event.                                            *)
LEMMA ListChangedStep ==
  ASSUME IInv, BreakpointAction, changed
  PROVE  IInv'
<1> USE LifecycleAssumption DEF LifecycleAssumption
<1>1. /\ UNCHANGED <<watches, kept, attached, setting, supports, seen, objects, reported, runtime, info,
                    flag, bpt, fault, drv, excp, rtState, rtWait, rtList, exited, count>>
      /\ call.stage = "listed" /\ fault = "none" /\ call.op = "hit" /\ attached /\ runtime = "success"
      /\ call' = Return /\ changed' = TRUE
  BY DEF BreakpointAction, Enqueue, At, client, events, kfd, host, IInv, CallShape
<1>2. /\ loader' = [loader EXCEPT !.phase = IF exited THEN "idle" ELSE "halted"]
      /\ pending' = Append(pending, ListEvent(loader.thread))
  BY DEF BreakpointAction, Enqueue
<1>3. /\ loader' \in [thread : Threads,
                      phase : {"idle", "entry", "changing", "exit", "halted"}]
      /\ loader'.phase = IF exited THEN "idle" ELSE "halted"
  BY <1>2 DEF IInv, HostType
<1>4. ListEvent(loader.thread) \in Events /\ ~IsAnswer(ListEvent(loader.thread))
  BY DEF IInv, HostType, ListEvent, Events, IsAnswer
<1>5. pending' \in Seq(Events) /\ AtMostOne' /\ Answers' \subseteq Answers
  BY <1>1, <1>2, <1>4, AppendEvent, NoAnswerAdded DEF IInv, Answering
<1>6. /\ Return \in Calls /\ Return.stage = "idle" /\ Return.op = "none" /\ ~Return.saved
  BY DEF Return, Calls, OsStates
<1>7. DriverType'
  BY <1>1 DEF IInv, DriverType
<1>8. Healthy'
  BY <1>1 DEF IInv, Healthy
<1>9. ClientType'
  BY <1>1, <1>2, <1>3, <1>4, <1>5, <1>6 DEF IInv, ClientType
<1>10. CallType'
  BY <1>1, <1>2, <1>3, <1>4, <1>5, <1>6 DEF IInv, CallType
<1>11. EventType'
  BY <1>1, <1>2, <1>3, <1>4, <1>5, <1>6 DEF IInv, EventType
<1>12. HostType'
  BY <1>1, <1>2, <1>3, <1>4, <1>5, <1>6 DEF IInv, HostType
<1>13. (~attached => Detached)'
  BY <1>1, <1>2, <1>3, <1>4, <1>5, <1>6 DEF IInv, Detached, Left
<1>14. CallShape' /\ DetachShape'
  BY <1>1, <1>2, <1>3, <1>4, <1>5, <1>6 DEF IInv, CallShape, DetachShape
<1>15. BreakpointShape'
  BY <1>1, <1>2, <1>3, <1>4, <1>5, <1>6 DEF IInv, BreakpointShape
<1>16. Exceptions'
  BY <1>1, <1>2, <1>3, <1>4, <1>5, <1>6 DEF IInv, Exceptions, Known, EventCompute
<1>17. Answering'
  BY <1>1, <1>5, <1>6 DEF IInv, Answering, EventCompute
<1>18. DriverSet'
  BY <1>1, <1>2, <1>3, <1>4, <1>5, <1>6 DEF IInv, DriverSet, InForce, Left
<1>19. ListSafe'
  BY <1>1, <1>2, <1>3, <1>4, <1>5, <1>6 DEF IInv, ListSafe, Stopped
<1>20. EntryUnread'
  BY <1>1, <1>2, <1>3, <1>4, <1>5, <1>6 DEF IInv, EntryUnread
<1>21. ListRead'
  BY <1>1, <1>2, <1>3, <1>4, <1>5, <1>6 DEF IInv, ListRead, ListSafe, Stopped, EntryUnread
<1> QED
  BY <1>7, <1>8, <1>9, <1>10, <1>11, <1>12, <1>13, <1>14, <1>15, <1>16, <1>17, <1>18, <1>19, <1>20, <1>21
  DEF IInv

(* The process is found to have exited before its runtime is looked at.     *)
LEMMA ComputeExitedStep ==
  ASSUME IInv, ComputeState, exited, call.to = "enabled"
  PROVE  IInv'
<1> USE LifecycleAssumption DEF LifecycleAssumption
<1>1. /\ UNCHANGED <<watches, kept, attached, setting, seen, objects, changed, pending, reported, runtime,
                    info, flag, bpt, fault, excp, rtState, rtWait, rtList, loader, exited, count>>
      /\ call.stage = "compute" /\ fault = "none" /\ attached /\ info = "disabled"
      /\ runtime = "unloaded" /\ call.op # "hit"
  BY DEF ComputeState, ProcessExited, At, lists, events, host, IInv, CallShape
<1>2. /\ Done' /\ call'.stage \in {"idle", "take"} /\ call'.op \in {"none", "event"}
      /\ call' \in Calls /\ (call'.stage = "idle" => call' = Return)
      /\ call'.stage = "take" => call'.op = "event"
  BY FinishFacts DEF ComputeState, ProcessExited, IInv, Done, Return
<1>3. /\ drv' \in [debug : BOOLEAN, all : BOOLEAN, set : Settings]
      /\ supports' = supports \/ supports' = FALSE
  BY DEF ComputeState, ProcessExited, IInv, DriverType
<1>4. PendingSet' = PendingSet
  BY <1>1 DEF PendingSet
<1>5. EventType' /\ HostType'
  BY <1>1 DEF IInv, EventType, HostType
<1>6. ClientType'
  BY <1>1, <1>2, <1>3 DEF IInv, ClientType
<1>7. CallType'
  BY <1>1, <1>2, <1>3 DEF IInv, CallType
<1>8. DriverType'
  BY <1>1, <1>2, <1>3 DEF IInv, DriverType
<1>9. (~attached => Detached)'
  BY <1>1, <1>2, <1>3 DEF IInv, Detached, Left
<1>10. Healthy'
  BY <1>1, <1>2, <1>3 DEF IInv, Healthy
<1>11. CallShape' /\ DetachShape'
  BY <1>1, <1>2, <1>3 DEF IInv, CallShape, DetachShape
<1>12. BreakpointShape'
  BY <1>1, <1>2, <1>3 DEF IInv, BreakpointShape
<1>13. Exceptions'
  BY <1>1, <1>2, <1>3 DEF IInv, Exceptions, Known, EventCompute
<1>14. Answering'
  BY <1>1, <1>2, <1>3, <1>4 DEF IInv, Answering, AtMostOne, Answers, IsAnswer, EventCompute
<1>15. DriverSet'
  BY <1>1, <1>2, <1>3 DEF IInv, DriverSet, InForce, Left
<1>16. ListSafe'
  BY <1>1, <1>2, <1>3 DEF IInv, ListSafe, Stopped
<1>17. EntryUnread'
  BY <1>1, <1>2, <1>3 DEF IInv, EntryUnread
<1>18. ListRead'
  BY <1>1, <1>2, <1>3 DEF IInv, ListRead
<1> QED
  BY <1>5, <1>6, <1>7, <1>8, <1>9, <1>10, <1>11, <1>12, <1>13, <1>14, <1>15, <1>16, <1>17, <1>18
  DEF IInv

(* The state of the runtime is recorded and its event enqueued: an answer   *)
(* if the runtime asked, and none when attach found it loaded.             *)
LEMMA ComputeRecordsStep ==
  ASSUME IInv, ComputeState, ~(exited /\ call.to = "enabled")
  PROVE  IInv'
<1> USE LifecycleAssumption DEF LifecycleAssumption
<1>1. /\ UNCHANGED <<watches, kept, attached, setting, supports, seen, objects, changed, reported, flag,
                    bpt, fault, drv, excp, rtState, rtWait, rtList, loader, exited, count>>
      /\ call.stage = "compute" /\ fault = "none" /\ attached /\ info' = call.to
  BY DEF ComputeState, Enqueue, At, lists, events, host, IInv, CallShape
<1>2. PICK s \in StatesFor(call.to) :
        /\ runtime' = s /\ pending' = Append(pending, RuntimeEvent(s, flag))
        /\ IF s = "restriction" THEN Finish(pending') ELSE Goto("subscribe")
  BY DEF ComputeState, Enqueue
<1>3. /\ s \in RuntimeStates /\ (s = "unloaded" <=> call.to = "disabled")
      /\ call.to \in OsStates
  BY DEF IInv, CallType, Calls, StatesFor, OsStates, RuntimeStates
<1>4. /\ call' \in Calls /\ call'.op \in {"none", "attach", "event"} /\ (call'.stage = "idle" => call' = Return)
      /\ s = "restriction" => call'.stage \in {"idle", "take"}
      /\ s # "restriction" => call'.stage = "subscribe" /\ call'.op = call.op
      /\ call'.stage = "take" => call'.op = "event"
  BY <1>1, <1>2, FinishFacts, GotoFacts DEF IInv, Done, Return, CallShape
<1>5. RuntimeEvent(s, flag) \in Events /\ (IsAnswer(RuntimeEvent(s, flag)) => ~flag)
  BY <1>3 DEF IInv, ClientType, RuntimeEvent, Events, IsAnswer
<1>6. pending' \in Seq(Events) /\ PendingSet' = PendingSet \cup {RuntimeEvent(s, flag)}
  BY <1>2, <1>5, AppendEvent DEF IInv
<1>7. /\ runtime = "success" => call.to = "disabled" /\ (exited \/ rtState = "disabled")
      /\ call.op \in {"attach", "event"} /\ call'.stage # "compute"
  BY <1>1, <1>4 DEF IInv, CallShape, DetachShape, Exceptions, Known, EventCompute
<1>8. DriverType' /\ HostType'
  BY <1>1 DEF IInv, DriverType, HostType
<1>9. Healthy'
  BY <1>1 DEF IInv, Healthy
<1>10. ClientType'
  BY <1>1, <1>2, <1>3, <1>4, <1>5, <1>6, <1>7 DEF IInv, ClientType
<1>11. CallType'
  BY <1>1, <1>2, <1>3, <1>4, <1>5, <1>6, <1>7 DEF IInv, CallType
<1>12. EventType'
  BY <1>1, <1>2, <1>3, <1>4, <1>5, <1>6, <1>7 DEF IInv, EventType
<1>13. (~attached => Detached)'
  BY <1>1, <1>2, <1>3, <1>4, <1>5, <1>6, <1>7 DEF IInv, Detached, Left
<1>14. CallShape' /\ DetachShape'
  BY <1>1, <1>2, <1>3, <1>4, <1>5, <1>6, <1>7 DEF IInv, CallShape, DetachShape
<1>15. BreakpointShape'
  BY <1>1, <1>2, <1>3, <1>4, <1>5, <1>6, <1>7 DEF IInv, BreakpointShape
<1>16. Exceptions'
  BY <1>1, <1>7 DEF IInv, Exceptions, Known, EventCompute
<1>17. Answering'
  <2>1. CASE call.op = "attach"
    <3>1. ~IsAnswer(RuntimeEvent(s, flag))
      BY <1>1, <1>5, <2>1 DEF IInv, CallShape, DetachShape
    <3>2. AtMostOne' /\ Answers' \subseteq Answers
      BY <1>1, <1>2, <1>5, <3>1, NoAnswerAdded DEF IInv, Answering
    <3> QED BY <1>1, <1>4, <3>2 DEF IInv, Answering, EventCompute
  <2>2. CASE call.op = "event"
    <3>1. Answers = {} /\ (rtWait \/ exited) /\ ~(excp /\ ~exited)
      BY <1>1, <2>2
      DEF IInv, Answering, Exceptions, EventCompute, Known, CallShape
    <3>2. AtMostOne'
      BY <1>1, <1>2, <1>5, <3>1, AnswerAdded DEF IInv
    <3> QED BY <1>1, <1>4, <3>1, <3>2 DEF Answering, EventCompute
  <2> QED BY <1>1, <2>1, <2>2 DEF IInv, CallShape, DetachShape
<1>18. DriverSet'
  BY <1>1, <1>2, <1>3, <1>4, <1>5, <1>6, <1>7 DEF IInv, DriverSet, InForce, Left
<1>19. ListSafe'
  BY <1>1, <1>2, <1>3, <1>4, <1>7 DEF IInv, ListSafe
<1>20. EntryUnread'
  BY <1>1, <1>2, <1>3, <1>4, <1>5, <1>6, <1>7 DEF IInv, EntryUnread
<1>21. ListRead'
  BY <1>1, <1>2, <1>3, <1>4, <1>5, <1>6, <1>7 DEF IInv, ListRead
<1> QED
  BY <1>8, <1>9, <1>10, <1>11, <1>12, <1>13, <1>14, <1>15, <1>16, <1>17, <1>18, <1>19, <1>20, <1>21
  DEF IInv

(* Subscribing to the exceptions of an exited process ends the library.    *)
LEMMA SubscribeExitedStep ==
  ASSUME IInv, Subscribe, exited
  PROVE  IInv'
<1> USE LifecycleAssumption DEF LifecycleAssumption
<1>1. /\ UNCHANGED <<watches, kept, attached, setting, supports, seen, objects, changed, pending, reported,
                    runtime, info, flag, bpt, call, drv, excp, rtState, rtWait, rtList, loader, exited,
                    count>>
      /\ fault' = "set_exceptions_reported" /\ attached /\ call.stage = "subscribe"
  BY DEF Subscribe, At, client, lists, events, host, IInv, CallShape
<1>2. PendingSet' = PendingSet
  BY <1>1 DEF PendingSet
<1>3. ClientType' /\ EventType' /\ DriverType' /\ HostType'
  BY <1>1 DEF IInv, ClientType, EventType, DriverType, HostType
<1>4. CallShape' /\ DetachShape' /\ Exceptions' /\ Answering' /\ DriverSet'
  BY <1>1, <1>2
  DEF IInv, CallShape, DetachShape, Exceptions, Known, EventCompute, Answering, AtMostOne, Answers,
      IsAnswer, DriverSet, InForce, Left
<1>5. ListSafe' /\ EntryUnread' /\ ListRead'
  BY <1>1 DEF IInv, ListSafe, Stopped, EntryUnread, ListRead
<1>6. CallType'
  BY <1>1 DEF IInv, CallType
<1>7. (~attached => Detached)'
  BY <1>1 DEF IInv, Detached, Left
<1>8. Healthy'
  BY <1>1 DEF IInv, Healthy
<1>9. BreakpointShape'
  BY <1>1 DEF IInv, BreakpointShape
<1> QED
  BY <1>3, <1>4, <1>5, <1>6, <1>7, <1>8, <1>9 DEF IInv

(* The runtime was loaded: its exceptions are reported from now on.        *)
LEMMA SubscribeLoadedStep ==
  ASSUME IInv, Subscribe, ~exited, runtime = "success"
  PROVE  IInv'
<1> USE LifecycleAssumption DEF LifecycleAssumption
<1>1. /\ UNCHANGED <<watches, kept, attached, setting, supports, seen, objects, changed, pending, reported,
                    runtime, info, flag, bpt, fault, excp, rtState, rtWait, rtList, loader, exited,
                    count>>
      /\ call.stage = "subscribe" /\ fault = "none" /\ attached /\ call.op # "hit"
  BY DEF Subscribe, At, client, lists, events, host, IInv, CallShape
<1>2. /\ call'.op = call.op /\ call'.saved = call.saved /\ call' \in Calls /\ call'.stage = "breakpoint"
  BY GotoFacts DEF Subscribe, IInv
<1>3. /\ drv' \in [debug : BOOLEAN, all : BOOLEAN, set : Settings]
      /\ drv'.debug = drv.debug /\ drv'.set = drv.set
  BY DEF Subscribe, ReportAll, IInv, DriverType
<1>4. PendingSet' = PendingSet
  BY <1>1 DEF PendingSet
<1>5. ClientType' /\ EventType' /\ HostType'
  BY <1>1 DEF IInv, ClientType, EventType, HostType
<1>6. CallType'
  BY <1>1, <1>2, <1>3 DEF IInv, CallType
<1>7. DriverType'
  BY <1>1, <1>2, <1>3 DEF IInv, DriverType
<1>8. (~attached => Detached)'
  BY <1>1, <1>2, <1>3 DEF IInv, Detached, Left
<1>9. Healthy'
  BY <1>1, <1>2, <1>3 DEF IInv, Healthy
<1>10. CallShape' /\ DetachShape'
  BY <1>1, <1>2, <1>3 DEF IInv, CallShape, DetachShape, CallType
<1>11. BreakpointShape'
  BY <1>1, <1>2, <1>3 DEF IInv, BreakpointShape
<1>12. Exceptions'
  BY <1>1, <1>2, <1>3 DEF IInv, Exceptions, Known, EventCompute
<1>13. Answering'
  BY <1>1, <1>2, <1>3, <1>4 DEF IInv, Answering, AtMostOne, Answers, IsAnswer, EventCompute
<1>14. DriverSet'
  BY <1>1, <1>2, <1>3 DEF IInv, DriverSet, InForce, Left
<1>15. ListSafe'
  BY <1>1, <1>2, <1>3 DEF IInv, ListSafe, Stopped
<1>16. EntryUnread'
  BY <1>1, <1>2, <1>3 DEF IInv, EntryUnread
<1>17. ListRead'
  BY <1>1, <1>2, <1>3 DEF IInv, ListRead
<1> QED
  BY <1>5, <1>6, <1>7, <1>8, <1>9, <1>10, <1>11, <1>12, <1>13, <1>14, <1>15, <1>16, <1>17
  DEF IInv

(* The runtime was unloaded: its code objects and the breakpoint are gone.  *)
LEMMA SubscribeUnloadedStep ==
  ASSUME IInv, Subscribe, ~exited, runtime # "success"
  PROVE  IInv'
<1> USE LifecycleAssumption DEF LifecycleAssumption
<1>1. /\ UNCHANGED <<watches, kept, attached, setting, supports, seen, pending, reported, runtime, info,
                    flag, fault, excp, rtState, rtWait, rtList, loader, exited, count>>
      /\ call.stage = "subscribe" /\ fault = "none" /\ attached /\ call.op # "hit" /\ runtime = "unloaded"
      /\ objects' = {} /\ changed' = (changed \/ objects # {}) /\ bpt' = "absent"
  BY DEF Subscribe, At, client, lists, events, host, IInv, CallShape, ClientType, RuntimeStates
<1>2. /\ Done' /\ call'.stage \in {"idle", "take"} /\ call'.op \in {"none", "event"}
      /\ call' \in Calls /\ (call'.stage = "idle" => call' = Return)
      /\ call'.stage = "take" => call'.op = "event"
  BY FinishFacts DEF Subscribe, IInv, Done, Return
<1>3. /\ drv' \in [debug : BOOLEAN, all : BOOLEAN, set : Settings]
      /\ drv'.debug = drv.debug /\ drv'.set = drv.set
  BY DEF Subscribe, ReportAll, IInv, DriverType
<1>4. PendingSet' = PendingSet
  BY <1>1 DEF PendingSet
<1>5. EventType' /\ HostType'
  BY <1>1 DEF IInv, EventType, HostType
<1>6. ClientType'
  BY <1>1, <1>2, <1>3 DEF IInv, ClientType
<1>7. CallType'
  BY <1>1, <1>2, <1>3 DEF IInv, CallType
<1>8. DriverType'
  BY <1>1, <1>2, <1>3 DEF IInv, DriverType
<1>9. (~attached => Detached)'
  BY <1>1, <1>2, <1>3 DEF IInv, Detached, Left
<1>10. Healthy'
  BY <1>1, <1>2, <1>3 DEF IInv, Healthy
<1>11. CallShape' /\ DetachShape'
  BY <1>1, <1>2, <1>3 DEF IInv, CallShape, DetachShape
<1>12. BreakpointShape'
  BY <1>1, <1>2, <1>3 DEF IInv, BreakpointShape
<1>13. Exceptions'
  BY <1>1, <1>2, <1>3 DEF IInv, Exceptions, Known, EventCompute
<1>14. Answering'
  BY <1>1, <1>2, <1>3, <1>4 DEF IInv, Answering, AtMostOne, Answers, IsAnswer, EventCompute
<1>15. DriverSet'
  BY <1>1, <1>2, <1>3 DEF IInv, DriverSet, InForce, Left
<1>16. ListSafe'
  BY <1>1, <1>2, <1>3 DEF IInv, ListSafe, Stopped
<1>17. EntryUnread'
  BY <1>1, <1>2, <1>3 DEF IInv, EntryUnread
<1>18. ListRead'
  BY <1>1, <1>2, <1>3 DEF IInv, ListRead
<1> QED
  BY <1>5, <1>6, <1>7, <1>8, <1>9, <1>10, <1>11, <1>12, <1>13, <1>14, <1>15, <1>16, <1>17, <1>18
  DEF IInv

(* The process exits before the breakpoint is inserted: a restriction.      *)
LEMMA InsertExitedStep ==
  ASSUME IInv, InsertBreakpoint, exited
  PROVE  IInv'
<1> USE LifecycleAssumption DEF LifecycleAssumption
<1>1. /\ UNCHANGED <<watches, kept, attached, setting, seen, objects, changed, pending, reported, info,
                    flag, bpt, fault, excp, rtState, rtWait, rtList, loader, exited, count>>
      /\ call.stage = "breakpoint" /\ fault = "none" /\ attached /\ call.op # "hit" /\ runtime = "success"
      /\ runtime' = "restriction"
  BY DEF InsertBreakpoint, ProcessExited, At, lists, events, host, IInv, CallShape
<1>2. /\ Done' /\ call'.stage \in {"idle", "take"} /\ call'.op \in {"none", "event"}
      /\ call' \in Calls /\ (call'.stage = "idle" => call' = Return)
      /\ call'.stage = "take" => call'.op = "event"
  BY FinishFacts DEF InsertBreakpoint, ProcessExited, IInv, Done, Return
<1>3. /\ drv' \in [debug : BOOLEAN, all : BOOLEAN, set : Settings]
      /\ supports' = supports \/ supports' = FALSE
  BY DEF InsertBreakpoint, ProcessExited, IInv, DriverType
<1>4. PendingSet' = PendingSet
  BY <1>1 DEF PendingSet
<1>5. EventType' /\ HostType'
  BY <1>1 DEF IInv, EventType, HostType
<1>6. ClientType'
  BY <1>1, <1>2, <1>3 DEF IInv, ClientType, RuntimeStates
<1>7. CallType'
  BY <1>1, <1>2, <1>3 DEF IInv, CallType
<1>8. DriverType'
  BY <1>1, <1>2, <1>3 DEF IInv, DriverType
<1>9. (~attached => Detached)'
  BY <1>1, <1>2, <1>3 DEF IInv, Detached, Left
<1>10. Healthy'
  BY <1>1, <1>2, <1>3 DEF IInv, Healthy
<1>11. CallShape' /\ DetachShape'
  BY <1>1, <1>2, <1>3 DEF IInv, CallShape, DetachShape
<1>12. BreakpointShape'
  BY <1>1, <1>2, <1>3 DEF IInv, BreakpointShape
<1>13. Exceptions'
  BY <1>1, <1>2, <1>3 DEF IInv, Exceptions, Known, EventCompute
<1>14. Answering'
  BY <1>1, <1>2, <1>3, <1>4 DEF IInv, Answering, AtMostOne, Answers, IsAnswer, EventCompute
<1>15. DriverSet'
  BY <1>1, <1>2, <1>3 DEF IInv, DriverSet, InForce, Left
<1>16. ListSafe'
  BY <1>1, <1>2, <1>3 DEF IInv, ListSafe, Stopped
<1>17. EntryUnread'
  BY <1>1, <1>2, <1>3 DEF IInv, EntryUnread
<1>18. ListRead'
  BY <1>1, <1>2, <1>3 DEF IInv, ListRead
<1> QED
  BY <1>5, <1>6, <1>7, <1>8, <1>9, <1>10, <1>11, <1>12, <1>13, <1>14, <1>15, <1>16, <1>17, <1>18
  DEF IInv

(* The client cannot insert the breakpoint: a restriction.                 *)
LEMMA InsertRefusedStep ==
  ASSUME IInv, InsertBreakpoint, ~exited, bpt' # "inserted"
  PROVE  IInv'
<1> USE LifecycleAssumption DEF LifecycleAssumption
<1>1. /\ UNCHANGED <<watches, kept, attached, setting, supports, seen, objects, changed, pending, reported,
                    info, flag, fault, excp, rtState, rtWait, rtList, loader, exited, count>>
      /\ call.stage = "breakpoint" /\ fault = "none" /\ attached /\ call.op # "hit" /\ runtime = "success"
      /\ runtime' = "restriction" /\ bpt' = "refused" /\ Finish(pending)
  BY DEF InsertBreakpoint, At, lists, events, host, IInv, CallShape
<1>2. /\ Done' /\ call'.stage \in {"idle", "take"} /\ call'.op \in {"none", "event"}
      /\ call' \in Calls /\ (call'.stage = "idle" => call' = Return)
      /\ call'.stage = "take" => call'.op = "event"
  BY <1>1, FinishFacts DEF IInv, Done, Return
<1>3. /\ drv' \in [debug : BOOLEAN, all : BOOLEAN, set : Settings]
      /\ drv'.debug = drv.debug /\ drv'.set = drv.set
  BY DEF InsertBreakpoint, ReportAll, IInv, DriverType
<1>4. PendingSet' = PendingSet
  BY <1>1 DEF PendingSet
<1>5. EventType' /\ HostType'
  BY <1>1 DEF IInv, EventType, HostType
<1>6. ClientType'
  BY <1>1, <1>2, <1>3 DEF IInv, ClientType, RuntimeStates
<1>7. CallType'
  BY <1>1, <1>2, <1>3 DEF IInv, CallType
<1>8. DriverType'
  BY <1>1, <1>2, <1>3 DEF IInv, DriverType
<1>9. (~attached => Detached)'
  BY <1>1, <1>2, <1>3 DEF IInv, Detached, Left
<1>10. Healthy'
  BY <1>1, <1>2, <1>3 DEF IInv, Healthy
<1>11. CallShape' /\ DetachShape'
  BY <1>1, <1>2, <1>3 DEF IInv, CallShape, DetachShape
<1>12. BreakpointShape'
  BY <1>1, <1>2, <1>3 DEF IInv, BreakpointShape
<1>13. Exceptions'
  BY <1>1, <1>2, <1>3 DEF IInv, Exceptions, Known, EventCompute
<1>14. Answering'
  BY <1>1, <1>2, <1>3, <1>4 DEF IInv, Answering, AtMostOne, Answers, IsAnswer, EventCompute
<1>15. DriverSet'
  BY <1>1, <1>2, <1>3 DEF IInv, CallShape, DriverSet, InForce, Left
<1>16. ListSafe'
  BY <1>1, <1>2, <1>3 DEF IInv, ListSafe, Stopped
<1>17. EntryUnread'
  BY <1>1, <1>2, <1>3 DEF IInv, EntryUnread
<1>18. ListRead'
  BY <1>1, <1>2, <1>3 DEF IInv, ListRead
<1> QED
  BY <1>5, <1>6, <1>7, <1>8, <1>9, <1>10, <1>11, <1>12, <1>13, <1>14, <1>15, <1>16, <1>17, <1>18
  DEF IInv

(* The breakpoint is inserted.                                             *)
LEMMA InsertedStep ==
  ASSUME IInv, InsertBreakpoint, ~exited, bpt' = "inserted"
  PROVE  IInv'
<1> USE LifecycleAssumption DEF LifecycleAssumption
<1>1. /\ UNCHANGED <<watches, kept, attached, setting, supports, seen, objects, changed, pending, reported,
                    runtime, info, flag, fault, drv, excp, rtState, rtWait, rtList, loader, exited,
                    count>>
      /\ call.stage = "breakpoint" /\ fault = "none" /\ attached /\ call.op # "hit" /\ runtime = "success" /\ Goto("state")
  BY DEF InsertBreakpoint, At, lists, events, host, IInv, CallShape
<1>2. /\ call'.op = call.op /\ call'.saved = call.saved /\ call' \in Calls /\ call'.stage = "state"
  BY <1>1, GotoFacts DEF IInv
<1>3. PendingSet' = PendingSet
  BY <1>1 DEF PendingSet
<1>4. EventType' /\ DriverType' /\ HostType'
  BY <1>1 DEF IInv, EventType, DriverType, HostType
<1>5. Healthy'
  BY <1>1 DEF IInv, Healthy
<1>6. ClientType'
  BY <1>1, <1>2 DEF IInv, ClientType
<1>7. CallType'
  BY <1>1, <1>2 DEF IInv, CallType
<1>8. (~attached => Detached)'
  BY <1>1, <1>2 DEF IInv, Detached, Left
<1>9. CallShape' /\ DetachShape'
  BY <1>1, <1>2 DEF IInv, CallShape, DetachShape, CallType
<1>10. BreakpointShape'
  BY <1>1, <1>2 DEF IInv, BreakpointShape
<1>11. Exceptions'
  BY <1>1, <1>2 DEF IInv, Exceptions, Known, EventCompute
<1>12. Answering'
  BY <1>1, <1>2, <1>3 DEF IInv, Answering, AtMostOne, Answers, IsAnswer, EventCompute
<1>13. DriverSet'
  BY <1>1, <1>2 DEF IInv, DriverSet, InForce, Left
<1>14. ListSafe'
  BY <1>1, <1>2 DEF IInv, ListSafe, Stopped
<1>15. EntryUnread'
  BY <1>1, <1>2 DEF IInv, EntryUnread
<1>16. ListRead'
  BY <1>1, <1>2 DEF IInv, ListRead
<1> QED
  BY <1>4, <1>5, <1>6, <1>7, <1>8, <1>9, <1>10, <1>11, <1>12, <1>13, <1>14, <1>15, <1>16
  DEF IInv

(* Attach: what it finds of the runtime becomes an event of its own.        *)
LEMMA AttachStep ==
  ASSUME IInv, Attach
  PROVE  IInv'
<1> USE LifecycleAssumption DEF LifecycleAssumption
<1>1. /\ UNCHANGED <<watches, kept, setting, seen, objects, changed, pending, reported, runtime, info, bpt,
                    fault, excp, rtWait, rtList, loader, exited>>
      /\ Detached /\ attached' = TRUE /\ supports' = (Precise /\ ~exited)
  BY DEF Attach, Idle, SupportsAfter, lists, events, IInv
<1>2. PICK os \in OsStates :
        /\ drv' = [drv EXCEPT !.debug = ~exited, !.all = FALSE]
        /\ rtState' = IF exited THEN rtState ELSE os
        /\ flag' = (os # "disabled")
        /\ call' = IF os = "disabled" THEN Return
                   ELSE [Return EXCEPT !.op = "attach", !.stage = "compute", !.to = os]
  BY DEF Attach, OsStates
<1>3. /\ call' \in Calls /\ (os = "disabled" => call' = Return)
      /\ os # "disabled" => call'.op = "attach" /\ call'.stage = "compute" /\ call'.to = os
      /\ Return.stage = "idle" /\ Return.op = "none"
  BY <1>2 DEF Return, Calls, OsStates
<1>4. /\ drv' \in [debug : BOOLEAN, all : BOOLEAN, set : Settings]
      /\ drv'.debug = ~exited /\ drv'.set = drv.set
  BY <1>2 DEF IInv, DriverType
<1>5. count' \in [attaches : 0..MaxAttaches, loads : 0..MaxLoads, updates : 0..MaxUpdates]
  BY DEF Attach, IInv, HostType
<1>6. PendingSet' = PendingSet
  BY <1>1 DEF PendingSet
<1>7. EventType'
  BY <1>1 DEF IInv, EventType
<1>8. ClientType'
  BY <1>1, <1>2, <1>3, <1>4, <1>5 DEF IInv, ClientType, Detached
<1>9. CallType'
  BY <1>1, <1>2, <1>3, <1>4, <1>5 DEF IInv, CallType, Detached
<1>10. DriverType'
  BY <1>1, <1>2, <1>3, <1>4, <1>5 DEF IInv, DriverType
<1>11. HostType'
  BY <1>1, <1>2, <1>3, <1>4, <1>5 DEF IInv, HostType
<1>12. (~attached => Detached)'
  BY <1>1, <1>2, <1>3, <1>4, <1>5 DEF IInv, Detached, Left
<1>13. Healthy'
  BY <1>1, <1>2, <1>3, <1>4, <1>5 DEF IInv, Healthy, Detached
<1>14. CallShape' /\ DetachShape'
  BY <1>1, <1>2, <1>3, <1>4, <1>5 DEF IInv, CallShape, DetachShape, Detached
<1>15. BreakpointShape'
  BY <1>1, <1>2, <1>3, <1>4, <1>5 DEF IInv, BreakpointShape, Detached
<1>16. Exceptions'
  BY <1>1, <1>2, <1>3, <1>4, <1>5 DEF IInv, Exceptions, Known, EventCompute, Detached
<1>17. Answering'
  BY <1>1, <1>2, <1>3, <1>4, <1>5, <1>6
  DEF IInv, Answering, AtMostOne, Answers, IsAnswer, EventCompute, Detached, PendingSet
<1>18. DriverSet'
  BY <1>1, <1>2, <1>3, <1>4, <1>5 DEF IInv, DriverSet, InForce, Left, Detached
<1>19. ListSafe'
  BY <1>1, <1>2, <1>3, <1>4, <1>5 DEF IInv, ListSafe, Stopped, Detached
<1>20. EntryUnread'
  BY <1>1, <1>2, <1>3, <1>4, <1>5 DEF IInv, EntryUnread, Detached
<1>21. ListRead'
  BY <1>1, <1>2, <1>3, <1>4, <1>5 DEF IInv, ListRead, Detached
<1> QED
  BY <1>7, <1>8, <1>9, <1>10, <1>11, <1>12, <1>13, <1>14, <1>15, <1>16, <1>17, <1>18, <1>19, <1>20, <1>21
  DEF IInv

(* A step of detach that undoes settings.                                  *)
LEMMA UndoStep ==
  ASSUME IInv, attached, fault = "none", NEW new \in Settings, Set(new),
         call.stage \in {"idle", "launch", "watches"}, ~new.precise,
         call' \in Calls, call'.op = "detach",
         call'.stage \in {"launch", "watches", "disable"},
         call'.stage # "launch" => new.launch = "normal",
         kept' \in BOOLEAN, kept => kept',
         call'.stage = "disable" /\ new.trap => kept',
         UNCHANGED <<attached, supports, seen, watches, lists, events, runtime, info, flag, bpt,
                     fault, excp, rtState, host>>
  PROVE  IInv'
<1> USE LifecycleAssumption DEF LifecycleAssumption
<1>1. /\ UNCHANGED <<watches, attached, supports, seen, objects, changed, pending, reported,
                    runtime, info, flag, bpt, fault, excp, rtState, rtWait, rtList, loader,
                    exited, count>>
      /\ setting' = new
      /\ call.op \in {"none", "detach"}
  BY SetFacts DEF lists, events, host, IInv, CallShape, Return
<1>2. /\ drv' \in [debug : BOOLEAN, all : BOOLEAN, set : Settings] /\ drv'.debug = drv.debug
      /\ drv'.set = IF runtime = "success" /\ ~exited /\ rtState # "disabled"
                    THEN new ELSE drv.set
  BY SetFacts
<1>3. PendingSet' = PendingSet
  BY <1>1 DEF PendingSet
<1>4. EventType' /\ HostType'
  BY <1>1 DEF IInv, EventType, HostType
<1>5. ClientType' /\ CallType'
  BY <1>1 DEF IInv, ClientType, CallType
<1>6. DriverType'
  BY <1>1, <1>2 DEF IInv, DriverType
<1>7. (~attached => Detached)'
  BY <1>1
<1>8. Healthy'
  BY <1>1, <1>2 DEF IInv, Healthy
<1>9. CallShape'
  BY <1>1 DEF IInv, CallShape
<1>10. DetachShape'
  BY <1>1 DEF DetachShape
<1>11. BreakpointShape'
  BY <1>1 DEF IInv, BreakpointShape
<1>12. Exceptions'
  BY <1>1 DEF IInv, Exceptions, Known, EventCompute
<1>13. Answering'
  BY <1>1, <1>3 DEF IInv, Answering, AtMostOne, Answers, IsAnswer, EventCompute
<1>14. DriverSet'
  BY <1>1, <1>2 DEF IInv, DriverSet, InForce, Left
<1>15. ListSafe'
  BY <1>1 DEF IInv, ListSafe, Stopped
<1>16. EntryUnread' /\ ListRead'
  BY <1>1 DEF EntryUnread, ListRead
<1> QED
  BY <1>4, <1>5, <1>6, <1>7, <1>8, <1>9, <1>10, <1>11, <1>12, <1>13, <1>14, <1>15, <1>16
  DEF IInv

(* Detach begins with precise memory.                                      *)
LEMMA DetachStep ==
  ASSUME IInv, Detach, ~(setting.precise /\ ~supports)
  PROVE  IInv'
<1> DEFINE new == [setting EXCEPT !.precise = FALSE]
<1>1. new \in Settings /\ ~new.precise
  BY DEF IInv, ClientType, Settings
<1>2. /\ call' = [Return EXCEPT !.op = "detach", !.stage = "launch"] /\ Set(new)
      /\ attached /\ fault = "none" /\ call.stage = "idle"
      /\ UNCHANGED <<attached, supports, seen, watches, kept, lists, events, runtime, info, flag,
                     bpt, fault, excp, rtState, host>>
  BY DEF Detach, Live, Idle
<1>3. call' \in Calls /\ call'.op = "detach" /\ call'.stage = "launch"
  BY <1>2 DEF Return, Calls, OsStates
<1>4. kept' \in BOOLEAN /\ kept' = kept
  BY <1>2 DEF IInv, ClientType
<1> HIDE DEF new
<1> QED BY <1>1, <1>2, <1>3, <1>4, UndoStep

(* The launch mode follows.                                                *)
LEMMA DetachLaunchModeStep ==
  ASSUME IInv, DetachLaunchMode
  PROVE  IInv'
<1> DEFINE new == [setting EXCEPT !.launch = "normal"]
<1>1. call.stage = "launch" /\ call.op = "detach" /\ attached /\ fault = "none"
  BY DEF DetachLaunchMode, At, IInv, CallShape
<1>2. new \in Settings /\ ~new.precise /\ new.launch = "normal"
  BY <1>1 DEF IInv, ClientType, Settings, DetachShape
<1>3. /\ Goto("watches") /\ Set(new)
      /\ UNCHANGED <<attached, supports, seen, watches, kept, lists, events, runtime, info, flag,
                     bpt, fault, excp, rtState, host>>
  BY DEF DetachLaunchMode
<1>4. call' \in Calls /\ call'.op = "detach" /\ call'.stage = "watches"
  BY <1>1, <1>3, GotoFacts DEF IInv
<1>5. kept' \in BOOLEAN /\ kept' = kept
  BY <1>3 DEF IInv, ClientType
<1> HIDE DEF new
<1> QED BY <1>1, <1>2, <1>3, <1>4, <1>5, UndoStep

(* The watchpoints are removed, and it is noted if the override stays.     *)
LEMMA DetachWatchpointsStep ==
  ASSUME IInv, DetachWatchpoints
  PROVE  IInv'
<1>1. call.stage = "watches" /\ call.op = "detach" /\ attached /\ fault = "none"
  BY DEF DetachWatchpoints, At, IInv, CallShape
<1>2. PICK new \in Settings :
        /\ Set(new) /\ new.precise = setting.precise /\ new.launch = setting.launch
  BY OverrideFacts DEF DetachWatchpoints
<1>3. /\ Goto("disable") /\ kept' = (kept \/ new.trap)
      /\ UNCHANGED <<attached, supports, seen, watches, lists, events, runtime, info, flag,
                     bpt, fault, excp, rtState, host>>
  BY <1>2 DEF DetachWatchpoints, Set
<1>4. call' \in Calls /\ call'.op = "detach" /\ call'.stage = "disable"
  BY <1>1, <1>3, GotoFacts DEF IInv
<1>5. ~new.precise /\ new.launch = "normal"
  BY <1>1, <1>2 DEF IInv, DetachShape
<1>6. kept' \in BOOLEAN
  BY <1>3 DEF IInv, ClientType, Settings
<1> QED BY <1>1, <1>2, <1>3, <1>4, <1>5, <1>6, UndoStep

(* Detach gives up only in a process that has exited.                      *)
LEMMA DetachGivesUpStep ==
  ASSUME IInv, Detach, setting.precise, ~supports
  PROVE  IInv'
<1> USE LifecycleAssumption DEF LifecycleAssumption
<1>1. /\ UNCHANGED <<watches, kept, attached, setting, supports, seen, objects, changed, pending,
                    reported, runtime, info, flag, bpt, fault, drv, excp, rtState, rtWait, rtList,
                    loader, exited, count>>
      /\ call' = [Return EXCEPT !.op = "failing", !.stage = "disable"]
      /\ exited /\ attached /\ fault = "none" /\ call.stage = "idle"
  BY DEF Detach, lists, events, host, Healthy, Live, Idle, IInv
<1>2. call' \in Calls /\ call'.op = "failing" /\ call'.stage = "disable"
  BY <1>1 DEF Return, Calls, OsStates
<1>3. PendingSet' = PendingSet
  BY <1>1 DEF PendingSet
<1>4. ClientType' /\ EventType' /\ DriverType' /\ HostType'
  BY <1>1 DEF IInv, ClientType, EventType, DriverType, HostType
<1>5. CallType'
  BY <1>1, <1>2 DEF IInv, CallType
<1>6. (~attached => Detached)' /\ Healthy'
  BY <1>1 DEF IInv, Healthy
<1>7. CallShape' /\ DetachShape'
  BY <1>1, <1>2 DEF IInv, CallShape, DetachShape
<1>8. BreakpointShape'
  BY <1>1, <1>2 DEF IInv, BreakpointShape
<1>9. Exceptions' /\ DriverSet' /\ EntryUnread' /\ ListRead'
  BY <1>1 DEF Exceptions, DriverSet, EntryUnread, ListRead
<1>10. Answering'
  BY <1>1, <1>2, <1>3 DEF IInv, Answering, AtMostOne, Answers, IsAnswer, EventCompute
<1>11. ListSafe'
  BY <1>1, <1>2 DEF IInv, ListSafe, CallShape, Return
<1> QED BY <1>4, <1>5, <1>6, <1>7, <1>8, <1>9, <1>10, <1>11 DEF IInv

(* The end of such a detach.                                               *)
LEMMA DetachFailsStep ==
  ASSUME IInv, DetachDisable, call.op = "failing"
  PROVE  IInv'
<1> USE LifecycleAssumption DEF LifecycleAssumption
<1>1. /\ UNCHANGED <<kept, attached, setting, supports, seen, pending, reported, runtime, info,
                    flag, rtState, rtList, exited, count>>
      /\ fault' = "detach" /\ objects' = {} /\ bpt' = "absent" /\ excp' = FALSE /\ rtWait' = FALSE
      /\ changed' = (changed \/ objects # {}) /\ exited /\ watches' = 0
      /\ attached /\ fault = "none" /\ call.stage = "disable" /\ call' = Return
  BY DEF DetachDisable, At, events, IInv, CallShape, DetachShape
<1>2. Return \in Calls /\ Return.stage = "idle" /\ Return.op = "none"
  BY DEF Return, Calls, OsStates
<1>3. drv' \in [debug : BOOLEAN, all : BOOLEAN, set : Settings]
  BY DEF DetachDisable, IInv, DriverType
<1>4. loader' \in [thread : Threads,
                   phase : {"idle", "entry", "changing", "exit", "halted"}]
  BY DEF DetachDisable, ResumeThread, NextPhase, IInv, HostType
<1>5. PendingSet' = PendingSet
  BY <1>1 DEF PendingSet
<1>6. EventType'
  BY <1>1 DEF IInv, EventType
<1>7. CallShape' /\ DetachShape'
  BY <1>1, <1>2 DEF IInv, CallShape, DetachShape
<1>8. ClientType'
  BY <1>1 DEF IInv, ClientType
<1>9. CallType'
  BY <1>1, <1>2 DEF CallType
<1>10. DriverType'
  BY <1>1, <1>3 DEF IInv, DriverType
<1>11. HostType'
  BY <1>1, <1>4 DEF IInv, HostType
<1>12. (~attached => Detached)' /\ Healthy'
  BY <1>1 DEF IInv, Healthy
<1>13. BreakpointShape'
  BY <1>1, <1>2 DEF BreakpointShape
<1>14. Exceptions' /\ DriverSet' /\ EntryUnread' /\ ListRead'
  BY <1>1 DEF Exceptions, DriverSet, EntryUnread, ListRead
<1>15. Answering'
  BY <1>1, <1>2, <1>5 DEF IInv, Answering, AtMostOne, Answers, IsAnswer, EventCompute
<1>16. ListSafe'
  BY <1>1, <1>2 DEF IInv, ListSafe
<1> QED
  BY <1>6, <1>7, <1>8, <1>9, <1>10, <1>11, <1>12, <1>13, <1>14, <1>15, <1>16 DEF IInv

(* The end of a detach leaves the override at most.                        *)
LEMMA DetachDisableStep ==
  ASSUME IInv, DetachDisable, call.op # "failing"
  PROVE  IInv'
<1> USE LifecycleAssumption DEF LifecycleAssumption
<1>1. /\ UNCHANGED <<kept, fault, rtState, rtList, exited, count>>
      /\ Forget /\ excp' = FALSE /\ rtWait' = FALSE /\ watches' = 0 /\ call' = Return
      /\ attached /\ fault = "none" /\ call.stage = "disable" /\ call.op = "detach"
  BY DEF DetachDisable, At, IInv, CallShape
<1>2. /\ drv' \in [debug : BOOLEAN, all : BOOLEAN, set : Settings]
      /\ drv'.debug = FALSE /\ drv'.all = FALSE /\ drv'.set = drv.set
  BY DEF DetachDisable, IInv, DriverType
<1>3. ~exited => Left
  <2> SUFFICES ASSUME ~exited, InForce PROVE Left
    BY DEF IInv, DriverSet
  <2>1. /\ drv.set = setting /\ setting \in Settings /\ ~setting.precise
        /\ setting.launch = "normal" /\ (setting.trap => kept)
    BY <1>1 DEF IInv, DriverSet, DetachShape, ClientType
  <2>2. setting = [launch |-> "normal", trap |-> setting.trap, precise |-> FALSE]
    BY <2>1 DEF Settings
  <2>3. TrapsLeft.set = [launch |-> "normal", trap |-> TRUE, precise |-> FALSE]
    BY DEF TrapsLeft, NoDebug, Defaults
  <2>4. setting.trap \in BOOLEAN
    BY <2>1 DEF Settings
  <2>5. CASE setting.trap = TRUE
    BY <2>1, <2>2, <2>3, <2>5 DEF Left
  <2>6. CASE setting.trap = FALSE
    BY <2>1, <2>2, <2>6 DEF Left, Defaults
  <2> QED BY <2>4, <2>5, <2>6
<1>4. /\ loader' \in [thread : Threads,
                      phase : {"idle", "entry", "changing", "exit", "halted"}]
      /\ loader'.phase \in {"idle", "changing"}
  <2>1. CASE loader.phase \in {"entry", "exit", "halted"}
    BY <2>1 DEF DetachDisable, Stopped, ResumeThread, NextPhase, IInv, HostType
  <2>2. CASE loader.phase \in {"idle", "changing"}
    BY <2>2 DEF DetachDisable, Stopped, IInv, HostType
  <2> QED BY <2>1, <2>2 DEF IInv, HostType
<1>5. Detached' /\ ~attached'
  BY <1>1, <1>2, <1>3, <1>4 DEF Forget, Detached, Left
<1>6. Answers' = {} /\ AtMostOne' /\ pending' \in Seq(Events)
  BY <1>5 DEF Detached, Answers, AtMostOne, PendingSet
<1>7. Return \in Calls /\ Return.stage = "idle" /\ Return.op = "none"
  BY DEF Return, Calls, OsStates
<1>8. ClientType' /\ CallType'
  <2>1. CallType'
    BY <1>1, <1>7 DEF IInv, CallType
  <2>2. 0 \in 0..MaxWatches /\ kept' \in BOOLEAN /\ Defaults \in Settings
    BY <1>1 DEF IInv, ClientType, Defaults, Settings
  <2>3. ClientType'
    BY <1>1, <2>2 DEF Forget, ClientType, RuntimeStates, OsStates
  <2> QED BY <2>1, <2>3
<1>9. EventType'
  BY <1>5, <1>6 DEF Detached, EventType
<1>10. DriverType'
  BY <1>1, <1>2 DEF IInv, DriverType
<1>11. HostType'
  BY <1>1, <1>4 DEF IInv, HostType
<1>12. (~attached => Detached)'
  BY <1>5
<1>13. Healthy'
  BY <1>5 DEF Detached, Healthy, Defaults
<1>14. CallShape' /\ DetachShape'
  BY <1>5, <1>7 DEF Detached, CallShape, DetachShape
<1>15. BreakpointShape'
  BY <1>5 DEF Detached, BreakpointShape
<1>16. Exceptions'
  BY <1>5 DEF Exceptions
<1>17. Answering'
  BY <1>1, <1>6, <1>7 DEF Answering, EventCompute
<1>18. DriverSet'
  BY <1>1, <1>5 DEF DriverSet, InForce, Detached
<1>19. ListSafe'
  BY <1>5, <1>7 DEF Detached, ListSafe
<1>20. EntryUnread'
  BY <1>1, <1>7 DEF EntryUnread
<1>21. ListRead'
  BY <1>5 DEF ListRead
<1> QED
  BY <1>8, <1>9, <1>10, <1>11, <1>12, <1>13, <1>14, <1>15, <1>16, <1>17, <1>18, <1>19, <1>20, <1>21
  DEF IInv

(* The first event is reported.                                            *)
LEMMA ReportEventStep ==
  ASSUME IInv, ReportEvent
  PROVE  IInv'
<1> USE LifecycleAssumption DEF LifecycleAssumption
<1>1. /\ UNCHANGED <<watches, kept, attached, setting, supports, seen, objects, changed, runtime, info,
                    flag, bpt, fault, drv, excp, rtState, rtWait, rtList, loader, exited, count>>
      /\ attached /\ fault = "none" /\ call.stage \in {"idle", "take"} /\ call.op # "hit"
      /\ call' = Return /\ pending # <<>> /\ pending' = Tail(pending)
      /\ reported' = reported \cup {Head(pending)}
  BY DEF ReportEvent, At, client, lists, kfd, host, Live, Idle, IInv, CallShape, Return
<1>2. pending' \in Seq(Events) /\ Head(pending) \in Events
  BY <1>1, TailEvent DEF IInv
<1>3. AtMostOne' /\ Answers' \subseteq Answers
  BY <1>1, AnswerReported DEF IInv, Answering
<1>4. /\ Return \in Calls /\ Return.stage = "idle" /\ Return.op = "none"
  BY DEF Return, Calls, OsStates
<1>5. ClientType' /\ DriverType' /\ HostType'
  BY <1>1 DEF IInv, ClientType, DriverType, HostType
<1>6. Healthy'
  BY <1>1 DEF IInv, Healthy
<1>7. CallType'
  BY <1>1, <1>2, <1>3, <1>4 DEF IInv, CallType
<1>8. EventType'
  BY <1>1, <1>2, <1>3, <1>4 DEF IInv, EventType
<1>9. (~attached => Detached)'
  BY <1>1, <1>2, <1>3, <1>4 DEF IInv, Detached, Left
<1>10. CallShape' /\ DetachShape'
  BY <1>1, <1>2, <1>3, <1>4 DEF IInv, CallShape, DetachShape
<1>11. BreakpointShape'
  BY <1>1, <1>2, <1>3, <1>4 DEF IInv, BreakpointShape
<1>12. Exceptions'
  BY <1>1, <1>2, <1>3, <1>4 DEF IInv, Exceptions, Known, EventCompute
<1>13. Answering'
  BY <1>1, <1>3, <1>4 DEF IInv, Answering, EventCompute
<1>14. DriverSet'
  BY <1>1, <1>2, <1>3, <1>4 DEF IInv, DriverSet, InForce, Left
<1>15. ListSafe'
  BY <1>1, <1>2, <1>3, <1>4 DEF IInv, ListSafe, Stopped
<1>16. EntryUnread'
  BY <1>1, <1>2, <1>3, <1>4 DEF IInv, EntryUnread
<1>17. ListRead'
  BY <1>1, <1>2, <1>3, <1>4 DEF IInv, ListRead
<1> QED
  BY <1>5, <1>6, <1>7, <1>8, <1>9, <1>10, <1>11, <1>12, <1>13, <1>14, <1>15, <1>16, <1>17
  DEF IInv

(* The exception of the runtime is taken; it says that the state changed.   *)
LEMMA QueryRuntimeStep ==
  ASSUME IInv, QueryRuntime
  PROVE  IInv'
<1> USE LifecycleAssumption DEF LifecycleAssumption
<1>1. /\ UNCHANGED <<watches, kept, attached, setting, supports, seen, objects, changed, pending, reported,
                    runtime, info, flag, bpt, fault, drv, rtState, rtWait, rtList, loader, exited,
                    count>>
      /\ attached /\ fault = "none" /\ call = Return /\ call.stage = "idle" /\ call.op = "none"
      /\ excp /\ ~exited /\ excp' = FALSE
      /\ call' = [Return EXCEPT !.op = "event", !.stage = "compute", !.to = rtState]
  <2>1. call = Return /\ attached /\ call.stage = "idle" /\ call.op = "none" /\ fault = "none"
    <3>1. Live
      BY DEF QueryRuntime
    <3> QED BY <3>1 DEF Live, Idle, IInv, CallShape, Return
  <2>2. excp /\ ~exited /\ (rtState = "disabled" <=> info # "disabled")
    <3>1. excp /\ ~exited
      BY DEF QueryRuntime
    <3>2. Known = info
      BY <2>1 DEF Known
    <3> QED BY <2>1, <3>1, <3>2 DEF IInv, Exceptions
  <2> QED BY <2>1, <2>2 DEF QueryRuntime, client, lists, events, host
<1>2. /\ call' \in Calls /\ call'.op = "event" /\ call'.stage = "compute" /\ call'.to = rtState
  BY <1>1 DEF Return, Calls, IInv, DriverType
<1>3. /\ rtWait /\ Answers = {} /\ (rtState = "disabled" <=> info # "disabled")
  BY <1>1 DEF IInv, Exceptions, Answering, Known, EventCompute
<1>4. PendingSet' = PendingSet
  BY <1>1 DEF PendingSet
<1>5. ClientType' /\ EventType' /\ HostType'
  BY <1>1 DEF IInv, ClientType, EventType, HostType
<1>6. Healthy'
  BY <1>1 DEF IInv, Healthy
<1>7. CallType'
  BY <1>1, <1>2, <1>3 DEF IInv, CallType
<1>8. DriverType'
  BY <1>1, <1>2, <1>3 DEF IInv, DriverType
<1>9. (~attached => Detached)'
  BY <1>1, <1>2, <1>3 DEF IInv, Detached, Left
<1>10. CallShape' /\ DetachShape'
  BY <1>1, <1>2, <1>3 DEF IInv, CallShape, DetachShape
<1>11. BreakpointShape'
  BY <1>1, <1>2, <1>3 DEF IInv, BreakpointShape
<1>12. Exceptions'
  BY <1>1, <1>2, <1>3 DEF IInv, Exceptions, Known, EventCompute
<1>13. Answering'
  BY <1>1, <1>2, <1>3, <1>4 DEF IInv, Answering, AtMostOne, Answers, IsAnswer, EventCompute
<1>14. DriverSet'
  BY <1>1, <1>2, <1>3 DEF IInv, DriverSet, InForce, Left, CallShape
<1>15. ListSafe'
  BY <1>1, <1>2, <1>3 DEF IInv, ListSafe, Stopped
<1>16. EntryUnread'
  BY <1>1, <1>2, <1>3 DEF IInv, EntryUnread
<1>17. ListRead'
  BY <1>1, <1>2, <1>3 DEF IInv, ListRead, CallShape
<1> QED
  BY <1>5, <1>6, <1>7, <1>8, <1>9, <1>10, <1>11, <1>12, <1>13, <1>14, <1>15, <1>16, <1>17
  DEF IInv

(* The client has processed an event that answers the runtime.             *)
LEMMA AnswerStep ==
  ASSUME IInv, NEW e \in reported, EventProcessed(e), IsAnswer(e)
  PROVE  IInv'
<1> USE LifecycleAssumption DEF LifecycleAssumption
<1>1. /\ UNCHANGED <<watches, kept, attached, setting, supports, seen, objects, changed, pending, runtime,
                    info, flag, bpt, call, fault, drv, excp, rtState, rtList, loader, exited, count>>
      /\ attached /\ fault = "none" /\ call = Return /\ call.stage = "idle" /\ call.op = "none"
      /\ reported' = reported \ {e} /\ rtWait' = FALSE
  BY DEF EventProcessed, IsAnswer, send_exceptions, client, lists, kfd, Live, Idle, IInv, CallShape, Return
<1>2. AtMostOne' /\ Answers' = {} /\ (rtWait \/ exited) /\ ~(excp /\ ~exited)
  <2>1. AtMostOne' /\ Answers' = {}
    BY <1>1, AnswerGiven DEF IInv, Answering
  <2>2. e \in Answers
    BY DEF Answers
  <2> QED BY <2>1, <2>2 DEF IInv, Answering
<1>3. PendingSet' = PendingSet
  BY <1>1 DEF PendingSet
<1>4. ClientType' /\ CallType' /\ DriverType'
  BY <1>1 DEF IInv, ClientType, CallType, DriverType
<1>5. Healthy' /\ CallShape' /\ DetachShape' /\ BreakpointShape' /\ DriverSet'
  BY <1>1 DEF IInv, Healthy, CallShape, DetachShape, BreakpointShape, DriverSet, InForce, Left
<1>6. ListSafe' /\ EntryUnread' /\ ListRead'
  BY <1>1 DEF IInv, ListSafe, Stopped, EntryUnread, ListRead
<1>7. EventType'
  BY <1>1, <1>2 DEF IInv, EventType
<1>8. HostType'
  BY <1>1, <1>2 DEF IInv, HostType
<1>9. (~attached => Detached)'
  BY <1>1, <1>2 DEF IInv, Detached, Left
<1>10. Exceptions'
  BY <1>1, <1>2 DEF IInv, Exceptions, Known, EventCompute
<1>11. Answering'
  BY <1>2 DEF Answering
<1> QED
  BY <1>4, <1>5, <1>6, <1>7, <1>8, <1>9, <1>10, <1>11 DEF IInv

(* The client has processed an event for the list: the event that resumes   *)
(* the thread follows.                                                     *)
LEMMA ListEventStep ==
  ASSUME IInv, NEW e \in reported, EventProcessed(e), e.kind = "list"
  PROVE  IInv'
<1> USE LifecycleAssumption DEF LifecycleAssumption
<1>1. /\ UNCHANGED <<watches, kept, attached, setting, supports, seen, objects, changed, runtime, info,
                    flag, bpt, call, fault, drv, excp, rtState, rtWait, rtList, loader, exited, count>>
      /\ attached /\ fault = "none" /\ call = Return /\ call.stage = "idle" /\ call.op = "none"
      /\ reported' = reported \ {e} /\ pending' = Append(pending, ResumeEvent(e.thread))
  BY DEF EventProcessed, client, lists, kfd, Live, Idle, IInv, CallShape, Return
<1>2. ResumeEvent(e.thread) \in Events /\ ~IsAnswer(ResumeEvent(e.thread))
  BY DEF IInv, EventType, ResumeEvent, Events, IsAnswer
<1>3. pending' \in Seq(Events) /\ AtMostOne' /\ Answers' \subseteq Answers
  BY <1>1, <1>2, AppendEvent, NoAnswerAdded DEF IInv, Answering
<1>4. ClientType' /\ CallType' /\ DriverType' /\ HostType'
  BY <1>1 DEF IInv, ClientType, CallType, DriverType, HostType
<1>5. Healthy' /\ CallShape' /\ DetachShape' /\ BreakpointShape' /\ Exceptions'
  BY <1>1 DEF IInv, Healthy, CallShape, DetachShape, BreakpointShape, Exceptions, Known, EventCompute
<1>6. DriverSet' /\ ListSafe' /\ EntryUnread' /\ ListRead'
  BY <1>1 DEF IInv, DriverSet, InForce, Left, ListSafe, Stopped, EntryUnread, ListRead
<1>7. EventType'
  BY <1>1, <1>2, <1>3 DEF IInv, EventType
<1>8. (~attached => Detached)'
  BY <1>1, <1>2, <1>3 DEF IInv, Detached, Left
<1>9. Answering'
  BY <1>1, <1>3 DEF IInv, Answering, EventCompute
<1> QED
  BY <1>4, <1>5, <1>6, <1>7, <1>8, <1>9 DEF IInv

(* The client has processed another event: a thread it held may go on.      *)
LEMMA ResumeEventStep ==
  ASSUME IInv, NEW e \in reported, EventProcessed(e), ~IsAnswer(e), e.kind # "list"
  PROVE  IInv'
<1> USE LifecycleAssumption DEF LifecycleAssumption
<1>1. /\ UNCHANGED <<watches, kept, attached, setting, supports, seen, objects, changed, pending, runtime,
                    info, flag, bpt, call, fault, drv, excp, rtState, rtWait, rtList, exited, count>>
      /\ attached /\ fault = "none" /\ call = Return /\ call.stage = "idle" /\ call.op = "none"
      /\ reported' = reported \ {e}
      /\ loader' = loader \/ (loader.phase = "halted" /\ ResumeThread)
  BY DEF EventProcessed, IsAnswer, client, lists, kfd, Live, Idle, IInv, CallShape, Return
<1>2. /\ loader' \in [thread : Threads,
                      phase : {"idle", "entry", "changing", "exit", "halted"}]
      /\ loader'.phase = loader.phase \/ (loader.phase = "halted" /\ loader'.phase = "idle")
  BY <1>1 DEF ResumeThread, NextPhase, IInv, HostType
<1>3. PendingSet' = PendingSet
  BY <1>1 DEF PendingSet
<1>4. ClientType' /\ CallType' /\ DriverType'
  BY <1>1 DEF IInv, ClientType, CallType, DriverType
<1>5. Healthy' /\ CallShape' /\ DetachShape' /\ BreakpointShape' /\ Exceptions'
  BY <1>1 DEF IInv, Healthy, CallShape, DetachShape, BreakpointShape, Exceptions, Known, EventCompute
<1>6. DriverSet'
  BY <1>1 DEF IInv, DriverSet, InForce, Left
<1>7. EventType'
  BY <1>1, <1>2 DEF IInv, EventType
<1>8. HostType'
  BY <1>1, <1>2 DEF IInv, HostType
<1>9. (~attached => Detached)'
  BY <1>1, <1>2 DEF IInv, Detached, Left
<1>10. Answering'
  BY <1>1, <1>2, <1>3 DEF IInv, Answering, AtMostOne, Answers, IsAnswer, EventCompute
<1>11. ListSafe'
  BY <1>1, <1>2 DEF IInv, ListSafe, Stopped
<1>12. EntryUnread'
  BY <1>1, <1>2 DEF IInv, EntryUnread
<1>13. ListRead'
  BY <1>1, <1>2 DEF IInv, ListRead
<1> QED
  BY <1>4, <1>5, <1>6, <1>7, <1>8, <1>9, <1>10, <1>11, <1>12, <1>13 DEF IInv

(* A thread is at r_brk: the flag that the list changed is put aside.       *)
LEMMA HitStep ==
  ASSUME IInv, ReportBreakpointHit, attached, bpt = "inserted"
  PROVE  IInv'
<1> USE LifecycleAssumption DEF LifecycleAssumption
<1>1. /\ UNCHANGED <<watches, kept, attached, setting, supports, seen, objects, pending, reported, runtime,
                    info, flag, bpt, fault, drv, excp, rtState, rtWait, rtList, loader, exited, count>>
      /\ fault = "none" /\ call = Return /\ call.stage = "idle" /\ call.op = "none" /\ Stopped
      /\ call' = [Return EXCEPT !.op = "hit", !.stage = "state", !.saved = changed]
      /\ changed' = FALSE /\ runtime = "success"
  BY DEF ReportBreakpointHit, client, events, kfd, BreakpointShape, Live, Idle, IInv, CallShape, Return
<1>2. /\ call' \in Calls /\ call'.op = "hit" /\ call'.stage = "state" /\ call'.saved = changed
  BY <1>1 DEF Return, Calls, IInv, ClientType, OsStates
<1>3. PendingSet' = PendingSet
  BY <1>1 DEF PendingSet
<1>4. EventType' /\ DriverType' /\ HostType'
  BY <1>1 DEF IInv, EventType, DriverType, HostType
<1>5. Healthy'
  BY <1>1 DEF IInv, Healthy
<1>6. ClientType'
  BY <1>1, <1>2 DEF IInv, ClientType
<1>7. CallType'
  BY <1>1, <1>2 DEF IInv, CallType
<1>8. (~attached => Detached)'
  BY <1>1, <1>2 DEF IInv, Detached, Left
<1>9. CallShape' /\ DetachShape'
  BY <1>1, <1>2 DEF IInv, CallShape, DetachShape
<1>10. BreakpointShape'
  BY <1>1, <1>2 DEF IInv, BreakpointShape
<1>11. Exceptions'
  BY <1>1, <1>2 DEF IInv, Exceptions, Known, EventCompute
<1>12. Answering'
  BY <1>1, <1>2, <1>3 DEF IInv, Answering, AtMostOne, Answers, IsAnswer, EventCompute
<1>13. DriverSet'
  BY <1>1, <1>2 DEF IInv, DriverSet, InForce, Left
<1>14. ListSafe'
  BY <1>1, <1>2 DEF IInv, ListSafe, Stopped
<1>15. EntryUnread'
  BY <1>1, <1>2 DEF IInv, EntryUnread
<1>16. ListRead'
  BY <1>1, <1>2 DEF IInv, ListRead
<1> QED
  BY <1>4, <1>5, <1>6, <1>7, <1>8, <1>9, <1>10, <1>11, <1>12, <1>13, <1>14, <1>15, <1>16
  DEF IInv

(* Without the breakpoint a thread at r_brk goes on.                        *)
LEMMA HitRefusedStep ==
  ASSUME IInv, ReportBreakpointHit, ~(attached /\ bpt = "inserted")
  PROVE  IInv'
<1> USE LifecycleAssumption DEF LifecycleAssumption
<1>1. /\ UNCHANGED <<watches, kept, attached, setting, supports, seen, objects, changed, pending, reported,
                    runtime, info, flag, bpt, call, fault, drv, excp, rtState, rtWait, rtList, exited,
                    count>>
      /\ fault = "none" /\ call = Return /\ call.stage = "idle" /\ call.op = "none" /\ Stopped
      /\ attached /\ runtime # "success" /\ ResumeThread
  <2>1. call = Return /\ call.stage = "idle" /\ call.op = "none" /\ fault = "none" /\ Stopped
    BY DEF ReportBreakpointHit, Live, Idle, IInv, CallShape, Return
  <2>2. attached
    BY <2>1 DEF Stopped, IInv, Detached
  <2>3. runtime # "success"
    BY <2>1, <2>2 DEF IInv, BreakpointShape
  <2> QED
    BY <2>1, <2>2, <2>3 DEF ReportBreakpointHit, client, events, kfd
<1>2. /\ loader' \in [thread : Threads,
                      phase : {"idle", "entry", "changing", "exit", "halted"}]
  BY <1>1 DEF ResumeThread, NextPhase, IInv, HostType
<1>3. PendingSet' = PendingSet
  BY <1>1 DEF PendingSet
<1>4. ClientType' /\ CallType' /\ EventType' /\ DriverType'
  BY <1>1 DEF IInv, ClientType, CallType, EventType, DriverType
<1>5. Healthy' /\ CallShape' /\ DetachShape' /\ BreakpointShape' /\ Exceptions'
  BY <1>1 DEF IInv, Healthy, CallShape, DetachShape, BreakpointShape, Exceptions, Known, EventCompute
<1>6. Answering' /\ DriverSet'
  BY <1>1, <1>3
  DEF IInv, Answering, AtMostOne, Answers, IsAnswer, EventCompute, DriverSet, InForce, Left
<1>7. HostType'
  BY <1>1, <1>2 DEF IInv, HostType
<1>8. (~attached => Detached)'
  BY <1>1, <1>2 DEF IInv, Detached, Left
<1>9. ListSafe'
  BY <1>1, <1>2 DEF IInv, ListSafe, Stopped
<1>10. EntryUnread'
  BY <1>1, <1>2 DEF IInv, EntryUnread
<1>11. ListRead'
  BY <1>1, <1>2 DEF IInv, ListRead
<1> QED
  BY <1>4, <1>5, <1>6, <1>7, <1>8, <1>9, <1>10, <1>11 DEF IInv

(* The runtime is loaded: nothing is left of an earlier one.               *)
LEMMA RuntimeLoadStep ==
  ASSUME IInv, RuntimeLoad
  PROVE  IInv'
<1> USE LifecycleAssumption DEF LifecycleAssumption
<1>1. /\ UNCHANGED <<watches, kept, attached, setting, supports, seen, objects, changed, pending, reported,
                    runtime, info, flag, bpt, call, fault, drv, rtList, loader, exited>>
      /\ ~exited /\ rtState = "disabled" /\ ~rtWait /\ excp' = drv.debug /\ rtWait' = drv.debug
      /\ rtState' \in {"enabled", "busy"}
  BY DEF RuntimeLoad, client, lists, events
<1>2. /\ count' \in [attaches : 0..MaxAttaches, loads : 0..MaxLoads, updates : 0..MaxUpdates]
  BY DEF RuntimeLoad, IInv, HostType
<1>3. attached => drv.debug /\ Known = "disabled" /\ runtime = "unloaded" /\ ~EventCompute
  BY <1>1 DEF IInv, Healthy, Exceptions, Known, CallShape, CallType, Calls, EventCompute
<1>4. /\ Answers = {} /\ (~attached => ~drv.debug) /\ drv.debug \in BOOLEAN
  BY <1>1 DEF IInv, Answering, Detached, NoDebug, DriverType
<1>5. PendingSet' = PendingSet
  BY <1>1 DEF PendingSet
<1>6. ClientType' /\ CallType' /\ EventType'
  BY <1>1 DEF IInv, ClientType, CallType, EventType
<1>7. Healthy' /\ CallShape' /\ DetachShape' /\ BreakpointShape' /\ ListSafe'
  <2>1. Healthy'
    BY <1>1 DEF IInv, Healthy
  <2>2. CallShape' /\ DetachShape'
    BY <1>1 DEF IInv, CallShape, DetachShape
  <2>3. BreakpointShape'
    BY <1>1 DEF IInv, BreakpointShape
  <2>4. ListSafe'
    BY <1>1 DEF IInv, ListSafe, Stopped
  <2> QED
    BY <2>1, <2>2, <2>3, <2>4
<1>8. EntryUnread'
  BY <1>1 DEF IInv, EntryUnread
<1>9. DriverType'
  BY <1>1, <1>2, <1>3, <1>4 DEF IInv, DriverType, OsStates
<1>10. HostType'
  BY <1>1, <1>2, <1>3, <1>4 DEF IInv, HostType
<1>11. (~attached => Detached)'
  BY <1>1, <1>2, <1>3, <1>4 DEF IInv, Detached, Left
<1>12. Exceptions'
  BY <1>1, <1>2, <1>3, <1>4 DEF IInv, Exceptions, Known, EventCompute
<1>13. Answering'
  BY <1>1, <1>2, <1>3, <1>4, <1>5
  DEF IInv, Answering, AtMostOne, Answers, IsAnswer, EventCompute
<1>14. DriverSet'
  BY <1>1, <1>2, <1>3, <1>4 DEF IInv, DriverSet, InForce, Left, Detached
<1>15. ListRead'
  BY <1>1, <1>2, <1>3, <1>4 DEF IInv, ListRead
<1> QED
  BY <1>6, <1>7, <1>8, <1>9, <1>10, <1>11, <1>12, <1>13, <1>14, <1>15 DEF IInv

(* The runtime is unloaded: the driver forgets the settings with it.        *)
LEMMA RuntimeUnloadStep ==
  ASSUME IInv, RuntimeUnload
  PROVE  IInv'
<1> USE LifecycleAssumption DEF LifecycleAssumption
<1>1. /\ UNCHANGED <<watches, kept, attached, setting, supports, seen, objects, changed, pending, reported,
                    runtime, info, flag, bpt, call, fault, loader, exited, count>>
      /\ ~exited /\ rtState # "disabled" /\ ~rtWait /\ excp' = drv.debug /\ rtWait' = drv.debug
      /\ rtState' = "disabled" /\ rtList' = {} /\ drv' = [drv EXCEPT !.set = Defaults]
  BY DEF RuntimeUnload, client, lists, events
<1>2. /\ drv' \in [debug : BOOLEAN, all : BOOLEAN, set : Settings]
      /\ drv'.debug = drv.debug /\ drv'.set = Defaults
  BY <1>1 DEF IInv, DriverType, Defaults, Settings
<1>3. attached => drv.debug /\ Known # "disabled" /\ ~EventCompute
  BY <1>1 DEF IInv, Healthy, Exceptions, EventCompute
<1>4. /\ Answers = {} /\ (~attached => ~drv.debug /\ ~drv'.all) /\ drv.debug \in BOOLEAN
  BY <1>1 DEF IInv, Answering, Detached, DriverType
<1>5. PendingSet' = PendingSet
  BY <1>1 DEF PendingSet
<1>6. ClientType' /\ CallType' /\ EventType'
  BY <1>1 DEF IInv, ClientType, CallType, EventType
<1>7. CallShape' /\ DetachShape' /\ BreakpointShape' /\ ListSafe' /\ EntryUnread'
  BY <1>1 DEF IInv, CallShape, DetachShape, BreakpointShape, ListSafe, Stopped, EntryUnread
<1>8. DriverType'
  BY <1>1, <1>2, <1>3, <1>4 DEF IInv, DriverType, OsStates
<1>9. HostType'
  BY <1>1, <1>2, <1>3, <1>4 DEF IInv, HostType
<1>10. (~attached => Detached)'
  BY <1>1, <1>2, <1>3, <1>4 DEF IInv, Detached, Left
<1>11. Healthy'
  BY <1>1, <1>2, <1>3, <1>4 DEF IInv, Healthy
<1>12. Exceptions'
  BY <1>1, <1>2, <1>3, <1>4 DEF IInv, Exceptions, Known, EventCompute
<1>13. Answering'
  BY <1>1, <1>2, <1>3, <1>4, <1>5
  DEF IInv, Answering, AtMostOne, Answers, IsAnswer, EventCompute
<1>14. DriverSet'
  BY <1>1, <1>2, <1>3, <1>4 DEF IInv, DriverSet, InForce, Left
<1>15. ListRead'
  BY <1>1, <1>2, <1>3, <1>4 DEF IInv, ListRead
<1> QED
  BY <1>6, <1>7, <1>8, <1>9, <1>10, <1>11, <1>12, <1>13, <1>14, <1>15 DEF IInv

(* A thread begins an update: at the breakpoint, if that is inserted.       *)
LEMMA BeginUpdateStep ==
  ASSUME IInv, NEW t \in Threads, BeginUpdate(t)
  PROVE  IInv'
<1> USE LifecycleAssumption DEF LifecycleAssumption
<1>1. /\ UNCHANGED <<watches, kept, attached, setting, supports, seen, objects, changed, pending, reported,
                    runtime, info, flag, bpt, call, fault, drv, excp, rtState, rtWait, rtList, exited>>
      /\ ~exited /\ loader.phase = "idle"
      /\ loader' = [thread |-> t, phase |-> IF bpt = "inserted" THEN "entry" ELSE "changing"]
  BY DEF BeginUpdate, client, lists, events, kfd
<1>2. /\ loader' \in [thread : Threads,
                      phase : {"idle", "entry", "changing", "exit", "halted"}]
      /\ loader'.phase = IF bpt = "inserted" THEN "entry" ELSE "changing"
  BY <1>1
<1>3. /\ count' \in [attaches : 0..MaxAttaches, loads : 0..MaxLoads, updates : 0..MaxUpdates]
  BY DEF BeginUpdate, IInv, HostType
<1>4. /\ call.stage = "list" => bpt = "inserted"
      /\ call.op # "hit"
  BY <1>1 DEF IInv, BreakpointShape, CallShape, Healthy, ListSafe, Stopped
<1>5. PendingSet' = PendingSet
  BY <1>1 DEF PendingSet
<1>6. ClientType' /\ CallType' /\ EventType' /\ DriverType'
  BY <1>1 DEF IInv, ClientType, CallType, EventType, DriverType
<1>7. Healthy' /\ CallShape' /\ DetachShape' /\ BreakpointShape' /\ Exceptions'
  <2>1. Healthy' /\ DetachShape'
    BY <1>1 DEF IInv, Healthy, DetachShape
  <2>2. CallShape' /\ BreakpointShape' /\ Exceptions'
    BY <1>1 DEF IInv, CallShape, BreakpointShape, Exceptions, Known, EventCompute
  <2> QED BY <2>1, <2>2
<1>8. Answering' /\ DriverSet'
  BY <1>1, <1>5
  DEF IInv, Answering, AtMostOne, Answers, IsAnswer, EventCompute, DriverSet, InForce, Left
<1>9. HostType'
  BY <1>1, <1>2, <1>3, <1>4 DEF IInv, HostType
<1>10. (~attached => Detached)'
  BY <1>1, <1>2, <1>3, <1>4 DEF IInv, Detached, Left
<1>11. ListSafe'
  BY <1>1, <1>2, <1>3, <1>4 DEF IInv, ListSafe, Stopped
<1>12. EntryUnread'
  BY <1>1, <1>2, <1>3, <1>4 DEF IInv, EntryUnread
<1>13. ListRead'
  BY <1>1, <1>2, <1>3, <1>4 DEF IInv, ListRead
<1> QED
  BY <1>6, <1>7, <1>8, <1>9, <1>10, <1>11, <1>12, <1>13 DEF IInv

(* The thread has changed the list, and is stopped if the library reads it. *)
LEMMA EndUpdateStep ==
  ASSUME IInv, EndUpdate
  PROVE  IInv'
<1> USE LifecycleAssumption DEF LifecycleAssumption
<1>1. /\ UNCHANGED <<watches, kept, attached, setting, supports, seen, objects, changed, pending, reported,
                    runtime, info, flag, bpt, call, fault, drv, excp, rtState, rtWait, exited, count>>
      /\ ~exited /\ loader.phase = "changing"
      /\ loader' = [loader EXCEPT !.phase = IF bpt = "inserted" THEN "exit" ELSE "idle"]
  BY DEF EndUpdate, client, lists, events, kfd
<1>2. /\ loader' \in [thread : Threads,
                      phase : {"idle", "entry", "changing", "exit", "halted"}]
      /\ loader'.phase = IF bpt = "inserted" THEN "exit" ELSE "idle"
  BY <1>1 DEF IInv, HostType
<1>3. rtList' \subseteq Objects
  BY DEF EndUpdate, IInv, HostType
<1>4. /\ fault = "none" /\ call.op # "hit"
      /\ call.stage \in {"idle", "take", "listed"} /\ runtime = "success" => bpt = "inserted"
  BY <1>1 DEF IInv, BreakpointShape, Healthy, ListSafe, Stopped
<1>5. PendingSet' = PendingSet
  BY <1>1 DEF PendingSet
<1>6. ClientType' /\ CallType' /\ EventType' /\ DriverType'
  BY <1>1 DEF IInv, ClientType, CallType, EventType, DriverType
<1>7. Healthy' /\ CallShape' /\ DetachShape' /\ BreakpointShape' /\ Exceptions'
  <2>1. Healthy' /\ DetachShape'
    BY <1>1 DEF IInv, Healthy, DetachShape
  <2>2. CallShape' /\ BreakpointShape' /\ Exceptions'
    BY <1>1 DEF IInv, CallShape, BreakpointShape, Exceptions, Known, EventCompute
  <2> QED BY <2>1, <2>2
<1>8. Answering' /\ DriverSet'
  BY <1>1, <1>5
  DEF IInv, Answering, AtMostOne, Answers, IsAnswer, EventCompute, DriverSet, InForce, Left
<1>9. HostType'
  BY <1>1, <1>2, <1>3, <1>4 DEF IInv, HostType
<1>10. (~attached => Detached)'
  BY <1>1, <1>2, <1>3, <1>4 DEF IInv, Detached, Left
<1>11. ListSafe'
  BY <1>1, <1>2, <1>3, <1>4 DEF IInv, ListSafe, Stopped
<1>12. EntryUnread'
  BY <1>1, <1>2, <1>3, <1>4 DEF IInv, EntryUnread
<1>13. ListRead'
  BY <1>1, <1>2, <1>3, <1>4 DEF IInv, ListRead
<1> QED
  BY <1>6, <1>7, <1>8, <1>9, <1>10, <1>11, <1>12, <1>13 DEF IInv

(* The process exits.                                                      *)
LEMMA ExitStep ==
  ASSUME IInv, Exit
  PROVE  IInv'
<1> USE LifecycleAssumption DEF LifecycleAssumption
<1>1. /\ UNCHANGED <<watches, kept, attached, setting, supports, seen, objects, changed, pending, reported,
                    runtime, info, flag, bpt, call, fault, drv, excp, rtState, rtList, count>>
      /\ exited' = TRUE /\ rtWait' = FALSE /\ ~exited
      /\ loader' = [loader EXCEPT !.phase = "idle"]
  BY DEF Exit, client, lists, events, kfd
<1>2. /\ loader' \in [thread : Threads,
                      phase : {"idle", "entry", "changing", "exit", "halted"}] /\ loader'.phase = "idle"
  BY <1>1 DEF IInv, HostType
<1>3. PendingSet' = PendingSet
  BY <1>1 DEF PendingSet
<1>4. ClientType' /\ CallType' /\ EventType' /\ DriverType'
  BY <1>1 DEF IInv, ClientType, CallType, EventType, DriverType
<1>5. CallShape' /\ DetachShape' /\ BreakpointShape'
  BY <1>1 DEF IInv, CallShape, DetachShape, BreakpointShape
<1>6. HostType'
  BY <1>1, <1>2 DEF IInv, HostType
<1>7. (~attached => Detached)'
  BY <1>1, <1>2 DEF IInv, Detached, Left
<1>8. Healthy'
  BY <1>1, <1>2 DEF IInv, Healthy
<1>9. Exceptions'
  BY <1>1, <1>2 DEF IInv, Exceptions, Known, EventCompute
<1>10. Answering'
  BY <1>1, <1>2, <1>3 DEF IInv, Answering, AtMostOne, Answers, IsAnswer, EventCompute
<1>11. DriverSet'
  BY <1>1, <1>2 DEF IInv, DriverSet, InForce, Left
<1>12. ListSafe'
  BY <1>1, <1>2 DEF IInv, ListSafe, Stopped
<1>13. EntryUnread'
  BY <1>1, <1>2 DEF IInv, EntryUnread
<1>14. ListRead'
  BY <1>1, <1>2 DEF IInv, ListRead
<1> QED
  BY <1>4, <1>5, <1>6, <1>7, <1>8, <1>9, <1>10, <1>11, <1>12, <1>13, <1>14 DEF IInv

-----------------------------------------------------------------------------
(* The theorems.                                                           *)

(* The initial states satisfy the invariant.                               *)
LEMMA InitInv == Init => IInv
<1> USE LifecycleAssumption DEF LifecycleAssumption
<1> SUFFICES ASSUME Init PROVE IInv
  OBVIOUS
<1>1. Return \in Calls /\ Return.stage = "idle" /\ Return.op = "none"
  BY DEF Return, Calls, OsStates
<1>2. Defaults \in Settings /\ Defaults.precise = FALSE
  BY DEF Defaults, Settings
<1>3. (CHOOSE t \in Threads : TRUE) \in Threads
  OBVIOUS
<1>4. ClientType /\ CallType /\ EventType
  <2>1. ClientType /\ CallType
    <3>1. 0 \in 0..MaxWatches
      OBVIOUS
    <3> QED BY <1>1, <1>2, <3>1 DEF Init, ClientType, CallType, RuntimeStates, OsStates
  <2>2. EventType
    BY DEF Init, EventType
  <2> QED BY <2>1, <2>2
<1>5. DriverType
  BY <1>2 DEF Init, DriverType, NoDebug, OsStates
<1>6. HostType
  <2>1. 0 \in 0..MaxAttaches /\ 0 \in 0..MaxLoads /\ 0 \in 0..MaxUpdates
    OBVIOUS
  <2>2. count \in [attaches : 0..MaxAttaches, loads : 0..MaxLoads, updates : 0..MaxUpdates]
    BY <2>1 DEF Init
  <2>3. loader \in [thread : Threads,
                    phase : {"idle", "entry", "changing", "exit", "halted"}]
    BY <1>3 DEF Init
  <2> QED BY <2>2, <2>3 DEF Init, HostType
<1>7. Detached /\ Healthy /\ CallShape /\ DetachShape /\ BreakpointShape
  <2>1. loader.phase = "idle"
    BY DEF Init
  <2>2. Detached
    BY <2>1 DEF Init, Detached, Left, NoDebug
  <2>3. Healthy /\ CallShape /\ DetachShape /\ BreakpointShape
    BY <1>1, <1>2 DEF Init, Healthy, CallShape, DetachShape, BreakpointShape
  <2> QED BY <2>2, <2>3
<1>8. Exceptions /\ Answering
  BY <1>1 DEF Init, Exceptions, Answering, Answers, AtMostOne, PendingSet, EventCompute
<1>9. DriverSet /\ ListSafe /\ EntryUnread /\ ListRead
  BY <1>1 DEF Init, DriverSet, InForce, Left, NoDebug, ListSafe, EntryUnread, ListRead
<1> QED BY <1>4, <1>5, <1>6, <1>7, <1>8, <1>9 DEF IInv

(* Every step keeps the invariant.                                         *)
LEMMA NextInv == IInv /\ [Next]_vars => IInv'
<1> SUFFICES ASSUME IInv, [Next]_vars PROVE IInv'
  OBVIOUS
<1>1. CASE UNCHANGED vars
  <2>1. UNCHANGED <<watches, kept, attached, setting, supports, seen, objects, changed, pending, reported,
                    runtime, info, flag, bpt, call, fault, drv, excp, rtState, rtWait, rtList,
                    loader, exited, count>>
    BY <1>1 DEF vars, client, lists, events, kfd, host
  <2>2. PendingSet' = PendingSet
    BY <2>1 DEF PendingSet
  <2>3. ClientType' /\ CallType' /\ EventType'
    BY <2>1 DEF IInv, ClientType, CallType, EventType
  <2>7. DriverType' /\ HostType'
    BY <2>1 DEF IInv, DriverType, HostType
  <2>4. (~attached => Detached)' /\ Healthy'
    BY <2>1 DEF IInv, Detached, Left, Healthy
  <2>8. CallShape'
    BY <2>1 DEF IInv, CallShape
  <2>9. DetachShape' /\ BreakpointShape'
    BY <2>1 DEF IInv, DetachShape, BreakpointShape
  <2>5. Exceptions' /\ Answering'
    BY <2>1, <2>2
    DEF IInv, Exceptions, Known, Answering, Answers, AtMostOne, IsAnswer, EventCompute
  <2>6. DriverSet' /\ ListSafe' /\ EntryUnread' /\ ListRead'
    BY <2>1 DEF IInv, DriverSet, InForce, Left, ListSafe, Stopped, EntryUnread, ListRead
  <2> QED BY <2>3, <2>4, <2>5, <2>6, <2>7, <2>8, <2>9 DEF IInv
<1>2. CASE Continue
  <2>1. CASE ComputeState
    BY <2>1, ComputeExitedStep, ComputeRecordsStep
  <2>2. CASE Subscribe
    BY <2>2, SubscribeExitedStep, SubscribeLoadedStep, SubscribeUnloadedStep
  <2>3. CASE InsertBreakpoint
    BY <2>3, InsertExitedStep, InsertRefusedStep, InsertedStep
  <2>4. CASE BreakpointAction
    BY <2>4, NothingChangedStep, ListChangedStep
  <2>5. CASE DetachDisable
    BY <2>5, DetachFailsStep, DetachDisableStep
  <2> QED BY <1>2, <2>1, <2>2, <2>3, <2>4, <2>5, DetachLaunchModeStep, DetachWatchpointsStep,
             ReadStateStep, ReadListStep, ApplySettingsStep
          DEF Continue
<1>3. CASE ServeEvents
  <2>1. CASE ReportBreakpointHit
    BY <2>1, HitStep, HitRefusedStep
  <2>2. CASE \E e \in reported : EventProcessed(e)
    BY <2>2, AnswerStep, ListEventStep, ResumeEventStep
  <2> QED BY <1>3, <2>1, <2>2, ReportEventStep, QueryRuntimeStep DEF ServeEvents
<1>4. CASE SetWaveCreation \/ SetMemoryPrecision \/ SetWatchpoint \/ RemoveWatchpoint
  <2>1. setting \in Settings
    BY DEF IInv, ClientType
  <2>2. CASE SetWaveCreation
    <3>1. PICK m \in {"normal", "halt"} : SetOnly([setting EXCEPT !.launch = m])
      BY <2>2 DEF SetWaveCreation
    <3>2. /\ [setting EXCEPT !.launch = m] \in Settings
          /\ [setting EXCEPT !.launch = m].precise = setting.precise
      BY <2>1 DEF Settings
    <3> QED BY <3>1, <3>2, SetOnlyStep
  <2>3. CASE SetMemoryPrecision
    <3>1. PICK b \in BOOLEAN : supports /\ SetOnly([setting EXCEPT !.precise = b])
      BY <2>3 DEF SetMemoryPrecision
    <3>2. [setting EXCEPT !.precise = b] \in Settings
      BY <2>1 DEF Settings
    <3> QED BY <3>1, <3>2, SetOnlyStep
  <2> QED BY <1>4, <2>2, <2>3, SetWatchpointStep, RemoveWatchpointStep
<1>5. CASE AgentList \/ CodeObjectList \/ Attach
  BY <1>5, AgentListStep, CodeObjectListStep, AttachStep
<1>6. CASE Detach
  BY <1>6, DetachGivesUpStep, DetachStep
<1>7. CASE RuntimeLoad \/ RuntimeUnload \/ EndUpdate \/ Exit
  BY <1>7, RuntimeLoadStep, RuntimeUnloadStep, EndUpdateStep, ExitStep
<1>8. CASE \E t \in Threads : BeginUpdate(t)
  BY <1>8, BeginUpdateStep
<1> QED BY <1>1, <1>2, <1>3, <1>4, <1>5, <1>6, <1>7, <1>8 DEF Next

(* The invariant holds in every reachable state.                           *)
LEMMA Invariance == Spec => []IInv
<1> QED BY InitInv, NextInv, PTL DEF Spec

(* The driver follows the library: while the runtime is loaded it has      *)
(* every setting the client made, before the runtime was loaded too; and a *)
(* process that was detached from has no trace of the debugger left but,   *)
(* at most, the trap override that a detach did not remove.                *)
THEOREM Followed == Spec => []DriverFollows
<1>1. IInv => TypeOK
  BY TypesTogether DEF IInv
<1>2. IInv => SettingsApplied
  BY DEF IInv, SettingsApplied, DriverSet, InForce, Live, Idle
<1>3. ASSUME IInv, ~attached, ~exited
      PROVE  bpt = "absent" /\ (drv = NoDebug \/ (kept /\ drv = TrapsLeft))
  <2>1. bpt = "absent" /\ Left /\ ~drv.debug /\ ~drv.all
    BY <1>3 DEF IInv, Detached
  <2>2. drv = [debug |-> FALSE, all |-> FALSE, set |-> drv.set]
    BY <1>3, <2>1 DEF IInv, DriverType
  <2>3. TrapsLeft = [debug |-> FALSE, all |-> FALSE, set |-> TrapsLeft.set]
    BY DEF TrapsLeft
  <2> QED BY <2>1, <2>2, <2>3 DEF Left, NoDebug
<1>4. IInv => DriverFollows
  BY <1>1, <1>2, <1>3 DEF DriverFollows, NothingLeft
<1> QED BY <1>4, Invariance, PTL

(* The list of code objects is never read while a thread changes it, is    *)
(* that of the inferior whenever no update is under way, and a client that *)
(* has another one will be told that it changed.                           *)
THEOREM Listed == Spec => []ListReported
<1>1. ASSUME IInv PROVE fault # "torn list"
  BY <1>1 DEF IInv, Healthy
<1>2. ASSUME IInv, Live PROVE /\ runtime # "success" => objects = {}
                              /\ seen # objects => changed
  <2>1. call.stage = "idle" /\ call.op = "none"
    BY <1>2 DEF Live, Idle, IInv, CallShape, Return
  <2> QED BY <1>2, <2>1 DEF IInv, ListSafe
<1>3. ASSUME IInv, Live, runtime = "success", ~exited, rtState = "enabled",
             loader.phase \in {"idle", "halted"}
      PROVE  objects = rtList
  BY <1>3 DEF IInv, ListRead, Live, Idle
<1>4. IInv => ListReported
  BY <1>1, <1>2, <1>3 DEF ListReported
<1> QED BY <1>4, Invariance, PTL

(* The runtime is answered once for each of its exceptions, never for a    *)
(* state that attach found, and no exception is raised without a change.   *)
THEOREM Answered == Spec => []AnswersMatch
<1>1. ASSUME IInv
      PROVE  Cardinality(Answers) <= 1
  <2>1. \A e, f \in Answers : e = f
    BY <1>1 DEF IInv, Answering, AtMostOne, Answers, PendingSet
  <2>2. CASE Answers = {}
    BY <2>2, FS_EmptySet
  <2>3. CASE Answers # {}
    <3>1. PICK e : Answers = {e}
      BY <2>1, <2>3
    <3>2. Cardinality({e}) = 1
      BY FS_Singleton
    <3> QED BY <3>1, <3>2
  <2> QED BY <2>2, <2>3
<1>2. IInv => AnswersMatch
  <2> SUFFICES ASSUME IInv PROVE AnswersMatch
    OBVIOUS
  <2>1. Answers = {e \in PendingSet \cup reported : e.kind = "runtime" /\ ~e.attach}
    BY DEF Answers, IsAnswer
  <2>2. Answers # {} => rtWait \/ exited
    BY DEF IInv, Answering
  <2>3. fault # "spurious runtime exception"
    BY DEF IInv, Healthy
  <2> QED BY <1>1, <2>1, <2>2, <2>3 DEF AnswersMatch
<1> QED BY <1>2, Invariance, PTL
=============================================================================
