------------------------- MODULE Watchpoints_proofs -------------------------
(***************************************************************************)
(* Proofs about Watchpoints, for any number of agents, registers, waves    *)
(* and watchpoints.                                                        *)
(***************************************************************************)
EXTENDS Watchpoints, FiniteSetTheorems, WellFoundedInduction, TLAPS

-----------------------------------------------------------------------------
(* The inductive invariant.                                                *)

Setting(steps)  == call.op = "set" /\ call.at \in steps
Removing(steps) == call.op = "remove" /\ call.at \in steps

(* The shape of the call in progress: its watchpoint exists.               *)
CallShape ==
    \/ call = Return
    \/ /\ \/ Setting({"override", "waves", "insert", "undo"})
          \/ Removing({"clear", "override", "waves"})
       /\ call.ptr \in Live
       /\ call.agent \in Agents
       /\ Setting({"override", "waves"}) => call.agent = 1

(* A process with a watchpoint has an agent.                               *)
Supported == Live # {} => NumAgents > 0

(* Watchpoints have ids of their own, all of them already given out.       *)
IdsUnique ==
    /\ \A p \in Live : object[p] < next_id
    /\ \A p, q \in Live : object[p] = object[q] => p = q

(* The agents on which the watchpoint of the call is not programmed.       *)
NotOn(a) ==
    \/ Setting({"override", "waves"})
    \/ Setting({"insert"}) /\ a >= call.agent
    \/ Setting({"undo"}) /\ a < call.agent
    \/ Removing({"clear"}) /\ a < call.agent
    \/ Removing({"override", "waves"})

(* A programmed register is recorded with the watchpoint that is in it,    *)
(* no watchpoint is in two registers of an agent, and the one of the call  *)
(* is nowhere the call has not put it yet or has taken it from.            *)
Owned ==
    \A a \in Agents, r \in Regs : watch[a][r] \in Ids =>
        /\ m_watchpoints[a][r] \in Live
        /\ object[m_watchpoints[a][r]] = watch[a][r]
        /\ \A s \in Regs : watch[a][s] = watch[a][r] => s = r
        /\ ~(m_watchpoints[a][r] = call.ptr /\ NotOn(a))

(* The agents on which a watchpoint must be programmed.                    *)
MustBeOn(p, a) ==
    \/ p # call.ptr
    \/ Setting({"insert"}) /\ a < call.agent
    \/ Removing({"clear"}) /\ a >= call.agent

Programmed ==
    \A p \in Live, a \in Agents :
        MustBeOn(p, a) => \E r \in Regs : watch[a][r] = object[p]

(* The traps are enabled while there is a watchpoint, except in the calls  *)
(* for the first one and for the last one.                                 *)
OnlyOne == Setting({"override", "waves"}) \/ Removing({"override", "waves"})
TrapsFollow ==
    /\ OnlyOne => Live = {call.ptr}
    /\ (Live # {} /\ ~OnlyOne) \/ Setting({"waves"}) => trap_override
    /\ Live # {} /\ ~OnlyOne => \A w \in Waves : trap_en[w] # "off"

(* A wave is stopped by at most one register, which still holds the        *)
(* watchpoint if the watchpoint exists and is not being taken away.        *)
Staying(p) == p # call.ptr \/ Setting({"override", "waves", "insert"})
StillThere ==
    \A w \in Waves : \A t \in triggered[w], p \in Live :
        object[p] = t.id /\ Staying(p) => watch[t.agent][t.reg] = t.id
TriggeredOnce ==
    \A w \in Waves : \A t \in triggered[w] :
        t.id < next_id /\ triggered[w] = {t}

Sound == Owned /\ Programmed /\ TrapsFollow /\ StillThere

IInv ==
    /\ TypeOK
    /\ CallShape
    /\ Supported
    /\ IdsUnique
    /\ TriggeredOnce
    /\ TrapsCoverWatches
    /\ ReportedIsTriggered
    /\ ~exited /\ ~failure => Sound

(* An entry is of an address where a watchpoint was destroyed, or the       *)
(* register it is for is programmed, or the call has undone it.            *)
Undone(a) ==
    \/ (Setting({"undo"}) \/ Removing({"clear"})) /\ a < call.agent
    \/ Removing({"override", "waves"})
EntriesTrue ==
    \A a \in Agents, r \in Regs :
        \/ m_watchpoints[a][r] \in freed \cup {None}
        \/ watch[a][r] \in Ids
        \/ m_watchpoints[a][r] = call.ptr /\ Undone(a)
EntriesInv ==
    /\ IInv
    /\ FatalOnlyIfReused
    /\ ~exited /\ ~failure => EntriesTrue

-----------------------------------------------------------------------------
(* What the conjuncts of the invariant give together.                      *)

(* A programmed register belongs to a watchpoint, so the traps are on.     *)
LEMMA SoundCovers == TypeOK /\ Sound => TrapsCoverWatches
<1> SUFFICES ASSUME TypeOK, Sound, NEW a \in Agents, NEW r \in Regs, watch[a][r] \in Ids
             PROVE  trap_override /\ \A w \in Waves : trap_en[w] # "off"
  BY DEF TrapsCoverWatches
<1>1. m_watchpoints[a][r] \in Live /\ ~(m_watchpoints[a][r] = call.ptr /\ NotOn(a))
  BY DEF Sound, Owned
<1>2. ~OnlyOne
  BY <1>1 DEF Sound, TrapsFollow, OnlyOne, NotOn
<1> QED BY <1>1, <1>2 DEF Sound, TrapsFollow

(* The register that stopped a wave still has its entry.                   *)
LEMMA SoundReports ==
    TypeOK /\ IdsUnique /\ TriggeredOnce /\ Sound => ReportedIsTriggered
<1> SUFFICES ASSUME TypeOK, IdsUnique, TriggeredOnce, Sound,
                    NEW w \in Waves, NEW t \in triggered[w], NEW p \in Live,
                    object[p] = t.id, p # call.ptr
             PROVE  WaveInfoWatchpoints(w) = {p}
  BY DEF ReportedIsTriggered
<1>1. triggered[w] = {t}
  BY DEF TriggeredOnce
<1>2. t.agent \in Agents /\ t.reg \in Regs /\ t.id \in Ids
  BY DEF TypeOK
<1>3. watch[t.agent][t.reg] = t.id
  BY DEF Sound, StillThere, Staying
<1>4. m_watchpoints[t.agent][t.reg] \in Live
      /\ object[m_watchpoints[t.agent][t.reg]] = object[p]
  BY <1>2, <1>3 DEF Sound, Owned
<1>5. m_watchpoints[t.agent][t.reg] = p
  BY <1>4 DEF IdsUnique
<1>6. triggered_watchpoints(w) = {<<t.agent, t.reg>>}
  BY <1>1 DEF triggered_watchpoints
<1> QED BY <1>5, <1>6 DEF WaveInfoWatchpoints

-----------------------------------------------------------------------------
(* The steps of a call, one lemma each.                                    *)

(* The part of the invariant that needs no register.                       *)
Base == TypeOK /\ CallShape /\ Supported /\ IdsUnique /\ TriggeredOnce

(* amd_dbgapi_set_watchpoint creates its object: an id nobody has, at an   *)
(* address nobody uses, in no register yet.                                *)
LEMMA SetWatchpointStep ==
  ASSUME Base, NEW p \in Heap, SetWatchpoint(p)
  PROVE  Base' /\ (Sound => Sound')
<1> USE WatchpointsAssumption DEF WatchpointsAssumption
<1>1. Live' = Live \cup {p} /\ p \notin Live /\ p # None
  BY DEF SetWatchpoint, Live, Base, TypeOK, Ids, None
<1>2. \A q \in Live : object'[q] = object[q] /\ object[q] < next_id /\ object[q] \in Ids
  BY <1>1 DEF SetWatchpoint, Live, Base, TypeOK, IdsUnique
<1>3. object'[p] = next_id /\ next_id' = next_id + 1 /\ next_id \in Ids
  BY DEF SetWatchpoint, Base, TypeOK, Ids
<1>4. call = Return /\ call' = [op |-> "set", ptr |-> p, agent |-> 1,
                                at |-> IF Live = {} THEN "override" ELSE "insert"]
  BY DEF SetWatchpoint, Base, CallShape, Setting, Removing, Idle
<1>5. UNCHANGED <<m_watchpoints, watch, trap_override, trap_en, triggered>>
  BY DEF SetWatchpoint, device
<1>6. 1 \in Agents
  BY DEF SetWatchpoint, watchpoint_shared_kind, Agents
<1>7. TypeOK'
  BY <1>3, <1>4, <1>6 DEF SetWatchpoint, Base, TypeOK, device, Agents, Ids
<1>8. CallShape' /\ Supported'
  BY <1>1, <1>4, <1>6 DEF CallShape, Setting, Removing, Supported, Agents
<1>9. IdsUnique'
  <2> SUFFICES ASSUME NEW q \in Live', NEW o \in Live'
               PROVE  object'[q] < next_id' /\ (object'[q] = object'[o] => q = o)
    BY DEF IdsUnique
  <2>1. CASE q \in Live /\ o \in Live
    BY <1>2, <1>3, <2>1 DEF Base, IdsUnique, Ids
  <2>2. CASE q = p \/ o = p
    BY <1>1, <1>2, <1>3, <2>2 DEF Ids
  <2> QED BY <1>1, <2>1, <2>2
<1>10. TriggeredOnce'
  BY <1>3, <1>5 DEF Base, TriggeredOnce, TypeOK, Ids
<1>11. ASSUME Sound PROVE Sound'
  <2>1. Owned'
    BY <1>1, <1>2, <1>4, <1>5, <1>11 DEF Sound, Owned
  <2>2. Programmed'
    BY <1>1, <1>2, <1>4, <1>5, <1>6, <1>11
    DEF Sound, Programmed, MustBeOn, Setting, Removing, Return, Agents, None, Live
  <2>3. TrapsFollow'
    BY <1>1, <1>4, <1>5, <1>11
    DEF Sound, TrapsFollow, OnlyOne, Setting, Removing, Return
  <2>4. StillThere'
    <3> SUFFICES ASSUME NEW w \in Waves, NEW t \in triggered[w], NEW q \in Live',
                        object'[q] = t.id
                 PROVE  watch[t.agent][t.reg] = t.id
      BY <1>5 DEF StillThere
    <3>1. t.id < next_id
      BY DEF Base, TriggeredOnce
    <3>2. q \in Live /\ q # None
      BY <1>1, <1>3, <3>1 DEF Base, TypeOK, Live, None
    <3> QED BY <1>2, <1>4, <1>11, <3>2 DEF Sound, StillThere, Staying, Return
  <2> QED BY <2>1, <2>2, <2>3, <2>4 DEF Sound
<1> QED BY <1>7, <1>8, <1>9, <1>10, <1>11 DEF Base

(* amd_dbgapi_remove_watchpoint starts with the watchpoint on all agents.  *)
LEMMA RemoveWatchpointStep ==
  ASSUME Base, NEW p \in Heap, RemoveWatchpoint(p)
  PROVE  Base' /\ (Sound => Sound')
<1> USE WatchpointsAssumption DEF WatchpointsAssumption
<1>1. UNCHANGED <<object, freed, next_id, m_watchpoints, watch, trap_override, trap_en,
                  triggered, exited, failure>> /\ Live' = Live
  BY DEF RemoveWatchpoint, library, device, Live
<1>2. call = Return /\ p \in Live
      /\ call' = [op |-> "remove", at |-> "clear", ptr |-> p, agent |-> 1]
  BY DEF RemoveWatchpoint, Base, CallShape, Setting, Removing, Idle
<1>3. 1 \in Agents
  BY <1>2 DEF Base, Supported, Agents
<1>7. TypeOK'
  BY <1>1, <1>2, <1>3 DEF Base, TypeOK, Agents
<1>8. CallShape'
  BY <1>1, <1>2, <1>3 DEF CallShape, Setting, Removing
<1>9. IdsUnique' /\ TriggeredOnce' /\ Supported'
  BY <1>1 DEF Base, IdsUnique, TriggeredOnce, Supported
<1>11. ASSUME Sound PROVE Sound'
  <2>1. Owned'
    BY <1>1, <1>2, <1>11 DEF Sound, Owned, NotOn, Setting, Removing, Agents
  <2>2. Programmed'
    BY <1>1, <1>2, <1>11 DEF Sound, Programmed, MustBeOn, Return, None, Live
  <2>3. TrapsFollow'
    BY <1>1, <1>2, <1>11 DEF Sound, TrapsFollow, OnlyOne, Setting, Removing, Return
  <2>4. StillThere'
    BY <1>1, <1>2, <1>11 DEF Sound, StillThere, Staying, Setting, Return, None, Live
  <2> QED BY <2>1, <2>2, <2>3, <2>4 DEF Sound
<1> QED BY <1>7, <1>8, <1>9, <1>11 DEF Base

(* The steps that leave the registers alone: the traps of new and of old   *)
(* waves change in the order that covers every programmed register.        *)
LEMMA TrapSteps ==
  ASSUME Base, SetTrapOverride \/ EnableTraps \/ InsertRefused \/ ClearTrapOverride
  PROVE  Base' /\ (Sound /\ ~exited => Sound')
<1> USE WatchpointsAssumption DEF WatchpointsAssumption
<1>1. UNCHANGED <<object, freed, next_id, m_watchpoints, watch, triggered, exited, failure>>
      /\ Live' = Live
  BY DEF SetTrapOverride, EnableTraps, InsertRefused, ClearTrapOverride, library, device, Live
<1>2. call.ptr \in Live /\ call.agent \in Agents /\ call'.ptr = call.ptr
      /\ call'.agent \in Agents /\ call'.op = call.op
  <2>1. call.op \in {"set", "remove"}
    BY DEF SetTrapOverride, EnableTraps, InsertRefused, ClearTrapOverride
  <2>2. call.ptr \in Live /\ call.agent \in Agents
    BY <2>1 DEF Base, CallShape, Return
  <2>3. CASE InsertRefused
    BY <2>2, <2>3 DEF InsertRefused, Base, TypeOK, Agents
  <2>4. CASE SetTrapOverride \/ EnableTraps \/ ClearTrapOverride
    BY <2>2, <2>4 DEF SetTrapOverride, EnableTraps, ClearTrapOverride, GoTo, Base, TypeOK
  <2> QED BY <2>2, <2>3, <2>4
<1>3. TypeOK'
  <2>1. call' \in [op : {"none", "set", "remove"},
                   at : {"none", "override", "waves", "insert", "undo", "clear"},
                   ptr : Heap \cup {None}, agent : 0..NumAgents]
    <3>1. CASE InsertRefused
      <4>1. 1 \in 0..NumAgents
        BY <1>2 DEF Agents
      <4> QED BY <3>1, <4>1 DEF InsertRefused, Base, TypeOK
    <3>2. CASE SetTrapOverride \/ ClearTrapOverride
      BY <3>2 DEF SetTrapOverride, ClearTrapOverride, GoTo, Base, TypeOK
    <3>3. CASE EnableTraps
      BY <3>3 DEF EnableTraps, GoTo, Base, TypeOK
    <3> QED BY <3>1, <3>2, <3>3
  <2>2. trap_override' \in BOOLEAN /\ trap_en' \in [Waves -> {"none", "off", "on"}]
    BY DEF Base, TypeOK, SetTrapOverride, EnableTraps, InsertRefused, device,
         ClearTrapOverride, wave_enable_traps
  <2> QED BY <1>1, <2>1, <2>2 DEF Base, TypeOK
<1>4. CallShape'
  <2>1. CASE SetTrapOverride
    BY <1>1, <1>2, <2>1
    DEF SetTrapOverride, At, GoTo, CallShape, Setting, Removing, Return, Base, TypeOK
  <2>2. CASE EnableTraps \/ InsertRefused \/ ClearTrapOverride
    BY <1>1, <1>2, <2>2 DEF EnableTraps, InsertRefused, ClearTrapOverride,
         GoTo, CallShape, Setting, Removing, Base, TypeOK
  <2> QED BY <2>1, <2>2
<1>5. IdsUnique' /\ TriggeredOnce' /\ Supported'
  BY <1>1 DEF Base, IdsUnique, TriggeredOnce, Supported
<1>6. ASSUME Sound, ~exited PROVE Sound'
  <2>1. CASE SetTrapOverride
    <3>1. Setting({"override"}) /\ Setting({"waves"})' /\ trap_override' /\ trap_en' = trap_en
      BY <1>6, <2>1 DEF SetTrapOverride, Setting, At, GoTo, Base, TypeOK
    <3>2. Owned' /\ Programmed'
      BY <1>1, <1>2, <1>6, <3>1
      DEF Sound, Owned, Programmed, MustBeOn, NotOn, Setting, Removing
    <3>3. TrapsFollow' /\ StillThere'
      BY <1>1, <1>2, <1>6, <3>1
      DEF Sound, TrapsFollow, StillThere, OnlyOne, Staying, Setting, Removing
    <3> QED BY <3>2, <3>3 DEF Sound
  <2>2. CASE EnableTraps
    <3>1. Setting({"waves"}) /\ Setting({"insert"})' /\ trap_override' = trap_override
          /\ trap_en' = wave_enable_traps /\ call'.agent = call.agent
      BY <2>2 DEF EnableTraps, Setting, At, GoTo, Base, TypeOK
    <3>2. Owned'
      BY <1>1, <1>2, <1>6, <3>1 DEF Sound, Owned, NotOn, Setting, Removing
    <3>3. Programmed'
      <4>1. call.agent = 1
        BY <3>1 DEF Base, CallShape, Setting, Return
      <4> QED BY <1>1, <1>2, <1>6, <3>1, <4>1
          DEF Sound, Programmed, MustBeOn, Setting, Removing, Agents
    <3>4. TrapsFollow' /\ StillThere'
      BY <1>1, <1>2, <1>6, <3>1
      DEF Sound, TrapsFollow, StillThere, OnlyOne, Staying, Setting, Removing,
          wave_enable_traps
    <3> QED BY <3>2, <3>3, <3>4 DEF Sound
  <2>3. CASE InsertRefused
    <3>1. Setting({"insert"}) /\ Setting({"undo"})' /\ call'.agent = 1
          /\ UNCHANGED <<trap_override, trap_en>>
      BY <2>3 DEF InsertRefused, Setting, At, Base, TypeOK, device
    <3>2. Owned' /\ Programmed'
      BY <1>1, <1>2, <1>6, <3>1
      DEF Sound, Owned, Programmed, MustBeOn, NotOn, Setting, Removing, Agents
    <3>3. TrapsFollow' /\ StillThere'
      BY <1>1, <1>2, <1>6, <3>1
      DEF Sound, TrapsFollow, StillThere, OnlyOne, Staying, Setting, Removing
    <3> QED BY <3>2, <3>3 DEF Sound
  <2>4. CASE ClearTrapOverride
    <3>1. Removing({"override"}) /\ Removing({"waves"})' /\ trap_en' = trap_en
      BY <2>4 DEF ClearTrapOverride, Removing, At, GoTo, Base, TypeOK
    <3>2. Owned' /\ Programmed'
      BY <1>1, <1>2, <1>6, <3>1
      DEF Sound, Owned, Programmed, MustBeOn, NotOn, Setting, Removing
    <3>3. TrapsFollow' /\ StillThere'
      BY <1>1, <1>2, <1>6, <3>1
      DEF Sound, TrapsFollow, StillThere, OnlyOne, Staying, Setting, Removing
    <3> QED BY <3>2, <3>3 DEF Sound
  <2> QED BY <2>1, <2>2, <2>3, <2>4
<1> QED BY <1>3, <1>4, <1>5, <1>6 DEF Base

(* A call goes on with the next agent.                                     *)
LEMMA NextAgent ==
  ASSUME TypeOK, call.agent \in Agents, call.agent # NumAgents,
         call' = [call EXCEPT !.agent = call.agent + 1]
  PROVE  /\ call'.op = call.op /\ call'.at = call.at /\ call'.ptr = call.ptr
         /\ call'.agent = call.agent + 1 /\ call.agent + 1 \in Agents
         /\ call' \in [op : {"none", "set", "remove"},
                       at : {"none", "override", "waves", "insert", "undo", "clear"},
                       ptr : Heap \cup {None}, agent : 0..NumAgents]
<1> USE WatchpointsAssumption DEF WatchpointsAssumption
<1>1. call.agent + 1 \in Agents /\ call.agent + 1 \in 0..NumAgents
  BY DEF Agents
<1> QED BY <1>1 DEF TypeOK

(* agent_t::insert_watchpoint programs a free register and records it: the *)
(* watchpoint was in no other register of the agent.                       *)
LEMMA InsertAgentStep ==
  ASSUME Base, InsertAgent
  PROVE  Base' /\ (Sound => Sound')
<1> USE WatchpointsAssumption DEF WatchpointsAssumption
<1> DEFINE ag == call.agent
           ptr == call.ptr
<1>1. UNCHANGED <<object, freed, next_id, trap_override, trap_en, triggered, exited, failure>>
      /\ Live' = Live
  BY DEF InsertAgent, Live
<1>2. Setting({"insert"}) /\ ptr \in Live /\ ag \in Agents /\ object[ptr] \in Ids
  BY DEF InsertAgent, Base, CallShape, Return, Setting, At, TypeOK, Live
<1>3. PICK r \in Regs : /\ watch[ag][r] = None
                        /\ watch' = [watch EXCEPT ![ag][r] = object[ptr]]
                        /\ m_watchpoints' = [m_watchpoints EXCEPT ![ag][r] = ptr]
  BY DEF InsertAgent, set_address_watch
<1>4. \A a \in Agents, s \in Regs :
        /\ a = ag /\ s = r => watch'[a][s] = object[ptr] /\ m_watchpoints'[a][s] = ptr
        /\ ~(a = ag /\ s = r) => /\ watch'[a][s] = watch[a][s]
                                 /\ m_watchpoints'[a][s] = m_watchpoints[a][s]
  BY <1>2, <1>3 DEF Base, TypeOK
<1>5. \/ ag = NumAgents /\ call' = Return
      \/ ag # NumAgents /\ call' = [call EXCEPT !.agent = ag + 1]
  BY DEF InsertAgent, NextInsert
<1>6. \/ ag = NumAgents /\ call' = Return
      \/ /\ ag + 1 \in Agents /\ Setting({"insert"})'
         /\ call'.ptr = ptr /\ call'.agent = ag + 1
  BY <1>2, <1>5 DEF Base, TypeOK, Agents, Setting
<1>7. TypeOK'
  <2>1. watch' \in [Agents -> [Regs -> Ids \cup {None, Other}]]
        /\ m_watchpoints' \in [Agents -> [Regs -> Heap \cup {None}]]
    BY <1>2, <1>3 DEF Base, TypeOK, Live
  <2>2. call' \in [op : {"none", "set", "remove"},
                   at : {"none", "override", "waves", "insert", "undo", "clear"},
                   ptr : Heap \cup {None}, agent : 0..NumAgents]
    <3>1. CASE call' = Return
      BY <3>1 DEF Return, Base, TypeOK
    <3>2. CASE ag # NumAgents /\ call' = [call EXCEPT !.agent = ag + 1]
      BY <1>2, <3>2, NextAgent DEF Base
    <3> QED BY <1>5, <3>1, <3>2
  <2> QED BY <1>1, <2>1, <2>2 DEF Base, TypeOK
<1>8. CallShape'
  BY <1>1, <1>2, <1>6 DEF CallShape, Setting, Removing
<1>9. IdsUnique' /\ TriggeredOnce' /\ Supported'
  BY <1>1 DEF Base, IdsUnique, TriggeredOnce, Supported
<1>10. ASSUME Sound PROVE Sound'
  <2>1. \A s \in Regs : watch[ag][s] # object[ptr]
    BY <1>2, <1>10 DEF Sound, Owned, NotOn, Setting, Base, IdsUnique, Agents
  <2>2. \A a \in Agents : ~NotOn(a)' \/ (a > ag /\ NotOn(a) /\ call'.ptr = ptr)
    BY <1>2, <1>6 DEF NotOn, Setting, Removing, Return, Agents
  <2>3. Owned'
    <3> SUFFICES ASSUME NEW a \in Agents, NEW s \in Regs, watch'[a][s] \in Ids
                 PROVE  /\ m_watchpoints'[a][s] \in Live
                        /\ object[m_watchpoints'[a][s]] = watch'[a][s]
                        /\ \A q \in Regs : watch'[a][q] = watch'[a][s] => q = s
                        /\ ~(m_watchpoints'[a][s] = call'.ptr /\ NotOn(a)')
      BY <1>1 DEF Owned
    <3>1. CASE a = ag /\ s = r
      BY <1>2, <1>3, <1>4, <2>1, <2>2, <3>1 DEF Agents
    <3>2. CASE ~(a = ag /\ s = r)
      <4>1. /\ watch[a][s] = watch'[a][s] /\ m_watchpoints'[a][s] = m_watchpoints[a][s]
        BY <1>4, <3>2
      <4>2. \A q \in Regs : watch'[a][q] = watch'[a][s] => q = s
        BY <1>4, <1>10, <2>1, <4>1 DEF Sound, Owned
      <4> QED BY <1>10, <2>2, <4>1, <4>2 DEF Sound, Owned
    <3> QED BY <3>1, <3>2
  <2>4. Programmed'
    <3> SUFFICES ASSUME NEW p \in Live, NEW a \in Agents, MustBeOn(p, a)'
                 PROVE  \E s \in Regs : watch'[a][s] = object[p]
      BY <1>1 DEF Programmed
    <3>1. CASE p = ptr /\ a = ag
      BY <1>4, <3>1
    <3>2. CASE ~(p = ptr /\ a = ag)
      <4>1. MustBeOn(p, a)
        BY <1>2, <1>6, <3>2 DEF MustBeOn, Setting, Removing, Return, Agents
      <4>2. PICK s \in Regs : watch[a][s] = object[p]
        BY <1>10, <4>1 DEF Sound, Programmed
      <4>3. object[p] # None
        BY DEF Live
      <4> QED BY <1>3, <1>4, <4>2, <4>3
    <3> QED BY <3>1, <3>2
  <2>5. TrapsFollow'
    BY <1>1, <1>2, <1>6, <1>10
    DEF Sound, TrapsFollow, OnlyOne, Setting, Removing, Return
  <2>6. StillThere'
    <3> SUFFICES ASSUME NEW w \in Waves, NEW t \in triggered[w], NEW p \in Live,
                        object[p] = t.id
                 PROVE  watch'[t.agent][t.reg] = t.id
      BY <1>1 DEF StillThere
    <3>1. t.agent \in Agents /\ t.reg \in Regs /\ t.id # None
      BY DEF Base, TypeOK, Ids, None
    <3>2. watch[t.agent][t.reg] = t.id
      BY <1>2, <1>10 DEF Sound, StillThere, Staying, Setting
    <3> QED BY <1>3, <1>4, <3>1, <3>2
  <2> QED BY <2>3, <2>4, <2>5, <2>6 DEF Sound
<1> QED BY <1>7, <1>8, <1>9, <1>10 DEF Base

(* After the process has exited an entry may be written for nothing.       *)
LEMMA InsertExitedStep ==
  ASSUME Base, InsertExited
  PROVE  Base'
<1> USE WatchpointsAssumption DEF WatchpointsAssumption
<1>1. UNCHANGED <<object, freed, next_id, watch, trap_override, trap_en, triggered, exited>>
      /\ Live' = Live
  BY DEF InsertExited, Live, device
<1>2. /\ Setting({"insert"}) /\ call.ptr \in Live /\ call.agent \in Agents
      /\ call.ptr \in Heap
  BY DEF InsertExited, Base, CallShape, Return, Setting, At, Live
<1>3. \/ call.agent = NumAgents /\ call' = Return
      \/ call.agent # NumAgents /\ call' = [call EXCEPT !.agent = call.agent + 1]
  BY DEF InsertExited, NextInsert
<1>4. TypeOK'
  <2>0. failure' \in BOOLEAN
    BY DEF InsertExited, Base, TypeOK
  <2>1. m_watchpoints' \in [Agents -> [Regs -> Heap \cup {None}]]
    <3>1. CASE UNCHANGED m_watchpoints
      BY <3>1 DEF InsertExited, Base, TypeOK
    <3>2. CASE \E r \in Regs : m_watchpoints' = [m_watchpoints EXCEPT ![call.agent][r] = call.ptr]
      BY <1>2, <3>2 DEF Base, TypeOK
    <3> QED BY <3>1, <3>2 DEF InsertExited
  <2>2. call' \in [op : {"none", "set", "remove"},
                   at : {"none", "override", "waves", "insert", "undo", "clear"},
                   ptr : Heap \cup {None}, agent : 0..NumAgents]
    <3>1. CASE call' = Return
      BY <3>1 DEF Return, Base, TypeOK
    <3>2. CASE call.agent # NumAgents /\ call' = [call EXCEPT !.agent = call.agent + 1]
      BY <1>2, <3>2, NextAgent DEF Base
    <3> QED BY <1>3, <3>1, <3>2
  <2> QED BY <1>1, <2>0, <2>1, <2>2 DEF Base, TypeOK
<1>5. CallShape'
  BY <1>1, <1>2, <1>3, NextAgent DEF CallShape, Setting, Removing, Base
<1>6. IdsUnique' /\ TriggeredOnce' /\ Supported'
  BY <1>1 DEF Base, IdsUnique, TriggeredOnce, Supported
<1> QED BY <1>4, <1>5, <1>6 DEF Base

(* The first of some registers is one of them.                             *)
LEMMA FirstRegister ==
  ASSUME NEW S, S \subseteq Regs, S # {}
  PROVE  Min(S) \in S
<1>1. S \subseteq Nat
  BY WatchpointsAssumption DEF WatchpointsAssumption, Regs
<1>2. PICK x \in S : \A y \in S : ~(<<y, x>> \in OpToRel(<, Nat))
  BY <1>1, NatLessThanWellFounded, WFMin
<1>3. \A y \in S : ~(y < x)
  BY <1>1, <1>2 DEF OpToRel
<1>4. \A y \in S : x =< y
  BY <1>1, <1>3
<1> QED BY <1>4 DEF Min

(* agent_t::remove_watchpoint takes the watchpoint out of the agent, and   *)
(* touches no other register, unless the driver refuses.                   *)
LEMMA RemoveFromStep ==
  ASSUME Base, Sound, ~exited, ~failure', call.ptr \in Live, call.agent \in Agents,
         RemoveFrom(call.agent, call.ptr)
  PROVE  /\ \A a \in Agents, r \in Regs :
              \/ watch'[a][r] = watch[a][r]
              \/ a = call.agent /\ watch[a][r] = object[call.ptr] /\ watch'[a][r] = None
         /\ \A r \in Regs : watch'[call.agent][r] # object[call.ptr]
<1> USE WatchpointsAssumption DEF WatchpointsAssumption
<1> DEFINE entries == {r \in Regs : m_watchpoints[call.agent][r] = call.ptr}
<1>1. object[call.ptr] \in Ids /\ object[call.ptr] # None
  BY DEF Base, TypeOK, Live
<1>2. \A r \in Regs : watch[call.agent][r] = object[call.ptr] => r \in entries
  BY <1>1 DEF Sound, Owned, Base, IdsUnique
<1>3. CASE entries = {}
  <2>1. watch' = watch
    BY <1>3 DEF RemoveFrom
  <2> QED BY <1>2, <1>3, <2>1
<1>4. CASE entries # {}
  <2> DEFINE reg == Min(entries)
  <2>1. reg \in entries
    BY <1>4, FirstRegister
  <2>2. clear_address_watch(call.agent, reg)
    BY <1>4 DEF RemoveFrom
  <2> HIDE DEF reg
  <2>3. watch[call.agent][reg] \in Ids /\ watch' = [watch EXCEPT ![call.agent][reg] = None]
    BY <2>2 DEF clear_address_watch
  <2>4. watch[call.agent][reg] = object[call.ptr]
    BY <2>1, <2>3 DEF Sound, Owned
  <2>5. \A r \in Regs : watch[call.agent][r] = object[call.ptr] => r = reg
    BY <2>1, <2>3, <2>4 DEF Sound, Owned
  <2>6. \A a \in Agents, r \in Regs :
           watch'[a][r] = IF a = call.agent /\ r = reg THEN None ELSE watch[a][r]
    BY <2>1, <2>3 DEF Base, TypeOK
  <2> QED BY <1>1, <2>4, <2>5, <2>6
<1> QED BY <1>3, <1>4

(* What agent_t::remove_watchpoint may do to the driver's registers at all. *)
LEMMA RemoveFromType ==
  ASSUME Base, call.agent \in Agents, RemoveFrom(call.agent, call.ptr)
  PROVE  /\ watch' \in [Agents -> [Regs -> Ids \cup {None, Other}]]
         /\ failure' \in BOOLEAN
<1> USE WatchpointsAssumption DEF WatchpointsAssumption
<1> DEFINE entries == {r \in Regs : m_watchpoints[call.agent][r] = call.ptr}
           reg == Min(entries)
<1>1. CASE UNCHANGED <<watch, failure>>
  BY <1>1 DEF Base, TypeOK
<1>2. CASE entries # {} /\ clear_address_watch(call.agent, reg)
  <2>1. reg \in Regs
    BY <1>2, FirstRegister
  <2> HIDE DEF reg
  <2>2. CASE watch' = watch
    BY <1>2, <2>2 DEF clear_address_watch, Base, TypeOK
  <2>3. CASE watch' = [watch EXCEPT ![call.agent][reg] = None] /\ UNCHANGED failure
    BY <1>2, <2>1, <2>3 DEF Base, TypeOK
  <2> QED BY <1>2, <2>2, <2>3 DEF clear_address_watch
<1> QED BY <1>1, <1>2 DEF RemoveFrom

(* Destroying a watchpoint leaves every other one as it is.                *)
LEMMA DestroyStep ==
  ASSUME Base, NEW p \in Live, Destroy(p), UNCHANGED <<next_id, triggered>>
  PROVE  /\ Live' = Live \ {p} /\ \A q \in Live' : object'[q] = object[q]
         /\ object' \in [Heap -> Ids \cup {None}] /\ freed' \subseteq Heap
         /\ IdsUnique' /\ TriggeredOnce' /\ Supported'
<1>1. Live' = Live \ {p} /\ (\A q \in Live' : object'[q] = object[q])
  BY DEF Destroy, Live, Base, TypeOK
<1>2. object' \in [Heap -> Ids \cup {None}] /\ freed' \subseteq Heap
  BY DEF Destroy, Live, Base, TypeOK
<1>3. IdsUnique' /\ TriggeredOnce' /\ Supported'
  BY <1>1 DEF IdsUnique, TriggeredOnce, Supported, Base
<1> QED BY <1>1, <1>2, <1>3

(* A refused insertion and a removal take the watchpoint from one agent    *)
(* after the other; with the last agent it is destroyed, or, when it is    *)
(* the only one, the traps are still to be disabled.                       *)
LEMMA TakeAwayStep ==
  ASSUME Base, UndoAgent \/ ClearAgent
  PROVE  Base' /\ (Sound /\ ~exited /\ ~failure' => Sound')
<1> USE WatchpointsAssumption DEF WatchpointsAssumption
<1> DEFINE ag == call.agent
           ptr == call.ptr
           Goes == ag # NumAgents /\ call' = [call EXCEPT !.agent = ag + 1]
                   /\ UNCHANGED <<object, freed>>
           Ends == ag = NumAgents /\ call' = Return /\ Destroy(ptr)
           Last == /\ ag = NumAgents /\ Removing({"clear"}) /\ Only
                   /\ call' = [call EXCEPT !.at = "override"]
                   /\ UNCHANGED <<object, freed>>
           Fails == failure' /\ UNCHANGED <<call, object, freed>>
<1>1. UNCHANGED <<next_id, m_watchpoints, trap_override, trap_en, triggered, exited>>
      /\ RemoveFrom(ag, ptr) /\ (Setting({"undo"}) \/ Removing({"clear"}))
  BY DEF UndoAgent, ClearAgent, At, Setting, Removing
<1>2. ptr \in Live /\ ag \in Agents /\ ptr \in Heap
  BY <1>1 DEF Base, CallShape, Return, Setting, Removing, Live
<1>3. Goes \/ Ends \/ Last \/ Fails
  BY DEF UndoAgent, ClearAgent, Removing, At
<1>4. watch' \in [Agents -> [Regs -> Ids \cup {None, Other}]] /\ failure' \in BOOLEAN
  BY <1>1, <1>2, RemoveFromType
<1>5. CASE Goes
  <2>1. /\ call'.op = call.op /\ call'.at = call.at /\ call'.ptr = ptr
        /\ call'.agent = ag + 1 /\ ag + 1 \in Agents
    BY <1>2, <1>5, NextAgent DEF Base
  <2>2. Live' = Live
    BY <1>5 DEF Live
  <2>3. TypeOK'
    BY <1>1, <1>2, <1>4, <1>5, NextAgent DEF Base, TypeOK
  <2>4. CallShape'
    BY <1>1, <1>2, <2>1, <2>2 DEF CallShape, Setting, Removing
  <2>5. IdsUnique' /\ TriggeredOnce' /\ Supported'
    BY <1>1, <1>5, <2>2 DEF Base, IdsUnique, TriggeredOnce, Supported
  <2>6. ASSUME Sound, ~exited, ~failure' PROVE Sound'
    <3>1. /\ \A a \in Agents, r \in Regs :
               \/ watch'[a][r] = watch[a][r]
               \/ a = ag /\ watch[a][r] = object[ptr] /\ watch'[a][r] = None
          /\ \A r \in Regs : watch'[ag][r] # object[ptr]
      BY <1>1, <1>2, <2>6, RemoveFromStep
    <3>2. None \notin Ids
      BY DEF None, Ids
    <3>3. Owned'
      <4> SUFFICES ASSUME NEW a \in Agents, NEW r \in Regs, watch'[a][r] \in Ids
                   PROVE  /\ m_watchpoints[a][r] \in Live
                          /\ object[m_watchpoints[a][r]] = watch'[a][r]
                          /\ \A s \in Regs : watch'[a][s] = watch'[a][r] => s = r
                          /\ ~(m_watchpoints[a][r] = ptr /\ NotOn(a)')
        BY <1>1, <1>5, <2>1, <2>2 DEF Owned
      <4>1. watch'[a][r] = watch[a][r]
        BY <3>1, <3>2
      <4>2. \A s \in Regs : watch'[a][s] = watch'[a][r] => s = r
        BY <2>6, <3>1, <3>2, <4>1 DEF Sound, Owned
      <4>3. ASSUME m_watchpoints[a][r] = ptr, NotOn(a)' PROVE FALSE
        <5>1. a # ag
          BY <2>6, <3>1, <4>1, <4>3 DEF Sound, Owned
        <5>2. NotOn(a)
          BY <1>1, <1>2, <2>1, <4>3, <5>1 DEF NotOn, Setting, Removing, Agents
        <5> QED BY <2>6, <4>1, <4>3, <5>2 DEF Sound, Owned
      <4> QED BY <2>6, <4>1, <4>2, <4>3 DEF Sound, Owned
    <3>4. Programmed'
      <4> SUFFICES ASSUME NEW p \in Live, NEW a \in Agents, MustBeOn(p, a)'
                   PROVE  \E r \in Regs : watch'[a][r] = object[p]
        BY <1>5, <2>2 DEF Programmed
      <4>1. MustBeOn(p, a) /\ ~(p = ptr /\ a = ag)
        BY <1>1, <1>2, <2>1 DEF MustBeOn, Setting, Removing, Agents
      <4>2. PICK r \in Regs : watch[a][r] = object[p]
        BY <2>6, <4>1 DEF Sound, Programmed
      <4>3. watch'[a][r] = watch[a][r]
        BY <1>2, <3>1, <4>1, <4>2 DEF Base, IdsUnique
      <4> QED BY <4>2, <4>3
    <3>5. TrapsFollow'
      BY <1>1, <1>2, <2>1, <2>2, <2>6 DEF Sound, TrapsFollow, OnlyOne, Setting, Removing
    <3>6. StillThere'
      <4> SUFFICES ASSUME NEW w \in Waves, NEW t \in triggered[w], NEW p \in Live,
                          object[p] = t.id, p # ptr
                   PROVE  watch'[t.agent][t.reg] = t.id
        BY <1>1, <1>5, <2>1, <2>2 DEF StillThere, Staying, Setting, Removing
      <4>1. t.agent \in Agents /\ t.reg \in Regs
        BY DEF Base, TypeOK
      <4>2. watch[t.agent][t.reg] = t.id
        BY <2>6 DEF Sound, StillThere, Staying
      <4> QED BY <1>2, <3>1, <4>1, <4>2 DEF Base, IdsUnique
    <3> QED BY <3>3, <3>4, <3>5, <3>6 DEF Sound
  <2> QED BY <2>3, <2>4, <2>5, <2>6 DEF Base
<1>6. CASE Ends
  <2>1. /\ Live' = Live \ {ptr} /\ \A q \in Live' : object'[q] = object[q]
        /\ object' \in [Heap -> Ids \cup {None}] /\ freed' \subseteq Heap
        /\ IdsUnique' /\ TriggeredOnce' /\ Supported'
    BY <1>1, <1>2, <1>6, DestroyStep
  <2>2. TypeOK'
    BY <1>1, <1>4, <1>6, <2>1 DEF Base, TypeOK, Return
  <2>3. CallShape'
    BY <1>6 DEF CallShape
  <2>4. ASSUME Sound, ~exited, ~failure' PROVE Sound'
    <3>1. /\ \A a \in Agents, r \in Regs :
               \/ watch'[a][r] = watch[a][r]
               \/ a = ag /\ watch[a][r] = object[ptr] /\ watch'[a][r] = None
          /\ \A r \in Regs : watch'[ag][r] # object[ptr]
      BY <1>1, <1>2, <2>4, RemoveFromStep
    <3>2. None \notin Ids /\ None \notin Live
      BY DEF None, Ids, Live
    <3>3. Owned'
      <4> SUFFICES ASSUME NEW a \in Agents, NEW r \in Regs, watch'[a][r] \in Ids
                   PROVE  /\ m_watchpoints[a][r] \in Live \ {ptr}
                          /\ object[m_watchpoints[a][r]] = watch'[a][r]
                          /\ \A s \in Regs : watch'[a][s] = watch'[a][r] => s = r
        BY <1>1, <1>6, <2>1, <3>2 DEF Owned, Return
      <4>1. watch'[a][r] = watch[a][r]
        BY <3>1, <3>2
      <4>2. \A s \in Regs : watch'[a][s] = watch'[a][r] => s = r
        BY <2>4, <3>1, <3>2, <4>1 DEF Sound, Owned
      <4>3. m_watchpoints[a][r] # ptr
        <5>1. CASE a = ag
          BY <2>4, <3>1, <4>1, <5>1 DEF Sound, Owned
        <5>2. CASE a # ag
          <6>1. NotOn(a)
            BY <1>1, <1>2, <1>6, <5>2 DEF NotOn, Setting, Removing, Agents
          <6> QED BY <2>4, <4>1, <6>1 DEF Sound, Owned
        <5> QED BY <5>1, <5>2
      <4> QED BY <2>4, <4>1, <4>2, <4>3 DEF Sound, Owned
    <3>4. Programmed'
      <4> SUFFICES ASSUME NEW p \in Live \ {ptr}, NEW a \in Agents
                   PROVE  \E r \in Regs : watch'[a][r] = object[p]
        BY <2>1 DEF Programmed
      <4>1. PICK r \in Regs : watch[a][r] = object[p]
        BY <2>4 DEF Sound, Programmed, MustBeOn
      <4>2. watch'[a][r] = watch[a][r]
        BY <1>2, <3>1, <4>1 DEF Base, IdsUnique
      <4> QED BY <4>1, <4>2
    <3>5. TrapsFollow'
      BY <1>1, <1>2, <1>6, <2>1, <2>4
      DEF Sound, TrapsFollow, OnlyOne, Setting, Removing, Return
    <3>6. StillThere'
      <4> SUFFICES ASSUME NEW w \in Waves, NEW t \in triggered[w], NEW p \in Live \ {ptr},
                          object[p] = t.id
                   PROVE  watch'[t.agent][t.reg] = t.id
        BY <1>1, <2>1 DEF StillThere
      <4>1. t.agent \in Agents /\ t.reg \in Regs
        BY DEF Base, TypeOK
      <4>2. watch[t.agent][t.reg] = t.id
        BY <2>4 DEF Sound, StillThere, Staying
      <4> QED BY <1>2, <3>1, <4>1, <4>2 DEF Base, IdsUnique
    <3> QED BY <3>3, <3>4, <3>5, <3>6 DEF Sound
  <2> QED BY <2>1, <2>2, <2>3, <2>4 DEF Base
<1>7. CASE Last
  <2>1. /\ call'.op = "remove" /\ call'.at = "override" /\ call'.ptr = ptr
        /\ call'.agent = ag
        /\ call' \in [op : {"none", "set", "remove"},
                      at : {"none", "override", "waves", "insert", "undo", "clear"},
                      ptr : Heap \cup {None}, agent : 0..NumAgents]
    BY <1>7 DEF Base, TypeOK, Removing
  <2>2. Live' = Live /\ Live = {ptr}
    <3>1. Live' = Live
      BY <1>7 DEF Live
    <3>2. IsFiniteSet(Live)
      BY FS_Subset DEF Live
    <3> QED BY <1>2, <1>7, <3>1, <3>2, FS_Singleton DEF Only
  <2>3. TypeOK'
    BY <1>1, <1>4, <1>7, <2>1 DEF Base, TypeOK
  <2>4. CallShape'
    BY <1>2, <2>1, <2>2 DEF CallShape, Setting, Removing
  <2>5. IdsUnique' /\ TriggeredOnce' /\ Supported'
    BY <1>1, <1>7, <2>2 DEF Base, IdsUnique, TriggeredOnce, Supported
  <2>6. ASSUME Sound, ~exited, ~failure' PROVE Sound'
    <3>1. /\ \A a \in Agents, r \in Regs :
               \/ watch'[a][r] = watch[a][r]
               \/ a = ag /\ watch[a][r] = object[ptr] /\ watch'[a][r] = None
          /\ \A r \in Regs : watch'[ag][r] # object[ptr]
      BY <1>1, <1>2, <2>6, RemoveFromStep
    <3>2. None \notin Ids
      BY DEF None, Ids
    <3>3. Owned'
      <4> SUFFICES ASSUME NEW a \in Agents, NEW r \in Regs, watch'[a][r] \in Ids
                   PROVE  FALSE
        BY DEF Owned
      <4>1. watch'[a][r] = watch[a][r]
        BY <3>1, <3>2
      <4>2. m_watchpoints[a][r] = ptr /\ watch[a][r] = object[ptr]
        BY <2>2, <2>6, <4>1 DEF Sound, Owned
      <4>3. a < ag
        BY <1>2, <1>7, <3>1, <4>1, <4>2 DEF Agents
      <4> QED BY <1>7, <2>6, <4>1, <4>2, <4>3 DEF Sound, Owned, NotOn, Removing
    <3>4. Programmed'
      BY <2>1, <2>2 DEF Programmed, MustBeOn, Setting, Removing
    <3>5. TrapsFollow'
      BY <2>1, <2>2 DEF TrapsFollow, OnlyOne, Setting, Removing
    <3>6. StillThere'
      BY <2>1, <2>2 DEF StillThere, Staying, Setting
    <3> QED BY <3>3, <3>4, <3>5, <3>6 DEF Sound
  <2> QED BY <2>3, <2>4, <2>5, <2>6 DEF Base
<1>8. CASE Fails
  <2>1. Live' = Live
    BY <1>8 DEF Live
  <2>2. TypeOK'
    BY <1>1, <1>4, <1>8 DEF Base, TypeOK
  <2>3. CallShape' /\ IdsUnique' /\ TriggeredOnce' /\ Supported'
    BY <1>1, <1>8, <2>1
    DEF Base, CallShape, Setting, Removing, Return, IdsUnique, TriggeredOnce, Supported
  <2> QED BY <1>8, <2>2, <2>3 DEF Base
<1> QED BY <1>3, <1>5, <1>6, <1>7, <1>8

(* The last watchpoint goes after the traps of the waves, and no register  *)
(* is programmed by then.                                                  *)
LEMMA DisableTrapsStep ==
  ASSUME Base, DisableTraps
  PROVE  Base' /\ (Sound => Sound')
<1> USE WatchpointsAssumption DEF WatchpointsAssumption
<1>1. /\ Removing({"waves"}) /\ Destroy(call.ptr) /\ call' = Return
      /\ trap_en' = wave_disable_traps
      /\ UNCHANGED <<next_id, m_watchpoints, watch, trap_override, triggered, exited, failure>>
  BY DEF DisableTraps, Removing, At
<1>2. call.ptr \in Live
  BY <1>1 DEF Base, CallShape, Return, Removing
<1>3. /\ Live' = Live \ {call.ptr}
      /\ object' \in [Heap -> Ids \cup {None}] /\ freed' \subseteq Heap
      /\ IdsUnique' /\ TriggeredOnce' /\ Supported'
  BY <1>1, <1>2, DestroyStep
<1>4. TypeOK'
  <2>1. trap_en' \in [Waves -> {"none", "off", "on"}]
    BY <1>1 DEF wave_disable_traps
  <2> QED BY <1>1, <1>3, <2>1 DEF Base, TypeOK, Return
<1>5. CallShape'
  BY <1>1 DEF CallShape
<1>6. ASSUME Sound PROVE Sound'
  <2>1. Live = {call.ptr} /\ Live' = {}
    BY <1>1, <1>3, <1>6 DEF Sound, TrapsFollow, OnlyOne, Removing
  <2>2. \A a \in Agents, r \in Regs : watch[a][r] \notin Ids
    BY <1>1, <1>6, <2>1 DEF Sound, Owned, NotOn, Removing
  <2>3. Owned' /\ Programmed' /\ StillThere'
    BY <1>1, <2>1, <2>2 DEF Owned, Programmed, StillThere
  <2>4. TrapsFollow'
    BY <1>1, <2>1 DEF TrapsFollow, OnlyOne, Setting, Removing, Return
  <2> QED BY <2>3, <2>4 DEF Sound
<1> QED BY <1>3, <1>4, <1>5, <1>6 DEF Base

-----------------------------------------------------------------------------
(* The steps of the device and of the world.                               *)

(* A wave starts with the trap that new waves get; one that ends, or that  *)
(* the client resumes, leaves nothing behind.                              *)
LEMMA WaveStep ==
  ASSUME Base, NEW w \in Waves, WaveLaunch(w) \/ WaveEnd(w) \/ ResumeWave(w)
  PROVE  Base' /\ (Sound => Sound')
<1>1. /\ UNCHANGED <<object, freed, next_id, m_watchpoints, watch, trap_override, call,
                     exited, failure>>
      /\ Live' = Live
  BY DEF WaveLaunch, WaveEnd, ResumeWave, library, Live
<1>2. /\ trap_en' \in [Waves -> {"none", "off", "on"}]
      /\ \A v \in Waves : trap_en'[v] = "off" => trap_en[v] = "off" \/ ~trap_override
  BY DEF WaveLaunch, WaveEnd, ResumeWave, Base, TypeOK
<1>3. /\ triggered' \in [Waves -> SUBSET [agent : Agents, reg : Regs, id : Ids]]
      /\ \A v \in Waves : triggered'[v] = triggered[v] \/ triggered'[v] = {}
  BY DEF WaveLaunch, WaveEnd, ResumeWave, Base, TypeOK
<1>4. TypeOK'
  BY <1>1, <1>2, <1>3 DEF Base, TypeOK
<1>5. CallShape' /\ Supported' /\ IdsUnique'
  BY <1>1 DEF Base, CallShape, Supported, IdsUnique, Setting, Removing, Return
<1>6. TriggeredOnce'
  BY <1>1, <1>3 DEF Base, TriggeredOnce
<1>7. ASSUME Sound PROVE Sound'
  <2>1. Owned' /\ Programmed'
    BY <1>1, <1>7 DEF Sound, Owned, Programmed, NotOn, MustBeOn, Setting, Removing
  <2>2. TrapsFollow'
    BY <1>1, <1>2, <1>7 DEF Sound, TrapsFollow, OnlyOne, Setting, Removing
  <2>3. StillThere'
    BY <1>1, <1>3, <1>7 DEF Sound, StillThere, Staying, Setting
  <2> QED BY <2>1, <2>2, <2>3 DEF Sound
<1> QED BY <1>4, <1>5, <1>6, <1>7 DEF Base

(* A wave is stopped by a register that holds a watchpoint.                *)
LEMMA TriggerStep ==
  ASSUME Base, Sound, NEW w \in Waves, NEW a \in Agents, NEW r \in Regs, Trigger(w, a, r)
  PROVE  Base' /\ Sound'
<1> USE WatchpointsAssumption DEF WatchpointsAssumption
<1> DEFINE new == [agent |-> a, reg |-> r, id |-> watch[a][r]]
<1>1. /\ UNCHANGED <<object, freed, next_id, m_watchpoints, watch, trap_override, trap_en,
                     call, exited, failure>>
      /\ Live' = Live /\ watch[a][r] \in Ids
  BY DEF Trigger, library, Live
<1>2. new \in [agent : Agents, reg : Regs, id : Ids]
  BY <1>1
<1>3. /\ triggered' \in [Waves -> SUBSET [agent : Agents, reg : Regs, id : Ids]]
      /\ \A v \in Waves : triggered'[v] = IF v = w THEN {new} ELSE triggered[v]
  BY <1>2 DEF Trigger, Base, TypeOK
<1>4. TypeOK'
  BY <1>1, <1>3 DEF Base, TypeOK
<1>5. CallShape' /\ Supported' /\ IdsUnique'
  BY <1>1 DEF Base, CallShape, Supported, IdsUnique, Setting, Removing, Return
<1>6. new.id < next_id
  BY <1>1 DEF Sound, Owned, Base, IdsUnique
<1>7. TriggeredOnce'
  BY <1>1, <1>3, <1>6 DEF Base, TriggeredOnce
<1>8. Owned' /\ Programmed' /\ TrapsFollow'
  BY <1>1 DEF Sound, Owned, Programmed, TrapsFollow, NotOn, MustBeOn, OnlyOne, Setting, Removing
<1>9. StillThere'
  BY <1>1, <1>3 DEF Sound, StillThere, Staying, Setting
<1> QED BY <1>4, <1>5, <1>7, <1>8, <1>9 DEF Base, Sound

(* Another process takes and releases only registers nobody here owns.     *)
LEMMA OtherProcessStep ==
  ASSUME Base, NEW a \in Agents, NEW r \in Regs, OtherProcess(a, r)
  PROVE  Base' /\ (Sound => Sound')
<1> USE WatchpointsAssumption DEF WatchpointsAssumption
<1>1. /\ UNCHANGED <<object, freed, next_id, m_watchpoints, trap_override, trap_en,
                     triggered, call, exited, failure>>
      /\ Live' = Live
  BY DEF OtherProcess, library, Live
<1>2. watch' \in [Agents -> [Regs -> Ids \cup {None, Other}]]
  BY DEF OtherProcess, Base, TypeOK
<1>3. \A b \in Agents, s \in Regs :
         watch'[b][s] = watch[b][s] \/ (watch[b][s] \notin Ids /\ watch'[b][s] \notin Ids)
  BY DEF OtherProcess, Base, TypeOK, None, Other, Ids
<1>4. TypeOK'
  BY <1>1, <1>2 DEF Base, TypeOK
<1>5. CallShape' /\ Supported' /\ IdsUnique' /\ TriggeredOnce'
  BY <1>1 DEF Base, CallShape, Supported, IdsUnique, Setting, Removing, Return, TriggeredOnce
<1>6. ASSUME Sound PROVE Sound'
  <2>1. Owned'
    <3> SUFFICES ASSUME NEW b \in Agents, NEW s \in Regs, watch'[b][s] \in Ids
                 PROVE  /\ m_watchpoints[b][s] \in Live
                        /\ object[m_watchpoints[b][s]] = watch'[b][s]
                        /\ \A q \in Regs : watch'[b][q] = watch'[b][s] => q = s
                        /\ ~(m_watchpoints[b][s] = call.ptr /\ NotOn(b))
      BY <1>1 DEF Owned, NotOn, Setting, Removing
    <3>1. watch'[b][s] = watch[b][s]
      BY <1>3
    <3> QED BY <1>3, <1>6, <3>1 DEF Sound, Owned
  <2>2. \A p \in Live : object[p] \in Ids
    BY DEF Live, Base, TypeOK
  <2>3. Programmed'
    BY <1>1, <1>3, <1>6, <2>2 DEF Sound, Programmed, MustBeOn, Setting, Removing
  <2>4. TrapsFollow'
    BY <1>1, <1>6 DEF Sound, TrapsFollow, OnlyOne, Setting, Removing
  <2>5. StillThere'
    <3>1. \A w \in Waves : \A t \in triggered[w] :
             t.agent \in Agents /\ t.reg \in Regs /\ t.id \in Ids
      BY DEF Base, TypeOK
    <3> QED BY <1>1, <1>3, <1>6, <3>1 DEF Sound, StillThere, Staying, Setting
  <2> QED BY <2>1, <2>3, <2>4, <2>5 DEF Sound
<1> QED BY <1>4, <1>5, <1>6 DEF Base

(* The process may exit at any time.                                       *)
LEMMA ExitStep ==
  ASSUME Base, Exit
  PROVE  Base'
<1>1. UNCHANGED <<object, freed, next_id, m_watchpoints, watch, trap_override, trap_en,
                  triggered, call, failure>> /\ exited' \in BOOLEAN /\ Live' = Live
  BY DEF Exit, library, device, Live
<1> QED BY <1>1 DEF Base, TypeOK, CallShape, Supported, IdsUnique, Setting, Removing, Return,
             TriggeredOnce

-----------------------------------------------------------------------------
(* Safety, with no assumption on the allocator.                            *)

(* Every step keeps the invariant, up to the driver's refusal to clear.    *)
LEMMA NextSound ==
  ASSUME Base, ~exited => Sound, Next
  PROVE  Base' /\ (~exited' /\ ~failure' => Sound')
<1>1. CASE \E p \in Heap : SetWatchpoint(p) \/ RemoveWatchpoint(p)
  <2>1. UNCHANGED exited
    BY <1>1 DEF SetWatchpoint, RemoveWatchpoint
  <2> QED BY <1>1, <2>1, SetWatchpointStep, RemoveWatchpointStep
<1>2. CASE SetTrapOverride \/ EnableTraps \/ InsertRefused \/ ClearTrapOverride
  <2>1. UNCHANGED exited
    BY <1>2 DEF SetTrapOverride, EnableTraps, InsertRefused, ClearTrapOverride
  <2> QED BY <1>2, <2>1, TrapSteps
<1>3. CASE InsertAgent
  BY <1>3, InsertAgentStep DEF InsertAgent
<1>4. CASE InsertExited
  BY <1>4, InsertExitedStep DEF InsertExited
<1>5. CASE UndoAgent \/ ClearAgent
  <2>1. UNCHANGED exited
    BY <1>5 DEF UndoAgent, ClearAgent
  <2> QED BY <1>5, <2>1, TakeAwayStep
<1>6. CASE DisableTraps
  BY <1>6, DisableTrapsStep DEF DisableTraps
<1>7. CASE \E w \in Waves : WaveLaunch(w) \/ WaveEnd(w) \/ ResumeWave(w)
  <2>1. UNCHANGED exited
    BY <1>7 DEF WaveLaunch, WaveEnd, ResumeWave
  <2> QED BY <1>7, <2>1, WaveStep
<1>8. CASE \E w \in Waves, a \in Agents, r \in Regs : Trigger(w, a, r)
  <2>1. ~exited
    BY <1>8 DEF Trigger
  <2> QED BY <1>8, <2>1, TriggerStep
<1>9. CASE \E a \in Agents, r \in Regs : OtherProcess(a, r)
  <2>1. UNCHANGED exited
    BY <1>9 DEF OtherProcess
  <2> QED BY <1>9, <2>1, OtherProcessStep
<1>10. CASE Exit
  BY <1>10, ExitStep DEF Exit
<1> QED
  BY <1>1, <1>2, <1>3, <1>4, <1>5, <1>6, <1>7, <1>8, <1>9, <1>10 DEF Next

(* A call that fails while the process lives has changed no register, no   *)
(* entry and no trap.                                                      *)
LEMMA FailingStep ==
  ASSUME Base, Next, ~exited', failure'
  PROVE  /\ UNCHANGED <<m_watchpoints, watch, trap_override, trap_en, triggered>>
         /\ ~exited /\ (UndoAgent \/ ClearAgent) /\ UNCHANGED <<object, freed, call>>
<1>1. ~failure
  BY DEF Next
<1>2. UndoAgent \/ ClearAgent
  <2>1. ~InsertExited
    <3>1. InsertExited => exited /\ exited' = exited
      BY DEF InsertExited
    <3> QED BY <3>1
  <2>2. ASSUME NEW p \in Heap PROVE ~SetWatchpoint(p) /\ ~RemoveWatchpoint(p)
    BY <1>1 DEF SetWatchpoint, RemoveWatchpoint
  <2>3. ~SetTrapOverride /\ ~EnableTraps /\ ~ClearTrapOverride /\ ~DisableTraps
    BY <1>1 DEF SetTrapOverride, EnableTraps, ClearTrapOverride, DisableTraps
  <2>4. ~InsertAgent /\ ~InsertRefused /\ ~Exit
    BY <1>1 DEF InsertAgent, InsertRefused, Exit
  <2>5. ASSUME NEW w \in Waves PROVE ~WaveLaunch(w) /\ ~WaveEnd(w) /\ ~ResumeWave(w)
    BY <1>1 DEF WaveLaunch, WaveEnd, ResumeWave
  <2>6. ASSUME NEW a \in Agents, NEW r \in Regs
        PROVE  ~OtherProcess(a, r) /\ \A w \in Waves : ~Trigger(w, a, r)
    BY <1>1 DEF OtherProcess, Trigger
  <2> QED BY <2>1, <2>2, <2>3, <2>4, <2>5, <2>6 DEF Next
<1>3. /\ UNCHANGED <<next_id, m_watchpoints, trap_override, trap_en, triggered, exited>>
      /\ RemoveFrom(call.agent, call.ptr) /\ (Setting({"undo"}) \/ Removing({"clear"}))
  BY <1>2 DEF UndoAgent, ClearAgent, At, Setting, Removing
<1>4. UNCHANGED watch
  BY <1>1, <1>3 DEF RemoveFrom, clear_address_watch
<1>5. UNCHANGED <<object, freed, call>>
  BY <1>2 DEF UndoAgent, ClearAgent
<1> QED BY <1>2, <1>3, <1>4, <1>5

(* The initial states satisfy the invariant.                               *)
LEMMA InitInv == Init => IInv
<1> USE WatchpointsAssumption DEF WatchpointsAssumption
<1> SUFFICES ASSUME Init PROVE IInv
  OBVIOUS
<1>1. TypeOK
  <2>1. 1 \in 1..(MaxIds + 1) /\ 0 \in 0..NumAgents
    OBVIOUS
  <2>2. Return \in [op : {"none", "set", "remove"},
                    at : {"none", "override", "waves", "insert", "undo", "clear"},
                    ptr : Heap \cup {None}, agent : 0..NumAgents]
    BY <2>1 DEF Return
  <2> QED BY <2>1, <2>2 DEF Init, TypeOK
<1>2. Live = {} /\ (\A w \in Waves : triggered[w] = {})
      /\ \A a \in Agents, r \in Regs : watch[a][r] \notin Ids
  BY DEF Init, Live, None, Ids
<1>3. CallShape /\ Supported /\ IdsUnique /\ TriggeredOnce
  BY <1>2 DEF Init, CallShape, Supported, IdsUnique, TriggeredOnce
<1>4. Sound
  <2>1. Owned /\ Programmed /\ StillThere
    BY <1>2 DEF Owned, Programmed, StillThere
  <2>2. TrapsFollow
    BY <1>2 DEF Init, TrapsFollow, OnlyOne, Setting, Removing, Return
  <2> QED BY <2>1, <2>2 DEF Sound
<1> QED BY <1>1, <1>3, <1>4, SoundCovers, SoundReports DEF IInv

(* Every step, and every stuttering step, keeps the invariant.             *)
LEMMA NextInv == IInv /\ [Next]_vars => IInv'
<1> SUFFICES ASSUME IInv, [Next]_vars PROVE IInv'
  OBVIOUS
<1>1. CASE UNCHANGED vars
  <2>1. Live' = Live
    BY <1>1 DEF vars, Live
  <2>2. Base'
    BY <1>1, <2>1 DEF vars, IInv, Base, TypeOK, CallShape, Supported, IdsUnique, TriggeredOnce,
         Setting, Removing, Return
  <2>3. TrapsCoverWatches' /\ ReportedIsTriggered'
    BY <1>1, <2>1 DEF vars, IInv, TrapsCoverWatches, ReportedIsTriggered, WaveInfoWatchpoints,
         triggered_watchpoints
  <2>4. Sound => Sound'
    BY <1>1, <2>1 DEF vars, Sound, Owned, Programmed, TrapsFollow, StillThere, NotOn, MustBeOn,
         OnlyOne, Staying, Setting, Removing
  <2> QED BY <1>1, <2>2, <2>3, <2>4 DEF vars, IInv, Base
<1>2. CASE Next
  <2>1. Base /\ (~exited => Sound)
    BY <1>2 DEF IInv, Base, Next
  <2>2. Base' /\ (~exited' /\ ~failure' => Sound')
    BY <1>2, <2>1, NextSound
  <2>3. TrapsCoverWatches'
    <3>1. CASE exited'
      BY <3>1 DEF TrapsCoverWatches
    <3>2. CASE ~exited' /\ ~failure'
      <4>1. (TypeOK /\ Sound => TrapsCoverWatches)'
        BY SoundCovers, PTL
      <4> QED BY <2>2, <3>2, <4>1 DEF Base
    <3>3. CASE ~exited' /\ failure'
      BY <1>2, <2>1, <3>3, FailingStep DEF IInv, TrapsCoverWatches
    <3> QED BY <3>1, <3>2, <3>3
  <2>4. ReportedIsTriggered'
    <3>1. CASE exited'
      BY <3>1 DEF ReportedIsTriggered
    <3>2. CASE ~exited' /\ ~failure'
      <4>1. (TypeOK /\ IdsUnique /\ TriggeredOnce /\ Sound => ReportedIsTriggered)'
        BY SoundReports, PTL
      <4> QED BY <2>2, <3>2, <4>1 DEF Base
    <3>3. CASE ~exited' /\ failure'
      BY <1>2, <2>1, <3>3, FailingStep
      DEF IInv, Live, ReportedIsTriggered, WaveInfoWatchpoints, triggered_watchpoints
    <3> QED BY <3>1, <3>2, <3>3
  <2> QED BY <2>2, <2>3, <2>4 DEF IInv, Base
<1> QED BY <1>1, <1>2

(* The invariant holds in every reachable state.                           *)
LEMMA Invariance == Spec => []IInv
<1> QED BY InitInv, NextInv, PTL DEF Spec

(* No access goes unnoticed: in every reachable state in which a register  *)
(* holds a watchpoint of this process, every wave that exists and every    *)
(* wave that will start has the address watch trap enabled, whatever waves *)
(* start, end or stop between the driver calls of process_t.               *)
THEOREM Covered == Spec => []TrapsCoverWatches
<1>1. IInv => TrapsCoverWatches
  BY DEF IInv
<1> QED BY <1>1, Invariance, PTL

(* A stopped wave is reported with the watchpoint that stopped it, as long *)
(* as that watchpoint exists, although m_watchpoints keeps the entries of  *)
(* destroyed watchpoints and the allocator may reuse their addresses.      *)
THEOREM Reported == Spec => []ReportedIsTriggered
<1>1. IInv => ReportedIsTriggered
  BY DEF IInv
<1> QED BY <1>1, Invariance, PTL

(* Between calls, and unless a call has failed, a watchpoint is in exactly *)
(* one register of every agent and no register holds a refused or removed  *)
(* one; no assumption on the allocator is needed for this.                 *)
THEOREM Agreement == Spec => [](TypeOK /\ RegistersAgree)
<1>1. ASSUME IInv, Idle, ~exited, ~failure
      PROVE  /\ \A p \in Live, a \in Agents :
                   Cardinality({r \in Regs : watch[a][r] = object[p]}) = 1
             /\ \A a \in Agents, r \in Regs :
                   watch[a][r] \in Ids => \E p \in Live : object[p] = watch[a][r]
  <2>1. call.ptr = None /\ ~Setting({"insert"}) /\ Owned /\ Programmed
    BY <1>1 DEF IInv, CallShape, Return, Setting, Removing, Idle, Sound
  <2>2. ASSUME NEW p \in Live, NEW a \in Agents
        PROVE  Cardinality({r \in Regs : watch[a][r] = object[p]}) = 1
    <3>1. p # None /\ object[p] \in Ids
      BY <1>1, WatchpointsAssumption DEF WatchpointsAssumption, Live, IInv, TypeOK
    <3>2. PICK r \in Regs : watch[a][r] = object[p]
      BY <2>1, <3>1 DEF Programmed, MustBeOn
    <3>3. {s \in Regs : watch[a][s] = object[p]} = {r}
      BY <2>1, <3>1, <3>2 DEF Owned
    <3> QED BY <3>3, FS_Singleton
  <2>3. \A a \in Agents, r \in Regs :
           watch[a][r] \in Ids => \E p \in Live : object[p] = watch[a][r]
    BY <2>1 DEF Owned
  <2> QED BY <2>2, <2>3
<1>2. IInv => TypeOK /\ RegistersAgree
  BY <1>1 DEF IInv, RegistersAgree
<1> QED BY <1>2, Invariance, PTL

-----------------------------------------------------------------------------
(* A call fails only for a watchpoint at the address of an earlier one.    *)

(* Where an entry names the watchpoint of the call and the call is about   *)
(* to take it away, the register is this process's to clear, unless an     *)
(* earlier watchpoint left the entry.                                      *)
LEMMA ClearsItsOwn ==
  ASSUME EntriesInv, ~exited, ~failure, UndoAgent \/ ClearAgent, call.ptr \notin freed
  PROVE  ~failure'
<1> USE WatchpointsAssumption DEF WatchpointsAssumption
<1> DEFINE entries == {r \in Regs : m_watchpoints[call.agent][r] = call.ptr}
           reg == Min(entries)
<1>1. RemoveFrom(call.agent, call.ptr) /\ (Setting({"undo"}) \/ Removing({"clear"}))
  BY DEF UndoAgent, ClearAgent, At, Setting, Removing
<1>2. call.ptr \in Live /\ call.agent \in Agents /\ call.ptr # None
  BY <1>1 DEF EntriesInv, IInv, CallShape, Return, Setting, Removing, Live
<1>3. CASE entries = {}
  BY <1>1, <1>3 DEF RemoveFrom
<1>4. CASE entries # {}
  <2>1. reg \in entries
    BY <1>4, FirstRegister
  <2>2. clear_address_watch(call.agent, reg)
    BY <1>1, <1>4 DEF RemoveFrom
  <2> HIDE DEF reg
  <2>3. ~Undone(call.agent)
    BY <1>1, <1>2 DEF Undone, Setting, Removing, Agents
  <2>4. watch[call.agent][reg] \in Ids
    BY <1>2, <2>1, <2>3 DEF EntriesInv, EntriesTrue
  <2> QED BY <2>2, <2>4 DEF clear_address_watch
<1> QED BY <1>3, <1>4

(* The entries stay true: one is written with its register, and a register *)
(* is cleared with the call that then frees the watchpoint.                *)
LEMMA EntriesStep ==
  ASSUME Base, Sound, ~exited, ~failure', EntriesTrue, Next, ~exited'
  PROVE  EntriesTrue'
<1> USE WatchpointsAssumption DEF WatchpointsAssumption
<1>1. CASE \E p \in Heap : SetWatchpoint(p) \/ RemoveWatchpoint(p)
  <2>1. call = Return /\ UNCHANGED <<freed, m_watchpoints, watch>>
    BY <1>1 DEF SetWatchpoint, RemoveWatchpoint, Idle, Base, CallShape, Setting, Removing,
         library, device
  <2> QED BY <2>1 DEF EntriesTrue, Return, Undone, Setting, Removing
<1>2. CASE SetTrapOverride \/ EnableTraps \/ InsertRefused \/ ClearTrapOverride
  <2>1. UNCHANGED <<freed, m_watchpoints, watch>>
    BY <1>2 DEF SetTrapOverride, EnableTraps, InsertRefused, ClearTrapOverride, library, device
  <2>2. CASE SetTrapOverride \/ EnableTraps \/ InsertRefused
    <3>1. \A a \in Agents : ~Undone(a)
      BY <2>2 DEF SetTrapOverride, EnableTraps, InsertRefused, At, Undone, Setting, Removing
    <3> QED BY <2>1, <3>1 DEF EntriesTrue
  <2>3. CASE ClearTrapOverride
    <3>1. call'.ptr = call.ptr /\ Removing({"waves"})'
      BY <2>3 DEF ClearTrapOverride, GoTo, Removing, Base, TypeOK
    <3>2. \A a \in Agents : Undone(a)'
      BY <3>1 DEF Undone, Removing
    <3> QED BY <2>1, <3>1, <3>2 DEF EntriesTrue
  <2> QED BY <1>2, <2>2, <2>3
<1>3. CASE InsertAgent
  <2>1. \A a \in Agents : ~Undone(a)
    BY <1>3 DEF InsertAgent, At, Undone, Setting, Removing
  <2>2. call.ptr \in Live /\ call.agent \in Agents /\ object[call.ptr] \in Ids
    BY <1>3 DEF InsertAgent, Base, CallShape, Return, Setting, At, TypeOK, Live
  <2>3. \A a \in Agents, r \in Regs :
           \/ watch'[a][r] = object[call.ptr]
           \/ watch'[a][r] = watch[a][r] /\ m_watchpoints'[a][r] = m_watchpoints[a][r]
    BY <1>3, <2>2 DEF InsertAgent, set_address_watch, Base, TypeOK
  <2> QED BY <1>3, <2>1, <2>2, <2>3 DEF EntriesTrue, InsertAgent
<1>4. CASE InsertExited \/ Exit
  BY <1>4 DEF InsertExited, Exit
<1>5. CASE UndoAgent \/ ClearAgent
  <2>1. UNCHANGED m_watchpoints /\ RemoveFrom(call.agent, call.ptr)
        /\ (Setting({"undo"}) \/ Removing({"clear"}))
    BY <1>5 DEF UndoAgent, ClearAgent, At, Setting, Removing
  <2>2. call.ptr \in Live /\ call.agent \in Agents /\ object[call.ptr] \in Ids
    BY <2>1 DEF Base, CallShape, Return, Setting, Removing, Live, TypeOK
  <2>3. \A a \in Agents, r \in Regs :
           \/ watch'[a][r] = watch[a][r]
           \/ a = call.agent /\ watch[a][r] = object[call.ptr]
    BY <2>1, <2>2, RemoveFromStep
  <2>4. \A a \in Agents, r \in Regs :
           watch[a][r] = object[call.ptr] => m_watchpoints[a][r] = call.ptr
    BY <2>2 DEF Sound, Owned, Base, IdsUnique
  <2>5. freed \subseteq freed'
    BY <1>5 DEF UndoAgent, ClearAgent, Destroy
  <2>6. \/ call.ptr \in freed'
        \/ /\ call'.ptr = call.ptr
           /\ \A a \in Agents : a =< call.agent => Undone(a)'
    <3>1. CASE call.agent # NumAgents
      <4>1. call' = [call EXCEPT !.agent = call.agent + 1]
        BY <1>5, <3>1 DEF UndoAgent, ClearAgent
      <4>2. /\ call'.op = call.op /\ call'.at = call.at /\ call'.ptr = call.ptr
            /\ call'.agent = call.agent + 1
        BY <2>2, <3>1, <4>1, NextAgent DEF Base
      <4> QED BY <2>1, <2>2, <4>2 DEF Undone, Setting, Removing, Agents
    <3>2. CASE call.agent = NumAgents
      <4>1. \/ Destroy(call.ptr)
            \/ Removing({"clear"}) /\ call' = [call EXCEPT !.at = "override"]
        BY <1>5, <3>2 DEF UndoAgent, ClearAgent, At, Removing
      <4>2. CASE Destroy(call.ptr)
        BY <4>2 DEF Destroy
      <4>3. CASE Removing({"clear"}) /\ call' = [call EXCEPT !.at = "override"]
        BY <4>3 DEF Undone, Removing, Base, TypeOK
      <4> QED BY <4>1, <4>2, <4>3
    <3> QED BY <3>1, <3>2
  <2>7. \A a \in Agents : Undone(a) => a =< call.agent
    BY <2>1, <2>2 DEF Undone, Setting, Removing, Agents
  <2> SUFFICES ASSUME NEW a \in Agents, NEW r \in Regs,
                      m_watchpoints[a][r] \notin freed' \cup {None}, watch'[a][r] \notin Ids
               PROVE  m_watchpoints[a][r] = call'.ptr /\ Undone(a)'
    BY <2>1 DEF EntriesTrue
  <2>8. m_watchpoints[a][r] = call.ptr /\ a =< call.agent
    <3>1. CASE watch'[a][r] = watch[a][r]
      BY <2>5, <2>7, <3>1 DEF EntriesTrue
    <3>2. CASE a = call.agent /\ watch[a][r] = object[call.ptr]
      BY <2>2, <2>4, <3>2 DEF Agents
    <3> QED BY <2>3, <3>1, <3>2
  <2> QED BY <2>6, <2>8
<1>6. CASE DisableTraps
  BY <1>6 DEF DisableTraps, Destroy, EntriesTrue
<1>7. CASE \E w \in Waves : WaveLaunch(w) \/ WaveEnd(w) \/ ResumeWave(w)
  <2>1. UNCHANGED <<freed, m_watchpoints, watch, call>>
    BY <1>7 DEF WaveLaunch, WaveEnd, ResumeWave, library
  <2> QED BY <2>1 DEF EntriesTrue, Undone, Setting, Removing
<1>8. CASE \E w \in Waves, a \in Agents, r \in Regs : Trigger(w, a, r)
  <2>1. UNCHANGED <<freed, m_watchpoints, watch, call>>
    BY <1>8 DEF Trigger, library
  <2> QED BY <2>1 DEF EntriesTrue, Undone, Setting, Removing
<1>9. CASE \E a \in Agents, r \in Regs : OtherProcess(a, r)
  <2>1. UNCHANGED <<freed, m_watchpoints, call>>
    BY <1>9 DEF OtherProcess, library
  <2>2. \A b \in Agents, s \in Regs : watch[b][s] \in Ids => watch'[b][s] = watch[b][s]
    BY <1>9 DEF OtherProcess, Base, TypeOK, None, Other, Ids
  <2> QED BY <2>1, <2>2 DEF EntriesTrue, Undone, Setting, Removing
<1> QED BY <1>1, <1>2, <1>3, <1>4, <1>5, <1>6, <1>7, <1>8, <1>9 DEF Next

(* What the client was told of its watchpoints is what the agents watch,   *)
(* and while the process lives the library clears only registers it owns,  *)
(* but for a watchpoint_t the allocator put where an earlier one was: only *)
(* there is a stale entry of m_watchpoints taken for the watchpoint.       *)
THEOREM Agreeing == Spec => []WatchesAgree
<1>1. Init => EntriesInv
  <2>1. Init => ~failure /\ EntriesTrue
    BY DEF Init, EntriesTrue
  <2> QED BY <2>1, InitInv DEF EntriesInv, FatalOnlyIfReused
<1>2. EntriesInv /\ [Next]_vars => EntriesInv'
  <2> SUFFICES ASSUME EntriesInv, [Next]_vars PROVE EntriesInv'
    OBVIOUS
  <2>1. IInv'
    BY NextInv DEF EntriesInv
  <2>2. CASE UNCHANGED vars
    <3>1. FatalOnlyIfReused'
      BY <2>2 DEF vars, EntriesInv, FatalOnlyIfReused
    <3>2. EntriesTrue => EntriesTrue'
      BY <2>2 DEF vars, EntriesTrue, Undone, Setting, Removing
    <3> QED BY <2>1, <2>2, <3>1, <3>2 DEF vars, EntriesInv
  <2>3. CASE Next
    <3>1. Base /\ ~failure /\ (~exited => Sound)
      BY <2>3 DEF Next, EntriesInv, IInv, Base
    <3>2. FatalOnlyIfReused'
      <4> SUFFICES ASSUME failure', ~exited' PROVE call'.ptr \in freed'
        BY DEF FatalOnlyIfReused
      <4>1. ~exited /\ (UndoAgent \/ ClearAgent) /\ UNCHANGED <<freed, call>>
        BY <2>3, <3>1, FailingStep
      <4> QED BY <3>1, <4>1, ClearsItsOwn
    <3>3. ~exited' => ~exited
      <4>1. CASE Exit
        BY <4>1 DEF Exit
      <4>2. CASE ~Exit
        BY <2>3, <4>2 DEF Next, SetWatchpoint, RemoveWatchpoint, SetTrapOverride, EnableTraps,
             InsertAgent, InsertRefused, InsertExited, UndoAgent, ClearAgent, ClearTrapOverride,
             DisableTraps, WaveLaunch, WaveEnd, ResumeWave, Trigger, OtherProcess
      <4> QED BY <4>1, <4>2
    <3>4. ~exited' /\ ~failure' => EntriesTrue'
      BY <2>3, <3>1, <3>3, EntriesStep DEF EntriesInv
    <3> QED BY <2>1, <3>2, <3>4 DEF EntriesInv
  <2> QED BY <2>2, <2>3
<1>3. EntriesInv => FatalOnlyIfReused
  BY DEF EntriesInv
<1>4. Spec => []EntriesInv
  BY <1>1, <1>2, PTL DEF Spec
<1> QED BY <1>3, <1>4, Agreement, PTL DEF WatchesAgree
=============================================================================
