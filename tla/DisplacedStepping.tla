--------------------------- MODULE DisplacedStepping ---------------------------
(***************************************************************************)
(* Stepping a wave over a breakpoint (displaced_stepping.cpp, wave.cpp,    *)
(* queue.cpp).  The instruction that the breakpoint replaced is copied to  *)
(* a chunk of the memory that each queue reserves for the debugger, and    *)
(* the wave executes it there; instructions that depend on the pc are      *)
(* simulated instead.  Waves of a queue that are at the same address share *)
(* a displaced_stepping_t and count their references to it.  The chunks    *)
(* also hold the instruction that stopped waves are parked at and the one  *)
(* that ends a wave.                                                       *)
(*                                                                         *)
(* A call is one step.  The suspends that calls begin with, stop events    *)
(* and exceptions are in RunControl: here a wave that stops on the         *)
(* hardware is seen at once.  Addresses count words of                     *)
(* minimum_instruction_alignment (4 bytes), and the contents of a word is  *)
(* the address of the word of the program it is a copy of.                 *)
(***************************************************************************)
EXTENDS Integers, Sequences, FiniteSets

CONSTANTS
  Queues, Waves, QueueOf,
  Code,         \* the addresses of the instructions of the program
  Size,         \* the size of each of them
  Kind,         \* "plain", "branch" (simulated), "end" or "other" (neither)
  Succ,         \* the addresses that may follow each of them
  Entry,        \* where the waves begin
  Breakpoints,  \* the instructions that the client has replaced
  MemBase,      \* m_debugger_memory_base of each queue
  ChunkCount,   \* m_debugger_memory_chunk_count
  ParkStopped,  \* architecture_t::park_stopped_waves
  Ids, NoId,    \* displaced stepping ids
  NoQueue,
  Restep,       \* whether clients step again a wave they should complete
  Destroyable,  \* the queues that the inferior may destroy
  MayFreeze, MayExit

VARIABLES
  state,    \* wave_t::m_state, "absent" once the wave_t is destroyed
  hidden,   \* the waves hidden at the terminating instruction
  pc,       \* the pc register of each wave
  saved,    \* the pc that a parked wave keeps in its ttmps
  parked,   \* the waves whose m_is_parked is set
  ds,       \* wave_t::m_displaced_stepping
  done,     \* the instruction that each wave executed last
  obj,      \* the displaced_stepping_t of each id
  next,     \* m_debugger_memory_next_chunk
  free,     \* m_debugger_memory_free_chunks
  park,     \* m_park_instruction_ptr
  term,     \* m_terminating_instruction_ptr
  mem,      \* the memory reserved for the debugger
  qState,   \* "alive", "deleted" by the inferior, "invalid" or "gone"
  attached, frozen, exited,
  fault     \* the fatal_error or the assertion that stopped the library

waveVars == <<state, hidden, pc, saved, parked, ds, done>>
poolVars == <<next, free, mem>>
memVars == <<poolVars, park, term>>
procVars == <<qState, attached, frozen, exited>>
vars == <<waveVars, obj, memVars, procVars, fault>>

NoAddress == -1
AssertWord == -2    \* assert_instruction
EndWord == -3       \* terminating_instruction
Unwritten == -4

ChunkSize == 8      \* debugger_memory_chunk_size, in words
AssertSize == 1
LargestSize == 6    \* largest_instruction_size, in words

Chunks == 0 .. ChunkCount - 1
ChunkAt(q, c) == MemBase[q] + c * ChunkSize
Pool(q) == ChunkAt(q, 0) .. ChunkAt(q, ChunkCount) - 1
Pools == UNION {Pool(q) : q \in Queues}

Kinds == {"plain", "branch", "end", "other"}

\* Where the program is, and that it is not in the memory for the debugger.
ASSUME CodeAssumption ==
  /\ Code \subseteq Nat
  /\ Size \in [Code -> 1 .. LargestSize]
  /\ Kind \in [Code -> Kinds]
  /\ Succ \in [Code -> SUBSET Code]
  /\ \A a \in Code : /\ Kind[a] = "plain" => Succ[a] = {a + Size[a]}
                     /\ \A k \in 0 .. Size[a] - 1 : a + k \notin Pools
  /\ Entry \in Code
  /\ Breakpoints \subseteq Code

\* header.debugger_memory_offset and size: a pool per queue, apart from others.
ASSUME PoolAssumption ==
  /\ ChunkCount \in Nat
  /\ MemBase \in [Queues -> Nat]
  /\ \A p, q \in Queues : p # q => Pool(p) \cap Pool(q) = {}

ASSUME WaveAssumption ==
  /\ IsFiniteSet(Waves)
  /\ QueueOf \in [Waves -> Queues]
  /\ NoId \notin Ids /\ NoQueue \notin Queues
  /\ ParkStopped \in BOOLEAN /\ Restep \in BOOLEAN
  /\ MayFreeze \in BOOLEAN /\ MayExit \in BOOLEAN
  /\ Destroyable \subseteq Queues

NoObject == [queue |-> NoQueue, from |-> NoAddress, to |-> NoAddress,
             refs |-> 0]

Live == {i \in Ids : obj[i] # NoObject}
Users(i) == {w \in Waves : ds[w] = i}
Displaced(w) == ds[w] # NoId
Idle == fault = "none" /\ attached

\* process_t::find (wave_id), for a client.
Found(w) == state[w] # "absent" /\ w \notin hidden

\* wave_t::pc: read_register of a parked wave returns the saved pc.
PC(w) == IF w \in parked THEN saved[w] ELSE pc[w]

\* The pc that a client computes for a wave in a buffer.
VisiblePc(w) ==
  IF Displaced(w) /\ obj[ds[w]].to # NoAddress
    THEN PC(w) + obj[ds[w]].from - obj[ds[w]].to
    ELSE PC(w)

\* write_register of the pc: that of a parked wave goes to the saved pc.
WritePc(w, a) ==
  IF w \in parked
    THEN saved' = [saved EXCEPT ![w] = a] /\ UNCHANGED pc
    ELSE pc' = [pc EXCEPT ![w] = a] /\ UNCHANGED saved

-----------------------------------------------------------------------------
(* The chunks of a queue: aql_queue_t::allocate_displaced_instruction.     *)

\* The words of the instruction at a: those the client saved when it wrote the
\* breakpoint, and the rest from memory.
InstructionAt(a) == [k \in 1 .. Size[a] |-> a + k - 1]

\* Mutant: the free list is forgotten when no chunk is left.
CanAllocateFresh(q, list) == next[q] < ChunkCount

CanAllocate(q, list) == list # <<>> \/ next[q] < ChunkCount
Chunk(q, list) == IF list # <<>> THEN list[Len(list)] ELSE next[q]

\* An instruction ends where the guard at the end of the chunk begins.
PlaceOf(q, list, size) ==
  ChunkAt(q, Chunk(q, list)) + ChunkSize - AssertSize - size

\* Take a chunk, the one freed last if there is one, and write the words to it.
\* The guard is written when the chunk is used for the first time.
Allocate(q, list, words) ==
  LET c == Chunk(q, list)
      place == PlaceOf(q, list, Len(words))
      guard == ChunkAt(q, c) + ChunkSize - AssertSize
  IN /\ free' = [free EXCEPT ![q] = IF list # <<>>
                                      THEN SubSeq(list, 1, Len(list) - 1)
                                      ELSE list]
     /\ next' = [next EXCEPT ![q] = IF list # <<>> THEN @ ELSE @ + 1]
     /\ mem' = [a \in Pools |->
                  IF a \in place .. guard - 1 THEN words[a - place + 1]
                  ELSE IF a = guard /\ list = <<>> THEN AssertWord
                  ELSE mem[a]]

\* The deleter of a displaced_instruction_ptr_t.
ChunkOf(q, to) == (to - MemBase[q]) \div ChunkSize

\* Mutant: an object does not survive its first release.
AnyUser(w) == obj[ds[w]].refs >= 1

\* displaced_stepping_t::release, by one wave.
LastUser(w) == obj[ds[w]].refs = 1

\* Mutant: an object without references is not destroyed.
ObjKept(w) ==
  IF ~Displaced(w) THEN obj ELSE [obj EXCEPT ![ds[w]].refs = @ - 1]

ObjReleased(w) ==
  IF ~Displaced(w) THEN obj
  ELSE [obj EXCEPT ![ds[w]] = IF LastUser(w) THEN NoObject
                              ELSE [obj[ds[w]] EXCEPT !.refs = @ - 1]]

FreeReleased(w) ==
  IF Displaced(w) /\ LastUser(w) /\ obj[ds[w]].to # NoAddress
    THEN Append(free[QueueOf[w]], ChunkOf(QueueOf[w], obj[ds[w]].to))
    ELSE free[QueueOf[w]]

-----------------------------------------------------------------------------
(* Stopping and starting a wave: wave_t::set_state, park, unpark, update.  *)

\* A wave with the given pc becomes stopped, and is parked if need be.
StopAt(w, a) ==
  LET q == QueueOf[w] IN
  /\ state' = [state EXCEPT ![w] = "stop"]
  /\ IF ~ParkStopped
       THEN /\ pc' = [pc EXCEPT ![w] = a]
            /\ UNCHANGED <<saved, parked, memVars, fault>>
     ELSE IF park[q] = NoAddress /\ ~CanAllocate(q, free[q])
       THEN /\ fault' = "no_debugger_memory"
            /\ pc' = [pc EXCEPT ![w] = a]
            /\ UNCHANGED <<saved, parked, memVars>>
     ELSE /\ saved' = [saved EXCEPT ![w] = a]
          /\ parked' = parked \cup {w}
          /\ IF park[q] = NoAddress
               THEN /\ Allocate(q, free[q], <<AssertWord>>)
                    /\ park' = [park EXCEPT ![q] = PlaceOf(q, free[q], 1)]
               ELSE UNCHANGED <<poolVars, park>>
          /\ pc' = [pc EXCEPT ![w] = park'[q]]
          /\ UNCHANGED <<term, fault>>

\* A stopped wave is resumed at its pc.
StartAs(w, mode) ==
  /\ state' = [state EXCEPT ![w] = mode]
  /\ pc' = [pc EXCEPT ![w] = PC(w)]
  /\ saved' = [saved EXCEPT ![w] = NoAddress]
  /\ parked' = parked \ {w}

\* wave_t::terminate: let go of the buffer, then run the wave, hidden, at a
\* terminating instruction.
Terminate(w) ==
  LET q == QueueOf[w]
      list == FreeReleased(w)
  IN IF term[q] = NoAddress /\ ~CanAllocate(q, list)
       THEN /\ fault' = "no_debugger_memory"
            /\ UNCHANGED <<waveVars, obj, memVars>>
       ELSE /\ obj' = ObjReleased(w)
            /\ ds' = [ds EXCEPT ![w] = NoId]
            /\ IF term[q] = NoAddress
                 THEN /\ Allocate(q, list, <<EndWord>>)
                      /\ term' = [term EXCEPT ![q] = PlaceOf(q, list, 1)]
                 ELSE /\ free' = [free EXCEPT ![q] = list]
                      /\ UNCHANGED <<next, mem, term>>
            /\ pc' = [pc EXCEPT ![w] = term'[q]]
            /\ hidden' = hidden \cup {w}
            /\ state' = [state EXCEPT ![w] = "run"]
            /\ saved' = [saved EXCEPT ![w] = NoAddress]
            /\ parked' = parked \ {w}
            /\ done' = [done EXCEPT ![w] = NoAddress]
            /\ UNCHANGED <<park, fault>>

-----------------------------------------------------------------------------
(* amd_dbgapi_displaced_stepping_start and _complete.                      *)

MayStart(w) ==
  /\ Idle /\ ~exited /\ qState[QueueOf[w]] = "alive"
  /\ Found(w) /\ state[w] = "stop" /\ ~Displaced(w)

\* The objects that the wave may share: same queue, same address.
Shared(w) ==
  {i \in Live : obj[i].queue = QueueOf[w] /\ obj[i].from = PC(w)}

CanSimulate(a) == Kind[a] \in {"branch", "end"}
CanExecuteDisplaced(a) == Kind[a] = "plain"

NewObject(w, to) ==
  [queue |-> QueueOf[w], from |-> PC(w), to |-> to, refs |-> 1]

\* The pc is written, then the object is retained (a new one is counted above).
Begin(w, i) ==
  /\ IF obj'[i].to # NoAddress THEN WritePc(w, obj'[i].to)
                               ELSE UNCHANGED <<pc, saved>>
  /\ ds' = [ds EXCEPT ![w] = i]
  /\ UNCHANGED <<state, hidden, parked, done>>

StartShared(w) ==
  /\ MayStart(w)
  /\ \E i \in Shared(w) : /\ obj' = [obj EXCEPT ![i].refs = @ + 1]
                          /\ Begin(w, i)
  /\ UNCHANGED <<memVars, procVars, fault>>

\* Nothing to allocate: the instruction is simulated when the wave is resumed.
StartSimulated(w) ==
  /\ MayStart(w) /\ Shared(w) = {} /\ CanSimulate(PC(w))
  /\ \E i \in Ids \ Live : /\ obj' = [obj EXCEPT ![i] = NewObject(w, NoAddress)]
                            /\ Begin(w, i)
  /\ UNCHANGED <<memVars, procVars, fault>>

StartDisplaced(w) ==
  LET q == QueueOf[w]
      to == PlaceOf(q, free[q], Size[PC(w)])
  IN /\ MayStart(w) /\ Shared(w) = {} /\ CanExecuteDisplaced(PC(w))
     /\ CanAllocate(q, free[q])
     /\ Allocate(q, free[q], InstructionAt(PC(w)))
     /\ \E i \in Ids \ Live : /\ obj' = [obj EXCEPT ![i] = NewObject(w, to)]
                               /\ Begin(w, i)
     /\ UNCHANGED <<park, term, procVars, fault>>

StartExhausted(w) ==
  /\ MayStart(w) /\ Shared(w) = {} /\ CanExecuteDisplaced(PC(w))
  /\ ~CanAllocate(QueueOf[w], free[QueueOf[w]])
  /\ fault' = "no_debugger_memory"
  /\ UNCHANGED <<waveVars, obj, memVars, procVars>>

\* Mutant: every step is taken for an aborted one.
RestoredAborted(w) == IF Displaced(w) THEN obj[ds[w]].from ELSE PC(w)

\* displaced_stepping_complete: the pc as if the wave had not been displaced.
Restored(w) == VisiblePc(w)

Complete(w) ==
  /\ Idle /\ ~exited /\ qState[QueueOf[w]] = "alive"
  /\ Found(w) /\ ~frozen /\ state[w] = "stop" /\ Displaced(w)
  /\ WritePc(w, Restored(w))
  /\ obj' = ObjReleased(w)
  /\ free' = [free EXCEPT ![QueueOf[w]] = FreeReleased(w)]
  /\ ds' = [ds EXCEPT ![w] = NoId]
  /\ UNCHANGED <<state, hidden, parked, done, next, mem, park, term, procVars,
                 fault>>

-----------------------------------------------------------------------------
(* amd_dbgapi_wave_resume and amd_dbgapi_wave_stop.                        *)

MayResume(w) ==
  /\ Idle /\ ~exited /\ qState[QueueOf[w]] = "alive"
  /\ Found(w) /\ ~frozen /\ state[w] = "stop"

ResumeWave(w) ==
  /\ MayResume(w) /\ ~Displaced(w)
  /\ StartAs(w, "run")
  /\ UNCHANGED <<hidden, ds, done, obj, memVars, procVars, fault>>

\* Clients complete a step before they step again, unless Restep.
MayStep(w) ==
  /\ MayResume(w)
  /\ ~Restep /\ Displaced(w) => VisiblePc(w) = obj[ds[w]].from

\* The instruction that set_state looks at, none at a breakpoint.
Stepped(w) == IF Displaced(w) THEN obj[ds[w]].from ELSE PC(w)
Known(w) == Displaced(w) \/ PC(w) \notin Breakpoints

StepEnds(w) ==
  /\ MayStep(w) /\ Known(w) /\ Kind[Stepped(w)] = "end"
  /\ Terminate(w)
  /\ UNCHANGED procVars

Simulates(w) ==
  /\ Known(w) /\ Kind[Stepped(w)] = "branch"
  /\ Displaced(w) => obj[ds[w]].to = NoAddress

\* The wave stops again, after the instruction, before the call returns.
StepSimulated(w) ==
  /\ MayStep(w) /\ Simulates(w)
  /\ done' = [done EXCEPT ![w] = Stepped(w)]
  /\ \E a \in Succ[Stepped(w)] : StopAt(w, a)
  /\ UNCHANGED <<hidden, ds, obj, procVars>>

StepOnHardware(w) ==
  /\ MayStep(w) /\ ~Simulates(w)
  /\ ~(Known(w) /\ Kind[Stepped(w)] = "end")
  /\ StartAs(w, "step")
  /\ UNCHANGED <<hidden, ds, done, obj, memVars, procVars, fault>>

StopWave(w) ==
  /\ Idle /\ ~exited /\ qState[QueueOf[w]] = "alive"
  /\ Found(w) /\ ~frozen /\ state[w] \in {"run", "step"}
  /\ StopAt(w, pc[w])
  /\ UNCHANGED <<hidden, ds, done, obj, procVars>>

-----------------------------------------------------------------------------
(* A wave on the hardware, and the library when it next sees the wave.     *)

Executing(w) ==
  /\ state[w] \in {"run", "step"}
  /\ qState[QueueOf[w]] = "alive" /\ ~frozen /\ fault = "none"

\* An instruction of the program, or of a buffer, is executed.  A wave that
\* steps traps, and the library stops it.
HwExecutes(w, instruction, to) ==
  /\ done' = [done EXCEPT ![w] = instruction]
  /\ IF state[w] = "step"
       THEN StopAt(w, to)
       ELSE /\ pc' = [pc EXCEPT ![w] = to]
            /\ UNCHANGED <<state, saved, parked, memVars, fault>>
  /\ UNCHANGED <<hidden, ds, obj, procVars>>

HwInCode(w) ==
  /\ Executing(w) /\ pc[w] \in Code
  /\ attached => pc[w] \notin Breakpoints
  /\ \E a \in Succ[pc[w]] : HwExecutes(w, pc[w], a)

HwInBuffer(w) ==
  /\ Executing(w) /\ pc[w] \in Pools
  /\ mem[pc[w]] \in Code
  /\ HwExecutes(w, mem[pc[w]], pc[w] + Size[mem[pc[w]]])

\* A breakpoint, or the guard of a buffer, traps.  The client takes the pc of a
\* wave that hit a breakpoint back to it (breakpoint_instruction_pc_adjust);
\* that it is left at a guard is an assumption about the trap handler, and only
\* a client that steps a displaced wave twice gets there.
HwTraps(w) ==
  /\ Executing(w) /\ attached
  /\ \/ pc[w] \in Breakpoints
     \/ pc[w] \in Pools /\ mem[pc[w]] = AssertWord
  /\ StopAt(w, pc[w])
  /\ UNCHANGED <<hidden, ds, done, obj, procVars>>

\* The waves of W are destroyed: what remains of them.
Forget(W) ==
  /\ state' = [w \in Waves |-> IF w \in W THEN "absent" ELSE state[w]]
  /\ hidden' = hidden \ W
  /\ pc' = [w \in Waves |-> IF w \in W THEN NoAddress ELSE pc[w]]
  /\ saved' = [w \in Waves |-> IF w \in W THEN NoAddress ELSE saved[w]]
  /\ parked' = parked \ W
  /\ ds' = [w \in Waves |-> IF w \in W THEN NoId ELSE ds[w]]
  /\ done' = [w \in Waves |-> IF w \in W THEN NoAddress ELSE done[w]]

\* The wave ends, and the next update_waves no longer finds it.
HwEnds(w) ==
  /\ Executing(w) /\ state[w] = "run"
  /\ \/ pc[w] \in Code \ Breakpoints /\ Kind[pc[w]] = "end"
     \/ pc[w] \in Pools /\ mem[pc[w]] = EndWord
  /\ Forget({w})
  /\ UNCHANGED <<obj, memVars, procVars, fault>>

-----------------------------------------------------------------------------
(* The inferior, and what tears things down.                               *)

\* The save area of a queue, with the memory for the debugger, goes with it.
Lost(Q) ==
  /\ qState' = [q \in Queues |-> IF q \in Q /\ qState[q] = "alive"
                                   THEN "deleted" ELSE qState[q]]
  /\ mem' = [a \in Pools |-> IF \E q \in Q : a \in Pool(q)
                                 THEN Unwritten ELSE mem[a]]
  /\ UNCHANGED <<waveVars, obj, next, free, park, term, attached, frozen, fault>>

OsDestroyQueue(q) ==
  /\ q \in Destroyable /\ qState[q] = "alive" /\ attached
  /\ Lost({q})
  /\ UNCHANGED exited

ProcessExit ==
  /\ MayExit /\ ~exited /\ attached
  /\ exited' = TRUE
  /\ Lost(Queues)

\* suspend_queues finds that the queue is no more.
SuspendFinds(q) ==
  /\ fault = "none" /\ attached /\ qState[q] = "deleted"
  /\ qState' = [qState EXCEPT ![q] = "invalid"]
  /\ UNCHANGED <<waveVars, obj, memVars, attached, frozen, exited, fault>>

\* The objects after each wave of W has released its own.
ObjAfter(W) ==
  [i \in Ids |->
     LET n == Cardinality(Users(i) \cap W) IN
     IF n = 0 THEN obj[i]
     ELSE IF n = obj[i].refs THEN NoObject
     ELSE [obj[i] EXCEPT !.refs = @ - n]]

\* The members of the queue_t objects of Q are no more.
DropPools(Q) ==
  /\ next' = [q \in Queues |-> IF q \in Q THEN 0 ELSE next[q]]
  /\ free' = [q \in Queues |-> IF q \in Q THEN <<>> ELSE free[q]]
  /\ park' = [q \in Queues |-> IF q \in Q THEN NoAddress ELSE park[q]]
  /\ term' = [q \in Queues |-> IF q \in Q THEN NoAddress ELSE term[q]]

WavesOf(q) == {w \in Waves : QueueOf[w] = q}

\* update_queues destroys the queue_t, and that its waves (~wave_t).  If the
\* process has exited the queue is marked as invalid first.
UpdateQueues(q) ==
  /\ Idle /\ qState[q] \in {"deleted", "invalid"}
  /\ IF qState[q] # "invalid" /\ ~exited /\ \E w \in WavesOf(q) : Displaced(w)
       THEN /\ fault' = "displaced_in_valid_queue"
            /\ UNCHANGED <<waveVars, obj, memVars, qState>>
       ELSE /\ Forget(WavesOf(q))
            /\ obj' = ObjAfter(WavesOf(q))
            /\ DropPools({q})
            /\ qState' = [qState EXCEPT ![q] = "gone"]
            /\ UNCHANGED <<mem, fault>>
  /\ UNCHANGED <<attached, frozen, exited>>

\* process_t::detach, after the update_queues it begins with: displaced waves
\* are stopped and completed, then the waves that step, or whose stop reason
\* does not keep them (those in Kept do), are run.
DetachWaves(Kept) ==
  LET Freed == {w \in Waves : \/ state[w] = "step"
                              \/ state[w] = "stop" /\ w \notin Kept}
  IN /\ Kept \subseteq {w \in Waves : state[w] = "stop"}
     /\ state' = [w \in Waves |-> IF w \in Freed THEN "run" ELSE state[w]]
     /\ pc' = [w \in Waves |->
                 IF w \in Freed \/ w \notin parked THEN Restored(w) ELSE pc[w]]
     /\ saved' = [w \in Waves |->
                    IF w \in parked \ Freed THEN Restored(w) ELSE NoAddress]
     /\ parked' = parked \ Freed
     /\ ds' = [w \in Waves |-> NoId]
     /\ UNCHANGED <<hidden, done>>

Detach ==
  /\ Idle
  /\ \A q \in Queues : qState[q] \in {"alive", "gone"}
  /\ \E Kept \in SUBSET Waves : DetachWaves(Kept)
  /\ obj' = ObjAfter(Waves)
  /\ fault' = IF \A i \in Ids : obj'[i] = NoObject THEN "none"
              ELSE "displaced_steppings_left"
  /\ attached' = FALSE
  /\ DropPools(Queues)
  /\ frozen' = FALSE
  /\ UNCHANGED <<mem, qState, exited>>

\* process_t::freeze, after the update_queues it begins with.
Freeze ==
  /\ MayFreeze /\ Idle /\ ~frozen
  /\ \A q \in Queues : qState[q] \in {"alive", "gone"}
  /\ frozen' = TRUE
  /\ UNCHANGED <<waveVars, obj, memVars, qState, attached, exited, fault>>

Unfreeze ==
  /\ Idle /\ frozen
  /\ frozen' = FALSE
  /\ UNCHANGED <<waveVars, obj, memVars, qState, attached, exited, fault>>

-----------------------------------------------------------------------------

Init ==
  /\ state = [w \in Waves |-> "run"]
  /\ hidden = {}
  /\ pc = [w \in Waves |-> Entry]
  /\ saved = [w \in Waves |-> NoAddress]
  /\ parked = {}
  /\ ds = [w \in Waves |-> NoId]
  /\ done = [w \in Waves |-> NoAddress]
  /\ obj = [i \in Ids |-> NoObject]
  /\ next = [q \in Queues |-> 0]
  /\ free = [q \in Queues |-> <<>>]
  /\ park = [q \in Queues |-> NoAddress]
  /\ term = [q \in Queues |-> NoAddress]
  /\ mem = [a \in Pools |-> Unwritten]
  /\ qState = [q \in Queues |-> "alive"]
  /\ attached = TRUE /\ frozen = FALSE /\ exited = FALSE
  /\ fault = "none"

WaveStep(w) ==
  \/ StartShared(w) \/ StartSimulated(w) \/ StartDisplaced(w)
  \/ StartExhausted(w) \/ Complete(w)
  \/ ResumeWave(w) \/ StepEnds(w) \/ StepSimulated(w) \/ StepOnHardware(w)
  \/ StopWave(w)
  \/ HwInCode(w) \/ HwInBuffer(w) \/ HwTraps(w) \/ HwEnds(w)

QueueStep(q) == OsDestroyQueue(q) \/ SuspendFinds(q) \/ UpdateQueues(q)

Next ==
  \/ \E w \in Waves : WaveStep(w)
  \/ \E q \in Queues : QueueStep(q)
  \/ ProcessExit \/ Detach \/ Freeze \/ Unfreeze

Spec == Init /\ [][Next]_vars

-----------------------------------------------------------------------------
(* Properties.                                                             *)

Addresses == Nat \cup {NoAddress}
Objects == [queue : Queues, from : Code, to : Addresses, refs : Nat]

\* The type invariant.
TypeOK ==
  /\ state \in [Waves -> {"run", "step", "stop", "absent"}]
  /\ hidden \subseteq Waves /\ parked \subseteq Waves
  /\ pc \in [Waves -> Addresses]
  /\ saved \in [Waves -> Addresses]
  /\ ds \in [Waves -> Ids \cup {NoId}]
  /\ done \in [Waves -> Code \cup {NoAddress}]
  /\ obj \in [Ids -> Objects \cup {NoObject}]
  /\ next \in [Queues -> 0 .. ChunkCount]
  /\ free \in [Queues -> Seq(Chunks)]
  /\ park \in [Queues -> Addresses]
  /\ term \in [Queues -> Addresses]
  /\ mem \in [Pools -> Int]
  /\ qState \in [Queues -> {"alive", "deleted", "invalid", "gone"}]
  /\ attached \in BOOLEAN /\ frozen \in BOOLEAN /\ exited \in BOOLEAN
  /\ fault \in {"none", "no_debugger_memory", "displaced_in_valid_queue",
                "displaced_steppings_left"}

\* Whoever has chunk c of queue q: an entry of the free list, an object, or one
\* of the two instructions of the queue.
Holders(q, c) ==
  {<<"free", k>> : k \in {n \in DOMAIN free[q] : free[q][n] = c}}
    \cup {<<"object", i>> : i \in {n \in Live : /\ obj[n].queue = q
                                               /\ obj[n].to # NoAddress
                                               /\ ChunkOf(q, obj[n].to) = c}}
    \cup {<<"park", c>> : n \in {m \in {park[q]} : m # NoAddress
                                               /\ ChunkOf(q, m) = c}}
    \cup {<<"term", c>> : n \in {m \in {term[q]} : m # NoAddress
                                               /\ ChunkOf(q, m) = c}}

\* allocate_displaced_instruction and its deleter: every chunk that was ever
\* handed out has exactly one holder, so that no chunk is lost and none is
\* given to two, whatever is started, shared, completed or cancelled.
ChunksAccounted ==
  \A q \in Queues : attached /\ qState[q] # "gone" =>
    \A c \in Chunks :
      Cardinality(Holders(q, c)) = IF c < next[q] THEN 1 ELSE 0

\* displaced_stepping_t::retain and release: the count of an object is that of
\* its waves, which are waves of its queue, and two objects never stand for
\* one address of a queue.
RefsCounted ==
  /\ \A w \in Waves : Displaced(w) => /\ ds[w] \in Live
                                      /\ obj[ds[w]].queue = QueueOf[w]
  /\ \A i \in Live : obj[i].refs = Cardinality(Users(i))
  /\ \A i, j \in Live :
       obj[i].queue = obj[j].queue /\ obj[i].from = obj[j].from => i = j

\* What a wave finds in the memory for the debugger: in a buffer the whole of
\* the instruction it was displaced from, then a guard; where it is parked, an
\* instruction that traps; where it was sent to end, one that ends it.
BuffersIntact ==
  \A w \in Waves : fault = "none" /\ qState[QueueOf[w]] = "alive" =>
    /\ Displaced(w) /\ obj[ds[w]].to # NoAddress =>
         LET from == obj[ds[w]].from
             to == obj[ds[w]].to
         IN /\ \A k \in 0 .. Size[from] - 1 : mem[to + k] = from + k
            /\ mem[to + Size[from]] = AssertWord
            /\ PC(w) \in {to, to + Size[from]}
    /\ w \in parked => mem[pc[w]] = AssertWord
    /\ w \in hidden => mem[pc[w]] = EndWord

\* The memory for the debugger is shared without conflict: its chunks and the
\* references to them are accounted for, and what the waves find there is
\* theirs (aql_queue_t::allocate_displaced_instruction, displaced_stepping_t).
BuffersAccounted == TypeOK /\ ChunksAccounted /\ RefsCounted /\ BuffersIntact

\* The memory for the debugger is never exhausted.
NeverExhausted == fault # "no_debugger_memory"

\* A wave that is to be displaced always finds a buffer, and in it what it was
\* promised (aql_queue_t::allocate_displaced_instruction).
BuffersSuffice == NeverExhausted /\ BuffersIntact

\* The assertion of process_t::detach: all displaced steppings have completed.
DetachLeavesNone == fault # "displaced_steppings_left"

\* The assertion of ~wave_t: a wave destroyed while it is displaced belongs to
\* a queue that is known to be invalid.
DestroyedWhenInvalid == fault # "displaced_in_valid_queue"

\* Displaced stepping is stepping: what the client sees of each wave is a run
\* through the program of the wave, in which every instruction is executed in
\* its turn, whichever way the library makes the hardware execute it.
VisibleState == [w \in Waves |-> IF w \in hidden THEN "absent" ELSE state[w]]
VisibleAt ==
  [w \in Waves |-> IF VisibleState[w] = "absent" THEN NoAddress ELSE VisiblePc(w)]
Inline == INSTANCE InlineStepping
  WITH state <- VisibleState, at <- VisibleAt,
       alive <- {q \in Queues : qState[q] = "alive"}
StepsAreInline == Inline!Spec

===============================================================================
