------------------------------ MODULE MemoryCache ------------------------------
(***************************************************************************)
(* memory_cache_t (memory.cpp) and its users: the registers of a wave that *)
(* is off the hardware live in the context save area of its queue, and the *)
(* library reads and writes them through a write-back cache of lines of    *)
(* that memory.  A suspend saves the waves, maybe elsewhere in the area    *)
(* than last time, and drops the lines of the area; a resume writes the    *)
(* dirty lines back and keeps them all, so that stopped waves can be read  *)
(* while their queue runs.                                                 *)
(*                                                                         *)
(* While a queue runs its save area is the hardware's: what was saved last *)
(* may be overwritten at any time, so only the cache may be read then.     *)
(*                                                                         *)
(* Library calls are cut where the driver is called and between the waves  *)
(* that update_waves visits.  RunControl models when queues are suspended  *)
(* and resumed; here both may happen whenever the code allows it.          *)
(***************************************************************************)
EXTENDS Integers

CONSTANTS
  Queues, Waves, QueueOf,
  Index,        \* the bytes of one wave's registers
  IdByte,       \* the byte of the wave_id (a ttmp register)
  Control,      \* the bytes of the hwregs and ttmps, which are prefetched
  Registers,    \* what the client may access: sets of bytes
  Values, Undefined, WaveId, NoValue,
  LastAddress,  \* memory is 0 .. LastAddress
  LineSize,     \* cache_line_size
  AreaBase,     \* ctx_save_restore_address of each queue
  AreaSize,     \* ctx_save_restore_area_size of each queue
  Layouts,      \* where a context save may put the bytes
  Destroyable   \* the queues that the inferior may destroy

VARIABLES
  mem,      \* the inferior's memory
  cache,    \* m_cache_line_map: the bytes of the cached lines
  dirty,    \* the lines whose m_dirty is set
  qState,   \* queue_t::m_state, "gone" once the queue_t is destroyed
  where,    \* register_address of each byte, from the last save
  created,  \* how many wave_t have been created for each wave
  stopped,  \* the waves whose state is STOP
  got,      \* the value the last read returned
  call,     \* the call in progress
  todo,     \* the waves update_waves has still to visit
  hw,       \* the registers in the hardware
  alive     \* the queues that exist

libVars == <<cache, dirty, qState, where, created, stopped, got, call, todo>>
vars == <<mem, libVars, hw, alive>>

Bytes == Waves \X Index
WavesOf(q) == {w \in Waves : QueueOf[w] = q}
BytesOf(q) == {b \in Bytes : QueueOf[b[1]] = q}

Address == 0 .. LastAddress

\* utils::align_down (address, cache_line_size), as a line number.
LineOf(a) == a \div LineSize

\* The lines from that of the first byte to that of the last one.
LinesIn(address, size) == LineOf(address) .. LineOf(address + size - 1)

Area(q) == LinesIn(AreaBase[q], AreaSize[q])
AllLines == 0 .. LineOf(LastAddress)
Cells(L) == {a \in Address : LineOf(a) \in L}

(* Bytes of a layout that lie in the save area of their queue and do not
   overlap. *)
WellPlaced(L) ==
  /\ L \in [Bytes -> Address]
  /\ \A b \in Bytes : LineOf(L[b]) \in Area(QueueOf[b[1]])
  /\ \A b, c \in Bytes : L[b] = L[c] => b = c

(* Save areas are pages of their own, hence made of whole lines. *)
ASSUME LayoutAssumption ==
  /\ LastAddress \in Nat /\ LineSize \in Nat \ {0}
  /\ QueueOf \in [Waves -> Queues]
  /\ AreaBase \in [Queues -> Address] /\ AreaSize \in [Queues -> Nat \ {0}]
  /\ \A p, q \in Queues : p # q => Area(p) \cap Area(q) = {}
  /\ Layouts # {} /\ \A L \in Layouts : WellPlaced(L)

ASSUME ByteAssumption ==
  /\ IdByte \in Control /\ Control \subseteq Index
  /\ \A R \in Registers : R \subseteq Index /\ IdByte \notin R
  /\ {Undefined, WaveId} \subseteq Values /\ Undefined # WaveId
  /\ NoValue \notin Values

-----------------------------------------------------------------------------
(* memory_cache_t, as functions of a memory with its cache. *)

State == [mem |-> mem, cache |-> cache, dirty |-> dirty]

Becomes(s) == mem' = s.mem /\ cache' = s.cache /\ dirty' = s.dirty

Contains(s, A) == A \subseteq DOMAIN s.cache      \* contains_all

\* xfer_global_memory, reading: line by line, from the cache or from memory.
View(s, a) == IF a \in DOMAIN s.cache THEN s.cache[a] ELSE s.mem[a]

\* xfer_global_memory, writing the bytes of f.
Store(s, f) ==
  [mem   |-> [a \in Address |->
                IF a \in DOMAIN f /\ a \notin DOMAIN s.cache THEN f[a]
                                                              ELSE s.mem[a]],
   cache |-> [a \in DOMAIN s.cache |->
                IF a \in DOMAIN f THEN f[a] ELSE s.cache[a]],
   dirty |-> s.dirty \cup {LineOf(a) : a \in DOMAIN f \cap DOMAIN s.cache}]

\* Mutant: prefetched lines replace the ones that are there.
PrefetchOver(s, L) ==
  [mem |-> s.mem, dirty |-> s.dirty,
   cache |-> [a \in DOMAIN s.cache \cup Cells(L) |->
                IF a \in Cells(L) THEN s.mem[a] ELSE s.cache[a]]]

\* Lines that are in the cache already are left as they are.
Prefetch(s, L) ==
  [mem |-> s.mem, dirty |-> s.dirty,
   cache |-> [a \in DOMAIN s.cache \cup Cells(L) |-> View(s, a)]]

\* Mutant: the last line of the range is left out.
WriteBackShort(s, L) ==
  LET M == {l \in L : l + 1 \in L} IN
  [cache |-> s.cache, dirty |-> s.dirty \ M,
   mem |-> [a \in Address |->
              IF a \in DOMAIN s.cache /\ LineOf(a) \in s.dirty \cap M
                THEN s.cache[a] ELSE s.mem[a]]]

WriteBack(s, L) ==
  [cache |-> s.cache, dirty |-> s.dirty \ L,
   mem |-> [a \in Address |->
              IF a \in DOMAIN s.cache /\ LineOf(a) \in s.dirty \cap L
                THEN s.cache[a] ELSE s.mem[a]]]

Discard(s, L) ==
  [mem |-> s.mem, dirty |-> s.dirty \ L,
   cache |-> [a \in {c \in DOMAIN s.cache : LineOf(c) \notin L} |->
                s.cache[a]]]

-----------------------------------------------------------------------------
(* Suspending and resuming a queue *)

Idle == [op |-> "none", queue |-> NoValue, wave |-> NoValue, val |-> NoValue]
InCall(op) == call.op = op /\ todo = {}

\* The context save: the registers of the waves are stored in the save area.
\* No register is read from the rest of the area, whose content is left open
\* by the hardware; here it is cleared.
Saved(q, L) ==
  [a \in Address |-> IF \E b \in BytesOf(q) : L[b] = a
                       THEN hw[CHOOSE b \in BytesOf(q) : L[b] = a]
                       ELSE IF LineOf(a) \in Area(q) THEN Undefined
                       ELSE mem[a]]

OffHardware(q) == [b \in Bytes |-> IF b \in BytesOf(q) THEN Undefined ELSE hw[b]]

\* suspend_queues for a queue, on behalf of the call c, up to update_waves.
SuspendLive(q, c) ==
  /\ qState[q] = "running"
  /\ q \in alive
  /\ \E L \in Layouts :
       /\ where' = [b \in Bytes |-> IF b \in BytesOf(q) THEN L[b] ELSE where[b]]
       /\ LET saved == [mem |-> Saved(q, L), cache |-> cache, dirty |-> dirty]
          IN  Becomes(Discard(saved, Area(q)))
  /\ qState' = [qState EXCEPT ![q] = "suspended"]
  /\ todo' = WavesOf(q)
  /\ call' = c
  /\ hw' = OffHardware(q)
  /\ UNCHANGED <<created, stopped, got, alive>>

\* The queue is invalid, or the driver says that it no longer exists.
SuspendGone(q, c) ==
  /\ \/ qState[q] = "running" /\ q \notin alive
     \/ qState[q] = "invalid"
  /\ qState' = [qState EXCEPT ![q] = "invalid"]
  /\ call' = c
  /\ UNCHANGED <<mem, cache, dirty, where, created, stopped, got, todo, hw,
                 alive>>

Suspend(q) ==
  /\ call = Idle
  /\ LET c == [Idle EXCEPT !.op = "suspend", !.queue = q] IN
       \/ SuspendLive(q, c)
       \/ SuspendGone(q, c)

\* The lines from the first hwreg of a wave to its last ttmp.
ControlLines(w) ==
  {l \in AllLines : \E i, j \in Control : /\ LineOf(where[<<w, i>>]) <= l
                                          /\ l <= LineOf(where[<<w, j>>])}

\* One iteration of update_waves: prefetch (dropped if the memory cannot be
\* read), then look for the wave_id, and give an id to a wave without one.
UpdateWave(w) ==
  /\ w \in todo
  /\ \E L \in {ControlLines(w), {}} :
       LET s == Prefetch(State, L)
           new == View(s, where[<<w, IdByte>>]) = Undefined
           f == [a \in {where[<<w, IdByte>>]} |-> WaveId]
       IN /\ Becomes(IF new THEN Store(s, f) ELSE s)
          /\ created' = [created EXCEPT ![w] = IF new THEN @ + 1 ELSE @]
  /\ stopped' \in {stopped, stopped \cup {w}}
  /\ todo' = todo \ {w}
  /\ UNCHANGED <<qState, where, got, call, hw, alive>>

\* resume_queues for a queue, whose cache is s: what is dirty is written back
\* before the driver is asked, whether the queue still exists or not.
Resumed(q, s) ==
  /\ Becomes(WriteBack(s, Area(q)))
  /\ qState' = [qState EXCEPT ![q] = "running"]
  /\ hw' = [b \in Bytes |-> IF b \in BytesOf(q) /\ q \in alive
                              THEN WriteBack(s, Area(q)).mem[where[b]]
                              ELSE hw[b]]

Kept(s) == Becomes(s) /\ UNCHANGED <<qState, hw>>

\* The end of a call that suspended its queue: it is put back, unless no
\* forward progress is needed or the queue turned out to be invalid.
EndScope(q, s) ==
  /\ \/ qState[q] = "suspended" /\ Resumed(q, s)
     \/ Kept(s)
  /\ call' = Idle

SuspendReturns ==
  /\ InCall("suspend")
  /\ call' = Idle
  /\ UNCHANGED <<mem, cache, dirty, qState, where, created, stopped, got, todo,
                 hw, alive>>

Resume(q) ==
  /\ call = Idle
  /\ qState[q] = "suspended"
  /\ Resumed(q, State)
  /\ UNCHANGED <<where, created, stopped, got, call, todo, alive>>

\* process_t::freeze, once every queue is suspended or invalid; its calls of
\* update_queues and suspend_queues are steps of their own.
Flush ==
  /\ call = Idle
  /\ \A q \in Queues : qState[q] # "running"
  /\ Becomes(WriteBack(State, AllLines))
  /\ UNCHANGED <<qState, where, created, stopped, got, call, todo, hw, alive>>

\* Mutant: the destructor discards the whole cache.
DestroyedWithAll(Q) == AllLines

\* The save areas of the queue_t that are destroyed.
DestroyedAreas(Q) == UNION {Area(q) : q \in Q}

\* update_queues: the queue_t of a queue that no longer exists is destroyed,
\* with its waves and its cache lines.
UpdateQueues ==
  /\ call = Idle
  /\ LET Q == {q \in Queues \ alive : qState[q] # "gone"} IN
       /\ Q # {}
       /\ Becomes(Discard(State, DestroyedAreas(Q)))
       /\ qState' = [q \in Queues |-> IF q \in Q THEN "gone" ELSE qState[q]]
       /\ stopped' = {w \in stopped : QueueOf[w] \notin Q}
  /\ UNCHANGED <<mem, where, created, got, call, todo, hw, alive>>

-----------------------------------------------------------------------------
(* Waves and their registers *)

\* wave_t::set_state; the registers it writes are those of RunControl.
SetState(w, S) ==
  /\ call = Idle
  /\ qState[QueueOf[w]] = "suspended"
  /\ stopped' = S
  /\ UNCHANGED <<mem, cache, dirty, qState, where, created, got, call, todo,
                 hw, alive>>

StopWave(w) == w \notin stopped /\ SetState(w, stopped \cup {w})
StartWave(w) == w \in stopped /\ SetState(w, stopped \ {w})

Places(w, R) == {where[<<w, i>>] : i \in R}

\* Mutant: a line of the register is enough.
CachedInPart(w, R) == Places(w, R) \cap DOMAIN cache # {}

Cached(w, R) == Contains(State, Places(w, R))

Readable(w, R) == [i \in R |-> View(State, where[<<w, i>>])]
Update(w, f) ==
  [a \in Places(w, DOMAIN f) |->
     f[CHOOSE i \in DOMAIN f : where[<<w, i>>] = a]]

\* amd_dbgapi_read_register and amd_dbgapi_write_register.
Accessible(w) == w \in stopped /\ qState[QueueOf[w]] # "gone"

ReadRegister(w, R) ==
  /\ call = Idle
  /\ Accessible(w)
  /\ qState[QueueOf[w]] = "suspended" \/ Cached(w, R)
  /\ got' = Readable(w, R)
  /\ UNCHANGED <<mem, cache, dirty, qState, where, created, stopped, call, todo,
                 hw, alive>>

ReadSuspends(w, R) ==
  /\ call = Idle
  /\ Accessible(w)
  /\ ~Cached(w, R)
  /\ LET c == [op |-> "read", queue |-> QueueOf[w], wave |-> w, val |-> R] IN
       \/ SuspendLive(QueueOf[w], c)
       \/ SuspendGone(QueueOf[w], c)

ReadSuspended ==
  /\ InCall("read")
  /\ got' = Readable(call.wave, call.val)
  /\ EndScope(call.queue, State)
  /\ UNCHANGED <<where, created, stopped, todo, alive>>

WriteRegister(w, f) ==
  /\ call = Idle
  /\ Accessible(w)
  /\ qState[QueueOf[w]] = "suspended"
  /\ Becomes(Store(State, Update(w, f)))
  /\ UNCHANGED <<qState, where, created, stopped, got, call, todo, hw, alive>>

WriteSuspends(w, f) ==
  /\ call = Idle
  /\ Accessible(w)
  /\ LET c == [op |-> "write", queue |-> QueueOf[w], wave |-> w, val |-> f] IN
       \/ SuspendLive(QueueOf[w], c)
       \/ SuspendGone(QueueOf[w], c)

WriteSuspended ==
  /\ InCall("write")
  /\ EndScope(call.queue, Store(State, Update(call.wave, call.val)))
  /\ UNCHANGED <<where, created, stopped, got, todo, alive>>

-----------------------------------------------------------------------------
(* The hardware, the driver and the inferior *)

HwComputes(w, i, v) ==
  /\ QueueOf[w] \in alive /\ qState[QueueOf[w]] = "running"
  /\ w \notin stopped
  /\ i # IdByte
  /\ hw' = [hw EXCEPT ![<<w, i>>] = v]
  /\ UNCHANGED <<mem, libVars, alive>>

\* A queue that runs may be taken off the hardware and put back by the driver's
\* scheduler, which uses the same save area.
HwPreempts(q) ==
  /\ q \in alive /\ qState[q] = "running"
  /\ \E L \in Layouts : mem' = Saved(q, L)
  /\ UNCHANGED <<libVars, hw, alive>>

OsDestroyQueue(q) ==
  /\ q \in alive \cap Destroyable
  /\ alive' = alive \ {q}
  /\ hw' = OffHardware(q)
  /\ UNCHANGED <<mem, libVars>>

\* The save area of a queue that is gone is memory like any other.
InferiorReuses(q, v) ==
  /\ q \notin alive
  /\ mem' = [a \in Address |-> IF LineOf(a) \in Area(q) THEN v ELSE mem[a]]
  /\ UNCHANGED <<libVars, hw, alive>>

-----------------------------------------------------------------------------
Init ==
  /\ mem \in [Address -> {Undefined}]
  /\ cache = [a \in {} |-> NoValue]
  /\ dirty = {}
  /\ qState = [q \in Queues |-> "running"]
  /\ where \in Layouts
  /\ created = [w \in Waves |-> 0]
  /\ stopped = {}
  /\ got = NoValue
  /\ call = Idle
  /\ todo = {}
  /\ hw = [b \in Bytes |-> Undefined]
  /\ alive = Queues

LibraryStep ==
  \/ \E q \in Queues : Suspend(q) \/ Resume(q)
  \/ \E w \in Waves : UpdateWave(w) \/ StopWave(w) \/ StartWave(w)
  \/ SuspendReturns \/ Flush \/ UpdateQueues
  \/ \E w \in Waves, R \in Registers :
       \/ ReadRegister(w, R) \/ ReadSuspends(w, R)
       \/ \E f \in [R -> Values] : WriteRegister(w, f) \/ WriteSuspends(w, f)
  \/ ReadSuspended \/ WriteSuspended

EnvironmentStep ==
  \/ \E w \in Waves, i \in Index, v \in Values : HwComputes(w, i, v)
  \/ \E q \in Queues : HwPreempts(q) \/ OsDestroyQueue(q)
  \/ \E q \in Queues, v \in Values : InferiorReuses(q, v)

Next == LibraryStep \/ EnvironmentStep

Spec == Init /\ [][Next]_vars

-----------------------------------------------------------------------------
\* The cache holds whole lines, and only they are dirty.
CacheOK(s) ==
  /\ s.mem \in [Address -> Values]
  /\ DOMAIN s.cache \subseteq Address
  /\ \A a \in DOMAIN s.cache : s.cache[a] \in Values
  /\ \A a \in DOMAIN s.cache : Cells({LineOf(a)}) \subseteq DOMAIN s.cache
  /\ s.dirty \subseteq {LineOf(a) : a \in DOMAIN s.cache}

\* Every variable has its type.
TypeOK ==
  /\ CacheOK(State)
  /\ qState \in [Queues -> {"running", "suspended", "invalid", "gone"}]
  /\ WellPlaced(where)
  /\ created \in [Waves -> Nat]
  /\ stopped \subseteq Waves
  /\ call.op \in {"none", "suspend", "read", "write"}
  /\ todo \subseteq Waves
  /\ hw \in [Bytes -> Values]
  /\ alive \subseteq Queues

\* discard never drops an update (the assertion "discarding a dirty cache
\* line"): nothing is dirty in the save area of a live queue that runs.
NothingToDiscard ==
  \A q \in alive : qState[q] = "running" => dirty \cap Area(q) = {}

\* A wave is known by the id the library wrote into its registers: if that
\* write were lost the next suspend would take it for a new wave.
CreatedOnce == \A w \in Waves : QueueOf[w] \in alive => created[w] <= 1

\* The registers of the waves: those in the hardware, or what the cache shows
\* of the save area; those of a destroyed queue are lost.
Lost == {w \in Waves : QueueOf[w] \notin alive}
Reg == [b \in Bytes |-> IF QueueOf[b[1]] \notin alive THEN NoValue
                        ELSE IF qState[QueueOf[b[1]]] = "running" THEN hw[b]
                        ELSE View(State, where[b])]

\* The client sees one register file per wave: prefetching, writing back,
\* discarding, and moving the saved waves cannot be noticed, and every read of
\* a stopped wave, from the cache or not, returns what was last written.
File == INSTANCE RegisterFile WITH reg <- Reg, lost <- Lost
RegistersKept == File!Spec

\* The comment in ~aql_queue_t: the save area of a deleted queue may be used
\* for something else, which stale data must not corrupt.  A call that has
\* found the queue invalid does not write to its save area.
StaleDataNotWritten ==
  [][LibraryStep => \A q \in Queues : qState[q] = "invalid" =>
       \A a \in Cells(Area(q)) : mem'[a] = mem[a]]_vars

===============================================================================
