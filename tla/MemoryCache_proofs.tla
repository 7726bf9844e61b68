--------------------------- MODULE MemoryCache_proofs ---------------------------
(***************************************************************************)
(* The cache of the save areas cannot be noticed: MemoryCache implements   *)
(* RegisterFile, discard drops no update and a wave is created once.       *)
(***************************************************************************)
EXTENDS MemoryCache, TLAPS

(***************************************************************************)
(* The inductive invariant                                                 *)
(***************************************************************************)

\* What a call in progress knows of its queue and its wave.
CallHolds ==
  /\ call.op = "none" => call = Idle /\ todo = {}
  /\ call.op # "none" =>
       /\ call.queue \in Queues
       /\ todo \subseteq WavesOf(call.queue)
       /\ call.queue \in alive => qState[call.queue] = "suspended"
  /\ call.op \in {"read", "write"} =>
       /\ call.wave \in stopped
       /\ QueueOf[call.wave] = call.queue
  /\ call.op = "read" => call.val \in Registers
  /\ call.op = "write" => \E R \in Registers : call.val \in [R -> Values]

\* A live queue is either on the hardware or suspended.
LiveIsValid == \A q \in alive : qState[q] \in {"running", "suspended"}

\* The clean lines of a suspended queue are those in memory.
Coherent(s, A) ==
  \A a \in DOMAIN s.cache :
    LineOf(a) \in A /\ LineOf(a) \notin s.dirty => s.cache[a] = s.mem[a]

CleanIsMemory ==
  \A q \in alive : qState[q] = "suspended" => Coherent(State, Area(q))

\* While a queue runs the cache still has the registers of its stopped waves.
StoppedIsCached ==
  \A b \in Bytes :
    /\ QueueOf[b[1]] \in alive /\ qState[QueueOf[b[1]]] = "running"
    /\ b[1] \in stopped
    /\ where[b] \in DOMAIN cache
    => cache[where[b]] = hw[b]

\* A wave without an id has no wave_t.
IdIsKnown ==
  \A w \in Waves : QueueOf[w] \in alive =>
    /\ created[w] <= 1
    /\ Reg[<<w, IdByte>>] = Undefined => created[w] = 0

Inv == /\ TypeOK /\ CallHolds /\ LiveIsValid /\ NothingToDiscard
       /\ CleanIsMemory /\ StoppedIsCached /\ IdIsKnown

(***************************************************************************)
(* The operators of the cache                                              *)
(***************************************************************************)

\* A context save puts each register where the layout says.
LEMMA SavedThere ==
  ASSUME NEW q \in Queues, NEW L \in Layouts, NEW b \in BytesOf(q)
  PROVE  Saved(q, L)[L[b]] = hw[b]
<1>1. b \in Bytes /\ WellPlaced(L)
  BY LayoutAssumption DEF BytesOf
<1>2. \A c \in BytesOf(q) : L[c] = L[b] => c = b
  BY <1>1 DEF WellPlaced, BytesOf
<1>3. (CHOOSE c \in BytesOf(q) : L[c] = L[b]) = b
  BY <1>2
<1>4. L[b] \in Address
  BY <1>1 DEF WellPlaced
<1> QED
  BY <1>3, <1>4 DEF Saved

\* It leaves the areas of the other queues alone.
LEMMA SavedElsewhere ==
  ASSUME NEW q \in Queues, NEW L \in Layouts, NEW a \in Address,
         LineOf(a) \notin Area(q)
  PROVE  Saved(q, L)[a] = mem[a]
<1>1. \A b \in BytesOf(q) : L[b] # a
  BY LayoutAssumption DEF WellPlaced, BytesOf
<1> QED
  BY <1>1 DEF Saved

\* A saved byte is a value.
LEMMA SavedType ==
  ASSUME TypeOK, NEW q \in Queues, NEW L \in Layouts
  PROVE  Saved(q, L) \in [Address -> Values]
<1> SUFFICES ASSUME NEW a \in Address
             PROVE  Saved(q, L)[a] \in Values
  BY DEF Saved
<1>1. CASE \E b \in BytesOf(q) : L[b] = a
  <2>1. (CHOOSE b \in BytesOf(q) : L[b] = a) \in BytesOf(q)
    BY <1>1
  <2> QED
    BY <1>1, <2>1 DEF Saved, BytesOf, TypeOK
<1>2. CASE ~ \E b \in BytesOf(q) : L[b] = a
  BY <1>2, ByteAssumption DEF Saved, TypeOK, CacheOK, State
<1> QED
  BY <1>1, <1>2

\* The bytes of a written register go to their places.
LEMMA UpdateThere ==
  ASSUME WellPlaced(where), NEW w \in Waves, NEW R \in SUBSET Index,
         NEW f \in [R -> Values]
  PROVE  /\ DOMAIN Update(w, f) = Places(w, R)
         /\ \A i \in R : Update(w, f)[where[<<w, i>>]] = f[i]
         /\ \A a \in Places(w, R) : Update(w, f)[a] \in Values
<1>1. \A i, j \in R : where[<<w, i>>] = where[<<w, j>>] => i = j
  BY DEF WellPlaced, Bytes
<1>3. DOMAIN f = R
  OBVIOUS
<1>2. \A i \in R :
        (CHOOSE j \in DOMAIN f : where[<<w, j>>] = where[<<w, i>>]) = i
  BY <1>1, <1>3
<1>4. DOMAIN Update(w, f) = Places(w, R)
  BY <1>3 DEF Update
<1>5. ASSUME NEW i \in R
      PROVE  Update(w, f)[where[<<w, i>>]] = f[i]
  <2>1. where[<<w, i>>] \in Places(w, DOMAIN f)
    BY <1>3 DEF Places
  <2> QED
    BY <1>2, <2>1 DEF Update
<1>6. ASSUME NEW a \in Places(w, R)
      PROVE  Update(w, f)[a] \in Values
  <2>1. PICK i \in R : a = where[<<w, i>>]
    BY DEF Places
  <2> QED
    BY <1>5, <2>1
<1> QED
  BY <1>4, <1>5, <1>6

\* A prefetch changes nothing that can be seen.
LEMMA PrefetchInvisible ==
  ASSUME NEW s, CacheOK(s), NEW L
  PROVE  /\ CacheOK(Prefetch(s, L))
         /\ \A a \in Address : View(Prefetch(s, L), a) = View(s, a)
         /\ \A A : Coherent(s, A) => Coherent(Prefetch(s, L), A)
<1> DEFINE t == Prefetch(s, L)
<1>1. /\ t.mem = s.mem /\ t.dirty = s.dirty
      /\ DOMAIN t.cache = DOMAIN s.cache \cup Cells(L)
      /\ \A a \in DOMAIN t.cache : t.cache[a] = View(s, a)
  BY DEF Prefetch
<1>2. \A a \in Cells(L) : a \in Address /\ Cells({LineOf(a)}) \subseteq Cells(L)
  BY DEF Cells
<1>3. CacheOK(t)
  <2> HIDE DEF t
  <2>1. \A a \in DOMAIN t.cache : t.cache[a] \in Values
    BY <1>1, <1>2 DEF CacheOK, View
  <2> QED
    BY <1>1, <1>2, <2>1 DEF CacheOK
<1>4. ASSUME NEW a \in Address
      PROVE  View(t, a) = View(s, a)
  <2> HIDE DEF t
  <2> QED
    BY <1>1 DEF View
<1>5. ASSUME NEW A, Coherent(s, A)
      PROVE  Coherent(t, A)
  <2> HIDE DEF t
  <2> QED
    BY <1>1, <1>5 DEF Coherent, View
<1> QED
  BY <1>3, <1>4, <1>5

\* A store is seen where it is made, and nowhere else.
LEMMA StoreVisible ==
  ASSUME NEW s, CacheOK(s), NEW f, DOMAIN f \subseteq Address,
         \A a \in DOMAIN f : f[a] \in Values
  PROVE  /\ CacheOK(Store(s, f))
         /\ \A a \in Address : View(Store(s, f), a)
                                = IF a \in DOMAIN f THEN f[a] ELSE View(s, a)
         /\ \A A : Coherent(s, A) => Coherent(Store(s, f), A)
         /\ \A A : /\ Store(s, f).dirty \cap A \subseteq
                         (s.dirty \cap A) \cup {LineOf(a) : a \in DOMAIN f}
<1> DEFINE t == Store(s, f)
<1>1. /\ t.mem \in [Address -> Values]
      /\ \A a \in Address :
           t.mem[a] = IF a \in DOMAIN f /\ a \notin DOMAIN s.cache THEN f[a]
                                                                  ELSE s.mem[a]
  BY DEF Store, CacheOK
<1>2. /\ DOMAIN t.cache = DOMAIN s.cache
      /\ \A a \in DOMAIN s.cache :
           t.cache[a] = IF a \in DOMAIN f THEN f[a] ELSE s.cache[a]
      /\ t.dirty = s.dirty \cup {LineOf(a) : a \in DOMAIN f \cap DOMAIN s.cache}
  BY DEF Store
<1> HIDE DEF t
<1>3. CacheOK(t)
  BY <1>1, <1>2 DEF CacheOK
<1>4. ASSUME NEW a \in Address
      PROVE  View(t, a) = IF a \in DOMAIN f THEN f[a] ELSE View(s, a)
  BY <1>1, <1>2 DEF View
<1>5. ASSUME NEW A, Coherent(s, A)
      PROVE  Coherent(t, A)
  <2> SUFFICES ASSUME NEW a \in DOMAIN t.cache, LineOf(a) \in A,
                      LineOf(a) \notin t.dirty
               PROVE  t.cache[a] = t.mem[a]
    BY DEF Coherent
  <2>1. a \notin DOMAIN f /\ a \in DOMAIN s.cache /\ LineOf(a) \notin s.dirty
    BY <1>2
  <2>2. s.cache[a] = s.mem[a] /\ a \in Address
    BY <1>5, <2>1 DEF Coherent, CacheOK
  <2> QED
    BY <1>1, <1>2, <2>1, <2>2
<1>6. ASSUME NEW A
      PROVE  t.dirty \cap A \subseteq
               (s.dirty \cap A) \cup {LineOf(a) : a \in DOMAIN f}
  BY <1>2
<1> QED
  BY <1>3, <1>4, <1>5, <1>6 DEF t

\* A write back changes nothing that can be seen, and what can be seen of the
\* lines that were coherent is then in memory.
LEMMA WriteBackInvisible ==
  ASSUME NEW s, CacheOK(s), NEW L
  PROVE  /\ CacheOK(WriteBack(s, L))
         /\ \A a \in Address : View(WriteBack(s, L), a) = View(s, a)
         /\ WriteBack(s, L).cache = s.cache
         /\ WriteBack(s, L).dirty = s.dirty \ L
         /\ \A A : Coherent(s, A) => Coherent(WriteBack(s, L), A)
         /\ Coherent(s, L) => \A a \in Address :
              LineOf(a) \in L => WriteBack(s, L).mem[a] = View(s, a)
<1> DEFINE t == WriteBack(s, L)
<1>1. /\ t.cache = s.cache /\ t.dirty = s.dirty \ L
      /\ t.mem \in [Address -> Values]
      /\ \A a \in Address :
           t.mem[a] = IF a \in DOMAIN s.cache /\ LineOf(a) \in s.dirty \cap L
                        THEN s.cache[a] ELSE s.mem[a]
  BY DEF WriteBack, CacheOK
<1> HIDE DEF t
<1>2. CacheOK(t)
  BY <1>1 DEF CacheOK
<1>3. ASSUME NEW a \in Address
      PROVE  View(t, a) = View(s, a)
  BY <1>1 DEF View
<1>4. ASSUME NEW A, Coherent(s, A)
      PROVE  Coherent(t, A)
  BY <1>1, <1>4 DEF Coherent, CacheOK
<1>5. ASSUME Coherent(s, L), NEW a \in Address, LineOf(a) \in L
      PROVE  t.mem[a] = View(s, a)
  BY <1>1, <1>5 DEF Coherent, View
<1> QED
  BY <1>1, <1>2, <1>3, <1>4, <1>5 DEF t

\* After a discard the memory shows, and other lines are not touched.
LEMMA DiscardShows ==
  ASSUME NEW s, CacheOK(s), NEW L
  PROVE  /\ CacheOK(Discard(s, L))
         /\ Discard(s, L).mem = s.mem
         /\ Discard(s, L).dirty = s.dirty \ L
         /\ DOMAIN Discard(s, L).cache = {a \in DOMAIN s.cache : LineOf(a) \notin L}
         /\ \A a \in DOMAIN Discard(s, L).cache :
              Discard(s, L).cache[a] = s.cache[a]
         /\ \A a \in Address : LineOf(a) \in L =>
              View(Discard(s, L), a) = s.mem[a]
         /\ \A a \in Address : LineOf(a) \notin L =>
              View(Discard(s, L), a) = View(s, a)
<1> DEFINE t == Discard(s, L)
<1>1. /\ t.mem = s.mem /\ t.dirty = s.dirty \ L
      /\ DOMAIN t.cache = {a \in DOMAIN s.cache : LineOf(a) \notin L}
      /\ \A a \in DOMAIN t.cache : t.cache[a] = s.cache[a]
  BY DEF Discard
<1> HIDE DEF t
<1>2. \A a, c \in Address : c \in Cells({LineOf(a)}) => LineOf(c) = LineOf(a)
  BY DEF Cells
<1>3. CacheOK(t)
  BY <1>1, <1>2 DEF CacheOK
<1>4. ASSUME NEW a \in Address
      PROVE  View(t, a) = IF LineOf(a) \in L THEN s.mem[a] ELSE View(s, a)
  BY <1>1 DEF View
<1> QED
  BY <1>1, <1>3, <1>4 DEF t

(***************************************************************************)
(* Steps that change the cache                                             *)
(***************************************************************************)

\* What every step has to preserve, apart from the call and the ids.
Core == /\ TypeOK /\ LiveIsValid /\ NothingToDiscard /\ CleanIsMemory
        /\ StoppedIsCached

\* The memory s differs from the present one only in the save area of q.
Touches(s, q) ==
  /\ \A a \in Address : LineOf(a) \notin Area(q) =>
       /\ a \in DOMAIN s.cache <=> a \in DOMAIN cache
       /\ a \in DOMAIN cache => s.cache[a] = cache[a]
       /\ s.mem[a] = mem[a]
  /\ s.dirty \ Area(q) = dirty \ Area(q)

\* What is known of s is known of the memory that becomes s.
LEMMA Becoming ==
  ASSUME NEW s, Becomes(s)
  PROVE  /\ CacheOK(s) => CacheOK(State)'
         /\ \A a : View(State, a)' = View(s, a)
         /\ \A A : Coherent(s, A) => Coherent(State, A)'
  BY DEF Becomes, State, CacheOK, View, Coherent

\* A byte of another queue lies outside the save area of q.
LEMMA PlacedElsewhere ==
  ASSUME WellPlaced(where), NEW q \in Queues, NEW b \in Bytes,
         QueueOf[b[1]] # q
  PROVE  /\ where[b] \in Address
         /\ LineOf(where[b]) \notin Area(q)
  BY LayoutAssumption DEF WellPlaced, Bytes

\* The areas of two queues have no line in common.
LEMMA Disjoint ==
  ASSUME NEW p \in Queues, NEW q \in Queues, p # q, NEW l, l \in Area(p)
  PROVE  l \notin Area(q)
  BY LayoutAssumption

\* suspend_queues shows the client the registers the hardware saved.
LEMMA SuspendLiveStep ==
  ASSUME Core, NEW q \in Queues, NEW c, SuspendLive(q, c),
         c.op \in {"suspend", "read", "write"}
  PROVE  Core' /\ Reg' = Reg
<1> PICK L \in Layouts :
         /\ where' = [b \in Bytes |-> IF b \in BytesOf(q) THEN L[b] ELSE where[b]]
         /\ Becomes(Discard([mem |-> Saved(q, L), cache |-> cache,
                             dirty |-> dirty], Area(q)))
  BY DEF SuspendLive
<1> DEFINE s == [mem |-> Saved(q, L), cache |-> cache, dirty |-> dirty]
           t == Discard(s, Area(q))
<1>1. s.mem = Saved(q, L) /\ s.cache = cache /\ s.dirty = dirty
  OBVIOUS
<1>2. CacheOK(s)
  BY <1>1, SavedType DEF Core, TypeOK, CacheOK, State
<1>3. Becomes(t)
  OBVIOUS
<1> HIDE DEF s
<1>4. /\ CacheOK(t)
      /\ t.mem = s.mem
      /\ t.dirty = s.dirty \ Area(q)
      /\ DOMAIN t.cache = {a \in DOMAIN s.cache : LineOf(a) \notin Area(q)}
      /\ \A a \in DOMAIN t.cache : t.cache[a] = s.cache[a]
      /\ \A a \in Address : LineOf(a) \in Area(q) => View(t, a) = s.mem[a]
      /\ \A a \in Address : LineOf(a) \notin Area(q) => View(t, a) = View(s, a)
  BY <1>2, DiscardShows
<1> HIDE DEF t
<1>5. mem' = t.mem /\ cache' = t.cache /\ dirty' = t.dirty
  BY <1>3 DEF Becomes
<1>6. /\ qState[q] = "running" /\ q \in alive
      /\ qState' = [qState EXCEPT ![q] = "suspended"]
      /\ todo' = WavesOf(q) /\ call' = c /\ hw' = OffHardware(q)
      /\ UNCHANGED <<created, stopped, got, alive>>
  BY DEF SuspendLive
<1>w. WellPlaced(where) /\ WellPlaced(L)
  BY LayoutAssumption DEF Core, TypeOK
<1>7. WellPlaced(where')
  <2>1. \A b \in Bytes : where'[b] = IF QueueOf[b[1]] = q THEN L[b] ELSE where[b]
    BY DEF BytesOf
  <2>2. /\ where' \in [Bytes -> Address]
        /\ \A b \in Bytes : LineOf(where'[b]) \in Area(QueueOf[b[1]])
    BY <1>w, <2>1 DEF WellPlaced
  <2>3. ASSUME NEW b \in Bytes, NEW d \in Bytes, where'[b] = where'[d]
        PROVE  b = d
    <3>1. QueueOf[b[1]] \in Queues /\ QueueOf[d[1]] \in Queues
      BY LayoutAssumption DEF Bytes
    <3>2. QueueOf[b[1]] = QueueOf[d[1]]
      BY <2>2, <2>3, <3>1, Disjoint
    <3> QED
      BY <1>w, <2>1, <2>3, <3>2 DEF WellPlaced
  <2> QED
    BY <2>2, <2>3 DEF WellPlaced
<1>8. TypeOK'
  <2>1. CacheOK(State)'
    BY <1>3, <1>4, Becoming
  <2>2. hw' \in [Bytes -> Values]
    BY <1>6, ByteAssumption DEF OffHardware, Core, TypeOK
  <2>3. WellPlaced(where)'
    BY <1>7 DEF WellPlaced
  <2>4. /\ qState' \in [Queues -> {"running", "suspended", "invalid", "gone"}]
        /\ created' \in [Waves -> Nat] /\ stopped' \subseteq Waves
        /\ call'.op \in {"none", "suspend", "read", "write"}
        /\ todo' \subseteq Waves /\ alive' \subseteq Queues
    BY <1>6 DEF Core, TypeOK, WavesOf
  <2> QED
    BY <2>1, <2>2, <2>3, <2>4 DEF TypeOK
<1>9. LiveIsValid'
  BY <1>6 DEF LiveIsValid, Core, TypeOK
<1>10. NothingToDiscard'
  BY <1>1, <1>4, <1>5, <1>6 DEF NothingToDiscard, Core, TypeOK
<1>11. CleanIsMemory'
  <2> SUFFICES ASSUME NEW p \in alive', qState'[p] = "suspended"
               PROVE  Coherent(State, Area(p))'
    BY DEF CleanIsMemory
  <2>1. \A a \in DOMAIN t.cache : LineOf(a) \in Area(p) =>
          p # q /\ a \in DOMAIN cache /\ t.cache[a] = cache[a] /\ t.mem[a] = mem[a]
    BY <1>1, <1>4, <1>2, SavedElsewhere DEF CacheOK
  <2>2. p # q => Coherent(State, Area(p))
    BY <1>6 DEF Core, CleanIsMemory, TypeOK
  <2>3. ASSUME NEW a \in DOMAIN t.cache, LineOf(a) \in Area(p),
               LineOf(a) \notin t.dirty
        PROVE  t.cache[a] = t.mem[a]
    <3>1. a \in DOMAIN cache /\ LineOf(a) \notin dirty /\ p # q
      BY <1>1, <1>4, <2>1, <2>3
    <3>2. cache[a] = mem[a]
      BY <2>2, <2>3, <3>1 DEF Coherent, State
    <3> QED
      BY <2>1, <2>3, <3>2
  <2> QED
    BY <1>5, <2>3 DEF Coherent, State
<1>12. \A b \in Bytes : QueueOf[b[1]] # q =>
         where'[b] = where[b] /\ hw'[b] = hw[b]
  BY <1>6 DEF OffHardware, BytesOf
<1>13. StoppedIsCached'
  <2> SUFFICES ASSUME NEW b \in Bytes,
                      QueueOf[b[1]] \in alive', qState'[QueueOf[b[1]]] = "running",
                      b[1] \in stopped', where'[b] \in DOMAIN cache'
               PROVE  cache'[where'[b]] = hw'[b]
    BY DEF StoppedIsCached
  <2>1. QueueOf[b[1]] # q
    BY <1>6 DEF Core, TypeOK
  <2>2. /\ where[b] \in DOMAIN cache /\ cache'[where'[b]] = cache[where[b]]
        /\ where'[b] = where[b] /\ hw'[b] = hw[b]
    BY <1>1, <1>4, <1>5, <1>12, <2>1
  <2>3. qState[QueueOf[b[1]]] = "running"
    BY <1>6, <2>1 DEF Core, TypeOK
  <2> QED
    BY <1>6, <2>2, <2>3 DEF Core, StoppedIsCached
<1>14. ASSUME NEW b \in Bytes
       PROVE  Reg'[b] = Reg[b]
  <2>0. \A a : View(State, a)' = View(t, a)
    BY <1>3, Becoming
  <2>1. Reg'[b] = IF QueueOf[b[1]] \notin alive THEN NoValue
                  ELSE IF qState'[QueueOf[b[1]]] = "running" THEN hw'[b]
                  ELSE View(t, where'[b])
    BY <1>6, <2>0 DEF Reg
  <2>2. CASE QueueOf[b[1]] = q
    <3>1. b \in BytesOf(q) /\ where'[b] = L[b]
      BY <2>2 DEF BytesOf
    <3>2. L[b] \in Address /\ LineOf(L[b]) \in Area(q)
      BY <1>w, <2>2 DEF WellPlaced
    <3>3. View(t, where'[b]) = hw[b]
      BY <1>1, <1>4, <3>1, <3>2, SavedThere
    <3> QED
      BY <1>6, <2>1, <2>2, <3>3 DEF Reg, Core, TypeOK
  <2>3. CASE QueueOf[b[1]] # q
    <3>1. where[b] \in Address /\ LineOf(where[b]) \notin Area(q)
      BY <1>w, <2>3, PlacedElsewhere
    <3>2. View(t, where[b]) = View(State, where[b])
      BY <1>1, <1>4, <3>1, SavedElsewhere DEF View, State
    <3>3. qState'[QueueOf[b[1]]] = qState[QueueOf[b[1]]]
      BY <1>6, <2>3 DEF Core, TypeOK
    <3> QED
      BY <1>12, <2>1, <2>3, <3>2, <3>3 DEF Reg
  <2> QED
    BY <2>2, <2>3
<1>15. Reg' = Reg
  BY <1>14 DEF Reg
<1> QED
  BY <1>8, <1>9, <1>10, <1>11, <1>13, <1>15 DEF Core

\* A memory that differs only in the save area of q shows the same elsewhere.
LEMMA TouchesElsewhere ==
  ASSUME Core, NEW q \in Queues, NEW s, CacheOK(s), Touches(s, q)
  PROVE  /\ \A a \in Address : LineOf(a) \notin Area(q) =>
                View(s, a) = View(State, a)
         /\ \A p \in alive : p # q /\ qState[p] = "suspended" =>
                Coherent(s, Area(p))
         /\ \A p \in alive : p # q => s.dirty \cap Area(p) = dirty \cap Area(p)
<1>1. \A a \in Address : LineOf(a) \notin Area(q) => View(s, a) = View(State, a)
  BY DEF Touches, View, State
<1>2. \A p \in alive : p # q => s.dirty \cap Area(p) = dirty \cap Area(p)
  BY Disjoint DEF Touches, Core, TypeOK
<1>3. ASSUME NEW p \in alive, p # q, qState[p] = "suspended"
      PROVE  Coherent(s, Area(p))
  <2> SUFFICES ASSUME NEW a \in DOMAIN s.cache, LineOf(a) \in Area(p),
                      LineOf(a) \notin s.dirty
               PROVE  s.cache[a] = s.mem[a]
    BY DEF Coherent
  <2>1. a \in Address /\ LineOf(a) \notin Area(q) /\ LineOf(a) \notin dirty
    BY <1>2, <1>3, Disjoint DEF CacheOK, Core, TypeOK
  <2>2. Coherent(State, Area(p))
    BY <1>3 DEF Core, CleanIsMemory
  <2> QED
    BY <2>1, <2>2 DEF Touches, Coherent, State
<1> QED
  BY <1>1, <1>2, <1>3

\* The end of what a call does to a suspended queue, whether the queue is put
\* back or not: the client sees the registers as s shows them.
LEMMA PutStep ==
  ASSUME Core, NEW q \in Queues, NEW s, CacheOK(s), Touches(s, q),
         q \in alive => qState[q] = "suspended" /\ Coherent(s, Area(q)),
         Resumed(q, s) \/ Kept(s),
         UNCHANGED <<where, alive>>,
         created' \in [Waves -> Nat], todo' \subseteq Waves,
         stopped' \subseteq Waves,
         \A w \in Waves : QueueOf[w] # q /\ w \in stopped' => w \in stopped,
         call'.op \in {"none", "suspend", "read", "write"}
  PROVE  /\ Core'
         /\ Reg' = [b \in Bytes |-> IF QueueOf[b[1]] = q /\ q \in alive
                                       THEN View(s, where[b]) ELSE Reg[b]]
<1>w. /\ WellPlaced(where)
      /\ \A b \in Bytes : /\ where[b] \in Address
                           /\ LineOf(where[b]) \in Area(QueueOf[b[1]])
                           /\ QueueOf[b[1]] \in Queues
                           /\ b[1] \in Waves
  BY LayoutAssumption DEF Core, TypeOK, WellPlaced, Bytes
<1>t. /\ qState \in [Queues -> {"running", "suspended", "invalid", "gone"}]
      /\ hw \in [Bytes -> Values] /\ alive \subseteq Queues
  BY DEF Core, TypeOK
<1>e. /\ \A a \in Address : LineOf(a) \notin Area(q) =>
             View(s, a) = View(State, a)
      /\ \A p \in alive : p # q /\ qState[p] = "suspended" =>
             Coherent(s, Area(p))
      /\ \A p \in alive : p # q => s.dirty \cap Area(p) = dirty \cap Area(p)
  BY TouchesElsewhere
<1>o. ASSUME NEW b \in Bytes, QueueOf[b[1]] # q
      PROVE  /\ where[b] \in DOMAIN s.cache => /\ where[b] \in DOMAIN cache
                                              /\ s.cache[where[b]] = cache[where[b]]
             /\ View(s, where[b]) = View(State, where[b])
  BY <1>w, <1>e, <1>o, PlacedElsewhere DEF Touches
<1>1. CASE Resumed(q, s)
  <2> DEFINE t == WriteBack(s, Area(q))
  <2>1. /\ CacheOK(t) /\ \A a \in Address : View(t, a) = View(s, a)
        /\ t.cache = s.cache /\ t.dirty = s.dirty \ Area(q)
        /\ \A A : Coherent(s, A) => Coherent(t, A)
        /\ q \in alive => \A a \in Address :
              LineOf(a) \in Area(q) => t.mem[a] = View(s, a)
    BY WriteBackInvisible
  <2>2. Becomes(t)
    BY <1>1 DEF Resumed
  <2>3. /\ qState' = [qState EXCEPT ![q] = "running"]
        /\ hw' = [b \in Bytes |-> IF b \in BytesOf(q) /\ q \in alive
                                     THEN t.mem[where[b]] ELSE hw[b]]
    BY <1>1 DEF Resumed
  <2> HIDE DEF t
  <2>4. /\ mem' = t.mem /\ cache' = t.cache /\ dirty' = t.dirty
        /\ CacheOK(State)' /\ \A a : View(State, a)' = View(t, a)
        /\ \A A : Coherent(t, A) => Coherent(State, A)'
    BY <2>1, <2>2, Becoming DEF Becomes
  <2>5. \A b \in Bytes : hw'[b] = IF QueueOf[b[1]] = q /\ q \in alive
                                    THEN View(s, where[b]) ELSE hw[b]
    BY <1>w, <2>1, <2>3 DEF BytesOf
  <2>6. hw' \in [Bytes -> Values]
    <3>1. \A a \in Address : t.mem[a] \in Values
      BY <2>1 DEF CacheOK
    <3> QED
      BY <1>w, <1>t, <2>3, <3>1
  <2>7. TypeOK'
    <3>1. WellPlaced(where)'
      BY <1>w DEF WellPlaced
    <3> QED
      BY <1>t, <2>3, <2>4, <2>6, <3>1 DEF TypeOK
  <2>8. LiveIsValid'
    BY <1>t, <2>3 DEF LiveIsValid, Core
  <2>9. NothingToDiscard'
    <3> SUFFICES ASSUME NEW p \in alive, qState'[p] = "running"
                 PROVE  t.dirty \cap Area(p) = {}
      BY <2>4 DEF NothingToDiscard
    <3>1. CASE p = q
      BY <2>1, <3>1
    <3>2. CASE p # q
      BY <1>t, <1>e, <2>1, <2>3, <3>2 DEF Core, NothingToDiscard
    <3> QED
      BY <3>1, <3>2
  <2>10. CleanIsMemory'
    BY <1>t, <1>e, <2>1, <2>3, <2>4 DEF CleanIsMemory
  <2>11. StoppedIsCached'
    <3> SUFFICES ASSUME NEW b \in Bytes,
                        QueueOf[b[1]] \in alive,
                        qState'[QueueOf[b[1]]] = "running",
                        b[1] \in stopped', where[b] \in DOMAIN s.cache
                 PROVE  s.cache[where[b]] = hw'[b]
      BY <2>1, <2>4 DEF StoppedIsCached
    <3>1. CASE QueueOf[b[1]] = q
      BY <2>5, <3>1 DEF View
    <3>2. CASE QueueOf[b[1]] # q
      BY <1>w, <1>t, <1>o, <2>3, <2>5, <3>2 DEF Core, StoppedIsCached
    <3> QED
      BY <3>1, <3>2
  <2>12. ASSUME NEW b \in Bytes
         PROVE  Reg'[b] = IF QueueOf[b[1]] = q /\ q \in alive
                            THEN View(s, where[b]) ELSE Reg[b]
    <3>1. Reg'[b] = IF QueueOf[b[1]] \notin alive THEN NoValue
                    ELSE IF qState'[QueueOf[b[1]]] = "running" THEN hw'[b]
                    ELSE View(t, where[b])
      BY <2>4 DEF Reg
    <3>2. View(t, where[b]) = View(s, where[b])
      BY <1>w, <2>1
    <3>3. CASE QueueOf[b[1]] = q
      BY <1>t, <2>3, <2>5, <3>1, <3>3 DEF Reg
    <3>4. CASE QueueOf[b[1]] # q
      BY <1>t, <1>w, <1>o, <2>3, <2>5, <3>1, <3>2, <3>4 DEF Reg
    <3> QED
      BY <3>3, <3>4
  <2>13. Reg' = [b \in Bytes |-> IF QueueOf[b[1]] = q /\ q \in alive
                                    THEN View(s, where[b]) ELSE Reg[b]]
    BY <2>12 DEF Reg
  <2> QED
    BY <2>7, <2>8, <2>9, <2>10, <2>11, <2>13 DEF Core
<1>2. CASE Kept(s)
  <2>1. /\ qState' = qState /\ hw' = hw
        /\ mem' = s.mem /\ cache' = s.cache /\ dirty' = s.dirty
        /\ CacheOK(State)' /\ \A a : View(State, a)' = View(s, a)
        /\ \A A : Coherent(s, A) => Coherent(State, A)'
    BY <1>2, Becoming DEF Kept, Becomes
  <2>2. TypeOK'
    <3>1. WellPlaced(where)'
      BY <1>w DEF WellPlaced
    <3> QED
      BY <1>t, <2>1, <3>1 DEF TypeOK
  <2>3. LiveIsValid'
    BY <2>1 DEF LiveIsValid, Core
  <2>4. NothingToDiscard'
    BY <1>e, <2>1 DEF NothingToDiscard, Core
  <2>5. CleanIsMemory'
    BY <1>e, <2>1 DEF CleanIsMemory
  <2>6. StoppedIsCached'
    <3> SUFFICES ASSUME NEW b \in Bytes,
                        QueueOf[b[1]] \in alive, qState[QueueOf[b[1]]] = "running",
                        b[1] \in stopped', where[b] \in DOMAIN s.cache
                 PROVE  s.cache[where[b]] = hw[b]
      BY <2>1 DEF StoppedIsCached
    <3>1. QueueOf[b[1]] # q
      OBVIOUS
    <3> QED
      BY <1>w, <1>o, <3>1 DEF Core, StoppedIsCached
  <2>7. ASSUME NEW b \in Bytes
        PROVE  Reg'[b] = IF QueueOf[b[1]] = q /\ q \in alive
                           THEN View(s, where[b]) ELSE Reg[b]
    <3>1. Reg'[b] = IF QueueOf[b[1]] \notin alive THEN NoValue
                    ELSE IF qState[QueueOf[b[1]]] = "running" THEN hw[b]
                    ELSE View(s, where[b])
      BY <2>1 DEF Reg
    <3>2. CASE QueueOf[b[1]] = q
      BY <3>1, <3>2 DEF Reg
    <3>3. CASE QueueOf[b[1]] # q
      BY <1>o, <3>1, <3>3 DEF Reg
    <3> QED
      BY <3>2, <3>3
  <2>8. Reg' = [b \in Bytes |-> IF QueueOf[b[1]] = q /\ q \in alive
                                   THEN View(s, where[b]) ELSE Reg[b]]
    BY <2>7 DEF Reg
  <2> QED
    BY <2>2, <2>3, <2>4, <2>5, <2>6, <2>8 DEF Core
<1> QED
  BY <1>1, <1>2

\* Storing into the save area of q touches only that area.
LEMMA StoreTouches ==
  ASSUME NEW q, NEW s, CacheOK(s), Touches(s, q), NEW f,
         DOMAIN f \subseteq Cells(Area(q))
  PROVE  Touches(Store(s, f), q)
<1> DEFINE t == Store(s, f)
<1>1. /\ \A a \in Address :
           t.mem[a] = IF a \in DOMAIN f /\ a \notin DOMAIN s.cache THEN f[a]
                                                                  ELSE s.mem[a]
      /\ DOMAIN t.cache = DOMAIN s.cache
      /\ \A a \in DOMAIN s.cache :
           t.cache[a] = IF a \in DOMAIN f THEN f[a] ELSE s.cache[a]
      /\ t.dirty = s.dirty \cup {LineOf(a) : a \in DOMAIN f \cap DOMAIN s.cache}
  BY DEF Store
<1> HIDE DEF t
<1>2. \A a \in DOMAIN f : LineOf(a) \in Area(q)
  BY DEF Cells
<1>3. t.dirty \ Area(q) = s.dirty \ Area(q)
  BY <1>1, <1>2
<1>4. Touches(t, q)
  BY <1>1, <1>2, <1>3 DEF Touches
<1> QED
  BY <1>4 DEF t

\* So does prefetching lines of it.
LEMMA PrefetchTouches ==
  ASSUME NEW q, CacheOK(State), NEW L, L \subseteq Area(q)
  PROVE  Touches(Prefetch(State, L), q)
<1> DEFINE t == Prefetch(State, L)
<1>1. /\ t.mem = mem /\ t.dirty = dirty
      /\ DOMAIN t.cache = DOMAIN cache \cup Cells(L)
      /\ \A a \in DOMAIN t.cache : t.cache[a] = View(State, a)
  BY DEF Prefetch, State
<1> HIDE DEF t
<1>2. \A a \in Address : LineOf(a) \notin Area(q) => a \notin Cells(L)
  BY DEF Cells
<1>3. \A a \in DOMAIN cache : View(State, a) = cache[a]
  BY DEF View, State
<1>4. Touches(t, q)
  BY <1>1, <1>2, <1>3 DEF Touches
<1> QED
  BY <1>4 DEF t

\* A register written by the client is seen, and so are all the others.
LEMMA WrittenRegisters ==
  ASSUME Core, NEW w \in Waves, NEW R \in SUBSET Index, NEW f \in [R -> Values],
         QueueOf[w] \in alive => qState[QueueOf[w]] = "suspended"
  PROVE  LET s == Store(State, Update(w, f)) IN
         /\ CacheOK(s)
         /\ Touches(s, QueueOf[w])
         /\ QueueOf[w] \in alive => Coherent(s, Area(QueueOf[w]))
         /\ \A b \in Bytes : View(s, where[b])
              = IF b[1] = w /\ b[2] \in R THEN f[b[2]] ELSE View(State, where[b])
<1> DEFINE g == Update(w, f)
           s == Store(State, g)
<1>1. /\ WellPlaced(where) /\ CacheOK(State)
      /\ QueueOf[w] \in alive => Coherent(State, Area(QueueOf[w]))
  BY DEF Core, TypeOK, CleanIsMemory
<1>2. /\ DOMAIN g = Places(w, R)
      /\ \A i \in R : g[where[<<w, i>>]] = f[i]
      /\ \A a \in Places(w, R) : g[a] \in Values
  BY <1>1, UpdateThere
<1> HIDE DEF g
<1>3. \A i \in Index : <<w, i>> \in Bytes
  BY DEF Bytes
<1>4. DOMAIN g \subseteq Cells(Area(QueueOf[w])) /\ DOMAIN g \subseteq Address
  <2>1. ASSUME NEW i \in R
        PROVE  where[<<w, i>>] \in Address /\ LineOf(where[<<w, i>>]) \in Area(QueueOf[w])
    <3>1. <<w, i>> \in Bytes /\ <<w, i>>[1] = w
      BY <1>3
    <3> QED
      BY <1>1, <3>1 DEF WellPlaced
  <2> QED
    BY <1>2, <2>1 DEF Places, Cells
<1>5. /\ CacheOK(s)
      /\ \A a \in Address : View(s, a) = IF a \in DOMAIN g THEN g[a]
                                                        ELSE View(State, a)
      /\ \A A : Coherent(State, A) => Coherent(s, A)
  BY <1>1, <1>2, <1>4, StoreVisible
<1>6. Touches(State, QueueOf[w])
  BY DEF Touches, State
<1>7. Touches(s, QueueOf[w])
  BY <1>1, <1>4, <1>6, StoreTouches
<1>8. ASSUME NEW b \in Bytes
      PROVE  View(s, where[b]) = IF b[1] = w /\ b[2] \in R THEN f[b[2]]
                                 ELSE View(State, where[b])
  <2>1. where[b] \in Address
    BY <1>1 DEF WellPlaced
  <2>2. CASE b[1] = w /\ b[2] \in R
    <3>1. b = <<w, b[2]>>
      BY <2>2 DEF Bytes
    <3> QED
      BY <1>2, <1>5, <2>1, <2>2, <3>1 DEF Places
  <2>3. CASE ~ (b[1] = w /\ b[2] \in R)
    <3>1. \A i \in R : where[<<w, i>>] # where[b]
      <4>1. \A i \in R : <<w, i>> # b
        BY <2>3
      <4> QED
        BY <1>1, <1>3, <4>1 DEF WellPlaced
    <3>2. where[b] \notin DOMAIN g
      BY <1>2, <3>1 DEF Places
    <3> QED
      BY <1>5, <2>1, <2>3, <3>2
  <2> QED
    BY <2>2, <2>3
<1> QED
  BY <1>1, <1>5, <1>7, <1>8 DEF g

\* The lines prefetched for a wave are lines of its queue's save area.
LEMMA ControlInArea ==
  ASSUME WellPlaced(where), NEW w \in Waves
  PROVE  ControlLines(w) \subseteq Area(QueueOf[w])
<1> SUFFICES ASSUME NEW l \in AllLines, NEW i \in Control, NEW j \in Control,
                    LineOf(where[<<w, i>>]) <= l, l <= LineOf(where[<<w, j>>])
             PROVE  l \in Area(QueueOf[w])
  BY DEF ControlLines
<1>0. QueueOf[w] \in Queues
  BY LayoutAssumption
<1>1. /\ LineOf(where[<<w, i>>]) \in Area(QueueOf[w])
      /\ LineOf(where[<<w, j>>]) \in Area(QueueOf[w])
  BY ByteAssumption DEF WellPlaced, Bytes
<1>2. l \in Int
  BY DEF AllLines
<1>3. ASSUME NEW x \in Int, NEW y \in Int, NEW z \in Int, NEW m \in Int,
             NEW n \in Int, x \in m .. n, y \in m .. n, x <= z, z <= y
      PROVE  z \in m .. n
  BY <1>3
<1>4. \A a \in Int : LineOf(a) \in Int
  BY LayoutAssumption DEF LineOf
<1>5. AreaBase[QueueOf[w]] \in Int /\ AreaSize[QueueOf[w]] \in Int
  BY <1>0, LayoutAssumption DEF Address
<1>6. AreaBase[QueueOf[w]] + AreaSize[QueueOf[w]] - 1 \in Int
  BY <1>5
<1>7. where[<<w, i>>] \in Int /\ where[<<w, j>>] \in Int
  BY ByteAssumption DEF WellPlaced, Bytes, Address
<1> HIDE DEF LineOf
<1> QED
  BY <1>1, <1>2, <1>3, <1>4, <1>5, <1>6, <1>7 DEF Area, LinesIn

(***************************************************************************)
(* Each action preserves the invariant and is a step of RegisterFile       *)
(***************************************************************************)

\* A step of the register file, or one that it does not see.
Simulated == File!Next \/ UNCHANGED File!fileVars

\* A step that neither writes an id byte nor creates a wave.
LEMMA IdsKept ==
  ASSUME IdIsKnown, UNCHANGED created, alive' \subseteq alive,
         \A w \in Waves : QueueOf[w] \in alive' =>
           Reg'[<<w, IdByte>>] = Reg[<<w, IdByte>>]
  PROVE  IdIsKnown'
  BY DEF IdIsKnown

\* A call that suspends its queue, whether the queue is still there or not.
LEMMA SuspendStep ==
  ASSUME Inv, NEW q \in Queues, NEW c, call = Idle,
         SuspendLive(q, c) \/ SuspendGone(q, c),
         c.op \in {"suspend", "read", "write"}, c.queue = q,
         c.op \in {"read", "write"} => c.wave \in stopped /\ QueueOf[c.wave] = q,
         c.op = "read" => c.val \in Registers,
         c.op = "write" => \E R \in Registers : c.val \in [R -> Values]
  PROVE  Inv' /\ Simulated
<1>0. todo = {} /\ Core
  BY DEF Inv, Core, CallHolds, Idle
<1>1. Core' /\ Reg' = Reg
  <2>1. CASE SuspendLive(q, c)
    BY <1>0, <2>1, SuspendLiveStep
  <2>2. CASE SuspendGone(q, c)
    <3>1. /\ q \notin alive
          /\ qState' = [qState EXCEPT ![q] = "invalid"]
          /\ call' = c
          /\ UNCHANGED <<mem, cache, dirty, where, created, stopped, got, todo,
                         hw, alive>>
      BY <1>0, <2>2 DEF SuspendGone, Core, LiveIsValid
    <3>2. TypeOK'
      BY <1>0, <3>1 DEF Core, TypeOK, State, CacheOK, WellPlaced
    <3>3. LiveIsValid' /\ NothingToDiscard'
      BY <1>0, <3>1 DEF Core, TypeOK, LiveIsValid, NothingToDiscard
    <3>4. CleanIsMemory'
      BY <1>0, <3>1 DEF Core, TypeOK, CleanIsMemory, Coherent, State
    <3>5. StoppedIsCached'
      BY <1>0, <3>1 DEF Core, TypeOK, StoppedIsCached
    <3>6. Reg' = Reg
      BY <1>0, <3>1 DEF Reg, Core, TypeOK, View, State
    <3> QED
      BY <3>2, <3>3, <3>4, <3>5, <3>6 DEF Core
  <2> QED
    BY <2>1, <2>2
<1>2. /\ call' = c /\ UNCHANGED <<created, stopped, got, alive>>
      /\ todo' \in {WavesOf(q), {}}
      /\ q \in alive => qState'[q] = "suspended"
  BY <1>0 DEF SuspendLive, SuspendGone, Core, TypeOK, LiveIsValid
<1>3. CallHolds'
  BY <1>2 DEF CallHolds, WavesOf
<1>4. IdIsKnown'
  BY <1>1, <1>2, IdsKept DEF Inv
<1>5. UNCHANGED File!fileVars
  BY <1>1, <1>2 DEF File!fileVars, Lost
<1> QED
  BY <1>1, <1>3, <1>4, <1>5 DEF Inv, Core, Simulated

\* An iteration of update_waves gives an id to a wave that has none.
LEMMA UpdateWaveStep ==
  ASSUME Inv, NEW w \in Waves, UpdateWave(w)
  PROVE  Inv' /\ Simulated
<1> DEFINE q == QueueOf[w]
<1>0. /\ Core /\ CallHolds /\ IdIsKnown /\ q \in Queues
      /\ WellPlaced(where) /\ CacheOK(State)
  BY LayoutAssumption DEF Inv, Core, TypeOK
<1>1. /\ w \in todo /\ call.op # "none" /\ call.queue = q
      /\ q \in alive => qState[q] = "suspended" /\ Coherent(State, Area(q))
  BY <1>0 DEF CallHolds, UpdateWave, WavesOf, Core, CleanIsMemory
<1>2. PICK L \in {ControlLines(w), {}} :
        LET r == Prefetch(State, L)
            new == View(r, where[<<w, IdByte>>]) = Undefined
            f == [a \in {where[<<w, IdByte>>]} |-> WaveId]
        IN /\ Becomes(IF new THEN Store(r, f) ELSE r)
           /\ created' = [created EXCEPT ![w] = IF new THEN @ + 1 ELSE @]
  BY DEF UpdateWave
<1> DEFINE r == Prefetch(State, L)
           new == View(r, where[<<w, IdByte>>]) = Undefined
           f == [a \in {where[<<w, IdByte>>]} |-> WaveId]
           s == IF new THEN Store(r, f) ELSE r
<1>3. /\ Becomes(s) /\ created' = [created EXCEPT ![w] = IF new THEN @ + 1 ELSE @]
  BY <1>2
<1>4. /\ stopped' \in {stopped, stopped \cup {w}}
      /\ todo' = todo \ {w}
      /\ UNCHANGED <<qState, where, got, call, hw, alive>>
  BY DEF UpdateWave
<1>5. /\ CacheOK(r)
      /\ \A a \in Address : View(r, a) = View(State, a)
      /\ \A A : Coherent(State, A) => Coherent(r, A)
  BY <1>0, PrefetchInvisible
<1>6. Touches(r, q)
  BY <1>0, ControlInArea, PrefetchTouches
<1>7. <<w, IdByte>> \in Bytes /\ WaveId \in Values /\ Undefined # WaveId
  BY ByteAssumption DEF Bytes
<1>8. where[<<w, IdByte>>] \in Address /\ where[<<w, IdByte>>] \in Cells(Area(q))
  BY <1>0, <1>7 DEF WellPlaced, Cells
<1>9. /\ DOMAIN f = {where[<<w, IdByte>>]} /\ f[where[<<w, IdByte>>]] = WaveId
  OBVIOUS
<1> HIDE DEF r, f
<1>10. /\ CacheOK(Store(r, f))
       /\ \A a \in Address : View(Store(r, f), a)
                             = IF a \in DOMAIN f THEN f[a] ELSE View(r, a)
       /\ \A A : Coherent(r, A) => Coherent(Store(r, f), A)
  BY <1>5, <1>7, <1>8, <1>9, StoreVisible
<1>11. Touches(Store(r, f), q)
  BY <1>5, <1>6, <1>8, <1>9, StoreTouches
<1>12. /\ CacheOK(s) /\ Touches(s, q)
       /\ q \in alive => Coherent(s, Area(q))
  BY <1>1, <1>5, <1>6, <1>10, <1>11
<1>13. \A b \in Bytes : View(s, where[b])
         = IF new /\ b = <<w, IdByte>> THEN WaveId ELSE View(State, where[b])
  <2>1. \A b \in Bytes : where[b] \in Address
                        /\ (where[b] \in DOMAIN f <=> b = <<w, IdByte>>)
    BY <1>0, <1>7, <1>9 DEF WellPlaced
  <2> QED
    BY <1>5, <1>9, <1>10, <2>1
<1>14. new <=> View(State, where[<<w, IdByte>>]) = Undefined
  BY <1>5, <1>8
<1> HIDE DEF s, new
<1>15. Kept(s)
  BY <1>3, <1>4 DEF Kept
<1>16. /\ created' \in [Waves -> Nat] /\ todo' \subseteq Waves
       /\ stopped' \subseteq Waves
       /\ call'.op \in {"none", "suspend", "read", "write"}
       /\ \A v \in Waves : QueueOf[v] # q /\ v \in stopped' => v \in stopped
  BY <1>0, <1>3, <1>4 DEF Core, TypeOK
<1>17. /\ Core'
       /\ Reg' = [b \in Bytes |-> IF QueueOf[b[1]] = q /\ q \in alive
                                     THEN View(s, where[b]) ELSE Reg[b]]
  BY <1>0, <1>1, <1>4, <1>12, <1>15, <1>16, PutStep
<1>18. q \in alive => \A b \in Bytes : QueueOf[b[1]] = q => Reg[b] = View(State, where[b])
  BY <1>1 DEF Reg
<1>19. Reg' = IF q \in alive /\ Reg[<<w, IdByte>>] = Undefined
                THEN [Reg EXCEPT ![<<w, IdByte>>] = WaveId] ELSE Reg
  <2>0. Reg = [b \in Bytes |-> Reg[b]] /\ Reg' = [b \in Bytes |-> Reg'[b]]
    BY <1>17 DEF Reg
  <2>1. ASSUME NEW b \in Bytes
        PROVE  Reg'[b] = IF q \in alive /\ Reg[<<w, IdByte>>] = Undefined
                              /\ b = <<w, IdByte>> THEN WaveId ELSE Reg[b]
    <3>1. <<w, IdByte>>[1] = w
      OBVIOUS
    <3> QED
      BY <1>7, <1>13, <1>14, <1>17, <1>18, <3>1
  <2> QED
    BY <1>7, <2>0, <2>1
<1>20. CallHolds'
  BY <1>0, <1>1, <1>4 DEF CallHolds
<1>21. IdIsKnown'
  <2> SUFFICES ASSUME NEW v \in Waves, QueueOf[v] \in alive
               PROVE  /\ created'[v] <= 1
                      /\ Reg'[<<v, IdByte>>] = Undefined => created'[v] = 0
    BY <1>4 DEF IdIsKnown
  <2>1. /\ created[v] \in Nat /\ created[v] <= 1
        /\ Reg[<<v, IdByte>>] = Undefined => created[v] = 0
    BY <1>0 DEF IdIsKnown, Core, TypeOK
  <2>2. <<v, IdByte>> \in Bytes /\ DOMAIN Reg = Bytes
    BY ByteAssumption DEF Bytes, Reg
  <2>3. CASE v # w
    <3>1. created'[v] = created[v] /\ <<v, IdByte>> # <<w, IdByte>>
      BY <1>0, <1>3, <2>3 DEF Core, TypeOK
    <3>2. Reg'[<<v, IdByte>>] = Reg[<<v, IdByte>>]
      BY <1>19, <2>2, <3>1
    <3> QED
      BY <2>1, <3>1, <3>2
  <2>4. CASE v = w
    <3>1. created'[v] = IF new THEN created[v] + 1 ELSE created[v]
      BY <1>0, <1>3, <2>4 DEF Core, TypeOK
    <3>2. new <=> Reg[<<v, IdByte>>] = Undefined
      BY <1>7, <1>14, <1>18, <2>4
    <3>3. Reg'[<<v, IdByte>>] = IF new THEN WaveId ELSE Reg[<<v, IdByte>>]
      BY <1>19, <2>2, <2>4, <3>2
    <3> QED
      BY <1>7, <2>1, <3>1, <3>2, <3>3
  <2> QED
    BY <2>3, <2>4
<1>22. File!Find(w)
  <2>1. w \in Lost <=> q \notin alive
    BY DEF Lost
  <2> QED
    BY <1>4, <1>19, <2>1 DEF File!Find, Lost
<1> QED
  BY <1>17, <1>20, <1>21, <1>22 DEF Inv, Core, Simulated, File!Next

\* What a read returns: the registers of a live wave.
LEMMA ReadsReg ==
  ASSUME Inv, NEW w \in stopped, NEW R \in SUBSET Index,
         \/ QueueOf[w] \in alive => qState[QueueOf[w]] = "suspended"
         \/ Cached(w, R)
  PROVE  /\ Readable(w, R) \in [R -> Values]
         /\ w \notin Lost => \A i \in R : Readable(w, R)[i] = Reg[<<w, i>>]
<1>1. /\ w \in Waves /\ WellPlaced(where) /\ CacheOK(State) /\ LiveIsValid
      /\ StoppedIsCached
  BY DEF Inv, TypeOK
<1>2. \A i \in R : <<w, i>> \in Bytes /\ where[<<w, i>>] \in Address
  BY <1>1 DEF WellPlaced, Bytes
<1>3. \A a \in Address : View(State, a) \in Values
  BY <1>1 DEF View, CacheOK
<1>4. Readable(w, R) \in [R -> Values]
  BY <1>2, <1>3 DEF Readable
<1>5. ASSUME w \notin Lost, NEW i \in R
      PROVE  View(State, where[<<w, i>>]) = Reg[<<w, i>>]
  <2>1. QueueOf[w] \in alive
    BY <1>1, <1>5 DEF Lost
  <2>2. <<w, i>>[1] = w
    OBVIOUS
  <2>3. CASE qState[QueueOf[w]] = "suspended"
    BY <1>2, <2>1, <2>2, <2>3 DEF Reg
  <2>4. CASE qState[QueueOf[w]] # "suspended"
    <3>1. qState[QueueOf[w]] = "running"
      BY <1>1, <2>1, <2>4 DEF LiveIsValid
    <3>2. where[<<w, i>>] \in DOMAIN cache
      BY <2>1, <2>4 DEF Cached, Contains, Places, State
    <3>3. cache[where[<<w, i>>]] = hw[<<w, i>>]
      BY <1>1, <1>2, <2>1, <2>2, <3>1, <3>2 DEF StoppedIsCached
    <3>4. Reg[<<w, i>>] = hw[<<w, i>>]
      BY <1>2, <2>1, <2>2, <3>1 DEF Reg
    <3> QED
      BY <3>2, <3>3, <3>4 DEF View, State
  <2> QED
    BY <2>3, <2>4
<1> QED
  BY <1>4, <1>5 DEF Readable

\* A read answered from the cache or from a suspended queue.
LEMMA ReadRegisterStep ==
  ASSUME Inv, NEW w \in Waves, NEW R \in Registers, ReadRegister(w, R)
  PROVE  Inv' /\ Simulated
<1>1. /\ w \in stopped /\ R \in SUBSET Index
      /\ qState[QueueOf[w]] = "suspended" \/ Cached(w, R)
      /\ got' = Readable(w, R)
      /\ UNCHANGED <<mem, cache, dirty, qState, where, created, stopped, call,
                     todo, hw, alive>>
  BY ByteAssumption DEF ReadRegister, Accessible
<1>2. /\ Readable(w, R) \in [R -> Values]
      /\ w \notin Lost => \A i \in R : Readable(w, R)[i] = Reg[<<w, i>>]
  BY <1>1, ReadsReg
<1>3. Reg' = Reg /\ Lost' = Lost
  BY <1>1 DEF Reg, Lost, View, State
<1>4. File!Read(w, R)
  BY <1>1, <1>2, <1>3 DEF File!Read
<1>5. Inv'
  BY <1>1, <1>3 DEF Inv, TypeOK, CacheOK, State, WellPlaced, CallHolds, LiveIsValid,
     NothingToDiscard, CleanIsMemory, Coherent, StoppedIsCached, IdIsKnown
<1> QED
  BY <1>1, <1>4, <1>5 DEF Simulated, File!Next

\* The cache as it is touches nothing.
LEMMA NothingTouched ==
  ASSUME Inv, NEW q \in Queues, q \in alive => qState[q] = "suspended"
  PROVE  /\ Core /\ CacheOK(State) /\ Touches(State, q)
         /\ q \in alive => qState[q] = "suspended" /\ Coherent(State, Area(q))
         /\ Reg = [b \in Bytes |-> IF QueueOf[b[1]] = q /\ q \in alive
                                     THEN View(State, where[b]) ELSE Reg[b]]
  BY DEF Inv, Core, TypeOK, Touches, State, CleanIsMemory, Reg

\* A queue is put back with the registers the client was shown.
LEMMA ResumeStep ==
  ASSUME Inv, NEW q \in Queues, Resume(q)
  PROVE  Inv' /\ Simulated
<1>1. /\ qState[q] = "suspended" /\ call = Idle /\ Resumed(q, State)
      /\ UNCHANGED <<where, created, stopped, got, call, todo, alive>>
  BY DEF Resume
<1>2. Core' /\ Reg' = Reg
  <2>1. /\ Core /\ CacheOK(State) /\ Touches(State, q)
        /\ q \in alive => qState[q] = "suspended" /\ Coherent(State, Area(q))
        /\ Reg = [b \in Bytes |-> IF QueueOf[b[1]] = q /\ q \in alive
                                    THEN View(State, where[b]) ELSE Reg[b]]
    BY <1>1, NothingTouched
  <2>2. /\ created' \in [Waves -> Nat] /\ todo' \subseteq Waves
        /\ stopped' \subseteq Waves
        /\ \A w \in Waves : QueueOf[w] # q /\ w \in stopped' => w \in stopped
        /\ call'.op \in {"none", "suspend", "read", "write"}
    BY <1>1 DEF Inv, TypeOK
  <2>3. /\ Core'
        /\ Reg' = [b \in Bytes |-> IF QueueOf[b[1]] = q /\ q \in alive
                                     THEN View(State, where[b]) ELSE Reg[b]]
    BY <1>1, <2>1, <2>2, PutStep
  <2> QED
    BY <2>1, <2>3
<1>3. CallHolds'
  BY <1>1 DEF Inv, CallHolds, Idle
<1>4. IdIsKnown'
  BY <1>1, <1>2, IdsKept DEF Inv
<1>5. UNCHANGED File!fileVars
  BY <1>1, <1>2 DEF File!fileVars, Lost
<1> QED
  BY <1>2, <1>3, <1>4, <1>5 DEF Inv, Core, Simulated

\* A read that had to suspend the queue.
LEMMA ReadSuspendedStep ==
  ASSUME Inv, ReadSuspended
  PROVE  Inv' /\ Simulated
<1> DEFINE q == call.queue
           w == call.wave
           R == call.val
<1>1. /\ call.op = "read" /\ todo = {}
      /\ got' = Readable(w, R)
      /\ Resumed(q, State) \/ Kept(State)
      /\ call' = Idle
      /\ UNCHANGED <<where, created, stopped, todo, alive>>
  BY DEF ReadSuspended, InCall, EndScope
<1>2. /\ q \in Queues /\ w \in stopped /\ w \in Waves /\ QueueOf[w] = q
      /\ q \in alive => qState[q] = "suspended"
      /\ R \in SUBSET Index
  BY <1>1, ByteAssumption DEF Inv, CallHolds, TypeOK
<1> HIDE DEF q, w, R
<1>3. Core' /\ Reg' = Reg
  <2>1. /\ Core /\ CacheOK(State) /\ Touches(State, q)
        /\ q \in alive => qState[q] = "suspended" /\ Coherent(State, Area(q))
        /\ Reg = [b \in Bytes |-> IF QueueOf[b[1]] = q /\ q \in alive
                                    THEN View(State, where[b]) ELSE Reg[b]]
    BY <1>2, NothingTouched
  <2>2. /\ created' \in [Waves -> Nat] /\ todo' \subseteq Waves
        /\ stopped' \subseteq Waves
        /\ \A v \in Waves : QueueOf[v] # q /\ v \in stopped' => v \in stopped
        /\ call'.op \in {"none", "suspend", "read", "write"}
    BY <1>1 DEF Inv, TypeOK, Idle
  <2>3. /\ Core'
        /\ Reg' = [b \in Bytes |-> IF QueueOf[b[1]] = q /\ q \in alive
                                     THEN View(State, where[b]) ELSE Reg[b]]
    BY <1>1, <1>2, <2>1, <2>2, PutStep
  <2> QED
    BY <2>1, <2>3
<1>4. /\ Readable(w, R) \in [R -> Values]
      /\ w \notin Lost => \A i \in R : Readable(w, R)[i] = Reg[<<w, i>>]
  BY <1>2, ReadsReg
<1>5. File!Read(w, R)
  BY <1>1, <1>2, <1>3, <1>4 DEF File!Read, Lost
<1>6. CallHolds'
  BY <1>1 DEF CallHolds, Idle
<1>7. IdIsKnown'
  BY <1>1, <1>3, IdsKept DEF Inv
<1> QED
  BY <1>2, <1>3, <1>5, <1>6, <1>7 DEF Inv, Core, Simulated, File!Next

\* A register is written, whether its queue is put back afterwards or not.
LEMMA WriteStep ==
  ASSUME Inv, NEW w \in stopped, NEW R \in Registers, NEW f \in [R -> Values],
         QueueOf[w] \in alive => qState[QueueOf[w]] = "suspended",
         \/ Resumed(QueueOf[w], Store(State, Update(w, f)))
         \/ Kept(Store(State, Update(w, f))),
         call' = Idle, todo = {},
         UNCHANGED <<where, created, stopped, got, todo, alive>>
  PROVE  Inv' /\ Simulated
<1> DEFINE q == QueueOf[w]
           s == Store(State, Update(w, f))
<1>1. /\ w \in Waves /\ q \in Queues /\ R \in SUBSET Index /\ IdByte \notin R
      /\ Core
  BY LayoutAssumption, ByteAssumption DEF Inv, Core, TypeOK
<1>2. /\ CacheOK(s) /\ Touches(s, q)
      /\ q \in alive => qState[q] = "suspended" /\ Coherent(s, Area(q))
      /\ \A b \in Bytes : View(s, where[b])
           = IF b[1] = w /\ b[2] \in R THEN f[b[2]] ELSE View(State, where[b])
  BY <1>1, WrittenRegisters
<1>3. Resumed(q, s) \/ Kept(s)
  OBVIOUS
<1> HIDE DEF s
<1>4. /\ Core'
      /\ Reg' = [b \in Bytes |-> IF QueueOf[b[1]] = q /\ q \in alive
                                   THEN View(s, where[b]) ELSE Reg[b]]
  <2>1. /\ created' \in [Waves -> Nat] /\ todo' \subseteq Waves
        /\ stopped' \subseteq Waves
        /\ \A v \in Waves : QueueOf[v] # q /\ v \in stopped' => v \in stopped
        /\ call'.op \in {"none", "suspend", "read", "write"}
    BY <1>1 DEF Core, TypeOK, Idle
  <2> QED
    BY <1>1, <1>2, <1>3, <2>1, PutStep
<1>5. Reg' = [b \in Bytes |-> IF b[1] = w /\ b[2] \in R /\ q \in alive
                               THEN f[b[2]] ELSE Reg[b]]
  <2>1. ASSUME NEW b \in Bytes
        PROVE  Reg'[b] = IF b[1] = w /\ b[2] \in R /\ q \in alive
                           THEN f[b[2]] ELSE Reg[b]
    <3>1. q \in alive /\ QueueOf[b[1]] = q => Reg[b] = View(State, where[b])
      BY <1>2 DEF Reg
    <3> QED
      BY <1>2, <1>4, <3>1
  <2> QED
    BY <1>4, <2>1
<1>6. CallHolds'
  BY DEF CallHolds, Idle
<1>7. IdIsKnown'
  <2>1. \A v \in Waves : Reg'[<<v, IdByte>>] = Reg[<<v, IdByte>>]
    <3>1. \A v \in Waves : <<v, IdByte>> \in Bytes /\ <<v, IdByte>>[2] = IdByte
      BY ByteAssumption DEF Bytes
    <3> QED
      BY <1>1, <1>5, <3>1
  <2> QED
    BY <2>1, IdsKept DEF Inv
<1>8. File!Write(w, f)
  <2>1. q \in alive <=> w \notin Lost
    BY <1>1 DEF Lost
  <2>2. DOMAIN f = R /\ Lost' = Lost /\ File!Bytes = Bytes
    BY DEF Lost, File!Bytes, Bytes
  <2> QED
    BY <1>5, <2>1, <2>2 DEF File!Write
<1> QED
  BY <1>1, <1>4, <1>6, <1>7, <1>8 DEF Inv, Core, Simulated, File!Next

\* amd_dbgapi_write_register on a suspended queue.
LEMMA WriteRegisterStep ==
  ASSUME Inv, NEW w \in Waves, NEW R \in Registers, NEW f \in [R -> Values],
         WriteRegister(w, f)
  PROVE  Inv' /\ Simulated
<1>1. /\ call = Idle /\ w \in stopped /\ qState[QueueOf[w]] = "suspended"
      /\ Becomes(Store(State, Update(w, f)))
      /\ UNCHANGED <<qState, where, created, stopped, got, call, todo, hw, alive>>
  BY DEF WriteRegister, Accessible
<1>2. todo = {} /\ call' = Idle
  BY <1>1 DEF Inv, CallHolds, Idle
<1>3. Kept(Store(State, Update(w, f)))
  BY <1>1 DEF Kept
<1> QED
  BY <1>1, <1>2, <1>3, WriteStep

\* amd_dbgapi_write_register, once it has suspended the queue.
LEMMA WriteSuspendedStep ==
  ASSUME Inv, WriteSuspended
  PROVE  Inv' /\ Simulated
<1> DEFINE w == call.wave
           f == call.val
<1>1. /\ call.op = "write" /\ todo = {}
      /\ \/ Resumed(call.queue, Store(State, Update(w, f)))
         \/ Kept(Store(State, Update(w, f)))
      /\ call' = Idle
      /\ UNCHANGED <<where, created, stopped, got, todo, alive>>
  BY DEF WriteSuspended, InCall, EndScope
<1>2. /\ w \in stopped /\ call.queue = QueueOf[w]
      /\ QueueOf[w] \in alive => qState[QueueOf[w]] = "suspended"
      /\ \E R \in Registers : f \in [R -> Values]
  BY <1>1 DEF Inv, CallHolds
<1> HIDE DEF w, f
<1>3. PICK R \in Registers : f \in [R -> Values]
  BY <1>2
<1> QED
  BY <1>1, <1>2, <1>3, WriteStep

\* The calls that suspend a queue first.
LEMMA SuspendingStep ==
  ASSUME Inv, \/ \E q \in Queues : Suspend(q)
              \/ \E w \in Waves, R \in Registers : ReadSuspends(w, R)
              \/ \E w \in Waves, R \in Registers : \E f \in [R -> Values] :
                   WriteSuspends(w, f)
  PROVE  Inv' /\ Simulated
<1>1. ASSUME NEW q \in Queues, Suspend(q)
      PROVE  Inv' /\ Simulated
  <2> DEFINE c == [Idle EXCEPT !.op = "suspend", !.queue = q]
  <2>1. c.op = "suspend" /\ c.queue = q
    BY DEF Idle
  <2>2. call = Idle /\ (SuspendLive(q, c) \/ SuspendGone(q, c))
    BY <1>1 DEF Suspend
  <2> HIDE DEF c
  <2> QED
    BY <2>1, <2>2, SuspendStep
<1>2. ASSUME NEW w \in Waves, NEW R \in Registers, ReadSuspends(w, R)
      PROVE  Inv' /\ Simulated
  <2> DEFINE q == QueueOf[w]
             c == [op |-> "read", queue |-> q, wave |-> w, val |-> R]
  <2>1. c.op = "read" /\ c.queue = q /\ c.wave = w /\ c.val = R
    OBVIOUS
  <2>2. call = Idle /\ w \in stopped /\ (SuspendLive(q, c) \/ SuspendGone(q, c))
    BY <1>2 DEF ReadSuspends, Accessible
  <2>3. q \in Queues
    BY LayoutAssumption
  <2> HIDE DEF c
  <2> QED
    BY <2>1, <2>2, <2>3, SuspendStep
<1>3. ASSUME NEW w \in Waves, NEW R \in Registers, NEW f \in [R -> Values],
             WriteSuspends(w, f)
      PROVE  Inv' /\ Simulated
  <2> DEFINE q == QueueOf[w]
             c == [op |-> "write", queue |-> q, wave |-> w, val |-> f]
  <2>1. c.op = "write" /\ c.queue = q /\ c.wave = w /\ c.val = f
    OBVIOUS
  <2>2. call = Idle /\ w \in stopped /\ (SuspendLive(q, c) \/ SuspendGone(q, c))
    BY <1>3 DEF WriteSuspends, Accessible
  <2>3. q \in Queues
    BY LayoutAssumption
  <2> HIDE DEF c
  <2> QED
    BY <2>1, <2>2, <2>3, SuspendStep
<1> QED
  BY <1>1, <1>2, <1>3

\* The registers do not depend on the call, the stopped waves or the ids.
LEMMA RegDepends ==
  ASSUME UNCHANGED <<mem, cache, dirty, qState, where, hw, alive>>
  PROVE  Reg' = Reg /\ Lost' = Lost
  BY DEF Reg, Lost, View, State

\* suspend_queues returns.
LEMMA SuspendReturnsStep ==
  ASSUME Inv, SuspendReturns
  PROVE  Inv' /\ Simulated
<1>1. /\ todo = {} /\ call' = Idle
      /\ UNCHANGED <<mem, cache, dirty, qState, where, created, stopped, got,
                     todo, hw, alive>>
  BY DEF SuspendReturns, InCall
<1>2. Reg' = Reg /\ Lost' = Lost
  BY <1>1, RegDepends
<1>3. Core'
  BY <1>1 DEF Inv, Core, TypeOK, CacheOK, State, WellPlaced, LiveIsValid, Idle,
     NothingToDiscard, CleanIsMemory, Coherent, StoppedIsCached
<1>4. CallHolds'
  BY <1>1 DEF CallHolds, Idle
<1>5. IdIsKnown'
  BY <1>1, <1>2, IdsKept DEF Inv
<1> QED
  BY <1>1, <1>2, <1>3, <1>4, <1>5 DEF Inv, Core, Simulated, File!fileVars

\* set_state, on a suspended queue.
LEMMA SetStateStep ==
  ASSUME Inv, NEW w \in Waves, StopWave(w) \/ StartWave(w)
  PROVE  Inv' /\ Simulated
<1>1. /\ call = Idle /\ qState[QueueOf[w]] = "suspended"
      /\ stopped' = stopped \cup {w} \/ stopped' = stopped \ {w}
      /\ UNCHANGED <<mem, cache, dirty, qState, where, created, got, call, todo,
                     hw, alive>>
  BY DEF StopWave, StartWave, SetState
<1>2. Reg' = Reg /\ Lost' = Lost
  BY <1>1, RegDepends
<1>3. TypeOK' /\ LiveIsValid' /\ NothingToDiscard' /\ CleanIsMemory'
  BY <1>1 DEF Inv, TypeOK, CacheOK, State, WellPlaced, LiveIsValid,
     NothingToDiscard, CleanIsMemory, Coherent
<1>4. StoppedIsCached'
  <2> SUFFICES ASSUME NEW b \in Bytes, QueueOf[b[1]] \in alive,
                      qState[QueueOf[b[1]]] = "running", b[1] \in stopped',
                      where[b] \in DOMAIN cache
               PROVE  cache[where[b]] = hw[b]
    BY <1>1 DEF StoppedIsCached
  <2>1. b[1] # w
    BY <1>1
  <2> QED
    BY <1>1, <2>1 DEF Inv, StoppedIsCached
<1>5. CallHolds'
  BY <1>1 DEF Inv, CallHolds, Idle
<1>6. IdIsKnown'
  BY <1>1, <1>2, IdsKept DEF Inv
<1>7. File!Stop(w) \/ File!Start(w)
  BY <1>1, <1>2 DEF File!Stop, File!Start
<1> QED
  BY <1>3, <1>4, <1>5, <1>6, <1>7 DEF Inv, Simulated, File!Next

\* process_t::freeze writes everything back.
LEMMA FlushStep ==
  ASSUME Inv, Flush
  PROVE  Inv' /\ Simulated
<1> DEFINE t == WriteBack(State, AllLines)
<1>1. /\ call = Idle /\ \A q \in Queues : qState[q] # "running"
      /\ Becomes(t)
      /\ UNCHANGED <<qState, where, created, stopped, got, call, todo, hw, alive>>
  BY DEF Flush
<1>2. /\ TypeOK /\ LiveIsValid /\ CleanIsMemory /\ CacheOK(State)
      /\ WellPlaced(where)
  BY DEF Inv, TypeOK
<1>3. /\ CacheOK(t)
      /\ \A a \in Address : View(t, a) = View(State, a)
      /\ \A A : Coherent(State, A) => Coherent(t, A)
  BY <1>2, WriteBackInvisible
<1> HIDE DEF t
<1>4. /\ CacheOK(State)'
      /\ \A a : View(State, a)' = View(t, a)
      /\ \A A : Coherent(t, A) => Coherent(State, A)'
  BY <1>1, <1>3, Becoming
<1>5. TypeOK' /\ LiveIsValid'
  BY <1>1, <1>2, <1>4 DEF TypeOK, LiveIsValid, WellPlaced
<1>6. NothingToDiscard' /\ StoppedIsCached'
  BY <1>1, <1>2 DEF NothingToDiscard, StoppedIsCached, TypeOK
<1>7. CleanIsMemory'
  <2> SUFFICES ASSUME NEW q \in alive, qState[q] = "suspended"
               PROVE  Coherent(State, Area(q))'
    BY <1>1 DEF CleanIsMemory
  <2>1. Coherent(State, Area(q))
    BY <1>2 DEF CleanIsMemory
  <2> QED
    BY <1>3, <1>4, <2>1
<1>8. Reg' = Reg
  <2>1. \A b \in Bytes : View(State, where[b])' = View(State, where[b])
    BY <1>1, <1>2, <1>3, <1>4 DEF WellPlaced
  <2> QED
    BY <1>1, <2>1 DEF Reg
<1>9. CallHolds'
  BY <1>1 DEF Inv, CallHolds, Idle
<1>10. IdIsKnown'
  BY <1>1, <1>8, IdsKept DEF Inv
<1>11. UNCHANGED File!fileVars
  BY <1>1, <1>8 DEF File!fileVars, Lost
<1> QED
  BY <1>5, <1>6, <1>7, <1>9, <1>10, <1>11 DEF Inv, Simulated

\* The lines of destroyed queues are not those of a live one.
LEMMA DestroyedElsewhere ==
  ASSUME NEW Q \in SUBSET Queues, NEW p \in Queues \ Q, NEW l \in Area(p)
  PROVE  l \notin DestroyedAreas(Q)
  BY Disjoint DEF DestroyedAreas

\* update_queues destroys the queue_t of queues that no longer exist.
LEMMA UpdateQueuesStep ==
  ASSUME Inv, UpdateQueues
  PROVE  Inv' /\ Simulated
<1> DEFINE Q == {q \in Queues \ alive : qState[q] # "gone"}
           D == DestroyedAreas(Q)
           t == Discard(State, D)
<1>1. /\ call = Idle /\ Becomes(t)
      /\ qState' = [q \in Queues |-> IF q \in Q THEN "gone" ELSE qState[q]]
      /\ stopped' = {w \in stopped : QueueOf[w] \notin Q}
      /\ UNCHANGED <<where, created, got, call, todo, hw, alive>>
  BY DEF UpdateQueues
<1>2. /\ TypeOK /\ LiveIsValid /\ CleanIsMemory /\ CacheOK(State)
      /\ NothingToDiscard /\ StoppedIsCached /\ WellPlaced(where)
      /\ alive \subseteq Queues
  BY DEF Inv, TypeOK
<1>3. \A p \in alive : \A l \in Area(p) : l \notin D
  BY <1>2, DestroyedElsewhere
<1>4. Q \subseteq Queues \ alive
  OBVIOUS
<1> HIDE DEF D
<1>5. /\ CacheOK(t)
      /\ t.mem = State.mem /\ t.dirty = State.dirty \ D
      /\ DOMAIN t.cache = {a \in DOMAIN State.cache :
                             LineOf(a) \notin D}
      /\ \A a \in DOMAIN t.cache : t.cache[a] = State.cache[a]
      /\ \A a \in Address : LineOf(a) \notin D =>
           View(t, a) = View(State, a)
  BY <1>2, DiscardShows
<1> HIDE DEF t, Q
<1>6. /\ CacheOK(State)'
      /\ \A a : View(State, a)' = View(t, a)
      /\ \A A : Coherent(t, A) => Coherent(State, A)'
  BY <1>1, <1>5, Becoming
<1>7. mem' = t.mem /\ cache' = t.cache /\ dirty' = t.dirty
  BY <1>1 DEF Becomes
<1>8. /\ State.mem = mem /\ State.cache = cache /\ State.dirty = dirty
  BY DEF State
<1>9. \A q \in alive : qState'[q] = qState[q]
  BY <1>1, <1>2, <1>4
<1>10. TypeOK'
  BY <1>1, <1>2, <1>6 DEF TypeOK, WellPlaced
<1>11. LiveIsValid' /\ NothingToDiscard'
  BY <1>1, <1>2, <1>5, <1>7, <1>8, <1>9 DEF LiveIsValid, NothingToDiscard
<1>12. CleanIsMemory'
  <2> SUFFICES ASSUME NEW q \in alive, qState[q] = "suspended"
               PROVE  Coherent(State, Area(q))'
    BY <1>1, <1>9 DEF CleanIsMemory
  <2>1. Coherent(State, Area(q))
    BY <1>2 DEF CleanIsMemory
  <2>2. Coherent(t, Area(q))
    BY <1>5, <1>3, <2>1 DEF Coherent
  <2> QED
    BY <1>6, <2>2
<1>13. StoppedIsCached'
  BY <1>1, <1>2, <1>5, <1>7, <1>8, <1>9 DEF StoppedIsCached
<1>14. Reg' = Reg
  <2>1. ASSUME NEW b \in Bytes, QueueOf[b[1]] \in alive
        PROVE  View(State, where[b])' = View(State, where[b])
    BY <1>1, <1>2, <1>5, <1>3, <1>6, <2>1 DEF WellPlaced
  <2> QED
    BY <1>1, <1>9, <2>1 DEF Reg
<1>15. CallHolds'
  BY <1>1 DEF Inv, CallHolds, Idle
<1>16. IdIsKnown'
  BY <1>1, <1>14, IdsKept DEF Inv
<1>17. File!Forget({w \in Waves : QueueOf[w] \in Q})
  <2>1. {w \in Waves : QueueOf[w] \in Q} \subseteq Lost
    BY <1>4 DEF Lost
  <2>2. stopped' = stopped \ {w \in Waves : QueueOf[w] \in Q}
    BY <1>1, <1>2 DEF TypeOK
  <2> QED
    BY <1>1, <1>14, <2>1, <2>2 DEF File!Forget, Lost
<1> QED
  BY <1>10, <1>11, <1>12, <1>13, <1>15, <1>16, <1>17 DEF Inv, Simulated, File!Next

\* A wave that runs computes.
LEMMA HwComputesStep ==
  ASSUME Inv, NEW w \in Waves, NEW i \in Index, NEW v \in Values,
         HwComputes(w, i, v)
  PROVE  Inv' /\ Simulated
<1>1. /\ QueueOf[w] \in alive /\ qState[QueueOf[w]] = "running"
      /\ w \notin stopped /\ i # IdByte
      /\ hw' = [hw EXCEPT ![<<w, i>>] = v]
      /\ UNCHANGED <<mem, cache, dirty, qState, where, created, stopped, got,
                     call, todo, alive>>
  BY DEF HwComputes, libVars
<1>2. <<w, i>> \in Bytes /\ <<w, i>>[1] = w /\ hw \in [Bytes -> Values]
  BY DEF Bytes, Inv, TypeOK
<1>3. TypeOK'
  BY <1>1, <1>2 DEF Inv, TypeOK, CacheOK, State, WellPlaced
<1>4. CallHolds' /\ LiveIsValid' /\ NothingToDiscard' /\ CleanIsMemory'
  BY <1>1 DEF Inv, CallHolds, LiveIsValid, NothingToDiscard, CleanIsMemory,
     Coherent, State
<1>5. StoppedIsCached'
  <2>1. \A b \in Bytes : b[1] \in stopped => hw'[b] = hw[b]
    BY <1>1, <1>2
  <2> QED
    BY <1>1, <2>1 DEF Inv, StoppedIsCached
<1>6. Reg' = [Reg EXCEPT ![<<w, i>>] = v]
  <2>1. View(State, 0)' = View(State, 0) /\ State' = State
    BY <1>1 DEF View, State
  <2>2. ASSUME NEW b \in Bytes
        PROVE  Reg'[b] = IF b = <<w, i>> THEN v ELSE Reg[b]
    BY <1>1, <1>2, <2>1 DEF Reg, View
  <2> QED
    BY <2>2 DEF Reg
<1>7. IdIsKnown'
  <2>1. \A u \in Waves : <<u, IdByte>> # <<w, i>>
    BY <1>1
  <2>2. \A u \in Waves : Reg'[<<u, IdByte>>] = Reg[<<u, IdByte>>]
    BY <1>6, <2>1, ByteAssumption DEF Reg, Bytes
  <2> QED
    BY <1>1, <2>2, IdsKept DEF Inv
<1>8. File!Compute(w, i, v)
  BY <1>1, <1>6 DEF File!Compute, Lost
<1> QED
  BY <1>3, <1>4, <1>5, <1>7, <1>8 DEF Inv, Simulated, File!Next

\* The scheduler saves and restores a queue that runs.
LEMMA HwPreemptsStep ==
  ASSUME Inv, NEW q \in Queues, HwPreempts(q)
  PROVE  Inv' /\ Simulated
<1>1. /\ q \in alive /\ qState[q] = "running"
      /\ UNCHANGED <<cache, dirty, qState, where, created, stopped, got, call,
                     todo, hw, alive>>
  BY DEF HwPreempts, libVars
<1>2. /\ mem' \in [Address -> Values]
      /\ \A a \in Address : LineOf(a) \notin Area(q) => mem'[a] = mem[a]
  <2>1. PICK L \in Layouts : mem' = Saved(q, L)
    BY DEF HwPreempts
  <2> QED
    BY <2>1, SavedType, SavedElsewhere DEF Inv
<1>3. TypeOK'
  BY <1>1, <1>2 DEF Inv, TypeOK, CacheOK, State, WellPlaced
<1>4. CallHolds' /\ LiveIsValid' /\ NothingToDiscard' /\ StoppedIsCached'
  BY <1>1 DEF Inv, CallHolds, LiveIsValid, NothingToDiscard, StoppedIsCached
<1>5. CleanIsMemory'
  <2> SUFFICES ASSUME NEW p \in alive, qState[p] = "suspended",
                      NEW a \in DOMAIN cache, LineOf(a) \in Area(p),
                      LineOf(a) \notin dirty
               PROVE  cache[a] = mem'[a]
    BY <1>1 DEF CleanIsMemory, Coherent, State
  <2>1. cache[a] = mem[a] /\ a \in Address /\ p \in Queues /\ p # q
    BY <1>1 DEF Inv, TypeOK, CacheOK, CleanIsMemory, Coherent, State
  <2>2. LineOf(a) \notin Area(q)
    BY <2>1, Disjoint
  <2> QED
    BY <1>2, <2>1, <2>2
<1>6. Reg' = Reg /\ Lost' = Lost
  <2>1. ASSUME NEW b \in Bytes, QueueOf[b[1]] # q
        PROVE  View(State, where[b])' = View(State, where[b])
    <3>1. where[b] \in Address /\ LineOf(where[b]) \notin Area(q)
      BY <2>1, PlacedElsewhere DEF Inv, TypeOK
    <3> QED
      BY <1>1, <1>2, <3>1 DEF View, State
  <2> QED
    BY <1>1, <2>1 DEF Reg, Lost
<1>7. IdIsKnown'
  BY <1>1, <1>6, IdsKept DEF Inv
<1> QED
  BY <1>1, <1>3, <1>4, <1>5, <1>6, <1>7 DEF Inv, Simulated, File!fileVars

\* The inferior destroys a queue.
LEMMA OsDestroyQueueStep ==
  ASSUME Inv, NEW q \in Queues, OsDestroyQueue(q)
  PROVE  Inv' /\ Simulated
<1>1. /\ q \in alive /\ alive' = alive \ {q} /\ hw' = OffHardware(q)
      /\ UNCHANGED <<mem, cache, dirty, qState, where, created, stopped, got,
                     call, todo>>
  BY DEF OsDestroyQueue, libVars
<1>2. /\ \A b \in Bytes : QueueOf[b[1]] # q => hw'[b] = hw[b]
      /\ hw' \in [Bytes -> Values]
  BY <1>1, ByteAssumption DEF OffHardware, BytesOf, Inv, TypeOK
<1>3. TypeOK'
  BY <1>1, <1>2 DEF Inv, TypeOK, CacheOK, State, WellPlaced
<1>4. CallHolds' /\ LiveIsValid' /\ NothingToDiscard' /\ CleanIsMemory'
  BY <1>1 DEF Inv, CallHolds, LiveIsValid, NothingToDiscard, CleanIsMemory,
     Coherent, State
<1>5. StoppedIsCached'
  BY <1>1, <1>2 DEF Inv, StoppedIsCached
<1>6. Reg' = [b \in Bytes |-> IF b[1] \in WavesOf(q) THEN NoValue ELSE Reg[b]]
  <2>1. State' = State
    BY <1>1 DEF State
  <2>2. \A b \in Bytes : b[1] \in WavesOf(q) <=> QueueOf[b[1]] = q
    BY DEF Bytes, WavesOf
  <2>3. ASSUME NEW b \in Bytes
        PROVE  Reg'[b] = IF b[1] \in WavesOf(q) THEN NoValue ELSE Reg[b]
    BY <1>1, <1>2, <2>1, <2>2 DEF Reg, View
  <2> QED
    BY <2>3 DEF Reg
<1>7. IdIsKnown'
  <2>1. \A u \in Waves : /\ <<u, IdByte>> \in Bytes
                         /\ QueueOf[u] \in alive' => <<u, IdByte>>[1] \notin WavesOf(q)
    BY <1>1, ByteAssumption DEF Bytes, WavesOf
  <2>2. \A u \in Waves : QueueOf[u] \in alive' =>
          Reg'[<<u, IdByte>>] = Reg[<<u, IdByte>>]
    BY <1>6, <2>1
  <2> QED
    BY <1>1, <2>2, IdsKept DEF Inv
<1>8. File!Lose(WavesOf(q))
  <2>1. Lost' = Lost \cup WavesOf(q)
    BY <1>1 DEF Lost, WavesOf
  <2> QED
    BY <1>1, <1>6, <2>1 DEF File!Lose, File!Bytes, Bytes
<1>9. WavesOf(q) \in SUBSET Waves
  BY DEF WavesOf
<1> QED
  BY <1>3, <1>4, <1>5, <1>7, <1>8, <1>9 DEF Inv, Simulated, File!Next

\* The inferior uses the save area of a destroyed queue for something else.
LEMMA InferiorReusesStep ==
  ASSUME Inv, NEW q \in Queues, NEW v \in Values, InferiorReuses(q, v)
  PROVE  Inv' /\ Simulated
<1>1. /\ q \notin alive
      /\ mem' = [a \in Address |-> IF LineOf(a) \in Area(q) THEN v ELSE mem[a]]
      /\ UNCHANGED <<cache, dirty, qState, where, created, stopped, got, call,
                     todo, hw, alive>>
  BY DEF InferiorReuses, libVars
<1>2. TypeOK'
  BY <1>1 DEF Inv, TypeOK, CacheOK, State, WellPlaced
<1>3. CallHolds' /\ LiveIsValid' /\ NothingToDiscard' /\ StoppedIsCached'
  BY <1>1 DEF Inv, CallHolds, LiveIsValid, NothingToDiscard, StoppedIsCached
<1>4. CleanIsMemory'
  <2> SUFFICES ASSUME NEW p \in alive, qState[p] = "suspended",
                      NEW a \in DOMAIN cache, LineOf(a) \in Area(p),
                      LineOf(a) \notin dirty
               PROVE  cache[a] = mem'[a]
    BY <1>1 DEF CleanIsMemory, Coherent, State
  <2>1. cache[a] = mem[a] /\ a \in Address /\ p \in Queues
    BY DEF Inv, TypeOK, CacheOK, CleanIsMemory, Coherent, State
  <2>2. LineOf(a) \notin Area(q)
    BY <1>1, <2>1, Disjoint
  <2> QED
    BY <1>1, <2>1, <2>2
<1>5. Reg' = Reg /\ Lost' = Lost
  <2>1. ASSUME NEW b \in Bytes, QueueOf[b[1]] \in alive
        PROVE  View(State, where[b])' = View(State, where[b])
    <3>1. where[b] \in Address /\ LineOf(where[b]) \notin Area(q)
      BY <1>1, <2>1, PlacedElsewhere DEF Inv, TypeOK
    <3> QED
      BY <1>1, <3>1 DEF View, State
  <2> QED
    BY <1>1, <2>1 DEF Reg, Lost
<1>6. IdIsKnown'
  BY <1>1, <1>5, IdsKept DEF Inv
<1> QED
  BY <1>1, <1>2, <1>3, <1>4, <1>5, <1>6 DEF Inv, Simulated, File!fileVars

(***************************************************************************)
(* The theorems                                                            *)
(***************************************************************************)

\* The invariant holds at the start, in an initial state of the register file.
LEMMA InitHolds ==
  ASSUME Init
  PROVE  Inv /\ File!Init
<1>1. /\ mem \in [Address -> {Undefined}] /\ DOMAIN cache = {} /\ dirty = {}
      /\ qState = [q \in Queues |-> "running"] /\ where \in Layouts
      /\ created = [w \in Waves |-> 0] /\ stopped = {} /\ got = NoValue
      /\ call = Idle /\ todo = {} /\ hw = [b \in Bytes |-> Undefined]
      /\ alive = Queues
  BY DEF Init
<1>2. TypeOK
  BY <1>1, LayoutAssumption, ByteAssumption DEF TypeOK, CacheOK, State, Idle
<1>3. CallHolds /\ LiveIsValid /\ NothingToDiscard /\ CleanIsMemory /\ StoppedIsCached
  BY <1>1 DEF CallHolds, Idle, LiveIsValid, NothingToDiscard, CleanIsMemory,
     Coherent, State, StoppedIsCached
<1>4. Reg = [b \in Bytes |-> Undefined] /\ Lost = {}
  BY <1>1, LayoutAssumption DEF Reg, Lost, Bytes
<1>5. IdIsKnown
  BY <1>1 DEF IdIsKnown
<1>6. File!Init
  BY <1>1, <1>4, ByteAssumption DEF File!Init, File!Bytes, Bytes
<1> QED
  BY <1>2, <1>3, <1>5, <1>6 DEF Inv

\* Every step preserves the invariant and is a step of the register file, or
\* one that it does not see.
LEMMA StepHolds ==
  ASSUME Inv, [Next]_vars
  PROVE  Inv' /\ Simulated
<1>1. CASE UNCHANGED vars
  <2>1. /\ UNCHANGED <<mem, cache, dirty, qState, where, created, stopped, got,
                       call, todo, hw, alive>>
    BY <1>1 DEF vars, libVars
  <2>2. Reg' = Reg /\ Lost' = Lost
    BY <2>1, RegDepends
  <2>3. TypeOK' /\ CallHolds' /\ LiveIsValid' /\ NothingToDiscard'
    BY <2>1 DEF Inv, TypeOK, CacheOK, State, WellPlaced, CallHolds, LiveIsValid,
       NothingToDiscard
  <2>4. CleanIsMemory' /\ StoppedIsCached' /\ IdIsKnown'
    BY <2>1, <2>2 DEF Inv, CleanIsMemory, Coherent, State, StoppedIsCached,
       IdIsKnown
  <2> QED
    BY <2>1, <2>2, <2>3, <2>4 DEF Inv, Simulated, File!fileVars
<1>2. CASE LibraryStep
  <2>1. CASE \E q \in Queues : Resume(q)
    BY <2>1, ResumeStep
  <2>2. CASE \E w \in Waves : UpdateWave(w)
    BY <2>2, UpdateWaveStep
  <2>3. CASE \E w \in Waves : StopWave(w) \/ StartWave(w)
    BY <2>3, SetStateStep
  <2>4. CASE SuspendReturns \/ Flush \/ UpdateQueues
    BY <2>4, SuspendReturnsStep, FlushStep, UpdateQueuesStep
  <2>5. CASE \E w \in Waves, R \in Registers : ReadRegister(w, R)
    BY <2>5, ReadRegisterStep
  <2>6. CASE \E w \in Waves, R \in Registers : \E f \in [R -> Values] :
               WriteRegister(w, f)
    BY <2>6, WriteRegisterStep
  <2>7. CASE ReadSuspended \/ WriteSuspended
    BY <2>7, ReadSuspendedStep, WriteSuspendedStep
  <2>8. CASE \/ \E q \in Queues : Suspend(q)
             \/ \E w \in Waves, R \in Registers : ReadSuspends(w, R)
             \/ \E w \in Waves, R \in Registers : \E f \in [R -> Values] :
                  WriteSuspends(w, f)
    BY <2>8, SuspendingStep
  <2> QED
    BY <1>2, <2>1, <2>2, <2>3, <2>4, <2>5, <2>6, <2>7, <2>8 DEF LibraryStep
<1>3. CASE EnvironmentStep
  BY <1>3, HwComputesStep, HwPreemptsStep, OsDestroyQueueStep,
     InferiorReusesStep
     DEF EnvironmentStep
<1> QED
  BY <1>1, <1>2, <1>3 DEF Next

\* The registers the client reads and writes through the cache, the save areas
\* and the context saves behave as one register file per wave, for any number
\* of queues and waves and any layout of the save areas.
THEOREM CacheInvisible == Spec => RegistersKept
<1>1. Init => Inv /\ File!Init
  BY InitHolds
<1>2. Inv /\ [Next]_vars => Inv' /\ [File!Next]_(File!fileVars)
  BY StepHolds DEF Simulated
<1> QED
  BY <1>1, <1>2, PTL DEF Spec, RegistersKept, File!Spec

\* memory_cache_t::discard never drops an update of a queue that exists.
THEOREM NoUpdateDropped == Spec => []NothingToDiscard
<1>1. Init => Inv
  BY InitHolds
<1>2. Inv /\ [Next]_vars => Inv'
  BY StepHolds
<1>3. Inv => NothingToDiscard
  BY DEF Inv
<1> QED
  BY <1>1, <1>2, <1>3, PTL DEF Spec

\* update_waves creates one wave_t for a wave, however often its queue is
\* suspended and wherever it is saved; the variables keep their types.
THEOREM OneWaveObject == Spec => [](TypeOK /\ CreatedOnce)
<1>1. Init => Inv
  BY InitHolds
<1>2. Inv /\ [Next]_vars => Inv'
  BY StepHolds
<1>3. Inv => TypeOK /\ CreatedOnce
  BY DEF Inv, IdIsKnown, CreatedOnce
<1> QED
  BY <1>1, <1>2, <1>3, PTL DEF Spec

===============================================================================
