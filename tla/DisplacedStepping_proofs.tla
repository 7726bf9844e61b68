----------------------- MODULE DisplacedStepping_proofs -----------------------
(***************************************************************************)
(* Proofs about DisplacedStepping, for any program, any queues and waves   *)
(* and any size of the memory for the debugger: its accounting, what the   *)
(* waves find in it, how much of it is enough, and that DisplacedStepping  *)
(* implements InlineStepping.                                              *)
(***************************************************************************)
EXTENDS DisplacedStepping, SequenceTheorems, FiniteSetTheorems, TLAPS

-----------------------------------------------------------------------------
(* The inductive invariant.                                                *)

\* Who may have chunk c of queue q: the free list, an object, or the instruction
\* at p (m_park_instruction_ptr, m_terminating_instruction_ptr).
InList(list, c) == \E k \in DOMAIN list : list[k] = c
Buffers(q, objects, c) ==
  {i \in Ids : /\ objects[i] # NoObject
               /\ objects[i].queue = q /\ objects[i].to # NoAddress
               /\ ChunkOf(q, objects[i].to) = c}
IsAt(q, p, c) == p # NoAddress /\ ChunkOf(q, p) = c

\* No chunk is held twice, and the chunks held are the first n.
Accounts(q, list, objects, n, parkAt, termAt) ==
  /\ \A k, l \in DOMAIN list : list[k] = list[l] => k = l
  /\ \A c \in Chunks :
       /\ \A i, j \in Buffers(q, objects, c) : i = j
       /\ InList(list, c) => /\ Buffers(q, objects, c) = {}
                             /\ ~IsAt(q, parkAt, c) /\ ~IsAt(q, termAt, c)
       /\ IsAt(q, parkAt, c) => Buffers(q, objects, c) = {} /\ ~IsAt(q, termAt, c)
       /\ IsAt(q, termAt, c) => Buffers(q, objects, c) = {}
       /\ c < n <=> \/ InList(list, c) \/ Buffers(q, objects, c) # {}
                    \/ IsAt(q, parkAt, c) \/ IsAt(q, termAt, c)

\* The guard of a chunk, and where an instruction that it holds begins.
GuardOf(q, c) == ChunkAt(q, c) + ChunkSize - AssertSize
StartOf(q, c, size) == ChunkAt(q, c) + ChunkSize - AssertSize - size

\* An instruction of the given size is at the end of one of the first n chunks.
Placed(q, n, p, size) ==
  \E c \in Chunks : c < n /\ p = StartOf(q, c, size)

\* The chunks of every queue, and where its two instructions are.
PoolInv ==
  \A q \in Queues :
    /\ Accounts(q, free[q], obj, next[q], park[q], term[q])
    /\ park[q] # NoAddress => Placed(q, next[q], park[q], 1)
    /\ term[q] # NoAddress => Placed(q, next[q], term[q], 1)

\* The objects: those that have waves, and are counted by them.
ObjInv ==
  /\ \A i \in Live :
       /\ obj[i].refs >= 1 /\ obj[i].refs = Cardinality(Users(i))
       /\ \A w \in Users(i) : QueueOf[w] = obj[i].queue
       /\ obj[i].to = NoAddress => CanSimulate(obj[i].from)
       /\ obj[i].to # NoAddress => /\ CanExecuteDisplaced(obj[i].from)
                                   /\ Placed(obj[i].queue, next[obj[i].queue], obj[i].to,
                                             Size[obj[i].from])
  /\ \A i, j \in Live :
       obj[i].queue = obj[j].queue /\ obj[i].from = obj[j].from => i = j

\* What the memory of an existing queue holds.
MemInv ==
  \A q \in Queues : qState[q] = "alive" =>
    /\ \A c \in Chunks : c < next[q] => mem[GuardOf(q, c)] = AssertWord
    /\ \A i \in Live : obj[i].queue = q /\ obj[i].to # NoAddress =>
         \A k \in 0 .. Size[obj[i].from] - 1 : mem[obj[i].to + k] = obj[i].from + k
    /\ park[q] # NoAddress => mem[park[q]] = AssertWord
    /\ term[q] # NoAddress => mem[term[q]] = EndWord

\* Where a displaced wave is: in its buffer, or where it was simulated to.
DisplacedAt(w) ==
  /\ ds[w] \in Live /\ state[w] \in {"stop", "step"}
  /\ obj[ds[w]].to # NoAddress =>
       PC(w) \in {obj[ds[w]].to, obj[ds[w]].to + Size[obj[ds[w]].from]}
  /\ obj[ds[w]].to = NoAddress => state[w] = "stop" /\ PC(w) \in Code

\* Where each wave is.
WaveAt(w) ==
  /\ state[w] = "absent" => /\ w \notin hidden /\ w \notin parked /\ ds[w] = NoId
                            /\ pc[w] = NoAddress /\ done[w] = NoAddress
  /\ w \in hidden => /\ state[w] = "run" /\ ds[w] = NoId /\ done[w] = NoAddress
                     /\ attached => term[QueueOf[w]] # NoAddress /\ pc[w] = term[QueueOf[w]]
                     /\ qState[QueueOf[w]] = "alive" => pc[w] \in Pools /\ mem[pc[w]] = EndWord
  /\ w \in parked => /\ state[w] = "stop" /\ ParkStopped
                     /\ attached => park[QueueOf[w]] # NoAddress /\ pc[w] = park[QueueOf[w]]
                     /\ qState[QueueOf[w]] = "alive" => pc[w] \in Pools /\ mem[pc[w]] = AssertWord
  /\ qState[QueueOf[w]] = "gone" => state[w] = "absent"
  /\ ~attached => state[w] # "step"
  /\ Displaced(w) => DisplacedAt(w)
  /\ state[w] # "absent" /\ w \notin hidden /\ ~Displaced(w) => PC(w) \in Code

\* A terminating instruction is there because a wave was sent to it.
TermUsed ==
  \A q \in Queues : term[q] # NoAddress =>
    \E w \in WavesOf(q) : w \in hidden \/ state[w] = "absent"

\* The inductive invariant.
DInv ==
  /\ TypeOK
  /\ PoolInv
  /\ ObjInv
  /\ MemInv
  /\ \A w \in Waves : WaveAt(w)
  /\ TermUsed

-----------------------------------------------------------------------------
(* The memory for the debugger.                                            *)

\* The words of chunk c of queue q.
WordsOf(q, c) == ChunkAt(q, c) .. ChunkAt(q, c) + ChunkSize - 1

\* Where the words of a chunk are, and that the deleter finds the chunk again.
LEMMA Geometry ==
  ASSUME NEW q \in Queues, NEW c \in Chunks, NEW k \in 0 .. ChunkSize - 1
  PROVE  /\ ChunkAt(q, c) \in Nat /\ ChunkAt(q, c) + k \in Nat
         /\ ChunkAt(q, c) + k \in Pool(q) /\ ChunkAt(q, c) + k \in Pools
         /\ ChunkOf(q, ChunkAt(q, c) + k) = c
<1>1. MemBase[q] \in Nat /\ ChunkCount \in Nat /\ c \in Nat /\ c <= ChunkCount - 1
  BY PoolAssumption DEF Chunks
<1>2. ChunkAt(q, c) \in Nat /\ ChunkAt(q, c) + k \in Nat
  BY <1>1 DEF ChunkAt, ChunkSize
<1>3. ChunkAt(q, c) + k \in Pool(q)
  BY <1>1, <1>2 DEF ChunkAt, ChunkSize, Pool
<1>4. ChunkAt(q, c) + k \in Pools
  BY <1>3 DEF Pools
<1>5. ChunkOf(q, ChunkAt(q, c) + k) = c
  BY <1>1 DEF ChunkAt, ChunkSize, ChunkOf
<1> QED BY <1>2, <1>3, <1>4, <1>5

\* A word belongs to one place of one chunk of one queue.
LEMMA Apart ==
  ASSUME NEW p \in Queues, NEW q \in Queues, NEW c \in Chunks, NEW d \in Chunks,
         NEW j \in 0 .. ChunkSize - 1, NEW k \in 0 .. ChunkSize - 1,
         ChunkAt(p, c) + j = ChunkAt(q, d) + k
  PROVE  p = q /\ c = d /\ j = k
<1>1. p = q
  BY Geometry, PoolAssumption
<1>2. c = d
  BY <1>1, Geometry
<1>3. j = k
  BY <1>1, <1>2, Geometry
<1> QED BY <1>1, <1>2, <1>3

\* The program is not in the memory for the debugger.
LEMMA CodeApart ==
  /\ \A a \in Code : a \in Nat /\ a \notin Pools /\ Size[a] \in 1 .. LargestSize
  /\ AssertWord \notin Code /\ EndWord \notin Code /\ NoAddress \notin Code
  /\ AssertWord # EndWord
<1>1. ASSUME NEW a \in Code PROVE a \in Nat /\ a \notin Pools /\ Size[a] \in 1 .. LargestSize
  <2>1. a \in Nat /\ Size[a] \in 1 .. LargestSize
    BY CodeAssumption
  <2>2. 0 \in 0 .. Size[a] - 1 /\ a + 0 = a
    BY <2>1 DEF LargestSize
  <2>3. a + 0 \notin Pools
    BY <2>2, CodeAssumption
  <2> QED BY <2>1, <2>2, <2>3
<1> QED BY <1>1, CodeAssumption DEF AssertWord, EndWord, NoAddress

\* The words of an instruction that is placed.
LEMMA PlacedWords ==
  ASSUME NEW q \in Queues, NEW n \in Nat, NEW p, NEW size \in 1 .. LargestSize,
         Placed(q, n, p, size)
  PROVE  /\ p \in Nat /\ p # NoAddress /\ ChunkOf(q, p) \in Chunks /\ ChunkOf(q, p) < n
         /\ p + size = GuardOf(q, ChunkOf(q, p))
         /\ \A k \in 0 .. size : /\ p + k \in WordsOf(q, ChunkOf(q, p))
                                 /\ p + k \in Pools /\ p + k \in Nat
<1>1. PICK c \in Chunks : c < n /\ p = ChunkAt(q, c) + ChunkSize - AssertSize - size
  BY DEF Placed, StartOf
<1> DEFINE off == ChunkSize - AssertSize - size
<1>2. off \in 0 .. ChunkSize - 1 /\ \A k \in 0 .. size : off + k \in 0 .. ChunkSize - 1
  BY DEF ChunkSize, AssertSize, LargestSize
<1>3. ChunkAt(q, c) \in Nat
  BY <1>2, Geometry
<1>4. p = ChunkAt(q, c) + off
  BY <1>1, <1>3 DEF ChunkSize, AssertSize, LargestSize
<1>5. p \in Nat /\ ChunkOf(q, p) = c
  BY <1>2, <1>4, Geometry
<1>6. ASSUME NEW k \in 0 .. size
      PROVE  p + k \in WordsOf(q, c) /\ p + k \in Pools /\ p + k \in Nat
  <2>1. p + k = ChunkAt(q, c) + (off + k) /\ off + k \in 0 .. ChunkSize - 1
    BY <1>2, <1>3, <1>4 DEF ChunkSize, AssertSize, LargestSize
  <2>2. ChunkAt(q, c) + (off + k) \in Pools /\ ChunkAt(q, c) + (off + k) \in Nat
    BY <2>1, Geometry
  <2>3. ChunkAt(q, c) + (off + k) \in WordsOf(q, c)
    BY <1>3, <2>1 DEF WordsOf, ChunkSize
  <2> QED BY <2>1, <2>2, <2>3
<1>7. p + size = ChunkAt(q, c) + ChunkSize - AssertSize
  BY <1>1, <1>3 DEF ChunkSize, AssertSize, LargestSize
<1> QED BY <1>1, <1>5, <1>6, <1>7 DEF NoAddress, GuardOf

\* Different chunks have no word in common.
LEMMA WordsApart ==
  ASSUME NEW p \in Queues, NEW q \in Queues, NEW c \in Chunks, NEW d \in Chunks,
         NEW a \in WordsOf(p, c), a \in WordsOf(q, d)
  PROVE  p = q /\ c = d
<1> DEFINE j == a - ChunkAt(p, c)
           k == a - ChunkAt(q, d)
<1>1. ChunkAt(p, c) \in Nat /\ ChunkAt(q, d) \in Nat
  <2>1. 0 \in 0 .. ChunkSize - 1
    BY DEF ChunkSize
  <2> QED BY <2>1, Geometry
<1>2. j \in 0 .. ChunkSize - 1 /\ k \in 0 .. ChunkSize - 1 /\ a = ChunkAt(p, c) + j
      /\ a = ChunkAt(q, d) + k
  BY <1>1 DEF WordsOf, ChunkSize
<1> QED BY <1>2, Apart

-----------------------------------------------------------------------------
(* The chunks of a queue.                                                  *)

\* A chunk is taken from the end of the free list.
LEMMA Popped ==
  ASSUME NEW list \in Seq(Chunks), list # <<>>,
         \A k, l \in DOMAIN list : list[k] = list[l] => k = l
  PROVE  LET rest == SubSeq(list, 1, Len(list) - 1) IN
         /\ list[Len(list)] \in Chunks /\ InList(list, list[Len(list)])
         /\ rest \in Seq(Chunks)
         /\ \A k, l \in DOMAIN rest : rest[k] = rest[l] => k = l
         /\ \A c \in Chunks : InList(rest, c) <=> InList(list, c) /\ c # list[Len(list)]
<1> DEFINE n == Len(list)
           rest == SubSeq(list, 1, n - 1)
<1>1. n \in Nat /\ n # 0 /\ DOMAIN list = 1 .. n
  BY EmptySeq, LenProperties
<1>2. rest \in Seq(Chunks) /\ Len(rest) = n - 1 /\ DOMAIN rest = 1 .. n - 1
      /\ \A k \in 1 .. n - 1 : rest[k] = list[k]
  BY <1>1, SubSeqProperties
<1>3. n \in DOMAIN list /\ list[n] \in Chunks
  BY <1>1, ElementOfSeq
<1>4. ASSUME NEW c \in Chunks
      PROVE  InList(rest, c) <=> InList(list, c) /\ c # list[n]
  <2> HIDE DEF rest
  <2>1. ASSUME NEW k \in DOMAIN rest, rest[k] = c PROVE InList(list, c) /\ c # list[n]
    <3>1. k \in DOMAIN list /\ list[k] = c /\ k # n
      BY <1>1, <1>2, <2>1
    <3> QED BY <1>3, <3>1 DEF InList
  <2>2. ASSUME NEW k \in DOMAIN list, list[k] = c, c # list[n] PROVE InList(rest, c)
    <3>1. k \in 1 .. n - 1
      BY <1>1, <2>2
    <3> QED BY <1>2, <2>2, <3>1 DEF InList
  <2> QED BY <2>1, <2>2 DEF InList
<1>5. \A k, l \in DOMAIN rest : rest[k] = rest[l] => k = l
  BY <1>1, <1>2
<1> QED BY <1>2, <1>3, <1>4, <1>5 DEF InList

\* The deleter puts a chunk at the end of the free list.
LEMMA Pushed ==
  ASSUME NEW list \in Seq(Chunks), NEW d \in Chunks, ~InList(list, d),
         \A k, l \in DOMAIN list : list[k] = list[l] => k = l
  PROVE  LET more == Append(list, d) IN
         /\ more \in Seq(Chunks)
         /\ \A k, l \in DOMAIN more : more[k] = more[l] => k = l
         /\ \A c \in Chunks : InList(more, c) <=> InList(list, c) \/ c = d
<1> DEFINE n == Len(list)
           more == Append(list, d)
<1>1. n \in Nat /\ DOMAIN list = 1 .. n
  BY LenProperties
<1>2. more \in Seq(Chunks) /\ DOMAIN more = 1 .. n + 1 /\ more[n + 1] = d
      /\ \A k \in 1 .. n : more[k] = list[k]
  BY <1>1, AppendProperties
<1>3. \A k, l \in DOMAIN more : more[k] = more[l] => k = l
  BY <1>1, <1>2 DEF InList
<1>4. \A c \in Chunks : InList(more, c) <=> InList(list, c) \/ c = d
  BY <1>1, <1>2 DEF InList
<1> QED BY <1>2, <1>3, <1>4

\* The free list and the count of chunks after Allocate.
ListAfter(list) == IF list # <<>> THEN SubSeq(list, 1, Len(list) - 1) ELSE list
CountAfter(list, n) == IF list # <<>> THEN n ELSE n + 1

\* The chunk that Allocate takes has no holder, and leaves the free list.
LEMMA Taken ==
  ASSUME NEW q \in Queues, NEW list \in Seq(Chunks), NEW objects, NEW parkAt, NEW termAt,
         next[q] \in 0 .. ChunkCount,
         Accounts(q, list, objects, next[q], parkAt, termAt), CanAllocate(q, list)
  PROVE  LET c0 == Chunk(q, list) IN
         /\ c0 \in Chunks
         /\ Buffers(q, objects, c0) = {} /\ ~IsAt(q, parkAt, c0) /\ ~IsAt(q, termAt, c0)
         /\ list # <<>> => c0 < next[q]
         /\ CountAfter(list, next[q]) \in 0 .. ChunkCount
         /\ ListAfter(list) \in Seq(Chunks)
         /\ \A k, l \in DOMAIN ListAfter(list) : ListAfter(list)[k] = ListAfter(list)[l] => k = l
         /\ \A c \in Chunks : /\ InList(ListAfter(list), c) <=> InList(list, c) /\ c # c0
                              /\ c < CountAfter(list, next[q]) <=> c < next[q] \/ c = c0
<1>1. ChunkCount \in Nat /\ \A c \in Chunks : c \in Nat /\ c < ChunkCount
  BY PoolAssumption DEF Chunks
<1>2. CASE list # <<>>
  <2>1. Chunk(q, list) = list[Len(list)]
        /\ ListAfter(list) = SubSeq(list, 1, Len(list) - 1) /\ CountAfter(list, next[q]) = next[q]
    BY <1>2 DEF Chunk, ListAfter, CountAfter
  <2>2. \A k, l \in DOMAIN list : list[k] = list[l] => k = l
    BY DEF Accounts
  <2>3. /\ list[Len(list)] \in Chunks /\ InList(list, list[Len(list)])
        /\ ListAfter(list) \in Seq(Chunks)
        /\ \A k, l \in DOMAIN ListAfter(list) : ListAfter(list)[k] = ListAfter(list)[l] => k = l
        /\ \A c \in Chunks : InList(ListAfter(list), c) <=> InList(list, c) /\ c # list[Len(list)]
    BY <1>2, <2>1, <2>2, Popped
  <2> HIDE DEF Chunks
  <2>4. list[Len(list)] < next[q] /\ Buffers(q, objects, list[Len(list)]) = {}
        /\ ~IsAt(q, parkAt, list[Len(list)]) /\ ~IsAt(q, termAt, list[Len(list)])
    BY <2>3 DEF Accounts
  <2> QED BY <2>1, <2>3, <2>4
<1>3. CASE list = <<>>
  <2>1. Chunk(q, list) = next[q] /\ ListAfter(list) = list
        /\ CountAfter(list, next[q]) = next[q] + 1
    BY <1>3 DEF Chunk, ListAfter, CountAfter
  <2>2. next[q] \in Chunks /\ next[q] < ChunkCount
    BY <1>1, <1>3 DEF CanAllocate, Chunks
  <2>3. DOMAIN list = {} /\ \A c : ~InList(list, c)
    BY <1>3 DEF InList
  <2>4. ~(next[q] < next[q])
    BY <1>1, <2>2
  <2>5. Buffers(q, objects, next[q]) = {}
        /\ ~IsAt(q, parkAt, next[q]) /\ ~IsAt(q, termAt, next[q])
    BY <2>2, <2>4 DEF Accounts
  <2>6. \A c \in Chunks : c < next[q] + 1 <=> c < next[q] \/ c = next[q]
    BY <1>1, <2>2
  <2>7. next[q] + 1 \in 0 .. ChunkCount
    BY <1>1, <2>2
  <2>8. list # <<>> => next[q] < next[q]
    BY <1>3
  <2>9. \A c \in Chunks : InList(list, c) <=> InList(list, c) /\ c # next[q]
    BY <2>3
  <2>10. \A k, l \in DOMAIN list : list[k] = list[l] => k = l
    BY <2>3
  <2> QED BY <2>1, <2>2, <2>5, <2>6, <2>7, <2>8, <2>9, <2>10
<1> QED BY <1>2, <1>3

\* The chunk is for the instruction that stopped waves are parked at.
LEMMA TakenToPark ==
  ASSUME NEW q \in Queues, NEW list \in Seq(Chunks), NEW objects, NEW termAt, NEW p,
         next[q] \in 0 .. ChunkCount,
         Accounts(q, list, objects, next[q], NoAddress, termAt), CanAllocate(q, list),
         IsAt(q, p, Chunk(q, list))
  PROVE  Accounts(q, ListAfter(list), objects, CountAfter(list, next[q]), p, termAt)
<1> DEFINE c0 == Chunk(q, list)
<1>1. \A c \in Chunks : IsAt(q, p, c) <=> c = c0
  BY DEF IsAt
<1>2. \A c : ~IsAt(q, NoAddress, c)
  BY DEF IsAt
<1>3. /\ c0 \in Chunks
      /\ Buffers(q, objects, c0) = {} /\ ~IsAt(q, termAt, c0)
      /\ \A k, l \in DOMAIN ListAfter(list) : ListAfter(list)[k] = ListAfter(list)[l] => k = l
      /\ \A c \in Chunks : /\ InList(ListAfter(list), c) <=> InList(list, c) /\ c # c0
                           /\ c < CountAfter(list, next[q]) <=> c < next[q] \/ c = c0
  BY Taken
<1> HIDE DEF c0
<1>4. ASSUME NEW c \in Chunks
      PROVE  /\ \A i, j \in Buffers(q, objects, c) : i = j
             /\ InList(ListAfter(list), c) => /\ Buffers(q, objects, c) = {}
                                             /\ ~IsAt(q, p, c) /\ ~IsAt(q, termAt, c)
             /\ IsAt(q, p, c) => Buffers(q, objects, c) = {} /\ ~IsAt(q, termAt, c)
             /\ IsAt(q, termAt, c) => Buffers(q, objects, c) = {} /\ ~IsAt(q, p, c)
             /\ c < CountAfter(list, next[q])
                  <=> \/ InList(ListAfter(list), c) \/ Buffers(q, objects, c) # {}
                      \/ IsAt(q, p, c) \/ IsAt(q, termAt, c)
  BY <1>1, <1>2, <1>3 DEF Accounts
<1> QED BY <1>3, <1>4 DEF Accounts

\* The chunk is for the instruction that ends waves.
LEMMA TakenToEnd ==
  ASSUME NEW q \in Queues, NEW list \in Seq(Chunks), NEW objects, NEW parkAt, NEW p,
         next[q] \in 0 .. ChunkCount,
         Accounts(q, list, objects, next[q], parkAt, NoAddress), CanAllocate(q, list),
         IsAt(q, p, Chunk(q, list))
  PROVE  Accounts(q, ListAfter(list), objects, CountAfter(list, next[q]), parkAt, p)
<1> DEFINE c0 == Chunk(q, list)
<1>1. \A c \in Chunks : IsAt(q, p, c) <=> c = c0
  BY DEF IsAt
<1>2. \A c : ~IsAt(q, NoAddress, c)
  BY DEF IsAt
<1>3. /\ c0 \in Chunks
      /\ Buffers(q, objects, c0) = {} /\ ~IsAt(q, parkAt, c0)
      /\ \A k, l \in DOMAIN ListAfter(list) : ListAfter(list)[k] = ListAfter(list)[l] => k = l
      /\ \A c \in Chunks : /\ InList(ListAfter(list), c) <=> InList(list, c) /\ c # c0
                           /\ c < CountAfter(list, next[q]) <=> c < next[q] \/ c = c0
  BY Taken
<1> HIDE DEF c0
<1>4. ASSUME NEW c \in Chunks
      PROVE  /\ \A i, j \in Buffers(q, objects, c) : i = j
             /\ InList(ListAfter(list), c) => /\ Buffers(q, objects, c) = {}
                                             /\ ~IsAt(q, p, c) /\ ~IsAt(q, parkAt, c)
             /\ IsAt(q, p, c) => Buffers(q, objects, c) = {} /\ ~IsAt(q, parkAt, c)
             /\ IsAt(q, parkAt, c) => Buffers(q, objects, c) = {} /\ ~IsAt(q, p, c)
             /\ c < CountAfter(list, next[q])
                  <=> \/ InList(ListAfter(list), c) \/ Buffers(q, objects, c) # {}
                      \/ IsAt(q, p, c) \/ IsAt(q, parkAt, c)
  BY <1>1, <1>2, <1>3 DEF Accounts
<1> QED BY <1>3, <1>4 DEF Accounts

\* The chunk is for a new object.
LEMMA TakenToDisplace ==
  ASSUME NEW q \in Queues, NEW list \in Seq(Chunks), NEW objects, NEW parkAt, NEW termAt,
         NEW after, NEW i \in Ids,
         next[q] \in 0 .. ChunkCount,
         Accounts(q, list, objects, next[q], parkAt, termAt), CanAllocate(q, list),
         objects[i] = NoObject, \A j \in Ids : j # i => after[j] = objects[j],
         after[i] # NoObject, after[i].queue = q, IsAt(q, after[i].to, Chunk(q, list))
  PROVE  Accounts(q, ListAfter(list), after, CountAfter(list, next[q]), parkAt, termAt)
<1> DEFINE c0 == Chunk(q, list)
<1>1. \A c \in Chunks : c # c0 => Buffers(q, after, c) = Buffers(q, objects, c)
  BY DEF Buffers, IsAt
<1>2. Buffers(q, objects, c0) = {} /\ c0 \in Chunks
  BY Taken
<1>3. Buffers(q, after, c0) = {i}
  BY <1>2 DEF Buffers, IsAt
<1>4. /\ ~IsAt(q, parkAt, c0) /\ ~IsAt(q, termAt, c0)
      /\ \A k, l \in DOMAIN ListAfter(list) : ListAfter(list)[k] = ListAfter(list)[l] => k = l
      /\ \A c \in Chunks : /\ InList(ListAfter(list), c) <=> InList(list, c) /\ c # c0
                           /\ c < CountAfter(list, next[q]) <=> c < next[q] \/ c = c0
  BY Taken
<1> HIDE DEF c0
<1>5. ASSUME NEW c \in Chunks
      PROVE  /\ \A k, j \in Buffers(q, after, c) : k = j
             /\ InList(ListAfter(list), c) => /\ Buffers(q, after, c) = {}
                                             /\ ~IsAt(q, parkAt, c) /\ ~IsAt(q, termAt, c)
             /\ IsAt(q, parkAt, c) => Buffers(q, after, c) = {} /\ ~IsAt(q, termAt, c)
             /\ IsAt(q, termAt, c) => Buffers(q, after, c) = {}
             /\ c < CountAfter(list, next[q])
                  <=> \/ InList(ListAfter(list), c) \/ Buffers(q, after, c) # {}
                      \/ IsAt(q, parkAt, c) \/ IsAt(q, termAt, c)
  <2>1. CASE c = c0
    BY <1>2, <1>3, <1>4, <2>1
  <2>2. CASE c # c0
    BY <1>1, <1>4, <2>2 DEF Accounts
  <2> QED BY <2>1, <2>2
<1> QED BY <1>4, <1>5 DEF Accounts

\* Placement does not depend on how many chunks are in use beyond its own.
LEMMA PlacedLater ==
  ASSUME NEW q \in Queues, NEW n \in Nat, NEW m \in Nat, n <= m, NEW p, NEW size,
         Placed(q, n, p, size)
  PROVE  Placed(q, m, p, size)
<1>1. PICK c \in Chunks : c < n /\ p = StartOf(q, c, size)
  BY DEF Placed
<1>2. c < m
  BY <1>1, PoolAssumption DEF Chunks
<1> QED BY <1>1, <1>2 DEF Placed

\* A word of a chunk is a word of the memory for the debugger.
LEMMA WordIn ==
  ASSUME NEW p \in Queues, NEW c \in Chunks, NEW a \in WordsOf(p, c)
  PROVE  a \in Pools /\ a \in Nat
<1>1. ChunkAt(p, c) \in Nat
  <2>1. 0 \in 0 .. ChunkSize - 1
    BY DEF ChunkSize
  <2> QED BY <2>1, Geometry
<1> DEFINE j == a - ChunkAt(p, c)
<1>2. j \in 0 .. ChunkSize - 1 /\ a = ChunkAt(p, c) + j
  BY <1>1 DEF WordsOf, ChunkSize
<1> QED BY <1>2, Geometry

\* Where an instruction and the guard behind it are in a chunk.
Fits(q, c, size, place, guard) ==
  /\ place \in Nat /\ IsAt(q, place, c)
  /\ guard \in Nat /\ guard \in Pools /\ guard \notin place .. guard - 1
  /\ place + size = guard /\ size \in Nat
  /\ \A k \in 0 .. size - 1 : /\ place + k \in Pools /\ place + k \in place .. guard - 1
                              /\ place + k - place + 1 = k + 1
  /\ \A a \in place .. guard - 1 : a - place + 1 \in 1 .. size
  /\ \A a \in place .. guard : a \in WordsOf(q, c)

\* An instruction of at most the largest size fits in a chunk.
LEMMA PlaceAndGuard ==
  ASSUME NEW q \in Queues, NEW c \in Chunks, NEW size \in 1 .. LargestSize
  PROVE  Fits(q, c, size, StartOf(q, c, size), GuardOf(q, c))
<1>1. ChunkAt(q, c) \in Nat
  <2>1. 0 \in 0 .. ChunkSize - 1
    BY DEF ChunkSize
  <2> QED BY <2>1, Geometry
<1> DEFINE place == StartOf(q, c, size)
           guard == GuardOf(q, c)
           off == 7 - size
<1>2. off \in 0 .. ChunkSize - 1 /\ place = ChunkAt(q, c) + off /\ guard = ChunkAt(q, c) + 7
      /\ 7 \in 0 .. ChunkSize - 1
  BY <1>1 DEF ChunkSize, AssertSize, LargestSize, StartOf, GuardOf
<1> HIDE DEF place, guard
<1>3. place \in Nat /\ ChunkOf(q, place) = c /\ guard \in Nat
  BY <1>2, Geometry
<1>4. place # NoAddress
  BY <1>3 DEF NoAddress
<1>5. place + size = guard /\ size \in Nat /\ size >= 1
  BY <1>1, <1>2 DEF LargestSize
<1>6. \A a \in place .. guard : a \in WordsOf(q, c)
  BY <1>1, <1>2 DEF WordsOf, ChunkSize, LargestSize
<1>7. \A a \in place .. guard : a \in Pools
  BY <1>6, WordIn
<1>8. guard \in place .. guard /\ guard \notin place .. guard - 1
      /\ \A k \in 0 .. size - 1 : /\ place + k \in place .. guard
                                  /\ place + k \in place .. guard - 1
                                  /\ place + k - place + 1 = k + 1
      /\ \A a \in place .. guard - 1 : a - place + 1 \in 1 .. size
  BY <1>3, <1>5
<1> QED BY <1>3, <1>4, <1>5, <1>6, <1>7, <1>8 DEF IsAt, place, guard, Fits

\* What Allocate does, and what it leaves alone.
LEMMA Allocated ==
  ASSUME TypeOK, NEW q \in Queues, NEW list \in Seq(Chunks), Chunk(q, list) \in Chunks,
         NEW words \in Seq(Int), Len(words) \in 1 .. LargestSize,
         CountAfter(list, next[q]) \in 0 .. ChunkCount, ListAfter(list) \in Seq(Chunks),
         Chunk(q, list) < CountAfter(list, next[q]),
         Allocate(q, list, words)
  PROVE  LET c0 == Chunk(q, list)
             place == PlaceOf(q, list, Len(words))
         IN /\ free' = [free EXCEPT ![q] = ListAfter(list)]
            /\ free' \in [Queues -> Seq(Chunks)]
            /\ next' = [next EXCEPT ![q] = CountAfter(list, next[q])]
            /\ next' \in [Queues -> 0 .. ChunkCount]
            /\ mem' \in [Pools -> Int]
            /\ Placed(q, CountAfter(list, next[q]), place, Len(words))
            /\ place \in Nat /\ IsAt(q, place, c0)
            /\ \A k \in 0 .. Len(words) - 1 : mem'[place + k] = words[k + 1]
            /\ list = <<>> => mem'[GuardOf(q, c0)] = AssertWord
            /\ list # <<>> => mem'[GuardOf(q, c0)] = mem[GuardOf(q, c0)]
            /\ \A p \in Queues, c \in Chunks : p # q \/ c # c0 =>
                 \A a \in WordsOf(p, c) : mem'[a] = mem[a]
<1> DEFINE c0 == Chunk(q, list)
           size == Len(words)
           place == PlaceOf(q, list, size)
           guard == GuardOf(q, c0)
           Cell(a) == IF a \in place .. guard - 1 THEN words[a - place + 1]
                      ELSE IF a = guard /\ list = <<>> THEN AssertWord ELSE mem[a]
<1>1. free' = [free EXCEPT ![q] = ListAfter(list)]
      /\ next' = [next EXCEPT ![q] = CountAfter(list, next[q])]
      /\ mem' = [a \in Pools |-> Cell(a)]
  BY DEF Allocate, ListAfter, CountAfter, GuardOf
<1> HIDE DEF Cell
<1>2. place = StartOf(q, c0, size)
  BY DEF PlaceOf, StartOf
<1>3. Placed(q, CountAfter(list, next[q]), place, size)
  BY <1>2 DEF Placed
<1> HIDE DEF c0, size, place
<1>4. c0 \in Chunks /\ size \in 1 .. LargestSize
  BY DEF c0, size
<1>5. guard = GuardOf(q, c0)
  OBVIOUS
<1> HIDE DEF guard
<1>6. /\ place \in Nat /\ IsAt(q, place, c0)
      /\ guard \in Nat /\ guard \in Pools /\ guard \notin place .. guard - 1
      /\ \A k \in 0 .. size - 1 : /\ place + k \in Pools /\ place + k \in place .. guard - 1
                                  /\ place + k - place + 1 = k + 1
      /\ \A a \in place .. guard - 1 : a - place + 1 \in 1 .. size
      /\ \A a \in place .. guard : a \in WordsOf(q, c0)
  <2>1. Fits(q, c0, size, place, guard)
    BY <1>2, <1>4, <1>5, PlaceAndGuard
  <2> QED BY <2>1 DEF Fits
<1>7. \A k \in 0 .. size - 1 : mem'[place + k] = words[k + 1]
  BY <1>1, <1>6 DEF Cell
<1>8. /\ list = <<>> => mem'[guard] = AssertWord
      /\ list # <<>> => mem'[guard] = mem[guard]
  BY <1>1, <1>6 DEF Cell
<1>9. ASSUME NEW p \in Queues, NEW c \in Chunks, p # q \/ c # c0, NEW a \in WordsOf(p, c)
      PROVE  mem'[a] = mem[a]
  <2>1. a \in Pools /\ a \in Nat
    BY WordIn
  <2>2. a \notin WordsOf(q, c0)
    BY <1>4, <1>9, WordsApart
  <2>3. a \notin place .. guard
    BY <1>6, <2>2
  <2>4. a \notin place .. guard - 1 /\ ~(a = guard /\ guard \in place .. guard)
    BY <1>6, <2>1, <2>3
  <2>5. guard \in place .. guard
    <3>1. place + size = guard /\ size \in Nat
      BY <1>2, <1>4, <1>5, PlaceAndGuard DEF Fits
    <3> QED BY <1>6, <3>1
  <2> QED BY <1>1, <2>1, <2>4, <2>5 DEF Cell
<1>10. mem' \in [Pools -> Int]
  <2>1. ASSUME NEW a \in Pools PROVE Cell(a) \in Int
    <3>1. CASE a \in place .. guard - 1
      <4>1. a - place + 1 \in 1 .. size
        BY <1>6, <3>1
      <4>2. words[a - place + 1] \in Int
        BY <4>1, ElementOfSeq DEF size
      <4> QED BY <3>1, <4>2 DEF Cell
    <3>2. CASE a \notin place .. guard - 1
      BY <3>2 DEF TypeOK, AssertWord, Cell
    <3> QED BY <3>1, <3>2
  <2> QED BY <1>1, <2>1
<1>11. free' \in [Queues -> Seq(Chunks)] /\ next' \in [Queues -> 0 .. ChunkCount]
  BY <1>1 DEF TypeOK
<1> QED BY <1>1, <1>3, <1>6, <1>7, <1>8, <1>9, <1>10, <1>11 DEF guard, place, c0, size

-----------------------------------------------------------------------------
(* The objects and their references.                                       *)

\* The fields of an object, and that a change of its count is one only of that.
LEMMA ObjectFields ==
  ASSUME NEW o \in Objects
  PROVE  /\ o.queue \in Queues /\ o.from \in Code /\ o.to \in Addresses /\ o.refs \in Nat
         /\ o # NoObject
         /\ \A n \in Nat : /\ [o EXCEPT !.refs = n] \in Objects
                           /\ [o EXCEPT !.refs = n].queue = o.queue
                           /\ [o EXCEPT !.refs = n].from = o.from
                           /\ [o EXCEPT !.refs = n].to = o.to
                           /\ [o EXCEPT !.refs = n].refs = n
<1>1. o.queue \in Queues /\ o.from \in Code /\ o.to \in Addresses /\ o.refs \in Nat
  BY DEF Objects
<1>2. o # NoObject
  BY <1>1, WaveAssumption DEF NoObject
<1> QED BY <1>1, <1>2 DEF Objects

\* The objects that exist have the fields of objects.
LEMMA LiveObject ==
  ASSUME TypeOK, NEW i \in Ids
  PROVE  /\ obj[i] \in Objects \cup {NoObject}
         /\ i \in Live <=> obj[i] # NoObject
         /\ i \in Live => obj[i] \in Objects
  BY DEF TypeOK, Live

\* Only the queue and the buffer of an object matter to the accounts.
LEMMA SameAccounts ==
  ASSUME NEW q, NEW list, NEW before, NEW after, NEW n, NEW parkAt, NEW termAt,
         \A i \in Ids : \/ /\ before[i] # NoObject /\ after[i] # NoObject
                           /\ before[i].queue = after[i].queue /\ before[i].to = after[i].to
                        \/ /\ before[i] = NoObject \/ before[i].queue # q \/ before[i].to = NoAddress
                           /\ after[i] = NoObject \/ after[i].queue # q \/ after[i].to = NoAddress,
         Accounts(q, list, before, n, parkAt, termAt)
  PROVE  Accounts(q, list, after, n, parkAt, termAt)
<1>1. ASSUME NEW c PROVE Buffers(q, before, c) = Buffers(q, after, c)
  BY DEF Buffers
<1> QED BY <1>1 DEF Accounts

\* Where the buffer of an object is.
LEMMA BufferPlaced ==
  ASSUME TypeOK, ObjInv, NEW i \in Live, obj[i].to # NoAddress
  PROVE  LET q == obj[i].queue
             from == obj[i].from
             to == obj[i].to
             c == ChunkOf(q, to)
         IN /\ q \in Queues /\ from \in Code /\ Size[from] \in 1 .. LargestSize
            /\ Placed(q, next[q], to, Size[from])
            /\ to \in Nat /\ c \in Chunks /\ c < next[q]
            /\ to + Size[from] = GuardOf(q, c)
            /\ \A k \in 0 .. Size[from] : /\ to + k \in WordsOf(q, c)
                                          /\ to + k \in Pools /\ to + k \in Nat
            /\ i \in Buffers(q, obj, c)
<1>1. i \in Ids /\ obj[i] \in Objects /\ obj[i] # NoObject
  BY LiveObject DEF Live
<1>2. obj[i].queue \in Queues /\ obj[i].from \in Code /\ Size[obj[i].from] \in 1 .. LargestSize
  BY <1>1, ObjectFields, CodeApart
<1>3. Placed(obj[i].queue, next[obj[i].queue], obj[i].to, Size[obj[i].from])
  BY DEF ObjInv
<1>4. next[obj[i].queue] \in Nat
  BY <1>2, PoolAssumption DEF TypeOK
<1>5. i \in Buffers(obj[i].queue, obj, ChunkOf(obj[i].queue, obj[i].to))
  BY <1>1 DEF Buffers
<1> QED BY <1>2, <1>3, <1>4, <1>5, PlacedWords

\* A displaced wave has an object of its queue.
LEMMA OwnObject ==
  ASSUME TypeOK, ObjInv, NEW w \in Waves, WaveAt(w), Displaced(w)
  PROVE  /\ ds[w] \in Live /\ ds[w] \in Ids /\ ds[w] # NoId /\ w \in Users(ds[w])
         /\ obj[ds[w]] \in Objects /\ obj[ds[w]] # NoObject
         /\ obj[ds[w]].queue = QueueOf[w] /\ QueueOf[w] \in Queues
         /\ obj[ds[w]].refs \in Nat /\ obj[ds[w]].refs >= 1
<1>1. ds[w] \in Live
  BY DEF WaveAt, DisplacedAt
<1>2. ds[w] \in Ids /\ w \in Users(ds[w]) /\ ds[w] # NoId
  BY <1>1 DEF Live, Users, Displaced
<1>3. obj[ds[w]] \in Objects /\ obj[ds[w]] # NoObject
  BY <1>1, <1>2, LiveObject
<1>4. QueueOf[w] = obj[ds[w]].queue /\ obj[ds[w]].refs >= 1
  BY <1>1, <1>2 DEF ObjInv
<1> QED BY <1>1, <1>2, <1>3, <1>4, ObjectFields

\* What a release does to the objects.
LEMMA ReleasedObject ==
  ASSUME TypeOK, ObjInv, NEW w \in Waves, WaveAt(w)
  PROVE  /\ ObjReleased(w) \in [Ids -> Objects \cup {NoObject}]
         /\ \A j \in Ids : j # ds[w] \/ ~Displaced(w) => ObjReleased(w)[j] = obj[j]
         /\ Displaced(w) /\ LastUser(w) => ObjReleased(w)[ds[w]] = NoObject
         /\ Displaced(w) /\ ~LastUser(w) =>
              /\ ObjReleased(w)[ds[w]] # NoObject
              /\ ObjReleased(w)[ds[w]].queue = obj[ds[w]].queue
              /\ ObjReleased(w)[ds[w]].from = obj[ds[w]].from
              /\ ObjReleased(w)[ds[w]].to = obj[ds[w]].to
              /\ ObjReleased(w)[ds[w]].refs = obj[ds[w]].refs - 1
              /\ ObjReleased(w)[ds[w]].refs \in Nat /\ ObjReleased(w)[ds[w]].refs >= 1
<1>1. CASE ~Displaced(w)
  BY <1>1 DEF ObjReleased, TypeOK
<1>2. CASE Displaced(w)
  <2> DEFINE i == ds[w]
             less == [obj[i] EXCEPT !.refs = @ - 1]
  <2>1. i \in Ids /\ obj[i] \in Objects /\ obj[i].refs \in Nat /\ obj[i].refs >= 1
    BY <1>2, OwnObject
  <2>2. obj[i].refs - 1 \in Nat
    BY <2>1
  <2>3. less = [obj[i] EXCEPT !.refs = obj[i].refs - 1]
    OBVIOUS
  <2>4. /\ less \in Objects /\ less # NoObject
        /\ less.queue = obj[i].queue /\ less.from = obj[i].from
        /\ less.to = obj[i].to /\ less.refs = obj[i].refs - 1
    BY <2>1, <2>2, <2>3, ObjectFields
  <2>5. ObjReleased(w) = [obj EXCEPT ![i] = IF LastUser(w) THEN NoObject ELSE less]
    BY <1>2 DEF ObjReleased
  <2> HIDE DEF less, i
  <2>6. ~LastUser(w) => obj[i].refs - 1 >= 1
    BY <2>1 DEF LastUser, i
  <2>7. /\ ObjReleased(w) \in [Ids -> Objects \cup {NoObject}]
        /\ ObjReleased(w)[i] = IF LastUser(w) THEN NoObject ELSE less
        /\ \A j \in Ids : j # i => ObjReleased(w)[j] = obj[j]
    BY <2>1, <2>4, <2>5 DEF TypeOK
  <2> QED BY <1>2, <2>2, <2>4, <2>6, <2>7 DEF i
<1> QED BY <1>1, <1>2

\* What a release does to the accounts: of its queue, and of the others.
LEMMA ReleasedAccounts ==
  ASSUME TypeOK, ObjInv, PoolInv, NEW w \in Waves, WaveAt(w), NEW q \in Queues
  PROVE  LET list == IF q = QueueOf[w] THEN FreeReleased(w) ELSE free[q] IN
         /\ list \in Seq(Chunks)
         /\ Accounts(q, list, ObjReleased(w), next[q], park[q], term[q])
<1>0. free[q] \in Seq(Chunks) /\ Accounts(q, free[q], obj, next[q], park[q], term[q])
  BY DEF TypeOK, PoolInv
<1>1. CASE ~(Displaced(w) /\ LastUser(w) /\ obj[ds[w]].to # NoAddress /\ q = QueueOf[w])
  <2>1. q = QueueOf[w] => FreeReleased(w) = free[q]
    BY <1>1 DEF FreeReleased
  <2>2. Accounts(q, free[q], ObjReleased(w), next[q], park[q], term[q])
    <3>1. CASE ~Displaced(w)
      BY <1>0, <3>1 DEF ObjReleased
    <3>2. CASE Displaced(w)
      <4>1. ASSUME NEW j \in Ids
            PROVE  \/ /\ obj[j] # NoObject /\ ObjReleased(w)[j] # NoObject
                      /\ obj[j].queue = ObjReleased(w)[j].queue /\ obj[j].to = ObjReleased(w)[j].to
                   \/ /\ obj[j] = NoObject \/ obj[j].queue # q \/ obj[j].to = NoAddress
                      /\ \/ ObjReleased(w)[j] = NoObject \/ ObjReleased(w)[j].queue # q
                         \/ ObjReleased(w)[j].to = NoAddress
        <5>1. CASE j # ds[w]
          BY <5>1, ReleasedObject
        <5>2. CASE j = ds[w] /\ LastUser(w)
          BY <1>1, <3>2, <5>2, ReleasedObject, OwnObject
        <5>3. CASE j = ds[w] /\ ~LastUser(w)
          BY <3>2, <5>3, ReleasedObject, OwnObject
        <5> QED BY <5>1, <5>2, <5>3
      <4> HIDE DEF ObjReleased
      <4> QED BY <1>0, <4>1, SameAccounts
    <3> QED BY <3>1, <3>2
  <2> QED BY <1>0, <2>1, <2>2
<1>2. CASE Displaced(w) /\ LastUser(w) /\ obj[ds[w]].to # NoAddress /\ q = QueueOf[w]
  <2> DEFINE i == ds[w]
             d == ChunkOf(q, obj[i].to)
             after == ObjReleased(w)
  <2>1. i \in Live /\ i \in Ids /\ obj[i].queue = q
    BY <1>2, OwnObject
  <2>2. d \in Chunks /\ d < next[q] /\ i \in Buffers(q, obj, d)
    BY <1>2, <2>1, BufferPlaced
  <2>3. FreeReleased(w) = Append(free[q], d)
    BY <1>2 DEF FreeReleased
  <2>4. after[i] = NoObject /\ \A j \in Ids : j # i => after[j] = obj[j]
    BY <1>2, ReleasedObject
  <2> HIDE DEF d, i, after
  <2>5. Buffers(q, obj, d) = {i} /\ ~InList(free[q], d)
        /\ ~IsAt(q, park[q], d) /\ ~IsAt(q, term[q], d)
    BY <1>0, <2>2 DEF Accounts
  <2>6. Buffers(q, after, d) = {}
    <3>1. Buffers(q, after, d) \subseteq Buffers(q, obj, d) \ {i}
      BY <2>4 DEF Buffers
    <3> QED BY <2>5, <3>1
  <2>7. \A c \in Chunks : c # d => Buffers(q, after, c) = Buffers(q, obj, c)
    BY <2>4, <2>1 DEF Buffers, d
  <2>8. /\ Append(free[q], d) \in Seq(Chunks)
        /\ \A k, l \in DOMAIN Append(free[q], d) :
             Append(free[q], d)[k] = Append(free[q], d)[l] => k = l
        /\ \A c \in Chunks : InList(Append(free[q], d), c) <=> InList(free[q], c) \/ c = d
    <3>1. \A k, l \in DOMAIN free[q] : free[q][k] = free[q][l] => k = l
      BY <1>0 DEF Accounts
    <3> QED BY <1>0, <2>2, <2>5, <3>1, Pushed
  <2> DEFINE list == Append(free[q], d)
  <2> HIDE DEF list
  <2>9. ASSUME NEW c \in Chunks
        PROVE  /\ \A k, j \in Buffers(q, after, c) : k = j
               /\ InList(list, c) => /\ Buffers(q, after, c) = {}
                                     /\ ~IsAt(q, park[q], c) /\ ~IsAt(q, term[q], c)
               /\ IsAt(q, park[q], c) => Buffers(q, after, c) = {} /\ ~IsAt(q, term[q], c)
               /\ IsAt(q, term[q], c) => Buffers(q, after, c) = {}
               /\ c < next[q] <=> \/ InList(list, c) \/ Buffers(q, after, c) # {}
                                  \/ IsAt(q, park[q], c) \/ IsAt(q, term[q], c)
    <3>1. InList(list, c) <=> InList(free[q], c) \/ c = d
      BY <2>8 DEF list
    <3>2. CASE c = d
      BY <2>2, <2>5, <2>6, <3>1, <3>2
    <3>3. CASE c # d
      BY <1>0, <2>7, <3>1, <3>3 DEF Accounts
    <3> QED BY <3>2, <3>3
  <2>10. Accounts(q, list, after, next[q], park[q], term[q])
    BY <2>8, <2>9 DEF Accounts, list
  <2> QED BY <1>2, <2>3, <2>8, <2>10 DEF list, after
<1> QED BY <1>1, <1>2

\* A release keeps the objects that are left counted.
LEMMA ReleasedCounts ==
  ASSUME TypeOK, ObjInv, NEW w \in Waves, WaveAt(w),
         obj' = ObjReleased(w), ds' = [ds EXCEPT ![w] = NoId],
         next' \in [Queues -> 0 .. ChunkCount], \A q \in Queues : next[q] <= next'[q]
  PROVE  ObjInv'
<1> DEFINE Same(i) == /\ i \in Live
                      /\ obj'[i].queue = obj[i].queue /\ obj'[i].from = obj[i].from
                      /\ obj'[i].to = obj[i].to
<1>1. ASSUME NEW i \in Live' PROVE Same(i) /\ i \in Ids
  <2>1. i \in Ids /\ obj'[i] # NoObject
    BY DEF Live
  <2>2. CASE i # ds[w] \/ ~Displaced(w)
    BY <2>1, <2>2, ReleasedObject DEF Live
  <2>3. CASE i = ds[w] /\ Displaced(w)
    <3>1. ~LastUser(w)
      BY <2>1, <2>3, ReleasedObject
    <3> QED BY <2>1, <2>3, <3>1, ReleasedObject, OwnObject
  <2> QED BY <2>1, <2>2, <2>3
<1>2. ASSUME NEW i \in Live'
      PROVE  obj'[i].refs >= 1 /\ obj'[i].refs = Cardinality(Users(i)') /\ Users(i)' \subseteq Users(i)
  <2>0. Same(i) /\ i \in Ids /\ obj'[i] # NoObject /\ i # NoId
    BY <1>1, WaveAssumption DEF Live
  <2>1. ds' \in [Waves -> Ids \cup {NoId}] /\ ds'[w] = NoId /\ \A x \in Waves : x # w => ds'[x] = ds[x]
    BY DEF TypeOK
  <2>2. CASE i # ds[w]
    <3>1. Users(i)' = Users(i)
      BY <2>0, <2>1, <2>2 DEF Users
    <3>2. obj'[i] = obj[i]
      BY <2>0, <2>2, ReleasedObject
    <3> QED BY <2>0, <3>1, <3>2 DEF ObjInv
  <2>3. CASE i = ds[w]
    <3>1. Displaced(w)
      BY <2>0, <2>3 DEF Displaced
    <3>2. ~LastUser(w)
      BY <2>0, <2>3, <3>1, ReleasedObject
    <3>3. Users(i)' = Users(i) \ {w} /\ w \in Users(i)
      BY <2>0, <2>1, <2>3 DEF Users
    <3>4. IsFiniteSet(Users(i))
      BY WaveAssumption, FS_Subset DEF Users
    <3>5. Cardinality(Users(i)') = Cardinality(Users(i)) - 1
      BY <3>3, <3>4, FS_RemoveElement
    <3>6. obj[i].refs = Cardinality(Users(i))
      BY <2>0 DEF ObjInv
    <3>7. obj'[i].refs = obj[i].refs - 1 /\ obj'[i].refs >= 1
      BY <2>3, <3>1, <3>2, ReleasedObject
    <3> QED BY <3>3, <3>5, <3>6, <3>7
  <2> QED BY <2>2, <2>3
<1> HIDE DEF Same
<1>3. ASSUME NEW i \in Live', obj'[i].to # NoAddress
      PROVE  Placed(obj'[i].queue, next'[obj'[i].queue], obj'[i].to, Size[obj'[i].from])
  <2>1. Same(i)
    BY <1>1
  <2>2. obj[i].queue \in Queues /\ Placed(obj[i].queue, next[obj[i].queue], obj[i].to, Size[obj[i].from])
    BY <1>3, <2>1, BufferPlaced DEF Same
  <2>3. next[obj[i].queue] \in Nat /\ next'[obj[i].queue] \in Nat
        /\ next[obj[i].queue] <= next'[obj[i].queue]
    BY <2>2, PoolAssumption DEF TypeOK
  <2> QED BY <2>1, <2>2, <2>3, PlacedLater DEF Same
<1>4. ASSUME NEW i \in Live', NEW j \in Live',
             obj'[i].queue = obj'[j].queue, obj'[i].from = obj'[j].from
      PROVE  i = j
  BY <1>1, <1>4 DEF Same, ObjInv
<1>5. ASSUME NEW i \in Live'
      PROVE  /\ \A x \in Users(i)' : QueueOf[x] = obj'[i].queue
             /\ obj'[i].to = NoAddress => CanSimulate(obj'[i].from)
             /\ obj'[i].to # NoAddress => CanExecuteDisplaced(obj'[i].from)
  BY <1>1, <1>2 DEF Same, ObjInv
<1> QED BY <1>2, <1>3, <1>4, <1>5 DEF ObjInv

\* The waves of an id without an object: none.
LEMMA NoUsers ==
  ASSUME TypeOK, \A w \in Waves : WaveAt(w), NEW i \in Ids \ Live
  PROVE  Users(i) = {} /\ obj[i] = NoObject
<1>1. obj[i] = NoObject
  BY DEF Live
<1>2. ASSUME NEW w \in Waves, ds[w] = i PROVE FALSE
  <2>1. Displaced(w)
    BY <1>2, WaveAssumption DEF Displaced
  <2> QED BY <1>2, <2>1 DEF WaveAt, DisplacedAt
<1> QED BY <1>1, <1>2 DEF Users

\* What is so when a chunk was taken, while objects were those that had buffers:
\* what it holds, and what the memory still holds for the others.
TakenFor(q, list, objects, words, place, size) ==
  /\ free' = [free EXCEPT ![q] = ListAfter(list)]
  /\ free' \in [Queues -> Seq(Chunks)]
  /\ next' = [next EXCEPT ![q] = CountAfter(list, next[q])]
  /\ next' \in [Queues -> 0 .. ChunkCount]
  /\ \A p \in Queues : next[p] <= next'[p]
  /\ mem' \in [Pools -> Int]
  /\ Placed(q, next'[q], place, size)
  /\ place \in Nat /\ place \in Pools /\ IsAt(q, place, Chunk(q, list))
  /\ \A k \in 0 .. size - 1 : mem'[place + k] = words[k + 1]
  /\ \A p \in Queues, c \in Chunks :
       qState[p] = "alive" /\ c < next'[p] => mem'[GuardOf(p, c)] = AssertWord
  /\ \A i \in Ids : objects[i] # NoObject /\ objects[i].to # NoAddress =>
       \A k \in 0 .. Size[objects[i].from] - 1 :
         mem'[objects[i].to + k] = mem[objects[i].to + k]
  /\ \A p \in Queues : /\ park[p] # NoAddress => mem'[park[p]] = mem[park[p]]
                       /\ term[p] # NoAddress => mem'[term[p]] = mem[term[p]]

\* Allocate takes a chunk for the words it writes.
LEMMA AllocatedMemory ==
  ASSUME TypeOK, PoolInv, ObjInv, MemInv, NEW q \in Queues, qState[q] = "alive",
         NEW list \in Seq(Chunks), NEW objects,
         \A i \in Ids : objects[i] # NoObject =>
           /\ i \in Live /\ objects[i].queue = obj[i].queue
           /\ objects[i].from = obj[i].from /\ objects[i].to = obj[i].to,
         Accounts(q, list, objects, next[q], park[q], term[q]), CanAllocate(q, list),
         NEW words \in Seq(Int), Len(words) \in 1 .. LargestSize, Allocate(q, list, words)
  PROVE  TakenFor(q, list, objects, words, PlaceOf(q, list, Len(words)), Len(words))
<1> DEFINE c0 == Chunk(q, list)
           n == CountAfter(list, next[q])
<1>1. next[q] \in 0 .. ChunkCount /\ next[q] \in Nat
  BY PoolAssumption DEF TypeOK
<1>2. /\ c0 \in Chunks
      /\ Buffers(q, objects, c0) = {} /\ ~IsAt(q, park[q], c0) /\ ~IsAt(q, term[q], c0)
      /\ list # <<>> => c0 < next[q]
      /\ n \in 0 .. ChunkCount /\ ListAfter(list) \in Seq(Chunks)
      /\ \A c \in Chunks : c < n <=> c < next[q] \/ c = c0
  BY <1>1, Taken
<1>3. c0 < n
  BY <1>2
<1>4. /\ free' = [free EXCEPT ![q] = ListAfter(list)]
      /\ free' \in [Queues -> Seq(Chunks)]
      /\ next' = [next EXCEPT ![q] = n]
      /\ next' \in [Queues -> 0 .. ChunkCount]
      /\ mem' \in [Pools -> Int]
      /\ Placed(q, n, PlaceOf(q, list, Len(words)), Len(words))
      /\ PlaceOf(q, list, Len(words)) \in Nat /\ IsAt(q, PlaceOf(q, list, Len(words)), c0)
      /\ \A k \in 0 .. Len(words) - 1 : mem'[PlaceOf(q, list, Len(words)) + k] = words[k + 1]
      /\ list = <<>> => mem'[GuardOf(q, c0)] = AssertWord
      /\ list # <<>> => mem'[GuardOf(q, c0)] = mem[GuardOf(q, c0)]
      /\ \A p \in Queues, c \in Chunks : p # q \/ c # c0 =>
           \A a \in WordsOf(p, c) : mem'[a] = mem[a]
  BY <1>2, <1>3, Allocated
<1>5. next'[q] = n /\ \A p \in Queues : p # q => next'[p] = next[p]
  BY <1>4 DEF TypeOK
<1>6. n = next[q] \/ n = next[q] + 1
  BY DEF CountAfter
<1> HIDE DEF c0, n
<1>7. \A p \in Queues : next[p] <= next'[p]
  <2>1. \A p \in Queues : next[p] \in Nat
    BY PoolAssumption DEF TypeOK
  <2> QED BY <1>5, <1>6, <2>1
<1>8. PlaceOf(q, list, Len(words)) \in Pools
  <2> DEFINE place == PlaceOf(q, list, Len(words))
             size == Len(words)
  <2>1. Placed(q, n, place, size) /\ size \in 1 .. LargestSize /\ n \in Nat /\ place \in Nat
    BY <1>2, <1>4, PoolAssumption
  <2> HIDE DEF place, size
  <2>2. \A k \in 0 .. size : place + k \in Pools
    BY <2>1, PlacedWords
  <2>3. 0 \in 0 .. size /\ place + 0 = place
    BY <2>1 DEF LargestSize
  <2>4. place \in Pools
    BY <2>2, <2>3
  <2> QED BY <2>4 DEF place
<1>9. ASSUME NEW p \in Queues, NEW c \in Chunks, qState[p] = "alive", c < next'[p]
      PROVE  mem'[GuardOf(p, c)] = AssertWord
  <2>1. CASE p = q /\ c = c0 /\ list = <<>>
    BY <1>4, <2>1
  <2>2. CASE p = q /\ c = c0 /\ list # <<>>
    BY <1>2, <1>4, <2>2 DEF MemInv
  <2>3. CASE p # q \/ c # c0
    <3>1. c < next[p]
      BY <1>2, <1>5, <1>9, <2>3
    <3>2. mem[GuardOf(p, c)] = AssertWord
      BY <1>9, <3>1 DEF MemInv
    <3>3. GuardOf(p, c) \in WordsOf(p, c)
      <4>1. 1 \in 1 .. LargestSize
        BY DEF LargestSize
      <4>2. Fits(p, c, 1, StartOf(p, c, 1), GuardOf(p, c))
        BY <4>1, PlaceAndGuard
      <4>3. StartOf(p, c, 1) \in Nat /\ GuardOf(p, c) \in Nat
            /\ StartOf(p, c, 1) + 1 = GuardOf(p, c)
        BY <4>2 DEF Fits
      <4>4. GuardOf(p, c) \in StartOf(p, c, 1) .. GuardOf(p, c)
        BY <4>3
      <4> QED BY <4>2, <4>4 DEF Fits
    <3> QED BY <1>4, <2>3, <3>2, <3>3
  <2> QED BY <2>1, <2>2, <2>3
<1>10. ASSUME NEW i \in Ids, objects[i] # NoObject, objects[i].to # NoAddress,
              NEW k \in 0 .. Size[objects[i].from] - 1
       PROVE  mem'[objects[i].to + k] = mem[objects[i].to + k]
  <2> DEFINE p == obj[i].queue
             d == ChunkOf(p, obj[i].to)
  <2>1. i \in Live /\ objects[i].queue = p /\ objects[i].from = obj[i].from
        /\ objects[i].to = obj[i].to /\ obj[i].to # NoAddress
    BY <1>10
  <2>2. p \in Queues /\ d \in Chunks /\ Size[obj[i].from] \in 1 .. LargestSize
        /\ \A l \in 0 .. Size[obj[i].from] : obj[i].to + l \in WordsOf(p, d)
    BY <2>1, BufferPlaced
  <2> HIDE DEF p, d
  <2>3. k \in 0 .. Size[obj[i].from]
    BY <1>10, <2>1, <2>2 DEF LargestSize
  <2>4. p # q \/ d # c0
    <3>1. SUFFICES ASSUME p = q, d = c0 PROVE FALSE
      OBVIOUS
    <3>2. i \in Buffers(q, objects, c0)
      BY <1>10, <2>1, <3>1 DEF Buffers, d
    <3> QED BY <1>2, <3>2
  <2> QED BY <1>4, <2>1, <2>2, <2>3, <2>4
<1>11. ASSUME NEW p \in Queues, NEW a \in {park[p], term[p]}, a # NoAddress
       PROVE  mem'[a] = mem[a]
  <2>1. Placed(p, next[p], a, 1) /\ next[p] \in Nat /\ 1 \in 1 .. LargestSize
    BY <1>11, PoolAssumption DEF PoolInv, TypeOK, LargestSize
  <2>2. a \in Nat /\ ChunkOf(p, a) \in Chunks /\ 0 \in 0 .. 1
        /\ \A k \in 0 .. 1 : a + k \in WordsOf(p, ChunkOf(p, a))
    BY <2>1, PlacedWords
  <2>3. a + 0 = a /\ a \in WordsOf(p, ChunkOf(p, a))
    BY <2>2
  <2>4. p # q \/ ChunkOf(p, a) # c0
    BY <1>2, <1>11 DEF IsAt
  <2> QED BY <1>4, <2>2, <2>3, <2>4
<1>12. Placed(q, next'[q], PlaceOf(q, list, Len(words)), Len(words))
  BY <1>4, <1>5
<1>13. \A p \in Queues : /\ park[p] # NoAddress => mem'[park[p]] = mem[park[p]]
                         /\ term[p] # NoAddress => mem'[term[p]] = mem[term[p]]
  BY <1>11
<1>14. next' = [next EXCEPT ![q] = CountAfter(list, next[q])]
       /\ IsAt(q, PlaceOf(q, list, Len(words)), Chunk(q, list))
  BY <1>4 DEF n, c0
<1> QED BY <1>4, <1>7, <1>8, <1>9, <1>10, <1>12, <1>13, <1>14 DEF TakenFor

-----------------------------------------------------------------------------
(* What an action leaves alone.                                            *)

\* Nothing happens to wave x itself, nor to its object.
Untouched(x) ==
  /\ state'[x] = state[x] /\ pc'[x] = pc[x] /\ saved'[x] = saved[x]
  /\ ds'[x] = ds[x] /\ done'[x] = done[x]
  /\ x \in hidden' <=> x \in hidden
  /\ x \in parked' <=> x \in parked

ObjectKept(x) ==
  Displaced(x) => /\ ds[x] \in Live'
                  /\ obj'[ds[x]].from = obj[ds[x]].from /\ obj'[ds[x]].to = obj[ds[x]].to

\* What is so of a wave stays so while nothing it depends on changes.
LEMMA WaveKept ==
  ASSUME NEW x \in Waves, WaveAt(x), Untouched(x), ObjectKept(x), attached' = attached,
         qState'[QueueOf[x]] = "gone" => qState[QueueOf[x]] = "gone",
         qState'[QueueOf[x]] = "alive" =>
           /\ qState[QueueOf[x]] = "alive"
           /\ x \in hidden \cup parked => mem'[pc[x]] = mem[pc[x]],
         attached /\ x \in hidden => term'[QueueOf[x]] = term[QueueOf[x]],
         attached /\ x \in parked => park'[QueueOf[x]] = park[QueueOf[x]]
  PROVE  WaveAt(x)'
<1>1. PC(x)' = PC(x) /\ Displaced(x)' = Displaced(x)
  BY DEF PC, Displaced, Untouched
<1>2. Displaced(x) => DisplacedAt(x)'
  BY <1>1 DEF WaveAt, DisplacedAt, ObjectKept, Untouched
<1> QED BY <1>1, <1>2 DEF WaveAt, Untouched

\* The pools and the objects are as they were, and no queue comes back.
LEMMA PoolsKept ==
  ASSUME PoolInv, ObjInv, MemInv, UNCHANGED <<obj, ds, memVars>>,
         \A q \in Queues : qState'[q] = "alive" => qState[q] = "alive"
  PROVE  PoolInv' /\ ObjInv' /\ MemInv'
<1>1. obj' = obj /\ ds' = ds /\ next' = next /\ free' = free /\ mem' = mem /\ park' = park
      /\ term' = term
  BY DEF memVars, poolVars
<1>2. Live' = Live /\ \A i : Users(i)' = Users(i)
  BY <1>1 DEF Live, Users
<1>3. PoolInv'
  BY <1>1 DEF PoolInv
<1>4. ObjInv'
  BY <1>1, <1>2 DEF ObjInv
<1>5. MemInv'
  BY <1>1, <1>2 DEF MemInv
<1> QED BY <1>3, <1>4, <1>5

\* The objects are as they were, and chunks are only added.
LEMMA CountsKept ==
  ASSUME TypeOK, ObjInv, UNCHANGED <<obj, ds>>,
         next' \in [Queues -> 0 .. ChunkCount], \A q \in Queues : next[q] <= next'[q]
  PROVE  ObjInv'
<1>1. Live' = Live /\ obj' = obj /\ \A i : Users(i)' = Users(i)
  BY DEF Live, Users
<1>2. ASSUME NEW i \in Live, obj[i].to # NoAddress
      PROVE  Placed(obj[i].queue, next'[obj[i].queue], obj[i].to, Size[obj[i].from])
  <2>1. obj[i].queue \in Queues /\ Placed(obj[i].queue, next[obj[i].queue], obj[i].to, Size[obj[i].from])
    BY <1>2, BufferPlaced
  <2>2. next[obj[i].queue] \in Nat /\ next'[obj[i].queue] \in Nat
        /\ next[obj[i].queue] <= next'[obj[i].queue]
    BY <2>1, PoolAssumption DEF TypeOK
  <2> QED BY <2>1, <2>2, PlacedLater
<1> QED BY <1>1, <1>2 DEF ObjInv

\* The park instruction is written to a chunk of its own.
LEMMA ParkAllocated ==
  ASSUME TypeOK, PoolInv, ObjInv, MemInv, NEW q \in Queues, qState[q] = "alive",
         park[q] = NoAddress, CanAllocate(q, free[q]), Allocate(q, free[q], <<AssertWord>>),
         park' = [park EXCEPT ![q] = PlaceOf(q, free[q], 1)],
         UNCHANGED <<obj, ds, term, qState>>
  PROVE  /\ PoolInv' /\ ObjInv' /\ MemInv'
         /\ free' \in [Queues -> Seq(Chunks)] /\ next' \in [Queues -> 0 .. ChunkCount]
         /\ mem' \in [Pools -> Int] /\ park' \in [Queues -> Addresses]
         /\ park'[q] # NoAddress /\ park'[q] \in Pools /\ mem'[park'[q]] = AssertWord
         /\ \A p \in Queues : /\ park[p] # NoAddress => /\ park'[p] = park[p]
                                                        /\ mem'[park[p]] = mem[park[p]]
                              /\ term[p] # NoAddress => mem'[term[p]] = mem[term[p]]
<1> DEFINE place == PlaceOf(q, free[q], 1)
           words == <<AssertWord>>
<1>1. words \in Seq(Int) /\ Len(words) = 1 /\ Len(words) \in 1 .. LargestSize
      /\ words[1] = AssertWord
  BY DEF AssertWord, LargestSize
<1>2. free[q] \in Seq(Chunks) /\ Accounts(q, free[q], obj, next[q], park[q], term[q])
      /\ next[q] \in 0 .. ChunkCount
  BY DEF TypeOK, PoolInv
<1>3. \A i \in Ids : obj[i] # NoObject =>
        /\ i \in Live /\ obj[i].queue = obj[i].queue /\ obj[i].from = obj[i].from
        /\ obj[i].to = obj[i].to
  BY DEF Live
<1> HIDE DEF words
<1>4. Allocate(q, free[q], words)
  BY DEF words
<1>5. TakenFor(q, free[q], obj, words, place, 1)
  BY <1>1, <1>2, <1>3, <1>4, AllocatedMemory
<1> HIDE DEF place
<1>6. mem'[place] = AssertWord
  <2>1. 0 \in 0 .. 1 - 1 /\ place + 0 = place /\ 0 + 1 = 1
    BY <1>5 DEF TakenFor
  <2>2. mem'[place + 0] = words[0 + 1]
    BY <1>5, <2>1 DEF TakenFor
  <2> QED BY <1>1, <2>1, <2>2
<1>7. park'[q] = place /\ \A p \in Queues : p # q => park'[p] = park[p]
  BY DEF TypeOK, place
<1>8. place # NoAddress
  BY <1>5 DEF IsAt, TakenFor
<1>9. \A p \in Queues : park[p] # NoAddress => park'[p] = park[p]
  BY <1>7
<1>10. park' \in [Queues -> Addresses]
  BY <1>5 DEF TypeOK, Addresses, place, TakenFor
<1>11. ObjInv'
  BY <1>5, CountsKept DEF TakenFor
<1>12. PoolInv'
  <2>1. ASSUME NEW p \in Queues
        PROVE  /\ Accounts(p, free'[p], obj, next'[p], park'[p], term[p])
               /\ park'[p] # NoAddress => Placed(p, next'[p], park'[p], 1)
               /\ term[p] # NoAddress => Placed(p, next'[p], term[p], 1)
    <3>0. next[p] \in Nat /\ next'[p] \in Nat /\ next[p] <= next'[p]
      BY <1>5, PoolAssumption DEF TypeOK, TakenFor
    <3>1. term[p] # NoAddress => Placed(p, next'[p], term[p], 1)
      BY <3>0, PlacedLater DEF PoolInv
    <3>2. CASE p = q
      <4>1. free'[q] = ListAfter(free[q]) /\ next'[q] = CountAfter(free[q], next[q])
        BY <1>5 DEF TypeOK, TakenFor
      <4>2. Accounts(q, ListAfter(free[q]), obj, CountAfter(free[q], next[q]), place, term[q])
        BY <1>2, <1>5, TakenToPark DEF TakenFor
      <4> QED BY <1>5, <1>7, <3>1, <3>2, <4>1, <4>2 DEF TakenFor
    <3>3. CASE p # q
      <4>1. free'[p] = free[p] /\ next'[p] = next[p] /\ park'[p] = park[p]
        BY <1>5, <1>7, <3>3 DEF TypeOK, TakenFor
      <4> QED BY <3>1, <4>1 DEF PoolInv
    <3> QED BY <3>2, <3>3
  <2> QED BY <2>1 DEF PoolInv
<1>13. MemInv'
  <2>1. Live' = Live
    BY DEF Live
  <2>2. ASSUME NEW p \in Queues, qState[p] = "alive"
        PROVE  /\ \A i \in Live : obj[i].queue = p /\ obj[i].to # NoAddress =>
                    \A k \in 0 .. Size[obj[i].from] - 1 : mem'[obj[i].to + k] = obj[i].from + k
               /\ park'[p] # NoAddress => mem'[park'[p]] = AssertWord
               /\ term[p] # NoAddress => mem'[term[p]] = EndWord
    <3>1. \A i \in Live : obj[i].queue = p /\ obj[i].to # NoAddress =>
            \A k \in 0 .. Size[obj[i].from] - 1 : mem'[obj[i].to + k] = obj[i].from + k
      <4>1. ASSUME NEW i \in Live, obj[i].queue = p, obj[i].to # NoAddress,
                   NEW k \in 0 .. Size[obj[i].from] - 1
            PROVE  mem'[obj[i].to + k] = obj[i].from + k
        <5>1. mem[obj[i].to + k] = obj[i].from + k
          BY <2>2, <4>1 DEF MemInv
        <5>2. i \in Ids /\ obj[i] # NoObject
          BY DEF Live
        <5>3. mem'[obj[i].to + k] = mem[obj[i].to + k]
          BY <1>5, <4>1, <5>2 DEF TakenFor
        <5> QED BY <5>1, <5>3
      <4> QED BY <4>1
    <3>2. park'[p] # NoAddress => mem'[park'[p]] = AssertWord
      <4>1. CASE p = q
        BY <1>6, <1>7, <4>1
      <4>2. CASE p # q
        <5>1. park'[p] = park[p]
          BY <1>7, <4>2
        <5>2. park[p] # NoAddress => mem[park[p]] = AssertWord
          BY <2>2 DEF MemInv
        <5>3. park[p] # NoAddress => mem'[park[p]] = mem[park[p]]
          BY <1>5 DEF TakenFor
        <5> QED BY <5>1, <5>2, <5>3
      <4> QED BY <4>1, <4>2
    <3>3. term[p] # NoAddress => mem'[term[p]] = EndWord
      BY <1>5, <2>2 DEF MemInv, TakenFor
    <3> QED BY <3>1, <3>2, <3>3
  <2>3. ASSUME NEW p \in Queues, qState[p] = "alive"
        PROVE  \A c \in Chunks : c < next'[p] => mem'[GuardOf(p, c)] = AssertWord
    BY <1>5, <2>3 DEF TakenFor
  <2> QED BY <2>1, <2>2, <2>3 DEF MemInv
<1> QED BY <1>5, <1>6, <1>7, <1>8, <1>9, <1>10, <1>11, <1>12, <1>13 DEF TakenFor

\* Where a wave that is displaced, or not, may be.
MayBeAt(w, a) ==
  /\ a \in Nat
  /\ ~Displaced(w) => a \in Code
  /\ Displaced(w) /\ obj[ds[w]].to = NoAddress => a \in Code
  /\ Displaced(w) /\ obj[ds[w]].to # NoAddress =>
       a \in {obj[ds[w]].to, obj[ds[w]].to + Size[obj[ds[w]].from]}

\* A wave is stopped at a: parked, or not, and with that pc for the client.
LEMMA Stopped ==
  ASSUME DInv, NEW w \in Waves, NEW a, MayBeAt(w, a), attached, qState[QueueOf[w]] = "alive",
         w \notin hidden, state[w] # "absent", StopAt(w, a),
         UNCHANGED <<hidden, ds, obj, procVars>>,
         done' \in [Waves -> Code \cup {NoAddress}], \A x \in Waves : x # w => done'[x] = done[x]
  PROVE  DInv' /\ PC(w)' = a /\ \A x \in Waves : x # w => Untouched(x) /\ ObjectKept(x)
<1> DEFINE q == QueueOf[w]
<1>1. q \in Queues /\ WaveAt(w) /\ TypeOK /\ PoolInv /\ ObjInv /\ MemInv /\ a \in Addresses
  BY WaveAssumption DEF DInv, MayBeAt, Addresses
<1>2. /\ hidden' = hidden /\ ds' = ds /\ obj' = obj /\ qState' = qState /\ attached' = attached
      /\ frozen' = frozen /\ exited' = exited /\ Live' = Live /\ Displaced(w)' = Displaced(w)
  BY DEF procVars, Live, Displaced
<1>3. state' = [state EXCEPT ![w] = "stop"]
  BY DEF StopAt
<1>4. CASE ~ParkStopped \/ (park[q] = NoAddress /\ ~CanAllocate(q, free[q]))
  <2>1. /\ pc' = [pc EXCEPT ![w] = a] /\ saved' = saved /\ parked' = parked
        /\ UNCHANGED memVars /\ fault' \in {fault, "no_debugger_memory"}
    BY <1>4 DEF StopAt
  <2>2. w \notin parked
    BY <1>1, <1>4 DEF WaveAt
  <2>3. PC(w)' = a
    BY <1>1, <2>1, <2>2 DEF PC, TypeOK
  <2>4. next' = next /\ free' = free /\ mem' = mem /\ park' = park /\ term' = term
    BY <2>1 DEF memVars, poolVars
  <2>5. TypeOK'
    BY <1>1, <1>2, <1>3, <2>1, <2>4 DEF TypeOK
  <2>6. PoolInv' /\ ObjInv' /\ MemInv'
    BY <1>1, <1>2, <2>1, PoolsKept
  <2>7. \A x \in Waves : x # w => Untouched(x) /\ ObjectKept(x)
    <3>1. \A x \in Waves : x # w => Untouched(x)
      BY <1>1, <1>2, <1>3, <2>1 DEF Untouched, TypeOK
    <3>2. \A x \in Waves : ObjectKept(x)
      BY <1>2 DEF ObjectKept, DInv, WaveAt, DisplacedAt
    <3> QED BY <3>1, <3>2
  <2>8. ASSUME NEW x \in Waves, x # w PROVE WaveAt(x)'
    BY <1>2, <2>4, <2>7, <2>8, WaveKept DEF DInv
  <2>9. WaveAt(w)'
    <3>1. state'[w] = "stop" /\ w \notin parked' /\ w \notin hidden'
      BY <1>1, <1>2, <1>3, <2>1, <2>2 DEF TypeOK
    <3>2. Displaced(w) => DisplacedAt(w)'
      BY <1>1, <1>2, <2>3, <3>1 DEF MayBeAt, WaveAt, DisplacedAt
    <3> QED BY <1>1, <1>2, <2>3, <3>1, <3>2 DEF WaveAt, MayBeAt
  <2>10. TermUsed'
    BY <1>1, <1>2, <1>3, <2>4 DEF TermUsed, WavesOf, DInv, TypeOK
  <2> QED BY <2>3, <2>5, <2>6, <2>7, <2>8, <2>9, <2>10 DEF DInv
<1>5. CASE ParkStopped /\ ~(park[q] = NoAddress /\ ~CanAllocate(q, free[q]))
  <2>1. /\ saved' = [saved EXCEPT ![w] = a] /\ parked' = parked \cup {w}
        /\ pc' = [pc EXCEPT ![w] = park'[q]] /\ term' = term /\ fault' = fault
    BY <1>5 DEF StopAt
  <2>2. /\ PoolInv' /\ ObjInv' /\ MemInv'
        /\ free' \in [Queues -> Seq(Chunks)] /\ next' \in [Queues -> 0 .. ChunkCount]
        /\ mem' \in [Pools -> Int] /\ park' \in [Queues -> Addresses]
        /\ park'[q] # NoAddress /\ park'[q] \in Pools /\ mem'[park'[q]] = AssertWord
        /\ \A p \in Queues : /\ park[p] # NoAddress => /\ park'[p] = park[p]
                                                       /\ mem'[park[p]] = mem[park[p]]
                             /\ term[p] # NoAddress => mem'[term[p]] = mem[term[p]]
    <3>1. CASE park[q] = NoAddress
      <4>1. Allocate(q, free[q], <<AssertWord>>) /\ park' = [park EXCEPT ![q] = PlaceOf(q, free[q], 1)]
            /\ CanAllocate(q, free[q])
        BY <1>5, <3>1 DEF StopAt
      <4> QED BY <1>1, <1>2, <2>1, <3>1, <4>1, ParkAllocated
    <3>2. CASE park[q] # NoAddress
      <4>1. next' = next /\ free' = free /\ mem' = mem /\ park' = park
        BY <1>5, <3>2 DEF StopAt, poolVars
      <4>2. PoolInv' /\ ObjInv' /\ MemInv'
        BY <1>1, <1>2, <2>1, <4>1, PoolsKept DEF memVars, poolVars
      <4>3. mem[park[q]] = AssertWord
        BY <1>1, <3>2 DEF MemInv
      <4>4. park[q] \in Pools
        <5>1. Placed(q, next[q], park[q], 1) /\ next[q] \in Nat /\ 1 \in 1 .. LargestSize
          BY <1>1, <3>2, PoolAssumption DEF PoolInv, TypeOK, LargestSize
        <5>2. park[q] \in Nat /\ 0 \in 0 .. 1 /\ \A k \in 0 .. 1 : park[q] + k \in Pools
          BY <1>1, <5>1, PlacedWords
        <5>3. park[q] + 0 = park[q]
          BY <5>2
        <5> QED BY <5>2, <5>3
      <4> QED BY <1>1, <3>2, <4>1, <4>2, <4>3, <4>4 DEF TypeOK
    <3> QED BY <3>1, <3>2
  <2>3. PC(w)' = a
    BY <1>1, <2>1 DEF PC, TypeOK
  <2>4. TypeOK'
    <3>1. pc' \in [Waves -> Addresses] /\ parked' \subseteq Waves
      BY <1>1, <2>1, <2>2 DEF TypeOK
    <3> QED BY <1>1, <1>2, <1>3, <2>1, <2>2, <3>1 DEF TypeOK
  <2>5. \A x \in Waves : x # w => Untouched(x) /\ ObjectKept(x)
    <3>1. \A x \in Waves : x # w => Untouched(x)
      BY <1>1, <1>2, <1>3, <2>1 DEF Untouched, TypeOK
    <3>2. \A x \in Waves : ObjectKept(x)
      BY <1>2 DEF ObjectKept, DInv, WaveAt, DisplacedAt
    <3> QED BY <3>1, <3>2
  <2>6. ASSUME NEW x \in Waves, x # w PROVE WaveAt(x)'
    <3>1. WaveAt(x) /\ QueueOf[x] \in Queues
      BY WaveAssumption DEF DInv
    <3>2. x \in parked => park'[QueueOf[x]] = park[QueueOf[x]]
      BY <2>2, <3>1 DEF WaveAt
    <3>3. x \in hidden \cup parked => mem'[pc[x]] = mem[pc[x]]
      BY <2>2, <3>1 DEF WaveAt
    <3> QED BY <1>2, <2>1, <2>5, <2>6, <3>1, <3>2, <3>3, WaveKept
  <2>7. WaveAt(w)'
    <3>1. state'[w] = "stop" /\ w \in parked' /\ w \notin hidden' /\ pc'[w] = park'[q]
      BY <1>1, <1>2, <1>3, <2>1 DEF TypeOK
    <3>2. Displaced(w) => DisplacedAt(w)'
      BY <1>1, <1>2, <2>3, <3>1 DEF MayBeAt, WaveAt, DisplacedAt
    <3> QED BY <1>1, <1>2, <1>5, <2>2, <2>3, <3>1, <3>2 DEF WaveAt, MayBeAt
  <2>8. TermUsed'
    BY <1>1, <1>2, <1>3, <2>1 DEF TermUsed, WavesOf, DInv, TypeOK
  <2> QED BY <2>2, <2>3, <2>4, <2>5, <2>6, <2>7, <2>8 DEF DInv
<1> QED BY <1>4, <1>5

-----------------------------------------------------------------------------
(* amd_dbgapi_displaced_stepping_start.                                    *)

\* A wave begins to use object i, which stands for the address it is at.
LEMMA Begun ==
  ASSUME DInv, NEW w \in Waves, MayStart(w), NEW i \in Ids, i \in Live',
         obj'[i].from = PC(w), obj'[i].to \in Addresses,
         \A j \in Live : /\ j \in Live' /\ obj'[j].from = obj[j].from /\ obj'[j].to = obj[j].to,
         Begin(w, i), UNCHANGED <<park, term, procVars>>,
         \A p \in Queues : /\ park[p] # NoAddress => mem'[park[p]] = mem[park[p]]
                           /\ term[p] # NoAddress => mem'[term[p]] = mem[term[p]]
  PROVE  /\ \A x \in Waves : WaveAt(x)'
         /\ TermUsed'
         /\ state' = state /\ hidden' = hidden /\ parked' = parked /\ done' = done
         /\ pc' \in [Waves -> Addresses] /\ saved' \in [Waves -> Addresses]
         /\ ds' = [ds EXCEPT ![w] = i] /\ ds' \in [Waves -> Ids \cup {NoId}]
         /\ PC(w)' = IF obj'[i].to # NoAddress THEN obj'[i].to ELSE PC(w)
         /\ \A x \in Waves : x # w => Untouched(x) /\ ObjectKept(x)
<1>1. /\ state' = state /\ hidden' = hidden /\ parked' = parked /\ done' = done
      /\ ds' = [ds EXCEPT ![w] = i]
  BY DEF Begin
<1>2. /\ park' = park /\ term' = term /\ qState' = qState /\ attached' = attached
  BY DEF procVars
<1>3. /\ attached /\ state[w] = "stop" /\ w \notin hidden /\ ~Displaced(w) /\ i # NoId
      /\ TypeOK /\ WaveAt(w) /\ QueueOf[w] \in Queues /\ PC(w) \in Code /\ PC(w) \in Nat
  BY WaveAssumption, CodeApart DEF MayStart, Idle, Found, DInv, WaveAt
<1>4. /\ pc' \in [Waves -> Addresses] /\ saved' \in [Waves -> Addresses]
      /\ \A x \in Waves : x # w => pc'[x] = pc[x] /\ saved'[x] = saved[x]
      /\ w \in parked => pc'[w] = pc[w]
      /\ PC(w)' = IF obj'[i].to # NoAddress THEN obj'[i].to ELSE PC(w)
  <2>1. CASE obj'[i].to = NoAddress
    BY <1>1, <1>3, <2>1 DEF Begin, PC, TypeOK
  <2>2. CASE obj'[i].to # NoAddress /\ w \in parked
    BY <1>1, <1>3, <2>2 DEF Begin, PC, TypeOK, WritePc
  <2>3. CASE obj'[i].to # NoAddress /\ w \notin parked
    BY <1>1, <1>3, <2>3 DEF Begin, PC, TypeOK, WritePc
  <2> QED BY <2>1, <2>2, <2>3
<1>5. ds' \in [Waves -> Ids \cup {NoId}] /\ ds'[w] = i /\ \A x \in Waves : x # w => ds'[x] = ds[x]
  BY <1>1, <1>3 DEF TypeOK
<1>6. \A x \in Waves : x # w => Untouched(x) /\ ObjectKept(x)
  BY <1>1, <1>4, <1>5 DEF Untouched, ObjectKept, DInv, WaveAt, DisplacedAt
<1>7. ASSUME NEW x \in Waves, x \in hidden \cup parked PROVE mem'[pc[x]] = mem[pc[x]]
  <2>1. WaveAt(x) /\ QueueOf[x] \in Queues
    BY WaveAssumption DEF DInv
  <2> QED BY <1>3, <1>7, <2>1 DEF WaveAt
<1>8. ASSUME NEW x \in Waves, x # w PROVE WaveAt(x)'
  BY <1>2, <1>6, <1>7, <1>8, WaveKept DEF DInv
<1>9. WaveAt(w)'
  <2>1. DisplacedAt(w)'
    BY <1>1, <1>3, <1>4, <1>5 DEF DisplacedAt
  <2>2. Displaced(w)'
    BY <1>3, <1>5 DEF Displaced
  <2>3. w \in parked => /\ ParkStopped /\ park[QueueOf[w]] # NoAddress /\ pc'[w] = park[QueueOf[w]]
                        /\ qState[QueueOf[w]] = "alive" => pc'[w] \in Pools /\ mem'[pc'[w]] = AssertWord
    BY <1>3, <1>4, <1>7 DEF WaveAt
  <2>4. qState[QueueOf[w]] # "gone"
    BY <1>3 DEF WaveAt
  <2> QED BY <1>1, <1>2, <1>3, <2>1, <2>2, <2>3, <2>4 DEF WaveAt
<1>10. TermUsed'
  BY <1>1, <1>2 DEF TermUsed, DInv
<1> QED BY <1>1, <1>4, <1>5, <1>6, <1>8, <1>9, <1>10

\* The object is shared: one more reference.
LEMMA StartSharedInv ==
  ASSUME DInv, NEW w \in Waves, StartShared(w)
  PROVE  DInv' /\ \A x \in Waves : x # w => Untouched(x) /\ ObjectKept(x)
<1>0. TypeOK /\ PoolInv /\ ObjInv /\ MemInv
  BY DEF DInv
<1>1. PICK i \in Shared(w) : obj' = [obj EXCEPT ![i].refs = @ + 1] /\ Begin(w, i)
  BY DEF StartShared
<1>2. MayStart(w) /\ memVars' = memVars /\ procVars' = procVars /\ fault' = fault
  BY DEF StartShared
<1>3. i \in Live /\ i \in Ids /\ obj[i].queue = QueueOf[w] /\ obj[i].from = PC(w)
  BY DEF Shared, Live
<1>4. obj[i] \in Objects /\ obj[i].refs \in Nat /\ obj[i].to \in Addresses
  BY <1>0, <1>3, LiveObject, ObjectFields
<1> DEFINE more == [obj[i] EXCEPT !.refs = obj[i].refs + 1]
<1>5. /\ more \in Objects /\ more # NoObject /\ more.queue = obj[i].queue
      /\ more.from = obj[i].from /\ more.to = obj[i].to /\ more.refs = obj[i].refs + 1
  <2>1. obj[i].refs + 1 \in Nat
    BY <1>4
  <2> QED BY <1>4, <2>1, ObjectFields
<1>6. obj' = [obj EXCEPT ![i] = more]
  BY <1>1
<1> HIDE DEF more
<1>7. /\ obj' \in [Ids -> Objects \cup {NoObject}] /\ obj'[i] = more
      /\ \A j \in Ids : j # i => obj'[j] = obj[j]
  BY <1>0, <1>3, <1>5, <1>6 DEF TypeOK
<1>8. Live' = Live
  BY <1>3, <1>5, <1>7 DEF Live
<1>9. \A j \in Live : /\ obj'[j].queue = obj[j].queue
                      /\ obj'[j].from = obj[j].from /\ obj'[j].to = obj[j].to
  BY <1>5, <1>7 DEF Live
<1>10. next' = next /\ free' = free /\ mem' = mem /\ park' = park /\ term' = term
  BY <1>2 DEF memVars, poolVars
<1>11. /\ \A x \in Waves : WaveAt(x)'
       /\ TermUsed'
       /\ state' = state /\ hidden' = hidden /\ parked' = parked /\ done' = done
       /\ pc' \in [Waves -> Addresses] /\ saved' \in [Waves -> Addresses]
       /\ ds' = [ds EXCEPT ![w] = i] /\ ds' \in [Waves -> Ids \cup {NoId}]
       /\ \A x \in Waves : x # w => Untouched(x) /\ ObjectKept(x)
  BY <1>1, <1>2, <1>3, <1>4, <1>8, <1>9, <1>10, Begun
<1>12. TypeOK'
  BY <1>0, <1>2, <1>7, <1>10, <1>11 DEF TypeOK, procVars
<1>13. PoolInv'
  <2>1. \A j \in Ids : \/ /\ obj[j] # NoObject /\ obj'[j] # NoObject
                          /\ obj[j].queue = obj'[j].queue /\ obj[j].to = obj'[j].to
                       \/ obj[j] = NoObject /\ obj'[j] = NoObject
    BY <1>8, <1>9 DEF Live
  <2>2. \A q \in Queues : Accounts(q, free[q], obj', next[q], park[q], term[q])
    BY <1>0, <2>1, SameAccounts DEF PoolInv
  <2> QED BY <1>0, <1>10, <2>2 DEF PoolInv
<1>14. ObjInv'
  <2>1. ~Displaced(w) /\ i # NoId
    BY <1>2, <1>3, WaveAssumption DEF MayStart
  <2>2. ds'[w] = i /\ \A x \in Waves : x # w => ds'[x] = ds[x]
    BY <1>0, <1>11 DEF TypeOK
  <2>3. ASSUME NEW j \in Live
        PROVE  /\ obj'[j].refs >= 1 /\ obj'[j].refs = Cardinality(Users(j)')
               /\ \A x \in Users(j)' : QueueOf[x] = obj[j].queue
    <3>1. CASE j = i
      <4>1. Users(i)' = Users(i) \cup {w} /\ w \notin Users(i)
        BY <2>1, <2>2 DEF Users, Displaced
      <4>2. IsFiniteSet(Users(i))
        BY WaveAssumption, FS_Subset DEF Users
      <4>3. Cardinality(Users(i)') = Cardinality(Users(i)) + 1
        BY <4>1, <4>2, FS_AddElement
      <4>4. obj[i].refs = Cardinality(Users(i)) /\ obj[i].refs >= 1
            /\ \A x \in Users(i) : QueueOf[x] = obj[i].queue
        BY <1>0, <1>3 DEF ObjInv
      <4>5. obj'[i].refs >= 1 /\ obj'[i].refs = Cardinality(Users(i)')
        BY <1>4, <1>5, <1>7, <4>3, <4>4
      <4>6. \A x \in Users(i)' : QueueOf[x] = obj[i].queue
        BY <1>3, <4>1, <4>4
      <4> QED BY <3>1, <4>5, <4>6
    <3>2. CASE j # i
      <4>1. Users(j)' = Users(j)
        <5>1. j # NoId /\ ds[w] = NoId
          BY <2>1, WaveAssumption DEF Live, Displaced
        <5> QED BY <2>2, <3>2, <5>1 DEF Users
      <4>2. obj'[j] = obj[j]
        BY <1>7, <3>2 DEF Live
      <4> QED BY <1>0, <4>1, <4>2 DEF ObjInv
    <3> QED BY <3>1, <3>2
  <2> QED BY <1>0, <1>8, <1>9, <1>10, <2>3 DEF ObjInv
<1>15. MemInv'
  BY <1>0, <1>2, <1>8, <1>9, <1>10 DEF MemInv, procVars
<1> QED BY <1>11, <1>12, <1>13, <1>14, <1>15 DEF DInv

\* A new object: it has one wave, and no other object stands for its address.
NewFor(w, i, to) ==
  obj' = [obj EXCEPT ![i] = NewObject(w, to)] /\ ds' = [ds EXCEPT ![w] = i]

\* What NewFor leaves: objects that are counted, and one more of them.
LEMMA NewCounts ==
  ASSUME DInv, NEW w \in Waves, MayStart(w), Shared(w) = {}, NEW i \in Ids \ Live, NEW to \in Addresses,
         NewFor(w, i, to),
         next' \in [Queues -> 0 .. ChunkCount], \A q \in Queues : next[q] <= next'[q],
         to = NoAddress => CanSimulate(PC(w)),
         to # NoAddress => /\ CanExecuteDisplaced(PC(w))
                           /\ Placed(QueueOf[w], next'[QueueOf[w]], to, Size[PC(w)])
  PROVE  /\ ObjInv'
         /\ obj' \in [Ids -> Objects \cup {NoObject}] /\ obj'[i] \in Objects
         /\ obj[i] = NoObject /\ obj'[i] # NoObject
         /\ obj'[i].queue = QueueOf[w] /\ obj'[i].from = PC(w) /\ obj'[i].to = to
         /\ \A j \in Ids : j # i => obj'[j] = obj[j]
         /\ Live' = Live \cup {i}
<1> DEFINE o == NewObject(w, to)
<1>0. TypeOK /\ ObjInv
  BY DEF DInv
<1>1. QueueOf[w] \in Queues /\ PC(w) \in Code /\ ds[w] = NoId
  BY WaveAssumption DEF MayStart, Idle, Found, DInv, WaveAt, Displaced
<1>2. /\ o \in Objects /\ o # NoObject /\ o.queue = QueueOf[w] /\ o.from = PC(w)
      /\ o.to = to /\ o.refs = 1
  <2>1. /\ o \in Objects /\ o.queue = QueueOf[w] /\ o.from = PC(w)
        /\ o.to = to /\ o.refs = 1
    BY <1>1 DEF NewObject, Objects
  <2> HIDE DEF o
  <2> QED BY <2>1, ObjectFields
<1> HIDE DEF o
<1>3. obj' = [obj EXCEPT ![i] = o]
  BY DEF o, NewFor
<1>4. /\ obj' \in [Ids -> Objects \cup {NoObject}] /\ obj'[i] = o
      /\ \A j \in Ids : j # i => obj'[j] = obj[j]
  BY <1>0, <1>2, <1>3 DEF TypeOK
<1>5. Users(i) = {} /\ obj[i] = NoObject
  BY NoUsers DEF DInv
<1>6. Live' = Live \cup {i}
  BY <1>2, <1>4 DEF Live
<1>7. ds'[w] = i /\ \A x \in Waves : x # w => ds'[x] = ds[x]
  BY <1>0 DEF TypeOK, NewFor
<1>8. Users(i)' = {w} /\ \A j \in Live : Users(j)' = Users(j)
  <2>1. Users(i)' = {w}
    BY <1>5, <1>7 DEF Users
  <2>2. ASSUME NEW j \in Live PROVE Users(j)' = Users(j)
    <3>1. j # NoId /\ j # i
      BY WaveAssumption DEF Live
    <3> QED BY <1>1, <1>7, <3>1 DEF Users
  <2> QED BY <2>1, <2>2
<1>9. Cardinality({w}) = 1
  BY FS_Singleton
<1>10. ASSUME NEW j \in Live PROVE obj'[j] = obj[j] /\ obj[j].queue \in Queues
  BY <1>0, <1>4, LiveObject, ObjectFields DEF Live
<1>11. ASSUME NEW j \in Live, obj[j].to # NoAddress
       PROVE  Placed(obj[j].queue, next'[obj[j].queue], obj[j].to, Size[obj[j].from])
  <2>1. obj[j].queue \in Queues /\ Placed(obj[j].queue, next[obj[j].queue], obj[j].to, Size[obj[j].from])
    BY <1>0, <1>11, BufferPlaced
  <2>2. next[obj[j].queue] \in Nat /\ next'[obj[j].queue] \in Nat
        /\ next[obj[j].queue] <= next'[obj[j].queue]
    BY <1>0, <2>1, PoolAssumption DEF TypeOK
  <2> QED BY <2>1, <2>2, PlacedLater
<1>12. ASSUME NEW j \in Live'
       PROVE  /\ obj'[j].refs >= 1 /\ obj'[j].refs = Cardinality(Users(j)')
              /\ \A x \in Users(j)' : QueueOf[x] = obj'[j].queue
              /\ obj'[j].to = NoAddress => CanSimulate(obj'[j].from)
              /\ obj'[j].to # NoAddress =>
                   /\ CanExecuteDisplaced(obj'[j].from)
                   /\ Placed(obj'[j].queue, next'[obj'[j].queue], obj'[j].to, Size[obj'[j].from])
  <2>1. CASE j = i
    BY <1>2, <1>4, <1>8, <1>9, <2>1
  <2>2. CASE j \in Live
    BY <1>0, <1>8, <1>10, <1>11, <2>2 DEF ObjInv
  <2> QED BY <1>6, <2>1, <2>2
<1>13. ASSUME NEW j \in Live', NEW k \in Live',
              obj'[j].queue = obj'[k].queue, obj'[j].from = obj'[k].from
       PROVE  j = k
  <2>1. \A l \in Live : ~(obj[l].queue = QueueOf[w] /\ obj[l].from = PC(w))
    BY DEF Shared
  <2> QED BY <1>0, <1>2, <1>4, <1>6, <1>10, <1>13, <2>1 DEF ObjInv
<1>14. ObjInv'
  BY <1>12, <1>13 DEF ObjInv
<1> QED BY <1>2, <1>4, <1>5, <1>6, <1>14

\* The object of a simulated instruction has no buffer.
LEMMA StartSimulatedInv ==
  ASSUME DInv, NEW w \in Waves, StartSimulated(w)
  PROVE  DInv' /\ \A x \in Waves : x # w => Untouched(x) /\ ObjectKept(x)
<1>0. TypeOK /\ PoolInv /\ ObjInv /\ MemInv
  BY DEF DInv
<1>1. PICK i \in Ids \ Live : obj' = [obj EXCEPT ![i] = NewObject(w, NoAddress)] /\ Begin(w, i)
  BY DEF StartSimulated
<1>2. MayStart(w) /\ Shared(w) = {} /\ CanSimulate(PC(w))
      /\ procVars' = procVars /\ fault' = fault
  BY DEF StartSimulated
<1>3. next' = next /\ free' = free /\ mem' = mem /\ park' = park /\ term' = term
  BY DEF StartSimulated, memVars, poolVars
<1>4. ds' = [ds EXCEPT ![w] = i] /\ NoAddress \in Addresses
      /\ next' \in [Queues -> 0 .. ChunkCount] /\ \A q \in Queues : next[q] <= next'[q]
  <2>1. \A q \in Queues : next[q] \in Nat
    BY <1>0, PoolAssumption DEF TypeOK
  <2> QED BY <1>0, <1>1, <1>3, <2>1 DEF Begin, Addresses, TypeOK
<1>5. /\ ObjInv'
      /\ obj' \in [Ids -> Objects \cup {NoObject}]
      /\ obj[i] = NoObject /\ obj'[i] # NoObject
      /\ obj'[i].queue = QueueOf[w] /\ obj'[i].from = PC(w) /\ obj'[i].to = NoAddress
      /\ \A j \in Ids : j # i => obj'[j] = obj[j]
      /\ Live' = Live \cup {i}
  <2>1. NewFor(w, i, NoAddress)
    BY <1>1, <1>4 DEF NewFor
  <2> QED BY <1>2, <1>4, <2>1, NewCounts
<1>6. \A j \in Live : j # i /\ j \in Ids
  BY DEF Live
<1>7. /\ \A x \in Waves : WaveAt(x)'
      /\ TermUsed'
      /\ state' = state /\ hidden' = hidden /\ parked' = parked /\ done' = done
      /\ pc' \in [Waves -> Addresses] /\ saved' \in [Waves -> Addresses]
      /\ ds' \in [Waves -> Ids \cup {NoId}]
      /\ \A x \in Waves : x # w => Untouched(x) /\ ObjectKept(x)
  <2>1. i \in Live' /\ \A j \in Live : /\ j \in Live' /\ obj'[j].from = obj[j].from
                                       /\ obj'[j].to = obj[j].to
    BY <1>5, <1>6
  <2> QED BY <1>1, <1>2, <1>3, <1>4, <1>5, <2>1, Begun
<1>8. TypeOK'
  BY <1>0, <1>2, <1>3, <1>5, <1>7 DEF TypeOK, procVars
<1>9. PoolInv'
  <2>1. ASSUME NEW q \in Queues PROVE Accounts(q, free[q], obj', next[q], park[q], term[q])
    <3>1. \A j \in Ids : \/ /\ obj[j] # NoObject /\ obj'[j] # NoObject
                            /\ obj[j].queue = obj'[j].queue /\ obj[j].to = obj'[j].to
                         \/ /\ obj[j] = NoObject
                            /\ obj'[j] = NoObject \/ obj'[j].to = NoAddress
      BY <1>5
    <3> QED BY <1>0, <3>1, SameAccounts DEF PoolInv
  <2> QED BY <1>0, <1>3, <2>1 DEF PoolInv
<1>10. MemInv'
  <2>1. qState' = qState
    BY <1>2 DEF procVars
  <2>2. \A j \in Live' : obj'[j].to # NoAddress => j \in Live /\ obj'[j] = obj[j]
    BY <1>5, <1>6
  <2> QED BY <1>0, <1>3, <2>1, <2>2 DEF MemInv
<1> QED BY <1>5, <1>7, <1>8, <1>9, <1>10 DEF DInv

\* The words of an instruction.
LEMMA InstructionWords ==
  ASSUME NEW a \in Code
  PROVE  /\ InstructionAt(a) \in Seq(Int) /\ Len(InstructionAt(a)) = Size[a]
         /\ \A k \in 0 .. Size[a] - 1 : InstructionAt(a)[k + 1] = a + k
<1>1. a \in Nat /\ Size[a] \in Nat
  BY CodeApart DEF LargestSize
<1>2. InstructionAt(a) \in [1 .. Size[a] -> Int]
  BY <1>1 DEF InstructionAt
<1>3. InstructionAt(a) \in Seq(Int) /\ Len(InstructionAt(a)) = Size[a]
  BY <1>1, <1>2
<1>4. ASSUME NEW k \in 0 .. Size[a] - 1 PROVE InstructionAt(a)[k + 1] = a + k
  <2>1. k + 1 \in 1 .. Size[a] /\ a + (k + 1) - 1 = a + k
    BY <1>1
  <2>2. InstructionAt(a)[k + 1] = a + (k + 1) - 1
    BY <2>1 DEF InstructionAt
  <2> QED BY <2>1, <2>2
<1> QED BY <1>3, <1>4

\* The object of an instruction that is displaced has a chunk of its own, with
\* the whole of the instruction in it.
LEMMA StartDisplacedInv ==
  ASSUME DInv, NEW w \in Waves, StartDisplaced(w)
  PROVE  DInv' /\ \A x \in Waves : x # w => Untouched(x) /\ ObjectKept(x)
<1> DEFINE q == QueueOf[w]
           from == PC(w)
           words == InstructionAt(from)
           to == PlaceOf(q, free[q], Size[from])
<1>0. TypeOK /\ PoolInv /\ ObjInv /\ MemInv
  BY DEF DInv
<1>1. MayStart(w) /\ Shared(w) = {} /\ CanExecuteDisplaced(from)
      /\ CanAllocate(q, free[q]) /\ Allocate(q, free[q], words)
      /\ UNCHANGED <<park, term, procVars, fault>>
  BY DEF StartDisplaced
<1>2. PICK i \in Ids \ Live : obj' = [obj EXCEPT ![i] = NewObject(w, to)] /\ Begin(w, i)
  BY DEF StartDisplaced
<1>3. q \in Queues /\ from \in Code /\ qState[q] = "alive" /\ Size[from] \in 1 .. LargestSize
  <2>1. WaveAt(w)
    BY DEF DInv
  <2> QED BY <1>1, <2>1, WaveAssumption, CodeApart DEF MayStart, Idle, Found, WaveAt
<1> HIDE DEF from, q
<1>4. /\ words \in Seq(Int) /\ Len(words) = Size[from]
      /\ \A k \in 0 .. Size[from] - 1 : words[k + 1] = from + k
  BY <1>3, InstructionWords
<1> HIDE DEF words
<1>5. TakenFor(q, free[q], obj, words, to, Size[from])
  <2>1. free[q] \in Seq(Chunks) /\ Accounts(q, free[q], obj, next[q], park[q], term[q])
    BY <1>0, <1>3 DEF TypeOK, PoolInv
  <2>2. \A j \in Ids : obj[j] # NoObject =>
          /\ j \in Live /\ obj[j].queue = obj[j].queue /\ obj[j].from = obj[j].from
          /\ obj[j].to = obj[j].to
    BY DEF Live
  <2>3. TakenFor(q, free[q], obj, words, PlaceOf(q, free[q], Len(words)), Len(words))
    BY <1>0, <1>1, <1>3, <1>4, <2>1, <2>2, AllocatedMemory
  <2> QED BY <1>4, <2>3
<1> HIDE DEF to
<1>6. to \in Addresses /\ to # NoAddress /\ Placed(q, next'[q], to, Size[from])
  BY <1>5 DEF TakenFor, Addresses, IsAt
<1>7. next' \in [Queues -> 0 .. ChunkCount] /\ \A p \in Queues : next[p] <= next'[p]
  BY <1>5 DEF TakenFor
<1>8. ds' = [ds EXCEPT ![w] = i]
  BY <1>2 DEF Begin
<1>9. /\ ObjInv'
      /\ obj' \in [Ids -> Objects \cup {NoObject}]
      /\ obj[i] = NoObject /\ obj'[i] # NoObject
      /\ obj'[i].queue = q /\ obj'[i].from = from /\ obj'[i].to = to
      /\ \A j \in Ids : j # i => obj'[j] = obj[j]
      /\ Live' = Live \cup {i}
  <2>1. /\ CanExecuteDisplaced(PC(w)) /\ Placed(QueueOf[w], next'[QueueOf[w]], to, Size[PC(w)])
        /\ to = NoAddress => CanSimulate(PC(w))
    BY <1>1, <1>6 DEF q, from
  <2>2. /\ ObjInv'
        /\ obj' \in [Ids -> Objects \cup {NoObject}]
        /\ obj[i] = NoObject /\ obj'[i] # NoObject
        /\ obj'[i].queue = QueueOf[w] /\ obj'[i].from = PC(w) /\ obj'[i].to = to
        /\ \A j \in Ids : j # i => obj'[j] = obj[j]
        /\ Live' = Live \cup {i}
    <3>1. NewFor(w, i, to)
      BY <1>2, <1>8 DEF NewFor
    <3> QED BY <1>1, <1>6, <1>7, <2>1, <3>1, NewCounts
  <2> QED BY <2>2 DEF q, from
<1>10. \A j \in Live : j # i /\ j \in Ids
  BY DEF Live
<1>11. \A p \in Queues : /\ park[p] # NoAddress => mem'[park[p]] = mem[park[p]]
                         /\ term[p] # NoAddress => mem'[term[p]] = mem[term[p]]
  BY <1>5 DEF TakenFor
<1>12. /\ \A x \in Waves : WaveAt(x)'
       /\ TermUsed'
       /\ state' = state /\ hidden' = hidden /\ parked' = parked /\ done' = done
       /\ pc' \in [Waves -> Addresses] /\ saved' \in [Waves -> Addresses]
       /\ ds' \in [Waves -> Ids \cup {NoId}]
       /\ \A x \in Waves : x # w => Untouched(x) /\ ObjectKept(x)
  <2>1. i \in Live' /\ obj'[i].from = PC(w) /\ obj'[i].to \in Addresses
        /\ \A j \in Live : /\ j \in Live' /\ obj'[j].from = obj[j].from
                           /\ obj'[j].to = obj[j].to
    BY <1>6, <1>9, <1>10 DEF from
  <2> QED BY <1>1, <1>2, <1>11, <2>1, Begun
<1>13. TypeOK'
  BY <1>0, <1>1, <1>5, <1>9, <1>12 DEF TypeOK, procVars, TakenFor
<1>14. PoolInv'
  <2>1. ASSUME NEW p \in Queues
        PROVE  /\ Accounts(p, free'[p], obj', next'[p], park[p], term[p])
               /\ park[p] # NoAddress => Placed(p, next'[p], park[p], 1)
               /\ term[p] # NoAddress => Placed(p, next'[p], term[p], 1)
    <3>0. next[p] \in Nat /\ next'[p] \in Nat /\ next[p] <= next'[p]
      BY <1>0, <1>7, PoolAssumption DEF TypeOK
    <3>1. /\ park[p] # NoAddress => Placed(p, next'[p], park[p], 1)
          /\ term[p] # NoAddress => Placed(p, next'[p], term[p], 1)
      BY <1>0, <3>0, PlacedLater DEF PoolInv
    <3>2. CASE p = q
      <4>1. free'[q] = ListAfter(free[q]) /\ next'[q] = CountAfter(free[q], next[q])
            /\ IsAt(q, obj'[i].to, Chunk(q, free[q]))
        BY <1>0, <1>3, <1>5, <1>9 DEF TypeOK, TakenFor
      <4>2. free[q] \in Seq(Chunks) /\ next[q] \in 0 .. ChunkCount
            /\ Accounts(q, free[q], obj, next[q], park[q], term[q])
        BY <1>0, <1>3 DEF TypeOK, PoolInv
      <4>3. Accounts(q, ListAfter(free[q]), obj', CountAfter(free[q], next[q]), park[q], term[q])
        BY <1>1, <1>3, <1>9, <4>1, <4>2, TakenToDisplace
      <4> QED BY <3>1, <3>2, <4>1, <4>3
    <3>3. CASE p # q
      <4>1. free'[p] = free[p] /\ next'[p] = next[p]
        BY <1>0, <1>3, <1>5, <3>3 DEF TypeOK, TakenFor
      <4>2. \A j \in Ids : \/ /\ obj[j] # NoObject /\ obj'[j] # NoObject
                              /\ obj[j].queue = obj'[j].queue /\ obj[j].to = obj'[j].to
                           \/ /\ obj[j] = NoObject
                              /\ obj'[j] = NoObject \/ obj'[j].queue # p
        BY <1>9, <3>3
      <4>3. Accounts(p, free[p], obj', next[p], park[p], term[p])
        BY <1>0, <4>2, SameAccounts DEF PoolInv
      <4> QED BY <3>1, <4>1, <4>3
    <3> QED BY <3>2, <3>3
  <2> QED BY <1>1, <2>1 DEF PoolInv
<1>15. MemInv'
  <2>1. ASSUME NEW p \in Queues, qState[p] = "alive"
        PROVE  /\ \A c \in Chunks : c < next'[p] => mem'[GuardOf(p, c)] = AssertWord
               /\ park[p] # NoAddress => mem'[park[p]] = AssertWord
               /\ term[p] # NoAddress => mem'[term[p]] = EndWord
    <3>1. \A c \in Chunks : c < next'[p] => mem'[GuardOf(p, c)] = AssertWord
      BY <1>5, <2>1 DEF TakenFor
    <3>2. /\ park[p] # NoAddress => mem'[park[p]] = AssertWord
          /\ term[p] # NoAddress => mem'[term[p]] = EndWord
      BY <1>0, <1>11, <2>1 DEF MemInv
    <3> QED BY <3>1, <3>2
  <2>2. ASSUME NEW p \in Queues, qState[p] = "alive", NEW j \in Live', obj'[j].queue = p,
               obj'[j].to # NoAddress, NEW k \in 0 .. Size[obj'[j].from] - 1
        PROVE  mem'[obj'[j].to + k] = obj'[j].from + k
    <3>1. CASE j = i
      BY <1>4, <1>5, <1>9, <2>2, <3>1 DEF TakenFor
    <3>2. CASE j \in Live
      <4>1. obj'[j] = obj[j] /\ j \in Ids /\ obj[j] # NoObject
        BY <1>9, <1>10, <3>2 DEF Live
      <4>2. mem'[obj[j].to + k] = mem[obj[j].to + k]
        BY <1>5, <2>2, <4>1 DEF TakenFor
      <4>3. mem[obj[j].to + k] = obj[j].from + k
        BY <1>0, <2>2, <3>2, <4>1 DEF MemInv
      <4> QED BY <4>1, <4>2, <4>3
    <3> QED BY <1>9, <3>1, <3>2
  <2>3. qState' = qState /\ park' = park /\ term' = term
    BY <1>1 DEF procVars
  <2> QED BY <2>1, <2>2, <2>3 DEF MemInv
<1> QED BY <1>9, <1>12, <1>13, <1>14, <1>15 DEF DInv

-----------------------------------------------------------------------------
(* amd_dbgapi_displaced_stepping_complete.                                 *)

\* What a client sees of a wave is an address of the program.
LEMMA VisibleInCode ==
  ASSUME TypeOK, ObjInv, NEW w \in Waves, WaveAt(w), state[w] # "absent", w \notin hidden
  PROVE  /\ VisiblePc(w) \in Code
         /\ Displaced(w) /\ obj[ds[w]].to # NoAddress =>
              \/ PC(w) = obj[ds[w]].to /\ VisiblePc(w) = obj[ds[w]].from
              \/ /\ PC(w) = obj[ds[w]].to + Size[obj[ds[w]].from]
                 /\ VisiblePc(w) = obj[ds[w]].from + Size[obj[ds[w]].from]
<1>1. CASE ~Displaced(w) \/ obj[ds[w]].to = NoAddress
  BY <1>1 DEF WaveAt, DisplacedAt, VisiblePc
<1>2. CASE Displaced(w) /\ obj[ds[w]].to # NoAddress
  <2> DEFINE to == obj[ds[w]].to
             from == obj[ds[w]].from
  <2>1. ds[w] \in Live /\ PC(w) \in {to, to + Size[from]}
    BY <1>2 DEF WaveAt, DisplacedAt
  <2>2. from \in Code /\ Size[from] \in 1 .. LargestSize /\ to \in Nat /\ from \in Nat
    BY <1>2, <2>1, BufferPlaced, CodeApart
  <2>3. from + Size[from] \in Code
    <3>1. Kind[from] = "plain"
      BY <1>2, <2>1 DEF ObjInv, CanExecuteDisplaced
    <3>2. Succ[from] = {from + Size[from]} /\ Succ[from] \subseteq Code
      BY <2>2, <3>1, CodeAssumption
    <3> QED BY <3>2
  <2>4. VisiblePc(w) = PC(w) + from - to
    BY <1>2 DEF VisiblePc
  <2> HIDE DEF to, from
  <2>5. \/ PC(w) = to /\ VisiblePc(w) = from
        \/ PC(w) = to + Size[from] /\ VisiblePc(w) = from + Size[from]
    BY <2>1, <2>2, <2>4 DEF LargestSize
  <2> QED BY <2>2, <2>3, <2>5 DEF to, from
<1> QED BY <1>1, <1>2

\* The last reference is not that of a wave which shares its object.
LEMMA SharedIsNotLast ==
  ASSUME TypeOK, ObjInv, NEW w \in Waves, NEW x \in Waves, WaveAt(w), Displaced(w), ds[x] = ds[w], x # w
  PROVE  ~LastUser(w)
<1>1. ds[w] \in Live /\ {w, x} \subseteq Users(ds[w])
  BY OwnObject DEF Users
<1>2. IsFiniteSet(Users(ds[w]))
  BY WaveAssumption, FS_Subset DEF Users
<1>3. Cardinality(Users(ds[w])) # 1
  <2>1. ~\E y : Users(ds[w]) = {y}
    BY <1>1
  <2> QED BY <1>2, <2>1, FS_Singleton
<1> QED BY <1>1, <1>3 DEF ObjInv, LastUser

\* A release keeps what the other waves use, and adds nothing.
LEMMA ReleasedKeeps ==
  ASSUME TypeOK, ObjInv, NEW w \in Waves, \A x \in Waves : WaveAt(x), obj' = ObjReleased(w)
  PROVE  /\ \A i \in Ids : ObjReleased(w)[i] # NoObject =>
              /\ i \in Live /\ ObjReleased(w)[i].queue = obj[i].queue
              /\ ObjReleased(w)[i].from = obj[i].from /\ ObjReleased(w)[i].to = obj[i].to
         /\ \A x \in Waves : x # w => ObjectKept(x)
<1>0. WaveAt(w)
  OBVIOUS
<1>1. ASSUME NEW i \in Ids, ObjReleased(w)[i] # NoObject
      PROVE  /\ i \in Live /\ ObjReleased(w)[i].queue = obj[i].queue
             /\ ObjReleased(w)[i].from = obj[i].from /\ ObjReleased(w)[i].to = obj[i].to
  <2>1. CASE i # ds[w] \/ ~Displaced(w)
    BY <1>0, <1>1, <2>1, ReleasedObject DEF Live
  <2>2. CASE i = ds[w] /\ Displaced(w)
    BY <1>0, <1>1, <2>2, ReleasedObject, OwnObject
  <2> QED BY <2>1, <2>2
<1>2. ASSUME NEW x \in Waves, x # w, Displaced(x)
      PROVE  ds[x] \in Live' /\ obj'[ds[x]].from = obj[ds[x]].from /\ obj'[ds[x]].to = obj[ds[x]].to
  <2>1. ds[x] \in Live /\ ds[x] \in Ids /\ obj[ds[x]] # NoObject
    BY <1>2, OwnObject
  <2>2. obj'[ds[x]] # NoObject
    <3>1. CASE ds[x] # ds[w] \/ ~Displaced(w)
      BY <1>0, <2>1, <3>1, ReleasedObject
    <3>2. CASE ds[x] = ds[w] /\ Displaced(w)
      BY <1>0, <1>2, <3>2, SharedIsNotLast, ReleasedObject
    <3> QED BY <3>1, <3>2
  <2> QED BY <1>1, <2>1, <2>2 DEF Live
<1> QED BY <1>1, <1>2 DEF ObjectKept

\* The step is complete: the wave is where it would be without the buffer.
LEMMA CompleteInv ==
  ASSUME DInv, NEW w \in Waves, Complete(w)
  PROVE  /\ DInv' /\ PC(w)' = VisiblePc(w)
         /\ \A x \in Waves : x # w => Untouched(x) /\ ObjectKept(x)
<1> DEFINE q == QueueOf[w]
<1>0. TypeOK /\ PoolInv /\ ObjInv /\ MemInv /\ WaveAt(w) /\ \A x \in Waves : WaveAt(x)
  BY DEF DInv
<1>1. /\ attached /\ qState[q] = "alive" /\ state[w] = "stop" /\ w \notin hidden
      /\ WritePc(w, VisiblePc(w)) /\ obj' = ObjReleased(w)
      /\ free' = [free EXCEPT ![q] = FreeReleased(w)] /\ ds' = [ds EXCEPT ![w] = NoId]
      /\ state' = state /\ hidden' = hidden /\ parked' = parked /\ done' = done
      /\ next' = next /\ mem' = mem /\ park' = park /\ term' = term
      /\ qState' = qState /\ attached' = attached /\ frozen' = frozen /\ exited' = exited
      /\ fault' = fault
  BY DEF Complete, Idle, Found, Restored, procVars
<1>2. q \in Queues /\ VisiblePc(w) \in Code /\ VisiblePc(w) \in Addresses
  BY <1>0, <1>1, WaveAssumption, VisibleInCode, CodeApart DEF Addresses
<1>3. /\ pc' \in [Waves -> Addresses] /\ saved' \in [Waves -> Addresses]
      /\ \A x \in Waves : x # w => pc'[x] = pc[x] /\ saved'[x] = saved[x]
      /\ w \in parked => pc'[w] = pc[w]
      /\ PC(w)' = VisiblePc(w)
  <2> DEFINE a == VisiblePc(w)
  <2>1. WritePc(w, a) /\ a \in Addresses
    BY <1>1, <1>2
  <2> HIDE DEF a
  <2>2. CASE w \in parked
    BY <1>0, <1>1, <2>1, <2>2 DEF PC, TypeOK, WritePc, a
  <2>3. CASE w \notin parked
    BY <1>0, <1>1, <2>1, <2>3 DEF PC, TypeOK, WritePc, a
  <2> QED BY <2>2, <2>3
<1>4. ds' \in [Waves -> Ids \cup {NoId}] /\ ds'[w] = NoId /\ \A x \in Waves : x # w => ds'[x] = ds[x]
  BY <1>0, <1>1 DEF TypeOK
<1>5. /\ \A i \in Ids : obj'[i] # NoObject =>
           /\ i \in Live /\ obj'[i].queue = obj[i].queue
           /\ obj'[i].from = obj[i].from /\ obj'[i].to = obj[i].to
      /\ \A x \in Waves : x # w => ObjectKept(x)
  BY <1>0, <1>1, ReleasedKeeps
<1>6. \A x \in Waves : x # w => Untouched(x) /\ ObjectKept(x)
  BY <1>1, <1>3, <1>4, <1>5 DEF Untouched
<1>7. ASSUME NEW x \in Waves, x # w PROVE WaveAt(x)'
  BY <1>0, <1>1, <1>6, <1>7, WaveKept
<1>8. WaveAt(w)'
  <2>1. ~Displaced(w)' /\ PC(w)' \in Code
    BY <1>2, <1>3, <1>4 DEF Displaced
  <2> QED BY <1>0, <1>1, <1>3, <2>1 DEF WaveAt
<1>9. /\ free' \in [Queues -> Seq(Chunks)]
      /\ \A p \in Queues : Accounts(p, free'[p], obj', next[p], park[p], term[p])
  <2>1. \A p \in Queues : free'[p] = IF p = q THEN FreeReleased(w) ELSE free[p]
    BY <1>0, <1>1, <1>2 DEF TypeOK
  <2>2. \A p \in Queues : free'[p] \in Seq(Chunks)
                          /\ Accounts(p, free'[p], obj', next[p], park[p], term[p])
    BY <1>0, <1>1, <2>1, ReleasedAccounts
  <2> QED BY <1>0, <1>1, <2>2 DEF TypeOK
<1>10. PoolInv'
  BY <1>0, <1>1, <1>9 DEF PoolInv
<1>11. ObjInv'
  <2>1. next' \in [Queues -> 0 .. ChunkCount] /\ \A p \in Queues : next[p] <= next'[p]
    <3>1. \A p \in Queues : next[p] \in Nat
      BY <1>0, PoolAssumption DEF TypeOK
    <3> QED BY <1>0, <1>1, <3>1 DEF TypeOK
  <2> QED BY <1>0, <1>1, <2>1, ReleasedCounts
<1>12. MemInv'
  BY <1>0, <1>1, <1>5 DEF MemInv, Live
<1>13. TypeOK'
  <2>1. obj' \in [Ids -> Objects \cup {NoObject}]
    BY <1>0, <1>1, ReleasedObject
  <2> QED BY <1>0, <1>1, <1>3, <1>4, <1>9, <2>1 DEF TypeOK
<1>14. TermUsed'
  BY <1>1 DEF TermUsed, DInv
<1> QED BY <1>3, <1>6, <1>7, <1>8, <1>10, <1>11, <1>12, <1>13, <1>14 DEF DInv

-----------------------------------------------------------------------------
(* amd_dbgapi_wave_resume.                                                 *)

\* A wave is resumed where it is.
LEMMA StartAsInv ==
  ASSUME DInv, NEW w \in Waves, MayResume(w), NEW mode \in {"run", "step"}, StartAs(w, mode),
         Displaced(w) => mode = "step" /\ obj[ds[w]].to # NoAddress,
         UNCHANGED <<hidden, ds, done, obj, memVars, procVars, fault>>
  PROVE  /\ DInv' /\ PC(w)' = PC(w)
         /\ \A x \in Waves : x # w => Untouched(x) /\ ObjectKept(x)
<1>0. TypeOK /\ PoolInv /\ ObjInv /\ MemInv /\ WaveAt(w) /\ \A x \in Waves : WaveAt(x)
  BY DEF DInv
<1>1. /\ attached /\ qState[QueueOf[w]] = "alive" /\ state[w] = "stop" /\ w \notin hidden
      /\ state' = [state EXCEPT ![w] = mode] /\ pc' = [pc EXCEPT ![w] = PC(w)]
      /\ saved' = [saved EXCEPT ![w] = NoAddress] /\ parked' = parked \ {w}
      /\ hidden' = hidden /\ ds' = ds /\ done' = done /\ obj' = obj
      /\ next' = next /\ free' = free /\ mem' = mem /\ park' = park /\ term' = term
      /\ qState' = qState /\ attached' = attached /\ frozen' = frozen /\ exited' = exited
      /\ fault' = fault /\ Live' = Live
  BY DEF MayResume, Idle, Found, StartAs, memVars, poolVars, procVars, Live
<1>2. PC(w) \in Addresses
  BY <1>0 DEF PC, TypeOK
<1>3. TypeOK' /\ PC(w)' = PC(w)
  <2> DEFINE a == PC(w)
  <2>1. pc' = [pc EXCEPT ![w] = a] /\ a \in Addresses /\ NoAddress \in Addresses
    BY <1>1, <1>2 DEF Addresses
  <2> HIDE DEF a
  <2>2. pc' \in [Waves -> Addresses] /\ pc'[w] = a /\ saved' \in [Waves -> Addresses]
    BY <1>0, <1>1, <2>1 DEF TypeOK
  <2>3. TypeOK'
    BY <1>0, <1>1, <2>2 DEF TypeOK
  <2>4. PC(w)' = pc'[w]
    BY <1>1 DEF PC
  <2> QED BY <2>2, <2>3, <2>4 DEF a
<1>4. \A x \in Waves : x # w => Untouched(x) /\ ObjectKept(x)
  BY <1>0, <1>1 DEF Untouched, ObjectKept, TypeOK, WaveAt, DisplacedAt
<1>5. ASSUME NEW x \in Waves, x # w PROVE WaveAt(x)'
  BY <1>0, <1>1, <1>4, <1>5, WaveKept
<1>6. WaveAt(w)'
  <2>1. state'[w] = mode /\ w \notin parked' /\ w \notin hidden' /\ Displaced(w)' = Displaced(w)
    BY <1>0, <1>1 DEF TypeOK, Displaced
  <2>2. Displaced(w) => DisplacedAt(w)'
    BY <1>0, <1>1, <1>3, <2>1 DEF WaveAt, DisplacedAt
  <2> QED BY <1>0, <1>1, <1>3, <2>1, <2>2 DEF WaveAt
<1>7. PoolInv' /\ ObjInv' /\ MemInv'
  BY <1>0, <1>1, PoolsKept DEF memVars, poolVars
<1>8. TermUsed'
  BY <1>0, <1>1 DEF TermUsed, DInv, WavesOf, TypeOK
<1> QED BY <1>3, <1>4, <1>5, <1>6, <1>7, <1>8 DEF DInv

\* On the hardware a displaced wave steps in its buffer: what has none is
\* simulated, or ends the wave.
LEMMA OnHardware ==
  ASSUME DInv, NEW w \in Waves, StepOnHardware(w), Displaced(w)
  PROVE  obj[ds[w]].to # NoAddress
<1>1. ds[w] \in Live
  BY DEF DInv, WaveAt, DisplacedAt
<1>2. obj[ds[w]].to = NoAddress => Kind[obj[ds[w]].from] \in {"branch", "end"}
  BY <1>1 DEF DInv, ObjInv, CanSimulate
<1> QED BY <1>2 DEF StepOnHardware, Simulates, Known, Stepped

-----------------------------------------------------------------------------
(* wave_t::terminate.                                                      *)

\* The buffer of the wave is let go, and there is an instruction to end it.
LEMMA EndReady ==
  ASSUME DInv, NEW w \in Waves, qState[QueueOf[w]] = "alive",
         obj' = ObjReleased(w), ds' = [ds EXCEPT ![w] = NoId], UNCHANGED <<park, qState>>,
         LET q == QueueOf[w]
             list == FreeReleased(w)
         IN \/ /\ term[q] = NoAddress /\ CanAllocate(q, list)
               /\ Allocate(q, list, <<EndWord>>)
               /\ term' = [term EXCEPT ![q] = PlaceOf(q, list, 1)]
            \/ /\ term[q] # NoAddress
               /\ free' = [free EXCEPT ![q] = list]
               /\ UNCHANGED <<next, mem, term>>
  PROVE  LET q == QueueOf[w] IN
         /\ PoolInv' /\ ObjInv' /\ MemInv'
         /\ free' \in [Queues -> Seq(Chunks)] /\ next' \in [Queues -> 0 .. ChunkCount]
         /\ mem' \in [Pools -> Int] /\ term' \in [Queues -> Addresses]
         /\ term'[q] # NoAddress /\ term'[q] \in Pools /\ mem'[term'[q]] = EndWord
         /\ \A p \in Queues : /\ p # q => term'[p] = term[p]
                              /\ term[p] # NoAddress => /\ term'[p] = term[p]
                                                        /\ mem'[term[p]] = mem[term[p]]
                              /\ park[p] # NoAddress => mem'[park[p]] = mem[park[p]]
<1> DEFINE q == QueueOf[w]
           list == FreeReleased(w)
           objects == ObjReleased(w)
<1>0. TypeOK /\ PoolInv /\ ObjInv /\ MemInv /\ WaveAt(w) /\ q \in Queues
      /\ \A x \in Waves : WaveAt(x)
  BY WaveAssumption DEF DInv
<1>1. /\ \A p \in Queues : LET l == IF p = q THEN list ELSE free[p] IN
           l \in Seq(Chunks) /\ Accounts(p, l, objects, next[p], park[p], term[p])
  BY <1>0, ReleasedAccounts
<1>2. list \in Seq(Chunks) /\ Accounts(q, list, objects, next[q], park[q], term[q])
      /\ next[q] \in 0 .. ChunkCount
  BY <1>0, <1>1 DEF TypeOK
<1>3. \A i \in Ids : objects[i] # NoObject =>
        /\ i \in Live /\ objects[i].queue = obj[i].queue
        /\ objects[i].from = obj[i].from /\ objects[i].to = obj[i].to
  BY <1>0, ReleasedKeeps
<1>4. \A p \in Queues : next[p] \in Nat
  BY <1>0, PoolAssumption DEF TypeOK
<1>5. CASE /\ term[q] = NoAddress /\ CanAllocate(q, list)
           /\ Allocate(q, list, <<EndWord>>)
           /\ term' = [term EXCEPT ![q] = PlaceOf(q, list, 1)]
  <2> DEFINE place == PlaceOf(q, list, 1)
             words == <<EndWord>>
  <2>1. words \in Seq(Int) /\ Len(words) = 1 /\ Len(words) \in 1 .. LargestSize
        /\ words[1] = EndWord
    BY DEF EndWord, LargestSize
  <2> HIDE DEF words, list, objects
  <2>2. Allocate(q, list, words)
    BY <1>5 DEF words
  <2>3. TakenFor(q, list, objects, words, place, 1)
    <3>1. CanAllocate(q, list)
      BY <1>5
    <3> HIDE DEF q
    <3>2. TakenFor(q, list, objects, words, PlaceOf(q, list, Len(words)), Len(words))
      <4>1. q \in Queues /\ qState[q] = "alive"
        BY <1>0 DEF q
      <4> QED BY <1>0, <1>2, <1>3, <2>1, <2>2, <3>1, <4>1, AllocatedMemory
    <3> QED BY <2>1, <3>2
  <2> HIDE DEF place
  <2>4. mem'[place] = EndWord
    <3>1. 0 \in 0 .. 1 - 1 /\ place + 0 = place /\ 0 + 1 = 1
      BY <2>3 DEF TakenFor
    <3>2. mem'[place + 0] = words[0 + 1]
      BY <2>3, <3>1 DEF TakenFor
    <3> QED BY <2>1, <3>1, <3>2
  <2>5. term'[q] = place /\ \A p \in Queues : p # q => term'[p] = term[p]
    BY <1>0, <1>5 DEF TypeOK, place
  <2>6. place # NoAddress /\ place \in Pools /\ place \in Addresses
    BY <2>3 DEF IsAt, TakenFor, Addresses
  <2>7. term' \in [Queues -> Addresses]
    BY <1>0, <1>5, <2>6 DEF TypeOK, place
  <2>8. /\ next' \in [Queues -> 0 .. ChunkCount] /\ \A p \in Queues : next[p] <= next'[p]
        /\ free' \in [Queues -> Seq(Chunks)] /\ mem' \in [Pools -> Int]
    BY <2>3 DEF TakenFor
  <2>9. ObjInv'
    BY <1>0, <2>8, ReleasedCounts
  <2>10. \A p \in Queues : /\ p # q => term'[p] = term[p]
                           /\ term[p] # NoAddress => /\ term'[p] = term[p]
                                                     /\ mem'[term[p]] = mem[term[p]]
                           /\ park[p] # NoAddress => mem'[park[p]] = mem[park[p]]
    BY <1>5, <2>3, <2>5 DEF TakenFor
  <2>11. PoolInv'
    <3>1. ASSUME NEW p \in Queues
          PROVE  /\ Accounts(p, free'[p], obj', next'[p], park[p], term'[p])
                 /\ park[p] # NoAddress => Placed(p, next'[p], park[p], 1)
                 /\ term'[p] # NoAddress => Placed(p, next'[p], term'[p], 1)
      <4>0. next[p] \in Nat /\ next'[p] \in Nat /\ next[p] <= next'[p]
        BY <1>4, <2>8, PoolAssumption
      <4>1. park[p] # NoAddress => Placed(p, next'[p], park[p], 1)
        BY <1>0, <4>0, PlacedLater DEF PoolInv
      <4>2. CASE p = q
        <5>1. free'[q] = ListAfter(list) /\ next'[q] = CountAfter(list, next[q])
              /\ IsAt(q, place, Chunk(q, list)) /\ Placed(q, next'[q], place, 1)
          BY <1>0, <2>3 DEF TypeOK, TakenFor
        <5>2. Accounts(q, ListAfter(list), objects, CountAfter(list, next[q]), park[q], place)
          BY <1>0, <1>2, <1>5, <5>1, TakenToEnd
        <5> QED BY <2>5, <4>1, <4>2, <5>1, <5>2 DEF objects
      <4>3. CASE p # q
        <5>1. free'[p] = free[p] /\ next'[p] = next[p] /\ term'[p] = term[p]
          BY <1>0, <2>3, <2>5, <4>3 DEF TypeOK, TakenFor
        <5>2. Accounts(p, free[p], objects, next[p], park[p], term[p])
          BY <1>1, <4>3
        <5> QED BY <1>0, <4>1, <5>1, <5>2 DEF PoolInv, objects
      <4> QED BY <4>2, <4>3
    <3> QED BY <3>1 DEF PoolInv
  <2>12. MemInv'
    <3>1. ASSUME NEW p \in Queues, qState[p] = "alive"
          PROVE  /\ \A c \in Chunks : c < next'[p] => mem'[GuardOf(p, c)] = AssertWord
                 /\ \A i \in Live' : obj'[i].queue = p /\ obj'[i].to # NoAddress =>
                      \A k \in 0 .. Size[obj'[i].from] - 1 : mem'[obj'[i].to + k] = obj'[i].from + k
                 /\ park[p] # NoAddress => mem'[park[p]] = AssertWord
                 /\ term'[p] # NoAddress => mem'[term'[p]] = EndWord
      <4>1. \A c \in Chunks : c < next'[p] => mem'[GuardOf(p, c)] = AssertWord
        BY <2>3, <3>1 DEF TakenFor
      <4>2. ASSUME NEW i \in Live', obj'[i].queue = p, obj'[i].to # NoAddress,
                   NEW k \in 0 .. Size[obj'[i].from] - 1
            PROVE  mem'[obj'[i].to + k] = obj'[i].from + k
        <5>1. i \in Ids /\ objects[i] # NoObject /\ obj' = objects
          BY DEF Live, objects
        <5>2. mem'[objects[i].to + k] = mem[objects[i].to + k]
          BY <2>3, <4>2, <5>1 DEF TakenFor
        <5>3. i \in Live /\ obj[i].queue = p /\ objects[i].from = obj[i].from
              /\ objects[i].to = obj[i].to
          BY <1>3, <4>2, <5>1
        <5>4. mem[obj[i].to + k] = obj[i].from + k
          BY <1>0, <3>1, <4>2, <5>1, <5>3 DEF MemInv
        <5> QED BY <5>1, <5>2, <5>3, <5>4
      <4>3. park[p] # NoAddress => mem'[park[p]] = AssertWord
        BY <1>0, <2>10, <3>1 DEF MemInv
      <4>4. term'[p] # NoAddress => mem'[term'[p]] = EndWord
        BY <1>0, <2>4, <2>5, <2>10, <3>1 DEF MemInv
      <4> QED BY <4>1, <4>2, <4>3, <4>4
    <3> QED BY <3>1 DEF MemInv
  <2> QED BY <2>4, <2>5, <2>6, <2>7, <2>8, <2>9, <2>10, <2>11, <2>12
<1>6. CASE /\ term[q] # NoAddress
           /\ free' = [free EXCEPT ![q] = list] /\ UNCHANGED <<next, mem, term>>
  <2>1. next' = next /\ mem' = mem /\ term' = term
    BY <1>6
  <2>2. \A p \in Queues : free'[p] = IF p = q THEN list ELSE free[p]
    BY <1>0, <1>6 DEF TypeOK
  <2>3. \A p \in Queues : free'[p] \in Seq(Chunks)
                          /\ Accounts(p, free'[p], obj', next[p], park[p], term[p])
    BY <1>1, <2>2
  <2>4. free' \in [Queues -> Seq(Chunks)]
    BY <1>0, <1>6, <2>3 DEF TypeOK
  <2>5. PoolInv'
    BY <1>0, <2>1, <2>3 DEF PoolInv
  <2>6. ObjInv'
    <3>1. next' \in [Queues -> 0 .. ChunkCount] /\ \A p \in Queues : next[p] <= next'[p]
      BY <1>0, <1>4, <2>1 DEF TypeOK
    <3> QED BY <1>0, <3>1, ReleasedCounts
  <2>7. MemInv'
    BY <1>0, <1>3, <2>1 DEF MemInv, Live
  <2>8. term[q] \in Pools /\ mem[term[q]] = EndWord
    <3>1. Placed(q, next[q], term[q], 1) /\ next[q] \in Nat /\ 1 \in 1 .. LargestSize
      BY <1>0, <1>4, <1>6 DEF PoolInv, LargestSize
    <3>2. term[q] \in Nat /\ 0 \in 0 .. 1 /\ \A k \in 0 .. 1 : term[q] + k \in Pools
      BY <1>0, <3>1, PlacedWords
    <3>3. term[q] + 0 = term[q]
      BY <3>2
    <3> QED BY <1>0, <1>6, <3>2, <3>3 DEF MemInv
  <2> QED BY <1>0, <1>6, <2>1, <2>4, <2>5, <2>6, <2>7, <2>8 DEF TypeOK
<1> QED BY <1>5, <1>6

\* Only what the process is, or what stopped the library, changes.
LEMMA ProcessOnly ==
  ASSUME DInv, UNCHANGED <<waveVars, obj, memVars, attached>>,
         qState' \in [Queues -> {"alive", "deleted", "invalid", "gone"}],
         \A q \in Queues : /\ qState'[q] = "alive" => qState[q] = "alive"
                           /\ qState'[q] = "gone" => qState[q] = "gone",
         frozen' \in BOOLEAN, exited' \in BOOLEAN,
         fault' \in {"none", "no_debugger_memory", "displaced_in_valid_queue",
                     "displaced_steppings_left"}
  PROVE  DInv' /\ \A x \in Waves : Untouched(x) /\ ObjectKept(x)
<1>0. TypeOK /\ PoolInv /\ ObjInv /\ MemInv /\ \A x \in Waves : WaveAt(x)
  BY DEF DInv
<1>1. /\ state' = state /\ hidden' = hidden /\ pc' = pc /\ saved' = saved /\ parked' = parked
      /\ ds' = ds /\ done' = done /\ obj' = obj
      /\ next' = next /\ free' = free /\ mem' = mem /\ park' = park /\ term' = term
      /\ attached' = attached /\ Live' = Live
  BY DEF waveVars, memVars, poolVars, Live
<1>2. TypeOK'
  BY <1>0, <1>1 DEF TypeOK
<1>3. PoolInv' /\ ObjInv' /\ MemInv'
  BY <1>0, <1>1, PoolsKept
<1>4. \A x \in Waves : Untouched(x) /\ ObjectKept(x)
  BY <1>0, <1>1 DEF Untouched, ObjectKept, WaveAt, DisplacedAt
<1>5. ASSUME NEW x \in Waves PROVE WaveAt(x)'
  <2>1. QueueOf[x] \in Queues
    BY WaveAssumption
  <2> QED BY <1>0, <1>1, <1>4, <2>1, WaveKept
<1>6. TermUsed'
  BY <1>1 DEF TermUsed, DInv
<1> QED BY <1>2, <1>3, <1>4, <1>5, <1>6 DEF DInv

\* The wave is sent to its end.
LEMMA StepEndsInv ==
  ASSUME DInv, NEW w \in Waves, StepEnds(w)
  PROVE  DInv' /\ \A x \in Waves : x # w => Untouched(x) /\ ObjectKept(x)
<1> DEFINE q == QueueOf[w]
<1>0. TypeOK /\ PoolInv /\ ObjInv /\ MemInv /\ WaveAt(w) /\ \A x \in Waves : WaveAt(x)
      /\ q \in Queues
  BY WaveAssumption DEF DInv
<1>1. /\ attached /\ qState[q] = "alive" /\ state[w] = "stop" /\ w \notin hidden
      /\ qState' = qState /\ attached' = attached /\ frozen' = frozen /\ exited' = exited
  BY DEF StepEnds, MayStep, MayResume, Idle, Found, procVars
<1>2. CASE term[q] = NoAddress /\ ~CanAllocate(q, FreeReleased(w))
  <2>1. fault' = "no_debugger_memory" /\ UNCHANGED <<waveVars, obj, memVars>>
    BY <1>2 DEF StepEnds, Terminate
  <2> QED BY <1>0, <1>1, <2>1, ProcessOnly DEF TypeOK
<1>3. CASE ~(term[q] = NoAddress /\ ~CanAllocate(q, FreeReleased(w)))
  <2>1. /\ obj' = ObjReleased(w) /\ ds' = [ds EXCEPT ![w] = NoId] /\ park' = park
        /\ pc' = [pc EXCEPT ![w] = term'[q]] /\ hidden' = hidden \cup {w}
        /\ state' = [state EXCEPT ![w] = "run"] /\ saved' = [saved EXCEPT ![w] = NoAddress]
        /\ parked' = parked \ {w} /\ done' = [done EXCEPT ![w] = NoAddress] /\ fault' = fault
        /\ \/ /\ term[q] = NoAddress /\ CanAllocate(q, FreeReleased(w))
              /\ Allocate(q, FreeReleased(w), <<EndWord>>)
              /\ term' = [term EXCEPT ![q] = PlaceOf(q, FreeReleased(w), 1)]
           \/ /\ term[q] # NoAddress
              /\ free' = [free EXCEPT ![q] = FreeReleased(w)]
              /\ UNCHANGED <<next, mem, term>>
    BY <1>3 DEF StepEnds, Terminate
  <2>2. /\ PoolInv' /\ ObjInv' /\ MemInv'
        /\ free' \in [Queues -> Seq(Chunks)] /\ next' \in [Queues -> 0 .. ChunkCount]
        /\ mem' \in [Pools -> Int] /\ term' \in [Queues -> Addresses]
        /\ term'[q] # NoAddress /\ term'[q] \in Pools /\ mem'[term'[q]] = EndWord
        /\ \A p \in Queues : /\ p # q => term'[p] = term[p]
                             /\ term[p] # NoAddress => /\ term'[p] = term[p]
                                                       /\ mem'[term[p]] = mem[term[p]]
                             /\ park[p] # NoAddress => mem'[park[p]] = mem[park[p]]
    BY <1>1, <2>1, EndReady
  <2>3. TypeOK'
    <3>1. pc' \in [Waves -> Addresses] /\ saved' \in [Waves -> Addresses]
          /\ ds' \in [Waves -> Ids \cup {NoId}] /\ done' \in [Waves -> Code \cup {NoAddress}]
      BY <1>0, <2>1, <2>2 DEF TypeOK, Addresses
    <3>2. obj' \in [Ids -> Objects \cup {NoObject}]
      BY <1>0, <2>1, ReleasedObject
    <3> QED BY <1>0, <1>1, <2>1, <2>2, <3>1, <3>2 DEF TypeOK
  <2>4. \A x \in Waves : x # w => Untouched(x) /\ ObjectKept(x)
    <3>1. \A x \in Waves : x # w => Untouched(x)
      BY <1>0, <2>1 DEF Untouched, TypeOK
    <3>2. \A x \in Waves : x # w => ObjectKept(x)
      BY <1>0, <2>1, ReleasedKeeps
    <3> QED BY <3>1, <3>2
  <2>5. ASSUME NEW x \in Waves, x # w PROVE WaveAt(x)'
    <3>1. WaveAt(x) /\ QueueOf[x] \in Queues
      BY <1>0, WaveAssumption
    <3>2. x \in hidden => term'[QueueOf[x]] = term[QueueOf[x]]
      BY <1>1, <2>2, <3>1 DEF WaveAt
    <3>3. x \in hidden \cup parked => mem'[pc[x]] = mem[pc[x]]
      BY <1>1, <2>2, <3>1 DEF WaveAt
    <3> QED BY <1>1, <2>1, <2>4, <2>5, <3>1, <3>2, <3>3, WaveKept
  <2>6. WaveAt(w)'
    <3>1. /\ state'[w] = "run" /\ w \in hidden' /\ w \notin parked' /\ ds'[w] = NoId
          /\ done'[w] = NoAddress /\ pc'[w] = term'[q]
      BY <1>0, <2>1 DEF TypeOK
    <3> QED BY <1>1, <2>2, <3>1 DEF WaveAt, Displaced
  <2>7. TermUsed'
    <3>1. ASSUME NEW p \in Queues, term'[p] # NoAddress
          PROVE  \E x \in WavesOf(p) : x \in hidden' \/ state'[x] = "absent"
      <4>1. CASE p = q
        BY <2>1, <4>1 DEF WavesOf
      <4>2. CASE p # q
        <5>1. PICK x \in WavesOf(p) : x \in hidden \/ state[x] = "absent"
          BY <2>2, <3>1, <4>2 DEF TermUsed, DInv
        <5> QED BY <1>0, <2>1, <5>1 DEF WavesOf, TypeOK
      <4> QED BY <4>1, <4>2
    <3> QED BY <3>1 DEF TermUsed, WavesOf
  <2> QED BY <2>2, <2>3, <2>4, <2>5, <2>6, <2>7 DEF DInv
<1> QED BY <1>2, <1>3

-----------------------------------------------------------------------------
(* A wave on the hardware.                                                 *)

\* Where a wave that runs or steps is: it is not parked.
LEMMA RunningAt ==
  ASSUME DInv, NEW w \in Waves, state[w] \in {"run", "step"}, w \notin hidden
  PROVE  /\ MayBeAt(w, pc[w]) /\ PC(w) = pc[w] /\ w \notin parked
         /\ Displaced(w) => /\ state[w] = "step" /\ ds[w] \in Live /\ obj[ds[w]].to # NoAddress
                            /\ pc[w] \in {obj[ds[w]].to, obj[ds[w]].to + Size[obj[ds[w]].from]}
                            /\ pc[w] \in Pools
<1>0. TypeOK /\ ObjInv /\ WaveAt(w)
  BY DEF DInv
<1>1. w \notin parked /\ PC(w) = pc[w]
  BY <1>0 DEF WaveAt, PC
<1>2. CASE ~Displaced(w)
  BY <1>0, <1>1, <1>2, CodeApart DEF WaveAt, MayBeAt
<1>3. CASE Displaced(w)
  <2> DEFINE to == obj[ds[w]].to
             size == Size[obj[ds[w]].from]
  <2>1. ds[w] \in Live /\ state[w] = "step" /\ to # NoAddress /\ pc[w] \in {to, to + size}
    BY <1>0, <1>1, <1>3 DEF WaveAt, DisplacedAt
  <2>2. to \in Nat /\ size \in 1 .. LargestSize
        /\ \A k \in 0 .. size : to + k \in Pools /\ to + k \in Nat
    BY <1>0, <2>1, BufferPlaced
  <2> HIDE DEF to, size
  <2>3. 0 \in 0 .. size /\ size \in 0 .. size /\ to + 0 = to
    BY <2>2 DEF LargestSize
  <2>4. pc[w] \in Pools /\ pc[w] \in Nat
    BY <2>1, <2>2, <2>3
  <2> QED BY <1>1, <1>3, <2>1, <2>4 DEF MayBeAt, to, size
<1> QED BY <1>2, <1>3

\* A wave that runs goes on.
LEMMA Moved ==
  ASSUME DInv, NEW w \in Waves, NEW a \in Code, state[w] = "run", w \notin hidden, ~Displaced(w),
         pc' = [pc EXCEPT ![w] = a],
         done' \in [Waves -> Code \cup {NoAddress}], \A x \in Waves : x # w => done'[x] = done[x],
         UNCHANGED <<state, saved, parked, memVars, fault, hidden, ds, obj, procVars>>
  PROVE  DInv' /\ PC(w)' = a /\ \A x \in Waves : x # w => Untouched(x) /\ ObjectKept(x)
<1>0. TypeOK /\ PoolInv /\ ObjInv /\ MemInv /\ WaveAt(w) /\ \A x \in Waves : WaveAt(x)
      /\ a \in Addresses
  BY CodeApart DEF DInv, Addresses
<1>1. /\ state' = state /\ hidden' = hidden /\ saved' = saved /\ parked' = parked
      /\ ds' = ds /\ obj' = obj /\ Live' = Live
      /\ next' = next /\ free' = free /\ mem' = mem /\ park' = park /\ term' = term
      /\ qState' = qState /\ attached' = attached /\ frozen' = frozen /\ exited' = exited
      /\ fault' = fault
  BY DEF memVars, poolVars, procVars, Live
<1>2. TypeOK'
  BY <1>0, <1>1 DEF TypeOK
<1>3. PoolInv' /\ ObjInv' /\ MemInv'
  BY <1>0, <1>1, PoolsKept
<1>4. w \notin parked /\ PC(w)' = a
  BY <1>0, <1>1 DEF WaveAt, PC, TypeOK
<1>5. \A x \in Waves : x # w => Untouched(x) /\ ObjectKept(x)
  BY <1>0, <1>1 DEF Untouched, ObjectKept, TypeOK, WaveAt, DisplacedAt
<1>6. ASSUME NEW x \in Waves, x # w PROVE WaveAt(x)'
  BY <1>0, <1>1, <1>5, <1>6, WaveKept
<1>7. WaveAt(w)'
  BY <1>0, <1>1, <1>4 DEF WaveAt, Displaced
<1>8. TermUsed'
  BY <1>1 DEF TermUsed, DInv
<1> QED BY <1>2, <1>3, <1>4, <1>5, <1>6, <1>7, <1>8 DEF DInv

\* The instruction of a wave, or of its buffer, is executed.
LEMMA Executed ==
  ASSUME DInv, NEW w \in Waves, Executing(w), w \notin hidden,
         NEW instruction \in Code, NEW a, MayBeAt(w, a), HwExecutes(w, instruction, a)
  PROVE  DInv' /\ PC(w)' = a /\ \A x \in Waves : x # w => Untouched(x) /\ ObjectKept(x)
<1>1. /\ done' \in [Waves -> Code \cup {NoAddress}] /\ \A x \in Waves : x # w => done'[x] = done[x]
      /\ UNCHANGED <<hidden, ds, obj, procVars>>
      /\ state[w] \in {"run", "step"} /\ qState[QueueOf[w]] = "alive"
  BY DEF HwExecutes, DInv, TypeOK, Executing
<1>2. CASE state[w] = "step"
  <2>1. attached /\ StopAt(w, a)
    BY <1>2 DEF HwExecutes, DInv, WaveAt, TypeOK
  <2> QED BY <1>1, <1>2, <2>1, Stopped
<1>3. CASE state[w] = "run"
  <2>1. ~Displaced(w)
    BY <1>3, RunningAt
  <2>2. a \in Code
    BY <2>1 DEF MayBeAt
  <2>3. pc' = [pc EXCEPT ![w] = a] /\ UNCHANGED <<state, saved, parked, memVars, fault>>
    BY <1>3 DEF HwExecutes
  <2> QED BY <1>1, <1>3, <2>1, <2>2, <2>3, Moved
<1> QED BY <1>1, <1>2, <1>3

\* A wave whose pc is in the program is neither hidden nor in a buffer.
LEMMA InCode ==
  ASSUME DInv, NEW w \in Waves, Executing(w), pc[w] \in Code
  PROVE  w \notin hidden /\ ~Displaced(w)
<1>1. pc[w] \notin Pools
  BY CodeApart
<1>2. w \notin hidden
  BY <1>1 DEF DInv, WaveAt, Executing
<1> QED BY <1>1, <1>2, RunningAt DEF Executing

\* A wave that finds an instruction of the program in the memory for the
\* debugger is at the beginning of its own buffer.
LEMMA InBuffer ==
  ASSUME DInv, NEW w \in Waves, Executing(w), pc[w] \in Pools, mem[pc[w]] \in Code
  PROVE  /\ w \notin hidden /\ Displaced(w) /\ state[w] = "step" /\ ds[w] \in Live
         /\ obj[ds[w]].to # NoAddress /\ obj[ds[w]].from \in Code
         /\ pc[w] = obj[ds[w]].to /\ mem[pc[w]] = obj[ds[w]].from
<1>0. TypeOK /\ ObjInv /\ MemInv /\ WaveAt(w) /\ state[w] \in {"run", "step"}
      /\ qState[QueueOf[w]] = "alive"
  BY DEF DInv, Executing
<1>1. w \notin hidden
  BY <1>0, CodeApart DEF WaveAt
<1>2. Displaced(w)
  <2>1. ~Displaced(w) => pc[w] \in Code
    BY <1>0, <1>1, RunningAt DEF MayBeAt
  <2> QED BY <2>1, CodeApart
<1> DEFINE i == ds[w]
           to == obj[i].to
           from == obj[i].from
           q == obj[i].queue
<1>3. i \in Live /\ to # NoAddress /\ state[w] = "step" /\ pc[w] \in {to, to + Size[from]}
  BY <1>0, <1>1, <1>2, RunningAt
<1>4. /\ q \in Queues /\ from \in Code /\ Size[from] \in 1 .. LargestSize /\ to \in Nat
      /\ ChunkOf(q, to) \in Chunks /\ ChunkOf(q, to) < next[q]
      /\ to + Size[from] = GuardOf(q, ChunkOf(q, to))
  BY <1>0, <1>3, BufferPlaced
<1>5. q = QueueOf[w]
  BY <1>0, <1>2, OwnObject
<1>6. mem[to + Size[from]] = AssertWord
  BY <1>0, <1>4, <1>5 DEF MemInv
<1>7. pc[w] = to
  BY <1>3, <1>6, CodeApart
<1>8. mem[to] = from
  <2>1. 0 \in 0 .. Size[from] - 1 /\ to + 0 = to /\ from + 0 = from
    <3>1. from \in Nat
      BY <1>4, CodeApart
    <3> HIDE DEF from, to
    <3> QED BY <1>4, <3>1 DEF LargestSize
  <2>2. mem[to + 0] = from + 0
    <3>1. \A k \in 0 .. Size[from] - 1 : mem[to + k] = from + k
      BY <1>0, <1>3, <1>4, <1>5 DEF MemInv
    <3> HIDE DEF from, to
    <3> QED BY <2>1, <3>1
  <2> QED BY <2>1, <2>2
<1> QED BY <1>1, <1>2, <1>3, <1>4, <1>7, <1>8

\* An instruction of the program keeps the invariant.
LEMMA HwInCodeInv ==
  ASSUME DInv, NEW w \in Waves, HwInCode(w)
  PROVE  /\ DInv' /\ PC(w)' \in Succ[pc[w]]
         /\ \A x \in Waves : x # w => Untouched(x) /\ ObjectKept(x)
<1>1. Executing(w) /\ pc[w] \in Code /\ w \notin hidden /\ ~Displaced(w)
  BY InCode DEF HwInCode
<1>2. PICK a \in Succ[pc[w]] : HwExecutes(w, pc[w], a)
  BY DEF HwInCode
<1>3. a \in Code /\ a \in Nat
  BY <1>1, CodeAssumption
<1>4. MayBeAt(w, a)
  BY <1>1, <1>3 DEF MayBeAt
<1> QED BY <1>1, <1>2, <1>4, Executed

\* And one in a buffer: the wave is then at the guard behind it.
LEMMA HwInBufferInv ==
  ASSUME DInv, NEW w \in Waves, HwInBuffer(w)
  PROVE  /\ DInv' /\ PC(w)' = obj[ds[w]].to + Size[obj[ds[w]].from]
         /\ \A x \in Waves : x # w => Untouched(x) /\ ObjectKept(x)
<1> DEFINE to == obj[ds[w]].to
           from == obj[ds[w]].from
<1>1. Executing(w) /\ HwExecutes(w, mem[pc[w]], pc[w] + Size[mem[pc[w]]])
  BY DEF HwInBuffer
<1>2. w \notin hidden /\ Displaced(w) /\ ds[w] \in Live /\ from \in Code
      /\ pc[w] = to /\ mem[pc[w]] = from /\ to # NoAddress
  BY InBuffer DEF HwInBuffer
<1>3. HwExecutes(w, from, to + Size[from])
  BY <1>1, <1>2
<1>4. to \in Nat /\ Size[from] \in Nat
  BY <1>2, BufferPlaced DEF DInv, LargestSize
<1>5. MayBeAt(w, to + Size[from])
  <2>1. to + Size[from] \in Nat
    BY <1>4
  <2> QED BY <1>2, <2>1 DEF MayBeAt
<1> DEFINE a == to + Size[from]
<1> HIDE DEF a
<1>6. DInv' /\ PC(w)' = a /\ \A x \in Waves : x # w => Untouched(x) /\ ObjectKept(x)
  <2>1. HwExecutes(w, from, a) /\ MayBeAt(w, a)
    BY <1>3, <1>5 DEF a
  <2> QED BY <1>1, <1>2, <2>1, Executed
<1> QED BY <1>6 DEF a

\* A wave is stopped where it is.
LEMMA StoppedThere ==
  ASSUME DInv, NEW w \in Waves, w \notin hidden, state[w] \in {"run", "step"}, attached,
         qState[QueueOf[w]] = "alive", StopAt(w, pc[w]),
         UNCHANGED <<hidden, ds, done, obj, procVars>>
  PROVE  DInv' /\ PC(w)' = pc[w] /\ PC(w) = pc[w]
         /\ \A x \in Waves : x # w => Untouched(x) /\ ObjectKept(x)
<1>1. MayBeAt(w, pc[w]) /\ PC(w) = pc[w]
  BY RunningAt
<1>2. done' \in [Waves -> Code \cup {NoAddress}] /\ \A x \in Waves : x # w => done'[x] = done[x]
  BY DEF DInv, TypeOK
<1> QED BY <1>1, <1>2, Stopped

\* wave_stop keeps the invariant, and the pc that a client reads.
LEMMA StopWaveInv ==
  ASSUME DInv, NEW w \in Waves, StopWave(w)
  PROVE  DInv' /\ PC(w)' = pc[w] /\ PC(w) = pc[w]
         /\ \A x \in Waves : x # w => Untouched(x) /\ ObjectKept(x)
  BY StoppedThere DEF StopWave, Idle, Found

\* So does a trap.  A hidden wave is at an instruction that does not trap.
LEMMA HwTrapsInv ==
  ASSUME DInv, NEW w \in Waves, HwTraps(w)
  PROVE  DInv' /\ PC(w)' = pc[w] /\ PC(w) = pc[w] /\ w \notin hidden
         /\ \A x \in Waves : x # w => Untouched(x) /\ ObjectKept(x)
<1>1. w \notin hidden
  <2>1. w \in hidden => pc[w] \in Pools /\ mem[pc[w]] = EndWord
    BY DEF HwTraps, Executing, DInv, WaveAt
  <2>2. pc[w] \in Breakpoints => pc[w] \in Code
    BY CodeAssumption
  <2> QED BY <2>1, <2>2, CodeApart DEF HwTraps
<1> QED BY <1>1, StoppedThere DEF HwTraps, Executing

\* The instruction that is simulated is one of the program.
LEMMA SteppedInCode ==
  ASSUME DInv, NEW w \in Waves, MayResume(w)
  PROVE  Stepped(w) \in Code /\ w \notin hidden /\ state[w] = "stop" /\ attached
         /\ qState[QueueOf[w]] = "alive"
<1>0. w \notin hidden /\ state[w] = "stop" /\ attached /\ qState[QueueOf[w]] = "alive"
  BY DEF MayResume, Idle, Found
<1>1. CASE Displaced(w)
  <2>1. obj[ds[w]] \in Objects
    BY <1>1, OwnObject DEF DInv
  <2> QED BY <1>0, <1>1, <2>1, ObjectFields DEF Stepped
<1>2. CASE ~Displaced(w)
  BY <1>0, <1>2 DEF Stepped, DInv, WaveAt
<1> QED BY <1>1, <1>2

\* A simulated instruction keeps the invariant.
LEMMA StepSimulatedInv ==
  ASSUME DInv, NEW w \in Waves, StepSimulated(w)
  PROVE  /\ DInv' /\ PC(w)' \in Succ[Stepped(w)]
         /\ \A x \in Waves : x # w => Untouched(x) /\ ObjectKept(x)
<1>1. MayResume(w) /\ Simulates(w) /\ done' = [done EXCEPT ![w] = Stepped(w)]
      /\ UNCHANGED <<hidden, ds, obj, procVars>>
  BY DEF StepSimulated, MayStep
<1>2. PICK a \in Succ[Stepped(w)] : StopAt(w, a)
  BY DEF StepSimulated
<1>3. Stepped(w) \in Code /\ w \notin hidden /\ state[w] = "stop" /\ attached
      /\ qState[QueueOf[w]] = "alive"
  BY <1>1, SteppedInCode
<1>4. a \in Code /\ a \in Nat
  BY <1>3, CodeAssumption
<1>5. MayBeAt(w, a)
  BY <1>1, <1>4 DEF MayBeAt, Simulates
<1>6. done' \in [Waves -> Code \cup {NoAddress}] /\ \A x \in Waves : x # w => done'[x] = done[x]
  <2> DEFINE d == Stepped(w)
  <2>1. done' = [done EXCEPT ![w] = d] /\ d \in Code
    BY <1>1, <1>3
  <2> HIDE DEF d
  <2> QED BY <2>1 DEF DInv, TypeOK
<1> QED BY <1>1, <1>2, <1>3, <1>5, <1>6, Stopped

-----------------------------------------------------------------------------
(* The end of waves and of queues.                                         *)

\* The waves of W, which are not displaced any more, are forgotten.
LEMMA ForgottenWaves ==
  ASSUME DInv, NEW W \in SUBSET Waves, Forget(W), attached' = attached,
         \A x \in Waves \ W : ObjectKept(x),
         \A x \in Waves \ W : mem' = mem /\ qState'[QueueOf[x]] = qState[QueueOf[x]]
                              /\ term'[QueueOf[x]] = term[QueueOf[x]]
                              /\ park'[QueueOf[x]] = park[QueueOf[x]],
         \A q \in Queues : term'[q] # NoAddress => term[q] # NoAddress
  PROVE  /\ \A x \in Waves : WaveAt(x)'
         /\ TermUsed'
         /\ \A x \in Waves \ W : Untouched(x)
         /\ state' \in [Waves -> {"run", "step", "stop", "absent"}]
         /\ hidden' \subseteq Waves /\ parked' \subseteq Waves
         /\ pc' \in [Waves -> Addresses] /\ saved' \in [Waves -> Addresses]
         /\ ds' \in [Waves -> Ids \cup {NoId}] /\ done' \in [Waves -> Code \cup {NoAddress}]
<1>0. TypeOK /\ \A x \in Waves : WaveAt(x)
  BY DEF DInv
<1>1. /\ state' = [w \in Waves |-> IF w \in W THEN "absent" ELSE state[w]]
      /\ hidden' = hidden \ W
      /\ pc' = [w \in Waves |-> IF w \in W THEN NoAddress ELSE pc[w]]
      /\ saved' = [w \in Waves |-> IF w \in W THEN NoAddress ELSE saved[w]]
      /\ parked' = parked \ W
      /\ ds' = [w \in Waves |-> IF w \in W THEN NoId ELSE ds[w]]
      /\ done' = [w \in Waves |-> IF w \in W THEN NoAddress ELSE done[w]]
  BY DEF Forget
<1>2. /\ state' \in [Waves -> {"run", "step", "stop", "absent"}]
      /\ hidden' \subseteq Waves /\ parked' \subseteq Waves
      /\ pc' \in [Waves -> Addresses] /\ saved' \in [Waves -> Addresses]
      /\ ds' \in [Waves -> Ids \cup {NoId}] /\ done' \in [Waves -> Code \cup {NoAddress}]
  <2>1. NoAddress \in Addresses
    BY DEF Addresses
  <2> QED BY <1>0, <1>1, <2>1 DEF TypeOK
<1>3. \A x \in Waves \ W : Untouched(x)
  BY <1>1 DEF Untouched
<1>4. ASSUME NEW x \in Waves \ W PROVE WaveAt(x)'
  BY <1>0, <1>3, WaveKept
<1>5. ASSUME NEW x \in W PROVE WaveAt(x)'
  <2>1. /\ state'[x] = "absent" /\ x \notin hidden' /\ x \notin parked' /\ ds'[x] = NoId
        /\ pc'[x] = NoAddress /\ done'[x] = NoAddress
    BY <1>1
  <2> QED BY <2>1 DEF WaveAt, Displaced
<1>6. TermUsed'
  <2>1. ASSUME NEW q \in Queues, term'[q] # NoAddress
        PROVE  \E w \in WavesOf(q) : w \in hidden' \/ state'[w] = "absent"
    <3>1. PICK w \in WavesOf(q) : w \in hidden \/ state[w] = "absent"
      BY <2>1 DEF DInv, TermUsed
    <3> QED BY <1>1, <3>1 DEF WavesOf
  <2> QED BY <2>1 DEF TermUsed, WavesOf
<1> QED BY <1>2, <1>3, <1>4, <1>5, <1>6

\* The end of a wave on the hardware keeps the invariant.
LEMMA HwEndsInv ==
  ASSUME DInv, NEW w \in Waves, HwEnds(w)
  PROVE  /\ DInv' /\ ~Displaced(w)
         /\ \A x \in Waves : x # w => Untouched(x) /\ ObjectKept(x)
<1>0. TypeOK /\ PoolInv /\ ObjInv /\ MemInv /\ WaveAt(w) /\ \A x \in Waves : WaveAt(x)
  BY DEF DInv
<1>1. /\ Forget({w}) /\ state[w] = "run" /\ obj' = obj /\ UNCHANGED <<obj, memVars>>
      /\ next' = next /\ free' = free /\ mem' = mem /\ park' = park /\ term' = term
      /\ qState' = qState /\ attached' = attached /\ frozen' = frozen /\ exited' = exited
      /\ fault' = fault /\ Live' = Live
  BY DEF HwEnds, memVars, poolVars, procVars, Live
<1>2. ds[w] = NoId
  BY <1>0, <1>1 DEF WaveAt, DisplacedAt, Displaced
<1>3. ds' = ds
  BY <1>0, <1>1, <1>2 DEF Forget, TypeOK
<1>4. \A x \in Waves : ObjectKept(x)
  BY <1>0, <1>1 DEF ObjectKept, WaveAt, DisplacedAt
<1>5. /\ \A x \in Waves : WaveAt(x)'
      /\ TermUsed'
      /\ \A x \in Waves \ {w} : Untouched(x)
      /\ state' \in [Waves -> {"run", "step", "stop", "absent"}]
      /\ hidden' \subseteq Waves /\ parked' \subseteq Waves
      /\ pc' \in [Waves -> Addresses] /\ saved' \in [Waves -> Addresses]
      /\ ds' \in [Waves -> Ids \cup {NoId}] /\ done' \in [Waves -> Code \cup {NoAddress}]
  BY <1>1, <1>4, ForgottenWaves
<1>6. TypeOK'
  BY <1>0, <1>1, <1>5 DEF TypeOK
<1>7. PoolInv' /\ ObjInv' /\ MemInv'
  BY <1>0, <1>1, <1>3, PoolsKept
<1> QED BY <1>2, <1>4, <1>5, <1>6, <1>7 DEF DInv, Displaced

\* The memory of the queues that are not lost is as it was.
LEMMA LostInv ==
  ASSUME DInv, attached, NEW Q \in SUBSET Queues, Lost(Q), exited' \in BOOLEAN
  PROVE  DInv' /\ \A x \in Waves : Untouched(x) /\ ObjectKept(x)
<1>0. TypeOK /\ PoolInv /\ ObjInv /\ MemInv /\ \A x \in Waves : WaveAt(x)
  BY DEF DInv
<1>1. /\ state' = state /\ hidden' = hidden /\ pc' = pc /\ saved' = saved /\ parked' = parked
      /\ ds' = ds /\ done' = done /\ obj' = obj /\ next' = next /\ free' = free
      /\ park' = park /\ term' = term /\ attached' = attached /\ frozen' = frozen
      /\ fault' = fault /\ Live' = Live
      /\ qState' = [q \in Queues |-> IF q \in Q /\ qState[q] = "alive"
                                       THEN "deleted" ELSE qState[q]]
      /\ mem' = [a \in Pools |-> IF \E q \in Q : a \in Pool(q) THEN Unwritten ELSE mem[a]]
  BY DEF Lost, waveVars, Live
<1>2. /\ qState' \in [Queues -> {"alive", "deleted", "invalid", "gone"}]
      /\ \A q \in Queues : /\ qState'[q] = "alive" => qState[q] = "alive" /\ q \notin Q
                           /\ qState'[q] = "gone" => qState[q] = "gone"
      /\ mem' \in [Pools -> Int]
  BY <1>0, <1>1 DEF TypeOK, Unwritten
<1>3. ASSUME NEW q \in Queues, q \notin Q, NEW c \in Chunks, NEW a \in WordsOf(q, c)
      PROVE  mem'[a] = mem[a]
  <2>1. a \in Pool(q) /\ a \in Pools
    <3>1. ChunkAt(q, c) \in Nat
      <4>1. 0 \in 0 .. ChunkSize - 1
        BY DEF ChunkSize
      <4> QED BY <4>1, Geometry
    <3> DEFINE j == a - ChunkAt(q, c)
    <3>2. j \in 0 .. ChunkSize - 1 /\ a = ChunkAt(q, c) + j
      BY <3>1 DEF WordsOf, ChunkSize
    <3> QED BY <3>2, Geometry
  <2>2. \A p \in Q : a \notin Pool(p)
    BY <1>3, <2>1, PoolAssumption
  <2> QED BY <1>1, <2>1, <2>2
<1>4. ASSUME NEW q \in Queues, q \notin Q, NEW a \in {park[q], term[q]}, a # NoAddress
      PROVE  mem'[a] = mem[a]
  <2>1. Placed(q, next[q], a, 1) /\ next[q] \in Nat /\ 1 \in 1 .. LargestSize
    BY <1>0, <1>4, PoolAssumption DEF PoolInv, TypeOK, LargestSize
  <2>2. a \in Nat /\ ChunkOf(q, a) \in Chunks /\ 0 \in 0 .. 1
        /\ \A k \in 0 .. 1 : a + k \in WordsOf(q, ChunkOf(q, a))
    BY <2>1, PlacedWords
  <2>3. a + 0 = a /\ a \in WordsOf(q, ChunkOf(q, a))
    BY <2>2
  <2> QED BY <1>3, <1>4, <2>2, <2>3
<1>5. TypeOK'
  BY <1>0, <1>1, <1>2 DEF TypeOK
<1>6. PoolInv'
  BY <1>0, <1>1 DEF PoolInv
<1>7. ObjInv'
  <2>1. \A i : Users(i)' = Users(i)
    BY <1>1 DEF Users
  <2> QED BY <1>0, <1>1, <2>1 DEF ObjInv
<1>8. MemInv'
  <2>1. ASSUME NEW q \in Queues, qState'[q] = "alive"
        PROVE  /\ \A c \in Chunks : c < next[q] => mem'[GuardOf(q, c)] = AssertWord
               /\ \A i \in Live : obj[i].queue = q /\ obj[i].to # NoAddress =>
                    \A k \in 0 .. Size[obj[i].from] - 1 : mem'[obj[i].to + k] = obj[i].from + k
               /\ park[q] # NoAddress => mem'[park[q]] = AssertWord
               /\ term[q] # NoAddress => mem'[term[q]] = EndWord
    <3>0. qState[q] = "alive" /\ q \notin Q
      BY <1>2, <2>1
    <3>1. ASSUME NEW c \in Chunks, c < next[q] PROVE mem'[GuardOf(q, c)] = AssertWord
      <4>1. GuardOf(q, c) \in WordsOf(q, c)
        <5>1. 1 \in 1 .. LargestSize
          BY DEF LargestSize
        <5>2. Fits(q, c, 1, StartOf(q, c, 1), GuardOf(q, c))
          BY <5>1, PlaceAndGuard
        <5>3. StartOf(q, c, 1) \in Nat /\ GuardOf(q, c) \in Nat
              /\ StartOf(q, c, 1) + 1 = GuardOf(q, c)
          BY <5>2 DEF Fits
        <5>4. GuardOf(q, c) \in StartOf(q, c, 1) .. GuardOf(q, c)
          BY <5>3
        <5> QED BY <5>2, <5>4 DEF Fits
      <4> QED BY <1>0, <1>3, <3>0, <3>1, <4>1 DEF MemInv
    <3>2. ASSUME NEW i \in Live, obj[i].queue = q, obj[i].to # NoAddress,
                 NEW k \in 0 .. Size[obj[i].from] - 1
          PROVE  mem'[obj[i].to + k] = obj[i].from + k
      <4>1. /\ ChunkOf(q, obj[i].to) \in Chunks /\ Size[obj[i].from] \in 1 .. LargestSize
            /\ \A l \in 0 .. Size[obj[i].from] : obj[i].to + l \in WordsOf(q, ChunkOf(q, obj[i].to))
        BY <1>0, <3>2, BufferPlaced
      <4>2. k \in 0 .. Size[obj[i].from]
        BY <4>1 DEF LargestSize
      <4>3. mem'[obj[i].to + k] = mem[obj[i].to + k]
        BY <1>3, <3>0, <4>1, <4>2
      <4>4. \A l \in 0 .. Size[obj[i].from] - 1 : mem[obj[i].to + l] = obj[i].from + l
        BY <1>0, <3>0, <3>2 DEF MemInv
      <4> QED BY <4>3, <4>4
    <3>3. /\ park[q] # NoAddress => mem'[park[q]] = AssertWord
          /\ term[q] # NoAddress => mem'[term[q]] = EndWord
      BY <1>0, <1>4, <3>0 DEF MemInv
    <3> QED BY <3>1, <3>2, <3>3
  <2> QED BY <1>1, <2>1 DEF MemInv
<1>9. \A x \in Waves : Untouched(x) /\ ObjectKept(x)
  BY <1>0, <1>1 DEF Untouched, ObjectKept, WaveAt, DisplacedAt
<1>10. ASSUME NEW x \in Waves PROVE WaveAt(x)'
  <2>1. QueueOf[x] \in Queues
    BY WaveAssumption
  <2>2. qState'[QueueOf[x]] = "alive" /\ x \in hidden \cup parked => mem'[pc[x]] = mem[pc[x]]
    BY <1>0, <1>2, <1>4, <2>1 DEF WaveAt
  <2> QED BY <1>0, <1>1, <1>2, <1>9, <2>1, <2>2, WaveKept
<1>11. TermUsed'
  BY <1>1 DEF TermUsed, DInv
<1> QED BY <1>5, <1>6, <1>7, <1>8, <1>9, <1>10, <1>11 DEF DInv

\* The waves of W release their objects, when those are all the waves of them.
LEMMA AfterAll ==
  ASSUME TypeOK, ObjInv, \A w \in Waves : WaveAt(w), NEW W \in SUBSET Waves, NEW Q \in SUBSET Queues,
         W = {w \in Waves : QueueOf[w] \in Q}
  PROVE  \A i \in Ids : ObjAfter(W)[i] = IF obj[i] # NoObject /\ obj[i].queue \in Q
                                           THEN NoObject ELSE obj[i]
<1> SUFFICES ASSUME NEW i \in Ids
             PROVE  ObjAfter(W)[i] = IF obj[i] # NoObject /\ obj[i].queue \in Q
                                       THEN NoObject ELSE obj[i]
  OBVIOUS
<1> DEFINE n == Cardinality(Users(i) \cap W)
<1>1. ObjAfter(W)[i] = IF n = 0 THEN obj[i] ELSE IF n = obj[i].refs THEN NoObject
                       ELSE [obj[i] EXCEPT !.refs = @ - n]
  BY DEF ObjAfter
<1>2. CASE i \notin Live
  <2>1. Users(i) = {} /\ obj[i] = NoObject
    BY <1>2, NoUsers
  <2>2. n = 0
    BY <2>1, FS_EmptySet
  <2> QED BY <1>1, <2>1, <2>2
<1>3. CASE i \in Live
  <2>1. /\ obj[i].refs >= 1 /\ obj[i].refs = Cardinality(Users(i)) /\ obj[i] # NoObject
        /\ \A w \in Users(i) : QueueOf[w] = obj[i].queue
    BY <1>3 DEF ObjInv, Live
  <2>2. CASE obj[i].queue \in Q
    <3>1. Users(i) \cap W = Users(i)
      BY <2>1, <2>2 DEF Users
    <3>2. n = obj[i].refs
      BY <2>1, <3>1
    <3>3. obj[i].refs \in Nat
      BY <1>3, LiveObject, ObjectFields
    <3>4. n # 0
      BY <2>1, <3>2, <3>3
    <3> QED BY <1>1, <2>1, <2>2, <3>2, <3>4
  <2>3. CASE obj[i].queue \notin Q
    <3>1. Users(i) \cap W = {}
      BY <2>1, <2>3
    <3>2. n = 0
      BY <3>1, FS_EmptySet
    <3> QED BY <1>1, <2>3, <3>2
  <2> QED BY <2>2, <2>3
<1> QED BY <1>2, <1>3

\* The pools of the queues of Q are dropped, with the objects of their waves.
LEMMA Dropped ==
  ASSUME DInv, NEW W \in SUBSET Waves, NEW Q \in SUBSET Queues,
         W = {w \in Waves : QueueOf[w] \in Q}, obj' = ObjAfter(W), DropPools(Q), mem' = mem,
         \A x \in Waves : ds'[x] = IF x \in W THEN NoId ELSE ds[x],
         \A p \in Queues : qState'[p] = "alive" => qState[p] = "alive"
  PROVE  /\ PoolInv' /\ ObjInv' /\ MemInv'
         /\ obj' \in [Ids -> Objects \cup {NoObject}]
         /\ \A i \in Ids : obj'[i] = IF obj[i] # NoObject /\ obj[i].queue \in Q
                                       THEN NoObject ELSE obj[i]
         /\ next' \in [Queues -> 0 .. ChunkCount] /\ free' \in [Queues -> Seq(Chunks)]
         /\ park' \in [Queues -> Addresses] /\ term' \in [Queues -> Addresses]
         /\ \A p \in Queues :
              /\ p \in Q => next'[p] = 0 /\ free'[p] = <<>>
                            /\ park'[p] = NoAddress /\ term'[p] = NoAddress
              /\ p \notin Q => next'[p] = next[p] /\ free'[p] = free[p]
                               /\ park'[p] = park[p] /\ term'[p] = term[p]
<1>0. TypeOK /\ PoolInv /\ ObjInv /\ MemInv /\ \A x \in Waves : WaveAt(x)
  BY DEF DInv
<1>1. \A i \in Ids : obj'[i] = IF obj[i] # NoObject /\ obj[i].queue \in Q THEN NoObject ELSE obj[i]
  BY <1>0, AfterAll
<1>2. obj' \in [Ids -> Objects \cup {NoObject}]
  <2>1. obj' = [i \in Ids |-> obj'[i]]
    BY DEF ObjAfter
  <2>2. \A i \in Ids : obj'[i] \in Objects \cup {NoObject}
    BY <1>0, <1>1 DEF TypeOK
  <2> QED BY <2>1, <2>2
<1>3. Live' = {i \in Live : obj[i].queue \notin Q} /\ \A i \in Live' : obj'[i] = obj[i] /\ i \in Ids
  BY <1>1 DEF Live
<1>4. \A p \in Queues :
        /\ p \in Q => next'[p] = 0 /\ free'[p] = <<>>
                      /\ park'[p] = NoAddress /\ term'[p] = NoAddress
        /\ p \notin Q => next'[p] = next[p] /\ free'[p] = free[p]
                         /\ park'[p] = park[p] /\ term'[p] = term[p]
  BY DEF DropPools
<1>5. /\ next' \in [Queues -> 0 .. ChunkCount] /\ free' \in [Queues -> Seq(Chunks)]
      /\ park' \in [Queues -> Addresses] /\ term' \in [Queues -> Addresses]
  <2>1. 0 \in 0 .. ChunkCount /\ <<>> \in Seq(Chunks) /\ NoAddress \in Addresses
    BY PoolAssumption, EmptySeq DEF Addresses
  <2>2. \A p \in Queues : /\ next[p] \in 0 .. ChunkCount /\ free[p] \in Seq(Chunks)
                          /\ park[p] \in Addresses /\ term[p] \in Addresses
    BY <1>0 DEF TypeOK
  <2>3. /\ next' = [p \in Queues |-> next'[p]] /\ free' = [p \in Queues |-> free'[p]]
        /\ park' = [p \in Queues |-> park'[p]] /\ term' = [p \in Queues |-> term'[p]]
    BY DEF DropPools
  <2>4. \A p \in Queues : /\ next'[p] \in 0 .. ChunkCount /\ free'[p] \in Seq(Chunks)
                          /\ park'[p] \in Addresses /\ term'[p] \in Addresses
    BY <1>4, <2>1, <2>2
  <2> QED BY <2>3, <2>4
<1>6. PoolInv'
  <2>1. ASSUME NEW p \in Queues
        PROVE  /\ Accounts(p, free'[p], obj', next'[p], park'[p], term'[p])
               /\ park'[p] # NoAddress => Placed(p, next'[p], park'[p], 1)
               /\ term'[p] # NoAddress => Placed(p, next'[p], term'[p], 1)
    <3>1. CASE p \in Q
      <4>1. next'[p] = 0 /\ free'[p] = <<>> /\ park'[p] = NoAddress /\ term'[p] = NoAddress
        BY <1>4, <3>1
      <4>2. \A c : Buffers(p, obj', c) = {} /\ ~InList(<<>>, c) /\ ~IsAt(p, NoAddress, c)
        BY <1>1, <3>1 DEF Buffers, InList, IsAt
      <4>3. \A c \in Chunks : ~(c < 0)
        BY PoolAssumption DEF Chunks
      <4>4. DOMAIN <<>> = {}
        OBVIOUS
      <4>5. Accounts(p, <<>>, obj', 0, NoAddress, NoAddress)
        BY <4>2, <4>3, <4>4 DEF Accounts
      <4> QED BY <4>1, <4>5
    <3>2. CASE p \notin Q
      <4>1. \A j \in Ids : \/ /\ obj[j] # NoObject /\ obj'[j] # NoObject
                              /\ obj[j].queue = obj'[j].queue /\ obj[j].to = obj'[j].to
                           \/ /\ obj[j] = NoObject \/ obj[j].queue # p
                              /\ obj'[j] = NoObject
        BY <1>1, <3>2
      <4>2. Accounts(p, free[p], obj', next[p], park[p], term[p])
        BY <1>0, <4>1, SameAccounts DEF PoolInv
      <4> QED BY <1>0, <1>4, <3>2, <4>2 DEF PoolInv
    <3> QED BY <3>1, <3>2
  <2> QED BY <2>1 DEF PoolInv
<1>7. ObjInv'
  <2>1. ASSUME NEW i \in Live'
        PROVE  /\ Users(i)' = Users(i) /\ obj'[i] = obj[i] /\ i \in Live
               /\ next'[obj[i].queue] = next[obj[i].queue]
    <3>1. i \in Live /\ obj[i].queue \notin Q /\ obj'[i] = obj[i] /\ i # NoId
      BY <1>3, WaveAssumption
    <3>2. \A w \in Users(i) : w \notin W
      BY <1>0, <3>1 DEF ObjInv
    <3>3. Users(i)' = Users(i)
      BY <3>1, <3>2 DEF Users
    <3>4. obj[i].queue \in Queues
      BY <1>0, <1>3, <3>1, LiveObject, ObjectFields
    <3> QED BY <1>4, <3>1, <3>3, <3>4
  <2> QED BY <1>0, <2>1 DEF ObjInv
<1>8. MemInv'
  <2>1. ASSUME NEW p \in Queues, qState'[p] = "alive"
        PROVE  /\ \A c \in Chunks : c < next'[p] => mem[GuardOf(p, c)] = AssertWord
               /\ \A i \in Live' : obj'[i].queue = p /\ obj'[i].to # NoAddress =>
                    \A k \in 0 .. Size[obj'[i].from] - 1 : mem[obj'[i].to + k] = obj'[i].from + k
               /\ park'[p] # NoAddress => mem[park'[p]] = AssertWord
               /\ term'[p] # NoAddress => mem[term'[p]] = EndWord
    <3>0. qState[p] = "alive"
      BY <2>1
    <3>1. \A i \in Live' : obj'[i].queue = p /\ obj'[i].to # NoAddress =>
            \A k \in 0 .. Size[obj'[i].from] - 1 : mem[obj'[i].to + k] = obj'[i].from + k
      BY <1>0, <1>3, <3>0 DEF MemInv
    <3>2. CASE p \in Q
      <4>1. \A c \in Chunks : ~(c < 0)
        BY PoolAssumption DEF Chunks
      <4> QED BY <1>4, <3>1, <3>2, <4>1
    <3>3. CASE p \notin Q
      BY <1>0, <1>4, <3>0, <3>1, <3>3 DEF MemInv
    <3> QED BY <3>2, <3>3
  <2> QED BY <2>1 DEF MemInv
<1> QED BY <1>1, <1>2, <1>4, <1>5, <1>6, <1>7, <1>8

\* A queue_t is destroyed, and with it its waves.
LEMMA UpdateQueuesInv ==
  ASSUME DInv, NEW q \in Queues, UpdateQueues(q)
  PROVE  DInv' /\ \A x \in Waves \ WavesOf(q) : Untouched(x) /\ ObjectKept(x)
<1>0. TypeOK /\ PoolInv /\ ObjInv /\ MemInv /\ \A x \in Waves : WaveAt(x)
  BY DEF DInv
<1>1. attached /\ attached' = attached /\ frozen' = frozen /\ exited' = exited /\ qState[q] # "alive"
  BY DEF UpdateQueues, Idle
<1>2. CASE qState[q] # "invalid" /\ ~exited /\ \E w \in WavesOf(q) : Displaced(w)
  <2>1. fault' = "displaced_in_valid_queue" /\ UNCHANGED <<waveVars, obj, memVars, qState>>
    BY <1>2 DEF UpdateQueues
  <2> QED BY <1>0, <1>1, <2>1, ProcessOnly DEF TypeOK
<1>3. CASE ~(qState[q] # "invalid" /\ ~exited /\ \E w \in WavesOf(q) : Displaced(w))
  <2> DEFINE W == WavesOf(q)
             Q == {q}
  <2>1. /\ Forget(W) /\ obj' = ObjAfter(W) /\ DropPools(Q)
        /\ qState' = [qState EXCEPT ![q] = "gone"] /\ mem' = mem /\ fault' = fault
    BY <1>3 DEF UpdateQueues
  <2>2. W \in SUBSET Waves /\ Q \in SUBSET Queues /\ W = {w \in Waves : QueueOf[w] \in Q}
    BY DEF WavesOf
  <2>3. /\ qState' \in [Queues -> {"alive", "deleted", "invalid", "gone"}] /\ qState'[q] = "gone"
        /\ \A p \in Queues : p # q => qState'[p] = qState[p]
    BY <1>0, <2>1 DEF TypeOK
  <2>4. \A x \in Waves : ds'[x] = IF x \in W THEN NoId ELSE ds[x]
    BY <2>1 DEF Forget
  <2>5. \A p \in Queues : qState'[p] = "alive" => qState[p] = "alive"
    BY <2>3
  <2> HIDE DEF W, Q
  <2>6. /\ PoolInv' /\ ObjInv' /\ MemInv'
        /\ obj' \in [Ids -> Objects \cup {NoObject}]
        /\ \A i \in Ids : obj'[i] = IF obj[i] # NoObject /\ obj[i].queue \in Q
                                      THEN NoObject ELSE obj[i]
        /\ next' \in [Queues -> 0 .. ChunkCount] /\ free' \in [Queues -> Seq(Chunks)]
        /\ park' \in [Queues -> Addresses] /\ term' \in [Queues -> Addresses]
        /\ \A p \in Queues :
             /\ p \in Q => next'[p] = 0 /\ free'[p] = <<>>
                           /\ park'[p] = NoAddress /\ term'[p] = NoAddress
             /\ p \notin Q => next'[p] = next[p] /\ free'[p] = free[p]
                              /\ park'[p] = park[p] /\ term'[p] = term[p]
    BY <2>1, <2>2, <2>4, <2>5, Dropped
  <2>7. \A x \in Waves \ W : QueueOf[x] \in Queues /\ QueueOf[x] # q /\ QueueOf[x] \notin Q
    BY <2>2, WaveAssumption DEF Q
  <2>8. ASSUME NEW x \in Waves \ W PROVE ObjectKept(x)
    <3>1. SUFFICES ASSUME Displaced(x)
                   PROVE  /\ ds[x] \in Live' /\ obj'[ds[x]].from = obj[ds[x]].from
                          /\ obj'[ds[x]].to = obj[ds[x]].to
      BY DEF ObjectKept
    <3>2. ds[x] \in Ids /\ obj[ds[x]].queue = QueueOf[x] /\ obj[ds[x]] # NoObject
      BY <1>0, <3>1, OwnObject
    <3>3. obj'[ds[x]] = obj[ds[x]]
      BY <2>6, <2>7, <3>2
    <3> QED BY <3>2, <3>3 DEF Live
  <2>9. /\ \A x \in Waves : WaveAt(x)'
        /\ TermUsed'
        /\ \A x \in Waves \ W : Untouched(x)
        /\ state' \in [Waves -> {"run", "step", "stop", "absent"}]
        /\ hidden' \subseteq Waves /\ parked' \subseteq Waves
        /\ pc' \in [Waves -> Addresses] /\ saved' \in [Waves -> Addresses]
        /\ ds' \in [Waves -> Ids \cup {NoId}] /\ done' \in [Waves -> Code \cup {NoAddress}]
    <3>1. \A x \in Waves \ W : mem' = mem /\ qState'[QueueOf[x]] = qState[QueueOf[x]]
                               /\ term'[QueueOf[x]] = term[QueueOf[x]]
                               /\ park'[QueueOf[x]] = park[QueueOf[x]]
      BY <2>1, <2>3, <2>6, <2>7
    <3>2. \A p \in Queues : term'[p] # NoAddress => term[p] # NoAddress
      BY <2>6
    <3> QED BY <1>1, <2>1, <2>2, <2>8, <3>1, <3>2, ForgottenWaves
  <2>10. TypeOK'
    BY <1>0, <1>1, <2>1, <2>3, <2>6, <2>9 DEF TypeOK
  <2> QED BY <2>6, <2>8, <2>9, <2>10 DEF DInv, W
<1> QED BY <1>2, <1>3

\* A detach leaves each wave where the client sees it, and no object.
LEMMA DetachInv ==
  ASSUME DInv, Detach
  PROVE  /\ DInv' /\ fault' = "none"
         /\ \A w \in Waves : VisiblePc(w)' = VisiblePc(w)
<1>0. TypeOK /\ PoolInv /\ ObjInv /\ MemInv /\ \A x \in Waves : WaveAt(x)
  BY DEF DInv
<1>1. PICK Kept \in SUBSET Waves : DetachWaves(Kept)
  BY DEF Detach
<1> DEFINE Freed == {w \in Waves : \/ state[w] = "step"
                                   \/ state[w] = "stop" /\ w \notin Kept}
<1>2. /\ obj' = ObjAfter(Waves) /\ DropPools(Queues) /\ mem' = mem /\ qState' = qState
      /\ attached /\ attached' = FALSE /\ frozen' = FALSE /\ exited' = exited
      /\ fault' = IF \A i \in Ids : obj'[i] = NoObject THEN "none" ELSE "displaced_steppings_left"
  BY DEF Detach, Idle
<1>3. /\ state' = [w \in Waves |-> IF w \in Freed THEN "run" ELSE state[w]]
      /\ pc' = [w \in Waves |-> IF w \in Freed \/ w \notin parked THEN VisiblePc(w) ELSE pc[w]]
      /\ saved' = [w \in Waves |-> IF w \in parked \ Freed THEN VisiblePc(w) ELSE NoAddress]
      /\ parked' = parked \ Freed
      /\ ds' = [w \in Waves |-> NoId]
      /\ hidden' = hidden /\ done' = done
  BY <1>1 DEF DetachWaves, Restored
<1>4. \A x \in Waves : QueueOf[x] \in Queues
  BY WaveAssumption
<1>5. /\ PoolInv' /\ ObjInv' /\ MemInv'
      /\ obj' \in [Ids -> Objects \cup {NoObject}]
      /\ \A i \in Ids : obj'[i] = IF obj[i] # NoObject /\ obj[i].queue \in Queues
                                    THEN NoObject ELSE obj[i]
      /\ next' \in [Queues -> 0 .. ChunkCount] /\ free' \in [Queues -> Seq(Chunks)]
      /\ park' \in [Queues -> Addresses] /\ term' \in [Queues -> Addresses]
      /\ \A p \in Queues : p \in Queues => term'[p] = NoAddress
  <2>1. Waves \in SUBSET Waves /\ Queues \in SUBSET Queues
        /\ Waves = {w \in Waves : QueueOf[w] \in Queues}
    BY <1>4
  <2>2. \A x \in Waves : ds'[x] = IF x \in Waves THEN NoId ELSE ds[x]
    BY <1>3
  <2>3. \A p \in Queues : qState'[p] = "alive" => qState[p] = "alive"
    BY <1>2
  <2> QED BY <1>2, <2>1, <2>2, <2>3, Dropped
<1>6. \A i \in Ids : obj'[i] = NoObject
  <2>1. \A i \in Ids : obj[i] # NoObject => obj[i].queue \in Queues
    BY <1>0, LiveObject, ObjectFields
  <2> QED BY <1>5, <2>1
<1>7. ASSUME NEW w \in Waves
      PROVE  /\ VisiblePc(w) \in Addresses
             /\ state[w] = "absent" => VisiblePc(w) = NoAddress /\ pc[w] = NoAddress
             /\ w \in hidden => VisiblePc(w) = pc[w]
             /\ state[w] # "absent" /\ w \notin hidden => VisiblePc(w) \in Code
  <2>0. WaveAt(w) /\ pc[w] \in Addresses
    BY <1>0 DEF TypeOK
  <2>1. CASE state[w] = "absent" \/ w \in hidden
    <3>1. ~Displaced(w) /\ w \notin parked
      BY <2>0, <2>1 DEF WaveAt, Displaced
    <3>2. VisiblePc(w) = pc[w]
      BY <3>1 DEF VisiblePc, PC
    <3> QED BY <2>0, <2>1, <3>2 DEF WaveAt
  <2>2. CASE state[w] # "absent" /\ w \notin hidden
    <3>1. VisiblePc(w) \in Code
      BY <1>0, <2>2, VisibleInCode
    <3>2. VisiblePc(w) \in Addresses
      BY <3>1, CodeApart DEF Addresses
    <3> QED BY <2>2, <3>1, <3>2
  <2> QED BY <2>1, <2>2
<1> DEFINE At == [w \in Waves |-> VisiblePc(w)]
<1>8. /\ pc' \in [Waves -> Addresses] /\ saved' \in [Waves -> Addresses]
      /\ state' \in [Waves -> {"run", "step", "stop", "absent"}]
      /\ ds' \in [Waves -> Ids \cup {NoId}] /\ parked' \subseteq Waves
  <2>1. NoAddress \in Addresses /\ \A w \in Waves : VisiblePc(w) \in Addresses
    BY <1>7 DEF Addresses
  <2> HIDE DEF Freed
  <2> QED BY <1>0, <1>3, <2>1 DEF TypeOK
<1>9. TypeOK'
  BY <1>0, <1>2, <1>3, <1>5, <1>8 DEF TypeOK
<1>10. ASSUME NEW w \in Waves PROVE VisiblePc(w)' = VisiblePc(w) /\ PC(w)' = VisiblePc(w)
  <2>1. ~Displaced(w)'
    BY <1>3 DEF Displaced
  <2>2. VisiblePc(w)' = PC(w)'
    BY <2>1 DEF VisiblePc
  <2>3. PC(w)' = VisiblePc(w)
    <3> DEFINE v == VisiblePc(w)
    <3>1. pc'[w] = IF w \in Freed \/ w \notin parked THEN v ELSE pc[w]
      BY <1>3
    <3>2. saved'[w] = IF w \in parked \ Freed THEN v ELSE NoAddress
      BY <1>3
    <3>3. w \in parked' <=> w \in parked \ Freed
      BY <1>3
    <3>4. PC(w)' = IF w \in parked' THEN saved'[w] ELSE pc'[w]
      BY DEF PC
    <3> HIDE DEF Freed, v
    <3>5. PC(w)' = v
      BY <3>1, <3>2, <3>3, <3>4
    <3> QED BY <3>5 DEF v
  <2> QED BY <2>2, <2>3
<1>11. ASSUME NEW w \in Waves PROVE WaveAt(w)'
  <2>0. WaveAt(w) /\ QueueOf[w] \in Queues /\ state[w] \in {"run", "step", "stop", "absent"}
    BY <1>0, <1>4 DEF TypeOK
  <2>1. ds'[w] = NoId /\ ~Displaced(w)' /\ (w \in hidden' <=> w \in hidden)
    BY <1>3 DEF Displaced
  <2>2. state'[w] = IF w \in Freed THEN "run" ELSE state[w]
    BY <1>3
  <2>3. PC(w)' = VisiblePc(w)
    BY <1>10
  <2>4. CASE state[w] = "absent"
    <3>1. w \notin Freed /\ w \notin parked
      BY <2>0, <2>4 DEF WaveAt
    <3>2. pc'[w] = NoAddress
      BY <1>3, <1>7, <2>4, <3>1
    <3> QED BY <1>3, <2>0, <2>1, <2>2, <2>4, <3>1, <3>2 DEF WaveAt, Displaced
  <2>5. CASE w \in hidden
    <3>1. w \notin Freed /\ w \notin parked /\ state[w] = "run"
      BY <2>0, <2>5 DEF WaveAt
    <3>2. pc'[w] = pc[w]
      BY <1>3, <1>7, <2>5, <3>1
    <3> QED BY <1>2, <1>3, <2>0, <2>1, <2>2, <2>5, <3>1, <3>2 DEF WaveAt, Displaced
  <2>6. CASE state[w] # "absent" /\ w \notin hidden
    <3>1. PC(w)' \in Code
      BY <1>7, <2>3, <2>6
    <3>2. state'[w] \in {"run", "stop"}
      BY <2>0, <2>2, <2>6
    <3>3. w \in parked' => /\ state'[w] = "stop" /\ ParkStopped
                           /\ qState[QueueOf[w]] = "alive" => pc'[w] \in Pools /\ mem[pc'[w]] = AssertWord
      <4>1. SUFFICES ASSUME w \in parked'
                     PROVE  /\ state'[w] = "stop" /\ ParkStopped
                            /\ qState[QueueOf[w]] = "alive" =>
                                 pc'[w] \in Pools /\ mem[pc'[w]] = AssertWord
        OBVIOUS
      <4>2. w \in parked /\ w \notin Freed
        BY <1>3, <4>1
      <4>3. pc'[w] = pc[w] /\ state'[w] = state[w]
        BY <1>3, <4>2
      <4> QED BY <2>0, <4>2, <4>3 DEF WaveAt
    <3>4. qState[QueueOf[w]] # "gone"
      BY <2>0, <2>6 DEF WaveAt
    <3> QED BY <1>2, <2>1, <2>6, <3>1, <3>2, <3>3, <3>4 DEF WaveAt, Displaced
  <2> QED BY <2>4, <2>5, <2>6
<1>12. TermUsed'
  BY <1>5 DEF TermUsed
<1> QED BY <1>2, <1>5, <1>6, <1>9, <1>10, <1>11, <1>12 DEF DInv


-----------------------------------------------------------------------------
(* The invariant holds.                                                    *)

\* Nothing is displaced or allocated at first, and the waves run at Entry.
LEMMA Initially ==
  ASSUME Init
  PROVE  DInv
<1> USE DEF Init
<1>1. 0 \in 0 .. ChunkCount /\ <<>> \in Seq(Chunks) /\ Unwritten \in Int
      /\ Entry \in Code /\ Entry \in Addresses /\ NoAddress \in Addresses
  BY CodeAssumption, CodeApart, PoolAssumption DEF Unwritten, Addresses
<1>2. TypeOK
  BY <1>1 DEF TypeOK
<1>3. Live = {} /\ \A i \in Ids : obj[i] = NoObject
  BY DEF Live
<1>4. PoolInv
  <2>1. SUFFICES ASSUME NEW q \in Queues PROVE Accounts(q, <<>>, obj, 0, NoAddress, NoAddress)
    BY DEF PoolInv
  <2>2. \A c \in Chunks : /\ Buffers(q, obj, c) = {} /\ ~IsAt(q, NoAddress, c)
                          /\ ~InList(<<>>, c) /\ ~(c < 0)
    BY <1>3, PoolAssumption DEF Buffers, IsAt, InList, Chunks
  <2>3. DOMAIN <<>> = {}
    OBVIOUS
  <2> HIDE DEF Init
  <2> QED BY <2>2, <2>3 DEF Accounts
<1>5. ObjInv
  BY <1>3 DEF ObjInv
<1>6. MemInv
  <2>1. \A q \in Queues : \A c \in Chunks : ~(c < next[q])
    BY PoolAssumption DEF Chunks
  <2> QED BY <1>3, <2>1 DEF MemInv
<1>7. ASSUME NEW w \in Waves PROVE WaveAt(w)
  <2>1. /\ state[w] = "run" /\ pc[w] = Entry /\ ds[w] = NoId /\ attached
        /\ w \notin hidden /\ w \notin parked /\ qState[QueueOf[w]] = "alive"
    BY WaveAssumption
  <2>2. PC(w) = Entry /\ ~Displaced(w)
    BY <2>1 DEF PC, Displaced
  <2> HIDE DEF Init
  <2> QED BY <1>1, <2>1, <2>2 DEF WaveAt
<1>8. TermUsed
  BY DEF TermUsed
<1> HIDE DEF Init
<1> QED BY <1>2, <1>4, <1>5, <1>6, <1>7, <1>8 DEF DInv

\* Every step keeps the invariant, action by action.
LEMMA Stepping ==
  ASSUME DInv, [Next]_vars
  PROVE  DInv'
<1>0. TypeOK
  BY DEF DInv
<1>1. ASSUME NEW w \in Waves, WaveStep(w) PROVE DInv'
  <2>1. CASE StartShared(w)
    BY <2>1, StartSharedInv
  <2>2. CASE StartSimulated(w)
    BY <2>2, StartSimulatedInv
  <2>3. CASE StartDisplaced(w)
    BY <2>3, StartDisplacedInv
  <2>4. CASE StartExhausted(w)
    <3>1. /\ UNCHANGED <<waveVars, obj, memVars, attached>> /\ UNCHANGED <<qState, frozen, exited>>
          /\ fault' = "no_debugger_memory"
      BY <2>4 DEF StartExhausted, procVars
    <3> QED BY <1>0, <3>1, ProcessOnly DEF TypeOK
  <2>5. CASE Complete(w)
    BY <2>5, CompleteInv
  <2>6. CASE ResumeWave(w)
    BY <2>6, StartAsInv DEF ResumeWave
  <2>7. CASE StepEnds(w)
    BY <2>7, StepEndsInv
  <2>8. CASE StepSimulated(w)
    BY <2>8, StepSimulatedInv
  <2>9. CASE StepOnHardware(w)
    <3>1. Displaced(w) => obj[ds[w]].to # NoAddress
      BY <2>9, OnHardware
    <3>2. MayResume(w) /\ StartAs(w, "step")
          /\ UNCHANGED <<hidden, ds, done, obj, memVars, procVars, fault>>
      BY <2>9 DEF StepOnHardware, MayStep
    <3> QED BY <3>1, <3>2, StartAsInv
  <2>10. CASE StopWave(w)
    BY <2>10, StopWaveInv
  <2>11. CASE HwInCode(w)
    BY <2>11, HwInCodeInv
  <2>12. CASE HwInBuffer(w)
    BY <2>12, HwInBufferInv
  <2>13. CASE HwTraps(w)
    BY <2>13, HwTrapsInv
  <2>14. CASE HwEnds(w)
    BY <2>14, HwEndsInv
  <2> QED BY <1>1, <2>1, <2>2, <2>3, <2>4, <2>5, <2>6, <2>7, <2>8, <2>9, <2>10, <2>11,
             <2>12, <2>13, <2>14 DEF WaveStep
<1>2. ASSUME NEW q \in Queues, QueueStep(q) PROVE DInv'
  <2>1. CASE OsDestroyQueue(q)
    <3>1. attached /\ Lost({q}) /\ exited' \in BOOLEAN
      BY <1>0, <2>1 DEF OsDestroyQueue, TypeOK
    <3> QED BY <3>1, LostInv
  <2>2. CASE SuspendFinds(q)
    <3>1. /\ UNCHANGED <<waveVars, obj, memVars, attached>> /\ UNCHANGED <<frozen, exited, fault>>
          /\ qState' = [qState EXCEPT ![q] = "invalid"]
      BY <2>2 DEF SuspendFinds
    <3>2. /\ qState' \in [Queues -> {"alive", "deleted", "invalid", "gone"}]
          /\ \A p \in Queues : /\ qState'[p] = "alive" => qState[p] = "alive"
                               /\ qState'[p] = "gone" => qState[p] = "gone"
      BY <1>0, <3>1 DEF TypeOK
    <3>3. frozen' \in BOOLEAN /\ exited' \in BOOLEAN
          /\ fault' \in {"none", "no_debugger_memory", "displaced_in_valid_queue",
                         "displaced_steppings_left"}
      BY <1>0, <3>1 DEF TypeOK
    <3> QED BY <3>1, <3>2, <3>3, ProcessOnly
  <2>3. CASE UpdateQueues(q)
    BY <2>3, UpdateQueuesInv
  <2> QED BY <1>2, <2>1, <2>2, <2>3 DEF QueueStep
<1>3. CASE ProcessExit
  <2>1. attached /\ Lost(Queues) /\ exited' \in BOOLEAN /\ Queues \in SUBSET Queues
    BY <1>3 DEF ProcessExit
  <2> QED BY <2>1, LostInv
<1>4. CASE Detach
  BY <1>4, DetachInv
<1>5. CASE Freeze \/ Unfreeze \/ UNCHANGED vars
  <2>1. /\ UNCHANGED <<waveVars, obj, memVars, attached>> /\ UNCHANGED <<qState, exited, fault>>
        /\ frozen' \in {TRUE, FALSE, frozen}
    BY <1>5 DEF Freeze, Unfreeze, vars, procVars
  <2>2. /\ qState' \in [Queues -> {"alive", "deleted", "invalid", "gone"}]
        /\ frozen' \in BOOLEAN /\ exited' \in BOOLEAN
        /\ fault' \in {"none", "no_debugger_memory", "displaced_in_valid_queue",
                       "displaced_steppings_left"}
    BY <1>0, <2>1 DEF TypeOK
  <2> QED BY <2>1, <2>2, ProcessOnly
<1> QED BY <1>1, <1>2, <1>3, <1>4, <1>5 DEF Next

\* The invariant of the module: chunks, objects, memory and waves together, for
\* any program and any use of displaced_stepping.cpp and queue.cpp.
THEOREM Inductive == Spec => []DInv
<1>1. Init => DInv
  BY Initially
<1>2. DInv /\ [Next]_vars => DInv'
  BY Stepping
<1> QED BY <1>1, <1>2, PTL DEF Spec

\* What the invariant says of who holds a chunk, as a set.
LEMMA HeldOnce ==
  ASSUME DInv, NEW q \in Queues, NEW c \in Chunks
  PROVE  /\ c < next[q] => \E h : Holders(q, c) = {h}
         /\ ~(c < next[q]) => Holders(q, c) = {}
<1> DEFINE F == {<<"free", k>> : k \in {n \in DOMAIN free[q] : free[q][n] = c}}
           O == {<<"object", i>> : i \in {n \in Live : /\ obj[n].queue = q
                                                       /\ obj[n].to # NoAddress
                                                       /\ ChunkOf(q, obj[n].to) = c}}
           P == {<<"park", c>> : n \in {m \in {park[q]} : m # NoAddress
                                                       /\ ChunkOf(q, m) = c}}
           T == {<<"term", c>> : n \in {m \in {term[q]} : m # NoAddress
                                                       /\ ChunkOf(q, m) = c}}
           B == Buffers(q, obj, c)
<1>1. Holders(q, c) = F \cup O \cup P \cup T
  BY DEF Holders
<1>2. /\ \A k, l \in DOMAIN free[q] : free[q][k] = free[q][l] => k = l
      /\ \A i, j \in B : i = j
      /\ InList(free[q], c) => B = {} /\ ~IsAt(q, park[q], c) /\ ~IsAt(q, term[q], c)
      /\ IsAt(q, park[q], c) => B = {} /\ ~IsAt(q, term[q], c)
      /\ IsAt(q, term[q], c) => B = {}
      /\ c < next[q] <=> \/ InList(free[q], c) \/ B # {}
                         \/ IsAt(q, park[q], c) \/ IsAt(q, term[q], c)
  BY DEF DInv, PoolInv, Accounts
<1>3. /\ ~InList(free[q], c) => F = {}
      /\ InList(free[q], c) => \E h : F = {h}
  <2>1. ASSUME ~InList(free[q], c) PROVE F = {}
    BY <2>1 DEF InList
  <2>2. ASSUME InList(free[q], c) PROVE \E h : F = {h}
    <3>1. PICK k \in DOMAIN free[q] : free[q][k] = c
      BY <2>2 DEF InList
    <3>2. {n \in DOMAIN free[q] : free[q][n] = c} = {k}
      BY <1>2, <3>1
    <3>3. F = {<<"free", k>>}
      BY <3>2, Zenon
    <3> QED BY <3>3
  <2> QED BY <2>1, <2>2
<1>4. /\ B = {} => O = {}
      /\ B # {} => \E h : O = {h}
  <2>1. B = {n \in Live : /\ obj[n].queue = q /\ obj[n].to # NoAddress
                          /\ ChunkOf(q, obj[n].to) = c}
    BY DEF Buffers, Live
  <2>2. O = {<<"object", i>> : i \in B}
    BY <2>1, Zenon
  <2> HIDE DEF O, B
  <2>3. ASSUME B # {} PROVE \E h : O = {h}
    <3>1. PICK i \in B : TRUE
      BY <2>3
    <3>2. B = {i}
      BY <1>2, <3>1
    <3>3. O = {<<"object", i>>}
      BY <2>2, <3>2, Zenon
    <3> QED BY <3>3
  <2> QED BY <2>2, <2>3
<1>5. /\ ~IsAt(q, park[q], c) => P = {}
      /\ IsAt(q, park[q], c) => \E h : P = {h}
  <2>1. ASSUME IsAt(q, park[q], c) PROVE P = {<<"park", c>>}
    BY <2>1 DEF IsAt
  <2> QED BY <2>1 DEF IsAt
<1>6. /\ ~IsAt(q, term[q], c) => T = {}
      /\ IsAt(q, term[q], c) => \E h : T = {h}
  <2>1. ASSUME IsAt(q, term[q], c) PROVE T = {<<"term", c>>}
    BY <2>1 DEF IsAt
  <2> QED BY <2>1 DEF IsAt
<1> HIDE DEF F, O, P, T, B
<1>7. CASE InList(free[q], c)
  <2>1. O = {} /\ P = {} /\ T = {} /\ c < next[q]
    BY <1>2, <1>4, <1>5, <1>6, <1>7
  <2>2. Holders(q, c) = F
    BY <1>1, <2>1
  <2> QED BY <1>3, <1>7, <2>1, <2>2
<1>8. CASE ~InList(free[q], c) /\ B # {}
  <2>1. F = {} /\ P = {} /\ T = {} /\ c < next[q]
    BY <1>2, <1>3, <1>5, <1>6, <1>8
  <2>2. Holders(q, c) = O
    BY <1>1, <2>1
  <2> QED BY <1>4, <1>8, <2>1, <2>2
<1>9. CASE ~InList(free[q], c) /\ B = {} /\ IsAt(q, park[q], c)
  <2>1. F = {} /\ O = {} /\ T = {} /\ c < next[q]
    BY <1>2, <1>3, <1>4, <1>6, <1>9
  <2>2. Holders(q, c) = P
    BY <1>1, <2>1
  <2> QED BY <1>5, <1>9, <2>1, <2>2
<1>10. CASE ~InList(free[q], c) /\ B = {} /\ ~IsAt(q, park[q], c)
  <2>1. F = {} /\ O = {} /\ P = {} /\ (c < next[q] <=> IsAt(q, term[q], c))
    BY <1>2, <1>3, <1>4, <1>5, <1>10
  <2>2. Holders(q, c) = T
    BY <1>1, <2>1
  <2> QED BY <1>6, <2>1, <2>2
<1> QED BY <1>7, <1>8, <1>9, <1>10

\* What the waves find in the memory for the debugger, from the invariant.
LEMMA FoundIntact ==
  ASSUME DInv
  PROVE  BuffersIntact
<1>0. TypeOK /\ ObjInv /\ MemInv /\ \A w \in Waves : WaveAt(w)
  BY DEF DInv
<1>1. SUFFICES ASSUME NEW w \in Waves, fault = "none", qState[QueueOf[w]] = "alive"
               PROVE  /\ Displaced(w) /\ obj[ds[w]].to # NoAddress =>
                           LET from == obj[ds[w]].from
                               to == obj[ds[w]].to
                           IN /\ \A k \in 0 .. Size[from] - 1 : mem[to + k] = from + k
                              /\ mem[to + Size[from]] = AssertWord
                              /\ PC(w) \in {to, to + Size[from]}
                      /\ w \in parked => mem[pc[w]] = AssertWord
                      /\ w \in hidden => mem[pc[w]] = EndWord
  BY DEF BuffersIntact
<1>2. WaveAt(w)
  BY <1>0
<1>3. (w \in parked => mem[pc[w]] = AssertWord) /\ (w \in hidden => mem[pc[w]] = EndWord)
  BY <1>1, <1>2 DEF WaveAt
<1>4. ASSUME Displaced(w), obj[ds[w]].to # NoAddress
      PROVE  LET from == obj[ds[w]].from
                 to == obj[ds[w]].to
             IN /\ \A k \in 0 .. Size[from] - 1 : mem[to + k] = from + k
                /\ mem[to + Size[from]] = AssertWord
                /\ PC(w) \in {to, to + Size[from]}
  <2> DEFINE i == ds[w]
             q == QueueOf[w]
  <2>1. i \in Live /\ obj[i].queue = q /\ q \in Queues
    BY <1>0, <1>2, <1>4, OwnObject
  <2>2. PC(w) \in {obj[i].to, obj[i].to + Size[obj[i].from]}
    BY <1>2, <1>4 DEF WaveAt, DisplacedAt
  <2>3. \A k \in 0 .. Size[obj[i].from] - 1 : mem[obj[i].to + k] = obj[i].from + k
    BY <1>0, <1>1, <1>4, <2>1 DEF MemInv
  <2> HIDE DEF i
  <2>4. obj[i].to # NoAddress
    BY <1>4 DEF i
  <2>5. /\ ChunkOf(q, obj[i].to) \in Chunks /\ ChunkOf(q, obj[i].to) < next[q]
        /\ obj[i].to + Size[obj[i].from] = GuardOf(q, ChunkOf(q, obj[i].to))
    BY <1>0, <2>1, <2>4, BufferPlaced
  <2>6. mem[obj[i].to + Size[obj[i].from]] = AssertWord
    BY <1>0, <1>1, <2>1, <2>5 DEF MemInv
  <2> QED BY <2>2, <2>3, <2>6 DEF i
<1> QED BY <1>3, <1>4

\* The invariant implies the accounting that the runs check.
LEMMA AccountedFor ==
  ASSUME DInv
  PROVE  BuffersAccounted
<1>0. TypeOK /\ ObjInv /\ \A w \in Waves : WaveAt(w)
  BY DEF DInv
<1>1. ChunksAccounted
  <2>1. ASSUME NEW q \in Queues, NEW c \in Chunks
        PROVE  Cardinality(Holders(q, c)) = IF c < next[q] THEN 1 ELSE 0
    <3>1. CASE c < next[q]
      <4>1. PICK h : Holders(q, c) = {h}
        BY <3>1, HeldOnce
      <4>2. Cardinality({h}) = 1
        BY FS_Singleton
      <4> QED BY <3>1, <4>1, <4>2
    <3>2. CASE ~(c < next[q])
      BY <3>2, HeldOnce, FS_EmptySet
    <3> QED BY <3>1, <3>2
  <2> QED BY <2>1 DEF ChunksAccounted
<1>2. RefsCounted
  <2>1. \A w \in Waves : Displaced(w) => ds[w] \in Live /\ obj[ds[w]].queue = QueueOf[w]
    BY <1>0, OwnObject
  <2> QED BY <1>0, <2>1 DEF RefsCounted, ObjInv
<1>3. BuffersIntact
  BY FoundIntact
<1> QED BY <1>0, <1>1, <1>2, <1>3 DEF BuffersAccounted

\* Every chunk that allocate_displaced_instruction ever handed out has exactly
\* one holder, the count of a displaced_stepping_t is that of its waves, and a
\* wave in a buffer finds the whole of its instruction there.
THEOREM Accounted == Spec => []BuffersAccounted
<1>1. DInv => BuffersAccounted
  BY AccountedFor
<1> QED BY <1>1, Inductive, PTL

\* The assertion of process_t::detach holds: each wave that is displaced has
\* released its object when the process is let go.
THEOREM NoneLeft == Spec => []DetachLeavesNone
<1>1. Init => DetachLeavesNone
  BY DEF Init, DetachLeavesNone
<1>2. DInv /\ DetachLeavesNone /\ [Next]_vars => DetachLeavesNone'
  <2> SUFFICES ASSUME DInv, fault # "displaced_steppings_left", [Next]_vars
               PROVE  fault' # "displaced_steppings_left"
    BY DEF DetachLeavesNone
  <2>1. CASE Detach
    BY <2>1, DetachInv
  <2>2. ASSUME NEW w \in Waves, WaveStep(w)
        PROVE  fault' \in {fault, "no_debugger_memory"}
    <3>1. ASSUME NEW a, StopAt(w, a) PROVE fault' \in {fault, "no_debugger_memory"}
      BY <3>1 DEF StopAt
    <3>2. Terminate(w) => fault' \in {fault, "no_debugger_memory"}
      BY DEF Terminate
    <3>3. ASSUME NEW a, NEW b, HwExecutes(w, a, b) PROVE fault' \in {fault, "no_debugger_memory"}
      BY <3>1, <3>3 DEF HwExecutes
    <3>4. CASE StepEnds(w) \/ StepSimulated(w) \/ StopWave(w) \/ HwTraps(w)
      BY <3>1, <3>2, <3>4 DEF StepEnds, StepSimulated, StopWave, HwTraps
    <3>5. CASE HwInCode(w) \/ HwInBuffer(w)
      BY <3>3, <3>5 DEF HwInCode, HwInBuffer
    <3>6. CASE StartShared(w) \/ StartSimulated(w) \/ StartDisplaced(w) \/ StartExhausted(w)
      BY <3>6 DEF StartShared, StartSimulated, StartDisplaced, StartExhausted
    <3>7. CASE Complete(w) \/ ResumeWave(w) \/ StepOnHardware(w) \/ HwEnds(w)
      BY <3>7 DEF Complete, ResumeWave, StepOnHardware, HwEnds
    <3> QED BY <2>2, <3>4, <3>5, <3>6, <3>7 DEF WaveStep
  <2>3. ASSUME NEW q \in Queues, QueueStep(q)
        PROVE  fault' \in {fault, "displaced_in_valid_queue"}
    BY <2>3 DEF QueueStep, OsDestroyQueue, Lost, SuspendFinds, UpdateQueues
  <2>4. CASE ProcessExit \/ Freeze \/ Unfreeze \/ UNCHANGED vars
    BY <2>4 DEF ProcessExit, Lost, Freeze, Unfreeze, vars
  <2> QED BY <2>1, <2>2, <2>3, <2>4 DEF Next
<1> QED BY <1>1, <1>2, Inductive, PTL DEF Spec

-----------------------------------------------------------------------------
(* How much memory is enough.                                              *)

\* One chunk for each wave of a queue, and one to park stopped waves at.
EnoughChunks ==
  \A q \in Queues :
    Cardinality(WavesOf(q)) + (IF ParkStopped THEN 1 ELSE 0) <= ChunkCount

\* Wave x answers for chunk c of queue q: it is the chunk of its buffer, or that
\* of the terminating instruction, which it was sent to or has ended at.
AnswersFor(x, q, c) ==
  \/ Displaced(x) /\ ds[x] \in Buffers(q, obj, c)
  \/ IsAt(q, term[q], c) /\ (x \in hidden \/ state[x] = "absent")

\* A wave answers for one chunk only, so that more chunks than waves are not
\* all answered for.
LEMMA Pigeons ==
  ASSUME DInv, NEW q \in Queues, NEW W \in SUBSET WavesOf(q), NEW C \in SUBSET Chunks,
         Cardinality(W) < Cardinality(C)
  PROVE  \E c \in C : \A x \in W : ~AnswersFor(x, q, c)
<1> SUFFICES ASSUME \A c \in C : \E x \in W : AnswersFor(x, q, c)
             PROVE  FALSE
  OBVIOUS
<1>1. IsFiniteSet(W) /\ IsFiniteSet(C)
  <2>1. W \in SUBSET Waves
    BY DEF WavesOf
  <2>2. IsFiniteSet(W)
    BY <2>1, WaveAssumption, FS_Subset
  <2>3. 0 \in Int /\ ChunkCount - 1 \in Int
    BY PoolAssumption
  <2>4. IsFiniteSet(Chunks)
    BY <2>3, FS_Interval DEF Chunks
  <2> QED BY <2>2, <2>4, FS_Subset
<1> DEFINE f == [c \in C |-> CHOOSE x \in W : AnswersFor(x, q, c)]
<1>2. \A c \in C : f[c] \in W /\ AnswersFor(f[c], q, c)
  OBVIOUS
<1>3. f \in [C -> W]
  BY <1>2
<1> HIDE DEF f
<1>4. PICK c, d \in C : c # d /\ f[c] = f[d]
  BY <1>1, <1>3, FS_PigeonHole
<1> DEFINE x == f[c]
<1>5. x \in Waves /\ AnswersFor(x, q, c) /\ AnswersFor(x, q, d)
  BY <1>2, <1>4 DEF WavesOf
<1>6. WaveAt(x)
  BY <1>5 DEF DInv
<1> HIDE DEF x
<1>7. x \in hidden \/ state[x] = "absent" => ~Displaced(x)
  BY <1>6 DEF WaveAt, Displaced
<1>8. c = d
  BY <1>5, <1>7 DEF AnswersFor, Buffers, IsAt
<1> QED BY <1>4, <1>8

\* A chunk of a pool that is used up, other than the one that waves are parked
\* at, is answered for by a wave of the queue.
LEMMA UsedUp ==
  ASSUME DInv, NEW q \in Queues, free[q] = <<>>, ~(next[q] < ChunkCount),
         NEW c \in Chunks, ~IsAt(q, park[q], c)
  PROVE  \E x \in WavesOf(q) : AnswersFor(x, q, c)
<1>0. TypeOK /\ ObjInv /\ PoolInv /\ TermUsed
  BY DEF DInv
<1>1. c < next[q]
  BY <1>0, PoolAssumption DEF TypeOK, Chunks
<1>2. ~InList(free[q], c)
  BY DEF InList
<1>3. Buffers(q, obj, c) # {} \/ IsAt(q, term[q], c)
  BY <1>0, <1>1, <1>2 DEF PoolInv, Accounts
<1>4. ASSUME NEW i \in Buffers(q, obj, c) PROVE \E x \in WavesOf(q) : AnswersFor(x, q, c)
  <2>1. i \in Live /\ obj[i].queue = q
    BY DEF Buffers, Live
  <2>2. Users(i) # {}
    <3>1. obj[i].refs >= 1 /\ obj[i].refs = Cardinality(Users(i))
      BY <1>0, <2>1 DEF ObjInv
    <3>2. Cardinality({}) = 0
      BY FS_EmptySet
    <3>3. ASSUME Users(i) = {} PROVE FALSE
      <4>1. Cardinality(Users(i)) = 0
        BY <3>2, <3>3
      <4>2. 0 >= 1
        BY <3>1, <4>1
      <4> QED BY <4>2
    <3> QED BY <3>3
  <2>3. PICK x \in Users(i) : TRUE
    BY <2>2
  <2>4. x \in WavesOf(q) /\ ds[x] = i
    BY <1>0, <2>1, <2>3 DEF ObjInv, Users, WavesOf
  <2>5. i # NoId
    BY WaveAssumption DEF Buffers
  <2> QED BY <2>4, <2>5 DEF AnswersFor, Displaced
<1>5. ASSUME IsAt(q, term[q], c) PROVE \E x \in WavesOf(q) : AnswersFor(x, q, c)
  BY <1>0, <1>5 DEF TermUsed, IsAt, AnswersFor
<1> QED BY <1>3, <1>4, <1>5

\* The chunks of a queue, without the one that waves are parked at.
Unparked(q) == {c \in Chunks : ~IsAt(q, park[q], c)}

\* How many they are.
LEMMA UnparkedCount ==
  ASSUME EnoughChunks, TypeOK, NEW q \in Queues, park[q] # NoAddress => ParkStopped
  PROVE  /\ Cardinality(WavesOf(q)) \in Nat
         /\ Cardinality(WavesOf(q)) <= Cardinality(Unparked(q))
         /\ ParkStopped /\ park[q] = NoAddress => Cardinality(WavesOf(q)) < Cardinality(Unparked(q))
<1>1. IsFiniteSet(WavesOf(q)) /\ Cardinality(WavesOf(q)) \in Nat
  BY WaveAssumption, FS_Subset, FS_CardinalityType DEF WavesOf
<1>2. IsFiniteSet(Chunks) /\ Cardinality(Chunks) = ChunkCount
  <2>1. 0 \in Int /\ ChunkCount - 1 \in Int /\ ChunkCount \in Nat
    BY PoolAssumption
  <2>2. /\ IsFiniteSet(0 .. ChunkCount - 1)
        /\ Cardinality(0 .. ChunkCount - 1) =
             IF 0 > ChunkCount - 1 THEN 0 ELSE ChunkCount - 1 - 0 + 1
    BY <2>1, FS_Interval
  <2> QED BY <2>1, <2>2 DEF Chunks
<1>3. Cardinality(WavesOf(q)) + (IF ParkStopped THEN 1 ELSE 0) <= ChunkCount
  BY DEF EnoughChunks
<1>4. CASE park[q] = NoAddress
  <2>1. Unparked(q) = Chunks
    BY <1>4 DEF Unparked, IsAt
  <2> QED BY <1>1, <1>2, <1>3, <1>4, <2>1, PoolAssumption
<1>5. CASE park[q] # NoAddress
  <2> DEFINE c0 == ChunkOf(q, park[q])
  <2>1. Unparked(q) = Chunks \ {c0}
    BY <1>5 DEF Unparked, IsAt
  <2>2. Cardinality(Chunks \ {c0}) \in {ChunkCount - 1, ChunkCount}
    BY <1>2, FS_RemoveElement
  <2>3. ParkStopped
    BY <1>5
  <2> HIDE DEF c0
  <2> QED BY <1>1, <1>3, <1>5, <2>1, <2>2, <2>3, PoolAssumption
<1> QED BY <1>1, <1>4, <1>5

\* The library has a parked instruction only where waves are parked.
ParkUsed == \A q \in Queues : park[q] # NoAddress => ParkStopped

\* While a wave of the queue answers for no chunk there is a chunk left.
LEMMA OneLeft ==
  ASSUME EnoughChunks, DInv, ParkUsed, NEW w \in Waves,
         free[QueueOf[w]] = <<>>, ~(next[QueueOf[w]] < ChunkCount)
  PROVE  /\ ~(ParkStopped /\ park[QueueOf[w]] = NoAddress)
         /\ \E c \in Unparked(QueueOf[w]) :
              \A x \in WavesOf(QueueOf[w]) \ {w} : ~AnswersFor(x, QueueOf[w], c)
<1> DEFINE q == QueueOf[w]
<1>0. q \in Queues /\ TypeOK /\ w \in WavesOf(q) /\ (park[q] # NoAddress => ParkStopped)
  BY WaveAssumption DEF DInv, ParkUsed, WavesOf
<1>1. /\ Cardinality(WavesOf(q)) \in Nat
      /\ Cardinality(WavesOf(q)) <= Cardinality(Unparked(q))
      /\ ParkStopped /\ park[q] = NoAddress => Cardinality(WavesOf(q)) < Cardinality(Unparked(q))
  BY <1>0, UnparkedCount
<1>2. Unparked(q) \in SUBSET Chunks /\ \A c \in Unparked(q) : ~IsAt(q, park[q], c)
  BY DEF Unparked
<1>3. free[q] = <<>> /\ ~(next[q] < ChunkCount)
  OBVIOUS
<1> HIDE DEF q
<1>4. \A c \in Unparked(q) : \E x \in WavesOf(q) : AnswersFor(x, q, c)
  BY <1>0, <1>2, <1>3, UsedUp
<1>5. ~(ParkStopped /\ park[q] = NoAddress)
  <2>1. WavesOf(q) \in SUBSET WavesOf(q)
    OBVIOUS
  <2> QED BY <1>0, <1>1, <1>2, <1>4, <2>1, Pigeons
<1>6. \E c \in Unparked(q) : \A x \in WavesOf(q) \ {w} : ~AnswersFor(x, q, c)
  <2>1. IsFiniteSet(WavesOf(q))
    BY WaveAssumption, FS_Subset DEF WavesOf
  <2>2. Cardinality(WavesOf(q) \ {w}) = Cardinality(WavesOf(q)) - 1
    BY <1>0, <2>1, FS_RemoveElement
  <2>3. IsFiniteSet(Chunks)
    <3>1. 0 \in Int /\ ChunkCount - 1 \in Int
      BY PoolAssumption
    <3> QED BY <3>1, FS_Interval DEF Chunks
  <2>4. IsFiniteSet(Unparked(q))
    BY <1>2, <2>3, FS_Subset
  <2>5. Cardinality(Unparked(q)) \in Nat
    BY <2>4, FS_CardinalityType
  <2>6. Cardinality(WavesOf(q) \ {w}) < Cardinality(Unparked(q))
    BY <1>1, <2>2, <2>5
  <2>7. WavesOf(q) \ {w} \in SUBSET WavesOf(q)
    OBVIOUS
  <2> QED BY <1>0, <1>2, <2>6, <2>7, Pigeons
<1> QED BY <1>5, <1>6 DEF q

\* A wave that is about to be displaced finds a chunk.
LEMMA StartFinds ==
  ASSUME EnoughChunks, DInv, ParkUsed, NEW w \in Waves
  PROVE  ~StartExhausted(w)
<1> SUFFICES ASSUME StartExhausted(w) PROVE FALSE
  OBVIOUS
<1> DEFINE q == QueueOf[w]
<1>1. /\ free[q] = <<>> /\ ~(next[q] < ChunkCount)
      /\ ~Displaced(w) /\ w \notin hidden /\ state[w] = "stop" /\ q \in Queues
  BY WaveAssumption DEF StartExhausted, CanAllocate, MayStart, Found
<1>2. PICK c \in Unparked(q) : \A x \in WavesOf(q) \ {w} : ~AnswersFor(x, q, c)
  BY <1>1, OneLeft
<1> HIDE DEF q
<1>3. c \in Chunks /\ ~IsAt(q, park[q], c)
  BY DEF Unparked
<1>4. \E x \in WavesOf(q) : AnswersFor(x, q, c)
  BY <1>1, <1>3, UsedUp
<1>5. ~AnswersFor(w, q, c)
  BY <1>1 DEF AnswersFor
<1> QED BY <1>2, <1>4, <1>5

\* And so does one that is to be parked.
LEMMA ParkFinds ==
  ASSUME EnoughChunks, DInv, ParkUsed, NEW w \in Waves, NEW a, StopAt(w, a)
  PROVE  fault' = fault
<1>1. ~(ParkStopped /\ park[QueueOf[w]] = NoAddress /\ ~CanAllocate(QueueOf[w], free[QueueOf[w]]))
  BY OneLeft DEF CanAllocate
<1> QED BY <1>1 DEF StopAt

\* And one that is to end: the chunk of its own buffer, if no other.
LEMMA EndFinds ==
  ASSUME EnoughChunks, DInv, ParkUsed, NEW w \in Waves, w \notin hidden, state[w] # "absent",
         Terminate(w)
  PROVE  fault' = fault
<1> DEFINE q == QueueOf[w]
<1>0. TypeOK /\ ObjInv /\ WaveAt(w) /\ q \in Queues
  BY WaveAssumption DEF DInv
<1> SUFFICES ASSUME term[q] = NoAddress, ~CanAllocate(q, FreeReleased(w)) PROVE FALSE
  BY DEF Terminate
<1>1. FreeReleased(w) = <<>> /\ ~(next[q] < ChunkCount)
  BY DEF CanAllocate
<1>2. ~(Displaced(w) /\ LastUser(w) /\ obj[ds[w]].to # NoAddress)
  <2>1. free[q] \in Seq(Chunks)
    BY <1>0 DEF TypeOK
  <2>2. \A e : Len(Append(free[q], e)) = Len(free[q]) + 1 /\ Len(free[q]) \in Nat
    BY <2>1
  <2>3. \A e : Append(free[q], e) # <<>>
    <3>1. Len(<<>>) = 0
      OBVIOUS
    <3> QED BY <2>2, <3>1
  <2> QED BY <1>1, <2>3 DEF FreeReleased
<1>3. free[q] = <<>>
  BY <1>1, <1>2 DEF FreeReleased
<1>4. PICK c \in Unparked(q) : \A x \in WavesOf(q) \ {w} : ~AnswersFor(x, q, c)
  BY <1>1, <1>3, OneLeft
<1>5. c \in Chunks /\ ~IsAt(q, park[q], c)
  BY DEF Unparked
<1> HIDE DEF q
<1>6. PICK x \in WavesOf(q) : AnswersFor(x, q, c)
  BY <1>0, <1>1, <1>3, <1>5, UsedUp
<1>7. x = w /\ Displaced(w) /\ ds[w] \in Buffers(q, obj, c)
  BY <1>4, <1>6 DEF AnswersFor, IsAt
<1>8. ds[w] \in Live /\ obj[ds[w]].queue = q /\ obj[ds[w]].to # NoAddress
  BY <1>7 DEF Buffers, Live
<1>9. PICK y \in Waves : y # w /\ ds[y] = ds[w]
  <2>1. obj[ds[w]].refs = Cardinality(Users(ds[w])) /\ obj[ds[w]].refs # 1
    BY <1>0, <1>2, <1>7, <1>8 DEF ObjInv, LastUser
  <2>2. Users(ds[w]) # {w}
    BY <2>1, FS_Singleton
  <2>3. w \in Users(ds[w])
    BY DEF Users
  <2>4. PICK y \in Users(ds[w]) : y # w
    BY <2>2, <2>3
  <2> QED BY <2>4 DEF Users
<1>10. y \in WavesOf(q)
  BY <1>0, <1>8, <1>9 DEF ObjInv, Users, WavesOf
<1>11. AnswersFor(y, q, c)
  BY <1>7, <1>9 DEF AnswersFor, Displaced
<1> QED BY <1>4, <1>9, <1>10, <1>11

\* A parked instruction is allocated by park only.
LEMMA ParkedKept ==
  ASSUME DInv, ParkUsed, [Next]_vars
  PROVE  ParkUsed'
<1>0. TypeOK
  BY DEF DInv
<1>1. ASSUME NEW w \in Waves, NEW a, StopAt(w, a) PROVE ParkUsed'
  <2>1. CASE ParkStopped
    BY <2>1 DEF ParkUsed
  <2>2. CASE ~ParkStopped
    BY <1>1, <2>2 DEF ParkUsed, StopAt, memVars
  <2> QED BY <2>1, <2>2
<1>2. park' = park => ParkUsed'
  BY DEF ParkUsed
<1>3. ASSUME NEW Q \in SUBSET Queues, DropPools(Q) PROVE ParkUsed'
  <2>1. \A q \in Queues : park'[q] \in {NoAddress, park[q]}
    BY <1>3 DEF DropPools
  <2> QED BY <2>1 DEF ParkUsed
<1>4. ASSUME NEW w \in Waves, WaveStep(w) PROVE ParkUsed'
  <2>1. ASSUME NEW a, NEW b, HwExecutes(w, a, b) PROVE ParkUsed'
    BY <1>1, <1>2, <2>1 DEF HwExecutes, memVars
  <2>2. CASE StepSimulated(w) \/ StopWave(w) \/ HwTraps(w)
    BY <1>1, <2>2 DEF StepSimulated, StopWave, HwTraps
  <2>3. CASE HwInCode(w) \/ HwInBuffer(w)
    BY <2>1, <2>3 DEF HwInCode, HwInBuffer
  <2>4. CASE StartShared(w) \/ StartSimulated(w) \/ StartDisplaced(w) \/ StartExhausted(w)
    BY <1>2, <2>4 DEF StartShared, StartSimulated, StartDisplaced, StartExhausted, memVars
  <2>5. CASE Complete(w) \/ ResumeWave(w) \/ StepOnHardware(w) \/ HwEnds(w)
    BY <1>2, <2>5 DEF Complete, ResumeWave, StepOnHardware, HwEnds, memVars
  <2>6. CASE StepEnds(w)
    BY <1>2, <2>6 DEF StepEnds, Terminate, memVars
  <2> QED BY <1>4, <2>2, <2>3, <2>4, <2>5, <2>6 DEF WaveStep
<1>5. ASSUME NEW q \in Queues, QueueStep(q) PROVE ParkUsed'
  <2>1. CASE UpdateQueues(q)
    BY <1>2, <1>3, <2>1 DEF UpdateQueues, memVars
  <2>2. CASE OsDestroyQueue(q) \/ SuspendFinds(q)
    BY <1>2, <2>2 DEF OsDestroyQueue, Lost, SuspendFinds, memVars
  <2> QED BY <1>5, <2>1, <2>2 DEF QueueStep
<1>6. CASE Detach
  BY <1>3, <1>6 DEF Detach
<1>7. CASE ProcessExit \/ Freeze \/ Unfreeze \/ UNCHANGED vars
  BY <1>2, <1>7 DEF ProcessExit, Lost, Freeze, Unfreeze, vars, memVars
<1> QED BY <1>4, <1>5, <1>6, <1>7 DEF Next

\* No step runs out of chunks.
LEMMA NotExhausted ==
  ASSUME EnoughChunks, DInv, ParkUsed, NeverExhausted, [Next]_vars
  PROVE  NeverExhausted'
<1>0. fault # "no_debugger_memory"
  BY DEF NeverExhausted
<1> SUFFICES fault' # "no_debugger_memory"
  BY DEF NeverExhausted
<1>1. ASSUME NEW w \in Waves, WaveStep(w) PROVE fault' = fault
  <2>1. ASSUME NEW a, NEW b, HwExecutes(w, a, b) PROVE fault' = fault
    BY <2>1, ParkFinds DEF HwExecutes
  <2>2. CASE StepSimulated(w) \/ StopWave(w) \/ HwTraps(w)
    BY <2>2, ParkFinds DEF StepSimulated, StopWave, HwTraps
  <2>3. CASE HwInCode(w) \/ HwInBuffer(w)
    BY <2>1, <2>3 DEF HwInCode, HwInBuffer
  <2>4. CASE StartShared(w) \/ StartSimulated(w) \/ StartDisplaced(w)
    BY <2>4 DEF StartShared, StartSimulated, StartDisplaced
  <2>5. CASE StartExhausted(w)
    BY <2>5, StartFinds
  <2>6. CASE Complete(w) \/ ResumeWave(w) \/ StepOnHardware(w) \/ HwEnds(w)
    BY <2>6 DEF Complete, ResumeWave, StepOnHardware, HwEnds
  <2>7. CASE StepEnds(w)
    <3>1. Terminate(w) /\ w \notin hidden /\ state[w] # "absent"
      BY <2>7 DEF StepEnds, MayStep, MayResume, Found
    <3> QED BY <3>1, EndFinds
  <2> QED BY <1>1, <2>2, <2>3, <2>4, <2>5, <2>6, <2>7 DEF WaveStep
<1>2. ASSUME NEW q \in Queues, QueueStep(q)
      PROVE  fault' \in {fault, "displaced_in_valid_queue"}
  BY <1>2 DEF QueueStep, OsDestroyQueue, Lost, SuspendFinds, UpdateQueues
<1>3. CASE Detach
  BY <1>3, DetachInv
<1>4. CASE ProcessExit \/ Freeze \/ Unfreeze \/ UNCHANGED vars
  BY <1>0, <1>4 DEF ProcessExit, Lost, Freeze, Unfreeze, vars
<1> QED BY <1>0, <1>1, <1>2, <1>3, <1>4 DEF Next

\* One chunk for each wave of a queue, and one more where stopped waves are
\* parked, are enough: allocate_displaced_instruction never ends the library,
\* whatever is started, shared, parked, ended and completed in whatever order.
THEOREM ChunksSuffice ==
  ASSUME EnoughChunks
  PROVE  Spec => []BuffersSuffice
<1>1. Init => ParkUsed /\ NeverExhausted
  BY DEF Init, ParkUsed, NeverExhausted
<1>2. DInv /\ ParkUsed /\ [Next]_vars => ParkUsed'
  BY ParkedKept
<1>3. DInv /\ ParkUsed /\ NeverExhausted /\ [Next]_vars => NeverExhausted'
  BY NotExhausted
<1>4. DInv /\ NeverExhausted => BuffersSuffice
  BY FoundIntact DEF BuffersSuffice
<1>5. Spec => []DInv
  BY Inductive
<1> QED BY <1>1, <1>2, <1>3, <1>4, <1>5, PTL DEF Spec

-----------------------------------------------------------------------------
(* Displaced stepping is stepping: DisplacedStepping implements            *)
(* InlineStepping.                                                         *)

\* What a client sees of wave w.
Seen(w) == IF w \in hidden THEN "absent" ELSE state[w]
SeenAt(w) == IF Seen(w) = "absent" THEN NoAddress ELSE VisiblePc(w)
AliveNow == {q \in Queues : qState[q] = "alive"}

\* The client sees no change of wave x.
SameSeen(x) ==
  Seen(x)' = Seen(x) /\ SeenAt(x)' = SeenAt(x) /\ done'[x] = done[x]

\* The refinement mapping, wave by wave.
LEMMA Mapping ==
  /\ VisibleState = [w \in Waves |-> Seen(w)]
  /\ VisibleAt = [w \in Waves |-> SeenAt(w)]
<1>1. VisibleState = [w \in Waves |-> Seen(w)]
  BY DEF VisibleState, Seen
<1>2. \A w \in Waves : VisibleState[w] = Seen(w)
  BY <1>1
<1>3. VisibleAt = [w \in Waves |-> IF VisibleState[w] = "absent" THEN NoAddress ELSE VisiblePc(w)]
  BY DEF VisibleAt
<1>4. \A w \in Waves : (IF VisibleState[w] = "absent" THEN NoAddress ELSE VisiblePc(w)) = SeenAt(w)
  BY <1>2 DEF SeenAt
<1>5. VisibleAt = [w \in Waves |-> SeenAt(w)]
  BY <1>3, <1>4, Zenon
<1> QED BY <1>1, <1>5

\* The same in the next state.
LEMMA MappingNext ==
  /\ VisibleState' = [w \in Waves |-> Seen(w)']
  /\ VisibleAt' = [w \in Waves |-> SeenAt(w)']
<1>1. (/\ VisibleState = [w \in Waves |-> Seen(w)]
       /\ VisibleAt = [w \in Waves |-> SeenAt(w)])'
  BY Mapping, PTL
<1> QED BY <1>1

\* A client does not see what happens to other waves and objects.
LEMMA KeptSeen ==
  ASSUME NEW x \in Waves, Untouched(x), ObjectKept(x)
  PROVE  SameSeen(x)
<1>1. PC(x)' = PC(x) /\ Displaced(x)' = Displaced(x) /\ ds'[x] = ds[x]
  BY DEF PC, Displaced, Untouched
<1>2. VisiblePc(x)' = VisiblePc(x)
  <2>1. Displaced(x) => obj'[ds[x]].from = obj[ds[x]].from /\ obj'[ds[x]].to = obj[ds[x]].to
    BY DEF ObjectKept
  <2> QED BY <1>1, <2>1 DEF VisiblePc
<1>3. Seen(x)' = Seen(x)
  BY DEF Seen, Untouched
<1> QED BY <1>2, <1>3 DEF SameSeen, SeenAt, Untouched

\* If the client sees no change of any wave, InlineStepping does not step.
LEMMA NothingSeen ==
  ASSUME TypeOK, TypeOK', \A x \in Waves : SameSeen(x), AliveNow' = AliveNow
  PROVE  UNCHANGED Inline!stepVars
<1>1. VisibleState' = VisibleState /\ VisibleAt' = VisibleAt
  <2>1. \A x \in Waves : Seen(x)' = Seen(x) /\ SeenAt(x)' = SeenAt(x)
    BY DEF SameSeen
  <2>2. [x \in Waves |-> Seen(x)'] = [x \in Waves |-> Seen(x)]
    BY <2>1, Zenon
  <2>3. [x \in Waves |-> SeenAt(x)'] = [x \in Waves |-> SeenAt(x)]
    BY <2>1, Zenon
  <2> QED BY <2>2, <2>3, Mapping, MappingNext
<1>2. done' = done
  BY DEF TypeOK, SameSeen
<1> QED BY <1>1, <1>2 DEF Inline!stepVars, AliveNow

\* The steps of InlineStepping that one wave takes, in these terms.
LEMMA OneSeen ==
  ASSUME TypeOK, TypeOK', NEW w \in Waves, \A x \in Waves : x # w => SameSeen(x), qState' = qState
  PROVE  /\ VisibleState' = [VisibleState EXCEPT ![w] = Seen(w)']
         /\ VisibleAt' = [VisibleAt EXCEPT ![w] = SeenAt(w)']
         /\ done' = [done EXCEPT ![w] = done'[w]]
         /\ VisibleState[w] = Seen(w) /\ VisibleAt[w] = SeenAt(w)
         /\ {q \in Queues : qState[q] = "alive"}' = {q \in Queues : qState[q] = "alive"}
<1> DEFINE s == Seen(w)'
           t == SeenAt(w)'
<1>1. VisibleState[w] = Seen(w) /\ VisibleAt[w] = SeenAt(w)
  BY Mapping
<1>2. \A x \in Waves : x # w => /\ Seen(x)' = Seen(x) /\ SeenAt(x)' = SeenAt(x)
                                /\ done'[x] = done[x]
  BY DEF SameSeen
<1>3. /\ VisibleState' = [x \in Waves |-> Seen(x)'] /\ VisibleState = [x \in Waves |-> Seen(x)]
      /\ VisibleAt' = [x \in Waves |-> SeenAt(x)'] /\ VisibleAt = [x \in Waves |-> SeenAt(x)]
  BY Mapping, MappingNext
<1>4. VisibleState' = [VisibleState EXCEPT ![w] = Seen(w)']
  BY <1>2, <1>3
<1>5. VisibleAt' = [VisibleAt EXCEPT ![w] = SeenAt(w)']
  BY <1>2, <1>3
<1>6. done' = [done EXCEPT ![w] = done'[w]]
  BY <1>2 DEF TypeOK
<1> QED BY <1>1, <1>4, <1>5, <1>6

\* A wave that is seen to execute the instruction it is at.
LEMMA ExecuteSeen ==
  ASSUME TypeOK, TypeOK', NEW w \in Waves, \A x \in Waves : x # w => SameSeen(x), qState' = qState,
         Seen(w) # "absent", done'[w] = SeenAt(w), SeenAt(w)' \in Succ[SeenAt(w)],
         Seen(w)' = IF Seen(w) = "run" THEN "run" ELSE "stop"
  PROVE  Inline!Next
<1>1. Inline!Execute(w)
  BY OneSeen DEF Inline!Execute
<1> QED BY <1>1 DEF Inline!Next

\* A wave that is seen to stop where it is.
LEMMA StopSeen ==
  ASSUME TypeOK, TypeOK', NEW w \in Waves, \A x \in Waves : x # w => SameSeen(x), qState' = qState,
         Seen(w) \in {"run", "step"}, Seen(w)' = "stop", SeenAt(w)' = SeenAt(w), done'[w] = done[w]
  PROVE  Inline!Next
<1>1. VisibleAt' = VisibleAt /\ done' = done
  <2>1. \A x \in Waves : SeenAt(x)' = SeenAt(x) /\ done'[x] = done[x]
    BY DEF SameSeen
  <2>2. [x \in Waves |-> SeenAt(x)'] = [x \in Waves |-> SeenAt(x)]
    BY <2>1, Zenon
  <2> QED BY <2>1, <2>2, Mapping, MappingNext DEF TypeOK
<1>2. Inline!Stop(w)
  BY <1>1, OneSeen DEF Inline!Stop
<1> QED BY <1>2 DEF Inline!Next

\* A wave that is seen to be resumed where it is.
LEMMA ResumeSeen ==
  ASSUME TypeOK, TypeOK', NEW w \in Waves, \A x \in Waves : x # w => SameSeen(x), qState' = qState,
         Seen(w) = "stop", Seen(w)' \in {"run", "step"}, SeenAt(w)' = SeenAt(w), done'[w] = done[w]
  PROVE  Inline!Next
<1>1. VisibleAt' = VisibleAt /\ done' = done
  <2>1. \A x \in Waves : SeenAt(x)' = SeenAt(x) /\ done'[x] = done[x]
    BY DEF SameSeen
  <2>2. [x \in Waves |-> SeenAt(x)'] = [x \in Waves |-> SeenAt(x)]
    BY <2>1, Zenon
  <2> QED BY <2>1, <2>2, Mapping, MappingNext DEF TypeOK
<1>2. Inline!Resume(w)
  BY <1>1, OneSeen DEF Inline!Resume
<1> QED BY <1>2 DEF Inline!Next

\* The waves of W vanish for the client.
LEMMA VanishSeen ==
  ASSUME TypeOK, TypeOK', NEW W \in SUBSET Waves, \A x \in Waves \ W : SameSeen(x),
         AliveNow' = AliveNow,
         \A x \in W : Seen(x)' = "absent" /\ done'[x] = NoAddress
  PROVE  Inline!Vanish(W)
<1>1. \A x \in Waves : /\ Seen(x)' = IF x \in W THEN "absent" ELSE Seen(x)
                       /\ SeenAt(x)' = IF x \in W THEN NoAddress ELSE SeenAt(x)
                       /\ done'[x] = IF x \in W THEN NoAddress ELSE done[x]
  BY DEF SameSeen, SeenAt
<1>2. VisibleState' = [x \in Waves |-> IF x \in W THEN "absent" ELSE VisibleState[x]]
  BY <1>1, Mapping, MappingNext
<1>3. VisibleAt' = [x \in Waves |-> IF x \in W THEN NoAddress ELSE VisibleAt[x]]
  BY <1>1, Mapping, MappingNext
<1>4. done' = [x \in Waves |-> IF x \in W THEN NoAddress ELSE done[x]]
  BY <1>1 DEF TypeOK
<1> QED BY <1>2, <1>3, <1>4 DEF Inline!Vanish, AliveNow

\* A wave that is seen to end at its last instruction.
LEMMA EndSeen ==
  ASSUME TypeOK, TypeOK', NEW w \in Waves, \A x \in Waves : x # w => SameSeen(x), AliveNow' = AliveNow,
         Seen(w) # "absent", Kind[SeenAt(w)] = "end", Seen(w)' = "absent", done'[w] = NoAddress
  PROVE  Inline!Next
<1>1. Inline!Vanish({w})
  BY VanishSeen
<1>2. VisibleState[w] = Seen(w) /\ VisibleAt[w] = SeenAt(w)
  BY Mapping
<1>3. Inline!End(w)
  BY <1>1, <1>2 DEF Inline!End
<1> QED BY <1>3 DEF Inline!Next

\* Where a client that does not step a wave twice steps it.
LEMMA SteppedSeen ==
  ASSUME ~Restep, NEW w \in Waves, MayStep(w)
  PROVE  /\ Seen(w) = "stop" /\ w \notin hidden /\ state[w] = "stop"
         /\ SeenAt(w) = VisiblePc(w) /\ VisiblePc(w) = Stepped(w)
<1>1. w \notin hidden /\ state[w] = "stop" /\ (Displaced(w) => VisiblePc(w) = obj[ds[w]].from)
  BY DEF MayStep, MayResume, Found
<1>2. VisiblePc(w) = Stepped(w)
  <2>1. CASE Displaced(w)
    BY <1>1, <2>1 DEF Stepped
  <2>2. CASE ~Displaced(w)
    BY <2>2 DEF Stepped, VisiblePc
  <2> QED BY <2>1, <2>2
<1> QED BY <1>1, <1>2 DEF Seen, SeenAt

\* The start of a displaced step: the client computes the pc the wave had.
LEMMA BeginSeen ==
  ASSUME DInv, NEW w \in Waves, MayStart(w), NEW i \in Ids, Begin(w, i),
         obj'[i].from = PC(w), obj'[i].to \in Addresses
  PROVE  SameSeen(w)
<1>1. TypeOK /\ WaveAt(w)
  BY DEF DInv
<1>2. w \notin hidden /\ state[w] = "stop" /\ ~Displaced(w)
  BY DEF MayStart, Found
<1>3. PC(w) \in Nat
  BY <1>1, <1>2, CodeApart DEF WaveAt
<1>4. VisiblePc(w) = PC(w)
  BY <1>2 DEF VisiblePc
<1>5. /\ ds'[w] = i /\ Displaced(w)' /\ state' = state /\ hidden' = hidden /\ done' = done
      /\ parked' = parked
  <2>1. i # NoId
    BY WaveAssumption
  <2> QED BY <1>1, <2>1 DEF Begin, TypeOK, Displaced
<1>6. CASE obj'[i].to # NoAddress
  <2>1. PC(w)' = obj'[i].to
    BY <1>1, <1>5, <1>6 DEF Begin, WritePc, TypeOK, PC
  <2>2. VisiblePc(w)' = obj'[i].to + PC(w) - obj'[i].to
    BY <1>5, <1>6, <2>1 DEF VisiblePc
  <2>3. obj'[i].to \in Nat
    BY <1>6 DEF Addresses
  <2>4. VisiblePc(w)' = VisiblePc(w)
    BY <1>3, <1>4, <2>2, <2>3
  <2> QED BY <1>2, <1>5, <2>4 DEF SameSeen, Seen, SeenAt
<1>7. CASE obj'[i].to = NoAddress
  <2>1. PC(w)' = PC(w)
    BY <1>5, <1>7 DEF Begin, PC
  <2>2. VisiblePc(w)' = VisiblePc(w)
    BY <1>4, <1>5, <1>7, <2>1 DEF VisiblePc
  <2> QED BY <1>2, <1>5, <2>2 DEF SameSeen, Seen, SeenAt
<1> QED BY <1>6, <1>7

\* Starting a displaced step, whichever way, and completing it, are not seen.
LEMMA StartsSeen ==
  ASSUME DInv, NEW w \in Waves, StartShared(w) \/ StartSimulated(w) \/ StartDisplaced(w)
  PROVE  UNCHANGED Inline!stepVars
<1>0. TypeOK /\ QueueOf[w] \in Queues /\ PC(w) \in Code
  <2>1. TypeOK /\ WaveAt(w)
    BY DEF DInv
  <2>2. w \notin hidden /\ state[w] = "stop" /\ ~Displaced(w)
    BY DEF StartShared, StartSimulated, StartDisplaced, MayStart, Found
  <2> QED BY <2>1, <2>2, WaveAssumption DEF WaveAt
<1>1. DInv' /\ \A x \in Waves : x # w => Untouched(x) /\ ObjectKept(x)
  BY StartSharedInv, StartSimulatedInv, StartDisplacedInv
<1>2. TypeOK'
  BY <1>1 DEF DInv
<1>3. qState' = qState /\ MayStart(w)
  BY DEF StartShared, StartSimulated, StartDisplaced, procVars
<1>4. PICK i \in Ids : Begin(w, i) /\ obj'[i].from = PC(w) /\ obj'[i].to \in Addresses
  <2>1. CASE StartShared(w)
    <3>1. PICK i \in Shared(w) : obj' = [obj EXCEPT ![i].refs = @ + 1] /\ Begin(w, i)
      BY <2>1 DEF StartShared
    <3>2. i \in Ids /\ i \in Live /\ obj[i].from = PC(w)
      BY DEF Shared, Live
    <3>3. obj[i] \in Objects
      BY <1>0, <3>2, LiveObject
    <3>4. obj'[i].from = obj[i].from /\ obj'[i].to = obj[i].to /\ obj[i].to \in Addresses
      BY <1>0, <3>1, <3>2, <3>3 DEF TypeOK, Objects
    <3> QED BY <3>1, <3>2, <3>4
  <2>2. CASE StartSimulated(w)
    <3>1. PICK i \in Ids \ Live : obj' = [obj EXCEPT ![i] = NewObject(w, NoAddress)] /\ Begin(w, i)
      BY <2>2 DEF StartSimulated
    <3>2. obj'[i] = NewObject(w, NoAddress)
      BY <1>0, <3>1 DEF TypeOK
    <3> QED BY <3>1, <3>2 DEF NewObject, Addresses
  <2>3. CASE StartDisplaced(w)
    <3> DEFINE to == PlaceOf(QueueOf[w], free[QueueOf[w]], Size[PC(w)])
    <3>1. PICK i \in Ids \ Live : obj' = [obj EXCEPT ![i] = NewObject(w, to)] /\ Begin(w, i)
      BY <2>3 DEF StartDisplaced
    <3> HIDE DEF to
    <3>2. obj'[i] = NewObject(w, to)
      BY <1>0, <3>1 DEF TypeOK
    <3>3. obj'[i] # NoObject
      <4>1. QueueOf[w] # NoQueue
        BY <1>0, WaveAssumption
      <4> QED BY <3>2, <4>1 DEF NewObject, NoObject
    <3>4. obj'[i] \in Objects
      BY <1>2, <3>1, <3>3 DEF TypeOK
    <3>5. obj'[i].to \in Addresses
      BY <3>4 DEF Objects
    <3> QED BY <3>1, <3>2, <3>5 DEF NewObject
  <2> QED BY <2>1, <2>2, <2>3
<1>5. SameSeen(w)
  BY <1>3, <1>4, BeginSeen
<1>6. \A x \in Waves : SameSeen(x)
  BY <1>1, <1>5, KeptSeen
<1>7. AliveNow' = AliveNow
  BY <1>3 DEF AliveNow
<1> QED BY <1>0, <1>2, <1>6, <1>7, NothingSeen

\* displaced_stepping_complete is not seen.
LEMMA CompleteSeen ==
  ASSUME DInv, NEW w \in Waves, Complete(w)
  PROVE  UNCHANGED Inline!stepVars
<1>1. /\ DInv' /\ PC(w)' = VisiblePc(w)
      /\ \A x \in Waves : x # w => Untouched(x) /\ ObjectKept(x)
  BY CompleteInv
<1>2. TypeOK /\ TypeOK'
  BY <1>1 DEF DInv
<1>3. /\ UNCHANGED <<state, hidden, done, qState>> /\ ds' = [ds EXCEPT ![w] = NoId]
      /\ w \notin hidden /\ state[w] = "stop"
  BY DEF Complete, procVars, Found
<1>4. ~Displaced(w)'
  BY <1>2, <1>3 DEF Displaced, TypeOK
<1>5. VisiblePc(w)' = VisiblePc(w)
  BY <1>1, <1>4 DEF VisiblePc
<1>6. SameSeen(w)
  BY <1>3, <1>5 DEF SameSeen, Seen, SeenAt
<1>7. \A x \in Waves : SameSeen(x)
  BY <1>1, <1>6, KeptSeen
<1>8. AliveNow' = AliveNow
  BY <1>3 DEF AliveNow
<1> QED BY <1>2, <1>7, <1>8, NothingSeen

\* A step that touches no wave and no queue that is alive is not seen.
LEMMA ProcessSeen ==
  ASSUME DInv, DInv', \A x \in Waves : Untouched(x) /\ ObjectKept(x), AliveNow' = AliveNow
  PROVE  UNCHANGED Inline!stepVars
<1>1. TypeOK /\ TypeOK'
  BY DEF DInv
<1>2. \A x \in Waves : SameSeen(x)
  BY KeptSeen
<1> QED BY <1>1, <1>2, NothingSeen

\* A wave whose object and pc stay is seen where it was.
LEMMA StaysSeen ==
  ASSUME NEW w \in Waves, PC(w)' = PC(w), UNCHANGED <<ds, obj>>
  PROVE  VisiblePc(w)' = VisiblePc(w)
<1>1. Displaced(w)' = Displaced(w)
  BY DEF Displaced
<1> QED BY <1>1 DEF VisiblePc

\* Resuming a wave, or stepping it on the hardware, is seen as that.
LEMMA StartAsSeen ==
  ASSUME DInv, NEW w \in Waves, MayResume(w), NEW mode \in {"run", "step"}, StartAs(w, mode),
         Displaced(w) => mode = "step" /\ obj[ds[w]].to # NoAddress,
         UNCHANGED <<hidden, ds, done, obj, memVars, procVars, fault>>
  PROVE  Inline!Next
<1>1. /\ DInv' /\ PC(w)' = PC(w)
      /\ \A x \in Waves : x # w => Untouched(x) /\ ObjectKept(x)
  BY StartAsInv
<1>2. TypeOK /\ TypeOK'
  BY <1>1 DEF DInv
<1>3. /\ UNCHANGED <<hidden, done, qState, ds, obj>> /\ state' = [state EXCEPT ![w] = mode]
      /\ w \notin hidden /\ state[w] = "stop"
  BY DEF StartAs, procVars, MayResume, Found
<1>4. VisiblePc(w)' = VisiblePc(w)
  BY <1>1, <1>3, StaysSeen
<1>5. state'[w] = mode
  BY <1>2, <1>3 DEF TypeOK
<1>6. Seen(w) = "stop" /\ Seen(w)' = mode
  BY <1>3, <1>5 DEF Seen
<1>7. SeenAt(w)' = SeenAt(w)
  BY <1>4, <1>6 DEF SeenAt
<1>8. \A x \in Waves : x # w => SameSeen(x)
  BY <1>1, KeptSeen
<1> QED BY <1>2, <1>3, <1>6, <1>7, <1>8, ResumeSeen

\* Stepping the last instruction ends the wave, or memory is exhausted.
LEMMA StepEndsSeen ==
  ASSUME DInv, ~Restep, NEW w \in Waves, StepEnds(w)
  PROVE  Inline!Next \/ UNCHANGED Inline!stepVars
<1>1. DInv' /\ \A x \in Waves : x # w => Untouched(x) /\ ObjectKept(x)
  BY StepEndsInv
<1>2. TypeOK /\ TypeOK'
  BY <1>1 DEF DInv
<1>3. MayStep(w) /\ Kind[Stepped(w)] = "end" /\ Terminate(w) /\ qState' = qState
  BY DEF StepEnds, procVars
<1>4. Seen(w) = "stop" /\ Kind[SeenAt(w)] = "end"
  BY <1>3, SteppedSeen
<1>5. \A x \in Waves : x # w => SameSeen(x)
  BY <1>1, KeptSeen
<1>6. AliveNow' = AliveNow
  BY <1>3 DEF AliveNow
<1>7. CASE fault' = "no_debugger_memory" /\ UNCHANGED <<waveVars, obj, memVars>>
  <2>1. UNCHANGED <<state, hidden, pc, saved, parked, ds, done, obj>>
    BY <1>7 DEF waveVars
  <2>2. PC(w)' = PC(w)
    BY <2>1 DEF PC
  <2>3. VisiblePc(w)' = VisiblePc(w)
    BY <2>1, <2>2, StaysSeen
  <2>4. SameSeen(w)
    BY <2>1, <2>3 DEF SameSeen, Seen, SeenAt
  <2> QED BY <1>2, <1>5, <1>6, <2>4, NothingSeen
<1>8. CASE hidden' = hidden \cup {w} /\ done' = [done EXCEPT ![w] = NoAddress]
  <2>1. Seen(w)' = "absent" /\ done'[w] = NoAddress
    BY <1>2, <1>8 DEF Seen, TypeOK
  <2> QED BY <1>2, <1>4, <1>5, <1>6, <2>1, EndSeen
<1> QED BY <1>3, <1>7, <1>8 DEF Terminate

\* A simulated instruction is seen as executed.
LEMMA StepSimulatedSeen ==
  ASSUME DInv, ~Restep, NEW w \in Waves, StepSimulated(w)
  PROVE  Inline!Next
<1>1. /\ DInv' /\ PC(w)' \in Succ[Stepped(w)]
      /\ \A x \in Waves : x # w => Untouched(x) /\ ObjectKept(x)
  BY StepSimulatedInv
<1>2. TypeOK /\ TypeOK'
  BY <1>1 DEF DInv
<1>3. /\ MayStep(w) /\ Simulates(w) /\ UNCHANGED <<hidden, ds, obj, qState>>
      /\ done' = [done EXCEPT ![w] = Stepped(w)]
      /\ state' = [state EXCEPT ![w] = "stop"]
  BY DEF StepSimulated, procVars, StopAt
<1>4. Seen(w) = "stop" /\ SeenAt(w) = Stepped(w) /\ w \notin hidden
  BY <1>3, SteppedSeen
<1>5. VisiblePc(w)' = PC(w)'
  <2>1. Displaced(w)' => obj'[ds'[w]].to = NoAddress
    BY <1>3 DEF Simulates, Displaced
  <2> QED BY <2>1 DEF VisiblePc
<1>6. Seen(w)' = "stop" /\ SeenAt(w)' = VisiblePc(w)'
  BY <1>2, <1>3, <1>4 DEF Seen, SeenAt, TypeOK
<1>7. done'[w] = Stepped(w)
  <2> DEFINE d == Stepped(w)
  <2> HIDE DEF d
  <2>1. done' = [done EXCEPT ![w] = d]
    BY <1>3 DEF d
  <2>2. done'[w] = d
    BY <1>2, <2>1 DEF TypeOK
  <2> QED BY <2>2 DEF d
<1>8. \A x \in Waves : x # w => SameSeen(x)
  BY <1>1, KeptSeen
<1>9. done'[w] = SeenAt(w) /\ SeenAt(w)' \in Succ[SeenAt(w)] /\ qState' = qState
  BY <1>1, <1>3, <1>4, <1>5, <1>6, <1>7
<1> QED BY <1>2, <1>4, <1>6, <1>8, <1>9, ExecuteSeen

\* What executing an instruction does to the state of the wave.
LEMMA ExecutedState ==
  ASSUME TypeOK, NEW w \in Waves, NEW instruction, NEW to, HwExecutes(w, instruction, to),
         state[w] \in {"run", "step"}
  PROVE  /\ done'[w] = instruction /\ UNCHANGED <<hidden, ds, obj, qState>>
         /\ state'[w] = IF state[w] = "run" THEN "run" ELSE "stop"
<1>1. done'[w] = instruction /\ UNCHANGED <<hidden, ds, obj, qState>>
  BY DEF HwExecutes, TypeOK, procVars
<1>2. CASE state[w] = "step"
  <2>1. state' = [state EXCEPT ![w] = "stop"]
    BY <1>2 DEF HwExecutes, StopAt
  <2> QED BY <1>1, <1>2, <2>1 DEF TypeOK
<1>3. CASE state[w] # "step"
  <2>1. state' = state
    BY <1>3 DEF HwExecutes
  <2> QED BY <1>1, <1>3, <2>1
<1> QED BY <1>2, <1>3

\* So is an instruction of the program,
LEMMA HwInCodeSeen ==
  ASSUME DInv, NEW w \in Waves, HwInCode(w)
  PROVE  Inline!Next
<1>1. /\ DInv' /\ PC(w)' \in Succ[pc[w]]
      /\ \A x \in Waves : x # w => Untouched(x) /\ ObjectKept(x)
  BY HwInCodeInv
<1>2. TypeOK /\ TypeOK'
  BY <1>1 DEF DInv
<1>3. Executing(w) /\ state[w] \in {"run", "step"} /\ w \notin hidden /\ ~Displaced(w)
  BY InCode DEF HwInCode, Executing
<1>4. PC(w) = pc[w]
  BY <1>3, RunningAt
<1>5. /\ done'[w] = pc[w] /\ UNCHANGED <<hidden, ds, obj, qState>>
      /\ state'[w] = IF state[w] = "run" THEN "run" ELSE "stop"
  BY <1>2, <1>3, ExecutedState DEF HwInCode
<1>6. VisiblePc(w) = pc[w] /\ VisiblePc(w)' = PC(w)'
  <2>1. ~Displaced(w)'
    BY <1>3, <1>5 DEF Displaced
  <2> QED BY <1>3, <1>4, <2>1 DEF VisiblePc
<1>7. Seen(w) = state[w] /\ Seen(w)' = state'[w]
  BY <1>3, <1>5 DEF Seen
<1>8. SeenAt(w) = pc[w] /\ SeenAt(w)' = PC(w)'
  BY <1>3, <1>5, <1>6, <1>7 DEF SeenAt
<1>9. \A x \in Waves : x # w => SameSeen(x)
  BY <1>1, KeptSeen
<1>10. /\ Seen(w) # "absent" /\ done'[w] = SeenAt(w) /\ SeenAt(w)' \in Succ[SeenAt(w)]
       /\ Seen(w)' = (IF Seen(w) = "run" THEN "run" ELSE "stop") /\ qState' = qState
  BY <1>1, <1>3, <1>5, <1>7, <1>8
<1> QED BY <1>2, <1>9, <1>10, ExecuteSeen

\* and one in a buffer, at the address it was displaced from.
LEMMA HwInBufferSeen ==
  ASSUME DInv, NEW w \in Waves, HwInBuffer(w)
  PROVE  Inline!Next
<1> DEFINE to == obj[ds[w]].to
           from == obj[ds[w]].from
<1>1. /\ DInv' /\ PC(w)' = to + Size[from]
      /\ \A x \in Waves : x # w => Untouched(x) /\ ObjectKept(x)
  BY HwInBufferInv
<1>2. TypeOK /\ TypeOK' /\ ObjInv
  BY <1>1 DEF DInv
<1>3. /\ Executing(w) /\ w \notin hidden /\ Displaced(w) /\ state[w] = "step" /\ ds[w] \in Live
      /\ to # NoAddress /\ from \in Code /\ pc[w] = to /\ mem[pc[w]] = from
  BY InBuffer DEF HwInBuffer
<1>4. PC(w) = to
  BY <1>3, RunningAt
<1>5. done'[w] = mem[pc[w]] /\ UNCHANGED <<hidden, ds, obj, qState>> /\ state'[w] = "stop"
  BY <1>2, <1>3, ExecutedState DEF HwInBuffer
<1>6. to \in Nat /\ from \in Nat /\ Size[from] \in Nat
  <2>1. to \in Nat
    BY <1>2, <1>3, BufferPlaced
  <2>2. Size[from] \in 1 .. LargestSize /\ from \in Nat
    BY <1>3, CodeApart
  <2> QED BY <2>1, <2>2 DEF LargestSize
<1>7. VisiblePc(w) = from
  <2>1. VisiblePc(w) = to + from - to
    BY <1>3, <1>4 DEF VisiblePc
  <2> QED BY <1>6, <2>1
<1>8. VisiblePc(w)' = from + Size[from]
  <2>1. Displaced(w)' /\ obj'[ds'[w]].to = to /\ obj'[ds'[w]].from = from
    BY <1>3, <1>5 DEF Displaced
  <2>2. VisiblePc(w)' = to + Size[from] + from - to
    BY <1>1, <1>3, <2>1 DEF VisiblePc
  <2> QED BY <1>6, <2>2
<1>9. from + Size[from] \in Succ[from]
  <2>1. CanExecuteDisplaced(from)
    BY <1>2, <1>3 DEF ObjInv
  <2> QED BY <1>3, <2>1, CodeAssumption DEF CanExecuteDisplaced
<1>10. Seen(w) = "step" /\ Seen(w)' = "stop"
  BY <1>3, <1>5 DEF Seen
<1>11. SeenAt(w) = from /\ SeenAt(w)' = from + Size[from]
  BY <1>7, <1>8, <1>10 DEF SeenAt
<1>12. \A x \in Waves : x # w => SameSeen(x)
  BY <1>1, KeptSeen
<1>13. /\ Seen(w) # "absent" /\ done'[w] = SeenAt(w) /\ SeenAt(w)' \in Succ[SeenAt(w)]
       /\ Seen(w)' = (IF Seen(w) = "run" THEN "run" ELSE "stop") /\ qState' = qState
  BY <1>3, <1>5, <1>9, <1>10, <1>11
<1> QED BY <1>2, <1>12, <1>13, ExecuteSeen

\* wave_stop and traps are seen as stops.
LEMMA StopsSeen ==
  ASSUME DInv, NEW w \in Waves, StopWave(w) \/ HwTraps(w)
  PROVE  Inline!Next
<1>1. /\ DInv' /\ PC(w)' = PC(w) /\ w \notin hidden
      /\ \A x \in Waves : x # w => Untouched(x) /\ ObjectKept(x)
  <2>1. CASE StopWave(w)
    <3>1. w \notin hidden
      BY <2>1 DEF StopWave, Found
    <3> QED BY <2>1, <3>1, StopWaveInv
  <2>2. CASE HwTraps(w)
    BY <2>2, HwTrapsInv
  <2> QED BY <2>1, <2>2
<1>2. TypeOK /\ TypeOK'
  BY <1>1 DEF DInv
<1>3. /\ state[w] \in {"run", "step"} /\ UNCHANGED <<hidden, ds, done, obj, qState>>
      /\ state' = [state EXCEPT ![w] = "stop"]
  BY DEF StopWave, HwTraps, Executing, StopAt, procVars
<1>4. VisiblePc(w)' = VisiblePc(w)
  BY <1>1, <1>3, StaysSeen
<1>5. Seen(w) = state[w] /\ Seen(w)' = "stop"
  BY <1>1, <1>2, <1>3 DEF Seen, TypeOK
<1>6. SeenAt(w)' = SeenAt(w)
  BY <1>3, <1>4, <1>5 DEF SeenAt
<1>7. \A x \in Waves : x # w => SameSeen(x)
  BY <1>1, KeptSeen
<1> QED BY <1>2, <1>3, <1>5, <1>6, <1>7, StopSeen

\* A wave ends where its program does, or has been hidden before.
LEMMA HwEndsSeen ==
  ASSUME DInv, NEW w \in Waves, HwEnds(w)
  PROVE  Inline!Next \/ UNCHANGED Inline!stepVars
<1>1. /\ DInv' /\ ~Displaced(w)
      /\ \A x \in Waves : x # w => Untouched(x) /\ ObjectKept(x)
  BY HwEndsInv
<1>2. TypeOK /\ TypeOK' /\ WaveAt(w)
  BY <1>1 DEF DInv
<1>3. Executing(w) /\ state[w] = "run" /\ Forget({w}) /\ qState' = qState
  BY DEF HwEnds, procVars
<1>4. Seen(w)' = "absent" /\ done'[w] = NoAddress
  <2>1. state'[w] = "absent" /\ done'[w] = NoAddress /\ hidden' = hidden \ {w}
    BY <1>3 DEF Forget
  <2> QED BY <2>1 DEF Seen
<1>5. \A x \in Waves : x # w => SameSeen(x)
  BY <1>1, KeptSeen
<1>6. AliveNow' = AliveNow
  BY <1>3 DEF AliveNow
<1>7. CASE w \in hidden
  <2>1. Seen(w) = "absent" /\ done[w] = NoAddress
    BY <1>2, <1>7 DEF Seen, WaveAt
  <2>2. SameSeen(w)
    BY <1>4, <2>1 DEF SameSeen, SeenAt
  <2> QED BY <1>2, <1>5, <1>6, <2>2, NothingSeen
<1>8. CASE w \notin hidden
  <2>1. PC(w) = pc[w] /\ PC(w) \in Code
    <3>1. PC(w) \in Code
      BY <1>1, <1>2, <1>3, <1>8 DEF WaveAt
    <3>2. PC(w) = pc[w]
      BY <1>3, <1>8, RunningAt
    <3> QED BY <3>1, <3>2
  <2>2. Kind[pc[w]] = "end"
    <3>1. pc[w] \notin Pools
      BY <2>1, CodeApart
    <3> QED BY <3>1 DEF HwEnds
  <2>3. VisiblePc(w) = pc[w]
    BY <1>1, <2>1 DEF VisiblePc
  <2>4. Seen(w) = "run" /\ SeenAt(w) = pc[w]
    BY <1>3, <1>8, <2>3 DEF Seen, SeenAt
  <2> QED BY <1>2, <1>4, <1>5, <1>6, <2>2, <2>4, EndSeen
<1> QED BY <1>7, <1>8

\* The inferior destroys queues, and their waves stay as they are.
LEMMA LostSeen ==
  ASSUME DInv, attached, NEW Q \in SUBSET Queues, Lost(Q), exited' \in BOOLEAN
  PROVE  Inline!Next
<1>1. DInv' /\ \A x \in Waves : Untouched(x) /\ ObjectKept(x)
  BY LostInv
<1>2. TypeOK /\ TypeOK'
  BY <1>1 DEF DInv
<1>3. \A x \in Waves : SameSeen(x)
  BY <1>1, KeptSeen
<1>4. VisibleState' = VisibleState /\ VisibleAt' = VisibleAt /\ done' = done
  <2>1. \A x \in Waves : Seen(x)' = Seen(x) /\ SeenAt(x)' = SeenAt(x) /\ done'[x] = done[x]
    BY <1>3 DEF SameSeen
  <2>2. [x \in Waves |-> Seen(x)'] = [x \in Waves |-> Seen(x)]
    BY <2>1, Zenon
  <2>3. [x \in Waves |-> SeenAt(x)'] = [x \in Waves |-> SeenAt(x)]
    BY <2>1, Zenon
  <2> QED BY <1>2, <2>1, <2>2, <2>3, Mapping, MappingNext DEF TypeOK
<1>5. {q \in Queues : qState[q] = "alive"}' = {q \in Queues : qState[q] = "alive"} \ Q
  BY DEF Lost
<1>6. Inline!Lose(Q)
  BY <1>4, <1>5 DEF Inline!Lose
<1> QED BY <1>6 DEF Inline!Next

\* update_queues drops the waves of a destroyed queue, or an assertion fails.
LEMMA UpdateQueuesSeen ==
  ASSUME DInv, NEW q \in Queues, UpdateQueues(q)
  PROVE  Inline!Next \/ UNCHANGED Inline!stepVars
<1>1. DInv' /\ \A x \in Waves \ WavesOf(q) : Untouched(x) /\ ObjectKept(x)
  BY UpdateQueuesInv
<1>2. TypeOK /\ TypeOK'
  BY <1>1 DEF DInv
<1>3. qState[q] # "alive"
  BY DEF UpdateQueues
<1>4. CASE UNCHANGED <<waveVars, obj, memVars, qState>>
  <2>1. UNCHANGED <<state, hidden, pc, saved, parked, ds, done, obj, qState>>
    BY <1>4 DEF waveVars
  <2>2. \A x \in Waves : Untouched(x) /\ ObjectKept(x)
    <3>1. ASSUME NEW x \in Waves PROVE Untouched(x) /\ ObjectKept(x)
      <4>1. WaveAt(x) /\ ObjInv
        BY DEF DInv
      <4>2. Displaced(x) => ds[x] \in Live
        BY <1>2, <4>1, OwnObject
      <4>3. Live' = Live
        BY <2>1 DEF Live
      <4> QED BY <2>1, <4>2, <4>3 DEF Untouched, ObjectKept
    <3> QED BY <3>1
  <2>3. AliveNow' = AliveNow
    BY <2>1 DEF AliveNow
  <2> QED BY <1>1, <2>2, <2>3, ProcessSeen
<1>5. CASE Forget(WavesOf(q)) /\ qState' = [qState EXCEPT ![q] = "gone"]
  <2>1. AliveNow' = AliveNow
    BY <1>2, <1>3, <1>5 DEF AliveNow, TypeOK
  <2>2. \A x \in Waves \ WavesOf(q) : SameSeen(x)
    BY <1>1, KeptSeen
  <2>3. \A x \in WavesOf(q) : Seen(x)' = "absent" /\ done'[x] = NoAddress
    <3>1. ASSUME NEW x \in WavesOf(q) PROVE Seen(x)' = "absent" /\ done'[x] = NoAddress
      <4>1. x \in Waves
        BY DEF WavesOf
      <4>2. state'[x] = "absent" /\ done'[x] = NoAddress
        BY <1>5, <4>1 DEF Forget
      <4> QED BY <4>2 DEF Seen
    <3> QED BY <3>1
  <2>4. WavesOf(q) \in SUBSET Waves
    BY DEF WavesOf
  <2>5. Inline!Vanish(WavesOf(q))
    BY <1>2, <2>1, <2>2, <2>3, <2>4, VanishSeen
  <2>6. Inline!Drop(q)
    BY <1>3, <2>5 DEF Inline!Drop, WavesOf
  <2> QED BY <2>6 DEF Inline!Next
<1> QED BY <1>4, <1>5 DEF UpdateQueues

\* detach sets waves free where the client sees them.
LEMMA DetachSeen ==
  ASSUME DInv, Detach
  PROVE  Inline!Next
<1>1. DInv' /\ \A w \in Waves : VisiblePc(w)' = VisiblePc(w)
  BY DetachInv
<1>2. TypeOK /\ TypeOK' /\ \A w \in Waves : WaveAt(w)
  BY <1>1 DEF DInv
<1>3. PICK Kept \in SUBSET Waves : DetachWaves(Kept)
  BY DEF Detach
<1> DEFINE Freed == {w \in Waves : \/ state[w] = "step"
                                   \/ state[w] = "stop" /\ w \notin Kept}
<1>4. /\ state' = [w \in Waves |-> IF w \in Freed THEN "run" ELSE state[w]]
      /\ hidden' = hidden /\ done' = done /\ qState' = qState
  BY <1>3 DEF DetachWaves, Detach
<1>5. \A w \in Freed : w \notin hidden /\ state[w] \in {"step", "stop"}
  BY <1>2 DEF WaveAt
<1>6. Freed \in SUBSET Waves
  OBVIOUS
<1> HIDE DEF Freed
<1>7. ASSUME NEW w \in Waves
      PROVE  /\ Seen(w)' = IF w \in Freed THEN "run" ELSE Seen(w)
             /\ w \in Freed => Seen(w) \in {"step", "stop"}
  BY <1>4, <1>5 DEF Seen
<1>8. ASSUME NEW w \in Waves PROVE SeenAt(w)' = SeenAt(w)
  <2>1. Seen(w)' = "absent" <=> Seen(w) = "absent"
    BY <1>7
  <2> QED BY <1>1, <2>1 DEF SeenAt
<1>9. VisibleState' = [w \in Waves |-> IF w \in Freed THEN "run" ELSE VisibleState[w]]
  BY <1>7, Mapping, MappingNext
<1>10. VisibleAt' = VisibleAt
  <2>1. [w \in Waves |-> SeenAt(w)'] = [w \in Waves |-> SeenAt(w)]
    BY <1>8, Zenon
  <2> QED BY <2>1, Mapping, MappingNext
<1>11. \A w \in Freed : VisibleState[w] \in {"step", "stop"}
  BY <1>6, <1>7, Mapping
<1>12. Inline!Free(Freed)
  BY <1>4, <1>9, <1>10, <1>11 DEF Inline!Free
<1> QED BY <1>6, <1>12 DEF Inline!Next

\* Every step is one of InlineStepping, or is not seen.
LEMMA EveryStepSeen ==
  ASSUME ~Restep, DInv, [Next]_vars
  PROVE  [Inline!Next]_(Inline!stepVars)
<1>0. DInv' /\ TypeOK
  BY Stepping DEF DInv
<1>1. ASSUME UNCHANGED <<waveVars, obj, memVars, attached>>, fault' \in {fault, "no_debugger_memory"},
             frozen' \in BOOLEAN, UNCHANGED exited,
             qState' \in [Queues -> {"alive", "deleted", "invalid", "gone"}],
             \A q \in Queues : /\ qState'[q] = "alive" <=> qState[q] = "alive"
                               /\ qState'[q] = "gone" => qState[q] = "gone"
      PROVE  UNCHANGED Inline!stepVars
  <2>1. exited' \in BOOLEAN /\ fault' \in {"none", "no_debugger_memory", "displaced_in_valid_queue",
                                            "displaced_steppings_left"}
    BY <1>0, <1>1 DEF TypeOK
  <2>2. \A x \in Waves : Untouched(x) /\ ObjectKept(x)
    BY <1>1, <2>1, ProcessOnly
  <2>3. AliveNow' = AliveNow
    BY <1>1 DEF AliveNow
  <2> QED BY <1>0, <2>2, <2>3, ProcessSeen
<1>2. ASSUME NEW w \in Waves, WaveStep(w) PROVE Inline!Next \/ UNCHANGED Inline!stepVars
  <2>1. CASE StartShared(w) \/ StartSimulated(w) \/ StartDisplaced(w)
    BY <2>1, StartsSeen
  <2>2. CASE StartExhausted(w)
    <3>1. /\ UNCHANGED <<waveVars, obj, memVars, attached>> /\ UNCHANGED <<qState, frozen, exited>>
          /\ fault' = "no_debugger_memory"
      BY <2>2 DEF StartExhausted, procVars
    <3>2. frozen' \in BOOLEAN /\ qState' \in [Queues -> {"alive", "deleted", "invalid", "gone"}]
      BY <1>0, <3>1 DEF TypeOK
    <3> QED BY <1>1, <3>1, <3>2
  <2>3. CASE Complete(w)
    BY <2>3, CompleteSeen
  <2>4. CASE ResumeWave(w)
    BY <2>4, StartAsSeen DEF ResumeWave
  <2>5. CASE StepEnds(w)
    BY <2>5, StepEndsSeen
  <2>6. CASE StepSimulated(w)
    BY <2>6, StepSimulatedSeen
  <2>7. CASE StepOnHardware(w)
    <3>1. Displaced(w) => obj[ds[w]].to # NoAddress
      BY <2>7, OnHardware
    <3>2. MayResume(w) /\ StartAs(w, "step")
          /\ UNCHANGED <<hidden, ds, done, obj, memVars, procVars, fault>>
      BY <2>7 DEF StepOnHardware, MayStep
    <3> QED BY <3>1, <3>2, StartAsSeen
  <2>8. CASE StopWave(w) \/ HwTraps(w)
    BY <2>8, StopsSeen
  <2>9. CASE HwInCode(w)
    BY <2>9, HwInCodeSeen
  <2>10. CASE HwInBuffer(w)
    BY <2>10, HwInBufferSeen
  <2>11. CASE HwEnds(w)
    BY <2>11, HwEndsSeen
  <2> QED BY <1>2, <2>1, <2>2, <2>3, <2>4, <2>5, <2>6, <2>7, <2>8, <2>9, <2>10, <2>11 DEF WaveStep
<1>3. ASSUME NEW q \in Queues, QueueStep(q) PROVE Inline!Next \/ UNCHANGED Inline!stepVars
  <2>1. CASE OsDestroyQueue(q)
    <3>1. attached /\ Lost({q}) /\ exited' \in BOOLEAN /\ {q} \in SUBSET Queues
      BY <1>0, <2>1 DEF OsDestroyQueue, TypeOK
    <3> QED BY <3>1, LostSeen
  <2>2. CASE SuspendFinds(q)
    <3>1. /\ UNCHANGED <<waveVars, obj, memVars, attached>> /\ UNCHANGED <<frozen, exited, fault>>
          /\ qState[q] = "deleted" /\ qState' = [qState EXCEPT ![q] = "invalid"]
      BY <2>2 DEF SuspendFinds
    <3>2. /\ qState' \in [Queues -> {"alive", "deleted", "invalid", "gone"}]
          /\ \A p \in Queues : /\ qState'[p] = "alive" <=> qState[p] = "alive"
                               /\ qState'[p] = "gone" => qState[p] = "gone"
      BY <1>0, <3>1 DEF TypeOK
    <3>3. frozen' \in BOOLEAN
      BY <1>0, <3>1 DEF TypeOK
    <3> QED BY <1>1, <3>1, <3>2, <3>3
  <2>3. CASE UpdateQueues(q)
    BY <2>3, UpdateQueuesSeen
  <2> QED BY <1>3, <2>1, <2>2, <2>3 DEF QueueStep
<1>4. CASE ProcessExit
  <2>1. attached /\ Lost(Queues) /\ exited' \in BOOLEAN /\ Queues \in SUBSET Queues
    BY <1>4 DEF ProcessExit
  <2> QED BY <2>1, LostSeen
<1>5. CASE Detach
  BY <1>5, DetachSeen
<1>6. CASE Freeze \/ Unfreeze \/ UNCHANGED vars
  <2>1. /\ UNCHANGED <<waveVars, obj, memVars, attached>> /\ UNCHANGED <<qState, exited, fault>>
        /\ frozen' \in {TRUE, FALSE, frozen}
    BY <1>6 DEF Freeze, Unfreeze, vars, procVars
  <2>2. qState' \in [Queues -> {"alive", "deleted", "invalid", "gone"}] /\ frozen' \in BOOLEAN
    BY <1>0, <2>1 DEF TypeOK
  <2> QED BY <1>1, <2>1, <2>2
<1>7. Inline!Next \/ UNCHANGED Inline!stepVars
  BY <1>2, <1>3, <1>4, <1>5, <1>6 DEF Next
<1> QED BY <1>7

\* The waves begin where InlineStepping has them begin.
LEMMA InitSeen ==
  ASSUME Init
  PROVE  Inline!Init
<1>1. \A w \in Waves : /\ state[w] = "run" /\ w \notin hidden /\ w \notin parked
                       /\ ds[w] = NoId /\ pc[w] = Entry
  BY DEF Init
<1>2. \A w \in Waves : Seen(w) = "run" /\ SeenAt(w) = Entry
  <2>1. ASSUME NEW w \in Waves PROVE Seen(w) = "run" /\ SeenAt(w) = Entry
    <3>1. ~Displaced(w) /\ PC(w) = Entry
      BY <1>1 DEF Displaced, PC
    <3>2. VisiblePc(w) = Entry
      BY <3>1 DEF VisiblePc
    <3> QED BY <1>1, <3>2 DEF Seen, SeenAt
  <2> QED BY <2>1
<1>3. VisibleState = [w \in Waves |-> "run"] /\ VisibleAt = [w \in Waves |-> Entry]
  BY <1>2, Mapping
<1>4. done = [w \in Waves |-> NoAddress] /\ {q \in Queues : qState[q] = "alive"} = Queues
  BY DEF Init
<1> QED BY <1>3, <1>4 DEF Inline!Init

\* Displaced stepping is stepping: for clients that complete a step before they
\* step again, what displaced_stepping.cpp and wave.cpp make of a wave at a
\* breakpoint is a run of its program with no breakpoint, buffer, simulated
\* instruction or parked wave in it, for any program and any waves.
THEOREM StepsInline ==
  ASSUME ~Restep
  PROVE  Spec => StepsAreInline
<1>1. Init => Inline!Init
  BY InitSeen
<1>2. DInv /\ [Next]_vars => [Inline!Next]_(Inline!stepVars)
  BY EveryStepSeen
<1>3. Spec => []DInv
  BY Inductive
<1> QED BY <1>1, <1>2, <1>3, PTL DEF Spec, StepsAreInline, Inline!Spec

=============================================================================
