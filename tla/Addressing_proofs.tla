------------------------- MODULE Addressing_proofs -------------------------
(***************************************************************************)
(* Proofs about Addressing, for any inputs, sizes of segments, apertures,  *)
(* interleaves, rings and scratch memory.                                  *)
(***************************************************************************)
EXTENDS Addressing, SequenceTheorems, FiniteSetTheorems, TLAPS

-----------------------------------------------------------------------------
(* Quotients and remainders.                                               *)

LEMMA Division ==
    ASSUME NEW a \in Nat, NEW n \in Nat \ {0}
    PROVE  /\ a \div n \in Nat /\ a % n \in 0..(n - 1)
           /\ a = (a \div n) * n + (a % n)
  OBVIOUS

(* A multiple of n that is not larger than another.                        *)
LEMMA Multiples ==
    ASSUME NEW p \in Nat, NEW q \in Nat, NEW n \in Nat \ {0}
    PROVE  /\ p * n \in Nat
           /\ p < q => p * n + n <= q * n
           /\ p <= q => p * n <= q * n
<1>1. p * n \in Nat /\ q * n \in Nat
  OBVIOUS
<1>2. ASSUME p < q PROVE p * n + n <= q * n
  <2>1. (q - p - 1) * n \in Nat
    BY <1>2
  <2>2. q * n = p * n + n + (q - p - 1) * n
    BY <1>2
  <2> QED BY <1>1, <2>1, <2>2
<1>3. ASSUME p <= q PROVE p * n <= q * n
  <2>1. (q - p) * n \in Nat
    BY <1>3
  <2>2. q * n = p * n + (q - p) * n
    BY <1>3
  <2> QED BY <1>1, <2>1, <2>2
<1> QED BY <1>1, <1>2, <1>3

(* A number is determined by its quotient and its remainder.               *)
LEMMA Remainder ==
    ASSUME NEW n \in Nat \ {0}, NEW q \in Nat, NEW r \in 0..(n - 1)
    PROVE  (q * n + r) \div n = q /\ (q * n + r) % n = r
<1> DEFINE a == q * n + r
           p == a \div n
           s == a % n
<1>1. q * n \in Nat /\ a \in Nat
  OBVIOUS
<1>2. p \in Nat /\ s \in 0..(n - 1) /\ a = p * n + s
  BY <1>1, Division
<1>3. p * n \in Nat
  BY <1>2, Multiples
<1>4. ~(p < q)
  BY <1>1, <1>2, <1>3, Multiples
<1>5. ~(q < p)
  BY <1>1, <1>2, <1>3, Multiples
<1>6. p = q
  BY <1>2, <1>4, <1>5
<1> QED BY <1>1, <1>2, <1>6

(* Where an entry of a ring of n slots is, no more than n - 1 behind read. *)
LEMMA RingPlace ==
    ASSUME NEW n \in Nat \ {0}, NEW read \in Nat, NEW d \in 0..(n - 1)
    PROVE  LET r == read % n
               q == read \div n
           IN IF r + d < n
                THEN (read + d) % n = r + d /\ (r + d) + q * n = read + d
                ELSE (read + d) % n = r + d - n /\ (r + d - n) + q * n = read + d - n
<1> DEFINE r == read % n
           q == read \div n
<1>1. q \in Nat /\ r \in 0..(n - 1) /\ read = q * n + r /\ q * n \in Nat
  BY Division, Multiples
<1>2. CASE r + d < n
  <2>1. r + d \in 0..(n - 1) /\ read + d = q * n + (r + d)
    BY <1>1, <1>2
  <2>2. (q * n + (r + d)) % n = r + d
    BY <1>1, <2>1, Remainder
  <2> HIDE DEF r, q
  <2>3. (read + d) % n = r + d /\ (r + d) + q * n = read + d
    BY <1>1, <2>1, <2>2
  <2> QED BY <1>2, <2>3 DEF r, q
<1>3. CASE ~(r + d < n)
  <2>1. r + d - n \in 0..(n - 1) /\ read + d = (q + 1) * n + (r + d - n) /\ q + 1 \in Nat
    BY <1>1, <1>3
  <2>2. ((q + 1) * n + (r + d - n)) % n = r + d - n
    BY <2>1, Remainder
  <2> HIDE DEF r, q
  <2>3. (read + d) % n = r + d - n /\ (r + d - n) + q * n = read + d - n
    BY <1>1, <2>1, <2>2
  <2> QED BY <1>3, <2>3 DEF r, q
<1> QED BY <1>2, <1>3

-----------------------------------------------------------------------------
(* An input that is not a transfer is never changed.                       *)
Fixed == case \in Cases \/ ("tag" \in DOMAIN case /\ case.tag = "transfer")

LEMMA Tagged ==
    ASSUME NEW c \in Cases
    PROVE  /\ c.tag \in {"ring", "scratch", "convert", "transfer"} /\ "tag" \in DOMAIN c
           /\ c.tag = "ring" => c \in RingInputs
           /\ c.tag = "scratch" => c \in ScratchInputs /\ c.xccs <= c.engines
           /\ c.tag = "convert" => c \in ConvertInputs
           /\ c.tag = "transfer" => c \in TransferInputs
<1>1. CASE c \in RingInputs
  BY <1>1 DEF RingInputs
<1>2. CASE c \in ScratchInputs /\ c.xccs <= c.engines
  BY <1>2 DEF ScratchInputs
<1>3. CASE c \in ConvertInputs
  BY <1>3 DEF ConvertInputs
<1>4. CASE c \in TransferInputs
  BY <1>4 DEF TransferInputs
<1> QED BY <1>1, <1>2, <1>3, <1>4, CasesAssumption DEF CasesAssumption

LEMMA StaysFixed == Fixed /\ [StepTransfer]_case => Fixed'
<1> SUFFICES ASSUME Fixed, [StepTransfer]_case PROVE Fixed'
  OBVIOUS
<1>1. CASE StepTransfer
  <2>1. "tag" \in DOMAIN case /\ case.tag = "transfer"
    BY <1>1, Tagged DEF Fixed, StepTransfer
  <2>2. case' = [case EXCEPT !.x = xfer_step(case.x)]
    BY <1>1 DEF StepTransfer
  <2>3. "tag" \in DOMAIN case' /\ case'.tag = "transfer"
    BY <2>1, <2>2
  <2> QED BY <2>3 DEF Fixed
<1>2. CASE UNCHANGED case
  BY <1>2 DEF Fixed
<1> QED BY <1>1, <1>2

-----------------------------------------------------------------------------
(* The packets of a ring.                                                  *)

(* A ring is never filled to its last slot: read = write is an empty one.  *)
Roomy(ring) == ring.read <= ring.write /\ ring.write - ring.read < ring.size
RingsHaveRoom == \A c \in Cases : c.tag = "ring" => Roomy(c.ring)

Rings == [size : Nat \ {0}, read : Nat, write : Nat]

(* A wave is given the packet it was dispatched from.                      *)
LEMMA PacketOfWave ==
    ASSUME NEW ring \in Rings, Roomy(ring), NEW id \in ring.read..(ring.write - 1),
           NEW arch, NEW w, dispatch_packet_address(arch, ring, w) = Gives(id % ring.size)
    PROVE  get_os_queue_packet_id(arch, ring, w) = Gives(id)
<1> DEFINE n == ring.size
           r == ring.read % n
           q == ring.read \div n
           d == id - ring.read
           e == ring.write - ring.read
           a == id % n
           turn == a + q * n
           found == IF turn < ring.read /\ r > ring.write % n THEN turn + n ELSE turn
<1>1. /\ n \in Nat \ {0} /\ ring.read \in Nat /\ ring.write \in Nat /\ id \in Nat
      /\ d \in 0..(n - 1) /\ e \in 0..(n - 1) /\ d < e
      /\ id = ring.read + d /\ ring.write = ring.read + e
  BY DEF Rings, Roomy
<1>2. r \in 0..(n - 1) /\ q \in Nat /\ q * n \in Nat
  BY <1>1, Division, Multiples
<1>3. IF r + d < n THEN a = r + d /\ turn = id ELSE a = r + d - n /\ turn = id - n
  <2>1. IF r + d < n
          THEN (ring.read + d) % n = r + d /\ (r + d) + q * n = ring.read + d
          ELSE (ring.read + d) % n = r + d - n /\ (r + d - n) + q * n = ring.read + d - n
    <3> HIDE DEF d
    <3> QED BY <1>1, RingPlace
  <2> HIDE DEF d, q, r, n
  <2> QED BY <1>1, <2>1
<1>4. IF r + e < n THEN ring.write % n = r + e ELSE ring.write % n = r + e - n
  <2>1. IF r + e < n
          THEN (ring.read + e) % n = r + e
          ELSE (ring.read + e) % n = r + e - n
    <3> HIDE DEF e
    <3> QED BY <1>1, RingPlace
  <2> HIDE DEF e, q, r, n
  <2> QED BY <1>1, <2>1
<1>5. found = id
  <2> HIDE DEF d, e, q, r, n, a, turn
  <2>1. CASE r + d < n
    BY <1>1, <1>2, <1>3, <2>1
  <2>2. CASE ~(r + d < n)
    <3>1. r > ring.write % n
      BY <1>1, <1>2, <1>4, <2>2
    <3> QED BY <1>1, <1>2, <1>3, <2>2, <3>1
  <2> QED BY <2>1, <2>2
<1> DEFINE addr == dispatch_packet_address(arch, ring, w)
           turns == addr.value + (ring.read \div ring.size) * ring.size
           entry == IF turns < ring.read /\ ring.read % ring.size > ring.write % ring.size
                    THEN turns + ring.size ELSE turns
<1>6. addr.error = "none" /\ addr.value = a
  BY DEF Gives
<1>7. get_os_queue_packet_id(arch, ring, w)
        = CASE addr.error # "none" -> addr
            [] addr.error = "none" /\ (entry < ring.read \/ entry >= ring.write) -> Fatal
            [] OTHER -> Gives(entry)
  BY DEF get_os_queue_packet_id
<1>8. entry = id
  <2> HIDE DEF addr
  <2>1. entry = found
    BY <1>6
  <2> QED BY <1>5, <2>1
<1> HIDE DEF entry, addr
<1>9. ~(entry < ring.read \/ entry >= ring.write)
  BY <1>1, <1>8
<1> QED BY <1>6, <1>7, <1>8, <1>9

(* Two sequences of consecutive slots follow each other.                   *)
LEMMA SlotsJoined ==
    ASSUME NEW first \in Nat, NEW count \in Nat, NEW more \in Nat
    PROVE  /\ Slots(first, count) \in Seq(Nat)
           /\ Slots(first, count) \o Slots(0, more)
                = [i \in 1..(count + more) |-> IF i <= count THEN first + i - 1
                                               ELSE i - count - 1]
<1> DEFINE s == Slots(first, count)
           t == Slots(0, more)
<1>1. s \in Seq(Nat) /\ Len(s) = count /\ \A i \in 1..count : s[i] = first + i - 1
  <2>1. s = [i \in 1..count |-> first + i - 1]
    BY DEF Slots
  <2>2. \A i \in 1..count : first + i - 1 \in Nat
    OBVIOUS
  <2> HIDE DEF s
  <2> QED BY <2>1, <2>2
<1>2. t \in Seq(Nat) /\ Len(t) = more /\ \A i \in 1..more : t[i] = 0 + i - 1
  <2>1. t = [i \in 1..more |-> 0 + i - 1]
    BY DEF Slots
  <2>2. \A i \in 1..more : 0 + i - 1 \in Nat
    OBVIOUS
  <2> HIDE DEF t
  <2> QED BY <2>1, <2>2
<1> HIDE DEF s, t
<1>3. /\ s \o t \in Seq(Nat) /\ Len(s \o t) = count + more
      /\ \A i \in 1..(count + more) :
           (s \o t)[i] = IF i <= count THEN s[i] ELSE t[i - count]
  BY <1>1, <1>2, ConcatProperties
<1>4. s \o t = [i \in 1..(count + more) |-> (s \o t)[i]]
  <2> DEFINE j == s \o t
  <2>1. j \in Seq(Nat) /\ Len(j) = count + more
    BY <1>3
  <2> HIDE DEF j
  <2>2. j = [i \in 1..(count + more) |-> j[i]]
    BY <2>1
  <2> QED BY <2>2 DEF j
<1>5. ASSUME NEW i \in 1..(count + more)
      PROVE  (s \o t)[i] = IF i <= count THEN first + i - 1 ELSE i - count - 1
  <2>1. CASE i <= count
    BY <1>1, <1>3, <2>1
  <2>2. CASE ~(i <= count)
    <3>1. i - count \in 1..more /\ (s \o t)[i] = t[i - count]
      BY <1>3, <2>2
    <3>2. t[i - count] = 0 + (i - count) - 1
      BY <1>2, <3>1
    <3> QED BY <2>2, <3>1, <3>2
  <2> QED BY <2>1, <2>2
<1>6. s \o t = [i \in 1..(count + more) |-> IF i <= count THEN first + i - 1
                                            ELSE i - count - 1]
  BY <1>4, <1>5
<1> QED BY <1>1, <1>6 DEF s, t

(* The client is given the packets of the ring in the order of their ids.  *)
LEMMA PacketList ==
    ASSUME NEW ring \in Rings, Roomy(ring)
    PROVE  queue_packet_list(ring)
             = IF is_power_of_two(ring.size)
               THEN Gives([i \in 1..(ring.write - ring.read)
                             |-> (ring.read + i - 1) % ring.size])
               ELSE Fatal
<1> DEFINE n == ring.size
           r == ring.read % n
           e == ring.write - ring.read
           list == [i \in 1..e |-> (ring.read + i - 1) % n]
           last == ring.write % n
           held == CASE r < last -> Slots(r, e)
                     [] r > last -> Slots(r, n - r) \o Slots(0, last)
                     [] r = last -> [i \in 1..e |-> Unread]
<1>1. /\ n \in Nat \ {0} /\ ring.read \in Nat /\ ring.write \in Nat
      /\ e \in 0..(n - 1) /\ ring.write = ring.read + e /\ ring.read <= ring.write
  BY DEF Rings, Roomy
<1>2. r \in 0..(n - 1)
  BY <1>1, Division
<1>3. last = IF r + e < n THEN r + e ELSE r + e - n
  <2>1. IF r + e < n THEN (ring.read + e) % n = r + e ELSE (ring.read + e) % n = r + e - n
    <3> HIDE DEF e
    <3> QED BY <1>1, RingPlace
  <2> HIDE DEF e, r, n
  <2> QED BY <1>1, <2>1 DEF last
<1>4. ASSUME NEW i \in 1..e
      PROVE  (ring.read + i - 1) % n = IF r + (i - 1) < n THEN r + i - 1 ELSE r + i - 1 - n
  <2> DEFINE d == i - 1
  <2>1. d \in 0..(n - 1) /\ ring.read + i - 1 = ring.read + d
    BY <1>1
  <2>2. IF r + d < n THEN (ring.read + d) % n = r + d ELSE (ring.read + d) % n = r + d - n
    <3> HIDE DEF d
    <3> QED BY <1>1, <2>1, RingPlace
  <2>3. (ring.read + i - 1) % n = (ring.read + d) % n
    BY <2>1
  <2> HIDE DEF e, r, n
  <2> QED BY <1>1, <1>2, <2>2, <2>3
<1>5. held = list
  <2> HIDE DEF n, r, e, last
  <2>1. CASE r + e < n /\ e > 0
    <3>1. r < last
      BY <1>1, <1>2, <1>3, <2>1
    <3>2. held = Slots(r, e)
      BY <1>1, <1>2, <1>3, <3>1
    <3>3. \A i \in 1..e : (ring.read + i - 1) % n = r + i - 1
      BY <1>1, <1>2, <1>4, <2>1
    <3>4. list = [i \in 1..e |-> r + i - 1]
      BY <3>3
    <3> QED BY <3>2, <3>4 DEF Slots
  <2>2. CASE e = 0
    <3>1. r = last
      BY <1>1, <1>2, <1>3, <2>2
    <3>2. held = [i \in 1..e |-> Unread]
      BY <1>1, <1>2, <1>3, <3>1
    <3>3. \A i \in 1..e : Unread = (ring.read + i - 1) % n
      BY <2>2
    <3> QED BY <3>2, <3>3
  <2>3. CASE ~(r + e < n)
    <3>1. r > last /\ last \in Nat /\ n - r \in Nat /\ (n - r) + last = e
      BY <1>1, <1>2, <1>3, <2>3
    <3>2. held = Slots(r, n - r) \o Slots(0, last)
      <4>1. last \in Int /\ r \in Int /\ ~(r < last) /\ ~(r = last)
        BY <1>2, <3>1
      <4> QED BY <3>1, <4>1, Zenon
    <3>3. held = [i \in 1..((n - r) + last) |-> IF i <= n - r THEN r + i - 1 ELSE i - (n - r) - 1]
      <4> HIDE DEF held
      <4>1. r \in Nat
        BY <1>2
      <4> QED BY <3>1, <3>2, <4>1, SlotsJoined, Zenon
    <3>4. \A i \in 1..e : (ring.read + i - 1) % n = IF i <= n - r THEN r + i - 1
                                                   ELSE i - (n - r) - 1
      BY <1>1, <1>2, <1>4
    <3>5. list = [i \in 1..e |-> IF i <= n - r THEN r + i - 1 ELSE i - (n - r) - 1]
      BY <3>4
    <3> QED BY <3>1, <3>3, <3>5
  <2> HIDE DEF held, list
  <2> QED BY <1>1, <1>2, <2>1, <2>2, <2>3
<1>6. active_packets_bytes(ring, e) = IF is_power_of_two(ring.size) THEN Gives(held) ELSE Fatal
  <2>1. ~(ring.read > ring.write \/ e # ring.write - ring.read)
        /\ ring.read <= ring.write /\ e = ring.write - ring.read
    BY <1>1
  <2>2. CASE is_power_of_two(ring.size)
    <3>1. active_packets_bytes(ring, e) = Gives(held)
      BY <2>1, <2>2 DEF active_packets_bytes
    <3> QED BY <2>2, <3>1
  <2>3. CASE ~is_power_of_two(ring.size)
    <3>1. active_packets_bytes(ring, e) = Fatal
      BY <2>1, <2>3 DEF active_packets_bytes
    <3> QED BY <2>3, <3>1
  <2> QED BY <2>2, <2>3
<1>7. active_packets_info(ring) = Gives(e)
  BY <1>1 DEF active_packets_info
<1>8. queue_packet_list(ring) = active_packets_bytes(ring, e)
  BY <1>7 DEF queue_packet_list, Gives
<1> QED BY <1>5, <1>6, <1>8

(* PacketsFound for a ring of any size and any positions: every wave finds *)
(* the packet it was dispatched from and the client the packets of the     *)
(* ring in order, or a fatal error if the size is not a power of two, on   *)
(* every architecture, while the ring is not full                          *)
(* (get_os_queue_packet_id, active_packets_bytes).                         *)
THEOREM PacketsAreFound == RingsHaveRoom => (Spec => []PacketsFound)
<1>1. ASSUME RingsHaveRoom, Fixed PROVE PacketsFound
  <2> SUFFICES ASSUME case.tag = "ring" PROVE PacketsFound
    BY DEF PacketsFound
  <2>1. case \in RingInputs /\ Roomy(case.ring)
    BY <1>1, Tagged DEF Fixed, RingsHaveRoom
  <2> DEFINE ring == case.ring
             place(id) == id % ring.size
             wave(id) == [setup |-> TRUE,
                          ttmp6  |-> IF case.arch \in {"gfx9"} THEN id % ring.size ELSE 0,
                          ttmp11 |-> IF case.arch = "gfx940" THEN id % ring.size ELSE 0,
                          ttmp8  |-> IF case.arch = "gfx12" THEN id % ring.size ELSE 0]
  <2>2. ring \in Rings /\ case.arch \in {"gfx9", "gfx940", "gfx12"}
    BY <2>1 DEF RingInputs, Rings
  <2>3. ASSUME NEW id \in ring.read..(ring.write - 1)
        PROVE  /\ get_os_queue_packet_id(case.arch, ring, wave(id)) = Gives(id)
               /\ dispatch_packet_slot(ring, id) = id % ring.size
    <3>1. id \in Nat /\ ring.size \in Nat \ {0}
      BY <2>2 DEF Rings
    <3>2. place(id) \in 0..(ring.size - 1)
      BY <3>1, Division
    <3> HIDE DEF place
    <3>3. ~(place(id) >= ring.size)
      BY <3>1, <3>2
    <3>4. PacketAddress(ring, TRUE, place(id)) = Gives(place(id))
      BY <3>3 DEF PacketAddress
    <3>5. dispatch_packet_address(case.arch, ring, wave(id)) = PacketAddress(ring, TRUE, place(id))
      <4>1. CASE case.arch = "gfx9"
        <5>1. wave(id).setup = TRUE /\ wave(id).ttmp6 = place(id)
          BY <4>1 DEF place
        <5> HIDE DEF wave
        <5>2. dispatch_packet_address(case.arch, ring, wave(id))
                = dispatch_packet_address_gfx9(ring, wave(id))
          BY <4>1 DEF dispatch_packet_address
        <5> QED BY <5>1, <5>2 DEF dispatch_packet_address_gfx9
      <4>2. CASE case.arch = "gfx940"
        <5>1. wave(id).setup = TRUE /\ wave(id).ttmp11 = place(id)
          BY <4>2 DEF place
        <5> HIDE DEF wave
        <5>2. dispatch_packet_address(case.arch, ring, wave(id))
                = dispatch_packet_address_gfx940(ring, wave(id))
          BY <4>2 DEF dispatch_packet_address
        <5> QED BY <5>1, <5>2 DEF dispatch_packet_address_gfx940
      <4>3. CASE case.arch = "gfx12"
        <5>1. wave(id).setup = TRUE /\ wave(id).ttmp8 = place(id)
          BY <4>3 DEF place
        <5> HIDE DEF wave
        <5>2. dispatch_packet_address(case.arch, ring, wave(id))
                = dispatch_packet_address_gfx12(ring, wave(id))
          BY <4>3 DEF dispatch_packet_address
        <5> QED BY <5>1, <5>2 DEF dispatch_packet_address_gfx12
      <4> QED BY <2>2, <4>1, <4>2, <4>3
    <3>6. dispatch_packet_address(case.arch, ring, wave(id)) = Gives(id % ring.size)
      <4> HIDE DEF wave
      <4> QED BY <3>4, <3>5 DEF place
    <3>7. get_os_queue_packet_id(case.arch, ring, wave(id)) = Gives(id)
      <4> HIDE DEF wave
      <4> QED BY <2>1, <2>2, <3>6, PacketOfWave
    <3> QED BY <3>7 DEF dispatch_packet_slot
  <2>4. queue_packet_list(ring)
          = IF is_power_of_two(ring.size)
            THEN Gives([i \in 1..(ring.write - ring.read)
                          |-> (ring.read + i - 1) % ring.size])
            ELSE Fatal
    BY <2>1, <2>2, PacketList
  <2> QED BY <2>3, <2>4, Zenon DEF PacketsFound
<1>2. Init => Fixed
  BY DEF Init, Fixed
<1> SUFFICES ASSUME RingsHaveRoom PROVE Spec => []PacketsFound
  OBVIOUS
<1>3. Fixed => PacketsFound
  BY <1>1
<1> QED BY <1>2, <1>3, StaysFixed, PTL DEF Spec

-----------------------------------------------------------------------------
(* The scratch memory of a queue.                                          *)

(* A wave's number among those of its queue.                               *)
Position(m, slots, xcc, engine, slot) == (xcc * m + engine) * slots + slot

LEMMA PositionInRange ==
    ASSUME NEW m \in Nat \ {0}, NEW slots \in Nat, NEW xccs \in Nat,
           NEW xcc \in 0..(xccs - 1), NEW engine \in 0..(m - 1), NEW slot \in 0..(slots - 1)
    PROVE  /\ slots \in Nat \ {0} /\ xcc * m + engine \in Nat
           /\ Position(m, slots, xcc, engine, slot) \in 0..((xccs * m) * slots - 1)
<1> DEFINE row == xcc * m + engine
<1>1. slots \in Nat \ {0} /\ xcc \in Nat /\ engine \in Nat /\ slot \in Nat /\ xcc < xccs
  OBVIOUS
<1>2. xcc * m \in Nat /\ xcc * m + m <= xccs * m /\ xccs * m \in Nat
  BY <1>1, Multiples
<1>3. row \in Nat /\ row < xccs * m
  <2> DEFINE low == xcc * m
             high == xccs * m
  <2> HIDE DEF low, high
  <2>1. low \in Nat /\ low + m <= high /\ high \in Nat
    BY <1>2 DEF low, high
  <2>2. low + engine \in Nat /\ low + engine < high
    BY <2>1
  <2> QED BY <2>2 DEF low, high
<1> DEFINE rows == xccs * m
<1> HIDE DEF row, rows
<1>4. row * slots \in Nat /\ row * slots + slots <= rows * slots /\ rows * slots \in Nat
  <2>1. rows \in Nat /\ row \in Nat /\ row < rows
    BY <1>2, <1>3 DEF rows
  <2> QED BY <1>1, <2>1, Multiples
<1>5. row * slots + slot \in 0..(rows * slots - 1)
  <2> DEFINE low == row * slots
             high == rows * slots
  <2> HIDE DEF low, high
  <2>1. low \in Nat /\ low + slots <= high /\ high \in Nat
    BY <1>4 DEF low, high
  <2>2. low + slot \in 0..(high - 1)
    BY <2>1
  <2> QED BY <2>2 DEF low, high
<1> QED BY <1>1, <1>3, <1>5 DEF row, rows, Position

(* A wave's number tells its die, its engine and its slot.                 *)
LEMMA PositionInverse ==
    ASSUME NEW m \in Nat \ {0}, NEW slots \in Nat, NEW xccs \in Nat,
           NEW xcc \in 0..(xccs - 1), NEW engine \in 0..(m - 1), NEW slot \in 0..(slots - 1)
    PROVE  LET p == Position(m, slots, xcc, engine, slot)
           IN p % slots = slot /\ (p \div slots) % m = engine /\ (p \div slots) \div m = xcc
<1> DEFINE row == xcc * m + engine
           p == Position(m, slots, xcc, engine, slot)
<1>1. slots \in Nat \ {0} /\ row \in Nat /\ xcc \in Nat
  BY PositionInRange
<1>2. row \div m = xcc /\ row % m = engine
  BY <1>1, Remainder
<1>3. p = row * slots + slot
  BY DEF Position
<1> HIDE DEF row, p
<1>4. p \div slots = row /\ p % slots = slot
  BY <1>1, <1>3, Remainder
<1> QED BY <1>2, <1>4 DEF p

(* The memory of each position is its own, and within that of them all.    *)
LEMMA CellsApart ==
    ASSUME NEW size \in Nat, NEW count \in Nat, NEW p \in 0..(count - 1), NEW q \in 0..(count - 1)
    PROVE  /\ (p * size)..(p * size + size - 1) \subseteq 0..(count * size - 1)
           /\ p # q => ((p * size)..(p * size + size - 1))
                         \cap ((q * size)..(q * size + size - 1)) = {}
<1>1. CASE size = 0
  <2>1. p * size = 0 /\ q * size = 0
    BY <1>1
  <2> DEFINE a == p * size
             b == q * size
             c == count * size
  <2> HIDE DEF a, b, c
  <2>2. a = 0 /\ b = 0
    BY <2>1 DEF a, b
  <2>3. a..(a + size - 1) = {} /\ b..(b + size - 1) = {}
    BY <1>1, <2>2
  <2>4. a..(a + size - 1) \subseteq 0..(c - 1) /\ (a..(a + size - 1)) \cap (b..(b + size - 1)) = {}
    BY <2>3
  <2> QED BY <2>4 DEF a, b, c
<1>2. CASE size # 0
  <2> DEFINE a == p * size
             b == q * size
             c == count * size
  <2>1. /\ a \in Nat /\ b \in Nat /\ a + size <= c
        /\ p < q => a + size <= b
        /\ q < p => b + size <= a
        /\ c \in Nat
    BY <1>2, Multiples
  <2> HIDE DEF a, b, c
  <2>2. a..(a + size - 1) \subseteq 0..(c - 1)
    BY <2>1
  <2>3. ASSUME p # q PROVE (a..(a + size - 1)) \cap (b..(b + size - 1)) = {}
    BY <2>1, <2>3
  <2> QED BY <2>2, <2>3 DEF a, b, c
<1> QED BY <1>1, <1>2

(* The region of a wave is the cell of its position, or is empty.          *)
LEMMA RegionIsCell ==
    ASSUME NEW c \in ScratchInputs, c.xccs <= c.engines,
           NEW xcc \in 0..(c.xccs - 1), NEW engine \in 0..(c.engines \div c.xccs - 1),
           NEW slot \in 0..(SlotsOf(c) - 1)
    PROVE  LET q == [tmpring |-> c.tmpring, engines |-> c.engines, xccs |-> c.xccs,
                     per_xcc |-> PerXcc(c)]
               r == queue_scratch_region(c.arch, q, xcc, engine, slot)
               m == c.engines \div c.xccs
           IN /\ m \in Nat \ {0} /\ SlotsOf(c) \in Nat /\ PerXcc(c) * c.xccs \in Nat
              /\ r.offset \in Nat /\ r = Region(r.offset, r.size)
              /\ \/ r.size = 0
                 \/ /\ r.size = c.tmpring.wavesize
                    /\ r.offset = Position(m, SlotsOf(c), xcc, engine, slot) * c.tmpring.wavesize
                    /\ PerXcc(c) * c.xccs = ((c.xccs * m) * SlotsOf(c)) * c.tmpring.wavesize
<1> DEFINE q == [tmpring |-> c.tmpring, engines |-> c.engines, xccs |-> c.xccs,
                 per_xcc |-> PerXcc(c)]
           r == queue_scratch_region(c.arch, q, xcc, engine, slot)
           m == c.engines \div c.xccs
           ws == c.tmpring.wavesize
           total == c.tmpring.waves
           slots == SlotsOf(c)
<1>1. /\ c.arch \in {"gfx9", "gfx940", "gfx11"} /\ ws \in Nat /\ total \in Nat
      /\ c.engines \in Nat \ {0} /\ c.xccs \in Nat \ {0}
  BY DEF ScratchInputs
<1>2. m \in Nat \ {0}
  <2>1. m \in Nat /\ c.engines % c.xccs \in 0..(c.xccs - 1)
        /\ c.engines = m * c.xccs + (c.engines % c.xccs)
    BY <1>1, Division
  <2> DEFINE s == c.engines % c.xccs
  <2> HIDE DEF m, s
  <2>2. m \in Nat /\ s \in 0..(c.xccs - 1) /\ c.engines = m * c.xccs + s
    BY <2>1 DEF s
  <2>3. m # 0
    BY <1>1, <2>2
  <2> QED BY <2>2, <2>3
<1>3. xcc \in Nat /\ engine \in Nat /\ slot \in Int /\ slot >= 0
  <2>1. slots \in Int
    <3>1. CASE c.arch = "gfx11"
      BY <1>1, <3>1 DEF SlotsOf
    <3>2. CASE c.arch # "gfx11"
      <4>1. slots = total \div m
        BY <3>2 DEF SlotsOf
      <4> HIDE DEF m, slots
      <4> QED BY <1>1, <1>2, <4>1, Division
    <3> QED BY <3>1, <3>2
  <2> QED BY <1>1, <1>2, <2>1
<1>4. CASE c.arch = "gfx11"
  <2>1. slots = total /\ PerXcc(c) = ws * (total * m)
    BY <1>4 DEF SlotsOf, PerXcc
  <2>2. r = [scratch_region_gfx11(c.tmpring, m, engine, slot) EXCEPT !.offset = @ + PerXcc(c) * xcc]
    BY <1>4 DEF queue_scratch_region
  <2>3. /\ r.size = ws /\ r.offset = (total * engine + slot) * ws + PerXcc(c) * xcc
        /\ r = Region(r.offset, r.size)
    <3> HIDE DEF r
    <3> QED BY <2>2 DEF scratch_region_gfx11, Region
  <2> HIDE DEF r, m, ws, total, slots
  <2>4. (total * engine + slot) * ws + (ws * (total * m)) * xcc = ((xcc * m + engine) * total + slot) * ws
    BY <1>1, <1>2, <1>3
  <2>5. r.offset = Position(m, slots, xcc, engine, slot) * ws
    BY <2>1, <2>3, <2>4 DEF Position
  <2>6. (ws * (total * m)) * c.xccs = ((c.xccs * m) * total) * ws
    BY <1>1, <1>2
  <2>7. PerXcc(c) * c.xccs = ((c.xccs * m) * slots) * ws
    BY <2>1, <2>6
  <2>8. r.offset \in Nat /\ PerXcc(c) * c.xccs \in Nat
    BY <1>1, <1>2, <1>3, <2>1, <2>3
  <2> QED BY <1>1, <1>2, <2>1, <2>3, <2>5, <2>7, <2>8 DEF m, ws, r, total, slots
<1>5. CASE c.arch \in {"gfx9", "gfx940"}
  <2> DEFINE rest == total % m
  <2>1. slots = total \div m /\ PerXcc(c) = ws * total
    BY <1>5 DEF SlotsOf, PerXcc
  <2>2. r = [scratch_region_gfx9(c.tmpring, m, engine, slot) EXCEPT !.offset = @ + PerXcc(c) * xcc]
    BY <1>5 DEF queue_scratch_region
  <2>3. /\ r.size = (IF rest # 0 THEN 0 ELSE ws)
        /\ r.offset = (slots * engine + slot) * ws + PerXcc(c) * xcc
        /\ r = Region(r.offset, r.size)
    <3>1. scratch_region_gfx9(c.tmpring, m, engine, slot)
            = Region(((total \div m) * engine + slot) * ws, IF rest # 0 THEN 0 ELSE ws)
      BY DEF scratch_region_gfx9
    <3> DEFINE left == IF rest # 0 THEN 0 ELSE ws
    <3>2. scratch_region_gfx9(c.tmpring, m, engine, slot) = Region((slots * engine + slot) * ws, left)
      BY <2>1, <3>1
    <3> HIDE DEF r, slots, ws, rest, left
    <3>3. /\ r.size = left /\ r.offset = (slots * engine + slot) * ws + PerXcc(c) * xcc
          /\ r = Region(r.offset, r.size)
      BY <2>2, <3>2 DEF Region
    <3> QED BY <3>3 DEF left
  <2>4. slots \in Nat /\ rest \in 0..(m - 1) /\ total = slots * m + rest
    <3>1. total \div m \in Nat /\ rest \in 0..(m - 1) /\ total = (total \div m) * m + rest
      <4> HIDE DEF m, total
      <4> QED BY <1>1, <1>2, Division DEF rest
    <3> QED BY <2>1, <3>1
  <2> HIDE DEF r, m, ws, total, slots, rest
  <2>5. r.offset \in Nat /\ PerXcc(c) * c.xccs \in Nat
    BY <1>1, <1>2, <1>3, <2>1, <2>3, <2>4
  <2>6. CASE rest # 0
    BY <1>2, <2>3, <2>4, <2>5, <2>6 DEF m, r, slots
  <2>7. CASE rest = 0
    <3>1. total = slots * m
      BY <1>2, <2>4, <2>7
    <3>2. (slots * engine + slot) * ws + (ws * (slots * m)) * xcc
            = ((xcc * m + engine) * slots + slot) * ws
      BY <1>1, <1>2, <1>3, <2>4
    <3>3. r.offset = Position(m, slots, xcc, engine, slot) * ws /\ r.size = ws
      BY <2>1, <2>3, <2>7, <3>1, <3>2 DEF Position
    <3>4. (ws * (slots * m)) * c.xccs = ((c.xccs * m) * slots) * ws
      BY <1>1, <1>2, <2>4
    <3>5. PerXcc(c) * c.xccs = ((c.xccs * m) * slots) * ws
      BY <2>1, <3>1, <3>4
    <3> QED BY <1>2, <2>3, <2>4, <2>5, <3>3, <3>5 DEF m, ws, r, slots
  <2> QED BY <2>6, <2>7
<1> QED BY <1>1, <1>4, <1>5

(* ScratchDisjoint for any number of dies, engines and waves and any size  *)
(* of a wave's memory: no two waves of a queue share scratch memory, none  *)
(* has memory outside the queue's, and one whose flat_scratch register is  *)
(* off has none (scratch_memory_region).                                   *)
THEOREM ScratchIsDisjoint == Spec => []ScratchDisjoint
<1>1. ASSUME Fixed PROVE ScratchDisjoint
  <2> SUFFICES ASSUME case.tag = "scratch" PROVE ScratchDisjoint
    BY DEF ScratchDisjoint
  <2>1. case \in ScratchInputs /\ case.xccs <= case.engines
    BY <1>1, Tagged DEF Fixed
  <2> DEFINE c == case
             q == [tmpring |-> c.tmpring, engines |-> c.engines, xccs |-> c.xccs,
                   per_xcc |-> PerXcc(c)]
             m == c.engines \div c.xccs
             ws == c.tmpring.wavesize
             slots == SlotsOf(c)
             waves == (0..(c.xccs - 1)) \X (0..(c.engines \div c.xccs - 1))
                      \X (0..(SlotsOf(c) - 1))
             cell(v) == queue_scratch_region(c.arch, q, v[1], v[2], v[3])
             region(v) == wave_scratch_region(c.arch, cell(v), cell(v).offset + c.skew)
             bytes(v) == LET slot == queue_scratch_region(c.arch, q, v[1], v[2], v[3])
                             r == wave_scratch_region(c.arch, slot, slot.offset + c.skew)
                         IN r.offset..(r.offset + r.size - 1)
             off == has_architected_flat_scratch(c.arch) /\ c.skew # 0
             all == PerXcc(c) * c.xccs
             count == (c.xccs * m) * slots
             pos(v) == Position(m, slots, v[1], v[2], v[3])
  <2>2. c.xccs \in Nat /\ ws \in Nat /\ c.skew \in Nat
    BY <2>1 DEF ScratchInputs
  <2>3. ASSUME NEW v \in waves
        PROVE  /\ v[1] \in 0..(c.xccs - 1) /\ v[2] \in 0..(m - 1) /\ v[3] \in 0..(slots - 1)
               /\ v = <<v[1], v[2], v[3]>>
    OBVIOUS
  <2>4. ASSUME NEW v \in waves
        PROVE  /\ m \in Nat \ {0} /\ slots \in Nat /\ all \in Nat /\ region(v).offset \in Nat
               /\ off => region(v).size = 0
               /\ \/ region(v).size = 0
                  \/ /\ region(v).size = ws /\ region(v).offset = pos(v) * ws
                     /\ all = count * ws
    <3>1. /\ m \in Nat \ {0} /\ slots \in Nat /\ all \in Nat /\ cell(v).offset \in Nat
          /\ cell(v) = Region(cell(v).offset, cell(v).size)
          /\ \/ cell(v).size = 0
             \/ /\ cell(v).size = ws /\ cell(v).offset = pos(v) * ws
                /\ all = count * ws
      BY <2>1, <2>3, RegionIsCell
    <3>2. region(v) = IF has_architected_flat_scratch(c.arch)
                           /\ cell(v).offset + c.skew # cell(v).offset
                        THEN [cell(v) EXCEPT !.size = 0] ELSE cell(v)
      BY Zenon DEF wave_scratch_region
    <3> DEFINE r == cell(v)
    <3> HIDE DEF m, slots, all, cell, region, count, pos, ws
    <3>3. r.offset + c.skew # r.offset <=> c.skew # 0
      BY <2>2, <3>1
    <3>4. [r EXCEPT !.size = 0].size = 0 /\ [r EXCEPT !.size = 0].offset = r.offset
      BY <3>1 DEF Region
    <3>5. CASE off
      BY <3>1, <3>2, <3>3, <3>4, <3>5
    <3>6. CASE ~off
      BY <3>1, <3>2, <3>3, <3>6
    <3> QED BY <3>5, <3>6
  <2>5. ASSUME NEW v \in waves PROVE pos(v) \in 0..(count - 1) /\ count \in Nat
    <3>1. m \in Nat \ {0} /\ slots \in Nat
      BY <2>4
    <3>2. /\ v[1] \in 0..(c.xccs - 1) /\ v[2] \in 0..(m - 1) /\ v[3] \in 0..(slots - 1)
      BY <2>3
    <3> HIDE DEF m, slots
    <3>3. pos(v) \in 0..(count - 1)
      BY <2>2, <3>1, <3>2, PositionInRange
    <3> QED BY <2>2, <3>1, <3>3
  <2>6. ASSUME NEW v \in waves, NEW u \in waves, pos(v) = pos(u) PROVE v = u
    <3>1. m \in Nat \ {0} /\ slots \in Nat
      BY <2>4
    <3>2. /\ v[1] \in 0..(c.xccs - 1) /\ v[2] \in 0..(m - 1) /\ v[3] \in 0..(slots - 1)
          /\ u[1] \in 0..(c.xccs - 1) /\ u[2] \in 0..(m - 1) /\ u[3] \in 0..(slots - 1)
      BY <2>3
    <3>3. v[1] = u[1] /\ v[2] = u[2] /\ v[3] = u[3]
      <4> HIDE DEF m, slots, waves
      <4>1. /\ pos(v) % slots = v[3] /\ (pos(v) \div slots) % m = v[2]
            /\ (pos(v) \div slots) \div m = v[1]
        <5> DEFINE x == v[1]
                   e == v[2]
                   t == v[3]
                   xccs == c.xccs
        <5>1. xccs \in Nat /\ x \in 0..(xccs - 1) /\ e \in 0..(m - 1) /\ t \in 0..(slots - 1)
          BY <2>2, <3>2
        <5> HIDE DEF x, e, t, xccs, c
        <5>2. LET p == Position(m, slots, x, e, t)
              IN p % slots = t /\ (p \div slots) % m = e /\ (p \div slots) \div m = x
          BY <3>1, <5>1, PositionInverse
        <5> QED BY <5>2 DEF x, e, t
      <4>2. /\ pos(u) % slots = u[3] /\ (pos(u) \div slots) % m = u[2]
            /\ (pos(u) \div slots) \div m = u[1]
        <5> DEFINE x == u[1]
                   e == u[2]
                   t == u[3]
                   xccs == c.xccs
        <5>1. xccs \in Nat /\ x \in 0..(xccs - 1) /\ e \in 0..(m - 1) /\ t \in 0..(slots - 1)
          BY <2>2, <3>2
        <5> HIDE DEF x, e, t, xccs, c
        <5>2. LET p == Position(m, slots, x, e, t)
              IN p % slots = t /\ (p \div slots) % m = e /\ (p \div slots) \div m = x
          BY <3>1, <5>1, PositionInverse
        <5> QED BY <5>2 DEF x, e, t
      <4> HIDE DEF pos
      <4> QED BY <2>6, <4>1, <4>2
    <3> QED BY <2>3, <3>3
  <2>7. ASSUME NEW v \in waves, NEW u \in waves
        PROVE  /\ bytes(v) \subseteq 0..(all - 1)
               /\ v # u => bytes(v) \cap bytes(u) = {}
               /\ off => bytes(v) = {}
    <3>1. /\ bytes(v) = region(v).offset..(region(v).offset + region(v).size - 1)
          /\ bytes(u) = region(u).offset..(region(u).offset + region(u).size - 1)
      OBVIOUS
    <3>2. /\ all \in Nat /\ region(v).offset \in Nat /\ region(u).offset \in Nat
          /\ pos(v) \in 0..(count - 1) /\ pos(u) \in 0..(count - 1) /\ count \in Nat
      BY <2>4, <2>5
    <3>3. v # u => pos(v) # pos(u)
      BY <2>6
    <3>4. /\ \/ region(v).size = 0
             \/ /\ region(v).size = ws /\ region(v).offset = pos(v) * ws
                /\ all = count * ws
          /\ \/ region(u).size = 0
             \/ /\ region(u).size = ws /\ region(u).offset = pos(u) * ws
                /\ all = count * ws
      BY <2>4
    <3>0. off => region(v).size = 0
      BY <2>4
    <3> HIDE DEF waves, pos, region, bytes, all, count, ws, off
    <3>5. region(v).size = 0 => bytes(v) = {}
      BY <3>1, <3>2
    <3>6. region(u).size = 0 => bytes(u) = {}
      BY <3>1, <3>2
    <3>7. CASE region(v).size = 0
      BY <3>5, <3>7
    <3>8. CASE region(v).size # 0 /\ region(u).size = 0
      <4>1. bytes(v) = (pos(v) * ws)..(pos(v) * ws + ws - 1) /\ all = count * ws
        BY <3>1, <3>4, <3>8
      <4>2. (pos(v) * ws)..(pos(v) * ws + ws - 1) \subseteq 0..(count * ws - 1)
        BY <2>2, <3>2, CellsApart
      <4> QED BY <3>0, <3>6, <3>8, <4>1, <4>2
    <3>9. CASE region(v).size # 0 /\ region(u).size # 0
      <4>1. /\ bytes(v) = (pos(v) * ws)..(pos(v) * ws + ws - 1)
            /\ bytes(u) = (pos(u) * ws)..(pos(u) * ws + ws - 1)
            /\ all = count * ws
        BY <3>1, <3>4, <3>9
      <4>2. /\ (pos(v) * ws)..(pos(v) * ws + ws - 1) \subseteq 0..(count * ws - 1)
            /\ pos(v) # pos(u) => ((pos(v) * ws)..(pos(v) * ws + ws - 1))
                                    \cap ((pos(u) * ws)..(pos(u) * ws + ws - 1)) = {}
        BY <2>2, <3>2, CellsApart
      <4> QED BY <3>0, <3>3, <3>9, <4>1, <4>2
    <3> QED BY <3>7, <3>8, <3>9
  <2> QED BY <2>7, Zenon DEF ScratchDisjoint
<1>2. Init => Fixed
  BY DEF Init, Fixed
<1> QED BY <1>1, <1>2, StaysFixed, PTL DEF Spec

-----------------------------------------------------------------------------
(* The transfers.                                                          *)

LoweredKinds == {"global", "local", "private_swizzled", "private_unswizzled"}

LEMMA Lasts ==
    /\ LastSegment \in Nat /\ LastGlobal \in Nat /\ LastSegment + 1 = SegmentSize
    /\ LastGlobal + 1 = 4 * ApertureSize
    /\ SegmentSize \in Nat \ {0} /\ ApertureSize \in Nat \ {0} /\ InterleaveSize \in Nat \ {0}
  BY AddressAssumption DEF AddressAssumption, LastSegment, LastGlobal

(* A lowered address is one of a space that is not the generic one.        *)
LEMMA Lowered ==
    ASSUME NEW kind \in Spaces, NEW address \in 0..LastGlobal
    PROVE  LET from == lower(kind, address)
           IN /\ from \in [kind : LoweredKinds, address : Nat]
              /\ from.address \in 0..last_address(from.kind)
<1> DEFINE from == lower(kind, address)
<1>1. CASE kind # "generic"
  <2>1. from = [kind |-> kind, address |-> address % (last_address(kind) + 1)]
    BY <1>1 DEF lower
  <2>2. kind \in LoweredKinds
    BY <1>1 DEF Spaces, LoweredKinds
  <2>3. last_address(kind) \in Nat
    BY Lasts DEF last_address
  <2>4. address \in Nat
    BY Lasts
  <2> DEFINE n == last_address(kind) + 1
  <2>5. n \in Nat \ {0} /\ n - 1 = last_address(kind)
    BY <2>3
  <2>6. address % n \in 0..(n - 1)
    <3> HIDE DEF n
    <3> QED BY <2>4, <2>5, Division
  <2> QED BY <2>1, <2>2, <2>5, <2>6
<1>2. CASE kind = "generic"
  <2> DEFINE hit == {a \in {Apertures[1], Apertures[2]} : address \div ApertureSize = a.base}
             a == CHOOSE x \in hit : TRUE
  <2>1. from = IF hit # {} THEN [kind |-> a.kind, address |-> address % (LastSegment + 1)]
               ELSE [kind |-> "global", address |-> address]
    BY <1>2 DEF lower, generic_lower
  <2>2. CASE hit = {}
    <3>1. from = [kind |-> "global", address |-> address]
      BY <2>1, <2>2
    <3>2. address \in Nat /\ last_address("global") = LastGlobal
      BY Lasts DEF last_address
    <3> QED BY <3>1, <3>2 DEF LoweredKinds
  <2>3. CASE hit # {}
    <3>1. a \in hit
      BY <2>3
    <3>2. a.kind \in {"local", "private_swizzled"}
      <4>1. Apertures[1].kind = "local" /\ Apertures[2].kind = "private_swizzled"
        BY DEF Apertures
      <4>2. a \in {Apertures[1], Apertures[2]}
        BY <3>1
      <4> HIDE DEF a, hit
      <4> QED BY <4>1, <4>2
    <3> HIDE DEF hit, a
    <3>3. from = [kind |-> a.kind, address |-> address % SegmentSize]
      BY <2>1, <2>3, Lasts
    <3>4. address \in Nat
      BY Lasts
    <3> DEFINE r == address % SegmentSize
    <3>5. r \in 0..(SegmentSize - 1) /\ r \in Nat
      BY <3>4, Lasts, Division
    <3> HIDE DEF r
    <3>6. last_address(a.kind) = SegmentSize - 1
      BY <3>2 DEF last_address, LastSegment
    <3>7. from.kind = a.kind /\ from.address = r /\ from \in [kind : LoweredKinds, address : Nat]
      BY <3>2, <3>3, <3>5 DEF r, LoweredKinds
    <3> QED BY <3>5, <3>6, <3>7
  <2> QED BY <2>2, <2>3
<1> QED BY <1>1, <1>2

(* What is granted of a request is mapped, and the next byte is not.       *)
LEMMA GrantedBytes ==
    ASSUME NEW mapped \in Nat, NEW first \in Nat, NEW size \in Nat
    PROVE  LET g == Granted(mapped, first, size)
           IN /\ g \in 0..size
              /\ \A k \in 0..(g - 1) : first + k < mapped
              /\ g < size => ~(first + g < mapped)
<1>1. CASE first + size <= mapped
  <2>1. Granted(mapped, first, size) = size
    <3>1. ~(first + size > mapped)
      BY <1>1
    <3> QED BY <1>1, <3>1 DEF Granted
  <2> QED BY <1>1, <2>1
<1>2. CASE first + size > mapped /\ first < mapped
  <2>1. Granted(mapped, first, size) = mapped - first
    <3>1. ~(first + size <= mapped)
      BY <1>2
    <3> QED BY <1>2, <3>1, Zenon DEF Granted
  <2> QED BY <1>2, <2>1
<1>3. CASE first + size > mapped /\ ~(first < mapped)
  <2>1. Granted(mapped, first, size) = 0
    <3>1. ~(first + size <= mapped)
      BY <1>3
    <3> QED BY <1>3, <3>1, Zenon DEF Granted
  <2> QED BY <1>3, <2>1
<1> QED BY <1>1, <1>2, <1>3

(* The parts of a transfer that its steps leave alone.                     *)
SameRequest(x, y) ==
    /\ y.kind = x.kind /\ y.address = x.address /\ y.wave = x.wave /\ y.lane = x.lane
    /\ y.mapped = x.mapped /\ y.limit = x.limit /\ y.local_base = x.local_base
    /\ y.frozen = x.frozen /\ y.write = x.write

LEMMA SameBytes ==
    ASSUME NEW x, NEW y, SameRequest(x, y), NEW n
    PROVE  Behind(y, n) = Behind(x, n) /\ (Accessible(y, n) <=> Accessible(x, n))
<1>1. Behind(y, n) = Behind(x, n)
  <2>1. Behind(y, n)
          = LET from == lower(y.kind, y.address) IN
            CASE from.kind = "global" -> from.address + n
              [] from.kind = "local"  -> y.local_base + from.address + n
              [] from.kind = "private_unswizzled" -> y.wave.base + from.address + n
              [] from.kind = "private_swizzled" ->
                   y.wave.base + Swizzle(y.wave, y.lane, from.address + n)
    BY DEF Behind
  <2> QED BY <2>1, Zenon DEF Behind, SameRequest
<1> QED BY <1>1, Zenon DEF Accessible, SameRequest

Statuses == {"asked", "process", "workgroup", "wave", "done", "memory_access",
             "frozen", "not_stopped", "invalid_wave", "invalid_lane",
             "invalid_workgroup"}
AnyTransfer == Transfers(Seq(Nat), Statuses)

MovedExactly(x) ==
    \A i \in 1..Len(x.moved) : Accessible(x, i - 1) /\ x.moved[i] = Behind(x, i - 1)

(* A chunk of a transfer whose bytes are those behind the request, starting *)
(* at the first that is not moved yet.                                     *)
LEMMA ChunkMoved ==
    ASSUME NEW x \in AnyTransfer, MovedExactly(x), NEW first \in Nat, NEW size \in Nat,
           size <= x.size,
           \A k \in 0..(size - 1) : /\ Behind(x, Len(x.moved) + k) = first + k
                                    /\ Accessible(x, Len(x.moved) + k) <=> (first + k < x.mapped)
    PROVE  LET y == xfer_global_memory(x, first, size)
               n == Len(x.moved)
               g == Granted(x.mapped, first, size)
           IN /\ y \in AnyTransfer /\ SameRequest(x, y) /\ MovedExactly(y)
              /\ g \in 0..size /\ Len(y.moved) = n + g /\ y.size = x.size - g
              /\ y.status = IF size > 0 /\ g = 0 THEN "memory_access" ELSE "done"
              /\ g < size => ~Accessible(x, n + g)
<1> DEFINE y == xfer_global_memory(x, first, size)
           n == Len(x.moved)
           g == Granted(x.mapped, first, size)
           b == Bytes(first, g)
<1>1. x.mapped \in Nat /\ x.size \in Nat /\ x.moved \in Seq(Nat) /\ n \in Nat
  BY DEF AnyTransfer, Transfers
<1>2. /\ g \in 0..size /\ g \in Nat
      /\ \A k \in 0..(g - 1) : first + k < x.mapped
      /\ g < size => ~(first + g < x.mapped)
  <2> DEFINE mapped == x.mapped
             h == Granted(mapped, first, size)
  <2>1. mapped \in Nat
    BY <1>1
  <2> HIDE DEF mapped
  <2>2. h \in 0..size /\ (\A k \in 0..(h - 1) : first + k < mapped)
        /\ (h < size => ~(first + h < mapped))
    BY <2>1, GrantedBytes
  <2> HIDE DEF h
  <2>3. h \in Nat
    BY <2>2
  <2> QED BY <2>2, <2>3 DEF mapped, h
<1>3. y = [x EXCEPT !.moved  = x.moved \o b, !.size = x.size - g,
                    !.status = IF size > 0 /\ g = 0 THEN "memory_access" ELSE "done"]
  BY DEF xfer_global_memory
<1> HIDE DEF g, y
<1>4. b \in Seq(Nat) /\ Len(b) = g /\ \A k \in 1..g : b[k] = first + k - 1
  <2>1. b = [i \in 1..g |-> first + i - 1]
    BY DEF Bytes
  <2>2. \A i \in 1..g : first + i - 1 \in Nat
    OBVIOUS
  <2> HIDE DEF b
  <2> QED BY <1>2, <2>1, <2>2
<1> HIDE DEF b, n
<1> DEFINE m == x.moved \o b
<1>5. /\ m \in Seq(Nat) /\ Len(m) = n + g
      /\ \A i \in 1..(n + g) : m[i] = IF i <= n THEN x.moved[i] ELSE b[i - n]
  <2>1. Len(x.moved) = n
    BY DEF n
  <2>2. x.moved \o b \in Seq(Nat) /\ Len(x.moved \o b) = Len(x.moved) + Len(b)
    BY <1>1, <1>4, ConcatProperties
  <2>3. \A i \in 1..(Len(x.moved) + Len(b)) :
          (x.moved \o b)[i] = IF i <= Len(x.moved) THEN x.moved[i] ELSE b[i - Len(x.moved)]
    BY <1>1, <1>4, ConcatProperties
  <2> QED BY <1>4, <2>1, <2>2, <2>3
<1> HIDE DEF m
<1>6. /\ y.moved = m /\ y.size = x.size - g /\ SameRequest(x, y)
      /\ y.status = IF size > 0 /\ g = 0 THEN "memory_access" ELSE "done"
  <2> DEFINE st == IF size > 0 /\ g = 0 THEN "memory_access" ELSE "done"
  <2>1. y = [x EXCEPT !.moved  = m, !.size = x.size - g, !.status = st]
    BY <1>3 DEF m
  <2> HIDE DEF st
  <2>2. y.moved = m /\ y.size = x.size - g /\ y.status = st /\ SameRequest(x, y)
    BY <2>1 DEF AnyTransfer, Transfers, SameRequest
  <2> QED BY <2>2 DEF st
<1>7. y \in AnyTransfer
  <2> DEFINE st == IF size > 0 /\ g = 0 THEN "memory_access" ELSE "done"
  <2>1. y = [x EXCEPT !.moved  = m, !.size = x.size - g, !.status = st]
    BY <1>3 DEF m
  <2>2. x.size - g \in Nat /\ st \in Statuses
    BY <1>1, <1>2 DEF Statuses
  <2> HIDE DEF st
  <2> QED BY <1>5, <2>1, <2>2 DEF AnyTransfer, Transfers
<1>8. MovedExactly(y)
  <2> SUFFICES ASSUME NEW i \in 1..(n + g) PROVE Accessible(y, i - 1) /\ m[i] = Behind(y, i - 1)
    BY <1>5, <1>6 DEF MovedExactly
  <2>1. CASE i <= n
    <3>1. i \in 1..n
      BY <1>1, <1>2, <2>1
    <3>2. Accessible(x, i - 1) /\ x.moved[i] = Behind(x, i - 1)
      BY <3>1 DEF MovedExactly, n
    <3>3. m[i] = x.moved[i]
      BY <1>5, <2>1
    <3> QED BY <1>6, <3>2, <3>3, SameBytes
  <2>2. CASE ~(i <= n)
    <3> DEFINE k == i - n - 1
    <3>1. k \in 0..(g - 1) /\ k \in 0..(size - 1) /\ n + k = i - 1 /\ i - n \in 1..g
          /\ first + (i - n) - 1 = first + k
      BY <1>1, <1>2, <2>2
    <3>2. m[i] = first + k
      BY <1>4, <1>5, <2>2, <3>1
    <3> HIDE DEF k
    <3>3. first + k < x.mapped
      BY <1>2, <3>1
    <3>4. Behind(x, n + k) = first + k /\ Accessible(x, n + k)
      BY <3>1, <3>3 DEF n
    <3> QED BY <1>6, <3>1, <3>2, <3>4, SameBytes
  <2> QED BY <2>1, <2>2
<1>9. ASSUME g < size PROVE ~Accessible(x, n + g)
  <2>1. g \in 0..(size - 1)
    BY <1>2, <1>9
  <2> QED BY <1>2, <1>9, <2>1 DEF n
<1> QED BY <1>2, <1>5, <1>6, <1>7, <1>8, <1>9 DEF y, g, n

(* Scratch memory is made of whole interleaves and is shorter than the     *)
(* private segment, so that an address of it never wraps.                  *)
ScratchFits(w) == w.size % InterleaveSize = 0 /\ w.size <= LastSegment
ScratchesFit == \A c \in Cases : c.tag = "transfer" => ScratchFits(c.x.wave)

(* A transfer, with what was found out when it was given to the process,   *)
(* the workgroup or the wave.                                              *)
LaneOf(x) ==
    LET from == lower(x.kind, x.address) IN
    /\ x.wave # NoWave
    /\ from.kind \in {"private_swizzled", "private_unswizzled"}
    /\ from.kind = "private_swizzled" => x.lane \in 0..(x.wave.lanes - 1)
Serving(x) ==
    /\ x \in AnyTransfer
    /\ TransferExact(x)
    /\ x.status = "asked" => x.moved = <<>>
    /\ x.status \in {"process", "workgroup", "wave"} => ~(x.frozen /\ x.write)
    /\ x.status = "process" => x.moved = <<>> /\ lower(x.kind, x.address).kind = "global"
    /\ x.status = "workgroup" => x.moved = <<>> /\ lower(x.kind, x.address).kind = "local"
    /\ x.status = "wave" => LaneOf(x)

(* A transfer that ends with a chunk that is all there is to access.       *)
LEMMA LastChunk ==
    ASSUME NEW x \in AnyTransfer, MovedExactly(x), ~(x.frozen /\ x.write),
           NEW first \in Nat, NEW size \in Nat, size <= x.size,
           \A k \in 0..(size - 1) : /\ Behind(x, Len(x.moved) + k) = first + k
                                    /\ Accessible(x, Len(x.moved) + k) <=> (first + k < x.mapped),
           size < x.size => ~Accessible(x, Len(x.moved) + size)
    PROVE  Serving(xfer_global_memory(x, first, size))
<1> DEFINE y == xfer_global_memory(x, first, size)
           n == Len(x.moved)
           g == Granted(x.mapped, first, size)
<1>1. /\ y \in AnyTransfer /\ SameRequest(x, y) /\ MovedExactly(y)
      /\ g \in 0..size /\ Len(y.moved) = n + g /\ y.size = x.size - g
      /\ y.status = IF size > 0 /\ g = 0 THEN "memory_access" ELSE "done"
      /\ g < size => ~Accessible(x, n + g)
  BY ChunkMoved
<1>2. n \in Nat /\ x.size \in Nat
  BY DEF AnyTransfer, Transfers
<1> HIDE DEF y, g
<1>3. y.size > 0 => ~Accessible(y, n + g)
  <2>1. CASE g < size
    BY <1>1, <2>1, SameBytes
  <2>2. CASE g = size
    BY <1>1, <1>2, <2>2, SameBytes DEF n
  <2> QED BY <1>1, <2>1, <2>2
<1>4. y.status = "memory_access" => y.size > 0
  BY <1>1, <1>2
<1>5. y.status \in {"memory_access", "done"} /\ ~(y.frozen /\ y.write)
  BY <1>1 DEF SameRequest
<1>6. TransferExact(y)
  BY <1>1, <1>3, <1>4, <1>5 DEF TransferExact, MovedExactly
<1>7. Serving(y)
  BY <1>1, <1>5, <1>6 DEF Serving
<1> QED BY <1>7 DEF y

(* A transfer is refused, or given to what serves its address.             *)
LEMMA Asked ==
    ASSUME NEW x, Serving(x), x.status = "asked"
    PROVE  Serving([x EXCEPT !.status = xfer_memory(x)])
<1> DEFINE st == xfer_memory(x)
           from == lower(x.kind, x.address)
           y == [x EXCEPT !.status = st]
           d == address_dependency(x.kind, x.address)
<1>1. x \in AnyTransfer /\ x.moved = <<>>
  BY DEF Serving
<1>2. from.kind \in LoweredKinds
  BY <1>1, Lowered DEF AnyTransfer, Transfers
<1>3. /\ d = "process" <=> from.kind = "global"
      /\ d = "workgroup" <=> from.kind = "local"
      /\ d = "wave" <=> from.kind = "private_unswizzled"
      /\ d = "lane" <=> from.kind = "private_swizzled"
      /\ d \in {"process", "workgroup", "wave", "lane"}
  <2> HIDE DEF from
  <2>1. d = CASE from.kind = "global"             -> "process"
              [] from.kind = "local"              -> "workgroup"
              [] from.kind = "private_unswizzled" -> "wave"
              [] from.kind = "private_swizzled"   -> "lane"
    BY DEF address_dependency, from
  <2> HIDE DEF d
  <2> QED BY <1>2, <2>1 DEF LoweredKinds
<1> HIDE DEF d, from
<1>4. CASE XferChecks(x) # "none"
  <2>1. st = XferChecks(x) /\ st \in {"frozen", "not_stopped", "invalid_lane"}
    BY <1>4 DEF xfer_memory, XferChecks
  <2> HIDE DEF st
  <2>2. y \in AnyTransfer /\ y.status = st /\ y.moved = <<>>
    BY <1>1, <2>1 DEF AnyTransfer, Transfers, Statuses
  <2> HIDE DEF y
  <2>3. TransferExact(y)
    BY <2>1, <2>2 DEF TransferExact
  <2>4. Serving(y)
    BY <2>1, <2>2, <2>3 DEF Serving
  <2> QED BY <2>4 DEF y, st
<1>5. CASE XferChecks(x) = "none"
  <2>1. st = ServedBy(x) /\ ~(x.frozen /\ x.write) /\ ~BadLane(x.wave, x.lane)
    BY <1>5 DEF xfer_memory, XferChecks
  <2>2. \/ st = "process" /\ from.kind = "global"
        \/ st = "workgroup" /\ from.kind = "local" /\ x.wave # NoWave
        \/ st \in {"invalid_wave", "invalid_lane"}
        \/ /\ st = "wave" /\ x.wave # NoWave
           /\ from.kind = "private_unswizzled" \/ (from.kind = "private_swizzled" /\ x.lane # NoLane)
    <3>1. CASE d = "process"
      <4>1. st = "process"
        BY <2>1, <3>1 DEF ServedBy, d
      <4> QED BY <1>3, <3>1, <4>1
    <3>2. CASE d = "workgroup"
      <4>1. st = IF x.wave = NoWave THEN "invalid_wave" ELSE "workgroup"
        BY <2>1, <3>2, Zenon DEF ServedBy, d
      <4> QED BY <1>3, <3>2, <4>1
    <3>3. CASE d = "lane" /\ x.lane = NoLane
      <4>1. st = "invalid_lane"
        <5>1. d # "process" /\ d # "workgroup"
          BY <3>3
        <5> QED BY <2>1, <3>3, <5>1, Zenon DEF ServedBy, d
      <4> QED BY <4>1
    <3>4. CASE d = "wave" \/ (d = "lane" /\ x.lane # NoLane)
      <4>1. st = IF x.wave = NoWave THEN "invalid_wave" ELSE "wave"
        <5>1. d # "process" /\ d # "workgroup" /\ ~(d = "lane" /\ x.lane = NoLane)
          BY <3>4
        <5> QED BY <2>1, <5>1, Zenon DEF ServedBy, d
      <4> QED BY <1>3, <3>4, <4>1
    <3> QED BY <1>3, <3>1, <3>2, <3>3, <3>4
  <2> HIDE DEF st
  <2>3. y \in AnyTransfer /\ y.status = st /\ y.moved = <<>> /\ SameRequest(x, y)
    BY <1>1, <2>2 DEF AnyTransfer, Transfers, Statuses, SameRequest
  <2> HIDE DEF y
  <2>4. y.kind = x.kind /\ y.address = x.address /\ y.wave = x.wave /\ y.lane = x.lane
        /\ y.frozen = x.frozen /\ y.write = x.write
    BY <2>3 DEF SameRequest
  <2>5. TransferExact(y)
    <3>1. y.status \notin {"done", "memory_access"}
      BY <2>2, <2>3
    <3> QED BY <2>3, <3>1 DEF TransferExact
  <2>6. y.status = "wave" => LaneOf(y)
    <3> SUFFICES ASSUME y.status = "wave" PROVE LaneOf(y)
      OBVIOUS
    <3>1. /\ x.wave # NoWave
          /\ from.kind = "private_unswizzled" \/ (from.kind = "private_swizzled" /\ x.lane # NoLane)
      BY <2>2, <2>3
    <3>2. x.lane # NoLane => x.lane \in 0..(x.wave.lanes - 1)
      <4>1. ~(x.lane >= x.wave.lanes)
        BY <2>1, <3>1 DEF BadLane
      <4>2. x.wave.lanes \in Nat /\ x.lane \in Nat \cup {NoLane}
        BY <1>1 DEF AnyTransfer, Transfers, ScratchWaves, NoWave, LaneIds
      <4> QED BY <4>1, <4>2
    <3> QED BY <2>4, <3>1, <3>2 DEF LaneOf, from
  <2>7. Serving(y)
    BY <2>1, <2>2, <2>3, <2>4, <2>5, <2>6 DEF Serving, from
  <2> QED BY <2>7 DEF y, st
<1> QED BY <1>4, <1>5

(* The parts of a transfer, apart from its record.                         *)
LEMMA TransferParts ==
    ASSUME NEW x \in AnyTransfer
    PROVE  /\ x.mapped \in Nat /\ x.size \in Nat /\ x.limit \in Nat /\ x.local_base \in Nat
           /\ x.wave.base \in Nat /\ x.wave.size \in Nat /\ x.wave.lanes \in Nat
           /\ x.wave # NoWave => x.wave.lanes # 0
           /\ x.lane \in LaneIds /\ x.moved \in Seq(Nat) /\ Len(x.moved) \in Nat
           /\ lower(x.kind, x.address).kind \in LoweredKinds
           /\ lower(x.kind, x.address).address \in Nat
           /\ lower(x.kind, x.address).address
                \in 0..last_address(lower(x.kind, x.address).kind)
<1>1. x.kind \in Spaces /\ x.address \in 0..LastGlobal
  BY DEF AnyTransfer, Transfers
<1>2. x.wave \in ScratchWaves
  BY DEF AnyTransfer, Transfers
<1>3. /\ x.wave.base \in Nat /\ x.wave.size \in Nat /\ x.wave.lanes \in Nat
      /\ x.wave # NoWave => x.wave.lanes # 0
  BY <1>2 DEF ScratchWaves, NoWave
<1>4. /\ x.mapped \in Nat /\ x.size \in Nat /\ x.limit \in Nat /\ x.local_base \in Nat
      /\ x.lane \in LaneIds /\ x.moved \in Seq(Nat) /\ Len(x.moved) \in Nat
  BY DEF AnyTransfer, Transfers
<1>5. /\ lower(x.kind, x.address) \in [kind : LoweredKinds, address : Nat]
      /\ lower(x.kind, x.address).address \in 0..last_address(lower(x.kind, x.address).kind)
  BY <1>1, Lowered
<1> QED BY <1>3, <1>4, <1>5

(* The process serves global memory.                                       *)
LEMMA ProcessServes ==
    ASSUME NEW x, Serving(x), x.status = "process"
    PROVE  Serving(process_xfer(x))
<1> DEFINE from == lower(x.kind, x.address)
           first == from.address
           size == x.size
<1>1. /\ x \in AnyTransfer /\ x.moved = <<>> /\ from.kind = "global" /\ ~(x.frozen /\ x.write)
  BY DEF Serving
<1>2. MovedExactly(x) /\ Len(x.moved) = 0
  BY <1>1 DEF MovedExactly
<1>3. first \in Nat /\ size \in Nat
  BY <1>1, TransferParts
<1>4. ASSUME NEW k \in 0..(size - 1)
      PROVE  Behind(x, 0 + k) = first + k /\ (Accessible(x, 0 + k) <=> (first + k < x.mapped))
  <2>1. Behind(x, 0 + k) = first + (0 + k)
    BY <1>1 DEF Behind
  <2>2. first + (0 + k) = first + k
    BY <1>3
  <2>3. Behind(x, 0 + k) = first + k
    BY <2>1, <2>2
  <2> QED BY <1>1, <2>3 DEF Accessible
<1>5. process_xfer(x) = xfer_global_memory(x, first, size)
  BY DEF process_xfer
<1> HIDE DEF first, size
<1>6. size <= x.size /\ ~(size < x.size)
  BY <1>3 DEF size
<1>7. Serving(xfer_global_memory(x, first, size))
  BY <1>1, <1>2, <1>3, <1>4, <1>6, LastChunk
<1> QED BY <1>5, <1>7

(* The workgroup serves local memory, up to its limit.                     *)
LEMMA SavedLdsServes ==
    ASSUME NEW x, Serving(x), x.status = "workgroup"
    PROVE  Serving(xfer_saved_lds(x))
<1> DEFINE offset == lower(x.kind, x.address).address
           first == x.local_base + offset
           room == IF offset < x.limit THEN x.limit - offset ELSE 0
<1>1. /\ x \in AnyTransfer /\ x.moved = <<>> /\ lower(x.kind, x.address).kind = "local"
      /\ ~(x.frozen /\ x.write)
  BY DEF Serving
<1>2. MovedExactly(x) /\ Len(x.moved) = 0
  BY <1>1 DEF MovedExactly
<1>3. offset \in Nat /\ x.local_base \in Nat /\ x.size \in Nat /\ x.limit \in Nat
  BY <1>1, TransferParts
<1>4. first \in Nat /\ room \in Nat /\ (offset < x.limit => offset + room = x.limit)
  <2> HIDE DEF offset
  <2> QED BY <1>3
<1>5. ASSUME NEW k \in Nat
      PROVE  /\ Behind(x, 0 + k) = first + k
             /\ Accessible(x, 0 + k) <=> (first + k < x.mapped /\ offset + k < x.limit)
  <2>1. Behind(x, 0 + k) = x.local_base + offset + (0 + k)
    BY <1>1 DEF Behind
  <2>2. x.local_base + offset + (0 + k) = first + k /\ offset + (0 + k) = offset + k
    <3> HIDE DEF offset
    <3> QED BY <1>3
  <2>3. Behind(x, 0 + k) = first + k
    BY <2>1, <2>2
  <2> QED BY <1>1, <2>2, <2>3 DEF Accessible
<1>6. /\ offset + x.size <= x.limit =>
           xfer_saved_lds(x) = xfer_global_memory(x, first, x.size)
      /\ (offset + x.size > x.limit /\ room = 0 /\ x.size # 0) =>
           xfer_saved_lds(x) = [x EXCEPT !.status = "memory_access"]
      /\ (offset + x.size > x.limit /\ ~(room = 0 /\ x.size # 0)) =>
           xfer_saved_lds(x) = xfer_global_memory(x, first, room)
  <2>1. offset + x.size <= x.limit <=> ~(offset + x.size > x.limit)
    BY <1>3
  <2>2. xfer_saved_lds(x)
          = CASE offset + x.size <= x.limit -> xfer_global_memory(x, first, x.size)
              [] offset + x.size > x.limit /\ room = 0 /\ x.size # 0 ->
                   [x EXCEPT !.status = "memory_access"]
              [] OTHER -> xfer_global_memory(x, first, room)
    BY Zenon DEF xfer_saved_lds
  <2> HIDE DEF offset, first, room
  <2> QED BY <2>1, <2>2, Zenon
<1> HIDE DEF offset, first, room
<1>7. CASE offset + x.size <= x.limit
  <2> DEFINE size == x.size
  <2>1. \A k \in 0..(size - 1) :
           Behind(x, 0 + k) = first + k /\ (Accessible(x, 0 + k) <=> (first + k < x.mapped))
    <3> SUFFICES ASSUME NEW k \in 0..(size - 1)
                 PROVE  /\ Behind(x, 0 + k) = first + k
                        /\ (Accessible(x, 0 + k) <=> (first + k < x.mapped))
      OBVIOUS
    <3>1. k \in Nat /\ offset + k < x.limit
      BY <1>3, <1>7
    <3> QED BY <1>5, <3>1
  <2>2. size \in Nat /\ size <= x.size /\ ~(size < x.size)
    BY <1>3
  <2> HIDE DEF size
  <2>3. Serving(xfer_global_memory(x, first, size))
    BY <1>1, <1>2, <1>4, <2>1, <2>2, LastChunk
  <2> QED BY <1>6, <1>7, <2>3 DEF size
<1>8. CASE offset + x.size > x.limit /\ room = 0 /\ x.size # 0
  <2> DEFINE y == [x EXCEPT !.status = "memory_access"]
  <2>1. y \in AnyTransfer /\ y.status = "memory_access" /\ y.moved = <<>> /\ SameRequest(x, y)
        /\ y.size = x.size
    BY <1>1 DEF AnyTransfer, Transfers, Statuses, SameRequest
  <2> HIDE DEF y
  <2>2. ~Accessible(x, 0 + 0)
    <3>1. ~(offset + 0 < x.limit)
      BY <1>3, <1>4, <1>8
    <3> QED BY <1>5, <3>1
  <2>3. ~Accessible(y, 0)
    BY <2>1, <2>2, SameBytes
  <2>4. TransferExact(y)
    BY <1>3, <1>8, <2>1, <2>3 DEF TransferExact
  <2>5. Serving(y)
    BY <2>1, <2>4 DEF Serving
  <2> QED BY <1>6, <1>8, <2>5 DEF y
<1>9. CASE offset + x.size > x.limit /\ ~(room = 0 /\ x.size # 0)
  <2>1. \A k \in 0..(room - 1) :
           Behind(x, 0 + k) = first + k /\ (Accessible(x, 0 + k) <=> (first + k < x.mapped))
    <3> SUFFICES ASSUME NEW k \in 0..(room - 1)
                 PROVE  /\ Behind(x, 0 + k) = first + k
                        /\ (Accessible(x, 0 + k) <=> (first + k < x.mapped))
      OBVIOUS
    <3>1. k \in Nat /\ offset + k < x.limit
      BY <1>3, <1>4 DEF room
    <3> QED BY <1>5, <3>1
  <2>2. room <= x.size
    BY <1>3, <1>4, <1>9 DEF room
  <2>3. room < x.size => ~Accessible(x, 0 + room)
    <3>1. ~(offset + room < x.limit)
      BY <1>3, <1>4 DEF room
    <3> QED BY <1>4, <1>5, <3>1
  <2>4. Serving(xfer_global_memory(x, first, room))
    BY <1>1, <1>2, <1>4, <2>1, <2>2, <2>3, LastChunk
  <2> QED BY <1>6, <1>9, <2>4
<1> QED BY <1>3, <1>7, <1>8, <1>9

LEMMA WorkgroupServes ==
    ASSUME NEW x, Serving(x), x.status = "workgroup"
    PROVE  Serving(xfer_local_memory(x))
<1>1. x \in AnyTransfer /\ x.moved = <<>>
  BY DEF Serving
<1>2. CASE ~x.suspended /\ x.gone
  <2> DEFINE y == [x EXCEPT !.status = "invalid_workgroup"]
  <2>1. y \in AnyTransfer /\ y.status = "invalid_workgroup" /\ y.moved = <<>>
    BY <1>1 DEF AnyTransfer, Transfers, Statuses
  <2>2. xfer_local_memory(x) = y
    BY <1>2, Zenon DEF xfer_local_memory
  <2> HIDE DEF y
  <2>3. TransferExact(y)
    BY <2>1 DEF TransferExact
  <2>4. Serving(y)
    BY <2>1, <2>3 DEF Serving
  <2> QED BY <2>2, <2>4
<1>3. CASE ~(~x.suspended /\ x.gone)
  <2>1. xfer_local_memory(x) = xfer_saved_lds(x)
    BY <1>3, Zenon DEF xfer_local_memory
  <2> QED BY <2>1, SavedLdsServes
<1> QED BY <1>2, <1>3

(* Where a byte of a lane is: in the row of its interleave, at the place   *)
(* of its lane.                                                            *)
LEMMA SwizzledPlace ==
    ASSUME NEW w, w.lanes \in Nat \ {0}, NEW lane \in 0..(w.lanes - 1), NEW a \in Nat
    PROVE  LET row == (a \div InterleaveSize) * w.lanes + lane
               rest == a % InterleaveSize
               off == Swizzle(w, lane, a)
           IN /\ row \in Nat /\ rest \in 0..(InterleaveSize - 1) /\ off \in Nat
              /\ off = row * InterleaveSize + rest
              /\ off \div InterleaveSize = row /\ off % InterleaveSize = rest
              /\ a <= off
<1> DEFINE I == InterleaveSize
           n == w.lanes
           q == a \div I
           rest == a % I
           row == q * n + lane
           off == Swizzle(w, lane, a)
<1>1. I \in Nat \ {0} /\ n \in Nat \ {0} /\ lane \in Nat
  BY Lasts
<1>2. q \in Nat /\ rest \in 0..(I - 1) /\ a = q * I + rest
  BY <1>1, Division
<1>3. off = q * n * I + lane * I + rest
  BY DEF Swizzle
<1> HIDE DEF I, n, q, rest, off
<1>4. row \in Nat /\ q * n \in Nat /\ q <= q * n
  <2>1. q * n \in Nat /\ q * 1 <= q * n
    <3>1. (n - 1) * q \in Nat
      BY <1>1, <1>2
    <3>2. q * n = q * 1 + (n - 1) * q
      BY <1>1, <1>2
    <3> QED BY <1>1, <1>2, <3>1, <3>2
  <2> QED BY <1>1, <1>2, <2>1
<1>5. off = row * I + rest
  BY <1>1, <1>2, <1>3
<1>6. q <= row
  BY <1>1, <1>2, <1>4
<1> HIDE DEF row
<1>7. (row * I + rest) \div I = row /\ (row * I + rest) % I = rest
  BY <1>1, <1>2, <1>4, Remainder
<1>8. row * I \in Nat /\ q * I \in Nat /\ q * I <= row * I
  BY <1>1, <1>2, <1>4, <1>6, Multiples
<1>9. off \in Nat /\ a <= off
  <2> DEFINE high == row * I
             low == q * I
  <2> HIDE DEF high, low
  <2>1. high \in Nat /\ low \in Nat /\ low <= high /\ off = high + rest /\ a = low + rest
    BY <1>2, <1>5, <1>8 DEF high, low
  <2> QED BY <1>1, <1>2, <2>1
<1> QED BY <1>1, <1>2, <1>4, <1>5, <1>7, <1>9 DEF I, n, q, rest, row, off

(* The bytes of an interleave follow each other, and none of them is       *)
(* beyond scratch memory that the first is in.                             *)
LEMMA SwizzledRun ==
    ASSUME NEW w, w.lanes \in Nat \ {0}, NEW lane \in 0..(w.lanes - 1), NEW a \in Nat,
           NEW k \in 0..(InterleaveSize - (Swizzle(w, lane, a) % InterleaveSize) - 1)
    PROVE  /\ Swizzle(w, lane, a + k) = Swizzle(w, lane, a) + k
           /\ (/\ w.size \in Nat /\ w.size % InterleaveSize = 0
               /\ Swizzle(w, lane, a) < w.size) => Swizzle(w, lane, a) + k < w.size
<1> DEFINE I == InterleaveSize
           n == w.lanes
           q == a \div I
           rest == a % I
           row == q * n + lane
           off == Swizzle(w, lane, a)
<1>1. I \in Nat \ {0}
  BY Lasts
<1>2. /\ row \in Nat /\ rest \in 0..(I - 1) /\ off \in Nat
      /\ off = row * I + rest /\ off % I = rest
  BY SwizzledPlace
<1>3. q \in Nat /\ a = q * I + rest
  BY <1>1, Division
<1>4. k \in Nat /\ rest + k \in 0..(I - 1)
  <2> HIDE DEF rest, off, I
  <2> QED BY <1>1, <1>2 DEF off, I
<1>5. Swizzle(w, lane, a + k) = off + k
  <2>1. a + k \in Nat /\ a + k = q * I + (rest + k)
    <3> DEFINE low == q * I
    <3>1. low \in Nat /\ a = low + rest
      BY <1>1, <1>3, Multiples
    <3> HIDE DEF low, rest, q
    <3>2. a + k \in Nat /\ a + k = low + (rest + k)
      BY <1>1, <1>2, <1>4, <3>1
    <3> QED BY <3>2 DEF low
  <2>2. (q * I + (rest + k)) \div I = q /\ (q * I + (rest + k)) % I = rest + k
    <3> HIDE DEF q, rest, I
    <3> QED BY <1>1, <1>3, <1>4, Remainder
  <2>3. (a + k) \div I = q /\ (a + k) % I = rest + k
    <3> HIDE DEF q, rest
    <3> QED BY <2>1, <2>2
  <2>4. Swizzle(w, lane, a + k)
          = ((a + k) \div I) * w.lanes * I + lane * I + ((a + k) % I)
    BY DEF Swizzle
  <2>5. off = q * w.lanes * I + lane * I + rest
    BY DEF Swizzle
  <2> DEFINE top == q * w.lanes * I + lane * I
  <2>6. top \in Int
    BY <1>1, <1>3
  <2> HIDE DEF q, rest, off
  <2>7. Swizzle(w, lane, a + k) = top + (rest + k) /\ off = top + rest
    BY <2>3, <2>4, <2>5
  <2> HIDE DEF top
  <2> QED BY <1>2, <1>4, <2>6, <2>7
<1>6. ASSUME w.size \in Nat, w.size % I = 0, off < w.size PROVE off + k < w.size
  <2> DEFINE s == w.size \div I
             size == w.size
  <2>1. s \in Nat /\ size = s * I + (size % I)
    BY <1>1, <1>6, Division
  <2> HIDE DEF row, rest, off, size, s, I
  <2>2. size = s * I /\ s * I \in Nat /\ row * I \in Nat
    BY <1>1, <1>2, <1>6, <2>1, Multiples DEF size
  <2>3. row < s
    <3>1. s <= row => s * I <= row * I
      BY <1>1, <1>2, <2>1, Multiples
    <3>2. row * I < s * I
      <4> DEFINE low == row * I
                 high == s * I
      <4> HIDE DEF low, high
      <4>1. low \in Nat /\ high \in Nat /\ off = low + rest /\ off < high
        BY <1>2, <1>6, <2>2 DEF low, high, size
      <4>2. low < high
        BY <1>2, <4>1
      <4> QED BY <4>2 DEF low, high
    <3> QED BY <1>2, <2>1, <2>2, <3>1, <3>2
  <2>4. row * I + I <= s * I
    BY <1>1, <1>2, <2>1, <2>3, Multiples
  <2> DEFINE low == row * I
             high == s * I
  <2> HIDE DEF low, high
  <2>5. low \in Nat /\ high \in Nat /\ off = low + rest /\ low + I <= high /\ size = high
    BY <1>2, <2>2, <2>4 DEF low, high
  <2>6. off + k < size
    BY <1>1, <1>2, <1>4, <2>5
  <2> QED BY <2>6 DEF size
<1> QED BY <1>5, <1>6

(* An address of a segment is its own remainder.                           *)
LEMMA SegmentAddress ==
    ASSUME NEW kind \in {"local", "private_swizzled", "private_unswizzled"},
           NEW a \in 0..LastSegment
    PROVE  lower(kind, a) = [kind |-> kind, address |-> a]
<1>1. lower(kind, a) = [kind |-> kind, address |-> a % (last_address(kind) + 1)]
  BY DEF lower
<1>2. last_address(kind) + 1 = SegmentSize
  BY Lasts DEF last_address
<1>3. SegmentSize \in Nat \ {0} /\ a \in 0..(SegmentSize - 1)
  BY Lasts
<1>4. (0 * SegmentSize + a) % SegmentSize = a
  <2>1. 0 \in Nat
    OBVIOUS
  <2> QED BY <1>3, <2>1, Remainder
<1>5. 0 * SegmentSize + a = a
  BY <1>3
<1> QED BY <1>1, <1>2, <1>4, <1>5

(* The global address of a private one.                                    *)
LEMMA PrivateToGlobal ==
    ASSUME NEW w, NEW lane, NEW kind \in {"private_swizzled", "private_unswizzled"},
           NEW a \in 0..LastSegment
    PROVE  LET c == convert("global", w, lane, kind, a)
               offset == Swizzle(w, lane, a)
           IN /\ a = LastSegment => c = To(0, 0)
              /\ (a # LastSegment /\ kind = "private_unswizzled") =>
                   c = IF a >= w.size THEN Invalid ELSE To(w.base + a, w.size - a)
              /\ (a # LastSegment /\ kind = "private_swizzled") =>
                   c = IF lane = NoLane \/ lane >= w.lanes THEN Error("invalid_lane")
                       ELSE IF offset >= w.size THEN Invalid
                       ELSE To(w.base + offset, InterleaveSize - (offset % InterleaveSize))
<1> DEFINE from == [kind |-> kind, address |-> a]
           c == convert("global", w, lane, kind, a)
           offset == Swizzle(w, lane, a)
           null == NullOf(from, FALSE, {"global", "private_unswizzled", "private_swizzled"})
<1>1. c = global_convert(w, lane, from, FALSE)
  <2>1. lower(kind, a) = from
    BY SegmentAddress
  <2>2. (kind = "generic") = FALSE
    OBVIOUS
  <2>3. c = global_convert(w, lane, lower(kind, a), kind = "generic")
    BY DEF convert
  <2> HIDE DEF from, c
  <2> QED BY <2>1, <2>2, <2>3
<1>2. from.kind = kind /\ from.address = a /\ null_address(kind) = LastSegment
  BY DEF null_address
<1>3. null <=> a = LastSegment
  <2> HIDE DEF from
  <2> QED BY <1>2 DEF NullOf
<1> HIDE DEF from, c
<1>4. CASE null
  <2>1. c = To(0, 0)
    BY <1>1, <1>4, Zenon DEF global_convert
  <2> QED BY <1>3, <1>4, <2>1 DEF c
<1>5. CASE ~null /\ kind = "private_unswizzled"
  <2>1. c = IF a >= w.size THEN Invalid ELSE To(w.base + a, w.size - a)
    <3>1. from.kind # "global" /\ from.kind = "private_unswizzled" /\ from.address = a
      BY <1>2, <1>5
    <3> QED BY <1>1, <1>5, <3>1, Zenon DEF global_convert
  <2> QED BY <1>3, <1>5, <2>1 DEF c
<1>6. CASE ~null /\ kind = "private_swizzled"
  <2>1. c = IF lane = NoLane \/ lane >= w.lanes THEN Error("invalid_lane")
            ELSE IF offset >= w.size THEN Invalid
            ELSE To(w.base + offset, InterleaveSize - (offset % InterleaveSize))
    <3>1. from.kind # "global" /\ from.kind # "private_unswizzled"
          /\ from.kind = "private_swizzled" /\ from.address = a
      BY <1>2, <1>6
    <3> QED BY <1>1, <1>6, <3>1, Zenon DEF global_convert
  <2> QED BY <1>3, <1>6, <2>1 DEF c
<1> QED BY <1>4, <1>5, <1>6

(* An iteration of the wave's loop: the chunk at the first byte that is    *)
(* not moved yet has the bytes behind the request, or that byte cannot be  *)
(* accessed.                                                               *)
LEMMA NextChunk ==
    ASSUME NEW x \in AnyTransfer, MovedExactly(x), LaneOf(x), ScratchFits(x.wave)
    PROVE  LET n == Len(x.moved)
               from == lower(x.kind, x.address)
               c == convert("global", x.wave, x.lane, from.kind, from.address + n)
           IN /\ c.error # "none" => ~Accessible(x, n)
              /\ c.error = "none" =>
                   /\ c.address \in Nat /\ c.bytes \in Nat
                   /\ \A k \in 0..(c.bytes - 1) :
                        /\ Behind(x, n + k) = c.address + k
                        /\ Accessible(x, n + k) <=> (c.address + k < x.mapped)
<1> DEFINE n == Len(x.moved)
           from == lower(x.kind, x.address)
           f == from.address
           a == f + n
           w == x.wave
           kind == from.kind
           c == convert("global", w, x.lane, kind, a)
           off == Swizzle(w, x.lane, a)
<1>1. /\ w.base \in Nat /\ w.size \in Nat /\ w.lanes \in Nat \ {0} /\ n \in Nat /\ f \in Nat
      /\ kind \in {"private_swizzled", "private_unswizzled"} /\ x.mapped \in Nat
      /\ kind = "private_swizzled" => x.lane \in 0..(w.lanes - 1)
      /\ f \in 0..LastSegment
  BY TransferParts DEF LaneOf, last_address
<1>2. w.size <= LastSegment /\ w.size % InterleaveSize = 0 /\ LastSegment \in Nat
  BY Lasts DEF ScratchFits
<1>3. ASSUME NEW k \in Nat
      PROVE  /\ kind = "private_unswizzled" => Behind(x, k) = w.base + (f + k)
             /\ kind = "private_swizzled" => Behind(x, k) = w.base + Swizzle(w, x.lane, f + k)
             /\ Accessible(x, k) <=> (Behind(x, k) < x.mapped /\ Behind(x, k) < w.base + w.size)
  <2>1. kind = "private_unswizzled" => Behind(x, k) = w.base + f + k
    BY DEF Behind
  <2>2. kind = "private_swizzled" => Behind(x, k) = w.base + Swizzle(w, x.lane, f + k)
    BY DEF Behind
  <2>3. w.base + f + k = w.base + (f + k)
    <3> HIDE DEF f, w
    <3> QED BY <1>1
  <2>4. Accessible(x, k) <=> (Behind(x, k) < x.mapped /\ Behind(x, k) < w.base + w.size)
    BY <1>1 DEF Accessible
  <2> QED BY <2>1, <2>2, <2>3, <2>4
<1>4. a \in 0..LastSegment
  <2>1. CASE n = 0
    <3> HIDE DEF f, n
    <3> QED BY <1>1, <1>2, <2>1
  <2>2. CASE n # 0
    <3>1. n \in 1..n /\ n - 1 \in Nat
      BY <1>1, <2>2
    <3>2. Accessible(x, n - 1)
      BY <3>1 DEF MovedExactly
    <3>3. Behind(x, n - 1) < w.base + w.size
      BY <1>3, <3>1, <3>2
    <3>4. f + (n - 1) \in Nat
      <4> HIDE DEF f, n
      <4> QED BY <1>1, <3>1
    <3>5. CASE kind = "private_unswizzled"
      <4>1. Behind(x, n - 1) = w.base + (f + (n - 1))
        BY <1>3, <3>1, <3>5
      <4> HIDE DEF f, n, w, kind
      <4> QED BY <1>1, <1>2, <3>3, <3>4, <4>1
    <3>6. CASE kind = "private_swizzled"
      <4>1. Behind(x, n - 1) = w.base + Swizzle(w, x.lane, f + (n - 1))
        BY <1>3, <3>1, <3>6
      <4> DEFINE b == f + (n - 1)
                 t == Swizzle(w, x.lane, b)
                 lane == x.lane
      <4>2. lane \in 0..(w.lanes - 1) /\ b \in Nat
        BY <1>1, <3>4, <3>6
      <4>3. t \in Nat /\ b <= t
        <5> HIDE DEF b, w, lane
        <5>1. Swizzle(w, lane, b) \in Nat /\ b <= Swizzle(w, lane, b)
          BY <1>1, <4>2, SwizzledPlace
        <5> QED BY <5>1 DEF lane
      <4>4. w.base + t < w.base + w.size
        BY <3>3, <4>1
      <4> HIDE DEF t, f, n, w, kind
      <4>5. b < w.size
        BY <1>1, <4>2, <4>3, <4>4
      <4> QED BY <1>1, <1>2, <4>5
    <3> QED BY <1>1, <3>5, <3>6
  <2> QED BY <2>1, <2>2
<1>5. ASSUME NEW k \in Nat PROVE n + k \in Nat /\ f + (n + k) = a + k
  <2> HIDE DEF f, n
  <2> QED BY <1>1
<1>6. n \in Nat /\ f + n = a /\ a \in Nat
  <2> HIDE DEF f, n
  <2> QED BY <1>1
<1>7. CASE a = LastSegment
  <2>1. c = To(0, 0)
    BY <1>1, <1>4, <1>7, PrivateToGlobal
  <2>2. c.error = "none" /\ c.address = 0 /\ c.bytes = 0
    BY <2>1 DEF To
  <2> HIDE DEF c
  <2> QED BY <2>2 DEF c
<1>8. CASE a # LastSegment /\ kind = "private_unswizzled"
  <2>1. c = IF a >= w.size THEN Invalid ELSE To(w.base + a, w.size - a)
    BY <1>1, <1>4, <1>8, PrivateToGlobal
  <2>2. CASE a >= w.size
    <3>1. c.error # "none"
      BY <2>1, <2>2 DEF Invalid, Error
    <3>2. Behind(x, n) = w.base + a
      BY <1>3, <1>6, <1>8
    <3>3. ~(w.base + a < w.base + w.size)
      <4> HIDE DEF a, w
      <4> QED BY <1>1, <1>6, <2>2
    <3>4. ~Accessible(x, n)
      BY <1>3, <1>6, <3>2, <3>3
    <3> QED BY <3>1, <3>4
  <2>3. CASE ~(a >= w.size)
    <3>1. c.error = "none" /\ c.address = w.base + a /\ c.bytes = w.size - a
      BY <2>1, <2>3 DEF To
    <3>2. w.base + a \in Nat /\ w.size - a \in Nat
      <4> HIDE DEF a, w
      <4> QED BY <1>1, <1>6, <2>3
    <3>3. ASSUME NEW k \in 0..(w.size - a - 1)
          PROVE  /\ Behind(x, n + k) = w.base + a + k
                 /\ Accessible(x, n + k) <=> (w.base + a + k < x.mapped)
      <4>1. k \in Nat
        BY <3>2
      <4>2. Behind(x, n + k) = w.base + (a + k)
        BY <1>3, <1>5, <1>8, <4>1
      <4>3. w.base + (a + k) = w.base + a + k /\ w.base + a + k < w.base + w.size
        <5> HIDE DEF a, w
        <5> QED BY <1>1, <1>6, <4>1
      <4>4. n + k \in Nat
        BY <1>5, <4>1
      <4> QED BY <1>3, <4>2, <4>3, <4>4
    <3> HIDE DEF c, w, a, n
    <3> QED BY <3>1, <3>2, <3>3 DEF c, n, w, a
  <2> QED BY <2>2, <2>3
<1>9. CASE a # LastSegment /\ kind = "private_swizzled"
  <2> DEFINE lane == x.lane
             bytes == InterleaveSize - (off % InterleaveSize)
  <2>1. lane \in 0..(w.lanes - 1)
    BY <1>1, <1>9
  <2>2. ~(lane = NoLane \/ lane >= w.lanes)
    <3> HIDE DEF lane, w
    <3> QED BY <1>1, <2>1 DEF NoLane
  <2>3. c = IF off >= w.size THEN Invalid ELSE To(w.base + off, bytes)
    <3>1. c = IF lane = NoLane \/ lane >= w.lanes THEN Error("invalid_lane")
              ELSE IF off >= w.size THEN Invalid ELSE To(w.base + off, bytes)
      <4> HIDE DEF w, lane, a, kind
      <4> QED BY <1>1, <1>4, <1>9, PrivateToGlobal DEF lane
    <3> HIDE DEF c, off, bytes, lane, w
    <3> QED BY <2>2, <3>1
  <2>4. off \in Nat /\ bytes \in Nat
    <3> HIDE DEF w, a, lane
    <3>1. Swizzle(w, lane, a) \in Nat
      BY <1>1, <1>6, <2>1, SwizzledPlace
    <3>2. off \in Nat
      BY <3>1 DEF lane
    <3> HIDE DEF off
    <3>3. off % InterleaveSize \in 0..(InterleaveSize - 1) /\ InterleaveSize \in Nat
      BY <3>2, Division, Lasts
    <3> DEFINE r == off % InterleaveSize
    <3> HIDE DEF r
    <3>4. InterleaveSize - r \in Nat
      BY <3>3 DEF r
    <3> QED BY <3>2, <3>4 DEF r
  <2>5. CASE off >= w.size
    <3>1. c.error # "none"
      BY <2>3, <2>5 DEF Invalid, Error
    <3>2. Behind(x, n) = w.base + off
      BY <1>3, <1>6, <1>9
    <3>3. ~(w.base + off < w.base + w.size)
      <4> HIDE DEF off, w
      <4> QED BY <1>1, <2>4, <2>5
    <3>4. ~Accessible(x, n)
      BY <1>3, <1>6, <3>2, <3>3
    <3> QED BY <3>1, <3>4
  <2>6. CASE ~(off >= w.size)
    <3>1. c.error = "none" /\ c.address = w.base + off /\ c.bytes = bytes
      BY <2>3, <2>6 DEF To
    <3>2. w.base + off \in Nat /\ off < w.size
      <4> HIDE DEF off, w
      <4> QED BY <1>1, <2>4, <2>6
    <3>3. ASSUME NEW k \in 0..(bytes - 1)
          PROVE  /\ Behind(x, n + k) = w.base + off + k
                 /\ Accessible(x, n + k) <=> (w.base + off + k < x.mapped)
      <4>1. k \in Nat
        BY <2>4
      <4>2. Swizzle(w, lane, a + k) = off + k /\ off + k < w.size
        <5>1. k \in 0..(InterleaveSize - (Swizzle(w, lane, a) % InterleaveSize) - 1)
          OBVIOUS
        <5>2. off = Swizzle(w, lane, a)
          OBVIOUS
        <5> HIDE DEF w, a, lane, off, bytes
        <5> QED BY <1>1, <1>2, <1>6, <2>1, <3>2, <5>1, <5>2, SwizzledRun
      <4>3. Behind(x, n + k) = w.base + (off + k)
        <5>1. Behind(x, n + k) = w.base + Swizzle(w, lane, a + k)
          BY <1>3, <1>5, <1>9, <4>1
        <5> HIDE DEF w, a, lane, off, n
        <5> QED BY <4>2, <5>1
      <4>4. w.base + (off + k) = w.base + off + k /\ w.base + off + k < w.base + w.size
        <5> HIDE DEF off, w
        <5> QED BY <1>1, <2>4, <4>1, <4>2
      <4>5. n + k \in Nat
        BY <1>5, <4>1
      <4> QED BY <1>3, <4>3, <4>4, <4>5
    <3> HIDE DEF c, w, a, n, off, bytes
    <3> QED BY <2>4, <3>1, <3>2, <3>3 DEF c, n, w, a
  <2> QED BY <2>5, <2>6
<1> QED BY <1>1, <1>7, <1>8, <1>9

(* A change of the status alone.                                           *)
LEMMA StatusOnly ==
    ASSUME NEW x \in AnyTransfer, NEW st \in Statuses
    PROVE  LET y == [x EXCEPT !.status = st]
           IN /\ y \in AnyTransfer /\ SameRequest(x, y) /\ y.status = st
              /\ y.moved = x.moved /\ y.size = x.size
  BY DEF AnyTransfer, Transfers, SameRequest

(* What was found out of a request holds of it while it is moved.          *)
LEMMA LaneStays ==
    ASSUME NEW x, NEW y, SameRequest(x, y)
    PROVE  LaneOf(y) <=> LaneOf(x)
<1>1. y.kind = x.kind /\ y.address = x.address /\ y.wave = x.wave /\ y.lane = x.lane
  BY DEF SameRequest
<1> QED BY <1>1, Zenon DEF LaneOf

(* The wave serves private memory, a chunk at a time.                      *)
LEMMA WaveServes ==
    ASSUME NEW x, Serving(x), x.status = "wave", ScratchFits(x.wave)
    PROVE  Serving(xfer_private_memory(x))
<1> DEFINE n == Len(x.moved)
           from == lower(x.kind, x.address)
           c == convert("global", x.wave, x.lane, from.kind, from.address + n)
           wanted == IF x.size < c.bytes THEN x.size ELSE c.bytes
           next == xfer_global_memory(x, c.address, wanted)
           result == xfer_private_memory(x)
<1>1. x \in AnyTransfer /\ LaneOf(x) /\ ~(x.frozen /\ x.write) /\ MovedExactly(x)
  BY DEF Serving, TransferExact, MovedExactly
<1>2. x.size \in Nat /\ n \in Nat /\ (n = 0 <=> x.moved = <<>>)
  <2>1. x.size \in Nat /\ n \in Nat /\ x.moved \in Seq(Nat)
    BY <1>1, TransferParts
  <2> QED BY <2>1, EmptySeq
<1>3. /\ c.error # "none" => ~Accessible(x, n)
      /\ c.error = "none" =>
           /\ c.address \in Nat /\ c.bytes \in Nat
           /\ \A k \in 0..(c.bytes - 1) :
                /\ Behind(x, n + k) = c.address + k
                /\ Accessible(x, n + k) <=> (c.address + k < x.mapped)
  BY <1>1, NextChunk
<1>4. result = CASE x.size = 0 -> [x EXCEPT !.status = "done"]
                 [] x.size > 0 /\ c.error # "none" ->
                      [x EXCEPT !.status = IF x.moved = <<>> THEN "memory_access" ELSE "done"]
                 [] x.size > 0 /\ c.error = "none" ->
                      IF next.status = "done" /\ x.size - next.size = wanted
                      THEN [next EXCEPT !.status = "wave"] ELSE next
  BY Zenon DEF xfer_private_memory
<1> HIDE DEF c, n, result
<1>5. CASE x.size = 0
  <2> DEFINE y == [x EXCEPT !.status = "done"]
  <2>1. result = y
    <3>1. ~(x.size > 0)
      BY <1>5
    <3> HIDE DEF next, wanted
    <3> QED BY <1>4, <1>5, <3>1, Zenon
  <2>2. y \in AnyTransfer /\ SameRequest(x, y) /\ y.status = "done" /\ y.moved = x.moved
        /\ y.size = x.size
    <3>1. "done" \in Statuses
      BY DEF Statuses
    <3> QED BY <1>1, <3>1, StatusOnly
  <2> HIDE DEF y
  <2>3. TransferExact(y)
    <3>1. \A i \in 1..Len(y.moved) : Accessible(y, i - 1) /\ y.moved[i] = Behind(y, i - 1)
      BY <1>1, <2>2, SameBytes DEF MovedExactly
    <3>2. ~(y.frozen /\ y.write)
      BY <1>1, <2>2 DEF SameRequest
    <3> QED BY <1>5, <2>2, <3>1, <3>2 DEF TransferExact
  <2>4. Serving(y)
    BY <2>2, <2>3 DEF Serving
  <2> QED BY <2>1, <2>4 DEF result
<1>6. CASE x.size > 0 /\ c.error # "none"
  <2> DEFINE st == IF x.moved = <<>> THEN "memory_access" ELSE "done"
             y == [x EXCEPT !.status = st]
  <2>1. result = y
    <3>1. x.size # 0
      BY <1>6
    <3> HIDE DEF next, wanted
    <3> QED BY <1>4, <1>6, <3>1, Zenon
  <2>2. st \in {"memory_access", "done"} /\ st \in Statuses
    BY DEF Statuses
  <2> HIDE DEF st
  <2>3. y \in AnyTransfer /\ SameRequest(x, y) /\ y.status = st /\ y.moved = x.moved
        /\ y.size = x.size
    BY <1>1, <2>2, StatusOnly
  <2> HIDE DEF y
  <2>4. TransferExact(y)
    <3>1. \A i \in 1..Len(y.moved) : Accessible(y, i - 1) /\ y.moved[i] = Behind(y, i - 1)
      BY <1>1, <2>3, SameBytes DEF MovedExactly
    <3>2. ~(y.frozen /\ y.write)
      BY <1>1, <2>3 DEF SameRequest
    <3>3. ~Accessible(y, Len(y.moved))
      BY <1>3, <1>6, <2>3, SameBytes DEF n
    <3> QED BY <1>6, <2>2, <2>3, <3>1, <3>2, <3>3 DEF TransferExact
  <2>5. Serving(y)
    BY <2>2, <2>3, <2>4 DEF Serving
  <2> QED BY <2>1, <2>5 DEF result
<1>7. CASE x.size > 0 /\ c.error = "none"
  <2> DEFINE g == Granted(x.mapped, c.address, wanted)
             first == c.address
  <2>1. result = IF next.status = "done" /\ x.size - next.size = wanted
                 THEN [next EXCEPT !.status = "wave"] ELSE next
    <3>1. x.size # 0
      BY <1>7
    <3> HIDE DEF next, wanted
    <3> QED BY <1>4, <1>7, <3>1, Zenon
  <2>2. wanted \in Nat /\ wanted <= x.size /\ (\A k \in 0..(wanted - 1) : k \in 0..(c.bytes - 1))
        /\ first \in Nat
    BY <1>2, <1>3, <1>7
  <2>3. \A k \in 0..(wanted - 1) :
          /\ Behind(x, Len(x.moved) + k) = first + k
          /\ Accessible(x, Len(x.moved) + k) <=> (first + k < x.mapped)
    BY <1>3, <1>7, <2>2 DEF n
  <2>4. /\ next \in AnyTransfer /\ SameRequest(x, next) /\ MovedExactly(next)
        /\ g \in 0..wanted /\ Len(next.moved) = n + g /\ next.size = x.size - g
        /\ next.status = IF wanted > 0 /\ g = 0 THEN "memory_access" ELSE "done"
        /\ g < wanted => ~Accessible(x, n + g)
    <3> HIDE DEF wanted, first
    <3>1. LET y == xfer_global_memory(x, first, wanted)
              m == Len(x.moved)
              h == Granted(x.mapped, first, wanted)
          IN /\ y \in AnyTransfer /\ SameRequest(x, y) /\ MovedExactly(y)
             /\ h \in 0..wanted /\ Len(y.moved) = m + h /\ y.size = x.size - h
             /\ y.status = IF wanted > 0 /\ h = 0 THEN "memory_access" ELSE "done"
             /\ h < wanted => ~Accessible(x, m + h)
      BY <1>1, <2>2, <2>3, ChunkMoved
    <3> QED BY <3>1 DEF first, n
  <2> HIDE DEF next, wanted, g, first
  <2>5. ~(next.frozen /\ next.write)
    BY <1>1, <2>4 DEF SameRequest
  <2>6. CASE next.status = "done" /\ x.size - next.size = wanted
    <3> DEFINE y == [next EXCEPT !.status = "wave"]
    <3>1. y \in AnyTransfer /\ SameRequest(next, y) /\ y.status = "wave" /\ y.moved = next.moved
      <4>1. "wave" \in Statuses
        BY DEF Statuses
      <4> QED BY <2>4, <4>1, StatusOnly
    <3>2. result = y
      BY <2>1, <2>6
    <3> HIDE DEF y
    <3>3. \A i \in 1..Len(y.moved) : Accessible(y, i - 1) /\ y.moved[i] = Behind(y, i - 1)
      BY <2>4, <3>1, SameBytes DEF MovedExactly
    <3>4. ~(y.frozen /\ y.write)
      BY <2>5, <3>1 DEF SameRequest
    <3>5. TransferExact(y)
      BY <3>1, <3>3, <3>4 DEF TransferExact
    <3>6. LaneOf(y)
      BY <1>1, <2>4, <3>1, LaneStays
    <3>7. Serving(y)
      BY <3>1, <3>4, <3>5, <3>6 DEF Serving
    <3> QED BY <3>2, <3>7 DEF result
  <2>7. CASE ~(next.status = "done" /\ x.size - next.size = wanted)
    <3>1. result = next
      BY <2>1, <2>7
    <3>2. g < wanted
      BY <1>2, <2>2, <2>4, <2>7
    <3>3. ~Accessible(next, Len(next.moved))
      BY <2>4, <3>2, SameBytes
    <3>4. next.status \in {"done", "memory_access"} /\ next.size > 0
      BY <1>2, <2>2, <2>4, <3>2
    <3>5. TransferExact(next)
      BY <2>4, <2>5, <3>3, <3>4 DEF TransferExact, MovedExactly
    <3>6. Serving(next)
      BY <2>4, <3>4, <3>5 DEF Serving
    <3> QED BY <3>1, <3>6 DEF result
  <2> QED BY <2>6, <2>7
<1> QED BY <1>2, <1>5, <1>6, <1>7

(* Every step of a transfer keeps it exact, and its wave.                  *)
LEMMA StepServes ==
    ASSUME NEW x, Serving(x), ScratchFits(x.wave),
           x.status \in {"asked", "process", "workgroup", "wave"}
    PROVE  Serving(xfer_step(x)) /\ xfer_step(x).wave = x.wave
<1>1. x \in AnyTransfer
  BY DEF Serving
<1>2. CASE x.status = "asked"
  <2>1. xfer_step(x) = [x EXCEPT !.status = xfer_memory(x)]
    BY <1>2 DEF xfer_step
  <2>2. [x EXCEPT !.status = xfer_memory(x)].wave = x.wave
    BY <1>1 DEF AnyTransfer, Transfers
  <2> QED BY <1>2, <2>1, <2>2, Asked
<1>3. CASE x.status = "process"
  <2>1. xfer_step(x) = process_xfer(x)
    BY <1>3 DEF xfer_step
  <2>2. process_xfer(x).wave = x.wave
    BY <1>1 DEF process_xfer, xfer_global_memory, AnyTransfer, Transfers
  <2> QED BY <1>3, <2>1, <2>2, ProcessServes
<1>4. CASE x.status = "workgroup"
  <2>1. xfer_step(x) = xfer_local_memory(x)
    BY <1>4 DEF xfer_step
  <2>2. ASSUME NEW f, NEW s PROVE xfer_global_memory(x, f, s).wave = x.wave
    BY <1>1 DEF xfer_global_memory, AnyTransfer, Transfers
  <2>3. [x EXCEPT !.status = "memory_access"].wave = x.wave
    BY <1>1 DEF AnyTransfer, Transfers
  <2>4. xfer_saved_lds(x).wave = x.wave
    <3> DEFINE offset == lower(x.kind, x.address).address
               first == x.local_base + offset
               room == IF offset < x.limit THEN x.limit - offset ELSE 0
    <3>1. xfer_saved_lds(x)
            = CASE offset + x.size <= x.limit -> xfer_global_memory(x, first, x.size)
                [] offset + x.size > x.limit /\ room = 0 /\ x.size # 0 ->
                     [x EXCEPT !.status = "memory_access"]
                [] OTHER -> xfer_global_memory(x, first, room)
      BY Zenon DEF xfer_saved_lds
    <3>2. offset + x.size <= x.limit <=> ~(offset + x.size > x.limit)
      BY <1>1, TransferParts
    <3> HIDE DEF offset, first, room
    <3>3. CASE offset + x.size <= x.limit
      <4>1. xfer_saved_lds(x) = xfer_global_memory(x, first, x.size)
        BY <3>1, <3>2, <3>3, Zenon
      <4> QED BY <2>2, <4>1
    <3>4. CASE offset + x.size > x.limit /\ room = 0 /\ x.size # 0
      <4>1. xfer_saved_lds(x) = [x EXCEPT !.status = "memory_access"]
        BY <3>1, <3>2, <3>4, Zenon
      <4> QED BY <2>3, <4>1
    <3>5. CASE offset + x.size > x.limit /\ ~(room = 0 /\ x.size # 0)
      <4>1. xfer_saved_lds(x) = xfer_global_memory(x, first, room)
        BY <3>1, <3>2, <3>5, Zenon
      <4> QED BY <2>2, <4>1
    <3> QED BY <3>2, <3>3, <3>4, <3>5
  <2>5. xfer_local_memory(x).wave = x.wave
    <3>1. [x EXCEPT !.status = "invalid_workgroup"].wave = x.wave
      BY <1>1 DEF AnyTransfer, Transfers
    <3>2. \/ xfer_local_memory(x) = [x EXCEPT !.status = "invalid_workgroup"]
          \/ xfer_local_memory(x) = xfer_saved_lds(x)
      BY Zenon DEF xfer_local_memory
    <3> QED BY <2>4, <3>1, <3>2
  <2> QED BY <1>4, <2>1, <2>5, WorkgroupServes
<1>5. CASE x.status = "wave"
  <2>1. xfer_step(x) = xfer_private_memory(x)
    BY <1>5 DEF xfer_step
  <2>2. ASSUME NEW f, NEW s
        PROVE  /\ xfer_global_memory(x, f, s).wave = x.wave
               /\ [xfer_global_memory(x, f, s) EXCEPT !.status = "wave"].wave = x.wave
    BY <1>1 DEF xfer_global_memory, AnyTransfer, Transfers
  <2>3. ASSUME NEW st PROVE [x EXCEPT !.status = st].wave = x.wave
    BY <1>1 DEF AnyTransfer, Transfers
  <2>4. x.size = 0 \/ x.size > 0
    BY <1>1, TransferParts
  <2>5. xfer_private_memory(x).wave = x.wave
    <3> DEFINE from == lower(x.kind, x.address)
               c == convert("global", x.wave, x.lane, from.kind, from.address + Len(x.moved))
               wanted == IF x.size < c.bytes THEN x.size ELSE c.bytes
               next == xfer_global_memory(x, c.address, wanted)
               st == IF x.moved = <<>> THEN "memory_access" ELSE "done"
    <3>1. xfer_private_memory(x)
            = CASE x.size = 0 -> [x EXCEPT !.status = "done"]
                [] x.size > 0 /\ c.error # "none" -> [x EXCEPT !.status = st]
                [] x.size > 0 /\ c.error = "none" ->
                     IF next.status = "done" /\ x.size - next.size = wanted
                     THEN [next EXCEPT !.status = "wave"] ELSE next
      BY Zenon DEF xfer_private_memory
    <3>2. next.wave = x.wave /\ [next EXCEPT !.status = "wave"].wave = x.wave
      BY <2>2
    <3>3. x.size = 0 <=> ~(x.size > 0)
      BY <1>1, TransferParts
    <3> HIDE DEF c, next, wanted, st
    <3>4. \/ xfer_private_memory(x) = [x EXCEPT !.status = "done"]
          \/ xfer_private_memory(x) = [x EXCEPT !.status = st]
          \/ xfer_private_memory(x) = [next EXCEPT !.status = "wave"]
          \/ xfer_private_memory(x) = next
      BY <3>1, <3>3
    <3> QED BY <2>3, <3>2, <3>4
  <2> QED BY <1>5, <2>1, <2>5, WaveServes
<1> QED BY <1>2, <1>3, <1>4, <1>5

(* The inductive invariant of the transfers.                               *)
TransfersInv ==
    /\ Fixed
    /\ case.tag = "transfer" =>
         /\ "x" \in DOMAIN case
         /\ Serving(case.x) /\ ScratchFits(case.x.wave)

(* TransfersExact for any request, wave, lane, limits and interleave, when *)
(* scratch memory is made of whole interleaves and is shorter than the     *)
(* private segment: the bytes moved are those behind the request, in order *)
(* and once, up to the first that cannot be accessed (xfer_memory,         *)
(* xfer_private_memory, xfer_local_memory).                                *)
THEOREM TransfersAreExact == ScratchesFit => (Spec => []TransfersExact)
<1> SUFFICES ASSUME ScratchesFit PROVE Spec => []TransfersExact
  OBVIOUS
<1>1. Init => TransfersInv
  <2> SUFFICES ASSUME case \in Cases, case.tag = "transfer"
               PROVE  /\ "x" \in DOMAIN case
                      /\ Serving(case.x) /\ ScratchFits(case.x.wave)
    BY DEF Init, TransfersInv, Fixed
  <2>1. case \in TransferInputs /\ ScratchFits(case.x.wave)
    BY Tagged DEF ScratchesFit
  <2>2. "x" \in DOMAIN case /\ case.x \in Transfers({<<>>}, {"asked"})
    BY <2>1 DEF TransferInputs
  <2> DEFINE x == case.x
  <2> HIDE DEF x
  <2>3. x \in AnyTransfer /\ x.moved = <<>> /\ x.status = "asked"
    <3>1. <<>> \in Seq(Nat) /\ "asked" \in Statuses
      BY DEF Statuses
    <3> QED BY <2>2, <3>1 DEF x, AnyTransfer, Transfers
  <2>4. TransferExact(x)
    BY <2>3 DEF TransferExact
  <2>5. Serving(x)
    BY <2>3, <2>4 DEF Serving
  <2> QED BY <2>1, <2>2, <2>5 DEF x
<1>2. TransfersInv /\ [StepTransfer]_case => TransfersInv'
  <2> SUFFICES ASSUME TransfersInv, [StepTransfer]_case PROVE TransfersInv'
    OBVIOUS
  <2>1. Fixed'
    BY StaysFixed DEF TransfersInv
  <2>2. CASE StepTransfer
    <3>1. /\ "x" \in DOMAIN case /\ Serving(case.x) /\ ScratchFits(case.x.wave)
          /\ case.x.status \in {"asked", "process", "workgroup", "wave"}
          /\ case' = [case EXCEPT !.x = xfer_step(case.x)]
      BY <2>2 DEF TransfersInv, StepTransfer
    <3>2. "x" \in DOMAIN case' /\ case'.x = xfer_step(case.x)
      BY <3>1
    <3>3. Serving(case'.x) /\ case'.x.wave = case.x.wave
      BY <3>1, <3>2, StepServes
    <3>4. ScratchFits(case'.x.wave)
      BY <3>1, <3>3
    <3> QED BY <2>1, <3>2, <3>3, <3>4 DEF TransfersInv
  <2>3. CASE UNCHANGED case
    BY <2>1, <2>3 DEF TransfersInv
  <2> QED BY <2>2, <2>3
<1>3. TransfersInv => TransfersExact
  BY DEF TransfersInv, TransfersExact, Serving
<1> QED BY <1>1, <1>2, <1>3, PTL DEF Spec

-----------------------------------------------------------------------------
(* The conversions.                                                        *)

(* The generic address of a byte of a segment.                             *)
InGeneric(kind, a) ==
    CASE kind = "global" -> a
      [] kind = "local"  -> 1 * ApertureSize + a
      [] kind = "private_swizzled" -> 2 * ApertureSize + a

LEMMA ApertureFacts ==
    /\ Apertures[1] = [base |-> 1, kind |-> "local"]
    /\ Apertures[2] = [base |-> 2, kind |-> "private_swizzled"]
    /\ \A a : InAperture(a) <=> (a \div ApertureSize = 1 \/ a \div ApertureSize = 2)
<1>1. /\ Apertures[1] = [base |-> 1, kind |-> "local"]
      /\ Apertures[2] = [base |-> 2, kind |-> "private_swizzled"]
      /\ DOMAIN Apertures = {1, 2}
  BY DEF Apertures
<1>2. ASSUME NEW a PROVE InAperture(a) <=> (a \div ApertureSize = 1 \/ a \div ApertureSize = 2)
  <2>1. Apertures[1].base = 1 /\ Apertures[2].base = 2
    BY <1>1
  <2> QED BY <1>1, <2>1 DEF InAperture
<1> QED BY <1>1, <1>2

(* A byte of a segment, in an aperture, is lowered to itself.              *)
LEMMA ApertureOffset ==
    ASSUME NEW i \in {1, 2}, NEW a \in 0..LastSegment
    PROVE  /\ (i * ApertureSize + a) \div ApertureSize = i
           /\ (i * ApertureSize + a) % (LastSegment + 1) = a
           /\ i * ApertureSize + a \in 1..LastGlobal
<1> DEFINE A == ApertureSize
           S == SegmentSize
           m == A \div S
<1>1. A \in Nat \ {0} /\ S \in Nat \ {0} /\ A % S = 0 /\ LastSegment + 1 = S /\ a \in 0..(S - 1)
      /\ LastGlobal = 4 * A - 1 /\ i \in Nat
  BY Lasts, AddressAssumption DEF AddressAssumption, LastGlobal
<1>2. m \in Nat /\ A = m * S
  <2>1. m \in Nat /\ A % S \in 0..(S - 1) /\ A = m * S + (A % S)
    BY <1>1, Division
  <2> HIDE DEF m, A, S
  <2> QED BY <1>1, <2>1
<1> HIDE DEF A, S, m
<1>3. m # 0
  BY <1>1, <1>2
<1>4. S <= A
  <2>1. 0 < m /\ 0 \in Nat
    BY <1>2, <1>3
  <2>2. 0 * S + S <= m * S
    BY <1>1, <1>2, <2>1, Multiples
  <2> QED BY <1>1, <1>2, <2>2
<1>5. a \in 0..(A - 1)
  BY <1>1, <1>4
<1>6. (i * A + a) \div A = i
  BY <1>1, <1>5, Remainder
<1>7. (i * A + a) % S = a
  <2>1. i * m \in Nat /\ i * A = (i * m) * S
    BY <1>1, <1>2
  <2> DEFINE p == i * m
  <2> HIDE DEF p
  <2>2. (p * S + a) % S = a
    BY <1>1, <2>1, Remainder DEF p
  <2> QED BY <2>1, <2>2 DEF p
<1>8. i * A + a \in 1..(4 * A - 1)
  BY <1>1, <1>5
<1> QED BY <1>1, <1>6, <1>7, <1>8 DEF A, S

LEMMA GenericLowered ==
    /\ \A a \in 0..LastSegment :
         /\ lower("generic", 1 * ApertureSize + a) = [kind |-> "local", address |-> a]
         /\ lower("generic", 2 * ApertureSize + a) = [kind |-> "private_swizzled", address |-> a]
    /\ \A a : ~InAperture(a) => lower("generic", a) = [kind |-> "global", address |-> a]
    /\ \A a : InAperture(a) <=> lower("generic", a).kind # "global"
    /\ \A a : InAperture(a) => lower("generic", a).address = a % (LastSegment + 1)
<1> DEFINE hit(g) == {a \in {Apertures[1], Apertures[2]} : g \div ApertureSize = a.base}
           chosen(g) == CHOOSE x \in hit(g) : TRUE
<1>1. ASSUME NEW g
      PROVE  lower("generic", g)
               = IF hit(g) # {} THEN [kind |-> chosen(g).kind, address |-> g % (LastSegment + 1)]
                 ELSE [kind |-> "global", address |-> g]
  BY DEF lower, generic_lower
<1>2. /\ Apertures[1].base = 1 /\ Apertures[2].base = 2
      /\ Apertures[1].kind = "local" /\ Apertures[2].kind = "private_swizzled"
  BY ApertureFacts
<1>3. ASSUME NEW g, g \div ApertureSize = 1
      PROVE  lower("generic", g) = [kind |-> "local", address |-> g % (LastSegment + 1)]
  <2>1. hit(g) = {Apertures[1]}
    BY <1>2, <1>3
  <2>2. chosen(g) = Apertures[1]
    <3> HIDE DEF hit
    <3> QED BY <2>1
  <2> HIDE DEF hit, chosen
  <2>3. hit(g) # {}
    BY <2>1
  <2> QED BY <1>1, <1>2, <2>2, <2>3
<1>4. ASSUME NEW g, g \div ApertureSize = 2
      PROVE  lower("generic", g) = [kind |-> "private_swizzled", address |-> g % (LastSegment + 1)]
  <2>1. hit(g) = {Apertures[2]}
    BY <1>2, <1>4
  <2>2. chosen(g) = Apertures[2]
    <3> HIDE DEF hit
    <3> QED BY <2>1
  <2> HIDE DEF hit, chosen
  <2>3. hit(g) # {}
    BY <2>1
  <2> QED BY <1>1, <1>2, <2>2, <2>3
<1>5. ASSUME NEW g, ~InAperture(g)
      PROVE  lower("generic", g) = [kind |-> "global", address |-> g]
  <2>1. hit(g) = {}
    BY <1>2, <1>5, ApertureFacts
  <2> QED BY <1>1, <2>1
<1>6. ASSUME NEW a \in 0..LastSegment
      PROVE  /\ lower("generic", 1 * ApertureSize + a) = [kind |-> "local", address |-> a]
             /\ lower("generic", 2 * ApertureSize + a)
                  = [kind |-> "private_swizzled", address |-> a]
  <2>1. /\ (1 * ApertureSize + a) \div ApertureSize = 1
        /\ (1 * ApertureSize + a) % (LastSegment + 1) = a
    BY ApertureOffset
  <2>2. /\ (2 * ApertureSize + a) \div ApertureSize = 2
        /\ (2 * ApertureSize + a) % (LastSegment + 1) = a
    BY ApertureOffset
  <2> DEFINE g1 == 1 * ApertureSize + a
             g2 == 2 * ApertureSize + a
  <2> HIDE DEF g1, g2
  <2>3. g1 \div ApertureSize = 1 /\ g1 % (LastSegment + 1) = a
    BY <2>1 DEF g1
  <2>4. g2 \div ApertureSize = 2 /\ g2 % (LastSegment + 1) = a
    BY <2>2 DEF g2
  <2>5. lower("generic", g1) = [kind |-> "local", address |-> a]
    BY <1>3, <2>3
  <2>6. lower("generic", g2) = [kind |-> "private_swizzled", address |-> a]
    BY <1>4, <2>4
  <2> QED BY <2>5, <2>6 DEF g1, g2
<1>7. ASSUME NEW g PROVE InAperture(g) <=> lower("generic", g).kind # "global"
  BY <1>3, <1>4, <1>5, ApertureFacts
<1>8. ASSUME NEW g, InAperture(g) PROVE lower("generic", g).address = g % (LastSegment + 1)
  BY <1>3, <1>4, <1>8, ApertureFacts
<1> QED BY <1>5, <1>6, <1>7, <1>8

LEMMA LastAddresses ==
    /\ \A kind \in LoweredKinds : last_address(kind) \in Nat
    /\ last_address("global") = LastGlobal /\ last_address("generic") = LastGlobal
    /\ \A kind \in LoweredKinds \ {"global"} : last_address(kind) = LastSegment
    /\ null_address("global") = 0
    /\ \A kind \in LoweredKinds \ {"global"} : null_address(kind) = LastSegment
  BY Lasts DEF last_address, null_address, LoweredKinds

LEMMA LowerSelf ==
    ASSUME NEW kind \in LoweredKinds, NEW a \in 0..last_address(kind)
    PROVE  lower(kind, a) = [kind |-> kind, address |-> a]
<1> DEFINE N == last_address(kind) + 1
<1>1. lower(kind, a) = [kind |-> kind, address |-> a % N]
  BY DEF lower, LoweredKinds
<1>2. N \in Nat \ {0} /\ a \in 0..(N - 1)
  BY LastAddresses
<1> HIDE DEF N
<1>3. (0 * N + a) % N = a
  <2>1. 0 \in Nat
    OBVIOUS
  <2> QED BY <1>2, <2>1, Remainder
<1>4. 0 * N + a = a
  BY <1>2
<1> QED BY <1>1, <1>3, <1>4

(* The bytes that follow an address, up to the end of its space.           *)
LEMMA LowerNear ==
    ASSUME NEW kind \in Spaces, NEW a \in 0..LastGlobal, NEW n \in Nat,
           lower(kind, a).address + n <= last_address(lower(kind, a).kind),
           lower(kind, a + n).kind = lower(kind, a).kind
    PROVE  lower(kind, a + n) = [kind |-> lower(kind, a).kind,
                                 address |-> lower(kind, a).address + n]
<1> DEFINE from == lower(kind, a)
           f == from.address
<1>1. /\ from \in [kind : LoweredKinds, address : Nat] /\ f \in 0..last_address(from.kind)
      /\ a \in Nat
  BY Lowered, Lasts
<1>2. ASSUME NEW N \in Nat \ {0}, f = a % N, f + n < N PROVE (a + n) % N = f + n
  <2> DEFINE q == a \div N
  <2>1. q \in Nat /\ a = q * N + (a % N) /\ q * N \in Nat
    BY <1>1, Division, Multiples
  <2> HIDE DEF f, q
  <2>2. a + n = q * N + (f + n)
    <3> DEFINE low == q * N
    <3>1. low \in Nat /\ a = low + f
      BY <1>2, <2>1
    <3> HIDE DEF low
    <3>2. a + n = low + (f + n)
      BY <1>1, <3>1
    <3> QED BY <3>2 DEF low
  <2>3. f + n \in 0..(N - 1)
    BY <1>1, <1>2
  <2>4. (q * N + (f + n)) % N = f + n
    BY <2>1, <2>3, Remainder
  <2> QED BY <2>2, <2>4
<1>3. CASE kind # "generic"
  <2> DEFINE N == last_address(kind) + 1
  <2>1. /\ from = [kind |-> kind, address |-> a % N]
        /\ lower(kind, a + n) = [kind |-> kind, address |-> (a + n) % N]
    BY <1>3 DEF lower
  <2>2. N \in Nat \ {0}
    BY <1>3, LastAddresses DEF Spaces, LoweredKinds
  <2>3. f = a % N /\ f + n <= last_address(kind)
    BY <2>1
  <2>4. f + n < N
    <3> DEFINE l == last_address(kind)
    <3>1. l \in Nat
      BY <1>3, LastAddresses DEF Spaces, LoweredKinds
    <3>2. f \in Nat
      BY <1>1
    <3> HIDE DEF f, l
    <3>3. f + n < l + 1
      BY <2>3, <3>1, <3>2 DEF l
    <3> QED BY <3>3 DEF l
  <2> HIDE DEF N
  <2>5. (a + n) % N = f + n
    BY <1>2, <2>2, <2>3, <2>4
  <2> QED BY <2>1, <2>5
<1>4. CASE kind = "generic" /\ from.kind = "global"
  <2>1. ~InAperture(a) /\ ~InAperture(a + n)
    BY <1>4, GenericLowered
  <2>2. from = [kind |-> "global", address |-> a]
        /\ lower(kind, a + n) = [kind |-> "global", address |-> a + n]
    BY <1>4, <2>1, GenericLowered
  <2> QED BY <2>2
<1>5. CASE kind = "generic" /\ from.kind # "global"
  <2>1. InAperture(a) /\ InAperture(a + n)
    BY <1>5, GenericLowered
  <2>2. /\ f = a % (LastSegment + 1) /\ lower(kind, a + n).address = (a + n) % (LastSegment + 1)
    BY <1>5, <2>1, GenericLowered
  <2>3. last_address(from.kind) = LastSegment
    BY <1>1, <1>5, LastAddresses
  <2> DEFINE N == LastSegment + 1
  <2>4. N \in Nat \ {0} /\ f + n < N
    <3>1. f + n <= LastSegment /\ f \in Nat
      BY <1>1, <2>3
    <3> HIDE DEF f
    <3> QED BY <3>1, Lasts
  <2>5. f = a % N
    BY <2>2
  <2> HIDE DEF N
  <2>6. (a + n) % N = f + n
    BY <1>2, <2>4, <2>5
  <2>7. lower(kind, a + n).address = f + n
    BY <2>2, <2>6 DEF N
  <2>8. lower(kind, a + n) = [kind |-> lower(kind, a + n).kind,
                              address |-> lower(kind, a + n).address]
    BY <1>5 DEF lower, generic_lower
  <2> QED BY <2>7, <2>8
<1> QED BY <1>3, <1>4, <1>5

(* An address of a space, and its generic one.                             *)
LEMMA LowerInGeneric ==
    ASSUME NEW kind \in {"global", "local", "private_swizzled"}, NEW a \in 0..last_address(kind),
           kind = "global" => ~InAperture(a)
    PROVE  /\ lower("generic", InGeneric(kind, a)) = [kind |-> kind, address |-> a]
           /\ InGeneric(kind, a) \in 0..LastGlobal
<1>1. CASE kind = "global"
  <2>1. InGeneric(kind, a) = a /\ a \in 0..LastGlobal
    BY <1>1, LastAddresses DEF InGeneric
  <2> QED BY <1>1, <2>1, GenericLowered
<1>2. CASE kind = "local"
  <2>1. InGeneric(kind, a) = 1 * ApertureSize + a /\ a \in 0..LastSegment
    BY <1>2, LastAddresses DEF InGeneric, LoweredKinds
  <2>2. 1 * ApertureSize + a \in 1..LastGlobal
    BY <2>1, ApertureOffset
  <2>3. InGeneric(kind, a) \in 0..LastGlobal
    <3> DEFINE g == 1 * ApertureSize + a
    <3> HIDE DEF g
    <3>1. g \in 1..LastGlobal /\ InGeneric(kind, a) = g
      BY <2>1, <2>2 DEF g
    <3> QED BY <3>1, Lasts
  <2> QED BY <1>2, <2>1, <2>3, GenericLowered
<1>3. CASE kind = "private_swizzled"
  <2>1. InGeneric(kind, a) = 2 * ApertureSize + a /\ a \in 0..LastSegment
    BY <1>3, LastAddresses DEF InGeneric, LoweredKinds
  <2>2. 2 * ApertureSize + a \in 1..LastGlobal
    BY <2>1, ApertureOffset
  <2>3. InGeneric(kind, a) \in 0..LastGlobal
    <3> DEFINE g == 2 * ApertureSize + a
    <3> HIDE DEF g
    <3>1. g \in 1..LastGlobal /\ InGeneric(kind, a) = g
      BY <2>1, <2>2 DEF g
    <3> QED BY <3>1, Lasts
  <2> QED BY <1>3, <2>1, <2>3, GenericLowered
<1> QED BY <1>1, <1>2, <1>3

(* The conversions that do not go through scratch memory.  An address that *)
(* is lowered already is not a generic one.                                *)
LEMMA ConvertLowered ==
    ASSUME NEW w, NEW lane, NEW kind \in LoweredKinds, NEW f \in 0..last_address(kind)
    PROVE  LET from == [kind |-> kind, address |-> f]
           IN /\ convert("global", w, lane, kind, f) = global_convert(w, lane, from, FALSE)
              /\ convert("local", w, lane, kind, f) = local_convert(w, lane, from, FALSE)
              /\ convert("private_swizzled", w, lane, kind, f) = swizzled_convert(w, lane, from, FALSE)
              /\ convert("private_unswizzled", w, lane, kind, f)
                   = unswizzled_convert(w, lane, from, FALSE)
              /\ convert("generic", w, lane, kind, f) = generic_convert(w, lane, from, FALSE)
<1>1. lower(kind, f) = [kind |-> kind, address |-> f]
  BY LowerSelf
<1>2. (kind = "generic") = FALSE
  BY DEF LoweredKinds
<1> DEFINE from == lower(kind, f)
           gen == kind = "generic"
<1>3. /\ convert("global", w, lane, kind, f) = global_convert(w, lane, from, gen)
      /\ convert("local", w, lane, kind, f) = local_convert(w, lane, from, gen)
      /\ convert("private_swizzled", w, lane, kind, f) = swizzled_convert(w, lane, from, gen)
      /\ convert("private_unswizzled", w, lane, kind, f) = unswizzled_convert(w, lane, from, gen)
      /\ convert("generic", w, lane, kind, f) = generic_convert(w, lane, from, gen)
  BY DEF convert
<1> HIDE DEF gen, from
<1>4. gen = FALSE /\ from = [kind |-> kind, address |-> f]
  BY <1>1, <1>2 DEF gen, from
<1> QED BY <1>3, <1>4

LEMMA ConvertSame ==
    ASSUME NEW w, NEW lane, NEW kind \in LoweredKinds, NEW f \in 0..last_address(kind),
           f # null_address(kind)
    PROVE  convert(kind, w, lane, kind, f) = To(f, last_address(kind) - f + 1)
<1> DEFINE from == [kind |-> kind, address |-> f]
<1>1. from.kind = kind /\ from.address = f
  OBVIOUS
<1>2. ASSUME NEW kinds PROVE ~NullOf(from, FALSE, kinds)
  BY <1>1 DEF NullOf
<1>3. CASE kind = "global"
  <2>1. convert(kind, w, lane, kind, f) = global_convert(w, lane, from, FALSE)
    BY <1>3, ConvertLowered
  <2> HIDE DEF from
  <2>2. global_convert(w, lane, from, FALSE) = To(f, LastGlobal - f + 1)
    BY <1>1, <1>2, <1>3, Zenon DEF global_convert
  <2> QED BY <1>3, <2>1, <2>2, LastAddresses
<1>4. CASE kind = "local"
  <2>1. convert(kind, w, lane, kind, f) = local_convert(w, lane, from, FALSE)
    BY <1>4, ConvertLowered
  <2> HIDE DEF from
  <2>2. local_convert(w, lane, from, FALSE) = To(f, LastSegment - f + 1)
    BY <1>1, <1>2, <1>4, Zenon DEF local_convert
  <2> QED BY <1>4, <2>1, <2>2, LastAddresses
<1>5. CASE kind = "private_swizzled"
  <2>1. convert(kind, w, lane, kind, f) = swizzled_convert(w, lane, from, FALSE)
    BY <1>5, ConvertLowered
  <2> HIDE DEF from
  <2>2. swizzled_convert(w, lane, from, FALSE) = To(f, LastSegment - f + 1)
    BY <1>1, <1>2, <1>5, Zenon DEF swizzled_convert
  <2> QED BY <1>5, <2>1, <2>2, LastAddresses
<1>6. CASE kind = "private_unswizzled"
  <2>1. convert(kind, w, lane, kind, f) = unswizzled_convert(w, lane, from, FALSE)
    BY <1>6, ConvertLowered
  <2> HIDE DEF from
  <2>2. unswizzled_convert(w, lane, from, FALSE) = To(f, LastSegment - f + 1)
    BY <1>1, <1>2, <1>6, Zenon DEF unswizzled_convert
  <2> QED BY <1>6, <2>1, <2>2, LastAddresses
<1> QED BY <1>3, <1>4, <1>5, <1>6 DEF LoweredKinds

LEMMA ConvertToGeneric ==
    ASSUME NEW w, NEW lane, NEW kind \in LoweredKinds, NEW f \in 0..last_address(kind)
    PROVE  LET c == convert("generic", w, lane, kind, f)
           IN /\ kind = "private_unswizzled" => c = Invalid
              /\ (kind # "private_unswizzled" /\ f # null_address(kind)) =>
                   c = To(InGeneric(kind, f), last_address(kind) - f + 1)
              /\ (kind = "global" /\ f = 0) => c = To(0, 0)
<1> DEFINE from == [kind |-> kind, address |-> f]
           c == convert("generic", w, lane, kind, f)
           g == generic_address_for_address_space(from)
<1>1. from.kind = kind /\ from.address = f
  OBVIOUS
<1>2. c = generic_convert(w, lane, from, FALSE)
  BY ConvertLowered
<1> HIDE DEF from, c
<1>3. CASE kind = "private_unswizzled"
  <2>1. c = Invalid
    BY <1>1, <1>2, <1>3 DEF generic_convert
  <2> QED BY <1>3, <2>1 DEF c
<1>4. CASE kind # "private_unswizzled"
  <2>1. c = IF g = 0 THEN To(0, 0) ELSE To(g, last_address(kind) - f + 1)
    BY <1>1, <1>2, <1>4 DEF generic_convert
  <2>2. f # null_address(kind) => g = InGeneric(kind, f) /\ g # 0
    <3> SUFFICES ASSUME f # null_address(kind) PROVE g = InGeneric(kind, f) /\ g # 0
      OBVIOUS
    <3>1. CASE kind = "global"
      <4>1. g = f
        BY <1>1, <3>1, Zenon DEF generic_address_for_address_space
      <4>2. f # 0 /\ InGeneric(kind, f) = f
        BY <3>1, LastAddresses DEF InGeneric
      <4> QED BY <4>1, <4>2
    <3>2. CASE kind = "local"
      <4>1. ApertureOf("local") = {Apertures[1]}
        BY ApertureFacts DEF ApertureOf
      <4>2. (CHOOSE a \in ApertureOf("local") : TRUE) = Apertures[1]
        BY <4>1
      <4>3. g = (CHOOSE a \in ApertureOf("local") : TRUE).base * ApertureSize + f
        <5>1. from.kind # "global" /\ from.kind = "local" /\ from.address = f
              /\ from.address # null_address(from.kind)
          BY <1>1, <3>2
        <5> QED BY <5>1, Zenon DEF generic_address_for_address_space
      <4>4. Apertures[1].base = 1
        BY ApertureFacts
      <4>5. g = 1 * ApertureSize + f
        BY <4>2, <4>3, <4>4
      <4>6. 1 * ApertureSize + f \in 1..LastGlobal
        BY <3>2, LastAddresses, ApertureOffset DEF LoweredKinds
      <4>7. InGeneric(kind, f) = 1 * ApertureSize + f
        BY <3>2 DEF InGeneric
      <4> DEFINE h == 1 * ApertureSize + f
      <4>8. g = h /\ InGeneric(kind, f) = h /\ h \in 1..LastGlobal
        BY <4>5, <4>6, <4>7
      <4> HIDE DEF g, h
      <4> QED BY <4>8, Lasts
    <3>3. CASE kind = "private_swizzled"
      <4>1. ApertureOf("private_swizzled") = {Apertures[2]}
        BY ApertureFacts DEF ApertureOf
      <4>2. (CHOOSE a \in ApertureOf("private_swizzled") : TRUE) = Apertures[2]
        BY <4>1
      <4>3. g = (CHOOSE a \in ApertureOf("private_swizzled") : TRUE).base * ApertureSize + f
        <5>1. from.kind # "global" /\ from.kind = "private_swizzled" /\ from.address = f
              /\ from.address # null_address(from.kind)
          BY <1>1, <3>3
        <5> QED BY <5>1, Zenon DEF generic_address_for_address_space
      <4>4. Apertures[2].base = 2
        BY ApertureFacts
      <4>5. g = 2 * ApertureSize + f
        BY <4>2, <4>3, <4>4
      <4>6. 2 * ApertureSize + f \in 1..LastGlobal
        BY <3>3, LastAddresses, ApertureOffset DEF LoweredKinds
      <4>7. InGeneric(kind, f) = 2 * ApertureSize + f
        BY <3>3 DEF InGeneric
      <4> DEFINE h == 2 * ApertureSize + f
      <4>8. g = h /\ InGeneric(kind, f) = h /\ h \in 1..LastGlobal
        BY <4>5, <4>6, <4>7
      <4> HIDE DEF g, h
      <4> QED BY <4>8, Lasts
    <3> QED BY <1>4, <3>1, <3>2, <3>3 DEF LoweredKinds
  <2>3. (kind = "global" /\ f = 0) => g = 0
    <3> SUFFICES ASSUME kind = "global", f = 0 PROVE g = 0
      OBVIOUS
    <3>1. from.address = null_address(from.kind)
      BY <1>1, LastAddresses
    <3> QED BY <3>1, Zenon DEF generic_address_for_address_space
  <2> HIDE DEF g
  <2> QED BY <1>4, <2>1, <2>2, <2>3 DEF c
<1> QED BY <1>3, <1>4

(* Local memory is converted to nothing but itself and generic addresses.  *)
LEMMA ConvertApart ==
    ASSUME NEW w, NEW lane, NEW kind \in LoweredKinds, NEW f \in 0..last_address(kind),
           NEW to \in LoweredKinds, to # kind, to = "local" \/ kind = "local"
    PROVE  convert(to, w, lane, kind, f) = Invalid
<1> DEFINE from == [kind |-> kind, address |-> f]
<1>1. from.kind = kind /\ from.address = f
  OBVIOUS
<1>2. CASE to = "local"
  <2>1. convert(to, w, lane, kind, f) = local_convert(w, lane, from, FALSE)
    BY <1>2, ConvertLowered
  <2> HIDE DEF from
  <2>2. ~NullOf(from, FALSE, {"local"}) /\ from.kind # "local"
    BY <1>1, <1>2 DEF NullOf
  <2>3. local_convert(w, lane, from, FALSE) = Invalid
    BY <2>2, Zenon DEF local_convert
  <2> QED BY <2>1, <2>3
<1>3. CASE to = "global" /\ kind = "local"
  <2>1. convert(to, w, lane, kind, f) = global_convert(w, lane, from, FALSE)
    BY <1>3, ConvertLowered
  <2> HIDE DEF from
  <2>2. ~NullOf(from, FALSE, {"global", "private_unswizzled", "private_swizzled"})
        /\ from.kind # "global" /\ from.kind # "private_unswizzled"
        /\ from.kind # "private_swizzled"
    BY <1>1, <1>3 DEF NullOf
  <2>3. global_convert(w, lane, from, FALSE) = Invalid
    BY <2>2, Zenon DEF global_convert
  <2> QED BY <2>1, <2>3
<1>4. CASE to = "private_swizzled" /\ kind = "local"
  <2>1. convert(to, w, lane, kind, f) = swizzled_convert(w, lane, from, FALSE)
    BY <1>4, ConvertLowered
  <2> HIDE DEF from
  <2>2. ~NullOf(from, FALSE, {"private_swizzled", "private_unswizzled"})
        /\ from.kind # "private_swizzled" /\ from.kind \notin {"global", "private_unswizzled"}
    BY <1>1, <1>4 DEF NullOf
  <2>3. swizzled_convert(w, lane, from, FALSE) = Invalid
    BY <2>2, Zenon DEF swizzled_convert
  <2> QED BY <2>1, <2>3
<1>5. CASE to = "private_unswizzled" /\ kind = "local"
  <2>1. convert(to, w, lane, kind, f) = unswizzled_convert(w, lane, from, FALSE)
    BY <1>5, ConvertLowered
  <2> HIDE DEF from
  <2>2. ~NullOf(from, FALSE, {"private_swizzled", "private_unswizzled"})
        /\ from.kind # "private_swizzled" /\ from.kind # "global"
        /\ from.kind # "private_unswizzled"
    BY <1>1, <1>5 DEF NullOf
  <2>3. unswizzled_convert(w, lane, from, FALSE) = Invalid
    BY <2>2, Zenon DEF unswizzled_convert
  <2> QED BY <2>1, <2>3
<1> QED BY <1>2, <1>3, <1>4, <1>5 DEF LoweredKinds

-----------------------------------------------------------------------------
(* The conversions that go through scratch memory.                         *)

ScratchKinds == {"global", "private_unswizzled", "private_swizzled"}
WaveRecords == [lanes : Nat \ {0}, base : Nat, size : Nat]

(* Scratch memory is global memory outside the apertures.                  *)
ScratchPlaced(w) ==
    /\ ScratchFits(w)
    /\ w.base + w.size <= LastGlobal + 1
    /\ \A b \in w.base..(w.base + w.size - 1) : ~InAperture(b)

(* The offset in scratch memory of an address, the address of an offset,   *)
(* whether an offset is one of a lane's and how many follow it.            *)
OffsetOf(w, lane, kind, f) ==
    CASE kind = "global" -> f - w.base
      [] kind = "private_unswizzled" -> f
      [] kind = "private_swizzled" -> Swizzle(w, lane, f)
AddressOf(w, kind, o) ==
    CASE kind = "global" -> w.base + o
      [] kind = "private_unswizzled" -> o
      [] kind = "private_swizzled" -> Unswizzle(w, o)
InLane(w, lane, o) ==
    lane \in 0..(w.lanes - 1) /\ lane = (o \div InterleaveSize) % w.lanes
Follow(w, kinds, o) ==
    IF "private_swizzled" \in kinds THEN InterleaveSize - (o % InterleaveSize) ELSE w.size - o

LEMMA QuotientTwice ==
    ASSUME NEW o \in Nat, NEW n \in Nat \ {0}, NEW I \in Nat \ {0}
    PROVE  o \div (n * I) = (o \div I) \div n /\ n * I \in Nat \ {0}
<1> DEFINE q == o \div I
           r == o % I
           p == q \div n
           l == q % n
           M == n * I
<1>1. q \in Nat /\ r \in 0..(I - 1) /\ o = q * I + r
  BY Division
<1>2. p \in Nat /\ l \in 0..(n - 1) /\ q = p * n + l
  <2> HIDE DEF q
  <2> QED BY <1>1, Division
<1>3. M \in Nat \ {0}
  OBVIOUS
<1> HIDE DEF q, r, p, l
<1>4. l * I + r \in 0..(M - 1)
  <2>1. l \in Nat /\ l < n
    BY <1>2
  <2>2. l * I \in Nat /\ l * I + I <= n * I
    BY <2>1, Multiples
  <2> DEFINE low == l * I
  <2> HIDE DEF M, low
  <2>3. low \in Nat /\ low + I <= M
    BY <2>2 DEF low, M
  <2>4. low + r \in 0..(M - 1)
    BY <1>1, <1>3, <2>3
  <2> QED BY <2>4 DEF low
<1>5. o = p * M + (l * I + r)
  BY <1>1, <1>2
<1> DEFINE s == l * I + r
<1> HIDE DEF M, s
<1>6. (p * M + s) \div M = p
  BY <1>2, <1>3, <1>4, Remainder DEF s
<1>7. o \div M = p
  BY <1>5, <1>6 DEF s
<1> QED BY <1>3, <1>7 DEF p, q, M

(* Swizzle and Unswizzle undo each other.                                  *)
LEMMA UnswizzledPlace ==
    ASSUME NEW w \in WaveRecords, NEW o \in Nat
    PROVE  LET u == Unswizzle(w, o)
               lane == (o \div InterleaveSize) % w.lanes
           IN /\ u \in 0..o /\ lane \in 0..(w.lanes - 1)
              /\ Swizzle(w, lane, u) = o
              /\ u = ((o \div InterleaveSize) \div w.lanes) * InterleaveSize + (o % InterleaveSize)
<1> DEFINE I == InterleaveSize
           n == w.lanes
           q == o \div I
           r == o % I
           p == q \div n
           l == q % n
           u == Unswizzle(w, o)
<1>1. I \in Nat \ {0} /\ n \in Nat \ {0}
  BY Lasts DEF WaveRecords
<1>2. q \in Nat /\ r \in 0..(I - 1) /\ o = q * I + r
  BY <1>1, Division
<1>3. p \in Nat /\ l \in 0..(n - 1) /\ q = p * n + l
  <2> HIDE DEF q, n
  <2> QED BY <1>1, <1>2, Division
<1>4. o \div (n * I) = p
  <2> HIDE DEF n, I
  <2> QED BY <1>1, QuotientTwice
<1>5. u = (o \div (n * I)) * I + r
  BY DEF Unswizzle
<1>6. u = p * I + r
  <2> HIDE DEF n, I, p, r, u
  <2> QED BY <1>4, <1>5
<1>7. Swizzle(w, l, u) = (u \div I) * n * I + l * I + (u % I)
  BY DEF Swizzle
<1> HIDE DEF I, n, q, r, p, l, u
<1>8. u \div I = p /\ u % I = r
  BY <1>1, <1>2, <1>3, <1>6, Remainder
<1>9. Swizzle(w, l, u) = o
  <2>1. p * n * I + l * I + r = (p * n + l) * I + r
    BY <1>1, <1>2, <1>3
  <2> QED BY <1>2, <1>3, <1>7, <1>8, <2>1
<1>10. u \in 0..o
  <2>1. p <= q
    <3>1. (n - 1) * p \in Nat /\ p * n = p + (n - 1) * p
      BY <1>1, <1>3
    <3> DEFINE more == (n - 1) * p
               all == p * n
    <3> HIDE DEF more, all
    <3>2. more \in Nat /\ all = p + more /\ q = all + l
      BY <1>3, <3>1 DEF more, all
    <3> QED BY <1>1, <1>3, <3>2
  <2>2. p * I \in Nat /\ q * I \in Nat /\ p * I <= q * I
    BY <1>1, <1>2, <1>3, <2>1, Multiples
  <2> DEFINE low == p * I
             high == q * I
  <2> HIDE DEF low, high
  <2>3. low \in Nat /\ high \in Nat /\ low <= high /\ u = low + r /\ o = high + r
    BY <1>2, <1>6, <2>2 DEF low, high
  <2> QED BY <1>1, <1>2, <2>3
<1> QED BY <1>3, <1>6, <1>9, <1>10 DEF I, n, q, r, p, l, u

LEMMA SwizzledBack ==
    ASSUME NEW w \in WaveRecords, NEW lane \in 0..(w.lanes - 1), NEW f \in Nat
    PROVE  LET o == Swizzle(w, lane, f)
           IN o \in Nat /\ f <= o /\ InLane(w, lane, o) /\ Unswizzle(w, o) = f
<1> DEFINE I == InterleaveSize
           n == w.lanes
           q == f \div I
           r == f % I
           row == q * n + lane
           o == Swizzle(w, lane, f)
<1>1. I \in Nat \ {0} /\ n \in Nat \ {0}
  BY Lasts DEF WaveRecords
<1>2. q \in Nat /\ r \in 0..(I - 1) /\ f = q * I + r
  BY <1>1, Division
<1>3. o \in Nat /\ f <= o /\ o \div I = row /\ o % I = r /\ row \in Nat
  BY <1>1, SwizzledPlace
<1>4. row \div n = q /\ row % n = lane
  <2>1. lane \in 0..(n - 1)
    OBVIOUS
  <2> HIDE DEF n, q
  <2> QED BY <1>1, <1>2, <2>1, Remainder
<1>5. Unswizzle(w, o) = ((o \div I) \div n) * I + (o % I)
  <2> HIDE DEF o
  <2> QED BY <1>3, UnswizzledPlace
<1> HIDE DEF q, r, row, o
<1>6. Unswizzle(w, o) = f
  BY <1>2, <1>3, <1>4, <1>5
<1>7. InLane(w, lane, o)
  BY <1>3, <1>4 DEF InLane
<1> QED BY <1>3, <1>6, <1>7 DEF o

(* The address of an offset is one of its space, and has that offset.      *)
LEMMA OffsetAddress ==
    ASSUME NEW w \in WaveRecords, ScratchPlaced(w), NEW lane, NEW kind \in ScratchKinds,
           NEW o \in 0..(w.size - 1), kind = "private_swizzled" => InLane(w, lane, o)
    PROVE  LET a == AddressOf(w, kind, o)
           IN /\ a \in 0..last_address(kind)
              /\ OffsetOf(w, lane, kind, a) = o
              /\ kind # "global" => a # LastSegment
              /\ kind = "global" => ~InAperture(a)
<1>1. w.base \in Nat /\ w.size \in Nat /\ w.size <= LastSegment /\ LastSegment \in Nat
      /\ w.base + w.size <= LastGlobal + 1 /\ LastGlobal \in Nat /\ o \in Nat
  BY Lasts DEF WaveRecords, ScratchPlaced, ScratchFits
<1>2. CASE kind = "global"
  <2>1. AddressOf(w, kind, o) = w.base + o
    BY <1>2 DEF AddressOf
  <2>2. /\ w.base + o \in 0..LastGlobal /\ (w.base + o) - w.base = o
        /\ w.base + o \in w.base..(w.base + w.size - 1)
    BY <1>1
  <2>3. OffsetOf(w, lane, kind, w.base + o) = (w.base + o) - w.base
    BY <1>2 DEF OffsetOf
  <2>4. ~InAperture(w.base + o)
    BY <2>2 DEF ScratchPlaced
  <2> QED BY <1>2, <2>1, <2>2, <2>3, <2>4, LastAddresses
<1>3. CASE kind = "private_unswizzled"
  <2>1. AddressOf(w, kind, o) = o /\ OffsetOf(w, lane, kind, o) = o
    BY <1>3 DEF AddressOf, OffsetOf
  <2>2. o \in 0..LastSegment /\ o # LastSegment
    BY <1>1
  <2>3. last_address(kind) = LastSegment
    BY <1>3, LastAddresses DEF LoweredKinds
  <2> QED BY <1>3, <2>1, <2>2, <2>3
<1>4. CASE kind = "private_swizzled"
  <2> DEFINE u == Unswizzle(w, o)
  <2>1. AddressOf(w, kind, o) = u
    BY <1>4 DEF AddressOf
  <2>2. lane = (o \div InterleaveSize) % w.lanes
    BY <1>4 DEF InLane
  <2>3. u \in 0..o /\ Swizzle(w, lane, u) = o
    BY <1>1, <2>2, UnswizzledPlace
  <2> HIDE DEF u
  <2>4. OffsetOf(w, lane, kind, u) = o
    BY <1>4, <2>3 DEF OffsetOf
  <2>5. u \in 0..LastSegment /\ u # LastSegment
    BY <1>1, <2>3
  <2>6. last_address(kind) = LastSegment
    BY <1>4, LastAddresses DEF LoweredKinds
  <2> QED BY <1>4, <2>1, <2>4, <2>5, <2>6
<1> QED BY <1>2, <1>3, <1>4 DEF ScratchKinds

(* The offset of an address has that address.                              *)
LEMMA AddressOffset ==
    ASSUME NEW w \in WaveRecords, NEW lane, NEW kind \in ScratchKinds, NEW f \in Nat,
           kind = "private_swizzled" => lane \in 0..(w.lanes - 1)
    PROVE  LET o == OffsetOf(w, lane, kind, f)
           IN /\ o \in Int /\ AddressOf(w, kind, o) = f
              /\ kind = "private_swizzled" => InLane(w, lane, o)
              /\ kind # "global" => f <= o
<1>1. w.base \in Nat
  BY DEF WaveRecords
<1>2. CASE kind = "global"
  <2>1. OffsetOf(w, lane, kind, f) = f - w.base /\ AddressOf(w, kind, f - w.base) = w.base + (f - w.base)
    BY <1>2 DEF AddressOf, OffsetOf
  <2>2. w.base + (f - w.base) = f /\ f - w.base \in Int
    BY <1>1
  <2> QED BY <1>2, <2>1, <2>2
<1>3. CASE kind = "private_unswizzled"
  BY <1>3 DEF AddressOf, OffsetOf
<1>4. CASE kind = "private_swizzled"
  <2> DEFINE o == Swizzle(w, lane, f)
  <2>1. o \in Nat /\ f <= o /\ InLane(w, lane, o) /\ Unswizzle(w, o) = f
    BY <1>4, SwizzledBack
  <2>2. OffsetOf(w, lane, kind, f) = o
    BY <1>4 DEF OffsetOf
  <2> HIDE DEF o
  <2>3. AddressOf(w, kind, o) = Unswizzle(w, o)
    BY <1>4 DEF AddressOf
  <2> QED BY <1>4, <2>1, <2>2, <2>3
<1> QED BY <1>2, <1>3, <1>4 DEF ScratchKinds

(* The offsets that follow one, up to the end of its interleave or of      *)
(* scratch memory, are those of the addresses that follow its address.     *)
LEMMA OffsetsFollow ==
    ASSUME NEW w \in WaveRecords, ScratchPlaced(w), NEW lane, NEW kinds,
           NEW o \in 0..(w.size - 1), "private_swizzled" \in kinds => InLane(w, lane, o),
           NEW n \in 0..(Follow(w, kinds, o) - 1)
    PROVE  /\ n \in Nat /\ o + n \in 0..(w.size - 1)
           /\ "private_swizzled" \in kinds => InLane(w, lane, o + n)
           /\ \A kind \in ScratchKinds \cap kinds : AddressOf(w, kind, o + n) = AddressOf(w, kind, o) + n
           /\ Follow(w, kinds, o) \in Nat \ {0}
           /\ Follow(w, kinds, o + n) = Follow(w, kinds, o) - n
<1> DEFINE I == InterleaveSize
           q == o \div I
           r == o % I
<1>1. w.base \in Nat /\ w.size \in Nat /\ o \in Nat /\ I \in Nat \ {0} /\ w.lanes \in Nat \ {0}
      /\ w.size % I = 0
  BY Lasts DEF WaveRecords, ScratchPlaced, ScratchFits
<1>2. ASSUME "private_swizzled" \notin kinds
      PROVE  /\ n \in Nat /\ o + n \in 0..(w.size - 1)
             /\ Follow(w, kinds, o) \in Nat \ {0}
             /\ Follow(w, kinds, o + n) = Follow(w, kinds, o) - n
  <2>1. Follow(w, kinds, o) = w.size - o /\ Follow(w, kinds, o + n) = w.size - (o + n)
    BY <1>2 DEF Follow
  <2> QED BY <1>1, <2>1
<1>3. ASSUME "private_swizzled" \in kinds
      PROVE  /\ n \in Nat /\ o + n \in 0..(w.size - 1)
             /\ Follow(w, kinds, o) \in Nat \ {0}
             /\ Follow(w, kinds, o + n) = Follow(w, kinds, o) - n
             /\ InLane(w, lane, o + n)
             /\ Unswizzle(w, o + n) = Unswizzle(w, o) + n
  <2> DEFINE z == w.size \div I
             s == w.size
  <2>1. Follow(w, kinds, o) = I - (o % I) /\ Follow(w, kinds, o + n) = I - ((o + n) % I)
    BY <1>3 DEF Follow
  <2>2. q \in Nat /\ r \in 0..(I - 1) /\ o = q * I + r /\ q * I \in Nat
    BY <1>1, Division, Multiples
  <2>3. z \in Nat /\ s = z * I + (s % I)
    BY <1>1, Division
  <2>4. lane \in 0..(w.lanes - 1) /\ lane = q % w.lanes
    BY <1>3 DEF InLane
  <2>5. s = z * I
    <3> HIDE DEF z, I
    <3> QED BY <1>1, <2>3
  <2>6. Follow(w, kinds, o) = I - r
    BY <2>1
  <2> HIDE DEF I, q, r, z
  <2>7. n \in Nat /\ r + n \in 0..(I - 1) /\ I - r \in Nat \ {0}
    BY <1>1, <2>2, <2>6
  <2>8. o + n = q * I + (r + n)
    <3> DEFINE low == q * I
    <3>1. low \in Nat /\ o = low + r
      BY <2>2 DEF low
    <3> HIDE DEF low
    <3>2. o + n = low + (r + n)
      BY <1>1, <2>2, <2>7, <3>1
    <3> QED BY <3>2 DEF low
  <2>9. (q * I + (r + n)) \div I = q /\ (q * I + (r + n)) % I = r + n
    BY <1>1, <2>2, <2>7, Remainder
  <2>10. (o + n) \div I = q /\ (o + n) % I = r + n
    BY <2>8, <2>9
  <2>11. o + n < s /\ o + n \in Nat
    <3>0. o < s /\ s \in Nat
      BY <1>1
    <3>1. q < z
      <4>1. z <= q => z * I <= q * I
        BY <1>1, <2>2, <2>3, Multiples
      <4> DEFINE low == q * I
                 high == z * I
      <4>2. low \in Nat /\ o = low + r /\ o < high /\ (z <= q => high <= low) /\ high = s
        BY <2>2, <2>5, <3>0, <4>1
      <4> HIDE DEF low, high
      <4> QED BY <1>1, <2>2, <2>3, <4>2
    <3>2. q * I + I <= z * I
      BY <1>1, <2>2, <2>3, <3>1, Multiples
    <3> DEFINE low == q * I
               high == z * I
    <3>3. low \in Nat /\ o + n = low + (r + n) /\ low + I <= high /\ high = s
      BY <2>2, <2>5, <2>8, <3>2
    <3> HIDE DEF low, high, s
    <3>4. o + n < high /\ o + n \in Nat
      BY <1>1, <2>7, <3>0, <3>3
    <3> QED BY <3>3, <3>4
  <2>12. InLane(w, lane, o + n)
    BY <2>4, <2>10 DEF InLane, I
  <2>13. Unswizzle(w, o + n) = Unswizzle(w, o) + n
    <3> DEFINE b == o + n
               p == q \div w.lanes
    <3>1. Unswizzle(w, o) = ((o \div I) \div w.lanes) * I + (o % I)
      BY <1>1, UnswizzledPlace DEF I
    <3> HIDE DEF b
    <3>2. Unswizzle(w, b) = ((b \div I) \div w.lanes) * I + (b % I)
      BY <2>11, UnswizzledPlace DEF I, b
    <3>3. b \div I = q /\ b % I = r + n
      BY <2>10 DEF b
    <3>4. o \div I = q /\ o % I = r
      BY DEF q, r
    <3>5. p * I \in Nat
      <4>1. p \in Nat
        BY <1>1, <2>2, Division
      <4> HIDE DEF p
      <4> QED BY <1>1, <4>1, Multiples
    <3> DEFINE low == p * I
    <3>6. Unswizzle(w, o) = low + r /\ Unswizzle(w, b) = low + (r + n) /\ low \in Nat
      BY <3>1, <3>2, <3>3, <3>4, <3>5
    <3> HIDE DEF low
    <3>7. Unswizzle(w, b) = Unswizzle(w, o) + n
      BY <1>1, <2>2, <2>7, <3>6
    <3> QED BY <3>7 DEF b
  <2>14. Follow(w, kinds, o + n) = Follow(w, kinds, o) - n
    BY <1>1, <2>1, <2>2, <2>6, <2>7, <2>10 DEF I
  <2> HIDE DEF s
  <2>15. o + n \in 0..(s - 1)
    BY <1>1, <2>11 DEF s
  <2> QED BY <2>6, <2>7, <2>12, <2>13, <2>14, <2>15 DEF s
<1>4. ASSUME NEW kind \in ScratchKinds \cap kinds
      PROVE  AddressOf(w, kind, o + n) = AddressOf(w, kind, o) + n
  <2>1. n \in Nat
    BY <1>2, <1>3
  <2>2. CASE kind = "global"
    <3>1. AddressOf(w, kind, o + n) = w.base + (o + n) /\ AddressOf(w, kind, o) = w.base + o
      BY <2>2 DEF AddressOf
    <3> QED BY <1>1, <2>1, <3>1
  <2>3. CASE kind = "private_unswizzled"
    BY <2>3 DEF AddressOf
  <2>4. CASE kind = "private_swizzled"
    <3>1. AddressOf(w, kind, o + n) = Unswizzle(w, o + n) /\ AddressOf(w, kind, o) = Unswizzle(w, o)
      BY <2>4 DEF AddressOf
    <3> QED BY <1>3, <2>4, <3>1
  <2> QED BY <2>2, <2>3, <2>4 DEF ScratchKinds
<1> QED BY <1>2, <1>3, <1>4

(* A conversion between two spaces that scratch memory is part of.         *)
LEMMA Through ==
    ASSUME NEW w \in WaveRecords, ScratchPlaced(w), NEW lane \in LaneIds,
           NEW kind \in ScratchKinds, NEW to \in ScratchKinds, to # kind,
           NEW f \in 0..last_address(kind), kind # "global" => f # LastSegment
    PROVE  LET c == convert(to, w, lane, kind, f)
               o == OffsetOf(w, lane, kind, f)
               there == /\ o \in 0..(w.size - 1)
                        /\ "private_swizzled" \in {kind, to} => InLane(w, lane, o)
           IN /\ c.error = "none" <=> there
              /\ there => c = To(AddressOf(w, to, o), Follow(w, {kind, to}, o))
<1> DEFINE c == convert(to, w, lane, kind, f)
           o == OffsetOf(w, lane, kind, f)
           from == [kind |-> kind, address |-> f]
           there == /\ o \in 0..(w.size - 1)
                    /\ "private_swizzled" \in {kind, to} => InLane(w, lane, o)
           bad == lane = NoLane \/ lane >= w.lanes
           I == InterleaveSize
<1>1. /\ w.base \in Nat /\ w.size \in Nat /\ w.lanes \in Nat \ {0} /\ I \in Nat \ {0}
      /\ LastSegment \in Nat /\ f \in Nat
  BY Lasts, LastAddresses DEF WaveRecords, LoweredKinds, ScratchKinds
<1>2. kind \in LoweredKinds /\ to \in LoweredKinds
  BY DEF ScratchKinds, LoweredKinds
<1>3. bad <=> ~(lane \in 0..(w.lanes - 1))
  BY <1>1 DEF LaneIds, NoLane
<1>4. from.kind = kind /\ from.address = f
  OBVIOUS
<1>5. ASSUME NEW kinds, "global" \notin kinds PROVE ~NullOf(from, FALSE, kinds)
  <2>1. kind # "global" => f # null_address(kind)
    BY <1>2, LastAddresses
  <2> HIDE DEF from
  <2> QED BY <1>4, <1>5, <2>1 DEF NullOf
<1>6. Invalid.error # "none" /\ Error("invalid_lane").error # "none"
      /\ \A a, b : To(a, b).error = "none" /\ To(a, b).address = a /\ To(a, b).bytes = b
  BY DEF Invalid, Error, To
<1>7. CASE kind = "private_swizzled"
  <2>1. o = Swizzle(w, lane, f)
    BY <1>7 DEF OffsetOf
  <2>2. ~bad => o \in Nat /\ InLane(w, lane, o)
    <3> HIDE DEF bad
    <3>1. ~bad => lane \in 0..(w.lanes - 1)
      BY <1>3
    <3> QED BY <1>1, <2>1, <3>1, SwizzledBack
  <2>3. bad => ~InLane(w, lane, o)
    BY <1>3 DEF InLane
  <2>4. f \in 0..LastSegment /\ f # LastSegment
    BY <1>2, <1>7, LastAddresses
  <2> DEFINE g == convert("global", w, lane, kind, f)
  <2>5. g = IF bad THEN Error("invalid_lane") ELSE IF o >= w.size THEN Invalid
            ELSE To(w.base + o, I - (o % I))
    <3>1. g = IF lane = NoLane \/ lane >= w.lanes THEN Error("invalid_lane")
              ELSE IF Swizzle(w, lane, f) >= w.size THEN Invalid
              ELSE To(w.base + Swizzle(w, lane, f), I - (Swizzle(w, lane, f) % I))
      BY <1>7, <2>4, PrivateToGlobal
    <3> QED BY <2>1, <3>1
  <2>6. there <=> (~bad /\ ~(o >= w.size))
    <3> HIDE DEF o, bad
    <3> QED BY <1>1, <1>7, <2>2, <2>3
  <2>7. CASE to = "global"
    <3>1. c = g
      BY <2>7
    <3>2. AddressOf(w, to, o) = w.base + o /\ Follow(w, {kind, to}, o) = I - (o % I)
      BY <1>7, <2>7 DEF AddressOf, Follow
    <3> HIDE DEF o, bad, c, g, there
    <3>3. /\ c.error = "none" <=> there
          /\ there => c = To(AddressOf(w, to, o), Follow(w, {kind, to}, o))
      BY <1>6, <2>5, <2>6, <3>1, <3>2
    <3> QED BY <3>3 DEF c, o, there
  <2>8. CASE to = "private_unswizzled"
    <3> DEFINE m == IF g.bytes < w.size - (g.address - w.base)
                    THEN g.bytes ELSE w.size - (g.address - w.base)
    <3>1. c = IF g.error # "none" THEN g ELSE To(g.address - w.base, m)
      <4>1. c = unswizzled_convert(w, lane, from, FALSE) /\ g = global_convert(w, lane, from, FALSE)
        BY <1>2, <2>8, ConvertLowered
      <4>2. ~NullOf(from, FALSE, {"private_swizzled", "private_unswizzled"})
        BY <1>5
      <4>3. from.kind # "private_unswizzled" /\ from.kind # "global"
            /\ from.kind = "private_swizzled"
        BY <1>4, <1>7
      <4> HIDE DEF from, c, g
      <4> QED BY <4>1, <4>2, <4>3, Zenon DEF unswizzled_convert
    <3>2. AddressOf(w, to, o) = o /\ Follow(w, {kind, to}, o) = I - (o % I)
      BY <1>7, <2>8 DEF AddressOf, Follow
    <3>3. there => To(g.address - w.base, m) = To(o, I - (o % I))
      <4> SUFFICES ASSUME there PROVE To(g.address - w.base, m) = To(o, I - (o % I))
        OBVIOUS
      <4> DEFINE b == I - (o % I)
      <4>1. g.address = w.base + o /\ g.bytes = b
        <5> HIDE DEF o, bad, g, there, b
        <5> QED BY <1>6, <2>5, <2>6 DEF b
      <4>2. o \in 0..(w.size - 1) /\ InLane(w, lane, o)
        BY <1>7
      <4>3. b \in Nat \ {0}
        <5> HIDE DEF o
        <5>1. o \in Nat /\ (o % I) \in 0..(I - 1)
          BY <1>1, <4>2, Division
        <5> DEFINE r == o % I
        <5> HIDE DEF r, I
        <5>2. I - r \in Nat \ {0}
          BY <1>1, <5>1 DEF r
        <5> QED BY <5>2 DEF r
      <4>4. b <= w.size - o
        <5> DEFINE k == b - 1
        <5>1. Follow(w, {kind, to}, o) = b
          BY <3>2
        <5> HIDE DEF o, b
        <5>2. k \in 0..(Follow(w, {kind, to}, o) - 1)
          BY <4>3, <5>1
        <5> HIDE DEF k
        <5>3. o + k \in 0..(w.size - 1)
          BY <1>7, <4>2, <5>2, OffsetsFollow
        <5> QED BY <1>1, <4>2, <4>3, <5>3 DEF k
      <4> HIDE DEF o, g, b, there
      <4>5. g.address - w.base = o /\ m = b
        BY <1>1, <4>1, <4>2, <4>3, <4>4
      <4> QED BY <4>5 DEF b
    <3> HIDE DEF o, bad, c, g, there, m
    <3>4. g.error = "none" <=> there
      BY <1>6, <2>5, <2>6
    <3>5. /\ c.error = "none" <=> there
          /\ there => c = To(AddressOf(w, to, o), Follow(w, {kind, to}, o))
      BY <1>6, <3>1, <3>2, <3>3, <3>4
    <3> QED BY <3>5 DEF c, o, there
  <2> QED BY <1>7, <2>7, <2>8 DEF ScratchKinds
<1>8. CASE kind # "private_swizzled"
  <2>1. /\ kind = "global" => o = f - w.base
        /\ kind = "private_unswizzled" => o = f
        /\ o \in Int
    <3>1. (kind = "global" => o = f - w.base) /\ (kind = "private_unswizzled" => o = f)
      BY DEF OffsetOf
    <3> HIDE DEF o
    <3> QED BY <1>1, <1>8, <3>1 DEF ScratchKinds
  <2>2. CASE to = "global"
    <3>1. kind = "private_unswizzled" /\ f \in 0..LastSegment /\ f # LastSegment /\ o = f
      BY <1>2, <1>8, <2>1, <2>2, LastAddresses DEF ScratchKinds
    <3>2. c = IF f >= w.size THEN Invalid ELSE To(w.base + f, w.size - f)
      BY <2>2, <3>1, PrivateToGlobal
    <3>3. AddressOf(w, to, o) = w.base + f /\ Follow(w, {kind, to}, o) = w.size - f
      BY <2>2, <3>1 DEF AddressOf, Follow
    <3>4. there <=> ~(f >= w.size)
      BY <1>1, <1>8, <2>2, <3>1
    <3> HIDE DEF o, c, there
    <3>5. /\ c.error = "none" <=> there
          /\ there => c = To(AddressOf(w, to, o), Follow(w, {kind, to}, o))
      BY <1>6, <3>2, <3>3, <3>4
    <3> QED BY <3>5 DEF c, o, there
  <2>3. CASE to = "private_unswizzled"
    <3>1. kind = "global" /\ o = f - w.base
      BY <1>8, <2>1, <2>3 DEF ScratchKinds
    <3>2. c = IF o < 0 \/ o >= w.size THEN Invalid ELSE To(o, w.size - o)
      <4>1. c = unswizzled_convert(w, lane, from, FALSE)
        BY <1>2, <2>3, ConvertLowered
      <4>2. ~NullOf(from, FALSE, {"private_swizzled", "private_unswizzled"})
        BY <1>5
      <4>3. from.kind # "private_unswizzled" /\ from.kind = "global" /\ from.address = f
            /\ from.kind # "private_swizzled"
        BY <1>4, <3>1
      <4> HIDE DEF from, c, o
      <4> QED BY <3>1, <4>1, <4>2, <4>3, Zenon DEF unswizzled_convert
    <3>3. AddressOf(w, to, o) = o /\ Follow(w, {kind, to}, o) = w.size - o
      BY <2>3, <3>1 DEF AddressOf, Follow
    <3>4. there <=> ~(o < 0 \/ o >= w.size)
      <4> HIDE DEF o
      <4> QED BY <1>1, <1>8, <2>1, <2>3
    <3> HIDE DEF o, c, there
    <3>5. /\ c.error = "none" <=> there
          /\ there => c = To(AddressOf(w, to, o), Follow(w, {kind, to}, o))
      BY <1>6, <3>2, <3>3, <3>4
    <3> QED BY <3>5 DEF c, o, there
  <2>4. CASE to = "private_swizzled"
    <3> DEFINE row == (o \div I) % w.lanes
    <3>1. /\ (o < 0 \/ o >= w.size) => c = Invalid
          /\ (o \in 0..(w.size - 1) /\ bad) => c = Error("invalid_lane")
          /\ (o \in 0..(w.size - 1) /\ ~bad) =>
               c = IF lane # row THEN Invalid ELSE To(Unswizzle(w, o), I - (o % I))
      <4>1. c = swizzled_convert(w, lane, from, FALSE)
        BY <1>2, <2>4, ConvertLowered
      <4>2. ~NullOf(from, FALSE, {"private_swizzled", "private_unswizzled"})
        BY <1>5
      <4>3. from.kind \in {"global", "private_unswizzled"} /\ from.kind # "private_swizzled"
        BY <1>4, <1>8 DEF ScratchKinds
      <4>4. (IF from.kind = "global" THEN from.address - w.base ELSE from.address) = o
        BY <1>4, <1>8, <2>1 DEF ScratchKinds
      <4>5. o \in 0..(w.size - 1) <=> ~(o < 0 \/ o >= w.size)
        <5> HIDE DEF o
        <5> QED BY <1>1, <2>1
      <4> DEFINE d == CASE o < 0 \/ o >= w.size -> Invalid
                        [] o \in 0..(w.size - 1) /\ (lane = NoLane \/ lane >= w.lanes) ->
                             Error("invalid_lane")
                        [] OTHER ->
                             IF lane # (o \div I) % w.lanes THEN Invalid
                             ELSE To(Unswizzle(w, o), I - (o % I))
      <4> HIDE DEF from, c, o
      <4>6. c = d
        BY <4>1, <4>2, <4>3, <4>4, Zenon DEF swizzled_convert
      <4>7. CASE o < 0 \/ o >= w.size
        <5>1. d = Invalid
          BY <4>5, <4>7, Zenon
        <5> QED BY <4>5, <4>6, <4>7, <5>1
      <4>8. CASE o \in 0..(w.size - 1) /\ bad
        <5>1. d = Error("invalid_lane")
          BY <4>5, <4>8, Zenon
        <5> QED BY <4>5, <4>6, <4>8, <5>1
      <4>9. CASE o \in 0..(w.size - 1) /\ ~bad
        <5>1. d = IF lane # row THEN Invalid ELSE To(Unswizzle(w, o), I - (o % I))
          BY <4>5, <4>9, Zenon
        <5> QED BY <4>5, <4>6, <4>9, <5>1
      <4> QED BY <4>5, <4>7, <4>8, <4>9
    <3>2. AddressOf(w, to, o) = Unswizzle(w, o) /\ Follow(w, {kind, to}, o) = I - (o % I)
      BY <2>4 DEF AddressOf, Follow
    <3>3. there <=> (o \in 0..(w.size - 1) /\ ~bad /\ lane = row)
      BY <1>3, <2>4 DEF InLane
    <3>4. o \in 0..(w.size - 1) <=> ~(o < 0 \/ o >= w.size)
      <4> HIDE DEF o
      <4> QED BY <1>1, <2>1
    <3> HIDE DEF o, c, there, row, bad
    <3>5. /\ c.error = "none" <=> there
          /\ there => c = To(AddressOf(w, to, o), Follow(w, {kind, to}, o))
      BY <1>6, <3>1, <3>2, <3>3, <3>4
    <3> QED BY <3>5 DEF c, o, there
  <2> QED BY <2>2, <2>3, <2>4 DEF ScratchKinds
<1> QED BY <1>7, <1>8

(* Two addresses, of spaces that are not the generic one, of one byte.     *)
Twin(w, lane, kind, f, to, t) ==
    \/ to = kind /\ t = f
    \/ LET o == OffsetOf(w, lane, kind, f)
       IN /\ to # kind /\ kind \in ScratchKinds /\ to \in ScratchKinds
          /\ o \in 0..(w.size - 1)
          /\ "private_swizzled" \in {kind, to} => InLane(w, lane, o)
          /\ f = AddressOf(w, kind, o) /\ t = AddressOf(w, to, o)

(* The addresses after one that is converted, as many as are contiguous:   *)
(* each is converted to an address of the same byte.                       *)
LEMMA There ==
    ASSUME NEW w \in WaveRecords, ScratchPlaced(w), NEW lane \in LaneIds,
           NEW kind \in LoweredKinds, NEW f \in 0..last_address(kind), f # null_address(kind),
           NEW to \in Spaces, convert(to, w, lane, kind, f).error = "none"
    PROVE  LET c == convert(to, w, lane, kind, f)
           IN /\ c.bytes \in Nat \ {0}
              /\ \A n \in 0..(c.bytes - 1) :
                   LET d == convert(to, w, lane, kind, f + n)
                   IN /\ n \in Nat /\ f + n \in 0..last_address(kind)
                      /\ f + n # null_address(kind) => d.error = "none" /\ d.address = c.address + n
                      /\ to # "generic" => /\ c.address + n \in 0..last_address(to)
                                           /\ Twin(w, lane, kind, f + n, to, c.address + n)
                      /\ to = "generic" => /\ kind # "private_unswizzled"
                                           /\ c.address + n = InGeneric(kind, f + n)
<1> DEFINE c == convert(to, w, lane, kind, f)
           last == last_address(kind)
           d(n) == convert(to, w, lane, kind, f + n)
           Goal(n) ==
             /\ n \in Nat /\ f + n \in 0..last
             /\ f + n # null_address(kind) => d(n).error = "none" /\ d(n).address = c.address + n
             /\ to # "generic" => /\ c.address + n \in 0..last_address(to)
                                  /\ Twin(w, lane, kind, f + n, to, c.address + n)
             /\ to = "generic" => /\ kind # "private_unswizzled"
                                  /\ c.address + n = InGeneric(kind, f + n)
<1> SUFFICES c.bytes \in Nat \ {0} /\ \A n \in 0..(c.bytes - 1) : Goal(n)
  OBVIOUS
<1>1. last \in Nat /\ f \in Nat
  BY LastAddresses
<1>2. \A a, b : To(a, b).error = "none" /\ To(a, b).address = a /\ To(a, b).bytes = b
  BY DEF To
<1>3. Invalid.error # "none"
  BY DEF Invalid, Error
<1>4. CASE to = kind
  <2>1. c = To(f, last - f + 1)
    BY <1>4, ConvertSame
  <2>2. c.address = f /\ c.bytes = last - f + 1
    BY <1>2, <2>1
  <2>3. c.bytes \in Nat \ {0}
    <3> HIDE DEF c, last
    <3> QED BY <1>1, <2>2 DEF last
  <2>4. ASSUME NEW n \in 0..(c.bytes - 1) PROVE Goal(n)
    <3>1. n \in Nat /\ f + n \in 0..last
      <4> HIDE DEF c, last
      <4> QED BY <1>1, <2>2, <2>3
    <3>2. f + n # null_address(kind) => d(n).error = "none" /\ d(n).address = f + n
      <4> DEFINE a == f + n
      <4> HIDE DEF a
      <4>1. a # null_address(kind) => convert(kind, w, lane, kind, a) = To(a, last_address(kind) - a + 1)
        BY <3>1, ConvertSame DEF a
      <4> QED BY <1>2, <1>4, <4>1 DEF a
    <3>3. to # "generic"
      BY <1>4 DEF LoweredKinds
    <3> HIDE DEF c, d
    <3> QED BY <1>4, <2>2, <3>1, <3>2, <3>3 DEF Twin
  <2> HIDE DEF Goal
  <2> QED BY <2>3, <2>4
<1>5. CASE to = "generic"
  <2>1. kind # "private_unswizzled" /\ c = To(InGeneric(kind, f), last - f + 1)
    BY <1>3, <1>5, ConvertToGeneric
  <2>2. c.address = InGeneric(kind, f) /\ c.bytes = last - f + 1
    BY <1>2, <2>1
  <2>3. c.bytes \in Nat \ {0}
    <3> HIDE DEF c, last
    <3> QED BY <1>1, <2>2 DEF last
  <2>4. ASSUME NEW n \in 0..(c.bytes - 1) PROVE Goal(n)
    <3>1. n \in Nat /\ f + n \in 0..last
      <4> HIDE DEF c, last
      <4> QED BY <1>1, <2>2, <2>3
    <3>2. InGeneric(kind, f + n) = InGeneric(kind, f) + n
      <4>1. ApertureSize \in Nat
        BY Lasts
      <4> HIDE DEF last, c
      <4> QED BY <1>1, <2>1, <3>1, <4>1 DEF InGeneric, LoweredKinds
    <3>3. f + n # null_address(kind) => d(n).error = "none" /\ d(n).address = InGeneric(kind, f + n)
      <4> DEFINE a == f + n
      <4> HIDE DEF a
      <4>1. a # null_address(kind) =>
              convert("generic", w, lane, kind, a) = To(InGeneric(kind, a), last_address(kind) - a + 1)
        BY <2>1, <3>1, ConvertToGeneric DEF a
      <4> QED BY <1>2, <1>5, <4>1 DEF a
    <3> HIDE DEF c, d
    <3> QED BY <1>5, <2>1, <2>2, <3>1, <3>2, <3>3
  <2> HIDE DEF Goal
  <2> QED BY <2>3, <2>4
<1>6. CASE to # kind /\ to # "generic"
  <2>1. to \in LoweredKinds
    BY <1>6 DEF Spaces, LoweredKinds
  <2>2. to # "local" /\ kind # "local"
    BY <1>3, <1>6, <2>1, ConvertApart
  <2>3. to \in ScratchKinds /\ kind \in ScratchKinds
    BY <2>1, <2>2 DEF ScratchKinds, LoweredKinds
  <2>4. kind # "global" => f # LastSegment
    BY LastAddresses
  <2> DEFINE o == OffsetOf(w, lane, kind, f)
             kinds == {kind, to}
  <2>5. /\ o \in 0..(w.size - 1)
        /\ "private_swizzled" \in {kind, to} => InLane(w, lane, o)
        /\ c = To(AddressOf(w, to, o), Follow(w, {kind, to}, o))
    BY <1>6, <2>3, <2>4, Through
  <2>6. c.address = AddressOf(w, to, o) /\ c.bytes = Follow(w, kinds, o)
    <3> HIDE DEF o, c
    <3> QED BY <1>2, <2>5
  <2>7. AddressOf(w, kind, o) = f
    <3>1. kind = "private_swizzled" => lane \in 0..(w.lanes - 1)
      BY <2>5 DEF InLane
    <3> QED BY <1>1, <2>3, <3>1, AddressOffset
  <2>8. "private_swizzled" \in kinds => InLane(w, lane, o)
    BY <2>5
  <2>9. to \in kinds /\ kind \in kinds
    OBVIOUS
  <2> HIDE DEF o, kinds, c
  <2>10. w.size \in Nat
    BY DEF WaveRecords
  <2>11. c.bytes \in Nat \ {0}
    <3>1. c.bytes \in Nat \ {0}
      <4>1. CASE "private_swizzled" \in kinds
        <5>1. o \in Nat /\ InterleaveSize \in Nat \ {0}
          BY <2>5, <2>10, Lasts
        <5>2. (o % InterleaveSize) \in 0..(InterleaveSize - 1)
          BY <5>1, Division
        <5> DEFINE r == o % InterleaveSize
        <5> HIDE DEF r
        <5>3. InterleaveSize - r \in Nat \ {0}
          BY <5>1, <5>2 DEF r
        <5> QED BY <2>6, <4>1, <5>3 DEF Follow, r
      <4>2. CASE "private_swizzled" \notin kinds
        <5>1. c.bytes = w.size - o
          BY <2>6, <4>2 DEF Follow
        <5> QED BY <2>5, <2>10, <5>1
      <4> QED BY <4>1, <4>2
    <3> QED BY <3>1
  <2>12. ASSUME NEW n \in 0..(c.bytes - 1) PROVE Goal(n)
    <3> DEFINE p == o + n
               a == f + n
               t == c.address + n
    <3>1. n \in 0..(Follow(w, kinds, o) - 1)
      BY <2>6
    <3>2. /\ n \in Nat /\ p \in 0..(w.size - 1)
          /\ "private_swizzled" \in kinds => InLane(w, lane, p)
          /\ \A k \in ScratchKinds \cap kinds : AddressOf(w, k, p) = AddressOf(w, k, o) + n
      BY <2>5, <2>8, <3>1, OffsetsFollow
    <3>3. AddressOf(w, kind, p) = a /\ AddressOf(w, to, p) = t
      <4> HIDE DEF p
      <4> QED BY <2>3, <2>6, <2>7, <2>9, <3>2
    <3> HIDE DEF p, a, t
    <3>4. /\ kind = "private_swizzled" => InLane(w, lane, p)
          /\ to = "private_swizzled" => InLane(w, lane, p)
      BY <2>9, <3>2
    <3>5. /\ a \in 0..last_address(kind) /\ OffsetOf(w, lane, kind, a) = p
          /\ kind # "global" => a # LastSegment
      BY <2>3, <3>2, <3>3, <3>4, OffsetAddress
    <3>6. t \in 0..last_address(to)
      BY <2>3, <3>2, <3>3, <3>4, OffsetAddress
    <3>7. "private_swizzled" \in {kind, to} => InLane(w, lane, p)
      BY <3>4
    <3>8. Twin(w, lane, kind, a, to, t)
      BY <1>6, <2>3, <3>2, <3>3, <3>5, <3>7 DEF Twin
    <3>9. convert(to, w, lane, kind, a) = To(AddressOf(w, to, p), Follow(w, {kind, to}, p))
      BY <1>6, <2>3, <3>2, <3>5, <3>7, Through
    <3>10. convert(to, w, lane, kind, a).error = "none" /\ convert(to, w, lane, kind, a).address = t
      BY <1>2, <3>3, <3>9
    <3> QED BY <1>6, <3>2, <3>5, <3>6, <3>8, <3>10 DEF a, t
  <2> HIDE DEF Goal
  <2> QED BY <2>11, <2>12
<1> QED BY <1>4, <1>5, <1>6

(* The global address of a byte of scratch memory.                         *)
LEMMA GlobalOf ==
    ASSUME NEW w \in WaveRecords, ScratchPlaced(w), NEW lane \in LaneIds,
           NEW kind \in ScratchKinds, NEW o \in 0..(w.size - 1),
           kind = "private_swizzled" => InLane(w, lane, o)
    PROVE  convert("global", w, lane, kind, AddressOf(w, kind, o)).address = w.base + o
<1> DEFINE f == AddressOf(w, kind, o)
           c == convert("global", w, lane, kind, f)
<1>1. /\ f \in 0..last_address(kind) /\ OffsetOf(w, lane, kind, f) = o
      /\ kind # "global" => f # LastSegment
  BY OffsetAddress
<1>2. \A a, b : To(a, b).address = a
  BY DEF To
<1>3. AddressOf(w, "global", o) = w.base + o
  BY DEF AddressOf
<1>4. kind \in LoweredKinds
  BY DEF ScratchKinds, LoweredKinds
<1> HIDE DEF f
<1>5. CASE kind = "global" /\ f # 0
  <2>1. c = To(f, last_address(kind) - f + 1)
    BY <1>1, <1>4, <1>5, ConvertSame, LastAddresses
  <2> QED BY <1>2, <1>3, <1>5, <2>1 DEF f
<1>6. CASE kind = "global" /\ f = 0
  <2> DEFINE from == [kind |-> kind, address |-> f]
  <2>1. c = global_convert(w, lane, from, FALSE)
    BY <1>1, <1>4, ConvertLowered
  <2>2. NullOf(from, FALSE, {"global", "private_unswizzled", "private_swizzled"})
    BY <1>6, LastAddresses DEF NullOf
  <2> HIDE DEF from
  <2>3. c = To(0, 0)
    BY <2>1, <2>2, Zenon DEF global_convert
  <2> QED BY <1>2, <1>3, <1>6, <2>3 DEF f
<1>7. CASE kind # "global"
  <2>1. "private_swizzled" \in {kind, "global"} => InLane(w, lane, o)
    OBVIOUS
  <2>2. "global" \in ScratchKinds
    BY DEF ScratchKinds
  <2>3. c = To(AddressOf(w, "global", o), Follow(w, {kind, "global"}, o))
    BY <1>1, <1>7, <2>1, <2>2, Through
  <2> HIDE DEF c
  <2>4. c.address = w.base + o
    BY <1>2, <1>3, <2>3
  <2> QED BY <2>4 DEF c, f
<1> QED BY <1>5, <1>6, <1>7

(* From an address of the same byte back to the first, or to the generic   *)
(* address of the byte.                                                    *)
LEMMA Back ==
    ASSUME NEW w \in WaveRecords, ScratchPlaced(w), NEW lane \in LaneIds,
           NEW kind \in LoweredKinds, NEW f \in 0..last_address(kind), f # null_address(kind),
           NEW to \in LoweredKinds, NEW t \in 0..last_address(to), Twin(w, lane, kind, f, to, t)
    PROVE  /\ convert(kind, w, lane, to, t).error = "none"
           /\ convert(kind, w, lane, to, t).address = f
           /\ to # "private_unswizzled" =>
                /\ convert("generic", w, lane, to, t).error = "none"
                /\ convert("generic", w, lane, to, t).address = InGeneric(to, t)
           /\ kind = "local" <=> to = "local"
           /\ convert("global", w, lane, to, t).address = convert("global", w, lane, kind, f).address
           /\ to # kind /\ to = "global" => ~InAperture(t)
<1>1. \A a, b : To(a, b).error = "none" /\ To(a, b).address = a
  BY DEF To
<1>2. CASE to = kind /\ t = f
  <2>1. convert(kind, w, lane, to, t) = To(f, last_address(kind) - f + 1)
    BY <1>2, ConvertSame
  <2>2. to # "private_unswizzled" =>
          convert("generic", w, lane, to, t) = To(InGeneric(to, t), last_address(to) - t + 1)
    BY <1>2, ConvertToGeneric
  <2> QED BY <1>1, <1>2, <2>1, <2>2
<1>3. CASE ~(to = kind /\ t = f)
  <2> DEFINE o == OffsetOf(w, lane, kind, f)
  <2>1. /\ to # kind /\ kind \in ScratchKinds /\ to \in ScratchKinds
        /\ o \in 0..(w.size - 1)
        /\ "private_swizzled" \in {kind, to} => InLane(w, lane, o)
        /\ f = AddressOf(w, kind, o) /\ t = AddressOf(w, to, o)
    BY <1>3 DEF Twin
  <2> HIDE DEF o
  <2>2. /\ kind = "private_swizzled" => InLane(w, lane, o)
        /\ to = "private_swizzled" => InLane(w, lane, o)
        /\ "private_swizzled" \in {to, kind} => InLane(w, lane, o)
    BY <2>1
  <2>3. /\ OffsetOf(w, lane, to, t) = o
        /\ to # "global" => t # LastSegment
        /\ to = "global" => ~InAperture(t)
    BY <2>1, <2>2, OffsetAddress
  <2>4. convert(kind, w, lane, to, t) = To(AddressOf(w, kind, o), Follow(w, {to, kind}, o))
    BY <2>1, <2>2, <2>3, Through
  <2>5. convert(kind, w, lane, to, t).error = "none" /\ convert(kind, w, lane, to, t).address = f
    BY <1>1, <2>1, <2>4
  <2>6. ASSUME to # "private_unswizzled"
        PROVE  /\ convert("generic", w, lane, to, t).error = "none"
               /\ convert("generic", w, lane, to, t).address = InGeneric(to, t)
    <3>1. CASE to = "global" /\ t = 0
      <4>1. convert("generic", w, lane, to, t) = To(0, 0)
        BY <3>1, ConvertToGeneric
      <4>2. InGeneric(to, t) = 0
        BY <3>1 DEF InGeneric
      <4> QED BY <1>1, <4>1, <4>2
    <3>2. CASE ~(to = "global" /\ t = 0)
      <4>1. t # null_address(to)
        BY <2>3, <3>2, LastAddresses
      <4>2. convert("generic", w, lane, to, t) = To(InGeneric(to, t), last_address(to) - t + 1)
        BY <2>6, <4>1, ConvertToGeneric
      <4> QED BY <1>1, <4>2
    <3> QED BY <3>1, <3>2
  <2>7. kind # "local" /\ to # "local"
    BY <2>1 DEF ScratchKinds
  <2>8. convert("global", w, lane, to, t).address = w.base + o
    BY <2>1, <2>2, GlobalOf
  <2>9. convert("global", w, lane, kind, f).address = w.base + o
    BY <2>1, <2>2, GlobalOf
  <2> QED BY <2>3, <2>5, <2>6, <2>7, <2>8, <2>9
<1> QED BY <1>2, <1>3

(* What the interface adds to convert.                                     *)
LEMMA Interface ==
    ASSUME NEW w, NEW lane, NEW to, NEW kind, NEW a
    PROVE  LET from == lower(kind, a)
               c == convert_address_space(to, w, lane, kind, a)
               both == from.kind = "global" /\ to = "global"
           IN /\ c.error = "none" => ~BadLane(w, lane) /\ (both \/ w # NoWave)
              /\ (~BadLane(w, lane) /\ both) => c = To(from.address, LastGlobal - from.address + 1)
              /\ (~BadLane(w, lane) /\ w # NoWave /\ ~both) =>
                   c = convert(to, w, lane, from.kind, from.address)
<1> DEFINE from == lower(kind, a)
           c == convert_address_space(to, w, lane, kind, a)
           bad == BadLane(w, lane)
           both == from.kind = "global" /\ to = "global"
<1>1. Error("invalid_lane").error # "none" /\ Error("invalid_wave").error # "none"
  BY DEF Error
<1>2. c = CASE bad -> Error("invalid_lane")
            [] ~bad /\ from.kind = "global" /\ to = "global" ->
                 To(from.address, LastGlobal - from.address + 1)
            [] ~bad /\ w = NoWave /\ ~(from.kind = "global" /\ to = "global") ->
                 Error("invalid_wave")
            [] OTHER -> convert(to, w, lane, from.kind, from.address)
  BY Zenon DEF convert_address_space
<1> HIDE DEF from, c, bad
<1>3. CASE bad
  <2>1. c = Error("invalid_lane")
    BY <1>2, <1>3, Zenon
  <2> QED BY <1>1, <1>3, <2>1 DEF bad, c, from
<1>4. CASE ~bad /\ both
  <2>1. c = To(from.address, LastGlobal - from.address + 1)
    BY <1>2, <1>4, Zenon
  <2> QED BY <1>4, <2>1 DEF bad, c, from
<1>5. CASE ~bad /\ ~both /\ w = NoWave
  <2>1. c = Error("invalid_wave")
    BY <1>2, <1>5, Zenon
  <2> QED BY <1>1, <1>5, <2>1 DEF bad, c, from
<1>6. CASE ~bad /\ ~both /\ w # NoWave
  <2>1. c = convert(to, w, lane, from.kind, from.address)
    BY <1>2, <1>6, Zenon
  <2> QED BY <1>6, <2>1 DEF bad, c, from
<1> QED BY <1>3, <1>4, <1>5, <1>6

(* For a wave, the interface converts an address that is not null as       *)
(* convert does.                                                           *)
LEMMA InterfaceConverts ==
    ASSUME NEW w, w # NoWave, NEW lane, ~BadLane(w, lane), NEW to, NEW kind, NEW a,
           NEW k \in LoweredKinds, NEW f \in 0..last_address(k),
           lower(kind, a) = [kind |-> k, address |-> f],
           (k = "global" /\ to = "global") => f # 0
    PROVE  convert_address_space(to, w, lane, kind, a) = convert(to, w, lane, k, f)
<1> DEFINE from == lower(kind, a)
           c == convert_address_space(to, w, lane, kind, a)
<1>1. from.kind = k /\ from.address = f
  OBVIOUS
<1>2. CASE k = "global" /\ to = "global"
  <2>1. c = To(from.address, LastGlobal - from.address + 1)
    BY <1>1, <1>2, Interface
  <2>2. convert(k, w, lane, k, f) = To(f, last_address(k) - f + 1)
    BY <1>2, ConvertSame, LastAddresses
  <2> QED BY <1>1, <1>2, <2>1, <2>2, LastAddresses
<1>3. CASE ~(k = "global" /\ to = "global")
  <2>1. c = convert(to, w, lane, from.kind, from.address)
    BY <1>1, <1>3, Interface
  <2> QED BY <1>1, <2>1
<1> QED BY <1>2, <1>3

(* An address is in one class at most.                                     *)
LEMMA OneClass ==
    ASSUME NEW w, w # NoWave, NEW lane, NEW kind \in Spaces, NEW a \in 0..LastGlobal
    PROVE  Cardinality({k \in {"global", "local", "private_swizzled"} :
                          class_state(w, lane, kind, a, k) = "member"})
             <= IF kind = "private_unswizzled" THEN 0 ELSE 1
<1> DEFINE three == {"global", "local", "private_swizzled"}
           members == {k \in three : class_state(w, lane, kind, a, k) = "member"}
           low == lower(kind, a).kind
<1>1. ASSUME NEW k \in three, class_state(w, lane, kind, a, k) = "member"
      PROVE  kind # "private_unswizzled" /\ low = k
  <2> DEFINE bad == BadLane(w, lane)
             st == class_state(w, lane, kind, a, k)
             dep == address_dependency(kind, a)
             in == address_is_in_address_class(kind, a, k)
  <2>1. st = CASE bad -> "invalid_lane"
               [] ~bad /\ kind = "global" ->
                    IF k \in {"global", "generic"} THEN "member" ELSE "not_member"
               [] kind # "global" /\ w = NoWave /\ lane = NoLane -> "invalid_wave"
               [] kind # "global" /\ w # NoWave /\ lane = NoLane /\ dep = "lane" -> "invalid_lane"
               [] OTHER -> IF in THEN "member" ELSE "not_member"
    BY Zenon DEF class_state
  <2>2. st = "member"
    BY <1>1
  <2> HIDE DEF bad, st, dep, in
  <2>3. CASE kind = "global"
    <3>1. ~bad
      <4>1. CASE bad
        <5>1. st = "invalid_lane"
          BY <2>1, <2>3, <4>1, Zenon
        <5> QED BY <2>2, <5>1
      <4> QED BY <4>1
    <3>2. st = IF k \in {"global", "generic"} THEN "member" ELSE "not_member"
      BY <2>1, <2>3, <3>1, Zenon
    <3>3. k = "global"
      BY <2>2, <3>2
    <3>4. low = "global"
      BY <2>3 DEF lower
    <3> QED BY <2>3, <3>3, <3>4
  <2>4. CASE kind # "global"
    <3>1. in
      <4>1. CASE bad
        <5>1. ~(lane = NoLane /\ dep = "lane") => st = "invalid_lane"
          BY <2>1, <2>4, <4>1, Zenon
        <5>2. (lane = NoLane /\ dep = "lane") => st = "invalid_lane"
          BY <2>1, <2>4, <4>1, Zenon
        <5> QED BY <2>2, <5>1, <5>2
      <4>2. CASE ~bad /\ lane = NoLane /\ dep = "lane"
        <5>1. st = "invalid_lane"
          BY <2>1, <2>4, <4>2, Zenon
        <5> QED BY <2>2, <5>1
      <4>3. CASE ~bad /\ ~(lane = NoLane /\ dep = "lane")
        <5>1. st = IF in THEN "member" ELSE "not_member"
          BY <2>1, <2>4, <4>3, Zenon
        <5> QED BY <2>2, <5>1
      <4> QED BY <4>1, <4>2, <4>3
    <3>2. kind # "private_unswizzled" /\ (k = "generic" \/ low = k)
      BY <3>1 DEF in, address_is_in_address_class
    <3> QED BY <3>2
  <2> QED BY <2>3, <2>4
<1>2. members \subseteq {low} /\ (kind = "private_unswizzled" => members = {})
  BY <1>1
<1>3. members = {} \/ members = {low}
  <2> HIDE DEF members
  <2> QED BY <1>2
<1> HIDE DEF members
<1>4. Cardinality({}) = 0 /\ Cardinality({low}) = 1
  BY FS_EmptySet, FS_Singleton
<1>5. CASE members = {}
  BY <1>4, <1>5 DEF members
<1>6. CASE members = {low} /\ kind # "private_unswizzled"
  BY <1>4, <1>6 DEF members
<1> QED BY <1>2, <1>3, <1>5, <1>6

(* No two lanes share a byte of scratch memory.                            *)
LEMMA LanesApart ==
    ASSUME NEW w \in WaveRecords, ScratchPlaced(w), NEW lane \in LaneIds, NEW f \in 0..LastSegment,
           f # LastSegment, convert("global", w, lane, "private_swizzled", f).error = "none",
           NEW l \in 0..(w.lanes - 1), NEW a \in 0..(LastSegment - 1),
           convert("global", w, l, "private_swizzled", a).error = "none",
           convert("global", w, l, "private_swizzled", a).address
             = convert("global", w, lane, "private_swizzled", f).address
    PROVE  l = lane /\ a = f
<1> DEFINE k == "private_swizzled"
           o == OffsetOf(w, lane, k, f)
           p == OffsetOf(w, l, k, a)
<1>1. k \in ScratchKinds /\ "global" \in ScratchKinds /\ last_address(k) = LastSegment /\ k # "global"
  BY LastAddresses DEF ScratchKinds, LoweredKinds
<1>2. l \in LaneIds /\ a \in 0..LastSegment /\ a # LastSegment /\ f \in Nat /\ a \in Nat
      /\ w.base \in Nat /\ w.lanes \in Nat
  BY Lasts DEF LaneIds, WaveRecords
<1>3. /\ o \in 0..(w.size - 1) /\ InLane(w, lane, o)
      /\ convert("global", w, lane, k, f) = To(AddressOf(w, "global", o), Follow(w, {k, "global"}, o))
  BY <1>1, Through
<1>4. /\ p \in 0..(w.size - 1) /\ InLane(w, l, p)
      /\ convert("global", w, l, k, a) = To(AddressOf(w, "global", p), Follow(w, {k, "global"}, p))
  BY <1>1, <1>2, Through
<1>5. AddressOf(w, k, o) = f /\ AddressOf(w, k, p) = a
  <2>1. lane \in 0..(w.lanes - 1)
    BY <1>3 DEF InLane
  <2> QED BY <1>1, <1>2, <2>1, AddressOffset
<1>6. /\ convert("global", w, lane, k, f).address = w.base + o
      /\ convert("global", w, l, k, a).address = w.base + p
  BY <1>3, <1>4 DEF To, AddressOf
<1> HIDE DEF o, p
<1>7. o = p
  <2>1. w.base + o = w.base + p
    BY <1>6
  <2>2. w.size \in Nat
    BY DEF WaveRecords
  <2> QED BY <1>2, <1>3, <1>4, <2>1, <2>2
<1>8. l = lane
  BY <1>3, <1>4, <1>7 DEF InLane
<1> QED BY <1>5, <1>7, <1>8

(* The byte of a lowered address.                                          *)
Byte(w, lane, kind, f) ==
    IF kind = "local" THEN <<"local", f>>
    ELSE <<"global", convert("global", w, lane, kind, f).address>>

LEMMA ByteLowered ==
    ASSUME NEW w, NEW lane, NEW kind, NEW a, NEW k, NEW f,
           lower(kind, a) = [kind |-> k, address |-> f]
    PROVE  ByteAt(w, lane, kind, a) = Byte(w, lane, k, f)
<1>1. lower(kind, a).kind = k /\ lower(kind, a).address = f
  OBVIOUS
<1> QED BY <1>1 DEF ByteAt, Byte

(* A conversion of the interface, and the ones of the bytes that follow.   *)
LEMMA Inverts ==
    ASSUME NEW w \in WaveRecords, ScratchPlaced(w), w # NoWave, NEW lane \in LaneIds,
           NEW to \in Spaces, NEW kind \in Spaces, NEW a \in 0..LastGlobal, Supported(kind, a),
           convert_address_space(to, w, lane, kind, a).error = "none"
    PROVE  LET c == convert_address_space(to, w, lane, kind, a)
           IN /\ c.bytes \in Nat \ {0}
              /\ \A n \in 0..(c.bytes - 1) :
                   LET there == convert_address_space(to, w, lane, kind, a + n)
                       back == convert_address_space(kind, w, lane, to, c.address + n)
                   IN (/\ Supported(kind, a + n)
                       /\ lower(kind, a + n).kind = lower(kind, a).kind) =>
                        /\ there.error = "none" /\ there.address = c.address + n
                        /\ ~(kind = "generic" /\ to = "private_unswizzled") =>
                             /\ back.error = "none"
                             /\ ByteAt(w, lane, kind, back.address) = ByteAt(w, lane, kind, a + n)
<1> DEFINE from == lower(kind, a)
           k == from.kind
           f == from.address
           c == convert_address_space(to, w, lane, kind, a)
<1>1. /\ from \in [kind : LoweredKinds, address : Nat] /\ f \in 0..last_address(k)
      /\ k \in LoweredKinds /\ a \in Nat
  BY Lowered, Lasts
<1>2. from = [kind |-> k, address |-> f] /\ f # null_address(k)
  BY <1>1 DEF Supported, IsNull
<1>3. ~BadLane(w, lane)
  BY Interface
<1>4. c = convert(to, w, lane, k, f)
  <2>1. k = "global" => f # 0
    BY <1>2, LastAddresses
  <2> HIDE DEF c, k, f, from
  <2>2. lower(kind, a) = [kind |-> k, address |-> f]
    BY <1>2 DEF from
  <2> QED BY <1>1, <1>3, <2>1, <2>2, InterfaceConverts DEF c
<1> HIDE DEF c, k, f, from
<1>5. convert(to, w, lane, k, f).error = "none"
  BY <1>4 DEF c
<1>6. /\ c.bytes \in Nat \ {0}
      /\ \A n \in 0..(c.bytes - 1) :
           LET d == convert(to, w, lane, k, f + n)
           IN /\ n \in Nat /\ f + n \in 0..last_address(k)
              /\ f + n # null_address(k) => d.error = "none" /\ d.address = c.address + n
              /\ to # "generic" => /\ c.address + n \in 0..last_address(to)
                                   /\ Twin(w, lane, k, f + n, to, c.address + n)
              /\ to = "generic" => /\ k # "private_unswizzled"
                                   /\ c.address + n = InGeneric(k, f + n)
  <2> HIDE DEF c
  <2> QED BY <1>1, <1>2, <1>4, <1>5, There
<1>7. ASSUME NEW n \in 0..(c.bytes - 1), Supported(kind, a + n),
             lower(kind, a + n).kind = lower(kind, a).kind
      PROVE  LET there == convert_address_space(to, w, lane, kind, a + n)
                 back == convert_address_space(kind, w, lane, to, c.address + n)
             IN /\ there.error = "none" /\ there.address = c.address + n
                /\ ~(kind = "generic" /\ to = "private_unswizzled") =>
                     /\ back.error = "none"
                     /\ ByteAt(w, lane, kind, back.address) = ByteAt(w, lane, kind, a + n)
  <2> DEFINE g == f + n
             e == c.address + n
             b == a + n
             there == convert_address_space(to, w, lane, kind, b)
             back == convert_address_space(kind, w, lane, to, e)
  <2>1. /\ n \in Nat /\ g \in 0..last_address(k)
        /\ g # null_address(k) => /\ convert(to, w, lane, k, g).error = "none"
                                  /\ convert(to, w, lane, k, g).address = e
        /\ to # "generic" => e \in 0..last_address(to) /\ Twin(w, lane, k, g, to, e)
        /\ to = "generic" => k # "private_unswizzled" /\ e = InGeneric(k, g)
    BY <1>6
  <2>2. lower(kind, b) = [kind |-> k, address |-> g]
    <3>1. lower(kind, a).address + n <= last_address(lower(kind, a).kind)
      <4>1. last_address(k) \in Nat
        BY <1>1, LastAddresses
      <4>2. f + n <= last_address(k)
        BY <2>1
      <4> QED BY <4>2 DEF f, k, from
    <3>2. lower(kind, a + n) = [kind |-> lower(kind, a).kind, address |-> lower(kind, a).address + n]
      BY <1>7, <2>1, <3>1, LowerNear
    <3> QED BY <3>2 DEF f, k, from
  <2>3. g # null_address(k)
    <3>1. ~IsNull(kind, b)
      BY <1>7 DEF Supported
    <3> HIDE DEF b, g
    <3> QED BY <2>2, <3>1 DEF IsNull
  <2>4. k = "global" => g # 0 /\ ~InAperture(g)
    <3> SUFFICES ASSUME k = "global" PROVE g # 0 /\ ~InAperture(g)
      OBVIOUS
    <3>1. g # 0
      BY <2>3, LastAddresses
    <3>2. kind = "global" \/ kind = "generic"
      BY DEF k, from, lower
    <3>3. CASE kind = "global"
      <4>1. a \in 0..last_address("global") /\ "global" \in LoweredKinds
        BY LastAddresses DEF LoweredKinds
      <4>2. lower("global", a) = [kind |-> "global", address |-> a]
        BY <4>1, LowerSelf
      <4>3. f = a
        BY <3>3, <4>2 DEF f, from
      <4>4. ~InAperture(b)
        BY <1>7, <3>3 DEF Supported
      <4> QED BY <3>1, <4>3, <4>4
    <3>4. CASE kind = "generic"
      <4>1. ~InAperture(a) /\ ~InAperture(b)
        <5> HIDE DEF b
        <5>1. lower("generic", a).kind = "global"
          BY <3>4 DEF k, from
        <5>2. lower("generic", b).kind = "global"
          BY <2>2, <3>4
        <5> QED BY <5>1, <5>2, GenericLowered
      <4>2. f = a
        BY <3>4, <4>1, GenericLowered DEF f, from
      <4> QED BY <3>1, <4>1, <4>2
    <3> QED BY <3>2, <3>3, <3>4
  <2> HIDE DEF g, e, b
  <2>5. there = convert(to, w, lane, k, g)
    BY <1>1, <1>3, <2>1, <2>2, <2>4, InterfaceConverts
  <2>6. there.error = "none" /\ there.address = e
    BY <2>1, <2>3, <2>5
  <2> DEFINE T == IF to = "generic" THEN k ELSE to
             t == IF to = "generic" THEN g ELSE e
  <2>7. /\ T \in LoweredKinds /\ t \in 0..last_address(T) /\ Twin(w, lane, k, g, T, t)
        /\ lower(to, e) = [kind |-> T, address |-> t]
    <3>1. CASE to # "generic"
      <4>1. to \in LoweredKinds
        BY <3>1 DEF Spaces, LoweredKinds
      <4> QED BY <2>1, <3>1, <4>1, LowerSelf
    <3>2. CASE to = "generic"
      <4>1. k \in {"global", "local", "private_swizzled"}
        BY <1>1, <2>1, <3>2 DEF LoweredKinds
      <4>2. lower(to, e) = [kind |-> k, address |-> g]
        BY <2>1, <2>4, <3>2, <4>1, LowerInGeneric
      <4>3. Twin(w, lane, k, g, k, g)
        BY DEF Twin
      <4> QED BY <1>1, <2>1, <3>2, <4>2, <4>3
    <3> QED BY <3>1, <3>2
  <2>8. to = "private_unswizzled" <=> T = "private_unswizzled"
    BY <2>1
  <2> HIDE DEF T, t, there, back
  <2>9. /\ convert(k, w, lane, T, t).error = "none"
        /\ convert(k, w, lane, T, t).address = g
        /\ T # "private_unswizzled" =>
             /\ convert("generic", w, lane, T, t).error = "none"
             /\ convert("generic", w, lane, T, t).address = InGeneric(T, t)
        /\ k = "local" <=> T = "local"
        /\ convert("global", w, lane, T, t).address = convert("global", w, lane, k, g).address
        /\ T # k /\ T = "global" => ~InAperture(t)
    BY <1>1, <2>1, <2>3, <2>7, Back
  <2>10. T = k => t = g
    BY <2>7 DEF Twin
  <2>11. ByteAt(w, lane, kind, b) = Byte(w, lane, k, g)
    BY <2>2, ByteLowered
  <2>12. ASSUME kind # "generic"
         PROVE  back.error = "none" /\ ByteAt(w, lane, kind, back.address) = Byte(w, lane, k, g)
    <3>1. kind = k
      BY <2>12 DEF k, from, lower
    <3>2. back = convert(kind, w, lane, T, t)
      <4>1. (T = "global" /\ kind = "global") => t # 0
        BY <2>4, <2>10, <3>1
      <4> QED BY <1>3, <2>7, <4>1, InterfaceConverts DEF back
    <3>3. back.error = "none" /\ back.address = g
      BY <2>9, <3>1, <3>2
    <3>4. lower(kind, g) = [kind |-> k, address |-> g]
      BY <1>1, <2>1, <3>1, LowerSelf
    <3>5. ByteAt(w, lane, kind, g) = Byte(w, lane, k, g)
      BY <3>4, ByteLowered
    <3> QED BY <3>3, <3>5
  <2>13. ASSUME kind = "generic", to # "private_unswizzled"
         PROVE  back.error = "none" /\ ByteAt(w, lane, kind, back.address) = Byte(w, lane, k, g)
    <3>1. back = convert(kind, w, lane, T, t)
      <4>1. ~(T = "global" /\ kind = "global")
        BY <2>13
      <4> QED BY <1>3, <2>7, <4>1, InterfaceConverts DEF back
    <3>2. back.error = "none" /\ back.address = InGeneric(T, t)
      BY <2>8, <2>9, <2>13, <3>1
    <3>3. T \in {"global", "local", "private_swizzled"}
      BY <2>7, <2>8, <2>13 DEF LoweredKinds
    <3>4. T = "global" => ~InAperture(t)
      BY <2>4, <2>9, <2>10
    <3>5. lower("generic", InGeneric(T, t)) = [kind |-> T, address |-> t]
      BY <2>7, <3>3, <3>4, LowerInGeneric
    <3>6. ByteAt(w, lane, kind, back.address) = Byte(w, lane, T, t)
      BY <2>13, <3>2, <3>5, ByteLowered
    <3>7. Byte(w, lane, T, t) = Byte(w, lane, k, g)
      BY <2>9, <2>10 DEF Byte
    <3> QED BY <3>2, <3>6, <3>7
  <2> QED BY <2>6, <2>11, <2>12, <2>13 DEF there, back, b, e
<1> QED BY <1>6, <1>7 DEF c

(* The scratch memory of the waves whose addresses are converted.          *)
ScratchesPlaced ==
    \A c \in Cases : c.tag = "convert" => c.wave = NoWave \/ ScratchPlaced(c.wave)

(* The conversions of an input, at the level of the interface.             *)
LEMMA ConversionInverts ==
    ASSUME NEW x \in ConvertInputs, x.wave = NoWave \/ ScratchPlaced(x.wave),
           Supported(x.kind, x.address),
           convert_address_space(x.to, x.wave, x.lane, x.kind, x.address + 0).error = "none"
    PROVE  LET w == x.wave
               there(n) == convert_address_space(x.to, w, x.lane, x.kind, x.address + n)
               c == there(0)
               back(n) == convert_address_space(x.kind, w, x.lane, x.to, c.address + n)
               near == {n \in 0..(c.bytes - 1) :
                          /\ n <= 2 * InterleaveSize
                          /\ Supported(x.kind, x.address + n)
                          /\ lower(x.kind, x.address + n).kind = lower(x.kind, x.address).kind}
           IN /\ c.bytes > 0
              /\ \A n \in near :
                   /\ there(n).error = "none" /\ there(n).address = c.address + n
                   /\ (w # NoWave /\ ~(x.kind = "generic" /\ x.to = "private_unswizzled"))
                        => /\ back(n).error = "none"
                           /\ ByteAt(w, x.lane, x.kind, back(n).address)
                                = ByteAt(w, x.lane, x.kind, x.address + n)
              /\ w # NoWave =>
                   Cardinality({k \in {"global", "local", "private_swizzled"} :
                       class_state(w, x.lane, x.kind, x.address, k) = "member"})
                   <= IF x.kind = "private_unswizzled" THEN 0 ELSE 1
              /\ (lower(x.kind, x.address).kind = "private_swizzled" /\ x.to = "global") =>
                   \A lane \in 0..(w.lanes - 1), a \in 0..(LastSegment - 1) :
                     LET other == convert("global", w, lane, "private_swizzled", a) IN
                     (other.error = "none" /\ other.address = c.address) =>
                       lane = x.lane /\ a = lower(x.kind, x.address).address
<1> DEFINE w == x.wave
           lane0 == x.lane
           kind == x.kind
           to == x.to
           addr == x.address
           there(n) == convert_address_space(to, w, lane0, kind, addr + n)
           c == there(0)
           d == convert_address_space(to, w, lane0, kind, addr)
           back(n) == convert_address_space(kind, w, lane0, to, c.address + n)
           from == lower(kind, addr)
           Near(n) == /\ n \in 0..(c.bytes - 1)
                      /\ Supported(kind, addr + n) /\ lower(kind, addr + n).kind = from.kind
<1>1. /\ kind \in Spaces /\ to \in Spaces /\ addr \in 0..LastGlobal /\ lane0 \in LaneIds
      /\ w \in WaveRecords \/ w = NoWave
  BY DEF ConvertInputs, ScratchWaves, WaveRecords
<1>2. addr + 0 = addr /\ addr \in Nat
  BY <1>1, Lasts
<1>3. c = d /\ c.error = "none"
  <2>1. c.error = "none"
    OBVIOUS
  <2> QED BY <1>2, <2>1
<1>4. /\ from \in [kind : LoweredKinds, address : Nat]
      /\ from.address \in 0..last_address(from.kind) /\ from.address # null_address(from.kind)
  BY <1>1, Lowered DEF Supported, IsNull
<1>5. ~BadLane(w, lane0) /\ ((from.kind = "global" /\ to = "global") \/ w # NoWave)
  <2>1. d.error = "none"
    BY <1>3
  <2> QED BY <2>1, Interface
<1> DEFINE Part1 == c.bytes > 0
           Part2 == \A n : Near(n) =>
                      /\ there(n).error = "none" /\ there(n).address = c.address + n
                      /\ (w # NoWave /\ ~(kind = "generic" /\ to = "private_unswizzled"))
                           => /\ back(n).error = "none"
                              /\ ByteAt(w, lane0, kind, back(n).address)
                                   = ByteAt(w, lane0, kind, addr + n)
           Part3 == w # NoWave =>
                      Cardinality({k \in {"global", "local", "private_swizzled"} :
                          class_state(w, lane0, kind, addr, k) = "member"})
                      <= IF kind = "private_unswizzled" THEN 0 ELSE 1
           Part4 == (from.kind = "private_swizzled" /\ to = "global") =>
                      \A lane \in 0..(w.lanes - 1), a \in 0..(LastSegment - 1) :
                        LET other == convert("global", w, lane, "private_swizzled", a) IN
                        (other.error = "none" /\ other.address = c.address) =>
                          lane = lane0 /\ a = from.address
<1>6. Part1 /\ Part2
  <2>1. CASE w # NoWave
    <3>1. w \in WaveRecords /\ ScratchPlaced(w)
      BY <1>1, <2>1
    <3> HIDE DEF w, kind, to, lane0, addr
    <3>2. Supported(kind, addr) /\ d.error = "none"
      BY <1>3 DEF kind, addr
    <3>3. /\ d.bytes \in Nat \ {0}
          /\ \A n \in 0..(d.bytes - 1) :
               LET th == convert_address_space(to, w, lane0, kind, addr + n)
                   ba == convert_address_space(kind, w, lane0, to, d.address + n)
               IN (/\ Supported(kind, addr + n)
                   /\ lower(kind, addr + n).kind = lower(kind, addr).kind) =>
                    /\ th.error = "none" /\ th.address = d.address + n
                    /\ ~(kind = "generic" /\ to = "private_unswizzled") =>
                         /\ ba.error = "none"
                         /\ ByteAt(w, lane0, kind, ba.address) = ByteAt(w, lane0, kind, addr + n)
      BY <1>1, <2>1, <3>1, <3>2, Inverts
    <3> HIDE DEF c, d
    <3>4. Part1
      BY <1>3, <3>3
    <3>5. Part2
      BY <1>3, <3>3
    <3> QED BY <3>4, <3>5
  <2>2. CASE w = NoWave
    <3>1. from.kind = "global" /\ to = "global"
      BY <1>5, <2>2
    <3>2. d = To(from.address, LastGlobal - from.address + 1)
      BY <1>5, <3>1, Interface
    <3>3. d.bytes = LastGlobal - from.address + 1 /\ d.address = from.address
      BY <3>2 DEF To
    <3>4. from.address \in 0..LastGlobal /\ LastGlobal \in Nat /\ last_address("global") = LastGlobal
      BY <1>4, <3>1, Lasts, LastAddresses
    <3> HIDE DEF w, kind, to, lane0, addr, from, c, d
    <3>5. c.bytes > 0
      BY <1>3, <3>3, <3>4
    <3>6. ASSUME NEW n, Near(n) PROVE there(n).error = "none" /\ there(n).address = c.address + n
      <4>1. n \in Nat /\ from.address + n \in 0..LastGlobal /\ from.address + n <= LastGlobal
        BY <1>3, <3>3, <3>4, <3>6
      <4>2. lower(kind, addr + n) = [kind |-> "global", address |-> from.address + n]
        <5>1. lower(kind, addr).address + n <= last_address(lower(kind, addr).kind)
          BY <3>1, <3>4, <4>1 DEF from
        <5>2. lower(kind, addr + n).kind = lower(kind, addr).kind
          BY <3>6 DEF from
        <5>3. lower(kind, addr + n) = [kind |-> lower(kind, addr).kind,
                                       address |-> lower(kind, addr).address + n]
          BY <1>1, <4>1, <5>1, <5>2, LowerNear
        <5> QED BY <3>1, <5>3 DEF from
      <4> DEFINE low == lower(kind, addr + n)
      <4>3. low.kind = "global" /\ low.address = from.address + n
        BY <4>2
      <4>4. there(n) = To(low.address, LastGlobal - low.address + 1)
        BY <1>5, <3>1, <4>3, Interface
      <4> HIDE DEF low, there
      <4> QED BY <1>3, <3>3, <4>3, <4>4 DEF To
    <3> QED BY <2>2, <3>5, <3>6
  <2> QED BY <2>1, <2>2
<1>7. Part3
  BY <1>1, OneClass
<1>8. Part4
  <2> SUFFICES ASSUME from.kind = "private_swizzled", to = "global",
                      NEW lane \in 0..(w.lanes - 1), NEW a \in 0..(LastSegment - 1),
                      convert("global", w, lane, "private_swizzled", a).error = "none",
                      convert("global", w, lane, "private_swizzled", a).address = c.address
               PROVE  lane = lane0 /\ a = from.address
    OBVIOUS
  <2>1. w # NoWave /\ w \in WaveRecords /\ ScratchPlaced(w)
    BY <1>1, <1>5
  <2>2. d = convert(to, w, lane0, from.kind, from.address)
    BY <1>5, <2>1, Interface
  <2>3. from.address \in 0..LastSegment /\ from.address # LastSegment
    BY <1>4, LastAddresses DEF LoweredKinds
  <2> DEFINE f == from.address
             g == convert("global", w, lane0, "private_swizzled", f)
  <2>4. g = c /\ g.error = "none"
    <3> HIDE DEF c, d
    <3> QED BY <1>3, <2>2
  <2> HIDE DEF w, c, lane0, f, from, d
  <2>5. f \in 0..LastSegment /\ f # LastSegment
    BY <2>3 DEF f
  <2>6. convert("global", w, lane, "private_swizzled", a).address = g.address
    BY <2>4
  <2>7. lane = lane0 /\ a = f
    BY <1>1, <2>1, <2>4, <2>5, <2>6, LanesApart
  <2> QED BY <2>7 DEF f
<1>9. \A n : (n \in {m \in 0..(c.bytes - 1) :
                       /\ m <= 2 * InterleaveSize
                       /\ Supported(kind, addr + m)
                       /\ lower(kind, addr + m).kind = lower(kind, addr).kind}) => Near(n)
  <2> HIDE DEF c, kind, addr
  <2> QED BY DEF from
<1> QED BY <1>6, <1>7, <1>8, <1>9, Zenon

(* AddressesSound for any address, lane, wave, sizes and scratch memory,   *)
(* when the scratch memory of the waves is made of whole interleaves,      *)
(* shorter than the private segment and outside the apertures: an address  *)
(* that is converted stands for the same byte and is converted back, the   *)
(* bytes called contiguous are so in both spaces, no two lanes and no two  *)
(* waves share a byte, and transfers move the bytes behind their requests  *)
(* (convert, scratch_memory_region, xfer_memory).                          *)
THEOREM AddressesAreSound ==
    ScratchesFit /\ ScratchesPlaced => (Spec => []AddressesSound)
<1> SUFFICES ASSUME ScratchesFit, ScratchesPlaced PROVE Spec => []AddressesSound
  OBVIOUS
<1>1. ASSUME Fixed PROVE ConversionsInvert
  <2> SUFFICES ASSUME case.tag = "convert", Supported(case.kind, case.address),
                      convert_address_space(case.to, case.wave, case.lane, case.kind,
                                            case.address + 0).error = "none"
               PROVE  ConversionsInvert
    BY Zenon DEF ConversionsInvert
  <2>1. case \in ConvertInputs /\ (case.wave = NoWave \/ ScratchPlaced(case.wave))
    BY <1>1, Tagged DEF Fixed, ScratchesPlaced
  <2> QED BY <2>1, ConversionInverts, Zenon DEF ConversionsInvert
<1>2. Init => Fixed
  BY DEF Init, Fixed
<1>3. Spec => []ConversionsInvert
  BY <1>1, <1>2, StaysFixed, PTL DEF Spec
<1>4. Spec => []TransfersExact
  BY TransfersAreExact
<1> QED BY <1>3, <1>4, ScratchIsDisjoint, PTL DEF AddressesSound
=============================================================================
