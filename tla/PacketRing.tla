----------------------------- MODULE PacketRing -----------------------------
(***************************************************************************)
(* The ring of dispatch packets of a queue: which packet a wave belongs to *)
(* and which packets are still to be run (queue.cpp, architecture.cpp).    *)
(*                                                                         *)
(* A ring is [size, read, write]: packet id p is in slot p % size, and the *)
(* ids read..write-1 are in the ring.  A slot stands for a packet's bytes. *)
(***************************************************************************)
EXTENDS Integers, Sequences

Fatal   == [error |-> "fatal_error", value |-> 0]
Gives(v) == [error |-> "none", value |-> v]
Nothing == [error |-> "nullopt", value |-> 0]

(* The register of the wave that holds the packet's index has a field of   *)
(* FieldBits bits; a larger ring is refused when the queue is created.     *)
ring_supported(ring, field_bits) == ring.size <= 2^field_bits

(* The slot that the wave's trap temporaries name: ttmp6, or ttmp11 on     *)
(* gfx940 and ttmp8 on gfx12.                                              *)
PacketAddress(ring, setup, index) ==
    CASE ~setup -> Nothing
      [] setup /\ index >= ring.size -> Fatal
      [] OTHER -> Gives(index)
dispatch_packet_address_gfx9(ring, w)   == PacketAddress(ring, w.setup, w.ttmp6)
dispatch_packet_address_gfx940(ring, w) == PacketAddress(ring, w.setup, w.ttmp11)
dispatch_packet_address_gfx12(ring, w)  == PacketAddress(ring, w.setup, w.ttmp8)
dispatch_packet_address(arch, ring, w) ==
    CASE arch = "gfx940" -> dispatch_packet_address_gfx940(ring, w)
      [] arch = "gfx12"  -> dispatch_packet_address_gfx12(ring, w)
      [] OTHER           -> dispatch_packet_address_gfx9(ring, w)

(* Mutant: an index below read is always taken for the next turn.          *)
PacketIdAlwaysNext(arch, ring, w) ==
    LET a  == dispatch_packet_address(arch, ring, w)
        id == a.value + (ring.read \div ring.size) * ring.size + ring.size
    IN IF a.error # "none" THEN a ELSE Gives(id)
get_os_queue_packet_id(arch, ring, w) ==
    LET a    == dispatch_packet_address(arch, ring, w)
        turn == a.value + (ring.read \div ring.size) * ring.size
        id   == IF turn < ring.read /\ ring.read % ring.size > ring.write % ring.size
                THEN turn + ring.size ELSE turn
    IN CASE a.error # "none" -> a
         [] a.error = "none" /\ (id < ring.read \/ id >= ring.write) -> Fatal
         [] OTHER -> Gives(id)

(* The slot the dispatch reads its packet from.                            *)
dispatch_packet_slot(ring, id) == id % ring.size

(* The number of packets in the ring, and their slots in the order of      *)
(* their ids; the buffer keeps what it held where nothing is read.         *)
active_packets_info(ring) ==
    IF ring.read > ring.write THEN Fatal ELSE Gives(ring.write - ring.read)

Slots(first, count) == [i \in 1..count |-> first + i - 1]
Unread == -1

is_power_of_two(n) == \E b \in 0..n : n = 2^b

active_packets_bytes(ring, memory_size) ==
    LET first == ring.read % ring.size
        last  == ring.write % ring.size
    IN CASE ring.read > ring.write \/ memory_size # ring.write - ring.read ->
              [error |-> "invalid_argument", value |-> <<>>]
         [] ring.read <= ring.write /\ memory_size = ring.write - ring.read
            /\ ~is_power_of_two(ring.size) -> Fatal
         [] ring.read <= ring.write /\ memory_size = ring.write - ring.read
            /\ is_power_of_two(ring.size) ->
              Gives(CASE first < last -> Slots(first, ring.write - ring.read)
                      [] first > last -> Slots(first, ring.size - first) \o Slots(0, last)
                      [] first = last -> [i \in 1..memory_size |-> Unread])

queue_packet_list(ring) ==
    LET info == active_packets_info(ring) IN
    IF info.error # "none" THEN info ELSE active_packets_bytes(ring, info.value)
=============================================================================
