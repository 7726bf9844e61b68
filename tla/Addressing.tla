----------------------------- MODULE Addressing -----------------------------
(***************************************************************************)
(* The computations of the library that place bytes and packets: address   *)
(* conversions, scratch memory, memory transfers and the packets of a      *)
(* ring.  A behaviour starts from one input; a transfer is then moved one  *)
(* chunk at a time.                                                        *)
(***************************************************************************)
EXTENDS AddressSpaces, PacketRing

CONSTANT Cases    \* the inputs

(* What the client, the driver and the hardware may give the library: a    *)
(* wave has lanes and scratch memory, a queue has engines on every die.    *)
ScratchWaves == [lanes : Nat \ {0}, base : Nat, size : Nat] \cup {NoWave}
LaneIds == Nat \cup {NoLane}
RingInputs == [tag : {"ring"}, arch : {"gfx9", "gfx940", "gfx12"},
               ring : [size : Nat \ {0}, read : Nat, write : Nat]]
ScratchInputs == [tag : {"scratch"}, arch : {"gfx9", "gfx940", "gfx11"},
                  tmpring : [waves : Nat, wavesize : Nat],
                  engines : Nat \ {0}, xccs : Nat \ {0}, skew : Nat]
ConvertInputs == [tag : {"convert"}, wave : ScratchWaves, lane : LaneIds,
                  to : Spaces, kind : Spaces, address : 0..LastGlobal]
Transfers(moved, status) ==
    [kind : Spaces, address : 0..LastGlobal, size : Nat, wave : ScratchWaves, lane : LaneIds,
     stopped : BOOLEAN, frozen : BOOLEAN, write : BOOLEAN, suspended : BOOLEAN, gone : BOOLEAN,
     mapped : Nat, limit : Nat, local_base : Nat, moved : moved, status : status]
TransferInputs == [tag : {"transfer"}, x : Transfers({<<>>}, {"asked"})]

ASSUME CasesAssumption ==
    \A c \in Cases :
        \/ c \in RingInputs
        \/ c \in ScratchInputs /\ c.xccs <= c.engines
        \/ c \in ConvertInputs \cup TransferInputs

VARIABLE case

(* A transfer of memory goes on until it is served or refused.             *)
StepTransfer ==
    /\ case.tag = "transfer"
    /\ case.x.status \in {"asked", "process", "workgroup", "wave"}
    /\ case' = [case EXCEPT !.x = xfer_step(@)]

Init == case \in Cases
Spec == Init /\ [][StepTransfer]_case /\ WF_case(StepTransfer)

-----------------------------------------------------------------------------
(* Properties of the address spaces.                                       *)

InAperture(address) == \E i \in DOMAIN Apertures :
                           address \div ApertureSize = Apertures[i].base
IsNull(kind, address) == lower(kind, address).address = null_address(lower(kind, address).kind)
Supported(kind, address) ==
    ~IsNull(kind, address) /\ (kind = "global" => ~InAperture(address))

(* The byte an address stands for: of the workgroup, or of global memory.  *)
ByteAt(w, lane, kind, address) ==
    LET from == lower(kind, address) IN
    IF from.kind = "local" THEN <<"local", from.address>>
    ELSE <<"global", convert("global", w, lane, from.kind, from.address).address>>

(* A conversion that succeeds can be undone, and the bytes it calls        *)
(* contiguous are so in both spaces; the address it gives stands for the  *)
(* same byte, no two lanes share one, and the address is in one class      *)
(* (address_space_t::convert, amd_dbgapi_convert_address_space).           *)
ConversionsInvert ==
    (case.tag = "convert" /\ Supported(case.kind, case.address)) =>
        LET w == case.wave
            there(n) == convert_address_space(case.to, w, case.lane, case.kind,
                                              case.address + n)
            c == there(0)
            back(n) == convert_address_space(case.kind, w, case.lane, case.to, c.address + n)
            near == {n \in 0..(c.bytes - 1) :
                       /\ n <= 2 * InterleaveSize
                       /\ Supported(case.kind, case.address + n)
                       /\ lower(case.kind, case.address + n).kind
                            = lower(case.kind, case.address).kind}
        IN c.error = "none" =>
             /\ c.bytes > 0
             /\ \A n \in near :
                  /\ there(n).error = "none" /\ there(n).address = c.address + n
                  /\ (w # NoWave /\ ~(case.kind = "generic" /\ case.to = "private_unswizzled"))
                       => /\ back(n).error = "none"
                          /\ ByteAt(w, case.lane, case.kind, back(n).address)
                               = ByteAt(w, case.lane, case.kind, case.address + n)
             /\ w # NoWave =>
                  Cardinality({k \in {"global", "local", "private_swizzled"} :
                      class_state(w, case.lane, case.kind, case.address, k) = "member"})
                  <= IF case.kind = "private_unswizzled" THEN 0 ELSE 1
             /\ (lower(case.kind, case.address).kind = "private_swizzled"
                 /\ case.to = "global") =>
                  \A lane \in 0..(w.lanes - 1), a \in 0..(LastSegment - 1) :
                    LET other == convert("global", w, lane, "private_swizzled", a) IN
                    (other.error = "none" /\ other.address = c.address) =>
                      lane = case.lane /\ a = lower(case.kind, case.address).address

(* The scratch slots of a queue: dies, engines of a die and waves of an    *)
(* engine.  The driver gives each die the memory of its own waves.         *)
SlotsOf(c) == IF c.arch = "gfx11" THEN c.tmpring.waves
              ELSE c.tmpring.waves \div (c.engines \div c.xccs)
PerXcc(c)  == c.tmpring.wavesize * (IF c.arch = "gfx11"
                                    THEN c.tmpring.waves * (c.engines \div c.xccs)
                                    ELSE c.tmpring.waves)

(* No two waves of a queue are given the same scratch memory, and none is  *)
(* given memory outside the queue's, nor any when its flat_scratch         *)
(* register is off, here by skew (scratch_memory_region).                  *)
ScratchDisjoint ==
    case.tag = "scratch" =>
        LET q == [tmpring |-> case.tmpring, engines |-> case.engines, xccs |-> case.xccs,
                  per_xcc |-> PerXcc(case)]
            waves == (0..(case.xccs - 1)) \X (0..(case.engines \div case.xccs - 1))
                     \X (0..(SlotsOf(case) - 1))
            bytes(v) == LET slot == queue_scratch_region(case.arch, q, v[1], v[2], v[3])
                            r == wave_scratch_region(case.arch, slot, slot.offset + case.skew)
                        IN r.offset..(r.offset + r.size - 1)
        IN \A v, u \in waves :
             /\ bytes(v) \subseteq 0..(PerXcc(case) * case.xccs - 1)
             /\ v # u => bytes(v) \cap bytes(u) = {}
             /\ (has_architected_flat_scratch(case.arch) /\ case.skew # 0) => bytes(v) = {}

(* The byte of global memory behind byte n of a request.                   *)
Behind(x, n) ==
    LET from == lower(x.kind, x.address) IN
    CASE from.kind = "global" -> from.address + n
      [] from.kind = "local"  -> x.local_base + from.address + n
      [] from.kind = "private_unswizzled" -> x.wave.base + from.address + n
      [] from.kind = "private_swizzled" ->
           x.wave.base + Swizzle(x.wave, x.lane, from.address + n)
Accessible(x, n) ==
    LET from == lower(x.kind, x.address) IN
    /\ Behind(x, n) < x.mapped
    /\ from.kind = "local" => from.address + n < x.limit
    /\ from.kind \in {"private_unswizzled", "private_swizzled"} =>
         Behind(x, n) < x.wave.base + x.wave.size

TransferExact(x) ==
    LET n == Len(x.moved) IN
    /\ \A i \in 1..n : Accessible(x, i - 1) /\ x.moved[i] = Behind(x, i - 1)
    /\ (x.status \in {"done", "memory_access"} /\ x.size > 0) => ~Accessible(x, n)
    /\ x.status = "memory_access" => x.size > 0
    /\ x.status \in {"frozen", "not_stopped", "invalid_wave", "invalid_lane",
                     "invalid_workgroup"} => n = 0
    /\ n > 0 => ~(x.frozen /\ x.write)

(* A transfer moves the bytes behind the request, in order and once, and   *)
(* stops early only at one it cannot access; a request that needs a wave   *)
(* or a lane it was not given, whose workgroup is gone once its queue is   *)
(* suspended, or that writes to a frozen process, moves nothing            *)
(* (xfer_memory, xfer_private_memory, xfer_local_memory).                  *)
TransfersExact == case.tag = "transfer" => TransferExact(case.x)

(* Every byte of a wave has one place, its own, in each address space it   *)
(* can be converted to, and a transfer reaches it there (convert,          *)
(* scratch_memory_region, xfer_memory).                                    *)
AddressesSound == ConversionsInvert /\ ScratchDisjoint /\ TransfersExact

(* Every transfer ends: the loop of xfer_private_memory makes progress     *)
(* until the request is served or a byte of it cannot be accessed.         *)
TransfersEnd ==
    case.tag = "transfer" ~>
        /\ case.tag = "transfer"
        /\ case.x.status \notin {"asked", "process", "workgroup", "wave"}

-----------------------------------------------------------------------------
(* The property of the packets.                                            *)

(* A wave finds the packet it was dispatched from, and the client is given *)
(* the packets of the ring in order, if the size of the ring is a power of *)
(* two: otherwise asking for them is a fatal error                         *)
(* (get_os_queue_packet_id, active_packets_bytes).                         *)
PacketsFound ==
    case.tag = "ring" =>
        LET ring == case.ring
            ids  == ring.read..(ring.write - 1)
            wave(id) == [setup |-> TRUE,
                         ttmp6  |-> IF case.arch \in {"gfx9"} THEN id % ring.size ELSE 0,
                         ttmp11 |-> IF case.arch = "gfx940" THEN id % ring.size ELSE 0,
                         ttmp8  |-> IF case.arch = "gfx12" THEN id % ring.size ELSE 0]
        IN /\ \A id \in ids : /\ get_os_queue_packet_id(case.arch, ring, wave(id)) = Gives(id)
                              /\ dispatch_packet_slot(ring, id) = id % ring.size
           /\ queue_packet_list(ring)
                = IF is_power_of_two(ring.size)
                  THEN Gives([i \in 1..(ring.write - ring.read)
                                |-> (ring.read + i - 1) % ring.size])
                  ELSE Fatal
=============================================================================
