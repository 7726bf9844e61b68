---------------------------- MODULE AddressSpaces ----------------------------
(***************************************************************************)
(* The address spaces of a wave and the conversions between them, the      *)
(* scratch memory behind the private ones, and the transfers a client asks *)
(* for (memory.cpp, wave.cpp, workgroup.cpp, queue.cpp).                   *)
(*                                                                         *)
(* A conversion gives an address and the number of bytes contiguous in     *)
(* both spaces, or the name of an error.  A wave is a record of its lane   *)
(* count and of its scratch region.                                        *)
(***************************************************************************)
EXTENDS Integers, FiniteSets, Sequences

CONSTANTS
    SegmentSize,    \* local or private addresses, 2^32 in the library
    ApertureSize,   \* generic addresses of an aperture, 2^48
    InterleaveSize  \* bytes of a lane that are contiguous, 4

ASSUME AddressAssumption ==
    /\ SegmentSize \in Nat \ {0} /\ ApertureSize \in Nat \ {0}
    /\ ApertureSize % SegmentSize = 0
    /\ InterleaveSize \in Nat \ {0}

Spaces == {"global", "local", "private_swizzled", "private_unswizzled", "generic"}
NoLane == -1
NoWave == [lanes |-> 0, base |-> 0, size |-> 0]
BadLane(w, lane) == (w = NoWave /\ lane # NoLane) \/ (w # NoWave /\ lane >= w.lanes)

LastSegment == SegmentSize - 1
LastGlobal  == 4 * ApertureSize - 1
last_address(kind) == IF kind \in {"global", "generic"} THEN LastGlobal ELSE LastSegment
null_address(kind) == IF kind \in {"global", "generic"} THEN 0 ELSE LastSegment

Apertures == <<[base |-> 1, kind |-> "local"], [base |-> 2, kind |-> "private_swizzled"]>>
ApertureOf(kind) == {a \in {Apertures[1], Apertures[2]} : a.kind = kind}

To(address, bytes) == [error |-> "none", address |-> address, bytes |-> bytes]
Error(what)        == [error |-> what, address |-> 0, bytes |-> 0]
Invalid            == Error("invalid_conversion")

-----------------------------------------------------------------------------
(* lower: an address of the generic space is one of another space.         *)

generic_lower(address) ==
    LET hit == {a \in {Apertures[1], Apertures[2]} : address \div ApertureSize = a.base}
    IN IF hit # {}
       THEN LET a == CHOOSE x \in hit : TRUE
            IN [kind |-> a.kind, address |-> address % (LastSegment + 1)]
       ELSE [kind |-> "global", address |-> address]
lower(kind, address) ==
    IF kind = "generic" THEN generic_lower(address)
    ELSE [kind |-> kind, address |-> address % (last_address(kind) + 1)]

(* What an address depends on: a process, a workgroup, a wave or a lane.   *)
address_dependency(kind, address) ==
    LET k == lower(kind, address).kind IN
    CASE k = "global"             -> "process"
      [] k = "local"              -> "workgroup"
      [] k = "private_unswizzled" -> "wave"
      [] k = "private_swizzled"   -> "lane"

address_is_in_address_class(kind, address, class) ==
    /\ kind # "private_unswizzled"
    /\ class = "generic" \/ lower(kind, address).kind = class

(* The interface: of a global address neither a wave nor a lane is needed. *)
class_state(w, lane, kind, address, class) ==
    CASE BadLane(w, lane) -> "invalid_lane"
      [] ~BadLane(w, lane) /\ kind = "global" ->
           IF class \in {"global", "generic"} THEN "member" ELSE "not_member"
      [] kind # "global" /\ w = NoWave /\ lane = NoLane -> "invalid_wave"
      [] kind # "global" /\ w # NoWave /\ lane = NoLane /\ address_dependency(kind, address) = "lane" ->
           "invalid_lane"
      [] OTHER -> IF address_is_in_address_class(kind, address, class)
                  THEN "member" ELSE "not_member"

-----------------------------------------------------------------------------
(* Scratch memory: tmpring is the register with the number of waves and    *)
(* the size of a wave.                                                     *)

Region(offset, size) == [offset |-> offset, size |-> size]

scratch_region_gfx9(tmpring, engines, engine, slot) ==
    Region(((tmpring.waves \div engines) * engine + slot) * tmpring.wavesize,
           IF tmpring.waves % engines # 0 THEN 0 ELSE tmpring.wavesize)
scratch_region_gfx11(tmpring, engines, engine, slot) ==
    Region((tmpring.waves * engine + slot) * tmpring.wavesize, tmpring.wavesize)

queue_scratch_region(arch, queue, xcc, engine, slot) ==
    LET r == IF arch = "gfx11"
             THEN scratch_region_gfx11(queue.tmpring, queue.engines \div queue.xccs, engine, slot)
             ELSE scratch_region_gfx9(queue.tmpring, queue.engines \div queue.xccs, engine, slot)
    IN [r EXCEPT !.offset = @ + queue.per_xcc * xcc]

(* The wave's region: none when its flat_scratch register, where there is  *)
(* one, says otherwise.                                                    *)
has_architected_flat_scratch(arch) == arch \in {"gfx940", "gfx11"}
wave_scratch_region(arch, region, flat_scratch) ==
    IF has_architected_flat_scratch(arch) /\ flat_scratch # region.offset
    THEN [region EXCEPT !.size = 0] ELSE region

-----------------------------------------------------------------------------
(* convert, one operator per destination.  from is the lowered address and *)
(* generic tells whether the client gave a generic one.                    *)

NullOf(from, generic, kinds) ==
    from.address = null_address(from.kind) /\ (generic \/ from.kind \in kinds)

(* Mutant: the lanes of a row are not told apart.                          *)
SwizzleSameLane(w, lane, address) ==
    (address \div InterleaveSize) * w.lanes * InterleaveSize + (address % InterleaveSize)
Swizzle(w, lane, address) ==
    (address \div InterleaveSize) * w.lanes * InterleaveSize + lane * InterleaveSize
    + (address % InterleaveSize)

global_convert(w, lane, from, generic) ==
    CASE NullOf(from, generic, {"global", "private_unswizzled", "private_swizzled"}) ->
           To(0, 0)
      [] ~NullOf(from, generic, {"global", "private_unswizzled", "private_swizzled"}) ->
           CASE from.kind = "global" -> To(from.address, LastGlobal - from.address + 1)
             [] from.kind = "private_unswizzled" ->
                  IF from.address >= w.size THEN Invalid
                  ELSE To(w.base + from.address, w.size - from.address)
             [] from.kind = "private_swizzled" ->
                  LET offset == Swizzle(w, lane, from.address) IN
                  IF lane = NoLane \/ lane >= w.lanes THEN Error("invalid_lane")
                  ELSE IF offset >= w.size THEN Invalid
                  ELSE To(w.base + offset, InterleaveSize - (offset % InterleaveSize))
             [] OTHER -> Invalid

local_convert(w, lane, from, generic) ==
    CASE NullOf(from, generic, {"local"}) -> To(LastSegment, 0)
      [] ~NullOf(from, generic, {"local"}) /\ from.kind = "local" ->
           To(from.address, LastSegment - from.address + 1)
      [] OTHER -> Invalid

Unswizzle(w, offset) ==
    (offset \div (w.lanes * InterleaveSize)) * InterleaveSize + (offset % InterleaveSize)

swizzled_convert(w, lane, from, generic) ==
    LET null == NullOf(from, generic, {"private_swizzled", "private_unswizzled"})
        offset == IF from.kind = "global" THEN from.address - w.base ELSE from.address
    IN CASE null -> To(LastSegment, 0)
         [] ~null /\ from.kind = "private_swizzled" ->
              To(from.address, LastSegment - from.address + 1)
         [] ~null /\ from.kind \in {"global", "private_unswizzled"} ->
              CASE offset < 0 \/ offset >= w.size -> Invalid
                [] offset \in 0..(w.size - 1) /\ (lane = NoLane \/ lane >= w.lanes) ->
                     Error("invalid_lane")
                [] OTHER ->
                     IF lane # (offset \div InterleaveSize) % w.lanes THEN Invalid
                     ELSE To(Unswizzle(w, offset), InterleaveSize - (offset % InterleaveSize))
         [] OTHER -> Invalid

unswizzled_convert(w, lane, from, generic) ==
    LET null == NullOf(from, generic, {"private_swizzled", "private_unswizzled"})
    IN CASE null -> To(LastSegment, 0)
         [] ~null /\ from.kind = "private_unswizzled" ->
              To(from.address, LastSegment - from.address + 1)
         [] ~null /\ from.kind = "global" ->
              LET a == from.address - w.base IN
              IF a < 0 \/ a >= w.size THEN Invalid ELSE To(a, w.size - a)
         [] ~null /\ from.kind = "private_swizzled" ->
              LET g == global_convert(w, lane, from, generic) IN
              IF g.error # "none" THEN g
              ELSE To(g.address - w.base,
                      IF g.bytes < w.size - (g.address - w.base)
                      THEN g.bytes ELSE w.size - (g.address - w.base))
         [] OTHER -> Invalid

generic_address_for_address_space(from) ==
    CASE from.address = null_address(from.kind) -> 0
      [] from.address # null_address(from.kind) /\ from.kind = "global" -> from.address
      [] OTHER -> (CHOOSE a \in ApertureOf(from.kind) : TRUE).base * ApertureSize
                  + from.address
generic_convert(w, lane, from, generic) ==
    IF from.kind = "private_unswizzled" THEN Invalid
    ELSE LET a == generic_address_for_address_space(from) IN
         IF a = 0 THEN To(0, 0) ELSE To(a, last_address(from.kind) - from.address + 1)

convert(to, w, lane, kind, address) ==
    LET from == lower(kind, address)
        generic == kind = "generic"
    IN CASE to = "global"             -> global_convert(w, lane, from, generic)
         [] to = "local"              -> local_convert(w, lane, from, generic)
         [] to = "private_swizzled"   -> swizzled_convert(w, lane, from, generic)
         [] to = "private_unswizzled" -> unswizzled_convert(w, lane, from, generic)
         [] to = "generic"            -> generic_convert(w, lane, from, generic)

(* The interface lowers the address first, and converts global addresses   *)
(* without a wave.                                                         *)
convert_address_space(to, w, lane, kind, address) ==
    LET from == lower(kind, address) IN
    CASE BadLane(w, lane) -> Error("invalid_lane")
      [] ~BadLane(w, lane) /\ from.kind = "global" /\ to = "global" ->
           To(from.address, LastGlobal - from.address + 1)
      [] ~BadLane(w, lane) /\ w = NoWave /\ ~(from.kind = "global" /\ to = "global") ->
           Error("invalid_wave")
      [] OTHER -> convert(to, w, lane, from.kind, from.address)

-----------------------------------------------------------------------------
(* Transfers.  A request is served by the process, the workgroup or the    *)
(* wave; the wave's is a loop, of which a step is one iteration.           *)

XferChecks(x) ==
    IF x.frozen /\ x.write THEN "frozen"
    ELSE IF x.wave # NoWave /\ ~x.stopped THEN "not_stopped"
    ELSE IF BadLane(x.wave, x.lane) THEN "invalid_lane" ELSE "none"

ServedBy(x) ==
    LET d == address_dependency(x.kind, x.address) IN
    CASE d = "process"   -> "process"
      [] d = "workgroup" -> IF x.wave = NoWave THEN "invalid_wave" ELSE "workgroup"
      [] d = "lane" /\ x.lane = NoLane -> "invalid_lane"
      [] OTHER           -> IF x.wave = NoWave THEN "invalid_wave" ELSE "wave"

xfer_memory(x) == IF XferChecks(x) # "none" THEN XferChecks(x) ELSE ServedBy(x)

(* Global memory is mapped below mapped: the bytes a request is granted, or *)
(* 0 when the first is not mapped, an access error.                        *)
Granted(mapped, address, size) ==
    CASE address + size <= mapped                      -> size
      [] address + size > mapped /\ address < mapped -> mapped - address
      [] OTHER                                         -> 0

Bytes(first, count) == [i \in 1..count |-> first + i - 1]

xfer_global_memory(x, first, size) ==
    LET granted == Granted(x.mapped, first, size) IN
    [x EXCEPT !.moved  = @ \o Bytes(first, granted),
              !.size   = @ - granted,
              !.status = IF size > 0 /\ granted = 0 THEN "memory_access" ELSE "done"]

process_xfer(x) == xfer_global_memory(x, lower(x.kind, x.address).address, x.size)

(* The workgroup's memory, in the save area of its queue, ends at its      *)
(* limit.  A queue that runs is suspended first, and the workgroup may be  *)
(* gone by then.                                                           *)
xfer_saved_lds(x) ==
    LET offset == lower(x.kind, x.address).address
        room   == IF offset < x.limit THEN x.limit - offset ELSE 0
    IN CASE offset + x.size <= x.limit -> xfer_global_memory(x, x.local_base + offset, x.size)
         [] offset + x.size > x.limit /\ room = 0 /\ x.size # 0 ->
              [x EXCEPT !.status = "memory_access"]
         [] OTHER -> xfer_global_memory(x, x.local_base + offset, room)

xfer_local_memory(x) ==
    IF ~x.suspended /\ x.gone THEN [x EXCEPT !.status = "invalid_workgroup"]
    ELSE xfer_saved_lds(x)

(* Mutant: a chunk of which nothing is granted does not end the loop.      *)
XferPrivateUnended(x) ==
    LET from == lower(x.kind, x.address)
        c == convert("global", x.wave, x.lane, from.kind, from.address + Len(x.moved))
        wanted == IF x.size < c.bytes THEN x.size ELSE c.bytes
    IN CASE x.size = 0 -> [x EXCEPT !.status = "done"]
         [] x.size > 0 /\ c.error # "none" -> [x EXCEPT !.status = "memory_access"]
         [] OTHER -> [xfer_global_memory(x, c.address, wanted) EXCEPT !.status = "wave"]

(* One iteration of the wave's loop.                                       *)
xfer_private_memory(x) ==
    LET from == lower(x.kind, x.address)
        c == convert("global", x.wave, x.lane, from.kind, from.address + Len(x.moved))
        wanted == IF x.size < c.bytes THEN x.size ELSE c.bytes
        next == xfer_global_memory(x, c.address, wanted)
    IN CASE x.size = 0 -> [x EXCEPT !.status = "done"]
         [] x.size > 0 /\ c.error # "none" ->
              [x EXCEPT !.status = IF x.moved = <<>> THEN "memory_access" ELSE "done"]
         [] x.size > 0 /\ c.error = "none" ->
              IF next.status = "done" /\ x.size - next.size = wanted
              THEN [next EXCEPT !.status = "wave"] ELSE next

(* A step of a transfer: the dispatch of the request, or an iteration.     *)
xfer_step(x) ==
    CASE x.status = "asked"     -> [x EXCEPT !.status = xfer_memory(x)]
      [] x.status = "process"   -> process_xfer(x)
      [] x.status = "workgroup" -> xfer_local_memory(x)
      [] x.status = "wave"      -> xfer_private_memory(x)
=============================================================================
