# Verification of the ROCm debugger API library

This directory holds TLA+ models of the AMD debugger API library
(`src/src`, public header `src/include/amd-dbgapi.h.in`), the TLC
configurations that check them, and theorems about them that TLAPS checks.
A debugger (the *client*) links the library. The library inspects and controls
an *inferior* process whose GPU waves are run by queues, through ioctls of the
kernel driver (KFD). The library has no threads of its own: every concurrency
hazard comes from what the GPU, the driver and the inferior do between two
driver calls of one library call, or between two library calls.

## Inventory

| Part | State | Operations | What makes it correct |
|---|---|---|---|
| process (`process.cpp`) | queues, forward progress, launch mode, frozen, pending events | `suspend_queues`, `resume_queues`, `update_queues`, `next_pending_event`, `query_debug_event`, `set_forward_progress_needed`, `set_wave_launch_mode`, `freeze`, `attach`, `detach` | the library and the driver agree on which queues are off the hardware; no exception is lost; queues it suspended are put back |
| queues (`queue.cpp`) | running, suspended or invalid; count of running waves; displaced-instruction chunks; packet ring | `queue_state_changed`, `update_waves`, `allocate_displaced_instruction`, `scoped_queue_suspend_t` | the count is exact, so that a suspend may be skipped; waves are discovered and swept once |
| waves (`wave.cpp`) | client state, stop reason, visibility, last stop event, displaced step, parking | `update`, `set_state`, `terminate`, `raise_event`, stop, resume, list | registers say what the client was told; at most one stop event is outstanding; every step is answered |
| events (`event.cpp`) | created, queued, reported, processed | `enqueue_event`, `next_pending_event`, `set_state` | FIFO, no event reported twice |
| memory cache (`memory.cpp`) | lines of the wave save area, dirty or clean | `prefetch`, `write_back`, `discard`, `xfer_global_memory` | the client sees one memory, the cache is invisible |
| displaced stepping (`displaced_stepping.cpp`) | buffers, reference counts | start, complete | a wave executes its own instruction; buffers are not freed in use |
| attach and runtime (`process.cpp`) | runtime state, settings, code objects, breakpoint | `attach`, `detach`, `runtime_enable`, `set_...`, `update_code_objects` | the driver has the settings of the client; the runtime is answered; nothing is left after a detach |
| watchpoints, agents | requested and programmed ranges, per-agent slots | set, remove | the programmed ranges cover the requested one; a partial failure is undone; no access goes unnoticed |
| address spaces (`memory.cpp`) | none | lower, convert, classes, `xfer_memory` | conversions can be undone; a transfer moves the bytes asked for |
| code objects | list read at the `r_brk` breakpoint | update, event processing | the host thread waits until the client has processed the list |
| dispatches, workgroups | packet ring, mark and sweep | lookup | a wave is given the dispatch that launched it |
| handles (`handle_object.h`) | id to object | create, find, destroy | ids are not reused |
| architectures, registers | per-target encodings, wave control registers | decode, simulate, `wave_get_state`, `wave_set_state`, park, `register_address` | a wave gets its own halt bit and pc back; a step is one instruction; a register is where the hardware saved it |
| driver (`os_driver.cpp`, `linux/`) | suspended queues, exceptions | suspend, resume, snapshot, query | external: modelled from its use |

The hard behaviours are listed with their source lines under `hazards` in
`PROJECT.json`. In short: a queue or the process dies between two driver calls
of one call; a wave traps between the query that looks for traps and the
suspend that reads them; a stop request races a trap; cached flags
(all-stopped counts, visibility, frozen) go stale; updates sit in a cache while
the queue is put back; events are created, reported and processed in three
different calls.

## Modules

| Module | What it is |
|---|---|
| `RunControl` | Run control: processes, queues, waves, events, and the driver and hardware below them. |
| `MCRunControl` | Its instance for TLC: queue assignments, command sets, symmetry. |
| `RunControl_proofs` | Lemmas about its operators, type correctness, the inductive invariant of queues and waves and what follows from it. |
| `RunControlCalls_proofs` | What calls know of the queues and waves they hold, the FIFO and the events of every wave, and what follows from them. |
| `RegisterFile` | Abstract: one register file per wave, and what reads and writes of it promise. |
| `MemoryCache` | The cache of the wave save areas and its users; implements `RegisterFile`. |
| `MCMemoryCache` | Its instances for TLC: register bytes, save areas and layouts. |
| `MemoryCache_proofs` | The inductive invariant of the cache and the refinement proof. |
| `InlineStepping` | Abstract: every wave runs through its program, one instruction after the other. |
| `DisplacedStepping` | Buffers, shared steps, parked waves and simulated instructions; implements `InlineStepping`. |
| `MCDisplacedStepping` | Its instances for TLC: a program, queues and their memory, symmetry. |
| `DisplacedStepping_proofs` | Its inductive invariant, its theorems and the refinement proof. |
| `Watchpoints` | Hardware watchpoints over several agents, and the traps that waves need for them. |
| `MCWatchpoints` | Its instances for TLC. |
| `Watchpoints_proofs` | Its inductive invariants and theorems. |
| `WaveControl` | The control registers of one wave, shared by the program, the trap handler and the library, on every architecture. |
| `MCWaveControl` | Its instances for TLC: configurations and a program. |
| `WaveControl_proofs` | Its inductive invariants and theorems. |
| `ProcessLifecycle` | Attach, detach, the runtime, its code objects and breakpoint, and the settings. |
| `MCProcessLifecycle` | Its instance for TLC. |
| `ProcessLifecycle_proofs` | Its inductive invariant and theorems. |
| `Instructions` | Decoding, classification and simulation of the instructions that use the pc. |
| `SaveArea` | Control stack, record of a wave, register addresses, partial register accesses. |
| `AddressSpaces` | Address spaces, conversions, scratch memory and transfers. |
| `PacketRing` | Which packet of the ring a wave belongs to, and which are active. |
| `WatchRange` | The range a watchpoint really watches. |
| `Addressing` | `AddressSpaces` and `PacketRing` against their reference definitions, one input per behaviour. |
| `MCAddressing` | Its bounded inputs. |
| `Addressing_proofs` | The same for inputs of any size. |
| `Algorithms` | `Addressing`, and `Instructions`, `SaveArea` and `WatchRange` against their reference definitions. |
| `MCAlgorithms` | Its bounded inputs. |

### RunControl

*State.* `qState`, `wavesRunning` are `queue_t::m_state` and `m_waves_running`
(`NoCount` is the empty optional); `wave[w]` is the part of `wave_t` that run
control uses; `dirty` is the set of waves whose control registers have an
update in the cache that is not yet in memory; `evState`, `evKind`, `pending`
are the event objects and `m_pending_events`; `fwd`, `launchMode`, `frozen` are
the fields of `process_t`; `call` is the program counter of the one API call
in progress together with the local variables that outlive a driver call.
`osQueue`, `osSusp`, `osMode`, `excp`, `hw`, `exited` are outside the library:
which queues exist and are suspended, the launch mode the hardware uses, the
pending exceptions, the wave registers, and whether the process is gone.

*Actions.* A library call is cut at its driver calls, because the driver and
the GPU act in between; what happens between two driver calls is one action,
its trailing updates included. `SuspendLive`/`SuspendExited`/`SuspendFails` are
the three outcomes of `suspend_queues` (with the listeners and `update_waves`
it calls), likewise `Resume...`. `WaveStop`, `WaveResume`, `WaveList`,
`SetProgress`, `StopCreation`, `NormalCreation`, `Freeze`, `Unfreeze`,
`NextPendingEvent` start a call; the `...Body` actions are what the call does
once its queues are suspended. `NormalCreation` is the driver call that changes
the launch mode and `NormalCreationQueues` the update of the queues after it.
`QueryDebugEvent`, `QueriesDone`, `TakeEvent` are the loop of
`next_pending_event`; `QueryNewQueue` is the update for an event of a queue the
library has not met, which drops the event if the queue is gone by then.
`Hw...` and `Os...` actions, and `ProcessExit`, are the environment.
`OsDestroyQueue` takes suspended queues away too: the driver's header says so of
a resume (`kfd_ioctl.h:1229-1233`) and denies it of a suspend
(`kfd_ioctl.h:1192-1195`), so that the model is wider than a driver that keeps to
the latter. A failed `dbgapi_assert` sets `fault` and
stops the library, so `fault` names the assertion (builds with assertions
enabled are modelled).

*Data.* A wave's registers are abstracted to what `wave_get_state` reads and
`wave_set_state` writes: halted, single-step mode, trapped, at launch. Events
are the two kinds run control creates, in two slots per wave, enough because an
event is processed before a third one can be created (`EventsInTurn`).

### MemoryCache

*State.* `mem` is the inferior's memory, byte by byte, `cache` and `dirty` are
`m_cache_line_map` (the bytes of the lines that are there, and the lines whose
`m_dirty` is set); `where` is `register_address` of every byte, which a context
save may change; `created` counts the `wave_t` made for a wave; `got` is the
answer to the last read; `call` and `todo` are the call in progress and the
waves that `update_waves` has still to visit. `hw` and `alive` are the
registers in the hardware and the queues that exist.

*Actions.* `Suspend`, `UpdateWave` (one iteration of `update_waves`) and
`SuspendReturns` are a suspend; `Resume` is a resume; `ReadRegister` and
`WriteRegister` are accesses that need no suspend, `ReadSuspends` followed by
`ReadSuspended`, and `WriteSuspends` followed by `WriteSuspended`, the ones
that do, with the scoped resume at their end; `Flush` is the write back of a
freeze and `UpdateQueues` destroys the objects of queues that are gone.
`HwComputes`, `HwPreempts` (the scheduler may save and restore a running queue
at any time, which is why the save area may not be read then),
`OsDestroyQueue` and `InferiorReuses` are the environment.

RunControl decides when queues are suspended and resumed; MemoryCache lets it
happen whenever a queue is in the state for it, so it covers every order that
RunControl produces. RunControl in turn takes from MemoryCache that a wave's
control registers are either in the cache or in the save area.

*Abstraction.* `RegisterFile` has the registers, the stopped waves, the lost
ones (of a destroyed queue, of which nothing is promised) and the last answer.

### DisplacedStepping

*State.* `state`, `hidden`, `parked`, `ds` are the fields of `wave_t`; `pc` and
`saved` are the pc register and the pc a parked wave keeps in its ttmps; `obj`
is the set of `displaced_stepping_t` with their queue, `from`, `to` and
reference count; `next`, `free`, `park`, `term` are the members of
`aql_queue_t` that manage the memory reserved for the debugger, and `mem` is
that memory, word by word (a word is the address it is a copy of, or one of
the two instructions of the library). `done` is a history variable: the
instruction a wave executed last. `qState`, `exited` are the inferior's.

*Actions.* `StartShared`, `StartSimulated`, `StartDisplaced` and
`StartExhausted` are the outcomes of `amd_dbgapi_displaced_stepping_start`,
`Complete` is its counterpart; `ResumeWave`, `StepEnds`, `StepSimulated` and
`StepOnHardware` are those of `amd_dbgapi_wave_resume`, with what `set_state`
does for each; `StopWave`, `Freeze`, `Unfreeze`, `Detach` and `UpdateQueues`
are the other calls. `HwInCode`, `HwInBuffer`, `HwTraps` and `HwEnds` are a
wave on the hardware together with the update that sees it.

*Abstraction.* `InlineStepping` has, of each wave, its state, the address of
its next instruction and the last one it executed. The mapping translates a pc
in a buffer back, by the computation of `displaced_stepping_complete`, and
takes a hidden wave for one that has ended. It must hold of aborted,
completed, shared, parked and cancelled steps alike.

### Watchpoints

*State.* `object`, `freed`, `next_id` are the watchpoint objects, by heap
address, because `m_watchpoints` of an agent keeps addresses longer than the
objects live, and the allocator may give an address out again; `watch` and `trap_override` are the driver's registers and trap
mask, `trap_en` and `triggered` the waves', `call` the call in progress with
its agent.

*Actions.* `SetWatchpoint`, `SetTrapOverride`, `EnableTraps`, `InsertAgent`,
`InsertRefused`, `InsertExited` and `UndoAgent` are the steps of
`amd_dbgapi_set_watchpoint`, one per driver call; `RemoveWatchpoint`,
`ClearAgent`, `ClearTrapOverride`, `DisableTraps` those of its counterpart.
`WaveLaunch`, `WaveEnd`, `Trigger`, `ResumeWave`, `OtherProcess`, `Exit` are
everything else that moves between them.

### WaveControl

*State.* `hw` is the registers the program, the trap handler and the library
share: the halt and single-step bits, the exception flags, the pc, and what the
trap handler keeps in ttmps (stopped, the saved halt bit, the trap id, the pc
of a parked wave). The `m_` variables are those of `wave_t`; `intent` is a
history variable, what the program did since it was resumed, which exceptions an
earlier resume could not clear, and whether the client freed the wave (finding 10).
`config` is one of six families of architectures (gfx9, gfx940, gfx10, gfx10_3,
which does not park, gfx11, gfx12), the version of the trap handler and who sets up
the ttmps.

*Actions.* `HwExecute` is one instruction with the trap handler it may enter;
`Suspend` and `ResumeQueue` are a suspend with `wave_t::update` and a resume;
`StopWave`, `ResumeWave`, `StepSimulated`, `ResumeWithExceptions` (to run or to
step) are what `set_state` does; `WriteStatus`, `WriteStatePriv` (which ignores the
value written, as the code does), `WritePc` are register writes of the client.
`HwRunsOn` is a stopped wave the client freed: it runs, and nothing is said of it
from then on. RunControl abstracts all this to halted, stepping and
trapped: WaveControl is why it may.

### ProcessLifecycle

*State.* The fields of `process_t` that outlive a call (`runtime`, `info`,
`flag`, `setting`, `supports`, `objects`, `changed`, `bpt`, the events, the number
`watches` of watchpoints), the list the client was last given, what the driver has (`drv`, `excp`, `rtState`)
and the inferior: a runtime that may wait for an answer, the list of code
objects, and the thread that updates it. `kept` is a history variable: a detach
ended with the trap override still set (finding 16).

*Actions.* A client call is `Attach`, `Detach`, a setting (`SetWatchpoint` and
`RemoveWatchpoint` among them, for the override they set and clear), a list, or one of
`ServeEvents` (fetch an event, process it, report a breakpoint hit);
`Continue` is the next stage of a call that is cut because the inferior acts in
between; a detach has three more, `DetachLaunchMode`, `DetachWatchpoints` and
`DetachDisable`, one per driver call. `RuntimeLoad`, `RuntimeUnload`, `BeginUpdate`, `EndUpdate`, `Exit` are
the inferior.

### Addressing and Algorithms

A behaviour starts from one input of `Cases` or `Inputs` and its properties compare what
the library computes from it with a definition of what it ought to be. Two
kinds of input have steps: a program is stepped by `StepProgram`, as a client
does that simulates what can be simulated, and its lanes must run through the
blocks they would run through on their own; a transfer is moved chunk by chunk
by `StepTransfer`. The join of a divergent branch is simulated as the code does it
(finding 15), or run on the hardware by `RunOverJoin`; `astray` is a history field,
that a join with waiting lanes was simulated. A ring whose size is not a power of
two is the fatal error it is in the code. A transfer of local memory suspends the
queue, and may find the workgroup gone. They are two modules because the instructions and registers
need bitwise operators, which the prover cannot use, and the addresses and packets
do not: those are proved about. The addresses of the model have a `SegmentSize`,
an `ApertureSize` and an `InterleaveSize` where the code has 2^32, 2^48
(apertures are told by the bits above) and 4.

### Runs

TLC, two workers.

| Run | Instance | States | Shows |
|---|---|---|---|
| `teardown` | one queue, one wave, the queue may be destroyed, the process may exit at any point; `FairSpec` | 40,659 | types; event FIFO and wave references agree; at most one live stop event per wave; no assertion other than those of the findings fails; a step whose wave disappears is answered; a wave seen stopped stays so until it is resumed; every call returns; every trap is reported or the queue disappears |
| `one_queue` | one queue, which may be destroyed, two waves (symmetric), all commands | 2,004,074 | library and driver agree on suspension; registers follow the client's commands; running counts exact; no trap is missed; a frozen process has an empty cache; no wave is left halted at launch |
| `two_queues` | two queues, one wave each, one may be destroyed | 836,438 | with forward progress needed, queues are running again between calls |
| `invalid_queue_resumed` | smallest that shows it | - | the first finding |
| `cache_one_queue` | one queue, two waves of three register bytes, two lines, two layouts | 139,264 | `discard` drops no update; a wave is created once; `RegisterFile` is implemented |
| `cache_two_queues` | two queues, one wave of two bytes each, one queue may be destroyed and its area reused | 661,056 | `RegisterFile` is implemented |
| `displaced_three_waves` | one queue, which may be destroyed, three waves (symmetric), four chunks, parking | 164,056 | a buffer in use holds its instruction and a guard, and one chunk more than waves is enough; `InlineStepping` is implemented |
| `displaced_two_queues` | two queues, one of them with two waves, one chunk each, no parking; freezes, second steps, a destroyed queue, process exit | 379,045 | types; every chunk handed out has one holder, references are counted and buffers are not shared between queues; detach leaves none |
| `watchpoints` | two agents with two registers each, three watchpoints, one wave slot, another process, exit | 1,548,456 | while a register is programmed every wave traps; after any sequence of insertions, refusals and removals the agents watch what the client holds, and a call fails only where a stale entry meets a reused address; a triggered watchpoint is the one reported |
| `wave_control` | one wave on nine configurations of six architectures, a program with one instruction of each kind | 952,550 | the halt bit and the pc are given back; a stop is reported with what was raised since the resume, no less and no more but the flags of finding 9; a single-step is one instruction |
| `lifecycle` | two attaches, two loads of the runtime, two updates of a list of one code object, up to two watchpoints, exit at any point | 884,050 | the driver has the client's settings and keeps none after a detach but the trap override of finding 16; the code object list is read whole and changes are reported; each exception of the runtime is answered once, and is answered; a halted thread is resumed |
| `algorithms` | words of three bits, segments of sixteen bytes, two or three lanes, rings of up to eight packets, the opcodes and layouts of the source, and the programs and transfers stepped from them | 164,747 | stepped programs keep every lane on its path and end with all of them through, except where a simulated join misdirects waiting lanes (finding 15); decoding, classification and simulation agree; records of waves tile the save area; a register write changes its bits and no others; a watched range is the smallest that holds the first address and covers as much of the request as one range can; conversions can be undone and stay in their space, scratch memory is not shared, and a transfer moves the bytes behind its request; the packet of a wave is found; a transfer ends |

*Bounds.* One wave per queue is enough for what concerns a wave and its queue;
two waves of one queue reach the count's values 0, 1, 2 and the mixed states
in which one wave is stopped and the other runs; two queues reach the partial
failures of one suspend request. `MaxDestroys` bounds queue destructions: each
destruction interferes with the calls in progress in the same way, and one
destruction at any point is explored, two in `RunControlQueuePointers.cfg`. `Commands`
restricts the resume modes in runs about something else. Queue ids are not
reused within a run.

*Deadlock* is not checked in the run-control runs, because the system may really stop: a failed
assertion ends the library, and a client may stop asking once the process is
gone.

*Fairness.* Weak fairness of `LibraryStep`: a call that has begun runs to
completion, nothing blocks it but the driver, which answers. Strong fairness of
`NextPendingEvent`: `amd_dbgapi_process_next_pending_event` must be called
until it has no more events, whenever the notifier is raised, as its
documentation demands; without it no event can be reported at all. Nothing is
assumed of the hardware or the inferior.

*Bounds of the cache runs.* In the one-queue instance both ids lie in one line
(a prefetch for the second wave meets a line the first one updated) and, in one
layout, a register of the second wave crosses a line that nothing prefetches
(it is cached in part). Two values per byte are enough to tell an old byte from
a new one. The two-queue instance has two lines per area and two layouts. With
one destroyable queue, everything a destroyed queue may do to another is seen.
Deadlock is checked: one of the queues is always there.

*Bounds of the displaced-stepping runs.* The program is a loop of a short and a
long instruction that can be copied and a branch that is simulated, followed
by an instruction that is neither and by the end of the program: buffers are
recycled for instructions of other sizes, waves go round the loop as often as
they like, and every kind of step is taken. Three waves are the least for which
one leaves a buffer that a second still uses while a third starts another. As
many ids as waves are enough, since a wave has one object and an object without
waves is destroyed. Four chunks for three waves are the least that is enough
(with three, parking takes one and the third wave has no buffer); the single
chunks of `displaced_two_queues` make allocations fail. Deadlock is not checked: the
waves may all end, and a fatal error stops the library.

*Bounds of the other runs.* Two agents are the least for which an insertion
fails after it succeeded elsewhere, two registers leave room for a second
watchpoint, and three watchpoints make one of them neither first nor last. The
share kinds of the agents differ. Three heap addresses for three watchpoints let
every allocation take a fresh address or one used before.
`WaveControl` takes its instructions from a loop over one of each kind, so a
wave is stopped, stepped, parked and halted any number of times; the exceptions
raised are two that are enabled (`overflow`, `inexact`), a masked one
(`underflow`), the two that make a memory violation or an address error
(`mem_viol`, `xnack_error`), a watch and one of the extended ones (`wave_end`), and
the status register is written with the halt bit and without. In
`ProcessLifecycle` two of everything let an
earlier attach, load or update leave something behind for a later one; one code
object is enough for the list to change, and two watchpoints are the least for which
a detach leaves the override. In the
algorithms a word has three bits, so that a wave has six lanes and all the ways
they can part are tried; segments have sixteen bytes with lanes interleaved by
two, so that every address of a segment and of its neighbours is tried; an
address that is watched has eight bits; rings have two to eight slots and their
indices wrap. Opcodes, register numbers and record layouts have the values of the
source.

Deadlock is not checked in these runs except `wave_control`: a fatal error ends
the library, a process that exited and was detached from is left alone, and an
algorithm ends. The fairness of `ProcessLifecycle` is that of a call in progress
(`Continue`) and of a client that fetches and processes events as its
documentation asks (`ServeEvents`); nothing is assumed of the inferior, of
attaches or of settings. That of `Addressing` is `StepTransfer`, an iteration of
the loop in `xfer_memory`, which nothing can interrupt.

### Findings

The model follows the code where it disagrees with its own comments,
assertions or documentation. The first disagreement has a run. The others are
each reproduced by the configuration named with them (run it on the module
named like the others of its component), whose one property TLC violates
(`AlgorithmsFindings.cfg` has the three of its findings and is run with `-continue`); the
passing runs are about what holds in spite of them.

1. `resume_queues` (`process.cpp:1002`) tests for the invalid flag on the value
   whose flags were just stripped, so a queue destroyed while suspended fails
   the count assertion of lines 1014-1017 (`invalid_queue_resumed`), although
   the comment of lines 995-997 expects such queues. The driver's header says that
   a resume may be told so ("queue does not exist", `kfd_ioctl.h:1229-1233`) and
   that "Destruction of a suspended queue is blocked until the queue is resumed"
   (`kfd_ioctl.h:1192-1195`); a driver that keeps to the second gives the flag only
   for a queue that went with its process.
2. A queue destroyed before the suspend of `amd_dbgapi_wave_stop` or
   `amd_dbgapi_wave_resume` is only marked invalid; the wave is still found and
   `waves_running` is called on an empty count (`queue.cpp:1032`;
   `RunControlWaveCount.cfg`).
3. `next_pending_event` keeps `queue_t` pointers across `update_queues`, which
   may destroy them (`process.cpp:2051`; `RunControlQueuePointers.cfg`).
4. `write_register` (`wave.cpp:789`) writes to the save area of a queue that
   its own suspend has just found to be gone, which the comment of
   `~aql_queue_t` (`queue.cpp:382-385`) says must not happen
   (`MemoryCacheStaleData.cfg`).
5. A queue that is destroyed while a wave of it is displaced fails the
   assertion of `~wave_t` (`wave.cpp:62`) unless a suspend found it to be
   invalid before `update_queues` did (`DisplacedDestroyed.cfg`).
6. When the ring is full, `get_os_queue_packet_id` and `active_packets`
   (`queue.cpp:590-606`, `941-955`) cannot tell it from an empty one: read and
   write index fall in the same slot (`AddressingFullRing.cfg`).
7. A write of two or three bytes to a register with read-only bits puts the
   first byte of the value in all of them (`wave.cpp:784`), where the comment of
   lines 751-752 replaces the read-only bits only
   (`AlgorithmsFindings.cfg`, `WriteExact`).
8. A transfer that starts at the null address of the private space is given
   zero contiguous bytes, counts zero moved as success and goes round its loop for ever (`wave.cpp:824-883`;
   `AddressingNullTransfer.cfg`).
9. `wave_set_state` "clears the exceptions ... that have already been reported"
   (`architecture.cpp:1577-1579`), but before gfx12 the conversion of
   `set_exceptions` (`1281-1322`) leaves out two of them: `inexact`, which a program
   may enable, and `xnack_error`, which cannot be masked and which line 1332 asks to
   be cleared. They stay set (`WaveControlReported.cfg`). A memory violation
   (`mem_viol` together with `xnack_error`; `mem_viol` alone is reported as an
   address error) or an inexact result is then reported again at every later stop by
   the trap handler, whatever stopped the wave; where exceptions are not precise the
   stale flag also hides the single-step reason of a simulated step. What holds is
   `OnlyForgottenLeft`, and `ReportedIsRaised` up to these two.
10. A client that writes the pseudo status register of a stopped wave without
    the halt bit lets it run: the value goes to the hardware's halt bit as well
    as to the saved one (`2231-2250`; `WaveControlUnhalted.cfg`). What holds is
    `HaltedUnlessFreed`; of a wave that was freed nothing more is said once its
    queue runs.
11. The flag `runtime_enable_during_attach` stays set when attach finds a
    runtime it may not debug (`process.cpp:1422-1423`, `1581`); the event of a
    later unload is then not answered (`event.cpp:149`), and the runtime waits
    (`ProcessLifecycleContinues.cfg`).
12. With precise memory on, an agent list asked for after the process exited
    clears the support for it, and the detach that follows throws
    (`process.cpp:487-488`) where the documentation says it succeeds
    (`amd-dbgapi.h.in:1955-1956`; `ProcessLifecycleDetaches.cfg`).
13. `set_exceptions_reported` takes the exit of the process for a fatal error
    (`process.cpp:1402-1406`, `1467-1469`; `ProcessLifecycleExit.cfg`).
14. The event that the runtime was loaded with success is queued
    (`process.cpp:1395-1396`) before the breakpoint is inserted, whose failure
    makes the state "restriction" (`1510-1516`; documented at
    `amd-dbgapi.h.in:6864-6871`; `ProcessLifecycleTold.cfg`).
15. The simulation of `s_cbranch_join` pops the branch stack
    (`architecture.cpp:1145-1159`) before it asks whether the branch is taken
    (line 1181), which compares with the stack pointer just changed: the lanes
    that waited go on behind the join instead of where they were to go
    (`AlgorithmsFindings.cfg`, whose `LanesRunOnce` says that every lane runs through
    its blocks). The `algorithms` run simulates the join too: the lanes that are
    popped are the right ones, no lane runs what is not its own, and every lane
    arrives unless a join with waiting lanes was simulated.
16. `detach` removes the watchpoints without destroying them
    (`process.cpp:207-209`), and `remove_watchpoint` clears the trap override only
    when one is left (`741-746`). With two or more the override stays set, and waves
    keep their trap bit; so it does with none, after a first insertion that was
    refused. The header says that a detached process goes on "unaffected by the
    library" (`amd-dbgapi.h.in:1958-1959`); whether disabling debug mode resets the
    override is not said in `kfd_ioctl.h` (`ProcessLifecycleTraps.cfg`).
17. `remove_watchpoint` of an agent never clears its entry of `m_watchpoints`. A
    later object at the same heap address is taken for it, and a removal clears a
    register that is not the library's, which is a fatal error, where "Removing a
    watchpoint that is not inserted is a no-op" (`process.cpp:728-729`;
    `WatchpointsReused.cfg`).
18. A watch request that is larger than any range and starts where a largest one
    starts fails the assertion of `watchpoint.cpp:124`. The header promises a
    watchpoint that covers as much as possible (`amd-dbgapi.h.in:4742-4745`), and the
    comment of `watchpoint.cpp:79-80` says that such requests are rejected, which the
    other too large ones are not either (`AlgorithmsFindings.cfg`,
    `WatchAsPromised`).

Smaller disagreements between the code and its documentation, which the models
follow the code in and which have no run:

* `next_pending_event` (`process.cpp:2198`) calls `resume_queues` on a frozen
  process, whose first statement asserts that it is not frozen.
* `client_visible_state` does not return "the last resumed state" of a
  single-stepping wave that was stopped by request: it shows it as running
  until the event is reported (`wave.cpp:943-945`).
* When the chunks of a queue are used up the library ends with `fatal_error`
  (`queue.cpp:468`) where the header promises a status.
* `amd_dbgapi_displaced_stepping_start` does not refuse a frozen process, which
  its documentation says it does.
* `amd_dbgapi_wave_resume` (`wave.cpp:1137`) lets a displaced wave that has
  executed its instruction be stepped again, which its documentation says it
  refuses; a simulated instruction is then simulated twice.
* `can_simulate` lists `s_cbranch_i_fork` twice and leaves out
  `s_cbranch_g_fork` (`architecture.cpp:1034-1038`), which is then neither
  displaced nor simulated, although "all PC reading/modifying instructions are
  simulated" (lines 1017-1018). `DecodesAs` states what the code does.
* `s_swappc_b64` with the same source and destination jumps to its own return
  address when simulated.
* A watchpoint set before the runtime is loaded is refused by the driver with
  `EACCES` (`kfd_ioctl.h:1035-1036`), a fatal error in `set_address_watch`, although
  `set_wave_launch_trap_override` expects it (`process.cpp:464-467`).
* On gfx12, `wave_set_halt` (`architecture.cpp:6349`) uses the mask of another
  register, `simulate` reads the halt bit of the status register, which is now
  in another one, and a write of the pseudo private state ignores its value
  (`6706-6720`; so does `WriteStatePriv`). Writes of the pseudo status ignore the read-only mask.
* `agent_t::insert_watchpoint` (`agent.cpp:207`) lets an index equal to the
  register count through, and reads `os_watch_id` uninitialised when the
  process has exited.
* `watchpoint_shared_kind` returns what the last agent says; a first insertion
  that fails leaves the trap override on.
* On gfx11, `register_address` (`architecture.cpp:5383-5386`) leaves out the
  last vector register by comparing with `<`.
* The number of contiguous bytes of a conversion between generic and global
  runs across the apertures; the count of a transfer is lost when the mapping
  ends where a chunk does (`wave.cpp:864`, `memory.cpp:679`).
* A setting made after the kernel unloaded the runtime, and before the library
  learned it, reaches a driver that is assumed to ignore it.
* On process exit the documentation (`amd-dbgapi.h.in:1884-1888`) promises
  events for the unloaded runtime and the code objects that the code does not
  create.

## Proofs

TLAPS proves, for every set of queues and waves and every assignment of waves
to queues, from `ConstantsAssumption` alone:

* `TypeCorrect`: `Spec => []TypeOK` (`RunControl_proofs`).
* `SuspensionAgreement`: a live queue is suspended in the driver exactly when
  the library has it suspended or takes it for all-stopped.
* `WavesObeyClient`: the registers of a wave on a live queue say what the
  library told the client, or the update is in the cache and the queue is off
  the hardware.
* `NothingIsLost`: the assertion of `discard` that no dirty line is dropped
  and the assertion of `update_waves` that no stopped wave disappears cannot
  fail (also in `RunControl_proofs`).

The properties are not inductive by themselves. The invariant is
`Inv == TypeOK /\ Core /\ CallHolds`. `Core` adds to the two properties that
objects and hardware have matching lifetimes (`Lifetimes`, `HeldIsKnown`,
`KnownHasQueue`), that a queue that has been put back has no count unless it
was skipped (`RunningUncounted`), that a suspended queue has all its waves
known (`SuspendedPresent`) and that cached updates belong to known waves
(`DirtyIsKnown`). `CallHolds` says what the stage of the call in progress
implies of its queues: the queues about to be resumed are suspended, the queues
about to be suspended are not. Without it the action that completes a suspend
could start from a state in which the listener forgets a count, and agreement
would be lost. Each action preserves each conjunct; there is one lemma per
action group.

`RunControlCalls_proofs` goes on from there:

* `WavesCounted`: `m_waves_running` is the number of waves that are not
  stopped.
* `NoneMissed`: every wave of a suspended queue is known, and stopped if the
  trap handler stopped it.
* `ProgressMade`: between calls no queue is suspended if forward progress is
  needed.
* `FrozenFlushed`: a frozen process has no queue on the hardware and its
  registers are in memory.
* `NoneLeftAtLaunch`: with normal wave creation no wave is left halted at its
  entry point.
* `Asserted`: seven assertions of the library never fail.

The invariant is `CallsInv == Inv /\ CallInv /\ WaveInv /\ ResumeTarget`. A
call may only resume what it suspended and what has not been swept since
(`CallQueues`), owes the driver every queue it holds (`ProgressDue`), and a
freeze has every live queue before its body (`FreezeHolds`). `HeldSeen` says of
every queue the driver holds what `NothingMissed` says of the suspended ones:
an all-stopped queue becomes suspended without being read, so that the property
must have held of it before. `LaunchShown` follows a change of the launch mode
through the call and its update, because the driver has the new mode before the
library has met all queues. `HiddenShape` and `RecordsLive` exclude waves that could trap
unseen, and `ResumeTarget` keeps the wave of a resume stopped, with its event
processed, until its queue is suspended.

The same module proves `InTurn`, `Answering` and `StopsStayVisible`
(`EventsInTurn`, `StepAnswered` and `StopStaysVisible`, the last two about
steps). `OneEventPerWave` is not inductive: a wave gets a new event when it
traps, is stopped, is resumed or is destroyed, and that it has no other event
then needs `EventsOf`, which ties the one event it may have to
`m_last_stop_event_id` and to its visibility. On the side of the FIFO the lemmas
`JoinInjective`, `TailInjective` and `OrderOfAll` say that appending the events of
a call, in whatever order the waves were visited, and taking the head keep it
free of repetitions.

For the cache (`MemoryCache_proofs`), from `LayoutAssumption` (save areas are
disjoint sets of whole lines and a layout puts distinct bytes at distinct
addresses of the area of their queue) and `ByteAssumption`:

* `CacheInvisible`: `Spec => RegistersKept`, that is, MemoryCache implements
  RegisterFile. The refinement mapping takes the registers from the hardware
  while the queue runs, and from the save area as seen through the cache while
  it is suspended.
* `NoUpdateDropped`: `Spec => []NothingToDiscard`.
* `OneWaveObject`: `Spec => [](TypeOK /\ CreatedOnce)`.

The inductive invariant adds to the properties what makes the mapping work:
the clean lines of a suspended queue are those in memory (`CleanIsMemory`, so
that a write back makes the memory equal to what is seen); while a queue runs,
what is cached of its stopped waves is what the hardware has
(`StoppedIsCached`, so that a read needs no suspend); a wave whose id byte is
undefined has not been created (`IdIsKnown`); a call in progress has its queue
suspended if the queue still exists (`CallHolds`). First come lemmas on the
four cache operations (what each one leaves visible), then one lemma per action
that it preserves the invariant and is a step of RegisterFile or a stutter.

For the watchpoints (`Watchpoints_proofs`), from `WatchpointsAssumption`, for any
number of agents, registers, waves and watchpoints:

* `Covered` and `Reported`: `TrapsCoverWatches` and `ReportedIsTriggered`.
* `Agreement`: `RegistersAgree`.
* `Agreeing`: `WatchesAgree`, which adds that a call fails, while the process lives,
  only for a watchpoint at the address of one that was destroyed (finding 17).

The allocator may give out any address that is free.

The invariant says what is programmed at every step of a call that goes from
agent to agent: which agents must have the watchpoint of the call and which may
not (`Programmed`, `Owned`), that only the calls for the first and the last
watchpoint run with the traps off (`TrapsFollow`), and that a register a wave has
triggered keeps its watchpoint (`StillThere`). They are claimed only of a process
that has neither exited nor failed. The set of live watchpoints is finite because
the heap is (`IsFiniteSet(Heap)`): the code asks for its cardinality.

For the process (`ProcessLifecycle_proofs`), from `LifecycleAssumption`, for any
code objects, threads and number of attaches: `Followed`, `Listed` and
`Answered` (`DriverFollows`, `ListReported` and `AnswersMatch`). `DriverFollows`
allows, after a detach, the trap override of finding 16 and no other setting. The invariant has the
runtime state that each stage of a call implies (`CallShape`,
`BreakpointShape`), relates the exception the driver holds to what the library
knows or is about to record (`Exceptions`), and says that at most one answer to
the runtime exists, in the FIFO or reported (`Answering`), which settings are in
force at the driver (`DriverSet`), and that a list the client has not seen is
marked as changed at every stage of an update (`ListSafe`).

For displaced stepping (`DisplacedStepping_proofs`), from `CodeAssumption` (where
the program is, and that an instruction that is copied is followed by the next),
`PoolAssumption` (the queues' memory does not overlap) and `WaveAssumption`, for
any program, breakpoints, queues, waves and number of chunks:

* `Accounted` and `NoneLeft`: `BuffersAccounted` and `DetachLeavesNone`.
* `ChunksSuffice`: `BuffersSuffice`, if each queue has as many chunks as waves and
  one more where stopped waves are parked (`EnoughChunks`). It is the least that is
  enough. The driver chooses the size: nothing under `src/` guarantees it, and
  `displaced_two_queues` shows allocations that fail without it. The proof counts: a
  pool that is used up has each chunk, but the one waves are parked at, answered for
  by a wave, and no wave answers for two.
* `StepsInline`: `Spec => StepsAreInline`, if clients complete a step before they
  step again (`Restep` is false). The code does not refuse a second step (see the
  smaller disagreements); with it, a simulated instruction is simulated twice.

The invariant `DInv` is a conjunction. `PoolInv` is the accounting in a form that an
allocation and a release can be shown to keep (`Accounts`: free list, objects and the
two instructions share the first `next` chunks between them); `ObjInv` counts references
and places every buffer at the end of its chunk; `MemInv` is what the memory of an
existing queue holds, from which the guards stay written although they are written only
once; `WaveAt` is where each wave is (in its buffer or behind it, where it was
simulated to, parked, hidden, or in the program), which makes the pc that a client
computes an address of the program; `TermUsed` is needed for the counting. TLC has
checked `DInv` on the instances of the runs. The lemmas are about the arithmetic of
chunks, about taking and giving back a chunk, then one per action for the invariant
and one for the step of `InlineStepping` it is.

For the registers of a wave (`WaveControl_proofs`), from `WaveControlAssumption`, for
any program, set of exceptions and set of configurations:

* `StateKept` and `StepsAreSingle`: `ProgramStateKept` and `StepsOnce`.
* `StopsAreExplained`: `ReportedIsRaised`.
* `StoppedStaysHalted` and `ReportedStayCleared`: `HaltedUnlessFreed` and
  `OnlyForgottenLeft`, which is what holds of the two statements that the comments of
  `wave_set_state` make (findings 10 and 9).

All five have one condition, `HaltsRespected`, which the configurations of the run
satisfy: gfx12 waves are neither held at their launch nor resumed with exceptions
(where `wave_set_halt` uses the mask of another register), a trap handler older than
version 10 runs only where the hardware sets up the ttmps, and a program does
not halt itself right before its entry, where it cannot be told from a wave held at
its launch. Any exception may be raised and enabled, and the client may clear the
halt bit of a stopped wave.

Nothing in the properties says who halted a wave, and all of the proof turns on
that. `Held` says whether the trap handler or the library has stopped the wave (in the
`stopped` bit, or in the trap handler's own mark before the ttmps are set up), and
`KeptInv` what the registers are then (`HeldRegs`: the program's halt bit is the saved
one, its pc the saved one if the wave is parked) and otherwise (`FreeRegs`: they are
where the program left them); `Unseen` is what may be in ttmps nobody has initialised.
`SteppingInv` counts the instruction of a step, which the wave may have executed and
been halted for without having been stopped. `RaisedInv` says that a wave that runs has
no exception set that signals but those an earlier resume forgot (`intent.stale`), so
that what else is set when it stops was raised since, and that what is set in a stopped
wave is what a resume clears or forgets. First come
lemmas on `wave_get_state`, `wave_set_state`, `park`, `unpark` and the initialization
of the ttmps for each family of architectures, then one per action.

For addresses and packets (`Addressing_proofs`), from `AddressAssumption` (sizes are not
zero and segments fit their apertures) and `CasesAssumption` (what an input is):

* `PacketsAreFound`: `PacketsFound`, for rings of any size with their indices anywhere,
  if no ring is full (`RingsHaveRoom`; finding 6, which `AddressingFullRing.cfg` shows,
  is what happens otherwise). A size that is not a power of two is a fatal error.
* `ScratchIsDisjoint`: `ScratchDisjoint`, for any number of dies, engines and waves,
  without a condition. It includes the check of the flat scratch register on the
  architectures that have it architected (gfx940, gfx11).
* `TransfersAreExact`: `TransfersExact`, for any request, if scratch memory is made of
  whole interleaves and is shorter than the private segment (`ScratchesFit`). A
  workgroup that is gone once its queue is suspended moves nothing.
* `AddressesAreSound`: `AddressesSound`, which is the last two and `ConversionsInvert`,
  for any address, spaces, lane and wave, if moreover scratch memory is memory outside
  the apertures (`ScratchesPlaced`).

`ScratchesFit` is what the code computes: `scratch_memory_region` takes the size of a
wave's memory from a field of at most 15 bits in units of 1024 or 256 bytes
(`architecture.cpp:3303`, `5824`), a multiple of the interleave of 4 and far below
2^32. Without it the last interleave of a wave's memory would be cut, or an offset
would wrap. That scratch memory is memory outside the apertures comes from outside
`src/`: the hardware takes no address of an aperture for one of memory.

The ring: slot and packet are the same number modulo the size, and the distance from
the read index is less than the size, so that it can be found from the slot on either
side of the end. Scratch memory: `queue_scratch_region` numbers the waves of all dies,
and two waves with one number are one wave. Transfers: `TransfersInv` adds to the
property what was established before a transfer was given to the process, to the
workgroup or to the wave (`Serving`), in particular that it has a wave and a lane if
it needs one; a chunk is contiguous in global memory because `Swizzle` is so up to the
end of an interleave. Conversions: the address is lowered, every space that reaches the
wave's memory is described by the offset an address of it has there (`OffsetOf`,
`AddressOf`), each the inverse of the other on the bytes of a lane, and a conversion is
the composition of the two; that a conversion can be undone is then shown once and not for
every pair of spaces. Different lanes are apart because an offset determines its
lane and its interleave. Most of it is division and remainder by a variable, which
the prover does not know; the lemmas at the start of the module say what it needs.

Only model-checked: the liveness properties `CallsReturn`, `TrapReported`,
`ThreadResumed`, `RuntimeAnswered` and `TransfersEnd`, because fairness is out of the
prover's reach; and the properties that `Algorithms` adds to `Addressing`. `InstructionsAgree`,
`RecordsTile`, `WritesExact` and `WatchesTheRequest` are about bitwise operators on words
and folds over tables and control stacks, whose values for every input take an induction
over data. Every other safety property of the runs has a theorem.

## Not modelled

* In RunControl, registers are atomic per wave; in MemoryCache, waves neither
  end nor appear after the start, and the all-stopped shortcut is left out (a
  queue it skips is, for the cache, one whose waves are all stopped).
* Memory access errors in cached accesses other than a prefetch. MemoryCache
  knows no parked waves, pseudo registers or masks: they are in WaveControl and
  SaveArea.
* In Watchpoints, suspending the queues to enable the traps is atomic. In
  WaveControl the trap handler is the one the library's comments and decoding
  of its ttmps imply. In ProcessLifecycle calls that do not touch the runtime
  are atomic, and precise memory and precise ALU exceptions are one setting.
* The creation of dispatch and workgroup objects, and their mark and sweep:
  what decides them, the packet of a wave, is in PacketRing.
* In DisplacedStepping, calls are atomic: the suspends they begin with are
  RunControl's subject. Waves halted by the program itself (`simulate` then
  leaves the instruction to the hardware), exceptions sent with a resume, and
  failing reads of the instruction bytes are left out; waves do not appear
  after the start (the halt bit of a program is WaveControl's subject). Where the trap handler leaves the pc at a guard is assumed.
* The device memory violations that `next_pending_event` defers per agent.
* Status codes of the API, except where a refusal is a guard.
* The TRY/CATCH retry around individual driver calls, and process exit midway
  through the list of listeners.
* A queue id reused by a new queue between two snapshots.
* An error of `write_back` for a destroyed queue whose save area is already
  unmapped: the exception leaves `resume_queues` before the driver is called.
* Names and types of registers, disassembly, formatting, logging, ioctl and
  sysfs plumbing.

## Plan

In order, the most important behaviour first.

1. Run control (done): model, runs, agreement and obedience theorems.
2. Memory cache (done): the cache against a register file, with the proof that
   it cannot be noticed.
3. Displaced stepping (done): buffers, sharing, references, parking and
   simulated instructions against stepping through the program, with the proof.
4. Watchpoints and agents (done): insertion and removal over several agents
   when one of them fails; the programmed range against its definition.
5. Wave control registers on every architecture (done).
6. Attach, detach, runtime, code objects and settings (done).
7. Algorithms (done): instructions, save area, address spaces, packet ring.
8. Left to model: queue discovery (the snapshot loop when queues appear between
   two calls, reuse of queue ids); an exception of `write_back` in
   `resume_queues`; memory violations deferred per agent; mark and sweep of
   dispatches and workgroups.
9. Theorems (done for every component but the instructions and the save area,
   which are out of the prover's reach).
