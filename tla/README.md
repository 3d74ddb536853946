# Pepp: a verification project

Pepp assembles and simulates the Pep/9, Pep/10 and RISC-V machines. Its newest
and most delicate part, under `core/core/sim`, records every instruction as a
small program for a trace machine, so that a simulation can be stepped
backwards. A mistake there is silent: the simulator runs on and a user who steps
back sees a state the machine was never in. Around it lie parts that are just as
hard to test: the buses and data paths, the threads of a simulated program, the
channels of memory-mapped devices, and the debugger of the application, which
runs the machine in bursts on the thread of the user interface. This project
models these parts in TLA+, model-checks them with TLC and proves, with TLAPS and
for every value of their constants, the safety of most of them (section 5). Where the
code does not do what one would want of it, the property names the case and holds
beside it, or a run shows it (section 4).

## 1. Inventory

Paths are relative to `core/core` in the first part of the table and to `lib` in
the second.

| Component | State | Operations | Talks to |
|---|---|---|---|
| Buffer pool, buffer chains (`ds/alloc/pagechain`) | slots with generation and free list; per chain its buffers and links | `alloc_buffer`, `free_buffer`, `find`; `append`, `reserve`, `ensure_capacity`, `clear` | held by ring nodes and stencils |
| Trace ring (`sim/debugger/tvm_tracebuffer`) | head, tail, nodes, open recordings, watermarks | `begin`, `commit`, `abort`, `acknowledge`, `clear`, `on_watermark`, cursors, iterator | recorder writes, consumer reads; callbacks run inside `begin` and `commit` |
| Recorder and stencils (`trace_recorder`, `tvm_tracebuffer`) | body, data anchor and data start of each recording; stencil map, pending hashes | `emit_*`, `resolve_body`, `flush_to_ring` | devices call it before they change |
| Trace machine (`tvm_decoder`, `tvm_backend`, `tvm_apply_backend`, `tvm_interpreter`, `tvm_machine`) | IP, DP, DS, flags, direction | one per opcode, `run`, `run_each` | reads buffers, writes devices |
| Pep/ISA CPU, register banks (`sim/cores/cpu`) | registers, flags, call depth | `clock_tick`, handlers | opens and closes recordings, writes memory |
| RAM (`sim/memory/ram`), FIFO port (`sim/memory/io`) | bytes; input queue with a read position, output queue | `read`, `write`, `rewind_input`, `advance_input` | record through the recorder |
| System, trace device (`sim/system`, `sim/debugger/trace_device`) | the devices | `initialize`, `reset`, `bind_recorders` | everything above |
| Bus (`sim/memory/bus`) | address map, targets | `initialize`, `read`, `write`, `clear` | CPU in front, devices behind |
| Clock tree, device tree, register scan (`sim/`) | clocks; tree; table | pulses, parsing, access by name | |
| Data structures (`ds/`), compiler (`compile/`, `langs/`), formats, test interpreter | per structure | sequential | |
| **`lib`** | | | |
| Bus (`sim3/subsystems/bus`, `sim3/trace/modified.hpp`) | address map, targets | `pushFrontTarget`, `removeAllTargets`, `read`, `write`, `clear`, `dump`, translation both ways | processors in front, devices behind |
| Data paths (`sim3/api/traced`) | numbered routes; the stack of the current path | `add`, `find`, the guards of an access | buses push and pop, packets name the path |
| Broadcast channels (`sim3/subsystems/ram/broadcast`) | linked events, head, tail, a pointer per endpoint | publish, read, unread, unwrite, revert, clear, clone | memory-mapped ports on one side, the consoles on the other |
| Guest threads (`sim3/systems/notraced_riscv_isa3_system`) | threads, the queues of suspended and blocked ones | POSIX and native system calls, `preempt` | the simulated program calls, the host preempts |
| Sessions (`project/pep10`) | state, pending pause, queued bursts | Execute, Debug, Continue, steps, Stop, `onDeferredExecution` | the Qt event loop delivers commands and bursts in turn |
| Breakpoints (`sim/debug/debugger`, `text/editor`, `project/pep10`) | set of addresses with conditions, table, markers in two margins | click, edit, assemble, clear all | the processor asks the set at each PC |
| Stack trace (`sim/debug/stack_tracer`, `stack_layout`) | stacks, frames, slots, last SP | a command per tag; CALL, RET, traps | the processor reports calls and changes of SP |
| Memory pane (`memory/hexdump`) | PC, SP and modified intervals, now and at the last update | update after a burst, repaint, edit | reads the trace and tells the view which rows to paint |
| Watch expressions, settings, windows, the other processors; programs (`bin/`) | | | |

What is hard in it:

- *Interleaving without threads.* Several initiators may each have a recording
  open, begin and commit in different orders, and outlive the slot they began in.
- *Re-entrancy.* `advance_slot()` runs user callbacks in the middle of `begin()`
  and at the end of `commit()`; a callback may `acknowledge()` or `clear()`.
- *Partial failure.* The pool may run out of buffers at four points of a
  recording; an instruction may throw half way.
- *Reuse.* Ring slots, buffer ids, data buffers and stencils are all recycled
  while references to earlier occupants are still around.
- *Inverse replay.* The same program runs in both directions, and each record
  must be exactly its own inverse.
- *Events in turn.* The user's commands and the bursts of a running program are
  events of one queue: a command may come between two bursts.
- *Cooperation.* Guest threads leave the processor at system calls only, and
  four structures say where a thread is.
- *Incremental views.* The memory pane, the margins and the stack trace are not
  computed anew but changed along, and show something wrong from the first
  change that is missed.

There is no concurrency between host threads, no message passing over a network
and no persistence. Liveness is stated where the code schedules something: guest
threads that wait for the processor, and the event loop that drains its queue.
The trace itself waits for nothing; whether a consumer ever acknowledges or a
user ever steps is up to them, and its specifications state no fairness.

Correctness, per component: the pool never shares or loses a buffer and an
expired id does not resolve; the ring is one log in begin order that loses
nothing unacknowledged; a program replays exactly its own writes; undo restores
what the machine showed; a bus is one flat memory; a path leads back along the
buses crossed; a channel is one log with readers; a thread is in one place and
continues where it left; a session pauses where it was asked to; a marker is a
breakpoint; the trace of a stack is the stack; the pane is what a full repaint
would show.

`PROJECT.json` lists every component, the modelled ones and the others with the
reason, and under `hazards` each of the difficulties at its line.

## 2. Modules

| Module | Models | Lines of thought |
|---|---|---|
| `TraceBuffer` | the ring | an advance is several steps, so callbacks interleave where the code lets them; refinement `ImplementsLog` |
| `TraceLog` | what the ring promises | an abstract log; no slots, no watermarks |
| `MCTraceBuffer`, `MCTraceVM` | instances | symmetry of initiators and programs; the ring beside the trace machine |
| `BufferPool`, `MCBufferPool` | pool and chains | history variables record which ids were handed out |
| `TraceProgram`, `MCTraceProgram` | recorder, stencils, data pointer, replay of one program | a payload is where it was stored |
| `TraceReplay`, `MCTraceReplay` | CPU, RAM and port recorded and stepped back and forth | a program is its list of changes |
| `TraceMachine` | calls, invertible calls, stops and restarts of the trace machine | programs are arbitrary instructions |
| `MemoryBus`, `DataPaths`, `MCBuses` | both buses; routes and the current path | ghosts: a map of single addresses, a flat memory, the C++ call stack |
| `Channel`, `BroadcastLog`, `MCChannel` | linked events and endpoints; the log they promise | refinement `ImplementsBroadcast` |
| `GuestThreads` | scheduling of guest threads | the guest is any program; fairness of yielding |
| `DebugSession` | run and debugging sessions | the simulated program is any program; fairness of the event loop |
| `Breakpoints`, `MemoryPane`, `MCViews` | breakpoints, table, margins; the pane | what is shown against what is |
| `StackTracer` | the stack trace | the program's own activation records beside it |
| `TraceBufferProofs`, `BufferPoolProofs`, `BusProofs`, `ChannelProofs`, `GuestThreadsProofs`, `DebuggerProofs`, `ViewProofs` | theorems | section 5; `TraceBufferProofs` is about `TraceMachine` too, `BusProofs` about `MemoryBus` and `DataPaths`, `DebuggerProofs` about `DebugSession` and `StackTracer`, `ViewProofs` about `Breakpoints` and `MemoryPane` |
| `NatFacts` | induction over natural numbers, quotients and remainders | shared by the proofs |

The modules of the trace are layers of one data path and abstract each other:
`TraceReplay` takes programs as lists of changes, `TraceProgram` shows that what is
encoded and shared is such a list, `TraceMachine` shows that the control of a replay
cannot lose its direction, `TraceBuffer` treats a program as a value and shows that
it is kept in its place, and `BufferPool` shows that the buffers beneath are not
confused. `MCTraceVM`, `MCBuses` and `MCViews` each check two components that share
no state: one moves while the other is as it was at the start, since interleaving
them would add nothing.

### TraceBuffer

`head`, `tail`, `ring`, `recs`, `watermarks` are `_head`, `_tail`, `_ring`,
`_recordings`, `_watermarks`. `pc`, `resume`, `occ`, `next` are the stack of the
call in progress while `advance_slot()` loops over the watermarks: `pc` says
whether the loop or a callback is running, `resume` whose `begin()` continues,
`occ` is the local the loop compares with. A node's `locations` is the buffer;
a node without one reads as null locations, a fresh one as `Stale` bytes, which
shows that the tombstone written by `begin()` is needed. Thresholds are slots
rather than fractions; a watermark is `late` if its callback was called when the
occupancy was below it again. `Begin`, `Commit`, `CommitThrows`, `Abort`, `OnWatermark`,
`Acknowledge` and `Clear` are the calls; `NextWatermark`, `CallbackReturns` and
`AdvanceReturns` the steps of an advance. `Acknowledge` and `Clear` may run from
a callback; `begin()`, `commit()` and `on_watermark()` from a callback are
excluded (the first two would re-enter the recording that is being closed, the
last would reallocate the vector being iterated).

### BufferPool

Ids are packed as in the code, with `Generations` generations. `BufferChain::clear()`
unlinks first and then frees buffer by buffer. `FreeAgain` is a second `free_buffer()`
through an id that was already freed, at most a generation's worth of occupants
later, beyond which the code makes no promise. `minted` and `ahead` are history.

### TraceProgram

A write reserves a payload in the initiator's data chain (`Reservations`),
moves DP to it by the cheapest instruction (`DpUpdate`) and emits the operation
(`EmitSet`); steps carry an immediate and leave DP alone (`EmitStep`). Each
`emit_*` is an action: memories that are wide put the address ahead of the data
(SETMEMDX) and narrow ones in the instruction (SETMEMX), ports always ahead of
it (MMIO), registers need none (SETREGX). `Run` is the trace machine over a
body, starting at the program's data, one operator per instruction. Hashes are a
parameter; the instance makes all bodies of one length collide. Sizes of bodies
are instruction counts, and ISYN, prefix and postfix, which touch neither DP nor
a device, are left out. Payloads are assumed shorter than half a buffer, where
`on_dpincr()` reads the step as a signed 16-bit number; no device writes as much
in one access. One ring slot is modelled: `Acknowledge` frees its chains, after
which buffer ids come back.

### TraceReplay

`Fetch` starts `clock_tick()` and picks a handler, `WriteBack` ends it. A handler
is the sequence of its effects in the order of the code: reads, stores to memory
or port, register and flag stores, jumps of the working copy of PC, steps of the
call depth. `DecodeOpAddr`, `Ret`, `Sret`, `Moves`, `Monadic`, `Branches`,
`Calls`, `AdjustSP`, `Arithmetic`, `Compares`, `Loads` and `Stores` are the
handlers, `Handlers` the switch over opcodes. What is read or computed is any of
a few values, and A stands for A and X, which the handlers treat alike; SP, PC,
return addresses and call depth are computed as in the code. Each effect is an
action of the device that carries it out, recording before it changes. `Throw` is
an exception out of any memory or port access, or an opcode that is not
implemented; `WriteBack(FALSE)` is a `commit()` that finds no buffer.

`Undo` and `Redo` stand for the driver that will step through the ring; it is
not in the repository yet and they do what the tests do: whole programs, between
instructions, newest first backwards. The ghosts `shown`, `lost` and `awry`
record what the machine showed after each program, what was changed without a
record that was kept, and where the record is known not to be what happened
(section 4).

### TraceMachine

`depth` and `floor` are the backend's and outlive a program; `stack`, `live` and
`failed` the machine's. An entry of the stack is the kind of call and the target
it took. `Replay` is the driver: it starts `run_each()`, sets the direction first
or, after a hard stop, may go on without. Programs are any instructions; `paired`
ones end a call with the return of its kind. What an operation does to memory is
left out (`OnOther`, which may fail).

### MemoryBus and DataPaths

`elements` is the sorted list of ranges, `Attach` the whole of
`insert_or_overwrite()`: the ranges covered are erased (`Kept`), the two next to the
new one are shrunk if they meet it (`Shrunk`), the new one is appended and all are
sorted (`Vectors`; the order of equal ranges is open). `version` chooses between the
bus of `lib/sim3`, whose targets are attached whole and once, and that of `core`,
whose mappings name any part of a target. A target may be attached anywhere: over
others, inside one, as ports are inside RAM, or partly over one. Accesses are of any
length and start anywhere; they are split as the code does (`Pieces`); a read takes
the same pieces as a write and is not an action. Rights of a mapping are left out,
since no access consults them.

What the bus should do is kept beside it: `cell`, where each address leads, and
`ideal`, a flat memory. `torn` are the addresses `insert_or_overwrite()` gets wrong:
what lies above a new range inside an older one, and the end of a new range that
cuts one above (`TornAbove`, `TornIn`). An access is `Promised` a flat memory if none
of its addresses is torn and nothing is in front of the rest of a target it enters;
from inside a target it may go on into the next, which is refused as in the code.

`DataPaths` has `steps` and `deviceToPaths` as the code, `stack` as the trace
buffer's stack of paths, and `calls`, a ghost, as the C++ stack of accesses.
Systems register each bus an access can start at; routes are added in any order or
not at all, a route whose lookup ends at a neighbour gets its number (`Add`), and
numbers do not wrap. A call is `known` if its route has a number of its own.

### Channel

Events are numbered as they are allocated (`MaxEvents`) and keep their links when
they are taken back. Operations of endpoints are actions; a revert of more than
one event is one action, as in the code. `BroadcastLog` is what a user may rely
on: one sequence of values, each endpoint at a place in it or on its way back to
it, and a value heard only when it is in force.

### GuestThreads

Registers are the one a call answers in, A0: `stored` when a thread leaves the
processor, `Stale` once it has continued. The guest is any program of a POSIX or
native interface (`guest`); its *liberties* are what the code does not survive
everywhere: killing another thread, yielding to a blocked one, letting the main
thread wait, leaving through the thread-call interface. Error numbers are one
value, signals that are handled only move PC, a forked machine is an equal state.

### DebugSession

`queue` holds the bursts queued with the event loop; `Deliver`, `Tick`,
`Terminate`, `PauseLoop`, `Resume` and `Pause` are the steps of
`onDeferredExecution()`. Commands are enabled as `allowedDebugging()` and
`allowedSteps()` enable their buttons; `onDebuggingPause()` is never enabled
there and is left out. A *patient* user waits for queued bursts and writes
source that assembles, a *hasty* one does neither. The program is any program:
what an instruction does to depth, PC and power is an input. The call depth is
not reset between sessions, as in the code.

### Breakpoints and MemoryPane

A line is one instruction of one byte, so that the line map is the number of
lines the last assembly saw. Markers move with their line in the editor
(Scintilla, external). Conditions are present or not, and a text that does not
parse is kept in the table only. Editing a condition marks the line that the last
assembly put at the address, in both margins, also where the text has moved on
(`OnBPConditionChanged`). `kept` are the addresses whose text the table keeps after
Clear All, which signals before it empties.

In `MemoryPane` a byte on the screen has its value or not (`shown`) and a
highlight (`painted`); an update repaints the rows the code names. A project is
ISA or assembly level. `state` is that of the session, `queued` a burst in the event
loop, which runs whatever was done since, and `traced` whether the bus records what
it writes: after Stop it does not. `OnAssemble` reconfigures the system and loads
memory without a repaint. `behind` are the bytes that changed so, `forgotten` the
highlights no update will take back, until either is painted again. A start whose
source does not assemble leaves the pane alone (`PaneStays`). The column of
characters is left out.

### StackTracer

A correct program (`CorrectProgram`) boots by MOVASP to the user stack, allocates,
calls, releases and traps with its tags, and at the end returns to the system's
stack by MOVASP (`Leave`, `pep10os.pep:36`); `truth` are its activation records. Any
other program (`AnyInstruction`) executes any instruction the tracer is told of,
MOVASP, traps and their returns included, leaves SP anywhere and has any tags.
`moved` are the stacks a trap, its return or MOVASP has moved SP into elsewhere than
at their end; MOVASP has no commands, so that nothing compares its bytes. Bytes are
words, errors are one (`broken`), a session ends at an error, and the system does
not trap itself. Tags are not found at the places CALL, RET and SCALL look for them
(section 4), and the defaults are used.

## 3. Runs

| Run | States | Shows |
|---|---|---|
| `trace_vm` | 214,727 | The ring (33,977): its inductive invariant; nothing unacknowledged is lost; recordings keep their entry; every entry is replayable; the iterator visits each entry once in both directions; a watermark is armed below its threshold unless it was called late; final entries never change; the ring implements `TraceLog`. The trace machine: its inductive invariant, types included; the direction is suspended exactly inside an invertible call; no program starts inside a suspension unless the driver replays on after a hard stop without setting the direction. |
| `pool` | 20,995 | The free list holds each dead slot once; one holder per buffer; expired ids do not resolve; reuse in order of release; neighbours stay in their chain. |
| `programs` | 626,703 | Every program replays its own writes from its own payloads; payloads are never overwritten while needed. |
| `replay` | 1,559,932 | Undo and redo restore what was shown; replay neither queues nor drops input. |
| `threads` | 471,154 | Every live thread is somewhere; for well-behaved guests in one place, continuing from what it saved last, with the answer it waited for; under fair yielding each gets its turn. |
| `channel` | 30,430 | The line in force is intact; endpoints implement `BroadcastLog`. |
| `session` | 339,060 | A pause is one that was asked for; the state shown is true; the event loop comes to rest. |
| `views` | 36,505 | Binary searches and bitmask find every breakpoint; conditions stay with theirs, and the table shows them but for texts that outlived Clear All; markers are active; the pane is what a full repaint shows, but for bytes that changed behind the trace and highlights not memoized; the modified intervals are canonical. |
| `tracer` | 327,530 | Without a reported error the slots fill the stack down to SP, unless SP was moved into it; a correct program's records are shown until a trap returns to a stack in use. |
| `buses` | 108,409 | Addresses that are not torn translate both ways; promised accesses are those of one flat memory; paths lead back along the buses crossed as far as routes have numbers of their own; guards pair. |
| `threads_fallback`, `ring_watermarks` | | End in a counterexample, see section 4. |

Bounds. `trace_vm`: two initiators, two slots of two entries, so slots fill with
recordings of both, a recording can stay behind in an old slot, and the ring laps
itself twice (`MaxSlot` 4); two watermarks at one slot or two, so that one advance
calls both and the first callback changes the occupancy before the second is
compared; a stack of four entries, so that it fills within nested calls, and replays
of three programs. `pool`: three indices and two generations, so that the pool is
exhausted and generations wrap; chains reach three buffers; `MaxOccupants` 3.
`programs`: two writes or steps per recording and three commits between clears,
enough for a first sighting, a promotion and a hit or a collision; buffers of four
bytes, so that payloads pack, leave gaps and roll over; three boards, with a wide
memory and registers, a narrow memory, and a port. `replay`: any two instructions on
three-bit words, so that PC wraps; two values and two targets, one of them the
start; one byte of input, so that the port is read both with and at the end of its
input; tracing of CPU and RAM switched. Two instructions suffice because a program
is undone independently of the others: the second shows that an earlier one is still
exact. `threads`: three threads (`MaxTid` 2), the least with which a third one waits
while two hand over; one futex. `channel`: four events, of which three can be taken
back in nested reverts while both endpoints are on them. `session`: three commands,
bursts of two instructions and a limit of one, so that a pause can be left behind by
the limit, by a program's end and by a step. `views`: four lines in chunks of two;
three rows of two bytes. An ISA project writes at most two of its four bytes in a
burst, with PC at the start or at the last two bytes, which an instruction of three
overhangs; an assembly project writes up to three times in a burst into three bytes,
so that an interval merges with one on either side, and its assemblies change either
of two bytes. Writes that wrap around the end of memory, which `analyze()` splits in
two, are left out. `tracer`: a user stack of seven words, three nested records with
parameters; of other programs, four instructions in three words with tags of one
command, enough for MOVASP or a trap to come back into a stack in use. `buses`:
three targets of one to three bytes on five addresses, three of them attached at a
time, so that one can be inside another and a third cut the rest; accesses of three
bytes in `sim3` and two in `core`, from any address; paths nested four deep over two
buses, with up to five routes added in any order. Initiators, programs, chains and
buffers of the trace are interchangeable and reduced by symmetry.

Fairness. `GuestThreads` assumes weak fairness of `sched_yield` only: scheduling
is cooperative, and a queue moves if the guest keeps yielding, which the property
therefore supposes. `DebugSession` assumes weak fairness of the event loop: Qt
delivers every queued call, and a burst is a loop of bounded length. Commands and
the program's instructions are not fair.

## 4. Where the code and its comments part

Two runs end in a counterexample, which `PROJECT.json` quotes with the comment it
contradicts. `threads_fallback`: the last runnable thread exits while the main thread
waits on a futex, `wakeup_next()` resumes the main thread, and it stays in
`m_blocked`, although "a blocked thread can only be resumed by unblocking it".
`ring_watermarks`: one advance crosses two watermarks, the first callback
acknowledges, and the second still fires on the occupancy read before
(`tvm_tracebuffer.cpp:487`); it stays fired below its threshold and misses its next
crossing, although callbacks "fire once per upward crossing; reset when occupancy
drops below". `ArmedBelow`, which holds, excepts a watermark called so (`late`).

Modelling brought up the following too. What a model can do is excepted by name in
the property it breaks, so that the property says what holds beside it.

Trace (`core/core/sim`):

- When a commit fills the last free slot and nothing has been acknowledged,
  `cursor()` and `committed_cursor()` take the entry count of the slot one lap
  back and cover positions that were never reserved (`tvm_tracebuffer.cpp:525`).
- A read of an exhausted port under `YieldDefaultValue` is recorded as one that
  consumed a byte; undoing it moves the read position back over an earlier byte
  (`fifo.cpp:243`; `awry` in `TraceReplay`).
- SRET's write-back records the change of PC through the register bank, and the
  end of `clock_tick()` records a step from where the instruction started: undo
  takes both back (`pep_isa.cpp:178`; `awry`). And `handle_sret()` reads PC back
  from the working copy instead of the bank, so that the instruction ends at the
  byte after the SRET (`pep_isa_instructions.cpp:87`).
- A refused program, or any hard stop inside an invertible call, leaves `_depth`;
  the next replay is suspended unless its driver sets the direction
  (`tvm_backend.cpp:59`; `resumed` in `TraceMachine`).

Buses and paths:

- A range covered in part is not shrunk as the comment on `insert_or_overwrite()`
  says (`modified.hpp:104`): one that a new range is inside of is not split and what
  is above the new one is lost, or not shrunk at all when it is the last (`:122`);
  one that is cut from below keeps the address it shares with the new range and is
  found there first (`:133`), and in `core` leads one byte too low
  (`simplebus.hpp:68`); a second one above is left alone. These addresses are `torn`
  in `AddressesTranslate` and not promised in `BusIsFlat`. An address below the first
  range reads the element before the first (`modified.hpp:171`; `Settled`).
- The length of a piece is limited by the whole target, not by what is left of its
  range (`bus/simple.hpp:120`): an access from the middle of one target into the next
  is refused after the bytes before (`Refused`, part of `BusIsFlat`), and one that
  enters a target whose rest another covers writes on behind it (not `Promised`).
- `dump()` copies a target from its first byte also where its range was cut at its
  beginning (`bus/simple.hpp:172`; `Beheaded`).
- A mapping of `core` is granted the rights whose letters are absent
  (`simplebus.cpp:49`).
- `Paths::find()` does not compare the parent it finds (`memory_path.hpp:90`): a
  route that was not added, or that was added after one with a later parent, has a
  neighbour's number. `RouteRecovered` leads back to the last such access.

Guest threads (the liberties of section 2) and channels:

- `exit()` of a thread other than the caller's leaves its pointer in the queues
  (`threads_impl.hpp:170`); `yield_to()` resumes a blocked thread and leaves it in
  `m_blocked` (`:267`); the native block call passes the reason as the return
  value (`notraced_riscv_isa3_system.cpp:120`); the exit thread-call writes its
  result after the switch, over the answer of the next thread (`:167`).
- `clear()` does not mark the old head empty, so that an endpoint beyond it reads
  the old default value (`pubsub.hpp:268`); `clone()` looks its event up by
  displacement on the line in force (`:297`).

Application:

- Stop leaves the queued burst, which turns the halted session into a running
  one (`pep10.cpp:633`) and writes with the trace off what nobody repaints
  (`:632`; `behind` in `PaneIsCurrent`); a session opens although the source does not
  assemble (`:1199`); Step Out at depth zero computes an unsigned -1 and steps into
  (`:648`).
- An assembly alone loads memory anew and repaints nothing
  (`pep10.cpp:1062`; `behind`).
- An assembly adds breakpoints and never removes those of lines that moved
  (`pep10.cpp:1078`); editing a condition marks the line the last assembly knew, also
  where the source has been edited since (`:1183`); `clearBPs()` signals before it
  empties, and a breakpoint set again is shown with its former condition
  (`debugger.cpp:64`; `kept` in `ConditionsBelong`).
- `Frame::top_address()` leaves the topmost frame out, so that a trap returns to a
  new stack (`stack_layout.cpp:106`; `strayed`); MOVASP, or a trap, into a stack that
  is in use makes it active with the slots it had, and nothing compares SP with them
  (`stack_tracer.cpp:153`, `:313`; `moved` in `SlotsTile`); CALL, RET and SCALL report
  the PC after they changed it, so that tags are looked up at the target
  (`traced_pep10_isa3.cpp:476`); slots keep pointers to frames that a growing
  vector moves (`stack_layout.cpp:192`).
- `Pep_ASMB::prepareSim()` does not let the pane memoize the first PC and SP,
  which stay highlighted (`pep10.cpp:1240`); an instruction that would end past
  the last address is not highlighted (`memorybytemodel.cpp:315`; both `forgotten`
  in `PaneIsCurrent`).

`UndoRestores` also excepts what changed without a kept record (`lost`), which the
TODO at `abort()` acknowledges.

## 5. Proofs

Every theorem holds for all values of the constants that the assumptions named in
the component's module allow: sets of actors are finite where something is counted,
sizes are not zero, bounds are natural numbers, distinguished values are distinct.
None restricts the code further; what the specification itself bounds (section 2)
is bounded in the proofs too.

None of the properties is inductive as it stands. Each proof has one invariant,
most of which TLC checked on a small instance before they were proved, with a lemma
per action.

**Ring** (`TraceBufferProofs`). `RingInvariant` (`IInv`), and from it
`RingLosesNothing`, `RecordingsKeepTheirEntry` and `RingReplayable`. That `begin()`
does not overwrite depends on a node being empty or stamped with a slot of the
window (`Stamped`) and on the window being no longer than the ring (`Window`),
because then a node that is not stamped with `head` and not empty is an
unacknowledged slot one lap back. That `acknowledge()` leaves open recordings alone
depends on `open` being exactly the number of recordings in the slot (`OpenCounts`),
since that count is all it looks at. And the part of `begin()` after an advance
needs that the slot moved to is still unused and that the initiator has no
recording (`CallState`), whatever a callback did. Then, for the readers of the ring:

- `IterationCoversTheWindow`: `operator++` reaches the next reserved entry with
  none in between, `operator--` comes back;
- `CommittedIsFinal`: no step writes an entry before `committed_cursor()` while
  its slot is resident;
- `FirstWatermarkRearms`, `WatermarksRearm`: the watermark registered first is
  armed below its threshold whatever callbacks acknowledge, and of any number of
  watermarks each is that was not called late (section 4);
- `RingImplementsLog`: the ring refines `TraceLog`. Entry `e` of slot `s` is entry
  `s * MaxEntries + e` of the log; what has to be shown is that this numbering has
  no gaps inside the window, that is, that every slot before the head is full.

**Pool** (`BufferPoolProofs`). `PoolInvariant`, and `FreeListVisitsAll`,
`SlotsRotate`, `HeldOnce`, `FreedIdsDangle`, `ScanFindsOwnChain`. The free list is
linked through the slots, and to say that a walk visits every dead slot once needs
an order: `ahead[i]`, the slots that were free when `i` was freed. It decreases
along the list, which gives both that walks end and that reuse is in order of
release. That ids do not resolve too early follows from the generation of a slot
being the number of its occupants modulo `Generations`.

**Trace machine** (`TraceBufferProofs`). `MachineInvariant`,
`DirectionSuspendedInside`, `SuspensionDoesNotLeak`. `depth` has to be the number of
invertible calls on the stack, counted by a cardinality, above a floor that a hard
stop may have left behind; a paired program pops what it pushed.

**Memory bus** (`BusProofs`). `MapInvariant`, `AddressesAreTranslated`, `BusStaysFlat`,
for targets attached in any order over, inside and partly over one another. `MapInv`
says of the list of ranges that it is sorted, that each range fits its target, and
that of the ranges that hold an address the one `region_at()` finds (`Best`) leads it
where the ghost map of single addresses does, unless it is torn (`RangesLead`). That
is not inductive: another range that starts where the found one does could come to
the front when both are shrunk by the next target. `Finds` adds that of several
ranges with one start, the found one alone can hold another address than that start.
`AttachPreserves` follows the new range through erasing (`Kept`), the two binary
searches (`Divided`) and shrinking, for an address in, below and above it (`FoundIn`,
`FoundBelow`, `FoundAbove`); `TornAbove` and `TornIn` are exactly what these need.
That a promised access does what a flat memory would is shown along the loop that
splits it, backwards from its end: a piece stops, goes on or joins the rest as the
flat memory does (`TurnStops`, `TurnGoesOn`, `TurnJoins`).

**Data paths** (`BusProofs`). `PathsInvariant`, `PathsLeadBack`, `GuardsPushAndPop`,
for routes added in any order. A guard pushes unless the path is the current one and
pops if it is, which pairs only if `find()` never returns the path it was given. It
does not, because a route has a higher number than its parent (`RoutesNumbered`),
and because an access that finds nothing and gets the root comes from a path above
the parents of all routes to its bus, which is not the root. `Nested` states the
stack an access began with for all of them at once, `Recovers` that the path of an
access whose route has a number of its own continues that of the access around it.

**Channels** (`ChannelProofs`). `ChannelInvariant`, `LineStaysIntact`,
`MovesLandOnEvents`, `ChannelImplementsLog`. Events that were taken back keep their
links, and endpoints follow them. Displacements are below event numbers, so the line
in force is bounded, and fall along the links of events taken back (`DetoursEnd`),
so every walk ends on an event in force. For the refinement of `BroadcastLog` the
invariant has to say where these walks go after any sequence of reverts and clears.
`Guided` does: each event off the line has a next event that was not taken back, an
event of the line it comes to, and the values heard on the way (`Guides`). A way of
more than one value leads along heads that were cleared, to the present head; any
other way is one value long. That is why a revert, which re-links only the events it
takes back, shortens every way that ended among them to the one value the log
promises, and why a clear lengthens every other way by the new default. That the
walks of the code are these ways follows because what remains to be heard gets
shorter along them (`GuidesAgree`).

**Guest threads** (`GuestThreadsProofs`). `ThreadsInvariant`,
`LiveThreadsInOnePlace`, `RegistersAreFresh`, `AnswersAreDelivered`,
`WellBehavedBlockedWait`. A thread that leaves the processor must have been in no
queue, which no queue tells: the invariant counts as many places as threads and
finds every thread in some place, so that each is in one. That `exit()` always
finds a thread to resume needs that the main thread of a well-behaved guest is
never blocked.

**Sessions** (`DebuggerProofs`). `SessionInvariant`, `PausesOnlyWhereAsked`,
`SessionStateIsTrue`. The invariant says which command a queued burst stands for,
and that no pause is due while one is queued, as long as the user is patient.

**Stack trace** (`DebuggerProofs`). `TracerInvariant`, `SlotsAlwaysTile`,
`FramesAreMirrored`. That the slots tile the active stack needs no knowledge of the
program: whatever the tags, a command reports an error or moves SP as it moves the
end of the stack (`Keeps`), and a list of commands does so by induction (`RunKeeps`).
For programs of any instructions `WildInv` says so of all stacks that SP was not
moved into, since any of them may be chosen by address. For correct programs more is
known of the stacks that are not active (`TracerInv`): outside a trap the system
stack holds nothing, inside one the interrupted stack still ends at the SP that was
saved (`Waits`), and no two user stacks overlap (`Layout`), so that at most one stack
contains the address `getOrAddStack()` looks for, and a new one belongs below or above
all others. Before a trap returns, that its commands raise no error needs the other
half: the frames have the shape of the program's records (`MirrorOf`). Each
instruction of a correct program has a lemma that its commands do to the frames what
it does to the records (`ParamsMirror`, `CallMirror`, `ReleaseMirror`, ...), for tags of
any length; the last MOVASP finds them empty (`Left`). The mirror is lost, and the
tracer may report an error, once a trap has returned to a stack in use: `StackTop()`
is the end of the first slot of the last frame, above SP, so the stack does not
contain the SP it is left at and a new one is made (section 4).

**Breakpoints** (`ViewProofs`). `BreakpointsAreFound`, `ConditionsStayTheirs`,
`MarkersStayActive`. `BreakpointsInv` says that the list is sorted, in step with the
conditions, and that the mask has the chunk of every breakpoint, so that neither
mask nor binary search misses one (`Searchable`); that the table has the conditions
that were given, but for texts that were kept when all breakpoints were removed, and
no text of an address that is no breakpoint otherwise (`TextInv`); and that while
nothing was edited since the last assembly the line map is that of the text and its
markers are breakpoints, so that an edited condition marks a line that is marked
already.

**Memory pane** (`ViewProofs`). `SinkStaysCanonical`, `PaneStaysCurrent`. The set of
modified intervals is canonical: no two overlap or touch. Inserting walks backwards
from the new interval and takes every interval that ends at most one below it; the
proof needs that the intervals taken are exactly those (`Taken`), which holds only
because the set was canonical before. `PaneInv` adds that the intervals have the
bytes modified and no others, that every byte is shown or `behind`, and that every
byte but the `forgotten` ones has the highlight a full repaint would give it and, if
it is PC's or SP's, lies in the rows that the next update repaints to take the
highlight back. It supposes nothing of the programs: what an instruction that does
not end in memory leaves on the screen is `forgotten` until it is painted again.

Induction. Facts about lists, walks and recursive functions are proved by induction
over sets of numbers: `SetInduction` in `NatFacts` follows from the least element
of a set, and a recursive function is unfolded after a lemma has built one that
satisfies its equation (`ChasedExists` in `BusProofs`, `ChaseExists` and
`EventAtUnfold` in `ChannelProofs`, the walk of the free list).

Only model-checked:

- liveness (`NoStarvation`, `ComesToRest`), which needs ENABLED;
- `ReplaysItsWrites` and `PayloadsKept` of `TraceProgram`, `UndoRestores` and
  `ReplayKeepsInput` of `TraceReplay`: a replay is a fold over a program of any
  length, and what it leaves in the devices is an induction over that data.

## 6. Not modelled

The bytes of the encodings, the trace machine's compare, clear, branch and sync
operations (nothing emits them), the footprint statistics, the values an opcode
computes, the clock tree, parsing of systems, the assemblers and file formats,
the watch expressions, the microcode projects, and the rest of the user
interface. `PROJECT.json` gives the reason for each. Two things were seen while
reading and are not modelled: the visitor that decides whether an expression is
volatile returns before it has seen both operands
(`lib/sim/debug/expr_ast_ops.cpp:82`), and a watch expression gathers its
dependents before it is appended (`watchexpressionmodel.cpp:103`).

## 7. Plan

Modelled and proved: the ring with its abstract log, the buffer pool, the control
of the trace machine, both buses and data paths, channels with their abstract log,
guest threads, sessions, breakpoints, the memory pane and the stack trace. Modelled
and checked: programs and stencils, and replay of a machine.

Next, in this order:

1. a composition of ring and pool: a node's chains and location buffer as
   holders, `Node::reset()` giving them back, exhaustion inside `begin()` and
   `commit()`;
2. the watch expressions: the cache of terms, their dependents, and which of them
   are evaluated again after a step;
3. the clock tree's pulse schedule as an algorithm against a reference;
4. paged allocators, rope, string pool and line numbers against sequences;
5. symbol tables, macro registry and the test interpreter.
