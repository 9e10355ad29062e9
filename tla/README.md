# Cernel: specifications, model checks and proofs

Cernel is a small threading kernel for the RP2350 (RISC-V, one core used). This
directory holds TLA+ modules that model its scheduler, threads, context switch, block
allocator, streams, heap, ELF loader and demo application, the TLC runs that check them
on small instances, and TLAPS proofs that their safety properties hold for every value of
the parameters. Every definition is translated from the C and assembly sources; paths
below are relative to the repository, `kernel/...`.

    tlc -config MCKThreads_coop.cfg MCKThreads     # one run; the list is in PROJECT.json
    tlapm KThreadsProofs.tla                       # the proofs of one module

## 1. The system

| Part | Source | State | Operations |
|---|---|---|---|
| Scheduler | kernel/src/schedule.c | none: a scan over the thread list | `schedule` |
| Threads, critical sections | kernel/src/kthreads.c | `corecontext_t`: thread list, `threadcount`, `threadcur`; per thread `active`, `nextrun`, `priority`, `sp_cur`, critical depth and saved interrupt state; the same two for main() during boot | `thread_create`, `thread_begin`, `thread_delay`, `kernel_critical_enter/exit`, `thread_preempt_schedule`, `kernel_tick_handle`, `thread_bootstrap` |
| Context switch | kernel/src/context.s | registers, frames on the thread stacks, mstatus, mepc, mscratch | save, load, init, switch, tick handler |
| Block allocator | kernel/src/kmemory.c | `block_metadata`: owner and size per block, stored in the first blocks of the heap itself | set-up, consume (thread, kernel), return (thread, kernel), thread exit |
| Streams | kernel/src/kstream.c | `g_streams`, a list of pipes; pipes and handles in blocks of their own | `tstream_wopen`, `tstream_ropen`, `tstream_close` |
| Heap | kernel/components/malloc/malloc.c | `g_arenas`; each arena a run of blocks with sector headers growing down | `kmalloc`, `kfree`, `krealloc`, `kcalloc` |
| ELF loader | kernel/components/dload | `loader_ctx_t` of one call: image, program memory, what the ELF reader has found | `loader_load_elf`, called back by an external ELF reader: `loader_pread`, `loader_alloc`, `el_applyrela` |
| Demo application | main.cpp | none of its own | `main`, `threadidle`, `threadheartbeat` |
| Boot, logging | kcore.c, klogging.c | | |

How they interact. `thread_delay`, the return of an entry function and (when installed)
the timer tick call `schedule()` and switch through context.s. Every other module
protects its state with `kernel_critical_enter/exit`, whose depth counter the switching
code reads: a core is not handed over while the current thread's depth is positive. A
thread that returns hands its blocks back through `kernel_memory_thread_exit`. Streams
and the heap take blocks from the block allocator between their own critical sections.

What is hard. (a) Interrupt state, critical depth and the current thread are three
records of the same fact, changed by C code, by `mret` and by interrupt entry. (b) The
tick may preempt anywhere outside sections. It is commented out in this build
(kthreads.c 109-113) while the handler and the sections are written for it, so the
modules have a constant `TickAttached` and both builds are checked. (c) The allocator
reconstructs allocations by walking owners and sizes. (d) Stream calls consist of
several sections with allocator calls between them, any of which can fail. (e) The
switch passes registers through mscratch, mepc and two fields of memory while interrupts
are on. (f) The loader adds and compares words that an image controls. (g) A delay may
end early, so that what the application does in time is not what it asks for.
PROJECT.json lists each hazard with its line and the properties that cover it.

## 2. The modules

| Module | What it is |
|---|---|
| SchedulePolicy | the order in which `schedule()` prefers threads, as operators |
| Schedule | the scan of `schedule()`, one step per iteration; shown to compute the policy |
| KThreads | threads, critical sections and switches; uses the policy for `schedule()` |
| ContextSwitch | context.s by groups of instructions, with ticks between them |
| Application | main() with its two threads, on the policy, in real time without end |
| BlockPool | what a block allocator promises, without saying where runs are placed |
| KMemory | the block allocator; shown to implement BlockPool |
| Streams | what streams promise: who may write and read, and when |
| KStream | streams; takes single blocks from a pool as BlockPool grants them; shown to implement Streams |
| Heap | what the heap's calls promise: memory of one's own, in place, until freed or moved |
| KMalloc | the heap: arenas and sectors of malloc.c; takes runs of blocks from BlockPool; shown to implement Heap |
| Loader | loader.c, with the ELF reader as its environment |
| ScheduleProofs, KThreadsProofs, ContextSwitchProofs, KMemoryProofs, KStreamProofs, KMallocProofs, LoaderProofs, ApplicationProofs | the theorems |
| MCSchedule, MCKThreads, MCContextSwitch, MCApplication, MCKMemory, MCKStream, MCKMalloc, MCLoader (+ .cfg) | the instances for TLC |

**Schedule / SchedulePolicy.** The locals of the C function are variables with their
names. `Iterate` is a pass through the for loop, `Return` lines 36-44. The thread table
is an arbitrary input that does not change; `ClockAdvances` lets `thread_gettime()`,
which the loop calls again for each thread, show a later time at any point.
`IsNext` says what the call returns when the clock stands still, and is what KThreads
uses. KThreads therefore takes one call of `schedule()` as one step at one instant;
`ReturnsPreferred` says what remains true when the clock moves.

**KThreads.** The arrays of `threadinfo_t` are functions of the slot. `crit` holds the
critical depths, the saved interrupt states and the interrupt enable bit; the context
of main() during boot is the extra index `Boot`. `pc` says where a thread's kernel code
stands: `run` (application code), `delay` (between the store of `nextrun` and the
switch in `thread_delay`), `exit`, `cleaned`, `hang` (after its entry function
returned). `saved[i]` says that the frame `sp_cur` points to holds thread i's registers.
Each action is a piece of kernel code between points where the tick can
interrupt it; a save, the choice of the successor and a load are one step. The tick can strike
between any two actions when interrupts are on, in particular inside `thread_delay`,
between the steps of `thread_bootstrap`, and in its final loop. The clock is bounded by
`Horizon`, nesting by `MaxDepth`.

**ContextSwitch.** A register holds a symbolic value: a place or datum of a thread's
code, an address of kernel code, kernel locals. `s` stands for all registers that
thread_context_save treats alike; ra and t0, which it does not, are apart. A stack is its
thread's own data at depth 0 and frames above it; `left` is a history of the registers a
thread's code had last. Each action is a group of instructions between which an
interrupt makes no difference, with the stores of `sp_cur` and `threadcur` of
`thread_preempt_schedule` as steps of their own; which thread is due is any choice here.
The tick with its handler is one step, since it runs with interrupts disabled.
`Windows` names six places where the code does not survive a tick: from the write of
mepc until it is stored (two places), from the choice of the next thread until its
frame pointer is loaded (three), and from the reload of mepc until interrupts go off.
Each of the six was allowed by itself in turn, and in each case one of the run's
properties failed; with ticks at all other places they hold.

**Application.** main() creates idle (which yields) and the heartbeat (which delays for
1000 ms) and starts them; the threads loop for ever, computing for any time in between.
`due` is `nextrun` relative to the clock, cut off at 0, which is exact as long as the
priorities differ; `held` is how long the current thread has had the core.

**BlockPool / KMemory.** `owner` and `size` are the two fields of `blockinfo_t`. Each
call is one step because its body is one critical section (CriticalExclusion in
KThreads). The best-fit scan is stated by what it finds, the first of the shortest free
runs that fit; walking back to an allocation's head and freeing forward are stated by
the conditions of their loops. Pointers are block indices; -1 and NBlocks stand for the
pointers rejected before a block is looked at. `thread` records which threads are
alive, which the module needs to say that a caller is a live thread. The refinement maps the runs that
start at blocks with a size (`Allocations`) to the pool's set of runs, and keeps the
answer of every call (`last`).

**KStream.** A call is split at its critical sections and allocator calls. With
`TickAttached = FALSE` a call, once begun, runs to its end before another thread steps;
with TRUE the threads interleave. Blocks are handed out in any order: KMemory's
refinement of BlockPool says that a request for one block is granted exactly when one
is free. `LateFailures = FALSE` leaves out one case: that a call which finds no block for
its handle is overtaken, before it has undone its open, by another call on the stream;
what happens then is `stream_fail`. Every behaviour of the build without the tick is
among those left. `handles` are the handles the application holds; a thread that ends keeps them
(nothing frees the blocks of TID_STREAM_MEMORY at a thread's end). A step that would
read a pipe freed under it is not taken; no state of the passing run contains one.
The refinement reads writers and readers off the linked pipes: a `wopen` takes effect
where it links its pipe, a `ropen` where it counts its reader, a close in its section.

**KMalloc.** An arena is its base, its blocks and the sequence of its sectors, from
which the addresses of data (growing up from the base) and headers (growing down from
the top) follow; `DataBytes` gives the sums of sizes, as a recursive function. Sizes and
addresses are numbers modulo `SizeMod`, counts of blocks modulo `CountMod`, as the
integer types cut them. A locked section is one step.
`kmalloc` has up to three more: `MallocBlocks` (mem_block_consume, outside the lock),
then `MallocArena` or `MallocUnreserve`, and `MallocGiveBack`; `krealloc` finds
the old sector, calls kmalloc and frees in steps of their own. Between steps other
threads run if `TickAttached`. Runs of blocks come from `Pool!Fits` of BlockPool. An
append to a slot that is only reserved would store its header at the last word of the
address space, where the chip has no memory: the model stops (`fault`; see departures). `live`, the
allocations in use, belongs to the model; the application frees and reallocates only
those. The return of an empty arena's blocks by kfree, after its unlock, is in the same
step as the locked section: no run reaches it (heap_empty). The refinement keeps `live`
and reads off `call` which allocation each krealloc is moving and whether it has the new
one (`Moves`): a call takes effect where its sector is marked, a move ends with the kfree
of the old.

**Loader.** The ELF reader (`el_init`, `el_load`, `el_relocate`) is a submodule that is not
in the repository. It is the environment: in each of its calls it may read any range,
ask for memory at any address and of any size and apply relocations, and it returns the
error of a callback that failed, or one of its own. `Add`, `ToSize` and `ToElf` are the
sums and casts with the widths of `size_t` (`SizeMod`) and `Elf_Addr` (`ElfMod`, at least
as wide).

## 3. The runs

Passing runs (all complete state spaces):

- `schedule`: all thread tables of three slots, two priorities, every `nextrun` up to
  `thread_maxtime`, three instants. Three slots are the least where a later thread
  replaces an earlier candidate while a third is the caller. Checks that
  the result is right on a moving clock (`ReturnsPreferred`). That it is the policy
  `IsNext` on a still one (`ReturnsNext`) is a corollary, and proved, as is the loop
  invariant `Candidate`.
- `threads_tick`: three threads, two priorities, with the tick installed. Every
  behaviour of the build without it is one in which no tick comes, so the safety
  properties cover both. Checks that sections exclude each other, interrupts match the
  depth, frames wait, hand-overs go to active due threads, `thread_create` leaves its
  caller's section as it was (also when the thread list is full), and (by the tick) the
  endless loop of an ended thread is left for a due thread. Threads open one level of sections themselves and the calls
  they make from inside it nest in it, so first, inner and last levels occur; three
  threads give every combination of caller, successor and bystander. The tick comes
  between any two steps outside sections; a save, the choice of the successor and the
  load are one step, although interrupts are on in a switch by thread_delay: ticks inside
  it are the subject of `context`. The delays are 0
  and `thread_maxtime`, which stands for a delay of one.
- `threads_coop`: what only holds without the tick: an ended thread is cleaned up before
  the core is handed over (a tick between kthreads.c 243 and 245 would switch away from
  a thread that is no longer active), and a due thread with priority above all others
  gets the core if the running threads keep delaying themselves. Threads open no
  sections of their own here, because a delay inside a section does not switch.
- `memory`: six blocks, one or two of which hold metadata, two threads that end and a
  kernel owner. Requests of 0, 1, 2 and 5 blocks include the refused, exact-fit, split
  and too-large cases. Checks well-formedness, live owners and the refinement.
- `streams`: three threads preempting each other, two handles each, five blocks, so that
  every allocation also fails. Checks that a reader never has two pipes, pipes count
  their handles, handles lead to linked pipes of their thread, every block is
  accounted for, and the refinement of Streams.
- `heap`: two threads that preempt each other between the steps of kmalloc and krealloc,
  three blocks of eight bytes, two arenas. Requests of 1, 2 and 8 bytes share arenas of
  up to two blocks (three sectors, the least in which a sector is joined with a free one
  after it that is not the last), 16 takes the whole heap, and 33 and 66 wrap the
  count of blocks, so that too few are taken and given back. Checks that allocations
  overlap neither each other nor the headers, that the allocated sectors are the
  allocations, that free neighbours are joined, that blocks, arenas and slots agree, and
  the refinement of Heap. No size here makes a sum wrap (`heap_wrap` has one that does).
  A behaviour ends at a write through a reserved slot (departures, below): the properties
  say what holds up to there.
- `context`: two threads with three frames each, a tick at every instruction group but
  the six. Two threads give a caller and a successor; the third frame is a tick during
  the load of a frame that was itself pushed by a tick. Checks that a thread resumes
  with the registers, the stack and the interrupt bit it left, that waiting frames hold
  them, and that every switch ends.
- `loader`: three-bit words and four-bit ELF addresses, every memory address and size,
  every offset, address and size the reader can ask for. Four bits are the least where a
  cast loses something. Checks reads, segments, results and that nothing which fits is
  refused.
- `application`: the delays of main.cpp in units of 5 ms, 2 and 200. Checks that the early
  returns of `thread_delay` to the heartbeat last less than a yield of the idle thread,
  which is what the idle thread is for, and that both threads run again and again.

Runs that end in a counterexample, each a disagreement of the code with what the
repository says (details in PROJECT.json, findings):

- `stream_fail`: under preemption a reader can open a stream whose `tstream_wopen` then
  fails, and holds a handle to a freed pipe (ktstream.h 15: "ropen only opens a stream
  if the sending thread has opened a writing stream").
- `heap_wrap`: the capacity test of the heap adds a size to an address (malloc.c 245 and
  251) and does not see the sum wrap. Every size from 2^32 less the end of an arena's data
  on, about 0xE0000000 for RAM at 0x20000000, passes, and the caller gets a range that runs
  through headers and other memory past the end of the address space ("Otherwise we need
  space for both the data and a new header", 249). A block at 8, data up to 10, a size of
  118 and addresses of seven bits are the least numbers that show it.
- `heap_empty`: the last kfree of an arena does not return its blocks: the free sector
  left over still has its size (malloc.c 173 and 182).

More departures are in the model and in no run of their own:

- The first `thread_create` from main() enters its section as main() and leaves it as
  thread 0 (kthreads.c 322, 358): the error "kernel_critical_exit without matching enter"
  (173) is logged although the enter was made, and interrupts stay off until the first
  `mret`. `CreateRestores` is about creations by threads for this reason;
  `InterruptsMatchDepth` holds from that `mret` on.
- After a thread ends without another one due at that moment, the core loops for ever
  under the log line "Finished execution of all threads?" (kthreads.c 253) although
  threads only wait for their time: `Hang` of KThreads, the exception in `DominantRuns`.
- A kmalloc preempted with a slot reserved (malloc.c 417) can have another thread's kmalloc
  append to that slot, whose limits wrap (malloc.c 251): the `fault` of KMalloc.
- `thread_delay` returns early when no other thread is ready (schedule.c 36, which says
  so); `EarlyReturnsBrief` bounds for how long.
- Of the sizes `heap_wrap` is about, those within `Align` of `SIZE_MAX` are rounded to 0 by
  align_up (malloc.c 318): kmalloc then returns a sector without bytes.
- A tick at one of the six `Windows` of ContextSwitch. The build does not install the tick.
- The loader takes the entry point and the targets of relocations unchecked (loader.c 131,
  elfreloc_riscv.c 29), and refuses every segment for a memory that ends at the top of
  the address space, where `limit` wraps to 0 (loader.c 62).

`CHECK_DEADLOCK FALSE` in all of them but `application`: `schedule` and `loader` end with their
return, a core whose last thread has ended loops without a step of the model, the clock and
the thread list are bounded, a block heap or
streams whose threads have all ended stand still, and the heap can stop as described
above.

Fairness. `CooperativeSpec` (threads_coop): weak fairness of "the running thread calls
`thread_delay`" and of the kernel steps that follow. The threads of main.cpp are loops
around `thread_delay`, and the processor executes what was called. Nothing is assumed
of threads ending or creating others. `PreemptiveSpec` (threads_tick): weak fairness
of the tick, which is periodic. ContextSwitch: weak fairness of the kernel's instructions,
which the processor executes once begun; none of the threads' code or the tick.
Application: weak fairness of each step: the two threads are endless loops that do
nothing else, and time passes.

## 4. The proofs

The provers check, for every value of the constants that satisfies the named
assumptions (`ScheduleAssumption`, `ThreadsAssumption`, `ContextAssumption`,
`MemoryAssumption`, `StreamAssumption`, `MallocAssumption`, `LoaderAssumption`,
`ApplicationAssumption`: sizes are natural numbers, the clock never reaches
`thread_maxtime`, tids of threads lie between 8 and the metadata's owner, the heap ends
below the top of the address space and a sector header fits a block, an ELF address is as
wide as a pointer, a yield is the shorter of the two delays):

- **ScheduleProofs.** `LoopInvariant`: `ScheduleInv` (types, `Candidate`,
  `ReturnsPreferred`) is inductive: the candidate is compared with threads ready at the
  call and is itself ready now, both of which survive the clock's moves. From it
  `ScanTyped`, `CandidateKept` and `PreferredThread`, and as its corollary
  `LoopComputesNext`, which justifies the use of `IsNext` in KThreads.
- **KThreadsProofs.** `ThreadsInvariant`: `ThreadsInv` is inductive. Besides the checked
  invariants it needs that before the first thread runs slot 0 is current and no slot is
  in a section (or the boot-time exit of `thread_create` would unbalance it), that an
  open section has saved enabled interrupts (so that the last exit enables them), that
  ended threads are inactive (so that `schedule` does not return them) and that untaken
  slots are outside sections. From it `ThreadsTyped`, `SectionsExclude`,
  `InterruptsBalanced`, `FramesWait`, and the action properties `HandOverRule` and
  `CreateKeepsSections` (for both ways out of `thread_create`), all for both values of
  `TickAttached`. `CleanedFirst` adds
  `CleanedBeforeHandOver` for the build without the tick, where a thread whose entry
  function has returned keeps the core.
- **ContextSwitchProofs.** `SwitchInvariant`: `SwitchInv` is inductive, for any number of
  threads and frames, with ticks anywhere but at the six `Windows` (`NoTickInWindows`,
  which the build without the tick meets as well). `Resumes` is the heart of it: for each
  place in context.s where a tick may strike, what registers, stack depth and first frame
  must be for the switch to go on and come back to what the thread left. `CoreSound` says
  that of the core, or, in the instructions between two such places, what the step there
  still holds in registers (`OnSave`, `OnStore`, `OnLoad`, `OnEnd`, `OnHandOver`).
  `WaitersSound` says it of the topmost frame of every waiting thread, and of every
  frame under one that a tick pushed while a frame was being loaded (`Leads`), because
  such a frame is loaded next; the two checked properties speak only of threads in their own
  code and are not inductive. From it `SwitchTyped`, `ThreadsRunAsLeft` and
  `WaitingFramesHold`.
- **KMemoryProofs.** `MemoryInvariant`: `TypeOK /\ WellFormed /\ OwnersAlive` is
  inductive. The argument is that every call takes a stretch of free blocks
  (`CommitEffect`) or frees a union of whole runs (`FreeEffect`); that a return frees
  exactly one whole run is `HeadFound` (the backward walk stops at the head of the run
  that contains the block) and `RunFromWhole` (the forward loop ends with it).
  `PoolImplemented`: `Spec => ImplementsPool`. A refused request
  had no fitting stretch at all because free blocks side by side extend to a maximal
  free run (`RunExtends`, by the least-element principle); a refused return hits no run
  of the right kind (`OwnerKind`, which needs `OwnersAlive`).
- **KStreamProofs.** `StreamsInvariant`, for both values of `TickAttached` and without late
  failures (`LateFailures = FALSE`): `StreamsInv` is inductive. It says of each linked
  pipe who its writer is (`WriterCounted`: one handle or one call, of the thread the pipe
  names) and who its readers are (`ReadersCounted`), that some of them exist
  (`LinkedInUse`), and that the blocks of handles, linked pipes and calls in progress are
  apart (`HandlesSound`, `OwnedApart`), so that no call frees what another uses. That a
  failing call undoes itself first is needed in one place: what `WopenUnlink` unlinks has
  no readers, and what `RopenUndo` counts itself out of is still open. `UnlinkEffect` and
  `LinkEffect` give what happens to the list. From it `StreamTypes`, `OneStream`,
  `HandlesAlwaysLead`, `CountsAlwaysMatch` and `BlocksAlwaysAccounted`.
  `StreamsImplemented`: `Spec => ImplementsStreams` under the
  same assumption. `View` says what a list of pipes shows of the stream to one reader,
  `OneSeen` that a step which touches one pipe shows there only.
- **KMallocProofs.** Two invariants, one upon the other, for any number of threads, arenas
  and blocks, blocks and headers of any size, and both values of `TickAttached`.
  `BlocksKept`: `BlocksInv` is inductive whatever sizes are asked for. It says that the
  runs handed out lie apart inside the heap, that each is the ground of one arena or in
  the hands of one call (`RunsHeld`, `BasesApart`), and that each reserved slot is one
  call's (`SlotsHeld`), which the call's second section needs so as not to overwrite an
  arena. From it `HeapBlocksAccounted`.
  `HeapKept`: `Spec /\ []NoneWraps => []HeapInv`. `NoneWraps` says that every allocation
  handed out ends before the end of the address space, with an alignment to spare. The
  code does not ensure it, so it is a condition on the behaviour and not an assumption:
  sizes are arbitrary, and what the theorems say is that the first thing to go wrong is
  always an allocation that wraps; from there on all of it can (`heap_wrap`). The step
  needs it of the allocation it hands out, to undo the sums modulo `SizeMod` in
  `AppendFits` and `FirstFits`. `RequestsBelowTop` gives the requests for which it holds:
  with sizes that do not reach from the top of the heap past the end of the address space
  (`SizesClear`, which the constants of the `heap` run meet), `Spec => []NoneWraps`, because
  every pointer handed out lies in the heap. `HeapInv` adds that the sectors of
  an arena fit between its ends and have bytes (`ArenaSound`), and that the allocations in
  use are exactly the pieces the allocated sectors mark out (`LiveSound`), with at most one
  krealloc at work on each (`OldsSound`). What the operations on sectors do is said in
  terms of extents, the offset and length of each allocated sector: `ReuseEffect`,
  `AppendEffect`, `JoinEffect`, `PrefixEffect` and `FreeEffect` give the extents after each of
  them, `LivePlace` that a pointer in use is found in its own sector and no other, and
  `Spread` that arenas lie apart. From it `HeapTyped`, `AllocationsSeparate`,
  `SectorsTrackAllocations` and `FreeSectorsJoined`.
  `HeapImplementsCalls`: `Spec /\ []NoneWraps => ImplementsHeap`. A pointer
  that is handed out is not one in use (`Fresh`, from `GrowStep`), so that `HeapInv` after
  the step gives room of its own to it (`Obtains`); what a krealloc is to free is still
  there when it copies, because `OldsSound` holds. The `fault` at which the model stops
  (departures) is not excluded: the theorems say what holds up to there. Sums over sectors
  need induction over a sequence; `Climbs` states it about a set of numbers, from the
  least-element principle (`LeastNat`), which keeps it first-order.
- **LoaderProofs.** For words of any width, and ELF addresses at least as wide:
  `LoaderInvariant`, the conjunction of the five checked invariants, is inductive, with
  `PlaceableInside` (what `loader_alloc` accepts lies in the memory as integers, not only
  modulo the word) and `AddWord`, `CastWord`, `CastSmall` on the arithmetic.
- **ApplicationProofs.** `BurstsBrief`: `EarlyReturnsBrief` for all delays of the two
  threads. The invariant is `DelaysCountDown`: what is left of a waiting thread's delay and
  the time the current one has had the core are no more than that delay. An early
  return needs the other thread not due (`FallbackAlone`), so the time is still short.

Model-checked only: the liveness properties `SwitchesEnd` (run `context`),
`DominantRuns` (`threads_coop`), `TickRescues` (`threads_tick`) and `EveryoneRuns`
(`application`), because liveness under fairness is outside what the prover handles, and
the three runs that end in a counterexample. Every invariant and every action property of
a passing run, and all three refinements, are stated by a theorem. The
modules use no RECURSIVE operators.

## 5. Not modelled

Data in blocks, rings and stacks; thread names and arguments; logging. `lastrun`, which
is written and otherwise only read where it was just written. In the heap: NULL and size
0 arguments, and the ends of threads, whose blocks go although arenas stand on them. The
second core, whose context is never started. In ContextSwitch: critical sections (ticks
are off in them) and the choice of the next thread (KThreads has both). In the loader:
the bytes copied and relocated, and the ELF reader. `kcore.c`: `kernel_init_internal` is
called by nobody, so that in the program as it stands every request for blocks is
refused (BlockPool has it as a pool that is not open), and the rest prints and stops.
`klogging.c`: formatting and output. In main.cpp: the stream, memory and loader threads,
which main() does not create; without blocks the stream threads would retry for ever, and
the loader thread reads a pointer that is never set. The generated plugin image
and the build files. 64-bit wrap-around of times, excluded by the code's own comment
(kthreads.c 285).

## 6. Plan

Done: the modules and proofs above. Next, in this order:

1. The ends of threads in KMalloc, for what they do to arenas others use.
2. **Scan**: the best-fit loop of kmemory.c as a state machine like Schedule, with a
   proof that it computes `IsBest`.
