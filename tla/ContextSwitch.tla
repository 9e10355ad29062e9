---------------------------- MODULE ContextSwitch ----------------------------
(***************************************************************************)
(* The switch of kernel/src/context.s, one step for each group of           *)
(* instructions that an interrupt tells apart, with the C code it calls     *)
(* (thread_preempt_schedule) and the end of a thread (thread_bootstrap).    *)
(* KThreads takes a switch as one step; this module shows where that is     *)
(* right: what a thread finds in its registers when it runs again.          *)
(***************************************************************************)
EXTENDS Integers

CONSTANTS MaxThreads,    \* MAX_THREADS
          TickAttached,  \* whether thread_tick_handler is installed (kthreads.c 109-113)
          TickInWindows, \* whether a tick may come in one of the Windows below
          MaxFrames      \* bound: the frames that fit on a stack

ASSUME ContextAssumption ==
    /\ MaxThreads \in Nat \ {0}
    /\ TickAttached \in BOOLEAN /\ TickInWindows \in BOOLEAN
    /\ MaxFrames \in Nat \ {0}

VARIABLES
    core,                  \* the registers of the core
    threadcount, threadcur, active, sp_cur,    \* corecontext_t and threadinfo_t
    stack,                 \* each thread's stack: its own data at 0, then the frames
    left                   \* history: the registers each thread's code had last

vars == <<core, threadcount, threadcur, active, sp_cur, stack, left>>
table == <<threadcount, active>>

Slots == 0 .. MaxThreads - 1
Created == 0 .. threadcount - 1

(* What a register holds: a value of thread i's code (the place it is at,   *)
(* or data it computed there), the address of kernel code, the locals of    *)
(* kernel code, or zero.                                                    *)
App(i, k) == <<"app", i, k>>
Code(label) == <<"code", label>>
Locals(cur, next) == <<"locals", cur, next>>
Zero == <<"zero">>
Mstatus == <<"mstatus">>            \* a value of that register
Any == <<"any">>                    \* a value nobody relies on

(* sp: how many frames lie below the thread's own data; at depth 0 none.    *)
Base(i, depth) == [of |-> i, depth |-> depth]

Registers(c) == [pc |-> c.pc, ra |-> c.ra, t0 |-> c.t0, s |-> c.s]

At(label) == core.pc = Code(label)
InThread == core.pc[1] = "app" \/ At("thread_bootstrap")
Executing == core.sp.of             \* whose stack the core is on
Top == stack[core.sp.of][core.sp.depth]

-----------------------------------------------------------------------------
(* What is stored at depth 0, in place of a frame: the thread's own data.   *)
OwnData == [mepc |-> Any, ra |-> Any, t0 |-> Any, s |-> Any, mpie |-> FALSE]

(* The memory of a frame that sp has left behind is nobody's.               *)
Blank == [mepc |-> Zero, ra |-> Zero, t0 |-> Zero, s |-> Zero, mpie |-> FALSE]
Popped(sp, frames) == [frames EXCEPT ![sp.of][sp.depth] = Blank]

(* thread_context_init(): the frame a thread starts from.                   *)
thread_context_init ==
    [mepc |-> Code("thread_bootstrap"), ra |-> Code("thread_exit_cb"),
     t0 |-> Zero, s |-> Zero, mpie |-> TRUE]

Fresh == [pc |-> Code("thread_bootstrap"), ra |-> Code("thread_exit_cb"),
          t0 |-> Zero, s |-> Zero]

(* main() has created some threads, and thread_begin() has entered          *)
(* thread_context_load() of the first, where sp is set.  The interrupts are *)
(* off since the first thread_create() (module KThreads).                   *)
Init ==
    /\ threadcount \in 1 .. MaxThreads
    /\ threadcur = 0
    /\ active = [i \in Slots |-> i < threadcount]
    /\ sp_cur = [i \in Slots |-> Base(i, 1)]
    /\ stack = [i \in Slots |-> [d \in 0 .. MaxFrames |->
                   IF d = 0 THEN OwnData
                   ELSE IF i < threadcount /\ d = 1 THEN thread_context_init ELSE Blank]]
    /\ left = [i \in Slots |-> Fresh]
    /\ core = [pc |-> Code("load_mepc"), ra |-> Zero, t0 |-> Zero, s |-> Zero,
               sp |-> Base(0, 1), mepc |-> Zero, mscratch |-> Zero,
               mie |-> FALSE, mpie |-> FALSE]

-----------------------------------------------------------------------------
(***************************************************************************)
(* The code of a thread, on the core.                                      *)
(***************************************************************************)

(* thread_bootstrap() calls the entry function of the current thread.       *)
thread_bootstrap ==
    /\ At("thread_bootstrap")
    /\ core' = [core EXCEPT !.pc = App(threadcur, 0)]
    /\ left' = [left EXCEPT ![Executing].pc = core'.pc]
    /\ UNCHANGED <<table, threadcur, sp_cur, stack>>

(* The thread computes: every register changes.                            *)
Work ==
    /\ core.pc[1] = "app"
    /\ LET w == App(core.pc[2], 1 - core.pc[3])
       IN core' = [core EXCEPT !.pc = w, !.ra = w, !.t0 = w, !.s = w]
    /\ left' = [left EXCEPT ![Executing] = Registers(core')]
    /\ UNCHANGED <<table, threadcur, sp_cur, stack>>

(* thread_create(): the frame of the new thread is written before the       *)
(* thread is counted, in a critical section.                                *)
thread_create ==
    /\ core.pc[1] = "app"
    /\ threadcount < MaxThreads
    /\ active' = [active EXCEPT ![threadcount] = TRUE]
    /\ sp_cur' = [sp_cur EXCEPT ![threadcount] = Base(threadcount, 1)]
    /\ stack' = [stack EXCEPT ![threadcount][1] = thread_context_init]
    /\ threadcount' = threadcount + 1
    /\ UNCHANGED <<core, threadcur, left>>

(* thread_delay() calls thread_context_switch(), which returns behind the   *)
(* call with every register but t0 as it was.                               *)
CallSwitch ==
    /\ core.pc[1] = "app"
    /\ LET behind == App(core.pc[2], 1 - core.pc[3])
       IN /\ core' = [core EXCEPT !.pc = Code("swap"), !.ra = behind]
          /\ left' = [left EXCEPT ![Executing] =
                         [pc |-> behind, ra |-> behind, t0 |-> Any, s |-> core.s]]
    /\ UNCHANGED <<table, threadcur, sp_cur, stack>>

-----------------------------------------------------------------------------
(***************************************************************************)
(* thread_context_switch() and thread_context_save().                       *)
(***************************************************************************)

Kernel(from, change) == At(from) /\ core' = change
OnlyCore == UNCHANGED <<table, threadcur, sp_cur, stack, left>>
Goto(to) == [core EXCEPT !.pc = Code(to)]

(* csrrw t0, mscratch, t0 *)
SwapScratch ==
    /\ Kernel("swap", [Goto("alloc") EXCEPT !.t0 = core.mscratch, !.mscratch = core.t0])
    /\ OnlyCore

(* Mutant: ra is left to thread_context_save, which does not store it.      *)
MutAllocFrameWithoutRa ==
    /\ Kernel("alloc", [Goto("set_mepc") EXCEPT !.sp.depth = @ + 1])
    /\ OnlyCore

AllocFrame ==
    /\ Kernel("alloc", [Goto("set_mepc") EXCEPT !.sp.depth = @ + 1])
    /\ stack' = [stack EXCEPT ![core.sp.of][core.sp.depth + 1].ra = core.ra]
    /\ UNCHANGED <<table, threadcur, sp_cur, left>>

(* Mutant: mepc is left as the last trap or mret set it.                    *)
MutMepcNotSet == Kernel("set_mepc", [Goto("save") EXCEPT !.ra = Code("schedule")]) /\ OnlyCore

(* csrw mepc, ra; the call that follows takes ra for its own return.        *)
SetMepc ==
    /\ Kernel("set_mepc", [Goto("save") EXCEPT !.mepc = core.ra, !.ra = Code("schedule")])
    /\ OnlyCore

(* The integer registers, with the t0 that waits in mscratch. *)
SaveRegisters ==
    /\ Kernel("save", [Goto("save_mepc") EXCEPT !.t0 = core.mscratch, !.mscratch = Zero])
    /\ stack' = [stack EXCEPT ![core.sp.of][core.sp.depth] =
                     [@ EXCEPT !.s = core.s, !.t0 = core.mscratch]]
    /\ UNCHANGED <<table, threadcur, sp_cur, left>>

SaveMepc ==
    /\ Kernel("save_mepc", [Goto("save_mstatus") EXCEPT !.t0 = core.mepc])
    /\ stack' = [stack EXCEPT ![core.sp.of][core.sp.depth].mepc = core.mepc]
    /\ UNCHANGED <<table, threadcur, sp_cur, left>>

(* Mutant: mstatus is not stored. *)
MutMstatusNotSaved ==
    /\ Kernel("save_mstatus", [core EXCEPT !.pc = core.ra, !.t0 = Mstatus])
    /\ OnlyCore

SaveMstatus ==
    /\ Kernel("save_mstatus", [core EXCEPT !.pc = core.ra, !.t0 = Mstatus])
    /\ stack' = [stack EXCEPT ![core.sp.of][core.sp.depth].mpie = core.mpie]
    /\ UNCHANGED <<table, threadcur, sp_cur, left>>

-----------------------------------------------------------------------------
(***************************************************************************)
(* thread_preempt_schedule(), called with interrupts enabled.               *)
(***************************************************************************)

(* What schedule() may return to cur, whichever threads are due: module     *)
(* KThreads has the choice itself.                                          *)
Candidates(cur) == {n \in Created : active[n] /\ n # cur} \cup {cur}

ChooseNext ==
    /\ \E next \in Candidates(threadcur) :
           Kernel("schedule", [Goto("store_sp") EXCEPT !.s = Locals(threadcur, next)])
    /\ OnlyCore

(* thread_list[current_task].sp_cur = sp_cur *)
StoreSp ==
    /\ Kernel("store_sp", Goto("store_cur"))
    /\ sp_cur' = [sp_cur EXCEPT ![core.s[2]] = core.sp]
    /\ UNCHANGED <<table, threadcur, stack, left>>

(* threadcur = next_task, here and in thread_bootstrap(). *)
StoreCur ==
    /\ At("store_cur") \/ At("end_store_cur")
    /\ core' = Goto("load_sp")
    /\ threadcur' = core.s[3]
    /\ UNCHANGED <<table, sp_cur, stack, left>>

-----------------------------------------------------------------------------
(***************************************************************************)
(* thread_context_load().                                                  *)
(***************************************************************************)

(* The frame pointer is read from the table and becomes sp; what the other  *)
(* registers hold is not used any more.                                     *)
LoadSp ==
    /\ Kernel("load_sp", [Goto("load_mepc") EXCEPT !.sp = sp_cur[core.s[3]],
                                                   !.ra = Zero, !.t0 = Zero, !.s = Zero])
    /\ OnlyCore

LoadMepc == Kernel("load_mepc", [Goto("load_registers") EXCEPT !.mepc = Top.mepc]) /\ OnlyCore

(* Mutant: the frame stays on the stack.                                    *)
MutLoadKeepsFrame ==
    /\ Kernel("load_registers",
           [core EXCEPT !.pc = core.mepc, !.ra = Top.ra, !.t0 = Top.t0, !.s = Top.s,
                        !.mie = Top.mpie, !.mpie = TRUE])
    /\ OnlyCore

(* From the write of mstatus, which disables interrupts, to mret, which     *)
(* copies the frame's MPIE to MIE.                                          *)
LoadRegisters ==
    /\ Kernel("load_registers",
           [core EXCEPT !.pc = core.mepc, !.ra = Top.ra, !.t0 = Top.t0, !.s = Top.s,
                        !.sp.depth = @ - 1, !.mie = Top.mpie, !.mpie = TRUE])
    /\ stack' = Popped(core.sp, stack)
    /\ UNCHANGED <<table, threadcur, sp_cur, left>>

-----------------------------------------------------------------------------
(***************************************************************************)
(* The end of a thread, in thread_bootstrap(); what it does in between for  *)
(* the thread's memory is in KThreads.                                      *)
(***************************************************************************)
ThreadReturns ==
    /\ core.pc[1] = "app"
    /\ active' = [active EXCEPT ![Executing] = FALSE]
    /\ core' = Goto("end_schedule")
    /\ UNCHANGED <<threadcount, threadcur, sp_cur, stack, left>>

EndSchedule ==
    /\ \E next \in Candidates(threadcur) :
           Kernel("end_schedule",
                  IF next = threadcur THEN Goto("hang")
                  ELSE [Goto("end_store_cur") EXCEPT !.s = Locals(threadcur, next)])
    /\ OnlyCore

-----------------------------------------------------------------------------
(***************************************************************************)
(* The timer tick.                                                         *)
(***************************************************************************)

(* Where a tick does harm, because the code relies on something that the    *)
(* handler changes.  From set_mepc on, mepc holds the address to resume at  *)
(* and the trap overwrites it, until it is stored; the same from its reload *)
(* in load_mepc until interrupts are disabled (119).  The thread chosen at  *)
(* "schedule" may end before it is stored.  Once sp_cur is stored, the      *)
(* handler stores another; once threadcur is, it stores the old thread's sp *)
(* as the new thread's.                                                     *)
Windows ==
    {Code(l) : l \in {"save", "save_mepc", "store_sp", "store_cur", "load_sp",
                      "load_registers"}}

(* The frame thread_tick_handler() builds; mret has left MPIE set, and the  *)
(* trap copied MIE to it.                                                   *)
TrapFrame == [mepc |-> core.pc, ra |-> core.ra, t0 |-> core.t0, s |-> core.s, mpie |-> core.mie]

(* The trap and the whole of thread_tick_handler(), which runs with         *)
(* interrupts disabled.  It swaps t0 with mscratch as the switch does, and  *)
(* leaves mscratch zero.                                                    *)
thread_tick_handler ==
    /\ TickAttached
    /\ core.mie
    /\ TickInWindows \/ core.pc \notin Windows
    /\ core.sp.depth < MaxFrames
    /\ \E next \in Candidates(threadcur) :
           LET sp == Base(core.sp.of, core.sp.depth + 1)
               pushed == [stack EXCEPT ![sp.of][sp.depth] = TrapFrame]
               load == IF next = threadcur THEN sp ELSE sp_cur[next]
               f == pushed[load.of][load.depth]
           IN /\ sp_cur' = [sp_cur EXCEPT ![threadcur] = sp]
              /\ threadcur' = next
              /\ stack' = Popped(load, pushed)
              /\ core' = [pc |-> f.mepc, ra |-> f.ra, t0 |-> f.t0, s |-> f.s,
                          sp |-> Base(load.of, load.depth - 1),
                          mepc |-> f.mepc, mscratch |-> Zero,
                          mie |-> f.mpie, mpie |-> TRUE]
    /\ UNCHANGED <<table, left>>

-----------------------------------------------------------------------------
(* The kernel's own steps, which the core takes one after the other. *)
KernelStep ==
    \/ SwapScratch
    \/ AllocFrame
    \/ SetMepc
    \/ SaveRegisters
    \/ SaveMepc
    \/ SaveMstatus
    \/ ChooseNext
    \/ StoreSp
    \/ StoreCur
    \/ LoadSp
    \/ LoadMepc
    \/ LoadRegisters
    \/ EndSchedule

Next ==
    \/ thread_bootstrap
    \/ Work
    \/ thread_create
    \/ CallSwitch
    \/ ThreadReturns
    \/ KernelStep
    \/ thread_tick_handler

(* The core goes on with the instructions of the kernel it has begun.       *)
Spec == Init /\ [][Next]_vars /\ WF_vars(KernelStep)

-----------------------------------------------------------------------------
Labels ==
    {"thread_bootstrap", "thread_exit_cb", "swap", "alloc", "set_mepc", "save", "save_mepc",
     "save_mstatus", "schedule", "store_sp", "store_cur", "load_sp", "load_mepc",
     "load_registers", "end_schedule", "end_store_cur", "hang"}
Places == {App(i, k) : i \in Slots, k \in {0, 1}}
Addresses == Places \cup {Code(l) : l \in Labels} \cup {Zero}
Words == Addresses \cup {Mstatus, Any} \cup {Locals(i, j) : i, j \in Slots}
StackPointers == [of : Slots, depth : 0 .. MaxFrames]

Frames == [mepc : Addresses \cup {Any}, ra : Addresses \cup {Any}, t0 : Words, s : Words,
           mpie : BOOLEAN]

TypeOK ==
    /\ core \in [pc : Addresses, ra : Addresses, t0 : Words, s : Words, sp : StackPointers,
                 mepc : Addresses, mscratch : Words, mie : BOOLEAN, mpie : BOOLEAN]
    /\ threadcount \in 1 .. MaxThreads
    /\ threadcur \in Created
    /\ active \in [Slots -> BOOLEAN]
    /\ sp_cur \in [Slots -> [of : Slots, depth : 1 .. MaxFrames]]
    /\ stack \in [Slots -> [0 .. MaxFrames -> Frames]]
    /\ left \in [Slots -> [pc : Addresses, ra : Addresses, t0 : Words, s : Words]]

(* The registers r are those thread i went away with. *)
AsLeft(r, i) ==
    /\ r.pc = left[i].pc /\ r.ra = left[i].ra /\ r.s = left[i].s
    /\ left[i].t0 \in {Any, r.t0}

(* Whenever the core executes a thread's own code, it is the current        *)
(* thread's, on its own stack with no frame left over and its own data      *)
(* untouched, with interrupts enabled and in every register what the thread *)
(* left there, wherever outside the Windows it was interrupted ("mepc =     *)
(* correct resume address", context.s 212; "saves everything", 213).        *)
RunsAsLeft ==
    InThread =>
        /\ Executing = threadcur /\ active[threadcur]
        /\ core.sp.depth = 0 /\ core.mie
        /\ AsLeft(Registers(core), threadcur)
        /\ stack[threadcur][0] = OwnData

(* A thread that waits has its frame on its own stack; when the frame leads *)
(* back into the thread's code at once, it holds the registers the thread   *)
(* left (kthreads.c 217 and 229: sp_cur is written before threadcur moves   *)
(* on, and is the thread's own).                                            *)
FramesHold ==
    \A i \in Created : active[i] /\ i # threadcur =>
        LET f == stack[i][sp_cur[i].depth]
        IN /\ sp_cur[i].of = i
           /\ f.mepc[1] = "app" \/ f.mepc = Code("thread_bootstrap") =>
                  /\ sp_cur[i].depth = 1
                  /\ AsLeft([pc |-> f.mepc, ra |-> f.ra, t0 |-> f.t0, s |-> f.s], i)

(* A switch comes to its end: the core is in a thread's code again and      *)
(* again, or for good in the loop of the last thread (kthreads.c 254).      *)
SwitchesEnd == []<>(InThread \/ At("hang"))
=============================================================================
