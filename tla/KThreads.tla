------------------------------ MODULE KThreads ------------------------------
(***************************************************************************)
(* Threads of one core: kernel/src/kthreads.c with the switching half of   *)
(* kernel/src/context.s.  Threads are created, delay themselves, enter and  *)
(* leave critical sections and return from their entry function; the core   *)
(* is handed over by thread_delay, by the return of a thread and, when      *)
(* TickAttached, by the timer tick.                                         *)
(***************************************************************************)
EXTENDS SchedulePolicy

CONSTANTS MaxThreads,    \* MAX_THREADS
          Priorities,    \* the threadpriority_t values threads are created with
          MaxTime,       \* thread_maxtime = thread_yielddelay, the largest threadtime_t
          YieldDelay,    \* yield_effective_delay_time_us
          Delays,        \* the arguments of thread_delay
          TickAttached,  \* whether thread_tick_handler is installed: lines 109-113
          Horizon,       \* bound: the last instant the clock shows
          MaxDepth       \* bound: how deep a thread nests critical sections

ASSUME ThreadsAssumption ==
    /\ MaxThreads \in Nat \ {0}
    /\ Priorities \subseteq Nat
    /\ MaxTime \in Nat
    /\ YieldDelay \in 0 .. MaxTime
    /\ Delays \subseteq 0 .. MaxTime
    /\ TickAttached \in BOOLEAN
    /\ Horizon \in 0 .. MaxTime - 1   \* "Assume thread time will never overflow"
    /\ MaxDepth \in Nat

VARIABLES
    threadcount, threadcur,         \* corecontext_t
    active, nextrun, priority,      \* threadinfo_t, a function of the slot each
    saved,      \* sp_cur[i] is the frame in which thread i's registers wait
    pc,         \* where the code of each thread stands
    crit,       \* the critical sections and the interrupt enable bit
    mode,       \* what the core executes: main(), threads, or main()'s last loop
    now         \* thread_gettime()

table == <<threadcount, active, nextrun, priority>>
vars == <<threadcount, threadcur, active, nextrun, priority, saved, pc, crit, mode, now>>

Slots == 0 .. MaxThreads - 1
Boot == -1                          \* the context of main() before any thread
Contexts == Slots \cup {Boot}

-----------------------------------------------------------------------------
(***************************************************************************)
(* Critical sections.  A context is a thread or main() during boot; the    *)
(* code keeps critical_depth and critical_irqstate in threadinfo_t for the  *)
(* one and in __boot_critical_* for the other, and treats them alike.       *)
(***************************************************************************)

Sections == [depth : [Contexts -> Nat], irqstate : [Contexts -> BOOLEAN], mie : BOOLEAN]

(* get_current_threadinfo(), with Boot for NULL. *)
CurrentContext(count, cur) == IF count = 0 \/ cur >= count THEN Boot ELSE cur

(* Mutant: every level saves the interrupt state, not only the first. *)
MutEnterSavesAlways(c, w) ==
    [depth |-> [c.depth EXCEPT ![w] = @ + 1], irqstate |-> [c.irqstate EXCEPT ![w] = c.mie],
     mie |-> FALSE]

(* kernel_critical_enter() by context w: the first level saves the          *)
(* interrupt enable bit and clears it.                                      *)
kernel_critical_enter(c, w) ==
    [depth    |-> [c.depth EXCEPT ![w] = @ + 1],
     irqstate |-> IF c.depth[w] = 0 THEN [c.irqstate EXCEPT ![w] = c.mie] ELSE c.irqstate,
     mie      |-> c.mie /\ c.depth[w] > 0]

(* kernel_critical_exit() by context w: an exit without a matching enter is *)
(* logged and ignored; the last level sets the enable bit if it was saved   *)
(* as set (restore_interrupts_from_disabled never clears it).               *)
kernel_critical_exit(c, w) ==
    IF c.depth[w] = 0 THEN c
    ELSE [depth    |-> [c.depth EXCEPT ![w] = @ - 1],
          irqstate |-> c.irqstate,
          mie      |-> c.mie \/ (c.depth[w] = 1 /\ c.irqstate[w])]

(* A critical section entered and left again by context w, whatever it does *)
(* in between.                                                              *)
Section(c, w) == kernel_critical_exit(kernel_critical_enter(c, w), w)

-----------------------------------------------------------------------------
Init ==
    /\ threadcount = 0
    /\ threadcur = 0
    /\ active = [i \in Slots |-> FALSE]
    /\ nextrun = [i \in Slots |-> 0]
    /\ priority = [i \in Slots |-> 0]
    /\ saved = [i \in Slots |-> FALSE]
    /\ pc = [i \in Slots |-> "unused"]
    /\ crit = [depth |-> [w \in Contexts |-> 0], irqstate |-> [w \in Contexts |-> FALSE],
               mie |-> TRUE]
    /\ mode = "boot"
    /\ now = 0

(* The application code of thread threadcur executes and calls the kernel. *)
InThread == mode = "threads" /\ pc[threadcur] = "run"

(* thread_context_init(): a frame that thread_bootstrap starts from, with   *)
(* MPIE set.                                                                *)
thread_context_init(slot) == saved' = [saved EXCEPT ![slot] = TRUE]

(* thread_context_load(): the frame of next is popped, and mret copies MPIE *)
(* to the interrupt enable bit.  MPIE is set in every frame: in a new one,   *)
(* and in mstatus after an mret or a trap that interrupted enabled code.    *)
thread_context_load(frames, next) ==
    /\ saved' = [frames EXCEPT ![next] = FALSE]
    /\ crit' = [crit EXCEPT !.mie = TRUE]

(* A new thread in the slot after the last, so that the slots of threads    *)
(* which have ended stay taken.  The exit at the end looks the current      *)
(* context up again, after threadcount has grown.                           *)
TakeSlot(slot, p, entered) ==
    /\ nextrun' = [nextrun EXCEPT ![slot] = 0]
    /\ priority' = [priority EXCEPT ![slot] = p]
    /\ active' = [active EXCEPT ![slot] = TRUE]
    /\ thread_context_init(slot)
    /\ pc' = [pc EXCEPT ![slot] = "run"]
    /\ threadcount' = threadcount + 1
    /\ crit' = kernel_critical_exit([entered EXCEPT !.depth[slot] = 0, !.irqstate[slot] = FALSE],
                                    CurrentContext(threadcount + 1, threadcur))

(* Mutant: the return from a full thread list leaves the section open. *)
MutCreateFullKeepsSection(p) ==
    /\ mode = "boot" \/ InThread
    /\ LET entered == kernel_critical_enter(crit, CurrentContext(threadcount, threadcur))
       IN IF threadcount = MaxThreads
          THEN crit' = entered /\ UNCHANGED <<table, saved, pc>>
          ELSE TakeSlot(threadcount, p, entered)
    /\ UNCHANGED <<threadcur, mode, now>>

(* thread_create(), by main() before thread_begin() or by a running thread. *)
thread_create(p) ==
    /\ mode = "boot" \/ InThread
    /\ LET entered == kernel_critical_enter(crit, CurrentContext(threadcount, threadcur))
       IN IF threadcount = MaxThreads
          THEN /\ crit' = kernel_critical_exit(entered, CurrentContext(threadcount, threadcur))
               /\ UNCHANGED <<table, saved, pc>>
          ELSE TakeSlot(threadcount, p, entered)
    /\ UNCHANGED <<threadcur, mode, now>>

(* main() runs a critical section of its own before thread_begin(), as      *)
(* every malloc() of the C library does (kmalloc locks with it).            *)
BootSection ==
    /\ mode = "boot"
    /\ crit' = Section(crit, CurrentContext(threadcount, threadcur))
    /\ UNCHANGED <<table, threadcur, saved, pc, mode, now>>

(* A running thread nests a critical section, and leaves one. *)
ThreadCriticalEnter ==
    /\ InThread
    /\ crit.depth[threadcur] < MaxDepth
    /\ crit' = kernel_critical_enter(crit, threadcur)
    /\ UNCHANGED <<table, threadcur, saved, pc, mode, now>>

ThreadCriticalExit ==
    /\ InThread
    /\ crit' = kernel_critical_exit(crit, threadcur)
    /\ UNCHANGED <<table, threadcur, saved, pc, mode, now>>

-----------------------------------------------------------------------------
(***************************************************************************)
(* Handing the core over.                                                  *)
(***************************************************************************)

(* Mutant: the running thread's frame is not written back. *)
MutSwitchForgetsFrame(next) ==
    /\ threadcur' = next
    /\ thread_context_load(saved, next)

(* thread_context_save() pushes the running thread's registers and the      *)
(* scheduler sets its sp_cur; then the frame of next is loaded.             *)
SwitchTo(next) ==
    /\ threadcur' = next
    /\ thread_context_load([saved EXCEPT ![threadcur] = TRUE], next)

(* Mutant: an ended thread stays a candidate of schedule(). *)
MutSelectedInactive(runs) ==
    {n \in Slots : IsNext(n, [i \in Slots |-> i < threadcount], runs, priority,
                          threadcur, threadcount, now)}

(* What schedule() selects, given the nextrun fields it reads. *)
Selected(runs) ==
    {n \in Slots : IsNext(n, active, runs, priority, threadcur, threadcount, now)}

(* The thread thread_preempt_schedule() returns to. *)
Successors(runs) ==
    IF crit.depth[threadcur] > 0 THEN {threadcur} ELSE Selected(runs)

(* Mutant: slot 0 is loaded without a look for an active thread. *)
MutBeginUnchecked ==
    /\ mode = "boot"
    /\ mode' = "threads"
    /\ UNCHANGED <<table, threadcur, saved, pc, crit, now>>

(* thread_begin(): the first active thread is loaded, whatever its         *)
(* priority; with no thread at all the call returns to main().              *)
thread_begin ==
    /\ mode = "boot"
    /\ \/ /\ \E first \in Slots :
                /\ first < threadcount /\ active[first]
                /\ \A j \in Slots : j < first => ~active[j]
                /\ threadcur' = first
                /\ thread_context_load(saved, first)
          /\ mode' = "threads"
       \/ /\ \A i \in Slots : i < threadcount => ~active[i]
          /\ mode' = "main"
          /\ UNCHANGED <<threadcur, saved, crit>>
    /\ UNCHANGED <<table, pc, now>>

(* thread_delay(d), up to the decision to switch. *)
DelayUntil(d) ==
    (now + (IF d = MaxTime THEN YieldDelay ELSE d)) % (MaxTime + 1)

thread_delay(d) ==
    /\ InThread
    /\ nextrun' = [nextrun EXCEPT ![threadcur] = DelayUntil(d)]
    /\ pc' = [pc EXCEPT ![threadcur] = "delay"]
    /\ UNCHANGED <<threadcount, threadcur, active, priority, saved, crit, mode, now>>

(* Mutant: the thread in a critical section switches, on a path that does   *)
(* not go through thread_preempt_schedule's own check.                      *)
MutDelaySwitchUnchecked ==
    /\ mode = "threads" /\ pc[threadcur] = "delay"
    /\ \E next \in Selected(nextrun) : SwitchTo(next)
    /\ pc' = [pc EXCEPT ![threadcur] = "run"]
    /\ UNCHANGED <<table, mode, now>>

(* The rest of thread_delay(): thread_context_switch() outside critical     *)
(* sections.  The saved frame resumes after the call, in the caller.        *)
DelaySwitch ==
    /\ mode = "threads" /\ pc[threadcur] = "delay"
    /\ IF crit.depth[threadcur] = 0
       THEN \E next \in Successors(nextrun) : SwitchTo(next)
       ELSE UNCHANGED <<saved, threadcur, crit>>
    /\ pc' = [pc EXCEPT ![threadcur] = "run"]
    /\ UNCHANGED <<table, mode, now>>

(* kernel_tick_handle() marks the interrupted thread due now. *)
kernel_tick_handle == nextrun' = [nextrun EXCEPT ![threadcur] = now]

(* Mutant: the tick leaves an ended thread alone. *)
MutTickSkipsEnded ==
    /\ TickAttached
    /\ mode = "threads"
    /\ crit.mie /\ active[threadcur]
    /\ kernel_tick_handle
    /\ \E next \in Successors(nextrun') : SwitchTo(next)
    /\ UNCHANGED <<threadcount, active, priority, pc, mode, now>>

(* thread_tick_handler(): the preemptive scheduler runs on the tick.  The   *)
(* interrupted thread resumes where it was.                                 *)
thread_tick_handler ==
    /\ TickAttached
    /\ mode = "threads"
    /\ crit.mie
    /\ kernel_tick_handle
    /\ \E next \in Successors(nextrun') : SwitchTo(next)
    /\ UNCHANGED <<threadcount, active, priority, pc, mode, now>>

-----------------------------------------------------------------------------
(***************************************************************************)
(* thread_bootstrap(), after the entry function of the thread returns.      *)
(***************************************************************************)
ThreadReturns ==
    /\ InThread
    /\ active' = [active EXCEPT ![threadcur] = FALSE]
    /\ pc' = [pc EXCEPT ![threadcur] = "exit"]
    /\ UNCHANGED <<threadcount, threadcur, nextrun, priority, saved, crit, mode, now>>

(* kernel_memory_thread_exit(tid), seen from here: one critical section. *)
ThreadCleanup ==
    /\ mode = "threads" /\ pc[threadcur] = "exit"
    /\ crit' = Section(crit, threadcur)
    /\ pc' = [pc EXCEPT ![threadcur] = "cleaned"]
    /\ UNCHANGED <<table, threadcur, saved, mode, now>>

(* Mutant: the core is handed over before the thread's memory is returned. *)
MutHandOverEarly ==
    /\ mode = "threads" /\ pc[threadcur] \in {"exit", "cleaned"}
    /\ \E next \in Selected(nextrun) \ {threadcur} :
           /\ threadcur' = next
           /\ thread_context_load(saved, next)
    /\ UNCHANGED <<table, pc, mode, now>>

(* The ended thread asks schedule() for a successor and loads it; its own   *)
(* registers are not saved.                                                 *)
HandOver ==
    /\ mode = "threads" /\ pc[threadcur] = "cleaned"
    /\ \E next \in Selected(nextrun) \ {threadcur} :
           /\ threadcur' = next
           /\ thread_context_load(saved, next)
    /\ UNCHANGED <<table, pc, mode, now>>

(* schedule() returned the ended thread itself: while(1). *)
Hang ==
    /\ mode = "threads" /\ pc[threadcur] = "cleaned"
    /\ threadcur \in Selected(nextrun)
    /\ pc' = [pc EXCEPT ![threadcur] = "hang"]
    /\ UNCHANGED <<table, threadcur, saved, crit, mode, now>>

(* The microsecond timer runs whatever the core does. *)
TimePasses ==
    /\ now < Horizon
    /\ now' = now + 1
    /\ UNCHANGED <<table, threadcur, saved, pc, crit, mode>>

-----------------------------------------------------------------------------
Next ==
    \/ \E p \in Priorities : thread_create(p)
    \/ BootSection
    \/ ThreadCriticalEnter
    \/ ThreadCriticalExit
    \/ thread_begin
    \/ \E d \in Delays : thread_delay(d)
    \/ DelaySwitch
    \/ thread_tick_handler
    \/ ThreadReturns
    \/ ThreadCleanup
    \/ HandOver
    \/ Hang
    \/ TimePasses

Spec == Init /\ [][Next]_vars

(* Every thread keeps delaying itself (each thread of main.cpp loops on     *)
(* thread_delay) and the core executes what has been called; a thread that  *)
(* never delays, nests or returns promises nothing.                         *)
Cooperative ==
    /\ WF_vars(\E d \in Delays : thread_delay(d))
    /\ WF_vars(DelaySwitch)
    /\ WF_vars(ThreadCleanup)
    /\ WF_vars(HandOver)

CooperativeSpec == Spec /\ Cooperative

(* The tick is periodic: a tick that stays enabled arrives. *)
PreemptiveSpec == Spec /\ WF_vars(thread_tick_handler)

-----------------------------------------------------------------------------
Created == 0 .. threadcount - 1

TypeOK ==
    /\ threadcount \in 0 .. MaxThreads
    /\ threadcur \in Slots
    /\ active \in [Slots -> BOOLEAN]
    /\ nextrun \in [Slots -> 0 .. MaxTime]
    /\ priority \in [Slots -> Nat]
    /\ saved \in [Slots -> BOOLEAN]
    /\ pc \in [Slots -> {"unused", "run", "delay", "exit", "cleaned", "hang"}]
    /\ crit \in Sections
    /\ mode \in {"boot", "threads", "main"}
    /\ now \in 0 .. Horizon
    /\ mode = "threads" => threadcur < threadcount
    /\ \A i \in Slots : pc[i] = "unused" <=> i >= threadcount

(* Critical sections of threads exclude each other: while one thread is the *)
(* current one, no other thread that can still run is inside a section      *)
(* (kthreads.c 192 and 296, the safe-switch rule).                          *)
CriticalExclusion ==
    mode = "threads" =>
        \A i \in Slots : active[i] /\ i # threadcur => crit.depth[i] = 0

(* The interrupts of the core are off exactly while the current thread is   *)
(* inside a critical section: no section runs with interrupts on, and no    *)
(* sequence of enters, exits, creations and switches leaves them off.       *)
InterruptsMatchDepth ==
    mode = "threads" => (crit.mie <=> crit.depth[threadcur] = 0)

(* Every thread that can run and does not run has its registers waiting in  *)
(* the frame sp_cur points to, and the current thread's old frame is never  *)
(* taken for its state (kthreads.c 217 and 229).                            *)
FrameWaits ==
    /\ \A i \in Slots : active[i] /\ (mode = "boot" \/ i # threadcur) => saved[i]
    /\ mode = "threads" => ~saved[threadcur]

(* A thread that has ended stays the current one until its memory has been  *)
(* returned (kthreads.c 243-260), when nothing preempts it.                 *)
CleanedBeforeHandOver == \A i \in Slots : pc[i] = "exit" => i = threadcur

(* What the induction needs besides: before the first thread runs no slot   *)
(* is inside a section and slot 0 is the current one; an open section saved *)
(* enabled interrupts; a thread past its entry function is not active; a    *)
(* slot not yet taken is outside sections.                                  *)
BootClean == mode # "threads" => threadcur = 0 /\ \A i \in Slots : crit.depth[i] = 0
SavedEnabled ==
    mode = "threads" /\ crit.depth[threadcur] > 0 => crit.irqstate[threadcur]
EndedInactive == \A i \in Slots : pc[i] \in {"exit", "cleaned", "hang"} => ~active[i]
UntakenClean == \A i \in Slots : i >= threadcount => crit.depth[i] = 0

ThreadsInv ==
    /\ TypeOK /\ CriticalExclusion /\ InterruptsMatchDepth /\ FrameWaits
    /\ BootClean /\ SavedEnabled /\ EndedInactive /\ UntakenClean

(* The core goes from one thread to another only when the one it leaves is  *)
(* outside critical sections or has ended, and only to a thread that has    *)
(* not ended and whose nextrun has come.                                    *)
HandsOverToReady ==
    [][ mode = "threads" /\ threadcur' # threadcur =>
            /\ crit.depth[threadcur] = 0 \/ ~active[threadcur]
            /\ active[threadcur'] /\ nextrun[threadcur'] <= now ]_vars

(* thread_create() by a thread leaves the interrupts and the nesting of     *)
(* every context as it found them, whether it takes a slot or returns from  *)
(* a full thread list, and whatever section the caller is in.               *)
CreateRestores ==
    [][ \A p \in Priorities :
            mode = "threads" /\ thread_create(p) =>
                crit'.mie = crit.mie /\ crit'.depth = crit.depth ]_vars

(* A thread whose nextrun has come, of a priority above every other live    *)
(* thread's, gets the core as long as threads delay themselves, unless an   *)
(* ended thread has taken the core for good (kthreads.c 254).               *)
Dominates(i) ==
    /\ active[i] /\ nextrun[i] <= now
    /\ \A j \in Slots : active[j] /\ j # i => priority[j] < priority[i]

DominantRuns ==
    \A i \in Slots :
        mode = "threads" /\ Dominates(i) ~> \/ threadcur = i \/ ~Dominates(i)
                                       \/ pc[threadcur] = "hang"

(* With the tick installed, the core does not stay in the endless loop of   *)
(* an ended thread while another thread is due.                             *)
TickRescues ==
    /\ mode = "threads" /\ pc[threadcur] = "hang" /\ crit.depth[threadcur] = 0
    /\ \E i \in Slots : active[i] /\ nextrun[i] <= now
    ~> pc[threadcur] # "hang"
=============================================================================
