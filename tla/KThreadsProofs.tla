--------------------------- MODULE KThreadsProofs ---------------------------
(* The critical sections, the saved frames and the hand-over rule of        *)
(* module KThreads hold for every number of threads, every clock and with   *)
(* or without the tick.                                                     *)
EXTENDS KThreads, TLAPS

-----------------------------------------------------------------------------
(* Facts about the critical-section operators. *)

LEMMA SectionTypes ==
    ASSUME NEW c \in Sections, NEW w \in Contexts
    PROVE  /\ kernel_critical_enter(c, w) \in Sections
           /\ kernel_critical_exit(c, w) \in Sections
BY DEF Sections, kernel_critical_enter, kernel_critical_exit

(* An enter opens a level with the interrupts off, and saved as on if they  *)
(* were on outside.                                                         *)
LEMMA EnterEffect ==
    ASSUME NEW c \in Sections, NEW w \in Contexts, c.mie <=> c.depth[w] = 0,
           c.depth[w] > 0 => c.irqstate[w]
    PROVE  LET e == kernel_critical_enter(c, w)
           IN /\ e \in Sections
              /\ ~e.mie
              /\ e.depth = [c.depth EXCEPT ![w] = c.depth[w] + 1]
              /\ e.depth[w] = c.depth[w] + 1
              /\ e.irqstate[w]
<1> DEFINE e == kernel_critical_enter(c, w)
<1>1. /\ c.depth \in [Contexts -> Nat] /\ c.depth[w] \in Nat
      /\ c.irqstate \in [Contexts -> BOOLEAN] /\ c.mie \in BOOLEAN
    BY DEF Sections
<1>2. e \in Sections
    BY SectionTypes
<1>3. ~e.mie
    <2>1. c.mie => ~(c.depth[w] > 0)
        BY <1>1
    <2>2. e.mie = (c.mie /\ c.depth[w] > 0)
        BY DEF kernel_critical_enter
    <2>3. QED
        BY <2>1, <2>2
<1>4. /\ e.depth = [c.depth EXCEPT ![w] = c.depth[w] + 1]
      /\ e.depth[w] = c.depth[w] + 1
    BY <1>1 DEF kernel_critical_enter
<1>5. e.irqstate[w]
    BY <1>1 DEF kernel_critical_enter
<1>6. QED
    BY <1>2, <1>3, <1>4, <1>5

(* An exit closes a level, and the interrupts are on after the last one. *)
LEMMA ExitEffect ==
    ASSUME NEW c \in Sections, NEW w \in Contexts, c.mie <=> c.depth[w] = 0,
           c.depth[w] > 0 => c.irqstate[w]
    PROVE  LET e == kernel_critical_exit(c, w)
           IN /\ e \in Sections
              /\ e.mie <=> e.depth[w] = 0
              /\ e.depth[w] > 0 => e.irqstate[w]
              /\ \A v \in Contexts : v # w => e.depth[v] = c.depth[v]
              /\ c.depth[w] > 0 => e.depth = [c.depth EXCEPT ![w] = c.depth[w] - 1]
BY SectionTypes DEF Sections, kernel_critical_exit

(* A whole section leaves the nesting and the interrupts as they were. *)
LEMMA SectionEffect ==
    ASSUME NEW c \in Sections, NEW w \in Contexts, c.mie <=> c.depth[w] = 0,
           c.depth[w] > 0 => c.irqstate[w]
    PROVE  /\ Section(c, w) \in Sections
           /\ Section(c, w).depth = c.depth
           /\ Section(c, w).mie = c.mie
           /\ Section(c, w).depth[w] > 0 => Section(c, w).irqstate[w]
<1> DEFINE e == kernel_critical_enter(c, w)
<1>1. /\ e \in Sections /\ ~e.mie /\ e.irqstate[w]
      /\ e.depth = [c.depth EXCEPT ![w] = c.depth[w] + 1] /\ e.depth[w] = c.depth[w] + 1
    BY EnterEffect
<1>2. c.depth[w] \in Nat /\ c.depth \in [Contexts -> Nat] /\ c.mie \in BOOLEAN
    BY DEF Sections
<1>3. Section(c, w) = kernel_critical_exit(e, w)
    BY DEF Section
<1>4. /\ Section(c, w) \in Sections
      /\ Section(c, w).mie <=> Section(c, w).depth[w] = 0
      /\ Section(c, w).depth[w] > 0 => Section(c, w).irqstate[w]
      /\ Section(c, w).depth = [e.depth EXCEPT ![w] = e.depth[w] - 1]
    BY <1>1, <1>2, <1>3, ExitEffect
<1>5. Section(c, w).depth = c.depth
    BY <1>1, <1>2, <1>4
<1>6. Section(c, w).mie \in BOOLEAN
    BY <1>4 DEF Sections
<1>7. QED
    BY <1>2, <1>4, <1>5, <1>6

(* A section of a context whose nesting is balanced leaves every depth as   *)
(* it was, whatever the interrupts are.                                     *)
LEMMA SectionBalanced ==
    ASSUME NEW c \in Sections, NEW w \in Contexts
    PROVE  Section(c, w) \in Sections /\ Section(c, w).depth = c.depth
<1> DEFINE e == kernel_critical_enter(c, w)
<1>1. c.depth[w] \in Nat /\ c.depth \in [Contexts -> Nat]
    BY DEF Sections
<1>2. e \in Sections /\ e.depth = [c.depth EXCEPT ![w] = c.depth[w] + 1]
    BY SectionTypes DEF kernel_critical_enter
<1>3. Section(c, w).depth = [e.depth EXCEPT ![w] = e.depth[w] - 1]
    BY <1>1, <1>2 DEF Section, kernel_critical_exit
<1>4. Section(c, w).depth = c.depth
    BY <1>1, <1>2, <1>3
<1>5. QED
    BY <1>2, <1>4, SectionTypes DEF Section

-----------------------------------------------------------------------------
(* The initial state, then one lemma per action. *)

LEMMA InitInv == Init => ThreadsInv
<1> SUFFICES ASSUME Init PROVE ThreadsInv
    OBVIOUS
<1> USE ThreadsAssumption
<1>1. TypeOK
    BY DEF Init, TypeOK, Sections, Slots, Contexts, Boot
<1>2. BootClean
    BY DEF Init, BootClean, Slots, Contexts
<1>3. CriticalExclusion /\ InterruptsMatchDepth /\ FrameWaits /\ SavedEnabled /\ EndedInactive
    BY DEF Init, CriticalExclusion, InterruptsMatchDepth, FrameWaits, SavedEnabled, EndedInactive
<1>4. UntakenClean
    BY DEF Init, UntakenClean, Slots, Contexts
<1>5. QED
    BY <1>1, <1>2, <1>3, <1>4 DEF ThreadsInv

(* In a running thread the context of the critical sections is that thread, *)
(* and its section is in order.                                             *)
LEMMA ThreadContext ==
    ASSUME ThreadsInv, mode = "threads"
    PROVE  /\ threadcur \in Slots /\ threadcur \in Contexts /\ threadcur < threadcount
           /\ crit \in Sections
           /\ crit.mie <=> crit.depth[threadcur] = 0
           /\ crit.depth[threadcur] > 0 => crit.irqstate[threadcur]
           /\ \A n \in Nat : n >= threadcount => CurrentContext(n, threadcur) = threadcur
BY DEF ThreadsInv, TypeOK, InterruptsMatchDepth, SavedEnabled, CurrentContext, Slots, Contexts

(* A new slot keeps everything but the sections' interrupt bit in order, if *)
(* no slot's depth changes.                                                 *)
LEMMA CreateSlot ==
    ASSUME NEW p \in Priorities, ThreadsInv, thread_create(p), threadcount # MaxThreads,
           crit' \in Sections, \A i \in Slots : crit'.depth[i] = crit.depth[i]
    PROVE  TypeOK' /\ CriticalExclusion' /\ FrameWaits' /\ EndedInactive' /\ UntakenClean'
<1> USE ThreadsAssumption
<1> DEFINE slot == threadcount
<1>1. /\ threadcount \in Nat /\ slot \in Slots /\ ~(slot >= slot + 1)
      /\ mode = "threads" => threadcur # slot
    BY DEF ThreadsInv, TypeOK, Slots
<1>2. /\ nextrun' = [nextrun EXCEPT ![slot] = 0]
      /\ priority' = [priority EXCEPT ![slot] = p]
      /\ active' = [active EXCEPT ![slot] = TRUE]
      /\ saved' = [saved EXCEPT ![slot] = TRUE]
      /\ pc' = [pc EXCEPT ![slot] = "run"]
      /\ threadcount' = threadcount + 1
      /\ UNCHANGED <<threadcur, mode, now>>
    BY DEF thread_create, TakeSlot, thread_context_init
<1>3. /\ pc'[slot] = "run" /\ saved'[slot]
      /\ \A i \in Slots : i # slot => /\ pc'[i] = pc[i] /\ active'[i] = active[i]
                                      /\ saved'[i] = saved[i]
    BY <1>1, <1>2 DEF ThreadsInv, TypeOK
<1>4. \A i \in Slots : i >= threadcount <=> i >= threadcount + 1 \/ i = slot
    BY <1>1 DEF Slots
<1>5. crit.depth[slot] = 0
    BY <1>1 DEF ThreadsInv, UntakenClean
<1>6. TypeOK'
    <2>1. \A i \in Slots : pc'[i] = "unused" <=> i >= threadcount'
        <3>1. \A i \in Slots : pc[i] = "unused" <=> i >= threadcount
            BY DEF ThreadsInv, TypeOK
        <3>2. QED
            BY <1>1, <1>2, <1>3, <1>4, <3>1
    <2>2. /\ threadcount' \in 0 .. MaxThreads /\ threadcur' \in Slots
          /\ mode' = "threads" => threadcur' < threadcount'
        BY <1>1, <1>2 DEF ThreadsInv, TypeOK, Slots
    <2>3. /\ active' \in [Slots -> BOOLEAN] /\ nextrun' \in [Slots -> 0 .. MaxTime]
          /\ priority' \in [Slots -> Nat] /\ saved' \in [Slots -> BOOLEAN]
        BY <1>1, <1>2 DEF ThreadsInv, TypeOK
    <2>4. pc' \in [Slots -> {"unused", "run", "delay", "exit", "cleaned", "hang"}]
        BY <1>1, <1>2 DEF ThreadsInv, TypeOK
    <2>5. mode' \in {"boot", "threads", "main"} /\ now' \in 0 .. Horizon
        BY <1>2 DEF ThreadsInv, TypeOK
    <2>6. QED
        BY <2>1, <2>2, <2>3, <2>4, <2>5 DEF TypeOK
<1>7. CriticalExclusion'
    BY <1>2, <1>3, <1>5 DEF ThreadsInv, CriticalExclusion
<1>8. FrameWaits'
    <2>1. threadcur \in Slots
        BY DEF ThreadsInv, TypeOK
    <2>2. QED
        BY <1>1, <1>2, <1>3, <2>1 DEF ThreadsInv, FrameWaits
<1>9. EndedInactive'
    <2>1. SUFFICES ASSUME NEW i \in Slots, pc'[i] \in {"exit", "cleaned", "hang"}
                   PROVE  ~active'[i]
        BY DEF EndedInactive
    <2>2. i # slot
        BY <2>1, <1>3
    <2>3. QED
        BY <2>1, <2>2, <1>3 DEF ThreadsInv, EndedInactive
<1>10. UntakenClean'
    BY <1>2, <1>4 DEF ThreadsInv, UntakenClean
<1>11. QED
    BY <1>6, <1>7, <1>8, <1>9, <1>10

(* The thread list is full: the call is an empty section. *)
LEMMA CreateFull ==
    ASSUME NEW p \in Priorities, thread_create(p), threadcount = MaxThreads
    PROVE  /\ crit' = Section(crit, CurrentContext(threadcount, threadcur))
           /\ UNCHANGED <<table, threadcur, saved, pc, mode, now>>
BY DEF thread_create, TakeSlot, Section, thread_context_init

(* A section of the current context keeps the invariant. *)
LEMMA SectionInv ==
    ASSUME ThreadsInv, crit' = Section(crit, CurrentContext(threadcount, threadcur)),
           UNCHANGED <<table, threadcur, saved, mode, now>>,
           pc' = pc \/ (/\ pc' = [pc EXCEPT ![threadcur] = "cleaned"]
                        /\ mode = "threads" /\ pc[threadcur] = "exit")
    PROVE  ThreadsInv' /\ crit'.depth = crit.depth /\ (mode = "threads" => crit'.mie = crit.mie)
<1> DEFINE w == CurrentContext(threadcount, threadcur)
<1>1. TypeOK /\ w \in Contexts /\ crit \in Sections
    BY DEF ThreadsInv, TypeOK, CurrentContext, Contexts
<1>2. crit' \in Sections /\ crit'.depth = crit.depth
    BY <1>1, SectionBalanced
<1>3. /\ InterruptsMatchDepth' /\ SavedEnabled' /\ BootClean'
      /\ mode = "threads" => crit'.mie = crit.mie
    <2>1. CASE mode = "threads"
        <3>1. /\ w = threadcur
              /\ crit.depth[w] > 0 => crit.irqstate[w]
              /\ crit.mie <=> crit.depth[w] = 0
            BY <2>1, ThreadContext DEF CurrentContext, ThreadsInv, TypeOK
        <3>2. crit'.mie = crit.mie /\ (crit'.depth[w] > 0 => crit'.irqstate[w])
            BY <1>1, <3>1, SectionEffect
        <3>3. crit'.mie <=> crit'.depth[w] = 0
            BY <1>2, <3>1, <3>2
        <3>4. QED
            BY <2>1, <3>1, <3>2, <3>3 DEF InterruptsMatchDepth, SavedEnabled, BootClean
    <2>2. CASE mode # "threads"
        <3>1. BootClean'
            BY <1>2, <2>2 DEF ThreadsInv, BootClean
        <3>2. QED
            BY <2>2, <3>1 DEF InterruptsMatchDepth, SavedEnabled
    <2>3. QED
        BY <2>1, <2>2
<1>5. TypeOK' /\ EndedInactive'
    <2>1. CASE pc' = pc
        BY <1>1, <1>2, <2>1 DEF ThreadsInv, TypeOK, EndedInactive, table
    <2>2. CASE pc' = [pc EXCEPT ![threadcur] = "cleaned"] /\ pc[threadcur] = "exit"
        BY <1>1, <1>2, <2>2 DEF ThreadsInv, TypeOK, EndedInactive, table
    <2>3. QED
        BY <2>1, <2>2
<1>6. CriticalExclusion' /\ FrameWaits' /\ UntakenClean'
    BY <1>2 DEF ThreadsInv, CriticalExclusion, FrameWaits, UntakenClean, table
<1>7. QED
    BY <1>2, <1>3, <1>5, <1>6 DEF ThreadsInv

LEMMA CreateThreads ==
    ASSUME NEW p \in Priorities, ThreadsInv, mode = "threads", thread_create(p)
    PROVE  ThreadsInv' /\ crit'.mie = crit.mie /\ crit'.depth = crit.depth
<1> DEFINE w == threadcur
           slot == threadcount
           e == kernel_critical_enter(crit, w)
           e2 == [e EXCEPT !.depth[slot] = 0, !.irqstate[slot] = FALSE]
<1>1. CASE threadcount = MaxThreads
    BY <1>1, CreateFull, SectionInv
<1>2. CASE threadcount # MaxThreads
    <2>1. /\ w \in Slots /\ w \in Contexts /\ w < threadcount /\ threadcount \in Nat
          /\ crit \in Sections /\ slot # w
          /\ slot \in Contexts /\ slot \in Slots
          /\ crit.mie <=> crit.depth[w] = 0
          /\ crit.depth[w] > 0 => crit.irqstate[w]
        BY <1>2, ThreadContext, ThreadsAssumption DEF ThreadsInv, TypeOK, Slots, Contexts
    <2>2. CurrentContext(threadcount, w) = w /\ CurrentContext(threadcount + 1, w) = w
        BY <2>1, ThreadContext
    <2>3. crit' = kernel_critical_exit(e2, w) /\ UNCHANGED <<threadcur, mode>>
        BY <1>2, <2>2 DEF thread_create, TakeSlot, thread_context_init
    <2>4. e \in Sections /\ ~e.mie /\ e.depth = [crit.depth EXCEPT ![w] = crit.depth[w] + 1]
          /\ e.depth[w] = crit.depth[w] + 1 /\ e.irqstate[w]
        BY <2>1, EnterEffect
    <2>5. crit.depth[slot] = 0 /\ crit.depth \in [Contexts -> Nat] /\ crit.depth[w] \in Nat
        BY <2>1 DEF ThreadsInv, UntakenClean, Sections
    <2>6. e2.depth = e.depth /\ e2.irqstate[w] /\ ~e2.mie /\ e2 \in Sections
        <3>1. e.depth[slot] = 0 /\ e.depth \in [Contexts -> Nat]
            BY <2>1, <2>4, <2>5
        <3>2. e2.depth = e.depth
            BY <2>4, <3>1 DEF Sections
        <3>3. e2.irqstate[w] /\ ~e2.mie
            BY <2>1, <2>4 DEF Sections
        <3>4. e2 \in Sections
            BY <2>1, <2>4 DEF Sections
        <3>5. QED
            BY <3>2, <3>3, <3>4
    <2>7. /\ crit' \in Sections
          /\ crit'.mie <=> crit'.depth[w] = 0
          /\ crit'.depth[w] > 0 => crit'.irqstate[w]
          /\ crit'.depth = [e.depth EXCEPT ![w] = e.depth[w] - 1]
        BY <2>1, <2>3, <2>4, <2>5, <2>6, ExitEffect
    <2>8. crit'.depth = crit.depth
        BY <2>1, <2>4, <2>5, <2>7
    <2>9. crit'.mie = crit.mie
        BY <2>1, <2>7, <2>8 DEF Sections
    <2>10. InterruptsMatchDepth' /\ SavedEnabled' /\ BootClean'
        BY <2>3, <2>7 DEF InterruptsMatchDepth, SavedEnabled, BootClean
    <2>11. QED
        BY <1>2, <2>7, <2>8, <2>9, <2>10, CreateSlot DEF ThreadsInv
<1>3. QED
    BY <1>1, <1>2

LEMMA CreateBoot ==
    ASSUME NEW p \in Priorities, ThreadsInv, mode = "boot", thread_create(p)
    PROVE  ThreadsInv'
<1> DEFINE w == CurrentContext(threadcount, threadcur)
           slot == threadcount
           e == kernel_critical_enter(crit, w)
           e2 == [e EXCEPT !.depth[slot] = 0, !.irqstate[slot] = FALSE]
<1>1. CASE threadcount = MaxThreads
    BY <1>1, CreateFull, SectionInv
<1>2. CASE threadcount # MaxThreads
    <2>1. /\ threadcur = 0 /\ threadcount \in Nat /\ slot \in Slots
          /\ crit \in Sections /\ 0 \in Slots
          /\ \A i \in Slots : i \in Contexts /\ crit.depth[i] = 0
        BY <1>2, ThreadsAssumption DEF ThreadsInv, TypeOK, BootClean, Slots, Contexts
    <2>2. w \in Contexts /\ CurrentContext(threadcount + 1, threadcur) = 0
          /\ (w = Boot \/ w = 0) /\ Boot \notin Slots
        BY <2>1, ThreadsAssumption DEF CurrentContext, Contexts, Boot, Slots
    <2>3. crit' = kernel_critical_exit(e2, 0) /\ UNCHANGED <<threadcur, mode>>
        BY <1>2, <2>2 DEF thread_create, TakeSlot, thread_context_init
    <2>4. e \in Sections /\ e.depth = [crit.depth EXCEPT ![w] = crit.depth[w] + 1]
        BY <2>1, <2>2, SectionTypes DEF kernel_critical_enter
    <2>5. e2 \in Sections /\ e2.depth = [e.depth EXCEPT ![slot] = 0]
        BY <2>1, <2>4 DEF Sections
    <2>6. crit' \in Sections
        BY <2>1, <2>3, <2>5, SectionTypes
    <2>7. \A i \in Slots : i # 0 => e2.depth[i] = 0
        BY <2>1, <2>2, <2>4, <2>5 DEF Sections
    <2>8. e2.depth[0] = 0 \/ e2.depth[0] = 1
        BY <2>1, <2>2, <2>4, <2>5 DEF Sections
    <2>9. \A i \in Slots : crit'.depth[i] = 0
        <3>1. CASE e2.depth[0] = 0
            BY <2>3, <2>7, <3>1 DEF kernel_critical_exit
        <3>2. CASE e2.depth[0] = 1
            <4>1. crit'.depth = [e2.depth EXCEPT ![0] = 0]
                BY <2>3, <3>2 DEF kernel_critical_exit
            <4>2. QED
                BY <2>1, <2>5, <2>7, <4>1 DEF Sections
        <3>3. QED
            BY <2>8, <3>1, <3>2
    <2>10. InterruptsMatchDepth' /\ SavedEnabled' /\ BootClean'
        BY <2>1, <2>3, <2>9 DEF InterruptsMatchDepth, SavedEnabled, BootClean
    <2>11. \A i \in Slots : crit'.depth[i] = crit.depth[i]
        BY <2>1, <2>9
    <2>12. QED
        BY <1>2, <2>6, <2>10, <2>11, CreateSlot DEF ThreadsInv
<1>3. QED
    BY <1>1, <1>2

-----------------------------------------------------------------------------
(* Steps of the running thread that keep the core. *)

LEMMA CriticalStepInv ==
    ASSUME ThreadsInv, ThreadCriticalEnter \/ ThreadCriticalExit
    PROVE  ThreadsInv'
<1> DEFINE w == threadcur
<1>1. /\ mode = "threads" /\ UNCHANGED <<table, threadcur, saved, pc, mode, now>>
      /\ \/ crit' = kernel_critical_enter(crit, w)
         \/ crit' = kernel_critical_exit(crit, w)
    BY DEF ThreadCriticalEnter, ThreadCriticalExit, InThread
<1>2. /\ w \in Slots /\ w \in Contexts /\ crit \in Sections
      /\ w < threadcount /\ threadcount \in Nat /\ w \in Nat
      /\ crit.mie <=> crit.depth[w] = 0
      /\ crit.depth[w] > 0 => crit.irqstate[w]
      /\ \A i \in Slots : i \in Contexts
    BY <1>1, ThreadContext DEF ThreadsInv, TypeOK, Slots, Contexts
<1>3. /\ crit' \in Sections
      /\ crit'.mie <=> crit'.depth[w] = 0
      /\ crit'.depth[w] > 0 => crit'.irqstate[w]
      /\ \A v \in Contexts : v # w => crit'.depth[v] = crit.depth[v]
    <2>1. CASE crit' = kernel_critical_enter(crit, w)
        <3>1. crit.depth \in [Contexts -> Nat] /\ crit.depth[w] \in Nat
            BY <1>2 DEF Sections
        <3>2. /\ crit' \in Sections /\ ~crit'.mie /\ crit'.irqstate[w]
              /\ crit'.depth = [crit.depth EXCEPT ![w] = crit.depth[w] + 1]
              /\ crit'.depth[w] = crit.depth[w] + 1
            BY <1>2, <2>1, EnterEffect
        <3>3. crit'.depth[w] # 0
            BY <3>1, <3>2
        <3>4. QED
            BY <3>1, <3>2, <3>3
    <2>2. CASE crit' = kernel_critical_exit(crit, w)
        BY <1>2, <2>2, ExitEffect
    <2>3. QED
        BY <1>1, <2>1, <2>2
<1>4. TypeOK'
    BY <1>1, <1>3 DEF ThreadsInv, TypeOK, table
<1>5. InterruptsMatchDepth' /\ SavedEnabled' /\ BootClean'
    BY <1>1, <1>3 DEF InterruptsMatchDepth, SavedEnabled, BootClean
<1>6. CriticalExclusion'
    BY <1>1, <1>2, <1>3 DEF ThreadsInv, CriticalExclusion, table
<1>7. FrameWaits' /\ EndedInactive'
    BY <1>1 DEF ThreadsInv, FrameWaits, EndedInactive, table
<1>8. UntakenClean'
    <2>1. ~(w >= threadcount)
        BY <1>2
    <2>2. QED
        BY <1>1, <1>2, <1>3, <2>1 DEF ThreadsInv, UntakenClean, table
<1>9. QED
    BY <1>4, <1>5, <1>6, <1>7, <1>8 DEF ThreadsInv

LEMMA BootSectionInv == ThreadsInv /\ BootSection => ThreadsInv'
BY SectionInv DEF BootSection

LEMMA CleanupInv == ThreadsInv /\ ThreadCleanup => ThreadsInv'
<1> SUFFICES ASSUME ThreadsInv, ThreadCleanup PROVE ThreadsInv'
    OBVIOUS
<1>1. CurrentContext(threadcount, threadcur) = threadcur
    BY ThreadContext DEF ThreadCleanup, ThreadsInv, TypeOK
<1>2. QED
    BY <1>1, SectionInv DEF ThreadCleanup

LEMMA DelayInv ==
    ASSUME NEW d \in Delays, ThreadsInv, thread_delay(d)
    PROVE  ThreadsInv'
<1> USE ThreadsAssumption
<1>1. /\ mode = "threads" /\ threadcur \in Slots /\ pc[threadcur] = "run"
      /\ nextrun' = [nextrun EXCEPT ![threadcur] = DelayUntil(d)]
      /\ pc' = [pc EXCEPT ![threadcur] = "delay"]
      /\ UNCHANGED <<threadcount, threadcur, active, priority, saved, crit, mode, now>>
    BY DEF thread_delay, InThread, ThreadsInv, TypeOK
<1>2. DelayUntil(d) \in 0 .. MaxTime
    <2>1. now \in Nat /\ d \in Nat /\ YieldDelay \in Nat /\ MaxTime \in Nat
        BY DEF ThreadsInv, TypeOK
    <2>2. QED
        BY <2>1 DEF DelayUntil
<1>3. TypeOK'
    BY <1>1, <1>2 DEF ThreadsInv, TypeOK
<1>4. EndedInactive'
    BY <1>1 DEF ThreadsInv, EndedInactive, TypeOK
<1>5. QED
    BY <1>1, <1>3, <1>4
    DEF ThreadsInv, CriticalExclusion, InterruptsMatchDepth, FrameWaits, BootClean,
        SavedEnabled, UntakenClean

LEMMA ReturnsInv == ThreadsInv /\ ThreadReturns => ThreadsInv'
<1> SUFFICES ASSUME ThreadsInv, ThreadReturns PROVE ThreadsInv'
    OBVIOUS
<1>1. /\ mode = "threads" /\ threadcur \in Slots /\ pc[threadcur] = "run"
      /\ active' = [active EXCEPT ![threadcur] = FALSE]
      /\ pc' = [pc EXCEPT ![threadcur] = "exit"]
      /\ UNCHANGED <<threadcount, threadcur, nextrun, priority, saved, crit, mode, now>>
    BY DEF ThreadReturns, InThread, ThreadsInv, TypeOK
<1>2. \A i \in Slots : active'[i] => active[i]
    BY <1>1 DEF ThreadsInv, TypeOK
<1>3. TypeOK'
    BY <1>1 DEF ThreadsInv, TypeOK
<1>4. EndedInactive'
    <2>1. ~active'[threadcur] /\ \A i \in Slots : i # threadcur => pc'[i] = pc[i]
        BY <1>1 DEF ThreadsInv, TypeOK
    <2>2. QED
        BY <1>2, <2>1 DEF ThreadsInv, EndedInactive
<1>5. CriticalExclusion' /\ FrameWaits'
    BY <1>1, <1>2 DEF ThreadsInv, CriticalExclusion, FrameWaits
<1>6. QED
    BY <1>1, <1>3, <1>4, <1>5
    DEF ThreadsInv, InterruptsMatchDepth, BootClean, SavedEnabled, UntakenClean

LEMMA HangInv == ThreadsInv /\ Hang => ThreadsInv'
<1> SUFFICES ASSUME ThreadsInv, Hang PROVE ThreadsInv'
    OBVIOUS
<1>1. /\ mode = "threads" /\ threadcur \in Slots /\ pc[threadcur] = "cleaned"
      /\ pc' = [pc EXCEPT ![threadcur] = "hang"]
      /\ UNCHANGED <<table, threadcur, saved, crit, mode, now>>
    BY DEF Hang, ThreadsInv, TypeOK
<1>2. TypeOK'
    BY <1>1 DEF ThreadsInv, TypeOK, table
<1>3. EndedInactive'
    BY <1>1 DEF ThreadsInv, EndedInactive, TypeOK, table
<1>4. QED
    BY <1>1, <1>2, <1>3
    DEF ThreadsInv, CriticalExclusion, InterruptsMatchDepth, FrameWaits, BootClean,
        SavedEnabled, UntakenClean, table

LEMMA TimeInv == ThreadsInv /\ TimePasses => ThreadsInv'
<1> SUFFICES ASSUME ThreadsInv, TimePasses PROVE ThreadsInv'
    OBVIOUS
<1>1. TypeOK'
    BY ThreadsAssumption DEF ThreadsInv, TypeOK, TimePasses, table
<1>2. QED
    BY <1>1
    DEF TimePasses, ThreadsInv, CriticalExclusion, InterruptsMatchDepth, FrameWaits,
        BootClean, SavedEnabled, EndedInactive, UntakenClean, table

-----------------------------------------------------------------------------
(* Steps that hand the core over. *)

(* What schedule() selects is the caller or another thread that is ready.   *)
LEMMA SelectedReady ==
    ASSUME NEW runs, NEW next \in Selected(runs), ThreadsInv, mode = "threads"
    PROVE  /\ next \in Slots /\ next < threadcount
           /\ next # threadcur => active[next] /\ runs[next] <= now /\ crit.depth[next] = 0
<1>1. /\ next \in Slots
      /\ next = threadcur \/ next \in Ready(active, runs, threadcur, threadcount, now)
    BY DEF Selected, IsNext
<1>2. next # threadcur => active[next] /\ runs[next] <= now /\ next < threadcount
    BY <1>1 DEF Ready, ThreadsInv, TypeOK, Slots
<1>3. QED
    BY <1>1, <1>2 DEF ThreadsInv, TypeOK, CriticalExclusion

(* A switch from a thread outside critical sections, or one that has ended, *)
(* keeps the invariant.                                                     *)
LEMMA SwitchInv ==
    ASSUME ThreadsInv, mode = "threads", UNCHANGED <<threadcount, active, mode>>,
           NEW next \in Slots, next < threadcount, crit.depth[next] = 0,
           crit.depth[threadcur] = 0 \/ ~active[threadcur],
           threadcur' = next, crit' = [crit EXCEPT !.mie = TRUE],
           ~saved'[next], \A i \in Slots : active[i] /\ i # next => saved'[i],
           TypeOK', EndedInactive'
    PROVE  ThreadsInv'
<1>1. crit'.mie = TRUE /\ crit'.depth = crit.depth
    BY DEF ThreadsInv, TypeOK, Sections
<1>2. \A i \in Slots : active[i] => crit.depth[i] = 0
    BY DEF ThreadsInv, CriticalExclusion
<1>3. CriticalExclusion'
    BY <1>1, <1>2 DEF CriticalExclusion
<1>4. InterruptsMatchDepth' /\ SavedEnabled' /\ BootClean'
    <2>1. crit'.depth[next] = 0 /\ ~(crit'.depth[next] > 0)
        BY <1>1
    <2>2. QED
        BY <1>1, <2>1 DEF InterruptsMatchDepth, SavedEnabled, BootClean
<1>5. FrameWaits'
    BY DEF FrameWaits
<1>6. UntakenClean'
    BY <1>1 DEF ThreadsInv, UntakenClean
<1>7. QED
    BY <1>3, <1>4, <1>5, <1>6 DEF ThreadsInv

LEMMA HandOverInv == ThreadsInv /\ HandOver => ThreadsInv'
<1> SUFFICES ASSUME ThreadsInv, HandOver PROVE ThreadsInv'
    OBVIOUS
<1>1. mode = "threads" /\ pc[threadcur] = "cleaned" /\ UNCHANGED <<table, pc, mode, now>>
    BY DEF HandOver, thread_context_load
<1>2. PICK next \in Selected(nextrun) \ {threadcur} :
          /\ threadcur' = next
          /\ saved' = [saved EXCEPT ![next] = FALSE]
          /\ crit' = [crit EXCEPT !.mie = TRUE]
    BY DEF HandOver, thread_context_load
<1>3. next \in Slots /\ next < threadcount /\ next # threadcur /\ crit.depth[next] = 0
    BY <1>1, SelectedReady
<1>4. threadcur \in Slots /\ ~active[threadcur]
    BY <1>1 DEF ThreadsInv, TypeOK, EndedInactive
<1>5. TypeOK' /\ EndedInactive'
    BY <1>1, <1>2, <1>3 DEF ThreadsInv, TypeOK, EndedInactive, Sections, table
<1>6. ~saved'[next] /\ \A i \in Slots : active[i] /\ i # next => saved'[i]
    BY <1>2, <1>3, <1>4 DEF ThreadsInv, TypeOK, FrameWaits
<1>7. QED
    BY <1>1, <1>2, <1>3, <1>4, <1>5, <1>6, SwitchInv DEF table

(* SwitchTo, by a thread that is outside critical sections. *)
LEMMA SwitchToFrames ==
    ASSUME ThreadsInv, mode = "threads", NEW next \in Slots, SwitchTo(next)
    PROVE  /\ saved' \in [Slots -> BOOLEAN] /\ crit' \in Sections
           /\ ~saved'[next] /\ \A i \in Slots : active[i] /\ i # next => saved'[i]
<1>1. /\ threadcur \in Slots /\ saved \in [Slots -> BOOLEAN] /\ crit \in Sections
      /\ \A i \in Slots : active[i] /\ i # threadcur => saved[i]
    BY DEF ThreadsInv, TypeOK, FrameWaits
<1>2. QED
    BY <1>1 DEF SwitchTo, Sections, thread_context_load

LEMMA DelaySwitchInv == ThreadsInv /\ DelaySwitch => ThreadsInv'
<1> SUFFICES ASSUME ThreadsInv, DelaySwitch PROVE ThreadsInv'
    OBVIOUS
<1>1. /\ mode = "threads" /\ threadcur \in Slots /\ pc[threadcur] = "delay"
      /\ pc' = [pc EXCEPT ![threadcur] = "run"] /\ UNCHANGED <<table, mode, now>>
    BY DEF DelaySwitch, ThreadsInv, TypeOK
<1>2. EndedInactive'
    BY <1>1 DEF ThreadsInv, EndedInactive, TypeOK, table
<1>3. CASE crit.depth[threadcur] = 0
    <2>1. PICK next \in Selected(nextrun) : SwitchTo(next)
        BY <1>3 DEF DelaySwitch, Successors
    <2>2. next \in Slots /\ next < threadcount /\ crit.depth[next] = 0
        BY <1>1, <1>3, SelectedReady
    <2>3. TypeOK'
        BY <1>1, <2>1, <2>2, SwitchToFrames DEF ThreadsInv, TypeOK, SwitchTo, table,
            thread_context_load
    <2>4. QED
        BY <1>1, <1>2, <1>3, <2>1, <2>2, <2>3, SwitchToFrames, SwitchInv DEF SwitchTo, table,
            thread_context_load
<1>4. CASE crit.depth[threadcur] # 0
    <2>1. UNCHANGED <<saved, threadcur, crit>>
        BY <1>4 DEF DelaySwitch
    <2>2. TypeOK'
        BY <1>1, <2>1 DEF ThreadsInv, TypeOK, table
    <2>3. QED
        BY <1>1, <1>2, <2>1, <2>2
        DEF ThreadsInv, CriticalExclusion, InterruptsMatchDepth, FrameWaits, BootClean,
            SavedEnabled, UntakenClean, table
<1>5. QED
    BY <1>3, <1>4

LEMMA TickInv == ThreadsInv /\ thread_tick_handler => ThreadsInv'
<1> SUFFICES ASSUME ThreadsInv, thread_tick_handler PROVE ThreadsInv'
    OBVIOUS
<1>1. /\ mode = "threads" /\ crit.mie /\ threadcur \in Slots
      /\ nextrun' = [nextrun EXCEPT ![threadcur] = now]
      /\ UNCHANGED <<threadcount, active, priority, pc, mode, now>>
    BY DEF thread_tick_handler, ThreadsInv, TypeOK, thread_context_load, kernel_tick_handle
<1>2. crit.depth[threadcur] = 0
    BY <1>1 DEF ThreadsInv, InterruptsMatchDepth
<1>3. PICK next \in Selected(nextrun') : SwitchTo(next)
    BY <1>2 DEF thread_tick_handler, Successors, thread_context_load, kernel_tick_handle
<1>4. next \in Slots /\ next < threadcount /\ crit.depth[next] = 0
    BY <1>1, <1>2, <1>3, SelectedReady
<1>5. now \in 0 .. MaxTime
    BY ThreadsAssumption DEF ThreadsInv, TypeOK
<1>6. TypeOK' /\ EndedInactive'
    BY <1>1, <1>3, <1>4, <1>5, SwitchToFrames
    DEF ThreadsInv, TypeOK, EndedInactive, SwitchTo, thread_context_load
<1>7. QED
    BY <1>1, <1>2, <1>3, <1>4, <1>6, SwitchToFrames, SwitchInv DEF SwitchTo, thread_context_load

LEMMA BeginInv == ThreadsInv /\ thread_begin => ThreadsInv'
<1> SUFFICES ASSUME ThreadsInv, thread_begin PROVE ThreadsInv'
    OBVIOUS
<1>1. mode = "boot" /\ UNCHANGED <<table, pc, now>>
    BY DEF thread_begin, thread_context_load
<1>2. threadcur = 0 /\ \A i \in Slots : crit.depth[i] = 0
    BY <1>1 DEF ThreadsInv, BootClean
<1>3. CASE mode' = "main"
    <2>1. UNCHANGED <<threadcur, saved, crit>>
        BY <1>3 DEF thread_begin, thread_context_load
    <2>2. TypeOK'
        BY <1>1, <1>3, <2>1 DEF ThreadsInv, TypeOK, table
    <2>3. QED
        BY <1>1, <1>2, <1>3, <2>1, <2>2
        DEF ThreadsInv, CriticalExclusion, InterruptsMatchDepth, FrameWaits, BootClean,
            SavedEnabled, EndedInactive, UntakenClean, table
<1>4. CASE mode' # "main"
    <2>1. PICK first \in Slots : /\ first < threadcount /\ threadcur' = first
                                 /\ saved' = [saved EXCEPT ![first] = FALSE]
        BY <1>4 DEF thread_begin, thread_context_load
    <2>2. mode' = "threads" /\ crit' = [crit EXCEPT !.mie = TRUE]
        BY <1>4 DEF thread_begin, thread_context_load
    <2>3. crit' \in Sections /\ crit'.depth = crit.depth /\ crit'.mie = TRUE
        BY <2>2 DEF ThreadsInv, TypeOK, Sections
    <2>4. TypeOK'
        BY <1>1, <2>1, <2>2, <2>3 DEF ThreadsInv, TypeOK, table
    <2>5. InterruptsMatchDepth' /\ SavedEnabled' /\ CriticalExclusion' /\ BootClean'
        BY <1>2, <2>1, <2>2, <2>3
        DEF InterruptsMatchDepth, SavedEnabled, CriticalExclusion, BootClean
    <2>6. FrameWaits'
        BY <1>1, <2>1, <2>2 DEF ThreadsInv, TypeOK, FrameWaits, table
    <2>7. EndedInactive' /\ UntakenClean'
        BY <1>1, <2>3 DEF ThreadsInv, EndedInactive, UntakenClean, table
    <2>8. QED
        BY <2>4, <2>5, <2>6, <2>7 DEF ThreadsInv
<1>5. QED
    BY <1>3, <1>4
-----------------------------------------------------------------------------
LEMMA StepInv == ThreadsInv /\ [Next]_vars => ThreadsInv'
<1> SUFFICES ASSUME ThreadsInv, [Next]_vars PROVE ThreadsInv'
    OBVIOUS
<1>1. CASE UNCHANGED vars
    BY <1>1
    DEF vars, ThreadsInv, TypeOK, CriticalExclusion, InterruptsMatchDepth, FrameWaits,
        BootClean, SavedEnabled, EndedInactive, UntakenClean
<1>2. CASE \E p \in Priorities : thread_create(p)
    BY <1>2, CreateThreads, CreateBoot DEF thread_create, TakeSlot, InThread, thread_context_init
<1>3. CASE BootSection
    BY <1>3, BootSectionInv
<1>4. CASE ThreadCriticalEnter \/ ThreadCriticalExit
    BY <1>4, CriticalStepInv
<1>5. CASE thread_begin
    BY <1>5, BeginInv
<1>6. CASE \E d \in Delays : thread_delay(d)
    BY <1>6, DelayInv
<1>7. CASE DelaySwitch
    BY <1>7, DelaySwitchInv
<1>8. CASE thread_tick_handler
    BY <1>8, TickInv
<1>9. CASE ThreadReturns
    BY <1>9, ReturnsInv
<1>10. CASE ThreadCleanup
    BY <1>10, CleanupInv
<1>11. CASE HandOver
    BY <1>11, HandOverInv
<1>12. CASE Hang
    BY <1>12, HangInv
<1>13. CASE TimePasses
    BY <1>13, TimeInv
<1>14. QED
    BY <1>1, <1>2, <1>3, <1>4, <1>5, <1>6, <1>7, <1>8, <1>9, <1>10, <1>11, <1>12, <1>13
    DEF Next

(* ThreadsInv is inductive: it holds in every state the threads of a core   *)
(* can reach.                                                               *)
THEOREM ThreadsInvariant == Spec => []ThreadsInv
<1>1. QED
    BY InitInv, StepInv, PTL DEF Spec

(* The fields of the thread table keep their ranges; nextrun never leaves   *)
(* that of threadtime_t.                                                    *)
THEOREM ThreadsTyped == Spec => []TypeOK
<1>1. ThreadsInv => TypeOK
    BY DEF ThreadsInv
<1>2. QED
    BY <1>1, ThreadsInvariant, PTL

(* No thread that can run is inside a critical section while another thread *)
(* is the current one, with the tick or without it.                         *)
THEOREM SectionsExclude == Spec => []CriticalExclusion
<1>1. ThreadsInv => CriticalExclusion
    BY DEF ThreadsInv
<1>2. QED
    BY <1>1, ThreadsInvariant, PTL

(* The interrupts are off exactly inside critical sections. *)
THEOREM InterruptsBalanced == Spec => []InterruptsMatchDepth
<1>1. ThreadsInv => InterruptsMatchDepth
    BY DEF ThreadsInv
<1>2. QED
    BY <1>1, ThreadsInvariant, PTL

(* Every thread that waits for the core has a frame to return to. *)
THEOREM FramesWait == Spec => []FrameWaits
<1>1. ThreadsInv => FrameWaits
    BY DEF ThreadsInv
<1>2. QED
    BY <1>1, ThreadsInvariant, PTL

(* The core passes only from a thread outside its critical sections, or one *)
(* that has ended, to a thread that is live and due.                        *)
THEOREM HandOverRule == Spec => HandsOverToReady
<1> DEFINE Rule == mode = "threads" /\ threadcur' # threadcur =>
                       /\ crit.depth[threadcur] = 0 \/ ~active[threadcur]
                       /\ active[threadcur'] /\ nextrun[threadcur'] <= now
<1>1. ThreadsInv /\ [Next]_vars => [Rule]_vars
    <2>1. SUFFICES ASSUME ThreadsInv, Next, mode = "threads", threadcur' # threadcur
                   PROVE  Rule
        BY DEF vars
    <2>2. CASE DelaySwitch
        <3>1. crit.depth[threadcur] = 0
            BY <2>1, <2>2 DEF DelaySwitch
        <3>2. PICK next \in Selected(nextrun) : SwitchTo(next)
            BY <2>2, <3>1 DEF DelaySwitch, Successors
        <3>3. QED
            BY <2>1, <3>1, <3>2, SelectedReady DEF SwitchTo, thread_context_load
    <2>3. CASE thread_tick_handler
        <3>1. crit.depth[threadcur] = 0
            BY <2>1, <2>3 DEF thread_tick_handler, ThreadsInv, InterruptsMatchDepth,
                thread_context_load, kernel_tick_handle
        <3>2. PICK next \in Selected(nextrun') : SwitchTo(next)
            BY <2>3, <3>1 DEF thread_tick_handler, Successors, thread_context_load,
                kernel_tick_handle
        <3>3. active[next] /\ nextrun'[next] <= now /\ next # threadcur /\ threadcur' = next
              /\ next \in Slots
            BY <2>1, <3>2, SelectedReady DEF SwitchTo, thread_context_load
        <3>4. nextrun'[next] = nextrun[next]
            BY <2>3, <3>3 DEF thread_tick_handler, ThreadsInv, TypeOK, thread_context_load,
                kernel_tick_handle
        <3>5. QED
            BY <3>1, <3>3, <3>4
    <2>4. CASE HandOver
        <3>1. PICK next \in Selected(nextrun) \ {threadcur} : threadcur' = next
            BY <2>4 DEF HandOver, thread_context_load
        <3>2. ~active[threadcur]
            BY <2>1, <2>4 DEF HandOver, ThreadsInv, TypeOK, EndedInactive, thread_context_load
        <3>3. QED
            BY <2>1, <3>1, <3>2, SelectedReady
    <2>5. CASE ~(DelaySwitch \/ thread_tick_handler \/ HandOver)
        BY <2>1, <2>5
        DEF Next, thread_create, TakeSlot, BootSection, ThreadCriticalEnter, ThreadCriticalExit,
            thread_begin, thread_delay, ThreadReturns, ThreadCleanup, Hang, TimePasses,
            thread_context_load, thread_context_init
    <2>6. QED
        BY <2>2, <2>3, <2>4, <2>5
<1>2. QED
    BY <1>1, ThreadsInvariant, PTL DEF Spec, HandsOverToReady

(* A thread_create() by a thread, also one that finds the thread list full  *)
(* (kthreads.c 324-328), keeps the nesting and the interrupts of its caller. *)
THEOREM CreateKeepsSections == Spec => CreateRestores
<1> DEFINE Rule == \A p \in Priorities :
                       mode = "threads" /\ thread_create(p) =>
                           crit'.mie = crit.mie /\ crit'.depth = crit.depth
<1>1. ThreadsInv => [Rule]_vars
    BY CreateThreads
<1>2. QED
    BY <1>1, ThreadsInvariant, PTL DEF Spec, CreateRestores

-----------------------------------------------------------------------------
(* Without the tick only the ended thread itself gives up the core between  *)
(* the end of its entry function and its clean-up.                          *)
EndsHolding ==
    \A i \in Slots : pc[i] = "exit" => mode = "threads" /\ i = threadcur

LEMMA EndsHoldingStep ==
    ASSUME ~TickAttached, TypeOK, EndsHolding, [Next]_vars
    PROVE  EndsHolding'
<1> USE DEF TypeOK, EndsHolding
<1>1. ASSUME NEW p \in Priorities, thread_create(p) PROVE EndsHolding'
    BY <1>1 DEF thread_create, TakeSlot
<1>2. CASE BootSection \/ ThreadCriticalEnter \/ ThreadCriticalExit
    BY <1>2 DEF BootSection, ThreadCriticalEnter, ThreadCriticalExit, table
<1>3. CASE thread_begin
    BY <1>3 DEF thread_begin, table
<1>4. ASSUME NEW d \in Delays, thread_delay(d) PROVE EndsHolding'
    BY <1>4 DEF thread_delay, InThread
<1>5. CASE DelaySwitch
    BY <1>5 DEF DelaySwitch, table
<1>6. CASE thread_tick_handler
    BY <1>6 DEF thread_tick_handler
<1>7. CASE ThreadReturns \/ ThreadCleanup
    BY <1>7 DEF ThreadReturns, ThreadCleanup, InThread, table
<1>8. CASE HandOver \/ Hang
    BY <1>8 DEF HandOver, Hang, table
<1>9. CASE TimePasses \/ UNCHANGED vars
    BY <1>9 DEF TimePasses, vars, table
<1>10. QED
    BY <1>1, <1>2, <1>3, <1>4, <1>5, <1>6, <1>7, <1>8, <1>9 DEF Next

(* An ended thread is cleaned up before the core goes on, in the build      *)
(* without the tick.                                                        *)
THEOREM CleanedFirst ==
    ASSUME ~TickAttached
    PROVE  Spec => []CleanedBeforeHandOver
<1>1. Init => EndsHolding
    BY DEF Init, EndsHolding
<1>2. TypeOK /\ EndsHolding /\ [Next]_vars => EndsHolding'
    BY EndsHoldingStep
<1>3. EndsHolding => CleanedBeforeHandOver
    BY DEF EndsHolding, CleanedBeforeHandOver
<1>4. QED
    BY <1>1, <1>2, <1>3, ThreadsTyped, PTL DEF Spec
=============================================================================
