--------------------------- MODULE ScheduleProofs ---------------------------
(* The loop of schedule() returns the preferred ready thread, for every     *)
(* number of threads, every thread table and every movement of the clock.   *)
EXTENDS Schedule, TLAPS

(* Before the first iteration no thread has been seen. *)
LEMMA InitInv == Init => ScheduleInv
<1> SUFFICES ASSUME Init PROVE ScheduleInv
    OBVIOUS
<1>1. TypeOK
    BY ScheduleAssumption DEF Init, TypeOK, Slots, SIZE_MAX, idle_priority
<1>2. Ready(active, nextrun, threadcur, i, start) = {}
    BY DEF Init, Ready
<1>3. QED
    BY <1>1, <1>2 DEF ScheduleInv, Candidate, ReturnsPreferred, Init

(* The threads seen after one more iteration are those seen before and i.   *)
LEMMA ReadyGrows ==
    ASSUME TypeOK, i < threadcount, NEW t \in 0 .. Horizon
    PROVE  \A j \in Ready(active, nextrun, threadcur, i + 1, t) :
               \/ j \in Ready(active, nextrun, threadcur, i, t)
               \/ j = i /\ active[i] /\ i # threadcur /\ nextrun[i] <= t
BY DEF TypeOK, Ready

LEMMA IterateInv == ScheduleInv /\ Iterate => ScheduleInv'
<1> SUFFICES ASSUME ScheduleInv, Iterate PROVE ScheduleInv'
    OBVIOUS
<1> USE ScheduleAssumption DEF SIZE_MAX, idle_priority
<1>1. i \in Slots /\ i + 1 \in 0 .. threadcount
    BY DEF ScheduleInv, TypeOK, Iterate, Slots
<1>2. TypeOK'
    BY <1>1 DEF ScheduleInv, TypeOK, Iterate, inputs
<1>3. UNCHANGED <<active, nextrun, priority, threadcur, threadcount, start, clock, result>>
      /\ i' = i + 1
    BY DEF Iterate, inputs
<1>4. \A j \in Ready(active, nextrun, threadcur, i + 1, start) :
          \/ j \in Ready(active, nextrun, threadcur, i, start)
          \/ j = i /\ ~Skipped
    <2>1. nextrun[i] \in Int /\ start \in Int /\ clock \in Int /\ start <= clock
          /\ start \in 0 .. Horizon
        BY <1>1 DEF ScheduleInv, TypeOK, Slots
    <2>2. nextrun[i] <= start => ~(nextrun[i] > clock)
        BY <2>1
    <2>3. \A j \in Ready(active, nextrun, threadcur, i + 1, start) :
              \/ j \in Ready(active, nextrun, threadcur, i, start)
              \/ j = i /\ active[i] /\ i # threadcur /\ nextrun[i] <= start
        BY ReadyGrows, <2>1 DEF ScheduleInv, Iterate
    <2>4. QED
        BY <2>2, <2>3 DEF Skipped
<1>5. Candidate'
    <2>1. CASE ~Skipped /\ Better
        <3>1. nextthread_index' = i /\ max_priority' = priority[i] /\ min_nextrun' = nextrun[i]
            BY <2>1 DEF Iterate
        <3>2. i \in Ready(active, nextrun, threadcur, i + 1, clock)
            BY <2>1, <1>1 DEF Skipped, Ready, ScheduleInv, TypeOK, Slots
        <3>3. ASSUME NEW j \in Ready(active, nextrun, threadcur, i, start)
              PROVE  Prefers(nextrun, priority, i, j)
            <4>1. j \in Slots /\ j < i
                BY <1>1 DEF Ready, ScheduleInv, TypeOK, Slots
            <4>2. nextthread_index # SIZE_MAX /\ Prefers(nextrun, priority, nextthread_index, j)
                BY <3>3 DEF ScheduleInv, Candidate
            <4>3. nextthread_index \in Slots
                BY <4>2, <1>1 DEF ScheduleInv, TypeOK, Slots
            <4>4. QED
                BY <2>1, <4>1, <4>2, <4>3, <1>1
                DEF Better, Prefers, ScheduleInv, Candidate, TypeOK
        <3>4. Prefers(nextrun, priority, i, i)
            BY <1>1 DEF Prefers, ScheduleInv, TypeOK, Slots
        <3>5. QED
            BY <3>1, <3>2, <3>3, <3>4, <1>1, <1>3, <1>4 DEF Candidate, Slots
    <2>2. CASE ~(~Skipped /\ Better)
        <3>1. UNCHANGED <<max_priority, min_nextrun, nextthread_index>>
            BY <2>2 DEF Iterate
        <3>2. CASE nextthread_index = SIZE_MAX
            <4>1. Ready(active, nextrun, threadcur, i, start) = {}
                BY <3>2 DEF ScheduleInv, Candidate
            <4>2. Skipped
                BY <2>2, <3>2, <1>1
                DEF Skipped, Better, ScheduleInv, Candidate, TypeOK, Slots
            <4>3. QED
                BY <3>1, <3>2, <4>1, <4>2, <1>3, <1>4 DEF ScheduleInv, Candidate
        <3>3. CASE nextthread_index # SIZE_MAX
            <4>1. nextthread_index \in Slots /\ nextthread_index < i
                BY <3>3, <1>1 DEF ScheduleInv, TypeOK, Slots
            <4>2. nextthread_index \in Ready(active, nextrun, threadcur, i + 1, clock)
                BY <3>3, <1>1 DEF ScheduleInv, Candidate, Ready, TypeOK
            <4>3. ~Skipped => Prefers(nextrun, priority, nextthread_index, i)
                BY <2>2, <3>3, <4>1, <1>1
                DEF Better, Prefers, ScheduleInv, Candidate, TypeOK
            <4>4. QED
                BY <3>1, <3>3, <4>2, <4>3, <1>3, <1>4 DEF ScheduleInv, Candidate
        <3>4. QED
            BY <3>2, <3>3
    <2>3. QED
        BY <2>1, <2>2
<1>6. ReturnsPreferred'
    BY <1>3 DEF ScheduleInv, ReturnsPreferred
<1>7. QED
    BY <1>2, <1>5, <1>6 DEF ScheduleInv

LEMMA ReturnInv == ScheduleInv /\ Return => ScheduleInv'
<1> SUFFICES ASSUME ScheduleInv, Return PROVE ScheduleInv'
    OBVIOUS
<1> USE ScheduleAssumption DEF SIZE_MAX
<1>1. i = threadcount /\ UNCHANGED <<inputs, clock, i, max_priority, min_nextrun, nextthread_index>>
    BY DEF Return
<1>2. TypeOK'
    BY <1>1 DEF ScheduleInv, TypeOK, Return, inputs
<1>3. Candidate'
    BY <1>1 DEF ScheduleInv, Candidate, inputs
<1>4. ReturnsPreferred'
    <2>1. CASE nextthread_index = SIZE_MAX
        BY <2>1, <1>1 DEF ScheduleInv, Candidate, ReturnsPreferred, Return, inputs
    <2>2. CASE nextthread_index # SIZE_MAX
        <3>1. nextthread_index \in Ready(active, nextrun, threadcur, threadcount, clock)
            BY <2>2, <1>1 DEF ScheduleInv, Candidate
        <3>2. min_nextrun # MaxTime
            BY <2>2, <3>1, <1>1 DEF ScheduleInv, Candidate, TypeOK, Ready, Slots
        <3>3. result' = nextthread_index /\ nextthread_index # threadcur
            BY <2>2, <3>1, <3>2 DEF Return, Ready
        <3>4. QED
            BY <2>2, <3>1, <3>3, <1>1 DEF ScheduleInv, Candidate, ReturnsPreferred, inputs
    <2>3. QED
        BY <2>1, <2>2
<1>5. QED
    BY <1>2, <1>3, <1>4 DEF ScheduleInv

LEMMA ClockInv == ScheduleInv /\ ClockAdvances => ScheduleInv'
<1> SUFFICES ASSUME ScheduleInv, ClockAdvances PROVE ScheduleInv'
    OBVIOUS
<1>1. TypeOK'
    BY ScheduleAssumption DEF ScheduleInv, TypeOK, ClockAdvances, inputs, locals
<1>2. ASSUME NEW n \in Int
      PROVE  Ready(active, nextrun, threadcur, n, clock) \cap Slots
                 \subseteq Ready(active, nextrun, threadcur, n, clock + 1)
    <2>1. \A j \in Slots : nextrun[j] \in Int
        BY DEF ScheduleInv, TypeOK
    <2>2. clock \in Int
        BY DEF ScheduleInv, TypeOK
    <2>3. \A j \in Slots : nextrun[j] <= clock => nextrun[j] <= clock + 1
        BY <2>1, <2>2
    <2>4. QED
        BY <2>3 DEF Ready
<1>3. Candidate'
    <2>1. CASE nextthread_index = SIZE_MAX
        BY <2>1 DEF ScheduleInv, Candidate, ClockAdvances, inputs, locals
    <2>2. CASE nextthread_index # SIZE_MAX
        <3>1. nextthread_index \in Slots /\ i \in Int
            BY <2>2, ScheduleAssumption DEF ScheduleInv, TypeOK, Slots
        <3>2. nextthread_index \in Ready(active, nextrun, threadcur, i, clock + 1)
            BY <2>2, <3>1, <1>2 DEF ScheduleInv, Candidate
        <3>3. QED
            BY <2>2, <3>2 DEF ScheduleInv, Candidate, ClockAdvances, inputs, locals
    <2>3. QED
        BY <2>1, <2>2
<1>4. ReturnsPreferred'
    BY DEF ClockAdvances, ReturnsPreferred, locals
<1>5. QED
    BY <1>1, <1>3, <1>4 DEF ScheduleInv

(* The loop keeps its invariant, whatever the table and the clock. *)
THEOREM LoopInvariant == Spec => []ScheduleInv
<1>1. ScheduleInv /\ UNCHANGED vars => ScheduleInv'
    BY DEF ScheduleInv, TypeOK, Candidate, ReturnsPreferred, vars, inputs, locals
<1>2. ScheduleInv /\ [Next]_vars => ScheduleInv'
    BY <1>1, IterateInv, ReturnInv, ClockInv DEF Next
<1>3. QED
    BY <1>2, InitInv, PTL DEF Spec

(* The locals of schedule() keep their types.                               *)
THEOREM ScanTyped == Spec => []TypeOK
<1>1. ScheduleInv => TypeOK
    BY DEF ScheduleInv
<1>2. QED
    BY <1>1, LoopInvariant, PTL

(* At each pass the candidate is ready and nothing seen so far that was     *)
(* ready at the call is preferred to it, or nothing seen was ready.         *)
THEOREM CandidateKept == Spec => []Candidate
<1>1. ScheduleInv => Candidate
    BY DEF ScheduleInv
<1>2. QED
    BY <1>1, LoopInvariant, PTL

(* schedule() never returns a thread to which a thread that was ready all   *)
(* along is preferred, and never one that is not ready.                     *)
THEOREM PreferredThread == Spec => []ReturnsPreferred
<1>1. ScheduleInv => ReturnsPreferred
    BY DEF ScheduleInv
<1>2. QED
    BY <1>1, LoopInvariant, PTL

(* A corollary: with the clock still, the loop (schedule.c 19-44) computes  *)
(* the choice IsNext that module KThreads takes from it.                    *)
THEOREM LoopComputesNext == Spec => []ReturnsNext
<1>1. ReturnsPreferred => ReturnsNext
    BY DEF ReturnsPreferred, ReturnsNext, IsNext
<1>2. QED
    BY <1>1, PreferredThread, PTL
=============================================================================
