------------------------------ MODULE Schedule ------------------------------
(***************************************************************************)
(* The loop of schedule() (kernel/src/schedule.c), one step per iteration. *)
(* The thread table is an arbitrary input and does not change during the   *)
(* scan; the clock, which the loop reads again for every thread, may.       *)
(***************************************************************************)
EXTENDS SchedulePolicy

CONSTANTS MaxThreads,     \* MAX_THREADS
          MaxPriority,    \* bound on threadpriority_t
          MaxTime,        \* thread_maxtime, the largest threadtime_t
          Horizon         \* the last instant the clock shows

ASSUME ScheduleAssumption ==
    /\ MaxThreads \in Nat \ {0}
    /\ MaxPriority \in Nat
    /\ MaxTime \in Nat
    /\ Horizon \in Nat
    /\ Horizon < MaxTime     \* "Assume thread time will never overflow"

VARIABLES active, nextrun, priority, threadcur, threadcount,  \* the arguments
          clock,                                      \* time_us_64()
          i, max_priority, min_nextrun, nextthread_index,  \* the locals
          result,                                     \* what the call returned
          start                         \* history: the clock at the call

inputs == <<active, nextrun, priority, threadcur, threadcount, start>>
locals == <<i, max_priority, min_nextrun, nextthread_index, result>>
vars == <<inputs, clock, locals>>

Slots == 0 .. MaxThreads - 1
SIZE_MAX == -1                  \* no index of a thread
idle_priority == 0              \* thread_idle_priority

Init ==
    /\ threadcount \in 1 .. MaxThreads
    /\ threadcur \in 0 .. threadcount - 1
    /\ active \in [Slots -> BOOLEAN]
    /\ nextrun \in [Slots -> 0 .. MaxTime]
    /\ priority \in [Slots -> 0 .. MaxPriority]
    /\ clock \in 0 .. Horizon
    /\ start = clock
    /\ i = 0
    /\ max_priority = idle_priority
    /\ min_nextrun = MaxTime
    /\ nextthread_index = SIZE_MAX
    /\ result = SIZE_MAX

(* Mutant: the thread's nextrun is not compared with the clock. *)
MutSkippedNotDue == ~active[i] \/ i = threadcur

Skipped == ~active[i] \/ i = threadcur \/ nextrun[i] > clock

Better ==
    \/ priority[i] > max_priority
    \/ priority[i] = max_priority /\ nextrun[i] < min_nextrun

(* Mutant of Iterate: the loop runs past the last thread. *)
MutIteratePastEnd ==
    /\ i <= threadcount
    /\ i' = i + 1
    /\ UNCHANGED <<inputs, clock, max_priority, min_nextrun, nextthread_index, result>>

(* One iteration of the for loop. *)
Iterate ==
    /\ i < threadcount
    /\ i' = i + 1
    /\ IF ~Skipped /\ Better
       THEN /\ max_priority' = priority[i]
            /\ min_nextrun' = nextrun[i]
            /\ nextthread_index' = i
       ELSE UNCHANGED <<max_priority, min_nextrun, nextthread_index>>
    /\ UNCHANGED <<inputs, clock, result>>

Return ==
    /\ i = threadcount
    /\ result = SIZE_MAX
    /\ result' = IF min_nextrun = MaxTime \/ nextthread_index = SIZE_MAX
                 THEN threadcur ELSE nextthread_index
    /\ UNCHANGED <<inputs, clock, i, max_priority, min_nextrun, nextthread_index>>

ClockAdvances ==
    /\ result = SIZE_MAX
    /\ clock < Horizon
    /\ clock' = clock + 1
    /\ UNCHANGED <<inputs, locals>>

Next == Iterate \/ Return \/ ClockAdvances

Spec == Init /\ [][Next]_vars

-----------------------------------------------------------------------------
TypeOK ==
    /\ threadcount \in 1 .. MaxThreads
    /\ threadcur \in 0 .. threadcount - 1
    /\ active \in [Slots -> BOOLEAN]
    /\ nextrun \in [Slots -> 0 .. MaxTime]
    /\ priority \in [Slots -> 0 .. MaxPriority]
    /\ start \in 0 .. Horizon
    /\ clock \in start .. Horizon
    /\ i \in 0 .. threadcount
    /\ max_priority \in 0 .. MaxPriority
    /\ min_nextrun \in 0 .. MaxTime
    /\ nextthread_index \in 0 .. i - 1 \cup {SIZE_MAX}
    /\ result \in 0 .. threadcount - 1 \cup {SIZE_MAX}

(* The candidate the loop holds after i iterations: it was ready, and no    *)
(* thread seen so far that was ready from the start is preferred to it.     *)
Candidate ==
    IF nextthread_index = SIZE_MAX
    THEN /\ max_priority = idle_priority
         /\ min_nextrun = MaxTime
         /\ Ready(active, nextrun, threadcur, i, start) = {}
    ELSE /\ max_priority = priority[nextthread_index]
         /\ min_nextrun = nextrun[nextthread_index]
         /\ nextthread_index \in Ready(active, nextrun, threadcur, i, clock)
         /\ \A j \in Ready(active, nextrun, threadcur, i, start) :
                Prefers(nextrun, priority, nextthread_index, j)

(* Whenever schedule() returns, even if the clock moved while it scanned,   *)
(* it returns its caller or a thread that is ready by now, and no thread    *)
(* that was ready throughout the scan is preferred to the one returned.     *)
ReturnsPreferred ==
    result # SIZE_MAX =>
        /\ \/ result = threadcur
           \/ result \in Ready(active, nextrun, threadcur, threadcount, clock)
        /\ \A j \in Ready(active, nextrun, threadcur, threadcount, start) :
               result # threadcur /\ Prefers(nextrun, priority, result, j)

(* What that means when the clock does not move during the scan: the loop   *)
(* computes IsNext, which KThreads takes one call of schedule() for.        *)
ReturnsNext ==
    result # SIZE_MAX /\ clock = start =>
        IsNext(result, active, nextrun, priority, threadcur, threadcount, clock)

(* The loop invariant and what it gives at the return. *)
ScheduleInv == TypeOK /\ Candidate /\ ReturnsPreferred

=============================================================================
