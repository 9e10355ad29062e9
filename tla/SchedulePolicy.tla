---------------------------- MODULE SchedulePolicy ----------------------------
(***************************************************************************)
(* The order in which schedule() (kernel/src/schedule.c) prefers threads,   *)
(* stated over the thread table it is given: the fields active, nextrun and *)
(* priority of thread_list[0 .. n-1], and the index cur of the thread that  *)
(* gives up the core.  Module Schedule is the loop itself and shows that it *)
(* returns what IsNext asks for.                                            *)
(***************************************************************************)
EXTENDS Integers

(* The threads the loop does not skip (lines 20 and 22) at time t. *)
Ready(active, nextrun, cur, n, t) ==
    {i \in 0 .. n-1 : active[i] /\ i # cur /\ nextrun[i] <= t}

(* Mutant: the earlier nextrun counts before the priority. *)
MutPrefersTimeFirst(nextrun, priority, i, j) ==
    \/ nextrun[i] < nextrun[j]
    \/ nextrun[i] = nextrun[j] /\ i <= j

(* Thread i is preferred to j: priority first, then the earlier nextrun,    *)
(* then the lower index, which the loop meets first.                        *)
Prefers(nextrun, priority, i, j) ==
    \/ priority[i] > priority[j]
    \/ /\ priority[i] = priority[j]
       /\ \/ nextrun[i] < nextrun[j]
          \/ nextrun[i] = nextrun[j] /\ i <= j

(* next is what schedule() returns for a thread table that does not change *)
(* while the clock reads t: the preferred ready thread, or the caller when  *)
(* no other thread is ready (line 39).                                      *)
IsNext(next, active, nextrun, priority, cur, n, t) ==
    LET ready == Ready(active, nextrun, cur, n, t)
    IN \/ ready = {} /\ next = cur
       \/ /\ next \in ready
          /\ \A j \in ready : Prefers(nextrun, priority, next, j)

=============================================================================
