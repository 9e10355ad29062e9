----------------------------- MODULE Application -----------------------------
(***************************************************************************)
(* The program of main.cpp on the kernel without the tick: main() creates   *)
(* the idle thread and the heartbeat and starts them; each loops on         *)
(* thread_delay().  A thread computes for any time between two calls.       *)
(* What counts here is time, for ever, so nextrun is kept relative to the   *)
(* clock; how late a thread is, once due, matters to schedule() only among  *)
(* threads of one priority, and the two differ.                             *)
(***************************************************************************)
EXTENDS SchedulePolicy

CONSTANTS YieldDelay,          \* yield_effective_delay_time_us: 10 ms
          HeartbeatDelay,      \* thread_mstotime(1000)
          thread_yielddelay    \* UINT64_MAX

ASSUME ApplicationAssumption ==
    /\ YieldDelay \in Nat \ {0}
    /\ HeartbeatDelay \in Nat /\ HeartbeatDelay > YieldDelay
    /\ thread_yielddelay \in Nat /\ thread_yielddelay > HeartbeatDelay

VARIABLES threadcount, threadcur,
          phase,   \* "main": main() before thread_begin(); "run": application
                   \* code; "delay": in thread_delay(), before the switch
          due,     \* the time left until the nextrun of each thread, 0 once it has come
          held     \* how long the current thread has had the core, up to HeartbeatDelay

vars == <<threadcount, threadcur, phase, due, held>>

idle == 0
heartbeat == 1
Threads == {idle, heartbeat}

(* What main() creates, and the argument of each loop's thread_delay(). *)
Priority == [i \in Threads |-> IF i = idle THEN 0 ELSE 1]
LoopDelay == [i \in Threads |-> IF i = idle THEN thread_yielddelay ELSE HeartbeatDelay]

Active == [i \in Threads |-> i < threadcount]

Init ==
    /\ threadcount = 0 /\ threadcur = 0
    /\ phase = "main"
    /\ due = [i \in Threads |-> 0]
    /\ held = 0

(* thread_create() sets nextrun to 0: the thread is due at once. *)
thread_create ==
    /\ phase = "main" /\ threadcount < 2
    /\ threadcount' = threadcount + 1
    /\ due' = [due EXCEPT ![threadcount] = 0]
    /\ UNCHANGED <<threadcur, phase, held>>

(* Mutant: the search for the first thread runs past the list. *)
MutBeginPastEnd ==
    /\ phase = "main" /\ threadcount = 2
    /\ threadcur' = threadcount
    /\ phase' = "run" /\ held' = 0
    /\ UNCHANGED <<threadcount, due>>

(* thread_begin() loads the first thread. *)
thread_begin ==
    /\ phase = "main" /\ threadcount = 2
    /\ threadcur' = idle
    /\ phase' = "run" /\ held' = 0
    /\ UNCHANGED <<threadcount, due>>

(* Mutant: yielding waits as long as its argument says. *)
MutTimeToNextrun(delay) == delay

(* From the call to nextrun. *)
TimeToNextrun(delay) == IF delay = thread_yielddelay THEN YieldDelay ELSE delay

(* thread_delay() up to the switch. *)
thread_delay ==
    /\ phase = "run"
    /\ due' = [due EXCEPT ![threadcur] = TimeToNextrun(LoopDelay[threadcur])]
    /\ phase' = "delay"
    /\ UNCHANGED <<threadcount, threadcur, held>>

(* Mutant: only a thread of higher priority than the caller gets the core. *)
MutSwitchToHigher ==
    /\ phase = "delay"
    /\ \E next \in Threads :
           /\ IsNext(next, [i \in Threads |-> Active[i] /\ Priority[i] > Priority[threadcur]],
                     due, Priority, threadcur, threadcount, 0)
           /\ threadcur' = next
           /\ held' = IF next = threadcur THEN held ELSE 0
    /\ phase' = "run"
    /\ UNCHANGED <<threadcount, due>>

(* schedule() and the switch, from which thread_delay() returns: in another *)
(* thread, or, when that is not due, in its caller before its time.         *)
Switch ==
    /\ phase = "delay"
    /\ \E next \in Threads :
           /\ IsNext(next, Active, due, Priority, threadcur, threadcount, 0)
           /\ threadcur' = next
           /\ held' = IF next = threadcur THEN held ELSE 0
    /\ phase' = "run"
    /\ UNCHANGED <<threadcount, due>>

TimePasses ==
    /\ due' = [i \in Threads |-> IF due[i] > 0 THEN due[i] - 1 ELSE 0]
    /\ held' = IF held < HeartbeatDelay THEN held + 1 ELSE held
    /\ UNCHANGED <<threadcount, threadcur, phase>>

Next == thread_create \/ thread_begin \/ thread_delay \/ Switch \/ TimePasses

(* Nothing blocks main() or the loops, and time does not stand still. *)
Spec ==
    /\ Init /\ [][Next]_vars
    /\ WF_vars(thread_create) /\ WF_vars(thread_begin)
    /\ WF_vars(thread_delay) /\ WF_vars(Switch) /\ WF_vars(TimePasses)

-----------------------------------------------------------------------------
TypeOK ==
    /\ threadcount \in 0 .. 2
    /\ threadcur \in Threads
    /\ phase \in {"main", "run", "delay"}
    /\ due \in [Threads -> 0 .. HeartbeatDelay]
    /\ held \in 0 .. HeartbeatDelay
    /\ phase # "main" => threadcount = 2

(* The longest a delay of the thread lasts by its argument. *)
Longest(i) == IF i = idle THEN YieldDelay ELSE HeartbeatDelay

(* A thread that is not due is so because of its own last delay, which it   *)
(* called before it lost the core: what is left of it and the time the      *)
(* current thread has had the core since are no more than the whole.        *)
DelaysCountDown ==
    \A i \in Threads :
        /\ due[i] <= Longest(i)
        /\ phase # "main" /\ i # threadcur /\ due[i] > 0 => due[i] + held <= Longest(i)

(* thread_delay() returns to its caller before its nextrun, when no other   *)
(* thread is ready (schedule.c 36), only for a while: to the heartbeat,     *)
(* which is to beat once a second, for less than a yield of the idle thread *)
(* from when it got the core.  After that it really waits.                  *)
EarlyReturnsBrief ==
    [][ phase = "delay" /\ phase' = "run" /\ threadcur' = threadcur /\ due[threadcur] > 0
        => \A i \in Threads \ {threadcur} : held < Longest(i) ]_vars

(* The heartbeat beats for ever, and the idle thread always gets the core   *)
(* back from it, whatever bursts of beats there are.                        *)
EveryoneRuns == \A i \in Threads : []<>(phase = "run" /\ threadcur = i)
=============================================================================
