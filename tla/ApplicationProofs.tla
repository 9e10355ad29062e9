-------------------------- MODULE ApplicationProofs --------------------------
(***************************************************************************)
(* For all delays of the two threads of main.cpp: a delay that returns     *)
(* before its time does so only in the time the other thread needs to      *)
(* become due.  The clock's units are arbitrary.                            *)
(***************************************************************************)
EXTENDS Application, TLAPS

ApplicationInv == TypeOK /\ DelaysCountDown

LEMMA InitInv == Init => ApplicationInv
BY ApplicationAssumption
   DEF Init, ApplicationInv, TypeOK, DelaysCountDown, Longest, Threads, idle, heartbeat

(* thread_delay() makes its caller due after its longest delay.             *)
LEMMA DelayLength == \A i \in Threads : TimeToNextrun(LoopDelay[i]) = Longest(i)
BY ApplicationAssumption
   DEF TimeToNextrun, LoopDelay, Longest, Threads, idle, heartbeat

LEMMA LongestTime == \A i \in Threads : Longest(i) \in 1 .. HeartbeatDelay
BY ApplicationAssumption DEF Longest, Threads, idle, heartbeat

(* Every step keeps the types and what is left of each delay.               *)
LEMMA StepKeepsInv == ApplicationInv /\ [Next]_vars => ApplicationInv'
<1> SUFFICES ASSUME ApplicationInv, [Next]_vars PROVE ApplicationInv'
    OBVIOUS
<1> USE ApplicationAssumption, LongestTime DEF ApplicationInv
<1>1. CASE thread_create
    BY <1>1 DEF thread_create, TypeOK, DelaysCountDown, Threads, idle, heartbeat
<1>2. CASE thread_begin
    BY <1>2 DEF thread_begin, TypeOK, DelaysCountDown, Threads, idle, heartbeat
<1>3. CASE thread_delay
    BY <1>3, DelayLength DEF thread_delay, TypeOK, DelaysCountDown
<1>4. CASE Switch
    <2>1. PICK next \in Threads :
              threadcur' = next /\ held' = IF next = threadcur THEN held ELSE 0
        BY <1>4 DEF Switch
    <2>2. TypeOK'
        BY <1>4, <2>1 DEF Switch, TypeOK
    <2>3. DelaysCountDown'
        BY <1>4, <2>1 DEF Switch, TypeOK, DelaysCountDown
    <2> QED BY <2>2, <2>3
<1>5. CASE TimePasses
    <2>1. TypeOK'
        BY <1>5 DEF TimePasses, TypeOK
    <2>2. DelaysCountDown'
        BY <1>5 DEF TimePasses, TypeOK, DelaysCountDown
    <2> QED BY <2>1, <2>2
<1>6. CASE UNCHANGED vars
    BY <1>6 DEF vars, TypeOK, DelaysCountDown, Longest
<1> QED BY <1>1, <1>2, <1>3, <1>4, <1>5, <1>6 DEF Next

(* The inductive invariant of the application.                              *)
THEOREM ApplicationInvariant == Spec => []ApplicationInv
BY InitInv, StepKeepsInv, PTL DEF Spec

(* Type correctness.                                                        *)
THEOREM ApplicationTyped == Spec => []TypeOK
<1>1. ApplicationInv => TypeOK
    BY DEF ApplicationInv
<1> QED BY <1>1, ApplicationInvariant, PTL

(* schedule() gives the core back to its caller only while every other      *)
(* thread has some of its last delay left.                                  *)
LEMMA FallbackAlone ==
    ASSUME TypeOK, Switch, threadcur' = threadcur,
           NEW i \in Threads \ {threadcur}
    PROVE  due[i] > 0
<1>1. phase = "delay" /\ threadcount = 2
    BY DEF Switch, TypeOK
<1>2. PICK next \in Threads :
          /\ IsNext(next, Active, due, Priority, threadcur, threadcount, 0)
          /\ threadcur' = next
    BY DEF Switch
<1>3. Ready(Active, due, threadcur, threadcount, 0) = {}
    BY <1>2 DEF IsNext, Ready
<1>4. i \in Threads /\ i # threadcur /\ i \in 0 .. 1 /\ i < 2
    BY DEF Threads, idle, heartbeat
<1>5. i \in 0 .. threadcount - 1 /\ i < threadcount
    BY <1>1, <1>4
<1>6. Active[i] = (i < threadcount)
    BY <1>4, Zenon DEF Active
<1>7. Active[i]
    BY <1>5, <1>6, Zenon
<1>8. ~(due[i] <= 0)
    BY <1>3, <1>4, <1>5, <1>7, Zenon DEF Ready
<1> QED BY <1>4, <1>8, ApplicationAssumption DEF TypeOK

(* A delay returns early only for as long as the others' delays last, from  *)
(* when its caller got the core.                                            *)
LEMMA EarlyStep ==
    ASSUME ApplicationInv, [Next]_vars,
           phase = "delay", phase' = "run", threadcur' = threadcur,
           NEW i \in Threads \ {threadcur}
    PROVE  held < Longest(i)
<1>1. Switch
    BY DEF Next, thread_create, thread_begin, thread_delay, TimePasses, vars
<1>2. due[i] > 0
    BY <1>1, FallbackAlone DEF ApplicationInv
<1> QED BY <1>2, LongestTime, ApplicationAssumption DEF ApplicationInv, TypeOK, DelaysCountDown

(* The bursts of early returns are brief, whatever the delays are.          *)
THEOREM BurstsBrief == Spec => EarlyReturnsBrief
<1>1. ApplicationInv /\ [Next]_vars =>
          [ phase = "delay" /\ phase' = "run" /\ threadcur' = threadcur /\ due[threadcur] > 0
            => \A i \in Threads \ {threadcur} : held < Longest(i) ]_vars
    BY EarlyStep
<1> QED BY <1>1, ApplicationInvariant, PTL DEF Spec, EarlyReturnsBrief
=============================================================================
