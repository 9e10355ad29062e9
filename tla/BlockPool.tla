----------------------------- MODULE BlockPool -----------------------------
(***************************************************************************)
(* What the block allocator of the kernel promises its callers              *)
(* (kernel/include/kmemory.h and kernel/internal/kinternal.h): disjoint     *)
(* runs of whole blocks, each with one owner, handed out whenever a run of  *)
(* the size asked for is free, returned as a whole through a pointer to any *)
(* of their blocks, and taken back when the owning thread ends.  Where in   *)
(* the heap a run is placed is left open.                                   *)
(***************************************************************************)
EXTENDS Integers

CONSTANTS Usable,        \* the blocks that can be handed out
          ThreadOwners,  \* owners that are threads
          KernelOwners,  \* owners that are parts of the kernel
          Callers, Counts, Pointers   \* the arguments of the calls

VARIABLES open,     \* the heap has been set up
          allocs,   \* the runs handed out: [start, count, owner]
          last      \* the last call and its result

poolvars == <<open, allocs, last>>

BlocksOf(a) == a.start .. a.start + a.count - 1

IsFree(b) == b \in Usable /\ \A a \in allocs : b \notin BlocksOf(a)

Fits(start, count) == \A b \in start .. start + count - 1 : IsFree(b)

Init == open = FALSE /\ allocs = {} /\ last = [op |-> "none"]

Open ==
    /\ ~open
    /\ open' = TRUE /\ allocs' = {} /\ last' = [op |-> "init"]

OwnersOf(kernel) == IF kernel THEN KernelOwners ELSE ThreadOwners

(* A request for count blocks is granted exactly when its owner is one that *)
(* may own blocks and some run of count free blocks exists.                 *)
Acquire(owner, count, kernel) ==
    LET valid == open /\ count > 0 /\ owner \in OwnersOf(kernel)
        Answer(n) == last' = [op |-> "consume", kernel |-> kernel, owner |-> owner,
                              count |-> count, ret |-> n]
    IN /\ \/ /\ Answer(count)
             /\ valid
             /\ \E start \in Usable :
                   /\ Fits(start, count)
                   /\ allocs' = allocs \cup
                          {[start |-> start, count |-> count, owner |-> owner]}
          \/ /\ Answer(-1)
             /\ ~valid \/ \A start \in Usable : ~Fits(start, count)
             /\ UNCHANGED allocs
       /\ UNCHANGED open

(* A pointer to block returns the run it belongs to, if the run's owner is  *)
(* of the kind the call is for.                                             *)
Release(block, kernel) ==
    LET hit == {a \in allocs : block \in BlocksOf(a) /\ a.owner \in OwnersOf(kernel)}
        Answer(n) == last' = [op |-> "return", kernel |-> kernel, block |-> block, ret |-> n]
    IN /\ \/ \E a \in hit : Answer(a.count) /\ allocs' = allocs \ {a}
          \/ Answer(-1) /\ hit = {} /\ UNCHANGED allocs
       /\ UNCHANGED open

(* The runs of a thread that ends are taken back, and no other. *)
EndThread(thread) ==
    /\ last' = [op |-> "exit", owner |-> thread]
    /\ allocs' = {a \in allocs : a.owner # thread}
    /\ UNCHANGED open

Next ==
    \/ Open
    \/ \E kernel \in BOOLEAN :
          \/ \E owner \in Callers, count \in Counts : Acquire(owner, count, kernel)
          \/ \E block \in Pointers : Release(block, kernel)
    \/ \E thread \in ThreadOwners : EndThread(thread)

Spec == Init /\ [][Next]_poolvars
=============================================================================
