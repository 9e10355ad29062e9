-------------------------------- MODULE Heap --------------------------------
(***************************************************************************)
(* What the calls of kernel/components/malloc/malloc.h promise: memory that *)
(* nobody else uses, which is the caller's, in place, until the caller      *)
(* frees it or a krealloc has another place for it.  Where an allocation    *)
(* goes and when a call is refused is left open.                            *)
(***************************************************************************)
EXTENDS Integers

CONSTANTS Threads,
          Memory,     \* the addresses of the heap
          Sizes       \* the sizes that are asked for

VARIABLES live,       \* the allocations in use: where, and the size asked for
          moves       \* the allocation a krealloc of each thread is moving

heapvars == <<live, moves>>

NULL == 0
Move(old, found) == [old |-> old, found |-> found]
NoMove == Move(NULL, FALSE)

RangeOf(l) == l.ptr .. l.ptr + l.size - 1

InPlace(l, others) ==
    /\ RangeOf(l) \subseteq Memory
    /\ \A k \in others : RangeOf(l) \cap RangeOf(k) = {}

Obtain ==
    \E ptr \in Memory, size \in Sizes :
        LET new == [ptr |-> ptr, size |-> size]
        IN live' = live \cup {new} /\ InPlace(new, live)

(* The application does not free or move what is being moved. *)
Settled(l) == \A t \in Threads : moves[t].old # l.ptr

Init == live = {} /\ moves = [t \in Threads |-> NoMove]

Malloc(t) ==
    /\ moves[t] = NoMove
    /\ Obtain
    /\ UNCHANGED moves

Free(t) ==
    /\ moves[t] = NoMove
    /\ \E l \in live : Settled(l) /\ live' = live \ {l}
    /\ UNCHANGED moves

(* A realloc that stays in place. *)
Resize(t) ==
    /\ moves[t] = NoMove
    /\ \E l \in live, size \in Sizes :
          LET new == [ptr |-> l.ptr, size |-> size]
          IN /\ live' = (live \ {l}) \cup {new}
             /\ Settled(l) /\ InPlace(new, live \ {l})
    /\ UNCHANGED moves

(* A realloc that moves: the old allocation is kept until there is a new    *)
(* one, and kept for good if there is none.                                 *)
MoveBegin(t) ==
    /\ moves[t] = NoMove
    /\ \E l \in live : Settled(l) /\ moves' = [moves EXCEPT ![t] = Move(l.ptr, FALSE)]
    /\ UNCHANGED live

Searching(t) == moves[t].old # NULL /\ ~moves[t].found

MoveTo(t) ==
    /\ Searching(t)
    /\ Obtain
    /\ moves' = [moves EXCEPT ![t] = Move(@.old, TRUE)]

MoveFails(t) ==
    /\ Searching(t)
    /\ moves' = [moves EXCEPT ![t] = NoMove]
    /\ UNCHANGED live

MoveEnd(t) ==
    /\ moves[t].found
    /\ \E l \in live : l.ptr = moves[t].old /\ live' = live \ {l}
    /\ moves' = [moves EXCEPT ![t] = NoMove]

Next ==
    \E t \in Threads :
        \/ Malloc(t) \/ Free(t) \/ Resize(t)
        \/ MoveBegin(t) \/ MoveTo(t) \/ MoveFails(t) \/ MoveEnd(t)

Spec == Init /\ [][Next]_heapvars
=============================================================================
