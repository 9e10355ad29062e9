------------------------------ MODULE KMalloc ------------------------------
(***************************************************************************)
(* The heap: kernel/components/malloc/malloc.c.  Arenas are runs of blocks  *)
(* of the pool (module BlockPool).  An arena holds sectors of data from its  *)
(* base upwards and one header per sector from its top downwards.  kmalloc   *)
(* takes blocks for a new arena outside its lock, with a slot of g_arenas    *)
(* reserved; with the tick installed other threads run in between.          *)
(***************************************************************************)
EXTENDS Integers, FiniteSets, SequencesExt

CONSTANTS Threads,
          MaxArenas,      \* KALLOC_MAX_ARENAS
          HeapBlocks,     \* the blocks there are, numbered from 1
          BlockBytes,     \* KMEMORY_BLOCK_SIZE
          Align,          \* alignof(max_align_t)
          HeaderBytes,    \* sizeof(kalloc_sector_t)
          SizeMod,        \* SIZE_MAX + 1, for sizes and addresses
          CountMod,       \* UINT16_MAX + 1, for counts of blocks
          Sizes,          \* the size arguments of the calls
          Counts,         \* the count arguments of kcalloc
          TickAttached,   \* whether a thread can be preempted in a call
          MaxLive         \* bound: the allocations in use at a time

ASSUME MallocAssumption ==
    /\ IsFiniteSet(Threads)
    /\ {MaxArenas, HeapBlocks, BlockBytes, Align, HeaderBytes, CountMod} \subseteq Nat \ {0}
    /\ SizeMod \in Nat /\ SizeMod > BlockBytes * (HeapBlocks + 1)
    /\ SizeMod % Align = 0 /\ HeaderBytes <= BlockBytes
    /\ Sizes \cup Counts \subseteq 1 .. SizeMod - 1
    /\ TickAttached \in BOOLEAN
    /\ MaxLive \in Nat

VARIABLES
    g_arenas,
    allocs,    \* the runs of blocks handed out, as in BlockPool
    live,      \* the allocations in use: where, and the size asked for
    call,      \* where each thread stands in a call
    fault      \* a store outside memory has stopped the core

vars == <<g_arenas, allocs, live, call, fault>>

NULL == 0
Idle == [at |-> "idle"]
ArenaSlots == 1 .. MaxArenas
SectorIndices == 1 .. HeapBlocks * BlockBytes    \* every header takes a byte

Pool == INSTANCE BlockPool WITH
            Usable <- 1 .. HeapBlocks, ThreadOwners <- Threads, KernelOwners <- {},
            Callers <- Threads, Counts <- 1 .. CountMod, Pointers <- 1 .. HeapBlocks,
            open <- TRUE, last <- NULL

-----------------------------------------------------------------------------
(* Sectors and arenas.  An unused slot has no blocks and no sectors, and a  *)
(* reserved one differs from it in in_use alone.                            *)
Sector(allocated, units) == [allocated |-> allocated, units |-> units]

UnusedArena == [in_use |-> FALSE, base |-> NULL, blocks |-> 0, sectors |-> <<>>]
ReservedArena == [UnusedArena EXCEPT !.in_use = TRUE]
NewArena(base, blocks) ==
    [in_use |-> TRUE, base |-> base, blocks |-> blocks, sectors |-> <<Sector(FALSE, 0)>>]

align_up(size) == (((size + Align - 1) % SizeMod) \div Align) * Align

(* The bytes of data of the first n sectors, for each n.                    *)
DataBytes(sectors) ==
    LET bytes[n \in 0 .. Len(sectors)] ==
            IF n = 0 THEN 0 ELSE bytes[n - 1] + Align * sectors[n].units
    IN bytes

arena_total_data_bytes(arena) == DataBytes(arena.sectors)[Len(arena.sectors)]
arena_data_ptr_for_sector(arena, i) == arena.base + DataBytes(arena.sectors)[i - 1]

Bytes(arena) == arena.blocks * BlockBytes
HeadersBottom(arena) == arena.base + Bytes(arena) - HeaderBytes * Len(arena.sectors)

(* The single empty sector of a new arena, which the first append uses. *)
IsSentinel(sectors) == sectors = <<Sector(FALSE, 0)>>

(* How far data may grow.  Addresses wrap: a reserved slot, without blocks  *)
(* or sectors, seems to reach to the end of the address space.              *)
DataLimit(arena) ==
    (HeadersBottom(arena) - IF IsSentinel(arena.sectors) THEN 0 ELSE HeaderBytes) % SizeMod

DataEnd(arena, bytes) == (arena.base + arena_total_data_bytes(arena) + bytes) % SizeMod

(* Mutant: the new header is not counted. *)
MutCanAppendNoHeader(arena, bytes) ==
    arena.in_use /\ DataEnd(arena, bytes) <= HeadersBottom(arena) % SizeMod

arena_can_append(arena, bytes) == arena.in_use /\ DataEnd(arena, bytes) <= DataLimit(arena)

Slack(arena, bytes) == (DataLimit(arena) - DataEnd(arena, bytes)) % SizeMod

arena_append_sector(arena, units) ==
    [arena EXCEPT !.sectors = IF IsSentinel(@) THEN <<Sector(TRUE, units)>>
                              ELSE Append(@, Sector(TRUE, units))]

-----------------------------------------------------------------------------
(* Critical sections and calls. *)

Scheduled(t) == ~fault /\ (TickAttached \/ \A u \in Threads \ {t} : call[u] = Idle)
In(t, at) == Scheduled(t) /\ call[t].at = at
Goto(t, where) == call' = [call EXCEPT ![t] = where]

(* A kmalloc of size bytes returns ptr, to the application or to the        *)
(* krealloc that still has to free old.                                     *)
Returns(t, ptr, size, old) ==
    /\ live' = live \cup {[ptr |-> ptr, size |-> size]}
    /\ Goto(t, IF old = NULL THEN Idle ELSE [at |-> "copy", old |-> old])

Fails(t) == Goto(t, Idle) /\ UNCHANGED live

Init ==
    /\ g_arenas = [a \in ArenaSlots |-> UnusedArena]
    /\ allocs = {}
    /\ live = {}
    /\ call = [t \in Threads |-> Idle]
    /\ fault = FALSE

-----------------------------------------------------------------------------
(* The free sectors that hold units, and the one best-fit takes: of the     *)
(* smallest the first, in order of the arenas.                              *)
FreeSectors(units) ==
    {p \in ArenaSlots \X SectorIndices :
        LET arena == g_arenas[p[1]]
        IN /\ arena.in_use
           /\ p[2] \in DOMAIN arena.sectors
           /\ ~arena.sectors[p[2]].allocated
           /\ arena.sectors[p[2]].units >= units}

UnitsOf(p) == g_arenas[p[1]].sectors[p[2]].units

IsBestFit(p, units) ==
    /\ p \in FreeSectors(units)
    /\ \A q \in FreeSectors(units) :
          \/ UnitsOf(p) < UnitsOf(q)
          \/ UnitsOf(p) = UnitsOf(q) /\ (p[1] < q[1] \/ (p[1] = q[1] /\ p[2] <= q[2]))

(* The arenas that can be appended to; the least slack wins, then the first.*)
Appendable(bytes) == {a \in ArenaSlots : arena_can_append(g_arenas[a], bytes)}

IsBestAppend(a, bytes) ==
    /\ a \in Appendable(bytes)
    /\ \A b \in Appendable(bytes) :
          LET sa == Slack(g_arenas[a], bytes)
              sb == Slack(g_arenas[b], bytes)
          IN sa < sb \/ (sa = sb /\ a <= b)

(* The first locked section of kmalloc(): a free sector is reused, a sector *)
(* is appended, or a slot is reserved for a new arena.  An append to a slot *)
(* that is only reserved stores its header outside memory.                  *)
MallocSection(t, size, old) ==
    LET bytes == align_up(size)
        units == bytes \div Align
        Unused == {a \in ArenaSlots : ~g_arenas[a].in_use}
    IN /\ \/ \E a \in ArenaSlots : \E i \in DOMAIN g_arenas[a].sectors :
                /\ IsBestFit(<<a, i>>, units)
                /\ g_arenas' = [g_arenas EXCEPT ![a].sectors[i].allocated = TRUE]
                /\ Returns(t, arena_data_ptr_for_sector(g_arenas[a], i), size, old)
                /\ UNCHANGED fault
          \/ /\ FreeSectors(units) = {}
             /\ \E a \in ArenaSlots :
                   /\ IsBestAppend(a, bytes)
                   /\ IF g_arenas[a].base = NULL
                      THEN fault' = TRUE /\ UNCHANGED <<g_arenas, live, call>>
                      ELSE /\ g_arenas' = [g_arenas EXCEPT ![a] = arena_append_sector(@, units)]
                           /\ Returns(t, DataEnd(g_arenas[a], 0), size, old)
                           /\ UNCHANGED fault
          \/ /\ FreeSectors(units) = {} /\ Appendable(bytes) = {} /\ Unused # {}
             /\ g_arenas' = [g_arenas EXCEPT ![Min(Unused)] = ReservedArena]
             /\ Goto(t, [at |-> "blocks", slot |-> Min(Unused), size |-> size, old |-> old])
             /\ UNCHANGED <<live, fault>>
          \/ /\ FreeSectors(units) = {} /\ Appendable(bytes) = {} /\ Unused = {}
             /\ Fails(t)
             /\ UNCHANGED <<g_arenas, fault>>
       /\ UNCHANGED allocs

kmalloc(t, size) ==
    /\ In(t, "idle")
    /\ Cardinality(live) < MaxLive
    /\ MallocSection(t, size, NULL)

(* The blocks asked for: the count is truncated to 16 bits, and 0 becomes 1.*)
BlocksFor(size) ==
    LET count == (((align_up(size) + HeaderBytes + BlockBytes - 1) % SizeMod) \div BlockBytes)
                 % CountMod
    IN IF count = 0 THEN 1 ELSE count

(* mem_block_consume() outside the lock. *)
MallocBlocks(t) ==
    /\ In(t, "blocks")
    /\ LET count == BlocksFor(call[t].size)
       IN \/ \E b \in 1 .. HeapBlocks :
                /\ Pool!Fits(b, count)
                /\ allocs' = allocs \cup {[start |-> b, count |-> count, owner |-> t]}
                /\ Goto(t, [at |-> "arena", slot |-> call[t].slot, size |-> call[t].size,
                            old |-> call[t].old, base |-> b * BlockBytes, blocks |-> count])
          \/ /\ \A b \in 1 .. HeapBlocks : ~Pool!Fits(b, count)
             /\ Goto(t, [at |-> "unreserve", slot |-> call[t].slot])
             /\ UNCHANGED allocs
    /\ UNCHANGED <<g_arenas, live, fault>>

MallocUnreserve(t) ==
    /\ In(t, "unreserve")
    /\ g_arenas' = [g_arenas EXCEPT ![call[t].slot] = UnusedArena]
    /\ Fails(t)
    /\ UNCHANGED <<allocs, fault>>

(* The second locked section: the arena is set up and the sector appended;  *)
(* if either is refused the slot is given up, then the blocks.              *)
MallocArena(t) ==
    /\ In(t, "arena")
    /\ LET c == call[t]
           bytes == align_up(c.size)
           arena == NewArena(c.base, c.blocks)
       IN IF g_arenas[c.slot] = ReservedArena /\ arena_can_append(arena, bytes)
          THEN /\ g_arenas' = [g_arenas EXCEPT
                                  ![c.slot] = arena_append_sector(arena, bytes \div Align)]
               /\ Returns(t, c.base, c.size, c.old)
          ELSE /\ g_arenas' = [g_arenas EXCEPT ![c.slot] = UnusedArena]
               /\ Goto(t, [at |-> "giveback", base |-> c.base])
               /\ UNCHANGED live
    /\ UNCHANGED <<allocs, fault>>

(* mem_block_return() of the first block of a run. *)
Without(base) == {r \in allocs : r.start * BlockBytes # base}

(* Mutant: the blocks that were too few are kept. *)
MutMallocGiveBackForgets(t) ==
    /\ In(t, "giveback")
    /\ Fails(t)
    /\ UNCHANGED <<g_arenas, allocs, fault>>

MallocGiveBack(t) ==
    /\ In(t, "giveback")
    /\ allocs' = Without(call[t].base)
    /\ Fails(t)
    /\ UNCHANGED <<g_arenas, fault>>

-----------------------------------------------------------------------------
arena_contains_ptr(arena, ptr) ==
    arena.in_use /\ ptr \in arena.base .. arena.base + Bytes(arena) - 1

(* The place of ptr: the first arena that contains it, and the sector it    *)
(* points into.                                                             *)
PlacesOf(ptr) ==
    {p \in ArenaSlots \X SectorIndices :
        LET arena == g_arenas[p[1]]
        IN /\ arena_contains_ptr(arena, ptr)
           /\ \A b \in 1 .. p[1] - 1 : ~arena_contains_ptr(g_arenas[b], ptr)
           /\ p[2] \in DOMAIN arena.sectors
           /\ arena_data_ptr_for_sector(arena, p[2]) <= ptr
           /\ ptr < arena_data_ptr_for_sector(arena, p[2] + 1)}

arena_remove_sector_at(s, i) == RemoveAt(s, i)

(* Mutant: the size of the sector after is lost when it is joined. *)
MutJoinLosesNext(s, i) == arena_remove_sector_at(s, i + 1)

(* Sectors i and i + 1 become one free sector.                              *)
Join(s, i) ==
    arena_remove_sector_at([s EXCEPT ![i] = Sector(FALSE, @.units + s[i + 1].units)], i + 1)

MarkFree(s, i) == [s EXCEPT ![i].allocated = FALSE]

FreeBefore(s, i) == i > 1 /\ ~s[i - 1].allocated
FreeAfter(s, i) == i < Len(s) /\ ~s[i + 1].allocated

JoinBefore(s, i) == IF FreeBefore(s, i) THEN Join(s, i - 1) ELSE s
JoinAfter(s, i) == IF FreeAfter(s, i) THEN Join(s, i) ELSE s
Joined(s, i) == IF FreeBefore(s, i) THEN i - 1 ELSE i

(* Mutant: only the sector before is joined. *)
MutCoalesceBackOnly(s, i) == JoinBefore(MarkFree(s, i), i)

(* Sector i is freed and joined with the free sectors before and after it.  *)
Coalesce(s, i) == JoinAfter(JoinBefore(MarkFree(s, i), i), Joined(s, i))

(* Mutant: the first sector is dropped too. *)
MutShrinkToNothing(s) ==
    SubSeq(s, 1, Max({0} \cup {k \in DOMAIN s : s[k].allocated \/ s[k].units = 0}))

(* Free sectors at the end are dropped, up to the first sector.             *)
arena_shrink_free_tail(s) ==
    SubSeq(s, 1, Max({1} \cup {k \in DOMAIN s : s[k].allocated \/ s[k].units = 0}))

(* The locked section of kfree() with the return of an empty arena's blocks *)
(* that follows it; live' is what the application uses afterwards.          *)
FreeSection(ptr) ==
    \/ \E a \in ArenaSlots : \E i \in DOMAIN g_arenas[a].sectors :
          /\ <<a, i>> \in PlacesOf(ptr)
          /\ g_arenas[a].sectors[i].allocated
          /\ LET sectors == arena_shrink_free_tail(Coalesce(g_arenas[a].sectors, i))
             IN IF IsSentinel(sectors)
                THEN /\ g_arenas' = [g_arenas EXCEPT ![a] = UnusedArena]
                     /\ allocs' = Without(g_arenas[a].base)
                ELSE /\ g_arenas' = [g_arenas EXCEPT ![a].sectors = sectors]
                     /\ UNCHANGED allocs
    \/ /\ \A p \in PlacesOf(ptr) : ~g_arenas[p[1]].sectors[p[2]].allocated
       /\ UNCHANGED <<g_arenas, allocs>>

(* The application does not free what a krealloc is working on. *)
InRealloc(l) == \E t \in Threads : call[t] # Idle /\ "old" \in DOMAIN call[t] /\ call[t].old = l.ptr

kfree(t, l) ==
    /\ In(t, "idle")
    /\ l \in live /\ ~InRealloc(l)
    /\ FreeSection(l.ptr)
    /\ live' = live \ {l}
    /\ UNCHANGED <<call, fault>>

(* krealloc() of an allocation: it stays in place if its sector is large    *)
(* enough, and moves otherwise.                                             *)
krealloc(t, l, size) ==
    /\ In(t, "idle")
    /\ l \in live /\ ~InRealloc(l)
    /\ \E p \in PlacesOf(l.ptr) :
          /\ g_arenas[p[1]].sectors[p[2]].allocated
          /\ IF UnitsOf(p) * Align >= align_up(size)
             THEN /\ live' = (live \ {l}) \cup {[l EXCEPT !.size = size]}
                  /\ UNCHANGED call
             ELSE /\ Goto(t, [at |-> "grow", size |-> size, old |-> l.ptr])
                  /\ UNCHANGED live
    /\ UNCHANGED <<g_arenas, allocs, fault>>

(* kmalloc() within krealloc(). *)
ReallocGrow(t) ==
    /\ In(t, "grow")
    /\ MallocSection(t, call[t].size, call[t].old)

(* Mutant: the old allocation is not freed. *)
MutReallocCopyKeepsOld(t) ==
    /\ In(t, "copy")
    /\ Goto(t, Idle)
    /\ UNCHANGED <<g_arenas, allocs, live, fault>>

(* memcpy() and kfree() of the old allocation. *)
ReallocCopy(t) ==
    /\ In(t, "copy")
    /\ FreeSection(call[t].old)
    /\ live' = {l \in live : l.ptr # call[t].old}
    /\ Goto(t, Idle)
    /\ UNCHANGED fault

(* kcalloc() of count elements. *)
kcalloc(t, count, size) ==
    /\ (SizeMod - 1) \div count >= size
    /\ kmalloc(t, count * size)

-----------------------------------------------------------------------------
Next ==
    \E t \in Threads :
        \/ \E size \in Sizes : kmalloc(t, size)
        \/ \E count \in Counts, size \in Sizes : kcalloc(t, count, size)
        \/ MallocBlocks(t)
        \/ MallocUnreserve(t)
        \/ MallocArena(t)
        \/ MallocGiveBack(t)
        \/ \E l \in live : kfree(t, l)
        \/ \E l \in live, size \in Sizes : krealloc(t, l, size)
        \/ ReallocGrow(t)
        \/ ReallocCopy(t)

Spec == Init /\ [][Next]_vars

-----------------------------------------------------------------------------
(* The sizes kmalloc() is called with, by the application and by kcalloc(). *)
Asked ==
    Sizes \cup {p[1] * p[2] : p \in {q \in Counts \X Sizes : (SizeMod - 1) \div q[1] >= q[2]}}

Addresses == 0 .. SizeMod - 1
SectorsOf == [allocated : BOOLEAN, units : 0 .. SizeMod \div Align]

TypeOK ==
    /\ \A a \in ArenaSlots :
          /\ g_arenas[a] \in [in_use : BOOLEAN, base : Addresses, blocks : 0 .. HeapBlocks,
                              sectors : Seq(SectorsOf)]
          /\ IF g_arenas[a].base = NULL
             THEN g_arenas[a] \in {UnusedArena, ReservedArena}
             ELSE g_arenas[a].in_use /\ g_arenas[a].sectors # <<>>
    /\ allocs \subseteq [start : 1 .. HeapBlocks, count : 1 .. HeapBlocks, owner : Threads]
    /\ live \subseteq [ptr : Addresses \ {NULL}, size : 1 .. SizeMod - 1]
    /\ \A t \in Threads : call[t].at \in {"idle", "blocks", "unreserve", "arena", "giveback",
                                          "grow", "copy"}
    /\ fault \in BOOLEAN

Arenas == {a \in ArenaSlots : g_arenas[a].base # NULL}
RangeOf(l) == l.ptr .. l.ptr + l.size - 1

(* What kmalloc() handed out is the caller's alone: allocations in use do   *)
(* not overlap, have all the bytes asked for in the data of one arena, and  *)
(* stay clear of its headers.                                               *)
LiveSeparate ==
    /\ \A l, k \in live : l # k => RangeOf(l) \cap RangeOf(k) = {}
    /\ \A l \in live : \E a \in Arenas :
          RangeOf(l) \subseteq g_arenas[a].base .. HeadersBottom(g_arenas[a]) - 1

(* The allocated sectors are the allocations in use, so that no sequence of *)
(* reuse, joining, shrinking and failed calls loses one or keeps one.       *)
SectorsAnswer ==
    \A a \in Arenas :
        {arena_data_ptr_for_sector(g_arenas[a], i) :
            i \in {j \in DOMAIN g_arenas[a].sectors : g_arenas[a].sectors[j].allocated}}
        = {l.ptr : l \in {k \in live : arena_contains_ptr(g_arenas[a], k.ptr)}}

(* Free memory is in one piece where it can be: no two free sectors are     *)
(* neighbours, and a free sector is the last only if it is the only one.    *)
Coalesced ==
    \A a \in Arenas :
        LET s == g_arenas[a].sectors
        IN /\ \A i \in 1 .. Len(s) - 1 : s[i].allocated \/ s[i + 1].allocated
           /\ Len(s) > 1 => s[Len(s)].allocated

(* Blocks and arenas agree: every arena stands on a run of its own, every   *)
(* run is an arena's or in the hands of a call, and so is every slot that   *)
(* is only reserved.                                                        *)
BlocksAccounted ==
    LET ArenaRuns == {<<g_arenas[a].base, g_arenas[a].blocks>> : a \in Arenas}
        CallBases == {call[t].base : t \in {u \in Threads : call[u].at \in {"arena", "giveback"}}}
        CallSlots == {call[t].slot :
                         t \in {u \in Threads : call[u].at \in {"blocks", "arena", "unreserve"}}}
    IN /\ Cardinality(ArenaRuns) = Cardinality(Arenas)
       /\ \A p \in ArenaRuns : \E r \in allocs : p = <<r.start * BlockBytes, r.count>>
       /\ \A r \in allocs : \/ <<r.start * BlockBytes, r.count>> \in ArenaRuns
                            \/ r.start * BlockBytes \in CallBases
       /\ \A a \in ArenaSlots : g_arenas[a] = ReservedArena => a \in CallSlots

(* The heap implements the calls of module Heap: each step of theirs gives  *)
(* out or takes back at most one allocation, in place, while the others     *)
(* stay as they are; a krealloc keeps the old one until it has the new.     *)
OldOf(c) == IF c.at \in {"blocks", "arena", "grow", "copy"} THEN c.old ELSE NULL

MoveOf(c) == [old |-> OldOf(c), found |-> c.at = "copy"]
Moves == [t \in Threads |-> MoveOf(call[t])]

Calls == INSTANCE Heap WITH
             Memory <- BlockBytes .. BlockBytes * (HeapBlocks + 1) - 1, Sizes <- Asked,
             moves <- Moves

ImplementsHeap == Calls!Spec

(* "If only one empty sector remains, the arena is empty" (malloc.c 173) and *)
(* is returned (534): an arena in which nothing is allocated does not stay. *)
EmptyReturned ==
    \A a \in Arenas : \E i \in DOMAIN g_arenas[a].sectors : g_arenas[a].sectors[i].allocated

(* "Otherwise we need space for both the data and a new header" (malloc.c    *)
(* 249): what is appended ends below the headers of its arena.              *)
DataBelowHeaders ==
    \A a \in Arenas :
        g_arenas[a].base + arena_total_data_bytes(g_arenas[a]) <= HeadersBottom(g_arenas[a])
=============================================================================
