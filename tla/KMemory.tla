------------------------------ MODULE KMemory ------------------------------
(***************************************************************************)
(* The block allocator of the kernel: kernel/src/kmemory.c.  The heap is a  *)
(* row of blocks, and block_metadata holds the owner of each and, on the    *)
(* first block of an allocation, its size; the first blocks of the heap     *)
(* hold block_metadata itself.  Every call runs in one critical section,    *)
(* and is one step here (module KThreads shows that sections exclude each   *)
(* other).                                                                  *)
(***************************************************************************)
EXTENDS Integers, FiniteSets

CONSTANTS NBlocks,     \* HEAP_SIZE / KMEMORY_BLOCK_SIZE
          BlockSize,   \* KMEMORY_BLOCK_SIZE
          InfoSize,    \* sizeof(blockinfo_t)
          MaxTid,      \* UINT64_MAX, the owner of the metadata blocks
          Threads,     \* the tids of the threads
          MemoryTypes, \* the memory_type arguments of mem_block_consume_kernel
          Counts       \* the count arguments of both consume calls

ASSUME MemoryAssumption ==
    /\ NBlocks \in Nat \ {0}
    /\ BlockSize \in Nat \ {0}
    /\ InfoSize \in Nat
    /\ MaxTid \in Nat
    /\ Threads \subseteq 8 .. MaxTid - 1
    /\ MemoryTypes \subseteq Nat
    /\ Counts \subseteq Nat

VARIABLES
    block_metadata_len,
    owner, size,     \* block_metadata, by block
    thread,          \* whether each thread is yet to start, live or has ended
    last             \* the last call and what it returned

meta == <<block_metadata_len, owner, size>>
vars == <<block_metadata_len, owner, size, thread, last>>

TID_UNUSED_MEMORY == 0
TID_FIRST_VALID == 8

Blocks == 0 .. NBlocks - 1

(* The blocks that the metadata of len blocks fills. *)
MetadataBlocks(len) == (len * InfoSize + (BlockSize - 1)) \div BlockSize

kmemory_metadata_block_count == MetadataBlocks(block_metadata_len)

kmemory_is_free_owner(tid) == tid = TID_UNUSED_MEMORY

kmemory_is_reserved_kernel_owner(tid) == tid > TID_UNUSED_MEMORY /\ tid < TID_FIRST_VALID

Usable == kmemory_metadata_block_count .. block_metadata_len - 1

IsFree(b) == kmemory_is_free_owner(owner[b])

-----------------------------------------------------------------------------
Init ==
    /\ block_metadata_len = 0
    /\ owner = [b \in Blocks |-> TID_UNUSED_MEMORY]
    /\ size = [b \in Blocks |-> 0]
    /\ thread = [t \in Threads |-> "none"]
    /\ last = [op |-> "none"]

(* Mutant: the last metadata block is not reserved. *)
MutInitReservesShort ==
    /\ block_metadata_len = 0
    /\ block_metadata_len' = NBlocks
    /\ owner' = [b \in Blocks |->
                    IF b + 1 < kmemory_metadata_block_count' THEN MaxTid ELSE TID_UNUSED_MEMORY]
    /\ size' = [b \in Blocks |-> 0]
    /\ last' = [op |-> "init"]
    /\ UNCHANGED thread

(* The boot code sets the heap up once. *)
kernel_memory_init_internal ==
    /\ block_metadata_len = 0
    /\ block_metadata_len' = NBlocks
    /\ owner' = [b \in Blocks |->
                    IF b < kmemory_metadata_block_count' THEN MaxTid ELSE TID_UNUSED_MEMORY]
    /\ size' = [b \in Blocks |-> 0]
    /\ last' = [op |-> "init"]
    /\ UNCHANGED thread

(* A thread is created: its tid may appear as an owner from now on. *)
ThreadStarts(t) ==
    /\ thread[t] = "none"
    /\ thread' = [thread EXCEPT ![t] = "live"]
    /\ UNCHANGED <<meta, last>>

-----------------------------------------------------------------------------
(* The run of length blocks from start is free and bounded by used blocks   *)
(* or the ends of the heap.                                                 *)
FreeRun(start, length) ==
    LET end == start + length
    IN /\ \A b \in start .. end - 1 : b \in Usable /\ IsFree(b)
       /\ start - 1 \in Usable => ~IsFree(start - 1)
       /\ end \in Usable => ~IsFree(end)

(* Mutant: a run one block short is taken to fit. *)
MutFittingRunsShort(count) ==
    {r \in [start : Usable, length : 1 .. NBlocks] :
        FreeRun(r.start, r.length) /\ r.length >= count - 1}

FittingRuns(count) ==
    {r \in [start : Usable, length : 1 .. NBlocks] :
        FreeRun(r.start, r.length) /\ r.length >= count}

(* The run the best-fit search settles on: the first of the shortest that   *)
(* fit.                                                                     *)
IsBest(r, count) ==
    /\ r \in FittingRuns(count)
    /\ \A q \in FittingRuns(count) :
           r.length < q.length \/ (r.length = q.length /\ r.start <= q.start)

Consumed(tid, count, kernel, n) ==
    last' = [op |-> "consume", kernel |-> kernel, owner |-> tid, count |-> count, ret |-> n]

Commit(start, count, tid) ==
    LET taken == start .. start + count - 1
    IN /\ owner' = [b \in Blocks |-> IF b \in taken THEN tid ELSE owner[b]]
       /\ size' = [b \in Blocks |-> IF b = start THEN count
                                    ELSE IF b \in taken THEN 0 ELSE size[b]]

(* kmemory_consume_with_owner(); kernel tells which call it serves. *)
kmemory_consume_with_owner(count, tid, kernel) ==
    /\ \/ /\ \/ count = 0
             \/ tid = TID_UNUSED_MEMORY
             \/ kmemory_metadata_block_count >= block_metadata_len
             \/ count > block_metadata_len - kmemory_metadata_block_count
             \/ FittingRuns(count) = {}
          /\ Consumed(tid, count, kernel, -1)
          /\ UNCHANGED meta
       \/ /\ count # 0
          /\ tid # TID_UNUSED_MEMORY
          /\ kmemory_metadata_block_count < block_metadata_len
          /\ \E r \in FittingRuns(count) : IsBest(r, count) /\ Commit(r.start, count, tid)
          /\ Consumed(tid, count, kernel, count)
          /\ UNCHANGED block_metadata_len
    /\ UNCHANGED thread

(* mem_block_consume(): get_calling_tid() is 0 as long as no thread exists. *)
mem_block_consume(tid, count) ==
    /\ IF tid \in Threads THEN thread[tid] = "live"
       ELSE tid = TID_UNUSED_MEMORY /\ \A t \in Threads : thread[t] = "none"
    /\ kmemory_consume_with_owner(count, tid, FALSE)

mem_block_consume_kernel(memory_type, count) ==
    IF kmemory_is_reserved_kernel_owner(memory_type)
    THEN kmemory_consume_with_owner(count, memory_type, TRUE)
    ELSE Consumed(memory_type, count, TRUE, -1) /\ UNCHANGED <<meta, thread>>

-----------------------------------------------------------------------------
(* The backward search from a block stops at head: over used blocks without *)
(* a size, and not into the metadata.                                       *)
IsHead(head, block) ==
    /\ head \in kmemory_metadata_block_count .. block
    /\ head = kmemory_metadata_block_count \/ IsFree(head) \/ size[head] # 0
    /\ \A b \in head + 1 .. block : ~IsFree(b) /\ size[b] = 0

(* The blocks the loop frees from head on: it ends with the size, with the  *)
(* heap and at a block of another owner.                                    *)
RunFrom(head) ==
    {b \in head .. head + size[head] - 1 :
        b < block_metadata_len /\ \A c \in head .. b : owner[c] = owner[head]}

Free(blocks) ==
    /\ owner' = [b \in Blocks |-> IF b \in blocks THEN TID_UNUSED_MEMORY ELSE owner[b]]
    /\ size' = [b \in Blocks |-> IF b \in blocks THEN 0 ELSE size[b]]

(* Mutant: the owner of the run is not looked at. *)
MutReturnableAnyOwner(head, allow_kernel_owner) == size[head] # 0

Returnable(head, allow_kernel_owner) ==
    /\ size[head] # 0
    /\ IF allow_kernel_owner THEN kmemory_is_reserved_kernel_owner(owner[head])
                             ELSE owner[head] >= TID_FIRST_VALID

(* kmemory_return_with_policy(): block is the index of the block the        *)
(* pointer points to, -1 for NULL, an unaligned or a lower address, NBlocks *)
(* for a higher one.                                                        *)
kmemory_return_with_policy(block, allow_kernel_owner) ==
    LET Returns(n) == last' = [op |-> "return", kernel |-> allow_kernel_owner,
                               block |-> block, ret |-> n]
    IN /\ \/ block \notin Usable /\ Returns(-1) /\ UNCHANGED meta
          \/ /\ block \in Usable
             /\ \E head \in Usable :
                   /\ IsHead(head, block)
                   /\ IF Returnable(head, allow_kernel_owner)
                      THEN /\ Free(RunFrom(head))
                           /\ Returns(Cardinality(RunFrom(head)))
                           /\ UNCHANGED block_metadata_len
                      ELSE Returns(-1) /\ UNCHANGED meta
       /\ UNCHANGED thread

mem_block_return(block) == kmemory_return_with_policy(block, FALSE)

mem_block_return_kernel(block) == kmemory_return_with_policy(block, TRUE)

(* Mutant: only the first block of each run of the thread is freed. *)
MutThreadExitHeadsOnly(t) ==
    /\ thread[t] = "live"
    /\ Free({b \in Usable : owner[b] = t /\ size[b] # 0})
    /\ thread' = [thread EXCEPT ![t] = "ended"]
    /\ last' = [op |-> "exit", owner |-> t]
    /\ UNCHANGED block_metadata_len

(* kernel_memory_thread_exit(), once per thread: the scan frees every block *)
(* of the thread, those of a run with its head and any other on its own.    *)
kernel_memory_thread_exit(t) ==
    /\ thread[t] = "live"
    /\ Free({b \in Usable : owner[b] = t})
    /\ thread' = [thread EXCEPT ![t] = "ended"]
    /\ last' = [op |-> "exit", owner |-> t]
    /\ UNCHANGED block_metadata_len

-----------------------------------------------------------------------------
Next ==
    \/ kernel_memory_init_internal
    \/ \E t \in Threads : ThreadStarts(t) \/ kernel_memory_thread_exit(t)
    \/ \E count \in Counts :
          \/ \E tid \in Threads \cup {TID_UNUSED_MEMORY} : mem_block_consume(tid, count)
          \/ \E memory_type \in MemoryTypes : mem_block_consume_kernel(memory_type, count)
    \/ \E block \in -1 .. NBlocks : mem_block_return(block) \/ mem_block_return_kernel(block)

Spec == Init /\ [][Next]_vars

-----------------------------------------------------------------------------
(* The owners the heap can hold.  The metadata blocks stay with their owner *)
(* from the set-up on.                                                      *)
TypeOK ==
    /\ block_metadata_len \in {0, NBlocks}
    /\ owner \in [Blocks -> 0 .. 7 \cup Threads \cup {MaxTid}]
    /\ size \in [Blocks -> 0 .. NBlocks]
    /\ thread \in [Threads -> {"none", "live", "ended"}]
    /\ \A b \in Blocks : b < kmemory_metadata_block_count /\ block_metadata_len # 0
           => owner[b] = MaxTid /\ size[b] = 0

(* Block h is the first of an allocation, and b belongs to it. *)
Heads == {h \in Usable : size[h] # 0}
RunOf(h) == h .. h + size[h] - 1

(* block_metadata describes disjoint allocations that cover the used blocks *)
(* exactly: a free block has no size, the run of a head is inside the heap, *)
(* of one owner and without a second head, and every used block is in one.  *)
WellFormed ==
    /\ \A b \in Usable : IsFree(b) => size[b] = 0
    /\ \A h \in Heads : \A b \in RunOf(h) :
           b \in Usable /\ owner[b] = owner[h] /\ (b # h => size[b] = 0)
    /\ \A b \in Usable : ~IsFree(b) => \E h \in Heads : b \in RunOf(h)

(* A thread owns blocks only while it is live: what it had is free or has   *)
(* another owner once kernel_memory_thread_exit() ran, and the metadata     *)
(* blocks are never handed out.                                             *)
OwnersAlive ==
    \A b \in Usable : \/ IsFree(b)
                      \/ kmemory_is_reserved_kernel_owner(owner[b])
                      \/ owner[b] \in Threads /\ thread[owner[b]] = "live"

(* The allocator implements the pool of BlockPool: what it grants, refuses, *)
(* returns and takes back is what the pool allows.                          *)
Allocations == {[start |-> h, count |-> size[h], owner |-> owner[h]] : h \in Heads}

Pool == INSTANCE BlockPool WITH
            Usable <- MetadataBlocks(NBlocks) .. NBlocks - 1,
            ThreadOwners <- Threads, KernelOwners <- 1 .. 7,
            Callers <- Threads \cup MemoryTypes \cup {TID_UNUSED_MEMORY},
            Counts <- Counts, Pointers <- -1 .. NBlocks,
            open <- block_metadata_len # 0, allocs <- Allocations

ImplementsPool == Pool!Spec
=============================================================================
