--------------------------- MODULE KMemoryProofs ---------------------------
(* The allocator keeps block_metadata well formed and every block with a    *)
(* live owner, for every heap size and every set of threads.                *)
EXTENDS KMemory, FiniteSetTheorems, WellFoundedInduction, TLAPS

-----------------------------------------------------------------------------
(* The metadata and the blocks behind it. *)

LEMMA MetadataNat ==
    ASSUME NEW len \in Nat
    PROVE  MetadataBlocks(len) \in Nat
<1>1. len * InfoSize \in Nat
    BY MemoryAssumption
<1>2. len * InfoSize + (BlockSize - 1) \in Nat
    BY <1>1, MemoryAssumption
<1>3. ASSUME NEW n \in Nat, NEW m \in Nat \ {0}
      PROVE  n \div m \in Nat
    OBVIOUS
<1>4. QED
    BY <1>2, <1>3, MemoryAssumption DEF MetadataBlocks

(* What the later lemmas use of the layout. *)
LEMMA Layout ==
    ASSUME TypeOK
    PROVE  /\ kmemory_metadata_block_count \in Nat /\ block_metadata_len \in Nat
           /\ Usable \subseteq Blocks /\ Usable \subseteq Nat
           /\ \A b \in Usable : owner[b] \in Nat /\ size[b] \in Nat /\ b \in Nat
           /\ block_metadata_len # 0 => block_metadata_len = NBlocks
           /\ block_metadata_len = 0 => Usable = {}
<1>1. kmemory_metadata_block_count \in Nat /\ block_metadata_len \in Nat
    BY MetadataNat, MemoryAssumption DEF TypeOK, kmemory_metadata_block_count
<1>2. Usable \subseteq Blocks /\ Usable \subseteq Nat
    BY <1>1, MemoryAssumption DEF TypeOK, Usable, Blocks
<1>3. \A b \in Blocks : owner[b] \in Nat /\ size[b] \in Nat
    <2>1. 0 .. 7 \cup Threads \cup {MaxTid} \subseteq Nat
        BY MemoryAssumption
    <2>2. \A b \in Blocks : /\ owner[b] \in 0 .. 7 \cup Threads \cup {MaxTid}
                            /\ size[b] \in 0 .. NBlocks
        BY DEF TypeOK
    <2>3. \A n \in 0 .. NBlocks : n \in Nat
        OBVIOUS
    <2>4. QED
        BY <2>1, <2>2, <2>3
<1>4. QED
    BY <1>1, <1>2, <1>3 DEF TypeOK, Usable

(* A head is used, and the runs of different heads share no block. *)
LEMMA HeadUsed ==
    ASSUME TypeOK, WellFormed, NEW h \in Heads
    PROVE  /\ h \in Usable /\ h \in Nat /\ size[h] \in Nat \ {0} /\ ~IsFree(h)
           /\ h \in RunOf(h)
           /\ \A b \in RunOf(h) : /\ b \in Usable /\ ~IsFree(b) /\ owner[b] = owner[h]
                                  /\ b # h => size[b] = 0
<1>1. h \in Usable /\ h \in Nat /\ size[h] \in Nat \ {0}
    BY Layout DEF Heads
<1>2. h \in RunOf(h)
    BY <1>1 DEF RunOf
<1>3. ~IsFree(h)
    BY <1>1 DEF WellFormed
<1>4. QED
    BY <1>1, <1>2, <1>3 DEF WellFormed, IsFree

LEMMA RunsDisjoint ==
    ASSUME TypeOK, WellFormed, NEW g \in Heads, NEW h \in Heads,
           NEW b \in RunOf(g), b \in RunOf(h)
    PROVE  g = h
<1>1. /\ g \in Nat /\ h \in Nat /\ size[g] \in Nat \ {0} /\ size[h] \in Nat \ {0}
      /\ b \in Usable /\ b \in Nat
    BY HeadUsed, Layout
<1>2. ASSUME g < h PROVE FALSE
    <2>1. h \in RunOf(g)
        BY <1>1, <1>2 DEF RunOf
    <2>2. QED
        BY <1>1, <1>2, <2>1, HeadUsed
<1>3. ASSUME h < g PROVE FALSE
    <2>1. g \in RunOf(h)
        BY <1>1, <1>3 DEF RunOf
    <2>2. QED
        BY <1>1, <1>3, <2>1, HeadUsed
<1>4. QED
    BY <1>1, <1>2, <1>3
-----------------------------------------------------------------------------
(* The invariant, action by action. *)

MemoryInv == TypeOK /\ WellFormed /\ OwnersAlive

LEMMA InitInv == Init => MemoryInv
<1> SUFFICES ASSUME Init PROVE MemoryInv
    OBVIOUS
<1>1. TypeOK
    BY MemoryAssumption DEF Init, TypeOK, TID_UNUSED_MEMORY
<1>2. Usable = {}
    BY <1>1, Layout DEF Init
<1>3. QED
    BY <1>1, <1>2 DEF MemoryInv, WellFormed, OwnersAlive, Heads

LEMMA SetUpInv == MemoryInv /\ kernel_memory_init_internal => MemoryInv'
<1> SUFFICES ASSUME MemoryInv, kernel_memory_init_internal PROVE MemoryInv'
    OBVIOUS
<1> DEFINE count == MetadataBlocks(NBlocks)
<1>1. /\ block_metadata_len' = NBlocks /\ kmemory_metadata_block_count' = count
      /\ owner' = [b \in Blocks |-> IF b < count THEN MaxTid ELSE TID_UNUSED_MEMORY]
      /\ size' = [b \in Blocks |-> 0]
      /\ thread' = thread
    BY DEF kernel_memory_init_internal, kmemory_metadata_block_count
<1>2. count \in Nat
    BY MetadataNat, MemoryAssumption
<1>3. TypeOK'
    BY <1>1, MemoryAssumption DEF MemoryInv, TypeOK, TID_UNUSED_MEMORY
<1>4. \A b \in Usable' : b \in Blocks /\ owner'[b] = TID_UNUSED_MEMORY /\ size'[b] = 0
    BY <1>1, <1>2 DEF Usable, Blocks
<1>5. QED
    BY <1>3, <1>4
    DEF MemoryInv, WellFormed, OwnersAlive, Heads, IsFree, kmemory_is_free_owner

(* A free run of the heap: its blocks are usable, free and so without a     *)
(* size.                                                                    *)
LEMMA RunIsFree ==
    ASSUME TypeOK, NEW count \in Nat, NEW r \in FittingRuns(count)
    PROVE  /\ r.start \in Usable /\ r.start \in Nat /\ r.length \in Nat \ {0}
           /\ r.length >= count
           /\ \A b \in r.start .. r.start + count - 1 : b \in Usable /\ IsFree(b)
<1>1. r.start \in Usable /\ r.start \in Nat /\ r.length \in Nat \ {0} /\ r.length >= count
    BY Layout, MemoryAssumption DEF FittingRuns
<1>2. \A b \in r.start .. r.start + r.length - 1 : b \in Usable /\ IsFree(b)
    <2>1. FreeRun(r.start, r.length)
        BY DEF FittingRuns
    <2>2. QED
        BY <1>1, <2>1 DEF FreeRun
<1>3. \A b \in r.start .. r.start + count - 1 : b \in r.start .. r.start + r.length - 1
    BY <1>1
<1>4. QED
    BY <1>1, <1>2, <1>3

(* What Commit does to the heap of allocations. *)
LEMMA CommitEffect ==
    ASSUME TypeOK, WellFormed, NEW start \in Nat, NEW count \in Nat \ {0}, NEW tid \in Nat \ {0},
           \A b \in start .. start + count - 1 : b \in Usable /\ IsFree(b),
           Commit(start, count, tid), block_metadata_len' = block_metadata_len
    PROVE  /\ Heads' = Heads \cup {start} /\ start \notin Heads
           /\ owner'[start] = tid /\ size'[start] = count
           /\ \A b \in start .. start + count - 1 : owner'[b] = tid /\ (b # start => size'[b] = 0)
           /\ \A h \in Heads : h # start /\ owner'[h] = owner[h] /\ size'[h] = size[h]
           /\ \A b \in Usable \ (start .. start + count - 1) :
                  owner'[b] = owner[b] /\ size'[b] = size[b]
           /\ Usable' = Usable
<1> DEFINE taken == start .. start + count - 1
<1>1. start \in taken /\ taken \subseteq Usable /\ Usable \subseteq Blocks
    BY Layout
<1>2. Usable' = Usable
    BY DEF Usable, kmemory_metadata_block_count
<1>3. \A b \in Blocks : /\ owner'[b] = IF b \in taken THEN tid ELSE owner[b]
                        /\ size'[b] = IF b = start THEN count
                                      ELSE IF b \in taken THEN 0 ELSE size[b]
    BY DEF Commit
<1>4. \A b \in taken : size[b] = 0 /\ b \notin Heads
    BY <1>1 DEF WellFormed, Heads
<1>5. \A h \in Heads : h \in Usable /\ h \notin taken
    BY <1>4 DEF Heads
<1>6. Heads' = Heads \cup {start}
    <2>1. \A b \in Usable : size'[b] # 0 <=> size[b] # 0 \/ b = start
        BY <1>1, <1>3, <1>4
    <2>2. QED
        BY <1>1, <1>2, <2>1 DEF Heads
<1>7. QED
    BY <1>1, <1>2, <1>3, <1>4, <1>5, <1>6

LEMMA ConsumeInv ==
    ASSUME MemoryInv, NEW count \in Counts, NEW tid, NEW kernel,
           kmemory_consume_with_owner(count, tid, kernel),
           \/ kmemory_is_reserved_kernel_owner(tid) /\ tid \in Nat
           \/ tid = TID_UNUSED_MEMORY
           \/ tid \in Threads /\ thread[tid] = "live"
    PROVE  MemoryInv'
<1>1. CASE UNCHANGED meta
    BY <1>1 DEF kmemory_consume_with_owner, MemoryInv, TypeOK, WellFormed, OwnersAlive, meta,
               Usable, Heads, RunOf, IsFree, kmemory_metadata_block_count
<1>2. CASE ~UNCHANGED meta
    <2>1. count # 0 /\ tid # 0 /\ UNCHANGED <<block_metadata_len, thread>>
        BY <1>2 DEF kmemory_consume_with_owner, TID_UNUSED_MEMORY
    <2>2. count \in Nat \ {0} /\ tid \in Nat \ {0} /\ TypeOK /\ WellFormed
          /\ UNCHANGED <<block_metadata_len, thread>>
        <3>1. Threads \subseteq Nat /\ Counts \subseteq Nat
            BY MemoryAssumption
        <3>2. QED
            BY <2>1, <3>1 DEF MemoryInv, TID_UNUSED_MEMORY
    <2>3. PICK r \in FittingRuns(count) : Commit(r.start, count, tid)
        BY <1>2 DEF kmemory_consume_with_owner
    <2> DEFINE start == r.start
               taken == start .. start + count - 1
    <2>4. /\ start \in Usable /\ start \in Nat /\ start \in Blocks
          /\ \A b \in taken : b \in Usable /\ IsFree(b)
          /\ start \in taken
        BY <2>2, RunIsFree, Layout
    <2>5. /\ Heads' = Heads \cup {start} /\ start \notin Heads
          /\ owner'[start] = tid /\ size'[start] = count
          /\ \A b \in taken : owner'[b] = tid /\ (b # start => size'[b] = 0)
          /\ \A h \in Heads : h # start /\ owner'[h] = owner[h] /\ size'[h] = size[h]
          /\ \A b \in Usable \ taken : owner'[b] = owner[b] /\ size'[b] = size[b]
          /\ Usable' = Usable
        BY <2>2, <2>3, <2>4, CommitEffect
    <2>6. TypeOK'
        <3>1. tid \in 0 .. 7 \cup Threads \cup {MaxTid}
            BY DEF kmemory_is_reserved_kernel_owner, TID_FIRST_VALID, TID_UNUSED_MEMORY
        <3>2. count \in 0 .. NBlocks
            <4>1. start + count - 1 \in taken
                BY <2>2, <2>4
            <4>2. start + count - 1 \in Blocks
                BY <2>2, <2>4, <4>1, Layout
            <4>3. QED
                BY <2>2, <2>4, <4>2, MemoryAssumption DEF Blocks
        <3>3. owner' \in [Blocks -> 0 .. 7 \cup Threads \cup {MaxTid}]
            BY <2>2, <2>3, <3>1 DEF TypeOK, Commit
        <3>4. size' \in [Blocks -> 0 .. NBlocks]
            BY <2>2, <2>3, <3>2, MemoryAssumption DEF TypeOK, Commit
        <3>5. \A b \in Blocks : b < kmemory_metadata_block_count
                                    => owner'[b] = owner[b] /\ size'[b] = size[b]
            <4>1. \A b \in taken : ~(b < kmemory_metadata_block_count)
                BY <2>2, <2>4, Layout DEF Usable
            <4>2. QED
                BY <2>3, <2>4, <4>1 DEF Commit
        <3>6. kmemory_metadata_block_count' = kmemory_metadata_block_count
            BY <2>1 DEF kmemory_metadata_block_count
        <3>7. QED
            BY <2>1, <2>2, <3>3, <3>4, <3>5, <3>6 DEF TypeOK
    <2>7. WellFormed'
        <3>1. ASSUME NEW b \in Usable, IsFree(b)'
              PROVE  size'[b] = 0
            <4>1. b \notin taken
                BY <2>2, <2>5, <3>1 DEF IsFree, kmemory_is_free_owner, TID_UNUSED_MEMORY
            <4>2. QED
                BY <2>2, <2>5, <3>1, <4>1 DEF WellFormed, IsFree
        <3>2. ASSUME NEW h \in Heads', NEW b \in RunOf(h)'
              PROVE  b \in Usable /\ owner'[b] = owner'[h] /\ (b # h => size'[b] = 0)
            <4>1. CASE h = start
                <5>1. b \in taken
                    BY <2>5, <3>2, <4>1 DEF RunOf
                <5>2. QED
                    BY <2>4, <2>5, <4>1, <5>1
            <4>2. CASE h # start
                <5>1. h \in Heads /\ b \in RunOf(h)
                    BY <2>5, <3>2, <4>2 DEF RunOf
                <5>2. b \in Usable /\ ~IsFree(b) /\ owner[b] = owner[h] /\ (b # h => size[b] = 0)
                    BY <2>2, <5>1, HeadUsed
                <5>3. b \notin taken
                    BY <2>4, <5>2
                <5>4. QED
                    BY <2>5, <5>1, <5>2, <5>3
            <4>3. QED
                BY <4>1, <4>2
        <3>3. ASSUME NEW b \in Usable, ~IsFree(b)'
              PROVE  \E h \in Heads' : b \in RunOf(h)'
            <4>1. CASE b \in taken
                BY <2>5, <4>1 DEF RunOf
            <4>2. CASE b \notin taken
                <5>1. PICK h \in Heads : b \in RunOf(h)
                    BY <2>2, <2>5, <3>3, <4>2 DEF WellFormed, IsFree
                <5>2. h \in Heads' /\ b \in RunOf(h)'
                    BY <2>5, <5>1 DEF RunOf
                <5>3. QED
                    BY <5>2
            <4>3. QED
                BY <4>1, <4>2
        <3>4. QED
            BY <2>5, <3>1, <3>2, <3>3 DEF WellFormed
    <2>8. OwnersAlive'
        <3>1. kmemory_is_reserved_kernel_owner(tid) \/ (tid \in Threads /\ thread[tid] = "live")
            BY <2>1 DEF TID_UNUSED_MEMORY
        <3>2. ASSUME NEW b \in Usable
              PROVE  \/ IsFree(b)'
                     \/ kmemory_is_reserved_kernel_owner(owner'[b])
                     \/ owner'[b] \in Threads /\ thread[owner'[b]] = "live"
            BY <2>5, <3>1 DEF MemoryInv, OwnersAlive, IsFree
        <3>3. QED
            BY <2>1, <2>5, <3>2 DEF OwnersAlive
    <2>9. QED
        BY <2>6, <2>7, <2>8 DEF MemoryInv
<1>3. QED
    BY <1>1, <1>2
(* What Free does to the heap when it takes whole runs. *)
LEMMA FreeEffect ==
    ASSUME TypeOK, WellFormed, NEW freed \in SUBSET Usable, Free(freed),
           block_metadata_len' = block_metadata_len,
           \A h \in Heads : RunOf(h) \subseteq freed \/ RunOf(h) \cap freed = {}
    PROVE  /\ Usable' = Usable
           /\ \A b \in freed : owner'[b] = TID_UNUSED_MEMORY /\ size'[b] = 0 /\ b \in Blocks
           /\ \A b \in Blocks \ freed : owner'[b] = owner[b] /\ size'[b] = size[b]
           /\ Heads' = {h \in Heads : h \notin freed}
           /\ \A h \in Heads' : h \in Heads /\ RunOf(h)' = RunOf(h) /\ RunOf(h) \cap freed = {}
           /\ WellFormed'
<1>1. Usable' = Usable /\ Usable \subseteq Blocks
    BY Layout DEF Usable, kmemory_metadata_block_count
<1>2. \A b \in freed : owner'[b] = TID_UNUSED_MEMORY /\ size'[b] = 0 /\ b \in Blocks
    BY <1>1 DEF Free
<1>3. \A b \in Blocks \ freed : owner'[b] = owner[b] /\ size'[b] = size[b]
    BY DEF Free
<1>4. Heads' = {h \in Heads : h \notin freed}
    BY <1>1, <1>2, <1>3 DEF Heads
<1>5. \A h \in Heads' : h \in Heads /\ RunOf(h)' = RunOf(h) /\ RunOf(h) \cap freed = {}
    <2>1. SUFFICES ASSUME NEW h \in Heads'
                   PROVE  h \in Heads /\ RunOf(h)' = RunOf(h) /\ RunOf(h) \cap freed = {}
        OBVIOUS
    <2>2. h \in Heads /\ h \notin freed /\ h \in Blocks
        BY <1>1, <1>4, <2>1 DEF Heads
    <2>3. h \in RunOf(h)
        BY <2>2, HeadUsed
    <2>4. QED
        BY <1>3, <2>2, <2>3 DEF RunOf
<1>6. WellFormed'
    <2>1. ASSUME NEW b \in Usable, IsFree(b)'
          PROVE  size'[b] = 0
        BY <1>1, <1>2, <1>3, <2>1 DEF WellFormed, IsFree
    <2>2. ASSUME NEW h \in Heads', NEW b \in RunOf(h)'
          PROVE  b \in Usable /\ owner'[b] = owner'[h] /\ (b # h => size'[b] = 0)
        <3>1. h \in Heads /\ b \in RunOf(h) /\ b \notin freed /\ h \in RunOf(h) /\ h \notin freed
            BY <1>5, <2>2, HeadUsed
        <3>2. h \in Usable /\ b \in Usable /\ owner[b] = owner[h] /\ (b # h => size[b] = 0)
            BY <3>1, HeadUsed
        <3>3. QED
            BY <1>1, <1>3, <3>1, <3>2
    <2>3. ASSUME NEW b \in Usable, ~IsFree(b)'
          PROVE  \E h \in Heads' : b \in RunOf(h)'
        <3>1. b \notin freed
            BY <1>2, <2>3 DEF IsFree, kmemory_is_free_owner
        <3>2. PICK h \in Heads : b \in RunOf(h)
            BY <1>1, <1>3, <2>3, <3>1 DEF WellFormed, IsFree
        <3>3. h \in Heads'
            BY <1>4, <3>1, <3>2, HeadUsed
        <3>4. QED
            BY <1>5, <3>2, <3>3
    <2>4. QED
        BY <1>1, <2>1, <2>2, <2>3 DEF WellFormed
<1>7. QED
    BY <1>1, <1>2, <1>3, <1>4, <1>5, <1>6

(* A block that is freed cannot break the types. *)
LEMMA FreeTyped ==
    ASSUME TypeOK, NEW freed \in SUBSET Usable, Free(freed),
           block_metadata_len' = block_metadata_len,
           thread' \in [Threads -> {"none", "live", "ended"}]
    PROVE  TypeOK'
<1>1. owner' \in [Blocks -> 0 .. 7 \cup Threads \cup {MaxTid}] /\ size' \in [Blocks -> 0 .. NBlocks]
    BY MemoryAssumption DEF TypeOK, Free, TID_UNUSED_MEMORY
<1>2. kmemory_metadata_block_count' = kmemory_metadata_block_count
    BY DEF kmemory_metadata_block_count
<1>3. \A b \in Blocks : b < kmemory_metadata_block_count
                            => owner'[b] = owner[b] /\ size'[b] = size[b]
    <2>1. \A b \in Usable : ~(b < kmemory_metadata_block_count)
        BY Layout DEF Usable
    <2>2. QED
        BY <2>1 DEF Free
<1>4. QED
    BY <1>1, <1>2, <1>3 DEF TypeOK

(* The search from a block of an allocation finds its head, and from any    *)
(* other block none.                                                        *)
LEMMA HeadFound ==
    ASSUME TypeOK, WellFormed, NEW block \in Usable, NEW head \in Usable, IsHead(head, block)
    PROVE  /\ size[head] # 0 => head \in Heads /\ block \in RunOf(head)
           /\ \A h \in Heads : block \in RunOf(h) => h = head
<1>1. /\ block \in Nat /\ head \in Nat /\ head <= block
      /\ head = kmemory_metadata_block_count \/ IsFree(head) \/ size[head] # 0
      /\ \A b \in head + 1 .. block : ~IsFree(b) /\ size[b] = 0
    BY Layout DEF IsHead
<1>2. ASSUME NEW h \in Heads, block \in RunOf(h)
      PROVE  h = head
    <2>1. h \in Nat /\ size[h] \in Nat \ {0} /\ h <= block /\ h \in Usable
        BY <1>2, HeadUsed, Layout DEF RunOf
    <2>2. ~(h > head)
        BY <1>1, <2>1
    <2>3. ASSUME h < head PROVE FALSE
        <3>1. head \in RunOf(h)
            BY <1>1, <1>2, <2>1, <2>3 DEF RunOf
        <3>2. ~IsFree(head) /\ size[head] = 0
            BY <1>1, <2>1, <2>3, <3>1, HeadUsed
        <3>3. head = kmemory_metadata_block_count
            BY <1>1, <3>2
        <3>4. QED
            BY <1>1, <2>1, <2>3, <3>3, Layout DEF Usable
    <2>4. QED
        BY <1>1, <2>1, <2>2, <2>3
<1>3. ASSUME size[head] # 0 PROVE head \in Heads /\ block \in RunOf(head)
    <2>1. head \in Heads
        BY <1>3 DEF Heads
    <2>2. CASE block = head
        BY <2>1, <2>2, HeadUsed
    <2>3. CASE block # head
        <3>1. ~IsFree(block)
            BY <1>1, <2>3
        <3>2. PICK h \in Heads : block \in RunOf(h)
            BY <3>1 DEF WellFormed
        <3>3. QED
            BY <1>2, <2>1, <3>2
    <2>4. QED
        BY <2>1, <2>2, <2>3
<1>4. QED
    BY <1>2, <1>3

(* The loop that frees a run frees exactly the run. *)
LEMMA RunFromWhole ==
    ASSUME TypeOK, WellFormed, NEW h \in Heads
    PROVE  RunFrom(h) = RunOf(h) /\ RunOf(h) \subseteq Usable /\ Cardinality(RunOf(h)) = size[h]
<1>1. h \in Nat /\ size[h] \in Nat \ {0} /\ RunOf(h) \subseteq Usable
      /\ \A b \in RunOf(h) : owner[b] = owner[h]
    BY HeadUsed
<1>2. \A b \in Usable : b \in Nat /\ b < block_metadata_len
    BY Layout DEF Usable
<1>3. ASSUME NEW b \in RunOf(h) PROVE b \in RunFrom(h)
    <2>1. \A c \in h .. b : c \in RunOf(h)
        BY <1>1, <1>3 DEF RunOf
    <2>2. QED
        BY <1>1, <1>2, <1>3, <2>1 DEF RunFrom, RunOf
<1>4. RunFrom(h) \subseteq RunOf(h)
    BY DEF RunFrom, RunOf
<1>5. Cardinality(RunOf(h)) = size[h]
    <2> DEFINE e == h + size[h] - 1
    <2>1. e \in Int /\ ~(h > e) /\ e - h + 1 = size[h]
        BY <1>1
    <2> HIDE DEF e
    <2>2. Cardinality(h .. e) = e - h + 1
        BY <1>1, <2>1, FS_Interval
    <2>3. QED
        BY <2>1, <2>2 DEF RunOf, e
<1>6. QED
    BY <1>1, <1>3, <1>4, <1>5
LEMMA ReturnInv ==
    ASSUME MemoryInv, NEW block \in Int, NEW kernel \in BOOLEAN,
           kmemory_return_with_policy(block, kernel)
    PROVE  MemoryInv'
<1>1. TypeOK /\ WellFormed /\ OwnersAlive /\ thread' = thread
    BY DEF MemoryInv, kmemory_return_with_policy
<1>2. CASE UNCHANGED meta
    BY <1>1, <1>2 DEF MemoryInv, TypeOK, WellFormed, OwnersAlive, meta,
               Usable, Heads, RunOf, IsFree, kmemory_metadata_block_count
<1>3. CASE ~UNCHANGED meta
    <2>1. PICK head \in Usable : /\ block \in Usable /\ IsHead(head, block)
                                 /\ Returnable(head, kernel)
                                 /\ Free(RunFrom(head)) /\ UNCHANGED block_metadata_len
        BY <1>3 DEF kmemory_return_with_policy
    <2>2. head \in Heads
        BY <1>1, <2>1, HeadFound DEF Returnable
    <2>3. Free(RunOf(head)) /\ RunOf(head) \subseteq Usable
        BY <1>1, <2>1, <2>2, RunFromWhole
    <2>4. \A h \in Heads : RunOf(h) \subseteq RunOf(head) \/ RunOf(h) \cap RunOf(head) = {}
        BY <1>1, <2>2, RunsDisjoint
    <2>5. /\ WellFormed' /\ Usable' = Usable /\ Usable \subseteq Blocks
          /\ \A b \in RunOf(head) : owner'[b] = TID_UNUSED_MEMORY
          /\ \A b \in Blocks \ RunOf(head) : owner'[b] = owner[b]
        BY <1>1, <2>1, <2>3, <2>4, FreeEffect, Layout
    <2>6. TypeOK'
        <3>1. thread' \in [Threads -> {"none", "live", "ended"}]
            BY <1>1 DEF TypeOK
        <3>2. QED
            BY <1>1, <2>1, <2>3, <3>1, FreeTyped
    <2>7. OwnersAlive'
        <3>1. ASSUME NEW b \in Usable
              PROVE  \/ IsFree(b)'
                     \/ kmemory_is_reserved_kernel_owner(owner'[b])
                     \/ owner'[b] \in Threads /\ thread[owner'[b]] = "live"
            <4>1. CASE b \in RunOf(head)
                BY <2>5, <4>1 DEF IsFree, kmemory_is_free_owner
            <4>2. CASE b \notin RunOf(head)
                <5>1. owner'[b] = owner[b]
                    BY <2>5, <3>1, <4>2
                <5>2. QED
                    BY <1>1, <3>1, <5>1 DEF OwnersAlive, IsFree, kmemory_is_free_owner
            <4>3. QED
                BY <4>1, <4>2
        <3>2. QED
            BY <1>1, <2>5, <3>1 DEF OwnersAlive
    <2>8. QED
        BY <2>5, <2>6, <2>7 DEF MemoryInv
<1>4. QED
    BY <1>2, <1>3

LEMMA ExitInv ==
    ASSUME MemoryInv, NEW t \in Threads, kernel_memory_thread_exit(t)
    PROVE  MemoryInv'
<1> DEFINE freed == {b \in Usable : owner[b] = t}
<1>1. /\ TypeOK /\ WellFormed /\ OwnersAlive
      /\ Free(freed) /\ block_metadata_len' = block_metadata_len
      /\ thread' = [thread EXCEPT ![t] = "ended"]
    BY DEF MemoryInv, kernel_memory_thread_exit
<1>2. \A h \in Heads : RunOf(h) \subseteq freed \/ RunOf(h) \cap freed = {}
    BY <1>1, HeadUsed
<1>3. /\ WellFormed' /\ Usable' = Usable /\ Usable \subseteq Blocks
      /\ \A b \in freed : owner'[b] = TID_UNUSED_MEMORY
      /\ \A b \in Blocks \ freed : owner'[b] = owner[b]
    BY <1>1, <1>2, FreeEffect, Layout
<1>4. TypeOK'
    <2>1. thread' \in [Threads -> {"none", "live", "ended"}]
        BY <1>1 DEF TypeOK
    <2>2. QED
        BY <1>1, <2>1, FreeTyped
<1>5. OwnersAlive'
    <2>1. ASSUME NEW b \in Usable
          PROVE  \/ IsFree(b)'
                 \/ kmemory_is_reserved_kernel_owner(owner'[b])
                 \/ owner'[b] \in Threads /\ thread'[owner'[b]] = "live"
        <3>1. CASE b \in freed
            BY <1>3, <3>1 DEF IsFree, kmemory_is_free_owner
        <3>2. CASE b \notin freed
            <4>1. owner'[b] = owner[b] /\ owner[b] # t
                <5>1. owner[b] # t
                    BY <2>1, <3>2
                <5>2. b \in Blocks \ freed
                    BY <1>3, <2>1, <3>2
                <5>3. QED
                    BY <1>3, <5>1, <5>2
            <4>2. \A u \in Threads : u # t => thread'[u] = thread[u]
                BY <1>1 DEF TypeOK
            <4>3. QED
                BY <1>1, <2>1, <4>1, <4>2 DEF OwnersAlive, IsFree
        <3>3. QED
            BY <3>1, <3>2
    <2>2. QED
        BY <1>3, <2>1 DEF OwnersAlive
<1>6. QED
    BY <1>3, <1>4, <1>5 DEF MemoryInv

LEMMA StartsInv ==
    ASSUME MemoryInv, NEW t \in Threads, ThreadStarts(t)
    PROVE  MemoryInv'
<1>1. /\ thread[t] = "none" /\ thread' = [thread EXCEPT ![t] = "live"]
      /\ UNCHANGED <<block_metadata_len, owner, size>>
    BY DEF ThreadStarts, meta
<1>2. TypeOK' /\ WellFormed'
    BY <1>1 DEF MemoryInv, TypeOK, WellFormed, Usable, Heads, RunOf, IsFree,
                kmemory_metadata_block_count
<1>3. Usable' = Usable
    BY <1>1 DEF Usable, kmemory_metadata_block_count
<1>4. OwnersAlive'
    <2>1. \A u \in Threads : thread[u] = "live" => thread'[u] = "live"
        BY <1>1 DEF MemoryInv, TypeOK
    <2>2. QED
        BY <1>1, <1>3, <2>1 DEF MemoryInv, OwnersAlive, IsFree
<1>5. QED
    BY <1>2, <1>4 DEF MemoryInv

LEMMA StepInv == MemoryInv /\ [Next]_vars => MemoryInv'
<1> SUFFICES ASSUME MemoryInv, [Next]_vars PROVE MemoryInv'
    OBVIOUS
<1>1. CASE UNCHANGED vars
    BY <1>1 DEF vars, MemoryInv, TypeOK, WellFormed, OwnersAlive, Usable, Heads, RunOf, IsFree,
                kmemory_metadata_block_count
<1>2. CASE kernel_memory_init_internal
    BY <1>2, SetUpInv
<1>3. CASE \E t \in Threads : ThreadStarts(t) \/ kernel_memory_thread_exit(t)
    BY <1>3, StartsInv, ExitInv
<1>4. CASE \E count \in Counts, tid \in Threads \cup {TID_UNUSED_MEMORY} :
               mem_block_consume(tid, count)
    BY <1>4, ConsumeInv DEF mem_block_consume
<1>5. CASE \E count \in Counts, memory_type \in MemoryTypes :
               mem_block_consume_kernel(memory_type, count)
    <2>1. PICK count \in Counts, memory_type \in MemoryTypes :
               mem_block_consume_kernel(memory_type, count)
        BY <1>5
    <2>2. CASE kmemory_is_reserved_kernel_owner(memory_type)
        BY <2>1, <2>2, ConsumeInv, MemoryAssumption DEF mem_block_consume_kernel
    <2>3. CASE ~kmemory_is_reserved_kernel_owner(memory_type)
        BY <2>1, <2>3
        DEF mem_block_consume_kernel, meta, MemoryInv, TypeOK, WellFormed, OwnersAlive, Usable,
            Heads, RunOf, IsFree, kmemory_metadata_block_count
    <2>4. QED
        BY <2>2, <2>3
<1>6. CASE \E block \in -1 .. NBlocks : mem_block_return(block) \/ mem_block_return_kernel(block)
    <2>1. PICK block \in -1 .. NBlocks, kernel \in BOOLEAN :
               kmemory_return_with_policy(block, kernel)
        BY <1>6 DEF mem_block_return, mem_block_return_kernel
    <2>2. block \in Int
        BY MemoryAssumption
    <2>3. QED
        BY <2>1, <2>2, ReturnInv
<1>7. QED
    BY <1>1, <1>2, <1>3, <1>4, <1>5, <1>6 DEF Next

THEOREM MemoryInvariant == Spec => []MemoryInv
<1>1. QED
    BY InitInv, StepInv, PTL DEF Spec

(* block_metadata keeps its types, and the blocks that hold it their owner. *)
THEOREM MemoryTyped == Spec => []TypeOK
<1>1. MemoryInv => TypeOK
    BY DEF MemoryInv
<1>2. QED
    BY <1>1, MemoryInvariant, PTL

(* block_metadata describes disjoint runs that cover the used blocks, after *)
(* every sequence of calls by any threads.                                  *)
THEOREM MetadataWellFormed == Spec => []WellFormed
<1>1. MemoryInv => WellFormed
    BY DEF MemoryInv
<1>2. QED
    BY <1>1, MemoryInvariant, PTL

(* No block belongs to a thread that has ended. *)
THEOREM NoOrphans == Spec => []OwnersAlive
<1>1. MemoryInv => OwnersAlive
    BY DEF MemoryInv
<1>2. QED
    BY <1>1, MemoryInvariant, PTL

-----------------------------------------------------------------------------
(***************************************************************************)
(* The allocator implements the pool of module BlockPool: every step of     *)
(* KMemory is a step of the pool, or leaves the pool as it is.              *)
(***************************************************************************)

-----------------------------------------------------------------------------
(* The free run that best-fit finds. *)

LEMMA LeastElement ==
    ASSUME NEW S \in SUBSET Nat, S # {}
    PROVE  \E m \in S : \A x \in S : m <= x
<1> DEFINE Less == {p \in Nat \X Nat : p[1] < p[2]}
<1>1. IsWellFoundedOn(Less, Nat)
    BY NatLessThanWellFounded DEF OpToRel
<1>2. PICK m \in S : \A x \in S : ~(<<x, m>> \in Less)
    <2> HIDE DEF Less
    <2>1. QED
        BY <1>1, WFMin
<1>3. ASSUME NEW x \in S, x < m PROVE FALSE
    <2>1. <<x, m>> \in Nat \X Nat /\ <<x, m>>[1] = x /\ <<x, m>>[2] = m
        OBVIOUS
    <2>2. <<x, m>> \in Less
        BY <1>3, <2>1
    <2>3. QED
        BY <1>2, <2>2
<1>4. QED
    BY <1>2, <1>3

(* Free blocks side by side lie in a free run that is bounded on both       *)
(* sides, so a request is refused for want of a run only if no blocks side  *)
(* by side would do.                                                        *)
LEMMA RunExtends ==
    ASSUME TypeOK, block_metadata_len # 0, NEW s \in Nat, NEW count \in Nat \ {0},
           \A b \in s .. s + count - 1 : b \in Usable /\ IsFree(b)
    PROVE  FittingRuns(count) # {}
<1> DEFINE Mc == kmemory_metadata_block_count
           len == block_metadata_len
           Lefts == {m \in Mc .. s : \A b \in m .. s : IsFree(b)}
           Rights == {e \in s + count .. len : e = len \/ ~IsFree(e)}
<1>1. /\ Mc \in Nat /\ len \in Nat /\ Mc <= s /\ s + count <= len
      /\ \A b : b \in Usable <=> b \in Int /\ Mc <= b /\ b < len
      /\ len = NBlocks
    <2>1. Mc \in Nat /\ len \in Nat /\ len = NBlocks
        BY Layout
    <2>2. \A b : b \in Usable <=> b \in Int /\ Mc <= b /\ b < len
        BY <2>1 DEF Usable
    <2>3. s \in Usable /\ s + count - 1 \in Usable
        OBVIOUS
    <2>4. QED
        BY <2>1, <2>2, <2>3
<1>2. PICK m \in Lefts : \A x \in Lefts : m <= x
    <2>1. s \in Lefts
        BY <1>1
    <2>2. Lefts \in SUBSET Nat /\ Lefts # {}
        BY <1>1, <2>1
    <2>3. QED
        BY <2>2, LeastElement
<1>3. PICK e \in Rights : \A x \in Rights : e <= x
    <2>1. len \in Rights
        BY <1>1
    <2>2. Rights \in SUBSET Nat /\ Rights # {}
        BY <1>1, <2>1
    <2>3. QED
        BY <2>2, LeastElement
<1>4. /\ m \in Nat /\ e \in Nat /\ Mc <= m /\ m <= s /\ s + count <= e /\ e <= len
      /\ \A b \in m .. s : IsFree(b)
      /\ e = len \/ ~IsFree(e)
    BY <1>1, <1>2, <1>3
<1>5. \A b \in m .. e - 1 : b \in Usable /\ IsFree(b)
    <2>1. SUFFICES ASSUME NEW b \in m .. e - 1 PROVE b \in Usable /\ IsFree(b)
        OBVIOUS
    <2>2. b \in Usable /\ b \in Int
        BY <1>1, <1>4
    <2>3. CASE b <= s
        BY <1>4, <2>2, <2>3
    <2>4. CASE s < b /\ b < s + count
        BY <1>4, <2>2, <2>4
    <2>5. CASE s + count <= b
        BY <1>1, <1>3, <1>4, <2>2, <2>5
    <2>6. QED
        BY <2>2, <2>3, <2>4, <2>5
<1>6. m - 1 \in Usable => ~IsFree(m - 1)
    <2>1. SUFFICES ASSUME m - 1 \in Usable, IsFree(m - 1) PROVE FALSE
        OBVIOUS
    <2>2. m - 1 \in Mc .. s
        BY <1>1, <1>4, <2>1
    <2>3. \A b \in m - 1 .. s : b = m - 1 \/ b \in m .. s
        BY <1>4
    <2>4. m - 1 \in Lefts
        BY <1>4, <2>1, <2>2, <2>3
    <2>5. QED
        BY <1>2, <1>4, <2>4
<1>7. e \in Usable => ~IsFree(e)
    BY <1>1, <1>4
<1> DEFINE r == [start |-> m, length |-> e - m]
<1>8. m + (e - m) = e /\ e - m >= count /\ e - m \in 1 .. NBlocks /\ m \in Usable
    BY <1>1, <1>4
<1>9. FreeRun(m, e - m)
    BY <1>5, <1>6, <1>7, <1>8 DEF FreeRun
<1>10. r \in FittingRuns(count)
    BY <1>8, <1>9 DEF FittingRuns
<1>11. QED
    BY <1>10
-----------------------------------------------------------------------------
(* The allocations block_metadata describes. *)

Alloc(h) == [start |-> h, count |-> size[h], owner |-> owner[h]]

LEMMA AllocationsAre ==
    /\ Allocations = {Alloc(h) : h \in Heads}
    /\ \A h : Pool!BlocksOf(Alloc(h)) = RunOf(h)
BY DEF Allocations, Alloc, Pool!BlocksOf, RunOf

LEMMA PoolUsable ==
    ASSUME TypeOK, block_metadata_len # 0
    PROVE  MetadataBlocks(NBlocks) .. NBlocks - 1 = Usable
BY Layout DEF Usable, kmemory_metadata_block_count

(* A block is free in the pool exactly when it is free in block_metadata.   *)
LEMMA PoolFree ==
    ASSUME TypeOK, WellFormed, block_metadata_len # 0, NEW b
    PROVE  Pool!IsFree(b) <=> b \in Usable /\ IsFree(b)
<1>1. Pool!IsFree(b) <=> b \in Usable /\ \A h \in Heads : b \notin RunOf(h)
    BY PoolUsable, AllocationsAre DEF Pool!IsFree
<1>2. ASSUME b \in Usable, IsFree(b), NEW h \in Heads, b \in RunOf(h) PROVE FALSE
    BY <1>2, HeadUsed
<1>3. b \in Usable /\ ~IsFree(b) => \E h \in Heads : b \in RunOf(h)
    BY DEF WellFormed
<1>4. QED
    BY <1>1, <1>2, <1>3

(* A granted request adds its run. *)
LEMMA ConsumeGranted ==
    ASSUME MemoryInv, NEW count \in Counts, NEW tid \in Nat, NEW kernel \in BOOLEAN,
           kmemory_consume_with_owner(count, tid, kernel), ~UNCHANGED meta,
           tid # 0 => tid \in Pool!OwnersOf(kernel)
    PROVE  Pool!Acquire(tid, count, kernel)
<1>1. /\ count # 0 /\ tid # 0 /\ UNCHANGED block_metadata_len
      /\ kmemory_metadata_block_count < block_metadata_len
      /\ Consumed(tid, count, kernel, count)
      /\ TypeOK /\ WellFormed /\ count \in Nat \ {0} /\ tid \in Nat \ {0}
    BY MemoryAssumption DEF kmemory_consume_with_owner, MemoryInv, TID_UNUSED_MEMORY
<1>2. PICK r \in FittingRuns(count) : Commit(r.start, count, tid)
    BY DEF kmemory_consume_with_owner
<1> DEFINE start == r.start
           taken == start .. start + count - 1
<1>3. /\ start \in Usable /\ start \in Nat
      /\ \A b \in taken : b \in Usable /\ IsFree(b)
    BY <1>1, RunIsFree
<1>4. /\ Heads' = Heads \cup {start}
      /\ owner'[start] = tid /\ size'[start] = count
      /\ \A h \in Heads : h # start /\ owner'[h] = owner[h] /\ size'[h] = size[h]
    BY <1>1, <1>2, <1>3, CommitEffect
<1>5. block_metadata_len # 0
    BY <1>1, Layout
<1>6. Allocations' = Allocations \cup {[start |-> start, count |-> count, owner |-> tid]}
    BY <1>4 DEF Allocations
<1>7. Pool!Fits(start, count)
    BY <1>1, <1>3, <1>5, PoolFree DEF Pool!Fits
<1>8. start \in MetadataBlocks(NBlocks) .. NBlocks - 1
    BY <1>1, <1>3, <1>5, PoolUsable
<1>9. last' = [op |-> "consume", kernel |-> kernel, owner |-> tid,
               count |-> count, ret |-> count]
    BY <1>1 DEF Consumed
<1>10. (block_metadata_len # 0)' = (block_metadata_len # 0) /\ count > 0
    BY <1>1
<1>11. tid \in Pool!OwnersOf(kernel)
    BY <1>1
<1>12. QED
    BY <1>5, <1>6, <1>7, <1>8, <1>9, <1>10, <1>11 DEF Pool!Acquire

(* A call that changes nothing of block_metadata leaves the pool as it is.  *)
LEMMA SamePool ==
    ASSUME UNCHANGED meta
    PROVE  Allocations' = Allocations /\ (block_metadata_len # 0)' = (block_metadata_len # 0)
BY DEF meta, Allocations, Heads, Usable, kmemory_metadata_block_count

(* A request is refused only when the pool would refuse it. *)
LEMMA ConsumeRefused ==
    ASSUME MemoryInv, NEW count \in Counts, NEW tid \in Nat, NEW kernel \in BOOLEAN,
           kmemory_consume_with_owner(count, tid, kernel), UNCHANGED meta
    PROVE  Pool!Acquire(tid, count, kernel)
<1>1. TypeOK /\ WellFormed /\ count \in Nat
    BY MemoryAssumption DEF MemoryInv
<1>2. \/ /\ Consumed(tid, count, kernel, -1)
         /\ \/ count = 0
            \/ tid = 0
            \/ kmemory_metadata_block_count >= block_metadata_len
            \/ count > block_metadata_len - kmemory_metadata_block_count
            \/ FittingRuns(count) = {}
      \/ \E r \in FittingRuns(count) : count # 0 /\ tid # 0 /\ Commit(r.start, count, tid)
    BY DEF kmemory_consume_with_owner, TID_UNUSED_MEMORY
<1>3. ASSUME NEW r \in FittingRuns(count), count # 0, tid # 0, Commit(r.start, count, tid)
      PROVE  FALSE
    <2>1. r.start \in Blocks /\ IsFree(r.start) /\ r.start \in r.start .. r.start + count - 1
        BY <1>1, <1>3, RunIsFree, Layout
    <2>2. owner'[r.start] = tid /\ owner'[r.start] = owner[r.start]
        BY <1>3, <2>1 DEF Commit, meta
    <2>3. QED
        BY <1>3, <2>1, <2>2 DEF IsFree, kmemory_is_free_owner, TID_UNUSED_MEMORY
<1>4. ASSUME block_metadata_len # 0, count > 0, tid # 0,
             NEW s \in MetadataBlocks(NBlocks) .. NBlocks - 1, Pool!Fits(s, count)
      PROVE  FALSE
    <2>1. s \in Usable /\ s \in Nat
        BY <1>1, <1>4, PoolUsable, Layout
    <2>2. \A b \in s .. s + count - 1 : b \in Usable /\ IsFree(b)
        BY <1>1, <1>4, PoolFree DEF Pool!Fits
    <2>3. FittingRuns(count) # {}
        <3>1. count \in Nat \ {0}
            BY <1>1, <1>4
        <3>2. QED
            BY <1>1, <1>4, <2>1, <2>2, <3>1, RunExtends
    <2>4. /\ kmemory_metadata_block_count < block_metadata_len
          /\ count <= block_metadata_len - kmemory_metadata_block_count
        <3>1. s + count - 1 \in Usable
            BY <1>1, <1>4, <2>1, <2>2
        <3>2. /\ kmemory_metadata_block_count \in Nat /\ block_metadata_len \in Nat
              /\ kmemory_metadata_block_count <= s /\ s + count - 1 <= block_metadata_len - 1
            BY <1>1, <2>1, <3>1, Layout DEF Usable
        <3>3. QED
            BY <1>1, <1>4, <2>1, <3>2
    <2>5. count # 0 /\ kmemory_metadata_block_count \in Nat /\ block_metadata_len \in Nat
        BY <1>1, <1>4, Layout
    <2>6. QED
        BY <1>1, <1>2, <1>3, <1>4, <2>3, <2>4, <2>5
<1>5. tid = 0 => tid \notin Pool!OwnersOf(kernel)
    BY MemoryAssumption DEF Pool!OwnersOf
<1>6. \/ ~(block_metadata_len # 0 /\ count > 0 /\ tid \in Pool!OwnersOf(kernel))
      \/ \A s \in MetadataBlocks(NBlocks) .. NBlocks - 1 : ~Pool!Fits(s, count)
    BY <1>4, <1>5
<1>7. last' = [op |-> "consume", kernel |-> kernel, owner |-> tid,
               count |-> count, ret |-> -1]
    BY <1>2, <1>3 DEF Consumed
<1>8. QED
    BY <1>6, <1>7, SamePool DEF Pool!Acquire

(* Both consume calls, with every argument. *)
LEMMA ConsumeImplements ==
    ASSUME MemoryInv, NEW count \in Counts, NEW tid \in Nat, NEW kernel \in BOOLEAN,
           kmemory_consume_with_owner(count, tid, kernel),
           tid # 0 => tid \in Pool!OwnersOf(kernel)
    PROVE  Pool!Acquire(tid, count, kernel)
BY ConsumeGranted, ConsumeRefused

LEMMA ThreadConsumeImplements ==
    ASSUME MemoryInv, NEW count \in Counts, NEW tid \in Threads \cup {TID_UNUSED_MEMORY},
           mem_block_consume(tid, count)
    PROVE  Pool!Acquire(tid, count, FALSE)
<1>1. tid \in Nat /\ (tid # 0 => tid \in Pool!OwnersOf(FALSE))
    BY MemoryAssumption DEF TID_UNUSED_MEMORY, Pool!OwnersOf
<1>2. kmemory_consume_with_owner(count, tid, FALSE)
    BY DEF mem_block_consume
<1>3. QED
    BY <1>1, <1>2, ConsumeImplements

LEMMA KernelConsumeImplements ==
    ASSUME MemoryInv, NEW count \in Counts, NEW memory_type \in MemoryTypes,
           mem_block_consume_kernel(memory_type, count)
    PROVE  Pool!Acquire(memory_type, count, TRUE)
<1>1. memory_type \in Nat
    BY MemoryAssumption
<1>2. kmemory_is_reserved_kernel_owner(memory_type) <=> memory_type \in Pool!OwnersOf(TRUE)
    BY <1>1 DEF kmemory_is_reserved_kernel_owner, TID_UNUSED_MEMORY, TID_FIRST_VALID,
                Pool!OwnersOf
<1>3. CASE kmemory_is_reserved_kernel_owner(memory_type)
    BY <1>1, <1>2, <1>3, ConsumeImplements DEF mem_block_consume_kernel
<1>4. CASE ~kmemory_is_reserved_kernel_owner(memory_type)
    <2>1. UNCHANGED meta
          /\ last' = [op |-> "consume", kernel |-> TRUE, owner |-> memory_type,
                      count |-> count, ret |-> -1]
        BY <1>4 DEF mem_block_consume_kernel, Consumed
    <2>2. QED
        BY <1>2, <1>4, <2>1, SamePool DEF Pool!Acquire
<1>5. QED
    BY <1>3, <1>4

-----------------------------------------------------------------------------
(* Runs given back. *)

(* The head a search finds has an owner of the kind the call serves exactly *)
(* when the pool says so.                                                   *)
LEMMA OwnerKind ==
    ASSUME MemoryInv, NEW h \in Heads, NEW kernel \in BOOLEAN
    PROVE  Returnable(h, kernel) <=> owner[h] \in Pool!OwnersOf(kernel)
<1>1. h \in Usable /\ owner[h] \in Nat /\ size[h] # 0 /\ ~IsFree(h)
    BY HeadUsed, Layout DEF MemoryInv, Heads
<1>2. CASE kernel = TRUE
    BY <1>1, <1>2 DEF Returnable, kmemory_is_reserved_kernel_owner, TID_UNUSED_MEMORY,
                      TID_FIRST_VALID, Pool!OwnersOf
<1>3. CASE kernel = FALSE
    <2>1. owner[h] \in Threads => owner[h] >= TID_FIRST_VALID
        <3>1. \A t \in Threads : t \in 8 .. MaxTid - 1
            BY MemoryAssumption
        <3>2. \A t \in 8 .. MaxTid - 1 : t >= 8
            BY MemoryAssumption
        <3>3. QED
            BY <3>1, <3>2 DEF TID_FIRST_VALID
    <2>2. owner[h] >= TID_FIRST_VALID => owner[h] \in Threads
        BY <1>1 DEF MemoryInv, OwnersAlive, kmemory_is_reserved_kernel_owner, TID_FIRST_VALID
    <2>3. QED
        BY <1>1, <1>3, <2>1, <2>2 DEF Returnable, Pool!OwnersOf
<1>4. QED
    BY <1>2, <1>3

(* Freeing whole runs takes their allocations out of the pool, and no other.*)
LEMMA FreedAllocations ==
    ASSUME TypeOK, WellFormed, NEW freed \in SUBSET Usable, Free(freed),
           block_metadata_len' = block_metadata_len,
           \A h \in Heads : RunOf(h) \subseteq freed \/ RunOf(h) \cap freed = {}
    PROVE  Allocations' = {Alloc(h) : h \in {g \in Heads : g \notin freed}}
<1>1. Heads' = {h \in Heads : h \notin freed}
    BY FreeEffect
<1>2. \A h \in Heads' : owner'[h] = owner[h] /\ size'[h] = size[h]
    BY <1>1, FreeEffect, Layout DEF Heads
<1>3. QED
    BY <1>1, <1>2 DEF Allocations, Alloc

LEMMA ReturnGranted ==
    ASSUME MemoryInv, NEW block \in Usable, NEW kernel \in BOOLEAN, NEW head \in Usable,
           IsHead(head, block), Returnable(head, kernel), Free(RunFrom(head)),
           last' = [op |-> "return", kernel |-> kernel, block |-> block,
                    ret |-> Cardinality(RunFrom(head))],
           UNCHANGED block_metadata_len
    PROVE  Pool!Release(block, kernel)
<1>1. TypeOK /\ WellFormed
    BY DEF MemoryInv
<1>2. head \in Heads /\ block \in RunOf(head)
    BY <1>1, HeadFound DEF Returnable
<1>3. /\ Free(RunOf(head)) /\ RunOf(head) \subseteq Usable
      /\ Cardinality(RunFrom(head)) = size[head]
    BY <1>1, <1>2, RunFromWhole
<1>4. \A h \in Heads : RunOf(h) \subseteq RunOf(head) \/ RunOf(h) \cap RunOf(head) = {}
    BY <1>1, <1>2, RunsDisjoint
<1>5. Allocations' = {Alloc(h) : h \in {g \in Heads : g \notin RunOf(head)}}
    BY <1>1, <1>3, <1>4, FreedAllocations
<1>6. \A g \in Heads : g \in RunOf(head) <=> g = head
    BY <1>1, <1>2, HeadUsed, RunsDisjoint
<1>7. Allocations' = Allocations \ {Alloc(head)}
    BY <1>5, <1>6, AllocationsAre DEF Alloc
<1>8. /\ Alloc(head) \in Allocations
      /\ block \in Pool!BlocksOf(Alloc(head))
      /\ Alloc(head).owner \in Pool!OwnersOf(kernel)
      /\ Alloc(head).count = size[head]
    BY <1>2, AllocationsAre, OwnerKind DEF Alloc
<1>9. last' = [op |-> "return", kernel |-> kernel, block |-> block,
               ret |-> Alloc(head).count]
    BY <1>3, <1>8
<1>10. QED
    BY <1>7, <1>8, <1>9 DEF Pool!Release

LEMMA ReturnRefused ==
    ASSUME MemoryInv, NEW block, NEW kernel \in BOOLEAN, UNCHANGED meta,
           last' = [op |-> "return", kernel |-> kernel, block |-> block, ret |-> -1],
           \/ block \notin Usable
           \/ /\ block \in Usable
              /\ \E head \in Usable : IsHead(head, block) /\ ~Returnable(head, kernel)
    PROVE  Pool!Release(block, kernel)
<1>1. TypeOK /\ WellFormed
    BY DEF MemoryInv
<1>2. ASSUME NEW h \in Heads, block \in RunOf(h)
      PROVE  owner[h] \notin Pool!OwnersOf(kernel)
    <2>1. block \in Usable
        BY <1>1, <1>2, HeadUsed
    <2>2. PICK head \in Usable : IsHead(head, block) /\ ~Returnable(head, kernel)
        BY <2>1
    <2>3. h = head
        BY <1>1, <1>2, <2>1, <2>2, HeadFound
    <2>4. QED
        BY <2>2, <2>3, OwnerKind
<1>3. {a \in Allocations : block \in Pool!BlocksOf(a) /\ a.owner \in Pool!OwnersOf(kernel)} = {}
    <2>1. \A h \in Heads : Alloc(h).owner = owner[h]
        BY DEF Alloc
    <2>2. QED
        BY <1>2, <2>1, AllocationsAre
<1>4. QED
    BY <1>3, SamePool DEF Pool!Release

LEMMA ReturnImplements ==
    ASSUME MemoryInv, NEW block, NEW kernel \in BOOLEAN,
           kmemory_return_with_policy(block, kernel)
    PROVE  Pool!Release(block, kernel)
<1>1. CASE block \notin Usable
    <2>1. UNCHANGED meta /\ last' = [op |-> "return", kernel |-> kernel,
                                     block |-> block, ret |-> -1]
        BY <1>1 DEF kmemory_return_with_policy
    <2>2. QED
        BY <1>1, <2>1, ReturnRefused
<1>2. CASE block \in Usable
    <2>1. PICK head \in Usable :
             /\ IsHead(head, block)
             /\ IF Returnable(head, kernel)
                THEN /\ Free(RunFrom(head))
                     /\ last' = [op |-> "return", kernel |-> kernel, block |-> block,
                                 ret |-> Cardinality(RunFrom(head))]
                     /\ UNCHANGED block_metadata_len
                ELSE /\ last' = [op |-> "return", kernel |-> kernel, block |-> block,
                                 ret |-> -1]
                     /\ UNCHANGED meta
        BY <1>2 DEF kmemory_return_with_policy
    <2>2. CASE Returnable(head, kernel)
        BY <1>2, <2>1, <2>2, ReturnGranted
    <2>3. CASE ~Returnable(head, kernel)
        BY <1>2, <2>1, <2>3, ReturnRefused
    <2>4. QED
        BY <2>2, <2>3
<1>3. QED
    BY <1>1, <1>2

LEMMA ExitImplements ==
    ASSUME MemoryInv, NEW t \in Threads, kernel_memory_thread_exit(t)
    PROVE  Pool!EndThread(t)
<1> DEFINE freed == {b \in Usable : owner[b] = t}
<1>1. /\ TypeOK /\ WellFormed /\ Free(freed) /\ block_metadata_len' = block_metadata_len
      /\ last' = [op |-> "exit", owner |-> t]
    BY DEF MemoryInv, kernel_memory_thread_exit
<1>2. \A h \in Heads : RunOf(h) \subseteq freed \/ RunOf(h) \cap freed = {}
    BY <1>1, HeadUsed
<1>3. \A h \in Heads : h \in freed <=> owner[h] = t
    BY DEF Heads
<1>4. Allocations' = {Alloc(h) : h \in {g \in Heads : g \notin freed}}
    BY <1>1, <1>2, FreedAllocations
<1>5. \A h \in Heads : Alloc(h).owner = owner[h]
    BY DEF Alloc
<1>6. Allocations' = {a \in Allocations : a.owner # t}
    BY <1>3, <1>4, <1>5, AllocationsAre
<1>7. QED
    BY <1>1, <1>6 DEF Pool!EndThread

-----------------------------------------------------------------------------
LEMMA SetUpImplements ==
    ASSUME MemoryInv, kernel_memory_init_internal
    PROVE  Pool!Open
<1>1. MemoryInv'
    BY SetUpInv
<1>2. /\ block_metadata_len = 0 /\ block_metadata_len' = NBlocks /\ NBlocks # 0
      /\ size' = [b \in Blocks |-> 0] /\ last' = [op |-> "init"]
    BY MemoryAssumption DEF kernel_memory_init_internal
<1>3. Usable' \subseteq Blocks
    BY <1>1, <1>2, MetadataNat, MemoryAssumption
    DEF Usable, Blocks, kmemory_metadata_block_count
<1>4. Heads' = {}
    BY <1>2, <1>3 DEF Heads
<1>5. QED
    BY <1>2, <1>4 DEF Pool!Open, Allocations

LEMMA InitImplements == Init => Pool!Init
<1>1. SUFFICES ASSUME Init PROVE Pool!Init
    OBVIOUS
<1>2. Heads = {}
    BY <1>1, InitInv, Layout DEF MemoryInv, Init, Heads
<1>3. QED
    BY <1>1, <1>2 DEF Init, Pool!Init, Allocations

LEMMA StepImplements == MemoryInv /\ [Next]_vars => [Pool!Next]_(Pool!poolvars)
<1> SUFFICES ASSUME MemoryInv, [Next]_vars PROVE [Pool!Next]_(Pool!poolvars)
    OBVIOUS
<1>1. CASE UNCHANGED vars
    BY <1>1, SamePool DEF vars, meta, Pool!poolvars
<1>2. CASE kernel_memory_init_internal
    BY <1>2, SetUpImplements DEF Pool!Next
<1>3. CASE \E t \in Threads : ThreadStarts(t)
    BY <1>3, SamePool DEF ThreadStarts, Pool!poolvars
<1>4. CASE \E t \in Threads : kernel_memory_thread_exit(t)
    BY <1>4, ExitImplements DEF Pool!Next
<1>5. CASE \E count \in Counts, tid \in Threads \cup {TID_UNUSED_MEMORY} :
               mem_block_consume(tid, count)
    BY <1>5, ThreadConsumeImplements DEF Pool!Next
<1>6. CASE \E count \in Counts, memory_type \in MemoryTypes :
               mem_block_consume_kernel(memory_type, count)
    BY <1>6, KernelConsumeImplements DEF Pool!Next
<1>7. CASE \E block \in -1 .. NBlocks : mem_block_return(block) \/ mem_block_return_kernel(block)
    <2>1. PICK block \in -1 .. NBlocks, kernel \in BOOLEAN :
               kmemory_return_with_policy(block, kernel)
        BY <1>7 DEF mem_block_return, mem_block_return_kernel
    <2>2. Pool!Release(block, kernel)
        BY <2>1, ReturnImplements
    <2>3. QED
        BY <2>1, <2>2 DEF Pool!Next
<1>8. QED
    BY <1>1, <1>2, <1>3, <1>4, <1>5, <1>6, <1>7 DEF Next

(* Whatever sequence of calls is made, the allocator answers as the pool    *)
(* of module BlockPool: it grants a request exactly when enough free blocks *)
(* lie side by side, a return takes back the whole run and only for a call  *)
(* of the owner's kind, and the end of a thread takes back all it had.      *)
THEOREM PoolImplemented == Spec => ImplementsPool
<1>1. Spec => Pool!Spec
    BY InitImplements, StepImplements, MemoryInvariant, PTL DEF Spec, Pool!Spec
<1>2. QED
    BY <1>1 DEF ImplementsPool
=============================================================================
