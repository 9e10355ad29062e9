--------------------------- MODULE KMallocProofs ---------------------------
(***************************************************************************)
(* What the heap keeps through every sequence of calls by threads that      *)
(* preempt each other inside kmalloc and krealloc, for any number of        *)
(* threads, arenas and blocks and for blocks, headers and alignments of     *)
(* any size.                                                                *)
(***************************************************************************)
EXTENDS KMalloc, WellFoundedInduction, FiniteSetTheorems, TLAPS

(* Every allocation in use ends before the end of the address space, with   *)
(* room for rounding it up.  arena_can_append() adds a size to an address    *)
(* (malloc.c 245, 251) and align_up() rounds it (318) without asking.       *)
NoneWraps == \A l \in live : l.ptr + l.size + Align <= SizeMod

(* The sizes for which that is so wherever the allocation may lie.          *)
SizesClear == \A size \in Asked : BlockBytes * (HeapBlocks + 1) + size + Align <= SizeMod

-----------------------------------------------------------------------------
(* Types. *)

SectorRecords == [allocated : BOOLEAN, units : Nat]
Runs == [start : 1 .. HeapBlocks, count : 1 .. HeapBlocks, owner : Threads]

Shaped(arena) ==
    /\ arena = [in_use |-> arena.in_use, base |-> arena.base, blocks |-> arena.blocks,
                sectors |-> arena.sectors]
    /\ arena.in_use \in BOOLEAN /\ arena.base \in Nat /\ arena.blocks \in Nat

CallTyped(c) ==
    \/ c = Idle
    \/ /\ c.at = "blocks"
       /\ c = [at |-> "blocks", slot |-> c.slot, size |-> c.size, old |-> c.old]
       /\ c.slot \in ArenaSlots /\ c.size \in Asked
    \/ /\ c.at = "unreserve"
       /\ c = [at |-> "unreserve", slot |-> c.slot] /\ c.slot \in ArenaSlots
    \/ /\ c.at = "arena"
       /\ c = [at |-> "arena", slot |-> c.slot, size |-> c.size, old |-> c.old,
               base |-> c.base, blocks |-> c.blocks]
       /\ c.slot \in ArenaSlots /\ c.size \in Asked
       /\ c.base \in Nat \ {0} /\ c.blocks \in Nat \ {0}
    \/ /\ c.at = "giveback"
       /\ c = [at |-> "giveback", base |-> c.base] /\ c.base \in Nat \ {0}
    \/ /\ c.at = "grow"
       /\ c = [at |-> "grow", size |-> c.size, old |-> c.old] /\ c.size \in Asked
    \/ /\ c.at = "copy"
       /\ c = [at |-> "copy", old |-> c.old]

BlocksTyped ==
    /\ g_arenas = [a \in ArenaSlots |-> g_arenas[a]]
    /\ \A a \in ArenaSlots : Shaped(g_arenas[a])
    /\ call = [t \in Threads |-> call[t]]
    /\ \A t \in Threads : CallTyped(call[t])
    /\ allocs \subseteq Runs
    /\ fault \in BOOLEAN

(* What a call holds: a base it has not yet given to an arena or back, a    *)
(* slot it has reserved, the allocation a krealloc is to free.              *)
BaseOf(c) == IF c.at \in {"arena", "giveback"} THEN c.base ELSE NULL
SlotOf(c) == IF c.at \in {"blocks", "unreserve", "arena"} THEN c.slot ELSE NULL

(* The run r starts at base. *)
At(r, base) == r.start * BlockBytes = base

RunsApart ==
    /\ \A r \in allocs : r.start + r.count <= HeapBlocks + 1
    /\ \A r, q \in allocs : r = q \/ r.start + r.count <= q.start \/ q.start + q.count <= r.start

ArenasStand ==
    \A a \in Arenas :
        \E r \in allocs : At(r, g_arenas[a].base) /\ r.count = g_arenas[a].blocks

CallsStand ==
    \A t \in Threads :
        BaseOf(call[t]) # NULL =>
            \E r \in allocs : At(r, BaseOf(call[t]))
                               /\ (call[t].at = "arena" => r.count = call[t].blocks)

BasesApart ==
    /\ \A a, b \in Arenas : a # b => g_arenas[a].base # g_arenas[b].base
    /\ \A a \in Arenas : \A t \in Threads : g_arenas[a].base # BaseOf(call[t])
    /\ \A t, u \in Threads : t # u /\ BaseOf(call[t]) # NULL => BaseOf(call[t]) # BaseOf(call[u])

RunsHeld ==
    \A r \in allocs : \/ \E a \in Arenas : At(r, g_arenas[a].base)
                      \/ \E t \in Threads : At(r, BaseOf(call[t]))

SlotsHeld ==
    /\ \A a \in ArenaSlots \ Arenas : g_arenas[a] \in {UnusedArena, ReservedArena}
    /\ \A a \in Arenas : g_arenas[a].in_use
    /\ \A t \in Threads : SlotOf(call[t]) # NULL => g_arenas[SlotOf(call[t])] = ReservedArena
    /\ \A t, u \in Threads : t # u /\ SlotOf(call[t]) # NULL => SlotOf(call[t]) # SlotOf(call[u])
    /\ \A a \in ArenaSlots : g_arenas[a] = ReservedArena => \E t \in Threads : SlotOf(call[t]) = a

BlocksInv ==
    BlocksTyped /\ RunsApart /\ ArenasStand /\ CallsStand /\ BasesApart /\ RunsHeld /\ SlotsHeld

-----------------------------------------------------------------------------
(* The pieces of an arena that are handed out: where in its data, and where *)
(* in memory.                                                               *)
Extent(s, i) == [at |-> DataBytes(s)[i - 1], bytes |-> Align * s[i].units]

Allocated(s) == {i \in DOMAIN s : s[i].allocated}

Extents(s) == {Extent(s, i) : i \in Allocated(s)}

Piece(base, e) == [ptr |-> base + e.at, bytes |-> e.bytes]

Pieces(arena) == {Piece(arena.base, e) : e \in Extents(arena.sectors)}

AllPieces == UNION {Pieces(g_arenas[a]) : a \in Arenas}

FreeJoined(s) ==
    /\ \A i \in 1 .. Len(s) - 1 : s[i].allocated \/ s[i + 1].allocated
    /\ Len(s) > 1 => s[Len(s)].allocated

Filled(s) == s # <<>> /\ \A i \in DOMAIN s : s[i].units # 0

SpaceOf(s) == DataBytes(s)[Len(s)] + HeaderBytes * Len(s)

ArenaSound(arena) ==
    /\ arena.in_use
    /\ arena.sectors \in Seq(SectorRecords)
    /\ Filled(arena.sectors)
    /\ SpaceOf(arena.sectors) <= Bytes(arena)
    /\ FreeJoined(arena.sectors)

ArenasSound == \A a \in Arenas : ArenaSound(g_arenas[a])

(* The allocations in use are the pieces handed out. *)
LiveSound ==
    /\ live \subseteq [ptr : Nat \ {0}, size : Asked]
    /\ \A l \in live : \E p \in AllPieces : p.ptr = l.ptr /\ l.size <= p.bytes
    /\ \A p \in AllPieces : \E l \in live : p.ptr = l.ptr
    /\ \A l, k \in live : l.ptr = k.ptr => l = k

(* What a krealloc is to free is in use, and nobody else's to free. *)
OldsSound ==
    /\ \A t \in Threads : OldOf(call[t]) # NULL => \E l \in live : l.ptr = OldOf(call[t])
    /\ \A t, u \in Threads : t # u /\ OldOf(call[t]) # NULL => OldOf(call[t]) # OldOf(call[u])

HeapInv == BlocksInv /\ ArenasSound /\ LiveSound /\ OldsSound

-----------------------------------------------------------------------------
(* Arithmetic. *)

LEMMA Numbers ==
    /\ MaxArenas \in Nat \ {0} /\ HeapBlocks \in Nat \ {0} /\ BlockBytes \in Nat \ {0}
    /\ Align \in Nat \ {0} /\ HeaderBytes \in Nat \ {0} /\ CountMod \in Nat \ {0}
    /\ SizeMod \in Nat /\ SizeMod > BlockBytes * (HeapBlocks + 1)
    /\ SizeMod % Align = 0 /\ HeaderBytes <= BlockBytes
    /\ Sizes \subseteq 1 .. SizeMod - 1 /\ Counts \subseteq 1 .. SizeMod - 1
BY MallocAssumption

LEMMA Scale ==
    ASSUME NEW m \in Nat, NEW a \in Nat, NEW b \in Nat, a <= b
    PROVE  m * a <= m * b /\ a * m <= b * m /\ m * a \in Nat /\ a * m \in Nat
<1>1. PICK c \in Nat : b = a + c
    <2>1. b - a \in Nat /\ b = a + (b - a)
        OBVIOUS
    <2> QED BY <2>1
<1>2. m * c \in Nat /\ m * b = m * a + m * c /\ m * a \in Nat
    BY <1>1
<1>3. c * m \in Nat /\ b * m = a * m + c * m /\ a * m \in Nat
    BY <1>1
<1> QED BY <1>2, <1>3

LEMMA ScaleStrict ==
    ASSUME NEW m \in Nat \ {0}, NEW a \in Nat, NEW b \in Nat
    PROVE  /\ a < b => m * a + m <= m * b /\ a * m + m <= b * m
           /\ m * a = m * b => a = b
           /\ a * m = b * m => a = b
<1>1. a < b => m * a + m <= m * b /\ a * m + m <= b * m
    <2> SUFFICES ASSUME a < b PROVE m * a + m <= m * b /\ a * m + m <= b * m
        OBVIOUS
    <2>1. m * (a + 1) <= m * b /\ (a + 1) * m <= b * m
        <3>1. a + 1 <= b /\ a + 1 \in Nat
            OBVIOUS
        <3> QED BY <3>1, Scale
    <2>2. m * (a + 1) = m * a + m /\ (a + 1) * m = a * m + m
        OBVIOUS
    <2>3. m * b \in Nat /\ b * m \in Nat
        OBVIOUS
    <2> QED BY <2>1, <2>2, <2>3
<1>2. b < a => m * b + m <= m * a /\ b * m + m <= a * m
    <2> SUFFICES ASSUME b < a PROVE m * b + m <= m * a /\ b * m + m <= a * m
        OBVIOUS
    <2>1. m * (b + 1) <= m * a /\ (b + 1) * m <= a * m
        <3>1. b + 1 <= a /\ b + 1 \in Nat
            OBVIOUS
        <3> QED BY <3>1, Scale
    <2>2. m * (b + 1) = m * b + m /\ (b + 1) * m = b * m + m
        OBVIOUS
    <2>3. m * a \in Nat /\ a * m \in Nat
        OBVIOUS
    <2> QED BY <2>1, <2>2, <2>3
<1>3. m * a \in Nat /\ m * b \in Nat /\ a * m \in Nat /\ b * m \in Nat
    OBVIOUS
<1> QED BY <1>1, <1>2, <1>3

(* Rounding down and up to a multiple of n. *)
LEMMA Division ==
    ASSUME NEW a \in Nat, NEW n \in Nat \ {0}
    PROVE  /\ a \div n \in Nat /\ a % n \in 0 .. n - 1
           /\ a % n = a - n * (a \div n)
           /\ n * (a \div n) <= a /\ a < n * (a \div n) + n
<1>1. a \div n \in Nat /\ a % n \in 0 .. n - 1
    OBVIOUS
<1>2. a % n = a - n * (a \div n)
    OBVIOUS
<1>3. n * (a \div n) <= a
    OBVIOUS
<1>4. a < n * (a \div n) + n
    OBVIOUS
<1> QED BY <1>1, <1>2, <1>3, <1>4

LEMMA Quotient ==
    ASSUME NEW n \in Nat \ {0}, NEW k \in Nat
    PROVE  (n * k) \div n = k /\ (k * n) \div n = k
<1>1. k * n = n * k /\ n * k \in Nat
    OBVIOUS
<1> DEFINE q == (n * k) \div n
<1>2. q \in Nat /\ n * q <= n * k /\ n * k < n * q + n
    BY <1>1, Division
<1> HIDE DEF q
<1>3. n * q \in Nat
    BY <1>2
<1>4. q < k => n * q + n <= n * k
    BY <1>2, ScaleStrict
<1>5. k < q => n * k + n <= n * q
    BY <1>2, ScaleStrict
<1>6. q = k
    BY <1>1, <1>2, <1>3, <1>4, <1>5
<1> QED BY <1>6, <1>1 DEF q

LEMMA LeastNat ==
    ASSUME NEW T \in SUBSET Nat, T # {}
    PROVE  \E x \in T : \A y \in T : x <= y
<1> DEFINE R == OpToRel(<, Nat)
<1>1. IsWellFoundedOn(R, Nat)
    BY NatLessThanWellFounded
<1> HIDE DEF R
<1>2. PICK x \in T : \A y \in T : <<y, x>> \notin R
    BY <1>1, WFMin, Zenon
<1>3. \A y \in T : y < x => <<y, x>> \in R
    BY <1>2 DEF OpToRel, R
<1>4. \A y \in T : ~(y < x)
    BY <1>2, <1>3, Zenon
<1>5. x \in Nat /\ T \subseteq Nat
    OBVIOUS
<1> QED BY <1>4, <1>5

(* Induction over the numbers up to a bound, as a fact about sets. *)
LEMMA Climbs ==
    ASSUME NEW m \in Nat, NEW S, 0 \in S,
           \A n \in 1 .. m : n - 1 \in S => n \in S
    PROVE  0 .. m \subseteq S
<1> DEFINE T == (0 .. m) \ S
<1> SUFFICES ASSUME T # {} PROVE FALSE
    OBVIOUS
<1>1. PICK x \in T : \A y \in T : x <= y
    <2>1. T \in SUBSET Nat
        OBVIOUS
    <2> QED BY <2>1, LeastNat
<1>2. x \in 1 .. m /\ x - 1 \in 0 .. m /\ ~(x <= x - 1)
    BY <1>1
<1>3. x - 1 \in S
    BY <1>1, <1>2
<1> QED BY <1>1, <1>2, <1>3

-----------------------------------------------------------------------------
(* Sequences. *)

LEMMA AppendIs ==
    ASSUME NEW S, NEW s \in Seq(S), NEW x \in S
    PROVE  /\ Append(s, x) \in Seq(S) /\ Append(s, x) # <<>> /\ Len(Append(s, x)) = Len(s) + 1
           /\ Append(s, x)[Len(s) + 1] = x
           /\ \A k \in 1 .. Len(s) : Append(s, x)[k] = s[k]
OBVIOUS

LEMMA SliceIs ==
    ASSUME NEW S, NEW p \in Seq(S), NEW a \in 1 .. Len(p) + 1, NEW b \in a - 1 .. Len(p)
    PROVE  /\ SubSeq(p, a, b) \in Seq(S) /\ Len(SubSeq(p, a, b)) = b - a + 1
           /\ \A k \in 1 .. b - a + 1 : SubSeq(p, a, b)[k] = p[a + k - 1]
<1>1. a \in Int /\ b \in Int /\ Len(p) \in Nat
    OBVIOUS
<1>2. \A i \in a .. b : p[i] \in S
    BY <1>1
<1> QED BY <1>1, <1>2

LEMMA ConcatIs ==
    ASSUME NEW S, NEW u \in Seq(S), NEW v \in Seq(S)
    PROVE  /\ u \o v \in Seq(S) /\ Len(u \o v) = Len(u) + Len(v)
           /\ \A k \in 1 .. Len(u) : (u \o v)[k] = u[k]
           /\ \A k \in Len(u) + 1 .. Len(u) + Len(v) : (u \o v)[k] = v[k - Len(u)]
<1>1. Len(u) \in Nat /\ Len(v) \in Nat
    OBVIOUS
<1>2. u \o v \in Seq(S) /\ Len(u \o v) = Len(u) + Len(v)
    OBVIOUS
<1>3. ASSUME NEW k \in 1 .. Len(u) PROVE (u \o v)[k] = u[k]
    BY <1>1
<1>4. ASSUME NEW k \in Len(u) + 1 .. Len(u) + Len(v) PROVE (u \o v)[k] = v[k - Len(u)]
    BY <1>1
<1> QED BY <1>2, <1>3, <1>4

LEMMA RemoveIs ==
    ASSUME NEW S, NEW p \in Seq(S), NEW j \in 1 .. Len(p)
    PROVE  /\ RemoveAt(p, j) \in Seq(S) /\ Len(RemoveAt(p, j)) = Len(p) - 1
           /\ \A k \in 1 .. j - 1 : RemoveAt(p, j)[k] = p[k]
           /\ \A k \in j .. Len(p) - 1 : RemoveAt(p, j)[k] = p[k + 1]
<1> DEFINE u == SubSeq(p, 1, j - 1)
           v == SubSeq(p, j + 1, Len(p))
           w == u \o v
<1>1. Len(p) \in Nat /\ j \in Nat /\ j <= Len(p)
    OBVIOUS
<1>2. u \in Seq(S) /\ Len(u) = j - 1 /\ \A k \in 1 .. j - 1 : u[k] = p[k]
    <2>1. 1 \in 1 .. Len(p) + 1 /\ j - 1 \in 1 - 1 .. Len(p)
        BY <1>1
    <2>2. /\ u \in Seq(S) /\ Len(u) = (j - 1) - 1 + 1
          /\ \A k \in 1 .. (j - 1) - 1 + 1 : u[k] = p[1 + k - 1]
        BY <2>1, SliceIs
    <2> HIDE DEF u
    <2> QED BY <1>1, <2>2
<1>3. v \in Seq(S) /\ Len(v) = Len(p) - j /\ \A k \in 1 .. Len(p) - j : v[k] = p[k + j]
    <2>1. j + 1 \in 1 .. Len(p) + 1 /\ Len(p) \in (j + 1) - 1 .. Len(p)
        BY <1>1
    <2>2. /\ v \in Seq(S) /\ Len(v) = Len(p) - (j + 1) + 1
          /\ \A k \in 1 .. Len(p) - (j + 1) + 1 : v[k] = p[(j + 1) + k - 1]
        BY <2>1, SliceIs
    <2> HIDE DEF v
    <2> QED BY <1>1, <2>2
<1> HIDE DEF u, v
<1>4. /\ w \in Seq(S) /\ Len(w) = Len(u) + Len(v)
      /\ \A k \in 1 .. Len(u) : w[k] = u[k]
      /\ \A k \in Len(u) + 1 .. Len(u) + Len(v) : w[k] = v[k - Len(u)]
    BY <1>2, <1>3, ConcatIs
<1>5. RemoveAt(p, j) = w
    BY DEF RemoveAt, u, v
<1> HIDE DEF w
<1>6. Len(w) = Len(p) - 1 /\ \A k \in 1 .. j - 1 : w[k] = p[k]
    BY <1>1, <1>2, <1>3, <1>4
<1>7. ASSUME NEW k \in j .. Len(p) - 1 PROVE w[k] = p[k + 1]
    <2>1. k \in Len(u) + 1 .. Len(u) + Len(v) /\ k - Len(u) \in 1 .. Len(p) - j
          /\ (k - Len(u)) + j = k + 1
        BY <1>1, <1>2, <1>3
    <2> QED BY <1>3, <1>4, <2>1
<1> QED BY <1>4, <1>5, <1>6, <1>7

-----------------------------------------------------------------------------
(* The sums of the sectors.  DataBytes is a recursive function: that there  *)
(* is one, and only one, is proved here.                                    *)

Sums(s, m, f) ==
    /\ f \in [0 .. m -> Nat]
    /\ f[0] = 0
    /\ \A n \in 1 .. m : f[n] = f[n - 1] + Align * s[n].units

LEMMA SectorSeq ==
    ASSUME NEW s \in Seq(SectorRecords)
    PROVE  /\ Len(s) \in Nat /\ DOMAIN s = 1 .. Len(s)
           /\ \A i \in 1 .. Len(s) : /\ s[i] \in SectorRecords
                                     /\ s[i].allocated \in BOOLEAN /\ s[i].units \in Nat
                                     /\ s[i] = Sector(s[i].allocated, s[i].units)
                                     /\ Align * s[i].units \in Nat
<1>1. Len(s) \in Nat /\ DOMAIN s = 1 .. Len(s) /\ \A i \in 1 .. Len(s) : s[i] \in SectorRecords
    OBVIOUS
<1>2. ASSUME NEW i \in 1 .. Len(s)
      PROVE  /\ s[i].allocated \in BOOLEAN /\ s[i].units \in Nat
             /\ s[i] = Sector(s[i].allocated, s[i].units)
             /\ Align * s[i].units \in Nat
    BY <1>1, Numbers DEF SectorRecords, Sector
<1> QED BY <1>1, <1>2

LEMMA SumsExtend ==
    ASSUME NEW s \in Seq(SectorRecords), NEW n \in 1 .. Len(s), NEW f, Sums(s, n - 1, f)
    PROVE  \E g : Sums(s, n, g)
<1>1. Len(s) \in Nat /\ s[n].units \in Nat /\ Align * s[n].units \in Nat
    BY SectorSeq
<1> DEFINE top == f[n - 1] + Align * s[n].units
           g == [k \in 0 .. n |-> IF k = n THEN top ELSE f[k]]
<1>2. f \in [0 .. n - 1 -> Nat] /\ f[0] = 0
      /\ \A k \in 1 .. n - 1 : f[k] = f[k - 1] + Align * s[k].units
    BY DEF Sums
<1>3. top \in Nat
    <2>1. f[n - 1] \in Nat
        BY <1>1, <1>2
    <2> QED BY <1>1, <2>1
<1>4. g[n] = top /\ \A k \in 0 .. n - 1 : g[k] = f[k]
    BY <1>1
<1>5. g \in [0 .. n -> Nat]
    BY <1>1, <1>2, <1>3
<1>6. ASSUME NEW k \in 1 .. n PROVE g[k] = g[k - 1] + Align * s[k].units
    <2>1. CASE k = n
        BY <1>1, <1>4, <2>1
    <2>2. CASE k # n
        <3>1. k \in 1 .. n - 1 /\ k - 1 \in 0 .. n - 1 /\ k \in 0 .. n - 1
            BY <1>1, <2>2
        <3> QED BY <1>2, <1>4, <3>1
    <2> QED BY <2>1, <2>2
<1>7. g[0] = 0
    BY <1>1, <1>2, <1>4
<1> HIDE DEF g
<1>8. Sums(s, n, g)
    BY <1>5, <1>6, <1>7 DEF Sums
<1> QED BY <1>8

LEMMA SumsExist ==
    ASSUME NEW s \in Seq(SectorRecords)
    PROVE  \E f : Sums(s, Len(s), f)
<1> DEFINE S == {n \in Nat : \E f : Sums(s, n, f)}
<1>1. Len(s) \in Nat
    BY SectorSeq
<1>2. 0 \in S
    <2>1. Sums(s, 0, [k \in 0 .. 0 |-> 0])
        BY DEF Sums
    <2> QED BY <2>1
<1>3. ASSUME NEW n \in 1 .. Len(s), n - 1 \in S PROVE n \in S
    BY <1>1, <1>3, SumsExtend
<1> HIDE DEF S
<1>4. 0 .. Len(s) \subseteq S
    BY <1>1, <1>2, <1>3, Climbs
<1> QED BY <1>1, <1>4 DEF S

LEMMA SumsSame ==
    ASSUME NEW s \in Seq(SectorRecords), NEW f, NEW g,
           Sums(s, Len(s), f), Sums(s, Len(s), g)
    PROVE  f = g
<1> DEFINE S == {n \in Nat : f[n] = g[n]}
<1>1. Len(s) \in Nat
    BY SectorSeq
<1>2. 0 \in S
    BY DEF Sums
<1>3. ASSUME NEW n \in 1 .. Len(s), n - 1 \in S PROVE n \in S
    BY <1>1, <1>3 DEF Sums
<1>4. 0 .. Len(s) \subseteq S
    <2> HIDE DEF S
    <2> QED BY <1>1, <1>2, <1>3, Climbs
<1>5. f \in [0 .. Len(s) -> Nat] /\ g \in [0 .. Len(s) -> Nat]
    BY DEF Sums
<1> QED BY <1>4, <1>5

LEMMA DataSums ==
    ASSUME NEW s \in Seq(SectorRecords)
    PROVE  Sums(s, Len(s), DataBytes(s))
<1> DEFINE Is(f) == f = [n \in 0 .. Len(s) |-> IF n = 0 THEN 0 ELSE f[n - 1] + Align * s[n].units]
<1>1. DataBytes(s) = CHOOSE f : Is(f)
    BY DEF DataBytes
<1>2. \A f : Sums(s, Len(s), f) => Is(f)
    <2> SUFFICES ASSUME NEW f, Sums(s, Len(s), f) PROVE Is(f)
        OBVIOUS
    <2>1. f \in [0 .. Len(s) -> Nat] /\ Len(s) \in Nat
        BY SectorSeq DEF Sums
    <2>2. \A n \in 0 .. Len(s) : f[n] = IF n = 0 THEN 0 ELSE f[n - 1] + Align * s[n].units
        BY <2>1 DEF Sums
    <2> QED BY <2>1, <2>2
<1>3. \A f : Is(f) => Sums(s, Len(s), f)
    <2> SUFFICES ASSUME NEW f, Is(f) PROVE Sums(s, Len(s), f)
        OBVIOUS
    <2>1. Len(s) \in Nat /\ DOMAIN f = 0 .. Len(s)
        BY SectorSeq
    <2>2. f[0] = 0 /\ \A n \in 1 .. Len(s) : f[n] = f[n - 1] + Align * s[n].units
        BY <2>1
    <2>3. 0 .. Len(s) \subseteq {n \in Nat : f[n] \in Nat}
        <3> DEFINE S == {n \in Nat : f[n] \in Nat}
        <3>1. 0 \in S
            BY <2>2
        <3>2. ASSUME NEW n \in 1 .. Len(s), n - 1 \in S PROVE n \in S
            <4>1. Align * s[n].units \in Nat
                BY SectorSeq
            <4>2. f[n - 1] \in Nat /\ f[n] = f[n - 1] + Align * s[n].units
                BY <2>2, <3>2
            <4>3. f[n] \in Nat
                <5> HIDE DEF Is
                <5> QED BY <4>1, <4>2
            <4> QED BY <2>1, <4>3
        <3> HIDE DEF S
        <3>3. 0 .. Len(s) \subseteq S
            BY <2>1, <3>1, <3>2, Climbs
        <3> QED BY <3>3 DEF S
    <2>4. f = [n \in 0 .. Len(s) |-> f[n]]
        BY <2>1
    <2>5. f \in [0 .. Len(s) -> Nat]
        <3> HIDE DEF Is
        <3> QED BY <2>3, <2>4
    <2> QED BY <2>2, <2>5 DEF Sums
<1> HIDE DEF Is
<1>4. \E f : Is(f)
    BY <1>2, SumsExist
<1>5. Is(DataBytes(s))
    BY <1>1, <1>4
<1> QED BY <1>3, <1>5

(* A function that adds up like the sums of s is the sums of s. *)
LEMMA SumsAre ==
    ASSUME NEW s \in Seq(SectorRecords), NEW f, Sums(s, Len(s), f)
    PROVE  DataBytes(s) = f
BY DataSums, SumsSame

LEMMA Adds ==
    ASSUME NEW s \in Seq(SectorRecords)
    PROVE  /\ DataBytes(s) \in [0 .. Len(s) -> Nat]
           /\ \A i \in 0 .. Len(s) : DataBytes(s)[i] \in Nat
           /\ DataBytes(s)[0] = 0
           /\ \A i \in 1 .. Len(s) : DataBytes(s)[i] = DataBytes(s)[i - 1] + Align * s[i].units
<1> DEFINE d == DataBytes(s)
<1>1. Sums(s, Len(s), d)
    BY DataSums
<1> HIDE DEF d
<1>2. /\ d \in [0 .. Len(s) -> Nat] /\ d[0] = 0
      /\ \A i \in 1 .. Len(s) : d[i] = d[i - 1] + Align * s[i].units
    BY <1>1 DEF Sums
<1>3. \A i \in 0 .. Len(s) : d[i] \in Nat
    BY <1>2
<1> QED BY <1>2, <1>3 DEF d

LEMMA AddsUp ==
    ASSUME NEW s \in Seq(SectorRecords), NEW j \in 0 .. Len(s), NEW i \in 0 .. j
    PROVE  DataBytes(s)[i] <= DataBytes(s)[j]
<1> DEFINE d == DataBytes(s)
           S == {n \in Nat : \A k \in 0 .. n : d[k] <= d[n]}
<1>1. /\ Len(s) \in Nat /\ \A k \in 0 .. Len(s) : d[k] \in Nat
      /\ \A n \in 1 .. Len(s) : d[n] = d[n - 1] + Align * s[n].units
    BY SectorSeq, Adds
<1> HIDE DEF d
<1>2. 0 \in S
    BY <1>1
<1>3. ASSUME NEW n \in 1 .. Len(s), n - 1 \in S PROVE n \in S
    <2>1. Align * s[n].units \in Nat /\ d[n - 1] \in Nat /\ d[n] = d[n - 1] + Align * s[n].units
        BY <1>1, SectorSeq
    <2>2. ASSUME NEW k \in 0 .. n PROVE d[k] <= d[n]
        <3>1. CASE k = n
            BY <2>1, <3>1
        <3>2. CASE k # n
            <4>1. k \in 0 .. n - 1
                BY <3>2
            <4>2. d[k] <= d[n - 1] /\ d[k] \in Nat
                BY <1>1, <1>3, <4>1
            <4> QED BY <2>1, <4>2
        <3> QED BY <3>1, <3>2
    <2> QED BY <2>2
<1>4. 0 .. Len(s) \subseteq S
    <2> HIDE DEF S
    <2> QED BY <1>1, <1>2, <1>3, Climbs
<1>5. d[i] <= d[j]
    BY <1>1, <1>4
<1> QED BY <1>5 DEF d

-----------------------------------------------------------------------------
(* What the operations on sectors do to sums and pieces. *)

LEMMA Injective ==
    ASSUME NEW s \in Seq(SectorRecords), Filled(s),
           NEW i \in 1 .. Len(s), NEW j \in 1 .. Len(s), i < j
    PROVE  /\ Align * s[i].units \in Nat \ {0}
           /\ DataBytes(s)[i - 1] + Align * s[i].units <= DataBytes(s)[j - 1]
           /\ DataBytes(s)[i - 1] \in Nat /\ DataBytes(s)[j - 1] \in Nat
<1>1. Len(s) \in Nat /\ s[i].units \in Nat \ {0} /\ Align \in Nat \ {0}
    BY SectorSeq, Numbers DEF Filled
<1>2. Align * s[i].units \in Nat \ {0}
    <2>1. Align * 0 + Align <= Align * s[i].units
        BY <1>1, ScaleStrict
    <2> QED BY <1>1, <2>1
<1>3. DataBytes(s)[i] = DataBytes(s)[i - 1] + Align * s[i].units
    BY Adds
<1>4. DataBytes(s)[i] <= DataBytes(s)[j - 1]
    <2>1. j - 1 \in 0 .. Len(s) /\ i \in 0 .. j - 1
        BY <1>1
    <2> QED BY <2>1, AddsUp
<1>5. i - 1 \in 0 .. Len(s) /\ j - 1 \in 0 .. Len(s)
    BY <1>1
<1> QED BY <1>2, <1>3, <1>4, <1>5, Adds

LEMMA ExtentsDiffer ==
    ASSUME NEW s \in Seq(SectorRecords), Filled(s),
           NEW i \in 1 .. Len(s), NEW j \in 1 .. Len(s), i # j
    PROVE  DataBytes(s)[i - 1] # DataBytes(s)[j - 1]
<1>1. CASE i < j
    BY <1>1, Injective
<1>2. CASE j < i
    BY <1>2, Injective
<1>3. Len(s) \in Nat
    BY SectorSeq
<1> QED BY <1>1, <1>2, <1>3

(* The flag of sector i alone differs. *)
Flagged(s, i, b) == [s EXCEPT ![i].allocated = b]

LEMMA FlagShape ==
    ASSUME NEW s \in Seq(SectorRecords), NEW i \in 1 .. Len(s), NEW b \in BOOLEAN
    PROVE  /\ Flagged(s, i, b) \in Seq(SectorRecords) /\ Len(Flagged(s, i, b)) = Len(s)
           /\ Flagged(s, i, b)[i] = Sector(b, s[i].units)
           /\ \A k \in 1 .. Len(s) : k # i => Flagged(s, i, b)[k] = s[k]
           /\ \A k \in 1 .. Len(s) : Flagged(s, i, b)[k].units = s[k].units
<1> DEFINE t == Flagged(s, i, b)
<1>1. Len(s) \in Nat /\ DOMAIN s = 1 .. Len(s) /\ s[i] \in SectorRecords
    BY SectorSeq
<1>2. t = [s EXCEPT ![i] = [s[i] EXCEPT !.allocated = b]]
    BY <1>1 DEF Flagged
<1>3. [s[i] EXCEPT !.allocated = b] = Sector(b, s[i].units)
    BY <1>1 DEF SectorRecords, Sector
<1>4. Sector(b, s[i].units) \in SectorRecords
    BY <1>1 DEF SectorRecords, Sector
<1>5. t = [s EXCEPT ![i] = Sector(b, s[i].units)]
    BY <1>2, <1>3
<1> HIDE DEF t
<1>6. t \in Seq(SectorRecords) /\ Len(t) = Len(s) /\ t[i] = Sector(b, s[i].units)
    BY <1>1, <1>4, <1>5
<1>7. \A k \in 1 .. Len(s) : k # i => t[k] = s[k]
    BY <1>1, <1>5
<1>8. \A k \in 1 .. Len(s) : t[k].units = s[k].units
    BY <1>6, <1>7 DEF Sector
<1> QED BY <1>6, <1>7, <1>8 DEF t

LEMMA SameSums ==
    ASSUME NEW s \in Seq(SectorRecords), NEW t \in Seq(SectorRecords), Len(t) = Len(s),
           \A k \in 1 .. Len(s) : t[k].units = s[k].units
    PROVE  DataBytes(t) = DataBytes(s)
<1> DEFINE d == DataBytes(s)
<1>1. Sums(s, Len(s), d)
    BY DataSums
<1> HIDE DEF d
<1>2. Sums(t, Len(t), d)
    BY <1>1 DEF Sums
<1>3. DataBytes(t) = d
    BY <1>2, SumsAre
<1> QED BY <1>3 DEF d

(* A free sector that is reused. *)
LEMMA ReuseEffect ==
    ASSUME NEW s \in Seq(SectorRecords), Filled(s), FreeJoined(s),
           NEW i \in 1 .. Len(s), ~s[i].allocated
    PROVE  LET t == Flagged(s, i, TRUE)
           IN /\ t \in Seq(SectorRecords) /\ Filled(t) /\ FreeJoined(t)
              /\ SpaceOf(t) = SpaceOf(s)
              /\ Extents(t) = Extents(s) \cup {Extent(s, i)}
              /\ \A e \in Extents(s) : e.at # Extent(s, i).at
<1> DEFINE t == Flagged(s, i, TRUE)
<1>1. /\ t \in Seq(SectorRecords) /\ Len(t) = Len(s) /\ t[i] = Sector(TRUE, s[i].units)
      /\ \A k \in 1 .. Len(s) : k # i => t[k] = s[k]
      /\ \A k \in 1 .. Len(s) : t[k].units = s[k].units
      /\ DOMAIN s = 1 .. Len(s) /\ DOMAIN t = 1 .. Len(s) /\ Len(s) \in Nat
    BY FlagShape, SectorSeq
<1> HIDE DEF t
<1>2. DataBytes(t) = DataBytes(s)
    BY <1>1, SameSums
<1>3. t[i].allocated
    BY <1>1 DEF Sector
<1>4. Filled(t)
    BY <1>1 DEF Filled
<1>5. FreeJoined(t)
    BY <1>1, <1>3 DEF FreeJoined
<1>6. Extents(t) = Extents(s) \cup {Extent(s, i)}
    <2>1. \A k \in 1 .. Len(s) : Extent(t, k) = Extent(s, k)
        BY <1>1, <1>2 DEF Extent
    <2>2. Allocated(t) = Allocated(s) \cup {i}
        BY <1>1, <1>3 DEF Allocated
    <2>3. Allocated(s) \subseteq 1 .. Len(s)
        BY <1>1 DEF Allocated
    <2> QED BY <2>1, <2>2, <2>3 DEF Extents
<1>7. \A e \in Extents(s) : e.at # Extent(s, i).at
    <2> SUFFICES ASSUME NEW k \in Allocated(s) PROVE DataBytes(s)[k - 1] # DataBytes(s)[i - 1]
        BY DEF Extents, Extent
    <2>1. k \in 1 .. Len(s) /\ k # i
        BY <1>1 DEF Allocated
    <2> QED BY <2>1, ExtentsDiffer
<1>8. SpaceOf(t) = SpaceOf(s)
    BY <1>1, <1>2 DEF SpaceOf
<1> QED BY <1>1, <1>4, <1>5, <1>6, <1>7, <1>8 DEF t

(* A sector that is appended. *)
LEMMA AppendEffect ==
    ASSUME NEW s \in Seq(SectorRecords), Filled(s), FreeJoined(s), NEW units \in Nat \ {0}
    PROVE  LET t == Append(s, Sector(TRUE, units))
               e == [at |-> DataBytes(s)[Len(s)], bytes |-> Align * units]
           IN /\ t \in Seq(SectorRecords) /\ Filled(t) /\ FreeJoined(t)
              /\ SpaceOf(t) = SpaceOf(s) + HeaderBytes + Align * units
              /\ Extents(t) = Extents(s) \cup {e}
              /\ \A x \in Extents(s) : x.at # e.at
<1> DEFINE t == Append(s, Sector(TRUE, units))
           n == Len(s)
           d == DataBytes(s)
           f == [k \in 0 .. n + 1 |-> IF k = n + 1 THEN d[n] + Align * units ELSE d[k]]
           e == [at |-> d[n], bytes |-> Align * units]
<1>1. n \in Nat /\ Align * units \in Nat /\ units \in Nat \ {0} /\ HeaderBytes \in Nat
    BY SectorSeq, Numbers
<1>2. Sector(TRUE, units) \in SectorRecords
    BY DEF Sector, SectorRecords
<1>3. /\ t \in Seq(SectorRecords) /\ Len(t) = n + 1 /\ t[n + 1] = Sector(TRUE, units)
      /\ \A k \in 1 .. n : t[k] = s[k]
    <2> DEFINE x == Sector(TRUE, units)
    <2> HIDE DEF x, t, f, e, d
    <2>1. x \in SectorRecords
        BY <1>2 DEF x
    <2>2. t = Append(s, x)
        BY DEF x, t
    <2>3. /\ t \in Seq(SectorRecords) /\ Len(t) = n + 1 /\ t[n + 1] = x
          /\ \A k \in 1 .. n : t[k] = s[k]
        BY <2>1, <2>2, AppendIs
    <2> QED BY <2>3 DEF x
<1>4. DOMAIN t = 1 .. n + 1 /\ DOMAIN s = 1 .. n
    BY <1>3, SectorSeq
<1>5. t[n + 1].allocated /\ t[n + 1].units = units
    BY <1>3 DEF Sector
<1>6. d \in [0 .. n -> Nat] /\ d[0] = 0 /\ (\A k \in 1 .. n : d[k] = d[k - 1] + Align * s[k].units)
      /\ \A k \in 0 .. n : d[k] \in Nat
    BY Adds
<1> HIDE DEF t, n, d
<1>7. Sums(t, n + 1, f)
    <2>1. d[n] \in Nat /\ d[n] + Align * units \in Nat
        BY <1>1, <1>6
    <2>2. f \in [0 .. n + 1 -> Nat]
        BY <1>1, <1>6, <2>1
    <2>3. \A k \in 0 .. n : f[k] = d[k]
        BY <1>1
    <2>4. f[n + 1] = d[n] + Align * units
        BY <1>1
    <2>5. ASSUME NEW k \in 1 .. n + 1 PROVE f[k] = f[k - 1] + Align * t[k].units
        <3>1. CASE k = n + 1
            BY <1>1, <1>5, <2>3, <2>4, <3>1
        <3>2. CASE k # n + 1
            <4>1. k \in 1 .. n /\ k \in 0 .. n /\ k - 1 \in 0 .. n
                BY <1>1, <3>2
            <4> QED BY <1>3, <1>6, <2>3, <4>1
        <3> QED BY <3>1, <3>2
    <2>6. f[0] = 0
        BY <1>1, <1>6, <2>3
    <2> HIDE DEF f
    <2> QED BY <2>2, <2>5, <2>6 DEF Sums
<1>8. DataBytes(t) = f
    BY <1>3, <1>7, SumsAre
<1>9. (\A k \in 0 .. n : DataBytes(t)[k] = d[k]) /\ DataBytes(t)[n + 1] = d[n] + Align * units
    BY <1>1, <1>8
<1>10. Filled(t)
    <2>1. t # <<>>
        BY <1>1, <1>3
    <2>2. \A k \in 1 .. n : t[k].units # 0
        BY <1>3, <1>4 DEF Filled
    <2>3. \A k \in 1 .. n + 1 : t[k].units # 0
        BY <1>1, <1>5, <2>2
    <2> QED BY <1>4, <2>1, <2>3 DEF Filled
<1>11. FreeJoined(t)
    <2>1. \A k \in 1 .. n : t[k].allocated \/ t[k + 1].allocated
        <3> SUFFICES ASSUME NEW k \in 1 .. n PROVE t[k].allocated \/ t[k + 1].allocated
            OBVIOUS
        <3>1. CASE k = n
            BY <1>5, <3>1
        <3>2. CASE k # n
            <4>1. k \in 1 .. n - 1 /\ k + 1 \in 1 .. n
                BY <1>1, <3>2
            <4>2. s[k].allocated \/ s[k + 1].allocated
                BY <4>1 DEF FreeJoined, n
            <4> QED BY <1>3, <4>1, <4>2
        <3> QED BY <3>1, <3>2
    <2>2. (n + 1) - 1 = n
        BY <1>1
    <2> QED BY <1>3, <1>5, <2>1, <2>2 DEF FreeJoined
<1>12. Extents(t) = Extents(s) \cup {e}
    <2>1. Allocated(t) = Allocated(s) \cup {n + 1}
        <3>1. 1 .. n + 1 = (1 .. n) \cup {n + 1}
            BY <1>1
        <3>2. \A k \in 1 .. n : t[k].allocated = s[k].allocated
            BY <1>3
        <3> QED BY <1>4, <1>5, <3>1, <3>2 DEF Allocated
    <2>2. Allocated(s) \subseteq 1 .. n
        BY <1>4 DEF Allocated
    <2>3. \A k \in 1 .. n : Extent(t, k) = Extent(s, k)
        BY <1>1, <1>3, <1>9 DEF Extent, d
    <2>4. Extent(t, n + 1) = e
        <3>1. DataBytes(t)[(n + 1) - 1] = d[n]
            BY <1>1, <1>9
        <3> QED BY <1>5, <3>1 DEF Extent
    <2> HIDE DEF e
    <2> QED BY <2>1, <2>2, <2>3, <2>4 DEF Extents
<1>13. ASSUME NEW x \in Extents(s) PROVE x.at # e.at
    <2>1. PICK k \in Allocated(s) : x = Extent(s, k)
        BY DEF Extents
    <2>2. k \in 1 .. n /\ x.at = d[k - 1] /\ k \in 1 .. Len(t) /\ n + 1 \in 1 .. Len(t) /\ k # n + 1
        BY <1>1, <1>3, <1>4, <2>1 DEF Allocated, Extent, d
    <2>3. DataBytes(t)[k - 1] # DataBytes(t)[(n + 1) - 1]
        BY <1>3, <1>10, <2>2, ExtentsDiffer
    <2>4. k - 1 \in 0 .. n /\ n \in 0 .. n /\ (n + 1) - 1 = n
        BY <1>1, <2>2
    <2> QED BY <1>9, <2>2, <2>3, <2>4
<1>14. SpaceOf(t) = SpaceOf(s) + HeaderBytes + Align * units
    <2>1. HeaderBytes * (n + 1) = HeaderBytes * n + HeaderBytes /\ HeaderBytes * n \in Nat
        BY <1>1
    <2>2. d[n] \in Nat
        BY <1>1, <1>6
    <2>3. SpaceOf(s) = d[n] + HeaderBytes * n
        BY DEF SpaceOf, d, n
    <2>4. SpaceOf(t) = d[n] + Align * units + HeaderBytes * (n + 1)
        BY <1>3, <1>9 DEF SpaceOf
    <2> QED BY <1>1, <2>1, <2>2, <2>3, <2>4
<1> QED BY <1>3, <1>10, <1>11, <1>12, <1>13, <1>14 DEF t, d, n

(* The first sector of a new arena. *)
LEMMA SingleEffect ==
    ASSUME NEW b \in BOOLEAN, NEW units \in Nat
    PROVE  LET t == <<Sector(b, units)>>
           IN /\ t \in Seq(SectorRecords) /\ FreeJoined(t) /\ Len(t) = 1
              /\ units # 0 => Filled(t)
              /\ DataBytes(t)[0] = 0 /\ DataBytes(t)[1] = Align * units
              /\ SpaceOf(t) = Align * units + HeaderBytes
              /\ Extents(t) = IF b THEN {[at |-> 0, bytes |-> Align * units]} ELSE {}
<1> DEFINE t == <<Sector(b, units)>>
<1>1. Sector(b, units) \in SectorRecords /\ Align * units \in Nat /\ HeaderBytes \in Nat
    BY Numbers DEF Sector, SectorRecords
<1>2. t \in Seq(SectorRecords) /\ Len(t) = 1 /\ t[1] = Sector(b, units) /\ DOMAIN t = {1}
    BY <1>1
<1>3. t[1].allocated = b /\ t[1].units = units
    BY <1>2 DEF Sector
<1> HIDE DEF t
<1>4. DataBytes(t)[0] = 0 /\ DataBytes(t)[1] = Align * units
    <2>1. DataBytes(t)[0] = 0 /\ DataBytes(t)[1] = DataBytes(t)[1 - 1] + Align * t[1].units
        BY <1>2, Adds
    <2> QED BY <1>1, <1>3, <2>1
<1>5. SpaceOf(t) = Align * units + HeaderBytes
    BY <1>1, <1>2, <1>4 DEF SpaceOf
<1>6. FreeJoined(t)
    BY <1>2 DEF FreeJoined
<1>7. units # 0 => Filled(t)
    <2>1. t # <<>>
        BY <1>2
    <2> QED BY <1>2, <1>3, <2>1 DEF Filled
<1>8. Allocated(t) = IF b THEN {1} ELSE {}
    BY <1>2, <1>3 DEF Allocated
<1>9. Extent(t, 1) = [at |-> 0, bytes |-> Align * units]
    BY <1>3, <1>4 DEF Extent
<1>10. Extents(t) = IF b THEN {[at |-> 0, bytes |-> Align * units]} ELSE {}
    BY <1>8, <1>9 DEF Extents
<1> QED BY <1>2, <1>4, <1>5, <1>6, <1>7, <1>10 DEF t

(* Two free sectors that become one. *)
LEMMA JoinShape ==
    ASSUME NEW s \in Seq(SectorRecords), NEW i \in 1 .. Len(s) - 1
    PROVE  /\ Join(s, i) \in Seq(SectorRecords) /\ Len(Join(s, i)) = Len(s) - 1
           /\ Join(s, i)[i] = Sector(FALSE, s[i].units + s[i + 1].units)
           /\ \A k \in 1 .. i - 1 : Join(s, i)[k] = s[k]
           /\ \A k \in i + 1 .. Len(s) - 1 : Join(s, i)[k] = s[k + 1]
<1> DEFINE x == Sector(FALSE, s[i].units + s[i + 1].units)
           p == [s EXCEPT ![i] = x]
<1>1. Len(s) \in Nat /\ i + 1 \in 1 .. Len(s) /\ i \in 1 .. Len(s) /\ DOMAIN s = 1 .. Len(s)
    BY SectorSeq
<1>2. x \in SectorRecords
    <2>1. s[i].units \in Nat /\ s[i + 1].units \in Nat
        BY <1>1, SectorSeq
    <2>2. s[i].units + s[i + 1].units \in Nat
        BY <2>1
    <2> QED BY <2>2 DEF Sector, SectorRecords
<1>3. Join(s, i) = RemoveAt(p, i + 1)
    BY <1>1 DEF Join, arena_remove_sector_at
<1> HIDE DEF x
<1>4. p \in Seq(SectorRecords) /\ Len(p) = Len(s) /\ p[i] = x
      /\ \A k \in 1 .. Len(s) : k # i => p[k] = s[k]
    BY <1>1, <1>2
<1> HIDE DEF p
<1> DEFINE w == RemoveAt(p, i + 1)
<1>5. /\ w \in Seq(SectorRecords) /\ Len(w) = Len(s) - 1
      /\ \A k \in 1 .. (i + 1) - 1 : w[k] = p[k]
      /\ \A k \in i + 1 .. Len(s) - 1 : w[k] = p[k + 1]
    <2>1. i + 1 \in 1 .. Len(p)
        BY <1>1, <1>4
    <2> QED BY <1>4, <2>1, RemoveIs
<1> HIDE DEF w
<1>6. w[i] = x /\ \A k \in 1 .. i - 1 : w[k] = s[k]
    BY <1>1, <1>4, <1>5
<1>7. \A k \in i + 1 .. Len(s) - 1 : w[k] = s[k + 1]
    BY <1>1, <1>4, <1>5
<1>8. Join(s, i) = w
    BY <1>3 DEF w
<1> QED BY <1>5, <1>6, <1>7, <1>8 DEF x

(* What t has left of s when free sectors are joined or dropped. *)
Trimmed(t, s) ==
    /\ t \in Seq(SectorRecords) /\ Filled(t)
    /\ SpaceOf(t) <= SpaceOf(s)
    /\ Extents(t) = Extents(s)

LEMMA SpaceTyped ==
    ASSUME NEW s \in Seq(SectorRecords)
    PROVE  /\ SpaceOf(s) = DataBytes(s)[Len(s)] + HeaderBytes * Len(s)
           /\ DataBytes(s)[Len(s)] \in Nat /\ HeaderBytes * Len(s) \in Nat /\ SpaceOf(s) \in Nat
<1>1. Len(s) \in Nat /\ HeaderBytes \in Nat /\ Len(s) \in 0 .. Len(s)
    BY SectorSeq, Numbers
<1>2. DataBytes(s)[Len(s)] \in Nat /\ HeaderBytes * Len(s) \in Nat
    BY <1>1, Adds
<1> QED BY <1>2 DEF SpaceOf

LEMMA TrimmedTwice ==
    ASSUME NEW s \in Seq(SectorRecords), NEW t, NEW u, Trimmed(t, s), Trimmed(u, t)
    PROVE  Trimmed(u, s)
<1>1. SpaceOf(s) \in Nat /\ SpaceOf(t) \in Nat /\ SpaceOf(u) \in Nat
    BY SpaceTyped DEF Trimmed
<1> QED BY <1>1 DEF Trimmed

LEMMA JoinEffect ==
    ASSUME NEW s \in Seq(SectorRecords), Filled(s), NEW i \in 1 .. Len(s) - 1,
           ~s[i].allocated, ~s[i + 1].allocated
    PROVE  Trimmed(Join(s, i), s)
<1> DEFINE t == Join(s, i)
           n == Len(s)
           d == DataBytes(s)
           f == [k \in 0 .. n - 1 |-> IF k < i THEN d[k] ELSE d[k + 1]]
<1>1. n \in Nat /\ DOMAIN s = 1 .. n /\ HeaderBytes \in Nat /\ Align \in Nat \ {0}
    BY SectorSeq, Numbers
<1>2. /\ t \in Seq(SectorRecords) /\ Len(t) = n - 1
      /\ t[i] = Sector(FALSE, s[i].units + s[i + 1].units)
      /\ \A k \in 1 .. i - 1 : t[k] = s[k]
      /\ \A k \in i + 1 .. n - 1 : t[k] = s[k + 1]
    BY JoinShape
<1>3. d \in [0 .. n -> Nat] /\ d[0] = 0 /\ (\A k \in 1 .. n : d[k] = d[k - 1] + Align * s[k].units)
      /\ \A k \in 0 .. n : d[k] \in Nat
    BY Adds
<1> HIDE DEF t, d, n
<1>4. DOMAIN t = 1 .. n - 1
    BY <1>2, SectorSeq
<1>5. i \in 1 .. n - 1
    BY DEF n
<1>6. /\ \A k \in 1 .. n : s[k].units \in Nat \ {0}
      /\ \A k \in 1 .. n : s[k].allocated \in BOOLEAN
    BY <1>1, SectorSeq DEF Filled, n
<1>7. ~t[i].allocated /\ t[i].units = s[i].units + s[i + 1].units
    BY <1>2 DEF Sector
<1>8. Sums(t, n - 1, f)
    <2>1. f \in [0 .. n - 1 -> Nat]
        <3>1. \A k \in 0 .. n - 1 : (IF k < i THEN d[k] ELSE d[k + 1]) \in Nat
            BY <1>1, <1>3
        <3> QED BY <3>1
    <2>2. \A k \in 0 .. i - 1 : f[k] = d[k]
        BY <1>1, <1>5
    <2>3. \A k \in i .. n - 1 : f[k] = d[k + 1]
        BY <1>1, <1>5
    <2> HIDE DEF f
    <2>4. ASSUME NEW k \in 1 .. n - 1 PROVE f[k] = f[k - 1] + Align * t[k].units
        <3>1. CASE k < i
            <4>1. k \in 0 .. i - 1 /\ k - 1 \in 0 .. i - 1 /\ k \in 1 .. i - 1 /\ k \in 1 .. n
                BY <1>1, <1>5, <3>1
            <4> QED BY <1>2, <1>3, <2>2, <4>1
        <3>2. CASE k = i
            <4>1. f[i] = d[i + 1] /\ f[i - 1] = d[i - 1]
                BY <1>1, <1>5, <2>2, <2>3
            <4>2. d[i + 1] = d[i] + Align * s[i + 1].units /\ d[i] = d[i - 1] + Align * s[i].units
                <5>1. i + 1 \in 1 .. n /\ i \in 1 .. n /\ (i + 1) - 1 = i
                    BY <1>1, <1>5
                <5> QED BY <1>3, <5>1
            <4>3. Align * t[i].units = Align * s[i].units + Align * s[i + 1].units
                <5>1. s[i].units \in Nat /\ s[i + 1].units \in Nat
                    BY <1>1, <1>5, <1>6
                <5> QED BY <1>1, <1>7, <5>1
            <4>4. d[i - 1] \in Nat /\ Align * s[i].units \in Nat /\ Align * s[i + 1].units \in Nat
                <5>1. i \in 1 .. n /\ i + 1 \in 1 .. n /\ i - 1 \in 0 .. n
                    BY <1>1, <1>5
                <5>2. Align * s[i].units \in Nat /\ Align * s[i + 1].units \in Nat
                    BY <5>1, SectorSeq DEF n
                <5> QED BY <1>3, <5>1, <5>2
            <4> QED BY <3>2, <4>1, <4>2, <4>3, <4>4
        <3>3. CASE k > i
            <4>1. k \in i .. n - 1 /\ k - 1 \in i .. n - 1 /\ k \in i + 1 .. n - 1
                  /\ k + 1 \in 1 .. n
                  /\ (k - 1) + 1 = k /\ (k + 1) - 1 = k
                BY <1>1, <1>5, <3>3
            <4>2. f[k] = d[k + 1] /\ f[k - 1] = d[k] /\ t[k] = s[k + 1]
                BY <1>2, <2>3, <4>1
            <4>3. d[k + 1] = d[k] + Align * s[k + 1].units
                BY <1>3, <4>1
            <4> QED BY <4>2, <4>3
        <3> QED BY <1>5, <3>1, <3>2, <3>3
    <2>5. f[0] = 0
        BY <1>3, <1>5, <2>2
    <2> QED BY <2>1, <2>4, <2>5 DEF Sums
<1>9. DataBytes(t) = f
    BY <1>2, <1>8, SumsAre
<1>10. /\ \A k \in 0 .. i - 1 : DataBytes(t)[k] = d[k]
       /\ \A k \in i .. n - 1 : DataBytes(t)[k] = d[k + 1]
    BY <1>1, <1>5, <1>9
<1> HIDE DEF f
<1>11. Filled(t)
    <2>1. t # <<>>
        BY <1>2, <1>5
    <2>2. ASSUME NEW k \in 1 .. n - 1 PROVE t[k].units # 0
        <3>1. CASE k < i
            BY <1>1, <1>2, <1>5, <1>6, <3>1
        <3>2. CASE k = i
            <4>1. s[i].units \in Nat \ {0} /\ s[i + 1].units \in Nat \ {0}
                BY <1>1, <1>5, <1>6
            <4> QED BY <1>7, <3>2, <4>1
        <3>3. CASE k > i
            BY <1>1, <1>2, <1>5, <1>6, <3>3
        <3> QED BY <1>5, <3>1, <3>2, <3>3
    <2> QED BY <1>4, <2>1, <2>2 DEF Filled
<1>12. SpaceOf(t) <= SpaceOf(s)
    <2>1. DataBytes(t)[n - 1] = d[n] /\ d[n] \in Nat
        <3>1. n - 1 \in i .. n - 1 /\ (n - 1) + 1 = n /\ n \in 0 .. n
            BY <1>1, <1>5
        <3> QED BY <1>3, <1>10, <3>1
    <2>2. HeaderBytes * (n - 1) <= HeaderBytes * n /\ HeaderBytes * (n - 1) \in Nat
          /\ HeaderBytes * n \in Nat
        <3>1. n - 1 \in Nat /\ n - 1 <= n
            BY <1>1, <1>5
        <3> QED BY <1>1, <3>1, Scale
    <2> QED BY <1>2, <2>1, <2>2 DEF SpaceOf, n, d
<1>13. Extents(t) = Extents(s)
    <2>1. ASSUME NEW k \in Allocated(t)
          PROVE  \E j \in Allocated(s) : Extent(t, k) = Extent(s, j)
        <3>1. k \in 1 .. n - 1 /\ t[k].allocated /\ k # i
            BY <1>4, <1>7 DEF Allocated
        <3>2. CASE k < i
            <4>1. k \in 1 .. i - 1 /\ k - 1 \in 0 .. i - 1 /\ k \in 1 .. n
                BY <1>1, <1>5, <3>1, <3>2
            <4>2. t[k] = s[k] /\ DataBytes(t)[k - 1] = d[k - 1]
                BY <1>2, <1>10, <4>1
            <4>3. k \in Allocated(s)
                BY <1>1, <3>1, <4>1, <4>2 DEF Allocated
            <4>4. Extent(t, k) = Extent(s, k)
                BY <4>2 DEF Extent, d
            <4> QED BY <4>3, <4>4
        <3>3. CASE k > i
            <4>1. k \in i + 1 .. n - 1 /\ k - 1 \in i .. n - 1 /\ k + 1 \in 1 .. n
                  /\ (k - 1) + 1 = k /\ (k + 1) - 1 = k
                BY <1>1, <1>5, <3>1, <3>3
            <4>2. t[k] = s[k + 1] /\ DataBytes(t)[k - 1] = d[k]
                BY <1>2, <1>10, <4>1
            <4>3. k + 1 \in Allocated(s)
                BY <1>1, <3>1, <4>1, <4>2 DEF Allocated
            <4>4. Extent(t, k) = Extent(s, k + 1)
                BY <4>1, <4>2 DEF Extent, d
            <4> QED BY <4>3, <4>4
        <3> QED BY <1>5, <3>1, <3>2, <3>3
    <2>2. ASSUME NEW j \in Allocated(s)
          PROVE  \E k \in Allocated(t) : Extent(t, k) = Extent(s, j)
        <3>1. j \in 1 .. n /\ s[j].allocated /\ j # i /\ j # i + 1
            BY <1>1 DEF Allocated
        <3>2. CASE j < i
            <4>1. j \in 1 .. i - 1 /\ j - 1 \in 0 .. i - 1 /\ j \in 1 .. n - 1
                BY <1>1, <1>5, <3>1, <3>2
            <4>2. t[j] = s[j] /\ DataBytes(t)[j - 1] = d[j - 1]
                BY <1>2, <1>10, <4>1
            <4>3. j \in Allocated(t)
                BY <1>4, <3>1, <4>1, <4>2 DEF Allocated
            <4>4. Extent(t, j) = Extent(s, j)
                BY <4>2 DEF Extent, d
            <4> QED BY <4>3, <4>4
        <3>3. CASE j > i + 1
            <4>1. j - 1 \in i + 1 .. n - 1 /\ (j - 1) - 1 \in i .. n - 1 /\ j - 1 \in 1 .. n - 1
                  /\ (j - 1) + 1 = j /\ ((j - 1) - 1) + 1 = j - 1
                BY <1>1, <1>5, <3>1, <3>3
            <4>2. t[j - 1] = s[j] /\ DataBytes(t)[(j - 1) - 1] = d[j - 1]
                BY <1>2, <1>10, <4>1
            <4>3. j - 1 \in Allocated(t)
                BY <1>4, <3>1, <4>1, <4>2 DEF Allocated
            <4>4. Extent(t, j - 1) = Extent(s, j)
                BY <4>2 DEF Extent, d
            <4> QED BY <4>3, <4>4
        <3> QED BY <1>5, <3>1, <3>2, <3>3
    <2> QED BY <2>1, <2>2 DEF Extents
<1> QED BY <1>2, <1>11, <1>12, <1>13 DEF Trimmed, t

(* Free sectors at the end are dropped. *)
LEMMA PrefixEffect ==
    ASSUME NEW s \in Seq(SectorRecords), Filled(s), NEW m \in 1 .. Len(s),
           \A k \in m + 1 .. Len(s) : ~s[k].allocated
    PROVE  /\ Trimmed(SubSeq(s, 1, m), s)
           /\ Len(SubSeq(s, 1, m)) = m
           /\ \A k \in 1 .. m : SubSeq(s, 1, m)[k] = s[k]
<1> DEFINE t == SubSeq(s, 1, m)
           n == Len(s)
           d == DataBytes(s)
           f == [k \in 0 .. m |-> d[k]]
<1>1. n \in Nat /\ DOMAIN s = 1 .. n /\ HeaderBytes \in Nat /\ m \in 1 .. n
    BY SectorSeq, Numbers
<1>2. t \in Seq(SectorRecords) /\ Len(t) = m /\ \A k \in 1 .. m : t[k] = s[k]
    <2>1. 1 \in 1 .. n + 1 /\ m \in 1 - 1 .. n
        BY <1>1
    <2>2. /\ t \in Seq(SectorRecords) /\ Len(t) = m - 1 + 1
          /\ \A k \in 1 .. m - 1 + 1 : t[k] = s[1 + k - 1]
        BY <2>1, SliceIs
    <2> HIDE DEF t
    <2> QED BY <1>1, <2>2
<1>3. d \in [0 .. n -> Nat] /\ d[0] = 0 /\ (\A k \in 1 .. n : d[k] = d[k - 1] + Align * s[k].units)
      /\ \A k \in 0 .. n : d[k] \in Nat
    BY Adds
<1>4. d[m] <= d[n]
    <2>1. n \in 0 .. Len(s) /\ m \in 0 .. n
        BY <1>1
    <2> QED BY <2>1, AddsUp
<1> HIDE DEF t, d, n
<1>5. DOMAIN t = 1 .. m
    BY <1>2, SectorSeq
<1>6. Sums(t, m, f)
    <2>1. f \in [0 .. m -> Nat]
        BY <1>1, <1>3
    <2>2. \A k \in 1 .. m : f[k] = f[k - 1] + Align * t[k].units
        BY <1>1, <1>2, <1>3
    <2>3. f[0] = 0
        BY <1>1, <1>3
    <2> HIDE DEF f
    <2> QED BY <2>1, <2>2, <2>3 DEF Sums
<1>7. DataBytes(t) = f
    BY <1>2, <1>6, SumsAre
<1>8. \A k \in 0 .. m : DataBytes(t)[k] = d[k]
    BY <1>7
<1> HIDE DEF f
<1>9. Filled(t)
    <2>1. t # <<>>
        BY <1>1, <1>2
    <2> QED BY <1>1, <1>2, <1>5, <2>1 DEF Filled
<1>10. SpaceOf(t) <= SpaceOf(s)
    <2>1. DataBytes(t)[m] = d[m] /\ d[m] \in Nat /\ d[n] \in Nat
        BY <1>1, <1>3, <1>8
    <2>2. HeaderBytes * m <= HeaderBytes * n /\ HeaderBytes * m \in Nat /\ HeaderBytes * n \in Nat
        <3>1. m \in Nat /\ m <= n
            BY <1>1
        <3> QED BY <1>1, <3>1, Scale
    <2> QED BY <1>2, <1>4, <2>1, <2>2 DEF SpaceOf, n, d
<1>11. Extents(t) = Extents(s)
    <2>1. Allocated(t) = Allocated(s)
        <3>1. \A k \in 1 .. n : k \in 1 .. m \/ k \in m + 1 .. n
            BY <1>1
        <3>2. \A k \in m + 1 .. n : ~s[k].allocated
            BY DEF n
        <3>3. \A k \in 1 .. m : k \in 1 .. n
            BY <1>1
        <3> QED BY <1>1, <1>2, <1>5, <3>1, <3>2, <3>3 DEF Allocated
    <2>2. \A k \in 1 .. m : Extent(t, k) = Extent(s, k)
        BY <1>1, <1>2, <1>8 DEF Extent, d
    <2>3. Allocated(t) \subseteq 1 .. m
        BY <1>5 DEF Allocated
    <2> QED BY <2>1, <2>2, <2>3 DEF Extents
<1> QED BY <1>2, <1>9, <1>10, <1>11 DEF Trimmed, t

(* Sector h is free, and free sectors are joined except with it.            *)
Hole(s, h) ==
    /\ h \in 1 .. Len(s) /\ ~s[h].allocated
    /\ \A k \in 1 .. Len(s) - 1 : k # h /\ k + 1 # h => s[k].allocated \/ s[k + 1].allocated
    /\ h # Len(s) => s[Len(s)].allocated

LEMMA HoleJoin ==
    ASSUME NEW s \in Seq(SectorRecords), NEW a \in 1 .. Len(s) - 1,
           ~s[a].allocated, ~s[a + 1].allocated, NEW h \in {a, a + 1}, Hole(s, h)
    PROVE  LET t == Join(s, a)
           IN /\ Hole(t, a)
              /\ a > 1 /\ (h = a + 1 \/ s[a - 1].allocated) => t[a - 1].allocated
              /\ h = a /\ a < Len(t) => t[a + 1].allocated
<1> DEFINE t == Join(s, a)
           n == Len(s)
<1>1. n \in Nat /\ a \in 1 .. n - 1
    BY SectorSeq
<1>2. /\ Len(t) = n - 1
      /\ t[a] = Sector(FALSE, s[a].units + s[a + 1].units)
      /\ \A k \in 1 .. a - 1 : t[k] = s[k]
      /\ \A k \in a + 1 .. n - 1 : t[k] = s[k + 1]
    BY JoinShape
<1>3. /\ h \in 1 .. n
      /\ \A k \in 1 .. n - 1 : k # h /\ k + 1 # h => s[k].allocated \/ s[k + 1].allocated
      /\ h # n => s[n].allocated
    BY DEF Hole
<1> HIDE DEF t, n
<1>4. ~t[a].allocated
    BY <1>2 DEF Sector
<1>5. ASSUME NEW k \in 1 .. (n - 1) - 1, k # a, k + 1 # a
      PROVE  t[k].allocated \/ t[k + 1].allocated
    <2>1. CASE k + 1 < a
        <3>1. k \in 1 .. a - 1 /\ k + 1 \in 1 .. a - 1 /\ k \in 1 .. n - 1 /\ k # h /\ k + 1 # h
            BY <1>1, <2>1
        <3> QED BY <1>2, <1>3, <3>1
    <2>2. CASE k > a
        <3>1. k \in a + 1 .. n - 1 /\ k + 1 \in a + 1 .. n - 1 /\ k + 1 \in 1 .. n - 1
              /\ k + 1 # h /\ (k + 1) + 1 # h
            BY <1>1, <2>2
        <3> QED BY <1>2, <1>3, <3>1
    <2> QED BY <1>1, <1>5, <2>1, <2>2
<1>6. a # n - 1 => t[n - 1].allocated
    <2> SUFFICES ASSUME a # n - 1 PROVE t[n - 1].allocated
        OBVIOUS
    <2>1. n - 1 \in a + 1 .. n - 1 /\ (n - 1) + 1 = n /\ h # n
        BY <1>1
    <2> QED BY <1>2, <1>3, <2>1
<1>7. Hole(t, a)
    BY <1>1, <1>2, <1>4, <1>5, <1>6 DEF Hole
<1>8. a > 1 /\ (h = a + 1 \/ s[a - 1].allocated) => t[a - 1].allocated
    <2> SUFFICES ASSUME a > 1, h = a + 1 \/ s[a - 1].allocated PROVE t[a - 1].allocated
        OBVIOUS
    <2>1. a - 1 \in 1 .. a - 1 /\ a - 1 \in 1 .. n - 1 /\ (a - 1) + 1 = a /\ a - 1 # h
        BY <1>1
    <2>2. h = a + 1 => a # h
        BY <1>1
    <2> QED BY <1>2, <1>3, <2>1, <2>2
<1>9. h = a /\ a < Len(t) => t[a + 1].allocated
    <2> SUFFICES ASSUME h = a, a < Len(t) PROVE t[a + 1].allocated
        OBVIOUS
    <2>1. a + 1 \in a + 1 .. n - 1 /\ a + 1 \in 1 .. n - 1 /\ a + 1 # h /\ (a + 1) + 1 # h
        BY <1>1, <1>2
    <2> QED BY <1>2, <1>3, <2>1
<1> QED BY <1>7, <1>8, <1>9 DEF t

LEMMA ShrinkIs ==
    ASSUME NEW s \in Seq(SectorRecords), Filled(s), NEW m \in 1 .. Len(s),
           m = 1 \/ s[m].allocated, \A k \in m + 1 .. Len(s) : ~s[k].allocated
    PROVE  arena_shrink_free_tail(s) = SubSeq(s, 1, m)
<1> DEFINE K == {1} \cup {k \in DOMAIN s : s[k].allocated \/ s[k].units = 0}
<1>1. Len(s) \in Nat /\ DOMAIN s = 1 .. Len(s)
    BY SectorSeq
<1>2. m \in K /\ K \subseteq Nat
    BY <1>1
<1>3. \A k \in K : m >= k
    BY <1>1 DEF Filled
<1> HIDE DEF K
<1>4. \A x \in K : (\A k \in K : x >= k) => x = m
    BY <1>2, <1>3
<1>5. Max(K) = m
    BY <1>2, <1>3, <1>4 DEF Max
<1> QED BY <1>5 DEF arena_shrink_free_tail, K

LEMMA MarkFreeEffect ==
    ASSUME NEW s \in Seq(SectorRecords), Filled(s), FreeJoined(s),
           NEW i \in 1 .. Len(s), s[i].allocated
    PROVE  LET t == MarkFree(s, i)
           IN /\ t \in Seq(SectorRecords) /\ Len(t) = Len(s) /\ Filled(t)
              /\ SpaceOf(t) = SpaceOf(s)
              /\ Extents(t) = Extents(s) \ {Extent(s, i)}
              /\ Hole(t, i)
              /\ \A k \in 1 .. Len(s) : k # i => t[k] = s[k]
<1> DEFINE t == MarkFree(s, i)
<1>1. t = Flagged(s, i, FALSE)
    BY DEF MarkFree, Flagged
<1> HIDE DEF t
<1>2. /\ t \in Seq(SectorRecords) /\ Len(t) = Len(s) /\ t[i] = Sector(FALSE, s[i].units)
      /\ \A k \in 1 .. Len(s) : k # i => t[k] = s[k]
      /\ \A k \in 1 .. Len(s) : t[k].units = s[k].units
    BY <1>1, FlagShape
<1>3. DOMAIN s = 1 .. Len(s) /\ DOMAIN t = 1 .. Len(s) /\ Len(s) \in Nat
    BY <1>2, SectorSeq
<1>4. DataBytes(t) = DataBytes(s)
    BY <1>2, SameSums
<1>5. ~t[i].allocated
    BY <1>2 DEF Sector
<1>6. Filled(t)
    BY <1>2, <1>3 DEF Filled
<1>7. Hole(t, i)
    <2>1. ASSUME NEW k \in 1 .. Len(s) - 1, k # i, k + 1 # i
          PROVE  t[k].allocated \/ t[k + 1].allocated
        <3>1. s[k].allocated \/ s[k + 1].allocated
            BY DEF FreeJoined
        <3>2. k \in 1 .. Len(s) /\ k + 1 \in 1 .. Len(s)
            BY SectorSeq
        <3> QED BY <1>2, <2>1, <3>1, <3>2
    <2>2. i # Len(s) => t[Len(s)].allocated
        <3> SUFFICES ASSUME i # Len(s) PROVE t[Len(s)].allocated
            OBVIOUS
        <3>1. Len(s) \in Nat /\ i \in 1 .. Len(s) /\ i # Len(s)
            BY SectorSeq
        <3>2. Len(s) > 1 /\ Len(s) \in 1 .. Len(s)
            BY <3>1
        <3> QED BY <1>2, <3>2 DEF FreeJoined
    <2> QED BY <1>2, <1>5, <2>1, <2>2 DEF Hole
<1>8. Extents(t) = Extents(s) \ {Extent(s, i)}
    <2>1. \A k \in 1 .. Len(s) : Extent(t, k) = Extent(s, k)
        BY <1>2, <1>4 DEF Extent
    <2>2. Allocated(t) = Allocated(s) \ {i}
        BY <1>2, <1>3, <1>5 DEF Allocated
    <2>3. Allocated(s) \subseteq 1 .. Len(s)
        BY <1>3 DEF Allocated
    <2>4. \A k \in 1 .. Len(s) : k # i => Extent(s, k) # Extent(s, i)
        <3> SUFFICES ASSUME NEW k \in 1 .. Len(s), k # i PROVE Extent(s, k).at # Extent(s, i).at
            OBVIOUS
        <3> QED BY ExtentsDiffer DEF Extent
    <2> QED BY <2>1, <2>2, <2>3, <2>4 DEF Extents
<1>9. SpaceOf(t) = SpaceOf(s)
    BY <1>2, <1>4 DEF SpaceOf
<1> QED BY <1>2, <1>6, <1>7, <1>8, <1>9 DEF t

(* What kfree() does to the sectors of an arena: the piece of sector i is   *)
(* gone, the others are where they were, and free sectors are joined again. *)
LEMMA FreeEffect ==
    ASSUME NEW s \in Seq(SectorRecords), Filled(s), FreeJoined(s),
           NEW i \in 1 .. Len(s), s[i].allocated
    PROVE  LET t == arena_shrink_free_tail(Coalesce(s, i))
           IN /\ t \in Seq(SectorRecords) /\ Filled(t) /\ FreeJoined(t)
              /\ SpaceOf(t) <= SpaceOf(s)
              /\ Extents(t) = Extents(s) \ {Extent(s, i)}
<1> DEFINE f == MarkFree(s, i)
           p == JoinBefore(f, i)
           j == Joined(s, i)
           c == JoinAfter(p, j)
<1>1. Len(s) \in Nat /\ SpaceOf(s) \in Nat
    BY SectorSeq, SpaceTyped
<1>2. /\ f \in Seq(SectorRecords) /\ Len(f) = Len(s) /\ Filled(f)
      /\ SpaceOf(f) = SpaceOf(s)
      /\ Extents(f) = Extents(s) \ {Extent(s, i)}
      /\ Hole(f, i)
      /\ \A k \in 1 .. Len(s) : k # i => f[k] = s[k]
    BY MarkFreeEffect
<1> HIDE DEF f
<1>3. /\ Trimmed(p, f) /\ Hole(p, j)
      /\ j > 1 => p[j - 1].allocated
    <2>1. CASE FreeBefore(s, i)
        <3>1. i > 1 /\ ~s[i - 1].allocated /\ i - 1 \in 1 .. Len(s) /\ i - 1 # i
            BY <1>1, <2>1 DEF FreeBefore
        <3>2. ~f[i - 1].allocated /\ ~f[i].allocated
            BY <1>2, <3>1 DEF Hole
        <3>3. p = Join(f, i - 1) /\ j = i - 1
            BY <2>1, <3>1, <3>2 DEF FreeBefore, JoinBefore, Joined
        <3>4. i - 1 \in 1 .. Len(f) - 1 /\ (i - 1) + 1 = i
            BY <1>1, <1>2, <3>1
        <3> DEFINE a == i - 1
        <3>5. a \in 1 .. Len(f) - 1 /\ i \in {a, a + 1} /\ i = a + 1 /\ ~f[a].allocated
              /\ ~f[a + 1].allocated
            BY <3>2, <3>4
        <3> HIDE DEF a
        <3>6. Trimmed(Join(f, a), f)
            BY <1>2, <3>5, JoinEffect
        <3>7. Hole(Join(f, a), a) /\ (a > 1 => Join(f, a)[a - 1].allocated)
            BY <1>2, <3>5, HoleJoin
        <3>8. p = Join(f, a) /\ j = a
            BY <3>3 DEF a
        <3> QED BY <3>6, <3>7, <3>8
    <2>2. CASE ~FreeBefore(s, i)
        <3>1. i > 1 => i - 1 \in 1 .. Len(s) /\ i - 1 # i /\ s[i - 1].allocated
            BY <1>1, <2>2 DEF FreeBefore
        <3>2. i > 1 => f[i - 1].allocated
            BY <1>2, <3>1
        <3>3. ~FreeBefore(f, i)
            BY <3>2 DEF FreeBefore
        <3>4. p = f /\ j = i
            BY <2>2, <3>3 DEF JoinBefore, Joined
        <3>5. Trimmed(f, f)
            BY <1>1, <1>2 DEF Trimmed
        <3> HIDE DEF p, j
        <3> QED BY <1>2, <3>2, <3>4, <3>5
    <2> QED BY <2>1, <2>2
<1>4. p \in Seq(SectorRecords) /\ Filled(p)
    BY <1>3 DEF Trimmed
<1>5. Coalesce(s, i) = c
    BY DEF Coalesce, f
<1> HIDE DEF p, j
<1>6. j \in 1 .. Len(p) /\ ~p[j].allocated /\ Len(p) \in Nat
    BY <1>3, <1>4, SectorSeq DEF Hole
<1>7. /\ Trimmed(c, p) /\ Hole(c, j)
      /\ j > 1 => c[j - 1].allocated
      /\ j < Len(c) => c[j + 1].allocated
    <2>1. CASE FreeAfter(p, j)
        <3>1. j \in 1 .. Len(p) - 1 /\ ~p[j + 1].allocated /\ c = Join(p, j)
            BY <1>6, <2>1 DEF FreeAfter, JoinAfter
        <3> HIDE DEF c
        <3>2. Trimmed(Join(p, j), p)
            BY <1>4, <1>6, <3>1, JoinEffect
        <3>3. /\ Hole(Join(p, j), j)
              /\ j > 1 /\ p[j - 1].allocated => Join(p, j)[j - 1].allocated
              /\ j < Len(Join(p, j)) => Join(p, j)[j + 1].allocated
            BY <1>3, <1>4, <1>6, <3>1, HoleJoin
        <3> QED BY <1>3, <3>1, <3>2, <3>3
    <2>2. CASE ~FreeAfter(p, j)
        <3>1. c = p
            BY <2>2 DEF JoinAfter
        <3>2. Trimmed(p, p)
            BY <1>4, SpaceTyped DEF Trimmed
        <3>3. j < Len(p) => p[j + 1].allocated
            BY <2>2 DEF FreeAfter
        <3> HIDE DEF c
        <3> QED BY <1>3, <3>1, <3>2, <3>3
    <2> QED BY <2>1, <2>2
<1>8. Trimmed(c, f)
    BY <1>2, <1>3, <1>4, <1>7, TrimmedTwice
<1> HIDE DEF c
<1> DEFINE m == IF j = Len(c) /\ j > 1 THEN j - 1 ELSE Len(c)
           t == SubSeq(c, 1, m)
<1>9. c \in Seq(SectorRecords) /\ Filled(c) /\ Len(c) \in Nat /\ j \in 1 .. Len(c)
      /\ m \in 1 .. Len(c)
    <2>1. c \in Seq(SectorRecords) /\ Filled(c)
        BY <1>8 DEF Trimmed
    <2>2. Len(c) \in Nat /\ j \in 1 .. Len(c)
        BY <1>7, <2>1, SectorSeq DEF Hole
    <2> QED BY <2>1, <2>2
<1>10. m = 1 \/ c[m].allocated
    <2>1. CASE j = Len(c)
        BY <1>7, <1>9, <2>1
    <2>2. CASE j # Len(c)
        BY <1>7, <1>9, <2>2 DEF Hole
    <2> QED BY <2>1, <2>2
<1>11. \A k \in m + 1 .. Len(c) : ~c[k].allocated
    BY <1>7, <1>9 DEF Hole
<1>12. ASSUME NEW k \in 1 .. m - 1 PROVE c[k].allocated \/ c[k + 1].allocated
    <2>1. k \in 1 .. Len(c) - 1
        BY <1>9
    <2>2. CASE k = j
        BY <1>7, <1>9, <2>1, <2>2
    <2>3. CASE k + 1 = j
        BY <1>7, <1>9, <2>1, <2>3
    <2>4. CASE k # j /\ k + 1 # j
        BY <1>7, <2>1, <2>4 DEF Hole
    <2> QED BY <2>2, <2>3, <2>4
<1> HIDE DEF m
<1>13. Trimmed(t, c) /\ Len(t) = m /\ \A k \in 1 .. m : t[k] = c[k]
    BY <1>9, <1>11, PrefixEffect
<1>14. arena_shrink_free_tail(c) = t
    BY <1>9, <1>10, <1>11, ShrinkIs
<1> HIDE DEF t
<1>15. FreeJoined(t)
    <2>1. \A k \in 1 .. m - 1 : t[k].allocated \/ t[k + 1].allocated
        <3> SUFFICES ASSUME NEW k \in 1 .. m - 1 PROVE t[k].allocated \/ t[k + 1].allocated
            OBVIOUS
        <3>1. k \in 1 .. m /\ k + 1 \in 1 .. m
            BY <1>9
        <3> QED BY <1>12, <1>13, <3>1
    <2>2. m > 1 => t[m].allocated
        BY <1>9, <1>10, <1>13
    <2> QED BY <1>13, <2>1, <2>2 DEF FreeJoined
<1>16. Trimmed(t, f)
    BY <1>2, <1>8, <1>13, TrimmedTwice
<1>17. /\ t \in Seq(SectorRecords) /\ Filled(t) /\ FreeJoined(t)
       /\ SpaceOf(t) <= SpaceOf(s)
       /\ Extents(t) = Extents(s) \ {Extent(s, i)}
    BY <1>2, <1>15, <1>16 DEF Trimmed
<1> QED BY <1>5, <1>14, <1>17

-----------------------------------------------------------------------------
(* Runs of blocks, slots and calls. *)

LEMMA Slots == 0 \notin ArenaSlots /\ ArenaSlots \subseteq Nat
BY DEF ArenaSlots

LEMMA AskedTyped == Asked \subseteq 1 .. SizeMod - 1
<1>1. Sizes \subseteq 1 .. SizeMod - 1 /\ Counts \subseteq 1 .. SizeMod - 1 /\ SizeMod \in Nat
    BY Numbers
<1>2. ASSUME NEW n \in Counts, NEW m \in Sizes, (SizeMod - 1) \div n >= m
      PROVE  n * m \in 1 .. SizeMod - 1
    <2>1. n \in Nat \ {0} /\ m \in Nat \ {0} /\ SizeMod - 1 \in Nat
        BY <1>1
    <2>2. (SizeMod - 1) \div n \in Nat /\ n * ((SizeMod - 1) \div n) <= SizeMod - 1
        BY <2>1, Division
    <2> DEFINE q == (SizeMod - 1) \div n
    <2>3. q \in Nat /\ m <= q /\ n * q <= SizeMod - 1
        BY <1>2, <2>1, <2>2
    <2> HIDE DEF q
    <2>4. n * m <= n * q /\ n * m \in Nat /\ n * q \in Nat
        BY <2>1, <2>3, Scale
    <2>5. n * m # 0
        BY <2>1, ScaleStrict
    <2> QED BY <2>3, <2>4, <2>5, <1>1
<1> QED BY <1>1, <1>2 DEF Asked

(* A run is found by where it starts. *)
LEMMA RunFound ==
    ASSUME BlocksTyped, RunsApart, NEW r \in allocs, NEW q \in allocs
    PROVE  /\ At(r, q.start * BlockBytes) => r = q
           /\ q.start * BlockBytes \in Nat \ {0}
           /\ ~At(r, NULL)
           /\ \A base : At(r, base) /\ At(q, base) => r = q
<1>1. /\ r.start \in Nat \ {0} /\ q.start \in Nat \ {0} /\ r.count \in Nat \ {0}
         /\ q.count \in Nat \ {0}
    BY Numbers DEF BlocksTyped, Runs
<1>2. BlockBytes \in Nat \ {0}
    BY Numbers
<1>3. r.start * BlockBytes = q.start * BlockBytes => r.start = q.start
    BY <1>1, <1>2, ScaleStrict
<1>4. r.start = q.start => r = q
    BY <1>1 DEF RunsApart
<1>5. ASSUME NEW x \in Nat \ {0} PROVE x * BlockBytes \in Nat \ {0}
    <2>1. 0 * BlockBytes + BlockBytes <= x * BlockBytes
        BY <1>2, <1>5, ScaleStrict
    <2> QED BY <1>2, <2>1
<1>6. q.start * BlockBytes \in Nat \ {0} /\ r.start * BlockBytes \in Nat \ {0}
    BY <1>1, <1>5
<1> QED BY <1>3, <1>4, <1>6 DEF At, NULL

LEMMA CallHolds ==
    ASSUME NEW c, CallTyped(c)
    PROVE  /\ BaseOf(c) \in Nat /\ SlotOf(c) \in ArenaSlots \cup {NULL}
           /\ c.at \in {"idle", "blocks", "unreserve", "arena", "giveback", "grow", "copy"}
           /\ c.at = "idle" => c = Idle
           /\ c.at \in {"idle", "grow", "copy"} => BaseOf(c) = NULL /\ SlotOf(c) = NULL
BY DEF CallTyped, BaseOf, SlotOf, Idle, NULL

(* A step that moves no run, base or slot. *)
LEMMA Quiet ==
    ASSUME BlocksInv, BlocksTyped', allocs' = allocs,
           \A a \in ArenaSlots : /\ g_arenas'[a].base = g_arenas[a].base
                                 /\ g_arenas'[a].blocks = g_arenas[a].blocks
                                 /\ g_arenas'[a].in_use = g_arenas[a].in_use
                                 /\ a \in Arenas \/ g_arenas'[a] = g_arenas[a],
           \A t \in Threads : /\ BaseOf(call'[t]) = BaseOf(call[t])
                              /\ SlotOf(call'[t]) = SlotOf(call[t])
                              /\ call'[t].at = "arena" => call'[t] = call[t]
    PROVE  BlocksInv'
<1>1. Arenas' = Arenas
    BY DEF Arenas
<1>2. \A a \in ArenaSlots : (g_arenas[a] = ReservedArena <=> g_arenas'[a] = ReservedArena)
    <2>1. ReservedArena.base = NULL
        BY DEF ReservedArena, UnusedArena
    <2> QED BY <1>1, <2>1 DEF Arenas
<1>3. RunsApart'
    BY DEF BlocksInv, RunsApart
<1>4. ArenasStand'
    BY <1>1 DEF BlocksInv, ArenasStand, Arenas, At
<1>5. CallsStand'
    BY DEF BlocksInv, CallsStand, At
<1>6. BasesApart'
    BY <1>1 DEF BlocksInv, BasesApart, Arenas
<1>7. RunsHeld'
    BY <1>1 DEF BlocksInv, RunsHeld, Arenas, At
<1>8. SlotsHeld'
    <2>1. \A a \in ArenaSlots \ Arenas' : g_arenas'[a] \in {UnusedArena, ReservedArena}
        BY <1>1 DEF BlocksInv, SlotsHeld
    <2>2. \A t \in Threads : SlotOf(call'[t]) # NULL => g_arenas'[SlotOf(call'[t])] = ReservedArena
        <3>1. \A t \in Threads : SlotOf(call[t]) \in ArenaSlots \cup {NULL}
            BY CallHolds DEF BlocksInv, BlocksTyped
        <3> QED BY <1>2, <3>1 DEF BlocksInv, SlotsHeld
    <2>3. \A t, u \in Threads : t # u /\ SlotOf(call'[t]) # NULL
              => SlotOf(call'[t]) # SlotOf(call'[u])
        BY DEF BlocksInv, SlotsHeld
    <2>4. \A a \in ArenaSlots : g_arenas'[a] = ReservedArena
              => \E t \in Threads : SlotOf(call'[t]) = a
        BY <1>2 DEF BlocksInv, SlotsHeld
    <2>5. \A a \in Arenas' : g_arenas'[a].in_use
        BY <1>1 DEF BlocksInv, SlotsHeld, Arenas
    <2> QED BY <2>1, <2>2, <2>3, <2>4, <2>5 DEF SlotsHeld
<1> QED BY <1>3, <1>4, <1>5, <1>6, <1>7, <1>8 DEF BlocksInv

LEMMA ArenaPut ==
    ASSUME BlocksTyped, NEW a \in ArenaSlots, NEW x, Shaped(x),
           g_arenas' = [g_arenas EXCEPT ![a] = x]
    PROVE  /\ g_arenas'[a] = x
           /\ \A b \in ArenaSlots : b # a => g_arenas'[b] = g_arenas[b]
           /\ g_arenas' = [b \in ArenaSlots |-> g_arenas'[b]]
           /\ \A b \in ArenaSlots : Shaped(g_arenas'[b])
<1>1. g_arenas = [b \in ArenaSlots |-> g_arenas[b]]
    BY DEF BlocksTyped
<1>2. /\ g_arenas'[a] = x
      /\ \A b \in ArenaSlots : b # a => g_arenas'[b] = g_arenas[b]
      /\ g_arenas' = [b \in ArenaSlots |-> g_arenas'[b]]
    BY <1>1
<1> QED BY <1>2 DEF BlocksTyped

LEMMA Went ==
    ASSUME BlocksTyped, NEW t \in Threads, NEW c, CallTyped(c), call' = [call EXCEPT ![t] = c]
    PROVE  /\ call'[t] = c
           /\ \A u \in Threads : u # t => call'[u] = call[u]
           /\ call' = [u \in Threads |-> call'[u]]
           /\ \A u \in Threads : CallTyped(call'[u])
<1>1. call = [u \in Threads |-> call[u]]
    BY DEF BlocksTyped
<1>2. /\ call'[t] = c
      /\ \A u \in Threads : u # t => call'[u] = call[u]
      /\ call' = [u \in Threads |-> call'[u]]
    BY <1>1
<1> QED BY <1>2 DEF BlocksTyped

(* Where a kmalloc leaves its thread. *)
LEMMA Returned ==
    ASSUME BlocksTyped, NEW t \in Threads, NEW old,
           \/ Goto(t, Idle)
           \/ Goto(t, IF old = NULL THEN Idle ELSE [at |-> "copy", old |-> old])
    PROVE  /\ call'[t].at \in {"idle", "copy"} /\ BaseOf(call'[t]) = NULL /\ SlotOf(call'[t]) = NULL
           /\ \A u \in Threads : u # t => call'[u] = call[u]
           /\ call' = [u \in Threads |-> call'[u]]
           /\ \A u \in Threads : CallTyped(call'[u])
<1> DEFINE copy == [at |-> "copy", old |-> old]
<1>1. CallTyped(copy) /\ copy.at = "copy"
    BY DEF CallTyped
<1>2. CallTyped(Idle) /\ Idle.at = "idle"
    BY DEF CallTyped, Idle
<1> HIDE DEF copy
<1>3. PICK c \in {Idle, copy} : call' = [call EXCEPT ![t] = c]
    BY DEF Goto, copy
<1>4. CallTyped(c) /\ c.at \in {"idle", "copy"}
    BY <1>1, <1>2, <1>3
<1> QED BY <1>3, <1>4, Went, CallHolds

(* An arena whose sectors alone change. *)
Resectored(arena, sectors) == [arena EXCEPT !.sectors = sectors]

LEMMA ResectoredIs ==
    ASSUME NEW arena, Shaped(arena), NEW sectors
    PROVE  /\ Shaped(Resectored(arena, sectors))
           /\ Resectored(arena, sectors).base = arena.base
           /\ Resectored(arena, sectors).blocks = arena.blocks
           /\ Resectored(arena, sectors).in_use = arena.in_use
           /\ Resectored(arena, sectors).sectors = sectors
<1> DEFINE x == Resectored(arena, sectors)
<1>1. x = [in_use |-> arena.in_use, base |-> arena.base, blocks |-> arena.blocks,
           sectors |-> sectors]
    BY DEF Shaped, Resectored
<1> HIDE DEF x
<1>2. x.base = arena.base /\ x.blocks = arena.blocks /\ x.in_use = arena.in_use
      /\ x.sectors = sectors
    BY <1>1
<1>3. Shaped(x)
    BY <1>1, <1>2 DEF Shaped
<1> QED BY <1>2, <1>3 DEF x

(* A step of one thread that changes the sectors of one arena at most, and  *)
(* leaves the thread without base or slot.                                  *)
LEMMA SectorStep ==
    ASSUME BlocksInv, NEW t \in Threads,
           BaseOf(call[t]) = NULL, SlotOf(call[t]) = NULL,
           BaseOf(call'[t]) = NULL, SlotOf(call'[t]) = NULL, call'[t].at # "arena",
           \A u \in Threads : u # t => call'[u] = call[u],
           call' = [u \in Threads |-> call'[u]], \A u \in Threads : CallTyped(call'[u]),
           allocs' = allocs, fault' \in BOOLEAN,
           \/ g_arenas' = g_arenas
           \/ \E a \in Arenas : \E sectors :
                 g_arenas' = [g_arenas EXCEPT ![a] = Resectored(@, sectors)]
    PROVE  BlocksInv'
<1>1. BlocksTyped
    BY DEF BlocksInv
<1>2. /\ g_arenas' = [a \in ArenaSlots |-> g_arenas'[a]]
      /\ \A a \in ArenaSlots : /\ Shaped(g_arenas'[a])
                               /\ g_arenas'[a].base = g_arenas[a].base
                               /\ g_arenas'[a].blocks = g_arenas[a].blocks
                               /\ g_arenas'[a].in_use = g_arenas[a].in_use
                               /\ a \in Arenas \/ g_arenas'[a] = g_arenas[a]
    <2>1. CASE g_arenas' = g_arenas
        BY <1>1, <2>1 DEF BlocksTyped
    <2>2. ASSUME NEW a \in Arenas, NEW sectors,
                 g_arenas' = [g_arenas EXCEPT ![a] = Resectored(@, sectors)]
          PROVE  /\ g_arenas' = [b \in ArenaSlots |-> g_arenas'[b]]
                 /\ \A b \in ArenaSlots : /\ Shaped(g_arenas'[b])
                                          /\ g_arenas'[b].base = g_arenas[b].base
                                          /\ g_arenas'[b].blocks = g_arenas[b].blocks
                                          /\ g_arenas'[b].in_use = g_arenas[b].in_use
                                          /\ b \in Arenas \/ g_arenas'[b] = g_arenas[b]
        <3>1. a \in ArenaSlots /\ Shaped(g_arenas[a])
            BY <1>1 DEF Arenas, BlocksTyped
        <3> DEFINE x == Resectored(g_arenas[a], sectors)
        <3>2. Shaped(x) /\ x.base = g_arenas[a].base /\ x.blocks = g_arenas[a].blocks
              /\ x.in_use = g_arenas[a].in_use
            BY <3>1, ResectoredIs
        <3>3. g_arenas' = [g_arenas EXCEPT ![a] = x]
            BY <1>1, <2>2, <3>1 DEF BlocksTyped
        <3> HIDE DEF x
        <3>4. /\ g_arenas'[a] = x
              /\ \A b \in ArenaSlots : b # a => g_arenas'[b] = g_arenas[b]
              /\ g_arenas' = [b \in ArenaSlots |-> g_arenas'[b]]
              /\ \A b \in ArenaSlots : Shaped(g_arenas'[b])
            BY <1>1, <3>1, <3>2, <3>3, ArenaPut
        <3> QED BY <3>2, <3>4
    <2> QED BY <2>1, <2>2
<1>3. BlocksTyped'
    BY <1>1, <1>2 DEF BlocksTyped
<1>4. \A u \in Threads : /\ BaseOf(call'[u]) = BaseOf(call[u])
                         /\ SlotOf(call'[u]) = SlotOf(call[u])
                         /\ call'[u].at = "arena" => call'[u] = call[u]
    OBVIOUS
<1> QED BY <1>2, <1>3, <1>4, Quiet

LEMMA Unfounded ==
    ASSUME BlocksInv, NEW a \in ArenaSlots
    PROVE  /\ a \in Arenas <=> g_arenas[a].base # NULL
           /\ DOMAIN g_arenas[a].sectors # {} => a \in Arenas
           /\ a \notin Arenas => /\ g_arenas[a].sectors = <<>> /\ g_arenas[a].blocks = 0
                                 /\ g_arenas[a].base = NULL
           /\ ~g_arenas[a].in_use => g_arenas[a] = UnusedArena
           /\ g_arenas[a] = ReservedArena => a \notin Arenas
           /\ g_arenas[a] = UnusedArena => a \notin Arenas
<1>1. a \in Arenas <=> g_arenas[a].base # NULL
    BY DEF Arenas
<1>2. /\ a \notin Arenas => g_arenas[a] \in {UnusedArena, ReservedArena}
      /\ a \in Arenas => g_arenas[a].in_use
    BY DEF BlocksInv, SlotsHeld
<1>3. /\ \A x \in {UnusedArena, ReservedArena} : x.sectors = <<>> /\ x.blocks = 0 /\ x.base = NULL
      /\ ReservedArena.in_use
    BY DEF UnusedArena, ReservedArena
<1>4. DOMAIN <<>> = {}
    OBVIOUS
<1> QED BY <1>1, <1>2, <1>3, <1>4

LEMMA SlotShapes ==
    /\ Shaped(UnusedArena) /\ Shaped(ReservedArena) /\ ReservedArena # UnusedArena
    /\ UnusedArena.base = NULL /\ ReservedArena.base = NULL
    /\ ~UnusedArena.in_use /\ ReservedArena.in_use
<1> DEFINE r == [in_use |-> TRUE, base |-> NULL, blocks |-> 0, sectors |-> <<>>]
<1>1. ReservedArena = r
    <2>1. ASSUME NEW u, NEW x, u = [in_use |-> u.in_use, base |-> u.base, blocks |-> u.blocks,
                                    sectors |-> u.sectors]
          PROVE  [u EXCEPT !.in_use = x] = [in_use |-> x, base |-> u.base, blocks |-> u.blocks,
                                            sectors |-> u.sectors]
        BY <2>1
    <2>2. UnusedArena = [in_use |-> UnusedArena.in_use, base |-> UnusedArena.base,
                         blocks |-> UnusedArena.blocks, sectors |-> UnusedArena.sectors]
        BY DEF UnusedArena
    <2>3. UnusedArena.base = NULL /\ UnusedArena.blocks = 0 /\ UnusedArena.sectors = <<>>
        BY DEF UnusedArena
    <2> DEFINE u == UnusedArena
    <2>4. ReservedArena = [u EXCEPT !.in_use = TRUE]
        BY DEF ReservedArena
    <2>5. u = [in_use |-> u.in_use, base |-> u.base, blocks |-> u.blocks, sectors |-> u.sectors]
        BY <2>2
    <2> HIDE DEF u
    <2>6. ReservedArena = [in_use |-> TRUE, base |-> u.base, blocks |-> u.blocks,
                           sectors |-> u.sectors]
        BY <2>1, <2>4, <2>5
    <2> QED BY <2>3, <2>6 DEF u
<1>2. UnusedArena.in_use = FALSE /\ ReservedArena.in_use = TRUE
    BY <1>1 DEF UnusedArena
<1>3. Shaped(r) /\ r.base = NULL
    BY DEF Shaped, NULL
<1>4. Shaped(UnusedArena) /\ UnusedArena.base = NULL
    BY DEF Shaped, UnusedArena, NULL
<1> QED BY <1>1, <1>2, <1>3, <1>4

(* A thread reserves a slot for a new arena. *)
LEMMA ReserveStep ==
    ASSUME BlocksInv, NEW t \in Threads, NEW m \in ArenaSlots, g_arenas[m] = UnusedArena,
           BaseOf(call[t]) = NULL, SlotOf(call[t]) = NULL,
           NEW size \in Asked, NEW old,
           g_arenas' = [g_arenas EXCEPT ![m] = ReservedArena],
           Goto(t, [at |-> "blocks", slot |-> m, size |-> size, old |-> old]),
           allocs' = allocs, fault' \in BOOLEAN
    PROVE  BlocksInv'
<1> DEFINE c == [at |-> "blocks", slot |-> m, size |-> size, old |-> old]
<1>1. BlocksTyped
    BY DEF BlocksInv
<1>2. CallTyped(c) /\ BaseOf(c) = NULL /\ SlotOf(c) = m /\ c.at = "blocks"
    BY DEF CallTyped, BaseOf, SlotOf
<1> HIDE DEF c
<1>3. Shaped(ReservedArena) /\ ReservedArena.base = NULL /\ ReservedArena # UnusedArena
    BY SlotShapes
<1>4. /\ g_arenas'[m] = ReservedArena
      /\ \A b \in ArenaSlots : b # m => g_arenas'[b] = g_arenas[b]
      /\ g_arenas' = [b \in ArenaSlots |-> g_arenas'[b]]
      /\ \A b \in ArenaSlots : Shaped(g_arenas'[b])
    BY <1>1, <1>3, ArenaPut
<1>5. /\ call'[t] = c
      /\ \A u \in Threads : u # t => call'[u] = call[u]
      /\ call' = [u \in Threads |-> call'[u]]
      /\ \A u \in Threads : CallTyped(call'[u])
    <2>1. call' = [call EXCEPT ![t] = c]
        BY DEF Goto, c
    <2> QED BY <1>1, <1>2, <2>1, Went
<1>6. BlocksTyped'
    BY <1>1, <1>4, <1>5 DEF BlocksTyped
<1>7. m \notin Arenas /\ m # NULL
    BY Unfounded, Slots DEF NULL
<1>8. Arenas' = Arenas /\ \A a \in Arenas : g_arenas'[a] = g_arenas[a] /\ a \in ArenaSlots
    BY <1>3, <1>4, <1>7 DEF Arenas
<1>9. \A u \in Threads : BaseOf(call'[u]) = BaseOf(call[u])
      /\ (call'[u].at = "arena" => call'[u] = call[u])
    BY <1>2, <1>5
<1>10. \A u \in Threads : SlotOf(call[u]) # m
    BY <1>3, <1>7 DEF BlocksInv, SlotsHeld
<1>11. RunsApart'
    BY DEF BlocksInv, RunsApart
<1>12. ArenasStand'
    BY <1>8 DEF BlocksInv, ArenasStand, At
<1>13. CallsStand'
    BY <1>9 DEF BlocksInv, CallsStand, At
<1>14. BasesApart'
    BY <1>8, <1>9 DEF BlocksInv, BasesApart
<1>15. RunsHeld'
    BY <1>8, <1>9 DEF BlocksInv, RunsHeld, At
<1>16. SlotsHeld'
    <2>1. \A a \in ArenaSlots \ Arenas' : g_arenas'[a] \in {UnusedArena, ReservedArena}
        BY <1>4, <1>8 DEF BlocksInv, SlotsHeld
    <2>2. \A a \in Arenas' : g_arenas'[a].in_use
        BY <1>8 DEF BlocksInv, SlotsHeld
    <2>3. \A u \in Threads : SlotOf(call'[u]) # NULL => g_arenas'[SlotOf(call'[u])] = ReservedArena
        <3>1. \A u \in Threads : SlotOf(call[u]) \in ArenaSlots \cup {NULL}
            BY <1>1, CallHolds DEF BlocksTyped
        <3> QED BY <1>2, <1>4, <1>5, <1>10, <3>1 DEF BlocksInv, SlotsHeld
    <2>4. \A u, v \in Threads : u # v /\ SlotOf(call'[u]) # NULL
              => SlotOf(call'[u]) # SlotOf(call'[v])
        BY <1>2, <1>5, <1>7, <1>10 DEF BlocksInv, SlotsHeld
    <2>5. \A a \in ArenaSlots : g_arenas'[a] = ReservedArena
              => \E u \in Threads : SlotOf(call'[u]) = a
        <3> SUFFICES ASSUME NEW a \in ArenaSlots, g_arenas'[a] = ReservedArena
                     PROVE  \E u \in Threads : SlotOf(call'[u]) = a
            OBVIOUS
        <3>1. CASE a = m
            BY <1>2, <1>5, <3>1
        <3>2. CASE a # m
            <4>1. PICK u \in Threads : SlotOf(call[u]) = a
                BY <1>4, <3>2 DEF BlocksInv, SlotsHeld
            <4>2. u # t
                BY <4>1, Slots DEF NULL
            <4> QED BY <1>5, <4>1, <4>2
        <3> QED BY <3>1, <3>2
    <2> QED BY <2>1, <2>2, <2>3, <2>4, <2>5 DEF SlotsHeld
<1> QED BY <1>6, <1>11, <1>12, <1>13, <1>14, <1>15, <1>16 DEF BlocksInv

(* A locked section of kmalloc(), in which a thread that holds neither base *)
(* nor slot takes a sector, fails, or reserves a slot.                      *)
LEMMA SectionBlocks ==
    ASSUME BlocksInv, NEW t \in Threads, NEW size \in Asked, NEW old,
           BaseOf(call[t]) = NULL, SlotOf(call[t]) = NULL,
           MallocSection(t, size, old)
    PROVE  BlocksInv'
<1> DEFINE bytes == align_up(size)
           units == bytes \div Align
           Unused == {a \in ArenaSlots : ~g_arenas[a].in_use}
<1>1. BlocksTyped /\ allocs' = allocs
    BY DEF BlocksInv, MallocSection
<1>2. ASSUME NEW a \in ArenaSlots, NEW i \in DOMAIN g_arenas[a].sectors, NEW ptr,
             g_arenas' = [g_arenas EXCEPT ![a].sectors[i].allocated = TRUE],
             Returns(t, ptr, size, old), UNCHANGED fault
      PROVE  BlocksInv'
    <2>1. a \in Arenas
        BY Unfounded
    <2>2. g_arenas' = [g_arenas EXCEPT ![a] = Resectored(@, Flagged(@.sectors, i, TRUE))]
        BY <1>2 DEF Resectored, Flagged
    <2>3. Goto(t, IF old = NULL THEN Idle ELSE [at |-> "copy", old |-> old])
        BY <1>2 DEF Returns
    <2>4. /\ call'[t].at \in {"idle", "copy"} /\ BaseOf(call'[t]) = NULL /\ SlotOf(call'[t]) = NULL
          /\ \A u \in Threads : u # t => call'[u] = call[u]
          /\ call' = [u \in Threads |-> call'[u]]
          /\ \A u \in Threads : CallTyped(call'[u])
        BY <1>1, <2>3, Returned
    <2>5. \E b \in Arenas : \E sectors :
              g_arenas' = [g_arenas EXCEPT ![b] = Resectored(@, sectors)]
        <3>1. g_arenas' = [g_arenas EXCEPT ![a] = Resectored(@,
                                Flagged(g_arenas[a].sectors, i, TRUE))]
            BY <2>2
        <3> QED BY <2>1, <3>1
    <2>6. fault' \in BOOLEAN
        BY <1>1, <1>2 DEF BlocksTyped
    <2> QED BY <1>1, <2>4, <2>5, <2>6, SectorStep
<1>3. ASSUME NEW a \in ArenaSlots, g_arenas[a].base # NULL, NEW ptr,
             g_arenas' = [g_arenas EXCEPT ![a] = arena_append_sector(@, units)],
             Returns(t, ptr, size, old), UNCHANGED fault
      PROVE  BlocksInv'
    <2>1. a \in Arenas
        BY <1>3 DEF Arenas
    <2>2. PICK sectors : g_arenas' = [g_arenas EXCEPT ![a] = Resectored(@, sectors)]
        BY <1>3 DEF arena_append_sector, Resectored
    <2>3. Goto(t, IF old = NULL THEN Idle ELSE [at |-> "copy", old |-> old])
        BY <1>3 DEF Returns
    <2>4. /\ call'[t].at \in {"idle", "copy"} /\ BaseOf(call'[t]) = NULL /\ SlotOf(call'[t]) = NULL
          /\ \A u \in Threads : u # t => call'[u] = call[u]
          /\ call' = [u \in Threads |-> call'[u]]
          /\ \A u \in Threads : CallTyped(call'[u])
        BY <1>1, <2>3, Returned
    <2>5. fault' \in BOOLEAN
        BY <1>1, <1>3 DEF BlocksTyped
    <2> QED BY <1>1, <2>1, <2>2, <2>4, <2>5, SectorStep
<1>4. ASSUME fault' = TRUE, UNCHANGED <<g_arenas, live, call>>
      PROVE  BlocksInv'
    <2>1. BlocksTyped'
        BY <1>1, <1>4 DEF BlocksTyped
    <2> QED BY <1>1, <1>4, <2>1, Quiet DEF BlocksTyped
<1>5. ASSUME Unused # {},
             g_arenas' = [g_arenas EXCEPT ![Min(Unused)] = ReservedArena],
             Goto(t, [at |-> "blocks", slot |-> Min(Unused), size |-> size, old |-> old]),
             UNCHANGED <<live, fault>>
      PROVE  BlocksInv'
    <2>1. Unused \in SUBSET Nat
        BY Slots
    <2> DEFINE m == Min(Unused)
    <2>2. m \in Unused
        <3>1. \E x \in Unused : \A y \in Unused : x <= y
            BY <1>5, <2>1, LeastNat
        <3> HIDE DEF Unused
        <3> QED BY <3>1 DEF Min
    <2>3. g_arenas[m] = UnusedArena /\ m \in ArenaSlots
        <3> HIDE DEF m
        <3> QED BY <2>2, Unfounded
    <2>4. fault' \in BOOLEAN
        BY <1>1, <1>5 DEF BlocksTyped
    <2>5. /\ g_arenas' = [g_arenas EXCEPT ![m] = ReservedArena]
          /\ Goto(t, [at |-> "blocks", slot |-> m, size |-> size, old |-> old])
        BY <1>5
    <2> HIDE DEF m
    <2> QED BY <1>1, <2>3, <2>4, <2>5, ReserveStep
<1>6. ASSUME Fails(t), UNCHANGED <<g_arenas, fault>>
      PROVE  BlocksInv'
    <2>1. Goto(t, Idle)
        BY <1>6 DEF Fails
    <2>2. /\ call'[t].at \in {"idle", "copy"} /\ BaseOf(call'[t]) = NULL /\ SlotOf(call'[t]) = NULL
          /\ \A u \in Threads : u # t => call'[u] = call[u]
          /\ call' = [u \in Threads |-> call'[u]]
          /\ \A u \in Threads : CallTyped(call'[u])
        BY <1>1, <2>1, Returned
    <2>3. fault' \in BOOLEAN
        BY <1>1, <1>6 DEF BlocksTyped
    <2> QED BY <1>1, <1>6, <2>2, <2>3, SectorStep
<1> QED BY <1>2, <1>3, <1>4, <1>5, <1>6 DEF MallocSection

(* A thread gives up the slot it has reserved. *)
LEMMA SlotStep ==
    ASSUME BlocksInv, NEW t \in Threads, NEW m \in ArenaSlots, SlotOf(call[t]) = m,
           SlotOf(call'[t]) = NULL, BaseOf(call'[t]) = BaseOf(call[t]), call'[t].at # "arena",
           \A u \in Threads : u # t => call'[u] = call[u],
           call' = [u \in Threads |-> call'[u]], \A u \in Threads : CallTyped(call'[u]),
           g_arenas' = [g_arenas EXCEPT ![m] = UnusedArena],
           allocs' = allocs, fault' \in BOOLEAN
    PROVE  BlocksInv'
<1>1. BlocksTyped
    BY DEF BlocksInv
<1>2. m # NULL
    BY Slots DEF NULL
<1>3. g_arenas[m] = ReservedArena /\ m \notin Arenas
    BY <1>2, Unfounded DEF BlocksInv, SlotsHeld
<1>4. /\ g_arenas'[m] = UnusedArena
      /\ \A b \in ArenaSlots : b # m => g_arenas'[b] = g_arenas[b]
      /\ g_arenas' = [b \in ArenaSlots |-> g_arenas'[b]]
      /\ \A b \in ArenaSlots : Shaped(g_arenas'[b])
    BY <1>1, SlotShapes, ArenaPut
<1>5. BlocksTyped'
    BY <1>1, <1>4 DEF BlocksTyped
<1>6. Arenas' = Arenas /\ \A a \in Arenas : g_arenas'[a] = g_arenas[a] /\ a \in ArenaSlots
    BY <1>3, <1>4, SlotShapes DEF Arenas
<1>7. \A u \in Threads : BaseOf(call'[u]) = BaseOf(call[u])
      /\ (call'[u].at = "arena" => call'[u] = call[u])
    OBVIOUS
<1>8. RunsApart'
    BY DEF BlocksInv, RunsApart
<1>9. ArenasStand'
    BY <1>6 DEF BlocksInv, ArenasStand, At
<1>10. CallsStand'
    BY <1>7 DEF BlocksInv, CallsStand, At
<1>11. BasesApart'
    BY <1>6, <1>7 DEF BlocksInv, BasesApart
<1>12. RunsHeld'
    BY <1>6, <1>7 DEF BlocksInv, RunsHeld, At
<1>13. SlotsHeld'
    <2>1. \A a \in ArenaSlots \ Arenas' : g_arenas'[a] \in {UnusedArena, ReservedArena}
        BY <1>4, <1>6 DEF BlocksInv, SlotsHeld
    <2>2. \A a \in Arenas' : g_arenas'[a].in_use
        BY <1>6 DEF BlocksInv, SlotsHeld
    <2>3. \A u \in Threads : SlotOf(call'[u]) # NULL => g_arenas'[SlotOf(call'[u])] = ReservedArena
        <3>1. \A u \in Threads : SlotOf(call[u]) \in ArenaSlots \cup {NULL}
            BY <1>1, CallHolds DEF BlocksTyped
        <3>2. \A u \in Threads : u # t => SlotOf(call[u]) # m
            BY <1>2 DEF BlocksInv, SlotsHeld
        <3> QED BY <1>4, <3>1, <3>2 DEF BlocksInv, SlotsHeld
    <2>4. \A u, v \in Threads : u # v /\ SlotOf(call'[u]) # NULL
              => SlotOf(call'[u]) # SlotOf(call'[v])
        BY DEF BlocksInv, SlotsHeld
    <2>5. \A a \in ArenaSlots : g_arenas'[a] = ReservedArena
              => \E u \in Threads : SlotOf(call'[u]) = a
        <3> SUFFICES ASSUME NEW a \in ArenaSlots, g_arenas'[a] = ReservedArena
                     PROVE  \E u \in Threads : SlotOf(call'[u]) = a
            OBVIOUS
        <3>1. a # m
            BY <1>4, SlotShapes
        <3>2. PICK u \in Threads : SlotOf(call[u]) = a
            BY <1>4, <3>1 DEF BlocksInv, SlotsHeld
        <3>3. u # t
            BY <3>1, <3>2
        <3> QED BY <3>2, <3>3
    <2> QED BY <2>1, <2>2, <2>3, <2>4, <2>5 DEF SlotsHeld
<1> QED BY <1>5, <1>8, <1>9, <1>10, <1>11, <1>12, <1>13 DEF BlocksInv

(* The slot a thread has reserved becomes an arena on the run it holds. *)
LEMMA FoundStep ==
    ASSUME BlocksInv, NEW t \in Threads, NEW m \in ArenaSlots, call[t].at = "arena",
           SlotOf(call[t]) = m, BaseOf(call[t]) # NULL,
           NEW x, Shaped(x), x.in_use, x.base = BaseOf(call[t]), x.blocks = call[t].blocks,
           SlotOf(call'[t]) = NULL, BaseOf(call'[t]) = NULL, call'[t].at # "arena",
           \A u \in Threads : u # t => call'[u] = call[u],
           call' = [u \in Threads |-> call'[u]], \A u \in Threads : CallTyped(call'[u]),
           g_arenas' = [g_arenas EXCEPT ![m] = x],
           allocs' = allocs, fault' \in BOOLEAN
    PROVE  BlocksInv'
<1>1. BlocksTyped
    BY DEF BlocksInv
<1>2. m # NULL
    BY Slots DEF NULL
<1>3. g_arenas[m] = ReservedArena /\ m \notin Arenas
    BY <1>2, Unfounded DEF BlocksInv, SlotsHeld
<1>4. /\ g_arenas'[m] = x
      /\ \A b \in ArenaSlots : b # m => g_arenas'[b] = g_arenas[b]
      /\ g_arenas' = [b \in ArenaSlots |-> g_arenas'[b]]
      /\ \A b \in ArenaSlots : Shaped(g_arenas'[b])
    BY <1>1, ArenaPut
<1>5. BlocksTyped'
    BY <1>1, <1>4 DEF BlocksTyped
<1>6. /\ Arenas' = Arenas \cup {m}
      /\ \A a \in Arenas : g_arenas'[a] = g_arenas[a] /\ a \in ArenaSlots /\ a # m
    BY <1>3, <1>4 DEF Arenas
<1>7. \A u \in Threads : call'[u].at = "arena" => call'[u] = call[u]
    OBVIOUS
<1>8. RunsApart'
    BY DEF BlocksInv, RunsApart
<1>9. ArenasStand'
    <2>1. \E r \in allocs : At(r, x.base) /\ r.count = x.blocks
        BY DEF BlocksInv, CallsStand
    <2> QED BY <1>4, <1>6, <2>1 DEF BlocksInv, ArenasStand, At
<1>10. CallsStand'
    BY <1>7 DEF BlocksInv, CallsStand, At
<1>11. BasesApart'
    <2>1. \A a, b \in Arenas' : a # b => g_arenas'[a].base # g_arenas'[b].base
        BY <1>4, <1>6 DEF BlocksInv, BasesApart
    <2>2. \A a \in Arenas' : \A u \in Threads : g_arenas'[a].base # BaseOf(call'[u])
        <3>1. \A u \in Threads : x.base # BaseOf(call'[u])
            BY DEF BlocksInv, BasesApart
        <3>2. \A a \in Arenas : g_arenas[a].base # NULL
            BY DEF Arenas
        <3> QED BY <1>4, <1>6, <3>1, <3>2 DEF BlocksInv, BasesApart
    <2>3. \A u, v \in Threads : u # v /\ BaseOf(call'[u]) # NULL
              => BaseOf(call'[u]) # BaseOf(call'[v])
        BY DEF BlocksInv, BasesApart
    <2> QED BY <2>1, <2>2, <2>3 DEF BasesApart
<1>12. RunsHeld'
    <2> SUFFICES ASSUME NEW r \in allocs
                 PROVE  \/ \E a \in Arenas' : At(r, g_arenas'[a].base)
                        \/ \E u \in Threads : At(r, BaseOf(call'[u]))
        BY DEF RunsHeld, At
    <2>1. CASE \E a \in Arenas : At(r, g_arenas[a].base)
        BY <1>6, <2>1
    <2>2. ASSUME NEW u \in Threads, At(r, BaseOf(call[u]))
          PROVE  \/ \E a \in Arenas' : At(r, g_arenas'[a].base)
                 \/ \E v \in Threads : At(r, BaseOf(call'[v]))
        BY <1>4, <1>6, <2>2
    <2> QED BY <2>1, <2>2 DEF BlocksInv, RunsHeld
<1>13. SlotsHeld'
    <2>1. \A a \in ArenaSlots \ Arenas' : g_arenas'[a] \in {UnusedArena, ReservedArena}
        BY <1>4, <1>6 DEF BlocksInv, SlotsHeld
    <2>2. \A a \in Arenas' : g_arenas'[a].in_use
        BY <1>4, <1>6 DEF BlocksInv, SlotsHeld
    <2>3. \A u \in Threads : SlotOf(call'[u]) # NULL => g_arenas'[SlotOf(call'[u])] = ReservedArena
        <3>1. \A u \in Threads : SlotOf(call[u]) \in ArenaSlots \cup {NULL}
            BY <1>1, CallHolds DEF BlocksTyped
        <3>2. \A u \in Threads : u # t => SlotOf(call[u]) # m
            BY <1>2 DEF BlocksInv, SlotsHeld
        <3> QED BY <1>4, <3>1, <3>2 DEF BlocksInv, SlotsHeld
    <2>4. \A u, v \in Threads : u # v /\ SlotOf(call'[u]) # NULL
              => SlotOf(call'[u]) # SlotOf(call'[v])
        BY DEF BlocksInv, SlotsHeld
    <2>5. \A a \in ArenaSlots : g_arenas'[a] = ReservedArena
              => \E u \in Threads : SlotOf(call'[u]) = a
        <3> SUFFICES ASSUME NEW a \in ArenaSlots, g_arenas'[a] = ReservedArena
                     PROVE  \E u \in Threads : SlotOf(call'[u]) = a
            OBVIOUS
        <3>1. a # m
            BY <1>4, SlotShapes
        <3>2. PICK u \in Threads : SlotOf(call[u]) = a
            BY <1>4, <3>1 DEF BlocksInv, SlotsHeld
        <3>3. u # t
            BY <3>1, <3>2
        <3> QED BY <3>2, <3>3
    <2> QED BY <2>1, <2>2, <2>3, <2>4, <2>5 DEF SlotsHeld
<1> QED BY <1>5, <1>8, <1>9, <1>10, <1>11, <1>12, <1>13 DEF BlocksInv

(* A thread that has reserved a slot takes a run for it. *)
LEMMA TakenStep ==
    ASSUME BlocksInv, NEW t \in Threads, BaseOf(call[t]) = NULL,
           NEW r \in Runs, r.start + r.count <= HeapBlocks + 1,
           \A q \in allocs : r.start + r.count <= q.start \/ q.start + q.count <= r.start,
           SlotOf(call'[t]) = SlotOf(call[t]), call'[t].at = "arena",
           BaseOf(call'[t]) = r.start * BlockBytes, call'[t].blocks = r.count,
           \A u \in Threads : u # t => call'[u] = call[u],
           call' = [u \in Threads |-> call'[u]], \A u \in Threads : CallTyped(call'[u]),
           allocs' = allocs \cup {r}, g_arenas' = g_arenas, fault' \in BOOLEAN
    PROVE  BlocksInv'
<1>1. BlocksTyped /\ BlocksTyped'
    BY DEF BlocksInv, BlocksTyped
<1>2. RunsApart'
    BY DEF BlocksInv, RunsApart
<1> DEFINE base == r.start * BlockBytes
<1>3. At(r, base) /\ base # NULL /\ \A q \in allocs : ~At(q, base)
    <2>1. \A q \in allocs' : (At(q, base) => q = r) /\ base \in Nat \ {0}
        <3> SUFFICES ASSUME NEW q \in allocs' PROVE (At(q, base) => q = r) /\ base \in Nat \ {0}
            OBVIOUS
        <3>1. /\ q.start \in Nat \ {0} /\ r.start \in Nat \ {0} /\ q.count \in Nat \ {0}
                 /\ r.count \in Nat \ {0}
            BY <1>1 DEF BlocksTyped, Runs
        <3>2. q = r \/ q.start # r.start
            BY <1>2, <3>1 DEF RunsApart
        <3>3. BlockBytes \in Nat \ {0}
            BY Numbers
        <3>4. q.start * BlockBytes = r.start * BlockBytes => q.start = r.start
            BY <3>1, <3>3, ScaleStrict
        <3>5. r.start * BlockBytes \in Nat \ {0}
            BY <3>1, <3>3, ScaleStrict
        <3> QED BY <3>2, <3>4, <3>5 DEF At
    <2>2. \A q \in allocs : q # r
        BY <1>1 DEF BlocksTyped, Runs
    <2> QED BY <2>1, <2>2 DEF At, NULL
<1> HIDE DEF base
<1>4. Arenas' = Arenas
    BY DEF Arenas
<1>5. \A a \in Arenas : g_arenas[a].base # base
    BY <1>3 DEF BlocksInv, ArenasStand
<1>6. \A u \in Threads : BaseOf(call[u]) # base
    BY <1>3 DEF BlocksInv, CallsStand
<1>7. ArenasStand'
    BY <1>4 DEF BlocksInv, ArenasStand, At
<1>8. CallsStand'
    <2> SUFFICES ASSUME NEW u \in Threads, BaseOf(call'[u]) # NULL
                 PROVE  \E q \in allocs' : At(q, BaseOf(call'[u]))
                        /\ (call'[u].at = "arena" => q.count = call'[u].blocks)
        BY DEF CallsStand, At
    <2>1. CASE u = t
        BY <1>3, <2>1 DEF base
    <2>2. CASE u # t
        BY <2>2 DEF BlocksInv, CallsStand
    <2> QED BY <2>1, <2>2
<1>9. BasesApart'
    <2>1. BaseOf(call'[t]) = base
        BY DEF base
    <2>2. \A a, b \in Arenas' : a # b => g_arenas'[a].base # g_arenas'[b].base
        BY <1>4 DEF BlocksInv, BasesApart
    <2>3. \A a \in Arenas' : \A u \in Threads : g_arenas'[a].base # BaseOf(call'[u])
        BY <1>4, <1>5, <2>1 DEF BlocksInv, BasesApart
    <2>4. \A u, v \in Threads : u # v /\ BaseOf(call'[u]) # NULL
              => BaseOf(call'[u]) # BaseOf(call'[v])
        BY <1>6, <2>1 DEF BlocksInv, BasesApart
    <2> QED BY <2>2, <2>3, <2>4 DEF BasesApart
<1>10. RunsHeld'
    <2> SUFFICES ASSUME NEW q \in allocs'
                 PROVE  \/ \E a \in Arenas : At(q, g_arenas[a].base)
                        \/ \E u \in Threads : At(q, BaseOf(call'[u]))
        BY <1>4 DEF RunsHeld, At
    <2>1. CASE q = r
        BY <1>3, <2>1 DEF base
    <2>2. ASSUME q \in allocs, NEW u \in Threads, At(q, BaseOf(call[u]))
          PROVE  \E v \in Threads : At(q, BaseOf(call'[v]))
        <3>1. u # t
            BY <1>1, <2>2, RunFound DEF BlocksInv
        <3> QED BY <2>2, <3>1
    <2> QED BY <2>1, <2>2 DEF BlocksInv, RunsHeld
<1>11. SlotsHeld'
    <2>1. \A u \in Threads : SlotOf(call'[u]) = SlotOf(call[u])
        OBVIOUS
    <2> QED BY <1>4, <2>1 DEF BlocksInv, SlotsHeld
<1> QED BY <1>1, <1>2, <1>7, <1>8, <1>9, <1>10, <1>11 DEF BlocksInv

(* A run leaves the pool together with the one thing that stood on it.      *)
LEMMA ReleaseRuns ==
    ASSUME BlocksInv, NEW base, base # NULL, allocs' = Without(base)
    PROVE  /\ allocs' \subseteq allocs /\ RunsApart' /\ \A r \in allocs' : ~At(r, base)
           /\ \A r \in allocs : ~At(r, base) => r \in allocs'
BY DEF Without, At, BlocksInv, RunsApart

(* A thread gives back the run it holds. *)
LEMMA GivenStep ==
    ASSUME BlocksInv, NEW t \in Threads, BaseOf(call[t]) # NULL, allocs' = Without(BaseOf(call[t])),
           SlotOf(call[t]) = NULL, SlotOf(call'[t]) = NULL, BaseOf(call'[t]) = NULL,
           \A u \in Threads : u # t => call'[u] = call[u],
           call' = [u \in Threads |-> call'[u]], \A u \in Threads : CallTyped(call'[u]),
           g_arenas' = g_arenas, fault' \in BOOLEAN
    PROVE  BlocksInv'
<1> DEFINE base == BaseOf(call[t])
<1>1. /\ allocs' \subseteq allocs /\ RunsApart' /\ \A r \in allocs' : ~At(r, base)
      /\ \A r \in allocs : ~At(r, base) => r \in allocs'
    BY ReleaseRuns
<1>2. BlocksTyped'
    BY <1>1 DEF BlocksInv, BlocksTyped
<1>3. Arenas' = Arenas
    BY DEF Arenas
<1>4. /\ \A a \in Arenas : g_arenas[a].base # base
      /\ \A u \in Threads : u # t => BaseOf(call[u]) # base
    BY DEF BlocksInv, BasesApart
<1>5. base # NULL
    OBVIOUS
<1>6. ArenasStand'
    <2> SUFFICES ASSUME NEW a \in Arenas
                 PROVE  \E r \in allocs' : At(r, g_arenas[a].base) /\ r.count = g_arenas[a].blocks
        BY <1>3 DEF ArenasStand, At
    <2>1. PICK r \in allocs : At(r, g_arenas[a].base) /\ r.count = g_arenas[a].blocks
        BY DEF BlocksInv, ArenasStand
    <2>2. ~At(r, base)
        BY <1>4, <2>1 DEF At
    <2> QED BY <1>1, <2>1, <2>2
<1>7. CallsStand'
    <2> SUFFICES ASSUME NEW u \in Threads, BaseOf(call'[u]) # NULL
                 PROVE  \E r \in allocs' : At(r, BaseOf(call'[u]))
                        /\ (call'[u].at = "arena" => r.count = call'[u].blocks)
        BY DEF CallsStand, At
    <2>1. u # t /\ call'[u] = call[u]
        OBVIOUS
    <2>2. PICK r \in allocs : At(r, BaseOf(call[u]))
               /\ (call[u].at = "arena" => r.count = call[u].blocks)
        BY <2>1 DEF BlocksInv, CallsStand
    <2>3. ~At(r, base)
        BY <1>4, <2>1, <2>2 DEF At
    <2> QED BY <1>1, <2>1, <2>2, <2>3
<1> HIDE DEF base
<1>8. BasesApart'
    <2>1. \A a, b \in Arenas' : a # b => g_arenas'[a].base # g_arenas'[b].base
        BY <1>3 DEF BlocksInv, BasesApart
    <2>2. \A a \in Arenas' : \A u \in Threads : g_arenas'[a].base # BaseOf(call'[u])
        BY <1>3 DEF BlocksInv, BasesApart, Arenas
    <2>3. \A u, v \in Threads : u # v /\ BaseOf(call'[u]) # NULL
              => BaseOf(call'[u]) # BaseOf(call'[v])
        BY DEF BlocksInv, BasesApart
    <2> QED BY <2>1, <2>2, <2>3 DEF BasesApart
<1>9. RunsHeld'
    <2> SUFFICES ASSUME NEW r \in allocs'
                 PROVE  \/ \E a \in Arenas : At(r, g_arenas[a].base)
                        \/ \E u \in Threads : At(r, BaseOf(call'[u]))
        BY <1>3 DEF RunsHeld, At
    <2>1. r \in allocs /\ ~At(r, base)
        BY <1>1
    <2>2. ASSUME NEW u \in Threads, At(r, BaseOf(call[u]))
          PROVE  \E v \in Threads : At(r, BaseOf(call'[v]))
        <3>1. u # t
            BY <2>1, <2>2 DEF base
        <3> QED BY <2>2, <3>1
    <2> QED BY <2>1, <2>2 DEF BlocksInv, RunsHeld
<1>10. SlotsHeld'
    <2>1. \A u \in Threads : SlotOf(call'[u]) = SlotOf(call[u])
        OBVIOUS
    <2> QED BY <1>3, <2>1 DEF BlocksInv, SlotsHeld
<1> QED BY <1>1, <1>2, <1>6, <1>7, <1>8, <1>9, <1>10 DEF BlocksInv

(* An empty arena is given up with the run it stands on. *)
LEMMA GoneStep ==
    ASSUME BlocksInv, NEW t \in Threads, NEW a \in Arenas,
           BaseOf(call[t]) = NULL, SlotOf(call[t]) = NULL,
           BaseOf(call'[t]) = NULL, SlotOf(call'[t]) = NULL, call'[t].at # "arena",
           \A u \in Threads : u # t => call'[u] = call[u],
           call' = [u \in Threads |-> call'[u]], \A u \in Threads : CallTyped(call'[u]),
           g_arenas' = [g_arenas EXCEPT ![a] = UnusedArena],
           allocs' = Without(g_arenas[a].base), fault' \in BOOLEAN
    PROVE  BlocksInv'
<1> DEFINE base == g_arenas[a].base
<1>1. BlocksTyped /\ a \in ArenaSlots /\ base # NULL
    BY DEF BlocksInv, Arenas
<1>2. /\ allocs' \subseteq allocs /\ RunsApart' /\ \A r \in allocs' : ~At(r, base)
      /\ \A r \in allocs : ~At(r, base) => r \in allocs'
    BY <1>1, ReleaseRuns
<1>3. /\ \A b \in Arenas : b # a => g_arenas[b].base # base
      /\ \A u \in Threads : BaseOf(call[u]) # base
    BY DEF BlocksInv, BasesApart
<1>4. /\ g_arenas'[a] = UnusedArena
      /\ \A b \in ArenaSlots : b # a => g_arenas'[b] = g_arenas[b]
      /\ g_arenas' = [b \in ArenaSlots |-> g_arenas'[b]]
      /\ \A b \in ArenaSlots : Shaped(g_arenas'[b])
    BY <1>1, SlotShapes, ArenaPut
<1>5. BlocksTyped'
    BY <1>1, <1>2, <1>4 DEF BlocksTyped
<1> HIDE DEF base
<1>6. Arenas' = Arenas \ {a} /\ \A b \in Arenas : b # a => g_arenas'[b] = g_arenas[b]
    BY <1>4, SlotShapes DEF Arenas
<1>7. \A u \in Threads : /\ BaseOf(call'[u]) = BaseOf(call[u]) /\ SlotOf(call'[u]) = SlotOf(call[u])
                         /\ call'[u].at = "arena" => call'[u] = call[u]
    OBVIOUS
<1>8. ArenasStand'
    <2> SUFFICES ASSUME NEW b \in Arenas, b # a
                 PROVE  \E r \in allocs' : At(r, g_arenas[b].base) /\ r.count = g_arenas[b].blocks
        BY <1>6 DEF ArenasStand, At
    <2>1. PICK r \in allocs : At(r, g_arenas[b].base) /\ r.count = g_arenas[b].blocks
        BY DEF BlocksInv, ArenasStand
    <2>2. ~At(r, base)
        BY <1>3, <2>1 DEF At
    <2> QED BY <1>2, <2>1, <2>2
<1>9. CallsStand'
    <2> SUFFICES ASSUME NEW u \in Threads, BaseOf(call'[u]) # NULL
                 PROVE  \E r \in allocs' : At(r, BaseOf(call'[u]))
                        /\ (call'[u].at = "arena" => r.count = call'[u].blocks)
        BY DEF CallsStand, At
    <2>2. PICK r \in allocs : At(r, BaseOf(call[u]))
               /\ (call[u].at = "arena" => r.count = call[u].blocks)
        BY <1>7 DEF BlocksInv, CallsStand
    <2>3. ~At(r, base)
        BY <1>3, <2>2 DEF At
    <2> QED BY <1>2, <1>7, <2>2, <2>3
<1>10. BasesApart'
    BY <1>6, <1>7 DEF BlocksInv, BasesApart
<1>11. RunsHeld'
    <2> SUFFICES ASSUME NEW r \in allocs'
                 PROVE  \/ \E b \in Arenas' : At(r, g_arenas'[b].base)
                        \/ \E u \in Threads : At(r, BaseOf(call'[u]))
        BY DEF RunsHeld, At
    <2>1. r \in allocs /\ ~At(r, base)
        BY <1>2
    <2>2. ASSUME NEW b \in Arenas, At(r, g_arenas[b].base)
          PROVE  \E d \in Arenas' : At(r, g_arenas'[d].base)
        <3>1. b # a
            BY <2>1, <2>2 DEF base
        <3> QED BY <1>6, <2>2, <3>1
    <2> QED BY <1>7, <2>1, <2>2 DEF BlocksInv, RunsHeld
<1>12. SlotsHeld'
    <2>1. \A b \in ArenaSlots \ Arenas' : g_arenas'[b] \in {UnusedArena, ReservedArena}
        BY <1>4, <1>6 DEF BlocksInv, SlotsHeld
    <2>2. \A b \in Arenas' : g_arenas'[b].in_use
        BY <1>6 DEF BlocksInv, SlotsHeld
    <2>3. \A u \in Threads : SlotOf(call'[u]) # NULL => g_arenas'[SlotOf(call'[u])] = ReservedArena
        <3>1. \A u \in Threads : SlotOf(call[u]) \in ArenaSlots \cup {NULL}
            BY <1>1, CallHolds DEF BlocksTyped
        <3>2. \A u \in Threads : SlotOf(call[u]) # NULL => SlotOf(call[u]) # a
            BY <1>1, Unfounded DEF BlocksInv, SlotsHeld
        <3> QED BY <1>4, <1>7, <3>1, <3>2 DEF BlocksInv, SlotsHeld
    <2>4. \A u, v \in Threads : u # v /\ SlotOf(call'[u]) # NULL
              => SlotOf(call'[u]) # SlotOf(call'[v])
        BY <1>7 DEF BlocksInv, SlotsHeld
    <2>5. \A b \in ArenaSlots : g_arenas'[b] = ReservedArena
              => \E u \in Threads : SlotOf(call'[u]) = b
        <3>1. \A b \in ArenaSlots : g_arenas'[b] = ReservedArena => g_arenas[b] = ReservedArena
            BY <1>4, SlotShapes
        <3> QED BY <1>7, <3>1 DEF BlocksInv, SlotsHeld
    <2> QED BY <2>1, <2>2, <2>3, <2>4, <2>5 DEF SlotsHeld
<1> QED BY <1>2, <1>5, <1>8, <1>9, <1>10, <1>11, <1>12 DEF BlocksInv

(* A locked section of kfree(). *)
LEMMA FreeSectionBlocks ==
    ASSUME BlocksInv, NEW t \in Threads, NEW ptr,
           BaseOf(call[t]) = NULL, SlotOf(call[t]) = NULL,
           BaseOf(call'[t]) = NULL, SlotOf(call'[t]) = NULL, call'[t].at # "arena",
           \A u \in Threads : u # t => call'[u] = call[u],
           call' = [u \in Threads |-> call'[u]], \A u \in Threads : CallTyped(call'[u]),
           FreeSection(ptr), fault' \in BOOLEAN
    PROVE  BlocksInv'
<1>1. ASSUME NEW a \in ArenaSlots, NEW i \in DOMAIN g_arenas[a].sectors,
             g_arenas' = [g_arenas EXCEPT ![a] = UnusedArena],
             allocs' = Without(g_arenas[a].base)
      PROVE  BlocksInv'
    <2>1. a \in Arenas
        BY Unfounded
    <2> QED BY <1>1, <2>1, GoneStep
<1>2. ASSUME NEW a \in ArenaSlots, NEW i \in DOMAIN g_arenas[a].sectors, NEW sectors,
             g_arenas' = [g_arenas EXCEPT ![a].sectors = sectors], UNCHANGED allocs
      PROVE  BlocksInv'
    <2>1. a \in Arenas
        BY Unfounded
    <2>2. g_arenas' = [g_arenas EXCEPT ![a] = Resectored(@, sectors)]
        BY <1>2 DEF Resectored
    <2> QED BY <1>2, <2>1, <2>2, SectorStep
<1>3. ASSUME UNCHANGED <<g_arenas, allocs>>
      PROVE  BlocksInv'
    BY <1>3, SectorStep
<1> QED BY <1>1, <1>2, <1>3 DEF FreeSection

LEMMA BlocksForTyped ==
    ASSUME NEW size \in Asked
    PROVE  BlocksFor(size) \in Nat \ {0} /\ align_up(size) \in Nat
<1>1. /\ Align \in Nat \ {0} /\ SizeMod \in Nat \ {0} /\ BlockBytes \in Nat \ {0}
      /\ CountMod \in Nat \ {0} /\ HeaderBytes \in Nat \ {0} /\ size \in Nat
    <2>1. BlockBytes * (HeapBlocks + 1) \in Nat
        BY Numbers
    <2> QED BY <2>1, Numbers, AskedTyped
<1>2. align_up(size) \in Nat
    <2>1. size + Align - 1 \in Nat
        BY <1>1
    <2>2. (size + Align - 1) % SizeMod \in Nat
        BY <1>1, <2>1, Division
    <2>3. ((size + Align - 1) % SizeMod) \div Align \in Nat
        BY <1>1, <2>2, Division
    <2> QED BY <1>1, <2>3 DEF align_up
<1> DEFINE sum == align_up(size) + HeaderBytes + BlockBytes - 1
<1>3. sum \in Nat
    BY <1>1, <1>2
<1> DEFINE count == ((sum % SizeMod) \div BlockBytes) % CountMod
<1>4. count \in Nat
    <2> HIDE DEF sum
    <2>1. sum % SizeMod \in Nat
        BY <1>1, <1>3, Division
    <2>2. (sum % SizeMod) \div BlockBytes \in Nat
        BY <1>1, <2>1, Division
    <2>3. \A x \in Nat : x % CountMod \in Nat
        BY <1>1, Division
    <2> QED BY <2>2, <2>3
<1>5. BlocksFor(size) = IF count = 0 THEN 1 ELSE count
    BY DEF BlocksFor
<1> HIDE DEF count
<1> QED BY <1>2, <1>4, <1>5

LEMMA MallocBlocksKeeps ==
    ASSUME BlocksInv, NEW t \in Threads, MallocBlocks(t)
    PROVE  BlocksInv'
<1> DEFINE c == call[t]
           count == BlocksFor(c.size)
<1>1. BlocksTyped /\ CallTyped(c) /\ c.at = "blocks" /\ fault' \in BOOLEAN
    BY DEF BlocksInv, BlocksTyped, MallocBlocks, In
<1>2. c = [at |-> "blocks", slot |-> c.slot, size |-> c.size, old |-> c.old]
      /\ c.slot \in ArenaSlots /\ c.size \in Asked
    BY <1>1 DEF CallTyped, Idle
<1>3. BaseOf(c) = NULL /\ SlotOf(c) = c.slot
    BY <1>1 DEF BaseOf, SlotOf
<1>4. count \in Nat \ {0}
    BY <1>2, BlocksForTyped
<1>5. ASSUME NEW b \in 1 .. HeapBlocks, Pool!Fits(b, count),
             allocs' = allocs \cup {[start |-> b, count |-> count, owner |-> t]},
             Goto(t, [at |-> "arena", slot |-> call[t].slot, size |-> call[t].size,
                      old |-> call[t].old, base |-> b * BlockBytes, blocks |-> count]),
             UNCHANGED <<g_arenas, live, fault>>
      PROVE  BlocksInv'
    <2> DEFINE r == [start |-> b, count |-> count, owner |-> t]
               d == [at |-> "arena", slot |-> c.slot, size |-> c.size,
                     old |-> c.old, base |-> b * BlockBytes, blocks |-> count]
    <2> HIDE DEF count
    <2>1. \A k \in b .. b + count - 1 : k \in 1 .. HeapBlocks
          /\ \A q \in allocs : k \notin Pool!BlocksOf(q)
        BY <1>5 DEF Pool!Fits, Pool!IsFree, count
    <2>2. b + count <= HeapBlocks + 1
        <3>1. b + count - 1 \in b .. b + count - 1
            BY <1>4
        <3>2. b + count - 1 \in 1 .. HeapBlocks
            BY <2>1, <3>1
        <3> QED BY <1>4, <3>2, Numbers
    <2>3. ASSUME NEW q \in allocs PROVE b + count <= q.start \/ q.start + q.count <= b
        <3>1. q.start \in Nat /\ q.count \in Nat \ {0} /\ b \in Nat
            BY <1>1 DEF BlocksTyped, Runs
        <3>2. CASE b <= q.start /\ q.start < b + count
            <4>1. q.start \in b .. b + count - 1 /\ q.start \in q.start .. q.start + q.count - 1
                BY <1>4, <3>1, <3>2
            <4> QED BY <2>1, <4>1 DEF Pool!BlocksOf
        <3>3. CASE q.start <= b /\ b < q.start + q.count
            <4>1. b \in b .. b + count - 1 /\ b \in q.start .. q.start + q.count - 1
                BY <1>4, <3>1, <3>3
            <4> QED BY <2>1, <4>1 DEF Pool!BlocksOf
        <3> QED BY <1>4, <3>1, <3>2, <3>3
    <2>4. r \in Runs /\ r.start = b /\ r.count = count
        <3>1. count \in 1 .. HeapBlocks
            BY <1>4, <2>2, Numbers
        <3> QED BY <3>1 DEF Runs
    <2>5. b * BlockBytes \in Nat \ {0}
        <3>1. BlockBytes \in Nat \ {0} /\ b \in Nat \ {0} /\ 0 * BlockBytes = 0 /\ 0 \in Nat
            BY Numbers
        <3>2. 0 * BlockBytes + BlockBytes <= b * BlockBytes
            BY <3>1, ScaleStrict
        <3> QED BY <3>1, <3>2
    <2>6. CallTyped(d) /\ d.at = "arena" /\ BaseOf(d) = b * BlockBytes /\ SlotOf(d) = c.slot
          /\ d.blocks = count
        BY <1>2, <1>4, <2>5 DEF CallTyped, BaseOf, SlotOf
    <2> HIDE DEF d
    <2>7. /\ call'[t] = d
          /\ \A u \in Threads : u # t => call'[u] = call[u]
          /\ call' = [u \in Threads |-> call'[u]]
          /\ \A u \in Threads : CallTyped(call'[u])
        <3>1. call' = [call EXCEPT ![t] = d]
            BY <1>5 DEF Goto, d, count
        <3> QED BY <1>1, <2>6, <3>1, Went
    <2>8. allocs' = allocs \cup {r}
        BY <1>5 DEF count
    <2> HIDE DEF r
    <2>9. \A q \in allocs : r.start + r.count <= q.start \/ q.start + q.count <= r.start
        BY <2>3, <2>4
    <2> QED BY <1>1, <1>3, <1>5, <2>2, <2>4, <2>6, <2>7, <2>8, <2>9, TakenStep
<1>6. ASSUME Goto(t, [at |-> "unreserve", slot |-> call[t].slot]), UNCHANGED allocs,
             UNCHANGED <<g_arenas, live, fault>>
      PROVE  BlocksInv'
    <2> DEFINE d == [at |-> "unreserve", slot |-> c.slot]
    <2>1. CallTyped(d) /\ d.at = "unreserve" /\ BaseOf(d) = NULL /\ SlotOf(d) = c.slot
        BY <1>2 DEF CallTyped, BaseOf, SlotOf
    <2> HIDE DEF d
    <2>2. /\ call'[t] = d
          /\ \A u \in Threads : u # t => call'[u] = call[u]
          /\ call' = [u \in Threads |-> call'[u]]
          /\ \A u \in Threads : CallTyped(call'[u])
        <3>1. call' = [call EXCEPT ![t] = d]
            BY <1>6 DEF Goto, d
        <3> QED BY <1>1, <2>1, <3>1, Went
    <2>3. BlocksTyped'
        BY <1>1, <1>6, <2>2 DEF BlocksTyped
    <2>4. \A u \in Threads : /\ BaseOf(call'[u]) = BaseOf(call[u])
                             /\ SlotOf(call'[u]) = SlotOf(call[u])
                             /\ call'[u].at = "arena" => call'[u] = call[u]
        BY <1>3, <2>1, <2>2
    <2> QED BY <1>6, <2>3, <2>4, Quiet
<1> QED BY <1>5, <1>6 DEF MallocBlocks

LEMMA MallocUnreserveKeeps ==
    ASSUME BlocksInv, NEW t \in Threads, MallocUnreserve(t)
    PROVE  BlocksInv'
<1> DEFINE c == call[t]
<1>1. BlocksTyped /\ CallTyped(c) /\ c.at = "unreserve" /\ fault' \in BOOLEAN /\ allocs' = allocs
    BY DEF BlocksInv, BlocksTyped, MallocUnreserve, In
<1>2. c.slot \in ArenaSlots /\ BaseOf(c) = NULL /\ SlotOf(c) = c.slot
    BY <1>1 DEF CallTyped, Idle, BaseOf, SlotOf
<1>3. Goto(t, Idle)
    BY DEF MallocUnreserve, Fails
<1>4. /\ call'[t].at \in {"idle", "copy"} /\ BaseOf(call'[t]) = NULL /\ SlotOf(call'[t]) = NULL
      /\ \A u \in Threads : u # t => call'[u] = call[u]
      /\ call' = [u \in Threads |-> call'[u]]
      /\ \A u \in Threads : CallTyped(call'[u])
    BY <1>1, <1>3, Returned
<1>5. g_arenas' = [g_arenas EXCEPT ![c.slot] = UnusedArena]
    BY DEF MallocUnreserve
<1> QED BY <1>1, <1>2, <1>4, <1>5, SlotStep

(* A new arena with its first sector. *)
Founded(base, blocks, units) == arena_append_sector(NewArena(base, blocks), units)

LEMMA NewArenaIs ==
    ASSUME NEW base \in Nat, NEW blocks \in Nat, NEW units
    PROVE  /\ Shaped(Founded(base, blocks, units)) /\ Founded(base, blocks, units).in_use
           /\ Founded(base, blocks, units).base = base
           /\ Founded(base, blocks, units).blocks = blocks
<1> DEFINE n == NewArena(base, blocks)
           s == <<Sector(TRUE, units)>>
<1>1. Shaped(n) /\ n.base = base /\ n.blocks = blocks /\ n.in_use
      /\ n.sectors = <<Sector(FALSE, 0)>>
    <2>1. n = [in_use |-> TRUE, base |-> base, blocks |-> blocks, sectors |-> <<Sector(FALSE, 0)>>]
        BY DEF NewArena
    <2> HIDE DEF n
    <2>2. n.base = base /\ n.blocks = blocks /\ n.in_use = TRUE /\ n.sectors = <<Sector(FALSE, 0)>>
        BY <2>1
    <2> QED BY <2>1, <2>2 DEF Shaped
<1> HIDE DEF n
<1>2. arena_append_sector(n, units) = Resectored(n, s)
    BY <1>1 DEF arena_append_sector, Resectored, IsSentinel
<1> HIDE DEF s
<1>3. /\ Shaped(Resectored(n, s)) /\ Resectored(n, s).base = n.base
         /\ Resectored(n, s).blocks = n.blocks
      /\ Resectored(n, s).in_use = n.in_use
    BY <1>1, ResectoredIs
<1> QED BY <1>1, <1>2, <1>3 DEF n, s, Founded

LEMMA MallocArenaKeeps ==
    ASSUME BlocksInv, NEW t \in Threads, MallocArena(t)
    PROVE  BlocksInv'
<1> DEFINE c == call[t]
           bytes == align_up(c.size)
           x == arena_append_sector(NewArena(c.base, c.blocks), bytes \div Align)
<1>1. BlocksTyped /\ CallTyped(c) /\ c.at = "arena" /\ fault' \in BOOLEAN /\ allocs' = allocs
    BY DEF BlocksInv, BlocksTyped, MallocArena, In
<1>2. /\ c.slot \in ArenaSlots /\ c.base \in Nat \ {0} /\ c.blocks \in Nat \ {0}
      /\ BaseOf(c) = c.base /\ SlotOf(c) = c.slot /\ BaseOf(c) # NULL
    BY <1>1 DEF CallTyped, Idle, BaseOf, SlotOf, NULL
<1>3. ASSUME g_arenas' = [g_arenas EXCEPT ![c.slot] = x], Returns(t, c.base, c.size, c.old)
      PROVE  BlocksInv'
    <2>1. Shaped(x) /\ x.in_use /\ x.base = c.base /\ x.blocks = c.blocks
        <3>1. x = Founded(c.base, c.blocks, bytes \div Align)
            BY DEF Founded
        <3> HIDE DEF x, bytes
        <3> QED BY <1>2, <3>1, NewArenaIs
    <2> DEFINE old == c.old
    <2>2. Goto(t, IF old = NULL THEN Idle ELSE [at |-> "copy", old |-> old])
        BY <1>3 DEF Returns
    <2> HIDE DEF x, old
    <2>3. /\ call'[t].at \in {"idle", "copy"} /\ BaseOf(call'[t]) = NULL /\ SlotOf(call'[t]) = NULL
          /\ \A u \in Threads : u # t => call'[u] = call[u]
          /\ call' = [u \in Threads |-> call'[u]]
          /\ \A u \in Threads : CallTyped(call'[u])
        BY <1>1, <2>2, Returned
    <2> QED BY <1>1, <1>2, <1>3, <2>1, <2>3, FoundStep
<1>4. ASSUME g_arenas' = [g_arenas EXCEPT ![c.slot] = UnusedArena],
             Goto(t, [at |-> "giveback", base |-> c.base])
      PROVE  BlocksInv'
    <2> DEFINE d == [at |-> "giveback", base |-> c.base]
    <2>1. CallTyped(d) /\ d.at = "giveback" /\ BaseOf(d) = c.base /\ SlotOf(d) = NULL
        BY <1>2 DEF CallTyped, BaseOf, SlotOf
    <2> HIDE DEF d
    <2>2. /\ call'[t] = d
          /\ \A u \in Threads : u # t => call'[u] = call[u]
          /\ call' = [u \in Threads |-> call'[u]]
          /\ \A u \in Threads : CallTyped(call'[u])
        <3>1. call' = [call EXCEPT ![t] = d]
            BY <1>4 DEF Goto, d
        <3> QED BY <1>1, <2>1, <3>1, Went
    <2> QED BY <1>1, <1>2, <1>4, <2>1, <2>2, SlotStep
<1> QED BY <1>3, <1>4 DEF MallocArena

LEMMA MallocGiveBackKeeps ==
    ASSUME BlocksInv, NEW t \in Threads, MallocGiveBack(t)
    PROVE  BlocksInv'
<1> DEFINE c == call[t]
<1>1. BlocksTyped /\ CallTyped(c) /\ c.at = "giveback" /\ fault' \in BOOLEAN /\ g_arenas' = g_arenas
    BY DEF BlocksInv, BlocksTyped, MallocGiveBack, In
<1>2. BaseOf(c) = c.base /\ BaseOf(c) # NULL /\ SlotOf(c) = NULL
    BY <1>1 DEF CallTyped, Idle, BaseOf, SlotOf, NULL
<1>3. Goto(t, Idle) /\ allocs' = Without(c.base)
    BY DEF MallocGiveBack, Fails
<1>4. /\ call'[t].at \in {"idle", "copy"} /\ BaseOf(call'[t]) = NULL /\ SlotOf(call'[t]) = NULL
      /\ \A u \in Threads : u # t => call'[u] = call[u]
      /\ call' = [u \in Threads |-> call'[u]]
      /\ \A u \in Threads : CallTyped(call'[u])
    BY <1>1, <1>3, Returned
<1> QED BY <1>1, <1>2, <1>3, <1>4, GivenStep

(* A call that holds neither a base nor a slot. *)
LEMMA EmptyHanded ==
    ASSUME BlocksInv, NEW t \in Threads, call[t].at \in {"idle", "grow", "copy"}
    PROVE  /\ BlocksTyped /\ CallTyped(call[t]) /\ BaseOf(call[t]) = NULL /\ SlotOf(call[t]) = NULL
           /\ call[t].at = "grow" => call[t].size \in Asked
<1>1. BlocksTyped /\ CallTyped(call[t])
    BY DEF BlocksInv, BlocksTyped
<1>2. call[t].at = "grow" => call[t].size \in Asked
    BY <1>1 DEF CallTyped, Idle
<1> QED BY <1>1, <1>2, CallHolds

LEMMA kmallocKeeps ==
    ASSUME BlocksInv, NEW t \in Threads, NEW size \in Asked, kmalloc(t, size)
    PROVE  BlocksInv'
<1>1. call[t].at \in {"idle", "grow", "copy"} /\ MallocSection(t, size, NULL)
    BY DEF kmalloc, In
<1> QED BY <1>1, EmptyHanded, SectionBlocks

LEMMA kcallocKeeps ==
    ASSUME BlocksInv, NEW t \in Threads, NEW count \in Counts, NEW size \in Sizes,
           kcalloc(t, count, size)
    PROVE  BlocksInv'
<1>1. count * size \in Asked
    <2>1. <<count, size>> \in {q \in Counts \X Sizes : (SizeMod - 1) \div q[1] >= q[2]}
        BY DEF kcalloc
    <2> QED BY <2>1 DEF Asked
<1>2. kmalloc(t, count * size)
    BY DEF kcalloc
<1> QED BY <1>1, <1>2, kmallocKeeps

LEMMA kfreeKeeps ==
    ASSUME BlocksInv, NEW t \in Threads, NEW l, kfree(t, l)
    PROVE  BlocksInv'
<1>1. call[t].at = "idle" /\ FreeSection(l.ptr) /\ call' = call /\ fault' = fault
    BY DEF kfree, In
<1>2. BlocksTyped /\ BaseOf(call[t]) = NULL /\ SlotOf(call[t]) = NULL
    BY <1>1, EmptyHanded
<1>3. /\ call' = [u \in Threads |-> call'[u]] /\ fault' \in BOOLEAN
      /\ \A u \in Threads : CallTyped(call'[u])
    BY <1>1, <1>2 DEF BlocksTyped
<1> QED BY <1>1, <1>2, <1>3, FreeSectionBlocks

LEMMA kreallocKeeps ==
    ASSUME BlocksInv, NEW t \in Threads, NEW l, NEW size \in Sizes,
           krealloc(t, l, size)
    PROVE  BlocksInv'
<1>1. /\ call[t].at = "idle" /\ UNCHANGED <<g_arenas, allocs, fault>>
      /\ call' = call \/ Goto(t, [at |-> "grow", size |-> size, old |-> l.ptr])
    BY DEF krealloc, In
<1>2. BlocksTyped /\ BaseOf(call[t]) = NULL /\ SlotOf(call[t]) = NULL
    BY <1>1, EmptyHanded
<1> DEFINE d == [at |-> "grow", size |-> size, old |-> l.ptr]
<1>3. CallTyped(d) /\ d.at = "grow" /\ BaseOf(d) = NULL /\ SlotOf(d) = NULL
    BY DEF CallTyped, BaseOf, SlotOf, Asked
<1> HIDE DEF d
<1>4. /\ BaseOf(call'[t]) = NULL /\ SlotOf(call'[t]) = NULL /\ call'[t].at # "arena"
      /\ \A u \in Threads : u # t => call'[u] = call[u]
      /\ call' = [u \in Threads |-> call'[u]]
      /\ \A u \in Threads : CallTyped(call'[u])
    <2>1. CASE call' = call
        BY <1>1, <1>2, <2>1 DEF BlocksTyped
    <2>2. CASE call' = [call EXCEPT ![t] = d]
        BY <1>2, <1>3, <2>2, Went
    <2> QED BY <1>1, <2>1, <2>2 DEF Goto, d
<1>5. fault' \in BOOLEAN
    BY <1>1, <1>2 DEF BlocksTyped
<1> QED BY <1>1, <1>2, <1>4, <1>5, SectorStep

LEMMA ReallocGrowKeeps ==
    ASSUME BlocksInv, NEW t \in Threads, ReallocGrow(t)
    PROVE  BlocksInv'
<1>1. call[t].at = "grow" /\ MallocSection(t, call[t].size, call[t].old)
    BY DEF ReallocGrow, In
<1>2. BaseOf(call[t]) = NULL /\ SlotOf(call[t]) = NULL /\ call[t].size \in Asked
    BY <1>1, EmptyHanded
<1> QED BY <1>1, <1>2, SectionBlocks

LEMMA ReallocCopyKeeps ==
    ASSUME BlocksInv, NEW t \in Threads, ReallocCopy(t)
    PROVE  BlocksInv'
<1>1. call[t].at = "copy" /\ FreeSection(call[t].old) /\ Goto(t, Idle) /\ fault' = fault
    BY DEF ReallocCopy, In
<1>2. BlocksTyped /\ BaseOf(call[t]) = NULL /\ SlotOf(call[t]) = NULL
    BY <1>1, EmptyHanded
<1>3. /\ call'[t].at \in {"idle", "copy"} /\ BaseOf(call'[t]) = NULL /\ SlotOf(call'[t]) = NULL
      /\ \A u \in Threads : u # t => call'[u] = call[u]
      /\ call' = [u \in Threads |-> call'[u]]
      /\ \A u \in Threads : CallTyped(call'[u])
    BY <1>1, <1>2, Returned
<1>4. fault' \in BOOLEAN
    BY <1>1, <1>2 DEF BlocksTyped
<1> QED BY <1>1, <1>2, <1>3, <1>4, FreeSectionBlocks

LEMMA BlocksNext ==
    ASSUME BlocksInv, [Next]_vars
    PROVE  BlocksInv'
<1>1. ASSUME UNCHANGED vars
      PROVE  BlocksInv'
    <2>1. BlocksTyped /\ BlocksTyped'
        BY <1>1 DEF BlocksInv, BlocksTyped, vars
    <2> QED BY <1>1, <2>1, Quiet DEF vars
<1>2. ASSUME NEW t \in Threads, NEW size \in Sizes, kmalloc(t, size)
      PROVE  BlocksInv'
    BY <1>2, kmallocKeeps DEF Asked
<1> QED BY <1>1, <1>2, kcallocKeeps, MallocBlocksKeeps, MallocUnreserveKeeps, MallocArenaKeeps,
           MallocGiveBackKeeps, kfreeKeeps, kreallocKeeps, ReallocGrowKeeps,
           ReallocCopyKeeps DEF Next

LEMMA BlocksInit == Init => BlocksInv
<1> SUFFICES ASSUME Init PROVE BlocksInv
    OBVIOUS
<1>1. /\ \A a \in ArenaSlots : g_arenas[a] = UnusedArena
      /\ g_arenas = [a \in ArenaSlots |-> g_arenas[a]] /\ allocs = {} /\ fault = FALSE
      /\ \A t \in Threads : call[t] = Idle
      /\ call = [t \in Threads |-> call[t]]
    BY DEF Init
<1>2. CallTyped(Idle) /\ BaseOf(Idle) = NULL /\ SlotOf(Idle) = NULL
    BY DEF CallTyped, Idle, BaseOf, SlotOf
<1>3. BlocksTyped
    BY <1>1, <1>2, SlotShapes DEF BlocksTyped
<1>4. Arenas = {}
    BY <1>1, SlotShapes DEF Arenas
<1>5. RunsApart /\ ArenasStand /\ CallsStand /\ BasesApart /\ RunsHeld
    BY <1>1, <1>2, <1>4 DEF RunsApart, ArenasStand, CallsStand, BasesApart, RunsHeld
<1>6. SlotsHeld
    BY <1>1, <1>2, <1>4, SlotShapes DEF SlotsHeld
<1> QED BY <1>3, <1>5, <1>6 DEF BlocksInv

(* At every moment the runs of blocks the pool has handed out are those the *)
(* arenas stand on and those the calls hold.                                *)
THEOREM BlocksKept == Spec => []BlocksInv
<1>1. BlocksInv /\ [Next]_vars => BlocksInv'
    BY BlocksNext
<1> QED BY <1>1, BlocksInit, PTL DEF Spec

LEMMA ArenasFinite == IsFiniteSet(Arenas)
<1>1. IsFiniteSet(ArenaSlots)
    BY Numbers, FS_Interval DEF ArenaSlots
<1>2. Arenas \in SUBSET ArenaSlots
    BY DEF Arenas
<1> QED BY <1>1, <1>2, FS_Subset

LEMMA RunsOfArenas ==
    ASSUME BlocksInv
    PROVE  Cardinality({<<g_arenas[a].base, g_arenas[a].blocks>> : a \in Arenas})
               = Cardinality(Arenas)
<1> DEFINE run(a) == <<g_arenas[a].base, g_arenas[a].blocks>>
           R == {run(a) : a \in Arenas}
           f == [a \in Arenas |-> run(a)]
<1>1. \A a, b \in Arenas : run(a) = run(b) => a = b
    BY DEF BlocksInv, BasesApart
<1>2. f \in [Arenas -> R]
    OBVIOUS
<1>3. f \in Injection(Arenas, R)
    <2>1. DOMAIN f = Arenas /\ \A a \in Arenas : f[a] = run(a)
        OBVIOUS
    <2>2. \A a, b \in DOMAIN f : f[a] = f[b] => a = b
        BY <1>1, <2>1, Zenon
    <2> HIDE DEF f, R
    <2> QED BY <1>2, <2>1, <2>2 DEF Injection, IsInjective
<1>4. f \in Surjection(Arenas, R)
    BY <1>2 DEF Surjection
<1>5. ExistsBijection(Arenas, R)
    BY <1>3, <1>4 DEF ExistsBijection, Bijection
<1> HIDE DEF R, f
<1>6. Cardinality(R) = Cardinality(Arenas)
    BY <1>5, ArenasFinite, FS_Bijection
<1> QED BY <1>6 DEF R

LEMMA BlocksInvAccounts ==
    ASSUME BlocksInv
    PROVE  BlocksAccounted
<1> DEFINE ArenaRuns == {<<g_arenas[a].base, g_arenas[a].blocks>> : a \in Arenas}
           CallBases == {call[t].base :
                            t \in {u \in Threads : call[u].at \in {"arena", "giveback"}}}
           CallSlots == {call[t].slot :
                            t \in {u \in Threads : call[u].at \in {"blocks", "arena", "unreserve"}}}
<1>1. Cardinality(ArenaRuns) = Cardinality(Arenas)
    BY RunsOfArenas
<1>2. ASSUME NEW p \in ArenaRuns
      PROVE  \E r \in allocs : p = <<r.start * BlockBytes, r.count>>
    <2>1. PICK a \in Arenas : p = <<g_arenas[a].base, g_arenas[a].blocks>>
        OBVIOUS
    <2>2. PICK r \in allocs : At(r, g_arenas[a].base) /\ r.count = g_arenas[a].blocks
        BY DEF BlocksInv, ArenasStand
    <2> QED BY <2>1, <2>2 DEF At
<1>3. ASSUME NEW r \in allocs
      PROVE  <<r.start * BlockBytes, r.count>> \in ArenaRuns \/ r.start * BlockBytes \in CallBases
    <2>1. ASSUME NEW a \in Arenas, At(r, g_arenas[a].base)
          PROVE  <<r.start * BlockBytes, r.count>> \in ArenaRuns
        <3>1. PICK q \in allocs : At(q, g_arenas[a].base) /\ q.count = g_arenas[a].blocks
            BY DEF BlocksInv, ArenasStand
        <3>2. q = r
            BY <2>1, <3>1, RunFound DEF BlocksInv
        <3> QED BY <2>1, <3>1, <3>2 DEF At
    <2>2. ASSUME NEW t \in Threads, At(r, BaseOf(call[t]))
          PROVE  r.start * BlockBytes \in CallBases
        <3>1. BaseOf(call[t]) # NULL
            BY <2>2, RunFound DEF BlocksInv
        <3>2. call[t].at \in {"arena", "giveback"} /\ BaseOf(call[t]) = call[t].base
            BY <3>1 DEF BaseOf
        <3> QED BY <2>2, <3>2 DEF At
    <2> HIDE DEF ArenaRuns, CallBases
    <2> QED BY <2>1, <2>2 DEF BlocksInv, RunsHeld
<1>4. ASSUME NEW a \in ArenaSlots, g_arenas[a] = ReservedArena
      PROVE  a \in CallSlots
    <2>1. PICK t \in Threads : SlotOf(call[t]) = a
        BY <1>4 DEF BlocksInv, SlotsHeld
    <2>2. call[t].at \in {"blocks", "arena", "unreserve"} /\ call[t].slot = a
        BY <2>1, Slots DEF SlotOf, NULL
    <2> QED BY <2>2
<1> HIDE DEF ArenaRuns, CallBases, CallSlots
<1> QED BY <1>1, <1>2, <1>3, <1>4 DEF BlocksAccounted, ArenaRuns, CallBases, CallSlots

(* Every arena stands on a run of blocks of its own, every run is an        *)
(* arena's or in the hands of a call, and no reserved slot is forgotten,    *)
(* whatever calls fail or are preempted between kmalloc's two locked        *)
(* sections (malloc.c 340-400).                                             *)
THEOREM HeapBlocksAccounted == Spec => []BlocksAccounted
<1>1. BlocksInv => BlocksAccounted
    BY BlocksInvAccounts
<1> QED BY <1>1, BlocksKept, PTL

-----------------------------------------------------------------------------
(* Where arenas and their pieces are. *)

LEMMA RunSpan ==
    ASSUME BlocksTyped, RunsApart, NEW r \in allocs
    PROVE  /\ r.start * BlockBytes \in Nat /\ BlockBytes <= r.start * BlockBytes
           /\ r.count * BlockBytes \in Nat /\ r.count \in 1 .. HeapBlocks
           /\ r.start * BlockBytes + r.count * BlockBytes <= BlockBytes * (HeapBlocks + 1)
           /\ \A q \in allocs : q # r =>
                 \/ r.start * BlockBytes + r.count * BlockBytes <= q.start * BlockBytes
                 \/ q.start * BlockBytes + q.count * BlockBytes <= r.start * BlockBytes
<1>1. BlockBytes \in Nat \ {0} /\ HeapBlocks \in Nat
    BY Numbers
<1>2. \A q \in allocs : q.start \in Nat \ {0} /\ q.count \in Nat \ {0}
      /\ q.count \in 1 .. HeapBlocks
    BY DEF BlocksTyped, Runs
<1>3. ASSUME NEW q \in allocs, NEW b \in Nat, q.start + q.count <= b
      PROVE  q.start * BlockBytes + q.count * BlockBytes <= b * BlockBytes
    <2>1. (q.start + q.count) * BlockBytes <= b * BlockBytes
        BY <1>1, <1>2, <1>3, Scale
    <2>2. (q.start + q.count) * BlockBytes = q.start * BlockBytes + q.count * BlockBytes
        BY <1>1, <1>2
    <2> QED BY <2>1, <2>2
<1>4. r.start * BlockBytes \in Nat /\ BlockBytes <= r.start * BlockBytes
      /\ r.count * BlockBytes \in Nat
    <2>1. 0 * BlockBytes + BlockBytes <= r.start * BlockBytes
        BY <1>1, <1>2, ScaleStrict
    <2> QED BY <1>1, <1>2, <2>1
<1>5. r.start * BlockBytes + r.count * BlockBytes <= BlockBytes * (HeapBlocks + 1)
    <2>1. r.start + r.count <= HeapBlocks + 1 /\ HeapBlocks + 1 \in Nat
        BY <1>1 DEF RunsApart
    <2>2. (HeapBlocks + 1) * BlockBytes = BlockBytes * (HeapBlocks + 1)
        BY <1>1
    <2> QED BY <1>3, <2>1, <2>2
<1>6. ASSUME NEW q \in allocs, q # r
      PROVE  \/ r.start * BlockBytes + r.count * BlockBytes <= q.start * BlockBytes
             \/ q.start * BlockBytes + q.count * BlockBytes <= r.start * BlockBytes
    <2>1. r.start + r.count <= q.start \/ q.start + q.count <= r.start
        BY <1>6 DEF RunsApart
    <2> QED BY <1>2, <1>3, <2>1
<1> QED BY <1>2, <1>4, <1>5, <1>6

Within(base, bytes) ==
    /\ base \in Nat \ {0} /\ bytes \in Nat
    /\ BlockBytes <= base /\ base + bytes <= BlockBytes * (HeapBlocks + 1)

Apart(base, bytes, other, size) == base + bytes <= other \/ other + size <= base

Spread ==
    /\ \A a \in Arenas : /\ Within(g_arenas[a].base, Bytes(g_arenas[a]))
                         /\ g_arenas[a].blocks \in 1 .. HeapBlocks
    /\ \A a, b \in Arenas :
          a # b => Apart(g_arenas[a].base, Bytes(g_arenas[a]), g_arenas[b].base, Bytes(g_arenas[b]))

LEMMA SpreadHolds == BlocksInv => Spread
<1> SUFFICES ASSUME BlocksInv PROVE Spread
    OBVIOUS
<1>1. BlocksTyped /\ RunsApart
    BY DEF BlocksInv
<1>2. \A a \in Arenas : \E r \in allocs : /\ g_arenas[a].base = r.start * BlockBytes
                                          /\ Bytes(g_arenas[a]) = r.count * BlockBytes
                                          /\ g_arenas[a].blocks = r.count
    BY DEF BlocksInv, ArenasStand, At, Bytes
<1>3. BlockBytes \in Nat \ {0}
    BY Numbers
<1>4. ASSUME NEW a \in Arenas
      PROVE  Within(g_arenas[a].base, Bytes(g_arenas[a])) /\ g_arenas[a].blocks \in 1 .. HeapBlocks
    <2>1. PICK r \in allocs : /\ g_arenas[a].base = r.start * BlockBytes
                              /\ Bytes(g_arenas[a]) = r.count * BlockBytes
                              /\ g_arenas[a].blocks = r.count
        BY <1>2
    <2>2. /\ r.start * BlockBytes \in Nat /\ BlockBytes <= r.start * BlockBytes
          /\ r.count * BlockBytes \in Nat /\ r.count \in 1 .. HeapBlocks
          /\ r.start * BlockBytes + r.count * BlockBytes <= BlockBytes * (HeapBlocks + 1)
        BY <1>1, RunSpan
    <2> QED BY <1>3, <2>1, <2>2 DEF Within
<1>5. ASSUME NEW a \in Arenas, NEW b \in Arenas, a # b
      PROVE  Apart(g_arenas[a].base, Bytes(g_arenas[a]), g_arenas[b].base, Bytes(g_arenas[b]))
    <2>1. PICK r \in allocs : /\ g_arenas[a].base = r.start * BlockBytes
                              /\ Bytes(g_arenas[a]) = r.count * BlockBytes
        BY <1>2
    <2>2. PICK q \in allocs : /\ g_arenas[b].base = q.start * BlockBytes
                              /\ Bytes(g_arenas[b]) = q.count * BlockBytes
        BY <1>2
    <2>3. q # r
        BY <1>5, <2>1, <2>2 DEF BlocksInv, BasesApart
    <2> QED BY <1>1, <2>1, <2>2, <2>3, RunSpan DEF Apart
<1> QED BY <1>4, <1>5 DEF Spread

LEMMA ExtentIn ==
    ASSUME NEW s \in Seq(SectorRecords), Filled(s), NEW i \in 1 .. Len(s)
    PROVE  /\ Extent(s, i).at = DataBytes(s)[i - 1] /\ Extent(s, i).bytes = Align * s[i].units
           /\ DataBytes(s)[i - 1] \in Nat /\ Align * s[i].units \in Nat \ {0}
           /\ DataBytes(s)[i] = DataBytes(s)[i - 1] + Align * s[i].units
           /\ DataBytes(s)[i] <= DataBytes(s)[Len(s)]
<1>1. Len(s) \in Nat /\ s[i].units \in Nat \ {0} /\ Align \in Nat \ {0} /\ i \in Nat
    BY SectorSeq, Numbers DEF Filled
<1>2. Align * s[i].units \in Nat \ {0}
    <2>1. Align * 0 + Align <= Align * s[i].units
        BY <1>1, ScaleStrict
    <2> QED BY <1>1, <2>1
<1>3. i - 1 \in 0 .. Len(s) /\ i \in 0 .. Len(s) /\ Len(s) \in 0 .. Len(s)
    BY <1>1
<1>4. /\ DataBytes(s)[i - 1] \in Nat
      /\ DataBytes(s)[i] = DataBytes(s)[i - 1] + Align * s[i].units
    BY <1>3, Adds
<1>5. DataBytes(s)[i] <= DataBytes(s)[Len(s)]
    BY <1>1, <1>3, AddsUp
<1> QED BY <1>2, <1>4, <1>5 DEF Extent

(* A piece lies in the data of its arena, below the headers.                *)
LEMMA PieceIn ==
    ASSUME NEW arena, ArenaSound(arena), arena.base \in Nat, Bytes(arena) \in Nat,
           NEW p \in Pieces(arena)
    PROVE  /\ p.ptr \in Nat /\ p.bytes \in Nat \ {0} /\ p = [ptr |-> p.ptr, bytes |-> p.bytes]
           /\ arena.base <= p.ptr /\ p.ptr + p.bytes <= HeadersBottom(arena)
           /\ p.ptr + p.bytes <= arena.base + Bytes(arena)
           /\ \E i \in Allocated(arena.sectors) :
                 /\ p.ptr = arena_data_ptr_for_sector(arena, i)
                 /\ p.bytes = Align * arena.sectors[i].units
<1> DEFINE s == arena.sectors
<1>1. s \in Seq(SectorRecords) /\ Filled(s) /\ SpaceOf(s) <= Bytes(arena)
    BY DEF ArenaSound
<1>2. PICK i \in Allocated(s) : p = Piece(arena.base, Extent(s, i))
    BY DEF Pieces, Extents
<1>3. i \in 1 .. Len(s)
    BY <1>1, SectorSeq DEF Allocated
<1>4. p.ptr = arena.base + Extent(s, i).at /\ p.bytes = Extent(s, i).bytes
      /\ p = [ptr |-> p.ptr, bytes |-> p.bytes]
    BY <1>2 DEF Piece
<1>5. /\ Extent(s, i).at = DataBytes(s)[i - 1] /\ Extent(s, i).bytes = Align * s[i].units
      /\ DataBytes(s)[i - 1] \in Nat /\ Align * s[i].units \in Nat \ {0}
      /\ DataBytes(s)[i] = DataBytes(s)[i - 1] + Align * s[i].units
      /\ DataBytes(s)[i] <= DataBytes(s)[Len(s)]
    BY <1>1, <1>3, ExtentIn
<1>6. /\ SpaceOf(s) = DataBytes(s)[Len(s)] + HeaderBytes * Len(s)
      /\ DataBytes(s)[Len(s)] \in Nat /\ HeaderBytes * Len(s) \in Nat
    BY <1>1, SpaceTyped
<1>7. HeadersBottom(arena) = arena.base + Bytes(arena) - HeaderBytes * Len(s)
    BY DEF HeadersBottom
<1>8. p.ptr = arena_data_ptr_for_sector(arena, i)
    BY <1>4, <1>5 DEF arena_data_ptr_for_sector
<1> HIDE DEF s
<1>9. /\ p.ptr + p.bytes <= HeadersBottom(arena) /\ p.ptr + p.bytes <= arena.base + Bytes(arena)
      /\ p.ptr \in Nat /\ arena.base <= p.ptr
    <2> DEFINE x == DataBytes(s)[i - 1]
               u == Align * s[i].units
               n == DataBytes(s)[Len(s)]
               h == HeaderBytes * Len(s)
               base == arena.base
               bytes == Bytes(arena)
    <2>1. /\ x \in Nat /\ u \in Nat /\ n \in Nat /\ h \in Nat /\ base \in Nat /\ bytes \in Nat
          /\ x + u <= n /\ n + h <= bytes
        BY <1>1, <1>5, <1>6
    <2>2. p.ptr = base + x /\ p.bytes = u /\ HeadersBottom(arena) = base + bytes - h
        BY <1>4, <1>5, <1>7
    <2> HIDE DEF x, u, n, h, base, bytes
    <2>3. /\ p.ptr + p.bytes <= HeadersBottom(arena) /\ p.ptr + p.bytes <= base + bytes
          /\ p.ptr \in Nat /\ base <= p.ptr
        BY <2>1, <2>2
    <2> QED BY <2>3 DEF base, bytes
<1> QED BY <1>4, <1>5, <1>8, <1>9 DEF s

LEMMA PiecesDisjoint ==
    ASSUME NEW arena, ArenaSound(arena), arena.base \in Nat,
           NEW p \in Pieces(arena), NEW q \in Pieces(arena), p # q
    PROVE  Apart(p.ptr, p.bytes, q.ptr, q.bytes)
<1> DEFINE s == arena.sectors
<1>1. s \in Seq(SectorRecords) /\ Filled(s)
    BY DEF ArenaSound
<1>2. PICK i \in Allocated(s) : p = Piece(arena.base, Extent(s, i))
    BY DEF Pieces, Extents
<1>3. PICK j \in Allocated(s) : q = Piece(arena.base, Extent(s, j))
    BY DEF Pieces, Extents
<1>4. i \in 1 .. Len(s) /\ j \in 1 .. Len(s) /\ i # j /\ Len(s) \in Nat
    BY <1>1, <1>2, <1>3, SectorSeq DEF Allocated
<1>5. /\ p.ptr = arena.base + DataBytes(s)[i - 1] /\ p.bytes = Align * s[i].units
      /\ q.ptr = arena.base + DataBytes(s)[j - 1] /\ q.bytes = Align * s[j].units
    BY <1>2, <1>3 DEF Piece, Extent
<1> HIDE DEF s
<1>6. CASE i < j
    <2>1. /\ Align * s[i].units \in Nat \ {0}
          /\ DataBytes(s)[i - 1] + Align * s[i].units <= DataBytes(s)[j - 1]
          /\ DataBytes(s)[i - 1] \in Nat /\ DataBytes(s)[j - 1] \in Nat
        BY <1>1, <1>4, <1>6, Injective
    <2> QED BY <1>5, <2>1 DEF Apart
<1>7. CASE j < i
    <2>1. /\ Align * s[j].units \in Nat \ {0}
          /\ DataBytes(s)[j - 1] + Align * s[j].units <= DataBytes(s)[i - 1]
          /\ DataBytes(s)[i - 1] \in Nat /\ DataBytes(s)[j - 1] \in Nat
        BY <1>1, <1>4, <1>7, Injective
    <2> QED BY <1>5, <2>1 DEF Apart
<1> QED BY <1>4, <1>6, <1>7

LEMMA AllApart ==
    ASSUME BlocksInv, ArenasSound, NEW p \in AllPieces, NEW q \in AllPieces, p # q
    PROVE  /\ Apart(p.ptr, p.bytes, q.ptr, q.bytes) /\ p.ptr # q.ptr
<1>1. Spread
    BY SpreadHolds
<1>2. PICK a \in Arenas : p \in Pieces(g_arenas[a])
    BY DEF AllPieces
<1>3. PICK b \in Arenas : q \in Pieces(g_arenas[b])
    BY DEF AllPieces
<1>4. /\ ArenaSound(g_arenas[a]) /\ g_arenas[a].base \in Nat /\ Bytes(g_arenas[a]) \in Nat
      /\ ArenaSound(g_arenas[b]) /\ g_arenas[b].base \in Nat /\ Bytes(g_arenas[b]) \in Nat
    BY <1>1 DEF ArenasSound, Spread, Within
<1>5. /\ p.ptr \in Nat /\ p.bytes \in Nat \ {0}
      /\ g_arenas[a].base <= p.ptr /\ p.ptr + p.bytes <= g_arenas[a].base + Bytes(g_arenas[a])
    BY <1>2, <1>4, PieceIn
<1>6. /\ q.ptr \in Nat /\ q.bytes \in Nat \ {0}
      /\ g_arenas[b].base <= q.ptr /\ q.ptr + q.bytes <= g_arenas[b].base + Bytes(g_arenas[b])
    BY <1>3, <1>4, PieceIn
<1>7. Apart(p.ptr, p.bytes, q.ptr, q.bytes)
    <2>1. CASE a = b
        BY <1>2, <1>3, <1>4, <2>1, PiecesDisjoint
    <2>2. CASE a # b
        <3>1. Apart(g_arenas[a].base, Bytes(g_arenas[a]), g_arenas[b].base, Bytes(g_arenas[b]))
            BY <1>1, <2>2 DEF Spread
        <3> QED BY <1>4, <1>5, <1>6, <3>1 DEF Apart
    <2> QED BY <2>1, <2>2
<1> QED BY <1>5, <1>6, <1>7 DEF Apart

OldsStay == \A u \in Threads : OldOf(call'[u]) \in {OldOf(call[u]), NULL}

LEMMA OldsSame ==
    ASSUME OldsSound, OldsStay,
           \A u \in Threads : OldOf(call'[u]) # NULL => \E l \in live' : l.ptr = OldOf(call'[u])
    PROVE  OldsSound'
BY DEF OldsSound, OldsStay

(* A step that changes no arena and no allocation. *)
LEMMA IdleStep ==
    ASSUME HeapInv, BlocksInv', live' = live, Arenas' = Arenas,
           \A a \in Arenas : g_arenas'[a] = g_arenas[a], OldsStay
    PROVE  HeapInv'
<1>1. ArenasSound'
    BY DEF HeapInv, ArenasSound
<1>2. AllPieces' = AllPieces
    BY DEF AllPieces
<1>3. LiveSound'
    BY <1>2 DEF HeapInv, LiveSound
<1>4. OldsSound'
    BY OldsSame DEF HeapInv, OldsSound, OldsStay
<1> QED BY <1>1, <1>3, <1>4 DEF HeapInv

(* No allocation in use starts at ptr. *)
Fresh(ptr) == \A l \in live : l.ptr # ptr

(* A step that hands out one piece more. *)
LEMMA GrowStep ==
    ASSUME HeapInv, BlocksInv', NEW a \in Arenas', Arenas \subseteq Arenas',
           \A b \in Arenas' : b # a => b \in Arenas /\ g_arenas'[b] = g_arenas[b],
           ArenaSound(g_arenas'[a]), NEW p,
           Pieces(g_arenas'[a]) = {p} \cup IF a \in Arenas THEN Pieces(g_arenas[a]) ELSE {},
           a \in Arenas => \A q \in Pieces(g_arenas[a]) : q.ptr # p.ptr,
           NEW size \in Asked, size <= p.bytes,
           live' = live \cup {[ptr |-> p.ptr, size |-> size]}, OldsStay
    PROVE  HeapInv' /\ Fresh(p.ptr)
<1>1. Spread'
    BY SpreadHolds, PTL
<1>2. ArenasSound'
    BY DEF HeapInv, ArenasSound
<1>3. AllPieces' = AllPieces \cup {p}
    <2>1. ASSUME NEW q \in AllPieces' PROVE q \in AllPieces \cup {p}
        BY DEF AllPieces
    <2>2. ASSUME NEW q \in AllPieces PROVE q \in AllPieces'
        <3>1. PICK b \in Arenas : q \in Pieces(g_arenas[b])
            BY DEF AllPieces
        <3>2. b \in Arenas' /\ q \in Pieces(g_arenas'[b])
            BY <3>1
        <3> QED BY <3>2 DEF AllPieces
    <2>3. p \in AllPieces'
        BY DEF AllPieces
    <2> QED BY <2>1, <2>2, <2>3
<1>4. \A b \in Arenas' : /\ ArenaSound(g_arenas'[b]) /\ g_arenas'[b].base \in Nat \ {0}
                         /\ Bytes(g_arenas'[b]) \in Nat
    BY <1>1, <1>2 DEF ArenasSound, Spread, Within
<1>5. /\ p.ptr \in Nat \ {0} /\ p.bytes \in Nat \ {0}
      /\ g_arenas'[a].base <= p.ptr
      /\ p.ptr + p.bytes <= g_arenas'[a].base + Bytes(g_arenas'[a])
    <2>1. p \in Pieces(g_arenas'[a])
        OBVIOUS
    <2>2. /\ p.ptr \in Nat /\ p.bytes \in Nat \ {0}
          /\ g_arenas'[a].base <= p.ptr
      /\ p.ptr + p.bytes <= g_arenas'[a].base + Bytes(g_arenas'[a])
        BY <1>4, <2>1, PieceIn
    <2> QED BY <1>4, <2>2
<1>6. \A q \in AllPieces : q.ptr # p.ptr
    <2> SUFFICES ASSUME NEW q \in AllPieces PROVE q.ptr # p.ptr
        OBVIOUS
    <2>1. PICK b \in Arenas : q \in Pieces(g_arenas[b])
        BY DEF AllPieces
    <2>2. CASE b = a
        BY <2>1, <2>2
    <2>3. CASE b # a
        <3>1. b \in Arenas' /\ q \in Pieces(g_arenas'[b])
            BY <2>1, <2>3
        <3>2. /\ q.ptr \in Nat /\ q.bytes \in Nat \ {0} /\ g_arenas'[b].base <= q.ptr
              /\ q.ptr + q.bytes <= g_arenas'[b].base + Bytes(g_arenas'[b])
            BY <1>4, <3>1, PieceIn
        <3>3. Apart(g_arenas'[a].base, Bytes(g_arenas'[a]), g_arenas'[b].base, Bytes(g_arenas'[b]))
            BY <1>1, <2>3, <3>1 DEF Spread
        <3> QED BY <1>4, <1>5, <3>1, <3>2, <3>3 DEF Apart
    <2> QED BY <2>2, <2>3
<1> DEFINE n == [ptr |-> p.ptr, size |-> size]
<1>7. n.ptr = p.ptr /\ n.size = size /\ n \in [ptr : Nat \ {0}, size : Asked]
    BY <1>5
<1>8. live' = live \cup {n}
    OBVIOUS
<1> HIDE DEF n
<1>9. LiveSound'
    <2>1. live' \subseteq [ptr : Nat \ {0}, size : Asked]
        BY <1>7, <1>8 DEF HeapInv, LiveSound
    <2>2. \A l \in live' : \E q \in AllPieces' : q.ptr = l.ptr /\ l.size <= q.bytes
        BY <1>3, <1>7, <1>8 DEF HeapInv, LiveSound
    <2>3. \A q \in AllPieces' : \E l \in live' : q.ptr = l.ptr
        BY <1>3, <1>7, <1>8 DEF HeapInv, LiveSound
    <2>4. \A l, k \in live' : l.ptr = k.ptr => l = k
        BY <1>6, <1>7, <1>8 DEF HeapInv, LiveSound
    <2> QED BY <2>1, <2>2, <2>3, <2>4 DEF LiveSound
<1>10. OldsSound'
    BY <1>8, OldsSame DEF HeapInv, OldsSound, OldsStay
<1>11. Fresh(p.ptr)
    BY <1>6 DEF HeapInv, LiveSound, Fresh
<1> QED BY <1>2, <1>9, <1>10, <1>11 DEF HeapInv

(* A step that takes one piece back, which no call is to free later.        *)
LEMMA ShrinkStep ==
    ASSUME HeapInv, BlocksInv', NEW a \in Arenas, Arenas' = Arenas,
           \A b \in Arenas : b # a => g_arenas'[b] = g_arenas[b],
           ArenaSound(g_arenas'[a]), NEW p \in Pieces(g_arenas[a]),
           Pieces(g_arenas'[a]) = Pieces(g_arenas[a]) \ {p},
           live' = {l \in live : l.ptr # p.ptr}, OldsStay,
           \A u \in Threads : OldOf(call'[u]) # p.ptr
    PROVE  HeapInv'
<1>1. p \in AllPieces
    BY DEF AllPieces
<1>2. ArenasSound'
    BY DEF HeapInv, ArenasSound
<1>3. \A q \in AllPieces : q # p => q.ptr # p.ptr
    BY <1>1, AllApart DEF HeapInv
<1>4. AllPieces' = AllPieces \ {p}
    <2>1. ASSUME NEW b \in Arenas, b # a PROVE p \notin Pieces(g_arenas[b])
        <3> SUFFICES ASSUME p \in Pieces(g_arenas[b]) PROVE FALSE
            OBVIOUS
        <3>1. Spread /\ ArenaSound(g_arenas[a]) /\ ArenaSound(g_arenas[b])
            BY SpreadHolds DEF HeapInv, ArenasSound
        <3>2. /\ g_arenas[a].base \in Nat /\ Bytes(g_arenas[a]) \in Nat
              /\ g_arenas[b].base \in Nat /\ Bytes(g_arenas[b]) \in Nat
              /\ Apart(g_arenas[a].base, Bytes(g_arenas[a]), g_arenas[b].base, Bytes(g_arenas[b]))
            BY <2>1, <3>1 DEF Spread, Within
        <3>3. /\ p.ptr \in Nat /\ p.bytes \in Nat \ {0} /\ g_arenas[a].base <= p.ptr
              /\ p.ptr + p.bytes <= g_arenas[a].base + Bytes(g_arenas[a])
            BY <3>1, <3>2, PieceIn
        <3>4. /\ g_arenas[b].base <= p.ptr
              /\ p.ptr + p.bytes <= g_arenas[b].base + Bytes(g_arenas[b])
            BY <3>1, <3>2, PieceIn
        <3> QED BY <3>2, <3>3, <3>4 DEF Apart
    <2>2. ASSUME NEW q \in AllPieces' PROVE q \in AllPieces \ {p}
        <3>1. PICK b \in Arenas : q \in Pieces(g_arenas'[b])
            BY DEF AllPieces
        <3>2. CASE b = a
            BY <3>1, <3>2 DEF AllPieces
        <3>3. CASE b # a
            BY <2>1, <3>1, <3>3 DEF AllPieces
        <3> QED BY <3>2, <3>3
    <2>3. ASSUME NEW q \in AllPieces, q # p PROVE q \in AllPieces'
        <3>1. PICK b \in Arenas : q \in Pieces(g_arenas[b])
            BY DEF AllPieces
        <3>2. q \in Pieces(g_arenas'[b])
            BY <2>3, <3>1
        <3> QED BY <3>1, <3>2 DEF AllPieces
    <2> QED BY <2>2, <2>3
<1>5. LiveSound'
    <2>1. live' \subseteq [ptr : Nat \ {0}, size : Asked]
        BY DEF HeapInv, LiveSound
    <2>2. \A l \in live' : \E q \in AllPieces' : q.ptr = l.ptr /\ l.size <= q.bytes
        BY <1>4 DEF HeapInv, LiveSound
    <2>3. \A q \in AllPieces' : \E l \in live' : q.ptr = l.ptr
        BY <1>3, <1>4 DEF HeapInv, LiveSound
    <2>4. \A l, k \in live' : l.ptr = k.ptr => l = k
        BY DEF HeapInv, LiveSound
    <2> QED BY <2>1, <2>2, <2>3, <2>4 DEF LiveSound
<1>6. OldsSound'
    <2>1. \A u \in Threads : OldOf(call'[u]) # NULL => \E l \in live' : l.ptr = OldOf(call'[u])
        BY DEF HeapInv, OldsSound, OldsStay
    <2> QED BY <2>1, OldsSame DEF HeapInv
<1> QED BY <1>2, <1>5, <1>6 DEF HeapInv

-----------------------------------------------------------------------------
(* Sizes. *)

LEMMA Small ==
    ASSUME NEW m \in Nat, NEW a \in Nat, a < m
    PROVE  a % m = a
<1>1. m \in Nat \ {0}
    OBVIOUS
<1>2. a \div m \in Nat /\ a % m = a - m * (a \div m) /\ m * (a \div m) <= a
    BY <1>1, Division
<1> DEFINE q == a \div m
<1>3. q \in Nat /\ a % m = a - m * q /\ m * q <= a
    BY <1>2
<1> HIDE DEF q
<1>4. q = 0
    <2> SUFFICES ASSUME q # 0 PROVE FALSE
        OBVIOUS
    <2>1. 1 <= q /\ 1 \in Nat
        BY <1>3
    <2>2. m * 1 <= m * q /\ m * q \in Nat
        BY <1>3, <2>1, Scale
    <2> QED BY <1>3, <2>2
<1> QED BY <1>3, <1>4

(* A size that does not wrap is rounded up to a multiple of the alignment.  *)
LEMMA AlignUp ==
    ASSUME NEW size \in Asked, size + Align <= SizeMod
    PROVE  /\ align_up(size) \in Nat /\ align_up(size) \div Align \in Nat \ {0}
           /\ align_up(size) = Align * (align_up(size) \div Align)
           /\ size <= align_up(size) /\ align_up(size) < size + Align
           /\ size \in Nat \ {0} /\ Align \in Nat \ {0} /\ HeaderBytes \in Nat \ {0}
           /\ SizeMod \in Nat
<1>1. Align \in Nat \ {0} /\ SizeMod \in Nat /\ size \in Nat \ {0} /\ HeaderBytes \in Nat \ {0}
    BY Numbers, AskedTyped
<1> DEFINE x == size + Align - 1
           q == x \div Align
<1>3. x \in Nat /\ x < SizeMod
    BY <1>1
<1>4. x % SizeMod = x
    BY <1>1, <1>3, Small
<1>5. align_up(size) = q * Align
    BY <1>4 DEF align_up
<1>6. q \in Nat /\ Align * q <= x /\ x < Align * q + Align
    BY <1>1, <1>3, Division
<1> HIDE DEF q
<1>7. q * Align = Align * q /\ Align * q \in Nat
    BY <1>1, <1>6
<1>8. (q * Align) \div Align = q
    BY <1>1, <1>6, Quotient
<1>9. q # 0
    BY <1>1, <1>6
<1>10. size <= Align * q /\ Align * q < size + Align
    BY <1>1, <1>6, <1>7
<1> QED BY <1>1, <1>5, <1>6, <1>7, <1>8, <1>9, <1>10

-----------------------------------------------------------------------------
(* Where kfree() finds a pointer. *)

LEMMA ContainsOnly ==
    ASSUME BlocksInv, NEW a \in Arenas, NEW ptr \in Nat,
           g_arenas[a].base <= ptr, ptr < g_arenas[a].base + Bytes(g_arenas[a]),
           NEW b \in ArenaSlots
    PROVE  arena_contains_ptr(g_arenas[b], ptr) <=> b = a
<1>1. Spread
    BY SpreadHolds
<1>2. g_arenas[a].base \in Nat \ {0} /\ Bytes(g_arenas[a]) \in Nat /\ g_arenas[a].in_use
    BY <1>1 DEF Spread, Within, BlocksInv, SlotsHeld
<1>3. arena_contains_ptr(g_arenas[a], ptr)
    BY <1>2 DEF arena_contains_ptr
<1>4. ASSUME b # a, arena_contains_ptr(g_arenas[b], ptr) PROVE FALSE
    <2>1. CASE b \in Arenas
        <3>1. Apart(g_arenas[a].base, Bytes(g_arenas[a]), g_arenas[b].base, Bytes(g_arenas[b]))
            BY <1>1, <1>4, <2>1 DEF Spread
        <3>2. g_arenas[b].base \in Nat \ {0} /\ Bytes(g_arenas[b]) \in Nat
            BY <1>1, <2>1 DEF Spread, Within
        <3>3. ptr \in g_arenas[b].base .. g_arenas[b].base + Bytes(g_arenas[b]) - 1
            BY <1>4 DEF arena_contains_ptr
        <3> QED BY <1>2, <3>1, <3>2, <3>3 DEF Apart
    <2>2. CASE b \notin Arenas
        <3>1. g_arenas[b].base = 0 /\ g_arenas[b].blocks = 0
            BY <2>2, Unfounded DEF NULL
        <3>2. Bytes(g_arenas[b]) = 0
            BY <3>1, Numbers DEF Bytes
        <3>3. ptr \in 0 .. 0 + 0 - 1
            BY <1>4, <3>1, <3>2 DEF arena_contains_ptr
        <3> QED BY <3>3
    <2> QED BY <2>1, <2>2
<1> QED BY <1>3, <1>4

LEMMA SectorAt ==
    ASSUME NEW s \in Seq(SectorRecords), Filled(s), NEW i \in 1 .. Len(s), NEW j \in 1 .. Len(s)
    PROVE  /\ DataBytes(s)[i - 1] < DataBytes(s)[i] /\ DataBytes(s)[i - 1] \in Nat
              /\ DataBytes(s)[i] \in Nat
           /\ DataBytes(s)[j - 1] <= DataBytes(s)[i - 1]
              /\ DataBytes(s)[i - 1] < DataBytes(s)[j] => i = j
<1>1. /\ DataBytes(s)[i - 1] \in Nat /\ Align * s[i].units \in Nat \ {0}
      /\ DataBytes(s)[i] = DataBytes(s)[i - 1] + Align * s[i].units
    BY ExtentIn
<1>2. /\ DataBytes(s)[j - 1] \in Nat /\ Align * s[j].units \in Nat \ {0}
      /\ DataBytes(s)[j] = DataBytes(s)[j - 1] + Align * s[j].units
    BY ExtentIn
<1>3. i < j => DataBytes(s)[i - 1] + Align * s[i].units <= DataBytes(s)[j - 1]
    BY Injective
<1>4. j < i => DataBytes(s)[j - 1] + Align * s[j].units <= DataBytes(s)[i - 1]
    BY Injective
<1>5. i \in Int /\ j \in Int
    OBVIOUS
<1> QED BY <1>1, <1>2, <1>3, <1>4, <1>5

(* A pointer in use is found in its own sector. *)
LEMMA LivePlace ==
    ASSUME HeapInv, NEW l \in live
    PROVE  \E a \in Arenas : \E i \in Allocated(g_arenas[a].sectors) :
              /\ PlacesOf(l.ptr) = {<<a, i>>}
              /\ l.ptr = Piece(g_arenas[a].base, Extent(g_arenas[a].sectors, i)).ptr
              /\ l.ptr = arena_data_ptr_for_sector(g_arenas[a], i)
              /\ l.size <= Align * g_arenas[a].sectors[i].units
              /\ l.ptr \in Nat \ {0} /\ l.size \in Asked
              /\ g_arenas[a].base <= l.ptr
              /\ l.ptr + Align * g_arenas[a].sectors[i].units <= HeadersBottom(g_arenas[a])
<1>1. BlocksInv /\ Spread
    BY SpreadHolds DEF HeapInv
<1>2. PICK p \in AllPieces : p.ptr = l.ptr /\ l.size <= p.bytes
    BY DEF HeapInv, LiveSound
<1>3. PICK a \in Arenas : p \in Pieces(g_arenas[a])
    BY DEF AllPieces
<1> DEFINE s == g_arenas[a].sectors
<1>4. /\ ArenaSound(g_arenas[a]) /\ g_arenas[a].base \in Nat /\ Bytes(g_arenas[a]) \in Nat
    BY <1>1 DEF HeapInv, ArenasSound, Spread, Within
<1>5. /\ p.ptr \in Nat /\ p.bytes \in Nat \ {0} /\ g_arenas[a].base <= p.ptr
      /\ p.ptr + p.bytes <= HeadersBottom(g_arenas[a])
      /\ p.ptr + p.bytes <= g_arenas[a].base + Bytes(g_arenas[a])
    BY <1>3, <1>4, PieceIn
<1>6. PICK i \in Allocated(s) : /\ p.ptr = arena_data_ptr_for_sector(g_arenas[a], i)
                                /\ p.bytes = Align * s[i].units
    BY <1>3, <1>4, PieceIn
<1>7. s \in Seq(SectorRecords) /\ Filled(s) /\ i \in 1 .. Len(s) /\ DOMAIN s = 1 .. Len(s)
      /\ Len(s) \in Nat
      /\ SpaceOf(s) <= Bytes(g_arenas[a])
    <2>1. s \in Seq(SectorRecords) /\ Filled(s) /\ SpaceOf(s) <= Bytes(g_arenas[a])
        BY <1>4 DEF ArenaSound
    <2> QED BY <1>6, <2>1, SectorSeq DEF Allocated
<1>8. 1 .. Len(s) \subseteq SectorIndices
    <2>1. HeaderBytes * Len(s) <= Bytes(g_arenas[a])
        <3>1. /\ SpaceOf(s) = DataBytes(s)[Len(s)] + HeaderBytes * Len(s)
              /\ DataBytes(s)[Len(s)] \in Nat /\ HeaderBytes * Len(s) \in Nat
            BY <1>7, SpaceTyped
        <3> QED BY <1>4, <1>7, <3>1
    <2>2. 1 * Len(s) <= HeaderBytes * Len(s) /\ HeaderBytes * Len(s) \in Nat
        <3> DEFINE n == Len(s)
                   h == HeaderBytes
        <3>1. 1 \in Nat /\ h \in Nat /\ 1 <= h /\ n \in Nat
            BY <1>7, Numbers
        <3> HIDE DEF n, h
        <3>2. 1 * n <= h * n /\ h * n \in Nat
            BY <3>1, Scale
        <3> QED BY <3>2 DEF n, h
    <2>3. Bytes(g_arenas[a]) <= HeapBlocks * BlockBytes /\ HeapBlocks * BlockBytes \in Nat
        <3>1. g_arenas[a].blocks \in Nat /\ g_arenas[a].blocks <= HeapBlocks /\ HeapBlocks \in Nat
              /\ BlockBytes \in Nat
            BY <1>1, Numbers DEF Spread
        <3> QED BY <3>1, Scale DEF Bytes
    <2>4. Len(s) <= HeapBlocks * BlockBytes
        BY <1>4, <1>7, <2>1, <2>2, <2>3
    <2> QED BY <1>7, <2>3, <2>4 DEF SectorIndices
<1>9. a \in ArenaSlots /\ ArenaSlots \subseteq Nat
    BY Slots DEF Arenas
<1>10. \A b \in ArenaSlots : arena_contains_ptr(g_arenas[b], l.ptr) <=> b = a
    BY <1>1, <1>2, <1>4, <1>5, ContainsOnly
<1>11. \A j \in 1 .. Len(s) : /\ arena_data_ptr_for_sector(g_arenas[a], j)
                                   = g_arenas[a].base + DataBytes(s)[j - 1]
                              /\ arena_data_ptr_for_sector(g_arenas[a], j + 1)
                                   = g_arenas[a].base + DataBytes(s)[j]
    BY <1>7 DEF arena_data_ptr_for_sector
<1>12. \A j \in 1 .. Len(s) : DataBytes(s)[j - 1] \in Nat /\ DataBytes(s)[j] \in Nat
    BY <1>7, SectorAt
<1>13. DataBytes(s)[i - 1] < DataBytes(s)[i]
    BY <1>7, SectorAt
<1>14. l.ptr = g_arenas[a].base + DataBytes(s)[i - 1]
    BY <1>2, <1>6, <1>7, <1>11
<1>15. <<a, i>> \in PlacesOf(l.ptr)
    <2>1. <<a, i>> \in ArenaSlots \X SectorIndices
        BY <1>7, <1>8, <1>9
    <2>2. \A b \in 1 .. a - 1 : ~arena_contains_ptr(g_arenas[b], l.ptr)
        <3> SUFFICES ASSUME NEW b \in 1 .. a - 1 PROVE b \in ArenaSlots /\ b # a
            BY <1>10
        <3> QED BY <1>9, Numbers DEF ArenaSlots
    <2>3. /\ arena_data_ptr_for_sector(g_arenas[a], i) <= l.ptr
          /\ l.ptr < arena_data_ptr_for_sector(g_arenas[a], i + 1)
        BY <1>4, <1>7, <1>11, <1>12, <1>13, <1>14
    <2> QED BY <1>7, <1>9, <1>10, <2>1, <2>2, <2>3 DEF PlacesOf
<1>16. ASSUME NEW q \in PlacesOf(l.ptr) PROVE q = <<a, i>>
    <2>1. /\ q \in ArenaSlots \X SectorIndices
          /\ arena_contains_ptr(g_arenas[q[1]], l.ptr)
          /\ q[2] \in DOMAIN g_arenas[q[1]].sectors
          /\ arena_data_ptr_for_sector(g_arenas[q[1]], q[2]) <= l.ptr
          /\ l.ptr < arena_data_ptr_for_sector(g_arenas[q[1]], q[2] + 1)
        BY DEF PlacesOf
    <2>2. q[1] = a
        BY <1>10, <2>1
    <2> DEFINE j == q[2]
    <2>3. j \in 1 .. Len(s)
        BY <1>7, <2>1, <2>2
    <2>4. /\ g_arenas[a].base + DataBytes(s)[j - 1] <= l.ptr
          /\ l.ptr < g_arenas[a].base + DataBytes(s)[j]
        BY <1>11, <2>1, <2>2, <2>3
    <2> HIDE DEF j
    <2>5. DataBytes(s)[j - 1] <= DataBytes(s)[i - 1] /\ DataBytes(s)[i - 1] < DataBytes(s)[j]
        BY <1>4, <1>7, <1>12, <1>14, <2>3, <2>4
    <2>6. j = i
        BY <1>7, <2>3, <2>5, SectorAt
    <2> QED BY <2>1, <2>2, <2>6 DEF j
<1>17. PlacesOf(l.ptr) = {<<a, i>>}
    BY <1>15, <1>16
<1>18. l.ptr = Piece(g_arenas[a].base, Extent(s, i)).ptr
    BY <1>14 DEF Piece, Extent
<1>19. l.ptr \in Nat \ {0} /\ l.size \in Asked
    BY DEF HeapInv, LiveSound
<1> QED BY <1>2, <1>5, <1>6, <1>17, <1>18, <1>19

-----------------------------------------------------------------------------
(* What the steps do to the pieces. *)

LEMMA ResectoredSound ==
    ASSUME NEW arena, Shaped(arena), arena.in_use, NEW t \in Seq(SectorRecords),
           Filled(t), FreeJoined(t), SpaceOf(t) <= Bytes(arena)
    PROVE  /\ ArenaSound(Resectored(arena, t))
           /\ Pieces(Resectored(arena, t)) = {Piece(arena.base, e) : e \in Extents(t)}
<1> DEFINE x == Resectored(arena, t)
<1>1. x.base = arena.base /\ x.blocks = arena.blocks /\ x.in_use = arena.in_use /\ x.sectors = t
    BY ResectoredIs
<1> HIDE DEF x
<1>2. ArenaSound(x)
    BY <1>1 DEF ArenaSound, Bytes
<1>3. Pieces(x) = {Piece(arena.base, e) : e \in Extents(t)}
    BY <1>1 DEF Pieces
<1> QED BY <1>2, <1>3 DEF x

(* The arena whose sectors change, and the others. *)
LEMMA ResectoredPut ==
    ASSUME BlocksInv, NEW a \in Arenas, NEW t,
           g_arenas' = [g_arenas EXCEPT ![a] = Resectored(@, t)]
    PROVE  /\ g_arenas'[a] = Resectored(g_arenas[a], t) /\ Shaped(g_arenas[a]) /\ g_arenas[a].in_use
           /\ \A b \in Arenas : b # a => g_arenas'[b] = g_arenas[b]
           /\ Arenas' = Arenas
<1>1. BlocksTyped /\ a \in ArenaSlots /\ g_arenas[a].in_use
    BY DEF BlocksInv, Arenas, SlotsHeld
<1>2. Shaped(g_arenas[a])
    BY <1>1 DEF BlocksTyped
<1> DEFINE x == Resectored(g_arenas[a], t)
<1>3. Shaped(x) /\ x.base = g_arenas[a].base
    BY <1>2, ResectoredIs
<1>4. g_arenas' = [g_arenas EXCEPT ![a] = x]
    BY <1>1 DEF BlocksTyped
<1> HIDE DEF x
<1>5. /\ g_arenas'[a] = x
      /\ \A b \in ArenaSlots : b # a => g_arenas'[b] = g_arenas[b]
    BY <1>1, <1>3, <1>4, ArenaPut
<1>6. Arenas' = Arenas
    BY <1>1, <1>3, <1>5 DEF Arenas
<1> QED BY <1>1, <1>2, <1>5, <1>6 DEF x, Arenas

LEMMA FreeSectionSound ==
    ASSUME HeapInv, BlocksInv', NEW l \in live, FreeSection(l.ptr),
           live' = {k \in live : k.ptr # l.ptr}, OldsStay,
           \A u \in Threads : OldOf(call'[u]) # l.ptr
    PROVE  HeapInv'
<1>1. BlocksInv /\ ArenasSound
    BY DEF HeapInv
<1>2. PICK a \in Arenas : \E i \in Allocated(g_arenas[a].sectors) :
              /\ PlacesOf(l.ptr) = {<<a, i>>}
              /\ l.ptr = Piece(g_arenas[a].base, Extent(g_arenas[a].sectors, i)).ptr
    BY LivePlace
<1> DEFINE s == g_arenas[a].sectors
<1>3. PICK i \in Allocated(s) :
              /\ PlacesOf(l.ptr) = {<<a, i>>}
              /\ l.ptr = Piece(g_arenas[a].base, Extent(s, i)).ptr
    BY <1>2
<1> DEFINE t == arena_shrink_free_tail(Coalesce(s, i))
           e == Extent(s, i)
           p == Piece(g_arenas[a].base, e)
<1>4. /\ ArenaSound(g_arenas[a]) /\ g_arenas[a].base \in Nat /\ Bytes(g_arenas[a]) \in Nat
    BY <1>1, SpreadHolds DEF ArenasSound, Spread, Within
<1>5. s \in Seq(SectorRecords) /\ Filled(s) /\ FreeJoined(s) /\ SpaceOf(s) <= Bytes(g_arenas[a])
    BY <1>4 DEF ArenaSound
<1>6. i \in 1 .. Len(s) /\ s[i].allocated
    BY <1>5, SectorSeq DEF Allocated
<1>7. /\ t \in Seq(SectorRecords) /\ Filled(t) /\ FreeJoined(t)
      /\ SpaceOf(t) <= SpaceOf(s)
      /\ Extents(t) = Extents(s) \ {e}
    BY <1>5, <1>6, FreeEffect
<1> HIDE DEF t
<1>8. ~IsSentinel(t)
    <2> SUFFICES ASSUME t = <<Sector(FALSE, 0)>> PROVE FALSE
        BY DEF IsSentinel
    <2>1. 1 \in DOMAIN t /\ t[1] = Sector(FALSE, 0)
        OBVIOUS
    <2>2. t[1].units = 0
        BY <2>1 DEF Sector
    <2> QED BY <1>7, <2>1, <2>2 DEF Filled
<1>9. g_arenas' = [g_arenas EXCEPT ![a] = Resectored(@, t)]
    <2>1. ASSUME NEW b \in ArenaSlots, NEW j \in DOMAIN g_arenas[b].sectors,
                 <<b, j>> \in PlacesOf(l.ptr),
                 LET sectors == arena_shrink_free_tail(Coalesce(g_arenas[b].sectors, j))
                 IN IF IsSentinel(sectors)
                    THEN /\ g_arenas' = [g_arenas EXCEPT ![b] = UnusedArena]
                         /\ allocs' = Without(g_arenas[b].base)
                    ELSE /\ g_arenas' = [g_arenas EXCEPT ![b].sectors = sectors]
                         /\ UNCHANGED allocs
          PROVE  g_arenas' = [g_arenas EXCEPT ![a] = Resectored(@, t)]
        <3>1. b = a /\ j = i
            BY <1>3, <2>1
        <3>2. g_arenas' = [g_arenas EXCEPT ![a].sectors = t]
            BY <1>8, <2>1, <3>1 DEF t
        <3> QED BY <3>2 DEF Resectored
    <2>2. ~\A q \in PlacesOf(l.ptr) : ~g_arenas[q[1]].sectors[q[2]].allocated
        BY <1>3, <1>6
    <2> QED BY <2>1, <2>2 DEF FreeSection
<1>10. /\ g_arenas'[a] = Resectored(g_arenas[a], t) /\ Shaped(g_arenas[a]) /\ g_arenas[a].in_use
       /\ \A b \in Arenas : b # a => g_arenas'[b] = g_arenas[b]
       /\ Arenas' = Arenas
    BY <1>1, <1>9, ResectoredPut
<1>11. SpaceOf(t) <= Bytes(g_arenas[a])
    <2>1. SpaceOf(s) \in Nat /\ SpaceOf(t) \in Nat
        BY <1>5, <1>7, SpaceTyped
    <2> HIDE DEF s
    <2> QED BY <1>4, <1>5, <1>7, <2>1
<1>12. /\ ArenaSound(g_arenas'[a])
       /\ Pieces(g_arenas'[a]) = {Piece(g_arenas[a].base, x) : x \in Extents(t)}
    BY <1>7, <1>10, <1>11, ResectoredSound
<1>13. Pieces(g_arenas[a]) = {Piece(g_arenas[a].base, x) : x \in Extents(s)} /\ e \in Extents(s)
    BY DEF Pieces, Extents
<1>14. ASSUME NEW x \in Extents(s), Piece(g_arenas[a].base, x) = p PROVE x = e
    <2>1. PICK j \in Allocated(s) : x = Extent(s, j)
        BY DEF Extents
    <2>2. j \in 1 .. Len(s)
        BY <1>5, <2>1, SectorSeq DEF Allocated
    <2>3. DataBytes(s)[i - 1] \in Nat /\ DataBytes(s)[j - 1] \in Nat
        BY <1>5, <1>6, <2>2, SectorAt
    <2>4. g_arenas[a].base + DataBytes(s)[j - 1] = g_arenas[a].base + DataBytes(s)[i - 1]
        BY <1>14, <2>1 DEF Piece, Extent
    <2>5. DataBytes(s)[j - 1] = DataBytes(s)[i - 1]
        BY <1>4, <2>3, <2>4
    <2>6. j = i
        BY <1>5, <1>6, <2>2, <2>5, ExtentsDiffer
    <2> QED BY <2>1, <2>6
<1> HIDE DEF p, e, s
<1>15. Pieces(g_arenas'[a]) = Pieces(g_arenas[a]) \ {p}
    BY <1>7, <1>12, <1>13, <1>14 DEF p
<1>16. p \in Pieces(g_arenas[a]) /\ p.ptr = l.ptr
    BY <1>3, <1>13 DEF p, e
<1> QED BY <1>10, <1>12, <1>15, <1>16, ShrinkStep

(* The data of an arena ends inside the heap. *)
LEMMA DataEndIs ==
    ASSUME NEW arena, ArenaSound(arena), Within(arena.base, Bytes(arena))
    PROVE  /\ DataEnd(arena, 0) = arena.base + DataBytes(arena.sectors)[Len(arena.sectors)]
           /\ DataEnd(arena, 0) \in Nat /\ DataEnd(arena, 0) <= BlockBytes * (HeapBlocks + 1)
<1> DEFINE s == arena.sectors
           d == DataBytes(s)[Len(s)]
           h == HeaderBytes * Len(s)
           base == arena.base
           bytes == Bytes(arena)
           limit == BlockBytes * (HeapBlocks + 1)
<1>1. s \in Seq(SectorRecords) /\ Filled(s) /\ SpaceOf(s) <= bytes
    BY DEF ArenaSound
<1>2. SpaceOf(s) = d + h /\ d \in Nat /\ h \in Nat /\ SpaceOf(s) \in Nat
    BY <1>1, SpaceTyped
<1>3. base \in Nat /\ bytes \in Nat /\ base + bytes <= limit
    BY DEF Within
<1>4. limit \in Nat /\ limit < SizeMod /\ SizeMod \in Nat
    <2>1. SizeMod \in Nat /\ SizeMod > limit
        BY Numbers
    <2>2. BlockBytes \in Nat /\ HeapBlocks \in Nat
        BY Numbers
    <2>3. limit \in Nat
        BY <2>2
    <2> HIDE DEF limit
    <2> QED BY <2>1, <2>3
<1>5. DataEnd(arena, 0) = (base + d + 0) % SizeMod
    BY DEF DataEnd, arena_total_data_bytes
<1> HIDE DEF s, d, h, base, bytes, limit
<1>6. base + d + 0 = base + d /\ base + d \in Nat /\ base + d <= limit /\ base + d < SizeMod
    BY <1>1, <1>2, <1>3, <1>4
<1>7. DataEnd(arena, 0) = base + d
    BY <1>4, <1>5, <1>6, Small
<1> QED BY <1>6, <1>7 DEF s, d, base, limit

(* No sum of an append to an arena wraps, if what it hands out does not. *)
LEMMA AppendFits ==
    ASSUME NEW arena, ArenaSound(arena), Within(arena.base, Bytes(arena)),
           NEW size \in Asked, arena_can_append(arena, align_up(size)),
           DataEnd(arena, 0) + size + Align <= SizeMod
    PROVE  /\ SpaceOf(arena.sectors) + HeaderBytes + align_up(size) <= Bytes(arena)
           /\ DataEnd(arena, 0) = arena.base + DataBytes(arena.sectors)[Len(arena.sectors)]
           /\ ~IsSentinel(arena.sectors) /\ size + Align <= SizeMod
<1> DEFINE s == arena.sectors
           d == DataBytes(s)[Len(s)]
           h == HeaderBytes * Len(s)
           u == align_up(size)
           base == arena.base
           bytes == Bytes(arena)
           limit == BlockBytes * (HeapBlocks + 1)
<1>1. s \in Seq(SectorRecords) /\ Filled(s) /\ SpaceOf(s) <= bytes
    BY DEF ArenaSound
<1>2. SpaceOf(s) = d + h /\ d \in Nat /\ h \in Nat /\ SpaceOf(s) \in Nat
    BY <1>1, SpaceTyped
<1>3. ~IsSentinel(s)
    <2> SUFFICES ASSUME s = <<Sector(FALSE, 0)>> PROVE FALSE
        BY DEF IsSentinel
    <2>1. 1 \in DOMAIN s /\ s[1] = Sector(FALSE, 0)
        OBVIOUS
    <2>2. s[1].units = 0
        BY <2>1 DEF Sector
    <2> QED BY <1>1, <2>1, <2>2 DEF Filled
<1>4. /\ u \in Nat /\ u < size + Align /\ size \in Nat /\ Align \in Nat /\ SizeMod \in Nat
      /\ limit \in Nat /\ limit < SizeMod /\ HeaderBytes \in Nat \ {0}
      /\ DataEnd(arena, 0) = base + d /\ base + d + size + Align <= SizeMod
      /\ size + Align <= SizeMod
    <2>1. /\ DataEnd(arena, 0) = base + d /\ DataEnd(arena, 0) \in Nat
        BY DataEndIs
    <2>2. size \in Nat /\ Align \in Nat /\ SizeMod \in Nat /\ HeaderBytes \in Nat \ {0}
          /\ limit \in Nat /\ limit < SizeMod
        <3>1. size \in Nat /\ BlockBytes \in Nat /\ HeapBlocks \in Nat /\ SizeMod \in Nat
            BY Numbers, AskedTyped
        <3>2. limit \in Nat
            BY <3>1
        <3>3. SizeMod > limit /\ Align \in Nat /\ HeaderBytes \in Nat \ {0}
            BY Numbers
        <3> HIDE DEF limit
        <3> QED BY <3>1, <3>2, <3>3
    <2> DEFINE end == DataEnd(arena, 0)
    <2>3. end \in Nat /\ end + size + Align <= SizeMod
        BY <2>1
    <2> HIDE DEF end
    <2>4. size + Align <= SizeMod
        BY <2>2, <2>3
    <2>5. u \in Nat /\ u < size + Align
        BY <2>4, AlignUp
    <2> HIDE DEF u, limit
    <2> QED BY <2>1, <2>2, <2>4, <2>5
<1>5. base \in Nat /\ bytes \in Nat /\ BlockBytes <= base /\ base + bytes <= limit
    BY DEF Within
<1>6. HeaderBytes <= BlockBytes /\ BlockBytes \in Nat
    BY Numbers
<1>7. DataEnd(arena, u) = (base + d + u) % SizeMod
    BY DEF DataEnd, arena_total_data_bytes
<1>8. DataLimit(arena) = (base + bytes - h - HeaderBytes) % SizeMod
    <2>1. HeadersBottom(arena) = base + bytes - h
        BY DEF HeadersBottom
    <2> DEFINE gap == IF IsSentinel(arena.sectors) THEN 0 ELSE HeaderBytes
    <2>2. gap = HeaderBytes
        BY <1>3
    <2>3. DataLimit(arena) = (HeadersBottom(arena) - gap) % SizeMod
        BY DEF DataLimit
    <2> HIDE DEF base, bytes, h, gap
    <2>4. (base + bytes - h) - HeaderBytes = base + bytes - h - HeaderBytes
        BY <1>2, <1>4, <1>5
    <2>5. HeadersBottom(arena) - gap = base + bytes - h - HeaderBytes
        BY <2>1, <2>2, <2>4, Zenon
    <2> QED BY <2>3, <2>5, Zenon
<1>9. DataEnd(arena, u) <= DataLimit(arena)
    BY DEF arena_can_append
<1> HIDE DEF s, d, h, u, base, bytes, limit
<1>10. base + d + u \in Nat /\ base + d + u < SizeMod
    BY <1>1, <1>2, <1>4, <1>5
<1>11. base + bytes - h - HeaderBytes \in Nat /\ base + bytes - h - HeaderBytes < SizeMod
    BY <1>1, <1>2, <1>4, <1>5, <1>6
<1>12. base + d + u <= base + bytes - h - HeaderBytes
    BY <1>4, <1>7, <1>8, <1>9, <1>10, <1>11, Small
<1>13. SpaceOf(s) + HeaderBytes + u <= bytes
    BY <1>2, <1>4, <1>5, <1>12
<1> QED BY <1>3, <1>4, <1>13 DEF s, d, u, base, bytes

LEMMA FirstFits ==
    ASSUME NEW base, NEW blocks, Within(base, blocks * BlockBytes), NEW size \in Asked,
           base + size + Align <= SizeMod,
           arena_can_append(NewArena(base, blocks), align_up(size))
    PROVE  align_up(size) + HeaderBytes <= blocks * BlockBytes
<1> DEFINE n == NewArena(base, blocks)
           u == align_up(size)
           bytes == blocks * BlockBytes
           limit == BlockBytes * (HeapBlocks + 1)
           s == <<Sector(FALSE, 0)>>
<1>1. n.base = base /\ n.blocks = blocks /\ n.sectors = s
    BY DEF NewArena
<1>2. Len(s) = 1 /\ DataBytes(s)[1] = Align * 0
    BY SingleEffect
<1>3. base \in Nat /\ bytes \in Nat /\ BlockBytes <= base /\ base + bytes <= limit
    BY DEF Within
<1>4. /\ u \in Nat /\ u < size + Align /\ size \in Nat /\ Align \in Nat /\ SizeMod \in Nat
      /\ limit \in Nat /\ limit < SizeMod /\ HeaderBytes \in Nat \ {0}
    <2>1. size \in Nat /\ BlockBytes \in Nat /\ HeapBlocks \in Nat /\ SizeMod \in Nat
          /\ Align \in Nat
        BY Numbers, AskedTyped
    <2>2. limit \in Nat
        BY <2>1
    <2>3. SizeMod > limit /\ HeaderBytes \in Nat \ {0}
        BY Numbers
    <2>4. size + Align <= SizeMod
        BY <1>3, <2>1
    <2>5. u \in Nat /\ u < size + Align
        BY <2>4, AlignUp
    <2> HIDE DEF limit, u
    <2> QED BY <2>1, <2>2, <2>3, <2>5
<1>5. HeaderBytes <= BlockBytes /\ BlockBytes \in Nat
    BY Numbers
<1>6. IsSentinel(s)
    BY DEF IsSentinel
<1> HIDE DEF s
<1>7. DataEnd(n, u) = (base + Align * 0 + u) % SizeMod
    BY <1>1, <1>2 DEF DataEnd, arena_total_data_bytes
<1>8. DataLimit(n) = (base + bytes - HeaderBytes * 1 - 0) % SizeMod
    <2>1. HeadersBottom(n) = base + bytes - HeaderBytes * 1
        BY <1>1, <1>2 DEF HeadersBottom, Bytes
    <2> DEFINE gap == IF IsSentinel(n.sectors) THEN 0 ELSE HeaderBytes
    <2>2. gap = 0
        BY <1>1, <1>6
    <2>3. DataLimit(n) = (HeadersBottom(n) - gap) % SizeMod
        BY DEF DataLimit
    <2> HIDE DEF n, bytes, gap
    <2>4. (base + bytes - HeaderBytes * 1) - 0 = base + bytes - HeaderBytes * 1 - 0
        BY <1>4, <1>3
    <2>5. HeadersBottom(n) - gap = base + bytes - HeaderBytes * 1 - 0
        BY <2>1, <2>2, <2>4, Zenon
    <2> QED BY <2>3, <2>5, Zenon
<1>9. DataEnd(n, u) <= DataLimit(n)
    BY DEF arena_can_append
<1> HIDE DEF n, u, bytes, limit
<1>10. /\ base + Align * 0 + u = base + u
       /\ base + bytes - HeaderBytes * 1 - 0 = base + bytes - HeaderBytes
    BY <1>4, <1>3
<1>11. base + u \in Nat /\ base + u < SizeMod
    BY <1>4, <1>3
<1>12. base + bytes - HeaderBytes \in Nat /\ base + bytes - HeaderBytes < SizeMod
    BY <1>4, <1>3, <1>5
<1>13. base + u <= base + bytes - HeaderBytes
    <2>1. (base + u) % SizeMod = base + u
        BY <1>4, <1>11, Small
    <2>2. (base + bytes - HeaderBytes) % SizeMod = base + bytes - HeaderBytes
        BY <1>4, <1>12, Small
    <2> QED BY <1>7, <1>8, <1>9, <1>10, <2>1, <2>2
<1> QED BY <1>4, <1>3, <1>13 DEF u, bytes

LEMMA OldsGo ==
    ASSUME BlocksTyped, NEW t \in Threads, NEW c, Goto(t, c), OldOf(c) \in {OldOf(call[t]), NULL}
    PROVE  OldsStay
<1>1. call = [u \in Threads |-> call[u]]
    BY DEF BlocksTyped
<1>2. call'[t] = c /\ \A u \in Threads : u # t => call'[u] = call[u]
    BY <1>1 DEF Goto
<1> QED BY <1>2 DEF OldsStay

LEMMA OldsReturn ==
    ASSUME BlocksTyped, NEW t \in Threads, NEW old, old \in {OldOf(call[t]), NULL},
           Goto(t, IF old = NULL THEN Idle ELSE [at |-> "copy", old |-> old])
    PROVE  OldsStay
<1> DEFINE c == IF old = NULL THEN Idle ELSE [at |-> "copy", old |-> old]
<1>1. OldOf(c) \in {old, NULL}
    BY DEF OldOf, Idle
<1> HIDE DEF c
<1>2. Goto(t, c)
    BY DEF c
<1> QED BY <1>1, <1>2, OldsGo

(* A free sector is handed out again. *)
LEMMA ReuseSound ==
    ASSUME NoneWraps', HeapInv, BlocksInv', NEW a \in ArenaSlots,
           NEW i \in DOMAIN g_arenas[a].sectors,
           NEW size \in Asked, <<a, i>> \in FreeSectors(align_up(size) \div Align),
           g_arenas' = [g_arenas EXCEPT ![a].sectors[i].allocated = TRUE],
           live' = live \cup {[ptr |-> arena_data_ptr_for_sector(g_arenas[a], i), size |-> size]},
           OldsStay
    PROVE  HeapInv' /\ Fresh(arena_data_ptr_for_sector(g_arenas[a], i))
<1> DEFINE s == g_arenas[a].sectors
           t == Flagged(s, i, TRUE)
           e == Extent(s, i)
           p == Piece(g_arenas[a].base, e)
<1>1. BlocksInv /\ ArenasSound
    BY DEF HeapInv
<1>2. a \in Arenas
    BY <1>1, Unfounded
<1>3. /\ ArenaSound(g_arenas[a]) /\ g_arenas[a].base \in Nat /\ Bytes(g_arenas[a]) \in Nat
    BY <1>1, <1>2, SpreadHolds DEF ArenasSound, Spread, Within
<1>4. s \in Seq(SectorRecords) /\ Filled(s) /\ FreeJoined(s) /\ SpaceOf(s) <= Bytes(g_arenas[a])
    BY <1>3 DEF ArenaSound
<1>5. i \in 1 .. Len(s) /\ ~s[i].allocated /\ s[i].units >= align_up(size) \div Align
    <2>1. i \in 1 .. Len(s)
        BY <1>4, SectorSeq
    <2> QED BY <2>1 DEF FreeSectors
<1>6. size <= Align * s[i].units
    <2>1. size + Align <= SizeMod
        <3> DEFINE ptr == arena_data_ptr_for_sector(g_arenas[a], i)
                   l == [ptr |-> ptr, size |-> size]
        <3>1. ptr \in Nat
            <4>1. DataBytes(s)[i - 1] \in Nat
                BY <1>4, <1>5, SectorAt
            <4> QED BY <1>3, <4>1 DEF arena_data_ptr_for_sector
        <3> HIDE DEF ptr
        <3>2. l \in live' /\ l.ptr = ptr /\ l.size = size
            BY DEF ptr
        <3>3. ptr + size + Align <= SizeMod
            BY <3>2 DEF NoneWraps
        <3>4. size \in Nat /\ Align \in Nat /\ SizeMod \in Nat
            BY Numbers, AskedTyped
        <3> QED BY <3>1, <3>3, <3>4
    <2>2. /\ align_up(size) \div Align \in Nat /\ size <= align_up(size) /\ Align \in Nat
             /\ size \in Nat
          /\ align_up(size) = Align * (align_up(size) \div Align) /\ align_up(size) \in Nat
        BY <2>1, AlignUp
    <2> DEFINE q == align_up(size) \div Align
               k == s[i].units
    <2>3. k \in Nat /\ q \in Nat /\ q <= k
        BY <1>4, <1>5, <2>2, SectorSeq
    <2>4. size <= Align * q
        BY <2>2
    <2> HIDE DEF q, k
    <2>5. Align * q <= Align * k /\ Align * q \in Nat /\ Align * k \in Nat
        BY <2>2, <2>3, Scale
    <2>6. size <= Align * k
        BY <2>2, <2>4, <2>5
    <2> QED BY <2>6 DEF k
<1>7. /\ t \in Seq(SectorRecords) /\ Filled(t) /\ FreeJoined(t)
      /\ SpaceOf(t) = SpaceOf(s)
      /\ Extents(t) = Extents(s) \cup {e}
      /\ \A x \in Extents(s) : x.at # e.at
    BY <1>4, <1>5, ReuseEffect
<1>8. g_arenas' = [g_arenas EXCEPT ![a] = Resectored(@, t)]
    BY DEF Resectored, Flagged
<1> HIDE DEF t
<1>9. /\ g_arenas'[a] = Resectored(g_arenas[a], t) /\ Shaped(g_arenas[a]) /\ g_arenas[a].in_use
      /\ \A b \in Arenas : b # a => g_arenas'[b] = g_arenas[b]
      /\ Arenas' = Arenas
    BY <1>1, <1>2, <1>8, ResectoredPut
<1>10. /\ ArenaSound(g_arenas'[a])
       /\ Pieces(g_arenas'[a]) = {Piece(g_arenas[a].base, x) : x \in Extents(t)}
    BY <1>4, <1>7, <1>9, ResectoredSound
<1>11. Pieces(g_arenas[a]) = {Piece(g_arenas[a].base, x) : x \in Extents(s)}
    BY DEF Pieces
<1>12. p.ptr = arena_data_ptr_for_sector(g_arenas[a], i) /\ size <= p.bytes
    BY <1>6 DEF Piece, Extent, arena_data_ptr_for_sector
<1>13. \A q \in Pieces(g_arenas[a]) : q.ptr # p.ptr
    <2> SUFFICES ASSUME NEW x \in Extents(s) PROVE Piece(g_arenas[a].base, x).ptr # p.ptr
        BY <1>11
    <2>1. PICK j \in Allocated(s) : x = Extent(s, j)
        BY DEF Extents
    <2>2. j \in 1 .. Len(s)
        BY <1>4, <2>1, SectorSeq DEF Allocated
    <2>3. DataBytes(s)[i - 1] \in Nat /\ DataBytes(s)[j - 1] \in Nat
        BY <1>4, <1>5, <2>2, SectorAt
    <2>4. DataBytes(s)[j - 1] # DataBytes(s)[i - 1]
        BY <1>7, <2>1 DEF Extent
    <2>5. /\ Piece(g_arenas[a].base, x).ptr = g_arenas[a].base + DataBytes(s)[j - 1]
          /\ p.ptr = g_arenas[a].base + DataBytes(s)[i - 1]
        BY <2>1 DEF Piece, Extent
    <2> HIDE DEF p, s
    <2> QED BY <1>3, <2>3, <2>4, <2>5
<1> HIDE DEF p, e, s
<1>14. Pieces(g_arenas'[a]) = {p} \cup Pieces(g_arenas[a])
    BY <1>7, <1>10, <1>11 DEF p
<1>15. live' = live \cup {[ptr |-> p.ptr, size |-> size]}
    BY <1>12
<1>16. HeapInv' /\ Fresh(p.ptr)
    BY <1>2, <1>9, <1>10, <1>12, <1>13, <1>14, <1>15, GrowStep
<1> QED BY <1>12, <1>16

(* A sector is appended to an arena. *)
LEMMA AppendSound ==
    ASSUME NoneWraps', HeapInv, BlocksInv', NEW a \in Arenas, NEW size \in Asked,
           arena_can_append(g_arenas[a], align_up(size)),
           g_arenas' = [g_arenas EXCEPT ![a] = arena_append_sector(@, align_up(size) \div Align)],
           live' = live \cup {[ptr |-> DataEnd(g_arenas[a], 0), size |-> size]},
           OldsStay
    PROVE  HeapInv' /\ Fresh(DataEnd(g_arenas[a], 0))
<1> DEFINE s == g_arenas[a].sectors
           units == align_up(size) \div Align
           t == Append(s, Sector(TRUE, units))
           e == [at |-> DataBytes(s)[Len(s)], bytes |-> Align * units]
           p == Piece(g_arenas[a].base, e)
<1>1. BlocksInv /\ ArenasSound
    BY DEF HeapInv
<1>2. /\ ArenaSound(g_arenas[a]) /\ g_arenas[a].base \in Nat /\ Bytes(g_arenas[a]) \in Nat
      /\ Within(g_arenas[a].base, Bytes(g_arenas[a]))
    BY <1>1, SpreadHolds DEF ArenasSound, Spread, Within
<1>3. s \in Seq(SectorRecords) /\ Filled(s) /\ FreeJoined(s) /\ SpaceOf(s) <= Bytes(g_arenas[a])
    BY <1>2 DEF ArenaSound
<1>4. /\ SpaceOf(s) + HeaderBytes + align_up(size) <= Bytes(g_arenas[a])
      /\ DataEnd(g_arenas[a], 0) = g_arenas[a].base + DataBytes(s)[Len(s)]
      /\ ~IsSentinel(s) /\ size + Align <= SizeMod
    <2> DEFINE l == [ptr |-> DataEnd(g_arenas[a], 0), size |-> size]
    <2>1. l \in live' /\ l.ptr = DataEnd(g_arenas[a], 0) /\ l.size = size
        OBVIOUS
    <2>2. DataEnd(g_arenas[a], 0) + size + Align <= SizeMod
        BY <2>1 DEF NoneWraps
    <2> QED BY <1>2, <2>2, AppendFits
<1>5. units \in Nat \ {0} /\ align_up(size) = Align * units /\ size <= Align * units
    BY <1>4, AlignUp
<1> HIDE DEF units
<1>6. /\ t \in Seq(SectorRecords) /\ Filled(t) /\ FreeJoined(t)
      /\ SpaceOf(t) = SpaceOf(s) + HeaderBytes + Align * units
      /\ Extents(t) = Extents(s) \cup {e}
      /\ \A x \in Extents(s) : x.at # e.at
    BY <1>3, <1>5, AppendEffect
<1>7. g_arenas' = [g_arenas EXCEPT ![a] = Resectored(@, t)]
    <2>1. a \in ArenaSlots /\ g_arenas = [b \in ArenaSlots |-> g_arenas[b]]
        BY <1>1 DEF Arenas, BlocksInv, BlocksTyped
    <2>2. arena_append_sector(g_arenas[a], units) = Resectored(g_arenas[a], t)
        BY <1>4 DEF arena_append_sector, Resectored
    <2>3. g_arenas' = [g_arenas EXCEPT ![a] = arena_append_sector(g_arenas[a], units)]
        BY <2>1 DEF units
    <2> HIDE DEF t
    <2>4. g_arenas' = [g_arenas EXCEPT ![a] = Resectored(g_arenas[a], t)]
        BY <2>2, <2>3
    <2> QED BY <2>1, <2>4
<1> HIDE DEF t
<1>8. /\ g_arenas'[a] = Resectored(g_arenas[a], t) /\ Shaped(g_arenas[a]) /\ g_arenas[a].in_use
      /\ \A b \in Arenas : b # a => g_arenas'[b] = g_arenas[b]
      /\ Arenas' = Arenas
    BY <1>1, <1>7, ResectoredPut
<1>9. SpaceOf(t) <= Bytes(g_arenas[a])
    BY <1>4, <1>5, <1>6
<1>10. /\ ArenaSound(g_arenas'[a])
       /\ Pieces(g_arenas'[a]) = {Piece(g_arenas[a].base, x) : x \in Extents(t)}
    BY <1>6, <1>8, <1>9, ResectoredSound
<1>11. Pieces(g_arenas[a]) = {Piece(g_arenas[a].base, x) : x \in Extents(s)}
    BY DEF Pieces
<1>12. p.ptr = DataEnd(g_arenas[a], 0) /\ size <= p.bytes
    BY <1>4, <1>5 DEF Piece
<1>13. \A q \in Pieces(g_arenas[a]) : q.ptr # p.ptr
    <2> SUFFICES ASSUME NEW x \in Extents(s) PROVE Piece(g_arenas[a].base, x).ptr # p.ptr
        BY <1>11
    <2>1. PICK j \in Allocated(s) : x = Extent(s, j)
        BY DEF Extents
    <2>2. j \in 1 .. Len(s)
        BY <1>3, <2>1, SectorSeq DEF Allocated
    <2>3. DataBytes(s)[j - 1] \in Nat
        BY <1>3, <2>2, SectorAt
    <2>4. DataBytes(s)[j - 1] # DataBytes(s)[Len(s)]
        BY <1>6, <2>1 DEF Extent
    <2>5. /\ Piece(g_arenas[a].base, x).ptr = g_arenas[a].base + DataBytes(s)[j - 1]
          /\ p.ptr = g_arenas[a].base + DataBytes(s)[Len(s)]
        BY <2>1 DEF Piece, Extent
    <2>6. DataBytes(s)[Len(s)] \in Nat
        BY <1>3, SpaceTyped
    <2> HIDE DEF p, s
    <2> QED BY <1>2, <2>3, <2>4, <2>5, <2>6
<1> HIDE DEF p, e, s
<1>14. Pieces(g_arenas'[a]) = {p} \cup Pieces(g_arenas[a])
    BY <1>6, <1>10, <1>11 DEF p
<1>15. live' = live \cup {[ptr |-> p.ptr, size |-> size]}
    BY <1>12
<1>16. HeapInv' /\ Fresh(p.ptr)
    BY <1>8, <1>10, <1>12, <1>13, <1>14, <1>15, GrowStep
<1> QED BY <1>12, <1>16

(* A new arena holds the piece it was made for. *)
LEMMA FoundedSound ==
    ASSUME NEW base \in Nat, NEW blocks \in Nat, NEW units \in Nat \ {0},
           Align * units + HeaderBytes <= blocks * BlockBytes
    PROVE  /\ ArenaSound(Founded(base, blocks, units))
           /\ Pieces(Founded(base, blocks, units)) = {[ptr |-> base, bytes |-> Align * units]}
<1> DEFINE n == NewArena(base, blocks)
           s == <<Sector(TRUE, units)>>
           x == Founded(base, blocks, units)
           e == [at |-> 0, bytes |-> Align * units]
<1>1. /\ s \in Seq(SectorRecords) /\ FreeJoined(s) /\ Filled(s)
      /\ SpaceOf(s) = Align * units + HeaderBytes /\ Extents(s) = {e}
    <2>1. units \in Nat /\ units # 0
        OBVIOUS
    <2> QED BY <2>1, SingleEffect
<1>2. Shaped(n) /\ IsSentinel(n.sectors)
    <2>1. n = [in_use |-> TRUE, base |-> base, blocks |-> blocks, sectors |-> <<Sector(FALSE, 0)>>]
        BY DEF NewArena
    <2> HIDE DEF n
    <2>2. n.base = base /\ n.blocks = blocks /\ n.in_use = TRUE /\ n.sectors = <<Sector(FALSE, 0)>>
        BY <2>1
    <2> QED BY <2>1, <2>2 DEF Shaped, IsSentinel
<1>3. x = Resectored(n, s)
    <2> HIDE DEF n
    <2>1. arena_append_sector(n, units) = Resectored(n, s)
        BY <1>2 DEF arena_append_sector, Resectored
    <2> HIDE DEF s
    <2> QED BY <2>1 DEF Founded, n
<1> HIDE DEF n
<1>4. x.sectors = s
    <2> HIDE DEF s, x
    <2>1. Resectored(n, s).sectors = s
        BY <1>2, ResectoredIs
    <2> QED BY <1>3, <2>1
<1>5. x.in_use /\ x.base = base /\ x.blocks = blocks
    <2> HIDE DEF x
    <2> QED BY NewArenaIs DEF x
<1> HIDE DEF x, s
<1>6. ArenaSound(x)
    BY <1>1, <1>4, <1>5 DEF ArenaSound, Bytes
<1>7. Pieces(x) = {Piece(base, e)}
    BY <1>1, <1>4, <1>5 DEF Pieces
<1>8. Piece(base, e) = [ptr |-> base, bytes |-> Align * units]
    BY DEF Piece
<1> QED BY <1>6, <1>7, <1>8 DEF x

(* A call obtains ptr.  What else a section of kmalloc() does to the        *)
(* allocations and to the call.                                             *)
Obtained(t, ptr, size, old) == Returns(t, ptr, size, old) /\ Fresh(ptr)

ArenaEffect(t, c) ==
    \/ Obtained(t, c.base, c.size, c.old)
    \/ Goto(t, [at |-> "giveback", base |-> c.base]) /\ UNCHANGED live

SectionEffect(t, size, old) ==
    \/ \E ptr : Obtained(t, ptr, size, old)
    \/ \E slot : Goto(t, [at |-> "blocks", slot |-> slot, size |-> size, old |-> old])
                 /\ UNCHANGED live
    \/ Fails(t)
    \/ UNCHANGED <<live, call>>

LEMMA MallocArenaSound ==
    ASSUME NoneWraps', HeapInv, NEW t \in Threads, MallocArena(t)
    PROVE  HeapInv' /\ ArenaEffect(t, call[t])
<1> DEFINE c == call[t]
           bytes == align_up(c.size)
           units == bytes \div Align
           m == c.slot
           x == Founded(c.base, c.blocks, units)
           p == [ptr |-> c.base, bytes |-> Align * units]
<1>1. BlocksInv /\ BlocksInv' /\ BlocksTyped /\ CallTyped(c) /\ c.at = "arena"
    BY MallocArenaKeeps DEF HeapInv, BlocksInv, BlocksTyped, MallocArena, In
<1>2. /\ m \in ArenaSlots /\ c.base \in Nat \ {0} /\ c.blocks \in Nat \ {0} /\ c.size \in Asked
      /\ BaseOf(c) = c.base /\ SlotOf(c) = m /\ OldOf(c) = c.old /\ BaseOf(c) # NULL
         /\ SlotOf(c) # NULL
    BY <1>1, Slots DEF CallTyped, Idle, BaseOf, SlotOf, OldOf, NULL
<1>3. g_arenas[m] = ReservedArena /\ m \notin Arenas
    BY <1>1, <1>2, Unfounded DEF BlocksInv, SlotsHeld
<1>4. ASSUME arena_can_append(NewArena(c.base, c.blocks), bytes),
             g_arenas' = [g_arenas EXCEPT ![m] = x], Returns(t, c.base, c.size, c.old)
      PROVE  HeapInv' /\ Fresh(c.base)
    <2>1. Within(c.base, c.blocks * BlockBytes)
        <3>1. PICK r \in allocs : At(r, c.base) /\ r.count = c.blocks
            BY <1>1, <1>2 DEF BlocksInv, CallsStand
        <3>2. /\ r.start * BlockBytes \in Nat /\ BlockBytes <= r.start * BlockBytes
              /\ r.count * BlockBytes \in Nat /\ r.count \in 1 .. HeapBlocks
              /\ r.start * BlockBytes + r.count * BlockBytes <= BlockBytes * (HeapBlocks + 1)
            BY <1>1, RunSpan DEF BlocksInv
        <3> QED BY <1>2, <3>1, <3>2 DEF Within, At
    <2>2. c.base + c.size + Align <= SizeMod /\ c.size + Align <= SizeMod
        <3> DEFINE l == [ptr |-> c.base, size |-> c.size]
        <3>1. l \in live' /\ l.ptr = c.base /\ l.size = c.size
            BY <1>4 DEF Returns
        <3>2. c.base + c.size + Align <= SizeMod
            BY <3>1 DEF NoneWraps
        <3>3. Align \in Nat /\ SizeMod \in Nat /\ Asked \subseteq Nat
            BY Numbers, AskedTyped
        <3>4. c.base \in Nat /\ c.size \in Nat
            BY <1>2, <3>3
        <3> QED BY <3>2, <3>3, <3>4
    <2>3. /\ units \in Nat \ {0} /\ bytes = Align * units /\ c.size <= Align * units
        BY <1>2, <2>2, AlignUp
    <2>4. bytes + HeaderBytes <= c.blocks * BlockBytes
        BY <1>2, <1>4, <2>1, <2>2, FirstFits
    <2>5. Shaped(x) /\ x.base = c.base
        <3>1. c.base \in Nat /\ c.blocks \in Nat
            BY <1>2
        <3> HIDE DEF units
        <3> QED BY <3>1, NewArenaIs
    <2>6. ArenaSound(x) /\ Pieces(x) = {p}
        <3>1. c.base \in Nat /\ c.blocks \in Nat
              /\ Align * units + HeaderBytes <= c.blocks * BlockBytes
            BY <1>2, <2>3, <2>4
        <3> HIDE DEF units
        <3> QED BY <2>3, <3>1, FoundedSound
    <2> HIDE DEF x
    <2>7. /\ g_arenas'[m] = x
          /\ \A b \in ArenaSlots : b # m => g_arenas'[b] = g_arenas[b]
        BY <1>1, <1>2, <1>4, <2>5, ArenaPut
    <2>8. /\ Arenas' = Arenas \cup {m} /\ m \in Arenas'
          /\ \A b \in Arenas' : b # m => b \in Arenas /\ g_arenas'[b] = g_arenas[b]
        BY <1>2, <1>3, <2>5, <2>7 DEF Arenas, NULL
    <2>9. OldsStay
        <3> DEFINE old == c.old
        <3>1. Goto(t, IF old = NULL THEN Idle ELSE [at |-> "copy", old |-> old])
            BY <1>4 DEF Returns
        <3>2. old \in {OldOf(call[t]), NULL}
            BY <1>2
        <3> HIDE DEF old
        <3> QED BY <1>1, <3>1, <3>2, OldsReturn
    <2>10. live' = live \cup {[ptr |-> p.ptr, size |-> c.size]} /\ c.size <= p.bytes
        BY <1>4, <2>3 DEF Returns
    <2> HIDE DEF p
    <2>11. Pieces(g_arenas'[m]) = {p} \cup IF m \in Arenas THEN Pieces(g_arenas[m]) ELSE {}
        BY <1>3, <2>6, <2>7
    <2>12. ArenaSound(g_arenas'[m])
        BY <2>6, <2>7
    <2>13. HeapInv' /\ Fresh(p.ptr)
        BY <1>1, <1>2, <1>3, <2>8, <2>9, <2>10, <2>11, <2>12, GrowStep
    <2> QED BY <2>13 DEF p
<1>5. ASSUME g_arenas' = [g_arenas EXCEPT ![m] = UnusedArena],
             Goto(t, [at |-> "giveback", base |-> c.base]), UNCHANGED live
      PROVE  HeapInv'
    <2>1. /\ g_arenas'[m] = UnusedArena
          /\ \A b \in ArenaSlots : b # m => g_arenas'[b] = g_arenas[b]
        BY <1>1, <1>2, <1>5, SlotShapes, ArenaPut
    <2>2. Arenas' = Arenas /\ \A b \in Arenas : g_arenas'[b] = g_arenas[b]
        BY <1>2, <1>3, <2>1, SlotShapes DEF Arenas
    <2> DEFINE d == [at |-> "giveback", base |-> c.base]
    <2>3. OldOf(d) = NULL /\ Goto(t, d)
        BY <1>5 DEF OldOf
    <2> HIDE DEF d
    <2>4. OldsStay
        BY <1>1, <2>3, OldsGo
    <2> QED BY <1>1, <1>5, <2>2, <2>4, IdleStep
<1>6. \/ /\ arena_can_append(NewArena(c.base, c.blocks), bytes)
         /\ g_arenas' = [g_arenas EXCEPT ![m] = x] /\ Returns(t, c.base, c.size, c.old)
      \/ /\ g_arenas' = [g_arenas EXCEPT ![m] = UnusedArena]
         /\ Goto(t, [at |-> "giveback", base |-> c.base]) /\ UNCHANGED live
    BY DEF MallocArena, Founded
<1> HIDE DEF bytes, units, x
<1> QED BY <1>4, <1>5, <1>6 DEF ArenaEffect, Obtained

(* A locked section of kmalloc(). *)
LEMMA SectionSound ==
    ASSUME NoneWraps', HeapInv, BlocksInv', NEW t \in Threads, NEW size \in Asked, NEW old,
           old \in {OldOf(call[t]), NULL}, MallocSection(t, size, old)
    PROVE  HeapInv' /\ SectionEffect(t, size, old)
<1> DEFINE bytes == align_up(size)
           units == bytes \div Align
           Unused == {a \in ArenaSlots : ~g_arenas[a].in_use}
<1>1. BlocksInv /\ BlocksTyped
    BY DEF HeapInv, BlocksInv
<1>2. ASSUME NEW a \in ArenaSlots, NEW i \in DOMAIN g_arenas[a].sectors, IsBestFit(<<a, i>>, units),
             g_arenas' = [g_arenas EXCEPT ![a].sectors[i].allocated = TRUE],
             Returns(t, arena_data_ptr_for_sector(g_arenas[a], i), size, old)
      PROVE  HeapInv' /\ SectionEffect(t, size, old)
    <2>1. <<a, i>> \in FreeSectors(align_up(size) \div Align)
        BY <1>2 DEF IsBestFit
    <2>2. live' = live \cup {[ptr |-> arena_data_ptr_for_sector(g_arenas[a], i), size |-> size]}
        BY <1>2 DEF Returns
    <2>3. OldsStay
        BY <1>1, <1>2, OldsReturn DEF Returns
    <2>4. HeapInv' /\ Fresh(arena_data_ptr_for_sector(g_arenas[a], i))
        BY <1>2, <2>1, <2>2, <2>3, ReuseSound
    <2> QED BY <1>2, <2>4 DEF SectionEffect, Obtained
<1>3. ASSUME NEW a \in ArenaSlots, IsBestAppend(a, bytes), g_arenas[a].base # NULL,
             g_arenas' = [g_arenas EXCEPT ![a] = arena_append_sector(@, units)],
             Returns(t, DataEnd(g_arenas[a], 0), size, old)
      PROVE  HeapInv' /\ SectionEffect(t, size, old)
    <2>1. a \in Arenas /\ arena_can_append(g_arenas[a], align_up(size))
        BY <1>3 DEF Arenas, IsBestAppend, Appendable
    <2>2. live' = live \cup {[ptr |-> DataEnd(g_arenas[a], 0), size |-> size]}
        BY <1>3 DEF Returns
    <2>3. OldsStay
        BY <1>1, <1>3, OldsReturn DEF Returns
    <2>4. HeapInv' /\ Fresh(DataEnd(g_arenas[a], 0))
        BY <1>3, <2>1, <2>2, <2>3, AppendSound
    <2> QED BY <1>3, <2>4 DEF SectionEffect, Obtained
<1>4. ASSUME UNCHANGED <<g_arenas, live, call>>
      PROVE  HeapInv' /\ SectionEffect(t, size, old)
    <2>1. Arenas' = Arenas /\ OldsStay
        BY <1>4 DEF Arenas, OldsStay
    <2>2. HeapInv'
        BY <1>4, <2>1, IdleStep
    <2> QED BY <1>4, <2>2 DEF SectionEffect
<1>5. ASSUME Unused # {},
             g_arenas' = [g_arenas EXCEPT ![Min(Unused)] = ReservedArena],
             Goto(t, [at |-> "blocks", slot |-> Min(Unused), size |-> size, old |-> old]),
             UNCHANGED live
      PROVE  HeapInv' /\ SectionEffect(t, size, old)
    <2>1. Unused \in SUBSET Nat
        BY Slots
    <2> DEFINE m == Min(Unused)
               d == [at |-> "blocks", slot |-> m, size |-> size, old |-> old]
    <2>2. m \in Unused
        <3>1. \E x \in Unused : \A y \in Unused : x <= y
            BY <1>5, <2>1, LeastNat
        <3> HIDE DEF Unused
        <3> QED BY <3>1 DEF Min
    <2>3. m \in ArenaSlots /\ m \notin Arenas
        <3> HIDE DEF m
        <3> QED BY <1>1, <2>2, Unfounded
    <2>4. g_arenas' = [g_arenas EXCEPT ![m] = ReservedArena] /\ Goto(t, d)
        BY <1>5
    <2> HIDE DEF m
    <2>5. /\ g_arenas'[m] = ReservedArena
          /\ \A b \in ArenaSlots : b # m => g_arenas'[b] = g_arenas[b]
        BY <1>1, <2>3, <2>4, SlotShapes, ArenaPut
    <2>6. Arenas' = Arenas /\ \A b \in Arenas : g_arenas'[b] = g_arenas[b]
        BY <2>3, <2>5, SlotShapes DEF Arenas
    <2>7. OldOf(d) = old
        BY DEF OldOf
    <2> HIDE DEF d
    <2>8. OldsStay
        BY <1>1, <2>4, <2>7, OldsGo
    <2>9. HeapInv'
        BY <1>5, <2>6, <2>8, IdleStep
    <2> QED BY <1>5, <2>9 DEF SectionEffect
<1>6. ASSUME Fails(t), UNCHANGED g_arenas
      PROVE  HeapInv' /\ SectionEffect(t, size, old)
    <2>1. Goto(t, Idle) /\ live' = live /\ OldOf(Idle) = NULL
        BY <1>6 DEF Fails, OldOf, Idle
    <2>2. OldsStay
        BY <1>1, <2>1, OldsGo
    <2>3. Arenas' = Arenas
        BY <1>6 DEF Arenas
    <2>4. HeapInv'
        BY <1>6, <2>1, <2>2, <2>3, IdleStep
    <2> QED BY <1>6, <2>4 DEF SectionEffect
<1> QED BY <1>2, <1>3, <1>4, <1>5, <1>6 DEF MallocSection

LEMMA MallocBlocksSound ==
    ASSUME HeapInv, NEW t \in Threads, MallocBlocks(t)
    PROVE  HeapInv'
<1> DEFINE c == call[t]
<1>1. BlocksInv' /\ BlocksTyped /\ c.at = "blocks" /\ UNCHANGED <<g_arenas, live>>
    BY MallocBlocksKeeps DEF HeapInv, BlocksInv, MallocBlocks, In
<1>2. OldOf(c) = c.old
    BY <1>1 DEF OldOf
<1>3. ASSUME NEW b, NEW n,
             Goto(t, [at |-> "arena", slot |-> c.slot, size |-> c.size,
                      old |-> c.old, base |-> b, blocks |-> n])
      PROVE  OldsStay
    <2> DEFINE d == [at |-> "arena", slot |-> c.slot, size |-> c.size,
                     old |-> c.old, base |-> b, blocks |-> n]
    <2>1. OldOf(d) = c.old /\ Goto(t, d)
        BY <1>3 DEF OldOf
    <2> HIDE DEF d
    <2> QED BY <1>1, <1>2, <2>1, OldsGo
<1>4. ASSUME Goto(t, [at |-> "unreserve", slot |-> c.slot])
      PROVE  OldsStay
    <2> DEFINE d == [at |-> "unreserve", slot |-> c.slot]
    <2>1. OldOf(d) = NULL /\ Goto(t, d)
        BY <1>4 DEF OldOf
    <2> HIDE DEF d
    <2> QED BY <1>1, <2>1, OldsGo
<1>5. OldsStay
    <2>1. \/ Goto(t, [at |-> "unreserve", slot |-> c.slot])
          \/ \E b, n : Goto(t, [at |-> "arena", slot |-> c.slot, size |-> c.size,
                                old |-> c.old, base |-> b, blocks |-> n])
        BY DEF MallocBlocks
    <2> QED BY <1>3, <1>4, <2>1
<1>6. Arenas' = Arenas
    BY <1>1 DEF Arenas
<1> QED BY <1>1, <1>5, <1>6, IdleStep

LEMMA MallocUnreserveSound ==
    ASSUME HeapInv, NEW t \in Threads, MallocUnreserve(t)
    PROVE  HeapInv'
<1> DEFINE m == call[t].slot
<1>1. /\ BlocksInv /\ BlocksInv' /\ BlocksTyped /\ CallTyped(call[t]) /\ call[t].at = "unreserve"
      /\ live' = live /\ Goto(t, Idle) /\ g_arenas' = [g_arenas EXCEPT ![m] = UnusedArena]
    BY MallocUnreserveKeeps DEF HeapInv, BlocksInv, BlocksTyped, MallocUnreserve, In, Fails
<1>2. m \in ArenaSlots /\ SlotOf(call[t]) = m /\ SlotOf(call[t]) # NULL
    BY <1>1, Slots DEF CallTyped, Idle, SlotOf, NULL
<1>3. g_arenas[m] = ReservedArena /\ m \notin Arenas
    BY <1>1, <1>2, Unfounded DEF BlocksInv, SlotsHeld
<1>4. /\ g_arenas'[m] = UnusedArena
      /\ \A b \in ArenaSlots : b # m => g_arenas'[b] = g_arenas[b]
    BY <1>1, <1>2, SlotShapes, ArenaPut
<1>5. Arenas' = Arenas /\ \A b \in Arenas : g_arenas'[b] = g_arenas[b]
    BY <1>2, <1>3, <1>4, SlotShapes DEF Arenas
<1>6. OldOf(Idle) = NULL
    BY DEF OldOf, Idle
<1>7. OldsStay
    BY <1>1, <1>6, OldsGo
<1> QED BY <1>1, <1>5, <1>7, IdleStep

LEMMA MallocGiveBackSound ==
    ASSUME HeapInv, NEW t \in Threads, MallocGiveBack(t)
    PROVE  HeapInv'
<1>1. BlocksInv' /\ BlocksTyped /\ UNCHANGED <<g_arenas, live>> /\ Goto(t, Idle)
    BY MallocGiveBackKeeps DEF HeapInv, BlocksInv, MallocGiveBack, Fails
<1>2. OldOf(Idle) = NULL
    BY DEF OldOf, Idle
<1>3. OldsStay
    BY <1>1, <1>2, OldsGo
<1>4. Arenas' = Arenas
    BY <1>1 DEF Arenas
<1> QED BY <1>1, <1>3, <1>4, IdleStep

LEMMA NotInRealloc ==
    ASSUME BlocksTyped, NEW l, l.ptr \in Nat \ {0}, ~InRealloc(l)
    PROVE  \A u \in Threads : OldOf(call[u]) # l.ptr
<1> SUFFICES ASSUME NEW u \in Threads, OldOf(call[u]) = l.ptr PROVE InRealloc(l)
    OBVIOUS
<1>1. CallTyped(call[u])
    BY DEF BlocksTyped
<1>2. call[u].at \in {"blocks", "arena", "grow", "copy"} /\ call[u].old = l.ptr
    BY DEF OldOf, NULL
<1>3. call[u] # Idle
    BY <1>2 DEF Idle
<1>4. "old" \in DOMAIN call[u]
    BY <1>1, <1>2 DEF CallTyped, Idle
<1> QED BY <1>2, <1>3, <1>4 DEF InRealloc

LEMMA kfreeSound ==
    ASSUME HeapInv, NEW t \in Threads, NEW l \in live, kfree(t, l)
    PROVE  HeapInv'
<1>1. BlocksInv' /\ BlocksTyped /\ LiveSound
    BY kfreeKeeps DEF HeapInv, BlocksInv
<1>2. ~InRealloc(l) /\ FreeSection(l.ptr) /\ live' = live \ {l} /\ call' = call
    BY DEF kfree
<1>3. l.ptr \in Nat \ {0} /\ live' = {k \in live : k.ptr # l.ptr}
    BY <1>1, <1>2 DEF LiveSound
<1>4. \A u \in Threads : OldOf(call'[u]) # l.ptr
    BY <1>1, <1>2, <1>3, NotInRealloc
<1>5. OldsStay
    BY <1>2 DEF OldsStay
<1> QED BY <1>1, <1>2, <1>3, <1>4, <1>5, FreeSectionSound

LEMMA ReallocCopySound ==
    ASSUME HeapInv, NEW t \in Threads, ReallocCopy(t)
    PROVE  HeapInv'
<1> DEFINE old == call[t].old
<1>1. BlocksInv /\ BlocksInv' /\ BlocksTyped /\ LiveSound /\ OldsSound
    BY ReallocCopyKeeps DEF HeapInv, BlocksInv
<1>2. /\ call[t].at = "copy" /\ FreeSection(old) /\ live' = {k \in live : k.ptr # old}
         /\ Goto(t, Idle)
    BY DEF ReallocCopy, In
<1>3. OldOf(call[t]) = old /\ OldOf(Idle) = NULL
    BY <1>2 DEF OldOf, Idle
<1>4. OldsStay
    BY <1>1, <1>2, <1>3, OldsGo
<1>5. CASE old = NULL
    <2>1. PlacesOf(old) = {}
        <3> SUFFICES ASSUME NEW q \in PlacesOf(old) PROVE FALSE
            OBVIOUS
        <3>1. q[1] \in ArenaSlots /\ arena_contains_ptr(g_arenas[q[1]], 0)
            BY <1>5 DEF PlacesOf, NULL
        <3>2. 0 \in g_arenas[q[1]].base .. g_arenas[q[1]].base + Bytes(g_arenas[q[1]]) - 1
            BY <3>1 DEF arena_contains_ptr
        <3>3. CASE q[1] \in Arenas
            <4>1. g_arenas[q[1]].base \in Nat \ {0}
                BY <1>1, <3>3, SpreadHolds DEF Spread, Within
            <4> QED BY <3>2, <4>1
        <3>4. CASE q[1] \notin Arenas
            <4>1. g_arenas[q[1]].base = 0 /\ g_arenas[q[1]].blocks = 0
                BY <1>1, <3>1, <3>4, Unfounded DEF NULL
            <4>2. Bytes(g_arenas[q[1]]) = 0
                BY <4>1, Numbers DEF Bytes
            <4> QED BY <3>2, <4>1, <4>2
        <3> QED BY <3>3, <3>4
    <2>2. g_arenas' = g_arenas
        BY <1>2, <2>1 DEF FreeSection
    <2>3. live' = live
        BY <1>1, <1>2, <1>5 DEF LiveSound, NULL
    <2>4. Arenas' = Arenas
        BY <2>2 DEF Arenas
    <2> QED BY <1>1, <1>4, <2>2, <2>3, <2>4, IdleStep
<1>6. CASE old # NULL
    <2>1. PICK l \in live : l.ptr = old
        BY <1>1, <1>3, <1>6 DEF OldsSound
    <2>2. \A u \in Threads : OldOf(call'[u]) # l.ptr
        <3>1. call = [u \in Threads |-> call[u]]
            BY <1>1 DEF BlocksTyped
        <3>2. call'[t] = Idle /\ \A u \in Threads : u # t => call'[u] = call[u]
            BY <1>2, <3>1 DEF Goto
        <3>3. \A u \in Threads : u # t => OldOf(call[u]) # old
            BY <1>1, <1>3, <1>6 DEF OldsSound
        <3> HIDE DEF old
        <3> QED BY <1>3, <1>6, <2>1, <3>2, <3>3
    <2> HIDE DEF old
    <2>3. FreeSection(l.ptr) /\ live' = {k \in live : k.ptr # l.ptr}
        BY <1>2, <2>1
    <2> QED BY <1>1, <1>4, <2>2, <2>3, FreeSectionSound
<1> QED BY <1>5, <1>6

LEMMA kreallocSound ==
    ASSUME NoneWraps', HeapInv, NEW t \in Threads, NEW l \in live, NEW size \in Sizes,
           krealloc(t, l, size)
    PROVE  HeapInv'
<1>1. BlocksInv' /\ BlocksTyped /\ LiveSound /\ OldsSound /\ ArenasSound /\ size \in Asked
    BY kreallocKeeps DEF HeapInv, BlocksInv, Asked
<1>2. ~InRealloc(l) /\ UNCHANGED <<g_arenas, allocs, fault>>
    BY DEF krealloc
<1>3. l.ptr \in Nat \ {0}
    BY <1>1 DEF LiveSound
<1>4. \A u \in Threads : OldOf(call[u]) # l.ptr
    BY <1>1, <1>2, <1>3, NotInRealloc
<1>5. Arenas' = Arenas /\ ArenasSound'
    BY <1>1, <1>2 DEF Arenas, ArenasSound
<1>6. AllPieces' = AllPieces
    BY <1>2, <1>5 DEF AllPieces
<1>7. ASSUME NEW q \in PlacesOf(l.ptr), UnitsOf(q) * Align >= align_up(size),
             live' = (live \ {l}) \cup {[l EXCEPT !.size = size]}, UNCHANGED call
      PROVE  HeapInv'
    <2>1. PICK a \in Arenas : \E i \in Allocated(g_arenas[a].sectors) :
              /\ PlacesOf(l.ptr) = {<<a, i>>}
              /\ l.ptr = Piece(g_arenas[a].base, Extent(g_arenas[a].sectors, i)).ptr
        BY LivePlace
    <2>2. PICK i \in Allocated(g_arenas[a].sectors) :
              /\ PlacesOf(l.ptr) = {<<a, i>>}
              /\ l.ptr = Piece(g_arenas[a].base, Extent(g_arenas[a].sectors, i)).ptr
        BY <2>1
    <2> DEFINE s == g_arenas[a].sectors
               units == s[i].units
               p == Piece(g_arenas[a].base, Extent(s, i))
    <2>3. p \in AllPieces
        BY DEF AllPieces, Pieces, Extents
    <2>4. p.ptr = l.ptr /\ p.bytes = Align * units
        BY <2>2 DEF Piece, Extent
    <2>5. units * Align >= align_up(size)
        <3>1. q = <<a, i>>
            BY <2>2
        <3>2. q[1] = a /\ q[2] = i
            BY <3>1
        <3> QED BY <1>7, <3>2 DEF UnitsOf
    <2>6. units \in Nat
        <3>1. s \in Seq(SectorRecords)
            BY <1>1 DEF ArenasSound, ArenaSound
        <3> QED BY <3>1, SectorSeq DEF Allocated
    <2> HIDE DEF p, units
    <2>7. size <= p.bytes
        <3> DEFINE m == [l EXCEPT !.size = size]
        <3>1. m \in live' /\ m.ptr = l.ptr /\ m.size = size
            BY <1>1, <1>7 DEF LiveSound
        <3>2. l.ptr + size + Align <= SizeMod
            BY <3>1 DEF NoneWraps
        <3>3. l.ptr \in Nat /\ size \in Nat /\ Align \in Nat /\ SizeMod \in Nat
            BY <1>1, <1>3, Numbers, AskedTyped
        <3>4. size + Align <= SizeMod
            BY <3>2, <3>3
        <3> HIDE DEF m
        <3>5. Align \in Nat /\ align_up(size) \in Nat /\ size <= align_up(size) /\ size \in Nat
            BY <1>1, <3>4, AlignUp
        <3>6. units * Align = Align * units /\ Align * units \in Nat
            BY <2>6, <3>5
        <3> QED BY <2>4, <2>5, <3>5, <3>6
    <2> DEFINE k == [l EXCEPT !.size = size]
    <2>8. k.ptr = l.ptr /\ k.size = size /\ k \in [ptr : Nat \ {0}, size : Asked]
        BY <1>1 DEF LiveSound
    <2>9. live' = (live \ {l}) \cup {k}
        BY <1>7
    <2> HIDE DEF k
    <2>10. LiveSound'
        <3>1. live' \subseteq [ptr : Nat \ {0}, size : Asked]
            BY <1>1, <2>8, <2>9 DEF LiveSound
        <3>2. \A m \in live' : \E x \in AllPieces' : x.ptr = m.ptr /\ m.size <= x.bytes
            BY <1>1, <1>6, <2>3, <2>4, <2>7, <2>8, <2>9 DEF LiveSound
        <3>3. \A x \in AllPieces' : \E m \in live' : x.ptr = m.ptr
            BY <1>1, <1>6, <2>8, <2>9 DEF LiveSound
        <3>4. \A m, n \in live' : m.ptr = n.ptr => m = n
            BY <1>1, <2>8, <2>9 DEF LiveSound
        <3> QED BY <3>1, <3>2, <3>3, <3>4 DEF LiveSound
    <2>11. OldsSound'
        BY <1>1, <1>7, <2>8, <2>9 DEF OldsSound
    <2> QED BY <1>1, <1>5, <2>10, <2>11 DEF HeapInv
<1>8. ASSUME Goto(t, [at |-> "grow", size |-> size, old |-> l.ptr]), UNCHANGED live
      PROVE  HeapInv'
    <2> DEFINE d == [at |-> "grow", size |-> size, old |-> l.ptr]
    <2>1. OldOf(d) = l.ptr /\ Goto(t, d)
        BY <1>8 DEF OldOf
    <2> HIDE DEF d
    <2>2. call = [u \in Threads |-> call[u]]
        BY <1>1 DEF BlocksTyped
    <2>3. call'[t] = d /\ \A u \in Threads : u # t => call'[u] = call[u]
        BY <2>1, <2>2 DEF Goto
    <2>4. OldsSound'
        <3>1. \A u \in Threads : OldOf(call'[u]) # NULL => \E m \in live' : m.ptr = OldOf(call'[u])
            BY <1>1, <1>8, <2>1, <2>3 DEF OldsSound
        <3>2. \A u, v \in Threads : u # v /\ OldOf(call'[u]) # NULL
                  => OldOf(call'[u]) # OldOf(call'[v])
            BY <1>1, <1>4, <2>1, <2>3 DEF OldsSound
        <3> QED BY <3>1, <3>2 DEF OldsSound
    <2>5. LiveSound'
        BY <1>1, <1>6, <1>8 DEF LiveSound
    <2> QED BY <1>1, <1>5, <2>4, <2>5 DEF HeapInv
<1> QED BY <1>7, <1>8 DEF krealloc

LEMMA HeapNext ==
    ASSUME NoneWraps', HeapInv, [Next]_vars
    PROVE  HeapInv'
<1>1. BlocksInv' /\ BlocksInv
    BY BlocksNext DEF HeapInv
<1>2. ASSUME UNCHANGED vars PROVE HeapInv'
    <2>1. Arenas' = Arenas /\ OldsStay
        BY <1>2 DEF vars, Arenas, OldsStay
    <2> QED BY <1>1, <1>2, <2>1, IdleStep DEF vars
<1>3. ASSUME NEW t \in Threads, NEW size \in Asked, kmalloc(t, size)
      PROVE  HeapInv'
    <2>1. MallocSection(t, size, NULL)
        BY <1>3 DEF kmalloc
    <2> QED BY <1>1, <2>1, SectionSound
<1>4. ASSUME NEW t \in Threads, NEW count \in Counts, NEW size \in Sizes,
           kcalloc(t, count, size)
      PROVE  HeapInv'
    <2>1. <<count, size>> \in {q \in Counts \X Sizes : (SizeMod - 1) \div q[1] >= q[2]}
        BY <1>4 DEF kcalloc
    <2>2. count * size \in Asked
        BY <2>1 DEF Asked
    <2> QED BY <1>3, <1>4, <2>2 DEF kcalloc
<1>5. ASSUME NEW t \in Threads, ReallocGrow(t)
      PROVE  HeapInv'
    <2>1. call[t].at = "grow" /\ MallocSection(t, call[t].size, call[t].old)
        BY <1>5 DEF ReallocGrow, In
    <2>2. call[t].size \in Asked /\ call[t].old = OldOf(call[t])
        BY <1>1, <2>1, EmptyHanded DEF OldOf
    <2> QED BY <1>1, <2>1, <2>2, SectionSound
<1>6. \A size \in Sizes : size \in Asked
    BY DEF Asked
<1> QED BY <1>2, <1>3, <1>4, <1>5, <1>6, MallocBlocksSound, MallocUnreserveSound, MallocArenaSound,
           MallocGiveBackSound, kfreeSound, kreallocSound, ReallocCopySound DEF Next

LEMMA HeapInit == Init => HeapInv
<1> SUFFICES ASSUME Init PROVE HeapInv
    OBVIOUS
<1>1. BlocksInv
    BY BlocksInit
<1>2. (\A a \in ArenaSlots : g_arenas[a] = UnusedArena) /\ live = {}
      /\ \A t \in Threads : call[t] = Idle
    BY DEF Init
<1>3. Arenas = {}
    BY <1>2, SlotShapes DEF Arenas
<1>4. AllPieces = {}
    BY <1>3 DEF AllPieces
<1>5. OldOf(Idle) = NULL
    BY DEF OldOf, Idle
<1>6. ArenasSound
    BY <1>3 DEF ArenasSound
<1>7. LiveSound
    BY <1>2, <1>4 DEF LiveSound
<1>8. OldsSound
    BY <1>2, <1>5 DEF OldsSound
<1> QED BY <1>1, <1>6, <1>7, <1>8 DEF HeapInv

-----------------------------------------------------------------------------
(* What the invariant says of the heap. *)

LEMMA SoundArena ==
    ASSUME HeapInv, NEW a \in Arenas
    PROVE  /\ ArenaSound(g_arenas[a]) /\ Shaped(g_arenas[a]) /\ a \in ArenaSlots
           /\ g_arenas[a].base \in Nat \ {0} /\ Bytes(g_arenas[a]) \in Nat
           /\ g_arenas[a].blocks \in 1 .. HeapBlocks
           /\ g_arenas[a].base + Bytes(g_arenas[a]) < SizeMod /\ SizeMod \in Nat
<1>1. BlocksInv /\ Spread
    BY SpreadHolds DEF HeapInv
<1>2. a \in ArenaSlots /\ ArenaSound(g_arenas[a]) /\ Shaped(g_arenas[a])
    BY <1>1 DEF Arenas, HeapInv, ArenasSound, BlocksInv, BlocksTyped
<1>3. SizeMod \in Nat /\ SizeMod > BlockBytes * (HeapBlocks + 1)
      /\ BlockBytes * (HeapBlocks + 1) \in Nat
    BY Numbers
<1>4. /\ g_arenas[a].base \in Nat \ {0} /\ Bytes(g_arenas[a]) \in Nat
      /\ g_arenas[a].base + Bytes(g_arenas[a]) <= BlockBytes * (HeapBlocks + 1)
      /\ g_arenas[a].blocks \in 1 .. HeapBlocks
    BY <1>1 DEF Spread, Within
<1> DEFINE top == BlockBytes * (HeapBlocks + 1)
<1> HIDE DEF top
<1>5. g_arenas[a].base + Bytes(g_arenas[a]) < SizeMod
    <2>1. top \in Nat /\ top < SizeMod /\ SizeMod \in Nat
        BY <1>3 DEF top
    <2>2. g_arenas[a].base + Bytes(g_arenas[a]) <= top
        BY <1>4 DEF top
    <2> QED BY <1>4, <2>1, <2>2
<1> QED BY <1>2, <1>3, <1>4, <1>5

LEMMA UnitsBounded ==
    ASSUME NEW s \in Seq(SectorRecords), Filled(s), DataBytes(s)[Len(s)] < SizeMod
    PROVE  s \in Seq(SectorsOf)
<1>1. Len(s) \in Nat /\ DOMAIN s = 1 .. Len(s) /\ SizeMod \in Nat /\ Align \in Nat \ {0}
    BY SectorSeq, Numbers
<1>2. ASSUME NEW i \in 1 .. Len(s) PROVE s[i] \in SectorsOf
    <2>1. s[i] \in SectorRecords /\ s[i].units \in Nat
        BY SectorSeq
    <2>2. /\ DataBytes(s)[i - 1] \in Nat /\ Align * s[i].units \in Nat
          /\ DataBytes(s)[i] = DataBytes(s)[i - 1] + Align * s[i].units
          /\ DataBytes(s)[i] <= DataBytes(s)[Len(s)]
        BY ExtentIn
    <2>3. DataBytes(s)[Len(s)] \in Nat
        BY <1>1, Adds
    <2>4. Align * s[i].units <= SizeMod
        BY <1>1, <2>2, <2>3
    <2> DEFINE n == SizeMod \div Align
               u == s[i].units
    <2>5. n \in Nat /\ SizeMod < Align * n + Align
        BY <1>1, Division
    <2>6. u \in Nat /\ Align * u <= SizeMod
        BY <2>1, <2>4
    <2> HIDE DEF n, u
    <2>7. ~(n < u)
        <3> SUFFICES ASSUME n < u PROVE FALSE
            OBVIOUS
        <3>1. Align * n + Align <= Align * u /\ Align * n \in Nat /\ Align * u \in Nat
            BY <1>1, <2>5, <2>6, ScaleStrict
        <3> QED BY <1>1, <2>5, <2>6, <3>1
    <2>8. u \in 0 .. n
        BY <2>5, <2>6, <2>7
    <2> QED BY <2>1, <2>8 DEF u, n, SectorRecords, SectorsOf
<1> QED BY <1>1, <1>2

LEMMA SlotTyped ==
    ASSUME HeapInv, NEW a \in ArenaSlots
    PROVE  /\ g_arenas[a] \in [in_use : BOOLEAN, base : Addresses, blocks : 0 .. HeapBlocks,
                               sectors : Seq(SectorsOf)]
           /\ IF g_arenas[a].base = NULL
              THEN g_arenas[a] \in {UnusedArena, ReservedArena}
              ELSE g_arenas[a].in_use /\ g_arenas[a].sectors # <<>>
<1> DEFINE Slot == [in_use : BOOLEAN, base : Addresses, blocks : 0 .. HeapBlocks,
                    sectors : Seq(SectorsOf)]
<1>1. BlocksInv /\ Shaped(g_arenas[a])
    BY DEF HeapInv, BlocksInv, BlocksTyped
<1>2. CASE a \in Arenas
    <2>1. /\ ArenaSound(g_arenas[a]) /\ g_arenas[a].base \in Nat \ {0} /\ Bytes(g_arenas[a]) \in Nat
          /\ g_arenas[a].blocks \in 1 .. HeapBlocks
          /\ g_arenas[a].base + Bytes(g_arenas[a]) < SizeMod /\ SizeMod \in Nat
        BY <1>2, SoundArena
    <2> DEFINE s == g_arenas[a].sectors
    <2>2. s \in Seq(SectorRecords) /\ Filled(s) /\ SpaceOf(s) <= Bytes(g_arenas[a])
        BY <2>1 DEF ArenaSound
    <2>3. /\ SpaceOf(s) = DataBytes(s)[Len(s)] + HeaderBytes * Len(s)
          /\ DataBytes(s)[Len(s)] \in Nat /\ HeaderBytes * Len(s) \in Nat
        BY <2>2, SpaceTyped
    <2>4. DataBytes(s)[Len(s)] < SizeMod
        BY <2>1, <2>2, <2>3
    <2>5. s \in Seq(SectorsOf)
        BY <2>2, <2>4, UnitsBounded
    <2>6. g_arenas[a].base \in Addresses /\ g_arenas[a].blocks \in 0 .. HeapBlocks
        BY <2>1, Numbers DEF Addresses
    <2>7. g_arenas[a] \in Slot
        BY <1>1, <2>5, <2>6 DEF Shaped
    <2>8. g_arenas[a].in_use /\ s # <<>> /\ g_arenas[a].base # NULL
        BY <1>2, <2>1, <2>2 DEF ArenaSound, Filled, Arenas
    <2> HIDE DEF Slot
    <2> QED BY <2>7, <2>8 DEF Slot
<1>3. CASE a \notin Arenas
    <2>1. /\ g_arenas[a].sectors = <<>> /\ g_arenas[a].blocks = 0 /\ g_arenas[a].base = 0
          /\ g_arenas[a] \in {UnusedArena, ReservedArena}
        BY <1>1, <1>3, Unfounded DEF NULL, BlocksInv, SlotsHeld
    <2>2. 0 \in Addresses /\ 0 \in 0 .. HeapBlocks
        BY Numbers DEF Addresses
    <2>3. <<>> \in Seq(SectorsOf)
        OBVIOUS
    <2>4. g_arenas[a] \in Slot
        BY <1>1, <2>1, <2>2, <2>3 DEF Shaped
    <2> HIDE DEF Slot
    <2> QED BY <2>1, <2>4 DEF Slot, NULL
<1> QED BY <1>2, <1>3

LEMMA LiveIn ==
    ASSUME HeapInv, NEW l \in live
    PROVE  /\ l = [ptr |-> l.ptr, size |-> l.size] /\ l.ptr \in Nat \ {0}
           /\ l.size \in Nat \ {0} /\ l.size <= SizeMod - 1
           /\ \E a \in Arenas : /\ g_arenas[a].base <= l.ptr
                                /\ l.ptr + l.size <= HeadersBottom(g_arenas[a])
                                /\ HeadersBottom(g_arenas[a]) <= g_arenas[a].base + Bytes(g_arenas[a])
                                /\ HeadersBottom(g_arenas[a]) \in Int
<1>1. PICK a \in Arenas : \E i \in Allocated(g_arenas[a].sectors) :
          /\ l.size <= Align * g_arenas[a].sectors[i].units
          /\ l.ptr \in Nat \ {0} /\ l.size \in Asked
          /\ g_arenas[a].base <= l.ptr
          /\ l.ptr + Align * g_arenas[a].sectors[i].units <= HeadersBottom(g_arenas[a])
    BY LivePlace
<1>2. PICK i \in Allocated(g_arenas[a].sectors) :
          /\ l.size <= Align * g_arenas[a].sectors[i].units
          /\ l.ptr \in Nat \ {0} /\ l.size \in Asked
          /\ g_arenas[a].base <= l.ptr
          /\ l.ptr + Align * g_arenas[a].sectors[i].units <= HeadersBottom(g_arenas[a])
    BY <1>1
<1> DEFINE s == g_arenas[a].sectors
           u == Align * s[i].units
           h == HeaderBytes * Len(s)
<1>3. ArenaSound(g_arenas[a]) /\ g_arenas[a].base \in Nat /\ Bytes(g_arenas[a]) \in Nat
    BY SoundArena
<1>4. s \in Seq(SectorRecords) /\ i \in 1 .. Len(s)
    BY <1>3, SectorSeq DEF ArenaSound, Allocated
<1>5. u \in Nat /\ h \in Nat
    BY <1>4, SectorSeq, SpaceTyped
<1>6. HeadersBottom(g_arenas[a]) = g_arenas[a].base + Bytes(g_arenas[a]) - h
    BY DEF HeadersBottom
<1>7. l.size <= u /\ l.ptr + u <= HeadersBottom(g_arenas[a])
    BY <1>2
<1> HIDE DEF u, h
<1>8. /\ HeadersBottom(g_arenas[a]) \in Int
      /\ HeadersBottom(g_arenas[a]) <= g_arenas[a].base + Bytes(g_arenas[a])
    BY <1>3, <1>5, <1>6
<1>9. l.size \in Nat \ {0} /\ l.size <= SizeMod - 1
    <2>1. l.size \in 1 .. SizeMod - 1 /\ SizeMod \in Nat
        BY <1>2, AskedTyped, MallocAssumption
    <2> QED BY <2>1
<1>10. l.ptr + l.size <= HeadersBottom(g_arenas[a])
    BY <1>2, <1>5, <1>7, <1>8, <1>9
<1>11. l = [ptr |-> l.ptr, size |-> l.size]
    BY DEF HeapInv, LiveSound
<1> QED BY <1>2, <1>8, <1>9, <1>10, <1>11

LEMMA HeapInvTypes ==
    ASSUME HeapInv
    PROVE  TypeOK
<1>1. BlocksInv /\ BlocksTyped
    BY DEF HeapInv, BlocksInv
<1>2. allocs \subseteq [start : 1 .. HeapBlocks, count : 1 .. HeapBlocks, owner : Threads]
    BY <1>1 DEF BlocksTyped, Runs
<1>3. ASSUME NEW l \in live
      PROVE  l \in [ptr : Addresses \ {NULL}, size : 1 .. SizeMod - 1]
    <2>1. /\ l = [ptr |-> l.ptr, size |-> l.size] /\ l.ptr \in Nat \ {0}
          /\ l.size \in Nat \ {0} /\ l.size <= SizeMod - 1
        BY LiveIn
    <2>2. PICK a \in Arenas :
              /\ l.ptr + l.size <= HeadersBottom(g_arenas[a])
              /\ HeadersBottom(g_arenas[a]) <= g_arenas[a].base + Bytes(g_arenas[a])
              /\ HeadersBottom(g_arenas[a]) \in Int
        BY LiveIn
    <2>3. /\ g_arenas[a].base \in Nat /\ Bytes(g_arenas[a]) \in Nat
          /\ g_arenas[a].base + Bytes(g_arenas[a]) < SizeMod /\ SizeMod \in Nat
        BY SoundArena
    <2>4. l.ptr \in 0 .. SizeMod - 1 /\ l.size \in 1 .. SizeMod - 1
        BY <2>1, <2>2, <2>3
    <2> QED BY <2>1, <2>4 DEF Addresses, NULL
<1>4. \A t \in Threads : call[t].at \in {"idle", "blocks", "unreserve", "arena", "giveback",
                                         "grow", "copy"}
    BY <1>1, CallHolds DEF BlocksTyped
<1>5. fault \in BOOLEAN
    BY <1>1 DEF BlocksTyped
<1> QED BY <1>2, <1>3, <1>4, <1>5, SlotTyped DEF TypeOK

LEMMA HeapInvSeparates ==
    ASSUME HeapInv
    PROVE  LiveSeparate
<1>1. ASSUME NEW l \in live, NEW k \in live, l # k
      PROVE  RangeOf(l) \cap RangeOf(k) = {}
    <2>1. PICK p \in AllPieces : p.ptr = l.ptr /\ l.size <= p.bytes
        BY DEF HeapInv, LiveSound
    <2>2. PICK q \in AllPieces : q.ptr = k.ptr /\ k.size <= q.bytes
        BY DEF HeapInv, LiveSound
    <2>3. p # q
        BY <1>1, <2>1, <2>2 DEF HeapInv, LiveSound
    <2>4. Apart(p.ptr, p.bytes, q.ptr, q.bytes)
        BY <2>3, AllApart DEF HeapInv
    <2>5. /\ l.ptr \in Nat /\ l.size \in Nat /\ k.ptr \in Nat /\ k.size \in Nat
        BY LiveIn
    <2>6. p.bytes \in Nat /\ q.bytes \in Nat
        <3>1. ASSUME NEW r \in AllPieces PROVE r.bytes \in Nat
            <4>1. PICK a \in Arenas : r \in Pieces(g_arenas[a])
                BY DEF AllPieces
            <4>2. ArenaSound(g_arenas[a]) /\ g_arenas[a].base \in Nat /\ Bytes(g_arenas[a]) \in Nat
                BY SoundArena
            <4> QED BY <4>1, <4>2, PieceIn
        <3> QED BY <3>1
    <2>7. l.ptr + l.size <= k.ptr \/ k.ptr + k.size <= l.ptr
        BY <2>1, <2>2, <2>4, <2>5, <2>6 DEF Apart
    <2> QED BY <2>5, <2>7 DEF RangeOf
<1>2. ASSUME NEW l \in live
      PROVE  \E a \in Arenas :
                RangeOf(l) \subseteq g_arenas[a].base .. HeadersBottom(g_arenas[a]) - 1
    <2>1. l.ptr \in Nat /\ l.size \in Nat
        BY LiveIn
    <2>2. PICK a \in Arenas : /\ g_arenas[a].base <= l.ptr
                              /\ l.ptr + l.size <= HeadersBottom(g_arenas[a])
                              /\ HeadersBottom(g_arenas[a]) \in Int
        BY LiveIn
    <2>3. g_arenas[a].base \in Nat
        BY SoundArena
    <2> QED BY <2>1, <2>2, <2>3 DEF RangeOf
<1> QED BY <1>1, <1>2 DEF LiveSeparate

LEMMA HeapInvAnswers ==
    ASSUME HeapInv
    PROVE  SectorsAnswer
<1> SUFFICES ASSUME NEW a \in Arenas
             PROVE  {arena_data_ptr_for_sector(g_arenas[a], i) :
                        i \in Allocated(g_arenas[a].sectors)}
                    = {l.ptr : l \in {k \in live : arena_contains_ptr(g_arenas[a], k.ptr)}}
    BY DEF SectorsAnswer, Allocated
<1>1. /\ ArenaSound(g_arenas[a]) /\ g_arenas[a].base \in Nat /\ Bytes(g_arenas[a]) \in Nat
      /\ a \in ArenaSlots /\ BlocksInv
    BY SoundArena DEF HeapInv
<1> DEFINE ptr(i) == arena_data_ptr_for_sector(g_arenas[a], i)
           S == {ptr(i) : i \in Allocated(g_arenas[a].sectors)}
           L == {l.ptr : l \in {k \in live : arena_contains_ptr(g_arenas[a], k.ptr)}}
<1>2. ASSUME NEW i \in Allocated(g_arenas[a].sectors)
      PROVE  \E l \in live : l.ptr = ptr(i) /\ arena_contains_ptr(g_arenas[a], l.ptr)
    <2> DEFINE p == Piece(g_arenas[a].base, Extent(g_arenas[a].sectors, i))
    <2>1. p \in Pieces(g_arenas[a])
        BY DEF Pieces, Extents
    <2>2. p.ptr = ptr(i)
        BY DEF Piece, Extent, arena_data_ptr_for_sector
    <2> HIDE DEF p
    <2>3. PICK l \in live : l.ptr = p.ptr
        BY <2>1 DEF HeapInv, LiveSound, AllPieces
    <2>4. /\ p.ptr \in Nat /\ p.bytes \in Nat \ {0} /\ g_arenas[a].base <= p.ptr
          /\ p.ptr + p.bytes <= g_arenas[a].base + Bytes(g_arenas[a])
        BY <1>1, <2>1, PieceIn
    <2>5. p.ptr < g_arenas[a].base + Bytes(g_arenas[a])
        BY <1>1, <2>4
    <2>6. arena_contains_ptr(g_arenas[a], p.ptr)
        BY <1>1, <2>4, <2>5, ContainsOnly
    <2> QED BY <2>2, <2>3, <2>6
<1>3. ASSUME NEW l \in live, arena_contains_ptr(g_arenas[a], l.ptr)
      PROVE  \E i \in Allocated(g_arenas[a].sectors) : l.ptr = ptr(i)
    <2>1. PICK p \in AllPieces : p.ptr = l.ptr
        BY DEF HeapInv, LiveSound
    <2>2. PICK b \in Arenas : p \in Pieces(g_arenas[b])
        BY DEF AllPieces
    <2>3. ArenaSound(g_arenas[b]) /\ g_arenas[b].base \in Nat /\ Bytes(g_arenas[b]) \in Nat
        BY SoundArena
    <2>4. /\ p.ptr \in Nat /\ p.bytes \in Nat \ {0} /\ g_arenas[b].base <= p.ptr
          /\ p.ptr + p.bytes <= g_arenas[b].base + Bytes(g_arenas[b])
        BY <2>2, <2>3, PieceIn
    <2>5. PICK i \in Allocated(g_arenas[b].sectors) :
              p.ptr = arena_data_ptr_for_sector(g_arenas[b], i)
        BY <2>2, <2>3, PieceIn
    <2>6. p.ptr < g_arenas[b].base + Bytes(g_arenas[b])
        BY <2>3, <2>4
    <2>7. a = b
        BY <1>1, <1>3, <2>1, <2>4, <2>6, ContainsOnly
    <2> QED BY <2>1, <2>5, <2>7
<1>4. S \subseteq L
    BY <1>2
<1>5. L \subseteq S
    BY <1>3
<1> QED BY <1>4, <1>5

LEMMA HeapInvJoined ==
    ASSUME HeapInv
    PROVE  Coalesced
BY DEF HeapInv, ArenasSound, ArenaSound, FreeJoined, Coalesced

(* The arenas and the allocations in use agree at every moment, through     *)
(* every sequence of calls and preemptions, as long as no allocation that   *)
(* is handed out runs past the end of the address space: kmalloc() does not *)
(* ask (malloc.c 245, 251), and with one that does it goes wrong.           *)
THEOREM HeapKept == Spec /\ []NoneWraps => []HeapInv
<1>1. HeapInv /\ NoneWraps' /\ [Next]_vars => HeapInv'
    BY HeapNext
<1> QED BY HeapInit, <1>1, PTL DEF Spec

(* Arenas, sectors, runs, allocations and calls keep their types: no base,  *)
(* pointer or count of units leaves the address space (malloc.c 15-45),     *)
(* unless an allocation does.                                               *)
THEOREM HeapTyped == Spec /\ []NoneWraps => []TypeOK
<1>1. HeapInv => TypeOK
    BY HeapInvTypes
<1> QED BY <1>1, HeapKept, PTL

(* Allocations in use never overlap, lie whole in the data of one arena and *)
(* stay clear of its headers, however kmalloc, krealloc and kfree of        *)
(* several threads are interleaved (malloc.c 310-540), up to the first that *)
(* runs past the end of the address space.                                  *)
THEOREM AllocationsSeparate == Spec /\ []NoneWraps => []LiveSeparate
<1>1. HeapInv => LiveSeparate
    BY HeapInvSeparates
<1> QED BY <1>1, HeapKept, PTL

(* In every arena the allocated sectors are the allocations in use: reuse,  *)
(* joining and shrinking lose none and keep none (malloc.c 310-540), under  *)
(* the same condition.                                                      *)
THEOREM SectorsTrackAllocations == Spec /\ []NoneWraps => []SectorsAnswer
<1>1. HeapInv => SectorsAnswer
    BY HeapInvAnswers
<1> QED BY <1>1, HeapKept, PTL

(* kfree() leaves no two free sectors next to each other and no free sector *)
(* behind an allocated one (malloc.c 498-530), under the same condition.    *)
THEOREM FreeSectorsJoined == Spec /\ []NoneWraps => []Coalesced
<1>1. HeapInv => Coalesced
    BY HeapInvJoined
<1> QED BY <1>1, HeapKept, PTL

-----------------------------------------------------------------------------
(* The heap implements module Heap.  A krealloc that copies has something   *)
(* to free.                                                                 *)
CopiesHold == \A t \in Threads : call[t].at = "copy" => call[t].old # NULL

HeapStep == [Calls!Next]_(Calls!heapvars)

LEMMA MovesGo ==
    ASSUME BlocksTyped, NEW t \in Threads, NEW c, Goto(t, c)
    PROVE  /\ Moves' = [Moves EXCEPT ![t] = MoveOf(c)]
           /\ Moves[t] = MoveOf(call[t])
           /\ CopiesHold /\ (c.at = "copy" => c.old # NULL) => CopiesHold'
<1>1. call = [u \in Threads |-> call[u]]
    BY DEF BlocksTyped
<1>2. call'[t] = c /\ \A u \in Threads : u # t => call'[u] = call[u]
    BY <1>1 DEF Goto
<1>3. Moves' = [u \in Threads |-> MoveOf(call'[u])]
    BY DEF Moves, MoveOf, OldOf
<1>4. \A u \in Threads : MoveOf(call'[u]) = IF u = t THEN MoveOf(c) ELSE MoveOf(call[u])
    BY <1>2
<1>5. Moves' = [Moves EXCEPT ![t] = MoveOf(c)]
    BY <1>3, <1>4 DEF Moves
<1>6. CopiesHold /\ (c.at = "copy" => c.old # NULL) => CopiesHold'
    BY <1>2 DEF CopiesHold
<1> QED BY <1>5, <1>6 DEF Moves

LEMMA NoMoveIs ==
    ASSUME NEW c, OldOf(c) = NULL, c.at # "copy"
    PROVE  MoveOf(c) = Calls!NoMove
<1>1. (c.at = "copy") = FALSE
    OBVIOUS
<1> QED BY <1>1 DEF MoveOf, Calls!NoMove, Calls!Move, Calls!NULL, NULL

(* A call that ends, or fails, without an effect on the allocations. *)
LEMMA GivesUp ==
    ASSUME BlocksTyped, NEW t \in Threads, call[t].at # "copy",
           NEW c, Goto(t, c), OldOf(c) = NULL, c.at # "copy", live' = live
    PROVE  HeapStep
<1>1. Moves' = [Moves EXCEPT ![t] = Calls!NoMove] /\ Moves[t] = MoveOf(call[t])
    BY MovesGo, NoMoveIs
<1>2. CASE OldOf(call[t]) = NULL
    <2>1. Moves[t] = Calls!NoMove
        BY <1>1, <1>2, NoMoveIs
    <2>2. Moves' = Moves
        BY <1>1, <2>1 DEF Moves
    <2> QED BY <2>2 DEF HeapStep, Calls!heapvars
<1>3. CASE OldOf(call[t]) # NULL
    <2>1. Calls!Searching(t)
        <3>1. Moves[t].old = OldOf(call[t]) /\ Moves[t].found = (call[t].at = "copy")
            BY <1>1 DEF MoveOf
        <3> QED BY <1>3, <3>1 DEF Calls!Searching, Calls!NULL, NULL
    <2>2. Calls!MoveFails(t)
        BY <1>1, <2>1 DEF Calls!MoveFails
    <2> QED BY <2>2 DEF HeapStep, Calls!Next
<1> QED BY <1>2, <1>3

(* A call that goes on with the same allocation to move. *)
LEMMA GoesOn ==
    ASSUME BlocksTyped, NEW t \in Threads, call[t].at # "copy",
           NEW c, Goto(t, c), OldOf(c) = OldOf(call[t]), c.at # "copy", live' = live
    PROVE  HeapStep
<1>1. Moves' = [Moves EXCEPT ![t] = MoveOf(c)] /\ Moves[t] = MoveOf(call[t])
    BY MovesGo
<1>2. MoveOf(c) = MoveOf(call[t])
    <2>1. (c.at = "copy") = FALSE /\ (call[t].at = "copy") = FALSE
        OBVIOUS
    <2> QED BY <2>1 DEF MoveOf
<1>3. Moves' = Moves
    BY <1>1, <1>2 DEF Moves
<1> QED BY <1>3 DEF HeapStep, Calls!heapvars

(* Allocations are in the memory of the heap, of a size that was asked for, *)
(* and apart.                                                               *)
InMemory(l) ==
    /\ l = [ptr |-> l.ptr, size |-> l.size] /\ l.size \in Asked
    /\ l.ptr \in BlockBytes .. BlockBytes * (HeapBlocks + 1) - 1
    /\ RangeOf(l) \subseteq BlockBytes .. BlockBytes * (HeapBlocks + 1) - 1

Placed ==
    /\ \A l \in live : InMemory(l)
    /\ \A l, k \in live : l # k => RangeOf(l) \cap RangeOf(k) = {}

LEMMA HeapInvPlaces == HeapInv => Placed
<1> SUFFICES ASSUME HeapInv PROVE Placed
    OBVIOUS
<1>1. ASSUME NEW l \in live PROVE InMemory(l)
    <2> DEFINE top == BlockBytes * (HeapBlocks + 1)
    <2>1. PICK a \in Arenas : /\ g_arenas[a].base <= l.ptr
                              /\ l.ptr + l.size <= HeadersBottom(g_arenas[a])
                              /\ HeadersBottom(g_arenas[a]) <= g_arenas[a].base + Bytes(g_arenas[a])
                              /\ HeadersBottom(g_arenas[a]) \in Int
        BY LiveIn
    <2>2. /\ g_arenas[a].base \in Nat /\ Bytes(g_arenas[a]) \in Nat
          /\ BlockBytes <= g_arenas[a].base /\ g_arenas[a].base + Bytes(g_arenas[a]) <= top
        BY SpreadHolds DEF HeapInv, Spread, Within
    <2>3. l = [ptr |-> l.ptr, size |-> l.size] /\ l.ptr \in Nat /\ l.size \in Nat \ {0}
        BY LiveIn
    <2>4. top \in Nat /\ BlockBytes \in Nat
        BY Numbers
    <2>5. l.size \in Asked
        BY DEF HeapInv, LiveSound
    <2> HIDE DEF top
    <2>6. l.ptr + l.size <= top /\ BlockBytes <= l.ptr
        BY <2>1, <2>2, <2>3, <2>4
    <2>7. /\ l.ptr \in BlockBytes .. top - 1
          /\ l.ptr .. l.ptr + l.size - 1 \subseteq BlockBytes .. top - 1
        BY <2>3, <2>4, <2>6
    <2> QED BY <2>3, <2>5, <2>7 DEF InMemory, RangeOf, top
<1>2. LiveSeparate
    BY HeapInvSeparates
<1> QED BY <1>1, <1>2 DEF Placed, LiveSeparate

LEMMA Obtains ==
    ASSUME HeapInv', NEW ptr, NEW size, Fresh(ptr),
           live' = live \cup {[ptr |-> ptr, size |-> size]}
    PROVE  Calls!Obtain
<1> DEFINE new == [ptr |-> ptr, size |-> size]
<1>1. Placed'
    BY HeapInvPlaces, PTL
<1>2. new.ptr = ptr /\ new.size = size /\ new \in live' /\ live' = live \cup {new}
    OBVIOUS
<1>3. \A k \in live : k # new /\ k \in live'
    BY <1>2 DEF Fresh
<1> HIDE DEF new
<1>4. InMemory(new) /\ \A k \in live : RangeOf(new) \cap RangeOf(k) = {}
    BY <1>1, <1>2, <1>3 DEF Placed, InMemory, RangeOf
<1>5. Calls!InPlace(new, live)
    BY <1>4 DEF Calls!InPlace, Calls!RangeOf, InMemory, RangeOf
<1>6. /\ ptr \in BlockBytes .. BlockBytes * (HeapBlocks + 1) - 1 /\ size \in Asked
    BY <1>2, <1>4 DEF InMemory
<1> QED BY <1>2, <1>5, <1>6 DEF Calls!Obtain, new

LEMMA TakesEffect ==
    ASSUME BlocksTyped, HeapInv', NEW t \in Threads, NEW ptr, NEW size, call[t].at # "copy",
           Obtained(t, ptr, size, OldOf(call[t]))
    PROVE  HeapStep /\ (CopiesHold => CopiesHold')
<1> DEFINE old == OldOf(call[t])
           copy == [at |-> "copy", old |-> old]
           c == IF old = NULL THEN Idle ELSE copy
<1>1. Goto(t, c) /\ Calls!Obtain
    BY Obtains DEF Obtained, Returns
<1>2. old = NULL => OldOf(c) = NULL /\ c.at # "copy"
    BY DEF OldOf, Idle
<1>3. old # NULL => c.at = "copy" /\ c.old = old /\ OldOf(c) = old
    BY DEF OldOf
<1> HIDE DEF c
<1>4. /\ Moves' = [Moves EXCEPT ![t] = MoveOf(c)] /\ Moves[t] = MoveOf(call[t])
      /\ CopiesHold => CopiesHold'
    BY <1>1, <1>2, <1>3, MovesGo
<1>5. CASE old = NULL
    <2>1. Moves[t] = Calls!NoMove /\ Moves' = [Moves EXCEPT ![t] = Calls!NoMove]
        <3>1. MoveOf(call[t]) = Calls!NoMove
            BY <1>5, NoMoveIs
        <3>2. MoveOf(c) = Calls!NoMove
            BY <1>2, <1>5, NoMoveIs
        <3> QED BY <1>4, <3>1, <3>2
    <2>2. Moves' = Moves
        BY <2>1 DEF Moves
    <2>3. Calls!Malloc(t)
        BY <1>1, <2>1, <2>2 DEF Calls!Malloc
    <2> QED BY <1>4, <2>3 DEF HeapStep, Calls!Next
<1>6. CASE old # NULL
    <2>1. Moves[t].old = old /\ Moves[t].found = (call[t].at = "copy")
        BY <1>4 DEF MoveOf
    <2>2. Calls!Searching(t)
        BY <1>6, <2>1 DEF Calls!Searching, Calls!NULL, NULL
    <2>3. MoveOf(c) = Calls!Move(Moves[t].old, TRUE)
        <3>1. (c.at = "copy") = TRUE
            BY <1>3, <1>6
        <3> QED BY <1>3, <1>6, <2>1, <3>1 DEF MoveOf, Calls!Move
    <2>4. Moves' = [Moves EXCEPT ![t] = Calls!Move(@.old, TRUE)]
        BY <1>4, <2>3
    <2>5. Calls!MoveTo(t)
        BY <1>1, <2>2, <2>4 DEF Calls!MoveTo
    <2> QED BY <1>4, <2>5 DEF HeapStep, Calls!Next
<1> QED BY <1>5, <1>6

(* A section of kmalloc(), of its own or in a krealloc.                     *)
LEMMA SectionImplements ==
    ASSUME NoneWraps', HeapInv, BlocksInv', NEW t \in Threads, NEW size \in Asked,
           call[t].at # "copy", MallocSection(t, size, OldOf(call[t]))
    PROVE  HeapStep /\ (CopiesHold => CopiesHold')
<1> DEFINE old == OldOf(call[t])
<1>1. BlocksTyped /\ HeapInv' /\ SectionEffect(t, size, old)
    BY SectionSound DEF HeapInv, BlocksInv
<1>2. ASSUME NEW ptr, Obtained(t, ptr, size, old) PROVE HeapStep /\ (CopiesHold => CopiesHold')
    BY <1>1, <1>2, TakesEffect
<1>3. ASSUME NEW slot, live' = live,
             Goto(t, [at |-> "blocks", slot |-> slot, size |-> size, old |-> old])
      PROVE  HeapStep /\ (CopiesHold => CopiesHold')
    <2> DEFINE c == [at |-> "blocks", slot |-> slot, size |-> size, old |-> old]
    <2>1. OldOf(c) = old /\ c.at # "copy" /\ Goto(t, c)
        BY <1>3 DEF OldOf
    <2> HIDE DEF c
    <2> QED BY <1>1, <1>3, <2>1, GoesOn, MovesGo
<1>4. ASSUME Fails(t) PROVE HeapStep /\ (CopiesHold => CopiesHold')
    <2>1. OldOf(Idle) = NULL /\ Idle.at # "copy" /\ Goto(t, Idle) /\ live' = live
        BY <1>4 DEF OldOf, Idle, Fails
    <2> QED BY <1>1, <2>1, GivesUp, MovesGo
<1>5. ASSUME UNCHANGED <<live, call>> PROVE HeapStep /\ (CopiesHold => CopiesHold')
    BY <1>5 DEF HeapStep, Calls!heapvars, Moves, CopiesHold
<1> HIDE DEF old
<1> QED BY <1>1, <1>2, <1>3, <1>4, <1>5 DEF SectionEffect

LEMMA MallocBlocksImplements ==
    ASSUME HeapInv, NEW t \in Threads, MallocBlocks(t)
    PROVE  HeapStep /\ (CopiesHold => CopiesHold')
<1> DEFINE c == call[t]
<1>1. BlocksTyped /\ c.at = "blocks" /\ live' = live
    BY DEF HeapInv, BlocksInv, MallocBlocks, In
<1>2. OldOf(c) = c.old
    BY <1>1 DEF OldOf
<1>3. ASSUME NEW b, NEW n,
             Goto(t, [at |-> "arena", slot |-> c.slot, size |-> c.size,
                      old |-> c.old, base |-> b, blocks |-> n])
      PROVE  HeapStep /\ (CopiesHold => CopiesHold')
    <2> DEFINE d == [at |-> "arena", slot |-> c.slot, size |-> c.size,
                     old |-> c.old, base |-> b, blocks |-> n]
    <2>1. OldOf(d) = c.old /\ d.at # "copy" /\ Goto(t, d)
        BY <1>3 DEF OldOf
    <2> HIDE DEF d
    <2> QED BY <1>1, <1>2, <2>1, GoesOn, MovesGo
<1>4. ASSUME Goto(t, [at |-> "unreserve", slot |-> c.slot])
      PROVE  HeapStep /\ (CopiesHold => CopiesHold')
    <2> DEFINE d == [at |-> "unreserve", slot |-> c.slot]
    <2>1. OldOf(d) = NULL /\ d.at # "copy" /\ Goto(t, d)
        BY <1>4 DEF OldOf
    <2> HIDE DEF d
    <2> QED BY <1>1, <2>1, GivesUp, MovesGo
<1>5. \/ Goto(t, [at |-> "unreserve", slot |-> c.slot])
      \/ \E b, n : Goto(t, [at |-> "arena", slot |-> c.slot, size |-> c.size,
                            old |-> c.old, base |-> b, blocks |-> n])
    BY DEF MallocBlocks
<1> QED BY <1>3, <1>4, <1>5

LEMMA MallocArenaImplements ==
    ASSUME NoneWraps', HeapInv, NEW t \in Threads, MallocArena(t)
    PROVE  HeapStep /\ (CopiesHold => CopiesHold')
<1> DEFINE c == call[t]
<1>1. BlocksTyped /\ HeapInv' /\ ArenaEffect(t, c) /\ c.at = "arena"
    BY MallocArenaSound DEF HeapInv, BlocksInv, MallocArena, In
<1>2. OldOf(c) = c.old
    BY <1>1 DEF OldOf
<1>3. CASE Obtained(t, c.base, c.size, c.old)
    BY <1>1, <1>2, <1>3, TakesEffect
<1>4. CASE Goto(t, [at |-> "giveback", base |-> c.base]) /\ UNCHANGED live
    <2> DEFINE d == [at |-> "giveback", base |-> c.base]
    <2>1. OldOf(d) = NULL /\ d.at # "copy" /\ Goto(t, d)
        BY <1>4 DEF OldOf
    <2> HIDE DEF d
    <2> QED BY <1>1, <1>4, <2>1, GivesUp, MovesGo
<1> QED BY <1>1, <1>3, <1>4 DEF ArenaEffect

(* The last step of a kmalloc that found no blocks, or too few.             *)
LEMMA EndsImplement ==
    ASSUME HeapInv, NEW t \in Threads, MallocUnreserve(t) \/ MallocGiveBack(t)
    PROVE  HeapStep /\ (CopiesHold => CopiesHold')
<1>1. /\ BlocksTyped /\ call[t].at # "copy" /\ Goto(t, Idle) /\ live' = live
      /\ OldOf(Idle) = NULL /\ Idle.at # "copy"
    BY DEF HeapInv, BlocksInv, MallocUnreserve, MallocGiveBack, In, Fails, OldOf, Idle
<1> QED BY <1>1, GivesUp, MovesGo

LEMMA IdleMoves ==
    ASSUME BlocksTyped, NEW t \in Threads, call[t].at = "idle"
    PROVE  Moves[t] = Calls!NoMove
<1>1. OldOf(call[t]) = NULL /\ call[t].at # "copy"
    BY DEF OldOf
<1> QED BY <1>1, NoMoveIs DEF Moves

LEMMA SettledIs ==
    ASSUME BlocksTyped, LiveSound, NEW l \in live, ~InRealloc(l)
    PROVE  Calls!Settled(l)
<1>1. l.ptr \in Nat \ {0}
    BY DEF LiveSound
<1>2. \A u \in Threads : OldOf(call[u]) # l.ptr
    BY <1>1, NotInRealloc
<1> QED BY <1>2 DEF Calls!Settled, Moves, MoveOf

LEMMA kfreeImplements ==
    ASSUME HeapInv, NEW t \in Threads, NEW l \in live, kfree(t, l)
    PROVE  HeapStep /\ (CopiesHold => CopiesHold')
<1>1. /\ BlocksTyped /\ LiveSound /\ ~InRealloc(l) /\ call[t].at = "idle"
      /\ live' = live \ {l} /\ call' = call
    BY DEF HeapInv, BlocksInv, kfree, In
<1>2. Moves[t] = Calls!NoMove /\ Calls!Settled(l) /\ Moves' = Moves
    BY <1>1, IdleMoves, SettledIs DEF Moves
<1>3. Calls!Free(t)
    BY <1>1, <1>2 DEF Calls!Free
<1> QED BY <1>1, <1>3 DEF HeapStep, Calls!Next, CopiesHold

LEMMA kreallocImplements ==
    ASSUME NoneWraps', HeapInv, NEW t \in Threads, NEW l \in live, NEW size \in Sizes,
           krealloc(t, l, size)
    PROVE  HeapStep /\ (CopiesHold => CopiesHold')
<1>1. /\ BlocksTyped /\ LiveSound /\ ~InRealloc(l) /\ call[t].at = "idle" /\ HeapInv'
      /\ size \in Asked /\ l.ptr \in Nat \ {0}
    BY kreallocSound DEF HeapInv, BlocksInv, LiveSound, krealloc, In, Asked
<1>2. Moves[t] = Calls!NoMove /\ Calls!Settled(l)
    BY <1>1, IdleMoves, SettledIs
<1>3. ASSUME live' = (live \ {l}) \cup {[l EXCEPT !.size = size]}, UNCHANGED call
      PROVE  HeapStep /\ (CopiesHold => CopiesHold')
    <2> DEFINE new == [ptr |-> l.ptr, size |-> size]
    <2>1. live' = (live \ {l}) \cup {new}
        BY <1>1, <1>3 DEF LiveSound
    <2>2. new.ptr = l.ptr
        OBVIOUS
    <2> HIDE DEF new
    <2>3. Placed'
        BY <1>1, HeapInvPlaces, PTL
    <2>4. \A k \in live \ {l} : k # new /\ k \in live'
        BY <1>1, <2>1, <2>2 DEF LiveSound
    <2>5. InMemory(new) /\ \A k \in live \ {l} : RangeOf(new) \cap RangeOf(k) = {}
        BY <2>1, <2>3, <2>4 DEF Placed, InMemory, RangeOf
    <2>6. Calls!InPlace(new, live \ {l})
        BY <2>5 DEF Calls!InPlace, Calls!RangeOf, InMemory, RangeOf
    <2>7. Moves' = Moves
        BY <1>3 DEF Moves
    <2>8. Calls!Resize(t)
        BY <1>1, <1>2, <2>1, <2>6, <2>7 DEF Calls!Resize, new
    <2> QED BY <1>3, <2>8 DEF HeapStep, Calls!Next, CopiesHold
<1>4. ASSUME Goto(t, [at |-> "grow", size |-> size, old |-> l.ptr]), UNCHANGED live
      PROVE  HeapStep /\ (CopiesHold => CopiesHold')
    <2> DEFINE c == [at |-> "grow", size |-> size, old |-> l.ptr]
    <2>1. Goto(t, c) /\ OldOf(c) = l.ptr /\ c.at = "grow"
        BY <1>4 DEF OldOf
    <2> HIDE DEF c
    <2>2. MoveOf(c) = Calls!Move(l.ptr, FALSE)
        <3>1. (c.at = "copy") = FALSE
            BY <2>1
        <3> QED BY <2>1, <3>1 DEF MoveOf, Calls!Move
    <2>3. /\ Moves' = [Moves EXCEPT ![t] = MoveOf(c)]
          /\ CopiesHold => CopiesHold'
        BY <1>1, <2>1, MovesGo
    <2>4. Moves' = [Moves EXCEPT ![t] = Calls!Move(l.ptr, FALSE)]
        BY <1>2, <2>2, <2>3
    <2>5. Calls!MoveBegin(t)
        BY <1>2, <1>4, <2>4 DEF Calls!MoveBegin
    <2> QED BY <2>3, <2>5 DEF HeapStep, Calls!Next
<1> QED BY <1>3, <1>4 DEF krealloc

LEMMA ReallocCopyImplements ==
    ASSUME HeapInv, CopiesHold, NEW t \in Threads, ReallocCopy(t)
    PROVE  HeapStep /\ CopiesHold'
<1> DEFINE old == call[t].old
<1>1. /\ BlocksTyped /\ LiveSound /\ OldsSound /\ call[t].at = "copy" /\ Goto(t, Idle)
      /\ live' = {l \in live : l.ptr # old}
    BY DEF HeapInv, BlocksInv, ReallocCopy, In
<1>2. OldOf(call[t]) = old /\ old # NULL
    BY <1>1 DEF OldOf, CopiesHold
<1>3. PICK l \in live : l.ptr = old
    BY <1>1, <1>2 DEF OldsSound
<1>4. live' = live \ {l}
    BY <1>1, <1>3 DEF LiveSound
<1>5. OldOf(Idle) = NULL /\ Idle.at # "copy"
    BY DEF OldOf, Idle
<1>6. /\ Moves' = [Moves EXCEPT ![t] = Calls!NoMove] /\ Moves[t] = MoveOf(call[t])
      /\ CopiesHold'
    BY <1>1, <1>5, MovesGo, NoMoveIs
<1>7. Moves[t].found = (call[t].at = "copy") /\ Moves[t].old = old
    BY <1>2, <1>6 DEF MoveOf
<1>8. Moves[t].found
    BY <1>1, <1>7
<1>9. Calls!MoveEnd(t)
    BY <1>3, <1>4, <1>6, <1>7, <1>8 DEF Calls!MoveEnd
<1> QED BY <1>6, <1>9 DEF HeapStep, Calls!Next

LEMMA StepsImplement ==
    ASSUME NoneWraps', HeapInv, CopiesHold, [Next]_vars
    PROVE  HeapStep /\ CopiesHold'
<1>1. BlocksInv' /\ BlocksInv /\ BlocksTyped
    BY BlocksNext DEF HeapInv, BlocksInv
<1>2. ASSUME UNCHANGED vars PROVE HeapStep /\ CopiesHold'
    BY <1>2 DEF vars, HeapStep, Calls!heapvars, Moves, CopiesHold
<1>3. ASSUME NEW t \in Threads, NEW size \in Asked, kmalloc(t, size)
      PROVE  HeapStep /\ CopiesHold'
    <2>1. call[t].at = "idle" /\ MallocSection(t, size, NULL) /\ OldOf(call[t]) = NULL
        BY <1>3 DEF kmalloc, In, OldOf
    <2>2. MallocSection(t, size, OldOf(call[t]))
        BY <2>1
    <2> QED BY <1>1, <2>1, <2>2, SectionImplements
<1>4. ASSUME NEW t \in Threads, NEW count \in Counts, NEW size \in Sizes,
             kcalloc(t, count, size)
      PROVE  HeapStep /\ CopiesHold'
    <2>1. <<count, size>> \in {q \in Counts \X Sizes : (SizeMod - 1) \div q[1] >= q[2]}
        BY <1>4 DEF kcalloc
    <2>2. count * size \in Asked
        BY <2>1 DEF Asked
    <2> QED BY <1>3, <1>4, <2>2 DEF kcalloc
<1>5. ASSUME NEW t \in Threads, ReallocGrow(t) PROVE HeapStep /\ CopiesHold'
    <2>1. call[t].at = "grow" /\ MallocSection(t, call[t].size, call[t].old)
        BY <1>5 DEF ReallocGrow, In
    <2>2. call[t].size \in Asked /\ call[t].old = OldOf(call[t])
        BY <1>1, <2>1, EmptyHanded DEF OldOf
    <2>3. MallocSection(t, call[t].size, OldOf(call[t]))
        BY <2>1, <2>2
    <2> QED BY <1>1, <2>1, <2>2, <2>3, SectionImplements
<1>6. \A size \in Sizes : size \in Asked
    BY DEF Asked
<1> QED BY <1>2, <1>3, <1>4, <1>5, <1>6, MallocBlocksImplements, MallocArenaImplements,
           EndsImplement, kfreeImplements, kreallocImplements, ReallocCopyImplements DEF Next

LEMMA InitImplements ==
    Init => Calls!Init /\ CopiesHold
<1> SUFFICES ASSUME Init PROVE Calls!Init /\ CopiesHold
    OBVIOUS
<1>1. live = {} /\ \A t \in Threads : call[t] = Idle
    BY DEF Init
<1>2. OldOf(Idle) = NULL /\ Idle.at # "copy"
    BY DEF OldOf, Idle
<1>3. \A t \in Threads : MoveOf(call[t]) = Calls!NoMove
    BY <1>1, <1>2, NoMoveIs
<1>4. Moves = [t \in Threads |-> Calls!NoMove]
    BY <1>3 DEF Moves
<1> QED BY <1>1, <1>2, <1>4 DEF Calls!Init, CopiesHold

(* The heap implements its calls as module Heap gives them: memory is the   *)
(* caller's alone, in place, until it is freed or moved, and a krealloc     *)
(* that finds no memory keeps the old (malloc.c 310-633), as long as no     *)
(* allocation runs past the end of the address space.                       *)
THEOREM HeapImplementsCalls == Spec /\ []NoneWraps => ImplementsHeap
<1>1. HeapInv /\ NoneWraps' /\ CopiesHold /\ [Next]_vars => HeapStep /\ CopiesHold'
    BY StepsImplement
<1> QED BY InitImplements, <1>1, HeapKept, PTL
        DEF Spec, ImplementsHeap, Calls!Spec, HeapStep

-----------------------------------------------------------------------------
(* Which requests keep the condition: all pointers lie in the heap, so a    *)
(* size that does not reach from the top of the heap past the end of the    *)
(* address space never makes an allocation that does.                       *)
Low(ptr) == ptr \in Nat /\ ptr <= BlockBytes * (HeapBlocks + 1)

LEMMA LowEnds ==
    ASSUME SizesClear, NEW size \in Asked, NEW ptr, Low(ptr)
    PROVE  ptr + size + Align <= SizeMod
<1> DEFINE limit == BlockBytes * (HeapBlocks + 1)
<1>1. limit + size + Align <= SizeMod
    BY DEF SizesClear
<1>2. size \in Nat /\ Align \in Nat /\ SizeMod \in Nat /\ BlockBytes \in Nat /\ HeapBlocks \in Nat
    BY Numbers, AskedTyped
<1>3. limit \in Nat
    BY <1>2
<1>4. ptr \in Nat /\ ptr <= limit
    BY DEF Low
<1> HIDE DEF limit
<1> QED BY <1>1, <1>2, <1>3, <1>4

(* A step hands out at most ptr, for size bytes. *)
Hands(ptr, size) ==
    Low(ptr) /\ size \in Asked /\ live' \subseteq live \cup {[ptr |-> ptr, size |-> size]}

LEMMA HandsOut ==
    ASSUME SizesClear, NoneWraps, NEW ptr, NEW size, Hands(ptr, size)
    PROVE  NoneWraps'
<1>1. ptr + size + Align <= SizeMod
    BY LowEnds DEF Hands
<1> QED BY <1>1 DEF NoneWraps, Hands

LEMMA SectionHands ==
    ASSUME SizesClear, HeapInv, NoneWraps, NEW t \in Threads, NEW size \in Asked, NEW old,
           MallocSection(t, size, old)
    PROVE  NoneWraps'
<1>1. BlocksInv /\ Spread /\ ArenasSound
    BY SpreadHolds DEF HeapInv
<1>2. ASSUME NEW a \in ArenaSlots, NEW i \in DOMAIN g_arenas[a].sectors,
             <<a, i>> \in FreeSectors(align_up(size) \div Align),
             Returns(t, arena_data_ptr_for_sector(g_arenas[a], i), size, old)
      PROVE  NoneWraps'
    <2> DEFINE s == g_arenas[a].sectors
               ptr == arena_data_ptr_for_sector(g_arenas[a], i)
    <2>1. a \in Arenas
        BY <1>1, <1>2, Unfounded
    <2>2. ArenaSound(g_arenas[a]) /\ Within(g_arenas[a].base, Bytes(g_arenas[a]))
        BY <1>1, <2>1 DEF ArenasSound, Spread
    <2>3. s \in Seq(SectorRecords) /\ Filled(s)
        BY <2>2 DEF ArenaSound
    <2>4. i \in 1 .. Len(s)
        BY <2>3, SectorSeq
    <2>5. /\ DataBytes(s)[i - 1] \in Nat /\ DataBytes(s)[i - 1] <= DataBytes(s)[Len(s)]
          /\ DataBytes(s)[Len(s)] \in Nat
        <3>1. /\ DataBytes(s)[i - 1] \in Nat /\ DataBytes(s)[i - 1] < DataBytes(s)[i]
              /\ DataBytes(s)[i] \in Nat
            BY <2>3, <2>4, SectorAt
        <3>2. DataBytes(s)[i] <= DataBytes(s)[Len(s)]
            BY <2>3, <2>4, ExtentIn
        <3>3. DataBytes(s)[Len(s)] \in Nat
            BY <2>3, SpaceTyped
        <3> QED BY <3>1, <3>2, <3>3
    <2>6. /\ DataEnd(g_arenas[a], 0) = g_arenas[a].base + DataBytes(s)[Len(s)]
          /\ DataEnd(g_arenas[a], 0) <= BlockBytes * (HeapBlocks + 1)
        BY <2>2, DataEndIs
    <2>7. Low(ptr)
        <3> DEFINE base == g_arenas[a].base
                   d == DataBytes(s)[i - 1]
                   end == DataBytes(s)[Len(s)]
                   limit == BlockBytes * (HeapBlocks + 1)
        <3>1. base \in Nat /\ ptr = base + d /\ base + end <= limit
            BY <2>2, <2>6 DEF Within, arena_data_ptr_for_sector
        <3>2. d \in Nat /\ end \in Nat /\ d <= end /\ limit \in Nat
            <4>1. BlockBytes \in Nat /\ HeapBlocks \in Nat
                BY Numbers
            <4>2. limit \in Nat
                BY <4>1
            <4> QED BY <2>5, <4>2
        <3> HIDE DEF base, d, end, limit, ptr
        <3>3. ptr \in Nat /\ ptr <= limit
            BY <3>1, <3>2
        <3> QED BY <3>3 DEF Low, limit
    <2>8. Hands(ptr, size)
        BY <1>2, <2>7 DEF Hands, Returns
    <2> QED BY <2>8, HandsOut
<1>3. ASSUME NEW a \in ArenaSlots, g_arenas[a].base # NULL,
             Returns(t, DataEnd(g_arenas[a], 0), size, old)
      PROVE  NoneWraps'
    <2>1. a \in Arenas
        BY <1>3 DEF Arenas
    <2>2. ArenaSound(g_arenas[a]) /\ Within(g_arenas[a].base, Bytes(g_arenas[a]))
        BY <1>1, <2>1 DEF ArenasSound, Spread
    <2>3. Low(DataEnd(g_arenas[a], 0))
        BY <2>2, DataEndIs DEF Low
    <2>4. Hands(DataEnd(g_arenas[a], 0), size)
        BY <1>3, <2>3 DEF Hands, Returns
    <2> QED BY <2>4, HandsOut
<1>4. ASSUME UNCHANGED live PROVE NoneWraps'
    BY <1>4 DEF NoneWraps
<1> QED BY <1>2, <1>3, <1>4 DEF MallocSection, IsBestFit, Fails

LEMMA MallocArenaHands ==
    ASSUME SizesClear, HeapInv, NoneWraps, NEW t \in Threads, MallocArena(t)
    PROVE  NoneWraps'
<1> DEFINE c == call[t]
<1>1. BlocksInv /\ CallTyped(c) /\ c.at = "arena"
    BY DEF HeapInv, BlocksInv, BlocksTyped, MallocArena, In
<1>2. c.base \in Nat \ {0} /\ c.size \in Asked /\ BaseOf(c) = c.base /\ BaseOf(c) # NULL
    BY <1>1 DEF CallTyped, Idle, BaseOf, NULL
<1>3. PICK r \in allocs : At(r, c.base)
    BY <1>1, <1>2 DEF BlocksInv, CallsStand
<1>4. /\ r.start * BlockBytes \in Nat /\ r.count * BlockBytes \in Nat
      /\ r.start * BlockBytes + r.count * BlockBytes <= BlockBytes * (HeapBlocks + 1)
    BY <1>1, RunSpan DEF BlocksInv
<1>5. Low(c.base)
    <2> DEFINE limit == BlockBytes * (HeapBlocks + 1)
    <2>1. c.base = r.start * BlockBytes
        BY <1>3 DEF At
    <2>2. BlockBytes \in Nat /\ HeapBlocks \in Nat
        BY Numbers
    <2>3. limit \in Nat
        BY <2>2
    <2> DEFINE n == r.count * BlockBytes
    <2>4. c.base \in Nat /\ n \in Nat /\ c.base + n <= limit
        BY <1>4, <2>1
    <2> HIDE DEF limit, n, c
    <2>5. c.base <= limit
        BY <2>3, <2>4
    <2> QED BY <2>4, <2>5 DEF Low, limit
<1>6. CASE Returns(t, c.base, c.size, c.old)
    <2>1. Hands(c.base, c.size)
        BY <1>2, <1>5, <1>6 DEF Hands, Returns
    <2> QED BY <2>1, HandsOut
<1>7. CASE UNCHANGED live
    BY <1>7 DEF NoneWraps
<1> QED BY <1>6, <1>7 DEF MallocArena

LEMMA LiveLow ==
    ASSUME HeapInv, NEW l \in live
    PROVE  Low(l.ptr) /\ l = [ptr |-> l.ptr, size |-> l.size]
<1>1. l = [ptr |-> l.ptr, size |-> l.size] /\ l.ptr \in Nat
    BY DEF HeapInv, LiveSound
<1>2. BlocksInv /\ Spread
    BY SpreadHolds DEF HeapInv
<1>3. PICK a \in Arenas : \E i \in Allocated(g_arenas[a].sectors) : PlacesOf(l.ptr) = {<<a, i>>}
    BY LivePlace
<1>4. PICK i \in Allocated(g_arenas[a].sectors) : PlacesOf(l.ptr) = {<<a, i>>}
    BY <1>3
<1>5. arena_contains_ptr(g_arenas[a], l.ptr)
    <2>1. <<a, i>> \in PlacesOf(l.ptr)
        BY <1>4
    <2> QED BY <2>1 DEF PlacesOf
<1> DEFINE base == g_arenas[a].base
           bytes == Bytes(g_arenas[a])
           limit == BlockBytes * (HeapBlocks + 1)
<1>6. base \in Nat /\ bytes \in Nat /\ base + bytes <= limit
    BY <1>2 DEF Spread, Within
<1>7. l.ptr \in base .. base + bytes - 1
    BY <1>5 DEF arena_contains_ptr
<1>8. BlockBytes \in Nat /\ HeapBlocks \in Nat
    BY Numbers
<1>9. limit \in Nat
    BY <1>8
<1> HIDE DEF base, bytes, limit
<1>10. l.ptr <= limit
    BY <1>1, <1>6, <1>7, <1>9
<1> QED BY <1>1, <1>10 DEF Low, limit

LEMMA kreallocHands ==
    ASSUME SizesClear, HeapInv, NoneWraps, NEW t \in Threads, NEW l \in live, NEW size \in Sizes,
           krealloc(t, l, size)
    PROVE  NoneWraps'
<1>1. Low(l.ptr) /\ l = [ptr |-> l.ptr, size |-> l.size] /\ size \in Asked
    BY LiveLow DEF Asked
<1>2. CASE live' = (live \ {l}) \cup {[l EXCEPT !.size = size]}
    <2>1. [l EXCEPT !.size = size] = [ptr |-> l.ptr, size |-> size]
        BY <1>1
    <2>2. Hands(l.ptr, size)
        BY <1>1, <1>2, <2>1 DEF Hands
    <2> QED BY <2>2, HandsOut
<1>3. CASE UNCHANGED live
    BY <1>3 DEF NoneWraps
<1> QED BY <1>2, <1>3 DEF krealloc

LEMMA NoneWrapsNext ==
    ASSUME SizesClear, HeapInv, NoneWraps, [Next]_vars
    PROVE  NoneWraps'
<1>1. ASSUME live' \subseteq live PROVE NoneWraps'
    BY <1>1 DEF NoneWraps
<1>2. ASSUME NEW t \in Threads, NEW size \in Asked, kmalloc(t, size) PROVE NoneWraps'
    BY <1>2, SectionHands DEF kmalloc
<1>3. ASSUME NEW t \in Threads, NEW count \in Counts, NEW size \in Sizes,
             kcalloc(t, count, size)
      PROVE  NoneWraps'
    <2>1. <<count, size>> \in {q \in Counts \X Sizes : (SizeMod - 1) \div q[1] >= q[2]}
        BY <1>3 DEF kcalloc
    <2>2. count * size \in Asked
        BY <2>1 DEF Asked
    <2> QED BY <1>2, <1>3, <2>2 DEF kcalloc
<1>4. ASSUME NEW t \in Threads, ReallocGrow(t) PROVE NoneWraps'
    <2>1. call[t].at = "grow" /\ MallocSection(t, call[t].size, call[t].old)
        BY <1>4 DEF ReallocGrow, In
    <2>2. call[t].size \in Asked
        BY <2>1, EmptyHanded DEF HeapInv
    <2> QED BY <2>1, <2>2, SectionHands
<1>5. ASSUME NEW t \in Threads,
             \/ MallocBlocks(t) \/ MallocUnreserve(t) \/ MallocGiveBack(t) \/ ReallocCopy(t)
             \/ \E l \in live : kfree(t, l)
      PROVE  NoneWraps'
    <2>1. live' \subseteq live
        BY <1>5 DEF MallocBlocks, MallocUnreserve, MallocGiveBack, ReallocCopy, kfree, Fails
    <2> QED BY <1>1, <2>1
<1>6. ASSUME UNCHANGED vars PROVE NoneWraps'
    BY <1>1, <1>6 DEF vars
<1>7. \A size \in Sizes : size \in Asked
    BY DEF Asked
<1> QED BY <1>2, <1>3, <1>4, <1>5, <1>6, <1>7, MallocArenaHands, kreallocHands DEF Next

(* If no size asked for reaches from the top of the heap past the end of    *)
(* the address space, no allocation does, whatever order the calls come in  *)
(* (malloc.c 231-252): all of the theorems above hold of such a program.    *)
THEOREM RequestsBelowTop ==
    ASSUME SizesClear PROVE Spec => []NoneWraps
<1>1. SizesClear
    OBVIOUS
<1>2. Init => NoneWraps
    BY DEF Init, NoneWraps
<1>3. HeapInv /\ NoneWraps /\ [Next]_vars => NoneWraps'
    BY <1>1, NoneWrapsNext
<1>4. HeapInv /\ NoneWraps' /\ [Next]_vars => HeapInv'
    BY HeapNext
<1> QED BY HeapInit, <1>2, <1>3, <1>4, PTL DEF Spec
=============================================================================
