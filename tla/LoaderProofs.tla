---------------------------- MODULE LoaderProofs ----------------------------
(***************************************************************************)
(* What module Loader checks for words of three bits, for words of every    *)
(* width.                                                                   *)
(***************************************************************************)
EXTENDS Loader, TLAPS

(* What the induction needs besides: no callback has failed when the load   *)
(* goes on to its next library call, and the image fits by then.            *)
Progress ==
    /\ stage \in {"el_init", "el_load", "el_relocate"} => args.image /\ args.memory # 0
    /\ stage \in {"el_load", "el_relocate"} => ToSize(elf.memsz) <= args.memory_size
    /\ stage \in {"call", "el_init", "el_load", "el_relocate"} => result.entry_point = 0

LoaderInv == TypeOK /\ ReadsInImage /\ SegmentsInMemory /\ ResultConsistent /\ Progress

(* A sum of words is a word, and so is a cast. *)
LEMMA AddWord == ASSUME NEW a \in Words, NEW b \in Words PROVE Add(a, b) \in Words
  BY LoaderAssumption DEF Add, Words

LEMMA CastWord == ASSUME NEW a \in Nat PROVE ToSize(a) \in Words /\ ToElf(a) \in ElfWords
  BY LoaderAssumption DEF ToSize, ToElf, Words, ElfWords

(* Casting a value that fits does not change it. *)
LEMMA CastSmall == ASSUME NEW a \in Words PROVE ToSize(a) = a
  BY LoaderAssumption, SMT DEF ToSize, Words

(* The checks of loader_alloc() accept exactly the segments inside the      *)
(* memory (loader.c 48-72), for every width of the two types, and none when *)
(* the memory reaches to the end of the address space.                      *)
LEMMA PlaceableInside ==
    ASSUME TypeOK, NEW phys \in ElfWords, NEW size \in ElfWords
    PROVE  Placeable(phys, size) <=>
               /\ size < SizeMod
               /\ ToSize(phys) >= args.memory
               /\ ToSize(phys) + size <= args.memory + args.memory_size
               /\ args.memory + args.memory_size < SizeMod
  <1>1. phys \in Nat /\ size \in Nat
    BY LoaderAssumption DEF ElfWords
  <1>2. args.memory \in Words /\ args.memory_size \in Words
    BY DEF TypeOK
  <1>3. ToSize(phys) \in Words
    BY <1>1, CastWord
  <1>4. ToElf(SizeMod - 1) = SizeMod - 1
    BY LoaderAssumption, SMT DEF ToElf
  <1>5. size < SizeMod => ToSize(size) = size
    BY <1>1, CastSmall, LoaderAssumption DEF Words
  <1> QED
    BY <1>1, <1>2, <1>3, <1>4, <1>5, LoaderAssumption DEF Placeable, Add, Words

-----------------------------------------------------------------------------
(* Init gives the invariant: nothing has been read, placed or returned.     *)
LEMMA InitInv == Init => LoaderInv
  BY LoaderAssumption
     DEF Init, LoaderInv, TypeOK, ReadsInImage, SegmentsInMemory, ResultConsistent, Progress,
         Words, ElfWords, Statuses, LibraryErrors

(* A read that is not refused lies in the image. *)
LEMMA ReadKeepsInv ==
    ASSUME LoaderInv, NEW nb \in Words, NEW offset \in Words, loader_pread(nb, offset)
    PROVE  LoaderInv'
  <1>1. TypeOK'
    BY DEF LoaderInv, TypeOK, loader_pread, Statuses
  <1>2. ReadsInImage'
    <2>1. args.image_size \in Nat /\ nb \in Nat /\ offset \in Nat
      <3>1. args.image_size \in ImageSizes
        BY DEF LoaderInv, TypeOK
      <3>2. nb \in Nat /\ offset \in Nat
        BY LoaderAssumption DEF Words
      <3>3. args.image_size \in 0 .. SizeMod - 1
        BY <3>1, LoaderAssumption, Zenon
      <3> QED BY <3>2, <3>3, LoaderAssumption
    <2>2. CASE Readable(nb, offset)
      <3>1. copied' = [offset |-> offset, nb |-> nb] /\ args' = args
        BY <2>2 DEF loader_pread
      <3> QED BY <2>1, <2>2, <3>1 DEF ReadsInImage, Readable
    <2>3. CASE ~Readable(nb, offset)
      BY <2>3 DEF LoaderInv, ReadsInImage, loader_pread
    <2> QED BY <2>2, <2>3
  <1>3. SegmentsInMemory' /\ ResultConsistent' /\ Progress'
    BY DEF LoaderInv, SegmentsInMemory, ResultConsistent, Progress, loader_pread, EntryPoint
  <1> QED BY <1>1, <1>2, <1>3 DEF LoaderInv

(* A segment that is placed lies in the memory, by PlaceableInside. *)
LEMMA AllocKeepsInv ==
    ASSUME LoaderInv, NEW phys \in ElfWords, NEW size \in ElfWords, loader_alloc(phys, size)
    PROVE  LoaderInv'
  <1>1. phys \in Nat /\ size \in Nat /\ ToSize(phys) \in Words /\ ToSize(size) \in Words
    BY CastWord, LoaderAssumption DEF ElfWords
  <1>2. TypeOK'
    BY <1>1 DEF LoaderInv, TypeOK, loader_alloc, Statuses
  <1>3. SegmentsInMemory'
    <2>1. CASE Placeable(phys, size)
      <3>1. segment' = [start |-> ToSize(phys), size |-> ToSize(size)] /\ args' = args
        BY <2>1 DEF loader_alloc
      <3>2. /\ size < SizeMod
            /\ ToSize(phys) >= args.memory
            /\ ToSize(phys) + size <= args.memory + args.memory_size
            /\ args.memory + args.memory_size < SizeMod
        BY <2>1, PlaceableInside DEF LoaderInv
      <3>3. ToSize(size) = size
        BY <3>2, <1>1, CastSmall, LoaderAssumption DEF Words
      <3>4. args.memory \in Nat /\ args.memory # 0
        BY LoaderAssumption DEF LoaderInv, TypeOK, Progress, loader_alloc, Words
      <3> QED BY <3>1, <3>2, <3>3, <3>4, <1>1, LoaderAssumption DEF SegmentsInMemory, Words
    <2>2. CASE ~Placeable(phys, size)
      BY <2>2 DEF LoaderInv, SegmentsInMemory, loader_alloc
    <2> QED BY <2>1, <2>2
  <1>4. ReadsInImage' /\ ResultConsistent' /\ Progress'
    BY DEF LoaderInv, ReadsInImage, ResultConsistent, Progress, loader_alloc, EntryPoint
  <1> QED BY <1>2, <1>3, <1>4 DEF LoaderInv

(* Every other step keeps what was read and placed; a return is consistent  *)
(* because a refusal becomes the status.                                    *)
LEMMA ReturnsKeepInv ==
    ASSUME LoaderInv,
           \/ loader_load_elf
           \/ \E known \in BOOLEAN : el_applyrela(known)
           \/ \E status \in Statuses, memsz, entry \in Headers : InitReturns(status, memsz, entry)
           \/ \E status \in Statuses : LoadReturns(status) \/ RelocateReturns(status)
    PROVE  LoaderInv'
  <1>1. ReadsInImage' /\ SegmentsInMemory'
    BY DEF LoaderInv, ReadsInImage, SegmentsInMemory, loader_load_elf, el_applyrela, InitReturns,
           LoadReturns, RelocateReturns
  <1>2. CASE loader_load_elf
    BY <1>1, <1>2, LoaderAssumption
       DEF LoaderInv, TypeOK, ResultConsistent, Progress, loader_load_elf, Returns, Words, Statuses
  <1>3. CASE \E known \in BOOLEAN : el_applyrela(known)
    BY <1>1, <1>3
       DEF LoaderInv, TypeOK, ResultConsistent, Progress, el_applyrela, Statuses, EntryPoint
  <1>4. ASSUME NEW status \in Statuses, NEW memsz \in Headers, NEW entry \in Headers,
               InitReturns(status, memsz, entry)
        PROVE  LoaderInv'
    <2>1. memsz \in ElfWords /\ entry \in ElfWords
      BY LoaderAssumption DEF ElfWords
    <2>2. args.memory \in Nat /\ ToElf(args.memory) \in ElfWords /\ ToSize(memsz) \in Nat
      BY <2>1, CastWord, LoaderAssumption DEF LoaderInv, TypeOK, Words, ElfWords
    <2>3. args.memory_size \in Nat /\ 0 \in Words
      BY LoaderAssumption DEF LoaderInv, TypeOK, Words
    <2>4. TypeOK'
      BY <1>4, <2>1, <2>2, <2>3 DEF LoaderInv, TypeOK, InitReturns, Returns, Statuses
    <2>5. ResultConsistent'
      BY <1>4 DEF LoaderInv, ResultConsistent, Progress, InitReturns, Returns, EntryPoint
    <2>6. Progress'
      BY <1>4, <2>2, <2>3 DEF LoaderInv, Progress, InitReturns, Returns
    <2> QED BY <1>1, <2>4, <2>5, <2>6 DEF LoaderInv
  <1>5. ASSUME NEW status \in Statuses, LoadReturns(status)
        PROVE  LoaderInv'
    BY <1>1, <1>5, LoaderAssumption
       DEF LoaderInv, TypeOK, ResultConsistent, Progress, LoadReturns, Returns, Words, EntryPoint
  <1>6. ASSUME NEW status \in Statuses, RelocateReturns(status)
        PROVE  LoaderInv'
    <2>1. EntryPoint \in Words /\ 0 \in Words
      <3>1. elf.base_load_vaddr \in Nat /\ elf.e_entry \in Nat
        BY LoaderAssumption DEF LoaderInv, TypeOK, ElfWords
      <3>2. ToSize(elf.base_load_vaddr) \in Words /\ ToSize(elf.e_entry) \in Words
        BY <3>1, CastWord
      <3> QED BY <3>2, AddWord, LoaderAssumption DEF EntryPoint, Words
    <2>2. TypeOK'
      BY <1>6, <2>1 DEF LoaderInv, TypeOK, RelocateReturns, Returns
    <2>3. status = "EL_OK" => refusal = None
      BY <1>6, LoaderAssumption DEF RelocateReturns, Status, LoaderInv, TypeOK, Statuses,
          LibraryErrors
    <2>4. ResultConsistent' /\ Progress'
      BY <1>6, <2>3 DEF LoaderInv, ResultConsistent, Progress, RelocateReturns, Returns, EntryPoint
    <2> QED BY <1>1, <2>2, <2>4 DEF LoaderInv
  <1> QED BY <1>2, <1>3, <1>4, <1>5, <1>6

(* The invariant of a load, for every image, memory and word width.         *)
THEOREM LoaderInvariant == Spec => []LoaderInv
  <1>1. LoaderInv /\ [Next]_vars => LoaderInv'
    <2> SUFFICES ASSUME LoaderInv, [Next]_vars PROVE LoaderInv'
      OBVIOUS
    <2>1. CASE UNCHANGED vars
      BY <2>1 DEF vars, LoaderInv, TypeOK, ReadsInImage, SegmentsInMemory, ResultConsistent,
                  Progress, EntryPoint
    <2>2. CASE Next
      BY <2>2, ReadKeepsInv, AllocKeepsInv, ReturnsKeepInv DEF Next
    <2> QED BY <2>1, <2>2
  <1> QED BY <1>1, InitInv, PTL DEF Spec

(* loader_load_elf() and its callbacks keep their types. *)
THEOREM LoaderTyped == Spec => []TypeOK
  BY LoaderInvariant, PTL DEF LoaderInv

(* No read goes beyond the image, however offset and length wrap.           *)
THEOREM ReadsStay == Spec => []ReadsInImage
  BY LoaderInvariant, PTL DEF LoaderInv

(* No segment is placed outside the caller's memory.                        *)
THEOREM SegmentsStay == Spec => []SegmentsInMemory
  BY LoaderInvariant, PTL DEF LoaderInv

(* A load that reports EL_OK was never refused anything, and only it has an *)
(* entry point.                                                             *)
THEOREM ResultTold == Spec => []ResultConsistent
  BY LoaderInvariant, PTL DEF LoaderInv

(* loader_alloc() accepts every segment that fits, and no other.            *)
THEOREM FittingAccepted == Spec => []AcceptsWhatFits
  <1>1. TypeOK => AcceptsWhatFits
    BY PlaceableInside DEF AcceptsWhatFits
  <1> QED BY <1>1, LoaderTyped, PTL
=============================================================================
