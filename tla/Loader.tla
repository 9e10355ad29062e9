------------------------------- MODULE Loader -------------------------------
(***************************************************************************)
(* The ELF loader: kernel/components/dload/loader.c.  It drives a library   *)
(* (el_init, el_load, el_relocate; a submodule) that calls it back to read  *)
(* the image and to place segments in the caller's program memory, and      *)
(* calls el_applyrela of elfreloc_riscv.c for each relocation.  The library *)
(* is taken to ask for anything in any order, and to return the error of a  *)
(* callback that fails.  Addresses and sizes wrap as their types do.        *)
(***************************************************************************)
EXTENDS Integers

CONSTANTS SizeMod,      \* 2^w of size_t and uintptr_t
          ElfMod,       \* 2^w of Elf_Addr
          ImageSizes,   \* the elf_image_size arguments
          Headers,      \* the values of memsz and e_entry in the images
          None          \* no callback has failed; nothing accepted yet

ASSUME LoaderAssumption ==
    /\ SizeMod \in Nat \ {0, 1}
    /\ ElfMod \in Nat /\ ElfMod >= SizeMod     \* an ELF address holds a pointer
    /\ ImageSizes \subseteq 0 .. SizeMod - 1
    /\ Headers \subseteq 0 .. ElfMod - 1
    /\ None \notin {"EL_OK", "EL_EIO", "EL_ENOMEM", "EL_BADREL", "EL_NOTELF"}

VARIABLES
    args,      \* the arguments: whether there is an image, its size, the memory
    stage,     \* the library call it is in
    elf,       \* el_ctx: memsz and e_entry of the image, the base addresses
    refusal,   \* the status of the callback that failed
    copied,    \* the range of the image the last successful read copied
    segment,   \* the memory of the last segment placed
    result     \* loader_result_t

vars == <<args, stage, elf, refusal, copied, segment, result>>

Words == 0 .. SizeMod - 1
ElfWords == 0 .. ElfMod - 1
LibraryErrors == {"EL_NOTELF"}      \* and the other formats el_init() rejects

(* Mutant: sums are kept in a wider type. *)
MutAddWide(a, b) == a + b

(* Sums of two words, and a word cast to the other type. *)
Add(a, b) == IF a + b < SizeMod THEN a + b ELSE a + b - SizeMod
ToSize(a) == a % SizeMod
ToElf(a) == a % ElfMod

Init ==
    /\ args \in [image : BOOLEAN, image_size : ImageSizes, memory : Words, memory_size : Words]
    /\ stage = "call"
    /\ elf = [memsz |-> 0, e_entry |-> 0, base_load_vaddr |-> 0]
    /\ refusal = None
    /\ copied = None
    /\ segment = None
    /\ result = [status |-> "EL_EIO", entry_point |-> 0]

Returns(status, entry) ==
    /\ stage' = "returned"
    /\ result' = [status |-> status, entry_point |-> entry]

-----------------------------------------------------------------------------
(* The arguments are checked, and el_init() is called. *)
loader_load_elf ==
    /\ stage = "call"
    /\ IF ~args.image \/ args.memory = 0 \/ args.image_size = 0 \/ args.memory_size = 0
       THEN Returns("EL_EIO", 0)
       ELSE stage' = "el_init" /\ UNCHANGED result
    /\ UNCHANGED <<args, elf, refusal, copied, segment>>

(* Mutant: the end of the range is compared, after it may have wrapped. *)
MutReadable(nb, offset) == Add(offset, nb) <= args.image_size

(* The checks of loader_pread(). *)
Readable(nb, offset) == offset <= args.image_size /\ nb <= args.image_size - offset

(* The library reads the image, in any of its calls. *)
loader_pread(nb, offset) ==
    /\ stage \in {"el_init", "el_load", "el_relocate"} /\ refusal = None
    /\ IF Readable(nb, offset)
       THEN copied' = [offset |-> offset, nb |-> nb] /\ UNCHANGED refusal
       ELSE refusal' = "EL_EIO" /\ UNCHANGED copied
    /\ UNCHANGED <<args, stage, elf, segment, result>>

(* Mutant: a segment that wraps round the address space is not noticed. *)
MutPlaceable(phys, size) ==
    LET start == ToSize(phys)
    IN /\ size <= ToElf(SizeMod - 1)
       /\ start >= args.memory
       /\ Add(start, ToSize(size)) <= Add(args.memory, args.memory_size)

(* Mutant: a segment must end before the last byte of the memory. *)
MutPlaceableShort(phys, size) ==
    LET start == ToSize(phys)
        end == Add(start, ToSize(size))
        limit == Add(args.memory, args.memory_size)
    IN /\ size <= ToElf(SizeMod - 1)
       /\ start >= args.memory /\ end >= start /\ limit >= args.memory
       /\ end < limit

(* The checks of loader_alloc(). *)
Placeable(phys, size) ==
    LET start == ToSize(phys)
        end == Add(start, ToSize(size))
        limit == Add(args.memory, args.memory_size)
    IN /\ size <= ToElf(SizeMod - 1)
       /\ start >= args.memory /\ end >= start /\ limit >= args.memory
       /\ end <= limit

(* el_load() asks for the memory of a segment. *)
loader_alloc(phys, size) ==
    /\ stage = "el_load" /\ refusal = None
    /\ IF Placeable(phys, size)
       THEN segment' = [start |-> ToSize(phys), size |-> ToSize(size)] /\ UNCHANGED refusal
       ELSE refusal' = "EL_ENOMEM" /\ UNCHANGED segment
    /\ UNCHANGED <<args, stage, elf, copied, result>>

(* el_relocate() applies a relocation, which writes a word of the program   *)
(* unless its type is unknown.                                              *)
el_applyrela(known) ==
    /\ stage = "el_relocate" /\ refusal = None
    /\ refusal' = IF known THEN None ELSE "EL_BADREL"
    /\ UNCHANGED <<args, stage, elf, copied, segment, result>>

-----------------------------------------------------------------------------
(* What a library call returns: the error of a callback, or its own. *)
Status(errors) == IF refusal # None THEN {refusal} ELSE {"EL_OK"} \cup errors

(* el_init() returns; an image too large for the memory ends the load. *)
InitReturns(status, memsz, entry) ==
    /\ stage = "el_init"
    /\ status \in Status(LibraryErrors)
    /\ IF status # "EL_OK"
       THEN Returns(status, 0) /\ UNCHANGED elf
       ELSE IF ToSize(memsz) > args.memory_size
            THEN Returns("EL_ENOMEM", 0) /\ UNCHANGED elf
            ELSE /\ elf' = [memsz |-> memsz, e_entry |-> entry,
                            base_load_vaddr |-> ToElf(args.memory)]
                 /\ stage' = "el_load" /\ UNCHANGED result
    /\ UNCHANGED <<args, refusal, copied, segment>>

LoadReturns(status) ==
    /\ stage = "el_load"
    /\ status \in Status({})
    /\ IF status # "EL_OK" THEN Returns(status, 0)
                           ELSE stage' = "el_relocate" /\ UNCHANGED result
    /\ UNCHANGED <<args, elf, refusal, copied, segment>>

EntryPoint == Add(ToSize(elf.base_load_vaddr), ToSize(elf.e_entry))

(* Mutant: the entry point is set before the status is looked at. *)
MutRelocateReturns(status) ==
    /\ stage = "el_relocate"
    /\ status \in Status({})
    /\ Returns(status, EntryPoint)
    /\ UNCHANGED <<args, elf, refusal, copied, segment>>

RelocateReturns(status) ==
    /\ stage = "el_relocate"
    /\ status \in Status({})
    /\ Returns(status, IF status = "EL_OK" THEN EntryPoint ELSE 0)
    /\ UNCHANGED <<args, elf, refusal, copied, segment>>

Statuses == {"EL_OK", "EL_EIO", "EL_ENOMEM", "EL_BADREL"} \cup LibraryErrors

Next ==
    \/ loader_load_elf
    \/ \E nb, offset \in Words : loader_pread(nb, offset)
    \/ \E phys, size \in ElfWords : loader_alloc(phys, size)
    \/ \E known \in BOOLEAN : el_applyrela(known)
    \/ \E status \in Statuses, memsz, entry \in Headers : InitReturns(status, memsz, entry)
    \/ \E status \in Statuses : LoadReturns(status) \/ RelocateReturns(status)

Spec == Init /\ [][Next]_vars

-----------------------------------------------------------------------------
TypeOK ==
    /\ args \in [image : BOOLEAN, image_size : ImageSizes, memory : Words, memory_size : Words]
    /\ stage \in {"call", "el_init", "el_load", "el_relocate", "returned"}
    /\ elf \in [memsz : ElfWords, e_entry : ElfWords, base_load_vaddr : ElfWords]
    /\ refusal \in {None} \cup (Statuses \ {"EL_OK"})
    /\ copied \in {None} \cup [offset : Words, nb : Words]
    /\ segment \in {None} \cup [start : Words, size : Words]
    /\ result \in [status : Statuses, entry_point : Words]

(* A read copies bytes of the image only, whatever offset and length the    *)
(* image makes the library ask for (loader.c 22 and 27).                    *)
ReadsInImage == copied # None => copied.offset + copied.nb <= args.image_size

(* A segment is placed in the caller's memory only, whole, without wrapping *)
(* round the address space (loader.c 48-72); a program is never loaded at   *)
(* the address that means failure.                                          *)
SegmentsInMemory ==
    segment # None =>
        /\ segment.start >= args.memory /\ segment.start # 0
        /\ segment.start + segment.size <= args.memory + args.memory_size
        /\ args.memory + args.memory_size < SizeMod

(* A load that says EL_OK had every read and segment it asked for and an    *)
(* image that fits; any other has no entry point (loader.c 80 and 131).     *)
ResultConsistent ==
    stage = "returned" =>
        IF result.status = "EL_OK"
        THEN /\ refusal = None /\ ToSize(elf.memsz) <= args.memory_size
             /\ args.image /\ args.memory # 0
             /\ result.entry_point = EntryPoint
        ELSE result.entry_point = 0

(* loader_alloc() accepts exactly the segments that lie in the memory, up   *)
(* to its last byte and not one further, and none that wraps, as long as    *)
(* the memory itself ends below the end of the address space.               *)
AcceptsWhatFits ==
    stage = "el_load" /\ refusal = None /\ args.memory + args.memory_size < SizeMod =>
        \A phys, size \in ElfWords :
            Placeable(phys, size) <=>
                /\ size < SizeMod
                /\ ToSize(phys) >= args.memory
                /\ ToSize(phys) + size <= args.memory + args.memory_size
=============================================================================
