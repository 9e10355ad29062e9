----------------------------- MODULE MCKMalloc -----------------------------
(* Arenas of blocks of eight bytes, with headers of one and alignment two.  *)
EXTENDS KMalloc, TLC

(* Threads are interchangeable: no action or property names one. *)
Symmetry == Permutations(Threads)
=============================================================================
