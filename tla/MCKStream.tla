----------------------------- MODULE MCKStream -----------------------------
(* Two or three threads open streams to each other and read their own.      *)
EXTENDS KStream, TLC

(* Threads and blocks are interchangeable: no action or property names one. *)
Symmetry == Permutations(Threads) \cup Permutations(Blocks)
=============================================================================
