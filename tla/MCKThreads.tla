----------------------------- MODULE MCKThreads -----------------------------
(* Up to three threads of two priorities on a clock of a few instants.      *)
EXTENDS KThreads
=============================================================================
