----------------------------- MODULE MCKMemory -----------------------------
(* A heap of a few blocks, two of which hold the metadata, shared by two    *)
(* threads and the streams of the kernel.                                   *)
EXTENDS KMemory
=============================================================================
