------------------------------- MODULE MCLoader -------------------------------
(* Words of three bits and an Elf_Addr of four; the image makes the library *)
(* ask for every offset, address and size.                                  *)
EXTENDS Loader
=============================================================================
