--------------------------- MODULE MCContextSwitch ---------------------------
(* Two or three threads on one core; the constants are in the .cfg.         *)
EXTENDS ContextSwitch
=============================================================================
