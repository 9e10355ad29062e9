----------------------------- MODULE MCSchedule -----------------------------
(***************************************************************************)
(* The loop of schedule() on every table of up to three threads with two   *)
(* priorities and every nextrun from 0 to thread_maxtime, while the clock  *)
(* moves through three instants at any point of the scan.  Three threads   *)
(* are the least for which a later thread replaces an earlier candidate    *)
(* while a third one is the caller.                                        *)
(***************************************************************************)
EXTENDS Schedule
=============================================================================
