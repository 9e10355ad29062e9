---------------------------- MODULE MCApplication ----------------------------
(* The delays of main.cpp, 10 ms and 1000 ms, in units of 5 ms.             *)
EXTENDS Application
=============================================================================
