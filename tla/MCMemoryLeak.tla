---------------------------- MODULE MCMemoryLeak ----------------------------
(***************************************************************************)
(* Small instances of MemoryLeak for TLC: a cap that holds two chunks and  *)
(* a rest.                                                                 *)
(***************************************************************************)
EXTENDS MemoryLeak

CONSTANTS x1, x2, x3
=============================================================================
