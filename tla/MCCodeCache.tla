---------------------------- MODULE MCCodeCache ----------------------------
(* Small instances of CodeCache for TLC.                                   *)
EXTENDS CodeCache, TLC

Permutable == Permutations(Threads)
=============================================================================
