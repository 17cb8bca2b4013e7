------------------------------- MODULE MCRewind -------------------------------
(***************************************************************************)
(* Instance: two files of two states, two tool calls at a time.             *)
(***************************************************************************)
EXTENDS Rewind, TLC
CONSTANTS x, y, z, f1, f2, c1, c2
Alike == Permutations(Contents) \cup Permutations(Files) \cup Permutations(Calls)
================================================================================
