--------------------------- MODULE MCSessionView ---------------------------
(***************************************************************************)
(* Instance: three operations of any kind, two turns, three session files. *)
(***************************************************************************)
EXTENDS SessionView, TLC
CONSTANTS f1, f2, f3
NewFiles == Permutations({f2, f3})
=============================================================================
