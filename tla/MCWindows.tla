------------------------------ MODULE MCWindows ------------------------------
(***************************************************************************)
(* Instance: the main window and three session windows, of which two may    *)
(* be open at a time; two session files at first.                          *)
(***************************************************************************)
EXTENDS Windows, TLC
CONSTANTS main, c1, c2, c3, f1, f2, f3, f4
Alike == Permutations({c1, c2, c3}) \cup Permutations({f1, f2}) \cup Permutations({f3, f4})
==============================================================================
