------------------------------ MODULE MCTerminals ------------------------------
(***************************************************************************)
(* Instance: three start-ups of one profile, two pi terminals and a shell,  *)
(* and a restart of the terminal.                                           *)
(***************************************************************************)
EXTENDS Terminals
CONSTANTS a1, a2, a3, w1, w2, s1, home
MCKeyOf == [c \in Calls |-> home]
=============================================================================
