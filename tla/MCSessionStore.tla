---------------------------- MODULE MCSessionStore ----------------------------
(* Two windows, one of which drives the session there is, or one there comes to be; a second name
   that an import may take; two lists, one after the other. *)
EXTENDS SessionStore, TLC
CONSTANTS a, b, w1, w2, l1
Alike == Permutations({w1, w2})
================================================================================
