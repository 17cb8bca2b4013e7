---------------------------- MODULE MCChatSession ----------------------------
(***************************************************************************)
(* One session with three start-ups of pi, that runs turns: its reloads,    *)
(* its retry, and its closing.                                              *)
(***************************************************************************)
EXTENDS ChatSession
CONSTANTS s1, s2, home
=============================================================================
