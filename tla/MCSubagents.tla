------------------------------ MODULE MCSubagents ------------------------------
(***************************************************************************)
(* Instance: three tasks, two at a time.                                    *)
(***************************************************************************)
EXTENDS Subagents
================================================================================
