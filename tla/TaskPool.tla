------------------------------- MODULE TaskPool -------------------------------
(***************************************************************************)
(* What a call of the subagent tool promises: its tasks are started in      *)
(* order, each once and at most Limit at a time; it returns when the last   *)
(* one is over.                                                            *)
(***************************************************************************)
EXTENDS Naturals, FiniteSets

CONSTANTS Count, Limit
VARIABLES
  runs,    \* per task: how often it was started
  done, returned
pool == <<runs, done, returned>>

Tasks == 1..Count
Waiting == {t \in Tasks : runs[t] = 0}
AtWork == {t \in Tasks : runs[t] > 0} \ done
First == CHOOSE t \in Waiting : \A u \in Waiting : t <= u

PoolInit == runs = [t \in Tasks |-> 0] /\ done = {} /\ returned = FALSE

\* The next task is started; one that cannot be is over at once.
Start ==
  /\ Waiting # {} /\ Cardinality(AtWork) < Limit
  /\ runs' = [runs EXCEPT ![First] = 1]
  /\ done' \in {done, done \cup {First}}
  /\ UNCHANGED returned

Finish(t) == t \in AtWork /\ done' = done \cup {t} /\ UNCHANGED <<runs, returned>>

Return == done = Tasks /\ returned' = TRUE /\ UNCHANGED <<runs, done>>

PoolNext == Start \/ Return \/ \E t \in Tasks : Finish(t)
PoolSpec == PoolInit /\ [][PoolNext]_pool
================================================================================
