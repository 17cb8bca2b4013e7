------------------------------- MODULE Subagents -------------------------------
(***************************************************************************)
(* studio/bridge/subagent/index.ts: one call of the subagent tool, which    *)
(* runs each of its tasks in a pi of its own.  A few workers share an index *)
(* into the list of tasks; each task has a deadline, and the caller may     *)
(* abort them all.                                                         *)
(*                                                                         *)
(* A task is over when its pi's pipes are closed, which is after the pi has *)
(* exited and every process that inherited the pipes has, too.  A pi may be *)
(* stubborn (it outlives SIGTERM) or leave such an heir behind.            *)
(***************************************************************************)
EXTENDS Naturals, FiniteSets

CONSTANTS
  Count,      \* tasks of the call; 1 is the single mode
  Limit,      \* MAX_CONCURRENCY
  MaxOutside  \* bound: subagents killed from outside

Tasks == 1..Count
Workers == 1..(IF Limit < Count THEN Limit ELSE Count)

ASSUME SubagentsAssumption == Count \in Nat \ {0} /\ Limit \in Nat \ {0} /\ MaxOutside \in Nat

VARIABLES
  \* what the processes are like
  onWindows, stubborn, heirs,
  \* the call
  nextIndex,
  worker,    \* per worker: the task it awaits, 0 before, Count + 1 when it is over
  aborted,   \* signal.aborted
  returned,
  \* per task
  proc,      \* "none", "unspawned" (error to come), "up", "exited" or "closed"
  code,      \* how it exited: "none", "ok", "bad" or "signal"
  watchdog, listener, \* its deadline and its abort listener are set
  second,    \* the second kill of killTree is due and may find its pi up
  killed,    \* proc.killed: SIGTERM was sent
  timedOut, wasAborted,
  result,    \* "none", or what the caller is told: "ok", "failed", "aborted" or "timeout"
  outside,   \* tasks whose pi was killed from outside
  \* history
  runs       \* per task: how often it was run

envVars == <<onWindows, stubborn, heirs>>
callVars == <<nextIndex, worker, aborted, returned>>
timerVars == <<watchdog, listener, second>>
killVars == <<killed, timedOut, wasAborted>>
tasksVars == <<envVars, callVars, proc, code, timerVars, killVars, result, outside, runs>>

TasksTypeOK ==
  /\ onWindows \in BOOLEAN /\ stubborn \subseteq Tasks /\ heirs \subseteq Tasks
  /\ nextIndex \in 1..(Count + Limit + 1)
  /\ worker \in [Workers -> 0..(Count + 1)]
  /\ aborted \in BOOLEAN /\ returned \in BOOLEAN
  /\ proc \in [Tasks -> {"none", "unspawned", "up", "exited", "closed"}]
  /\ code \in [Tasks -> {"none", "ok", "bad", "signal"}]
  /\ \A s \in {watchdog, listener, second, killed, timedOut, wasAborted, outside} : s \subseteq Tasks
  /\ result \in [Tasks -> {"none", "ok", "failed", "aborted", "timeout"}]
  /\ runs \in [Tasks -> Nat]

TasksInit ==
  /\ onWindows \in BOOLEAN /\ stubborn = {} /\ heirs = {}
  /\ nextIndex = 1 /\ worker = [w \in Workers |-> 0]
  /\ aborted \in BOOLEAN /\ returned = FALSE
  /\ proc = [t \in Tasks |-> "none"] /\ code = [t \in Tasks |-> "none"]
  /\ watchdog = {} /\ listener = {} /\ second = {}
  /\ killed = {} /\ timedOut = {} /\ wasAborted = {} /\ outside = {}
  /\ result = [t \in Tasks |-> "none"]
  /\ runs = [t \in Tasks |-> 0]

--------------------------------------------------------------------------------
\* killTree

\* SIGTERM reaches the pis of T that are up.  On Windows these die at once with everything
\* they started; what an exited one has left behind is not found.
KillTree(T) ==
  LET up == {t \in T : proc[t] = "up"} IN
  /\ second' = IF onWindows THEN second ELSE second \cup up
  /\ killed' = killed \cup up
  /\ IF onWindows
     THEN /\ proc' = [t \in Tasks |-> IF t \in up THEN "exited" ELSE proc[t]]
          /\ code' = [t \in Tasks |-> IF t \in up THEN "bad" ELSE code[t]]
          /\ heirs' = heirs \ up
     ELSE UNCHANGED <<proc, code, heirs>>

\* Five seconds later: SIGKILL, unless proc.killed, which the first signal has set.
SecondKill(t) ==
  /\ t \in second
  /\ second' = second \ {t}
  /\ IF t \notin killed /\ proc[t] = "up"
     THEN proc' = [proc EXCEPT ![t] = "exited"] /\ code' = [code EXCEPT ![t] = "signal"]
     ELSE UNCHANGED <<proc, code>>
  /\ UNCHANGED <<envVars, callVars, watchdog, listener, killVars, result, outside, runs>>

--------------------------------------------------------------------------------
\* runSingleAgent

\* What the caller is told of a task whose pi ended with c.  A signal leaves no code, which
\* counts as 0.
Told(t, c) == CASE t \in wasAborted -> "aborted"
                [] t \notin wasAborted /\ t \in timedOut -> "timeout"
                [] OTHER -> IF c = "bad" THEN "failed" ELSE "ok"

\* cleanup; what its process was like does not matter any more.
CleanupTask(t) ==
  /\ watchdog' = watchdog \ {t} /\ listener' = listener \ {t}
  /\ killed' = killed \ {t} /\ stubborn' = stubborn \ {t}

\* The close event.
Closes(t) ==
  /\ proc[t] = "exited" /\ t \notin heirs
  /\ proc' = [proc EXCEPT ![t] = "closed"]
  /\ CleanupTask(t)
  /\ result' = [result EXCEPT ![t] = Told(t, code[t])]
  /\ UNCHANGED <<onWindows, heirs, callVars, code, second, timedOut, wasAborted, outside, runs>>

\* The error event: pi could not be spawned.
SpawnError(t) ==
  /\ proc[t] = "unspawned"
  /\ proc' = [proc EXCEPT ![t] = "closed"]
  /\ CleanupTask(t)
  /\ result' = [result EXCEPT ![t] = Told(t, "bad")]
  /\ UNCHANGED <<onWindows, heirs, callVars, code, second, timedOut, wasAborted, outside, runs>>

\* Mutant: the deadline is noted, nobody is killed.
WatchdogNotes(t) ==
  /\ t \in watchdog
  /\ watchdog' = watchdog \ {t}
  /\ timedOut' = timedOut \cup {t}
  /\ UNCHANGED <<envVars, callVars, proc, code, listener, second, killed, wasAborted, result, outside, runs>>

\* The watchdog.
WatchdogFires(t) ==
  /\ t \in watchdog
  /\ watchdog' = watchdog \ {t}
  /\ timedOut' = timedOut \cup {t}
  /\ KillTree({t})
  /\ UNCHANGED <<onWindows, stubborn, callVars, listener, wasAborted, result, outside, runs>>

\* A task is started: the agent is unknown or spawn throws; spawn fails, to be told later;
\* or pi is up.  It is killed at once when the call was already aborted.
RunSingleAgent(t) ==
  /\ runs' = [runs EXCEPT ![t] = @ + 1]
  /\ \/ /\ result' = [result EXCEPT ![t] = "failed"]
        /\ proc' = [proc EXCEPT ![t] = "closed"]
        /\ UNCHANGED <<heirs, stubborn, code, timerVars, killed, wasAborted>>
     \/ \E fails, heir, stays \in BOOLEAN :
          LET dead == fails \/ (aborted /\ onWindows) IN
          /\ watchdog' = watchdog \cup {t}
          /\ proc' = [proc EXCEPT ![t] = IF fails THEN "unspawned" ELSE IF dead THEN "exited" ELSE "up"]
          /\ code' = [code EXCEPT ![t] = IF dead /\ ~fails THEN "bad" ELSE @]
          /\ dead => ~heir /\ ~stays
          /\ stays => ~onWindows
          /\ heirs' = IF heir THEN heirs \cup {t} ELSE heirs
          /\ stubborn' = IF stays THEN stubborn \cup {t} ELSE stubborn
          /\ IF aborted
             THEN /\ wasAborted' = wasAborted \cup {t}
                  /\ second' = IF dead THEN second ELSE second \cup {t}
                  /\ killed' = IF fails THEN killed ELSE killed \cup {t}
                  /\ UNCHANGED listener
             ELSE listener' = listener \cup {t} /\ UNCHANGED <<wasAborted, second, killed>>
          /\ UNCHANGED result

--------------------------------------------------------------------------------
\* execute, mapWithConcurrencyLimit

Over(w) == worker[w] > Count
AtWork(w) == worker[w] \in Tasks /\ result[worker[w]] = "none"

\* Mutant: the index is advanced after the task.
PullLate(w) ==
  /\ ~returned /\ ~Over(w) /\ ~AtWork(w)
  /\ nextIndex' = IF worker[w] = 0 THEN nextIndex ELSE nextIndex + 1
  /\ IF nextIndex' <= Count
     THEN worker' = [worker EXCEPT ![w] = nextIndex'] /\ RunSingleAgent(nextIndex')
     ELSE /\ worker' = [worker EXCEPT ![w] = Count + 1]
          /\ UNCHANGED <<runs, result, proc, heirs, stubborn, code, timerVars, killed, wasAborted>>
  /\ UNCHANGED <<onWindows, aborted, returned, timedOut, outside>>

\* A worker takes the next index, at the start or when its task is over.
Pull(w) ==
  /\ ~returned /\ ~Over(w) /\ ~AtWork(w)
  /\ nextIndex' = nextIndex + 1
  /\ IF nextIndex <= Count
     THEN worker' = [worker EXCEPT ![w] = nextIndex] /\ RunSingleAgent(nextIndex)
     ELSE /\ worker' = [worker EXCEPT ![w] = Count + 1]
          /\ UNCHANGED <<runs, result, proc, heirs, stubborn, code, timerVars, killed, wasAborted>>
  /\ UNCHANGED <<onWindows, aborted, returned, timedOut, outside>>

Returns ==
  /\ ~returned /\ \A w \in Workers : Over(w)
  /\ returned' = TRUE
  /\ UNCHANGED <<envVars, nextIndex, worker, aborted, proc, code, timerVars, killVars, result, outside, runs>>

\* Mutant: only the first listener is called.
AbortOne ==
  /\ ~aborted /\ ~returned
  /\ aborted' = TRUE
  /\ LET T == {t \in listener : \A u \in listener : t <= u} IN
     wasAborted' = wasAborted \cup T /\ listener' = listener \ T /\ KillTree(T)
  /\ UNCHANGED <<onWindows, stubborn, nextIndex, worker, returned, watchdog, timedOut, result, outside, runs>>

\* The user stops the turn.
Abort ==
  /\ ~aborted /\ ~returned
  /\ aborted' = TRUE
  /\ wasAborted' = wasAborted \cup listener /\ listener' = {} /\ KillTree(listener)
  /\ UNCHANGED <<onWindows, stubborn, nextIndex, worker, returned, watchdog, timedOut, result, outside, runs>>

--------------------------------------------------------------------------------
\* The processes, external

Exits(t, c) ==
  /\ proc[t] = "up"
  /\ proc' = [proc EXCEPT ![t] = "exited"]
  /\ code' = [code EXCEPT ![t] = c]
  /\ second' = second \ {t}
  /\ UNCHANGED <<envVars, callVars, watchdog, listener, killVars, result, runs>>

PiExits(t) == (Exits(t, "ok") \/ Exits(t, "bad")) /\ UNCHANGED outside
DiesOfTerm(t) == t \in killed \ stubborn /\ Exits(t, "signal") /\ UNCHANGED outside
KilledOutside(t) ==
  Cardinality(outside) < MaxOutside /\ Exits(t, "signal") /\ outside' = outside \cup {t}

HeirExits(t) ==
  /\ t \in heirs /\ proc[t] # "up"
  /\ heirs' = heirs \ {t}
  /\ UNCHANGED <<onWindows, stubborn, callVars, proc, code, timerVars, killVars, result, outside, runs>>

\* The call is over, and so are its pis.
AllDone == returned /\ second = {} /\ UNCHANGED tasksVars

TaskSteps(t) == SecondKill(t) \/ Closes(t) \/ SpawnError(t) \/ WatchdogFires(t) \/ DiesOfTerm(t)

TasksNext ==
  \/ \E w \in Workers : Pull(w)
  \/ Returns \/ Abort \/ AllDone
  \/ \E t \in Tasks : TaskSteps(t) \/ PiExits(t) \/ KilledOutside(t) \/ HeirExits(t)

\* Timers fire, events are delivered, promises go on, and SIGTERM works on whoever heeds it.
\* Nothing makes a pi or its heir exit by itself.
TasksFairness ==
  /\ \A w \in Workers : WF_tasksVars(Pull(w))
  /\ WF_tasksVars(Returns)
  /\ \A t \in Tasks : WF_tasksVars(SecondKill(t)) /\ WF_tasksVars(Closes(t)) /\ WF_tasksVars(SpawnError(t))
                      /\ WF_tasksVars(WatchdogFires(t)) /\ WF_tasksVars(DiesOfTerm(t))

TasksSpec == TasksInit /\ [][TasksNext]_tasksVars /\ TasksFairness

--------------------------------------------------------------------------------
\* Properties

Running == {t \in Tasks : runs[t] > 0 /\ result[t] = "none"}
Ended == {t \in Tasks : result[t] # "none"}

\* The workers and their shared index implement the pool: tasks start in order, each once,
\* at most Limit at a time, and the call returns when the last is over.
Pool == INSTANCE TaskPool WITH done <- Ended
ImplementsPool == Pool!PoolSpec

\* Once a task is over nothing of it is left that could fire: neither its deadline nor its
\* abort listener; while it is not, it has its deadline or has used it.
TimersFollowTasks ==
  /\ watchdog \cup listener \subseteq Running
  /\ Running \subseteq watchdog \cup timedOut

\* An abort reaches everybody: afterwards every pi that is up was signalled, those started
\* later included, and the tasks that were not over are reported as aborted or never ran.
AbortReachesAll ==
  aborted => \A t \in Tasks :
    /\ proc[t] = "up" => t \in killed
    /\ t \in Running => t \in wasAborted

\* What the caller is told is what happened: success means pi exited by itself without an
\* error and in time (or was killed from outside, which counts as success), a reported
\* timeout or abort took place.
ResultIsHonest ==
  \A t \in Ended :
    /\ result[t] = "ok" => (code[t] = "ok" \/ t \in outside) /\ t \notin timedOut \cup wasAborted
    /\ result[t] = "aborted" => aborted
    /\ result[t] = "timeout" => t \in timedOut
    /\ t \notin heirs

\* On return no pi of the call is up, and no heir of one holds the pipes.
NothingLeftBehind == returned => heirs = {} /\ \A t \in Tasks : proc[t] = "closed"

\* Every call returns, by the deadline of its last task at the latest, when no pi outlives
\* SIGTERM (on Windows none does) or leaves an heir.
ObedientCallsReturn ==
  [](heirs = {} /\ stubborn = {}) => <>returned

\* While a call runs and when it returns: timers and listeners are those of running tasks, an
\* abort spares nobody, results are honest, and nothing is left.
CallsEndClean ==
  TasksTypeOK /\ TimersFollowTasks /\ AbortReachesAll /\ ResultIsHonest /\ NothingLeftBehind
================================================================================
