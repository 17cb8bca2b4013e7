------------------------------- MODULE Pi_proofs -------------------------------
(***************************************************************************)
(* Proofs about pi and who speaks with it.                                  *)
(*                                                                         *)
(* Two of its extensions, Subagents for any number of tasks and workers,    *)
(* McpSession for any servers, calls, sessions and clients: finitely many   *)
(* of each, as the code has, since it counts calls.  A call of subagents    *)
(* ends clean, and its workers implement TaskPool.  The worker that takes   *)
(* the next index is not at work itself, so those at work are fewer than    *)
(* the workers; that is why the pool's limit holds.  The sweep of           *)
(* connections goes by a count, so the invariant says what is counted: the  *)
(* calls that run on the connection (Counts).  That no client is forgotten  *)
(* needs that a connection with a client begins no other (OneClient), and   *)
(* that only sessions which were made have questions, blocked servers or    *)
(* clients, with those of a replaced one being closed unless they connected *)
(* late (Known, LeftOnlyByLateConnect).                                     *)
(*                                                                         *)
(* And what a session believes of its pi, SessionView, for any files,       *)
(* operations, turns and lines under way.  Three things are invariant: the  *)
(* answers pi gave and the requests it has yet to answer stand in one line, *)
(* in the order in which they were asked (OrderInv); what the session would *)
(* take for a running turn once the whole pipe is read (TurnInv); and that  *)
(* whatever is old, in the pipe or with an operation, stands before the     *)
(* answer to pi's last move, whose operation reads state and messages after *)
(* it (Trace).                                                              *)
(***************************************************************************)
EXTENDS Subagents, McpSession, SessionView, FiniteSetTheorems, SequenceTheorems,
        WellFoundedInduction, TLAPS

--------------------------------------------------------------------------------
\* Subagents

\* The index has passed exactly the tasks that were started, each once.
StartedInOrder ==
  /\ \A t \in Tasks : runs[t] = IF t < nextIndex THEN 1 ELSE 0
  /\ nextIndex \in Nat \ {0}

\* A task that was not started has nothing, one that runs has a process, one that is over has none.
ProcessesFollow ==
  \A t \in Tasks :
    /\ runs[t] = 0 <=> proc[t] = "none"
    /\ result[t] # "none" <=> proc[t] = "closed"
    /\ proc[t] \in {"none", "unspawned", "up"} => code[t] = "none"
    /\ proc[t] = "exited" => code[t] # "none"

\* What belongs to tasks that run.
OfRunning ==
  /\ watchdog \cup listener \cup heirs \subseteq Running
  /\ Running \subseteq watchdog \cup timedOut
  /\ \A t \in heirs : proc[t] # "unspawned"

\* What signals are sent for, and what they leave.
SignalsHaveReasons ==
  /\ killed \subseteq timedOut \cup wasAborted
  /\ \A t \in Tasks : code[t] = "signal" => t \in timedOut \cup wasAborted \cup outside
  /\ \A t \in second : runs[t] > 0 /\ (proc[t] = "up" => t \in killed)
  /\ wasAborted # {} => aborted

\* Before an abort all that runs listens for it; afterwards all was told.
AbortIsHeard ==
  /\ ~aborted => Running \subseteq listener
  /\ aborted => \A t \in Tasks :
       /\ proc[t] = "up" => t \in killed
       /\ t \in Running => t \in wasAborted

\* Each worker awaits a task that was started, and each task that runs has a worker.
WorkersAtWork ==
  /\ \A w \in Workers : worker[w] \in Tasks => worker[w] < nextIndex
  /\ \A w \in Workers : Over(w) => nextIndex > Count
  /\ \A t \in Running : \E w \in Workers : worker[w] = t
  /\ nextIndex <= Count + 1 + Cardinality({w \in Workers : Over(w)})
  /\ returned => \A w \in Workers : Over(w)

\* The types of all but the index, whose bound follows from the workers.
Types ==
  /\ onWindows \in BOOLEAN /\ stubborn \subseteq Tasks
  /\ worker \in [Workers -> 0..(Count + 1)]
  /\ aborted \in BOOLEAN /\ returned \in BOOLEAN
  /\ proc \in [Tasks -> {"none", "unspawned", "up", "exited", "closed"}]
  /\ code \in [Tasks -> {"none", "ok", "bad", "signal"}]
  /\ second \subseteq Tasks /\ killed \subseteq Tasks /\ timedOut \subseteq Tasks
  /\ wasAborted \subseteq Tasks /\ outside \subseteq Tasks
  /\ result \in [Tasks -> {"none", "ok", "failed", "aborted", "timeout"}]
  /\ runs \in [Tasks -> Nat]

Honest == \A t \in Ended :
    /\ result[t] = "ok" => (code[t] = "ok" \/ t \in outside) /\ t \notin timedOut \cup wasAborted
    /\ result[t] = "aborted" => aborted
    /\ result[t] = "timeout" => t \in timedOut

TaskInv == Types /\ ProcessesFollow /\ OfRunning /\ SignalsHaveReasons /\ AbortIsHeard /\ Honest
TasksInv == TaskInv /\ StartedInOrder /\ WorkersAtWork

LEMMA InitTasks == TasksInit => TaskInv
<1> SUFFICES ASSUME TasksInit PROVE TaskInv
  OBVIOUS
<1>1. Types
  <2>1. worker \in [Workers -> 0..(Count + 1)] /\ runs \in [Tasks -> Nat]
    BY SubagentsAssumption DEF TasksInit
  <2>2. QED BY <2>1 DEF TasksInit, Types
<1>2. Running = {} /\ Ended = {}
  BY DEF TasksInit, Running, Ended
<1>3. ProcessesFollow
  BY DEF TasksInit, ProcessesFollow
<1>4. OfRunning /\ SignalsHaveReasons
  BY <1>2 DEF TasksInit, OfRunning, SignalsHaveReasons
<1>5. AbortIsHeard /\ Honest
  BY <1>2 DEF TasksInit, AbortIsHeard, Honest
<1>6. QED BY <1>1, <1>3, <1>4, <1>5 DEF TaskInv

--------------------------------------------------------------------------------
\* What killTree does to each task.
LEMMA KillSends ==
  ASSUME Types, NEW T \in SUBSET Tasks, KillTree(T)
  PROVE  /\ \A t \in Tasks : IF t \in T /\ proc[t] = "up" /\ onWindows
              THEN proc'[t] = "exited" /\ code'[t] = "bad" /\ t \notin heirs'
              ELSE proc'[t] = proc[t] /\ code'[t] = code[t] /\ (t \in heirs' <=> t \in heirs)
         /\ \A t \in Tasks : t \in killed' <=> t \in killed \/ (t \in T /\ proc[t] = "up")
         /\ \A t \in Tasks : t \in second' => t \in second \/ (t \in T /\ proc[t] = "up")
         /\ killed' \subseteq Tasks /\ second' \subseteq Tasks /\ heirs' \subseteq heirs
         /\ proc' \in [Tasks -> {"none", "unspawned", "up", "exited", "closed"}]
         /\ code' \in [Tasks -> {"none", "ok", "bad", "signal"}]
BY DEF KillTree, Types

\* A step that sends signals to the tasks of T, for a reason, keeps what holds of the tasks.
LEMMA SignalKeeps ==
  ASSUME TaskInv, NEW T \in SUBSET Tasks, KillTree(T),
         UNCHANGED <<onWindows, stubborn, worker, returned, result, outside, runs>>,
         \/ \E t \in watchdog : T = {t} /\ watchdog' = watchdog \ {t} /\ timedOut' = timedOut \cup {t}
                              /\ UNCHANGED <<aborted, listener, wasAborted>>
         \/ /\ ~aborted /\ aborted' = TRUE /\ T = listener /\ listener' = {}
            /\ wasAborted' = wasAborted \cup listener /\ UNCHANGED <<watchdog, timedOut>>
  PROVE  TaskInv'
<1>1. Types
  BY DEF TaskInv
<1>k. /\ \A t \in Tasks : IF t \in T /\ proc[t] = "up" /\ onWindows
           THEN proc'[t] = "exited" /\ code'[t] = "bad" /\ t \notin heirs'
           ELSE proc'[t] = proc[t] /\ code'[t] = code[t] /\ (t \in heirs' <=> t \in heirs)
      /\ \A t \in Tasks : t \in killed' <=> t \in killed \/ (t \in T /\ proc[t] = "up")
      /\ \A t \in Tasks : t \in second' => t \in second \/ (t \in T /\ proc[t] = "up")
      /\ killed' \subseteq Tasks /\ second' \subseteq Tasks /\ heirs' \subseteq heirs
      /\ proc' \in [Tasks -> {"none", "unspawned", "up", "exited", "closed"}]
      /\ code' \in [Tasks -> {"none", "ok", "bad", "signal"}]
  BY <1>1, KillSends
<1>s. /\ T \subseteq Running
      /\ watchdog' \subseteq watchdog /\ listener' \subseteq listener
      /\ watchdog \cup timedOut = watchdog' \cup timedOut' \/ watchdog \cup timedOut \subseteq watchdog' \cup timedOut'
      /\ timedOut \subseteq timedOut' /\ wasAborted \subseteq wasAborted' /\ T \subseteq timedOut' \cup wasAborted'
      /\ timedOut' \subseteq timedOut \cup T /\ wasAborted' \subseteq wasAborted \cup T
  BY DEF TaskInv, OfRunning
<1>r. Running' = Running /\ Ended' = Ended
  BY DEF Running, Ended
<1>2. Types'
  BY <1>1, <1>k, <1>s DEF Types, Running
<1>3. ProcessesFollow'
  BY <1>1, <1>k, <1>s DEF TaskInv, ProcessesFollow, Types
<1>4. OfRunning'
  BY <1>k, <1>s, <1>r DEF TaskInv, OfRunning, Running
<1>5. SignalsHaveReasons'
  BY <1>1, <1>k, <1>s DEF TaskInv, SignalsHaveReasons, Types, Running
<1>6. AbortIsHeard'
  <2>1. CASE aborted
    BY <1>k, <1>s, <1>r, <2>1 DEF TaskInv, AbortIsHeard
  <2>2. CASE ~aborted /\ ~aborted'
    BY <1>r, <2>2 DEF TaskInv, AbortIsHeard
  <2>3. CASE ~aborted /\ aborted'
    <3>1. T = listener /\ Running \subseteq T /\ wasAborted' = wasAborted \cup listener
      BY <2>3 DEF TaskInv, AbortIsHeard
    <3>2. ASSUME NEW t \in Tasks, proc[t] = "up" PROVE t \in Running
      BY <1>1, <3>2 DEF TaskInv, ProcessesFollow, Running, Types
    <3>3. QED BY <2>3, <3>1, <3>2, <1>k, <1>r DEF AbortIsHeard
  <2>4. QED BY <1>1, <2>1, <2>2, <2>3 DEF Types
<1>7. Honest'
  <2> SUFFICES ASSUME NEW t \in Ended
               PROVE  /\ result[t] = "ok" => (code'[t] = "ok" \/ t \in outside) /\ t \notin timedOut' \cup wasAborted'
                      /\ result[t] = "aborted" => aborted'
                      /\ result[t] = "timeout" => t \in timedOut'
    BY <1>r DEF Honest
  <2>1. t \in Tasks /\ t \notin T /\ code'[t] = code[t] /\ (aborted => aborted')
    BY <1>k, <1>s DEF Ended, Running
  <2>2. QED BY <2>1, <1>s DEF TaskInv, Honest
<1>8. QED BY <1>2, <1>3, <1>4, <1>5, <1>6, <1>7 DEF TaskInv

--------------------------------------------------------------------------------
\* The end of a task: its process is gone, it is cleaned up, and its result is told.
LEMMA EndKeeps ==
  ASSUME TaskInv, NEW t \in Tasks, Closes(t) \/ SpawnError(t)
  PROVE  TaskInv'
<1>1. Types /\ ProcessesFollow /\ OfRunning
  BY DEF TaskInv
<1>c. PICK c \in {"ok", "bad", "signal"} :
        /\ result' = [result EXCEPT ![t] = Told(t, c)] /\ (c = code[t] \/ c = "bad")
        /\ proc[t] \in {"exited", "unspawned"} /\ t \notin heirs
        /\ proc' = [proc EXCEPT ![t] = "closed"] /\ CleanupTask(t)
        /\ UNCHANGED <<onWindows, heirs, callVars, code, second, timedOut, wasAborted, outside, runs>>
  <2>1. CASE Closes(t)
    <3>1. proc[t] = "exited" /\ code[t] \in {"ok", "bad", "signal"}
      BY <1>1, <2>1 DEF Closes, Types, ProcessesFollow
    <3>2. QED BY <2>1, <3>1 DEF Closes
  <2>2. CASE SpawnError(t)
    <3>1. t \notin heirs
      BY <1>1, <2>2 DEF SpawnError, OfRunning
    <3>2. QED BY <2>2, <3>1 DEF SpawnError
  <2>3. QED BY <2>1, <2>2
<1>s. /\ watchdog' = watchdog \ {t} /\ listener' = listener \ {t} /\ killed' = killed \ {t}
      /\ stubborn' \subseteq stubborn
      /\ UNCHANGED <<onWindows, heirs, nextIndex, worker, aborted, returned, code, second, timedOut,
                     wasAborted, outside, runs>>
  BY <1>c DEF CleanupTask, callVars
<1>p. \A u \in Tasks : proc'[u] = (IF u = t THEN "closed" ELSE proc[u])
                      /\ result'[u] = (IF u = t THEN Told(t, c) ELSE result[u])
  BY <1>1, <1>c DEF Types
<1>h. /\ Told(t, c) \in {"ok", "failed", "aborted", "timeout"}
      /\ Told(t, c) = "ok" => t \notin timedOut \cup wasAborted /\ c # "bad"
      /\ Told(t, c) = "aborted" => t \in wasAborted
      /\ Told(t, c) = "timeout" => t \in timedOut
  <2>1. CASE t \in wasAborted
    BY <2>1 DEF Told
  <2>2. CASE t \notin wasAborted /\ t \in timedOut
    BY <2>2 DEF Told
  <2>3. CASE t \notin wasAborted /\ t \notin timedOut
    <3>1. Told(t, c) = IF c = "bad" THEN "failed" ELSE "ok"
      BY <2>3 DEF Told
    <3>2. QED BY <2>3, <3>1
  <2>4. QED BY <2>1, <2>2, <2>3
<1>r. Running' = Running \ {t} /\ Ended' = Ended \cup {t}
  BY <1>p, <1>h, <1>s DEF Running, Ended
<1>2. Types'
  BY <1>1, <1>c, <1>s, <1>h DEF Types
<1>3. ProcessesFollow'
  BY <1>1, <1>p, <1>s, <1>h, <1>c DEF ProcessesFollow
<1>4. OfRunning'
  BY <1>1, <1>p, <1>s, <1>r, <1>c DEF OfRunning, Running
<1>5. SignalsHaveReasons'
  BY <1>1, <1>p, <1>s DEF TaskInv, SignalsHaveReasons, Types
<1>6. AbortIsHeard'
  BY <1>p, <1>s, <1>r DEF TaskInv, AbortIsHeard
<1>7. Honest'
  BY <1>p, <1>s, <1>r, <1>h, <1>c DEF TaskInv, Honest, SignalsHaveReasons
<1>8. QED BY <1>2, <1>3, <1>4, <1>5, <1>6, <1>7 DEF TaskInv

\* A task that ends leaves those that run and joins those that are over.
LEMMA EndsATask ==
  ASSUME Types, NEW t \in Tasks, Closes(t) \/ SpawnError(t)
  PROVE  Running' = Running \ {t} /\ Ended' = Ended \cup {t}
<1>1. PICK r \in {"ok", "failed", "aborted", "timeout"} : result' = [result EXCEPT ![t] = r]
  BY DEF Closes, SpawnError, Told
<1>2. UNCHANGED runs
  BY DEF Closes, SpawnError
<1>3. \A u \in Tasks : result'[u] = IF u = t THEN r ELSE result[u]
  BY <1>1 DEF Types
<1>4. QED BY <1>2, <1>3 DEF Running, Ended

\* A pi exits, by itself or by a signal there was a reason for.
LEMMA ExitKeeps ==
  ASSUME TaskInv, NEW t \in Tasks, NEW c \in {"ok", "bad", "signal"}, Exits(t, c),
         outside \subseteq outside', outside' \subseteq Tasks,
         c = "signal" => t \in killed \cup outside'
  PROVE  TaskInv'
<1>1. Types /\ ProcessesFollow
  BY DEF TaskInv
<1>s. /\ second' = second \ {t}
      /\ UNCHANGED <<onWindows, stubborn, heirs, nextIndex, worker, aborted, returned, watchdog, listener,
                     killed, timedOut, wasAborted, result, runs>>
  BY DEF Exits, envVars, callVars, killVars
<1>p. /\ proc[t] = "up"
      /\ \A u \in Tasks : proc'[u] = (IF u = t THEN "exited" ELSE proc[u])
                         /\ code'[u] = (IF u = t THEN c ELSE code[u])
  BY <1>1 DEF Exits, Types
<1>r. Running' = Running /\ Ended' = Ended
  BY <1>s DEF Running, Ended
<1>2. Types'
  BY <1>1, <1>s DEF Types, Exits
<1>3. ProcessesFollow'
  BY <1>1, <1>p, <1>s DEF ProcessesFollow
<1>4. OfRunning'
  BY <1>p, <1>s, <1>r DEF TaskInv, OfRunning, Running
<1>5. SignalsHaveReasons'
  BY <1>1, <1>p, <1>s DEF TaskInv, SignalsHaveReasons, Types
<1>6. AbortIsHeard'
  BY <1>p, <1>s, <1>r DEF TaskInv, AbortIsHeard
<1>7. Honest'
  BY <1>1, <1>p, <1>s, <1>r DEF TaskInv, Honest, Ended, ProcessesFollow
<1>8. QED BY <1>2, <1>3, <1>4, <1>5, <1>6, <1>7 DEF TaskInv

\* The second kill finds nobody to kill: whoever is up was marked by the first.
LEMMA SecondKillKeeps ==
  ASSUME TaskInv, NEW t \in Tasks, SecondKill(t)
  PROVE  TaskInv' /\ UNCHANGED <<proc, result>>
<1>1. /\ second' = second \ {t}
      /\ UNCHANGED <<onWindows, stubborn, heirs, nextIndex, worker, aborted, returned, proc, code, watchdog,
                     listener, killed, timedOut, wasAborted, result, outside, runs>>
  BY DEF TaskInv, SignalsHaveReasons, SecondKill, envVars, callVars, killVars
<1>r. Running' = Running /\ Ended' = Ended
  BY <1>1 DEF Running, Ended
<1>2. Types' /\ ProcessesFollow'
  BY <1>1 DEF TaskInv, Types, ProcessesFollow
<1>3. OfRunning' /\ AbortIsHeard'
  BY <1>1, <1>r DEF TaskInv, OfRunning, AbortIsHeard
<1>4. SignalsHaveReasons' /\ Honest'
  BY <1>1, <1>r DEF TaskInv, SignalsHaveReasons, Honest
<1>5. QED BY <1>1, <1>2, <1>3, <1>4 DEF TaskInv

LEMMA HeirKeeps ==
  ASSUME TaskInv, NEW t \in Tasks, HeirExits(t)
  PROVE  TaskInv'
<1>1. /\ heirs' = heirs \ {t}
      /\ UNCHANGED <<onWindows, stubborn, nextIndex, worker, aborted, returned, proc, code, watchdog,
                     listener, second, killed, timedOut, wasAborted, result, outside, runs>>
  BY DEF HeirExits, callVars, timerVars, killVars
<1>r. Running' = Running /\ Ended' = Ended
  BY <1>1 DEF Running, Ended
<1>2. Types' /\ ProcessesFollow'
  BY <1>1 DEF TaskInv, Types, ProcessesFollow
<1>3. OfRunning' /\ AbortIsHeard'
  BY <1>1, <1>r DEF TaskInv, OfRunning, AbortIsHeard
<1>4. SignalsHaveReasons' /\ Honest'
  BY <1>1, <1>r DEF TaskInv, SignalsHaveReasons, Honest
<1>5. QED BY <1>2, <1>3, <1>4 DEF TaskInv

\* A task that was not started is started: at once it is over, or runs with all that belongs to it.
LEMMA StartTaskKeeps ==
  ASSUME TaskInv, NEW t \in Tasks, runs[t] = 0, RunSingleAgent(t),
         worker' \in [Workers -> 0..(Count + 1)],
         UNCHANGED <<onWindows, aborted, returned, timedOut, outside>>
  PROVE  TaskInv'
<1>1. Types /\ ProcessesFollow /\ OfRunning
  BY DEF TaskInv
<1>t. /\ proc[t] = "none" /\ result[t] = "none" /\ code[t] = "none"
      /\ t \notin Running /\ t \notin Ended /\ t \notin heirs
      /\ \A u \in Tasks : runs'[u] = (IF u = t THEN 1 ELSE runs[u])
      /\ runs' \in [Tasks -> Nat]
  BY <1>1 DEF RunSingleAgent, Types, ProcessesFollow, Running, Ended, OfRunning
<1>2. CASE /\ result' = [result EXCEPT ![t] = "failed"]
           /\ proc' = [proc EXCEPT ![t] = "closed"]
           /\ UNCHANGED <<heirs, stubborn, code, timerVars, killed, wasAborted>>
  <2>s. /\ UNCHANGED <<heirs, stubborn, code, watchdog, listener, second, killed, wasAborted>>
        /\ \A u \in Tasks : proc'[u] = (IF u = t THEN "closed" ELSE proc[u])
                           /\ result'[u] = (IF u = t THEN "failed" ELSE result[u])
    BY <1>1, <1>2 DEF Types, timerVars
  <2>r. Running' = Running /\ Ended' = Ended \cup {t}
    BY <1>t, <2>s DEF Running, Ended
  <2>1. Types'
    BY <1>1, <1>2, <1>t, <2>s DEF Types
  <2>2. ProcessesFollow'
    BY <1>1, <1>t, <2>s DEF ProcessesFollow
  <2>3. OfRunning'
    BY <1>1, <1>t, <2>s, <2>r DEF OfRunning, Running
  <2>4. SignalsHaveReasons'
    BY <1>t, <2>s DEF TaskInv, SignalsHaveReasons, Types
  <2>5. AbortIsHeard'
    BY <2>s, <2>r DEF TaskInv, AbortIsHeard
  <2>6. Honest'
    BY <1>t, <2>s, <2>r DEF TaskInv, Honest, Ended
  <2>7. QED BY <2>1, <2>2, <2>3, <2>4, <2>5, <2>6 DEF TaskInv
<1>3. CASE \E fails, heir, stays \in BOOLEAN :
          LET dead == fails \/ (aborted /\ onWindows) IN
          /\ watchdog' = watchdog \cup {t}
          /\ proc' = [proc EXCEPT ![t] = IF fails THEN "unspawned" ELSE IF dead THEN "exited" ELSE "up"]
          /\ code' = [code EXCEPT ![t] = IF dead /\ ~fails THEN "bad" ELSE @]
          /\ dead => ~heir /\ ~stays
          /\ stays => ~onWindows
          /\ heirs' = IF heir THEN heirs \cup {t} ELSE heirs
          /\ stubborn' = IF stays THEN stubborn \cup {t} ELSE stubborn
          /\ IF aborted
             THEN /\ wasAborted' = wasAborted \cup {t}
                  /\ second' = IF dead THEN second ELSE second \cup {t}
                  /\ killed' = IF fails THEN killed ELSE killed \cup {t}
                  /\ UNCHANGED listener
             ELSE listener' = listener \cup {t} /\ UNCHANGED <<wasAborted, second, killed>>
          /\ UNCHANGED result
  <2>p. PICK p \in {"unspawned", "exited", "up"}, c \in {"none", "bad"} :
          /\ c = "bad" <=> p = "exited"
          /\ proc' = [proc EXCEPT ![t] = p] /\ code' = [code EXCEPT ![t] = c]
          /\ watchdog' = watchdog \cup {t}
          /\ heirs' = heirs \/ (heirs' = heirs \cup {t} /\ p = "up")
          /\ stubborn' = stubborn \/ stubborn' = stubborn \cup {t}
          /\ \/ /\ aborted /\ wasAborted' = wasAborted \cup {t} /\ listener' = listener
                /\ second' = second \/ second' = second \cup {t}
                /\ killed' = killed \/ killed' = killed \cup {t}
                /\ p = "up" => killed' = killed \cup {t}
             \/ ~aborted /\ listener' = listener \cup {t} /\ UNCHANGED <<wasAborted, second, killed>>
          /\ UNCHANGED result
    <3>1. PICK fails \in BOOLEAN, heir \in BOOLEAN, stays \in BOOLEAN :
          LET dead == fails \/ (aborted /\ onWindows) IN
          /\ watchdog' = watchdog \cup {t}
          /\ proc' = [proc EXCEPT ![t] = IF fails THEN "unspawned" ELSE IF dead THEN "exited" ELSE "up"]
          /\ code' = [code EXCEPT ![t] = IF dead /\ ~fails THEN "bad" ELSE @]
          /\ dead => ~heir /\ ~stays
          /\ heirs' = IF heir THEN heirs \cup {t} ELSE heirs
          /\ stubborn' = IF stays THEN stubborn \cup {t} ELSE stubborn
          /\ IF aborted
             THEN /\ wasAborted' = wasAborted \cup {t}
                  /\ second' = IF dead THEN second ELSE second \cup {t}
                  /\ killed' = IF fails THEN killed ELSE killed \cup {t}
                  /\ UNCHANGED listener
             ELSE listener' = listener \cup {t} /\ UNCHANGED <<wasAborted, second, killed>>
          /\ UNCHANGED result
      BY <1>3
    <3>2. code[t] = "none" /\ code \in [Tasks -> {"none", "ok", "bad", "signal"}]
      BY <1>1, <1>t DEF Types
    <3>3. CASE fails
      BY <3>1, <3>2, <3>3
    <3>4. CASE ~fails /\ aborted /\ onWindows
      BY <3>1, <3>2, <3>4
    <3>5. CASE ~fails /\ ~(aborted /\ onWindows)
      BY <3>1, <3>2, <3>5
    <3>6. QED BY <3>3, <3>4, <3>5
  <2>s. /\ \A u \in Tasks : proc'[u] = (IF u = t THEN p ELSE proc[u])
                           /\ code'[u] = (IF u = t THEN c ELSE code[u])
        /\ UNCHANGED result
    BY <1>1, <2>p DEF Types
  <2>r. Running' = Running \cup {t} /\ Ended' = Ended
    BY <1>t, <2>s DEF Running, Ended
  <2>1. Types'
    BY <1>1, <1>t, <2>p DEF Types
  <2>2. ProcessesFollow'
    BY <1>1, <1>t, <2>p, <2>s DEF ProcessesFollow
  <2>3. OfRunning'
    BY <1>1, <1>t, <2>p, <2>s, <2>r DEF OfRunning, Running
  <2>4. SignalsHaveReasons'
    <3>1. killed' \subseteq timedOut' \cup wasAborted'
      BY <2>p DEF TaskInv, SignalsHaveReasons
    <3>2. \A u \in Tasks : code'[u] = "signal" => u \in timedOut' \cup wasAborted' \cup outside'
      BY <2>p, <2>s DEF TaskInv, SignalsHaveReasons
    <3>3. \A u \in second' : runs'[u] > 0 /\ (proc'[u] = "up" => u \in killed')
      BY <1>1, <1>t, <2>p, <2>s DEF TaskInv, SignalsHaveReasons, Types
    <3>4. wasAborted' # {} => aborted'
      BY <2>p DEF TaskInv, SignalsHaveReasons
    <3>5. QED BY <3>1, <3>2, <3>3, <3>4 DEF SignalsHaveReasons
  <2>5. AbortIsHeard'
    BY <2>p, <2>s, <2>r DEF TaskInv, AbortIsHeard
  <2>6. Honest'
    BY <1>t, <2>p, <2>s, <2>r DEF TaskInv, Honest, Ended
  <2>7. QED BY <2>1, <2>2, <2>3, <2>4, <2>5, <2>6 DEF TaskInv
<1>4. QED BY <1>2, <1>3 DEF RunSingleAgent

--------------------------------------------------------------------------------
\* What holds of the index and the workers.

LEMMA WorkersAreFew == /\ IsFiniteSet(Workers) /\ Cardinality(Workers) <= Limit
                       /\ Cardinality(Workers) \in Nat /\ Workers # {} /\ Cardinality(Workers) <= Count
<1> DEFINE m == IF Limit < Count THEN Limit ELSE Count
<1>1. m \in Nat /\ 1 \in Nat /\ 1 <= m /\ m <= Limit /\ m <= Count
  BY SubagentsAssumption
<1>2. IsFiniteSet(1..m) /\ Cardinality(1..m) = IF 1 > m THEN 0 ELSE m - 1 + 1
  BY <1>1, FS_Interval
<1>3. QED BY <1>1, <1>2 DEF Workers

LEMMA InitWorkers == TasksInit => StartedInOrder /\ WorkersAtWork
<1> SUFFICES ASSUME TasksInit PROVE StartedInOrder /\ WorkersAtWork
  OBVIOUS
<1>1. StartedInOrder
  BY DEF TasksInit, StartedInOrder, Tasks
<1>2. Running = {} /\ {w \in Workers : Over(w)} = {}
  BY SubagentsAssumption DEF TasksInit, Running, Over
<1>3. Cardinality({w \in Workers : Over(w)}) = 0
  BY <1>2, FS_EmptySet
<1>4. WorkersAtWork
  BY <1>2, <1>3, SubagentsAssumption DEF TasksInit, WorkersAtWork, Tasks, Over
<1>5. QED BY <1>1, <1>4

LEMMA OthersKeep ==
  ASSUME StartedInOrder, WorkersAtWork, UNCHANGED <<nextIndex, worker, returned, runs>>,
         Running' \subseteq Running
  PROVE  StartedInOrder' /\ WorkersAtWork'
<1>1. StartedInOrder'
  BY DEF StartedInOrder
<1>2. {w \in Workers : Over(w)}' = {w \in Workers : Over(w)}
  BY DEF Over
<1>3. WorkersAtWork'
  BY <1>2 DEF WorkersAtWork, Over
<1>4. QED BY <1>1, <1>3

\* A worker takes a task.
LEMMA PullsTask ==
  ASSUME TasksInv, NEW w \in Workers, Pull(w), nextIndex <= Count
  PROVE  /\ TasksInv' /\ runs[nextIndex] = 0 /\ nextIndex \in Tasks
         /\ RunSingleAgent(nextIndex) /\ nextIndex' = nextIndex + 1
<1> DEFINE n == nextIndex
<1>1. /\ n \in Tasks /\ n \in Nat /\ runs[n] = 0 /\ runs \in [Tasks -> Nat]
  BY SubagentsAssumption DEF TasksInv, TaskInv, Types, StartedInOrder, Tasks
<1>2. /\ nextIndex' = n + 1 /\ worker' = [worker EXCEPT ![w] = n] /\ RunSingleAgent(n)
      /\ UNCHANGED <<onWindows, aborted, returned, timedOut, outside>>
      /\ ~returned /\ ~Over(w) /\ ~AtWork(w)
  BY DEF Pull
<1>3. worker \in [Workers -> 0..(Count + 1)] /\ worker' \in [Workers -> 0..(Count + 1)]
  BY <1>1, <1>2, SubagentsAssumption DEF TasksInv, TaskInv, Types, Tasks
<1>4. TaskInv'
  BY <1>1, <1>2, <1>3, StartTaskKeeps DEF TasksInv
<1>5. \A u \in Tasks : runs'[u] = (IF u = n THEN 1 ELSE runs[u])
  BY <1>1, <1>2 DEF RunSingleAgent
<1>6. StartedInOrder'
  BY <1>1, <1>2, <1>5 DEF TasksInv, StartedInOrder, Tasks
<1>7. Running' \subseteq Running \cup {n}
  <2>1. result' = [result EXCEPT ![n] = "failed"] \/ result' = result
    BY <1>2 DEF RunSingleAgent
  <2>2. \A u \in Tasks : u = n \/ result'[u] = result[u]
    BY <1>1, <2>1 DEF TasksInv, TaskInv, Types
  <2>3. QED BY <1>1, <1>5, <2>2 DEF Running
<1>8. \A v \in Workers : worker'[v] = IF v = w THEN n ELSE worker[v]
  BY <1>2, <1>3
<1>9. \A t \in Running' : \E v \in Workers : worker'[v] = t
  <2>1. worker[w] \notin Running
    BY <1>2 DEF AtWork, Running
  <2>2. QED BY <1>7, <1>8, <2>1 DEF TasksInv, WorkersAtWork
<1> DEFINE O == {v \in Workers : Over(v)}
<1>10. O' = O
  BY <1>1, <1>2, <1>8, SubagentsAssumption DEF Over, Tasks
<1>11. WorkersAtWork'
  <2>1. Cardinality(O) \in Nat
    <3>1. O \subseteq Workers
      OBVIOUS
    <3>2. IsFiniteSet(O)
      BY <3>1, WorkersAreFew, FS_Subset
    <3>3. QED BY <3>2, FS_CardinalityType
  <2>2. nextIndex' <= Count + 1 + Cardinality(O')
    <3>1. n + 1 <= Count + 1 + Cardinality(O)
      BY <1>1, <2>1, SubagentsAssumption
    <3>2. QED BY <1>2, <1>10, <3>1
  <2>3. \A v \in Workers : Over(v)' => nextIndex' > Count
    BY <1>1, <1>2, <1>10, SubagentsAssumption DEF TasksInv, WorkersAtWork, Tasks
  <2>4. \A v \in Workers : worker'[v] \in Tasks => worker'[v] < nextIndex'
    BY <1>1, <1>2, <1>8 DEF TasksInv, WorkersAtWork, Tasks
  <2>5. QED BY <1>2, <1>9, <2>2, <2>3, <2>4 DEF WorkersAtWork
<1>12. QED BY <1>1, <1>2, <1>4, <1>6, <1>11 DEF TasksInv

\* A worker finds no task left.
LEMMA PullsNothing ==
  ASSUME TasksInv, NEW w \in Workers, Pull(w), nextIndex > Count
  PROVE  TasksInv' /\ UNCHANGED <<runs, result, returned>>
<1>1. /\ nextIndex' = nextIndex + 1 /\ worker' = [worker EXCEPT ![w] = Count + 1]
      /\ UNCHANGED <<runs, result, proc, heirs, stubborn, code, watchdog, listener, second, killed, wasAborted,
                     onWindows, aborted, returned, timedOut, outside>>
      /\ ~Over(w) /\ ~returned
  BY SubagentsAssumption DEF Pull, timerVars, TasksInv, StartedInOrder
<1>2. worker \in [Workers -> 0..(Count + 1)] /\ worker' \in [Workers -> 0..(Count + 1)]
  BY <1>1, SubagentsAssumption DEF TasksInv, TaskInv, Types
<1>r. Running' = Running /\ Ended' = Ended
  BY <1>1 DEF Running, Ended
<1>3. Types' /\ ProcessesFollow'
  BY <1>1, <1>2 DEF TasksInv, TaskInv, Types, ProcessesFollow
<1>4. OfRunning' /\ AbortIsHeard'
  BY <1>1, <1>r DEF TasksInv, TaskInv, OfRunning, AbortIsHeard
<1>5. SignalsHaveReasons' /\ Honest'
  BY <1>1, <1>r DEF TasksInv, TaskInv, SignalsHaveReasons, Honest
<1>6. nextIndex \in Nat \ {0} /\ Count \in Nat
  BY SubagentsAssumption DEF TasksInv, StartedInOrder
<1>7. StartedInOrder'
  BY <1>1, <1>6 DEF TasksInv, StartedInOrder, Tasks
<1>8. \A v \in Workers : worker'[v] = IF v = w THEN Count + 1 ELSE worker[v]
  BY <1>1, <1>2
<1> DEFINE O == {v \in Workers : Over(v)}
<1>9. O' = O \cup {w} /\ w \notin O
  BY <1>1, <1>6, <1>8 DEF Over
<1>10. IsFiniteSet(O) /\ Cardinality(O) \in Nat /\ Cardinality(O') = Cardinality(O) + 1
  BY <1>9, WorkersAreFew, FS_Subset, FS_AddElement, FS_CardinalityType
<1>11. \A t \in Running' : \E v \in Workers : worker'[v] = t
  <2>1. worker[w] \notin Running
    BY DEF Pull, AtWork, Running
  <2>2. QED BY <1>8, <1>r, <2>1 DEF TasksInv, WorkersAtWork
<1>12. WorkersAtWork'
  <2>1. nextIndex' <= Count + 1 + Cardinality(O')
    BY <1>1, <1>6, <1>10 DEF TasksInv, WorkersAtWork
  <2>2. \A v \in Workers : worker'[v] \in Tasks => worker'[v] < nextIndex'
    BY <1>1, <1>6, <1>8 DEF TasksInv, WorkersAtWork, Tasks
  <2>3. nextIndex' > Count
    BY <1>1, <1>6
  <2>4. QED BY <1>1, <1>11, <2>1, <2>2, <2>3 DEF WorkersAtWork
<1>13. QED BY <1>1, <1>3, <1>4, <1>5, <1>7, <1>12 DEF TasksInv, TaskInv

--------------------------------------------------------------------------------
\* Every step keeps the invariant.
LEMMA TasksNextInv == TasksInv /\ [TasksNext]_tasksVars => TasksInv'
<1> SUFFICES ASSUME TasksInv, [TasksNext]_tasksVars PROVE TasksInv'
  OBVIOUS
<1> USE DEF TasksInv
<1>s. ASSUME TaskInv', UNCHANGED <<nextIndex, worker, returned, runs>>, Running' \subseteq Running PROVE TasksInv'
  BY <1>s, OthersKeep
<1>n. ASSUME UNCHANGED tasksVars PROVE TasksInv'
  <2>1. /\ UNCHANGED <<onWindows, stubborn, heirs, nextIndex, worker, aborted, returned, proc, code, watchdog>>
        /\ UNCHANGED <<listener, second, killed, timedOut, wasAborted, result, outside, runs>>
    BY <1>n DEF tasksVars, envVars, callVars, timerVars, killVars
  <2>2. Running' = Running /\ Ended' = Ended
    BY <2>1 DEF Running, Ended
  <2>3. Types' /\ ProcessesFollow' /\ Honest'
    BY <2>1, <2>2 DEF TaskInv, Types, ProcessesFollow, Honest
  <2>4. OfRunning' /\ SignalsHaveReasons' /\ AbortIsHeard'
    BY <2>1, <2>2 DEF TaskInv, OfRunning, SignalsHaveReasons, AbortIsHeard
  <2>5. QED BY <2>1, <2>2, <2>3, <2>4, <1>s DEF TaskInv
<1>1. ASSUME NEW w \in Workers, Pull(w) PROVE TasksInv'
  <2>1. nextIndex <= Count \/ nextIndex > Count
    BY SubagentsAssumption DEF StartedInOrder
  <2>2. QED BY <1>1, <2>1, PullsTask, PullsNothing
<1>2. CASE Returns
  <2>1. /\ UNCHANGED <<onWindows, stubborn, heirs, nextIndex, worker, aborted, proc, code, watchdog>>
        /\ UNCHANGED <<listener, second, killed, timedOut, wasAborted, result, outside, runs>>
        /\ returned' = TRUE /\ \A w \in Workers : Over(w)
    BY <1>2 DEF Returns, envVars, timerVars, killVars
  <2>2. Running' = Running /\ Ended' = Ended
    BY <2>1 DEF Running, Ended
  <2>3. Types' /\ ProcessesFollow' /\ Honest'
    BY <2>1, <2>2 DEF TaskInv, Types, ProcessesFollow, Honest
  <2>4. OfRunning' /\ SignalsHaveReasons' /\ AbortIsHeard'
    BY <2>1, <2>2 DEF TaskInv, OfRunning, SignalsHaveReasons, AbortIsHeard
  <2>5. StartedInOrder'
    BY <2>1 DEF StartedInOrder
  <2>6. {w \in Workers : Over(w)}' = {w \in Workers : Over(w)}
    BY <2>1 DEF Over
  <2>7. WorkersAtWork'
    BY <2>1, <2>2, <2>6 DEF WorkersAtWork, Over
  <2>8. QED BY <2>3, <2>4, <2>5, <2>7 DEF TaskInv
<1>3. CASE Abort
  <2>1. listener \in SUBSET Tasks
    BY DEF TaskInv, OfRunning, Running
  <2>2. /\ KillTree(listener) /\ ~aborted /\ aborted' = TRUE
        /\ listener' = {} /\ wasAborted' = wasAborted \cup listener
        /\ UNCHANGED <<onWindows, stubborn, nextIndex, worker, returned, watchdog, timedOut, result, outside, runs>>
    BY <1>3 DEF Abort
  <2>3. TaskInv'
    BY <2>1, <2>2, SignalKeeps
  <2>4. Running' = Running
    BY <2>2 DEF Running
  <2>5. QED BY <2>2, <2>3, <2>4, <1>s
<1>4. ASSUME NEW t \in Tasks, Closes(t) \/ SpawnError(t) PROVE TasksInv'
  <2>1. TaskInv'
    BY <1>4, EndKeeps
  <2>2. UNCHANGED <<nextIndex, worker, returned, runs>>
    BY <1>4 DEF Closes, SpawnError, callVars
  <2>3. Running' \subseteq Running
    <3>1. Types
      BY DEF TaskInv
    <3>2. QED BY <1>4, <3>1, EndsATask
  <2>4. QED BY <2>1, <2>2, <2>3, <1>s
<1>5. ASSUME NEW t \in Tasks, WatchdogFires(t) PROVE TasksInv'
  <2>1. /\ KillTree({t}) /\ t \in watchdog /\ watchdog' = watchdog \ {t} /\ timedOut' = timedOut \cup {t}
        /\ UNCHANGED <<onWindows, stubborn, nextIndex, worker, aborted, returned, listener, wasAborted, result,
                       outside, runs>>
    BY <1>5 DEF WatchdogFires, callVars
  <2>2. TaskInv'
    BY <2>1, SignalKeeps
  <2>3. Running' = Running
    BY <2>1 DEF Running
  <2>4. QED BY <2>1, <2>2, <2>3, <1>s
<1>6. ASSUME NEW t \in Tasks, SecondKill(t) PROVE TasksInv'
  <2>1. TaskInv' /\ UNCHANGED <<nextIndex, worker, returned, result, runs>>
    BY <1>6, SecondKillKeeps DEF SecondKill, callVars
  <2>2. Running' = Running
    BY <2>1 DEF Running
  <2>3. QED BY <2>1, <2>2, <1>s
<1>7. ASSUME NEW t \in Tasks, PiExits(t) \/ DiesOfTerm(t) \/ KilledOutside(t) PROVE TasksInv'
  <2>1. outside \subseteq outside' /\ outside' \subseteq Tasks
    BY <1>7 DEF PiExits, DiesOfTerm, KilledOutside, TaskInv, Types
  <2>2. PICK c \in {"ok", "bad", "signal"} : Exits(t, c) /\ (c = "signal" => t \in killed \cup outside')
    BY <1>7 DEF PiExits, DiesOfTerm, KilledOutside
  <2>3. TaskInv'
    BY <2>1, <2>2, ExitKeeps
  <2>4. UNCHANGED <<nextIndex, worker, returned, result, runs>>
    BY <2>2 DEF Exits, callVars
  <2>5. Running' = Running
    BY <2>4 DEF Running
  <2>6. QED BY <2>3, <2>4, <2>5, <1>s
<1>8. ASSUME NEW t \in Tasks, HeirExits(t) PROVE TasksInv'
  <2>1. TaskInv' /\ UNCHANGED <<nextIndex, worker, returned, result, runs>>
    BY <1>8, HeirKeeps DEF HeirExits, callVars
  <2>2. Running' = Running
    BY <2>1 DEF Running
  <2>3. QED BY <2>1, <2>2, <1>s
<1>9. QED BY <1>n, <1>1, <1>2, <1>3, <1>4, <1>5, <1>6, <1>7, <1>8 DEF TasksNext, AllDone, TaskSteps

--------------------------------------------------------------------------------
\* The invariant is enough.  When the call has returned all workers are over, so the index has
\* passed every task, and none runs, as a task that runs has a worker.
LEMMA IInvSuffices == TasksInv => CallsEndClean
<1> SUFFICES ASSUME TasksInv PROVE CallsEndClean
  OBVIOUS
<1> USE DEF TasksInv
<1>1. nextIndex \in 1..(Count + Limit + 1)
  <2> DEFINE O == {w \in Workers : Over(w)}
  <2>1. O \subseteq Workers
    OBVIOUS
  <2>2. IsFiniteSet(O) /\ Cardinality(O) <= Cardinality(Workers)
    BY <2>1, WorkersAreFew, FS_Subset
  <2>3. Cardinality(O) \in Nat /\ Cardinality(O) <= Limit
    BY <2>2, WorkersAreFew, FS_CardinalityType, SubagentsAssumption
  <2>4. nextIndex <= Count + 1 + Cardinality(O) /\ nextIndex \in Nat \ {0}
    BY DEF WorkersAtWork, StartedInOrder
  <2>5. QED BY <2>3, <2>4, SubagentsAssumption
<1>2. watchdog \subseteq Tasks /\ listener \subseteq Tasks /\ heirs \subseteq Tasks
  BY DEF TaskInv, OfRunning, Running
<1>3. TasksTypeOK
  BY <1>1, <1>2 DEF TasksTypeOK, TaskInv, Types
<1>4. TimersFollowTasks
  BY DEF TimersFollowTasks, TaskInv, OfRunning
<1>5. AbortReachesAll
  BY DEF AbortReachesAll, TaskInv, AbortIsHeard
<1>6. ResultIsHonest
  <2>1. \A t \in Ended : t \notin heirs
    BY DEF TaskInv, OfRunning, Running, Ended
  <2>2. QED BY <2>1 DEF ResultIsHonest, TaskInv, Honest
<1>7. NothingLeftBehind
  <2> SUFFICES ASSUME returned PROVE heirs = {} /\ \A t \in Tasks : proc[t] = "closed"
    BY DEF NothingLeftBehind
  <2>1. \A w \in Workers : Over(w)
    BY DEF WorkersAtWork
  <2>2. nextIndex > Count
    BY <2>1, WorkersAreFew DEF WorkersAtWork
  <2>3. \A t \in Tasks : runs[t] = 1
    BY <2>2, SubagentsAssumption DEF StartedInOrder, Tasks
  <2>4. Running = {}
    BY <2>1, SubagentsAssumption DEF WorkersAtWork, Over, Running, Tasks
  <2>5. \A t \in Tasks : proc[t] = "closed"
    BY <2>3, <2>4 DEF Running, TaskInv, ProcessesFollow
  <2>6. QED BY <2>4, <2>5 DEF TaskInv, OfRunning
<1>8. QED BY <1>3, <1>4, <1>5, <1>6, <1>7 DEF CallsEndClean

LEMMA TasksInitInv == TasksInit => TasksInv
BY InitTasks, InitWorkers DEF TasksInv

\* At every moment of a call timers and listeners belong to running tasks, an abort has reached
\* everybody, and what was told is true; when runSubagents returns no process is left.
THEOREM SubagentCallsEndClean == TasksSpec => []CallsEndClean
<1>1. QED BY TasksInitInv, TasksNextInv, IInvSuffices, PTL DEF TasksSpec

--------------------------------------------------------------------------------
\* The tasks at work, each with a worker other than the one that pulls, are fewer than Limit.
LEMMA RoomForOne ==
  ASSUME TasksInv, NEW w \in Workers, ~AtWork(w)
  PROVE  Cardinality(Running) < Limit
<1> DEFINE V == Workers \ {w}
           f == [t \in Running |-> CHOOSE v \in Workers : worker[v] = t]
<1>1. \A t \in Running : f[t] \in Workers /\ worker[f[t]] = t
  BY DEF TasksInv, WorkersAtWork
<1>2. worker[w] \notin Running
  BY DEF AtWork, Running
<1>3. f \in [Running -> V]
  BY <1>1, <1>2
<1>4. f \in Injection(Running, V)
  BY <1>1, <1>3 DEF Injection, IsInjective
<1>5. IsFiniteSet(V) /\ Cardinality(V) = Cardinality(Workers) - 1
  BY WorkersAreFew, FS_RemoveElement
<1>6. Cardinality(V) \in Nat
  BY <1>5, FS_CardinalityType
<1>7. IsFiniteSet(Running) /\ Cardinality(Running) <= Cardinality(V)
  BY <1>4, <1>5, FS_Injection
<1>8. Cardinality(Running) \in Nat
  BY <1>7, FS_CardinalityType
<1>9. QED BY <1>5, <1>6, <1>7, <1>8, WorkersAreFew, SubagentsAssumption

\* The pool sees of the workers what is started, what is over, and whether the call returned.
LEMMA PoolSees ==
  ASSUME TasksInv
  PROVE  /\ Pool!Waiting = {t \in Tasks : nextIndex <= t}
         /\ Pool!AtWork = Running
         /\ nextIndex \in Tasks => Pool!Waiting # {} /\ Pool!First = nextIndex
<1>1. Pool!Tasks = Tasks
  BY DEF Pool!Tasks, Tasks
<1>2. Pool!Waiting = {t \in Tasks : nextIndex <= t}
  BY <1>1, SubagentsAssumption DEF Pool!Waiting, TasksInv, StartedInOrder, Tasks
<1>3. Pool!AtWork = Running
  BY <1>1 DEF Pool!AtWork, Running, Ended
<1>4. ASSUME nextIndex \in Tasks PROVE Pool!Waiting # {} /\ Pool!First = nextIndex
  <2>1. /\ nextIndex \in Pool!Waiting /\ \A u \in Pool!Waiting : nextIndex <= u
        /\ \A t \in Pool!Waiting : t \in Int
    BY <1>2, <1>4 DEF Tasks
  <2>2. \A t \in Pool!Waiting : (\A u \in Pool!Waiting : t <= u) => t = nextIndex
    BY <2>1
  <2>3. QED BY <2>1, <2>2 DEF Pool!First
<1>5. QED BY <1>2, <1>3, <1>4

\* Every step is one of the pool's, or one it does not see.
LEMMA PoolSteps == TasksInv /\ [TasksNext]_tasksVars => [Pool!PoolNext]_Pool!pool
<1> SUFFICES ASSUME TasksInv, [TasksNext]_tasksVars PROVE [Pool!PoolNext]_Pool!pool
  OBVIOUS
<1>u. ASSUME UNCHANGED <<runs, result, returned>> PROVE [Pool!PoolNext]_Pool!pool
  BY <1>u DEF Pool!pool, Ended
<1>1. ASSUME NEW w \in Workers, Pull(w), nextIndex <= Count PROVE Pool!Start
  <2>1. /\ runs[nextIndex] = 0 /\ nextIndex \in Tasks /\ RunSingleAgent(nextIndex)
        /\ UNCHANGED returned /\ ~AtWork(w)
    BY <1>1, PullsTask DEF Pull
  <2>2. Pool!Waiting # {} /\ Pool!First = nextIndex /\ Pool!AtWork = Running
    BY <2>1, PoolSees
  <2>3. Cardinality(Pool!AtWork) < Limit
    BY <2>1, <2>2, RoomForOne
  <2>4. runs' = [runs EXCEPT ![nextIndex] = 1]
    BY <2>1 DEF RunSingleAgent
  <2>5. Ended' \in {Ended, Ended \cup {nextIndex}}
    <3>1. result' = [result EXCEPT ![nextIndex] = "failed"] \/ result' = result
      BY <2>1 DEF RunSingleAgent
    <3>2. result \in [Tasks -> {"none", "ok", "failed", "aborted", "timeout"}]
      BY DEF TasksInv, TaskInv, Types
    <3>3. QED BY <2>1, <3>1, <3>2 DEF Ended
  <2>6. Pool!Cardinality(Pool!AtWork) = Cardinality(Pool!AtWork)
    BY DEF Pool!Cardinality, Cardinality
  <2>7. QED BY <2>1, <2>2, <2>3, <2>4, <2>5, <2>6 DEF Pool!Start
<1>2. ASSUME NEW w \in Workers, Pull(w) PROVE [Pool!PoolNext]_Pool!pool
  <2>1. nextIndex <= Count \/ nextIndex > Count
    BY SubagentsAssumption DEF TasksInv, StartedInOrder
  <2>2. CASE nextIndex <= Count
    BY <1>1, <1>2, <2>2 DEF Pool!PoolNext
  <2>3. CASE nextIndex > Count
    BY <1>2, <1>u, <2>3, PullsNothing
  <2>4. QED BY <2>1, <2>2, <2>3
<1>3. CASE Returns
  <2>1. /\ \A w \in Workers : Over(w)
        /\ returned' = TRUE /\ UNCHANGED <<runs, result>>
    BY <1>3 DEF Returns
  <2>2. nextIndex > Count
    BY <2>1, WorkersAreFew DEF TasksInv, WorkersAtWork
  <2>3. \A t \in Tasks : runs[t] = 1
    BY <2>2, SubagentsAssumption DEF TasksInv, StartedInOrder, Tasks
  <2>4. Running = {}
    BY <2>1, SubagentsAssumption DEF TasksInv, WorkersAtWork, Over, Running, Tasks
  <2>5. Ended = Pool!Tasks
    BY <2>3, <2>4 DEF Running, Ended, Pool!Tasks, Tasks
  <2>6. Pool!Return
    BY <2>1, <2>5 DEF Pool!Return, Ended
  <2>7. QED BY <2>6 DEF Pool!PoolNext
<1>4. CASE Abort
  BY <1>4, <1>u DEF Abort
<1>5. ASSUME NEW t \in Tasks, Closes(t) \/ SpawnError(t) PROVE [Pool!PoolNext]_Pool!pool
  <2>1. Types /\ ProcessesFollow
    BY DEF TasksInv, TaskInv
  <2>2. Ended' = Ended \cup {t}
    BY <1>5, <2>1, EndsATask
  <2>3. proc[t] \in {"exited", "unspawned"} /\ UNCHANGED <<runs, returned>>
    BY <1>5 DEF Closes, SpawnError, callVars
  <2>4. t \in Running
    BY <2>1, <2>3 DEF ProcessesFollow, Running, Types
  <2>5. Pool!Finish(t) /\ t \in Pool!Tasks
    BY <2>2, <2>3, <2>4, PoolSees DEF Pool!Finish, Pool!Tasks, Tasks
  <2>6. QED BY <2>5 DEF Pool!PoolNext
<1>6. ASSUME NEW t \in Tasks,
             \/ SecondKill(t) \/ WatchdogFires(t) \/ DiesOfTerm(t) \/ PiExits(t) \/ KilledOutside(t)
             \/ HeirExits(t)
      PROVE  [Pool!PoolNext]_Pool!pool
  <2>1. UNCHANGED <<runs, result, returned>>
    BY <1>6 DEF SecondKill, WatchdogFires, DiesOfTerm, PiExits, KilledOutside, HeirExits, Exits, callVars
  <2>2. QED BY <2>1, <1>u
<1>7. CASE AllDone \/ UNCHANGED tasksVars
  BY <1>7, <1>u DEF AllDone, tasksVars, callVars
<1>8. QED BY <1>2, <1>3, <1>4, <1>5, <1>6, <1>7 DEF TasksNext, TaskSteps

\* The workers that share an index do what a pool should: tasks start in order, each once and
\* at most Limit at a time, and the call returns when all are over.
THEOREM WorkersImplementPool == TasksSpec => ImplementsPool
<1>1. TasksInit => Pool!PoolInit
  BY DEF TasksInit, Pool!PoolInit, Pool!Tasks, Tasks, Ended
<1>2. QED BY <1>1, TasksInitInv, TasksNextInv, PoolSteps, PTL DEF TasksSpec, ImplementsPool, Pool!PoolSpec

--------------------------------------------------------------------------------
\* MCP connections

States == {"disconnected", "connecting", "connected", "error", "idle"}
Phases == {"none", "connecting", "open", "dead", "closing"}

RunningOn(c) == {i \in Calls : call[i].st = "running" /\ call[i].conn = c}

\* A connection's count is that of the calls which run on it.
Counts == \A c \in Conns : inFlight[c] = Cardinality(RunningOn(c))

\* The first two parts of NoClientForgotten, and the third.
ClientsMatch ==
  \A c \in Conns, k \in Clients :
    /\ phase[c][k] \in {"open", "dead"} <=> client[c] = k
    /\ phase[c][k] = "connecting" <=> attempt[c] = k
CallsMatch ==
  \A c \in Conns, k \in Clients, i \in Calls : RunsOn(i, c, k) => phase[c][k] \in {"open", "closing"}

\* A connection with a client brings no other one, and says that it is connected, unless it was
\* blocked since.
OneClient ==
  \A c \in Conns : client[c] # 0 => attempt[c] = 0 /\ (c \notin blocked => state[c] = "connected")

\* Only sessions that were made have a question, blocked servers or clients.
Known ==
  /\ current <= made /\ (changing = "start" => made < MaxSessions)
  /\ \A s \in question : s <= made
  /\ \A c \in Conns : c[1] > made => c \notin blocked /\ \A k \in Clients : phase[c][k] = "none"

\* A session with a question can still connect each of its servers.
RoomToAsk == \A s \in question, v \in Servers : \E k \in Clients : phase[<<s, v>>][k] = "none"

\* What OldClientsOnlyByLateConnect says of a replaced session is so of one being cleaned up.
LeftOnlyByLateConnect ==
  \A c \in Conns \ late, k \in Clients :
    (c[1] # current \/ changing # "no") => phase[c][k] \in {"none", "closing"}

\* A session that ends has stopped its timer, unless an answer started it again.
Sweeps ==
  /\ SweepsTheCurrent
  /\ changing = "shutdown" => sweeper = 0 \/ sweeper \in tardy

IInv ==
  /\ TypeOK /\ Counts /\ ClientsMatch /\ CallsMatch /\ OneClient /\ Known /\ RoomToAsk
  /\ ProjectServersAwaitTheAnswer /\ LeftOnlyByLateConnect /\ Sweeps

--------------------------------------------------------------------------------
\* Counting

\* A set of calls is finite, and no more than all.
LEMMA CallsAreFew ==
  ASSUME NEW I \in SUBSET Calls
  PROVE  IsFiniteSet(I) /\ Cardinality(I) \in 0..Cardinality(Calls)
<1>1. IsFiniteSet(Calls)
  BY McpAssumption
<1>2. IsFiniteSet(I) /\ Cardinality(I) <= Cardinality(Calls)
  BY <1>1, FS_Subset
<1>3. Cardinality(I) \in Nat /\ Cardinality(Calls) \in Nat
  BY <1>1, <1>2, FS_CardinalityType
<1>4. QED BY <1>2, <1>3

\* Calls that are not counted yet add up.
LEMMA CallsAddUp ==
  ASSUME NEW I \in SUBSET Calls, NEW J \in SUBSET Calls, I \cap J = {}
  PROVE  /\ Cardinality(I \cup J) = Cardinality(I) + Cardinality(J)
         /\ Cardinality(I \cup J) \in Nat /\ Cardinality(I) \in Nat /\ Cardinality(J) \in Nat
<1>1. IsFiniteSet(I) /\ IsFiniteSet(J) /\ Cardinality(I) \in Nat /\ Cardinality(J) \in Nat
  BY CallsAreFew
<1>2. Cardinality(I \cap J) = 0
  BY FS_EmptySet
<1>3. Cardinality(I \cup J) = Cardinality(I) + Cardinality(J) - Cardinality(I \cap J)
  BY <1>1, FS_Union
<1>4. QED BY <1>1, <1>2, <1>3

\* When there is room for a client, every connection has two clients to choose from.
LEMMA RoomForTwo ==
  ASSUME TypeOK, HasRoom, NEW c \in Conns
  PROVE  \E j, k \in Clients : j # k /\ phase[c][j] = "none" /\ phase[c][k] = "none"
<1> DEFINE S == {w \in Conns \X Clients : phase[w[1]][w[2]] # "none"}
<1>1. IsFiniteSet(S)
  <2>1. IsFiniteSet(Sessions) /\ IsFiniteSet(Clients)
    BY FS_Interval, McpAssumption DEF Sessions, Clients
  <2>2. IsFiniteSet(Conns)
    BY <2>1, FS_Product, McpAssumption DEF Conns
  <2>3. IsFiniteSet(Conns \X Clients)
    BY <2>1, <2>2, FS_Product
  <2>4. S \in SUBSET (Conns \X Clients)
    OBVIOUS
  <2>5. QED BY <2>3, <2>4, FS_Subset
<1>2. SUFFICES ASSUME NEW n \in Clients,
                      \A k \in Clients : k # n => phase[c][k] # "none" PROVE FALSE
  <2>1. 1 \in Clients
    BY McpAssumption DEF Clients
  <2>2. QED BY <1>2, <2>1
<1> DEFINE f == [j \in 1..MaxBusy |-> IF j < n THEN <<c, j>> ELSE <<c, j + 1>>]
<1>3. \A j \in 1..MaxBusy : f[j] \in S
  BY <1>2, McpAssumption DEF Clients
<1>4. \A i, j \in 1..MaxBusy : f[i] = f[j] => i = j
  BY McpAssumption DEF Clients
<1>5. f \in Injection(1..MaxBusy, S)
  BY <1>3, <1>4 DEF Injection, IsInjective
<1>6. Cardinality(1..MaxBusy) = MaxBusy
  BY FS_Interval, McpAssumption
<1>7. MaxBusy <= Cardinality(S)
  <2> HIDE DEF f, S
  <2>1. QED BY <1>1, <1>5, <1>6, FS_Injection
<1>8. Cardinality(S) < MaxBusy
  BY DEF HasRoom
<1>9. Cardinality(S) \in Nat
  BY <1>1, FS_CardinalityType
<1>10. QED BY <1>7, <1>8, <1>9, McpAssumption

--------------------------------------------------------------------------------
\* connectServer

\* It takes a client that is not in use, where there is one.
LEMMA FreshIsFree ==
  ASSUME NEW c, NEW ph, \E k \in Clients : ph[c][k] = "none"
  PROVE  Fresh(c, ph) \in Clients /\ ph[c][Fresh(c, ph)] = "none"
<1> DEFINE T == {k \in Clients : ph[c][k] = "none"}
<1>1. T \subseteq Nat /\ T # {}
  BY DEF Clients
<1>2. PICK m \in T : \A q \in T : ~(<<q, m>> \in OpToRel(<, Nat))
  BY <1>1, NatLessThanWellFounded, WFMin
<1>3. \A q \in T : ~(q < m)
  BY <1>1, <1>2 DEF OpToRel
<1>4. \A j \in 1..(m - 1) : ph[c][j] # "none"
  BY <1>3, McpAssumption DEF Clients
<1>5. QED BY <1>2, <1>4 DEF Fresh

\* What connecting does to each connection.
Brings(C, st, ph) ==
  /\ \A c \in Conns \ C : attempt'[c] = attempt[c] /\ phase'[c] = ph[c] /\ state'[c] = st[c]
  /\ \A c \in C :
       /\ attempt'[c] \in Clients /\ ph[c][attempt'[c]] = "none" /\ state'[c] = "connecting"
       /\ \A k \in Clients : phase'[c][k] = IF k = attempt'[c] THEN "connecting" ELSE ph[c][k]
  /\ late' = late \cup {c \in C : c[1] <= made /\ (c[1] # current \/ changing # "no")}

LEMMA WhatConnects ==
  ASSUME NEW C \in SUBSET Conns, NEW st, NEW ph \in [Conns -> [Clients -> Phases]],
         \A c \in C : \E k \in Clients : ph[c][k] = "none",
         Connect(C, st, ph), TypeOK, st \in [Conns -> States]
  PROVE  /\ attempt' \in [Conns -> {0} \cup Clients] /\ phase' \in [Conns -> [Clients -> Phases]]
         /\ state' \in [Conns -> States] /\ late' \subseteq Conns
         /\ Brings(C, st, ph)
<1>1. \A c \in C : Fresh(c, ph) \in Clients /\ ph[c][Fresh(c, ph)] = "none"
  BY FreshIsFree
<1>2. attempt' \in [Conns -> {0} \cup Clients] /\ \A c \in C : attempt'[c] = Fresh(c, ph)
  BY <1>1 DEF Connect, TypeOK
<1>3. phase' \in [Conns -> [Clients -> Phases]]
  BY <1>1 DEF Connect, Phases
<1>4. state' \in [Conns -> States]
  BY DEF Connect, States
<1>5. late' \subseteq Conns
  BY DEF Connect, TypeOK
<1>6. \A c \in Conns \ C : attempt'[c] = attempt[c] /\ phase'[c] = ph[c] /\ state'[c] = st[c]
  BY DEF Connect
<1>7. ASSUME NEW c \in C
      PROVE  \A k \in Clients : phase'[c][k] = IF k = attempt'[c] THEN "connecting" ELSE ph[c][k]
  BY <1>1, <1>2 DEF Connect
<1>8. QED
  BY <1>1, <1>2, <1>3, <1>4, <1>5, <1>6, <1>7 DEF Connect, Brings

\* Connecting keeps the books of clients and attempts, where only connections without either
\* are connected.
LEMMA ConnectKeepsBooks ==
  ASSUME IInv, NEW C \in SUBSET Conns, NEW st \in [Conns -> States],
         Connect(C, st, phase), client' = client, blocked \subseteq blocked',
         \A c \in C : client[c] = 0 /\ attempt[c] = 0 /\ \E k \in Clients : phase[c][k] = "none",
         \A c \in Conns : client[c] # 0 => st[c] = state[c] \/ c \in blocked'
  PROVE  /\ attempt' \in [Conns -> {0} \cup Clients] /\ phase' \in [Conns -> [Clients -> Phases]]
         /\ state' \in [Conns -> States] /\ late' \subseteq Conns
         /\ ClientsMatch' /\ OneClient'
         /\ \A c \in Conns, k \in Clients : phase[c][k] # "none" => phase'[c][k] = phase[c][k]
         /\ \A c \in Conns \ C : phase'[c] = phase[c]
<1>1. TypeOK /\ phase \in [Conns -> [Clients -> Phases]] /\ \A c \in C : \E k \in Clients : phase[c][k] = "none"
  BY DEF IInv, TypeOK, Phases
<1>2. /\ attempt' \in [Conns -> {0} \cup Clients] /\ phase' \in [Conns -> [Clients -> Phases]]
      /\ state' \in [Conns -> States] /\ late' \subseteq Conns
      /\ Brings(C, st, phase)
  <2>1. PICK ph : ph = phase
    OBVIOUS
  <2>2. Connect(C, st, ph)
    BY <2>1 DEF Connect
  <2>3. ph \in [Conns -> [Clients -> Phases]] /\ \A c \in C : \E k \in Clients : ph[c][k] = "none"
    BY <1>1, <2>1
  <2>4. /\ attempt' \in [Conns -> {0} \cup Clients] /\ phase' \in [Conns -> [Clients -> Phases]]
        /\ state' \in [Conns -> States] /\ late' \subseteq Conns
        /\ Brings(C, st, ph)
    BY <1>1, <2>2, <2>3, WhatConnects
  <2>5. QED
    BY <2>1, <2>4 DEF Brings
<1>3. ClientsMatch'
  BY <1>1, <1>2 DEF ClientsMatch, IInv, Brings
<1>4. OneClient'
  BY <1>1, <1>2 DEF OneClient, IInv, TypeOK, Brings
<1>5. \A c \in Conns \ C : phase'[c] = phase[c]
  BY <1>2 DEF Brings
<1>6. \A c \in Conns, k \in Clients : phase[c][k] # "none" => phase'[c][k] = phase[c][k]
  BY <1>2 DEF Brings
<1>7. QED
  BY <1>2, <1>3, <1>4, <1>5, <1>6

\* And what LeftOnlyByLateConnect says, while the session stays.
LEMMA ConnectIsLate ==
  ASSUME IInv, NEW C \in SUBSET Conns, NEW st \in [Conns -> States],
         Connect(C, st, phase), UNCHANGED <<current, changing>>,
         \A c \in C : c[1] <= made /\ \E k \in Clients : phase[c][k] = "none"
  PROVE  LeftOnlyByLateConnect'
<1>1. TypeOK /\ phase \in [Conns -> [Clients -> Phases]] /\ \A c \in C : \E k \in Clients : phase[c][k] = "none"
  BY DEF IInv, TypeOK, Phases
<1>2. Brings(C, st, phase)
  <2>1. PICK ph : ph = phase
    OBVIOUS
  <2>2. Connect(C, st, ph)
    BY <2>1 DEF Connect
  <2>3. ph \in [Conns -> [Clients -> Phases]] /\ \A c \in C : \E k \in Clients : ph[c][k] = "none"
    BY <1>1, <2>1
  <2>4. Brings(C, st, ph)
    BY <1>1, <2>2, <2>3, WhatConnects
  <2>5. QED
    BY <2>1, <2>4 DEF Brings
<1>3. QED
  BY <1>1, <1>2 DEF LeftOnlyByLateConnect, IInv, Brings

\* Telling clients to close keeps the books, and no client becomes free by it.
LEMMA ClosingKeepsBooks ==
  ASSUME IInv, NEW C \in SUBSET Conns, phase' = ClosingOf(C), TakeOff(C),
         UNCHANGED <<attempt, blocked, call>>, \A c \in Conns \ C : state'[c] = state[c]
  PROVE  /\ phase' \in [Conns -> [Clients -> Phases]] /\ client' \in [Conns -> {0} \cup Clients]
         /\ ClientsMatch' /\ CallsMatch' /\ OneClient'
         /\ \A c \in Conns, k \in Clients :
              /\ phase'[c][k] = "none" <=> phase[c][k] = "none"
              /\ phase'[c][k] = phase[c][k] \/ phase'[c][k] = "closing"
         /\ \A c \in C, k \in Clients : phase'[c][k] \notin {"open", "dead"}
<1>1. phase \in [Conns -> [Clients -> Phases]] /\ client \in [Conns -> {0} \cup Clients]
  BY DEF IInv, TypeOK, Phases
<1>2. client' \in [Conns -> {0} \cup Clients]
      /\ \A c \in Conns : client'[c] = IF c \in C THEN 0 ELSE client[c]
  BY <1>1 DEF TakeOff
<1>3. phase' \in [Conns -> [Clients -> Phases]]
      /\ \A c \in Conns, k \in Clients :
           phase'[c][k] = IF c \in C /\ client[c] = k THEN "closing" ELSE phase[c][k]
  BY <1>1 DEF ClosingOf, Phases
<1>4. 0 \notin Clients
  BY DEF Clients
<1>5. ClientsMatch'
  BY <1>2, <1>3, <1>4 DEF ClientsMatch, IInv
<1>6. CallsMatch'
  BY <1>3 DEF CallsMatch, ClientsMatch, RunsOn, IInv
<1>7. OneClient'
  BY <1>2 DEF OneClient, IInv
<1>8. \A c \in Conns, k \in Clients : client[c] = k => phase[c][k] \in {"open", "dead"}
  BY DEF ClientsMatch, IInv
<1>9. \A c \in C, k \in Clients : phase[c][k] \in {"open", "dead"} => client[c] = k
  BY DEF ClientsMatch, IInv
<1>10. QED
  BY <1>2, <1>3, <1>5, <1>6, <1>7, <1>8, <1>9

\* While neither sessions nor timer change, the timer sweeps whom it did.
LEMMA IndexKeepsSweeps ==
  ASSUME IInv, UNCHANGED <<current, changing, question, sweeper, tardy>>
  PROVE  Sweeps'
BY DEF IInv, Sweeps, SweepsTheCurrent

\* And the calls that run.
LEMMA CallsKeepCounts ==
  ASSUME IInv, UNCHANGED <<call, inFlight>>
  PROVE  Counts'
BY DEF IInv, Counts, RunningOn

--------------------------------------------------------------------------------
\* Each step keeps the invariant

\* A step that brings no client leaves what is said of clients that are not there.
LEMMA NoNewClients ==
  ASSUME IInv, current' <= made', changing' = changing, made' = made, question' \subseteq question,
         blocked' = blocked,
         asked \subseteq asked',
         \A d \in Conns, j \in Clients : phase[d][j] = "none" => phase'[d][j] = "none"
  PROVE  Known' /\ RoomToAsk' /\ ProjectServersAwaitTheAnswer'
<1>1. Known'
  BY DEF Known, IInv
<1>2. RoomToAsk'
  BY DEF RoomToAsk, IInv, TypeOK, Conns
<1>3. ProjectServersAwaitTheAnswer'
  BY McpAssumption DEF ProjectServersAwaitTheAnswer, IInv, TypeOK, Conns
<1>4. QED BY <1>1, <1>2, <1>3

\* connectServer fails.
LEMMA AttemptFailsKeeps ==
  ASSUME IInv, NEW c \in Conns, NEW k \in Clients, AttemptFails(c, k)
  PROVE  IInv'
<1>1. PICK ph \in {"none", "closing"} : phase' = [phase EXCEPT ![c][k] = ph]
  BY DEF AttemptFails
<1>2. TypeOK /\ phase[c][k] = "connecting" /\ attempt[c] = k /\ client[c] = 0
  BY DEF AttemptFails, IInv, ClientsMatch, OneClient, TypeOK, Clients
<1>3. /\ phase' \in [Conns -> [Clients -> Phases]]
      /\ \A d \in Conns, j \in Clients : phase'[d][j] = IF d = c /\ j = k THEN ph ELSE phase[d][j]
  BY <1>1, <1>2 DEF TypeOK, Phases
<1>4. call' \in [Calls -> CallRecords]
      /\ \A i \in Calls : call'[i] = IF WaitsFor(i, c, k) THEN NoCall ELSE call[i]
  BY <1>2 DEF AttemptFails, Reject, TypeOK, CallRecords
<1>5. TypeOK'
  BY <1>2, <1>3, <1>4 DEF AttemptFails, TypeOK, Phases, indexVars, historyVars
<1>6. Counts'
  <2>1. \A d \in Conns : RunningOn(d)' = RunningOn(d)
    BY <1>4 DEF RunningOn, WaitsFor, NoCall
  <2>2. QED
    BY <2>1 DEF AttemptFails, Counts, IInv
<1>7. ClientsMatch'
  BY <1>2, <1>3 DEF AttemptFails, ClientsMatch, IInv, TypeOK, Clients
<1>8. CallsMatch'
  BY <1>2, <1>3, <1>4 DEF CallsMatch, IInv, RunsOn, NoCall
<1>9. OneClient'
  BY <1>2 DEF AttemptFails, OneClient, IInv, TypeOK
<1>10. Known' /\ RoomToAsk' /\ ProjectServersAwaitTheAnswer'
  BY <1>2, <1>3, NoNewClients DEF AttemptFails, indexVars, historyVars, IInv, Known
<1>11. LeftOnlyByLateConnect'
  BY <1>3 DEF AttemptFails, LeftOnlyByLateConnect, IInv, indexVars, historyVars
<1>12. Sweeps'
  BY IndexKeepsSweeps DEF AttemptFails, indexVars, historyVars
<1>13. QED
  BY <1>5, <1>6, <1>7, <1>8, <1>9, <1>10, <1>11, <1>12 DEF IInv


\* A server is connected.
LEMMA ConnectedKeeps ==
  ASSUME IInv, NEW c \in Conns, NEW k \in Clients, Connected(c, k)
  PROVE  IInv'
<1> DEFINE W == {i \in Calls : WaitsFor(i, c, k)}
<1>1. TypeOK /\ phase[c][k] = "connecting" /\ attempt[c] = k /\ client[c] = 0
  BY DEF Connected, IInv, ClientsMatch, OneClient, TypeOK, Clients
<1>2. /\ phase' \in [Conns -> [Clients -> Phases]]
      /\ \A d \in Conns, j \in Clients : phase'[d][j] = IF d = c /\ j = k THEN "open" ELSE phase[d][j]
  BY <1>1 DEF Connected, TypeOK, Phases
<1>3. call' \in [Calls -> CallRecords]
      /\ \A i \in Calls :
           call'[i] = IF i \in W THEN [st |-> "running", conn |-> c, client |-> k] ELSE call[i]
  <2>1. \A i \in Calls : call'[i] = IF i \in W THEN [st |-> "running", conn |-> c, client |-> k] ELSE call[i]
    BY DEF Connected, WaitsFor
  <2>2. [st |-> "running", conn |-> c, client |-> k] \in CallRecords
    BY DEF CallRecords
  <2>3. QED
    BY <1>1, <2>1, <2>2 DEF Connected, TypeOK
<1>4. Counts' /\ inFlight' \in [Conns -> 0..Cardinality(Calls)]
  <2>1. \A d \in Conns : RunningOn(d)' = IF d = c THEN RunningOn(d) \cup W ELSE RunningOn(d)
    BY <1>3 DEF RunningOn, WaitsFor
  <2>2. RunningOn(c) \cap W = {}
    BY DEF RunningOn, WaitsFor
  <2>3. Cardinality(RunningOn(c) \cup W) = Cardinality(RunningOn(c)) + Cardinality(W)
        /\ Cardinality(RunningOn(c) \cup W) \in 0..Cardinality(Calls)
    <3>1. RunningOn(c) \in SUBSET Calls /\ W \in SUBSET Calls /\ (RunningOn(c) \cup W) \in SUBSET Calls
      BY DEF RunningOn
    <3>2. PICK I : I = RunningOn(c)
      OBVIOUS
    <3>3. PICK J : J = W
      OBVIOUS
    <3>4. Cardinality(I \cup J) = Cardinality(I) + Cardinality(J) /\ Cardinality(I \cup J) \in 0..Cardinality(Calls)
      BY <2>2, <3>1, <3>2, <3>3, CallsAddUp, CallsAreFew
    <3>5. QED BY <3>2, <3>3, <3>4
  <2>4. inFlight' = [inFlight EXCEPT ![c] = @ + Cardinality(W)]
    BY DEF Connected, AddInFlight
  <2> HIDE DEF W
  <2>5. QED
    BY <1>1, <2>1, <2>3, <2>4 DEF Counts, IInv, TypeOK
<1>5. TypeOK'
  BY <1>1, <1>2, <1>3, <1>4 DEF Connected, TypeOK, Phases, indexVars, historyVars
<1>6. ClientsMatch'
  BY <1>1, <1>2 DEF Connected, ClientsMatch, IInv, TypeOK, Clients
<1>7. CallsMatch'
  BY <1>1, <1>2, <1>3 DEF CallsMatch, IInv, RunsOn
<1>8. OneClient'
  BY <1>1 DEF Connected, OneClient, IInv, TypeOK
<1>9. Known' /\ RoomToAsk' /\ ProjectServersAwaitTheAnswer'
  BY <1>1, <1>2, NoNewClients DEF Connected, indexVars, historyVars, IInv, Known
<1>10. LeftOnlyByLateConnect'
  BY <1>1, <1>2 DEF Connected, LeftOnlyByLateConnect, IInv, indexVars, historyVars
<1>11. Sweeps'
  BY IndexKeepsSweeps DEF Connected, indexVars, historyVars
<1>12. QED
  BY <1>4, <1>5, <1>6, <1>7, <1>8, <1>9, <1>10, <1>11 DEF IInv

\* A call has its answer.
LEMMA CallEndsKeeps ==
  ASSUME IInv, NEW i \in Calls, CallEnds(i)
  PROVE  IInv'
<1> DEFINE c == call[i].conn
<1>1. TypeOK /\ call[i].st = "running" /\ c \in Conns /\ call[i] \in CallRecords
  BY DEF CallEnds, IInv, TypeOK, CallRecords, NoCall
<1>2. call' \in [Calls -> CallRecords] /\ \A j \in Calls : call'[j] = IF j = i THEN NoCall ELSE call[j]
  BY <1>1 DEF CallEnds, TypeOK, CallRecords
<1>3. Counts' /\ inFlight' \in [Conns -> 0..Cardinality(Calls)]
  <2>1. PICK I : I = RunningOn(c)
    OBVIOUS
  <2>2. I \in SUBSET Calls /\ i \in I
    BY <1>1, <2>1 DEF RunningOn
  <2>3. \A d \in Conns : RunningOn(d)' = IF d = c THEN I \ {i} ELSE RunningOn(d)
    BY <1>1, <1>2, <2>1 DEF RunningOn, NoCall
  <2>4. IsFiniteSet(I) /\ (I \ {i}) \in SUBSET Calls
    BY <2>2, CallsAreFew
  <2>5. Cardinality(I \ {i}) = Cardinality(I) - 1 /\ Cardinality(I \ {i}) \in 0..Cardinality(Calls)
    BY <2>2, <2>4, FS_RemoveElement, CallsAreFew
  <2>6. inFlight' = [inFlight EXCEPT ![c] = @ - 1] /\ inFlight[c] = Cardinality(I)
    BY <1>1, <2>1 DEF CallEnds, Counts, IInv
  <2> HIDE DEF c
  <2>7. QED
    BY <1>1, <2>3, <2>5, <2>6 DEF Counts, IInv, TypeOK
<1>4. TypeOK'
  BY <1>1, <1>2, <1>3 DEF CallEnds, TypeOK, Phases, indexVars, historyVars, connVars
<1>5. ClientsMatch' /\ OneClient'
  BY DEF CallEnds, ClientsMatch, OneClient, IInv, connVars
<1>6. CallsMatch'
  BY <1>2 DEF CallEnds, CallsMatch, IInv, RunsOn, NoCall
<1>7. Known' /\ RoomToAsk' /\ ProjectServersAwaitTheAnswer'
  BY NoNewClients DEF CallEnds, indexVars, connVars, historyVars, IInv, Known
<1>8. LeftOnlyByLateConnect'
  BY DEF CallEnds, LeftOnlyByLateConnect, IInv, indexVars, historyVars
<1>9. Sweeps'
  BY IndexKeepsSweeps DEF CallEnds, indexVars, historyVars
<1>10. QED
  BY <1>3, <1>4, <1>5, <1>6, <1>7, <1>8, <1>9 DEF IInv


\* The calls on a client fail.
LEMMA CutKeepsCounts ==
  ASSUME IInv, NEW c \in Conns, NEW k \in Clients, Cut(c, k)
  PROVE  /\ Counts' /\ inFlight' \in [Conns -> 0..Cardinality(Calls)] /\ call' \in [Calls -> CallRecords]
         /\ \A i \in Calls : call'[i] = IF RunsOn(i, c, k) THEN NoCall ELSE call[i]
<1>1. PICK I : I = {i \in Calls : RunsOn(i, c, k)}
  OBVIOUS
<1>2. PICK J : J = RunningOn(c) \ I
  OBVIOUS
<1>3. TypeOK /\ I \in SUBSET Calls /\ J \in SUBSET Calls /\ I \cap J = {} /\ RunningOn(c) = I \cup J
  BY <1>1, <1>2 DEF RunningOn, RunsOn, IInv
<1>4. call' \in [Calls -> CallRecords] /\ \A i \in Calls : call'[i] = IF i \in I THEN NoCall ELSE call[i]
  BY <1>1, <1>3 DEF Cut, TypeOK, CallRecords
<1>5. \A d \in Conns : RunningOn(d)' = IF d = c THEN J ELSE RunningOn(d)
  BY <1>1, <1>2, <1>4 DEF RunningOn, RunsOn, NoCall
<1>6. Cardinality(I \cup J) = Cardinality(I) + Cardinality(J) /\ Cardinality(J) \in 0..Cardinality(Calls)
      /\ Cardinality(I) \in Nat
  BY <1>3, CallsAddUp, CallsAreFew
<1>7. inFlight' = [inFlight EXCEPT ![c] = @ - Cardinality(I)] /\ inFlight[c] = Cardinality(I \cup J)
  BY <1>1, <1>3 DEF Cut, Counts, IInv
<1>8. Counts' /\ inFlight' \in [Conns -> 0..Cardinality(Calls)]
  BY <1>3, <1>5, <1>6, <1>7 DEF Counts, IInv, TypeOK
<1>9. QED
  BY <1>1, <1>4, <1>8

\* A server dies.
LEMMA ServerDiesKeeps ==
  ASSUME IInv, NEW c \in Conns, NEW k \in Clients, ServerDies(c, k)
  PROVE  IInv'
<1>1. TypeOK /\ phase[c][k] = "open"
  BY DEF ServerDies, IInv
<1>2. /\ phase' \in [Conns -> [Clients -> Phases]]
      /\ \A d \in Conns, j \in Clients : phase'[d][j] = IF d = c /\ j = k THEN "dead" ELSE phase[d][j]
  BY <1>1 DEF ServerDies, TypeOK, Phases
<1>3. /\ Counts' /\ inFlight' \in [Conns -> 0..Cardinality(Calls)] /\ call' \in [Calls -> CallRecords]
      /\ \A i \in Calls : call'[i] = IF RunsOn(i, c, k) THEN NoCall ELSE call[i]
  BY CutKeepsCounts DEF ServerDies
<1>4. TypeOK'
  BY <1>1, <1>2, <1>3 DEF ServerDies, TypeOK, Phases, indexVars, connVars, historyVars
<1>5. ClientsMatch' /\ OneClient'
  BY <1>1, <1>2 DEF ServerDies, ClientsMatch, OneClient, IInv, connVars
<1>6. CallsMatch'
  BY <1>2, <1>3 DEF CallsMatch, IInv, RunsOn, NoCall
<1>7. Known' /\ RoomToAsk' /\ ProjectServersAwaitTheAnswer'
  BY <1>1, <1>2, NoNewClients DEF ServerDies, indexVars, connVars, historyVars, IInv, Known
<1>8. LeftOnlyByLateConnect'
  BY <1>1, <1>2 DEF ServerDies, LeftOnlyByLateConnect, IInv, indexVars, historyVars
<1>9. Sweeps'
  BY IndexKeepsSweeps DEF ServerDies, indexVars, historyVars
<1>10. QED
  BY <1>3, <1>4, <1>5, <1>6, <1>7, <1>8, <1>9 DEF IInv

\* What Stop, Sweep and the reconnection of a connected server have in common: one client is told
\* to close.
LEMMA OneClosesKeeps ==
  ASSUME IInv, NEW c \in Conns, phase' = ClosingOf({c}), TakeOff({c}),
         \E st \in States : state' = [state EXCEPT ![c] = st],
         UNCHANGED <<indexVars, attempt, blocked, inFlight, call, late, tardy>>,
         asked \subseteq asked', asked' \subseteq Conns,
         awaited' \subseteq Conns \X Clients \X {"change", "reconnect"}
  PROVE  IInv'
<1>1. TypeOK /\ {c} \in SUBSET Conns
  BY DEF IInv
<1>2. PICK st \in States : state' = [state EXCEPT ![c] = st]
  OBVIOUS
<1>3. state' \in [Conns -> States] /\ \A d \in Conns \ {c} : state'[d] = state[d]
  BY <1>1, <1>2 DEF TypeOK, States
<1>4. /\ phase' \in [Conns -> [Clients -> Phases]] /\ client' \in [Conns -> {0} \cup Clients]
      /\ ClientsMatch' /\ CallsMatch' /\ OneClient'
      /\ \A d \in Conns, k \in Clients :
           /\ phase'[d][k] = "none" <=> phase[d][k] = "none"
           /\ phase'[d][k] = phase[d][k] \/ phase'[d][k] = "closing"
  BY <1>1, <1>3, ClosingKeepsBooks
<1>5. TypeOK'
  BY <1>1, <1>3, <1>4 DEF TypeOK, Phases, States, indexVars
<1>6. Counts'
  BY CallsKeepCounts
<1>7. Known' /\ RoomToAsk' /\ ProjectServersAwaitTheAnswer'
  BY <1>4, NoNewClients DEF indexVars, IInv, Known
<1>8. LeftOnlyByLateConnect'
  BY <1>4 DEF LeftOnlyByLateConnect, IInv, indexVars
<1>9. Sweeps'
  BY IndexKeepsSweeps DEF indexVars
<1>10. QED
  BY <1>4, <1>5, <1>6, <1>7, <1>8, <1>9 DEF IInv

\* The connections of the session there is are among those that can be.
LEMMA CurrentConns ==
  ASSUME TypeOK, current # 0, NEW v \in Servers
  PROVE  <<current, v>> \in Conns
BY DEF TypeOK, Conns, Sessions

\* /mcp stop.
LEMMA StopKeeps ==
  ASSUME IInv, NEW v \in Servers, Stop(v)
  PROVE  IInv'
<1>1. PICK c : c = <<current, v>>
  OBVIOUS
<1>2. c \in Conns
  BY <1>1, CurrentConns DEF Stop, IInv
<1>3. phase' = ClosingOf({c}) /\ TakeOff({c}) /\ state' = Disconnected({c})
  BY <1>1 DEF Stop
<1>4. state' = [state EXCEPT ![c] = "disconnected"]
  BY <1>2, <1>3 DEF Disconnected, IInv, TypeOK
<1>5. QED
  BY <1>2, <1>3, <1>4, OneClosesKeeps DEF Stop, IInv, TypeOK, States, historyVars

\* The idle sweep.
LEMMA SweepKeeps ==
  ASSUME IInv, NEW c \in Conns, Sweep(c)
  PROVE  IInv'
BY OneClosesKeeps DEF Sweep, IInv, TypeOK, States, historyVars


\* What CallTool, Start and the reconnection of a server that is not connected have in common: one
\* connection is made where there is room for its client, and its use is noted.
LEMMA OneConnectsKeeps ==
  ASSUME IInv, NEW c \in Conns, NEW st \in [Conns -> States], Connect({c}, st, phase),
         client[c] = 0, attempt[c] = 0, HasRoom, c \notin blocked, c[1] <= made,
         \A d \in Conns : client[d] # 0 => st[d] = state[d],
         Counts', inFlight' \in [Conns -> 0..Cardinality(Calls)], call' \in [Calls -> CallRecords],
         \A i \in Calls, d \in Conns, k \in Clients : RunsOn(i, d, k)' => RunsOn(i, d, k),
         Notes(c), UNCHANGED <<indexVars, client, blocked, awaited>>
  PROVE  IInv'
<1>1. PICK j, k \in Clients : j # k /\ phase[c][j] = "none" /\ phase[c][k] = "none"
  BY RoomForTwo DEF IInv
<1>2. TypeOK /\ {c} \in SUBSET Conns /\ phase \in [Conns -> [Clients -> Phases]]
      /\ \A d \in {c} : client[d] = 0 /\ attempt[d] = 0 /\ \E i \in Clients : phase[d][i] = "none"
  BY <1>1 DEF IInv, TypeOK, Phases
<1>3. /\ attempt' \in [Conns -> {0} \cup Clients] /\ phase' \in [Conns -> [Clients -> Phases]]
      /\ state' \in [Conns -> States] /\ late' \subseteq Conns
      /\ ClientsMatch' /\ OneClient'
      /\ \A d \in Conns, i \in Clients : phase[d][i] # "none" => phase'[d][i] = phase[d][i]
      /\ \A d \in Conns \ {c} : phase'[d] = phase[d]
  BY <1>2, ConnectKeepsBooks
<1>4. TypeOK'
  BY <1>2, <1>3 DEF TypeOK, Phases, States, indexVars, Notes
<1>5. CallsMatch'
  BY <1>3 DEF CallsMatch, RunsOn, IInv
<1>6. Known'
  <2>1. c[1] \in Nat /\ made \in Nat
    BY <1>2 DEF TypeOK, Conns, Sessions
  <2>2. \A d \in Conns : d[1] > made => d # c
    BY <2>1
  <2>3. QED
    BY <1>3, <2>2 DEF Known, IInv, indexVars
<1>7. RoomToAsk'
  <2>1. Brings({c}, st, phase)
    <3>1. PICK ph : ph = phase
      OBVIOUS
    <3>2. Connect({c}, st, ph)
      BY <3>1 DEF Connect
    <3>3. ph \in [Conns -> [Clients -> Phases]] /\ \A d \in {c} : \E i \in Clients : ph[d][i] = "none"
      BY <1>2, <3>1
    <3>4. Brings({c}, st, ph)
      BY <1>2, <3>2, <3>3, WhatConnects
    <3>5. QED
      BY <3>1, <3>4 DEF Brings
  <2>2. phase'[c][j] = "none" \/ phase'[c][k] = "none"
    BY <1>1, <2>1 DEF Brings
  <2>3. ASSUME NEW s \in question, NEW v \in Servers
        PROVE  \E i \in Clients : phase'[<<s, v>>][i] = "none"
    <3>1. <<s, v>> \in Conns
      BY <1>2 DEF TypeOK, Conns
    <3>2. PICK i \in Clients : phase[<<s, v>>][i] = "none"
      BY DEF RoomToAsk, IInv
    <3>3. CASE <<s, v>> = c
      BY <2>2, <3>3
    <3>4. CASE <<s, v>> # c
      BY <1>3, <3>1, <3>2, <3>4
    <3>5. QED BY <3>3, <3>4
  <2>4. QED
    BY <2>3 DEF RoomToAsk, indexVars
<1>8. ProjectServersAwaitTheAnswer'
  BY <1>2, <1>3, McpAssumption DEF ProjectServersAwaitTheAnswer, IInv, indexVars, Notes, TypeOK,
     Conns
<1>9. LeftOnlyByLateConnect'
  BY <1>2, ConnectIsLate DEF indexVars
<1>10. Sweeps'
  BY IndexKeepsSweeps DEF indexVars, Notes
<1>11. QED
  BY <1>3, <1>4, <1>5, <1>6, <1>7, <1>8, <1>9, <1>10 DEF IInv

\* A connection that needs an attempt has no client, unless it is blocked.
LEMMA NeedsHasNone ==
  ASSUME IInv, NEW c \in Conns, c \notin blocked, ~Online(c)
  PROVE  client[c] = 0
BY DEF IInv, OneClient, Online

\* /mcp start.
LEMMA StartKeeps ==
  ASSUME IInv, NEW v \in Servers, Start(v)
  PROVE  IInv'
<1>1. PICK c : c = <<current, v>>
  OBVIOUS
<1>2. c \in Conns /\ c[1] <= made
  BY <1>1, CurrentConns DEF Start, IInv, Known
<1>3. PICK st : st = state
  OBVIOUS
<1>4. /\ c \notin blocked /\ Needs(c) /\ HasRoom /\ Connect({c}, st, phase) /\ Notes(c)
      /\ UNCHANGED <<indexVars, client, blocked, inFlight, awaited, call>>
  BY <1>1, <1>3 DEF Start, Connect, Notes
<1>5. st \in [Conns -> States] /\ client[c] = 0 /\ attempt[c] = 0
  BY <1>2, <1>3, <1>4, NeedsHasNone DEF Needs, IInv, TypeOK, States
<1>6. Counts' /\ inFlight' \in [Conns -> 0..Cardinality(Calls)] /\ call' \in [Calls -> CallRecords]
  BY <1>4, CallsKeepCounts DEF IInv, TypeOK
<1>7. \A i \in Calls, d \in Conns, k \in Clients : RunsOn(i, d, k)' => RunsOn(i, d, k)
  BY <1>4 DEF RunsOn
<1>8. QED
  BY <1>2, <1>3, <1>4, <1>5, <1>6, <1>7, OneConnectsKeeps


\* A call that joins a connection or an attempt.
LEMMA CallJoinsKeeps ==
  ASSUME IInv, NEW i \in Calls, NEW c \in Conns, call[i] = NoCall, Notes(c),
         UNCHANGED <<indexVars, connVars, phase, awaited, late>>,
         Counts', inFlight' \in [Conns -> 0..Cardinality(Calls)], call' \in [Calls -> CallRecords],
         CallsMatch'
  PROVE  IInv'
<1>1. TypeOK'
  BY DEF TypeOK, IInv, Notes, indexVars, connVars
<1>2. ClientsMatch' /\ OneClient'
  BY DEF ClientsMatch, OneClient, IInv, connVars
<1>3. Known' /\ RoomToAsk' /\ ProjectServersAwaitTheAnswer'
  BY NoNewClients DEF indexVars, connVars, IInv, Known, Notes
<1>4. LeftOnlyByLateConnect'
  BY DEF LeftOnlyByLateConnect, IInv, indexVars
<1>5. Sweeps'
  BY IndexKeepsSweeps DEF indexVars, Notes
<1>6. QED
  BY <1>1, <1>2, <1>3, <1>4, <1>5 DEF IInv

\* A tool is called.
LEMMA CallToolKeeps ==
  ASSUME IInv, NEW i \in Calls, NEW v \in Servers, CallTool(i, v)
  PROVE  IInv'
<1>1. PICK c : c = <<current, v>>
  OBVIOUS
<1>2. TypeOK /\ c \in Conns /\ c[1] <= made
  BY <1>1, CurrentConns DEF CallTool, IInv, Known
<1>3. call[i] = NoCall /\ c \notin blocked /\ Notes(c) /\ UNCHANGED <<indexVars, client, blocked, awaited>>
  BY <1>1 DEF CallTool, Notes
<1>4. CASE /\ Online(c) /\ phase[c][client[c]] = "open"
           /\ call' = [call EXCEPT ![i] = [st |-> "running", conn |-> c, client |-> client[c]]]
           /\ inFlight' = [inFlight EXCEPT ![c] = @ + 1]
           /\ UNCHANGED <<state, attempt, phase, late>>
  <2>1. PICK k \in Clients : k = client[c]
    BY <1>2, <1>4 DEF Online, TypeOK
  <2>2. [st |-> "running", conn |-> c, client |-> k] \in CallRecords
    BY <1>2 DEF CallRecords
  <2>3. /\ call' \in [Calls -> CallRecords]
        /\ \A j \in Calls : call'[j] = IF j = i THEN [st |-> "running", conn |-> c, client |-> k] ELSE call[j]
    BY <1>2, <1>4, <2>1, <2>2 DEF TypeOK
  <2>4. CallsMatch'
    BY <1>4, <2>1, <2>3 DEF CallsMatch, RunsOn, IInv
  <2>5. PICK I : I = RunningOn(c)
    OBVIOUS
  <2>6. I \in SUBSET Calls /\ i \notin I /\ IsFiniteSet(I) /\ (I \cup {i}) \in SUBSET Calls
    BY <1>3, <2>5, CallsAreFew DEF RunningOn, NoCall
  <2>7. Cardinality(I \cup {i}) = Cardinality(I) + 1 /\ Cardinality(I \cup {i}) \in 0..Cardinality(Calls)
    BY <2>6, FS_AddElement, CallsAreFew
  <2>8. \A d \in Conns : RunningOn(d)' = IF d = c THEN I \cup {i} ELSE RunningOn(d)
    BY <1>3, <2>3, <2>5 DEF RunningOn, NoCall
  <2>9. Counts' /\ inFlight' \in [Conns -> 0..Cardinality(Calls)]
    BY <1>2, <1>4, <2>5, <2>7, <2>8 DEF Counts, IInv, TypeOK
  <2>10. QED
    BY <1>2, <1>3, <1>4, <2>3, <2>4, <2>9, CallJoinsKeeps DEF connVars
<1>5. ASSUME NEW k \in Clients,
             call' = [call EXCEPT ![i] = [st |-> "waiting", conn |-> c, client |-> k]],
             UNCHANGED inFlight
      PROVE  /\ Counts' /\ inFlight' \in [Conns -> 0..Cardinality(Calls)] /\ call' \in [Calls -> CallRecords]
             /\ \A j \in Calls, d \in Conns, m \in Clients : RunsOn(j, d, m)' => RunsOn(j, d, m)
  <2>1. [st |-> "waiting", conn |-> c, client |-> k] \in CallRecords
    BY <1>2 DEF CallRecords
  <2>2. /\ call' \in [Calls -> CallRecords]
        /\ \A j \in Calls : call'[j] = IF j = i THEN [st |-> "waiting", conn |-> c, client |-> k] ELSE call[j]
    BY <1>2, <1>5, <2>1 DEF TypeOK
  <2>3. \A d \in Conns : RunningOn(d)' = RunningOn(d)
    BY <1>3, <2>2 DEF RunningOn, NoCall
  <2>4. \A j \in Calls, d \in Conns, m \in Clients : RunsOn(j, d, m)' => RunsOn(j, d, m)
    BY <2>2 DEF RunsOn
  <2>5. QED
    BY <1>2, <1>5, <2>2, <2>3, <2>4 DEF Counts, IInv, TypeOK
<1>6. CASE /\ ~Online(c) /\ ~Needs(c)
           /\ call' = [call EXCEPT ![i] = [st |-> "waiting", conn |-> c, client |-> attempt[c]]]
           /\ UNCHANGED <<state, attempt, phase, late, inFlight>>
  <2>1. PICK k \in Clients : k = attempt[c]
    BY <1>2, <1>6 DEF Needs, TypeOK
  <2>2. /\ Counts' /\ inFlight' \in [Conns -> 0..Cardinality(Calls)] /\ call' \in [Calls -> CallRecords]
        /\ \A j \in Calls, d \in Conns, m \in Clients : RunsOn(j, d, m)' => RunsOn(j, d, m)
    BY <1>5, <1>6, <2>1
  <2>3. CallsMatch'
    BY <1>6, <2>2 DEF CallsMatch, IInv
  <2>4. QED
    BY <1>2, <1>3, <1>6, <2>2, <2>3, CallJoinsKeeps DEF connVars
<1>7. CASE /\ Needs(c) /\ HasRoom /\ Connect({c}, state, phase)
           /\ call' = [call EXCEPT ![i] = [st |-> "waiting", conn |-> c, client |-> Fresh(c, phase)]]
           /\ UNCHANGED inFlight
  <2>1. PICK st : st = state
    OBVIOUS
  <2>2. /\ st \in [Conns -> States] /\ client[c] = 0 /\ attempt[c] = 0 /\ HasRoom
        /\ Connect({c}, st, phase) /\ \A d \in Conns : client[d] # 0 => st[d] = state[d]
    BY <1>2, <1>3, <1>7, <2>1, NeedsHasNone DEF Needs, IInv, TypeOK, States, Connect
  <2>3. PICK k : k = Fresh(c, phase)
    OBVIOUS
  <2>4. k \in Clients
    <3>1. PICK ph : ph = phase
      OBVIOUS
    <3>2. \E j \in Clients : ph[c][j] = "none"
      BY <1>2, <1>7, <3>1, RoomForTwo
    <3>3. Fresh(c, ph) \in Clients
      BY <3>2, FreshIsFree
    <3>4. QED
      BY <2>3, <3>1, <3>3
  <2>5. /\ Counts' /\ inFlight' \in [Conns -> 0..Cardinality(Calls)] /\ call' \in [Calls -> CallRecords]
        /\ \A j \in Calls, d \in Conns, m \in Clients : RunsOn(j, d, m)' => RunsOn(j, d, m)
    BY <1>5, <1>7, <2>3, <2>4
  <2>6. QED
    BY <1>2, <1>3, <2>1, <2>2, <2>5, OneConnectsKeeps
<1>8. QED
  BY <1>1, <1>4, <1>6, <1>7 DEF CallTool


\* A connection without client is only marked.
LEMMA MarkingKeeps ==
  ASSUME IInv, NEW c \in Conns, client[c] = 0, Connect({}, Disconnected({c}), phase), Notes(c),
         UNCHANGED <<indexVars, client, blocked, inFlight, call, awaited>>
  PROVE  IInv'
<1>1. TypeOK /\ attempt \in [Conns -> {0} \cup Clients] /\ phase \in [Conns -> [Clients -> Phases]]
  BY DEF IInv, TypeOK, Phases
<1>2. /\ attempt' \in [Conns -> {0} \cup Clients] /\ phase' \in [Conns -> [Clients -> Phases]]
      /\ state' \in [Conns -> States] /\ late' = late
      /\ \A d \in Conns : attempt'[d] = attempt[d] /\ phase'[d] = phase[d]
      /\ \A d \in Conns : client[d] # 0 => state'[d] = state[d]
  BY <1>1 DEF Connect, Disconnected, TypeOK, States
<1>3. TypeOK'
  BY <1>1, <1>2 DEF TypeOK, Phases, States, indexVars, Notes
<1>4. Counts'
  BY CallsKeepCounts
<1>5. ClientsMatch' /\ CallsMatch' /\ OneClient'
  BY <1>2 DEF ClientsMatch, CallsMatch, OneClient, IInv, RunsOn
<1>6. Known' /\ RoomToAsk' /\ ProjectServersAwaitTheAnswer'
  BY <1>2, NoNewClients DEF indexVars, IInv, Known, Notes
<1>7. LeftOnlyByLateConnect'
  BY <1>2 DEF LeftOnlyByLateConnect, IInv, indexVars
<1>8. Sweeps'
  BY IndexKeepsSweeps DEF indexVars, Notes
<1>9. QED
  BY <1>3, <1>4, <1>5, <1>6, <1>7, <1>8 DEF IInv

\* /mcp reconnect.
LEMMA ReconnectKeeps ==
  ASSUME IInv, NEW v \in Servers, Reconnect(v)
  PROVE  IInv'
<1>1. PICK c : c = <<current, v>>
  OBVIOUS
<1>2. TypeOK /\ c \in Conns /\ c[1] <= made
  BY <1>1, CurrentConns DEF Reconnect, IInv, Known
<1>3. TakeOff({c}) /\ Notes(c) /\ UNCHANGED <<indexVars, blocked, inFlight, call>>
  BY <1>1 DEF Reconnect, Notes
<1>4. CASE client[c] # 0
  <2>1. /\ phase' = ClosingOf({c}) /\ state' = Disconnected({c}) /\ UNCHANGED <<attempt, late>>
        /\ awaited' = awaited \cup {<<c, client[c], "reconnect">>}
    BY <1>1, <1>4 DEF Reconnect
  <2>2. state' = [state EXCEPT ![c] = "disconnected"]
    BY <1>2, <2>1 DEF Disconnected, TypeOK
  <2>3. awaited' \subseteq Conns \X Clients \X {"change", "reconnect"}
    BY <1>2, <1>4, <2>1 DEF TypeOK
  <2>4. QED
    BY <1>2, <1>3, <2>1, <2>2, <2>3, OneClosesKeeps DEF Notes, TypeOK, States
<1>5. CASE client[c] = 0
  <2>1. /\ \/ HasRoom /\ Connect({c} \ blocked, Disconnected({c}), phase) /\ attempt[c] = 0
           \/ Connect({}, Disconnected({c}), phase)
        /\ UNCHANGED awaited
    BY <1>1, <1>5 DEF Reconnect
  <2>2. client' = client
    BY <1>2, <1>3, <1>5 DEF TakeOff, TypeOK
  <2>3. CASE Connect({}, Disconnected({c}), phase)
    BY <1>2, <1>3, <1>5, <2>1, <2>2, <2>3, MarkingKeeps
  <2>4. CASE HasRoom /\ Connect({c} \ blocked, Disconnected({c}), phase) /\ attempt[c] = 0
    <3>1. CASE c \in blocked
      <4>1. {c} \ blocked = {}
        BY <3>1
      <4>2. Connect({}, Disconnected({c}), phase)
        BY <2>4, <4>1
      <4>3. QED BY <4>2, <2>3
    <3>2. CASE c \notin blocked
      <4>1. {c} \ blocked = {c}
        BY <3>2
      <4>2. PICK st : st = Disconnected({c})
        OBVIOUS
      <4>3. Connect({c}, st, phase)
        BY <2>4, <4>1, <4>2 DEF Connect
      <4>4. st \in [Conns -> States] /\ \A d \in Conns : client[d] # 0 => st[d] = state[d]
        BY <1>2, <1>5, <4>2 DEF Disconnected, TypeOK, States
      <4>5. Counts' /\ inFlight' \in [Conns -> 0..Cardinality(Calls)] /\ call' \in [Calls -> CallRecords]
            /\ \A i \in Calls, d \in Conns, k \in Clients : RunsOn(i, d, k)' => RunsOn(i, d, k)
        BY <1>2, <1>3, CallsKeepCounts DEF TypeOK, RunsOn
      <4>6. QED
        BY <1>2, <1>3, <1>5, <2>1, <2>2, <2>4, <3>2, <4>3, <4>4, <4>5, OneConnectsKeeps
    <3>3. QED BY <3>1, <3>2
  <2>5. QED BY <2>1, <2>3, <2>4
<1>6. QED BY <1>4, <1>5

\* A client is closed, and a reconnection that awaited it goes on.
LEMMA ClosedKeeps ==
  ASSUME IInv, NEW c \in Conns, NEW k \in Clients, Closed(c, k)
  PROVE  IInv'
<1>1. PICK ph : ph = [phase EXCEPT ![c][k] = "none"]
  OBVIOUS
<1>2. /\ TypeOK /\ phase[c][k] = "closing" /\ client[c] # k /\ attempt[c] # k
      /\ ph \in [Conns -> [Clients -> Phases]]
      /\ \A d \in Conns, j \in Clients : ph[d][j] = IF d = c /\ j = k THEN "none" ELSE phase[d][j]
  BY <1>1 DEF Closed, IInv, ClientsMatch, TypeOK, Phases
<1>3. c[1] <= made
  <2>1. c[1] \in Nat /\ made \in Nat
    BY <1>2 DEF TypeOK, Conns, Sessions
  <2>2. QED
    BY <1>2, <2>1 DEF IInv, Known
<1>4. /\ Counts' /\ inFlight' \in [Conns -> 0..Cardinality(Calls)] /\ call' \in [Calls -> CallRecords]
      /\ \A i \in Calls : call'[i] = IF RunsOn(i, c, k) THEN NoCall ELSE call[i]
  BY CutKeepsCounts DEF Closed
<1>5. awaited' \subseteq Conns \X Clients \X {"change", "reconnect"}
  BY <1>2 DEF Closed, TypeOK
<1>6. UNCHANGED <<indexVars, client, blocked, asked, tardy>>
  BY DEF Closed
<1>7. Sweeps'
  BY <1>6, IndexKeepsSweeps DEF indexVars
<1>8. CASE phase' = ph /\ UNCHANGED <<state, attempt, late>>
  <2>1. TypeOK'
    BY <1>2, <1>4, <1>5, <1>6, <1>8 DEF TypeOK, Phases, indexVars
  <2>2. ClientsMatch' /\ OneClient'
    BY <1>2, <1>6, <1>8 DEF ClientsMatch, OneClient, IInv
  <2>3. CallsMatch'
    BY <1>2, <1>4, <1>8 DEF CallsMatch, RunsOn, IInv, NoCall
  <2>4. Known' /\ RoomToAsk' /\ ProjectServersAwaitTheAnswer'
    BY <1>2, <1>6, <1>8, NoNewClients DEF indexVars, IInv, Known
  <2>5. LeftOnlyByLateConnect'
    BY <1>2, <1>6, <1>8 DEF LeftOnlyByLateConnect, IInv, indexVars
  <2>6. QED
    BY <1>4, <1>7, <2>1, <2>2, <2>3, <2>4, <2>5 DEF IInv
<1>9. CASE c \notin blocked /\ Needs(c) /\ Connect({c}, state, ph)
  <2>1. client[c] = 0 /\ attempt[c] = 0
    BY <1>9, NeedsHasNone DEF Needs
  <2>2. /\ attempt' \in [Conns -> {0} \cup Clients] /\ phase' \in [Conns -> [Clients -> Phases]]
        /\ state' \in [Conns -> States] /\ late' \subseteq Conns
        /\ Brings({c}, state, ph)
    <3>1. PICK st : st = state
      OBVIOUS
    <3>2. st \in [Conns -> States] /\ Connect({c}, st, ph) /\ {c} \in SUBSET Conns
          /\ \A d \in {c} : \E j \in Clients : ph[d][j] = "none"
      BY <1>2, <1>9, <3>1 DEF Connect, TypeOK, States
    <3>3. /\ attempt' \in [Conns -> {0} \cup Clients] /\ phase' \in [Conns -> [Clients -> Phases]]
          /\ state' \in [Conns -> States] /\ late' \subseteq Conns
          /\ Brings({c}, st, ph)
      BY <1>2, <3>2, WhatConnects
    <3>4. QED
      BY <3>1, <3>3 DEF Brings
  <2>3. /\ \A d \in Conns \ {c} : attempt'[d] = attempt[d] /\ state'[d] = state[d]
                                   /\ \A j \in Clients : phase'[d][j] = phase[d][j]
        /\ attempt'[c] \in Clients /\ state'[c] = "connecting"
        /\ phase[c][attempt'[c]] = "none" \/ attempt'[c] = k
        /\ \A j \in Clients : phase'[c][j] = IF j = attempt'[c] THEN "connecting"
                                             ELSE IF j = k THEN "none" ELSE phase[c][j]
    BY <1>2, <2>2 DEF Brings
  <2>4. TypeOK'
    BY <1>2, <1>4, <1>5, <1>6, <2>2 DEF TypeOK, Phases, States, indexVars
  <2>5. ClientsMatch'
    BY <1>2, <1>6, <2>1, <2>3 DEF ClientsMatch, IInv, Clients
  <2>6. OneClient'
    BY <1>6, <2>1, <2>3 DEF OneClient, IInv
  <2>7. CallsMatch'
    BY <1>2, <1>4, <2>3 DEF CallsMatch, RunsOn, IInv, NoCall
  <2>8. Known'
    <3>1. \A d \in Conns : d[1] > made => d # c
      BY <1>2, <1>3 DEF TypeOK, Conns, Sessions
    <3>2. QED
      BY <1>6, <2>3, <3>1 DEF Known, IInv, indexVars
  <2>9. RoomToAsk'
    <3>1. ASSUME NEW s \in question, NEW v \in Servers
          PROVE  \E i \in Clients : phase'[<<s, v>>][i] = "none"
      <4>1. <<s, v>> \in Conns
        BY <1>2 DEF TypeOK, Conns
      <4>2. PICK i \in Clients : phase[<<s, v>>][i] = "none"
        BY DEF RoomToAsk, IInv
      <4>3. CASE <<s, v>> = c
        BY <1>2, <2>3, <4>2, <4>3
      <4>4. CASE <<s, v>> # c
        BY <2>3, <4>1, <4>2, <4>4
      <4>5. QED BY <4>3, <4>4
    <3>2. QED
      BY <1>6, <3>1 DEF RoomToAsk, indexVars
  <2>10. ProjectServersAwaitTheAnswer'
    <3>1. ASSUME NEW d \in (question \X Project) \cup blocked, d \notin asked
          PROVE  d # c /\ d \in Conns /\ \A j \in Clients : phase[d][j] = "none"
      <4>1. d \in Conns
        BY <1>2, McpAssumption DEF TypeOK, Conns
      <4>2. \A j \in Clients : phase[d][j] = "none"
        BY <3>1 DEF ProjectServersAwaitTheAnswer, IInv
      <4>3. QED
        BY <1>2, <4>1, <4>2
    <3>2. QED
      BY <1>6, <2>3, <3>1 DEF ProjectServersAwaitTheAnswer, indexVars
  <2>11. LeftOnlyByLateConnect'
    BY <1>3, <1>6, <2>2, <2>3 DEF LeftOnlyByLateConnect, IInv, indexVars, Brings
  <2>12. QED
    BY <1>4, <1>7, <2>4, <2>5, <2>6, <2>7, <2>8, <2>9, <2>10, <2>11 DEF IInv
<1>10. QED
  BY <1>1, <1>8, <1>9 DEF Closed


\* The connections of a session.
LEMMA ConnsOfSession ==
  ASSUME NEW s \in Sessions
  PROVE  /\ ConnsOf(s) \subseteq Conns
         /\ \A c \in Conns : c \in ConnsOf(s) <=> c[1] = s
BY DEF Conns, ConnsOf

\* A session that has not been made has no client and no attempt.
LEMMA NothingBefore ==
  ASSUME IInv, NEW c \in Conns, c[1] > made
  PROVE  client[c] = 0 /\ attempt[c] = 0 /\ c \notin blocked /\ \A k \in Clients : phase[c][k] = "none"
<1>1. c \notin blocked /\ \A k \in Clients : phase[c][k] = "none"
  BY DEF IInv, Known
<1>2. client[c] \notin Clients /\ attempt[c] \notin Clients
  BY <1>1 DEF IInv, ClientsMatch
<1>3. QED
  BY <1>1, <1>2 DEF IInv, TypeOK

\* A session starts or ends: the clean-up of the one before begins.
LEMMA ChangeBeginsKeeps ==
  ASSUME IInv, NEW what \in {"start", "shutdown"}, ChangeBegins(what)
  PROVE  IInv'
<1>1. /\ TypeOK /\ changing = "no" /\ changing' = what
      /\ UNCHANGED <<current, made, question, attempt, blocked, inFlight, call, asked, tardy>>
      /\ late' = late \cup {c \in ConnsOf(current) : c \in Conns /\ attempt[c] # 0}
      /\ sweeper' = IF what = "shutdown" THEN 0 ELSE sweeper
      /\ what = "start" => made < MaxSessions
  BY DEF ChangeBegins, IInv
<1>2. late' \subseteq Conns /\ late \subseteq late'
  BY <1>1 DEF TypeOK
<1>3. Counts'
  BY <1>1, CallsKeepCounts
<1>4. Sweeps'
  BY <1>1 DEF Sweeps, SweepsTheCurrent, IInv
<1>5. CASE current = 0
  <2>1. UNCHANGED <<phase, client, state, awaited>>
    BY <1>5 DEF ChangeBegins
  <2>2. TypeOK'
    BY <1>1, <1>2, <2>1, McpAssumption DEF TypeOK
  <2>3. ClientsMatch' /\ CallsMatch' /\ OneClient'
    BY <1>1, <2>1 DEF ClientsMatch, CallsMatch, OneClient, IInv, RunsOn
  <2>4. Known' /\ RoomToAsk' /\ ProjectServersAwaitTheAnswer'
    BY <1>1, <2>1 DEF Known, RoomToAsk, ProjectServersAwaitTheAnswer, IInv
  <2>5. LeftOnlyByLateConnect'
    <3>1. \A c \in Conns : c[1] # current
      BY <1>5 DEF Conns, Sessions
    <3>2. QED
      BY <1>2, <2>1, <3>1 DEF LeftOnlyByLateConnect, IInv
  <2>6. QED
    BY <1>3, <1>4, <2>2, <2>3, <2>4, <2>5 DEF IInv
<1>6. CASE current # 0
  <2>1. PICK C : C = ConnsOf(current)
    OBVIOUS
  <2>2. C \in SUBSET Conns /\ \A c \in Conns : c \in C <=> c[1] = current
    BY <1>1, <1>6, <2>1, ConnsOfSession DEF TypeOK, Sessions
  <2>3. /\ phase' = ClosingOf(C) /\ TakeOff(C) /\ state' = Disconnected(C)
        /\ awaited' = awaited \cup {<<c, client[c], "change">> : c \in OpenOf(C)}
    BY <1>6, <2>1 DEF ChangeBegins, Cleanup
  <2>4. state' \in [Conns -> States] /\ \A c \in Conns \ C : state'[c] = state[c]
    BY <1>1, <2>3 DEF Disconnected, TypeOK, States
  <2>5. awaited' \subseteq Conns \X Clients \X {"change", "reconnect"}
    BY <1>1, <2>2, <2>3 DEF OpenOf, TypeOK
  <2>6. /\ phase' \in [Conns -> [Clients -> Phases]] /\ client' \in [Conns -> {0} \cup Clients]
        /\ ClientsMatch' /\ CallsMatch' /\ OneClient'
        /\ \A d \in Conns, k \in Clients :
             /\ phase'[d][k] = "none" <=> phase[d][k] = "none"
             /\ phase'[d][k] = phase[d][k] \/ phase'[d][k] = "closing"
        /\ \A c \in C, k \in Clients : phase'[c][k] \notin {"open", "dead"}
    BY <1>1, <2>2, <2>3, <2>4, ClosingKeepsBooks
  <2>7. TypeOK'
    BY <1>1, <1>2, <2>4, <2>5, <2>6, McpAssumption DEF TypeOK, Phases, States
  <2>8. Known'
    BY <1>1, <2>6 DEF Known, IInv
  <2>9. RoomToAsk'
    BY <1>1, <2>6 DEF RoomToAsk, IInv, TypeOK, Conns
  <2>10. ProjectServersAwaitTheAnswer'
    BY <1>1, <2>6, McpAssumption DEF ProjectServersAwaitTheAnswer, IInv, TypeOK, Conns
  <2>11. LeftOnlyByLateConnect'
    <3>1. ASSUME NEW c \in Conns \ late', NEW k \in Clients
          PROVE  phase'[c][k] \in {"none", "closing"}
      <4>1. CASE c \in C
        <5>1. attempt[c] = 0
          BY <1>1, <2>1, <3>1, <4>1
        <5>2. phase[c][k] # "connecting"
          BY <5>1 DEF ClientsMatch, IInv, Clients
        <5>3. QED
          BY <2>6, <4>1, <5>2 DEF Phases
      <4>2. CASE c \notin C
        <5>1. c[1] # current /\ c \notin late
          BY <1>2, <2>2, <4>2
        <5>2. phase[c][k] \in {"none", "closing"}
          BY <5>1 DEF LeftOnlyByLateConnect, IInv
        <5>3. QED
          BY <2>6, <5>2
      <4>3. QED BY <4>1, <4>2
    <3>2. QED
      BY <3>1 DEF LeftOnlyByLateConnect
  <2>12. QED
    BY <1>3, <1>4, <2>6, <2>7, <2>8, <2>9, <2>10, <2>11 DEF IInv
<1>7. QED BY <1>5, <1>6

\* The session that ends is gone.
LEMMA SessionShutDownKeeps ==
  ASSUME IInv, SessionShutDown
  PROVE  IInv'
<1>1. TypeOK'
  BY McpAssumption DEF SessionShutDown, TypeOK, IInv, connVars, historyVars
<1>2. Counts'
  BY CallsKeepCounts DEF SessionShutDown
<1>3. ClientsMatch' /\ CallsMatch' /\ OneClient'
  BY DEF SessionShutDown, ClientsMatch, CallsMatch, OneClient, IInv, RunsOn, connVars
<1>4. Known' /\ RoomToAsk' /\ ProjectServersAwaitTheAnswer'
  BY DEF SessionShutDown, Known, RoomToAsk, ProjectServersAwaitTheAnswer, IInv, connVars,
     historyVars, TypeOK
<1>5. LeftOnlyByLateConnect'
  BY DEF SessionShutDown, LeftOnlyByLateConnect, IInv, historyVars
<1>6. Sweeps'
  BY DEF SessionShutDown, Sweeps, SweepsTheCurrent, IInv, historyVars
<1>7. QED
  BY <1>1, <1>2, <1>3, <1>4, <1>5, <1>6 DEF IInv


\* The clean-up is done, and a new session connects its servers or asks its question.
LEMMA SessionStartsKeeps ==
  ASSUME IInv, SessionStarts
  PROVE  IInv'
<1>1. PICK s : s = made + 1
  OBVIOUS
<1>2. PICK known \in BOOLEAN : TrustThenInit(s, known)
  BY <1>1 DEF SessionStarts
<1>3. /\ TypeOK /\ changing = "start" /\ changing' = "no" /\ made' = s /\ current' = s
      /\ UNCHANGED <<client, blocked, inFlight, awaited, call, asked, tardy>>
      /\ made < MaxSessions /\ made \in Nat /\ s \in Sessions /\ s > made
  BY <1>1, McpAssumption DEF SessionStarts, IInv, Known, TypeOK, Sessions
<1>4. PICK C : C = {c \in ConnsOf(s) : Needs(c)}
  OBVIOUS
<1>5. /\ C \in SUBSET Conns /\ \A c \in C : c[1] = s
      /\ \A c \in Conns : c[1] = s => client[c] = 0 /\ attempt[c] = 0 /\ \A k \in Clients : phase[c][k] = "none"
  <2>1. C \in SUBSET Conns /\ \A c \in C : c[1] = s
    BY <1>3, <1>4, ConnsOfSession
  <2>2. \A c \in Conns : c[1] = s => client[c] = 0 /\ attempt[c] = 0 /\ \A k \in Clients : phase[c][k] = "none"
    BY <1>3, NothingBefore
  <2>3. QED BY <2>1, <2>2
<1>6. 1 \in Clients
  BY McpAssumption DEF Clients
<1>7. Counts'
  BY <1>3, CallsKeepCounts
<1>8. CASE /\ Connect(C, state, phase) /\ sweeper' = s /\ UNCHANGED question
  <2>1. PICK st : st = state
    OBVIOUS
  <2>2. /\ st \in [Conns -> States] /\ Connect(C, st, phase)
        /\ \A c \in C : client[c] = 0 /\ attempt[c] = 0 /\ \E k \in Clients : phase[c][k] = "none"
        /\ \A c \in Conns : client[c] # 0 => st[c] = state[c] \/ c \in blocked'
        /\ blocked \subseteq blocked'
    BY <1>3, <1>5, <1>6, <1>8, <2>1 DEF Connect, TypeOK, States
  <2>3. /\ attempt' \in [Conns -> {0} \cup Clients] /\ phase' \in [Conns -> [Clients -> Phases]]
        /\ state' \in [Conns -> States] /\ late' \subseteq Conns
        /\ ClientsMatch' /\ OneClient'
        /\ \A c \in Conns, k \in Clients : phase[c][k] # "none" => phase'[c][k] = phase[c][k]
        /\ \A c \in Conns \ C : phase'[c] = phase[c]
    BY <1>3, <1>5, <2>2, ConnectKeepsBooks
  <2>4. late \subseteq late'
    BY <1>8 DEF Connect
  <2>5. TypeOK'
    BY <1>3, <1>8, <2>3 DEF TypeOK, Phases, States, Sessions
  <2>6. CallsMatch'
    BY <1>3, <2>3 DEF CallsMatch, IInv, RunsOn
  <2>7. \A c \in Conns : c[1] # s => phase'[c] = phase[c]
    BY <1>5, <2>3
  <2>8. Known'
    <3>1. ASSUME NEW c \in Conns, c[1] > s
          PROVE  c \notin blocked /\ \A k \in Clients : phase'[c][k] = "none"
      <4>1. c[1] > made /\ c[1] # s
        BY <1>3, <3>1 DEF Conns, Sessions
      <4>2. QED
        BY <2>7, <4>1, NothingBefore
    <3>2. \A q \in question : q <= s
      BY <1>3 DEF IInv, Known, TypeOK, Sessions
    <3>3. QED
      BY <1>3, <1>8, <3>1, <3>2 DEF Known, Sessions
  <2>9. RoomToAsk'
    <3>1. ASSUME NEW q \in question, NEW v \in Servers
          PROVE  \E k \in Clients : phase'[<<q, v>>][k] = "none"
      <4>1. <<q, v>> \in Conns /\ q # s
        BY <1>3 DEF IInv, Known, TypeOK, Conns, Sessions
      <4>2. QED
        BY <2>7, <4>1 DEF RoomToAsk, IInv
    <3>2. QED
      BY <1>8, <3>1 DEF RoomToAsk
  <2>10. ProjectServersAwaitTheAnswer'
    <3>1. ASSUME NEW c \in (question \X Project) \cup blocked
          PROVE  phase'[c] = phase[c]
      <4>1. c \in Conns
        BY <1>3, McpAssumption DEF TypeOK, Conns
      <4>2. c[1] # s
        BY <1>3, <4>1 DEF IInv, Known, TypeOK, Sessions
      <4>3. QED
        BY <2>7, <4>1, <4>2
    <3>2. QED
      BY <1>3, <1>8, <3>1 DEF ProjectServersAwaitTheAnswer, IInv
  <2>11. LeftOnlyByLateConnect'
    BY <1>3, <2>4, <2>7 DEF LeftOnlyByLateConnect, IInv
  <2>12. Sweeps'
    BY <1>3, <1>8 DEF Sweeps, SweepsTheCurrent
  <2>13. QED
    BY <1>7, <2>3, <2>5, <2>6, <2>8, <2>9, <2>10, <2>11, <2>12 DEF IInv
<1>9. CASE question' = question \cup {s} /\ UNCHANGED <<state, attempt, phase, late, sweeper>>
  <2>1. TypeOK'
    BY <1>3, <1>9 DEF TypeOK, Sessions
  <2>2. ClientsMatch' /\ CallsMatch' /\ OneClient'
    BY <1>3, <1>9 DEF ClientsMatch, CallsMatch, OneClient, IInv, RunsOn
  <2>3. Known'
    <3>1. ASSUME NEW c \in Conns, c[1] > s
          PROVE  c \notin blocked /\ \A k \in Clients : phase[c][k] = "none"
      <4>1. c[1] > made
        BY <1>3, <3>1 DEF Conns, Sessions
      <4>2. QED
        BY <4>1, NothingBefore
    <3>2. \A q \in question : q <= s
      BY <1>3 DEF IInv, Known, TypeOK, Sessions
    <3>3. QED
      BY <1>3, <1>9, <3>1, <3>2 DEF Known, Sessions
  <2>4. RoomToAsk'
    <3>1. \A v \in Servers : \E k \in Clients : phase[<<s, v>>][k] = "none"
      BY <1>3, <1>5, <1>6 DEF Conns
    <3>2. QED
      BY <1>3, <1>9, <3>1 DEF RoomToAsk, IInv
  <2>5. ProjectServersAwaitTheAnswer'
    <3>1. \A c \in {s} \X Project, k \in Clients : phase[c][k] = "none"
      BY <1>3, <1>5, McpAssumption DEF Conns
    <3>2. \A c \in (question' \X Project) \cup blocked' :
            c \in (question \X Project) \cup blocked \/ c \in {s} \X Project
      BY <1>3, <1>9
    <3>3. QED
      BY <1>3, <1>9, <3>1, <3>2 DEF ProjectServersAwaitTheAnswer, IInv
  <2>6. LeftOnlyByLateConnect'
    BY <1>3, <1>9 DEF LeftOnlyByLateConnect, IInv
  <2>7. Sweeps'
    BY <1>3, <1>9 DEF Sweeps, SweepsTheCurrent
  <2>8. QED
    BY <1>7, <2>1, <2>2, <2>3, <2>4, <2>5, <2>6, <2>7 DEF IInv
<1>10. QED
  BY <1>2, <1>4, <1>8, <1>9 DEF TrustThenInit


\* The user answers.
LEMMA AnswerKeeps ==
  ASSUME IInv, NEW s \in Sessions, NEW yes \in BOOLEAN, Answer(s, yes)
  PROVE  IInv'
<1>1. PICK B : B = blocked'
  OBVIOUS
<1>2. PICK C : C = {c \in ConnsOf(s) : c \notin B /\ Needs(c)}
  OBVIOUS
<1>3. PICK st : st = [c \in Conns |-> IF c \in B \ blocked THEN "error" ELSE state[c]]
  OBVIOUS
<1>4. /\ TypeOK /\ s \in question /\ question' = question \ {s} /\ sweeper' = s /\ s <= made
      /\ B = IF yes THEN blocked ELSE blocked \cup ({s} \X Project)
      /\ UNCHANGED <<current, made, changing, client, inFlight, awaited, call, asked>>
      /\ tardy' = IF s # current \/ changing # "no" THEN tardy \cup {s} ELSE tardy
  BY <1>1 DEF Answer, Block, IInv, Known
<1>5. Connect(C, st, phase)
  BY <1>1, <1>2, <1>3 DEF Answer
<1>6. /\ B \subseteq Conns /\ blocked \subseteq B
      /\ \A c \in B \ blocked : c[1] = s /\ c \in {s} \X Project
      /\ C \in SUBSET Conns /\ \A c \in C : c[1] = s /\ c \notin B /\ Needs(c)
  BY <1>2, <1>4, ConnsOfSession, McpAssumption DEF TypeOK, Conns
<1>7. \A c \in C : client[c] = 0 /\ attempt[c] = 0 /\ \E k \in Clients : phase[c][k] = "none"
  <2>1. ASSUME NEW c \in C
        PROVE  client[c] = 0 /\ attempt[c] = 0 /\ \E k \in Clients : phase[c][k] = "none"
    <3>1. c \in Conns /\ c \notin blocked /\ Needs(c) /\ c[1] = s
      BY <1>6
    <3>2. c[2] \in Servers /\ c = <<s, c[2]>>
      BY <3>1 DEF Conns
    <3>3. \E k \in Clients : phase[c][k] = "none"
      BY <1>4, <3>2 DEF RoomToAsk, IInv
    <3>4. QED
      BY <3>1, <3>3, NeedsHasNone DEF Needs
  <2>2. QED BY <2>1
<1>8. st \in [Conns -> States] /\ \A c \in Conns : client[c] # 0 => st[c] = state[c] \/ c \in blocked'
  BY <1>1, <1>3, <1>4 DEF TypeOK, States
<1>9. /\ attempt' \in [Conns -> {0} \cup Clients] /\ phase' \in [Conns -> [Clients -> Phases]]
      /\ state' \in [Conns -> States] /\ late' \subseteq Conns
      /\ ClientsMatch' /\ OneClient'
      /\ \A c \in Conns, k \in Clients : phase[c][k] # "none" => phase'[c][k] = phase[c][k]
      /\ \A c \in Conns \ C : phase'[c] = phase[c]
  BY <1>1, <1>4, <1>5, <1>6, <1>7, <1>8, ConnectKeepsBooks
<1>10. TypeOK'
  BY <1>1, <1>4, <1>6, <1>9 DEF TypeOK, Phases, States, Sessions
<1>11. Counts'
  BY <1>4, CallsKeepCounts
<1>12. CallsMatch'
  BY <1>4, <1>9 DEF CallsMatch, IInv, RunsOn
<1>13. Known'
  <2>1. ASSUME NEW c \in Conns, c[1] > made
        PROVE  c \notin B /\ \A k \in Clients : phase'[c][k] = "none"
    <3>1. c[1] # s
      BY <1>4, <2>1 DEF TypeOK, Sessions
    <3>2. c \notin blocked /\ \A k \in Clients : phase[c][k] = "none"
      BY <2>1, NothingBefore
    <3>3. QED
      BY <1>6, <1>9, <3>1, <3>2
  <2>2. QED
    BY <1>1, <1>4, <2>1 DEF Known, IInv
<1>14. RoomToAsk'
  <2>1. ASSUME NEW q \in question \ {s}, NEW v \in Servers
        PROVE  \E k \in Clients : phase'[<<q, v>>][k] = "none"
    <3>1. <<q, v>> \in Conns \ C
      BY <1>4, <1>6 DEF TypeOK, Conns
    <3>2. QED
      BY <1>9, <3>1 DEF RoomToAsk, IInv
  <2>2. QED
    BY <1>4, <2>1 DEF RoomToAsk
<1>15. ProjectServersAwaitTheAnswer'
  <2>1. ASSUME NEW c \in ((question \ {s}) \X Project) \cup B
        PROVE  c \in (question \X Project) \cup blocked /\ phase'[c] = phase[c]
    <3>1. c \in (question \X Project) \cup blocked
      BY <1>4, <2>1
    <3>2. c \in Conns
      BY <1>4, <3>1, McpAssumption DEF TypeOK, Conns
    <3>3. c \notin C
      BY <1>6, <2>1
    <3>4. QED
      BY <1>9, <3>1, <3>2, <3>3
  <2>2. QED
    BY <1>1, <1>4, <2>1 DEF ProjectServersAwaitTheAnswer, IInv
<1>16. LeftOnlyByLateConnect'
  BY <1>4, <1>5, <1>6, <1>7, <1>8, ConnectIsLate
<1>17. Sweeps'
  BY <1>4 DEF Sweeps, SweepsTheCurrent, IInv
<1>18. QED
  BY <1>9, <1>10, <1>11, <1>12, <1>13, <1>14, <1>15, <1>16, <1>17 DEF IInv

--------------------------------------------------------------------------------
\* All steps

LEMMA InitIInv == Init => IInv
<1> SUFFICES ASSUME Init PROVE IInv
  OBVIOUS
<1>1. \A c \in Conns : RunningOn(c) = {} /\ Cardinality(RunningOn(c)) = 0
  BY FS_EmptySet DEF Init, RunningOn, NoCall
<1>2. Cardinality(Calls) \in Nat /\ 0 \notin Clients /\ 1 \in Clients
  BY FS_CardinalityType, McpAssumption DEF Clients
<1>3. TypeOK
  BY <1>2, McpAssumption DEF Init, TypeOK, CallRecords
<1>4. Counts /\ ClientsMatch /\ CallsMatch /\ OneClient
  BY <1>1, <1>2 DEF Init, Counts, ClientsMatch, CallsMatch, OneClient, RunsOn, NoCall
<1>5. Known /\ RoomToAsk /\ ProjectServersAwaitTheAnswer /\ LeftOnlyByLateConnect /\ Sweeps
  BY <1>2, McpAssumption DEF Init, Known, RoomToAsk, ProjectServersAwaitTheAnswer,
     LeftOnlyByLateConnect,
     Sweeps, SweepsTheCurrent, Conns
<1>6. QED
  BY <1>3, <1>4, <1>5 DEF IInv

LEMMA NextIInv == IInv /\ [Next]_vars => IInv'
<1> SUFFICES ASSUME IInv, [Next]_vars PROVE IInv'
  OBVIOUS
<1>1. ASSUME NEW c \in Conns, NEW k \in Clients,
             Settles(c, k) \/ Connected(c, k) \/ ServerDies(c, k)
      PROVE  IInv'
  BY <1>1, AttemptFailsKeeps, ClosedKeeps, ConnectedKeeps, ServerDiesKeeps DEF Settles
<1>2. ASSUME NEW i \in Calls, NEW v \in Servers, CallTool(i, v) PROVE IInv'
  BY <1>2, CallToolKeeps
<1>3. ASSUME NEW i \in Calls, CallEnds(i) PROVE IInv'
  BY <1>3, CallEndsKeeps
<1>4. ASSUME NEW v \in Servers, Start(v) \/ Stop(v) \/ Reconnect(v) PROVE IInv'
  BY <1>4, StartKeeps, StopKeeps, ReconnectKeeps
<1>5. ASSUME NEW c \in Conns, Sweep(c) PROVE IInv'
  BY <1>5, SweepKeeps
<1>6. ASSUME NEW what \in {"start", "shutdown"}, ChangeBegins(what) PROVE IInv'
  BY <1>6, ChangeBeginsKeeps
<1>7. CASE ChangeEnds
  BY <1>7, SessionStartsKeeps, SessionShutDownKeeps DEF ChangeEnds
<1>8. ASSUME NEW s \in Sessions, NEW yes \in BOOLEAN, Answer(s, yes) PROVE IInv'
  BY <1>8, AnswerKeeps
<1>9. CASE UNCHANGED vars
  <2>1. UNCHANGED <<indexVars, connVars, historyVars, inFlight, phase, awaited, call>>
    BY <1>9 DEF vars
  <2>2. TypeOK'
    BY <2>1 DEF IInv, TypeOK, indexVars, connVars, historyVars
  <2>3. Counts' /\ ClientsMatch' /\ CallsMatch' /\ OneClient'
    BY <2>1, CallsKeepCounts DEF IInv, ClientsMatch, CallsMatch, OneClient, RunsOn, connVars
  <2>4. Known' /\ RoomToAsk' /\ ProjectServersAwaitTheAnswer' /\ LeftOnlyByLateConnect' /\ Sweeps'
    BY <2>1, IndexKeepsSweeps DEF IInv, Known, RoomToAsk, ProjectServersAwaitTheAnswer,
       LeftOnlyByLateConnect, indexVars, connVars, historyVars
  <2>5. QED BY <2>2, <2>3, <2>4 DEF IInv
<1>10. QED
  BY <1>1, <1>2, <1>3, <1>4, <1>5, <1>6, <1>7, <1>8, <1>9 DEF Next

\* The inductive invariant holds in every state.
THEOREM InvariantHolds == Spec => []IInv
<1>1. Init => IInv
  BY InitIInv
<1>2. IInv /\ [Next]_vars => IInv'
  BY NextIInv
<1>3. QED BY <1>1, <1>2, PTL DEF Spec

\* Which servers are connected, and for whom, is known at all times.
THEOREM EveryClientIsKnown == Spec => []ClientsAreKnown
<1>1. IInv => ClientsAreKnown
  <2> SUFFICES ASSUME IInv PROVE ClientsAreKnown
    OBVIOUS
  <2>1. NoClientForgotten
    BY DEF IInv, ClientsMatch, CallsMatch, NoClientForgotten
  <2>2. OldClientsOnlyByLateConnect
    BY DEF IInv, LeftOnlyByLateConnect, OldClientsOnlyByLateConnect
  <2>3. QED BY <2>1, <2>2 DEF IInv, ClientsAreKnown
<1>2. QED BY <1>1, InvariantHolds, PTL


\* Nothing but the sweep turns a connection that is connected idle.
LEMMA OnlyTheSweepIdles ==
  ASSUME IInv, Next, NEW c \in Conns, state[c] = "connected", state'[c] = "idle"
  PROVE  Sweep(c)
<1>1. ASSUME NEW d \in Conns, NEW k \in Clients,
             Settles(d, k) \/ Connected(d, k) \/ ServerDies(d, k)
      PROVE  FALSE
  <2>1. state \in [Conns -> States]
    BY DEF IInv, TypeOK, States
  <2>2. CASE AttemptFails(d, k)
    BY <2>1, <2>2 DEF AttemptFails
  <2>3. CASE Closed(d, k)
    BY <2>1, <2>3 DEF Closed, Connect
  <2>4. CASE Connected(d, k)
    BY <2>1, <2>4 DEF Connected
  <2>5. CASE ServerDies(d, k)
    BY <2>1, <2>5 DEF ServerDies, connVars
  <2>6. QED BY <1>1, <2>2, <2>3, <2>4, <2>5 DEF Settles
<1>2. ASSUME NEW i \in Calls, NEW v \in Servers, CallTool(i, v) PROVE FALSE
  BY <1>2 DEF CallTool, Connect
<1>3. ASSUME NEW i \in Calls, CallEnds(i) PROVE FALSE
  BY <1>3 DEF CallEnds, connVars
<1>4. ASSUME NEW v \in Servers, Start(v) \/ Stop(v) \/ Reconnect(v) PROVE FALSE
  BY <1>4 DEF Start, Stop, Reconnect, Connect, Disconnected
<1>5. ASSUME NEW d \in Conns, Sweep(d) PROVE d = c
  BY <1>5 DEF Sweep, IInv, TypeOK
<1>6. ASSUME NEW what \in {"start", "shutdown"}, ChangeBegins(what) PROVE FALSE
  BY <1>6 DEF ChangeBegins, Cleanup, Disconnected
<1>7. CASE ChangeEnds
  BY <1>7 DEF ChangeEnds, SessionStarts, TrustThenInit, SessionShutDown, Connect, connVars
<1>8. ASSUME NEW s \in Sessions, NEW yes \in BOOLEAN, Answer(s, yes) PROVE FALSE
  BY <1>8 DEF Answer, Connect
<1>9. QED
  BY <1>1, <1>2, <1>3, <1>4, <1>5, <1>6, <1>7, <1>8 DEF Next

\* The idle sweep serves the session there is, and takes no client from under a call: what it
\* counts are the calls that run.
THEOREM TheSweepIsSafe == Spec => SweepIsSafe
<1> DEFINE Spares ==
      \A c \in Conns : state[c] = "connected" /\ state'[c] = "idle" =>
        \A i \in Calls : call[i] # NoCall => ~(call[i].st = "running" /\ call[i].conn = c)
<1>1. IInv => SweepsTheCurrent
  BY DEF IInv, Sweeps
<1>2. IInv /\ [Next]_vars => [Spares]_vars
  <2> SUFFICES ASSUME IInv, Next, NEW c \in Conns, state[c] = "connected", state'[c] = "idle",
                      NEW i \in Calls, call[i].st = "running", call[i].conn = c
               PROVE  FALSE
    OBVIOUS
  <2>1. Sweep(c)
    BY OnlyTheSweepIdles
  <2>2. RunningOn(c) \in SUBSET Calls /\ i \in RunningOn(c)
    BY DEF RunningOn
  <2>3. Cardinality(RunningOn(c)) = 0
    BY <2>1 DEF Sweep, Idle, Counts, IInv
  <2>4. PICK I : I = RunningOn(c)
    OBVIOUS
  <2>5. I = {}
    BY <2>2, <2>3, <2>4, CallsAreFew, FS_EmptySet
  <2>6. QED BY <2>2, <2>4, <2>5
<1>3. Spec => []SweepsTheCurrent
  BY <1>1, InvariantHolds, PTL
<1>4. Spec => [][Spares]_vars
  BY <1>2, InvariantHolds, PTL DEF Spec
<1>5. QED
  BY <1>3, <1>4 DEF SweepIsSafe, SweepSparesCalls

--------------------------------------------------------------------------------
\* SessionView: the requests on their way

\* The answers pi gave and then the requests it has yet to answer stand in one line: of which
\* operation the p-th is (0 for an event), and what it asks.
OpAt(pp, ww, p) ==
  IF p > Len(pp) THEN ww[p - Len(pp)].op ELSE IF pp[p].type = "answer" THEN pp[p].op ELSE 0
ReqAt(pp, ww, p) ==
  IF p > Len(pp) THEN ww[p - Len(pp)].req ELSE IF pp[p].type = "answer" THEN pp[p].req ELSE "none"
Places(pp, ww, o) == {p \in 1..(Len(pp) + Len(ww)) : OpAt(pp, ww, p) = o}

One(pp, ww, o, p, r) == Places(pp, ww, o) = {p} /\ ReqAt(pp, ww, p) = r

\* Of a batch b, m answers are missing: their places are those of its last m requests.
Sent(pp, ww, o, b, m) ==
  \/ m = 0 /\ Places(pp, ww, o) = {}
  \/ m = 1 /\ b = <<b[1]>> /\ \E p \in 1..(Len(pp) + Len(ww)) : One(pp, ww, o, p, b[1])
  \/ /\ m = 1 /\ b = <<"state", "more">>
     /\ \E q \in 1..(Len(pp) + Len(ww)) : q <= Len(pp) + 1 /\ One(pp, ww, o, q, "more")
  \/ /\ m = 2 /\ b = <<"state", "more">>
     /\ \E p, q \in 1..(Len(pp) + Len(ww)) :
          /\ p < q /\ (q > Len(pp) + 1 => q = p + 1)
          /\ Places(pp, ww, o) = {p, q}
          /\ ReqAt(pp, ww, p) = "state" /\ ReqAt(pp, ww, q) = "more"

Moves == {"switch", "new", "fork"}
Fails == Moves \cup {"entries", "tree"}

Tellings == [file : Files \cup {None}, busy : BOOLEAN, page : Nat]
Lines ==
  [type : {"answer"}, op : Ops, req : Requests, ok : BOOLEAN, now : Tellings]
    \cup [type : {"agent_start", "agent_settled"}]

Began(o) == o \in 1..started \/ o \in (UserOps + 1)..(UserOps + learns)

OpIsInOrder(o) ==
  /\ Began(o) /\ op[o].at \in 1..Len(Program[op[o].kind])
  /\ Sent(pipe, wire, o, Batch(o), op[o].missing)
  /\ op[o].failed => op[o].missing = 0 /\ Batch(o)[1] \in Fails
  /\ op[o].file # None => Batch(o)[1] = "state" /\ op[o].missing < Len(Batch(o))

Settled(pp) == {i \in 1..Len(pp) : pp[i].type = "agent_settled"}

PipeIsInOrder ==
  /\ pipe \in Seq(Lines)
  /\ \A i \in 1..Len(pipe) : pipe[i].type = "answer" =>
       Began(pipe[i].op) /\ (~pipe[i].ok => pipe[i].req \in Fails)

WireIsInOrder ==
  \A i \in 1..Len(wire) :
    /\ Began(wire[i].op)
    /\ wire[i].req \in Moves /\ ~Active(wire[i].op) => lost

TurnsAreCounted == learns + Cardinality(Settled(pipe)) + (IF turn = "idle" THEN 0 ELSE 1) <= turns

OrderInv ==
  /\ PipeIsInOrder /\ WireIsInOrder /\ TurnsAreCounted
  /\ \A o \in Ops : Active(o) => OpIsInOrder(o)

--------------------------------------------------------------------------------
\* SessionView: whether a turn runs

After == StreamingAfter(Len(pipe))
TurnInv ==
  /\ turn = "busy" => After
  /\ After /\ turn # "busy" => overtaken

--------------------------------------------------------------------------------
\* SessionView: file and history

Good(f) == f \in {Now.file, None}

OldLine(i) ==
  /\ pipe[i].type = "answer"
  /\ \/ pipe[i].req = "state" /\ ~Good(pipe[i].now.file)
     \/ pipe[i].req = "messages" /\ pipe[i].now.page # page

OldOp(o) ==
  /\ Active(o) /\ ~op[o].failed
  /\ \/ Batch(o)[1] = "state" /\ ~Good(op[o].file)
     \/ Batch(o)[1] = "messages" /\ op[o].missing = 0 /\ op[o].page # page

NoOldLine == \A i \in 1..Len(pipe) : ~OldLine(i)
NoOldOp == \A o \in Ops : ~OldOp(o)

Clean == NoOldLine /\ NoOldOp /\ Good(sessionFile) /\ shown = page

Before(o, i) == \A p \in Places(pipe, wire, o) : p < i

Moving(o) ==
  /\ Batch(o)[1] \in Moves
  /\ \E i \in 1..Len(pipe) :
       /\ OpAt(pipe, wire, i) = o /\ pipe[i].ok
       /\ \A j \in 1..Len(pipe) : OldLine(j) =>
            j < i /\ (Active(pipe[j].op) => Before(pipe[j].op, i))
       /\ \A a \in Ops : OldOp(a) => Before(a, i)

Moved(o) ==
  /\ NoOldLine
  /\ \/ Batch(o)[1] \in Moves /\ op[o].missing = 0
     \/ Batch(o)[1] = "state" /\ (op[o].missing = Len(Batch(o)) \/ NoOldOp)
  /\ \A a \in Ops : OldOp(a) => Due(a)

Located(o) ==
  Batch(o)[1] = "messages" /\ NoOldLine /\ NoOldOp /\ Good(sessionFile)

Follows(o) ==
  /\ Active(o) /\ op[o].kind \in Movers /\ ~op[o].failed
  /\ Moving(o) \/ Moved(o) \/ Located(o)

Trace == lost \/ Clean \/ \E o \in Ops : Follows(o)

Asks == [op : Ops, req : Requests]

LEMMA OpsAreNumbers == \A o \in Ops : o \in Nat /\ o # 0
BY ViewAssumption DEF Ops

\* pi answers a request: the line stays as it is.
LEMMA SentWhenAnswered ==
  ASSUME NEW pp \in Seq(Lines), NEW ww \in Seq(Asks), ww # <<>>, NEW l \in Lines,
         l.type = "answer", l.op = Head(ww).op, l.req = Head(ww).req,
         NEW pp2, pp2 = Append(pp, l), NEW ww2, ww2 = Tail(ww)
  PROVE  /\ Len(pp2) = Len(pp) + 1 /\ Len(ww) > 0 /\ Len(pp2) + Len(ww2) = Len(pp) + Len(ww)
         /\ \A p \in 1..(Len(pp) + Len(ww)) :
              OpAt(pp2, ww2, p) = OpAt(pp, ww, p) /\ ReqAt(pp2, ww2, p) = ReqAt(pp, ww, p)
         /\ \A o : Places(pp2, ww2, o) = Places(pp, ww, o)
         /\ \A o, b, m : Sent(pp, ww, o, b, m) => Sent(pp2, ww2, o, b, m)
<1>1. /\ Len(pp) \in Nat /\ Len(ww) \in Nat /\ Len(ww) > 0
      /\ Len(pp2) = Len(pp) + 1 /\ pp2[Len(pp) + 1] = l /\ \A i \in 1..Len(pp) : pp2[i] = pp[i]
  BY AppendProperties, EmptySeq
<1>2. Len(ww2) = Len(ww) - 1 /\ Head(ww) = ww[1] /\ \A i \in 1..Len(ww2) : ww2[i] = ww[i + 1]
  BY HeadTailProperties
<1>3. ASSUME NEW p \in 1..(Len(pp) + Len(ww))
      PROVE  OpAt(pp2, ww2, p) = OpAt(pp, ww, p) /\ ReqAt(pp2, ww2, p) = ReqAt(pp, ww, p)
  <2>1. CASE p <= Len(pp)
    BY <1>1, <2>1 DEF OpAt, ReqAt
  <2>2. CASE p = Len(pp) + 1
    BY <1>1, <1>2, <2>2 DEF OpAt, ReqAt
  <2>3. CASE p > Len(pp) + 1
    <3>1. p - Len(pp2) \in 1..Len(ww2) /\ (p - Len(pp2)) + 1 = p - Len(pp)
      BY <1>1, <1>2, <2>3
    <3>2. ww2[p - Len(pp2)] = ww[p - Len(pp)]
      BY <1>2, <3>1
    <3>3. p > Len(pp) /\ p > Len(pp2)
      BY <1>1, <2>3
    <3>4. QED BY <3>2, <3>3 DEF OpAt, ReqAt
  <2>4. QED BY <1>1, <2>1, <2>2, <2>3
<1>4. Len(pp2) + Len(ww2) = Len(pp) + Len(ww)
  BY <1>1, <1>2
<1>5. \A o : Places(pp2, ww2, o) = Places(pp, ww, o)
  BY <1>3, <1>4 DEF Places
<1>6. ASSUME NEW o, NEW b, NEW m, Sent(pp, ww, o, b, m) PROVE Sent(pp2, ww2, o, b, m)
  <2>1. Places(pp2, ww2, o) = Places(pp, ww, o)
    BY <1>5
  <2>2. CASE m = 0 /\ Places(pp, ww, o) = {}
    BY <2>1, <2>2 DEF Sent
  <2>3. CASE m = 1 /\ b = <<b[1]>> /\ \E p \in 1..(Len(pp) + Len(ww)) : One(pp, ww, o, p, b[1])
    BY <1>3, <1>4, <2>1, <2>3 DEF Sent, One
  <2>4. CASE /\ m = 1 /\ b = <<"state", "more">>
             /\ \E q \in 1..(Len(pp) + Len(ww)) : q <= Len(pp) + 1 /\ One(pp, ww, o, q, "more")
    <3>1. PICK q \in 1..(Len(pp) + Len(ww)) : q <= Len(pp) + 1 /\ One(pp, ww, o, q, "more")
      BY <2>4
    <3>2. q \in 1..(Len(pp2) + Len(ww2)) /\ q <= Len(pp2) + 1 /\ One(pp2, ww2, o, q, "more")
      BY <1>1, <1>3, <1>4, <2>1, <3>1 DEF One
    <3>3. QED BY <2>4, <3>2 DEF Sent
  <2>5. CASE /\ m = 2 /\ b = <<"state", "more">>
             /\ \E p, q \in 1..(Len(pp) + Len(ww)) :
                  /\ p < q /\ (q > Len(pp) + 1 => q = p + 1)
                  /\ Places(pp, ww, o) = {p, q}
                  /\ ReqAt(pp, ww, p) = "state" /\ ReqAt(pp, ww, q) = "more"
    <3>1. PICK p \in 1..(Len(pp) + Len(ww)), q \in 1..(Len(pp) + Len(ww)) :
                  /\ p < q /\ (q > Len(pp) + 1 => q = p + 1)
                  /\ Places(pp, ww, o) = {p, q}
                  /\ ReqAt(pp, ww, p) = "state" /\ ReqAt(pp, ww, q) = "more"
      BY <2>5
    <3>2. q > Len(pp2) + 1 => q = p + 1
      BY <1>1, <3>1
    <3>3. ReqAt(pp2, ww2, p) = "state" /\ ReqAt(pp2, ww2, q) = "more"
      BY <1>3, <3>1
    <3>4. p \in 1..(Len(pp2) + Len(ww2)) /\ q \in 1..(Len(pp2) + Len(ww2)) /\ Places(pp2, ww2, o) = {p, q} /\ p < q
      BY <1>4, <2>1, <3>1
    <3>5. QED BY <2>5, <3>2, <3>3, <3>4 DEF Sent
  <2>6. QED BY <1>6, <2>2, <2>3, <2>4, <2>5 DEF Sent
<1>7. QED BY <1>1, <1>3, <1>4, <1>5, <1>6

\* An event comes after the answers: the requests that wait move on by one.
LEMMA SentWhenEvent ==
  ASSUME NEW pp \in Seq(Lines), NEW ww \in Seq(Asks), NEW l \in Lines, l.type # "answer",
         NEW pp2, pp2 = Append(pp, l)
  PROVE  /\ Len(pp2) = Len(pp) + 1
         /\ \A o \in Ops : \A p \in 1..Len(pp) : p \in Places(pp2, ww, o) <=> p \in Places(pp, ww, o)
         /\ \A o \in Ops : \A p \in Places(pp2, ww, o) : p > Len(pp) => p > Len(pp) + 1 /\ p - 1 \in Places(pp, ww, o)
         /\ \A o \in Ops : \A b, m : Sent(pp, ww, o, b, m) => Sent(pp2, ww, o, b, m)
<1>1. /\ Len(pp) \in Nat /\ Len(ww) \in Nat
      /\ Len(pp2) = Len(pp) + 1 /\ pp2[Len(pp) + 1] = l /\ \A i \in 1..Len(pp) : pp2[i] = pp[i]
  BY AppendProperties
<1> DEFINE N == Len(pp) + Len(ww)
           S(p) == IF p <= Len(pp) THEN p ELSE p + 1
<1>2. ASSUME NEW p \in 1..N
      PROVE  S(p) \in 1..(N + 1) /\ OpAt(pp2, ww, S(p)) = OpAt(pp, ww, p) /\ ReqAt(pp2, ww, S(p)) = ReqAt(pp, ww, p)
  <2>1. CASE p <= Len(pp)
    BY <1>1, <2>1 DEF OpAt, ReqAt
  <2>2. CASE p > Len(pp)
    <3>1. S(p) = p + 1 /\ p + 1 > Len(pp2) /\ p + 1 - Len(pp2) = p - Len(pp)
      BY <1>1, <2>2
    <3>2. QED BY <1>1, <2>2, <3>1 DEF OpAt, ReqAt
  <2>3. QED BY <1>1, <2>1, <2>2
<1>3. OpAt(pp2, ww, Len(pp) + 1) = 0
  BY <1>1 DEF OpAt
<1>4. ASSUME NEW o \in Ops, NEW p \in Places(pp2, ww, o)
      PROVE  \E r \in Places(pp, ww, o) : p = S(r)
  <2>1. p \in 1..(N + 1) /\ OpAt(pp2, ww, p) = o
    BY <1>1 DEF Places
  <2>2. p # Len(pp) + 1
    BY <1>3, <2>1, OpsAreNumbers
  <2>3. CASE p <= Len(pp)
    <3>1. p \in 1..N /\ S(p) = p
      BY <1>1, <2>1, <2>3
    <3>2. QED BY <1>2, <2>1, <3>1 DEF Places
  <2>4. CASE p > Len(pp) + 1
    <3>1. p - 1 \in 1..N /\ S(p - 1) = p
      BY <1>1, <2>1, <2>4
    <3>2. QED BY <1>2, <2>1, <3>1 DEF Places
  <2>5. p <= Len(pp) \/ p > Len(pp) + 1
    BY <1>1, <2>1, <2>2
  <2>6. QED BY <2>3, <2>4, <2>5
<1>5. ASSUME NEW o \in Ops, NEW r \in Places(pp, ww, o) PROVE S(r) \in Places(pp2, ww, o)
  <2>1. r \in 1..N /\ OpAt(pp, ww, r) = o
    BY DEF Places
  <2>2. S(r) \in 1..(N + 1) /\ OpAt(pp2, ww, S(r)) = o
    BY <1>2, <2>1
  <2>3. Len(pp2) + Len(ww) = N + 1
    BY <1>1
  <2>4. QED BY <2>2, <2>3 DEF Places
<1>6. ASSUME NEW o \in Ops, NEW p \in 1..Len(pp)
      PROVE  p \in Places(pp2, ww, o) <=> p \in Places(pp, ww, o)
  <2>1. p \in 1..N /\ S(p) = p /\ p \in 1..(Len(pp2) + Len(ww))
    BY <1>1
  <2>2. OpAt(pp2, ww, p) = OpAt(pp, ww, p)
    BY <1>2, <2>1
  <2>3. QED BY <2>1, <2>2 DEF Places
<1>7. ASSUME NEW o \in Ops, NEW p \in Places(pp2, ww, o), p > Len(pp)
      PROVE  p > Len(pp) + 1 /\ p - 1 \in Places(pp, ww, o)
  <2>1. PICK r \in Places(pp, ww, o) : p = S(r)
    BY <1>4
  <2>2. r \in 1..N
    BY DEF Places
  <2>3. QED BY <1>1, <1>7, <2>1, <2>2
<1>8. ASSUME NEW o \in Ops, NEW b, NEW m, Sent(pp, ww, o, b, m) PROVE Sent(pp2, ww, o, b, m)
  <2>1. Len(pp2) + Len(ww) = N + 1 /\ Len(pp2) + 1 = Len(pp) + 2
    BY <1>1
  <2>2. CASE m = 0 /\ Places(pp, ww, o) = {}
    <3>1. Places(pp2, ww, o) = {}
      BY <1>4, <2>2
    <3>2. QED BY <2>2, <3>1 DEF Sent
  <2>0. ASSUME NEW p \in 1..N, NEW x, One(pp, ww, o, p, x) PROVE One(pp2, ww, o, S(p), x)
    <3>1. Places(pp2, ww, o) = {S(p)}
      BY <1>4, <1>5, <2>0 DEF One
    <3>2. QED BY <1>2, <2>0, <3>1 DEF One
  <2>3. CASE m = 1 /\ b = <<b[1]>> /\ \E p \in 1..N : One(pp, ww, o, p, b[1])
    <3>1. PICK p \in 1..N : One(pp, ww, o, p, b[1])
      BY <2>3
    <3>2. One(pp2, ww, o, S(p), b[1]) /\ S(p) \in 1..(N + 1)
      BY <1>2, <2>0, <3>1
    <3> HIDE DEF S
    <3>3. QED BY <2>1, <2>3, <3>2 DEF Sent
  <2>4. CASE /\ m = 1 /\ b = <<"state", "more">>
             /\ \E q \in 1..N : q <= Len(pp) + 1 /\ One(pp, ww, o, q, "more")
    <3>1. PICK q \in 1..N : q <= Len(pp) + 1 /\ One(pp, ww, o, q, "more")
      BY <2>4
    <3>2. One(pp2, ww, o, S(q), "more") /\ S(q) \in 1..(N + 1)
      BY <1>2, <2>0, <3>1
    <3>3. S(q) <= Len(pp2) + 1
      BY <1>1, <3>1
    <3> HIDE DEF S
    <3>4. QED BY <2>1, <2>4, <3>2, <3>3 DEF Sent
  <2>5. CASE /\ m = 2 /\ b = <<"state", "more">>
             /\ \E p, q \in 1..N :
                  /\ p < q /\ (q > Len(pp) + 1 => q = p + 1)
                  /\ Places(pp, ww, o) = {p, q}
                  /\ ReqAt(pp, ww, p) = "state" /\ ReqAt(pp, ww, q) = "more"
    <3>1. PICK p \in 1..N, q \in 1..N :
                  /\ p < q /\ (q > Len(pp) + 1 => q = p + 1)
                  /\ Places(pp, ww, o) = {p, q}
                  /\ ReqAt(pp, ww, p) = "state" /\ ReqAt(pp, ww, q) = "more"
      BY <2>5
    <3>2. S(p) < S(q) /\ (S(q) > Len(pp2) + 1 => S(q) = S(p) + 1)
      BY <1>1, <3>1
    <3>3. ReqAt(pp2, ww, S(p)) = "state" /\ ReqAt(pp2, ww, S(q)) = "more"
      BY <1>2, <3>1
    <3>4. S(p) \in 1..(N + 1) /\ S(q) \in 1..(N + 1)
      BY <1>2
    <3>5. Places(pp2, ww, o) = {S(p), S(q)}
      BY <1>4, <1>5, <3>1
    <3> HIDE DEF S
    <3>6. QED BY <2>1, <2>5, <3>2, <3>3, <3>4, <3>5 DEF Sent
  <2>6. QED BY <1>8, <2>2, <2>3, <2>4, <2>5 DEF Sent
<1>9. QED BY <1>1, <1>6, <1>7, <1>8

AnswersIn(pp, o, n) == {i \in 1..n : pp[i].type = "answer" /\ pp[i].op = o}

\* What is left when n lines are read.
LEMMA LinesLeft ==
  ASSUME NEW pp \in Seq(Lines), NEW n \in 1..Len(pp)
  PROVE  /\ SubSeq(pp, n + 1, Len(pp)) \in Seq(Lines)
         /\ Len(SubSeq(pp, n + 1, Len(pp))) = Len(pp) - n
         /\ \A i \in 1..(Len(pp) - n) : SubSeq(pp, n + 1, Len(pp))[i] = pp[i + n]
<1>1. /\ Len(pp) \in Nat /\ n \in Nat /\ n > 0 /\ n <= Len(pp)
      /\ \A i \in 1..Len(pp) : pp[i] \in Lines
  OBVIOUS
<1>2. \A i \in (n + 1)..Len(pp) : pp[i] \in Lines
  BY <1>1
<1>3. PICK s : s = SubSeq(pp, n + 1, Len(pp))
  OBVIOUS
<1>4. /\ s \in Seq(Lines) /\ Len(s) = IF n + 1 <= Len(pp) THEN Len(pp) - (n + 1) + 1 ELSE 0
      /\ \A i \in 1..(Len(pp) - (n + 1) + 1) : s[i] = pp[n + 1 + i - 1]
  <2>1. n + 1 \in Int /\ Len(pp) \in Int
    BY <1>1
  <2>2. QED BY <1>2, <1>3, <2>1, SubSeqProperties
<1>5. Len(s) = Len(pp) - n
  BY <1>1, <1>4
<1>6. ASSUME NEW i \in 1..(Len(pp) - n) PROVE s[i] = pp[i + n]
  <2>1. i \in 1..(Len(pp) - (n + 1) + 1) /\ n + 1 + i - 1 = i + n
    BY <1>1
  <2>2. QED BY <1>4, <2>1
<1>7. QED BY <1>3, <1>4, <1>5, <1>6

\* n lines are read: the answers among them are missing no more, the last requests still are.
LEMMA SentWhenRead ==
  ASSUME NEW pp \in Seq(Lines), NEW ww \in Seq(Asks), NEW n \in 1..Len(pp),
         NEW pp2 \in Seq(Lines), Len(pp2) = Len(pp) - n,
         \A i \in 1..(Len(pp) - n) : pp2[i] = pp[i + n]
  PROVE  /\ \A p \in 1..(Len(pp2) + Len(ww)) :
              OpAt(pp2, ww, p) = OpAt(pp, ww, p + n) /\ ReqAt(pp2, ww, p) = ReqAt(pp, ww, p + n)
         /\ \A o \in Ops : Places(pp2, ww, o) = {p - n : p \in {q \in Places(pp, ww, o) : q > n}}
         /\ \A o \in Ops : AnswersIn(pp, o, n) = {q \in Places(pp, ww, o) : q <= n}
         /\ \A o \in Ops : \A b, m : Sent(pp, ww, o, b, m) =>
              /\ IsFiniteSet(AnswersIn(pp, o, n)) /\ Cardinality(AnswersIn(pp, o, n)) \in 0..m
              /\ Sent(pp2, ww, o, b, m - Cardinality(AnswersIn(pp, o, n)))
<1>1. /\ Len(pp) \in Nat /\ Len(ww) \in Nat /\ n \in Nat /\ n > 0 /\ n <= Len(pp)
      /\ Len(pp2) = Len(pp) - n /\ Len(pp2) \in Nat
  OBVIOUS
<1>2. \A i \in 1..Len(pp2) : pp2[i] = pp[i + n]
  BY <1>1
<1> DEFINE N == Len(pp) + Len(ww)
<1>3. Len(pp2) + Len(ww) = N - n
  BY <1>1, <1>2
<1>4. ASSUME NEW p \in 1..(N - n)
      PROVE  OpAt(pp2, ww, p) = OpAt(pp, ww, p + n) /\ ReqAt(pp2, ww, p) = ReqAt(pp, ww, p + n)
  <2>1. CASE p <= Len(pp2)
    <3>1. p \in 1..Len(pp2) /\ ~(p > Len(pp2)) /\ ~(p + n > Len(pp))
      BY <1>1, <1>2, <2>1
    <3>2. QED BY <1>2, <3>1 DEF OpAt, ReqAt
  <2>2. CASE p > Len(pp2)
    <3>1. p + n > Len(pp) /\ (p + n) - Len(pp) = p - Len(pp2)
      BY <1>1, <1>2, <2>2
    <3>2. QED BY <2>2, <3>1 DEF OpAt, ReqAt
  <2>3. p <= Len(pp2) \/ p > Len(pp2)
    BY <1>1, <1>2
  <2>4. QED BY <2>1, <2>2, <2>3
<1>5. ASSUME NEW o \in Ops
      PROVE  Places(pp2, ww, o) = {p - n : p \in {q \in Places(pp, ww, o) : q > n}}
  <2>1. ASSUME NEW p \in Places(pp2, ww, o)
        PROVE  p + n \in Places(pp, ww, o) /\ p + n > n /\ p = (p + n) - n
    <3>1. p \in 1..(N - n) /\ OpAt(pp2, ww, p) = o
      BY <1>3 DEF Places
    <3>2. p + n \in 1..N /\ p + n > n /\ p = (p + n) - n
      BY <1>1, <3>1
    <3>3. QED BY <1>4, <3>1, <3>2 DEF Places
  <2>2. ASSUME NEW q \in Places(pp, ww, o), q > n PROVE q - n \in Places(pp2, ww, o)
    <3>1. q \in 1..N /\ OpAt(pp, ww, q) = o
      BY DEF Places
    <3>2. q - n \in 1..(N - n) /\ (q - n) + n = q
      BY <1>1, <2>2, <3>1
    <3>3. OpAt(pp2, ww, q - n) = o
      BY <1>4, <3>1, <3>2
    <3>4. QED BY <1>3, <3>2, <3>3 DEF Places
  <2>3. QED BY <2>1, <2>2
<1>6. ASSUME NEW o \in Ops PROVE AnswersIn(pp, o, n) = {q \in Places(pp, ww, o) : q <= n}
  <2>1. ASSUME NEW i \in 1..n PROVE i \in 1..N /\ ~(i > Len(pp)) /\ i <= n
    BY <1>1
  <2>2. ASSUME NEW q \in 1..N, q <= n PROVE q \in 1..n
    BY <1>1, <2>2
  <2>3. o # 0
    BY OpsAreNumbers
  <2>4. ASSUME NEW i \in 1..n
        PROVE  OpAt(pp, ww, i) = o <=> pp[i].type = "answer" /\ pp[i].op = o
    BY <2>1, <2>3 DEF OpAt
  <2>5. QED BY <2>1, <2>2, <2>4 DEF AnswersIn, Places
<1>7. ASSUME NEW o \in Ops, NEW b, NEW m, Sent(pp, ww, o, b, m)
      PROVE  /\ IsFiniteSet(AnswersIn(pp, o, n)) /\ Cardinality(AnswersIn(pp, o, n)) \in 0..m
             /\ Sent(pp2, ww, o, b, m - Cardinality(AnswersIn(pp, o, n)))
  <2> DEFINE A == AnswersIn(pp, o, n)
             P2 == Places(pp2, ww, o)
  <2>1. A = {q \in Places(pp, ww, o) : q <= n}
    BY <1>6
  <2>2. P2 = {p - n : p \in {q \in Places(pp, ww, o) : q > n}}
    BY <1>5
  <2>3. ASSUME NEW p \in 1..N, p > n
        PROVE  p - n \in 1..(N - n) /\ ReqAt(pp2, ww, p - n) = ReqAt(pp, ww, p)
    <3>1. p - n \in 1..(N - n) /\ (p - n) + n = p
      BY <1>1, <2>3
    <3>2. QED BY <1>4, <3>1
  <2>a. A = {} => IsFiniteSet(A) /\ Cardinality(A) = 0
    BY FS_EmptySet
  <2>b. \A q : A = {q} => IsFiniteSet(A) /\ Cardinality(A) = 1
    BY FS_Singleton
  <2>c. ASSUME NEW p, NEW q, p # q, A = {p, q} PROVE IsFiniteSet(A) /\ Cardinality(A) = 2
    <3>0. PICK S : S = {p}
      OBVIOUS
    <3>1. IsFiniteSet(S) /\ Cardinality(S) = 1
      BY <3>0, FS_Singleton
    <3>2. q \notin S /\ S \cup {q} = A
      BY <2>c, <3>0
    <3>3. PICK T : T = S \cup {q}
      OBVIOUS
    <3>4. IsFiniteSet(T) /\ Cardinality(T) = Cardinality(S) + 1
      BY <3>1, <3>2, <3>3, FS_AddElement
    <3>5. T = A
      BY <3>2, <3>3
    <3>6. QED BY <3>1, <3>4, <3>5
  <2>d. SUFFICES /\ IsFiniteSet(A) /\ Cardinality(A) \in 0..m
                 /\ Sent(pp2, ww, o, b, m - Cardinality(A))
    OBVIOUS
  <2> HIDE DEF A
  <2>4. CASE m = 0 /\ Places(pp, ww, o) = {}
    <3>1. A = {} /\ P2 = {}
      BY <2>1, <2>2, <2>4
    <3>2. Cardinality(A) = 0 /\ m - Cardinality(A) = 0
      BY <2>4, <2>a, <3>1
    <3>3. QED BY <2>4, <2>a, <3>1, <3>2 DEF Sent
  <2>5. CASE m = 1 /\ b = <<b[1]>> /\ \E p \in 1..N : One(pp, ww, o, p, b[1])
    <3>1. PICK p \in 1..N : One(pp, ww, o, p, b[1])
      BY <2>5
    <3>2. CASE p <= n
      <4>1. A = {p} /\ P2 = {}
        <5>1. ~(p > n)
          BY <1>1, <3>2
        <5>2. QED BY <2>1, <2>2, <3>1, <3>2, <5>1 DEF One
      <4>z. IsFiniteSet(A) /\ Cardinality(A) = 1
        BY <2>b, <4>1
      <4>2. Cardinality(A) = 1 /\ m - Cardinality(A) = 0 /\ 1 \in 0..m
        BY <2>5, <4>z
      <4>3. QED BY <4>1, <4>2, <4>z DEF Sent
    <3>3. CASE p > n
      <4>1. A = {} /\ P2 = {p - n}
        <5>1. ~(p <= n)
          BY <1>1, <3>3
        <5>2. QED BY <2>1, <2>2, <3>1, <3>3, <5>1 DEF One
      <4>2. Cardinality(A) = 0 /\ m - Cardinality(A) = m /\ 0 \in 0..m
        BY <2>5, <2>a, <4>1
      <4>3. One(pp2, ww, o, p - n, b[1]) /\ p - n \in 1..(Len(pp2) + Len(ww))
        BY <1>3, <2>3, <3>1, <3>3, <4>1 DEF One
      <4>4. QED BY <2>5, <2>a, <4>1, <4>2, <4>3 DEF Sent
    <3>4. QED BY <1>1, <3>2, <3>3
  <2>6. CASE /\ m = 1 /\ b = <<"state", "more">>
             /\ \E q \in 1..N : q <= Len(pp) + 1 /\ One(pp, ww, o, q, "more")
    <3>1. PICK p \in 1..N : p <= Len(pp) + 1 /\ One(pp, ww, o, p, "more")
      BY <2>6
    <3>2. CASE p <= n
      <4>1. A = {p} /\ P2 = {}
        <5>1. ~(p > n)
          BY <1>1, <3>2
        <5>2. QED BY <2>1, <2>2, <3>1, <3>2, <5>1 DEF One
      <4>z. IsFiniteSet(A) /\ Cardinality(A) = 1
        BY <2>b, <4>1
      <4>2. Cardinality(A) = 1 /\ m - Cardinality(A) = 0 /\ 1 \in 0..m
        BY <2>6, <4>z
      <4>3. QED BY <4>1, <4>2, <4>z DEF Sent
    <3>3. CASE p > n
      <4>1. A = {} /\ P2 = {p - n}
        <5>1. ~(p <= n)
          BY <1>1, <3>3
        <5>2. QED BY <2>1, <2>2, <3>1, <3>3, <5>1 DEF One
      <4>2. Cardinality(A) = 0 /\ m - Cardinality(A) = m /\ 0 \in 0..m
        BY <2>6, <2>a, <4>1
      <4>3. One(pp2, ww, o, p - n, "more") /\ p - n \in 1..(Len(pp2) + Len(ww))
        BY <1>3, <2>3, <3>1, <3>3, <4>1 DEF One
      <4>4. p - n <= Len(pp2) + 1
        BY <1>1, <1>2, <3>1
      <4>5. QED BY <2>6, <2>a, <4>1, <4>2, <4>3, <4>4 DEF Sent
    <3>4. QED BY <1>1, <3>2, <3>3
  <2>7. CASE /\ m = 2 /\ b = <<"state", "more">>
             /\ \E p, q \in 1..N :
                  /\ p < q /\ (q > Len(pp) + 1 => q = p + 1)
                  /\ Places(pp, ww, o) = {p, q}
                  /\ ReqAt(pp, ww, p) = "state" /\ ReqAt(pp, ww, q) = "more"
    <3>1. PICK p \in 1..N, q \in 1..N :
                  /\ p < q /\ (q > Len(pp) + 1 => q = p + 1)
                  /\ Places(pp, ww, o) = {p, q}
                  /\ ReqAt(pp, ww, p) = "state" /\ ReqAt(pp, ww, q) = "more"
      BY <2>7
    <3>2. CASE q <= n
      <4>1. A = {p, q} /\ P2 = {}
        <5>1. ~(p > n) /\ ~(q > n) /\ p <= n
          BY <1>1, <3>1, <3>2
        <5>2. QED BY <2>1, <2>2, <3>1, <3>2, <5>1
      <4>0. p # q
        BY <3>1
      <4>z. IsFiniteSet(A) /\ Cardinality(A) = 2
        BY <2>c, <4>0, <4>1
      <4>2. Cardinality(A) = 2 /\ m - Cardinality(A) = 0 /\ 2 \in 0..m
        BY <2>7, <4>z
      <4>3. QED BY <4>1, <4>2, <4>z DEF Sent
    <3>3. CASE p <= n /\ q > n
      <4>1. A = {p} /\ P2 = {q - n}
        <5>1. ~(p > n) /\ ~(q <= n)
          BY <1>1, <3>1, <3>3
        <5>2. QED BY <2>1, <2>2, <3>1, <3>3, <5>1
      <4>z. IsFiniteSet(A) /\ Cardinality(A) = 1
        BY <2>b, <4>1
      <4>2. Cardinality(A) = 1 /\ m - Cardinality(A) = 1 /\ 1 \in 0..m
        BY <2>7, <4>z
      <4>3. One(pp2, ww, o, q - n, "more") /\ q - n \in 1..(Len(pp2) + Len(ww))
        BY <1>3, <2>3, <3>1, <3>3, <4>1 DEF One
      <4>4. q - n <= Len(pp2) + 1
        BY <1>1, <1>2, <3>1, <3>3
      <4>5. QED BY <2>7, <4>1, <4>2, <4>3, <4>4, <4>z DEF Sent
    <3>4. CASE p > n
      <4>1. A = {} /\ P2 = {p - n, q - n}
        <5>1. ~(p <= n) /\ ~(q <= n) /\ q > n
          BY <1>1, <3>1, <3>4
        <5>2. QED BY <2>1, <2>2, <3>1, <3>4, <5>1
      <4>2. Cardinality(A) = 0 /\ m - Cardinality(A) = 2 /\ 0 \in 0..m
        BY <2>7, <2>a, <4>1
      <4>3. q > n /\ p - n < q - n /\ (q - n > Len(pp2) + 1 => q - n = (p - n) + 1)
        BY <1>1, <1>2, <3>1, <3>4
      <4>4. /\ p - n \in 1..(Len(pp2) + Len(ww)) /\ q - n \in 1..(Len(pp2) + Len(ww))
            /\ ReqAt(pp2, ww, p - n) = "state" /\ ReqAt(pp2, ww, q - n) = "more"
        BY <1>3, <2>3, <3>1, <3>4, <4>3
      <4>5. QED BY <2>7, <2>a, <4>1, <4>2, <4>3, <4>4 DEF Sent
    <3>5. QED BY <1>1, <3>1, <3>2, <3>3, <3>4
  <2>8. QED BY <1>7, <2>4, <2>5, <2>6, <2>7 DEF Sent
<1>8. QED BY <1>3, <1>4, <1>5, <1>6, <1>7

LEMMA LineLonger ==
  ASSUME NEW ww \in Seq(Asks), NEW s \in Seq(Asks)
  PROVE  /\ ww \o s \in Seq(Asks) /\ Len(ww \o s) = Len(ww) + Len(s)
         /\ \A i \in 1..Len(ww) : (ww \o s)[i] = ww[i]
         /\ \A i \in 1..Len(s) : (ww \o s)[Len(ww) + i] = s[i]
<1>1. PICK x : x = ww \o s
  OBVIOUS
<1>2. /\ Len(ww) \in Nat /\ Len(s) \in Nat
      /\ x \in Seq(Asks) /\ Len(x) = Len(ww) + Len(s)
      /\ \A i \in 1..(Len(ww) + Len(s)) : x[i] = IF i <= Len(ww) THEN ww[i] ELSE s[i - Len(ww)]
  BY <1>1, ConcatProperties
<1>3. ASSUME NEW i \in 1..Len(ww) PROVE i \in 1..(Len(ww) + Len(s)) /\ i <= Len(ww)
  BY <1>2
<1>4. ASSUME NEW i \in 1..Len(s)
      PROVE  Len(ww) + i \in 1..(Len(ww) + Len(s)) /\ ~(Len(ww) + i <= Len(ww)) /\ (Len(ww) + i) - Len(ww) = i
  BY <1>2
<1>5. ASSUME NEW i \in 1..Len(s) PROVE x[Len(ww) + i] = s[i]
  BY <1>2, <1>4
<1>6. ASSUME NEW i \in 1..Len(ww) PROVE x[i] = ww[i]
  BY <1>2, <1>3
<1>7. QED BY <1>1, <1>2, <1>5, <1>6

\* s comes behind ww.
Longer(ww2, ww, s) ==
  /\ Len(ww2) = Len(ww) + Len(s)
  /\ \A i \in 1..Len(ww) : ww2[i] = ww[i]
  /\ \A i \in 1..Len(s) : ww2[Len(ww) + i] = s[i]

\* Requests of others behind the line change nothing.
LEMMA SentWhenOthersAsk ==
  ASSUME NEW pp \in Seq(Lines), NEW ww \in Seq(Asks), NEW s \in Seq(Asks), NEW ww2 \in Seq(Asks),
         Longer(ww2, ww, s)
  PROVE  /\ \A p \in 1..(Len(pp) + Len(ww)) :
              OpAt(pp, ww2, p) = OpAt(pp, ww, p) /\ ReqAt(pp, ww2, p) = ReqAt(pp, ww, p)
         /\ \A i \in 1..Len(s) : /\ OpAt(pp, ww2, Len(pp) + Len(ww) + i) = s[i].op
                                 /\ ReqAt(pp, ww2, Len(pp) + Len(ww) + i) = s[i].req
         /\ \A o : (\A i \in 1..Len(s) : s[i].op # o) =>
              /\ Places(pp, ww2, o) = Places(pp, ww, o)
              /\ \A b, m : Sent(pp, ww, o, b, m) => Sent(pp, ww2, o, b, m)
<1>1. /\ Len(pp) \in Nat /\ Len(ww) \in Nat /\ Len(s) \in Nat /\ Len(ww2) = Len(ww) + Len(s)
  BY DEF Longer
<1>2. /\ \A i \in 1..Len(ww) : ww2[i] = ww[i]
      /\ \A i \in 1..Len(s) : ww2[Len(ww) + i] = s[i]
  BY DEF Longer
<1>3. ASSUME NEW p \in 1..(Len(pp) + Len(ww))
      PROVE  OpAt(pp, ww2, p) = OpAt(pp, ww, p) /\ ReqAt(pp, ww2, p) = ReqAt(pp, ww, p)
  <2>1. CASE p > Len(pp)
    <3>1. p - Len(pp) \in 1..Len(ww)
      BY <1>1, <2>1
    <3>2. QED BY <1>2, <2>1, <3>1 DEF OpAt, ReqAt
  <2>2. CASE ~(p > Len(pp))
    BY <2>2 DEF OpAt, ReqAt
  <2>3. QED BY <2>1, <2>2
<1>4. ASSUME NEW i \in 1..Len(s)
      PROVE  /\ OpAt(pp, ww2, Len(pp) + Len(ww) + i) = s[i].op
             /\ ReqAt(pp, ww2, Len(pp) + Len(ww) + i) = s[i].req
  <2>1. Len(pp) + Len(ww) + i > Len(pp) /\ (Len(pp) + Len(ww) + i) - Len(pp) = Len(ww) + i
    BY <1>1
  <2>2. QED BY <1>2, <2>1 DEF OpAt, ReqAt
<1>5. ASSUME NEW o, \A i \in 1..Len(s) : s[i].op # o
      PROVE  /\ Places(pp, ww2, o) = Places(pp, ww, o)
             /\ \A b, m : Sent(pp, ww, o, b, m) => Sent(pp, ww2, o, b, m)
  <2>1. \A p \in 1..(Len(pp) + Len(ww)) : p \in 1..(Len(pp) + Len(ww2))
    BY <1>1
  <2>2. ASSUME NEW p \in 1..(Len(pp) + Len(ww2)), OpAt(pp, ww2, p) = o
        PROVE  p \in 1..(Len(pp) + Len(ww))
    <3>1. CASE p > Len(pp) + Len(ww)
      <4>1. PICK i \in 1..Len(s) : p = Len(pp) + Len(ww) + i
        <5>1. p - (Len(pp) + Len(ww)) \in 1..Len(s) /\ p = Len(pp) + Len(ww) + (p - (Len(pp) + Len(ww)))
          BY <1>1, <3>1
        <5>2. QED BY <5>1
      <4>2. QED BY <1>4, <1>5, <2>2, <4>1
    <3>2. QED BY <1>1, <3>1
  <2>3. Places(pp, ww2, o) = Places(pp, ww, o)
    BY <1>3, <2>1, <2>2 DEF Places
  <2>4. ASSUME NEW b, NEW m, Sent(pp, ww, o, b, m) PROVE Sent(pp, ww2, o, b, m)
    <3>1. CASE m = 0 /\ Places(pp, ww, o) = {}
      BY <2>3, <3>1 DEF Sent
    <3>2. CASE m = 1 /\ b = <<b[1]>> /\ \E p \in 1..(Len(pp) + Len(ww)) : One(pp, ww, o, p, b[1])
      BY <1>3, <2>1, <2>3, <3>2 DEF Sent, One
    <3>3. CASE /\ m = 1 /\ b = <<"state", "more">>
               /\ \E q \in 1..(Len(pp) + Len(ww)) : q <= Len(pp) + 1 /\ One(pp, ww, o, q, "more")
      BY <1>3, <2>1, <2>3, <3>3 DEF Sent, One
    <3>4. CASE /\ m = 2 /\ b = <<"state", "more">>
               /\ \E p, q \in 1..(Len(pp) + Len(ww)) :
                    /\ p < q /\ (q > Len(pp) + 1 => q = p + 1)
                    /\ Places(pp, ww, o) = {p, q}
                    /\ ReqAt(pp, ww, p) = "state" /\ ReqAt(pp, ww, q) = "more"
      <4>1. PICK p \in 1..(Len(pp) + Len(ww)), q \in 1..(Len(pp) + Len(ww)) :
                    /\ p < q /\ (q > Len(pp) + 1 => q = p + 1)
                    /\ Places(pp, ww, o) = {p, q}
                    /\ ReqAt(pp, ww, p) = "state" /\ ReqAt(pp, ww, q) = "more"
        BY <3>4
      <4>2. ReqAt(pp, ww2, p) = "state" /\ ReqAt(pp, ww2, q) = "more"
        BY <1>3, <4>1
      <4>3. p \in 1..(Len(pp) + Len(ww2)) /\ q \in 1..(Len(pp) + Len(ww2)) /\ Places(pp, ww2, o) = {p, q}
        BY <2>1, <2>3, <4>1
      <4>4. QED BY <3>4, <4>1, <4>2, <4>3 DEF Sent
    <3>5. QED BY <2>4, <3>1, <3>2, <3>3, <3>4 DEF Sent
  <2>5. QED BY <2>3, <2>4
<1>6. QED BY <1>3, <1>4, <1>5

--------------------------------------------------------------------------------
\* The programs

LEMMA ProgramIs ==
  /\ DOMAIN Program = {"hydrate", "switch", "new", "fork", "revert", "rename", "prompt", "learn"}
  /\ Program["hydrate"] = << <<"state", "more">>, <<"messages">> >>
  /\ Program["switch"] = << <<"switch">>, <<"state">>, <<"messages">> >>
  /\ Program["new"] = << <<"new">>, <<"state", "more">>, <<"messages">> >>
  /\ Program["fork"] = << <<"entries">>, <<"fork">>, <<"state">>, <<"messages">> >>
  /\ Program["revert"] = << <<"entries">>, <<"tree">>, <<"leaf">>, <<"state">>, <<"messages">> >>
  /\ Program["rename"] = << <<"name">>, <<"state">> >>
  /\ Program["prompt"] = << <<"prompt">> >>
  /\ Program["learn"] = << <<"state">> >>
<1>1. NewSession = << <<"new">>, <<"state", "more">>, <<"messages">> >>
  <2>1. Hydrate[1] = <<"state", "more">> /\ Hydrate[2] = <<"messages">>
    BY DEF Hydrate
  <2>2. QED BY <2>1 DEF NewSession
<1>2. QED BY <1>1 DEF Program, Hydrate, SwitchTo, Fork, Revert, RenameCurrent, Prompt

\* Each batch is one request, or the two of a hydration; and what follows a move and a state
\* in an operation that moves pi.
BatchIs(b) == (b = <<b[1]>> /\ Len(b) = 1 /\ b[1] \in Requests \ {"more"}) \/ (b = <<"state", "more">> /\ Len(b) = 2)
LEMMA BatchesAre ==
  ASSUME NEW k \in DOMAIN Program
  PROVE  /\ Len(Program[k]) \in 1..5
         /\ \A n \in 1..Len(Program[k]) :
              /\ n \in 1..5 /\ BatchIs(Program[k][n])
              /\ Program[k][n][1] \in Moves =>
                   k \in Movers /\ n + 1 <= Len(Program[k]) /\ Program[k][n + 1][1] = "state"
              /\ k \in Movers /\ Program[k][n][1] = "state" =>
                   n + 1 <= Len(Program[k]) /\ Program[k][n + 1] = <<"messages">>
<1> USE DEF BatchIs, Moves, Movers, Requests
<1>1. CASE k = "hydrate"
  <2>1. PICK p : p = << <<"state", "more">>, <<"messages">> >>
    OBVIOUS
  <2>2. Program[k] = p
    BY <1>1, <2>1, ProgramIs
  <2>3. Len(p) = 2 /\ p[1] = <<"state", "more">> /\ p[2] = <<"messages">>
    BY <2>1
  <2>4. QED BY <1>1, <2>2, <2>3
<1>2. CASE k = "switch"
  <2>1. PICK p : p = << <<"switch">>, <<"state">>, <<"messages">> >>
    OBVIOUS
  <2>2. Program[k] = p
    BY <1>2, <2>1, ProgramIs
  <2>3. Len(p) = 3 /\ p[1] = <<"switch">> /\ p[2] = <<"state">> /\ p[3] = <<"messages">>
    BY <2>1
  <2>4. QED BY <1>2, <2>2, <2>3
<1>3. CASE k = "new"
  <2>1. PICK p : p = << <<"new">>, <<"state", "more">>, <<"messages">> >>
    OBVIOUS
  <2>2. Program[k] = p
    BY <1>3, <2>1, ProgramIs
  <2>3. Len(p) = 3 /\ p[1] = <<"new">> /\ p[2] = <<"state", "more">> /\ p[3] = <<"messages">>
    BY <2>1
  <2>4. QED BY <1>3, <2>2, <2>3
<1>4. CASE k = "fork"
  <2>1. PICK p : p = << <<"entries">>, <<"fork">>, <<"state">>, <<"messages">> >>
    OBVIOUS
  <2>2. Program[k] = p
    BY <1>4, <2>1, ProgramIs
  <2>3. Len(p) = 4 /\ p[1] = <<"entries">> /\ p[2] = <<"fork">> /\ p[3] = <<"state">> /\ p[4] = <<"messages">>
    BY <2>1
  <2>4. QED BY <1>4, <2>2, <2>3
<1>5. CASE k = "revert"
  <2>1. PICK p : p = << <<"entries">>, <<"tree">>, <<"leaf">>, <<"state">>, <<"messages">> >>
    OBVIOUS
  <2>2. Program[k] = p
    BY <1>5, <2>1, ProgramIs
  <2>3. /\ Len(p) = 5 /\ p[1] = <<"entries">> /\ p[2] = <<"tree">> /\ p[3] = <<"leaf">>
        /\ p[4] = <<"state">> /\ p[5] = <<"messages">>
    BY <2>1
  <2>4. QED BY <1>5, <2>2, <2>3
<1>6. CASE k = "rename"
  <2>1. PICK p : p = << <<"name">>, <<"state">> >>
    OBVIOUS
  <2>2. Program[k] = p
    BY <1>6, <2>1, ProgramIs
  <2>3. Len(p) = 2 /\ p[1] = <<"name">> /\ p[2] = <<"state">>
    BY <2>1
  <2>4. QED BY <1>6, <2>2, <2>3
<1>7. CASE k \in {"prompt", "learn"}
  <2>1. Len(Program[k]) = 1 /\ (Program[k][1] = <<"prompt">> \/ Program[k][1] = <<"state">>)
    BY <1>7, ProgramIs
  <2>2. QED BY <1>7, <2>1
<1>8. QED BY <1>1, <1>2, <1>3, <1>4, <1>5, <1>6, <1>7, ProgramIs

\* What an operation asks stands at the end of the line.
LEMMA AskedAre ==
  ASSUME NEW k \in DOMAIN Program, NEW n \in 1..Len(Program[k]), NEW o \in Ops,
         NEW b, b = Program[k][n], NEW t, t = Asked(o, k, n)
  PROVE  t \in Seq(Asks) /\ Len(t) = Len(b) /\ \A i \in 1..Len(b) : t[i].op = o /\ t[i].req = b[i]
<1>1. b = Program[k][n]
  OBVIOUS
<1>2. BatchIs(b)
  BY <1>1, BatchesAre
<1>3. DOMAIN b = 1..Len(b) /\ Len(b) \in Nat /\ \A i \in 1..Len(b) : b[i] \in Requests
  BY <1>2 DEF BatchIs, Requests
<1>4. PICK s : s = [i \in 1..Len(b) |-> [op |-> o, req |-> b[i]]]
  OBVIOUS
<1>5. s = Asked(o, k, n)
  BY <1>1, <1>3, <1>4 DEF Asked
<1>6. \A i \in 1..Len(b) : s[i] = [op |-> o, req |-> b[i]]
  BY <1>4
<1>7. ASSUME NEW i \in 1..Len(b) PROVE s[i] \in Asks
  <2>1. PICK r : r = b[i]
    OBVIOUS
  <2>2. r \in Requests
    BY <1>3, <2>1
  <2>3. s[i] = [op |-> o, req |-> r]
    BY <1>6, <2>1
  <2>4. QED BY <2>2, <2>3 DEF Asks
<1>8. s \in Seq(Asks) /\ Len(s) = Len(b)
  <2>1. PICK m \in Nat : m = Len(b)
    BY <1>3
  <2>2. s \in [1..m -> Asks]
    <3>1. DOMAIN s = 1..m /\ s = [i \in 1..m |-> s[i]]
      BY <1>4, <2>1
    <3>2. QED BY <1>7, <2>1, <3>1
  <2>3. s \in Seq(Asks) /\ Len(s) = m
    BY <2>2
  <2>4. QED BY <2>1, <2>3
<1>9. ASSUME NEW i \in 1..Len(b) PROVE s[i].op = o /\ s[i].req = b[i]
  <2>1. PICK r : r = b[i]
    OBVIOUS
  <2>2. s[i] = [op |-> o, req |-> r]
    BY <1>6, <2>1
  <2>3. s[i].op = o /\ s[i].req = r
    BY <2>2
  <2>4. QED BY <2>1, <2>3
<1>10. QED BY <1>5, <1>8, <1>9

LEMMA SentWhenAsked ==
  ASSUME NEW pp \in Seq(Lines), NEW ww \in Seq(Asks), NEW b, BatchIs(b), NEW o \in Ops,
         Places(pp, ww, o) = {}, NEW s \in Seq(Asks), Len(s) = Len(b),
         \A i \in 1..Len(b) : s[i].op = o /\ s[i].req = b[i],
         NEW ww2 \in Seq(Asks), Longer(ww2, ww, s)
  PROVE  /\ Sent(pp, ww2, o, b, Len(b))
         /\ \A p \in Places(pp, ww2, o) : p > Len(pp)
<1>4. BatchIs(b)
  OBVIOUS
<1> DEFINE N == Len(pp) + Len(ww)
<1>5. Len(pp) \in Nat /\ Len(ww) \in Nat /\ N \in Nat
  OBVIOUS
<1>1. Len(ww2) = Len(ww) + Len(b)
  BY DEF Longer
<1>2. /\ \A p \in 1..N : OpAt(pp, ww2, p) = OpAt(pp, ww, p)
      /\ \A i \in 1..Len(s) : /\ OpAt(pp, ww2, N + i) = s[i].op
                              /\ ReqAt(pp, ww2, N + i) = s[i].req
  BY SentWhenOthersAsk
<1>6. /\ \A p \in 1..N : OpAt(pp, ww2, p) = OpAt(pp, ww, p)
      /\ \A i \in 1..Len(b) : OpAt(pp, ww2, N + i) = o /\ ReqAt(pp, ww2, N + i) = b[i]
  BY <1>2
<1>7. \A p \in 1..N : OpAt(pp, ww2, p) # o
  BY <1>6 DEF Places
<1>8. ASSUME NEW p \in Places(pp, ww2, o) PROVE p > N /\ p \in 1..(N + Len(b))
  <2>1. p \in 1..(Len(pp) + Len(ww2)) /\ OpAt(pp, ww2, p) = o
    BY DEF Places
  <2>2. Len(b) \in Nat
    BY <1>4 DEF BatchIs
  <2>3. QED BY <1>1, <1>5, <1>7, <2>1, <2>2
<1>3. \A p \in Places(pp, ww2, o) : p > Len(pp)
  BY <1>5, <1>8
<1>9. CASE b = <<b[1]>> /\ Len(b) = 1
  <2>1. Len(pp) + Len(ww2) = N + 1 /\ OpAt(pp, ww2, N + 1) = o /\ ReqAt(pp, ww2, N + 1) = b[1]
    BY <1>1, <1>5, <1>6, <1>9
  <2>2. Places(pp, ww2, o) = {N + 1}
    <3>1. \A p \in Places(pp, ww2, o) : p = N + 1
      BY <1>5, <1>8, <1>9
    <3>2. N + 1 \in Places(pp, ww2, o)
      BY <1>5, <2>1 DEF Places
    <3>3. QED BY <3>1, <3>2
  <2>3. N + 1 \in 1..(Len(pp) + Len(ww2)) /\ One(pp, ww2, o, N + 1, b[1])
    BY <1>5, <2>1, <2>2 DEF One
  <2>4. PICK p \in 1..(Len(pp) + Len(ww2)) : One(pp, ww2, o, p, b[1])
    BY <2>3
  <2>5. Sent(pp, ww2, o, b, 1)
    BY <1>9, <2>4 DEF Sent
  <2>6. Len(b) = 1
    BY <1>9
  <2>7. QED BY <1>3, <2>5, <2>6
<1>10. CASE b = <<"state", "more">> /\ Len(b) = 2
  <2>0. b[1] = "state" /\ b[2] = "more"
    BY <1>10
  <2>a. Len(pp) + Len(ww2) = N + 2
    BY <1>1, <1>5, <1>10
  <2>b. 1 \in 1..Len(b) /\ 2 \in 1..Len(b)
    BY <1>10
  <2>1. /\ Len(pp) + Len(ww2) = N + 2 /\ OpAt(pp, ww2, N + 1) = o /\ ReqAt(pp, ww2, N + 1) = "state"
        /\ OpAt(pp, ww2, N + 2) = o /\ ReqAt(pp, ww2, N + 2) = "more"
    BY <1>6, <2>0, <2>a, <2>b
  <2>2. Places(pp, ww2, o) = {N + 1, N + 2}
    <3>1. \A p \in Places(pp, ww2, o) : p = N + 1 \/ p = N + 2
      BY <1>5, <1>8, <1>10
    <3>2. N + 1 \in Places(pp, ww2, o) /\ N + 2 \in Places(pp, ww2, o)
      BY <1>5, <2>1 DEF Places
    <3>3. QED BY <3>1, <3>2
  <2>3. /\ N + 1 \in 1..(Len(pp) + Len(ww2)) /\ N + 2 \in 1..(Len(pp) + Len(ww2))
        /\ N + 1 < N + 2 /\ N + 2 = (N + 1) + 1
    BY <1>5, <2>1
  <2>4. PICK p \in 1..(Len(pp) + Len(ww2)), q \in 1..(Len(pp) + Len(ww2)) :
                /\ p < q /\ q = p + 1 /\ Places(pp, ww2, o) = {p, q}
                /\ ReqAt(pp, ww2, p) = "state" /\ ReqAt(pp, ww2, q) = "more"
    <3> HIDE DEF N
    <3>1. QED BY <2>1, <2>2, <2>3
  <2>5. Sent(pp, ww2, o, b, 2)
    BY <1>10, <2>4 DEF Sent
  <2>6. Len(b) = 2
    BY <1>10
  <2>7. QED BY <1>3, <2>5, <2>6
<1>11. QED BY <1>4, <1>9, <1>10 DEF BatchIs

--------------------------------------------------------------------------------
\* The order of requests is kept

OpRecs == [kind : DOMAIN Program \cup {"none"}, at : 0..5, missing : 0..2,
           failed : BOOLEAN, file : Files \cup {None}, busy : BOOLEAN, page : Nat]

OrderedInv == ViewTypeOK /\ OrderInv

LEMMA TypeIs == ViewTypeOK =>
  /\ op \in [Ops -> OpRecs] /\ wire \in Seq(Asks)
  /\ started \in 0..UserOps /\ learns \in 0..MaxTurns /\ turns \in 0..MaxTurns
BY DEF ViewTypeOK, OpRecs, Asks

Size(k, n) == Len(Program[k][n])

LEMMA AskingIs ==
  ASSUME ViewTypeOK, NEW k \in DOMAIN Program, NEW n \in 1..Len(Program[k]), NEW o \in Ops
  PROVE  /\ Asking(o, k, n) \in OpRecs
         /\ Asking(o, k, n).kind = k /\ Asking(o, k, n).at = n
         /\ Asking(o, k, n).missing = Size(k, n) /\ ~Asking(o, k, n).failed
         /\ Asking(o, k, n).file = None
<1>1. PICK m : m = Len(Program[k][n])
  OBVIOUS
<1>2. m \in 0..2 /\ n \in 0..5
  BY <1>1, BatchesAre DEF BatchIs
<1>3. PICK busy : busy = (op[o].busy /\ k \in Hydrates)
  OBVIOUS
<1>4. busy \in BOOLEAN
  BY <1>3
<1>5. Asking(o, k, n) = [kind |-> k, at |-> n, missing |-> m, failed |-> FALSE,
                         file |-> None, busy |-> busy, page |-> 0]
  <2>1. Asking(o, k, n) = [NoOp EXCEPT !.kind = k, !.at = n, !.missing = m, !.busy = busy]
    BY <1>1, <1>3, Zenon DEF Asking
  <2>2. QED BY <2>1 DEF NoOp
<1>6. QED BY <1>1, <1>2, <1>4, <1>5 DEF OpRecs, Size

LEMMA NoOpIs == NoOp \in OpRecs /\ NoOp.kind = "none" /\ NoOp.file = None
BY DEF NoOp, OpRecs

LEMMA KindsOfRunning ==
  ASSUME OrderedInv, NEW o \in Ops, Active(o)
  PROVE  /\ op[o].kind \in DOMAIN Program /\ op[o] \in OpRecs
         /\ op[o].at \in 1..Len(Program[op[o].kind]) /\ BatchIs(Batch(o))
         /\ op[o].missing \in Nat /\ op[o].missing <= Len(Batch(o)) /\ Len(Batch(o)) \in 1..2
         /\ Sent(pipe, wire, o, Batch(o), op[o].missing)
<1>1. op[o] \in OpRecs /\ OpIsInOrder(o)
  BY TypeIs DEF OrderedInv, OrderInv
<1>2. op[o].kind \in DOMAIN Program /\ op[o].missing \in Nat
  BY <1>1 DEF OpRecs, Active
<1>3. op[o].at \in 1..Len(Program[op[o].kind]) /\ Sent(pipe, wire, o, Batch(o), op[o].missing)
  BY <1>1 DEF OpIsInOrder
<1>4. BatchIs(Batch(o))
  BY <1>2, <1>3, BatchesAre DEF Batch
<1>5. Len(Batch(o)) \in 1..2
  BY <1>4 DEF BatchIs
<1>6. op[o].missing <= 1 \/ Batch(o) = <<"state", "more">>
  BY <1>3 DEF Sent
<1>7. op[o].missing <= Len(Batch(o))
  <2>1. op[o].missing \in 0..2
    BY <1>1 DEF OpRecs
  <2>2. CASE op[o].missing <= 1
    BY <1>5, <2>1, <2>2
  <2>3. CASE Batch(o) = <<"state", "more">>
    <3>1. Len(Batch(o)) = 2
      BY <2>3
    <3>2. QED BY <2>1, <3>1
  <2>4. QED BY <1>6, <2>2, <2>3
<1>8. QED BY <1>1, <1>2, <1>3, <1>4, <1>5, <1>7

\* What is on its way was asked by operations that began.
LEMMA PlacesBegan ==
  ASSUME OrderedInv, NEW o \in Ops, Places(pipe, wire, o) # {}
  PROVE  Began(o)
<1>1. PICK p \in 1..(Len(pipe) + Len(wire)) : OpAt(pipe, wire, p) = o
  BY DEF Places
<1>2. pipe \in Seq(Lines) /\ wire \in Seq(Asks) /\ Len(pipe) \in Nat /\ Len(wire) \in Nat
  BY TypeIs DEF OrderedInv, OrderInv, PipeIsInOrder
<1>3. CASE p > Len(pipe)
  <2>1. p - Len(pipe) \in 1..Len(wire)
    BY <1>2, <1>3
  <2>2. wire[p - Len(pipe)].op = o
    BY <1>1, <1>3 DEF OpAt
  <2>3. \A i \in 1..Len(wire) : Began(wire[i].op)
    BY DEF OrderedInv, OrderInv, WireIsInOrder
  <2>4. QED BY <2>1, <2>2, <2>3
<1>4. CASE ~(p > Len(pipe))
  <2>1. p \in 1..Len(pipe)
    BY <1>2, <1>4
  <2>2. pipe[p].type = "answer" /\ pipe[p].op = o
    BY <1>1, <1>4, OpsAreNumbers DEF OpAt
  <2>3. \A i \in 1..Len(pipe) : pipe[i].type = "answer" => Began(pipe[i].op)
    BY DEF OrderedInv, OrderInv, PipeIsInOrder
  <2>4. QED BY <2>1, <2>2, <2>3
<1>5. QED BY <1>3, <1>4

\* The whole of an operation's order from its parts, as they are after a step.
LEMMA InOrder ==
  ASSUME NEW o, Began(o)', NEW k, NEW n, NEW m, NEW b,
         op'[o].kind = k, op'[o].at = n, op'[o].missing = m, b = Program[k][n],
         n \in 1..Len(Program[k]), Sent(pipe', wire', o, b, m),
         op'[o].failed => m = 0 /\ b[1] \in Fails,
         op'[o].file # None => b[1] = "state" /\ m < Len(b)
  PROVE  OpIsInOrder(o)'
BY DEF OpIsInOrder, Batch

\* An operation of which nothing is on its way asks a batch.
LEMMA NewBatchInOrder ==
  ASSUME OrderedInv, NEW k \in DOMAIN Program, NEW n \in 1..Len(Program[k]), NEW i \in Ops,
         Began(i)',
         NEW e, e = Asking(i, k, n), op'[i] = e, NEW pp \in Seq(Lines), pipe' = pp,
         Places(pp, wire, i) = {}, NEW s, s = Asked(i, k, n), wire' = wire \o s
  PROVE  OpIsInOrder(i)'
<1>0. wire \in Seq(Asks) /\ ViewTypeOK
  BY TypeIs DEF OrderedInv
<1>1. PICK b : b = Program[k][n]
  OBVIOUS
<1>2. s \in Seq(Asks) /\ Len(s) = Len(b) /\ \A j \in 1..Len(b) : s[j].op = i /\ s[j].req = b[j]
  BY <1>1, AskedAre
<1>3. PICK w \in Seq(Asks) : w = wire \o s /\ Longer(w, wire, s)
  BY <1>0, <1>2, LineLonger DEF Longer
<1>4. BatchIs(b)
  BY <1>1, BatchesAre
<1>5. PICK ww : ww = wire
  OBVIOUS
<1>6. Sent(pp, w, i, b, Len(b))
  BY <1>0, <1>2, <1>3, <1>4, <1>5, SentWhenAsked
<1>7. Sent(pipe', wire', i, b, Len(b))
  BY <1>3, <1>6
<1>8. /\ Asking(i, k, n).kind = k /\ Asking(i, k, n).at = n
      /\ Asking(i, k, n).missing = Size(k, n) /\ ~Asking(i, k, n).failed
      /\ Asking(i, k, n).file = None
  BY <1>0, AskingIs
<1>9. PICK m : m = Len(b)
  OBVIOUS
<1>10. op'[i].kind = k /\ op'[i].at = n /\ op'[i].missing = m /\ ~op'[i].failed /\ op'[i].file = None
  BY <1>1, <1>8, <1>9 DEF Size
<1>11. QED BY <1>1, <1>7, <1>9, <1>10, InOrder

LEMMA OthersAsk ==
  ASSUME OrderedInv, NEW k \in DOMAIN Program, NEW n \in 1..Len(Program[k]), NEW i \in Ops,
         NEW pp \in Seq(Lines), NEW o, o # i, NEW b, NEW m, Sent(pp, wire, o, b, m)
  PROVE  Sent(pp, wire \o Asked(i, k, n), o, b, m) /\ wire \o Asked(i, k, n) \in Seq(Asks)
<1>0. wire \in Seq(Asks)
  BY TypeIs DEF OrderedInv
<1>1. PICK s : s = Asked(i, k, n)
  OBVIOUS
<1>2. PICK c : c = Program[k][n]
  OBVIOUS
<1>3. s \in Seq(Asks) /\ Len(s) = Len(c) /\ \A j \in 1..Len(c) : s[j].op = i
  BY <1>1, <1>2, AskedAre
<1>4. \A j \in 1..Len(s) : s[j].op # o
  BY <1>3
<1>5. PICK w \in Seq(Asks) : w = wire \o s /\ Longer(w, wire, s)
  BY <1>0, <1>3, LineLonger DEF Longer
<1>6. PICK ww : ww = wire
  OBVIOUS
<1>7. Sent(pp, w, o, b, m)
  BY <1>0, <1>3, <1>4, <1>5, <1>6, SentWhenOthersAsk
<1>8. QED BY <1>1, <1>5, <1>7

LEMMA LongerWire ==
  ASSUME OrderedInv, NEW k \in DOMAIN Program, NEW n \in 1..Len(Program[k]), NEW i \in Ops,
         Began(i)',
         NEW s, s = Asked(i, k, n), wire' = wire \o s, Active(i)', lost' = lost,
         \A o \in Ops : Active(o) => Active(o)',
         \A o : Began(o) => Began(o)'
  PROVE  wire' \in Seq(Asks) /\ WireIsInOrder'
<1>1. wire \in Seq(Asks)
  BY TypeIs DEF OrderedInv
<1>2. PICK c : c = Program[k][n]
  OBVIOUS
<1>3. s \in Seq(Asks) /\ Len(s) = Len(c) /\ \A j \in 1..Len(c) : s[j].op = i
  BY <1>2, AskedAre
<1>4. PICK w \in Seq(Asks) : w = wire \o s /\ Longer(w, wire, s)
  BY <1>1, <1>3, LineLonger DEF Longer
<1>5. ASSUME NEW p \in 1..Len(w)
      PROVE  w[p].op = i \/ (p \in 1..Len(wire) /\ w[p] = wire[p])
  <2>1. Len(wire) \in Nat /\ Len(s) \in Nat /\ Len(w) = Len(wire) + Len(s)
    BY <1>1, <1>3, <1>4 DEF Longer
  <2>2. CASE p <= Len(wire)
    <3>1. p \in 1..Len(wire)
      BY <2>1, <2>2
    <3>2. QED BY <1>4, <3>1 DEF Longer
  <2>3. CASE p > Len(wire)
    <3>1. p - Len(wire) \in 1..Len(s) /\ Len(wire) + (p - Len(wire)) = p
      BY <2>1, <2>3
    <3>2. w[p] = s[p - Len(wire)]
      BY <1>4, <3>1 DEF Longer
    <3>3. QED BY <1>3, <3>1, <3>2
  <2>4. QED BY <2>1, <2>2, <2>3
<1>6. wire' = w
  BY <1>4
<1>7. ASSUME NEW p \in 1..Len(w)
      PROVE  Began(w[p].op)' /\ (w[p].req \in Moves /\ ~Active(w[p].op)' => lost')
  <2>1. CASE w[p].op = i
    BY <2>1
  <2>2. CASE p \in 1..Len(wire) /\ w[p] = wire[p]
    <3>1. Began(wire[p].op) /\ (wire[p].req \in Moves /\ ~Active(wire[p].op) => lost)
      BY <2>2 DEF OrderedInv, OrderInv, WireIsInOrder
    <3>2. wire[p].op \in Ops
      <4>1. wire[p] \in Asks
        BY <1>1, <2>2
      <4>2. QED BY <4>1 DEF Asks
    <3>3. QED BY <2>2, <3>1, <3>2
  <2>3. QED BY <1>5, <2>1, <2>2
<1>8. QED BY <1>6, <1>7 DEF WireIsInOrder

LEMMA BeganStays ==
  ASSUME started \in Nat, learns \in Nat, started' \in Nat, learns' \in Nat,
         started <= started', learns <= learns', NEW o, Began(o)
  PROVE  Began(o)'
BY ViewAssumption DEF Began

LEMMA BeginKeepsOrder ==
  ASSUME OrderedInv, NEW k \in Kinds, Begin(k)
  PROVE  OrderedInv'
<1>1. /\ started \in Nat /\ started < UserOps /\ started' = started + 1
      /\ learns \in Nat /\ learns' = learns /\ k \in DOMAIN Program
  BY TypeIs, ViewAssumption DEF OrderedInv, Begin
<1>2. PICK i \in Ops : i = started'
  BY <1>1, ViewAssumption DEF Ops
<1>3. 1 \in 1..Len(Program[k])
  BY <1>1, BatchesAre
<1>4. Began(i)' /\ ~Began(i)
  BY <1>1, <1>2, ViewAssumption DEF Began
<1>5. \A o : Began(o) => Began(o)'
  BY <1>1, BeganStays
<1>6. PICK e : e = Asking(i, k, 1)
  OBVIOUS
<1>7. op' = [op EXCEPT ![i] = e] /\ wire' = wire \o Asked(i, k, 1)
  BY <1>2, <1>6 DEF Begin
<1>8. UNCHANGED <<learns, believedVars, piVars, pipe, overtaken, lost>>
  BY DEF Begin
<1>9. op \in [Ops -> OpRecs] /\ e \in OpRecs /\ e.kind = k /\ ViewTypeOK
  BY <1>1, <1>3, <1>6, AskingIs, TypeIs DEF OrderedInv
<1>10. op'[i] = e /\ op' \in [Ops -> OpRecs] /\ \A o \in Ops : o # i => op'[o] = op[o]
  BY <1>7, <1>9
<1>11. Active(i)' /\ \A o \in Ops : Active(o) => Active(o)'
  <2>1. k # "none"
    BY <1>1, ProgramIs
  <2>2. QED BY <1>9, <1>10, <2>1 DEF Active
<1>12. wire' \in Seq(Asks) /\ WireIsInOrder'
  BY <1>1, <1>3, <1>4, <1>5, <1>7, <1>8, <1>11, LongerWire
<1>13. Places(pipe, wire, i) = {}
  BY <1>4, PlacesBegan
<1>14. pipe \in Seq(Lines) /\ pipe' = pipe
  BY <1>8 DEF OrderedInv, OrderInv, PipeIsInOrder
<1>15. OpIsInOrder(i)'
  <2>1. PICK pp \in Seq(Lines) : pp = pipe
    BY <1>14
  <2>2. pipe' = pp /\ Places(pp, wire, i) = {}
    BY <1>13, <1>14, <2>1
  <2>3. QED BY <1>1, <1>3, <1>4, <1>6, <1>7, <1>10, <2>2, NewBatchInOrder
<1>16. ASSUME NEW o \in Ops, Active(o)', o # i PROVE OpIsInOrder(o)'
  <2>1. op'[o] = op[o] /\ Active(o)
    BY <1>10, <1>16 DEF Active
  <2>2. OpIsInOrder(o)
    BY <2>1 DEF OrderedInv, OrderInv
  <2>3. PICK pp \in Seq(Lines) : pp = pipe
    BY <1>14
  <2>4. PICK b, m : b = Batch(o) /\ m = op[o].missing
    OBVIOUS
  <2>5. Sent(pp, wire, o, b, m)
    BY <2>2, <2>3, <2>4 DEF OpIsInOrder
  <2>6. Sent(pp, wire \o Asked(i, k, 1), o, b, m)
    BY <1>1, <1>3, <1>16, <2>5, OthersAsk
  <2>7. Sent(pipe', wire', o, Batch(o), op[o].missing)
    BY <1>7, <1>14, <2>3, <2>4, <2>6
  <2>8. QED BY <1>5, <2>1, <2>2, <2>7 DEF OpIsInOrder, Batch
<1>17. PipeIsInOrder' /\ TurnsAreCounted'
  BY <1>5, <1>8 DEF OrderedInv, OrderInv, PipeIsInOrder, TurnsAreCounted, piVars
<1>18. ViewTypeOK'
  <2>1. started' \in 0..UserOps
    BY <1>1, ViewAssumption
  <2>2. QED BY <1>8, <1>10, <1>12, <2>1 DEF OrderedInv, ViewTypeOK, OpRecs, Asks, believedVars, piVars
<1>19. QED BY <1>12, <1>15, <1>16, <1>17, <1>18 DEF OrderedInv, OrderInv

LEMMA DueIsAnswered ==
  ASSUME OrderedInv, NEW o \in Ops, Due(o)
  PROVE  Active(o) /\ op[o].missing = 0 /\ Places(pipe, wire, o) = {}
<1>1. Active(o) /\ op[o].missing = 0
  BY DEF Due, OrderedInv, OrderInv, OpIsInOrder
<1>2. Sent(pipe, wire, o, Batch(o), op[o].missing)
  BY <1>1, KindsOfRunning
<1>3. QED BY <1>1, <1>2 DEF Sent

\* A wire as it was, with nothing of the operation that ends on it.
LEMMA SameWire ==
  ASSUME OrderedInv, NEW i \in Ops, wire' = wire, started' = started, learns' = learns,
         Places(pipe, wire, i) = {} \/ lost' \/ op[i].kind \notin Movers, lost => lost',
         \A a \in Ops : a # i => op'[a] = op[a], Active(i)
  PROVE  wire' \in Seq(Asks) /\ WireIsInOrder'
<1>1. wire \in Seq(Asks) /\ pipe \in Seq(Lines)
  BY TypeIs DEF OrderedInv, OrderInv, PipeIsInOrder
<1>2. ASSUME NEW p \in 1..Len(wire)
      PROVE  Began(wire[p].op)' /\ (wire[p].req \in Moves /\ ~Active(wire[p].op)' => lost')
  <2>1. Began(wire[p].op) /\ (wire[p].req \in Moves /\ ~Active(wire[p].op) => lost)
    BY DEF OrderedInv, OrderInv, WireIsInOrder
  <2>2. Began(wire[p].op)'
    BY <2>1 DEF Began
  <2>3. wire[p] \in Asks
    BY <1>1
  <2>4. wire[p].op \in Ops
    BY <2>3 DEF Asks
  <2>5. CASE wire[p].op # i
    BY <2>1, <2>2, <2>4, <2>5 DEF Active
  <2>6. CASE wire[p].op = i
    <3>1. Len(pipe) \in Nat /\ Len(wire) \in Nat
      BY <1>1
    <3>2. PICK q : q = Len(pipe) + p
      OBVIOUS
    <3>3. q \in 1..(Len(pipe) + Len(wire)) /\ q > Len(pipe) /\ q - Len(pipe) = p
      BY <3>1, <3>2
    <3>4. OpAt(pipe, wire, q) = i /\ ReqAt(pipe, wire, q) = wire[p].req
      BY <2>6, <3>3 DEF OpAt, ReqAt
    <3>5. q \in Places(pipe, wire, i)
      BY <3>3, <3>4 DEF Places
    <3>6. ASSUME wire[p].req \in Moves PROVE op[i].kind \in Movers
      <4>1. /\ op[i].kind \in DOMAIN Program /\ op[i].at \in 1..Len(Program[op[i].kind])
            /\ BatchIs(Batch(i)) /\ Sent(pipe, wire, i, Batch(i), op[i].missing)
        BY KindsOfRunning
      <4>2. ReqAt(pipe, wire, q) = Batch(i)[1] \/ ReqAt(pipe, wire, q) \in {"state", "more"}
        BY <3>5, <4>1 DEF Sent, One
      <4>3. Batch(i)[1] \in Moves
        BY <3>4, <3>6, <4>2 DEF Moves
      <4>4. QED BY <4>1, <4>3, BatchesAre DEF Batch
    <3>7. QED BY <2>2, <3>5, <3>6
  <2>7. QED BY <2>5, <2>6
<1>3. QED BY <1>1, <1>2 DEF WireIsInOrder

\* An operation that is as it was, its answers where they were.
LEMMA SameOp ==
  ASSUME OrderedInv, NEW o \in Ops, Active(o)', op'[o] = op[o], Began(o) => Began(o)',
         Sent(pipe, wire, o, Batch(o), op[o].missing) =>
           Sent(pipe', wire', o, Batch(o), op[o].missing)
  PROVE  OpIsInOrder(o)'
<1>1. OpIsInOrder(o)
  BY DEF OrderedInv, OrderInv, Active
<1>2. QED BY <1>1 DEF OpIsInOrder, Batch

LEMMA ContinueKeepsOrder ==
  ASSUME OrderedInv, NEW o \in Ops, Continue(o)
  PROVE  OrderedInv'
<1>1. Active(o) /\ op[o].missing = 0 /\ Places(pipe, wire, o) = {}
  BY DueIsAnswered DEF Continue
<1>2. /\ UNCHANGED <<started, learns, piVars, pipe, lost>> /\ GoOn(o)
  BY DEF Continue
<1>3. PICK k : k = op[o].kind
  OBVIOUS
<1>4. k \in DOMAIN Program /\ op[o].at \in 1..Len(Program[k]) /\ op[o] \in OpRecs
  BY <1>1, <1>3, KindsOfRunning
<1>5. op \in [Ops -> OpRecs] /\ ViewTypeOK /\ wire \in Seq(Asks) /\ pipe \in Seq(Lines)
  BY TypeIs DEF OrderedInv, OrderInv, PipeIsInOrder
<1>6. \A a : Began(a) => Began(a)'
  BY <1>2 DEF Began
<1>7. PipeIsInOrder' /\ TurnsAreCounted'
  BY <1>2, <1>6 DEF OrderedInv, OrderInv, PipeIsInOrder, TurnsAreCounted, piVars
<1>8. /\ op' \in [Ops -> OpRecs] /\ wire' \in Seq(Asks) /\ WireIsInOrder'
      /\ \A a \in Ops : Active(a)' => OpIsInOrder(a)'
  <2>1. CASE op' = [op EXCEPT ![o] = NoOp] /\ UNCHANGED wire
    <3>1. op'[o] = NoOp /\ op' \in [Ops -> OpRecs] /\ \A a \in Ops : a # o => op'[a] = op[a]
      BY <1>5, <2>1, NoOpIs
    <3>2. wire' \in Seq(Asks) /\ WireIsInOrder'
      BY <1>1, <1>2, <2>1, <3>1, SameWire
    <3>3. ASSUME NEW a \in Ops, Active(a)' PROVE OpIsInOrder(a)'
      <4>1. a # o
        BY <3>1, <3>3, NoOpIs DEF Active
      <4>2. op'[a] = op[a] /\ Began(a) => Began(a)'
        BY <1>6, <3>1, <4>1
      <4>3. Sent(pipe, wire, a, Batch(a), op[a].missing) => Sent(pipe', wire', a, Batch(a), op[a].missing)
        BY <1>2, <2>1
      <4>4. QED BY <1>6, <3>1, <3>3, <4>1, <4>3, SameOp
    <3>4. QED BY <3>1, <3>2, <3>3
  <2>2. CASE ~(op[o].failed \/ op[o].at + 1 > Len(Program[k]))
    <3>1. PICK n : n = op[o].at + 1
      OBVIOUS
    <3>2. n \in 1..Len(Program[k])
      <4>1. Len(Program[k]) \in Nat
        BY <1>4, BatchesAre
      <4>2. QED BY <1>4, <2>2, <3>1, <4>1
    <3>3. PICK e : e = Asking(o, k, n)
      OBVIOUS
    <3>4. op' = [op EXCEPT ![o] = e] /\ wire' = wire \o Asked(o, k, n)
      BY <1>2, <1>3, <2>2, <3>1, <3>3 DEF GoOn
    <3>5. e \in OpRecs /\ e.kind = k
      BY <1>4, <1>5, <3>2, <3>3, AskingIs
    <3>6. op'[o] = e /\ op' \in [Ops -> OpRecs] /\ \A a \in Ops : a # o => op'[a] = op[a]
      BY <1>5, <3>4, <3>5
    <3>7. Active(o)' /\ \A a \in Ops : Active(a) => Active(a)'
      <4>1. k # "none"
        BY <1>1, <1>3 DEF Active
      <4>2. QED BY <3>5, <3>6, <4>1 DEF Active
    <3>8. Began(o)'
      BY <1>1, <1>6 DEF OrderedInv, OrderInv, OpIsInOrder
    <3>9. wire' \in Seq(Asks) /\ WireIsInOrder'
      BY <1>2, <1>4, <1>6, <3>2, <3>4, <3>7, <3>8, LongerWire
    <3>10. PICK pp \in Seq(Lines) : pp = pipe
      BY <1>5
    <3>11. pipe' = pp /\ Places(pp, wire, o) = {}
      BY <1>1, <1>2, <3>10
    <3>12. OpIsInOrder(o)'
      BY <1>4, <3>2, <3>3, <3>4, <3>6, <3>8, <3>11, NewBatchInOrder
    <3>13. ASSUME NEW a \in Ops, Active(a)', a # o PROVE OpIsInOrder(a)'
      <4>1. op'[a] = op[a] /\ Active(a)
        BY <3>6, <3>13 DEF Active
      <4>2. PICK b, m : b = Batch(a) /\ m = op[a].missing
        OBVIOUS
      <4>3. ASSUME Sent(pp, wire, a, b, m) PROVE Sent(pp, wire \o Asked(o, k, n), a, b, m)
        BY <1>4, <3>2, <3>13, <4>3, OthersAsk
      <4>4. Sent(pipe, wire, a, Batch(a), op[a].missing) => Sent(pipe', wire', a, Batch(a), op[a].missing)
        BY <1>2, <3>4, <3>10, <4>2, <4>3
      <4>5. QED BY <1>6, <3>13, <4>1, <4>4, SameOp
    <3>14. QED BY <3>6, <3>9, <3>12, <3>13
  <2>3. QED BY <1>2, <1>3, <2>1, <2>2 DEF GoOn
<1>9. /\ sessionFile' \in Files \cup {None} /\ streaming' \in BOOLEAN /\ shown' \in Nat
      /\ overtaken' \in BOOLEAN
  <2>1. op[o].file \in Files \cup {None} /\ op[o].page \in Nat
    BY <1>4 DEF OpRecs
  <2>2. sessionFile' = sessionFile \/ sessionFile' = op[o].file
    BY DEF Continue
  <2>3. shown' = shown \/ shown' = op[o].page
    BY DEF Continue
  <2>4. streaming' \in BOOLEAN /\ overtaken' \in BOOLEAN
    BY DEF Continue
  <2>5. QED BY <1>5, <2>1, <2>2, <2>3, <2>4 DEF ViewTypeOK
<1>10. ViewTypeOK'
  BY <1>2, <1>5, <1>8, <1>9 DEF ViewTypeOK, OpRecs, Asks, piVars
<1>11. QED BY <1>7, <1>8, <1>10 DEF OrderedInv, OrderInv

LEMMA TimeOutKeepsOrder ==
  ASSUME OrderedInv, NEW o \in Ops, TimesOut(o)
  PROVE  OrderedInv'
<1>1. /\ Active(o) /\ op' = [op EXCEPT ![o] = NoOp] /\ lost' = (lost \/ op[o].kind \in Movers)
      /\ UNCHANGED <<started, learns, believedVars, piVars, wire, pipe, overtaken>>
  BY DEF TimesOut
<1>2. op \in [Ops -> OpRecs] /\ ViewTypeOK
  BY TypeIs DEF OrderedInv
<1>3. op'[o] = NoOp /\ op' \in [Ops -> OpRecs] /\ \A a \in Ops : a # o => op'[a] = op[a]
  BY <1>1, <1>2, NoOpIs
<1>4. wire' \in Seq(Asks) /\ WireIsInOrder'
  BY <1>1, <1>3, SameWire
<1>5. ASSUME NEW a \in Ops, Active(a)' PROVE OpIsInOrder(a)'
  <2>1. a # o
    BY <1>3, <1>5, NoOpIs DEF Active
  <2>2. op'[a] = op[a]
    BY <1>3, <2>1
  <2>3. Sent(pipe, wire, a, Batch(a), op[a].missing) => Sent(pipe', wire', a, Batch(a), op[a].missing)
    BY <1>1
  <2>4. Began(a) => Began(a)'
    BY <1>1 DEF Began
  <2>5. QED BY <1>5, <2>2, <2>3, <2>4, SameOp
<1>6. PipeIsInOrder' /\ TurnsAreCounted'
  BY <1>1 DEF OrderedInv, OrderInv, PipeIsInOrder, TurnsAreCounted, piVars, Began
<1>7. ViewTypeOK'
  <2>1. lost' \in BOOLEAN
    BY <1>1
  <2>2. QED BY <1>1, <1>2, <1>3, <1>4, <2>1 DEF ViewTypeOK, OpRecs, Asks, piVars, believedVars
<1>8. QED BY <1>4, <1>5, <1>6, <1>7 DEF OrderedInv, OrderInv

LEMMA SettledIs ==
  ASSUME NEW pp \in Seq(Lines)
  PROVE  IsFiniteSet(Settled(pp)) /\ Cardinality(Settled(pp)) \in Nat
<1>1. PICK n \in Nat : n = Len(pp)
  OBVIOUS
<1>2. IsFiniteSet(1..n)
  BY FS_Interval
<1>3. PICK S : S = Settled(pp)
  OBVIOUS
<1>4. S \in SUBSET (1..n)
  BY <1>1, <1>3 DEF Settled
<1>5. IsFiniteSet(S)
  BY <1>2, <1>4, FS_Subset
<1>6. Cardinality(S) \in Nat
  BY <1>5, FS_CardinalityType
<1>7. QED BY <1>3, <1>5, <1>6

LEMMA SettledWhenAppended ==
  ASSUME NEW pp \in Seq(Lines), NEW l \in Lines
  PROVE  Cardinality(Settled(Append(pp, l))) =
           IF l.type = "agent_settled" THEN Cardinality(Settled(pp)) + 1 ELSE Cardinality(Settled(pp))
<1>1. PICK p2 : p2 = Append(pp, l)
  OBVIOUS
<1>2. /\ Len(pp) \in Nat /\ Len(p2) = Len(pp) + 1 /\ p2[Len(pp) + 1] = l
      /\ \A i \in 1..Len(pp) : p2[i] = pp[i]
  BY <1>1, AppendProperties
<1>3. PICK x : x = Len(pp) + 1
  OBVIOUS
<1>4. PICK S : S = Settled(pp)
  OBVIOUS
<1>5. IsFiniteSet(S) /\ x \notin S
  <2>1. IsFiniteSet(S)
    BY <1>4, SettledIs
  <2>2. x \notin 1..Len(pp)
    BY <1>2, <1>3
  <2>3. QED BY <1>4, <2>1, <2>2 DEF Settled
<1>6. \A i \in 1..Len(p2) : i \in 1..Len(pp) \/ i = x
  BY <1>2, <1>3
<1>7. \A i \in 1..Len(pp) : i \in 1..Len(p2)
  BY <1>2
<1>8. x \in 1..Len(p2) /\ p2[x] = l
  BY <1>2, <1>3
<1>9. CASE l.type = "agent_settled"
  <2>1. PICK T : T = S \cup {x}
    OBVIOUS
  <2>2. Settled(p2) = T
    BY <1>2, <1>4, <1>6, <1>7, <1>8, <1>9, <2>1 DEF Settled
  <2>3. Cardinality(T) = Cardinality(S) + 1
    BY <1>5, <2>1, FS_AddElement
  <2>4. QED BY <1>1, <1>4, <1>9, <2>2, <2>3
<1>10. CASE l.type # "agent_settled"
  <2>1. Settled(p2) = S
    BY <1>2, <1>4, <1>6, <1>7, <1>8, <1>10 DEF Settled
  <2>2. QED BY <1>1, <1>4, <1>10, <2>1
<1>11. QED BY <1>9, <1>10

\* Of the turns that settle in the pipe those that were read are counted no more.
LEMMA SettledWhenRead ==
  ASSUME NEW pp \in Seq(Lines), NEW n \in 1..Len(pp), NEW p2 \in Seq(Lines),
         Len(p2) = Len(pp) - n, \A i \in 1..(Len(pp) - n) : p2[i] = pp[i + n]
  PROVE  /\ Cardinality(Settled(p2)) <= Cardinality(Settled(pp))
         /\ (\E i \in 1..n : pp[i].type = "agent_settled") =>
              Cardinality(Settled(p2)) + 1 <= Cardinality(Settled(pp))
<1>1. /\ Len(pp) \in Nat /\ n \in Nat /\ n > 0 /\ n <= Len(pp) /\ Len(p2) = Len(pp) - n
      /\ \A i \in 1..Len(p2) : p2[i] = pp[i + n]
  OBVIOUS
<1>2. PICK S, S2 : S = Settled(pp) /\ S2 = Settled(p2)
  OBVIOUS
<1>3. IsFiniteSet(S) /\ Cardinality(S) \in Nat /\ Cardinality(S2) \in Nat
  BY <1>2, SettledIs
<1>4. ASSUME NEW i \in S2 PROVE i \in Nat /\ i + n \in S /\ i + n > n
  <2>1. i \in 1..Len(p2) /\ p2[i].type = "agent_settled"
    BY <1>2 DEF Settled
  <2>2. i + n \in 1..Len(pp) /\ i + n > n /\ i \in Nat
    BY <1>1, <2>1
  <2>3. pp[i + n].type = "agent_settled"
    BY <1>1, <2>1
  <2>4. QED BY <1>2, <2>2, <2>3 DEF Settled
<1>5. ASSUME NEW T, IsFiniteSet(T), \A i \in S2 : i + n \in T
      PROVE  Cardinality(S2) <= Cardinality(T)
  <2>1. PICK f : f = [i \in S2 |-> i + n]
    OBVIOUS
  <2>2. f \in [S2 -> T]
    BY <1>5, <2>1
  <2>3. \A i, j \in S2 : f[i] = f[j] => i = j
    BY <1>1, <1>4, <2>1
  <2>4. f \in Injection(S2, T)
    BY <2>2, <2>3 DEF Injection, IsInjective
  <2>5. QED BY <1>5, <2>4, FS_Injection
<1>6. Cardinality(S2) <= Cardinality(S)
  BY <1>3, <1>4, <1>5
<1>7. ASSUME NEW i \in 1..n, pp[i].type = "agent_settled"
      PROVE  Cardinality(S2) + 1 <= Cardinality(S)
  <2>1. i \in 1..Len(pp) /\ i <= n
    BY <1>1
  <2>2. i \in S
    BY <1>2, <1>7, <2>1 DEF Settled
  <2>3. PICK T : T = S \ {i}
    OBVIOUS
  <2>4. IsFiniteSet(T) /\ Cardinality(T) = Cardinality(S) - 1
    BY <1>3, <2>2, <2>3, FS_RemoveElement
  <2>5. ASSUME NEW j \in S2 PROVE j + n \in T
    <3>1. j + n \in S /\ j + n > n /\ j \in Nat
      BY <1>4
    <3>2. j + n # i
      BY <1>1, <2>1, <3>1
    <3>3. QED BY <2>3, <3>1, <3>2
  <2>6. Cardinality(S2) <= Cardinality(T)
    BY <1>5, <2>4, <2>5
  <2>7. QED BY <1>3, <2>4, <2>6
<1>8. QED BY <1>2, <1>6, <1>7

LEMMA SaidIs ==
  ASSUME ViewTypeOK, NEW req
  PROVE  Said(req) \in Tellings
<1>1. PICK f : f = IF file \in saved THEN file ELSE None
  OBVIOUS
<1>2. PICK b \in BOOLEAN : b = (turn = "busy")
  OBVIOUS
<1>3. f \in Files \cup {None} /\ page \in Nat
  BY <1>1 DEF ViewTypeOK
<1>4. Now = [file |-> f, busy |-> b, page |-> page]
  BY <1>1, <1>2 DEF Now
<1>5. QED BY <1>3, <1>4 DEF Said, Tellings

LEMMA PiAnswersKeepsOrder ==
  ASSUME OrderedInv, PiAnswers
  PROVE  OrderedInv'
<1>1. /\ ViewTypeOK /\ op \in [Ops -> OpRecs] /\ wire \in Seq(Asks) /\ pipe \in Seq(Lines)
      /\ turns \in 0..MaxTurns /\ learns \in 0..MaxTurns
  BY TypeIs DEF OrderedInv, OrderInv, PipeIsInOrder
<1>2. wire # <<>> /\ wire' = Tail(wire) /\ UNCHANGED <<opVars, believedVars, overtaken, lost>>
  BY DEF PiAnswers
<1>3. PICK r \in Asks : r = Head(wire)
  BY <1>1, <1>2
<1>4. PICK ok \in BOOLEAN : Reply(ok) /\ (~ok => r.req \in Fails)
  <2>1. \/ Reply(TRUE)
        \/ Reply(FALSE) /\ r.req \in {"entries", "switch", "new", "fork", "tree"}
    BY <1>3 DEF PiAnswers
  <2>2. QED BY <2>1 DEF Fails, Moves
<1>5. PICK now \in Tellings : now = Said(r.req)
  BY <1>1, SaidIs
<1>6. PICK l : l = [type |-> "answer", op |-> r.op, req |-> r.req, ok |-> ok, now |-> now]
  OBVIOUS
<1>7. pipe' = Append(pipe, l)
  BY <1>3, <1>4, <1>5, <1>6 DEF Reply
<1>8. l \in Lines /\ l.type = "answer" /\ l.op = r.op /\ l.req = r.req /\ l.ok = ok
  <2>1. r.op \in Ops /\ r.req \in Requests
    BY DEF Asks
  <2>2. QED BY <1>6, <2>1 DEF Lines
<1>9. \A o, b, m : Sent(pipe, wire, o, b, m) => Sent(pipe', wire', o, b, m)
  <2>1. PICK pp, ww, pp2, ww2 : pp = pipe /\ ww = wire /\ pp2 = Append(pp, l) /\ ww2 = Tail(ww)
    OBVIOUS
  <2>2. \A o, b, m : Sent(pp, ww, o, b, m) => Sent(pp2, ww2, o, b, m)
    BY <1>1, <1>2, <1>3, <1>8, <2>1, SentWhenAnswered
  <2>3. QED BY <1>2, <1>7, <2>1, <2>2
<1>10. \A o : Began(o) <=> Began(o)'
  BY <1>2 DEF Began, opVars
<1>11. ASSUME NEW o \in Ops, Active(o)' PROVE OpIsInOrder(o)'
  BY <1>2, <1>9, <1>10, <1>11, SameOp DEF opVars
<1>12. wire' \in Seq(Asks) /\ Len(wire') = Len(wire) - 1 /\ (\A i \in 1..Len(wire') : wire'[i] = wire[i + 1]) /\ Len(wire) \in Nat
  BY <1>1, <1>2, HeadTailProperties
<1>13. WireIsInOrder'
  <2>0. PICK w2 : w2 = wire'
    OBVIOUS
  <2>1. ASSUME NEW i \in 1..Len(w2)
        PROVE  Began(w2[i].op)' /\ (w2[i].req \in Moves /\ ~Active(w2[i].op)' => lost')
    <3>1. i + 1 \in 1..Len(wire) /\ w2[i] = wire[i + 1]
      BY <1>12, <2>0
    <3>2. Began(wire[i + 1].op) /\ (wire[i + 1].req \in Moves /\ ~Active(wire[i + 1].op) => lost)
      BY <3>1 DEF OrderedInv, OrderInv, WireIsInOrder
    <3>3. QED BY <1>2, <1>10, <3>1, <3>2 DEF Active, opVars
  <2>2. QED BY <2>0, <2>1 DEF WireIsInOrder
<1>14. PipeIsInOrder'
  <2>0. PICK p2 : p2 = pipe'
    OBVIOUS
  <2>1. /\ p2 \in Seq(Lines) /\ Len(p2) = Len(pipe) + 1 /\ p2[Len(pipe) + 1] = l
        /\ Len(pipe) \in Nat /\ \A i \in 1..Len(pipe) : p2[i] = pipe[i]
    BY <1>1, <1>7, <1>8, <2>0, AppendProperties
  <2>2. ASSUME NEW i \in 1..Len(p2), p2[i].type = "answer"
        PROVE  Began(p2[i].op)' /\ (~p2[i].ok => p2[i].req \in Fails)
    <3>1. CASE i = Len(pipe) + 1
      <4>1. Len(wire) > 0 /\ wire[1] = r /\ 1 \in 1..Len(wire)
        BY <1>1, <1>2, <1>3, EmptySeq
      <4>2. Began(r.op)
        BY <4>1 DEF OrderedInv, OrderInv, WireIsInOrder
      <4>3. QED BY <1>4, <1>8, <1>10, <2>1, <3>1, <4>2
    <3>2. CASE i \in 1..Len(pipe)
      BY <1>10, <2>1, <2>2, <3>2 DEF OrderedInv, OrderInv, PipeIsInOrder
    <3>3. QED BY <2>1, <3>1, <3>2
  <2>3. QED BY <2>0, <2>1, <2>2 DEF PipeIsInOrder
<1>15. /\ turn' \in {"idle", "asked", "busy"} /\ turns' \in 0..MaxTurns
       /\ (IF turn' = "idle" THEN 0 ELSE 1) - turns' <= (IF turn = "idle" THEN 0 ELSE 1) - turns
  <2>1. \/ turn' = turn /\ turns' = turns
        \/ turn = "idle" /\ turns < MaxTurns /\ turn' = "asked" /\ turns' = turns + 1
    BY DEF PiAnswers, piVars
  <2>2. turn \in {"idle", "asked", "busy"} /\ turns \in Nat /\ turns <= MaxTurns /\ MaxTurns \in Nat
    BY <1>1, ViewAssumption DEF ViewTypeOK
  <2>3. CASE turn' = turn /\ turns' = turns
    BY <2>2, <2>3
  <2>4. CASE turn = "idle" /\ turns < MaxTurns /\ turn' = "asked" /\ turns' = turns + 1
    BY <2>2, <2>4
  <2>5. QED BY <2>1, <2>3, <2>4
<1>16. TurnsAreCounted'
  <2>1. PICK c \in Nat : c = Cardinality(Settled(pipe))
    BY <1>1, SettledIs
  <2>2. Cardinality(Settled(pipe')) = c
    <3>1. PICK x : x = Cardinality(Settled(Append(pipe, l)))
      OBVIOUS
    <3>2. x = c
      BY <1>1, <1>8, <2>1, <3>1, SettledWhenAppended
    <3>3. QED BY <1>7, <3>1, <3>2
  <2>3. learns + c + (IF turn = "idle" THEN 0 ELSE 1) <= turns
    BY <2>1 DEF OrderedInv, OrderInv, TurnsAreCounted
  <2>4. learns' = learns /\ learns \in Nat /\ turns \in Nat /\ turns' \in Nat
    BY <1>1, <1>2, <1>15, ViewAssumption DEF opVars
  <2>5. learns + c + (IF turn' = "idle" THEN 0 ELSE 1) <= turns'
    <3>1. PICK x \in 0..1, y \in 0..1 : x = (IF turn = "idle" THEN 0 ELSE 1) /\ y = (IF turn' = "idle" THEN 0 ELSE 1)
      OBVIOUS
    <3>2. y - turns' <= x - turns /\ learns + c + x <= turns
      BY <1>15, <2>3, <3>1
    <3>3. learns + c + y <= turns'
      <4>1. PICK a \in Nat, t \in Nat, u \in Nat : a = learns /\ t = turns /\ u = turns'
        BY <2>4
      <4>2. y - u <= x - t /\ a + c + x <= t
        BY <3>2, <4>1
      <4>3. a + c + y <= u
        BY <4>2
      <4>4. QED BY <4>1, <4>3
    <3>4. QED BY <3>1, <3>3
  <2>6. QED BY <2>2, <2>4, <2>5 DEF TurnsAreCounted
<1>17. file' \in Files /\ saved' \subseteq Files /\ page' \in Nat
  <2>1. file \in Files /\ saved \subseteq Files /\ page \in Nat
    BY <1>1 DEF ViewTypeOK
  <2>2. (page' = page \/ page' = page + 1) /\ (file' = file \/ file' \in saved \/ file' \in Files)
        /\ (saved' = saved \/ saved' = saved \cup {file'})
    BY <2>1 DEF PiAnswers, piVars
  <2>3. QED BY <2>1, <2>2
<1>18. ViewTypeOK'
  BY <1>1, <1>2, <1>12, <1>15, <1>17 DEF ViewTypeOK, OpRecs, Asks, opVars, believedVars
<1>19. QED BY <1>11, <1>13, <1>14, <1>16, <1>18 DEF OrderedInv, OrderInv

LEMMA PiTurnsKeepsOrder ==
  ASSUME OrderedInv, PiTurns
  PROVE  OrderedInv'
<1>1. /\ ViewTypeOK /\ op \in [Ops -> OpRecs] /\ wire \in Seq(Asks) /\ pipe \in Seq(Lines)
      /\ turns \in 0..MaxTurns /\ learns \in 0..MaxTurns
  BY TypeIs DEF OrderedInv, OrderInv, PipeIsInOrder
<1>2. UNCHANGED <<opVars, believedVars, file, page, turns, wire, overtaken, lost>>
  BY DEF PiTurns
<1>3. PICK l \in Lines :
        /\ pipe' = Append(pipe, l)
        /\ \/ l.type = "agent_start" /\ turn = "asked" /\ turn' = "busy" /\ UNCHANGED saved
           \/ l.type = "agent_settled" /\ turn = "busy" /\ turn' = "idle" /\ saved' = saved \cup {file}
  BY DEF PiTurns, Lines
<1>4. l.type # "answer"
  BY <1>3
<1>5. \A o \in Ops : \A b, m : Sent(pipe, wire, o, b, m) => Sent(pipe', wire, o, b, m)
  <2>1. PICK pp, ww, pp2 : pp = pipe /\ ww = wire /\ pp2 = Append(pp, l)
    OBVIOUS
  <2>2. \A o \in Ops : \A b, m : Sent(pp, ww, o, b, m) => Sent(pp2, ww, o, b, m)
    BY <1>1, <1>4, <2>1, SentWhenEvent
  <2>3. QED BY <1>3, <2>1, <2>2
<1>6. \A o : Began(o) <=> Began(o)'
  BY <1>2 DEF Began, opVars
<1>7. ASSUME NEW o \in Ops, Active(o)' PROVE OpIsInOrder(o)'
  BY <1>2, <1>5, <1>6, <1>7, SameOp DEF opVars
<1>8. WireIsInOrder'
  BY <1>2, <1>6 DEF OrderedInv, OrderInv, WireIsInOrder, Active, opVars
<1>9. PipeIsInOrder'
  <2>0. PICK p2 : p2 = pipe'
    OBVIOUS
  <2>1. /\ p2 \in Seq(Lines) /\ Len(p2) = Len(pipe) + 1 /\ p2[Len(pipe) + 1] = l
        /\ Len(pipe) \in Nat /\ \A i \in 1..Len(pipe) : p2[i] = pipe[i]
    BY <1>1, <1>3, <2>0, AppendProperties
  <2>2. ASSUME NEW i \in 1..Len(p2), p2[i].type = "answer"
        PROVE  Began(p2[i].op)' /\ (~p2[i].ok => p2[i].req \in Fails)
    <3>1. i \in 1..Len(pipe)
      BY <1>4, <2>1, <2>2
    <3>2. QED BY <1>6, <2>1, <2>2, <3>1 DEF OrderedInv, OrderInv, PipeIsInOrder
  <2>3. QED BY <2>0, <2>1, <2>2 DEF PipeIsInOrder
<1>10. TurnsAreCounted'
  <2>1. PICK c \in Nat : c = Cardinality(Settled(pipe))
    BY <1>1, SettledIs
  <2>2. Cardinality(Settled(pipe')) = IF l.type = "agent_settled" THEN c + 1 ELSE c
    <3>1. PICK x : x = Cardinality(Settled(Append(pipe, l)))
      OBVIOUS
    <3>2. x = IF l.type = "agent_settled" THEN c + 1 ELSE c
      BY <1>1, <2>1, <3>1, SettledWhenAppended
    <3>3. QED BY <1>3, <3>1, <3>2
  <2>3. learns + c + (IF turn = "idle" THEN 0 ELSE 1) <= turns
    BY <2>1 DEF OrderedInv, OrderInv, TurnsAreCounted
  <2>4. learns' = learns /\ learns \in Nat /\ turns \in Nat /\ turns' = turns
    BY <1>1, <1>2, ViewAssumption DEF opVars
  <2>5. CASE l.type = "agent_start" /\ turn = "asked" /\ turn' = "busy"
    <3>1. Cardinality(Settled(pipe')) = c
      BY <2>2, <2>5
    <3>2. learns + c + 1 <= turns
      BY <2>1, <2>3, <2>4, <2>5
    <3>3. QED BY <2>1, <2>4, <2>5, <3>1, <3>2 DEF TurnsAreCounted
  <2>6. CASE l.type = "agent_settled" /\ turn = "busy" /\ turn' = "idle"
    <3>1. Cardinality(Settled(pipe')) = c + 1
      BY <2>2, <2>6
    <3>2. learns + c + 1 <= turns
      BY <2>1, <2>3, <2>4, <2>6
    <3>3. QED BY <2>1, <2>4, <2>6, <3>1, <3>2 DEF TurnsAreCounted
  <2>7. QED BY <1>3, <2>5, <2>6
<1>11. ViewTypeOK'
  <2>1. turn' \in {"idle", "asked", "busy"} /\ saved' \subseteq Files
    BY <1>1, <1>3 DEF ViewTypeOK
  <2>2. QED BY <1>1, <1>2, <2>1 DEF ViewTypeOK, opVars, believedVars
<1>12. QED BY <1>7, <1>8, <1>9, <1>10, <1>11 DEF OrderedInv, OrderInv

--------------------------------------------------------------------------------
\* A chunk is read

\* Where an answer of a running operation is, its batch asked for it.
LEMMA ReqOfBatch ==
  ASSUME OrderedInv, NEW o \in Ops, Active(o), NEW p \in Places(pipe, wire, o)
  PROVE  \/ Batch(o) = <<Batch(o)[1]>> /\ Len(Batch(o)) = 1 /\ op[o].missing = 1
              /\ ReqAt(pipe, wire, p) = Batch(o)[1] /\ Places(pipe, wire, o) = {p}
         \/ Batch(o) = <<"state", "more">> /\ Batch(o)[1] = "state" /\ Len(Batch(o)) = 2
              /\ ReqAt(pipe, wire, p) \in {"state", "more"}
<1>1. PICK b, m : b = Batch(o) /\ m = op[o].missing
  OBVIOUS
<1>2. Sent(pipe, wire, o, b, m)
  BY <1>1, KindsOfRunning
<1>3. CASE m = 1 /\ b = <<b[1]>> /\ \E q \in 1..(Len(pipe) + Len(wire)) : One(pipe, wire, o, q, b[1])
  <2>1. PICK x : x = b[1]
    OBVIOUS
  <2>2. b = <<x>> /\ Len(b) = 1
    BY <1>3, <2>1
  <2>3. ReqAt(pipe, wire, p) = x /\ Places(pipe, wire, o) = {p}
    BY <1>3, <2>1 DEF One
  <2>4. Batch(o) = <<Batch(o)[1]>> /\ Len(Batch(o)) = 1 /\ op[o].missing = 1
              /\ ReqAt(pipe, wire, p) = Batch(o)[1] /\ Places(pipe, wire, o) = {p}
    BY <1>1, <1>3, <2>1, <2>2, <2>3
  <2>5. QED BY <2>4
<1>4. CASE b = <<"state", "more">> /\ Places(pipe, wire, o) # {}
           /\ \/ m = 1 /\ \E q \in 1..(Len(pipe) + Len(wire)) : q <= Len(pipe) + 1 /\ One(pipe, wire, o, q, "more")
              \/ m = 2 /\ \E q, r \in 1..(Len(pipe) + Len(wire)) :
                    /\ Places(pipe, wire, o) = {q, r}
                    /\ ReqAt(pipe, wire, q) = "state" /\ ReqAt(pipe, wire, r) = "more"
  <2>1. ReqAt(pipe, wire, p) \in {"state", "more"}
    BY <1>4 DEF One
  <2>2. Len(b) = 2 /\ b[1] = "state" /\ b = <<"state", "more">>
    BY <1>4
  <2>3. Batch(o) = <<"state", "more">> /\ Batch(o)[1] = "state" /\ Len(Batch(o)) = 2
              /\ ReqAt(pipe, wire, p) \in {"state", "more"}
    BY <1>1, <2>1, <2>2
  <2>4. QED BY <2>3
<1>5. QED BY <1>2, <1>3, <1>4 DEF Sent

LEMMA AnswerHasPlace ==
  ASSUME OrderedInv, NEW o \in Ops, NEW n \in 1..Len(pipe), NEW i \in AnswersIn(pipe, o, n)
  PROVE  /\ i \in Places(pipe, wire, o) /\ i \in 1..Len(pipe) /\ i <= n /\ ReqAt(pipe, wire, i) = pipe[i].req
         /\ pipe[i] \in [type : {"answer"}, op : Ops, req : Requests, ok : BOOLEAN, now : Tellings]
<1>1. pipe \in Seq(Lines) /\ wire \in Seq(Asks) /\ Len(pipe) \in Nat /\ Len(wire) \in Nat
  BY TypeIs DEF OrderedInv, OrderInv, PipeIsInOrder
<1>2. i \in 1..n /\ pipe[i].type = "answer" /\ pipe[i].op = o
  BY DEF AnswersIn
<1>3. i \in 1..Len(pipe) /\ i <= n /\ ~(i > Len(pipe)) /\ i \in 1..(Len(pipe) + Len(wire))
  BY <1>1, <1>2
<1>4. OpAt(pipe, wire, i) = o /\ ReqAt(pipe, wire, i) = pipe[i].req
  BY <1>2, <1>3 DEF OpAt, ReqAt
<1>5. pipe[i] \in Lines
  BY <1>1, <1>3
<1>6. pipe[i] \in [type : {"answer"}, op : Ops, req : Requests, ok : BOOLEAN, now : Tellings]
  BY <1>2, <1>5 DEF Lines
<1>7. QED BY <1>3, <1>4, <1>6 DEF Places

LEMMA AnsweredIs ==
  ASSUME OrderedInv, NEW o \in Ops, Active(o), NEW n \in 1..Len(pipe), NEW a, a = Answered(o, n)
  PROVE  /\ a \in OpRecs /\ a.kind = op[o].kind /\ a.at = op[o].at
         /\ a.missing = op[o].missing - Cardinality(AnswersIn(pipe, o, n))
         /\ a.failed <=> (op[o].failed \/ \E i \in AnswersIn(pipe, o, n) : ~pipe[i].ok)
         /\ \/ a.file = op[o].file
            \/ \E i \in AnswersIn(pipe, o, n) : pipe[i].req = "state" /\ a.file = pipe[i].now.file
         /\ \/ a.page = op[o].page /\ \A i \in AnswersIn(pipe, o, n) : pipe[i].req # "messages"
            \/ \E i \in AnswersIn(pipe, o, n) : pipe[i].req = "messages" /\ a.page = pipe[i].now.page
<1> DEFINE told(req) == {pipe[i].now : i \in {j \in Answers(o, n) : pipe[j].req = req}}
<1>1. Answers(o, n) = AnswersIn(pipe, o, n)
  BY DEF Answers, AnswersIn
<1>2. op[o] \in OpRecs
  BY KindsOfRunning
<1>3. PICK m : m = op[o].missing - Cardinality(AnswersIn(pipe, o, n))
  OBVIOUS
<1>4. m \in 0..2
  <2>1. Sent(pipe, wire, o, Batch(o), op[o].missing)
    BY KindsOfRunning
  <2>2. PICK pp, ww, p2 : pp = pipe /\ ww = wire /\ p2 = SubSeq(pp, n + 1, Len(pp))
    OBVIOUS
  <2>3. pp \in Seq(Lines) /\ ww \in Seq(Asks) /\ n \in 1..Len(pp)
    BY <2>2, TypeIs DEF OrderedInv, OrderInv, PipeIsInOrder
  <2>4. /\ p2 \in Seq(Lines) /\ Len(p2) = Len(pp) - n
        /\ \A i \in 1..(Len(pp) - n) : p2[i] = pp[i + n]
    BY <2>2, <2>3, LinesLeft
  <2>5. \A b, c : Sent(pp, ww, o, b, c) => Cardinality(AnswersIn(pp, o, n)) \in 0..c
    BY <2>3, <2>4, SentWhenRead
  <2>6. Cardinality(AnswersIn(pipe, o, n)) \in 0..op[o].missing
    BY <2>1, <2>2, <2>5
  <2>7. op[o].missing \in 0..2
    BY <1>2 DEF OpRecs
  <2>8. QED BY <1>3, <2>6, <2>7
<1>5. PICK f \in BOOLEAN : f = (op[o].failed \/ \E i \in AnswersIn(pipe, o, n) : ~pipe[i].ok)
  OBVIOUS
<1>6. PICK x : x = IF told("state") = {} THEN op[o].file ELSE (CHOOSE now \in told("state") : TRUE).file
  OBVIOUS
<1>7. PICK y : y = IF told("state") = {} THEN op[o].busy ELSE (CHOOSE now \in told("state") : TRUE).busy
  OBVIOUS
<1>8. PICK z : z = IF told("messages") = {} THEN op[o].page ELSE (CHOOSE now \in told("messages") : TRUE).page
  OBVIOUS
<1>9. ASSUME NEW S, S # {} PROVE (CHOOSE now \in S : TRUE) \in S
  BY <1>9
<1>10. \A req : told(req) \subseteq Tellings
  BY <1>1, AnswerHasPlace
<1>11. \/ told("state") = {} /\ x = op[o].file /\ y = op[o].busy
       \/ \E s \in told("state") : x = s.file /\ y = s.busy
  <2> HIDE DEF told
  <2>1. CASE told("state") # {}
    BY <1>6, <1>7, <1>9, <2>1
  <2>2. CASE told("state") = {}
    BY <1>6, <1>7, <2>2
  <2>3. QED BY <2>1, <2>2
<1>12. \/ told("messages") = {} /\ z = op[o].page
       \/ \E t \in told("messages") : z = t.page
  <2> HIDE DEF told
  <2>1. CASE told("messages") # {}
    BY <1>8, <1>9, <2>1
  <2>2. CASE told("messages") = {}
    BY <1>8, <2>2
  <2>3. QED BY <2>1, <2>2
<1>14. a = [op[o] EXCEPT !.missing = m, !.failed = f, !.file = x, !.busy = y, !.page = z]
  <2>1. a = [op[o] EXCEPT
     !.missing = op[o].missing - Cardinality(Answers(o, n)),
     !.failed = op[o].failed \/ \E i \in Answers(o, n) : ~pipe[i].ok,
     !.file = IF told("state") = {} THEN op[o].file ELSE (CHOOSE now \in told("state") : TRUE).file,
     !.busy = IF told("state") = {} THEN op[o].busy ELSE (CHOOSE now \in told("state") : TRUE).busy,
     !.page = IF told("messages") = {} THEN op[o].page ELSE (CHOOSE now \in told("messages") : TRUE).page]
    BY Zenon DEF Answered
  <2>2. op[o].missing - Cardinality(Answers(o, n)) = m
    BY <1>1, <1>3
  <2>3. (op[o].failed \/ \E i \in Answers(o, n) : ~pipe[i].ok) = f
    BY <1>1, <1>5
  <2>4. QED BY <1>6, <1>7, <1>8, <2>1, <2>2, <2>3, Zenon
<1>15. x \in Files \cup {None} /\ y \in BOOLEAN /\ z \in Nat
  <2>1. op[o].file \in Files \cup {None} /\ op[o].busy \in BOOLEAN /\ op[o].page \in Nat
    BY <1>2 DEF OpRecs
  <2> HIDE DEF told
  <2>2. QED BY <1>10, <1>11, <1>12, <2>1 DEF Tellings
<1>16. a \in OpRecs /\ a.kind = op[o].kind /\ a.at = op[o].at
  BY <1>2, <1>4, <1>14, <1>15 DEF OpRecs
<1>17. a.missing = m /\ (a.failed <=> f) /\ a.file = x /\ a.page = z
  BY <1>2, <1>14 DEF OpRecs
<1>18. x = op[o].file \/ \E i \in AnswersIn(pipe, o, n) : pipe[i].req = "state" /\ x = pipe[i].now.file
  BY <1>1, <1>11
<1>19. \/ z = op[o].page /\ \A i \in AnswersIn(pipe, o, n) : pipe[i].req # "messages"
       \/ \E i \in AnswersIn(pipe, o, n) : pipe[i].req = "messages" /\ z = pipe[i].now.page
  BY <1>1, <1>12
<1>20. QED BY <1>3, <1>5, <1>16, <1>17, <1>18, <1>19

\* A running operation is in order when its answers have come.
LEMMA AnsweredInOrder ==
  ASSUME OrderedInv, NEW o \in Ops, Active(o), ~Due(o), NEW n \in 1..Len(pipe), Began(o)',
         NEW a, a = Answered(o, n), op'[o] = a,
         Sent(pipe', wire', o, Batch(o), op[o].missing - Cardinality(AnswersIn(pipe, o, n))),
         Cardinality(AnswersIn(pipe, o, n)) \in 0..op[o].missing,
         IsFiniteSet(AnswersIn(pipe, o, n))
  PROVE  OpIsInOrder(o)'
<1> DEFINE A == AnswersIn(pipe, o, n)
<1>1. /\ op[o].kind \in DOMAIN Program /\ op[o].at \in 1..Len(Program[op[o].kind]) /\ BatchIs(Batch(o))
      /\ op[o].missing \in Nat /\ op[o].missing <= Len(Batch(o)) /\ Len(Batch(o)) \in Nat
  BY KindsOfRunning
<1>2. op[o].missing # 0 /\ ~op[o].failed
  BY DEF Due
<1>3. /\ a.kind = op[o].kind /\ a.at = op[o].at /\ a.missing = op[o].missing - Cardinality(A)
      /\ a.failed => \E i \in A : ~pipe[i].ok
      /\ \/ a.file = op[o].file
         \/ \E i \in A : pipe[i].req = "state" /\ a.file = pipe[i].now.file
  BY <1>2, AnsweredIs
<1>4. ASSUME NEW i \in A PROVE Cardinality(A) \in Nat /\ Cardinality(A) > 0
  <2>1. A # {}
    OBVIOUS
  <2>2. Cardinality(A) \in Nat /\ Cardinality(A) # 0
    BY <2>1, FS_CardinalityType, FS_EmptySet
  <2>3. QED BY <2>2
<1>5. a.failed => a.missing = 0 /\ Batch(o)[1] \in Fails
  <2>1. SUFFICES ASSUME NEW i \in A, ~pipe[i].ok PROVE a.missing = 0 /\ Batch(o)[1] \in Fails
    BY <1>3
  <2>2. /\ i \in Places(pipe, wire, o) /\ i \in 1..Len(pipe) /\ ReqAt(pipe, wire, i) = pipe[i].req
        /\ pipe[i].type = "answer"
    BY AnswerHasPlace
  <2>3. pipe[i].req \in Fails
    BY <2>1, <2>2 DEF OrderedInv, OrderInv, PipeIsInOrder
  <2>4. ReqAt(pipe, wire, i) = Batch(o)[1] /\ op[o].missing = 1
    BY <2>2, <2>3, ReqOfBatch DEF Fails, Moves
  <2>5. Cardinality(A) = 1
    BY <1>4, <2>4
  <2>6. QED BY <1>3, <2>2, <2>3, <2>4, <2>5
<1>6. a.file # None => Batch(o)[1] = "state" /\ a.missing < Len(Batch(o))
  <2>1. CASE a.file = op[o].file
    <3>1. a.file # None => Batch(o)[1] = "state" /\ op[o].missing < Len(Batch(o))
      BY <2>1 DEF OrderedInv, OrderInv, OpIsInOrder
    <3>2. a.missing <= op[o].missing /\ a.missing \in Int
      BY <1>1, <1>3
    <3>3. QED BY <1>1, <3>1, <3>2
  <2>2. ASSUME NEW i \in A, pipe[i].req = "state" PROVE Batch(o)[1] = "state" /\ a.missing < Len(Batch(o))
    <3>1. i \in Places(pipe, wire, o) /\ ReqAt(pipe, wire, i) = "state"
      BY <2>2, AnswerHasPlace
    <3>2. Batch(o)[1] = "state"
      BY <3>1, ReqOfBatch
    <3>3. a.missing < op[o].missing
      BY <1>1, <1>3, <1>4
    <3>4. QED BY <1>1, <1>3, <3>2, <3>3
  <2>3. QED BY <1>3, <2>1, <2>2
<1>7. PICK k, m, b, at : k = op[o].kind /\ m = a.missing /\ b = Batch(o) /\ at = op[o].at
  OBVIOUS
<1>8. b = Program[k][at] /\ at \in 1..Len(Program[k]) /\ Sent(pipe', wire', o, b, m)
  BY <1>1, <1>3, <1>7 DEF Batch
<1>9. op'[o].kind = k /\ op'[o].at = at /\ op'[o].missing = m
  BY <1>3, <1>7
<1>10. op'[o].failed => m = 0 /\ b[1] \in Fails
  BY <1>5, <1>7
<1>11. op'[o].file # None => b[1] = "state" /\ m < Len(b)
  BY <1>6, <1>7
<1>12. QED BY <1>8, <1>9, <1>10, <1>11, InOrder

Learns(n) == sessionFile = None /\ \E i \in Events(n) : pipe[i].type = "agent_settled"
Learner == UserOps + learns + 1

\* What a chunk leaves of the pipe, and what becomes of the operations.
LEMMA ChunkIs ==
  ASSUME OrderedInv, NEW n \in 1..Len(pipe), ReadChunk(n)
  PROVE  /\ pipe' \in Seq(Lines) /\ Len(pipe') = Len(pipe) - n
         /\ \A i \in 1..(Len(pipe) - n) : pipe'[i] = pipe[i + n]
         /\ Learns(n) => \E l \in Ops : /\ l = Learner /\ Began(l)' /\ ~Began(l) /\ learns < MaxTurns
                                       /\ op'[l] = Asking(l, "learn", 1)
                                       /\ wire' = wire \o Asked(l, "learn", 1)
         /\ ~Learns(n) => wire' = wire
         /\ \A o : Began(o) => Began(o)' /\ ~(Learns(n) /\ o = Learner)
         /\ \A o \in Ops : Active(o) => op'[o] = Answered(o, n)
         /\ \A o \in Ops : ~(Learns(n) /\ o = Learner) /\ ~Active(o) => op'[o] = op[o]
<1>1. /\ ViewTypeOK /\ op \in [Ops -> OpRecs] /\ wire \in Seq(Asks) /\ pipe \in Seq(Lines)
      /\ turns \in 0..MaxTurns /\ learns \in 0..MaxTurns /\ started \in 0..UserOps
  BY TypeIs DEF OrderedInv, OrderInv, PipeIsInOrder
<1>2. /\ pipe' \in Seq(Lines) /\ Len(pipe') = Len(pipe) - n
      /\ \A i \in 1..(Len(pipe) - n) : pipe'[i] = pipe[i + n]
  <2>1. PICK pp : pp = pipe
    OBVIOUS
  <2>2. PICK p2 : p2 = SubSeq(pp, n + 1, Len(pp))
    OBVIOUS
  <2>3. p2 \in Seq(Lines) /\ Len(p2) = Len(pp) - n /\ \A i \in 1..(Len(pp) - n) : p2[i] = pp[i + n]
    BY <1>1, <2>1, <2>2, LinesLeft
  <2>4. pipe' = p2
    BY <2>1, <2>2 DEF ReadChunk
  <2>5. QED BY <2>1, <2>3, <2>4
<1>3. /\ learns' = IF Learns(n) THEN learns + 1 ELSE learns
      /\ wire' = IF Learns(n) THEN wire \o Asked(Learner, "learn", 1) ELSE wire
      /\ started' = started
      /\ op' = [o \in Ops |-> CASE Learns(n) /\ o = Learner -> Asking(o, "learn", 1)
                                [] Active(o) -> Answered(o, n)
                                [] OTHER -> op[o]]
  BY Zenon DEF ReadChunk, Learns, Learner
<1>4. ASSUME Learns(n) PROVE learns < MaxTurns
  <2>1. PICK i \in 1..n : pipe[i].type = "agent_settled"
    BY <1>4 DEF Learns, Events
  <2>2. PICK c \in Nat, d \in Nat : c = Cardinality(Settled(pipe)) /\ d = Cardinality(Settled(pipe'))
    <3>1. Cardinality(Settled(pipe)) \in Nat
      BY <1>1, SettledIs
    <3>2. Cardinality(Settled(pipe')) \in Nat
      <4>1. PICK p2 \in Seq(Lines) : p2 = pipe'
        BY <1>2
      <4>2. Cardinality(Settled(p2)) \in Nat
        BY SettledIs
      <4>3. QED BY <4>1, <4>2
    <3>3. QED BY <3>1, <3>2
  <2>3. d + 1 <= c
    <3>1. PICK pp, p2 : pp = pipe /\ p2 = pipe'
      OBVIOUS
    <3>2. pp \in Seq(Lines) /\ p2 \in Seq(Lines) /\ n \in 1..Len(pp) /\ Len(p2) = Len(pp) - n
          /\ (\A j \in 1..(Len(pp) - n) : p2[j] = pp[j + n]) /\ \E j \in 1..n : pp[j].type = "agent_settled"
      BY <1>1, <1>2, <2>1, <3>1
    <3>3. Cardinality(Settled(p2)) + 1 <= Cardinality(Settled(pp))
      BY <3>2, SettledWhenRead
    <3>4. QED BY <2>2, <3>1, <3>3
  <2>4. PICK x \in 0..1 : x = (IF turn = "idle" THEN 0 ELSE 1)
    OBVIOUS
  <2>5. learns + c + x <= turns
    BY <2>2, <2>4 DEF OrderedInv, OrderInv, TurnsAreCounted
  <2>6. QED BY <1>1, <2>2, <2>3, <2>5, ViewAssumption
<1>5. Learns(n) => \E l \in Ops : l = Learner /\ Began(l)' /\ ~Began(l)
  <2>1. PICK l : l = UserOps + learns + 1
    OBVIOUS
  <2>2. Learns(n) => l \in Ops /\ Began(l)' /\ ~Began(l)
    BY <1>1, <1>3, <1>4, <2>1, ViewAssumption DEF Ops, Began
  <2>3. QED BY <2>1, <2>2 DEF Learner
<1>6. \A o : Began(o) => Began(o)'
  BY <1>1, <1>3, BeganStays, ViewAssumption
<1>7. \A o \in Ops : Active(o) => Began(o)
  BY DEF OrderedInv, OrderInv, OpIsInOrder
<1>8. Learns(n) => \E l \in Ops : /\ l = Learner /\ Began(l)' /\ ~Began(l)
                                 /\ op'[l] = Asking(l, "learn", 1)
                                 /\ wire' = wire \o Asked(l, "learn", 1)
  <2>1. SUFFICES ASSUME Learns(n)
                 PROVE  \E l \in Ops : /\ l = Learner /\ Began(l)' /\ ~Began(l)
                                       /\ op'[l] = Asking(l, "learn", 1)
                                       /\ wire' = wire \o Asked(l, "learn", 1)
    OBVIOUS
  <2>2. PICK o \in Ops : o = Learner /\ Began(o)' /\ ~Began(o)
    BY <1>5, <2>1
  <2>3. op'[o] = Asking(o, "learn", 1)
    <3>1. ~Active(o)
      BY <1>7, <2>2
    <3>2. QED BY <1>3, <2>1, <2>2, <3>1
  <2>4. wire' = wire \o Asked(o, "learn", 1)
    BY <1>3, <2>1, <2>2
  <2>5. QED BY <2>2, <2>3, <2>4
<1>9. ASSUME NEW o \in Ops, Active(o) PROVE op'[o] = Answered(o, n)
  <2>1. ~(Learns(n) /\ o = Learner)
    BY <1>5, <1>7, <1>9
  <2>2. QED BY <1>3, <1>9, <2>1
<1>10. ASSUME NEW o \in Ops, ~(Learns(n) /\ o = Learner), ~Active(o) PROVE op'[o] = op[o]
  BY <1>3, <1>10
<1>11. QED BY <1>2, <1>3, <1>4, <1>5, <1>6, <1>8, <1>9, <1>10

LEMMA ChunkOfOne ==
  ASSUME OrderedInv, NEW n \in 1..Len(pipe), ReadChunk(n), NEW o \in Ops
  PROVE  /\ IsFiniteSet(AnswersIn(pipe, o, n))
         /\ Places(pipe', wire, o) = {p - n : p \in {q \in Places(pipe, wire, o) : q > n}}
         /\ AnswersIn(pipe, o, n) = {q \in Places(pipe, wire, o) : q <= n}
         /\ \A b, m : Sent(pipe, wire, o, b, m) =>
              /\ Cardinality(AnswersIn(pipe, o, n)) \in 0..m
              /\ Sent(pipe', wire, o, b, m - Cardinality(AnswersIn(pipe, o, n)))
<1>1. PICK pp, ww, p2 : pp = pipe /\ ww = wire /\ p2 = pipe'
  OBVIOUS
<1>2. pp \in Seq(Lines) /\ ww \in Seq(Asks) /\ p2 \in Seq(Lines) /\ n \in 1..Len(pp) /\ Len(p2) = Len(pp) - n
      /\ \A j \in 1..(Len(pp) - n) : p2[j] = pp[j + n]
  BY <1>1, ChunkIs, TypeIs DEF OrderedInv, OrderInv, PipeIsInOrder
<1>3. /\ Places(p2, ww, o) = {p - n : p \in {q \in Places(pp, ww, o) : q > n}}
      /\ AnswersIn(pp, o, n) = {q \in Places(pp, ww, o) : q <= n}
      /\ \A b, m : Sent(pp, ww, o, b, m) =>
              /\ Cardinality(AnswersIn(pp, o, n)) \in 0..m
              /\ Sent(p2, ww, o, b, m - Cardinality(AnswersIn(pp, o, n)))
  BY <1>2, SentWhenRead
<1>4. IsFiniteSet(AnswersIn(pp, o, n))
  <2>1. PICK A : A = AnswersIn(pp, o, n)
    OBVIOUS
  <2>2. n \in Nat /\ IsFiniteSet(1..n)
    BY <1>2, FS_Interval
  <2>3. A \in SUBSET (1..n)
    BY <2>1 DEF AnswersIn
  <2>4. QED BY <2>1, <2>2, <2>3, FS_Subset
<1>5. QED BY <1>1, <1>3, <1>4

LEMMA ReadKeepsOrder ==
  ASSUME OrderedInv, NEW n \in 1..Len(pipe), ReadChunk(n)
  PROVE  OrderedInv'
<1>1. /\ ViewTypeOK /\ op \in [Ops -> OpRecs] /\ wire \in Seq(Asks) /\ pipe \in Seq(Lines) /\ Len(pipe) \in Nat
      /\ turns \in 0..MaxTurns /\ learns \in 0..MaxTurns /\ started \in 0..UserOps
  BY TypeIs DEF OrderedInv, OrderInv, PipeIsInOrder
<1>2. /\ Calm /\ streaming' = StreamingAfter(n) /\ learns' = IF Learns(n) THEN learns + 1 ELSE learns
      /\ UNCHANGED <<started, sessionFile, shown, piVars, overtaken, lost>>
      /\ op' = [o \in Ops |-> op'[o]]
  BY DEF ReadChunk, Learns
<1>3. "learn" \in DOMAIN Program /\ 1 \in 1..Len(Program["learn"]) /\ "learn" # "none"
  BY ProgramIs
<1>4. ASSUME NEW l \in Ops PROVE Asking(l, "learn", 1) \in OpRecs /\ Asking(l, "learn", 1).kind = "learn"
  BY <1>1, <1>3, AskingIs
<1>5. ASSUME NEW o \in Ops, Active(o)
      PROVE  op'[o] \in OpRecs /\ Active(o)'
  <2>1. PICK a : a = Answered(o, n)
    OBVIOUS
  <2>2. a \in OpRecs /\ a.kind = op[o].kind
    BY <1>5, <2>1, AnsweredIs
  <2>3. op'[o] = a
    BY <1>5, <2>1, ChunkIs
  <2>4. QED BY <1>5, <2>2, <2>3 DEF Active
<1>6. ASSUME NEW o \in Ops PROVE op'[o] \in OpRecs
  <2>1. CASE Active(o)
    BY <1>5, <2>1
  <2>2. CASE Learns(n) /\ o = Learner
    <3>1. PICK l \in Ops : l = Learner /\ op'[l] = Asking(l, "learn", 1)
      BY <2>2, ChunkIs
    <3>2. QED BY <1>4, <2>2, <3>1
  <2>3. CASE ~Active(o) /\ ~(Learns(n) /\ o = Learner)
    <3>1. op'[o] = op[o]
      BY <2>3, ChunkIs
    <3>2. QED BY <1>1, <3>1
  <2>4. QED BY <2>1, <2>2, <2>3
<1>7. op' \in [Ops -> OpRecs]
  BY <1>2, <1>6
<1>8. \A o : Began(o) => Began(o)'
  BY ChunkIs
<1>9. wire' \in Seq(Asks) /\ WireIsInOrder'
  <2>1. CASE ~Learns(n)
    <3>1. wire' = wire
      BY <2>1, ChunkIs
    <3>2. ASSUME NEW i \in 1..Len(wire)
          PROVE  Began(wire[i].op)' /\ (wire[i].req \in Moves /\ ~Active(wire[i].op)' => lost')
      <4>1. Began(wire[i].op) /\ (wire[i].req \in Moves /\ ~Active(wire[i].op) => lost)
        BY DEF OrderedInv, OrderInv, WireIsInOrder
      <4>2. wire[i] \in Asks
        BY <1>1
      <4>3. PICK x \in Ops : x = wire[i].op
        BY <4>2 DEF Asks
      <4>4. Began(x) /\ (wire[i].req \in Moves /\ ~Active(x) => lost)
        BY <4>1, <4>3
      <4>5. Began(x)' /\ (wire[i].req \in Moves /\ ~Active(x)' => lost')
        BY <1>2, <1>5, <1>8, <4>4
      <4>6. PICK w : w = wire
        OBVIOUS
      <4>7. Began(w[i].op)' /\ (w[i].req \in Moves /\ ~Active(w[i].op)' => lost')
        BY <4>3, <4>5, <4>6
      <4>8. wire' = w
        BY <3>1, <4>6
      <4>9. QED BY <3>1, <4>6, <4>7, <4>8
    <3>3. QED BY <1>1, <3>1, <3>2 DEF WireIsInOrder
  <2>2. CASE Learns(n)
    <3>1. PICK i \in Ops : /\ i = Learner /\ Began(i)' /\ op'[i] = Asking(i, "learn", 1)
                           /\ wire' = wire \o Asked(i, "learn", 1)
      BY <2>2, ChunkIs
    <3>2. Active(i)'
      BY <1>3, <1>4, <3>1 DEF Active
    <3>3. \A o \in Ops : Active(o) => Active(o)'
      BY <1>5
    <3>4. lost' = lost
      BY <1>2
    <3>5. QED BY <1>3, <1>8, <3>1, <3>2, <3>3, <3>4, LongerWire
  <2>3. QED BY <2>1, <2>2
<1>10. PICK p2 \in Seq(Lines) : p2 = pipe'
  BY ChunkIs
<1>11. Len(p2) = Len(pipe) - n /\ \A i \in 1..(Len(pipe) - n) : p2[i] = pipe[i + n]
  BY <1>10, ChunkIs
<1>12. PipeIsInOrder'
  <2>1. ASSUME NEW i \in 1..Len(p2), p2[i].type = "answer"
        PROVE  Began(p2[i].op)' /\ (~p2[i].ok => p2[i].req \in Fails)
    <3>1. i + n \in 1..Len(pipe) /\ i \in 1..(Len(pipe) - n)
      BY <1>1, <1>11
    <3>2. PICK x : x = pipe[i + n]
      OBVIOUS
    <3>3. p2[i] = x
      BY <1>11, <3>1, <3>2
    <3>4. Began(x.op) /\ (~x.ok => x.req \in Fails)
      BY <2>1, <3>1, <3>2, <3>3 DEF OrderedInv, OrderInv, PipeIsInOrder
    <3>5. Began(x.op)'
      BY <1>8, <3>4
    <3>6. QED BY <3>3, <3>4, <3>5
  <2>2. QED BY <1>10, <2>1 DEF PipeIsInOrder
<1>13. TurnsAreCounted' /\ learns' \in 0..MaxTurns
  <2>1. PICK c \in Nat, d \in Nat : c = Cardinality(Settled(pipe)) /\ d = Cardinality(Settled(p2))
    BY <1>1, SettledIs
  <2>2. d <= c /\ (Learns(n) => d + 1 <= c)
    <3>1. PICK pp \in Seq(Lines) : pp = pipe
      BY <1>1
    <3>2. n \in 1..Len(pp) /\ Len(p2) = Len(pp) - n /\ \A j \in 1..(Len(pp) - n) : p2[j] = pp[j + n]
      BY <1>11, <3>1
    <3>3. /\ Cardinality(Settled(p2)) <= Cardinality(Settled(pp))
          /\ (\E i \in 1..n : pp[i].type = "agent_settled") =>
               Cardinality(Settled(p2)) + 1 <= Cardinality(Settled(pp))
      BY <3>2, SettledWhenRead
    <3>4. Learns(n) => \E i \in 1..n : pp[i].type = "agent_settled"
      BY <3>1 DEF Learns, Events
    <3>5. QED BY <2>1, <3>1, <3>3, <3>4
  <2>3. PICK x \in 0..1 : x = (IF turn = "idle" THEN 0 ELSE 1)
    OBVIOUS
  <2>4. learns + c + x <= turns
    BY <2>1, <2>3 DEF OrderedInv, OrderInv, TurnsAreCounted
  <2>5. learns' + d + x <= turns /\ learns' \in Nat /\ learns' <= turns
    <3>1. PICK a \in Nat, t \in Nat : a = learns /\ t = turns
      BY <1>1, ViewAssumption
    <3>2. CASE Learns(n)
      BY <1>2, <2>1, <2>2, <2>4, <3>1, <3>2
    <3>3. CASE ~Learns(n)
      BY <1>2, <2>1, <2>2, <2>4, <3>1, <3>3
    <3>4. QED BY <3>2, <3>3
  <2>6. learns' \in 0..MaxTurns
    BY <1>1, <2>5, ViewAssumption
  <2>7. turn' = turn /\ turns' = turns
    BY <1>2 DEF piVars
  <2>8. Cardinality(Settled(pipe')) = d
    BY <1>10, <2>1
  <2>9. QED BY <2>3, <2>5, <2>6, <2>7, <2>8 DEF TurnsAreCounted
<1>14. ASSUME NEW o \in Ops, Active(o)' PROVE OpIsInOrder(o)'
  <2>1. CASE Learns(n) /\ o = Learner
    <3>1. Began(o)' /\ ~Began(o) /\ op'[o] = Asking(o, "learn", 1) /\ wire' = wire \o Asked(o, "learn", 1)
      <4>1. PICK i \in Ops : /\ i = Learner /\ Began(i)' /\ ~Began(i) /\ op'[i] = Asking(i, "learn", 1)
                             /\ wire' = wire \o Asked(i, "learn", 1)
        BY <2>1, ChunkIs
      <4>2. i = o
        BY <2>1, <4>1
      <4>3. QED BY <4>1, <4>2
    <3>2. Places(pipe, wire, o) = {}
      BY <3>1, PlacesBegan
    <3>3. Places(pipe', wire, o) = {}
      <4>1. Places(pipe', wire, o) = {p - n : p \in {q \in Places(pipe, wire, o) : q > n}}
        BY ChunkOfOne
      <4>2. QED BY <3>2, <4>1
    <3>4. Places(p2, wire, o) = {}
      BY <1>10, <3>3
    <3>5. PICK e : e = Asking(o, "learn", 1)
      OBVIOUS
    <3>6. op'[o] = e /\ pipe' = p2
      BY <1>10, <3>1, <3>5
    <3>7. QED BY <1>3, <3>1, <3>4, <3>5, <3>6, NewBatchInOrder
  <2>2. CASE ~(Learns(n) /\ o = Learner)
    <3>1. Active(o)
      <4>1. SUFFICES ASSUME ~Active(o) PROVE FALSE
        OBVIOUS
      <4>2. op'[o] = op[o]
        BY <2>2, <4>1, ChunkIs
      <4>3. QED BY <1>14, <4>1, <4>2 DEF Active
    <3>2. PICK a : a = Answered(o, n)
      OBVIOUS
    <3>3. op'[o] = a /\ Began(o)'
      <4>1. op'[o] = a
        BY <3>1, <3>2, ChunkIs
      <4>2. Began(o)
        BY <3>1 DEF OrderedInv, OrderInv, OpIsInOrder
      <4>3. QED BY <1>8, <4>1, <4>2
    <3>4. PICK b, m : b = Batch(o) /\ m = op[o].missing
      OBVIOUS
    <3>5. Sent(pipe, wire, o, b, m)
      BY <3>1, <3>4, KindsOfRunning
    <3>6. PICK c : c = m - Cardinality(AnswersIn(pipe, o, n))
      OBVIOUS
    <3>7. Cardinality(AnswersIn(pipe, o, n)) \in 0..m /\ Sent(p2, wire, o, b, c) /\ IsFiniteSet(AnswersIn(pipe, o, n))
      <4>1. Cardinality(AnswersIn(pipe, o, n)) \in 0..m
        BY <3>5, ChunkOfOne
      <4>2. Sent(pipe', wire, o, b, m - Cardinality(AnswersIn(pipe, o, n)))
        BY <3>5, ChunkOfOne
      <4>3. Sent(p2, wire, o, b, c)
        BY <1>10, <3>6, <4>2
      <4>4. QED BY <4>1, <4>3, ChunkOfOne
    <3>8. Sent(p2, wire', o, b, c)
      <4>1. CASE ~Learns(n)
        <5>1. wire' = wire
          BY <4>1, ChunkIs
        <5>2. QED BY <3>7, <5>1
      <4>2. CASE Learns(n)
        <5>1. PICK i \in Ops : i = Learner /\ wire' = wire \o Asked(i, "learn", 1)
          BY <4>2, ChunkIs
        <5>2. o # i
          BY <2>2, <4>2, <5>1
        <5>3. Sent(p2, wire \o Asked(i, "learn", 1), o, b, c)
          BY <1>3, <3>7, <5>2, OthersAsk
        <5>4. QED BY <5>1, <5>3
      <4>3. QED BY <4>1, <4>2
    <3>9. Sent(pipe', wire', o, Batch(o), op[o].missing - Cardinality(AnswersIn(pipe, o, n)))
      BY <1>10, <3>4, <3>6, <3>8
    <3>10. ~Due(o) /\ Cardinality(AnswersIn(pipe, o, n)) \in 0..op[o].missing
      BY <1>2, <3>4, <3>7 DEF Calm
    <3>11. QED BY <3>1, <3>2, <3>3, <3>7, <3>9, <3>10, AnsweredInOrder
  <2>3. QED BY <2>1, <2>2
<1>15. ViewTypeOK'
  <2>1. streaming' \in BOOLEAN
    BY <1>1, <1>2 DEF StreamingAfter, ViewTypeOK
  <2>2. QED BY <1>1, <1>2, <1>7, <1>9, <1>13, <2>1 DEF ViewTypeOK, OpRecs, Asks, piVars
<1>16. QED BY <1>9, <1>12, <1>13, <1>14, <1>15 DEF OrderedInv, OrderInv

LEMMA InitIsInOrder == ViewInit => OrderedInv
<1> SUFFICES ASSUME ViewInit PROVE OrderedInv
  OBVIOUS
<1>1. op = [o \in Ops |-> NoOp] /\ wire = <<>> /\ pipe = <<>> /\ started = 0 /\ learns = 0 /\ turns = 0
      /\ turn = "idle"
  BY DEF ViewInit
<1>2. \A o \in Ops : ~Active(o)
  BY <1>1, NoOpIs DEF Active
<1>3. op \in [Ops -> OpRecs]
  BY <1>1, NoOpIs
<1>4. ViewTypeOK
  <2>1. wire \in Seq([op : Ops, req : Requests])
    BY <1>1
  <2>2. /\ sessionFile \in Files \cup {None} /\ streaming \in BOOLEAN /\ shown \in Nat
        /\ file \in Files /\ saved \subseteq Files /\ page \in Nat
        /\ turn \in {"idle", "asked", "busy"} /\ overtaken \in BOOLEAN /\ lost \in BOOLEAN
    BY ViewAssumption DEF ViewInit
  <2>3. started \in 0..UserOps /\ learns \in 0..MaxTurns /\ turns \in 0..MaxTurns
    BY <1>1, ViewAssumption
  <2>4. QED BY <1>3, <2>1, <2>2, <2>3 DEF ViewTypeOK, OpRecs
<1>5. Cardinality(Settled(pipe)) = 0
  <2>1. Settled(pipe) = {}
    BY <1>1 DEF Settled
  <2>2. QED BY <2>1, FS_EmptySet
<1>6. PipeIsInOrder /\ WireIsInOrder /\ TurnsAreCounted
  BY <1>1, <1>5 DEF PipeIsInOrder, WireIsInOrder, TurnsAreCounted
<1>7. QED BY <1>2, <1>4, <1>6 DEF OrderedInv, OrderInv

LEMMA NextKeepsOrder == OrderedInv /\ [ViewNext]_viewVars => OrderedInv'
<1> SUFFICES ASSUME OrderedInv, [ViewNext]_viewVars PROVE OrderedInv'
  OBVIOUS
<1>1. CASE \E k \in Kinds : Begin(k)
  BY <1>1, BeginKeepsOrder
<1>2. CASE \E n \in 1..Len(pipe) : ReadChunk(n)
  BY <1>2, ReadKeepsOrder
<1>3. CASE \E o \in Ops : Continue(o)
  BY <1>3, ContinueKeepsOrder
<1>4. CASE \E o \in Ops : TimesOut(o)
  BY <1>4, TimeOutKeepsOrder
<1>5. CASE PiAnswers
  BY <1>5, PiAnswersKeepsOrder
<1>6. CASE PiTurns
  BY <1>6, PiTurnsKeepsOrder
<1>7. CASE ViewStop \/ UNCHANGED viewVars
  <2>1. UNCHANGED viewVars
    BY <1>7 DEF ViewStop
  <2>2. UNCHANGED <<sessionFile, streaming, shown, started, learns, op, wire, pipe, file, saved, page,
                    turn, turns, overtaken, lost>>
    BY <2>1 DEF viewVars, opVars, believedVars, piVars
  <2>3. ViewTypeOK'
    BY <2>2 DEF OrderedInv, ViewTypeOK
  <2>4. PipeIsInOrder' /\ WireIsInOrder' /\ TurnsAreCounted'
    BY <2>2 DEF OrderedInv, OrderInv, PipeIsInOrder, WireIsInOrder, TurnsAreCounted, Began, Active,
       Settled
  <2>5. \A o \in Ops : Active(o)' => OpIsInOrder(o)'
    BY <2>2 DEF OrderedInv, OrderInv, OpIsInOrder, Began, Active, Batch
  <2>6. QED BY <2>3, <2>4, <2>5 DEF OrderedInv, OrderInv
<1>8. QED BY <1>1, <1>2, <1>3, <1>4, <1>5, <1>6, <1>7 DEF ViewNext

--------------------------------------------------------------------------------
\* Whether a turn runs

EventsIn(pp, n) == {i \in 1..n : pp[i].type # "answer"}
EndsStarted(pp, n) == \E i \in EventsIn(pp, n) : pp[i].type = "agent_start" /\ \A j \in EventsIn(pp, n) : j <= i

\* Whether a turn is taken to run after n lines, when s is what was taken before.
Takes(pp, n, s) == (EventsIn(pp, n) = {} /\ s) \/ EndsStarted(pp, n)

LEMMA TakesIs ==
  ASSUME ViewTypeOK, NEW n
  PROVE  StreamingAfter(n) <=> Takes(pipe, n, streaming)
<1>1. streaming \in BOOLEAN
  BY DEF ViewTypeOK
<1>2. Events(n) = EventsIn(pipe, n)
  BY DEF Events, EventsIn
<1>3. CASE Events(n) = {}
  BY <1>1, <1>2, <1>3 DEF StreamingAfter, Takes, EndsStarted
<1>4. CASE Events(n) # {}
  BY <1>1, <1>2, <1>4 DEF StreamingAfter, Takes, EndsStarted
<1>5. QED BY <1>3, <1>4

\* A chunk that is read changes nothing of what the whole pipe says.
LEMMA TakesWhenRead ==
  ASSUME NEW pp \in Seq(Lines), NEW n \in 1..Len(pp), NEW p2 \in Seq(Lines), NEW s,
         Len(p2) = Len(pp) - n, \A i \in 1..(Len(pp) - n) : p2[i] = pp[i + n]
  PROVE  Takes(p2, Len(p2), Takes(pp, n, s)) <=> Takes(pp, Len(pp), s)
<1>1. Len(pp) \in Nat /\ Len(p2) \in Nat /\ n \in Nat /\ n <= Len(pp)
  OBVIOUS
<1>2. \A i \in EventsIn(p2, Len(p2)) : i + n \in EventsIn(pp, Len(pp)) /\ p2[i] = pp[i + n] /\ i \in Nat
  BY <1>1 DEF EventsIn
<1>3. \A i \in EventsIn(pp, Len(pp)) :
        i \in Nat /\ (i \in EventsIn(pp, n) \/ (i > n /\ i - n \in EventsIn(p2, Len(p2))))
  <2>1. ASSUME NEW i \in EventsIn(pp, Len(pp)), i > n PROVE i - n \in EventsIn(p2, Len(p2))
    <3>1. i \in 1..Len(pp) /\ pp[i].type # "answer"
      BY DEF EventsIn
    <3>2. i - n \in 1..Len(p2) /\ (i - n) + n = i
      BY <1>1, <2>1, <3>1
    <3>3. p2[i - n] = pp[i]
      BY <3>2
    <3>4. QED BY <3>1, <3>2, <3>3 DEF EventsIn
  <2>2. ASSUME NEW i \in EventsIn(pp, Len(pp)), ~(i > n) PROVE i \in EventsIn(pp, n)
    BY <1>1, <2>2 DEF EventsIn
  <2>3. \A i \in EventsIn(pp, Len(pp)) : i \in Nat
    BY DEF EventsIn
  <2>4. QED BY <2>1, <2>2, <2>3
<1>4. \A i \in EventsIn(pp, n) : i \in EventsIn(pp, Len(pp)) /\ i <= n /\ i \in Nat
  BY <1>1 DEF EventsIn
<1>5. CASE EventsIn(p2, Len(p2)) = {}
  <2>1. EventsIn(pp, Len(pp)) = EventsIn(pp, n)
    BY <1>3, <1>4, <1>5
  <2>2. ~EndsStarted(p2, Len(p2))
    BY <1>5 DEF EndsStarted
  <2>3. EndsStarted(pp, Len(pp)) <=> EndsStarted(pp, n)
    BY <2>1 DEF EndsStarted
  <2>4. QED BY <1>5, <2>1, <2>2, <2>3 DEF Takes
<1>6. CASE EventsIn(p2, Len(p2)) # {}
  <2>1. EventsIn(pp, Len(pp)) # {}
    BY <1>2, <1>6
  <2>2. ASSUME EndsStarted(p2, Len(p2)) PROVE EndsStarted(pp, Len(pp))
    <3>1. PICK i \in EventsIn(p2, Len(p2)) :
            p2[i].type = "agent_start" /\ \A j \in EventsIn(p2, Len(p2)) : j <= i
      BY <2>2 DEF EndsStarted
    <3>2. i + n \in EventsIn(pp, Len(pp)) /\ pp[i + n].type = "agent_start" /\ i \in Nat
      BY <1>2, <3>1
    <3>3. ASSUME NEW j \in EventsIn(pp, Len(pp)) PROVE j <= i + n
      <4>1. CASE j \in EventsIn(pp, n)
        BY <1>1, <1>4, <3>2, <4>1
      <4>2. CASE j > n /\ j - n \in EventsIn(p2, Len(p2))
        <5>1. j - n <= i /\ j \in Nat
          BY <1>3, <3>1, <4>2
        <5>2. QED BY <1>1, <3>2, <5>1
      <4>3. QED BY <1>3, <4>1, <4>2
    <3>4. QED BY <3>2, <3>3 DEF EndsStarted
  <2>3. ASSUME EndsStarted(pp, Len(pp)) PROVE EndsStarted(p2, Len(p2))
    <3>1. PICK i \in EventsIn(pp, Len(pp)) :
            pp[i].type = "agent_start" /\ \A j \in EventsIn(pp, Len(pp)) : j <= i
      BY <2>3 DEF EndsStarted
    <3>2. i > n /\ i - n \in EventsIn(p2, Len(p2)) /\ i \in Nat
      <4>1. PICK j \in EventsIn(p2, Len(p2)) : TRUE
        BY <1>6
      <4>2. j + n <= i /\ j \in Nat /\ j >= 1 /\ i \in Nat
        BY <1>2, <1>3, <3>1 DEF EventsIn
      <4>3. i > n
        BY <1>1, <4>2
      <4>4. QED BY <1>1, <1>3, <1>4, <4>2, <4>3
    <3>3. p2[i - n].type = "agent_start"
      <4>1. (i - n) + n = i
        BY <1>1, <3>2
      <4>2. QED BY <1>2, <3>1, <3>2, <4>1
    <3>4. ASSUME NEW j \in EventsIn(p2, Len(p2)) PROVE j <= i - n
      <4>1. j + n <= i /\ j \in Nat
        BY <1>2, <3>1
      <4>2. QED BY <1>1, <3>2, <4>1
    <3>5. QED BY <3>2, <3>3, <3>4 DEF EndsStarted
  <2>4. QED BY <1>6, <2>1, <2>2, <2>3 DEF Takes
<1>7. QED BY <1>5, <1>6

\* pi writes a line.
LEMMA TakesWhenAppended ==
  ASSUME NEW pp \in Seq(Lines), NEW l \in Lines, NEW s, NEW p2, p2 = Append(pp, l)
  PROVE  /\ l.type = "answer" => (Takes(p2, Len(p2), s) <=> Takes(pp, Len(pp), s))
         /\ l.type # "answer" => (Takes(p2, Len(p2), s) <=> l.type = "agent_start")
<1>1. Len(pp) \in Nat /\ Len(p2) = Len(pp) + 1 /\ p2[Len(p2)] = l /\ \A i \in 1..Len(pp) : p2[i] = pp[i]
  OBVIOUS
<1>2. \A i \in EventsIn(pp, Len(pp)) : i \in EventsIn(p2, Len(p2)) /\ i \in Nat /\ i <= Len(pp)
  BY <1>1 DEF EventsIn
<1>3. \A i \in EventsIn(p2, Len(p2)) : i = Len(p2) \/ i \in EventsIn(pp, Len(pp))
  BY <1>1 DEF EventsIn
<1>4. CASE l.type = "answer"
  <2>1. EventsIn(p2, Len(p2)) = EventsIn(pp, Len(pp))
    BY <1>1, <1>2, <1>3, <1>4 DEF EventsIn
  <2>2. \A i \in EventsIn(pp, Len(pp)) : p2[i] = pp[i]
    BY <1>1 DEF EventsIn
  <2>3. QED BY <1>4, <2>1, <2>2 DEF Takes, EndsStarted
<1>5. CASE l.type # "answer"
  <2>1. Len(p2) \in EventsIn(p2, Len(p2))
    BY <1>1, <1>5 DEF EventsIn
  <2>2. \A i \in EventsIn(p2, Len(p2)) : i <= Len(p2) /\ i \in Nat
    BY <1>1 DEF EventsIn
  <2>3. \A i \in EventsIn(p2, Len(p2)) : i >= Len(p2) => i = Len(p2)
    BY <1>1, <2>2
  <2>4. QED BY <1>1, <1>5, <2>1, <2>2, <2>3 DEF Takes, EndsStarted
<1>6. QED BY <1>4, <1>5

\* The line pi writes when it answers: it says what is so, and only a move that succeeds
\* changes pi's file or history.
LEMMA PiAnswersLine ==
  ASSUME OrderedInv, PiAnswers
  PROVE  \E r \in Asks : \E l \in Lines :
           /\ wire # <<>> /\ r = Head(wire) /\ wire' = Tail(wire) /\ pipe' = Append(pipe, l)
           /\ l.type = "answer" /\ l.op = r.op /\ l.req = r.req /\ l.now = Said(r.req)
           /\ (l.ok /\ r.req \in Moves) \/ UNCHANGED <<file, saved, page>>
<1>1. ViewTypeOK /\ wire \in Seq(Asks) /\ wire # <<>> /\ wire' = Tail(wire)
  BY TypeIs DEF OrderedInv, PiAnswers
<1>2. PICK r \in Asks : r = Head(wire)
  BY <1>1
<1>3. PICK ok \in BOOLEAN : Reply(ok) /\ ((ok /\ r.req \in Moves) \/ UNCHANGED <<file, saved, page>>)
  <2>1. \/ Reply(TRUE) /\ (r.req \in Moves \/ UNCHANGED <<file, saved, page>>)
        \/ Reply(FALSE) /\ UNCHANGED <<file, saved, page>>
    BY <1>2 DEF PiAnswers, piVars, Moves
  <2>2. QED BY <2>1
<1>4. PICK now \in Tellings : now = Said(r.req)
  BY <1>1, SaidIs
<1>5. PICK l : l = [type |-> "answer", op |-> r.op, req |-> r.req, ok |-> ok, now |-> now]
  OBVIOUS
<1>6. pipe' = Append(pipe, l)
  BY <1>2, <1>3, <1>4, <1>5 DEF Reply
<1>7. l \in Lines /\ l.type = "answer" /\ l.op = r.op /\ l.req = r.req /\ l.ok = ok /\ l.now = now
  <2>1. r.op \in Ops /\ r.req \in Requests
    BY DEF Asks
  <2>2. QED BY <1>5, <2>1 DEF Lines
<1>8. QED BY <1>1, <1>2, <1>3, <1>4, <1>6, <1>7

LEMMA InitKnowsTurns == ViewInit => TurnInv
<1> SUFFICES ASSUME ViewInit PROVE TurnInv
  OBVIOUS
<1>1. Takes(pipe, Len(pipe), streaming) = FALSE
  BY DEF ViewInit, Takes, EndsStarted, EventsIn
<1>2. ViewTypeOK
  BY InitIsInOrder DEF OrderedInv
<1>3. ~After
  BY <1>1, <1>2, TakesIs DEF After
<1>4. QED BY <1>3 DEF ViewInit, TurnInv

LEMMA AfterIs ==
  ASSUME OrderedInv
  PROVE  After <=> Takes(pipe, Len(pipe), streaming)
BY TakesIs DEF OrderedInv, After

LEMMA AfterNext ==
  ASSUME OrderedInv, [ViewNext]_viewVars
  PROVE  After' <=> Takes(pipe', Len(pipe'), streaming')
<1>1. ViewTypeOK'
  BY NextKeepsOrder DEF OrderedInv
<1>2. streaming' \in BOOLEAN
  BY <1>1 DEF ViewTypeOK
<1>3. Events(Len(pipe))' = EventsIn(pipe', Len(pipe'))
  BY DEF Events, EventsIn
<1>4. CASE Events(Len(pipe))' = {}
  BY <1>2, <1>3, <1>4 DEF After, StreamingAfter, Takes, EndsStarted
<1>5. CASE Events(Len(pipe))' # {}
  BY <1>2, <1>3, <1>5 DEF After, StreamingAfter, Takes, EndsStarted
<1>6. QED BY <1>4, <1>5

\* Turns stay known when only operations change.
LEMMA SameTurns ==
  ASSUME OrderedInv, [ViewNext]_viewVars, TurnInv, pipe' = pipe, streaming' = streaming, turn' = turn,
         overtaken' = overtaken
  PROVE  TurnInv'
<1>1. After' <=> After
  BY AfterIs, AfterNext
<1>2. QED BY <1>1 DEF TurnInv

LEMMA NextKnowsTurns == OrderedInv /\ TurnInv /\ [ViewNext]_viewVars => TurnInv'
<1> SUFFICES ASSUME OrderedInv, TurnInv, [ViewNext]_viewVars PROVE TurnInv'
  OBVIOUS
<1>1. CASE \E k \in Kinds : Begin(k)
  BY <1>1, SameTurns DEF Begin, believedVars, piVars
<1>2. ASSUME NEW n \in 1..Len(pipe), ReadChunk(n)
      PROVE  TurnInv'
  <2>1. PICK pp, p2, s, s2 : pp = pipe /\ p2 = pipe' /\ s = streaming /\ s2 = streaming'
    OBVIOUS
  <2>2. /\ pp \in Seq(Lines) /\ n \in 1..Len(pp) /\ p2 \in Seq(Lines) /\ Len(p2) = Len(pp) - n
        /\ \A i \in 1..(Len(pp) - n) : p2[i] = pp[i + n]
    BY <1>2, <2>1, ChunkIs DEF OrderedInv, OrderInv, PipeIsInOrder
  <2>3. s2 = Takes(pp, n, s)
    <3>1. streaming' = StreamingAfter(n)
      BY <1>2 DEF ReadChunk
    <3>2. StreamingAfter(n) \in BOOLEAN /\ streaming \in BOOLEAN
      BY DEF StreamingAfter, OrderedInv, ViewTypeOK
    <3>3. StreamingAfter(n) <=> Takes(pipe, n, streaming)
      BY TakesIs DEF OrderedInv
    <3>4. StreamingAfter(n) <=> Takes(pp, n, s)
      BY <2>1, <3>3
    <3>5. Takes(pp, n, s) \in BOOLEAN
      BY <2>1, <3>2 DEF Takes, EndsStarted
    <3>6. QED BY <2>1, <3>1, <3>2, <3>4, <3>5
  <2>4. Takes(p2, Len(p2), Takes(pp, n, s)) <=> Takes(pp, Len(pp), s)
    BY <2>2, TakesWhenRead
  <2>5. Takes(p2, Len(p2), s2) <=> Takes(pp, Len(pp), s)
    BY <2>3, <2>4
  <2>6. After' <=> After
    <3>1. After <=> Takes(pp, Len(pp), s)
      BY <2>1, AfterIs
    <3>2. After' <=> Takes(p2, Len(p2), s2)
      BY <2>1, AfterNext
    <3>3. QED BY <2>5, <3>1, <3>2
  <2>7. turn' = turn /\ overtaken' = overtaken
    BY <1>2 DEF ReadChunk, piVars
  <2>8. QED BY <2>6, <2>7 DEF TurnInv
<1>3. ASSUME NEW o \in Ops, Continue(o)
      PROVE  TurnInv'
  <2>1. PICK r : r = (op[o].kind \in Hydrates /\ ("messages" \in ToSet(Batch(o)) /\ ~op[o].failed) /\ op[o].busy)
    OBVIOUS
  <2>2. /\ pipe' = pipe /\ turn' = turn /\ streaming' = (streaming \/ r)
        /\ overtaken' = (overtaken \/ (r /\ ~streaming))
    BY <1>3, <2>1 DEF Continue, piVars
  <2>3. streaming \in BOOLEAN /\ overtaken \in BOOLEAN
    BY DEF OrderedInv, ViewTypeOK
  <2>4. After => After'
    BY <2>2, <2>3, AfterIs, AfterNext DEF Takes
  <2>5. After' /\ ~After => r /\ ~streaming
    BY <2>2, <2>3, AfterIs, AfterNext DEF Takes
  <2>6. QED BY <2>2, <2>3, <2>4, <2>5 DEF TurnInv
<1>4. CASE \E o \in Ops : TimesOut(o)
  BY <1>4, SameTurns DEF TimesOut, believedVars, piVars
<1>5. CASE PiAnswers
  <2>1. PICK l \in Lines : l.type = "answer" /\ pipe' = Append(pipe, l)
    BY <1>5, PiAnswersLine
  <2>2. PICK pp, p2 : pp = pipe /\ p2 = pipe'
    OBVIOUS
  <2>3. pp \in Seq(Lines) /\ p2 = Append(pp, l)
    BY <2>1, <2>2 DEF OrderedInv, OrderInv, PipeIsInOrder
  <2>4. Takes(p2, Len(p2), streaming) <=> Takes(pp, Len(pp), streaming)
    <3>1. PICK s : s = streaming
      OBVIOUS
    <3>2. Takes(p2, Len(p2), s) <=> Takes(pp, Len(pp), s)
      BY <2>1, <2>3, TakesWhenAppended
    <3>3. QED BY <3>1, <3>2
  <2>5. streaming' = streaming /\ overtaken' = overtaken /\ (turn' = "busy" <=> turn = "busy")
    BY <1>5 DEF PiAnswers, believedVars, piVars
  <2>6. After' <=> After
    BY <2>2, <2>4, <2>5, AfterIs, AfterNext
  <2>7. QED BY <2>5, <2>6 DEF TurnInv
<1>6. CASE PiTurns
  <2>1. PICK l \in Lines : l.type # "answer" /\ pipe' = Append(pipe, l) /\ (l.type = "agent_start" <=> turn' = "busy")
    <3>1. CASE turn = "asked"
      <4>1. pipe' = Append(pipe, [type |-> "agent_start"]) /\ turn' = "busy"
        BY <1>6, <3>1 DEF PiTurns
      <4>2. [type |-> "agent_start"] \in Lines
        BY DEF Lines
      <4>3. QED BY <4>1, <4>2
    <3>2. CASE turn = "busy"
      <4>1. pipe' = Append(pipe, [type |-> "agent_settled"]) /\ turn' = "idle"
        BY <1>6, <3>2 DEF PiTurns
      <4>2. [type |-> "agent_settled"] \in Lines
        BY DEF Lines
      <4>3. QED BY <4>1, <4>2
    <3>3. QED BY <1>6, <3>1, <3>2 DEF PiTurns
  <2>2. PICK pp, p2 : pp = pipe /\ p2 = pipe'
    OBVIOUS
  <2>3. pp \in Seq(Lines) /\ p2 = Append(pp, l)
    BY <2>1, <2>2 DEF OrderedInv, OrderInv, PipeIsInOrder
  <2>4. Takes(p2, Len(p2), streaming') <=> l.type = "agent_start"
    <3>1. PICK s : s = streaming'
      OBVIOUS
    <3>2. Takes(p2, Len(p2), s) <=> l.type = "agent_start"
      BY <2>1, <2>3, TakesWhenAppended
    <3>3. QED BY <3>1, <3>2
  <2>5. After' <=> turn' = "busy"
    BY <2>1, <2>2, <2>4, AfterNext
  <2>6. QED BY <2>5 DEF TurnInv
<1>7. CASE ViewStop \/ UNCHANGED viewVars
  BY <1>7, SameTurns DEF ViewStop, viewVars, believedVars, piVars
<1>8. QED BY <1>1, <1>2, <1>3, <1>4, <1>5, <1>6, <1>7 DEF ViewNext

--------------------------------------------------------------------------------
\* The session's file and the history shown, step by step

\* An operation that ends, or that asks its next batch, was told nothing old.
LEMMA NewOpIsNotOld ==
  ASSUME OrderedInv, NEW i \in Ops,
         op'[i] = NoOp \/ \E k \in DOMAIN Program : \E n \in 1..Len(Program[k]) : op'[i] = Asking(i, k, n)
  PROVE  ~OldOp(i)'
<1>1. CASE op'[i] = NoOp
  BY <1>1, NoOpIs DEF OldOp, Active
<1>2. CASE \E k \in DOMAIN Program : \E n \in 1..Len(Program[k]) : op'[i] = Asking(i, k, n)
  <2>1. PICK k \in DOMAIN Program : \E n \in 1..Len(Program[k]) : op'[i] = Asking(i, k, n)
    BY <1>2
  <2>2. PICK n \in 1..Len(Program[k]) : op'[i] = Asking(i, k, n)
    BY <2>1
  <2>3. PICK e : e = Asking(i, k, n)
    OBVIOUS
  <2>4. e.missing = Size(k, n) /\ e.file = None
    BY <2>3, AskingIs DEF OrderedInv
  <2>5. Size(k, n) \in 1..2
    <3>1. BatchIs(Program[k][n])
      BY BatchesAre
    <3>2. QED BY <3>1 DEF BatchIs, Size
  <2>6. op'[i].missing # 0 /\ op'[i].file = None
    BY <2>2, <2>3, <2>4, <2>5
  <2>7. QED BY <2>6 DEF OldOp, Good
<1>3. QED BY <1>1, <1>2

\* What an operation asks does not move the places of another.
LEMMA PlacesOfOthers ==
  ASSUME OrderedInv, NEW pp \in Seq(Lines), NEW i \in Ops, NEW a, a # i,
         \/ wire' = wire
         \/ \E k \in DOMAIN Program : \E n \in 1..Len(Program[k]) : wire' = wire \o Asked(i, k, n)
  PROVE  /\ Places(pp, wire', a) = Places(pp, wire, a)
         /\ \A p \in 1..Len(pp) : OpAt(pp, wire', p) = OpAt(pp, wire, p)
<1>1. CASE wire' = wire
  BY <1>1
<1>2. CASE \E k \in DOMAIN Program : \E n \in 1..Len(Program[k]) : wire' = wire \o Asked(i, k, n)
  <2>1. PICK k \in DOMAIN Program : \E n \in 1..Len(Program[k]) : wire' = wire \o Asked(i, k, n)
    BY <1>2
  <2>2. PICK n \in 1..Len(Program[k]) : wire' = wire \o Asked(i, k, n)
    BY <2>1
  <2>3. PICK s, b : s = Asked(i, k, n) /\ b = Program[k][n]
    OBVIOUS
  <2>4. s \in Seq(Asks) /\ \A j \in 1..Len(s) : s[j].op = i
    BY <2>3, AskedAre
  <2>5. PICK ww \in Seq(Asks) : ww = wire
    BY TypeIs DEF OrderedInv
  <2>6. PICK w2 : w2 = ww \o s
    OBVIOUS
  <2>7. w2 \in Seq(Asks) /\ Longer(w2, ww, s)
    BY <2>4, <2>6, LineLonger DEF Longer
  <2>8. Places(pp, w2, a) = Places(pp, ww, a)
    BY <2>4, <2>7, SentWhenOthersAsk
  <2>9. \A p \in 1..Len(pp) : OpAt(pp, w2, p) = OpAt(pp, ww, p)
    BY DEF OpAt
  <2>10. w2 = wire'
    BY <2>2, <2>3, <2>5, <2>6
  <2>11. QED BY <2>5, <2>8, <2>9, <2>10
<1>3. QED BY <1>1, <1>2

\* Operation i begins, goes on or ends, the lines of pi stay: what followed a move of pi
\* still does, unless it was i.
Steps(i) ==
  /\ UNCHANGED <<pipe, file, saved, page>>
  /\ \A a \in Ops : a # i => op'[a] = op[a]
  /\ \/ wire' = wire
     \/ \E k \in DOMAIN Program : \E n \in 1..Len(Program[k]) : wire' = wire \o Asked(i, k, n)
  /\ ~OldOp(i)'
  /\ Places(pipe, wire, i) = {} \/ ~Active(i)'

LEMMA OldWhenSteps ==
  ASSUME OrderedInv, NEW i \in Ops, Steps(i)
  PROVE  /\ \A f : Good(f)' <=> Good(f)
         /\ \A j : OldLine(j)' <=> OldLine(j)
         /\ \A a \in Ops : OldOp(a)' => a # i /\ OldOp(a)
         /\ NoOldLine => NoOldLine'
         /\ NoOldOp => NoOldOp'
<1>1. UNCHANGED <<pipe, file, saved, page>>
  BY DEF Steps
<1>2. ASSUME NEW f PROVE Good(f)' <=> Good(f)
  BY <1>1 DEF Good, Now
<1>3. \A j : OldLine(j)' <=> OldLine(j)
  BY <1>1, <1>2 DEF OldLine
<1>4. ASSUME NEW a \in Ops, OldOp(a)' PROVE a # i /\ OldOp(a)
  <2>1. a # i
    BY <1>4 DEF Steps
  <2>2. op'[a] = op[a]
    BY <2>1 DEF Steps
  <2>3. QED BY <1>1, <1>2, <1>4, <2>1, <2>2 DEF OldOp, Active, Batch
<1>5. NoOldLine => NoOldLine'
  BY <1>1, <1>3 DEF NoOldLine
<1>6. NoOldOp => NoOldOp'
  BY <1>4 DEF NoOldOp
<1>7. QED BY <1>2, <1>3, <1>4, <1>5, <1>6

LEMMA OpOfLine ==
  ASSUME OrderedInv, NEW j \in 1..Len(pipe), pipe[j].type = "answer"
  PROVE  /\ pipe[j].op \in Ops /\ pipe[j].req \in Requests /\ pipe[j].ok \in BOOLEAN /\ Began(pipe[j].op)
         /\ j \in Places(pipe, wire, pipe[j].op) /\ ReqAt(pipe, wire, j) = pipe[j].req
<1>1. pipe \in Seq(Lines) /\ Began(pipe[j].op)
  BY DEF OrderedInv, OrderInv, PipeIsInOrder
<1>2. PICK l : l = pipe[j]
  OBVIOUS
<1>3. l \in [type : {"answer"}, op : Ops, req : Requests, ok : BOOLEAN, now : Tellings]
  BY <1>1, <1>2 DEF Lines
<1>4. Len(wire) \in Nat /\ Len(pipe) \in Nat
  BY <1>1, TypeIs DEF OrderedInv
<1>5. ~(j > Len(pipe)) /\ j \in 1..(Len(pipe) + Len(wire))
  BY <1>4
<1>6. QED BY <1>1, <1>2, <1>3, <1>5 DEF Places, OpAt, ReqAt

LEMMA FollowsWhenSteps ==
  ASSUME OrderedInv, NEW i \in Ops, Steps(i), NEW f \in Ops, f # i, Follows(f),
         Located(f) => Good(sessionFile')
  PROVE  Follows(f)'
<1>1. /\ UNCHANGED <<pipe, file, saved, page>> /\ op'[f] = op[f]
      /\ \A a \in Ops : a # i => op'[a] = op[a]
      /\ Places(pipe, wire, i) = {} \/ ~Active(i)'
  BY DEF Steps
<1>2. pipe \in Seq(Lines) /\ Len(pipe) \in Nat
  BY DEF OrderedInv, OrderInv, PipeIsInOrder
<1>3. Active(f)' /\ (op[f].kind \in Movers)' /\ ~op'[f].failed /\ Batch(f)' = Batch(f)
  BY <1>1 DEF Follows, Active, Batch
<1>4. ASSUME NEW a \in Ops, a # i
      PROVE  Places(pipe, wire', a) = Places(pipe, wire, a)
  <2>1. \/ wire' = wire
        \/ \E k \in DOMAIN Program : \E n \in 1..Len(Program[k]) : wire' = wire \o Asked(i, k, n)
    BY DEF Steps
  <2>2. QED BY <1>2, <1>4, <2>1, PlacesOfOthers
<1>5. CASE Moving(f)
  <2>1. PICK p \in 1..Len(pipe) :
          /\ OpAt(pipe, wire, p) = f /\ pipe[p].ok
          /\ \A j \in 1..Len(pipe) : OldLine(j) =>
               j < p /\ (Active(pipe[j].op) => Before(pipe[j].op, p))
          /\ \A a \in Ops : OldOp(a) => Before(a, p)
    BY <1>5 DEF Moving
  <2>2. OpAt(pipe', wire', p) = f /\ pipe'[p].ok
    BY <1>1, <1>2, <2>1 DEF OpAt
  <2>3. ASSUME NEW j \in 1..Len(pipe), OldLine(j)'
        PROVE  j < p /\ (Active(pipe[j].op)' => Before(pipe[j].op, p)')
    <3>1. OldLine(j)
      BY <2>3, OldWhenSteps
    <3>2. pipe[j].type = "answer"
      BY <3>1 DEF OldLine
    <3>3. PICK a \in Ops : a = pipe[j].op /\ j \in Places(pipe, wire, a)
      BY <3>2, OpOfLine
    <3>4. j < p /\ (Active(a) => Before(a, p))
      BY <2>1, <3>1, <3>3
    <3>5. Active(a)' => Before(a, p)'
      <4>1. SUFFICES ASSUME Active(a)' PROVE Before(a, p)'
        OBVIOUS
      <4>2. a # i
        BY <1>1, <3>3, <4>1
      <4>3. Active(a)
        BY <1>1, <4>1, <4>2 DEF Active
      <4>4. Before(a, p)
        BY <3>4, <4>3
      <4>5. QED BY <1>1, <1>4, <4>2, <4>4 DEF Before
    <3>6. PICK x : x = pipe[j]
      OBVIOUS
    <3>7. Active(x.op)' => Before(x.op, p)'
      BY <3>3, <3>5, <3>6
    <3>8. pipe'[j] = x
      BY <1>1, <3>6
    <3>9. QED BY <1>1, <3>3, <3>4, <3>6, <3>7, <3>8
  <2>4. ASSUME NEW a \in Ops, OldOp(a)' PROVE Before(a, p)'
    <3>1. a # i /\ OldOp(a)
      BY <2>4, OldWhenSteps
    <3>2. Before(a, p)
      BY <2>1, <3>1
    <3>3. QED BY <1>1, <1>4, <3>1, <3>2 DEF Before
  <2>5. Batch(f)'[1] \in Moves
    BY <1>3, <1>5 DEF Moving
  <2>6. Moving(f)'
    BY <1>1, <2>2, <2>3, <2>4, <2>5 DEF Moving
  <2>7. QED BY <1>3, <2>6 DEF Follows
<1>6. CASE Moved(f)
  <2>1. NoOldLine' /\ (NoOldOp => NoOldOp')
    BY <1>6, OldWhenSteps DEF Moved
  <2>2. ASSUME NEW a \in Ops, OldOp(a)' PROVE Due(a)'
    <3>1. a # i /\ OldOp(a)
      BY <2>2, OldWhenSteps
    <3>2. Due(a)
      BY <1>6, <3>1 DEF Moved
    <3>3. QED BY <1>1, <3>1, <3>2 DEF Due, Active
  <2>3. Moved(f)'
    BY <1>1, <1>3, <1>6, <2>1, <2>2 DEF Moved
  <2>4. QED BY <1>3, <2>3 DEF Follows
<1>7. CASE Located(f)
  <2>1. NoOldLine' /\ NoOldOp'
    BY <1>7, OldWhenSteps DEF Located
  <2>2. Good(sessionFile')
    BY <1>7
  <2>3. Good(sessionFile)'
    BY <1>1, <2>2 DEF Good, Now
  <2>4. Located(f)'
    BY <1>3, <1>7, <2>1, <2>3 DEF Located
  <2>5. QED BY <1>3, <2>4 DEF Follows
<1>8. QED BY <1>5, <1>6, <1>7 DEF Follows

LEMMA CleanWhenSteps ==
  ASSUME OrderedInv, NEW i \in Ops, Steps(i), NoOldLine, NoOldOp, Good(sessionFile'), shown' = page
  PROVE  Clean'
<1>1. NoOldLine' /\ NoOldOp'
  BY OldWhenSteps
<1>2. UNCHANGED <<file, saved, page>>
  BY DEF Steps
<1>3. Good(sessionFile)'
  BY <1>2 DEF Good, Now
<1>4. QED BY <1>1, <1>2, <1>3 DEF Clean

LEMMA BeginKeepsTrace ==
  ASSUME OrderedInv, Trace, NEW k \in Kinds, Begin(k)
  PROVE  Trace'
<1>1. /\ started \in Nat /\ started < UserOps /\ started' = started + 1
      /\ learns \in 0..MaxTurns /\ k \in DOMAIN Program /\ 1 \in 1..Len(Program[k])
  <2>1. started \in Nat /\ started < UserOps /\ started' = started + 1 /\ learns \in 0..MaxTurns
    BY TypeIs, ViewAssumption DEF OrderedInv, Begin
  <2>2. k \in DOMAIN Program
    BY ViewAssumption
  <2>3. QED BY <2>1, <2>2, BatchesAre
<1>2. PICK i \in Ops : i = started'
  BY <1>1, ViewAssumption DEF Ops
<1>3. PICK e : e = Asking(i, k, 1)
  OBVIOUS
<1>4. /\ op' = [op EXCEPT ![i] = e] /\ wire' = wire \o Asked(i, k, 1)
      /\ UNCHANGED <<pipe, file, saved, page, sessionFile, shown, lost>>
  BY <1>2, <1>3 DEF Begin, believedVars, piVars
<1>5. op'[i] = e /\ \A a \in Ops : a # i => op'[a] = op[a]
  <2>1. op \in [Ops -> OpRecs]
    BY TypeIs DEF OrderedInv
  <2>2. QED BY <1>4, <2>1
<1>6. ~OldOp(i)'
  BY <1>1, <1>3, <1>5, NewOpIsNotOld
<1>7. Places(pipe, wire, i) = {} /\ ~Active(i)
  <2>1. ~Began(i)
    BY <1>1, <1>2, ViewAssumption DEF Began
  <2>2. QED BY <2>1, PlacesBegan DEF OrderedInv, OrderInv, OpIsInOrder
<1>8. Steps(i)
  BY <1>1, <1>4, <1>5, <1>6, <1>7 DEF Steps
<1>9. CASE lost
  BY <1>4, <1>9 DEF Trace
<1>10. CASE Clean
  <2>1. Clean'
    BY <1>4, <1>8, <1>10, CleanWhenSteps DEF Clean
  <2>2. QED BY <2>1 DEF Trace
<1>11. ASSUME NEW f \in Ops, Follows(f) PROVE Trace'
  <2>1. f # i
    BY <1>7, <1>11 DEF Follows
  <2>2. Located(f) => Good(sessionFile')
    BY <1>4 DEF Located
  <2>3. Follows(f)'
    BY <1>8, <1>11, <2>1, <2>2, FollowsWhenSteps
  <2>4. QED BY <2>3 DEF Trace
<1>12. QED BY <1>9, <1>10, <1>11 DEF Trace

LEMMA TimeOutKeepsTrace ==
  ASSUME OrderedInv, Trace, NEW o \in Ops, TimesOut(o)
  PROVE  Trace'
<1>1. /\ op' = [op EXCEPT ![o] = NoOp] /\ lost' = (lost \/ op[o].kind \in Movers)
      /\ UNCHANGED <<pipe, wire, file, saved, page, sessionFile, shown>>
  BY DEF TimesOut, believedVars, piVars
<1>2. op'[o] = NoOp /\ \A a \in Ops : a # o => op'[a] = op[a]
  <2>1. op \in [Ops -> OpRecs]
    BY TypeIs DEF OrderedInv
  <2>2. QED BY <1>1, <2>1
<1>3. ~OldOp(o)' /\ ~Active(o)'
  BY <1>2, NewOpIsNotOld, NoOpIs DEF Active
<1>4. Steps(o)
  BY <1>1, <1>2, <1>3 DEF Steps
<1>5. CASE lost
  BY <1>1, <1>5 DEF Trace
<1>6. CASE Clean
  <2>1. Clean'
    BY <1>1, <1>4, <1>6, CleanWhenSteps DEF Clean
  <2>2. QED BY <2>1 DEF Trace
<1>7. ASSUME NEW f \in Ops, Follows(f) PROVE Trace'
  <2>1. CASE f = o
    BY <1>1, <1>7, <2>1 DEF Follows, Trace
  <2>2. CASE f # o
    <3>1. Located(f) => Good(sessionFile')
      BY <1>1 DEF Located
    <3>2. Follows(f)'
      BY <1>4, <1>7, <2>2, <3>1, FollowsWhenSteps
    <3>3. QED BY <3>2 DEF Trace
  <2>3. QED BY <2>1, <2>2
<1>8. QED BY <1>5, <1>6, <1>7 DEF Trace

\* What an operation that goes on has of its batch: the state if that is its first request,
\* the messages if they are.
LEMMA BatchHas ==
  ASSUME NEW b, BatchIs(b)
  PROVE  /\ "state" \in ToSet(b) <=> b[1] = "state"
         /\ "messages" \in ToSet(b) <=> b[1] = "messages"
         /\ b[1] = "messages" => b = <<"messages">>
<1>1. CASE b = <<b[1]>> /\ Len(b) = 1
  <2>1. PICK x : x = b[1]
    OBVIOUS
  <2>2. b = <<x>>
    BY <1>1, <2>1
  <2>3. ToSet(<<x>>) = {x}
    BY DEF ToSet
  <2>4. ToSet(b) = {x}
    BY <2>2, <2>3
  <2>5. QED BY <2>1, <2>2, <2>4
<1>2. CASE b = <<"state", "more">>
  <2>1. ToSet(<<"state", "more">>) = {"state", "more"}
    BY DEF ToSet
  <2>2. QED BY <1>2, <2>1
<1>3. QED BY <1>1, <1>2 DEF BatchIs

LEMMA ContinueSteps ==
  ASSUME OrderedInv, NEW o \in Ops, Continue(o)
  PROVE  /\ Steps(o) /\ Active(o) /\ BatchIs(Batch(o)) /\ op[o].missing = 0 /\ Places(pipe, wire, o) = {}
         /\ sessionFile' = IF Batch(o)[1] = "state" /\ ~op[o].failed THEN op[o].file ELSE sessionFile
         /\ shown' = IF Batch(o)[1] = "messages" /\ ~op[o].failed THEN op[o].page ELSE shown
         /\ lost' = lost
         /\ \A k, n : k = op[o].kind /\ n = op[o].at + 1 /\ ~op[o].failed /\ n <= Len(Program[k]) =>
              op'[o] = Asking(o, k, n)
<1>1. Active(o) /\ op[o].missing = 0 /\ Places(pipe, wire, o) = {}
  BY DueIsAnswered DEF Continue
<1>2. UNCHANGED <<learns, piVars, pipe, lost>> /\ GoOn(o)
  BY DEF Continue
<1>3. PICK k : k = op[o].kind
  OBVIOUS
<1>4. k \in DOMAIN Program /\ op[o].at \in 1..Len(Program[k]) /\ BatchIs(Batch(o)) /\ Len(Program[k]) \in 1..5
  BY <1>1, <1>3, KindsOfRunning, BatchesAre
<1>5. PICK n : n = op[o].at + 1
  OBVIOUS
<1>6. PICK e : e = Asking(o, k, n)
  OBVIOUS
<1>7. op \in [Ops -> OpRecs]
  BY TypeIs DEF OrderedInv
<1>8. \/ /\ op[o].failed \/ n > Len(Program[k])
         /\ op' = [op EXCEPT ![o] = NoOp] /\ wire' = wire
      \/ /\ ~(op[o].failed \/ n > Len(Program[k]))
         /\ op' = [op EXCEPT ![o] = e] /\ wire' = wire \o Asked(o, k, n)
  BY <1>2, <1>3, <1>5, <1>6, Zenon DEF GoOn
<1>9. \A a \in Ops : a # o => op'[a] = op[a]
  BY <1>7, <1>8
<1>10. n \in Nat /\ (~(n > Len(Program[k])) => n \in 1..Len(Program[k]))
  BY <1>4, <1>5
<1>11. \/ op'[o] = NoOp /\ wire' = wire
       \/ n \in 1..Len(Program[k]) /\ op'[o] = Asking(o, k, n) /\ wire' = wire \o Asked(o, k, n)
  BY <1>6, <1>7, <1>8, <1>10
<1>12. ~OldOp(o)'
  BY <1>4, <1>11, NewOpIsNotOld
<1>13. Steps(o)
  BY <1>1, <1>2, <1>4, <1>9, <1>11, <1>12 DEF Steps, piVars
<1>14. \A k2, n2 : k2 = op[o].kind /\ n2 = op[o].at + 1 /\ ~op[o].failed /\ n2 <= Len(Program[k2]) =>
              op'[o] = Asking(o, k2, n2)
  <2>1. ~op[o].failed /\ n <= Len(Program[k]) => op'[o] = Asking(o, k, n)
    <3>1. n <= Len(Program[k]) => ~(n > Len(Program[k]))
      BY <1>4, <1>10
    <3>2. QED BY <1>6, <1>7, <1>8, <3>1
  <2>2. QED BY <1>3, <1>5, <2>1
<1>15. PICK b : b = Batch(o)
  OBVIOUS
<1>16. /\ "state" \in ToSet(b) <=> b[1] = "state"
       /\ "messages" \in ToSet(b) <=> b[1] = "messages"
  BY <1>4, <1>15, BatchHas
<1>17. /\ sessionFile' = IF "state" \in ToSet(b) /\ ~op[o].failed THEN op[o].file ELSE sessionFile
       /\ shown' = IF "messages" \in ToSet(b) /\ ~op[o].failed THEN op[o].page ELSE shown
  BY <1>15 DEF Continue
<1>18. QED BY <1>1, <1>2, <1>4, <1>13, <1>14, <1>15, <1>16, <1>17

LEMMA ContinueKeepsTrace ==
  ASSUME OrderedInv, Trace, NEW o \in Ops, Continue(o)
  PROVE  Trace'
<1>1. /\ Steps(o) /\ Active(o) /\ BatchIs(Batch(o)) /\ op[o].missing = 0 /\ Places(pipe, wire, o) = {}
      /\ sessionFile' = IF Batch(o)[1] = "state" /\ ~op[o].failed THEN op[o].file ELSE sessionFile
      /\ shown' = IF Batch(o)[1] = "messages" /\ ~op[o].failed THEN op[o].page ELSE shown
      /\ lost' = lost
  BY ContinueSteps
<1>2. CASE lost
  BY <1>1, <1>2 DEF Trace
<1>3. ASSUME NoOldOp
      PROVE  /\ Good(sessionFile) \/ (Batch(o)[1] = "state" /\ ~op[o].failed) => Good(sessionFile')
             /\ shown = page \/ (Batch(o)[1] = "messages" /\ ~op[o].failed) => shown' = page
  <2>1. ~OldOp(o)
    BY <1>3 DEF NoOldOp
  <2>2. Batch(o)[1] = "state" /\ ~op[o].failed => Good(op[o].file)
    BY <1>1, <2>1 DEF OldOp
  <2>3. Batch(o)[1] = "messages" /\ ~op[o].failed => op[o].page = page
    BY <1>1, <2>1 DEF OldOp
  <2>4. QED BY <1>1, <2>2, <2>3
<1>4. CASE Clean
  <2>1. Clean'
    BY <1>1, <1>3, <1>4, CleanWhenSteps DEF Clean
  <2>2. QED BY <2>1 DEF Trace
<1>5. ASSUME NEW f \in Ops, Follows(f), f # o PROVE Trace'
  <2>1. Located(f) => Good(sessionFile')
    BY <1>3 DEF Located
  <2>2. Follows(f)'
    BY <1>1, <1>5, <2>1, FollowsWhenSteps
  <2>3. QED BY <2>2 DEF Trace
<1>6. CASE Follows(o)
  <2>1. op[o].kind \in Movers /\ ~op[o].failed /\ (Moving(o) \/ Moved(o) \/ Located(o))
    BY <1>6 DEF Follows
  <2>2. ~Moving(o)
    <3>1. Len(pipe) \in Nat /\ Len(wire) \in Nat
      BY TypeIs DEF OrderedInv, OrderInv, PipeIsInOrder
    <3>2. \A i \in 1..Len(pipe) : i \in 1..(Len(pipe) + Len(wire))
      BY <3>1
    <3>3. QED BY <1>1, <3>2 DEF Moving, Places
  <2>3. PICK k, n : k = op[o].kind /\ n = op[o].at + 1
    OBVIOUS
  <2>4. PICK m : m = op[o].at
    OBVIOUS
  <2>5. /\ k \in DOMAIN Program /\ m \in 1..Len(Program[k]) /\ n = m + 1
        /\ Batch(o) = Program[k][m]
    BY <1>1, <2>3, <2>4, KindsOfRunning DEF Batch
  <2>6. n <= Len(Program[k]) => op'[o] = Asking(o, k, n)
    BY <2>1, <2>3, ContinueSteps
  <2>7. /\ Program[k][m][1] \in Moves => n <= Len(Program[k]) /\ Program[k][n][1] = "state"
        /\ Program[k][m][1] = "state" => n <= Len(Program[k]) /\ Program[k][n] = <<"messages">>
    BY <2>1, <2>3, <2>5, BatchesAre
  <2>8. ASSUME n <= Len(Program[k])
        PROVE  /\ Active(o)' /\ op'[o].kind \in Movers /\ ~op'[o].failed
               /\ Batch(o)' = Program[k][n] /\ op'[o].missing = Len(Batch(o)')
    <3>1. n \in 1..Len(Program[k])
      <4>1. Len(Program[k]) \in 1..5
        BY <2>5, BatchesAre
      <4>2. QED BY <2>5, <2>8, <4>1
    <3>2. PICK e : e = Asking(o, k, n)
      OBVIOUS
    <3>3. e.kind = k /\ e.at = n /\ e.missing = Size(k, n) /\ ~e.failed
      BY <2>5, <3>1, <3>2, AskingIs DEF OrderedInv
    <3>4. op'[o] = e
      BY <2>6, <2>8, <3>2
    <3>5. k # "none"
      BY <2>5, ProgramIs
    <3>6. Batch(o)' = Program[k][n]
      BY <3>3, <3>4 DEF Batch
    <3>7. op'[o].missing = Len(Batch(o)')
      BY <3>3, <3>4, <3>6 DEF Size
    <3>8. QED BY <2>1, <2>3, <3>3, <3>4, <3>5, <3>6, <3>7 DEF Active
  <2>9. CASE Moved(o)
    <3>1. NoOldLine'
      BY <1>1, <2>9, OldWhenSteps DEF Moved
    <3>2. CASE Batch(o)[1] \in Moves
      <4>1. n <= Len(Program[k]) /\ Program[k][n][1] = "state"
        BY <2>5, <2>7, <3>2
      <4>2. Batch(o)'[1] = "state" /\ op'[o].missing = Len(Batch(o)')
        BY <2>8, <4>1
      <4>3. ASSUME NEW a \in Ops, OldOp(a)' PROVE Due(a)'
        <5>1. a # o /\ OldOp(a)
          BY <1>1, <4>3, OldWhenSteps
        <5>2. Due(a) /\ op'[a] = op[a]
          BY <1>1, <2>9, <5>1 DEF Moved, Steps
        <5>3. QED BY <5>2 DEF Due, Active
      <4>4. Moved(o)'
        BY <3>1, <4>2, <4>3 DEF Moved
      <4>5. Follows(o)'
        BY <2>8, <4>1, <4>4 DEF Follows
      <4>6. QED BY <4>5 DEF Trace
    <3>3. CASE Batch(o)[1] \notin Moves
      <4>1. Batch(o)[1] = "state" /\ NoOldOp
        <5>1. Batch(o)[1] = "state" /\ (op[o].missing = Len(Batch(o)) \/ NoOldOp)
          BY <2>9, <3>3 DEF Moved
        <5>2. op[o].missing # Len(Batch(o))
          BY <1>1 DEF BatchIs
        <5>3. QED BY <5>1, <5>2
      <4>2. n <= Len(Program[k]) /\ Program[k][n] = <<"messages">>
        BY <2>5, <2>7, <4>1
      <4>3. Batch(o)'[1] = "messages"
        BY <2>8, <4>2
      <4>4. NoOldOp'
        BY <1>1, <4>1, OldWhenSteps
      <4>5. Good(sessionFile)'
        <5>1. Good(sessionFile')
          BY <1>3, <2>1, <4>1
        <5>2. UNCHANGED <<file, saved>>
          BY <1>1 DEF Steps
        <5>3. QED BY <5>1, <5>2 DEF Good, Now
      <4>6. Located(o)'
        BY <3>1, <4>3, <4>4, <4>5 DEF Located
      <4>7. Follows(o)'
        BY <2>8, <4>2, <4>6 DEF Follows
      <4>8. QED BY <4>7 DEF Trace
    <3>4. QED BY <3>2, <3>3
  <2>10. CASE Located(o)
    <3>1. Batch(o)[1] = "messages" /\ NoOldLine /\ NoOldOp /\ Good(sessionFile)
      BY <2>10 DEF Located
    <3>2. Good(sessionFile') /\ shown' = page
      BY <1>3, <2>1, <3>1
    <3>3. Clean'
      BY <1>1, <3>1, <3>2, CleanWhenSteps
    <3>4. QED BY <3>3 DEF Trace
  <2>11. QED BY <2>1, <2>2, <2>9, <2>10
<1>7. QED BY <1>2, <1>4, <1>5, <1>6 DEF Trace

\* pi writes a line that is not old, its file and its history stay as they were said.
LEMMA TraceWhenAppended ==
  ASSUME OrderedInv, Trace, UNCHANGED <<op, page, lost, sessionFile, shown>>,
         NEW l \in Lines, pipe' = Append(pipe, l), ~OldLine(Len(pipe))',
         \A f : Good(f) => Good(f)',
         \A a \in Ops : \A p \in 1..Len(pipe) : Before(a, p) => Before(a, p)'
  PROVE  Trace'
<1>1. UNCHANGED <<op, page, lost, sessionFile, shown>>
  OBVIOUS
<1>2. l \in Lines /\ pipe' = Append(pipe, l) /\ ~OldLine(Len(pipe))'
  OBVIOUS
<1>3. pipe \in Seq(Lines) /\ Len(pipe) \in Nat
  BY DEF OrderedInv, OrderInv, PipeIsInOrder
<1>4. /\ Len(pipe') = Len(pipe) + 1 /\ pipe'[Len(pipe) + 1] = l
      /\ \A i \in 1..Len(pipe) : pipe'[i] = pipe[i] /\ i \in 1..Len(pipe')
      /\ \A i \in 1..Len(pipe') : i = Len(pipe) + 1 \/ i \in 1..Len(pipe)
  BY <1>2, <1>3
<1>5. \A f : Good(f) => Good(f)'
  OBVIOUS
<1>6. ASSUME NEW i \in 1..Len(pipe'), OldLine(i)'
      PROVE  i \in 1..Len(pipe) /\ pipe'[i] = pipe[i] /\ OldLine(i)
  <2>1. i \in 1..Len(pipe) /\ pipe'[i] = pipe[i]
    <3>1. PICK n : n = Len(pipe')
      OBVIOUS
    <3>2. ~OldLine(n)'
      BY <1>2, <3>1
    <3>3. i # n
      BY <1>6, <3>2
    <3>4. QED BY <1>3, <1>4, <3>1, <3>3
  <2>2. PICK x : x = pipe[i]
    OBVIOUS
  <2>3. pipe'[i] = x
    BY <2>1, <2>2
  <2>4. /\ x.type = "answer"
        /\ \/ x.req = "state" /\ ~Good(x.now.file)'
           \/ x.req = "messages" /\ x.now.page # page
    BY <1>1, <1>6, <2>3 DEF OldLine, Good
  <2>5. OldLine(i)
    BY <1>5, <2>2, <2>4 DEF OldLine
  <2>6. QED BY <2>1, <2>5
<1>7. ASSUME NEW a \in Ops, OldOp(a)' PROVE OldOp(a)
  <2>1. PICK x : x = op[a]
    OBVIOUS
  <2>2. Active(a) /\ ~x.failed /\ Batch(a)' = Batch(a) /\ op'[a] = x
    BY <1>1, <1>7, <2>1 DEF OldOp, Active, Batch
  <2>3. \/ Batch(a)[1] = "state" /\ ~Good(x.file)'
        \/ Batch(a)[1] = "messages" /\ x.missing = 0 /\ x.page # page
    BY <1>1, <1>7, <2>2 DEF OldOp, Good
  <2>4. QED BY <1>5, <2>1, <2>2, <2>3 DEF OldOp
<1>8. (NoOldLine => NoOldLine') /\ (NoOldOp => NoOldOp')
  BY <1>6, <1>7 DEF NoOldLine, NoOldOp
<1>9. CASE Clean
  <2>1. Good(sessionFile)'
    <3>1. PICK x : x = sessionFile
      OBVIOUS
    <3>2. Good(x)'
      BY <1>5, <1>9, <3>1 DEF Clean
    <3>3. sessionFile' = x
      BY <1>1, <3>1
    <3>4. QED BY <3>2, <3>3 DEF Good
  <2>2. Clean'
    BY <1>1, <1>8, <1>9, <2>1 DEF Clean
  <2>3. QED BY <2>2 DEF Trace
<1>10. ASSUME NEW f \in Ops, Follows(f) PROVE Trace'
  <2>1. Active(f)' /\ op'[f].kind \in Movers /\ ~op'[f].failed /\ Batch(f)' = Batch(f)
    BY <1>1, <1>10 DEF Follows, Active, Batch
  <2>2. \A a \in Ops : \A p \in 1..Len(pipe) : Before(a, p) => Before(a, p)'
    OBVIOUS
  <2>3. CASE Moving(f)
    <3>1. PICK p \in 1..Len(pipe) :
            /\ OpAt(pipe, wire, p) = f /\ pipe[p].ok
            /\ \A j \in 1..Len(pipe) : OldLine(j) =>
                 j < p /\ (Active(pipe[j].op) => Before(pipe[j].op, p))
            /\ \A a \in Ops : OldOp(a) => Before(a, p)
      BY <2>3 DEF Moving
    <3>2. pipe'[p] = pipe[p] /\ p \in 1..Len(pipe') /\ ~(p > Len(pipe)) /\ ~(p > Len(pipe'))
      BY <1>3, <1>4
    <3>3. OpAt(pipe', wire', p) = f /\ pipe'[p].ok
      BY <3>1, <3>2 DEF OpAt
    <3>4. ASSUME NEW j \in 1..Len(pipe'), OldLine(j)'
          PROVE  j < p /\ (Active(pipe[j].op)' => Before(pipe[j].op, p)')
      <4>1. j \in 1..Len(pipe) /\ pipe'[j] = pipe[j] /\ OldLine(j)
        BY <1>6, <3>4
      <4>2. pipe[j].type = "answer"
        BY <4>1 DEF OldLine
      <4>3. PICK a \in Ops : a = pipe[j].op
        BY <4>1, <4>2, OpOfLine
      <4>4. j < p /\ (Active(a) => Before(a, p))
        BY <3>1, <4>1, <4>3
      <4>5. Active(a)' => Before(a, p)'
        BY <1>1, <2>2, <4>4 DEF Active
      <4>6. PICK x : x = pipe[j]
        OBVIOUS
      <4>7. Active(x.op)' => Before(x.op, p)'
        BY <4>3, <4>5, <4>6
      <4>8. pipe'[j] = x
        BY <4>1, <4>6
      <4>9. QED BY <4>4, <4>7, <4>8
    <3>5. \A a \in Ops : OldOp(a)' => Before(a, p)'
      BY <1>7, <2>2, <3>1
    <3>6. Batch(f)'[1] \in Moves
      BY <2>1, <2>3 DEF Moving
    <3>7. Moving(f)'
      BY <3>2, <3>3, <3>4, <3>5, <3>6 DEF Moving
    <3>8. QED BY <2>1, <3>7 DEF Follows, Trace
  <2>4. CASE Moved(f)
    <3>1. \A a \in Ops : OldOp(a)' => Due(a)'
      BY <1>1, <1>7, <2>4 DEF Moved, Due, Active
    <3>2. Moved(f)'
      BY <1>1, <1>8, <2>1, <2>4, <3>1 DEF Moved
    <3>3. QED BY <2>1, <3>2 DEF Follows, Trace
  <2>5. CASE Located(f)
    <3>1. Good(sessionFile)'
      <4>1. PICK x : x = sessionFile
        OBVIOUS
      <4>2. Good(x)'
        BY <1>5, <2>5, <4>1 DEF Located
      <4>3. sessionFile' = x
        BY <1>1, <4>1
      <4>4. QED BY <4>2, <4>3 DEF Good
    <3>2. Located(f)'
      BY <1>8, <2>1, <2>5, <3>1 DEF Located
    <3>3. QED BY <2>1, <3>2 DEF Follows, Trace
  <2>6. QED BY <1>10, <2>3, <2>4, <2>5 DEF Follows
<1>11. QED BY <1>1, <1>9, <1>10 DEF Trace

LEMMA PiTurnsKeepsTrace ==
  ASSUME OrderedInv, Trace, PiTurns
  PROVE  Trace'
<1>1. /\ UNCHANGED <<op, wire, file, page, lost, sessionFile, shown>>
      /\ saved \subseteq saved' /\ (saved' = saved \/ saved' = saved \cup {file})
  BY DEF PiTurns, opVars, believedVars
<1>2. PICK l \in Lines : l.type # "answer" /\ pipe' = Append(pipe, l)
  <2>1. [type |-> "agent_start"] \in Lines /\ [type |-> "agent_settled"] \in Lines
    BY DEF Lines
  <2>2. \E l \in {[type |-> "agent_start"], [type |-> "agent_settled"]} : pipe' = Append(pipe, l)
    BY DEF PiTurns
  <2>3. PICK l \in {[type |-> "agent_start"], [type |-> "agent_settled"]} : pipe' = Append(pipe, l)
    BY <2>2
  <2>4. l.type # "answer" /\ l \in Lines
    BY <2>1, <2>3
  <2>5. QED BY <2>3, <2>4
<1>3. pipe \in Seq(Lines) /\ Len(pipe) \in Nat
  BY DEF OrderedInv, OrderInv, PipeIsInOrder
<1>4. ASSUME NEW f, Good(f) PROVE Good(f)'
  BY <1>1, <1>4 DEF Good, Now
<1>5. ~OldLine(Len(pipe))'
  <2>1. PICK n : n = Len(pipe')
    OBVIOUS
  <2>2. pipe'[n] = l
    BY <1>2, <1>3, <2>1
  <2>3. ~OldLine(n)'
    BY <1>2, <2>2 DEF OldLine
  <2>4. QED BY <2>1, <2>3
<1>6. ASSUME NEW a \in Ops, NEW p \in 1..Len(pipe), Before(a, p) PROVE Before(a, p)'
  <2>1. PICK pp, ww, p2 : pp = pipe /\ ww = wire /\ p2 = pipe'
    OBVIOUS
  <2>2. pp \in Seq(Lines) /\ ww \in Seq(Asks) /\ p2 = Append(pp, l) /\ Len(pp) \in Nat
    BY <1>2, <1>3, <2>1, TypeIs DEF OrderedInv
  <2>3. /\ \A q \in 1..Len(pp) : q \in Places(p2, ww, a) <=> q \in Places(pp, ww, a)
        /\ \A q \in Places(p2, ww, a) : q > Len(pp) => q > Len(pp) + 1 /\ q - 1 \in Places(pp, ww, a)
    BY <1>2, <2>2, SentWhenEvent
  <2>4. p \in 1..Len(pp) /\ \A q \in Places(pp, ww, a) : q < p
    BY <1>6, <2>1 DEF Before
  <2>5. \A q \in Places(p2, ww, a) : q \in Nat /\ q >= 1
    <3>1. Len(p2) \in Nat /\ Len(ww) \in Nat
      BY <2>2
    <3>2. QED BY <3>1 DEF Places
  <2>6. ASSUME NEW q \in Places(p2, ww, a) PROVE q < p
    <3>1. CASE q > Len(pp)
      <4>1. q > Len(pp) + 1 /\ q - 1 < p
        BY <2>3, <2>4, <3>1
      <4>2. QED BY <2>2, <2>4, <2>5, <4>1
    <3>2. CASE ~(q > Len(pp))
      <4>1. q \in 1..Len(pp)
        BY <2>2, <2>5, <3>2
      <4>2. QED BY <2>3, <2>4, <4>1
    <3>3. QED BY <3>1, <3>2
  <2>7. QED BY <1>1, <2>1, <2>6 DEF Before
<1>7. QED BY <1>1, <1>2, <1>4, <1>5, <1>6, TraceWhenAppended

\* When a move is the next request, whoever is told something old has no request after it.
LEMMA BeforeMove ==
  ASSUME OrderedInv, NEW p, p = Len(pipe) + 1, ReqAt(pipe, wire, p) \in Moves, NEW a \in Ops,
         Active(a),
         \/ \E j \in Places(pipe, wire, a) : j < p /\ ReqAt(pipe, wire, j) \in {"state", "messages"}
         \/ op[a].missing = 0
         \/ Batch(a)[1] = "state" /\ op[a].missing < Len(Batch(a))
  PROVE  Before(a, p)
<1>1. PICK pp, ww, b, m : pp = pipe /\ ww = wire /\ b = Batch(a) /\ m = op[a].missing
  OBVIOUS
<1>2. Sent(pp, ww, a, b, m) /\ pp \in Seq(Lines) /\ ww \in Seq(Asks) /\ Len(pp) \in Nat /\ Len(ww) \in Nat
  BY <1>1, KindsOfRunning, TypeIs DEF OrderedInv, OrderInv, PipeIsInOrder
<1>3. p = Len(pp) + 1 /\ ReqAt(pp, ww, p) \in Moves
  BY <1>1
<1>4. \/ \E j \in Places(pp, ww, a) : j < p /\ ReqAt(pp, ww, j) \in {"state", "messages"}
      \/ m = 0
      \/ b[1] = "state" /\ m < Len(b)
  BY <1>1
<1>5. \A q \in Places(pp, ww, a) : q < p
  <2>1. CASE m = 0 /\ Places(pp, ww, a) = {}
    BY <2>1
  <2>2. CASE m = 1 /\ b = <<b[1]>> /\ \E q \in 1..(Len(pp) + Len(ww)) : One(pp, ww, a, q, b[1])
    <3>1. Len(b) = 1
      <4>1. PICK x : x = b[1]
        OBVIOUS
      <4>2. b = <<x>>
        BY <2>2, <4>1
      <4>3. QED BY <4>2
    <3>2. \E j \in Places(pp, ww, a) : j < p
      BY <1>4, <2>2, <3>1
    <3>3. QED BY <2>2, <3>2 DEF One
  <2>3. CASE /\ m = 1 /\ b = <<"state", "more">>
             /\ \E q \in 1..(Len(pp) + Len(ww)) : q <= Len(pp) + 1 /\ One(pp, ww, a, q, "more")
    <3>1. PICK q \in 1..(Len(pp) + Len(ww)) : q <= Len(pp) + 1 /\ Places(pp, ww, a) = {q} /\ ReqAt(pp, ww, q) = "more"
      BY <2>3 DEF One
    <3>2. q # p
      BY <1>3, <3>1 DEF Moves
    <3>3. q < p
      BY <1>2, <1>3, <3>1, <3>2
    <3>4. QED BY <3>1, <3>3
  <2>4. CASE /\ m = 2 /\ b = <<"state", "more">>
             /\ \E s, q \in 1..(Len(pp) + Len(ww)) :
                  /\ s < q /\ (q > Len(pp) + 1 => q = s + 1)
                  /\ Places(pp, ww, a) = {s, q}
                  /\ ReqAt(pp, ww, s) = "state" /\ ReqAt(pp, ww, q) = "more"
    <3>1. PICK s, q \in 1..(Len(pp) + Len(ww)) :
                  /\ s < q /\ (q > Len(pp) + 1 => q = s + 1)
                  /\ Places(pp, ww, a) = {s, q}
                  /\ ReqAt(pp, ww, s) = "state" /\ ReqAt(pp, ww, q) = "more"
      BY <2>4
    <3>2. Len(b) = 2
      BY <2>4
    <3>3. PICK j \in Places(pp, ww, a) : j < p /\ ReqAt(pp, ww, j) \in {"state", "messages"}
      BY <1>4, <2>4, <3>2
    <3>4. s < p
      BY <3>1, <3>3
    <3>5. q # p
      BY <1>3, <3>1 DEF Moves
    <3>6. q < p
      BY <1>2, <1>3, <3>1, <3>4, <3>5
    <3>7. QED BY <3>1, <3>4, <3>6
  <2>5. QED BY <1>2, <2>1, <2>2, <2>3, <2>4 DEF Sent
<1>6. QED BY <1>1, <1>5 DEF Before

LEMMA PiAnswersKeepsTrace ==
  ASSUME OrderedInv, Trace, PiAnswers
  PROVE  Trace'
<1>1. PICK r \in Asks, l \in Lines :
        /\ wire # <<>> /\ r = Head(wire) /\ wire' = Tail(wire) /\ pipe' = Append(pipe, l)
        /\ l.type = "answer" /\ l.op = r.op /\ l.req = r.req /\ l.now = Said(r.req)
        /\ (l.ok /\ r.req \in Moves) \/ UNCHANGED <<file, saved, page>>
  BY PiAnswersLine
<1>2. UNCHANGED <<op, sessionFile, shown, lost>>
  BY DEF PiAnswers, opVars, believedVars
<1>3. pipe \in Seq(Lines) /\ Len(pipe) \in Nat /\ wire \in Seq(Asks) /\ Len(wire) \in Nat /\ Len(wire) > 0
  BY <1>1, TypeIs, EmptySeq DEF OrderedInv, OrderInv, PipeIsInOrder
<1>4. PICK p : p = Len(pipe) + 1
  OBVIOUS
<1>5. /\ Len(pipe') = p /\ pipe'[p] = l /\ p \in Nat
      /\ \A i \in 1..Len(pipe) : pipe'[i] = pipe[i]
      /\ \A i \in 1..p : i = p \/ i \in 1..Len(pipe)
  BY <1>1, <1>3, <1>4
<1>6. /\ \A o : Places(pipe', wire', o) = Places(pipe, wire, o)
      /\ \A q \in 1..(Len(pipe) + Len(wire)) : OpAt(pipe', wire', q) = OpAt(pipe, wire, q)
  <2>1. PICK pp, ww, p2, w2 : pp = pipe /\ ww = wire /\ p2 = Append(pp, l) /\ w2 = Tail(ww)
    OBVIOUS
  <2>2. /\ pp \in Seq(Lines) /\ ww \in Seq(Asks) /\ ww # <<>>
        /\ l.type = "answer" /\ l.op = Head(ww).op /\ l.req = Head(ww).req
        /\ p2 = Append(pp, l) /\ w2 = Tail(ww) /\ l \in Lines
    BY <1>1, <1>3, <2>1
  <2>3. \A q \in 1..(Len(pp) + Len(ww)) : OpAt(p2, w2, q) = OpAt(pp, ww, q)
    <3>1. ASSUME NEW q \in 1..(Len(pp) + Len(ww)) PROVE OpAt(p2, w2, q) = OpAt(pp, ww, q)
      BY <2>2, SentWhenAnswered
    <3>2. QED BY <3>1
  <2>4. ASSUME NEW o PROVE Places(p2, w2, o) = Places(pp, ww, o)
    <3>1. Len(p2) + Len(w2) = Len(pp) + Len(ww)
      BY <2>2, SentWhenAnswered
    <3>2. QED BY <2>3, <3>1 DEF Places
  <2>5. p2 = pipe' /\ w2 = wire'
    BY <1>1, <2>1
  <2>6. QED BY <2>1, <2>3, <2>4, <2>5
<1>7. CASE UNCHANGED <<file, saved, page>>
  <2>1. \A f : Good(f) => Good(f)'
    BY <1>7 DEF Good, Now
  <2>2. ~OldLine(p)'
    <3>1. l.req = "state" => l.now.file = Now.file
      <4>1. Said("state").file = Now.file
        BY DEF Said, Now
      <4>2. QED BY <1>1, <4>1
    <3>2. l.req = "messages" => l.now.page = page
      <4>1. Said("messages").page = page
        BY DEF Said, Now
      <4>2. QED BY <1>1, <4>1
    <3>3. Now.file' = Now.file
      BY <1>7 DEF Now
    <3>4. QED BY <1>5, <1>7, <3>1, <3>2, <3>3 DEF OldLine, Good
  <2>3. ~OldLine(Len(pipe))'
    BY <1>5, <2>2
  <2>4. \A a \in Ops : \A q \in 1..Len(pipe) : Before(a, q) => Before(a, q)'
    BY <1>6 DEF Before
  <2>5. UNCHANGED <<op, page, lost, sessionFile, shown>>
    BY <1>2, <1>7
  <2>6. QED BY <1>1, <2>1, <2>3, <2>4, <2>5, TraceWhenAppended
<1>8. CASE l.ok /\ r.req \in Moves
  <2>1. wire[1] = r /\ 1 \in 1..Len(wire) /\ p \in 1..(Len(pipe) + Len(wire)) /\ p > Len(pipe) /\ p - Len(pipe) = 1
    BY <1>1, <1>3, <1>4
  <2>2. OpAt(pipe, wire, p) = r.op /\ ReqAt(pipe, wire, p) = r.req
    BY <2>1 DEF OpAt, ReqAt
  <2>3. PICK f \in Ops : f = r.op
    BY DEF Asks
  <2>4. p \in Places(pipe, wire, f)
    BY <2>1, <2>2, <2>3 DEF Places
  <2>5. CASE ~Active(f)
    <3>1. lost
      BY <1>8, <2>1, <2>3, <2>5 DEF OrderedInv, OrderInv, WireIsInOrder
    <3>2. QED BY <1>2, <3>1 DEF Trace
  <2>6. CASE Active(f)
    <3>1. r.req \notin {"state", "more", "messages"} /\ r.req \in Moves
      BY <1>8 DEF Moves
    <3>2. Batch(f)[1] = r.req /\ op[f].missing = 1
      BY <2>2, <2>4, <2>6, <3>1, ReqOfBatch
    <3>3. ~op[f].failed
      BY <2>6, <3>2 DEF OrderedInv, OrderInv, OpIsInOrder
    <3>4. op[f].kind \in Movers
      <4>1. PICK k, n : k = op[f].kind /\ n = op[f].at
        OBVIOUS
      <4>2. k \in DOMAIN Program /\ n \in 1..Len(Program[k]) /\ Program[k][n][1] \in Moves
        BY <2>6, <3>1, <3>2, <4>1, KindsOfRunning DEF Batch
      <4>3. QED BY <4>1, <4>2, BatchesAre
    <3>5. OpAt(pipe', wire', p) = f /\ pipe'[p].ok /\ p \in 1..Len(pipe')
      BY <1>3, <1>4, <1>5, <1>6, <1>8, <2>1, <2>2, <2>3
    <3>6. ASSUME NEW a \in Ops, Active(a),
                 \/ \E j \in Places(pipe, wire, a) : j < p /\ ReqAt(pipe, wire, j) \in {"state", "messages"}
                 \/ op[a].missing = 0
                 \/ Batch(a)[1] = "state" /\ op[a].missing < Len(Batch(a))
          PROVE  Before(a, p)'
      <4>1. Before(a, p)
        BY <1>4, <2>2, <3>1, <3>6, BeforeMove
      <4>2. QED BY <1>6, <4>1 DEF Before
    <3>7. ASSUME NEW j \in 1..Len(pipe'), OldLine(j)'
          PROVE  j < p /\ (Active(pipe[j].op)' => Before(pipe[j].op, p)')
      <4>1. j # p
        <5>1. ~OldLine(p)'
          BY <1>1, <1>5, <3>1 DEF OldLine
        <5>2. QED BY <3>7, <5>1
      <4>2. j \in 1..Len(pipe) /\ pipe'[j] = pipe[j] /\ j < p
        BY <1>3, <1>4, <1>5, <4>1
      <4>3. pipe[j].type = "answer" /\ pipe[j].req \in {"state", "messages"}
        BY <3>7, <4>2 DEF OldLine
      <4>4. PICK a \in Ops : a = pipe[j].op /\ j \in Places(pipe, wire, a) /\ ReqAt(pipe, wire, j) = pipe[j].req
        BY <4>2, <4>3, OpOfLine
      <4>5. Active(a)' => Before(a, p)'
        BY <1>2, <3>6, <4>2, <4>3, <4>4 DEF Active
      <4>6. PICK x : x = pipe[j]
        OBVIOUS
      <4>7. Active(x.op)' => Before(x.op, p)'
        BY <4>4, <4>5, <4>6
      <4>8. pipe'[j] = x
        BY <4>2, <4>6
      <4>9. QED BY <4>2, <4>7, <4>8
    <3>8. ASSUME NEW a \in Ops, OldOp(a)' PROVE Before(a, p)'
      <4>1. Active(a) /\ Batch(a)' = Batch(a)
        BY <1>2, <3>8 DEF OldOp, Active, Batch
      <4>2. \/ Batch(a)[1] = "state" /\ op[a].file # None
            \/ op[a].missing = 0
        BY <1>2, <3>8, <4>1 DEF OldOp, Good
      <4>3. op[a].file # None => op[a].missing < Len(Batch(a))
        BY <4>1 DEF OrderedInv, OrderInv, OpIsInOrder
      <4>4. QED BY <3>6, <4>1, <4>2, <4>3
    <3>9. Batch(f)' = Batch(f) /\ Active(f)' /\ op'[f].kind \in Movers /\ ~op'[f].failed
      BY <1>2, <2>6, <3>3, <3>4 DEF Batch, Active
    <3>10. Moving(f)'
      <4>1. Batch(f)'[1] \in Moves
        BY <3>1, <3>2, <3>9
      <4>2. QED BY <3>5, <3>7, <3>8, <4>1 DEF Moving
    <3>11. QED BY <3>9, <3>10 DEF Follows, Trace
  <2>7. QED BY <2>5, <2>6
<1>9. QED BY <1>1, <1>7, <1>8

\* Of a running operation: what a chunk leaves of it and of its places.
LEMMA ChunkOfRunning ==
  ASSUME OrderedInv, NEW n \in 1..Len(pipe), ReadChunk(n), NEW a \in Ops, Active(a)
  PROVE  /\ Active(a)' /\ op'[a].kind = op[a].kind /\ Batch(a)' = Batch(a)
         /\ Places(pipe', wire', a) = {p - n : p \in {q \in Places(pipe, wire, a) : q > n}}
         /\ AnswersIn(pipe, a, n) = {q \in Places(pipe, wire, a) : q <= n}
         /\ op'[a].failed <=> (op[a].failed \/ \E i \in AnswersIn(pipe, a, n) : ~pipe[i].ok)
         /\ \/ op'[a].file = op[a].file
            \/ \E i \in AnswersIn(pipe, a, n) : pipe[i].req = "state" /\ op'[a].file = pipe[i].now.file
         /\ \/ op'[a].page = op[a].page /\ \A i \in AnswersIn(pipe, a, n) : pipe[i].req # "messages"
            \/ \E i \in AnswersIn(pipe, a, n) : pipe[i].req = "messages" /\ op'[a].page = pipe[i].now.page
         /\ AnswersIn(pipe, a, n) = {} => op'[a].missing = op[a].missing
<1>1. PICK e : e = Answered(a, n)
  OBVIOUS
<1>2. op'[a] = e
  BY <1>1, ChunkIs
<1>3. /\ e.kind = op[a].kind /\ e.at = op[a].at
      /\ e.missing = op[a].missing - Cardinality(AnswersIn(pipe, a, n))
      /\ e.failed <=> (op[a].failed \/ \E i \in AnswersIn(pipe, a, n) : ~pipe[i].ok)
      /\ \/ e.file = op[a].file
         \/ \E i \in AnswersIn(pipe, a, n) : pipe[i].req = "state" /\ e.file = pipe[i].now.file
      /\ \/ e.page = op[a].page /\ \A i \in AnswersIn(pipe, a, n) : pipe[i].req # "messages"
         \/ \E i \in AnswersIn(pipe, a, n) : pipe[i].req = "messages" /\ e.page = pipe[i].now.page
  BY <1>1, AnsweredIs
<1>4. Active(a)' /\ Batch(a)' = Batch(a)
  BY <1>2, <1>3 DEF Active, Batch
<1>5. Places(pipe', wire', a) = Places(pipe', wire, a)
  <2>1. CASE ~Learns(n)
    <3>1. wire' = wire
      BY <2>1, ChunkIs
    <3>2. QED BY <3>1
  <2>2. CASE Learns(n)
    <3>1. PICK i \in Ops : i = Learner /\ wire' = wire \o Asked(i, "learn", 1)
      BY <2>2, ChunkIs
    <3>2. i # a
      <4>1. Began(a)
        BY DEF OrderedInv, OrderInv, OpIsInOrder
      <4>2. QED BY <2>2, <3>1, <4>1, ChunkIs
    <3>3. "learn" \in DOMAIN Program /\ 1 \in 1..Len(Program["learn"])
      BY ProgramIs
    <3>4. PICK p2 \in Seq(Lines) : p2 = pipe'
      BY ChunkIs
    <3>5. \E k \in DOMAIN Program : \E m \in 1..Len(Program[k]) : wire' = wire \o Asked(i, k, m)
      BY <3>1, <3>3
    <3>6. Places(p2, wire', a) = Places(p2, wire, a)
      BY <3>2, <3>5, PlacesOfOthers
    <3>7. QED BY <3>4, <3>6
  <2>3. QED BY <2>1, <2>2
<1>6. /\ Places(pipe', wire, a) = {p - n : p \in {q \in Places(pipe, wire, a) : q > n}}
      /\ AnswersIn(pipe, a, n) = {q \in Places(pipe, wire, a) : q <= n}
  BY ChunkOfOne
<1>7. AnswersIn(pipe, a, n) = {} => op'[a].missing = op[a].missing
  <2>1. PICK S : S = AnswersIn(pipe, a, n)
    OBVIOUS
  <2>2. S = {} => Cardinality(S) = 0
    BY FS_EmptySet
  <2>3. op[a].missing \in Nat
    BY KindsOfRunning
  <2>4. QED BY <1>2, <1>3, <2>1, <2>2, <2>3
<1>8. QED BY <1>2, <1>3, <1>4, <1>5, <1>6, <1>7

\* Nobody runs after a chunk who did not before, but the one that asks for the session's file.
LEMMA RanBeforeChunk ==
  ASSUME OrderedInv, NEW n \in 1..Len(pipe), ReadChunk(n), NEW a \in Ops, Active(a)',
         Began(a) \/ OldOp(a)'
  PROVE  Active(a)
<1>1. CASE Learns(n) /\ a = Learner
  <2>1. PICK l \in Ops : l = Learner /\ ~Began(l) /\ op'[l] = Asking(l, "learn", 1)
    BY <1>1, ChunkIs
  <2>2. "learn" \in DOMAIN Program /\ 1 \in 1..Len(Program["learn"])
    BY ProgramIs
  <2>3. ~OldOp(l)'
    BY <2>1, <2>2, NewOpIsNotOld
  <2>4. l = a
    BY <1>1, <2>1
  <2>5. QED BY <2>1, <2>3, <2>4
<1>2. CASE ~(Learns(n) /\ a = Learner)
  <2>1. ~Active(a) => op'[a] = op[a]
    BY <1>2, ChunkIs
  <2>2. QED BY <2>1 DEF Active
<1>3. QED BY <1>1, <1>2

\* Who was told something old by a chunk had been told before, or an old line told it.
LEMMA OldWhenRead ==
  ASSUME OrderedInv, NEW n \in 1..Len(pipe), ReadChunk(n), NEW a \in Ops, OldOp(a)'
  PROVE  Active(a) /\ (OldOp(a) \/ \E i \in AnswersIn(pipe, a, n) : OldLine(i))
<1>1. Active(a)
  BY RanBeforeChunk DEF OldOp
<1>2. UNCHANGED <<file, saved, page>>
  BY DEF ReadChunk, piVars
<1>3. \A f : Good(f)' <=> Good(f)
  BY <1>2 DEF Good, Now
<1>4. \A i \in AnswersIn(pipe, a, n) : pipe[i].type = "answer"
  BY DEF AnswersIn
<1>6. ~op[a].failed /\ Batch(a)' = Batch(a)
  <2>1. ~op'[a].failed
    BY DEF OldOp
  <2>2. QED BY <1>1, <2>1, ChunkOfRunning
<1>7. CASE Batch(a)[1] = "state" /\ ~Good(op'[a].file)
  <2>1. CASE op'[a].file = op[a].file
    BY <1>1, <1>6, <1>7, <2>1 DEF OldOp
  <2>2. CASE \E i \in AnswersIn(pipe, a, n) : pipe[i].req = "state" /\ op'[a].file = pipe[i].now.file
    BY <1>1, <1>4, <1>7, <2>2 DEF OldLine
  <2>3. QED BY <1>1, <2>1, <2>2, ChunkOfRunning
<1>8. CASE Batch(a)[1] = "messages" /\ op'[a].missing = 0 /\ op'[a].page # page
  <2>1. CASE op'[a].page = op[a].page /\ \A i \in AnswersIn(pipe, a, n) : pipe[i].req # "messages"
    <3>1. AnswersIn(pipe, a, n) = {}
      <4>1. SUFFICES ASSUME NEW i \in AnswersIn(pipe, a, n) PROVE FALSE
        OBVIOUS
      <4>2. i \in Places(pipe, wire, a) /\ ReqAt(pipe, wire, i) = pipe[i].req
        BY AnswerHasPlace
      <4>3. ReqAt(pipe, wire, i) = "messages"
        BY <1>1, <1>8, <4>2, ReqOfBatch
      <4>4. QED BY <2>1, <4>2, <4>3
    <3>2. op'[a].missing = op[a].missing
      BY <1>1, <3>1, ChunkOfRunning
    <3>3. QED BY <1>1, <1>6, <1>8, <2>1, <3>2 DEF OldOp
  <2>2. CASE \E i \in AnswersIn(pipe, a, n) : pipe[i].req = "messages" /\ op'[a].page = pipe[i].now.page
    BY <1>1, <1>4, <1>8, <2>2 DEF OldLine
  <2>3. QED BY <1>1, <2>1, <2>2, ChunkOfRunning
<1>10. \/ Batch(a)[1] = "state" /\ ~Good(op'[a].file)
       \/ Batch(a)[1] = "messages" /\ op'[a].missing = 0 /\ op'[a].page # page
  <2>1. PICK f : f = op'[a].file
    OBVIOUS
  <2>2. \/ Batch(a)'[1] = "state" /\ ~Good(f)'
        \/ Batch(a)'[1] = "messages" /\ op'[a].missing = 0 /\ op'[a].page # page'
    BY <2>1 DEF OldOp, Good
  <2>3. ~Good(f)' => ~Good(op'[a].file)
    BY <1>3, <2>1
  <2>4. QED BY <1>2, <1>6, <2>2, <2>3
<1>11. QED BY <1>7, <1>8, <1>10

\* After a chunk an operation of which nothing is on its way has all its answers.
LEMMA MissingIfSent ==
  ASSUME OrderedInv, NEW n \in 1..Len(pipe), ReadChunk(n), NEW a \in Ops, Active(a),
         Places(pipe', wire', a) = {}
  PROVE  op'[a].missing = 0
<1>1. OpIsInOrder(a)'
  BY ReadKeepsOrder, ChunkOfRunning DEF OrderedInv, OrderInv
<1>2. Sent(pipe', wire', a, Batch(a)', op'[a].missing)
  BY <1>1 DEF OpIsInOrder
<1>3. PICK pp, ww, b, m : pp = pipe' /\ ww = wire' /\ b = Batch(a)' /\ m = op'[a].missing
  OBVIOUS
<1>4. Sent(pp, ww, a, b, m) /\ Places(pp, ww, a) = {}
  BY <1>2, <1>3
<1>5. m = 0
  BY <1>4 DEF Sent, One
<1>6. QED BY <1>3, <1>5

LEMMA ReadKeepsTrace ==
  ASSUME OrderedInv, Trace, NEW n \in 1..Len(pipe), ReadChunk(n)
  PROVE  Trace'
<1>1. Calm /\ UNCHANGED <<sessionFile, shown, file, saved, page, lost>>
  BY DEF ReadChunk, piVars
<1>2. /\ pipe \in Seq(Lines) /\ Len(pipe) \in Nat /\ n \in Nat /\ n <= Len(pipe) /\ n >= 1
      /\ Len(pipe') = Len(pipe) - n /\ \A i \in 1..(Len(pipe) - n) : pipe'[i] = pipe[i + n]
      /\ Len(wire) \in Nat
  <2>1. pipe \in Seq(Lines) /\ wire \in Seq(Asks)
    BY TypeIs DEF OrderedInv, OrderInv, PipeIsInOrder
  <2>2. Len(pipe') = Len(pipe) - n /\ \A i \in 1..(Len(pipe) - n) : pipe'[i] = pipe[i + n]
    BY ChunkIs
  <2>3. Len(pipe) \in Nat /\ Len(wire) \in Nat
    BY <2>1
  <2>4. n \in Nat /\ n <= Len(pipe) /\ n >= 1
    BY <2>3
  <2>5. QED BY <2>1, <2>2, <2>3, <2>4
<1>3. \A f : Good(f)' <=> Good(f)
  BY <1>1 DEF Good, Now
<1>4. ASSUME NEW i \in 1..Len(pipe'), OldLine(i)'
      PROVE  i + n \in 1..Len(pipe) /\ pipe'[i] = pipe[i + n] /\ OldLine(i + n)
  <2>1. i + n \in 1..Len(pipe) /\ pipe'[i] = pipe[i + n]
    BY <1>2
  <2>2. PICK x : x = pipe[i + n]
    OBVIOUS
  <2>3. pipe'[i] = x
    BY <2>1, <2>2
  <2>4. /\ x.type = "answer"
        /\ \/ x.req = "state" /\ ~Good(x.now.file)'
           \/ x.req = "messages" /\ x.now.page # page
    BY <1>1, <1>4, <2>3 DEF OldLine, Good
  <2>5. OldLine(i + n)
    BY <1>3, <2>2, <2>4 DEF OldLine
  <2>6. QED BY <2>1, <2>5
<1>5. NoOldLine => NoOldLine'
  BY <1>4 DEF NoOldLine
<1>6. NoOldLine /\ NoOldOp => NoOldOp'
  <2>1. ASSUME NoOldLine, NoOldOp, NEW a \in Ops, OldOp(a)' PROVE FALSE
    <3>1. PICK i \in AnswersIn(pipe, a, n) : OldLine(i)
      BY <2>1, OldWhenRead DEF NoOldOp
    <3>2. i \in 1..Len(pipe)
      BY AnswerHasPlace
    <3>3. QED BY <2>1, <3>1, <3>2 DEF NoOldLine
  <2>2. QED BY <2>1 DEF NoOldOp
<1>7. CASE Clean
  <2>1. Good(sessionFile)'
    BY <1>1, <1>7 DEF Clean, Good, Now
  <2>2. Clean'
    BY <1>1, <1>5, <1>6, <1>7, <2>1 DEF Clean
  <2>3. QED BY <2>2 DEF Trace
<1>8. ASSUME NEW f \in Ops, Follows(f) PROVE Trace'
  <2>1. Active(f) /\ op[f].kind \in Movers /\ ~op[f].failed /\ ~Due(f)
    BY <1>1, <1>8 DEF Follows, Calm
  <2>2. Active(f)' /\ op'[f].kind \in Movers /\ Batch(f)' = Batch(f)
    BY <2>1, ChunkOfRunning
  <2>3. Batch(f)[1] \notin Fails => ~op'[f].failed
    <3>1. OpIsInOrder(f)'
      BY <2>2, ReadKeepsOrder DEF OrderedInv, OrderInv
    <3>2. QED BY <2>2, <3>1 DEF OpIsInOrder
  <2>4. CASE Moved(f)
    <3>1. NoOldLine /\ NoOldOp
      BY <1>1, <2>4 DEF Moved, NoOldOp, Calm
    <3>2. Batch(f)[1] = "state"
      BY <2>1, <2>4 DEF Moved, Due
    <3>3. NoOldLine' /\ NoOldOp'
      BY <1>5, <1>6, <3>1
    <3>4. Moved(f)'
      <4>1. \A a \in Ops : ~OldOp(a)'
        BY <3>3 DEF NoOldOp
      <4>2. Batch(f)'[1] = "state"
        BY <2>2, <3>2
      <4>3. QED BY <3>3, <4>1, <4>2 DEF Moved
    <3>5. ~op'[f].failed
      BY <2>3, <3>2 DEF Fails, Moves
    <3>6. QED BY <2>2, <3>4, <3>5 DEF Follows, Trace
  <2>5. CASE Located(f)
    <3>1. NoOldLine' /\ NoOldOp'
      BY <1>5, <1>6, <2>5 DEF Located
    <3>2. Good(sessionFile)'
      BY <1>1, <2>5 DEF Located, Good, Now
    <3>3. Batch(f)[1] = "messages"
      BY <2>5 DEF Located
    <3>4. Batch(f)'[1] = "messages"
      BY <2>2, <3>3
    <3>5. Located(f)'
      BY <3>1, <3>2, <3>4 DEF Located
    <3>6. ~op'[f].failed
      BY <2>3, <3>3 DEF Fails, Moves
    <3>7. QED BY <2>2, <3>5, <3>6 DEF Follows, Trace
  <2>6. CASE Moving(f)
    <3>1. PICK p \in 1..Len(pipe) :
            /\ OpAt(pipe, wire, p) = f /\ pipe[p].ok
            /\ \A j \in 1..Len(pipe) : OldLine(j) =>
                 j < p /\ (Active(pipe[j].op) => Before(pipe[j].op, p))
            /\ \A a \in Ops : OldOp(a) => Before(a, p)
      BY <2>6 DEF Moving
    <3>2. p \in Places(pipe, wire, f) /\ p \in Nat
      BY <1>2, <3>1 DEF Places
    <3>3. Places(pipe, wire, f) = {p} /\ Batch(f)[1] \in Moves
      <4>1. Batch(f)[1] \in Moves
        BY <2>6 DEF Moving
      <4>2. Batch(f)[1] # "state"
        BY <4>1 DEF Moves
      <4>3. QED BY <2>1, <3>2, <4>1, <4>2, ReqOfBatch
    <3>4. ~op'[f].failed
      <4>1. AnswersIn(pipe, f, n) \subseteq {p}
        BY <2>1, <3>3, ChunkOfRunning
      <4>2. QED BY <2>1, <3>1, <4>1, ChunkOfRunning
    <3>5. ASSUME NEW a \in Ops, OldOp(a)' PROVE Active(a) /\ Before(a, p)
      <4>1. CASE OldOp(a)
        BY <3>1, <3>5, <4>1, OldWhenRead
      <4>2. CASE \E i \in AnswersIn(pipe, a, n) : OldLine(i)
        <5>1. PICK i \in AnswersIn(pipe, a, n) : OldLine(i)
          BY <4>2
        <5>2. i \in 1..Len(pipe) /\ pipe[i].op = a /\ Active(a)
          BY <3>5, <5>1, AnswerHasPlace, OldWhenRead DEF AnswersIn
        <5>3. QED BY <3>1, <5>1, <5>2
      <4>3. QED BY <3>5, <4>1, <4>2, OldWhenRead
    <3>6. CASE p <= n
      <4>1. NoOldLine'
        <5>1. ASSUME NEW i \in 1..Len(pipe'), OldLine(i)' PROVE FALSE
          <6>1. i + n < p
            BY <1>4, <3>1, <5>1
          <6>2. QED BY <1>2, <3>2, <3>6, <6>1
        <5>2. QED BY <5>1 DEF NoOldLine
      <4>2. ASSUME NEW a \in Ops, Active(a), Before(a, p) PROVE op'[a].missing = 0
        <5>1. \A q \in Places(pipe, wire, a) : q < p /\ q \in Nat
          BY <1>2, <4>2 DEF Before, Places
        <5>2. {q \in Places(pipe, wire, a) : q > n} = {}
          <6>1. ASSUME NEW q \in Places(pipe, wire, a) PROVE ~(q > n)
            <7>1. q < p /\ q \in Nat
              BY <5>1
            <7>2. QED BY <1>2, <3>2, <3>6, <7>1
          <6>2. QED BY <6>1
        <5>3. Places(pipe', wire', a) = {}
          BY <4>2, <5>2, ChunkOfRunning
        <5>4. QED BY <4>2, <5>3, MissingIfSent
      <4>3. op'[f].missing = 0
        <5>1. {q \in Places(pipe, wire, f) : q > n} = {}
          BY <1>2, <3>2, <3>3, <3>6
        <5>2. Places(pipe', wire', f) = {}
          BY <2>1, <5>1, ChunkOfRunning
        <5>3. QED BY <2>1, <5>2, MissingIfSent
      <4>4. \A a \in Ops : OldOp(a)' => Due(a)'
        BY <3>5, <4>2, ChunkOfRunning DEF Due
      <4>5. Batch(f)'[1] \in Moves
        BY <2>2, <3>3
      <4>6. Moved(f)'
        BY <4>1, <4>3, <4>4, <4>5 DEF Moved
      <4>7. QED BY <2>2, <3>4, <4>6 DEF Follows, Trace
    <3>7. CASE ~(p <= n)
      <4>1. p - n \in 1..Len(pipe') /\ (p - n) + n = p /\ p - n \in Nat
        BY <1>2, <3>1, <3>7
      <4>2. PICK r : r = p - n
        OBVIOUS
      <4>3. r \in 1..Len(pipe') /\ r + n = p /\ r \in Nat /\ pipe'[r] = pipe[p]
        BY <1>2, <4>1, <4>2
      <4>4. OpAt(pipe', wire', r) = f /\ pipe'[r].ok
        BY <1>2, <3>1, <4>3 DEF OpAt
      <4>5. ASSUME NEW a \in Ops, Active(a), Before(a, p) PROVE Before(a, r)'
        <5>1. \A q \in Places(pipe, wire, a) : q < p /\ q \in Nat
          BY <1>2, <4>5 DEF Before, Places
        <5>2. \A q \in Places(pipe', wire', a) : \E s \in Places(pipe, wire, a) : q = s - n
          BY <4>5, ChunkOfRunning
        <5>3. \A q \in Places(pipe', wire', a) : q < r
          BY <1>2, <3>2, <4>3, <5>1, <5>2
        <5>4. PICK t : t = r
          OBVIOUS
        <5>5. \A q \in Places(pipe', wire', a) : q < t
          BY <5>3, <5>4
        <5>6. QED BY <5>4, <5>5 DEF Before
      <4>6. ASSUME NEW j \in 1..Len(pipe'), OldLine(j)'
            PROVE  j < r /\ (Active(pipe[j].op)' => Before(pipe[j].op, r)')
        <5>1. j + n \in 1..Len(pipe) /\ pipe'[j] = pipe[j + n] /\ OldLine(j + n)
          BY <1>4, <4>6
        <5>2. pipe[j + n].type = "answer"
          BY <5>1 DEF OldLine
        <5>3. PICK a \in Ops : a = pipe[j + n].op /\ Began(a)
          BY <5>1, <5>2, OpOfLine
        <5>4. j + n < p /\ (Active(a) => Before(a, p))
          BY <3>1, <5>1, <5>3
        <5>5. j < r
          BY <1>2, <4>3, <5>4
        <5>6. Active(a)' => Before(a, r)'
          BY <4>5, <5>3, <5>4, RanBeforeChunk
        <5>7. PICK x : x = pipe[j + n]
          OBVIOUS
        <5>8. Active(x.op)' => Before(x.op, r)'
          BY <5>3, <5>6, <5>7
        <5>9. pipe'[j] = x
          BY <5>1, <5>7
        <5>10. QED BY <5>5, <5>8, <5>9
      <4>7. \A a \in Ops : OldOp(a)' => Before(a, r)'
        BY <3>5, <4>5
      <4>8. Batch(f)'[1] \in Moves
        BY <2>2, <3>3
      <4>9. Moving(f)'
        BY <4>3, <4>4, <4>6, <4>7, <4>8 DEF Moving
      <4>10. QED BY <2>2, <3>4, <4>9 DEF Follows, Trace
    <3>8. QED BY <3>6, <3>7
  <2>7. QED BY <1>8, <2>4, <2>5, <2>6 DEF Follows
<1>9. QED BY <1>1, <1>7, <1>8 DEF Trace

--------------------------------------------------------------------------------
ViewInv == OrderedInv /\ TurnInv /\ Trace

LEMMA InitIsViewInv == ViewInit => ViewInv
<1> SUFFICES ASSUME ViewInit PROVE ViewInv
  OBVIOUS
<1>1. OrderedInv /\ TurnInv
  BY InitIsInOrder, InitKnowsTurns
<1>2. /\ op = [o \in Ops |-> NoOp] /\ pipe = <<>> /\ sessionFile = file /\ file \in saved
      /\ shown = page
  BY DEF ViewInit
<1>3. NoOldLine
  BY <1>2 DEF NoOldLine
<1>4. NoOldOp
  BY <1>2, NoOpIs DEF NoOldOp, OldOp, Active
<1>5. Good(sessionFile)
  BY <1>2 DEF Good, Now
<1>6. Clean
  BY <1>2, <1>3, <1>4, <1>5 DEF Clean
<1>7. QED BY <1>1, <1>6 DEF ViewInv, Trace

LEMMA NextKeepsTrace == OrderedInv /\ Trace /\ [ViewNext]_viewVars => Trace'
<1> SUFFICES ASSUME OrderedInv, Trace, [ViewNext]_viewVars PROVE Trace'
  OBVIOUS
<1>1. CASE \E k \in Kinds : Begin(k)
  BY <1>1, BeginKeepsTrace
<1>2. CASE \E n \in 1..Len(pipe) : ReadChunk(n)
  BY <1>2, ReadKeepsTrace
<1>3. CASE \E o \in Ops : Continue(o)
  BY <1>3, ContinueKeepsTrace
<1>4. CASE \E o \in Ops : TimesOut(o)
  BY <1>4, TimeOutKeepsTrace
<1>5. CASE PiAnswers
  BY <1>5, PiAnswersKeepsTrace
<1>6. CASE PiTurns
  BY <1>6, PiTurnsKeepsTrace
<1>7. CASE ViewStop \/ UNCHANGED viewVars
  <2>1. UNCHANGED <<sessionFile, shown, op, wire, pipe, file, saved, page, lost>>
    BY <1>7 DEF ViewStop, viewVars, opVars, believedVars, piVars
  <2>2. \A f : Good(f)' <=> Good(f)
    BY <2>1 DEF Good, Now
  <2>3. \A i : OldLine(i)' <=> OldLine(i)
    BY <2>1, <2>2 DEF OldLine
  <2>4. \A o \in Ops : OldOp(o)' <=> OldOp(o)
    BY <2>1, <2>2 DEF OldOp, Active, Batch
  <2>5. (NoOldLine' <=> NoOldLine) /\ (NoOldOp' <=> NoOldOp)
    BY <2>1, <2>3, <2>4 DEF NoOldLine, NoOldOp
  <2>6. Good(sessionFile)' <=> Good(sessionFile)
    BY <2>1 DEF Good, Now
  <2>7. \A o, i : Before(o, i)' <=> Before(o, i)
    BY <2>1 DEF Before
  <2>8. \A o \in Ops : Batch(o)' = Batch(o) /\ (Active(o)' <=> Active(o)) /\ (Due(o)' <=> Due(o))
    BY <2>1 DEF Batch, Active, Due
  <2>9. ASSUME NEW f \in Ops, Follows(f) PROVE Follows(f)'
    <3>1. CASE Moving(f)
      <4>1. Moving(f)'
        BY <2>1, <2>3, <2>4, <2>7, <2>8, <3>1 DEF Moving, Before, Active
      <4>2. QED BY <2>1, <2>8, <2>9, <4>1 DEF Follows
    <3>2. CASE Moved(f)
      <4>1. Moved(f)'
        BY <2>1, <2>4, <2>5, <2>8, <3>2 DEF Moved
      <4>2. QED BY <2>1, <2>8, <2>9, <4>1 DEF Follows
    <3>3. CASE Located(f)
      <4>1. Located(f)'
        BY <2>5, <2>6, <2>8, <3>3 DEF Located
      <4>2. QED BY <2>1, <2>8, <2>9, <4>1 DEF Follows
    <3>4. QED BY <2>9, <3>1, <3>2, <3>3 DEF Follows
  <2>10. QED BY <2>1, <2>5, <2>6, <2>9 DEF Trace, Clean
<1>8. QED BY <1>1, <1>2, <1>3, <1>4, <1>5, <1>6, <1>7 DEF ViewNext

LEMMA ViewInvariant == ViewSpec => []ViewInv
<1>1. ViewInit => ViewInv
  BY InitIsViewInv
<1>2. ViewInv /\ [ViewNext]_viewVars => ViewInv'
  BY NextKeepsOrder, NextKnowsTurns, NextKeepsTrace DEF ViewInv
<1>3. QED BY <1>1, <1>2, PTL DEF ViewSpec

\* However switches, new sessions, forks, reverts, renames and hydrations overlap, and however
\* pi's lines are cut into chunks: once all is answered the session names pi's file or none and
\* the window shows the history pi is on, unless an operation that moves pi timed out
\* (chat-session.ts: switchTo, newSession, hydrate and the callbacks of fork and revert).
THEOREM TheViewIsPis == ViewSpec => []ViewIsPis
<1>1. ViewInv => ViewIsPis
  <2> SUFFICES ASSUME ViewInv PROVE ViewIsPis
    OBVIOUS
  <2>1. ViewTypeOK
    BY DEF ViewInv, OrderedInv
  <2>2. ASSUME AtRest, ~lost PROVE Clean
    <3>1. \A o \in Ops : ~Follows(o)
      BY <2>2 DEF AtRest, Follows
    <3>2. QED BY <2>2, <3>1 DEF ViewInv, Trace
  <2>3. QED BY <2>1, <2>2 DEF ViewIsPis, FileIsPis, HistoryIsPis, Clean, Good
<1>2. QED BY <1>1, ViewInvariant, PTL

\* Once all is answered the session takes a turn for running when one runs, and takes none for
\* running when none does, unless a hydration was overtaken by the end of the turn it was told of
\* (chat-session.ts: isStreaming, on which the guards of switchTo, fork and revert depend).
THEOREM TurnsAreSeen == ViewSpec => []StreamingIsPis
<1>1. ViewInv => StreamingIsPis
  <2> SUFFICES ASSUME ViewInv PROVE StreamingIsPis
    OBVIOUS
  <2>1. ASSUME AtRest PROVE After <=> streaming
    <3>1. Events(Len(pipe)) = {}
      BY <2>1 DEF AtRest, Events
    <3>2. QED BY <3>1 DEF After, StreamingAfter
  <2>2. turn \in {"idle", "asked", "busy"}
    BY DEF ViewInv, OrderedInv, ViewTypeOK
  <2>3. QED BY <2>1, <2>2 DEF ViewInv, TurnInv, StreamingIsPis, TurnIsSeen, StuckOnlyByHydrate
<1>2. QED BY <1>1, ViewInvariant, PTL
================================================================================
