------------------------------ MODULE ChatSession ------------------------------
(***************************************************************************)
(* src/main/chat-session.ts: the life of chat sessions and of the pi        *)
(* processes they start, over the spawn queue (SpawnQueue, instance Q).     *)
(*                                                                         *)
(* A boot is one call of bootRpc: made when a session is created, by        *)
(* reloadSession, or by the one retry of a start-up that failed.  It takes  *)
(* its turn in the queue, spawns one pi and makes that pi the session's     *)
(* client.  Handlers of IPC messages, timers and process events run to      *)
(* completion one at a time; the continuation of an acquire that was        *)
(* granted runs before any of them (Quiet).  pi is external.                *)
(***************************************************************************)
EXTENDS Naturals, Sequences, FiniteSets

CONSTANTS
  Sessions,   \* chat sessions, one per window
  MaxBoots,   \* bound: calls of bootRpc
  MaxPipe,    \* bound: unread lines of one pi
  SpawnFaults,\* bound: how a spawn may fail, a subset of {"error", "throws"}
  RunsTurns,  \* bound: whether pi runs turns at all, or only starts up
  Profile,    \* the install prefix they share
  None

Boots == 1..MaxBoots

ASSUME SessionsAssumption ==
  MaxBoots \in Nat /\ MaxPipe \in Nat /\ None \notin Sessions /\ None \notin Boots

VARIABLES
  \* the queue (see SpawnQueue)
  held, waiting, watching, armed, call, reported,
  \* per boot
  booted,     \* how many boots there were; they are numbered in order
  sess,       \* the session that booted it
  who,        \* "create", "reload" or "retry"
  pi,         \* external: "none", "up" or "dead"
  turn,       \* external: "boot" (before its first line), "idle" or "busy"
  pipe,       \* external: the lines it printed that were not read
  killed,     \* its client was disposed
  seen,       \* readyReported: a line of it was read
  exited,     \* its exit or spawn error was handled
  \* per session
  life,       \* "none", "creating", "open", "disposed" or "failed"
  rpc,        \* the boot whose client it uses
  gen,        \* the boot spawned last (rpcGeneration)
  alive,      \* rpcAlive
  streaming,
  saved,      \* sessionFile is known
  reload,     \* reloadInFlight: "no", "boot" (in bootRpc) or "hydrate"
  retry,      \* retryingStartup: "no", "pause", "boot" or "hydrate"
  retried,    \* startupRetried
  late        \* history: a line was read from a pi already exited or disposed

queueVars == <<held, waiting, watching, armed, call, reported>>
piVars == <<pi, turn, pipe, killed, seen, exited>>
bootVars == <<booted, sess, who>>
restartVars == <<reload, retry, retried>>
clientVars == <<rpc, gen, alive>>
vars == <<queueVars, piVars, bootVars, restartVars, clientVars, life, streaming, saved, late>>

Q == INSTANCE SpawnQueue WITH
       Keys <- {Profile}, Takers <- Boots, Watchers <- {},
       KeyOf <- [b \in Boots |-> Profile], expired <- {}

TypeOK ==
  /\ Q!TypeOK
  /\ booted \in 0..MaxBoots
  /\ sess \in [Boots -> Sessions \cup {None}]
  /\ who \in [Boots -> {"none", "create", "reload", "retry"}]
  /\ pi \in [Boots -> {"none", "up", "dead"}]
  /\ turn \in [Boots -> {"boot", "idle", "busy"}]
  /\ pipe \in [Boots -> Seq({"answer", "agent_start", "agent_settled"})]
  /\ killed \in [Boots -> BOOLEAN] /\ seen \in [Boots -> BOOLEAN] /\ exited \in [Boots -> BOOLEAN]
  /\ life \in [Sessions -> {"none", "creating", "open", "disposed", "failed"}]
  /\ rpc \in [Sessions -> Boots \cup {None}] /\ gen \in [Sessions -> Boots \cup {None}]
  /\ alive \in [Sessions -> BOOLEAN] /\ streaming \in [Sessions -> BOOLEAN]
  /\ saved \in [Sessions -> BOOLEAN]
  /\ reload \in [Sessions -> {"no", "boot", "hydrate"}]
  /\ retry \in [Sessions -> {"no", "pause", "boot", "hydrate"}]
  /\ retried \in [Sessions -> BOOLEAN] /\ late \in [Sessions -> BOOLEAN]

Init ==
  /\ Q!Init
  /\ booted = 0
  /\ sess = [b \in Boots |-> None] /\ who = [b \in Boots |-> "none"]
  /\ pi = [b \in Boots |-> "none"] /\ turn = [b \in Boots |-> "boot"]
  /\ pipe = [b \in Boots |-> <<>>] /\ killed = [b \in Boots |-> FALSE]
  /\ seen = [b \in Boots |-> FALSE] /\ exited = [b \in Boots |-> FALSE]
  /\ life = [s \in Sessions |-> "none"]
  /\ rpc = [s \in Sessions |-> None] /\ gen = [s \in Sessions |-> None]
  /\ alive = [s \in Sessions |-> FALSE] /\ streaming = [s \in Sessions |-> FALSE]
  /\ saved \in [Sessions -> BOOLEAN]
  /\ reload = [s \in Sessions |-> "no"] /\ retry = [s \in Sessions |-> "no"]
  /\ retried = [s \in Sessions |-> FALSE] /\ late = [s \in Sessions |-> FALSE]

--------------------------------------------------------------------------------
\* bootRpc

\* A granted acquire is a promise whose continuation has not run yet: it goes first.
Granted(b) == b <= booted /\ call[b] = "resolved" /\ gen[sess[b]] # b /\ pi[b] = "none"
              /\ ~exited[b]
Quiet == \A b \in Boots : ~Granted(b)

\* The first part of bootRpc, up to the await of its turn.
StartBoot(s, cause) ==
  LET b == booted + 1 IN
  /\ booted' = b
  /\ sess' = [sess EXCEPT ![b] = s]
  /\ who' = [who EXCEPT ![b] = cause]
  /\ Q!Acquire(b)
  /\ UNCHANGED reported

\* Mutant: every call gives a turn back (`released` is not looked at).
ReleaseSpawnAgain(b) == reported' = reported \cup {b} /\ Q!Release(Profile)

\* releaseSpawn: gives the turn back, once.
ReleaseSpawn(b) ==
  IF b \in reported
  THEN UNCHANGED queueVars
  ELSE reported' = reported \cup {b} /\ Q!Release(Profile)

\* retryStartup up to its pause: at most once per session, not once it is disposed.
RetryStartup(s) ==
  IF retried[s] \/ life[s] = "disposed"
  THEN UNCHANGED <<retry, retried>>
  ELSE /\ retried' = [retried EXCEPT ![s] = TRUE]
       /\ retry' = [retry EXCEPT ![s] = "pause"]

\* Room for the boots the code may make by itself is kept when the user causes one.
RoomForBoot(s) ==
  booted + 1 + Cardinality({x \in Sessions : ~retried[x] \/ retry[x] = "pause"}) <= MaxBoots

\* createChatSession
Create(s) ==
  /\ Quiet /\ life[s] = "none" /\ RoomForBoot(s)
  /\ life' = [life EXCEPT ![s] = "creating"]
  /\ StartBoot(s, "create")
  /\ UNCHANGED <<piVars, restartVars, clientVars, streaming, saved, late>>

\* What the caller of bootRpc does once it has its client.  reloadSession kills a client
\* that arrives after the session was disposed; the retry does not look.
Continue(s, b) ==
  /\ life' = [life EXCEPT ![s] = IF who[b] = "create" THEN "open" ELSE @]
  /\ LET unwanted == who[b] = "reload" /\ life[s] = "disposed" IN
       /\ reload' = [reload EXCEPT ![s] =
                       IF who[b] # "reload" THEN @ ELSE IF unwanted THEN "no" ELSE "hydrate"]
       /\ killed' = [killed EXCEPT ![b] = unwanted]

\* The rest of bootRpc: spawnRpc makes the client, which becomes the session's.
Spawn(b) ==
  LET s == sess[b] IN
  /\ Granted(b)
  /\ pi' = [pi EXCEPT ![b] = "up"]
  /\ gen' = [gen EXCEPT ![s] = b]
  /\ rpc' = [rpc EXCEPT ![s] = b]
  /\ alive' = [alive EXCEPT ![s] = TRUE]
  /\ Continue(s, b)
  /\ retry' = [retry EXCEPT ![s] = IF who[b] = "retry" THEN "hydrate" ELSE @]
  /\ UNCHANGED <<queueVars, bootVars, turn, pipe, seen, exited, retried, streaming, saved, late>>

\* The same, but the process cannot be spawned: its error event comes before anything else
\* runs.  onError takes it for a start-up failure, unless the session is disposed.
SpawnError(b) ==
  LET s == sess[b] IN
  /\ Granted(b) /\ "error" \in SpawnFaults
  /\ pi' = [pi EXCEPT ![b] = "dead"]
  /\ exited' = [exited EXCEPT ![b] = TRUE]
  /\ gen' = [gen EXCEPT ![s] = b]
  /\ rpc' = [rpc EXCEPT ![s] = b]
  /\ alive' = [alive EXCEPT ![s] = TRUE]
  /\ Continue(s, b)
  /\ IF life[s] = "disposed"
     THEN /\ UNCHANGED <<queueVars, retried>>
          /\ retry' = [retry EXCEPT ![s] = IF who[b] = "retry" THEN "hydrate" ELSE @]
     ELSE /\ ReleaseSpawn(b)
          /\ IF who[b] = "retry"
             THEN retry' = [retry EXCEPT ![s] = "hydrate"] /\ UNCHANGED retried
             ELSE RetryStartup(s)
  /\ UNCHANGED <<bootVars, turn, pipe, seen, streaming, saved, late>>

\* The same, but the spawn throws: the turn is given back and the caller's catch reports it.
SpawnThrows(b) ==
  LET s == sess[b] IN
  /\ Granted(b) /\ "throws" \in SpawnFaults
  /\ exited' = [exited EXCEPT ![b] = TRUE]
  /\ gen' = [gen EXCEPT ![s] = b]
  /\ ReleaseSpawn(b)
  /\ life' = [life EXCEPT ![s] = IF who[b] = "create" THEN "failed" ELSE @]
  /\ reload' = [reload EXCEPT ![s] = IF who[b] = "reload" THEN "no" ELSE @]
  /\ retry' = [retry EXCEPT ![s] = IF who[b] = "retry" THEN "no" ELSE @]
  /\ alive' = [alive EXCEPT ![s] = IF who[b] = "retry" THEN FALSE ELSE @]
  /\ UNCHANGED <<bootVars, pi, turn, pipe, killed, seen, rpc, retried, streaming, saved, late>>

--------------------------------------------------------------------------------
\* reloadSession, its callers, the retry, dispose

\* Mutant: the client that is replaced is not disposed.
ReloadLeavesOld(s) ==
  /\ Quiet /\ life[s] = "open" /\ reload[s] = "no" /\ ~streaming[s]
  /\ saved[s] \/ ~alive[s]
  /\ RoomForBoot(s)
  /\ alive' = [alive EXCEPT ![s] = FALSE]
  /\ reload' = [reload EXCEPT ![s] = "boot"]
  /\ StartBoot(s, "reload")
  /\ UNCHANGED <<pi, turn, pipe, killed, seen, exited, rpc, gen, retry, retried, life, streaming, saved, late>>

\* reloadSession, for a "reload" message, the /reload command, or any message that finds pi
\* dead (handleMessage).  A caller that finds a reload in flight waits for that one; a
\* streaming session, or a live one without a file, is left alone.  A "reload" message that
\* finds pi dead reloads once more when the first is over: that is this action again.
Reload(s) ==
  /\ Quiet /\ life[s] = "open" /\ reload[s] = "no" /\ ~streaming[s]
  /\ saved[s] \/ ~alive[s]
  /\ RoomForBoot(s)
  /\ killed' = [b \in Boots |-> killed[b] \/ (alive[s] /\ b = rpc[s])]
  /\ alive' = [alive EXCEPT ![s] = FALSE]
  /\ reload' = [reload EXCEPT ![s] = "boot"]
  /\ StartBoot(s, "reload")
  /\ UNCHANGED <<pi, turn, pipe, seen, exited, rpc, gen, retry, retried, life, streaming, saved, late>>

\* The pause of a retry is over.
RetryBoots(s) ==
  /\ Quiet /\ retry[s] = "pause"
  /\ IF life[s] = "disposed"
     THEN /\ retry' = [retry EXCEPT ![s] = "no"]
          /\ UNCHANGED <<queueVars, bootVars>>
     ELSE /\ retry' = [retry EXCEPT ![s] = "boot"]
          /\ StartBoot(s, "retry")
  /\ UNCHANGED <<piVars, clientVars, life, reload, retried, streaming, saved, late>>

\* Mutant: hydrate's end does not end the reload (no `finally`).
ReloadNeverDone(s) ==
  /\ Quiet /\ retry[s] = "hydrate"
  /\ retry' = [retry EXCEPT ![s] = "no"]
  /\ saved' = [saved EXCEPT ![s] = @ \/ seen[rpc[s]]]
  /\ UNCHANGED <<queueVars, piVars, bootVars, clientVars, reload, retried, life, streaming, late>>

\* hydrate's requests are answered or fail, and the reload or retry that awaited it is over.
\* The state it read tells where the session is saved.
HydrateEnds(s) ==
  /\ Quiet
  /\ \/ reload[s] = "hydrate" /\ reload' = [reload EXCEPT ![s] = "no"] /\ UNCHANGED retry
     \/ retry[s] = "hydrate" /\ retry' = [retry EXCEPT ![s] = "no"] /\ UNCHANGED reload
  /\ saved' = [saved EXCEPT ![s] = @ \/ seen[rpc[s]]]
  /\ UNCHANGED <<queueVars, piVars, bootVars, clientVars, retried, life, streaming, late>>

\* dispose(): the client the session has now is disposed.
Dispose(s) ==
  /\ Quiet /\ life[s] = "open"
  /\ life' = [life EXCEPT ![s] = "disposed"]
  /\ killed' = [killed EXCEPT ![rpc[s]] = TRUE]
  /\ UNCHANGED <<queueVars, bootVars, restartVars, clientVars, pi, turn, pipe, seen, exited,
                 streaming, saved, late>>

--------------------------------------------------------------------------------
\* What a pi does, and how its session handles it

\* pi finishes its start-up and answers the first request; then it runs turns.
PiPrints(b) ==
  /\ Quiet /\ pi[b] = "up" /\ Len(pipe[b]) < MaxPipe
  /\ \/ /\ turn[b] = "boot"
        /\ turn' = [turn EXCEPT ![b] = "idle"]
        /\ pipe' = [pipe EXCEPT ![b] = Append(@, "answer")]
     \/ /\ turn[b] = "idle" /\ RunsTurns
        /\ turn' = [turn EXCEPT ![b] = "busy"]
        /\ pipe' = [pipe EXCEPT ![b] = Append(@, "agent_start")]
     \/ /\ turn[b] = "busy"
        /\ turn' = [turn EXCEPT ![b] = "idle"]
        /\ pipe' = [pipe EXCEPT ![b] = Append(@, "agent_settled")]
  /\ UNCHANGED <<queueVars, bootVars, restartVars, clientVars, pi, killed, seen, exited, life,
                 streaming, saved, late>>

\* It dies: killed, or by itself.
PiDies(b) ==
  /\ Quiet /\ pi[b] = "up"
  /\ pi' = [pi EXCEPT ![b] = "dead"]
  /\ turn' = [turn EXCEPT ![b] = "boot"]
  /\ UNCHANGED <<queueVars, bootVars, restartVars, clientVars, pipe, killed, seen, exited,
                 life, streaming, saved, late>>

\* A line of its stdout is read: the first reports it ready; an event counts if its pi is
\* of the current generation and the session is not disposed.  Lines left in the pipe are
\* read although pi was killed or has exited.
ReadLine(b) ==
  LET s == sess[b]
      line == Head(pipe[b])
      counts == gen[s] = b /\ life[s] # "disposed" IN
  /\ Quiet /\ pipe[b] # <<>>
  /\ pipe' = [pipe EXCEPT ![b] = Tail(@)]
  /\ seen' = [seen EXCEPT ![b] = TRUE]
  /\ IF seen[b] THEN UNCHANGED queueVars ELSE ReleaseSpawn(b)
  /\ streaming' = [streaming EXCEPT ![s] =
                     IF ~counts \/ line = "answer" THEN @ ELSE line = "agent_start"]
  /\ late' = [late EXCEPT ![s] = @ \/ (counts /\ (killed[b] \/ exited[b]))]
  /\ UNCHANGED <<bootVars, restartVars, clientVars, pi, turn, killed, exited, life, saved>>

\* Mutant: the exit of a pi that was replaced counts like that of the current one.
AnyExitCounts(b) ==
  LET s == sess[b] IN
  /\ Quiet /\ pi[b] = "dead" /\ ~exited[b]
  /\ exited' = [exited EXCEPT ![b] = TRUE]
  /\ streaming' = [streaming EXCEPT ![s] = FALSE]
  /\ alive' = [alive EXCEPT ![s] = FALSE]
  /\ IF seen[b]
     THEN UNCHANGED <<queueVars, retry, retried>>
     ELSE ReleaseSpawn(b) /\ RetryStartup(s)
  /\ UNCHANGED <<bootVars, pi, turn, pipe, killed, seen, rpc, gen, reload, life, saved, late>>

\* onExit: nothing for a pi that was replaced.  Otherwise the session has no live pi and no
\* turn; and a pi that had not printed a line is a start-up that failed: the turn in the
\* queue is given back and the start-up retried once.
ExitEvent(b) ==
  LET s == sess[b] IN
  /\ Quiet /\ pi[b] = "dead" /\ ~exited[b]
  /\ exited' = [exited EXCEPT ![b] = TRUE]
  /\ IF gen[s] = b
     THEN /\ streaming' = [streaming EXCEPT ![s] = FALSE]
          /\ alive' = [alive EXCEPT ![s] = FALSE]
          /\ IF seen[b]
             THEN UNCHANGED <<queueVars, retry, retried>>
             ELSE ReleaseSpawn(b) /\ RetryStartup(s)
     ELSE UNCHANGED <<queueVars, retry, retried, streaming, alive>>
  /\ UNCHANGED <<bootVars, pi, turn, pipe, killed, seen, rpc, gen, reload, life, saved, late>>

\* The ceiling of the spawn queue.
Ceiling(b) ==
  /\ Quiet
  /\ Q!CeilingFires(b)
  /\ UNCHANGED reported
  /\ UNCHANGED <<bootVars, piVars, restartVars, clientVars, life, streaming, saved, late>>

\* Nothing is left to happen but what the user or a pi may do.
Idle ==
  /\ Quiet /\ armed = {}
  /\ \A b \in Boots : pi[b] = "dead" => exited[b]
  /\ \A b \in Boots : pipe[b] = <<>>
  /\ \A s \in Sessions : reload[s] = "no" /\ retry[s] = "no"
  /\ UNCHANGED vars

Next ==
  \/ \E s \in Sessions : Create(s) \/ Reload(s) \/ RetryBoots(s) \/ HydrateEnds(s) \/ Dispose(s)
  \/ \E b \in Boots : \/ Spawn(b) \/ SpawnError(b) \/ SpawnThrows(b)
                      \/ PiPrints(b) \/ PiDies(b) \/ ReadLine(b) \/ ExitEvent(b) \/ Ceiling(b)
  \/ Idle

\* The runtime runs continuations, timers and events; requests end by their timeouts; a
\* killed pi dies.  A pi need not start up, answer or die by itself, and users do nothing
\* they must.
Fairness ==
  /\ \A b \in Boots : /\ WF_vars(Spawn(b) \/ SpawnError(b) \/ SpawnThrows(b))
                      /\ WF_vars(ExitEvent(b)) /\ WF_vars(Ceiling(b))
                      /\ WF_vars(killed[b] /\ PiDies(b))
  /\ \A s \in Sessions : WF_vars(RetryBoots(s)) /\ WF_vars(HydrateEnds(s))

Spec == Init /\ [][Next]_vars /\ Fairness

--------------------------------------------------------------------------------
\* Properties

\* A pi that runs and that no window can reach any more: not the client of its session, or
\* the session is gone; and nobody has killed it.
Orphans(s) ==
  {b \in Boots : sess[b] = s /\ pi[b] = "up" /\ ~killed[b] /\ (rpc[s] # b \/ life[s] = "disposed")}

\* Reloads, messages to a dead pi, early exits and closing windows in any order leave no pi
\* behind, except through the retry of a failed start-up, and then one.
OrphansOnlyByRetry ==
  \A s \in Sessions : Cardinality(Orphans(s)) <= IF retried[s] THEN 1 ELSE 0

\* A start-up is retried at most once per session, so it cannot become a crash loop (line 963).
NoCrashLoop ==
  \A s \in Sessions : Cardinality({b \in Boots : sess[b] = s /\ who[b] = "retry"}) <= 1

\* A session that takes its pi for dead, with no reload under way.  (A retry whose spawn
\* throws clears rpcAlive whatever pi the session has and leaves gen ahead of rpc.)
BelievedDead(s) == life[s] = "open" /\ ~alive[s] /\ reload[s] = "no" /\ gen[s] = rpc[s]

\* Then it has no running pi: a message would otherwise start a second one beside it.
DeadMeansDead ==
  \A s \in Sessions : BelievedDead(s) =>
    pi[rpc[s]] = "dead" \/ killed[rpc[s]]

\* A pi whose process exited is known to be gone: the next message restarts it (lines 968-970).
\* It holds for a pi that got as far as answering; onError does not clear rpcAlive for the others.
ExitIsNoticed ==
  \A s \in Sessions : life[s] = "open" /\ gen[s] = rpc[s] =>
    (exited[rpc[s]] /\ seen[rpc[s]] => ~alive[s])

\* A session without a pi is not streaming, so that its reload is not refused; provided no
\* line of a pi that had exited or was disposed is read afterwards.
StreamingEndsWithPi ==
  \A s \in Sessions : ~late[s] /\ BelievedDead(s) => ~streaming[s]

\* A start-up that is known to have failed does not hold the queue, unless its session is gone.
FailureGivesTurnBack ==
  \A b \in Boots : held[Profile] = b /\ exited[b] => life[sess[b]] = "disposed"

\* Sessions use the queue the way SpawnQueue takes its callers to: every turn is acquired
\* once, and given back at most once and after it came, by a call or by the ceiling alone.
UsesQueueAsAssumed ==
  [][\E b \in Boots : Q!Ask(b) \/ Q!Report(b) \/ Ceiling(b)]_queueVars

\* Every reload and every retry is over some day, however many start-ups hang in front of it
\* (the queue's ceiling and the requests' timeouts see to it), so a later reload is not swallowed.
RestartsEnd ==
  \A s \in Sessions : (reload[s] # "no" ~> reload[s] = "no") /\ (retry[s] # "no" ~> retry[s] = "no")

\* Whatever reloads, retries and closings do: no pi is left behind but by the one retry, which a
\* session has at most once.
PisAreAccountedFor == TypeOK /\ OrphansOnlyByRetry /\ NoCrashLoop

\* Whatever a pi ends by, its session learns of it: it streams no longer, the queue has its turn
\* back, and the next message starts another.
DeathIsNoticed == DeadMeansDead /\ ExitIsNoticed /\ StreamingEndsWithPi /\ FailureGivesTurnBack
=============================================================================
