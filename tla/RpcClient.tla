------------------------------- MODULE RpcClient -------------------------------
(***************************************************************************)
(* src/main/rpc-client.ts: the client of one `pi --mode rpc` process.       *)
(* A request is kept in the map `pending` until its answer, its timeout, or *)
(* the end of the connection settles its promise (req).  pi itself, and the *)
(* pipe its lines come through, are external: pi answers in any order, late *)
(* or never, and can die at any moment with lines still in the pipe; the    *)
(* exit event comes some time after, before or after those lines.           *)
(***************************************************************************)
EXTENDS Naturals, Sequences, FiniteSets

CONSTANTS
  Requests,   \* calls of request(), each with an id of its own
  Prompts,    \* those of type "prompt", which have no timeout
  MaxLines    \* bound: lines in the pipe at once

ASSUME RequestsAssumption == Prompts \subseteq Requests /\ MaxLines \in Nat

VARIABLES
  req,        \* per request: its promise, "new", "pending", "ok" or "failed"
  pending,    \* the ids in the map
  timers,     \* the requests whose timeout is running
  disposed,   \* dispose() was called
  stdin,      \* pi's stdin is not destroyed
  reading,    \* stdout is still being read (no oversize line so far)
  errReading, \* stderr is still being read
  exited,     \* the process's exit (or spawn error) event was handled
  ready,      \* reportedReady: the first line was seen
  pi,         \* external: "up", "killed" (told to die) or "dead"
  inbox,      \* external: the requests pi received and has not answered
  out         \* external: the lines in the stdout pipe

clientVars == <<req, pending, timers, disposed, stdin, reading, errReading, exited, ready>>
rpcVars == <<req, pending, timers, disposed, stdin, reading, errReading, exited, ready, pi, inbox, out>>

Event == [type |-> "event"]
Oversize == [type |-> "oversize"]
Response(r, success) == [type |-> "response", id |-> r, success |-> success]
Lines == {Event, Oversize} \cup {Response(r, b) : r \in Requests, b \in BOOLEAN}

ClientTypeOK ==
  /\ req \in [Requests -> {"new", "pending", "ok", "failed"}]
  /\ pending \subseteq Requests /\ timers \subseteq Requests
  /\ disposed \in BOOLEAN /\ stdin \in BOOLEAN /\ exited \in BOOLEAN
  /\ reading \in BOOLEAN /\ errReading \in BOOLEAN /\ ready \in BOOLEAN
  /\ pi \in {"up", "killed", "dead"}
  /\ inbox \subseteq Requests
  /\ out \in Seq(Lines)

ClientInit ==
  /\ req = [r \in Requests |-> "new"]
  /\ pending = {} /\ timers = {}
  /\ disposed = FALSE /\ stdin = TRUE /\ reading = TRUE /\ errReading = TRUE
  /\ exited = FALSE /\ ready = FALSE
  /\ pi = "up" /\ inbox = {} /\ out = <<>>

--------------------------------------------------------------------------------

\* Every request in the map fails, and the map and its timers are cleared.
FailAll ==
  /\ req' = [r \in Requests |-> IF r \in pending THEN "failed" ELSE req[r]]
  /\ pending' = {}
  /\ timers' = timers \ pending

\* Mutant: send does not look at the pipe.
RequestUnchecked(r) ==
  /\ req[r] = "new"
  /\ req' = [req EXCEPT ![r] = "pending"]
  /\ pending' = pending \cup {r}
  /\ timers' = timers \cup ({r} \ Prompts)
  /\ inbox' = IF pi # "dead" THEN inbox \cup {r} ELSE inbox
  /\ UNCHANGED <<disposed, stdin, reading, errReading, exited, ready, pi, out>>

\* request(): refused when the client is disposed or pi's stdin is gone; else it is put in
\* the map, with a timer unless it is a prompt, and written.  A pi that has just died, its
\* exit not yet handled, never reads it (the EPIPE is swallowed).
Request(r) ==
  /\ req[r] = "new"
  /\ IF disposed \/ ~stdin
     THEN /\ req' = [req EXCEPT ![r] = "failed"]
          /\ UNCHANGED <<pending, timers, inbox>>
     ELSE /\ req' = [req EXCEPT ![r] = "pending"]
          /\ pending' = pending \cup {r}
          /\ timers' = timers \cup ({r} \ Prompts)
          /\ inbox' = IF pi # "dead" THEN inbox \cup {r} ELSE inbox
  /\ UNCHANGED <<disposed, stdin, reading, errReading, exited, ready, pi, out>>

\* Mutant: the request stays in the map when its time is up.
TimeoutKeepsEntry(r) ==
  /\ r \in timers
  /\ req' = [req EXCEPT ![r] = "failed"]
  /\ timers' = timers \ {r}
  /\ UNCHANGED <<pending, disposed, stdin, reading, errReading, exited, ready, pi, inbox, out>>

\* No answer in time: the request fails and leaves the map; pi may still answer.
Timeout(r) ==
  /\ r \in timers
  /\ req' = [req EXCEPT ![r] = "failed"]
  /\ pending' = pending \ {r}
  /\ timers' = timers \ {r}
  /\ UNCHANGED <<disposed, stdin, reading, errReading, exited, ready, pi, inbox, out>>

\* An answer settles the request it names, if the map still has it.
Answered(line) ==
  IF line.id \in pending
  THEN /\ req' = [req EXCEPT ![line.id] = IF line.success THEN "ok" ELSE "failed"]
       /\ pending' = pending \ {line.id}
       /\ timers' = timers \ {line.id}
  ELSE UNCHANGED <<req, pending, timers>>

\* Mutant: only an event counts as a sign of life.
ReadLineReadyOnEvent ==
  /\ reading /\ out # <<>>
  /\ out' = Tail(out)
  /\ LET line == Head(out) IN
       CASE line.type = "oversize" -> reading' = FALSE /\ FailAll /\ UNCHANGED ready
         [] line.type = "response" -> Answered(line) /\ UNCHANGED <<reading, ready>>
         [] line.type = "event" -> ready' = TRUE /\ UNCHANGED <<req, pending, timers, reading>>
  /\ UNCHANGED <<disposed, stdin, errReading, exited, pi, inbox>>

\* The next line of stdout.  The first one reports pi ready; an answer settles its request;
\* a line over the limit fails every request and ends the reading.
ReadLine ==
  /\ reading /\ out # <<>>
  /\ out' = Tail(out)
  /\ LET line == Head(out) IN
       \/ /\ line.type = "oversize"
          /\ reading' = FALSE
          /\ FailAll
          /\ UNCHANGED ready
       \/ /\ line.type = "response"
          /\ ready' = TRUE
          /\ Answered(line)
          /\ UNCHANGED reading
       \/ /\ line.type = "event"
          /\ ready' = TRUE
          /\ UNCHANGED <<req, pending, timers, reading>>
  /\ UNCHANGED <<disposed, stdin, errReading, exited, pi, inbox>>

\* A line of stderr over the limit: the same reader, so every request fails too, although
\* stdout is read on and pi will answer them.
StderrOversize ==
  /\ errReading /\ pi # "dead"
  /\ errReading' = FALSE
  /\ FailAll
  /\ UNCHANGED <<disposed, stdin, reading, exited, ready, pi, inbox, out>>

\* Mutant: the exit is reported and the requests in flight are left to time out.
ExitForgetsRequests ==
  /\ pi = "dead" /\ ~exited
  /\ exited' = TRUE /\ stdin' = FALSE
  /\ UNCHANGED <<req, pending, timers, disposed, reading, errReading, ready, pi, inbox, out>>

\* The exit event, or the error event of a process that could not be spawned: stdin is
\* destroyed, the session is told, and what was in flight fails.
ExitEvent ==
  /\ pi = "dead" /\ ~exited
  /\ exited' = TRUE
  /\ stdin' = FALSE
  /\ FailAll
  /\ UNCHANGED <<disposed, reading, errReading, ready, pi, inbox, out>>

\* dispose(): once; fails what was in flight and kills the process tree if it is alive.
Dispose ==
  /\ ~disposed
  /\ disposed' = TRUE
  /\ FailAll
  /\ pi' = IF pi = "up" THEN "killed" ELSE pi
  /\ UNCHANGED <<stdin, reading, errReading, exited, ready, inbox, out>>

--------------------------------------------------------------------------------
\* pi, as the client sees it.

PiAnswers(r) ==
  /\ pi # "dead" /\ r \in inbox /\ Len(out) < MaxLines
  /\ inbox' = inbox \ {r}
  /\ \E success \in BOOLEAN : out' = Append(out, Response(r, success))
  /\ UNCHANGED clientVars /\ UNCHANGED pi

PiPrints(line) ==
  /\ pi # "dead" /\ Len(out) < MaxLines
  /\ out' = Append(out, line)
  /\ UNCHANGED clientVars /\ UNCHANGED <<pi, inbox>>

PiDies ==
  /\ pi # "dead"
  /\ pi' = "dead"
  /\ UNCHANGED clientVars /\ UNCHANGED <<inbox, out>>

ClientNext ==
  \/ \E r \in Requests : Request(r) \/ Timeout(r) \/ PiAnswers(r)
  \/ ReadLine
  \/ StderrOversize
  \/ ExitEvent
  \/ Dispose
  \/ \E line \in {Event, Oversize} : PiPrints(line)
  \/ PiDies

\* Timers fire, lines in the pipe and the exit event arrive, and a killed pi dies.  pi need
\* not answer, and need not die by itself.
ClientFairness ==
  /\ \A r \in Requests : WF_rpcVars(Timeout(r))
  /\ WF_rpcVars(ReadLine) /\ WF_rpcVars(ExitEvent)
  /\ WF_rpcVars(pi = "killed" /\ PiDies)

ClientSpec == ClientInit /\ [][ClientNext]_rpcVars /\ ClientFairness

--------------------------------------------------------------------------------
\* Properties.

\* The map holds exactly the requests whose promise is open: none is lost from the map
\* unsettled, and none stays behind to be settled twice by a late answer.
MapIsOpenRequests == pending = {r \in Requests : req[r] = "pending"}

\* A timer runs for exactly the open requests that are not prompts: none outlives its
\* request, whichever of answer, exit, oversize line and dispose settled it.
TimersFollowRequests == timers = pending \ Prompts

\* What the client keeps of its requests is so: none is forgotten, and none lingers.
PendingIsTrue == ClientTypeOK /\ MapIsOpenRequests /\ TimersFollowRequests

\* Once the exit was handled or the client was disposed, nothing waits: neither what was in
\* flight then, nor anything asked later, nor what was written to a pi already dead.
NothingWaitsOnAGonePi == exited \/ disposed => pending = {}

\* A start-up that has answered anything has given its turn back to the spawn queue: the
\* ready report precedes the first settled answer (lines 473-478).
ReadyBeforeAnswers == (\E r \in Requests : req[r] = "ok") => ready

\* Every request but a prompt is settled, whatever pi does.
TimedRequestsSettle ==
  \A r \in Requests \ Prompts : req[r] = "pending" ~> req[r] \in {"ok", "failed"}

\* A prompt has no timeout: it is settled at the latest when pi is dead, even if it was
\* written after the death.
PromptsSettleByDeath ==
  \A r \in Prompts : (req[r] = "pending" /\ pi = "dead") ~> req[r] \in {"ok", "failed"}

\* Every request is settled some day, a prompt at the latest by pi's end.
RequestsSettle == TimedRequestsSettle /\ PromptsSettleByDeath
=============================================================================
