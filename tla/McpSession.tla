------------------------------ MODULE McpSession ------------------------------
(***************************************************************************)
(* studio/pi-mcp/src: the connections of pi to MCP servers.  A session has  *)
(* one connection per server; a server is connected when the session starts *)
(* (a project's own servers after the user was asked), when a tool is       *)
(* called, or by the /mcp command, and closed by the command, when it was   *)
(* idle, and when the session is replaced or ends.                         *)
(*                                                                         *)
(* What the code does between two awaits, and the continuations of a promise *)
(* that is settled there, is one step.  Time is not modelled: what may time  *)
(* out may fail at any moment, and what may be idle may be idle long enough. *)
(***************************************************************************)
EXTENDS Naturals, FiniteSets

CONSTANTS
  Servers,      \* the enabled servers of the configuration
  Project,      \* those of the project's own .pi/mcp.json
  Calls,        \* calls of tools, resources and prompts that can be under way
  MaxSessions,  \* bound: sessions of this pi
  MaxBusy       \* bound: clients that are not closed, when a call or command adds one

ASSUME McpAssumption ==
  /\ IsFiniteSet(Servers) /\ IsFiniteSet(Calls) /\ Project \subseteq Servers
  /\ MaxSessions \in Nat \ {0} /\ MaxBusy \in Nat \ {0}

Sessions == 1..MaxSessions
Conns == Sessions \X Servers
Clients == 1..(MaxBusy + 1)
ConnsOf(s) == {s} \X Servers

VARIABLES
  \* index.ts
  current,    \* currentSession, 0 for none
  made,       \* sessions made so far
  changing,   \* "no", or what awaits the clean-up: "start" or "shutdown"
  question,   \* sessions whose user has not answered yet
  sweeper,    \* session the idle timer sweeps, 0 without a timer
  \* McpSession, per connection
  state, client,
  attempt,    \* connectPromises: the client it will bring, 0 for none
  inFlight, blocked,
  \* per connection and client
  phase,      \* "none", "connecting" (until it is discovered), "open", "dead" or "closing"
  awaited,    \* clients whose close() is awaited: <<connection, client, by whom>>
  \* callTool, readResource, getPrompt
  call,       \* per call: what it waits for
  \* history
  asked,      \* connections used while their session's question was open
  late,       \* connections that had an attempt when, or got one after, their clean-up began
  tardy       \* sessions answered after their clean-up began

indexVars == <<current, made, changing, question, sweeper>>
connVars == <<state, client, attempt, blocked>>
historyVars == <<asked, late, tardy>>
vars == <<indexVars, connVars, inFlight, phase, awaited, call, historyVars>>

NoCall == [st |-> "none"]
CallRecords == {NoCall} \cup [st : {"waiting", "running"}, conn : Conns, client : Clients]

TypeOK ==
  /\ current \in 0..MaxSessions /\ made \in 0..MaxSessions
  /\ changing \in {"no", "start", "shutdown"}
  /\ question \subseteq Sessions /\ sweeper \in 0..MaxSessions
  /\ state \in [Conns -> {"disconnected", "connecting", "connected", "error", "idle"}]
  /\ client \in [Conns -> {0} \cup Clients] /\ attempt \in [Conns -> {0} \cup Clients]
  /\ inFlight \in [Conns -> 0..Cardinality(Calls)] /\ blocked \subseteq Conns
  /\ phase \in [Conns -> [Clients -> {"none", "connecting", "open", "dead", "closing"}]]
  /\ awaited \subseteq Conns \X Clients \X {"change", "reconnect"}
  /\ call \in [Calls -> CallRecords]
  /\ asked \subseteq Conns /\ late \subseteq Conns /\ tardy \subseteq Sessions

Init ==
  /\ current = 0 /\ made = 0 /\ changing = "no"
  /\ question = {} /\ sweeper = 0
  /\ state = [c \in Conns |-> "disconnected"] /\ client = [c \in Conns |-> 0]
  /\ attempt = [c \in Conns |-> 0] /\ inFlight = [c \in Conns |-> 0] /\ blocked = {}
  /\ phase = [c \in Conns |-> [k \in Clients |-> "none"]]
  /\ awaited = {} /\ call = [i \in Calls |-> NoCall]
  /\ asked = {} /\ late = {} /\ tardy = {}

--------------------------------------------------------------------------------
\* ensureConnected, disconnect

Online(c) == state[c] = "connected" /\ client[c] # 0

\* Mutant: concurrent attempts are not joined.
NeedsAnew(c) == ~Online(c)
\* ensureConnected starts an attempt; otherwise it returns at once or joins the one under way.
Needs(c) == ~Online(c) /\ attempt[c] = 0

HasRoom == Cardinality({w \in Conns \X Clients : phase[w[1]][w[2]] # "none"}) < MaxBusy
Fresh(c, ph) == CHOOSE k \in Clients : ph[c][k] = "none" /\ \A j \in 1..(k - 1) : ph[c][j] # "none"

\* connectServer up to its first await, for each connection of C.  st and ph: the states and
\* phases before it.
Connect(C, st, ph) ==
  /\ attempt' = [c \in Conns |-> IF c \in C THEN Fresh(c, ph) ELSE attempt[c]]
  /\ phase' = [c \in Conns |-> IF c \in C THEN [ph[c] EXCEPT ![Fresh(c, ph)] = "connecting"] ELSE ph[c]]
  /\ state' = [c \in Conns |-> IF c \in C THEN "connecting" ELSE st[c]]
  /\ late' = late \cup {c \in C : c[1] <= made /\ (c[1] # current \/ changing # "no")}

\* The phases after the clients of C are told to close.
ClosingOf(C) ==
  [c \in Conns |-> [k \in Clients |-> IF c \in C /\ client[c] = k THEN "closing" ELSE phase[c][k]]]
\* Mutant: the clients are not taken off their connections.
KeepClient(C) == UNCHANGED client
TakeOff(C) == client' = [c \in Conns |-> IF c \in C THEN 0 ELSE client[c]]
Disconnected(C) == [c \in Conns |-> IF c \in C THEN "disconnected" ELSE state[c]]
OpenOf(C) == {c \in C : client[c] # 0}

--------------------------------------------------------------------------------
\* connectServer after its awaits.  k is the client of the attempt.

WaitsFor(i, c, k) == call[i] = [st |-> "waiting", conn |-> c, client |-> k]
RunsOn(i, c, k) == call[i] = [st |-> "running", conn |-> c, client |-> k]

\* Mutant: the error is swallowed, those who wait are not told.
RejectNobody(c, k) == UNCHANGED call
Reject(c, k) == call' = [i \in Calls |-> IF WaitsFor(i, c, k) THEN NoCall ELSE call[i]]

\* connectServer fails: the transport after its client is closed, or the discovery, whose client
\* is closed meanwhile.  Both have timeouts.
AttemptFails(c, k) ==
  /\ phase[c][k] = "connecting"
  /\ \E ph \in {"none", "closing"} : phase' = [phase EXCEPT ![c][k] = ph]
  /\ state' = [state EXCEPT ![c] = "error"] /\ attempt' = [attempt EXCEPT ![c] = 0]
  /\ Reject(c, k)
  /\ UNCHANGED <<indexVars, client, blocked, inFlight, awaited, historyVars>>

\* Mutant: one call is counted for all that waited.
CountOne(c, I) == inFlight' = [inFlight EXCEPT ![c] = @ + (IF I = {} THEN 0 ELSE 1)]
AddInFlight(c, I) == inFlight' = [inFlight EXCEPT ![c] = @ + Cardinality(I)]

\* The server is connected, whatever was asked of the connection meanwhile; the calls that
\* waited are sent.
Connected(c, k) ==
  /\ phase[c][k] = "connecting"
  /\ phase' = [phase EXCEPT ![c][k] = "open"]
  /\ client' = [client EXCEPT ![c] = k] /\ state' = [state EXCEPT ![c] = "connected"]
  /\ attempt' = [attempt EXCEPT ![c] = 0]
  /\ call' = [i \in Calls |-> IF WaitsFor(i, c, k) THEN [call[i] EXCEPT !.st = "running"] ELSE call[i]]
  /\ AddInFlight(c, {i \in Calls : WaitsFor(i, c, k)})
  /\ UNCHANGED <<indexVars, blocked, awaited, historyVars>>

--------------------------------------------------------------------------------
\* callTool, readResource, getPrompt

\* What ensureConnected notes of a use of c, for the properties.
Notes(c) ==
  /\ asked' = IF c[1] \in question THEN asked \cup {c} ELSE asked
  /\ UNCHANGED tardy

CallTool(i, v) ==
  LET c == <<current, v>> IN
  /\ call[i] = NoCall /\ current # 0 /\ c \notin blocked
  /\ \/ /\ Online(c) /\ phase[c][client[c]] = "open"
        /\ call' = [call EXCEPT ![i] = [st |-> "running", conn |-> c, client |-> client[c]]]
        /\ inFlight' = [inFlight EXCEPT ![c] = @ + 1]
        /\ UNCHANGED <<state, attempt, phase, late>>
     \/ /\ ~Online(c) /\ ~Needs(c)
        /\ call' = [call EXCEPT ![i] = [st |-> "waiting", conn |-> c, client |-> attempt[c]]]
        /\ UNCHANGED <<state, attempt, phase, late, inFlight>>
     \/ /\ Needs(c) /\ HasRoom /\ Connect({c}, state, phase)
        /\ call' = [call EXCEPT ![i] = [st |-> "waiting", conn |-> c, client |-> Fresh(c, phase)]]
        /\ UNCHANGED inFlight
  /\ Notes(c)
  /\ UNCHANGED <<indexVars, client, blocked, awaited>>

\* An answer, an error or the timeout.
CallEnds(i) ==
  /\ call[i].st = "running"
  /\ call' = [call EXCEPT ![i] = NoCall]
  /\ inFlight' = [inFlight EXCEPT ![call[i].conn] = @ - 1]
  /\ UNCHANGED <<indexVars, connVars, phase, awaited, historyVars>>

\* The calls that run on client k of c fail.
Cut(c, k) ==
  /\ call' = [i \in Calls |-> IF RunsOn(i, c, k) THEN NoCall ELSE call[i]]
  /\ inFlight' = [inFlight EXCEPT ![c] = @ - Cardinality({i \in Calls : RunsOn(i, c, k)})]

--------------------------------------------------------------------------------
\* The /mcp command: start, stop, reconnect

Start(v) ==
  LET c == <<current, v>> IN
  /\ current # 0 /\ c \notin blocked /\ Needs(c) /\ HasRoom
  /\ Connect({c}, state, phase) /\ Notes(c)
  /\ UNCHANGED <<indexVars, client, blocked, inFlight, awaited, call>>

Stop(v) ==
  LET c == <<current, v>> IN
  /\ current # 0
  /\ phase' = ClosingOf({c}) /\ TakeOff({c}) /\ state' = Disconnected({c})
  /\ UNCHANGED <<indexVars, attempt, blocked, inFlight, awaited, call, historyVars>>

\* It connects again once the old client is closed; without one, at once.
Reconnect(v) ==
  LET c == <<current, v>> IN
  /\ current # 0
  /\ TakeOff({c}) /\ Notes(c)
  /\ IF client[c] # 0
     THEN /\ phase' = ClosingOf({c}) /\ state' = Disconnected({c})
          /\ awaited' = awaited \cup {<<c, client[c], "reconnect">>}
          /\ UNCHANGED <<attempt, late>>
     ELSE /\ \/ HasRoom /\ Connect({c} \ blocked, Disconnected({c}), phase) /\ attempt[c] = 0
             \/ (attempt[c] # 0 \/ c \in blocked) /\ Connect({}, Disconnected({c}), phase)
          /\ UNCHANGED awaited
  /\ UNCHANGED <<indexVars, blocked, inFlight, call>>

--------------------------------------------------------------------------------
\* idle.ts

\* Mutant: the sweep does not ask for calls.
SweepAnyway(c) ==
  /\ c[1] = sweeper /\ Online(c)
  /\ phase' = ClosingOf({c}) /\ TakeOff({c}) /\ state' = [state EXCEPT ![c] = "idle"]
  /\ UNCHANGED <<indexVars, attempt, blocked, inFlight, awaited, call, historyVars>>

\* idleDisconnect leaves others alone.
Idle(c) == Online(c) /\ inFlight[c] = 0

\* The sweep finds an idle connection.
Sweep(c) ==
  /\ c[1] = sweeper /\ Idle(c)
  /\ phase' = ClosingOf({c}) /\ TakeOff({c}) /\ state' = [state EXCEPT ![c] = "idle"]
  /\ UNCHANGED <<indexVars, attempt, blocked, inFlight, awaited, call, historyVars>>

--------------------------------------------------------------------------------
\* index.ts: session_start, session_shutdown, trustThenInit

\* cleanupSession: disconnectAll of the current session.
Cleanup ==
  LET C == ConnsOf(current) IN
  /\ phase' = ClosingOf(C) /\ TakeOff(C) /\ state' = Disconnected(C)
  /\ awaited' = awaited \cup {<<c, client[c], "change">> : c \in OpenOf(C)}

\* session_start or session_shutdown up to its await.
ChangeBegins(what) ==
  /\ changing = "no"
  /\ IF what = "start" THEN made < MaxSessions ELSE current # 0
  /\ changing' = what
  /\ sweeper' = IF what = "shutdown" THEN 0 ELSE sweeper
  /\ late' = late \cup {c \in ConnsOf(current) : c \in Conns /\ attempt[c] # 0}
  /\ IF current = 0 THEN UNCHANGED <<phase, client, state, awaited>> ELSE Cleanup
  /\ UNCHANGED <<current, made, question, attempt, blocked, inFlight, call,
                 asked, tardy>>

\* trustThenInit of a new session up to its await.  known: the trust file has the project's
\* .pi/mcp.json as it is now.
TrustThenInit(s, known) ==
  IF Project = {} \/ known
  THEN /\ Connect({c \in ConnsOf(s) : Needs(c)}, state, phase) /\ sweeper' = s
       /\ UNCHANGED question
  ELSE /\ question' = question \cup {s}
       /\ UNCHANGED <<state, attempt, phase, late, sweeper>>

NoChange == \A w \in awaited : w[3] # "change"

SessionStarts ==
  /\ changing = "start" /\ NoChange
  /\ changing' = "no" /\ made' = made + 1 /\ current' = made + 1
  /\ \E known \in BOOLEAN : TrustThenInit(made + 1, known)
  /\ UNCHANGED <<client, blocked, inFlight, awaited, call, asked, tardy>>

SessionShutDown ==
  /\ changing = "shutdown" /\ NoChange
  /\ changing' = "no" /\ current' = 0
  /\ UNCHANGED <<made, question, sweeper, connVars, inFlight, phase, awaited, call,
                 historyVars>>

\* block, for the servers the user was asked about.
Block(s) == blocked \cup ({s} \X Project)

\* The user's answer, or none in time: a project's servers are blocked or not, the rest is
\* connected, and the idle timer sweeps this session from now on.
Answer(s, yes) ==
  /\ s \in question /\ question' = question \ {s}
  /\ blocked' = IF yes THEN blocked ELSE Block(s)
  /\ Connect({c \in ConnsOf(s) : c \notin blocked' /\ Needs(c)},
             [c \in Conns |-> IF c \in blocked' \ blocked THEN "error" ELSE state[c]], phase)
  /\ sweeper' = s
  /\ tardy' = IF s # current \/ changing # "no" THEN tardy \cup {s} ELSE tardy
  /\ UNCHANGED <<current, made, changing, client, inFlight, awaited, call, asked>>

--------------------------------------------------------------------------------
\* The servers and the SDK, external

\* A client is closed: its calls fail, and who awaited it goes on.
Closed(c, k) ==
  LET again == <<c, k, "reconnect">> \in awaited /\ c \notin blocked /\ Needs(c)
      ph == [phase EXCEPT ![c][k] = "none"]
  IN
  /\ phase[c][k] = "closing"
  /\ Cut(c, k)
  /\ awaited' = {w \in awaited : <<w[1], w[2]>> # <<c, k>>}
  /\ IF again THEN Connect({c}, state, ph) ELSE phase' = ph /\ UNCHANGED <<state, attempt, late>>
  /\ UNCHANGED <<indexVars, client, blocked, asked, tardy>>

\* A server dies.  Nobody listens: the connection stays as it is.
ServerDies(c, k) ==
  /\ phase[c][k] = "open"
  /\ phase' = [phase EXCEPT ![c][k] = "dead"]
  /\ Cut(c, k)
  /\ UNCHANGED <<indexVars, connVars, awaited, historyVars>>

--------------------------------------------------------------------------------

Settles(c, k) == AttemptFails(c, k) \/ Closed(c, k)
ChangeEnds == SessionStarts \/ SessionShutDown

Next ==
  \/ \E c \in Conns, k \in Clients :
       Settles(c, k) \/ Connected(c, k) \/ ServerDies(c, k)
  \/ \E i \in Calls, v \in Servers : CallTool(i, v)
  \/ \E i \in Calls : CallEnds(i)
  \/ \E v \in Servers : Start(v) \/ Stop(v) \/ Reconnect(v)
  \/ \E c \in Conns : Sweep(c)
  \/ \E what \in {"start", "shutdown"} : ChangeBegins(what)
  \/ ChangeEnds
  \/ \E s \in Sessions, yes \in BOOLEAN : Answer(s, yes)

\* A connect, a request and a call have timeouts, a close is forced by the transport, and
\* promises go on.
Fairness == /\ \A c \in Conns, k \in Clients : WF_vars(Settles(c, k))
            /\ \A i \in Calls : WF_vars(CallEnds(i))
            /\ WF_vars(ChangeEnds)

Spec == Init /\ [][Next]_vars /\ Fairness

--------------------------------------------------------------------------------
\* Properties

\* No client is forgotten: whoever is connected is the client of its connection, which alone
\* could close it; a call is only on a client that is, or whose closing will end the call.
NoClientForgotten ==
  \A c \in Conns, k \in Clients :
    /\ phase[c][k] \in {"open", "dead"} <=> client[c] = k
    /\ phase[c][k] = "connecting" <=> attempt[c] = k
    /\ \A i \in Calls : RunsOn(i, c, k) => phase[c][k] \in {"open", "closing"}

\* The idle sweep never closes a client under a call.
SweepSparesCalls ==
  [][\A c \in Conns : state[c] = "connected" /\ state'[c] = "idle" =>
       \A i \in Calls : call[i] # NoCall => ~(call[i].st = "running" /\ call[i].conn = c)]_vars

\* A project's own servers wait for the user's answer, unless a call or command has used them
\* before; a no is final for those that were not.
ProjectServersAwaitTheAnswer ==
  \A c \in (question \X Project) \cup blocked, k \in Clients :
    c \notin asked => phase[c][k] = "none"

\* A session that was replaced keeps a server only by an attempt to connect that was under way
\* or began after its clean-up.
OldClientsOnlyByLateConnect ==
  \A c \in Conns \ late, k \in Clients :
    c[1] # current => phase[c][k] \in {"none", "closing"}

\* The idle timer sweeps the current session, once its question is answered, unless an older
\* session's question was answered later.
SweepsTheCurrent ==
  changing # "shutdown" /\ current \notin question =>
    sweeper = current \/ sweeper \in tardy

\* Every call ends, whatever the server does and whatever becomes of the session.
EveryCallEnds == \A i \in Calls : call[i] # NoCall ~> call[i] = NoCall

\* Which servers are connected, and for whom, is known at all times.
ClientsAreKnown ==
  TypeOK /\ NoClientForgotten /\ ProjectServersAwaitTheAnswer /\ OldClientsOnlyByLateConnect

\* The idle sweep serves the session there is, and takes no client from under a call.
SweepIsSafe == []SweepsTheCurrent /\ SweepSparesCalls
================================================================================
