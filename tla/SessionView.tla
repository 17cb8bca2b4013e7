------------------------------ MODULE SessionView ------------------------------
(***************************************************************************)
(* src/main/chat-session.ts: what a session believes of its pi (the file    *)
(* it writes, whether a turn runs, which history the window shows) while    *)
(* the window's messages, the hydrations and pi's events interleave.        *)
(*                                                                         *)
(* A message from the window starts an operation, an async function that    *)
(* sends pi one batch of requests after another (Program) and awaits each.  *)
(* pi handles requests in the order they were written and its lines come    *)
(* back in order, but a chunk of stdout may hold several lines: all of them *)
(* are handled before the continuation of any request they answer.  pi is   *)
(* external and stays alive here (ChatSession models its death).            *)
(***************************************************************************)
EXTENDS Naturals, Sequences, FiniteSets, SequencesExt

CONSTANTS
  Files,     \* session files
  First,     \* the one the session starts with
  UserOps,   \* bound: operations started by the window
  MaxTurns,  \* bound: turns
  Kinds,     \* bound: the operations explored
  MaxLines,  \* bound: lines of pi that wait to be read
  None

Ops == 1..(UserOps + MaxTurns)

\* The requests of each operation, batch by batch; those of a batch are sent together.
Hydrate == << <<"state", "more">>, <<"messages">> >>

\* Mutant: the state is not read after a switch.
SwitchReadsNoState == << <<"switch">>, <<"messages">> >>
SwitchTo == << <<"switch">>, <<"state">>, <<"messages">> >>

NewSession == << <<"new">>, Hydrate[1], Hydrate[2] >>

Fork == << <<"entries">>, <<"fork">>, <<"state">>, <<"messages">> >>
Revert == << <<"entries">>, <<"tree">>, <<"leaf">>, <<"state">>, <<"messages">> >>
RenameCurrent == << <<"name">>, <<"state">> >>
Prompt == << <<"prompt">> >>

\* "new" is the button or /new and /clear typed as a prompt, "learn" what agent_settled starts.
Program ==
  [hydrate |-> Hydrate, switch |-> SwitchTo, new |-> NewSession,
   fork |-> Fork, revert |-> Revert, rename |-> RenameCurrent, prompt |-> Prompt,
   learn |-> << <<"state">> >>]

\* Those the code refuses during a turn, and those that can change pi's file or history.  A
\* typed /new is not refused: what the button may do is among what it may do.
Guarded == {"switch", "fork", "revert"}
Movers == {"switch", "fork", "new"}
Hydrates == {"hydrate", "new"}

ASSUME ViewAssumption ==
  /\ Kinds \subseteq DOMAIN Program \ {"learn"}
  /\ First \in Files /\ None \notin Files
  /\ UserOps \in Nat /\ MaxTurns \in Nat /\ MaxLines \in Nat

VARIABLES
  \* the session
  sessionFile, streaming,
  shown,     \* which history the window shows
  started, learns,  \* how many operations were started, by the window and by agent_settled
  op,        \* per operation: its kind ("none" before and after), the batch it awaits (at),
             \* how many answers of it are missing, whether one of them failed, and what
             \* the answers told: pi's file, whether a turn runs, which history it shows
  \* pi and the pipes, external
  wire, pipe,
  file, saved, \* pi's session file, and the files that exist
  page,      \* numbers the histories pi has shown
  turn, turns, \* "idle", "asked" or "busy"; how many turns there were
  \* history
  overtaken, \* a hydration set streaming again after a later event had cleared it
  lost       \* an operation that may move pi timed out

opVars == <<started, learns, op>>
believedVars == <<sessionFile, streaming, shown>>
piVars == <<file, saved, page, turn, turns>>
viewVars == <<opVars, believedVars, piVars, wire, pipe, overtaken, lost>>

Requests == {"state", "more", "messages", "switch", "new", "entries", "leaf", "fork", "tree", "name", "prompt"}

ViewTypeOK ==
  /\ sessionFile \in Files \cup {None} /\ streaming \in BOOLEAN /\ shown \in Nat
  /\ started \in 0..UserOps /\ learns \in 0..MaxTurns
  /\ op \in [Ops -> [kind : DOMAIN Program \cup {"none"}, at : 0..5, missing : 0..2,
                     failed : BOOLEAN, file : Files \cup {None}, busy : BOOLEAN, page : Nat]]
  /\ wire \in Seq([op : Ops, req : Requests])
  /\ file \in Files /\ saved \subseteq Files /\ page \in Nat
  /\ turn \in {"idle", "asked", "busy"} /\ turns \in 0..MaxTurns
  /\ overtaken \in BOOLEAN /\ lost \in BOOLEAN

NoOp == [kind |-> "none", at |-> 0, missing |-> 0, failed |-> FALSE,
         file |-> None, busy |-> FALSE, page |-> 0]

ViewInit ==
  /\ sessionFile = First /\ file = First /\ saved = {First}
  /\ streaming = FALSE /\ turn = "idle" /\ turns = 0
  /\ shown = 0 /\ page = 0
  /\ started = 0 /\ learns = 0
  /\ op = [o \in Ops |-> NoOp]
  /\ wire = <<>> /\ pipe = <<>>
  /\ overtaken = FALSE /\ lost = FALSE

--------------------------------------------------------------------------------
Active(o) == op[o].kind # "none"
Due(o) == Active(o) /\ (op[o].missing = 0 \/ op[o].failed)
Calm == \A o \in Ops : ~Due(o)

Batch(o) == Program[op[o].kind][op[o].at]

\* Operation o asks batch n of its program k.  Of what it was told only a hydration keeps
\* something, whether a turn runs; the rest is already in the session's variables.
Asking(o, k, n) ==
  [NoOp EXCEPT !.kind = k, !.at = n, !.missing = Len(Program[k][n]),
               !.busy = op[o].busy /\ k \in Hydrates]
Asked(o, k, n) == [i \in DOMAIN Program[k][n] |-> [op |-> o, req |-> Program[k][n][i]]]

\* A message of the window: webviewReady (and its repeats), prompt, fork, revert, ...,
\* or switchTo, newSession, renameCurrent.  The guarded ones do nothing during a turn.
Begin(k) ==
  /\ Calm /\ started < UserOps
  /\ k \in Guarded => ~streaming
  /\ started' = started + 1
  /\ op' = [op EXCEPT ![started'] = Asking(started', k, 1)]
  /\ wire' = wire \o Asked(started', k, 1)
  /\ UNCHANGED <<learns, believedVars, piVars, pipe, overtaken, lost>>

Events(n) == {i \in 1..n : pipe[i].type # "answer"}

\* agent_start and agent_settled, in order: the last one stands.
StreamingAfter(n) ==
  IF Events(n) = {} THEN streaming
  ELSE \E i \in Events(n) : pipe[i].type = "agent_start" /\ \A j \in Events(n) : j <= i

Answers(o, n) == {i \in 1..n : pipe[i].type = "answer" /\ pipe[i].op = o}

\* Operation o once its answers among the next n lines have come.
Answered(o, n) ==
  LET told(req) == {pipe[i].now : i \in {j \in Answers(o, n) : pipe[j].req = req}} IN
  [op[o] EXCEPT
     !.missing = @ - Cardinality(Answers(o, n)),
     !.failed = @ \/ \E i \in Answers(o, n) : ~pipe[i].ok,
     !.file = IF told("state") = {} THEN @ ELSE (CHOOSE now \in told("state") : TRUE).file,
     !.busy = IF told("state") = {} THEN @ ELSE (CHOOSE now \in told("state") : TRUE).busy,
     !.page = IF told("messages") = {} THEN @ ELSE (CHOOSE now \in told("messages") : TRUE).page]

\* The next n lines, in one chunk: events take effect at once, answers only settle their
\* requests.  A turn that settles while the session's file is unknown makes it ask for it.
ReadChunk(n) ==
  LET learner == UserOps + learns + 1
      learn == sessionFile = None /\ \E i \in Events(n) : pipe[i].type = "agent_settled" IN
  /\ Calm
  /\ pipe' = SubSeq(pipe, n + 1, Len(pipe))
  /\ streaming' = StreamingAfter(n)
  /\ op' = [o \in Ops |-> CASE learn /\ o = learner -> Asking(o, "learn", 1)
                             [] Active(o) -> Answered(o, n)
                             [] OTHER -> op[o]]
  /\ learns' = IF learn THEN learns + 1 ELSE learns
  /\ wire' = IF learn THEN wire \o Asked(learner, "learn", 1) ELSE wire
  /\ UNCHANGED <<started, sessionFile, shown, piVars, overtaken, lost>>

\* Operation o sends its next batch, or is over.
GoOn(o) ==
  LET k == op[o].kind
      next == op[o].at + 1 IN
  IF op[o].failed \/ next > Len(Program[k])
  THEN op' = [op EXCEPT ![o] = NoOp] /\ UNCHANGED wire
  ELSE /\ op' = [op EXCEPT ![o] = Asking(o, k, next)]
       /\ wire' = wire \o Asked(o, k, next)

\* Mutant: the end of a hydration sets streaming to what it was told, on or off.
ContinueAssigns(o) ==
  LET has(req) == req \in ToSet(Batch(o)) /\ ~op[o].failed
      ends == op[o].kind \in Hydrates /\ has("messages") IN
  /\ Due(o)
  /\ sessionFile' = IF has("state") THEN op[o].file ELSE sessionFile
  /\ shown' = IF has("messages") THEN op[o].page ELSE shown
  /\ streaming' = IF ends THEN op[o].busy ELSE streaming
  /\ overtaken' = (overtaken \/ (streaming' /\ ~streaming))
  /\ GoOn(o)
  /\ UNCHANGED <<started, learns, piVars, pipe, lost>>

\* An operation goes on with its batch's answers.  A failed request ends it (its catch only
\* posts an error).  The state tells the file, the messages replace what the window shows,
\* and a hydration that was told of a turn sets streaming once the messages are there.
Continue(o) ==
  LET has(req) == req \in ToSet(Batch(o)) /\ ~op[o].failed
      resumes == op[o].kind \in Hydrates /\ has("messages") /\ op[o].busy IN
  /\ Due(o)
  /\ sessionFile' = IF has("state") THEN op[o].file ELSE sessionFile
  /\ shown' = IF has("messages") THEN op[o].page ELSE shown
  /\ streaming' = (streaming \/ resumes)
  /\ overtaken' = (overtaken \/ (resumes /\ ~streaming))
  /\ GoOn(o)
  /\ UNCHANGED <<started, learns, piVars, pipe, lost>>

\* A request's timeout: the operation ends, what pi still does for it is not noticed.
\* Prompts (the tree command is sent as one) have none.
TimesOut(o) ==
  /\ Calm /\ Active(o)
  /\ Batch(o) \notin {<<"prompt">>, <<"tree">>}
  /\ op' = [op EXCEPT ![o] = NoOp]
  /\ lost' = (lost \/ op[o].kind \in Movers)
  /\ UNCHANGED <<started, learns, believedVars, piVars, wire, pipe, overtaken>>

--------------------------------------------------------------------------------
\* pi, external

\* What pi says of itself: the state its file and turn, the messages its history.
Now == [file |-> IF file \in saved THEN file ELSE None, busy |-> turn = "busy", page |-> page]
Said(req) == CASE req = "state" -> [Now EXCEPT !.page = 0]
               [] req = "messages" -> [Now EXCEPT !.file = None, !.busy = FALSE]
               [] OTHER -> [file |-> None, busy |-> FALSE, page |-> 0]
Reply(ok) ==
  LET r == Head(wire) IN
  pipe' = Append(pipe, [type |-> "answer", op |-> r.op, req |-> r.req, ok |-> ok,
                        now |-> Said(r.req)])

\* It answers the next request.  It may refuse to move (always during a turn), or find
\* nothing to fork or go back to, which ends the operation as an error does; a switch or a
\* new session may be cancelled, which does not.  The tree command of a revert is not
\* installed (Rewind): pi takes it for a prompt.
PiAnswers ==
  LET req == Head(wire).req IN
  /\ wire # <<>> /\ Len(pipe) < MaxLines
  /\ wire' = Tail(wire)
  /\ \/ /\ req \notin {"fork", "tree", "prompt"}
        /\ Reply(TRUE)
        /\ UNCHANGED piVars
     \/ /\ req \in {"entries", "switch", "new", "fork", "tree"}
        /\ Reply(FALSE)
        /\ UNCHANGED piVars
     \/ /\ req \in {"switch", "new", "fork"} /\ turn = "idle"
        /\ \E f \in CASE req = "switch" -> saved
                      [] OTHER -> Files \ (saved \cup {file}) :
             file' = f /\ saved' = IF req = "fork" THEN saved \cup {f} ELSE saved
        /\ page' = page + 1
        /\ Reply(TRUE)
        /\ UNCHANGED <<turn, turns>>
     \/ /\ req \in {"prompt", "tree"}
        /\ turn' = IF turn = "idle" /\ turns < MaxTurns THEN "asked" ELSE turn
        /\ turns' = IF turn = "idle" /\ turns < MaxTurns THEN turns + 1 ELSE turns
        /\ Reply(TRUE)
        /\ UNCHANGED <<file, saved, page>>
  /\ UNCHANGED <<opVars, believedVars, overtaken, lost>>

\* It starts and ends the turn it was asked for; a session is saved when a turn ends.
PiTurns ==
  /\ Len(pipe) < MaxLines
  /\ \/ turn = "asked" /\ turn' = "busy" /\ UNCHANGED saved
        /\ pipe' = Append(pipe, [type |-> "agent_start"])
     \/ turn = "busy" /\ turn' = "idle" /\ saved' = saved \cup {file}
        /\ pipe' = Append(pipe, [type |-> "agent_settled"])
  /\ UNCHANGED <<opVars, believedVars, file, page, turns, wire, overtaken, lost>>

AtRest == wire = <<>> /\ pipe = <<>> /\ \A o \in Ops : ~Active(o)

\* Everything is answered and the window starts nothing more.
ViewStop == AtRest /\ started = UserOps /\ turn = "idle" /\ UNCHANGED viewVars

ViewNext ==
  \/ \E k \in Kinds : Begin(k)
  \/ \E n \in 1..Len(pipe) : ReadChunk(n)
  \/ \E o \in Ops : Continue(o) \/ TimesOut(o)
  \/ PiAnswers \/ PiTurns \/ ViewStop

ViewSpec == ViewInit /\ [][ViewNext]_viewVars

--------------------------------------------------------------------------------
\* Properties

\* Switches, new sessions, forks, reverts and hydrations that overlap in any way: once all
\* are answered the session names pi's file or none, never another one (its reload would
\* start pi on it, its statistics would go there).  Unless an operation that moves pi timed out.
FileIsPis == AtRest /\ ~lost => sessionFile \in {Now.file, None}

\* And the window shows the history pi is on.
HistoryIsPis == AtRest /\ ~lost => shown = page

\* A turn that runs is never missed, so that no switch takes the window over (the guards of
\* switchTo, newSession, fork and revert), whatever a hydration read before it began.
TurnIsSeen == AtRest /\ turn = "busy" => streaming

\* A session left streaming without a turn was left so by a hydration that had read its
\* state during that turn; no order of events does it.
StuckOnlyByHydrate == AtRest /\ turn = "idle" /\ streaming => overtaken

\* What the session and its window show of pi once all is answered: its file and its history.
ViewIsPis == ViewTypeOK /\ FileIsPis /\ HistoryIsPis

\* Whether the session takes a turn for running, on which its guards depend, is so when a turn
\* runs; and when none does, unless a hydration was overtaken.
StreamingIsPis == TurnIsSeen /\ StuckOnlyByHydrate
================================================================================
