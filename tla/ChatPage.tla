------------------------------- MODULE ChatPage -------------------------------
(***************************************************************************)
(* studio/pi-chat/src (messages.ts, composer.ts, globals.ts): the page of a *)
(* chat window.  Its rows come from three writers: the composer, which      *)
(* shows a prompt before pi has it; pi's events; and a hydration, which     *)
(* throws the rows away and writes a list of messages in chunks, one per    *)
(* animation frame, while events and prompts go on.                         *)
(*                                                                         *)
(* pi and chat-session.ts are external here (SessionView, ChatSession):     *)
(* what pi prints reaches the page in order, a list of messages may be      *)
(* posted after later events, and prompts are on their way for a while.     *)
(* A prompt and the reply to it have the same number, which is also the     *)
(* timestamp of both.  A reply is a text or one tool call.                  *)
(***************************************************************************)
EXTENDS Integers, Sequences, FiniteSets, Functions

Seqs == INSTANCE SequencesExt

CONSTANTS
  Stored,        \* the conversation pi starts with
  Chunk,         \* CHUNK: messages hydrated per frame
  Kinds,         \* bound: what is typed: "prompt", "local" (a command the page knows to be one)
                 \* or "command" (one it does not know yet)
  MaxTyped,      \* bound: things typed
  MaxHydrations, \* bound: hydrations by webviewReady, its repeats and reloads
  MaxMoves,      \* bound: new sessions and forks
  MaxErrors,     \* bound: errors that have nothing to do with the turn, and requests that fail
  Unset

Gone == -1       \* a bubble that is no longer on the page

Typed == 1..MaxTyped
PromptIds == {n \in Int : n <= MaxTyped}
Blocks == {"none", "text", "tool"}
Items == [who : {"user", "assistant", "result"}, id : PromptIds, block : Blocks, stopped : BOOLEAN]

\* A prompt, the reply to it and the result of the reply's call, in this order, once each.
Place == [user |-> 1, assistant |-> 2, result |-> 3]
Before(m, n) == m.id < n.id \/ (m.id = n.id /\ Place[m.who] < Place[n.who])

\* The prompts of the stored conversation were numbered before those that are typed now.
ASSUME PageAssumption ==
  /\ Chunk \in Nat \ {0} /\ Kinds \subseteq {"prompt", "local", "command"}
  /\ {MaxTyped, MaxHydrations, MaxMoves, MaxErrors} \subseteq Nat /\ Unset \notin Int
  /\ Stored \in Seq(Items)
  /\ \A i \in DOMAIN Stored :
       /\ Stored[i].id <= 0
       /\ \A j \in 1..(i - 1) : Before(Stored[j], Stored[i])

VARIABLES
  \* the page
  rows,        \* messagesInner
  current,     \* currentAssistant: a row, or 0
  waiting,     \* lastUserBubble while it has no timestamp: a row, Gone, or 0
  streaming,   \* state.isStreaming
  loading,     \* the status line says "Loading history..."
  frames,      \* requested animation frames: the hydration and what is left of its list
  hydrationId,
  \* on the way
  sent,        \* prompts to pi
  asked,       \* hydrations and moves that await the messages
  held,        \* lists of messages pi has answered with, not yet posted
  \* pi, external
  phase, turn, \* what pi does, and the prompt it works on
  block,       \* what the reply is so far
  queue,       \* steering messages
  history,
  past,        \* prompts of the conversations pi has left
  \* bounds
  typed, hydrations, moves, errors,
  \* history
  upset        \* why rows and history may differ, since the last list that was posted quietly

pageVars == <<rows, current, waiting, streaming, loading, frames, hydrationId>>
turnVars == <<phase, turn, block, queue, history, past>>
wayVars == <<sent, asked, held>>
bounds == <<typed, hydrations, moves, errors>>
chatVars == <<pageVars, turnVars, wayVars, bounds, upset>>

UserRow(p, ts) == [who |-> "user", id |-> p, ts |-> ts, block |-> "none", call |-> Unset, state |-> "still"]
ReplyRow(a, ts) == [UserRow(a, ts) EXCEPT !.who = "assistant"]

PageInit ==
  /\ rows = <<>> /\ current = 0 /\ waiting = 0 /\ streaming = FALSE /\ loading = FALSE
  /\ frames = <<>> /\ hydrationId = 0
  /\ sent = <<>> /\ asked = <<>> /\ held = <<>>
  /\ phase = "idle" /\ turn = 0 /\ block = "none" /\ queue = <<>> /\ history = Stored /\ past = {}
  /\ typed = 0 /\ hydrations = 0 /\ moves = 0 /\ errors = 0
  /\ upset = IF Stored = <<>> THEN {} ELSE {"overlap"}

--------------------------------------------------------------------------------
\* messages.ts.  pg is what it works on: the rows, currentAssistant and lastUserBubble.

Page == [rows |-> rows, current |-> current, waiting |-> waiting]

AddUserMessage(pg, p, ts) ==
  [pg EXCEPT !.rows = Append(@, UserRow(p, ts)),
             !.waiting = IF ts = Unset THEN Len(pg.rows) + 1 ELSE 0]

StartAssistantMessage(pg, a, ts) ==
  [pg EXCEPT !.rows = Append(@, ReplyRow(a, ts)), !.current = Len(pg.rows) + 1]

\* Part of the reply a: of the row it is filled to, or of a new one.
EnsureBlock(pg, a, b) ==
  LET at == IF pg.current = 0 THEN StartAssistantMessage(pg, a, Unset) ELSE pg IN
  [at EXCEPT !.rows[at.current].block = b]

\* The block of a tool call: the first on the page that has its id.
FindToolBlock(pg, a) ==
  LET I == {i \in DOMAIN pg.rows : pg.rows[i].call = a} IN
  IF I = {} THEN 0 ELSE CHOOSE i \in I : \A j \in I : i <= j

FinalizeToolCall(pg, a) ==
  LET at == EnsureBlock(pg, a, "tool") IN [at EXCEPT !.rows[at.current].call = a]

\* A reply that was stopped shows so in its tool block.
ApplyStopError(pg, stopped) ==
  IF stopped /\ pg.current # 0 /\ pg.rows[pg.current].block = "tool"
  THEN [pg EXCEPT !.rows[pg.current].state = "done"] ELSE pg

EndAssistantMessage(pg) == [pg EXCEPT !.current = 0]

StartToolExecution(pg, a) ==
  LET at == IF FindToolBlock(pg, a) # 0 THEN pg
            ELSE FinalizeToolCall(StartAssistantMessage(pg, a, Unset), a)
  IN [at EXCEPT !.rows[FindToolBlock(at, a)].state = "running"]

EndToolExecution(pg, a) ==
  IF FindToolBlock(pg, a) = 0 THEN pg ELSE [pg EXCEPT !.rows[FindToolBlock(pg, a)].state = "done"]

HydrateOne(pg, m) ==
  CASE m.who = "user" -> AddUserMessage(pg, m.id, m.id)
    [] m.who = "assistant" ->
         LET begun == StartAssistantMessage(pg, m.id, m.id)
             filled == CASE m.block = "none" -> begun
                          [] m.block = "text" -> EnsureBlock(begun, m.id, "text")
                          [] m.block = "tool" -> FinalizeToolCall(begun, m.id)
         IN EndAssistantMessage(ApplyStopError(filled, m.stopped))
    [] m.who = "result" -> EndToolExecution(pg, m.id)

Hydrate(pg, list) ==
  LET after[n \in 0..Len(list)] == IF n = 0 THEN pg ELSE HydrateOne(after[n - 1], list[n])
  IN after[Len(list)]

\* Mutant: the last bubble takes the timestamp even if it has one.
UserStartsOver(pg, p) ==
  LET U == {i \in DOMAIN pg.rows : pg.rows[i].who = "user"} IN
  IF U = {} THEN AddUserMessage(pg, p, p)
  ELSE [pg EXCEPT !.rows[CHOOSE i \in U : \A j \in U : j <= i].ts = p, !.waiting = 0]
\* message_start of a user message: the bubble the composer added, if it has no timestamp
\* yet, or a new one.
UserStarts(pg, p) ==
  CASE pg.waiting = 0 -> AddUserMessage(pg, p, p)
    [] pg.waiting = Gone -> [pg EXCEPT !.waiting = 0]
    [] OTHER -> [pg EXCEPT !.rows[pg.waiting].ts = p, !.waiting = 0]

SetPage(pg) == rows' = pg.rows /\ current' = pg.current /\ waiting' = pg.waiting

\* What is filled while a hydration is under way lands among its messages.
Overlap == IF held # <<>> \/ frames # <<>> THEN {"overlap"} ELSE {}

--------------------------------------------------------------------------------
\* composer.ts: sendPrompt

\* A steering prompt that comes after its turn begins one, while the page shows none.
Crossing == ~streaming /\ \E i \in DOMAIN sent : sent[i].kind = "prompt"

\* During a turn a prompt steers it and gets no bubble, and local commands are refused.
Type(kind) ==
  /\ typed < MaxTyped /\ typed' = typed + 1
  /\ streaming => kind # "local"
  /\ sent' = Append(sent, [id |-> typed', kind |-> kind, steers |-> streaming])
  /\ IF streaming THEN UNCHANGED <<rows, current, waiting, streaming>>
     ELSE SetPage(AddUserMessage(Page, typed', Unset)) /\ streaming' = (kind # "local")
  /\ upset' = upset \cup Overlap \cup (IF kind = "command" THEN {"command"} ELSE {})
                            \cup (IF Crossing THEN {"crossed"} ELSE {})
  /\ UNCHANGED <<loading, frames, hydrationId, asked, held, turnVars, hydrations, moves, errors>>

--------------------------------------------------------------------------------
\* Hydrations: what chat-session.ts posts, and hydrateMessages

\* hydrate() has been told whether a turn runs, and asks for the messages.
Hydration ==
  /\ hydrations < MaxHydrations /\ hydrations' = hydrations + 1
  /\ asked' = Append(asked, [busy |-> phase # "idle", moved |-> FALSE])
  /\ UNCHANGED <<pageVars, turnVars, sent, held, typed, moves, errors, upset>>

MessagesAnswered ==
  /\ asked # <<>> /\ asked' = Tail(asked)
  /\ held' = Append(held, [busy |-> Head(asked).busy, list |-> history])
  /\ UNCHANGED <<pageVars, turnVars, sent, bounds, upset>>

\* Why the page may differ after the list was posted.  When nothing else is going on the
\* rows will be the history (a turn that is told of late, by a list that has no prompt because pi
\* moved since, is something else); and once no list of before the move is left, the page is told.
Quiet == /\ phase = "idle" /\ sent = <<>> /\ Len(held) = 1 /\ Head(held).list = history
         /\ ~streaming
         /\ Head(held).busy => \E m \in Range(history) : m.who = "user"

FromThePast == \E h \in Range(held) : \E m \in Range(h.list) : m.id \in past

Causes ==
  (IF Quiet THEN {} ELSE (IF FromThePast THEN upset ELSE upset \ {"untold"}) \cup {"overlap"})
    \cup (IF Head(held).busy /\ phase = "idle" THEN {"late"} ELSE {})
    \cup (IF Head(held).list = <<>> /\ loading THEN {"empty"} ELSE {})

\* Mutant: the lists of earlier hydrations go on.
PostedKeepsId ==
  /\ held # <<>> /\ held' = Tail(held)
  /\ rows' = <<>> /\ current' = 0
  /\ waiting' = IF waiting > 0 THEN Gone ELSE waiting
  /\ frames' = IF Head(held).list = <<>> THEN frames
               ELSE Append(frames, [id |-> hydrationId, rest |-> Head(held).list])
  /\ loading' = (loading \/ Head(held).list # <<>>)
  /\ streaming' = (streaming \/ Head(held).busy)
  /\ upset' = Causes
  /\ UNCHANGED <<hydrationId, sent, asked, turnVars, bounds>>

\* Mutant: a list that comes outside of a turn ends the one that has begun since.
PostedEndsTurn ==
  /\ held # <<>> /\ held' = Tail(held)
  /\ hydrationId' = hydrationId + 1
  /\ rows' = <<>> /\ current' = 0
  /\ waiting' = IF waiting > 0 THEN Gone ELSE waiting
  /\ frames' = IF Head(held).list = <<>> THEN frames
               ELSE Append(frames, [id |-> hydrationId', rest |-> Head(held).list])
  /\ loading' = (loading \/ Head(held).list # <<>>)
  /\ streaming' = Head(held).busy
  /\ upset' = Causes
  /\ UNCHANGED <<sent, asked, turnVars, bounds>>
\* hydrateMessages, and the agent_start hydrate() posts after it.
Posted ==
  /\ held # <<>> /\ held' = Tail(held)
  /\ hydrationId' = hydrationId + 1
  /\ rows' = <<>> /\ current' = 0
  /\ waiting' = IF waiting > 0 THEN Gone ELSE waiting
  /\ frames' = IF Head(held).list = <<>> THEN frames
               ELSE Append(frames, [id |-> hydrationId', rest |-> Head(held).list])
  /\ loading' = (loading \/ Head(held).list # <<>>)
  /\ streaming' = (streaming \/ Head(held).busy)
  /\ upset' = Causes
  /\ UNCHANGED <<sent, asked, turnVars, bounds>>

\* The frame of the oldest request: the next messages, or nothing when a later hydration began.
Frame ==
  LET f == Head(frames)
      n == IF Len(f.rest) < Chunk THEN Len(f.rest) ELSE Chunk
      left == SubSeq(f.rest, n + 1, Len(f.rest)) IN
  /\ frames # <<>>
  /\ IF f.id # hydrationId
     THEN frames' = Tail(frames) /\ UNCHANGED <<rows, current, waiting, loading>>
     ELSE /\ SetPage(Hydrate(Page, SubSeq(f.rest, 1, n)))
          /\ frames' = IF left = <<>> THEN Tail(frames) ELSE Append(Tail(frames), [f EXCEPT !.rest = left])
          /\ loading' = (loading /\ left # <<>>)
  /\ UNCHANGED <<streaming, hydrationId, wayVars, turnVars, bounds, upset>>

\* The error message: whatever it is about, the page takes the turn for ended.
ErrorCause == IF phase = "idle" /\ sent = <<>> THEN {} ELSE {"error"}

Error ==
  /\ streaming' = FALSE
  /\ upset' = upset \cup ErrorCause
  /\ UNCHANGED <<rows, current, waiting, loading, frames, hydrationId>>

OtherError ==
  /\ errors < MaxErrors /\ errors' = errors + 1
  /\ Error
  /\ UNCHANGED <<wayVars, turnVars, typed, hydrations, moves>>

\* A request of hydrate() or of a move fails, get_state or get_messages: no list is posted, only
\* the error, and not that one while a failed start-up is retried.  The page that was to be told
\* of a move keeps its rows.
MessagesFail(i) ==
  /\ errors < MaxErrors /\ errors' = errors + 1
  /\ i \in DOMAIN asked
  /\ asked' = Seqs!RemoveAt(asked, i)
  /\ \E told \in BOOLEAN :
       /\ streaming' = (streaming /\ ~told)
       /\ upset' = upset \cup (IF told THEN ErrorCause ELSE {})
                         \cup (IF asked[i].moved THEN {"untold"} ELSE {})
  /\ UNCHANGED <<rows, current, waiting, loading, frames, hydrationId, sent, held, turnVars,
                 typed, hydrations, moves>>

--------------------------------------------------------------------------------
\* pi, external, and handleEvent

Item(who, id) == [who |-> who, id |-> id, block |-> "none", stopped |-> FALSE]
Reply(stopped) == [Item("assistant", turn) EXCEPT !.block = block, !.stopped = stopped]

\* pi prints an event that changes the rows to pg.
Prints(pg) ==
  /\ SetPage(pg)
  /\ upset' = upset \cup Overlap
  /\ UNCHANGED <<loading, frames, hydrationId, wayVars, bounds, past>>

\* The prompt p becomes a message.
BeginsMessage(p) ==
  /\ turn' = p /\ phase' = "asked" /\ block' = "none"
  /\ history' = Append(history, Item("user", p))
  /\ SetPage(UserStarts(Page, p))
  /\ upset' = upset \cup Overlap
  /\ UNCHANGED <<loading, frames, hydrationId, past, asked, held, bounds>>

\* pi gets the next prompt.  One that steers waits for the reply to end; one that does not is
\* refused during a turn.  Commands run without a turn.
TakesPrompt ==
  LET p == Head(sent) IN
  /\ sent # <<>> /\ sent' = Tail(sent)
  /\ CASE p.kind # "prompt" -> UNCHANGED <<pageVars, turnVars, asked, held, bounds, upset>>
       [] p.kind = "prompt" /\ phase = "idle" -> BeginsMessage(p.id) /\ streaming' = TRUE /\ UNCHANGED queue
       [] p.kind = "prompt" /\ phase # "idle" /\ p.steers ->
            queue' = Append(queue, p.id)
            /\ UNCHANGED <<pageVars, phase, turn, block, history, past, asked, held, bounds, upset>>
       [] OTHER -> Error /\ UNCHANGED <<asked, held, turnVars, bounds>>

Starts ==
  /\ phase = "asked" /\ phase' = "writing"
  /\ Prints(StartAssistantMessage(Page, turn, turn))
  /\ UNCHANGED <<turn, block, queue, history, streaming>>

Writes ==
  /\ phase = "writing" /\ phase' = "text" /\ block' = "text"
  /\ Prints(EnsureBlock(Page, turn, "text"))
  /\ UNCHANGED <<turn, queue, history, streaming>>

Calls ==
  /\ phase = "writing" /\ phase' = "calling" /\ block' = "tool"
  /\ LET at == EnsureBlock(Page, turn, "tool") IN
     Prints([at EXCEPT !.rows[at.current].state = "running"])
  /\ UNCHANGED <<turn, queue, history, streaming>>

CallEnds ==
  /\ phase = "calling" /\ phase' = "called"
  /\ Prints(FinalizeToolCall(Page, turn))
  /\ UNCHANGED <<turn, block, queue, history, streaming>>

\* message_end: the reply is complete, or was aborted or failed on the way.
ReplyEnds(stopped) ==
  /\ phase \in IF stopped THEN {"writing", "text", "calling", "called"} ELSE {"text", "called"}
  /\ phase' = IF phase = "called" /\ ~stopped THEN "tool" ELSE "over"
  /\ history' = Append(history, Reply(stopped))
  /\ Prints(EndAssistantMessage(ApplyStopError(Page, stopped)))
  /\ UNCHANGED <<turn, block, queue, streaming>>

RunsTool ==
  /\ phase = "tool" /\ phase' = "running"
  /\ Prints(StartToolExecution(Page, turn))
  /\ UNCHANGED <<turn, block, queue, history, streaming>>

ToolEnds ==
  /\ phase = "running" /\ phase' = "over"
  /\ history' = Append(history, Item("result", turn))
  /\ Prints(EndToolExecution(Page, turn))
  /\ UNCHANGED <<turn, block, queue, streaming>>

\* The next steering message, or the turn settles.
GoesOn ==
  /\ phase = "over"
  /\ IF queue # <<>>
     THEN BeginsMessage(Head(queue)) /\ queue' = Tail(queue) /\ UNCHANGED <<sent, streaming>>
     ELSE phase' = "idle" /\ streaming' = FALSE
          /\ UNCHANGED <<rows, current, waiting, loading, frames, hydrationId, wayVars, turn, block,
                         queue, history, past, bounds, upset>>

\* pi's history becomes h, and the messages are asked for; unless the request of the move itself
\* was given up by then, which ends in an error (OtherError) and asks for nothing.
Moves(h) ==
  /\ moves < MaxMoves /\ phase = "idle"
  /\ moves' = moves + 1
  /\ history' = h
  /\ past' = past \cup {m.id : m \in Range(history) \ Range(h)}
  /\ \/ asked' = Append(asked, [busy |-> FALSE, moved |-> TRUE]) /\ UNCHANGED upset
     \/ upset' = upset \cup {"untold"} /\ UNCHANGED asked
  /\ UNCHANGED <<pageVars, phase, turn, block, queue, sent, held, typed, hydrations, errors>>

NewSession == Moves(<<>>)

\* The fork button of a bubble: the conversation before the message of its timestamp.
Fork(i) ==
  /\ ~streaming
  /\ rows[i].who = "user" /\ rows[i].ts # Unset
  /\ \E n \in DOMAIN history :
       /\ history[n].who = "user" /\ history[n].id = rows[i].ts
       /\ Moves(SubSeq(history, 1, n - 1))

AtRest == sent = <<>> /\ asked = <<>> /\ held = <<>> /\ frames = <<>>

Stop == AtRest /\ phase = "idle" /\ typed = MaxTyped /\ UNCHANGED chatVars

PageNext ==
  \/ \E k \in Kinds : Type(k)
  \/ Hydration \/ MessagesAnswered \/ Posted \/ Frame \/ OtherError
  \/ \E i \in DOMAIN asked : MessagesFail(i)
  \/ TakesPrompt \/ Starts \/ Writes \/ Calls \/ CallEnds \/ RunsTool \/ ToolEnds \/ GoesOn
  \/ \E stopped \in BOOLEAN : ReplyEnds(stopped)
  \/ NewSession \/ \E i \in DOMAIN rows : Fork(i)
  \/ Stop

PageSpec == PageInit /\ [][PageNext]_chatVars

--------------------------------------------------------------------------------
\* Properties

Phases == {"idle", "asked", "writing", "text", "calling", "called", "tool", "running", "over"}

\* Rows, what the page points at among them, the hydrations of its frames, and what pi does.
\* currentAssistant is a reply and lastUserBubble a bubble without timestamp, both on the page.
PageTypeOK ==
  /\ \A i \in DOMAIN rows : rows[i] \in
       [who : {"user", "assistant"}, id : PromptIds, ts : PromptIds \cup {Unset}, block : Blocks,
        call : PromptIds \cup {Unset}, state : {"still", "running", "done"}]
  /\ current \in 0..Len(rows) /\ waiting \in Gone..Len(rows)
  /\ current # 0 => rows[current].who = "assistant"
  /\ waiting > 0 => rows[waiting].who = "user" /\ rows[waiting].ts = Unset
  /\ streaming \in BOOLEAN /\ loading \in BOOLEAN
  /\ \A i \in DOMAIN frames : frames[i].id \in 1..hydrationId /\ frames[i].rest # <<>>
  /\ phase \in Phases /\ turn \in PromptIds /\ block \in Blocks /\ queue \in Seq(Typed)

\* The row of a message: of a tool call also its outcome.  Which call it is does not show.
RowOf(m) ==
  LET result == \E n \in DOMAIN history : history[n].who = "result" /\ history[n].id = m.id IN
  IF m.who = "user" THEN UserRow(m.id, m.id)
  ELSE [ReplyRow(m.id, m.id) EXCEPT
          !.block = m.block,
          !.state = IF m.block = "tool" /\ (m.stopped \/ result) THEN "done" ELSE "still"]
Face(row) == [row EXCEPT !.call = Unset]

\* The rows but for the bubbles of commands and of prompts that were refused.
ShownIn(rs) == {i \in DOMAIN rs : rs[i].who = "assistant" \/ rs[i].ts # Unset}
Said == {n \in DOMAIN history : history[n].who # "result"}
Shows(i, n) == Face(rows[i]) = RowOf(history[n])

\* Once everything is done the page shows pi's conversation, each message once, in order, each
\* tool call with its outcome: however prompts, steering, aborts, tool calls, forks and reloads
\* followed each other.  Except when something was filled while a hydration was under way
\* (hydrateMessages and handleEvent write the same rows), an error came during a turn, a
\* bubble waits for a timestamp that is a command's, or crosses a steering prompt on its way, or
\* the page was not told of a new session or fork, a request of which failed.
PageIsHistory ==
  AtRest /\ phase = "idle" /\ upset \cap {"overlap", "error", "command", "crossed", "untold"} = {}
    => /\ \A n \in Said : \E i \in ShownIn(rows) : Shows(i, n)
       /\ \A i \in ShownIn(rows) : \E n \in Said : Shows(i, n)
       /\ \A i, j \in ShownIn(rows), m, n \in Said :
            Shows(i, m) /\ Shows(j, n) => (i < j <=> m < n)

\* A bubble that has a timestamp has that of its own message, which fork and revert go by
\* (messages.ts: lastUserBubble is what the next message_start of a user takes for its own);
\* short of an error in a turn, a command, or something typed once the page has seen a turn end
\* that a prompt on its way was to steer.
TimesAreOwn ==
  upset \cap {"error", "command", "crossed"} = {} =>
    \A i \in DOMAIN rows : rows[i].who = "user" => rows[i].ts \in {Unset, rows[i].id}

\* After a new session or a fork, no row of what pi has left stays or comes back with the frames
\* of a hydration that began before (hydrationId), unless a request of it failed once pi had
\* moved and no list of the present has been posted since: then all of them stay.
NothingOfThePast == AtRest /\ "untold" \notin upset => \A i \in DOMAIN rows : rows[i].id \notin past

\* "Loading history..." goes away when the last frame has run, unless a list without messages
\* has superseded the one that wrote it.
LoadingEnds == AtRest /\ "empty" \notin upset => ~loading

\* While pi works, the page takes a turn for running, so what is typed steers it; unless it was
\* told of an error.  A list that was asked for before the turn began does not end it.
TurnIsShown == phase # "idle" /\ "error" \notin upset => streaming

\* Once everything is done no turn is shown; unless a command that was not yet known began one,
\* or the agent_start of a hydration came after the turn it was about.
IdleIsShown == AtRest /\ phase = "idle" /\ upset \cap {"command", "late"} = {} => ~streaming

\* The bubbles are the prompts they have the timestamps of, and no row is of a conversation that
\* pi has left, unless the page was not told that it did.
RowsAreOwn == TimesAreOwn /\ NothingOfThePast

\* What the page says of a turn or a load under way is so.
StatusIsTrue == PageTypeOK /\ LoadingEnds /\ TurnIsShown /\ IdleIsShown
================================================================================
