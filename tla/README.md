# pi-heao-gui: verification project

TLA+ models of the desktop application pi-heao-gui, TLC configurations that check them on
small instances, and proofs checked by TLAPS. Paths below are relative to the repository
(`main.ts` is `src/main/main.ts`).

The application is an Electron main process (`src/main`) that starts one `pi --mode rpc`
child per session window and talks to it over pipes, the pages it shows (`studio/pi-chat`), and
extensions that run inside pi (`studio/bridge`, `studio/pi-mcp`). JavaScript runs one handler
at a time, so what interleaves is everything between two `await`s: window messages, timers,
process events, files, and the lines of a pi that answers late, dies, or never starts up.

## 1. Inventory

| component | state | operations | hard because | module |
|---|---|---|---|---|
| Spawn queue (`spawn-queue.ts`) | per install prefix: holder, line of waiters, count of watchers, ceiling timer | `acquire`, `whenIdle`, `release`, ceiling, `passOn` | a turn can end twice (by the ceiling and by its late holder); turn-takers and watchers share a line | `SpawnQueue` |
| RPC client (`rpc-client.ts`) | map of pending requests, timers, `disposed`, `stdin`, readers | `request`, `handleLine`, timeout, exit, error, `dispose` | answers late, out of order or never; lines after the exit; prompts have no timeout | `RpcClient` |
| Chat session, life cycle (`chat-session.ts`) | `rpc`, `rpcGeneration`, `rpcAlive`, `streaming`, reload and retry flags | `bootRpc`, `reloadSession`, `retryStartup`, pi's handlers, `dispose` | reload, retry, exit and close overlap; spawning fails in two ways | `ChatSession` |
| Chat session, view of its pi (`chat-session.ts`) | `sessionFile`, `streaming`, the history shown | hydrate, switch, new, fork, revert, rename, prompt, turn events | each is several awaited requests and re-reads pi's state | `SessionView` |
| Session windows (`main.ts`) | `windowSessions`, `windowsBySession`, `chatSession` | open, load, created, close, switch, rebind, quit | a window may go, or its workspace change, while its session is being made | `Windows` |
| Rewind (`rewind-code.ts`) | history of changes, baselines, snapshots, pending calls, widget | tool call and result, rewind, accept, revert, sweep | calls on one file overlap; files change from outside or cannot be read; messages are ordered backwards; other sessions sweep the store | `Rewind` |
| Subagents (`subagent/index.ts`) | workers' index, per task its process, deadline, listener | run, abort, deadline, the two kills, close | a task ends when its pipes close, which others may keep open | `Subagents` |
| MCP connections (`pi-mcp/src`) | per session and server: client, attempt, state, calls under way, trust question, idle timer | connect, call, disconnect, reconnect, sweep, new session | everything awaits, and the session may be replaced meanwhile | `McpSession` |
| Decisions, alerts, board, unread (`decisions.ts`, `window-status.ts`, `tray.ts`, `main.ts`) | list of requests, reminders, rows, counts | posts of sessions, answers, focus, opening, closing | three lists kept by handlers of the same events, which a window has two awaits after its row | `Attention` |
| Chat page (`messages.ts`, `composer.ts`) | rows, the current reply, the bubble without a timestamp, frames of a hydration | prompts, pi's events, hydration in chunks, requests that fail | three writers of the same rows; a move may go untold | `ChatPage` |
| Turn statistics (`stats.ts`, `stats-store.ts`) | collectors, entries, order of eviction, timer, temporary file | save, load, forget, persist, restart | the collector's array is the stored one; writes overlap | `Telemetry` |
| Session files and list (`session-ops.ts`, `sessions.ts`, `main.ts`) | files of chained entries, the list's cache | rename, delete, archive, restore, import, list | pis write the same files; each operation awaits half-way | `SessionStore` |
| Terminals (`terminal.ts`, `dock.ts`, `main.ts`) | the handle of a window, the page's terminal and `termOpening` | open, close, exit, restart, window closed | opening pauses and waits for start-ups; exits come late | `Terminals` |

What makes each correct: nobody waits in the queue for ever and start-ups overlap only by its
ceiling; every request is settled once; no pi runs out of reach and a dead pi is known to be dead;
a session knows its pi's file, turn and history; a file has one writer; restoring gives back what
it promises; every call of a subagent or MCP tool ends; what waits for a person is listed; a page
shows pi's conversation; statistics and what was said survive; a terminal that runs can be
closed. The hazards are listed with their lines and properties in PROJECT.json.

## 2. Modules

| module | what it is | EXTENDS / INSTANCE |
|---|---|---|
| `StartUpTurns` | abstract: one turn per profile, handed on in the order of asking, watchers let go | |
| `SpawnQueue` | the queue of start-ups | refines `StartUpTurns` (`Turns`) |
| `Terminals` | the dock's terminal beside the start-ups it waits for | EXTENDS `SpawnQueue` |
| `Terminals_proofs` | theorems about the queue and the dock | `Terminals` |
| `RpcClient` | one client of one pi | |
| `ChatSession` | the life of sessions and their pis | `Q == INSTANCE SpawnQueue` |
| `ChatSession_proofs` | its theorems | `ChatSession`, `P == INSTANCE Terminals_proofs` |
| `SessionView` | what a session believes of a live pi | |
| `Windows` | windows, sessions and the maps between them | |
| `Windows_proofs` | theorems about windows and about clients | `Windows`, `RpcClient` |
| `Rewind`, `Rewind_proofs` | snapshots, widget, rewind and revert, and theorems about them | |
| `TaskPool` | abstract: tasks start in order, each once, at most so many at a time | |
| `Subagents` | one call of the subagent tool | refines `TaskPool` (`Pool`) |
| `McpSession` | pi's connections to MCP servers | |
| `Pi_proofs` | theorems about subagents, MCP connections and what a session believes of its pi | `Subagents`, `McpSession`, `SessionView` |
| `Attention`, `Attention_proofs` | decisions, reminders, board and unread counts, and theorems about them | |
| `Telemetry`, `Telemetry_proofs` | turn statistics and their file, and theorems about them | |
| `ChatPage` | the rows of a chat window | |
| `SessionStore` | session files, their writers and their list | |
| `Pages_proofs` | theorems about the page and about the files and their list | `ChatPage`, `SessionStore` |
| `MC...` | one per run: model values and symmetry of its configuration | |

How they correspond to the code (`map` in PROJECT.json has the lines of every definition):

- **SpawnQueue.** `held`, `waiting`, `watching` and `armed` are one `Entry` of the map and its
  timer; a key with `held = None` has no entry. The loop of `passOn`, which resolves watchers until
  it meets a turn-taker, is the position where that walk stops (`StopsAt`), so no recursion is
  needed. `Release(k)` takes a key and no owner, as the code does. Durations are abstracted:
  the timer is pending or not.
- **Terminals.** An opening is one invocation of `pi:term-open`: `Begins` (closes what there is),
  `Waits` (the pause, then `whenIdle` for a pi terminal, as a watcher of the queue), `Makes` or
  `Refuses`. `Shows`, `Restarts`, `Restarted` and `Opened` are the page's `ensureTerm` and
  `restartTerm` between their awaits; answers reach the page in order. Only the main window has a
  dock, so the map of terminals is one `handle`. The end of the application is left out.
- **RpcClient.** `req` is the promise of a request, `pending` the map. The pipe is a queue of whole
  lines; splitting chunks into lines is left out, a line that exceeds the limit is `Oversize`.
- **ChatSession.** A boot is one call of `bootRpc`: `StartBoot` up to the await of its turn,
  then `Spawn`, `SpawnError` (the process raises `error`) or `SpawnThrows`. A granted
  `acquire` is a resolved promise whose continuation runs before the next event: every handler
  requires `Quiet`. A session's client is `rpc`, the boot spawned last is `gen`; they differ
  exactly where the code's `rpcGeneration` runs ahead of `rpc`.
- **SessionView.** Each operation is its program: the batches of requests it awaits, in the
  order of the code. `ReadChunk(n)` handles n lines at once, because all lines of a chunk are
  handled before any continuation; `Continue` is what the function does after an await.
  pi refuses to move during a turn; a request may time out while pi still works on it. A slash
  command typed as a prompt (`/new`, `/clear`) lacks the button's guard, so `new` is unguarded.
- **Windows.** A window opens, loads its page, awaits its session (`SessionCreated`), and only
  then is its `closed` handler registered; a main window's is there at once.
- **Rewind.** A file's state is one value, content and mode; its snapshot has the same name. Messages
  form a tree, a call has its before state from `tool_call` and its after state from
  `tool_result`, and in between other calls, bash and the user may change the file. A file that
  cannot be read (`hidden`, by `Hides` and `Shows`) is `seen` as absent (`rewind-code.ts:110`).
  `buildOrderMap` reverses `getBranch()` (`:165`), which is from the root to the leaf, as `todo.ts:315`
  and `btw.ts:99` use it: a change has the lower position the nearer it is to the leaf. The
  model numbers messages upwards, so the code's "at or after the target" (`Affected`) is a <= e there, and
  its last change before the target (`RestorePoint`) the next one after it.
- **Subagents.** `Pull` is a worker's loop. A pi may be stubborn (outlives SIGTERM) or leave an heir
  that keeps its pipes open; both platforms' ways to kill are there.
- **McpSession.** What the code does between two awaits, with the continuations of a promise settled
  there, is one step. Time is left out: what may time out may fail at any moment.
- **Attention.** Each handler is one step that updates the list, the reminders, the rows and the unread
  counts as the code's handler does, in its order. A session window's row is there with the window
  (`OpenChild`, `main.ts:803`); its focus and closed handlers and its session's posts come two awaits later
  (`Serve`, `:983` to `:1003`; between spawning pi and registering them nothing is awaited), so it may be
  closed unheard (`ClosedUnheard`), and its session then asks nobody (`AsksNobody`). The list is the set of
  the requests' numbers, whose order is that of asking, as in the code's array. Whether a chime is heard is
  left open.
- **ChatPage.** Rows carry the message they show, a timestamp, and the state of a tool call. A
  hydration is a chain of frames of `Chunk` messages, superseded by a later one (`hydrationId`). pi and
  the session are external: events come in order, a list of messages may be posted late. A request of a
  hydration or of a move may fail (`MessagesFail`), also after pi has moved (`chat-session.ts:729`), and
  a move may have been given up by the time pi makes it (`Moves`): then no list is posted, and the page keeps
  its rows (`upset` holds `"untold"`).
- **Telemetry.** An entry of the store may be the array of a window's collector and grow with it. A
  write is `TimerFires` (which takes the text and opens the temporary file), then `WritesText` and
  `Renames`. One `get_state` per window is outstanding, and the lowest free window opens first.
- **SessionStore.** A file is a sequence of entries that name their parents; the last is where a pi
  goes on. `RenameStarts` is up to the read of the last entry, `RenameEnds` the append;
  `ImportStarts` up to the choice of a name, `ImportEnds` the write. A file's time is its last entry's
  id, its size the number of entries. Collecting the files, and reading one file, are single steps; the
  saved copy of the cache is left out (its entries are compared with the files like any other).

## 3. Runs

Every configuration belongs to the `MC` module of its name. All hold.

| run | question | distinct states |
|---|---|---|
| `terminals` | is anybody in the queue stranded, untimed or miscounted; does it keep `StartUpTurns`; is a terminal ever out of reach | 574 thousand |
| `rpc_client` | is a request lost, settled twice or left waiting on a pi that is gone | 64 thousand |
| `chat_session` | orphans, crash loops, dead pis taken for live ones, reloads that never end | 131 thousand |
| `session_view` | does the session end up knowing pi's file, history and turn | 4.5 million |
| `windows` | one writer, routing, lost sessions | 3.1 million |
| `rewind` | are the snapshots there, is the widget true, is what is restored what was promised | 307 thousand |
| `subagents` | does the pool run each task once, does the call end and leave nothing behind | 914 thousand |
| `mcp_session` | is a client forgotten, does the sweep spare calls, does every call end | 198 thousand |
| `attention` | is what waits listed, are rows and reminders true | 3.5 million |
| `chat_page` | does the page show pi's conversation, with its timestamps and status | 3.3 million |
| `telemetry` | are turns kept, is the file whole, does it catch up | 1.6 million |
| `session_store` | is anything said lost, cut off from its conversation, or listed under an old name | 3.0 million |

Bounds, and why they are enough:

- `terminals`: three start-ups and two pi terminals of one profile make every order of line, report,
  late report and ceiling (a stale release needs three: the late one, the holder and the next); with
  a shell and one restart (`MaxRestarts`), any two openings overlap and a third follows. One start-up
  with three restarts was explored as well (594 thousand states).
- `rpc_client`: two timed requests (answers overtaking, late, never), one prompt, two lines in the pipe
  (`MaxLines`: an answer behind an event or an oversize line).
- `chat_session`: one session, three boots (`MaxBoots`: any two of creation, reloads and the retry
  beside a third), `MaxPipe` unread lines, `SpawnFaults`, pi's turns (`RunsTurns`). The retry's boot is
  reserved (`RoomForBoot`), or the bound would hide it. Four boots without turns were explored too.
- `session_view`: `UserOps` = 3 of all seven `Kinds`, `MaxTurns` = 2, three files, `MaxLines` = 2: every
  pair of operations meets, with a third to disturb them, and a turn before or between.
- `windows`: `MaxChildren` = 2 open of three windows, so that the cap refuses one; three sessions
  (`MaxSessions`), one move (`MaxMoves`), four files of which two exist.
- `rewind`: two files of two states and two others (absent, too large), two messages (`MaxEntries`: one after
  the other, or a fork), two changes by two calls that may overlap (`MaxChanges`: both at one message, or one
  at each, with a rewind to either), one trouble (`MaxTroubles`).
- `subagents`: three tasks for two workers, so that one waits; one pi killed from outside (`MaxOutside`).
- `mcp_session`: two sessions (`MaxSessions`), a project's server that has to be trusted, two calls, and one
  client that is not closed when another is begun (`MaxBusy`): the old and the new client overlap.
- `attention`: three requests (`MaxRequests`) and room for two (`MaxPending`), two chats and the chime's
  window, two reminders per request (`Repeats`), `MaxUnread` = 1.
- `chat_page`: two things typed (`MaxTyped`) of all `Kinds`, chunks of two messages (`Chunk`), one
  hydration besides those of a move (`MaxHydrations`), one move, one error or failing request
  (`MaxMoves`, `MaxErrors`). Two moves were explored as well (16.8 million states).
- `telemetry`: two windows, two files of which the store keeps one, two turns, three moves, two writes at
  once, one failure or end of the application (`MaxSessions`, `MaxFiles`, `MaxTurns`, `MaxMoves`,
  `MaxWrites`, `MaxTroubles`).
- `session_store`: two windows, two names, an archive (`MaxDepth`), three entries (`MaxWrites`), slices of
  two (`Slice`), one trouble, three requests, one opened session, and two lists one after the other
  (`MaxAsked`, `MaxOpened`, `MaxListed`, one member of `Lists`). Lists that overlap are beyond this
  configuration; they are covered by the theorem, which holds for any set of lists, and were explored apart
  from it with two requests and two opened sessions (5.5 million), as were four requests with one list
  (5.0 million).

Symmetry is used only where a run checks invariants or action properties. Deadlock is not looked for in
`attention`, `mcp_session`, `rewind`, `rpc_client`, `session_store` and `telemetry`: there the bounds, or a
pi that never answers, may end the run.

Fairness, and why the code justifies it:

- SpawnQueue, Terminals: only `Expire`, the runtime's timer. Callers need not come, pi need not report.
- RpcClient: `Timeout` and `ReadLine` (the event loop runs timers and reads pipes), `ExitEvent` (the
  runtime reports an exit) and the death of a pi that was told to die.
- ChatSession: continuations, timers and exit events, the end of hydrate (each of its requests has a
  timeout, which RpcClient shows to settle it), and the death of a killed pi.
- Subagents: a worker's loop, the deadline's and the second kill's timers, the close of pipes nobody
  holds, the error of a spawn, and the death of a pi by SIGTERM unless it is stubborn.
- McpSession: an attempt to connect is settled (it has a timeout), a call ends (the SDK's timeout), and a
  change of session ends.
- Telemetry: the store's timer, and that a step of a write ends or fails.
- SessionView, Windows, Rewind, Attention, ChatPage, SessionStore: safety only, no fairness.

## 4. What the runs show

Each property is commented in its module. Those worth a reader's attention:

- `ServesInTurn`, `ImplementsPool`: the queue implements `StartUpTurns` and the workers implement
  `TaskPool`, with timers, places in the mixed line and the processes abstracted away.
- `OverlapIsPaidFor`: an overlap of start-ups needs a turn that the ceiling ended; stale releases
  (below) do not add to it.
- `RequestsSettle`, `EveryCallEnds`, `ObedientCallsReturn`, `RestartsEnd`, `TurnsReachTheFile`,
  `EveryCallIsAnswered`: nothing waits for ever, under the fairness above.
- `PisAreAccountedFor`, `DeathIsNoticed`: no pi is left behind but by the retry, and then one; a dead pi
  is known to be dead, whatever it died of.
- `ViewIsPis`, `StreamingIsPis`, `PageIsHistory`: session and page end up with pi's own file, history and
  turn once everything is answered.
- `RestoresWhatItSays`: rewinding gives a file that was changed at the message the state it had there, and
  leaves one that was changed nowhere on the branch; reverting gives the one last accepted. Of a file
  that was changed only at other messages it says nothing, because of the order of the positions (below).
- `ClientsAreKnown`, `SweepIsSafe`: no MCP client is out of reach, none is closed under a call.
- `ListIsTrue`, `BoardIsTrue`, `RemindersHaveReasons`: the lists kept by the same events agree, but for
  windows that were closed before their handlers were there (`Unheard`).
- `StoreIsTrue`, `FileIsTrue`, `FilesAreKept`, `TalkStaysTogether`: nothing that was measured or said is
  lost, short of a user's deletion or one of the races below.
- `RowsAreOwn`, `StatusIsTrue`: the timestamp that fork and revert go by is the message's own, nothing of a
  conversation that was left stays or comes back unless the page was not told of the move, and a turn is shown
  while one runs.
- `TerminalsAreReachable`: a terminal that runs can be closed and typed into.

Where the code departs from what one would expect, the properties name the departure rather than
hide it: they say that nothing else breaks the rule, and fail if a second way appears. These are
the departures met while modelling:

- **Start-ups.** A start-up whose turn the ceiling ended and that reports later ends its successor's
  turn (`spawn-queue.ts:171`). A reload during start-up kills that start-up, whose exit triggers the
  retry, whose pi replaces the reload's, which nobody disposes (`chat-session.ts:986`). `onError` does
  not clear `rpcAlive` (`chat-session.ts:1098`).
- **Sessions.** An `agent_start` read after the exit leaves the session streaming
  (`chat-session.ts:1031`). hydrate sets `streaming` from a state it read before the turn settled
  (`chat-session.ts:393`). `switchSession` never asks `windowDrivingSession` (`main.ts:2730`).
- **Rewind.** `buildOrderMap` reverses a branch that is from the root to the leaf (`rewind-code.ts:165`), where
  its comment says "Active branch only (root -> leaf)" (`:164`): a rewind takes the files changed at the
  message or before it for affected (`:172`), leaves those that were only changed after it, and gives a file
  changed only at other messages the state after the next change, or before the last of the branch, where
  the comment says "the content after the last change before the target" (`:212`). Of several changes at
  one message the first is found (`:216`). A file that cannot be read counts as absent (`:123`): the widget
  lists it as gone, and a revert may delete it. The chat's Revert prompts a command that is not registered
  (`chat-session.ts:761`).
- **Subagents.** The second kill is sent only while the process does not count as killed, and the first
  kill makes it count (`subagent/index.ts:285`).
- **MCP.** A connect that outlives its session's clean-up stays connected; a trust question answered late
  moves the idle sweep to the old session; a server that died stays "connected".
- **Attention.** Any error withdraws a window's questions, also when its pi still waits (`main.ts:1113`);
  reminders may go on after that. A session window that is closed between its row (`main.ts:803`) and its
  closed handler (`:990`) keeps its row until somebody clicks on it, and what its session asks, which is never
  disposed of, reaches nobody. The notifier's window gets a row (`main.ts:322`). Focus does not clear
  the unread count in the main window's row. A second dialog in the page replaces the first
  (`composer.ts:1025`).
- **Chat page.** When a request fails after pi has begun a new session or forked, only an error is posted
  (`chat-session.ts:395`, `:729`) and the page keeps the rows of the conversation pi has left. A hydration
  that overlaps events or prompts splits or loses rows; an error in a turn,
  or a command's bubble, gives the next message's timestamp to the wrong bubble, and so does a prompt
  that was to steer a turn, gets no bubble (`composer.ts:647`), and reaches pi after the turn, when
  something else was typed meanwhile; an empty list leaves "loading" on; a late `agent_start` leaves a turn
  shown.
- **Statistics.** Nothing primes the store, so the first save after a restart writes the file without what
  it held (`main.ts:1062`; the comments at `main.ts:1056` and `chat-session.ts:349` and
  `CHANGELOG.md:527` say it survives). When the new session's file has no entry, the collector keeps the
  former session's turns (`chat-session.ts:350`). Overlapping writes share a temporary file; a
  failed one is not retried; nothing flushes on quitting; a session deleted while open elsewhere comes
  back. What the properties ask is that recorded turns are kept while the application runs, in the store and
  (but for the sessions that two windows saved) in the file; turns of another session beside them are not
  asked about.
- **Session files.** A rename that races an append, reads a last line longer than 256 KB, or finds
  the file gone, chains its entry to the wrong parent (`session-ops.ts:57`, `:101`). Archive and restore
  rename over what is there (`:137`, `:159`); an import may find its name taken (`:319`). Delete asks
  only the sender's own session, archive asks nobody (`main.ts:1551`). A read that failed is cached as
  a file without a name. When the newest name is outside the last 64 KB the oldest in the head is shown
  (`sessions.ts:101`); a session's id may be that of its name's entry (`sessions.ts:105`). The walk
  includes `_archived` (`sessions.ts:216`).
- **Terminals.** Of two overlapping openings the second entry replaces the first (`main.ts:1907`); the late
  exit of a replaced terminal deletes its successor's (`main.ts:1894`); the answer to an opening that a
  restart has closed makes the page show a dead terminal (`dock.ts:356`).

## 5. What is proved

For every value of the constants, along one argument each: an inductive invariant that holds
initially, that every step keeps, and that implies the property.

**SpawnQueue**, from `CallsAssumption` (takers and watchers are disjoint, `None` is no call, each
call has a key, the takers are finitely many). `QueueKeepsBooks`, `EveryTurnIsPassedOn`, `OverlapBound`.
A turn goes to a caller who is really waiting because of `InLine` and `OnceInLine`; a
timer ends the right turn because of `HolderIsFresh`; `OverlapIsPaidFor` becomes inductive as
`BesideIsPaidFor`: those that run *beside the holder* are no more than the turns the ceiling ended.
`PassOnHands` states once what handing on does; every step cites it. The count of watchers follows the
line because one more in line is one more position (`OneMoreInLine`) and the rest of a line after
`StopsAt` has lost exactly the watchers that were passed (`RestOfLine`, `WatchersPassed`).

**Terminals**, from that and `TerminalsAssumption`. `TerminalsStayReachable`: what the page shows is the
recorded terminal only once everything is answered; what is inductive is `ShownIsNext`: the last
terminal the page will hear of, or else the one it shows, is the recorded one. `QueueBesideTerminals`:
each step of the composition is a step of the queue or leaves it alone, so the queue's
theorems carry over, among them `TurnsComeInOrder`: initial states map to initial states of `StartUpTurns`
and each step to one turn asked for, watched or passed on, or to a stutter. There the line is the set of
unanswered callers and who asked before whom; the queue has places instead, so the mapping needs that an
unanswered call stands in the line of its key (`StandsInLine`), and `PassOnIsPass` that nobody stands
before the first turn-taker of the line and that those behind it keep their order.

**RpcClient**, from `RequestsAssumption`. `BooksAreTrue`, `GonePiIsIdle`, `AnswersAfterReady`. The
strengthening is `ExitClosesStdin`: no request is written after the exit, because the pipe is closed.

**ChatSession**, from `SessionsAssumption`. `NoPiIsLeftBehind`, `DeathsAreNoticed`, `TheQueueIsUsedAsMeant`.
That at most one pi is out of reach says too little to be inductive; `Left` says which pis of a session run at
all: the one it uses and at most one other, that other alone once the session takes its pi for dead, is closed
or awaits a reload's boot, and none other before the retry's boot. A reload that arrives meanwhile finds who
waits for it in `Pendings`. `Turns` ties the queue to the sessions: its holder is about to spawn, or is the boot
its session spawned last, whose exit counts. The queue's books are those of Terminals_proofs,
through an instance; each way a turn ends is one lemma (`ReleaseKeeps`, `ExpireKeeps`).

**Windows**, from `WindowsAssumption`. `MessagesStayHome`, `OnlyTwoRacesLose`, `OpeningNeverSharesAFile`.
The invariant says where each live session is registered, and what a session that is still booting will
find when it is there; for the files, what an opening window's target is claimed by (`TargetsAreClaimed`)
and that a session without a target makes a file of its own (`NewFilesAreOwn`).

**Subagents**, from `SubagentsAssumption`. `SubagentCallsEndClean`, and `WorkersImplementPool`: initial states
map to initial states and each step to a step of `TaskPool` or a stutter. The pool's limit holds because the
worker that takes the next index is not at work itself (`WorkersAtWork`), so those at work are fewer than the
workers.

**McpSession**, from `McpAssumption` (finitely many servers and calls, as the sweep goes by a count).
`EveryClientIsKnown`, `TheSweepIsSafe`. The count of a connection is that of the calls under way on it
(`Counts`): one call more or less is one element more or less of a finite set. That no client is forgotten
needs that a connection which has a client begins no other (`OneClient`), and that the connections of a
session which was replaced are being closed unless they connected late (`LeftOnlyByLateConnect`).

**SessionView**, from `ViewAssumption`. `TheViewIsPis`, `TurnsAreSeen`. The answers pi gave and the requests it has
yet to answer stand in one line, in the order in which they were asked (`OrderInv`); one answers a batch of one
request, the two of a hydration are next to each other once both are asked (`Sent`). So when pi moves, whatever
the session was told before, or will be told by lines already written, stands before the answer to the move
(`Moving`); once that is read nobody is told anything old any more (`Moved`), the operation asks for the
state, then for the messages (`Located`), and the session is pi's again (`Clean`). `Trace` says that one
of these is so, unless the operation timed out. A turn is seen because reading a chunk changes nothing of what
the session will take for a running turn once the whole pipe is read (`TurnInv`). That the session asks for its
file at most once a turn, for which it has a place among the operations, is a count of the turns that settle in
the pipe (`TurnsAreCounted`).

**Attention**, from `AttentionAssumption`. `TheListIsTrue`, `TheBoardIsTrue`, `RemindersAreAboutSomething`. `Board`
is stated of any board, list and set of windows, with one lemma for each operation on them; beyond the
property it says that a window without a row finds a new row true, and that the notifier's counts
nothing. No closed session window has a row, but one that nobody heard closing (`NoGhosts`): a window that has
its handlers keeps them (`ServeKeeps`), so what is closed later leaves nothing. That the list keeps within its
cap is `CapHolds`: the oldest of one too many leaves it.

**Rewind**, from `RewindAssumption`. `SnapshotsAreThere`: every state that a history, a baseline or a
pending call may ask for has its snapshot, unless it was swept or could not be written.
`WidgetTellsTheTruth`: that the widget lists what differs is not inductive, as a call changes the file
before its result refreshes the widget; needed besides are `AloneIsTruthful` (a call alone on its file
found it as it is, or will record a change and refresh) and `BigIsUnsure` (a file that is too large is
one the widget does not vouch for).
`RestoresAreTrue`: that a revert of everything gives each file its mark, and a rewind gives a file that was
changed at the message, or nowhere on the branch, what it was when the message was sent. The branch is one
line of the tree (`AncestorsAgree`) and changes are recorded in the order of their messages (`ChangesInOrder`),
so that one first state of a file and its changes at the messages before any given one explain what the file
was when that one was sent, what its call found, and, with all of the branch, what the file is, or was when
the call in flight on it began (`ChangesExplain`). The first change at the message starts from the state so
explained (`RestoresTheState`), and a file without changes on the branch is still in its first
(`NotOnBranch`); a state that cannot be restored is one whose snapshot is lost. A result is recorded with
what its call found because it was alone on its file (`CallsAreAlone`), for which the exceptions of the
property are needed: files changed from outside or by overlapping calls or unreadable for a while
(`HiddenIsExcused`), and reverts and rewinds that leave the history behind. For reverts the baseline is the
mark, from the first change on (`MarkIsKept`).

**Telemetry**, from `TelemetryAssumption`. `TheStoreIsTrue`: the order of eviction names each stored session
once (`EvictedKeepsOrder`, a lemma about removing from and appending to a sequence); an entry that is a
collector's array holds what the collector holds (`Shared`), and a collector that was loaded has every turn
saved for its session (`LoadedHolds`), so that a save never loses one. `TheFileIsTrue`: short of an overlap
there is one write, its file is torn exactly while it writes (`OneWrite`), and the text it took is still what
memory says unless a timer is pending (`WriteIsNewest`).

**SessionStore**, from `StoreAssumption`. `NoTalkIsLost`, `NothingLeavesTheBranch`, `TheListShowsTheNewestName`. No
two positions of the files hold the same entry (`UniqueIds`), an entry is of the talk whose file it is in
(`Owned`), a name has one file unless two took it (`OnePerName`), so what a rename moves or replaces is
known. `OnBranch` is a least set; that the entries of a file that was never cut are all on the branch follows
from `Chained` by the last position that would not be. The name in the cache is that of a prefix of the file,
and a file whose last entry and length are the same has that prefix still (`CacheIsTrue`).

**ChatPage**, from `PageAssumption` (in what pi starts with a prompt, the reply to it and the result of its
call come in this order, once each; `Unset` is no number).
`RowsAreTheirOwn`, `TheStatusIsTrue`, `ThePageIsTheHistory`. What the operations of `messages.ts` do to any
page is stated once: the rows stay whose they are, with their times, and new ones are of the message that was
worked on (`Into`, `Grows`); a hydration is a run of them, by the least position where it would fail
(`ListHydrated`). Prompts become messages in the order they were typed (`Numbers`): hence the bubble that waits
is that of the next prompt (`BubbleIsNext`), and what becomes a message is not of the past. What pi has left may still be in frames and in
lists on their way. But unless a request of a move failed, or is still to be answered (`Told`), it is not in
the list that was answered last, nor, once that is shown, in rows and frames that count (`LeftBehind`).
That the page is the history holds only once all is quiet; what is inductive is `Mirror`:
short of a cause the property names, the rows that show are those of the first messages of what pi has said,
the reply it is writing among them, up to where the page is (`UpTo`): at the end, or where the frames to come go
on. The row of a message depends on how far the page is, as the result of a call comes later (`FaceOf`); a
hydration that draws a list and events that write one reply lead to the same rows (`Drawn`, `Live`). Requests
that are pending or fail change nothing of it, unless they are a move's (`Steady`). Beside it stand that a
hydration has one frame at a time (`OneFrame`) and that the reply that is written comes last (`Talks`). A bubble
that a hydration has swept away takes no message's place, because a list that is posted quietly and tells of a
turn holds a prompt (`Quiet`).

Only model-checked: all liveness, out of the prover's reach like ENABLED, and of `ServesInTurn` that turns
are passed on, its fairness. Every other property of the runs is the statement of a theorem.

## 6. Not modelled

`components` in PROJECT.json gives the reason for each part. In short: settings and agent files,
the search, projects and the updater are sequential or follow events from outside; command-line
helpers, git, path, navigation and permission checks, diff, logging and the adapter are pure functions
on strings; most of the windows' interface (settings window, sidebar, dock, palette, panels) is markup
and script as text; the questionnaire, todo list and side questions answer one call at a
time; pi, vendored code, scripts and tests are the environment or not part of the running program.
Within modelled components: restoring the saved windows (eight are saved, six may be open,
`main.ts:708`), the MCP trust file shared by several pis (`pi-mcp/src/index.ts:61`), the tools a server
registers, and the texts of everything.

## 7. Plan

1. `Settings`: agent files saved one by one while later ones are still to be validated (`main.ts:1348`),
   and pi's own settings written in place (`main.ts:503`).
2. The cancellation of an older search by a newer one (`main.ts:2607`), the todo list, the MCP trust file.
3. Saving and restoring windows in `Windows`.

## 8. Running it

    tlc -workers 2 -config Terminals.cfg MCTerminals.tla
    tlapm Terminals_proofs.tla

The largest runs explore a few million states in one to four minutes; the proofs take up to ten minutes
each.
