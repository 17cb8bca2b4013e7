------------------------------- MODULE Attention -------------------------------
(***************************************************************************)
(* src/main/main.ts, decisions.ts, window-status.ts, tray.ts: what tells a  *)
(* person which window needs them.  The list of decisions has the requests  *)
(* of every window's pi that nobody has answered; the board has a row for   *)
(* each window; reminders repeat the chime of a request; unread counts the   *)
(* turns that ended while a window was not in front.                       *)
(*                                                                         *)
(* The three lists are kept by handlers of the same events: what a session  *)
(* posts to its window, what its page asks for, focus and closing.  Each    *)
(* handler is one step.  A session window's row is there at once, its       *)
(* session and its handlers only two awaits later.  Ids of windows and      *)
(* requests are never used twice: requests are numbered as they are made,   *)
(* which is their order in the list.                                        *)
(***************************************************************************)
EXTENDS Naturals, FiniteSets

CONSTANTS
  Main,        \* the main window
  Children,    \* the session windows that will be opened
  Notifier,    \* the hidden window that plays the chime
  None,
  MaxPending,  \* MAX_PENDING_DECISIONS
  Repeats,     \* DECISION_ALERT_ATTEMPTS - 1
  MaxRequests, \* bound: requests
  MaxUnread    \* bound: turns of a window nobody has seen

ASSUME AttentionAssumption ==
  /\ Main \notin Children /\ Notifier \notin Children \cup {Main} /\ None \notin Children \cup {Main, Notifier}
  /\ MaxPending \in Nat \ {0} /\ Repeats \in Nat /\ MaxRequests \in Nat /\ MaxUnread \in Nat

Chats == {Main} \cup Children     \* windows with a session
Windows == Chats \cup {Notifier}
Requests == 1..MaxRequests

VARIABLES
  \* Electron
  open, gone,  \* gone: session windows that were closed
  focused,
  served,      \* windows whose session came, and with it the focus and closed handlers
  \* the sessions
  made,        \* requests so far
  from,        \* per request: its window
  asks,        \* requests a pi waits for
  shown,       \* per window: the request whose dialog its page shows, or 0
  streaming,
  \* main.ts
  decisions,   \* createDecisionQueue: the requests on the list, the oldest of which has the least number
  rows,        \* createWindowStatusBoard: a function on the windows that have a row
  reminders,   \* decisionAlerts: per window, timers that have not fired
  unread,      \* tray.ts: unreadByWindow
  \* history
  withdrawn    \* requests that left the list without an answer, their window still open

electronVars == <<open, gone, focused, served>>
sessionVars == <<made, from, asks, shown, streaming>>
vars == <<electronVars, sessionVars, decisions, rows, reminders, unread, withdrawn>>

Row == [waiting : 0..MaxRequests, running : BOOLEAN, unread : 0..MaxUnread]
NewRow == [waiting |-> 0, running |-> FALSE, unread |-> 0]

Of(w) == {r \in 1..made : from[r] = w}   \* the requests of w
Served == open \cap served
Unheard == gone \ served                 \* closed before anything listened to that

TypeOK ==
  /\ open \subseteq Windows /\ gone \subseteq Chats \ open /\ focused \in Chats \cup {None}
  /\ served \subseteq (open \cup gone) \cap Chats
  /\ made \in 0..MaxRequests /\ from \in [Requests -> Chats \cup {None}]
  /\ asks \subseteq 1..made
  /\ shown \in [Chats -> {0} \cup Requests] /\ \A w \in Chats : shown[w] \in {0} \cup Of(w)
  /\ streaming \subseteq Served
  /\ decisions \subseteq 1..made /\ Cardinality(decisions) <= MaxPending
  /\ DOMAIN rows \subseteq Windows /\ \A w \in DOMAIN rows : rows[w] \in Row
  /\ reminders \in [Chats -> 0..Repeats] /\ unread \in [Chats -> 0..MaxUnread]
  /\ withdrawn \subseteq 1..made

Init ==
  /\ open = {Main} /\ gone = {} /\ focused \in {Main, None} /\ served = {Main}
  /\ made = 0 /\ from = [r \in Requests |-> None] /\ asks = {} /\ shown = [w \in Chats |-> 0] /\ streaming = {}
  /\ decisions = {} /\ rows = [w \in {} |-> NewRow]
  /\ reminders = [w \in Chats |-> 0] /\ unread = [w \in Chats |-> 0]
  /\ withdrawn = {}

--------------------------------------------------------------------------------
\* window-status.ts, decisions.ts

\* update: a row of w that is not there is made.
RowOf(rws, w) == IF w \in DOMAIN rws THEN rws[w] ELSE NewRow
Update(rws, w, row) == [v \in DOMAIN rws \cup {w} |-> IF v = w THEN row ELSE rws[v]]
RemoveRow(rws, w) == [v \in DOMAIN rws \ {w} |-> rws[v]]

\* Mutant: only the main window's count is refreshed.
RefreshRows(rws, list, wins, fr) ==
  [w \in DOMAIN rws |-> IF w = Main
     THEN [rws[w] EXCEPT !.waiting = Cardinality({r \in list : fr[r] = w})] ELSE rws[w]]
\* refreshWaiting: every window there is gets a row with its count.
RefreshWaiting(rws, list, wins, fr) ==
  [w \in DOMAIN rws \cup wins |-> IF w \in wins
     THEN [RowOf(rws, w) EXCEPT !.waiting = Cardinality({r \in list : fr[r] = w})]
     ELSE rws[w]]

Oldest(list) == {r \in list : Cardinality(list) > MaxPending /\ \A q \in list : r <= q}

\* Mutant: an answer withdraws whatever its window has on the list.
ResolveAll(r) == decisions \ Of(from[r])
Resolve(r) == decisions \ {r}
\* dropWindow
Without(w) == decisions \ Of(w)

\* Who listens to the list is told if it changed.
Refreshed(list, rws, wins) == IF list = decisions THEN rws ELSE RefreshWaiting(rws, list, wins, from)

\* The list becomes list.
SetDecisions(list, rws) ==
  /\ decisions' = list
  /\ rows' = Refreshed(list, rws, open)

Drop(w, rws) ==
  /\ SetDecisions(Without(w), rws)
  /\ withdrawn' = withdrawn \cup (decisions \cap Of(w))

\* playChime, when the rules of alerts.ts allow it: its window lives for a moment.
Chime == open' = open \/ open' = open \cup {Notifier}

--------------------------------------------------------------------------------
\* What a session posts: sessionHost

\* dialog: pi asks.  The page's one overlay shows the new dialog, and the one before it no more.
Dialog(w) ==
  /\ w \in Served /\ made < MaxRequests
  /\ made' = made + 1 /\ from' = [from EXCEPT ![made + 1] = w]
  /\ asks' = asks \cup {made + 1} /\ shown' = [shown EXCEPT ![w] = made + 1]
  /\ LET list == decisions \cup {made + 1} IN
     /\ decisions' = list \ Oldest(list)
     /\ rows' = RefreshWaiting(rows, decisions', open, from')
     /\ withdrawn' = withdrawn \cup Oldest(list)
  /\ reminders' = [reminders EXCEPT ![w] = Repeats]
  /\ Chime
  /\ UNCHANGED <<gone, focused, served, streaming, unread>>

\* The session of a window closed too early lives on.  What it asks reaches nobody.
AsksNobody(w) ==
  /\ w \in Unheard /\ made < MaxRequests
  /\ made' = made + 1 /\ from' = [from EXCEPT ![made + 1] = w] /\ asks' = asks \cup {made + 1}
  /\ UNCHANGED <<electronVars, shown, streaming, decisions, rows, reminders, unread, withdrawn>>

\* An error the session tells of while its pi goes on: a request pi refused or did not answer.
SessionError(w) ==
  /\ w \in Served
  /\ Drop(w, rows)
  /\ UNCHANGED <<electronVars, sessionVars, reminders, unread>>

\* pi exits: no turn runs, and an error.
PiExits(w) ==
  /\ w \in Served
  /\ asks' = asks \ Of(w) /\ streaming' = streaming \ {w}
  /\ Drop(w, Update(rows, w, [RowOf(rows, w) EXCEPT !.running = FALSE]))
  /\ UNCHANGED <<electronVars, made, from, shown, reminders, unread>>

\* A turn begins or ends.
Streaming(w) ==
  /\ w \in Served
  /\ streaming' = IF w \in streaming THEN streaming \ {w} ELSE streaming \cup {w}
  /\ rows' = Update(rows, w, [RowOf(rows, w) EXCEPT !.running = w \notin streaming])
  /\ UNCHANGED <<electronVars, made, from, asks, shown, decisions, reminders, unread, withdrawn>>

Bump(w) == /\ unread' = [unread EXCEPT ![w] = @ + 1]
           /\ rows' = Update(rows, w, [RowOf(rows, w) EXCEPT !.unread = unread'[w]])

\* agent_settled
Settled(w) ==
  /\ w \in Served
  /\ IF focused = w THEN UNCHANGED <<open, unread, rows>>
     ELSE unread[w] < MaxUnread /\ Bump(w) /\ Chime
  /\ UNCHANGED <<gone, focused, served, sessionVars, decisions, reminders, withdrawn>>

--------------------------------------------------------------------------------
\* What the page asks for

\* Mutant: the reminders go on.
AnswerQuietly(r) ==
  /\ r > 0 /\ r = shown[from[r]]
  /\ SetDecisions(Resolve(r), rows)
  /\ asks' = asks \ {r} /\ shown' = [shown EXCEPT ![from[r]] = 0]
  /\ UNCHANGED <<electronVars, made, from, streaming, reminders, unread, withdrawn>>

\* dialogResponse
Answer(r) ==
  /\ r > 0 /\ r = shown[from[r]]
  /\ reminders' = [reminders EXCEPT ![from[r]] = 0]
  /\ SetDecisions(Resolve(r), rows)
  /\ asks' = asks \ {r} /\ shown' = [shown EXCEPT ![from[r]] = 0]
  /\ UNCHANGED <<electronVars, made, from, streaming, unread, withdrawn>>

\* An information panel takes the overlay, and is closed.
InfoPanel(w) ==
  /\ w \in Served /\ shown' = [shown EXCEPT ![w] = 0]
  /\ UNCHANGED <<electronVars, made, from, asks, streaming, decisions, rows, reminders, unread, withdrawn>>

\* switchSession: the list is cleared first.  A session in a turn then refuses to switch; one
\* that does switch may give its requests up.
SwitchSession(w) ==
  /\ w \in Served
  /\ reminders' = [reminders EXCEPT ![w] = 0]
  /\ Drop(w, rows)
  /\ UNCHANGED <<electronVars, sessionVars, unread>>

\* reload outside of a turn: the next pi knows nothing of the requests, the list does.
Reload(w) ==
  /\ w \in Served \ streaming
  /\ asks' = asks \ Of(w)
  /\ UNCHANGED <<electronVars, made, from, shown, streaming, decisions, rows, reminders, unread, withdrawn>>

--------------------------------------------------------------------------------
\* Windows and timers

\* The main window's handler leaves the board alone.
FocusRow(w) ==
  rows' = IF w = Main THEN rows ELSE Update(rows, w, [RowOf(rows, w) EXCEPT !.unread = 0])

\* The window comes to the front.
Focus(w) ==
  /\ w \in open \cap Chats /\ focused # w
  /\ focused' = w
  /\ IF w \in served
     THEN /\ unread' = [unread EXCEPT ![w] = 0] /\ FocusRow(w)
          /\ reminders' = [reminders EXCEPT ![w] = 0]
     ELSE UNCHANGED <<unread, rows, reminders>>
  /\ UNCHANGED <<open, gone, served, sessionVars, decisions, withdrawn>>

Blur ==
  /\ focused # None /\ focused' = None
  /\ UNCHANGED <<open, gone, served, sessionVars, decisions, rows, reminders, unread, withdrawn>>

ReminderFires(w) ==
  /\ reminders[w] > 0
  /\ reminders' = [reminders EXCEPT ![w] = @ - 1]
  /\ IF focused = w THEN UNCHANGED open ELSE Chime
  /\ UNCHANGED <<gone, focused, served, sessionVars, decisions, rows, unread, withdrawn>>

NotifierCloses ==
  /\ Notifier \in open /\ open' = open \ {Notifier}
  /\ UNCHANGED <<gone, focused, served, sessionVars, decisions, rows, reminders, unread, withdrawn>>

\* openSessionWindow, up to its first await.
OpenChild(w) ==
  /\ w \in Children \ (open \cup gone)
  /\ open' = open \cup {w}
  /\ rows' = Update(rows, w, RowOf(rows, w))
  /\ UNCHANGED <<gone, focused, served, sessionVars, decisions, reminders, unread, withdrawn>>

\* The rest of it: the page is loaded, the session's pi spawned, and the handlers are registered
\* before anything pi says can come.  In a window that was closed they hear nothing.
Serve(w) ==
  /\ w \in (open \cap Children) \ served /\ served' = served \cup {w}
  /\ UNCHANGED <<open, gone, focused, sessionVars, decisions, rows, reminders, unread, withdrawn>>

Goes(w) ==
  /\ open' = open \ {w} /\ gone' = gone \cup {w}
  /\ focused' = IF focused = w THEN None ELSE focused

\* The main window's handler does not take its row off the board.
ClosedRow(w, rws) == IF w = Main THEN rws ELSE RemoveRow(rws, w)

\* A window is closed; its session is disposed of.
Closed(w) ==
  /\ w \in Served /\ Goes(w)
  /\ unread' = [unread EXCEPT ![w] = 0] /\ reminders' = [reminders EXCEPT ![w] = 0]
  /\ decisions' = Without(w)
  /\ rows' = ClosedRow(w, Refreshed(Without(w), rows, open'))
  /\ asks' = asks \ Of(w) /\ shown' = [shown EXCEPT ![w] = 0] /\ streaming' = streaming \ {w}
  /\ UNCHANGED <<served, made, from, withdrawn>>

\* A session window is closed before its handler is registered: nothing is cleaned up.
ClosedUnheard(w) ==
  /\ w \in (open \cap Children) \ served /\ Goes(w)
  /\ UNCHANGED <<served, sessionVars, decisions, rows, reminders, unread, withdrawn>>

\* A row or a decision of a window that is gone is clicked: focusWindowById.
ClickGone(w) ==
  /\ w \in DOMAIN rows \ open
  /\ decisions' = Without(w) /\ rows' = RemoveRow(Refreshed(Without(w), rows, open), w)
  /\ UNCHANGED <<electronVars, sessionVars, reminders, unread, withdrawn>>

\* External: pi does not wait any longer, and says nothing.
GivesUp(r) ==
  /\ r \in asks /\ asks' = asks \ {r}
  /\ UNCHANGED <<electronVars, made, from, shown, streaming, decisions, rows, reminders, unread, withdrawn>>

Next ==
  \/ \E w \in Chats :
       \/ Dialog(w) \/ SessionError(w) \/ PiExits(w) \/ Streaming(w) \/ Settled(w)
       \/ SwitchSession(w) \/ InfoPanel(w) \/ Reload(w) \/ Focus(w) \/ ReminderFires(w)
       \/ OpenChild(w) \/ Serve(w) \/ Closed(w) \/ ClosedUnheard(w) \/ AsksNobody(w)
  \/ \E r \in 1..made : Answer(r) \/ GivesUp(r)
  \/ \E w \in Windows : ClickGone(w)
  \/ Blur \/ NotifierCloses

Spec == Init /\ [][Next]_vars

--------------------------------------------------------------------------------
\* Properties

\* Whatever a pi waits for is on the list, unless it was withdrawn: by an error, by a switch, or
\* as the oldest of too many.  An answer withdraws nothing but its own request.  Only the session
\* of a window that was closed before its handler was registered (main.ts:990) asks nobody.
WaitingIsListed == \A r \in asks : r \in decisions \cup withdrawn \/ from[r] \in Unheard

\* The list names open windows only.
ListedWindowsAreOpen == \A r \in decisions : from[r] \in open

\* The row of an open window is true: its requests, whether its turn runs, and its unread turns
\* (the main window's row keeps those it has seen).
RowsAreTrue ==
  \A w \in DOMAIN rows \cap open :
    /\ rows[w].waiting = Cardinality(decisions \cap Of(w))
    /\ w \in Chats => rows[w].running = (w \in streaming)
    /\ w \in Children => rows[w].unread = unread[w]

\* Every open session window but the main one has a row, and no closed one: but a window that was
\* closed before its handler was registered may keep its row until somebody clicks on it.
ChildrenHaveRows ==
  /\ open \cap Children \subseteq DOMAIN rows
  /\ DOMAIN rows \cap Children \subseteq open \cup Unheard

\* A reminder is about something: a request of that open window is on the list, or was withdrawn.
RemindersHaveReasons ==
  \A w \in Chats : reminders[w] > 0 => w \in open /\ (decisions \cup withdrawn) \cap Of(w) # {}

\* The list is what it says: every question a pi waits for that was not withdrawn, of windows
\* that are there to answer it.
ListIsTrue == TypeOK /\ WaitingIsListed /\ ListedWindowsAreOpen

\* The board has a true row for each window there is, and for no other that was ever served.
BoardIsTrue == RowsAreTrue /\ ChildrenHaveRows
================================================================================
