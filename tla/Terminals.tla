------------------------------- MODULE Terminals -------------------------------
(***************************************************************************)
(* The dock's terminal: the page that shows it (src/main/dock.ts), the main *)
(* process that opens and closes it (main.ts, terminal.ts) and the queue of *)
(* start-ups that a pi terminal waits for (SpawnQueue).                     *)
(*                                                                         *)
(* Only the main window has a dock, so the code's map of terminals is one   *)
(* handle.  An opening is one invocation of pi:term-open, and stands for    *)
(* the PTY it makes: those of pi are the watchers of the queue.  Requests   *)
(* reach the main process in order, answers the page in order.              *)
(***************************************************************************)
EXTENDS SpawnQueue

CONSTANTS
  Shells,      \* openings of a shell
  Closed,      \* the answer to pi:term-close
  MaxRestarts  \* bound: restarts the user asks for

Openings == Watchers \cup Shells

ASSUME TerminalsAssumption ==
  /\ Shells \cap Calls = {} /\ None \notin Shells /\ Closed \notin Openings
  /\ MaxRestarts \in Nat

VARIABLES
  open,      \* the window is there
  shown,     \* the page's terminal, or None
  opening,   \* the page's termOpening
  answers,   \* the answers on their way to the page
  restarts,  \* bound
  progress,  \* per opening: how far pi:term-open is
  handle,    \* the window's entry in the map of terminals
  running,   \* the PTYs nobody killed and that did not exit
  ending,    \* PTYs that were killed or exited, whose exit was not told
  lost       \* history: PTYs whose entry another opening, or another's exit, took

pageVars == <<shown, opening, answers, restarts>>
termVars == <<open, pageVars, progress, handle, running, ending, lost>>

TInit ==
  /\ Init
  /\ open = TRUE /\ shown = None /\ opening = FALSE /\ answers = <<>> /\ restarts = 0
  /\ progress = [o \in Openings |-> "new"]
  /\ handle = None /\ running = {} /\ ending = {} /\ lost = {}

--------------------------------------------------------------------------------
\* The main process

\* disposeTerminalFor
Disposes ==
  /\ handle' = None
  /\ running' = running \ {handle} /\ ending' = ending \cup ({handle} \cap running)

\* An opening begins: what the window had is closed.
Begins(o) == progress[o] = "new" /\ progress' = [progress EXCEPT ![o] = "pausing"] /\ Disposes

\* After the pause a pi terminal waits for the start-ups of its profile.
Waits(o) ==
  /\ o \in Watchers /\ progress[o] = "pausing"
  /\ progress' = [progress EXCEPT ![o] = "waiting"]
  /\ Watch(o)
  /\ UNCHANGED <<open, pageVars, handle, running, ending, lost>>

\* A shell waits for nobody.
MayMake(o) ==
  \/ o \in Shells /\ progress[o] = "pausing"
  \/ o \in Watchers /\ progress[o] = "waiting" /\ call[o] = "resolved"

\* The PTY is made, and recorded over whatever is recorded by then.
Recorded(o) ==
  /\ progress' = [progress EXCEPT ![o] = "made"]
  /\ running' = running \cup {o} /\ handle' = o
  /\ lost' = lost \cup ({handle} \cap running)
  /\ answers' = IF open THEN Append(answers, o) ELSE answers
  /\ UNCHANGED <<vars, open, shown, opening, restarts, ending>>

\* No PTY: it could not be made, or the window was closed meanwhile.
Refuses(o) ==
  /\ MayMake(o)
  /\ progress' = [progress EXCEPT ![o] = "refused"]
  /\ answers' = IF open THEN Append(answers, o) ELSE answers
  /\ UNCHANGED <<vars, open, shown, opening, restarts, handle, running, ending, lost>>

\* Mutant: nobody looks whether the window is still there.
MakesAnyway(o) == MayMake(o) /\ Recorded(o)
Makes(o) == MayMake(o) /\ open /\ Recorded(o)

\* The process of a terminal ends by itself.
Dies(o) ==
  /\ o \in running
  /\ running' = running \ {o} /\ ending' = ending \cup {o}
  /\ UNCHANGED <<vars, open, pageVars, progress, handle, lost>>

\* onExit: the window's entry goes, whose ever it is by now.
Exits(o) ==
  /\ o \in ending /\ ending' = ending \ {o}
  /\ handle' = None
  /\ lost' = lost \cup ({handle} \cap running)
  /\ UNCHANGED <<vars, open, pageVars, progress, running>>

WindowCloses ==
  /\ open /\ open' = FALSE
  /\ Disposes
  /\ shown' = None /\ opening' = FALSE /\ answers' = <<>>
  /\ UNCHANGED <<vars, restarts, progress, lost>>

--------------------------------------------------------------------------------
\* The page

\* ensureTerm: nothing if there is a terminal or one is on its way.
Ensures(o) == shown = None /\ ~opening /\ opening' = TRUE /\ Begins(o)

\* The user shows the dock, or settings ask for a login.
Shows(o) ==
  /\ open /\ Ensures(o)
  /\ UNCHANGED <<vars, open, shown, answers, restarts, lost>>

\* restartTerm up to the answer to pi:term-close, also for the other kind of terminal.
Restarts ==
  /\ open /\ restarts < MaxRestarts /\ restarts' = restarts + 1
  /\ shown' = None /\ opening' = FALSE
  /\ Disposes
  /\ answers' = Append(answers, Closed)
  /\ UNCHANGED <<vars, open, progress, lost>>

\* restartTerm after it.
Restarted ==
  /\ answers # <<>> /\ Head(answers) = Closed /\ answers' = Tail(answers)
  /\ \/ \E o \in Openings : Ensures(o)
     \/ (shown # None \/ opening) /\ UNCHANGED <<opening, progress, handle, running, ending>>
  /\ UNCHANGED <<vars, open, shown, restarts, lost>>

\* ensureTerm after its request, whatever it was that was restarted since.
Opened ==
  /\ answers # <<>> /\ Head(answers) # Closed /\ answers' = Tail(answers)
  /\ opening' = FALSE
  /\ shown' = IF progress[Head(answers)] = "made" THEN Head(answers) ELSE shown
  /\ UNCHANGED <<vars, open, restarts, progress, handle, running, ending, lost>>

--------------------------------------------------------------------------------

Queues ==
  /\ \E c \in Takers : Ask(c) \/ Report(c) \/ Expire(c)
  /\ UNCHANGED termVars

\* The window is gone, the start-ups have reported, no opening and no exit is left to happen.
AllDone ==
  /\ ~open /\ ending = {} /\ \A o \in Openings : progress[o] \notin {"pausing", "waiting"}
  /\ \A c \in Takers : call[c] = "resolved"
  /\ Starting = {} /\ armed = {}
  /\ UNCHANGED <<vars, termVars>>

TNext ==
  \/ AllDone \/ Queues \/ WindowCloses \/ Restarts \/ Restarted \/ Opened
  \/ \E o \in Openings : Waits(o) \/ Makes(o) \/ Refuses(o) \/ Dies(o) \/ Exits(o) \/ Shows(o)

TSpec ==
  /\ TInit /\ [][TNext]_<<vars, termVars>>
  /\ \A c \in Takers : WF_<<vars, termVars>>(Expire(c) /\ UNCHANGED termVars)

--------------------------------------------------------------------------------
\* Properties

\* Nothing is being opened, and nothing is on its way to the page.
Quiet == answers = <<>> /\ \A o \in Openings : progress[o] \notin {"pausing", "waiting"}

\* A terminal that runs can be closed: the window's entry is its own.  And what the user types
\* goes to the terminal that is shown: once nothing is being opened, it is the one of the entry.
\* However openings, restarts, exits and the closing of the window interleave with the start-ups
\* a pi terminal waits for; except for a PTY over which another opening, or another's late exit,
\* went in the map.
TerminalsAreReachable ==
  /\ running \subseteq {handle} \cup lost
  /\ handle # None => open
  /\ Quiet /\ shown # None /\ handle # None => shown = handle
=============================================================================
