-------------------------------- MODULE Windows --------------------------------
(***************************************************************************)
(* src/main/main.ts: the windows, the chat sessions that drive them, and    *)
(* the maps that say which session a window talks to (windowSessions) and   *)
(* which window drives a session file (windowsBySession).                   *)
(*                                                                         *)
(* Opening a window awaits its page and then its session; a window may be   *)
(* closed, a session switched and the main window's session rebound in      *)
(* between.  A session here is a pi that writes one session file; how it    *)
(* starts and dies is ChatSession's subject, what it believes of its file   *)
(* SessionView's.                                                          *)
(***************************************************************************)
EXTENDS Naturals, FiniteSets

CONSTANTS
  Children,    \* session windows, each used once
  Main,        \* the main window
  Files,       \* session files
  OnDisk,      \* those that exist at first
  MaxChildren, \* MAX_SESSION_WINDOWS
  MaxSessions, \* bound: sessions
  MaxMoves,    \* bound: switches and new sessions
  None

Windows == Children \cup {Main}
Sessions == 1..MaxSessions

ASSUME WindowsAssumption ==
  /\ Main \notin Children /\ None \notin Windows /\ None \notin Files
  /\ OnDisk \subseteq Files /\ None \notin Sessions
  /\ MaxChildren \in Nat /\ MaxSessions \in Nat /\ MaxMoves \in Nat

VARIABLES
  win,       \* per window: "none", "open" or "closed"
  stage,     \* per window: "none", "loading" (its page), "booting" (its session) or "ready"
  target,    \* per window: the session file it was opened for
  windowSessions, windowsBySession, chatSession,
  made,      \* how many sessions were made; they are numbered in order
  owner,     \* per session: the window it was made for
  life,      \* per session: "none", "booting", "up", "failed" or "disposed"
  previous,  \* per session that a rebind boots: the session it replaces
  file,      \* per session: the file its pi writes
  known,     \* per session: its sessionFile, which follows `file` after some awaits
  disk,      \* the files that exist
  moves,     \* how many moves there were
  quit,      \* before-quit ran
  \* history
  moved,     \* sessions that were switched to an existing file
  early,     \* windows that were closed before the session they awaited was there
  overlap    \* a rebind started while another was in flight

winVars == <<win, stage, target>>
mapVars == <<windowSessions, windowsBySession, chatSession>>
sessionVars == <<made, owner, life, previous, file, known, disk>>
historyVars == <<moved, early, overlap>>
vars == <<winVars, mapVars, sessionVars, moves, quit, historyVars>>

TypeOK ==
  /\ win \in [Windows -> {"none", "open", "closed"}]
  /\ stage \in [Windows -> {"none", "loading", "booting", "ready"}]
  /\ target \in [Windows -> Files \cup {None}]
  /\ windowSessions \in [Windows -> Sessions \cup {None}]
  /\ \A w \in Windows : windowSessions[w] # None => owner[windowSessions[w]] = w
  /\ windowsBySession \in [Files -> Children \cup {None}]
  /\ chatSession \in Sessions \cup {None}
  /\ made \in 0..MaxSessions
  /\ owner \in [Sessions -> Windows \cup {None}]
  /\ life \in [Sessions -> {"none", "booting", "up", "failed", "disposed"}]
  /\ previous \in [Sessions -> Sessions \cup {None}]
  /\ file \in [Sessions -> Files \cup {None}] /\ known \in [Sessions -> Files \cup {None}]
  /\ disk \subseteq Files
  /\ moves \in 0..MaxMoves /\ quit \in BOOLEAN
  /\ moved \subseteq Sessions /\ early \subseteq Windows /\ overlap \in BOOLEAN

\* The main window is up, its page loaded; its session comes next.
Init ==
  /\ win = [w \in Windows |-> IF w = Main THEN "open" ELSE "none"]
  /\ stage = [w \in Windows |-> IF w = Main THEN "loading" ELSE "none"]
  /\ target = [w \in Windows |-> None]
  /\ windowSessions = [w \in Windows |-> None]
  /\ windowsBySession = [f \in Files |-> None]
  /\ chatSession = None
  /\ made = 0 /\ owner = [s \in Sessions |-> None] /\ life = [s \in Sessions |-> "none"]
  /\ previous = [s \in Sessions |-> None]
  /\ file = [s \in Sessions |-> None] /\ known = [s \in Sessions |-> None]
  /\ disk = OnDisk /\ moves = 0 /\ quit = FALSE
  /\ moved = {} /\ early = {} /\ overlap = FALSE

--------------------------------------------------------------------------------
\* Routing and search

\* sessionFor: the session a window's messages go to.
SessionFor(w) ==
  IF windowSessions[w] # None THEN windowSessions[w]
  ELSE IF w \in Children THEN None ELSE chatSession

Registered(f) == windowsBySession[f] # None /\ win[windowsBySession[f]] = "open"
Showing(f) == {w \in Windows : windowSessions[w] # None /\ known[windowSessions[w]] = f}

\* windowDrivingSession finds nobody: no child window was opened for the file, and the
\* session of a window that is found to be on it (whichever comes first) is not of an open one.
NotDriven(f) ==
  /\ ~Registered(f)
  /\ Showing(f) = {} \/ \E w \in Showing(f) : win[w] # "open"

OpenChildren == {w \in Children : win[w] = "open"}

--------------------------------------------------------------------------------
\* Sessions

\* createChatSession is called for a window.
StartSession(w, replaces) ==
  LET s == made + 1 IN
  /\ made < MaxSessions
  /\ made' = s
  /\ owner' = [owner EXCEPT ![s] = w]
  /\ life' = [life EXCEPT ![s] = "booting"]
  /\ previous' = [previous EXCEPT ![s] = replaces]

Rebinding(s) == life[s] = "booting" /\ previous[s] # None
InUse == disk \cup {file[s] : s \in Sessions}

\* Its pi comes up on the file the window was opened for, or on a new one.
ComesUp(s) ==
  \E f \in IF target[owner[s]] # None /\ previous[s] = None
           THEN {target[owner[s]]} ELSE Files \ InUse :
    /\ file' = [file EXCEPT ![s] = f]
    /\ known' = [known EXCEPT ![s] = f]
    /\ disk' = disk \cup {f}

\* What becomes of the sessions when s, if any, has come up and those of S are disposed.
After(s, S) == [x \in Sessions |-> CASE x = s -> "up"
                                     [] x \in S /\ life[x] = "up" -> "disposed"
                                     [] OTHER -> life[x]]

\* windowSessions.set: the main window's id is forgotten when it closes, a child's is not.
Registering(w, s) ==
  IF w = Main /\ win[w] # "open" THEN windowSessions ELSE [windowSessions EXCEPT ![w] = s]

\* Mutant: the window is not registered for its file.
OpenUnregistered(w, f) ==
  /\ ~quit /\ win[w] = "none"
  /\ f # None => NotDriven(f)
  /\ Cardinality(OpenChildren) < MaxChildren
  /\ win' = [win EXCEPT ![w] = "open"]
  /\ stage' = [stage EXCEPT ![w] = "loading"]
  /\ target' = [target EXCEPT ![w] = f]
  /\ UNCHANGED <<mapVars, sessionVars, moves, quit, historyVars>>

\* openSessionWindow up to its first await, for a file or for a new session.  A file that
\* is driven already only gets its window focused; at the cap nothing is opened.
OpenSessionWindow(w, f) ==
  /\ ~quit /\ win[w] = "none"
  /\ f # None => NotDriven(f)
  /\ Cardinality(OpenChildren) < MaxChildren
  /\ win' = [win EXCEPT ![w] = "open"]
  /\ stage' = [stage EXCEPT ![w] = "loading"]
  /\ target' = [target EXCEPT ![w] = f]
  /\ windowsBySession' = [x \in Files |-> IF x = f THEN w ELSE windowsBySession[x]]
  /\ UNCHANGED <<windowSessions, chatSession, sessionVars, moves, quit, historyVars>>

\* The page is loaded and the session is created; loading fails if the window was closed.
PageLoaded(w) ==
  /\ ~quit /\ stage[w] = "loading"
  /\ IF win[w] = "open"
     THEN stage' = [stage EXCEPT ![w] = "booting"] /\ StartSession(w, None)
     ELSE stage' = [stage EXCEPT ![w] = "ready"] /\ UNCHANGED <<made, owner, life, previous>>
  /\ UNCHANGED <<win, target, mapVars, file, known, disk, moves, quit, historyVars>>

\* Its session is there, or could not be created.  A child window registers it whether or
\* not it was closed meanwhile, and only now its `closed` handler.
SessionCreated(s) ==
  LET w == owner[s] IN
  /\ ~quit /\ life[s] = "booting" /\ previous[s] = None
  /\ stage' = [stage EXCEPT ![w] = "ready"]
  /\ \/ /\ ComesUp(s)
        /\ life' = After(s, {})
        /\ windowSessions' = Registering(w, s)
        /\ chatSession' = IF w = Main THEN s ELSE chatSession
     \/ /\ life' = [life EXCEPT ![s] = "failed"]
        /\ UNCHANGED <<windowSessions, chatSession, file, known, disk>>
  /\ UNCHANGED <<win, target, windowsBySession, made, owner, previous, moves, quit, historyVars>>

\* Mutant: the `closed` handler of a child window leaves its session alone.
CloseKeepsSession(w) ==
  /\ win[w] = "open"
  /\ win' = [win EXCEPT ![w] = "closed"]
  /\ early' = IF stage[w] # "ready" \/ (w = Main /\ \E s \in Sessions : Rebinding(s))
              THEN early \cup {w} ELSE early
  /\ windowSessions' = [windowSessions EXCEPT ![w] = None]
  /\ UNCHANGED <<stage, target, windowsBySession, chatSession, sessionVars, moves, quit,
                 moved, overlap>>

\* A window is closed.  The main window's handler is there from the start; that of a child
\* window is registered with its session, so before that nothing is cleaned up.
CloseWindow(w) ==
  /\ win[w] = "open"
  /\ win' = [win EXCEPT ![w] = "closed"]
  /\ early' = IF stage[w] # "ready" \/ (w = Main /\ \E s \in Sessions : Rebinding(s))
              THEN early \cup {w} ELSE early
  /\ IF w = Main \/ stage[w] = "ready"
     THEN /\ windowSessions' = [windowSessions EXCEPT ![w] = None]
          /\ windowsBySession' = [f \in Files |-> IF f = target[w] THEN None
                                                  ELSE windowsBySession[f]]
          /\ chatSession' = IF w = Main THEN None ELSE chatSession
          /\ life' = After(None, {IF w = Main THEN chatSession ELSE windowSessions[w]})
     ELSE UNCHANGED <<windowSessions, windowsBySession, chatSession, life>>
  /\ UNCHANGED <<stage, target, made, owner, previous, file, known, disk, moves, quit,
                 moved, overlap>>

\* switchSession, newSession, fork: pi moves first.  Nobody asks who drives that file.  A
\* forked file exists at once, a new session's not before it is known.
MoveStarts(w) ==
  LET s == SessionFor(w) IN
  /\ ~quit /\ win[w] = "open" /\ s # None /\ life[s] = "up"
  /\ moves < MaxMoves /\ moves' = moves + 1
  /\ \/ \E f \in disk \ {file[s]} :
          file' = [file EXCEPT ![s] = f] /\ moved' = moved \cup {s} /\ UNCHANGED disk
     \/ \E f \in Files \ InUse :
          /\ file' = [file EXCEPT ![s] = f]
          /\ \/ disk' = disk \cup {f} /\ moved' = moved \cup {s}
             \/ UNCHANGED <<disk, moved>>
  /\ UNCHANGED <<winVars, mapVars, made, owner, life, previous, known, quit, early, overlap>>

\* Then the session reads where it is.
MoveEnds(s) ==
  /\ ~quit /\ life[s] = "up" /\ known[s] # file[s]
  /\ known' = [known EXCEPT ![s] = file[s]]
  /\ disk' = disk \cup {file[s]}
  /\ UNCHANGED <<winVars, mapVars, made, owner, life, previous, file, moves, quit, historyVars>>

\* rebindMainSession: the workspace changed, the main window gets a session there.
RebindStarts ==
  /\ ~quit /\ win[Main] = "open" /\ SessionFor(Main) # None
  /\ StartSession(Main, chatSession)
  /\ overlap' = (overlap \/ \E s \in Sessions : Rebinding(s))
  /\ UNCHANGED <<winVars, mapVars, file, known, disk, moves, quit, moved, early>>

\* Mutant: the map of sessions is not told of the new one.
RebindUnmapped(s) ==
  /\ ~quit /\ Rebinding(s)
  /\ ComesUp(s)
  /\ life' = After(s, {previous[s]})
  /\ chatSession' = s
  /\ UNCHANGED <<winVars, windowSessions, windowsBySession, made, owner, previous, moves, quit,
                 historyVars>>

\* The new session takes the place of the one that was there when the rebind began, which is
\* disposed; if there is none, the old one stays.
RebindEnds(s) ==
  /\ ~quit /\ Rebinding(s)
  /\ \/ /\ ComesUp(s)
        /\ life' = After(s, {previous[s]})
        /\ chatSession' = s
        /\ windowSessions' = Registering(Main, s)
     \/ /\ life' = [life EXCEPT ![s] = "failed"]
        /\ UNCHANGED <<chatSession, windowSessions, file, known, disk>>
  /\ UNCHANGED <<winVars, windowsBySession, made, owner, previous, moves, quit, historyVars>>

\* before-quit: the sessions of all windows are disposed.  Nothing but closing follows.
Quit ==
  /\ ~quit
  /\ quit' = TRUE
  /\ life' = After(None, {windowSessions[w] : w \in Windows})
  /\ windowSessions' = [w \in Windows |-> None]
  /\ UNCHANGED <<winVars, windowsBySession, chatSession, made, owner, previous, file, known,
                 disk, moves, historyVars>>

Stop == quit /\ UNCHANGED vars

Next ==
  \/ \E w \in Children, f \in disk \cup {None} : OpenSessionWindow(w, f)
  \/ \E w \in Windows : PageLoaded(w) \/ CloseWindow(w) \/ MoveStarts(w)
  \/ \E s \in Sessions : SessionCreated(s) \/ MoveEnds(s) \/ RebindEnds(s)
  \/ RebindStarts \/ Quit \/ Stop

Spec == Init /\ [][Next]_vars

--------------------------------------------------------------------------------
\* Properties

\* A session some window can still talk to.
Reachable(s) ==
  \/ \E w \in Windows : win[w] = "open" /\ windowSessions[w] = s
  \/ win[Main] = "open" /\ chatSession = s

\* Opening windows, in any order and however long their sessions take, never gives a session
\* file a second writer; only a session that was itself moved onto an existing file (or
\* forked), or one that is lost, can be on a file with another.
OneWriterUnlessMoved ==
  \A s, t \in Sessions :
    s # t /\ life[s] = "up" /\ life[t] = "up" /\ file[s] = file[t] =>
      {s, t} \cap moved # {} \/ ~Reachable(s) \/ ~Reachable(t)

\* The messages of a window go to a session made for that window, whose pi was not disposed
\* (line 366: never to the main window's agent), through every rebind and boot.
RoutesToOwnLivePi ==
  ~quit => \A w \in Windows : win[w] = "open" /\ SessionFor(w) # None =>
    owner[SessionFor(w)] = w /\ life[SessionFor(w)] = "up"

\* No pi outlives its window, a rebind or the app, except the session of a window that was
\* closed before it was there, or of two workspace changes that overlapped.
LostOnlyByRace ==
  \A s \in Sessions : life[s] = "up" /\ ~Reachable(s) =>
    owner[s] \in early \/ (owner[s] = Main /\ overlap)

\* Every open window has its own live session, or none yet.
WindowsHaveTheirOwn == TypeOK /\ RoutesToOwnLivePi
================================================================================
