------------------------------- MODULE Telemetry -------------------------------
(***************************************************************************)
(* stats.ts, stats-store.ts and the part of chat-session.ts between them:   *)
(* the turns a window's collector has measured, the entry of each session   *)
(* in the store, and the file the store is written to 1.5 seconds after a   *)
(* change, over a temporary file and a rename.                              *)
(*                                                                         *)
(* toJSON hands out the collector's own array: the entry of a session goes  *)
(* on growing with the collector until the collector takes another array.   *)
(* Nothing calls the store's prime and flush, so no action stands for them. *)
(* A turn is a number; its tokens, costs and days are left out, and that a  *)
(* collector keeps no more than 200 turns.                                 *)
(***************************************************************************)
EXTENDS Naturals, Sequences, FiniteSets, SequencesExt

CONSTANTS
  Windows,
  MaxSessions,  \* sessions the store keeps (60)
  MaxWrites,    \* bound: writes of the store under way at once
  MaxFiles,     \* bound: session files pi makes
  MaxTurns,     \* bound: turns that end
  MaxMoves,     \* bound: windows opened, files deleted, and commands that move pi or ask for its file
  MaxTroubles   \* bound: failing writes and answers, and ends of the application

ASSUME TelemetryAssumption ==
  /\ Windows \subseteq Nat \ {0}
  /\ MaxSessions \in Nat \ {0} /\ MaxWrites \in Nat \ {0}
  /\ MaxFiles \in Nat /\ MaxTurns \in Nat /\ MaxMoves \in Nat
  /\ MaxTroubles \in Nat

Files == 1..MaxFiles
Turns == 1..MaxTurns
Writes == 1..MaxWrites
NoAsk == [st |-> "none"]
Asks == {NoAsk} \cup [st : {"asked"}, file : {0} \cup Files, loads : BOOLEAN]
NoWrite == [st |-> "none"]
NoFile == [st |-> "missing"]
Torn == [st |-> "torn"]
Whole(text) == [st |-> "whole", text |-> text]

VARIABLES
  running,
  \* chat-session.ts, per window; 0 is no file
  open,         \* windows with a chat session
  sessionFile, ask,
  \* stats.ts: the collector of each window
  turns,
  \* stats-store.ts
  sessions,     \* per file: its turns, and the window whose collector has the same array, 0 for none
  order, dirty, timer, writes,
  \* the files on disk
  tmp, file,
  \* pi, per window, and the session files
  piFile, streaming, made, deleted, deleting,
  \* bounds
  ended, moves, troubles,
  \* history
  loaded,       \* windows whose collector holds what is stored for its session file
  recorded,     \* per file: turns saved in this run, since the file was last evicted or forgotten
  contested,    \* files with an entry that another collector may have overwritten, or that was deleted in use
  excused,      \* why the file may not say what memory says: "failed", "unnamed", "overlap"
  changed       \* the store was changed in this run

chatVars == <<open, sessionFile, ask, turns>>
storeVars == <<sessions, order, dirty, timer>>
diskVars == <<writes, tmp, file>>
piVars == <<piFile, streaming, made>>
historyVars == <<loaded, recorded, contested, excused, changed>>
deleteVars == <<deleted, deleting>>
vars == <<running, chatVars, storeVars, diskVars, piVars, deleteVars, ended, moves, troubles, historyVars>>

TypeOK ==
  /\ running \in BOOLEAN /\ open \subseteq Windows
  /\ sessionFile \in [Windows -> {0} \cup Files] /\ ask \in [Windows -> Asks]
  /\ turns \in [Windows -> Seq(Turns)]
  /\ DOMAIN sessions \subseteq Files
  /\ \A f \in DOMAIN sessions : sessions[f] \in [turns : Seq(Turns), of : {0} \cup Windows]
  /\ order \in Seq(Files) /\ dirty \in BOOLEAN /\ timer \in BOOLEAN
  /\ \A i \in Writes : writes[i].st \in {"none", "writing", "written"}
  /\ piFile \in [Windows -> {0} \cup Files] /\ streaming \subseteq open
  /\ made \in 0..MaxFiles /\ deleted \subseteq 1..made /\ deleting \subseteq deleted
  /\ ended \in 0..MaxTurns /\ moves \in 0..MaxMoves /\ troubles \in 0..MaxTroubles
  /\ excused \subseteq {"failed", "unnamed", "overlap"}

Trouble == troubles < MaxTroubles /\ troubles' = troubles + 1

Nothing == [f \in {} |-> 0]

Init ==
  /\ running = TRUE /\ open = {}
  /\ sessionFile = [w \in Windows |-> 0] /\ ask = [w \in Windows |-> NoAsk]
  /\ turns = [w \in Windows |-> <<>>]
  /\ sessions = Nothing /\ order = <<>> /\ dirty = FALSE /\ timer = FALSE
  /\ writes = [i \in Writes |-> NoWrite] /\ tmp = NoFile /\ file = NoFile
  /\ piFile = [w \in Windows |-> 0] /\ streaming = {} /\ made = 0
  /\ deleted = {} /\ deleting = {}
  /\ ended = 0 /\ moves = 0 /\ troubles = 0
  /\ loaded = {} /\ recorded = [f \in Files |-> {}] /\ contested = {}
  /\ excused = {} /\ changed = FALSE

--------------------------------------------------------------------------------
(* stats-store.ts *)

\* mutant of Schedule: no timer while a write is under way
ScheduleUnlessBusy ==
  dirty' = TRUE /\ timer' = (timer \/ \A i \in Writes : writes[i].st = "none") /\ changed' = TRUE

Schedule == dirty' = TRUE /\ timer' = TRUE /\ changed' = TRUE

\* evict
Evicted(s) == IF Len(s) > MaxSessions THEN Tail(s) ELSE s

\* the order without f, which it names at most once
Without(s, f) == RemoveFirst(s, f)

\* save: `kept` are the entries so far
Save(kept, f, entry) ==
  /\ order' = Evicted(Append(Without(order, f), f))
  /\ sessions' = [g \in Range(order') |-> IF g = f THEN entry ELSE kept[g]]
  /\ Schedule

Forget(f) ==
  /\ sessions' = [g \in DOMAIN sessions \ {f} |-> sessions[g]]
  /\ order' = Without(order, f)
  /\ Schedule

\* The entries, when the collectors of the windows in W take other arrays.
Released(entries, W) ==
  [f \in DOMAIN entries |-> IF entries[f].of \in W THEN [entries[f] EXCEPT !.of = 0] ELSE entries[f]]

\* mutant of LoadStatsFor: an open window takes nothing
LoadStatsForNothing(w, f) == UNCHANGED <<turns, sessions>>

\* The window's collector takes the turns stored for f; without any it keeps those it has.
LoadStatsFor(w, f) ==
  IF f \in DOMAIN sessions
    THEN /\ turns' = [turns EXCEPT ![w] = sessions[f].turns]
         /\ sessions' = Released(sessions, {w})
    ELSE UNCHANGED <<turns, sessions>>

Text == [f \in DOMAIN sessions |-> sessions[f].turns]
Busy == {i \in Writes : writes[i].st # "none"}

\* mutant of TimerFires: the published file is written in place
TimerFiresInPlace ==
  /\ running /\ timer /\ dirty /\ Busy # Writes
  /\ timer' = FALSE /\ dirty' = FALSE
  /\ LET i == CHOOSE j \in Writes \ Busy : TRUE
     IN writes' = [writes EXCEPT ![i] = [st |-> "writing", text |-> Text, at |-> "file"]]
  /\ file' = Torn
  /\ excused' = (excused \cap {"overlap"}) \cup (IF Busy = {} THEN {} ELSE {"overlap"})
  /\ UNCHANGED <<running, chatVars, sessions, order, tmp, piVars, deleteVars, ended, moves, troubles, loaded, recorded, contested, changed>>

\* The timer's callback: persist, up to the opening of the temporary file, which empties it.
TimerFires ==
  /\ running /\ timer /\ Busy # Writes
  /\ timer' = FALSE /\ dirty' = FALSE
  /\ IF dirty
       THEN /\ LET i == CHOOSE j \in Writes \ Busy : TRUE
               IN writes' = [writes EXCEPT ![i] = [st |-> "writing", text |-> Text, at |-> "tmp"]]
            /\ tmp' = Torn
            /\ excused' = (excused \cap {"overlap"}) \cup (IF Busy = {} THEN {} ELSE {"overlap"})
       ELSE UNCHANGED <<writes, tmp, excused>>
  /\ UNCHANGED <<running, chatVars, sessions, order, file, piVars, deleteVars, ended, moves, troubles, loaded, recorded, contested, changed>>

\* writeFile writes the text into what it opened: the temporary file, or the published one
\* when another write was renamed meanwhile, or one that has no name any more.
WritesText(i) ==
  LET text == Whole(writes[i].text)
      shared == \E j \in Busy \ {i} : writes[j].at = writes[i].at
  IN /\ writes[i].st = "writing"
     /\ \E content \in IF shared THEN {text, Torn} ELSE {text} :
          CASE writes[i].at = "tmp" -> tmp' = content /\ UNCHANGED file
            [] writes[i].at = "file" -> file' = content /\ UNCHANGED tmp
            [] OTHER -> UNCHANGED <<tmp, file>>
     /\ writes' = [writes EXCEPT ![i].st = "written"]

Moved(i, j) ==
  IF i = j THEN NoWrite
  ELSE IF writes[j] = NoWrite THEN NoWrite
  ELSE [writes[j] EXCEPT !.at = IF @ = "tmp" THEN "file" ELSE "gone"]

Renames(i) ==
  /\ writes[i].st = "written" /\ tmp # NoFile
  /\ file' = tmp /\ tmp' = NoFile
  /\ writes' = [j \in Writes |-> Moved(i, j)]

\* The rename of a file that another write has renamed.
RenameFails(i) ==
  /\ writes[i].st = "written" /\ tmp = NoFile
  /\ writes' = [writes EXCEPT ![i] = NoWrite]
  /\ UNCHANGED <<tmp, file>>

WriteStep ==
  /\ running
  /\ \E i \in Busy : WritesText(i) \/ Renames(i) \/ RenameFails(i)
  /\ UNCHANGED <<running, chatVars, storeVars, piVars, deleteVars, ended, moves, troubles, historyVars>>

\* A full or locked disk: the failure is logged, and nothing is written until the next change.
WriteFails ==
  /\ running /\ Trouble
  /\ \E i \in Busy : writes[i].st = "writing" /\ writes' = [writes EXCEPT ![i] = NoWrite]
  /\ excused' = excused \cup {"failed"}
  /\ UNCHANGED <<running, chatVars, storeVars, tmp, file, piVars, deleteVars, ended, moves, loaded, recorded, contested, changed>>

--------------------------------------------------------------------------------
(* chat-session.ts *)

Step(w) == running /\ w \in open
Move == moves < MaxMoves /\ moves' = moves + 1
Live == 1..made \ deleted
InUse(w, f) == f \in {sessionFile[w], piFile[w]} \/ (ask[w] # NoAsk /\ ask[w].file = f)

\* A window, the lowest that is free, opens on a stored session, or on a new one, and hydrates; its pi makes the file now or later.
OpenWindow(w, f) ==
  /\ running /\ w \notin open /\ (\A v \in Windows \ open : w <= v) /\ Move
  /\ \/ f = 0 /\ made' = made
     \/ f \in Live /\ (\A v \in open : sessionFile[v] # f) /\ made' = made
  /\ open' = open \cup {w}
  /\ sessionFile' = [sessionFile EXCEPT ![w] = f] /\ piFile' = [piFile EXCEPT ![w] = f]
  /\ ask' = [ask EXCEPT ![w] = NoAsk] /\ turns' = [turns EXCEPT ![w] = <<>>]
  /\ loaded' = loaded \ {w}
  /\ UNCHANGED <<running, storeVars, diskVars, streaming, deleteVars, ended, troubles, recorded, contested, excused, changed>>

\* dispose; the turns of the collector stay in the entries that share them.
CloseWindow(w) ==
  /\ Step(w)
  /\ open' = open \ {w} /\ streaming' = streaming \ {w} /\ loaded' = loaded \ {w}
  /\ ask' = [ask EXCEPT ![w] = NoAsk]
  /\ sessionFile' = [sessionFile EXCEPT ![w] = 0] /\ piFile' = [piFile EXCEPT ![w] = 0]
  /\ turns' = [turns EXCEPT ![w] = <<>>] /\ sessions' = Released(sessions, {w})
  /\ UNCHANGED <<running, order, dirty, timer, diskVars, made, deleteVars, ended, moves, troubles, recorded, contested, excused, changed>>

Asked(w, f, loads) == ask' = [ask EXCEPT ![w] = [st |-> "asked", file |-> f, loads |-> loads]]

\* get_state of a hydration
Hydrates(w) ==
  /\ Step(w) /\ ask[w] = NoAsk
  /\ Asked(w, piFile[w], TRUE)
  /\ UNCHANGED <<running, open, sessionFile, turns, storeVars, diskVars, piVars, deleteVars, ended, moves, troubles, historyVars>>

\* hydrate and switchTo load the file's entry; fork, revert, rename and a settle only take its name.
Answered(w) ==
  /\ Step(w) /\ ask[w] # NoAsk
  /\ ask' = [ask EXCEPT ![w] = NoAsk]
  /\ sessionFile' = [sessionFile EXCEPT ![w] = ask[w].file]
  /\ IF ask[w].loads /\ ask[w].file # 0
       THEN LoadStatsFor(w, ask[w].file) /\ loaded' = loaded \cup {w}
       ELSE /\ UNCHANGED <<turns, sessions>>
            /\ loaded' = IF ask[w].file = sessionFile[w] THEN loaded ELSE loaded \ {w}
  /\ UNCHANGED <<running, open, order, dirty, timer, diskVars, piVars, deleteVars, ended, moves, troubles, recorded, contested, excused, changed>>

\* One of the requests of a hydration or a command failed: the answer is not used.
AskFails(w) ==
  /\ Step(w) /\ ask[w] # NoAsk /\ Trouble
  /\ ask' = [ask EXCEPT ![w] = NoAsk]
  /\ UNCHANGED <<running, open, sessionFile, turns, storeVars, diskVars, piVars, deleteVars, ended, moves, historyVars>>

\* A prompt begins a turn (beginTurn), and pi an agent run; pi has a file by then.
Prompts(w) ==
  /\ Step(w) /\ w \notin streaming /\ ended < MaxTurns
  /\ streaming' = streaming \cup {w}
  /\ IF piFile[w] = 0
       THEN /\ made < MaxFiles /\ made' = made + 1
            /\ piFile' = [piFile EXCEPT ![w] = made']
       ELSE UNCHANGED <<made, piFile>>
  /\ UNCHANGED <<running, chatVars, storeVars, diskVars, deleteVars, ended, moves, troubles, historyVars>>

\* The entries after the push of turn n onto the window's array.
Pushed(w, n) ==
  [f \in DOMAIN sessions |->
     IF sessions[f].of = w THEN [sessions[f] EXCEPT !.turns = Append(turns[w], n)] ELSE sessions[f]]

\* What the store must still hold, after turn n of the window was saved under f.
Recorded(f, n) ==
  [g \in Files |-> IF g = f THEN recorded[g] \cup {n} ELSE IF g \in Range(order') THEN recorded[g] ELSE {}]

\* agent_settled: endTurn and persistStats, then the file's name if it has none yet.
Settles(w) ==
  LET f == sessionFile[w]
      n == ended + 1
      settled == Append(turns[w], n)
  IN /\ Step(w) /\ w \in streaming /\ ended < MaxTurns
     /\ streaming' = streaming \ {w}
     /\ turns' = [turns EXCEPT ![w] = settled] /\ ended' = n
     /\ IF f # 0
          THEN /\ Save(Pushed(w, n), f, [turns |-> settled, of |-> w])
               /\ recorded' = Recorded(f, n)
               /\ contested' = IF f \in DOMAIN sessions /\ (w \notin loaded \/ \E v \in open \ {w} : InUse(v, f))
                                 THEN contested \cup {f} ELSE contested
               /\ loaded' = loaded \ {v \in open \ {w} : InUse(v, f)}
               /\ UNCHANGED <<ask, excused>>
          ELSE /\ sessions' = Pushed(w, n)
               /\ excused' = IF sessions' # sessions THEN excused \cup {"unnamed"} ELSE excused
               /\ IF ask[w] = NoAsk THEN Asked(w, piFile[w], FALSE) ELSE UNCHANGED ask
               /\ UNCHANGED <<order, dirty, timer, changed, recorded, contested, loaded>>
     /\ UNCHANGED <<running, open, sessionFile, diskVars, piFile, made, deleteVars, moves, troubles>>

\* newSession, switchTo and fork, each refused during a turn: pi moves to g, and is asked for its
\* state.
MovesTo(w, g, loads) ==
  /\ Step(w) /\ w \notin streaming /\ ask[w] = NoAsk /\ Move
  /\ piFile' = [piFile EXCEPT ![w] = g]
  /\ Asked(w, g, loads)
  /\ UNCHANGED <<running, open, sessionFile, turns, storeVars, diskVars, streaming, deleteVars, ended, troubles, historyVars>>

NewSession(w) ==
  \/ MovesTo(w, 0, TRUE) /\ made' = made
  \/ made < MaxFiles /\ made' = made + 1 /\ MovesTo(w, made', TRUE)

SwitchTo(w, f) == f \in Live /\ made' = made /\ MovesTo(w, f, TRUE)

Fork(w) == piFile[w] # 0 /\ made < MaxFiles /\ made' = made + 1 /\ MovesTo(w, made', FALSE)

\* /name, a rename and a revert, which leave pi where it is and take the file's name
Names(w) ==
  /\ Step(w) /\ ask[w] = NoAsk /\ Move
  /\ Asked(w, piFile[w], FALSE)
  /\ UNCHANGED <<running, open, sessionFile, turns, storeVars, diskVars, piVars, deleteVars, ended, troubles, historyVars>>

--------------------------------------------------------------------------------
(* main.ts *)

\* "pi:session-op" delete: only the sender's own session is asked whether it is in use.
DeletesFile(w, f) ==
  /\ Step(w) /\ f \in Live /\ sessionFile[w] # f /\ Move
  /\ deleted' = deleted \cup {f} /\ deleting' = deleting \cup {f}
  /\ contested' = IF \E v \in open : InUse(v, f) THEN contested \cup {f} ELSE contested
  /\ UNCHANGED <<running, chatVars, storeVars, diskVars, piVars, ended, troubles, loaded, recorded, excused, changed>>

Forgets(f) ==
  /\ running /\ f \in deleting
  /\ deleting' = deleting \ {f}
  /\ Forget(f) /\ recorded' = [recorded EXCEPT ![f] = {}]
  /\ UNCHANGED <<running, chatVars, diskVars, piVars, deleted, ended, moves, troubles, loaded, contested, excused>>

\* The application ends, with what it was doing; nobody flushes the store.
Quits ==
  /\ running /\ Trouble
  /\ running' = FALSE
  /\ open' = {} /\ streaming' = {} /\ loaded' = {} /\ deleting' = {}
  /\ sessionFile' = [w \in Windows |-> 0] /\ piFile' = sessionFile'
  /\ ask' = [w \in Windows |-> NoAsk] /\ turns' = [w \in Windows |-> <<>>]
  /\ sessions' = Nothing /\ order' = <<>> /\ dirty' = FALSE /\ timer' = FALSE
  /\ writes' = [i \in Writes |-> NoWrite]
  /\ recorded' = [f \in Files |-> {}] /\ contested' = {} /\ changed' = FALSE
  /\ excused' = excused \cap {"overlap"}
  /\ UNCHANGED <<tmp, file, made, deleted, ended, moves>>

\* main.ts makes the store, and reads nothing into it.
Starts ==
  /\ ~running
  /\ running' = TRUE
  /\ UNCHANGED <<chatVars, storeVars, diskVars, piVars, deleteVars, ended, moves, troubles, historyVars>>

Next ==
  \/ TimerFires \/ WriteStep \/ WriteFails \/ Quits \/ Starts
  \/ \E w \in Windows :
       \/ CloseWindow(w) \/ Answered(w) \/ AskFails(w)
       \/ Hydrates(w) \/ Prompts(w) \/ Settles(w) \/ NewSession(w) \/ Fork(w) \/ Names(w)
       \/ \E f \in {0} \cup Files : OpenWindow(w, f)
       \/ \E f \in Files : SwitchTo(w, f) \/ DeletesFile(w, f)
  \/ \E f \in Files : Forgets(f)

\* The timer goes off, and every step of a write ends or fails; nobody has to prompt or quit.
Fairness == WF_vars(TimerFires) /\ WF_vars(WriteStep)

Spec == Init /\ [][Next]_vars /\ Fairness

--------------------------------------------------------------------------------
(* Properties *)

InFile(f, n) == file.st = "whole" /\ f \in DOMAIN file.text /\ n \in Range(file.text[f])

\* The order of eviction names exactly the sessions that are stored, each once, the least
\* recently saved first, and no more than the store may keep.
OrderIsStore ==
  /\ Range(order) = DOMAIN sessions /\ IsInjective(order)
  /\ Len(order) <= MaxSessions

\* A deleted session stays forgotten, unless a window had it open when it was deleted.
DeletedStaysForgotten ==
  \A f \in deleted \ (deleting \cup contested) : f \notin DOMAIN sessions

\* Whatever the windows load, switch to and save, a turn that was saved stays in its session's
\* entry until the entry is evicted or forgotten, or the application ends (Quits: what the next
\* start finds is the file's, FileIsTrue); only a save from another window of the session, or
\* before the window had loaded it, may lose it.  The turns of another session may come along:
\* the collector's array is the store's own.
RecordedIsKept ==
  \A f \in DOMAIN sessions \ contested :
    recorded[f] \subseteq Range(sessions[f].turns)

\* The store remembers what it was told.
StoreIsTrue == TypeOK /\ OrderIsStore /\ DeletedStaysForgotten /\ RecordedIsKept

\* A crash at any step leaves a whole file (stats-store.ts, persist), unless two writes were
\* under way at once; and when nothing is pending or failed, the file says what memory says.
FileIsTrue ==
  /\ file = Torn => "overlap" \in excused
  /\ (running /\ changed /\ ~timer /\ Busy = {} /\ excused = {}) => file = Whole(Text)

\* Again and again every saved turn is in the file, unless it was evicted or forgotten, another
\* window of its session saved over it (`contested`), the application ended, or a write failed or
\* met another.
TurnsReachTheFile ==
  []<>(~running \/ excused # {}
         \/ \A f \in Files \ contested : \A n \in recorded[f] : InFile(f, n))
================================================================================
