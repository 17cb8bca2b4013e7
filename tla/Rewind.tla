-------------------------------- MODULE Rewind --------------------------------
(***************************************************************************)
(* studio/bridge/rewind-code.ts, the extension in pi that snapshots every   *)
(* file an edit or write call touches, so that the files can be taken back  *)
(* with the conversation or to the state the user last accepted; and the    *)
(* chat's Revert, which is to start it.                                    *)
(*                                                                         *)
(* A file's state is one value, content and mode together; its snapshot has *)
(* the same name.  The conversation is a tree of user messages, numbered as *)
(* they are appended; a message's number is above its ancestors'.  Files    *)
(* are also changed from outside: by bash, or by the user's editor; and     *)
(* some cannot be read for a while, which the extension takes for absence.  *)
(***************************************************************************)
EXTENDS Naturals, Sequences, FiniteSets, FiniteSetsExt

CONSTANTS
  Files,
  Contents,    \* states of a file that can be snapshotted
  Absent, Big, \* no file; a file that is too large or not regular
  Calls,       \* tool calls that may be in flight together
  MaxEntries,  \* bound: user messages
  MaxChanges,  \* bound: edit and write calls
  MaxTroubles, \* bound: changes from outside, unreadable files, snapshots swept or not written,
               \* restarts of tracking
  None

Entries == 1..MaxEntries
States == Contents \cup {Absent, Big}

ASSUME RewindAssumption ==
  /\ Absent \notin Contents /\ Big \notin Contents /\ Absent # Big /\ None \notin States
  /\ None \notin Files /\ None \notin [at : Entries, before : States]
  /\ MaxEntries \in Nat /\ MaxChanges \in Nat /\ MaxTroubles \in Nat

VARIABLES
  disk,     \* per file: its state
  hidden,   \* the files that cannot be stat'ed or read
  store,    \* the snapshots in ~/.pi/snapshots/<session>
  entries,  \* how many user messages were appended
  path,     \* per message: itself and its ancestors
  branch,   \* the messages of the active branch
  turn,     \* "idle", "sent" (no tool call yet) or "streaming"
  target,   \* per call in flight: its file
  ran,      \* the calls in flight that have run
  pending,  \* pendingBefore: per call, the message it belongs to and the file's state
  history,  \* fileHistory: per file, its changes in the order of their results
  baselines,
  widget,   \* the files the widget lists
  changes, troubles, \* bounds
  \* history
  sent,     \* per message: the disk when it was sent
  mark,     \* per file: its state when it was last accepted, or when tracking (re)started
  lost,     \* snapshots that were swept or not written
  floor,    \* how many messages there were when tracking last restarted
  unsure,   \* files that changed outside, in overlapping calls or out of sight since the last refresh
  foreign,  \* files that did so since their mark, or were too large then
  tangled   \* files that the changes recorded on the branch do not explain

ghosts == <<sent, mark, lost, floor, unsure, foreign, tangled>>
treeVars == <<entries, path, branch>>
vars == <<disk, hidden, store, treeVars, turn, target, ran, pending, history, baselines, widget,
          changes, troubles, ghosts>>

Change == [at : Entries, before : Contents \cup {Absent}, after : Contents \cup {Absent}]

TypeOK ==
  /\ disk \in [Files -> States] /\ hidden \subseteq Files /\ store \subseteq Contents
  /\ entries \in 0..MaxEntries
  /\ path \in [Entries -> SUBSET Entries]
  /\ branch \in SUBSET (1..entries)
  /\ turn \in {"idle", "sent", "streaming"}
  /\ target \in [Calls -> Files \cup {None}] /\ ran \subseteq Calls
  /\ pending \in [Calls -> [at : Entries, before : States] \cup {None}]
  /\ history \in [Files -> Seq(Change)]
  /\ baselines \in [Files -> Contents \cup {Absent, None}]
  /\ widget \subseteq Files
  /\ changes \in 0..MaxChanges /\ troubles \in 0..MaxTroubles
  /\ sent \in [Entries -> [Files -> States]] /\ mark \in [Files -> States]
  /\ lost \subseteq Contents /\ floor \in 0..MaxEntries
  /\ unsure \subseteq Files /\ foreign \subseteq Files /\ tangled \subseteq Files

Init ==
  /\ disk \in [Files -> Contents \cup {Absent}]
  /\ hidden = {} /\ store = {}
  /\ entries = 0 /\ path = [e \in Entries |-> {}] /\ branch = {}
  /\ turn = "idle" /\ target = [c \in Calls |-> None] /\ ran = {}
  /\ pending = [c \in Calls |-> None]
  /\ history = [f \in Files |-> <<>>] /\ baselines = [f \in Files |-> None]
  /\ widget = {}
  /\ changes = 0 /\ troubles = 0
  /\ sent = [e \in Entries |-> disk] /\ mark = disk /\ lost = {} /\ floor = 0
  /\ unsure = {} /\ foreign = {} /\ tangled = {}

--------------------------------------------------------------------------------
\* Snapshots, the widget

InFlight == {c \in Calls : target[c] # None}
Tracked == {f \in Files : history[f] # <<>>}

\* Mutant: a file is hashed, not stored.
ReadsOnly(states) == UNCHANGED <<store, lost, troubles>>

\* readSnapshot: a file that cannot be stat'ed or hashed is taken for absent.
Seen(d, h) == [f \in Files |-> IF f \in h THEN Absent ELSE d[f]]
seen == Seen(disk, hidden)

\* readSnapshot, persist: reading a file stores its content; a failure to is ignored.
Reads(states) ==
  LET S == states \cap Contents IN
  \/ store' = store \cup S /\ lost' = lost \ S /\ UNCHANGED troubles
  \/ /\ troubles < MaxTroubles /\ S \ store # {}
     /\ troubles' = troubles + 1 /\ lost' = lost \cup (S \ store) /\ UNCHANGED store

\* buildWidgetData: the files that are seen to be not as their baseline.
Changed(files, s, b) == {f \in files : s[f] # Big /\ s[f] # b[f]}

\* Mutant: a file that is back at its baseline stays listed.
RefreshKeeping(tracked, d, h, b, calls) ==
  /\ widget' = widget \cup Changed(tracked, Seen(d, h), b)
  /\ unsure' = {f \in unsure : f \in h \/ d[f] = Big \/ \E c \in calls : target[c] = f}

\* refreshWidget, with the calls in flight after the step.
Refresh(tracked, d, h, b, calls) ==
  /\ widget' = Changed(tracked, Seen(d, h), b)
  /\ unsure' = {f \in unsure : f \in h \/ d[f] = Big \/ \E c \in calls : target[c] = f}

--------------------------------------------------------------------------------
\* The conversation and the agent's calls

NewEntry(e) ==
  /\ entries' = e
  /\ path' = [path EXCEPT ![e] = branch \cup {e}]
  /\ branch' = branch \cup {e}
  /\ sent' = [sent EXCEPT ![e] = disk]

\* A user message is appended: a prompt, or a steering message between two tool batches.  The chat's
\* revert is no more than that: the command it prompts pi with is one of an extension that this
\* application does not load, and pi takes it for a message.
Send ==
  /\ entries < MaxEntries /\ InFlight = {}
  /\ NewEntry(entries + 1)
  /\ turn' = IF turn = "idle" THEN "sent" ELSE turn
  /\ UNCHANGED <<disk, hidden, store, target, ran, pending, history, baselines, widget, changes,
                 troubles, mark, lost, floor, unsure, foreign, tangled>>

\* tool_call of an edit or write.
ToolCall(c, f) ==
  /\ turn # "idle" /\ target[c] = None /\ changes < MaxChanges
  /\ changes' = changes + 1
  /\ turn' = "streaming"
  /\ target' = [target EXCEPT ![c] = f]
  /\ pending' = [pending EXCEPT ![c] = [at |-> entries, before |-> seen[f]]]
  /\ Reads({seen[f]})
  /\ LET overlaps == \E d \in InFlight : target[d] = f
     IN /\ unsure' = IF overlaps THEN unsure \cup {f} ELSE unsure
        /\ foreign' = IF overlaps THEN foreign \cup {f} ELSE foreign
        /\ tangled' = IF overlaps THEN tangled \cup {f} ELSE tangled
  /\ UNCHANGED <<disk, hidden, treeVars, ran, history, baselines, widget, sent, mark, floor>>

\* pi runs the call: the file is written, or the call fails.
Runs(c) ==
  /\ c \in InFlight \ ran
  /\ ran' = ran \cup {c}
  /\ \E s \in Contents \cup {disk[target[c]]} : disk' = [disk EXCEPT ![target[c]] = s]
  /\ UNCHANGED <<hidden, store, treeVars, turn, target, pending, history, baselines, widget,
                 changes, troubles, ghosts>>

Ended(c) ==
  /\ target' = [target EXCEPT ![c] = None]
  /\ ran' = ran \ {c}
  /\ pending' = [pending EXCEPT ![c] = None]

\* The change is recorded; b becomes the file's baseline.
Recording(c, b) ==
  LET f == target[c] p == pending[c] IN
  /\ history' = [history EXCEPT ![f] = Append(@, [at |-> p.at, before |-> p.before, after |-> seen[f]])]
  /\ baselines' = [baselines EXCEPT ![f] = b]
  /\ Reads({seen[g] : g \in Tracked \cup {f}})
  /\ Refresh(Tracked \cup {f}, disk, hidden, baselines', InFlight \ {c})

FirstBaseline(c) == IF baselines[target[c]] = None THEN pending[c].before ELSE baselines[target[c]]

\* A change that can be recorded.
Differs(c) ==
  LET f == target[c] IN pending[c].before # Big /\ seen[f] # Big /\ pending[c].before # seen[f]

\* The result of a call that changed its file.
Records(c) == Differs(c) /\ Recording(c, FirstBaseline(c))

\* tool_result.
ToolResult(c) ==
  /\ c \in ran
  /\ Ended(c)
  /\ \/ Records(c)
     \/ /\ ~Differs(c)
        /\ IF pending[c].before = Big THEN UNCHANGED <<store, lost, troubles>> ELSE Reads({seen[target[c]]})
        /\ UNCHANGED <<history, baselines, widget, unsure>>
  /\ UNCHANGED <<disk, hidden, treeVars, turn, changes, sent, mark, floor, foreign, tangled>>

TurnEnds ==
  /\ turn # "idle" /\ InFlight = {}
  /\ turn' = "idle"
  /\ UNCHANGED <<disk, hidden, store, treeVars, target, ran, pending, history, baselines, widget,
                 changes, troubles, ghosts>>

\* bash, or the user's editor, changes a file.
Outside(f) ==
  /\ troubles < MaxTroubles
  /\ troubles' = troubles + 1
  /\ \E s \in States \ {disk[f]} : disk' = [disk EXCEPT ![f] = s]
  /\ unsure' = unsure \cup {f} /\ foreign' = foreign \cup {f} /\ tangled' = tangled \cup {f}
  /\ UNCHANGED <<hidden, store, treeVars, turn, target, ran, pending, history, baselines, widget,
                 changes, sent, mark, lost, floor>>

\* A file, or its directory, loses its permissions or its volume, and gets them back.
Hides(f) ==
  /\ troubles < MaxTroubles /\ f \notin hidden
  /\ troubles' = troubles + 1
  /\ hidden' = hidden \cup {f}
  /\ unsure' = unsure \cup {f} /\ foreign' = foreign \cup {f} /\ tangled' = tangled \cup {f}
  /\ UNCHANGED <<disk, store, treeVars, turn, target, ran, pending, history, baselines, widget,
                 changes, sent, mark, lost, floor>>

Shows(f) ==
  /\ f \in hidden
  /\ hidden' = hidden \ {f}
  /\ UNCHANGED <<disk, store, treeVars, turn, target, ran, pending, history, baselines, widget,
                 changes, troubles, ghosts>>

--------------------------------------------------------------------------------
\* Rewinding

\* buildOrderMap leaves only the changes at messages of the active branch.  It reverses getBranch,
\* which is from the root to the leaf: a message's position falls as its number rises.
At(f, A) == {i \in DOMAIN history[f] : history[f][i].at \in A}
OnBranch(f) == At(f, branch)
Places(f) == {history[f][i].at : i \in OnBranch(f)}
FirstAt(f, e) == history[f][Min({i \in OnBranch(f) : history[f][i].at = e})]

\* countAffected: the files changed at the message or at an ancestor of it.
Affected(e) == {f \in Files : \E a \in Places(f) : a <= e}

\* Mutant: of several changes at the target, the last is undone.
RestoreLast(f, e) ==
  LET later == {a \in Places(f) : a > e} IN
  IF e \in Places(f) THEN history[f][Max({i \in OnBranch(f) : history[f][i].at = e})].before
  ELSE IF later # {} THEN FirstAt(f, Min(later)).after
  ELSE FirstAt(f, Max(Places(f))).before

\* restoreToEntry: what the file is taken back to.  By the reversed positions, its last change
\* "before" the target is the next one after it, and its "earliest" the last of the branch.  Of
\* several changes at one message the first is found, whether its before or its after is asked for.
RestorePoint(f, e) ==
  LET later == {a \in Places(f) : a > e} IN
  IF e \in Places(f) THEN FirstAt(f, e).before
  ELSE IF later # {} THEN FirstAt(f, Min(later)).after
  ELSE FirstAt(f, Max(Places(f))).before

\* A file can be given a state if the state is none or has a snapshot.
Restorable(s) == s = Absent \/ s \in store

\* restoreToEntry: a file that cannot be restored is left as it is.
Restorables(e) == {f \in Affected(e) : Restorable(RestorePoint(f, e))}
Restored(e, done) == [f \in Files |-> IF f \in done THEN RestorePoint(f, e) ELSE disk[f]]

\* Writing to a file that cannot be read may fail, or make it readable.
Writes(files, done) ==
  /\ done \subseteq files /\ files \ done \subseteq hidden
  /\ \E shown \in SUBSET (done \cap hidden) : hidden' = hidden \ shown

BranchBefore(e) == path[e] \ {e}

\* maybeRevert, "message+code", and pi's move to before the message.
RewindCode(e) ==
  /\ turn = "idle" /\ e \in branch /\ Affected(e) # {}
  /\ \E done \in SUBSET Restorables(e) :
       /\ Writes(Restorables(e), done)
       /\ disk' = Restored(e, done)
       /\ tangled' = tangled \cup {f \in Files : Places(f) # {} /\ ~(e \in Places(f) /\ f \in done)}
  /\ branch' = BranchBefore(e)
  /\ Reads({seen'[f] : f \in Tracked})
  /\ Refresh(Tracked, disk', hidden', baselines, {})
  /\ UNCHANGED <<entries, path, turn, target, ran, pending, history, baselines, changes,
                 sent, mark, floor, foreign>>

\* maybeRevert otherwise: "message-only", a message of another branch, no affected file.
\* The changes that the new branch does not know of stay on the disk.
RewindMessage(e) ==
  /\ turn = "idle" /\ e \in 1..entries
  /\ branch' = BranchBefore(e)
  /\ tangled' = tangled \cup {f \in Files : OnBranch(f) # At(f, BranchBefore(e))}
  /\ UNCHANGED <<disk, hidden, store, entries, path, turn, target, ran, pending, history, baselines,
                 widget, changes, troubles, sent, mark, lost, floor, unsure, foreign>>

--------------------------------------------------------------------------------
\* The widget's commands, which the host sends while it sees no turn

Idle == turn \in {"idle", "sent"}

\* rewind-accept and rewind-accept-file: F are the files taken as they are.
Accept(F) ==
  LET taken == {f \in F : seen[f] # Big} IN
  /\ Idle /\ taken # {}
  /\ baselines' = [f \in Files |-> IF f \in taken THEN seen[f] ELSE baselines[f]]
  /\ Reads({seen[f] : f \in Tracked})
  /\ Refresh(Tracked, disk, hidden, baselines', InFlight)
  /\ mark' = [f \in Files |-> IF f \in taken THEN disk[f] ELSE mark[f]]
  /\ foreign' = foreign \ (taken \ hidden)
  /\ UNCHANGED <<disk, hidden, treeVars, turn, target, ran, pending, history, changes,
                 sent, floor, tangled>>

AcceptAll == Accept(Tracked)
AcceptFile(f) == f \in Tracked /\ Accept({f})

\* rewind-revert and rewind-revert-file, restoreFileToBaseline.
Revert(F) ==
  LET wanted == Changed(F, seen, baselines)
      files == {f \in wanted : Restorable(baselines[f])}
  IN /\ Idle /\ wanted # {}
     /\ \E done \in SUBSET files :
          /\ Writes(files, done)
          /\ disk' = [f \in Files |-> IF f \in done THEN baselines[f] ELSE disk[f]]
          /\ Reads({seen[f] : f \in F} \cup {seen'[f] : f \in Tracked})
          /\ IF F = Tracked \/ done # {} THEN Refresh(Tracked, disk', hidden', baselines, InFlight)
                                        ELSE UNCHANGED <<widget, unsure>>
          /\ tangled' = tangled \cup done
     /\ UNCHANGED <<treeVars, turn, target, ran, pending, history, baselines, changes,
                    sent, mark, floor, foreign>>

RevertAll == Revert(Tracked)
RevertFile(f) == f \in Tracked /\ Revert({f})

--------------------------------------------------------------------------------
\* Tracking restarts; snapshots go

\* resetState.
Resets ==
  /\ history' = [f \in Files |-> <<>>]
  /\ baselines' = [f \in Files |-> None]
  /\ pending' = [c \in Calls |-> None]
  /\ widget' = {}
  /\ troubles < MaxTroubles /\ troubles' = troubles + 1
  /\ sent' = [e \in Entries |-> disk] /\ mark' = disk /\ floor' = entries /\ unsure' = hidden
  /\ foreign' = {f \in Files : disk[f] = Big} \cup hidden /\ tangled' = foreign'

\* session_compact.
Compact ==
  /\ InFlight = {} /\ Resets
  /\ UNCHANGED <<disk, hidden, store, treeVars, turn, target, ran, changes, lost>>

\* The session's pi ends and is started again: session_shutdown removes the snapshots, a
\* crash does not; session_start forgets what was tracked.
Restart ==
  /\ store' \in {{}, store}
  /\ Resets
  /\ turn' = "idle" /\ target' = [c \in Calls |-> None] /\ ran' = {} /\ lost' = {}
  /\ UNCHANGED <<disk, hidden, treeVars, changes>>

\* sweepStaleSnapshots of another session: this one has stored nothing for a day.
Swept ==
  /\ troubles < MaxTroubles /\ store # {}
  /\ troubles' = troubles + 1
  /\ store' = {} /\ lost' = lost \cup store
  /\ UNCHANGED <<disk, hidden, treeVars, turn, target, ran, pending, history, baselines, widget,
                 changes, sent, mark, floor, unsure, foreign, tangled>>

Next ==
  \/ Send \/ TurnEnds \/ Compact \/ Restart \/ Swept \/ AcceptAll \/ RevertAll
  \/ \E e \in Entries : RewindCode(e) \/ RewindMessage(e)
  \/ \E c \in Calls : Runs(c) \/ ToolResult(c) \/ \E f \in Files : ToolCall(c, f)
  \/ \E f \in Files : Outside(f) \/ Hides(f) \/ Shows(f) \/ AcceptFile(f) \/ RevertFile(f)

Spec == Init /\ [][Next]_vars

--------------------------------------------------------------------------------
\* Properties

\* What the records may ask the store for.
Recorded(f) ==
  {history[f][i].before : i \in DOMAIN history[f]} \cup {history[f][i].after : i \in DOMAIN history[f]}
    \cup {baselines[f]}
Needed == {s \in Contents : \/ \E f \in Files : s \in Recorded(f)
                            \/ \E c \in Calls : pending[c] # None /\ pending[c].before = s}

\* Every state the history, the baselines or a pending call refers to has its snapshot,
\* unless the store was swept or could not be written (readSnapshot returns the hash all
\* the same).
SnapshotsKept == Needed \ store \subseteq lost

\* Between calls the widget lists exactly the tracked files that differ from their
\* baseline, but for those that bash, the user or overlapping calls changed since it was
\* last refreshed (tool_result refreshes only when it recorded something), or that were
\* too large or could not be read then.
WidgetIsTruthful ==
  \A f \in Files \ unsure :
    (\A c \in InFlight : target[c] # f) =>
      (f \in widget <=> f \in Changed(Tracked, disk, baselines))

\* Reverting everything leaves each file as the user last accepted it, or as the agent
\* found it: what the confirmation promises.  Not for files changed outside or by
\* overlapping calls or unreadable since (a revert may delete what it could not read), nor when
\* the snapshot is gone.
RevertReturnsToMark ==
  [][RevertAll => \A f \in Files \ foreign : mark[f] \notin lost => disk'[f] = mark[f]]_vars

\* Rewinding message and code gives a file that was changed at the message the state it had when
\* the message was sent, and leaves a file that was changed nowhere on the branch as it was then.
\* A file changed only at other messages is not given back what it was, because the positions are
\* reversed: it counts as one that the rewind left changed.  Not across a compaction or restart;
\* not files changed outside or by overlapping calls, unreadable since, reverted, or left changed
\* by an earlier rewind; nor when the snapshot is gone.
RewindRestores ==
  [][\A e \in Entries : RewindCode(e) /\ e > floor =>
       \A f \in Files \ tangled :
         (Places(f) # {} => e \in Places(f)) /\ sent[e][f] \notin lost => disk'[f] = sent[e][f]]_vars

\* The snapshots that restoring will ask for are there.
NothingIsMissing == TypeOK /\ SnapshotsKept

\* What a restore or a revert promises of the files, it does.
RestoresWhatItSays == RevertReturnsToMark /\ RewindRestores
================================================================================
