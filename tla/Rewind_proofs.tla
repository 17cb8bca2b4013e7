----------------------------- MODULE Rewind_proofs -----------------------------
(***************************************************************************)
(* Proofs about Rewind for any files, contents, calls and messages: what    *)
(* the records may ask for is in the store, the widget lists what differs,  *)
(* and reverting and rewinding give back what they promise.                 *)
(*                                                                         *)
(* The argument for a rewind: the messages are a tree whose branch is one   *)
(* line (AncestorsAgree), changes are recorded in the order of their        *)
(* messages (ChangesInOrder), and a call alone on its file finds it as it   *)
(* is on the disk (CallsAreAlone).  Then one first state of a file and its  *)
(* changes explain what the file was at each message, what the first call   *)
(* after it found and what it is now (ChangesExplain); what a rewind picks   *)
(* from the first change at the message is so explained (RestoresTheState), *)
(* and so is a file without a change on the branch (NotOnBranch).  For a    *)
(* revert: a file's baseline is what it was when it was accepted or found   *)
(* (MarkIsKept).  A file that cannot be read is excused of all of it        *)
(* (HiddenIsExcused).                                                      *)
(***************************************************************************)
EXTENDS Rewind, WellFoundedInduction, TLAPS

\* A message's ancestors are older, and every turn has a message.
TreeIsOrdered ==
  /\ \A e \in Entries : path[e] \subseteq 1..e
  /\ turn # "idle" => entries # 0

\* pendingBefore holds exactly the calls in flight, and calls are in flight in a turn only.
CallsMatch ==
  /\ ran \subseteq InFlight
  /\ \A c \in Calls : target[c] # None <=> pending[c] # None
  /\ InFlight # {} => turn = "streaming"

Truthful(f) == f \in widget <=> f \in Changed(Tracked, disk, baselines)

\* A call that is alone on its file has found it as it is on the disk, or has run; if the widget
\* is wrong about the file since, its result will be recorded and refresh the widget.
AloneIsTruthful ==
  \A f \in Files \ unsure : \A c \in InFlight : target[c] = f =>
    /\ \A d \in InFlight : target[d] = f => d = c
    /\ c \notin ran => disk[f] = pending[c].before
    /\ Truthful(f) \/ Differs(c)

\* A tracked file that is too large, or that a call found so, is one the widget is unsure of.
BigIsUnsure ==
  \A f \in Tracked \ unsure :
    /\ disk[f] # Big
    /\ \A c \in InFlight : target[c] = f => pending[c].before # Big

\* A file that cannot be read is one of which nothing is promised.
HiddenIsExcused == hidden \subseteq unsure \cap foreign \cap tangled

Shapes == TypeOK /\ TreeIsOrdered /\ CallsMatch
Types == Shapes /\ HiddenIsExcused
Widget == WidgetIsTruthful /\ AloneIsTruthful /\ BigIsUnsure
IInv == Types /\ SnapshotsKept /\ Widget

Known == Contents \cup {Absent}

\* What was read is stored afterwards, or known to be lost, and nothing else is.
LEMMA ReadsKeep ==
  ASSUME NEW X, Reads(X), store \subseteq Contents, lost \subseteq Contents,
         troubles \in 0..MaxTroubles
  PROVE  /\ store \subseteq store' /\ store' \subseteq Contents
         /\ lost' \subseteq Contents /\ troubles' \in 0..MaxTroubles
         /\ X \cap Contents \subseteq store' \cup lost'
         /\ store \cup lost \subseteq store' \cup lost'
BY RewindAssumption DEF Reads

LEMMA InitShapes == Init => Shapes
<1> SUFFICES ASSUME Init PROVE Shapes
  OBVIOUS
<1> USE RewindAssumption DEF Init
<1>1. TypeOK
  <2>1. history \in [Files -> Seq(Change)]
    OBVIOUS
  <2>2. disk \in [Files -> States] /\ mark \in [Files -> States] /\ sent \in [Entries -> [Files -> States]]
    BY DEF States
  <2>3. QED BY <2>1, <2>2 DEF TypeOK
<1>2. TreeIsOrdered /\ CallsMatch
  BY DEF TreeIsOrdered, CallsMatch, InFlight
<1>3. QED BY <1>1, <1>2 DEF Shapes

\* What is seen of a file is a state, and of one that can be read its own.
LEMMA SeenIsState ==
  ASSUME TypeOK
  PROVE  /\ seen \in [Files -> States]
         /\ \A f \in Files : f \notin hidden => seen[f] = disk[f]
BY RewindAssumption DEF TypeOK, seen, Seen, States

\* A message is appended.
LEMMA SendShapes == Shapes /\ Send => Shapes'
<1> SUFFICES ASSUME Shapes, Send PROVE Shapes'
  OBVIOUS
<1> USE RewindAssumption DEF Shapes, Send, NewEntry
<1> DEFINE e == entries + 1
<1>1. e \in Entries /\ entries \in Nat
  BY DEF TypeOK, Entries
<1>2. branch \cup {e} \in SUBSET (1..e)
  BY <1>1 DEF TypeOK
<1>3. 1..e \subseteq Entries
  BY <1>1 DEF Entries
<1>4. TypeOK'
  <2>1. path' \in [Entries -> SUBSET Entries] /\ branch' \in SUBSET (1..entries')
    BY <1>1, <1>2, <1>3 DEF TypeOK
  <2>2. sent' \in [Entries -> [Files -> States]]
    BY <1>1 DEF TypeOK
  <2>3. entries' \in 0..MaxEntries
    BY <1>1 DEF Entries
  <2>4. QED BY <2>1, <2>2, <2>3 DEF TypeOK
<1>5. TreeIsOrdered'
  BY <1>1, <1>2 DEF TreeIsOrdered, TypeOK
<1>6. CallsMatch'
  BY DEF CallsMatch, InFlight
<1>7. QED BY <1>4, <1>5, <1>6

\* A call begins, runs, and ends.
LEMMA ToolCallShapes ==
  ASSUME Shapes, NEW c \in Calls, NEW f \in Files, ToolCall(c, f)
  PROVE  Shapes'
<1> USE RewindAssumption DEF Shapes, ToolCall, treeVars
<1>1. entries \in Entries
  BY DEF TypeOK, TreeIsOrdered, Entries
<1>2. seen[f] \in States
  BY SeenIsState
<1>3. [at |-> entries, before |-> seen[f]] \in [at : Entries, before : States]
  BY <1>1, <1>2
<1>4. /\ store' \subseteq Contents /\ lost' \subseteq Contents /\ troubles' \in 0..MaxTroubles
  BY ReadsKeep DEF TypeOK
<1>5. pending' \in [Calls -> [at : Entries, before : States] \cup {None}]
  BY <1>3 DEF TypeOK
<1>6. TypeOK'
  BY <1>4, <1>5 DEF TypeOK
<1>7. TreeIsOrdered'
  BY DEF TreeIsOrdered, TypeOK
<1>8. CallsMatch'
  <2>1. [at |-> entries, before |-> seen[f]] # None /\ f # None
    BY <1>3
  <2>2. QED BY <2>1 DEF CallsMatch, TypeOK, InFlight
<1>9. QED BY <1>6, <1>7, <1>8

LEMMA RunsShapes ==
  ASSUME Shapes, NEW c \in Calls, Runs(c)
  PROVE  Shapes'
<1> USE RewindAssumption DEF Shapes, Runs, treeVars, ghosts
<1>1. disk' \in [Files -> States]
  BY DEF TypeOK, States, InFlight
<1>2. TypeOK'
  BY <1>1 DEF TypeOK, InFlight
<1>3. TreeIsOrdered' /\ CallsMatch'
  BY DEF TreeIsOrdered, CallsMatch, InFlight
<1>4. QED BY <1>2, <1>3

\* What a result records is a change.
LEMMA RecordedIsChange ==
  ASSUME Shapes, NEW c \in InFlight, Differs(c)
  PROVE  /\ target[c] \in Files
         /\ [at |-> pending[c].at, before |-> pending[c].before, after |-> seen[target[c]]] \in Change
         /\ FirstBaseline(c) \in Known \cup {None}
<1> USE RewindAssumption DEF Shapes, InFlight
<1>1. target[c] \in Files /\ pending[c] \in [at : Entries, before : States]
  BY DEF TypeOK, CallsMatch
<1>2. seen[target[c]] \in Known /\ pending[c].before \in Known
  BY <1>1, SeenIsState DEF Differs, Known, States
<1>3. pending[c].at \in Entries
  BY <1>1
<1>4. FirstBaseline(c) \in Known \cup {None}
  BY <1>1, <1>2 DEF FirstBaseline, TypeOK, Known
<1>5. QED BY <1>1, <1>2, <1>3, <1>4 DEF Change, Known

LEMMA ToolResultShapes ==
  ASSUME Shapes, NEW c \in Calls, ToolResult(c)
  PROVE  Shapes'
<1> USE RewindAssumption DEF Shapes, ToolResult, Ended, treeVars
<1>1. c \in InFlight
  BY DEF CallsMatch
<1>2. store' \subseteq Contents /\ lost' \subseteq Contents /\ troubles' \in 0..MaxTroubles
  BY ReadsKeep DEF TypeOK, Records, Recording
<1>3. /\ history' \in [Files -> Seq(Change)]
      /\ baselines' \in [Files -> Contents \cup {Absent, None}]
      /\ widget' \subseteq Files /\ unsure' \subseteq Files
  <2>1. CASE Records(c)
    <3>1. target[c] \in Files
      BY <1>1, <2>1, RecordedIsChange DEF Records
    <3>2. Append(history[target[c]],
            [at |-> pending[c].at, before |-> pending[c].before, after |-> seen[target[c]]]) \in Seq(Change)
      BY <1>1, <2>1, <3>1, RecordedIsChange DEF Records, TypeOK
    <3>3. history' \in [Files -> Seq(Change)]
      BY <2>1, <3>1, <3>2 DEF Records, Recording, TypeOK
    <3>4. baselines' \in [Files -> Contents \cup {Absent, None}]
      BY <1>1, <2>1, RecordedIsChange DEF Records, Recording, TypeOK, Known
    <3>5. widget' \subseteq Files /\ unsure' \subseteq Files
      BY <2>1, <3>1 DEF Records, Recording, Refresh, Changed, Tracked, TypeOK
    <3>6. QED BY <3>3, <3>4, <3>5
  <2>2. CASE ~Records(c)
    BY <2>2 DEF TypeOK
  <2>3. QED BY <2>1, <2>2
<1>4. TypeOK'
  BY <1>2, <1>3 DEF TypeOK
<1>5. TreeIsOrdered'
  BY DEF TreeIsOrdered
<1>6. CallsMatch'
  BY DEF CallsMatch, TypeOK, InFlight
<1>7. QED BY <1>4, <1>5, <1>6

\* Refreshing the widget keeps it within the files.
LEMMA RefreshShapes ==
  ASSUME NEW T, T \subseteq Files, NEW d, NEW h, NEW b, NEW C, Refresh(T, d, h, b, C), unsure \subseteq Files
  PROVE  widget' \subseteq Files /\ unsure' \subseteq Files
BY DEF Refresh, Changed

LEMMA RewindShapes ==
  ASSUME Shapes, NEW e \in Entries, RewindCode(e) \/ RewindMessage(e)
  PROVE  Shapes'
<1> USE RewindAssumption DEF Shapes
<1>1. branch' \in SUBSET (1..entries) /\ UNCHANGED <<entries, path, turn, target, ran, pending>>
  <2>1. path[e] \ {e} \subseteq 1..entries
    <3>1. path[e] \subseteq 1..e /\ e \in 1..entries
      BY DEF RewindCode, RewindMessage, TypeOK, TreeIsOrdered
    <3>2. QED BY <3>1 DEF TypeOK, Entries
  <2>2. QED BY <2>1 DEF RewindCode, RewindMessage, BranchBefore
<1>2. TreeIsOrdered' /\ CallsMatch'
  BY <1>1 DEF TreeIsOrdered, CallsMatch, InFlight
<1>3. CASE RewindCode(e)
  <2>1. disk' \in [Files -> States]
    <3>1. ASSUME NEW s, Restorable(s) PROVE s \in States
      BY <3>1 DEF Restorable, TypeOK, States
    <3>2. PICK done \in SUBSET Restorables(e) : disk' = Restored(e, done)
      BY <1>3 DEF RewindCode
    <3>3. ASSUME NEW f \in done PROVE RestorePoint(f, e) \in States
      BY <3>1, <3>2 DEF Restorables
    <3>4. QED BY <3>2, <3>3 DEF Restored, TypeOK
  <2>2. store' \subseteq Contents /\ lost' \subseteq Contents /\ troubles' \in 0..MaxTroubles
    BY <1>3, ReadsKeep DEF RewindCode, TypeOK
  <2>3. widget' \subseteq Files /\ unsure' \subseteq Files
    BY <1>3, RefreshShapes DEF RewindCode, Tracked, TypeOK
  <2>4. tangled' \subseteq Files /\ hidden' \subseteq Files
    BY <1>3 DEF RewindCode, Writes, TypeOK
  <2>5. TypeOK'
    BY <1>1, <1>3, <2>1, <2>2, <2>3, <2>4 DEF RewindCode, TypeOK
  <2>6. QED BY <1>2, <2>5
<1>4. CASE RewindMessage(e)
  <2>1. TypeOK'
    BY <1>1, <1>4 DEF RewindMessage, TypeOK
  <2>2. QED BY <1>2, <2>1
<1>5. QED BY <1>3, <1>4

LEMMA AcceptShapes ==
  ASSUME Shapes, NEW F \in SUBSET Files, Accept(F)
  PROVE  Shapes'
<1> USE RewindAssumption DEF Shapes, Accept, treeVars
<1>1. /\ baselines' \in [Files -> Contents \cup {Absent, None}]
      /\ mark' \in [Files -> States]
  BY SeenIsState DEF TypeOK, States
<1>2. store' \subseteq Contents /\ lost' \subseteq Contents /\ troubles' \in 0..MaxTroubles
  BY ReadsKeep DEF TypeOK
<1>3. widget' \subseteq Files /\ unsure' \subseteq Files
  BY RefreshShapes DEF Tracked, TypeOK
<1>4. TypeOK'
  BY <1>1, <1>2, <1>3 DEF TypeOK
<1>5. TreeIsOrdered' /\ CallsMatch'
  BY DEF TreeIsOrdered, CallsMatch, InFlight
<1>6. QED BY <1>4, <1>5

LEMMA RevertShapes ==
  ASSUME Shapes, NEW F \in SUBSET Files, Revert(F)
  PROVE  Shapes'
<1> USE RewindAssumption DEF Shapes, Revert, treeVars
<1>1. disk' \in [Files -> States]
  <2>1. ASSUME NEW s, Restorable(s) PROVE s \in States
    BY <2>1 DEF Restorable, TypeOK, States
  <2>2. QED BY <2>1 DEF TypeOK
<1>2. store' \subseteq Contents /\ lost' \subseteq Contents /\ troubles' \in 0..MaxTroubles
  BY ReadsKeep DEF TypeOK
<1>3. widget' \subseteq Files /\ unsure' \subseteq Files
  BY RefreshShapes DEF Tracked, TypeOK
<1>4. tangled' \subseteq Files /\ hidden' \subseteq Files
  BY DEF Changed, Writes, TypeOK
<1>5. TypeOK'
  BY <1>1, <1>2, <1>3, <1>4 DEF TypeOK
<1>6. TreeIsOrdered' /\ CallsMatch'
  BY DEF TreeIsOrdered, CallsMatch, InFlight
<1>7. QED BY <1>5, <1>6

LEMMA ResetShapes ==
  ASSUME Shapes, Compact \/ Restart
  PROVE  Shapes'
<1>1. Resets /\ UNCHANGED <<disk, hidden, treeVars, changes>>
  BY DEF Compact, Restart
<1>2. /\ store' \subseteq Contents /\ turn' \in {"idle", "sent", "streaming"}
      /\ target' \in [Calls -> Files \cup {None}] /\ ran' \subseteq Calls /\ lost' \subseteq Contents
  BY DEF Compact, Restart, Shapes, TypeOK
<1>3. /\ turn' = turn \/ turn' = "idle"
      /\ ran' \subseteq {c \in Calls : target'[c] # None}
      /\ \A c \in Calls : target'[c] = None
  BY DEF Compact, Restart, Shapes, TypeOK, CallsMatch, InFlight
<1>4. history' \in [Files -> Seq(Change)]
  BY <1>1 DEF Resets
<1>5. sent' \in [Entries -> [Files -> States]] /\ mark' \in [Files -> States]
  BY <1>1 DEF Resets, Shapes, TypeOK
<1>6. TypeOK'
  BY <1>1, <1>2, <1>4, <1>5, RewindAssumption DEF Resets, Shapes, TypeOK, treeVars, Compact, Restart
<1>7. TreeIsOrdered'
  BY <1>1, <1>3 DEF Shapes, TreeIsOrdered, treeVars
<1>8. CallsMatch'
  BY <1>1, <1>3 DEF Resets, CallsMatch, InFlight
<1>9. QED BY <1>6, <1>7, <1>8 DEF Shapes

\* Every step keeps the types, the order of the tree and the match of calls and records.
LEMMA NextShapes == Shapes /\ [Next]_vars => Shapes'
<1> SUFFICES ASSUME Shapes, [Next]_vars PROVE Shapes'
  OBVIOUS
<1>1. CASE Send
  BY <1>1, SendShapes
<1>2. ASSUME NEW c \in Calls, NEW f \in Files, ToolCall(c, f) PROVE Shapes'
  BY <1>2, ToolCallShapes
<1>3. ASSUME NEW c \in Calls, Runs(c) \/ ToolResult(c) PROVE Shapes'
  BY <1>3, RunsShapes, ToolResultShapes
<1>4. CASE TurnEnds
  BY <1>4 DEF Shapes, TurnEnds, TypeOK, TreeIsOrdered, CallsMatch, InFlight, treeVars, ghosts
<1>5. ASSUME NEW f \in Files, Outside(f) PROVE Shapes'
  <2>1. disk' \in [Files -> States]
    BY <1>5 DEF Shapes, Outside, TypeOK
  <2>2. QED BY <1>5, <2>1, RewindAssumption
          DEF Shapes, Outside, TypeOK, TreeIsOrdered, CallsMatch, InFlight, treeVars
<1>13. ASSUME NEW f \in Files, Hides(f) \/ Shows(f) PROVE Shapes'
  BY <1>13, RewindAssumption
     DEF Shapes, Hides, Shows, TypeOK, TreeIsOrdered, CallsMatch, InFlight, treeVars, ghosts
<1>6. ASSUME NEW e \in Entries, RewindCode(e) \/ RewindMessage(e) PROVE Shapes'
  BY <1>6, RewindShapes
<1>7. CASE AcceptAll \/ \E f \in Files : AcceptFile(f)
  BY <1>7, AcceptShapes DEF AcceptAll, AcceptFile, Tracked
<1>8. CASE RevertAll \/ \E f \in Files : RevertFile(f)
  BY <1>8, RevertShapes DEF RevertAll, RevertFile, Tracked
<1>9. CASE Compact \/ Restart
  BY <1>9, ResetShapes
<1>10. CASE Swept
  BY <1>10, RewindAssumption DEF Shapes, Swept, TypeOK, TreeIsOrdered, CallsMatch, InFlight, treeVars
<1>11. CASE UNCHANGED vars
  BY <1>11 DEF vars, Shapes, TypeOK, TreeIsOrdered, CallsMatch, InFlight, treeVars, ghosts
<1>12. QED
  BY <1>1, <1>2, <1>3, <1>4, <1>5, <1>6, <1>7, <1>8, <1>9, <1>10, <1>11, <1>13 DEF Next

\* A refresh stays unsure of what it could not read.
LEMMA RefreshHidden ==
  ASSUME NEW T, NEW d, NEW h, NEW b, NEW C, Refresh(T, d, h, b, C), h \subseteq unsure
  PROVE  h \subseteq unsure'
BY DEF Refresh

\* What is promised of a file again, by a refresh, an accept or a restart, can be read.
LEMMA NextHidden == Types /\ [Next]_vars => HiddenIsExcused'
<1> SUFFICES ASSUME Types, [Next]_vars PROVE HiddenIsExcused'
  OBVIOUS
<1>0. hidden \subseteq unsure /\ hidden \subseteq foreign /\ hidden \subseteq tangled
  BY DEF Types, HiddenIsExcused
<1>a. hidden \subseteq Files
  BY DEF Types, Shapes, TypeOK
<1> USE DEF HiddenIsExcused, treeVars, ghosts
<1>1. CASE Send \/ TurnEnds \/ Swept \/ UNCHANGED vars
  BY <1>0, <1>1 DEF Send, TurnEnds, Swept, vars
<1>2. ASSUME NEW c \in Calls, NEW f \in Files, ToolCall(c, f) PROVE HiddenIsExcused'
  BY <1>0, <1>2 DEF ToolCall
<1>3. ASSUME NEW c \in Calls, Runs(c) PROVE HiddenIsExcused'
  BY <1>0, <1>3 DEF Runs
<1>4. ASSUME NEW c \in Calls, ToolResult(c) PROVE HiddenIsExcused'
  <2>1. hidden' = hidden /\ foreign' = foreign /\ tangled' = tangled
    BY <1>4 DEF ToolResult
  <2>2. CASE Records(c)
    BY <1>0, <2>1, <2>2, RefreshHidden DEF Records, Recording
  <2>3. CASE ~Records(c)
    BY <1>0, <1>4, <2>1, <2>3 DEF ToolResult
  <2>4. QED BY <2>2, <2>3
<1>5. ASSUME NEW f \in Files, Outside(f) \/ Hides(f) \/ Shows(f) PROVE HiddenIsExcused'
  BY <1>0, <1>5 DEF Outside, Hides, Shows
<1>6. ASSUME NEW e \in Entries, RewindCode(e) PROVE HiddenIsExcused'
  <2>1. hidden' \subseteq hidden /\ foreign' = foreign /\ tangled \subseteq tangled'
    BY <1>6 DEF RewindCode, Writes
  <2>2. Refresh(Tracked, disk', hidden', baselines, {})
    BY <1>6 DEF RewindCode
  <2>3. hidden' \subseteq unsure'
    BY <1>0, <2>1, <2>2 DEF Refresh
  <2>4. QED BY <1>0, <2>1, <2>3
<1>7. ASSUME NEW e \in Entries, RewindMessage(e) PROVE HiddenIsExcused'
  BY <1>0, <1>7 DEF RewindMessage
<1>8. ASSUME NEW F \in SUBSET Files, Accept(F) PROVE HiddenIsExcused'
  <2>1. hidden' = hidden /\ hidden \subseteq foreign' /\ tangled' = tangled
    BY <1>0, <1>8 DEF Accept
  <2>2. QED BY <1>0, <1>8, <2>1, RefreshHidden DEF Accept
<1>9. ASSUME NEW F \in SUBSET Files, Revert(F) PROVE HiddenIsExcused'
  <2>1. hidden' \subseteq hidden /\ foreign' = foreign /\ tangled \subseteq tangled'
    BY <1>9 DEF Revert, Writes
  <2>2. Refresh(Tracked, disk', hidden', baselines, InFlight) \/ unsure' = unsure
    BY <1>9 DEF Revert
  <2>3. hidden' \subseteq unsure'
    BY <1>0, <2>1, <2>2 DEF Refresh
  <2>4. QED BY <1>0, <2>1, <2>3
<1>10. CASE Compact \/ Restart
  BY <1>0, <1>10 DEF Compact, Restart, Resets
<1>11. QED
  BY <1>1, <1>2, <1>3, <1>4, <1>5, <1>6, <1>7, <1>8, <1>9, <1>10
     DEF Next, AcceptAll, AcceptFile, RevertAll, RevertFile, Tracked

LEMMA InitTypes == Init => Types
BY InitShapes DEF Types, HiddenIsExcused, Init

LEMMA NextTypes == Types /\ [Next]_vars => Types'
BY NextShapes, NextHidden DEF Types

--------------------------------------------------------------------------------
\* The snapshots

\* A step that lets nothing be forgotten of the store and records nothing new.
LEMMA NothingNewNeeded ==
  ASSUME SnapshotsKept, store \cup lost \subseteq store' \cup lost', Needed' \subseteq Needed \cup store' \cup lost'
  PROVE  SnapshotsKept'
BY DEF SnapshotsKept

LEMMA SameRecords ==
  ASSUME UNCHANGED <<history, baselines, pending>>
  PROVE  Needed' = Needed
BY DEF Needed, Recorded

\* Every step keeps the snapshots of what is recorded, or knows them lost.
LEMMA NextSnapshots == Types /\ SnapshotsKept /\ [Next]_vars => SnapshotsKept'
<1> SUFFICES ASSUME Types, SnapshotsKept, [Next]_vars PROVE SnapshotsKept'
  OBVIOUS
<1> USE RewindAssumption
<1>0. /\ store \subseteq Contents /\ lost \subseteq Contents /\ troubles \in 0..MaxTroubles
  BY DEF Types, Shapes, TypeOK
<1>1. ASSUME UNCHANGED <<history, baselines, pending>>, store \cup lost \subseteq store' \cup lost' PROVE SnapshotsKept'
  BY <1>1, SameRecords, NothingNewNeeded
<1>2. CASE Send \/ TurnEnds \/ Swept \/ UNCHANGED vars
  <2>1. UNCHANGED <<history, baselines, pending>> /\ store \cup lost \subseteq store' \cup lost'
    BY <1>2 DEF Send, TurnEnds, Swept, vars, ghosts
  <2>2. QED BY <2>1, <1>1
<1>3. ASSUME NEW c \in Calls, NEW f \in Files, ToolCall(c, f) PROVE SnapshotsKept'
  <2>1. store \cup lost \subseteq store' \cup lost' /\ {seen[f]} \cap Contents \subseteq store' \cup lost'
    BY <1>0, <1>3, ReadsKeep DEF ToolCall
  <2>2. UNCHANGED <<history, baselines>> /\ pending' = [pending EXCEPT ![c] = [at |-> entries, before |-> seen[f]]]
    BY <1>3 DEF ToolCall
  <2>3. Needed' \subseteq Needed \cup ({seen[f]} \cap Contents)
    <3>1. ASSUME NEW s, s \in Needed' PROVE s \in Needed \cup ({seen[f]} \cap Contents)
      <4>1. \A g \in Files : Recorded(g)' = Recorded(g)
        BY <2>2 DEF Recorded
      <4>2. \A d \in Calls : pending'[d] = pending[d] \/ pending'[d].before = seen[f]
        BY <2>2 DEF Types, Shapes, TypeOK
      <4>3. QED BY <3>1, <4>1, <4>2 DEF Needed
    <3>2. QED BY <3>1
  <2>4. QED BY <2>1, <2>3, NothingNewNeeded
<1>4. ASSUME NEW c \in Calls, Runs(c) PROVE SnapshotsKept'
  BY <1>1, <1>4 DEF Runs, ghosts
<1>5. ASSUME NEW c \in Calls, ToolResult(c) PROVE SnapshotsKept'
  <2>1. c \in InFlight /\ pending[c] # None
    BY <1>5 DEF ToolResult, Types, Shapes, CallsMatch, InFlight
  <2>2. /\ pending' = [pending EXCEPT ![c] = None] /\ store \cup lost \subseteq store' \cup lost'
    BY <1>0, <1>5, ReadsKeep DEF ToolResult, Ended, Records, Recording
  <2>3. CASE Records(c)
    <3> DEFINE f == target[c]
               h == [at |-> pending[c].at, before |-> pending[c].before, after |-> seen[f]]
    <3>1. /\ f \in Files /\ h \in Change /\ history[f] \in Seq(Change)
      BY <2>1, <2>3, RecordedIsChange DEF Records, Types, Shapes, TypeOK
    <3>2. /\ history' = [history EXCEPT ![f] = Append(history[f], h)]
          /\ baselines' = [baselines EXCEPT ![f] = FirstBaseline(c)]
          /\ {seen[f]} \cap Contents \subseteq store' \cup lost'
      BY <1>0, <2>3, ReadsKeep DEF Records, Recording
    <3>3. ASSUME NEW g \in Files PROVE Recorded(g)' \subseteq Recorded(g) \cup {pending[c].before, seen[f]}
      <4>1. CASE g = f
        <5>1. history'[f] = Append(history[f], h) /\ baselines'[f] = FirstBaseline(c)
          BY <3>1, <3>2 DEF Types, Shapes, TypeOK
        <5>2. ASSUME NEW i \in DOMAIN history'[f] PROVE history'[f][i] = h \/ (i \in DOMAIN history[f] /\ history'[f][i] = history[f][i])
          BY <3>1, <5>1
        <5>3. h.before = pending[c].before /\ h.after = seen[f]
          OBVIOUS
        <5>4. FirstBaseline(c) \in {baselines[f], pending[c].before}
          BY DEF FirstBaseline
        <5>5. QED BY <4>1, <5>1, <5>2, <5>3, <5>4 DEF Recorded
      <4>2. CASE g # f
        BY <3>1, <3>2, <4>2 DEF Recorded, Types, Shapes, TypeOK
      <4>3. QED BY <4>1, <4>2
    <3>4. pending[c].before \in Contents => pending[c].before \in Needed
      BY <2>1 DEF Needed
    <3>5. Needed' \subseteq Needed \cup ({seen[f]} \cap Contents)
      <4>1. \A d \in Calls : pending'[d] = pending[d] \/ pending'[d] = None
        BY <2>2 DEF Types, Shapes, TypeOK
      <4>2. ASSUME NEW s, s \in Needed' PROVE s \in Needed \cup ({seen[f]} \cap Contents)
        BY <3>3, <3>4, <4>1, <4>2 DEF Needed
      <4>3. QED BY <4>2
    <3>6. QED BY <2>2, <3>2, <3>5, NothingNewNeeded
  <2>4. CASE ~Records(c)
    <3>1. UNCHANGED <<history, baselines>>
      BY <1>5, <2>4 DEF ToolResult
    <3>2. Needed' \subseteq Needed
      <4>1. \A g \in Files : Recorded(g)' = Recorded(g)
        BY <3>1 DEF Recorded
      <4>2. \A d \in Calls : pending'[d] = pending[d] \/ pending'[d] = None
        BY <2>2 DEF Types, Shapes, TypeOK
      <4>3. ASSUME NEW s, s \in Needed' PROVE s \in Needed
        BY <4>1, <4>2, <4>3 DEF Needed
      <4>4. QED BY <4>3
    <3>3. QED BY <2>2, <3>2, NothingNewNeeded
  <2>5. QED BY <2>3, <2>4
<1>6. ASSUME NEW f \in Files, Outside(f) \/ Hides(f) \/ Shows(f) PROVE SnapshotsKept'
  BY <1>1, <1>6 DEF Outside, Hides, Shows, ghosts
<1>7. ASSUME NEW e \in Entries, RewindCode(e) \/ RewindMessage(e) PROVE SnapshotsKept'
  <2>1. UNCHANGED <<history, baselines, pending>> /\ store \cup lost \subseteq store' \cup lost'
    BY <1>0, <1>7, ReadsKeep DEF RewindCode, RewindMessage
  <2>2. QED BY <1>1, <2>1
<1>8. ASSUME NEW F \in SUBSET Files, F \subseteq Tracked, Accept(F) PROVE SnapshotsKept'
  <2>1. /\ store \cup lost \subseteq store' \cup lost' /\ UNCHANGED <<history, pending>>
        /\ {seen[g] : g \in Tracked} \cap Contents \subseteq store' \cup lost'
    BY <1>0, <1>8, ReadsKeep DEF Accept
  <2>2. \A g \in Files : baselines'[g] = baselines[g] \/ baselines'[g] \in {seen[k] : k \in Tracked}
    BY <1>8 DEF Accept
  <2>3. Needed' \subseteq Needed \cup ({seen[g] : g \in Tracked} \cap Contents)
    <3>1. ASSUME NEW g \in Files PROVE Recorded(g)' \subseteq Recorded(g) \cup {seen[k] : k \in Tracked}
      BY <2>1, <2>2 DEF Recorded
    <3>2. ASSUME NEW s, s \in Needed' PROVE s \in Needed \cup ({seen[k] : k \in Tracked} \cap Contents)
      BY <2>1, <3>1, <3>2 DEF Needed
    <3>3. QED BY <3>2
  <2>4. QED BY <2>1, <2>3, NothingNewNeeded
<1>9. ASSUME NEW F \in SUBSET Files, Revert(F) PROVE SnapshotsKept'
  <2>1. UNCHANGED <<history, baselines, pending>> /\ store \cup lost \subseteq store' \cup lost'
    BY <1>0, <1>9, ReadsKeep DEF Revert
  <2>2. QED BY <1>1, <2>1
<1>10. CASE Compact \/ Restart
  <2>1. Resets
    BY <1>10 DEF Compact, Restart
  <2>2. None \notin Contents
    BY DEF States
  <2>3. Needed' = {}
    BY <2>1, <2>2 DEF Resets, Needed, Recorded
  <2>4. QED BY <2>3 DEF SnapshotsKept
<1>11. CASE AcceptAll \/ \E f \in Files : AcceptFile(f)
  BY <1>8, <1>11 DEF AcceptAll, AcceptFile, Tracked
<1>12. CASE RevertAll \/ \E f \in Files : RevertFile(f)
  BY <1>9, <1>12 DEF RevertAll, RevertFile, Tracked
<1>13. QED BY <1>2, <1>3, <1>4, <1>5, <1>6, <1>7, <1>10, <1>11, <1>12 DEF Next

--------------------------------------------------------------------------------
\* The widget

LEMMA SeenIsDisk == ASSUME Types, NEW f \in Files, f \notin unsure PROVE f \notin hidden /\ seen[f] = disk[f]
BY SeenIsState DEF Types, Shapes, HiddenIsExcused

\* After a refresh the widget is right about every file that can be read, and unsure of what cannot, is
\* too large or in a call.
LEMMA RefreshIsTruthful ==
  ASSUME Types, Types', AloneIsTruthful, BigIsUnsure,
         Refresh(Tracked', disk', hidden', baselines', InFlight'),
         UNCHANGED <<disk, hidden>> \/ InFlight' = {},
         \A f \in Files : disk'[f] = Big => disk[f] = Big,
         \A f \in Tracked' \ Tracked :
            /\ disk'[f] # Big \/ f \in hidden'
            /\ f \in unsure \/ \A c \in InFlight' : target'[c] # f,
         \A c \in InFlight' : /\ c \in InFlight /\ (c \in ran => c \in ran')
                             /\ target'[c] = target[c] /\ pending'[c] = pending[c]
  PROVE  Widget'
<1>1. /\ widget' = Changed(Tracked', Seen(disk', hidden'), baselines')
      /\ unsure' = {f \in unsure : f \in hidden' \/ disk'[f] = Big \/ \E c \in InFlight' : target'[c] = f}
  BY DEF Refresh
<1>2. \A f \in Files : f \notin unsure' => f \notin hidden' /\ Truthful(f)'
  <2>1. ASSUME NEW f \in Files, f \notin unsure' PROVE f \notin hidden' /\ Seen(disk', hidden')[f] = disk'[f]
    BY <2>1 DEF Types, HiddenIsExcused, Seen
  <2>2. QED BY <1>1, <2>1 DEF Truthful, Changed
<1>3. WidgetIsTruthful'
  BY <1>2 DEF WidgetIsTruthful, Truthful
<1>4. BigIsUnsure'
  <2> SUFFICES ASSUME NEW f \in Tracked', f \notin unsure'
               PROVE  disk'[f] # Big /\ \A c \in InFlight' : target'[c] = f => pending'[c].before # Big
    BY DEF BigIsUnsure
  <2>1. f \in Files
    BY DEF Tracked
  <2>2. CASE f \in unsure
    BY <1>1, <2>2
  <2>3. CASE f \notin unsure /\ f \in Tracked
    BY <2>1, <2>3 DEF BigIsUnsure
  <2>4. CASE f \notin unsure /\ f \notin Tracked
    BY <1>2, <2>1, <2>4
  <2>5. QED BY <2>2, <2>3, <2>4
<1>5. AloneIsTruthful'
  <2> SUFFICES ASSUME NEW f \in Files, f \notin unsure', NEW c \in InFlight', target'[c] = f
               PROVE  /\ \A d \in InFlight' : target'[d] = f => d = c
                      /\ c \notin ran' => disk'[f] = pending'[c].before
    BY <1>2 DEF AloneIsTruthful
  <2>1. f \notin unsure
    BY <1>1
  <2>2. c \in InFlight /\ target[c] = f
    OBVIOUS
  <2>3. disk' = disk
    OBVIOUS
  <2>4. QED BY <2>1, <2>2, <2>3 DEF AloneIsTruthful
<1>6. QED BY <1>3, <1>4, <1>5 DEF Widget

\* Nothing of what the widget is about changes.
LEMMA NothingShown ==
  ASSUME Widget, UNCHANGED <<disk, hidden, target, ran, pending, history, baselines, widget, unsure>>
  PROVE  Widget'
BY DEF Widget, WidgetIsTruthful, AloneIsTruthful, BigIsUnsure, Truthful, Differs, Changed, Tracked, InFlight,
       seen, Seen

LEMMA ToolCallWidget ==
  ASSUME Types, Types', Widget, NEW c \in Calls, NEW f \in Files, ToolCall(c, f)
  PROVE  Widget'
<1>1. /\ UNCHANGED <<disk, hidden, ran, history, baselines, widget>> /\ unsure \subseteq unsure'
      /\ (\E d \in InFlight : target[d] = f) => f \in unsure'
      /\ c \notin InFlight /\ InFlight' = InFlight \cup {c} /\ target'[c] = f
      /\ pending'[c] = [at |-> entries, before |-> seen[f]]
      /\ \A d \in InFlight : target'[d] = target[d] /\ pending'[d] = pending[d]
  BY RewindAssumption DEF ToolCall, Types, Shapes, TypeOK, InFlight
<1>2. pending'[c].before = seen[f] /\ Tracked' = Tracked
  BY <1>1 DEF Tracked
<1>3. \A g \in Files : Truthful(g)' <=> Truthful(g)
  BY <1>1, <1>2 DEF Truthful
<1>4. \A d \in InFlight : Differs(d)' <=> Differs(d)
  BY <1>1 DEF Differs, seen, Seen
<1>5. c \notin ran
  BY <1>1 DEF Types, Shapes, CallsMatch
<1>6. WidgetIsTruthful'
  BY <1>1, <1>3 DEF Widget, WidgetIsTruthful, Truthful
<1>7. BigIsUnsure'
  <2>1. f \notin unsure => seen[f] = disk[f]
    BY SeenIsDisk
  <2>2. QED BY <1>1, <1>2, <2>1 DEF Widget, BigIsUnsure, Tracked
<1>8. AloneIsTruthful'
  <2> SUFFICES ASSUME NEW g \in Files, g \notin unsure', NEW d \in InFlight', target'[d] = g
               PROVE  /\ \A k \in InFlight' : target'[k] = g => k = d
                      /\ d \notin ran' => disk'[g] = pending'[d].before
                      /\ Truthful(g)' \/ Differs(d)'
    BY DEF AloneIsTruthful
  <2>1. CASE d = c
    <3>1. g = f /\ \A k \in InFlight : target[k] # f
      BY <1>1, <2>1
    <3>2. Truthful(f)
      BY <1>1, <3>1 DEF Widget, WidgetIsTruthful, Truthful
    <3>3. pending'[c].before = disk[f]
      BY <1>1, <1>2, <3>1, SeenIsDisk
    <3>4. QED BY <1>1, <1>3, <2>1, <3>1, <3>2, <3>3
  <2>2. CASE d # c
    BY <1>1, <1>3, <1>4, <2>2 DEF Widget, AloneIsTruthful
  <2>3. QED BY <2>1, <2>2
<1>9. QED BY <1>6, <1>7, <1>8 DEF Widget

LEMMA RunsWidget ==
  ASSUME Types, Types', Widget, NEW c \in Calls, Runs(c)
  PROVE  Widget'
<1> DEFINE f == target[c]
<1>1. /\ UNCHANGED <<hidden, target, pending, history, baselines, widget, unsure>> /\ InFlight' = InFlight
      /\ Tracked' = Tracked /\ ran' = ran \cup {c} /\ c \in InFlight /\ c \notin ran
      /\ f \in Files /\ \A g \in Files \ {f} : disk'[g] = disk[g]
      /\ disk'[f] = disk[f] \/ disk'[f] \in Contents
  BY DEF Runs, ghosts, InFlight, Tracked, Types, Shapes, TypeOK
<1>2. \A g \in Files \ {f} : Truthful(g)' <=> Truthful(g)
  BY <1>1 DEF Truthful, Changed
<1>3. WidgetIsTruthful'
  BY <1>1, <1>2 DEF Widget, WidgetIsTruthful, Truthful
<1>4. BigIsUnsure'
  BY <1>1, RewindAssumption DEF Widget, BigIsUnsure, Tracked
<1>5. ASSUME f \notin unsure PROVE Truthful(f)' \/ Differs(c)'
  <2>1. disk[f] = pending[c].before
    BY <1>1, <1>5 DEF Widget, AloneIsTruthful
  <2>2. Truthful(f)
    BY <1>1, <1>5, <2>1, SeenIsDisk DEF Widget, AloneIsTruthful, Differs
  <2>3. CASE disk'[f] = disk[f]
    BY <1>1, <2>2, <2>3 DEF Truthful, Changed
  <2>4. CASE disk'[f] # disk[f] /\ disk[f] # Big
    <3>1. seen'[f] = disk'[f]
      BY <1>1, <1>5, SeenIsDisk DEF seen, Seen
    <3>2. QED BY <1>1, <2>1, <2>4, <3>1, RewindAssumption DEF Differs
  <2>5. CASE disk'[f] # disk[f] /\ disk[f] = Big
    <3>1. f \notin Tracked
      BY <1>5, <2>5 DEF Widget, BigIsUnsure
    <3>2. QED BY <1>1, <2>2, <3>1 DEF Truthful, Changed
  <2>6. QED BY <2>3, <2>4, <2>5
<1>6. AloneIsTruthful'
  <2> SUFFICES ASSUME NEW g \in Files, g \notin unsure', NEW d \in InFlight', target'[d] = g
               PROVE  /\ \A k \in InFlight' : target'[k] = g => k = d
                      /\ d \notin ran' => disk'[g] = pending'[d].before
                      /\ Truthful(g)' \/ Differs(d)'
    BY DEF AloneIsTruthful
  <2>1. \A k \in InFlight : target[k] = g => k = d
    BY <1>1 DEF Widget, AloneIsTruthful
  <2>2. CASE d = c
    BY <1>1, <1>5, <2>1, <2>2
  <2>3. CASE d # c
    <3>1. g # f
      BY <1>1, <2>1, <2>3
    <3>2. Differs(d)' <=> Differs(d)
      BY <1>1, <3>1 DEF Differs, seen, Seen
    <3>3. QED BY <1>1, <1>2, <2>1, <3>1, <3>2 DEF Widget, AloneIsTruthful
  <2>4. QED BY <2>2, <2>3
<1>7. QED BY <1>3, <1>4, <1>6 DEF Widget

\* A result: recorded, it refreshes the widget; not recorded, the widget was right about its file.
LEMMA ToolResultWidget ==
  ASSUME Types, Types', Widget, NEW c \in Calls, ToolResult(c)
  PROVE  Widget'
<1> DEFINE f == target[c]
<1>1. /\ c \in InFlight /\ f \in Files /\ c \in ran /\ disk' = disk /\ hidden' = hidden
      /\ InFlight' = InFlight \ {c} /\ ran' = ran \ {c}
      /\ \A d \in InFlight' : target'[d] = target[d] /\ pending'[d] = pending[d]
  BY DEF ToolResult, Ended, Types, Shapes, TypeOK, CallsMatch, InFlight
<1>2. CASE Records(c)
  <2>1. Tracked' = Tracked \cup {f}
    <3>1. history' = [history EXCEPT ![f] =
             Append(history[f], [at |-> pending[c].at, before |-> pending[c].before, after |-> seen[f]])]
      BY <1>2 DEF Records, Recording
    <3>2. history'[f] # <<>>
      <4>1. history[f] \in Seq(Change)
        BY <1>1 DEF Types, Shapes, TypeOK
      <4>2. QED BY <1>1, <1>2, <3>1, <4>1, RecordedIsChange DEF Records, Types, Shapes, TypeOK
    <3>3. \A g \in Files \ {f} : history'[g] = history[g]
      BY <3>1 DEF Types, Shapes, TypeOK
    <3>4. QED BY <1>1, <3>2, <3>3 DEF Tracked
  <2>2. Refresh(Tracked', disk', hidden', baselines', InFlight')
    BY <1>1, <1>2, <2>1 DEF Records, Recording
  <2>3. disk[f] # Big \/ f \in hidden
    BY <1>1, <1>2 DEF Records, Differs, seen, Seen
  <2>4. f \in unsure \/ \A d \in InFlight' : target'[d] # f
    BY <1>1 DEF Widget, AloneIsTruthful
  <2>5. QED BY <1>1, <2>1, <2>2, <2>3, <2>4, RefreshIsTruthful DEF Widget
<1>3. CASE ~Differs(c)
  <2>1. UNCHANGED <<history, baselines, widget, unsure>> /\ Tracked' = Tracked
    BY <1>3 DEF ToolResult, Records, Tracked
  <2>2. \A g \in Files : Truthful(g)' <=> Truthful(g)
    BY <1>1, <2>1 DEF Truthful
  <2>3. \A d \in InFlight' : Differs(d)' <=> Differs(d)
    BY <1>1 DEF Differs, seen, Seen
  <2>4. WidgetIsTruthful'
    <3> SUFFICES ASSUME NEW g \in Files, g \notin unsure, \A d \in InFlight' : target'[d] # g
                 PROVE  Truthful(g)
      BY <2>1, <2>2 DEF WidgetIsTruthful, Truthful
    <3>1. CASE g = f
      BY <1>1, <1>3, <3>1 DEF Widget, AloneIsTruthful
    <3>2. CASE g # f
      BY <1>1, <3>2 DEF Widget, WidgetIsTruthful, Truthful
    <3>3. QED BY <3>1, <3>2
  <2>5. AloneIsTruthful'
    BY <1>1, <2>1, <2>2, <2>3 DEF Widget, AloneIsTruthful
  <2>6. BigIsUnsure'
    BY <1>1, <2>1 DEF Widget, BigIsUnsure
  <2>7. QED BY <2>4, <2>5, <2>6 DEF Widget
<1>4. QED BY <1>2, <1>3 DEF ToolResult

\* A file changed from outside, or no longer to be read, is one the widget is unsure of.
LEMMA OutsideWidget ==
  ASSUME Types, Widget, NEW f \in Files, Outside(f) \/ Hides(f)
  PROVE  Widget'
<1>1. /\ UNCHANGED <<target, ran, pending, history, baselines, widget>> /\ unsure' = unsure \cup {f}
      /\ Tracked' = Tracked /\ InFlight' = InFlight
      /\ \A g \in Files \ {f} : disk'[g] = disk[g] /\ (g \in hidden' <=> g \in hidden)
  BY DEF Outside, Hides, Tracked, InFlight, Types, Shapes, TypeOK
<1>2. \A g \in Files \ {f} : Truthful(g)' <=> Truthful(g)
  BY <1>1 DEF Truthful, Changed
<1>3. \A d \in InFlight : target[d] # f => (Differs(d)' <=> Differs(d))
  BY <1>1 DEF Differs, InFlight, Types, Shapes, TypeOK, seen, Seen
<1>4. WidgetIsTruthful'
  BY <1>1, <1>2 DEF Widget, WidgetIsTruthful, Truthful
<1>5. AloneIsTruthful'
  BY <1>1, <1>2, <1>3 DEF Widget, AloneIsTruthful
<1>6. BigIsUnsure'
  BY <1>1 DEF Widget, BigIsUnsure, Tracked
<1>7. QED BY <1>4, <1>5, <1>6 DEF Widget

\* A file that can be read again is one the widget is still unsure of.
LEMMA ShowsWidget ==
  ASSUME Types, Widget, NEW f \in Files, Shows(f)
  PROVE  Widget'
<1>1. /\ UNCHANGED <<disk, target, ran, pending, history, baselines, widget, unsure>> /\ f \in unsure
      /\ \A g \in Files \ {f} : g \in hidden' <=> g \in hidden
  BY DEF Shows, ghosts, Types, HiddenIsExcused
<1>2. \A d \in InFlight : target[d] # f => (Differs(d)' <=> Differs(d))
  BY <1>1 DEF Differs, InFlight, Types, Shapes, TypeOK, seen, Seen
<1>3. WidgetIsTruthful' /\ BigIsUnsure'
  BY <1>1 DEF Widget, WidgetIsTruthful, BigIsUnsure, Changed, Tracked, InFlight
<1>4. \A g \in Files : Truthful(g)' <=> Truthful(g)
  BY <1>1 DEF Truthful, Changed, Tracked
<1>5. InFlight' = InFlight
  BY <1>1 DEF InFlight
<1>6. AloneIsTruthful'
  BY <1>1, <1>2, <1>4, <1>5 DEF Widget, AloneIsTruthful
<1>7. QED BY <1>3, <1>6 DEF Widget

\* Outside a turn there is no call, and what is restored is not too large.
LEMMA IdleHasNoCalls == Types /\ turn # "streaming" => InFlight = {}
BY DEF Types, Shapes, CallsMatch

LEMMA RewindWidget ==
  ASSUME Types, Types', Widget, NEW e \in Entries, RewindCode(e)
  PROVE  Widget'
<1>1. /\ UNCHANGED <<target, ran, pending, history, baselines>> /\ InFlight' = {} /\ Tracked' = Tracked
      /\ Refresh(Tracked, disk', hidden', baselines, {})
  BY IdleHasNoCalls DEF RewindCode, InFlight, Tracked
<1>2. \A f \in Files : disk'[f] = Big => disk[f] = Big
  <2>1. PICK done \in SUBSET Restorables(e) : disk' = Restored(e, done)
    BY DEF RewindCode
  <2>2. ASSUME NEW f \in Files, disk'[f] = Big, f \in done PROVE FALSE
    <3>1. disk'[f] = RestorePoint(f, e) /\ Restorable(RestorePoint(f, e))
      BY <2>1, <2>2 DEF Restored, Restorables
    <3>2. QED BY <2>2, <3>1, RewindAssumption DEF Restorable, Types, Shapes, TypeOK
  <2>3. QED BY <2>1, <2>2 DEF Restored
<1>3. QED BY <1>1, <1>2, RefreshIsTruthful DEF Widget

LEMMA AcceptWidget ==
  ASSUME Types, Types', Widget, NEW F \in SUBSET Files, Accept(F)
  PROVE  Widget'
<1>1. /\ UNCHANGED <<disk, hidden, target, ran, pending, history>> /\ InFlight' = InFlight /\ Tracked' = Tracked
      /\ Refresh(Tracked, disk, hidden, baselines', InFlight)
  BY DEF Accept, InFlight, Tracked
<1>2. QED BY <1>1, RefreshIsTruthful DEF Widget

LEMMA RevertWidget ==
  ASSUME Types, Types', Widget, NEW F \in SUBSET Files, Revert(F)
  PROVE  Widget'
<1>1. /\ UNCHANGED <<target, ran, pending, history, baselines>> /\ Tracked' = Tracked
      /\ InFlight' = {} /\ InFlight = {}
  BY IdleHasNoCalls DEF Revert, Idle, InFlight, Tracked
<1>2. \A f \in Files : disk'[f] = Big => disk[f] = Big
  BY RewindAssumption DEF Revert, Restorable, Types, Shapes, TypeOK
<1>3. CASE Refresh(Tracked, disk', hidden', baselines, InFlight)
  BY <1>1, <1>2, <1>3, RefreshIsTruthful DEF Widget
<1>4. CASE UNCHANGED <<disk, hidden, widget, unsure>>
  BY <1>1, <1>4, NothingShown
<1>5. PICK done : /\ Writes({f \in Changed(F, seen, baselines) : Restorable(baselines[f])}, done)
                  /\ disk' = [f \in Files |-> IF f \in done THEN baselines[f] ELSE disk[f]]
                  /\ \/ Refresh(Tracked, disk', hidden', baselines, InFlight)
                     \/ done = {} /\ UNCHANGED <<widget, unsure>>
  BY DEF Revert
<1>6. ASSUME done = {} PROVE disk' = disk /\ hidden' = hidden
  BY <1>5, <1>6 DEF Writes, Types, Shapes, TypeOK
<1>7. QED BY <1>3, <1>4, <1>5, <1>6

\* When tracking restarts the widget is empty and there is no call.
LEMMA ResetWidget ==
  ASSUME Types, Compact \/ Restart
  PROVE  Widget'
<1>1. Resets /\ InFlight' = {}
  BY DEF Compact, Restart, InFlight
<1>2. Tracked' = {} /\ widget' = {}
  BY <1>1 DEF Resets, Tracked
<1>3. QED BY <1>1, <1>2 DEF Widget, WidgetIsTruthful, AloneIsTruthful, BigIsUnsure, Changed

\* Every step keeps the widget right.
LEMMA NextWidget == Types /\ Widget /\ [Next]_vars => Widget'
<1> SUFFICES ASSUME Types, Widget, [Next]_vars PROVE Widget'
  OBVIOUS
<1>0. Types'
  BY NextTypes
<1>1. CASE Send \/ TurnEnds \/ Swept \/ UNCHANGED vars
  BY <1>1, NothingShown DEF Send, TurnEnds, Swept, vars, ghosts
<1>2. ASSUME NEW c \in Calls, NEW f \in Files, ToolCall(c, f) PROVE Widget'
  BY <1>0, <1>2, ToolCallWidget
<1>3. ASSUME NEW c \in Calls, Runs(c) \/ ToolResult(c) PROVE Widget'
  BY <1>0, <1>3, RunsWidget, ToolResultWidget
<1>4. ASSUME NEW f \in Files, Outside(f) \/ Hides(f) \/ Shows(f) PROVE Widget'
  BY <1>4, OutsideWidget, ShowsWidget
<1>5. ASSUME NEW e \in Entries, RewindCode(e) PROVE Widget'
  BY <1>0, <1>5, RewindWidget
<1>6. ASSUME NEW e \in Entries, RewindMessage(e) PROVE Widget'
  BY <1>6, NothingShown DEF RewindMessage
<1>7. CASE AcceptAll \/ \E f \in Files : AcceptFile(f)
  BY <1>0, <1>7, AcceptWidget DEF AcceptAll, AcceptFile, Tracked
<1>8. CASE RevertAll \/ \E f \in Files : RevertFile(f)
  BY <1>0, <1>8, RevertWidget DEF RevertAll, RevertFile, Tracked
<1>9. CASE Compact \/ Restart
  BY <1>9, ResetWidget
<1>10. QED BY <1>1, <1>2, <1>3, <1>4, <1>5, <1>6, <1>7, <1>8, <1>9 DEF Next

--------------------------------------------------------------------------------
\* The invariant

LEMMA InitIInv == Init => IInv
<1> SUFFICES ASSUME Init PROVE IInv
  OBVIOUS
<1>1. Types
  BY InitTypes
<1>2. SnapshotsKept
  BY RewindAssumption DEF Init, SnapshotsKept, Needed, Recorded, States
<1>3. Tracked = {} /\ InFlight = {} /\ widget = {}
  BY DEF Init, Tracked, InFlight
<1>4. Widget
  BY <1>3 DEF Widget, WidgetIsTruthful, AloneIsTruthful, BigIsUnsure, Changed
<1>5. QED BY <1>1, <1>2, <1>4 DEF IInv

LEMMA NextIInv == IInv /\ [Next]_vars => IInv'
BY NextTypes, NextSnapshots, NextWidget DEF IInv

LEMMA InvariantHolds == Spec => []IInv
BY InitIInv, NextIInv, PTL DEF Spec

\* Every state that the history, a baseline or a pending call may ask for has its snapshot, unless
\* a sweep took it or it could not be written: whatever the files, calls and messages, and however
\* they overlap.
THEOREM SnapshotsAreThere == Spec => []NothingIsMissing
<1>1. IInv => NothingIsMissing
  BY DEF IInv, Types, Shapes, NothingIsMissing
<1>2. QED BY <1>1, InvariantHolds, PTL

\* The widget lists exactly the tracked files that differ from their baseline, between calls, but
\* for files changed from outside or in overlapping calls, or unreadable, since it was refreshed.
THEOREM WidgetTellsTheTruth == Spec => []WidgetIsTruthful
<1>1. IInv => WidgetIsTruthful
  BY DEF IInv, Widget
<1>2. QED BY <1>1, InvariantHolds, PTL

--------------------------------------------------------------------------------
\* Positions in a history

\* A set of numbers has a least one.
LEMMA LeastIsThere ==
  ASSUME NEW S \in SUBSET Nat, S # {}
  PROVE  \E m \in S : \A y \in S : m <= y
<1>1. PICK m \in S : \A y \in S : ~(<<y, m>> \in OpToRel(<, Nat))
  BY NatLessThanWellFounded, WFMin
<1>2. ASSUME NEW y \in S PROVE m <= y
  <2>1. ~(y < m)
    BY <1>1 DEF OpToRel
  <2>2. QED
    BY <2>1
<1>3. QED
  BY <1>2

\* A nonempty set of numbers up to n has a least and a greatest one.
LEMMA EndsAreThere ==
  ASSUME NEW n \in Nat, NEW S \in SUBSET (1..n), S # {}
  PROVE  /\ Min(S) \in S /\ \A y \in S : Min(S) <= y
         /\ Max(S) \in S /\ \A y \in S : y <= Max(S)
<1>1. \E x \in S : \A y \in S : x <= y
  <2>1. S \in SUBSET Nat
    OBVIOUS
  <2>2. QED BY <2>1, LeastIsThere
<1>2. \E x \in S : \A y \in S : x >= y
  <2>1. PICK T : T = {n - y : y \in S}
    OBVIOUS
  <2>2. \A y \in S : n - y \in Nat
    OBVIOUS
  <2>3. T \in SUBSET Nat /\ T # {}
    BY <2>1, <2>2
  <2>4. PICK m \in T : \A y \in T : m <= y
    BY <2>3, LeastIsThere
  <2>5. PICK x \in S : m = n - x
    BY <2>1
  <2>6. ASSUME NEW y \in S PROVE x >= y
    <3>1. n - x <= n - y
      BY <2>1, <2>4, <2>5
    <3>2. QED BY <3>1
  <2>7. QED BY <2>6
<1>3. QED BY <1>1, <1>2 DEF Min, Max

\* The changes of a history at messages of A, and the state they leave where there was b.
Pos(H, A) == {i \in DOMAIN H : H[i].at \in A}
After(H, A, b) == IF Pos(H, A) = {} THEN b ELSE H[Max(Pos(H, A))].after

LEMMA PosIsPositions ==
  ASSUME NEW H \in Seq(Change), NEW A
  PROVE  Pos(H, A) \in SUBSET (1..Len(H)) /\ Len(H) \in Nat
BY DEF Pos

LEMMA AfterIsState ==
  ASSUME NEW H \in Seq(Change), NEW A, NEW b \in States
  PROVE  After(H, A, b) \in States
<1>1. CASE Pos(H, A) = {}
  BY <1>1 DEF After
<1>2. CASE Pos(H, A) # {}
  <2>1. Max(Pos(H, A)) \in DOMAIN H
    BY <1>2, PosIsPositions, EndsAreThere
  <2>2. H[Max(Pos(H, A))] \in Change
    BY <2>1
  <2>3. QED BY <1>2, <2>2 DEF After, Change, States
<1>3. QED BY <1>1, <1>2

\* A change appended at a message of A is the last there; one elsewhere makes no difference.
LEMMA AppendedLast ==
  ASSUME NEW H \in Seq(Change), NEW h \in Change, NEW A, NEW b, h.at \in A
  PROVE  After(Append(H, h), A, b) = h.after
<1>1. PICK G : G = Append(H, h)
  OBVIOUS
<1>2. G \in Seq(Change) /\ Len(G) = Len(H) + 1 /\ G[Len(G)] = h
  BY <1>1
<1>3. Pos(G, A) \in SUBSET (1..Len(G)) /\ Len(G) \in Nat
  BY <1>2, PosIsPositions
<1>4. Len(G) \in Pos(G, A)
  BY <1>2 DEF Pos
<1>5. Max(Pos(G, A)) \in Pos(G, A) /\ Len(G) <= Max(Pos(G, A))
  BY <1>3, <1>4, EndsAreThere
<1>6. Max(Pos(G, A)) = Len(G)
  BY <1>3, <1>5
<1>7. QED BY <1>1, <1>2, <1>4, <1>6 DEF After

LEMMA AppendedElsewhere ==
  ASSUME NEW H \in Seq(Change), NEW h \in Change, NEW A, NEW b, h.at \notin A
  PROVE  After(Append(H, h), A, b) = After(H, A, b)
<1>1. PICK G : G = Append(H, h)
  OBVIOUS
<1>2. /\ DOMAIN H = 1..Len(H) /\ DOMAIN G = 1..(Len(H) + 1) /\ Len(H) \in Nat
      /\ G[Len(H) + 1] = h /\ \A i \in 1..Len(H) : G[i] = H[i]
  BY <1>1
<1>3. Pos(G, A) = Pos(H, A)
  BY <1>2 DEF Pos
<1>4. CASE Pos(H, A) = {}
  BY <1>1, <1>3, <1>4 DEF After
<1>5. CASE Pos(H, A) # {}
  <2>1. Max(Pos(H, A)) \in 1..Len(H)
    BY <1>5, PosIsPositions, EndsAreThere
  <2>2. QED BY <1>1, <1>2, <1>3, <1>5, <2>1 DEF After
<1>6. QED BY <1>4, <1>5

\* The same messages, the same state.
LEMMA AfterSame ==
  ASSUME NEW H, NEW A, NEW B, NEW b, Pos(H, A) = Pos(H, B)
  PROVE  After(H, A, b) = After(H, B, b)
BY DEF After

--------------------------------------------------------------------------------
\* The tree and the order of changes

\* A message's ancestors are those of the messages between; the branch is one line of them, and a
\* turn is of the last message.
AncestorsAgree ==
  /\ \A e \in 1..entries : e \in path[e] /\ \A x \in path[e] : path[x] = path[e] \cap 1..x
  /\ \A e \in branch : path[e] = branch \cap 1..e
  /\ turn # "idle" => entries \in branch

\* Changes are recorded in the order of their messages; a call is of the last one.
ChangesInOrder ==
  /\ \A f \in Files : \A i, j \in DOMAIN history[f] :
       history[f][i].at <= entries /\ (i < j => history[f][i].at <= history[f][j].at)
  /\ \A c \in InFlight : pending[c].at = entries

\* The state a file has, or had when the call on it began.
IsFound(f, s) ==
  /\ \A c \in InFlight : target[c] = f => pending[c].before = s
  /\ (\A c \in InFlight : target[c] # f) => disk[f] = s

Alone(f) ==
  /\ disk[f] # Big
  /\ \A c \in InFlight : target[c] = f =>
       /\ \A d \in InFlight : target[d] = f => d = c
       /\ pending[c].before # Big
       /\ c \notin ran => disk[f] = pending[c].before

\* Of a file that only its calls changed, since the floor or since its mark, calls are alone.
CallsAreAlone == \A f \in Files : f \notin tangled \cap foreign => Alone(f)

\* A file's baseline is its mark, which an untracked file still is.
MarkIsKeptOf(f) ==
  /\ f \in Tracked <=> baselines[f] # None
  /\ f \notin foreign => IF f \in Tracked THEN baselines[f] = mark[f] ELSE IsFound(f, mark[f])

MarkIsKept == \A f \in Files : MarkIsKeptOf(f)

\* The first of a history's changes at a message.
IsFirst(H, i) == \A j \in DOMAIN H : j < i => H[j].at # H[i].at

\* From a first state b of the file, its changes at the messages before one give what it was when
\* that one was sent and what the first call after it found, and those of the branch what it is.
Explains(f, b) ==
  /\ \A e \in (floor + 1)..entries : sent[e][f] = After(history[f], BranchBefore(e), b)
  /\ \A i \in DOMAIN history[f] : IsFirst(history[f], i) =>
       history[f][i].before = After(history[f], BranchBefore(history[f][i].at), b)
  /\ IsFound(f, After(history[f], branch, b))

ChangesExplain == \A f \in Files \ tangled : \E b \in States : Explains(f, b)

RestoreInv == AncestorsAgree /\ ChangesInOrder /\ CallsAreAlone /\ MarkIsKept /\ ChangesExplain

LEMMA NextAncestors == Types /\ AncestorsAgree /\ [Next]_vars => AncestorsAgree'
<1> SUFFICES ASSUME Types, AncestorsAgree, [Next]_vars PROVE AncestorsAgree'
  OBVIOUS
<1>0. /\ entries \in Nat /\ branch \subseteq 1..entries /\ 1..entries \subseteq Entries
      /\ path \in [Entries -> SUBSET Entries]
      /\ \A e \in Entries : path[e] \subseteq 1..e
  BY RewindAssumption DEF Types, Shapes, TypeOK, TreeIsOrdered, Entries
<1>1. CASE Send
  <2> DEFINE n == entries + 1
  <2>1. /\ n \in Entries /\ entries' = n /\ branch' = branch \cup {n} /\ path'[n] = branch \cup {n}
        /\ \A e \in 1..entries : path'[e] = path[e]
    BY <1>0, <1>1, RewindAssumption DEF Send, NewEntry, Entries
  <2>2. ASSUME NEW e \in 1..n
        PROVE  e \in path'[e] /\ \A x \in path'[e] : path'[x] = path'[e] \cap 1..x
    <3>1. CASE e \in 1..entries
      <4>1. path'[e] = path[e] /\ \A x \in path[e] : x \in 1..entries
        BY <1>0, <2>1, <3>1
      <4>2. QED BY <2>1, <3>1, <4>1 DEF AncestorsAgree
    <3>2. CASE e = n
      <4>1. ASSUME NEW x \in branch PROVE path'[x] = (branch \cup {n}) \cap 1..x
        <5>1. path'[x] = path[x] /\ path[x] = branch \cap 1..x /\ n \notin 1..x
          BY <1>0, <2>1 DEF AncestorsAgree
        <5>2. QED BY <5>1
      <4>2. path'[n] = (branch \cup {n}) \cap 1..n
        <5>1. branch \cup {n} \subseteq 1..n
          BY <1>0
        <5>2. QED BY <2>1, <5>1
      <4>3. QED BY <2>1, <3>2, <4>1, <4>2
    <3>3. QED BY <1>0, <3>1, <3>2
  <2>3. \A e \in branch' : path'[e] = branch' \cap 1..e
    <3>1. n \in 1..n /\ path'[n] = branch' /\ \A e \in branch' : e \in path'[n]
      BY <1>0, <2>1
    <3>2. QED BY <2>2, <3>1
  <2>4. QED BY <2>1, <2>2, <2>3 DEF AncestorsAgree
<1>2. ASSUME NEW e \in Entries, RewindCode(e) \/ RewindMessage(e) PROVE AncestorsAgree'
  <2>1. /\ UNCHANGED <<entries, path, turn>> /\ turn = "idle" /\ branch' = path[e] \ {e} /\ e \in 1..entries
    BY <1>0, <1>2 DEF RewindCode, RewindMessage, BranchBefore
  <2>2. ASSUME NEW x \in branch' PROVE path[x] = branch' \cap 1..x
    <3>1. x \in path[e] /\ x # e /\ x \in 1..e /\ e \notin 1..x
      BY <1>0, <2>1
    <3>2. path[x] = path[e] \cap 1..x
      BY <2>1, <3>1 DEF AncestorsAgree
    <3>3. QED BY <2>1, <3>1, <3>2
  <2>3. QED BY <2>1, <2>2 DEF AncestorsAgree
<1>3. CASE UNCHANGED treeVars /\ (turn' # "idle" => turn # "idle")
  BY <1>3 DEF treeVars, AncestorsAgree
<1>4. QED
  BY <1>1, <1>2, <1>3
     DEF Next, vars, ghosts, treeVars, TurnEnds, Compact, Restart, Resets, Swept, AcceptAll, RevertAll, Accept, Revert,
         Runs, ToolResult, ToolCall, Outside, Hides, Shows, AcceptFile, RevertFile

LEMMA NextOrder == Types /\ ChangesInOrder /\ [Next]_vars => ChangesInOrder'
<1> SUFFICES ASSUME Types, ChangesInOrder, [Next]_vars PROVE ChangesInOrder'
  OBVIOUS
<1>1. ASSUME NEW c \in Calls, ToolResult(c), Records(c) PROVE ChangesInOrder'
  <2> DEFINE f == target[c]
  <2>1. PICK h : h = [at |-> pending[c].at, before |-> pending[c].before, after |-> seen[f]]
    OBVIOUS
  <2>2. /\ c \in InFlight /\ f \in Files /\ h \in Change /\ history[f] \in Seq(Change) /\ h.at = entries
    <3>1. c \in InFlight
      BY <1>1 DEF ToolResult, Types, Shapes, CallsMatch
    <3>2. QED BY <1>1, <2>1, <3>1, RecordedIsChange DEF Records, Types, Shapes, TypeOK, ChangesInOrder
  <2>3. /\ history' = [history EXCEPT ![f] = Append(history[f], h)] /\ entries' = entries
        /\ InFlight' \subseteq InFlight /\ \A d \in InFlight' : pending'[d] = pending[d]
    BY <1>1, <2>1 DEF ToolResult, Ended, Records, Recording, treeVars, InFlight, Types, Shapes, TypeOK
  <2>4. ASSUME NEW g \in Files, NEW i \in DOMAIN history'[g], NEW j \in DOMAIN history'[g]
        PROVE  history'[g][i].at <= entries /\ (i < j => history'[g][i].at <= history'[g][j].at)
    <3>1. CASE g # f
      BY <2>2, <2>3, <3>1 DEF ChangesInOrder, Types, Shapes, TypeOK
    <3>2. CASE g = f
      <4>1. history'[f] = Append(history[f], h)
        BY <2>2, <2>3 DEF Types, Shapes, TypeOK
      <4>2. \A k \in DOMAIN history'[f] :
              k \in Nat /\ (\/ k \in DOMAIN history[f] /\ history'[f][k] = history[f][k]
                            \/ k = Len(history[f]) + 1 /\ history'[f][k] = h)
        BY <2>2, <4>1
      <4>3. entries \in Nat /\ \A k \in DOMAIN history[f] : k <= Len(history[f]) /\ history[f][k].at <= entries
        BY <2>2 DEF ChangesInOrder, Types, Shapes, TypeOK
      <4>4. Len(history[f]) \in Nat /\ (i \in DOMAIN history[f] /\ j \in DOMAIN history[f] =>
              (i < j => history[f][i].at <= history[f][j].at))
        BY <2>2 DEF ChangesInOrder
      <4>5. i \in Nat /\ j \in Nat /\ history'[f][i].at <= entries
        BY <2>2, <3>2, <4>2, <4>3
      <4>6. ASSUME i < j PROVE history'[f][i].at <= history'[f][j].at
        <5>1. CASE j \in DOMAIN history[f] /\ history'[f][j] = history[f][j]
          <6>1. i \in DOMAIN history[f] /\ history'[f][i] = history[f][i]
            BY <3>2, <4>2, <4>3, <4>4, <4>5, <4>6, <5>1
          <6>2. QED BY <4>4, <4>6, <5>1, <6>1
        <5>2. CASE history'[f][j] = h
          BY <2>2, <4>5, <5>2
        <5>3. QED BY <3>2, <4>2, <5>1, <5>2
      <4>7. QED BY <3>2, <4>5, <4>6
    <3>3. QED BY <3>1, <3>2
  <2>5. QED BY <2>3, <2>4 DEF ChangesInOrder
<1>2. ASSUME NEW c \in Calls, ToolResult(c), ~Records(c) PROVE ChangesInOrder'
  BY <1>2 DEF ToolResult, Ended, treeVars, InFlight, ChangesInOrder, Types, Shapes, TypeOK
<1>3. ASSUME NEW c \in Calls, NEW f \in Files, ToolCall(c, f) PROVE ChangesInOrder'
  <2>1. pending'[c] = [at |-> entries, before |-> seen[f]] /\ UNCHANGED <<history, entries>>
    BY <1>3 DEF ToolCall, treeVars, Types, Shapes, TypeOK
  <2>2. pending'[c].at = entries
    BY <2>1
  <2>3. \A d \in InFlight' : d = c \/ (d \in InFlight /\ pending'[d] = pending[d])
    BY <1>3 DEF ToolCall, InFlight, Types, Shapes, TypeOK
  <2>4. QED BY <2>1, <2>2, <2>3 DEF ChangesInOrder
<1>4. CASE Send
  <2>1. entries' = entries + 1 /\ InFlight' = {} /\ history' = history
    BY <1>4 DEF Send, NewEntry, InFlight
  <2>2. ASSUME NEW f \in Files, NEW i \in DOMAIN history[f] PROVE history[f][i].at \in Nat
    <3>1. history[f] \in Seq(Change)
      BY DEF Types, Shapes, TypeOK
    <3>2. history[f][i] \in Change
      BY <3>1
    <3>3. QED BY <3>2 DEF Change, Entries
  <2>3. entries \in Nat
    BY DEF Types, Shapes, TypeOK
  <2>4. QED BY <2>1, <2>2, <2>3 DEF ChangesInOrder
<1>5. CASE Compact \/ Restart
  <2>1. InFlight' = {} /\ \A f \in Files : history'[f] = <<>>
    BY <1>5 DEF Compact, Restart, Resets, InFlight
  <2>2. QED BY <2>1 DEF ChangesInOrder
<1>6. CASE UNCHANGED <<history, entries, target, pending>>
  BY <1>6 DEF ChangesInOrder, InFlight
<1>7. QED
  BY <1>1, <1>2, <1>3, <1>4, <1>5, <1>6
     DEF Next, vars, ghosts, treeVars, TurnEnds, Swept, AcceptAll, RevertAll, Accept, Revert, RewindCode, RewindMessage,
         Runs, Outside, Hides, Shows, AcceptFile, RevertFile

--------------------------------------------------------------------------------
\* What calls find

\* A file that only its calls changed can be read.
LEMMA AloneIsSeen ==
  ASSUME Types, NEW g \in Files, g \notin tangled \cap foreign
  PROVE  g \notin hidden /\ seen[g] = disk[g]
BY SeenIsState DEF Types, Shapes, HiddenIsExcused

\* A call begins on a file that is alone: it finds it as it is.
LEMMA ToolCallAlone ==
  ASSUME Types, CallsAreAlone, NEW c \in Calls, NEW f \in Files, ToolCall(c, f),
         NEW g \in Files, g \notin tangled' \cap foreign'
  PROVE  Alone(g)' /\ \A s : IsFound(g, s) => IsFound(g, s)'
<1>1. /\ UNCHANGED <<disk, ran>> /\ c \notin InFlight /\ InFlight' = InFlight \cup {c} /\ target'[c] = f
      /\ tangled \subseteq tangled' /\ foreign \subseteq foreign'
      /\ (\E d \in InFlight : target[d] = f) => f \in tangled' \cap foreign'
      /\ \A d \in InFlight : target'[d] = target[d] /\ pending'[d] = pending[d]
  BY RewindAssumption DEF ToolCall, Types, Shapes, TypeOK, InFlight
<1>2. g = f => pending'[c].before = disk[f]
  <2>1. pending'[c] = [at |-> entries, before |-> seen[f]]
    BY DEF ToolCall, Types, Shapes, TypeOK
  <2>2. g = f => seen[f] = disk[f]
    BY <1>1, AloneIsSeen
  <2>3. QED BY <2>1, <2>2
<1>3. Alone(g)
  BY <1>1 DEF CallsAreAlone
<1>4. CASE g = f
  <2>1. \A d \in InFlight : target[d] # f
    BY <1>1, <1>4
  <2>2. QED BY <1>1, <1>2, <1>3, <1>4, <2>1 DEF Alone, IsFound
<1>5. CASE g # f
  BY <1>1, <1>3, <1>5 DEF Alone, IsFound
<1>6. QED BY <1>4, <1>5

LEMMA RunsAlone ==
  ASSUME Types, CallsAreAlone, NEW c \in Calls, Runs(c), NEW g \in Files, g \notin tangled \cap foreign
  PROVE  Alone(g)' /\ \A s : IsFound(g, s) => IsFound(g, s)'
<1>1. /\ UNCHANGED <<target, pending>> /\ InFlight' = InFlight /\ ran' = ran \cup {c} /\ c \in InFlight
      /\ target[c] \in Files /\ \A k \in Files : k # target[c] => disk'[k] = disk[k]
      /\ disk'[target[c]] = disk[target[c]] \/ disk'[target[c]] \in Contents
  BY DEF Runs, ghosts, InFlight, Types, Shapes, TypeOK
<1>2. Alone(g)
  BY DEF CallsAreAlone
<1>3. CASE g = target[c]
  BY <1>1, <1>2, <1>3, RewindAssumption DEF Alone, IsFound
<1>4. CASE g # target[c]
  BY <1>1, <1>2, <1>4 DEF Alone, IsFound
<1>5. QED BY <1>3, <1>4

\* A result leaves what was found, but for the file whose change it records.
LEMMA ToolResultAlone ==
  ASSUME Types, CallsAreAlone, NEW c \in Calls, ToolResult(c), NEW g \in Files, g \notin tangled \cap foreign
  PROVE  /\ Alone(g)'
         /\ g # target[c] \/ ~Records(c) => \A s : IsFound(g, s) => IsFound(g, s)'
         /\ g = target[c] => IsFound(g, pending[c].before) /\ IsFound(g, disk[g])'
<1>1. /\ c \in InFlight /\ target[c] \in Files /\ c \in ran /\ disk' = disk
      /\ InFlight' = InFlight \ {c} /\ ran' = ran \ {c}
      /\ \A d \in InFlight' : target'[d] = target[d] /\ pending'[d] = pending[d]
  BY DEF ToolResult, Ended, Types, Shapes, TypeOK, CallsMatch, InFlight
<1>2. Alone(g)
  BY DEF CallsAreAlone
<1>3. Alone(g)'
  BY <1>1, <1>2 DEF Alone
<1>4. CASE g # target[c]
  BY <1>1, <1>3, <1>4 DEF IsFound
<1>5. CASE g = target[c]
  <2>1. /\ \A d \in InFlight : target[d] = g => d = c
        /\ pending[c].before # Big /\ disk[g] # Big
    BY <1>1, <1>2, <1>5 DEF Alone
  <2>2. IsFound(g, pending[c].before)
    BY <1>1, <1>5, <2>1 DEF IsFound
  <2>3. \A d \in InFlight' : target'[d] # g
    BY <1>1, <2>1
  <2>4. IsFound(g, disk[g])'
    BY <2>3 DEF IsFound
  <2>5. ASSUME ~Records(c), NEW s, IsFound(g, s) PROVE IsFound(g, s)'
    <3>1. pending[c].before = disk[g]
      BY <1>5, <2>1, <2>5, AloneIsSeen DEF ToolResult, Differs
    <3>2. s = disk'[g]
      BY <1>1, <1>5, <2>5, <3>1 DEF IsFound
    <3>3. QED BY <2>3, <3>2 DEF IsFound
  <2>6. QED BY <1>3, <1>5, <2>2, <2>4, <2>5
<1>6. QED BY <1>3, <1>4, <1>5

\* No call and no file changes.
LEMMA SameAlone ==
  ASSUME NEW g, InFlight' = InFlight,
         \A c \in InFlight : target'[c] = target[c] /\ pending'[c] = pending[c] /\ (c \in ran => c \in ran'),
         disk'[g] = disk[g]
  PROVE  (Alone(g) => Alone(g)') /\ \A s : IsFound(g, s) => IsFound(g, s)'
BY DEF Alone, IsFound

\* A file is found as it is where there is no call.
LEMMA FoundIdle == ASSUME NEW g, InFlight = {} PROVE IsFound(g, disk[g]) /\ \A s : IsFound(g, s) => s = disk[g]
BY DEF IsFound

LEMMA AloneIdle == ASSUME NEW g, InFlight' = {}, disk'[g] # Big PROVE Alone(g)'
BY DEF Alone

LEMMA NextAlone == Types /\ CallsAreAlone /\ [Next]_vars => CallsAreAlone'
<1> SUFFICES ASSUME Types, CallsAreAlone, [Next]_vars, NEW g \in Files, g \notin tangled' \cap foreign' PROVE Alone(g)'
  BY DEF CallsAreAlone
<1>0. g \notin tangled \cap foreign => Alone(g)
  BY DEF CallsAreAlone
<1>1. ASSUME NEW c \in Calls, NEW f \in Files, ToolCall(c, f) PROVE Alone(g)'
  BY <1>1, ToolCallAlone
<1>2. ASSUME NEW c \in Calls, Runs(c) \/ ToolResult(c) PROVE Alone(g)'
  <2>1. g \notin tangled \cap foreign
    BY <1>2 DEF Runs, ToolResult, ghosts, Records, Recording
  <2>2. QED BY <1>2, <2>1, RunsAlone, ToolResultAlone
<1>3. CASE UNCHANGED <<disk, target, ran, pending, tangled, foreign>>
  BY <1>0, <1>3, SameAlone DEF InFlight
<1>4. ASSUME NEW f \in Files, Outside(f) \/ Hides(f) \/ Shows(f) PROVE Alone(g)'
  <2>1. /\ UNCHANGED <<target, ran, pending>> /\ InFlight' = InFlight /\ disk'[g] = disk[g]
        /\ g \notin tangled \cap foreign
    BY <1>4 DEF Outside, Hides, Shows, ghosts, InFlight, Types, Shapes, TypeOK
  <2>2. QED BY <1>0, <2>1, SameAlone
<1>5. CASE InFlight' = {} /\ \/ disk'[g] # Big
                             \/ disk'[g] = disk[g] /\ tangled \subseteq tangled' /\ foreign \subseteq foreign'
  BY <1>0, <1>5, AloneIdle DEF Alone
<1>6. ASSUME NEW e \in Entries, RewindCode(e) PROVE Alone(g)'
  <2>1. disk'[g] = disk[g] \/ disk'[g] # Big
    <3>1. PICK done \in SUBSET Restorables(e) : disk' = Restored(e, done)
      BY <1>6 DEF RewindCode
    <3>2. CASE g \in done
      BY <3>1, <3>2, RewindAssumption DEF Restored, Restorables, Restorable, Types, Shapes, TypeOK
    <3>3. CASE g \notin done
      BY <3>1, <3>3 DEF Restored
    <3>4. QED BY <3>2, <3>3
  <2>2. InFlight' = {} /\ tangled \subseteq tangled' /\ foreign \subseteq foreign'
    BY <1>6, IdleHasNoCalls DEF RewindCode, InFlight
  <2>3. QED BY <1>5, <2>1, <2>2
<1>7. ASSUME NEW e \in Entries, RewindMessage(e) PROVE Alone(g)'
  <2>1. InFlight' = {} /\ disk' = disk /\ tangled \subseteq tangled' /\ foreign \subseteq foreign'
    BY <1>7, IdleHasNoCalls DEF RewindMessage, InFlight
  <2>2. QED BY <1>5, <2>1
<1>8. ASSUME NEW F \in SUBSET Files, Accept(F) PROVE Alone(g)'
  <2>1. InFlight' = {} /\ disk' = disk /\ tangled \subseteq tangled'
    BY <1>8, IdleHasNoCalls DEF Accept, Idle, InFlight
  <2>2. g \in foreign' \/ g \notin foreign \/ disk[g] # Big
    BY <1>8, SeenIsState DEF Accept, Types, Shapes
  <2>3. CASE disk[g] # Big
    BY <1>5, <2>1, <2>3
  <2>4. CASE disk[g] = Big
    BY <1>0, <2>1, <2>2, <2>4 DEF Alone
  <2>5. QED BY <2>3, <2>4
<1>9. ASSUME NEW F \in SUBSET Files, Revert(F) PROVE Alone(g)'
  <2>1. disk'[g] = disk[g] \/ disk'[g] # Big
    BY <1>9, RewindAssumption DEF Revert, Restorable, Types, Shapes, TypeOK
  <2>2. InFlight' = {} /\ tangled \subseteq tangled' /\ foreign \subseteq foreign'
    BY <1>9, IdleHasNoCalls DEF Revert, Idle, InFlight
  <2>3. QED BY <1>5, <2>1, <2>2
<1>10. CASE Compact \/ Restart
  <2>1. InFlight' = {} /\ disk' = disk /\ foreign' = {k \in Files : disk[k] = Big} \cup hidden /\ tangled' = foreign'
    BY <1>10 DEF Compact, Restart, Resets, InFlight
  <2>2. QED BY <1>5, <2>1
<1>11. CASE Send \/ TurnEnds \/ Swept \/ UNCHANGED vars
  BY <1>3, <1>11 DEF Send, TurnEnds, Swept, vars, ghosts
<1>12. QED
  BY <1>1, <1>2, <1>4, <1>6, <1>7, <1>8, <1>9, <1>10, <1>11
     DEF Next, AcceptAll, AcceptFile, RevertAll, RevertFile, Tracked

--------------------------------------------------------------------------------
\* The marks

\* The first change of a file is recorded with the state that its call found.
LEMMA RecordsMark ==
  ASSUME Types, CallsAreAlone, MarkIsKept, NEW c \in Calls, ToolResult(c), Records(c), NEW g \in Files
  PROVE  MarkIsKeptOf(g)'
<1> DEFINE f == target[c]
<1>1. PICK h : h = [at |-> pending[c].at, before |-> pending[c].before, after |-> seen[f]]
  OBVIOUS
<1>2. /\ c \in InFlight /\ f \in Files /\ h \in Change /\ history[f] \in Seq(Change) /\ pending[c].before # None
  <2>1. c \in InFlight
    BY DEF ToolResult, Types, Shapes, CallsMatch
  <2>2. h \in Change /\ f \in Files
    BY <1>1, <2>1, RecordedIsChange DEF Records, Types
  <2>3. h.before = pending[c].before /\ h.before # None
    BY <1>1, <2>2, RewindAssumption DEF Change, States
  <2>4. QED BY <2>1, <2>2, <2>3 DEF Types, Shapes, TypeOK
<1>3. /\ history' = [history EXCEPT ![f] = Append(history[f], h)] /\ UNCHANGED <<mark, foreign>>
      /\ baselines' = [baselines EXCEPT ![f] = FirstBaseline(c)]
  BY <1>1 DEF ToolResult, Records, Recording
<1>4. MarkIsKeptOf(g)
  BY DEF MarkIsKept
<1>5. CASE g # f
  <2>1. (g \in Tracked <=> g \in Tracked') /\ baselines'[g] = baselines[g]
    BY <1>2, <1>3, <1>5 DEF Tracked, Types, Shapes, TypeOK
  <2>2. ASSUME g \notin foreign, IsFound(g, mark[g]) PROVE IsFound(g, mark[g])'
    BY <1>3, <1>5, <2>2, ToolResultAlone
  <2>3. QED BY <1>3, <1>4, <2>1, <2>2 DEF MarkIsKeptOf
<1>6. CASE g = f
  <2>1. history'[f] # <<>> /\ baselines'[f] = FirstBaseline(c)
    <3>1. history'[f] = Append(history[f], h) /\ baselines'[f] = FirstBaseline(c)
      BY <1>2, <1>3 DEF Types, Shapes, TypeOK
    <3>2. QED BY <1>2, <3>1
  <2>2. f \in Tracked' /\ baselines'[f] # None
    BY <1>2, <2>1 DEF Tracked, FirstBaseline
  <2>3. ASSUME f \notin foreign PROVE baselines'[f] = mark[f]
    <3>1. CASE f \in Tracked
      BY <1>4, <1>6, <2>1, <2>3, <3>1 DEF MarkIsKeptOf, FirstBaseline
    <3>2. CASE f \notin Tracked
      <4>1. IsFound(f, mark[f]) /\ baselines[f] = None
        BY <1>4, <1>6, <2>3, <3>2 DEF MarkIsKeptOf
      <4>2. pending[c].before = mark[f]
        BY <1>2, <4>1 DEF IsFound
      <4>3. QED BY <2>1, <4>1, <4>2 DEF FirstBaseline
    <3>3. QED BY <3>1, <3>2
  <2>4. QED BY <1>3, <1>6, <2>2, <2>3 DEF MarkIsKeptOf
<1>7. QED BY <1>5, <1>6

LEMMA NextMark == Types /\ CallsAreAlone /\ MarkIsKept /\ [Next]_vars => MarkIsKept'
<1> SUFFICES ASSUME Types, CallsAreAlone, MarkIsKept, [Next]_vars, NEW g \in Files PROVE MarkIsKeptOf(g)'
  BY DEF MarkIsKept
<1>0. MarkIsKeptOf(g)
  BY DEF MarkIsKept
<1>1. ASSUME UNCHANGED <<history, baselines, mark>>, foreign \subseteq foreign',
             g \notin foreign' => \A s : IsFound(g, s) => IsFound(g, s)'
      PROVE  MarkIsKeptOf(g)'
  BY <1>0, <1>1 DEF MarkIsKeptOf, Tracked
<1>2. ASSUME NEW c \in Calls, NEW f \in Files, ToolCall(c, f) PROVE MarkIsKeptOf(g)'
  <2>1. UNCHANGED <<history, baselines, mark>> /\ foreign \subseteq foreign'
    BY <1>2 DEF ToolCall
  <2>2. QED BY <1>1, <1>2, <2>1, ToolCallAlone
<1>3. ASSUME NEW c \in Calls, Runs(c) PROVE MarkIsKeptOf(g)'
  <2>1. UNCHANGED <<history, baselines, mark, foreign>>
    BY <1>3 DEF Runs, ghosts
  <2>2. QED BY <1>1, <1>3, <2>1, RunsAlone
<1>4. ASSUME NEW c \in Calls, ToolResult(c) PROVE MarkIsKeptOf(g)'
  <2>1. CASE Records(c)
    BY <1>4, <2>1, RecordsMark
  <2>2. CASE ~Records(c)
    <3>1. UNCHANGED <<history, baselines, mark, foreign>>
      BY <1>4, <2>2 DEF ToolResult
    <3>2. QED BY <1>1, <1>4, <2>2, <3>1, ToolResultAlone
  <2>3. QED BY <2>1, <2>2
<1>5. CASE Send \/ TurnEnds \/ Swept \/ UNCHANGED vars
  <2>1. UNCHANGED <<history, baselines, mark, foreign, disk, target, ran, pending>> /\ InFlight' = InFlight
    BY <1>5 DEF Send, TurnEnds, Swept, vars, ghosts, InFlight
  <2>2. QED BY <1>1, <2>1, SameAlone
<1>6. ASSUME NEW f \in Files, Outside(f) \/ Hides(f) \/ Shows(f) PROVE MarkIsKeptOf(g)'
  <2>1. UNCHANGED <<history, baselines, mark, target, ran, pending>> /\ InFlight' = InFlight
        /\ foreign \subseteq foreign' /\ (g \notin foreign' => disk'[g] = disk[g])
    BY <1>6 DEF Outside, Hides, Shows, ghosts, InFlight, Types, Shapes, TypeOK
  <2>2. QED BY <1>1, <2>1, SameAlone
<1>7. ASSUME InFlight = {}, InFlight' = {}, UNCHANGED <<history, baselines, mark>>, foreign \subseteq foreign',
             g \notin Tracked => disk'[g] = disk[g]
      PROVE  MarkIsKeptOf(g)'
  <2>1. g \notin Tracked => \A s : IsFound(g, s) => IsFound(g, s)'
    BY <1>7 DEF IsFound
  <2>2. QED BY <1>0, <1>7, <2>1 DEF MarkIsKeptOf, Tracked
<1>8. ASSUME NEW e \in Entries, RewindCode(e) \/ RewindMessage(e) PROVE MarkIsKeptOf(g)'
  <2>1. InFlight = {} /\ InFlight' = {} /\ UNCHANGED <<history, baselines, mark, foreign>>
    BY <1>8, IdleHasNoCalls DEF RewindCode, RewindMessage, InFlight
  <2>2. ASSUME g \notin Tracked PROVE disk'[g] = disk[g]
    <3>1. g \notin Affected(e)
      BY <2>2 DEF Tracked, Affected, Places, OnBranch, At
    <3>2. QED BY <1>8, <3>1 DEF RewindCode, RewindMessage, Restored, Restorables
  <2>3. QED BY <1>7, <2>1, <2>2
<1>9. ASSUME NEW F \in SUBSET Files, F \subseteq Tracked, Revert(F) PROVE MarkIsKeptOf(g)'
  <2>1. InFlight = {} /\ InFlight' = {} /\ UNCHANGED <<history, baselines, mark, foreign>>
    BY <1>9, IdleHasNoCalls DEF Revert, Idle, InFlight
  <2>2. g \notin Tracked => disk'[g] = disk[g]
    BY <1>9 DEF Revert, Changed
  <2>3. QED BY <1>7, <2>1, <2>2
<1>10. ASSUME NEW F \in SUBSET Files, F \subseteq Tracked, Accept(F) PROVE MarkIsKeptOf(g)'
  <2>1. InFlight = {} /\ InFlight' = {} /\ UNCHANGED <<history, disk>> /\ Tracked' = Tracked
    BY <1>10, IdleHasNoCalls DEF Accept, Idle, InFlight, Tracked
  <2>2. CASE g \in F /\ seen[g] # Big
    <3>1. baselines'[g] = seen[g] /\ mark'[g] = disk[g] /\ g \in Tracked /\ seen[g] # None
      BY <1>10, <2>2, SeenIsState, RewindAssumption DEF Accept, Types, Shapes, TypeOK
    <3>2. g \notin foreign' => seen[g] = disk[g]
      BY <1>10, SeenIsState DEF Accept, Types, Shapes, HiddenIsExcused
    <3>3. QED BY <2>1, <3>1, <3>2 DEF MarkIsKeptOf
  <2>3. CASE ~(g \in F /\ seen[g] # Big)
    <3>1. baselines'[g] = baselines[g] /\ mark'[g] = mark[g] /\ (g \in foreign' <=> g \in foreign)
      BY <1>10, <2>3 DEF Accept
    <3>2. \A s : IsFound(g, s) => IsFound(g, s)'
      BY <2>1 DEF IsFound
    <3>3. QED BY <1>0, <2>1, <3>1, <3>2 DEF MarkIsKeptOf
  <2>4. QED BY <2>2, <2>3
<1>11. CASE Compact \/ Restart
  <2>1. /\ InFlight' = {} /\ disk' = disk /\ mark'[g] = disk[g]
        /\ history'[g] = <<>> /\ baselines'[g] = None
    BY <1>11 DEF Compact, Restart, Resets, InFlight
  <2>2. QED BY <2>1 DEF MarkIsKeptOf, Tracked, IsFound
<1>12. QED
  BY <1>2, <1>3, <1>4, <1>5, <1>6, <1>8, <1>9, <1>10, <1>11
     DEF Next, AcceptAll, AcceptFile, RevertAll, RevertFile, Tracked

\* What reverting everything restores: the baselines, which are the marks.
LEMMA RevertsToMark ==
  ASSUME Types, SnapshotsKept, CallsAreAlone, MarkIsKept, RevertAll,
         NEW f \in Files, f \notin foreign, mark[f] \notin lost
  PROVE  disk'[f] = mark[f]
<1>1. InFlight = {} /\ disk[f] # Big
  BY IdleHasNoCalls DEF RevertAll, Revert, Idle, CallsAreAlone, Alone
<1>2. CASE f \in Tracked
  <2>1. baselines[f] = mark[f] /\ mark[f] \in Known
    BY <1>2, RewindAssumption DEF MarkIsKept, MarkIsKeptOf, Types, Shapes, TypeOK, Known, States
  <2>2. Restorable(mark[f])
    <3>1. mark[f] \in Contents => mark[f] \in Needed
      BY <2>1 DEF Needed, Recorded
    <3>2. QED BY <2>1, <3>1 DEF SnapshotsKept, Restorable, Known
  <2>3. f \notin hidden /\ seen[f] = disk[f]
    BY AloneIsSeen
  <2>4. PICK done : /\ Writes({k \in Changed(Tracked, seen, baselines) : Restorable(baselines[k])}, done)
                    /\ disk' = [k \in Files |-> IF k \in done THEN baselines[k] ELSE disk[k]]
    BY DEF RevertAll, Revert
  <2>5. f \in done \/ disk[f] = mark[f]
    BY <1>1, <1>2, <2>1, <2>2, <2>3, <2>4 DEF Writes, Changed
  <2>6. QED BY <2>1, <2>4, <2>5
<1>3. CASE f \notin Tracked
  <2>1. disk[f] = mark[f]
    BY <1>1, <1>3 DEF MarkIsKept, MarkIsKeptOf, IsFound
  <2>2. QED BY <1>3, <2>1 DEF RevertAll, Revert, Changed
<1>4. QED BY <1>2, <1>3

--------------------------------------------------------------------------------
\* What a rewind restores

LEMMA BeforeOnBranch ==
  ASSUME Types, AncestorsAgree, NEW e \in branch
  PROVE  e \in Nat /\ \A x : x \in BranchBefore(e) <=> x \in branch /\ x < e
<1>1. branch \subseteq 1..entries /\ entries \in Nat /\ path[e] = branch \cap 1..e
  BY DEF Types, Shapes, TypeOK, AncestorsAgree
<1>2. e \in 1..entries /\ e \in Nat
  BY <1>1
<1>3. ASSUME NEW x PROVE x \in BranchBefore(e) <=> x \in branch /\ x < e
  <2>1. x \in BranchBefore(e) <=> x \in branch /\ x \in 1..e /\ x # e
    BY <1>1 DEF BranchBefore
  <2>2. CASE x \in branch
    <3>1. x \in Nat /\ 1 <= x
      BY <1>1, <2>2
    <3>2. QED BY <1>2, <2>1, <2>2, <3>1
  <2>3. CASE x \notin branch
    BY <2>1, <2>3
  <2>4. QED BY <2>2, <2>3
<1>4. QED BY <1>2, <1>3

\* The change that is found at a place is one there.
LEMMA FoundAtPlace ==
  ASSUME Types, NEW f \in Files, NEW a \in Places(f)
  PROVE  \E i \in DOMAIN history[f] : history[f][i].at = a /\ FirstAt(f, a) = history[f][i]
<1>1. PICK S : S = {i \in OnBranch(f) : history[f][i].at = a}
  OBVIOUS
<1>2. history[f] \in Seq(Change)
  BY DEF Types, Shapes, TypeOK
<1>3. S \in SUBSET (1..Len(history[f])) /\ Len(history[f]) \in Nat /\ S # {}
  BY <1>1, <1>2 DEF Places, OnBranch, At
<1>4. Min(S) \in S
  BY <1>3, EndsAreThere
<1>5. Min(S) \in DOMAIN history[f] /\ history[f][Min(S)].at = a
  BY <1>1, <1>4 DEF OnBranch, At
<1>6. QED BY <1>1, <1>5 DEF FirstAt

\* A file changed at the message is taken back to what the first change there found: what the
\* changes before the message left.
LEMMA RestoresTheState ==
  ASSUME Types, NEW f \in Files, NEW b, Explains(f, b), NEW e \in branch, e \in Places(f)
  PROVE  RestorePoint(f, e) = After(history[f], BranchBefore(e), b)
<1>1. PICK H : H = history[f]
  OBVIOUS
<1>2. H \in Seq(Change)
  BY <1>1 DEF Types, Shapes, TypeOK
<1>3. PICK S : S = {i \in OnBranch(f) : H[i].at = e}
  OBVIOUS
<1>4. S \in SUBSET (1..Len(H)) /\ Len(H) \in Nat /\ DOMAIN H = 1..Len(H) /\ S # {}
  BY <1>1, <1>2, <1>3 DEF Places, OnBranch, At
<1>5. PICK i : i = Min(S)
  OBVIOUS
<1>6. i \in S /\ \A j \in S : i <= j
  BY <1>4, <1>5, EndsAreThere
<1>7. i \in DOMAIN H /\ H[i].at = e /\ RestorePoint(f, e) = H[i].before
  BY <1>1, <1>3, <1>4, <1>5, <1>6 DEF RestorePoint, FirstAt
<1>8. IsFirst(H, i)
  <2>1. ASSUME NEW j \in DOMAIN H, j < i, H[j].at = H[i].at PROVE FALSE
    <3>1. j \in S
      BY <1>1, <1>3, <1>7, <2>1 DEF OnBranch, At
    <3>2. j \in Nat /\ i \in Nat /\ i <= j
      BY <1>4, <1>6, <3>1
    <3>3. QED BY <2>1, <3>2
  <2>2. QED BY <2>1 DEF IsFirst
<1>9. H[i].before = After(H, BranchBefore(H[i].at), b)
  BY <1>1, <1>7, <1>8 DEF Explains
<1>10. QED BY <1>1, <1>7, <1>9

\* A file without a change on the branch is still as its first state.
LEMMA NotOnBranch ==
  ASSUME Types, AncestorsAgree, NEW f \in Files, NEW e \in branch, Places(f) = {}
  PROVE  f \notin Affected(e) /\ Pos(history[f], branch) = Pos(history[f], BranchBefore(e))
<1>1. OnBranch(f) = {} /\ f \notin Affected(e)
  BY DEF Places, Affected
<1>2. \A x : x \in BranchBefore(e) => x \in branch
  BY BeforeOnBranch
<1>3. QED BY <1>1, <1>2 DEF OnBranch, At, Pos

\* A rewind gives a file that it can restore, or that was not changed on the branch, the state that
\* its changes before the message left.
LEMMA RewindGives ==
  ASSUME Types, AncestorsAgree, NEW f \in Files, NEW b, Explains(f, b), NEW e \in branch, InFlight = {},
         NEW done, disk' = Restored(e, done), done \subseteq Restorables(e),
         Places(f) = {} \/ (e \in Places(f) /\ f \in done)
  PROVE  disk'[f] = After(history[f], BranchBefore(e), b)
<1>1. CASE Places(f) = {}
  <2>1. f \notin done /\ Pos(history[f], branch) = Pos(history[f], BranchBefore(e))
    BY <1>1, NotOnBranch DEF Restorables
  <2>2. disk'[f] = disk[f]
    BY <2>1 DEF Restored
  <2>3. disk[f] = After(history[f], branch, b)
    BY FoundIdle DEF Explains
  <2>4. QED BY <2>1, <2>2, <2>3, AfterSame
<1>2. CASE e \in Places(f) /\ f \in done
  BY <1>2, RestoresTheState DEF Restored
<1>3. QED BY <1>1, <1>2

--------------------------------------------------------------------------------
\* The changes explain what is found

\* Nothing is recorded or sent, and the branch has the file's changes that it had.
LEMMA ExplainsSame ==
  ASSUME NEW f, NEW b, Explains(f, b), history'[f] = history[f], UNCHANGED <<entries, path, sent, floor>>,
         \A s : IsFound(f, s) => IsFound(f, s)',
         Pos(history[f], branch') = Pos(history[f], branch)
  PROVE  Explains(f, b)'
<1>1. PICK t : t = After(history[f], branch, b)
  OBVIOUS
<1>2. After(history'[f], branch', b) = t
  BY <1>1, AfterSame
<1>3. \A e : BranchBefore(e)' = BranchBefore(e)
  BY DEF BranchBefore
<1>4. IsFound(f, t)'
  BY <1>1 DEF Explains
<1>5. QED BY <1>2, <1>3, <1>4 DEF Explains

\* A message is sent on the branch, with the file as its changes there left it.
LEMMA SendExplains ==
  ASSUME Types, ChangesInOrder, Send, NEW f \in Files, NEW b, Explains(f, b)
  PROVE  Explains(f, b)'
<1>0. PICK n : n = entries + 1
  OBVIOUS
<1>1. PICK H : H = history[f]
  OBVIOUS
<1>2. /\ H \in Seq(Change) /\ entries \in Nat /\ branch \subseteq 1..entries /\ n \in Entries
      /\ floor \in Nat /\ \A i \in DOMAIN H : H[i].at \in 1..entries
  <2>1. H \in Seq(Change) /\ entries \in Nat /\ branch \subseteq 1..entries /\ floor \in Nat
    BY <1>1 DEF Types, Shapes, TypeOK
  <2>2. ASSUME NEW i \in DOMAIN H PROVE H[i].at \in 1..entries
    <3>1. H[i] \in Change
      BY <2>1
    <3>2. PICK a : a = H[i].at
      OBVIOUS
    <3>3. a \in Entries /\ a <= entries
      BY <1>1, <3>1, <3>2 DEF ChangesInOrder, Change
    <3>4. QED BY <2>1, <3>2, <3>3 DEF Entries
  <2>3. n \in Entries
    BY <1>0, <2>1, RewindAssumption DEF Send, Entries
  <2>4. QED BY <2>1, <2>2, <2>3
<1>3. /\ entries' = n /\ branch' = branch \cup {n} /\ path' = [path EXCEPT ![n] = branch \cup {n}]
      /\ sent' = [sent EXCEPT ![n] = disk] /\ UNCHANGED <<history, floor, disk>> /\ InFlight = {} /\ InFlight' = {}
  BY <1>0 DEF Send, NewEntry, InFlight
<1>4. n \notin 1..entries /\ n \notin branch
  BY <1>0, <1>2
<1>5. /\ path'[n] = branch \cup {n} /\ sent'[n][f] = disk[f]
      /\ \A e \in 1..entries : e \in Entries /\ path'[e] = path[e] /\ sent'[e] = sent[e]
  <2>1. \A e \in 1..entries : e \in Entries /\ e # n
    BY <1>0, <1>2, RewindAssumption DEF Entries
  <2>2. path \in [Entries -> SUBSET Entries] /\ sent \in [Entries -> [Files -> States]]
    BY DEF Types, Shapes, TypeOK
  <2>3. QED BY <1>2, <1>3, <2>1, <2>2
<1>6. BranchBefore(n)' = branch /\ \A e \in 1..entries : BranchBefore(e)' = BranchBefore(e)
  BY <1>4, <1>5 DEF BranchBefore
<1>7. disk[f] = After(H, branch, b)
  BY <1>1, <1>3, FoundIdle DEF Explains
<1>8. Pos(H, branch') = Pos(H, branch)
  BY <1>2, <1>3, <1>4 DEF Pos
<1>9. After(H, branch', b) = disk'[f] /\ IsFound(f, disk[f])'
  <2>1. After(H, branch', b) = disk'[f]
    BY <1>3, <1>7, <1>8, AfterSame
  <2>2. QED BY <1>3, <2>1 DEF IsFound
<1>10. ASSUME NEW e \in (floor + 1)..n PROVE sent'[e][f] = After(H, BranchBefore(e)', b)
  <2>1. CASE e = n
    BY <1>5, <1>6, <1>7, <2>1
  <2>2. CASE e # n
    <3>1. e \in (floor + 1)..entries /\ e \in 1..entries
      BY <1>0, <1>2, <2>2
    <3>2. QED BY <1>1, <1>5, <1>6, <3>1 DEF Explains
  <2>3. QED BY <2>1, <2>2
<1>11. \A i \in DOMAIN H : IsFirst(H, i) => H[i].before = After(H, BranchBefore(H[i].at)', b)
  BY <1>1, <1>2, <1>6 DEF Explains
<1>12. history'[f] = H
  BY <1>1, <1>3
<1>13. PICK t : t = disk[f]
  OBVIOUS
<1>14. t = After(H, branch', b) /\ IsFound(f, t)'
  BY <1>3, <1>9, <1>13
<1>15. QED BY <1>0, <1>3, <1>10, <1>11, <1>12, <1>14 DEF Explains

\* A change is recorded: if it is the first of its file at its message, its call found what the
\* changes before that message left; and the file is now what it left.
LEMMA RecordExplains ==
  ASSUME Types, AncestorsAgree, ChangesInOrder, CallsAreAlone, NEW c \in Calls, ToolResult(c), Records(c),
         NEW f, f = target[c], f \notin tangled, NEW b, Explains(f, b)
  PROVE  Explains(f, b)'
<1>1. PICK h : h = [at |-> pending[c].at, before |-> pending[c].before, after |-> seen[f]]
  OBVIOUS
<1>2. PICK H : H = history[f]
  OBVIOUS
<1>3. /\ c \in InFlight /\ f \in Files /\ h \in Change /\ H \in Seq(Change)
      /\ h.at = entries /\ h.before = pending[c].before /\ h.after = seen[f]
  <2>1. c \in InFlight
    BY DEF ToolResult, Types, Shapes, CallsMatch
  <2>2. h \in Change /\ f \in Files
    BY <1>1, <2>1, RecordedIsChange DEF Records, Types
  <2>3. H \in Seq(Change)
    BY <1>2, <2>2 DEF Types, Shapes, TypeOK
  <2>4. h.at = entries
    BY <1>1, <2>1 DEF ChangesInOrder
  <2>5. QED BY <1>1, <2>1, <2>2, <2>3, <2>4
<1>4. history'[f] = Append(H, h) /\ UNCHANGED <<entries, path, branch, sent, floor, disk>>
  <2>1. history' = [history EXCEPT ![f] = Append(H, h)] /\ UNCHANGED <<entries, path, branch, sent, floor, disk>>
    BY <1>1, <1>2 DEF ToolResult, Records, Recording, treeVars
  <2>2. QED BY <1>3, <2>1 DEF Types, Shapes, TypeOK
<1>5. PICK G : G = Append(H, h)
  OBVIOUS
<1>6. /\ Len(H) \in Nat /\ DOMAIN H = 1..Len(H) /\ DOMAIN G = 1..(Len(H) + 1)
      /\ G[Len(H) + 1] = h /\ \A i \in 1..Len(H) : G[i] = H[i]
  BY <1>3, <1>5
<1>7. IsFirst(G, Len(H) + 1) => \A i \in DOMAIN H : H[i].at # entries
  <2>1. \A i \in DOMAIN H : i \in DOMAIN G /\ i < Len(H) + 1 /\ G[i] = H[i]
    BY <1>6
  <2>2. G[Len(H) + 1].at = entries
    BY <1>3, <1>6
  <2>3. QED BY <2>1, <2>2 DEF IsFirst
<1>8. /\ entries \in branch /\ BranchBefore(entries) = branch \ {entries}
  <2>1. turn # "idle"
    BY <1>3 DEF Types, Shapes, CallsMatch
  <2>2. entries \in branch /\ path[entries] = branch \cap 1..entries
    BY <2>1 DEF AncestorsAgree
  <2>3. branch \subseteq 1..entries
    BY DEF Types, Shapes, TypeOK
  <2>4. QED BY <2>2, <2>3 DEF BranchBefore
<1>9. \A e \in 1..entries : entries \notin BranchBefore(e)
  <2>1. entries \in Nat /\ \A e \in 1..entries : path[e] \subseteq 1..e
    BY RewindAssumption DEF Types, Shapes, TypeOK, TreeIsOrdered, Entries
  <2>2. QED BY <2>1 DEF BranchBefore
<1>10. \A e \in 1..entries : After(G, BranchBefore(e), b) = After(H, BranchBefore(e), b)
  BY <1>3, <1>5, <1>9, AppendedElsewhere
<1>11. IsFirst(G, Len(H) + 1) => h.before = After(H, BranchBefore(entries), b)
  <2>1. pending[c].before = After(H, branch, b)
    BY <1>2, <1>3 DEF Explains, IsFound
  <2>2. IsFirst(G, Len(H) + 1) => Pos(H, branch) = Pos(H, BranchBefore(entries))
    BY <1>7, <1>8 DEF Pos
  <2>3. QED BY <1>3, <2>1, <2>2, AfterSame
<1>12. After(G, branch, b) = disk[f]
  <2>1. seen[f] = disk[f]
    BY <1>3, AloneIsSeen
  <2>2. QED BY <1>3, <1>5, <1>8, <2>1, AppendedLast
<1>13. IsFound(f, disk[f])'
  BY <1>3, ToolResultAlone
<1>14. ASSUME NEW i \in DOMAIN G, IsFirst(G, i) PROVE G[i].before = After(G, BranchBefore(G[i].at), b)
  <2>1. CASE i \in DOMAIN H
    <3>0. IsFirst(H, i)
      <4>1. \A j \in DOMAIN H : j \in DOMAIN G /\ G[j] = H[j]
        BY <1>6
      <4>2. QED BY <1>14, <2>1, <4>1 DEF IsFirst
    <3>1. G[i] = H[i] /\ H[i].before = After(H, BranchBefore(H[i].at), b)
      BY <1>2, <1>6, <2>1, <3>0 DEF Explains
    <3>2. H[i].at \in 1..entries
      <4>1. H[i] \in Change /\ H[i].at <= entries
        BY <1>2, <1>3, <2>1 DEF ChangesInOrder
      <4>2. PICK a : a = H[i].at
        OBVIOUS
      <4>3. a \in Entries /\ a <= entries /\ entries \in Nat
        BY <4>1, <4>2 DEF Change, Types, Shapes, TypeOK
      <4>4. QED BY <4>2, <4>3 DEF Entries
    <3>3. QED BY <1>10, <3>1, <3>2
  <2>2. CASE i = Len(H) + 1
    <3>1. entries \in 1..entries
      BY <1>8 DEF Types, Shapes, TypeOK
    <3>2. QED BY <1>3, <1>6, <1>10, <1>11, <1>14, <2>2, <3>1
  <2>3. QED BY <1>6, <2>1, <2>2
<1>15. ASSUME NEW e \in (floor + 1)..entries PROVE sent[e][f] = After(G, BranchBefore(e), b)
  <2>1. e \in 1..entries
    BY DEF Types, Shapes, TypeOK
  <2>2. QED BY <1>2, <1>10, <2>1 DEF Explains
<1>16. history'[f] = G /\ \A e : BranchBefore(e)' = BranchBefore(e)
  BY <1>4, <1>5 DEF BranchBefore
<1>17. IsFound(f, After(G, branch, b))'
  BY <1>4, <1>12, <1>13
<1>18. QED BY <1>4, <1>14, <1>15, <1>16, <1>17 DEF Explains

\* When tracking restarts nothing is to be explained but the file itself.
LEMMA ResetExplains ==
  ASSUME Types, Compact \/ Restart, NEW f \in Files
  PROVE  \E d : d = disk'[f] /\ Explains(f, d)'
<1>1. /\ history'[f] = <<>> /\ floor' = entries' /\ disk' = disk /\ InFlight' = {} /\ entries' \in Nat
  BY DEF Compact, Restart, Resets, InFlight, treeVars, Types, Shapes, TypeOK
<1>2. (floor' + 1)..entries' = {}
  <2>1. \A n \in Nat : (n + 1)..n = {}
    OBVIOUS
  <2>2. QED BY <1>1, <2>1
<1>3. Pos(<<>>, branch') = {}
  BY DEF Pos
<1>4. PICK d : d = disk'[f]
  OBVIOUS
<1>5. After(history'[f], branch', d) = d /\ DOMAIN history'[f] = {}
  BY <1>1, <1>3 DEF After
<1>6. IsFound(f, d)'
  BY <1>1, <1>4 DEF IsFound
<1>7. Explains(f, d)'
  BY <1>2, <1>5, <1>6 DEF Explains
<1>8. QED BY <1>4, <1>7

LEMMA NextExplains ==
  IInv /\ AncestorsAgree /\ ChangesInOrder /\ CallsAreAlone /\ ChangesExplain /\ [Next]_vars => ChangesExplain'
<1> SUFFICES ASSUME Types, AncestorsAgree, ChangesInOrder, CallsAreAlone, ChangesExplain, [Next]_vars,
                    NEW f \in Files, f \notin tangled'
             PROVE  \E b \in States : Explains(f, b)'
  BY DEF IInv, ChangesExplain
<1> USE DEF treeVars
<1>1. CASE Compact \/ Restart
  <2>1. disk'[f] \in States
    BY <1>1 DEF Compact, Restart, Types, Shapes, TypeOK
  <2>2. QED BY <1>1, <2>1, ResetExplains
<1>2. ASSUME f \notin tangled, \A b : Explains(f, b) => Explains(f, b)'
      PROVE  \E b \in States : Explains(f, b)'
  BY <1>2 DEF ChangesExplain
<1>3. ASSUME f \notin tangled, UNCHANGED <<history, entries, path, branch, sent, floor>>,
             \A s : IsFound(f, s) => IsFound(f, s)'
      PROVE  \E b \in States : Explains(f, b)'
  BY <1>2, <1>3, ExplainsSame
<1>4. ASSUME NEW c \in Calls, NEW k \in Files, ToolCall(c, k) PROVE \E b \in States : Explains(f, b)'
  <2>1. f \notin tangled /\ UNCHANGED <<history, entries, path, branch, sent, floor>>
    BY <1>4 DEF ToolCall
  <2>2. QED BY <1>3, <1>4, <2>1, ToolCallAlone
<1>5. ASSUME NEW c \in Calls, Runs(c) PROVE \E b \in States : Explains(f, b)'
  <2>1. f \notin tangled /\ UNCHANGED <<history, entries, path, branch, sent, floor>>
    BY <1>5 DEF Runs, ghosts
  <2>2. QED BY <1>3, <1>5, <2>1, RunsAlone
<1>6. ASSUME NEW c \in Calls, ToolResult(c) PROVE \E b \in States : Explains(f, b)'
  <2>1. f \notin tangled /\ UNCHANGED <<entries, path, branch, sent, floor>>
    BY <1>6 DEF ToolResult
  <2>2. CASE ~Records(c)
    <3>1. history' = history
      BY <1>6, <2>2 DEF ToolResult
    <3>2. QED BY <1>3, <1>6, <2>1, <2>2, <3>1, ToolResultAlone
  <2>3. CASE Records(c) /\ target[c] # f
    <3>1. history'[f] = history[f]
      BY <2>3 DEF Records, Recording, Types, Shapes, TypeOK
    <3>2. \A s : IsFound(f, s) => IsFound(f, s)'
      BY <1>6, <2>1, <2>3, ToolResultAlone
    <3>3. QED BY <1>2, <2>1, <3>1, <3>2, ExplainsSame
  <2>4. CASE Records(c) /\ target[c] = f
    <3>1. QED BY <1>2, <1>6, <2>1, <2>4, RecordExplains
  <2>5. QED BY <2>2, <2>3, <2>4
<1>7. CASE Send
  <2>1. f \notin tangled /\ history' = history
    BY <1>7 DEF Send
  <2>2. QED BY <1>2, <1>7, <2>1, SendExplains
<1>8. CASE TurnEnds \/ Swept \/ UNCHANGED vars
  <2>1. f \notin tangled /\ UNCHANGED <<history, entries, path, branch, sent, floor, disk, target, ran, pending>>
    BY <1>8 DEF TurnEnds, Swept, vars, ghosts
  <2>2. QED BY <1>3, <2>1, SameAlone DEF InFlight
<1>9. ASSUME NEW k \in Files, Outside(k) \/ Hides(k) \/ Shows(k) PROVE \E b \in States : Explains(f, b)'
  <2>1. f \notin tangled /\ UNCHANGED <<history, entries, path, branch, sent, floor, target, ran, pending>>
    BY <1>9 DEF Outside, Hides, Shows, ghosts
  <2>2. disk'[f] = disk[f]
    BY <1>9 DEF Outside, Hides, Shows, Types, Shapes, TypeOK
  <2>3. QED BY <1>3, <2>1, <2>2, SameAlone DEF InFlight
<1>10. ASSUME NEW e \in Entries, RewindCode(e) PROVE \E b \in States : Explains(f, b)'
  <2>1. /\ UNCHANGED <<history, entries, path, sent, floor>> /\ branch' = BranchBefore(e) /\ e \in branch
        /\ InFlight = {} /\ InFlight' = {}
    BY <1>10, IdleHasNoCalls DEF RewindCode, InFlight
  <2>2. PICK done : /\ disk' = Restored(e, done) /\ done \subseteq Restorables(e)
                    /\ tangled' = tangled \cup {k \in Files : Places(k) # {} /\ ~(e \in Places(k) /\ k \in done)}
    BY <1>10 DEF RewindCode
  <2>3. f \notin tangled /\ (Places(f) = {} \/ (e \in Places(f) /\ f \in done))
    BY <2>2
  <2>4. ASSUME NEW b, Explains(f, b) PROVE Explains(f, b)'
    <3>1. PICK t : t = After(history[f], BranchBefore(e), b)
      OBVIOUS
    <3>2. disk'[f] = t
      BY <2>1, <2>2, <2>3, <2>4, <3>1, RewindGives
    <3>3. IsFound(f, t)' /\ t = After(history'[f], branch', b)
      BY <2>1, <3>1, <3>2 DEF IsFound
    <3>4. \A x : BranchBefore(x)' = BranchBefore(x)
      BY <2>1 DEF BranchBefore
    <3>5. QED BY <2>1, <2>4, <3>3, <3>4 DEF Explains
  <2>5. QED BY <1>2, <2>3, <2>4
<1>11. ASSUME NEW e \in Entries, RewindMessage(e) PROVE \E b \in States : Explains(f, b)'
  <2>1. /\ f \notin tangled /\ branch' = BranchBefore(e)
        /\ UNCHANGED <<history, entries, path, sent, floor, disk, target, ran, pending>>
    BY <1>11 DEF RewindMessage
  <2>2. Pos(history[f], branch') = Pos(history[f], branch)
    BY <1>11 DEF RewindMessage, OnBranch, At, Pos
  <2>3. \A s : IsFound(f, s) => IsFound(f, s)'
    BY <2>1, SameAlone DEF InFlight
  <2>4. QED BY <1>2, <2>1, <2>2, <2>3, ExplainsSame
<1>12. ASSUME NEW F \in SUBSET Files, Accept(F) PROVE \E b \in States : Explains(f, b)'
  <2>1. f \notin tangled /\ UNCHANGED <<history, entries, path, branch, sent, floor, disk, target, ran, pending>>
    BY <1>12 DEF Accept
  <2>2. QED BY <1>3, <2>1, SameAlone DEF InFlight
<1>13. ASSUME NEW F \in SUBSET Files, Revert(F) PROVE \E b \in States : Explains(f, b)'
  <2>1. f \notin tangled /\ UNCHANGED <<history, entries, path, branch, sent, floor, target, ran, pending>>
    BY <1>13 DEF Revert
  <2>2. disk'[f] = disk[f]
    <3>1. PICK done : /\ disk' = [k \in Files |-> IF k \in done THEN baselines[k] ELSE disk[k]]
                      /\ tangled' = tangled \cup done
      BY <1>13 DEF Revert
    <3>2. QED BY <3>1
  <2>3. QED BY <1>3, <2>1, <2>2, SameAlone DEF InFlight
<1>14. QED
  BY <1>1, <1>4, <1>5, <1>6, <1>7, <1>8, <1>9, <1>10, <1>11, <1>12, <1>13
     DEF Next, AcceptAll, AcceptFile, RevertAll, RevertFile, Tracked

--------------------------------------------------------------------------------
\* The invariant behind restores

LEMMA InitRestore == Init => RestoreInv
<1> SUFFICES ASSUME Init PROVE RestoreInv
  OBVIOUS
<1>1. InFlight = {} /\ Tracked = {} /\ entries = 0 /\ floor = 0 /\ branch = {} /\ turn = "idle"
  BY DEF Init, InFlight, Tracked
<1>2. AncestorsAgree /\ ChangesInOrder
  BY <1>1 DEF Init, AncestorsAgree, ChangesInOrder
<1>3. \A f \in Files : disk[f] # Big /\ disk[f] \in States /\ mark[f] = disk[f] /\ baselines[f] = None /\ history[f] = <<>>
  BY RewindAssumption DEF Init, States
<1>4. CallsAreAlone /\ MarkIsKept
  BY <1>1, <1>3 DEF CallsAreAlone, Alone, MarkIsKept, MarkIsKeptOf, IsFound
<1>5. ASSUME NEW f \in Files PROVE Explains(f, disk[f])
  <2>1. Pos(<<>>, branch) = {} /\ (floor + 1)..entries = {}
    BY <1>1 DEF Pos
  <2>2. After(history[f], branch, disk[f]) = disk[f]
    BY <1>3, <2>1 DEF After
  <2>3. IsFound(f, disk[f])
    BY <1>1 DEF IsFound
  <2>4. QED BY <1>3, <2>1, <2>2, <2>3 DEF Explains
<1>6. ChangesExplain
  BY <1>3, <1>5 DEF ChangesExplain
<1>7. QED BY <1>2, <1>4, <1>6 DEF RestoreInv

LEMMA NextRestore == IInv /\ RestoreInv /\ [Next]_vars => RestoreInv'
BY NextAncestors, NextOrder, NextAlone, NextMark, NextExplains DEF IInv, RestoreInv

LEMMA RestoreInvHolds == Spec => [](IInv /\ RestoreInv)
<1>1. Init => IInv /\ RestoreInv
  BY InitIInv, InitRestore
<1>2. IInv /\ RestoreInv /\ [Next]_vars => (IInv /\ RestoreInv)'
  BY NextIInv, NextRestore
<1>3. QED BY <1>1, <1>2, PTL DEF Spec

\* What a rewind gives a file that was changed at the message is what the file was when the message
\* was sent: its changes before that message explain both.  A state that cannot be restored is one
\* whose snapshot is gone.
LEMMA RewindsToSent ==
  ASSUME IInv, RestoreInv, NEW e \in Entries, RewindCode(e), e > floor,
         NEW f \in Files, f \notin tangled, Places(f) # {} => e \in Places(f), sent[e][f] \notin lost
  PROVE  disk'[f] = sent[e][f]
<1>1. Types /\ AncestorsAgree /\ SnapshotsKept
  BY DEF IInv, RestoreInv
<1>2. PICK b \in States : Explains(f, b)
  BY DEF RestoreInv, ChangesExplain
<1>3. e \in branch /\ e \in (floor + 1)..entries /\ InFlight = {}
  BY <1>1, IdleHasNoCalls DEF RewindCode, Types, Shapes, TypeOK
<1>4. PICK t : t = After(history[f], BranchBefore(e), b)
  OBVIOUS
<1>5. sent[e][f] = t
  BY <1>2, <1>3, <1>4 DEF Explains
<1>6. PICK done : /\ disk' = Restored(e, done) /\ done \subseteq Restorables(e)
                  /\ Restorables(e) \ done \subseteq hidden
  BY DEF RewindCode, Writes
<1>7. ASSUME e \in Places(f) PROVE f \in done
  <2>1. RestorePoint(f, e) = t
    BY <1>1, <1>2, <1>3, <1>4, <1>7, RestoresTheState
  <2>2. \E i \in DOMAIN history[f] : t = history[f][i].before
    <3>1. RestorePoint(f, e) = FirstAt(f, e).before
      BY <1>7 DEF RestorePoint
    <3>2. QED BY <1>1, <1>7, <2>1, <3>1, FoundAtPlace
  <2>3. t \in Known
    <3>1. history[f] \in Seq(Change)
      BY <1>1 DEF Types, Shapes, TypeOK
    <3>2. \A i \in DOMAIN history[f] : history[f][i] \in Change
      BY <3>1
    <3>3. QED BY <2>2, <3>2 DEF Change, Known
  <2>4. t \in Contents => t \in Needed
    BY <2>2 DEF Needed, Recorded
  <2>5. Restorable(RestorePoint(f, e))
    BY <1>1, <1>5, <2>1, <2>3, <2>4 DEF SnapshotsKept, Restorable, Known
  <2>6. f \in Affected(e)
    <3>1. e \in Nat /\ e <= e
      BY DEF Entries
    <3>2. QED BY <1>7, <3>1 DEF Affected
  <2>7. f \notin hidden
    BY <1>1 DEF Types, HiddenIsExcused
  <2>8. QED BY <1>6, <2>5, <2>6, <2>7 DEF Restorables
<1>8. disk'[f] = t
  BY <1>1, <1>2, <1>3, <1>4, <1>6, <1>7, RewindGives
<1>9. QED BY <1>5, <1>8

\* Reverting everything leaves each file as it was last accepted or found, and rewinding the code
\* gives each file that was changed at the message the state it had when the message was sent, and
\* leaves a file that was not changed on the branch: for any files, calls and messages on any tree, but
\* for what is changed from outside or by overlapping calls, or cannot be read, what an earlier revert
\* or rewind left otherwise, and lost snapshots.
THEOREM RestoresAreTrue == Spec => RestoresWhatItSays
<1>1. IInv /\ RestoreInv /\ [Next]_vars =>
        [RevertAll => \A f \in Files \ foreign : mark[f] \notin lost => disk'[f] = mark[f]]_vars
  BY RevertsToMark DEF IInv, RestoreInv
<1>2. IInv /\ RestoreInv /\ [Next]_vars =>
        [\A e \in Entries : RewindCode(e) /\ e > floor =>
           \A f \in Files \ tangled :
             (Places(f) # {} => e \in Places(f)) /\ sent[e][f] \notin lost => disk'[f] = sent[e][f]]_vars
  BY RewindsToSent
<1>3. QED
  BY <1>1, <1>2, RestoreInvHolds, PTL DEF Spec, RestoresWhatItSays, RevertReturnsToMark, RewindRestores
================================================================================
