--------------------------- MODULE Telemetry_proofs ---------------------------
(***************************************************************************)
(* Proofs about Telemetry for any windows, sessions and turns.              *)
(*                                                                         *)
(* That a save loses nothing needs that the order of eviction names each    *)
(* stored session once (OrderIsStore), that an entry which is a collector's *)
(* array holds what the collector does (Shared), and that a loaded          *)
(* collector has every turn of its session (LoadedHolds).  That the file is *)
(* whole and catches up needs that there is one write, which took its text  *)
(* after the last change or has a timer behind it (OneWrite, WriteIsNewest).*)
(***************************************************************************)
EXTENDS Telemetry, SequenceTheorems, TLAPS

--------------------------------------------------------------------------------
\* The order of eviction

\* Injectivity and range of a sequence, by its positions.
LEMMA Positions ==
  ASSUME NEW s \in Seq(Files)
  PROVE  /\ IsInjective(s) <=> \A i, j \in 1..Len(s) : s[i] = s[j] => i = j
         /\ \A g : g \in Range(s) <=> \E i \in 1..Len(s) : s[i] = g
<1>1. DOMAIN s = 1..Len(s)
  OBVIOUS
<1>2. QED BY <1>1 DEF IsInjective, Range

\* Removing a file that a sequence names at most once.
LEMMA WithoutRemoves ==
  ASSUME NEW s \in Seq(Files), IsInjective(s), NEW f
  PROVE  /\ Without(s, f) \in Seq(Files) /\ IsInjective(Without(s, f))
         /\ Range(Without(s, f)) = Range(s) \ {f}
         /\ Len(Without(s, f)) = IF f \in Range(s) THEN Len(s) - 1 ELSE Len(s)
<1>1. CASE f \notin Range(s)
  <2>1. Without(s, f) = s
    BY <1>1 DEF Without, RemoveFirst, Range
  <2>2. QED BY <1>1, <2>1
<1>2. CASE f \in Range(s)
  <2>1. PICK n \in 1..Len(s) : s[n] = f
    BY <1>2 DEF Range
  <2>2. {i \in 1..Len(s) : s[i] = f} = {n}
    BY <2>1 DEF IsInjective
  <2>3. SelectInSeq(s, LAMBDA v : v = f) = n
    BY <2>1, <2>2 DEF SelectInSeq, Min
  <2>4. Without(s, f) = RemoveAt(s, n)
    BY <2>1, <2>3 DEF Without, RemoveFirst
  <2>5. PICK t : t = Without(s, f)
    OBVIOUS
  <2>6. /\ t \in Seq(Files) /\ Len(t) = Len(s) - 1
        /\ \A j \in 1..(Len(s) - 1) : t[j] = IF j < n THEN s[j] ELSE s[j + 1]
    <3>1. SubSeq(s, 1, n - 1) \in Seq(Files) /\ Len(SubSeq(s, 1, n - 1)) = n - 1
          /\ \A j \in 1..(n - 1) : SubSeq(s, 1, n - 1)[j] = s[j]
      BY <2>1
    <3>2. SubSeq(s, n + 1, Len(s)) \in Seq(Files) /\ Len(SubSeq(s, n + 1, Len(s))) = Len(s) - n
          /\ \A j \in 1..(Len(s) - n) : SubSeq(s, n + 1, Len(s))[j] = s[n + j]
      BY <2>1
    <3>3. t = SubSeq(s, 1, n - 1) \o SubSeq(s, n + 1, Len(s))
      BY <2>4, <2>5 DEF RemoveAt
    <3>4. PICK p, q : p = SubSeq(s, 1, n - 1) /\ q = SubSeq(s, n + 1, Len(s))
      OBVIOUS
    <3>5. /\ p \in Seq(Files) /\ Len(p) = n - 1 /\ \A j \in 1..(n - 1) : p[j] = s[j]
          /\ q \in Seq(Files) /\ Len(q) = Len(s) - n /\ \A j \in 1..(Len(s) - n) : q[j] = s[n + j]
          /\ t = p \o q
      BY <3>1, <3>2, <3>3, <3>4
    <3>6. /\ t \in Seq(Files) /\ Len(t) = Len(p) + Len(q)
          /\ \A j \in 1..(Len(p) + Len(q)) : t[j] = IF j <= Len(p) THEN p[j] ELSE q[j - Len(p)]
      BY <3>5, ConcatProperties
    <3>7. QED
      BY <2>1, <3>5, <3>6
  <2>7. IsInjective(t)
    <3>1. ASSUME NEW i \in 1..Len(t), NEW j \in 1..Len(t), t[i] = t[j] PROVE i = j
      <4>1. PICK k, m \in 1..Len(s) : /\ k = IF i < n THEN i ELSE i + 1
                                      /\ m = IF j < n THEN j ELSE j + 1
        BY <2>1, <2>6
      <4>2. t[i] = s[k] /\ t[j] = s[m]
        BY <2>6, <4>1
      <4>3. \A a, b \in 1..Len(s) : s[a] = s[b] => a = b
        BY Positions
      <4>5. k = m
        BY <3>1, <4>1, <4>2, <4>3
      <4>6. QED BY <4>1, <4>5
    <3>2. QED BY <2>6, <3>1, Positions
  <2>8. Range(t) = Range(s) \ {f}
    <3>1. ASSUME NEW g \in Range(t) PROVE g \in Range(s) \ {f}
      <4>1. PICK j \in 1..Len(t) : t[j] = g
        BY <2>6, Positions
      <4>2. PICK k \in 1..Len(s) : k = (IF j < n THEN j ELSE j + 1) /\ k # n
        BY <2>1, <2>6
      <4>3. s[k] = g
        BY <2>6, <4>1, <4>2
      <4>4. QED BY <2>1, <4>2, <4>3, Positions
    <3>2. ASSUME NEW g \in Range(s), g # f PROVE g \in Range(t)
      <4>1. PICK i \in 1..Len(s) : s[i] = g
        BY DEF Range
      <4>2. CASE i < n
        BY <2>1, <2>6, <4>1, <4>2 DEF Range
      <4>3. CASE i > n
        <5>1. i - 1 \in 1..(Len(s) - 1) /\ t[i - 1] = g
          BY <2>1, <2>6, <4>1, <4>3
        <5>2. QED BY <2>6, <5>1 DEF Range
      <4>4. QED
        BY <2>1, <3>2, <4>1, <4>2, <4>3
    <3>3. QED BY <3>1, <3>2
  <2>9. QED
    BY <1>2, <2>5, <2>6, <2>7, <2>8
<1>3. QED BY <1>1, <1>2

\* Whatever is saved, the order names each file once, the saved one too, and at most one file is
\* evicted.
LEMMA EvictedKeepsOrder ==
  ASSUME NEW s \in Seq(Files), IsInjective(s), Len(s) <= MaxSessions, NEW f \in Files,
         NEW t, t = Evicted(Append(Without(s, f), f))
  PROVE  /\ t \in Seq(Files) /\ IsInjective(t) /\ Len(t) <= MaxSessions
         /\ f \in Range(t) /\ Range(t) \subseteq Range(s) \cup {f}
<1>1. PICK u : u = Without(s, f)
  OBVIOUS
<1>2. u \in Seq(Files) /\ IsInjective(u) /\ Range(u) = Range(s) \ {f} /\ Len(u) <= Len(s)
  BY <1>1, WithoutRemoves
<1>3. PICK a : a = Append(u, f)
  OBVIOUS
<1>4. a \in Seq(Files) /\ Len(a) = Len(u) + 1 /\ a[Len(a)] = f /\ \A i \in 1..Len(u) : a[i] = u[i]
  BY <1>2, <1>3
<1>5. IsInjective(a) /\ Range(a) = Range(s) \cup {f}
  <2>1. \A i \in 1..Len(u) : a[i] # f /\ a[i] \in Range(s)
    <3>1. \A i \in 1..Len(u) : u[i] \in Range(u)
      BY <1>2, Positions
    <3>2. QED BY <1>2, <1>4, <3>1
  <2>2. IsInjective(a)
    <3>1. \A i, j \in 1..Len(u) : u[i] = u[j] => i = j
      BY <1>2, Positions
    <3>2. \A i, j \in 1..Len(a) : a[i] = a[j] => i = j
      BY <1>2, <1>4, <2>1, <3>1
    <3>3. QED BY <1>4, <3>2, Positions
  <2>3. Range(a) \subseteq Range(s) \cup {f}
    BY <1>4, <2>1 DEF Range
  <2>4. ASSUME NEW g \in Range(s), g # f PROVE g \in Range(a)
    <3>1. PICK i \in 1..Len(u) : u[i] = g
      <4>1. g \in Range(u)
        BY <1>2, <2>4
      <4>2. QED BY <1>2, <4>1, Positions
    <3>2. QED BY <1>2, <1>4, <3>1 DEF Range
  <2>5. f \in Range(a)
    BY <1>2, <1>4 DEF Range
  <2>6. QED BY <2>2, <2>3, <2>4, <2>5
<1>6. CASE Len(a) <= MaxSessions
  BY <1>1, <1>3, <1>4, <1>5, <1>6, TelemetryAssumption DEF Evicted
<1>7. CASE Len(a) > MaxSessions
  <2>1. t = Tail(a)
    BY <1>1, <1>3, <1>7 DEF Evicted
  <2>2. t \in Seq(Files) /\ Len(t) = Len(a) - 1 /\ \A i \in 1..Len(t) : t[i] = a[i + 1]
    BY <1>4, <2>1
  <2>3. Len(t) <= MaxSessions /\ Len(t) >= 1
    BY <1>2, <1>4, <1>7, <2>2, TelemetryAssumption
  <2>4. IsInjective(t)
    <3>1. \A i, j \in 1..Len(a) : a[i] = a[j] => i = j
      BY <1>4, <1>5, Positions
    <3>2. \A i, j \in 1..Len(t) : t[i] = t[j] => i = j
      BY <1>4, <2>2, <3>1
    <3>3. QED BY <2>2, <3>2, Positions
  <2>5. Range(t) \subseteq Range(a)
    <3>1. \A i \in 1..Len(t) : i + 1 \in 1..Len(a) /\ t[i] = a[i + 1]
      BY <1>4, <2>2
    <3>2. ASSUME NEW g \in Range(t) PROVE g \in Range(a)
      <4>1. PICK i \in 1..Len(t) : t[i] = g
        BY <2>2, <3>2, Positions
      <4>2. QED BY <1>4, <3>1, <4>1, Positions
    <3>3. QED BY <3>2
  <2>6. t[Len(t)] = f
    BY <1>4, <2>2, <2>3
  <2>7. f \in Range(t)
    BY <2>2, <2>3, <2>6 DEF Range
  <2>8. QED BY <1>5, <2>2, <2>3, <2>4, <2>5, <2>7
<1>8. QED BY <1>4, <1>6, <1>7, TelemetryAssumption

--------------------------------------------------------------------------------
\* The inductive invariant

\* A write has a text and a place only while it is under way.
WriteShapes ==
  /\ DOMAIN writes = Writes
  /\ \A i \in Writes :
       \/ writes[i] = NoWrite
       \/ /\ DOMAIN writes[i] = {"st", "text", "at"}
          /\ writes[i].st \in {"writing", "written"} /\ writes[i].at \in {"tmp", "file", "gone"}

Types ==
  /\ TypeOK /\ WriteShapes
  /\ recorded \in [Files -> SUBSET Turns] /\ contested \subseteq Files
  /\ loaded \subseteq open /\ changed \in BOOLEAN

\* An entry that shares a collector's array holds what the collector holds, and its window is open.
Shared ==
  \A f \in DOMAIN sessions :
    /\ sessions[f].of \in {0} \cup open
    /\ sessions[f].of # 0 => sessions[f].turns = turns[sessions[f].of]

NotStored == \A f \in Files \ DOMAIN sessions : recorded[f] = {}

\* A collector that was loaded for its session has every turn saved for it.
LoadedHolds ==
  \A w \in loaded :
    sessionFile[w] # 0 /\ sessionFile[w] \notin contested
      => recorded[sessionFile[w]] \subseteq Range(turns[w])

DeletedUnused == \A f \in deleted \ contested, w \in open : ~InUse(w, f)

TimerIsDirty == (timer <=> dirty) /\ (~running => ~changed)

\* Without an overlap there is one write at most, it goes to the temporary file, and that file
\* holds its text once it was written.
OneWrite ==
  "overlap" \notin excused =>
    /\ file # Torn
    /\ \A i \in Busy : /\ \A j \in Busy : i = j
                       /\ writes[i].at = "tmp"
                       /\ tmp = IF writes[i].st = "writing" THEN Torn ELSE Whole(writes[i].text)

\* What is being written, or was written last, is what memory says.
WriteIsNewest ==
  running /\ changed /\ ~timer /\ excused = {} =>
    /\ \A i \in Busy : writes[i].text = Text
    /\ Busy = {} => file = Whole(Text)

Stored == OrderIsStore /\ Shared /\ NotStored /\ LoadedHolds /\ RecordedIsKept
Forgotten == DeletedUnused /\ DeletedStaysForgotten
Written == TimerIsDirty /\ OneWrite /\ WriteIsNewest
IInv == Types /\ Stored /\ Forgotten /\ Written

LEMMA InitIInv == Init => IInv
<1> SUFFICES ASSUME Init PROVE IInv
  OBVIOUS
<1> USE DEF Init
<1>1. Types
  <2>1. <<>> \in Seq(Turns) /\ <<>> \in Seq(Files)
    OBVIOUS
  <2>2. NoAsk \in Asks
    BY DEF Asks
  <2>3. TypeOK
    <3>1. /\ 0 \in 0..MaxFiles /\ 0 \in 0..MaxTurns /\ 0 \in 0..MaxMoves /\ 0 \in 0..MaxTroubles
          /\ 1..0 = {}
      BY TelemetryAssumption
    <3>2. /\ sessionFile \in [Windows -> {0} \cup Files] /\ ask \in [Windows -> Asks]
          /\ turns \in [Windows -> Seq(Turns)] /\ piFile \in [Windows -> {0} \cup Files]
      BY <2>1, <2>2
    <3>3. DOMAIN sessions = {}
      BY DEF Nothing
    <3>4. \A i \in Writes : writes[i].st = "none"
      BY DEF NoWrite
    <3>5. QED BY <2>1, <3>1, <3>2, <3>3, <3>4 DEF TypeOK
  <2>4. QED BY <2>3 DEF Types, WriteShapes
<1>2. Stored
  <2>1. Range(order) = {} /\ DOMAIN sessions = {} /\ IsInjective(order) /\ Len(order) <= MaxSessions
    BY TelemetryAssumption DEF Range, Nothing, IsInjective
  <2>2. QED BY <2>1 DEF Stored, OrderIsStore, Shared, NotStored, LoadedHolds, RecordedIsKept
<1>3. Forgotten
  BY DEF Forgotten, DeletedUnused, DeletedStaysForgotten
<1>4. Written
  BY DEF Written, TimerIsDirty, OneWrite, WriteIsNewest, Busy, NoWrite, NoFile, Torn
<1>5. QED BY <1>1, <1>2, <1>3, <1>4 DEF IInv

\* What a step that leaves their variables alone keeps.
LEMMA StoredStays ==
  ASSUME Stored, UNCHANGED <<sessions, order, open, turns, recorded, loaded, sessionFile, contested>>
  PROVE  Stored'
BY DEF Stored, OrderIsStore, Shared, NotStored, LoadedHolds, RecordedIsKept

LEMMA WrittenStays ==
  ASSUME Written, UNCHANGED <<running, dirty, timer, changed, excused, diskVars>>, Text' = Text
  PROVE  Written'
<1>1. Busy' = Busy
  BY DEF Busy, diskVars
<1>2. QED BY <1>1 DEF Written, TimerIsDirty, OneWrite, WriteIsNewest, diskVars

LEMMA WriteShapesStay ==
  ASSUME WriteShapes, UNCHANGED writes
  PROVE  WriteShapes'
BY DEF WriteShapes

\* A change schedules a write: what is under way may be older than memory.
LEMMA ScheduledIsWritten ==
  ASSUME Written, running, Schedule, UNCHANGED <<running, excused, diskVars>>
  PROVE  Written'
<1>1. Busy' = Busy
  BY DEF Busy, diskVars
<1>2. QED BY <1>1 DEF Written, TimerIsDirty, OneWrite, WriteIsNewest, diskVars, Schedule

\* The entries of a store whose sharing ended are the same turns.
LEMMA ReleasedKeeps ==
  ASSUME Types, NEW W, sessions' = Released(sessions, W)
  PROVE  /\ DOMAIN sessions' = DOMAIN sessions /\ Text' = Text
         /\ \A f \in DOMAIN sessions :
              /\ sessions'[f] \in [turns : Seq(Turns), of : {0} \cup Windows]
              /\ sessions'[f].turns = sessions[f].turns
              /\ sessions'[f].of = IF sessions[f].of \in W THEN 0 ELSE sessions[f].of
BY DEF Types, TypeOK, Released, Text

--------------------------------------------------------------------------------
\* The writes of the store

\* A write that starts with none under way is the only one, and it takes the newest text.
LEMMA TimerFiresKeeps ==
  ASSUME IInv, TimerFires
  PROVE  IInv'
<1>1. Stored'
  BY StoredStays DEF IInv, TimerFires, chatVars
<1>2. Forgotten'
  BY DEF IInv, TimerFires, chatVars, piVars, deleteVars, Forgotten, DeletedUnused, DeletedStaysForgotten, InUse
<1>3. Text' = Text
  BY DEF TimerFires, Text
<1>4. CASE ~dirty
  <2>1. UNCHANGED diskVars /\ Busy' = Busy
    BY <1>4 DEF TimerFires, diskVars, Busy
  <2>2. Types'
    BY <1>4, <2>1 DEF IInv, Types, TypeOK, WriteShapes, TimerFires, chatVars, piVars, deleteVars, diskVars
  <2>3. FALSE
    BY <1>4 DEF IInv, Written, TimerIsDirty, TimerFires
  <2>4. QED BY <2>3
<1>5. CASE dirty
  <2>1. PICK i : i = CHOOSE j \in Writes \ Busy : TRUE
    OBVIOUS
  <2>2. i \in Writes /\ i \notin Busy
    <3>1. Writes \ Busy # {}
      BY DEF TimerFires, Busy
    <3>2. QED BY <2>1, <3>1
  <2>3. writes' = [writes EXCEPT ![i] = [st |-> "writing", text |-> Text, at |-> "tmp"]]
    BY <1>5, <2>1 DEF TimerFires
  <2>4. /\ writes'[i] = [st |-> "writing", text |-> Text, at |-> "tmp"]
        /\ \A j \in Writes : j # i => writes'[j] = writes[j]
        /\ DOMAIN writes' = Writes
    BY <2>2, <2>3 DEF IInv, Types, WriteShapes
  <2>5. WriteShapes'
    BY <2>4 DEF IInv, Types, WriteShapes
  <2>6. \A j \in Writes : writes'[j].st \in {"none", "writing", "written"}
    BY <2>4 DEF IInv, Types, TypeOK
  <2>7. excused' = (excused \cap {"overlap"}) \cup (IF Busy = {} THEN {} ELSE {"overlap"})
    BY <1>5 DEF TimerFires
  <2>8. Types'
    <3>1. TypeOK'
      BY <2>6, <2>7 DEF IInv, Types, TypeOK, TimerFires, chatVars, piVars, deleteVars
    <3>2. QED BY <2>5, <3>1 DEF IInv, Types, TimerFires, chatVars
  <2>9. Busy' = Busy \cup {i}
    BY <2>2, <2>4 DEF Busy
  <2>10. TimerIsDirty'
    BY DEF IInv, Written, TimerIsDirty, TimerFires
  <2>11. OneWrite'
    <3>1. SUFFICES ASSUME "overlap" \notin excused' PROVE Busy = {} /\ file' # Torn /\ tmp' = Torn
      BY <2>4, <2>9 DEF OneWrite
    <3>2. Busy = {} /\ "overlap" \notin excused
      BY <2>7, <3>1
    <3>3. QED BY <1>5, <3>2 DEF IInv, Written, OneWrite, TimerFires
  <2>12. WriteIsNewest'
    <3>1. SUFFICES ASSUME excused' = {} PROVE Busy = {}
      BY <1>3, <2>4, <2>9 DEF WriteIsNewest
    <3>2. QED BY <2>7, <3>1
  <2>13. QED
    BY <1>1, <1>2, <2>8, <2>10, <2>11, <2>12 DEF IInv, Written
<1>6. QED BY <1>4, <1>5

\* The steps of the one write, or of several that share the temporary file.
LEMMA WriteStepKeeps ==
  ASSUME IInv, WriteStep
  PROVE  IInv'
<1>1. Stored'
  BY StoredStays DEF IInv, WriteStep, chatVars, storeVars, historyVars
<1>2. Forgotten'
  BY DEF IInv, WriteStep, chatVars, storeVars, historyVars, piVars, deleteVars, Forgotten, DeletedUnused,
     DeletedStaysForgotten, InUse
<1>3. Text' = Text
  BY DEF WriteStep, Text, storeVars
<1>4. PICK i \in Busy : WritesText(i) \/ Renames(i) \/ RenameFails(i)
  BY DEF WriteStep
<1>5. i \in Writes /\ writes[i] # NoWrite /\ DOMAIN writes[i] = {"st", "text", "at"}
  BY DEF Busy, NoWrite, IInv, Types, WriteShapes
<1>6. WriteShapes' /\ (\A j \in Writes : writes'[j].st \in {"none", "writing", "written"})
        => Types' /\ TimerIsDirty'
  <2>1. TimerIsDirty'
    BY DEF IInv, Written, TimerIsDirty, WriteStep, storeVars, historyVars
  <2>2. QED BY <2>1 DEF IInv, Types, TypeOK, WriteStep, chatVars, storeVars, historyVars, piVars, deleteVars
<1>7. CASE WritesText(i)
  <2>1. /\ \A j \in Writes : j # i => writes'[j] = writes[j]
        /\ DOMAIN writes' = Writes /\ writes'[i] = [writes[i] EXCEPT !.st = "written"]
    BY <1>5, <1>7 DEF WritesText, IInv, Types, WriteShapes
  <2>2. /\ DOMAIN writes'[i] = {"st", "text", "at"} /\ writes'[i].st = "written"
        /\ writes'[i].text = writes[i].text /\ writes'[i].at = writes[i].at
    BY <1>5, <2>1
  <2>3. Types' /\ TimerIsDirty'
    <3>1. WriteShapes'
      BY <1>5, <2>1, <2>2 DEF IInv, Types, WriteShapes
    <3>2. \A j \in Writes : writes[j].st \in {"none", "writing", "written"}
      BY DEF IInv, Types, TypeOK
    <3>3. \A j \in Writes : writes'[j].st \in {"none", "writing", "written"}
      BY <2>1, <2>2, <3>2
    <3>4. QED BY <1>6, <3>1, <3>3
  <2>4. Busy' = Busy
    BY <1>5, <2>1, <2>2 DEF Busy
  <2>5. ASSUME "overlap" \notin excused
        PROVE  Busy = {i} /\ file' = file /\ tmp' = Whole(writes[i].text)
    <3>1. Busy = {i} /\ writes[i].at = "tmp"
      BY <2>5 DEF IInv, Written, OneWrite
    <3>2. ~\E j \in Busy \ {i} : writes[j].at = writes[i].at
      BY <3>1
    <3>3. QED BY <1>7, <3>1, <3>2 DEF WritesText
  <2>6. OneWrite'
    <3>1. SUFFICES ASSUME "overlap" \notin excused' PROVE OneWrite'
      BY DEF OneWrite
    <3>2. "overlap" \notin excused
      BY <3>1 DEF WriteStep, historyVars
    <3>3. file # Torn /\ writes[i].at = "tmp"
      BY <3>2 DEF IInv, Written, OneWrite
    <3>4. QED BY <2>2, <2>4, <2>5, <3>2, <3>3 DEF OneWrite
  <2>7. WriteIsNewest'
    <3>1. \A j \in Busy : writes'[j].text = writes[j].text
      BY <2>1, <2>2 DEF Busy
    <3>2. QED BY <1>3, <2>4, <3>1 DEF IInv, Written, WriteIsNewest, WriteStep, storeVars, historyVars
  <2>8. QED BY <1>1, <1>2, <2>3, <2>6, <2>7 DEF IInv, Written
<1>8. CASE Renames(i)
  <2>1. DOMAIN writes' = Writes /\ \A j \in Writes : writes'[j] = Moved(i, j)
    BY <1>8 DEF Renames
  <2>2. \A j \in Writes :
          \/ writes'[j] = NoWrite /\ (j = i \/ writes[j] = NoWrite)
          \/ /\ j # i /\ writes[j] # NoWrite /\ DOMAIN writes'[j] = {"st", "text", "at"}
             /\ writes'[j].st = writes[j].st /\ writes'[j].at \in {"file", "gone"}
             /\ writes'[j].text = writes[j].text
    BY <2>1 DEF Moved, IInv, Types, WriteShapes
  <2>3. Types' /\ TimerIsDirty'
    <3>1. WriteShapes'
      BY <2>1, <2>2 DEF IInv, Types, WriteShapes
    <3>2. QED BY <1>6, <2>2, <3>1 DEF IInv, Types, TypeOK, NoWrite
  <2>4. ASSUME "overlap" \notin excused
        PROVE  Busy = {i} /\ Busy' = {} /\ file' = Whole(writes[i].text)
    <3>1. Busy = {i} /\ tmp = IF writes[i].st = "writing" THEN Torn ELSE Whole(writes[i].text)
      BY <2>4 DEF IInv, Written, OneWrite
    <3>2. file' = Whole(writes[i].text)
      BY <1>8, <3>1 DEF Renames
    <3>3. \A j \in Writes : j # i => writes[j].st = "none"
      BY <3>1 DEF Busy
    <3>4. \A j \in Writes : j # i => writes[j] = NoWrite
      BY <3>3 DEF IInv, Types, WriteShapes
    <3>5. QED BY <2>2, <3>1, <3>2, <3>4 DEF Busy, NoWrite
  <2>5. OneWrite'
    <3>1. SUFFICES ASSUME "overlap" \notin excused' PROVE OneWrite'
      BY DEF OneWrite
    <3>2. "overlap" \notin excused
      BY <3>1 DEF WriteStep, historyVars
    <3>3. Whole(writes[i].text) # Torn
      BY DEF Whole, Torn
    <3>4. QED BY <2>4, <3>2, <3>3 DEF OneWrite
  <2>6. WriteIsNewest'
    <3>1. SUFFICES ASSUME running, changed, ~timer, excused = {} PROVE Busy' = {} /\ file' = Whole(Text)
      BY <1>3 DEF WriteIsNewest, WriteStep, storeVars, historyVars
    <3>2. writes[i].text = Text
      BY <3>1 DEF IInv, Written, WriteIsNewest
    <3>3. QED BY <2>4, <3>1, <3>2
  <2>7. QED BY <1>1, <1>2, <2>3, <2>5, <2>6 DEF IInv, Written
<1>9. CASE RenameFails(i)
  <2>1. /\ \A j \in Writes : j # i => writes'[j] = writes[j]
        /\ DOMAIN writes' = Writes /\ writes'[i] = NoWrite
    BY <1>5, <1>9 DEF RenameFails, IInv, Types, WriteShapes
  <2>2. Types' /\ TimerIsDirty'
    <3>1. WriteShapes'
      BY <2>1 DEF IInv, Types, WriteShapes
    <3>2. QED BY <1>6, <2>1, <3>1 DEF IInv, Types, TypeOK, NoWrite
  <2>3. "overlap" \in excused
    <3>1. SUFFICES ASSUME "overlap" \notin excused PROVE FALSE
      OBVIOUS
    <3>2. tmp = Whole(writes[i].text)
      BY <1>9, <3>1 DEF IInv, Written, OneWrite, RenameFails
    <3>3. QED BY <1>9, <3>2 DEF RenameFails, Whole, NoFile
  <2>4. OneWrite' /\ WriteIsNewest'
    BY <2>3 DEF OneWrite, WriteIsNewest, WriteStep, historyVars
  <2>5. QED BY <1>1, <1>2, <2>2, <2>4 DEF IInv, Written
<1>10. QED BY <1>4, <1>7, <1>8, <1>9

LEMMA WriteFailsKeeps ==
  ASSUME IInv, WriteFails
  PROVE  IInv'
<1>1. Stored'
  BY StoredStays DEF IInv, WriteFails, chatVars, storeVars
<1>2. Forgotten'
  BY DEF IInv, WriteFails, chatVars, storeVars, piVars, deleteVars, Forgotten, DeletedUnused,
     DeletedStaysForgotten, InUse
<1>3. PICK i \in Busy : writes[i].st = "writing" /\ writes' = [writes EXCEPT ![i] = NoWrite]
  BY DEF WriteFails
<1>4. /\ \A j \in Writes : j # i => writes'[j] = writes[j]
      /\ DOMAIN writes' = Writes /\ writes'[i] = NoWrite /\ i \in Writes
  BY <1>3 DEF Busy, IInv, Types, WriteShapes
<1>5. Types'
  <2>1. WriteShapes'
    BY <1>4 DEF IInv, Types, WriteShapes
  <2>2. \A j \in Writes : writes'[j].st \in {"none", "writing", "written"}
    <3>1. \A j \in Writes : writes[j].st \in {"none", "writing", "written"}
      BY DEF IInv, Types, TypeOK
    <3>2. NoWrite.st = "none"
      BY DEF NoWrite
    <3>3. QED BY <1>4, <3>1, <3>2
  <2>3. TypeOK'
    <3>1. troubles' \in 0..MaxTroubles /\ excused' \subseteq {"failed", "unnamed", "overlap"}
      BY TelemetryAssumption DEF IInv, Types, TypeOK, WriteFails, Trouble
    <3>2. QED BY <2>2, <3>1 DEF IInv, Types, TypeOK, WriteFails, chatVars, storeVars, piVars, deleteVars
  <2>4. QED BY <2>1, <2>3 DEF IInv, Types, WriteFails, chatVars
<1>6. Busy' = Busy \ {i}
  BY <1>4 DEF Busy, NoWrite
<1>7. OneWrite'
  <2>1. SUFFICES ASSUME "overlap" \notin excused PROVE file # Torn /\ Busy = {i}
    BY <1>6 DEF OneWrite, WriteFails
  <2>2. QED BY <2>1 DEF IInv, Written, OneWrite
<1>8. WriteIsNewest' /\ TimerIsDirty'
  BY DEF IInv, Written, WriteIsNewest, TimerIsDirty, WriteFails, storeVars
<1>9. QED BY <1>1, <1>2, <1>5, <1>7, <1>8 DEF IInv, Written

--------------------------------------------------------------------------------
\* The commands of a window

\* A request, its failure, a prompt, and a move of pi leave the store and the collectors alone.
LEMMA QuietKeeps ==
  ASSUME IInv, NEW w \in open,
         UNCHANGED <<running, open, sessionFile, turns, storeVars, diskVars, deleteVars, historyVars>>,
         ask' \in [Windows -> Asks], piFile' \in [Windows -> {0} \cup Files], streaming' \subseteq open,
         made' \in 0..MaxFiles, made <= made', ended' \in 0..MaxTurns, moves' \in 0..MaxMoves,
         troubles' \in 0..MaxTroubles,
         \A v \in open, f \in deleted \ contested : InUse(v, f)' => InUse(v, f)
  PROVE  IInv'
<1>1. Stored'
  BY StoredStays DEF IInv, storeVars, historyVars
<1>2. Forgotten'
  BY DEF IInv, Forgotten, DeletedUnused, DeletedStaysForgotten, storeVars, deleteVars, historyVars
<1>3. Text' = Text
  BY DEF Text, storeVars
<1>4. Written'
  BY <1>3, WrittenStays DEF IInv, storeVars, historyVars
<1>5. Types'
  <2>1. deleted' \subseteq 1..made'
    BY DEF IInv, Types, TypeOK, deleteVars
  <2>2. TypeOK'
    BY <2>1 DEF IInv, Types, TypeOK, storeVars, diskVars, deleteVars, historyVars
  <2>3. WriteShapes'
    BY WriteShapesStay DEF IInv, Types, diskVars
  <2>4. QED BY <2>2, <2>3 DEF IInv, Types, historyVars
<1>6. QED BY <1>1, <1>2, <1>4, <1>5 DEF IInv

\* A request that asks for the state of a pi that is where it was, or moves to a file nobody has deleted.
LEMMA AskKeeps ==
  ASSUME IInv, NEW w \in open, NEW g \in {0} \cup Files, NEW loads \in BOOLEAN,
         g \notin deleted \/ g = piFile[w] \/ g = 0,
         piFile' = [piFile EXCEPT ![w] = g], Asked(w, g, loads),
         UNCHANGED <<running, open, sessionFile, turns, storeVars, diskVars, streaming, deleteVars, ended, troubles, historyVars>>,
         made' \in 0..MaxFiles, made <= made', moves' \in 0..MaxMoves
  PROVE  IInv'
<1>1. w \in Windows
  BY DEF IInv, Types, TypeOK
<1>2. ask' = [ask EXCEPT ![w] = [st |-> "asked", file |-> g, loads |-> loads]]
  BY DEF Asked
<1>3. [st |-> "asked", file |-> g, loads |-> loads] \in Asks
  BY DEF Asks
<1>4. ask' \in [Windows -> Asks] /\ piFile' \in [Windows -> {0} \cup Files]
  BY <1>1, <1>2, <1>3 DEF IInv, Types, TypeOK
<1>5. ASSUME NEW v \in open, NEW f \in deleted \ contested, InUse(v, f)'
      PROVE  InUse(v, f)
  <2>1. v \in Windows /\ f # 0
    BY DEF IInv, Types, TypeOK
  <2>2. CASE v = w
    <3>1. ask'[w].file = g /\ piFile'[w] = g
      BY <1>1, <1>2 DEF IInv, Types, TypeOK
    <3>2. f \in {sessionFile[w], g}
      BY <1>5, <2>2, <3>1 DEF InUse
    <3>3. QED BY <2>1, <2>2, <3>2 DEF InUse
  <2>3. CASE v # w
    BY <1>1, <1>2, <1>5, <2>1, <2>3 DEF InUse, IInv, Types, TypeOK
  <2>4. QED BY <2>2, <2>3
<1>6. /\ ended' \in 0..MaxTurns /\ troubles' \in 0..MaxTroubles /\ streaming' \subseteq open
  BY DEF IInv, Types, TypeOK
<1>7. QED BY <1>4, <1>5, <1>6, QuietKeeps

LEMMA MoveCounts ==
  ASSUME IInv, Move
  PROVE  moves' \in 0..MaxMoves
BY TelemetryAssumption DEF IInv, Types, TypeOK, Move

LEMMA MadeStays ==
  ASSUME IInv
  PROVE  /\ made \in 0..MaxFiles
         /\ made < MaxFiles => made + 1 \in Files /\ made + 1 \in 0..MaxFiles /\ made + 1 \notin deleted
         /\ \A w \in open : w \in Windows /\ w # 0 /\ piFile[w] \in {0} \cup Files
BY TelemetryAssumption DEF IInv, Types, TypeOK, Files

LEMMA HydratesKeeps ==
  ASSUME IInv, NEW w \in Windows, Hydrates(w) \/ Names(w)
  PROVE  IInv'
<1>1. w \in open /\ piFile[w] \in {0} \cup Files /\ made \in 0..MaxFiles
  BY MadeStays DEF Hydrates, Names, Step
<1>2. moves' \in 0..MaxMoves
  BY MoveCounts DEF Hydrates, Names, IInv, Types, TypeOK
<1>3. piFile' = [piFile EXCEPT ![w] = piFile[w]] /\ made' = made /\ UNCHANGED streaming
  BY DEF Hydrates, Names, piVars, IInv, Types, TypeOK
<1>4. PICK loads \in BOOLEAN : Asked(w, piFile[w], loads)
  BY DEF Hydrates, Names
<1>5. UNCHANGED <<running, open, sessionFile, turns, storeVars, diskVars, deleteVars, ended, troubles, historyVars>>
  BY DEF Hydrates, Names
<1>6. made <= made'
  BY <1>1, <1>3
<1>7. PICK g \in {0} \cup Files : g = piFile[w]
  BY <1>1
<1>8. QED BY <1>1, <1>2, <1>3, <1>4, <1>5, <1>6, <1>7, AskKeeps

LEMMA MovesKeeps ==
  ASSUME IInv, NEW w \in Windows, NEW g \in {0} \cup Files, NEW loads \in BOOLEAN, MovesTo(w, g, loads),
         g \notin deleted, made' \in 0..MaxFiles, made <= made'
  PROVE  IInv'
<1>1. w \in open /\ moves' \in 0..MaxMoves
  BY MoveCounts DEF MovesTo, Step
<1>2. QED BY <1>1, AskKeeps DEF MovesTo

LEMMA CommandsKeep ==
  ASSUME IInv, NEW w \in Windows,
         NewSession(w) \/ Fork(w) \/ \E f \in Files : SwitchTo(w, f)
  PROVE  IInv'
<1>1. made \in 0..MaxFiles /\ made <= made /\ made <= made + 1 /\ 0 \notin deleted
  BY MadeStays DEF IInv, Types, TypeOK
<1>2. CASE MovesTo(w, 0, TRUE) /\ made' = made
  BY <1>1, <1>2, MovesKeeps
<1>3. CASE made < MaxFiles /\ made' = made + 1 /\ MovesTo(w, made', TRUE)
  <2>1. PICK g \in Files : g = made' /\ g \notin deleted
    BY <1>3, MadeStays
  <2>2. MovesTo(w, g, TRUE) /\ made' \in 0..MaxFiles
    BY <1>3, <2>1, MadeStays
  <2>3. QED BY <1>1, <1>3, <2>1, <2>2, MovesKeeps
<1>4. CASE Fork(w)
  <2>1. PICK g \in Files : g = made' /\ g \notin deleted /\ made < MaxFiles /\ made' = made + 1
    BY <1>4, MadeStays DEF Fork
  <2>2. MovesTo(w, g, FALSE) /\ made' \in 0..MaxFiles
    BY <1>4, <2>1, MadeStays DEF Fork
  <2>3. QED BY <1>1, <2>1, <2>2, MovesKeeps
<1>5. ASSUME NEW f \in Files, SwitchTo(w, f) PROVE IInv'
  BY <1>1, <1>5, MovesKeeps DEF SwitchTo, Live
<1>6. QED BY <1>2, <1>3, <1>4, <1>5 DEF NewSession

LEMMA AskFailsKeeps ==
  ASSUME IInv, NEW w \in Windows, AskFails(w)
  PROVE  IInv'
<1>1. w \in open /\ ask' = [ask EXCEPT ![w] = NoAsk]
  BY DEF AskFails, Step
<1>2. ask' \in [Windows -> Asks]
  BY <1>1 DEF IInv, Types, TypeOK, Asks
<1>3. \A v \in open, f \in deleted \ contested : InUse(v, f)' => InUse(v, f)
  BY <1>1 DEF InUse, IInv, Types, TypeOK, AskFails, piVars
<1>4. troubles' \in 0..MaxTroubles
  BY TelemetryAssumption DEF IInv, Types, TypeOK, AskFails, Trouble
<1>5. /\ ended' \in 0..MaxTurns /\ moves' \in 0..MaxMoves /\ streaming' \subseteq open
      /\ piFile' \in [Windows -> {0} \cup Files] /\ made' \in 0..MaxFiles /\ made <= made'
  BY DEF IInv, Types, TypeOK, AskFails, piVars
<1>6. UNCHANGED <<running, open, sessionFile, turns, storeVars, diskVars, deleteVars, historyVars>>
  BY DEF AskFails
<1>7. QED BY <1>1, <1>2, <1>3, <1>4, <1>5, <1>6, QuietKeeps

LEMMA PromptsKeeps ==
  ASSUME IInv, NEW w \in Windows, Prompts(w)
  PROVE  IInv'
<1>1. w \in open /\ streaming' \subseteq open
  BY DEF IInv, Types, TypeOK, Prompts, Step
<1>2. UNCHANGED <<running, open, sessionFile, turns, ask, storeVars, diskVars, deleteVars, historyVars>>
  BY DEF Prompts, chatVars
<1>3. /\ piFile' \in [Windows -> {0} \cup Files] /\ made' \in 0..MaxFiles /\ made <= made'
      /\ \A v \in open, f \in deleted : piFile'[v] = f => piFile[v] = f
  <2>1. CASE piFile[w] = 0
    <3>1. made < MaxFiles /\ piFile' = [piFile EXCEPT ![w] = made + 1] /\ made' = made + 1
      BY <2>1 DEF Prompts
    <3>2. \A v \in open : v \in Windows
      BY MadeStays
    <3>3. QED BY <3>1, <3>2, MadeStays DEF IInv, Types, TypeOK
  <2>2. CASE piFile[w] # 0
    BY <2>2 DEF Prompts, IInv, Types, TypeOK
  <2>3. QED BY <2>1, <2>2
<1>4. \A v \in open, f \in deleted \ contested : InUse(v, f)' => InUse(v, f)
  BY <1>2, <1>3 DEF InUse
<1>5. /\ ended' \in 0..MaxTurns /\ moves' \in 0..MaxMoves /\ troubles' \in 0..MaxTroubles
      /\ ask' \in [Windows -> Asks]
  BY DEF IInv, Types, TypeOK, Prompts, chatVars
<1>6. QED BY <1>1, <1>2, <1>3, <1>4, <1>5, QuietKeeps

--------------------------------------------------------------------------------
\* A window that opens, closes or takes the turns of another session

\* A window opens with an empty collector that no entry shares.
LEMMA OpenWindowKeeps ==
  ASSUME IInv, NEW w \in Windows, NEW f \in {0} \cup Files, OpenWindow(w, f)
  PROVE  IInv'
<1>1. /\ w \notin open /\ w # 0 /\ open' = open \cup {w} /\ f \notin deleted
      /\ made \in 0..MaxFiles /\ made' = made
  BY TelemetryAssumption DEF OpenWindow, Live, IInv, Types, TypeOK
<1>2. /\ sessionFile' = [sessionFile EXCEPT ![w] = f] /\ piFile' = [piFile EXCEPT ![w] = f]
      /\ ask' = [ask EXCEPT ![w] = NoAsk] /\ turns' = [turns EXCEPT ![w] = <<>>]
      /\ loaded' = loaded \ {w}
  BY DEF OpenWindow
<1>3. UNCHANGED <<running, storeVars, diskVars, streaming, deleteVars, ended, troubles, recorded, contested, excused, changed>>
  BY DEF OpenWindow
<1>4. Types'
  <2>1. <<>> \in Seq(Turns) /\ NoAsk \in Asks
    BY DEF Asks
  <2>2. moves' \in 0..MaxMoves
    BY MoveCounts DEF OpenWindow
  <2>3. TypeOK'
    BY <1>1, <1>2, <1>3, <2>1, <2>2 DEF IInv, Types, TypeOK, storeVars, diskVars, deleteVars
  <2>4. WriteShapes'
    BY <1>3, WriteShapesStay DEF IInv, Types, diskVars
  <2>5. QED BY <1>1, <1>2, <1>3, <2>3, <2>4 DEF IInv, Types
<1>5. Stored'
  <2>1. Shared'
    <3>1. ASSUME NEW g \in DOMAIN sessions
          PROVE  /\ sessions[g].of \in {0} \cup open'
                 /\ sessions[g].of # 0 => sessions[g].turns = turns'[sessions[g].of]
      <4>1. sessions[g].of # w /\ sessions[g].of \in {0} \cup open
        BY <1>1 DEF IInv, Stored, Shared
      <4>2. sessions[g].of # 0 => sessions[g].turns = turns[sessions[g].of] /\ sessions[g].of \in Windows
        BY <4>1 DEF IInv, Stored, Shared, Types, TypeOK
      <4>3. QED BY <1>1, <1>2, <4>1, <4>2 DEF IInv, Types, TypeOK
    <3>2. QED BY <1>3, <3>1 DEF Shared, storeVars
  <2>2. LoadedHolds'
    <3>1. ASSUME NEW v \in loaded' PROVE v \in loaded /\ sessionFile'[v] = sessionFile[v] /\ turns'[v] = turns[v]
      BY <1>2, <3>1 DEF IInv, Types, TypeOK
    <3>2. QED BY <1>3, <3>1 DEF IInv, Stored, LoadedHolds
  <2>3. QED BY <1>3, <2>1, <2>2 DEF IInv, Stored, OrderIsStore, NotStored, RecordedIsKept, storeVars
<1>6. Forgotten'
  <2>1. ASSUME NEW g \in deleted \ contested, NEW v \in open' PROVE ~InUse(v, g)'
    <3>1. g # 0 /\ g # f /\ v \in Windows
      BY <1>1 DEF IInv, Types, TypeOK
    <3>2. CASE v = w
      BY <1>2, <3>1, <3>2 DEF InUse, IInv, Types, TypeOK
    <3>3. CASE v # w
      <4>1. ~InUse(v, g)
        BY <1>1, <3>3 DEF IInv, Forgotten, DeletedUnused
      <4>2. QED BY <1>2, <3>1, <3>3, <4>1 DEF InUse, IInv, Types, TypeOK
    <3>4. QED BY <3>2, <3>3
  <2>2. QED BY <1>3, <2>1 DEF IInv, Forgotten, DeletedUnused, DeletedStaysForgotten, storeVars, deleteVars
<1>7. Written'
  <2>1. Text' = Text
    BY <1>3 DEF Text, storeVars
  <2>2. QED BY <1>3, <2>1, WrittenStays DEF IInv, storeVars
<1>8. QED BY <1>4, <1>5, <1>6, <1>7 DEF IInv

\* A collector that goes away leaves its turns to the entries that shared them.
LEMMA CloseWindowKeeps ==
  ASSUME IInv, NEW w \in Windows, CloseWindow(w)
  PROVE  IInv'
<1>1. /\ w \in open /\ w # 0 /\ open' = open \ {w} /\ streaming' = streaming \ {w} /\ loaded' = loaded \ {w}
      /\ sessionFile' = [sessionFile EXCEPT ![w] = 0] /\ piFile' = [piFile EXCEPT ![w] = 0]
      /\ ask' = [ask EXCEPT ![w] = NoAsk] /\ turns' = [turns EXCEPT ![w] = <<>>]
  BY TelemetryAssumption DEF CloseWindow, Step
<1>2. UNCHANGED <<running, order, dirty, timer, diskVars, made, deleteVars, ended, moves, troubles, recorded, contested, excused, changed>>
  BY DEF CloseWindow
<1>3. /\ DOMAIN sessions' = DOMAIN sessions /\ Text' = Text
      /\ \A f \in DOMAIN sessions :
           /\ sessions'[f] \in [turns : Seq(Turns), of : {0} \cup Windows]
           /\ sessions'[f].turns = sessions[f].turns
           /\ sessions'[f].of = IF sessions[f].of \in {w} THEN 0 ELSE sessions[f].of
  BY ReleasedKeeps DEF CloseWindow, IInv
<1>4. Types'
  <2>1. <<>> \in Seq(Turns) /\ NoAsk \in Asks
    BY DEF Asks
  <2>2. TypeOK'
    BY <1>1, <1>2, <1>3, <2>1 DEF IInv, Types, TypeOK, diskVars, deleteVars
  <2>3. WriteShapes'
    BY <1>2, WriteShapesStay DEF IInv, Types, diskVars
  <2>4. QED BY <1>1, <1>2, <2>2, <2>3 DEF IInv, Types
<1>5. Stored'
  <2>1. Shared'
    <3>1. ASSUME NEW g \in DOMAIN sessions
          PROVE  /\ sessions'[g].of \in {0} \cup open'
                 /\ sessions'[g].of # 0 => sessions'[g].turns = turns'[sessions'[g].of]
      <4>1. CASE sessions[g].of = w
        BY <1>3, <4>1
      <4>2. CASE sessions[g].of # w
        <5>1. sessions'[g].of = sessions[g].of /\ sessions'[g].turns = sessions[g].turns
          BY <1>3, <4>2
        <5>2. /\ sessions[g].of \in {0} \cup open
              /\ sessions[g].of # 0 => sessions[g].turns = turns[sessions[g].of] /\ sessions[g].of \in Windows
          BY DEF IInv, Stored, Shared, Types, TypeOK
        <5>3. QED BY <1>1, <4>2, <5>1, <5>2 DEF IInv, Types, TypeOK
      <4>3. QED BY <4>1, <4>2
    <3>2. QED BY <1>3, <3>1 DEF Shared
  <2>2. LoadedHolds'
    <3>1. ASSUME NEW v \in loaded' PROVE v \in loaded /\ sessionFile'[v] = sessionFile[v] /\ turns'[v] = turns[v]
      BY <1>1, <3>1 DEF IInv, Types, TypeOK
    <3>2. QED BY <1>2, <3>1 DEF IInv, Stored, LoadedHolds
  <2>3. QED BY <1>2, <1>3, <2>1, <2>2 DEF IInv, Stored, OrderIsStore, NotStored, RecordedIsKept
<1>6. Forgotten'
  <2>1. ASSUME NEW g \in deleted \ contested, NEW v \in open' PROVE ~InUse(v, g)'
    <3>1. v # w /\ v \in open /\ v \in Windows /\ ~InUse(v, g)
      BY <1>1 DEF IInv, Types, TypeOK, Forgotten, DeletedUnused
    <3>2. QED BY <1>1, <3>1 DEF InUse, IInv, Types, TypeOK
  <2>2. QED BY <1>2, <1>3, <2>1 DEF IInv, Forgotten, DeletedUnused, DeletedStaysForgotten, deleteVars
<1>7. Written'
  BY <1>2, <1>3, WrittenStays DEF IInv
<1>8. QED BY <1>4, <1>5, <1>6, <1>7 DEF IInv

\* A collector that takes an entry has every turn saved for it; one that finds none has nothing to miss.
LEMMA AnsweredKeeps ==
  ASSUME IInv, NEW w \in Windows, Answered(w)
  PROVE  IInv'
<1>1. PICK g \in {0} \cup Files : g = ask[w].file
  BY DEF Answered, IInv, Types, TypeOK, Asks
<1>2. /\ w \in open /\ w # 0 /\ ask[w] # NoAsk
      /\ ask' = [ask EXCEPT ![w] = NoAsk] /\ sessionFile' = [sessionFile EXCEPT ![w] = g]
  BY <1>1, TelemetryAssumption DEF Answered, Step
<1>3. UNCHANGED <<running, open, order, dirty, timer, diskVars, piVars, deleteVars, ended, moves, troubles, recorded, contested, excused, changed>>
  BY DEF Answered
<1>4. Forgotten' <=> DeletedUnused' /\ (\A f \in deleted \ (deleting \cup contested) : f \notin DOMAIN sessions')
  BY <1>3 DEF Forgotten, DeletedStaysForgotten, deleteVars
<1>5. DeletedUnused'
  <2>1. ASSUME NEW f \in deleted \ contested, NEW v \in open PROVE ~InUse(v, f)'
    <3>1. f # 0 /\ v \in Windows /\ ~InUse(v, f)
      BY DEF IInv, Types, TypeOK, Forgotten, DeletedUnused
    <3>2. CASE v = w
      BY <1>1, <1>2, <1>3, <3>1, <3>2 DEF InUse, IInv, Types, TypeOK, piVars
    <3>3. CASE v # w
      BY <1>2, <1>3, <3>1, <3>3 DEF InUse, IInv, Types, TypeOK, piVars
    <3>4. QED BY <3>2, <3>3
  <2>2. QED BY <1>3, <2>1 DEF DeletedUnused, deleteVars
<1>6. NoAsk \in Asks /\ ask' \in [Windows -> Asks] /\ sessionFile' \in [Windows -> {0} \cup Files]
  BY <1>2 DEF Asks, IInv, Types, TypeOK
<1>7. CASE ask[w].loads /\ g # 0 /\ g \in DOMAIN sessions
  <2>1. /\ turns' = [turns EXCEPT ![w] = sessions[g].turns] /\ sessions' = Released(sessions, {w})
        /\ loaded' = loaded \cup {w}
    BY <1>1, <1>7 DEF Answered, LoadStatsFor
  <2>2. /\ DOMAIN sessions' = DOMAIN sessions /\ Text' = Text
        /\ \A f \in DOMAIN sessions :
             /\ sessions'[f] \in [turns : Seq(Turns), of : {0} \cup Windows]
             /\ sessions'[f].turns = sessions[f].turns
             /\ sessions'[f].of = IF sessions[f].of \in {w} THEN 0 ELSE sessions[f].of
    BY <2>1, ReleasedKeeps DEF IInv
  <2>3. Types'
    <3>1. sessions[g].turns \in Seq(Turns)
      BY <1>7 DEF IInv, Types, TypeOK
    <3>2. TypeOK'
      BY <1>2, <1>3, <1>6, <2>1, <2>2, <3>1 DEF IInv, Types, TypeOK, diskVars, piVars, deleteVars
    <3>3. WriteShapes'
      BY <1>3, WriteShapesStay DEF IInv, Types, diskVars
    <3>4. QED BY <1>2, <1>3, <2>1, <3>2, <3>3 DEF IInv, Types
  <2>4. Shared'
    <3>1. ASSUME NEW f \in DOMAIN sessions
          PROVE  /\ sessions'[f].of \in {0} \cup open
                 /\ sessions'[f].of # 0 => sessions'[f].turns = turns'[sessions'[f].of]
      <4>1. CASE sessions[f].of = w
        BY <2>2, <4>1
      <4>2. CASE sessions[f].of # w
        <5>1. sessions'[f].of = sessions[f].of /\ sessions'[f].turns = sessions[f].turns
          BY <2>2, <4>2
        <5>2. /\ sessions[f].of \in {0} \cup open
              /\ sessions[f].of # 0 => sessions[f].turns = turns[sessions[f].of] /\ sessions[f].of \in Windows
          BY DEF IInv, Stored, Shared, Types, TypeOK
        <5>3. QED BY <2>1, <4>2, <5>1, <5>2 DEF IInv, Types, TypeOK
      <4>3. QED BY <4>1, <4>2
    <3>2. QED BY <1>3, <2>2, <3>1 DEF Shared
  <2>5. LoadedHolds'
    <3>1. ASSUME NEW v \in loaded', sessionFile'[v] # 0, sessionFile'[v] \notin contested
          PROVE  recorded[sessionFile'[v]] \subseteq Range(turns'[v])
      <4>1. CASE v = w
        <5>1. sessionFile'[v] = g /\ turns'[v] = sessions[g].turns
          BY <1>2, <2>1, <4>1 DEF IInv, Types, TypeOK
        <5>2. QED BY <1>7, <3>1, <5>1 DEF IInv, Stored, RecordedIsKept
      <4>2. CASE v # w
        <5>1. v \in loaded /\ sessionFile'[v] = sessionFile[v] /\ turns'[v] = turns[v]
          BY <1>2, <2>1, <4>2 DEF IInv, Types, TypeOK
        <5>2. QED BY <3>1, <5>1 DEF IInv, Stored, LoadedHolds
      <4>3. QED BY <4>1, <4>2
    <3>2. QED BY <1>3, <3>1 DEF LoadedHolds
  <2>6. Stored'
    BY <1>3, <2>2, <2>4, <2>5 DEF IInv, Stored, OrderIsStore, NotStored, RecordedIsKept
  <2>7. Forgotten'
    BY <1>4, <1>5, <2>2 DEF IInv, Forgotten, DeletedStaysForgotten
  <2>8. Written'
    BY <1>3, <2>2, WrittenStays DEF IInv
  <2>9. QED BY <2>3, <2>6, <2>7, <2>8 DEF IInv
<1>8. CASE ~(ask[w].loads /\ g # 0 /\ g \in DOMAIN sessions)
  <2>1. /\ UNCHANGED <<turns, sessions>> /\ loaded' \subseteq open
        /\ \A v \in loaded' : v # w => v \in loaded
        /\ w \in loaded' => (w \in loaded /\ g = sessionFile[w]) \/ g \notin DOMAIN sessions
    <3>1. CASE ask[w].loads /\ g # 0
      BY <1>1, <1>2, <1>8, <3>1 DEF Answered, LoadStatsFor, IInv, Types
    <3>2. CASE ~(ask[w].loads /\ g # 0)
      BY <1>1, <1>2, <3>2 DEF Answered, IInv, Types
    <3>3. QED BY <3>1, <3>2
  <2>2. Types'
    <3>1. TypeOK'
      BY <1>3, <1>6, <2>1 DEF IInv, Types, TypeOK, diskVars, piVars, deleteVars
    <3>2. WriteShapes'
      BY <1>3, WriteShapesStay DEF IInv, Types, diskVars
    <3>3. QED BY <1>3, <2>1, <3>1, <3>2 DEF IInv, Types
  <2>3. LoadedHolds'
    <3>1. ASSUME NEW v \in loaded', sessionFile'[v] # 0, sessionFile'[v] \notin contested
          PROVE  recorded[sessionFile'[v]] \subseteq Range(turns[v])
      <4>1. CASE v \in loaded /\ sessionFile'[v] = sessionFile[v]
        BY <3>1, <4>1 DEF IInv, Stored, LoadedHolds
      <4>2. CASE ~(v \in loaded /\ sessionFile'[v] = sessionFile[v])
        <5>1. v \in Windows
          BY <2>1 DEF IInv, Types, TypeOK
        <5>2. v = w /\ sessionFile'[v] = g /\ g \in Files
          BY <1>2, <2>1, <3>1, <4>2, <5>1 DEF IInv, Types, TypeOK
        <5>3. g \notin DOMAIN sessions
          BY <2>1, <4>2, <5>2
        <5>4. QED BY <5>2, <5>3 DEF IInv, Stored, NotStored
      <4>3. QED BY <4>1, <4>2
    <3>2. QED BY <1>3, <2>1, <3>1 DEF LoadedHolds
  <2>4. Stored'
    BY <1>3, <2>1, <2>3 DEF IInv, Stored, OrderIsStore, Shared, NotStored, RecordedIsKept
  <2>5. Forgotten'
    BY <1>4, <1>5, <2>1 DEF IInv, Forgotten, DeletedStaysForgotten
  <2>6. Text' = Text
    BY <2>1 DEF Text
  <2>7. Written'
    BY <1>3, <2>6, WrittenStays DEF IInv
  <2>8. QED BY <2>2, <2>4, <2>5, <2>7 DEF IInv
<1>9. QED BY <1>7, <1>8

--------------------------------------------------------------------------------
\* A turn that ends

\* The turns after one more was pushed.
LEMMA PushKeeps ==
  ASSUME IInv, NEW w \in open, ended < MaxTurns
  PROVE  LET settled == Append(turns[w], ended + 1)
         IN /\ settled \in Seq(Turns) /\ ended + 1 \in 0..MaxTurns
            /\ Range(settled) = Range(turns[w]) \cup {ended + 1}
            /\ \A f \in DOMAIN sessions :
                 /\ Pushed(w, ended + 1)[f] \in [turns : Seq(Turns), of : {0} \cup open]
                 /\ Pushed(w, ended + 1)[f].of = sessions[f].of
                 /\ sessions[f].of = w => Pushed(w, ended + 1)[f].turns = settled
                 /\ sessions[f].of # w => Pushed(w, ended + 1)[f].turns = sessions[f].turns
                 /\ Range(sessions[f].turns) \subseteq Range(Pushed(w, ended + 1)[f].turns)
<1>1. w \in Windows /\ w # 0 /\ turns[w] \in Seq(Turns)
  BY TelemetryAssumption DEF IInv, Types, TypeOK
<1>2. ended + 1 \in Turns /\ ended + 1 \in 0..MaxTurns
  BY TelemetryAssumption DEF IInv, Types, TypeOK, Turns
<1>3. PICK s, n : s = turns[w] /\ n = ended + 1
  OBVIOUS
<1>4. /\ Append(s, n) \in Seq(Turns) /\ Len(Append(s, n)) = Len(s) + 1
      /\ Append(s, n)[Len(s) + 1] = n /\ \A i \in 1..Len(s) : Append(s, n)[i] = s[i]
  BY <1>1, <1>2, <1>3
<1>5. Range(Append(s, n)) = Range(s) \cup {n}
  <2>1. \A x \in Range(Append(s, n)) : x \in Range(s) \cup {n}
    BY <1>1, <1>3, <1>4 DEF Range
  <2>2. n \in Range(Append(s, n)) /\ \A x \in Range(s) : x \in Range(Append(s, n))
    BY <1>1, <1>3, <1>4 DEF Range
  <2>3. QED BY <2>1, <2>2
<1>6. ASSUME NEW f \in DOMAIN sessions
      PROVE  /\ Pushed(w, n)[f] \in [turns : Seq(Turns), of : {0} \cup open]
             /\ Pushed(w, n)[f].of = sessions[f].of
             /\ sessions[f].of = w => Pushed(w, n)[f].turns = Append(s, n)
             /\ sessions[f].of # w => Pushed(w, n)[f].turns = sessions[f].turns
             /\ Range(sessions[f].turns) \subseteq Range(Pushed(w, n)[f].turns)
  <2>1. /\ sessions[f] \in [turns : Seq(Turns), of : {0} \cup open]
        /\ sessions[f].of = w => sessions[f].turns = s
    BY <1>1, <1>3 DEF IInv, Types, TypeOK, Stored, Shared
  <2>2. Pushed(w, n)[f] = IF sessions[f].of = w THEN [sessions[f] EXCEPT !.turns = Append(s, n)] ELSE sessions[f]
    BY <1>3 DEF Pushed
  <2>3. QED BY <1>4, <1>5, <2>1, <2>2
<1>7. QED BY <1>2, <1>3, <1>4, <1>5, <1>6

\* A turn of a window whose session has no file is kept by its collector alone.
LEMMA SettlesUnnamedKeeps ==
  ASSUME IInv, NEW w \in Windows, Settles(w), sessionFile[w] = 0
  PROVE  IInv'
<1>1. w \in open /\ ended < MaxTurns
  BY DEF Settles, Step
<1>2. PICK n, settled : n = ended + 1 /\ settled = Append(turns[w], n)
  OBVIOUS
<1>3. /\ settled \in Seq(Turns) /\ n \in 0..MaxTurns /\ Range(settled) = Range(turns[w]) \cup {n}
      /\ \A f \in DOMAIN sessions :
           /\ Pushed(w, n)[f] \in [turns : Seq(Turns), of : {0} \cup open]
           /\ Pushed(w, n)[f].of = sessions[f].of
           /\ sessions[f].of = w => Pushed(w, n)[f].turns = settled
           /\ sessions[f].of # w => Pushed(w, n)[f].turns = sessions[f].turns
           /\ Range(sessions[f].turns) \subseteq Range(Pushed(w, n)[f].turns)
  BY <1>1, <1>2, PushKeeps
<1>4. /\ streaming' = streaming \ {w} /\ turns' = [turns EXCEPT ![w] = settled] /\ ended' = n
      /\ sessions' = Pushed(w, n) /\ DOMAIN sessions' = DOMAIN sessions
      /\ excused' = IF sessions' # sessions THEN excused \cup {"unnamed"} ELSE excused
      /\ IF ask[w] = NoAsk THEN Asked(w, piFile[w], FALSE) ELSE UNCHANGED ask
  BY <1>2 DEF Settles, Pushed
<1>5. UNCHANGED <<order, dirty, timer, changed, recorded, contested, loaded, running, open, sessionFile, diskVars, piFile, made, deleteVars, moves, troubles>>
  BY DEF Settles
<1>6. ask' \in [Windows -> Asks] /\ \A v \in open, f \in deleted : InUse(v, f)' => InUse(v, f)
  <2>1. CASE ask[w] # NoAsk
    BY <1>4, <1>5, <2>1 DEF InUse, IInv, Types, TypeOK
  <2>2. CASE ask[w] = NoAsk
    <3>1. ask' = [ask EXCEPT ![w] = [st |-> "asked", file |-> piFile[w], loads |-> FALSE]]
      BY <1>4, <2>2 DEF Asked
    <3>2. [st |-> "asked", file |-> piFile[w], loads |-> FALSE] \in Asks
      BY DEF Asks, IInv, Types, TypeOK
    <3>3. ask' \in [Windows -> Asks] /\ ask'[w].file = piFile[w] /\ \A v \in Windows : v # w => ask'[v] = ask[v]
      BY <3>1, <3>2 DEF IInv, Types, TypeOK
    <3>4. \A v \in open : v \in Windows
      BY MadeStays
    <3>5. QED BY <1>5, <3>3, <3>4 DEF InUse
  <2>3. QED BY <2>1, <2>2
<1>7. Types'
  <2>1. \A f \in DOMAIN sessions' : sessions'[f] \in [turns : Seq(Turns), of : {0} \cup Windows]
    BY <1>3, <1>4 DEF IInv, Types, TypeOK
  <2>2. turns' \in [Windows -> Seq(Turns)] /\ streaming' \subseteq open /\ excused' \subseteq {"failed", "unnamed", "overlap"}
    BY <1>3, <1>4 DEF IInv, Types, TypeOK
  <2>3. TypeOK'
    BY <1>3, <1>4, <1>5, <1>6, <2>1, <2>2 DEF IInv, Types, TypeOK, diskVars, deleteVars
  <2>4. WriteShapes'
    BY <1>5, WriteShapesStay DEF IInv, Types, diskVars
  <2>5. QED BY <1>5, <2>3, <2>4 DEF IInv, Types
<1>8. Stored'
  <2>1. Shared'
    <3>1. ASSUME NEW f \in DOMAIN sessions
          PROVE  /\ sessions'[f].of \in {0} \cup open
                 /\ sessions'[f].of # 0 => sessions'[f].turns = turns'[sessions'[f].of]
      <4>1. /\ sessions[f].of \in {0} \cup open
            /\ sessions[f].of # 0 => sessions[f].turns = turns[sessions[f].of] /\ sessions[f].of \in Windows
        BY DEF IInv, Stored, Shared, Types, TypeOK
      <4>2. turns'[w] = settled /\ \A v \in Windows : v # w => turns'[v] = turns[v]
        BY <1>4 DEF IInv, Types, TypeOK
      <4>3. QED BY <1>3, <1>4, <4>1, <4>2
    <3>2. QED BY <1>4, <1>5, <3>1 DEF Shared
  <2>2. LoadedHolds'
    <3>1. ASSUME NEW v \in loaded PROVE Range(turns[v]) \subseteq Range(turns'[v])
      BY <1>3, <1>4 DEF IInv, Types, TypeOK
    <3>2. QED BY <1>5, <3>1 DEF IInv, Stored, LoadedHolds
  <2>3. RecordedIsKept'
    <3>1. \A f \in DOMAIN sessions : Range(sessions[f].turns) \subseteq Range(sessions'[f].turns)
      BY <1>3, <1>4
    <3>2. QED BY <1>4, <1>5, <3>1 DEF IInv, Stored, RecordedIsKept
  <2>4. QED BY <1>4, <1>5, <2>1, <2>2, <2>3 DEF IInv, Stored, OrderIsStore, NotStored
<1>9. Forgotten'
  BY <1>4, <1>5, <1>6 DEF IInv, Forgotten, DeletedUnused, DeletedStaysForgotten, deleteVars
<1>10. Written'
  <2>1. CASE sessions' = sessions
    <3>1. Text' = Text /\ excused' = excused
      BY <1>4, <2>1 DEF Text
    <3>2. QED BY <1>5, <3>1, WrittenStays DEF IInv
  <2>2. CASE sessions' # sessions
    <3>1. excused' = excused \cup {"unnamed"} /\ Busy' = Busy
      BY <1>4, <1>5, <2>2 DEF Busy, diskVars
    <3>2. QED BY <1>5, <3>1 DEF IInv, Written, TimerIsDirty, OneWrite, WriteIsNewest, diskVars
  <2>3. QED BY <2>1, <2>2
<1>11. QED BY <1>7, <1>8, <1>9, <1>10 DEF IInv

\* A turn saved under its session's file joins everything that was saved for it before, unless the
\* window never loaded the entry or shares the session.
LEMMA SettlesNamedKeeps ==
  ASSUME IInv, NEW w \in Windows, Settles(w), sessionFile[w] # 0
  PROVE  IInv'
<1>1. w \in open /\ w # 0 /\ ended < MaxTurns /\ running
  BY TelemetryAssumption DEF Settles, Step
<1>2. PICK n, settled : n = ended + 1 /\ settled = Append(turns[w], n)
  OBVIOUS
<1>3. /\ settled \in Seq(Turns) /\ n \in 0..MaxTurns /\ n \in Turns /\ Range(settled) = Range(turns[w]) \cup {n}
      /\ \A g \in DOMAIN sessions :
           /\ Pushed(w, n)[g] \in [turns : Seq(Turns), of : {0} \cup open]
           /\ Pushed(w, n)[g].of = sessions[g].of
           /\ sessions[g].of = w => Pushed(w, n)[g].turns = settled
           /\ sessions[g].of # w => Pushed(w, n)[g].turns = sessions[g].turns
           /\ Range(sessions[g].turns) \subseteq Range(Pushed(w, n)[g].turns)
  <2>1. n \in Turns
    BY <1>1, <1>2, TelemetryAssumption DEF IInv, Types, TypeOK, Turns
  <2>2. QED BY <1>1, <1>2, <2>1, PushKeeps
<1>4. PICK f \in Files : f = sessionFile[w]
  BY DEF IInv, Types, TypeOK
<1>5. /\ streaming' = streaming \ {w} /\ turns' = [turns EXCEPT ![w] = settled] /\ ended' = n
      /\ Save(Pushed(w, n), f, [turns |-> settled, of |-> w])
      /\ recorded' = Recorded(f, n)
      /\ contested' = IF f \in DOMAIN sessions /\ (w \notin loaded \/ \E v \in open \ {w} : InUse(v, f))
                        THEN contested \cup {f} ELSE contested
      /\ loaded' = loaded \ {v \in open \ {w} : InUse(v, f)}
  BY <1>2, <1>4 DEF Settles
<1>6. UNCHANGED <<ask, excused, running, open, sessionFile, diskVars, piFile, made, deleteVars, moves, troubles>>
  BY DEF Settles
<1>7. PICK o, t : o = order /\ t = order'
  OBVIOUS
<1>8. o \in Seq(Files) /\ IsInjective(o) /\ Len(o) <= MaxSessions /\ Range(o) = DOMAIN sessions
  BY <1>7 DEF IInv, Types, TypeOK, Stored, OrderIsStore
<1>9. /\ t \in Seq(Files) /\ IsInjective(t) /\ Len(t) <= MaxSessions
      /\ f \in Range(t) /\ Range(t) \subseteq DOMAIN sessions \cup {f}
  BY <1>5, <1>7, <1>8, EvictedKeepsOrder DEF Save
<1>10. /\ DOMAIN sessions' = Range(t) /\ sessions'[f] = [turns |-> settled, of |-> w]
       /\ \A g \in Range(t) : g # f => g \in DOMAIN sessions /\ sessions'[g] = Pushed(w, n)[g]
  BY <1>5, <1>7, <1>9 DEF Save
<1>11. Range(t) \subseteq Files
  BY <1>9 DEF Range
<1>12. turns'[w] = settled /\ \A v \in Windows : v # w => turns'[v] = turns[v]
  BY <1>5 DEF IInv, Types, TypeOK
<1>13. contested \subseteq contested' /\ contested' \subseteq Files
  BY <1>5 DEF IInv, Types
<1>14. /\ recorded'[f] = recorded[f] \cup {n}
       /\ \A g \in Files : g # f => recorded'[g] = IF g \in Range(t) THEN recorded[g] ELSE {}
       /\ recorded' \in [Files -> SUBSET Turns]
  BY <1>3, <1>5, <1>7 DEF Recorded, IInv, Types
<1>15. ASSUME f \notin contested' PROVE recorded[f] \subseteq Range(turns[w])
  <2>1. CASE f \notin DOMAIN sessions
    BY <2>1 DEF IInv, Stored, NotStored
  <2>2. CASE f \in DOMAIN sessions
    BY <1>4, <1>5, <1>15, <2>2 DEF IInv, Stored, LoadedHolds
  <2>3. QED BY <2>1, <2>2
<1>16. Types'
  <2>1. \A g \in DOMAIN sessions' : sessions'[g] \in [turns : Seq(Turns), of : {0} \cup Windows]
    <3>1. open \subseteq Windows
      BY DEF IInv, Types, TypeOK
    <3>2. [turns |-> settled, of |-> w] \in [turns : Seq(Turns), of : {0} \cup Windows]
      BY <1>3
    <3>3. QED BY <1>3, <1>10, <3>1, <3>2
  <2>2. turns' \in [Windows -> Seq(Turns)] /\ streaming' \subseteq open
    BY <1>3, <1>5 DEF IInv, Types, TypeOK
  <2>3. TypeOK'
    <3>1. dirty' \in BOOLEAN /\ timer' \in BOOLEAN /\ order' \in Seq(Files) /\ ended' \in 0..MaxTurns
      BY <1>3, <1>5, <1>7, <1>9 DEF Save, Schedule
    <3>2. QED BY <1>6, <1>10, <1>11, <2>1, <2>2, <3>1 DEF IInv, Types, TypeOK, diskVars, deleteVars
  <2>4. WriteShapes'
    BY <1>6, WriteShapesStay DEF IInv, Types, diskVars
  <2>5. changed' \in BOOLEAN /\ loaded' \subseteq open
    BY <1>5 DEF Save, Schedule, IInv, Types
  <2>6. QED BY <1>6, <1>13, <1>14, <2>3, <2>4, <2>5 DEF IInv, Types
<1>17. Stored'
  <2>1. OrderIsStore'
    BY <1>7, <1>9, <1>10 DEF OrderIsStore
  <2>2. Shared'
    <3>1. ASSUME NEW g \in DOMAIN sessions', g # f
          PROVE  /\ sessions'[g].of \in {0} \cup open
                 /\ sessions'[g].of # 0 => sessions'[g].turns = turns'[sessions'[g].of]
      <4>1. g \in DOMAIN sessions /\ sessions'[g] = Pushed(w, n)[g]
        BY <1>10, <3>1
      <4>2. /\ sessions[g].of \in {0} \cup open
            /\ sessions[g].of # 0 => sessions[g].turns = turns[sessions[g].of] /\ sessions[g].of \in Windows
        BY <4>1 DEF IInv, Stored, Shared, Types, TypeOK
      <4>3. QED BY <1>3, <1>12, <4>1, <4>2
    <3>2. sessions'[f].of = w /\ sessions'[f].turns = turns'[w]
      BY <1>10, <1>12
    <3>3. QED BY <1>1, <1>6, <3>1, <3>2 DEF Shared
  <2>3. NotStored'
    BY <1>9, <1>10, <1>14 DEF NotStored
  <2>4. LoadedHolds'
    <3>1. ASSUME NEW v \in loaded', sessionFile[v] # 0, sessionFile[v] \notin contested'
          PROVE  recorded'[sessionFile[v]] \subseteq Range(turns'[v])
      <4>1. v \in loaded /\ v \in open /\ v \in Windows
        BY <1>5 DEF IInv, Types, TypeOK
      <4>2. CASE v = w
        BY <1>3, <1>4, <1>12, <1>14, <1>15, <3>1, <4>2
      <4>3. CASE v # w
        <5>1. ~InUse(v, f)
          BY <1>5, <3>1, <4>1, <4>3
        <5>2. sessionFile[v] # f /\ sessionFile[v] \in Files
          BY <3>1, <4>1, <5>1 DEF InUse, IInv, Types, TypeOK
        <5>3. recorded[sessionFile[v]] \subseteq Range(turns[v])
          BY <1>13, <3>1, <4>1 DEF IInv, Stored, LoadedHolds
        <5>4. QED BY <1>12, <1>14, <4>1, <4>3, <5>2, <5>3
      <4>4. QED BY <4>2, <4>3
    <3>2. QED BY <1>6, <3>1 DEF LoadedHolds
  <2>5. RecordedIsKept'
    <3>1. ASSUME NEW g \in DOMAIN sessions', g \notin contested'
          PROVE  recorded'[g] \subseteq Range(sessions'[g].turns)
      <4>1. CASE g = f
        <5>1. sessions'[f].turns = settled
          BY <1>10
        <5>2. QED BY <1>3, <1>14, <1>15, <3>1, <4>1, <5>1
      <4>2. CASE g # f
        <5>1. g \in DOMAIN sessions /\ sessions'[g] = Pushed(w, n)[g] /\ g \in Files
          BY <1>10, <1>11, <3>1, <4>2
        <5>2. recorded[g] \subseteq Range(sessions[g].turns)
          BY <1>13, <3>1, <5>1 DEF IInv, Stored, RecordedIsKept
        <5>3. Range(sessions[g].turns) \subseteq Range(sessions'[g].turns)
          BY <1>3, <5>1
        <5>4. QED BY <1>14, <4>2, <5>1, <5>2, <5>3
      <4>3. QED BY <4>1, <4>2
    <3>2. QED BY <3>1 DEF RecordedIsKept
  <2>6. QED BY <2>1, <2>2, <2>3, <2>4, <2>5 DEF Stored
<1>18. Forgotten'
  <2>1. DeletedUnused'
    <3>1. \A v \in open, g \in deleted : InUse(v, g)' <=> InUse(v, g)
      BY <1>6 DEF InUse
    <3>2. QED BY <1>6, <1>13, <3>1 DEF IInv, Forgotten, DeletedUnused, deleteVars
  <2>2. f \notin deleted \ contested
    BY <1>1, <1>4 DEF IInv, Forgotten, DeletedUnused, InUse
  <2>3. QED
    BY <1>6, <1>9, <1>10, <1>13, <2>1, <2>2 DEF IInv, Forgotten, DeletedStaysForgotten, deleteVars
<1>19. Written'
  BY <1>1, <1>5, <1>6, ScheduledIsWritten DEF IInv, Save
<1>20. QED BY <1>16, <1>17, <1>18, <1>19 DEF IInv

--------------------------------------------------------------------------------
\* A session that is deleted, and the application's end

LEMMA DeletesFileKeeps ==
  ASSUME IInv, NEW w \in Windows, NEW f \in Files, DeletesFile(w, f)
  PROVE  IInv'
<1>1. /\ f \in 1..made /\ f \notin deleted /\ deleted' = deleted \cup {f} /\ deleting' = deleting \cup {f}
      /\ contested' = IF \E v \in open : InUse(v, f) THEN contested \cup {f} ELSE contested
  BY DEF DeletesFile, Live
<1>2. UNCHANGED <<running, chatVars, storeVars, diskVars, piVars, ended, troubles, loaded, recorded, excused, changed>>
  BY DEF DeletesFile
<1>3. Types'
  <2>1. moves' \in 0..MaxMoves
    BY MoveCounts DEF DeletesFile
  <2>2. TypeOK'
    BY <1>1, <1>2, <2>1 DEF IInv, Types, TypeOK, chatVars, storeVars, diskVars, piVars
  <2>3. WriteShapes'
    BY <1>2, WriteShapesStay DEF IInv, Types, diskVars
  <2>4. QED BY <1>1, <1>2, <2>2, <2>3 DEF IInv, Types, chatVars
<1>4. contested \subseteq contested'
  BY <1>1
<1>5. Stored'
  BY <1>2, <1>4 DEF IInv, Stored, OrderIsStore, Shared, NotStored, LoadedHolds, RecordedIsKept, chatVars, storeVars
<1>6. Forgotten'
  <2>1. ASSUME NEW v \in open, NEW g \in deleted' \ contested' PROVE ~InUse(v, g)
    BY <1>1, <1>4 DEF IInv, Forgotten, DeletedUnused
  <2>2. \A v \in open, g \in deleted' : InUse(v, g)' <=> InUse(v, g)
    BY <1>2 DEF InUse, chatVars, piVars
  <2>3. DeletedUnused'
    BY <1>2, <2>1, <2>2 DEF DeletedUnused, chatVars
  <2>4. QED
    BY <1>1, <1>2, <1>4, <2>3 DEF IInv, Forgotten, DeletedStaysForgotten, storeVars
<1>7. Text' = Text
  BY <1>2 DEF Text, storeVars
<1>8. Written'
  BY <1>2, <1>7, WrittenStays DEF IInv, storeVars
<1>9. QED BY <1>3, <1>5, <1>6, <1>8 DEF IInv

LEMMA ForgetsKeeps ==
  ASSUME IInv, NEW f \in Files, Forgets(f)
  PROVE  IInv'
<1>1. /\ running /\ deleting' = deleting \ {f} /\ recorded' = [recorded EXCEPT ![f] = {}]
      /\ sessions' = [g \in DOMAIN sessions \ {f} |-> sessions[g]] /\ order' = Without(order, f) /\ Schedule
  BY DEF Forgets, Forget
<1>2. UNCHANGED <<running, chatVars, diskVars, piVars, deleted, ended, moves, troubles, loaded, contested, excused>>
  BY DEF Forgets
<1>3. PICK o, t : o = order /\ t = order'
  OBVIOUS
<1>4. o \in Seq(Files) /\ IsInjective(o) /\ Len(o) <= MaxSessions /\ Range(o) = DOMAIN sessions
  BY <1>3 DEF IInv, Types, TypeOK, Stored, OrderIsStore
<1>5. t \in Seq(Files) /\ IsInjective(t) /\ Len(t) <= MaxSessions /\ Range(t) = DOMAIN sessions \ {f}
  <2>1. t = Without(o, f) /\ Len(o) \in Nat
    BY <1>1, <1>3, <1>4
  <2>2. QED BY <1>4, <2>1, WithoutRemoves, TelemetryAssumption
<1>6. /\ DOMAIN sessions' = DOMAIN sessions \ {f}
      /\ \A g \in DOMAIN sessions' : sessions'[g] = sessions[g]
  BY <1>1
<1>7. /\ recorded' \in [Files -> SUBSET Turns] /\ recorded'[f] = {}
      /\ \A g \in Files : g # f => recorded'[g] = recorded[g]
  BY <1>1 DEF IInv, Types
<1>8. Types'
  <2>1. dirty' \in BOOLEAN /\ timer' \in BOOLEAN /\ changed' \in BOOLEAN
    BY <1>1 DEF Schedule
  <2>2. TypeOK'
    BY <1>1, <1>2, <1>3, <1>5, <1>6, <2>1 DEF IInv, Types, TypeOK, chatVars, diskVars, piVars
  <2>3. WriteShapes'
    BY <1>2, WriteShapesStay DEF IInv, Types, diskVars
  <2>4. QED BY <1>2, <1>7, <2>1, <2>2, <2>3 DEF IInv, Types, chatVars
<1>9. Stored'
  <2>1. OrderIsStore'
    BY <1>3, <1>5, <1>6 DEF OrderIsStore
  <2>2. Shared' /\ RecordedIsKept'
    BY <1>2, <1>6, <1>7 DEF IInv, Types, TypeOK, Stored, Shared, RecordedIsKept, chatVars
  <2>3. NotStored'
    BY <1>6, <1>7 DEF IInv, Stored, NotStored
  <2>4. LoadedHolds'
    <3>1. \A v \in loaded : sessionFile[v] # 0 => sessionFile[v] \in Files
      BY DEF IInv, Types, TypeOK
    <3>2. QED BY <1>2, <1>7, <3>1 DEF IInv, Stored, LoadedHolds, chatVars
  <2>5. QED BY <2>1, <2>2, <2>3, <2>4 DEF Stored
<1>10. Forgotten'
  <2>1. DeletedUnused'
    BY <1>2 DEF IInv, Forgotten, DeletedUnused, InUse, chatVars, piVars
  <2>2. QED BY <1>1, <1>2, <1>6, <2>1 DEF IInv, Forgotten, DeletedStaysForgotten
<1>11. Written'
  BY <1>1, <1>2, ScheduledIsWritten DEF IInv
<1>12. QED BY <1>8, <1>9, <1>10, <1>11 DEF IInv

LEMMA QuitsKeeps ==
  ASSUME IInv, Quits
  PROVE  IInv'
<1>1. /\ running' = FALSE /\ open' = {} /\ streaming' = {} /\ loaded' = {} /\ deleting' = {}
      /\ sessions' = Nothing /\ order' = <<>> /\ dirty' = FALSE /\ timer' = FALSE
      /\ contested' = {} /\ changed' = FALSE /\ excused' = excused \cap {"overlap"}
      /\ recorded' = [f \in Files |-> {}] /\ writes' = [i \in Writes |-> NoWrite]
      /\ UNCHANGED <<tmp, file, made, deleted, ended, moves>>
  BY DEF Quits
<1>2. DOMAIN sessions' = {} /\ Range(order') = {} /\ IsInjective(order') /\ Len(order') <= MaxSessions
  BY <1>1, TelemetryAssumption DEF Nothing, Range, IsInjective
<1>3. Busy' = {}
  BY <1>1 DEF Busy, NoWrite
<1>4. Types'
  <2>1. /\ sessionFile' \in [Windows -> {0} \cup Files] /\ piFile' \in [Windows -> {0} \cup Files]
        /\ ask' \in [Windows -> Asks] /\ turns' \in [Windows -> Seq(Turns)] /\ order' \in Seq(Files)
    <3>1. <<>> \in Seq(Turns) /\ <<>> \in Seq(Files) /\ NoAsk \in Asks
      BY DEF Asks
    <3>2. QED BY <1>1, <3>1 DEF Quits
  <2>2. troubles' \in 0..MaxTroubles
    BY TelemetryAssumption DEF Quits, Trouble, IInv, Types, TypeOK
  <2>3. WriteShapes' /\ \A i \in Writes : writes'[i].st = "none"
    BY <1>1 DEF WriteShapes, NoWrite
  <2>4. TypeOK'
    BY <1>1, <1>2, <2>1, <2>2, <2>3 DEF IInv, Types, TypeOK
  <2>5. QED BY <1>1, <2>3, <2>4 DEF Types
<1>5. Stored'
  BY <1>1, <1>2 DEF Stored, OrderIsStore, Shared, NotStored, LoadedHolds, RecordedIsKept
<1>6. Forgotten'
  BY <1>1, <1>2 DEF Forgotten, DeletedUnused, DeletedStaysForgotten
<1>7. Written'
  BY <1>1, <1>3 DEF IInv, Written, TimerIsDirty, OneWrite, WriteIsNewest
<1>8. QED BY <1>4, <1>5, <1>6, <1>7 DEF IInv

LEMMA StartsKeeps ==
  ASSUME IInv, Starts
  PROVE  IInv'
<1>1. running' = TRUE /\ UNCHANGED <<chatVars, storeVars, diskVars, piVars, deleteVars, ended, moves, troubles, historyVars>>
  BY DEF Starts
<1>2. Types'
  <2>1. WriteShapes'
    BY <1>1, WriteShapesStay DEF IInv, Types, diskVars
  <2>2. QED BY <1>1, <2>1 DEF IInv, Types, TypeOK, chatVars, storeVars, diskVars, piVars, deleteVars, historyVars
<1>3. Stored'
  BY <1>1, StoredStays DEF IInv, chatVars, storeVars, historyVars
<1>4. Forgotten'
  BY <1>1 DEF IInv, Forgotten, DeletedUnused, DeletedStaysForgotten, InUse, chatVars, storeVars, piVars, deleteVars, historyVars
<1>5. Written'
  <2>1. ~changed /\ Busy' = Busy
    BY <1>1 DEF Starts, IInv, Written, TimerIsDirty, Busy, diskVars
  <2>2. QED BY <1>1, <2>1 DEF IInv, Written, TimerIsDirty, OneWrite, WriteIsNewest, storeVars, diskVars, historyVars
<1>6. QED BY <1>2, <1>3, <1>4, <1>5 DEF IInv

--------------------------------------------------------------------------------
\* The theorems

LEMMA NextIInv == IInv /\ [Next]_vars => IInv'
<1> SUFFICES ASSUME IInv, [Next]_vars PROVE IInv'
  OBVIOUS
<1>1. CASE UNCHANGED vars
  <2>1. UNCHANGED <<running, chatVars, storeVars, diskVars, piVars, deleteVars, ended, moves, troubles, historyVars>>
    BY <1>1 DEF vars
  <2>2. WriteShapes'
    BY <2>1, WriteShapesStay DEF IInv, Types, diskVars
  <2>3. Types'
    BY <2>1, <2>2 DEF IInv, Types, TypeOK, chatVars, storeVars, diskVars, piVars, deleteVars, historyVars
  <2>4. Stored'
    BY <2>1, StoredStays DEF IInv, chatVars, storeVars, historyVars
  <2>5. Forgotten'
    BY <2>1 DEF IInv, Forgotten, DeletedUnused, DeletedStaysForgotten, InUse, chatVars, storeVars, piVars, deleteVars, historyVars
  <2>6. Written'
    <3>1. Text' = Text
      BY <2>1 DEF Text, storeVars
    <3>2. QED BY <2>1, <3>1, WrittenStays DEF IInv, storeVars, historyVars
  <2>7. QED BY <2>3, <2>4, <2>5, <2>6 DEF IInv
<1>2. CASE TimerFires
  BY <1>2, TimerFiresKeeps
<1>3. CASE WriteStep
  BY <1>3, WriteStepKeeps
<1>4. CASE WriteFails
  BY <1>4, WriteFailsKeeps
<1>5. CASE Quits
  BY <1>5, QuitsKeeps
<1>6. CASE Starts
  BY <1>6, StartsKeeps
<1>7. ASSUME NEW w \in Windows, CloseWindow(w) PROVE IInv'
  BY <1>7, CloseWindowKeeps
<1>8. ASSUME NEW w \in Windows, Answered(w) PROVE IInv'
  BY <1>8, AnsweredKeeps
<1>9. ASSUME NEW w \in Windows, AskFails(w) PROVE IInv'
  BY <1>9, AskFailsKeeps
<1>10. ASSUME NEW w \in Windows, Hydrates(w) \/ Names(w) PROVE IInv'
  BY <1>10, HydratesKeeps
<1>11. ASSUME NEW w \in Windows, Prompts(w) PROVE IInv'
  BY <1>11, PromptsKeeps
<1>12. ASSUME NEW w \in Windows, Settles(w) PROVE IInv'
  BY <1>12, SettlesNamedKeeps, SettlesUnnamedKeeps
<1>13. ASSUME NEW w \in Windows, NewSession(w) \/ Fork(w) \/ \E f \in Files : SwitchTo(w, f) PROVE IInv'
  BY <1>13, CommandsKeep
<1>14. ASSUME NEW w \in Windows, NEW f \in {0} \cup Files, OpenWindow(w, f) PROVE IInv'
  BY <1>14, OpenWindowKeeps
<1>15. ASSUME NEW w \in Windows, NEW f \in Files, DeletesFile(w, f) PROVE IInv'
  BY <1>15, DeletesFileKeeps
<1>16. ASSUME NEW f \in Files, Forgets(f) PROVE IInv'
  BY <1>16, ForgetsKeeps
<1>17. QED
  BY <1>1, <1>2, <1>3, <1>4, <1>5, <1>6, <1>7, <1>8, <1>9, <1>10, <1>11, <1>12, <1>13, <1>14, <1>15, <1>16 DEF Next

\* The entries share a collector's array with its window alone, a loaded collector has every turn
\* saved for its session, and the one write under way, or the file it was renamed to, says what
\* memory says unless the timer runs (stats-store.ts, save, load and persist).
THEOREM InvariantHolds == Spec => []IInv
<1>1. Init => IInv
  BY InitIInv
<1>2. IInv /\ [Next]_vars => IInv'
  BY NextIInv
<1>3. QED BY <1>1, <1>2, PTL DEF Spec

\* Whatever the windows load, switch to and save, the store keeps every turn it was told of until
\* it evicts or forgets the session, and a deleted session stays forgotten (stats-store.ts, save
\* and forget; chat-session.ts, loadStatsFor and persistStats).
THEOREM TheStoreIsTrue == Spec => []StoreIsTrue
<1>1. IInv => StoreIsTrue
  BY DEF IInv, Types, Stored, Forgotten, StoreIsTrue
<1>2. QED BY <1>1, InvariantHolds, PTL

\* A crash at any step leaves a whole file unless two writes were under way at once, and when
\* nothing is pending or failed the file says what memory says (stats-store.ts, persist).
THEOREM TheFileIsTrue == Spec => []FileIsTrue
<1>1. IInv => FileIsTrue
  BY DEF IInv, Written, OneWrite, WriteIsNewest, FileIsTrue
<1>2. QED BY <1>1, InvariantHolds, PTL
=============================================================================
