---------------------------- MODULE Terminals_proofs ----------------------------
(***************************************************************************)
(* Proofs about SpawnQueue for any keys, callers and number of start-ups,   *)
(* and about Terminals for any start-ups, openings and restarts.            *)
(*                                                                         *)
(* IInv is the inductive invariant of the queue.  TypeOK and its properties *)
(* are not inductive alone: that a call in line is still unanswered and     *)
(* stands there once (InLine, OnceInLine), and that a holder was neither    *)
(* reported nor timed out (HolderIsFresh), is what makes one hand-over      *)
(* answer one turn-taker.                                                   *)
(*                                                                         *)
(* That turns come in order (StartUpTurns) needs that an unanswered call     *)
(* stands in the line of its key (StandsInLine): the line of the abstract   *)
(* queue is made of promises, that of the code of places.                   *)
(*                                                                         *)
(* What holds of the queue alone holds of it among the terminals: each of   *)
(* their steps is a step of the queue or leaves it alone.  That the page    *)
(* shows the recorded terminal is not inductive: it is so once the answers  *)
(* on their way are heard, the last of which tells of the recorded one      *)
(* (ShownIsNext).                                                           *)
(***************************************************************************)
EXTENDS Terminals, FiniteSetTheorems, FunctionTheorems, SequenceTheorems, TLAPS

--------------------------------------------------------------------------------
\* The queue

\* The holder's turn came, and it has neither reported nor been timed out.
HolderIsFresh ==
  \A k \in Keys : held[k] # None =>
    /\ KeyOf[held[k]] = k
    /\ call[held[k]] = "resolved"
    /\ held[k] \notin reported
    /\ held[k] \notin expired

\* A call in a key's line names that key and is unanswered.
InLine ==
  \A k \in Keys : \A i \in DOMAIN waiting[k] :
    /\ call[waiting[k][i]] = "waiting"
    /\ KeyOf[waiting[k][i]] = k

\* A call stands in its line once.
OnceInLine ==
  \A k \in Keys : \A i, j \in DOMAIN waiting[k] :
    waiting[k][i] = waiting[k][j] => i = j

\* Only a call that had its turn has reported or was timed out.
HadItsTurn == \A c \in reported \cup expired : call[c] = "resolved"

\* The start-ups that run beside the holder.
Beside(k) == StartingFor(k) \ {held[k]}
BesideIsPaidFor ==
  \A k \in Keys : Cardinality(Beside(k)) <= Cardinality(ExpiredFor(k))

Lines == TypeOK /\ HolderIsFresh /\ InLine /\ OnceInLine /\ HadItsTurn
IInv == Lines /\ NobodyWaitsForNobody /\ EveryTurnIsTimed /\ BesideIsPaidFor

\* What one hand-over does, with n the next holder, or None.
HandsTo(k, n) ==
  /\ held' = [held EXCEPT ![k] = n]
  /\ armed' = (armed \ {held[k]}) \cup ({n} \ {None})
  /\ n \in Takers \cup {None}
  /\ n # None => call[n] = "waiting" /\ call'[n] = "resolved" /\ KeyOf[n] = k
  /\ call' \in [Calls -> {"new", "waiting", "resolved"}]
  /\ \A c \in Takers : c # n => call'[c] = call[c]
  /\ \A c \in Calls : call[c] = "resolved" => call'[c] = "resolved"
  /\ waiting' \in [Keys -> Seq(Calls)]
  /\ watching' \in [Keys -> Int]
  /\ n = None => waiting'[k] = <<>>
  /\ \A kk \in Keys : kk # k => waiting'[kk] = waiting[kk]
  /\ InLine' /\ OnceInLine'

\* passOn hands the turn to one unanswered turn-taker of the key, or to nobody when the
\* line is served to its end; no other turn-taker is answered.
LEMMA PassOnHands ==
  ASSUME Lines, NEW k \in Keys, held[k] # None, PassOn(k)
  PROVE  \E n : HandsTo(k, n)
<1> DEFINE line == waiting[k]
<1>1. PICK i \in 1..(Len(line) + 1) :
        /\ StopsAt(line, i)
        /\ waiting' = [waiting EXCEPT ![k] = SubSeq(line, i + 1, Len(line))]
        /\ watching' = [watching EXCEPT ![k] = @ - (i - 1)]
        /\ call' = [c \in Calls |->
                      IF \E j \in 1..i : j <= Len(line) /\ line[j] = c
                      THEN "resolved" ELSE call[c]]
        /\ IF i <= Len(line)
           THEN /\ held' = [held EXCEPT ![k] = line[i]]
                /\ armed' = (armed \ {held[k]}) \cup {line[i]}
           ELSE /\ held' = [held EXCEPT ![k] = None]
                /\ armed' = armed \ {held[k]}
  BY DEF PassOn
<1> DEFINE n == IF i <= Len(line) THEN line[i] ELSE None
           rest == SubSeq(line, i + 1, Len(line))
<1>2. line \in Seq(Calls) /\ Len(line) \in Nat /\ DOMAIN line = 1..Len(line)
  BY DEF Lines, TypeOK
<1>3. /\ rest \in Seq(Calls)
      /\ Len(rest) = IF i + 1 <= Len(line) THEN Len(line) - i ELSE 0
      /\ DOMAIN rest = 1..Len(rest)
      /\ \A j \in 1..Len(rest) : rest[j] = line[i + j] /\ i + j \in 1..Len(line)
  BY <1>2
<1>4. n \in Takers \cup {None} /\ (i <= Len(line) <=> n # None)
  BY <1>1, <1>2, CallsAssumption DEF StopsAt, Calls
<1>5. held' = [held EXCEPT ![k] = n] /\ armed' = (armed \ {held[k]}) \cup ({n} \ {None})
  BY <1>1, <1>4
<1>6. call' \in [Calls -> {"new", "waiting", "resolved"}]
  BY <1>1 DEF Lines, TypeOK
<1>7. \A c \in Calls : call[c] = "resolved" => call'[c] = "resolved"
  BY <1>1
<1>8. ASSUME NEW c \in Takers, c # n PROVE call'[c] = call[c]
  <2>1. ~ \E j \in 1..i : j <= Len(line) /\ line[j] = c
    <3>1. SUFFICES ASSUME NEW j \in 1..i, j <= Len(line), line[j] = c PROVE FALSE
      OBVIOUS
    <3>2. CASE j = i
      BY <3>1, <3>2, <1>8
    <3>3. CASE j # i
      BY <3>1, <3>3, <1>1 DEF StopsAt
    <3>4. QED BY <3>2, <3>3
  <2>2. QED BY <2>1, <1>1 DEF Calls
<1>9. n # None => call[n] = "waiting" /\ call'[n] = "resolved" /\ KeyOf[n] = k
  <2>1. SUFFICES ASSUME n # None
                 PROVE call[n] = "waiting" /\ call'[n] = "resolved" /\ KeyOf[n] = k
    OBVIOUS
  <2>2. i <= Len(line) /\ n = line[i] /\ i \in DOMAIN line /\ n \in Calls
    BY <2>1, <1>4, <1>2 DEF Calls
  <2>3. call[n] = "waiting" /\ KeyOf[n] = k
    BY <2>2 DEF Lines, InLine
  <2>4. call'[n] = "resolved"
    BY <2>2, <1>1
  <2>5. QED BY <2>3, <2>4
<1>10. waiting' \in [Keys -> Seq(Calls)] /\ watching' \in [Keys -> Int] /\ waiting'[k] = rest
  <2>1. waiting \in [Keys -> Seq(Calls)] /\ watching \in [Keys -> Int]
    BY DEF Lines, TypeOK
  <2>2. QED BY <2>1, <1>1, <1>3
<1>11. n = None => waiting'[k] = <<>>
  BY <1>4, <1>10, <1>3, <1>2
<1>12. \A kk \in Keys : kk # k => waiting'[kk] = waiting[kk]
  BY <1>1 DEF Lines, TypeOK
<1>13. InLine'
  <2>1. SUFFICES ASSUME NEW kk \in Keys, NEW m \in DOMAIN waiting'[kk]
                 PROVE /\ call'[waiting'[kk][m]] = "waiting"
                       /\ KeyOf[waiting'[kk][m]] = kk
    BY DEF InLine
  <2>2. CASE kk = k
    <3>1. m \in 1..Len(rest) /\ waiting'[kk][m] = line[i + m] /\ i + m \in DOMAIN line
      BY <2>2, <1>10, <1>3, <1>2
    <3>2. call[line[i + m]] = "waiting" /\ KeyOf[line[i + m]] = k /\ line[i + m] \in Calls
      BY <3>1, <1>2 DEF Lines, InLine
    <3>3. ~ \E j \in 1..i : j <= Len(line) /\ line[j] = line[i + m]
      BY <3>1, <1>2 DEF Lines, OnceInLine
    <3>4. QED BY <3>1, <3>2, <3>3, <2>2, <1>1
  <2>3. CASE kk # k
    <3>1. waiting'[kk] = waiting[kk] /\ waiting[kk] \in Seq(Calls)
      BY <2>3, <1>12 DEF Lines, TypeOK
    <3>2. /\ call[waiting[kk][m]] = "waiting" /\ KeyOf[waiting[kk][m]] = kk
          /\ waiting[kk][m] \in Calls
      BY <3>1, <2>1 DEF Lines, InLine
    <3>3. ~ \E j \in 1..i : j <= Len(line) /\ line[j] = waiting[kk][m]
      BY <3>2, <2>3, <1>2 DEF Lines, InLine
    <3>4. QED BY <3>1, <3>2, <3>3, <1>1
  <2>4. QED BY <2>2, <2>3
<1>14. OnceInLine'
  <2>1. SUFFICES ASSUME NEW kk \in Keys, NEW a \in DOMAIN waiting'[kk],
                        NEW b \in DOMAIN waiting'[kk], waiting'[kk][a] = waiting'[kk][b]
                 PROVE a = b
    BY DEF OnceInLine
  <2>2. CASE kk = k
    <3>1. /\ a \in 1..Len(rest) /\ waiting'[kk][a] = line[i + a] /\ i + a \in DOMAIN line
          /\ b \in 1..Len(rest) /\ waiting'[kk][b] = line[i + b] /\ i + b \in DOMAIN line
      BY <2>2, <1>10, <1>3, <1>2
    <3>2. i + a = i + b
      BY <3>1, <2>1 DEF Lines, OnceInLine
    <3>3. QED BY <3>1, <3>2
  <2>3. CASE kk # k
    BY <2>1, <2>3, <1>12 DEF Lines, OnceInLine
  <2>4. QED BY <2>2, <2>3
<1>15. HandsTo(k, n)
  BY <1>4, <1>5, <1>6, <1>7, <1>8, <1>9, <1>10, <1>11, <1>12, <1>13, <1>14 DEF HandsTo
<1>16. QED BY <1>15

--------------------------------------------------------------------------------
\* A turn that is handed on disturbs no other key, and keeps every part of the
\* invariant but the count of overlapping start-ups, which depends on who handed it on.
LEMMA HandingKeeps ==
  ASSUME IInv, NEW k \in Keys, held[k] # None, NEW n, HandsTo(k, n),
         reported' \subseteq Takers, expired' \subseteq Takers,
         reported \subseteq reported', expired \subseteq expired',
         \A c \in (reported' \cup expired') \ (reported \cup expired) :
           call[c] = "resolved" /\ (\A kk \in Keys : kk # k => held[kk] # c)
  PROVE  Lines' /\ NobodyWaitsForNobody' /\ EveryTurnIsTimed'
<1>1. TypeOK'
  BY DEF TypeOK, HandsTo, IInv, Lines
<1>2. held \in [Keys -> Takers \cup {None}] /\ None \notin Takers
  BY CallsAssumption DEF IInv, Lines, TypeOK, Calls
<1>3. held'[k] = n /\ \A kk \in Keys : kk # k => held'[kk] = held[kk]
  BY <1>2 DEF HandsTo
<1>4. HolderIsFresh'
  <2>1. SUFFICES ASSUME NEW kk \in Keys, held'[kk] # None
                 PROVE /\ KeyOf[held'[kk]] = kk
                       /\ call'[held'[kk]] = "resolved"
                       /\ held'[kk] \notin reported'
                       /\ held'[kk] \notin expired'
    BY DEF HolderIsFresh
  <2>2. CASE kk = k
    <3>1. n # None /\ held'[kk] = n /\ call[n] = "waiting"
      BY <2>1, <2>2, <1>3 DEF HandsTo
    <3>2. n \notin reported \cup expired
      BY <3>1 DEF IInv, Lines, HadItsTurn
    <3>3. QED BY <2>2, <3>1, <3>2 DEF HandsTo
  <2>3. CASE kk # k
    <3>1. held'[kk] = held[kk] /\ held[kk] # None /\ held[kk] \in Calls
      BY <2>1, <2>3, <1>2, <1>3 DEF Calls
    <3>2. /\ KeyOf[held[kk]] = kk /\ call[held[kk]] = "resolved"
          /\ held[kk] \notin reported /\ held[kk] \notin expired
      BY <3>1 DEF IInv, Lines, HolderIsFresh
    <3>3. QED BY <2>3, <3>1, <3>2 DEF HandsTo
  <2>4. QED BY <2>2, <2>3
<1>5. HadItsTurn'
  <2>1. SUFFICES ASSUME NEW c \in reported' \cup expired' PROVE call'[c] = "resolved"
    BY DEF HadItsTurn
  <2>2. call[c] = "resolved" /\ c \in Calls
    BY DEF IInv, Lines, HadItsTurn, Calls
  <2>3. QED BY <2>2 DEF HandsTo
<1>6. Lines'
  BY <1>1, <1>4, <1>5 DEF Lines, HandsTo
<1>7. NobodyWaitsForNobody'
  BY <1>3 DEF IInv, NobodyWaitsForNobody, HandsTo
<1>8. EveryTurnIsTimed'
  <2>1. armed = {held[kk] : kk \in Keys} \ {None}
    BY DEF IInv, EveryTurnIsTimed
  <2>2. \A kk \in Keys : kk # k /\ held[kk] # None => held[kk] # held[k]
    BY DEF IInv, Lines, HolderIsFresh
  <2>3. armed' = (armed \ {held[k]}) \cup ({n} \ {None})
    BY DEF HandsTo
  <2>4. ASSUME NEW x PROVE x \in armed' <=> x \in {held'[kk] : kk \in Keys} \ {None}
    BY <2>1, <2>2, <2>3, <1>3
  <2>5. QED BY <2>4 DEF EveryTurnIsTimed
<1>9. QED BY <1>6, <1>7, <1>8

\* The sets that are counted are finite.
LEMMA CountsAreFinite ==
  ASSUME TypeOK, NEW k
  PROVE  IsFiniteSet(Beside(k)) /\ IsFiniteSet(StartingFor(k)) /\ IsFiniteSet(ExpiredFor(k))
<1>1. Beside(k) \subseteq Takers /\ StartingFor(k) \subseteq Takers /\ ExpiredFor(k) \subseteq Takers
  BY DEF Beside, StartingFor, Starting, ExpiredFor, TypeOK
<1>2. QED BY <1>1, FS_Subset, CallsAssumption

\* Replacing one member leaves no more members.
LEMMA SwapNoLarger ==
  ASSUME NEW S, IsFiniteSet(S), NEW c \in S, NEW h
  PROVE  /\ IsFiniteSet((S \ {c}) \cup {h})
         /\ Cardinality((S \ {c}) \cup {h}) <= Cardinality(S)
<1>1. IsFiniteSet(S \ {c}) /\ Cardinality(S \ {c}) = Cardinality(S) - 1
  BY FS_RemoveElement
<1>2. Cardinality(S) \in Nat /\ Cardinality(S \ {c}) \in Nat
  BY <1>1, FS_CardinalityType
<1>3. /\ IsFiniteSet((S \ {c}) \cup {h})
      /\ \/ Cardinality((S \ {c}) \cup {h}) = Cardinality(S \ {c})
         \/ Cardinality((S \ {c}) \cup {h}) = Cardinality(S \ {c}) + 1
  BY <1>1, FS_AddElement
<1>4. QED BY <1>1, <1>2, <1>3

--------------------------------------------------------------------------------
LEMMA InitIInv == Init => IInv
<1> SUFFICES ASSUME Init PROVE IInv
  OBVIOUS
<1>2. TypeOK /\ HolderIsFresh /\ InLine /\ OnceInLine /\ HadItsTurn
  BY CallsAssumption DEF Init, TypeOK, HolderIsFresh, InLine, OnceInLine, HadItsTurn
<1>3. NobodyWaitsForNobody /\ EveryTurnIsTimed
  BY DEF Init, NobodyWaitsForNobody, EveryTurnIsTimed
<1>4. BesideIsPaidFor
  <2> SUFFICES ASSUME NEW k \in Keys
                 PROVE Cardinality(Beside(k)) <= Cardinality(ExpiredFor(k))
    BY DEF BesideIsPaidFor
  <2>2. Beside(k) = {} /\ ExpiredFor(k) = {}
    BY DEF Init, Beside, StartingFor, Starting, ExpiredFor, Calls
  <2>3. QED BY <2>2, FS_EmptySet
<1>5. QED BY <1>2, <1>3, <1>4 DEF IInv, Lines

\* A call of acquire.
LEMMA AskKeeps == ASSUME IInv, NEW c \in Takers, Ask(c) PROVE IInv'
<1> DEFINE k == KeyOf[c]
<1>1. /\ k \in Keys /\ c \in Calls /\ c # None /\ None \notin Takers
      /\ held \in [Keys -> Takers \cup {None}] /\ waiting \in [Keys -> Seq(Calls)]
      /\ call[c] = "new" /\ UNCHANGED <<reported, expired, watching>>
  BY CallsAssumption DEF IInv, Lines, TypeOK, Calls, Ask, Acquire
<1>2. c \notin reported \cup expired
  BY <1>1 DEF IInv, Lines, HadItsTurn
<1>3. \A kk \in Keys : held[kk] # c
  BY <1>1 DEF IInv, Lines, HolderIsFresh
<1>4. \A kk \in Keys : \A i \in DOMAIN waiting[kk] : waiting[kk][i] # c /\ waiting[kk][i] \in Calls
  BY <1>1 DEF IInv, Lines, InLine
<1>5. CASE held[k] = None
  <2>1. /\ held' = [held EXCEPT ![k] = c] /\ armed' = armed \cup {c}
        /\ call' = [call EXCEPT ![c] = "resolved"] /\ UNCHANGED waiting
    BY <1>5 DEF Ask, Acquire
  <2>2. TypeOK'
    BY <1>1, <2>1 DEF IInv, Lines, TypeOK
  <2>3. HolderIsFresh'
    BY <1>1, <1>2, <2>1 DEF IInv, Lines, HolderIsFresh, TypeOK
  <2>4. InLine' /\ OnceInLine'
    BY <1>1, <1>4, <2>1 DEF IInv, Lines, InLine, OnceInLine, TypeOK
  <2>5. HadItsTurn'
    BY <1>1, <2>1 DEF IInv, Lines, HadItsTurn, TypeOK
  <2>6. NobodyWaitsForNobody'
    BY <1>1, <2>1 DEF IInv, NobodyWaitsForNobody
  <2>7. EveryTurnIsTimed'
    <3>1. ASSUME NEW x PROVE x \in armed' <=> x \in {held'[kk] : kk \in Keys} \ {None}
      BY <1>1, <1>5, <2>1 DEF IInv, EveryTurnIsTimed
    <3>2. QED BY <3>1 DEF EveryTurnIsTimed
  <2>8. BesideIsPaidFor'
    <3>1. ASSUME NEW kk \in Keys PROVE Beside(kk)' = Beside(kk) /\ ExpiredFor(kk)' = ExpiredFor(kk)
      BY <1>1, <1>2, <1>3, <1>5, <2>1 DEF Beside, StartingFor, Starting, ExpiredFor, IInv, Lines,
         TypeOK
    <3>2. QED BY <3>1 DEF BesideIsPaidFor, IInv
  <2>9. QED BY <2>2, <2>3, <2>4, <2>5, <2>6, <2>7, <2>8 DEF IInv, Lines
<1>6. CASE held[k] # None
  <2>1. /\ waiting' = [waiting EXCEPT ![k] = Append(@, c)] /\ UNCHANGED <<held, armed>>
        /\ call' = [call EXCEPT ![c] = "waiting"]
    BY <1>6 DEF Ask, Acquire
  <2>2. TypeOK'
    BY <1>1, <2>1 DEF IInv, Lines, TypeOK
  <2>3. HolderIsFresh'
    BY <1>1, <1>2, <1>3, <2>1 DEF IInv, Lines, HolderIsFresh, TypeOK
  <2>4. InLine' /\ OnceInLine'
    <3>1. ASSUME NEW kk \in Keys, NEW i \in DOMAIN waiting'[kk]
          PROVE \/ i \in DOMAIN waiting[kk] /\ waiting'[kk][i] = waiting[kk][i]
                \/ kk = k /\ i = Len(waiting[k]) + 1 /\ waiting'[kk][i] = c
      BY <1>1, <2>1
    <3>2. QED BY <3>1, <1>1, <1>4, <2>1 DEF IInv, Lines, InLine, OnceInLine, TypeOK
  <2>5. HadItsTurn'
    BY <1>1, <1>2, <2>1 DEF IInv, Lines, HadItsTurn, TypeOK
  <2>6. NobodyWaitsForNobody'
    BY <1>1, <1>6, <2>1 DEF IInv, NobodyWaitsForNobody
  <2>7. EveryTurnIsTimed'
    BY <2>1 DEF IInv, EveryTurnIsTimed
  <2>8. BesideIsPaidFor'
    <3>1. ASSUME NEW kk \in Keys PROVE Beside(kk)' = Beside(kk) /\ ExpiredFor(kk)' = ExpiredFor(kk)
      BY <1>1, <2>1 DEF Beside, StartingFor, Starting, ExpiredFor, IInv, Lines, TypeOK
    <3>2. QED BY <3>1 DEF BesideIsPaidFor, IInv
  <2>9. QED BY <2>2, <2>3, <2>4, <2>5, <2>6, <2>7, <2>8 DEF IInv, Lines
<1>7. QED BY <1>5, <1>6

\* A call of whenIdle.
LEMMA WatchKeeps == ASSUME IInv, NEW w \in Watchers, Watch(w) PROVE IInv'
<1> DEFINE k == KeyOf[w]
<1>1. /\ k \in Keys /\ w \in Calls /\ w # None /\ w \notin Takers
      /\ held \in [Keys -> Takers \cup {None}] /\ waiting \in [Keys -> Seq(Calls)]
      /\ call[w] = "new" /\ UNCHANGED <<reported, expired, held, armed>>
  BY CallsAssumption DEF IInv, Lines, TypeOK, Calls, Watch, WhenIdle
<1>2. \A kk \in Keys : \A i \in DOMAIN waiting[kk] : waiting[kk][i] # w /\ waiting[kk][i] \in Calls
  BY <1>1 DEF IInv, Lines, InLine
<1>3. \E s \in {"waiting", "resolved"} : call' = [call EXCEPT ![w] = s]
  BY DEF Watch, WhenIdle
<1>4. HolderIsFresh' /\ HadItsTurn'
  BY <1>1, <1>3 DEF IInv, Lines, HolderIsFresh, HadItsTurn, TypeOK
<1>5. EveryTurnIsTimed'
  BY <1>1 DEF IInv, EveryTurnIsTimed
<1>6. BesideIsPaidFor'
  <2>1. ASSUME NEW kk \in Keys PROVE Beside(kk)' = Beside(kk) /\ ExpiredFor(kk)' = ExpiredFor(kk)
    BY <1>1, <1>3 DEF Beside, StartingFor, Starting, ExpiredFor, IInv, Lines, TypeOK
  <2>2. QED BY <2>1 DEF BesideIsPaidFor, IInv
<1>7. CASE held[k] = None
  <2>1. UNCHANGED <<waiting, watching>> /\ call' = [call EXCEPT ![w] = "resolved"]
    BY <1>7 DEF Watch, WhenIdle
  <2>2. TypeOK' /\ NobodyWaitsForNobody'
    BY <1>1, <2>1 DEF IInv, Lines, TypeOK, NobodyWaitsForNobody
  <2>3. InLine' /\ OnceInLine'
    BY <1>1, <1>2, <2>1 DEF IInv, Lines, InLine, OnceInLine, TypeOK
  <2>4. QED BY <1>4, <1>5, <1>6, <2>2, <2>3 DEF IInv, Lines
<1>8. CASE held[k] # None
  <2>1. /\ waiting' = [waiting EXCEPT ![k] = Append(@, w)]
        /\ watching' = [watching EXCEPT ![k] = @ + 1]
        /\ call' = [call EXCEPT ![w] = "waiting"]
    BY <1>8 DEF Watch, WhenIdle
  <2>2. TypeOK' /\ NobodyWaitsForNobody'
    BY <1>1, <1>8, <2>1 DEF IInv, Lines, TypeOK, NobodyWaitsForNobody
  <2>3. InLine' /\ OnceInLine'
    <3>1. ASSUME NEW kk \in Keys, NEW i \in DOMAIN waiting'[kk]
          PROVE \/ i \in DOMAIN waiting[kk] /\ waiting'[kk][i] = waiting[kk][i]
                \/ kk = k /\ i = Len(waiting[k]) + 1 /\ waiting'[kk][i] = w
      BY <1>1, <2>1
    <3>2. QED BY <3>1, <1>1, <1>2, <2>1 DEF IInv, Lines, InLine, OnceInLine, TypeOK
  <2>4. QED BY <1>4, <1>5, <1>6, <2>2, <2>3 DEF IInv, Lines
<1>9. QED BY <1>7, <1>8

\* The ceiling passes the turn on: one start-up more runs beside the holder, one more was
\* timed out.
LEMMA ExpireKeeps == ASSUME IInv, NEW c \in Takers, Expire(c) PROVE IInv'
<1> DEFINE k == KeyOf[c]
<1>1. /\ k \in Keys /\ c \in Calls /\ c # None /\ held[k] = c /\ PassOn(k)
      /\ expired' = expired \cup {c} /\ UNCHANGED reported /\ None \notin Takers
  BY CallsAssumption DEF Calls, Expire, CeilingFires
<1>2. PICK n : HandsTo(k, n)
  BY <1>1, PassOnHands DEF IInv
<1>3. /\ KeyOf[c] = k /\ call[c] = "resolved" /\ c \notin reported /\ c \notin expired
      /\ \A kk \in Keys : kk # k => held[kk] # c
  BY <1>1 DEF IInv, Lines, HolderIsFresh
<1>4. reported \subseteq Takers /\ expired \subseteq Takers
  BY DEF IInv, Lines, TypeOK
<1>5. Lines' /\ NobodyWaitsForNobody' /\ EveryTurnIsTimed'
  BY <1>1, <1>2, <1>3, <1>4, HandingKeeps
<1>6. ASSUME NEW kk \in Keys PROVE (Cardinality(Beside(kk)) <= Cardinality(ExpiredFor(kk)))'
  <2>1. /\ IsFiniteSet(Beside(kk)) /\ IsFiniteSet(ExpiredFor(kk))
        /\ Cardinality(Beside(kk)) <= Cardinality(ExpiredFor(kk))
    BY CountsAreFinite DEF IInv, Lines, BesideIsPaidFor
  <2>2. held'[k] = n /\ (kk # k => held'[kk] = held[kk])
    BY <1>1, <1>2 DEF HandsTo, IInv, Lines, TypeOK
  <2>3. CASE kk = k
    <3>1. Beside(k)' = Beside(k) \cup {c}
      <4>1. ASSUME NEW x PROVE x \in Beside(k)' <=> x \in Beside(k) \cup {c}
        BY <1>1, <1>2, <1>3, <2>2 DEF HandsTo, Beside, StartingFor, Starting
      <4>2. QED BY <4>1
    <3>2. ExpiredFor(k)' = ExpiredFor(k) \cup {c} /\ c \notin ExpiredFor(k) /\ c \notin Beside(k)
      BY <1>1, <1>3 DEF ExpiredFor, Beside
    <3>3. /\ Cardinality(Beside(k) \cup {c}) = Cardinality(Beside(k)) + 1
          /\ Cardinality(ExpiredFor(k) \cup {c}) = Cardinality(ExpiredFor(k)) + 1
          /\ Cardinality(Beside(k)) \in Nat /\ Cardinality(ExpiredFor(k)) \in Nat
      BY <2>1, <2>3, <3>2, FS_AddElement, FS_CardinalityType
    <3>4. Cardinality(Beside(k) \cup {c}) <= Cardinality(ExpiredFor(k) \cup {c})
      BY <2>1, <2>3, <3>3
    <3>5. Cardinality(Beside(k)') <= Cardinality(ExpiredFor(k)')
      BY <3>1, <3>2, <3>4
    <3>6. QED BY <3>5, <2>3
  <2>4. CASE kk # k
    <3>1. Beside(kk)' = Beside(kk)
      <4>1. ASSUME NEW x PROVE x \in Beside(kk)' <=> x \in Beside(kk)
        BY <1>1, <1>2, <2>2, <2>4 DEF HandsTo, Beside, StartingFor, Starting
      <4>2. QED BY <4>1
    <3>2. ExpiredFor(kk)' = ExpiredFor(kk)
      BY <1>1, <2>4 DEF ExpiredFor
    <3>3. QED BY <2>1, <3>1, <3>2
  <2>5. QED BY <2>3, <2>4
<1>7. QED BY <1>5, <1>6 DEF IInv, BesideIsPaidFor

\* A start-up reports.  Its own turn ends; or the turn of the start-up that holds it now
\* does, which then runs beside the next one in place of the one that reported.
LEMMA ReportKeeps == ASSUME IInv, NEW c \in Takers, Report(c) PROVE IInv'
<1> DEFINE k == KeyOf[c]
           h == held[k]
<1>1. /\ k \in Keys /\ c \in Calls /\ call[c] = "resolved" /\ c \notin reported
      /\ reported' = reported \cup {c} /\ UNCHANGED expired /\ Release(k) /\ None \notin Takers
  BY CallsAssumption DEF Calls, Report, Starting
<1>2. /\ reported \subseteq Takers /\ expired \subseteq Takers
      /\ held \in [Keys -> Takers \cup {None}]
  BY DEF IInv, Lines, TypeOK
<1>3. \A kk \in Keys : kk # k => held[kk] # c
  BY <1>1 DEF IInv, Lines, HolderIsFresh
<1>4. \A kk \in Keys : ExpiredFor(kk)' = ExpiredFor(kk)
  BY <1>1 DEF ExpiredFor
<1>5. \A kk \in Keys : /\ IsFiniteSet(Beside(kk)) /\ Cardinality(Beside(kk)) \in Nat
                       /\ Cardinality(ExpiredFor(kk)) \in Nat
                       /\ Cardinality(Beside(kk)) <= Cardinality(ExpiredFor(kk))
  BY CountsAreFinite, FS_CardinalityType DEF IInv, Lines, BesideIsPaidFor
<1>6. CASE h = None
  <2>1. UNCHANGED queueVars
    BY <1>1, <1>6 DEF Release
  <2>2. TypeOK' /\ HolderIsFresh' /\ InLine' /\ OnceInLine' /\ HadItsTurn'
    BY <1>1, <1>2, <1>3, <1>6, <2>1
       DEF IInv, Lines, TypeOK, HolderIsFresh, InLine, OnceInLine, HadItsTurn, queueVars
  <2>3. NobodyWaitsForNobody' /\ EveryTurnIsTimed'
    BY <2>1 DEF IInv, NobodyWaitsForNobody, EveryTurnIsTimed, queueVars
  <2>4. ASSUME NEW kk \in Keys PROVE (Cardinality(Beside(kk)) <= Cardinality(ExpiredFor(kk)))'
    <3>1. Beside(kk)' \subseteq Beside(kk)
      BY <1>1, <2>1 DEF Beside, StartingFor, Starting, queueVars
    <3>2. /\ IsFiniteSet(Beside(kk)') /\ Cardinality(Beside(kk)') <= Cardinality(Beside(kk))
          /\ Cardinality(Beside(kk)') \in Nat
      BY <3>1, <1>5, FS_Subset, FS_CardinalityType
    <3>3. QED BY <3>2, <1>4, <1>5
  <2>5. QED BY <2>2, <2>3, <2>4 DEF IInv, Lines, BesideIsPaidFor
<1>7. CASE h # None
  <2>1. PICK n : HandsTo(k, n)
    BY <1>1, <1>7, PassOnHands DEF IInv, Release
  <2>2. Lines' /\ NobodyWaitsForNobody' /\ EveryTurnIsTimed'
    BY <1>1, <1>2, <1>3, <1>7, <2>1, HandingKeeps
  <2>3. /\ KeyOf[h] = k /\ call[h] = "resolved" /\ h \notin reported /\ h \in Takers
    BY <1>1, <1>2, <1>7 DEF IInv, Lines, HolderIsFresh
  <2>4. held'[k] = n /\ \A kk \in Keys : kk # k => held'[kk] = held[kk]
    BY <1>1, <1>2, <2>1 DEF HandsTo
  <2>5. ASSUME NEW kk \in Keys PROVE (Cardinality(Beside(kk)) <= Cardinality(ExpiredFor(kk)))'
    <3>1. CASE kk # k
      <4>1. ASSUME NEW x PROVE x \in Beside(kk)' <=> x \in Beside(kk)
        BY <1>1, <2>1, <2>4, <3>1 DEF HandsTo, Beside, StartingFor, Starting
      <4>2. Beside(kk)' = Beside(kk)
        BY <4>1
      <4>3. QED BY <4>2, <1>4, <1>5
    <3>2. CASE kk = k /\ h = c
      <4>1. ASSUME NEW x PROVE x \in Beside(k)' <=> x \in Beside(k)
        BY <1>1, <2>1, <2>3, <2>4, <3>2 DEF HandsTo, Beside, StartingFor, Starting
      <4>2. Beside(k)' = Beside(k)
        BY <4>1
      <4>3. QED BY <4>2, <3>2, <1>4, <1>5
    <3>3. CASE kk = k /\ h # c
      <4>1. c \in Beside(k)
        BY <1>1, <3>3 DEF Beside, StartingFor, Starting
      <4>2. ASSUME NEW x PROVE x \in Beside(k)' <=> x \in (Beside(k) \ {c}) \cup {h}
        BY <1>1, <2>1, <2>3, <2>4, <3>3 DEF HandsTo, Beside, StartingFor, Starting
      <4>3. Beside(k)' = (Beside(k) \ {c}) \cup {h}
        BY <4>2
      <4>4. /\ Cardinality(Beside(k)') <= Cardinality(Beside(k))
            /\ Cardinality(Beside(k)') \in Nat
        BY <4>1, <4>3, <1>1, <1>5, SwapNoLarger, FS_CardinalityType
      <4>5. QED BY <4>4, <3>3, <1>1, <1>4, <1>5
    <3>4. QED BY <3>1, <3>2, <3>3
  <2>6. QED BY <2>2, <2>5 DEF IInv, BesideIsPaidFor
<1>8. QED BY <1>6, <1>7

\* Every step of the queue and its callers keeps the invariant.
LEMMA NextIInv == IInv /\ [Next]_vars => IInv'
<1> SUFFICES ASSUME IInv, [Next]_vars PROVE IInv'
  OBVIOUS
<1>1. ASSUME NEW c \in Takers, Ask(c) PROVE IInv'
  BY <1>1, AskKeeps
<1>2. ASSUME NEW c \in Takers, Report(c) PROVE IInv'
  BY <1>2, ReportKeeps
<1>3. ASSUME NEW c \in Takers, Expire(c) PROVE IInv'
  BY <1>3, ExpireKeeps
<1>4. ASSUME NEW w \in Watchers, Watch(w) PROVE IInv'
  BY <1>4, WatchKeeps
<1>5. CASE UNCHANGED vars
  BY <1>5 DEF vars, IInv, Lines, TypeOK, HolderIsFresh, InLine, OnceInLine, HadItsTurn,
     NobodyWaitsForNobody, EveryTurnIsTimed, BesideIsPaidFor, Beside, StartingFor, Starting,
     ExpiredFor
<1>6. CASE Done
  BY <1>5, <1>6 DEF Done
<1>7. QED BY <1>1, <1>2, <1>3, <1>4, <1>5, <1>6 DEF Next

\* The inductive invariant holds in every state the queue reaches.
THEOREM InvariantHolds == Spec => []IInv
<1>1. Init => IInv
  BY InitIInv
<1>2. IInv /\ [Next]_vars => IInv'
  BY NextIInv
<1>3. QED BY <1>1, <1>2, PTL DEF Spec

\* Only turn-takers ever hold a turn or a timer, and every call in line is a call.
THEOREM TypeCorrect == Spec => []TypeOK
<1>1. IInv => TypeOK
  BY DEF IInv, Lines
<1>2. QED BY <1>1, InvariantHolds, PTL

\* No caller is stranded in the line of a key nobody holds (passOn's loop and last line).
THEOREM NobodyStranded == Spec => []NobodyWaitsForNobody
<1>1. IInv => NobodyWaitsForNobody
  BY DEF IInv
<1>2. QED BY <1>1, InvariantHolds, PTL

\* The pending ceiling timers are those of the current holders: no turn lasts for ever and
\* no timer ends somebody else's turn.
THEOREM TurnsAreTimed == Spec => []EveryTurnIsTimed
<1>1. IInv => EveryTurnIsTimed
  BY DEF IInv
<1>2. QED BY <1>1, InvariantHolds, PTL

\* Nobody is stranded and no turn lasts for ever.
THEOREM EveryTurnIsPassedOn == Spec => []TurnsGoOn
<1>1. IInv => TurnsGoOn
  BY DEF IInv, TurnsGoOn
<1>2. QED BY <1>1, InvariantHolds, PTL

--------------------------------------------------------------------------------
\* The count of watchers.

WatchersIn(s) == {j \in DOMAIN s : s[j] \in Watchers}

\* A line has finitely many watchers.
LEMMA WatchersAreFinite ==
  ASSUME NEW s \in Seq(Calls)
  PROVE  IsFiniteSet(WatchersIn(s)) /\ Cardinality(WatchersIn(s)) \in Nat
<1>1. WatchersIn(s) \in SUBSET (1..Len(s)) /\ Len(s) \in Int
  BY DEF WatchersIn
<1>2. IsFiniteSet(1..Len(s))
  BY <1>1, FS_Interval
<1>3. QED BY <1>1, <1>2, FS_Subset, FS_CardinalityType

\* A place more in line counts if it is a watcher's.
LEMMA OneMoreInLine ==
  ASSUME NEW s \in Seq(Calls), NEW c \in Calls
  PROVE  Cardinality(WatchersIn(Append(s, c)))
           = Cardinality(WatchersIn(s)) + (IF c \in Watchers THEN 1 ELSE 0)
<1> DEFINE n == Len(s) + 1
<1>1. Len(s) \in Nat /\ DOMAIN s = 1..Len(s) /\ DOMAIN Append(s, c) = 1..n
  OBVIOUS
<1>2. Append(s, c)[n] = c /\ \A j \in 1..Len(s) : Append(s, c)[j] = s[j]
  OBVIOUS
<1>3. IsFiniteSet(WatchersIn(s)) /\ Cardinality(WatchersIn(s)) \in Nat /\ n \notin WatchersIn(s)
  BY <1>1, WatchersAreFinite DEF WatchersIn
<1>4. CASE c \in Watchers
  <2>1. WatchersIn(Append(s, c)) = WatchersIn(s) \cup {n}
    BY <1>1, <1>2, <1>4 DEF WatchersIn
  <2>2. QED BY <2>1, <1>3, <1>4, FS_AddElement
<1>5. CASE c \notin Watchers
  <2>1. WatchersIn(Append(s, c)) = WatchersIn(s)
    BY <1>1, <1>2, <1>5 DEF WatchersIn
  <2>2. QED BY <2>1, <1>3, <1>5
<1>6. QED BY <1>4, <1>5

\* What is left of a line behind its i-th place.
LEMMA RestOfLine ==
  ASSUME NEW s \in Seq(Calls), NEW i \in 1..(Len(s) + 1)
  PROVE  LET rest == SubSeq(s, i + 1, Len(s)) IN
         /\ Len(rest) = IF i + 1 <= Len(s) THEN Len(s) - i ELSE 0
         /\ DOMAIN rest = 1..Len(rest) /\ rest \in Seq(Calls)
         /\ \A j \in 1..Len(rest) : rest[j] = s[i + j] /\ i + j \in 1..Len(s)
<1> DEFINE rest == SubSeq(s, i + 1, Len(s))
<1>1. s \in Seq(Calls) /\ Len(s) \in Nat /\ DOMAIN s = 1..Len(s)
  OBVIOUS
<1>2. /\ rest \in Seq(Calls)
      /\ Len(rest) = IF i + 1 <= Len(s) THEN Len(s) - i ELSE 0
      /\ DOMAIN rest = 1..Len(rest)
      /\ \A j \in 1..Len(rest) : rest[j] = s[i + j] /\ i + j \in 1..Len(s)
  <2>1. PICK n : n = Len(s)
    OBVIOUS
  <2>2. n \in Nat /\ i + 1 \in Int /\ \A j \in (i + 1)..n : s[j] \in Calls
    BY <1>1, <2>1
  <2>3. /\ rest \in Seq(Calls)
        /\ Len(rest) = IF i + 1 <= n THEN n - (i + 1) + 1 ELSE 0
        /\ \A j \in 1..(n - (i + 1) + 1) : rest[j] = s[i + 1 + j - 1]
    BY <2>1, <2>2, SubSeqProperties
  <2>4. /\ Len(rest) = IF i + 1 <= n THEN n - i ELSE 0
        /\ DOMAIN rest = 1..Len(rest)
    BY <2>1, <2>2, <2>3
  <2>5. ASSUME NEW j \in 1..Len(rest) PROVE rest[j] = s[i + j] /\ i + j \in 1..n
    <3>1. j \in 1..(n - (i + 1) + 1) /\ i + 1 + j - 1 = i + j /\ i + j \in 1..n
      BY <2>1, <2>2, <2>4
    <3>2. QED BY <2>3, <3>1
  <2>6. QED BY <2>1, <2>3, <2>4, <2>5
<1>3. QED BY <1>2

\* The walk over the line passes i - 1 watchers; the others keep their places behind it.
LEMMA WatchersPassed ==
  ASSUME NEW s \in Seq(Calls), NEW i \in Int, StopsAt(s, i)
  PROVE  Cardinality(WatchersIn(SubSeq(s, i + 1, Len(s)))) = Cardinality(WatchersIn(s)) - (i - 1)
<1> DEFINE rest == SubSeq(s, i + 1, Len(s))
           passed == 1..(i - 1)
           kept == {j \in WatchersIn(s) : j > i}
<1>1. i \in 1..(Len(s) + 1) /\ s \in Seq(Calls) /\ Len(s) \in Nat /\ DOMAIN s = 1..Len(s)
  BY DEF StopsAt
<1>w. /\ i <= Len(s) => s[i] \in Takers
      /\ \A j \in passed : s[j] \in Watchers
  BY <1>1 DEF StopsAt, Calls
<1>2. /\ Len(rest) = IF i + 1 <= Len(s) THEN Len(s) - i ELSE 0
      /\ DOMAIN rest = 1..Len(rest) /\ rest \in Seq(Calls)
      /\ \A j \in 1..Len(rest) : rest[j] = s[i + j] /\ i + j \in 1..Len(s)
  BY <1>1, RestOfLine
<1>3. Cardinality(kept) = Cardinality(WatchersIn(rest)) /\ IsFiniteSet(kept)
  <2> DEFINE f == [j \in WatchersIn(rest) |-> i + j]
  <2>1. ASSUME NEW j \in WatchersIn(rest) PROVE j \in Nat /\ i + j \in kept
    <3>1. j \in 1..Len(rest) /\ rest[j] \in Watchers
      BY <1>2 DEF WatchersIn
    <3>2. rest[j] = s[i + j] /\ i + j \in 1..Len(s)
      BY <1>2, <3>1
    <3>3. j \in Nat /\ i + j > i
      <4>1. j \in Nat \ {0}
        BY <3>1
      <4>2. QED BY <4>1
    <3>4. QED BY <1>1, <3>1, <3>2, <3>3 DEF WatchersIn
  <2>2. ASSUME NEW m \in kept PROVE m - i \in WatchersIn(rest) /\ i + (m - i) = m
    <3>1. m \in 1..Len(s) /\ m > i /\ s[m] \in Watchers
      BY <1>1 DEF WatchersIn
    <3>2. m - i \in 1..Len(rest) /\ i + (m - i) = m
      <4> HIDE DEF rest
      <4>1. i + 1 <= Len(s)
        BY <1>1, <3>1
      <4>2. Len(rest) = Len(s) - i
        BY <1>2, <4>1
      <4>3. QED BY <1>1, <3>1, <4>2
    <3>3. QED BY <1>2, <3>1, <3>2 DEF WatchersIn
  <2>3. f \in [WatchersIn(rest) -> kept]
    BY <2>1
  <2>4. \A x, y \in WatchersIn(rest) : f[x] = f[y] => x = y
    BY <1>1, <2>1
  <2>5. ASSUME NEW m \in kept PROVE \E x \in WatchersIn(rest) : f[x] = m
    <3>1. f[m - i] = m
      BY <2>2
    <3>2. QED BY <2>2, <3>1
  <2>6. f \in Bijection(WatchersIn(rest), kept)
    BY <2>3, <2>4, <2>5, Fun_IsBij
  <2>7. ExistsBijection(WatchersIn(rest), kept)
    BY <2>6, Fun_ExistsBij
  <2>8. IsFiniteSet(WatchersIn(rest))
    BY <1>2, WatchersAreFinite
  <2>9. QED BY <2>7, <2>8, FS_Bijection
<1>4. WatchersIn(s) = passed \cup kept /\ passed \cap kept = {}
  <2>1. i \notin WatchersIn(s)
    BY <1>1, <1>w, CallsAssumption DEF WatchersIn
  <2>2. QED BY <1>1, <1>w, <2>1 DEF WatchersIn
<1>5. IsFiniteSet(passed) /\ Cardinality(passed) = i - 1
  <2>1. /\ IsFiniteSet(1..(i - 1))
        /\ Cardinality(1..(i - 1)) = IF 1 > i - 1 THEN 0 ELSE (i - 1) - 1 + 1
    <3>1. 1 \in Int /\ i - 1 \in Int
      OBVIOUS
    <3>2. QED BY <3>1, FS_Interval
  <2>2. QED BY <1>1, <2>1
<1>6. Cardinality(passed \cup kept) = Cardinality(passed) + Cardinality(kept)
  <2>1. Cardinality(passed \cap kept) = 0
    BY <1>4, FS_EmptySet
  <2>2. Cardinality(passed) \in Nat /\ Cardinality(kept) \in Nat
    BY <1>3, <1>5, FS_CardinalityType
  <2>3. Cardinality(passed \cup kept) = Cardinality(passed) + Cardinality(kept) - Cardinality(passed \cap kept)
    BY <1>3, <1>5, FS_Union
  <2>4. QED BY <2>1, <2>2, <2>3
<1>7. Cardinality(kept) \in Nat
  BY <1>3, FS_CardinalityType
<1>8. Cardinality(WatchersIn(s)) = (i - 1) + Cardinality(WatchersIn(rest))
  BY <1>3, <1>4, <1>5, <1>6
<1>9. Cardinality(WatchersIn(rest)) \in Int
  BY <1>3, <1>7
<1> HIDE DEF rest
<1>10. Cardinality(WatchersIn(rest)) = Cardinality(WatchersIn(s)) - (i - 1)
  BY <1>8, <1>9
<1>11. QED BY <1>10 DEF rest

\* A hand-over counts down by the watchers it passes.
LEMMA PassOnCounts ==
  ASSUME TypeOK, WatchingIsCounted, NEW k \in Keys, PassOn(k)
  PROVE  WatchingIsCounted'
<1>1. PICK i \in 1..(Len(waiting[k]) + 1) :
        /\ StopsAt(waiting[k], i)
        /\ waiting' = [waiting EXCEPT ![k] = SubSeq(waiting[k], i + 1, Len(waiting[k]))]
        /\ watching' = [watching EXCEPT ![k] = @ - (i - 1)]
  BY DEF PassOn
<1>2. waiting \in [Keys -> Seq(Calls)] /\ watching \in [Keys -> Int]
  BY DEF TypeOK
<1>3. watching[k] = Cardinality(WatchersIn(waiting[k]))
  BY DEF WatchingIsCounted, WatchersIn
<1>4. watching'[k] = Cardinality(WatchersIn(waiting'[k]))
  BY <1>1, <1>2, <1>3, WatchersPassed
<1>5. \A kk \in Keys : kk # k => watching'[kk] = watching[kk] /\ waiting'[kk] = waiting[kk]
  BY <1>1, <1>2
<1>6. QED BY <1>4, <1>5 DEF WatchingIsCounted, WatchersIn

\* Every step keeps the count of the watchers in line.
LEMMA NextCounts == TypeOK /\ WatchingIsCounted /\ [Next]_vars => WatchingIsCounted'
<1> SUFFICES ASSUME TypeOK, WatchingIsCounted, [Next]_vars PROVE WatchingIsCounted'
  OBVIOUS
<1>1. waiting \in [Keys -> Seq(Calls)] /\ watching \in [Keys -> Int]
  BY DEF TypeOK
<1>2. CASE UNCHANGED <<waiting, watching>>
  BY <1>2 DEF WatchingIsCounted
<1>3. ASSUME NEW c \in Calls, NEW n \in Int, n = (IF c \in Watchers THEN 1 ELSE 0),
             KeyOf[c] \in Keys,
             waiting' = [waiting EXCEPT ![KeyOf[c]] = Append(@, c)],
             watching' = [watching EXCEPT ![KeyOf[c]] = @ + n]
      PROVE  WatchingIsCounted'
  <2>1. watching'[KeyOf[c]] = Cardinality(WatchersIn(waiting'[KeyOf[c]]))
    <3>1. watching[KeyOf[c]] = Cardinality(WatchersIn(waiting[KeyOf[c]]))
      BY <1>3 DEF WatchingIsCounted, WatchersIn
    <3>2. QED BY <1>1, <1>3, <3>1, OneMoreInLine
  <2>2. \A kk \in Keys : kk # KeyOf[c] => watching'[kk] = watching[kk] /\ waiting'[kk] = waiting[kk]
    BY <1>1, <1>3
  <2>3. QED BY <2>1, <2>2 DEF WatchingIsCounted, WatchersIn
<1>4. ASSUME NEW c \in Takers, Ask(c) PROVE WatchingIsCounted'
  <2>1. c \in Calls /\ c \notin Watchers /\ KeyOf[c] \in Keys
    BY CallsAssumption DEF Calls
  <2>2. CASE waiting' = [waiting EXCEPT ![KeyOf[c]] = Append(@, c)]
    <3>1. watching' = [watching EXCEPT ![KeyOf[c]] = @ + 0]
      BY <1>1, <1>4, <2>1 DEF Ask, Acquire
    <3>2. QED
      <4>1. 0 = IF c \in Watchers THEN 1 ELSE 0
        BY <2>1
      <4>2. 0 \in Int
        OBVIOUS
      <4>3. QED BY <2>1, <2>2, <3>1, <4>1, <4>2, <1>3
  <2>3. QED BY <1>2, <1>4, <2>2 DEF Ask, Acquire
<1>5. ASSUME NEW w \in Watchers, Watch(w) PROVE WatchingIsCounted'
  <2>1. w \in Calls /\ KeyOf[w] \in Keys
    BY CallsAssumption DEF Calls
  <2>2. QED BY <1>2, <1>3, <1>5, <2>1 DEF Watch, WhenIdle
<1>6. ASSUME NEW c \in Takers, Report(c) PROVE WatchingIsCounted'
  BY <1>2, <1>6, PassOnCounts, CallsAssumption DEF Report, Release, Calls, queueVars
<1>7. ASSUME NEW c \in Takers, Expire(c) PROVE WatchingIsCounted'
  BY <1>7, PassOnCounts, CallsAssumption DEF Expire, CeilingFires, Calls
<1>8. QED BY <1>2, <1>4, <1>5, <1>6, <1>7 DEF Next, Done, vars

\* At first there is nobody to count.
LEMMA InitCounts == Init => WatchingIsCounted
<1>1. Init => \A k \in Keys : {i \in DOMAIN waiting[k] : waiting[k][i] \in Watchers} = {} /\ watching[k] = 0
  BY DEF Init
<1>2. QED BY <1>1, FS_EmptySet DEF WatchingIsCounted

\* stats() counts the watchers in line, whatever turn-takers they stand among.
THEOREM QueueKeepsBooks == Spec => []QueueIsTrue
BY InitCounts, NextCounts, TypeCorrect, PTL DEF Spec, QueueIsTrue

\* However many start-ups there are and whenever they report, each turn the ceiling ended
\* accounts for at most one start-up that overlaps another.
THEOREM OverlapBound == Spec => []OverlapIsPaidFor
<1>1. IInv => OverlapIsPaidFor
  <2> SUFFICES ASSUME IInv, NEW k \in Keys
               PROVE Cardinality(StartingFor(k)) <= 1 + Cardinality(ExpiredFor(k))
    BY DEF OverlapIsPaidFor
  <2>1. /\ IsFiniteSet(Beside(k)) /\ IsFiniteSet(StartingFor(k)) /\ IsFiniteSet(ExpiredFor(k))
        /\ Cardinality(Beside(k)) <= Cardinality(ExpiredFor(k))
    BY CountsAreFinite DEF IInv, Lines, BesideIsPaidFor
  <2>2. StartingFor(k) \subseteq Beside(k) \cup {held[k]}
    BY DEF Beside
  <2>3. /\ IsFiniteSet(Beside(k) \cup {held[k]})
        /\ Cardinality(Beside(k) \cup {held[k]}) <= Cardinality(Beside(k)) + 1
    <3>1. Cardinality(Beside(k)) \in Nat
      BY <2>1, FS_CardinalityType
    <3>2. /\ IsFiniteSet(Beside(k) \cup {held[k]})
          /\ \/ Cardinality(Beside(k) \cup {held[k]}) = Cardinality(Beside(k))
             \/ Cardinality(Beside(k) \cup {held[k]}) = Cardinality(Beside(k)) + 1
      BY <2>1, FS_AddElement
    <3>3. QED BY <3>1, <3>2
  <2>4. Cardinality(StartingFor(k)) <= Cardinality(Beside(k) \cup {held[k]})
    BY <2>2, <2>3, FS_Subset
  <2>5. /\ Cardinality(StartingFor(k)) \in Nat /\ Cardinality(Beside(k)) \in Nat
        /\ Cardinality(ExpiredFor(k)) \in Nat
        /\ Cardinality(Beside(k) \cup {held[k]}) \in Nat
    BY <2>1, <2>3, FS_CardinalityType
  <2>6. QED BY <2>1, <2>3, <2>4, <2>5
<1>2. QED BY <1>1, InvariantHolds, PTL

--------------------------------------------------------------------------------
\* The order of turns.

WantTurn(k) == {c \in Takers : call[c] = "waiting" /\ KeyOf[c] = k}
WatchTurn(k) == {w \in Watchers : call[w] = "waiting" /\ KeyOf[w] = k}
AskedFor == {c \in Calls : call[c] # "new"}

\* A call that is unanswered stands in the line of its key.
StandsInLine ==
  \A c \in Calls : call[c] = "waiting" =>
    \E i \in DOMAIN waiting[KeyOf[c]] : waiting[KeyOf[c]][i] = c

\* A step of StartUpTurns, in the words of the queue.
LEMMA TurnsSee ==
  /\ Turns!Init <=>
       /\ held = [k \in Keys |-> None] /\ AskedFor = {}
       /\ [k \in Keys |-> WantTurn(k)] = [k \in Keys |-> {}]
       /\ [c \in Takers |-> Ahead(c)] = [c \in Takers |-> {}]
       /\ [k \in Keys |-> WatchTurn(k)] = [k \in Keys |-> {}]
  /\ UNCHANGED Turns!vars <=>
       /\ held' = held /\ AskedFor' = AskedFor
       /\ [k \in Keys |-> WantTurn(k)]' = [k \in Keys |-> WantTurn(k)]
       /\ [c \in Takers |-> Ahead(c)]' = [c \in Takers |-> Ahead(c)]
       /\ [k \in Keys |-> WatchTurn(k)]' = [k \in Keys |-> WatchTurn(k)]
  BY DEF Turns!Init, Turns!vars, WantTurn, WatchTurn, AskedFor

LEMMA InitTurns == Init => Turns!Init /\ StandsInLine
<1> SUFFICES ASSUME Init PROVE Turns!Init /\ StandsInLine
  OBVIOUS
<1>1. held = [k \in Keys |-> None] /\ AskedFor = {} /\ StandsInLine
  BY DEF Init, AskedFor, StandsInLine
<1>2. \A k \in Keys : WantTurn(k) = {} /\ WatchTurn(k) = {}
  BY DEF Init, WantTurn, WatchTurn, Calls
<1>3. \A c \in Takers : Ahead(c) = {}
  BY CallsAssumption DEF Init, Ahead, Calls
<1>4. QED BY <1>1, <1>2, <1>3, TurnsSee

\* A place at the end of the line: who stood there stands where they stood.
LEMMA OneMorePlace ==
  ASSUME NEW s \in Seq(Calls), NEW c \in Calls
  PROVE  /\ DOMAIN s = 1..Len(s) /\ DOMAIN Append(s, c) = 1..(Len(s) + 1)
         /\ Append(s, c) \in Seq(Calls) /\ Len(s) \in Nat
         /\ Append(s, c)[Len(s) + 1] = c
         /\ \A j \in 1..Len(s) : Append(s, c)[j] = s[j]
  OBVIOUS

\* Who asks when the turn is taken stands behind all that want it.
LEMMA BehindTheOthers ==
  ASSUME Lines, StandsInLine, NEW c \in Calls, call[c] = "new",
         waiting' = [waiting EXCEPT ![KeyOf[c]] = Append(@, c)]
  PROVE  /\ \A d \in Takers : d # c => Ahead(d)' = Ahead(d)
         /\ c \in Takers => Ahead(c)' = WantTurn(KeyOf[c])
<1> DEFINE k == KeyOf[c]
           s == waiting[k]
<1>1. /\ k \in Keys /\ waiting \in [Keys -> Seq(Calls)] /\ s \in Seq(Calls)
      /\ waiting'[k] = Append(s, c) /\ \A kk \in Keys : kk # k => waiting'[kk] = waiting[kk]
  BY CallsAssumption DEF Lines, TypeOK
<1>2. /\ DOMAIN s = 1..Len(s) /\ DOMAIN waiting'[k] = 1..(Len(s) + 1) /\ Len(s) \in Nat
      /\ waiting'[k][Len(s) + 1] = c /\ \A j \in 1..Len(s) : waiting'[k][j] = s[j]
  BY <1>1, OneMorePlace
<1>3. \A j \in DOMAIN s : s[j] # c
  BY <1>1 DEF Lines, InLine
<1>4. ASSUME NEW d \in Takers, d # c PROVE Ahead(d)' = Ahead(d)
  <2>1. KeyOf[d] \in Keys
    BY CallsAssumption DEF Calls
  <2>2. CASE KeyOf[d] # k
    BY <2>1, <2>2, <1>1 DEF Ahead
  <2>3. CASE KeyOf[d] = k
    <3>1. ASSUME NEW e, NEW i \in DOMAIN s, NEW j \in DOMAIN s, i < j, s[i] = e, s[j] = d
          PROVE  \E a, b \in DOMAIN waiting'[k] : a < b /\ waiting'[k][a] = e /\ waiting'[k][b] = d
      BY <3>1, <1>2
    <3>2. ASSUME NEW e, NEW i \in DOMAIN waiting'[k], NEW j \in DOMAIN waiting'[k], i < j,
                 waiting'[k][i] = e, waiting'[k][j] = d
          PROVE  \E a, b \in DOMAIN s : a < b /\ s[a] = e /\ s[b] = d
      <4>1. j # Len(s) + 1
        BY <3>2, <1>2, <1>4
      <4>2. i \in DOMAIN s /\ j \in DOMAIN s /\ s[i] = e /\ s[j] = d
        BY <3>2, <4>1, <1>2
      <4>3. QED BY <3>2, <4>2
    <3>3. Ahead(d)' = {e \in Takers : \E i, j \in DOMAIN waiting'[k] :
                         i < j /\ waiting'[k][i] = e /\ waiting'[k][j] = d}
      BY <2>3 DEF Ahead
    <3>4. Ahead(d) = {e \in Takers : \E i, j \in DOMAIN s : i < j /\ s[i] = e /\ s[j] = d}
      BY <2>3 DEF Ahead
    <3>5. ASSUME NEW e \in Takers PROVE e \in Ahead(d)' <=> e \in Ahead(d)
      BY <3>1, <3>2, <3>3, <3>4
    <3>6. QED BY <3>3, <3>4, <3>5
  <2>4. QED BY <2>2, <2>3
<1>5. ASSUME c \in Takers PROVE Ahead(c)' = WantTurn(k)
  <2>1. ASSUME NEW e \in WantTurn(k) PROVE e \in Ahead(c)'
    <3>1. e \in Takers /\ e \in Calls /\ call[e] = "waiting" /\ KeyOf[e] = k
      BY <2>1 DEF WantTurn, Calls
    <3>2. PICK i \in DOMAIN s : s[i] = e
      BY <3>1 DEF StandsInLine
    <3>3. /\ i \in DOMAIN waiting'[k] /\ Len(s) + 1 \in DOMAIN waiting'[k] /\ i < Len(s) + 1
          /\ waiting'[k][i] = e /\ waiting'[k][Len(s) + 1] = c
      BY <3>2, <1>2
    <3>4. QED BY <3>1, <3>3 DEF Ahead
  <2>2. ASSUME NEW e \in Ahead(c)' PROVE e \in WantTurn(k)
    <3>1. PICK i, j \in DOMAIN waiting'[k] : i < j /\ waiting'[k][i] = e /\ waiting'[k][j] = c
      BY <2>2 DEF Ahead
    <3>2. i \in DOMAIN s /\ s[i] = e
      BY <3>1, <1>2
    <3>3. e \in Takers /\ call[e] = "waiting" /\ KeyOf[e] = k
      BY <2>2, <3>2, <1>1 DEF Ahead, Lines, InLine
    <3>4. QED BY <3>3 DEF WantTurn
  <2>3. QED BY <2>1, <2>2
<1>6. QED BY <1>4, <1>5

\* A call that is given a place stands in its line, as do all that stood there.
LEMMA PlaceIsTaken ==
  ASSUME Lines, StandsInLine, NEW c \in Calls,
         waiting' = [waiting EXCEPT ![KeyOf[c]] = Append(@, c)],
         call' = [call EXCEPT ![c] = "waiting"]
  PROVE  StandsInLine'
<1> DEFINE k == KeyOf[c]
<1>1. /\ k \in Keys /\ waiting[k] \in Seq(Calls) /\ waiting'[k] = Append(waiting[k], c)
      /\ \A kk \in Keys : kk # k => waiting'[kk] = waiting[kk]
      /\ call'[c] = "waiting" /\ \A d \in Calls : d # c => call'[d] = call[d]
  BY CallsAssumption DEF Lines, TypeOK
<1>2. /\ DOMAIN waiting[k] = 1..Len(waiting[k]) /\ DOMAIN waiting'[k] = 1..(Len(waiting[k]) + 1)
      /\ Len(waiting[k]) \in Nat /\ waiting'[k][Len(waiting[k]) + 1] = c
      /\ \A j \in 1..Len(waiting[k]) : waiting'[k][j] = waiting[k][j]
  BY <1>1, OneMorePlace
<1>3. ASSUME NEW d \in Calls, call'[d] = "waiting"
      PROVE  \E i \in DOMAIN waiting'[KeyOf[d]] : waiting'[KeyOf[d]][i] = d
  <2>1. CASE d = c
    BY <2>1, <1>2
  <2>2. CASE d # c
    <3>1. KeyOf[d] \in Keys /\ call[d] = "waiting"
      BY <2>2, <1>1, <1>3, CallsAssumption
    <3>2. PICK i \in DOMAIN waiting[KeyOf[d]] : waiting[KeyOf[d]][i] = d
      BY <3>1 DEF StandsInLine
    <3>3. QED BY <3>1, <3>2, <1>1, <1>2
  <2>3. QED BY <2>1, <2>2
<1>4. QED BY <1>3 DEF StandsInLine

\* acquire gives the turn at once or a place behind the others.
LEMMA AskIsAsk ==
  ASSUME IInv, StandsInLine, NEW c \in Takers, Ask(c)
  PROVE  Turns!Ask(c) /\ StandsInLine'
<1> DEFINE k == KeyOf[c]
<1>1. /\ k \in Keys /\ c \in Calls /\ c # None /\ call[c] = "new" /\ c \notin Watchers
      /\ call \in [Calls -> {"new", "waiting", "resolved"}] /\ Lines
  BY CallsAssumption DEF IInv, Lines, TypeOK, Calls, Ask, Acquire
<1>2. PICK st \in {"waiting", "resolved"} : call' = [call EXCEPT ![c] = st]
  BY DEF Ask, Acquire
<1>3. AskedFor' = AskedFor \cup {c} /\ c \notin AskedFor
  BY <1>1, <1>2 DEF AskedFor
<1>4. \A kk \in Keys : WatchTurn(kk)' = WatchTurn(kk)
  BY <1>1, <1>2 DEF WatchTurn, Calls
<1>5. CASE held[k] = None
  <2>1. held' = [held EXCEPT ![k] = c] /\ call' = [call EXCEPT ![c] = "resolved"] /\ UNCHANGED waiting
    BY <1>5 DEF Ask, Acquire
  <2>2. \A kk \in Keys : WantTurn(kk)' = WantTurn(kk)
    BY <1>1, <2>1 DEF WantTurn, Calls
  <2>3. \A d \in Takers : Ahead(d)' = Ahead(d)
    BY <2>1 DEF Ahead
  <2>4. StandsInLine'
    BY <1>1, <2>1 DEF StandsInLine
  <2>5. Turns!Ask(c)
    BY <1>3, <1>4, <1>5, <2>1, <2>2, <2>3 DEF Turns!Ask, AskedFor, WantTurn, WatchTurn
  <2>6. QED BY <2>4, <2>5
<1>6. CASE held[k] # None
  <2>1. /\ UNCHANGED held /\ call' = [call EXCEPT ![c] = "waiting"]
        /\ waiting' = [waiting EXCEPT ![k] = Append(@, c)]
    BY <1>6 DEF Ask, Acquire
  <2>2. \A kk \in Keys : WantTurn(kk)' = IF kk = k THEN WantTurn(kk) \cup {c} ELSE WantTurn(kk)
    BY <1>1, <2>1 DEF WantTurn, Calls
  <2>3. Ahead(c)' = WantTurn(k) /\ \A d \in Takers : d # c => Ahead(d)' = Ahead(d)
    BY <1>1, <2>1, BehindTheOthers
  <2>4. StandsInLine'
    BY <1>1, <2>1, PlaceIsTaken
  <2>5. [kk \in Keys |-> WantTurn(kk)]'
          = [[kk \in Keys |-> WantTurn(kk)] EXCEPT ![k] = @ \cup {c}]
    BY <1>1, <2>2
  <2>6. [d \in Takers |-> Ahead(d)]' = [[d \in Takers |-> Ahead(d)] EXCEPT ![c] = WantTurn(k)]
    BY <2>3
  <2>7. [kk \in Keys |-> WantTurn(kk)][k] = WantTurn(k)
    BY <1>1
  <2>8. [kk \in Keys |-> WatchTurn(kk)]' = [kk \in Keys |-> WatchTurn(kk)]
    BY <1>4
  <2>9. Turns!Ask(c)
    BY <1>3, <1>6, <2>1, <2>5, <2>6, <2>7, <2>8 DEF Turns!Ask, AskedFor, WantTurn, WatchTurn
  <2>10. QED BY <2>4, <2>9
<1>7. QED BY <1>5, <1>6

\* whenIdle lets go at once or gives a watching place.
LEMMA WatchIsWatch ==
  ASSUME IInv, StandsInLine, NEW w \in Watchers, Watch(w)
  PROVE  Turns!Watch(w) /\ StandsInLine'
<1> DEFINE k == KeyOf[w]
<1>1. /\ k \in Keys /\ w \in Calls /\ w \notin Takers /\ call[w] = "new"
      /\ call \in [Calls -> {"new", "waiting", "resolved"}] /\ Lines /\ UNCHANGED held
  BY CallsAssumption DEF IInv, Lines, TypeOK, Calls, Watch, WhenIdle
<1>2. PICK st \in {"waiting", "resolved"} : call' = [call EXCEPT ![w] = st]
  BY DEF Watch, WhenIdle
<1>3. AskedFor' = AskedFor \cup {w} /\ w \notin AskedFor
  BY <1>1, <1>2 DEF AskedFor
<1>4. [kk \in Keys |-> WantTurn(kk)]' = [kk \in Keys |-> WantTurn(kk)]
  <2>1. \A kk \in Keys : WantTurn(kk)' = WantTurn(kk)
    BY <1>1, <1>2 DEF WantTurn, Calls
  <2>2. QED BY <2>1
<1>5. /\ StandsInLine' /\ \A d \in Takers : Ahead(d)' = Ahead(d)
      /\ \A kk \in Keys : WatchTurn(kk)' =
           IF kk = k /\ held[k] # None THEN WatchTurn(kk) \cup {w} ELSE WatchTurn(kk)
  <2>1. CASE held[k] = None
    <3>1. call' = [call EXCEPT ![w] = "resolved"] /\ UNCHANGED waiting
      BY <2>1 DEF Watch, WhenIdle
    <3>2. StandsInLine' /\ \A d \in Takers : Ahead(d)' = Ahead(d)
      BY <1>1, <3>1 DEF StandsInLine, Ahead
    <3>3. QED BY <1>1, <2>1, <3>1, <3>2 DEF WatchTurn, Calls
  <2>2. CASE held[k] # None
    <3>1. /\ call' = [call EXCEPT ![w] = "waiting"]
          /\ waiting' = [waiting EXCEPT ![k] = Append(@, w)]
      BY <2>2 DEF Watch, WhenIdle
    <3>2. StandsInLine' /\ \A d \in Takers : Ahead(d)' = Ahead(d)
      BY <1>1, <3>1, PlaceIsTaken, BehindTheOthers
    <3>3. QED BY <1>1, <2>2, <3>1, <3>2 DEF WatchTurn, Calls
  <2>3. QED BY <2>1, <2>2
<1>6. [d \in Takers |-> Ahead(d)]' = [d \in Takers |-> Ahead(d)]
  BY <1>5
<1>7. [kk \in Keys |-> WatchTurn(kk)]' = [[kk \in Keys |-> WatchTurn(kk)] EXCEPT ![k] =
         IF held[k] = None THEN @ ELSE @ \cup {w}]
  BY <1>1, <1>5
<1>8. Turns!Watch(w)
  BY <1>1, <1>3, <1>4, <1>6, <1>7 DEF Turns!Watch, AskedFor, WantTurn, WatchTurn
<1>9. QED BY <1>5, <1>8

\* A place behind the i-th, counted from there.
LEMMA BehindPlace ==
  ASSUME NEW n \in Nat, NEW i \in 1..(n + 1), NEW m \in 1..n, ~ m <= i
  PROVE  i + 1 <= n /\ m - i \in 1..(n - i) /\ i + (m - i) = m
  OBVIOUS

\* passOn lets the watchers on its way go and gives the turn to the one in line that asked
\* first; with no turn-taker in line nobody is left to wait.
LEMMA PassOnIsPass ==
  ASSUME Lines, StandsInLine, NEW k \in Keys, held[k] # None, PassOn(k)
  PROVE  Turns!Pass(k) /\ StandsInLine'
<1> DEFINE line == waiting[k]
<1>1. PICK i \in 1..(Len(line) + 1) :
        /\ StopsAt(line, i)
        /\ waiting' = [waiting EXCEPT ![k] = SubSeq(line, i + 1, Len(line))]
        /\ call' = [c \in Calls |->
                      IF \E j \in 1..i : j <= Len(line) /\ line[j] = c
                      THEN "resolved" ELSE call[c]]
        /\ held' = [held EXCEPT ![k] = IF i <= Len(line) THEN line[i] ELSE None]
  <2>1. PICK i \in 1..(Len(line) + 1) :
          /\ StopsAt(line, i)
          /\ waiting' = [waiting EXCEPT ![k] = SubSeq(line, i + 1, Len(line))]
          /\ call' = [c \in Calls |->
                        IF \E j \in 1..i : j <= Len(line) /\ line[j] = c
                        THEN "resolved" ELSE call[c]]
          /\ IF i <= Len(line) THEN held' = [held EXCEPT ![k] = line[i]]
                               ELSE held' = [held EXCEPT ![k] = None]
    BY DEF PassOn
  <2>2. QED BY <2>1
<1> DEFINE rest == SubSeq(line, i + 1, Len(line))
<1>2. /\ line \in Seq(Calls) /\ Len(line) \in Nat /\ DOMAIN line = 1..Len(line)
      /\ waiting \in [Keys -> Seq(Calls)] /\ call \in [Calls -> {"new", "waiting", "resolved"}]
  BY DEF Lines, TypeOK
<1>3. /\ Len(rest) = IF i + 1 <= Len(line) THEN Len(line) - i ELSE 0
      /\ DOMAIN rest = 1..Len(rest) /\ rest \in Seq(Calls)
      /\ \A j \in 1..Len(rest) : rest[j] = line[i + j] /\ i + j \in 1..Len(line)
  BY <1>2, RestOfLine
<1>b. ASSUME NEW m \in DOMAIN line, ~ m <= i
      PROVE  m - i \in 1..Len(rest) /\ i + (m - i) = m /\ rest[m - i] = line[m]
  <2>1. m \in 1..Len(line)
    BY <1>2
  <2>2. i + 1 <= Len(line) /\ m - i \in 1..(Len(line) - i) /\ i + (m - i) = m
    BY <2>1, <1>2, <1>b, BehindPlace
  <2>3. Len(rest) = Len(line) - i
    BY <2>2, <1>3
  <2>4. QED BY <2>2, <2>3, <1>3
<1>4. waiting'[k] = rest /\ \A kk \in Keys : kk # k => waiting'[kk] = waiting[kk]
  BY <1>1, <1>2
<1> DEFINE Served == {c \in Calls : \E j \in 1..i : j <= Len(line) /\ line[j] = c}
<1>5. \A c \in Calls : call'[c] = IF c \in Served THEN "resolved" ELSE call[c]
  BY <1>1
<1>6. \A c \in Served : c \in Calls /\ call[c] = "waiting" /\ KeyOf[c] = k
  <2>1. SUFFICES ASSUME NEW c \in Served PROVE c \in Calls /\ call[c] = "waiting" /\ KeyOf[c] = k
    OBVIOUS
  <2>2. PICK j \in 1..i : j <= Len(line) /\ line[j] = c
    OBVIOUS
  <2>3. j \in DOMAIN line
    BY <2>2, <1>2
  <2>4. QED BY <2>2, <2>3 DEF Lines, InLine
<1>7. \A c \in Served \cap Takers : i <= Len(line) /\ c = line[i]
  <2>1. SUFFICES ASSUME NEW c \in Served \cap Takers PROVE i <= Len(line) /\ c = line[i]
    OBVIOUS
  <2>2. PICK j \in 1..i : j <= Len(line) /\ line[j] = c
    OBVIOUS
  <2>3. j \notin 1..(i - 1)
    BY <2>1, <2>2, <1>1 DEF StopsAt
  <2>4. j = i
    BY <2>2, <2>3, <1>2
  <2>5. QED BY <2>2, <2>4
<1>8. AskedFor' = AskedFor
  <2>1. \A c \in Calls : call'[c] # "new" <=> call[c] # "new"
    BY <1>5, <1>6
  <2>2. QED BY <2>1 DEF AskedFor
<1>9. StandsInLine'
  <2>1. SUFFICES ASSUME NEW c \in Calls, call'[c] = "waiting"
                 PROVE  \E j \in DOMAIN waiting'[KeyOf[c]] : waiting'[KeyOf[c]][j] = c
    BY DEF StandsInLine
  <2>2. c \notin Served /\ call[c] = "waiting" /\ KeyOf[c] \in Keys
    BY <2>1, <1>5, CallsAssumption
  <2>3. PICK j \in DOMAIN waiting[KeyOf[c]] : waiting[KeyOf[c]][j] = c
    BY <2>2 DEF StandsInLine
  <2>4. CASE KeyOf[c] # k
    BY <2>2, <2>3, <2>4, <1>4
  <2>5. CASE KeyOf[c] = k
    <3>1. j \in 1..Len(line) /\ line[j] = c
      BY <2>3, <2>5, <1>2
    <3>2. ~ j <= i
      BY <3>1, <2>2, <1>2
    <3>3. j - i \in 1..Len(rest) /\ rest[j - i] = c
      BY <3>1, <3>2, <1>2, <1>b
    <3>4. QED BY <3>3, <2>5, <1>3, <1>4
  <2>6. QED BY <2>4, <2>5
<1>10. \A kk \in Keys : WatchTurn(kk)' =
         IF kk = k THEN WatchTurn(k) \ (Served \cap Watchers) ELSE WatchTurn(kk)
  <2>1. ASSUME NEW kk \in Keys, NEW w \in Watchers
        PROVE  call'[w] = "waiting" /\ KeyOf[w] = kk
                 <=> call[w] = "waiting" /\ KeyOf[w] = kk /\ ~(kk = k /\ w \in Served)
    BY <1>5, <1>6 DEF Calls
  <2>2. QED BY <2>1 DEF WatchTurn
<1>11. [kk \in Keys |-> WatchTurn(kk)]'
         = [[kk \in Keys |-> WatchTurn(kk)] EXCEPT ![k] = @ \ (Served \cap WatchTurn(k))]
  BY <1>10 DEF WatchTurn
<1>12. \A kk \in Keys : WantTurn(kk)' = IF kk = k THEN WantTurn(k) \ Served ELSE WantTurn(kk)
  <2>1. ASSUME NEW kk \in Keys, NEW c \in Takers
        PROVE  call'[c] = "waiting" /\ KeyOf[c] = kk
                 <=> call[c] = "waiting" /\ KeyOf[c] = kk /\ ~(kk = k /\ c \in Served)
    BY <1>5, <1>6 DEF Calls
  <2>2. QED BY <2>1 DEF WantTurn
<1>13. \A d \in Takers : KeyOf[d] \in Keys /\ (KeyOf[d] # k => Ahead(d)' = Ahead(d))
  BY <1>4, CallsAssumption DEF Ahead, Calls
<1>14. CASE i <= Len(line)
  <2> DEFINE n == line[i]
  <2>1. i \in DOMAIN line /\ n \in Takers /\ n \in Served
    BY <1>1, <1>2, <1>14 DEF StopsAt, Calls
  <2>2. n \in WantTurn(k) /\ held' = [held EXCEPT ![k] = n]
    BY <2>1, <1>1, <1>6, <1>14 DEF WantTurn
  <2>3. Served \cap Takers = {n}
    BY <2>1, <1>7
  <2>4. [kk \in Keys |-> WantTurn(kk)]' = [[kk \in Keys |-> WantTurn(kk)] EXCEPT ![k] = @ \ {n}]
    BY <1>12, <2>3 DEF WantTurn
  <2>5. Ahead(n) = {}
    <3>1. SUFFICES ASSUME NEW e \in Ahead(n) PROVE FALSE
      OBVIOUS
    <3>2. KeyOf[n] = k
      BY <2>2 DEF WantTurn
    <3>3. e \in Takers /\ \E a, b \in DOMAIN line : a < b /\ line[a] = e /\ line[b] = n
      BY <3>1, <3>2 DEF Ahead
    <3>4. PICK a, b \in DOMAIN line : a < b /\ line[a] = e /\ line[b] = n
      BY <3>3
    <3>5. b = i
      BY <3>4, <2>1 DEF Lines, OnceInLine
    <3>6. a \in 1..(i - 1)
      BY <3>4, <3>5, <1>2
    <3>7. QED BY <3>3, <3>4, <3>6, <1>1 DEF StopsAt
  <2>6. ASSUME NEW d \in Takers PROVE Ahead(d)' = Ahead(d) \ {n}
    <3>1. CASE KeyOf[d] # k
      <4>1. n \notin Ahead(d)
        <5>1. \A a \in DOMAIN waiting[KeyOf[d]] : waiting[KeyOf[d]][a] # n
          BY <3>1, <1>13, <2>2 DEF Lines, InLine, WantTurn
        <5>2. QED BY <5>1 DEF Ahead
      <4>2. QED BY <3>1, <4>1, <1>13
    <3>2. CASE KeyOf[d] = k
      <4>1. Ahead(d)' = {e \in Takers : \E a, b \in DOMAIN rest : a < b /\ rest[a] = e /\ rest[b] = d}
        BY <3>2, <1>4 DEF Ahead
      <4>2. Ahead(d) = {e \in Takers : \E a, b \in DOMAIN line : a < b /\ line[a] = e /\ line[b] = d}
        BY <3>2 DEF Ahead
      <4>3. ASSUME NEW e \in Takers, NEW a \in DOMAIN rest, NEW b \in DOMAIN rest,
                   a < b, rest[a] = e, rest[b] = d
            PROVE  e \in Ahead(d) \ {n}
        <5>1. /\ i + a \in DOMAIN line /\ i + b \in DOMAIN line /\ i + a < i + b /\ i + a # i
              /\ line[i + a] = e /\ line[i + b] = d
          BY <4>3, <1>2, <1>3
        <5>2. e # n
          BY <5>1, <2>1 DEF Lines, OnceInLine
        <5>3. QED BY <5>1, <5>2, <4>2
      <4>4. ASSUME NEW e \in Takers, e # n, NEW a \in DOMAIN line, NEW b \in DOMAIN line,
                   a < b, line[a] = e, line[b] = d
            PROVE  e \in Ahead(d)'
        <5>1. a \notin 1..(i - 1) /\ a # i
          BY <4>4, <1>1 DEF StopsAt
        <5>2. i < a /\ i < b /\ a <= Len(line) /\ b <= Len(line) /\ a \in Int /\ b \in Int
          BY <4>4, <5>1, <1>2
        <5>3. ~ a <= i /\ ~ b <= i /\ a - i < b - i
          BY <4>4, <5>2
        <5>4. /\ a - i \in 1..Len(rest) /\ b - i \in 1..Len(rest)
              /\ rest[a - i] = e /\ rest[b - i] = d
          BY <4>4, <5>3, <1>b
        <5>5. QED BY <5>3, <5>4, <1>3, <4>1
      <4>5. QED BY <4>1, <4>2, <4>3, <4>4
    <3>3. QED BY <3>1, <3>2
  <2>7. [d \in Takers |-> Ahead(d)]' = [d \in Takers |-> [e \in Takers |-> Ahead(e)][d] \ {n}]
    BY <2>6
  <2>8. [kk \in Keys |-> WantTurn(kk)][k] = WantTurn(k) /\ [d \in Takers |-> Ahead(d)][n] = {}
        /\ Served \cap WatchTurn(k) \in SUBSET [kk \in Keys |-> WatchTurn(kk)][k]
    BY <2>1, <2>5
  <2>9. Turns!Pass(k)
    BY <1>8, <1>11, <2>2, <2>4, <2>7, <2>8 DEF Turns!Pass, AskedFor, WantTurn, WatchTurn
  <2>10. QED BY <2>9, <1>9
<1>15. CASE ~ i <= Len(line)
  <2>1. i = Len(line) + 1 /\ held' = [held EXCEPT ![k] = None] /\ rest = <<>>
    BY <1>1, <1>2, <1>3, <1>15
  <2>2. \A j \in DOMAIN line : line[j] \in Served /\ line[j] \notin Takers
    BY <2>1, <1>1, <1>2 DEF StopsAt
  <2>3. ASSUME NEW c \in Calls, call[c] = "waiting", KeyOf[c] = k PROVE c \in Served /\ c \notin Takers
    BY <2>2, <2>3 DEF StandsInLine
  <2>4. WantTurn(k) = {} /\ WatchTurn(k) \subseteq Served
    BY <2>3 DEF WantTurn, WatchTurn, Calls
  <2>5. [kk \in Keys |-> WantTurn(kk)]' = [kk \in Keys |-> WantTurn(kk)]
    BY <1>12, <2>4
  <2>6. \A d \in Takers : Ahead(d)' = Ahead(d)
    <3>1. SUFFICES ASSUME NEW d \in Takers, KeyOf[d] = k PROVE Ahead(d)' = Ahead(d)
      BY <1>13
    <3>2. Ahead(d)' = {}
      BY <3>1, <2>1, <1>3, <1>4 DEF Ahead
    <3>3. Ahead(d) = {e \in Takers : \E a, b \in DOMAIN line : a < b /\ line[a] = e /\ line[b] = d}
      BY <3>1 DEF Ahead
    <3>4. Ahead(d) = {}
      BY <3>3, <2>2
    <3>5. QED BY <3>2, <3>4
  <2>7. [d \in Takers |-> Ahead(d)]' = [d \in Takers |-> Ahead(d)]
    BY <2>6
  <2>8. /\ [kk \in Keys |-> WantTurn(kk)][k] = {}
        /\ Served \cap WatchTurn(k) \in SUBSET [kk \in Keys |-> WatchTurn(kk)][k]
        /\ [kk \in Keys |-> WatchTurn(kk)]'[k] = {}
    BY <2>4, <1>11
  <2>9. Turns!Pass(k)
    BY <1>8, <1>11, <2>1, <2>5, <2>7, <2>8 DEF Turns!Pass, AskedFor, WantTurn, WatchTurn
  <2>10. QED BY <2>9, <1>9
<1>16. QED BY <1>14, <1>15

\* Every step of the queue is one of StartUpTurns, or none.
LEMMA StepsAreTurns ==
  IInv /\ StandsInLine /\ [Next]_vars => [Turns!Next]_Turns!vars /\ StandsInLine'
<1> SUFFICES ASSUME IInv, StandsInLine, [Next]_vars
             PROVE  [Turns!Next]_Turns!vars /\ StandsInLine'
  OBVIOUS
<1>1. ASSUME UNCHANGED queueVars PROVE UNCHANGED Turns!vars /\ StandsInLine'
  BY <1>1 DEF queueVars, Turns!vars, Ahead, StandsInLine
<1>2. ASSUME NEW c \in Takers, Ask(c) PROVE Turns!Next /\ StandsInLine'
  BY <1>2, AskIsAsk DEF Turns!Next
<1>3. ASSUME NEW w \in Watchers, Watch(w) PROVE Turns!Next /\ StandsInLine'
  BY <1>3, WatchIsWatch DEF Turns!Next
<1>4. ASSUME NEW k \in Keys, held[k] # None, PassOn(k) PROVE Turns!Next /\ StandsInLine'
  BY <1>4, PassOnIsPass DEF Turns!Next, IInv
<1>5. ASSUME NEW c \in Takers, Report(c) \/ Expire(c)
      PROVE  [Turns!Next]_Turns!vars /\ StandsInLine'
  <2>1. /\ KeyOf[c] \in Keys
        /\ \/ UNCHANGED queueVars
           \/ held[KeyOf[c]] # None /\ PassOn(KeyOf[c])
    BY <1>5, CallsAssumption DEF Report, Release, Expire, CeilingFires, Calls
  <2>2. QED BY <2>1, <1>1, <1>4
<1>6. CASE Done \/ UNCHANGED vars
  BY <1>1, <1>6 DEF Done, vars, queueVars
<1>7. QED BY <1>2, <1>3, <1>5, <1>6 DEF Next

\* Turns are given in the order of asking, one per profile, and watchers are let go no later
\* than the turn becomes free: all that StartUpTurns promises, but that turns are passed on.
THEOREM TurnsComeInOrder == Spec => Turns!Init /\ [][Turns!Next]_Turns!vars
<1>1. Init => Turns!Init /\ StandsInLine
  BY InitTurns
<1>2. IInv /\ StandsInLine /\ [Next]_vars => [Turns!Next]_Turns!vars /\ StandsInLine'
  BY StepsAreTurns
<1>3. QED BY <1>1, <1>2, InvariantHolds, PTL DEF Spec

--------------------------------------------------------------------------------
\* The terminals

\* The answer tells of a terminal that was made.
Tells(a) == a # Closed /\ progress[a] = "made"

TTypes ==
  /\ open \in BOOLEAN
  /\ progress \in [Openings -> {"new", "pausing", "waiting", "made", "refused"}]
  /\ answers \in Seq(Openings \cup {Closed})
  /\ handle \in Openings \cup {None} /\ shown \in Openings \cup {None}

\* Only openings that are over are answered.
AnsweredIsOver ==
  \A j \in DOMAIN answers : answers[j] # Closed => progress[answers[j]] \in {"made", "refused"}

\* Nothing runs unseen by the map, except what was lost; and nothing once the window is gone.
Recordeds == running \subseteq {handle} \cup lost /\ (handle # None => open)

\* The last terminal the page will hear of, or else the one it shows, is the recorded one.
ShownIsNext ==
  handle # None =>
    /\ \A j \in DOMAIN answers :
         Tells(answers[j]) /\ (\A m \in DOMAIN answers : m > j => ~Tells(answers[m])) => answers[j] = handle
    /\ (\A j \in DOMAIN answers : ~Tells(answers[j])) => shown \in {None, handle}

TInv == TTypes /\ AnsweredIsOver /\ Recordeds /\ ShownIsNext

LEMMA TInitInv == TInit => TInv
<1> SUFFICES ASSUME TInit PROVE TInv
  OBVIOUS
<1>1. TTypes
  BY DEF TInit, TTypes
<1>2. DOMAIN answers = {}
  BY DEF TInit
<1>3. QED BY <1>1, <1>2 DEF TInit, TInv, AnsweredIsOver, Recordeds, ShownIsNext

\* An opening ends and the page is told.
LEMMA AnswerKeeps ==
  ASSUME TTypes, AnsweredIsOver, NEW o \in Openings, progress[o] \in {"pausing", "waiting"},
         NEW p \in {"made", "refused"}, progress' = [progress EXCEPT ![o] = p],
         answers' = Append(answers, o)
  PROVE  /\ AnsweredIsOver'
         /\ Tells(o)' <=> p = "made"
         /\ \A j \in DOMAIN answers : answers'[j] = answers[j] /\ (Tells(answers[j])' <=> Tells(answers[j]))
         /\ DOMAIN answers' = DOMAIN answers \cup {Len(answers')} /\ answers'[Len(answers')] = o
         /\ \A j \in DOMAIN answers : j < Len(answers')
<1>1. /\ answers \in Seq(Openings \cup {Closed}) /\ o # Closed /\ o \in DOMAIN progress
      /\ progress \in [Openings -> {"new", "pausing", "waiting", "made", "refused"}]
  BY TerminalsAssumption DEF TTypes
<1>2. /\ Len(answers') = Len(answers) + 1 /\ answers'[Len(answers')] = o
      /\ DOMAIN answers' = 1..(Len(answers) + 1) /\ DOMAIN answers = 1..Len(answers) /\ Len(answers) \in Nat
      /\ \A j \in DOMAIN answers : answers'[j] = answers[j]
  BY <1>1
<1>3. \A j \in DOMAIN answers : answers[j] # o
  BY <1>1 DEF AnsweredIsOver
<1>4. \A j \in DOMAIN answers : answers[j] # Closed => progress'[answers[j]] = progress[answers[j]]
  BY <1>1, <1>2, <1>3
<1>5. progress'[o] = p
  BY <1>1
<1>6. \A j \in DOMAIN answers : Tells(answers[j])' <=> Tells(answers[j])
  BY <1>2, <1>4 DEF Tells
<1>7. Tells(o)' <=> p = "made"
  BY <1>1, <1>2, <1>5 DEF Tells
<1>8. DOMAIN answers' = DOMAIN answers \cup {Len(answers')} /\ \A j \in DOMAIN answers : j < Len(answers')
  BY <1>2
<1>9. AnsweredIsOver'
  BY <1>1, <1>2, <1>4, <1>5, <1>8 DEF AnsweredIsOver
<1>10. QED BY <1>2, <1>6, <1>7, <1>8, <1>9

\* A request closes what was recorded: nothing is shown wrongly.
LEMMA NothingRecorded == ASSUME handle' = None, Recordeds, NEW keep \in SUBSET running,
                                running' = keep \ {handle}, lost \subseteq lost'
                         PROVE  Recordeds' /\ ShownIsNext'
BY DEF Recordeds, ShownIsNext

\* Every step of terminals, page and queue keeps the invariant.
LEMMA TNextInv == TInv /\ [TNext]_<<vars, termVars>> => TInv'
<1> SUFFICES ASSUME TInv, [TNext]_<<vars, termVars>> PROVE TInv'
  OBVIOUS
<1>1. /\ TTypes /\ AnsweredIsOver /\ Recordeds /\ ShownIsNext
      /\ None \notin Openings /\ Closed \notin Openings
  BY CallsAssumption, TerminalsAssumption DEF TInv, Openings, Calls
<1>2. CASE UNCHANGED termVars
  BY <1>1, <1>2 DEF TInv, TTypes, AnsweredIsOver, Recordeds, ShownIsNext, Tells, termVars, pageVars
<1>3. CASE WindowCloses
  <2>1. /\ open' = FALSE /\ handle' = None /\ answers' = <<>> /\ shown' = None
        /\ running' = running \ {handle} /\ UNCHANGED <<progress, lost>>
    BY <1>3 DEF WindowCloses, Disposes
  <2>2. TTypes' /\ AnsweredIsOver'
    <3>1. answers' \in Seq(Openings \cup {Closed}) /\ DOMAIN answers' = {}
      BY <2>1
    <3>2. open' \in BOOLEAN
      BY <2>1
    <3>3. QED BY <1>1, <2>1, <3>1, <3>2 DEF TTypes, AnsweredIsOver
  <2>3. QED BY <1>1, <2>1, <2>2, NothingRecorded DEF TInv
<1>4. CASE Restarts
  <2>1. /\ handle' = None /\ answers' = Append(answers, Closed) /\ shown' = None
        /\ running' = running \ {handle} /\ UNCHANGED <<open, progress, lost>>
    BY <1>4 DEF Restarts, Disposes
  <2>2. TTypes'
    BY <1>1, <2>1 DEF TTypes
  <2>3. AnsweredIsOver'
    <3>1. ASSUME NEW j \in DOMAIN answers' 
          PROVE  (j \in DOMAIN answers /\ answers'[j] = answers[j]) \/ answers'[j] = Closed
      BY <1>1, <2>1 DEF TTypes
    <3>2. QED BY <1>1, <2>1, <3>1 DEF AnsweredIsOver
  <2>4. QED BY <1>1, <2>1, <2>2, <2>3, NothingRecorded DEF TInv
<1>5. ASSUME NEW o \in Openings, Begins(o), UNCHANGED <<open, shown, lost>>,
             \/ answers' = answers
             \/ answers # <<>> /\ answers' = Tail(answers)
      PROVE  TInv'
  <2>1. /\ handle' = None /\ running' = running \ {handle}
        /\ progress[o] = "new" /\ progress' = [progress EXCEPT ![o] = "pausing"]
    BY <1>5 DEF Begins, Disposes
  <2>2. TTypes'
    <3>1. answers' \in Seq(Openings \cup {Closed})
      <4>1. CASE answers' = answers
        BY <1>1, <4>1 DEF TTypes
      <4>2. CASE answers # <<>> /\ answers' = Tail(answers)
        BY <1>1, <4>2 DEF TTypes
      <4>3. QED BY <1>5, <4>1, <4>2
    <3>2. progress' \in [Openings -> {"new", "pausing", "waiting", "made", "refused"}]
      BY <1>1, <2>1 DEF TTypes
    <3>3. open' \in BOOLEAN /\ shown' \in Openings \cup {None}
      BY <1>1, <1>5 DEF TTypes
    <3>4. QED BY <2>1, <3>1, <3>2, <3>3 DEF TTypes
  <2>3. AnsweredIsOver'
    <3>1. ASSUME NEW j \in DOMAIN answers' PROVE \E m \in DOMAIN answers : answers'[j] = answers[m]
      BY <1>1, <1>5 DEF TTypes
    <3>2. ASSUME NEW m \in DOMAIN answers,
                 answers[m] # Closed PROVE progress'[answers[m]] = progress[answers[m]]
      BY <1>1, <2>1, <3>2 DEF TTypes, AnsweredIsOver
    <3>3. QED BY <1>1, <3>1, <3>2 DEF AnsweredIsOver
  <2>4. QED BY <1>1, <1>5, <2>1, <2>2, <2>3, NothingRecorded DEF TInv
<1>6. ASSUME NEW o \in Openings, Shows(o) PROVE TInv'
  <2>1. Begins(o) /\ UNCHANGED <<open, shown, lost>> /\ answers' = answers
    BY <1>6 DEF Shows, Ensures
  <2>2. QED BY <1>5, <2>1
\* The head of the answers is heard.
<1>7. ASSUME answers # <<>>, answers' = Tail(answers),
             UNCHANGED <<open, progress, handle, running, lost>>,
             shown' = IF Tells(Head(answers)) THEN Head(answers) ELSE shown
      PROVE  TInv'
  <2>1. /\ answers \in Seq(Openings \cup {Closed}) /\ Len(answers) \in Nat /\ Len(answers) > 0
        /\ DOMAIN answers = 1..Len(answers) /\ Head(answers) = answers[1]
        /\ DOMAIN answers' = 1..(Len(answers) - 1)
        /\ \A j \in DOMAIN answers' : j + 1 \in DOMAIN answers /\ answers'[j] = answers[j + 1]
        /\ \A j \in DOMAIN answers : j # 1 => j - 1 \in DOMAIN answers'
    BY <1>1, <1>7 DEF TTypes
  <2>2. TTypes'
    BY <1>1, <1>7, <2>1 DEF TTypes, Tells
  <2>3. AnsweredIsOver' /\ Recordeds'
    BY <1>1, <1>7, <2>1 DEF AnsweredIsOver, Recordeds
  <2>4. \A j \in DOMAIN answers' : Tells(answers[j + 1]) <=> Tells(answers[j])'
    BY <1>7, <2>1 DEF Tells
  <2>5. ASSUME handle # None, NEW j \in DOMAIN answers', Tells(answers[j + 1]),
               \A m \in DOMAIN answers' : m > j => ~Tells(answers[m + 1])
        PROVE  answers'[j] = handle
    <3>1. ASSUME NEW m \in DOMAIN answers, m > j + 1 PROVE ~Tells(answers[m])
      <4>1. m - 1 \in DOMAIN answers' /\ m - 1 > j /\ (m - 1) + 1 = m
        BY <2>1, <3>1
      <4>2. QED BY <2>5, <4>1
    <3>2. QED BY <1>1, <2>1, <2>5, <3>1 DEF ShownIsNext
  <2>6. ASSUME handle # None, \A j \in DOMAIN answers' : ~Tells(answers[j + 1])
        PROVE  shown' \in {None, handle}
    <3>1. ASSUME NEW m \in DOMAIN answers, m # 1 PROVE ~Tells(answers[m])
      <4>1. m - 1 \in DOMAIN answers' /\ (m - 1) + 1 = m
        BY <2>1, <3>1
      <4>2. QED BY <2>6, <4>1
    <3>2. QED BY <1>1, <1>7, <2>1, <2>6, <3>1 DEF ShownIsNext
  <2>7. ShownIsNext'
    BY <1>7, <2>4, <2>5, <2>6 DEF ShownIsNext
  <2>8. QED BY <2>2, <2>3, <2>7 DEF TInv
<1>8. CASE Opened
  <2>1. /\ answers # <<>> /\ Head(answers) # Closed /\ answers' = Tail(answers)
        /\ shown' = IF progress[Head(answers)] = "made" THEN Head(answers) ELSE shown
        /\ UNCHANGED <<open, progress, handle, running, lost>>
    BY <1>8 DEF Opened
  <2>2. QED BY <1>7, <2>1 DEF Tells
<1>9. CASE Restarted
  <2>1. answers # <<>> /\ Head(answers) = Closed /\ answers' = Tail(answers) /\ UNCHANGED <<open, shown, lost>>
    BY <1>9 DEF Restarted
  <2>2. CASE \E o \in Openings : Ensures(o)
    BY <1>5, <2>1, <2>2 DEF Ensures
  <2>3. CASE UNCHANGED <<opening, progress, handle, running, ending>>
    BY <1>7, <2>1, <2>3 DEF Tells
  <2>4. QED BY <1>9, <2>2, <2>3 DEF Restarted
<1>10. ASSUME NEW o \in Openings, Waits(o) PROVE TInv'
  <2>1. /\ progress[o] = "pausing" /\ progress' = [progress EXCEPT ![o] = "waiting"]
        /\ UNCHANGED <<open, shown, answers, handle, running, lost>>
    BY <1>10 DEF Waits, pageVars
  <2>2. \A j \in DOMAIN answers : answers[j] # Closed => progress'[answers[j]] = progress[answers[j]]
    BY <1>1, <2>1 DEF TTypes, AnsweredIsOver
  <2>3. TTypes' /\ AnsweredIsOver' /\ Recordeds'
    BY <1>1, <2>1, <2>2 DEF TTypes, AnsweredIsOver, Recordeds
  <2>4. ShownIsNext'
    BY <1>1, <2>1, <2>2 DEF ShownIsNext, Tells
  <2>5. QED BY <2>3, <2>4 DEF TInv
<1>11. ASSUME NEW o \in Openings, MayMake(o) PROVE progress[o] \in {"pausing", "waiting"}
  BY <1>11 DEF MayMake
<1>12. ASSUME NEW o \in Openings, Refuses(o) PROVE TInv'
  <2>1. /\ progress[o] \in {"pausing", "waiting"} /\ progress' = [progress EXCEPT ![o] = "refused"]
        /\ answers' = IF open THEN Append(answers, o) ELSE answers
        /\ UNCHANGED <<open, shown, handle, running, lost>>
    BY <1>11, <1>12 DEF Refuses
  <2>2. TTypes' /\ Recordeds'
    BY <1>1, <2>1 DEF TTypes, Recordeds
  <2>3. CASE open
    <3>1. /\ AnsweredIsOver' /\ ~Tells(o)'
          /\ \A j \in DOMAIN answers : answers'[j] = answers[j] /\ (Tells(answers[j])' <=> Tells(answers[j]))
          /\ DOMAIN answers' = DOMAIN answers \cup {Len(answers')} /\ answers'[Len(answers')] = o
          /\ \A j \in DOMAIN answers : j < Len(answers')
      BY <1>1, <2>1, <2>3, AnswerKeeps
    <3>2. ShownIsNext'
      BY <1>1, <2>1, <3>1 DEF ShownIsNext
    <3>3. QED BY <2>2, <3>1, <3>2 DEF TInv
  <2>4. CASE ~open
    <3>1. AnsweredIsOver' /\ handle' = None
      BY <1>1, <2>1, <2>4 DEF TTypes, AnsweredIsOver, Recordeds
    <3>2. QED BY <2>2, <3>1 DEF TInv, ShownIsNext
  <2>5. QED BY <2>3, <2>4
<1>13. ASSUME NEW o \in Openings, Makes(o) PROVE TInv'
  <2>1. /\ progress[o] \in {"pausing", "waiting"} /\ progress' = [progress EXCEPT ![o] = "made"]
        /\ open /\ answers' = Append(answers, o) /\ handle' = o
        /\ running' = running \cup {o} /\ lost' = lost \cup ({handle} \cap running)
        /\ UNCHANGED <<open, shown>>
    BY <1>11, <1>13 DEF Makes, Recorded
  <2>2. TTypes' /\ Recordeds'
    BY <1>1, <2>1 DEF TTypes, Recordeds
  <2>3. /\ AnsweredIsOver' /\ Tells(o)'
        /\ DOMAIN answers' = DOMAIN answers \cup {Len(answers')} /\ answers'[Len(answers')] = o
        /\ \A j \in DOMAIN answers : j < Len(answers')
    BY <1>1, <2>1, AnswerKeeps
  <2>4. ShownIsNext'
    BY <2>1, <2>3 DEF ShownIsNext
  <2>5. QED BY <2>2, <2>3, <2>4 DEF TInv
<1>14. ASSUME NEW o \in Openings, Dies(o) PROVE TInv'
  BY <1>1, <1>14 DEF Dies, pageVars, TInv, TTypes, AnsweredIsOver, Recordeds, ShownIsNext, Tells
<1>15. ASSUME NEW o \in Openings, Exits(o) PROVE TInv'
  BY <1>1, <1>15 DEF Exits, pageVars, TInv, TTypes, AnsweredIsOver, Recordeds, ShownIsNext
<1>16. CASE AllDone \/ Queues
  BY <1>2, <1>16 DEF AllDone, Queues
<1>17. QED BY <1>2, <1>3, <1>4, <1>6, <1>8, <1>9, <1>10, <1>12, <1>13, <1>14, <1>15, <1>16 DEF TNext

\* However openings, restarts, exits and the closing of the window interleave: what runs can be
\* closed, and what is shown is what is typed into.
THEOREM TerminalsStayReachable == TSpec => []TerminalsAreReachable
<1>1. TInit => TInv
  BY TInitInv
<1>2. TInv /\ [TNext]_<<vars, termVars>> => TInv'
  BY TNextInv
<1>3. TInv => TerminalsAreReachable
  BY DEF TInv, TTypes, Recordeds, ShownIsNext, TerminalsAreReachable, Quiet
<1>4. QED BY <1>1, <1>2, <1>3, PTL DEF TSpec

\* A step among the terminals is a step of the queue, or none.
LEMMA StepsOfTheQueue == [TNext]_<<vars, termVars>> => [Next]_vars
<1> SUFFICES ASSUME TNext, ~UNCHANGED vars PROVE Next
  BY DEF vars
<1>1. CASE Queues
  BY <1>1 DEF Queues, Next
<1>2. ASSUME NEW o \in Openings, Waits(o) PROVE Next
  BY <1>2 DEF Waits, Next
<1>3. QED BY <1>1, <1>2 DEF TNext, AllDone, WindowCloses, Restarts, Restarted, Opened, Makes,
   Recorded,
     Refuses, Dies, Exits, Shows

\* The queue keeps its promises beside the terminals that wait for it.
THEOREM QueueBesideTerminals == TSpec => [](QueueIsTrue /\ TurnsGoOn)
<1>1. TInit => IInv /\ WatchingIsCounted
  BY InitIInv, InitCounts DEF TInit
<1>2. IInv /\ WatchingIsCounted /\ [TNext]_<<vars, termVars>> => (IInv /\ WatchingIsCounted)'
  BY StepsOfTheQueue, NextIInv, NextCounts DEF IInv, Lines
<1>3. IInv /\ WatchingIsCounted => QueueIsTrue /\ TurnsGoOn
  BY DEF IInv, Lines, QueueIsTrue, TurnsGoOn
<1>4. QED BY <1>1, <1>2, <1>3, PTL DEF TSpec

\* The order of turns is kept beside the terminals, whose waits are its watchers.
THEOREM TurnsComeInOrderBesideTerminals == TSpec => Turns!Init /\ [][Turns!Next]_Turns!vars
<1>1. TInit => Turns!Init /\ StandsInLine /\ IInv
  BY InitTurns, InitIInv DEF TInit
<1>2. IInv /\ StandsInLine /\ [TNext]_<<vars, termVars>>
        => [Turns!Next]_Turns!vars /\ (IInv /\ StandsInLine)'
  BY StepsOfTheQueue, StepsAreTurns, NextIInv
<1>3. QED BY <1>1, <1>2, PTL DEF TSpec
=============================================================================
