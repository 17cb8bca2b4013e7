------------------------------- MODULE SpawnQueue -------------------------------
(***************************************************************************)
(* src/main/spawn-queue.ts: one pi start-up at a time, per profile.         *)
(* An entry of the code's map is held[k], waiting[k], watching[k] and the   *)
(* ceiling timer of its holder (armed); a key without an entry is one with  *)
(* held[k] = None.  A call is one invocation of acquire or whenIdle, that   *)
(* is one promise; its key is fixed when it is made.                        *)
(*                                                                         *)
(* The callers follow the discipline of bootRpc (chat-session.ts): after    *)
(* its turn came, a start-up reports at most once, and it reports whether   *)
(* or not the queue has meanwhile taken the turn from it at the ceiling.    *)
(***************************************************************************)
EXTENDS Integers, Sequences, FiniteSets

CONSTANTS
  Keys,       \* install prefixes (profileKey of a child's environment)
  Takers,     \* calls of acquire: chat sessions starting pi
  Watchers,   \* calls of whenIdle: the dock's pi terminal
  KeyOf,      \* the key each call names
  None        \* no holder

Calls == Takers \cup Watchers

ASSUME CallsAssumption ==
  /\ Takers \cap Watchers = {}
  /\ None \notin Calls
  /\ KeyOf \in [Calls -> Keys]
  /\ IsFiniteSet(Takers)

VARIABLES
  held,       \* per key: the call whose turn it is, or None
  waiting,    \* per key: the calls in line, turn-takers and watchers mixed
  watching,   \* per key: the count of watchers in line that stats() reports
  armed,      \* the calls whose ceiling timer is pending
  call,       \* per call: "new", "waiting" or "resolved" (its promise)
  reported,   \* the start-ups that have reported (bootRpc's `released`)
  expired     \* history: the calls whose turn ended at the ceiling

queueVars == <<held, waiting, watching, armed, call>>
vars == <<held, waiting, watching, armed, call, reported, expired>>

TypeOK ==
  /\ held \in [Keys -> Takers \cup {None}]
  /\ waiting \in [Keys -> Seq(Calls)]
  /\ watching \in [Keys -> Int]
  /\ armed \subseteq Takers
  /\ call \in [Calls -> {"new", "waiting", "resolved"}]
  /\ reported \subseteq Takers
  /\ expired \subseteq Takers

Init ==
  /\ held = [k \in Keys |-> None]
  /\ waiting = [k \in Keys |-> <<>>]
  /\ watching = [k \in Keys |-> 0]
  /\ armed = {}
  /\ call = [c \in Calls |-> "new"]
  /\ reported = {}
  /\ expired = {}

--------------------------------------------------------------------------------
\* The queue's own operations.

\* `i` is where the walk over the line stops: at the first turn-taker, or past the end.
StopsAt(line, i) ==
  /\ i \in 1..(Len(line) + 1)
  /\ i <= Len(line) => line[i] \in Takers
  /\ \A j \in 1..(i - 1) : line[j] \notin Takers

\* Mutant: `while` became `if`, one place of the line is served per turn that ends.
OnePlaceOnly(k) ==
  LET line == waiting[k]
      next == IF line = <<>> THEN None ELSE Head(line) IN
  /\ waiting' = [waiting EXCEPT ![k] = SubSeq(line, 2, Len(line))]
  /\ watching' = [watching EXCEPT ![k] = IF next \in Watchers THEN @ - 1 ELSE @]
  /\ call' = [c \in Calls |-> IF c = next THEN "resolved" ELSE call[c]]
  /\ held' = [held EXCEPT ![k] = IF next \in Takers THEN next ELSE None]
  /\ armed' = (armed \ {held[k]}) \cup ({next} \cap Takers)

\* Mutant: the line is served from its end (pop for shift).
ServesTheLast(k) ==
  LET line == waiting[k]
      next == IF line = <<>> THEN None ELSE line[Len(line)] IN
  /\ waiting' = [waiting EXCEPT ![k] = SubSeq(line, 1, Len(line) - 1)]
  /\ watching' = [watching EXCEPT ![k] = IF next \in Watchers THEN @ - 1 ELSE @]
  /\ call' = [c \in Calls |-> IF c = next THEN "resolved" ELSE call[c]]
  /\ held' = [held EXCEPT ![k] = IF next \in Takers THEN next ELSE None]
  /\ armed' = (armed \ {held[k]}) \cup ({next} \cap Takers)

\* Mutant: the new holder gets no timer.
NoNewTimer(k) ==
  LET line == waiting[k] IN
  \E i \in 1..(Len(line) + 1) :
    /\ StopsAt(line, i)
    /\ waiting' = [waiting EXCEPT ![k] = SubSeq(line, i + 1, Len(line))]
    /\ watching' = [watching EXCEPT ![k] = @ - (i - 1)]
    /\ call' = [c \in Calls |->
                  IF \E j \in 1..i : j <= Len(line) /\ line[j] = c
                  THEN "resolved" ELSE call[c]]
    /\ held' = [held EXCEPT ![k] = IF i <= Len(line) THEN line[i] ELSE None]
    /\ armed' = armed \ {held[k]}

\* The turn ends.  Watchers at the head of the line are let go on the way past, the
\* first turn-taker becomes the holder under a ceiling of its own; with nobody in line
\* the entry is forgotten.
PassOn(k) ==
  LET line == waiting[k] IN
  \E i \in 1..(Len(line) + 1) :
    /\ StopsAt(line, i)
    /\ waiting' = [waiting EXCEPT ![k] = SubSeq(line, i + 1, Len(line))]
    /\ watching' = [watching EXCEPT ![k] = @ - (i - 1)]
    /\ call' = [c \in Calls |->
                  IF \E j \in 1..i : j <= Len(line) /\ line[j] = c
                  THEN "resolved" ELSE call[c]]
    /\ IF i <= Len(line)
       THEN /\ held' = [held EXCEPT ![k] = line[i]]
            /\ armed' = (armed \ {held[k]}) \cup {line[i]}
       ELSE /\ held' = [held EXCEPT ![k] = None]
            /\ armed' = armed \ {held[k]}

\* Mutant: acquire does not look whether the turn is taken.
AcquireUnchecked(c) ==
  /\ c \in Takers
  /\ call[c] = "new"
  /\ held' = [held EXCEPT ![KeyOf[c]] = c]
  /\ armed' = armed \cup {c}
  /\ call' = [call EXCEPT ![c] = "resolved"]
  /\ UNCHANGED <<waiting, watching>>

\* acquire(key): the turn at once when nobody holds it, else a place in line.
Acquire(c) ==
  /\ c \in Takers
  /\ call[c] = "new"
  /\ IF held[KeyOf[c]] = None
     THEN /\ held' = [held EXCEPT ![KeyOf[c]] = c]
          /\ armed' = armed \cup {c}
          /\ call' = [call EXCEPT ![c] = "resolved"]
          /\ UNCHANGED waiting
     ELSE /\ waiting' = [waiting EXCEPT ![KeyOf[c]] = Append(@, c)]
          /\ call' = [call EXCEPT ![c] = "waiting"]
          /\ UNCHANGED <<held, armed>>
  /\ UNCHANGED watching

\* Mutant: a watcher that must wait is not counted.
WhenIdleUncounted(w) ==
  /\ w \in Watchers
  /\ call[w] = "new"
  /\ IF held[KeyOf[w]] = None
     THEN call' = [call EXCEPT ![w] = "resolved"] /\ UNCHANGED waiting
     ELSE /\ waiting' = [waiting EXCEPT ![KeyOf[w]] = Append(@, w)]
          /\ call' = [call EXCEPT ![w] = "waiting"]
  /\ UNCHANGED <<held, armed, watching>>

\* whenIdle(key): let go at once when nobody holds the turn, else a watching place in line.
WhenIdle(w) ==
  /\ w \in Watchers
  /\ call[w] = "new"
  /\ IF held[KeyOf[w]] = None
     THEN /\ call' = [call EXCEPT ![w] = "resolved"]
          /\ UNCHANGED <<waiting, watching>>
     ELSE /\ waiting' = [waiting EXCEPT ![KeyOf[w]] = Append(@, w)]
          /\ watching' = [watching EXCEPT ![KeyOf[w]] = @ + 1]
          /\ call' = [call EXCEPT ![w] = "waiting"]
  /\ UNCHANGED <<held, armed>>

\* release(key): ends whatever turn the key has now; ignored when there is none.
Release(k) ==
  IF held[k] = None THEN UNCHANGED queueVars ELSE PassOn(k)

\* The ceiling timer of call c fires: its turn ends if it still has it.
CeilingFires(c) ==
  /\ c \in armed
  /\ held[KeyOf[c]] = c
  /\ PassOn(KeyOf[c])

--------------------------------------------------------------------------------
\* The callers.

\* A start-up whose turn came and that has not reported: pi may still be installing.
Starting == {c \in Takers : call[c] = "resolved" /\ c \notin reported}

\* The start-up is past its install, or has failed, and its caller says so, once.
Report(c) ==
  /\ c \in Starting
  /\ reported' = reported \cup {c}
  /\ Release(KeyOf[c])
  /\ UNCHANGED expired

Ask(c) == Acquire(c) /\ UNCHANGED <<reported, expired>>
Watch(w) == WhenIdle(w) /\ UNCHANGED <<reported, expired>>
Expire(c) == CeilingFires(c) /\ expired' = expired \cup {c} /\ UNCHANGED reported

\* Every call is answered and every start-up has reported: nothing is left to happen.
Done ==
  /\ \A c \in Calls : call[c] = "resolved"
  /\ Starting = {} /\ armed = {}
  /\ UNCHANGED vars

Next ==
  \/ \E c \in Takers : Ask(c) \/ Report(c) \/ Expire(c)
  \/ \E w \in Watchers : Watch(w)
  \/ Done

\* The timer of the runtime fires sooner or later.  Nothing else is fair: a pi may never
\* report, and a caller need not come.
Spec == Init /\ [][Next]_vars /\ \A c \in Takers : WF_vars(Expire(c))

--------------------------------------------------------------------------------
\* Properties.

\* No caller is stranded: as soon as nobody holds a key's turn, nobody is in line for it,
\* a watcher behind a turn-taker included, and the entry is forgotten (passOn's last line).
NobodyWaitsForNobody ==
  \A k \in Keys : held[k] = None => waiting[k] = <<>>

\* Every turn ends without its holder's help, and no timer outlives the turn it was set
\* for: the pending ceiling timers are exactly those of the current holders.
EveryTurnIsTimed == armed = {held[k] : k \in Keys} \ {None}

\* stats() tells the truth: `watching` is the number of watchers in line, whatever order
\* watchers and turn-takers came in and however they were served.
WatchingIsCounted ==
  \A k \in Keys : watching[k] = Cardinality({i \in DOMAIN waiting[k] : waiting[k][i] \in Watchers})

\* No call and no timer is forgotten, and none outlives what it was for.
TurnsGoOn == NobodyWaitsForNobody /\ EveryTurnIsTimed

\* What the queue keeps and reports of itself is so.
QueueIsTrue == TypeOK /\ WatchingIsCounted

StartingFor(k) == {c \in Starting : KeyOf[c] = k}
ExpiredFor(k) == {c \in expired : KeyOf[c] = k}

\* Start-ups of one profile overlap only because of the ceiling: each turn the ceiling
\* ended lets at most one more start-up run beside the others.  It holds although a start-up
\* that lost its turn still releases, when it reports at last, whatever turn is current.
OverlapIsPaidFor ==
  \A k \in Keys : Cardinality(StartingFor(k)) <= 1 + Cardinality(ExpiredFor(k))

\* No start-up and no terminal waits for ever, although a pi may never report
\* (lines 26-28): the ceiling passes every turn on.
EveryCallIsAnswered ==
  \A c \in Calls : call[c] = "waiting" ~> call[c] = "resolved"

\* The queue keeps the promise of StartUpTurns: one turn per profile, handed on in the
\* order of asking, watchers let go no later than the turn becomes free.
Ahead(c) ==
  LET line == waiting[KeyOf[c]] IN
  {d \in Takers : \E i, j \in DOMAIN line : i < j /\ line[i] = d /\ line[j] = c}
Turns == INSTANCE StartUpTurns WITH
  turn <- held,
  line <- [k \in Keys |-> {c \in Takers : call[c] = "waiting" /\ KeyOf[c] = k}],
  ahead <- [c \in Takers |-> Ahead(c)],
  watch <- [k \in Keys |-> {w \in Watchers : call[w] = "waiting" /\ KeyOf[w] = k}],
  asked <- {c \in Calls : call[c] # "new"}
ServesInTurn == Turns!Spec
=============================================================================
