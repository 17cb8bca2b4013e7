--------------------------- MODULE ChatSession_proofs ---------------------------
(***************************************************************************)
(* Proofs about ChatSession for any number of sessions and boots: no pi is  *)
(* left behind but by the one retry, and a session learns of its pi's end.  *)
(*                                                                         *)
(* The invariant says which boot a session waits for and why (Pendings),    *)
(* which pis of a session may run (Left: the one it uses and at most one    *)
(* other, once the retry has run), what a session that takes its pi for     *)
(* dead may rely on (Endings), and that the boot whose turn it is has been  *)
(* made the session's last (Turns).  The queue's own books, and what one    *)
(* hand-over does, are those of Terminals_proofs, of a queue that no        *)
(* terminal waits in.                                                       *)
(***************************************************************************)
EXTENDS ChatSession, FiniteSetTheorems, TLAPS

P == INSTANCE Terminals_proofs WITH
       Keys <- {Profile}, Takers <- Boots, Watchers <- {},
       KeyOf <- [b \in Boots |-> Profile], expired <- {},
       Shells <- {}, Closed <- None, MaxRestarts <- 0,
       open <- FALSE, shown <- None, opening <- FALSE, answers <- <<>>, restarts <- 0,
       progress <- <<>>, handle <- None, running <- {}, ending <- {}, lost <- {}

Holder == held[Profile]

\* TypeOK but for the queue's variables, which are in P!Lines.
Types ==
  /\ booted \in 0..MaxBoots
  /\ sess \in [Boots -> Sessions \cup {None}]
  /\ who \in [Boots -> {"none", "create", "reload", "retry"}]
  /\ pi \in [Boots -> {"none", "up", "dead"}]
  /\ turn \in [Boots -> {"boot", "idle", "busy"}]
  /\ pipe \in [Boots -> Seq({"answer", "agent_start", "agent_settled"})]
  /\ killed \in [Boots -> BOOLEAN] /\ seen \in [Boots -> BOOLEAN] /\ exited \in [Boots -> BOOLEAN]
  /\ life \in [Sessions -> {"none", "creating", "open", "disposed", "failed"}]
  /\ rpc \in [Sessions -> Boots \cup {None}] /\ gen \in [Sessions -> Boots \cup {None}]
  /\ alive \in [Sessions -> BOOLEAN] /\ streaming \in [Sessions -> BOOLEAN]
  /\ saved \in [Sessions -> BOOLEAN]
  /\ reload \in [Sessions -> {"no", "boot", "hydrate"}]
  /\ retry \in [Sessions -> {"no", "pause", "boot", "hydrate"}]
  /\ retried \in [Sessions -> BOOLEAN] /\ late \in [Sessions -> BOOLEAN]

\* What a boot has gone through.
BootBooks ==
  \A b \in Boots :
    /\ b <= booted <=> sess[b] \in Sessions
    /\ b > booted => who[b] = "none" /\ pi[b] = "none" /\ ~exited[b] /\ call[b] = "new"
    /\ b <= booted => who[b] # "none"
    /\ pi[b] = "none" => pipe[b] = <<>> /\ ~seen[b]
    /\ exited[b] => pi[b] # "up"
    /\ pi[b] # "none" \/ exited[b] => call[b] = "resolved"
    /\ seen[b] => b \in reported

\* A boot that awaits its turn: who booted it awaits it, and awaits no other.
Pending(b) == b <= booted /\ pi[b] = "none" /\ ~exited[b]
Pendings ==
  \A b \in Boots : Pending(b) =>
    /\ who[b] = "create" => life[sess[b]] = "creating"
    /\ who[b] = "reload" => reload[sess[b]] = "boot"
    /\ who[b] = "retry" => retry[sess[b]] = "boot"
    /\ \A c \in Boots : Pending(c) /\ sess[c] = sess[b] /\ who[c] = who[b] => c = b

\* A session that was not opened, and what one that was has.
Unopened(s) == life[s] \in {"none", "creating", "failed"}
Lives ==
  \A s \in Sessions :
    /\ Unopened(s) =>
         /\ rpc[s] = None /\ reload[s] = "no" /\ ~retried[s] /\ ~alive[s] /\ ~streaming[s]
         /\ \A b \in Boots : sess[b] = s => who[b] = "create" /\ pi[b] = "none"
    /\ life[s] = "none" => \A b \in Boots : sess[b] # s
    /\ ~Unopened(s) => rpc[s] \in Boots /\ sess[rpc[s]] = s /\ pi[rpc[s]] # "none"
    /\ gen[s] = None => rpc[s] = None
    /\ gen[s] # None => /\ sess[gen[s]] = s
                        /\ gen[s] = rpc[s] \/ (pi[gen[s]] = "none" /\ exited[gen[s]])

\* One retry per session.
Retries ==
  \A s \in Sessions :
    /\ ~retried[s] => retry[s] = "no"
    /\ ~retried[s] \/ retry[s] = "pause" => \A b \in Boots : sess[b] = s => who[b] # "retry"
    /\ \A b, c \in Boots : sess[b] = s /\ who[b] = "retry" /\ sess[c] = s /\ who[c] = "retry" => b = c

\* A session that uses the pi spawned last.
Endings ==
  \A s \in Sessions : gen[s] = rpc[s] /\ rpc[s] # None =>
    /\ ~alive[s] => exited[rpc[s]] \/ killed[rpc[s]]
    /\ alive[s] /\ exited[rpc[s]] => ~seen[rpc[s]] /\ pipe[rpc[s]] = <<>>
    /\ ~late[s] /\ ~alive[s] => ~streaming[s]

\* The pis of s that run and were not killed: x and the one it uses; x alone while the session
\* has no pi it takes for live, is closed, or awaits a reload's boot.  There is an x only after
\* the retry's boot.
Running(s) == {b \in Boots : sess[b] = s /\ pi[b] = "up" /\ ~killed[b]}
RetryRan(s) == \E b \in Boots : sess[b] = s /\ who[b] = "retry" /\ ~Pending(b)
AwaitsReload(s) == \E b \in Boots : Pending(b) /\ sess[b] = s /\ who[b] = "reload"
Left(s, x) ==
  /\ x = None \/ RetryRan(s)
  /\ Running(s) \subseteq {x, rpc[s]}
  /\ ~alive[s] \/ life[s] = "disposed" \/ AwaitsReload(s) => Running(s) \subseteq {x}
Leftovers == \A s \in Sessions : \E x \in Boots \cup {None} : Left(s, x)

\* Whose turn it is: a boot about to spawn, or one that its session spawned last.
Turns ==
  /\ \A b \in Boots : Granted(b) => Holder = b
  /\ Holder # None => Granted(Holder) \/ gen[sess[Holder]] = Holder
  /\ FailureGivesTurnBack

IInv == /\ P!Lines /\ Types /\ BootBooks /\ Pendings /\ Lives /\ Retries
        /\ Endings /\ Leftovers /\ Turns

--------------------------------------------------------------------------------
\* The queue

\* The boots are callers, and the terminals none, as Terminals_proofs takes them to be.
LEMMA BootsAreCallers ==
  /\ Boots \cap {} = {} /\ None \notin P!Calls /\ [b \in Boots |-> Profile] \in [P!Calls -> {Profile}]
  /\ P!IsFiniteSet(Boots)
  /\ {} \cap P!Calls = {} /\ None \notin {} /\ None \notin P!Openings /\ 0 \in Nat
<1>1. [i \in 1..MaxBoots |-> i] \in Seq(Boots) /\ Len([i \in 1..MaxBoots |-> i]) = MaxBoots
  BY SessionsAssumption DEF Boots
<1>2. P!IsFiniteSet(Boots)
  BY <1>1 DEF P!IsFiniteSet, Boots
<1>3. QED
  BY <1>2, SessionsAssumption DEF P!Calls, P!Openings

\* The types of the queue's variables.
LEMMA QueueTypes ==
  ASSUME P!Lines
  PROVE  /\ Q!TypeOK
         /\ held \in [{Profile} -> Boots \cup {None}] /\ Holder \in Boots \cup {None}
         /\ call \in [Boots -> {"new", "waiting", "resolved"}]
         /\ reported \subseteq Boots
         /\ Holder # None => call[Holder] = "resolved" /\ Holder \notin reported
<1>1. P!TypeOK /\ P!HolderIsFresh
  BY DEF P!Lines
<1>2. Q!TypeOK
  BY <1>1 DEF P!TypeOK, Q!TypeOK, P!Calls, Q!Calls
<1>3. QED
  BY <1>1, <1>2 DEF P!TypeOK, P!HolderIsFresh, P!Calls, Holder

\* The turn goes to n, who waited; or to nobody; or it stays where it is.
Hands(n) ==
  /\ n \in Boots \cup {None}
  /\ n # None => call[n] = "waiting" /\ call'[n] = "resolved" /\ Holder' = n
  /\ n = None => Holder' \in {Holder, None}
  /\ \A c \in Boots : c # n => call'[c] = call[c]

\* passOn hands on, and keeps the queue's books.
LEMMA PassOnKeeps ==
  ASSUME P!Lines, Holder # None, Q!PassOn(Profile),
         reported' \subseteq Boots, \A c \in reported' \ reported : call[c] = "resolved"
  PROVE  P!Lines' /\ Holder' # Holder /\ \E n : Hands(n)
<1>1. P!PassOn(Profile)
  BY DEF Q!PassOn, P!PassOn, Q!StopsAt, P!StopsAt, Q!Calls, P!Calls
<1>2. PICK n : P!HandsTo(Profile, n)
  BY <1>1, P!PassOnHands, BootsAreCallers DEF Holder
<1>3. /\ held' = [held EXCEPT ![Profile] = n] /\ armed' = (armed \ {held[Profile]}) \cup ({n} \ {None})
      /\ n \in Boots \cup {None}
      /\ n # None => call[n] = "waiting" /\ call'[n] = "resolved"
      /\ call' \in [Boots -> {"new", "waiting", "resolved"}]
      /\ \A c \in Boots : c # n => call'[c] = call[c]
      /\ \A c \in Boots : call[c] = "resolved" => call'[c] = "resolved"
      /\ waiting' \in [{Profile} -> Seq(Boots)]
      /\ watching' \in [{Profile} -> Int]
      /\ P!InLine' /\ P!OnceInLine'
  BY <1>2 DEF P!HandsTo, P!Calls
<1>4. P!TypeOK /\ P!HolderIsFresh /\ P!HadItsTurn
  BY DEF P!Lines
<1>5. Holder' = n /\ Holder' # Holder
  BY <1>3, QueueTypes DEF Holder
<1>6. P!TypeOK'
  BY <1>3, <1>4, QueueTypes DEF P!TypeOK, P!Calls, Holder
<1>7. P!HadItsTurn'
  BY <1>3, <1>4, QueueTypes DEF P!HadItsTurn, Holder
<1>8. P!HolderIsFresh'
  BY <1>3, <1>4, <1>5, QueueTypes DEF P!HolderIsFresh, P!HadItsTurn, Holder
<1>9. P!Lines'
  BY <1>3, <1>6, <1>7, <1>8 DEF P!Lines
<1>10. Hands(n)
  BY <1>3, <1>5 DEF Hands
<1>11. QED
  BY <1>5, <1>9, <1>10

\* Nothing the queue keeps changes.
LEMMA LinesStay ==
  ASSUME P!Lines, UNCHANGED queueVars
  PROVE  P!Lines' /\ Holder' = Holder /\ Hands(None)
<1>1. P!Lines'
  BY DEF queueVars, P!Lines, P!TypeOK, P!HolderIsFresh, P!InLine, P!OnceInLine, P!HadItsTurn
<1>2. QED
  BY <1>1 DEF queueVars, Hands, Holder

\* A start-up that reports does not hold the turn afterwards; the turn may be another's that it
\* ends.
LEMMA ReleaseKeeps ==
  ASSUME P!Lines, NEW b \in Boots, call[b] = "resolved", ReleaseSpawn(b)
  PROVE  P!Lines' /\ reported' = reported \cup {b} /\ Holder' # b /\ \E n : Hands(n)
<1>1. b # None
  BY SessionsAssumption
<1>2. CASE b \in reported
  <2>1. UNCHANGED queueVars
    BY <1>2 DEF ReleaseSpawn
  <2>2. QED
    BY <1>1, <1>2, <2>1, LinesStay, QueueTypes DEF queueVars
<1>3. CASE b \notin reported
  <2>1. reported' = reported \cup {b} /\ Q!Release(Profile)
    BY <1>3 DEF ReleaseSpawn
  <2>2. P!TypeOK /\ P!InLine /\ P!OnceInLine /\ P!HadItsTurn /\ P!HolderIsFresh
    BY DEF P!Lines
  <2>3. CASE Holder = None
    <3>1. UNCHANGED <<held, waiting, watching, armed, call>>
      BY <2>1, <2>3 DEF Q!Release, Q!queueVars, Holder
    <3>2. P!Lines'
      BY <2>1, <2>2, <2>3, <3>1 DEF P!Lines, P!TypeOK, P!HolderIsFresh, P!InLine, P!OnceInLine, P!HadItsTurn, Holder
    <3>3. Holder' = None /\ Hands(None)
      BY <2>3, <3>1 DEF Hands, Holder
    <3>4. QED
      BY <1>1, <2>1, <3>2, <3>3
  <2>4. CASE Holder # None
    <3>1. Q!PassOn(Profile)
      BY <2>1, <2>4 DEF Q!Release, Holder
    <3>2. reported' \subseteq Boots /\ \A c \in reported' \ reported : call[c] = "resolved"
      BY <2>1, QueueTypes
    <3>3. P!Lines' /\ Holder' # Holder /\ \E n : Hands(n)
      BY <2>4, <3>1, <3>2, PassOnKeeps
    <3>4. Holder' # b
      BY <1>1, <3>3 DEF Hands
    <3>5. QED
      BY <2>1, <3>3, <3>4
  <2>5. QED
    BY <2>3, <2>4
<1>4. QED
  BY <1>2, <1>3

\* The ceiling ends the turn of its holder.
LEMMA ExpireKeeps ==
  ASSUME P!Lines, NEW b \in Boots, Q!CeilingFires(b), UNCHANGED reported
  PROVE  P!Lines' /\ Holder' # Holder /\ \E n : Hands(n)
<1>1. Holder = b /\ Q!PassOn(Profile)
  BY DEF Q!CeilingFires, Holder
<1>2. b # None
  BY SessionsAssumption
<1>3. reported' \subseteq Boots /\ \A c \in reported' \ reported : call[c] = "resolved"
  BY QueueTypes
<1>4. QED
  BY <1>1, <1>2, <1>3, PassOnKeeps

\* A new call has its turn at once, or waits in line.
LEMMA AcquireKeeps ==
  ASSUME P!Lines, NEW b \in Boots, Q!Acquire(b), UNCHANGED reported
  PROVE  /\ P!Lines' /\ call[b] = "new" /\ call' \in [Boots -> {"new", "waiting", "resolved"}]
         /\ \A c \in Boots : c # b => call'[c] = call[c]
         /\ IF Holder = None THEN Holder' = b /\ call'[b] = "resolved"
            ELSE Holder' = Holder /\ call'[b] = "waiting"
<1>1. P!TypeOK /\ P!InLine /\ P!OnceInLine /\ P!HadItsTurn /\ P!HolderIsFresh
  BY DEF P!Lines
<1>2. /\ held \in [{Profile} -> Boots \cup {None}] /\ waiting \in [{Profile} -> Seq(Boots)]
      /\ watching \in [{Profile} -> Int] /\ armed \subseteq Boots /\ reported \subseteq Boots
      /\ call \in [Boots -> {"new", "waiting", "resolved"}]
  BY <1>1 DEF P!TypeOK, P!Calls
<1>3. call[b] = "new" /\ watching' = watching /\ b # None
  BY SessionsAssumption DEF Q!Acquire
<1>4. CASE Holder = None
  <2>1. /\ held' = [held EXCEPT ![Profile] = b] /\ armed' = armed \cup {b}
        /\ call' = [call EXCEPT ![b] = "resolved"] /\ waiting' = waiting
    BY <1>4 DEF Q!Acquire, Holder
  <2>2. P!TypeOK'
    BY <1>2, <1>3, <2>1 DEF P!TypeOK, P!Calls
  <2>3. P!InLine' /\ P!OnceInLine'
    BY <1>1, <1>2, <1>3, <2>1 DEF P!InLine, P!OnceInLine
  <2>4. P!HolderIsFresh' /\ P!HadItsTurn'
    BY <1>1, <1>2, <1>3, <2>1 DEF P!HolderIsFresh, P!HadItsTurn
  <2>5. QED
    BY <1>2, <1>3, <1>4, <2>1, <2>2, <2>3, <2>4 DEF P!Lines, Holder
<1>5. CASE Holder # None
  <2>1. /\ waiting' = [waiting EXCEPT ![Profile] = Append(@, b)] /\ call' = [call EXCEPT ![b] = "waiting"]
        /\ UNCHANGED <<held, armed>>
    BY <1>5 DEF Q!Acquire, Holder
  <2> DEFINE line == waiting[Profile]
  <2>2. /\ line \in Seq(Boots) /\ waiting'[Profile] = Append(line, b) /\ DOMAIN waiting'[Profile] = 1..(Len(line) + 1)
        /\ \A i \in 1..Len(line) : waiting'[Profile][i] = line[i] /\ line[i] \in Boots
        /\ waiting'[Profile][Len(line) + 1] = b /\ Len(line) \in Nat /\ DOMAIN line = 1..Len(line)
    BY <1>2, <2>1
  <2>3. P!TypeOK'
    BY <1>2, <1>3, <2>1 DEF P!TypeOK, P!Calls
  <2>4. \A i \in 1..Len(line) : line[i] # b /\ call[line[i]] = "waiting"
    BY <1>1, <1>3, <2>2 DEF P!InLine
  <2>5. P!InLine'
    BY <1>2, <2>1, <2>2, <2>4 DEF P!InLine
  <2>6. P!OnceInLine'
    BY <1>1, <2>1, <2>2, <2>4 DEF P!OnceInLine
  <2>7. P!HolderIsFresh' /\ P!HadItsTurn'
    BY <1>1, <1>2, <1>3, <2>1 DEF P!HolderIsFresh, P!HadItsTurn
  <2>8. QED
    BY <1>2, <1>3, <1>5, <2>1, <2>3, <2>5, <2>6, <2>7 DEF P!Lines, Holder
<1>6. QED
  BY <1>4, <1>5

--------------------------------------------------------------------------------
\* Boots begin

\* What is known of a boot that is not made yet.
LEMMA NewBoot ==
  ASSUME IInv, NEW b \in Boots, b > booted
  PROVE  /\ b # None /\ sess[b] = None /\ who[b] = "none" /\ pi[b] = "none" /\ ~exited[b] /\ ~seen[b]
         /\ call[b] = "new" /\ pipe[b] = <<>> /\ ~Pending(b)
         /\ \A s \in Sessions : gen[s] # b /\ rpc[s] # b
<1>1. booted \in Nat /\ ~(b <= booted)
  BY SessionsAssumption DEF IInv, Types, Boots
<1>2. b # None /\ sess[b] = None
  BY <1>1, SessionsAssumption DEF IInv, Types, BootBooks
<1>3. who[b] = "none" /\ pi[b] = "none" /\ ~exited[b] /\ ~seen[b] /\ call[b] = "new" /\ pipe[b] = <<>>
  BY DEF IInv, BootBooks
<1>4. \A s \in Sessions : gen[s] # b /\ rpc[s] # b
  BY <1>2, SessionsAssumption DEF IInv, Lives, Types
<1>5. QED
  BY <1>1, <1>2, <1>3, <1>4 DEF Pending

\* bootRpc up to its first await: another boot, that has the turn if nobody had it.
LEMMA StartKeeps ==
  ASSUME IInv, NEW s \in Sessions, NEW cause \in {"create", "reload", "retry"}, Quiet, StartBoot(s, cause),
         NEW b, b = booted + 1,
         UNCHANGED <<pi, pipe, seen, exited, gen>>,
         \A t \in Sessions : life[t] = "disposed" => life'[t] = "disposed"
  PROVE  /\ b \in Boots /\ b > booted /\ booted' = b /\ booted' \in 0..MaxBoots
         /\ sess' = [sess EXCEPT ![b] = s] /\ sess' \in [Boots -> Sessions \cup {None}]
         /\ who' = [who EXCEPT ![b] = cause] /\ who' \in [Boots -> {"none", "create", "reload", "retry"}]
         /\ P!Lines' /\ BootBooks' /\ Turns'
         /\ \A c \in Boots : Pending(c)' <=> Pending(c) \/ c = b
<1>1. Q!Acquire(b) /\ booted' = b /\ sess' = [sess EXCEPT ![b] = s] /\ who' = [who EXCEPT ![b] = cause]
      /\ UNCHANGED reported
  BY DEF StartBoot
<1>2. b \in Boots /\ booted \in Nat /\ b > booted /\ b \in 0..MaxBoots
  BY <1>1, SessionsAssumption DEF Q!Acquire, Boots, IInv, Types
<1>3. /\ sess[b] = None /\ b # None /\ who[b] = "none" /\ pi[b] = "none" /\ ~exited[b] /\ ~seen[b]
      /\ pipe[b] = <<>> /\ \A t \in Sessions : gen[t] # b
  BY <1>2, NewBoot
<1>4. /\ P!Lines' /\ call[b] = "new" /\ \A c \in Boots : c # b => call'[c] = call[c]
      /\ IF Holder = None THEN Holder' = b /\ call'[b] = "resolved" ELSE Holder' = Holder /\ call'[b] = "waiting"
  BY <1>1, <1>2, AcquireKeeps DEF IInv
<1>5. /\ sess' \in [Boots -> Sessions \cup {None}] /\ sess'[b] = s /\ \A c \in Boots : c # b => sess'[c] = sess[c]
      /\ who' \in [Boots -> {"none", "create", "reload", "retry"}] /\ who'[b] = cause
      /\ \A c \in Boots : c # b => who'[c] = who[c]
  BY <1>1, <1>2 DEF IInv, Types
<1>6. \A c \in Boots : c <= booted' <=> c <= booted \/ c = b
  BY <1>1, <1>2 DEF Boots
<1>7. \A c \in Boots : c > booted' => c > booted /\ c # b
  BY <1>1, <1>2 DEF Boots
<1>8. BootBooks'
  <2> SUFFICES ASSUME NEW c \in Boots
               PROVE  /\ c <= booted' <=> sess'[c] \in Sessions
                      /\ c > booted' => who'[c] = "none" /\ pi'[c] = "none" /\ ~exited'[c] /\ call'[c] = "new"
                      /\ c <= booted' => who'[c] # "none"
                      /\ pi'[c] = "none" => pipe'[c] = <<>> /\ ~seen'[c]
                      /\ exited'[c] => pi'[c] # "up"
                      /\ pi'[c] # "none" \/ exited'[c] => call'[c] = "resolved"
                      /\ seen'[c] => c \in reported'
    BY DEF BootBooks
  <2>1. CASE c = b
    BY <1>1, <1>2, <1>3, <1>5, <1>6, <1>7, <2>1
  <2>2. CASE c # b
    BY <1>1, <1>4, <1>5, <1>6, <1>7, <2>2 DEF IInv, BootBooks
  <2>3. QED
    BY <2>1, <2>2
<1>9. \A c \in Boots : Pending(c)' <=> Pending(c) \/ c = b
  BY <1>3, <1>6 DEF Pending
<1>10. \A c \in Boots : c # b => ~Granted(c)'
  BY <1>4, <1>5, <1>6 DEF Quiet, Granted
<1>11. Holder' = b => Granted(b)'
  BY <1>2, <1>3, <1>4, <1>5, <1>6, QueueTypes DEF Granted, IInv
<1>12. Granted(b)' => Holder' = b
  BY <1>4 DEF Granted
<1>13. Turns'
  <2>1. Holder' # None /\ Holder' # b => gen[sess[Holder]] = Holder /\ Holder' = Holder
    BY <1>4, QueueTypes DEF IInv, Turns, Quiet
  <2>2. Holder' # None => Granted(Holder)' \/ gen'[sess'[Holder']] = Holder'
    BY <1>3, <1>5, <1>11, <2>1, QueueTypes DEF IInv
  <2>3. FailureGivesTurnBack'
    <3> SUFFICES ASSUME NEW c \in Boots, held'[Profile] = c, exited'[c] PROVE life'[sess'[c]] = "disposed"
      BY DEF FailureGivesTurnBack
    <3>1. c # b /\ Holder' = c /\ c # None
      BY <1>3, SessionsAssumption DEF Holder
    <3>2. Holder = c
      BY <1>4, <3>1
    <3>3. life[sess[c]] = "disposed" /\ c <= booted
      BY <3>2 DEF IInv, Turns, FailureGivesTurnBack, BootBooks, Holder, Types, Boots
    <3>4. sess[c] \in Sessions
      BY <3>3 DEF IInv, BootBooks
    <3>5. QED
      BY <1>5, <3>1, <3>3, <3>4
  <2>4. QED
    BY <1>10, <1>12, <2>2, <2>3 DEF Turns
<1>14. QED
  BY <1>1, <1>2, <1>4, <1>5, <1>8, <1>9, <1>13

\* What a boot's beginning means for the pis of each session.
LEMMA StartLeaves ==
  ASSUME IInv, NEW s \in Sessions, NEW cause \in {"create", "reload", "retry"}, Quiet, StartBoot(s, cause),
         NEW b, b = booted + 1,
         UNCHANGED <<pi, pipe, seen, exited, gen>>,
         \A c \in Boots : killed[c] => killed'[c],
         \A t \in Sessions : life[t] = "disposed" => life'[t] = "disposed",
         NEW t \in Sessions
  PROVE  /\ Running(t)' \subseteq Running(t)
         /\ RetryRan(t) => RetryRan(t)'
         /\ AwaitsReload(t)' => AwaitsReload(t) \/ (t = s /\ cause = "reload")
<1>1. /\ b \in Boots /\ b > booted
      /\ sess'[b] = s /\ who'[b] = cause
      /\ \A c \in Boots : c # b => sess'[c] = sess[c] /\ who'[c] = who[c]
      /\ \A c \in Boots : Pending(c)' <=> Pending(c) \/ c = b
  BY StartKeeps DEF IInv, Types
<1>2. sess[b] = None /\ pi[b] = "none" /\ ~Pending(b) /\ who[b] = "none"
  BY <1>1, NewBoot
<1>3. Running(t)' \subseteq Running(t)
  BY <1>1, <1>2 DEF Running
<1>4. RetryRan(t) => RetryRan(t)'
  BY <1>1, <1>2, SessionsAssumption DEF RetryRan
<1>5. AwaitsReload(t)' => AwaitsReload(t) \/ (t = s /\ cause = "reload")
  BY <1>1 DEF AwaitsReload
<1>6. QED
  BY <1>3, <1>4, <1>5

LEMMA CreateKeeps ==
  ASSUME IInv, NEW s \in Sessions, Create(s)
  PROVE  IInv'
<1>1. PICK b : b = booted + 1
  OBVIOUS
<1>2. /\ Quiet /\ life[s] = "none" /\ life' = [life EXCEPT ![s] = "creating"] /\ StartBoot(s, "create")
      /\ UNCHANGED <<pi, turn, pipe, killed, seen, exited, reload, retry, retried, rpc, gen, alive, streaming, saved, late>>
  BY DEF Create, piVars, restartVars, clientVars
<1>3. /\ life' \in [Sessions -> {"none", "creating", "open", "disposed", "failed"}]
      /\ life'[s] = "creating" /\ \A t \in Sessions : t # s => life'[t] = life[t]
  BY <1>2 DEF IInv, Types
<1>4. /\ b \in Boots /\ b > booted /\ booted' = b /\ booted' \in 0..MaxBoots
      /\ sess' = [sess EXCEPT ![b] = s] /\ sess' \in [Boots -> Sessions \cup {None}]
      /\ who' = [who EXCEPT ![b] = "create"] /\ who' \in [Boots -> {"none", "create", "reload", "retry"}]
      /\ P!Lines' /\ BootBooks' /\ Turns'
      /\ \A c \in Boots : Pending(c)' <=> Pending(c) \/ c = b
  BY <1>1, <1>2, <1>3, StartKeeps
<1>5. sess[b] = None /\ pi[b] = "none" /\ ~Pending(b) /\ who[b] = "none" /\ b # None
  BY <1>4, NewBoot
<1>6. /\ sess'[b] = s /\ who'[b] = "create"
      /\ \A c \in Boots : c # b => sess'[c] = sess[c] /\ who'[c] = who[c]
      /\ \A c \in Boots : sess[c] # s
  BY <1>2, <1>4 DEF IInv, Types, Lives
<1>7. Types'
  BY <1>2, <1>3, <1>4 DEF IInv, Types
<1>8. Pendings'
  <2> SUFFICES ASSUME NEW c \in Boots, Pending(c)'
               PROVE  /\ who'[c] = "create" => life'[sess'[c]] = "creating"
                      /\ who'[c] = "reload" => reload'[sess'[c]] = "boot"
                      /\ who'[c] = "retry" => retry'[sess'[c]] = "boot"
                      /\ \A d \in Boots : Pending(d)' /\ sess'[d] = sess'[c] /\ who'[d] = who'[c] => d = c
    BY DEF Pendings
  <2>1. CASE c = b
    BY <1>3, <1>6, <2>1
  <2>2. CASE c # b
    <3>1. Pending(c) /\ sess'[c] = sess[c] /\ sess[c] # s /\ who'[c] = who[c] /\ sess[c] \in Sessions
      BY <1>4, <1>6, <2>2 DEF Pending, IInv, BootBooks
    <3>2. /\ who[c] = "create" => life[sess[c]] = "creating"
          /\ who[c] = "reload" => reload[sess[c]] = "boot"
          /\ who[c] = "retry" => retry[sess[c]] = "boot"
          /\ \A d \in Boots : Pending(d) /\ sess[d] = sess[c] /\ who[d] = who[c] => d = c
      BY <3>1 DEF IInv, Pendings
    <3>3. QED
      BY <1>2, <1>3, <1>4, <1>6, <3>1, <3>2
  <2>3. QED
    BY <2>1, <2>2
<1>9. Lives'
  <2> SUFFICES ASSUME NEW t \in Sessions
               PROVE  /\ Unopened(t)' =>
                           /\ rpc'[t] = None /\ reload'[t] = "no" /\ ~retried'[t] /\ ~alive'[t] /\ ~streaming'[t]
                           /\ \A c \in Boots : sess'[c] = t => who'[c] = "create" /\ pi'[c] = "none"
                      /\ life'[t] = "none" => \A c \in Boots : sess'[c] # t
                      /\ ~Unopened(t)' => rpc'[t] \in Boots /\ sess'[rpc'[t]] = t /\ pi'[rpc'[t]] # "none"
                      /\ gen'[t] = None => rpc'[t] = None
                      /\ gen'[t] # None => /\ sess'[gen'[t]] = t
                                           /\ gen'[t] = rpc'[t] \/ (pi'[gen'[t]] = "none" /\ exited'[gen'[t]])
    BY DEF Lives
  <2>1. CASE t = s
    <3>1. rpc[s] = None /\ reload[s] = "no" /\ ~retried[s] /\ ~alive[s] /\ ~streaming[s]
      BY <1>2 DEF IInv, Lives, Unopened
    <3>2. gen[s] = None
      BY <1>6 DEF IInv, Lives, Types
    <3>3. QED
      BY <1>2, <1>3, <1>5, <1>6, <2>1, <3>1, <3>2 DEF Unopened
  <2>2. CASE t # s
    BY <1>2, <1>3, <1>5, <1>6, <2>2, SessionsAssumption DEF IInv, Lives, Unopened, Types
  <2>3. QED
    BY <2>1, <2>2
<1>10. Retries'
  BY <1>2, <1>5, <1>6 DEF IInv, Retries
<1>11. Endings'
  BY <1>2 DEF IInv, Endings
<1>12. Leftovers'
  <2> SUFFICES ASSUME NEW t \in Sessions PROVE \E x \in Boots \cup {None} : Left(t, x)'
    BY DEF Leftovers
  <2>1. PICK x \in Boots \cup {None} : Left(t, x)
    BY DEF IInv, Leftovers
  <2>2. /\ Running(t)' \subseteq Running(t)
        /\ RetryRan(t) => RetryRan(t)'
        /\ AwaitsReload(t)' => AwaitsReload(t)
    BY <1>1, <1>2, <1>3, StartLeaves
  <2>3. Left(t, x)'
    BY <1>2, <1>3, <2>1, <2>2 DEF Left
  <2>4. QED
    BY <2>3
<1>13. QED
  BY <1>4, <1>7, <1>8, <1>9, <1>10, <1>11, <1>12 DEF IInv

\* reloadSession kills the pi the session uses, unless it takes it for dead.
LEMMA ReloadKeeps ==
  ASSUME IInv, NEW s \in Sessions, Reload(s)
  PROVE  IInv'
<1>1. PICK b : b = booted + 1
  OBVIOUS
<1>2. /\ Quiet /\ life[s] = "open" /\ reload[s] = "no" /\ ~streaming[s] /\ StartBoot(s, "reload")
      /\ killed' = [c \in Boots |-> killed[c] \/ (alive[s] /\ c = rpc[s])]
      /\ alive' = [alive EXCEPT ![s] = FALSE] /\ reload' = [reload EXCEPT ![s] = "boot"]
      /\ UNCHANGED <<pi, turn, pipe, seen, exited, rpc, gen, retry, retried, life, streaming, saved, late>>
  BY DEF Reload
<1>3. /\ killed' \in [Boots -> BOOLEAN]
      /\ \A c \in Boots : killed'[c] <=> killed[c] \/ (alive[s] /\ c = rpc[s])
      /\ alive' \in [Sessions -> BOOLEAN] /\ ~alive'[s] /\ \A t \in Sessions : t # s => alive'[t] = alive[t]
      /\ reload' \in [Sessions -> {"no", "boot", "hydrate"}] /\ reload'[s] = "boot"
      /\ \A t \in Sessions : t # s => reload'[t] = reload[t]
  BY <1>2 DEF IInv, Types
<1>4. /\ b \in Boots /\ b > booted /\ booted' = b /\ booted' \in 0..MaxBoots
      /\ sess' = [sess EXCEPT ![b] = s] /\ sess' \in [Boots -> Sessions \cup {None}]
      /\ who' = [who EXCEPT ![b] = "reload"] /\ who' \in [Boots -> {"none", "create", "reload", "retry"}]
      /\ P!Lines' /\ BootBooks' /\ Turns'
      /\ \A c \in Boots : Pending(c)' <=> Pending(c) \/ c = b
  BY <1>1, <1>2, StartKeeps
<1>5. sess[b] = None /\ pi[b] = "none" /\ ~Pending(b) /\ who[b] = "none" /\ b # None
  BY <1>4, NewBoot
<1>6. /\ sess'[b] = s /\ who'[b] = "reload"
      /\ \A c \in Boots : c # b => sess'[c] = sess[c] /\ who'[c] = who[c]
      /\ \A c \in Boots : Pending(c) /\ sess[c] = s => who[c] # "reload"
  BY <1>2, <1>4 DEF IInv, Types, Pendings
<1>7. /\ ~Unopened(s) /\ rpc[s] \in Boots /\ sess[rpc[s]] = s /\ gen[s] # None /\ rpc[s] # None
  BY <1>2, SessionsAssumption DEF IInv, Lives, Unopened
<1>8. Types'
  BY <1>2, <1>3, <1>4 DEF IInv, Types
<1>9. Pendings'
  <2> SUFFICES ASSUME NEW c \in Boots, Pending(c)'
               PROVE  /\ who'[c] = "create" => life'[sess'[c]] = "creating"
                      /\ who'[c] = "reload" => reload'[sess'[c]] = "boot"
                      /\ who'[c] = "retry" => retry'[sess'[c]] = "boot"
                      /\ \A d \in Boots : Pending(d)' /\ sess'[d] = sess'[c] /\ who'[d] = who'[c] => d = c
    BY DEF Pendings
  <2>1. CASE c = b
    BY <1>3, <1>4, <1>6, <2>1
  <2>2. CASE c # b
    <3>1. Pending(c) /\ sess'[c] = sess[c] /\ who'[c] = who[c] /\ sess[c] \in Sessions
      BY <1>4, <1>6, <2>2 DEF Pending, IInv, BootBooks
    <3>2. who[c] = "reload" => sess[c] # s
      BY <1>6, <3>1
    <3>3. QED
      BY <1>2, <1>3, <1>4, <1>6, <3>1, <3>2 DEF IInv, Pendings
  <2>3. QED
    BY <2>1, <2>2
<1>10. Lives'
  <2> SUFFICES ASSUME NEW t \in Sessions
               PROVE  /\ Unopened(t)' =>
                           /\ rpc'[t] = None /\ reload'[t] = "no" /\ ~retried'[t] /\ ~alive'[t] /\ ~streaming'[t]
                           /\ \A c \in Boots : sess'[c] = t => who'[c] = "create" /\ pi'[c] = "none"
                      /\ life'[t] = "none" => \A c \in Boots : sess'[c] # t
                      /\ ~Unopened(t)' => rpc'[t] \in Boots /\ sess'[rpc'[t]] = t /\ pi'[rpc'[t]] # "none"
                      /\ gen'[t] = None => rpc'[t] = None
                      /\ gen'[t] # None => /\ sess'[gen'[t]] = t
                                           /\ gen'[t] = rpc'[t] \/ (pi'[gen'[t]] = "none" /\ exited'[gen'[t]])
    BY DEF Lives
  <2>1. CASE t = s
    BY <1>2, <1>5, <1>6, <1>7, <2>1, SessionsAssumption DEF IInv, Lives, Unopened, Types
  <2>2. CASE t # s
    BY <1>2, <1>3, <1>5, <1>6, <2>2, SessionsAssumption DEF IInv, Lives, Unopened, Types
  <2>3. QED
    BY <2>1, <2>2
<1>11. Retries'
  BY <1>2, <1>5, <1>6 DEF IInv, Retries
<1>12. Endings'
  <2> SUFFICES ASSUME NEW t \in Sessions, gen[t] = rpc[t], rpc[t] # None
               PROVE  /\ ~alive'[t] => exited[rpc[t]] \/ killed'[rpc[t]]
                      /\ alive'[t] /\ exited[rpc[t]] => ~seen[rpc[t]] /\ pipe[rpc[t]] = <<>>
                      /\ ~late[t] /\ ~alive'[t] => ~streaming[t]
    BY <1>2 DEF Endings
  <2>1. rpc[t] \in Boots
    BY DEF IInv, Types
  <2>2. CASE t = s
    BY <1>2, <1>3, <2>1, <2>2 DEF IInv, Endings
  <2>3. CASE t # s
    BY <1>3, <2>1, <2>3 DEF IInv, Endings
  <2>4. QED
    BY <2>2, <2>3
<1>13. Leftovers'
  <2> SUFFICES ASSUME NEW t \in Sessions PROVE \E x \in Boots \cup {None} : Left(t, x)'
    BY DEF Leftovers
  <2>1. PICK x \in Boots \cup {None} : Left(t, x)
    BY DEF IInv, Leftovers
  <2>2. /\ Running(t)' \subseteq Running(t)
        /\ RetryRan(t) => RetryRan(t)'
        /\ AwaitsReload(t)' => AwaitsReload(t) \/ t = s
    BY <1>1, <1>2, <1>3, StartLeaves
  <2>3. CASE t = s
    <3>1. Running(s)' \subseteq {x}
      <4>1. CASE alive[s]
        <5>1. rpc[s] \notin Running(s)'
          BY <1>3, <1>7, <4>1 DEF Running
        <5>2. QED
          BY <2>1, <2>2, <2>3, <5>1 DEF Left
      <4>2. CASE ~alive[s]
        BY <2>1, <2>2, <2>3, <4>2 DEF Left
      <4>3. QED
        BY <4>1, <4>2
    <3>2. QED
      BY <2>1, <2>2, <2>3, <3>1 DEF Left
  <2>4. CASE t # s
    <3>1. Left(t, x)'
      BY <1>2, <1>3, <2>1, <2>2, <2>4 DEF Left
    <3>2. QED
      BY <3>1
  <2>5. QED
    BY <2>3, <2>4
<1>14. QED
  BY <1>4, <1>8, <1>9, <1>10, <1>11, <1>12, <1>13 DEF IInv

\* The retry boots, unless its session was closed meanwhile.
LEMMA RetryBootsKeeps ==
  ASSUME IInv, NEW s \in Sessions, RetryBoots(s), life[s] # "disposed"
  PROVE  IInv'
<1>1. PICK b : b = booted + 1
  OBVIOUS
<1>2. /\ Quiet /\ retry[s] = "pause" /\ retry' = [retry EXCEPT ![s] = "boot"] /\ StartBoot(s, "retry")
      /\ UNCHANGED <<pi, turn, pipe, killed, seen, exited, reload, retried, rpc, gen, alive, life, streaming, saved, late>>
  BY DEF RetryBoots, piVars, clientVars
<1>3. /\ retry' \in [Sessions -> {"no", "pause", "boot", "hydrate"}] /\ retry'[s] = "boot"
      /\ \A t \in Sessions : t # s => retry'[t] = retry[t]
  BY <1>2 DEF IInv, Types
<1>4. /\ b \in Boots /\ b > booted /\ booted' = b /\ booted' \in 0..MaxBoots
      /\ sess' = [sess EXCEPT ![b] = s] /\ sess' \in [Boots -> Sessions \cup {None}]
      /\ who' = [who EXCEPT ![b] = "retry"] /\ who' \in [Boots -> {"none", "create", "reload", "retry"}]
      /\ P!Lines' /\ BootBooks' /\ Turns'
      /\ \A c \in Boots : Pending(c)' <=> Pending(c) \/ c = b
  BY <1>1, <1>2, StartKeeps
<1>5. sess[b] = None /\ pi[b] = "none" /\ ~Pending(b) /\ who[b] = "none" /\ b # None
  BY <1>4, NewBoot
<1>6. /\ sess'[b] = s /\ who'[b] = "retry" /\ retried[s]
      /\ \A c \in Boots : c # b => sess'[c] = sess[c] /\ who'[c] = who[c]
      /\ \A c \in Boots : sess[c] = s => who[c] # "retry"
  BY <1>2, <1>4 DEF IInv, Types, Retries
<1>7. ~Unopened(s)
  BY <1>6 DEF IInv, Lives
<1>8. Types'
  BY <1>2, <1>3, <1>4 DEF IInv, Types
<1>9. Pendings'
  <2> SUFFICES ASSUME NEW c \in Boots, Pending(c)'
               PROVE  /\ who'[c] = "create" => life'[sess'[c]] = "creating"
                      /\ who'[c] = "reload" => reload'[sess'[c]] = "boot"
                      /\ who'[c] = "retry" => retry'[sess'[c]] = "boot"
                      /\ \A d \in Boots : Pending(d)' /\ sess'[d] = sess'[c] /\ who'[d] = who'[c] => d = c
    BY DEF Pendings
  <2>1. CASE c = b
    BY <1>3, <1>4, <1>6, <2>1
  <2>2. CASE c # b
    <3>1. Pending(c) /\ sess'[c] = sess[c] /\ who'[c] = who[c] /\ sess[c] \in Sessions
      BY <1>4, <1>6, <2>2 DEF Pending, IInv, BootBooks
    <3>2. who[c] = "retry" => sess[c] # s
      BY <1>6
    <3>3. /\ who[c] = "create" => life[sess[c]] = "creating"
          /\ who[c] = "reload" => reload[sess[c]] = "boot"
          /\ who[c] = "retry" => retry[sess[c]] = "boot"
          /\ \A d \in Boots : Pending(d) /\ sess[d] = sess[c] /\ who[d] = who[c] => d = c
      BY <3>1 DEF IInv, Pendings
    <3>4. QED
      BY <1>2, <1>3, <1>4, <1>6, <3>1, <3>2, <3>3
  <2>3. QED
    BY <2>1, <2>2
<1>10. Lives'
  <2> SUFFICES ASSUME NEW t \in Sessions
               PROVE  /\ Unopened(t)' =>
                           /\ rpc'[t] = None /\ reload'[t] = "no" /\ ~retried'[t] /\ ~alive'[t] /\ ~streaming'[t]
                           /\ \A c \in Boots : sess'[c] = t => who'[c] = "create" /\ pi'[c] = "none"
                      /\ life'[t] = "none" => \A c \in Boots : sess'[c] # t
                      /\ ~Unopened(t)' => rpc'[t] \in Boots /\ sess'[rpc'[t]] = t /\ pi'[rpc'[t]] # "none"
                      /\ gen'[t] = None => rpc'[t] = None
                      /\ gen'[t] # None => /\ sess'[gen'[t]] = t
                                           /\ gen'[t] = rpc'[t] \/ (pi'[gen'[t]] = "none" /\ exited'[gen'[t]])
    BY DEF Lives
  <2>1. CASE t = s
    BY <1>2, <1>5, <1>6, <1>7, <2>1, SessionsAssumption DEF IInv, Lives, Unopened, Types
  <2>2. CASE t # s
    BY <1>2, <1>5, <1>6, <2>2, SessionsAssumption DEF IInv, Lives, Unopened, Types
  <2>3. QED
    BY <2>1, <2>2
<1>11. Retries'
  <2> SUFFICES ASSUME NEW t \in Sessions
               PROVE  /\ ~retried'[t] => retry'[t] = "no"
                      /\ ~retried'[t] \/ retry'[t] = "pause" => \A c \in Boots : sess'[c] = t => who'[c] # "retry"
                      /\ \A c, d \in Boots : sess'[c] = t /\ who'[c] = "retry" /\ sess'[d] = t /\ who'[d] = "retry" => c = d
    BY DEF Retries
  <2>1. CASE t = s
    BY <1>2, <1>3, <1>6, <2>1
  <2>2. CASE t # s
    BY <1>2, <1>3, <1>6, <2>2 DEF IInv, Retries
  <2>3. QED
    BY <2>1, <2>2
<1>12. Endings'
  BY <1>2 DEF IInv, Endings
<1>13. Leftovers'
  <2> SUFFICES ASSUME NEW t \in Sessions PROVE \E x \in Boots \cup {None} : Left(t, x)'
    BY DEF Leftovers
  <2>1. PICK x \in Boots \cup {None} : Left(t, x)
    BY DEF IInv, Leftovers
  <2>2. /\ Running(t)' \subseteq Running(t)
        /\ RetryRan(t) => RetryRan(t)'
        /\ AwaitsReload(t)' => AwaitsReload(t)
    BY <1>1, <1>2, StartLeaves
  <2>3. Left(t, x)'
    BY <1>2, <2>1, <2>2 DEF Left
  <2>4. QED
    BY <2>3
<1>14. QED
  BY <1>4, <1>8, <1>9, <1>10, <1>11, <1>12, <1>13 DEF IInv

--------------------------------------------------------------------------------
\* What a step leaves of each part

\* A boot that goes on waiting is still awaited.
LEMMA PendingsKeep ==
  ASSUME IInv, UNCHANGED bootVars,
         \A c \in Boots : Pending(c)' =>
           /\ Pending(c)
           /\ who[c] = "create" => life'[sess[c]] = life[sess[c]]
           /\ who[c] = "reload" => reload'[sess[c]] = reload[sess[c]]
           /\ who[c] = "retry" => retry'[sess[c]] = retry[sess[c]]
  PROVE  Pendings'
BY DEF IInv, Pendings, bootVars

\* The pis left to a session whose client stays: fewer run, and if it takes them for dead or is
\* closed, the one it uses does not.
LEMMA LeftKeeps ==
  ASSUME IInv, UNCHANGED bootVars, \A c \in Boots : Pending(c)' => Pending(c),
         NEW t \in Sessions, Running(t)' \subseteq Running(t), rpc'[t] = rpc[t],
         ~alive'[t] => ~alive[t] \/ rpc[t] \notin Running(t)',
         life'[t] = "disposed" => life[t] = "disposed" \/ rpc[t] \notin Running(t)'
  PROVE  \E x \in Boots \cup {None} : Left(t, x)'
<1>1. PICK x \in Boots \cup {None} : Left(t, x)
  BY DEF IInv, Leftovers
<1>2. RetryRan(t) => RetryRan(t)'
  BY DEF RetryRan, bootVars
<1>3. AwaitsReload(t)' => AwaitsReload(t)
  BY DEF AwaitsReload, bootVars
<1>4. ~alive'[t] \/ life'[t] = "disposed" \/ AwaitsReload(t)' => Running(t)' \subseteq {x}
  BY <1>1, <1>3 DEF Left
<1>5. Left(t, x)'
  BY <1>1, <1>2, <1>4 DEF Left
<1>6. QED
  BY <1>5

\* The books of the boots, but for b, that had its turn.
LEMMA BooksKeep ==
  ASSUME IInv, UNCHANGED bootVars, NEW b \in Boots, b <= booted, call[b] = "resolved",
         \E n : Hands(n), reported \subseteq reported',
         \A c \in Boots : c # b => pi'[c] = pi[c] /\ pipe'[c] = pipe[c] /\ (seen'[c] <=> seen[c])
                                   /\ (exited'[c] <=> exited[c]),
         pi'[b] = "none" => pipe'[b] = <<>> /\ ~seen'[b],
         exited'[b] => pi'[b] # "up",
         seen'[b] => b \in reported'
  PROVE  BootBooks'
<1>1. PICK n : Hands(n)
  OBVIOUS
<1>2. \A c \in Boots : /\ call[c] = "resolved" => call'[c] = "resolved"
                       /\ call[c] = "new" => call'[c] = "new"
  BY <1>1, SessionsAssumption DEF Hands
<1>3. ~(b > booted)
  BY DEF IInv, Types, Boots
<1>4. SUFFICES ASSUME NEW c \in Boots
               PROVE  /\ c <= booted' <=> sess'[c] \in Sessions
                      /\ c > booted' => who'[c] = "none" /\ pi'[c] = "none" /\ ~exited'[c] /\ call'[c] = "new"
                      /\ c <= booted' => who'[c] # "none"
                      /\ pi'[c] = "none" => pipe'[c] = <<>> /\ ~seen'[c]
                      /\ exited'[c] => pi'[c] # "up"
                      /\ pi'[c] # "none" \/ exited'[c] => call'[c] = "resolved"
                      /\ seen'[c] => c \in reported'
  BY DEF BootBooks
<1>5. CASE c = b
  BY <1>2, <1>3, <1>5 DEF IInv, BootBooks, bootVars
<1>6. CASE c # b
  BY <1>2, <1>6 DEF IInv, BootBooks, bootVars
<1>7. QED
  BY <1>5, <1>6

\* Whose turn it is, after a step of b that spawned it, or that ends its start-up or its turn.
LEMMA TurnsKeep ==
  ASSUME IInv, UNCHANGED bootVars, NEW b \in Boots, call[b] = "resolved",
         \A c \in Boots : c # b => ~Granted(c), ~Granted(b)',
         \A c \in Boots : c # b => pi'[c] = pi[c] /\ (exited'[c] <=> exited[c]),
         \E n : Hands(n),
         \/ gen' = gen
         \/ Holder = b /\ b <= booted /\ gen' = [gen EXCEPT ![sess[b]] = b],
         Holder' = b => gen'[sess[b]] = b /\ (exited'[b] => life'[sess[b]] = "disposed"),
         \A t \in Sessions : life[t] = "disposed" => life'[t] = "disposed"
  PROVE  Turns'
<1>1. PICK n : Hands(n)
  OBVIOUS
<1>2. n # b /\ b # None /\ Holder \in Boots \cup {None}
  BY <1>1, QueueTypes, SessionsAssumption DEF Hands, IInv
<1>3. \A c \in Boots : c # b /\ c <= booted => (gen'[sess[c]] = c => gen[sess[c]] = c)
  BY SessionsAssumption DEF IInv, Types, BootBooks
<1>4. \A c \in Boots : Granted(c)' => c = n /\ c # b
  <2> SUFFICES ASSUME NEW c \in Boots, Granted(c)' PROVE c = n /\ c # b
    OBVIOUS
  <2>1. c # b
    OBVIOUS
  <2>2. ~Granted(c)
    BY <2>1
  <2>3. c <= booted /\ pi[c] = "none" /\ ~exited[c] /\ call'[c] = "resolved" /\ gen'[sess[c]] # c
    BY <2>1 DEF Granted, bootVars
  <2>4. c # n => gen[sess[c]] = c
    BY <1>1, <2>2, <2>3 DEF Granted, Hands
  <2>5. CASE gen' = gen
    BY <2>1, <2>3, <2>4, <2>5
  <2>6. CASE Holder = b /\ b <= booted /\ gen' = [gen EXCEPT ![sess[b]] = b]
    <3>1. sess[c] \in Sessions
      BY <2>3 DEF IInv, BootBooks
    <3>2. gen[sess[c]] = c => (rpc[sess[c]] = c /\ rpc[sess[c]] # None /\ pi[c] # "none") \/ exited[c]
      BY <3>1, SessionsAssumption DEF IInv, Lives
    <3>3. QED
      BY <2>1, <2>3, <2>4, <3>2
  <2>7. QED
    BY <2>5, <2>6
<1>5. n # None => Granted(n)' /\ ~exited'[n]
  <2> HAVE n # None
  <2>1. n \in Boots /\ call[n] = "waiting" /\ call'[n] = "resolved"
    BY <1>1 DEF Hands
  <2>2. n <= booted /\ pi[n] = "none" /\ ~exited[n]
    BY <2>1 DEF IInv, BootBooks, Types, Boots
  <2>3. sess[n] \in Sessions
    BY <2>1, <2>2 DEF IInv, BootBooks
  <2>4. gen[sess[n]] # n
    BY <2>1, <2>2, <2>3, SessionsAssumption DEF IInv, Lives
  <2>5. gen'[sess[n]] # n
    BY <1>2, <1>3, <2>1, <2>2, <2>4
  <2>6. QED
    BY <1>2, <2>1, <2>2, <2>5 DEF Granted, bootVars
<1>6. n = None => Holder' \in {Holder, None}
  BY <1>1 DEF Hands
<1>7. n # None => Holder' = n
  BY <1>1 DEF Hands
<1>8. \A c \in Boots : Granted(c)' => Holder' = c
  BY <1>4, <1>7, SessionsAssumption
<1>9. Holder' # None => Granted(Holder)' \/ gen'[sess'[Holder']] = Holder'
  <2>1. CASE n # None
    BY <1>5, <1>7, <2>1
  <2>2. CASE n = None /\ Holder' = Holder /\ Holder # None
    <3>1. Holder = b => gen'[sess'[Holder']] = Holder'
      BY <2>2 DEF bootVars
    <3>2. Holder # b => gen' = gen /\ gen[sess[Holder]] = Holder
      BY <1>2, <2>2 DEF IInv, Turns
    <3>3. QED
      BY <2>2, <3>1, <3>2 DEF bootVars
  <2>3. QED
    BY <1>6, <2>1, <2>2
<1>10. FailureGivesTurnBack'
  <2> SUFFICES ASSUME NEW c \in Boots, held'[Profile] = c, exited'[c] PROVE life'[sess'[c]] = "disposed"
    BY DEF FailureGivesTurnBack
  <2>1. Holder' = c /\ c # None
    BY SessionsAssumption DEF Holder
  <2>2. CASE c = b
    BY <2>1, <2>2 DEF bootVars
  <2>3. CASE c # b
    <3>1. n = None /\ Holder = c
      BY <1>5, <1>6, <1>7, <2>1
    <3>2. exited[c] /\ life[sess[c]] = "disposed" /\ c <= booted
      BY <2>3, <3>1 DEF IInv, Turns, FailureGivesTurnBack, Holder, BootBooks, Types, Boots
    <3>3. sess[c] \in Sessions
      BY <3>2 DEF IInv, BootBooks
    <3>4. QED
      BY <3>2, <3>3 DEF bootVars
  <2>4. QED
    BY <2>2, <2>3
<1>11. QED
  BY <1>8, <1>9, <1>10 DEF Turns

\* A step that touches neither the queue nor the boots' beginnings and ends.
LEMMA QuietKeeps ==
  ASSUME IInv, UNCHANGED <<queueVars, bootVars, gen, seen, exited>>,
         \A c \in Boots : pi'[c] = pi[c] \/ (pi[c] = "up" /\ pi'[c] = "dead"),
         \A c \in Boots : pi[c] # "up" => pipe'[c] = pipe[c],
         \A t \in Sessions : life[t] = "disposed" => life'[t] = "disposed"
  PROVE  P!Lines' /\ BootBooks' /\ Turns' /\ \A c \in Boots : Pending(c)' <=> Pending(c)
<1>1. P!Lines' /\ Holder' = Holder
  BY LinesStay DEF IInv
<1>2. \A c \in Boots : pi'[c] = "none" <=> pi[c] = "none"
  OBVIOUS
<1>3. BootBooks'
  BY <1>2 DEF IInv, BootBooks, bootVars, queueVars
<1>4. \A c \in Boots : Granted(c)' <=> Granted(c)
  BY <1>2 DEF Granted, bootVars, queueVars
<1>5. \A c \in Boots : Pending(c)' <=> Pending(c)
  BY <1>2 DEF Pending, bootVars
<1>6. FailureGivesTurnBack'
  <2> SUFFICES ASSUME NEW c \in Boots, held'[Profile] = c, exited'[c] PROVE life'[sess'[c]] = "disposed"
    BY DEF FailureGivesTurnBack
  <2>1. exited[c] /\ life[sess[c]] = "disposed" /\ c <= booted
    BY DEF queueVars, IInv, Turns, FailureGivesTurnBack, BootBooks, Types, Boots
  <2>2. sess[c] \in Sessions
    BY <2>1 DEF IInv, BootBooks
  <2>3. QED
    BY <2>1, <2>2 DEF bootVars
<1>7. Turns'
  <2>1. Holder' # None => Granted(Holder)' \/ gen'[sess'[Holder']] = Holder'
    BY <1>1, <1>4, QueueTypes DEF IInv, Turns, bootVars
  <2>2. QED
    BY <1>1, <1>4, <1>6, <2>1 DEF IInv, Turns
<1>8. QED
  BY <1>1, <1>3, <1>5, <1>7

\* The pause of a retry is over, and its session was closed.
LEMMA RetryGivesUpKeeps ==
  ASSUME IInv, NEW s \in Sessions, RetryBoots(s), life[s] = "disposed"
  PROVE  IInv'
<1>1. /\ retry[s] = "pause" /\ retry' = [retry EXCEPT ![s] = "no"]
      /\ UNCHANGED <<queueVars, bootVars, pi, turn, pipe, killed, seen, exited, rpc, gen, alive, life,
                     reload, retried, streaming, saved, late>>
  BY DEF RetryBoots, piVars, clientVars
<1>2. /\ retry' \in [Sessions -> {"no", "pause", "boot", "hydrate"}] /\ retry'[s] = "no"
      /\ \A t \in Sessions : t # s => retry'[t] = retry[t]
  BY <1>1 DEF IInv, Types
<1>3. P!Lines' /\ BootBooks' /\ Turns' /\ \A c \in Boots : Pending(c)' <=> Pending(c)
  BY <1>1, QuietKeeps
<1>4. Types'
  BY <1>1, <1>2 DEF IInv, Types, bootVars
<1>5. Pendings'
  <2>1. \A c \in Boots : Pending(c) /\ who[c] = "retry" => sess[c] # s /\ sess[c] \in Sessions
    BY <1>1 DEF IInv, Pendings, Pending, BootBooks
  <2>2. QED
    BY <1>1, <1>2, <1>3, <2>1, PendingsKeep
<1>6. Lives' /\ Endings'
  BY <1>1 DEF IInv, Lives, Unopened, Endings, bootVars
<1>7. Retries'
  BY <1>1, <1>2 DEF IInv, Retries, bootVars
<1>8. Leftovers'
  BY <1>1, <1>3, LeftKeeps DEF Leftovers, Running, bootVars
<1>9. QED
  BY <1>3, <1>4, <1>5, <1>6, <1>7, <1>8 DEF IInv

LEMMA HydrateEndsKeeps ==
  ASSUME IInv, NEW s \in Sessions, HydrateEnds(s)
  PROVE  IInv'
<1>1. /\ \/ reload[s] = "hydrate" /\ reload' = [reload EXCEPT ![s] = "no"] /\ UNCHANGED retry
         \/ retry[s] = "hydrate" /\ retry' = [retry EXCEPT ![s] = "no"] /\ UNCHANGED reload
      /\ saved' = [saved EXCEPT ![s] = @ \/ seen[rpc[s]]]
      /\ UNCHANGED <<queueVars, bootVars, pi, turn, pipe, killed, seen, exited, rpc, gen, alive, life,
                     retried, streaming, late>>
  BY DEF HydrateEnds, piVars, clientVars
<1>2. rpc[s] \in Boots
  BY <1>1 DEF IInv, Retries, Lives
<1>3. /\ reload' \in [Sessions -> {"no", "boot", "hydrate"}]
      /\ retry' \in [Sessions -> {"no", "pause", "boot", "hydrate"}]
      /\ saved' \in [Sessions -> BOOLEAN]
      /\ \A t \in Sessions : /\ reload'[t] = reload[t] \/ (t = s /\ reload[t] = "hydrate" /\ reload'[t] = "no")
                             /\ retry'[t] = retry[t] \/ (t = s /\ retry[t] = "hydrate" /\ retry'[t] = "no")
  <2>1. /\ reload \in [Sessions -> {"no", "boot", "hydrate"}]
        /\ retry \in [Sessions -> {"no", "pause", "boot", "hydrate"}]
    BY DEF IInv, Types
  <2>2. saved' \in [Sessions -> BOOLEAN]
    <3>1. saved \in [Sessions -> BOOLEAN] /\ seen \in [Boots -> BOOLEAN]
      BY DEF IInv, Types
    <3>2. QED
      BY <1>1, <1>2, <3>1
  <2>3. CASE reload[s] = "hydrate" /\ reload' = [reload EXCEPT ![s] = "no"] /\ UNCHANGED retry
    BY <2>1, <2>2, <2>3
  <2>4. CASE retry[s] = "hydrate" /\ retry' = [retry EXCEPT ![s] = "no"] /\ UNCHANGED reload
    BY <2>1, <2>2, <2>4
  <2>5. QED
    BY <1>1, <2>3, <2>4
<1>4. P!Lines' /\ BootBooks' /\ Turns' /\ \A c \in Boots : Pending(c)' <=> Pending(c)
  BY <1>1, QuietKeeps
<1>5. Types'
  BY <1>1, <1>3 DEF IInv, Types, bootVars
<1>6. Pendings'
  <2>1. \A c \in Boots : Pending(c) =>
          /\ sess[c] \in Sessions
          /\ who[c] = "retry" => retry[sess[c]] = "boot"
          /\ who[c] = "reload" => reload[sess[c]] = "boot"
    BY DEF IInv, Pendings, Pending, BootBooks
  <2>2. QED
    BY <1>1, <1>3, <1>4, <2>1, PendingsKeep
<1>7. Lives'
  BY <1>1, <1>3 DEF IInv, Lives, Unopened, bootVars
<1>8. Endings'
  BY <1>1 DEF IInv, Endings
<1>9. Retries'
  BY <1>1, <1>3 DEF IInv, Retries, bootVars
<1>10. Leftovers'
  BY <1>1, <1>4, LeftKeeps DEF Leftovers, Running, bootVars
<1>11. QED
  BY <1>4, <1>5, <1>6, <1>7, <1>8, <1>9, <1>10 DEF IInv

\* dispose() kills the pi the session uses.
LEMMA DisposeKeeps ==
  ASSUME IInv, NEW s \in Sessions, Dispose(s)
  PROVE  IInv'
<1>1. /\ life[s] = "open" /\ life' = [life EXCEPT ![s] = "disposed"] /\ killed' = [killed EXCEPT ![rpc[s]] = TRUE]
      /\ UNCHANGED <<queueVars, bootVars, pi, turn, pipe, seen, exited, rpc, gen, alive,
                     reload, retry, retried, streaming, saved, late>>
  BY DEF Dispose, restartVars, clientVars
<1>2. ~Unopened(s) /\ rpc[s] \in Boots
  BY <1>1 DEF IInv, Lives, Unopened
<1>3. /\ life' \in [Sessions -> {"none", "creating", "open", "disposed", "failed"}]
      /\ life'[s] = "disposed" /\ \A t \in Sessions : t # s => life'[t] = life[t]
      /\ killed' \in [Boots -> BOOLEAN] /\ killed'[rpc[s]] /\ \A c \in Boots : killed[c] => killed'[c]
  BY <1>1, <1>2 DEF IInv, Types
<1>4. P!Lines' /\ BootBooks' /\ Turns' /\ \A c \in Boots : Pending(c)' <=> Pending(c)
  BY <1>1, <1>3, QuietKeeps
<1>5. Types'
  BY <1>1, <1>3 DEF IInv, Types, bootVars
<1>6. Pendings'
  <2>1. \A c \in Boots : Pending(c) /\ who[c] = "create" => sess[c] # s /\ sess[c] \in Sessions
    BY <1>1 DEF IInv, Pendings, Pending, BootBooks
  <2>2. QED
    BY <1>1, <1>3, <1>4, <2>1, PendingsKeep
<1>7. Lives'
  <2>1. \A t \in Sessions : /\ Unopened(t)' <=> Unopened(t)
                            /\ life'[t] = "none" => life[t] = "none"
    BY <1>1, <1>2, <1>3 DEF Unopened
  <2>2. QED
    BY <1>1, <2>1 DEF IInv, Lives, bootVars
<1>8. Endings'
  <2>1. \A t \in Sessions : rpc[t] # None => (killed[rpc[t]] => killed'[rpc[t]])
    BY <1>3 DEF IInv, Types
  <2>2. QED
    BY <1>1, <2>1 DEF IInv, Endings
<1>9. Retries'
  BY <1>1 DEF IInv, Retries, bootVars
<1>10. Leftovers'
  <2> SUFFICES ASSUME NEW t \in Sessions PROVE \E x \in Boots \cup {None} : Left(t, x)'
    BY DEF Leftovers
  <2>1. Running(t)' \subseteq Running(t)
    BY <1>1, <1>3 DEF Running, bootVars
  <2>2. rpc[s] \notin Running(s)'
    BY <1>3 DEF Running
  <2>3. QED
    BY <1>1, <1>3, <1>4, <2>1, <2>2, LeftKeeps
<1>11. QED
  BY <1>4, <1>5, <1>6, <1>7, <1>8, <1>9, <1>10 DEF IInv

LEMMA PiPrintsKeeps ==
  ASSUME IInv, NEW b \in Boots, PiPrints(b)
  PROVE  IInv'
<1>1. /\ pi[b] = "up"
      /\ \E to \in {"idle", "busy"}, line \in {"answer", "agent_start", "agent_settled"} :
           /\ turn' = [turn EXCEPT ![b] = to]
           /\ pipe' = [pipe EXCEPT ![b] = Append(@, line)]
      /\ UNCHANGED <<queueVars, bootVars, pi, killed, seen, exited, rpc, gen, alive, life,
                     reload, retry, retried, streaming, saved, late>>
  BY DEF PiPrints, restartVars, clientVars
<1>2. /\ turn' \in [Boots -> {"boot", "idle", "busy"}]
      /\ pipe' \in [Boots -> Seq({"answer", "agent_start", "agent_settled"})]
      /\ \A c \in Boots : c # b => pipe'[c] = pipe[c]
  BY <1>1 DEF IInv, Types
<1>3. P!Lines' /\ BootBooks' /\ Turns' /\ \A c \in Boots : Pending(c)' <=> Pending(c)
  BY <1>1, <1>2, QuietKeeps
<1>4. Types'
  BY <1>1, <1>2 DEF IInv, Types, bootVars
<1>5. Pendings'
  BY <1>1, <1>3, PendingsKeep
<1>6. Lives' /\ Retries'
  BY <1>1 DEF IInv, Lives, Retries, Unopened, bootVars
<1>7. Endings'
  <2>1. \A t \in Sessions : rpc[t] # None /\ exited[rpc[t]] => rpc[t] \in Boots /\ rpc[t] # b
    BY <1>1 DEF IInv, Types, BootBooks
  <2>2. QED
    BY <1>1, <1>2, <2>1 DEF IInv, Endings
<1>8. Leftovers'
  BY <1>1, <1>3, LeftKeeps DEF Leftovers, Running, bootVars
<1>9. QED
  BY <1>3, <1>4, <1>5, <1>6, <1>7, <1>8 DEF IInv

LEMMA PiDiesKeeps ==
  ASSUME IInv, NEW b \in Boots, PiDies(b)
  PROVE  IInv'
<1>1. /\ pi[b] = "up" /\ pi' = [pi EXCEPT ![b] = "dead"] /\ turn' = [turn EXCEPT ![b] = "boot"]
      /\ UNCHANGED <<queueVars, bootVars, pipe, killed, seen, exited, rpc, gen, alive, life,
                     reload, retry, retried, streaming, saved, late>>
  BY DEF PiDies, restartVars, clientVars
<1>2. /\ turn' \in [Boots -> {"boot", "idle", "busy"}] /\ pi' \in [Boots -> {"none", "up", "dead"}]
      /\ pi'[b] = "dead" /\ \A c \in Boots : c # b => pi'[c] = pi[c]
  BY <1>1 DEF IInv, Types
<1>3. P!Lines' /\ BootBooks' /\ Turns' /\ \A c \in Boots : Pending(c)' <=> Pending(c)
  BY <1>1, <1>2, QuietKeeps
<1>4. Types'
  BY <1>1, <1>2 DEF IInv, Types, bootVars
<1>5. Pendings'
  BY <1>1, <1>3, PendingsKeep
<1>6. Lives'
  <2>1. \A c \in Boots : pi'[c] = "none" <=> pi[c] = "none"
    BY <1>1, <1>2
  <2>2. \A t \in Sessions : gen[t] \in Boots \cup {None}
    BY DEF IInv, Types
  <2>3. QED
    BY <1>1, <2>1, <2>2 DEF IInv, Lives, Unopened, bootVars
<1>7. Retries' /\ Endings'
  BY <1>1 DEF IInv, Retries, Endings, bootVars
<1>8. Leftovers'
  BY <1>1, <1>2, <1>3, LeftKeeps DEF Leftovers, Running, bootVars
<1>9. QED
  BY <1>3, <1>4, <1>5, <1>6, <1>7, <1>8 DEF IInv

--------------------------------------------------------------------------------
\* Steps that may end a turn

\* A boot with a pi had its turn, and belongs to a session that was opened.
LEMMA HasPi ==
  ASSUME IInv, NEW b \in Boots, pi[b] # "none"
  PROVE  /\ b # None /\ b <= booted /\ call[b] = "resolved" /\ sess[b] \in Sessions /\ ~Unopened(sess[b])
         /\ gen[sess[b]] = b => rpc[sess[b]] = b
<1>1. b # None /\ b <= booted
  BY SessionsAssumption DEF IInv, BootBooks, Types, Boots
<1>2. call[b] = "resolved" /\ sess[b] \in Sessions
  BY <1>1 DEF IInv, BootBooks
<1>3. QED
  BY <1>1, <1>2, SessionsAssumption DEF IInv, Lives

LEMMA CeilingKeeps ==
  ASSUME IInv, NEW b \in Boots, Ceiling(b)
  PROVE  IInv'
<1>1. /\ Quiet /\ Q!CeilingFires(b)
      /\ UNCHANGED <<reported, bootVars, pi, turn, pipe, killed, seen, exited, rpc, gen, alive, life,
                     reload, retry, retried, streaming, saved, late>>
  BY DEF Ceiling, piVars, restartVars, clientVars
<1>2. Holder = b /\ b # None
  BY <1>1, SessionsAssumption DEF Q!CeilingFires, Holder
<1>3. P!Lines' /\ Holder' # b /\ \E n : Hands(n)
  BY <1>1, <1>2, ExpireKeeps DEF IInv
<1>4. call[b] = "resolved" /\ gen[sess[b]] = b
  BY <1>1, <1>2, QueueTypes DEF Quiet, IInv, Turns
<1>5. b <= booted
  BY <1>4 DEF IInv, BootBooks, Types, Boots
<1>6. BootBooks'
  <2>1. seen[b] => b \in reported
    BY DEF IInv, BootBooks
  <2>2. (pi[b] = "none" => pipe[b] = <<>> /\ ~seen[b]) /\ (exited[b] => pi[b] # "up")
    BY DEF IInv, BootBooks
  <2>3. QED
    BY <1>1, <1>3, <1>4, <1>5, <2>1, <2>2, BooksKeep
<1>7. Turns'
  <2>1. ~Granted(b)'
    BY <1>1, <1>4 DEF Granted, bootVars
  <2>2. QED
    BY <1>1, <1>3, <1>4, <2>1, TurnsKeep DEF Quiet
<1>8. Types'
  BY <1>1 DEF IInv, Types, bootVars
<1>9. Pendings'
  BY <1>1, PendingsKeep DEF Pending, bootVars
<1>10. Lives' /\ Retries' /\ Endings'
  BY <1>1 DEF IInv, Lives, Retries, Endings, Unopened, bootVars
<1>11. Leftovers'
  <2>1. \A c \in Boots : Pending(c)' => Pending(c)
    BY <1>1 DEF Pending, bootVars
  <2>2. QED
    BY <1>1, <2>1, LeftKeeps DEF Leftovers, Running, bootVars
<1>12. QED
  BY <1>3, <1>6, <1>7, <1>8, <1>9, <1>10, <1>11 DEF IInv

\* A line is read; one from a pi that exited or was disposed marks its session as late.
LEMMA ReadLineKeeps ==
  ASSUME IInv, NEW b \in Boots, ReadLine(b)
  PROVE  IInv'
<1> DEFINE s == sess[b]
           line == Head(pipe[b])
           counts == gen[s] = b /\ life[s] # "disposed"
<1>1. /\ Quiet /\ pipe[b] # <<>>
      /\ pipe' = [pipe EXCEPT ![b] = Tail(@)] /\ seen' = [seen EXCEPT ![b] = TRUE]
      /\ IF seen[b] THEN UNCHANGED queueVars ELSE ReleaseSpawn(b)
      /\ streaming' = [streaming EXCEPT ![s] = IF ~counts \/ line = "answer" THEN @ ELSE line = "agent_start"]
      /\ late' = [late EXCEPT ![s] = @ \/ (counts /\ (killed[b] \/ exited[b]))]
      /\ UNCHANGED <<bootVars, pi, turn, killed, exited, rpc, gen, alive, life, reload, retry, retried, saved>>
  BY DEF ReadLine, restartVars, clientVars
<1>2. pi[b] # "none"
  BY <1>1 DEF IInv, BootBooks
<1>3. /\ b # None /\ b <= booted /\ call[b] = "resolved" /\ s \in Sessions /\ ~Unopened(s)
      /\ gen[s] = b => rpc[s] = b
  BY <1>2, HasPi
<1>4. P!Lines' /\ Holder' # b /\ reported \subseteq reported' /\ b \in reported' /\ \E n : Hands(n)
  <2>1. CASE seen[b]
    <3>1. UNCHANGED queueVars /\ b \in reported
      BY <1>1, <2>1 DEF IInv, BootBooks
    <3>2. Holder # b
      BY <1>3, <3>1, QueueTypes DEF IInv
    <3>3. QED
      BY <3>1, <3>2, LinesStay DEF IInv, queueVars
  <2>2. CASE ~seen[b]
    BY <1>1, <1>3, <2>2, ReleaseKeeps DEF IInv
  <2>3. QED
    BY <2>1, <2>2
<1>5. /\ pipe' \in [Boots -> Seq({"answer", "agent_start", "agent_settled"})]
      /\ seen' \in [Boots -> BOOLEAN] /\ seen'[b]
      /\ \A c \in Boots : c # b => pipe'[c] = pipe[c] /\ (seen'[c] <=> seen[c])
  BY <1>1 DEF IInv, Types
<1>6. /\ streaming' \in [Sessions -> BOOLEAN] /\ late' \in [Sessions -> BOOLEAN]
      /\ \A t \in Sessions : t # s => (streaming'[t] <=> streaming[t]) /\ (late'[t] <=> late[t])
      /\ late[s] => late'[s]
      /\ ~counts => (streaming'[s] <=> streaming[s])
      /\ counts /\ (killed[b] \/ exited[b]) => late'[s]
  <2> DEFINE reads == IF ~counts \/ line = "answer" THEN streaming[s] ELSE line = "agent_start"
             belated == late[s] \/ (counts /\ (killed[b] \/ exited[b]))
  <2>1. streaming \in [Sessions -> BOOLEAN] /\ late \in [Sessions -> BOOLEAN]
    BY DEF IInv, Types
  <2>2. reads \in BOOLEAN /\ belated \in BOOLEAN /\ (~counts => (reads <=> streaming[s]))
    BY <1>3, <2>1
  <2>3. streaming' = [streaming EXCEPT ![s] = reads] /\ late' = [late EXCEPT ![s] = belated]
    BY <1>1
  <2>4. (late[s] => belated) /\ (counts /\ (killed[b] \/ exited[b]) => belated)
    OBVIOUS
  <2> HIDE DEF reads, belated, line, counts
  <2>5. QED
    BY <1>3, <2>1, <2>2, <2>3, <2>4
<1> HIDE DEF line, counts
<1>7. BootBooks'
  <2>1. exited[b] => pi[b] # "up"
    BY DEF IInv, BootBooks
  <2>2. QED
    BY <1>1, <1>2, <1>3, <1>4, <1>5, <2>1, BooksKeep
<1>8. Turns'
  <2>1. ~Granted(b)'
    BY <1>1, <1>2 DEF Granted
  <2>2. QED
    BY <1>1, <1>3, <1>4, <2>1, TurnsKeep DEF Quiet
<1>9. Types'
  BY <1>1, <1>5, <1>6 DEF IInv, Types, bootVars
<1>10. Pendings'
  BY <1>1, PendingsKeep DEF Pending, bootVars
<1>11. Lives'
  <2>1. \A t \in Sessions : Unopened(t)' => Unopened(t) /\ t # s
    BY <1>1, <1>3 DEF Unopened
  <2>2. QED
    BY <1>1, <1>6, <2>1 DEF IInv, Lives, Unopened, bootVars
<1>12. Retries'
  BY <1>1 DEF IInv, Retries, bootVars
<1>13. Endings'
  <2> SUFFICES ASSUME NEW t \in Sessions, gen[t] = rpc[t], rpc[t] # None
               PROVE  /\ ~alive[t] => exited[rpc[t]] \/ killed[rpc[t]]
                      /\ alive[t] /\ exited[rpc[t]] => ~seen'[rpc[t]] /\ pipe'[rpc[t]] = <<>>
                      /\ ~late'[t] /\ ~alive[t] => ~streaming'[t]
    BY <1>1 DEF Endings
  <2>1. /\ rpc[t] \in Boots
        /\ ~alive[t] => exited[rpc[t]] \/ killed[rpc[t]]
        /\ alive[t] /\ exited[rpc[t]] => ~seen[rpc[t]] /\ pipe[rpc[t]] = <<>>
        /\ ~late[t] /\ ~alive[t] => ~streaming[t]
    BY DEF IInv, Endings, Types
  <2>2. alive[t] /\ exited[rpc[t]] => rpc[t] # b
    BY <1>1, <2>1
  <2>3. ~late'[t] /\ ~alive[t] => ~streaming'[t]
    <3>1. CASE t # s \/ ~counts
      BY <1>6, <2>1, <3>1
    <3>2. CASE t = s /\ counts
      <4>1. rpc[t] = b
        BY <1>3, <3>2 DEF counts
      <4>2. QED
        BY <1>6, <2>1, <3>2, <4>1
    <3>3. QED
      BY <3>1, <3>2
  <2>4. QED
    BY <1>5, <2>1, <2>2, <2>3
<1>14. Leftovers'
  <2>1. \A c \in Boots : Pending(c)' => Pending(c)
    BY <1>1 DEF Pending, bootVars
  <2>2. QED
    BY <1>1, <2>1, LeftKeeps DEF Leftovers, Running, bootVars
<1>15. QED
  BY <1>4, <1>7, <1>8, <1>9, <1>10, <1>11, <1>12, <1>13, <1>14 DEF IInv

\* retryStartup: a session that has had its retry gets no other.
LEMMA RetryStartupKeeps ==
  ASSUME IInv, UNCHANGED bootVars, NEW s \in Sessions, UNCHANGED <<retry, retried>> \/ RetryStartup(s)
  PROVE  /\ retry' \in [Sessions -> {"no", "pause", "boot", "hydrate"}] /\ retried' \in [Sessions -> BOOLEAN]
         /\ \A t \in Sessions : t # s => retry'[t] = retry[t] /\ (retried'[t] <=> retried[t])
         /\ \A c \in Boots : sess[c] = s /\ who[c] = "retry" => retry'[s] = retry[s]
         /\ Retries'
<1>1. retry \in [Sessions -> {"no", "pause", "boot", "hydrate"}] /\ retried \in [Sessions -> BOOLEAN]
  BY DEF IInv, Types
<1>2. CASE UNCHANGED <<retry, retried>>
  BY <1>1, <1>2 DEF IInv, Retries, bootVars
<1>3. CASE ~retried[s] /\ retried' = [retried EXCEPT ![s] = TRUE] /\ retry' = [retry EXCEPT ![s] = "pause"]
  <2>1. /\ retry' \in [Sessions -> {"no", "pause", "boot", "hydrate"}] /\ retried' \in [Sessions -> BOOLEAN]
        /\ retried'[s] /\ \A t \in Sessions : t # s => retry'[t] = retry[t] /\ (retried'[t] <=> retried[t])
    BY <1>1, <1>3
  <2>2. \A c \in Boots : sess[c] = s => who[c] # "retry"
    BY <1>3 DEF IInv, Retries
  <2>3. Retries'
    BY <2>1, <2>2 DEF IInv, Retries, bootVars
  <2>4. QED
    BY <2>1, <2>2, <2>3
<1>4. QED
  BY <1>2, <1>3 DEF RetryStartup

\* The exit of the pi spawned last ends what its session had of it.
LEMMA ExitEventKeeps ==
  ASSUME IInv, NEW b \in Boots, ExitEvent(b)
  PROVE  IInv'
<1> DEFINE s == sess[b]
<1>1. /\ Quiet /\ pi[b] = "dead" /\ ~exited[b] /\ exited' = [exited EXCEPT ![b] = TRUE]
      /\ UNCHANGED <<bootVars, pi, turn, pipe, killed, seen, rpc, gen, reload, life, saved, late>>
      /\ gen[s] = b => streaming' = [streaming EXCEPT ![s] = FALSE] /\ alive' = [alive EXCEPT ![s] = FALSE]
      /\ gen[s] # b => UNCHANGED <<streaming, alive>>
  BY DEF ExitEvent
<1>2. /\ b # None /\ b <= booted /\ call[b] = "resolved" /\ s \in Sessions /\ ~Unopened(s)
      /\ gen[s] = b => rpc[s] = b
  BY <1>1, HasPi
<1>3. \/ gen[s] = b /\ ~seen[b] /\ ReleaseSpawn(b) /\ RetryStartup(s)
      \/ (gen[s] # b \/ seen[b]) /\ UNCHANGED <<queueVars, retry, retried>>
  BY DEF ExitEvent
<1>4. P!Lines' /\ Holder' # b /\ reported \subseteq reported' /\ \E n : Hands(n)
  <2>1. CASE ReleaseSpawn(b)
    BY <1>2, <2>1, ReleaseKeeps DEF IInv
  <2>2. CASE (gen[s] # b \/ seen[b]) /\ UNCHANGED queueVars
    <3>1. seen[b] => b \in reported
      BY DEF IInv, BootBooks
    <3>2. Holder # b
      BY <1>1, <1>2, <2>2, <3>1, QueueTypes DEF IInv, Turns, Quiet
    <3>3. QED
      BY <2>2, <3>2, LinesStay DEF IInv, queueVars
  <2>3. QED
    BY <1>3, <2>1, <2>2
<1>5. /\ exited' \in [Boots -> BOOLEAN] /\ exited'[b] /\ \A c \in Boots : c # b => (exited'[c] <=> exited[c])
      /\ streaming' \in [Sessions -> BOOLEAN] /\ alive' \in [Sessions -> BOOLEAN]
      /\ \A t \in Sessions : t # s => (streaming'[t] <=> streaming[t]) /\ (alive'[t] <=> alive[t])
      /\ gen[s] = b => ~streaming'[s] /\ ~alive'[s]
      /\ gen[s] # b => (streaming'[s] <=> streaming[s]) /\ (alive'[s] <=> alive[s])
  <2>1. /\ exited \in [Boots -> BOOLEAN]
        /\ streaming \in [Sessions -> BOOLEAN] /\ alive \in [Sessions -> BOOLEAN]
    BY DEF IInv, Types
  <2>2. CASE gen[s] = b
    BY <1>1, <1>2, <2>1, <2>2
  <2>3. CASE gen[s] # b
    BY <1>1, <1>2, <2>1, <2>3
  <2>4. QED
    BY <2>2, <2>3
<1>6. /\ retry' \in [Sessions -> {"no", "pause", "boot", "hydrate"}] /\ retried' \in [Sessions -> BOOLEAN]
      /\ \A t \in Sessions : t # s => retry'[t] = retry[t] /\ (retried'[t] <=> retried[t])
      /\ \A c \in Boots : sess[c] = s /\ who[c] = "retry" => retry'[s] = retry[s]
      /\ Retries'
  BY <1>1, <1>2, <1>3, RetryStartupKeeps
<1>7. BootBooks'
  <2>1. seen[b] => b \in reported
    BY DEF IInv, BootBooks
  <2>2. QED
    BY <1>1, <1>2, <1>4, <1>5, <2>1, BooksKeep
<1>8. Turns'
  <2>1. ~Granted(b)'
    BY <1>1 DEF Granted
  <2>2. QED
    BY <1>1, <1>2, <1>4, <1>5, <2>1, TurnsKeep DEF Quiet
<1>9. Types'
  BY <1>1, <1>5, <1>6 DEF IInv, Types, bootVars
<1>10. \A c \in Boots : Pending(c)' => Pending(c)
  BY <1>1, <1>5 DEF Pending, bootVars
<1>11. Pendings'
  <2>1. \A c \in Boots : Pending(c) => sess[c] \in Sessions
    BY DEF Pending, IInv, BootBooks
  <2>2. QED
    BY <1>1, <1>6, <1>10, <2>1, PendingsKeep
<1>12. Lives'
  <2>1. \A t \in Sessions : Unopened(t)' => Unopened(t) /\ t # s
    BY <1>1, <1>2 DEF Unopened
  <2>2. \A t \in Sessions : ~Unopened(t)' => ~Unopened(t)
    BY <1>1 DEF Unopened
  <2>3. \A t \in Sessions : gen[t] # None => gen[t] \in Boots /\ (exited[gen[t]] => exited'[gen[t]])
    BY <1>5 DEF IInv, Types
  <2>4. QED
    BY <1>1, <1>5, <1>6, <2>1, <2>2, <2>3 DEF IInv, Lives, bootVars
<1>13. Endings'
  <2> SUFFICES ASSUME NEW t \in Sessions, gen[t] = rpc[t], rpc[t] # None
               PROVE  /\ ~alive'[t] => exited'[rpc[t]] \/ killed[rpc[t]]
                      /\ alive'[t] /\ exited'[rpc[t]] => ~seen[rpc[t]] /\ pipe[rpc[t]] = <<>>
                      /\ ~late[t] /\ ~alive'[t] => ~streaming'[t]
    BY <1>1 DEF Endings
  <2>1. /\ rpc[t] \in Boots
        /\ ~alive[t] => exited[rpc[t]] \/ killed[rpc[t]]
        /\ alive[t] /\ exited[rpc[t]] => ~seen[rpc[t]] /\ pipe[rpc[t]] = <<>>
        /\ ~late[t] /\ ~alive[t] => ~streaming[t]
    BY DEF IInv, Endings, Types
  <2>2. rpc[t] = b => t = s
    BY <2>1 DEF IInv, Lives
  <2>3. CASE rpc[t] = b
    BY <1>5, <2>2, <2>3
  <2>4. CASE rpc[t] # b
    BY <1>5, <2>1, <2>4
  <2>5. QED
    BY <2>3, <2>4
<1>14. Leftovers'
  <2> SUFFICES ASSUME NEW t \in Sessions PROVE \E x \in Boots \cup {None} : Left(t, x)'
    BY DEF Leftovers
  <2>1. Running(t)' \subseteq Running(t)
    BY <1>1 DEF Running, bootVars
  <2>2. t = s /\ gen[s] = b => rpc[t] \notin Running(t)'
    BY <1>1, <1>2 DEF Running
  <2>3. ~alive'[t] => ~alive[t] \/ rpc[t] \notin Running(t)'
    BY <1>5, <2>2
  <2>4. QED
    BY <1>1, <1>10, <2>1, <2>3, LeftKeeps
<1>15. QED
  BY <1>4, <1>6, <1>7, <1>8, <1>9, <1>11, <1>12, <1>13, <1>14 DEF IInv

--------------------------------------------------------------------------------
\* A boot whose turn came makes its client

\* What is known of a boot that is about to spawn, by what caused it.
LEMMA GrantedBoot ==
  ASSUME IInv, NEW b \in Boots, Granted(b), NEW s, s = sess[b]
  PROVE  /\ b # None /\ b <= booted /\ call[b] = "resolved" /\ s \in Sessions
         /\ who[b] \in {"create", "reload", "retry"}
         /\ pi[b] = "none" /\ ~exited[b] /\ ~seen[b] /\ pipe[b] = <<>> /\ Pending(b) /\ Holder = b
         /\ \A c \in Boots : c # b => ~Granted(c)
         /\ \A t \in Sessions : gen[t] # b /\ rpc[t] # b
         /\ \A c \in Boots : Pending(c) /\ sess[c] = s /\ who[c] = who[b] => c = b
         /\ who[b] = "create" =>
              /\ life[s] = "creating" /\ rpc[s] = None /\ ~retried[s]
              /\ \A c \in Boots : sess[c] = s => who[c] = "create" /\ pi[c] = "none"
         /\ who[b] = "reload" => reload[s] = "boot" /\ ~Unopened(s) /\ AwaitsReload(s)
         /\ who[b] = "retry" => retry[s] = "boot" /\ retried[s] /\ ~Unopened(s) /\ ~RetryRan(s)
<1>1. b # None /\ b <= booted /\ call[b] = "resolved" /\ pi[b] = "none" /\ ~exited[b] /\ gen[s] # b
  BY SessionsAssumption DEF Granted
<1>2. s \in Sessions /\ who[b] \in {"create", "reload", "retry"} /\ ~seen[b] /\ pipe[b] = <<>>
  BY <1>1 DEF IInv, BootBooks, Types
<1>3. Pending(b) /\ Holder = b
  BY <1>1 DEF Pending, IInv, Turns
<1>4. \A c \in Boots : c # b => ~Granted(c)
  BY <1>3 DEF IInv, Turns
<1>5. \A t \in Sessions : gen[t] # b /\ rpc[t] # b
  BY <1>1 DEF IInv, Lives
<1>6. \A c \in Boots : Pending(c) /\ sess[c] = s /\ who[c] = who[b] => c = b
  BY <1>3 DEF IInv, Pendings
<1>7. CASE who[b] = "create"
  <2>1. life[s] = "creating" /\ Unopened(s)
    BY <1>3, <1>7 DEF IInv, Pendings, Unopened
  <2>2. QED
    BY <1>1, <1>2, <1>3, <1>4, <1>5, <1>6, <1>7, <2>1 DEF IInv, Lives
<1>8. CASE who[b] = "reload"
  <2>1. reload[s] = "boot" /\ AwaitsReload(s)
    BY <1>3, <1>8 DEF IInv, Pendings, AwaitsReload
  <2>2. ~Unopened(s)
    BY <1>2, <2>1 DEF IInv, Lives
  <2>3. QED
    BY <1>1, <1>2, <1>3, <1>4, <1>5, <1>6, <1>8, <2>1, <2>2
<1>9. CASE who[b] = "retry"
  <2>1. retry[s] = "boot" /\ retried[s]
    BY <1>2, <1>3, <1>9 DEF IInv, Pendings, Retries
  <2>2. ~Unopened(s)
    BY <1>2, <2>1 DEF IInv, Lives
  <2>3. ~RetryRan(s)
    BY <1>2, <1>3, <1>9 DEF RetryRan, IInv, Retries
  <2>4. QED
    BY <1>1, <1>2, <1>3, <1>4, <1>5, <1>6, <1>9, <2>1, <2>2, <2>3
<1>10. QED
  BY <1>2, <1>7, <1>8, <1>9

\* The pis left to a session that has a new client: those of before and the new one, unless it
\* came too late.
LEMMA SpawnLeaves ==
  ASSUME IInv, NEW b \in Boots, Granted(b), NEW s, s = sess[b], UNCHANGED bootVars,
         \A c \in Boots : Pending(c)' => Pending(c) /\ c # b,
         Running(s)' \subseteq Running(s) \cup {b},
         who[b] = "reload" /\ life[s] = "disposed" => b \notin Running(s)',
         rpc'[s] = b, alive'[s], life'[s] = "disposed" => life[s] = "disposed"
  PROVE  \E x \in Boots \cup {None} : Left(s, x)'
<1>1. /\ b # None /\ s \in Sessions /\ who[b] \in {"create", "reload", "retry"}
      /\ \A c \in Boots : Pending(c) /\ sess[c] = s /\ who[c] = who[b] => c = b
  BY GrantedBoot
<1>2. PICK x \in Boots \cup {None} : Left(s, x)
  BY <1>1 DEF IInv, Leftovers
<1>3. AwaitsReload(s)' => AwaitsReload(s)
  BY DEF AwaitsReload, bootVars
<1>4. RetryRan(s) => RetryRan(s)'
  BY DEF RetryRan, bootVars
<1>5. CASE who[b] = "create"
  <2>1. \A c \in Boots : sess[c] = s => who[c] = "create" /\ pi[c] = "none"
    BY <1>5, GrantedBoot
  <2>2. life[s] = "creating"
    BY <1>5, GrantedBoot
  <2>3. Running(s) = {} /\ ~AwaitsReload(s)
    BY <2>1 DEF Running, AwaitsReload
  <2>4. Left(s, None)'
    BY <1>3, <2>2, <2>3 DEF Left
  <2>5. QED
    BY <2>4
<1>6. CASE who[b] = "reload"
  <2>1. AwaitsReload(s)
    BY <1>6, GrantedBoot
  <2>2. Running(s) \subseteq {x}
    BY <1>2, <2>1 DEF Left
  <2>3. ~AwaitsReload(s)'
    BY <1>1, <1>6 DEF AwaitsReload, bootVars
  <2>4. Left(s, x)'
    BY <1>2, <1>4, <1>6, <2>2, <2>3 DEF Left
  <2>5. QED
    BY <2>4
<1>7. CASE who[b] = "retry"
  <2>1. ~RetryRan(s)
    BY <1>7, GrantedBoot
  <2>2. x = None
    BY <1>2, <2>1 DEF Left
  <2>3. RetryRan(s)'
    BY <1>7 DEF RetryRan, bootVars
  <2>4. CASE life[s] = "disposed" \/ AwaitsReload(s)
    <3>1. Running(s) = {}
      BY <1>2, <2>2, <2>4, SessionsAssumption DEF Left, Running
    <3>2. Left(s, b)'
      BY <2>3, <3>1 DEF Left
    <3>3. QED
      BY <3>2
  <2>5. CASE ~(life[s] = "disposed" \/ AwaitsReload(s))
    <3>1. Running(s) \subseteq {rpc[s]} /\ rpc[s] \in Boots \cup {None}
      BY <1>1, <1>2, <2>2, SessionsAssumption DEF Left, Running, IInv, Types
    <3>2. \A y : y = rpc[s] => Left(s, y)'
      BY <1>3, <2>3, <2>5, <3>1 DEF Left
    <3>3. QED
      BY <3>1, <3>2
  <2>6. QED
    BY <2>4, <2>5
<1>8. QED
  BY <1>1, <1>5, <1>6, <1>7

\* bootRpc makes the client and its caller goes on, whether or not the process could be spawned.
LEMMA ClientComes ==
  ASSUME IInv, NEW b \in Boots, Granted(b), NEW s, s = sess[b], Continue(s, b),
         NEW p \in {"up", "dead"}, pi' = [pi EXCEPT ![b] = p],
         exited' \in [Boots -> BOOLEAN], exited'[b] => p = "dead",
         \A c \in Boots : c # b => (exited'[c] <=> exited[c]),
         gen' = [gen EXCEPT ![s] = b], rpc' = [rpc EXCEPT ![s] = b], alive' = [alive EXCEPT ![s] = TRUE],
         retry' \in [Sessions -> {"no", "pause", "boot", "hydrate"}], retried' \in [Sessions -> BOOLEAN],
         \A t \in Sessions : t # s => retry'[t] = retry[t] /\ (retried'[t] <=> retried[t]),
         who[b] = "retry" \/ \A c \in Boots : sess[c] = s /\ who[c] = "retry" => retry'[s] = retry[s],
         UNCHANGED <<bootVars, turn, pipe, seen, streaming, saved, late>>
  PROVE  /\ Types' /\ Pendings' /\ Lives' /\ Endings' /\ Leftovers'
         /\ \A t \in Sessions : life'[t] = "disposed" <=> life[t] = "disposed"
<1>1. /\ b # None /\ s \in Sessions /\ who[b] \in {"create", "reload", "retry"} /\ b <= booted
      /\ pi[b] = "none" /\ ~seen[b] /\ pipe[b] = <<>>
      /\ \A t \in Sessions : gen[t] # b /\ rpc[t] # b
      /\ \A c \in Boots : Pending(c) /\ sess[c] = s /\ who[c] = who[b] => c = b
  BY GrantedBoot
<1>2. (who[b] = "create" => life[s] = "creating") /\ (who[b] # "create" => ~Unopened(s))
  BY GrantedBoot
<1>3. /\ life' \in [Sessions -> {"none", "creating", "open", "disposed", "failed"}]
      /\ who[b] = "create" => life'[s] = "open"
      /\ who[b] # "create" => life'[s] = life[s]
      /\ \A t \in Sessions : t # s => life'[t] = life[t]
  BY <1>1 DEF Continue, IInv, Types
<1>4. /\ reload' \in [Sessions -> {"no", "boot", "hydrate"}]
      /\ who[b] # "reload" => reload'[s] = reload[s]
      /\ \A t \in Sessions : t # s => reload'[t] = reload[t]
  BY <1>1 DEF Continue, IInv, Types
<1>5. /\ killed' \in [Boots -> BOOLEAN] /\ \A c \in Boots : c # b => (killed'[c] <=> killed[c])
      /\ who[b] = "reload" /\ life[s] = "disposed" => killed'[b]
  <2> DEFINE unwanted == who[b] = "reload" /\ life[s] = "disposed"
  <2>1. killed' = [killed EXCEPT ![b] = unwanted]
    BY DEF Continue
  <2>2. killed \in [Boots -> BOOLEAN] /\ unwanted \in BOOLEAN
    BY DEF IInv, Types
  <2> HIDE DEF unwanted
  <2>3. killed' \in [Boots -> BOOLEAN] /\ \A c \in Boots : c # b => (killed'[c] <=> killed[c])
    BY <2>1, <2>2
  <2>4. killed'[b] <=> unwanted
    BY <2>1, <2>2
  <2>5. QED
    BY <2>3, <2>4 DEF unwanted
<1>6. /\ pi' \in [Boots -> {"none", "up", "dead"}] /\ pi'[b] = p /\ pi'[b] # "none"
      /\ \A c \in Boots : c # b => pi'[c] = pi[c]
  BY DEF IInv, Types
<1>7. /\ gen' \in [Sessions -> Boots \cup {None}] /\ gen'[s] = b /\ \A t \in Sessions : t # s => gen'[t] = gen[t]
      /\ rpc' \in [Sessions -> Boots \cup {None}] /\ rpc'[s] = b /\ \A t \in Sessions : t # s => rpc'[t] = rpc[t]
      /\ alive' \in [Sessions -> BOOLEAN] /\ alive'[s] /\ \A t \in Sessions : t # s => (alive'[t] <=> alive[t])
  BY <1>1 DEF IInv, Types
<1>8. Types'
  BY <1>3, <1>4, <1>5, <1>6, <1>7 DEF IInv, Types, bootVars
<1>9. \A c \in Boots : Pending(c)' => Pending(c) /\ c # b
  BY <1>6 DEF Pending, bootVars
<1>10. Pendings'
  <2> SUFFICES ASSUME NEW c \in Boots, Pending(c)'
               PROVE  /\ Pending(c)
                      /\ who[c] = "create" => life'[sess[c]] = life[sess[c]]
                      /\ who[c] = "reload" => reload'[sess[c]] = reload[sess[c]]
                      /\ who[c] = "retry" => retry'[sess[c]] = retry[sess[c]]
    BY PendingsKeep
  <2>1. Pending(c) /\ c # b /\ sess[c] \in Sessions
    BY <1>9 DEF Pending, IInv, BootBooks
  <2>2. CASE sess[c] = s
    BY <1>1, <1>3, <1>4, <2>1, <2>2
  <2>3. CASE sess[c] # s
    BY <1>3, <1>4, <2>1, <2>3
  <2>4. QED
    BY <2>2, <2>3
<1>11. \A t \in Sessions : t # s => (Unopened(t)' <=> Unopened(t))
  BY <1>3 DEF Unopened
<1>12. ~Unopened(s)'
  BY <1>1, <1>2, <1>3 DEF Unopened
<1>13. Lives'
  <2> SUFFICES ASSUME NEW t \in Sessions
               PROVE  /\ Unopened(t)' =>
                           /\ rpc'[t] = None /\ reload'[t] = "no" /\ ~retried'[t] /\ ~alive'[t] /\ ~streaming'[t]
                           /\ \A c \in Boots : sess'[c] = t => who'[c] = "create" /\ pi'[c] = "none"
                      /\ life'[t] = "none" => \A c \in Boots : sess'[c] # t
                      /\ ~Unopened(t)' => rpc'[t] \in Boots /\ sess'[rpc'[t]] = t /\ pi'[rpc'[t]] # "none"
                      /\ gen'[t] = None => rpc'[t] = None
                      /\ gen'[t] # None => /\ sess'[gen'[t]] = t
                                           /\ gen'[t] = rpc'[t] \/ (pi'[gen'[t]] = "none" /\ exited'[gen'[t]])
    BY DEF Lives
  <2>1. CASE t = s
    <3>1. life'[s] # "none"
      BY <1>12 DEF Unopened
    <3>2. QED
      BY <1>1, <1>6, <1>7, <1>12, <2>1, <3>1 DEF bootVars
  <2>2. CASE t # s
    <3>1. gen[t] # None => gen[t] \in Boots /\ gen[t] # b
      BY <1>1 DEF IInv, Types
    <3>2. \A c \in Boots : sess[c] = t => c # b
      BY <2>2
    <3>3. rpc[t] # b
      BY <1>1
    <3>4. /\ Unopened(t) =>
               /\ rpc[t] = None /\ reload[t] = "no" /\ ~retried[t] /\ ~alive[t] /\ ~streaming[t]
               /\ \A c \in Boots : sess[c] = t => who[c] = "create" /\ pi[c] = "none"
          /\ life[t] = "none" => \A c \in Boots : sess[c] # t
          /\ ~Unopened(t) => rpc[t] \in Boots /\ sess[rpc[t]] = t /\ pi[rpc[t]] # "none"
          /\ gen[t] = None => rpc[t] = None
          /\ gen[t] # None => /\ sess[gen[t]] = t
                              /\ gen[t] = rpc[t] \/ (pi[gen[t]] = "none" /\ exited[gen[t]])
      BY DEF IInv, Lives
    <3>5. QED
      BY <1>3, <1>4, <1>6, <1>7, <1>11, <2>2, <3>1, <3>2, <3>3, <3>4 DEF bootVars
  <2>3. QED
    BY <2>1, <2>2
<1>14. Endings'
  <2> SUFFICES ASSUME NEW t \in Sessions, gen'[t] = rpc'[t], rpc'[t] # None
               PROVE  /\ ~alive'[t] => exited'[rpc'[t]] \/ killed'[rpc'[t]]
                      /\ alive'[t] /\ exited'[rpc'[t]] => ~seen[rpc'[t]] /\ pipe[rpc'[t]] = <<>>
                      /\ ~late[t] /\ ~alive'[t] => ~streaming[t]
    BY DEF Endings
  <2>1. CASE t = s
    BY <1>1, <1>7, <2>1
  <2>2. CASE t # s
    <3>1. rpc[t] \in Boots /\ rpc[t] # b
      BY <1>1, <1>7, <2>2 DEF IInv, Types
    <3>2. QED
      BY <1>5, <1>7, <2>2, <3>1 DEF IInv, Endings
  <2>3. QED
    BY <2>1, <2>2
<1>15. \A t \in Sessions : life'[t] = "disposed" <=> life[t] = "disposed"
  BY <1>1, <1>2, <1>3
<1>16. Leftovers'
  <2> SUFFICES ASSUME NEW t \in Sessions PROVE \E x \in Boots \cup {None} : Left(t, x)'
    BY DEF Leftovers
  <2>1. CASE t = s
    <3>1. Running(s)' \subseteq Running(s) \cup {b}
      BY <1>5, <1>6 DEF Running, bootVars
    <3>2. who[b] = "reload" /\ life[s] = "disposed" => b \notin Running(s)'
      BY <1>5 DEF Running
    <3>3. \E x \in Boots \cup {None} : Left(s, x)'
      BY <1>1, <1>7, <1>9, <1>15, <3>1, <3>2, SpawnLeaves
    <3>4. QED
      BY <2>1, <3>3
  <2>2. CASE t # s
    <3>1. Running(t)' \subseteq Running(t)
      BY <1>5, <1>6, <2>2 DEF Running, bootVars
    <3>2. QED
      BY <1>7, <1>9, <1>15, <2>2, <3>1, LeftKeeps
  <2>3. QED
    BY <2>1, <2>2
<1>17. QED
  BY <1>8, <1>10, <1>13, <1>14, <1>15, <1>16

LEMMA SpawnKeeps ==
  ASSUME IInv, NEW b \in Boots, Spawn(b)
  PROVE  IInv'
<1>1. PICK s : s = sess[b]
  OBVIOUS
<1>2. /\ Granted(b) /\ Continue(s, b)
      /\ pi' = [pi EXCEPT ![b] = "up"]
      /\ gen' = [gen EXCEPT ![s] = b] /\ rpc' = [rpc EXCEPT ![s] = b] /\ alive' = [alive EXCEPT ![s] = TRUE]
      /\ retry' = [retry EXCEPT ![s] = IF who[b] = "retry" THEN "hydrate" ELSE @]
      /\ UNCHANGED <<queueVars, bootVars, turn, pipe, seen, exited, retried, streaming, saved, late>>
  BY <1>1 DEF Spawn
<1>3. /\ b # None /\ b <= booted /\ call[b] = "resolved" /\ s \in Sessions
      /\ pi[b] = "none" /\ ~exited[b] /\ ~seen[b] /\ pipe[b] = <<>> /\ Holder = b
      /\ \A c \in Boots : c # b => ~Granted(c)
  BY <1>1, <1>2, GrantedBoot
<1>4. pi'[b] = "up" /\ \A c \in Boots : c # b => pi'[c] = pi[c]
  BY <1>2 DEF IInv, Types
<1>5. /\ retry' \in [Sessions -> {"no", "pause", "boot", "hydrate"}]
      /\ who[b] # "retry" => retry'[s] = retry[s]
      /\ who[b] = "retry" => retry'[s] = "hydrate"
      /\ \A t \in Sessions : t # s => retry'[t] = retry[t]
  BY <1>2, <1>3 DEF IInv, Types
<1>6. retried \in [Sessions -> BOOLEAN] /\ exited \in [Boots -> BOOLEAN]
  BY DEF IInv, Types
<1>7. /\ Types' /\ Pendings' /\ Lives' /\ Endings' /\ Leftovers'
      /\ \A t \in Sessions : life'[t] = "disposed" <=> life[t] = "disposed"
  BY <1>1, <1>2, <1>3, <1>5, <1>6, ClientComes
<1>8. P!Lines' /\ Holder' = Holder /\ Hands(None)
  BY <1>2, LinesStay DEF IInv
<1>9. \E n : Hands(n)
  BY <1>8
<1>10. reported \subseteq reported'
  BY <1>2 DEF queueVars
<1>11. BootBooks'
  BY <1>2, <1>3, <1>4, <1>9, <1>10, BooksKeep
<1>12. gen'[sess[b]] = b
  BY <1>1, <1>2, <1>3 DEF IInv, Types
<1>13. Turns'
  <2>1. ~Granted(b)'
    BY <1>4 DEF Granted
  <2>2. QED
    BY <1>1, <1>2, <1>3, <1>4, <1>7, <1>9, <1>12, <2>1, TurnsKeep
<1>14. Retries'
  <2>1. who[b] = "retry" => retried[s]
    BY <1>1, <1>2, GrantedBoot
  <2>2. QED
    BY <1>2, <1>5, <2>1 DEF IInv, Retries, bootVars
<1>15. QED
  BY <1>7, <1>8, <1>11, <1>13, <1>14 DEF IInv

LEMMA SpawnErrorKeeps ==
  ASSUME IInv, NEW b \in Boots, SpawnError(b)
  PROVE  IInv'
<1>1. PICK s : s = sess[b]
  OBVIOUS
<1>2. /\ Granted(b) /\ Continue(s, b)
      /\ pi' = [pi EXCEPT ![b] = "dead"] /\ exited' = [exited EXCEPT ![b] = TRUE]
      /\ gen' = [gen EXCEPT ![s] = b] /\ rpc' = [rpc EXCEPT ![s] = b] /\ alive' = [alive EXCEPT ![s] = TRUE]
      /\ UNCHANGED <<bootVars, turn, pipe, seen, streaming, saved, late>>
  BY <1>1 DEF SpawnError
<1>3. /\ life[s] = "disposed" => UNCHANGED queueVars
      /\ life[s] # "disposed" => ReleaseSpawn(b)
      /\ \/ who[b] = "retry" /\ retry' = [retry EXCEPT ![s] = "hydrate"] /\ UNCHANGED retried
         \/ who[b] # "retry" /\ (UNCHANGED <<retry, retried>> \/ RetryStartup(s))
  <2>1. retry \in [Sessions -> {"no", "pause", "boot", "hydrate"}]
    BY DEF IInv, Types
  <2>2. [retry EXCEPT ![s] = @] = retry
    BY <2>1
  <2>3. CASE life[s] = "disposed"
    BY <1>1, <2>2, <2>3 DEF SpawnError
  <2>4. CASE life[s] # "disposed"
    BY <1>1, <2>4 DEF SpawnError
  <2>5. QED
    BY <2>3, <2>4
<1>4. /\ b # None /\ b <= booted /\ call[b] = "resolved" /\ s \in Sessions
      /\ pi[b] = "none" /\ ~exited[b] /\ ~seen[b] /\ pipe[b] = <<>> /\ Holder = b
      /\ \A c \in Boots : c # b => ~Granted(c)
  BY <1>1, <1>2, GrantedBoot
<1>5. /\ pi'[b] = "dead" /\ \A c \in Boots : c # b => pi'[c] = pi[c]
      /\ exited' \in [Boots -> BOOLEAN] /\ exited'[b] /\ \A c \in Boots : c # b => (exited'[c] <=> exited[c])
  BY <1>2 DEF IInv, Types
<1>6. /\ retry' \in [Sessions -> {"no", "pause", "boot", "hydrate"}] /\ retried' \in [Sessions -> BOOLEAN]
      /\ \A t \in Sessions : t # s => retry'[t] = retry[t] /\ (retried'[t] <=> retried[t])
      /\ who[b] = "retry" \/ \A c \in Boots : sess[c] = s /\ who[c] = "retry" => retry'[s] = retry[s]
      /\ Retries'
  <2>1. CASE who[b] = "retry" /\ retry' = [retry EXCEPT ![s] = "hydrate"] /\ UNCHANGED retried
    <3>1. /\ retry' \in [Sessions -> {"no", "pause", "boot", "hydrate"}] /\ retry'[s] = "hydrate"
          /\ \A t \in Sessions : t # s => retry'[t] = retry[t]
          /\ retried \in [Sessions -> BOOLEAN]
      BY <1>4, <2>1 DEF IInv, Types
    <3>2. retried[s]
      BY <1>1, <1>2, <2>1, GrantedBoot
    <3>3. Retries'
      BY <1>2, <2>1, <3>1, <3>2 DEF IInv, Retries, bootVars
    <3>4. QED
      BY <2>1, <3>1, <3>3
  <2>2. CASE UNCHANGED <<retry, retried>> \/ RetryStartup(s)
    BY <1>2, <1>4, <2>2, RetryStartupKeeps
  <2>3. QED
    BY <1>3, <2>1, <2>2
<1>7. /\ Types' /\ Pendings' /\ Lives' /\ Endings' /\ Leftovers'
      /\ \A t \in Sessions : life'[t] = "disposed" <=> life[t] = "disposed"
  <2>1. PICK p \in {"up", "dead"} : p = "dead" /\ pi' = [pi EXCEPT ![b] = p]
    BY <1>2
  <2>2. exited' \in [Boots -> BOOLEAN] /\ (exited'[b] => p = "dead")
        /\ \A c \in Boots : c # b => (exited'[c] <=> exited[c])
    BY <1>5, <2>1
  <2>3. QED
    BY <1>1, <1>2, <1>6, <2>1, <2>2, ClientComes
<1>8. /\ P!Lines' /\ reported \subseteq reported' /\ \E n : Hands(n)
      /\ Holder' = b => life[s] = "disposed"
  <2>1. CASE life[s] = "disposed"
    BY <1>3, <2>1, LinesStay DEF IInv, queueVars
  <2>2. CASE life[s] # "disposed"
    BY <1>3, <1>4, <2>2, ReleaseKeeps DEF IInv
  <2>3. QED
    BY <2>1, <2>2
<1>9. BootBooks'
  BY <1>2, <1>4, <1>5, <1>8, BooksKeep
<1>10. Turns'
  <2>1. ~Granted(b)'
    BY <1>5 DEF Granted
  <2>2. gen'[sess[b]] = b
    BY <1>1, <1>2, <1>4 DEF IInv, Types
  <2>3. Holder' = b => life'[sess[b]] = "disposed"
    BY <1>1, <1>4, <1>7, <1>8
  <2>4. QED
    BY <1>1, <1>2, <1>4, <1>5, <1>7, <1>8, <2>1, <2>2, <2>3, TurnsKeep
<1>11. QED
  BY <1>6, <1>7, <1>8, <1>9, <1>10 DEF IInv

LEMMA SpawnThrowsKeeps ==
  ASSUME IInv, NEW b \in Boots, SpawnThrows(b)
  PROVE  IInv'
<1>1. PICK s : s = sess[b]
  OBVIOUS
<1>2. /\ Granted(b) /\ ReleaseSpawn(b)
      /\ exited' = [exited EXCEPT ![b] = TRUE] /\ gen' = [gen EXCEPT ![s] = b]
      /\ life' = [life EXCEPT ![s] = IF who[b] = "create" THEN "failed" ELSE @]
      /\ reload' = [reload EXCEPT ![s] = IF who[b] = "reload" THEN "no" ELSE @]
      /\ retry' = [retry EXCEPT ![s] = IF who[b] = "retry" THEN "no" ELSE @]
      /\ alive' = [alive EXCEPT ![s] = IF who[b] = "retry" THEN FALSE ELSE @]
      /\ UNCHANGED <<bootVars, pi, turn, pipe, killed, seen, rpc, retried, streaming, saved, late>>
  BY <1>1 DEF SpawnThrows
<1>3. /\ b # None /\ b <= booted /\ call[b] = "resolved" /\ s \in Sessions
      /\ who[b] \in {"create", "reload", "retry"}
      /\ pi[b] = "none" /\ ~seen[b] /\ pipe[b] = <<>> /\ Pending(b)
      /\ \A c \in Boots : c # b => ~Granted(c)
      /\ \A t \in Sessions : gen[t] # b /\ rpc[t] # b
      /\ \A c \in Boots : Pending(c) /\ sess[c] = s /\ who[c] = who[b] => c = b
      /\ who[b] = "create" => life[s] = "creating"
      /\ who[b] # "create" => ~Unopened(s)
  BY <1>1, <1>2, GrantedBoot
<1>4. /\ life' \in [Sessions -> {"none", "creating", "open", "disposed", "failed"}]
      /\ who[b] = "create" => life'[s] = "failed"
      /\ who[b] # "create" => life'[s] = life[s]
      /\ \A t \in Sessions : t # s => life'[t] = life[t]
  BY <1>2, <1>3 DEF IInv, Types
<1>5. /\ reload' \in [Sessions -> {"no", "boot", "hydrate"}]
      /\ who[b] # "reload" => reload'[s] = reload[s]
      /\ \A t \in Sessions : t # s => reload'[t] = reload[t]
  BY <1>2, <1>3 DEF IInv, Types
<1>6. /\ retry' \in [Sessions -> {"no", "pause", "boot", "hydrate"}]
      /\ who[b] = "retry" => retry'[s] = "no"
      /\ who[b] # "retry" => retry'[s] = retry[s]
      /\ \A t \in Sessions : t # s => retry'[t] = retry[t]
  BY <1>2, <1>3 DEF IInv, Types
<1>7. /\ alive' \in [Sessions -> BOOLEAN]
      /\ who[b] = "retry" => ~alive'[s]
      /\ who[b] # "retry" => (alive'[s] <=> alive[s])
      /\ \A t \in Sessions : t # s => (alive'[t] <=> alive[t])
  <2>1. alive \in [Sessions -> BOOLEAN]
    BY DEF IInv, Types
  <2>2. CASE who[b] = "retry"
    BY <1>2, <1>3, <2>1, <2>2
  <2>3. CASE who[b] # "retry"
    BY <1>2, <1>3, <2>1, <2>3
  <2>4. QED
    BY <2>2, <2>3
<1>8. /\ exited' \in [Boots -> BOOLEAN] /\ exited'[b] /\ \A c \in Boots : c # b => (exited'[c] <=> exited[c])
      /\ gen' \in [Sessions -> Boots \cup {None}] /\ gen'[s] = b
      /\ \A t \in Sessions : t # s => gen'[t] = gen[t]
  BY <1>2, <1>3 DEF IInv, Types
<1>9. \A c \in Boots : Pending(c)' => Pending(c) /\ c # b
  BY <1>2, <1>8 DEF Pending, bootVars
<1>10. P!Lines' /\ reported \subseteq reported' /\ Holder' # b /\ \E n : Hands(n)
  BY <1>2, <1>3, ReleaseKeeps DEF IInv
<1>11. BootBooks'
  BY <1>2, <1>3, <1>8, <1>10, BooksKeep
<1>12. Turns'
  <2>1. ~Granted(b)'
    BY <1>8 DEF Granted
  <2>2. \A t \in Sessions : life[t] = "disposed" => life'[t] = "disposed"
    BY <1>3, <1>4
  <2>3. Holder = b /\ gen' = [gen EXCEPT ![sess[b]] = b]
    BY <1>1, <1>2, GrantedBoot
  <2>4. QED
    BY <1>2, <1>3, <1>8, <1>10, <2>1, <2>2, <2>3, TurnsKeep
<1>13. Types'
  BY <1>2, <1>4, <1>5, <1>6, <1>7, <1>8 DEF IInv, Types, bootVars
<1>14. Pendings'
  <2> SUFFICES ASSUME NEW c \in Boots, Pending(c)'
               PROVE  /\ Pending(c)
                      /\ who[c] = "create" => life'[sess[c]] = life[sess[c]]
                      /\ who[c] = "reload" => reload'[sess[c]] = reload[sess[c]]
                      /\ who[c] = "retry" => retry'[sess[c]] = retry[sess[c]]
    BY <1>2, PendingsKeep
  <2>1. Pending(c) /\ c # b /\ sess[c] \in Sessions
    BY <1>9 DEF Pending, IInv, BootBooks
  <2>2. CASE sess[c] = s
    BY <1>3, <1>4, <1>5, <1>6, <2>1, <2>2
  <2>3. CASE sess[c] # s
    BY <1>4, <1>5, <1>6, <2>1, <2>3
  <2>4. QED
    BY <2>2, <2>3
<1>15. \A t \in Sessions : Unopened(t)' <=> Unopened(t)
  BY <1>3, <1>4 DEF Unopened
<1>16. Lives'
  <2> SUFFICES ASSUME NEW t \in Sessions
               PROVE  /\ Unopened(t) =>
                           /\ rpc[t] = None /\ reload'[t] = "no" /\ ~retried[t] /\ ~alive'[t] /\ ~streaming[t]
                           /\ \A c \in Boots : sess[c] = t => who[c] = "create" /\ pi[c] = "none"
                      /\ life'[t] = "none" => \A c \in Boots : sess[c] # t
                      /\ ~Unopened(t) => rpc[t] \in Boots /\ sess[rpc[t]] = t /\ pi[rpc[t]] # "none"
                      /\ gen'[t] = None => rpc[t] = None
                      /\ gen'[t] # None => /\ sess[gen'[t]] = t
                                           /\ gen'[t] = rpc[t] \/ (pi[gen'[t]] = "none" /\ exited'[gen'[t]])
    BY <1>2, <1>15 DEF Lives, bootVars
  <2>1. /\ Unopened(t) =>
             /\ rpc[t] = None /\ reload[t] = "no" /\ ~retried[t] /\ ~alive[t] /\ ~streaming[t]
             /\ \A c \in Boots : sess[c] = t => who[c] = "create" /\ pi[c] = "none"
        /\ life[t] = "none" => \A c \in Boots : sess[c] # t
        /\ ~Unopened(t) => rpc[t] \in Boots /\ sess[rpc[t]] = t /\ pi[rpc[t]] # "none"
        /\ gen[t] = None => rpc[t] = None
        /\ gen[t] # None => /\ sess[gen[t]] = t
                            /\ gen[t] = rpc[t] \/ (pi[gen[t]] = "none" /\ exited[gen[t]])
    BY DEF IInv, Lives
  <2>2. CASE t = s
    <3>1. Unopened(s) => who[b] = "create"
      BY <1>3
    <3>2. life'[s] # "none"
      BY <1>3, <1>4 DEF Unopened
    <3>3. QED
      BY <1>1, <1>3, <1>5, <1>7, <1>8, <2>1, <2>2, <3>1, <3>2
  <2>3. CASE t # s
    <3>1. gen[t] # None => gen[t] \in Boots /\ gen[t] # b
      BY <1>3 DEF IInv, Types
    <3>2. QED
      BY <1>4, <1>5, <1>7, <1>8, <2>1, <2>3, <3>1
  <2>4. QED
    BY <2>2, <2>3
<1>17. Retries'
  BY <1>2, <1>6 DEF IInv, Retries, bootVars
<1>18. Endings'
  <2> SUFFICES ASSUME NEW t \in Sessions, gen'[t] = rpc[t], rpc[t] # None
               PROVE  /\ ~alive'[t] => exited'[rpc[t]] \/ killed[rpc[t]]
                      /\ alive'[t] /\ exited'[rpc[t]] => ~seen[rpc[t]] /\ pipe[rpc[t]] = <<>>
                      /\ ~late[t] /\ ~alive'[t] => ~streaming[t]
    BY <1>2 DEF Endings
  <2>1. t # s /\ rpc[t] \in Boots /\ rpc[t] # b
    BY <1>3, <1>8 DEF IInv, Types
  <2>2. QED
    BY <1>7, <1>8, <2>1 DEF IInv, Endings
<1>19. Leftovers'
  <2> SUFFICES ASSUME NEW t \in Sessions PROVE \E x \in Boots \cup {None} : Left(t, x)'
    BY DEF Leftovers
  <2>1. Running(t)' \subseteq Running(t)
    BY <1>2 DEF Running, bootVars
  <2>2. CASE t # s \/ who[b] # "retry"
    <3>1. (~alive'[t] => ~alive[t]) /\ (life'[t] = "disposed" => life[t] = "disposed")
      BY <1>4, <1>7, <2>2
    <3>2. QED
      BY <1>2, <1>9, <2>1, <3>1, LeftKeeps
  <2>3. CASE t = s /\ who[b] = "retry"
    <3>1. PICK x \in Boots \cup {None} : Left(t, x)
      BY DEF IInv, Leftovers
    <3>2. ~RetryRan(s)
      BY <1>1, <1>2, <2>3, GrantedBoot
    <3>3. x = None
      BY <2>3, <3>1, <3>2 DEF Left
    <3>4. Running(t)' \subseteq {rpc[t]} /\ rpc[t] \in Boots \cup {None} /\ rpc'[t] = rpc[t]
      BY <1>2, <2>1, <3>1, <3>3, SessionsAssumption DEF Left, Running, IInv, Types
    <3>5. RetryRan(t)'
      BY <1>1, <1>2, <1>9, <2>3 DEF RetryRan, bootVars
    <3>6. \A y : y = rpc[t] => Left(t, y)'
      BY <3>4, <3>5 DEF Left
    <3>7. QED
      BY <3>4, <3>6
  <2>4. QED
    BY <2>2, <2>3
<1>20. QED
  BY <1>10, <1>11, <1>12, <1>13, <1>14, <1>16, <1>17, <1>18, <1>19 DEF IInv

--------------------------------------------------------------------------------
\* The invariant

LEMMA InitIInv == Init => IInv
<1> SUFFICES ASSUME Init PROVE IInv
  OBVIOUS
<1>1. Q!Init
  BY DEF Init
<1>2. /\ held = [k \in {Profile} |-> None] /\ waiting = [k \in {Profile} |-> <<>>]
      /\ watching = [k \in {Profile} |-> 0] /\ armed = {} /\ call = [c \in Q!Calls |-> "new"] /\ reported = {}
      /\ Q!Calls = Boots
  BY <1>1 DEF Q!Init, Q!Calls
<1>3. P!TypeOK /\ P!HolderIsFresh
  BY <1>2 DEF P!TypeOK, P!HolderIsFresh, P!Calls
<1>4. P!InLine /\ P!OnceInLine /\ P!HadItsTurn
  BY <1>2 DEF P!InLine, P!OnceInLine, P!HadItsTurn
<1>5. Types /\ booted = 0
  BY SessionsAssumption DEF Init, Types
<1>6. \A b \in Boots : /\ ~(b <= booted) /\ sess[b] = None /\ who[b] = "none" /\ pi[b] = "none" /\ ~exited[b]
                       /\ ~seen[b] /\ pipe[b] = <<>> /\ call[b] = "new"
  BY <1>2, <1>5 DEF Init, Boots
<1>7. BootBooks /\ Pendings
  BY <1>6, SessionsAssumption DEF BootBooks, Pendings, Pending
<1>8. \A s \in Sessions : /\ life[s] = "none" /\ rpc[s] = None /\ gen[s] = None /\ reload[s] = "no"
                          /\ retry[s] = "no" /\ ~retried[s] /\ ~alive[s] /\ ~streaming[s]
  BY DEF Init
<1>9. Lives /\ Retries /\ Endings
  BY <1>6, <1>8, SessionsAssumption DEF Lives, Unopened, Retries, Endings
<1>10. Leftovers
  <2> SUFFICES ASSUME NEW s \in Sessions PROVE \E x \in Boots \cup {None} : Left(s, x)
    BY DEF Leftovers
  <2>1. Left(s, None)
    BY <1>6 DEF Left, Running
  <2>2. QED
    BY <2>1
<1>11. Turns
  BY <1>2, <1>6 DEF Turns, Granted, FailureGivesTurnBack, Holder
<1>12. QED
  BY <1>3, <1>4, <1>5, <1>7, <1>9, <1>10, <1>11 DEF IInv, P!Lines

LEMMA NextIInv == IInv /\ [Next]_vars => IInv'
<1> SUFFICES ASSUME IInv, [Next]_vars PROVE IInv'
  OBVIOUS
<1>1. ASSUME NEW s \in Sessions, Create(s) PROVE IInv'
  BY <1>1, CreateKeeps
<1>2. ASSUME NEW s \in Sessions, Reload(s) PROVE IInv'
  BY <1>2, ReloadKeeps
<1>3. ASSUME NEW s \in Sessions, RetryBoots(s) PROVE IInv'
  BY <1>3, RetryBootsKeeps, RetryGivesUpKeeps
<1>4. ASSUME NEW s \in Sessions, HydrateEnds(s) PROVE IInv'
  BY <1>4, HydrateEndsKeeps
<1>5. ASSUME NEW s \in Sessions, Dispose(s) PROVE IInv'
  BY <1>5, DisposeKeeps
<1>6. ASSUME NEW b \in Boots, Spawn(b) \/ SpawnError(b) \/ SpawnThrows(b) PROVE IInv'
  BY <1>6, SpawnKeeps, SpawnErrorKeeps, SpawnThrowsKeeps
<1>7. ASSUME NEW b \in Boots, PiPrints(b) \/ PiDies(b) PROVE IInv'
  BY <1>7, PiPrintsKeeps, PiDiesKeeps
<1>8. ASSUME NEW b \in Boots, ReadLine(b) \/ ExitEvent(b) \/ Ceiling(b) PROVE IInv'
  BY <1>8, ReadLineKeeps, ExitEventKeeps, CeilingKeeps
<1>9. CASE UNCHANGED vars
  <2>1. UNCHANGED <<queueVars, bootVars, pi, turn, pipe, killed, seen, exited, rpc, gen, alive, life,
                    reload, retry, retried, streaming, saved, late>>
    BY <1>9 DEF vars, piVars, restartVars, clientVars
  <2>2. P!Lines' /\ BootBooks' /\ Turns' /\ \A c \in Boots : Pending(c)' <=> Pending(c)
    BY <2>1, QuietKeeps
  <2>3. Types' /\ Lives' /\ Retries' /\ Endings'
    BY <2>1 DEF IInv, Types, Lives, Unopened, Retries, Endings, bootVars
  <2>4. Pendings'
    BY <2>1, <2>2, PendingsKeep
  <2>5. Leftovers'
    BY <2>1, <2>2, LeftKeeps DEF Leftovers, Running, bootVars
  <2>6. QED
    BY <2>2, <2>3, <2>4, <2>5 DEF IInv
<1>10. QED
  BY <1>1, <1>2, <1>3, <1>4, <1>5, <1>6, <1>7, <1>8, <1>9 DEF Next, Idle

LEMMA Invariance == Spec => []IInv
BY InitIInv, NextIInv, PTL DEF Spec

--------------------------------------------------------------------------------
\* Results

\* At most one pi of a session runs that no window can reach, and only after its retry.
LEMMA LeftIsOne ==
  ASSUME IInv, NEW s \in Sessions
  PROVE  Cardinality(Orphans(s)) <= IF retried[s] THEN 1 ELSE 0
<1>1. PICK x \in Boots \cup {None} : Left(s, x)
  BY DEF IInv, Leftovers
<1>2. Orphans(s) \subseteq {x}
  BY <1>1 DEF Orphans, Left, Running
<1>3. ~retried[s] => x = None
  BY <1>1 DEF Left, RetryRan, IInv, Retries
<1>4. None \notin Orphans(s)
  BY SessionsAssumption DEF Orphans
<1>5. CASE Orphans(s) = {}
  BY <1>5, FS_EmptySet
<1>6. CASE Orphans(s) = {x} /\ retried[s]
  BY <1>6, FS_Singleton
<1>7. QED
  BY <1>2, <1>3, <1>4, <1>5, <1>6

\* A session's boots for the retry are one at most.
LEMMA RetryIsOne ==
  ASSUME IInv, NEW s \in Sessions
  PROVE  Cardinality({b \in Boots : sess[b] = s /\ who[b] = "retry"}) <= 1
<1> DEFINE again == {b \in Boots : sess[b] = s /\ who[b] = "retry"}
<1>1. \A b, c \in again : b = c
  BY DEF IInv, Retries
<1>2. CASE again = {}
  BY <1>2, FS_EmptySet
<1>3. CASE again # {}
  <2>1. PICK b \in again : again = {b}
    BY <1>1, <1>3
  <2>2. Cardinality({b}) = 1
    BY FS_Singleton
  <2>3. QED
    BY <2>1, <2>2
<1>4. QED
  BY <1>2, <1>3

\* Reloads, messages to a dead pi, early exits and closings in any order leave no pi behind but
\* by the retry of a start-up that failed, of which a session has one (bootRpc, reloadSession,
\* retryStartup, dispose).
THEOREM NoPiIsLeftBehind == Spec => []PisAreAccountedFor
<1>1. IInv => PisAreAccountedFor
  <2> SUFFICES ASSUME IInv PROVE PisAreAccountedFor
    OBVIOUS
  <2>1. TypeOK
    BY QueueTypes DEF IInv, Types, TypeOK
  <2>2. OrphansOnlyByRetry
    BY LeftIsOne DEF OrphansOnlyByRetry
  <2>3. NoCrashLoop
    BY RetryIsOne DEF NoCrashLoop
  <2>4. QED
    BY <2>1, <2>2, <2>3 DEF PisAreAccountedFor
<1>2. QED
  BY <1>1, Invariance, PTL

\* Whatever a pi ends by, its session learns of it, and the queue does not stay with a start-up
\* that is known to have failed (onExit, onError, the catch of the spawn).
THEOREM DeathsAreNoticed == Spec => []DeathIsNoticed
<1>1. IInv => DeathIsNoticed
  <2> SUFFICES ASSUME IInv PROVE DeathIsNoticed
    OBVIOUS
  <2>1. \A s \in Sessions : life[s] = "open" => rpc[s] \in Boots /\ rpc[s] # None
    BY SessionsAssumption DEF IInv, Lives, Unopened
  <2>2. \A b \in Boots : exited[b] => pi[b] # "up"
    BY DEF IInv, BootBooks
  <2>3. \A s \in Sessions : life[s] = "open" => pi[rpc[s]] \in {"up", "dead"}
    BY <2>1 DEF IInv, Lives, Unopened, Types
  <2>4. DeadMeansDead
    BY <2>1, <2>2, <2>3 DEF DeadMeansDead, BelievedDead, IInv, Endings
  <2>5. ExitIsNoticed
    BY <2>1 DEF ExitIsNoticed, IInv, Endings
  <2>6. StreamingEndsWithPi
    BY <2>1 DEF StreamingEndsWithPi, BelievedDead, IInv, Endings
  <2>7. QED
    BY <2>4, <2>5, <2>6 DEF DeathIsNoticed, IInv, Turns
<1>2. QED
  BY <1>1, Invariance, PTL

\* A first boot, or a further one, asks the queue for its turn; a start-up gives its turn back
\* once; and only the ceiling takes it (bootRpc, releaseSpawn).
LEMMA StepUsesQueue ==
  ASSUME IInv, [Next]_vars
  PROVE  [\E b \in Boots : Q!Ask(b) \/ Q!Report(b) \/ Ceiling(b)]_queueVars
<1>1. ASSUME NEW s \in Sessions, NEW cause, StartBoot(s, cause) PROVE \E b \in Boots : Q!Ask(b)
  <2>1. Q!Acquire(booted + 1) /\ UNCHANGED reported
    BY <1>1 DEF StartBoot
  <2>2. booted + 1 \in Boots
    BY <2>1 DEF Q!Acquire
  <2>3. QED
    BY <2>1, <2>2 DEF Q!Ask
<1>2. ASSUME NEW b \in Boots, call[b] = "resolved", ReleaseSpawn(b) PROVE UNCHANGED queueVars \/ Q!Report(b)
  <2>1. b \in reported => UNCHANGED queueVars
    BY <1>2 DEF ReleaseSpawn
  <2>2. b \notin reported => reported' = reported \cup {b} /\ Q!Release(Profile)
    BY <1>2 DEF ReleaseSpawn
  <2>3. QED
    BY <1>2, <2>1, <2>2 DEF Q!Report, Q!Starting
<1>3. ASSUME NEW s \in Sessions, Create(s) \/ Reload(s) \/ RetryBoots(s) PROVE UNCHANGED queueVars \/ \E b \in Boots : Q!Ask(b)
  BY <1>1, <1>3 DEF Create, Reload, RetryBoots
<1>4. ASSUME NEW s \in Sessions, HydrateEnds(s) \/ Dispose(s) PROVE UNCHANGED queueVars
  BY <1>4 DEF HydrateEnds, Dispose
<1>5. ASSUME NEW b \in Boots, Spawn(b) \/ PiPrints(b) \/ PiDies(b) PROVE UNCHANGED queueVars
  BY <1>5 DEF Spawn, PiPrints, PiDies
<1>6. ASSUME NEW b \in Boots, SpawnError(b) \/ SpawnThrows(b) PROVE UNCHANGED queueVars \/ Q!Report(b)
  <2>1. Granted(b) /\ (UNCHANGED queueVars \/ ReleaseSpawn(b))
    BY <1>6 DEF SpawnError, SpawnThrows
  <2>2. QED
    BY <1>2, <2>1 DEF Granted
<1>7. ASSUME NEW b \in Boots, ReadLine(b) \/ ExitEvent(b) PROVE UNCHANGED queueVars \/ Q!Report(b)
  <2>1. UNCHANGED queueVars \/ ReleaseSpawn(b)
    BY <1>7 DEF ReadLine, ExitEvent
  <2>2. pi[b] # "none"
    BY <1>7 DEF ReadLine, ExitEvent, IInv, BootBooks
  <2>3. call[b] = "resolved"
    BY <2>2, HasPi
  <2>4. QED
    BY <1>2, <2>1, <2>3
<1>8. QED
  BY <1>3, <1>4, <1>5, <1>6, <1>7 DEF Next, Idle, vars

\* Sessions use the queue as SpawnQueue takes its callers to.
THEOREM TheQueueIsUsedAsMeant == Spec => UsesQueueAsAssumed
<1>1. IInv /\ [Next]_vars => [\E b \in Boots : Q!Ask(b) \/ Q!Report(b) \/ Ceiling(b)]_queueVars
  BY StepUsesQueue
<1>2. QED
  BY <1>1, Invariance, PTL DEF Spec, UsesQueueAsAssumed
================================================================================
