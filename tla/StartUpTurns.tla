------------------------------ MODULE StartUpTurns ------------------------------
(***************************************************************************)
(* What the spawn queue promises its callers, without timers, promises or  *)
(* list splicing.  Per profile there is one turn.  A caller that wants it  *)
(* gets it in the order of asking; a caller that only watches is let go    *)
(* when the turn it found taken is passed on, and does not take a turn.    *)
(* SpawnQueue implements this module (SpawnQueue!Turns).                    *)
(***************************************************************************)
CONSTANTS
  Keys,       \* install prefixes (profileKey of a child's environment)
  Takers,     \* calls of acquire
  Watchers,   \* calls of whenIdle
  KeyOf,      \* the key each call names
  None

VARIABLES
  turn,       \* per key: the caller whose turn it is, or None
  line,       \* per key: the callers that want the turn
  ahead,      \* per caller: those in line that asked before it
  watch,      \* per key: the callers watching for the turn to pass
  asked       \* the calls made so far

vars == <<turn, line, ahead, watch, asked>>

Init ==
  /\ turn = [k \in Keys |-> None]
  /\ line = [k \in Keys |-> {}]
  /\ ahead = [c \in Takers |-> {}]
  /\ watch = [k \in Keys |-> {}]
  /\ asked = {}

\* A caller asks for the turn: it has it at once when it is free.
Ask(c) ==
  /\ c \in Takers \ asked
  /\ asked' = asked \cup {c}
  /\ \/ /\ turn[KeyOf[c]] = None
        /\ turn' = [turn EXCEPT ![KeyOf[c]] = c]
        /\ UNCHANGED <<line, ahead>>
     \/ /\ turn[KeyOf[c]] # None
        /\ line' = [line EXCEPT ![KeyOf[c]] = @ \cup {c}]
        /\ ahead' = [ahead EXCEPT ![c] = line[KeyOf[c]]]
        /\ UNCHANGED turn
  /\ UNCHANGED watch

\* A caller watches: it is let go at once when the turn is free.
Watch(w) ==
  /\ w \in Watchers \ asked
  /\ asked' = asked \cup {w}
  /\ watch' = [watch EXCEPT ![KeyOf[w]] =
                 IF turn[KeyOf[w]] = None THEN @ ELSE @ \cup {w}]
  /\ UNCHANGED <<turn, line, ahead>>

\* The turn is passed on: to the one in line that asked first, with some watchers let go,
\* or to nobody, and then every watcher is let go.
Pass(k) ==
  /\ turn[k] # None
  /\ \E let \in SUBSET watch[k] : watch' = [watch EXCEPT ![k] = @ \ let]
  /\ \/ \E c \in line[k] :
          /\ ahead[c] = {}
          /\ turn' = [turn EXCEPT ![k] = c]
          /\ line' = [line EXCEPT ![k] = @ \ {c}]
          /\ ahead' = [d \in Takers |-> ahead[d] \ {c}]
     \/ /\ line[k] = {}
        /\ turn' = [turn EXCEPT ![k] = None]
        /\ watch'[k] = {}
        /\ UNCHANGED <<line, ahead>>
  /\ UNCHANGED asked

Next ==
  \/ \E c \in Takers : Ask(c)
  \/ \E w \in Watchers : Watch(w)
  \/ \E k \in Keys : Pass(k)

Spec == Init /\ [][Next]_vars /\ \A k \in Keys : WF_vars(Pass(k))
=============================================================================
