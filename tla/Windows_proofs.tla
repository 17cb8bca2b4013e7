----------------------------- MODULE Windows_proofs -----------------------------
(***************************************************************************)
(* Proofs about Windows for any number of windows, sessions and files: an   *)
(* open window's messages go to a live session of its own, and a live       *)
(* session nobody can reach was lost in one of two races.  The invariant    *)
(* says where every live session is registered, and what the sessions that  *)
(* are still booting will find when they are there.                        *)
(*                                                                         *)
(* The last part is about RpcClient, the client each session has of its pi, *)
(* for any set of requests and any pipe.  Its properties are proved         *)
(* together: that nothing waits on a pi that is gone needs that its stdin   *)
(* is gone (ExitClosesStdin), and that the map is what FailAll settles.     *)
(***************************************************************************)
EXTENDS Windows, RpcClient, Integers, TLAPS

Unmapped(s) == owner[s] \in early \/ (owner[s] = Main /\ overlap)

\* The types of all but the owners in the map, which the invariant has with their lives.
Types ==
  /\ win \in [Windows -> {"none", "open", "closed"}]
  /\ stage \in [Windows -> {"none", "loading", "booting", "ready"}]
  /\ target \in [Windows -> Files \cup {None}]
  /\ windowSessions \in [Windows -> Sessions \cup {None}]
  /\ windowsBySession \in [Files -> Children \cup {None}]
  /\ chatSession \in Sessions \cup {None}
  /\ made \in 0..MaxSessions
  /\ owner \in [Sessions -> Windows \cup {None}]
  /\ life \in [Sessions -> {"none", "booting", "up", "failed", "disposed"}]
  /\ previous \in [Sessions -> Sessions \cup {None}]
  /\ moves \in 0..MaxMoves /\ quit \in BOOLEAN
  /\ early \subseteq Windows /\ overlap \in BOOLEAN

FileTypes ==
  /\ file \in [Sessions -> Files \cup {None}] /\ known \in [Sessions -> Files \cup {None}]
  /\ disk \subseteq Files /\ moved \subseteq Sessions
  /\ \A s \in Sessions : life[s] = "up" => file[s] \in Files

\* Sessions are made in order, for a window; a rebind's is made for Main, after the one it replaces.
MadeInOrder ==
  \A s \in Sessions :
    /\ life[s] = "none" <=> s > made
    /\ s <= made => owner[s] \in Windows
    /\ s > made => owner[s] = None /\ previous[s] = None
    /\ previous[s] # None => previous[s] < s /\ owner[s] = Main /\ owner[previous[s]] = Main

\* A window that opens boots one session.
OneBoots ==
  \A s \in Sessions : life[s] = "booting" /\ previous[s] = None =>
    /\ stage[owner[s]] = "booting"
    /\ \A t \in Sessions : life[t] = "booting" /\ previous[t] = None /\ owner[t] = owner[s] => t = s

\* What is registered for a window is its own and alive, and the main window's is chatSession.
RegisteredAlive ==
  /\ \A w \in Windows : windowSessions[w] # None =>
       owner[windowSessions[w]] = w /\ life[windowSessions[w]] = "up" /\ stage[w] = "ready"
  /\ chatSession # None => owner[chatSession] = Main /\ stage[Main] = "ready"
  /\ win[Main] = "open" /\ ~quit => windowSessions[Main] = chatSession
  /\ win[Main] # "open" => windowSessions[Main] = None
  /\ quit => \A w \in Windows : windowSessions[w] = None

\* A window that closes before it is ready is remembered.
StagesFollow ==
  /\ win[Main] # "none"
  /\ \A w \in Windows :
       /\ win[w] = "none" => stage[w] = "none"
       /\ win[w] = "closed" /\ stage[w] # "ready" => w \in early

\* A rebind in flight replaces the session that is there, unless another did or the window closed.
RebindsReplace ==
  \A s \in Sessions : Rebinding(s) =>
    /\ stage[Main] = "ready"
    /\ win[Main] # "open" => Main \in early
    /\ chatSession = previous[s] \/ overlap \/ Main \in early
    /\ \A t \in Sessions : Rebinding(t) => t = s \/ overlap

\* Where a live session is.
LiveAreMapped ==
  \A s \in Sessions : life[s] = "up" =>
    Unmapped(s) \/ (~quit /\ win[owner[s]] = "open" /\ windowSessions[owner[s]] = s)

SessionInv == MadeInOrder /\ OneBoots /\ RegisteredAlive /\ StagesFollow /\ RebindsReplace /\ LiveAreMapped
IInv == Types /\ FileTypes /\ SessionInv

LEMMA Names ==
  /\ Main \in Windows /\ None \notin Windows /\ None \notin Files /\ None \notin Sessions
  /\ \A s \in Sessions : s \in Int /\ s >= 1 /\ s <= MaxSessions
  /\ \A s \in Int : 1 <= s /\ s <= MaxSessions => s \in Sessions
  /\ MaxSessions \in Nat /\ MaxMoves \in Nat /\ \A w \in Children : w # Main
BY WindowsAssumption DEF Windows, Sessions

LEMMA InitIInv == Init => IInv
<1> SUFFICES ASSUME Init PROVE IInv
  OBVIOUS
<1> USE Names DEF Init
<1>1. Types /\ FileTypes
  <2>1. /\ win \in [Windows -> {"none", "open", "closed"}]
        /\ stage \in [Windows -> {"none", "loading", "booting", "ready"}]
    BY DEF Windows
  <2>2. made \in 0..MaxSessions /\ moves \in 0..MaxMoves
    OBVIOUS
  <2>3. Types
    BY <2>1, <2>2 DEF Types
  <2>4. FileTypes
    BY WindowsAssumption DEF FileTypes
  <2>5. QED BY <2>3, <2>4
<1>2. MadeInOrder /\ OneBoots
  BY DEF MadeInOrder, OneBoots
<1>3. RegisteredAlive /\ StagesFollow
  BY DEF RegisteredAlive, StagesFollow
<1>4. RebindsReplace /\ LiveAreMapped
  BY DEF RebindsReplace, Rebinding, LiveAreMapped
<1>5. QED BY <1>1, <1>2, <1>3, <1>4 DEF IInv, SessionInv

--------------------------------------------------------------------------------
\* Steps that make no session, end none and register none.
LEMMA NothingNew ==
  ASSUME SessionInv, Types, UNCHANGED <<win, stage, windowSessions, chatSession, made, owner, life, previous, quit,
                                        early, overlap>>
  PROVE  SessionInv'
<1>1. MadeInOrder' /\ OneBoots' /\ RegisteredAlive' /\ StagesFollow'
  BY DEF SessionInv, MadeInOrder, OneBoots, RegisteredAlive, StagesFollow
<1>2. RebindsReplace' /\ LiveAreMapped'
  BY DEF SessionInv, RebindsReplace, Rebinding, LiveAreMapped, Unmapped
<1>3. QED BY <1>1, <1>2 DEF SessionInv

\* A window is opened: it has nothing yet.
LEMMA OpenKeeps ==
  ASSUME IInv, NEW w \in Children, NEW f \in disk \cup {None}, OpenSessionWindow(w, f)
  PROVE  IInv'
<1> USE Names
<1>1. Types /\ FileTypes /\ MadeInOrder /\ OneBoots /\ RegisteredAlive /\ StagesFollow /\ RebindsReplace /\ LiveAreMapped
  BY DEF IInv, SessionInv
<1>2. /\ win[w] = "none" /\ stage[w] = "none" /\ w \in Windows /\ w # Main
      /\ win' = [win EXCEPT ![w] = "open"] /\ stage' = [stage EXCEPT ![w] = "loading"]
      /\ target' = [target EXCEPT ![w] = f]
      /\ windowsBySession' = [x \in Files |-> IF x = f THEN w ELSE windowsBySession[x]]
      /\ UNCHANGED <<windowSessions, chatSession, made, owner, life, previous, file, known, disk, moves, quit, moved,
                     early, overlap>>
  BY <1>1 DEF OpenSessionWindow, StagesFollow, Windows, sessionVars, historyVars
<1>3. \A v \in Windows : win'[v] = (IF v = w THEN "open" ELSE win[v])
                       /\ stage'[v] = (IF v = w THEN "loading" ELSE stage[v])
  BY <1>1, <1>2 DEF Types
<1>4. Types'
  BY <1>1, <1>2 DEF Types, FileTypes
<1>5. FileTypes' /\ MadeInOrder'
  BY <1>1, <1>2 DEF FileTypes, MadeInOrder
<1>6. OneBoots'
  BY <1>1, <1>2, <1>3 DEF OneBoots, MadeInOrder, Types
<1>7. RegisteredAlive' /\ StagesFollow'
  BY <1>1, <1>2, <1>3 DEF RegisteredAlive, StagesFollow
<1>8. RebindsReplace'
  BY <1>1, <1>2, <1>3 DEF RebindsReplace, Rebinding
<1>9. LiveAreMapped'
  BY <1>1, <1>2, <1>3 DEF LiveAreMapped, Unmapped, MadeInOrder, Types
<1>10. QED BY <1>4, <1>5, <1>6, <1>7, <1>8, <1>9 DEF IInv, SessionInv

\* A session that is made for a window has no part in what is registered.
LEMMA StartMakes ==
  ASSUME Types, MadeInOrder, NEW w \in Windows, NEW p \in Sessions \cup {None}, StartSession(w, p)
  PROVE  /\ made' = made + 1 /\ made' \in Sessions /\ made' \in 0..MaxSessions
         /\ life[made'] = "none" /\ owner[made'] = None /\ previous[made'] = None
         /\ \A s \in Sessions : /\ owner'[s] = (IF s = made' THEN w ELSE owner[s])
                                /\ life'[s] = (IF s = made' THEN "booting" ELSE life[s])
                                /\ previous'[s] = (IF s = made' THEN p ELSE previous[s])
         /\ owner' \in [Sessions -> Windows \cup {None}]
         /\ life' \in [Sessions -> {"none", "booting", "up", "failed", "disposed"}]
         /\ previous' \in [Sessions -> Sessions \cup {None}]
<1> USE Names
<1>1. made' = made + 1 /\ made \in Int /\ made >= 0 /\ made < MaxSessions
  BY DEF StartSession, Types
<1>2. made' \in Sessions /\ made' \in 0..MaxSessions /\ made' > made
  BY <1>1
<1>3. life[made'] = "none" /\ owner[made'] = None /\ previous[made'] = None
  BY <1>2 DEF MadeInOrder
<1>4. /\ owner' = [owner EXCEPT ![made'] = w] /\ life' = [life EXCEPT ![made'] = "booting"]
      /\ previous' = [previous EXCEPT ![made'] = p]
  BY DEF StartSession
<1>5. QED BY <1>1, <1>2, <1>3, <1>4 DEF Types

\* The page of a window is loaded, and its session is made, unless it was closed.
LEMMA LoadKeeps ==
  ASSUME IInv, NEW w \in Windows, PageLoaded(w)
  PROVE  IInv'
<1> USE Names
<1>1. Types /\ FileTypes /\ MadeInOrder /\ OneBoots /\ RegisteredAlive /\ StagesFollow /\ RebindsReplace /\ LiveAreMapped
  BY DEF IInv, SessionInv
<1>2. /\ ~quit /\ stage[w] = "loading" /\ win[w] # "none"
      /\ UNCHANGED <<win, target, windowSessions, windowsBySession, chatSession, file, known, disk, moves, quit, moved,
                     early, overlap>>
  BY <1>1 DEF PageLoaded, StagesFollow, mapVars, historyVars
<1>3. CASE win[w] = "open"
  <2> DEFINE n == made'
  <2>1. stage' = [stage EXCEPT ![w] = "booting"] /\ StartSession(w, None)
    BY <1>3 DEF PageLoaded
  <2>2. /\ made' = made + 1 /\ made' \in Sessions /\ made' \in 0..MaxSessions
        /\ life[made'] = "none" /\ owner[made'] = None /\ previous[made'] = None
        /\ \A s \in Sessions : /\ owner'[s] = (IF s = made' THEN w ELSE owner[s])
                               /\ life'[s] = (IF s = made' THEN "booting" ELSE life[s])
                               /\ previous'[s] = (IF s = made' THEN None ELSE previous[s])
        /\ owner' \in [Sessions -> Windows \cup {None}]
        /\ life' \in [Sessions -> {"none", "booting", "up", "failed", "disposed"}]
        /\ previous' \in [Sessions -> Sessions \cup {None}]
    BY <1>1, <2>1, StartMakes
  <2>3. \A v \in Windows : stage'[v] = (IF v = w THEN "booting" ELSE stage[v])
    BY <1>1, <2>1 DEF Types
  <2>4. Types'
    BY <1>1, <1>2, <2>1, <2>2 DEF Types
  <2>5. FileTypes'
    BY <1>1, <1>2, <2>2 DEF FileTypes
  <2>6. MadeInOrder'
    <3>1. \A s \in Sessions : s > made' => s > made /\ s # made'
      BY <1>1, <2>2 DEF Types
    <3>2. \A s \in Sessions : s <= made' => s <= made \/ s = made'
      BY <1>1, <2>2 DEF Types
    <3>3. \A s \in Sessions : previous[s] # None => s # made' /\ previous[s] # made' /\ previous[s] \in Sessions
      BY <1>1, <2>2 DEF MadeInOrder, Types
    <3>4. \A s \in Sessions : life'[s] = "none" <=> s > made'
      BY <1>1, <2>2, <3>1, <3>2 DEF MadeInOrder, Types
    <3>5. \A s \in Sessions : s <= made' => owner'[s] \in Windows
      BY <1>1, <2>2, <3>2 DEF MadeInOrder
    <3>6. \A s \in Sessions : s > made' => owner'[s] = None /\ previous'[s] = None
      BY <1>1, <2>2, <3>1 DEF MadeInOrder
    <3>7. \A s \in Sessions : previous'[s] # None =>
            previous'[s] < s /\ owner'[s] = Main /\ owner'[previous'[s]] = Main
      <4> TAKE s \in Sessions
      <4> HAVE previous'[s] # None
      <4>1. s # made' /\ previous'[s] = previous[s] /\ previous[s] \in Sessions /\ previous[s] # made'
        BY <2>2, <3>3
      <4>2. owner'[s] = owner[s] /\ owner'[previous[s]] = owner[previous[s]]
        BY <2>2, <4>1
      <4>3. QED BY <1>1, <4>1, <4>2 DEF MadeInOrder
    <3>8. QED BY <3>4, <3>5, <3>6, <3>7 DEF MadeInOrder
  <2>7. OneBoots'
    <3>1. \A s \in Sessions : life[s] = "booting" /\ previous[s] = None => owner[s] # w
      BY <1>1, <1>2 DEF OneBoots
    <3>2. \A s \in Sessions : life[s] = "booting" => owner[s] \in Windows
      BY <1>1 DEF MadeInOrder, Types
    <3>3. QED BY <1>1, <2>2, <2>3, <3>1, <3>2 DEF OneBoots
  <2>8. RegisteredAlive' /\ StagesFollow'
    <3>1. \A v \in Windows : windowSessions[v] # None =>
            windowSessions[v] \in Sessions /\ windowSessions[v] # made' /\ v # w
      BY <1>1, <1>2, <2>2 DEF RegisteredAlive, Types
    <3>2. chatSession # None => chatSession \in Sessions /\ chatSession # made' /\ Main # w
      BY <1>1, <1>2, <2>2 DEF RegisteredAlive, Types
    <3>3. RegisteredAlive'
      <4>1. \A v \in Windows : windowSessions'[v] # None =>
              owner'[windowSessions'[v]] = v /\ life'[windowSessions'[v]] = "up" /\ stage'[v] = "ready"
        <5> TAKE v \in Windows
        <5> HAVE windowSessions'[v] # None
        <5> DEFINE x == windowSessions[v]
        <5>1. x # None /\ windowSessions'[v] = x /\ x \in Sessions /\ x # made' /\ v # w
          BY <1>2, <3>1
        <5>2. owner[x] = v /\ life[x] = "up" /\ stage[v] = "ready"
          BY <1>1, <5>1 DEF RegisteredAlive
        <5>3. QED BY <2>2, <2>3, <5>1, <5>2
      <4>2. chatSession' # None => owner'[chatSession'] = Main /\ stage'[Main] = "ready"
        BY <1>1, <1>2, <2>2, <2>3, <3>2 DEF RegisteredAlive
      <4>3. QED BY <1>1, <1>2, <4>1, <4>2 DEF RegisteredAlive
    <3>4. StagesFollow'
      BY <1>1, <1>2, <1>3, <2>3 DEF StagesFollow
    <3>5. QED BY <3>3, <3>4
  <2>9. RebindsReplace'
    BY <1>1, <1>2, <2>2, <2>3 DEF RebindsReplace, Rebinding
  <2>10. LiveAreMapped'
    BY <1>1, <1>2, <2>2 DEF LiveAreMapped, Unmapped
  <2>11. QED BY <2>4, <2>5, <2>6, <2>7, <2>8, <2>9, <2>10 DEF IInv, SessionInv
<1>4. CASE win[w] # "open"
  <2>1. stage' = [stage EXCEPT ![w] = "ready"] /\ UNCHANGED <<made, owner, life, previous>>
    BY <1>4 DEF PageLoaded
  <2>2. \A v \in Windows : stage'[v] = (IF v = w THEN "ready" ELSE stage[v])
    BY <1>1, <2>1 DEF Types
  <2>3. Types' /\ FileTypes' /\ MadeInOrder'
    BY <1>1, <1>2, <2>1 DEF Types, FileTypes, MadeInOrder
  <2>4. OneBoots'
    BY <1>1, <1>2, <2>1, <2>2 DEF OneBoots, MadeInOrder, Types
  <2>5. RegisteredAlive' /\ StagesFollow'
    BY <1>1, <1>2, <1>4, <2>1, <2>2 DEF RegisteredAlive, StagesFollow
  <2>6. RebindsReplace' /\ LiveAreMapped'
    BY <1>1, <1>2, <2>1, <2>2 DEF RebindsReplace, Rebinding, LiveAreMapped, Unmapped
  <2>7. QED BY <2>3, <2>4, <2>5, <2>6 DEF IInv, SessionInv
<1>5. QED BY <1>3, <1>4

--------------------------------------------------------------------------------
\* What a list of sessions that ends some and lets one come up does to each.
LEMMA AfterIs ==
  ASSUME Types, NEW s \in Sessions \cup {None}, NEW S, s \in Sessions => life[s] # "up"
  PROVE  /\ After(s, S) \in [Sessions -> {"none", "booting", "up", "failed", "disposed"}]
         /\ \A x \in Sessions : After(s, S)[x] =
              IF x = s THEN "up" ELSE IF x \in S /\ life[x] = "up" THEN "disposed" ELSE life[x]
<1>1. \A x \in Sessions : After(s, S)[x] =
        IF x = s THEN "up" ELSE IF x \in S /\ life[x] = "up" THEN "disposed" ELSE life[x]
  <2> TAKE x \in Sessions
  <2>1. CASE x = s
    BY <2>1 DEF After
  <2>2. CASE x # s /\ x \in S /\ life[x] = "up"
    BY <2>2 DEF After
  <2>3. CASE x # s /\ ~(x \in S /\ life[x] = "up")
    BY <2>3 DEF After
  <2>4. QED BY <2>1, <2>2, <2>3
<1>2. After(s, S) = [x \in Sessions |-> After(s, S)[x]]
  BY DEF After
<1>3. \A x \in Sessions : After(s, S)[x] \in {"none", "booting", "up", "failed", "disposed"}
  BY <1>1 DEF Types
<1>4. QED BY <1>1, <1>2, <1>3

\* A session that comes up writes a file.
LEMMA UpWrites ==
  ASSUME Types, FileTypes, NEW s \in Sessions, ComesUp(s), owner[s] \in Windows, moved' = moved,
         \A x \in Sessions : life'[x] = "up" => x = s \/ life[x] = "up"
  PROVE  FileTypes'
<1>1. PICK f \in Files : /\ file' = [file EXCEPT ![s] = f] /\ known' = [known EXCEPT ![s] = f]
                         /\ disk' = disk \cup {f}
  <2>1. target[owner[s]] \in Files \cup {None}
    BY DEF Types
  <2>2. QED BY <2>1 DEF ComesUp
<1>2. QED
  <2>1. /\ file' \in [Sessions -> Files \cup {None}] /\ known' \in [Sessions -> Files \cup {None}]
        /\ disk' \subseteq Files /\ moved' \subseteq Sessions
        /\ \A x \in Sessions : file'[x] = IF x = s THEN f ELSE file[x]
    BY <1>1 DEF FileTypes
  <2>2. QED BY <2>1 DEF FileTypes

\* A window's session is there, or could not be made; the window may have been closed.
LEMMA CreatedKeeps ==
  ASSUME IInv, NEW s \in Sessions, SessionCreated(s)
  PROVE  IInv'
<1> USE Names
<1> DEFINE w == owner[s]
           gone == w = Main /\ win[w] # "open"
<1>1. Types /\ FileTypes /\ MadeInOrder /\ OneBoots /\ RegisteredAlive /\ StagesFollow /\ RebindsReplace /\ LiveAreMapped
  BY DEF IInv, SessionInv
<1>2. /\ ~quit /\ life[s] = "booting" /\ previous[s] = None /\ stage' = [stage EXCEPT ![w] = "ready"]
      /\ UNCHANGED <<win, target, windowsBySession, made, owner, previous, moves, quit, moved, early, overlap>>
  BY DEF SessionCreated, historyVars
<1>3. w \in Windows /\ stage[w] = "booting" /\ win[w] # "none" /\ windowSessions[w] = None
  <2>1. w \in Windows
    BY <1>1, <1>2 DEF MadeInOrder, Types
  <2>2. stage[w] = "booting"
    BY <1>1, <1>2 DEF OneBoots
  <2>3. QED BY <1>1, <2>1, <2>2 DEF StagesFollow, RegisteredAlive
<1>4. w = Main => chatSession = None /\ \A t \in Sessions : ~Rebinding(t)
  BY <1>1, <1>3 DEF RegisteredAlive, RebindsReplace
<1>5. /\ \A v \in Windows : stage'[v] = (IF v = w THEN "ready" ELSE stage[v])
      /\ stage' \in [Windows -> {"none", "loading", "booting", "ready"}]
  BY <1>1, <1>2, <1>3 DEF Types
<1>6. StagesFollow'
  BY <1>1, <1>2, <1>3, <1>5 DEF StagesFollow
<1>o. \A t \in Sessions : life[t] = "booting" /\ previous[t] = None /\ t # s => owner[t] # w /\ owner[t] \in Windows
  BY <1>1, <1>2 DEF OneBoots, MadeInOrder, Types
<1>7. CASE /\ ComesUp(s) /\ life' = After(s, {})
           /\ windowSessions' = Registering(w, s)
           /\ chatSession' = IF w = Main THEN s ELSE chatSession
  <2>1. /\ life' \in [Sessions -> {"none", "booting", "up", "failed", "disposed"}]
        /\ \A x \in Sessions : life'[x] = IF x = s THEN "up" ELSE life[x]
    BY <1>1, <1>2, <1>7, AfterIs
  <2>2. /\ \A v \in Windows : windowSessions'[v] = IF v = w /\ ~gone THEN s ELSE windowSessions[v]
        /\ windowSessions' \in [Windows -> Sessions \cup {None}]
    BY <1>1, <1>3, <1>7 DEF Registering, Types
  <2>3. Types'
    BY <1>1, <1>2, <1>5, <1>7, <2>1, <2>2 DEF Types
  <2>4. FileTypes'
    BY <1>1, <1>2, <1>3, <1>7, <2>1, UpWrites
  <2>5. MadeInOrder'
    BY <1>1, <1>2, <2>1 DEF MadeInOrder
  <2>6. OneBoots'
    BY <1>1, <1>2, <1>5, <1>o, <2>1 DEF OneBoots
  <2>7. RegisteredAlive'
    <3>1. ASSUME NEW v \in Windows, windowSessions'[v] # None
          PROVE  owner'[windowSessions'[v]] = v /\ life'[windowSessions'[v]] = "up" /\ stage'[v] = "ready"
      <4>1. CASE v = w
        BY <1>2, <1>3, <1>5, <2>1, <2>2, <3>1, <4>1
      <4>2. CASE v # w
        <5> DEFINE x == windowSessions[v]
        <5>1. windowSessions'[v] = x /\ x # None /\ x \in Sessions
          BY <1>1, <2>2, <3>1, <4>2 DEF Types
        <5>2. owner[x] = v /\ life[x] = "up" /\ stage[v] = "ready"
          BY <1>1, <5>1 DEF RegisteredAlive
        <5>3. QED BY <1>2, <1>5, <2>1, <4>2, <5>1, <5>2
      <4>3. QED BY <4>1, <4>2
    <3>2. chatSession' # None => owner'[chatSession'] = Main /\ stage'[Main] = "ready"
      BY <1>1, <1>2, <1>5, <1>7 DEF RegisteredAlive
    <3>3. win'[Main] = "open" => windowSessions'[Main] = chatSession'
      BY <1>1, <1>2, <1>3, <1>7, <2>2 DEF RegisteredAlive
    <3>4. win'[Main] # "open" => windowSessions'[Main] = None
      BY <1>1, <1>2, <1>3, <2>2 DEF RegisteredAlive
    <3>5. QED BY <1>2, <3>1, <3>2, <3>3, <3>4 DEF RegisteredAlive
  <2>8. RebindsReplace'
    <3>1. \A t \in Sessions : Rebinding(t)' => Rebinding(t) /\ w # Main
      BY <1>2, <1>4, <2>1 DEF Rebinding
    <3>2. w # Main => chatSession' = chatSession /\ stage'[Main] = stage[Main]
      BY <1>5, <1>7
    <3>3. QED BY <1>1, <1>2, <3>1, <3>2 DEF RebindsReplace, Rebinding
  <2>9. LiveAreMapped'
    <3> SUFFICES ASSUME NEW x \in Sessions, life'[x] = "up"
                 PROVE  Unmapped(x) \/ (win[owner[x]] = "open" /\ windowSessions'[owner[x]] = x)
      BY <1>2 DEF LiveAreMapped, Unmapped
    <3>1. CASE x = s
      BY <1>1, <1>3, <2>2, <3>1 DEF StagesFollow, Types, Unmapped
    <3>2. CASE x # s
      <4>1. life[x] = "up" /\ owner[x] \in Windows
        BY <1>1, <2>1, <3>2 DEF MadeInOrder, Types
      <4>2. windowSessions[owner[x]] = x => owner[x] # w
        BY <1>3
      <4>3. QED BY <1>1, <2>2, <4>1, <4>2 DEF LiveAreMapped
    <3>3. QED BY <3>1, <3>2
  <2>10. QED BY <1>6, <2>3, <2>4, <2>5, <2>6, <2>7, <2>8, <2>9 DEF IInv, SessionInv
<1>8. CASE /\ life' = [life EXCEPT ![s] = "failed"]
           /\ UNCHANGED <<windowSessions, chatSession, file, known, disk>>
  <2>1. \A x \in Sessions : life'[x] = IF x = s THEN "failed" ELSE life[x]
    BY <1>1, <1>8 DEF Types
  <2>2. Types'
    BY <1>1, <1>2, <1>5, <1>8 DEF Types
  <2>3. FileTypes' /\ MadeInOrder'
    BY <1>1, <1>2, <1>8, <2>1 DEF FileTypes, MadeInOrder
  <2>4. OneBoots'
    BY <1>1, <1>2, <1>5, <1>o, <2>1 DEF OneBoots
  <2>5. RegisteredAlive'
    <3>1. \A v \in Windows : windowSessions[v] # None => windowSessions[v] # s
      BY <1>1, <1>2 DEF RegisteredAlive
    <3>2. QED BY <1>1, <1>2, <1>5, <1>8, <2>1, <3>1 DEF RegisteredAlive, Types
  <2>6. RebindsReplace'
    BY <1>1, <1>2, <1>5, <1>8, <2>1 DEF RebindsReplace, Rebinding
  <2>7. LiveAreMapped'
    BY <1>1, <1>2, <1>8, <2>1 DEF LiveAreMapped, Unmapped
  <2>8. QED BY <1>6, <2>2, <2>3, <2>4, <2>5, <2>6, <2>7 DEF IInv, SessionInv
<1>9. QED BY <1>7, <1>8 DEF SessionCreated

\* A window is closed: its session is disposed, or the window is remembered as closed early.
LEMMA CloseKeeps ==
  ASSUME IInv, NEW w \in Windows, CloseWindow(w)
  PROVE  IInv'
<1> USE Names
<1> DEFINE late == w = Main \/ stage[w] = "ready"
           d == IF w = Main THEN chatSession ELSE windowSessions[w]
<1>1. Types /\ FileTypes /\ MadeInOrder /\ OneBoots /\ RegisteredAlive /\ StagesFollow /\ RebindsReplace /\ LiveAreMapped
  BY DEF IInv, SessionInv
<1>2. /\ win[w] = "open" /\ win' = [win EXCEPT ![w] = "closed"]
      /\ early' = early \cup {w} \/ (early' = early /\ stage[w] = "ready" /\ (w = Main => \A s \in Sessions : ~Rebinding(s)))
      /\ UNCHANGED <<stage, target, made, owner, previous, file, known, disk, moves, quit, moved, overlap>>
  BY DEF CloseWindow
<1>3. \A v \in Windows : win'[v] = IF v = w THEN "closed" ELSE win[v]
  BY <1>1, <1>2 DEF Types
<1>4. /\ late => /\ windowSessions' = [windowSessions EXCEPT ![w] = None]
                 /\ windowsBySession' = [f \in Files |-> IF f = target[w] THEN None ELSE windowsBySession[f]]
                 /\ chatSession' = (IF w = Main THEN None ELSE chatSession)
                 /\ life' = After(None, {d})
      /\ ~late => UNCHANGED <<windowSessions, windowsBySession, chatSession, life>>
  BY DEF CloseWindow
<1>5. /\ life' \in [Sessions -> {"none", "booting", "up", "failed", "disposed"}]
      /\ \A x \in Sessions : life'[x] = IF late /\ x = d /\ life[x] = "up" THEN "disposed" ELSE life[x]
  <2>1. CASE late
    BY <1>1, <1>4, <2>1, Names, AfterIs
  <2>2. CASE ~late
    BY <1>1, <1>4, <2>2 DEF Types
  <2>3. QED BY <2>1, <2>2
<1>6. windowSessions[w] # None => late
  BY <1>1 DEF RegisteredAlive
<1>7. /\ \A v \in Windows : windowSessions'[v] = IF v = w THEN None ELSE windowSessions[v]
      /\ windowSessions' \in [Windows -> Sessions \cup {None}]
  BY <1>1, <1>4, <1>6 DEF Types
<1>8. chatSession' = IF w = Main THEN None ELSE chatSession
  BY <1>4
<1>9. d # None => d \in Sessions /\ owner[d] = w
  BY <1>1 DEF RegisteredAlive, Types
<1>10. Types'
  <2>1. windowsBySession' \in [Files -> Children \cup {None}]
    BY <1>1, <1>4 DEF Types
  <2>2. QED BY <1>1, <1>2, <1>5, <1>7, <1>8, <2>1 DEF Types
<1>11. FileTypes' /\ MadeInOrder'
  BY <1>1, <1>2, <1>5 DEF FileTypes, MadeInOrder
<1>12. OneBoots'
  BY <1>1, <1>2, <1>5 DEF OneBoots
<1>13. RegisteredAlive'
  <2>1. ASSUME NEW v \in Windows, windowSessions'[v] # None
        PROVE  owner'[windowSessions'[v]] = v /\ life'[windowSessions'[v]] = "up" /\ stage'[v] = "ready"
    <3> DEFINE x == windowSessions[v]
    <3>1. v # w /\ windowSessions'[v] = x /\ x # None /\ x \in Sessions
      BY <1>1, <1>7, <2>1 DEF Types
    <3>2. owner[x] = v /\ life[x] = "up" /\ stage[v] = "ready"
      BY <1>1, <3>1 DEF RegisteredAlive
    <3>3. x # d
      BY <1>9, <3>1, <3>2
    <3>4. QED BY <1>2, <1>5, <3>1, <3>2, <3>3
  <2>2. chatSession' # None => owner'[chatSession'] = Main /\ stage'[Main] = "ready"
    BY <1>1, <1>2, <1>8 DEF RegisteredAlive
  <2>3. win'[Main] = "open" /\ ~quit' => windowSessions'[Main] = chatSession'
    BY <1>1, <1>2, <1>3, <1>7, <1>8 DEF RegisteredAlive
  <2>4. win'[Main] # "open" => windowSessions'[Main] = None
    BY <1>1, <1>3, <1>7 DEF RegisteredAlive
  <2>5. quit' => \A v \in Windows : windowSessions'[v] = None
    BY <1>1, <1>2, <1>7 DEF RegisteredAlive
  <2>6. QED BY <2>1, <2>2, <2>3, <2>4, <2>5 DEF RegisteredAlive
<1>14. StagesFollow'
  BY <1>1, <1>2, <1>3 DEF StagesFollow
<1>15. RebindsReplace'
  <2>1. \A t \in Sessions : Rebinding(t)' <=> Rebinding(t)
    BY <1>1, <1>2, <1>5 DEF Rebinding
  <2>2. \A t \in Sessions : Rebinding(t) /\ w = Main => Main \in early'
    BY <1>2
  <2>3. early \subseteq early'
    BY <1>2
  <2>4. QED BY <1>1, <1>2, <1>3, <1>8, <2>1, <2>2, <2>3 DEF RebindsReplace
<1>16. LiveAreMapped'
  <2> SUFFICES ASSUME NEW x \in Sessions, life'[x] = "up"
               PROVE  Unmapped(x)' \/ (~quit /\ win'[owner[x]] = "open" /\ windowSessions'[owner[x]] = x)
    BY <1>2 DEF LiveAreMapped
  <2>1. life[x] = "up" /\ owner[x] \in Windows /\ ~(late /\ x = d)
    BY <1>1, <1>5 DEF MadeInOrder, Types
  <2>2. Unmapped(x) => Unmapped(x)'
    BY <1>2 DEF Unmapped
  <2>3. CASE ~quit /\ win[owner[x]] = "open" /\ windowSessions[owner[x]] = x
    <3>1. CASE owner[x] # w
      BY <1>3, <1>7, <2>1, <2>3, <3>1
    <3>2. CASE owner[x] = w
      <4>1. x = d
        BY <1>1, <2>3, <3>2 DEF RegisteredAlive
      <4>2. late
        BY <1>6, <2>3, <3>2
      <4>3. QED BY <2>1, <4>1, <4>2
    <3>3. QED BY <3>1, <3>2
  <2>4. QED BY <1>1, <2>1, <2>2, <2>3 DEF LiveAreMapped
<1>17. QED BY <1>10, <1>11, <1>12, <1>13, <1>14, <1>15, <1>16 DEF IInv, SessionInv

--------------------------------------------------------------------------------
\* Moves of a session's pi to another file change nothing here.
LEMMA MovesKeep ==
  ASSUME IInv, (\E w \in Windows : MoveStarts(w)) \/ (\E s \in Sessions : MoveEnds(s))
  PROVE  IInv'
<1> USE Names
<1>1. Types /\ FileTypes /\ SessionInv
  BY DEF IInv
<1>2. UNCHANGED <<win, stage, target, windowSessions, windowsBySession, chatSession, made, owner, life, previous, quit,
                  early, overlap>>
  BY DEF MoveStarts, MoveEnds, winVars, mapVars, historyVars
<1>3. moves' \in 0..MaxMoves
  BY <1>1 DEF MoveStarts, MoveEnds, Types
<1>4. Types'
  BY <1>1, <1>2, <1>3 DEF Types
<1>5. ASSUME NEW w \in Windows, MoveStarts(w) PROVE FileTypes'
  <2> DEFINE s == SessionFor(w)
  <2>1. s \in Sessions
    BY <1>1, <1>5 DEF MoveStarts, SessionFor, Types
  <2>2. PICK f \in Files : /\ file' = [file EXCEPT ![s] = f] /\ disk' \in {disk, disk \cup {f}}
                           /\ moved' \in {moved, moved \cup {s}} /\ known' = known
    BY <1>1, <1>5 DEF MoveStarts, FileTypes
  <2>3. /\ file' \in [Sessions -> Files \cup {None}]
        /\ \A x \in Sessions : file'[x] = IF x = s THEN f ELSE file[x]
    BY <1>1, <2>1, <2>2 DEF FileTypes
  <2>4. disk' \subseteq Files /\ moved' \subseteq Sessions
    BY <1>1, <2>1, <2>2 DEF FileTypes
  <2>5. QED BY <1>1, <1>2, <2>2, <2>3, <2>4 DEF FileTypes
<1>6. ASSUME NEW s \in Sessions, MoveEnds(s) PROVE FileTypes'
  BY <1>1, <1>6 DEF MoveEnds, FileTypes, historyVars
<1>7. SessionInv'
  BY <1>1, <1>2, NothingNew
<1>8. QED BY <1>4, <1>5, <1>6, <1>7 DEF IInv

\* The main window's workspace changes: a session is made that will replace the one it has.
LEMMA RebindStartKeeps ==
  ASSUME IInv, RebindStarts
  PROVE  IInv'
<1> USE Names
<1>1. Types /\ FileTypes /\ MadeInOrder /\ OneBoots /\ RegisteredAlive /\ StagesFollow /\ RebindsReplace /\ LiveAreMapped
  BY DEF IInv, SessionInv
<1>2. /\ ~quit /\ win[Main] = "open" /\ StartSession(Main, chatSession)
      /\ overlap' = (overlap \/ \E s \in Sessions : Rebinding(s))
      /\ UNCHANGED <<win, stage, target, windowSessions, windowsBySession, chatSession, file, known, disk, moves, quit,
                     moved, early>>
  BY DEF RebindStarts, winVars, mapVars
<1>3. chatSession \in Sessions /\ owner[chatSession] = Main /\ stage[Main] = "ready"
  BY <1>1, <1>2 DEF RebindStarts, SessionFor, RegisteredAlive, Types
<1>4. /\ made' = made + 1 /\ made' \in Sessions /\ made' \in 0..MaxSessions
      /\ life[made'] = "none" /\ owner[made'] = None /\ previous[made'] = None
      /\ \A s \in Sessions : /\ owner'[s] = (IF s = made' THEN Main ELSE owner[s])
                             /\ life'[s] = (IF s = made' THEN "booting" ELSE life[s])
                             /\ previous'[s] = (IF s = made' THEN chatSession ELSE previous[s])
      /\ owner' \in [Sessions -> Windows \cup {None}]
      /\ life' \in [Sessions -> {"none", "booting", "up", "failed", "disposed"}]
      /\ previous' \in [Sessions -> Sessions \cup {None}]
  BY <1>1, <1>2, StartMakes DEF Types
<1>5. overlap' \in BOOLEAN /\ (overlap => overlap')
  BY <1>1, <1>2 DEF Types
<1>6. Types'
  BY <1>1, <1>2, <1>4, <1>5 DEF Types
<1>7. FileTypes'
  BY <1>1, <1>2, <1>4 DEF FileTypes
<1>8. MadeInOrder'
  <2>1. \A s \in Sessions : s > made' => s > made /\ s # made'
    BY <1>1, <1>4 DEF Types
  <2>2. \A s \in Sessions : s <= made' => s <= made \/ s = made'
    BY <1>1, <1>4 DEF Types
  <2>3. chatSession < made' /\ chatSession # made'
    <3>1. chatSession <= made
      BY <1>1, <1>3 DEF MadeInOrder, Types
    <3>2. QED BY <1>1, <1>3, <1>4, <3>1 DEF Types
  <2>4. \A s \in Sessions : previous[s] # None => s # made' /\ previous[s] # made' /\ previous[s] \in Sessions
    BY <1>1, <1>4 DEF MadeInOrder, Types
  <2>5. \A s \in Sessions : life'[s] = "none" <=> s > made'
    BY <1>1, <1>4, <2>1, <2>2 DEF MadeInOrder, Types
  <2>6. \A s \in Sessions : s <= made' => owner'[s] \in Windows
    BY <1>1, <1>4, <2>2 DEF MadeInOrder
  <2>7. \A s \in Sessions : s > made' => owner'[s] = None /\ previous'[s] = None
    BY <1>1, <1>4, <2>1 DEF MadeInOrder
  <2>8. ASSUME NEW s \in Sessions, previous'[s] # None
        PROVE  previous'[s] < s /\ owner'[s] = Main /\ owner'[previous'[s]] = Main
    <3>1. CASE s = made'
      BY <1>3, <1>4, <2>3, <3>1
    <3>2. CASE s # made'
      <4>1. previous'[s] = previous[s] /\ previous[s] \in Sessions /\ previous[s] # made'
        BY <1>4, <2>4, <2>8, <3>2
      <4>2. owner'[s] = owner[s] /\ owner'[previous[s]] = owner[previous[s]]
        BY <1>4, <3>2, <4>1
      <4>3. QED BY <1>1, <2>8, <4>1, <4>2 DEF MadeInOrder
    <3>3. QED BY <3>1, <3>2
  <2>9. QED BY <2>5, <2>6, <2>7, <2>8 DEF MadeInOrder
<1>9. OneBoots'
  BY <1>1, <1>2, <1>3, <1>4 DEF OneBoots
<1>10. RegisteredAlive'
  <2>1. ASSUME NEW v \in Windows, windowSessions'[v] # None
        PROVE  owner'[windowSessions'[v]] = v /\ life'[windowSessions'[v]] = "up" /\ stage'[v] = "ready"
    <3> DEFINE x == windowSessions[v]
    <3>1. windowSessions'[v] = x /\ x # None /\ x \in Sessions
      BY <1>1, <1>2, <2>1 DEF Types
    <3>2. owner[x] = v /\ life[x] = "up" /\ stage[v] = "ready"
      BY <1>1, <3>1 DEF RegisteredAlive
    <3>3. QED BY <1>2, <1>4, <3>1, <3>2
  <2>2. chatSession' # None => owner'[chatSession'] = Main /\ stage'[Main] = "ready"
    BY <1>2, <1>3, <1>4
  <2>3. QED BY <1>1, <1>2, <2>1, <2>2 DEF RegisteredAlive
<1>11. StagesFollow'
  BY <1>1, <1>2 DEF StagesFollow
<1>12. RebindsReplace'
  <2>1. \A t \in Sessions : Rebinding(t)' => t = made' \/ Rebinding(t)
    BY <1>4 DEF Rebinding
  <2>2. \A t \in Sessions : Rebinding(t) => overlap'
    BY <1>2
  <2>3. QED BY <1>2, <1>3, <1>4, <2>1, <2>2 DEF RebindsReplace
<1>13. LiveAreMapped'
  BY <1>1, <1>2, <1>4, <1>5 DEF LiveAreMapped, Unmapped
<1>14. QED BY <1>6, <1>7, <1>8, <1>9, <1>10, <1>11, <1>12, <1>13 DEF IInv, SessionInv

\* The new session of a rebind is there, or could not be made.
LEMMA RebindEndKeeps ==
  ASSUME IInv, NEW s \in Sessions, RebindEnds(s)
  PROVE  IInv'
<1> USE Names
<1> DEFINE p == previous[s]
           gone == win[Main] # "open"
<1>1. Types /\ FileTypes /\ MadeInOrder /\ OneBoots /\ RegisteredAlive /\ StagesFollow /\ RebindsReplace /\ LiveAreMapped
  BY DEF IInv, SessionInv
<1>2. /\ ~quit /\ Rebinding(s) /\ life[s] = "booting"
      /\ UNCHANGED <<win, stage, target, windowsBySession, made, owner, previous, moves, quit, moved, early, overlap>>
  BY DEF RebindEnds, Rebinding, winVars, historyVars
<1>3. p \in Sessions /\ p # s /\ owner[s] = Main /\ owner[p] = Main /\ stage[Main] = "ready"
  BY <1>1, <1>2 DEF Rebinding, MadeInOrder, RebindsReplace, Types
<1>4. StagesFollow'
  BY <1>1, <1>2 DEF StagesFollow
<1>5. CASE /\ ComesUp(s) /\ life' = After(s, {p})
           /\ chatSession' = s /\ windowSessions' = Registering(Main, s)
  <2>1. /\ life' \in [Sessions -> {"none", "booting", "up", "failed", "disposed"}]
        /\ \A x \in Sessions : life'[x] = IF x = s THEN "up" ELSE IF x = p /\ life[x] = "up" THEN "disposed" ELSE life[x]
    BY <1>1, <1>2, <1>5, AfterIs
  <2>2. /\ \A v \in Windows : windowSessions'[v] = IF v = Main /\ ~gone THEN s ELSE windowSessions[v]
        /\ windowSessions' \in [Windows -> Sessions \cup {None}]
    BY <1>1, <1>5 DEF Registering, Types
  <2>3. Types'
    BY <1>1, <1>2, <1>5, <2>1, <2>2 DEF Types
  <2>4. FileTypes'
    BY <1>1, <1>2, <1>3, <1>5, <2>1, UpWrites
  <2>5. MadeInOrder'
    BY <1>1, <1>2, <2>1 DEF MadeInOrder
  <2>6. OneBoots'
    BY <1>1, <1>2, <2>1 DEF OneBoots
  <2>7. RegisteredAlive'
    <3>1. ASSUME NEW v \in Windows, windowSessions'[v] # None
          PROVE  owner'[windowSessions'[v]] = v /\ life'[windowSessions'[v]] = "up" /\ stage'[v] = "ready"
      <4>1. CASE v = Main
        <5>1. windowSessions'[v] = s
          BY <1>1, <2>2, <3>1, <4>1 DEF RegisteredAlive
        <5>2. QED BY <1>2, <1>3, <2>1, <4>1, <5>1
      <4>2. CASE v # Main
        <5> DEFINE x == windowSessions[v]
        <5>1. windowSessions'[v] = x /\ x # None /\ x \in Sessions
          BY <1>1, <2>2, <3>1, <4>2 DEF Types
        <5>2. owner[x] = v /\ life[x] = "up" /\ stage[v] = "ready"
          BY <1>1, <5>1 DEF RegisteredAlive
        <5>3. QED BY <1>2, <1>3, <2>1, <4>2, <5>1, <5>2
      <4>3. QED BY <4>1, <4>2
    <3>2. chatSession' # None => owner'[chatSession'] = Main /\ stage'[Main] = "ready"
      BY <1>2, <1>3, <1>5
    <3>3. win'[Main] = "open" => windowSessions'[Main] = chatSession'
      BY <1>2, <1>5, <2>2
    <3>4. win'[Main] # "open" => windowSessions'[Main] = None
      BY <1>1, <1>2, <2>2 DEF RegisteredAlive
    <3>5. QED BY <1>2, <3>1, <3>2, <3>3, <3>4 DEF RegisteredAlive
  <2>8. RebindsReplace'
    <3>1. \A t \in Sessions : Rebinding(t)' => Rebinding(t) /\ t # s
      BY <1>2, <2>1 DEF Rebinding
    <3>2. \A t \in Sessions : Rebinding(t)' => overlap
      BY <1>1, <1>2, <3>1 DEF RebindsReplace
    <3>3. QED BY <1>1, <1>2, <1>3, <3>1, <3>2 DEF RebindsReplace
  <2>9. LiveAreMapped'
    <3> SUFFICES ASSUME NEW x \in Sessions, life'[x] = "up"
                 PROVE  Unmapped(x) \/ (win[owner[x]] = "open" /\ windowSessions'[owner[x]] = x)
      BY <1>2 DEF LiveAreMapped, Unmapped
    <3>1. CASE x = s
      BY <1>1, <1>2, <1>3, <2>2, <3>1 DEF RebindsReplace, Unmapped
    <3>2. CASE x # s
      <4>1. life[x] = "up" /\ owner[x] \in Windows /\ x # p
        BY <1>1, <2>1, <3>2 DEF MadeInOrder, Types
      <4>2. CASE owner[x] = Main /\ win[Main] = "open" /\ windowSessions[Main] = x
        <5>1. chatSession = x
          BY <1>1, <1>2, <4>2 DEF RegisteredAlive
        <5>2. QED BY <1>1, <1>2, <4>1, <4>2, <5>1 DEF RebindsReplace, Unmapped
      <4>3. QED BY <1>1, <2>2, <4>1, <4>2 DEF LiveAreMapped
    <3>3. QED BY <3>1, <3>2
  <2>10. QED BY <1>4, <2>3, <2>4, <2>5, <2>6, <2>7, <2>8, <2>9 DEF IInv, SessionInv
<1>6. CASE /\ life' = [life EXCEPT ![s] = "failed"]
           /\ UNCHANGED <<chatSession, windowSessions, file, known, disk>>
  <2>1. \A x \in Sessions : life'[x] = IF x = s THEN "failed" ELSE life[x]
    BY <1>1, <1>6 DEF Types
  <2>2. Types'
    BY <1>1, <1>2, <1>6 DEF Types
  <2>3. FileTypes' /\ MadeInOrder' /\ OneBoots'
    BY <1>1, <1>2, <1>6, <2>1 DEF FileTypes, MadeInOrder, OneBoots
  <2>4. RegisteredAlive'
    <3>1. \A v \in Windows : windowSessions[v] # None => windowSessions[v] # s
      BY <1>1, <1>2 DEF RegisteredAlive
    <3>2. QED BY <1>1, <1>2, <1>6, <2>1, <3>1 DEF RegisteredAlive, Types
  <2>5. RebindsReplace' /\ LiveAreMapped'
    BY <1>1, <1>2, <1>6, <2>1 DEF RebindsReplace, Rebinding, LiveAreMapped, Unmapped
  <2>6. QED BY <1>4, <2>2, <2>3, <2>4, <2>5 DEF IInv, SessionInv
<1>7. QED BY <1>5, <1>6 DEF RebindEnds

\* On quitting every registered session is disposed; the others were lost before.
LEMMA QuitKeeps ==
  ASSUME IInv, Quit
  PROVE  IInv'
<1> USE Names
<1>1. Types /\ FileTypes /\ MadeInOrder /\ OneBoots /\ RegisteredAlive /\ StagesFollow /\ RebindsReplace /\ LiveAreMapped
  BY DEF IInv, SessionInv
<1>2. /\ quit' = TRUE /\ windowSessions' = [w \in Windows |-> None]
      /\ UNCHANGED <<win, stage, target, windowsBySession, chatSession, made, owner, previous, file, known, disk, moves,
                     moved, early, overlap>>
  BY DEF Quit, winVars, historyVars
<1>3. /\ life' \in [Sessions -> {"none", "booting", "up", "failed", "disposed"}]
      /\ \A x \in Sessions : life'[x] =
           IF x \in {windowSessions[w] : w \in Windows} /\ life[x] = "up" THEN "disposed" ELSE life[x]
  <2>1. life' = After(None, {windowSessions[w] : w \in Windows})
    BY DEF Quit
  <2>2. QED BY <1>1, <2>1, Names, AfterIs
<1>4. Types'
  BY <1>1, <1>2, <1>3 DEF Types
<1>5. FileTypes' /\ MadeInOrder' /\ OneBoots'
  BY <1>1, <1>2, <1>3 DEF FileTypes, MadeInOrder, OneBoots
<1>6. RegisteredAlive' /\ StagesFollow'
  BY <1>1, <1>2 DEF RegisteredAlive, StagesFollow
<1>7. RebindsReplace'
  BY <1>1, <1>2, <1>3 DEF RebindsReplace, Rebinding
<1>8. LiveAreMapped'
  <2> SUFFICES ASSUME NEW x \in Sessions, life'[x] = "up" PROVE Unmapped(x)
    BY <1>2 DEF LiveAreMapped, Unmapped
  <2>1. life[x] = "up" /\ owner[x] \in Windows /\ x \notin {windowSessions[w] : w \in Windows}
    BY <1>1, <1>3 DEF MadeInOrder, Types
  <2>2. QED BY <1>1, <2>1 DEF LiveAreMapped
<1>9. QED BY <1>4, <1>5, <1>6, <1>7, <1>8 DEF IInv, SessionInv

--------------------------------------------------------------------------------
LEMMA NextIInv == IInv /\ [Next]_vars => IInv'
<1> SUFFICES ASSUME IInv, [Next]_vars PROVE IInv'
  OBVIOUS
<1>1. CASE UNCHANGED vars
  <2>1. /\ UNCHANGED <<win, stage, target, windowSessions, windowsBySession, chatSession, made, owner, life, previous>>
        /\ UNCHANGED <<file, known, disk, moves, quit, moved, early, overlap>>
    BY <1>1 DEF vars, winVars, mapVars, sessionVars, historyVars
  <2>2. Types' /\ FileTypes'
    BY <2>1 DEF IInv, Types, FileTypes
  <2>3. SessionInv'
    BY <2>1, NothingNew DEF IInv
  <2>4. QED BY <2>2, <2>3 DEF IInv
<1>2. QED
  BY <1>1, OpenKeeps, LoadKeeps, CreatedKeeps, CloseKeeps, MovesKeep, RebindStartKeeps, RebindEndKeeps, QuitKeeps
  DEF Next, Stop

LEMMA IInvSuffices == IInv => WindowsHaveTheirOwn /\ LostOnlyByRace
<1> SUFFICES ASSUME IInv PROVE WindowsHaveTheirOwn /\ LostOnlyByRace
  OBVIOUS
<1> USE Names
<1>1. Types /\ FileTypes /\ MadeInOrder /\ RegisteredAlive /\ LiveAreMapped
  BY DEF IInv, SessionInv
<1>2. TypeOK
  BY <1>1 DEF TypeOK, Types, FileTypes, RegisteredAlive
<1>3. RoutesToOwnLivePi
  BY <1>1 DEF RoutesToOwnLivePi, SessionFor, RegisteredAlive, Windows
<1>4. LostOnlyByRace
  <2> SUFFICES ASSUME NEW s \in Sessions, life[s] = "up", ~Reachable(s) PROVE Unmapped(s)
    BY DEF LostOnlyByRace, Unmapped
  <2>1. owner[s] \in Windows
    BY <1>1 DEF MadeInOrder, Types
  <2>2. QED BY <1>1, <2>1 DEF LiveAreMapped, Reachable
<1>5. QED BY <1>2, <1>3, <1>4 DEF WindowsHaveTheirOwn

\* What an open window sends reaches a live session that was made for that window, whatever
\* windows open and close meanwhile, and however boots and workspace changes interleave.
THEOREM MessagesStayHome == Spec => []WindowsHaveTheirOwn
<1>1. QED BY InitIInv, NextIInv, IInvSuffices, PTL DEF Spec

\* A live pi that no window reaches, before or after quitting, is the session of a window that
\* closed before it was there, or of overlapping workspace changes.
THEOREM OnlyTwoRacesLose == Spec => []LostOnlyByRace
<1>1. QED BY InitIInv, NextIInv, IInvSuffices, PTL DEF Spec

--------------------------------------------------------------------------------
\* Which files are written by whom.

Mapped(s) == owner[s] \in Windows /\ windowSessions[owner[s]] = s
OnItsOwn(s) == Mapped(s) /\ s \notin moved /\ file[s] # target[owner[s]]

\* A window is opened for a file that exists, and while it is open it is registered for it.
TargetsAreClaimed ==
  \A w \in Windows : target[w] # None =>
    /\ target[w] \in disk /\ win[w] # "none"
    /\ win[w] = "open" => windowsBySession[target[w]] = w

\* A file that does not exist yet has one writer.
SharedFilesExist ==
  \A s, t \in Sessions : s # t /\ file[s] = file[t] /\ file[s] # None => file[s] \in disk

\* A session that was not moved is known to be where it is, once its file exists.
UnmovedAreKnown ==
  /\ \A s \in Sessions : Mapped(s) /\ s \notin moved => known[s] = file[s] \/ file[s] \notin disk
  /\ \A s \in Sessions : Mapped(s) /\ win[owner[s]] # "open" => s \notin moved /\ known[s] = file[s]
  /\ \A s \in moved : life[s] \notin {"none", "booting"}

\* A session on a new file has it for itself, and no window was opened for it while its own is open.
NewFilesAreOwn ==
  /\ \A s, t \in Sessions : OnItsOwn(s) /\ OnItsOwn(t) /\ file[s] = file[t] => s = t
  /\ \A s \in Sessions, w \in Windows : OnItsOwn(s) /\ win[owner[s]] = "open" => target[w] # file[s]

FileInv == TargetsAreClaimed /\ SharedFilesExist /\ UnmovedAreKnown /\ NewFilesAreOwn

LEMMA InitFiles == Init => FileInv
<1> SUFFICES ASSUME Init PROVE FileInv
  OBVIOUS
<1> USE Names DEF Init
<1>1. \A s \in Sessions : ~Mapped(s)
  BY DEF Mapped
<1>2. TargetsAreClaimed /\ SharedFilesExist /\ UnmovedAreKnown
  BY <1>1 DEF TargetsAreClaimed, SharedFilesExist, UnmovedAreKnown
<1>3. NewFilesAreOwn
  BY <1>1 DEF NewFilesAreOwn, OnItsOwn
<1>4. QED BY <1>2, <1>3 DEF FileInv

\* What is registered is up and on a file, and its window is ready.
LEMMA MappedIsUp ==
  ASSUME IInv, NEW s \in Sessions, Mapped(s)
  PROVE  /\ life[s] = "up" /\ file[s] \in Files /\ owner[s] \in Windows /\ stage[owner[s]] = "ready"
         /\ win[owner[s]] # "none" /\ ~quit
BY Names DEF IInv, SessionInv, Mapped, RegisteredAlive, StagesFollow, FileTypes

\* Steps that move nobody and register nobody.
LEMMA SameFiles ==
  ASSUME FileInv, UNCHANGED <<file, known, disk, moved, target>>, TargetsAreClaimed',
         \A s \in Sessions : Mapped(s)' =>
           Mapped(s) /\ owner'[s] = owner[s] /\ (win'[owner[s]] = "open" <=> win[owner[s]] = "open"),
         \A s \in moved : life'[s] \notin {"none", "booting"}
  PROVE  FileInv'
<1>1. SharedFilesExist' /\ UnmovedAreKnown'
  BY DEF FileInv, SharedFilesExist, UnmovedAreKnown
<1>2. \A s \in Sessions : OnItsOwn(s)' => OnItsOwn(s) /\ owner'[s] = owner[s]
  BY DEF OnItsOwn
<1>3. NewFilesAreOwn'
  BY <1>2 DEF FileInv, NewFilesAreOwn, OnItsOwn
<1>4. QED BY <1>1, <1>3 DEF FileInv

\* A session comes up, on the file its window was opened for or on a new one.
LEMMA UpKeepsFiles ==
  ASSUME IInv, FileInv, NEW s \in Sessions, life[s] = "booting", owner[s] \in Windows, ComesUp(s),
         UNCHANGED <<win, target, windowsBySession, owner, moved>>,
         \A x \in Sessions : x # s /\ Mapped(x)' => Mapped(x),
         \A x \in moved : x # s => life'[x] \notin {"none", "booting"}
  PROVE  FileInv'
<1> USE Names
<1>1. Types /\ FileTypes /\ TargetsAreClaimed /\ SharedFilesExist /\ UnmovedAreKnown /\ NewFilesAreOwn
  BY DEF IInv, FileInv
<1>2. PICK f \in Files :
        /\ file' = [file EXCEPT ![s] = f] /\ known' = [known EXCEPT ![s] = f] /\ disk' = disk \cup {f}
        /\ f = target[owner[s]] \/ (f \notin disk /\ \A x \in Sessions : file[x] # f)
  <2>1. target[owner[s]] \in Files \cup {None}
    BY <1>1 DEF Types
  <2>2. QED BY <2>1 DEF ComesUp, InUse
<1>3. \A x \in Sessions : file'[x] = (IF x = s THEN f ELSE file[x]) /\ known'[x] = (IF x = s THEN f ELSE known[x])
  BY <1>1, <1>2 DEF FileTypes
<1>4. s \notin moved
  BY <1>1 DEF UnmovedAreKnown
<1>5. f \in disk \/ \A x \in Sessions : file[x] # f
  BY <1>1, <1>2 DEF TargetsAreClaimed
<1>6. TargetsAreClaimed'
  BY <1>1, <1>2 DEF TargetsAreClaimed
<1>7. SharedFilesExist'
  BY <1>1, <1>2, <1>3 DEF SharedFilesExist
<1>8. UnmovedAreKnown'
  <2>1. \A x \in Sessions : x # s /\ file[x] \notin disk => file[x] \notin disk'
    BY <1>2, <1>5
  <2>2. \A x \in Sessions : Mapped(x)' /\ x \notin moved' => known'[x] = file'[x] \/ file'[x] \notin disk'
    BY <1>1, <1>3, <2>1 DEF UnmovedAreKnown
  <2>3. \A x \in Sessions : Mapped(x)' /\ win'[owner'[x]] # "open" => x \notin moved' /\ known'[x] = file'[x]
    BY <1>1, <1>3, <1>4 DEF UnmovedAreKnown
  <2>4. \A x \in moved' : life'[x] \notin {"none", "booting"}
    BY <1>4
  <2>5. QED BY <2>2, <2>3, <2>4 DEF UnmovedAreKnown
<1>9. NewFilesAreOwn'
  <2>1. \A x \in Sessions : x # s /\ OnItsOwn(x)' => OnItsOwn(x) /\ file'[x] = file[x]
    BY <1>3 DEF OnItsOwn
  <2>2. OnItsOwn(s)' => /\ \A x \in Sessions : file[x] # f
                        /\ \A w \in Windows : target[w] # f
    BY <1>1, <1>2, <1>3 DEF OnItsOwn, TargetsAreClaimed
  <2>3. \A x, y \in Sessions : OnItsOwn(x)' /\ OnItsOwn(y)' /\ file'[x] = file'[y] => x = y
    BY <1>1, <1>3, <2>1, <2>2 DEF NewFilesAreOwn
  <2>4. \A x \in Sessions, w \in Windows : OnItsOwn(x)' /\ win'[owner'[x]] = "open" => target'[w] # file'[x]
    BY <1>1, <1>3, <2>1, <2>2 DEF NewFilesAreOwn
  <2>5. QED BY <2>3, <2>4 DEF NewFilesAreOwn
<1>10. QED BY <1>6, <1>7, <1>8, <1>9 DEF FileInv

\* A file a window is opened for is driven by no open window.
LEMMA OpenKeepsFiles ==
  ASSUME IInv, FileInv, NEW w \in Children, NEW f \in disk \cup {None}, OpenSessionWindow(w, f)
  PROVE  FileInv'
<1> USE Names
<1>1. Types /\ FileTypes /\ TargetsAreClaimed /\ SharedFilesExist /\ UnmovedAreKnown /\ NewFilesAreOwn
  BY DEF IInv, FileInv
<1>2. /\ win' = [win EXCEPT ![w] = "open"] /\ target' = [target EXCEPT ![w] = f]
      /\ windowsBySession' = [x \in Files |-> IF x = f THEN w ELSE windowsBySession[x]]
      /\ UNCHANGED <<windowSessions, owner, life, file, known, disk, moved>>
  BY DEF OpenSessionWindow, Windows, sessionVars, historyVars
<1>o. win[w] = "none" /\ w \in Windows /\ (f # None => f \in Files /\ f \in disk /\ NotDriven(f))
  BY <1>1 DEF OpenSessionWindow, Windows, FileTypes
<1>3. \A v \in Windows : win'[v] = (IF v = w THEN "open" ELSE win[v]) /\ target'[v] = (IF v = w THEN f ELSE target[v])
  BY <1>1, <1>2 DEF Types
<1>4. \A s \in Sessions : (Mapped(s)' <=> Mapped(s)) /\ (Mapped(s) => owner[s] # w)
  BY <1>2, <1>o, MappedIsUp DEF Mapped
<1>5. TargetsAreClaimed'
  <2> SUFFICES ASSUME NEW v \in Windows, target'[v] # None
               PROVE  /\ target'[v] \in disk /\ win'[v] # "none"
                      /\ win'[v] = "open" => windowsBySession'[target'[v]] = v
    BY <1>2 DEF TargetsAreClaimed
  <2>1. CASE v = w
    BY <1>2, <1>3, <1>o, <2>1
  <2>2. CASE v # w
    <3>1. target'[v] = target[v] /\ win'[v] = win[v] /\ target[v] \in disk /\ target[v] \in Files /\ win[v] # "none"
      BY <1>1, <1>3, <2>2 DEF TargetsAreClaimed, FileTypes
    <3>2. win[v] = "open" => windowsBySession[target[v]] = v
      BY <1>1, <3>1 DEF TargetsAreClaimed
    <3>3. win[v] = "open" => target[v] # f
      BY <1>o, <3>1, <3>2 DEF NotDriven, Registered
    <3>4. QED BY <1>2, <3>1, <3>2, <3>3
  <2>3. QED BY <2>1, <2>2
<1>6. SharedFilesExist' /\ UnmovedAreKnown'
  BY <1>1, <1>2, <1>3, <1>4 DEF SharedFilesExist, UnmovedAreKnown, Mapped
<1>7. \A s \in Sessions : OnItsOwn(s)' <=> OnItsOwn(s)
  BY <1>2, <1>3, <1>4 DEF OnItsOwn, Mapped
<1>8. ASSUME NEW t \in Sessions, OnItsOwn(t), win[owner[t]] = "open", f = file[t] PROVE FALSE
  <2>1. Mapped(t) /\ f \in Files /\ t \notin moved /\ owner[t] \in Windows
    BY <1>8, MappedIsUp DEF OnItsOwn
  <2>2. known[t] = f /\ NotDriven(f)
    BY <1>1, <1>8, <1>o, <2>1 DEF UnmovedAreKnown
  <2>3. owner[t] \in Showing(f)
    BY <2>1, <2>2 DEF Showing, Mapped
  <2>4. PICK v \in Windows : windowSessions[v] # None /\ known[windowSessions[v]] = f /\ win[v] # "open"
    BY <2>2, <2>3 DEF NotDriven, Showing
  <2> DEFINE x == windowSessions[v]
  <2>5. x \in Sessions /\ owner[x] = v /\ Mapped(x)
    BY <1>1, <2>4 DEF Types, IInv, SessionInv, RegisteredAlive, Mapped
  <2>6. x \notin moved /\ file[x] = f
    BY <1>1, <2>4, <2>5 DEF UnmovedAreKnown
  <2>7. target[v] # f
    BY <1>1, <1>8 DEF NewFilesAreOwn
  <2>8. x = t
    BY <1>1, <1>8, <2>5, <2>6, <2>7 DEF NewFilesAreOwn, OnItsOwn
  <2>9. QED BY <1>8, <2>4, <2>5, <2>8
<1>9. NewFilesAreOwn'
  <2>1. \A s, t \in Sessions : OnItsOwn(s)' /\ OnItsOwn(t)' /\ file'[s] = file'[t] => s = t
    BY <1>1, <1>2, <1>7 DEF NewFilesAreOwn
  <2>2. ASSUME NEW s \in Sessions, NEW v \in Windows, OnItsOwn(s)', win'[owner'[s]] = "open"
        PROVE  target'[v] # file'[s]
    <3>1. OnItsOwn(s) /\ win[owner[s]] = "open"
      BY <1>2, <1>3, <1>4, <1>7, <2>2 DEF OnItsOwn, Mapped
    <3>2. CASE v = w
      BY <1>2, <1>3, <1>8, <3>1, <3>2
    <3>3. CASE v # w
      BY <1>1, <1>2, <1>3, <3>1, <3>3 DEF NewFilesAreOwn
    <3>4. QED BY <3>2, <3>3
  <2>3. QED BY <2>1, <2>2 DEF NewFilesAreOwn
<1>10. QED BY <1>5, <1>6, <1>9 DEF FileInv

\* A pi is moved: onto a file that exists, or onto one nobody writes.
LEMMA MoveKeepsFiles ==
  ASSUME IInv, FileInv, NEW w \in Windows, MoveStarts(w)
  PROVE  FileInv'
<1> USE Names
<1> DEFINE s == SessionFor(w)
<1>1. Types /\ FileTypes /\ TargetsAreClaimed /\ SharedFilesExist /\ UnmovedAreKnown /\ NewFilesAreOwn
  BY DEF IInv, FileInv
<1>2. /\ ~quit /\ win[w] = "open" /\ s # None /\ life[s] = "up" /\ s \in Sessions
      /\ UNCHANGED <<win, target, windowSessions, windowsBySession, owner, life, known>>
  BY <1>1 DEF MoveStarts, SessionFor, winVars, mapVars, Types
<1>3. Mapped(s) /\ owner[s] = w
  BY <1>2 DEF IInv, SessionInv, RegisteredAlive, SessionFor, Mapped, Windows
<1>4. PICK f \in Files :
        /\ file' = [file EXCEPT ![s] = f]
        /\ \/ f \in disk /\ moved' = moved \cup {s} /\ disk' = disk
           \/ /\ f \notin disk /\ \A x \in Sessions : file[x] # f
              /\ \/ moved' = moved \cup {s} /\ disk' = disk \cup {f}
                 \/ moved' = moved /\ disk' = disk
  BY <1>1 DEF MoveStarts, InUse, FileTypes
<1>5. \A x \in Sessions : file'[x] = (IF x = s THEN f ELSE file[x]) /\ (Mapped(x)' <=> Mapped(x))
  BY <1>1, <1>2, <1>4 DEF FileTypes, Mapped
<1>6. /\ disk \subseteq disk' /\ moved \subseteq moved' /\ moved' \subseteq moved \cup {s}
      /\ \A x \in Sessions : x # s /\ file[x] \notin disk => file[x] \notin disk'
  BY <1>4
<1>7. TargetsAreClaimed'
  BY <1>1, <1>2, <1>6 DEF TargetsAreClaimed
<1>8. SharedFilesExist'
  BY <1>1, <1>4, <1>5, <1>6 DEF SharedFilesExist
<1>9. UnmovedAreKnown'
  <2>1. \A x \in Sessions : Mapped(x)' /\ x \notin moved' => known'[x] = file'[x] \/ file'[x] \notin disk'
    <3> TAKE x \in Sessions
    <3>1. CASE x = s
      BY <1>4, <1>5, <3>1
    <3>2. CASE x # s
      BY <1>1, <1>2, <1>5, <1>6, <3>2 DEF UnmovedAreKnown
    <3>3. QED BY <3>1, <3>2
  <2>2. \A x \in Sessions : Mapped(x)' /\ win'[owner'[x]] # "open" => x \notin moved' /\ known'[x] = file'[x]
    BY <1>1, <1>2, <1>3, <1>5, <1>6 DEF UnmovedAreKnown
  <2>3. \A x \in moved' : life'[x] \notin {"none", "booting"}
    BY <1>1, <1>2, <1>6 DEF UnmovedAreKnown
  <2>4. QED BY <2>1, <2>2, <2>3 DEF UnmovedAreKnown
<1>10. NewFilesAreOwn'
  <2>1. \A x \in Sessions : x # s /\ OnItsOwn(x)' => OnItsOwn(x) /\ file'[x] = file[x]
    BY <1>2, <1>5, <1>6 DEF OnItsOwn
  <2>2. \A x \in Sessions : x = s /\ OnItsOwn(x)' => f \notin disk /\ \A y \in Sessions : file[y] # f
    BY <1>4 DEF OnItsOwn
  <2>3. \A x, y \in Sessions : OnItsOwn(x)' /\ OnItsOwn(y)' /\ file'[x] = file'[y] => x = y
    BY <1>1, <1>2, <1>5, <2>1, <2>2 DEF NewFilesAreOwn
  <2>4. \A x \in Sessions, v \in Windows : OnItsOwn(x)' /\ win'[owner'[x]] = "open" => target'[v] # file'[x]
    <3> TAKE x \in Sessions, v \in Windows
    <3>1. CASE x = s
      BY <1>1, <1>2, <1>5, <2>2, <3>1 DEF TargetsAreClaimed
    <3>2. CASE x # s
      BY <1>1, <1>2, <2>1, <3>2 DEF NewFilesAreOwn
    <3>3. QED BY <3>1, <3>2
  <2>5. QED BY <2>3, <2>4 DEF NewFilesAreOwn
<1>11. QED BY <1>7, <1>8, <1>9, <1>10 DEF FileInv

LEMMA MoveEndKeepsFiles ==
  ASSUME IInv, FileInv, NEW s \in Sessions, MoveEnds(s)
  PROVE  FileInv'
<1> USE Names
<1>1. Types /\ FileTypes /\ TargetsAreClaimed /\ SharedFilesExist /\ UnmovedAreKnown /\ NewFilesAreOwn
  BY DEF IInv, FileInv
<1>2. /\ life[s] = "up" /\ file[s] \in Files /\ known' = [known EXCEPT ![s] = file[s]]
      /\ disk' = disk \cup {file[s]}
      /\ UNCHANGED <<win, target, windowSessions, windowsBySession, owner, life, file, moved>>
  BY <1>1 DEF MoveEnds, winVars, mapVars, historyVars, FileTypes
<1>3. \A x \in Sessions : known'[x] = (IF x = s THEN file[s] ELSE known[x]) /\ (Mapped(x)' <=> Mapped(x))
  BY <1>1, <1>2 DEF FileTypes, Mapped
<1>4. \A x \in Sessions : x # s /\ file[x] \notin disk => file[x] \notin disk'
  BY <1>1, <1>2 DEF SharedFilesExist
<1>5. TargetsAreClaimed' /\ SharedFilesExist'
  BY <1>1, <1>2 DEF TargetsAreClaimed, SharedFilesExist
<1>6. UnmovedAreKnown'
  BY <1>1, <1>2, <1>3, <1>4 DEF UnmovedAreKnown
<1>7. NewFilesAreOwn'
  BY <1>1, <1>2, <1>3 DEF NewFilesAreOwn, OnItsOwn, Mapped
<1>8. QED BY <1>5, <1>6, <1>7 DEF FileInv

\* The other steps move nobody and register nobody; a window that closes gives its claim back.
LEMMA OthersKeepFiles ==
  ASSUME IInv, FileInv,
         \/ \E w \in Windows : PageLoaded(w) \/ CloseWindow(w)
         \/ RebindStarts \/ Quit \/ UNCHANGED vars
  PROVE  FileInv'
<1> USE Names
<1>1. Types /\ FileTypes /\ MadeInOrder /\ RegisteredAlive /\ TargetsAreClaimed /\ UnmovedAreKnown
  BY DEF IInv, SessionInv, FileInv
<1>2. UNCHANGED <<file, known, disk, moved, target>>
  BY DEF PageLoaded, CloseWindow, RebindStarts, Quit, vars, winVars, sessionVars, historyVars
<1>3. ASSUME NEW w \in Windows, NEW p \in Sessions \cup {None}, StartSession(w, p),
             UNCHANGED <<win, windowSessions, windowsBySession>>
      PROVE  FileInv'
  <2>1. \A s \in Sessions : /\ life[s] # "none" => owner'[s] = owner[s] /\ life'[s] = life[s]
                            /\ life[s] = "none" => owner[s] = None /\ windowSessions[w] # s
                            /\ life[s] = "none" /\ owner'[s] # None => owner'[s] = w
    <3>1. \A s \in Sessions : windowSessions[w] = s => life[s] = "up"
      BY <1>1 DEF RegisteredAlive
    <3>2. \A s \in Sessions : life[s] = "none" => owner[s] = None
      BY <1>1 DEF MadeInOrder
    <3>3. \A s \in Sessions : owner'[s] = (IF s = made' THEN w ELSE owner[s])
                             /\ life'[s] = (IF s = made' THEN "booting" ELSE life[s])
      BY <1>1, <1>3, StartMakes
    <3>4. life[made'] = "none"
      BY <1>1, <1>3, StartMakes
    <3>5. QED BY <3>1, <3>2, <3>3, <3>4
  <2>2. \A s \in Sessions : Mapped(s)' => Mapped(s) /\ owner'[s] = owner[s]
    BY <1>3, <2>1 DEF Mapped
  <2>3. TargetsAreClaimed'
    BY <1>1, <1>2, <1>3 DEF TargetsAreClaimed
  <2>4. \A s \in moved : life'[s] \notin {"none", "booting"}
    BY <1>1, <2>1 DEF UnmovedAreKnown, FileTypes
  <2>5. QED BY <1>2, <1>3, <2>2, <2>3, <2>4, SameFiles
<1>4. ASSUME UNCHANGED <<win, windowsBySession, owner>>,
             windowSessions' = windowSessions \/ windowSessions' = [w \in Windows |-> None],
             \A s \in Sessions : life'[s] = life[s] \/ life'[s] = "disposed"
      PROVE  FileInv'
  <2>1. \A s \in Sessions : Mapped(s)' => Mapped(s)
    BY <1>4 DEF Mapped
  <2>2. TargetsAreClaimed'
    BY <1>1, <1>2, <1>4 DEF TargetsAreClaimed
  <2>3. \A s \in moved : life'[s] \notin {"none", "booting"}
    BY <1>1, <1>4 DEF UnmovedAreKnown, FileTypes
  <2>4. QED BY <1>2, <1>4, <2>1, <2>2, <2>3, SameFiles
<1>5. ASSUME NEW w \in Windows, PageLoaded(w) PROVE FileInv'
  <2>1. CASE win[w] = "open"
    <3>1. StartSession(w, None) /\ UNCHANGED <<win, windowSessions, windowsBySession>>
      BY <1>5, <2>1 DEF PageLoaded, mapVars
    <3>2. QED BY <1>3, <3>1
  <2>2. CASE win[w] # "open"
    <3>1. UNCHANGED <<win, windowsBySession, owner, windowSessions, life>>
      BY <1>5, <2>2 DEF PageLoaded, mapVars
    <3>2. QED BY <1>4, <3>1
  <2>3. QED BY <2>1, <2>2
<1>6. CASE RebindStarts
  <2>1. StartSession(Main, chatSession) /\ UNCHANGED <<win, windowSessions, windowsBySession>>
    BY <1>6 DEF RebindStarts, winVars, mapVars
  <2>2. chatSession \in Sessions \cup {None}
    BY <1>1 DEF Types
  <2>3. QED BY <1>3, <2>1, <2>2
<1>7. CASE Quit
  <2>1. /\ UNCHANGED <<win, windowsBySession, owner>> /\ windowSessions' = [w \in Windows |-> None]
        /\ life' = After(None, {windowSessions[w] : w \in Windows})
    BY <1>7 DEF Quit, winVars
  <2>2. \A s \in Sessions : life'[s] = life[s] \/ life'[s] = "disposed"
    BY <1>1, <2>1, AfterIs
  <2>3. QED BY <1>4, <2>1, <2>2
<1>8. CASE UNCHANGED vars
  <2>1. UNCHANGED <<win, windowsBySession, owner, windowSessions, life>>
    BY <1>8 DEF vars, winVars, mapVars, sessionVars
  <2>2. QED BY <1>4, <2>1
<1>9. ASSUME NEW w \in Windows, CloseWindow(w) PROVE FileInv'
  <2> DEFINE late == w = Main \/ stage[w] = "ready"
             d == IF w = Main THEN chatSession ELSE windowSessions[w]
  <2>1. win[w] = "open" /\ win' = [win EXCEPT ![w] = "closed"] /\ owner' = owner
    BY <1>9 DEF CloseWindow
  <2>2. /\ late => /\ windowSessions' = [windowSessions EXCEPT ![w] = None]
                   /\ windowsBySession' = [f \in Files |-> IF f = target[w] THEN None ELSE windowsBySession[f]]
                   /\ life' = After(None, {d})
        /\ ~late => UNCHANGED <<windowSessions, windowsBySession, life>>
    BY <1>9 DEF CloseWindow
  <2>3. \A s \in Sessions : life'[s] = life[s] \/ life'[s] = "disposed"
    BY <1>1, <2>2, AfterIs
  <2>4. windowSessions[w] # None => late
    BY <1>1 DEF RegisteredAlive
  <2>5. \A v \in Windows : /\ windowSessions'[v] = (IF v = w THEN None ELSE windowSessions[v])
                           /\ win'[v] = (IF v = w THEN "closed" ELSE win[v])
    BY <1>1, <2>1, <2>2, <2>4 DEF Types
  <2>6. \A s \in Sessions : Mapped(s)' => Mapped(s) /\ owner[s] # w /\ owner[s] \in Windows
    BY <2>1, <2>5 DEF Mapped
  <2>7. TargetsAreClaimed'
    <3> SUFFICES ASSUME NEW v \in Windows, target[v] # None
                 PROVE  /\ target[v] \in disk /\ win'[v] # "none"
                        /\ win'[v] = "open" => windowsBySession'[target[v]] = v
      BY <1>2 DEF TargetsAreClaimed
    <3>1. target[v] \in disk /\ target[v] \in Files /\ win'[v] # "none"
      BY <1>1, <2>5 DEF TargetsAreClaimed, FileTypes
    <3>2. CASE win'[v] = "open"
      <4>1. v # w /\ windowsBySession[target[v]] = v
        BY <1>1, <2>5, <3>2 DEF TargetsAreClaimed
      <4>2. target[w] # target[v]
        BY <1>1, <2>1, <4>1 DEF TargetsAreClaimed
      <4>3. QED BY <2>2, <3>1, <4>1, <4>2
    <3>3. QED BY <3>1, <3>2
  <2>8. \A s \in moved : life'[s] \notin {"none", "booting"}
    BY <1>1, <2>3 DEF UnmovedAreKnown, FileTypes
  <2>9. \A s \in Sessions : Mapped(s)' => (win'[owner[s]] = "open" <=> win[owner[s]] = "open")
    BY <2>5, <2>6
  <2>10. QED BY <1>2, <2>1, <2>6, <2>7, <2>8, <2>9, SameFiles
<1>10. QED BY <1>5, <1>6, <1>7, <1>8, <1>9

LEMMA NextFiles == IInv /\ FileInv /\ [Next]_vars => FileInv'
<1> SUFFICES ASSUME IInv, FileInv, [Next]_vars PROVE FileInv'
  OBVIOUS
<1> USE Names
<1>1. Types /\ FileTypes /\ MadeInOrder /\ UnmovedAreKnown
  BY DEF IInv, SessionInv, FileInv
<1>2. ASSUME NEW s \in Sessions, SessionCreated(s) PROVE FileInv'
  <2>1. /\ life[s] = "booting" /\ owner[s] \in Windows
        /\ UNCHANGED <<win, target, windowsBySession, owner, moved>>
    BY <1>1, <1>2 DEF SessionCreated, historyVars, MadeInOrder, Types
  <2>2. CASE /\ ComesUp(s) /\ life' = After(s, {}) /\ windowSessions' = Registering(owner[s], s)
    <3>1. \A x \in Sessions : x # s => life'[x] = life[x]
      BY <1>1, <2>1, <2>2, AfterIs
    <3>2. \A x \in Sessions : x # s /\ Mapped(x)' => Mapped(x)
      BY <1>1, <2>1, <2>2 DEF Mapped, Registering, Types
    <3>3. \A x \in moved : x # s => life'[x] \notin {"none", "booting"}
      BY <1>1, <3>1 DEF UnmovedAreKnown, FileTypes
    <3>4. QED BY <2>1, <2>2, <3>2, <3>3, UpKeepsFiles
  <2>3. CASE life' = [life EXCEPT ![s] = "failed"] /\ UNCHANGED <<windowSessions, file, known, disk>>
    <3>1. \A x \in moved : life'[x] \notin {"none", "booting"}
      BY <1>1, <2>3 DEF UnmovedAreKnown, FileTypes, Types
    <3>2. TargetsAreClaimed' /\ \A x \in Sessions : Mapped(x)' => Mapped(x)
      BY <2>1, <2>3 DEF FileInv, TargetsAreClaimed, Mapped
    <3>3. QED BY <2>1, <2>3, <3>1, <3>2, SameFiles
  <2>4. QED BY <1>2, <2>2, <2>3 DEF SessionCreated
<1>3. ASSUME NEW s \in Sessions, RebindEnds(s) PROVE FileInv'
  <2>1. /\ life[s] = "booting" /\ owner[s] \in Windows
        /\ UNCHANGED <<win, target, windowsBySession, owner, moved>>
    BY <1>1, <1>3 DEF RebindEnds, Rebinding, winVars, historyVars, MadeInOrder, Types
  <2>2. CASE /\ ComesUp(s) /\ life' = After(s, {previous[s]}) /\ windowSessions' = Registering(Main, s)
    <3>1. \A x \in Sessions : x # s => life'[x] = life[x] \/ life'[x] = "disposed"
      BY <1>1, <2>1, <2>2, AfterIs
    <3>2. \A x \in Sessions : x # s /\ Mapped(x)' => Mapped(x)
      BY <1>1, <2>1, <2>2 DEF Mapped, Registering, Types
    <3>3. \A x \in moved : x # s => life'[x] \notin {"none", "booting"}
      BY <1>1, <3>1 DEF UnmovedAreKnown, FileTypes
    <3>4. QED BY <2>1, <2>2, <3>2, <3>3, UpKeepsFiles
  <2>3. CASE life' = [life EXCEPT ![s] = "failed"] /\ UNCHANGED <<windowSessions, file, known, disk>>
    <3>1. \A x \in moved : life'[x] \notin {"none", "booting"}
      BY <1>1, <2>3 DEF UnmovedAreKnown, FileTypes, Types
    <3>2. TargetsAreClaimed' /\ \A x \in Sessions : Mapped(x)' => Mapped(x)
      BY <2>1, <2>3 DEF FileInv, TargetsAreClaimed, Mapped
    <3>3. QED BY <2>1, <2>3, <3>1, <3>2, SameFiles
  <2>4. QED BY <1>3, <2>2, <2>3 DEF RebindEnds
<1>4. QED
  BY <1>2, <1>3, OpenKeepsFiles, MoveKeepsFiles, MoveEndKeepsFiles, OthersKeepFiles DEF Next, Stop

LEMMA FilesSuffice == IInv /\ FileInv => OneWriterUnlessMoved
<1> SUFFICES ASSUME IInv, FileInv, NEW s \in Sessions, NEW t \in Sessions, s # t,
                    life[s] = "up", life[t] = "up", file[s] = file[t],
                    s \notin moved, t \notin moved, Reachable(s), Reachable(t)
             PROVE  FALSE
  BY DEF OneWriterUnlessMoved
<1> USE Names
<1>1. Types /\ FileTypes /\ MadeInOrder /\ RegisteredAlive /\ TargetsAreClaimed /\ NewFilesAreOwn
  BY DEF IInv, SessionInv, FileInv
<1>2. ~quit
  BY <1>1 DEF Reachable, RegisteredAlive, Types
<1>3. ASSUME NEW x \in Sessions, Reachable(x) PROVE Mapped(x) /\ win[owner[x]] = "open" /\ owner[x] \in Windows
  BY <1>1, <1>2, <1>3 DEF Reachable, RegisteredAlive, Mapped
<1>4. owner[s] # owner[t]
  BY <1>3 DEF Mapped
<1>5. ASSUME NEW x \in Sessions, NEW y \in Sessions, x # y, Reachable(x), Reachable(y), x \notin moved, y \notin moved,
             file[x] = file[y], file[x] # target[owner[x]]
      PROVE  FALSE
  <2>1. OnItsOwn(x) /\ win[owner[x]] = "open"
    BY <1>3, <1>5 DEF OnItsOwn
  <2>2. target[owner[y]] # file[y]
    BY <1>1, <1>3, <1>5, <2>1 DEF NewFilesAreOwn
  <2>3. OnItsOwn(y)
    BY <1>3, <1>5, <2>2 DEF OnItsOwn
  <2>4. QED BY <1>1, <1>5, <2>1, <2>3 DEF NewFilesAreOwn
<1>6. file[s] = target[owner[s]] /\ file[t] = target[owner[t]]
  BY <1>5
<1>7. file[s] # None
  BY <1>1 DEF FileTypes
<1>8. windowsBySession[file[s]] = owner[s] /\ windowsBySession[file[t]] = owner[t]
  <2>1. win[owner[s]] = "open" /\ owner[s] \in Windows /\ win[owner[t]] = "open" /\ owner[t] \in Windows
    BY <1>3
  <2>2. QED BY <1>1, <1>6, <1>7, <2>1 DEF TargetsAreClaimed
<1>9. QED BY <1>4, <1>8

\* No session file has two writers that windows can reach, unless one of them was moved onto it
\* by a switch or a fork: opening windows never does that.
THEOREM OpeningNeverSharesAFile == Spec => []OneWriterUnlessMoved
<1>1. QED BY InitIInv, NextIInv, InitFiles, NextFiles, FilesSuffice, PTL DEF Spec

--------------------------------------------------------------------------------
\* The client of a pi

\* The handled exit left no pipe to write to.
ExitClosesStdin == exited => ~stdin

ClientInv ==
  /\ ClientTypeOK
  /\ MapIsOpenRequests
  /\ TimersFollowRequests
  /\ ExitClosesStdin
  /\ NothingWaitsOnAGonePi
  /\ ReadyBeforeAnswers

\* A line of the pipe that is an answer names a request.
LEMMA LineShape ==
  ASSUME NEW line \in Lines
  PROVE  /\ line.type \in {"event", "oversize", "response"}
         /\ line.type = "response" => line.id \in Requests
BY DEF Lines, Event, Oversize, Response

\* failAll settles every open request and leaves the map and its timers empty.
LEMMA FailAllSettles ==
  ASSUME ClientTypeOK, MapIsOpenRequests, TimersFollowRequests, FailAll
  PROVE  /\ req' \in [Requests -> {"new", "pending", "ok", "failed"}]
         /\ pending' = {} /\ timers' = {}
         /\ MapIsOpenRequests' /\ TimersFollowRequests'
         /\ \A r \in Requests : req'[r] = "ok" <=> req[r] = "ok"
BY DEF ClientTypeOK, MapIsOpenRequests, TimersFollowRequests, FailAll

LEMMA ClientInitInv == ClientInit => ClientInv
<1> SUFFICES ASSUME ClientInit PROVE ClientInv
  OBVIOUS
<1>1. ClientTypeOK
  <2>1. out \in Seq(Lines)
    BY DEF ClientInit
  <2>2. req \in [Requests -> {"new", "pending", "ok", "failed"}]
    BY DEF ClientInit
  <2>3. QED BY <2>1, <2>2 DEF ClientInit, ClientTypeOK
<1>2. MapIsOpenRequests
  BY DEF ClientInit, MapIsOpenRequests
<1>3. QED
  BY <1>1, <1>2 DEF ClientInit, ClientInv, TimersFollowRequests, ExitClosesStdin,
     NothingWaitsOnAGonePi, ReadyBeforeAnswers

LEMMA ClientNextInv == ClientInv /\ [ClientNext]_rpcVars => ClientInv'
<1> SUFFICES ASSUME ClientInv, [ClientNext]_rpcVars PROVE ClientInv'
  OBVIOUS
<1> USE DEF ClientInv
<1>1. ASSUME NEW r \in Requests, Request(r) PROVE ClientInv'
  <2>1. ClientTypeOK'
    BY <1>1 DEF Request, ClientTypeOK
  <2>2. MapIsOpenRequests' /\ TimersFollowRequests'
    BY <1>1 DEF Request, ClientTypeOK, MapIsOpenRequests, TimersFollowRequests
  <2>3. ExitClosesStdin' /\ NothingWaitsOnAGonePi' /\ ReadyBeforeAnswers'
    BY <1>1 DEF Request, ClientTypeOK, ExitClosesStdin, NothingWaitsOnAGonePi, ReadyBeforeAnswers
  <2>4. QED BY <2>1, <2>2, <2>3
<1>2. ASSUME NEW r \in Requests, Timeout(r) PROVE ClientInv'
  <2>1. ClientTypeOK'
    BY <1>2 DEF Timeout, ClientTypeOK
  <2>2. MapIsOpenRequests' /\ TimersFollowRequests'
    BY <1>2 DEF Timeout, ClientTypeOK, MapIsOpenRequests, TimersFollowRequests
  <2>3. ExitClosesStdin' /\ NothingWaitsOnAGonePi' /\ ReadyBeforeAnswers'
    BY <1>2 DEF Timeout, ClientTypeOK, ExitClosesStdin, NothingWaitsOnAGonePi, ReadyBeforeAnswers
  <2>4. QED BY <2>1, <2>2, <2>3
<1>3. ASSUME NEW r \in Requests, PiAnswers(r) PROVE ClientInv'
  <2>1. PICK success \in BOOLEAN : out' = Append(out, Response(r, success))
    BY <1>3 DEF PiAnswers
  <2>2. Response(r, success) \in Lines
    BY DEF Lines
  <2>3. ClientTypeOK'
    BY <1>3, <2>1, <2>2 DEF PiAnswers, ClientTypeOK, clientVars
  <2>4. QED
    BY <1>3, <2>3 DEF PiAnswers, clientVars, MapIsOpenRequests, TimersFollowRequests,
       ExitClosesStdin, NothingWaitsOnAGonePi, ReadyBeforeAnswers
<1>4. CASE ReadLine
  <2> DEFINE line == Head(out)
  <2>1. line \in Lines /\ out' \in Seq(Lines)
    BY <1>4 DEF ReadLine, ClientTypeOK
  <2>2. CASE line.type = "oversize" /\ FailAll /\ reading' = FALSE /\ UNCHANGED ready
    BY <1>4, <2>1, <2>2, FailAllSettles DEF ReadLine, ClientTypeOK, ExitClosesStdin,
       NothingWaitsOnAGonePi, ReadyBeforeAnswers
  <2>3. CASE line.type = "response" /\ ready' = TRUE /\ Answered(line) /\ UNCHANGED reading
    <3>1. line.id \in Requests
      BY <2>1, <2>3, LineShape
    <3>2. ClientTypeOK'
      BY <1>4, <2>1, <2>3, <3>1 DEF ReadLine, Answered, ClientTypeOK
    <3>3. MapIsOpenRequests' /\ TimersFollowRequests'
      BY <2>3, <3>1 DEF Answered, ClientTypeOK, MapIsOpenRequests, TimersFollowRequests
    <3>4. ExitClosesStdin' /\ NothingWaitsOnAGonePi' /\ ReadyBeforeAnswers'
      BY <1>4, <2>3, <3>1 DEF ReadLine, Answered, ExitClosesStdin, NothingWaitsOnAGonePi,
         ReadyBeforeAnswers
    <3>5. QED BY <3>2, <3>3, <3>4
  <2>4. CASE line.type = "event" /\ ready' = TRUE /\ UNCHANGED <<req, pending, timers, reading>>
    BY <1>4, <2>1, <2>4 DEF ReadLine, ClientTypeOK, MapIsOpenRequests, TimersFollowRequests,
       ExitClosesStdin, NothingWaitsOnAGonePi, ReadyBeforeAnswers
  <2>5. QED BY <1>4, <2>2, <2>3, <2>4 DEF ReadLine
<1>5. CASE StderrOversize
  BY <1>5, FailAllSettles DEF StderrOversize, ClientTypeOK, ExitClosesStdin,
     NothingWaitsOnAGonePi, ReadyBeforeAnswers
<1>6. CASE ExitEvent
  BY <1>6, FailAllSettles DEF ExitEvent, ClientTypeOK, ExitClosesStdin,
     NothingWaitsOnAGonePi, ReadyBeforeAnswers
<1>7. CASE Dispose
  BY <1>7, FailAllSettles DEF Dispose, ClientTypeOK, ExitClosesStdin,
     NothingWaitsOnAGonePi, ReadyBeforeAnswers
<1>8. ASSUME NEW line \in {Event, Oversize}, PiPrints(line) PROVE ClientInv'
  <2>1. line \in Lines
    BY DEF Lines
  <2>2. QED
    BY <1>8, <2>1 DEF PiPrints, ClientTypeOK, clientVars, MapIsOpenRequests, TimersFollowRequests,
       ExitClosesStdin, NothingWaitsOnAGonePi, ReadyBeforeAnswers
<1>9. CASE PiDies
  BY <1>9 DEF PiDies, ClientTypeOK, clientVars, MapIsOpenRequests, TimersFollowRequests,
     ExitClosesStdin, NothingWaitsOnAGonePi, ReadyBeforeAnswers
<1>10. CASE UNCHANGED rpcVars
  BY <1>10 DEF rpcVars, ClientTypeOK, MapIsOpenRequests, TimersFollowRequests,
     ExitClosesStdin, NothingWaitsOnAGonePi, ReadyBeforeAnswers
<1>11. QED
  BY <1>1, <1>2, <1>3, <1>4, <1>5, <1>6, <1>7, <1>8, <1>9, <1>10 DEF ClientNext

\* The inductive invariant holds in every state the client reaches.
THEOREM ClientInvariantHolds == ClientSpec => []ClientInv
<1>1. ClientInit => ClientInv
  BY ClientInitInv
<1>2. ClientInv /\ [ClientNext]_rpcVars => ClientInv'
  BY ClientNextInv
<1>3. QED BY <1>1, <1>2, PTL DEF ClientSpec

\* The map of the client and the open promises are the same requests.
THEOREM MapHoldsOpenRequests == ClientSpec => []MapIsOpenRequests
<1>1. ClientInv => MapIsOpenRequests
  BY DEF ClientInv
<1>2. QED BY <1>1, ClientInvariantHolds, PTL

\* Timers run for exactly the open requests that have one.
THEOREM NoStrayTimers == ClientSpec => []TimersFollowRequests
<1>1. ClientInv => TimersFollowRequests
  BY DEF ClientInv
<1>2. QED BY <1>1, ClientInvariantHolds, PTL

\* Together: what the client keeps of its requests is so.
THEOREM BooksAreTrue == ClientSpec => []PendingIsTrue
<1>1. ClientInv => PendingIsTrue
  BY DEF ClientInv, PendingIsTrue
<1>2. QED BY <1>1, ClientInvariantHolds, PTL

\* After the exit was handled, or after dispose, no request waits, whenever it was made.
THEOREM GonePiIsIdle == ClientSpec => []NothingWaitsOnAGonePi
<1>1. ClientInv => NothingWaitsOnAGonePi
  BY DEF ClientInv
<1>2. QED BY <1>1, ClientInvariantHolds, PTL

\* The variables stay in their types, the map within the requests.
THEOREM ClientTypeCorrect == ClientSpec => []ClientTypeOK
<1>1. ClientInv => ClientTypeOK
  BY DEF ClientInv
<1>2. QED BY <1>1, ClientInvariantHolds, PTL

\* No request is answered before the start-up reported that it is ready.
THEOREM AnswersAfterReady == ClientSpec => []ReadyBeforeAnswers
<1>1. ClientInv => ReadyBeforeAnswers
  BY DEF ClientInv
<1>2. QED BY <1>1, ClientInvariantHolds, PTL
================================================================================
