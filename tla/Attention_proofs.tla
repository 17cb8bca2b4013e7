---------------------------- MODULE Attention_proofs ----------------------------
(***************************************************************************)
(* Proofs about Attention for any number of windows and requests: the list  *)
(* of decisions and the board tell the truth, and reminders have reasons.   *)
(* The board's part of the invariant is stated of any board, list and set   *)
(* of windows, so that what its operations do is a lemma for each.          *)
(***************************************************************************)
EXTENDS Attention, FiniteSetTheorems, TLAPS

Asking(list, fr, w) == {r \in list : fr[r] = w}

\* The row is true of window w.
TrueRow(row, w, list, fr, str, unr) ==
  /\ row.waiting = Cardinality(Asking(list, fr, w))
  /\ w \in Chats => (row.running <=> w \in str)
  /\ w \in Children => row.unread = unr[w]

\* The board is true.  Besides what the properties say: who has no row but may get one finds a
\* new row true, and the notifier's row stays true while it is closed.
Board(rws, list, fr, wins, str, unr) ==
  /\ DOMAIN rws \subseteq Windows /\ \A w \in DOMAIN rws : rws[w] \in Row
  /\ wins \cap Children \subseteq DOMAIN rws
  /\ \A w \in DOMAIN rws \cap wins : TrueRow(rws[w], w, list, fr, str, unr)
  /\ Notifier \in DOMAIN rws => rws[Notifier].waiting = 0
  /\ Main \in wins \ DOMAIN rws => Asking(list, fr, Main) = {} /\ Main \notin str

\* The types of all but the rows.
Types ==
  /\ open \subseteq Windows /\ gone \subseteq Chats \ open /\ focused \in Chats \cup {None}
  /\ served \subseteq (open \cup gone) \cap Chats
  /\ made \in 0..MaxRequests /\ from \in [Requests -> Chats \cup {None}]
  /\ asks \subseteq 1..made
  /\ shown \in [Chats -> {0} \cup Requests] /\ \A w \in Chats : shown[w] \in {0} \cup Of(w)
  /\ streaming \subseteq open \cap served
  /\ decisions \subseteq 1..made /\ Cardinality(decisions) <= MaxPending
  /\ reminders \in [Chats -> 0..Repeats] /\ unread \in [Chats -> 0..MaxUnread]
  /\ withdrawn \subseteq 1..made

\* Requests that were made have a window.  Windows that are not open have no unread turns; those
\* whose session is not there have none either, no listed request and no reminders.
Known ==
  /\ \A r \in 1..made : from[r] \in Chats
  /\ \A w \in Chats \ open : unread[w] = 0
  /\ \A r \in decisions : from[r] \in served
  /\ \A w \in Chats \ served : unread[w] = 0 /\ reminders[w] = 0

BoardInv == Board(rows, decisions, from, open, streaming, unread)

\* No closed window has a row, but one that nobody heard closing.
NoGhosts == DOMAIN rows \cap Children \subseteq open \cup Unheard

IInv ==
  /\ Types /\ Known /\ BoardInv /\ NoGhosts
  /\ WaitingIsListed /\ ListedWindowsAreOpen /\ RemindersHaveReasons

--------------------------------------------------------------------------------
\* Lists

\* The requests of a window are finitely many, and no more than there are.
LEMMA AskingIsFinite ==
  ASSUME NEW list \in SUBSET Requests, NEW fr, NEW w
  PROVE  Cardinality(Asking(list, fr, w)) \in 0..MaxRequests
<1>1. IsFiniteSet(Requests) /\ Cardinality(Requests) = MaxRequests
  BY FS_Interval, AttentionAssumption DEF Requests
<1>2. Asking(list, fr, w) \in SUBSET Requests
  BY DEF Asking
<1>3. QED
  BY <1>1, <1>2, FS_Subset, FS_CardinalityType, AttentionAssumption

\* A list of requests is finite.
LEMMA ListIsFinite ==
  ASSUME NEW list \in SUBSET Requests
  PROVE  IsFiniteSet(list) /\ Cardinality(list) \in Nat
<1>1. IsFiniteSet(Requests)
  BY FS_Interval, AttentionAssumption DEF Requests
<1>2. IsFiniteSet(list)
  BY <1>1, FS_Subset
<1>3. QED
  BY <1>2, FS_CardinalityType

\* Nobody asks for a window that no listed request is from.
LEMMA NobodyAsks ==
  ASSUME NEW list, NEW fr, NEW w, \A r \in list : fr[r] # w
  PROVE  Asking(list, fr, w) = {} /\ Cardinality(Asking(list, fr, w)) = 0
BY FS_EmptySet DEF Asking

\* A part of a list is no longer than the list.
LEMMA PartIsShorter ==
  ASSUME NEW list \in SUBSET Requests, NEW part \in SUBSET list
  PROVE  Cardinality(part) <= Cardinality(list)
BY ListIsFinite, FS_Subset

\* add: whatever is added, the cap holds afterwards.
LEMMA CapHolds ==
  ASSUME NEW list \in SUBSET Requests, Cardinality(list) <= MaxPending, NEW r \in Requests
  PROVE  Cardinality((list \cup {r}) \ Oldest(list \cup {r})) <= MaxPending
<1> DEFINE more == list \cup {r}
           less == more \ Oldest(more)
<1>1. IsFiniteSet(more) /\ Cardinality(more) \in Nat /\ Cardinality(list) \in Nat /\ more \in SUBSET Requests
  BY ListIsFinite
<1>2. Cardinality(more) <= Cardinality(list) + 1
  BY ListIsFinite, FS_AddElement
<1>3. CASE Cardinality(more) <= MaxPending
  BY <1>1, <1>3, PartIsShorter, less \in SUBSET more, FS_Subset, FS_CardinalityType, AttentionAssumption
<1>4. CASE ~(Cardinality(more) <= MaxPending)
  <2>1. more \subseteq Nat /\ more # {}
    BY <1>1 DEF Requests
  <2>2. PICK m \in more : \A q \in more : ~(<<q, m>> \in OpToRel(<, Nat))
    BY <2>1, NatLessThanWellFounded, WFMin
  <2>3. \A q \in more : ~(q < m)
    BY <2>1, <2>2 DEF OpToRel
  <2>4. m \in Oldest(more)
    BY <1>1, <1>4, <2>1, <2>3, AttentionAssumption DEF Oldest
  <2>5. IsFiniteSet(more \ {m}) /\ Cardinality(more \ {m}) = Cardinality(more) - 1
    BY <1>1, FS_RemoveElement
  <2>6. Cardinality(less) <= Cardinality(more \ {m}) /\ IsFiniteSet(less)
    <3>1. less \in SUBSET (more \ {m})
      BY <2>4
    <3>2. QED
      BY <3>1, <2>5, FS_Subset
  <2>7. Cardinality(less) \in Nat
    BY <2>6, FS_CardinalityType
  <2>8. Cardinality(less) <= MaxPending
    BY <1>1, <1>2, <2>5, <2>6, <2>7, AttentionAssumption
  <2>9. QED
    BY <2>8
<1>5. QED
  BY <1>3, <1>4

--------------------------------------------------------------------------------
\* Rows

\* What an assignment to one field of a row leaves.
LEMMA RowFields ==
  ASSUME NEW row \in Row
  PROVE  /\ \A n \in 0..MaxRequests :
              /\ [row EXCEPT !.waiting = n] \in Row /\ [row EXCEPT !.waiting = n].waiting = n
              /\ [row EXCEPT !.waiting = n].running = row.running /\ [row EXCEPT !.waiting = n].unread = row.unread
         /\ \A b \in BOOLEAN :
              /\ [row EXCEPT !.running = b] \in Row /\ [row EXCEPT !.running = b].running = b
              /\ [row EXCEPT !.running = b].waiting = row.waiting /\ [row EXCEPT !.running = b].unread = row.unread
         /\ \A n \in 0..MaxUnread :
              /\ [row EXCEPT !.unread = n] \in Row /\ [row EXCEPT !.unread = n].unread = n
              /\ [row EXCEPT !.unread = n].waiting = row.waiting /\ [row EXCEPT !.unread = n].running = row.running
BY DEF Row

LEMMA NewRowIsRow == NewRow \in Row /\ NewRow.waiting = 0 /\ NewRow.running = FALSE /\ NewRow.unread = 0
BY AttentionAssumption DEF Row, NewRow

\* refreshWaiting makes the counts true of any list.
LEMMA RefreshKeepsBoard ==
  ASSUME NEW rws, NEW old, NEW ofr, NEW wins \in SUBSET Windows, NEW str, NEW unr,
         Board(rws, old, ofr, wins, str, unr),
         NEW list \in SUBSET Requests, NEW fr, \A r \in list : fr[r] \in Chats
  PROVE  Board(RefreshWaiting(rws, list, wins, fr), list, fr, wins, str, unr)
<1> DEFINE board == RefreshWaiting(rws, list, wins, fr)
           count(w) == Cardinality({r \in list : fr[r] = w})
<1>1. \A w : count(w) = Cardinality(Asking(list, fr, w)) /\ count(w) \in 0..MaxRequests
  BY AskingIsFinite DEF Asking
<1>2. DOMAIN board = DOMAIN rws \cup wins
  BY DEF RefreshWaiting
<1>3. \A w \in wins : board[w] = [RowOf(rws, w) EXCEPT !.waiting = count(w)]
  BY DEF RefreshWaiting
<1>4. \A w \in DOMAIN rws \ wins : board[w] = rws[w]
  BY DEF RefreshWaiting
<1>5. \A w \in wins : RowOf(rws, w) \in Row
  BY NewRowIsRow DEF RowOf, Board
<1>6. \A w \in wins : /\ board[w] \in Row /\ board[w].waiting = count(w)
                      /\ board[w].running = RowOf(rws, w).running /\ board[w].unread = RowOf(rws, w).unread
  <2>1. TAKE w \in wins
  <2> DEFINE row == RowOf(rws, w)
  <2>2. row \in Row /\ count(w) \in 0..MaxRequests /\ board[w] = [row EXCEPT !.waiting = count(w)]
    BY <1>1, <1>3, <1>5
  <2> HIDE DEF row, count, board
  <2>3. /\ board[w] \in Row /\ board[w].waiting = count(w)
        /\ board[w].running = row.running /\ board[w].unread = row.unread
    BY <2>2, RowFields
  <2>4. QED
    BY <2>3 DEF row, count, board
<1>7. DOMAIN board \subseteq Windows /\ \A w \in DOMAIN board : board[w] \in Row
  BY <1>2, <1>4, <1>6 DEF Board
<1>8. wins \cap Children \subseteq DOMAIN board
  BY <1>2
<1>9. ASSUME NEW w \in DOMAIN board \cap wins PROVE TrueRow(board[w], w, list, fr, str, unr)
  <2>1. CASE w \in DOMAIN rws
    BY <1>1, <1>6, <1>9, <2>1 DEF Board, TrueRow, RowOf
  <2>2. CASE w \notin DOMAIN rws
    <3>1. w \notin Children
      BY <1>9, <2>2 DEF Board
    <3>2. w \in Chats => w = Main /\ Main \notin str
      BY <1>9, <2>2, <3>1 DEF Board, Chats
    <3>3. ~RowOf(rws, w).running
      BY <2>2, NewRowIsRow DEF RowOf
    <3>4. QED
      BY <1>1, <1>6, <1>9, <3>1, <3>2, <3>3 DEF TrueRow
  <2>3. QED
    BY <2>1, <2>2
<1>10. Notifier \in DOMAIN board => board[Notifier].waiting = 0
  <2>1. count(Notifier) = 0
    <3>1. \A r \in list : fr[r] # Notifier
      BY AttentionAssumption DEF Chats
    <3>2. Cardinality(Asking(list, fr, Notifier)) = 0
      BY <3>1, NobodyAsks
    <3>3. QED
      BY <1>1, <3>2
  <2>2. QED
    BY <1>2, <1>4, <1>6, <2>1 DEF Board
<1>11. QED
  BY <1>2, <1>7, <1>8, <1>9, <1>10 DEF Board

\* The notifier's window comes and goes.
LEMMA NotifierKeepsBoard ==
  ASSUME NEW rws, NEW list, NEW fr, NEW wins \in SUBSET Windows, NEW str, NEW unr,
         Board(rws, list, fr, wins, str, unr), \A r \in list : fr[r] \in Chats
  PROVE  /\ Board(rws, list, fr, wins \cup {Notifier}, str, unr)
         /\ Board(rws, list, fr, wins \ {Notifier}, str, unr)
<1>1. Notifier \notin Chats /\ Notifier \notin Children /\ Notifier # Main
  BY AttentionAssumption DEF Chats
<1>2. Notifier \in DOMAIN rws => TrueRow(rws[Notifier], Notifier, list, fr, str, unr)
  BY <1>1, NobodyAsks DEF TrueRow, Board
<1>3. QED
  BY <1>1, <1>2 DEF Board

\* update of what a row says of its window's turn or unread turns.  Main may have no row yet.
LEMMA UpdateKeepsBoard ==
  ASSUME NEW rws, NEW list, NEW fr, NEW wins \in SUBSET Windows, NEW str, NEW unr,
         Board(rws, list, fr, wins, str, unr), NEW w \in wins \cap Chats,
         NEW nstr, NEW nunr, NEW row \in Row,
         \A v \in Chats \ {w} : (v \in nstr <=> v \in str) /\ nunr[v] = unr[v],
         row.waiting = RowOf(rws, w).waiting, row.running <=> w \in nstr,
         w \in Children => row.unread = nunr[w]
  PROVE  Board(Update(rws, w, row), list, fr, wins, nstr, nunr)
<1> DEFINE board == Update(rws, w, row)
<1>1. DOMAIN board = DOMAIN rws \cup {w} /\ board[w] = row /\ \A v \in DOMAIN rws \ {w} : board[v] = rws[v]
  BY DEF Update
<1>2. w # Notifier /\ w \in Windows /\ Main \in Chats /\ Children \subseteq Chats
  BY AttentionAssumption DEF Chats, Windows
<1>3. row.waiting = Cardinality(Asking(list, fr, w))
  <2>1. CASE w \in DOMAIN rws
    BY <2>1 DEF Board, TrueRow, RowOf
  <2>2. CASE w \notin DOMAIN rws
    <3>1. w = Main
      BY <2>2 DEF Board, Chats
    <3>2. Asking(list, fr, w) = {}
      BY <2>2, <3>1 DEF Board
    <3>3. QED
      BY <2>2, <3>2, NewRowIsRow, FS_EmptySet DEF RowOf
  <2>3. QED
    BY <2>1, <2>2
<1>4. TrueRow(row, w, list, fr, nstr, nunr)
  BY <1>3 DEF TrueRow
<1>5. ASSUME NEW v \in DOMAIN board \cap wins PROVE TrueRow(board[v], v, list, fr, nstr, nunr)
  <2>1. CASE v = w
    BY <1>1, <1>4, <2>1
  <2>2. CASE v # w
    BY <1>1, <1>2, <1>5, <2>2 DEF TrueRow, Board
  <2>3. QED
    BY <2>1, <2>2
<1>6. DOMAIN board \subseteq Windows /\ \A v \in DOMAIN board : board[v] \in Row
  BY <1>1, <1>2 DEF Board
<1>7. wins \cap Children \subseteq DOMAIN board
  BY <1>1 DEF Board
<1>8. Notifier \in DOMAIN board => board[Notifier].waiting = 0
  BY <1>1, <1>2 DEF Board
<1>9. Main \in wins \ DOMAIN board => Asking(list, fr, Main) = {} /\ Main \notin nstr
  BY <1>1, <1>2 DEF Board
<1>10. QED
  BY <1>5, <1>6, <1>7, <1>8, <1>9 DEF Board

\* A session window opens, that has no row and of which no request is listed.
LEMMA OpenKeepsBoard ==
  ASSUME NEW rws, NEW list, NEW fr, NEW wins \in SUBSET Windows, NEW str, NEW unr,
         Board(rws, list, fr, wins, str, unr), \A r \in list : fr[r] \in wins,
         NEW w \in Children \ wins, w \notin DOMAIN rws, w \notin str, unr[w] = 0
  PROVE  Board(Update(rws, w, RowOf(rws, w)), list, fr, wins \cup {w}, str, unr)
<1> DEFINE board == Update(rws, w, RowOf(rws, w))
<1>1. w # Main /\ w # Notifier /\ w \in Windows
  BY AttentionAssumption DEF Chats, Windows
<1>2. /\ DOMAIN board = DOMAIN rws \cup {w} /\ board[w] = NewRow
      /\ \A v \in DOMAIN rws : board[v] = rws[v]
  BY DEF Update, RowOf
<1>3. Cardinality(Asking(list, fr, w)) = 0
  BY NobodyAsks
<1>4. TrueRow(NewRow, w, list, fr, str, unr)
  BY <1>3, NewRowIsRow DEF TrueRow
<1>5. \A v \in DOMAIN board \cap (wins \cup {w}) : TrueRow(board[v], v, list, fr, str, unr)
  BY <1>1, <1>2, <1>4 DEF Board
<1>6. DOMAIN board \subseteq Windows /\ \A v \in DOMAIN board : board[v] \in Row
  BY <1>1, <1>2, NewRowIsRow DEF Board
<1>7. (wins \cup {w}) \cap Children \subseteq DOMAIN board
  BY <1>2 DEF Board
<1>8. QED
  BY <1>1, <1>2, <1>5, <1>6, <1>7 DEF Board

\* A window is closed.
LEMMA CloseKeepsBoard ==
  ASSUME NEW rws, NEW list, NEW fr, NEW wins \in SUBSET Windows, NEW str, NEW unr,
         Board(rws, list, fr, wins, str, unr), NEW w \in Chats, NEW nstr, NEW nunr,
         \A v \in Chats \ {w} : (v \in nstr <=> v \in str) /\ nunr[v] = unr[v]
  PROVE  Board(ClosedRow(w, rws), list, fr, wins \ {w}, nstr, nunr)
<1> DEFINE board == ClosedRow(w, rws)
<1>1. Main \notin Children /\ w # Notifier /\ Children \subseteq Chats /\ Main \in Chats /\ (w # Main => w \in Children)
  BY AttentionAssumption DEF Chats
<1>2. /\ DOMAIN board = IF w = Main THEN DOMAIN rws ELSE DOMAIN rws \ {w}
      /\ \A v \in DOMAIN board : board[v] = rws[v]
  BY DEF ClosedRow, RemoveRow
<1>3. ASSUME NEW v \in DOMAIN board \cap (wins \ {w}) PROVE TrueRow(board[v], v, list, fr, nstr, nunr)
  BY <1>1, <1>2, <1>3 DEF Board, TrueRow
<1>4. DOMAIN board \subseteq Windows /\ \A v \in DOMAIN board : board[v] \in Row
  BY <1>2 DEF Board
<1>5. (wins \ {w}) \cap Children \subseteq DOMAIN board
  BY <1>1, <1>2 DEF Board
<1>6. Notifier \in DOMAIN board => board[Notifier].waiting = 0
  BY <1>2 DEF Board
<1>7. Main \in (wins \ {w}) \ DOMAIN board => Asking(list, fr, Main) = {} /\ Main \notin nstr
  BY <1>1, <1>2 DEF Board
<1>8. QED
  BY <1>3, <1>4, <1>5, <1>6, <1>7 DEF Board

\* Refreshing the others and taking a row off may be done in either order.
LEMMA RefreshAndClose ==
  ASSUME NEW rws, NEW list, NEW fr, NEW wins, NEW w, w \notin wins
  PROVE  ClosedRow(w, RefreshWaiting(rws, list, wins, fr)) = RefreshWaiting(ClosedRow(w, rws), list, wins, fr)
<1>1. CASE w = Main
  BY <1>1 DEF ClosedRow
<1>2. CASE w # Main
  <2> DEFINE count(v) == Cardinality({r \in list : fr[r] = v})
  <2>1. \A v \in wins : RowOf(RemoveRow(rws, w), v) = RowOf(rws, v)
    BY DEF RowOf, RemoveRow
  <2>2. (DOMAIN rws \cup wins) \ {w} = (DOMAIN rws \ {w}) \cup wins
    OBVIOUS
  <2>3. RemoveRow(RefreshWaiting(rws, list, wins, fr), w) =
          [v \in (DOMAIN rws \ {w}) \cup wins |->
             IF v \in wins THEN [RowOf(rws, v) EXCEPT !.waiting = count(v)] ELSE rws[v]]
    BY <2>2 DEF RemoveRow, RefreshWaiting
  <2>4. RefreshWaiting(RemoveRow(rws, w), list, wins, fr) =
          [v \in (DOMAIN rws \ {w}) \cup wins |->
             IF v \in wins THEN [RowOf(rws, v) EXCEPT !.waiting = count(v)] ELSE rws[v]]
    BY <2>1 DEF RemoveRow, RefreshWaiting
  <2>5. QED
    BY <1>2, <2>3, <2>4 DEF ClosedRow
<1>3. QED
  BY <1>1, <1>2

\* The row of a window that is gone is clicked.
LEMMA ClickKeepsBoard ==
  ASSUME NEW rws, NEW list, NEW fr, NEW wins, NEW str, NEW unr,
         Board(rws, list, fr, wins, str, unr), NEW w \in DOMAIN rws \ wins
  PROVE  Board(RemoveRow(rws, w), list, fr, wins, str, unr)
<1>1. DOMAIN RemoveRow(rws, w) = DOMAIN rws \ {w} /\ \A v \in DOMAIN rws \ {w} : RemoveRow(rws, w)[v] = rws[v]
  BY DEF RemoveRow
<1>2. QED
  BY <1>1 DEF Board

\* Refreshing makes rows of open windows only, removing makes none.
LEMMA RefreshedRows ==
  ASSUME NEW list, NEW rws, NEW wins
  PROVE  DOMAIN Refreshed(list, rws, wins) \subseteq DOMAIN rws \cup wins
BY DEF RefreshWaiting, Refreshed

LEMMA RemovedRows ==
  ASSUME NEW rws, NEW w
  PROVE  DOMAIN RemoveRow(rws, w) = DOMAIN rws \ {w}
BY DEF RemoveRow

--------------------------------------------------------------------------------
\* Steps

\* A step that gives rows to open windows only, and closes none, leaves no row behind.
LEMMA StillNoGhosts ==
  ASSUME IInv, DOMAIN rows' \subseteq DOMAIN rows \cup open, open \cap Chats \subseteq open',
         UNCHANGED <<gone, served>>
  PROVE  NoGhosts'
BY DEF IInv, NoGhosts, Unheard, Chats

\* What the types say of the requests on the list.
LEMMA ListedHaveWindows ==
  ASSUME IInv
  PROVE  /\ decisions \in SUBSET Requests /\ \A r \in decisions : from[r] \in Chats /\ from[r] \in open
         /\ \A w : Without(w) \in SUBSET Requests /\ \A r : Resolve(r) \in SUBSET Requests
         /\ open \in SUBSET Windows
<1>1. 1..made \subseteq Requests
  BY AttentionAssumption DEF IInv, Types, Requests
<1>2. decisions \in SUBSET Requests /\ decisions \subseteq 1..made /\ open \in SUBSET Windows
  BY <1>1 DEF IInv, Types
<1>3. \A r \in decisions : from[r] \in Chats /\ from[r] \in open
  BY <1>2 DEF IInv, Known, ListedWindowsAreOpen
<1>4. QED
  BY <1>2, <1>3 DEF Without, Resolve

\* The list loses some requests and who listens is told.
LEMMA SettingKeepsBoard ==
  ASSUME IInv, NEW list \in SUBSET decisions, NEW rws,
         NEW str, Board(rws, decisions, from, open, str, unread), SetDecisions(list, rws)
  PROVE  /\ Board(rows', decisions', from, open, str, unread) /\ Cardinality(decisions') <= MaxPending
         /\ DOMAIN rows' \subseteq DOMAIN rws \cup open
<1>1. list \in SUBSET Requests /\ \A r \in list : from[r] \in Chats
  BY ListedHaveWindows
<1>2. Board(RefreshWaiting(rws, list, open, from), list, from, open, str, unread)
  BY <1>1, ListedHaveWindows, RefreshKeepsBoard
<1>3. Board(rows', decisions', from, open, str, unread) /\ DOMAIN rows' \subseteq DOMAIN rws \cup open
  <2>1. Board(rows', decisions', from, open, str, unread)
    BY <1>2 DEF SetDecisions, Refreshed
  <2>2. QED
    BY <2>1, RefreshedRows DEF SetDecisions
<1>4. Cardinality(list) <= Cardinality(decisions) /\ Cardinality(list) \in Nat /\ Cardinality(decisions) \in Nat
  BY <1>1, ListedHaveWindows, ListIsFinite, PartIsShorter
<1>5. QED
  BY <1>3, <1>4, AttentionAssumption DEF SetDecisions, IInv, Types

\* What an error, an exit and a switch do to the list: what leaves it is withdrawn.
LEMMA DropKeepsLists ==
  ASSUME IInv, NEW w \in Chats, NEW rws, Drop(w, rws),
         UNCHANGED <<open, gone, served, made, from>>, asks' \subseteq asks,
         \A v \in Chats : reminders'[v] > 0 => reminders[v] > 0
  PROVE  /\ WaitingIsListed' /\ ListedWindowsAreOpen' /\ RemindersHaveReasons'
         /\ decisions' \subseteq decisions /\ withdrawn' \subseteq 1..made
<1>1. decisions' = decisions \ Of(w) /\ withdrawn' = withdrawn \cup (decisions \cap Of(w))
  BY DEF Drop, SetDecisions, Without
<1>2. decisions' \cup withdrawn' = decisions \cup withdrawn /\ decisions' \subseteq decisions
  BY <1>1
<1>3. withdrawn' \subseteq 1..made
  BY <1>1 DEF IInv, Types
<1>4. WaitingIsListed'
  BY <1>2 DEF IInv, Types, WaitingIsListed, Unheard
<1>5. ListedWindowsAreOpen'
  BY <1>2 DEF IInv, ListedWindowsAreOpen
<1>6. RemindersHaveReasons'
  BY <1>2 DEF IInv, RemindersHaveReasons, Of
<1>7. QED
  BY <1>2, <1>3, <1>4, <1>5, <1>6

LEMMA SessionErrorKeeps ==
  ASSUME IInv, NEW w \in Chats, SessionError(w)
  PROVE  IInv'
<1>1. /\ w \in open \cap Chats /\ w \in served /\ Drop(w, rows)
      /\ UNCHANGED <<open, gone, focused, served, made, from, asks, shown, streaming, reminders, unread>>
  BY DEF SessionError, Served, electronVars, sessionVars
<1>2. /\ WaitingIsListed' /\ ListedWindowsAreOpen' /\ RemindersHaveReasons'
      /\ decisions' \subseteq decisions /\ withdrawn' \subseteq 1..made
  BY <1>1, DropKeepsLists
<1>3. /\ Board(rows', decisions', from, open, streaming, unread) /\ Cardinality(decisions') <= MaxPending
      /\ DOMAIN rows' \subseteq DOMAIN rows \cup open
  <2>1. SetDecisions(Without(w), rows) /\ Without(w) \in SUBSET decisions
    BY <1>1 DEF Drop, Without
  <2>2. QED
    BY <2>1, SettingKeepsBoard DEF IInv, BoardInv
<1>4. BoardInv'
  BY <1>1, <1>3 DEF BoardInv
<1>5. Types'
  BY <1>1, <1>2, <1>3 DEF IInv, Types, Of
<1>6. Known' /\ NoGhosts'
  BY <1>1, <1>2, <1>3, StillNoGhosts DEF IInv, Known
<1>7. QED
  BY <1>2, <1>4, <1>5, <1>6 DEF IInv

LEMMA SwitchSessionKeeps ==
  ASSUME IInv, NEW w \in Chats, SwitchSession(w)
  PROVE  IInv'
<1>1. /\ w \in open \cap Chats /\ w \in served /\ Drop(w, rows) /\ reminders' = [reminders EXCEPT ![w] = 0]
      /\ UNCHANGED <<open, gone, focused, served, made, from, asks, shown, streaming, unread>>
  BY DEF SwitchSession, Served, electronVars, sessionVars
<1>2. /\ reminders' \in [Chats -> 0..Repeats] /\ \A v \in Chats : reminders'[v] > 0 => reminders[v] > 0
      /\ \A v \in Chats : reminders'[v] \in {0, reminders[v]}
  BY <1>1, AttentionAssumption DEF IInv, Types
<1>3. /\ WaitingIsListed' /\ ListedWindowsAreOpen' /\ RemindersHaveReasons'
      /\ decisions' \subseteq decisions /\ withdrawn' \subseteq 1..made
  BY <1>1, <1>2, DropKeepsLists
<1>4. /\ Board(rows', decisions', from, open, streaming, unread) /\ Cardinality(decisions') <= MaxPending
      /\ DOMAIN rows' \subseteq DOMAIN rows \cup open
  <2>1. SetDecisions(Without(w), rows) /\ Without(w) \in SUBSET decisions
    BY <1>1 DEF Drop, Without
  <2>2. QED
    BY <2>1, SettingKeepsBoard DEF IInv, BoardInv
<1>5. BoardInv'
  BY <1>1, <1>4 DEF BoardInv
<1>6. Types'
  BY <1>1, <1>2, <1>3, <1>4 DEF IInv, Types, Of
<1>7. Known' /\ NoGhosts'
  BY <1>1, <1>2, <1>3, <1>4, StillNoGhosts DEF IInv, Known
<1>8. QED
  BY <1>3, <1>5, <1>6, <1>7 DEF IInv

\* The row an update starts from.
LEMMA RowIsRow ==
  ASSUME IInv, NEW w
  PROVE  RowOf(rows, w) \in Row
BY NewRowIsRow DEF IInv, BoardInv, Board, RowOf

LEMMA PiExitsKeeps ==
  ASSUME IInv, NEW w \in Chats, PiExits(w)
  PROVE  IInv'
<1> DEFINE row == [RowOf(rows, w) EXCEPT !.running = FALSE]
           str == streaming \ {w}
<1>1. /\ w \in open \cap Chats /\ w \in served /\ Drop(w, Update(rows, w, row)) /\ asks' = asks \ Of(w) /\ streaming' = str
      /\ UNCHANGED <<open, gone, focused, served, made, from, shown, reminders, unread>>
  BY DEF PiExits, Served, electronVars
<1>2. /\ WaitingIsListed' /\ ListedWindowsAreOpen' /\ RemindersHaveReasons'
      /\ decisions' \subseteq decisions /\ withdrawn' \subseteq 1..made
  BY <1>1, DropKeepsLists
<1>3. /\ row \in Row /\ row.waiting = RowOf(rows, w).waiting /\ row.unread = RowOf(rows, w).unread
      /\ row.running = FALSE
  BY RowIsRow, RowFields
<1>4. w \in Children => row.unread = unread[w]
  BY <1>1, <1>3 DEF IInv, BoardInv, Board, RowOf, TrueRow
<1>5. Board(Update(rows, w, row), decisions, from, open, str, unread)
  <2>1. \A v \in Chats \ {w} : v \in str <=> v \in streaming
    OBVIOUS
  <2>2. w \notin str
    OBVIOUS
  <2> HIDE DEF row, str
  <2>3. QED
    BY <1>1, <1>3, <1>4, <2>1, <2>2, ListedHaveWindows, UpdateKeepsBoard DEF IInv, BoardInv
<1>6. /\ Board(rows', decisions', from, open, str, unread) /\ Cardinality(decisions') <= MaxPending
      /\ DOMAIN rows' \subseteq DOMAIN rows \cup open
  <2>1. SetDecisions(Without(w), Update(rows, w, row)) /\ Without(w) \in SUBSET decisions
    BY <1>1 DEF Drop, Without
  <2> HIDE DEF row, str
  <2>2. DOMAIN Update(rows, w, row) \subseteq DOMAIN rows \cup open
    BY <1>1 DEF Update
  <2>3. QED
    BY <1>5, <2>1, <2>2, SettingKeepsBoard
<1>7. BoardInv'
  BY <1>1, <1>6 DEF BoardInv
<1>8. Types'
  BY <1>1, <1>2, <1>6 DEF IInv, Types, Of
<1>9. Known' /\ NoGhosts'
  BY <1>1, <1>2, <1>6, StillNoGhosts DEF IInv, Known
<1>10. QED
  BY <1>2, <1>7, <1>8, <1>9 DEF IInv

\* The lists stay as they are.
LEMMA ListsKept ==
  ASSUME IInv, UNCHANGED <<gone, made, from, decisions, withdrawn>>, asks' \subseteq asks,
         open \cap Chats \subseteq open', served' \subseteq served \cup open', open' \cap gone = {},
         \A v \in Chats : reminders'[v] > 0 => reminders[v] > 0
  PROVE  WaitingIsListed' /\ ListedWindowsAreOpen' /\ RemindersHaveReasons'
<1>1. WaitingIsListed'
  BY DEF IInv, Types, WaitingIsListed, Unheard
<1>2. ListedWindowsAreOpen'
  BY ListedHaveWindows DEF ListedWindowsAreOpen
<1>3. RemindersHaveReasons'
  BY DEF IInv, RemindersHaveReasons, Of
<1>4. QED
  BY <1>1, <1>2, <1>3

LEMMA StreamingKeeps ==
  ASSUME IInv, NEW w \in Chats, Streaming(w)
  PROVE  IInv'
<1> DEFINE row == [RowOf(rows, w) EXCEPT !.running = w \notin streaming]
<1>1. /\ w \in open \cap Chats /\ w \in served /\ rows' = Update(rows, w, row)
      /\ streaming' = IF w \in streaming THEN streaming \ {w} ELSE streaming \cup {w}
      /\ UNCHANGED <<open, gone, focused, served, made, from, asks, shown, decisions, reminders, unread, withdrawn>>
  BY DEF Streaming, Served, electronVars
<1>2. WaitingIsListed' /\ ListedWindowsAreOpen' /\ RemindersHaveReasons'
  BY <1>1, ListsKept DEF IInv, Types
<1>3. /\ row \in Row /\ row.waiting = RowOf(rows, w).waiting /\ row.unread = RowOf(rows, w).unread
      /\ row.running <=> w \notin streaming
  BY RowIsRow, RowFields
<1>4. w \in Children => row.unread = unread[w]
  BY <1>1, <1>3 DEF IInv, BoardInv, Board, RowOf, TrueRow
<1>5. (w \in streaming' <=> w \notin streaming) /\ \A v \in Chats \ {w} : v \in streaming' <=> v \in streaming
  BY <1>1
<1>6. Board(Update(rows, w, row), decisions, from, open, streaming', unread)
  <2> HIDE DEF row
  <2>1. QED
    BY <1>1, <1>3, <1>4, <1>5, ListedHaveWindows, UpdateKeepsBoard DEF IInv, BoardInv
<1>7. BoardInv'
  BY <1>1, <1>6 DEF BoardInv
<1>8. Types'
  BY <1>1 DEF IInv, Types, Of
<1>9. Known' /\ NoGhosts'
  <2>1. DOMAIN rows' \subseteq DOMAIN rows \cup open
    <3> HIDE DEF row
    <3>1. QED
      BY <1>1 DEF Update
  <2>2. NoGhosts'
    BY <1>1, <2>1, StillNoGhosts
  <2>3. QED
    BY <1>1, <2>2 DEF IInv, Known
<1>10. QED
  BY <1>2, <1>7, <1>8, <1>9 DEF IInv

\* A chime leaves the board true and the chats' windows as they are.
LEMMA ChimeKeepsBoard ==
  ASSUME NEW rws, NEW list, NEW fr, NEW wins \in SUBSET Windows, NEW wins2, NEW str, NEW unr,
         Board(rws, list, fr, wins, str, unr), \A r \in list : fr[r] \in Chats,
         wins2 = wins \/ wins2 = wins \cup {Notifier} \/ wins2 = wins \ {Notifier}
  PROVE  /\ Board(rws, list, fr, wins2, str, unr)
         /\ wins2 \subseteq Windows /\ wins2 \cap Chats = wins \cap Chats
<1>1. Notifier \in Windows /\ Notifier \notin Chats
  BY AttentionAssumption DEF Windows, Chats
<1>2. QED
  BY <1>1, NotifierKeepsBoard

LEMMA SettledKeeps ==
  ASSUME IInv, NEW w \in Chats, Settled(w)
  PROVE  IInv'
<1>1. /\ w \in open \cap Chats /\ w \in served
      /\ UNCHANGED <<gone, focused, served, made, from, asks, shown, streaming, decisions, reminders, withdrawn>>
  BY DEF Settled, Served, sessionVars
<1>2. CASE focused = w
  <2>1. UNCHANGED <<open, unread, rows>>
    BY <1>2 DEF Settled
  <2>2. QED
    BY <1>1, <2>1 DEF IInv, Types, Known, WaitingIsListed, ListedWindowsAreOpen, RemindersHaveReasons, BoardInv, NoGhosts, Unheard, Of
<1>3. CASE focused # w
  <2> DEFINE n == unread[w] + 1
             row == [RowOf(rows, w) EXCEPT !.unread = unread'[w]]
  <2>1. /\ unread[w] < MaxUnread /\ unread' = [unread EXCEPT ![w] = n] /\ rows' = Update(rows, w, row)
        /\ open' = open \/ open' = open \cup {Notifier}
    BY <1>3 DEF Settled, Bump, Chime
  <2>2. unread' \in [Chats -> 0..MaxUnread] /\ unread'[w] = n /\ \A v \in Chats \ {w} : unread'[v] = unread[v]
    BY <2>1, AttentionAssumption DEF IInv, Types
  <2>3. row \in Row /\ row.waiting = RowOf(rows, w).waiting /\ row.running = RowOf(rows, w).running /\ row.unread = unread'[w]
    BY <2>2, RowIsRow, RowFields
  <2>4. row.running <=> w \in streaming
    <3>1. CASE w \in DOMAIN rows
      BY <1>1, <2>3, <3>1 DEF IInv, BoardInv, Board, RowOf, TrueRow
    <3>2. CASE w \notin DOMAIN rows
      <4>1. w = Main /\ w \notin streaming
        BY <1>1, <3>2 DEF IInv, BoardInv, Board, Chats
      <4>2. row.running = FALSE
        BY <2>3, <3>2, NewRowIsRow DEF RowOf
      <4>3. QED
        BY <4>1, <4>2
    <3>3. QED
      BY <3>1, <3>2
  <2>5. Board(Update(rows, w, row), decisions, from, open, streaming, unread')
    <3>1. \A v \in Chats \ {w} : (v \in streaming <=> v \in streaming) /\ unread'[v] = unread[v]
      BY <2>2
    <3>2. Board(rows, decisions, from, open, streaming, unread) /\ open \in SUBSET Windows
      BY ListedHaveWindows DEF IInv, BoardInv
    <3>3. w \in open \cap Chats /\ (w \in Children => row.unread = unread'[w])
      BY <1>1, <2>3
    <3> HIDE DEF row, n
    <3>4. QED
      BY <2>3, <2>4, <3>1, <3>2, <3>3, UpdateKeepsBoard
  <2>6. Board(rows', decisions, from, open', streaming, unread') /\ open' \subseteq Windows /\ open' \cap Chats = open \cap Chats
    <3>1. Board(rows', decisions, from, open, streaming, unread')
      BY <2>1, <2>5
    <3>2. open \in SUBSET Windows /\ \A r \in decisions : from[r] \in Chats
      BY ListedHaveWindows
    <3> HIDE DEF row, n
    <3>3. QED
      BY <2>1, <3>1, <3>2, ChimeKeepsBoard
  <2>7. BoardInv'
    BY <1>1, <2>6 DEF BoardInv
  <2>8. WaitingIsListed' /\ ListedWindowsAreOpen' /\ RemindersHaveReasons'
    <3>1. open' \cap gone = {}
      BY <1>1, <2>6 DEF IInv, Types
    <3>2. QED
      BY <1>1, <2>6, <3>1, ListsKept
  <2>9. Types'
    BY <1>1, <2>2, <2>6 DEF IInv, Types, Of
  <2>10. Known' /\ NoGhosts'
    <3>1. DOMAIN rows' \subseteq DOMAIN rows \cup open
      <4> HIDE DEF row, n
      <4>1. QED
        BY <1>1, <2>1 DEF Update
    <3>2. NoGhosts'
      BY <1>1, <2>6, <3>1, StillNoGhosts
    <3>3. QED
      BY <1>1, <2>2, <2>6, <3>2 DEF IInv, Known
  <2>11. QED
    BY <2>7, <2>8, <2>9, <2>10 DEF IInv
<1>4. QED
  BY <1>2, <1>3

LEMMA AnswerKeeps ==
  ASSUME IInv, NEW r \in 1..made, Answer(r)
  PROVE  IInv'
<1> DEFINE w == from[r]
<1>1. /\ r > 0 /\ r = shown[w] /\ reminders' = [reminders EXCEPT ![w] = 0] /\ SetDecisions(Resolve(r), rows)
      /\ asks' = asks \ {r} /\ shown' = [shown EXCEPT ![w] = 0]
      /\ UNCHANGED <<open, gone, focused, served, made, from, streaming, unread, withdrawn>>
  BY DEF Answer, electronVars
<1>2. w \in Chats
  BY DEF IInv, Known
<1>3. Resolve(r) \in SUBSET decisions /\ decisions' = decisions \ {r}
  BY <1>1 DEF Resolve, SetDecisions
<1>4. /\ Board(rows', decisions', from, open, streaming, unread) /\ Cardinality(decisions') <= MaxPending
      /\ DOMAIN rows' \subseteq DOMAIN rows \cup open
  BY <1>1, <1>3, SettingKeepsBoard DEF IInv, BoardInv
<1>5. BoardInv'
  BY <1>1, <1>4 DEF BoardInv
<1>6. reminders' \in [Chats -> 0..Repeats] /\ reminders'[w] = 0 /\ \A v \in Chats \ {w} : reminders'[v] = reminders[v]
  BY <1>1, <1>2, AttentionAssumption DEF IInv, Types
<1>7. shown' \in [Chats -> {0} \cup Requests] /\ \A v \in Chats : shown'[v] \in {0} \cup Of(v)
  BY <1>1, <1>2 DEF IInv, Types
<1>8. Types'
  BY <1>1, <1>3, <1>4, <1>6, <1>7 DEF IInv, Types, Of
<1>9. Known' /\ NoGhosts'
  BY <1>1, <1>3, <1>4, <1>6, StillNoGhosts DEF IInv, Known
<1>10. WaitingIsListed' /\ ListedWindowsAreOpen'
  BY <1>1, <1>3 DEF IInv, WaitingIsListed, ListedWindowsAreOpen, Unheard
<1>11. RemindersHaveReasons'
  <2>1. ASSUME NEW v \in Chats, reminders'[v] > 0
        PROVE  v \in open' /\ (decisions' \cup withdrawn') \cap Of(v)' # {}
    <3>1. v # w /\ v \in open /\ (decisions \cup withdrawn) \cap Of(v) # {}
      BY <1>6, <2>1 DEF IInv, RemindersHaveReasons
    <3>2. PICK q \in (decisions \cup withdrawn) \cap Of(v) : TRUE
      BY <3>1
    <3>3. q # r
      BY <3>1, <3>2 DEF Of
    <3>4. q \in (decisions' \cup withdrawn') \cap Of(v)'
      BY <1>1, <1>3, <3>2, <3>3 DEF Of
    <3>5. QED
      BY <1>1, <3>1, <3>4
  <2>2. QED
    BY <2>1 DEF RemindersHaveReasons
<1>12. QED
  BY <1>5, <1>8, <1>9, <1>10, <1>11 DEF IInv

\* Steps that leave the lists and the rows alone: a panel, a reload, a request given up, a window
\* that is not in front any more, a reminder, the end of a chime.
LEMMA QuietStepsKeep ==
  ASSUME IInv, UNCHANGED <<gone, served, made, from, streaming, decisions, rows, unread, withdrawn>>, asks' \subseteq asks,
         open' = open \/ open' = open \cup {Notifier} \/ open' = open \ {Notifier},
         focused' \in {focused, None}, shown' \in [Chats -> {0} \cup Requests], reminders' \in [Chats -> 0..Repeats],
         \A v \in Chats : shown'[v] \in {0, shown[v]},
         \A v \in Chats : reminders'[v] <= reminders[v]
  PROVE  IInv'
<1>0. \A v \in Chats : (reminders'[v] > 0 => reminders[v] > 0) /\ (reminders[v] = 0 => reminders'[v] = 0)
  <2>1. \A v \in Chats : reminders[v] \in Nat /\ reminders'[v] \in Nat
    BY AttentionAssumption DEF IInv, Types
  <2>2. QED
    BY <2>1
<1>1. /\ Board(rows, decisions, from, open', streaming, unread)
      /\ open' \subseteq Windows /\ open' \cap Chats = open \cap Chats
  <2>1. Board(rows, decisions, from, open, streaming, unread)
    BY DEF IInv, BoardInv
  <2>2. open \in SUBSET Windows /\ \A r \in decisions : from[r] \in Chats
    BY ListedHaveWindows
  <2>3. QED
    BY <2>1, <2>2, ChimeKeepsBoard
<1>2. BoardInv'
  BY <1>1 DEF BoardInv
<1>3. WaitingIsListed' /\ ListedWindowsAreOpen' /\ RemindersHaveReasons'
  <2>1. open' \cap gone = {}
    BY <1>1 DEF IInv, Types
  <2>2. QED
    BY <1>0, <1>1, <2>1, ListsKept
<1>4. \A v \in Chats : shown'[v] \in {0} \cup Of(v)'
  BY DEF IInv, Types, Of
<1>5. Types'
  BY <1>1, <1>4 DEF IInv, Types
<1>6. Known' /\ NoGhosts'
  BY <1>0, <1>1, StillNoGhosts DEF IInv, Known
<1>7. QED
  BY <1>2, <1>3, <1>5, <1>6 DEF IInv

LEMMA QuietSteps ==
  ASSUME IInv, NEW w \in Chats,
         \/ InfoPanel(w) \/ Reload(w) \/ ReminderFires(w) \/ Blur \/ NotifierCloses \/ \E r \in 1..made : GivesUp(r)
  PROVE  IInv'
<1>1. CASE InfoPanel(w)
  <2>1. shown' \in [Chats -> {0} \cup Requests] /\ \A v \in Chats : shown'[v] \in {0, shown[v]}
    BY <1>1 DEF InfoPanel, IInv, Types
  <2>2. QED
    BY <1>1, <2>1, QuietStepsKeep DEF InfoPanel, electronVars, IInv, Types
<1>2. CASE Reload(w)
  BY <1>2, QuietStepsKeep DEF Reload, electronVars, IInv, Types
<1>3. CASE ReminderFires(w)
  <2>1. /\ reminders' \in [Chats -> 0..Repeats]
        /\ \A v \in Chats : reminders'[v] <= reminders[v]
    BY <1>3, AttentionAssumption DEF ReminderFires, IInv, Types
  <2>2. /\ open' = open \/ open' = open \cup {Notifier}
        /\ UNCHANGED <<gone, focused, served, made, from, asks, shown, streaming, decisions, rows, unread, withdrawn>>
    BY <1>3 DEF ReminderFires, Chime, sessionVars
  <2>3. QED
    BY <2>1, <2>2, QuietStepsKeep DEF IInv, Types
<1>4. CASE Blur
  BY <1>4, QuietStepsKeep DEF Blur, sessionVars, IInv, Types
<1>5. CASE NotifierCloses
  BY <1>5, QuietStepsKeep DEF NotifierCloses, sessionVars, IInv, Types
<1>6. CASE \E r \in 1..made : GivesUp(r)
  BY <1>6, QuietStepsKeep DEF GivesUp, electronVars, IInv, Types
<1>7. QED
  BY <1>1, <1>2, <1>3, <1>4, <1>5, <1>6

\* A window whose handler is there comes to the front.
LEMMA FocusServedKeeps ==
  ASSUME IInv, NEW w \in Chats \cap served, Focus(w)
  PROVE  IInv'
<1> DEFINE row == [RowOf(rows, w) EXCEPT !.unread = 0]
<1>1. /\ w \in open \cap Chats /\ w \in served /\ focused' = w
      /\ unread' = [unread EXCEPT ![w] = 0] /\ FocusRow(w) /\ reminders' = [reminders EXCEPT ![w] = 0]
      /\ UNCHANGED <<open, gone, served, made, from, asks, shown, streaming, decisions, withdrawn>>
  BY DEF Focus, sessionVars
<1>2. unread' \in [Chats -> 0..MaxUnread] /\ unread'[w] = 0 /\ \A v \in Chats \ {w} : unread'[v] = unread[v]
  BY <1>1, AttentionAssumption DEF IInv, Types
<1>3. /\ reminders' \in [Chats -> 0..Repeats]
      /\ \A v \in Chats : reminders'[v] > 0 => reminders[v] > 0
      /\ \A v \in Chats : reminders'[v] \in {0, reminders[v]}
  BY <1>1, AttentionAssumption DEF IInv, Types
<1>4. WaitingIsListed' /\ ListedWindowsAreOpen' /\ RemindersHaveReasons'
  BY <1>1, <1>3, ListsKept DEF IInv, Types
<1>5. NoGhosts'
  <2>1. DOMAIN rows' \subseteq DOMAIN rows \cup open
    BY <1>1 DEF FocusRow, Update
  <2>2. QED
    BY <1>1, <2>1, StillNoGhosts
<1>6. CASE w = Main
  <2>1. rows' = rows
    BY <1>1, <1>6 DEF FocusRow
  <2>2. \A v \in Children : unread'[v] = unread[v]
    BY <1>2, <1>6, AttentionAssumption DEF Chats
  <2>3. Board(rows, decisions, from, open, streaming, unread')
    BY <2>2 DEF IInv, BoardInv, Board, TrueRow
  <2>4. QED
    BY <1>1, <1>2, <1>3, <1>4, <1>5, <2>1, <2>3 DEF IInv, BoardInv, Types, Known, Of
<1>7. CASE w # Main
  <2>1. rows' = Update(rows, w, row)
    BY <1>1, <1>7 DEF FocusRow
  <2>2. row \in Row /\ row.waiting = RowOf(rows, w).waiting /\ row.running = RowOf(rows, w).running /\ row.unread = 0
    BY RowIsRow, RowFields, AttentionAssumption
  <2>3. w \in DOMAIN rows /\ (row.running <=> w \in streaming)
    BY <1>1, <1>7, <2>2 DEF IInv, BoardInv, Board, RowOf, TrueRow, Chats
  <2>4. Board(Update(rows, w, row), decisions, from, open, streaming, unread')
    <3>1. Board(rows, decisions, from, open, streaming, unread) /\ open \in SUBSET Windows
      BY ListedHaveWindows DEF IInv, BoardInv
    <3>2. \A v \in Chats \ {w} : (v \in streaming <=> v \in streaming) /\ unread'[v] = unread[v]
      BY <1>2
    <3>3. w \in open \cap Chats /\ (w \in Children => row.unread = unread'[w])
      BY <1>1, <1>2, <2>2
    <3> HIDE DEF row
    <3>4. QED
      BY <2>2, <2>3, <3>1, <3>2, <3>3, UpdateKeepsBoard
  <2>5. BoardInv'
    BY <1>1, <2>1, <2>4 DEF BoardInv
  <2>6. QED
    BY <1>1, <1>2, <1>3, <1>4, <1>5, <2>5 DEF IInv, Types, Known, Of
<1>8. QED
  BY <1>6, <1>7

LEMMA FocusKeeps ==
  ASSUME IInv, NEW w \in Chats, Focus(w)
  PROVE  IInv'
<1>1. CASE w \notin served
  BY <1>1 DEF Focus, sessionVars, IInv, Types, Known, BoardInv, NoGhosts, Unheard, WaitingIsListed,
     ListedWindowsAreOpen, RemindersHaveReasons, Of
<1>2. CASE w \in served
  BY <1>2, FocusServedKeeps
<1>3. QED
  BY <1>1, <1>2

LEMMA OpenChildKeeps ==
  ASSUME IInv, NEW w \in Chats, OpenChild(w)
  PROVE  IInv'
<1>1. /\ w \in Children \ (open \cup gone) /\ open' = open \cup {w} /\ rows' = Update(rows, w, RowOf(rows, w))
      /\ UNCHANGED <<gone, focused, served, made, from, asks, shown, streaming, decisions, reminders, unread, withdrawn>>
  BY DEF OpenChild, sessionVars
<1>2. Board(Update(rows, w, RowOf(rows, w)), decisions, from, open \cup {w}, streaming, unread)
  <2>1. Board(rows, decisions, from, open, streaming, unread)
    BY DEF IInv, BoardInv
  <2>2. open \in SUBSET Windows /\ \A r \in decisions : from[r] \in open
    BY ListedHaveWindows
  <2>3. w \notin streaming /\ unread[w] = 0 /\ w \notin DOMAIN rows
    BY <1>1 DEF IInv, Types, Known, NoGhosts, Unheard
  <2>4. QED
    BY <1>1, <2>1, <2>2, <2>3, OpenKeepsBoard
<1>3. BoardInv'
  BY <1>1, <1>2 DEF BoardInv
<1>4. open' \subseteq Windows
  BY <1>1 DEF IInv, Types, Windows
<1>5. Types'
  BY <1>1, <1>4 DEF IInv, Types, Of
<1>6. Known'
  BY <1>1 DEF IInv, Known
<1>7. WaitingIsListed' /\ ListedWindowsAreOpen' /\ RemindersHaveReasons'
  <2>1. open' \cap gone = {}
    BY <1>1 DEF IInv, Types
  <2>2. QED
    BY <1>1, <2>1, ListsKept
<1>8. NoGhosts'
  BY <1>1 DEF IInv, NoGhosts, Unheard, Update
<1>9. QED
  BY <1>3, <1>5, <1>6, <1>7, <1>8 DEF IInv

LEMMA ServeKeeps ==
  ASSUME IInv, NEW w \in Chats, Serve(w)
  PROVE  IInv'
<1>1. /\ w \in (open \cap Children) \ served /\ served' = served \cup {w}
      /\ UNCHANGED <<open, gone, focused, made, from, asks, shown, streaming, decisions, rows, reminders, unread, withdrawn>>
  BY DEF Serve, sessionVars
<1>2. WaitingIsListed' /\ ListedWindowsAreOpen' /\ RemindersHaveReasons'
  BY <1>1, ListsKept DEF IInv, Types
<1>3. Types' /\ Known' /\ BoardInv'
  BY <1>1 DEF IInv, Types, Known, BoardInv, Of
<1>4. NoGhosts'
  BY <1>1 DEF IInv, Types, NoGhosts, Unheard
<1>5. QED
  BY <1>2, <1>3, <1>4 DEF IInv

LEMMA ClosedUnheardKeeps ==
  ASSUME IInv, NEW w \in Chats, ClosedUnheard(w)
  PROVE  IInv'
<1>1. /\ w \in (open \cap Children) \ served /\ open' = open \ {w} /\ gone' = gone \cup {w}
      /\ focused' = IF focused = w THEN None ELSE focused
      /\ UNCHANGED <<served, made, from, asks, shown, streaming, decisions, rows, reminders, unread, withdrawn>>
  BY DEF ClosedUnheard, Goes, sessionVars
<1>2. \A r \in decisions : from[r] # w /\ from[r] \in open
  BY <1>1, ListedHaveWindows DEF IInv, Known
<1>3. reminders[w] = 0 /\ unread[w] = 0 /\ w \notin streaming
  BY <1>1 DEF IInv, Known, Types
<1>4. Types'
  BY <1>1, <1>3 DEF IInv, Types, Of
<1>5. Known'
  BY <1>1, <1>3 DEF IInv, Known
<1>6. BoardInv'
  BY <1>1 DEF IInv, BoardInv, Board, TrueRow
<1>7. NoGhosts'
  BY <1>1 DEF IInv, NoGhosts, Unheard
<1>8. WaitingIsListed'
  BY <1>1 DEF IInv, WaitingIsListed, Unheard
<1>9. ListedWindowsAreOpen'
  BY <1>1, <1>2 DEF ListedWindowsAreOpen
<1>10. RemindersHaveReasons'
  <2>1. 0 > 0 <=> FALSE
    OBVIOUS
  <2>2. QED
    BY <1>1, <1>3, <2>1 DEF IInv, RemindersHaveReasons, Of
<1>11. QED
  BY <1>4, <1>5, <1>6, <1>7, <1>8, <1>9, <1>10 DEF IInv

LEMMA AsksNobodyKeeps ==
  ASSUME IInv, NEW w \in Chats, AsksNobody(w)
  PROVE  IInv'
<1> DEFINE r == made + 1
<1>1. /\ w \in Unheard /\ made < MaxRequests /\ made' = r /\ from' = [from EXCEPT ![r] = w] /\ asks' = asks \cup {r}
      /\ UNCHANGED <<open, gone, focused, served, shown, streaming, decisions, rows, reminders, unread, withdrawn>>
  BY DEF AsksNobody, electronVars
<1>2. made \in Nat /\ made' \in 0..MaxRequests /\ r \in Requests /\ r \notin 1..made /\ 1..made' = 1..made \cup {r}
  <2>1. made \in Nat /\ made' = made + 1 /\ made' <= MaxRequests
    BY <1>1, AttentionAssumption DEF IInv, Types
  <2>2. r \in Requests /\ r \notin 1..made
    BY <2>1, AttentionAssumption DEF Requests
  <2>3. 1..made' = 1..made \cup {r}
    BY <2>1
  <2>4. QED
    BY <2>1, <2>2, <2>3
<1>3. /\ from' \in [Requests -> Chats \cup {None}] /\ from'[r] = w
      /\ \A q \in 1..made : from'[q] = from[q]
  BY <1>1, <1>2 DEF IInv, Types
<1>4. \A v : Of(v) \subseteq Of(v)'
  BY <1>2, <1>3 DEF Of
<1>5. decisions \subseteq 1..made /\ withdrawn \subseteq 1..made /\ asks \subseteq 1..made
  BY DEF IInv, Types
<1> HIDE DEF r
<1>6. Types'
  BY <1>1, <1>2, <1>3, <1>4 DEF IInv, Types
<1>7. Known'
  BY <1>1, <1>2, <1>3, <1>5 DEF IInv, Known
<1>8. BoardInv'
  <2>1. \A v : Asking(decisions, from', v) = Asking(decisions, from, v)
    BY <1>3, <1>5 DEF Asking
  <2>2. QED
    BY <1>1, <2>1 DEF IInv, BoardInv, Board, TrueRow
<1>9. NoGhosts' /\ Unheard' = Unheard
  BY <1>1 DEF IInv, NoGhosts, Unheard
<1>10. WaitingIsListed'
  BY <1>1, <1>3, <1>5, <1>9 DEF IInv, WaitingIsListed
<1>11. ListedWindowsAreOpen'
  BY <1>1, <1>3, <1>5 DEF IInv, ListedWindowsAreOpen
<1>12. RemindersHaveReasons'
  BY <1>1, <1>4 DEF IInv, RemindersHaveReasons
<1>13. QED
  BY <1>6, <1>7, <1>8, <1>9, <1>10, <1>11, <1>12 DEF IInv

\* A window's requests leave the list, none of the others' does.
LEMMA OthersStayListed ==
  ASSUME IInv, NEW w, decisions' = Without(w), UNCHANGED <<made, from, withdrawn>>,
         NEW v \in Chats, v # w, (decisions \cup withdrawn) \cap Of(v) # {}
  PROVE  (decisions' \cup withdrawn') \cap Of(v)' # {}
<1>1. PICK q \in (decisions \cup withdrawn) \cap Of(v) : TRUE
  OBVIOUS
<1>2. q \notin Of(w)
  BY <1>1 DEF Of
<1>3. q \in (decisions' \cup withdrawn') \cap Of(v)'
  BY <1>1, <1>2 DEF Without, Of
<1>4. QED
  BY <1>3

LEMMA ClosedKeeps ==
  ASSUME IInv, NEW w \in Chats, Closed(w)
  PROVE  IInv'
<1> DEFINE list == Without(w)
           wins == open \ {w}
<1>1. /\ w \in open \cap Chats /\ w \in served /\ open' = wins /\ gone' = gone \cup {w}
      /\ focused' = IF focused = w THEN None ELSE focused
      /\ unread' = [unread EXCEPT ![w] = 0] /\ reminders' = [reminders EXCEPT ![w] = 0]
      /\ decisions' = list
      /\ rows' = ClosedRow(w, IF list = decisions THEN rows ELSE RefreshWaiting(rows, list, open', from))
      /\ asks' = asks \ Of(w) /\ shown' = [shown EXCEPT ![w] = 0] /\ streaming' = streaming \ {w}
      /\ UNCHANGED <<served, made, from, withdrawn>>
  BY DEF Closed, Goes, Served, Refreshed
<1>2. unread' \in [Chats -> 0..MaxUnread] /\ unread'[w] = 0 /\ \A v \in Chats \ {w} : unread'[v] = unread[v]
  BY <1>1, AttentionAssumption DEF IInv, Types
<1>3. reminders' \in [Chats -> 0..Repeats] /\ reminders'[w] = 0 /\ \A v \in Chats \ {w} : reminders'[v] = reminders[v]
  BY <1>1, AttentionAssumption DEF IInv, Types
<1>4. /\ list \in SUBSET decisions /\ list \in SUBSET Requests /\ wins \in SUBSET Windows
      /\ \A r \in list : from[r] \in Chats /\ from[r] \in wins
  <2>1. \A r \in list : from[r] # w
    BY DEF Without, Of, IInv, Types
  <2>2. QED
    BY <2>1, ListedHaveWindows DEF Without
<1>5. Board(ClosedRow(w, rows), decisions, from, wins, streaming', unread')
  <2>1. \A v \in Chats \ {w} : (v \in streaming' <=> v \in streaming) /\ unread'[v] = unread[v]
    BY <1>1, <1>2
  <2>2. Board(rows, decisions, from, open, streaming, unread) /\ open \in SUBSET Windows
    BY ListedHaveWindows DEF IInv, BoardInv
  <2>3. QED
    BY <2>1, <2>2, CloseKeepsBoard
<1>6. Board(rows', list, from, wins, streaming', unread')
  <2>1. CASE list = decisions
    BY <1>1, <1>5, <2>1
  <2>2. CASE list # decisions
    <3>1. rows' = RefreshWaiting(ClosedRow(w, rows), list, wins, from)
      BY <1>1, <2>2, RefreshAndClose, w \notin wins
    <3>2. \A r \in list : from[r] \in Chats
      BY <1>4
    <3>3. Board(RefreshWaiting(ClosedRow(w, rows), list, wins, from), list, from, wins, streaming', unread')
      <4> HIDE DEF list, wins
      <4>1. QED
        BY <1>4, <1>5, <3>2, RefreshKeepsBoard
    <3>4. QED
      BY <3>1, <3>3
  <2>3. QED
    BY <2>1, <2>2
<1>7. BoardInv'
  BY <1>1, <1>6 DEF BoardInv
<1>8. Cardinality(decisions') <= MaxPending
  <2>1. Cardinality(list) <= Cardinality(decisions) /\ Cardinality(list) \in Nat /\ Cardinality(decisions) \in Nat
    BY <1>4, ListedHaveWindows, ListIsFinite, PartIsShorter
  <2>2. QED
    BY <1>1, <2>1, AttentionAssumption DEF IInv, Types
<1>9. Types'
  <2>1. open' \subseteq Windows /\ gone' \subseteq Chats /\ focused' \in Chats \cup {None}
    BY <1>1, <1>4 DEF IInv, Types
  <2>2. shown' \in [Chats -> {0} \cup Requests] /\ \A v \in Chats : shown'[v] \in {0} \cup Of(v)'
    BY <1>1 DEF IInv, Types, Of
  <2>3. streaming' \subseteq open' \cap Chats /\ asks' \subseteq 1..made' /\ decisions' \subseteq 1..made'
    BY <1>1, <1>4 DEF IInv, Types
  <2>4. QED
    BY <1>1, <1>2, <1>3, <1>8, <2>1, <2>2, <2>3 DEF IInv, Types
<1>10. Known' /\ NoGhosts'
  <2>1. w = Main \/ w \notin DOMAIN rows'
    BY <1>1, RemovedRows DEF ClosedRow
  <2>2. DOMAIN rows' \subseteq DOMAIN rows \cup wins /\ Main \notin Children
    <3>1. rows' = ClosedRow(w, Refreshed(list, rows, wins))
      BY <1>1 DEF Refreshed
    <3>2. DOMAIN rows' \subseteq DOMAIN rows \cup wins
      BY <3>1 DEF ClosedRow, RemoveRow, Refreshed, RefreshWaiting
    <3>3. QED
      BY <3>2, AttentionAssumption
  <2>3. NoGhosts'
    BY <1>1, <2>1, <2>2 DEF IInv, NoGhosts, Unheard
  <2>4. QED
    BY <1>1, <1>2, <1>3, <1>4, <2>3 DEF IInv, Known
<1>11. WaitingIsListed'
  BY <1>1 DEF IInv, WaitingIsListed, Without, Unheard
<1>12. ListedWindowsAreOpen'
  BY <1>1, <1>4 DEF ListedWindowsAreOpen
<1>13. RemindersHaveReasons'
  <2>1. ASSUME NEW v \in Chats, reminders'[v] > 0
        PROVE  v \in open' /\ (decisions' \cup withdrawn') \cap Of(v)' # {}
    <3>1. v # w /\ v \in open /\ (decisions \cup withdrawn) \cap Of(v) # {}
      BY <1>3, <2>1 DEF IInv, RemindersHaveReasons
    <3>2. QED
      BY <1>1, <3>1, OthersStayListed
  <2>2. QED
    BY <2>1 DEF RemindersHaveReasons
<1>14. QED
  BY <1>7, <1>9, <1>10, <1>11, <1>12, <1>13 DEF IInv

LEMMA ClickGoneKeeps ==
  ASSUME IInv, NEW w \in Windows, ClickGone(w)
  PROVE  IInv'
<1>1. /\ w \in DOMAIN rows \ open /\ decisions' = Without(w) /\ rows' = RemoveRow(Refreshed(Without(w), rows, open), w)
      /\ UNCHANGED <<open, gone, focused, served, made, from, asks, shown, streaming, reminders, unread, withdrawn>>
  BY DEF ClickGone, electronVars, sessionVars
<1>2. decisions' = decisions /\ rows' = RemoveRow(rows, w)
  BY <1>1 DEF IInv, ListedWindowsAreOpen, Without, Of, Refreshed
<1>3. Board(RemoveRow(rows, w), decisions, from, open, streaming, unread)
  BY <1>1, ClickKeepsBoard DEF IInv, BoardInv
<1>4. BoardInv'
  BY <1>1, <1>2, <1>3 DEF BoardInv
<1>5. WaitingIsListed' /\ ListedWindowsAreOpen' /\ RemindersHaveReasons'
  BY <1>1, <1>2, ListsKept DEF IInv, Types
<1>6. NoGhosts'
  BY <1>1, <1>2, RemovedRows, StillNoGhosts
<1>7. QED
  BY <1>1, <1>2, <1>4, <1>5, <1>6 DEF IInv, Types, Known, Of

LEMMA DialogKeeps ==
  ASSUME IInv, NEW w \in Chats, Dialog(w)
  PROVE  IInv'
<1> DEFINE r == made + 1
           more == decisions \cup {r}
           list == more \ Oldest(more)
<1>1. /\ w \in open \cap Chats /\ w \in served /\ made < MaxRequests /\ made' = r /\ from' = [from EXCEPT ![r] = w]
      /\ asks' = asks \cup {r} /\ shown' = [shown EXCEPT ![w] = r]
      /\ decisions' = list /\ rows' = RefreshWaiting(rows, list, open, from')
      /\ withdrawn' = withdrawn \cup Oldest(more)
      /\ reminders' = [reminders EXCEPT ![w] = Repeats]
      /\ open' = open \/ open' = open \cup {Notifier}
      /\ UNCHANGED <<gone, focused, served, streaming, unread>>
  BY DEF Dialog, Served, Chime
<1>2. /\ made \in Nat /\ r \in Requests /\ r \notin 1..made
      /\ 1..made' = 1..made \cup {r} /\ 1..made' \subseteq Requests
  <2>1. made \in Nat /\ made' = made + 1 /\ made' \in Nat /\ made' <= MaxRequests
    BY <1>1, AttentionAssumption DEF IInv, Types
  <2>2. r \in Requests /\ r \notin 1..made /\ 1..made' \subseteq Requests
    BY <2>1, AttentionAssumption DEF Requests
  <2>3. 1..made' = 1..made \cup {r}
    BY <2>1
  <2>4. QED
    BY <2>1, <2>2, <2>3
<1>3. /\ from' \in [Requests -> Chats \cup {None}] /\ from'[r] = w
      /\ \A q \in 1..made : from'[q] = from[q]
  BY <1>1, <1>2 DEF IInv, Types
<1>4. Of(w) \cup {r} \subseteq Of(w)' /\ \A v : Of(v) \subseteq Of(v)'
  BY <1>2, <1>3 DEF Of
<1>5. Oldest(more) \subseteq more /\ more \subseteq 1..made' /\ list \in SUBSET Requests
  BY <1>2 DEF IInv, Types, Oldest
<1>6. \A q \in 1..made' : from'[q] \in Chats
  BY <1>1, <1>2, <1>3 DEF IInv, Known
<1>7. Cardinality(list) <= MaxPending
  <2>1. decisions \in SUBSET Requests /\ Cardinality(decisions) <= MaxPending
    BY ListedHaveWindows DEF IInv, Types
  <2>2. QED
    BY <1>2, <2>1, CapHolds
<1>8. Board(rows', list, from', open', streaming, unread) /\ open' \subseteq Windows /\ open' \cap Chats = open \cap Chats
  <2>1. \A q \in list : from'[q] \in Chats
    BY <1>5, <1>6
  <2>2. Board(rows, decisions, from, open, streaming, unread) /\ open \in SUBSET Windows
    BY ListedHaveWindows DEF IInv, BoardInv
  <2>3. Board(rows', list, from', open, streaming, unread)
    <3> HIDE DEF list
    <3>1. Board(RefreshWaiting(rows, list, open, from'), list, from', open, streaming, unread)
      BY <1>5, <2>1, <2>2, RefreshKeepsBoard
    <3>2. QED
      BY <1>1, <3>1
  <2>4. open' = open \/ open' = open \cup {Notifier}
    BY <1>1
  <2> HIDE DEF list, r
  <2>5. Board(rows', list, from', open \cup {Notifier}, streaming, unread)
    BY <2>1, <2>2, <2>3, NotifierKeepsBoard
  <2>6. open' \subseteq Windows /\ open' \cap Chats = open \cap Chats
    BY <2>2, <2>4, AttentionAssumption DEF Windows, Chats
  <2>7. QED
    BY <2>3, <2>4, <2>5, <2>6
<1>9. BoardInv'
  BY <1>1, <1>8 DEF BoardInv
<1>10. Types'
  <2>1. reminders' \in [Chats -> 0..Repeats]
    BY <1>1, AttentionAssumption DEF IInv, Types
  <2>2. shown' \in [Chats -> {0} \cup Requests] /\ \A v \in Chats : shown'[v] \in {0} \cup Of(v)'
    BY <1>1, <1>2, <1>4 DEF IInv, Types
  <2>3. asks' \subseteq 1..made' /\ decisions' \subseteq 1..made' /\ withdrawn' \subseteq 1..made'
    BY <1>1, <1>2, <1>5 DEF IInv, Types
  <2>4. made' \in 0..MaxRequests
    BY <1>1, AttentionAssumption DEF IInv, Types
  <2>5. streaming' \subseteq open' \cap Chats
    BY <1>1, <1>8 DEF IInv, Types
  <2>6. served' \subseteq (open' \cup gone') \cap Chats /\ gone' \subseteq Chats \ open'
    BY <1>1, <1>8 DEF IInv, Types
  <2>7. QED
    BY <1>1, <1>3, <1>7, <1>8, <2>1, <2>2, <2>3, <2>4, <2>5, <2>6 DEF IInv, Types
<1>11. Known' /\ NoGhosts'
  <2>1. \A q \in decisions' : from'[q] \in served
    <3>1. ASSUME NEW q \in decisions' PROVE from'[q] \in served
      <4>1. q \in decisions \/ q = r
        BY <1>1
      <4>2. q \in decisions => from'[q] = from[q] /\ from[q] \in served
        BY <1>3 DEF IInv, Types, Known
      <4>3. QED
        BY <1>1, <1>3, <4>1, <4>2
    <3>2. QED
      BY <3>1
  <2>2. \A v \in Chats \ served : reminders'[v] = 0
    BY <1>1 DEF IInv, Types, Known
  <2>3. NoGhosts'
    <3>1. DOMAIN rows' \subseteq DOMAIN rows \cup open
      BY <1>1 DEF RefreshWaiting
    <3>2. QED
      BY <1>1, <1>8, <3>1, StillNoGhosts
  <2>4. QED
    BY <1>1, <1>6, <1>8, <2>1, <2>2, <2>3 DEF IInv, Known
<1>12. decisions \cup withdrawn \cup {r} \subseteq decisions' \cup withdrawn'
  BY <1>1
<1>13. WaitingIsListed'
  <2>1. ASSUME NEW q \in asks' PROVE q \in decisions' \cup withdrawn' \/ from'[q] \in Unheard'
    <3>1. q \in asks \/ q = r
      BY <1>1
    <3>2. q \in asks => from'[q] = from[q] /\ Unheard' = Unheard
      BY <1>1, <1>3 DEF IInv, Types, Unheard
    <3>3. QED
      BY <1>12, <3>1, <3>2 DEF IInv, WaitingIsListed
  <2>2. QED
    BY <2>1 DEF WaitingIsListed
<1>14. ListedWindowsAreOpen'
  <2>1. ASSUME NEW q \in decisions' PROVE from'[q] \in open'
    <3>1. q \in decisions \cup {r}
      BY <1>1
    <3>2. q \in decisions => from'[q] = from[q] /\ from[q] \in open
      BY <1>3, ListedHaveWindows DEF IInv, Types
    <3>3. QED
      BY <1>1, <1>3, <3>1, <3>2
  <2>2. QED
    BY <2>1 DEF ListedWindowsAreOpen
<1>15. RemindersHaveReasons'
  <2>1. ASSUME NEW v \in Chats, reminders'[v] > 0
        PROVE  v \in open' /\ (decisions' \cup withdrawn') \cap Of(v)' # {}
    <3>1. CASE v = w
      BY <1>1, <1>4, <1>12, <3>1
    <3>2. CASE v # w
      <4>1. reminders[v] > 0
        BY <1>1, <2>1, <3>2 DEF IInv, Types
      <4>2. v \in open /\ (decisions \cup withdrawn) \cap Of(v) # {}
        BY <4>1 DEF IInv, RemindersHaveReasons
      <4>3. QED
        BY <1>1, <1>4, <1>12, <4>2
    <3>3. QED
      BY <3>1, <3>2
  <2>2. QED
    BY <2>1 DEF RemindersHaveReasons
<1>16. QED
  BY <1>9, <1>10, <1>11, <1>13, <1>14, <1>15 DEF IInv

--------------------------------------------------------------------------------
\* The invariant

LEMMA InitIInv == Init => IInv
<1> SUFFICES ASSUME Init PROVE IInv
  OBVIOUS
<1>1. Types
  BY FS_EmptySet, AttentionAssumption DEF Init, Types, Windows, Chats, Of
<1>2. Known /\ NoGhosts /\ WaitingIsListed /\ ListedWindowsAreOpen /\ RemindersHaveReasons
  BY AttentionAssumption DEF Init, Known, NoGhosts, WaitingIsListed, ListedWindowsAreOpen, RemindersHaveReasons
<1>3. BoardInv
  BY AttentionAssumption DEF Init, BoardInv, Board, Asking
<1>4. QED
  BY <1>1, <1>2, <1>3 DEF IInv

LEMMA NextIInv == IInv /\ [Next]_vars => IInv'
<1> SUFFICES ASSUME IInv, [Next]_vars PROVE IInv'
  OBVIOUS
<1>1. ASSUME NEW w \in Chats,
             \/ Dialog(w) \/ SessionError(w) \/ PiExits(w) \/ Streaming(w) \/ Settled(w)
             \/ SwitchSession(w) \/ InfoPanel(w) \/ Reload(w) \/ Focus(w) \/ ReminderFires(w)
             \/ OpenChild(w) \/ Serve(w) \/ Closed(w) \/ ClosedUnheard(w) \/ AsksNobody(w)
      PROVE  IInv'
  BY <1>1, DialogKeeps, SessionErrorKeeps, PiExitsKeeps, StreamingKeeps, SettledKeeps, SwitchSessionKeeps,
     QuietSteps, FocusKeeps, OpenChildKeeps, ServeKeeps, ClosedKeeps, ClosedUnheardKeeps, AsksNobodyKeeps
<1>2. ASSUME NEW r \in 1..made, Answer(r) \/ GivesUp(r) PROVE IInv'
  BY <1>2, AnswerKeeps, QuietSteps DEF Chats
<1>3. ASSUME NEW w \in Windows, ClickGone(w) PROVE IInv'
  BY <1>3, ClickGoneKeeps
<1>4. CASE Blur \/ NotifierCloses
  BY <1>4, QuietSteps DEF Chats
<1>5. CASE UNCHANGED vars
  BY <1>5 DEF vars, electronVars, sessionVars, IInv, Types, Known, WaitingIsListed, ListedWindowsAreOpen,
     RemindersHaveReasons, BoardInv, NoGhosts, Unheard, Of
<1>6. QED
  BY <1>1, <1>2, <1>3, <1>4, <1>5 DEF Next

LEMMA SpecIInv == Spec => []IInv
BY InitIInv, NextIInv, PTL DEF Spec

\* However many windows and requests there are, the list has every request a pi waits for that was
\* not withdrawn, but for the pi of a window that was closed before its handler was registered; it is
\* never longer than its cap, and it names open windows only (decisions.ts and what main.ts does with it).
THEOREM TheListIsTrue == Spec => []ListIsTrue
<1>1. IInv => ListIsTrue
  BY DEF IInv, Types, Known, BoardInv, Board, ListIsTrue, TypeOK, Served
<1>2. QED
  BY <1>1, SpecIInv, PTL

\* The row of each open window says how many of its requests are listed, whether its turn runs and
\* how many of its turns nobody has seen.  An open session window has a row, and a closed one has none,
\* unless it was closed between its row (main.ts:803) and its handler (main.ts:990).
THEOREM TheBoardIsTrue == Spec => []BoardIsTrue
<1>1. ASSUME IInv, NEW w \in DOMAIN rows \cap open
      PROVE  /\ rows[w].waiting = Cardinality(decisions \cap Of(w))
             /\ w \in Chats => rows[w].running = (w \in streaming)
             /\ w \in Children => rows[w].unread = unread[w]
  <2>1. Asking(decisions, from, w) = decisions \cap Of(w)
    BY <1>1 DEF IInv, Types, Asking, Of
  <2>2. TrueRow(rows[w], w, decisions, from, streaming, unread) /\ rows[w].running \in BOOLEAN
    BY <1>1 DEF IInv, BoardInv, Board, Row
  <2>3. w \in Chats => rows[w].running = (w \in streaming)
    BY <2>2 DEF TrueRow
  <2>4. QED
    BY <2>1, <2>2, <2>3 DEF TrueRow
<1>2. IInv => BoardIsTrue
  BY <1>1 DEF IInv, BoardInv, Board, NoGhosts, BoardIsTrue, RowsAreTrue, ChildrenHaveRows
<1>3. QED
  BY <1>2, SpecIInv, PTL

\* A window's reminders repeat only while it is open and a request of its own is listed, or was
\* withdrawn without an answer (scheduleDecisionAlerts, cancelDecisionAlerts).
THEOREM RemindersAreAboutSomething == Spec => []RemindersHaveReasons
<1>1. IInv => RemindersHaveReasons
  BY DEF IInv
<1>2. QED
  BY <1>1, SpecIInv, PTL
================================================================================
