----------------------------- MODULE Pages_proofs -----------------------------
(***************************************************************************)
(* Proofs about what windows show of conversations: SessionStore, the list  *)
(* of the sessions on disk, for any names, windows and lists; and ChatPage, *)
(* the rows of a conversation, for any conversation, chunk and bounds.      *)
(*                                                                         *)
(* Of the store: an entry has its own id, so no two positions of the files  *)
(* hold the same one (UniqueIds); it is of the talk whose file it is in     *)
(* (Owned); a name has one file unless two took it (OnePerName); an entry's *)
(* parent is the one before it (Chained), hence all are on the branch; and  *)
(* the cache holds the name of a part of a file, which is still what the    *)
(* file begins with (CacheIsTrue).                                         *)
(*                                                                         *)
(* Of the page: its pointers are on it, and rows keep whose they are while  *)
(* it grows (Fit, Grows); prompts become messages in the order they were    *)
(* typed (Numbers), so that the bubble that waits for a timestamp is that   *)
(* of the next one (BubbleIsNext); and what pi has left is in no row and no *)
(* frame to come, unless the page has not been told of the move (Told) or a *)
(* list is on its way, and then it is not in the last one (LeftBehind).     *)
(* The rows that show are those of the first messages of what pi has said,  *)
(* up to where the page is (Mirror, UpTo).                                  *)
(***************************************************************************)
EXTENDS SessionStore, ChatPage, SequenceTheorems, WellFoundedInduction, TLAPS

--------------------------------------------------------------------------------
\* Positions

\* A set of numbers has a least one.
LEMMA LeastIsThere ==
  ASSUME NEW S \in SUBSET Nat, S # {}
  PROVE  \E m \in S : \A y \in S : m <= y
<1>1. PICK m \in S : \A y \in S : ~(<<y, m>> \in OpToRel(<, Nat))
  BY NatLessThanWellFounded, WFMin
<1>2. ASSUME NEW y \in S PROVE m <= y
  <2>1. ~(y < m)
    BY <1>1 DEF OpToRel
  <2>2. QED
    BY <2>1
<1>3. QED
  BY <1>2

\* A nonempty set of positions has a last and a first one.
LEMMA LastPosition ==
  ASSUME NEW n \in Nat, NEW S \in SUBSET (1..n), S # {}
  PROVE  Max(S) \in S /\ \A y \in S : y <= Max(S)
<1>1. PICK T : T = {n - y : y \in S}
  OBVIOUS
<1>2. T \subseteq Nat /\ T # {}
  <2>1. \A y \in S : y \in 1..n /\ n - y \in Nat
    OBVIOUS
  <2>2. QED BY <1>1, <2>1
<1>3. T \in SUBSET Nat
  BY <1>2
<1>4. PICK m \in T : \A y \in T : m <= y
  BY <1>2, <1>3, LeastIsThere
<1>5. n - m \in S /\ \A y \in S : y <= n - m
  <2>1. PICK z \in S : m = n - z
    BY <1>1
  <2>2. \A y \in S : y \in 1..n /\ m <= n - y
    BY <1>1, <1>4
  <2>3. n - m = z
    BY <2>1
  <2>4. QED BY <2>1, <2>2, <2>3
<1>6. \E x \in S : \A y \in S : x >= y
  BY <1>5
<1>7. QED BY <1>6 DEF Max

LEMMA FirstPosition ==
  ASSUME NEW n \in Nat, NEW S \in SUBSET (1..n), S # {}
  PROVE  Min(S) \in S /\ \A y \in S : Min(S) <= y
<1>1. S \in SUBSET Nat
  OBVIOUS
<1>2. \E x \in S : \A y \in S : x <= y
  BY <1>1, LeastIsThere
<1>3. QED BY <1>2 DEF Min

--------------------------------------------------------------------------------
\* The branch of a file

\* What OnBranch computes from the last entry upwards: the least set that has the last entry and
\* with an entry its parents is one that does what its equation asks.
LEMMA OnBranchEquation ==
  ASSUME NEW s \in Seq(Entry)
  PROVE  /\ OnBranch(s) \subseteq 1..Len(s)
         /\ \A i \in 1..Len(s) :
              i \in OnBranch(s) <=> i = Len(s) \/ \E j \in (i + 1)..Len(s) : j \in OnBranch(s) /\ s[j].parent = s[i].id
<1> DEFINE n == Len(s)
           Closed(S) == n \in S /\ \A j \in S, i \in 1..n : i < j /\ s[j].parent = s[i].id => i \in S
           R == {i \in 1..n : \A S \in SUBSET (1..n) : Closed(S) => i \in S}
           Does(f) == f = [i \in 1..n |-> i = n \/ \E j \in (i + 1)..n : f[j] /\ s[j].parent = s[i].id]
           on0 == CHOOSE f : Does(f)
<1>1. n \in Nat
  OBVIOUS
<1>2. \E f : Does(f)
  <2>1. \A i \in 1..n : i \in R <=> i = n \/ \E j \in (i + 1)..n : j \in R /\ s[j].parent = s[i].id
    <3>1. ASSUME NEW i \in 1..n, i = n \/ \E j \in (i + 1)..n : j \in R /\ s[j].parent = s[i].id
          PROVE  i \in R
      BY <1>1, <3>1
    <3>2. ASSUME NEW i \in R, i # n, ~\E j \in (i + 1)..n : j \in R /\ s[j].parent = s[i].id
          PROVE  FALSE
      <4>1. PICK S : S = R \ {i}
        OBVIOUS
      <4>2. n \in 1..n
        BY <1>1
      <4>3. ASSUME NEW j \in S, NEW k \in 1..n, k < j, s[j].parent = s[k].id PROVE k \in S
        <5>1. k \in R
          BY <4>1, <4>3
        <5>2. k # i
          BY <1>1, <3>2, <4>1, <4>3
        <5>3. QED BY <4>1, <5>1, <5>2
      <4>4. n \in S
        BY <3>2, <4>1, <4>2
      <4>5. S \in SUBSET (1..n) /\ Closed(S)
        BY <4>1, <4>3, <4>4
      <4>6. i \in S
        BY <4>5
      <4>7. QED BY <4>1, <4>6
    <3>3. QED BY <3>1, <3>2
  <2>2. PICK f : f = [i \in 1..n |-> i \in R]
    OBVIOUS
  <2>3. ASSUME NEW i \in 1..n
        PROVE  f[i] = (i = n \/ \E j \in (i + 1)..n : f[j] /\ s[j].parent = s[i].id)
    <3>4. \A j \in (i + 1)..n : j \in 1..n
      BY <1>1
    <3>1. \A j \in (i + 1)..n : f[j] = (j \in R)
      BY <2>2, <3>4, Zenon
    <3>2. f[i] = (i \in R)
      BY <2>2
    <3>5. (i \in R) = (i = n \/ \E j \in (i + 1)..n : j \in R /\ s[j].parent = s[i].id)
      BY <2>1
    <3>6. (\E j \in (i + 1)..n : j \in R /\ s[j].parent = s[i].id)
          = (\E j \in (i + 1)..n : f[j] /\ s[j].parent = s[i].id)
      BY <3>1, Zenon
    <3>3. QED BY <3>2, <3>5, <3>6, Zenon
  <2>4. Does(f)
    BY <2>2, <2>3
  <2>5. QED BY <2>4
<1>3. PICK on : Does(on) /\ on = on0
  BY <1>2
<1>4. OnBranch(s) = {i \in 1..n : on[i]}
  BY <1>3 DEF OnBranch
<1>5. ASSUME NEW i \in 1..n
      PROVE  on[i] <=> i = n \/ \E j \in (i + 1)..n : on[j] /\ s[j].parent = s[i].id
  <2>1. on = [k \in 1..n |-> k = n \/ \E j \in (k + 1)..n : on[j] /\ s[j].parent = s[k].id]
    BY <1>3
  <2>2. PICK g : g = [k \in 1..n |-> k = n \/ \E j \in (k + 1)..n : on[j] /\ s[j].parent = s[k].id]
    OBVIOUS
  <2>3. g[i] = (i = n \/ \E j \in (i + 1)..n : on[j] /\ s[j].parent = s[i].id)
    BY <2>2, Zenon
  <2>4. on[i] = g[i]
    BY <2>1, <2>2
  <2>5. QED BY <2>3, <2>4, Zenon
<1>6. \A i \in 1..n : \A j \in (i + 1)..n : j \in 1..n
  BY <1>1
<1>7. QED BY <1>1, <1>4, <1>5, <1>6

\* Every entry follows an earlier one, with nothing but names in between.
Linked(s) ==
  \A j \in 2..Len(s) : \E i \in 1..(j - 1) :
    s[j].parent = s[i].id /\ \A k \in (i + 1)..(j - 1) : s[k].kind = "name"

\* In such a file the branch of the last entry passes over names alone.
LEMMA LinkedIsOnBranch ==
  ASSUME NEW s \in Seq(Entry), Linked(s), NEW m \in 1..Len(s), s[m].kind = "message"
  PROVE  m \in OnBranch(s)
<1> SUFFICES ASSUME m \notin OnBranch(s) PROVE FALSE
  OBVIOUS
<1>1. PICK n \in Nat : n = Len(s) /\ n >= 1
  OBVIOUS
<1>2. PICK B \in SUBSET (1..n) :
        /\ m \notin B /\ n \in B
        /\ \A i \in 1..n : \A j \in (i + 1)..n : j \in B /\ s[j].parent = s[i].id => i \in B
  <2>1. n \in 1..Len(s)
    BY <1>1
  <2>2. OnBranch(s) \in SUBSET (1..n) /\ n \in OnBranch(s)
    BY <1>1, <2>1, OnBranchEquation
  <2>3. \A i \in 1..n : \A j \in (i + 1)..n : j \in OnBranch(s) /\ s[j].parent = s[i].id => i \in OnBranch(s)
    BY <1>1, OnBranchEquation
  <2>4. QED BY <2>2, <2>3
<1>3. PICK T \in SUBSET (1..n) : T = {j \in B : j > m}
  OBVIOUS
<1>4. n \in T
  BY <1>1, <1>2, <1>3
<1>5. PICK j \in T : \A y \in T : j <= y
  BY <1>4, FirstPosition
<1>6. j \in 2..Len(s) /\ j \in B /\ j > m
  BY <1>1, <1>3
<1>7. PICK i \in 1..(j - 1) : s[j].parent = s[i].id /\ \A k \in (i + 1)..(j - 1) : s[k].kind = "name"
  BY <1>6 DEF Linked
<1>8. i \in 1..n /\ j \in (i + 1)..n
  BY <1>1, <1>6, <1>7
<1>9. i \in B
  BY <1>2, <1>6, <1>7, <1>8
<1>10. ~(i > m)
  BY <1>3, <1>5, <1>7, <1>8, <1>9
<1>11. i # m
  BY <1>2, <1>9
<1>12. m \in (i + 1)..(j - 1)
  BY <1>6, <1>8, <1>10, <1>11
<1>13. QED BY <1>7, <1>12

--------------------------------------------------------------------------------
\* The name of a file

\* The name is that of an entry, or none.
LEMMA NameOfType ==
  ASSUME NEW s \in Seq(Entry)
  PROVE  NameOf(s) \in Ids \cup {None}
<1>1. ASSUME NEW I \in SUBSET (1..Len(s)), InfosAmong(s, I) # {}
      PROVE  /\ s[Max(InfosAmong(s, I))].id \in Ids
             /\ s[Min(InfosAmong(s, I))].id \in Ids
  <2>1. PICK T \in SUBSET (1..Len(s)) : T = InfosAmong(s, I)
    BY DEF InfosAmong
  <2>5. Len(s) \in Nat
    OBVIOUS
  <2>2. Max(T) \in 1..Len(s) /\ Min(T) \in 1..Len(s)
    BY <1>1, <2>1, <2>5, LastPosition, FirstPosition
  <2>3. s[Max(T)] \in Entry /\ s[Min(T)] \in Entry
    BY <2>2
  <2>4. QED BY <2>1, <2>3 DEF Entry
<1>2. InTail(s) \in SUBSET (1..Len(s)) /\ InHead(s) \in SUBSET (1..Len(s))
  BY DEF InTail, InHead
<1>3. QED BY <1>1, <1>2 DEF NameOf

\* The name of a file is the one it was given last, if that is within the tail.
LEMMA NameOfIsNewest ==
  ASSUME NEW s \in Seq(Entry)
  PROVE  /\ InfosAmong(s, DOMAIN s) = {} => NameOf(s) = None
         /\ InfosAmong(s, DOMAIN s) # {} /\ Max(InfosAmong(s, DOMAIN s)) \in InTail(s)
              => NameOf(s) = s[Max(InfosAmong(s, DOMAIN s))].id
<1>7. Len(s) \in Nat /\ DOMAIN s = 1..Len(s)
  OBVIOUS
<1>1. PICK named \in SUBSET (1..Len(s)) : named = InfosAmong(s, DOMAIN s)
  BY <1>7 DEF InfosAmong
<1>2. PICK T \in SUBSET (1..Len(s)) : T = InfosAmong(s, InTail(s))
  BY DEF InfosAmong, InTail
<1>3. T = named \cap InTail(s) /\ InfosAmong(s, InHead(s)) \subseteq named
  BY <1>1, <1>2 DEF InfosAmong, InTail, InHead
<1>4. ASSUME named = {} PROVE NameOf(s) = None
  BY <1>2, <1>3, <1>4 DEF NameOf
<1>5. ASSUME named # {}, Max(named) \in InTail(s)
      PROVE  NameOf(s) = s[Max(named)].id
  <2>1. Max(named) \in named /\ \A y \in named : y <= Max(named)
    BY <1>5, <1>7, LastPosition
  <2>2. T # {} /\ Max(named) \in T
    BY <1>3, <1>5, <2>1
  <2>3. Max(T) \in T /\ \A y \in T : y <= Max(T)
    BY <1>7, <2>2, LastPosition
  <2>4. Max(T) = Max(named)
    <3>1. Max(T) <= Max(named) /\ Max(named) <= Max(T) /\ Max(T) \in 1..Len(s) /\ Max(named) \in 1..Len(s)
      BY <1>3, <2>1, <2>2, <2>3
    <3>2. QED BY <3>1
  <2>5. QED BY <1>2, <2>2, <2>4 DEF NameOf
<1>6. QED BY <1>1, <1>4, <1>5

--------------------------------------------------------------------------------
\* The inductive invariant

Visits == {Off, ToDo, Through} \cup [at : {"read"}, last : Ids, size : Nat \ {0}]

Shapes ==
  /\ TypeOK
  /\ DOMAIN renaming = Windows /\ DOMAIN importing = Windows /\ DOMAIN cache = Paths
  /\ lists \in [Lists -> [Paths -> Visits]]

\* A message is in a file of the name it was written to.
Owned ==
  \A p \in Paths : Exists(p) => \A i \in DOMAIN disk[p].entries :
    LET e == disk[p].entries[i] IN e.id <= written /\ (e.kind = "message" => talk[e.id] = p[1])

Unsaid == \A i \in Ids : talk[i] # None => i <= written

\* Two files have one name only after one was written while the other was there.
OnePerName ==
  \A p, q \in Paths : p # q /\ p[1] = q[1] /\ Exists(p) /\ Exists(q) => p[1] \in twice

NameWasFree == \A w \in Windows : importing[w] # None => importing[w].free

\* An entry is in one file, once.
UniqueIds ==
  \A p, q \in Paths : Exists(p) /\ Exists(q) =>
    \A i \in DOMAIN disk[p].entries, j \in DOMAIN disk[q].entries :
      disk[p].entries[i].id = disk[q].entries[j].id => p = q /\ i = j

Chained == \A p \in Paths : Exists(p) /\ ~disk[p].cut => Linked(disk[p].entries)

\* A sound entry of the cache names the entries up to the one it was made at, wherever they are.
NamesAsRead(c) ==
  /\ c.last <= written
  /\ \A q \in Paths : Exists(q) => \A k \in DOMAIN disk[q].entries :
       disk[q].entries[k].id = c.last /\ k = c.size
         => c.name = NameOf(SubSeq(disk[q].entries, 1, k))

CacheIsTrue == \A p \in Paths : cache[p] # None /\ cache[p].sound => NamesAsRead(cache[p])

KeptFiles == Owned /\ Unsaid /\ OnePerName /\ UniqueIds /\ NothingIsLost /\ Chained
IInv == Shapes /\ KeptFiles /\ NameWasFree /\ CacheIsTrue

LEMMA FileType ==
  ASSUME Shapes, NEW p \in Paths, Exists(p)
  PROVE  /\ disk[p] \in File /\ disk[p].entries \in Seq(Entry) /\ disk[p].entries # <<>>
         /\ disk[p].cut \in BOOLEAN /\ Len(disk[p].entries) \in Nat \ {0}
         /\ DOMAIN disk[p].entries = 1..Len(disk[p].entries)
         /\ \A i \in DOMAIN disk[p].entries : disk[p].entries[i] \in Entry
         /\ Last(disk[p]) \in Entry
<1>1. disk[p] \in File
  BY DEF Shapes, TypeOK, Exists
<1>2. PICK s : s = disk[p].entries
  OBVIOUS
<1>3. s \in Seq(Entry) /\ s # <<>> /\ disk[p].cut \in BOOLEAN
  BY <1>1, <1>2 DEF File
<1>4. Len(s) \in Nat \ {0} /\ DOMAIN s = 1..Len(s)
  BY <1>3
<1>5. \A i \in DOMAIN s : s[i] \in Entry
  BY <1>3, <1>4
<1>6. Len(s) \in DOMAIN s
  BY <1>4
<1>7. QED BY <1>1, <1>2, <1>3, <1>4, <1>5, <1>6 DEF Last

LEMMA MessageTypes ==
  ASSUME NEW id \in Ids, NEW parent \in Ids \cup {None}, NEW huge \in BOOLEAN
  PROVE  /\ Message(id, parent, huge) \in Entry /\ Message(id, parent, huge).id = id
         /\ Message(id, parent, huge).kind = "message" /\ Message(id, parent, huge).parent = parent
         /\ Info(id, parent) \in Entry /\ Info(id, parent).id = id
         /\ Info(id, parent).kind = "name" /\ Info(id, parent).parent = parent
BY DEF Message, Info, Entry

\* A file of one entry.
LEMMA FileOfOne ==
  ASSUME NEW e \in Entry
  PROVE  /\ FileOf(e) \in File /\ FileOf(e).entries = <<e>> /\ FileOf(e).cut = FALSE /\ FileOf(e) # None
         /\ <<e>> \in Seq(Entry) /\ Len(<<e>>) = 1 /\ <<e>>[1] = e /\ DOMAIN <<e>> = 1..1
         /\ Linked(<<e>>)
<1>1. /\ <<e>> \in Seq(Entry) /\ Len(<<e>>) = 1 /\ <<e>>[1] = e /\ DOMAIN <<e>> = 1..1 /\ <<e>> # <<>>
  OBVIOUS
<1>2. Linked(<<e>>)
  BY <1>1 DEF Linked
<1>3. FileOf(e) \in File
  BY <1>1 DEF FileOf, File
<1>4. QED BY <1>1, <1>2, <1>3, StoreAssumption DEF FileOf

LEMMA InitIInv == Init => IInv
<1> SUFFICES ASSUME Init PROVE IInv
  OBVIOUS
<1>1. 1 \in Ids /\ <<First, 0>> \in Paths /\ 0 \in 0..MaxDepth
  BY StoreAssumption DEF Ids, Paths
<1>2. PICK e \in Entry : e = Message(1, None, FALSE) /\ e.id = 1 /\ e.kind = "message"
  <2>1. PICK none \in Ids \cup {None}, huge \in BOOLEAN : none = None /\ huge = FALSE
    OBVIOUS
  <2>2. Message(1, none, huge) \in Entry /\ Message(1, none, huge).id = 1 /\ Message(1, none, huge).kind = "message"
    BY <1>1, <2>1, MessageTypes
  <2>3. QED BY <2>1, <2>2
<1>3. disk = [p \in Paths |-> IF p = <<First, 0>> THEN FileOf(e) ELSE None]
  BY <1>2 DEF Init
<1>4. PICK f \in File : f = FileOf(e) /\ f # None /\ f.entries = <<e>>
  BY FileOfOne
<1>5. \A p \in Paths : IF p = <<First, 0>> THEN disk[p] = f ELSE disk[p] = None
  BY <1>3, <1>4
<1>6. \A p \in Paths : Exists(p) => p = <<First, 0>> /\ p[1] = First /\ disk[p].entries = <<e>>
  BY <1>4, <1>5 DEF Exists
<1>7. \A i \in DOMAIN <<e>> : i = 1 /\ <<e>>[i] = e
  OBVIOUS
<1>8. talk[1] = First /\ \A i \in Ids : i # 1 => talk[i] = None
  BY <1>1 DEF Init
<1>9. Shapes
  <2>1. disk \in [Paths -> File \cup {None}]
    BY <1>3, <1>4
  <2>2. talk \in [Ids -> Names \cup {None}]
    BY StoreAssumption DEF Init
  <2>3. 1 \in 1..MaxWrites /\ 0 \in 0..MaxTroubles /\ 0 \in 0..MaxAsked /\ 0 \in 0..MaxOpened /\ 0 \in 0..MaxListed
    BY StoreAssumption
  <2>4. used \in [asked : 0..MaxAsked, opened : 0..MaxOpened, listed : 0..MaxListed]
    BY <2>3 DEF Init
  <2>5. /\ drives \in [Windows -> Paths \cup {None}] /\ leaf \in [Windows -> Ids \cup {None}]
        /\ (\A w \in Windows : renaming[w] = None /\ importing[w] = None) /\ (\A p \in Paths : cache[p] = None)
        /\ deleted = {} /\ twice = {} /\ written = 1 /\ troubles = 0
    BY DEF Init
  <2>6. TypeOK
    BY <2>1, <2>2, <2>3, <2>4, <2>5 DEF TypeOK
  <2>7. lists \in [Lists -> [Paths -> Visits]] /\ DOMAIN renaming = Windows /\ DOMAIN importing = Windows /\ DOMAIN cache = Paths
    BY DEF Init, Visits
  <2>8. QED BY <2>6, <2>7 DEF Shapes
<1>10. written = 1
  BY DEF Init
<1>11. Owned /\ Unsaid /\ OnePerName
  <2>1. Owned
    <3>1. ASSUME NEW p \in Paths, Exists(p), NEW i \in DOMAIN disk[p].entries
          PROVE  disk[p].entries[i].id = 1 /\ p[1] = First
      <4>1. p[1] = First /\ disk[p].entries = <<e>>
        BY <1>6, <3>1
      <4>2. disk[p].entries[i] = e
        BY <1>7, <3>1, <4>1
      <4>3. QED BY <1>2, <4>1, <4>2
    <3>2. QED BY <1>8, <1>10, <3>1 DEF Owned
  <2>2. Unsaid
    BY <1>8, <1>10 DEF Unsaid
  <2>3. OnePerName
    BY <1>6 DEF OnePerName
  <2>4. QED BY <2>1, <2>2, <2>3
<1>12. UniqueIds
  BY <1>6, <1>7 DEF UniqueIds
<1>13. NothingIsLost
  <2>1. 1 \in Messages(f)
    <3>1. 1 \in DOMAIN f.entries /\ f.entries[1] = e
      BY <1>4
    <3>2. QED BY <1>2, <3>1 DEF Messages
  <2>2. Exists(<<First, 0>>) /\ disk[<<First, 0>>] = f
    BY <1>1, <1>4, <1>5 DEF Exists
  <2>3. \A i \in 1..written : i = 1
    BY <1>10
  <2>4. QED BY <1>1, <2>1, <2>2, <2>3 DEF NothingIsLost
<1>14. Chained
  BY <1>6, FileOfOne DEF Chained
<1>15. NameWasFree /\ CacheIsTrue
  BY DEF Init, NameWasFree, CacheIsTrue
<1>16. QED BY <1>9, <1>11, <1>12, <1>13, <1>14, <1>15 DEF IInv, KeptFiles

--------------------------------------------------------------------------------
\* A file grows, is made, goes or moves

\* What an append leaves of a sequence.
LEMMA AppendKeepsEntries ==
  ASSUME NEW s \in Seq(Entry), NEW e \in Entry
  PROVE  LET t == Append(s, e)
         IN /\ t \in Seq(Entry) \ {<<>>} /\ Len(t) = Len(s) + 1 /\ t[Len(s) + 1] = e
            /\ \A i \in 1..Len(s) : t[i] = s[i] /\ SubSeq(t, 1, i) = SubSeq(s, 1, i)
<1>1. PICK t : t = Append(s, e)
  OBVIOUS
<1>2. t \in Seq(Entry) /\ Len(t) = Len(s) + 1 /\ t[Len(s) + 1] = e /\ \A i \in 1..Len(s) : t[i] = s[i]
  BY <1>1
<1>3. ASSUME NEW i \in 1..Len(s) PROVE SubSeq(t, 1, i) = SubSeq(s, 1, i)
  <2>1. PICK p, q : p = SubSeq(t, 1, i) /\ q = SubSeq(s, 1, i)
    OBVIOUS
  <2>2. /\ p \in Seq(Entry) /\ q \in Seq(Entry) /\ Len(p) = i /\ Len(q) = i
        /\ \A j \in 1..i : p[j] = t[j] /\ q[j] = s[j]
    BY <1>2, <2>1
  <2>3. \A j \in 1..Len(p) : p[j] = q[j]
    BY <1>2, <2>2
  <2>4. QED BY <2>1, <2>2, <2>3, SeqEqual
<1>4. t # <<>>
  BY <1>2
<1>5. QED BY <1>1, <1>2, <1>3, <1>4

\* An entry with a new id that ends the path's file, which goes on from what was there.
Ends(p, e) ==
  /\ disk'[p] \in File /\ disk'[p] # None
  /\ \A q \in Paths : q # p => disk'[q] = disk[q]
  /\ LET n == Len(disk'[p].entries)
     IN /\ disk'[p].entries[n] = e
        /\ \A i \in 1..(n - 1) :
             /\ Exists(p) /\ i \in DOMAIN disk[p].entries
             /\ disk'[p].entries[i] = disk[p].entries[i]
             /\ SubSeq(disk'[p].entries, 1, i) = SubSeq(disk[p].entries, 1, i)

LEMMA AppendsEnds ==
  ASSUME Shapes, NEW p \in Paths, NEW e \in Entry, NEW off \in BOOLEAN, Appends(p, e, off)
  PROVE  /\ disk' \in [Paths -> File \cup {None}] /\ Ends(p, e)
         /\ Exists(p) => /\ disk'[p].entries = Append(disk[p].entries, e)
                         /\ disk'[p].cut <=> disk[p].cut \/ off
         /\ ~Exists(p) => disk'[p].cut = off
<1>1. CASE Exists(p)
  <2>1. PICK s : s = disk[p].entries
    OBVIOUS
  <2>2. s \in Seq(Entry) /\ disk[p].cut \in BOOLEAN
    BY <1>1, <2>1, FileType
  <2>3. PICK t : t = Append(s, e)
    OBVIOUS
  <2>4. /\ t \in Seq(Entry) \ {<<>>} /\ Len(t) = Len(s) + 1 /\ t[Len(s) + 1] = e
        /\ \A i \in 1..Len(s) : t[i] = s[i] /\ SubSeq(t, 1, i) = SubSeq(s, 1, i)
    BY <2>2, <2>3, AppendKeepsEntries
  <2>12. PICK c \in BOOLEAN : c = (disk[p].cut \/ off)
    BY <2>2
  <2>5. PICK f \in File : f = [entries |-> t, cut |-> c]
    BY <2>4 DEF File
  <2>6. disk' = [disk EXCEPT ![p] = f]
    BY <1>1, <2>1, <2>3, <2>5, <2>12 DEF Appends
  <2>7. disk' \in [Paths -> File \cup {None}] /\ disk'[p] = f /\ \A q \in Paths : q # p => disk'[q] = disk[q]
    BY <2>6 DEF Shapes, TypeOK
  <2>8. f.entries = t /\ (f.cut <=> disk[p].cut \/ off) /\ f # None
    BY <2>5, <2>12, StoreAssumption
  <2>9. \A i \in 1..(Len(t) - 1) : i \in 1..Len(s) /\ i \in DOMAIN s
    BY <2>2, <2>4
  <2>10. Ends(p, e)
    BY <1>1, <2>1, <2>2, <2>4, <2>7, <2>8, <2>9 DEF Ends
  <2>11. QED BY <1>1, <2>1, <2>3, <2>7, <2>8, <2>10
<1>2. CASE ~Exists(p)
  <2>1. PICK f \in File : f = [FileOf(e) EXCEPT !.cut = off] /\ f.entries = <<e>> /\ f.cut = off
    <3>1. PICK f : f = [entries |-> <<e>>, cut |-> off]
      OBVIOUS
    <3>2. f \in File
      BY <3>1, FileOfOne DEF File
    <3>3. f = [FileOf(e) EXCEPT !.cut = off]
      BY <3>1 DEF FileOf
    <3>4. QED BY <3>1, <3>2, <3>3
  <2>2. disk' = [disk EXCEPT ![p] = f]
    BY <1>2, <2>1 DEF Appends
  <2>3. disk' \in [Paths -> File \cup {None}] /\ disk'[p] = f /\ \A q \in Paths : q # p => disk'[q] = disk[q]
    BY <2>2 DEF Shapes, TypeOK
  <2>4. f # None /\ Len(f.entries) = 1 /\ f.entries[1] = e
    BY <2>1, StoreAssumption, FileOfOne
  <2>5. Ends(p, e)
    BY <2>3, <2>4 DEF Ends
  <2>6. QED BY <1>2, <2>1, <2>3, <2>5
<1>3. QED BY <1>1, <1>2

\* What a new last entry keeps of the files there are, and of what the cache says of them.
LEMMA EndsKeeps ==
  ASSUME Shapes, Owned, Unsaid, UniqueIds, NEW p \in Paths, NEW e \in Entry, e.id = written + 1,
         Ends(p, e),
         disk' \in [Paths -> File \cup {None}], written' = written + 1,
         talk' = IF e.kind = "message" THEN [talk EXCEPT ![e.id] = p[1]] ELSE talk
  PROVE  /\ Owned' /\ Unsaid' /\ UniqueIds'
         /\ \A c : NamesAsRead(c) /\ c.last \in Nat => NamesAsRead(c)'
         /\ e.kind = "message" => e.id \in Messages(disk'[p])
<1>1. written \in Nat /\ written + 1 \in Ids /\ talk \in [Ids -> Names \cup {None}]
  BY StoreAssumption DEF Shapes, TypeOK, Ids, Entry
<1>2. PICK t, n : t = disk'[p].entries /\ n = Len(t)
  OBVIOUS
<1>3. t \in Seq(Entry) /\ t # <<>> /\ n \in Nat \ {0} /\ DOMAIN t = 1..n
  BY <1>2 DEF Ends, File
<1>4. /\ t[n] = e /\ disk'[p] # None
      /\ \A q \in Paths : q # p => disk'[q] = disk[q]
      /\ \A i \in 1..(n - 1) : /\ Exists(p) /\ i \in DOMAIN disk[p].entries /\ t[i] = disk[p].entries[i]
                               /\ SubSeq(t, 1, i) = SubSeq(disk[p].entries, 1, i)
  BY <1>2 DEF Ends
<1>5. \A q \in Paths : Exists(q) => \A i \in DOMAIN disk[q].entries :
        /\ disk[q].entries[i].id \in Ids /\ disk[q].entries[i].id <= written
        /\ disk[q].entries[i].kind = "message" => talk[disk[q].entries[i].id] = q[1]
  <2>1. \A q \in Paths : Exists(q) => \A i \in DOMAIN disk[q].entries : disk[q].entries[i].id \in Ids
    BY FileType DEF Entry
  <2>2. QED BY <2>1 DEF Owned
<1>6. \A i \in 1..n : i = n \/ i \in 1..(n - 1)
  BY <1>3
<1>7. \A i \in 1..(n - 1) : t[i].id \in Ids /\ t[i].id <= written
  BY <1>4, <1>5
<1>8. \A x \in Ids : x <= written => talk'[x] = talk[x] /\ x # written + 1
  BY <1>1 DEF Ids
<1>9. Owned'
  <2>1. ASSUME NEW q \in Paths, disk'[q] # None, NEW i \in DOMAIN disk'[q].entries
        PROVE  LET d == disk'[q].entries[i]
               IN d.id <= written + 1 /\ (d.kind = "message" => talk'[d.id] = q[1])
    <3>1. CASE q # p
      <4>1. PICK d : d = disk[q].entries[i]
        OBVIOUS
      <4>2. d.id \in Ids /\ d.id <= written /\ (d.kind = "message" => talk[d.id] = q[1]) /\ disk'[q].entries[i] = d
        BY <1>4, <1>5, <2>1, <3>1, <4>1 DEF Exists
      <4>3. d.id <= written + 1
        BY <1>1, <4>2 DEF Ids
      <4>4. QED BY <1>8, <4>2, <4>3
    <3>2. CASE q = p /\ i = n
      BY <1>1, <1>2, <1>4, <3>2
    <3>3. CASE q = p /\ i # n
      <4>1. i \in 1..(n - 1)
        BY <1>2, <1>3, <1>6, <2>1, <3>3
      <4>2. PICK d : d = disk[p].entries[i]
        OBVIOUS
      <4>3. d.id \in Ids /\ d.id <= written /\ (d.kind = "message" => talk[d.id] = p[1]) /\ disk'[q].entries[i] = d
        BY <1>2, <1>4, <1>5, <3>3, <4>1, <4>2
      <4>4. d.id <= written + 1
        BY <1>1, <4>3 DEF Ids
      <4>5. QED BY <1>8, <3>3, <4>3, <4>4
    <3>4. QED BY <3>1, <3>2, <3>3
  <2>2. QED BY <2>1 DEF Owned, Exists
<1>10. Unsaid'
  <2>1. ASSUME NEW i \in Ids, talk'[i] # None PROVE i <= written + 1
    <3>1. CASE i = written + 1
      BY <1>1, <3>1
    <3>2. CASE i # written + 1
      <4>1. talk[i] # None /\ i \in Nat
        BY <1>1, <2>1, <3>2 DEF Ids
      <4>2. QED BY <1>1, <4>1 DEF Unsaid
    <3>3. QED BY <3>1, <3>2
  <2>2. QED BY <2>1 DEF Unsaid
<1>11. UniqueIds'
  <2>1. ASSUME NEW q \in Paths, disk'[q] # None, NEW i \in DOMAIN disk'[q].entries
        PROVE  \/ q = p /\ i = n /\ disk'[q].entries[i].id = written + 1
               \/ /\ Exists(q) /\ i \in DOMAIN disk[q].entries /\ disk'[q].entries[i] = disk[q].entries[i]
                  /\ disk[q].entries[i].id # written + 1
    <3>1. CASE q # p
      BY <1>4, <1>5, <1>8, <2>1, <3>1 DEF Exists
    <3>2. CASE q = p
      BY <1>2, <1>3, <1>4, <1>5, <1>6, <1>8, <2>1, <3>2
    <3>3. QED BY <3>1, <3>2
  <2>2. ASSUME NEW q \in Paths, NEW r \in Paths, disk'[q] # None, disk'[r] # None,
               NEW i \in DOMAIN disk'[q].entries, NEW j \in DOMAIN disk'[r].entries,
               disk'[q].entries[i].id = disk'[r].entries[j].id
        PROVE  q = r /\ i = j
    <3>1. CASE q = p /\ i = n /\ disk'[q].entries[i].id = written + 1
      BY <2>1, <2>2, <3>1
    <3>2. CASE r = p /\ j = n /\ disk'[r].entries[j].id = written + 1
      BY <2>1, <2>2, <3>2
    <3>3. CASE /\ Exists(q) /\ i \in DOMAIN disk[q].entries /\ disk'[q].entries[i] = disk[q].entries[i]
               /\ Exists(r) /\ j \in DOMAIN disk[r].entries /\ disk'[r].entries[j] = disk[r].entries[j]
      BY <2>2, <3>3 DEF UniqueIds
    <3>4. QED BY <2>1, <2>2, <3>1, <3>2, <3>3
  <2>3. QED BY <2>2 DEF UniqueIds, Exists
<1>12. ASSUME NEW c, NamesAsRead(c), c.last \in Nat PROVE NamesAsRead(c)'
  <2>1. c.last <= written /\ c.last <= written + 1 /\ c.last # written + 1
    BY <1>1, <1>12 DEF NamesAsRead
  <2>2. ASSUME NEW q \in Paths, disk'[q] # None, NEW k \in DOMAIN disk'[q].entries,
               disk'[q].entries[k].id = c.last, k = c.size
        PROVE  c.name = NameOf(SubSeq(disk'[q].entries, 1, k))
    <3>1. CASE q # p
      BY <1>4, <1>12, <2>2, <3>1 DEF NamesAsRead, Exists
    <3>2. CASE q = p
      <4>1. k \in 1..(n - 1)
        BY <1>2, <1>3, <1>4, <1>6, <2>1, <2>2, <3>2
      <4>2. QED BY <1>2, <1>4, <1>12, <2>2, <3>2, <4>1 DEF NamesAsRead
    <3>3. QED BY <3>1, <3>2
  <2>3. QED BY <2>1, <2>2 DEF NamesAsRead, Exists
<1>13. ASSUME e.kind = "message" PROVE e.id \in Messages(disk'[p])
  BY <1>2, <1>3, <1>4, <1>13 DEF Messages
<1>14. QED BY <1>9, <1>10, <1>11, <1>12, <1>13

\* The files after an append are what they were, and one file ends with the new entry.  Unless
\* the file is marked as cut, the entry follows one with nothing but names after it.
LEMMA AppendsKeeps ==
  ASSUME IInv, NEW p \in Paths, NEW e \in Entry, NEW off \in BOOLEAN, Appends(p, e, off),
         e.id = written + 1, UNCHANGED cache,
         ~off => Exists(p) /\ \E i \in DOMAIN disk[p].entries :
                   /\ e.parent = disk[p].entries[i].id
                   /\ \A k \in (i + 1)..Len(disk[p].entries) : disk[p].entries[k].kind = "name"
  PROVE  /\ KeptFiles' /\ CacheIsTrue' /\ disk' \in [Paths -> File \cup {None}]
         /\ written' \in 1..MaxWrites /\ talk' \in [Ids -> Names \cup {None}] /\ deleted' \subseteq Ids /\ twice' \subseteq Names
<1>1. /\ Shapes /\ Owned /\ Unsaid /\ OnePerName /\ UniqueIds /\ NothingIsLost /\ Chained /\ CacheIsTrue
      /\ p[1] \in Names
  BY DEF IInv, KeptFiles, Paths
<1>2. /\ written < MaxWrites /\ written' = e.id /\ deleted' = deleted
      /\ talk' = IF e.kind = "message" THEN [talk EXCEPT ![e.id] = p[1]] ELSE talk
      /\ twice' = IF ~Exists(p) /\ Namesakes(p) THEN twice \cup {p[1]} ELSE twice
  BY DEF Appends
<1>3. /\ disk' \in [Paths -> File \cup {None}] /\ Ends(p, e)
      /\ Exists(p) => /\ disk'[p].entries = Append(disk[p].entries, e)
                      /\ disk'[p].cut <=> disk[p].cut \/ off
      /\ ~Exists(p) => disk'[p].cut = off
  BY <1>1, AppendsEnds
<1>4. /\ Owned' /\ Unsaid' /\ UniqueIds'
      /\ \A c : NamesAsRead(c) /\ c.last \in Nat => NamesAsRead(c)'
      /\ e.kind = "message" => e.id \in Messages(disk'[p])
  BY <1>1, <1>2, <1>3, EndsKeeps
<1>5. /\ written' \in 1..MaxWrites /\ talk' \in [Ids -> Names \cup {None}] /\ deleted' \subseteq Ids
      /\ twice' \subseteq Names /\ written \in Nat /\ talk \in [Ids -> Names \cup {None}] /\ written + 1 \in Ids
  BY <1>1, <1>2, StoreAssumption DEF Shapes, TypeOK, Ids
<1>6. twice \subseteq twice' /\ disk'[p] # None /\ \A q \in Paths : q # p => disk'[q] = disk[q]
  BY <1>2, <1>3 DEF Ends
<1>7. OnePerName'
  <2>1. ASSUME NEW q \in Paths, NEW r \in Paths, q # r, q[1] = r[1], disk'[q] # None,
               disk'[r] # None
        PROVE  q[1] \in twice'
    <3>1. CASE Exists(q) /\ Exists(r)
      BY <1>1, <1>6, <2>1, <3>1 DEF OnePerName
    <3>2. CASE ~Exists(q)
      <4>1. q = p /\ Exists(r)
        BY <1>6, <2>1, <3>2 DEF Exists
      <4>2. QED BY <1>2, <2>1, <3>2, <4>1 DEF Namesakes
    <3>3. CASE ~Exists(r)
      <4>1. r = p /\ Exists(q)
        BY <1>6, <2>1, <3>3 DEF Exists
      <4>2. QED BY <1>2, <2>1, <3>3, <4>1 DEF Namesakes
    <3>4. QED BY <3>1, <3>2, <3>3
  <2>2. QED BY <2>1 DEF OnePerName, Exists
<1>8. NothingIsLost'
  <2>1. \A q \in Paths : Exists(q) => disk'[q] # None /\ Messages(disk[q]) \subseteq Messages(disk'[q])
    <3>1. ASSUME Exists(p) PROVE Messages(disk[p]) \subseteq Messages(disk'[p])
      <4>1. PICK s, t : s = disk[p].entries /\ t = disk'[p].entries
        OBVIOUS
      <4>2. s \in Seq(Entry) /\ DOMAIN s = 1..Len(s) /\ t = Append(s, e)
        BY <1>1, <1>3, <3>1, <4>1, FileType
      <4>3. DOMAIN s \subseteq DOMAIN t /\ \A i \in DOMAIN s : t[i] = s[i]
        BY <4>2
      <4>4. QED BY <4>1, <4>3 DEF Messages
    <3>2. QED BY <1>6, <3>1 DEF Exists
  <2>2. ASSUME NEW i \in 1..(written + 1), talk'[i] # None
        PROVE  i \in deleted' \/ talk'[i] \in twice' \/ \E q \in Paths : disk'[q] # None /\ i \in Messages(disk'[q])
    <3>1. i \in Ids
      <4>1. MaxWrites \in Nat /\ written + 1 <= MaxWrites
        BY <1>5, StoreAssumption DEF Ids
      <4>2. QED BY <1>5, <2>2, <4>1 DEF Ids
    <3>2. CASE i = written + 1
      <4>1. CASE e.kind = "message"
        BY <1>4, <1>6, <3>2, <4>1
      <4>2. CASE e.kind # "message"
        <5>1. talk[written + 1] # None
          BY <1>2, <2>2, <3>2, <4>2
        <5>2. QED BY <1>1, <1>5, <5>1 DEF Unsaid
      <4>3. QED BY <4>1, <4>2
    <3>3. CASE i # written + 1
      <4>1. i \in 1..written /\ talk'[i] = talk[i]
        BY <1>2, <1>5, <2>2, <3>1, <3>3
      <4>2. i \in deleted \/ talk[i] \in twice \/ \E q \in Paths : Exists(q) /\ i \in Messages(disk[q])
        BY <1>1, <2>2, <4>1 DEF NothingIsLost
      <4>3. QED BY <1>2, <1>6, <2>1, <4>1, <4>2
    <3>4. QED BY <3>2, <3>3
  <2>3. QED BY <1>2, <2>2 DEF NothingIsLost, Exists
<1>9. Chained'
  <2>1. ASSUME disk'[p].cut = FALSE PROVE Linked(disk'[p].entries)
    <3>1. Exists(p) /\ ~off /\ ~disk[p].cut
      <4>1. off \/ Exists(p)
        OBVIOUS
      <4>2. ~Exists(p) => disk'[p].cut = off
        BY <1>3
      <4>3. Exists(p)
        BY <2>1, <4>1, <4>2
      <4>4. QED BY <1>3, <2>1, <4>3
    <3>2. PICK s, t : s = disk[p].entries /\ t = disk'[p].entries
      OBVIOUS
    <3>3. s \in Seq(Entry) /\ t = Append(s, e) /\ Linked(s) /\ DOMAIN s = 1..Len(s) /\ Len(s) \in Nat
      BY <1>1, <1>3, <3>1, <3>2, FileType DEF Chained
    <3>4. PICK i \in 1..Len(s) : e.parent = s[i].id /\ \A k \in (i + 1)..Len(s) : s[k].kind = "name"
      BY <3>1, <3>2, <3>3
    <3>5. Len(t) = Len(s) + 1 /\ t[Len(s) + 1] = e /\ \A k \in 1..Len(s) : t[k] = s[k]
      BY <3>3, AppendKeepsEntries
    <3>6. ASSUME NEW j \in 2..Len(t)
          PROVE  \E k \in 1..(j - 1) : t[j].parent = t[k].id /\ \A m \in (k + 1)..(j - 1) : t[m].kind = "name"
      <4>1. CASE j = Len(t)
        <5>1. i \in 1..(j - 1) /\ t[j].parent = t[i].id
          BY <3>3, <3>4, <3>5, <4>1
        <5>2. \A m \in (i + 1)..(j - 1) : m \in (i + 1)..Len(s) /\ m \in 1..Len(s)
          BY <3>3, <3>5, <4>1
        <5>3. \A m \in (i + 1)..(j - 1) : t[m].kind = "name"
          BY <3>4, <3>5, <5>2
        <5>4. QED BY <5>1, <5>3
      <4>2. CASE j # Len(t)
        <5>1. j \in 2..Len(s)
          BY <3>3, <3>5, <4>2
        <5>2. PICK k \in 1..(j - 1) : s[j].parent = s[k].id /\ \A m \in (k + 1)..(j - 1) : s[m].kind = "name"
          BY <3>3, <5>1 DEF Linked
        <5>3. j \in 1..Len(s) /\ k \in 1..Len(s) /\ \A m \in (k + 1)..(j - 1) : m \in 1..Len(s)
          BY <3>3, <5>1, <5>2
        <5>4. QED BY <3>5, <5>2, <5>3
      <4>3. QED BY <4>1, <4>2
    <3>7. QED BY <3>2, <3>6 DEF Linked
  <2>2. disk'[p].cut \in BOOLEAN
    BY <1>3 DEF Ends, File
  <2>3. QED BY <1>1, <1>6, <2>1, <2>2 DEF Chained, Exists
<1>10. CacheIsTrue'
  <2>1. ASSUME NEW q \in Paths, cache[q] # None, cache[q].sound PROVE NamesAsRead(cache[q])'
    <3>1. PICK c : c = cache[q]
      OBVIOUS
    <3>2. NamesAsRead(c) /\ c.last \in Nat
      BY <1>1, <2>1, <3>1 DEF CacheIsTrue, Shapes, TypeOK, Ids
    <3>3. NamesAsRead(c)'
      BY <1>4, <3>2
    <3>4. cache'[q] = cache[q]
      OBVIOUS
    <3>5. QED BY <3>1, <3>3, <3>4 DEF NamesAsRead
  <2>2. QED BY <2>1 DEF CacheIsTrue, NamesAsRead
<1>11. QED BY <1>3, <1>4, <1>5, <1>7, <1>8, <1>9, <1>10 DEF KeptFiles


LEMMA CacheStays ==
  ASSUME CacheIsTrue, Shapes, UNCHANGED cache,
         \A c : NamesAsRead(c) /\ c.last \in Nat => NamesAsRead(c)'
  PROVE  CacheIsTrue'
<1>1. ASSUME NEW q \in Paths, cache[q] # None, cache[q].sound PROVE NamesAsRead(cache[q])'
  <2>1. PICK c : c = cache[q]
    OBVIOUS
  <2>2. NamesAsRead(c) /\ c.last \in Nat
    BY <1>1, <2>1 DEF CacheIsTrue, Shapes, TypeOK, Ids
  <2>3. NamesAsRead(c)'
    BY <2>2
  <2>4. cache'[q] = cache[q]
    OBVIOUS
  <2>5. QED BY <2>1, <2>3, <2>4 DEF NamesAsRead
<1>2. QED BY <1>1 DEF CacheIsTrue, NamesAsRead

\* An import puts a new file under a name that was free; whatever took the name meanwhile is lost.
LEMMA ImportEndsKeeps ==
  ASSUME IInv, NEW w \in Windows, ImportEnds(w)
  PROVE  IInv'
<1>1. /\ Shapes /\ Owned /\ Unsaid /\ OnePerName /\ UniqueIds /\ NothingIsLost /\ Chained /\ CacheIsTrue
      /\ NameWasFree
  BY DEF IInv, KeptFiles
<1>2. PICK p \in Paths : p = <<importing[w].name, 0>> /\ p[1] \in Names
  <2>1. importing[w].name \in Names /\ 0 \in 0..MaxDepth
    BY <1>1, StoreAssumption DEF ImportEnds, Shapes, TypeOK
  <2>2. PICK n \in Names : n = importing[w].name
    BY <2>1
  <2>3. <<n, 0>> \in Paths /\ <<n, 0>>[1] = n
    BY <2>1 DEF Paths
  <2>4. QED BY <2>2, <2>3
<1>3. written < MaxWrites /\ written' = written + 1 /\ written \in Nat /\ written + 1 \in Ids /\ written' \in 1..MaxWrites
  BY <1>1, StoreAssumption DEF ImportEnds, Shapes, TypeOK, Ids
<1>4. PICK e \in Entry : e = Message(written + 1, None, FALSE) /\ e.id = written + 1 /\ e.kind = "message"
  <2>1. PICK none \in Ids \cup {None}, huge \in BOOLEAN : none = None /\ huge = FALSE
    OBVIOUS
  <2>2. /\ Message(written + 1, none, huge) \in Entry /\ Message(written + 1, none, huge).id = written + 1
        /\ Message(written + 1, none, huge).kind = "message"
    BY <1>3, MessageTypes
  <2>3. QED BY <2>1, <2>2
<1>5. PICK f \in File : f = FileOf(e) /\ f.entries = <<e>> /\ f.cut = FALSE /\ f # None /\ Linked(f.entries)
                        /\ Len(f.entries) = 1 /\ f.entries[1] = e /\ DOMAIN f.entries = 1..1
  <2>1. FileOf(e) \in File /\ FileOf(e).entries = <<e>> /\ FileOf(e).cut = FALSE /\ FileOf(e) # None
    BY FileOfOne
  <2>2. Linked(<<e>>) /\ Len(<<e>>) = 1 /\ <<e>>[1] = e /\ DOMAIN <<e>> = 1..1
    BY FileOfOne
  <2>3. QED BY <2>1, <2>2
<1>6. /\ disk' = [disk EXCEPT ![p] = f] /\ talk' = [talk EXCEPT ![e.id] = p[1]]
      /\ twice' = IF Namesakes(p) \/ (importing[w].free /\ Exists(p)) THEN twice \cup {p[1]} ELSE twice
      /\ importing' = [importing EXCEPT ![w] = None] /\ importing[w].free
      /\ UNCHANGED <<deleted, piVars, renaming, lists, cache, troubles, used>>
  BY <1>1, <1>2, <1>3, <1>4, <1>5 DEF ImportEnds, NameWasFree
<1>7. /\ disk' \in [Paths -> File \cup {None}] /\ disk'[p] = f
      /\ \A q \in Paths : q # p => disk'[q] = disk[q]
      /\ twice \subseteq twice' /\ twice' \subseteq Names /\ talk' \in [Ids -> Names \cup {None}]
      /\ talk \in [Ids -> Names \cup {None}] /\ deleted' \subseteq Ids
  BY <1>1, <1>2, <1>3, <1>4, <1>6 DEF Shapes, TypeOK
<1>8. Ends(p, e)
  <2>1. Len(disk'[p].entries) = 1 /\ disk'[p].entries[1] = e /\ 1..(1 - 1) = {}
    BY <1>5, <1>7
  <2>2. QED BY <1>5, <1>7, <2>1 DEF Ends
<1>9. /\ Owned' /\ Unsaid' /\ UniqueIds'
      /\ \A c : NamesAsRead(c) /\ c.last \in Nat => NamesAsRead(c)'
      /\ e.id \in Messages(disk'[p])
  BY <1>1, <1>3, <1>4, <1>6, <1>7, <1>8, EndsKeeps
<1>10. OnePerName'
  <2>1. ASSUME NEW q \in Paths, NEW r \in Paths, q # r, q[1] = r[1], disk'[q] # None,
               disk'[r] # None
        PROVE  q[1] \in twice'
    <3>1. CASE q # p /\ r # p
      BY <1>1, <1>7, <2>1, <3>1 DEF OnePerName, Exists
    <3>2. CASE q = p
      BY <1>6, <1>7, <2>1, <3>2 DEF Namesakes, Exists
    <3>3. CASE r = p
      BY <1>6, <1>7, <2>1, <3>3 DEF Namesakes, Exists
    <3>4. QED BY <3>1, <3>2, <3>3
  <2>2. QED BY <2>1 DEF OnePerName, Exists
<1>11. NothingIsLost'
  <2>1. ASSUME NEW i \in 1..(written + 1), talk'[i] # None
        PROVE  i \in deleted' \/ talk'[i] \in twice' \/ \E q \in Paths : disk'[q] # None /\ i \in Messages(disk'[q])
    <3>1. CASE i = written + 1
      BY <1>4, <1>5, <1>7, <1>9, <3>1
    <3>2. CASE i # written + 1
      <4>1. i \in 1..written /\ i \in Ids
        <5>1. MaxWrites \in Nat /\ written + 1 <= MaxWrites
          BY <1>3, StoreAssumption DEF Ids
        <5>2. QED BY <1>3, <2>1, <3>2, <5>1 DEF Ids
      <4>2. talk'[i] = talk[i]
        BY <1>4, <1>6, <1>7, <3>2, <4>1
      <4>3. CASE i \in deleted \/ talk[i] \in twice
        BY <1>6, <1>7, <4>2, <4>3
      <4>4. ASSUME NEW q \in Paths, Exists(q), i \in Messages(disk[q])
            PROVE  talk'[i] \in twice' \/ \E r \in Paths : disk'[r] # None /\ i \in Messages(disk'[r])
        <5>1. CASE q # p
          BY <1>7, <4>4, <5>1 DEF Exists
        <5>2. CASE q = p
          <6>1. talk[i] = p[1]
            BY <1>1, <4>4, <5>2 DEF Owned, Messages
          <6>2. QED BY <1>6, <4>2, <4>4, <5>2, <6>1
        <5>3. QED BY <5>1, <5>2
      <4>5. QED BY <1>1, <2>1, <4>1, <4>2, <4>3, <4>4 DEF NothingIsLost
    <3>3. QED BY <3>1, <3>2
  <2>2. QED BY <1>3, <2>1 DEF NothingIsLost, Exists
<1>12. Chained'
  BY <1>1, <1>5, <1>7 DEF Chained, Exists
<1>13. CacheIsTrue'
  BY <1>1, <1>6, <1>9, CacheStays
<1>14. Shapes' /\ NameWasFree'
  <2>1. \A v \in Windows : v # w => importing'[v] = importing[v]
    BY <1>6
  <2>2. importing'[w] = None /\ DOMAIN importing' = Windows
    BY <1>1, <1>6 DEF Shapes
  <2>3. TypeOK'
    BY <1>1, <1>3, <1>6, <1>7, <2>1, <2>2 DEF Shapes, TypeOK, piVars
  <2>4. QED BY <1>1, <1>6, <2>1, <2>2, <2>3 DEF Shapes, NameWasFree
<1>15. QED BY <1>9, <1>10, <1>11, <1>12, <1>13, <1>14 DEF IInv, KeptFiles

\* Only what is deleted goes.
LEMMA DeleteKeeps ==
  ASSUME IInv, NEW w \in Windows, NEW p \in Paths, Delete(w, p)
  PROVE  IInv'
<1>1. /\ Shapes /\ Owned /\ Unsaid /\ OnePerName /\ UniqueIds /\ NothingIsLost /\ Chained /\ CacheIsTrue
      /\ NameWasFree
  BY DEF IInv, KeptFiles
<1>2. /\ Exists(p) /\ disk' = [disk EXCEPT ![p] = None] /\ deleted' = deleted \cup Messages(disk[p])
      /\ UNCHANGED <<talk, twice, piVars, jobVars, lists, cache, written, troubles>> /\ Asks
  BY DEF Delete
<1>3. /\ disk' \in [Paths -> File \cup {None}] /\ disk'[p] = None
      /\ \A q \in Paths : q # p => disk'[q] = disk[q]
  BY <1>1, <1>2 DEF Shapes, TypeOK
<1>4. \A q \in Paths : disk'[q] # None => disk'[q] = disk[q] /\ Exists(q)
  BY <1>3 DEF Exists
<1>5. Owned' /\ Unsaid' /\ OnePerName' /\ UniqueIds' /\ Chained'
  BY <1>1, <1>2, <1>4 DEF Owned, Unsaid, OnePerName, UniqueIds, Chained, Exists
<1>6. NothingIsLost'
  <2>1. ASSUME NEW i \in 1..written, talk[i] # None
        PROVE  i \in deleted' \/ talk[i] \in twice \/ \E q \in Paths : disk'[q] # None /\ i \in Messages(disk'[q])
    <3>1. i \in deleted \/ talk[i] \in twice \/ \E q \in Paths : Exists(q) /\ i \in Messages(disk[q])
      BY <1>1, <2>1 DEF NothingIsLost
    <3>2. ASSUME NEW q \in Paths, Exists(q), i \in Messages(disk[q])
          PROVE  i \in deleted' \/ (disk'[q] # None /\ i \in Messages(disk'[q]))
      BY <1>2, <1>3, <3>2 DEF Exists
    <3>3. QED BY <1>2, <3>1, <3>2
  <2>2. QED BY <1>2, <2>1 DEF NothingIsLost, Exists
<1>7. \A c : NamesAsRead(c) => NamesAsRead(c)'
  BY <1>2, <1>4 DEF NamesAsRead, Exists
<1>8. CacheIsTrue'
  BY <1>1, <1>2, <1>7, CacheStays
<1>9. Shapes' /\ NameWasFree'
  <2>1. Messages(disk[p]) \subseteq Ids
    BY <1>1, <1>2, FileType DEF Messages, Entry
  <2>2. used' \in [asked : 0..MaxAsked, opened : 0..MaxOpened, listed : 0..MaxListed]
    BY <1>1, <1>2, StoreAssumption DEF Asks, Uses, Shapes, TypeOK
  <2>3. TypeOK'
    BY <1>1, <1>2, <1>3, <2>1, <2>2 DEF Shapes, TypeOK, piVars, jobVars
  <2>4. QED BY <1>1, <1>2, <2>3 DEF Shapes, NameWasFree, jobVars
<1>10. QED BY <1>5, <1>6, <1>8, <1>9 DEF IInv, KeptFiles

\* A file that replaces another one of its name loses only what two files of one name may lose.
LEMMA MoveKeeps ==
  ASSUME IInv, NEW p \in Paths, NEW q \in Paths, p # q, p[1] = q[1], Move(p, q)
  PROVE  IInv'
<1>1. /\ Shapes /\ Owned /\ Unsaid /\ OnePerName /\ UniqueIds /\ NothingIsLost /\ Chained /\ CacheIsTrue
      /\ NameWasFree
  BY DEF IInv, KeptFiles
<1>2. /\ Exists(p) /\ disk' = [disk EXCEPT ![q] = disk[p], ![p] = None]
      /\ UNCHANGED <<talk, deleted, twice, piVars, jobVars, lists, cache, written, troubles>> /\ Asks
  BY DEF Move
<1>3. /\ disk' \in [Paths -> File \cup {None}] /\ disk'[p] = None /\ disk'[q] = disk[p]
      /\ \A r \in Paths : r # p /\ r # q => disk'[r] = disk[r]
  BY <1>1, <1>2 DEF Shapes, TypeOK
<1>4. ASSUME NEW r \in Paths, disk'[r] # None
      PROVE  \/ r = q /\ disk'[r] = disk[p]
             \/ r # p /\ r # q /\ disk'[r] = disk[r] /\ Exists(r)
  BY <1>3, <1>4 DEF Exists
<1>5. Owned' /\ Unsaid' /\ Chained'
  <2>1. Unsaid'
    BY <1>1, <1>2 DEF Unsaid
  <2>2. \A r \in Paths : disk'[r] # None => \E t \in Paths : Exists(t) /\ disk'[r] = disk[t] /\ t[1] = r[1]
    BY <1>2, <1>4
  <2>3. Owned'
    <3>1. ASSUME NEW r \in Paths, disk'[r] # None, NEW i \in DOMAIN disk'[r].entries
          PROVE  LET d == disk'[r].entries[i]
                 IN d.id <= written /\ (d.kind = "message" => talk[d.id] = r[1])
      <4>1. PICK t \in Paths : Exists(t) /\ disk'[r] = disk[t] /\ t[1] = r[1]
        BY <2>2, <3>1
      <4>2. PICK d : d = disk[t].entries[i] /\ d = disk'[r].entries[i] /\ i \in DOMAIN disk[t].entries
        BY <3>1, <4>1
      <4>3. d.id <= written /\ (d.kind = "message" => talk[d.id] = t[1])
        BY <1>1, <4>1, <4>2 DEF Owned
      <4>4. QED BY <4>1, <4>2, <4>3
    <3>2. QED BY <1>2, <3>1 DEF Owned, Exists
  <2>4. Chained'
    BY <1>1, <2>2 DEF Chained, Exists
  <2>5. QED BY <2>1, <2>3, <2>4
<1>6. OnePerName'
  <2>1. ASSUME NEW r \in Paths, NEW t \in Paths, r # t, r[1] = t[1], disk'[r] # None,
               disk'[t] # None
        PROVE  r[1] \in twice
    <3>1. CASE r = q
      BY <1>1, <1>2, <1>4, <2>1, <3>1 DEF OnePerName
    <3>2. CASE t = q
      BY <1>1, <1>2, <1>4, <2>1, <3>2 DEF OnePerName
    <3>3. CASE r # q /\ t # q
      BY <1>1, <1>4, <2>1, <3>3 DEF OnePerName
    <3>4. QED BY <3>1, <3>2, <3>3
  <2>2. QED BY <1>2, <2>1 DEF OnePerName, Exists
<1>7. UniqueIds'
  <2>1. ASSUME NEW r \in Paths, NEW t \in Paths, disk'[r] # None, disk'[t] # None,
               NEW i \in DOMAIN disk'[r].entries, NEW j \in DOMAIN disk'[t].entries,
               disk'[r].entries[i].id = disk'[t].entries[j].id
        PROVE  r = t /\ i = j
    <3>1. PICK a \in Paths : Exists(a) /\ disk'[r] = disk[a] /\ (a = p <=> r = q) /\ (a # p => a = r)
      BY <1>2, <1>4, <2>1
    <3>2. PICK b \in Paths : Exists(b) /\ disk'[t] = disk[b] /\ (b = p <=> t = q) /\ (b # p => b = t)
      BY <1>2, <1>4, <2>1
    <3>3. a = b /\ i = j
      BY <1>1, <2>1, <3>1, <3>2 DEF UniqueIds
    <3>4. QED BY <3>1, <3>2, <3>3
  <2>2. QED BY <2>1 DEF UniqueIds, Exists
<1>8. NothingIsLost'
  <2>1. ASSUME NEW i \in 1..written, talk[i] # None
        PROVE  i \in deleted \/ talk[i] \in twice \/ \E r \in Paths : disk'[r] # None /\ i \in Messages(disk'[r])
    <3>1. i \in deleted \/ talk[i] \in twice \/ \E r \in Paths : Exists(r) /\ i \in Messages(disk[r])
      BY <1>1, <2>1 DEF NothingIsLost
    <3>2. ASSUME NEW r \in Paths, Exists(r), i \in Messages(disk[r])
          PROVE  talk[i] \in twice \/ \E t \in Paths : disk'[t] # None /\ i \in Messages(disk'[t])
      <4>1. CASE r = p
        BY <1>3, <3>2, <4>1 DEF Exists
      <4>2. CASE r = q
        <5>1. talk[i] = q[1]
          BY <1>1, <3>2, <4>2 DEF Owned, Messages
        <5>2. QED BY <1>1, <1>2, <3>2, <4>2, <5>1 DEF OnePerName
      <4>3. CASE r # p /\ r # q
        BY <1>3, <3>2, <4>3 DEF Exists
      <4>4. QED BY <4>1, <4>2, <4>3
    <3>3. QED BY <3>1, <3>2
  <2>2. QED BY <1>2, <2>1 DEF NothingIsLost, Exists
<1>9. \A c : NamesAsRead(c) => NamesAsRead(c)'
  <2>1. \A r \in Paths : disk'[r] # None => \E t \in Paths : Exists(t) /\ disk'[r] = disk[t]
    BY <1>2, <1>4
  <2>2. ASSUME NEW c, NamesAsRead(c) PROVE NamesAsRead(c)'
    <3>1. ASSUME NEW r \in Paths, disk'[r] # None, NEW k \in DOMAIN disk'[r].entries,
                 disk'[r].entries[k].id = c.last, k = c.size
          PROVE  c.name = NameOf(SubSeq(disk'[r].entries, 1, k))
      BY <2>1, <2>2, <3>1 DEF NamesAsRead
    <3>2. c.last <= written'
      BY <1>2, <2>2 DEF NamesAsRead
    <3>3. QED BY <3>1, <3>2 DEF NamesAsRead, Exists
  <2>3. QED BY <2>2
<1>10. CacheIsTrue'
  BY <1>1, <1>2, <1>9, CacheStays
<1>11. Shapes' /\ NameWasFree'
  <2>1. used' \in [asked : 0..MaxAsked, opened : 0..MaxOpened, listed : 0..MaxListed]
    BY <1>1, <1>2, StoreAssumption DEF Asks, Uses, Shapes, TypeOK
  <2>2. TypeOK'
    BY <1>1, <1>2, <1>3, <2>1 DEF Shapes, TypeOK, piVars, jobVars
  <2>3. QED BY <1>1, <1>2, <2>2 DEF Shapes, NameWasFree, jobVars
<1>12. QED BY <1>5, <1>6, <1>7, <1>8, <1>10, <1>11 DEF IInv, KeptFiles


--------------------------------------------------------------------------------
\* The steps that append

\* A pi goes on from its last entry; if that is not the last of its file but for names, the file
\* is marked as cut.
LEMMA PiWritesKeeps ==
  ASSUME IInv, NEW w \in Windows, NEW e \in Entry, e.id = written + 1, e.parent = leaf[w],
         PiWrites(w, e),
         troubles' \in 0..MaxTroubles
  PROVE  IInv'
<1>1. Shapes /\ NameWasFree
  BY DEF IInv
<1>2. PICK p \in Paths, off \in BOOLEAN : p = drives[w] /\ off = Displaced(w) /\ Appends(p, e, off)
  BY <1>1 DEF PiWrites, Displaced, Shapes, TypeOK
<1>3. ASSUME ~off
      PROVE  Exists(p) /\ \E i \in DOMAIN disk[p].entries :
               /\ e.parent = disk[p].entries[i].id
               /\ \A k \in (i + 1)..Len(disk[p].entries) : disk[p].entries[k].kind = "name"
  BY <1>2, <1>3 DEF Displaced
<1>4. leaf' = [leaf EXCEPT ![w] = e.id] /\ UNCHANGED <<drives, jobVars, lists, cache, used>>
  BY DEF PiWrites
<1>5. /\ KeptFiles' /\ CacheIsTrue' /\ disk' \in [Paths -> File \cup {None}]
      /\ written' \in 1..MaxWrites /\ talk' \in [Ids -> Names \cup {None}] /\ deleted' \subseteq Ids /\ twice' \subseteq Names
  BY <1>2, <1>3, <1>4, AppendsKeeps
<1>6. leaf' \in [Windows -> Ids \cup {None}]
  BY <1>1, <1>4 DEF Shapes, TypeOK, Entry
<1>7. Shapes' /\ NameWasFree'
  <2>1. TypeOK'
    BY <1>1, <1>4, <1>5, <1>6 DEF Shapes, TypeOK, jobVars
  <2>2. QED BY <1>1, <1>4, <2>1 DEF Shapes, NameWasFree, jobVars
<1>8. QED BY <1>5, <1>7 DEF IInv

LEMMA NextId ==
  ASSUME IInv, written < MaxWrites
  PROVE  written + 1 \in Ids
BY StoreAssumption DEF IInv, Shapes, TypeOK, Ids

LEMMA PiSaysKeeps ==
  ASSUME IInv, NEW w \in Windows, NEW huge \in BOOLEAN, PiSays(w, huge) \/ RenameCurrent(w)
  PROVE  IInv'
<1>1. written + 1 \in Ids
  BY NextId DEF PiSays, RenameCurrent, PiWrites, Appends
<1>2. PICK n, l : n = written + 1 /\ l = leaf[w] /\ n \in Ids /\ l \in Ids \cup {None}
  BY <1>1 DEF IInv, Shapes, TypeOK
<1>3. /\ Message(n, l, huge) \in Entry /\ Message(n, l, huge).id = n /\ Message(n, l, huge).parent = l
      /\ Info(n, l) \in Entry /\ Info(n, l).id = n /\ Info(n, l).parent = l
  BY <1>2, MessageTypes
<1>4. troubles' \in 0..MaxTroubles
  BY StoreAssumption DEF PiSays, RenameCurrent, IInv, Shapes, TypeOK
<1>5. CASE PiSays(w, huge)
  <2>1. PICK e \in Entry : e = Message(n, l, huge)
    BY <1>3
  <2>2. PiWrites(w, e) /\ e.id = written + 1 /\ e.parent = leaf[w]
    BY <1>2, <1>3, <1>5, <2>1 DEF PiSays
  <2>3. QED BY <1>4, <2>2, PiWritesKeeps
<1>6. CASE RenameCurrent(w)
  <2>1. PICK e \in Entry : e = Info(n, l)
    BY <1>3
  <2>2. PiWrites(w, e) /\ e.id = written + 1 /\ e.parent = leaf[w]
    BY <1>2, <1>3, <1>6, <2>1 DEF RenameCurrent
  <2>3. QED BY <1>4, <2>2, PiWritesKeeps
<1>7. QED BY <1>5, <1>6

\* A rename chains its entry to the last one it knew of; if that is no longer the last one, the file
\* is marked as cut.
LEMMA RenameEndsKeeps ==
  ASSUME IInv, NEW w \in Windows, RenameEnds(w)
  PROVE  IInv'
<1>1. Shapes /\ NameWasFree
  BY DEF IInv
<1>2. written + 1 \in Ids
  BY NextId DEF RenameEnds, Appends
<1>3. PICK p \in Paths, l \in Ids \cup {None} : p = renaming[w].path /\ l = renaming[w].parent
  BY <1>1 DEF RenameEnds, Shapes, TypeOK
<1>4. PICK e \in Entry : e = Info(written + 1, l) /\ e.id = written + 1 /\ e.parent = l
  <2>1. PICK n \in Ids : n = written + 1
    BY <1>2
  <2>2. Info(n, l) \in Entry /\ Info(n, l).id = n /\ Info(n, l).parent = l
    BY MessageTypes
  <2>3. QED BY <2>1, <2>2
<1>5. PICK off \in BOOLEAN : off = (~Exists(p) \/ l # Last(disk[p]).id)
  OBVIOUS
<1>6. Appends(p, e, off)
  <2>1. Appends(p, e, ~Exists(p) \/ l # Last(disk[p]).id)
    BY <1>3, <1>4 DEF RenameEnds
  <2>2. QED BY <1>5, <2>1
<1>7. ASSUME ~off
      PROVE  Exists(p) /\ \E i \in DOMAIN disk[p].entries :
               /\ e.parent = disk[p].entries[i].id
               /\ \A k \in (i + 1)..Len(disk[p].entries) : disk[p].entries[k].kind = "name"
  <2>1. Exists(p) /\ l = Last(disk[p]).id
    BY <1>5, <1>7
  <2>2. PICK n \in Nat \ {0} : n = Len(disk[p].entries) /\ DOMAIN disk[p].entries = 1..n
    BY <1>1, <2>1, FileType
  <2>3. n \in DOMAIN disk[p].entries /\ e.parent = disk[p].entries[n].id /\ (n + 1)..n = {}
    BY <1>4, <2>1, <2>2 DEF Last
  <2>4. QED BY <2>1, <2>2, <2>3
<1>8. renaming' = [renaming EXCEPT ![w] = None] /\ UNCHANGED <<piVars, importing, lists, cache, troubles, used>>
  BY DEF RenameEnds
<1>9. /\ KeptFiles' /\ CacheIsTrue' /\ disk' \in [Paths -> File \cup {None}]
      /\ written' \in 1..MaxWrites /\ talk' \in [Ids -> Names \cup {None}] /\ deleted' \subseteq Ids /\ twice' \subseteq Names
  BY <1>4, <1>6, <1>7, <1>8, AppendsKeeps
<1>10. Shapes' /\ NameWasFree'
  <2>1. renaming'[w] = None /\ DOMAIN renaming' = Windows /\ \A v \in Windows : v # w => renaming'[v] = renaming[v]
    BY <1>1, <1>8 DEF Shapes
  <2>2. TypeOK'
    BY <1>1, <1>8, <1>9, <2>1 DEF Shapes, TypeOK, piVars
  <2>3. QED BY <1>1, <1>8, <2>1, <2>2 DEF Shapes, NameWasFree
<1>11. QED BY <1>9, <1>10 DEF IInv


--------------------------------------------------------------------------------
\* The steps that write to no file

LEMMA FilesStay ==
  ASSUME KeptFiles, UNCHANGED <<fileVars, written>>
  PROVE  KeptFiles'
BY DEF fileVars, KeptFiles, Owned, Unsaid, OnePerName, UniqueIds, NothingIsLost, Chained, Exists

LEMMA NamesStay ==
  ASSUME UNCHANGED <<fileVars, written>>
  PROVE  \A c : NamesAsRead(c) <=> NamesAsRead(c)'
BY DEF fileVars, NamesAsRead, Exists

LEMMA QuietKeeps ==
  ASSUME IInv, UNCHANGED <<fileVars, cache, written, lists, troubles>>,
         drives' \in [Windows -> Paths \cup {None}], leaf' \in [Windows -> Ids \cup {None}],
         DOMAIN renaming' = Windows, DOMAIN importing' = Windows,
         \A w \in Windows : renaming'[w] # None => renaming'[w] \in [path : Paths, parent : Ids \cup {None}],
         \A w \in Windows : importing'[w] # None => importing'[w] \in [name : Names, free : BOOLEAN] /\ importing'[w].free,
         used' \in [asked : 0..MaxAsked, opened : 0..MaxOpened, listed : 0..MaxListed]
  PROVE  IInv'
<1>1. KeptFiles'
  BY FilesStay DEF IInv
<1>2. CacheIsTrue'
  BY NamesStay, CacheStays DEF IInv
<1>3. Shapes' /\ NameWasFree'
  BY DEF IInv, Shapes, TypeOK, NameWasFree, fileVars
<1>4. QED BY <1>1, <1>2, <1>3 DEF IInv

LEMMA UsesCounts ==
  ASSUME IInv, Uses("opened", MaxOpened) \/ Uses("listed", MaxListed) \/ Asks
  PROVE  used' \in [asked : 0..MaxAsked, opened : 0..MaxOpened, listed : 0..MaxListed]
BY StoreAssumption DEF IInv, Shapes, TypeOK, Uses, Asks

LEMMA PiMovesKeeps ==
  ASSUME IInv, NEW w \in Windows, PiLeaves(w) \/ \E p \in Paths : PiOpens(w, p)
  PROVE  IInv'
<1>1. UNCHANGED <<fileVars, jobVars, lists, cache, written, troubles>>
  BY DEF PiLeaves, PiOpens
<1>2. used' \in [asked : 0..MaxAsked, opened : 0..MaxOpened, listed : 0..MaxListed]
  BY UsesCounts DEF PiLeaves, PiOpens, IInv, Shapes, TypeOK
<1>3. drives' \in [Windows -> Paths \cup {None}] /\ leaf' \in [Windows -> Ids \cup {None}]
  <2>1. CASE PiLeaves(w)
    BY <2>1 DEF PiLeaves, IInv, Shapes, TypeOK
  <2>2. ASSUME NEW p \in Paths, PiOpens(w, p)
        PROVE  drives' \in [Windows -> Paths \cup {None}] /\ leaf' \in [Windows -> Ids \cup {None}]
    <3>1. Last(disk[p]).id \in Ids
      BY <2>2, FileType DEF PiOpens, Entry, IInv
    <3>2. QED BY <2>2, <3>1 DEF PiOpens, IInv, Shapes, TypeOK
  <2>3. QED BY <2>1, <2>2
<1>4. /\ DOMAIN renaming' = Windows /\ DOMAIN importing' = Windows
      /\ \A v \in Windows : renaming'[v] # None => renaming'[v] \in [path : Paths, parent : Ids \cup {None}]
      /\ \A v \in Windows : importing'[v] # None => importing'[v] \in [name : Names, free : BOOLEAN] /\ importing'[v].free
  BY <1>1 DEF jobVars, IInv, Shapes, TypeOK, NameWasFree
<1>5. QED BY <1>1, <1>2, <1>3, <1>4, QuietKeeps

LEMMA JobsKeep ==
  ASSUME IInv, NEW w \in Windows,
         RenameFails(w) \/ ImportFails(w) \/ (\E p \in Paths : RenameStarts(w, p)) \/ \E n \in Names : ImportStarts(w, n)
  PROVE  IInv'
<1>1. UNCHANGED <<fileVars, piVars, lists, cache, written, troubles>>
  BY DEF RenameFails, ImportFails, RenameStarts, ImportStarts
<1>2. used' \in [asked : 0..MaxAsked, opened : 0..MaxOpened, listed : 0..MaxListed]
  BY UsesCounts DEF RenameFails, ImportFails, RenameStarts, ImportStarts, IInv, Shapes, TypeOK
<1>3. drives' \in [Windows -> Paths \cup {None}] /\ leaf' \in [Windows -> Ids \cup {None}]
  BY <1>1 DEF piVars, IInv, Shapes, TypeOK
<1>4. /\ DOMAIN renaming' = Windows
      /\ \A v \in Windows : renaming'[v] # None => renaming'[v] \in [path : Paths, parent : Ids \cup {None}]
  <2>1. CASE UNCHANGED renaming
    BY <2>1 DEF IInv, Shapes, TypeOK
  <2>2. CASE RenameFails(w)
    BY <2>2 DEF RenameFails, IInv, Shapes, TypeOK
  <2>3. ASSUME NEW p \in Paths, RenameStarts(w, p)
        PROVE  /\ DOMAIN renaming' = Windows
               /\ \A v \in Windows : renaming'[v] # None => renaming'[v] \in [path : Paths, parent : Ids \cup {None}]
    <3>1. LastEntryId(p) \in Ids \cup {None}
      BY FileType DEF LastEntryId, Entry, IInv
    <3>2. [path |-> p, parent |-> LastEntryId(p)] \in [path : Paths, parent : Ids \cup {None}]
      BY <3>1
    <3>3. QED BY <2>3, <3>2 DEF RenameStarts, IInv, Shapes, TypeOK
  <2>4. QED BY <2>1, <2>2, <2>3 DEF ImportFails, ImportStarts
<1>5. /\ DOMAIN importing' = Windows
      /\ \A v \in Windows : importing'[v] # None => importing'[v] \in [name : Names, free : BOOLEAN] /\ importing'[v].free
  <2>1. CASE UNCHANGED importing
    BY <2>1 DEF IInv, Shapes, TypeOK, NameWasFree
  <2>2. CASE ImportFails(w)
    BY <2>2 DEF ImportFails, IInv, Shapes, TypeOK, NameWasFree
  <2>3. ASSUME NEW n \in Names, ImportStarts(w, n)
        PROVE  /\ DOMAIN importing' = Windows
               /\ \A v \in Windows : importing'[v] # None => importing'[v] \in [name : Names, free : BOOLEAN] /\ importing'[v].free
    <3>1. PICK m \in Names : importing' = [importing EXCEPT ![w] = [name |-> m, free |-> TRUE]]
      BY <2>3 DEF ImportStarts
    <3>2. PICK r : r = [name |-> m, free |-> TRUE]
      OBVIOUS
    <3>2a. r \in [name : Names, free : BOOLEAN] /\ r.free
      BY <3>2
    <3>3. importing'[w] = r /\ DOMAIN importing' = Windows /\ \A v \in Windows : v # w => importing'[v] = importing[v]
      BY <3>1, <3>2 DEF IInv, Shapes
    <3>4. QED BY <3>2a, <3>3 DEF IInv, Shapes, TypeOK, NameWasFree
  <2>4. QED BY <2>1, <2>2, <2>3 DEF RenameFails, RenameStarts
<1>6. QED BY <1>1, <1>2, <1>3, <1>4, <1>5, QuietKeeps

--------------------------------------------------------------------------------
\* The list of sessions

\* A call of list() that changes nothing but itself and the cache.
LEMMA ListKeeps ==
  ASSUME IInv, UNCHANGED <<fileVars, piVars, jobVars, written>>,
         lists' \in [Lists -> [Paths -> Visits]], troubles' \in 0..MaxTroubles,
         used' \in [asked : 0..MaxAsked, opened : 0..MaxOpened, listed : 0..MaxListed],
         DOMAIN cache' = Paths,
         \A p \in Paths : cache'[p] # None =>
           /\ cache'[p] \in [last : Ids, size : Nat, name : Ids \cup {None}, sound : BOOLEAN]
           /\ cache'[p].sound => NamesAsRead(cache'[p])
  PROVE  IInv'
<1>1. KeptFiles'
  BY FilesStay DEF IInv
<1>2. CacheIsTrue'
  <2>1. ASSUME NEW p \in Paths, cache'[p] # None, cache'[p].sound PROVE NamesAsRead(cache[p])'
    <3>1. PICK c : c = cache'[p]
      OBVIOUS
    <3>2. NamesAsRead(c)'
      BY <2>1, <3>1, NamesStay
    <3>3. QED BY <3>1, <3>2 DEF NamesAsRead
  <2>2. QED BY <2>1 DEF CacheIsTrue, NamesAsRead
<1>3. Shapes' /\ NameWasFree'
  <2>1. TypeOK'
    BY DEF IInv, Shapes, TypeOK, fileVars, piVars, jobVars
  <2>2. QED BY <2>1 DEF IInv, Shapes, NameWasFree, jobVars
<1>4. QED BY <1>1, <1>2, <1>3 DEF IInv

LEMMA CacheAsItIs ==
  ASSUME IInv
  PROVE  /\ DOMAIN cache = Paths
         /\ \A p \in Paths : cache[p] # None =>
              /\ cache[p] \in [last : Ids, size : Nat, name : Ids \cup {None}, sound : BOOLEAN]
              /\ cache[p].sound => NamesAsRead(cache[p])
         /\ lists \in [Lists -> [Paths -> Visits]] /\ troubles \in 0..MaxTroubles
         /\ used \in [asked : 0..MaxAsked, opened : 0..MaxOpened, listed : 0..MaxListed]
BY DEF IInv, Shapes, TypeOK, CacheIsTrue

LEMMA ListStepsKeep ==
  ASSUME IInv, NEW l \in Lists, ListStarts(l) \/ \E p \in Paths : Stats(l, p)
  PROVE  IInv'
<1>1. UNCHANGED <<fileVars, piVars, jobVars, cache, written, troubles>>
  BY DEF ListStarts, Stats
<1>2. used' \in [asked : 0..MaxAsked, opened : 0..MaxOpened, listed : 0..MaxListed]
  BY UsesCounts, CacheAsItIs DEF ListStarts, Stats
<1>3. lists' \in [Lists -> [Paths -> Visits]]
  <2>1. CASE ListStarts(l)
    <3>1. [p \in Paths |-> IF Exists(p) THEN ToDo ELSE Off] \in [Paths -> Visits]
      BY DEF Visits
    <3>2. QED BY <2>1, <3>1, CacheAsItIs DEF ListStarts
  <2>2. ASSUME NEW p \in Paths, Stats(l, p) PROVE lists' \in [Lists -> [Paths -> Visits]]
    <3>1. (IF ~Exists(p) \/ Fresh(p) THEN Through ELSE At("read", Last(disk[p]).id, Len(disk[p].entries))) \in Visits
      <4>1. CASE ~Exists(p) \/ Fresh(p)
        BY <4>1 DEF Visits
      <4>2. CASE ~(~Exists(p) \/ Fresh(p))
        <5>1. Last(disk[p]).id \in Ids /\ Len(disk[p].entries) \in Nat \ {0}
          BY <4>2, FileType DEF Entry, IInv
        <5>2. At("read", Last(disk[p]).id, Len(disk[p].entries)) \in [at : {"read"}, last : Ids, size : Nat \ {0}]
          BY <5>1 DEF At
        <5>3. QED BY <4>2, <5>2 DEF Visits
      <4>3. QED BY <4>1, <4>2
    <3>2. QED BY <2>2, <3>1, CacheAsItIs DEF Stats
  <2>3. QED BY <2>1, <2>2
<1>4. QED BY <1>1, <1>2, <1>3, CacheAsItIs, ListKeeps

\* A read that got as much as there was, up to the same last entry, got the entries of that time:
\* an id is in one file, at one place.
LEMMA ReadsFileKeeps ==
  ASSUME IInv, NEW l \in Lists, NEW p \in Paths, ReadsFile(l, p)
  PROVE  IInv'
<1>1. UNCHANGED <<fileVars, piVars, jobVars, written, used>>
  BY DEF ReadsFile
<1>2. PICK st \in [at : {"read"}, last : Ids, size : Nat \ {0}] : st = lists[l][p]
  <2>1. lists[l][p] \in Visits /\ lists[l][p].at = "read"
    BY CacheAsItIs DEF ReadsFile
  <2>2. Off.at # "read" /\ ToDo.at # "read" /\ Through.at # "read"
    BY DEF Off, ToDo, Through, At
  <2>3. QED BY <2>1, <2>2 DEF Visits
<1>3. lists' \in [Lists -> [Paths -> Visits]]
  BY CacheAsItIs DEF ReadsFile, Visits
<1>4. CASE /\ Exists(p)
           /\ LET got == Upto(disk[p].entries, st.size)
              IN cache' = [cache EXCEPT ![p] = [last |-> st.last, size |-> st.size, name |-> NameOf(got),
                             sound |-> Len(got) = st.size /\ got[Len(got)].id = st.last]]
           /\ UNCHANGED troubles
  <2>1. PICK s, got : s = disk[p].entries /\ got = Upto(s, st.size)
    OBVIOUS
  <2>2. s \in Seq(Entry) /\ s # <<>> /\ DOMAIN s = 1..Len(s) /\ Len(s) \in Nat \ {0}
    BY <1>4, <2>1, FileType DEF IInv
  <2>3. PICK n : n = IF st.size < Len(s) THEN st.size ELSE Len(s)
    OBVIOUS
  <2>3a. n \in 1..Len(s) /\ n \in Nat \ {0} /\ n <= st.size
    <3>1. PICK z, m : z = st.size /\ m = Len(s)
      OBVIOUS
    <3>2. z \in Nat \ {0} /\ m \in Nat \ {0}
      BY <2>2, <3>1
    <3>3. n \in 1..m /\ n \in Nat \ {0} /\ n <= z
      BY <2>3, <3>1, <3>2
    <3>4. QED BY <3>1, <3>3
  <2>3b. got = SubSeq(s, 1, n)
    BY <2>1, <2>3 DEF Upto
  <2>4. got \in Seq(Entry) /\ Len(got) = n /\ got[n] = s[n]
    <3>1. /\ got \in Seq(Entry)
          /\ Len(got) = IF 1 <= n THEN n - 1 + 1 ELSE 0
          /\ \A i \in 1..(n - 1 + 1) : got[i] = s[1 + i - 1]
      BY <2>2, <2>3a, <2>3b, SubSeqProperties
    <3>2. QED BY <2>3a, <3>1
  <2>5. NameOf(got) \in Ids \cup {None}
    BY <2>4, NameOfType
  <2>6. PICK b \in BOOLEAN : b = (Len(got) = st.size /\ got[Len(got)].id = st.last)
    OBVIOUS
  <2>7. PICK c \in [last : Ids, size : Nat, name : Ids \cup {None}, sound : BOOLEAN] :
          c = [last |-> st.last, size |-> st.size, name |-> NameOf(got), sound |-> b]
    BY <2>5
  <2>8. cache' = [cache EXCEPT ![p] = c]
    BY <1>4, <2>1, <2>6, <2>7
  <2>9. ASSUME c.sound PROVE NamesAsRead(c)
    <3>1. n = st.size /\ s[n].id = st.last /\ n \in DOMAIN s
      BY <2>2, <2>3a, <2>4, <2>6, <2>7, <2>9
    <3>2. c.last = s[n].id /\ c.size = n /\ c.name = NameOf(SubSeq(s, 1, n))
      BY <2>3b, <2>7, <3>1
    <3>3. c.last <= written
      BY <1>4, <2>1, <3>1, <3>2 DEF IInv, KeptFiles, Owned
    <3>4. ASSUME NEW q \in Paths, Exists(q), NEW k \in DOMAIN disk[q].entries,
                 disk[q].entries[k].id = c.last
          PROVE  q = p
      BY <1>4, <2>1, <3>1, <3>2, <3>4 DEF IInv, KeptFiles, UniqueIds
    <3>5. QED BY <2>1, <3>2, <3>3, <3>4 DEF NamesAsRead
  <2>10. /\ DOMAIN cache' = Paths
         /\ \A q \in Paths : cache'[q] # None =>
              /\ cache'[q] \in [last : Ids, size : Nat, name : Ids \cup {None}, sound : BOOLEAN]
              /\ cache'[q].sound => NamesAsRead(cache'[q])
    <3>1. DOMAIN cache' = Paths /\ cache'[p] = c /\ \A q \in Paths : q # p => cache'[q] = cache[q]
      BY <2>8, CacheAsItIs
    <3>2. QED BY <2>9, <3>1, CacheAsItIs
  <2>11. QED BY <1>1, <1>3, <1>4, <2>10, CacheAsItIs, ListKeeps
<1>5. CASE /\ Exists(p) => troubles < MaxTroubles
           /\ troubles' = troubles + (IF Exists(p) THEN 1 ELSE 0)
           /\ cache' = [cache EXCEPT ![p] = [last |-> st.last, size |-> st.size, name |-> None, sound |-> FALSE]]
  <2>1. PICK c \in [last : Ids, size : Nat, name : Ids \cup {None}, sound : BOOLEAN] :
          c = [last |-> st.last, size |-> st.size, name |-> None, sound |-> FALSE] /\ ~c.sound
    <3>1. PICK c : c = [last |-> st.last, size |-> st.size, name |-> None, sound |-> FALSE]
      OBVIOUS
    <3>2. st.last \in Ids /\ st.size \in Nat /\ None \in Ids \cup {None} /\ FALSE \in BOOLEAN
      OBVIOUS
    <3>3. c \in [last : Ids, size : Nat, name : Ids \cup {None}, sound : BOOLEAN]
      BY <3>1, <3>2
    <3>4. ~c.sound
      BY <3>1
    <3>5. QED BY <3>1, <3>3, <3>4
  <2>2. DOMAIN cache' = Paths /\ cache'[p] = c /\ \A q \in Paths : q # p => cache'[q] = cache[q]
    BY <1>5, <2>1, CacheAsItIs
  <2>3. troubles' \in 0..MaxTroubles
    BY <1>5, CacheAsItIs, StoreAssumption
  <2>4. QED BY <1>1, <1>3, <2>1, <2>2, <2>3, CacheAsItIs, ListKeeps
<1>6. QED BY <1>2, <1>4, <1>5 DEF ReadsFile

LEMMA ListEndsKeeps ==
  ASSUME IInv, NEW l \in Lists, ListEnds(l)
  PROVE  IInv'
<1>1. UNCHANGED <<fileVars, piVars, jobVars, written, troubles, used>>
  BY DEF ListEnds
<1>2. lists' \in [Lists -> [Paths -> Visits]]
  <2>1. [p \in Paths |-> Off] \in [Paths -> Visits]
    BY DEF Visits
  <2>2. QED BY <2>1, CacheAsItIs DEF ListEnds
<1>3. DOMAIN cache' = Paths /\ \A p \in Paths : cache'[p] = None \/ cache'[p] = cache[p]
  BY CacheAsItIs DEF ListEnds
<1>4. QED BY <1>1, <1>2, <1>3, CacheAsItIs, ListKeeps

--------------------------------------------------------------------------------
\* The theorems

LEMMA NextIInv == IInv /\ [Next]_vars => IInv'
<1> SUFFICES ASSUME IInv, [Next]_vars PROVE IInv'
  OBVIOUS
<1>1. CASE UNCHANGED vars
  BY <1>1, CacheAsItIs, ListKeeps DEF vars
<1>2. ASSUME NEW w \in Windows, PiLeaves(w) \/ \E p \in Paths : PiOpens(w, p) PROVE IInv'
  BY <1>2, PiMovesKeeps
<1>3. ASSUME NEW w \in Windows,
             RenameCurrent(w) \/ \E huge \in BOOLEAN : PiSays(w, huge) PROVE IInv'
  <2>1. CASE RenameCurrent(w)
    <3>1. PICK huge \in BOOLEAN : huge = TRUE
      OBVIOUS
    <3>2. QED BY <2>1, PiSaysKeeps
  <2>2. QED BY <1>3, <2>1, PiSaysKeeps
<1>4. ASSUME NEW w \in Windows, RenameEnds(w) PROVE IInv'
  BY <1>4, RenameEndsKeeps
<1>5. ASSUME NEW w \in Windows,
             RenameFails(w) \/ ImportFails(w) \/ (\E p \in Paths : RenameStarts(w, p)) \/ \E n \in Names : ImportStarts(w, n)
      PROVE  IInv'
  BY <1>5, JobsKeep
<1>6. ASSUME NEW w \in Windows, ImportEnds(w) PROVE IInv'
  BY <1>6, ImportEndsKeeps
<1>7. ASSUME NEW w \in Windows, NEW p \in Paths, Delete(w, p) PROVE IInv'
  BY <1>7, DeleteKeeps
<1>8. ASSUME NEW p \in Paths, Archive(p) \/ Restore(p) PROVE IInv'
  <2>1. PICK n \in Names, d \in 0..MaxDepth : p = <<n, d>> /\ p[1] = n /\ p[2] = d
    BY DEF Paths
  <2>2. CASE Archive(p)
    <3>1. PICK q \in Paths : q = <<n, d + 1>> /\ q[1] = n /\ q[2] = d + 1
      <4>1. d + 1 \in 0..MaxDepth
        BY <2>1, <2>2, StoreAssumption DEF Archive
      <4>2. PICK m \in 0..MaxDepth : m = d + 1
        BY <4>1
      <4>3. <<n, m>> \in Paths /\ <<n, m>>[1] = n /\ <<n, m>>[2] = m
        BY DEF Paths
      <4>4. QED BY <4>2, <4>3
    <3>2. p # q
      BY <2>1, <3>1
    <3>3. QED BY <2>1, <2>2, <3>1, <3>2, MoveKeeps DEF Archive
  <2>3. CASE Restore(p)
    <3>1. PICK q \in Paths : q = <<n, d - 1>> /\ q[1] = n /\ q[2] = d - 1
      <4>1. d - 1 \in 0..MaxDepth
        BY <2>1, <2>3, StoreAssumption DEF Restore
      <4>2. PICK m \in 0..MaxDepth : m = d - 1
        BY <4>1
      <4>3. <<n, m>> \in Paths /\ <<n, m>>[1] = n /\ <<n, m>>[2] = m
        BY DEF Paths
      <4>4. QED BY <4>2, <4>3
    <3>2. p # q
      BY <2>1, <3>1
    <3>3. QED BY <2>1, <2>3, <3>1, <3>2, MoveKeeps DEF Restore
  <2>4. QED BY <1>8, <2>2, <2>3
<1>9. ASSUME NEW l \in Lists, ListStarts(l) \/ \E p \in Paths : Stats(l, p) PROVE IInv'
  BY <1>9, ListStepsKeep
<1>10. ASSUME NEW l \in Lists, NEW p \in Paths, ReadsFile(l, p) PROVE IInv'
  BY <1>10, ReadsFileKeeps
<1>11. ASSUME NEW l \in Lists, ListEnds(l) PROVE IInv'
  BY <1>11, ListEndsKeeps
<1>12. QED
  BY <1>1, <1>2, <1>3, <1>4, <1>5, <1>6, <1>7, <1>8, <1>9, <1>10, <1>11 DEF Next

\* An entry is in one file and once, a message in a file of the name it was written to, files of
\* one name are known, the entries of a file that was not cut follow each other with nothing but
\* names in between, and what the cache took from a file it took up to an entry that is nowhere else.
THEOREM InvariantHolds == Spec => []IInv
<1>1. Init => IInv
  BY InitIInv
<1>2. IInv /\ [Next]_vars => IInv'
  BY NextIInv
<1>3. QED BY <1>1, <1>2, PTL DEF Spec

\* However files are archived, restored and imported, what was said stays in a file until the user
\* deletes it, unless a file of its name was written while another one of the name was there
\* (session-ops.ts, archiveSession, restoreSession, importSession).
THEOREM NoTalkIsLost == Spec => []FilesAreKept
<1>1. IInv => FilesAreKept
  BY DEF IInv, Shapes, KeptFiles, FilesAreKept
<1>2. QED BY <1>1, InvariantHolds, PTL

\* A pi that loads a session shows all that was said in it, however often it was renamed, unless a
\* rename or another pi's entry was appended after something else (session-ops.ts, renameSession).
THEOREM NothingLeavesTheBranch == Spec => []TalkStaysTogether
<1>1. ASSUME IInv, NEW p \in Paths, Exists(p), ~disk[p].cut,
             NEW i \in DOMAIN disk[p].entries, disk[p].entries[i].kind = "message"
      PROVE  i \in OnBranch(disk[p].entries)
  <2>1. PICK s : s = disk[p].entries
    OBVIOUS
  <2>2. s \in Seq(Entry) /\ DOMAIN s = 1..Len(s) /\ Linked(s)
    BY <1>1, <2>1, FileType DEF IInv, KeptFiles, Chained
  <2>3. QED BY <1>1, <2>1, <2>2, LinkedIsOnBranch
<1>2. IInv => TalkStaysTogether
  BY <1>1 DEF TalkStaysTogether
<1>3. QED BY <1>2, InvariantHolds, PTL

\* What the cache says of a file that has not changed since is the name the file was given last,
\* however reads, writes, moves and lists were ordered (sessions.ts, metaFor).
THEOREM TheListShowsTheNewestName == Spec => []CachedNameIsNewest
<1>1. ASSUME IInv, NEW p \in Paths, Fresh(p), cache[p].sound
      PROVE  LET s == disk[p].entries
                 named == InfosAmong(s, DOMAIN s) IN
             IF named = {} THEN cache[p].name = None
             ELSE Max(named) \in InTail(s) => cache[p].name = s[Max(named)].id
  <2>1. PICK s : s = disk[p].entries
    OBVIOUS
  <2>2. cache[p] # None /\ Exists(p) /\ cache[p].last = s[Len(s)].id /\ cache[p].size = Len(s)
    BY <1>1, <2>1 DEF Fresh, Stamp, Last
  <2>3. s \in Seq(Entry) /\ DOMAIN s = 1..Len(s) /\ Len(s) \in Nat \ {0}
    BY <1>1, <2>1, <2>2, FileType DEF IInv
  <2>4. SubSeq(s, 1, Len(s)) = s
    BY <2>3, SubSeqFull
  <2>5. PICK n \in DOMAIN s : n = Len(s)
    BY <2>3
  <2>6. cache[p].name = NameOf(SubSeq(s, 1, n))
    BY <1>1, <2>1, <2>2, <2>5 DEF IInv, CacheIsTrue, NamesAsRead
  <2>7. cache[p].name = NameOf(s)
    BY <2>4, <2>5, <2>6
  <2>8. QED BY <2>1, <2>3, <2>7, NameOfIsNewest
<1>2. IInv => CachedNameIsNewest
  BY <1>1 DEF CachedNameIsNewest
<1>3. QED BY <1>2, InvariantHolds, PTL

--------------------------------------------------------------------------------
\* The page: its invariant

Row == [who : {"user", "assistant"}, id : PromptIds, ts : PromptIds \cup {Unset}, block : Blocks,
        call : PromptIds \cup {Unset}, state : {"still", "running", "done"}]

\* What the operations of messages.ts work on: rows, and pointers to a reply and to a bubble
\* without a timestamp among them.
Fit(pg) ==
  /\ pg \in [rows : Seq(Row), current : Nat, waiting : Int]
  /\ pg.current <= Len(pg.rows) /\ pg.waiting >= Gone /\ pg.waiting <= Len(pg.rows)
  /\ pg.current # 0 => pg.rows[pg.current].who = "assistant"
  /\ pg.waiting > 0 => pg.rows[pg.waiting].who = "user" /\ pg.rows[pg.waiting].ts = Unset

\* What pi's events and hydrations do to the rows: those that are there stay whose they are,
\* with their times, and new ones are of the messages A, bubbles with their own time.
Grows(pg, to, A) ==
  /\ Len(pg.rows) <= Len(to.rows)
  /\ \A i \in 1..Len(pg.rows) :
       /\ to.rows[i].who = pg.rows[i].who
       /\ to.rows[i].id = pg.rows[i].id
       /\ to.rows[i].ts = pg.rows[i].ts
  /\ \A i \in (Len(pg.rows) + 1)..Len(to.rows) :
       to.rows[i].id \in A /\ (to.rows[i].who = "user" => to.rows[i].ts = to.rows[i].id)
  /\ to.waiting \in {pg.waiting, 0}

Sent == [id : Typed, kind : {"prompt", "local", "command"}, steers : BOOLEAN]
Asking == [busy : BOOLEAN, moved : BOOLEAN]

Types ==
  /\ Fit(Page)
  /\ streaming \in BOOLEAN /\ loading \in BOOLEAN
  /\ hydrationId \in Nat
  /\ frames \in Seq([id : 1..hydrationId, rest : Seq(Items)])
  /\ \A i \in DOMAIN frames : frames[i].rest # <<>>
  /\ sent \in Seq(Sent)
  /\ asked \in Seq(Asking)
  /\ held \in Seq([busy : BOOLEAN, list : Seq(Items)])
  /\ phase \in Phases /\ turn \in 0..typed /\ block \in Blocks /\ queue \in Seq(Typed)
  /\ history \in Seq(Items) /\ past \subseteq PromptIds
  /\ typed \in 0..MaxTyped

\* Prompts become messages in the order they were typed: those of the history come before the
\* queue, the queue before what is on its way.
Numbers ==
  /\ \A i \in DOMAIN history : history[i].id <= turn
  /\ \A k \in DOMAIN queue : turn < queue[k] /\ queue[k] <= typed
  /\ \A k, l \in DOMAIN queue : k < l => queue[k] < queue[l]
  /\ \A i \in DOMAIN sent : turn < sent[i].id /\ sent[i].id <= typed
  /\ \A k \in DOMAIN queue, i \in DOMAIN sent : queue[k] < sent[i].id
  /\ \A i, j \in DOMAIN sent : i < j => sent[i].id < sent[j].id

\* A conversation is ordered, and what follows a prompt has its number.
Ordered(items) ==
  \A i \in DOMAIN items : \A j \in 1..(i - 1) :
    items[j].id <= items[i].id /\ (items[i].who = "user" => items[j].id # items[i].id)

Clean(items) == \A i \in DOMAIN items : items[i].id \notin past

\* The page was told that pi moved, or the list that tells it is on its way.
Told == "untold" \notin upset /\ \A i \in DOMAIN asked : ~asked[i].moved

\* What pi has left is neither in its history nor in the list that it answered with last, and
\* once that one is shown, neither in the rows nor in the frames to come.
LeftBehind ==
  /\ Ordered(history) /\ Clean(history)
  /\ \A p \in past : p <= turn
  /\ phase # "idle" => turn \notin past
  /\ Told /\ held = <<>> =>
       Clean(rows) /\ \A i \in DOMAIN frames : frames[i].id = hydrationId => Clean(frames[i].rest)
  /\ Told /\ held # <<>> => Clean(held[Len(held)].list)

Prompts == {i \in DOMAIN sent : sent[i].kind = "prompt"}

\* The bubble that waits for its time is that of the prompt which pi will take next, or is a
\* local command's while no prompt is on its way.
BubbleIsNext ==
  waiting > 0 =>
    /\ phase = "idle"
    /\ \/ Prompts = {} /\ ~streaming
       \/ \E i \in Prompts : (\A j \in Prompts : i <= j) /\ sent[i].id = rows[waiting].id

Times ==
  upset \cap {"error", "command", "crossed"} = {} =>
    /\ \A i \in DOMAIN rows : rows[i].who = "user" => rows[i].ts \in {Unset, rows[i].id}
    /\ BubbleIsNext

\* A turn is shown while it runs, and is on its way when it is shown before; a list of messages
\* is being shown while the page says so.
Status ==
  /\ TurnIsShown
  /\ streaming /\ phase = "idle" /\ upset \cap {"command", "late"} = {} => Prompts # {}
  /\ phase = "idle" => queue = <<>>
  /\ loading /\ "empty" \notin upset => \E i \in DOMAIN frames : frames[i].id = hydrationId

PageInv == Types /\ Numbers /\ LeftBehind /\ Times /\ Status
--------------------------------------------------------------------------------
\* Operations of messages.ts

LEMMA NewRows ==
  ASSUME NEW p \in PromptIds, NEW ts \in PromptIds \cup {Unset}
  PROVE  /\ UserRow(p, ts) \in Row /\ UserRow(p, ts).who = "user"
         /\ UserRow(p, ts).id = p /\ UserRow(p, ts).ts = ts
         /\ ReplyRow(p, ts) \in Row /\ ReplyRow(p, ts).who = "assistant"
         /\ ReplyRow(p, ts).id = p /\ ReplyRow(p, ts).ts = ts
BY DEF UserRow, ReplyRow, Row, Blocks

\* What is clean of messages A and of messages B stays so of both.
LEMMA GrowsMore ==
  ASSUME NEW pg, Fit(pg), NEW via, Fit(via), NEW to, Fit(to), NEW A, NEW B,
         Grows(pg, via, A), Grows(via, to, B)
  PROVE  Grows(pg, to, A \cup B)
<1> PICK n \in Nat, m \in Nat, l \in Nat : n = Len(pg.rows) /\ m = Len(via.rows) /\ l = Len(to.rows)
  BY DEF Fit
<1>1. n <= m /\ m <= l
  BY DEF Grows
<1>2. ASSUME NEW i \in 1..n
      PROVE  to.rows[i].who = pg.rows[i].who /\ to.rows[i].id = pg.rows[i].id /\ to.rows[i].ts = pg.rows[i].ts
  <2>1. i \in 1..m
    BY <1>1
  <2>2. QED
    BY <2>1 DEF Grows
<1>3. ASSUME NEW i \in (n + 1)..l
      PROVE  to.rows[i].id \in A \cup B /\ (to.rows[i].who = "user" => to.rows[i].ts = to.rows[i].id)
  <2>1. CASE i <= m
    <3>1. i \in (n + 1)..m /\ i \in 1..m
      BY <2>1
    <3>2. QED
      BY <3>1 DEF Grows
  <2>2. CASE i > m
    <3>1. i \in (m + 1)..l
      BY <2>2
    <3>2. QED
      BY <3>1 DEF Grows
  <2>3. QED
    BY <2>1, <2>2
<1>4. to.waiting \in {pg.waiting, 0}
  BY DEF Grows
<1>5. QED
  BY <1>1, <1>2, <1>3, <1>4 DEF Grows

\* Nothing happens to a page that stays as it is.
LEMMA GrowsByNothing ==
  ASSUME NEW pg, Fit(pg), NEW A
  PROVE  Grows(pg, pg, A)
BY DEF Grows, Fit

\* A row at the end.
LEMMA RowAdded ==
  ASSUME NEW pg, Fit(pg), NEW r \in Row, NEW to,
         to \in [rows : Seq(Row), current : Nat, waiting : Int], to.rows = Append(pg.rows, r),
         \/ r.who = "user" /\ to.current = pg.current
            /\ ((to.waiting = Len(pg.rows) + 1 /\ r.ts = Unset) \/ to.waiting = 0)
         \/ r.who = "assistant" /\ to.current = Len(pg.rows) + 1 /\ to.waiting = pg.waiting
  PROVE  /\ Fit(to)
         /\ (r.who = "user" => r.ts = r.id) /\ to.waiting \in {pg.waiting, 0} => Grows(pg, to, {r.id})
<1> PICK n \in Nat : n = Len(pg.rows)
  BY DEF Fit
<1>1. pg.rows \in Seq(Row) /\ pg.current \in 0..n /\ pg.waiting \in Int /\ pg.waiting <= n /\ pg.waiting >= Gone
  BY DEF Fit
<1>2. Len(to.rows) = n + 1 /\ to.rows[n + 1] = r /\ \A i \in 1..n : to.rows[i] = pg.rows[i]
  BY <1>1
<1>3. to.current <= n + 1 /\ to.waiting >= Gone /\ to.waiting <= n + 1
  BY <1>1 DEF Gone
<1>4. to.current # 0 => to.rows[to.current].who = "assistant"
  BY <1>1, <1>2 DEF Fit
<1>5. to.waiting > 0 => to.rows[to.waiting].who = "user" /\ to.rows[to.waiting].ts = Unset
  BY <1>1, <1>2 DEF Fit
<1>6. Fit(to)
  BY <1>2, <1>3, <1>4, <1>5 DEF Fit
<1>7. (r.who = "user" => r.ts = r.id) /\ to.waiting \in {pg.waiting, 0} => Grows(pg, to, {r.id})
  BY <1>2 DEF Grows
<1>8. QED
  BY <1>6, <1>7

Rewritten(pg, to) ==
  Fit(to) /\ Grows(pg, to, {}) /\ to.current = pg.current /\ DOMAIN to.rows = DOMAIN pg.rows

\* Rows that change, but not whose they are.
LEMMA RowsChanged ==
  ASSUME NEW pg, Fit(pg), NEW rs \in Seq(Row), DOMAIN rs = DOMAIN pg.rows,
         \A i \in DOMAIN rs : rs[i].who = pg.rows[i].who /\ rs[i].id = pg.rows[i].id /\ rs[i].ts = pg.rows[i].ts
  PROVE  Rewritten(pg, [rows |-> rs, current |-> pg.current, waiting |-> pg.waiting])
<1> PICK to : to = [rows |-> rs, current |-> pg.current, waiting |-> pg.waiting]
  OBVIOUS
<1>1. pg.rows \in Seq(Row) /\ pg \in [rows : Seq(Row), current : Nat, waiting : Int]
  BY DEF Fit
<1> PICK n \in Nat : n = Len(pg.rows) /\ DOMAIN pg.rows = 1..n /\ n = Len(rs)
  BY <1>1
<1>2. to.rows = rs /\ to.current = pg.current /\ to.waiting = pg.waiting
      /\ to \in [rows : Seq(Row), current : Nat, waiting : Int]
  BY <1>1
<1>3. to.current # 0 => to.rows[to.current].who = "assistant"
  BY <1>2 DEF Fit
<1>4. to.waiting > 0 => to.rows[to.waiting].who = "user" /\ to.rows[to.waiting].ts = Unset
  BY <1>2 DEF Fit
<1>5. Fit(to)
  BY <1>2, <1>3, <1>4 DEF Fit
<1>6. Grows(pg, to, {})
  BY <1>2 DEF Grows
<1>7. QED
  BY <1>2, <1>5, <1>6 DEF Rewritten

\* addUserMessage: a bubble without a time is the one that waits, a message's own has its time.
LEMMA BubbleAdded ==
  ASSUME NEW pg, Fit(pg), NEW p \in PromptIds
  PROVE  /\ Fit(AddUserMessage(pg, p, Unset))
         /\ AddUserMessage(pg, p, Unset).rows = Append(pg.rows, UserRow(p, Unset))
         /\ AddUserMessage(pg, p, Unset).waiting = Len(pg.rows) + 1
         /\ Fit(AddUserMessage(pg, p, p)) /\ Grows(pg, AddUserMessage(pg, p, p), {p})
         /\ AddUserMessage(pg, p, p).waiting = 0
<1>1. pg \in [rows : Seq(Row), current : Nat, waiting : Int]
  BY DEF Fit
<1>2. p # Unset
  BY PageAssumption DEF PromptIds
<1> PICK n \in Nat : n = Len(pg.rows)
  BY <1>1
<1> PICK r, s : r = UserRow(p, Unset) /\ s = UserRow(p, p)
  OBVIOUS
<1>3. /\ r \in Row /\ r.who = "user" /\ r.ts = Unset
      /\ s \in Row /\ s.who = "user" /\ s.id = p /\ s.ts = p
  BY NewRows
<1> PICK a, b : a = AddUserMessage(pg, p, Unset) /\ b = AddUserMessage(pg, p, p)
  OBVIOUS
<1>4. Append(pg.rows, r) \in Seq(Row) /\ Append(pg.rows, s) \in Seq(Row)
  BY <1>1, <1>3
<1>5. a = [rows |-> Append(pg.rows, r), current |-> pg.current, waiting |-> n + 1]
  BY <1>1 DEF AddUserMessage
<1>6. b = [rows |-> Append(pg.rows, s), current |-> pg.current, waiting |-> 0]
  BY <1>1, <1>2 DEF AddUserMessage
<1>7. a \in [rows : Seq(Row), current : Nat, waiting : Int] /\ b \in [rows : Seq(Row), current : Nat, waiting : Int]
  BY <1>1, <1>4, <1>5, <1>6
<1>8. Fit(a)
  BY <1>3, <1>5, <1>7, RowAdded
<1>9. Fit(b) /\ Grows(pg, b, {p})
  <2>1. b.rows = Append(pg.rows, s) /\ b.current = pg.current /\ b.waiting = 0
    BY <1>6
  <2>2. s.ts = s.id /\ b.waiting \in {pg.waiting, 0}
    BY <1>3, <2>1
  <2>3. Fit(b) /\ Grows(pg, b, {s.id})
    BY <1>3, <1>7, <2>1, <2>2, RowAdded
  <2>4. QED
    BY <1>3, <2>3
<1>10. QED
  BY <1>5, <1>6, <1>8, <1>9

\* startAssistantMessage
LEMMA ReplyStarted ==
  ASSUME NEW pg, Fit(pg), NEW a \in PromptIds, NEW ts \in PromptIds \cup {Unset}
  PROVE  /\ Fit(StartAssistantMessage(pg, a, ts))
         /\ Grows(pg, StartAssistantMessage(pg, a, ts), {a})
         /\ StartAssistantMessage(pg, a, ts).current \in DOMAIN StartAssistantMessage(pg, a, ts).rows
         /\ StartAssistantMessage(pg, a, ts).current # 0
<1>1. pg \in [rows : Seq(Row), current : Nat, waiting : Int]
  BY DEF Fit
<1> PICK n \in Nat : n = Len(pg.rows)
  BY <1>1
<1> PICK r : r = ReplyRow(a, ts)
  OBVIOUS
<1>2. r \in Row /\ r.who = "assistant" /\ r.id = a
  BY NewRows
<1> PICK b : b = StartAssistantMessage(pg, a, ts)
  OBVIOUS
<1>3. b = [rows |-> Append(pg.rows, r), current |-> n + 1, waiting |-> pg.waiting]
  BY <1>1 DEF StartAssistantMessage
<1>4. Append(pg.rows, r) \in Seq(Row) /\ n + 1 \in DOMAIN Append(pg.rows, r)
  BY <1>1, <1>2
<1>5. b \in [rows : Seq(Row), current : Nat, waiting : Int]
  BY <1>1, <1>3, <1>4
<1>6. b.rows = Append(pg.rows, r) /\ b.current = n + 1 /\ b.waiting = pg.waiting
  BY <1>3
<1>7. Fit(b) /\ Grows(pg, b, {r.id})
  BY <1>2, <1>5, <1>6, RowAdded
<1>8. QED
  BY <1>2, <1>4, <1>6, <1>7

\* A block, call or state is filled to a row.
LEMMA RowWritten ==
  ASSUME NEW pg, Fit(pg), NEW c \in DOMAIN pg.rows
  PROVE  /\ \A b \in Blocks : Rewritten(pg, [pg EXCEPT !.rows[c].block = b])
         /\ \A a \in PromptIds : Rewritten(pg, [pg EXCEPT !.rows[c].call = a])
         /\ \A s \in {"running", "done"} : Rewritten(pg, [pg EXCEPT !.rows[c].state = s])
<1>1. pg \in [rows : Seq(Row), current : Nat, waiting : Int] /\ pg.rows[c] \in Row
  BY DEF Fit
<1>2. ASSUME NEW b \in Blocks
      PROVE  Rewritten(pg, [pg EXCEPT !.rows[c].block = b])
  <2> PICK r : r = [pg.rows[c] EXCEPT !.block = b]
    OBVIOUS
  <2>1. r \in Row /\ r.who = pg.rows[c].who /\ r.id = pg.rows[c].id /\ r.ts = pg.rows[c].ts
    BY <1>1 DEF Row
  <2> PICK rs : rs = [pg.rows EXCEPT ![c] = r]
    OBVIOUS
  <2>2. rs \in Seq(Row) /\ DOMAIN rs = DOMAIN pg.rows
    BY <1>1, <2>1
  <2>3. \A i \in DOMAIN rs :
          rs[i].who = pg.rows[i].who /\ rs[i].id = pg.rows[i].id /\ rs[i].ts = pg.rows[i].ts
    BY <2>1
  <2>4. Rewritten(pg, [rows |-> rs, current |-> pg.current, waiting |-> pg.waiting])
    BY <2>2, <2>3, RowsChanged
  <2> PICK to : to = [pg EXCEPT !.rows[c].block = b]
    OBVIOUS
  <2>5. to = [pg EXCEPT !.rows = rs]
    BY <1>1
  <2>6. to = [rows |-> rs, current |-> pg.current, waiting |-> pg.waiting]
    BY <1>1, <2>5
  <2>7. QED
    BY <2>4, <2>6
<1>3. ASSUME NEW a \in PromptIds
      PROVE  Rewritten(pg, [pg EXCEPT !.rows[c].call = a])
  <2> PICK r : r = [pg.rows[c] EXCEPT !.call = a]
    OBVIOUS
  <2>1. r \in Row /\ r.who = pg.rows[c].who /\ r.id = pg.rows[c].id /\ r.ts = pg.rows[c].ts
    BY <1>1 DEF Row
  <2> PICK rs : rs = [pg.rows EXCEPT ![c] = r]
    OBVIOUS
  <2>2. rs \in Seq(Row) /\ DOMAIN rs = DOMAIN pg.rows
    BY <1>1, <2>1
  <2>3. \A i \in DOMAIN rs :
          rs[i].who = pg.rows[i].who /\ rs[i].id = pg.rows[i].id /\ rs[i].ts = pg.rows[i].ts
    BY <2>1
  <2>4. Rewritten(pg, [rows |-> rs, current |-> pg.current, waiting |-> pg.waiting])
    BY <2>2, <2>3, RowsChanged
  <2> PICK to : to = [pg EXCEPT !.rows[c].call = a]
    OBVIOUS
  <2>5. to = [pg EXCEPT !.rows = rs]
    BY <1>1
  <2>6. to = [rows |-> rs, current |-> pg.current, waiting |-> pg.waiting]
    BY <1>1, <2>5
  <2>7. QED
    BY <2>4, <2>6
<1>4. ASSUME NEW s \in {"running", "done"}
      PROVE  Rewritten(pg, [pg EXCEPT !.rows[c].state = s])
  <2> PICK r : r = [pg.rows[c] EXCEPT !.state = s]
    OBVIOUS
  <2>1. r \in Row /\ r.who = pg.rows[c].who /\ r.id = pg.rows[c].id /\ r.ts = pg.rows[c].ts
    BY <1>1 DEF Row
  <2> PICK rs : rs = [pg.rows EXCEPT ![c] = r]
    OBVIOUS
  <2>2. rs \in Seq(Row) /\ DOMAIN rs = DOMAIN pg.rows
    BY <1>1, <2>1
  <2>3. \A i \in DOMAIN rs :
          rs[i].who = pg.rows[i].who /\ rs[i].id = pg.rows[i].id /\ rs[i].ts = pg.rows[i].ts
    BY <2>1
  <2>4. Rewritten(pg, [rows |-> rs, current |-> pg.current, waiting |-> pg.waiting])
    BY <2>2, <2>3, RowsChanged
  <2> PICK to : to = [pg EXCEPT !.rows[c].state = s]
    OBVIOUS
  <2>5. to = [pg EXCEPT !.rows = rs]
    BY <1>1
  <2>6. to = [rows |-> rs, current |-> pg.current, waiting |-> pg.waiting]
    BY <1>1, <2>5
  <2>7. QED
    BY <2>4, <2>6
<1>5. QED
  BY <1>2, <1>3, <1>4

\* ensureBlock
LEMMA BlockEnsured ==
  ASSUME NEW pg, Fit(pg), NEW a \in PromptIds, NEW b \in Blocks
  PROVE  /\ Fit(EnsureBlock(pg, a, b)) /\ Grows(pg, EnsureBlock(pg, a, b), {a})
         /\ EnsureBlock(pg, a, b).current \in DOMAIN EnsureBlock(pg, a, b).rows
<1> PICK at : at = IF pg.current = 0 THEN StartAssistantMessage(pg, a, Unset) ELSE pg
  OBVIOUS
<1>1. Fit(at) /\ Grows(pg, at, {a}) /\ at.current \in DOMAIN at.rows
  <2>1. pg.current # 0 => pg.current \in DOMAIN pg.rows
    BY DEF Fit
  <2>2. QED
    BY <2>1, ReplyStarted, GrowsByNothing
<1> PICK to : to = [at EXCEPT !.rows[at.current].block = b]
  OBVIOUS
<1> PICK c : c = at.current
  OBVIOUS
<1>2. Fit(to) /\ Grows(at, to, {}) /\ to.current = at.current /\ DOMAIN to.rows = DOMAIN at.rows
  <2>1. c \in DOMAIN at.rows
    BY <1>1
  <2>2. Rewritten(at, [at EXCEPT !.rows[c].block = b])
    BY <1>1, <2>1, RowWritten
  <2>3. QED
    BY <2>2 DEF Rewritten
<1>3. Grows(pg, to, {a} \cup {})
  BY <1>1, <1>2, GrowsMore
<1>4. to = EnsureBlock(pg, a, b) /\ {a} \cup {} = {a}
  BY DEF EnsureBlock
<1>5. QED
  BY <1>1, <1>2, <1>3, <1>4

\* Row by row what an operation does to a page.
Into(pg, to, A) == Fit(to) /\ Grows(pg, to, A)

LEMMA IntoMore ==
  ASSUME NEW pg, Fit(pg), NEW A, NEW via, Into(pg, via, A), NEW to,
         Into(via, to, A) \/ Into(via, to, {})
  PROVE  Into(pg, to, A)
<1>1. A \cup A = A /\ A \cup {} = A
  OBVIOUS
<1>2. Fit(via) /\ Fit(to) /\ Grows(pg, via, A) /\ (Grows(via, to, A) \/ Grows(via, to, {}))
  BY DEF Into
<1>3. Grows(pg, to, A \cup A) \/ Grows(pg, to, A \cup {})
  BY <1>2, GrowsMore
<1>4. QED
  BY <1>1, <1>2, <1>3 DEF Into

\* The place of a tool call is a row, or none.
LEMMA ToolBlockFound ==
  ASSUME NEW pg, Fit(pg), NEW a, FindToolBlock(pg, a) # 0
  PROVE  FindToolBlock(pg, a) \in DOMAIN pg.rows
<1> DEFINE I == {i \in DOMAIN pg.rows : pg.rows[i].call = a}
<1>1. I # {} /\ I \in SUBSET Nat
  BY DEF FindToolBlock, Fit
<1>2. \E m \in I : \A y \in I : m <= y
  BY <1>1, LeastIsThere
<1>3. (CHOOSE i \in I : \A j \in I : i <= j) \in I
  BY <1>2
<1>4. QED
  BY <1>1, <1>3 DEF FindToolBlock

LEMMA CallFinalized ==
  ASSUME NEW pg, Fit(pg), NEW a \in PromptIds
  PROVE  Into(pg, FinalizeToolCall(pg, a), {a})
<1> PICK at : at = EnsureBlock(pg, a, "tool")
  OBVIOUS
<1>1. Into(pg, at, {a}) /\ at.current \in DOMAIN at.rows
  BY BlockEnsured DEF Into, Blocks
<1> PICK c : c = at.current
  OBVIOUS
<1>2. Into(at, [at EXCEPT !.rows[c].call = a], {})
  <2>1. Rewritten(at, [at EXCEPT !.rows[c].call = a])
    BY <1>1, RowWritten DEF Into
  <2>2. QED
    BY <2>1 DEF Rewritten, Into
<1>3. FinalizeToolCall(pg, a) = [at EXCEPT !.rows[c].call = a]
  BY DEF FinalizeToolCall
<1>4. QED
  BY <1>1, <1>2, <1>3, IntoMore

LEMMA StopErrorApplied ==
  ASSUME NEW pg, Fit(pg), NEW stopped
  PROVE  Into(pg, ApplyStopError(pg, stopped), {})
<1>1. CASE stopped /\ pg.current # 0 /\ pg.rows[pg.current].block = "tool"
  <2> PICK c : c = pg.current
    OBVIOUS
  <2>1. c \in DOMAIN pg.rows
    BY <1>1 DEF Fit
  <2>2. Rewritten(pg, [pg EXCEPT !.rows[c].state = "done"])
    BY <2>1, RowWritten
  <2>3. ApplyStopError(pg, stopped) = [pg EXCEPT !.rows[c].state = "done"]
    BY <1>1 DEF ApplyStopError
  <2>4. QED
    BY <2>2, <2>3 DEF Rewritten, Into
<1>2. CASE ~(stopped /\ pg.current # 0 /\ pg.rows[pg.current].block = "tool")
  BY <1>2, GrowsByNothing DEF ApplyStopError, Into
<1>3. QED
  BY <1>1, <1>2

LEMMA ReplyClosed ==
  ASSUME NEW pg, Fit(pg)
  PROVE  Into(pg, EndAssistantMessage(pg), {})
<1> PICK to : to = EndAssistantMessage(pg)
  OBVIOUS
<1>1. pg \in [rows : Seq(Row), current : Nat, waiting : Int]
  BY DEF Fit
<1>2. to = [rows |-> pg.rows, current |-> 0, waiting |-> pg.waiting]
  BY <1>1 DEF EndAssistantMessage
<1>3. Fit(to)
  BY <1>1, <1>2 DEF Fit
<1>4. Grows(pg, to, {})
  BY <1>1, <1>2 DEF Grows
<1>5. QED
  BY <1>3, <1>4 DEF Into

LEMMA ExecutionStarted ==
  ASSUME NEW pg, Fit(pg), NEW a \in PromptIds
  PROVE  Into(pg, StartToolExecution(pg, a), {a})
<1> PICK at : at = IF FindToolBlock(pg, a) # 0 THEN pg
                   ELSE FinalizeToolCall(StartAssistantMessage(pg, a, Unset), a)
  OBVIOUS
<1>1. Into(pg, at, {a})
  <2>1. Into(pg, StartAssistantMessage(pg, a, Unset), {a})
    BY ReplyStarted DEF Into
  <2>2. Into(StartAssistantMessage(pg, a, Unset), FinalizeToolCall(StartAssistantMessage(pg, a, Unset), a), {a})
    BY <2>1, CallFinalized DEF Into
  <2>3. Into(pg, FinalizeToolCall(StartAssistantMessage(pg, a, Unset), a), {a})
    BY <2>1, <2>2, IntoMore
  <2>4. Into(pg, pg, {a})
    BY GrowsByNothing DEF Into
  <2>5. QED
    BY <2>3, <2>4
<1> PICK to : to = StartToolExecution(pg, a)
  OBVIOUS
<1> PICK c : c = FindToolBlock(at, a)
  OBVIOUS
<1>2. to = [at EXCEPT !.rows[c].state = "running"]
  BY DEF StartToolExecution
<1>3. CASE c \in DOMAIN at.rows
  <2>1. Rewritten(at, [at EXCEPT !.rows[c].state = "running"])
    BY <1>1, <1>3, RowWritten DEF Into
  <2>2. Into(at, to, {})
    BY <1>2, <2>1 DEF Rewritten, Into
  <2>3. QED
    BY <1>1, <2>2, IntoMore
<1>4. CASE c \notin DOMAIN at.rows
  <2>1. at \in [rows : Seq(Row), current : Nat, waiting : Int]
    BY <1>1 DEF Into, Fit
  <2> PICK rs : rs = [at.rows EXCEPT ![c].state = "running"]
    OBVIOUS
  <2>2. rs = at.rows
    BY <1>4, <2>1
  <2>3. to = at
    <3>1. to = [at EXCEPT !.rows = rs]
      BY <1>2, <2>1
    <3>2. QED
      BY <2>1, <2>2, <3>1
  <2>4. QED
    BY <1>1, <2>3
<1>5. QED
  BY <1>3, <1>4

LEMMA ExecutionEnded ==
  ASSUME NEW pg, Fit(pg), NEW a
  PROVE  Into(pg, EndToolExecution(pg, a), {})
<1>1. CASE FindToolBlock(pg, a) = 0
  BY <1>1, GrowsByNothing DEF EndToolExecution, Into
<1>2. CASE FindToolBlock(pg, a) # 0
  <2> PICK c : c = FindToolBlock(pg, a)
    OBVIOUS
  <2>1. c \in DOMAIN pg.rows
    BY <1>2, ToolBlockFound
  <2>2. Rewritten(pg, [pg EXCEPT !.rows[c].state = "done"])
    BY <2>1, RowWritten
  <2>3. EndToolExecution(pg, a) = [pg EXCEPT !.rows[c].state = "done"]
    BY <1>2 DEF EndToolExecution
  <2>4. QED
    BY <2>2, <2>3 DEF Rewritten, Into
<1>3. QED
  BY <1>1, <1>2

\* hydrateOne
LEMMA OneHydrated ==
  ASSUME NEW pg, Fit(pg), NEW m \in Items
  PROVE  Into(pg, HydrateOne(pg, m), {m.id})
<1> PICK a : a = m.id
  OBVIOUS
<1>1. a \in PromptIds /\ m.who \in {"user", "assistant", "result"} /\ m.block \in Blocks
  BY DEF Items
<1>2. CASE m.who = "user"
  BY <1>1, <1>2, BubbleAdded DEF HydrateOne, Into
<1>3. CASE m.who = "assistant"
  <2> PICK begun : begun = StartAssistantMessage(pg, a, a)
    OBVIOUS
  <2>1. Into(pg, begun, {a})
    BY <1>1, ReplyStarted DEF Into
  <2> PICK filled : filled = CASE m.block = "none" -> begun
                                 [] m.block = "text" -> EnsureBlock(begun, a, "text")
                                 [] m.block = "tool" -> FinalizeToolCall(begun, a)
    OBVIOUS
  <2>2. Into(begun, filled, {a})
    <3>1. Into(begun, begun, {a})
      BY <2>1, GrowsByNothing DEF Into
    <3>2. Into(begun, EnsureBlock(begun, a, "text"), {a})
      BY <1>1, <2>1, BlockEnsured DEF Into, Blocks
    <3>3. Into(begun, FinalizeToolCall(begun, a), {a})
      BY <1>1, <2>1, CallFinalized DEF Into
    <3>4. QED
      BY <1>1, <3>1, <3>2, <3>3 DEF Blocks
  <2> PICK stopped : stopped = ApplyStopError(filled, m.stopped)
    OBVIOUS
  <2>3. Into(filled, stopped, {})
    BY <2>2, StopErrorApplied DEF Into
  <2>4. Into(stopped, EndAssistantMessage(stopped), {})
    BY <2>3, ReplyClosed DEF Into
  <2>5. Into(pg, filled, {a})
    BY <2>1, <2>2, IntoMore
  <2>6. Into(pg, stopped, {a})
    BY <2>3, <2>5, IntoMore
  <2>7. Into(pg, EndAssistantMessage(stopped), {a})
    BY <2>4, <2>6, IntoMore
  <2>8. HydrateOne(pg, m) = EndAssistantMessage(stopped)
    BY <1>3 DEF HydrateOne
  <2>9. QED
    BY <2>7, <2>8
<1>4. CASE m.who = "result"
  <2>1. Into(pg, EndToolExecution(pg, a), {})
    BY ExecutionEnded
  <2>2. HydrateOne(pg, m) = EndToolExecution(pg, a)
    BY <1>4 DEF HydrateOne
  <2>3. Into(pg, pg, {a})
    BY GrowsByNothing DEF Into
  <2>4. QED
    BY <2>1, <2>2, <2>3, IntoMore
<1>5. QED
  BY <1>1, <1>2, <1>3, <1>4

\* A hydration is a run of hydrateOne over its list.
HydrationOf(f, pg, list, k) ==
  f = [n \in 0..k |-> IF n = 0 THEN pg ELSE HydrateOne(f[n - 1], list[n])]

LEMMA HydrationExists ==
  ASSUME NEW pg, NEW list, NEW k \in Nat
  PROVE  \E f : HydrationOf(f, pg, list, k)
<1> DEFINE S == {l \in Nat : ~ \E f : HydrationOf(f, pg, list, l)}
<1>1. SUFFICES ASSUME S # {} PROVE FALSE
  OBVIOUS
<1>2. S \in SUBSET Nat
  OBVIOUS
<1>3. PICK m \in S : \A y \in S : m <= y
  BY <1>1, <1>2, LeastIsThere
<1>4. CASE m = 0
  <2>1. HydrationOf([n \in 0..0 |-> pg], pg, list, 0)
    BY DEF HydrationOf
  <2>2. QED
    BY <1>3, <1>4, <2>1
<1>5. CASE m # 0
  <2>1. m - 1 \in Nat /\ m - 1 < m
    BY <1>3, <1>5
  <2>2. PICK f : HydrationOf(f, pg, list, m - 1)
    <3>1. m - 1 \notin S
      BY <1>3, <2>1
    <3>2. QED
      BY <2>1, <3>1
  <2>3. DOMAIN f = 0..(m - 1) /\ f[0] = pg /\ \A n \in 1..(m - 1) : f[n] = HydrateOne(f[n - 1], list[n])
    BY <2>1, <2>2 DEF HydrationOf
  <2> PICK g : g = [n \in 0..m |-> IF n = m THEN HydrateOne(f[m - 1], list[m]) ELSE f[n]]
    OBVIOUS
  <2>4. DOMAIN g = 0..m /\ g[0] = pg
    BY <1>3, <1>5, <2>3
  <2>5. ASSUME NEW n \in 1..m PROVE g[n] = HydrateOne(g[n - 1], list[n])
    <3>1. n - 1 \in 0..m /\ n - 1 # m /\ n \in 0..m
      BY <1>3
    <3>2. g[n - 1] = f[n - 1]
      BY <3>1
    <3>3. CASE n = m
      BY <3>1, <3>2, <3>3
    <3>4. CASE n # m
      <4>1. n \in 1..(m - 1)
        BY <1>3, <3>4
      <4>2. g[n] = f[n]
        BY <3>1, <3>4
      <4>3. QED
        BY <2>3, <3>2, <4>1, <4>2
    <3>5. QED
      BY <3>3, <3>4
  <2>6. HydrationOf(g, pg, list, m)
    <3> PICK h : h = [n \in 0..m |-> IF n = 0 THEN pg ELSE HydrateOne(g[n - 1], list[n])]
      OBVIOUS
    <3>1. ASSUME NEW n \in 0..m PROVE h[n] = g[n]
      <4>1. CASE n = 0
        BY <2>4, <4>1
      <4>2. CASE n # 0
        <5>1. n \in 1..m
          BY <1>3, <4>2
        <5>2. g[n] = HydrateOne(g[n - 1], list[n])
          BY <2>5, <5>1
        <5>3. h[n] = HydrateOne(g[n - 1], list[n])
          BY <4>2
        <5>4. QED
          BY <5>2, <5>3
      <4>3. QED
        BY <4>1, <4>2
    <3>2. g = h
      BY <2>4, <3>1
    <3>3. QED
      BY <3>2 DEF HydrationOf
  <2>7. QED
    BY <1>3, <2>6
<1>6. QED
  BY <1>4, <1>5

LEMMA ListHydrated ==
  ASSUME NEW pg, Fit(pg), NEW list \in Seq(Items), NEW A, \A i \in DOMAIN list : list[i].id \in A
  PROVE  Into(pg, Hydrate(pg, list), A)
<1> PICK k \in Nat : k = Len(list) /\ DOMAIN list = 1..k
  OBVIOUS
<1>1. PICK f : HydrationOf(f, pg, list, k) /\ Hydrate(pg, list) = f[k]
  <2> DEFINE h == CHOOSE x : HydrationOf(x, pg, list, k)
  <2>1. HydrationOf(h, pg, list, k)
    BY HydrationExists
  <2>2. Hydrate(pg, list) = h[k]
    BY DEF Hydrate, HydrationOf
  <2>3. QED
    BY <2>1, <2>2
<1>2. f[0] = pg /\ \A n \in 1..k : f[n] = HydrateOne(f[n - 1], list[n])
  BY <1>1 DEF HydrationOf
<1> DEFINE S == {n \in 0..k : ~Into(pg, f[n], A)}
<1>3. SUFFICES ASSUME S # {} PROVE FALSE
  BY <1>1
<1>4. S \in SUBSET Nat
  OBVIOUS
<1>5. PICK m \in S : \A y \in S : m <= y
  BY <1>3, <1>4, LeastIsThere
<1>6. m \in 0..k /\ ~Into(pg, f[m], A)
  OBVIOUS
<1>7. m # 0
  BY <1>2, <1>6, GrowsByNothing DEF Into
<1>8. m - 1 \in 0..k /\ m \in 1..k /\ m - 1 < m
  BY <1>6, <1>7
<1>9. Into(pg, f[m - 1], A)
  <2>1. m - 1 \notin S
    BY <1>4, <1>5, <1>8
  <2>2. QED
    BY <1>8, <2>1
<1> PICK msg : msg = list[m]
  OBVIOUS
<1>10. msg \in Items /\ msg.id \in A
  BY <1>8
<1> PICK via, to : via = f[m - 1] /\ to = f[m]
  OBVIOUS
<1>11. Into(via, to, {msg.id})
  BY <1>2, <1>8, <1>9, <1>10, OneHydrated DEF Into
<1>12. Into(via, to, A)
  BY <1>10, <1>11 DEF Into, Grows
<1>13. Into(pg, to, A)
  BY <1>9, <1>12, IntoMore
<1>14. QED
  BY <1>6, <1>13

\* message_start of a user: when no bubble waits a row with its own time, or none; else the
\* bubble gets the time.
Begun(pg, to, p) ==
  /\ Fit(to) /\ to.waiting = 0
  /\ pg.waiting <= 0 => Grows(pg, to, {p})
  /\ pg.waiting > 0 =>
       /\ Len(to.rows) = Len(pg.rows)
       /\ \A i \in DOMAIN pg.rows :
            /\ to.rows[i].who = pg.rows[i].who /\ to.rows[i].id = pg.rows[i].id
            /\ to.rows[i].ts = IF i = pg.waiting THEN p ELSE pg.rows[i].ts

LEMMA PromptBegun ==
  ASSUME NEW pg, Fit(pg), NEW p \in PromptIds
  PROVE  Begun(pg, UserStarts(pg, p), p)
<1>1. pg \in [rows : Seq(Row), current : Nat, waiting : Int] /\ pg.waiting >= Gone
  BY DEF Fit
<1> PICK to : to = UserStarts(pg, p)
  OBVIOUS
<1>2. CASE pg.waiting = 0
  <2>1. to = AddUserMessage(pg, p, p)
    BY <1>2 DEF UserStarts, Gone
  <2>2. Fit(to) /\ Grows(pg, to, {p}) /\ to.waiting = 0
    BY <2>1, BubbleAdded
  <2>3. QED
    BY <1>2, <2>2 DEF Begun
<1>3. CASE pg.waiting = Gone
  <2>1. to = [rows |-> pg.rows, current |-> pg.current, waiting |-> 0]
    BY <1>1, <1>3 DEF UserStarts, Gone
  <2>2. Fit(to)
    BY <1>1, <2>1 DEF Fit, Gone
  <2>3. Grows(pg, to, {p})
    BY <1>1, <2>1 DEF Grows
  <2>4. QED
    BY <1>3, <2>1, <2>2, <2>3 DEF Gone, Begun
<1>4. CASE pg.waiting > 0
  <2> PICK w : w = pg.waiting
    OBVIOUS
  <2> PICK n \in Nat : n = Len(pg.rows) /\ DOMAIN pg.rows = 1..n
    BY <1>1
  <2>1. w \in 1..n /\ pg.rows[w] \in Row /\ pg.rows[w].who = "user"
    BY <1>1, <1>4 DEF Fit
  <2> PICK r : r = [pg.rows[w] EXCEPT !.ts = p]
    OBVIOUS
  <2>2. r \in Row /\ r.who = "user" /\ r.id = pg.rows[w].id /\ r.ts = p
    BY <2>1 DEF Row
  <2> PICK rs : rs = [pg.rows EXCEPT ![w] = r]
    OBVIOUS
  <2>3. rs \in Seq(Row) /\ Len(rs) = n /\ \A i \in 1..n : rs[i] = IF i = w THEN r ELSE pg.rows[i]
    <3>1. pg.rows \in Seq(Row)
      BY <1>1
    <3>2. rs \in Seq(Row) /\ Len(rs) = n
      BY <2>1, <2>2, <3>1
    <3>3. QED
      BY <3>1, <3>2
  <2>4. to = [pg EXCEPT !.rows = rs, !.waiting = 0]
    BY <1>1, <1>4 DEF UserStarts, Gone
  <2>5. to = [rows |-> rs, current |-> pg.current, waiting |-> 0]
    BY <1>1, <2>4
  <2>6. to.current # 0 => to.rows[to.current].who = "assistant"
    <3>1. pg.current # 0 => pg.current \in 1..n /\ pg.rows[pg.current].who = "assistant"
      BY <1>1 DEF Fit
    <3>2. QED
      BY <2>1, <2>3, <2>5, <3>1
  <2>7. Fit(to)
    <3>1. to \in [rows : Seq(Row), current : Nat, waiting : Int]
      BY <1>1, <2>3, <2>5
    <3>2. to.current <= Len(to.rows) /\ to.waiting = 0 /\ Len(to.rows) >= 0
      BY <2>3, <2>5 DEF Fit
    <3>3. QED
      BY <2>6, <3>1, <3>2 DEF Fit, Gone
  <2>8. \A i \in 1..n : to.rows[i].who = pg.rows[i].who /\ to.rows[i].id = pg.rows[i].id
                        /\ to.rows[i].ts = IF i = w THEN p ELSE pg.rows[i].ts
    BY <2>1, <2>2, <2>3, <2>5
  <2>9. QED
    BY <1>4, <2>3, <2>5, <2>7, <2>8 DEF Begun
<1>5. QED
  BY <1>1, <1>2, <1>3, <1>4 DEF Gone

--------------------------------------------------------------------------------
\* Steps of pi

\* The page of a state, and the one the page becomes.
LEMMA PageFits ==
  ASSUME Types
  PROVE  /\ Fit(Page) /\ Page.rows = rows /\ Page.current = current /\ Page.waiting = waiting
         /\ rows \in Seq(Row) /\ current \in Nat /\ waiting \in Int
<1>1. Page.rows = rows /\ Page.current = current /\ Page.waiting = waiting
  BY DEF Page
<1>2. QED
  BY <1>1 DEF Types, Fit

LEMMA PageBecomes ==
  ASSUME NEW pg, Fit(pg), SetPage(pg)
  PROVE  Page' = pg /\ Fit(Page)'
<1>1. pg \in [rows : Seq(Row), current : Nat, waiting : Int]
  BY DEF Fit
<1>2. Page' = [rows |-> pg.rows, current |-> pg.current, waiting |-> pg.waiting]
  BY DEF SetPage, Page
<1>3. Page' = pg
  BY <1>1, <1>2
<1>4. Fit(Page)' <=> Fit(Page')
  BY DEF Fit
<1>5. QED
  BY <1>3, <1>4

\* A page that only grows: whose the rows are, and that the bubbles' times are their own.
LEMMA RowsGrow ==
  ASSUME Types, NEW A, NEW pg, Into(Page, pg, A), SetPage(pg)
  PROVE  /\ Fit(Page)' /\ rows \in Seq(Row) /\ rows' \in Seq(Row) /\ waiting' \in {waiting, 0}
         /\ Len(rows) <= Len(rows')
         /\ \A i \in DOMAIN rows : rows'[i].id = rows[i].id /\ rows'[i].who = rows[i].who
         /\ \A i \in DOMAIN rows' : rows'[i].id \in A \/ (i \in DOMAIN rows /\ rows'[i].id = rows[i].id)
         /\ (\A i \in DOMAIN rows : rows[i].who = "user" => rows[i].ts \in {Unset, rows[i].id})
              => \A i \in DOMAIN rows' : rows'[i].who = "user" => rows'[i].ts \in {Unset, rows'[i].id}
<1>1. Page' = pg /\ Fit(Page)'
  BY PageBecomes DEF Into
<1>2. rows' = pg.rows /\ waiting' = pg.waiting /\ rows' \in Seq(Row)
  BY DEF SetPage, Into, Fit
<1>3. Page.rows = rows /\ Page.waiting = waiting /\ rows \in Seq(Row)
  BY PageFits
<1> PICK n \in Nat, m \in Nat : n = Len(rows) /\ m = Len(rows') /\ DOMAIN rows = 1..n /\ DOMAIN rows' = 1..m
  BY <1>2, <1>3
<1>4. /\ n <= m
      /\ \A i \in 1..n : rows'[i].who = rows[i].who /\ rows'[i].id = rows[i].id /\ rows'[i].ts = rows[i].ts
      /\ \A i \in (n + 1)..m : rows'[i].id \in A /\ (rows'[i].who = "user" => rows'[i].ts = rows'[i].id)
      /\ waiting' \in {waiting, 0}
  BY <1>2, <1>3 DEF Into, Grows
<1>5. \A i \in 1..m : i \in 1..n \/ i \in (n + 1)..m
  OBVIOUS
<1>6. \A i \in DOMAIN rows' : rows'[i].id \in A \/ (i \in DOMAIN rows /\ rows'[i].id = rows[i].id)
  BY <1>4, <1>5
<1>7. (\A i \in DOMAIN rows : rows[i].who = "user" => rows[i].ts \in {Unset, rows[i].id})
        => \A i \in DOMAIN rows' : rows'[i].who = "user" => rows'[i].ts \in {Unset, rows'[i].id}
  BY <1>4, <1>5
<1>8. QED
  BY <1>1, <1>2, <1>3, <1>4, <1>6, <1>7

\* A message that is not of the past goes to the end of the conversation.
LEMMA HistoryGoesOn ==
  ASSUME Types, Ordered(history), Clean(history), NEW p \in PromptIds, NEW m \in Items, m.id = p,
         \A i \in DOMAIN history :
           history[i].id <= p /\ (m.who = "user" => history[i].id # p),
         p \notin past, past' = past, history' = Append(history, m)
  PROVE  /\ history' \in Seq(Items) /\ Ordered(history)' /\ Clean(history)'
         /\ \A i \in DOMAIN history' : history'[i].id <= p
<1>1. history \in Seq(Items)
  BY DEF Types
<1> PICK n \in Nat : n = Len(history) /\ DOMAIN history = 1..n
  BY <1>1
<1>2. /\ history' \in Seq(Items) /\ DOMAIN history' = 1..(n + 1)
      /\ history'[n + 1] = m /\ \A i \in 1..n : history'[i] = history[i]
  BY <1>1
<1>3. \A i \in 1..(n + 1) : i \in 1..n \/ i = n + 1
  OBVIOUS
<1>4. p \in Int
  BY DEF PromptIds
<1>5. \A i \in DOMAIN history' : history'[i].id <= p /\ history'[i].id \notin past
  BY <1>2, <1>3, <1>4 DEF Clean
<1>6. ASSUME NEW i \in DOMAIN history', NEW j \in 1..(i - 1)
      PROVE  history'[j].id <= history'[i].id
             /\ (history'[i].who = "user" => history'[j].id # history'[i].id)
  <2>1. CASE i = n + 1
    <3>1. j \in 1..n
      BY <2>1
    <3>2. QED
      BY <1>2, <2>1, <3>1
  <2>2. CASE i \in 1..n
    <3>1. j \in 1..n /\ j \in 1..(i - 1)
      BY <2>2
    <3>2. QED
      BY <1>2, <2>2, <3>1 DEF Ordered
  <2>3. QED
    BY <1>2, <1>3, <2>1, <2>2
<1>7. QED
  BY <1>2, <1>5, <1>6 DEF Ordered, Clean

\* What pi prints of its reply, or of the tool it runs.
LEMMA PrintsKeeps ==
  ASSUME PageInv, NEW pg, Into(Page, pg, {turn}), Prints(pg), phase # "idle",
         phase' \in Phases \ {"idle"}, block' \in Blocks,
         turn' = turn, queue' = queue, streaming' = streaming,
         history' = history \/ \E m \in Items : m.id = turn /\ m.who # "user" /\ history' = Append(history, m)
  PROVE  PageInv'
<1>1. Types /\ Numbers /\ LeftBehind /\ Times /\ Status
  BY DEF PageInv
<1>2. /\ SetPage(pg) /\ upset \subseteq upset'
      /\ loading' = loading /\ frames' = frames /\ hydrationId' = hydrationId /\ sent' = sent
      /\ asked' = asked /\ held' = held /\ typed' = typed /\ past' = past
  BY DEF Prints, wayVars, bounds
<1>3. turn \in PromptIds /\ turn \notin past
  BY <1>1, PageAssumption DEF Types, LeftBehind, PromptIds
<1>4. /\ history' \in Seq(Items) /\ Ordered(history)' /\ Clean(history)'
      /\ \A i \in DOMAIN history' : history'[i].id <= turn
  <2>1. CASE history' = history
    BY <1>1, <1>2, <2>1 DEF Types, LeftBehind, Told, Ordered, Clean, Numbers
  <2>2. ASSUME NEW m \in Items, m.id = turn, m.who # "user", history' = Append(history, m)
        PROVE  /\ history' \in Seq(Items) /\ Ordered(history)' /\ Clean(history)'
               /\ \A i \in DOMAIN history' : history'[i].id <= turn
    <3> PICK p : p = turn
      OBVIOUS
    <3>1. p \in PromptIds /\ p \notin past /\ m.id = p
      BY <1>3, <2>2
    <3>2. \A i \in DOMAIN history : history[i].id <= p /\ (m.who = "user" => history[i].id # p)
      BY <1>1, <2>2 DEF Numbers
    <3>3. Ordered(history) /\ Clean(history)
      BY <1>1 DEF LeftBehind
    <3>4. QED
      BY <1>1, <1>2, <2>2, <3>1, <3>2, <3>3, HistoryGoesOn
  <2>3. QED
    BY <2>1, <2>2
<1>5. /\ Fit(Page)' /\ rows' \in Seq(Row) /\ waiting' \in {waiting, 0}
      /\ \A i \in DOMAIN rows' : rows'[i].id = turn \/ (i \in DOMAIN rows /\ rows'[i].id = rows[i].id)
      /\ (\A i \in DOMAIN rows : rows[i].who = "user" => rows[i].ts \in {Unset, rows[i].id})
           => \A i \in DOMAIN rows' : rows'[i].who = "user" => rows'[i].ts \in {Unset, rows'[i].id}
  <2> PICK A : A = {turn}
    OBVIOUS
  <2>1. Into(Page, pg, A)
    OBVIOUS
  <2>2. QED
    BY <1>1, <1>2, <2>1, RowsGrow
<1>6. Types'
  BY <1>1, <1>2, <1>4, <1>5 DEF Types
<1>7. Numbers'
  BY <1>1, <1>2, <1>4 DEF Numbers
<1>8. LeftBehind'
  <2>1. Told /\ held = <<>> => Clean(rows)'
    BY <1>1, <1>2, <1>3, <1>5 DEF LeftBehind, Told, Clean
  <2>2. QED
    BY <1>1, <1>2, <1>3, <1>4, <2>1 DEF LeftBehind, Told, Clean
<1>9. Times'
  <2>1. upset' \cap {"error", "command", "crossed"} = {} => upset \cap {"error", "command", "crossed"} = {}
    BY <1>2
  <2>2. upset \cap {"error", "command", "crossed"} = {} => ~(waiting > 0)
    BY <1>1 DEF Times, BubbleIsNext
  <2>3. upset' \cap {"error", "command", "crossed"} = {} => ~(waiting' > 0)
    BY <1>5, <2>1, <2>2
  <2>4. QED
    BY <1>1, <1>5, <2>1, <2>3 DEF Times, BubbleIsNext
<1>10. Status'
  BY <1>1, <1>2 DEF Status, TurnIsShown
<1>11. QED
  BY <1>6, <1>7, <1>8, <1>9, <1>10 DEF PageInv

\* The next prompt in line becomes a message: the bubble that waits, if one does, is its own.
LEMMA BeginsKeeps ==
  ASSUME PageInv, NEW p \in Typed, BeginsMessage(p), turn < p, p <= typed,
         queue' \in Seq(Typed), sent' \in Seq(Sent),
         streaming' \in BOOLEAN, streaming' \/ "error" \in upset,
         \A k \in DOMAIN queue' : p < queue'[k] /\ queue'[k] <= typed,
         \A k, l \in DOMAIN queue' : k < l => queue'[k] < queue'[l],
         \A i \in DOMAIN sent' : p < sent'[i].id /\ sent'[i].id <= typed,
         \A k \in DOMAIN queue', i \in DOMAIN sent' : queue'[k] < sent'[i].id,
         \A i, j \in DOMAIN sent' : i < j => sent'[i].id < sent'[j].id,
         upset \cap {"error", "command", "crossed"} = {} /\ waiting > 0 => rows[waiting].id = p
  PROVE  PageInv'
<1>1. Types /\ Numbers /\ LeftBehind /\ Times /\ Status
  BY DEF PageInv
<1>2. /\ turn' = p /\ phase' = "asked" /\ block' = "none" /\ upset \subseteq upset'
      /\ loading' = loading /\ frames' = frames /\ hydrationId' = hydrationId
      /\ asked' = asked /\ held' = held /\ typed' = typed /\ past' = past
      /\ history' = Append(history, Item("user", p))
      /\ SetPage(UserStarts(Page, p))
  BY DEF BeginsMessage, bounds
<1>3. p \in PromptIds /\ p \in Nat /\ turn \in Nat /\ p \in 0..typed
  BY <1>1, PageAssumption DEF Typed, PromptIds, Types
<1>4. p \notin past
  BY <1>1, <1>3 DEF LeftBehind, Types, PromptIds
<1>5. /\ history' \in Seq(Items) /\ Ordered(history)' /\ Clean(history)'
      /\ \A i \in DOMAIN history' : history'[i].id <= p
  <2> PICK m : m = Item("user", p)
    OBVIOUS
  <2>1. m \in Items /\ m.id = p
    BY <1>3 DEF Item, Items, Blocks
  <2>2. \A i \in DOMAIN history : history[i].id \in Int
    <3>1. history \in Seq(Items)
      BY <1>1 DEF Types
    <3>2. \A i \in DOMAIN history : history[i] \in Items
      BY <3>1
    <3>3. QED
      BY <3>2 DEF Items, PromptIds
  <2>3. \A i \in DOMAIN history : history[i].id <= p /\ (m.who = "user" => history[i].id # p)
    BY <1>1, <1>3, <2>2 DEF Numbers
  <2>4. Ordered(history) /\ Clean(history)
    BY <1>1 DEF LeftBehind
  <2>5. QED
    BY <1>1, <1>2, <1>3, <1>4, <2>1, <2>3, <2>4, HistoryGoesOn
<1> PICK pg, to : pg = Page /\ to = UserStarts(Page, p)
  OBVIOUS
<1>6. /\ Fit(pg) /\ pg.rows = rows /\ pg.waiting = waiting
      /\ rows \in Seq(Row) /\ waiting \in Int /\ waiting <= Len(rows)
  BY <1>1, PageFits DEF Fit
<1>7. /\ Fit(to) /\ to.waiting = 0
      /\ waiting <= 0 => Grows(pg, to, {p})
      /\ waiting > 0 =>
           /\ Len(to.rows) = Len(rows)
           /\ \A i \in DOMAIN rows :
                /\ to.rows[i].who = rows[i].who /\ to.rows[i].id = rows[i].id
                /\ to.rows[i].ts = IF i = waiting THEN p ELSE rows[i].ts
  <2>1. to = UserStarts(pg, p)
    OBVIOUS
  <2>2. Begun(pg, to, p)
    BY <1>3, <1>6, <2>1, PromptBegun
  <2>3. QED
    BY <1>6, <2>2 DEF Begun
<1>8. Fit(Page)' /\ rows' = to.rows /\ waiting' = 0
  BY <1>2, <1>7, PageBecomes DEF SetPage
<1>9. /\ \A i \in DOMAIN rows' : rows'[i].id = p \/ (i \in DOMAIN rows /\ rows'[i].id = rows[i].id)
      /\ upset \cap {"error", "command", "crossed"} = {} =>
           \A i \in DOMAIN rows' : rows'[i].who = "user" => rows'[i].ts \in {Unset, rows'[i].id}
  <2>1. CASE waiting <= 0
    <3> PICK A : A = {p}
      OBVIOUS
    <3>1. Into(Page, to, A) /\ SetPage(to)
      BY <1>2, <1>7, <2>1 DEF Into
    <3>2. QED
      BY <1>1, <3>1, RowsGrow DEF Times
  <2>2. CASE waiting > 0
    <3>1. rows' \in Seq(Row) /\ DOMAIN rows' = DOMAIN rows
      BY <1>6, <1>7, <1>8, <2>2 DEF Fit
    <3>2. \A i \in DOMAIN rows' : rows'[i].who = rows[i].who /\ rows'[i].id = rows[i].id
                                  /\ rows'[i].ts = IF i = waiting THEN p ELSE rows[i].ts
      BY <1>7, <1>8, <2>2, <3>1
    <3>3. QED
      BY <1>1, <2>2, <3>1, <3>2 DEF Times
  <2>3. QED
    BY <1>6, <2>1, <2>2
<1>10. Types'
  BY <1>1, <1>2, <1>3, <1>5, <1>8 DEF Types, Phases, Blocks
<1>11. Numbers'
  BY <1>2, <1>5 DEF Numbers
<1>12. LeftBehind'
  <2>1. Told /\ held = <<>> => Clean(rows)'
    BY <1>1, <1>2, <1>4, <1>9 DEF LeftBehind, Told, Clean
  <2>2. \A q \in past : q <= p
    BY <1>1, <1>3 DEF LeftBehind, Types, PromptIds
  <2>3. QED
    BY <1>1, <1>2, <1>4, <1>5, <2>1, <2>2 DEF LeftBehind, Told, Clean
<1>13. Times'
  BY <1>1, <1>2, <1>8, <1>9 DEF Times, BubbleIsNext
<1>14. Status'
  BY <1>1, <1>2 DEF Status, TurnIsShown
<1>15. QED
  BY <1>10, <1>11, <1>12, <1>13, <1>14 DEF PageInv

LEMMA StartsKeeps ==
  ASSUME PageInv, Starts
  PROVE  PageInv'
<1> PICK pg : pg = StartAssistantMessage(Page, turn, turn)
  OBVIOUS
<1>1. turn \in PromptIds /\ Fit(Page)
  BY PageAssumption DEF PageInv, Types, PromptIds
<1>2. Into(Page, pg, {turn})
  BY <1>1, ReplyStarted DEF Into
<1>3. block \in Blocks /\ "writing" \in Phases \ {"idle"}
  BY DEF PageInv, Types, Phases
<1>4. QED
  BY <1>2, <1>3, PrintsKeeps DEF Starts

LEMMA WritesKeeps ==
  ASSUME PageInv, Writes
  PROVE  PageInv'
<1> PICK pg : pg = EnsureBlock(Page, turn, "text")
  OBVIOUS
<1>1. turn \in PromptIds /\ Fit(Page)
  BY PageAssumption DEF PageInv, Types, PromptIds
<1>2. Into(Page, pg, {turn})
  BY <1>1, BlockEnsured DEF Into, Blocks
<1>3. "text" \in Phases \ {"idle"} /\ "text" \in Blocks
  BY DEF Phases, Blocks
<1>4. QED
  BY <1>2, <1>3, PrintsKeeps DEF Writes

LEMMA CallsKeeps ==
  ASSUME PageInv, Calls
  PROVE  PageInv'
<1> PICK at : at = EnsureBlock(Page, turn, "tool")
  OBVIOUS
<1> PICK c : c = at.current
  OBVIOUS
<1> PICK pg : pg = [at EXCEPT !.rows[c].state = "running"]
  OBVIOUS
<1>1. turn \in PromptIds /\ Fit(Page)
  BY PageAssumption DEF PageInv, Types, PromptIds
<1>2. Into(Page, at, {turn}) /\ c \in DOMAIN at.rows
  BY <1>1, BlockEnsured DEF Into, Blocks
<1>3. Into(at, pg, {})
  BY <1>2, RowWritten DEF Into, Rewritten
<1>4. Into(Page, pg, {turn})
  <2> PICK from, A : from = Page /\ A = {turn}
    OBVIOUS
  <2>1. Into(from, pg, A)
    BY <1>1, <1>2, <1>3, IntoMore
  <2>2. QED
    BY <2>1
<1>5. "calling" \in Phases \ {"idle"} /\ "tool" \in Blocks
  BY DEF Phases, Blocks
<1>6. Prints(pg)
  BY DEF Calls
<1>7. QED
  BY <1>4, <1>5, <1>6, PrintsKeeps DEF Calls

LEMMA CallEndsKeeps ==
  ASSUME PageInv, CallEnds
  PROVE  PageInv'
<1> PICK pg : pg = FinalizeToolCall(Page, turn)
  OBVIOUS
<1>1. turn \in PromptIds /\ Fit(Page)
  BY PageAssumption DEF PageInv, Types, PromptIds
<1>2. Into(Page, pg, {turn})
  BY <1>1, CallFinalized
<1>3. block \in Blocks /\ "called" \in Phases \ {"idle"}
  BY DEF PageInv, Types, Phases
<1>4. QED
  BY <1>2, <1>3, PrintsKeeps DEF CallEnds

LEMMA ReplyEndsKeeps ==
  ASSUME PageInv, NEW stopped \in BOOLEAN, ReplyEnds(stopped)
  PROVE  PageInv'
<1> PICK via, pg : via = ApplyStopError(Page, stopped) /\ pg = EndAssistantMessage(via)
  OBVIOUS
<1>1. turn \in PromptIds /\ Fit(Page) /\ block \in Blocks
  BY PageAssumption DEF PageInv, Types, PromptIds
<1>2. Into(Page, pg, {turn})
  <2> PICK from, A : from = Page /\ A = {turn}
    OBVIOUS
  <2>1. Into(from, via, {})
    BY <1>1, StopErrorApplied
  <2>2. Into(via, pg, {})
    BY <2>1, ReplyClosed DEF Into
  <2>3. Into(from, from, A) /\ Fit(from)
    BY <1>1, GrowsByNothing DEF Into
  <2>4. Into(from, via, A)
    BY <2>1, <2>3, IntoMore
  <2>5. Into(from, pg, A)
    BY <2>2, <2>3, <2>4, IntoMore
  <2>6. QED
    BY <2>5
<1>3. phase' \in Phases \ {"idle"} /\ phase # "idle"
  BY DEF ReplyEnds, Phases
<1>4. \E m \in Items : m.id = turn /\ m.who # "user" /\ history' = Append(history, m)
  <2> PICK m : m = Reply(stopped)
    OBVIOUS
  <2>1. m = [who |-> "assistant", id |-> turn, block |-> block, stopped |-> stopped]
    BY DEF Reply, Item
  <2>2. m \in Items /\ m.id = turn /\ m.who # "user"
    BY <1>1, <2>1 DEF Items
  <2>3. QED
    BY <2>2 DEF ReplyEnds
<1>5. Prints(pg) /\ block' = block /\ turn' = turn /\ queue' = queue /\ streaming' = streaming
  BY DEF ReplyEnds
<1>6. QED
  BY <1>1, <1>2, <1>3, <1>4, <1>5, PrintsKeeps

LEMMA RunsToolKeeps ==
  ASSUME PageInv, RunsTool
  PROVE  PageInv'
<1> PICK pg : pg = StartToolExecution(Page, turn)
  OBVIOUS
<1>1. turn \in PromptIds /\ Fit(Page)
  BY PageAssumption DEF PageInv, Types, PromptIds
<1>2. Into(Page, pg, {turn})
  BY <1>1, ExecutionStarted
<1>3. block \in Blocks /\ "running" \in Phases \ {"idle"}
  BY DEF PageInv, Types, Phases
<1>4. QED
  BY <1>2, <1>3, PrintsKeeps DEF RunsTool

LEMMA ToolEndsKeeps ==
  ASSUME PageInv, ToolEnds
  PROVE  PageInv'
<1> PICK pg : pg = EndToolExecution(Page, turn)
  OBVIOUS
<1>1. turn \in PromptIds /\ Fit(Page) /\ block \in Blocks
  BY PageAssumption DEF PageInv, Types, PromptIds
<1>2. Into(Page, pg, {turn})
  <2> PICK from, A : from = Page /\ A = {turn}
    OBVIOUS
  <2>1. Into(from, pg, {})
    BY <1>1, ExecutionEnded
  <2>2. Into(from, from, A) /\ Fit(from)
    BY <1>1, GrowsByNothing DEF Into
  <2>3. Into(from, pg, A)
    BY <2>1, <2>2, IntoMore
  <2>4. QED
    BY <2>3
<1>3. \E m \in Items : m.id = turn /\ m.who # "user" /\ history' = Append(history, m)
  <2> PICK m : m = Item("result", turn)
    OBVIOUS
  <2>1. m \in Items /\ m.id = turn /\ m.who # "user"
    BY <1>1 DEF Item, Items, Blocks
  <2>2. QED
    BY <2>1 DEF ToolEnds
<1>4. "over" \in Phases \ {"idle"}
  BY DEF Phases
<1>5. QED
  BY <1>1, <1>2, <1>3, <1>4, PrintsKeeps DEF ToolEnds

\* The first of a line, and the rest of it.
LEMMA RestOfList ==
  ASSUME NEW S, NEW s \in Seq(S), s # <<>>
  PROVE  /\ Head(s) = s[1] /\ 1 \in DOMAIN s /\ Head(s) \in S
         /\ Tail(s) \in Seq(S) /\ Len(Tail(s)) = Len(s) - 1 /\ Len(s) \in Nat
         /\ \A i \in DOMAIN Tail(s) : i + 1 \in DOMAIN s /\ Tail(s)[i] = s[i + 1]
         /\ \A i \in DOMAIN s : i # 1 => i - 1 \in DOMAIN Tail(s) /\ Tail(s)[i - 1] = s[i]
<1> PICK n \in Nat : n = Len(s) /\ DOMAIN s = 1..n
  OBVIOUS
<1>1. n >= 1
  OBVIOUS
<1>2. Head(s) = s[1] /\ 1 \in 1..n /\ s[1] \in S
  BY <1>1
<1>3. Tail(s) \in Seq(S) /\ Len(Tail(s)) = n - 1 /\ \A i \in 1..(n - 1) : Tail(s)[i] = s[i + 1]
  BY <1>1, HeadTailProperties
<1>4. DOMAIN Tail(s) = 1..(n - 1)
  BY <1>3
<1>5. \A i \in 1..(n - 1) : i + 1 \in 1..n
  OBVIOUS
<1>6. \A i \in 1..n : i # 1 => i - 1 \in 1..(n - 1) /\ (i - 1) + 1 = i
  OBVIOUS
<1>7. QED
  BY <1>2, <1>3, <1>4, <1>5, <1>6

\* pi reads the first of what is on its way.
LEMMA SentIsTaken ==
  ASSUME Types, Numbers, sent # <<>>, sent' = Tail(sent)
  PROVE  /\ sent' \in Seq(Sent) /\ Head(sent) = sent[1] /\ 1 \in DOMAIN sent /\ Head(sent) \in Sent
         /\ turn < Head(sent).id /\ Head(sent).id <= typed
         /\ \A k \in DOMAIN queue : queue[k] < Head(sent).id
         /\ \A i \in DOMAIN sent' : Head(sent).id < sent'[i].id
         /\ \A i \in DOMAIN sent' : i + 1 \in DOMAIN sent /\ sent'[i] = sent[i + 1]
         /\ \A i \in DOMAIN sent : i # 1 => i - 1 \in DOMAIN sent' /\ sent'[i - 1] = sent[i]
         /\ \A i, j \in DOMAIN sent' : i < j => sent'[i].id < sent'[j].id
         /\ DOMAIN sent \subseteq Nat \ {0} /\ DOMAIN sent' \subseteq Nat \ {0}
<1>1. sent \in Seq(Sent)
  BY DEF Types
<1>2. /\ Head(sent) = sent[1] /\ 1 \in DOMAIN sent /\ Head(sent) \in Sent
      /\ sent' \in Seq(Sent)
      /\ \A i \in DOMAIN sent' : i + 1 \in DOMAIN sent /\ sent'[i] = sent[i + 1]
      /\ \A i \in DOMAIN sent : i # 1 => i - 1 \in DOMAIN sent' /\ sent'[i - 1] = sent[i]
  BY <1>1, RestOfList
<1>3. DOMAIN sent \subseteq Nat \ {0} /\ DOMAIN sent' \subseteq Nat \ {0}
  BY <1>1, <1>2
<1>4. \A i \in DOMAIN sent' : Head(sent).id < sent'[i].id
  <2> TAKE i \in DOMAIN sent'
  <2>1. 1 < i + 1 /\ i + 1 \in DOMAIN sent
    BY <1>2, <1>3
  <2>2. QED
    BY <1>2, <2>1 DEF Numbers
<1>5. \A i, j \in DOMAIN sent' : i < j => sent'[i].id < sent'[j].id
  <2> TAKE i, j \in DOMAIN sent'
  <2>1. i < j => i + 1 < j + 1
    BY <1>3
  <2>2. QED
    BY <1>2, <2>1 DEF Numbers
<1>6. QED
  BY <1>2, <1>3, <1>4, <1>5 DEF Numbers

\* An error while nothing else changes but what is on its way.
LEMMA ErrorKeeps ==
  ASSUME PageInv, Error, sent' = sent \/ (sent # <<>> /\ sent' = Tail(sent)),
         sent' = sent \/ phase # "idle",
         UNCHANGED <<asked, held, turnVars, typed>>
  PROVE  PageInv'
<1>1. Types /\ Numbers /\ LeftBehind /\ Times /\ Status
  BY DEF PageInv
<1>2. /\ streaming' = FALSE /\ upset \subseteq upset'
      /\ rows' = rows /\ current' = current /\ waiting' = waiting /\ loading' = loading
      /\ frames' = frames /\ hydrationId' = hydrationId /\ typed' = typed
      /\ asked' = asked /\ held' = held /\ phase' = phase /\ turn' = turn /\ block' = block
      /\ queue' = queue /\ history' = history /\ past' = past
      /\ "error" \in upset' \/ (phase = "idle" /\ sent = <<>>)
  BY DEF Error, ErrorCause, turnVars
<1>3. Types'
  <2>1. sent' \in Seq(Sent)
    BY <1>1, SentIsTaken DEF Types
  <2>2. Fit(Page)'
    BY <1>1, <1>2 DEF Types, Fit, Page
  <2>3. QED
    BY <1>1, <1>2, <2>1, <2>2 DEF Types
<1>4. Numbers'
  BY <1>1, <1>2, SentIsTaken DEF Numbers
<1>5. LeftBehind'
  BY <1>1, <1>2 DEF LeftBehind, Told, Ordered, Clean
<1>6. Times'
  <2>1. CASE "error" \in upset'
    BY <2>1 DEF Times
  <2>2. CASE phase = "idle" /\ sent = <<>> /\ "error" \notin upset'
    <3>1. sent' = sent /\ Prompts' = {}
      BY <2>2 DEF Prompts
    <3>2. BubbleIsNext'
      BY <1>2, <2>2, <3>1 DEF BubbleIsNext
    <3>3. QED
      BY <1>1, <1>2, <3>2 DEF Times
  <2>3. QED
    BY <1>2, <2>1, <2>2
<1>7. Status'
  BY <1>1, <1>2 DEF Status, TurnIsShown
<1>8. QED
  BY <1>3, <1>4, <1>5, <1>6, <1>7 DEF PageInv

LEMMA OtherErrorKeeps ==
  ASSUME PageInv, OtherError
  PROVE  PageInv'
BY ErrorKeeps DEF OtherError, wayVars

LEMMA TakesPromptKeeps ==
  ASSUME PageInv, TakesPrompt
  PROVE  PageInv'
<1>1. Types /\ Numbers /\ LeftBehind /\ Times /\ Status
  BY DEF PageInv
<1>2. sent # <<>> /\ sent' = Tail(sent)
  BY DEF TakesPrompt
<1>3. /\ sent' \in Seq(Sent) /\ Head(sent) = sent[1] /\ 1 \in DOMAIN sent /\ Head(sent) \in Sent
      /\ turn < Head(sent).id /\ Head(sent).id <= typed
      /\ \A k \in DOMAIN queue : queue[k] < Head(sent).id
      /\ \A i \in DOMAIN sent' : Head(sent).id < sent'[i].id
      /\ \A i \in DOMAIN sent' : i + 1 \in DOMAIN sent /\ sent'[i] = sent[i + 1]
      /\ \A i \in DOMAIN sent : i # 1 => i - 1 \in DOMAIN sent' /\ sent'[i - 1] = sent[i]
      /\ \A i, j \in DOMAIN sent' : i < j => sent'[i].id < sent'[j].id
      /\ DOMAIN sent \subseteq Nat \ {0} /\ DOMAIN sent' \subseteq Nat \ {0}
  BY <1>1, <1>2, SentIsTaken
<1> PICK p : p = Head(sent)
  OBVIOUS
<1>4. \A i \in DOMAIN sent' : sent'[i].id <= typed
  BY <1>1, <1>3 DEF Numbers
<1>5. p \in Sent /\ p.id \in Typed
  BY <1>3 DEF Sent
<1>6. CASE p.kind # "prompt"
  <2>1. /\ UNCHANGED <<pageVars, turnVars, asked, held, bounds, upset>>
    BY <1>6 DEF TakesPrompt
  <2>2. /\ rows' = rows /\ current' = current /\ waiting' = waiting /\ loading' = loading
        /\ frames' = frames /\ hydrationId' = hydrationId /\ typed' = typed /\ streaming' = streaming
        /\ asked' = asked /\ held' = held /\ phase' = phase /\ turn' = turn /\ block' = block
        /\ queue' = queue /\ history' = history /\ past' = past /\ upset' = upset
    BY <2>1 DEF pageVars, turnVars, bounds
  <2>3. 1 \notin Prompts /\ Prompts \subseteq DOMAIN sent /\ Prompts' \subseteq DOMAIN sent'
    BY <1>3, <1>6 DEF Prompts
  <2>4. \A i \in Prompts : i - 1 \in Prompts' /\ sent'[i - 1] = sent[i]
    BY <1>3, <2>3 DEF Prompts
  <2>5. \A i \in Prompts' : i + 1 \in Prompts
    BY <1>3 DEF Prompts
  <2>6. Types'
    <3>1. Fit(Page)'
      BY <1>1, <2>2 DEF Types, Fit, Page
    <3>2. QED
      BY <1>1, <1>3, <2>2, <3>1 DEF Types
  <2>7. Numbers'
    BY <1>1, <1>3, <1>4, <2>2 DEF Numbers
  <2>8. LeftBehind'
    BY <1>1, <2>2 DEF LeftBehind, Told, Ordered, Clean
  <2>9. BubbleIsNext => BubbleIsNext'
    <3>1. SUFFICES ASSUME BubbleIsNext, waiting > 0
                   PROVE  \/ Prompts' = {} /\ ~streaming
                          \/ \E i \in Prompts' : (\A j \in Prompts' : i <= j) /\ sent'[i].id = rows[waiting].id
      BY <2>2 DEF BubbleIsNext
    <3>2. CASE Prompts = {} /\ ~streaming
      BY <2>5, <3>2
    <3>3. ASSUME NEW i \in Prompts, \A j \in Prompts : i <= j, sent[i].id = rows[waiting].id
          PROVE  \E k \in Prompts' : (\A j \in Prompts' : k <= j) /\ sent'[k].id = rows[waiting].id
      <4>1. i - 1 \in Prompts' /\ sent'[i - 1].id = rows[waiting].id
        BY <2>4, <3>3
      <4>2. ASSUME NEW j \in Prompts' PROVE i - 1 <= j
        <5>1. i <= j + 1 /\ j \in Nat /\ i \in Nat
          BY <1>3, <2>3, <2>5, <3>3
        <5>2. QED
          BY <5>1
      <4>3. QED
        BY <4>1, <4>2
    <3>4. QED
      BY <3>1, <3>2, <3>3 DEF BubbleIsNext
  <2>10. Times'
    BY <1>1, <2>2, <2>9 DEF Times
  <2>11. Status'
    BY <1>1, <2>2, <2>4 DEF Status, TurnIsShown
  <2>12. QED
    BY <2>6, <2>7, <2>8, <2>10, <2>11 DEF PageInv
<1>7. CASE p.kind = "prompt" /\ phase = "idle"
  <2>1. BeginsMessage(p.id) /\ streaming' = TRUE /\ queue' = queue
    BY <1>7 DEF TakesPrompt
  <2>2. queue' = <<>> /\ DOMAIN queue' = {}
    BY <1>1, <1>7, <2>1 DEF Status
  <2>3. upset \cap {"error", "command", "crossed"} = {} /\ waiting > 0 => rows[waiting].id = p.id
    <3>1. 1 \in Prompts /\ Prompts \subseteq Nat \ {0}
      BY <1>3, <1>7 DEF Prompts
    <3>2. BubbleIsNext /\ waiting > 0 => \E i \in Prompts : i <= 1 /\ sent[i].id = rows[waiting].id
      BY <3>1 DEF BubbleIsNext
    <3>3. BubbleIsNext /\ waiting > 0 => rows[waiting].id = p.id
      BY <1>3, <3>1, <3>2
    <3>4. QED
      BY <1>1, <3>3 DEF Times
  <2> PICK q : q = p.id
    OBVIOUS
  <2>4. queue' \in Seq(Typed) /\ sent' \in Seq(Sent)
    BY <1>3, <2>2
  <2>5. q \in Typed /\ BeginsMessage(q) /\ turn < q /\ q <= typed
    BY <1>3, <1>5, <2>1
  <2>6. QED
    BY <1>3, <1>4, <2>1, <2>2, <2>3, <2>4, <2>5, BeginsKeeps
<1>8. CASE p.kind = "prompt" /\ phase # "idle" /\ p.steers
  <2>1. queue' = Append(queue, p.id)
        /\ UNCHANGED <<pageVars, phase, turn, block, history, past, asked, held, bounds, upset>>
    BY <1>8 DEF TakesPrompt
  <2>2. /\ rows' = rows /\ current' = current /\ waiting' = waiting /\ loading' = loading
        /\ frames' = frames /\ hydrationId' = hydrationId /\ typed' = typed /\ streaming' = streaming
        /\ asked' = asked /\ held' = held /\ phase' = phase /\ turn' = turn /\ block' = block
        /\ history' = history /\ past' = past /\ upset' = upset
    BY <2>1 DEF pageVars, bounds
  <2>3. queue \in Seq(Typed)
    BY <1>1 DEF Types
  <2> PICK n \in Nat : n = Len(queue) /\ DOMAIN queue = 1..n
    BY <2>3
  <2> PICK q \in Typed : q = p.id
    BY <1>5
  <2>4. /\ queue' \in Seq(Typed) /\ DOMAIN queue' = 1..(n + 1)
        /\ queue'[n + 1] = q /\ \A k \in 1..n : queue'[k] = queue[k]
    BY <2>1, <2>3
  <2>5. \A k \in 1..(n + 1) : k \in 1..n \/ k = n + 1
    OBVIOUS
  <2>6. Types'
    <3>1. Fit(Page)'
      BY <1>1, <2>2 DEF Types, Fit, Page
    <3>2. QED
      BY <1>1, <1>3, <2>2, <2>4, <3>1 DEF Types
  <2>7. Numbers'
    <3>1. \A k \in DOMAIN queue' : turn < queue'[k] /\ queue'[k] <= typed
      BY <1>1, <1>3, <2>4, <2>5 DEF Numbers
    <3>2. ASSUME NEW k \in DOMAIN queue', NEW l \in DOMAIN queue', k < l PROVE queue'[k] < queue'[l]
      <4>1. k \in 1..n
        BY <2>4, <3>2
      <4>2. CASE l \in 1..n
        BY <1>1, <2>4, <3>2, <4>1, <4>2 DEF Numbers
      <4>3. CASE l = n + 1
        BY <1>3, <2>4, <4>1, <4>3
      <4>4. QED
        BY <2>4, <2>5, <4>2, <4>3
    <3>3. ASSUME NEW k \in DOMAIN queue', NEW i \in DOMAIN sent' PROVE queue'[k] < sent'[i].id
      <4>1. CASE k \in 1..n
        BY <1>1, <1>3, <2>4, <4>1 DEF Numbers
      <4>2. CASE k = n + 1
        BY <1>3, <2>4, <4>2
      <4>3. QED
        BY <2>4, <2>5, <4>1, <4>2
    <3>4. \A i \in DOMAIN sent' : turn < sent'[i].id
      BY <1>1, <1>3 DEF Numbers
    <3>5. QED
      BY <1>1, <1>3, <1>4, <2>2, <3>1, <3>2, <3>3, <3>4 DEF Numbers
  <2>8. LeftBehind'
    BY <1>1, <2>2 DEF LeftBehind, Told, Ordered, Clean
  <2>9. Times'
    BY <1>1, <1>8, <2>2 DEF Times, BubbleIsNext
  <2>10. Status'
    BY <1>1, <1>8, <2>2 DEF Status, TurnIsShown
  <2>11. QED
    BY <2>6, <2>7, <2>8, <2>9, <2>10 DEF PageInv
<1>9. CASE p.kind = "prompt" /\ phase # "idle" /\ ~p.steers
  <2>1. Error /\ UNCHANGED <<asked, held, turnVars, bounds>>
    BY <1>9 DEF TakesPrompt
  <2>2. QED
    BY <1>2, <1>9, <2>1, ErrorKeeps DEF bounds
<1>10. QED
  BY <1>6, <1>7, <1>8, <1>9

LEMMA GoesOnKeeps ==
  ASSUME PageInv, GoesOn
  PROVE  PageInv'
<1>1. Types /\ Numbers /\ LeftBehind /\ Times /\ Status
  BY DEF PageInv
<1>2. CASE queue # <<>>
  <2>1. queue \in Seq(Typed) /\ sent \in Seq(Sent)
    BY <1>1 DEF Types
  <2>2. BeginsMessage(Head(queue)) /\ queue' = Tail(queue) /\ sent' = sent /\ streaming' = streaming
        /\ phase # "idle"
    BY <1>2 DEF GoesOn
  <2>3. /\ Head(queue) = queue[1] /\ 1 \in DOMAIN queue /\ Head(queue) \in Typed
        /\ queue' \in Seq(Typed)
        /\ \A i \in DOMAIN queue' : i + 1 \in DOMAIN queue /\ queue'[i] = queue[i + 1]
    BY <1>2, <2>1, <2>2, RestOfList
  <2>4. DOMAIN queue \subseteq Nat \ {0} /\ DOMAIN queue' \subseteq Nat \ {0}
    BY <2>1, <2>3
  <2> PICK p \in Typed : p = Head(queue)
    BY <2>3
  <2>5. \A k \in DOMAIN queue' : p < queue'[k] /\ queue'[k] <= typed
    <3> TAKE k \in DOMAIN queue'
    <3>1. 1 < k + 1 /\ k + 1 \in DOMAIN queue
      BY <2>3, <2>4
    <3>2. QED
      BY <1>1, <2>3, <3>1 DEF Numbers
  <2>6. \A k, l \in DOMAIN queue' : k < l => queue'[k] < queue'[l]
    <3> TAKE k, l \in DOMAIN queue'
    <3>1. k < l => k + 1 < l + 1
      BY <2>4
    <3>2. QED
      BY <1>1, <2>3, <3>1 DEF Numbers
  <2>7. /\ turn < p /\ p <= typed
        /\ \A i \in DOMAIN sent' : p < sent'[i].id /\ sent'[i].id <= typed
        /\ \A k \in DOMAIN queue', i \in DOMAIN sent' : queue'[k] < sent'[i].id
        /\ \A i, j \in DOMAIN sent' : i < j => sent'[i].id < sent'[j].id
    BY <1>1, <2>2, <2>3 DEF Numbers
  <2>8. streaming' \in BOOLEAN /\ (streaming' \/ "error" \in upset)
    BY <1>1, <2>2 DEF Types, Status, TurnIsShown
  <2>9. upset \cap {"error", "command", "crossed"} = {} /\ waiting > 0 => rows[waiting].id = p
    BY <1>1, <2>2 DEF Times, BubbleIsNext
  <2>10. BeginsMessage(p) /\ queue' \in Seq(Typed)
         /\ sent' \in Seq(Sent)
    BY <2>1, <2>2, <2>3
  <2>11. QED
    BY <2>5, <2>6, <2>7, <2>8, <2>9, <2>10, BeginsKeeps
<1>3. CASE queue = <<>>
  <2>1. /\ phase # "idle" /\ phase' = "idle" /\ streaming' = FALSE
        /\ rows' = rows /\ current' = current /\ waiting' = waiting /\ loading' = loading
        /\ frames' = frames /\ hydrationId' = hydrationId /\ typed' = typed /\ sent' = sent
        /\ asked' = asked /\ held' = held /\ turn' = turn /\ block' = block
        /\ queue' = queue /\ history' = history /\ past' = past /\ upset' = upset
    BY <1>3 DEF GoesOn, wayVars, bounds
  <2>2. Types'
    <3>1. Fit(Page)'
      BY <1>1, <2>1 DEF Types, Fit, Page
    <3>2. QED
      BY <1>1, <2>1, <3>1 DEF Types, Phases
  <2>3. Numbers'
    BY <1>1, <2>1 DEF Numbers
  <2>4. LeftBehind'
    BY <1>1, <2>1 DEF LeftBehind, Told, Ordered, Clean
  <2>5. Times'
    BY <1>1, <2>1 DEF Times, BubbleIsNext
  <2>6. Status'
    BY <1>1, <1>3, <2>1 DEF Status, TurnIsShown
  <2>7. QED
    BY <2>2, <2>3, <2>4, <2>5, <2>6 DEF PageInv
<1>4. QED
  BY <1>2, <1>3

--------------------------------------------------------------------------------
\* The composer and the hydrations

LEMMA TypeKeeps ==
  ASSUME PageInv, NEW kind \in Kinds, Type(kind)
  PROVE  PageInv'
<1>1. Types /\ Numbers /\ LeftBehind /\ Times /\ Status
  BY DEF PageInv
<1> PICK p : p = typed'
  OBVIOUS
<1>2. /\ typed < MaxTyped /\ p = typed + 1 /\ typed' = p
      /\ sent' = Append(sent, [id |-> p, kind |-> kind, steers |-> streaming])
      /\ loading' = loading /\ frames' = frames /\ hydrationId' = hydrationId
      /\ asked' = asked /\ held' = held /\ phase' = phase /\ turn' = turn /\ block' = block
      /\ queue' = queue /\ history' = history /\ past' = past
      /\ upset' = upset \cup Overlap \cup (IF kind = "command" THEN {"command"} ELSE {})
                        \cup (IF Crossing THEN {"crossed"} ELSE {})
  BY DEF Type, turnVars
<1>3. typed \in 0..MaxTyped /\ MaxTyped \in Nat /\ turn \in 0..typed
  BY <1>1, PageAssumption DEF Types
<1>4. p \in Nat /\ p \in Typed /\ p \in PromptIds /\ p \in 0..MaxTyped /\ turn < p /\ turn \in 0..p /\ typed < p
  BY <1>2, <1>3 DEF Typed, PromptIds
<1> PICK s : s = [id |-> p, kind |-> kind, steers |-> streaming]
  OBVIOUS
<1>5. s \in Sent /\ s.id = p /\ s.kind = kind
  BY <1>1, <1>4, PageAssumption DEF Sent, Types
<1>6. sent \in Seq(Sent)
  BY <1>1 DEF Types
<1> PICK n \in Nat : n = Len(sent) /\ DOMAIN sent = 1..n
  BY <1>6
<1>7. /\ sent' \in Seq(Sent) /\ DOMAIN sent' = 1..(n + 1)
      /\ sent'[n + 1] = s /\ \A i \in 1..n : sent'[i] = sent[i]
  BY <1>2, <1>5, <1>6
<1>8. \A i \in 1..(n + 1) : i \in 1..n \/ i = n + 1
  OBVIOUS
<1>9. Numbers'
  <2>1. \A k \in DOMAIN queue : queue[k] \in Int
    <3>1. queue \in Seq(Typed)
      BY <1>1 DEF Types
    <3>2. \A k \in DOMAIN queue : queue[k] \in Typed
      BY <3>1
    <3>3. Typed \subseteq Int
      BY DEF Typed
    <3>4. QED
      BY <3>2, <3>3
  <2>2. \A k \in DOMAIN queue : queue[k] < p /\ queue[k] <= p
    BY <1>1, <1>2, <1>3, <2>1 DEF Numbers
  <2>3. \A i \in 1..n : sent[i].id \in Int
    <3>1. \A i \in 1..n : sent[i] \in Sent
      BY <1>6
    <3>2. QED
      BY <3>1 DEF Sent, Typed
  <2>4. \A i \in 1..n : sent[i].id < p
    BY <1>1, <1>2, <1>3, <2>3 DEF Numbers
  <2>5. \A i \in DOMAIN sent' : turn < sent'[i].id /\ sent'[i].id <= p
    <3> TAKE i \in DOMAIN sent'
    <3>1. CASE i \in 1..n
      BY <1>1, <1>4, <1>7, <2>3, <2>4, <3>1 DEF Numbers
    <3>2. CASE i = n + 1
      BY <1>4, <1>5, <1>7, <3>2
    <3>3. QED
      BY <1>7, <1>8, <3>1, <3>2
  <2>6. \A k \in DOMAIN queue, i \in DOMAIN sent' : queue[k] < sent'[i].id
    <3> TAKE k \in DOMAIN queue, i \in DOMAIN sent'
    <3>1. CASE i \in 1..n
      BY <1>1, <1>7, <3>1 DEF Numbers
    <3>2. CASE i = n + 1
      BY <1>5, <1>7, <2>2, <3>2
    <3>3. QED
      BY <1>7, <1>8, <3>1, <3>2
  <2>7. ASSUME NEW i \in DOMAIN sent', NEW j \in DOMAIN sent', i < j PROVE sent'[i].id < sent'[j].id
    <3>1. i \in 1..n
      BY <1>7, <2>7
    <3>2. CASE j \in 1..n
      BY <1>1, <1>7, <2>7, <3>1, <3>2 DEF Numbers
    <3>3. CASE j = n + 1
      BY <1>5, <1>7, <2>4, <3>1, <3>3
    <3>4. QED
      BY <1>7, <1>8, <3>2, <3>3
  <2>8. QED
    BY <1>1, <1>2, <2>2, <2>5, <2>6, <2>7 DEF Numbers
<1>10. Prompts' = IF kind = "prompt" THEN Prompts \cup {n + 1} ELSE Prompts
  BY <1>5, <1>7, <1>8 DEF Prompts
<1>11. Prompts \subseteq 1..n
  BY DEF Prompts
<1>12. (\A i \in DOMAIN history : history[i].id \notin past) /\ p \notin past
  BY <1>1, <1>3, <1>4 DEF LeftBehind, Told, Clean, Types, PromptIds
<1>13. CASE streaming
  <2>1. rows' = rows /\ current' = current /\ waiting' = waiting /\ streaming' = streaming
    BY <1>13 DEF Type
  <2>2. Fit(Page)'
    BY <1>1, <2>1 DEF Types, Fit, Page
  <2>3. Types'
    BY <1>1, <1>2, <1>4, <1>7, <2>1, <2>2 DEF Types
  <2>4. LeftBehind'
    BY <1>1, <1>2, <2>1 DEF LeftBehind, Told, Ordered, Clean
  <2>5. BubbleIsNext => BubbleIsNext'
    <3>1. SUFFICES ASSUME BubbleIsNext, waiting > 0
                   PROVE  \E i \in Prompts' : (\A j \in Prompts' : i <= j) /\ sent'[i].id = rows[waiting].id
      BY <1>2, <2>1 DEF BubbleIsNext
    <3>2. PICK i \in Prompts : (\A j \in Prompts : i <= j) /\ sent[i].id = rows[waiting].id
      BY <1>13, <3>1 DEF BubbleIsNext
    <3>3. i \in Prompts' /\ sent'[i] = sent[i]
      BY <1>7, <1>10, <1>11, <3>2
    <3>4. \A j \in Prompts' : i <= j
      BY <1>10, <1>11, <3>2
    <3>5. QED
      BY <3>2, <3>3, <3>4
  <2>6. Times'
    BY <1>1, <1>2, <2>1, <2>5 DEF Times
  <2>7. Status'
    BY <1>1, <1>2, <1>10, <2>1 DEF Status, TurnIsShown
  <2>8. QED
    BY <1>9, <2>3, <2>4, <2>6, <2>7 DEF PageInv
<1>14. CASE ~streaming
  <2>1. SetPage(AddUserMessage(Page, p, Unset)) /\ streaming' = (kind # "local")
    BY <1>14 DEF Type
  <2> PICK pg, to : pg = Page /\ to = AddUserMessage(pg, p, Unset)
    OBVIOUS
  <2> PICK r : r = UserRow(p, Unset)
    OBVIOUS
  <2>2. Fit(pg) /\ pg.rows = rows /\ rows \in Seq(Row)
    BY <1>1, PageFits
  <2>3. Fit(to) /\ to.rows = Append(rows, r) /\ to.waiting = Len(rows) + 1
    BY <1>4, <2>2, BubbleAdded
  <2>4. Fit(Page)' /\ rows' = Append(rows, r) /\ waiting' = Len(rows) + 1
    BY <2>1, <2>3, PageBecomes DEF SetPage
  <2> PICK m \in Nat : m = Len(rows) /\ DOMAIN rows = 1..m
    BY <2>2
  <2>5. r \in Row /\ r.id = p /\ r.ts = Unset
    <3>1. p \in PromptIds /\ Unset \in PromptIds \cup {Unset}
      BY <1>4
    <3>2. UserRow(p, Unset) \in Row
      BY <3>1, NewRows
    <3>3. UserRow(p, Unset).id = p /\ UserRow(p, Unset).ts = Unset
      BY DEF UserRow
    <3>4. QED
      BY <3>2, <3>3
  <2>6. DOMAIN rows' = 1..(m + 1) /\ rows'[m + 1] = r /\ \A i \in 1..m : rows'[i] = rows[i]
    BY <2>2, <2>4, <2>5
  <2>7. \A i \in 1..(m + 1) : i \in 1..m \/ i = m + 1
    OBVIOUS
  <2>8. Types'
    BY <1>1, <1>2, <1>4, <1>7, <2>1, <2>4 DEF Types
  <2>9. LeftBehind'
    <3>1. Told /\ held = <<>> => Clean(rows)'
      BY <1>1, <1>2, <1>12, <2>5, <2>6, <2>7 DEF LeftBehind, Told, Clean
    <3>2. QED
      BY <1>1, <1>2, <3>1 DEF LeftBehind, Told, Ordered, Clean
  <2>10. Times'
    <3>1. SUFFICES ASSUME upset' \cap {"error", "command", "crossed"} = {}
                   PROVE  /\ \A i \in DOMAIN rows' : rows'[i].who = "user" => rows'[i].ts \in {Unset, rows'[i].id}
                          /\ BubbleIsNext'
      BY DEF Times
    <3>2. upset \cap {"error", "command", "crossed"} = {} /\ kind # "command" /\ ~Crossing
      BY <1>2, <3>1
    <3>3. Prompts = {} /\ phase = "idle"
      BY <1>1, <1>14, <3>2 DEF Crossing, Prompts, Status, TurnIsShown
    <3>4. \A i \in DOMAIN rows' : rows'[i].who = "user" => rows'[i].ts \in {Unset, rows'[i].id}
      BY <1>1, <2>5, <2>6, <2>7, <3>2 DEF Times
    <3>5. rows'[waiting'].id = p
      BY <2>4, <2>5, <2>6
    <3>6. BubbleIsNext'
      <4>1. CASE kind = "prompt"
        <5>1. Prompts' = {n + 1} /\ sent'[n + 1].id = p
          BY <1>5, <1>7, <1>10, <3>3, <4>1
        <5>2. QED
          BY <1>2, <3>3, <3>5, <5>1 DEF BubbleIsNext
      <4>2. CASE kind = "local"
        BY <1>2, <1>10, <2>1, <3>3, <4>2 DEF BubbleIsNext
      <4>3. QED
        BY <3>2, <4>1, <4>2, PageAssumption
    <3>7. QED
      BY <3>4, <3>6
  <2>11. Status'
    <3>1. TurnIsShown'
      BY <1>1, <1>2, <1>14 DEF Status, TurnIsShown
    <3>2. streaming' /\ phase' = "idle" /\ upset' \cap {"command", "late"} = {} => Prompts' # {}
      <4>1. CASE kind = "prompt"
        BY <1>10, <4>1
      <4>2. CASE kind = "local"
        BY <2>1, <4>2
      <4>3. CASE kind = "command"
        BY <1>2, <4>3
      <4>4. QED
        BY <4>1, <4>2, <4>3, PageAssumption
    <3>3. QED
      BY <1>1, <1>2, <3>1, <3>2 DEF Status
  <2>12. QED
    BY <1>9, <2>8, <2>9, <2>10, <2>11 DEF PageInv
<1>15. QED
  BY <1>1, <1>13, <1>14 DEF Types

\* What a hydration asks for does not make the page told of a move.
LEMMA HydrationTold ==
  ASSUME Types, Hydration
  PROVE  asked' \in Seq(Asking) /\ (Told' => Told)
<1> PICK a : a = [busy |-> phase # "idle", moved |-> FALSE]
  OBVIOUS
<1>1. asked \in Seq(Asking)
  BY DEF Types
<1>2. a \in Asking /\ asked' = Append(asked, a) /\ upset' = upset
  BY DEF Hydration, Asking
<1>3. asked' \in Seq(Asking) /\ \A i \in DOMAIN asked : i \in DOMAIN asked' /\ asked'[i] = asked[i]
  BY <1>1, <1>2
<1>4. QED
  BY <1>2, <1>3 DEF Told

LEMMA HydrationKeeps ==
  ASSUME PageInv, Hydration
  PROVE  PageInv'
<1>1. Types /\ Numbers /\ LeftBehind /\ Times /\ Status
  BY DEF PageInv
<1>2. /\ rows' = rows /\ current' = current /\ waiting' = waiting /\ loading' = loading
      /\ frames' = frames /\ hydrationId' = hydrationId /\ typed' = typed /\ streaming' = streaming
      /\ sent' = sent /\ held' = held /\ phase' = phase /\ turn' = turn /\ block' = block
      /\ queue' = queue /\ history' = history /\ past' = past /\ upset' = upset
  BY DEF Hydration, pageVars, turnVars
<1>3. asked' \in Seq(Asking) /\ (Told' => Told)
  BY <1>1, HydrationTold
<1>4. Types'
  <2>1. Fit(Page)'
    BY <1>1, <1>2 DEF Types, Fit, Page
  <2>2. QED
    BY <1>1, <1>2, <1>3, <2>1 DEF Types
<1>5. Numbers'
  BY <1>1, <1>2 DEF Numbers
<1>6. LeftBehind'
  BY <1>1, <1>2, <1>3 DEF LeftBehind, Ordered, Clean
<1>7. Times' /\ Status'
  BY <1>1, <1>2 DEF Times, BubbleIsNext, Prompts, Status, TurnIsShown
<1>8. QED
  BY <1>4, <1>5, <1>6, <1>7 DEF PageInv

LEMMA MessagesAnsweredKeeps ==
  ASSUME PageInv, MessagesAnswered
  PROVE  PageInv'
<1>1. Types /\ Numbers /\ LeftBehind /\ Times /\ Status
  BY DEF PageInv
<1>2. /\ rows' = rows /\ current' = current /\ waiting' = waiting /\ loading' = loading
      /\ frames' = frames /\ hydrationId' = hydrationId /\ typed' = typed /\ streaming' = streaming
      /\ sent' = sent /\ phase' = phase /\ turn' = turn /\ block' = block
      /\ queue' = queue /\ history' = history /\ past' = past /\ upset' = upset
  BY DEF MessagesAnswered, pageVars, turnVars, bounds
<1>3. asked' \in Seq(Asking) /\ Head(asked) \in Asking
  <2>1. asked \in Seq(Asking)
    BY <1>1 DEF Types
  <2>2. QED
    BY <2>1, RestOfList DEF MessagesAnswered
<1> PICK e : e = [busy |-> Head(asked).busy, list |-> history]
  OBVIOUS
<1>4. e \in [busy : BOOLEAN, list : Seq(Items)] /\ e.list = history
  <2>1. Head(asked).busy \in BOOLEAN /\ history \in Seq(Items)
    BY <1>1, <1>3 DEF Types, Asking
  <2>2. QED
    BY <2>1
<1>5. held \in Seq([busy : BOOLEAN, list : Seq(Items)]) /\ held' = Append(held, e)
  BY <1>1 DEF Types, MessagesAnswered
<1>6. held' \in Seq([busy : BOOLEAN, list : Seq(Items)]) /\ held' # <<>> /\ held'[Len(held')] = e
  BY <1>4, <1>5
<1>7. Types'
  <2>1. Fit(Page)'
    BY <1>1, <1>2 DEF Types, Fit, Page
  <2>2. QED
    BY <1>1, <1>2, <1>3, <1>6, <2>1 DEF Types
<1>8. Numbers'
  BY <1>1, <1>2 DEF Numbers
<1>9. LeftBehind'
  BY <1>1, <1>2, <1>4, <1>6 DEF LeftBehind, Ordered, Clean
<1>10. Times' /\ Status'
  BY <1>1, <1>2 DEF Times, BubbleIsNext, Prompts, Status, TurnIsShown
<1>11. QED
  BY <1>7, <1>8, <1>9, <1>10 DEF PageInv

\* What is left of the requests, when one is taken out.
LEMMA TakenOut ==
  ASSUME NEW S, NEW s \in Seq(S), NEW i \in DOMAIN s, NEW t,
         t = Seqs!RemoveAt(s, i)
  PROVE  /\ t \in Seq(S)
         /\ \A j \in DOMAIN s : j # i => \E k \in DOMAIN t : t[k] = s[j]
<1>n. PICK n \in Nat : n = Len(s) /\ DOMAIN s = 1..n
  OBVIOUS
<1>a. PICK a \in Int : a = i /\ 1 <= a /\ a <= n
  BY <1>n
<1>u. PICK u : u = SubSeq(s, 1, a - 1)
  OBVIOUS
<1>v. PICK v : v = SubSeq(s, a + 1, n)
  OBVIOUS
<1>0. \A j \in 1..n : s[j] \in S
  BY <1>n
<1>1. u \in Seq(S) /\ Len(u) = a - 1 /\ \A j \in 1..(a - 1) : u[j] = s[j]
  <2>m. PICK m \in Int : m = a - 1
    OBVIOUS
  <2>1. \A j \in 1..m : s[j] \in S
    BY <1>a, <1>0, <2>m
  <2>2. /\ u \in Seq(S) /\ Len(u) = IF 1 <= m THEN m - 1 + 1 ELSE 0
        /\ \A j \in 1..(m - 1 + 1) : u[j] = s[1 + j - 1]
    BY <1>u, <2>m, <2>1, SubSeqProperties
  <2>3. Len(u) = m
    BY <1>a, <2>m, <2>2
  <2>4. \A j \in 1..m : j \in 1..(m - 1 + 1) /\ 1 + j - 1 = j
    OBVIOUS
  <2>5. \A j \in 1..m : u[j] = s[j]
    BY <2>2, <2>4
  <2>6. QED
    BY <2>m, <2>2, <2>3, <2>5
<1>2. v \in Seq(S) /\ Len(v) = n - a /\ \A j \in 1..(n - a) : v[j] = s[a + j]
  <2>m. PICK m \in Int : m = a + 1
    OBVIOUS
  <2>1. \A j \in m..n : s[j] \in S
    BY <1>a, <1>0, <2>m
  <2>2. /\ v \in Seq(S) /\ Len(v) = IF m <= n THEN n - m + 1 ELSE 0
        /\ \A j \in 1..(n - m + 1) : v[j] = s[m + j - 1]
    BY <1>v, <2>m, <2>1, SubSeqProperties
  <2>3. Len(v) = n - a
    BY <1>a, <2>m, <2>2
  <2>4. \A j \in 1..(n - a) : j \in 1..(n - m + 1) /\ m + j - 1 = a + j
    BY <2>m
  <2>5. \A j \in 1..(n - a) : v[j] = s[a + j]
    BY <2>2, <2>4
  <2>6. QED
    BY <2>2, <2>3, <2>5
<1>3. t = u \o v
  BY <1>n, <1>a, <1>u, <1>v DEF Seqs!RemoveAt
<1>p. PICK p \in Int : p = Len(u) /\ p = a - 1
  BY <1>1
<1>q. PICK q \in Int : q = Len(v) /\ q = n - a
  BY <1>2
<1>4. /\ t \in Seq(S) /\ DOMAIN t = 1..(n - 1)
      /\ \A k \in 1..(n - 1) : t[k] = IF k <= p THEN u[k] ELSE v[k - p]
  <2>s. u \in Seq(S) /\ v \in Seq(S)
    BY <1>1, <1>2
  <2>c. PICK c : c = u \o v
    OBVIOUS
  <2>d. /\ c \in Seq(S) /\ Len(c) = Len(u) + Len(v)
        /\ \A k \in 1..(Len(u) + Len(v)) : c[k] = IF k <= Len(u) THEN u[k] ELSE v[k - Len(u)]
    BY <2>s, <2>c, ConcatProperties, Zenon
  <2>e. t = c
    BY <1>3, <2>c
  <2>1. /\ t \in Seq(S) /\ Len(t) = Len(u) + Len(v)
        /\ \A k \in 1..(Len(u) + Len(v)) : t[k] = IF k <= Len(u) THEN u[k] ELSE v[k - Len(u)]
    BY <2>d, <2>e
  <2>2. /\ t \in Seq(S) /\ Len(t) = p + q
        /\ \A k \in 1..(p + q) : t[k] = IF k <= p THEN u[k] ELSE v[k - p]
    BY <1>p, <1>q, <2>1
  <2>3. p + q = n - 1
    BY <1>p, <1>q
  <2>4. DOMAIN t = 1..Len(t)
    BY <2>2
  <2>5. QED
    BY <2>2, <2>3, <2>4
<1>5. ASSUME NEW j \in DOMAIN s, j # i PROVE \E k \in DOMAIN t : t[k] = s[j]
  <2>b. PICK b \in Int : b = j /\ 1 <= b /\ b <= n /\ b # a
    BY <1>n, <1>a, <1>5
  <2>1. CASE b < a
    <3>1. b \in 1..(n - 1) /\ b \in 1..(a - 1) /\ b <= p
      BY <1>a, <1>p, <2>b, <2>1
    <3>2. t[b] = s[b]
      BY <1>1, <1>4, <3>1
    <3>3. QED
      BY <1>4, <2>b, <3>1, <3>2
  <2>2. CASE b > a
    <3>k. PICK k \in Int : k = b - 1
      OBVIOUS
    <3>d. PICK d \in Int : d = k - p
      OBVIOUS
    <3>0. p = a - 1 /\ b <= n /\ 1 <= a
      BY <1>a, <1>p, <2>b
    <3>1. k \in 1..(n - 1) /\ ~(k <= p) /\ d \in 1..(n - a) /\ a + d = b
      BY <2>2, <3>k, <3>d, <3>0
    <3>2. t[k] = v[d] /\ v[d] = s[b]
      BY <1>2, <1>4, <3>1, <3>d
    <3>3. QED
      BY <1>4, <2>b, <3>1, <3>2
  <2>3. QED
    BY <2>b, <2>1, <2>2
<1>6. QED
  BY <1>4, <1>5

\* A request that fails leaves the page untold of the move it was for, and of every other.
LEMMA MessagesFailTold ==
  ASSUME Types, NEW i \in DOMAIN asked, MessagesFail(i)
  PROVE  asked' \in Seq(Asking) /\ (Told' => Told)
<1>s. PICK s : s = asked
  OBVIOUS
<1>t. PICK t : t = asked'
  OBVIOUS
<1>1. s \in Seq(Asking) /\ i \in DOMAIN s /\ t = Seqs!RemoveAt(s, i)
  BY <1>s, <1>t DEF Types, MessagesFail
<1>2. t \in Seq(Asking) /\ \A j \in DOMAIN s : j # i => \E k \in DOMAIN t : t[k] = s[j]
  BY <1>1, TakenOut
<1>3. upset \subseteq upset' /\ (asked[i].moved => "untold" \in upset')
  BY DEF MessagesFail
<1>4. QED
  BY <1>s, <1>t, <1>2, <1>3 DEF Told

LEMMA MessagesFailKeeps ==
  ASSUME PageInv, NEW i \in DOMAIN asked, MessagesFail(i)
  PROVE  PageInv'
<1>1. Types /\ Numbers /\ LeftBehind /\ Times /\ Status
  BY DEF PageInv
<1>2. /\ rows' = rows /\ current' = current /\ waiting' = waiting /\ loading' = loading
      /\ frames' = frames /\ hydrationId' = hydrationId /\ typed' = typed
      /\ sent' = sent /\ held' = held /\ phase' = phase /\ turn' = turn /\ block' = block
      /\ queue' = queue /\ history' = history /\ past' = past /\ upset \subseteq upset'
      /\ asked[i].moved => "untold" \in upset'
      /\ asked' = Seqs!RemoveAt(asked, i)
  BY DEF MessagesFail, turnVars
<1>3. /\ streaming' = streaming \/ streaming' = FALSE
      /\ streaming' = streaming \/ "error" \in upset' \/ (phase = "idle" /\ sent = <<>>)
  BY <1>1 DEF MessagesFail, ErrorCause, Types
<1>4. asked' \in Seq(Asking) /\ (Told' => Told)
  BY <1>1, MessagesFailTold
<1>5. Types'
  <2>1. Fit(Page)'
    BY <1>1, <1>2 DEF Types, Fit, Page
  <2>2. QED
    BY <1>1, <1>2, <1>3, <1>4, <2>1 DEF Types
<1>6. Numbers'
  BY <1>1, <1>2 DEF Numbers
<1>7. LeftBehind'
  BY <1>1, <1>2, <1>4 DEF LeftBehind, Ordered, Clean
<1>8. Times'
  <2>1. CASE "error" \in upset'
    BY <2>1 DEF Times
  <2>2. CASE streaming' = streaming
    BY <1>1, <1>2, <2>2 DEF Times, BubbleIsNext, Prompts
  <2>3. CASE phase = "idle" /\ sent = <<>>
    <3>1. Prompts' = {} /\ (BubbleIsNext => BubbleIsNext')
      BY <1>2, <1>3, <2>3 DEF Prompts, BubbleIsNext
    <3>2. QED
      BY <1>1, <1>2, <3>1 DEF Times
  <2>4. QED
    BY <1>3, <2>1, <2>2, <2>3
<1>9. Status'
  BY <1>1, <1>2, <1>3 DEF Status, TurnIsShown, Prompts
<1>10. QED
  BY <1>5, <1>6, <1>7, <1>8, <1>9 DEF PageInv

LEMMA WiderSet ==
  ASSUME NEW S, NEW T, S \subseteq T, NEW s \in Seq(S)
  PROVE  s \in Seq(T)
OBVIOUS

\* What holds of the records of a set holds of a sequence over it.
LEMMA EveryOne ==
  ASSUME NEW S, NEW N, \A x \in S : x.id \in N, NEW s \in Seq(S)
  PROVE  \A i \in DOMAIN s : s[i].id \in N
<1>1. \A i \in DOMAIN s : s[i] \in S
  OBVIOUS
<1>2. QED
  BY <1>1

LEMMA PostedKeeps ==
  ASSUME PageInv, Posted
  PROVE  PageInv'
<1>1. Types /\ Numbers /\ LeftBehind /\ Times /\ Status
  BY DEF PageInv
<1> PICK e : e = Head(held)
  OBVIOUS
<1>2. /\ held # <<>> /\ held' = Tail(held) /\ hydrationId' = hydrationId + 1
      /\ rows' = <<>> /\ current' = 0 /\ waiting' = IF waiting > 0 THEN Gone ELSE waiting
      /\ frames' = IF e.list = <<>> THEN frames
                   ELSE Append(frames, [id |-> hydrationId', rest |-> e.list])
      /\ loading' = (loading \/ e.list # <<>>) /\ streaming' = (streaming \/ e.busy)
      /\ upset' = Causes
      /\ sent' = sent /\ asked' = asked /\ phase' = phase /\ turn' = turn /\ block' = block
      /\ queue' = queue /\ history' = history /\ past' = past /\ typed' = typed
  BY DEF Posted, turnVars, bounds
<1>3. held \in Seq([busy : BOOLEAN, list : Seq(Items)])
  BY <1>1 DEF Types
<1>4. /\ e = held[1] /\ e \in [busy : BOOLEAN, list : Seq(Items)]
      /\ held' \in Seq([busy : BOOLEAN, list : Seq(Items)])
      /\ Len(held') = Len(held) - 1 /\ Len(held) \in Nat
      /\ \A i \in DOMAIN held' : held'[i] = held[i + 1]
  BY <1>2, <1>3, RestOfList
<1>5. waiting \in Int /\ waiting >= Gone /\ waiting' <= 0 /\ waiting' >= Gone /\ waiting' \in Int
  BY <1>1, <1>2 DEF Types, Fit, Page, Gone
<1>6. Fit(Page)'
  <2>1. Page' = [rows |-> <<>>, current |-> 0, waiting |-> waiting']
    BY <1>2 DEF Page
  <2> PICK pg : pg = [rows |-> <<>>, current |-> 0, waiting |-> waiting']
    OBVIOUS
  <2>2. pg \in [rows : Seq(Row), current : Nat, waiting : Int]
    BY <1>5
  <2>3. Fit(pg)
    BY <1>5, <2>2 DEF Fit
  <2>4. Fit(Page)' <=> Fit(Page')
    BY DEF Fit
  <2>5. QED
    BY <2>1, <2>3, <2>4
<1> PICK id : id = hydrationId'
  OBVIOUS
<1>7. id \in Nat /\ id = hydrationId + 1 /\ hydrationId \in Nat
  BY <1>1, <1>2 DEF Types
<1> PICK f : f = [id |-> id, rest |-> e.list]
  OBVIOUS
<1>8. f \in [id : 1..id, rest : Seq(Items)] /\ f.id = id /\ f.rest = e.list
  BY <1>4, <1>7
<1>F. PICK F : F = [id : 1..hydrationId, rest : Seq(Items)]
  OBVIOUS
<1>G. PICK Fs : Fs = [id : 1..id, rest : Seq(Items)]
  OBVIOUS
<1>9. frames \in Seq(F) /\ \A i \in DOMAIN frames : frames[i].rest # <<>> /\ frames[i].id # id
  <2>1. frames \in Seq(F) /\ \A i \in DOMAIN frames : frames[i].rest # <<>>
    BY <1>1, <1>F DEF Types
  <2>2. \A x \in F : x.id \in 1..hydrationId
    BY <1>F
  <2>3. \A i \in DOMAIN frames : frames[i].id \in 1..hydrationId
    BY <2>1, <2>2, EveryOne
  <2>4. QED
    BY <1>7, <2>1, <2>3
<1>10. frames \in Seq(Fs) /\ f \in Fs
  <2>1. F \subseteq Fs
    BY <1>7, <1>F, <1>G
  <2>2. f \in Fs
    BY <1>8, <1>G
  <2>3. frames \in Seq(Fs)
    BY <1>9, <2>1, WiderSet
  <2>4. QED
    BY <2>2, <2>3
<1> PICK k \in Nat : k = Len(frames) /\ DOMAIN frames = 1..k
  BY <1>10
<1>11. e.list # <<>> => /\ frames' \in Seq(Fs) /\ DOMAIN frames' = 1..(k + 1)
                        /\ frames'[k + 1] = f /\ \A i \in 1..k : frames'[i] = frames[i]
  <2>1. SUFFICES ASSUME e.list # <<>>
                 PROVE  /\ frames' \in Seq(Fs) /\ DOMAIN frames' = 1..(k + 1)
                        /\ frames'[k + 1] = f /\ \A i \in 1..k : frames'[i] = frames[i]
    OBVIOUS
  <2>2. frames' = Append(frames, f)
    BY <1>2, <2>1
  <2>3. QED
    BY <1>10, <2>2
<1>12. \A i \in 1..(k + 1) : i \in 1..k \/ i = k + 1
  OBVIOUS
<1>13. frames' \in Seq([id : 1..hydrationId', rest : Seq(Items)])
       /\ \A i \in DOMAIN frames' : frames'[i].rest # <<>> /\ (frames'[i].id = id => frames'[i].rest = e.list)
  <2> USE <1>G
  <2>1. CASE e.list = <<>>
    BY <1>2, <1>9, <1>10, <2>1
  <2>2. CASE e.list # <<>>
    <3>1. frames' \in Seq(Fs) /\ DOMAIN frames' = 1..(k + 1)
      BY <1>11, <2>2
    <3>2. frames'[k + 1] = f /\ \A i \in 1..k : frames'[i] = frames[i]
      BY <1>11, <2>2
    <3>3. ASSUME NEW i \in DOMAIN frames'
          PROVE  frames'[i].rest # <<>> /\ (frames'[i].id = id => frames'[i].rest = e.list)
      <4>1. CASE i \in 1..k
        BY <1>9, <3>2, <4>1
      <4>2. CASE i = k + 1
        BY <1>8, <2>2, <3>2, <4>2
      <4>3. QED
        BY <1>12, <3>1, <4>1, <4>2
    <3>4. QED
      BY <3>1, <3>3
  <2>3. QED
    BY <2>1, <2>2
<1>14. Types'
  BY <1>1, <1>2, <1>4, <1>6, <1>7, <1>13 DEF Types
<1>15. Numbers'
  BY <1>1, <1>2 DEF Numbers
<1>16. LeftBehind'
  <2>1. SUFFICES ASSUME Told'
                 PROVE  \/ held' = <<>> /\ Clean(e.list)
                        \/ held' # <<>> /\ Clean(held'[Len(held')].list)
    <3>1. Clean(rows)'
      BY <1>2 DEF Clean
    <3>2. held' = <<>> /\ Clean(e.list) =>
            \A i \in DOMAIN frames' : frames'[i].id = id => Clean(frames'[i].rest)
      BY <1>13
    <3>3. QED
      BY <1>1, <1>2, <3>1, <3>2 DEF LeftBehind, Ordered, Clean
  <2>2. Told \/ (Quiet /\ Len(held) = 1) \/ ~FromThePast
    BY <1>2, <2>1 DEF Told, Causes, Quiet
  <2>3. CASE Told
    <3>1. CASE held' = <<>>
      <4>1. Len(held) = 1 /\ held[1] = e
        BY <1>4, <3>1
      <4>2. Clean(held[1].list)
        BY <1>1, <1>2, <2>3, <4>1 DEF LeftBehind
      <4>3. QED
        BY <3>1, <4>1, <4>2
    <3>2. CASE held' # <<>>
      <4>1. Len(held') \in DOMAIN held' /\ Len(held') + 1 = Len(held)
        BY <1>4, <3>2
      <4>2. held'[Len(held')] = held[Len(held)]
        BY <1>4, <4>1
      <4>3. QED
        BY <1>1, <1>2, <2>3, <3>2, <4>2 DEF LeftBehind
    <3>3. QED
      BY <3>1, <3>2
  <2>4. CASE Quiet /\ Len(held) = 1
    <3>1. held' = <<>> /\ e.list = history
      BY <1>4, <2>4 DEF Quiet
    <3>2. QED
      BY <1>1, <3>1 DEF LeftBehind
  <2>5. CASE ~FromThePast
    <3>1. \A i \in DOMAIN held : Clean(held[i].list)
      <4> TAKE i \in DOMAIN held
      <4>1. held[i] \in Range(held)
        BY DEF Range
      <4>2. \A m \in Range(held[i].list) : m.id \notin past
        BY <2>5, <4>1 DEF FromThePast
      <4>3. QED
        BY <4>2 DEF Clean, Range
    <3>2. Clean(e.list)
      <4>1. 1 \in DOMAIN held /\ e = held[1]
        BY <1>2, <1>3, RestOfList
      <4>2. QED
        BY <3>1, <4>1
    <3>3. held' # <<>> => Len(held') \in DOMAIN held' /\ Len(held') + 1 \in DOMAIN held
      BY <1>3, <1>4
    <3>4. held' # <<>> => Clean(held'[Len(held')].list)
      BY <1>4, <3>1, <3>3
    <3>5. QED
      BY <3>2, <3>4
  <2>6. QED
    BY <2>2, <2>3, <2>4, <2>5
<1>17. Times'
  BY <1>2, <1>5 DEF Times, BubbleIsNext
<1>18. Status'
  <2>1. e = Head(held)
    OBVIOUS
  <2>2. /\ upset \ {"untold"} \subseteq upset' \/ (phase = "idle" /\ ~streaming)
        /\ e.busy /\ phase = "idle" => "late" \in upset'
        /\ e.list = <<>> /\ loading => "empty" \in upset'
    BY <1>2, <2>1 DEF Causes, Quiet
  <2>3. TurnIsShown'
    BY <1>1, <1>2, <2>2 DEF Status, TurnIsShown
  <2>4. streaming' /\ phase' = "idle" /\ upset' \cap {"command", "late"} = {} => Prompts' # {}
    <3>1. SUFFICES ASSUME streaming', phase = "idle", upset' \cap {"command", "late"} = {}
                   PROVE  Prompts' # {}
      BY <1>2
    <3>2. ~e.busy /\ streaming
      BY <1>2, <1>4, <2>2, <3>1
    <3>3. upset \cap {"command", "late"} = {}
      BY <2>2, <3>1, <3>2
    <3>4. QED
      BY <1>1, <1>2, <3>1, <3>2, <3>3 DEF Status, Prompts
  <2>5. loading' /\ "empty" \notin upset' => \E i \in DOMAIN frames' : frames'[i].id = hydrationId'
    <3>1. SUFFICES ASSUME loading', "empty" \notin upset'
                   PROVE  \E i \in DOMAIN frames' : frames'[i].id = id
      OBVIOUS
    <3>2. e.list # <<>>
      BY <1>1, <1>2, <2>2, <3>1 DEF Types
    <3>3. k + 1 \in DOMAIN frames' /\ frames'[k + 1].id = id
      BY <1>8, <1>11, <3>2
    <3>4. QED
      BY <3>3
  <2>6. QED
    BY <1>1, <1>2, <2>3, <2>4, <2>5 DEF Status
<1>19. QED
  BY <1>14, <1>15, <1>16, <1>17, <1>18 DEF PageInv

\* Two parts of a line.
Parts(S, s, part, left) ==
  /\ part \in Seq(S) /\ left \in Seq(S)
  /\ \A i \in DOMAIN part : \E j \in DOMAIN s : part[i] = s[j]
  /\ \A i \in DOMAIN left : \E j \in DOMAIN s : left[i] = s[j]

LEMMA PartAndRest ==
  ASSUME NEW S, NEW s \in Seq(S), NEW n \in 0..Len(s),
         NEW part, part = SubSeq(s, 1, n), NEW left, left = SubSeq(s, n + 1, Len(s))
  PROVE  Parts(S, s, part, left)
<1> PICK l \in Nat : l = Len(s) /\ DOMAIN s = 1..l
  OBVIOUS
<1>1. part \in Seq(S) /\ Len(part) = n /\ \A i \in 1..n : part[i] = s[i]
  BY SubSeqProperties
<1>2. left \in Seq(S) /\ Len(left) = l - n /\ \A i \in 1..(l - n) : left[i] = s[n + i]
  BY SubSeqProperties
<1>3. DOMAIN part = 1..n /\ DOMAIN left = 1..(l - n)
  BY <1>1, <1>2
<1>4. ASSUME NEW i \in DOMAIN part PROVE \E j \in DOMAIN s : part[i] = s[j]
  <2>1. i \in 1..n /\ i \in DOMAIN s
    BY <1>3
  <2>2. QED
    BY <1>1, <2>1
<1>5. ASSUME NEW i \in DOMAIN left PROVE \E j \in DOMAIN s : left[i] = s[j]
  <2>1. i \in 1..(l - n) /\ n + i \in DOMAIN s
    BY <1>3
  <2>2. QED
    BY <1>2, <2>1
<1>6. QED
  BY <1>1, <1>2, <1>4, <1>5 DEF Parts

LEMMA FrameKeeps ==
  ASSUME PageInv, Frame
  PROVE  PageInv'
<1>1. Types /\ Numbers /\ LeftBehind /\ Times /\ Status
  BY DEF PageInv
<1> PICK f : f = Head(frames)
  OBVIOUS
<1> PICK n : n = IF Len(f.rest) < Chunk THEN Len(f.rest) ELSE Chunk
  OBVIOUS
<1> PICK part, left : part = SubSeq(f.rest, 1, n) /\ left = SubSeq(f.rest, n + 1, Len(f.rest))
  OBVIOUS
<1>2. /\ frames # <<>> /\ streaming' = streaming /\ hydrationId' = hydrationId
      /\ sent' = sent /\ asked' = asked /\ held' = held /\ phase' = phase /\ turn' = turn
      /\ block' = block /\ queue' = queue /\ history' = history /\ past' = past
      /\ typed' = typed /\ upset' = upset
  BY DEF Frame, wayVars, turnVars, bounds
<1>3. \/ f.id # hydrationId /\ frames' = Tail(frames) /\ UNCHANGED <<rows, current, waiting, loading>>
      \/ /\ f.id = hydrationId
         /\ SetPage(Hydrate(Page, part))
         /\ frames' = IF left = <<>> THEN Tail(frames) ELSE Append(Tail(frames), [f EXCEPT !.rest = left])
         /\ loading' = (loading /\ left # <<>>)
  BY DEF Frame
<1>F. PICK F : F = [id : 1..hydrationId, rest : Seq(Items)]
  OBVIOUS
<1>4. frames \in Seq(F) /\ \A i \in DOMAIN frames : frames[i].rest # <<>>
  BY <1>1, <1>F DEF Types
<1> PICK tl : tl = Tail(frames)
  OBVIOUS
<1>5. /\ f = frames[1] /\ 1 \in DOMAIN frames /\ f \in F /\ tl \in Seq(F)
      /\ \A i \in DOMAIN tl : i + 1 \in DOMAIN frames /\ tl[i] = frames[i + 1]
      /\ \A i \in DOMAIN frames : i # 1 => i - 1 \in DOMAIN tl /\ tl[i - 1] = frames[i]
  BY <1>2, <1>4, RestOfList
<1>6. Numbers'
  BY <1>1, <1>2 DEF Numbers
<1>7. CASE f.id # hydrationId
  <2>1. frames' = tl /\ rows' = rows /\ current' = current /\ waiting' = waiting /\ loading' = loading
    BY <1>3, <1>7
  <2>2. Types'
    <3>1. Fit(Page)'
      BY <1>1, <2>1 DEF Types, Fit, Page
    <3>2. frames' \in Seq([id : 1..hydrationId', rest : Seq(Items)])
      BY <1>2, <1>5, <1>F, <2>1
    <3>3. \A i \in DOMAIN frames' : frames'[i].rest # <<>>
      BY <1>4, <1>5, <2>1
    <3>4. QED
      BY <1>1, <1>2, <2>1, <3>1, <3>2, <3>3 DEF Types
  <2>3. LeftBehind'
    BY <1>1, <1>2, <1>5, <2>1 DEF LeftBehind, Told, Ordered, Clean
  <2>4. Times'
    BY <1>1, <1>2, <2>1 DEF Times, BubbleIsNext, Prompts
  <2>5. Status'
    <3>1. loading /\ "empty" \notin upset => \E i \in DOMAIN tl : tl[i].id = hydrationId
      BY <1>1, <1>5, <1>7 DEF Status
    <3>2. QED
      BY <1>1, <1>2, <2>1, <3>1 DEF Status, TurnIsShown, Prompts
  <2>6. QED
    BY <1>6, <2>2, <2>3, <2>4, <2>5 DEF PageInv
<1>8. CASE f.id = hydrationId
  <2>1. /\ SetPage(Hydrate(Page, part))
        /\ frames' = IF left = <<>> THEN tl ELSE Append(tl, [f EXCEPT !.rest = left])
        /\ loading' = (loading /\ left # <<>>)
    BY <1>3, <1>8
  <2> PICK rest : rest = f.rest
    OBVIOUS
  <2>2. rest \in Seq(Items) /\ Len(rest) \in Nat /\ n \in 0..Len(rest)
    BY <1>5, <1>F, PageAssumption
  <2>3. /\ part \in Seq(Items) /\ left \in Seq(Items)
        /\ \A i \in DOMAIN part : \E j \in DOMAIN rest : part[i] = rest[j]
        /\ \A i \in DOMAIN left : \E j \in DOMAIN rest : left[i] = rest[j]
    <3>1. part = SubSeq(rest, 1, n) /\ left = SubSeq(rest, n + 1, Len(rest))
      OBVIOUS
    <3>2. Parts(Items, rest, part, left)
      BY <2>2, <3>1, PartAndRest
    <3>3. QED
      BY <3>2 DEF Parts
  <2> PICK A : A = {rest[j].id : j \in DOMAIN rest}
    OBVIOUS
  <2> PICK from, to : from = Page /\ to = Hydrate(from, part)
    OBVIOUS
  <2>4. Fit(from) /\ \A i \in DOMAIN part : part[i].id \in A
    <3>1. Fit(from)
      BY <1>1 DEF Types
    <3>2. ASSUME NEW i \in DOMAIN part PROVE part[i].id \in A
      <4>1. PICK j \in DOMAIN rest : part[i] = rest[j]
        BY <2>3
      <4>2. rest[j].id \in A
        OBVIOUS
      <4>3. QED
        BY <4>1, <4>2
    <3>3. QED
      BY <3>1, <3>2
  <2>5. Into(from, to, A)
    BY <2>3, <2>4, ListHydrated
  <2>6. Into(Page, to, A) /\ SetPage(to)
    BY <2>1, <2>5
  <2>7. /\ Fit(Page)' /\ rows \in Seq(Row) /\ rows' \in Seq(Row) /\ waiting' \in {waiting, 0}
        /\ Len(rows) <= Len(rows')
        /\ \A i \in DOMAIN rows : rows'[i].id = rows[i].id /\ rows'[i].who = rows[i].who
        /\ \A i \in DOMAIN rows' : rows'[i].id \in A \/ (i \in DOMAIN rows /\ rows'[i].id = rows[i].id)
        /\ (\A i \in DOMAIN rows : rows[i].who = "user" => rows[i].ts \in {Unset, rows[i].id})
             => \A i \in DOMAIN rows' : rows'[i].who = "user" => rows'[i].ts \in {Unset, rows'[i].id}
    BY <1>1, <2>6, RowsGrow
  <2> PICK g : g = [f EXCEPT !.rest = left]
    OBVIOUS
  <2>8. g \in F /\ g.id = f.id /\ g.rest = left
    BY <1>5, <1>F, <2>3
  <2> PICK k \in Nat : k = Len(tl) /\ DOMAIN tl = 1..k
    BY <1>5
  <2>9. left # <<>> => /\ frames' \in Seq(F) /\ DOMAIN frames' = 1..(k + 1)
                       /\ frames'[k + 1] = g /\ \A i \in 1..k : frames'[i] = tl[i]
    BY <1>5, <2>1, <2>8
  <2>10. \A i \in 1..(k + 1) : i \in 1..k \/ i = k + 1
    OBVIOUS
  <2>11. /\ frames' \in Seq(F)
         /\ \A i \in DOMAIN frames' : \/ \E j \in DOMAIN frames : frames'[i] = frames[j]
                                      \/ left # <<>> /\ frames'[i] = g
    BY <1>5, <2>1, <2>9, <2>10
  <2>12. Types'
    <3>1. frames' \in Seq([id : 1..hydrationId', rest : Seq(Items)])
      BY <1>2, <1>F, <2>11
    <3>2. \A i \in DOMAIN frames' : frames'[i].rest # <<>>
      BY <1>4, <2>8, <2>11
    <3>3. loading' \in BOOLEAN
      BY <1>1, <2>1 DEF Types
    <3>4. QED
      BY <1>1, <1>2, <2>7, <3>1, <3>2, <3>3 DEF Types
  <2>13. LeftBehind'
    <3>1. Told /\ held = <<>> => Clean(rows)'
      <4>1. SUFFICES ASSUME Told, held = <<>>, NEW i \in DOMAIN rows'
                     PROVE  rows'[i].id \notin past
        BY <1>2 DEF Clean
      <4>2. /\ \A j \in DOMAIN rows : rows[j].id \notin past
            /\ \A j \in DOMAIN rest : rest[j].id \notin past
        BY <1>1, <1>5, <1>8, <4>1 DEF LeftBehind, Told, Clean
      <4>3. \A a \in A : a \notin past
        BY <4>2
      <4>4. QED
        BY <2>7, <4>2, <4>3
    <3>2. ASSUME Told, held = <<>>, NEW i \in DOMAIN frames', frames'[i].id = hydrationId
          PROVE  \A j \in DOMAIN frames'[i].rest : frames'[i].rest[j].id \notin past
      <4>1. /\ \A j \in DOMAIN rest : rest[j].id \notin past
            /\ \A l \in DOMAIN frames : frames[l].id = hydrationId =>
                 \A j \in DOMAIN frames[l].rest : frames[l].rest[j].id \notin past
        BY <1>1, <1>5, <1>8, <3>2 DEF LeftBehind, Told, Clean
      <4>2. \A j \in DOMAIN left : left[j].id \notin past
        <5>1. TAKE j \in DOMAIN left
        <5>2. PICK l \in DOMAIN rest : left[j] = rest[l]
          BY <2>3
        <5>3. rest[l].id \notin past
          BY <4>1
        <5>4. QED
          BY <5>2, <5>3
      <4>3. CASE frames'[i] = g
        BY <2>8, <4>2, <4>3
      <4>4. CASE \E l \in DOMAIN frames : frames'[i] = frames[l]
        BY <3>2, <4>1, <4>4
      <4>5. QED
        BY <2>11, <4>3, <4>4
    <3>3. QED
      BY <1>1, <1>2, <3>1, <3>2 DEF LeftBehind, Told, Ordered, Clean
  <2>14. Times'
    <3>1. BubbleIsNext => BubbleIsNext'
      <4>1. SUFFICES ASSUME BubbleIsNext, waiting' > 0 PROVE BubbleIsNext'
        BY DEF BubbleIsNext
      <4>2. waiting' = waiting /\ waiting \in DOMAIN rows
        BY <1>1, <2>7, <4>1, PageFits DEF Fit
      <4>3. rows'[waiting'].id = rows[waiting].id
        BY <2>7, <4>2
      <4>4. QED
        BY <1>2, <4>1, <4>2, <4>3 DEF BubbleIsNext, Prompts
    <3>2. QED
      BY <1>1, <1>2, <2>7, <3>1 DEF Times
  <2>15. Status'
    <3>1. loading' => \E i \in DOMAIN frames' : frames'[i].id = hydrationId
      <4>1. SUFFICES ASSUME left # <<>> PROVE \E i \in DOMAIN frames' : frames'[i].id = hydrationId
        BY <2>1
      <4>2. k + 1 \in DOMAIN frames' /\ frames'[k + 1] = g
        BY <2>9, <4>1
      <4>3. frames'[k + 1].id = hydrationId
        BY <1>8, <2>8, <4>2
      <4>4. QED
        BY <4>2, <4>3
    <3>2. QED
      BY <1>1, <1>2, <3>1 DEF Status, TurnIsShown, Prompts
  <2>16. QED
    BY <1>6, <2>12, <2>13, <2>14, <2>15 DEF PageInv
<1>9. QED
  BY <1>7, <1>8

\* A move leaves the page untold.
LEMMA MovesTold ==
  ASSUME Types, NEW h, Moves(h)
  PROVE  asked' \in Seq(Asking) /\ ~Told'
<1> PICK a : a = [busy |-> FALSE, moved |-> TRUE]
  OBVIOUS
<1>1. asked \in Seq(Asking) /\ a \in Asking
  BY DEF Types, Asking
<1>2. CASE asked' = Append(asked, a)
  <2>1. asked' \in Seq(Asking) /\ Len(asked') \in DOMAIN asked' /\ asked'[Len(asked')] = a
    BY <1>1, <1>2
  <2>2. a.moved
    OBVIOUS
  <2>3. QED
    BY <2>1, <2>2 DEF Told
<1>3. CASE "untold" \in upset' /\ asked' = asked
  BY <1>1, <1>3 DEF Told
<1>4. QED
  BY <1>2, <1>3 DEF Moves

\* Another conversation: the empty one, or the one before a message.
LEMMA MovesKeeps ==
  ASSUME PageInv, NEW h \in Seq(Items), Ordered(h), Moves(h),
         \A i \in DOMAIN h : \E j \in DOMAIN history : h[i] = history[j],
         \A i \in DOMAIN h, k \in DOMAIN history :
           history[k].id = h[i].id => \E j \in DOMAIN h : history[k] = h[j]
  PROVE  PageInv'
<1>1. Types /\ Numbers /\ LeftBehind /\ Times /\ Status
  BY DEF PageInv
<1> PICK gone : gone = {m.id : m \in Range(history) \ Range(h)}
  OBVIOUS
<1>2. /\ rows' = rows /\ current' = current /\ waiting' = waiting /\ loading' = loading
      /\ frames' = frames /\ hydrationId' = hydrationId /\ typed' = typed /\ streaming' = streaming
      /\ sent' = sent /\ held' = held /\ phase' = phase /\ turn' = turn /\ block' = block
      /\ queue' = queue /\ history' = h /\ past' = past \cup gone
      /\ upset' \in {upset, upset \cup {"untold"}}
      /\ phase = "idle"
  BY DEF Moves, pageVars
<1>3. asked' \in Seq(Asking) /\ ~Told'
  BY <1>1, MovesTold
<1>4. \A g \in gone : \E k \in DOMAIN history :
        g = history[k].id /\ \A i \in DOMAIN h : history[k].id # h[i].id
  <2> TAKE g \in gone
  <2>1. PICK m \in Range(history) \ Range(h) : g = m.id
    OBVIOUS
  <2>2. PICK k \in DOMAIN history : m = history[k]
    BY <2>1 DEF Range
  <2>3. \A j \in DOMAIN h : h[j] # m
    BY <2>1 DEF Range
  <2>4. QED
    BY <2>1, <2>2, <2>3
<1>5. /\ history \in Seq(Items) /\ \A k \in DOMAIN history : history[k].id \in PromptIds
      /\ \A k \in DOMAIN history : history[k].id <= turn
  <2>1. history \in Seq(Items)
    BY <1>1 DEF Types
  <2>2. \A m \in Items : m.id \in PromptIds
    BY DEF Items
  <2>3. QED
    BY <1>1, <2>1, <2>2, EveryOne DEF Numbers
<1>6. Types'
  <2>1. Fit(Page)'
    BY <1>1, <1>2 DEF Types, Fit, Page
  <2>2. past' \subseteq PromptIds
    <3>1. past \subseteq PromptIds
      BY <1>1 DEF Types
    <3>2. gone \subseteq PromptIds
      BY <1>4, <1>5
    <3>3. QED
      BY <1>2, <3>1, <3>2
  <2>3. QED
    BY <1>1, <1>2, <1>3, <2>1, <2>2 DEF Types
<1>7. Numbers'
  BY <1>1, <1>2, <1>5 DEF Numbers
<1>8. LeftBehind'
  <2>1. \A i \in DOMAIN h : h[i].id \notin past'
    <3> TAKE i \in DOMAIN h
    <3>1. h[i].id \notin past
      BY <1>1 DEF LeftBehind, Told, Clean
    <3>2. h[i].id \notin gone
      BY <1>4
    <3>3. QED
      BY <1>2, <3>1, <3>2
  <2>2. \A p \in past' : p <= turn
    <3>1. past' = past \cup gone /\ \A p \in past : p <= turn
      BY <1>1, <1>2 DEF LeftBehind
    <3>2. QED
      BY <1>4, <1>5, <3>1
  <2>3. QED
    BY <1>2, <1>3, <2>1, <2>2 DEF LeftBehind, Ordered, Clean
<1>9. Times' /\ Status'
  BY <1>1, <1>2 DEF Times, BubbleIsNext, Prompts, Status, TurnIsShown
<1>10. QED
  BY <1>6, <1>7, <1>8, <1>9 DEF PageInv

LEMMA NewSessionKeeps ==
  ASSUME PageInv, NewSession
  PROVE  PageInv'
<1> PICK h : h = <<>>
  OBVIOUS
<1>1. h \in Seq(Items) /\ Ordered(h) /\ DOMAIN h = {} /\ Moves(h)
  BY DEF NewSession, Ordered
<1>2. QED
  BY <1>1, MovesKeeps

\* No message from a prompt on has the number of one before it.
LEMMA ForkKeeps ==
  ASSUME PageInv, NEW i, Fork(i)
  PROVE  PageInv'
<1>1. Types /\ LeftBehind
  BY DEF PageInv
<1>2. PICK n \in DOMAIN history : history[n].who = "user" /\ Moves(SubSeq(history, 1, n - 1))
  BY DEF Fork
<1> PICK h : h = SubSeq(history, 1, n - 1)
  OBVIOUS
<1>3. history \in Seq(Items) /\ \A k \in DOMAIN history : history[k].id \in Int
  <2>1. history \in Seq(Items)
    BY <1>1 DEF Types
  <2>2. \A m \in Items : m.id \in Int
    BY DEF Items, PromptIds
  <2>3. QED
    BY <2>1, <2>2, EveryOne
<1> PICK l \in Nat : l = Len(history) /\ DOMAIN history = 1..l
  BY <1>3
<1>4. n \in 1..l /\ n - 1 \in 0..l
  OBVIOUS
<1>5. h \in Seq(Items) /\ DOMAIN h = 1..(n - 1) /\ \A k \in 1..(n - 1) : h[k] = history[k]
  <2>1. /\ h \in Seq(Items) /\ Len(h) = n - 1
        /\ \A k \in 1..(n - 1) : h[k] = history[k]
    BY <1>3, <1>4, SubSeqProperties
  <2>2. QED
    BY <2>1
<1>6. \A k \in 1..(n - 1) : k \in DOMAIN history
  BY <1>4
<1>7. Ordered(h)
  <2>1. ASSUME NEW k \in DOMAIN h, NEW j \in 1..(k - 1)
        PROVE  h[j].id <= h[k].id /\ (h[k].who = "user" => h[j].id # h[k].id)
    <3>1. j \in 1..(n - 1) /\ k \in 1..(n - 1)
      BY <1>5
    <3>2. QED
      BY <1>1, <1>5, <1>6, <3>1 DEF LeftBehind, Ordered
  <2>2. QED
    BY <2>1 DEF Ordered
<1>8. ASSUME NEW j \in DOMAIN h, NEW k \in DOMAIN history, history[k].id = h[j].id
      PROVE  \E m \in DOMAIN h : history[k] = h[m]
  <2>1. j \in 1..(n - 1) /\ h[j] = history[j] /\ j \in DOMAIN history
    BY <1>5, <1>6
  <2>2. history[j].id <= history[n].id /\ history[j].id # history[n].id
    BY <1>1, <1>2, <2>1 DEF LeftBehind, Ordered
  <2>3. CASE k < n
    <3>1. k \in 1..(n - 1)
      BY <2>3
    <3>2. QED
      BY <1>5, <3>1
  <2>4. CASE k >= n
    <3>1. history[n].id <= history[k].id
      <4>1. CASE k = n
        BY <1>3, <4>1
      <4>2. CASE k > n
        <5>1. n \in 1..(k - 1)
          BY <4>2
        <5>2. QED
          BY <1>1, <5>1 DEF LeftBehind, Ordered
      <4>3. QED
        BY <2>4, <4>1, <4>2
    <3>2. QED
      BY <1>3, <1>8, <2>1, <2>2, <3>1
  <2>5. QED
    BY <2>3, <2>4
<1>9. \A j \in DOMAIN h : \E k \in DOMAIN history : h[j] = history[k]
  BY <1>5, <1>6
<1>10. Moves(h)
  BY <1>2
<1>11. QED
  BY <1>5, <1>7, <1>8, <1>9, <1>10, MovesKeeps

--------------------------------------------------------------------------------
\* The invariant, and what it says

LEMMA InvStarts ==
  ASSUME PageInit
  PROVE  PageInv
<1>1. /\ rows = <<>> /\ current = 0 /\ waiting = 0 /\ streaming = FALSE /\ loading = FALSE
      /\ frames = <<>> /\ hydrationId = 0 /\ sent = <<>> /\ asked = <<>> /\ held = <<>>
      /\ phase = "idle" /\ turn = 0 /\ block = "none" /\ queue = <<>> /\ history = Stored
      /\ past = {} /\ typed = 0
  BY DEF PageInit
<1>2. Types
  <2> PICK pg : pg = [rows |-> <<>>, current |-> 0, waiting |-> 0]
    OBVIOUS
  <2>1. pg \in [rows : Seq(Row), current : Nat, waiting : Int]
    OBVIOUS
  <2>2. Fit(pg)
    BY <2>1 DEF Fit, Gone
  <2>3. Page = pg
    BY <1>1 DEF Page
  <2>4. turn \in 0..typed /\ typed \in 0..MaxTyped /\ hydrationId \in Nat
    BY <1>1, PageAssumption
  <2>5. /\ streaming \in BOOLEAN /\ loading \in BOOLEAN /\ past \subseteq PromptIds
        /\ phase \in Phases /\ block \in Blocks /\ history \in Seq(Items)
    BY <1>1, PageAssumption DEF Phases, Blocks
  <2>6. /\ frames \in Seq([id : 1..hydrationId, rest : Seq(Items)])
        /\ \A i \in DOMAIN frames : frames[i].rest # <<>>
    BY <1>1
  <2>7. sent \in Seq(Sent) /\ queue \in Seq(Typed)
    BY <1>1
  <2>8. asked \in Seq(Asking) /\ held \in Seq([busy : BOOLEAN, list : Seq(Items)])
    BY <1>1
  <2>9. QED
    BY <2>2, <2>3, <2>4, <2>5, <2>6, <2>7, <2>8 DEF Types
<1>3. Numbers
  BY <1>1, PageAssumption DEF Numbers
<1>4. LeftBehind
  <2>1. ASSUME NEW i \in DOMAIN Stored, NEW j \in 1..(i - 1)
        PROVE  Stored[j].id <= Stored[i].id /\ (Stored[i].who = "user" => Stored[j].id # Stored[i].id)
    <3>1. Stored[i] \in Items /\ Stored[j] \in Items
      BY PageAssumption
    <3>2. /\ Stored[i].id \in Int /\ Stored[j].id \in Int
          /\ Stored[i].who \in {"user", "assistant", "result"} /\ Stored[j].who \in {"user", "assistant", "result"}
      BY <3>1 DEF Items, PromptIds
    <3>3. Before(Stored[j], Stored[i])
      BY PageAssumption
    <3>4. QED
      BY <3>2, <3>3 DEF Before, Place
  <2>2. Ordered(Stored)
    BY <2>1 DEF Ordered
  <2>3. QED
    BY <1>1, <2>2 DEF LeftBehind, Told, Clean
<1>5. Times /\ Status
  BY <1>1 DEF Times, BubbleIsNext, Status, TurnIsShown
<1>6. QED
  BY <1>2, <1>3, <1>4, <1>5 DEF PageInv

LEMMA InvStays ==
  ASSUME PageInv, UNCHANGED chatVars
  PROVE  PageInv'
<1>1. Types /\ Numbers /\ LeftBehind /\ Times /\ Status
  BY DEF PageInv
<1>2. /\ rows' = rows /\ current' = current /\ waiting' = waiting /\ loading' = loading
      /\ frames' = frames /\ hydrationId' = hydrationId /\ typed' = typed /\ streaming' = streaming
      /\ sent' = sent /\ asked' = asked /\ held' = held /\ phase' = phase /\ turn' = turn
      /\ block' = block /\ queue' = queue /\ history' = history /\ past' = past /\ upset' = upset
  BY DEF chatVars, pageVars, turnVars, wayVars, bounds
<1>3. Types'
  BY <1>1, <1>2 DEF Types, Fit, Page
<1>4. Numbers' /\ LeftBehind'
  BY <1>1, <1>2 DEF Numbers, LeftBehind, Told, Ordered, Clean
<1>5. Times' /\ Status'
  BY <1>1, <1>2 DEF Times, BubbleIsNext, Prompts, Status, TurnIsShown
<1>6. QED
  BY <1>3, <1>4, <1>5 DEF PageInv

\* The page's pointers stay on the page; prompts become messages in the order they were typed;
\* what pi has left is nowhere once its list was shown; the bubble without a time is the next
\* prompt's (messages.ts, composer.ts).
THEOREM PageInvHolds == PageSpec => []PageInv
<1>1. PageInit => PageInv
  BY InvStarts
<1>2. PageInv /\ [PageNext]_chatVars => PageInv'
  <2> SUFFICES ASSUME PageInv, [PageNext]_chatVars PROVE PageInv'
    OBVIOUS
  <2>1. ASSUME NEW k \in Kinds, Type(k) PROVE PageInv'
    BY <2>1, TypeKeeps
  <2>2. CASE Hydration
    BY <2>2, HydrationKeeps
  <2>3. CASE MessagesAnswered
    BY <2>3, MessagesAnsweredKeeps
  <2>4. CASE Posted
    BY <2>4, PostedKeeps
  <2>5. CASE Frame
    BY <2>5, FrameKeeps
  <2>6. CASE OtherError
    BY <2>6, OtherErrorKeeps
  <2>20. ASSUME NEW i \in DOMAIN asked, MessagesFail(i) PROVE PageInv'
    BY <2>20, MessagesFailKeeps
  <2>7. CASE TakesPrompt
    BY <2>7, TakesPromptKeeps
  <2>8. CASE Starts
    BY <2>8, StartsKeeps
  <2>9. CASE Writes
    BY <2>9, WritesKeeps
  <2>10. CASE Calls
    BY <2>10, CallsKeeps
  <2>11. CASE CallEnds
    BY <2>11, CallEndsKeeps
  <2>12. CASE RunsTool
    BY <2>12, RunsToolKeeps
  <2>13. CASE ToolEnds
    BY <2>13, ToolEndsKeeps
  <2>14. CASE GoesOn
    BY <2>14, GoesOnKeeps
  <2>15. ASSUME NEW stopped \in BOOLEAN, ReplyEnds(stopped) PROVE PageInv'
    BY <2>15, ReplyEndsKeeps
  <2>16. CASE NewSession
    BY <2>16, NewSessionKeeps
  <2>17. ASSUME NEW i \in DOMAIN rows, Fork(i) PROVE PageInv'
    BY <2>17, ForkKeeps
  <2>18. CASE Stop \/ UNCHANGED chatVars
    BY <2>18, InvStays DEF Stop
  <2>19. QED
    BY <2>1, <2>2, <2>3, <2>4, <2>5, <2>6, <2>7, <2>8, <2>9, <2>10, <2>11, <2>12, <2>13, <2>14,
       <2>15, <2>16, <2>17, <2>18, <2>20 DEF PageNext
<1>3. QED
  BY <1>1, <1>2, PTL DEF PageSpec

\* A bubble's timestamp is its own message's, which fork and revert go by, and no row of what pi
\* has left stays or comes back with the frames of an earlier hydration, unless a request failed
\* that was to tell the page of the move.
THEOREM RowsAreTheirOwn == PageSpec => []RowsAreOwn
<1>1. PageInv => RowsAreOwn
  BY DEF PageInv, Times, LeftBehind, Told, Clean, RowsAreOwn, TimesAreOwn, NothingOfThePast, AtRest
<1>2. QED
  BY <1>1, PageInvHolds, PTL

\* What the page says of a turn or a load under way is so, and its pointers are on the page.
THEOREM TheStatusIsTrue == PageSpec => []StatusIsTrue
<1>1. PageInv => StatusIsTrue
  <2> SUFFICES ASSUME PageInv PROVE StatusIsTrue
    OBVIOUS
  <2>1. Types /\ Status
    BY DEF PageInv
  <2>2. PageTypeOK
    <3>1. Page.rows = rows /\ Fit(Page) /\ rows \in Seq(Row) /\ current \in Nat /\ waiting \in Int
      BY <2>1, PageFits
    <3>2. /\ current <= Len(rows) /\ waiting >= Gone /\ waiting <= Len(rows)
          /\ current # 0 => rows[current].who = "assistant"
          /\ waiting > 0 => rows[waiting].who = "user" /\ rows[waiting].ts = Unset
      BY <2>1, PageFits DEF Fit
    <3>3. \A i \in DOMAIN rows : rows[i] \in Row
      BY <3>1
    <3>4. current \in 0..Len(rows) /\ waiting \in Gone..Len(rows)
      BY <3>1, <3>2 DEF Gone
    <3>5. turn \in PromptIds
      BY <2>1, PageAssumption DEF Types, PromptIds
    <3>6. \A i \in DOMAIN frames : frames[i].id \in 1..hydrationId
      <4>F. PICK F : F = [id : 1..hydrationId, rest : Seq(Items)]
        OBVIOUS
      <4>1. frames \in Seq(F)
        BY <2>1, <4>F DEF Types
      <4>2. \A x \in F : x.id \in 1..hydrationId
        BY <4>F
      <4>3. QED
        BY <4>1, <4>2, EveryOne
    <3>7. \A i \in DOMAIN frames : frames[i].rest # <<>>
      BY <2>1 DEF Types
    <3>8. streaming \in BOOLEAN /\ loading \in BOOLEAN /\ phase \in Phases /\ block \in Blocks /\ queue \in Seq(Typed)
      BY <2>1 DEF Types
    <3>9. QED
      BY <3>2, <3>3, <3>4, <3>5, <3>6, <3>7, <3>8 DEF PageTypeOK, Row
  <2>3. LoadingEnds
    BY <2>1 DEF Status, LoadingEnds, AtRest
  <2>4. TurnIsShown
    BY <2>1 DEF Status
  <2>5. IdleIsShown
    BY <2>1 DEF Status, IdleIsShown, AtRest, Prompts
  <2>6. QED
    BY <2>2, <2>3, <2>4, <2>5 DEF StatusIsTrue
<1>2. QED
  BY <1>1, PageInvHolds, PTL
--------------------------------------------------------------------------------
\* The page shows the conversation

\* A conversation is a row of prompts, replies and results in their places.
InPlace(items) == \A i, j \in DOMAIN items : i < j => Before(items[i], items[j])

\* The row of a message among the first n: the calls of the replies B run.
Outcome(items, n, a) == \E k \in 1..n : items[k].who = "result" /\ items[k].id = a
FaceOf(items, n, B, m) ==
  IF m.who = "user" THEN UserRow(m.id, m.id)
  ELSE [ReplyRow(m.id, m.id) EXCEPT
          !.block = m.block,
          !.state = IF m.id \in B THEN "running"
                    ELSE IF m.block = "tool" /\ (m.stopped \/ Outcome(items, n, m.id)) THEN "done"
                    ELSE "still"]
SaidIn(items, n) == {k \in 1..n : items[k].who # "result"}
Faces(items, n, B) == {FaceOf(items, n, B, items[k]) : k \in SaidIn(items, n)}
FacesIn(rs) == {Face(rs[i]) : i \in ShownIn(rs)}

\* Rows as operations leave them: bubbles are plain, a block that knows its call is a tool's, and
\* rows that show stand in the order of their messages.
Regular(rs) ==
  /\ \A i \in DOMAIN rs : rs[i].who = "user" => rs[i] = UserRow(rs[i].id, rs[i].ts)
  /\ \A i \in DOMAIN rs : rs[i].call # Unset => rs[i].call = rs[i].id /\ rs[i].block = "tool"
  /\ \A i, j \in ShownIn(rs) : i < j => Before(rs[i], rs[j])

HasUser(items, n) == \E k \in 1..n : items[k].who = "user"

\* Nothing but one of the causes, or a hydration that is due, makes the page differ.
Steady == upset \cap {"overlap", "error", "command", "crossed"} = {} /\ Told /\ held = <<>>

Calling == IF phase \in {"calling", "called", "tool", "running"} THEN {turn} ELSE {}

\* What pi has said, with the reply it writes.
Writing == phase \in {"writing", "text", "calling", "called"}
Written == IF Writing THEN Append(history, Reply(FALSE)) ELSE history

\* A hydration goes on.
Hydrating == \E i \in DOMAIN frames : frames[i].id = hydrationId

\* The page is at the n-th message: a hydration goes on from there, or it has caught up.
UpTo(n) ==
  /\ FacesIn(rows) = Faces(Written, n, Calling)
  /\ waiting = Gone => ~ HasUser(Written, n)
  /\ IF Hydrating
     THEN \A i \in DOMAIN frames : frames[i].id = hydrationId => frames[i].rest = SubSeq(history, n + 1, Len(history))
     ELSE n = Len(Written)

Mirror ==
  Steady =>
    /\ Regular(rows)
    /\ IF Writing THEN current # 0 /\ rows[current].id = turn ELSE current = 0
    /\ phase \in {"called", "tool", "running"} => \E i \in DOMAIN rows : rows[i].call = turn
    /\ waiting > 0 => waiting = Len(rows)
    /\ waiting = Gone => phase = "idle" /\ Prompts = {} /\ (streaming => HasUser(history, Len(history)))
    /\ Hydrating => /\ phase = "idle" /\ sent = <<>> /\ waiting <= 0
                    /\ \A i \in DOMAIN rows : rows[i].block = "tool" => rows[i].call # Unset
    /\ \E n \in 0..Len(Written) : UpTo(n)

\* The reply of a turn and its result come last.
Talks ==
  /\ InPlace(history)
  /\ phase \in {"asked", "writing", "text", "calling", "called"} =>
       \A i \in DOMAIN history : Before(history[i], Item("assistant", turn))
  /\ phase \in {"tool", "running"} => \A i \in DOMAIN history : Before(history[i], Item("result", turn))
  /\ phase # "idle" => HasUser(history, Len(history))
  /\ phase \in {"asked", "writing"} => block = "none"
  /\ phase = "text" => block = "text"
  /\ phase \in {"calling", "called", "tool", "running"} => block = "tool"

\* A hydration has one frame at a time.
OneFrame == \A i, j \in DOMAIN frames : frames[i].id = frames[j].id => i = j

MirrorInv == Talks /\ OneFrame /\ Mirror

--------------------------------------------------------------------------------
\* Rows and messages

Kept(r) == r.call # Unset => r.call = r.id /\ r.block = "tool"

\* The sides of a row.
LEMMA RowSides ==
  ASSUME NEW r \in Row
  PROVE  /\ r.who \in {"user", "assistant"} /\ r.id \in Int /\ r.id \in PromptIds
         /\ Face(r) \in Row /\ Face(r).who = r.who /\ Face(r).id = r.id /\ Face(r).ts = r.ts
         /\ Face(r).block = r.block /\ Face(r).state = r.state /\ Face(r).call = Unset
BY DEF Row, Face, PromptIds

LEMMA SameRow ==
  ASSUME NEW r \in Row, NEW s \in Row, r.who = s.who, r.id = s.id, r.ts = s.ts, r.block = s.block,
         r.call = s.call, r.state = s.state
  PROVE  r = s
BY DEF Row

\* The sides of a message, and of the row that shows it.
LEMMA MessageSides ==
  ASSUME NEW m \in Items
  PROVE  /\ m.who \in {"user", "assistant", "result"} /\ m.id \in Int /\ m.id \in PromptIds
         /\ m.block \in Blocks /\ m.stopped \in BOOLEAN
BY DEF Items, PromptIds

LEMMA FaceOfSides ==
  ASSUME NEW m \in Items, m.who # "result", NEW items, NEW n, NEW B, NEW f, f = FaceOf(items, n, B, m)
  PROVE  /\ f \in Row /\ f.who = m.who /\ f.id = m.id /\ f.ts = m.id /\ f.call = Unset
         /\ m.who = "user" => f = UserRow(m.id, m.id)
         /\ m.who = "assistant" =>
              /\ f.block = m.block
              /\ f.state = IF m.id \in B THEN "running"
                           ELSE IF m.block = "tool" /\ (m.stopped \/ Outcome(items, n, m.id)) THEN "done"
                           ELSE "still"
<1>1. m.who \in {"user", "assistant"} /\ m.id \in PromptIds /\ m.block \in Blocks
  BY MessageSides
<1>2. CASE m.who = "user"
  BY <1>1, <1>2, NewRows DEF FaceOf, UserRow
<1>3. CASE m.who = "assistant"
  <2> PICK s : s = IF m.id \in B THEN "running"
                   ELSE IF m.block = "tool" /\ (m.stopped \/ Outcome(items, n, m.id)) THEN "done"
                   ELSE "still"
    OBVIOUS
  <2>1. s \in {"still", "running", "done"}
    OBVIOUS
  <2>2. f = [ReplyRow(m.id, m.id) EXCEPT !.block = m.block, !.state = s]
    BY <1>3 DEF FaceOf
  <2>3. f = [who |-> "assistant", id |-> m.id, ts |-> m.id, block |-> m.block, call |-> Unset, state |-> s]
    BY <2>2 DEF ReplyRow, UserRow
  <2>4. f \in Row
    BY <1>1, <2>1, <2>3 DEF Row
  <2>5. QED
    BY <1>3, <2>3, <2>4
<1>4. QED
  BY <1>1, <1>2, <1>3

\* Messages come before others, not before themselves.
LEMMA BeforeOther ==
  ASSUME NEW m, NEW l, m.id \in Int, m.who \in {"user", "assistant", "result"}, Before(m, l)
  PROVE  ~(m.id = l.id /\ m.who = l.who)
BY DEF Before, Place

\* Rows that show are of different messages, and so are the messages of a conversation.
LEMMA RowsDiffer ==
  ASSUME NEW rs \in Seq(Row), Regular(rs), NEW i \in ShownIn(rs), NEW j \in ShownIn(rs),
         rs[i].id = rs[j].id, rs[i].who = rs[j].who
  PROVE  i = j
<1>1. i \in DOMAIN rs /\ j \in DOMAIN rs /\ i \in Int /\ j \in Int
  BY DEF ShownIn
<1> PICK a, b : a = rs[i] /\ b = rs[j]
  OBVIOUS
<1>2. a \in Row /\ b \in Row
  BY <1>1
<1>3. a.id \in Int /\ b.id \in Int /\ a.who \in {"user", "assistant"} /\ b.who \in {"user", "assistant"}
  BY <1>2, RowSides
<1>4. CASE i < j
  BY <1>3, <1>4, BeforeOther DEF Regular
<1>5. CASE j < i
  BY <1>3, <1>5, BeforeOther DEF Regular
<1>6. QED
  BY <1>1, <1>4, <1>5

LEMMA MessagesDiffer ==
  ASSUME NEW items \in Seq(Items), InPlace(items), NEW k \in DOMAIN items, NEW l \in DOMAIN items,
         items[k].id = items[l].id, items[k].who = items[l].who
  PROVE  k = l
<1> PICK a, b : a = items[k] /\ b = items[l]
  OBVIOUS
<1>1. a \in Items /\ b \in Items /\ k \in Int /\ l \in Int
  OBVIOUS
<1>2. a.id \in Int /\ b.id \in Int /\ a.who \in {"user", "assistant", "result"} /\ b.who \in {"user", "assistant", "result"}
  BY <1>1, MessageSides
<1>3. CASE k < l
  BY <1>2, <1>3, BeforeOther DEF InPlace
<1>4. CASE l < k
  BY <1>2, <1>4, BeforeOther DEF InPlace
<1>5. QED
  BY <1>1, <1>3, <1>4

\* What the rows show has the messages' numbers.
LEMMA RowShowsMessage ==
  ASSUME NEW rs \in Seq(Row), NEW items \in Seq(Items), NEW n \in 0..Len(items), NEW B,
         FacesIn(rs) = Faces(items, n, B), NEW i \in ShownIn(rs)
  PROVE  \E k \in SaidIn(items, n) : /\ items[k].who = rs[i].who /\ items[k].id = rs[i].id
                                    /\ Face(rs[i]) = FaceOf(items, n, B, items[k])
<1>1. i \in DOMAIN rs /\ rs[i] \in Row
  BY DEF ShownIn
<1>2. Face(rs[i]) \in Faces(items, n, B)
  BY DEF FacesIn
<1>3. PICK k \in SaidIn(items, n) : Face(rs[i]) = FaceOf(items, n, B, items[k])
  BY <1>2 DEF Faces
<1>4. k \in DOMAIN items /\ items[k] \in Items /\ items[k].who # "result"
  BY DEF SaidIn
<1> PICK r, m, f : r = rs[i] /\ m = items[k] /\ f = FaceOf(items, n, B, m)
  OBVIOUS
<1>5. f.who = m.who /\ f.id = m.id
  BY <1>4, FaceOfSides
<1>6. Face(r).who = r.who /\ Face(r).id = r.id
  BY <1>1, RowSides
<1>7. QED
  BY <1>3, <1>5, <1>6

\* What comes after the messages comes after the rows.
LEMMA RowsComeBefore ==
  ASSUME NEW rs \in Seq(Row), NEW items \in Seq(Items), NEW n \in 0..Len(items), NEW B,
         FacesIn(rs) = Faces(items, n, B), NEW m, \A k \in 1..n : Before(items[k], m)
  PROVE  \A i \in ShownIn(rs) : Before(rs[i], m)
<1> TAKE i \in ShownIn(rs)
<1>1. PICK k \in SaidIn(items, n) : items[k].who = rs[i].who /\ items[k].id = rs[i].id
  BY RowShowsMessage
<1>2. Before(items[k], m)
  BY DEF SaidIn
<1>3. QED
  BY <1>1, <1>2 DEF Before

--------------------------------------------------------------------------------
\* How rows and messages change together

\* A row at the end, as operations leave it.
LEMMA RegularMore ==
  ASSUME NEW rs \in Seq(Row), Regular(rs), NEW r \in Row, Kept(r),
         r.who = "user" => r = UserRow(r.id, r.ts),
         \A i \in ShownIn(rs) : Before(rs[i], r)
  PROVE  /\ Regular(Append(rs, r)) /\ Append(rs, r) \in Seq(Row)
         /\ r.who = "assistant" \/ r.ts # Unset => FacesIn(Append(rs, r)) = FacesIn(rs) \cup {Face(r)}
         /\ r.who = "user" /\ r.ts = Unset => FacesIn(Append(rs, r)) = FacesIn(rs)
<1> PICK n \in Nat : n = Len(rs) /\ DOMAIN rs = 1..n
  OBVIOUS
<1> PICK to : to = Append(rs, r)
  OBVIOUS
<1>1. /\ to \in Seq(Row) /\ DOMAIN to = 1..(n + 1) /\ to[n + 1] = r
      /\ \A i \in 1..n : to[i] = rs[i]
  OBVIOUS
<1>2. \A i \in 1..(n + 1) : i \in 1..n \/ i = n + 1
  OBVIOUS
<1>3. /\ \A i \in ShownIn(to) : (i \in ShownIn(rs) /\ to[i] = rs[i]) \/ (i = n + 1 /\ (r.who = "assistant" \/ r.ts # Unset))
      /\ \A i \in ShownIn(rs) : i \in ShownIn(to) /\ to[i] = rs[i] /\ i \in 1..n
      /\ r.who = "assistant" \/ r.ts # Unset => n + 1 \in ShownIn(to)
  BY <1>1, <1>2 DEF ShownIn
<1>4. Regular(to)
  <2>1. \A i \in DOMAIN to : to[i].who = "user" => to[i] = UserRow(to[i].id, to[i].ts)
    BY <1>1, <1>2 DEF Regular
  <2>2. \A i \in DOMAIN to : to[i].call # Unset => to[i].call = to[i].id /\ to[i].block = "tool"
    BY <1>1, <1>2 DEF Regular, Kept
  <2>3. ASSUME NEW i \in ShownIn(to), NEW j \in ShownIn(to), i < j
        PROVE  Before(to[i], to[j])
    <3>1. i \in 1..(n + 1) /\ j \in 1..(n + 1)
      BY <1>1 DEF ShownIn
    <3>2. i # n + 1
      BY <2>3, <3>1
    <3>3. i \in ShownIn(rs) /\ to[i] = rs[i]
      BY <1>3, <3>2
    <3>4. CASE j = n + 1
      BY <1>1, <3>3, <3>4
    <3>5. CASE j # n + 1
      BY <1>3, <2>3, <3>3, <3>5 DEF Regular
    <3>6. QED
      BY <3>4, <3>5
  <2>4. QED
    BY <2>1, <2>2, <2>3 DEF Regular
<1>5. ASSUME r.who = "assistant" \/ r.ts # Unset
      PROVE  FacesIn(to) = FacesIn(rs) \cup {Face(r)}
  <2>1. \A i \in ShownIn(to) : Face(to[i]) \in FacesIn(rs) \cup {Face(r)}
    BY <1>1, <1>3 DEF FacesIn
  <2>2. \A i \in ShownIn(rs) : Face(rs[i]) \in FacesIn(to)
    BY <1>3 DEF FacesIn
  <2>3. Face(r) \in FacesIn(to)
    BY <1>1, <1>3, <1>5 DEF FacesIn
  <2>4. QED
    BY <2>1, <2>2, <2>3 DEF FacesIn
<1>6. ASSUME r.who = "user", r.ts = Unset
      PROVE  FacesIn(to) = FacesIn(rs)
  <2>1. \A i \in ShownIn(to) : i \in ShownIn(rs) /\ to[i] = rs[i]
    BY <1>3, <1>6
  <2>2. QED
    BY <1>3, <2>1 DEF FacesIn
<1>7. QED
  BY <1>1, <1>4, <1>5, <1>6

\* A bubble that has no time yet does not show: it may be of any message.
LEMMA RegularBubble ==
  ASSUME NEW rs \in Seq(Row), Regular(rs), NEW r \in Row, r.who = "user", r.ts = Unset, r = UserRow(r.id, r.ts)
  PROVE  Regular(Append(rs, r)) /\ FacesIn(Append(rs, r)) = FacesIn(rs)
<1> PICK n \in Nat : n = Len(rs) /\ DOMAIN rs = 1..n
  OBVIOUS
<1> PICK to : to = Append(rs, r)
  OBVIOUS
<1>1. DOMAIN to = 1..(n + 1) /\ to[n + 1] = r /\ \A i \in 1..n : to[i] = rs[i]
  OBVIOUS
<1>2. \A i \in 1..(n + 1) : i \in 1..n \/ i = n + 1
  OBVIOUS
<1>3. r.call = Unset
  BY DEF UserRow
<1>4. ShownIn(to) = ShownIn(rs) /\ \A i \in ShownIn(rs) : to[i] = rs[i]
  BY <1>1, <1>2 DEF ShownIn
<1>5. Regular(to)
  BY <1>1, <1>2, <1>3, <1>4 DEF Regular
<1>6. FacesIn(to) = FacesIn(rs)
  BY <1>4 DEF FacesIn
<1>7. QED
  BY <1>5, <1>6

\* The row c of a reply is filled, and nothing else.
FilledAt(rs, to, c, r) ==
  /\ to \in Seq(Row) /\ Regular(to) /\ ShownIn(to) = ShownIn(rs) /\ c \in ShownIn(rs)
  /\ DOMAIN to = DOMAIN rs /\ to[c] = r /\ \A i \in DOMAIN rs : i # c => to[i] = rs[i]

LEMMA RegularFilled ==
  ASSUME NEW rs \in Seq(Row), Regular(rs), NEW c \in DOMAIN rs, rs[c].who = "assistant",
         NEW r \in Row, Kept(r), r.who = "assistant", r.id = rs[c].id,
         NEW to, to = [rs EXCEPT ![c] = r]
  PROVE  FilledAt(rs, to, c, r)
<1>1. /\ to \in Seq(Row) /\ DOMAIN to = DOMAIN rs /\ to[c] = r
      /\ \A i \in DOMAIN rs : i # c => to[i] = rs[i]
  OBVIOUS
<1>2. ShownIn(to) = ShownIn(rs) /\ c \in ShownIn(rs)
  BY <1>1 DEF ShownIn
<1>3. \A i \in DOMAIN rs : to[i].who = rs[i].who /\ to[i].id = rs[i].id
  BY <1>1
<1>4. Regular(to)
  <2>1. \A i \in DOMAIN to : to[i].who = "user" => to[i] = UserRow(to[i].id, to[i].ts)
    BY <1>1 DEF Regular
  <2>2. \A i \in DOMAIN to : to[i].call # Unset => to[i].call = to[i].id /\ to[i].block = "tool"
    BY <1>1 DEF Regular, Kept
  <2>3. \A i, j \in ShownIn(to) : i < j => Before(to[i], to[j])
    BY <1>2, <1>3 DEF Regular, Before, ShownIn
  <2>4. QED
    BY <2>1, <2>2, <2>3 DEF Regular
<1>5. QED
  BY <1>1, <1>2, <1>4 DEF FilledAt

\* The rows show the first n messages, while the calls B run.
Showing(rs, items, n, B) == rs \in Seq(Row) /\ Regular(rs) /\ FacesIn(rs) = Faces(items, n, B)

\* Of what items and its show, only the reply of the row r differs: it is what r shows.
Turns(items, n, B, its, l, C, r) ==
  /\ SaidIn(its, l) = SaidIn(items, n)
  /\ \A k \in SaidIn(items, n) : items[k].who = "assistant" /\ items[k].id = r.id => Face(r) = FaceOf(its, l, C, its[k])
  /\ \A k \in SaidIn(items, n) : ~(items[k].who = "assistant" /\ items[k].id = r.id) =>
       FaceOf(its, l, C, its[k]) = FaceOf(items, n, B, items[k])

\* A reply and its row change alike, and no other message does.
LEMMA ReplyChanges ==
  ASSUME NEW rs \in Seq(Row), Regular(rs), NEW items \in Seq(Items), InPlace(items),
         NEW n \in 0..Len(items), NEW B, FacesIn(rs) = Faces(items, n, B),
         NEW c \in DOMAIN rs, rs[c].who = "assistant",
         NEW r \in Row, Kept(r), r.who = "assistant", r.id = rs[c].id,
         NEW its, NEW l, NEW C, Turns(items, n, B, its, l, C, r),
         NEW to, to = [rs EXCEPT ![c] = r]
  PROVE  Showing(to, its, l, C)
<1>0. /\ SaidIn(its, l) = SaidIn(items, n)
      /\ \A k \in SaidIn(items, n) : items[k].who = "assistant" /\ items[k].id = r.id => Face(r) = FaceOf(its, l, C, its[k])
      /\ \A k \in SaidIn(items, n) : ~(items[k].who = "assistant" /\ items[k].id = r.id) =>
           FaceOf(its, l, C, its[k]) = FaceOf(items, n, B, items[k])
  BY DEF Turns
<1>1. /\ to \in Seq(Row) /\ Regular(to) /\ ShownIn(to) = ShownIn(rs) /\ c \in ShownIn(rs)
      /\ DOMAIN to = DOMAIN rs /\ to[c] = r /\ \A i \in DOMAIN rs : i # c => to[i] = rs[i]
  <2>1. FilledAt(rs, to, c, r)
    BY RegularFilled
  <2>2. QED
    BY <2>1 DEF FilledAt
<1>2. ASSUME NEW i \in ShownIn(rs) PROVE Face(to[i]) \in Faces(its, l, C)
  <2>1. PICK k \in SaidIn(items, n) : /\ items[k].who = rs[i].who /\ items[k].id = rs[i].id
                                      /\ Face(rs[i]) = FaceOf(items, n, B, items[k])
    BY RowShowsMessage
  <2>2. CASE i = c
    <3>1. Face(r) = FaceOf(its, l, C, its[k])
      BY <1>0, <2>1, <2>2
    <3>2. QED
      BY <1>0, <1>1, <2>2, <3>1 DEF Faces
  <2>3. CASE i # c
    <3>1. ~(rs[i].who = "assistant" /\ rs[i].id = r.id)
      BY <1>1, <2>3, RowsDiffer
    <3>2. FaceOf(its, l, C, its[k]) = FaceOf(items, n, B, items[k])
      BY <1>0, <2>1, <3>1
    <3>3. to[i] = rs[i]
      BY <1>1, <2>3 DEF ShownIn
    <3>4. QED
      BY <1>0, <2>1, <3>2, <3>3 DEF Faces
  <2>4. QED
    BY <2>2, <2>3
<1>3. ASSUME NEW k \in SaidIn(items, n) PROVE FaceOf(its, l, C, its[k]) \in FacesIn(to)
  <2>1. FaceOf(items, n, B, items[k]) \in FacesIn(rs)
    BY DEF Faces
  <2>2. PICK i \in ShownIn(rs) : Face(rs[i]) = FaceOf(items, n, B, items[k])
    BY <2>1 DEF FacesIn
  <2>3. items[k].who = rs[i].who /\ items[k].id = rs[i].id
    <3>1. k \in DOMAIN items /\ items[k] \in Items /\ items[k].who # "result" /\ rs[i] \in Row
      BY DEF SaidIn, ShownIn
    <3> PICK m, f, x : m = items[k] /\ f = FaceOf(items, n, B, m) /\ x = rs[i]
      OBVIOUS
    <3>2. f.who = m.who /\ f.id = m.id
      BY <3>1, FaceOfSides
    <3>3. Face(x).who = x.who /\ Face(x).id = x.id
      BY <3>1, RowSides
    <3>4. QED
      BY <2>2, <3>2, <3>3
  <2>4. CASE i = c
    <3>1. Face(r) = FaceOf(its, l, C, its[k])
      BY <1>0, <2>3, <2>4
    <3>2. QED
      BY <1>1, <3>1 DEF FacesIn
  <2>5. CASE i # c
    <3>1. ~(items[k].who = "assistant" /\ items[k].id = r.id)
      BY <1>1, <2>3, <2>5, RowsDiffer
    <3>2. FaceOf(its, l, C, its[k]) = FaceOf(items, n, B, items[k])
      BY <1>0, <3>1
    <3>3. to[i] = rs[i] /\ i \in ShownIn(to)
      BY <1>1, <2>5 DEF ShownIn
    <3>4. QED
      BY <2>2, <3>2, <3>3 DEF FacesIn
  <2>6. QED
    BY <2>4, <2>5
<1>4. FacesIn(to) = Faces(its, l, C)
  <2>1. \A f \in FacesIn(to) : f \in Faces(its, l, C)
    BY <1>1, <1>2 DEF FacesIn
  <2>2. \A f \in Faces(its, l, C) : f \in FacesIn(to)
    BY <1>0, <1>3 DEF Faces
  <2>3. QED
    BY <2>1, <2>2
<1>5. QED
  BY <1>1, <1>4 DEF Showing

--------------------------------------------------------------------------------
\* What operations fill

\* The page pg with the row r at c.
With(pg, c, r) == [rows |-> [pg.rows EXCEPT ![c] = r], current |-> pg.current, waiting |-> pg.waiting]

\* Two rows that differ in what is filled to one at most.
Alike(r, x) == x \in Row /\ r \in Row /\ x.who = r.who /\ x.id = r.id /\ x.ts = r.ts

LEMMA RowFilled ==
  ASSUME NEW pg, Fit(pg), NEW c \in DOMAIN pg.rows, NEW r, r = pg.rows[c], NEW x, Alike(r, x)
  PROVE  /\ x.call = r.call /\ x.state = r.state => [pg EXCEPT !.rows[c].block = x.block] = With(pg, c, x)
         /\ x.block = r.block /\ x.state = r.state => [pg EXCEPT !.rows[c].call = x.call] = With(pg, c, x)
         /\ x.block = r.block /\ x.call = r.call => [pg EXCEPT !.rows[c].state = x.state] = With(pg, c, x)
<1>1. pg \in [rows : Seq(Row), current : Nat, waiting : Int] /\ r \in Row /\ x \in Row
  BY DEF Fit, Alike
<1>2. ASSUME NEW q PROVE [pg EXCEPT !.rows = q] = [rows |-> q, current |-> pg.current, waiting |-> pg.waiting]
  BY <1>1
<1> PICK rs : rs = [pg.rows EXCEPT ![c] = x]
  OBVIOUS
<1>3. With(pg, c, x) = [pg EXCEPT !.rows = rs]
  <2>1. With(pg, c, x) = [rows |-> rs, current |-> pg.current, waiting |-> pg.waiting]
    BY DEF With
  <2>2. QED
    BY <1>2, <2>1
<1>4. ASSUME x.call = r.call, x.state = r.state PROVE [pg EXCEPT !.rows[c].block = x.block] = With(pg, c, x)
  <2>1. x = [r EXCEPT !.block = x.block]
    BY <1>1, <1>4 DEF Row, Alike
  <2> PICK to : to = [pg EXCEPT !.rows[c].block = x.block]
    OBVIOUS
  <2>2. to = [pg EXCEPT !.rows = rs]
    BY <1>1, <2>1
  <2>3. QED
    BY <1>3, <2>2
<1>5. ASSUME x.block = r.block, x.state = r.state PROVE [pg EXCEPT !.rows[c].call = x.call] = With(pg, c, x)
  <2>1. x = [r EXCEPT !.call = x.call]
    BY <1>1, <1>5 DEF Row, Alike
  <2> PICK to : to = [pg EXCEPT !.rows[c].call = x.call]
    OBVIOUS
  <2>2. to = [pg EXCEPT !.rows = rs]
    BY <1>1, <2>1
  <2>3. QED
    BY <1>3, <2>2
<1>6. ASSUME x.block = r.block, x.call = r.call PROVE [pg EXCEPT !.rows[c].state = x.state] = With(pg, c, x)
  <2>1. x = [r EXCEPT !.state = x.state]
    BY <1>1, <1>6 DEF Row, Alike
  <2> PICK to : to = [pg EXCEPT !.rows[c].state = x.state]
    OBVIOUS
  <2>2. to = [pg EXCEPT !.rows = rs]
    BY <1>1, <2>1
  <2>3. QED
    BY <1>3, <2>2
<1>7. QED
  BY <1>4, <1>5, <1>6

\* Any side can be filled.
LEMMA AlikeIsThere ==
  ASSUME NEW r \in Row, NEW b \in Blocks, NEW a \in PromptIds \cup {Unset}, NEW s \in {"still", "running", "done"}
  PROVE  \E x : Alike(r, x) /\ x.block = b /\ x.call = a /\ x.state = s
<1> PICK x : x = [who |-> r.who, id |-> r.id, ts |-> r.ts, block |-> b, call |-> a, state |-> s]
  OBVIOUS
<1>1. x \in Row /\ x.who = r.who /\ x.id = r.id /\ x.ts = r.ts /\ x.block = b /\ x.call = a /\ x.state = s
  BY DEF Row
<1>2. QED
  BY <1>1 DEF Alike

LEMMA SideIsThere ==
  ASSUME NEW r \in Row
  PROVE  /\ \A s \in {"still", "running", "done"} :
              \E x : Alike(r, x) /\ x.block = r.block /\ x.call = r.call /\ x.state = s
         /\ \A b \in Blocks : \E x : Alike(r, x) /\ x.block = b /\ x.call = r.call /\ x.state = r.state
         /\ \A a \in PromptIds : \E x : Alike(r, x) /\ x.block = r.block /\ x.call = a /\ x.state = r.state
<1>1. r.block \in Blocks /\ r.call \in PromptIds \cup {Unset} /\ r.state \in {"still", "running", "done"}
  BY DEF Row
<1>2. ASSUME NEW b \in Blocks, NEW a \in PromptIds \cup {Unset}, NEW s \in {"still", "running", "done"}
      PROVE  \E x : Alike(r, x) /\ x.block = b /\ x.call = a /\ x.state = s
  BY AlikeIsThere
<1>3. \A a \in PromptIds : a \in PromptIds \cup {Unset}
  OBVIOUS
<1>4. QED
  BY <1>1, <1>2, <1>3

\* ensureBlock and finalizeToolCall on a page that has a current row.
LEMMA CurrentFilled ==
  ASSUME NEW pg, Fit(pg), NEW c, c = pg.current, c # 0, NEW r, r = pg.rows[c], NEW a, NEW x, Alike(r, x)
  PROVE  /\ c \in DOMAIN pg.rows /\ r \in Row /\ r.who = "assistant"
         /\ x.call = r.call /\ x.state = r.state => EnsureBlock(pg, a, x.block) = With(pg, c, x)
         /\ a \in PromptIds /\ x.block = "tool" /\ x.call = a /\ x.state = r.state
              => FinalizeToolCall(pg, a) = With(pg, c, x)
<1>1. /\ pg \in [rows : Seq(Row), current : Nat, waiting : Int] /\ c \in DOMAIN pg.rows /\ r \in Row
      /\ r.who = "assistant"
  BY DEF Fit
<1>2. ASSUME NEW y, Alike(r, y), y.call = r.call, y.state = r.state
      PROVE  EnsureBlock(pg, a, y.block) = With(pg, c, y)
  <2>1. [pg EXCEPT !.rows[c].block = y.block] = With(pg, c, y)
    BY <1>1, <1>2, RowFilled
  <2>2. QED
    BY <2>1 DEF EnsureBlock
<1>3. ASSUME a \in PromptIds, x.block = "tool", x.call = a, x.state = r.state
      PROVE  FinalizeToolCall(pg, a) = With(pg, c, x)
  <2> PICK b, ca, st : b = "tool" /\ ca = r.call /\ st = r.state
    OBVIOUS
  <2>1. ca \in PromptIds \cup {Unset} /\ st \in {"still", "running", "done"} /\ b \in Blocks
    BY <1>1 DEF Row, Blocks
  <2>2. PICK y : Alike(r, y) /\ y.block = b /\ y.call = ca /\ y.state = st
    BY <1>1, <2>1, AlikeIsThere
  <2> PICK at : at = With(pg, c, y)
    OBVIOUS
  <2>3. EnsureBlock(pg, a, "tool") = at /\ y \in Row
    BY <1>2, <2>2 DEF Alike
  <2>4. Fit(at) /\ at.rows = [pg.rows EXCEPT ![c] = y] /\ at.current = c /\ at.waiting = pg.waiting
    <3>1. [pg.rows EXCEPT ![c] = y] \in Seq(Row)
      BY <1>1, <2>3
    <3>2. EnsureBlock(pg, a, "tool") = at
      BY <2>3
    <3>3. Fit(at)
      BY <1>3, <3>2, BlockEnsured DEF Blocks
    <3>4. QED
      BY <3>3 DEF With
  <2>5. at.rows[c] = y /\ c \in DOMAIN at.rows /\ Alike(y, x)
    BY <1>1, <2>2, <2>4 DEF Alike
  <2>6. [at EXCEPT !.rows[c].call = x.call] = With(at, c, x)
    BY <1>3, <2>2, <2>4, <2>5, RowFilled
  <2>7. [at.rows EXCEPT ![c] = x] = [pg.rows EXCEPT ![c] = x]
    BY <1>1, <2>4
  <2>8. FinalizeToolCall(pg, a) = [at EXCEPT !.rows[c].call = x.call]
    BY <1>3, <2>3, <2>4 DEF FinalizeToolCall
  <2>9. QED
    BY <2>4, <2>6, <2>7, <2>8 DEF With
<1>4. QED
  BY <1>1, <1>2, <1>3

\* hydrateOne of a reply: its row, with its block, call and error, at the end.
DrawnAs(m, x) ==
  /\ x \in Row /\ x.who = "assistant" /\ x.id = m.id /\ x.ts = m.id /\ x.block = m.block
  /\ x.call = IF m.block = "tool" THEN m.id ELSE Unset
  /\ x.state = IF m.stopped /\ m.block = "tool" THEN "done" ELSE "still"

\* The page pg with the row r after its own, as its current one.
Under(pg, r) == [rows |-> Append(pg.rows, r), current |-> Len(pg.rows) + 1, waiting |-> pg.waiting]

LEMMA LastFilled ==
  ASSUME NEW pg, Fit(pg), NEW r \in Row, NEW x \in Row, NEW c, c = Len(pg.rows) + 1, NEW at, at = Under(pg, r)
  PROVE  With(at, c, x) = Under(pg, x) /\ at.rows[c] = r /\ at.current = c /\ c # 0
<1>1. pg.rows \in Seq(Row)
  BY DEF Fit
<1>n. PICK n \in Nat : n = Len(pg.rows) /\ DOMAIN pg.rows = 1..n
  BY <1>1
<1>s. PICK s : s = Append(pg.rows, r)
  OBVIOUS
<1>t. PICK t : t = Append(pg.rows, x)
  OBVIOUS
<1>2. /\ s \in Seq(Row) /\ t \in Seq(Row) /\ DOMAIN s = 1..(n + 1) /\ DOMAIN t = 1..(n + 1) /\ c = n + 1
      /\ Len(s) = n + 1 /\ Len(t) = n + 1
      /\ s[n + 1] = r /\ t[n + 1] = x /\ \A i \in 1..n : s[i] = t[i]
  BY <1>1, <1>n, <1>s, <1>t
<1>3. [s EXCEPT ![c] = x] = t
  <2>u. PICK u : u = [s EXCEPT ![c] = x]
    OBVIOUS
  <2>1. u \in Seq(Row) /\ Len(u) = n + 1
    BY <1>2, <2>u
  <2>2. \A i \in 1..(n + 1) : u[i] = IF i = n + 1 THEN x ELSE s[i]
    BY <1>2, <2>u
  <2>3. \A i \in 1..(n + 1) : u[i] = t[i]
    BY <1>2, <2>2
  <2>4. u = t
    BY <1>2, <2>1, <2>3, SeqEqual
  <2>5. QED
    BY <2>u, <2>4
<1>4. at.rows = s /\ at.current = c /\ at.waiting = pg.waiting
  BY <1>s DEF Under
<1>5. With(at, c, x) = [rows |-> t, current |-> c, waiting |-> pg.waiting]
  BY <1>3, <1>4 DEF With
<1>6. Under(pg, x) = [rows |-> t, current |-> c, waiting |-> pg.waiting]
  BY <1>t DEF Under
<1>7. QED
  BY <1>2, <1>4, <1>5, <1>6

LEMMA ReplyDrawn ==
  ASSUME NEW pg, Fit(pg), NEW m \in Items, m.who = "assistant"
  PROVE  \E x : /\ DrawnAs(m, x)
                /\ HydrateOne(pg, m).rows = Append(pg.rows, x)
                /\ HydrateOne(pg, m).current = 0 /\ HydrateOne(pg, m).waiting = pg.waiting
<1>a. PICK a : a = m.id
  OBVIOUS
<1>b. PICK b : b = m.block
  OBVIOUS
<1>c. PICK c : c = Len(pg.rows) + 1
  OBVIOUS
<1>1. a \in PromptIds /\ a \in PromptIds \cup {Unset} /\ b \in {"none", "text", "tool"} /\ b \in Blocks /\ m.stopped \in BOOLEAN
  BY <1>a, <1>b, MessageSides DEF Blocks
<1>r. PICK r : r = ReplyRow(a, a)
  OBVIOUS
<1>2. r \in Row /\ r.who = "assistant" /\ r.id = a /\ r.ts = a /\ r.block = "none" /\ r.call = Unset /\ r.state = "still"
  <2>1. r = [who |-> "assistant", id |-> a, ts |-> a, block |-> "none", call |-> Unset, state |-> "still"]
    BY <1>r DEF ReplyRow, UserRow
  <2>2. QED
    BY <1>1, <2>1 DEF Row, Blocks
<1>g. PICK begun : begun = StartAssistantMessage(pg, a, a)
  OBVIOUS
<1>3. begun = Under(pg, r) /\ Fit(begun)
  <2>1. pg \in [rows : Seq(Row), current : Nat, waiting : Int]
    BY DEF Fit
  <2>2. begun = Under(pg, r)
    BY <1>g, <1>r, <2>1 DEF StartAssistantMessage, Under
  <2>3. Fit(begun)
    BY <1>1, <1>g, ReplyStarted
  <2>4. QED
    BY <2>2, <2>3
<1>4. begun.rows[c] = r /\ begun.current = c /\ c # 0
  BY <1>2, <1>3, <1>c, LastFilled
<1>e. PICK ca : ca = IF b = "tool" THEN a ELSE Unset
  OBVIOUS
<1>s. PICK still \in {"still", "running", "done"} : still = "still"
  OBVIOUS
<1>5. PICK y : Alike(r, y) /\ y.block = b /\ y.call = ca /\ y.state = still
  <2>1. ca \in PromptIds \cup {Unset}
    BY <1>1, <1>e
  <2>2. QED
    BY <1>1, <1>2, <2>1, AlikeIsThere
<1>6. y \in Row /\ y.block = b /\ y.who = "assistant" /\ y.id = a /\ y.ts = a /\ y.call = ca /\ y.state = "still"
  BY <1>2, <1>5, <1>s DEF Alike
<1>f. PICK filled : filled = CASE b = "none" -> begun
                               [] b = "text" -> EnsureBlock(begun, a, "text")
                               [] b = "tool" -> FinalizeToolCall(begun, a)
  OBVIOUS
<1>7. filled = Under(pg, y) /\ Fit(filled)
  <2>w. With(begun, c, y) = Under(pg, y)
    BY <1>2, <1>3, <1>6, <1>c, LastFilled
  <2>1. CASE b = "none"
    <3>1. filled = begun /\ ca = Unset
      BY <1>e, <1>f, <2>1
    <3>2. y = r
      BY <1>2, <1>6, <2>1, <3>1, SameRow
    <3>3. QED
      BY <1>3, <3>1, <3>2
  <2>2. CASE b = "text"
    <3>1. filled = EnsureBlock(begun, a, b) /\ ca = Unset
      BY <1>e, <1>f, <2>2
    <3>2. EnsureBlock(begun, a, y.block) = With(begun, c, y)
      BY <1>2, <1>3, <1>4, <1>5, <1>6, <3>1, CurrentFilled
    <3>3. Fit(EnsureBlock(begun, a, b))
      BY <1>1, <1>3, BlockEnsured
    <3>4. QED
      BY <1>6, <2>w, <3>1, <3>2, <3>3
  <2>3. CASE b = "tool"
    <3>1. filled = FinalizeToolCall(begun, a) /\ ca = a
      BY <1>e, <1>f, <2>3
    <3>2. FinalizeToolCall(begun, a) = With(begun, c, y)
      BY <1>1, <1>2, <1>3, <1>4, <1>5, <1>6, <2>3, <3>1, CurrentFilled
    <3>3. Fit(FinalizeToolCall(begun, a))
      BY <1>1, <1>3, CallFinalized DEF Into
    <3>4. QED
      BY <2>w, <3>1, <3>2, <3>3
  <2>4. QED
    BY <1>1, <2>1, <2>2, <2>3
<1>8. filled.rows[c] = y /\ filled.current = c
  BY <1>6, <1>7, <1>c, LastFilled
<1>t. PICK st \in {"still", "running", "done"} : st = IF m.stopped /\ b = "tool" THEN "done" ELSE "still"
  OBVIOUS
<1>9. PICK x : Alike(y, x) /\ x.block = b /\ x.call = ca /\ x.state = st
  <2>1. ca \in PromptIds \cup {Unset}
    BY <1>1, <1>e
  <2>2. QED
    BY <1>1, <1>6, <2>1, AlikeIsThere
<1>10. x \in Row /\ x.block = b /\ x.who = "assistant" /\ x.id = a /\ x.ts = a /\ x.call = ca /\ x.state = st
  BY <1>6, <1>9 DEF Alike
<1>11. ApplyStopError(filled, m.stopped) = Under(pg, x)
  <2>1. CASE m.stopped /\ b = "tool"
    <3>1. st = "done"
      BY <1>t, <2>1
    <3>2. ApplyStopError(filled, m.stopped) = With(filled, c, x)
      <4>1. c \in DOMAIN filled.rows
        BY <1>4, <1>7, <1>8 DEF Fit
      <4>2. [filled EXCEPT !.rows[c].state = x.state] = With(filled, c, x)
        BY <1>6, <1>7, <1>8, <1>9, <1>10, <4>1, RowFilled
      <4>3. ApplyStopError(filled, m.stopped) = [filled EXCEPT !.rows[c].state = x.state]
        BY <1>4, <1>6, <1>8, <1>10, <2>1, <3>1 DEF ApplyStopError
      <4>4. QED
        BY <4>2, <4>3
    <3>3. With(filled, c, x) = Under(pg, x)
      BY <1>6, <1>7, <1>10, <1>c, LastFilled
    <3>4. QED
      BY <3>2, <3>3
  <2>2. CASE ~(m.stopped /\ b = "tool")
    <3>1. ApplyStopError(filled, m.stopped) = filled
      BY <1>6, <1>8, <2>2 DEF ApplyStopError
    <3>2. x = y
      BY <1>6, <1>10, <1>t, <2>2, SameRow
    <3>3. QED
      BY <1>7, <3>1, <3>2
  <2>3. QED
    BY <2>1, <2>2
<1>12. HydrateOne(pg, m) = EndAssistantMessage(Under(pg, x))
  BY <1>11, <1>a, <1>b, <1>f, <1>g DEF HydrateOne
<1>13. DrawnAs(m, x)
  BY <1>10, <1>a, <1>b, <1>e, <1>t DEF DrawnAs
<1>14. HydrateOne(pg, m).rows = Append(pg.rows, x) /\ HydrateOne(pg, m).current = 0 /\ HydrateOne(pg, m).waiting = pg.waiting
  BY <1>12 DEF EndAssistantMessage, Under
<1>15. QED
  BY <1>13, <1>14

--------------------------------------------------------------------------------
\* Messages that come

\* The faces of the first messages are theirs, whatever follows.
LEMMA FacesAgree ==
  ASSUME NEW items, NEW its, NEW n \in Nat, NEW B, \A k \in 1..n : its[k] = items[k]
  PROVE  Faces(its, n, B) = Faces(items, n, B) /\ (HasUser(its, n) <=> HasUser(items, n))
<1>1. SaidIn(its, n) = SaidIn(items, n) /\ SaidIn(items, n) \subseteq 1..n
  BY DEF SaidIn
<1>2. ASSUME NEW a PROVE Outcome(its, n, a) <=> Outcome(items, n, a)
  BY DEF Outcome
<1>3. ASSUME NEW k \in SaidIn(items, n) PROVE FaceOf(its, n, B, its[k]) = FaceOf(items, n, B, items[k])
  <2>m. PICK m : m = items[k]
    OBVIOUS
  <2>1. its[k] = m
    BY <1>1, <2>m
  <2>2. FaceOf(its, n, B, m) = FaceOf(items, n, B, m)
    BY <1>2 DEF FaceOf
  <2>3. QED
    BY <2>m, <2>1, <2>2
<1>4. Faces(its, n, B) = Faces(items, n, B)
  <2>1. \A f \in Faces(its, n, B) : f \in Faces(items, n, B)
    BY <1>1, <1>3 DEF Faces
  <2>2. \A f \in Faces(items, n, B) : f \in Faces(its, n, B)
    BY <1>1, <1>3 DEF Faces
  <2>3. QED
    BY <2>1, <2>2
<1>5. QED
  BY <1>4 DEF HasUser

\* One more message that is no result, and its face.
LEMMA FacesMore ==
  ASSUME NEW items \in Seq(Items), NEW n \in 0..(Len(items) - 1), NEW m, m = items[n + 1], m.who # "result", NEW B
  PROVE  Faces(items, n + 1, B) = Faces(items, n, B) \cup {FaceOf(items, n + 1, B, m)}
<1>n. n \in Nat /\ n + 1 \in Nat /\ \A k \in 1..(n + 1) : k \in 1..n \/ k = n + 1
  OBVIOUS
<1>1. SaidIn(items, n + 1) = SaidIn(items, n) \cup {n + 1} /\ SaidIn(items, n) \subseteq 1..n
  BY <1>n DEF SaidIn
<1>2. ASSUME NEW a PROVE Outcome(items, n + 1, a) <=> Outcome(items, n, a)
  BY <1>n DEF Outcome
<1>3. ASSUME NEW l PROVE FaceOf(items, n + 1, B, l) = FaceOf(items, n, B, l)
  BY <1>2 DEF FaceOf
<1>4. \A f \in Faces(items, n + 1, B) : f \in Faces(items, n, B) \cup {FaceOf(items, n + 1, B, m)}
  BY <1>1, <1>3 DEF Faces
<1>5. \A f \in Faces(items, n, B) : f \in Faces(items, n + 1, B)
  BY <1>1, <1>3 DEF Faces
<1>6. FaceOf(items, n + 1, B, m) \in Faces(items, n + 1, B)
  BY <1>1 DEF Faces
<1>7. QED
  BY <1>4, <1>5, <1>6

\* The result of a call comes after the reply.
LEMMA NoEarlyResult ==
  ASSUME NEW items \in Seq(Items), InPlace(items), NEW n \in 1..Len(items), NEW m, m = items[n], m.who # "result"
  PROVE  ~Outcome(items, n, m.id)
<1>1. SUFFICES ASSUME NEW k \in 1..n, items[k].who = "result", items[k].id = m.id PROVE FALSE
  BY DEF Outcome
<1>2. k \in DOMAIN items /\ n \in DOMAIN items /\ k # n
  BY <1>1
<1>3. k < n
  BY <1>2
<1>4. Before(items[k], m)
  BY <1>2, <1>3 DEF InPlace
<1>5. m \in Items /\ m.who \in {"user", "assistant"} /\ m.id \in Int
  <2>1. m \in Items
    OBVIOUS
  <2>2. QED
    BY <2>1, MessageSides
<1>6. QED
  BY <1>1, <1>4, <1>5 DEF Before, Place

LEMMA SayingMore ==
  ASSUME NEW items, NEW n \in Nat, NEW m, m = items[n + 1]
  PROVE  HasUser(items, n + 1) <=> HasUser(items, n) \/ m.who = "user"
<1>1. \A k \in 1..(n + 1) : k \in 1..n \/ k = n + 1
  OBVIOUS
<1>2. 1..n \subseteq 1..(n + 1) /\ n + 1 \in 1..(n + 1)
  OBVIOUS
<1>3. QED
  BY <1>1, <1>2 DEF HasUser

\* A page to which a hydration has written the first n messages.
Drawn(pg, items, n) ==
  /\ Fit(pg) /\ Regular(pg.rows) /\ pg.current = 0 /\ pg.waiting <= 0
  /\ \A i \in DOMAIN pg.rows : pg.rows[i].block = "tool" => pg.rows[i].call # Unset
  /\ FacesIn(pg.rows) = Faces(items, n, {})
  /\ pg.waiting = Gone => ~HasUser(items, n)

LEMMA BubbleDrawn ==
  ASSUME NEW items \in Seq(Items), InPlace(items), NEW n \in 0..(Len(items) - 1), NEW pg, Drawn(pg, items, n),
         NEW m, m = items[n + 1], m.who = "user"
  PROVE  Drawn(HydrateOne(pg, m), items, n + 1)
<1>m. m \in Items /\ m.id \in PromptIds /\ m.id # Unset /\ n + 1 \in DOMAIN items
  <2>1. m \in Items /\ n + 1 \in DOMAIN items
    OBVIOUS
  <2>2. m.id \in PromptIds
    BY <2>1, MessageSides
  <2>3. m.id # Unset
    BY <2>2, PageAssumption DEF PromptIds
  <2>4. QED
    BY <2>1, <2>2, <2>3
<1>r. PICK r : r = UserRow(m.id, m.id)
  OBVIOUS
<1>1. /\ r \in Row /\ r.who = "user" /\ r.id = m.id /\ r.ts = m.id /\ r.call = Unset /\ r.block = "none"
  BY <1>m, <1>r, NewRows DEF UserRow
<1>t. PICK to : to = AddUserMessage(pg, m.id, m.id)
  OBVIOUS
<1>2. pg \in [rows : Seq(Row), current : Nat, waiting : Int] /\ Regular(pg.rows)
  BY DEF Drawn, Fit
<1>3. to = [rows |-> Append(pg.rows, r), current |-> pg.current, waiting |-> 0]
  BY <1>m, <1>r, <1>t, <1>2 DEF AddUserMessage
<1>4. Fit(to)
  BY <1>m, <1>t, BubbleAdded DEF Drawn
<1>5. \A i \in ShownIn(pg.rows) : Before(pg.rows[i], r)
  <2>1. \A k \in 1..n : Before(items[k], m)
    BY <1>m DEF InPlace
  <2>2. \A i \in ShownIn(pg.rows) : Before(pg.rows[i], m)
    <3>1. n \in 0..Len(items) /\ pg.rows \in Seq(Row) /\ FacesIn(pg.rows) = Faces(items, n, {})
      BY <1>2 DEF Drawn
    <3>2. QED
      BY <2>1, <3>1, RowsComeBefore
  <2>3. r.id = m.id /\ r.who = m.who
    BY <1>1
  <2>4. QED
    BY <2>2, <2>3 DEF Before
<1>6. Regular(to.rows) /\ FacesIn(to.rows) = FacesIn(pg.rows) \cup {Face(r)}
  <2>1. Kept(r) /\ r = UserRow(r.id, r.ts) /\ r.ts # Unset
    BY <1>m, <1>1, <1>r DEF Kept
  <2>2. QED
    BY <1>1, <1>2, <1>3, <1>5, <2>1, RegularMore
<1>7. Face(r) = r /\ r = FaceOf(items, n + 1, {}, m)
  <2>1. Face(r) = r
    BY <1>1, RowSides, SameRow
  <2>2. QED
    BY <1>r, <2>1 DEF FaceOf
<1>8. Faces(items, n + 1, {}) = Faces(items, n, {}) \cup {FaceOf(items, n + 1, {}, m)}
  BY FacesMore
<1>9. \A i \in DOMAIN to.rows : to.rows[i].block = "tool" => to.rows[i].call # Unset
  <2>1. \A i \in DOMAIN to.rows : (i \in DOMAIN pg.rows /\ to.rows[i] = pg.rows[i]) \/ to.rows[i] = r
    BY <1>2, <1>3
  <2>2. QED
    BY <1>1, <2>1 DEF Drawn
<1>10. to.current = 0 /\ to.waiting = 0
  BY <1>3 DEF Drawn
<1>11. Drawn(to, items, n + 1)
  BY <1>4, <1>6, <1>7, <1>8, <1>9, <1>10 DEF Drawn, Gone
<1>12. HydrateOne(pg, m) = to
  BY <1>t DEF HydrateOne
<1>13. QED
  BY <1>11, <1>12

LEMMA ReplyIsDrawn ==
  ASSUME NEW items \in Seq(Items), InPlace(items), NEW n \in 0..(Len(items) - 1), NEW pg, Drawn(pg, items, n),
         NEW m, m = items[n + 1], m.who = "assistant"
  PROVE  Drawn(HydrateOne(pg, m), items, n + 1)
<1>m. m \in Items /\ n + 1 \in DOMAIN items /\ n + 1 \in 1..Len(items) /\ n \in Nat
  OBVIOUS
<1>t. PICK to : to = HydrateOne(pg, m)
  OBVIOUS
<1>1. PICK r : DrawnAs(m, r) /\ to.rows = Append(pg.rows, r) /\ to.current = 0 /\ to.waiting = pg.waiting
  BY <1>m, <1>t, ReplyDrawn DEF Drawn
<1>2. /\ r \in Row /\ r.who = "assistant" /\ r.id = m.id /\ r.ts = m.id /\ r.block = m.block
      /\ r.call = IF m.block = "tool" THEN m.id ELSE Unset
      /\ r.state = IF m.stopped /\ m.block = "tool" THEN "done" ELSE "still"
  BY <1>1 DEF DrawnAs
<1>3. pg \in [rows : Seq(Row), current : Nat, waiting : Int] /\ Regular(pg.rows)
  BY DEF Drawn, Fit
<1>4. Fit(to)
  BY <1>m, <1>t, OneHydrated DEF Drawn, Into
<1>5. \A i \in ShownIn(pg.rows) : Before(pg.rows[i], r)
  <2>1. \A k \in 1..n : Before(items[k], m)
    BY <1>m DEF InPlace
  <2>2. \A i \in ShownIn(pg.rows) : Before(pg.rows[i], m)
    <3>1. n \in 0..Len(items) /\ pg.rows \in Seq(Row) /\ FacesIn(pg.rows) = Faces(items, n, {})
      BY <1>3 DEF Drawn
    <3>2. QED
      BY <2>1, <3>1, RowsComeBefore
  <2>3. QED
    BY <1>2, <2>2 DEF Before
<1>6. Regular(to.rows) /\ FacesIn(to.rows) = FacesIn(pg.rows) \cup {Face(r)}
  <2>1. Kept(r)
    BY <1>2 DEF Kept
  <2>2. QED
    BY <1>1, <1>2, <1>3, <1>5, <2>1, RegularMore
<1>f. PICK f : f = FaceOf(items, n + 1, {}, m)
  OBVIOUS
<1>7. Face(r) = f
  <2>1. ~Outcome(items, n + 1, m.id)
    BY <1>m, NoEarlyResult
  <2>2. /\ f \in Row /\ f.who = m.who /\ f.id = m.id /\ f.ts = m.id /\ f.call = Unset /\ f.block = m.block
        /\ f.state = IF m.block = "tool" /\ m.stopped THEN "done" ELSE "still"
    BY <1>m, <1>f, <2>1, FaceOfSides
  <2>3. /\ Face(r) \in Row /\ Face(r).who = r.who /\ Face(r).id = r.id /\ Face(r).ts = r.ts
        /\ Face(r).block = r.block /\ Face(r).state = r.state /\ Face(r).call = Unset
    BY <1>2, RowSides
  <2>4. QED
    BY <1>2, <2>2, <2>3, SameRow
<1>8. Faces(items, n + 1, {}) = Faces(items, n, {}) \cup {f}
  BY <1>f, FacesMore
<1>9. \A i \in DOMAIN to.rows : to.rows[i].block = "tool" => to.rows[i].call # Unset
  <2>1. \A i \in DOMAIN to.rows : (i \in DOMAIN pg.rows /\ to.rows[i] = pg.rows[i]) \/ to.rows[i] = r
    BY <1>1, <1>2, <1>3
  <2>2. m.id # Unset
    BY <1>m, MessageSides, PageAssumption
  <2>3. QED
    BY <1>2, <2>1, <2>2 DEF Drawn
<1>10. to.waiting = Gone => ~HasUser(items, n + 1)
  BY <1>m, <1>1, SayingMore DEF Drawn
<1>11. Drawn(to, items, n + 1)
  BY <1>1, <1>4, <1>6, <1>7, <1>8, <1>9, <1>10 DEF Drawn
<1>12. QED
  BY <1>t, <1>11

\* The row of a reply shows it.
LEMMA OwnFace ==
  ASSUME NEW rs \in Seq(Row), NEW items \in Seq(Items), InPlace(items), NEW n \in 0..Len(items), NEW B,
         FacesIn(rs) = Faces(items, n, B), NEW c \in DOMAIN rs, rs[c].who = "assistant",
         NEW k \in SaidIn(items, n), items[k].who = "assistant", items[k].id = rs[c].id
  PROVE  Face(rs[c]) = FaceOf(items, n, B, items[k])
<1>1. c \in ShownIn(rs)
  BY DEF ShownIn
<1>2. PICK l \in SaidIn(items, n) : /\ items[l].who = rs[c].who /\ items[l].id = rs[c].id
                                    /\ Face(rs[c]) = FaceOf(items, n, B, items[l])
  BY <1>1, RowShowsMessage
<1>3. k \in DOMAIN items /\ l \in DOMAIN items
  BY DEF SaidIn
<1>4. k = l
  BY <1>2, <1>3, MessagesDiffer
<1>5. QED
  BY <1>2, <1>4

\* The block of a call is a reply's, the one that made the call.
LEMMA ToolBlockOf ==
  ASSUME NEW pg, Fit(pg), Regular(pg.rows), NEW a \in PromptIds
  PROVE  /\ (\E i \in DOMAIN pg.rows : pg.rows[i].call = a) =>
              FindToolBlock(pg, a) # 0 /\ FindToolBlock(pg, a) \in DOMAIN pg.rows
              /\ pg.rows[FindToolBlock(pg, a)].call = a
         /\ (\A i \in DOMAIN pg.rows : pg.rows[i].call # a) => FindToolBlock(pg, a) = 0
         /\ \A i \in DOMAIN pg.rows : pg.rows[i].call = a =>
              pg.rows[i].id = a /\ pg.rows[i].who = "assistant" /\ pg.rows[i].block = "tool"
<1>1. pg.rows \in Seq(Row) /\ DOMAIN pg.rows \subseteq Nat \ {0} /\ a # Unset
  <2>1. pg.rows \in Seq(Row)
    BY DEF Fit
  <2>2. a # Unset
    BY PageAssumption DEF PromptIds
  <2>3. QED
    BY <2>1, <2>2
<1>2. ASSUME NEW i \in DOMAIN pg.rows, pg.rows[i].call = a
      PROVE  pg.rows[i].id = a /\ pg.rows[i].who = "assistant" /\ pg.rows[i].block = "tool"
  <2>r. PICK r : r = pg.rows[i]
    OBVIOUS
  <2>1. r.id = a /\ r.block = "tool"
    BY <1>1, <1>2, <2>r DEF Regular
  <2>2. r.who \in {"user", "assistant"}
    <3>1. r \in Row
      BY <1>1, <2>r
    <3>2. QED
      BY <3>1, RowSides
  <2>3. r.who # "user"
    <3>1. r.who = "user" => r = UserRow(r.id, r.ts)
      BY <2>r DEF Regular
    <3>2. UserRow(r.id, r.ts).call = Unset
      BY DEF UserRow
    <3>3. QED
      BY <1>1, <1>2, <2>r, <3>1, <3>2
  <2>4. QED
    BY <2>r, <2>1, <2>2, <2>3
<1> DEFINE I == {i \in DOMAIN pg.rows : pg.rows[i].call = a}
<1>3. ASSUME I # {}
      PROVE  FindToolBlock(pg, a) \in I
  <2>1. I \in SUBSET Nat
    BY <1>1
  <2>2. \E m \in I : \A y \in I : m <= y
    BY <1>3, <2>1, LeastIsThere
  <2>3. (CHOOSE i \in I : \A j \in I : i <= j) \in I
    BY <2>2
  <2>4. QED
    BY <1>3, <2>3 DEF FindToolBlock
<1>4. I = {} => FindToolBlock(pg, a) = 0
  BY DEF FindToolBlock
<1>5. QED
  BY <1>1, <1>2, <1>3, <1>4

\* The result of the call a comes: the block is done.
LEMMA ResultShown ==
  ASSUME NEW rs \in Seq(Row), Regular(rs), NEW items \in Seq(Items), InPlace(items), NEW n \in 0..(Len(items) - 1),
         NEW a \in PromptIds, items[n + 1].who = "result", items[n + 1].id = a,
         NEW B, B \subseteq {a}, FacesIn(rs) = Faces(items, n, B),
         NEW c \in DOMAIN rs, NEW r, r = rs[c], r.call = a, r.id = a, r.who = "assistant", r.block = "tool",
         NEW x, Alike(r, x), x.block = r.block, x.call = r.call, x.state = "done",
         NEW to, to = [rs EXCEPT ![c] = x]
  PROVE  Showing(to, items, n + 1, {})
<1>n. /\ n \in Nat /\ n \in 0..Len(items) /\ n + 1 \in 1..(n + 1) /\ \A k \in 1..(n + 1) : k \in 1..n \/ k = n + 1
      /\ n + 1 \in DOMAIN items
  OBVIOUS
<1>1. SaidIn(items, n + 1) = SaidIn(items, n)
  BY <1>n DEF SaidIn
<1>2. Outcome(items, n + 1, a) /\ \A b : b # a => (Outcome(items, n + 1, b) <=> Outcome(items, n, b))
  BY <1>n DEF Outcome
<1>3. ASSUME NEW k \in SaidIn(items, n), ~(items[k].who = "assistant" /\ items[k].id = a)
      PROVE  FaceOf(items, n + 1, {}, items[k]) = FaceOf(items, n, B, items[k])
  <2>m. PICK m : m = items[k]
    OBVIOUS
  <2>1. m \in Items /\ m.who # "result"
    BY <2>m DEF SaidIn
  <2>2. m.who \in {"user", "assistant"}
    BY <2>1, MessageSides
  <2>3. CASE m.who = "user"
    BY <2>m, <2>3 DEF FaceOf
  <2>4. CASE m.id # a
    <3>1. m.id \notin B /\ m.id \notin {} /\ (Outcome(items, n + 1, m.id) <=> Outcome(items, n, m.id))
      BY <1>2, <2>4
    <3>2. FaceOf(items, n + 1, {}, m) = FaceOf(items, n, B, m)
      BY <3>1 DEF FaceOf
    <3>3. QED
      BY <2>m, <3>2
  <2>5. QED
    BY <1>3, <2>m, <2>2, <2>3, <2>4
<1>4. ASSUME NEW k \in SaidIn(items, n), items[k].who = "assistant", items[k].id = a
      PROVE  Face(x) = FaceOf(items, n + 1, {}, items[k])
  <2>m. PICK m : m = items[k]
    OBVIOUS
  <2>f. PICK f : f = FaceOf(items, n, B, m)
    OBVIOUS
  <2>g. PICK g : g = FaceOf(items, n + 1, {}, m)
    OBVIOUS
  <2>1. m \in Items /\ m.who = "assistant" /\ m.id = a
    BY <1>4, <2>m DEF SaidIn
  <2>2. Face(r) = f
    BY <1>4, <1>n, <2>f, <2>m, OwnFace
  <2>3. f.ts = a /\ f.block = m.block
    BY <2>1, <2>f, FaceOfSides
  <2>4. r \in Row /\ x \in Row /\ x.who = "assistant" /\ x.id = a /\ x.ts = r.ts
    BY DEF Alike
  <2>5. Face(r).ts = r.ts /\ Face(r).block = r.block
    BY <2>4, RowSides
  <2>6. m.block = "tool" /\ r.ts = a
    BY <2>2, <2>3, <2>5
  <2>7. g \in Row /\ g.who = "assistant" /\ g.id = a /\ g.ts = a /\ g.call = Unset /\ g.block = m.block /\ g.state = "done"
    BY <1>2, <2>1, <2>6, <2>g, FaceOfSides
  <2>8. /\ Face(x) \in Row /\ Face(x).who = x.who /\ Face(x).id = x.id /\ Face(x).ts = x.ts
        /\ Face(x).block = x.block /\ Face(x).state = x.state /\ Face(x).call = Unset
    BY <2>4, RowSides
  <2>9. Face(x) = g
    BY <2>4, <2>6, <2>7, <2>8, SameRow
  <2>10. QED
    BY <2>9, <2>g, <2>m
<1>5. x \in Row /\ x.who = "assistant" /\ x.id = a /\ Kept(x)
  BY DEF Alike, Kept
<1>l. PICK l : l = n + 1
  OBVIOUS
<1>C. PICK C : C = {}
  OBVIOUS
<1>6. Turns(items, n, B, items, l, C, x)
  BY <1>1, <1>3, <1>4, <1>5, <1>l, <1>C DEF Turns
<1>7. rs[c].who = "assistant" /\ x.id = rs[c].id
  BY <1>5
<1>8. Showing(to, items, l, C)
  BY <1>n, <1>5, <1>6, <1>7, ReplyChanges
<1>9. QED
  BY <1>8, <1>l, <1>C

LEMMA ResultIsDrawn ==
  ASSUME NEW items \in Seq(Items), InPlace(items), NEW n \in 0..(Len(items) - 1), NEW pg, Drawn(pg, items, n),
         NEW m, m = items[n + 1], m.who = "result"
  PROVE  Drawn(HydrateOne(pg, m), items, n + 1)
<1>m. m \in Items /\ n + 1 \in DOMAIN items /\ n \in Nat /\ n \in 0..Len(items)
  OBVIOUS
<1>a. PICK a : a = m.id
  OBVIOUS
<1>1. a \in PromptIds /\ a # Unset
  <2>1. a \in PromptIds
    BY <1>m, <1>a, MessageSides
  <2>2. QED
    BY <2>1, PageAssumption DEF PromptIds
<1>2. /\ Fit(pg) /\ pg \in [rows : Seq(Row), current : Nat, waiting : Int] /\ pg.rows \in Seq(Row) /\ Regular(pg.rows)
      /\ FacesIn(pg.rows) = Faces(items, n, {}) /\ pg.current = 0 /\ pg.waiting <= 0
      /\ \A i \in DOMAIN pg.rows : pg.rows[i].block = "tool" => pg.rows[i].call # Unset
  BY DEF Drawn, Fit
<1>3. pg.waiting = Gone => ~HasUser(items, n + 1)
  BY <1>m, SayingMore DEF Drawn
<1>4. SaidIn(items, n + 1) = SaidIn(items, n)
  <2>1. \A k \in 1..(n + 1) : k \in 1..n \/ k = n + 1
    OBVIOUS
  <2>2. 1..n \subseteq 1..(n + 1)
    OBVIOUS
  <2>3. QED
    BY <2>1, <2>2 DEF SaidIn
<1>t. PICK to : to = HydrateOne(pg, m)
  OBVIOUS
<1>5. to = EndToolExecution(pg, a)
  BY <1>a, <1>t DEF HydrateOne
<1>6. CASE \A i \in DOMAIN pg.rows : pg.rows[i].call # a
  <2>1. to = pg
    BY <1>1, <1>2, <1>5, <1>6, ToolBlockOf DEF EndToolExecution
  <2>2. ASSUME NEW k \in SaidIn(items, n)
        PROVE  FaceOf(items, n + 1, {}, items[k]) = FaceOf(items, n, {}, items[k])
    <3>m. PICK o : o = items[k]
      OBVIOUS
    <3>1. o \in Items /\ o.who # "result"
      BY <3>m DEF SaidIn
    <3>2. ~(o.who = "assistant" /\ o.id = a /\ o.block = "tool")
      <4>1. SUFFICES ASSUME o.who = "assistant", o.id = a, o.block = "tool" PROVE FALSE
        OBVIOUS
      <4>f. PICK f : f = FaceOf(items, n, {}, o)
        OBVIOUS
      <4>2. f \in FacesIn(pg.rows)
        BY <1>2, <3>m, <4>f DEF Faces
      <4>3. PICK i \in ShownIn(pg.rows) : Face(pg.rows[i]) = f
        BY <4>2 DEF FacesIn
      <4>r. PICK r : r = pg.rows[i]
        OBVIOUS
      <4>4. i \in DOMAIN pg.rows /\ r \in Row
        BY <1>2, <4>r DEF ShownIn
      <4>5. f.id = a /\ f.block = "tool"
        BY <3>1, <4>1, <4>f, FaceOfSides
      <4>6. r.id = a /\ r.block = "tool"
        BY <4>3, <4>4, <4>5, <4>r, RowSides
      <4>7. r.call = a
        BY <1>2, <4>4, <4>6, <4>r DEF Regular
      <4>8. QED
        BY <1>6, <4>4, <4>7, <4>r
    <3>3. \A b : b # a => (Outcome(items, n + 1, b) <=> Outcome(items, n, b))
      <4>1. \A l \in 1..(n + 1) : l \in 1..n \/ l = n + 1
        OBVIOUS
      <4>2. 1..n \subseteq 1..(n + 1)
        OBVIOUS
      <4>3. QED
        BY <1>a, <4>1, <4>2 DEF Outcome
    <3>4. o.who \in {"user", "assistant"}
      BY <3>1, MessageSides
    <3>5. FaceOf(items, n + 1, {}, o) = FaceOf(items, n, {}, o)
      <4>1. CASE o.who = "user"
        BY <4>1 DEF FaceOf
      <4>2. CASE o.id # a
        BY <3>3, <4>2 DEF FaceOf
      <4>3. CASE o.block # "tool"
        BY <4>3 DEF FaceOf
      <4>4. QED
        BY <3>2, <3>4, <4>1, <4>2, <4>3
    <3>6. QED
      BY <3>m, <3>5
  <2>3. Faces(items, n + 1, {}) = Faces(items, n, {})
    <3>1. \A f \in Faces(items, n + 1, {}) : f \in Faces(items, n, {})
      BY <1>4, <2>2 DEF Faces
    <3>2. \A f \in Faces(items, n, {}) : f \in Faces(items, n + 1, {})
      BY <1>4, <2>2 DEF Faces
    <3>3. QED
      BY <3>1, <3>2
  <2>4. QED
    BY <1>2, <1>3, <1>t, <2>1, <2>3 DEF Drawn
<1>7. CASE \E i \in DOMAIN pg.rows : pg.rows[i].call = a
  <2>c. PICK c : c = FindToolBlock(pg, a)
    OBVIOUS
  <2>r. PICK r : r = pg.rows[c]
    OBVIOUS
  <2>1. c # 0 /\ c \in DOMAIN pg.rows /\ r.call = a /\ r.id = a /\ r.who = "assistant" /\ r.block = "tool"
    BY <1>1, <1>2, <1>7, <2>c, <2>r, ToolBlockOf
  <2>2. r \in Row
    BY <1>2, <2>1, <2>r
  <2>3. PICK x : Alike(r, x) /\ x.block = r.block /\ x.call = r.call /\ x.state = "done"
    BY <2>2, SideIsThere
  <2>4. to = With(pg, c, x)
    <3>1. [pg EXCEPT !.rows[c].state = x.state] = With(pg, c, x)
      BY <1>2, <2>1, <2>3, <2>r, RowFilled
    <3>2. QED
      BY <1>5, <2>1, <2>3, <2>c, <3>1 DEF EndToolExecution
  <2>s. PICK rs : rs = [pg.rows EXCEPT ![c] = x]
    OBVIOUS
  <2>5. to.rows = rs /\ to.current = 0 /\ to.waiting = pg.waiting
    BY <1>2, <2>4, <2>s DEF With
  <2>6. Fit(to)
    BY <1>2, <1>5, ExecutionEnded DEF Into
  <2>7. Showing(rs, items, n + 1, {})
    <3>B. PICK B : B = {}
      OBVIOUS
    <3>1. B \subseteq {a} /\ FacesIn(pg.rows) = Faces(items, n, B)
      BY <1>2, <3>B
    <3>2. QED
      BY <1>1, <1>2, <1>a, <2>1, <2>3, <2>r, <2>s, <3>1, ResultShown
  <2>8. \A i \in DOMAIN rs : rs[i].block = "tool" => rs[i].call # Unset
    <3>1. \A i \in DOMAIN rs : i \in DOMAIN pg.rows /\ (rs[i] = x \/ rs[i] = pg.rows[i])
      BY <1>2, <2>s
    <3>2. QED
      BY <1>1, <1>2, <2>1, <2>3, <3>1
  <2>9. Drawn(to, items, n + 1)
    BY <1>2, <1>3, <2>5, <2>6, <2>7, <2>8 DEF Drawn, Showing
  <2>10. QED
    BY <1>t, <2>9
<1>8. QED
  BY <1>6, <1>7

LEMMA OneDrawn ==
  ASSUME NEW items \in Seq(Items), InPlace(items), NEW n \in 0..(Len(items) - 1), NEW pg, Drawn(pg, items, n)
  PROVE  Drawn(HydrateOne(pg, items[n + 1]), items, n + 1)
<1>m. PICK m : m = items[n + 1]
  OBVIOUS
<1>1. m \in Items
  BY <1>m
<1>2. m.who \in {"user", "assistant", "result"}
  BY <1>1, MessageSides
<1>3. Drawn(HydrateOne(pg, m), items, n + 1)
  BY <1>2, <1>m, BubbleDrawn, ReplyIsDrawn, ResultIsDrawn
<1>4. QED
  BY <1>3, <1>m

\* A part of the conversation that goes on where the page is.
LEMMA ListDrawn ==
  ASSUME NEW items \in Seq(Items), InPlace(items), NEW n \in 0..Len(items), NEW pg, Drawn(pg, items, n),
         NEW list \in Seq(Items), n + Len(list) <= Len(items), \A i \in 1..Len(list) : list[i] = items[n + i]
  PROVE  Drawn(Hydrate(pg, list), items, n + Len(list))
<1>k. PICK k \in Nat : k = Len(list) /\ DOMAIN list = 1..k
  OBVIOUS
<1>l. PICK l \in Nat : l = Len(items) /\ DOMAIN items = 1..l
  OBVIOUS
<1>1. PICK f : HydrationOf(f, pg, list, k) /\ Hydrate(pg, list) = f[k]
  <2> DEFINE h == CHOOSE x : HydrationOf(x, pg, list, k)
  <2>1. HydrationOf(h, pg, list, k)
    BY HydrationExists
  <2>2. Hydrate(pg, list) = h[k]
    BY <1>k DEF Hydrate, HydrationOf
  <2>3. QED
    BY <2>1, <2>2
<1>2. f[0] = pg /\ \A i \in 1..k : f[i] = HydrateOne(f[i - 1], list[i])
  BY <1>1 DEF HydrationOf
<1> DEFINE S == {i \in 0..k : ~Drawn(f[i], items, n + i)}
<1>3. SUFFICES ASSUME S # {} PROVE FALSE
  BY <1>1, <1>k
<1>4. S \in SUBSET Nat
  OBVIOUS
<1>5. PICK m \in S : \A y \in S : m <= y
  BY <1>3, <1>4, LeastIsThere
<1>6. m \in 0..k /\ ~Drawn(f[m], items, n + m)
  OBVIOUS
<1>7. m # 0
  BY <1>2, <1>6
<1>8. m - 1 \in 0..k /\ m \in 1..k /\ m - 1 < m /\ m - 1 \in Nat
  BY <1>6, <1>7
<1>9. Drawn(f[m - 1], items, n + (m - 1))
  <2>1. m - 1 \notin S
    BY <1>4, <1>5, <1>8
  <2>2. QED
    BY <1>8, <2>1
<1>o. PICK o : o = n + (m - 1)
  OBVIOUS
<1>10. o \in 0..(Len(items) - 1) /\ o + 1 = n + m
  BY <1>8, <1>k, <1>l, <1>o
<1>v. PICK via : via = f[m - 1]
  OBVIOUS
<1>11. Drawn(HydrateOne(via, items[o + 1]), items, o + 1)
  BY <1>9, <1>10, <1>o, <1>v, OneDrawn
<1>12. list[m] = items[o + 1]
  BY <1>8, <1>10, <1>k
<1>13. f[m] = HydrateOne(via, items[o + 1])
  BY <1>2, <1>8, <1>12, <1>v
<1>14. QED
  BY <1>6, <1>10, <1>11, <1>13

--------------------------------------------------------------------------------
\* Conversations that go on

LEMMA NewMessages ==
  ASSUME Types
  PROVE  /\ turn \in PromptIds /\ turn \in Int
         /\ \A p \in PromptIds, w \in {"user", "assistant", "result"} :
              /\ Item(w, p) \in Items /\ Item(w, p).who = w /\ Item(w, p).id = p
              /\ Item(w, p).block = "none" /\ Item(w, p).stopped = FALSE
<1>1. turn \in PromptIds /\ turn \in Int
  BY PageAssumption DEF Types, PromptIds
<1>2. ASSUME NEW p \in PromptIds, NEW w \in {"user", "assistant", "result"}
      PROVE  /\ Item(w, p) \in Items /\ Item(w, p).who = w /\ Item(w, p).id = p
             /\ Item(w, p).block = "none" /\ Item(w, p).stopped = FALSE
  BY <1>2 DEF Item, Items, Blocks
<1>3. QED
  BY <1>1, <1>2

LEMMA NewReply ==
  ASSUME Types, NEW s \in BOOLEAN, NEW m, m = Reply(s)
  PROVE  m \in Items /\ m.who = "assistant" /\ m.id = turn /\ m.block = block /\ m.stopped = s
<1>1. turn \in PromptIds /\ block \in Blocks
  BY PageAssumption DEF Types, PromptIds
<1>2. m = [who |-> "assistant", id |-> turn, block |-> block, stopped |-> s]
  BY DEF Reply, Item
<1>3. QED
  BY <1>1, <1>2 DEF Items

LEMMA InPlaceMore ==
  ASSUME NEW items \in Seq(Items), InPlace(items), NEW m, \A i \in DOMAIN items : Before(items[i], m)
  PROVE  InPlace(Append(items, m))
<1>1. PICK n \in Nat : n = Len(items) /\ DOMAIN items = 1..n
  OBVIOUS
<1>t. PICK to : to = Append(items, m)
  OBVIOUS
<1>2. DOMAIN to = 1..(n + 1) /\ to[n + 1] = m /\ \A i \in 1..n : to[i] = items[i]
  BY <1>1, <1>t
<1>3. \A i \in 1..(n + 1) : i \in 1..n \/ i = n + 1
  OBVIOUS
<1>4. ASSUME NEW i \in DOMAIN to, NEW j \in DOMAIN to, i < j PROVE Before(to[i], to[j])
  <2>1. i \in 1..n
    BY <1>2, <1>3, <1>4
  <2>2. CASE j = n + 1
    BY <1>1, <1>2, <2>1, <2>2
  <2>3. CASE j \in 1..n
    BY <1>1, <1>2, <1>4, <2>1, <2>3 DEF InPlace
  <2>4. QED
    BY <1>2, <1>3, <2>2, <2>3
<1>5. QED
  BY <1>t, <1>4 DEF InPlace

\* A prompt that was said stays so.
LEMMA UserStays ==
  ASSUME NEW items \in Seq(Items), NEW m \in Items, NEW to, to = Append(items, m),
         HasUser(items, Len(items)) \/ m.who = "user"
  PROVE  HasUser(to, Len(to))
<1>1. PICK n \in Nat : n = Len(items) /\ DOMAIN items = 1..n
  OBVIOUS
<1>2. Len(to) = n + 1 /\ to[n + 1] = m /\ \A i \in 1..n : to[i] = items[i]
  BY <1>1
<1>3. n + 1 \in 1..(n + 1) /\ 1..n \subseteq 1..(n + 1)
  OBVIOUS
<1>4. QED
  BY <1>1, <1>2, <1>3 DEF HasUser

\* What is told stays so while nothing more is asked for and the causes grow.
LEMMA SteadyBefore ==
  ASSUME upset \subseteq upset', asked' = asked, held' = held
  PROVE  Steady' => Steady
BY DEF Steady, Told

LEMMA FrameStays ==
  ASSUME OneFrame, frames' = frames
  PROVE  OneFrame'
BY DEF OneFrame

\* While a turn runs the page has caught up, and nothing waits.
Live ==
  /\ Showing(rows, Written, Len(Written), Calling)
  /\ IF Writing THEN current # 0 /\ rows[current].id = turn ELSE current = 0
  /\ phase \in {"called", "tool", "running"} => \E i \in DOMAIN rows : rows[i].call = turn
  /\ waiting = 0

LEMMA LiveNow ==
  ASSUME PageInv, MirrorInv, Steady, phase # "idle"
  PROVE  Live
<1>1. Types /\ Times /\ Mirror
  BY DEF PageInv, MirrorInv
<1>2. waiting \in Int /\ waiting >= Gone /\ rows \in Seq(Row)
  BY <1>1, PageFits DEF Fit
<1>3. ~(waiting > 0)
  <2>1. upset \cap {"error", "command", "crossed"} = {}
    BY DEF Steady
  <2>2. QED
    BY <1>1, <2>1 DEF Times, BubbleIsNext
<1>4. waiting # Gone
  BY <1>1 DEF Mirror
<1>5. waiting = 0
  BY <1>2, <1>3, <1>4 DEF Gone
<1>6. PICK n \in 0..Len(Written) : UpTo(n)
  BY <1>1 DEF Mirror
<1>7. ~Hydrating
  BY <1>1 DEF Mirror
<1>8. n = Len(Written) /\ FacesIn(rows) = Faces(Written, n, Calling)
  BY <1>6, <1>7 DEF UpTo
<1>9. QED
  BY <1>1, <1>2, <1>5, <1>8 DEF Mirror, Live, Showing

LEMMA LiveThen ==
  ASSUME Live', frames' = <<>>, (Len(Written) \in Nat)'
  PROVE  Mirror'
<1>1. ~Hydrating'
  BY DEF Hydrating
<1>2. UpTo(Len(Written))'
  BY <1>1 DEF Live, UpTo, Showing, Gone
<1>3. (Len(Written) \in 0..Len(Written))'
  OBVIOUS
<1>4. (\E n \in 0..Len(Written) : UpTo(n))'
  BY <1>2, <1>3
<1>5. QED
  BY <1>1, <1>4 DEF Live, Mirror, Showing, Gone

\* What is written is a conversation.
LEMMA WrittenFits ==
  ASSUME Types
  PROVE  Written \in Seq(Items) /\ Len(Written) \in Nat
<1>m. PICK m : m = Reply(FALSE)
  OBVIOUS
<1>1. m \in Items /\ history \in Seq(Items)
  BY <1>m, NewReply DEF Types
<1>2. Written = IF Writing THEN Append(history, m) ELSE history
  BY <1>m DEF Written
<1>3. QED
  BY <1>1, <1>2

LEMMA WrittenHas == Types => Len(Written) \in Nat
BY WrittenFits

--------------------------------------------------------------------------------
\* The page keeps up with pi

\* A step of a turn: the page has caught up, and does again.
LEMMA PrintsMirrors ==
  ASSUME PageInv, MirrorInv, PageInv', Talks', NEW pg, Prints(pg), phase # "idle",
         history' = history \/ \E m \in Items : history' = Append(history, m),
         Live => Live'
  PROVE  MirrorInv'
<1>1. OneFrame
  BY DEF MirrorInv
<1>2. /\ upset' = upset \cup Overlap /\ frames' = frames /\ asked' = asked /\ held' = held
  BY DEF Prints, wayVars
<1>4. OneFrame'
  BY <1>1, <1>2, FrameStays
<1>5. Mirror'
  <2>1. CASE ~Steady'
    BY <2>1 DEF Mirror
  <2>2. CASE Steady'
    <3>1. upset \subseteq upset' /\ Overlap \subseteq upset'
      BY <1>2
    <3>2. Steady
      BY <1>2, <2>2, <3>1, SteadyBefore
    <3>3. frames' = <<>>
      BY <1>2, <2>2, <3>1 DEF Steady, Overlap
    <3>4. Live'
      BY <3>2, LiveNow
    <3>5. (Len(Written) \in Nat)'
      <4>1. Types'
        BY DEF PageInv
      <4>2. QED
        BY <4>1, WrittenHas, PTL
    <3>6. QED
      BY <3>3, <3>4, <3>5, LiveThen
  <2>3. QED
    BY <2>1, <2>2
<1>6. QED
  BY <1>4, <1>5 DEF MirrorInv

\* A message more than in h.
Adds(h, n, w, m) == /\ h \in Seq(Items) /\ InPlace(h) /\ n \in Nat /\ n = Len(h) /\ m \in Items
                    /\ w \in Seq(Items) /\ Len(w) = n + 1 /\ w[n + 1] = m
                    /\ \A k \in 1..n : w[k] = h[k] /\ Before(h[k], m)

LEMMA AddsOne ==
  ASSUME NEW h \in Seq(Items), InPlace(h), NEW n, n = Len(h), NEW m \in Items, \A k \in DOMAIN h : Before(h[k], m),
         NEW w, w = Append(h, m)
  PROVE  Adds(h, n, w, m)
BY DEF Adds

\* What a message adds to what is shown.
LEMMA AddsFace ==
  ASSUME NEW h, NEW n, NEW w, NEW m, Adds(h, n, w, m), m.who # "result", NEW B
  PROVE  Faces(w, n + 1, B) = Faces(h, n, B) \cup {FaceOf(w, n + 1, B, m)}
<1>1. w \in Seq(Items) /\ n \in Nat /\ \A k \in 1..n : w[k] = h[k]
  BY DEF Adds
<1>2. n \in 0..(Len(w) - 1) /\ m = w[n + 1]
  BY DEF Adds
<1>3. Faces(w, n + 1, B) = Faces(w, n, B) \cup {FaceOf(w, n + 1, B, m)}
  BY <1>1, <1>2, FacesMore
<1>4. Faces(w, n, B) = Faces(h, n, B)
  BY <1>1, FacesAgree
<1>5. QED
  BY <1>3, <1>4

\* One more message, and its row at the end.
LEMMA AppendShown ==
  ASSUME NEW h, NEW n, NEW w, NEW m, Adds(h, n, w, m), m.who # "result", NEW B, NEW rs, Showing(rs, h, n, B),
         NEW r \in Row, Kept(r), r.who = m.who, r.id = m.id, r.who = "user" => r = UserRow(r.id, r.ts),
         r.ts # Unset, NEW f, f = FaceOf(w, n + 1, B, m), Face(r) = f,
         NEW to, to = Append(rs, r)
  PROVE  Showing(to, w, n + 1, B)
<1>1. rs \in Seq(Row) /\ Regular(rs) /\ FacesIn(rs) = Faces(h, n, B)
  BY DEF Showing
<1>2. Faces(w, n + 1, B) = Faces(h, n, B) \cup {f}
  BY AddsFace
<1>3. \A i \in ShownIn(rs) : Before(rs[i], r)
  <2>1. h \in Seq(Items) /\ n \in 0..Len(h)
    BY DEF Adds
  <2>2. \A k \in 1..n : Before(h[k], r)
    BY DEF Before, Adds
  <2>3. QED
    BY <1>1, <2>1, <2>2, RowsComeBefore
<1>4. Regular(to) /\ to \in Seq(Row) /\ FacesIn(to) = FacesIn(rs) \cup {Face(r)}
  BY <1>1, <1>3, RegularMore
<1>5. QED
  BY <1>1, <1>2, <1>4 DEF Showing

\* A row that does not show, at the end: whether it is there or not shows nothing.
LEMMA FrontShown ==
  ASSUME NEW rs, NEW c, c = Len(rs), c # 0, rs \in Seq(Row), rs[c].who = "user", rs[c].ts = Unset, NEW h, NEW n, NEW B,
         Showing(rs, h, n, B), NEW front, front = SubSeq(rs, 1, c - 1)
  PROVE  Showing(front, h, n, B)
<1>1. rs \in Seq(Row) /\ Regular(rs) /\ FacesIn(rs) = Faces(h, n, B) /\ c \in Nat \ {0}
  BY DEF Showing
<1>2. /\ front \in Seq(Row) /\ DOMAIN front = 1..(c - 1)
      /\ \A i \in 1..(c - 1) : front[i] = rs[i]
      /\ DOMAIN rs = 1..c
  BY <1>1
<1>3. \A i \in 1..c : i \in 1..(c - 1) \/ i = c
  BY <1>1
<1>4. c \notin ShownIn(rs) /\ 1..(c - 1) \subseteq 1..c
  BY <1>1 DEF ShownIn
<1>5. ShownIn(front) \subseteq ShownIn(rs)
  BY <1>2, <1>4 DEF ShownIn
<1>6. ShownIn(rs) \subseteq ShownIn(front)
  BY <1>2, <1>3, <1>4 DEF ShownIn
<1>7. \A i \in ShownIn(rs) : front[i] = rs[i]
  BY <1>2, <1>6 DEF ShownIn
<1>8. ShownIn(front) = ShownIn(rs)
  BY <1>5, <1>6
<1>9. FacesIn(front) = FacesIn(rs)
  BY <1>7, <1>8 DEF FacesIn
<1>10. Regular(front)
  <2>r. PICK to : to = front
    OBVIOUS
  <2>1. ShownIn(to) = ShownIn(rs) /\ DOMAIN to \subseteq DOMAIN rs
    BY <1>2, <1>4, <1>8, <2>r
  <2>2. (\A i \in DOMAIN to : to[i] = rs[i]) /\ \A i \in ShownIn(rs) : to[i] = rs[i]
    BY <1>2, <1>7, <2>r
  <2>3. /\ \A i \in DOMAIN to : to[i].who = "user" => to[i] = UserRow(to[i].id, to[i].ts)
        /\ \A i \in DOMAIN to : to[i].call # Unset => to[i].call = to[i].id /\ to[i].block = "tool"
    BY <1>1, <2>1, <2>2 DEF Regular
  <2>4. \A i, j \in ShownIn(to) : i < j => Before(to[i], to[j])
    BY <1>1, <2>1, <2>2 DEF Regular
  <2>5. Regular(to)
    BY <2>3, <2>4 DEF Regular
  <2>6. QED
    BY <2>r, <2>5
<1>11. QED
  BY <1>1, <1>2, <1>9, <1>10 DEF Showing

LEMMA LastReplaced ==
  ASSUME NEW rs \in Seq(Row), NEW c, c = Len(rs), c # 0, NEW r \in Row
  PROVE  [rs EXCEPT ![c] = r] = Append(SubSeq(rs, 1, c - 1), r)
OBVIOUS

\* A bubble at the end that gets the time of its message.
LEMMA StampShown ==
  ASSUME NEW h, NEW n, NEW w, NEW m, Adds(h, n, w, m), m.who = "user", NEW B, NEW rs, Showing(rs, h, n, B),
         NEW c, c = Len(rs), c # 0, rs[c].who = "user", rs[c].ts = Unset,
         NEW r \in Row, r = UserRow(m.id, m.id), r.ts # Unset,
         NEW to, to = [rs EXCEPT ![c] = r]
  PROVE  Showing(to, w, n + 1, B)
<1>1. rs \in Seq(Row)
  BY DEF Showing
<1>f. PICK front : front = SubSeq(rs, 1, c - 1)
  OBVIOUS
<1>2. to = Append(front, r)
  BY <1>1, <1>f, LastReplaced
<1>3. Showing(front, h, n, B)
  BY <1>1, <1>f, FrontShown
<1>4. r.who = m.who /\ r.id = m.id /\ Kept(r) /\ r = UserRow(r.id, r.ts)
  BY DEF UserRow, Kept
<1>g. PICK f : f = FaceOf(w, n + 1, B, m)
  OBVIOUS
<1>5. Face(r) = f
  <2>1. Face(r) = r
    BY DEF Face, UserRow
  <2>2. QED
    BY <1>g, <2>1 DEF FaceOf
<1>6. m.who # "result"
  OBVIOUS
<1>t. PICK t : t = Append(front, r)
  OBVIOUS
<1>7. Showing(t, w, n + 1, B)
  <2>1. Kept(r) /\ r.who = m.who /\ r.id = m.id /\ m.who # "result"
    BY <1>4, <1>6
  <2>2. r.who = "user" => r = UserRow(r.id, r.ts)
    BY <1>4
  <2>3. QED
    BY <1>t, <1>3, <1>5, <1>g, <2>1, <2>2, AppendShown
<1>8. QED
  BY <1>2, <1>7, <1>t

\* A step of a turn leads to the state of the page that Live describes.
LEMMA LivesOn ==
  ASSUME NEW rs, NEW w, NEW n, NEW B, Showing(rs, w, n, B), rows' = rs, Written' = w, n = Len(w), Calling' = B,
         waiting' = 0, IF Writing' THEN current' # 0 /\ rs[current'].id = turn' ELSE current' = 0,
         phase' \in {"called", "tool", "running"} => \E i \in DOMAIN rs : rs[i].call = turn'
  PROVE  Live'
<1>1. Showing(rows', Written', Len(Written'), Calling')
  OBVIOUS
<1>2. Showing(rows, Written, Len(Written), Calling)'
  BY <1>1 DEF Showing, Regular, FacesIn, Faces, FaceOf, Outcome, SaidIn, ShownIn
<1>3. QED
  BY <1>2 DEF Live

LEMMA StartsMirrors ==
  ASSUME PageInv, MirrorInv, PageInv', Starts
  PROVE  MirrorInv'
<1>1. Types /\ Talks
  BY DEF PageInv, MirrorInv
<1>2. /\ phase = "asked" /\ phase' = "writing" /\ turn' = turn /\ block' = block /\ history' = history
  BY DEF Starts
<1>g. PICK pg : pg = StartAssistantMessage(Page, turn, turn)
  OBVIOUS
<1>3. Prints(pg) /\ rows' = pg.rows /\ current' = pg.current /\ waiting' = pg.waiting
  BY <1>g DEF Starts, Prints, SetPage
<1>4. Talks'
  BY <1>1, <1>2 DEF Talks, Item, HasUser, InPlace
<1>5. ASSUME Live PROVE Live'
  <2>B. PICK B : B = {}
    OBVIOUS
  <2>n. PICK n : n = Len(history)
    OBVIOUS
  <2>1. Showing(rows, history, n, B) /\ waiting = 0 /\ rows \in Seq(Row)
    BY <1>2, <1>5, <2>B, <2>n DEF Live, Showing, Written, Writing, Calling
  <2>2. turn \in PromptIds /\ block = "none" /\ history \in Seq(Items) /\ turn # Unset /\ InPlace(history) /\ n \in Nat
    BY <1>1, <1>2, <2>n, NewMessages, PageAssumption DEF Talks, Types, PromptIds
  <2>r. PICK r : r = ReplyRow(turn, turn)
    OBVIOUS
  <2>3. r \in Row /\ r.who = "assistant" /\ r.id = turn /\ r.ts = turn /\ r.block = "none" /\ r.call = Unset /\ r.state = "still"
    <3>1. r = [who |-> "assistant", id |-> turn, ts |-> turn, block |-> "none", call |-> Unset, state |-> "still"]
      BY <2>r DEF ReplyRow, UserRow
    <3>2. QED
      BY <2>2, <3>1 DEF Row, Blocks
  <2>4. rows' = Append(rows, r) /\ current' = Len(rows) + 1 /\ waiting' = 0
    <3>1. pg = Under(Page, r)
      BY <1>g, <2>r DEF StartAssistantMessage, Page, Under
    <3>2. QED
      BY <1>3, <2>1, <3>1 DEF Page, Under
  <2>m. PICK m : m = Reply(FALSE)
    OBVIOUS
  <2>5. m \in Items /\ m.who = "assistant" /\ m.id = turn /\ m.block = "none" /\ m.stopped = FALSE
    BY <1>1, <2>2, <2>m, NewReply
  <2>w. PICK w : w = Append(history, m)
    OBVIOUS
  <2>7. Adds(history, n, w, m)
    <3>1. \A k \in DOMAIN history : Before(history[k], Item("assistant", turn))
      BY <1>1, <1>2 DEF Talks
    <3>2. Item("assistant", turn).who = m.who /\ Item("assistant", turn).id = m.id
      BY <2>5 DEF Item
    <3>3. \A k \in DOMAIN history : Before(history[k], m)
      BY <3>1, <3>2 DEF Before
    <3>h. PICK h : h = history
      OBVIOUS
    <3>4. Adds(h, n, w, m)
      BY <2>2, <2>5, <2>n, <2>w, <3>3, <3>h, AddsOne
    <3>5. QED
      BY <3>4, <3>h
  <2>f. PICK f : f = FaceOf(w, n + 1, B, m)
    OBVIOUS
  <2>11. Face(r) = f
    <3>1. f \in Row /\ f.who = "assistant" /\ f.id = turn /\ f.ts = turn /\ f.call = Unset /\ f.block = "none" /\ f.state = "still"
      BY <2>5, <2>f, <2>B, FaceOfSides
    <3>2. /\ Face(r) \in Row /\ Face(r).who = r.who /\ Face(r).id = r.id /\ Face(r).ts = r.ts
          /\ Face(r).block = r.block /\ Face(r).state = r.state /\ Face(r).call = Unset
      BY <2>3, RowSides
    <3>3. QED
      BY <2>3, <3>1, <3>2, SameRow
  <2>t. PICK to : to = Append(rows, r)
    OBVIOUS
  <2>12. Showing(to, w, n + 1, B)
    <3>1. Kept(r) /\ r.ts # Unset
      BY <2>2, <2>3 DEF Kept
    <3>3. m.who # "result" /\ r.who = m.who /\ r.id = m.id /\ ~(r.who = "user")
      BY <2>3, <2>5
    <3>h. PICK h : h = history
      OBVIOUS
    <3>4. Adds(h, n, w, m) /\ Showing(rows, h, n, B)
      BY <2>1, <2>7, <3>h
    <3>o. PICK rs : rs = rows
      OBVIOUS
    <3>5. Showing(rs, h, n, B) /\ to = Append(rs, r)
      BY <2>t, <3>4, <3>o
    <3>6. QED
      BY <2>3, <2>11, <2>f, <3>1, <3>3, <3>4, <3>5, AppendShown
  <2>13. Written' = w /\ Calling' = B /\ Writing'
    <3>1. Reply(FALSE)' = Reply(FALSE)
      BY <1>2 DEF Reply, Item
    <3>2. QED
      BY <1>2, <2>m, <2>w, <2>B, <3>1 DEF Written, Writing, Calling
  <2>15. current' # 0 /\ to[current'].id = turn'
    BY <1>2, <2>1, <2>3, <2>4, <2>t
  <2>16. phase' \notin {"called", "tool", "running"}
    BY <1>2
  <2>17. n + 1 = Len(w)
    BY <2>2, <2>5, <2>n, <2>w
  <2>18. QED
    BY <2>4, <2>t, <2>12, <2>13, <2>15, <2>16, <2>17, LivesOn
<1>6. QED
  BY <1>2, <1>3, <1>4, <1>5, PrintsMirrors

--------------------------------------------------------------------------------
\* The reply that is written

\* Two conversations that differ in their last message, the reply a.
Twins(w, v, n, a) == \E h, m, l : /\ Adds(h, n, w, m) /\ Adds(h, n, v, l) /\ InPlace(w)
                                   /\ m.who = "assistant" /\ l.who = "assistant" /\ m.id = a /\ l.id = a

\* The last message and its row change alike.
LEMMA LastChanges ==
  ASSUME NEW w, NEW v, NEW n, NEW a, Twins(w, v, n, a),
         NEW B, B \subseteq {a}, NEW C, C \subseteq {a}, NEW rs, Showing(rs, w, n + 1, B),
         NEW c \in DOMAIN rs, rs[c].who = "assistant", rs[c].id = a,
         NEW r \in Row, Kept(r), r.who = "assistant", r.id = a, NEW l, l = v[n + 1], NEW f, f = FaceOf(v, n + 1, C, l), Face(r) = f,
         NEW to, to = [rs EXCEPT ![c] = r]
  PROVE  Showing(to, v, n + 1, C)
<1>0. PICK h, m : /\ Adds(h, n, w, m) /\ Adds(h, n, v, l) /\ InPlace(w)
                  /\ m.who = "assistant" /\ l.who = "assistant" /\ m.id = a /\ l.id = a
  BY DEF Twins, Adds
<1>1. rs \in Seq(Row) /\ Regular(rs) /\ FacesIn(rs) = Faces(w, n + 1, B)
  BY DEF Showing
<1>2. /\ n \in Nat /\ w \in Seq(Items) /\ v \in Seq(Items) /\ Len(w) = n + 1 /\ Len(v) = n + 1
      /\ w[n + 1] = m /\ v[n + 1] = l /\ n + 1 \in 0..Len(w) /\ m \in Items /\ l \in Items /\ InPlace(w)
  BY <1>0 DEF Adds
<1>3. \A k \in 1..n : w[k] = v[k]
  BY <1>0 DEF Adds
<1>4. \A k \in 1..(n + 1) : k \in 1..n \/ k = n + 1
  BY <1>2
<1>5. \A k \in 1..(n + 1) : w[k].who = v[k].who /\ w[k].id = v[k].id
  BY <1>0, <1>2, <1>3, <1>4
<1>6. SaidIn(v, n + 1) = SaidIn(w, n + 1)
  BY <1>5 DEF SaidIn
<1>7. \A b : Outcome(v, n + 1, b) <=> Outcome(w, n + 1, b)
  BY <1>5 DEF Outcome
<1>8. ASSUME NEW k \in SaidIn(w, n + 1), w[k].who = "assistant", w[k].id = r.id
      PROVE  Face(r) = FaceOf(v, n + 1, C, v[k])
  <2>1. k \in 1..(n + 1) /\ DOMAIN w = 1..(n + 1)
    BY <1>2 DEF SaidIn
  <2>2. n + 1 \in 1..(n + 1)
    BY <1>2
  <2>3. k = n + 1
    BY <1>0, <1>2, <1>8, <2>1, <2>2, MessagesDiffer
  <2>4. QED
    BY <1>2, <2>3
<1>9. ASSUME NEW k \in SaidIn(w, n + 1), ~(w[k].who = "assistant" /\ w[k].id = r.id)
      PROVE  FaceOf(v, n + 1, C, v[k]) = FaceOf(w, n + 1, B, w[k])
  <2>1. k \in 1..(n + 1) /\ w[k].who # "result"
    BY DEF SaidIn
  <2>2. k # n + 1
    BY <1>0, <1>2, <1>9
  <2>3. v[k] = w[k] /\ w[k] \in Items
    BY <1>2, <1>3, <1>4, <2>1, <2>2
  <2>4. CASE w[k].who = "user"
    BY <2>3, <2>4 DEF FaceOf
  <2>5. CASE w[k].who = "assistant"
    <3>1. w[k].id # a
      BY <1>9, <2>5
    <3>2. w[k].id \notin B /\ w[k].id \notin C
      BY <3>1
    <3>3. QED
      BY <1>7, <2>3, <2>5, <3>2 DEF FaceOf
  <2>6. QED
    BY <2>1, <2>3, <2>4, <2>5, MessageSides
<1>p. PICK p : p = n + 1
  OBVIOUS
<1>10. Showing(to, v, p, C)
  <2>1. FacesIn(rs) = Faces(w, p, B) /\ p \in 0..Len(w) /\ r.id = rs[c].id
    BY <1>1, <1>2, <1>p
  <2>2. Turns(w, p, B, v, p, C, r)
    BY <1>6, <1>8, <1>9, <1>p DEF Turns
  <2>3. w \in Seq(Items) /\ InPlace(w) /\ rs \in Seq(Row) /\ Regular(rs)
    BY <1>1, <1>2
  <2>4. QED
    BY <2>1, <2>2, <2>3, ReplyChanges
<1>11. QED
  BY <1>10, <1>p

\* The row of the reply that is written.
WritesRow(h, n, w, m, c, r, B) ==
  /\ Adds(h, n, w, m) /\ InPlace(w) /\ Showing(rows, w, n + 1, B) /\ B \subseteq {turn}
  /\ m.who = "assistant" /\ m.id = turn /\ m.block = block /\ m.stopped = FALSE
  /\ c \in DOMAIN rows /\ c # 0 /\ r = rows[c] /\ r \in Row /\ Kept(r)
  /\ r.who = "assistant" /\ r.id = turn /\ r.ts = turn /\ r.block = block
  /\ r.state = IF turn \in B THEN "running" ELSE "still"

LEMMA WritingNow ==
  ASSUME PageInv, Talks, Live, Writing
  PROVE  \E h, n, w, m, c, r, B : /\ WritesRow(h, n, w, m, c, r, B) /\ h = history /\ c = current /\ B = Calling
<1>1. Types
  BY DEF PageInv
<1>h. PICK h : h = history
  OBVIOUS
<1>n. PICK n : n = Len(h)
  OBVIOUS
<1>m. PICK m : m = Reply(FALSE)
  OBVIOUS
<1>w. PICK w : w = Append(h, m)
  OBVIOUS
<1>c. PICK c : c = current
  OBVIOUS
<1>r. PICK r : r = rows[c]
  OBVIOUS
<1>B. PICK B : B = Calling
  OBVIOUS
<1>2. h \in Seq(Items) /\ InPlace(h) /\ n \in Nat
  BY <1>1, <1>h, <1>n DEF Talks, Types
<1>3. m \in Items /\ m.who = "assistant" /\ m.id = turn /\ m.block = block /\ m.stopped = FALSE
  BY <1>1, <1>m, NewReply
<1>4. \A k \in DOMAIN h : Before(h[k], m)
  <2>1. \A k \in DOMAIN h : Before(h[k], Item("assistant", turn))
    BY <1>h DEF Talks, Writing
  <2>2. Item("assistant", turn).who = m.who /\ Item("assistant", turn).id = m.id
    BY <1>3 DEF Item
  <2>3. QED
    BY <2>1, <2>2 DEF Before
<1>5. Adds(h, n, w, m)
  BY <1>2, <1>3, <1>4, <1>n, <1>w, AddsOne
<1>6. InPlace(w)
  BY <1>2, <1>3, <1>4, <1>w, InPlaceMore
<1>7. w = Written /\ Len(w) = n + 1
  BY <1>5, <1>h, <1>m, <1>w DEF Written, Adds
<1>8. Showing(rows, w, n + 1, B)
  BY <1>7, <1>B DEF Live
<1>9. B = IF phase \in {"calling", "called"} THEN {turn} ELSE {}
  BY <1>B DEF Calling, Writing
<1>10. c # 0 /\ r.id = turn /\ rows \in Seq(Row) /\ current \in 0..Len(rows) /\ (c # 0 => r.who = "assistant")
  BY <1>1, <1>c, <1>r, PageFits DEF Live, Fit
<1>11. c \in DOMAIN rows /\ r \in Row
  BY <1>10, <1>c, <1>r
<1>12. Kept(r)
  BY <1>8, <1>11, <1>r DEF Showing, Regular, Kept
<1>f. PICK f : f = FaceOf(w, n + 1, B, m)
  OBVIOUS
<1>13. Face(r) = f
  <2>1. w \in Seq(Items) /\ n + 1 \in 0..Len(w) /\ n + 1 \in SaidIn(w, n + 1) /\ w[n + 1] = m
    BY <1>3, <1>5 DEF Adds, SaidIn
  <2>o. PICK rs : rs = rows
    OBVIOUS
  <2>2. /\ rs \in Seq(Row) /\ FacesIn(rs) = Faces(w, n + 1, B) /\ c \in DOMAIN rs /\ rs[c].who = "assistant"
        /\ w[n + 1].who = "assistant" /\ w[n + 1].id = rs[c].id /\ r = rs[c]
    BY <1>3, <1>8, <1>10, <1>11, <1>r, <2>1, <2>o DEF Showing
  <2>3. Face(rs[c]) = FaceOf(w, n + 1, B, w[n + 1])
    BY <1>6, <2>1, <2>2, OwnFace
  <2>4. QED
    BY <1>f, <2>1, <2>2, <2>3
<1>14. f.ts = turn /\ f.block = block /\ f.state = IF turn \in B THEN "running" ELSE "still"
  <2>1. block = "tool" => turn \in B
    BY <1>9 DEF Talks, Writing
  <2>2. f.ts = m.id /\ f.block = m.block /\ f.state = IF m.id \in B THEN "running"
                           ELSE IF m.block = "tool" /\ (m.stopped \/ Outcome(w, n + 1, m.id)) THEN "done"
                           ELSE "still"
    BY <1>3, <1>f, FaceOfSides
  <2>3. QED
    BY <1>3, <2>1, <2>2
<1>15. r.ts = turn /\ r.block = block /\ r.state = IF turn \in B THEN "running" ELSE "still"
  BY <1>11, <1>13, <1>14, RowSides
<1>16. WritesRow(h, n, w, m, c, r, B)
  BY <1>3, <1>5, <1>6, <1>8, <1>9, <1>10, <1>11, <1>12, <1>15, <1>r DEF WritesRow
<1>17. QED
  BY <1>16, <1>h, <1>c, <1>B

\* The reply becomes l, and its row x.
LEMMA ReplyGoesOn ==
  ASSUME NEW h, NEW n, NEW w, NEW m, NEW c, NEW r, NEW B, WritesRow(h, n, w, m, c, r, B),
         NEW l, NEW v, Adds(h, n, v, l), l.who = "assistant", l.id = turn,
         NEW C, C \subseteq {turn}, l.block = "tool" => turn \in C \/ l.stopped,
         NEW x, Alike(r, x), Kept(x), x.block = l.block,
         x.state = IF turn \in C THEN "running" ELSE IF l.block = "tool" THEN "done" ELSE "still",
         NEW to, to = [rows EXCEPT ![c] = x], rows' = to, Written' = v, Calling' = C, waiting' = 0, turn' = turn,
         current' = IF Writing' THEN c ELSE 0,
         phase' \in {"called", "tool", "running"} => x.call = turn
  PROVE  Live'
<1>1. /\ Adds(h, n, w, m) /\ InPlace(w) /\ Showing(rows, w, n + 1, B) /\ B \subseteq {turn}
      /\ m.who = "assistant" /\ m.id = turn /\ c \in DOMAIN rows /\ c # 0 /\ r = rows[c] /\ r \in Row
      /\ r.who = "assistant" /\ r.id = turn /\ r.ts = turn
  BY DEF WritesRow
<1>2. x \in Row /\ x.who = "assistant" /\ x.id = turn /\ x.ts = turn
  BY <1>1 DEF Alike
<1>f. PICK f : f = FaceOf(v, n + 1, C, l)
  OBVIOUS
<1>3. f \in Row /\ f.who = "assistant" /\ f.id = turn /\ f.ts = turn /\ f.call = Unset /\ f.block = l.block /\ f.state = x.state
  <2>1. l \in Items /\ l.who # "result"
    BY DEF Adds
  <2>2. /\ f \in Row /\ f.who = l.who /\ f.id = l.id /\ f.ts = l.id /\ f.call = Unset
        /\ f.block = l.block
        /\ f.state = IF l.id \in C THEN "running"
                           ELSE IF l.block = "tool" /\ (l.stopped \/ Outcome(v, n + 1, l.id)) THEN "done"
                           ELSE "still"
    BY <1>f, <2>1, FaceOfSides
  <2>3. f.state = x.state
    BY <2>2
  <2>4. QED
    BY <2>2, <2>3
<1>4. Face(x) = f
  <2>1. /\ Face(x) \in Row /\ Face(x).who = x.who /\ Face(x).id = x.id /\ Face(x).ts = x.ts
        /\ Face(x).block = x.block /\ Face(x).state = x.state /\ Face(x).call = Unset
    BY <1>2, RowSides
  <2>2. QED
    BY <1>2, <1>3, <2>1, SameRow
<1>5. Showing(to, v, n + 1, C)
  <2>o. PICK rs : rs = rows
    OBVIOUS
  <2>a. PICK a : a = turn
    OBVIOUS
  <2>t. PICK t : t = [rs EXCEPT ![c] = x]
    OBVIOUS
  <2>1. Showing(rs, w, n + 1, B) /\ c \in DOMAIN rs /\ rs[c].who = "assistant" /\ rs[c].id = a
    BY <1>1, <2>o, <2>a
  <2>2. m.id = a /\ l.id = a /\ B \subseteq {a} /\ C \subseteq {a} /\ x.id = a
    BY <1>1, <1>2, <2>a
  <2>3. m.who = "assistant" /\ x.who = "assistant" /\ x \in Row
    BY <1>1, <1>2
  <2>4. Twins(w, v, n, a)
    BY <1>1, <2>2, <2>3 DEF Twins
  <2>5. l = v[n + 1]
    BY DEF Adds
  <2>6. Showing(t, v, n + 1, C)
    BY <1>4, <1>f, <2>1, <2>2, <2>3, <2>4, <2>5, <2>t, LastChanges
  <2>7. QED
    BY <2>6, <2>t, <2>o
<1>6. n + 1 = Len(v)
  BY DEF Adds
<1>7. c \in DOMAIN to /\ to[c] = x
  BY <1>1
<1>8. QED
  BY <1>1, <1>2, <1>5, <1>6, <1>7, LivesOn

\* What is said is a reply, of a block.
LEMMA ReplyOf ==
  ASSUME Types, NEW b \in Blocks, NEW s \in BOOLEAN,
         NEW l, l = [who |-> "assistant", id |-> turn, block |-> b, stopped |-> s]
  PROVE  l \in Items /\ l.who = "assistant" /\ l.id = turn /\ l.block = b /\ l.stopped = s
<1>1. turn \in PromptIds
  BY NewMessages
<1>2. QED
  BY <1>1 DEF Items

LEMMA ReplyThen ==
  ASSUME turn' = turn
  PROVE  /\ Reply(FALSE)' = [who |-> "assistant", id |-> turn, block |-> block', stopped |-> FALSE]
         /\ \A s : Reply(s) = [who |-> "assistant", id |-> turn, block |-> block, stopped |-> s]
<1>1. Reply(FALSE)' = [who |-> "assistant", id |-> turn, block |-> block', stopped |-> FALSE]
  <2>1. PICK m : m = Reply(FALSE)'
    OBVIOUS
  <2>2. m = [who |-> "assistant", id |-> turn, block |-> block', stopped |-> FALSE]
    BY <2>1 DEF Reply, Item
  <2>3. QED
    BY <2>1, <2>2
<1>2. ASSUME NEW s PROVE Reply(s) = [who |-> "assistant", id |-> turn, block |-> block, stopped |-> s]
  <2>1. PICK m : m = Reply(s)
    OBVIOUS
  <2>2. m = [who |-> "assistant", id |-> turn, block |-> block, stopped |-> s]
    BY <2>1 DEF Reply, Item
  <2>3. QED
    BY <2>1, <2>2
<1>3. QED
  BY <1>1, <1>2

\* The reply gets the block b, and the row x shows it.
LEMMA LiveGoesOn ==
  ASSUME Types, NEW h, NEW n, NEW w, NEW m, NEW c, NEW r, NEW B, WritesRow(h, n, w, m, c, r, B),
         NEW b \in Blocks, NEW s \in BOOLEAN,
         NEW l, l = [who |-> "assistant", id |-> turn, block |-> b, stopped |-> s],
         NEW v, v = Append(h, l), Written' = v,
         NEW C, C \subseteq {turn}, Calling' = C, b = "tool" => turn \in C \/ s,
         NEW x, Alike(r, x), Kept(x), x.block = b,
         x.state = IF turn \in C THEN "running" ELSE IF b = "tool" THEN "done" ELSE "still",
         rows' = [rows EXCEPT ![c] = x], waiting' = 0, turn' = turn,
         current' = IF Writing' THEN c ELSE 0,
         phase' \in {"called", "tool", "running"} => x.call = turn
  PROVE  Live'
<1>1. l \in Items /\ l.who = "assistant" /\ l.id = turn /\ l.block = b /\ l.stopped = s
  BY ReplyOf
<1>2. Adds(h, n, v, l)
  <2>1. /\ h \in Seq(Items) /\ InPlace(h) /\ n \in Nat /\ n = Len(h) /\ DOMAIN h = 1..n
        /\ \A k \in 1..n : Before(h[k], m)
        /\ m.who = l.who /\ m.id = l.id
    BY <1>1 DEF Adds, WritesRow
  <2>2. \A k \in DOMAIN h : Before(h[k], l)
    BY <2>1 DEF Before
  <2>3. QED
    BY <1>1, <2>1, <2>2, AddsOne
<1>t. PICK to : to = [rows EXCEPT ![c] = x]
  OBVIOUS
<1>3. rows' = to
  BY <1>t
<1>4. \E L, V : /\ Adds(h, n, V, L) /\ L.who = "assistant" /\ L.id = turn /\ L.block = b /\ L.stopped = s
                /\ Written' = V
  BY <1>1, <1>2
<1>5. PICK L, V : /\ Adds(h, n, V, L) /\ L.who = "assistant" /\ L.id = turn /\ L.block = b /\ L.stopped = s
                  /\ Written' = V
  BY <1>4
<1>6. x.block = L.block /\ x.state = IF turn \in C THEN "running" ELSE IF L.block = "tool" THEN "done" ELSE "still"
  BY <1>5
<1>7. L.block = "tool" => turn \in C \/ L.stopped
  BY <1>5
<1>8. QED
  BY <1>t, <1>3, <1>5, <1>6, <1>7, ReplyGoesOn

LEMMA WritesMirrors ==
  ASSUME PageInv, MirrorInv, PageInv', Writes
  PROVE  MirrorInv'
<1>1. Types /\ Talks
  BY DEF PageInv, MirrorInv
<1>2. /\ phase = "writing" /\ phase' = "text" /\ turn' = turn /\ block' = "text" /\ history' = history
  BY DEF Writes
<1>g. PICK pg : pg = EnsureBlock(Page, turn, "text")
  OBVIOUS
<1>3. Prints(pg) /\ rows' = pg.rows /\ current' = pg.current /\ waiting' = pg.waiting
  BY <1>g DEF Writes, Prints, SetPage
<1>4. Talks'
  BY <1>1, <1>2 DEF Talks, Item, HasUser, InPlace
<1>5. ASSUME Live PROVE Live'
  <2>1. PICK h, n, w, m, c, r, B : WritesRow(h, n, w, m, c, r, B) /\ h = history /\ c = current /\ B = Calling
    BY <1>1, <1>2, <1>5, WritingNow DEF Writing
  <2>2. /\ r \in Row /\ r = rows[c] /\ c # 0 /\ Kept(r) /\ r.block = "none" /\ r.state = "still"
    BY <1>1, <1>2, <2>1 DEF WritesRow, Calling, Talks
  <2>3. PICK x : Alike(r, x) /\ x.block = "text" /\ x.call = r.call /\ x.state = r.state
    BY <2>2, SideIsThere DEF Blocks
  <2>4. Kept(x)
    BY <2>2, <2>3 DEF Kept
  <2>5. pg = With(Page, c, x)
    <3>1. Fit(Page) /\ c = Page.current /\ r = Page.rows[c]
      BY <1>1, <2>1, <2>2, PageFits
    <3>p. PICK p : p = Page
      OBVIOUS
    <3>2. EnsureBlock(p, turn, x.block) = With(p, c, x)
      BY <2>2, <2>3, <3>1, <3>p, CurrentFilled
    <3>3. QED
      BY <1>g, <2>3, <3>2, <3>p
  <2>6. rows' = [rows EXCEPT ![c] = x] /\ current' = c /\ waiting' = 0
    BY <1>3, <1>5, <2>1, <2>5 DEF With, Page, Live
  <2>l. PICK l : l = [who |-> "assistant", id |-> turn, block |-> "text", stopped |-> FALSE]
    OBVIOUS
  <2>v. PICK v : v = Append(h, l)
    OBVIOUS
  <2>C. PICK C : C = {}
    OBVIOUS
  <2>7. Writing' /\ Written' = v /\ Calling' = C
    <3>1. Reply(FALSE)' = l
      BY <1>2, <2>l, ReplyThen
    <3>2. QED
      BY <1>2, <2>1, <2>v, <2>C, <3>1 DEF Writing, Written, Calling
  <2>8. "text" \in Blocks /\ C \subseteq {turn} /\ phase' \notin {"called", "tool", "running"}
    BY <1>2, <2>C DEF Blocks
  <2>9. x.state = IF turn \in C THEN "running" ELSE IF "text" = "tool" THEN "done" ELSE "still"
    BY <2>2, <2>3, <2>C
  <2>10. QED
    BY <1>1, <1>2, <2>1, <2>3, <2>4, <2>6, <2>7, <2>8, <2>9, <2>l, <2>v, LiveGoesOn
<1>6. QED
  BY <1>2, <1>3, <1>4, <1>5, PrintsMirrors

LEMMA CallsMirrors ==
  ASSUME PageInv, MirrorInv, PageInv', Calls
  PROVE  MirrorInv'
<1>1. Types /\ Talks
  BY DEF PageInv, MirrorInv
<1>2. /\ phase = "writing" /\ phase' = "calling" /\ turn' = turn /\ block' = "tool" /\ history' = history
  BY DEF Calls
<1>a. PICK at : at = EnsureBlock(Page, turn, "tool")
  OBVIOUS
<1>g. PICK pg : pg = [at EXCEPT !.rows[at.current].state = "running"]
  OBVIOUS
<1>3. Prints(pg) /\ rows' = pg.rows /\ current' = pg.current /\ waiting' = pg.waiting
  BY <1>a, <1>g DEF Calls, Prints, SetPage
<1>4. Talks'
  BY <1>1, <1>2 DEF Talks, Item, HasUser, InPlace
<1>5. ASSUME Live PROVE Live'
  <2>1. PICK h, n, w, m, c, r, B : WritesRow(h, n, w, m, c, r, B) /\ h = history /\ c = current /\ B = Calling
    BY <1>1, <1>2, <1>5, WritingNow DEF Writing
  <2>2. /\ r \in Row /\ r = rows[c] /\ c # 0 /\ Kept(r) /\ r.block = "none" /\ r.state = "still" /\ c \in DOMAIN rows
    BY <1>1, <1>2, <2>1 DEF WritesRow, Calling, Talks
  <2>3. PICK y : Alike(r, y) /\ y.block = "tool" /\ y.call = r.call /\ y.state = r.state
    BY <2>2, SideIsThere DEF Blocks
  <2>4. y \in Row
    BY <2>3 DEF Alike
  <2>5. PICK x : Alike(y, x) /\ x.block = y.block /\ x.call = y.call /\ x.state = "running"
    BY <2>4, SideIsThere
  <2>6. Alike(r, x) /\ Kept(x) /\ x.block = "tool" /\ x.call = r.call /\ x.state = "running"
    BY <2>2, <2>3, <2>5 DEF Kept, Alike
  <2>7. at = With(Page, c, y)
    <3>1. Fit(Page) /\ c = Page.current /\ r = Page.rows[c]
      BY <1>1, <2>1, <2>2, PageFits
    <3>p. PICK p : p = Page
      OBVIOUS
    <3>2. EnsureBlock(p, turn, y.block) = With(p, c, y)
      BY <2>2, <2>3, <3>1, <3>p, CurrentFilled
    <3>3. QED
      BY <1>a, <2>3, <3>2, <3>p
  <2>o. PICK rs : rs = rows
    OBVIOUS
  <2>8. /\ at.rows = [rs EXCEPT ![c] = y] /\ at.current = c /\ at.waiting = 0 /\ rs \in Seq(Row) /\ c \in DOMAIN rs
        /\ Fit(at)
    <3>1. at.rows = [rs EXCEPT ![c] = y] /\ at.current = c /\ at.waiting = 0
      BY <1>5, <2>1, <2>7, <2>o DEF With, Page, Live
    <3>2. rs \in Seq(Row) /\ c \in DOMAIN rs
      BY <1>1, <2>2, <2>o, PageFits
    <3>3. turn \in PromptIds /\ Fit(Page) /\ "tool" \in Blocks
      BY <1>1, NewMessages DEF Types, Blocks
    <3>4. Fit(at)
      BY <1>a, <3>3, BlockEnsured
    <3>5. QED
      BY <3>1, <3>2, <3>4
  <2>9. y = at.rows[c] /\ c \in DOMAIN at.rows /\ Fit(at)
    BY <2>8
  <2>10. pg = With(at, c, x)
    <3>1. [at EXCEPT !.rows[c].state = x.state] = With(at, c, x)
      BY <2>5, <2>9, RowFilled
    <3>2. QED
      BY <1>g, <2>6, <2>8, <3>1
  <2>11. [at.rows EXCEPT ![c] = x] = [rs EXCEPT ![c] = x]
    BY <2>8
  <2>12. rows' = [rows EXCEPT ![c] = x] /\ current' = c /\ waiting' = 0
    BY <1>3, <2>8, <2>10, <2>11, <2>o DEF With
  <2>l. PICK l : l = [who |-> "assistant", id |-> turn, block |-> "tool", stopped |-> FALSE]
    OBVIOUS
  <2>v. PICK v : v = Append(h, l)
    OBVIOUS
  <2>C. PICK C : C = {turn}
    OBVIOUS
  <2>13. Writing' /\ Written' = v /\ Calling' = C
    <3>1. Reply(FALSE)' = l
      BY <1>2, <2>l, ReplyThen
    <3>2. QED
      BY <1>2, <2>1, <2>v, <2>C, <3>1 DEF Writing, Written, Calling
  <2>14. "tool" \in Blocks /\ C \subseteq {turn} /\ turn \in C /\ phase' \notin {"called", "tool", "running"}
    BY <1>2, <2>C DEF Blocks
  <2>15. x.state = IF turn \in C THEN "running" ELSE IF "tool" = "tool" THEN "done" ELSE "still"
    BY <2>6, <2>14
  <2>16. QED
    BY <1>1, <1>2, <2>1, <2>6, <2>12, <2>13, <2>14, <2>15, <2>l, <2>v, LiveGoesOn
<1>6. QED
  BY <1>2, <1>3, <1>4, <1>5, PrintsMirrors

LEMMA CallEndsMirrors ==
  ASSUME PageInv, MirrorInv, PageInv', CallEnds
  PROVE  MirrorInv'
<1>1. Types /\ Talks
  BY DEF PageInv, MirrorInv
<1>2. /\ phase = "calling" /\ phase' = "called" /\ turn' = turn /\ block' = block /\ history' = history
  BY DEF CallEnds
<1>g. PICK pg : pg = FinalizeToolCall(Page, turn)
  OBVIOUS
<1>3. Prints(pg) /\ rows' = pg.rows /\ current' = pg.current /\ waiting' = pg.waiting
  BY <1>g DEF CallEnds, Prints, SetPage
<1>4. Talks' /\ block = "tool"
  BY <1>1, <1>2 DEF Talks, Item, HasUser, InPlace
<1>5. ASSUME Live PROVE Live'
  <2>1. PICK h, n, w, m, c, r, B : WritesRow(h, n, w, m, c, r, B) /\ h = history /\ c = current /\ B = Calling
    BY <1>1, <1>2, <1>5, WritingNow DEF Writing
  <2>2. /\ r \in Row /\ r = rows[c] /\ c # 0 /\ Kept(r) /\ r.block = "tool" /\ r.state = "running" /\ r.id = turn
        /\ turn \in PromptIds
    BY <1>1, <1>2, <1>4, <2>1, NewMessages DEF WritesRow, Calling
  <2>3. PICK x : Alike(r, x) /\ x.block = r.block /\ x.call = turn /\ x.state = r.state
    BY <2>2, SideIsThere
  <2>4. Kept(x)
    BY <2>2, <2>3 DEF Kept, Alike
  <2>5. pg = With(Page, c, x)
    <3>1. Fit(Page) /\ c = Page.current /\ r = Page.rows[c]
      BY <1>1, <2>1, <2>2, PageFits
    <3>p. PICK p : p = Page
      OBVIOUS
    <3>2. FinalizeToolCall(p, turn) = With(p, c, x)
      BY <2>2, <2>3, <3>1, <3>p, CurrentFilled
    <3>3. QED
      BY <1>g, <3>2, <3>p
  <2>6. rows' = [rows EXCEPT ![c] = x] /\ current' = c /\ waiting' = 0
    BY <1>3, <1>5, <2>1, <2>5 DEF With, Page, Live
  <2>l. PICK l : l = [who |-> "assistant", id |-> turn, block |-> "tool", stopped |-> FALSE]
    OBVIOUS
  <2>v. PICK v : v = Append(h, l)
    OBVIOUS
  <2>C. PICK C : C = {turn}
    OBVIOUS
  <2>7. Writing' /\ Written' = v /\ Calling' = C
    <3>1. Reply(FALSE)' = l
      BY <1>2, <1>4, <2>l, ReplyThen
    <3>2. QED
      BY <1>2, <2>1, <2>v, <2>C, <3>1 DEF Writing, Written, Calling
  <2>8. "tool" \in Blocks /\ C \subseteq {turn} /\ turn \in C /\ x.block = "tool"
    BY <2>2, <2>3, <2>C DEF Blocks
  <2>9. x.state = IF turn \in C THEN "running" ELSE IF "tool" = "tool" THEN "done" ELSE "still"
    BY <2>2, <2>3, <2>8
  <2>10. QED
    BY <1>1, <1>2, <2>1, <2>3, <2>4, <2>6, <2>7, <2>8, <2>9, <2>l, <2>v, LiveGoesOn
<1>6. QED
  BY <1>2, <1>3, <1>4, <1>5, PrintsMirrors

\* A message that comes before the reply comes before its result.
LEMMA BeforeResult ==
  ASSUME NEW m \in Items, NEW a \in PromptIds
  PROVE  /\ Before(m, Item("assistant", a)) => Before(m, Item("result", a))
         /\ m.who = "assistant" /\ m.id = a => Before(m, Item("result", a))
<1>1. m.who \in {"user", "assistant", "result"} /\ m.id \in Int /\ a \in Int
  BY MessageSides DEF PromptIds
<1>2. /\ Item("assistant", a).who = "assistant" /\ Item("assistant", a).id = a
      /\ Item("result", a).who = "result" /\ Item("result", a).id = a
  BY DEF Item
<1>3. QED
  BY <1>1, <1>2 DEF Before, Place

\* A conversation gets its next message.
NextTalk(h, m, to) ==
  InPlace(to) /\ HasUser(to, Len(to)) /\ to \in Seq(Items) /\ \A i \in DOMAIN to : (i \in DOMAIN h /\ to[i] = h[i]) \/ to[i] = m

LEMMA TalkGoesOn ==
  ASSUME NEW h \in Seq(Items), InPlace(h), NEW m \in Items, \A i \in DOMAIN h : Before(h[i], m),
         HasUser(h, Len(h)) \/ m.who = "user",
         NEW to, to = Append(h, m)
  PROVE  NextTalk(h, m, to)
<1>1. InPlace(to)
  BY InPlaceMore
<1>2. HasUser(to, Len(to))
  BY UserStays
<1>3. to \in Seq(Items) /\ \A i \in DOMAIN to : (i \in DOMAIN h /\ to[i] = h[i]) \/ to[i] = m
  <2>1. PICK n \in Nat : n = Len(h) /\ DOMAIN h = 1..n
    OBVIOUS
  <2>2. to \in Seq(Items) /\ DOMAIN to = 1..(n + 1) /\ to[n + 1] = m /\ \A i \in 1..n : to[i] = h[i]
    BY <2>1
  <2>3. \A i \in 1..(n + 1) : i \in 1..n \/ i = n + 1
    OBVIOUS
  <2>4. QED
    BY <2>1, <2>2, <2>3
<1>4. QED
  BY <1>1, <1>2, <1>3 DEF NextTalk

\* The call that is known is the current reply's.
LEMMA CallIsCurrent ==
  ASSUME NEW rs \in Seq(Row), Regular(rs), NEW c \in DOMAIN rs, rs[c].who = "assistant", rs[c].id = turn,
         turn # Unset, NEW i \in DOMAIN rs, rs[i].call = turn
  PROVE  rs[c].call = turn
<1>1. rs[i].id = turn /\ rs[i].block = "tool"
  BY DEF Regular
<1>2. rs[i].who = "assistant"
  <2>1. rs[i] \in Row
    OBVIOUS
  <2>2. rs[i].who = "user" => rs[i].block = "none"
    BY DEF Regular, UserRow
  <2>3. QED
    BY <1>1, <2>1, <2>2, RowSides
<1>3. i \in ShownIn(rs) /\ c \in ShownIn(rs)
  BY <1>2 DEF ShownIn
<1>4. i = c
  BY <1>1, <1>2, <1>3, RowsDiffer
<1>5. QED
  BY <1>4

LEMMA ReplyEndsMirrors ==
  ASSUME PageInv, MirrorInv, PageInv', NEW stopped \in BOOLEAN, ReplyEnds(stopped)
  PROVE  MirrorInv'
<1>1. Types /\ Talks
  BY DEF PageInv, MirrorInv
<1>l. PICK l : l = [who |-> "assistant", id |-> turn, block |-> block, stopped |-> stopped]
  OBVIOUS
<1>2. /\ phase \in {"writing", "text", "calling", "called"} /\ turn' = turn /\ block' = block
      /\ ~stopped => phase \in {"text", "called"}
      /\ phase' = IF phase = "called" /\ ~stopped THEN "tool" ELSE "over"
  BY DEF ReplyEnds
<1>h. PICK h : h = history
  OBVIOUS
<1>v. PICK v : v = Append(h, l)
  OBVIOUS
<1>3. history' = v
  BY <1>2, <1>l, <1>h, <1>v, ReplyThen DEF ReplyEnds
<1>g. PICK pg : pg = EndAssistantMessage(ApplyStopError(Page, stopped))
  OBVIOUS
<1>4. Prints(pg) /\ rows' = pg.rows /\ current' = pg.current /\ waiting' = pg.waiting
  BY <1>g DEF ReplyEnds, Prints, SetPage
<1>5. l \in Items /\ l.who = "assistant" /\ l.id = turn /\ l.block = block /\ l.stopped = stopped
      /\ turn \in PromptIds /\ turn # Unset /\ block \in Blocks
  <2>1. block \in Blocks /\ turn \in PromptIds
    BY <1>1, NewMessages DEF Types
  <2>2. turn # Unset
    BY <2>1, PageAssumption DEF PromptIds
  <2>3. QED
    BY <1>1, <1>l, <2>1, <2>2, ReplyOf
<1>6. Talks'
  <2>1. h \in Seq(Items) /\ InPlace(h) /\ HasUser(h, Len(h)) /\ \A i \in DOMAIN h : Before(h[i], Item("assistant", turn))
    BY <1>1, <1>2, <1>h DEF Talks, Types
  <2>2. Item("assistant", turn).who = l.who /\ Item("assistant", turn).id = l.id
    BY <1>5 DEF Item
  <2>3. \A i \in DOMAIN h : Before(h[i], l)
    BY <2>1, <2>2 DEF Before
  <2>4. InPlace(v) /\ HasUser(v, Len(v)) /\ \A i \in DOMAIN v : (i \in DOMAIN h /\ v[i] = h[i]) \/ v[i] = l
    <3>1. h \in Seq(Items) /\ InPlace(h) /\ HasUser(h, Len(h)) /\ l \in Items
      BY <1>5, <2>1
    <3>2. NextTalk(h, l, v)
      BY <1>v, <2>3, <3>1, TalkGoesOn
    <3>3. QED
      BY <3>2 DEF NextTalk
  <2>5. \A i \in DOMAIN h : h[i] \in Items
    BY <2>1
  <2>6. \A i \in DOMAIN v : Before(v[i], Item("result", turn))
    BY <1>5, <2>1, <2>4, <2>5, BeforeResult
  <2>7. phase' = "tool" => block = "tool"
    BY <1>1, <1>2 DEF Talks
  <2>8. InPlace(history)' /\ HasUser(history, Len(history))'
    BY <1>3, <2>4 DEF InPlace, HasUser
  <2>9. \A i \in DOMAIN history' : Before(history'[i], Item("result", turn)')
    <3>1. Item("result", turn)' = Item("result", turn)
      BY <1>2 DEF Item
    <3>2. QED
      BY <1>3, <2>6, <3>1
  <2>10. phase' \in {"tool", "over"} /\ block' = block
    BY <1>2
  <2>11. QED
    BY <2>7, <2>8, <2>9, <2>10 DEF Talks
<1>7. ASSUME Live PROVE Live'
  <2>1. PICK n, w, m, c, r, B : WritesRow(h, n, w, m, c, r, B) /\ c = current /\ B = Calling
    BY <1>1, <1>2, <1>7, <1>h, WritingNow DEF Writing
  <2>2. /\ r \in Row /\ r = rows[c] /\ c # 0 /\ Kept(r) /\ r.block = block /\ c \in DOMAIN rows
        /\ r.state = (IF turn \in B THEN "running" ELSE "still") /\ r.who = "assistant" /\ r.id = turn
    BY <2>1 DEF WritesRow
  <2>C. PICK C : C = IF phase = "called" /\ ~stopped THEN {turn} ELSE {}
    OBVIOUS
  <2>3. /\ turn \in B => phase \in {"calling", "called"}
        /\ phase \in {"calling", "called"} => turn \in B /\ block = "tool"
        /\ phase \in {"writing", "text"} => block # "tool"
    BY <1>1, <1>2, <2>1 DEF Calling, Talks
  <2>p. PICK p : p = Page
    OBVIOUS
  <2>4. Fit(p) /\ p.rows = rows /\ p.current = c /\ p.waiting = 0 /\ rows \in Seq(Row)
    BY <1>1, <1>7, <2>1, <2>p, PageFits DEF Live
  <2>5. \E x : /\ Alike(r, x) /\ x.block = r.block /\ x.call = r.call
               /\ x.state = (IF turn \in C THEN "running" ELSE IF block = "tool" THEN "done" ELSE "still")
               /\ ApplyStopError(p, stopped).rows = [rows EXCEPT ![c] = x]
               /\ ApplyStopError(p, stopped).waiting = 0
    <3>1. CASE stopped /\ block = "tool"
      <4>1. PICK x : Alike(r, x) /\ x.block = r.block /\ x.call = r.call /\ x.state = "done"
        BY <2>2, SideIsThere
      <4>2. c \in DOMAIN p.rows /\ r = p.rows[c]
        BY <2>2, <2>4
      <4>3. [p EXCEPT !.rows[c].state = x.state] = With(p, c, x)
        BY <2>4, <4>1, <4>2, RowFilled
      <4>4. ApplyStopError(p, stopped) = With(p, c, x)
        BY <2>2, <2>4, <3>1, <4>1, <4>2, <4>3 DEF ApplyStopError
      <4>5. /\ ApplyStopError(p, stopped).rows = [rows EXCEPT ![c] = x]
            /\ ApplyStopError(p, stopped).waiting = 0
        BY <2>4, <4>4 DEF With
      <4>6. turn \notin C
        BY <2>C, <3>1
      <4>7. QED
        BY <3>1, <4>1, <4>5, <4>6
    <3>2. CASE ~(stopped /\ block = "tool")
      <4>1. ApplyStopError(p, stopped) = p
        BY <2>2, <2>4, <3>2 DEF ApplyStopError
      <4>2. rows = [rows EXCEPT ![c] = r]
        BY <2>2, <2>4
      <4>3. r.state = IF turn \in C THEN "running" ELSE IF block = "tool" THEN "done" ELSE "still"
        BY <1>2, <2>2, <2>3, <2>C, <3>2
      <4>4. Alike(r, r)
        BY <2>2 DEF Alike
      <4>5. QED
        BY <2>4, <4>1, <4>2, <4>3, <4>4
    <3>3. QED
      BY <3>1, <3>2
  <2>6. PICK x : /\ Alike(r, x) /\ x.block = r.block /\ x.call = r.call
                 /\ x.state = (IF turn \in C THEN "running" ELSE IF block = "tool" THEN "done" ELSE "still")
                 /\ ApplyStopError(p, stopped).rows = [rows EXCEPT ![c] = x]
                 /\ ApplyStopError(p, stopped).waiting = 0
    BY <2>5
  <2>7. Kept(x)
    BY <2>2, <2>6 DEF Kept, Alike
  <2>8. rows' = [rows EXCEPT ![c] = x] /\ current' = 0 /\ waiting' = 0
    <3>a. PICK at : at = ApplyStopError(p, stopped)
      OBVIOUS
    <3>1. Fit(at)
      BY <2>4, <3>a, StopErrorApplied DEF Into
    <3>2. pg.rows = at.rows /\ pg.current = 0 /\ pg.waiting = at.waiting
      BY <1>g, <2>p, <3>a, <3>1 DEF EndAssistantMessage, Fit
    <3>3. QED
      BY <1>4, <2>6, <3>a, <3>2
  <2>9. ~Writing' /\ Written' = v /\ Calling' = C
    BY <1>2, <1>3, <2>C DEF Writing, Written, Calling
  <2>10. phase' \in {"called", "tool", "running"} => x.call = turn
    <3>1. ASSUME phase = "called" PROVE r.call = turn
      <4>1. PICK i \in DOMAIN rows : rows[i].call = turn
        BY <1>7, <3>1 DEF Live
      <4>2. Regular(rows)
        BY <1>7 DEF Live, Showing
      <4>3. QED
        BY <1>5, <2>2, <2>4, <4>1, <4>2, CallIsCurrent
    <3>2. phase' \in {"called", "tool", "running"} => phase = "called"
      BY <1>2
    <3>3. QED
      BY <2>6, <3>1, <3>2
  <2>11. C \subseteq {turn} /\ (block = "tool" => turn \in C \/ stopped)
    BY <1>2, <2>3, <2>C
  <2>12. x.block = block
    BY <2>2, <2>6
  <2>13. Alike(r, x) /\ x.state = (IF turn \in C THEN "running" ELSE IF block = "tool" THEN "done" ELSE "still")
    BY <2>6
  <2>14. WritesRow(h, n, w, m, c, r, B) /\ Types /\ block \in Blocks
    BY <1>1, <1>5, <2>1
  <2>15. turn' = turn /\ current' = IF Writing' THEN c ELSE 0
    BY <1>2, <2>8, <2>9
  <2>16. Written' = v /\ Calling' = C
    BY <2>9
  <2>17. rows' = [rows EXCEPT ![c] = x] /\ waiting' = 0
    BY <2>8
  <2>18. QED
    BY <1>l, <1>v, <2>7, <2>10, <2>11, <2>12, <2>13, <2>14, <2>15, <2>16, <2>17, LiveGoesOn
<1>8. QED
  BY <1>2, <1>3, <1>4, <1>5, <1>6, <1>7, <1>h, <1>v, PrintsMirrors

\* The row of the call that runs.
RunsRow(f, r, B) ==
  /\ f = FindToolBlock(Page, turn) /\ f # 0 /\ f \in DOMAIN rows /\ r = rows[f] /\ r \in Row
  /\ r.call = turn /\ r.id = turn /\ r.who = "assistant" /\ r.block = "tool" /\ r.state = "running"
  /\ B = {turn} /\ Showing(rows, history, Len(history), B)

LEMMA RunningNow ==
  ASSUME PageInv, Talks, Live, phase \in {"tool", "running"}
  PROVE  \E f, r, B : RunsRow(f, r, B)
<1>1. Types /\ turn \in PromptIds
  BY NewMessages DEF PageInv
<1>B. PICK B : B = {turn}
  OBVIOUS
<1>f. PICK f : f = FindToolBlock(Page, turn)
  OBVIOUS
<1>r. PICK r : r = rows[f]
  OBVIOUS
<1>2. Showing(rows, history, Len(history), B)
  BY <1>B DEF Live, Written, Writing, Calling
<1>3. \E i \in DOMAIN rows : rows[i].call = turn
  BY DEF Live
<1>4. f # 0 /\ f \in DOMAIN rows /\ r.call = turn /\ r.id = turn /\ r.who = "assistant" /\ r.block = "tool"
  <2>p. PICK p : p = Page
    OBVIOUS
  <2>1. Fit(p) /\ p.rows = rows /\ Regular(p.rows)
    BY <1>1, <1>2, <2>p, PageFits DEF Showing
  <2>2. FindToolBlock(p, turn) # 0 /\ FindToolBlock(p, turn) \in DOMAIN p.rows
        /\ p.rows[FindToolBlock(p, turn)].call = turn
        /\ \A i \in DOMAIN p.rows : p.rows[i].call = turn =>
              p.rows[i].id = turn /\ p.rows[i].who = "assistant" /\ p.rows[i].block = "tool"
    BY <1>1, <1>3, <2>1, ToolBlockOf
  <2>3. QED
    BY <1>f, <1>r, <2>1, <2>2, <2>p
<1>5. r \in Row
  BY <1>2, <1>4, <1>r DEF Showing
<1>6. r.state = "running"
  <2>h. PICK h : h = history
    OBVIOUS
  <2>n. PICK n : n = Len(h)
    OBVIOUS
  <2>o. PICK rs : rs = rows
    OBVIOUS
  <2>1. rs \in Seq(Row) /\ h \in Seq(Items) /\ n \in 0..Len(h) /\ FacesIn(rs) = Faces(h, n, B) /\ f \in ShownIn(rs)
    BY <1>1, <1>2, <1>4, <1>r, <2>h, <2>n, <2>o DEF Showing, ShownIn, Types
  <2>2. PICK k \in SaidIn(h, n) : /\ h[k].who = rs[f].who /\ h[k].id = rs[f].id
                                  /\ Face(rs[f]) = FaceOf(h, n, B, h[k])
    BY <2>1, RowShowsMessage
  <2>m. PICK m : m = h[k]
    OBVIOUS
  <2>3. m \in Items /\ m.who = "assistant" /\ m.id = turn
    BY <1>4, <1>r, <2>1, <2>2, <2>m, <2>o DEF SaidIn
  <2>g. PICK g : g = FaceOf(h, n, B, m)
    OBVIOUS
  <2>4. g.state = "running"
    BY <1>B, <2>3, <2>g, FaceOfSides
  <2>5. Face(r) = g
    BY <1>r, <2>2, <2>m, <2>g, <2>o
  <2>6. QED
    BY <1>5, <2>4, <2>5, RowSides
<1>7. RunsRow(f, r, B)
  BY <1>B, <1>f, <1>r, <1>2, <1>4, <1>5, <1>6 DEF RunsRow
<1>8. QED
  BY <1>7

LEMMA RunsToolMirrors ==
  ASSUME PageInv, MirrorInv, PageInv', RunsTool
  PROVE  MirrorInv'
<1>1. Types /\ Talks
  BY DEF PageInv, MirrorInv
<1>2. /\ phase = "tool" /\ phase' = "running" /\ turn' = turn /\ block' = block /\ history' = history
  BY DEF RunsTool
<1>g. PICK pg : pg = StartToolExecution(Page, turn)
  OBVIOUS
<1>3. Prints(pg) /\ rows' = pg.rows /\ current' = pg.current /\ waiting' = pg.waiting
  BY <1>g DEF RunsTool, Prints, SetPage
<1>4. Talks'
  BY <1>1, <1>2 DEF Talks, Item, HasUser, InPlace
<1>5. ASSUME Live PROVE Live'
  <2>1. PICK f, r, B : RunsRow(f, r, B)
    BY <1>1, <1>2, <1>5, RunningNow
  <2>2. /\ f = FindToolBlock(Page, turn) /\ f # 0 /\ f \in DOMAIN rows /\ r = rows[f] /\ r \in Row
        /\ r.state = "running" /\ r.call = turn
    BY <2>1 DEF RunsRow
  <2>p. PICK p : p = Page
    OBVIOUS
  <2>3. Fit(p) /\ p.rows = rows /\ p.current = 0 /\ p.waiting = 0 /\ rows \in Seq(Row)
    BY <1>1, <1>2, <1>5, <2>p, PageFits DEF Live, Writing
  <2>4. Alike(r, r) /\ f \in DOMAIN p.rows /\ r = p.rows[f]
    BY <2>2, <2>3 DEF Alike
  <2>5. [p EXCEPT !.rows[f].state = r.state] = With(p, f, r)
    BY <2>3, <2>4, RowFilled
  <2>6. pg = With(p, f, r)
    BY <1>g, <2>2, <2>p, <2>5 DEF StartToolExecution
  <2>7. [rows EXCEPT ![f] = r] = rows
    BY <2>2, <2>3
  <2>8. rows' = rows /\ current' = 0 /\ waiting' = 0
    BY <1>3, <2>3, <2>6, <2>7 DEF With
  <2>9. ~Writing' /\ Written' = history /\ Calling' = B
    BY <1>2, <2>1 DEF Writing, Written, Calling, RunsRow
  <2>n. PICK n : n = Len(history)
    OBVIOUS
  <2>10. Showing(rows, history, n, B)
    BY <2>1, <2>n DEF RunsRow
  <2>11. \E i \in DOMAIN rows : rows[i].call = turn'
    BY <1>2, <2>2
  <2>12. QED
    BY <2>n, <2>8, <2>9, <2>10, <2>11, LivesOn
<1>6. QED
  BY <1>2, <1>3, <1>4, <1>5, PrintsMirrors

LEMMA ToolEndsMirrors ==
  ASSUME PageInv, MirrorInv, PageInv', ToolEnds
  PROVE  MirrorInv'
<1>1. Types /\ Talks
  BY DEF PageInv, MirrorInv
<1>l. PICK l : l = Item("result", turn)
  OBVIOUS
<1>h. PICK h : h = history
  OBVIOUS
<1>v. PICK v : v = Append(h, l)
  OBVIOUS
<1>2. /\ phase = "running" /\ phase' = "over" /\ turn' = turn /\ block' = block /\ history' = v
  BY <1>l, <1>h, <1>v DEF ToolEnds
<1>g. PICK pg : pg = EndToolExecution(Page, turn)
  OBVIOUS
<1>3. Prints(pg) /\ rows' = pg.rows /\ current' = pg.current /\ waiting' = pg.waiting
  BY <1>g DEF ToolEnds, Prints, SetPage
<1>4. /\ h \in Seq(Items) /\ l \in Items /\ l.who = "result" /\ l.id = turn /\ turn \in PromptIds
      /\ InPlace(h) /\ HasUser(h, Len(h)) /\ \A i \in DOMAIN h : Before(h[i], l)
  BY <1>1, <1>2, <1>l, <1>h, NewMessages DEF Talks, Types
<1>5. NextTalk(h, l, v)
  BY <1>4, <1>v, TalkGoesOn
<1>6. Talks'
  <2>1. InPlace(history)' /\ HasUser(history, Len(history))'
    BY <1>2, <1>5 DEF InPlace, HasUser, NextTalk
  <2>2. QED
    BY <1>2, <2>1 DEF Talks
<1>7. ASSUME Live PROVE Live'
  <2>1. PICK f, r, B : RunsRow(f, r, B)
    BY <1>1, <1>2, <1>7, RunningNow
  <2>2. /\ f = FindToolBlock(Page, turn) /\ f # 0 /\ f \in DOMAIN rows /\ r = rows[f] /\ r \in Row /\ r.who = "assistant"
        /\ r.state = "running" /\ r.call = turn /\ r.id = turn /\ r.block = "tool" /\ B = {turn}
    BY <2>1 DEF RunsRow
  <2>3. PICK x : Alike(r, x) /\ x.block = r.block /\ x.call = r.call /\ x.state = "done"
    BY <2>2, SideIsThere
  <2>p. PICK p : p = Page
    OBVIOUS
  <2>o. PICK rs : rs = rows
    OBVIOUS
  <2>4. Fit(p) /\ p.rows = rs /\ p.current = 0 /\ p.waiting = 0 /\ rs \in Seq(Row)
    BY <1>1, <1>2, <1>7, <2>p, <2>o, PageFits DEF Live, Writing
  <2>5. f \in DOMAIN p.rows /\ r = p.rows[f]
    BY <2>2, <2>4, <2>o
  <2>6. [p EXCEPT !.rows[f].state = x.state] = With(p, f, x)
    BY <2>3, <2>4, <2>5, RowFilled
  <2>7. pg = With(p, f, x)
    BY <1>g, <2>2, <2>3, <2>p, <2>6 DEF EndToolExecution
  <2>t. PICK to : to = [rs EXCEPT ![f] = x]
    OBVIOUS
  <2>8. rows' = to /\ current' = 0 /\ waiting' = 0
    BY <1>3, <2>4, <2>7, <2>t DEF With
  <2>n. PICK n : n = Len(h)
    OBVIOUS
  <2>9. /\ v \in Seq(Items) /\ InPlace(v) /\ Len(v) = n + 1 /\ n \in 0..(Len(v) - 1) /\ n \in Nat
        /\ v[n + 1] = l /\ \A k \in 1..n : v[k] = h[k]
    <3>1. v \in Seq(Items) /\ InPlace(v)
      BY <1>5 DEF NextTalk
    <3>2. QED
      BY <1>4, <1>v, <2>n, <3>1
  <2>10. Regular(rs) /\ FacesIn(rs) = Faces(v, n, B)
    <3>1. Regular(rs) /\ FacesIn(rs) = Faces(h, n, B)
      BY <1>h, <2>1, <2>n, <2>o DEF RunsRow, Showing
    <3>a. n \in Nat /\ \A k \in 1..n : v[k] = h[k]
      BY <2>9
    <3>2. Faces(v, n, B) = Faces(h, n, B)
      BY <3>a, FacesAgree
    <3>3. QED
      BY <3>1, <3>2
  <2>D. PICK D : D = {}
    OBVIOUS
  <2>11. Showing(to, v, n + 1, D)
    <3>1. v[n + 1].who = "result" /\ v[n + 1].id = turn /\ turn \in PromptIds
      BY <1>4, <2>9
    <3>2. f \in DOMAIN rs /\ r = rs[f] /\ B \subseteq {turn}
      BY <2>2, <2>o
    <3>3. r.call = turn /\ r.id = turn /\ r.who = "assistant" /\ r.block = "tool"
      BY <2>2
    <3>4. v \in Seq(Items) /\ InPlace(v) /\ n \in 0..(Len(v) - 1)
      BY <2>9
    <3>5. Showing(to, v, n + 1, {})
      BY <2>3, <2>4, <2>10, <2>t, <3>1, <3>2, <3>3, <3>4, ResultShown
    <3>6. QED
      BY <2>D, <3>5
  <2>12. ~Writing' /\ Written' = v /\ Calling' = D
    BY <1>2, <2>D DEF Writing, Written, Calling
  <2>13. phase' \notin {"called", "tool", "running"} /\ n + 1 = Len(v)
    BY <1>2, <2>9
  <2>14. QED
    BY <2>8, <2>11, <2>12, <2>13, LivesOn
<1>8. QED
  BY <1>2, <1>3, <1>4, <1>6, <1>7, <1>h, <1>v, PrintsMirrors

--------------------------------------------------------------------------------
\* Prompts become messages

\* The page keeps up with pi between two replies.
CaughtUp(n, B) ==
  /\ Showing(rows, history, n, B) /\ n = Len(history) /\ B = {} /\ current = 0
  /\ waiting = 0 \/ (waiting = Len(rows) /\ waiting # 0)

LEMMA CaughtUpNow ==
  ASSUME PageInv, MirrorInv, Steady, frames = <<>>, phase \in {"idle", "over"}, phase = "idle" => Prompts # {}
  PROVE  \E n, B : CaughtUp(n, B)
<1>1. Types /\ Mirror
  BY DEF PageInv, MirrorInv
<1>B. PICK B : B = {}
  OBVIOUS
<1>n. PICK n : n = Len(history)
  OBVIOUS
<1>2. Written = history /\ Calling = B /\ ~Writing
  BY <1>B DEF Written, Writing, Calling
<1>3. CASE phase = "over"
  <2>1. Live
    BY <1>3, LiveNow
  <2>2. CaughtUp(n, B)
    BY <1>2, <1>B, <1>n, <2>1 DEF Live, CaughtUp
  <2>3. QED
    BY <2>2
<1>4. CASE phase = "idle"
  <2>1. ~Hydrating
    BY DEF Hydrating
  <2>2. PICK k \in 0..Len(Written) : UpTo(k)
    BY <1>1 DEF Mirror
  <2>3. k = n /\ FacesIn(rows) = Faces(history, n, B)
    BY <1>2, <1>n, <2>1, <2>2 DEF UpTo
  <2>4. Regular(rows) /\ current = 0
    BY <1>1, <1>2 DEF Mirror
  <2>5. rows \in Seq(Row) /\ waiting \in Int /\ waiting >= Gone
    BY <1>1, PageFits DEF Fit
  <2>6. waiting # Gone
    BY <1>1, <1>4 DEF Mirror
  <2>7. waiting = 0 \/ (waiting = Len(rows) /\ waiting # 0)
    BY <1>1, <2>5, <2>6 DEF Mirror, Gone
  <2>8. CaughtUp(n, B)
    BY <1>B, <1>n, <2>3, <2>4, <2>5, <2>7 DEF CaughtUp, Showing
  <2>9. QED
    BY <2>8
<1>5. QED
  BY <1>3, <1>4

\* The message p begins, at a new row or at the bubble that waits for it.
LEMMA BeginsLive ==
  ASSUME Types, InPlace(history), NEW p \in Typed, turn < p, \A i \in DOMAIN history : history[i].id <= turn,
         NEW n, NEW B, CaughtUp(n, B), waiting # 0 => rows[waiting].id = p,
         phase' = "asked", history' = Append(history, Item("user", p)), SetPage(UserStarts(Page, p))
  PROVE  Live'
<1>1. p \in PromptIds /\ p \in Int /\ p # Unset
  BY PageAssumption DEF Typed, PromptIds
<1>m. PICK m : m = Item("user", p)
  OBVIOUS
<1>h. PICK h : h = history
  OBVIOUS
<1>v. PICK v : v = Append(h, m)
  OBVIOUS
<1>2. m \in Items /\ m.who = "user" /\ m.id = p
  BY <1>1, <1>m, NewMessages
<1>3. Adds(h, n, v, m)
  <2>1. h \in Seq(Items) /\ InPlace(h) /\ n = Len(h) /\ turn \in Int
    BY <1>h, NewMessages DEF Types, CaughtUp
  <2>2. \A i \in DOMAIN h : h[i] \in Items
    BY <2>1
  <2>3. \A i \in DOMAIN h : h[i].id \in Int
    BY <2>2, MessageSides
  <2>4. \A i \in DOMAIN h : Before(h[i], m)
    BY <1>1, <1>2, <1>h, <2>1, <2>3 DEF Before
  <2>5. QED
    BY <1>2, <1>v, <2>1, <2>4, AddsOne
<1>r. PICK r : r = UserRow(p, p)
  OBVIOUS
<1>4. /\ r \in Row /\ r.who = "user" /\ r.id = p /\ r.ts = p /\ r.call = Unset /\ r = UserRow(r.id, r.ts)
      /\ r = UserRow(m.id, m.id) /\ r.ts # Unset
  BY <1>1, <1>2, <1>r DEF UserRow, Row, Blocks
<1>pg. PICK pg : pg = Page
  OBVIOUS
<1>o. PICK rs : rs = rows
  OBVIOUS
<1>w. PICK w : w = waiting
  OBVIOUS
<1>5. Fit(pg) /\ pg = [rows |-> rs, current |-> 0, waiting |-> w] /\ rs \in Seq(Row)
  BY <1>pg, <1>o, <1>w, PageFits DEF Page, CaughtUp, Types
<1>6. Showing(rs, h, n, B) /\ (w = 0 \/ (w = Len(rs) /\ w # 0 /\ rs[w].id = p)) /\ n = Len(h)
  BY <1>h, <1>o, <1>w DEF CaughtUp
<1>t. PICK to : to = UserStarts(pg, p)
  OBVIOUS
<1>7. rows' = to.rows /\ current' = to.current /\ waiting' = to.waiting
  BY <1>pg, <1>t DEF SetPage
<1>8. Showing(to.rows, v, n + 1, B) /\ to.current = 0 /\ to.waiting = 0
  <2>1. CASE w = 0
    <3>0. pg.waiting = 0
      BY <1>5, <2>1
    <3>1. to = AddUserMessage(pg, p, p)
      BY <1>t, <3>0 DEF UserStarts, Gone
    <3>2. to.rows = Append(rs, r) /\ to.current = 0 /\ to.waiting = 0
      BY <1>1, <1>5, <1>r, <3>1 DEF AddUserMessage
    <3>f. PICK f : f = FaceOf(v, n + 1, B, m)
      OBVIOUS
    <3>3. Face(r) = f
      <4>1. f = UserRow(p, p)
        BY <1>2, <3>f DEF FaceOf
      <4>2. Face(r) = UserRow(p, p)
        BY <1>r DEF Face, UserRow
      <4>3. QED
        BY <4>1, <4>2
    <3>a. PICK a : a = Append(rs, r)
      OBVIOUS
    <3>4. Kept(r) /\ m.who # "result" /\ r.who = m.who /\ r.id = m.id
      BY <1>2, <1>4 DEF Kept
    <3>5. Showing(a, v, n + 1, B)
      BY <1>3, <1>4, <1>6, <3>3, <3>f, <3>a, <3>4, AppendShown
    <3>6. QED
      BY <3>2, <3>5, <3>a
  <2>2. CASE w # 0
    <3>1. w = Len(rs) /\ rs[w].id = p /\ w \in DOMAIN rs /\ w # 0 /\ w > 0 /\ w \in Int
      BY <1>5, <1>6, <2>2
    <3>2. rs[w].who = "user" /\ rs[w].ts = Unset
      BY <1>5, <3>1 DEF Fit
    <3>3. rs[w] = UserRow(p, Unset)
      BY <1>6, <3>1, <3>2 DEF Showing, Regular
    <3>4. to = [pg EXCEPT !.rows[w].ts = p, !.waiting = 0]
      BY <1>5, <1>t, <3>1 DEF UserStarts, Gone
    <3>5. to.rows = [rs EXCEPT ![w].ts = p] /\ to.current = 0 /\ to.waiting = 0
      BY <1>5, <3>4
    <3>x. PICK x : x = rs[w]
      OBVIOUS
    <3>6. [x EXCEPT !.ts = p] = r
      BY <1>r, <3>3, <3>x DEF UserRow
    <3>7. [rs EXCEPT ![w].ts = p] = [rs EXCEPT ![w] = r]
      BY <3>6, <3>x
    <3>a. PICK a : a = [rs EXCEPT ![w] = r]
      OBVIOUS
    <3>8. Showing(a, v, n + 1, B)
      <4>1. w = Len(rs) /\ w # 0 /\ Showing(rs, h, n, B)
        BY <1>6, <3>1
      <4>2. r \in Row /\ r = UserRow(m.id, m.id) /\ r.ts # Unset
        BY <1>4
      <4>3. QED
        BY <1>2, <1>3, <3>2, <3>a, <4>1, <4>2, StampShown
    <3>9. QED
      BY <3>5, <3>7, <3>8, <3>a
  <2>3. QED
    BY <2>1, <2>2
<1>9. ~Writing' /\ Written' = v /\ Calling' = B
  BY <1>h, <1>m, <1>v DEF Writing, Written, Calling, CaughtUp
<1>10. n + 1 = Len(v) /\ phase' \notin {"called", "tool", "running"}
  BY <1>3 DEF Adds
<1>z. PICK z : z = to.rows
  OBVIOUS
<1>11. QED
  BY <1>7, <1>8, <1>9, <1>10, <1>z, LivesOn

LEMMA BeginsMirrors ==
  ASSUME PageInv, MirrorInv, PageInv', NEW p \in Typed, BeginsMessage(p), turn < p,
         phase \in {"idle", "over"}, phase = "idle" => Prompts # {},
         Steady /\ phase = "idle" /\ waiting > 0 => rows[waiting].id = p
  PROVE  MirrorInv'
<1>1. Types /\ Talks /\ OneFrame /\ Numbers
  BY DEF PageInv, MirrorInv
<1>m. PICK m : m = Item("user", p)
  OBVIOUS
<1>h. PICK h : h = history
  OBVIOUS
<1>v. PICK v : v = Append(h, m)
  OBVIOUS
<1>2. /\ turn' = p /\ phase' = "asked" /\ block' = "none" /\ history' = v /\ SetPage(UserStarts(Page, p))
      /\ upset' = upset \cup Overlap /\ frames' = frames /\ asked' = asked /\ held' = held
  BY <1>m, <1>h, <1>v DEF BeginsMessage
<1>3. p \in PromptIds /\ p \in Int /\ turn \in Int /\ \A i \in DOMAIN h : history[i].id <= turn
  BY <1>1, <1>h, NewMessages DEF Typed, PromptIds, Numbers
<1>4. m \in Items /\ m.who = "user" /\ m.id = p
  BY <1>1, <1>3, <1>m, NewMessages
<1>5. h \in Seq(Items) /\ InPlace(h) /\ \A i \in DOMAIN h : h[i].id < p
  <2>1. h \in Seq(Items) /\ InPlace(h)
    BY <1>1, <1>h DEF Talks, Types
  <2>2. \A i \in DOMAIN h : h[i] \in Items
    BY <2>1
  <2>3. \A i \in DOMAIN h : h[i].id \in Int
    BY <2>2, MessageSides
  <2>4. QED
    BY <1>3, <1>h, <2>1, <2>3
<1>6. NextTalk(h, m, v)
  <2>1. \A i \in DOMAIN h : Before(h[i], m)
    BY <1>4, <1>5 DEF Before
  <2>2. QED
    BY <1>4, <1>5, <1>v, <2>1, TalkGoesOn
<1>7. Talks'
  <2>1. InPlace(history)' /\ HasUser(history, Len(history))'
    BY <1>2, <1>6 DEF InPlace, HasUser, NextTalk
  <2>2. \A i \in DOMAIN v : Before(v[i], Item("assistant", p))
    <3>1. \A i \in DOMAIN v : (i \in DOMAIN h /\ v[i] = h[i]) \/ v[i] = m
      BY <1>6 DEF NextTalk
    <3>2. Item("assistant", p).who = "assistant" /\ Item("assistant", p).id = p
      BY DEF Item
    <3>3. QED
      BY <1>3, <1>4, <1>5, <3>1, <3>2 DEF Before, Place
  <2>3. \A i \in DOMAIN history' : Before(history'[i], Item("assistant", turn)')
    <3>1. Item("assistant", turn)' = Item("assistant", p)
      BY <1>2 DEF Item
    <3>2. QED
      BY <1>2, <2>2, <3>1
  <2>4. QED
    BY <1>2, <2>1, <2>3 DEF Talks
<1>8. OneFrame'
  BY <1>1, <1>2, FrameStays
<1>9. Mirror'
  <2>1. CASE ~Steady'
    BY <2>1 DEF Mirror
  <2>2. CASE Steady'
    <3>1. upset \subseteq upset' /\ Overlap \subseteq upset'
      BY <1>2
    <3>2. Steady
      BY <1>2, <2>2, <3>1, SteadyBefore
    <3>3. frames = <<>> /\ frames' = <<>>
      BY <1>2, <2>2, <3>1 DEF Steady, Overlap
    <3>4. PICK n, B : CaughtUp(n, B)
      BY <3>2, <3>3, CaughtUpNow
    <3>5. waiting # 0 => rows[waiting].id = p
      <4>1. CASE phase = "idle"
        <5>1. waiting # 0 => waiting > 0
          BY <1>1, <3>4, PageFits DEF CaughtUp
        <5>2. QED
          BY <3>2, <4>1, <5>1
      <4>2. CASE phase = "over"
        <5>1. Live
          BY <3>2, <4>2, LiveNow
        <5>2. QED
          BY <5>1 DEF Live
      <4>3. QED
        BY <4>1, <4>2
    <3>6. Live'
      <4>1. history' = Append(history, Item("user", p)) /\ InPlace(history)
        BY <1>1, <1>2, <1>m, <1>h, <1>v DEF Talks
      <4>2. \A i \in DOMAIN history : history[i].id <= turn
        BY <1>1 DEF Numbers
      <4>3. QED
        BY <1>1, <1>2, <3>4, <3>5, <4>1, <4>2, BeginsLive
    <3>7. (Len(Written) \in Nat)'
      <4>1. Types'
        BY DEF PageInv
      <4>2. QED
        BY <4>1, WrittenHas, PTL
    <3>8. QED
      BY <3>3, <3>6, <3>7, LiveThen
  <2>3. QED
    BY <2>1, <2>2
<1>10. QED
  BY <1>7, <1>8, <1>9 DEF MirrorInv

\* A step that changes neither the page nor what pi says.
LEMMA MirrorStays ==
  ASSUME PageInv, MirrorInv,
         rows' = rows, current' = current, waiting' = waiting, frames' = frames, hydrationId' = hydrationId,
         history' = history, phase' = phase, turn' = turn, block' = block,
         Steady' => Steady,
         Steady' /\ waiting = Gone => Prompts' = {} /\ (streaming' => HasUser(history, Len(history))),
         Steady' /\ Hydrating => sent' = <<>>
  PROVE  MirrorInv'
<1>1. Talks /\ OneFrame /\ Mirror
  BY DEF MirrorInv
<1>2. Talks'
  BY <1>1 DEF Talks, InPlace, HasUser, Item
<1>3. OneFrame'
  BY <1>1, FrameStays
<1>4. ASSUME Steady' PROVE /\ (Regular(rows))'
        /\ (IF Writing THEN current # 0 /\ rows[current].id = turn ELSE current = 0)'
        /\ (phase \in {"called", "tool", "running"} => \E i \in DOMAIN rows : rows[i].call = turn)'
        /\ (waiting > 0 => waiting = Len(rows))'
        /\ (waiting = Gone => phase = "idle" /\ Prompts = {} /\ (streaming => HasUser(history, Len(history))))'
        /\ (Hydrating => /\ phase = "idle" /\ sent = <<>> /\ waiting <= 0
                    /\ \A i \in DOMAIN rows : rows[i].block = "tool" => rows[i].call # Unset)'
        /\ (\E n \in 0..Len(Written) : UpTo(n))'
  <2>1. Steady
    BY <1>4
  <2>2. Regular(rows)'
    BY <1>1, <2>1 DEF Mirror, Regular, ShownIn
  <2>3. Hydrating' <=> Hydrating
    BY DEF Hydrating
  <2>4. (waiting = Gone => phase = "idle" /\ Prompts = {} /\ (streaming => HasUser(history, Len(history))))'
    BY <1>1, <1>4, <2>1 DEF Mirror, HasUser
  <2>5. (\E n \in 0..Len(Written) : UpTo(n))'
    <3>1. PICK n \in 0..Len(Written) : UpTo(n)
      BY <1>1, <2>1 DEF Mirror
    <3>2. Written' = Written /\ Calling' = Calling
      BY DEF Written, Writing, Calling, Reply, Item
    <3>3. UpTo(n)'
      <4>1. FacesIn(rows)' = FacesIn(rows)
        BY DEF FacesIn, ShownIn
      <4>2. Faces(Written, n, Calling)' = Faces(Written, n, Calling)
        BY <3>2 DEF Faces, FaceOf, SaidIn, Outcome
      <4>3. HasUser(Written, n)' <=> HasUser(Written, n)
        BY <3>2 DEF HasUser
      <4>4. QED
        BY <2>3, <3>1, <3>2, <4>1, <4>2, <4>3 DEF UpTo
    <3>4. QED
      BY <3>2, <3>3
  <2>6. (IF Writing THEN current # 0 /\ rows[current].id = turn ELSE current = 0)'
    BY <1>1, <2>1 DEF Mirror, Writing
  <2>7. (phase \in {"called", "tool", "running"} => \E i \in DOMAIN rows : rows[i].call = turn)'
    BY <1>1, <2>1 DEF Mirror
  <2>8. QED
    BY <1>1, <1>4, <2>1, <2>2, <2>3, <2>4, <2>5, <2>6, <2>7 DEF Mirror
<1>5. Mirror'
  BY <1>4 DEF Mirror
<1>6. QED
  BY <1>2, <1>3, <1>5 DEF MirrorInv

\* What pi takes, and errors, change nothing that is shown.
LEMMA OtherErrorMirrors ==
  ASSUME PageInv, MirrorInv, OtherError
  PROVE  MirrorInv'
<1>1. Types /\ Mirror
  BY DEF PageInv, MirrorInv
<1>2. /\ rows' = rows /\ current' = current /\ waiting' = waiting /\ frames' = frames /\ hydrationId' = hydrationId
      /\ asked' = asked /\ held' = held /\ history' = history /\ phase' = phase /\ turn' = turn /\ block' = block
      /\ sent' = sent /\ streaming' = FALSE
      /\ upset' = IF phase = "idle" /\ sent = <<>> THEN upset ELSE upset \cup {"error"}
  BY DEF OtherError, Error, ErrorCause, wayVars, turnVars
<1>3. Steady' => Steady /\ phase = "idle" /\ sent = <<>>
  <2>1. Steady' => Steady
    BY <1>2, SteadyBefore
  <2>2. QED
    BY <1>2, <2>1 DEF Steady
<1>4. Prompts' = Prompts
  BY <1>2 DEF Prompts
<1>5. Steady' /\ waiting = Gone => Prompts' = {} /\ (streaming' => HasUser(history, Len(history)))
  BY <1>1, <1>2, <1>3, <1>4 DEF Mirror
<1>6. QED
  BY <1>2, <1>3, <1>5, MirrorStays

LEMMA TakesPromptMirrors ==
  ASSUME PageInv, MirrorInv, PageInv', TakesPrompt
  PROVE  MirrorInv'
<1>1. Types /\ Numbers /\ Times /\ Mirror
  BY DEF PageInv, MirrorInv
<1>2. sent # <<>> /\ sent' = Tail(sent)
  BY DEF TakesPrompt
<1>3. /\ sent' \in Seq(Sent) /\ Head(sent) = sent[1] /\ 1 \in DOMAIN sent /\ Head(sent) \in Sent
      /\ turn < Head(sent).id /\ Head(sent).id <= typed
      /\ \A i \in DOMAIN sent' : i + 1 \in DOMAIN sent /\ sent'[i] = sent[i + 1]
      /\ DOMAIN sent \subseteq Nat \ {0} /\ DOMAIN sent' \subseteq Nat \ {0}
  BY <1>1, <1>2, SentIsTaken
<1>p. PICK p : p = Head(sent)
  OBVIOUS
<1>4. p \in Sent /\ p.id \in Typed
  BY <1>3, <1>p DEF Sent
<1>5. Prompts = {} => Prompts' = {}
  BY <1>3 DEF Prompts
<1>6. Steady => ~Hydrating
  BY <1>1, <1>2 DEF Mirror
<1>7. CASE p.kind # "prompt"
  <2>1. UNCHANGED <<pageVars, turnVars, asked, held, bounds, upset>>
    BY <1>7, <1>p DEF TakesPrompt
  <2>2. /\ rows' = rows /\ current' = current /\ waiting' = waiting
        /\ frames' = frames /\ hydrationId' = hydrationId /\ streaming' = streaming
        /\ asked' = asked /\ held' = held /\ phase' = phase /\ turn' = turn /\ block' = block
        /\ history' = history /\ upset' = upset
    BY <2>1 DEF pageVars, turnVars
  <2>3. Steady' => Steady
    BY <2>2, SteadyBefore
  <2>4. Steady' /\ waiting = Gone => Prompts' = {} /\ (streaming' => HasUser(history, Len(history)))
    BY <1>1, <1>5, <2>2, <2>3 DEF Mirror
  <2>5. QED
    BY <1>6, <2>2, <2>3, <2>4, MirrorStays
<1>8. CASE p.kind = "prompt" /\ phase = "idle"
  <2>1. BeginsMessage(p.id)
    BY <1>8, <1>p DEF TakesPrompt
  <2>2. 1 \in Prompts /\ Prompts \subseteq Nat \ {0}
    BY <1>3, <1>8, <1>p DEF Prompts
  <2>3. Steady /\ phase = "idle" /\ waiting > 0 => rows[waiting].id = p.id
    <3>1. Steady => upset \cap {"error", "command", "crossed"} = {}
      BY DEF Steady
    <3>2. BubbleIsNext /\ waiting > 0 => \E i \in Prompts : i <= 1 /\ sent[i].id = rows[waiting].id
      BY <2>2 DEF BubbleIsNext
    <3>3. BubbleIsNext /\ waiting > 0 => rows[waiting].id = p.id
      BY <1>3, <1>p, <2>2, <3>2
    <3>4. QED
      BY <1>1, <3>1, <3>3 DEF Times
  <2>4. turn < p.id
    BY <1>3, <1>p
  <2>q. PICK q : q = p.id
    OBVIOUS
  <2>5. q \in Typed /\ BeginsMessage(q) /\ turn < q /\ (Steady /\ phase = "idle" /\ waiting > 0 => rows[waiting].id = q)
    BY <1>4, <2>1, <2>3, <2>4, <2>q
  <2>6. QED
    BY <1>8, <2>2, <2>5, BeginsMirrors
<1>9. CASE p.kind = "prompt" /\ phase # "idle" /\ p.steers
  <2>1. UNCHANGED <<pageVars, phase, turn, block, history, past, asked, held, bounds, upset>>
    BY <1>9, <1>p DEF TakesPrompt
  <2>2. /\ rows' = rows /\ current' = current /\ waiting' = waiting
        /\ frames' = frames /\ hydrationId' = hydrationId /\ streaming' = streaming
        /\ asked' = asked /\ held' = held /\ phase' = phase /\ turn' = turn /\ block' = block
        /\ history' = history /\ upset' = upset
    BY <2>1 DEF pageVars
  <2>3. Steady' => Steady
    BY <2>2, SteadyBefore
  <2>4. Steady' /\ waiting = Gone => Prompts' = {} /\ (streaming' => HasUser(history, Len(history)))
    BY <1>1, <1>5, <2>2, <2>3 DEF Mirror
  <2>5. QED
    BY <1>6, <2>2, <2>3, <2>4, MirrorStays
<1>10. CASE p.kind = "prompt" /\ phase # "idle" /\ ~p.steers
  <2>1. Error /\ UNCHANGED <<asked, held, turnVars, bounds>>
    BY <1>10, <1>p DEF TakesPrompt
  <2>2. /\ rows' = rows /\ current' = current /\ waiting' = waiting
        /\ frames' = frames /\ hydrationId' = hydrationId
        /\ asked' = asked /\ held' = held /\ phase' = phase /\ turn' = turn /\ block' = block
        /\ history' = history /\ "error" \in upset'
    BY <1>10, <2>1 DEF Error, ErrorCause, turnVars
  <2>3. ~Steady'
    BY <2>2 DEF Steady
  <2>4. QED
    BY <2>2, <2>3, MirrorStays
<1>11. QED
  BY <1>7, <1>8, <1>9, <1>10

LEMMA GoesOnMirrors ==
  ASSUME PageInv, MirrorInv, PageInv', GoesOn
  PROVE  MirrorInv'
<1>1. Types /\ Numbers /\ Mirror /\ Talks /\ OneFrame
  BY DEF PageInv, MirrorInv
<1>2. CASE queue # <<>>
  <2>p. PICK p : p = Head(queue)
    OBVIOUS
  <2>1. BeginsMessage(p) /\ phase = "over"
    BY <1>2, <2>p DEF GoesOn
  <2>2. queue \in Seq(Typed) /\ p = queue[1] /\ 1 \in DOMAIN queue
    BY <1>1, <1>2, <2>p DEF Types
  <2>3. p \in Typed /\ turn < p
    BY <1>1, <2>2 DEF Numbers
  <2>4. QED
    BY <2>1, <2>3, BeginsMirrors
<1>3. CASE queue = <<>>
  <2>1. /\ phase = "over" /\ phase' = "idle"
        /\ rows' = rows /\ current' = current /\ waiting' = waiting
        /\ frames' = frames /\ hydrationId' = hydrationId /\ sent' = sent
        /\ asked' = asked /\ held' = held /\ turn' = turn /\ block' = block
        /\ history' = history /\ upset' = upset
    BY <1>3 DEF GoesOn, wayVars
  <2>2. Talks'
    BY <1>1, <2>1 DEF Talks, InPlace
  <2>3. OneFrame'
    BY <1>1, <2>1, FrameStays
  <2>4. Mirror'
    <3>1. CASE ~Steady'
      BY <3>1 DEF Mirror
    <3>2. CASE Steady'
      <4>1. Steady
        BY <2>1, <3>2, SteadyBefore
      <4>2. Live /\ ~Hydrating
        BY <1>1, <2>1, <4>1, LiveNow DEF Mirror
      <4>n. PICK n : n = Len(history)
        OBVIOUS
      <4>B. PICK B : B = {}
        OBVIOUS
      <4>3. Showing(rows, history, n, B) /\ current = 0 /\ waiting = 0
        BY <2>1, <4>2, <4>n, <4>B DEF Live, Written, Writing, Calling
      <4>4. Written' = history /\ Calling' = B /\ ~Writing' /\ ~Hydrating'
        BY <2>1, <4>2, <4>B DEF Written, Writing, Calling, Hydrating
      <4>5. Regular(rows)' /\ FacesIn(rows)' = FacesIn(rows)
        BY <2>1, <4>3 DEF Showing, Regular, FacesIn, ShownIn
      <4>6. Faces(Written, Len(Written), Calling)' = Faces(history, n, B)
        BY <4>4, <4>n DEF Faces, FaceOf, SaidIn, Outcome
      <4>7. UpTo(Len(Written))'
        BY <2>1, <4>3, <4>4, <4>5, <4>6 DEF UpTo, Showing, Gone
      <4>8. (Len(Written) \in 0..Len(Written))'
        BY <1>1, <4>4 DEF Types
      <4>9. (\E k \in 0..Len(Written) : UpTo(k))'
        BY <4>7, <4>8
      <4>10. QED
        BY <2>1, <4>3, <4>4, <4>5, <4>9 DEF Mirror, Gone
    <3>3. QED
      BY <3>1, <3>2
  <2>5. QED
    BY <2>2, <2>3, <2>4 DEF MirrorInv
<1>4. QED
  BY <1>2, <1>3

--------------------------------------------------------------------------------
\* What is typed, and hydrations

LEMMA TypeMirrors ==
  ASSUME PageInv, MirrorInv, PageInv', NEW kind \in Kinds, Type(kind)
  PROVE  MirrorInv'
<1>1. Types /\ Talks /\ OneFrame /\ Mirror /\ Status
  BY DEF PageInv, MirrorInv
<1>2. /\ frames' = frames /\ hydrationId' = hydrationId /\ asked' = asked /\ held' = held
      /\ history' = history /\ phase' = phase /\ turn' = turn /\ block' = block
      /\ upset \subseteq upset' /\ Overlap \subseteq upset'
  BY DEF Type, turnVars
<1>3. Steady' => Steady /\ frames = <<>> /\ ~Hydrating
  <2>1. Steady' => Steady
    BY <1>2, SteadyBefore
  <2>2. QED
    BY <1>2, <2>1 DEF Steady, Overlap, Hydrating
<1>4. CASE streaming
  <2>1. rows' = rows /\ current' = current /\ waiting' = waiting
    BY <1>4 DEF Type
  <2>2. Steady' => waiting # Gone
    <3>1. SUFFICES ASSUME Steady', waiting = Gone PROVE FALSE
      OBVIOUS
    <3>2. phase = "idle" /\ HasUser(history, Len(history))
      BY <1>1, <1>3, <1>4, <3>1 DEF Mirror
    <3>3. PICK n \in 0..Len(Written) : UpTo(n)
      BY <1>1, <1>3, <3>1 DEF Mirror
    <3>4. Written = history
      BY <3>2 DEF Written, Writing
    <3>5. ~HasUser(history, Len(history))
      BY <1>3, <3>1, <3>3, <3>4 DEF UpTo
    <3>6. QED
      BY <3>2, <3>5
  <2>3. QED
    BY <1>2, <1>3, <2>1, <2>2, MirrorStays
<1>5. CASE ~streaming
  <2>p. PICK p : p = typed'
    OBVIOUS
  <2>1. SetPage(AddUserMessage(Page, p, Unset)) /\ p \in PromptIds
    <3>1. p \in Typed
      BY <1>1, <2>p, PageAssumption DEF Type, Types, Typed
    <3>2. SetPage(AddUserMessage(Page, p, Unset))
      BY <1>5, <2>p DEF Type
    <3>3. QED
      BY <3>1, <3>2, PageAssumption DEF Typed, PromptIds
  <2>r. PICK r : r = UserRow(p, Unset)
    OBVIOUS
  <2>2. r \in Row /\ r.who = "user" /\ r.ts = Unset /\ r = UserRow(r.id, r.ts)
    BY <2>1, <2>r DEF UserRow, Row, Blocks
  <2>3. rows' = Append(rows, r) /\ current' = current /\ waiting' = Len(rows) + 1
    <3>t. PICK to : to = AddUserMessage(Page, p, Unset)
      OBVIOUS
    <3>g. PICK pg : pg = Page
      OBVIOUS
    <3>1. pg = [rows |-> rows, current |-> current, waiting |-> waiting]
      BY <3>g DEF Page
    <3>2. to = [pg EXCEPT !.rows = Append(@, r), !.waiting = Len(pg.rows) + 1]
      BY <2>r, <3>t, <3>g DEF AddUserMessage
    <3>3. to.rows = Append(rows, r) /\ to.current = current /\ to.waiting = Len(rows) + 1
      BY <3>1, <3>2
    <3>4. QED
      BY <2>1, <3>t, <3>3 DEF SetPage
  <2>4. Talks'
    BY <1>1, <1>2 DEF Talks, InPlace, HasUser, Item
  <2>5. OneFrame'
    BY <1>1, <1>2, FrameStays
  <2>6. Mirror'
    <3>1. CASE ~Steady'
      BY <3>1 DEF Mirror
    <3>2. CASE Steady'
      <4>1. phase = "idle"
        BY <1>1, <1>3, <1>5, <3>2 DEF Status, TurnIsShown, Steady
      <4>n. PICK n : n = Len(history)
        OBVIOUS
      <4>B. PICK B : B = {}
        OBVIOUS
      <4>2. PICK k \in 0..Len(Written) : UpTo(k)
        BY <1>1, <1>3, <3>2 DEF Mirror
      <4>3. /\ Written = history /\ Calling = B /\ ~Writing
            /\ Written' = history /\ Calling' = B /\ ~Writing' /\ ~Hydrating'
        BY <1>2, <1>3, <3>2, <4>1, <4>B DEF Written, Calling, Writing, Hydrating
      <4>4. FacesIn(rows) = Faces(history, n, B) /\ Regular(rows) /\ current = 0 /\ rows \in Seq(Row)
        BY <1>1, <1>3, <3>2, <4>2, <4>3, <4>n, PageFits DEF UpTo, Mirror
      <4>t. PICK to : to = Append(rows, r)
        OBVIOUS
      <4>5. Regular(to) /\ FacesIn(to) = Faces(history, n, B)
        BY <2>2, <4>4, <4>t, RegularBubble
      <4>6. Regular(rows)' /\ FacesIn(rows)' = Faces(history, n, B)
        BY <2>3, <4>5, <4>t DEF Regular, FacesIn, ShownIn
      <4>7. Faces(Written, Len(Written), Calling)' = Faces(history, n, B)
        BY <4>3, <4>n DEF Faces, FaceOf, SaidIn, Outcome
      <4>8. waiting' # Gone /\ waiting' > 0 /\ waiting' = Len(rows)'
        BY <2>3, <4>4 DEF Gone
      <4>9. UpTo(Len(Written))'
        BY <4>3, <4>6, <4>7, <4>8 DEF UpTo
      <4>10. (Len(Written) \in 0..Len(Written))'
        BY <1>1, <4>3 DEF Types
      <4>11. (\E l \in 0..Len(Written) : UpTo(l))'
        BY <4>9, <4>10
      <4>12. current' = 0 /\ phase' = "idle"
        BY <1>2, <2>3, <4>1, <4>4
      <4>13. QED
        BY <4>3, <4>6, <4>8, <4>11, <4>12 DEF Mirror
    <3>3. QED
      BY <3>1, <3>2
  <2>7. QED
    BY <2>4, <2>5, <2>6 DEF MirrorInv
<1>6. QED
  BY <1>4, <1>5

\* A step after which the page may differ, from one that is done or while pi says no more.
LEMMA UnsteadyMirrors ==
  ASSUME MirrorInv, ~Steady', frames' = frames, phase' = phase, turn' = turn, block' = block,
         InPlace(history)', history' = history \/ phase = "idle"
  PROVE  MirrorInv'
<1>1. Talks /\ OneFrame
  BY DEF MirrorInv
<1>2. Mirror' /\ OneFrame'
  BY <1>1, FrameStays DEF Mirror
<1>3. Talks'
  <2>1. CASE history' = history
    BY <1>1, <2>1 DEF Talks, InPlace, HasUser, Item
  <2>2. CASE phase = "idle"
    BY <1>1, <2>2 DEF Talks
  <2>3. QED
    BY <2>1, <2>2
<1>4. QED
  BY <1>2, <1>3 DEF MirrorInv

\* Nothing changes for what is shown when messages are asked for, or a request fails.
LEMMA HydrationMirrors ==
  ASSUME PageInv, MirrorInv, Hydration
  PROVE  MirrorInv'
<1>1. Types /\ Mirror
  BY DEF PageInv, MirrorInv
<1>2. /\ rows' = rows /\ current' = current /\ waiting' = waiting /\ streaming' = streaming
      /\ frames' = frames /\ hydrationId' = hydrationId /\ sent' = sent /\ held' = held
      /\ phase' = phase /\ turn' = turn /\ block' = block /\ history' = history /\ upset' = upset
  BY DEF Hydration, pageVars, turnVars
<1>3. Steady' => Steady
  BY <1>1, <1>2, HydrationTold DEF Steady
<1>4. Steady' /\ waiting = Gone => Prompts' = {} /\ (streaming' => HasUser(history, Len(history)))
  BY <1>1, <1>2, <1>3 DEF Mirror, Prompts
<1>5. Steady' /\ Hydrating => sent' = <<>>
  BY <1>1, <1>2, <1>3 DEF Mirror
<1>6. QED
  BY <1>2, <1>3, <1>4, <1>5, MirrorStays

LEMMA MessagesFailMirrors ==
  ASSUME PageInv, MirrorInv, NEW i \in DOMAIN asked, MessagesFail(i)
  PROVE  MirrorInv'
<1>1. Types /\ Mirror
  BY DEF PageInv, MirrorInv
<1>2. /\ rows' = rows /\ current' = current /\ waiting' = waiting /\ frames' = frames /\ hydrationId' = hydrationId
      /\ sent' = sent /\ held' = held /\ history' = history /\ phase' = phase /\ turn' = turn /\ block' = block
      /\ (streaming' => streaming) /\ upset \subseteq upset'
  BY DEF MessagesFail, turnVars
<1>3. Steady' => Steady
  BY <1>1, <1>2, MessagesFailTold DEF Steady
<1>4. Steady' /\ waiting = Gone => Prompts' = {} /\ (streaming' => HasUser(history, Len(history)))
  BY <1>1, <1>2, <1>3 DEF Mirror, Prompts
<1>5. Steady' /\ Hydrating => sent' = <<>>
  BY <1>1, <1>2, <1>3 DEF Mirror
<1>6. QED
  BY <1>2, <1>3, <1>4, <1>5, MirrorStays

\* A part of a conversation is one.
LEMMA PartInPlace ==
  ASSUME NEW items \in Seq(Items), InPlace(items), NEW n \in 0..Len(items)
  PROVE  InPlace(SubSeq(items, 1, n))
<1>1. PICK to : to = SubSeq(items, 1, n)
  OBVIOUS
<1>2. \A i \in DOMAIN to : i \in DOMAIN items /\ to[i] = items[i]
  BY <1>1
<1>3. InPlace(to)
  BY <1>2 DEF InPlace
<1>4. QED
  BY <1>1, <1>3

LEMMA MovesMirrors ==
  ASSUME PageInv, MirrorInv, NEW h, InPlace(h), Moves(h)
  PROVE  MirrorInv'
<1>1. /\ frames' = frames /\ phase' = phase /\ phase = "idle" /\ turn' = turn /\ block' = block /\ history' = h
  BY DEF Moves, pageVars
<1>2. InPlace(history)'
  BY <1>1 DEF InPlace
<1>3. Types
  BY DEF PageInv
<1>4. ~Steady'
  BY <1>3, MovesTold DEF Steady
<1>5. QED
  BY <1>1, <1>2, <1>4, UnsteadyMirrors

LEMMA NewSessionMirrors ==
  ASSUME PageInv, MirrorInv, NewSession
  PROVE  MirrorInv'
<1>1. InPlace(<<>>)
  BY DEF InPlace
<1>2. QED
  BY <1>1, MovesMirrors DEF NewSession

LEMMA ForkMirrors ==
  ASSUME PageInv, MirrorInv, NEW i, Fork(i)
  PROVE  MirrorInv'
<1>1. PICK n \in DOMAIN history : Moves(SubSeq(history, 1, n - 1))
  BY DEF Fork
<1>2. InPlace(SubSeq(history, 1, n - 1))
  <2>h. PICK h : h = history
    OBVIOUS
  <2>m. PICK m : m = n - 1
    OBVIOUS
  <2>1. h \in Seq(Items) /\ InPlace(h) /\ m \in 0..Len(h)
    BY <2>h, <2>m DEF PageInv, Types, MirrorInv, Talks
  <2>2. QED
    BY <2>1, <2>h, <2>m, PartInPlace
<1>3. QED
  BY <1>1, <1>2, MovesMirrors

LEMMA MessagesAnsweredMirrors ==
  ASSUME PageInv, MirrorInv, MessagesAnswered
  PROVE  MirrorInv'
<1>1. Types /\ Talks
  BY DEF PageInv, MirrorInv
<1>e. PICK e : e = [busy |-> Head(asked).busy, list |-> history]
  OBVIOUS
<1>2. /\ frames' = frames /\ phase' = phase /\ turn' = turn /\ block' = block /\ history' = history
      /\ held' = Append(held, e)
  BY <1>e DEF MessagesAnswered, pageVars, turnVars
<1>3. held' # <<>>
  <2>1. held \in Seq([busy : BOOLEAN, list : Seq(Items)])
    BY <1>1 DEF Types
  <2>2. QED
    BY <1>2, <2>1
<1>4. InPlace(history)'
  BY <1>1, <1>2 DEF Talks, InPlace
<1>5. ~Steady'
  BY <1>3 DEF Steady
<1>6. QED
  BY <1>2, <1>4, <1>5, UnsteadyMirrors

LEMMA NothingIsLeft ==
  ASSUME NEW t, t = <<>>
  PROVE  Len(t) = 0
OBVIOUS

--------------------------------------------------------------------------------
\* A list of messages is posted

\* What is posted without a cause is the conversation, while nothing else is going on.
LEMMA PostedIsHistory ==
  ASSUME PageInv, Posted, Steady'
  PROVE  /\ phase = "idle" /\ sent = <<>> /\ ~streaming /\ Head(held).list = history
         /\ Head(held).busy => HasUser(history, Len(history))
<1>1. Types
  BY DEF PageInv
<1>2. upset' = Causes /\ "overlap" \notin upset'
  BY DEF Posted, Steady
<1>3. Quiet
  <2>1. ~Quiet => "overlap" \in Causes
    BY DEF Causes
  <2>2. QED
    BY <1>2, <2>1
<1>4. /\ phase = "idle" /\ sent = <<>> /\ ~streaming /\ Head(held).list = history
      /\ Head(held).busy => \E m \in Range(history) : m.who = "user"
  BY <1>3 DEF Quiet
<1>5. (\E m \in Range(history) : m.who = "user") => HasUser(history, Len(history))
  <2>1. history \in Seq(Items)
    BY <1>1 DEF Types
  <2>2. DOMAIN history = 1..Len(history)
    BY <2>1
  <2>3. QED
    BY <2>2 DEF HasUser, Range
<1>6. QED
  BY <1>4, <1>5

\* The frames after a list is posted: those of before, of earlier hydrations, and one with the list.
LEMMA PostedFrames ==
  ASSUME PageInv, Posted, NEW list, list = Head(held).list
  PROVE  /\ \A i, j \in DOMAIN frames' : frames'[i].id = hydrationId' /\ frames'[j].id = hydrationId' => i = j
         /\ \A i \in DOMAIN frames' :
              \/ i \in DOMAIN frames /\ frames'[i] = frames[i] /\ frames[i].id # hydrationId'
              \/ frames'[i].id = hydrationId' /\ frames'[i].rest = list /\ list # <<>>
         /\ list # <<>> => \E i \in DOMAIN frames' : frames'[i].id = hydrationId'
<1>1. frames \in Seq([id : 1..hydrationId, rest : Seq(Items)]) /\ hydrationId \in Nat
  BY DEF PageInv, Types
<1>2. /\ hydrationId' = hydrationId + 1
      /\ frames' = IF list = <<>> THEN frames ELSE Append(frames, [id |-> hydrationId', rest |-> list])
  BY DEF Posted
<1>id. PICK id : id = hydrationId'
  OBVIOUS
<1>fs. PICK fs : fs = frames
  OBVIOUS
<1>f. PICK f : f = [id |-> id, rest |-> list]
  OBVIOUS
<1>F. PICK F : F = [id : 1..hydrationId, rest : Seq(Items)]
  OBVIOUS
<1>k. PICK k \in Nat : k = Len(fs) /\ DOMAIN fs = 1..k
  BY <1>1, <1>fs
<1>3. \A i \in DOMAIN fs : fs[i].id # id
  <2>1. \A x \in F : x.id \in 1..hydrationId
    BY <1>F
  <2>2. \A i \in DOMAIN fs : fs[i].id \in 1..hydrationId
    BY <1>1, <1>fs, <1>F, <2>1, EveryOne
  <2>3. QED
    BY <1>1, <1>2, <1>id, <2>2
<1>4. CASE list = <<>>
  <2>1. frames' = fs
    BY <1>2, <1>4, <1>fs
  <2>2. QED
    BY <1>3, <1>4, <1>id, <1>fs, <2>1
<1>5. CASE list # <<>>
  <2>t. PICK to : to = Append(fs, f)
    OBVIOUS
  <2>1. frames' = to
    BY <1>2, <1>5, <1>fs, <1>f, <1>id, <2>t
  <2>2. DOMAIN to = 1..(k + 1) /\ to[k + 1] = f /\ \A i \in 1..k : to[i] = fs[i]
    BY <1>1, <1>fs, <1>k, <2>t
  <2>3. f.id = id /\ f.rest = list
    BY <1>f
  <2>4. \A i \in 1..(k + 1) : i \in 1..k \/ i = k + 1
    OBVIOUS
  <2>5. \A i \in DOMAIN to : \/ i \in DOMAIN fs /\ to[i] = fs[i] /\ fs[i].id # id
                             \/ i = k + 1 /\ to[i].id = id /\ to[i].rest = list
    BY <1>3, <1>k, <2>2, <2>3, <2>4
  <2>6. k + 1 \in DOMAIN to /\ to[k + 1].id = id
    BY <2>2, <2>3
  <2>7. \A i, j \in DOMAIN to : to[i].id = id /\ to[j].id = id => i = j
    BY <2>5
  <2>8. QED
    BY <1>5, <1>id, <1>fs, <2>1, <2>5, <2>6, <2>7
<1>6. QED
  BY <1>4, <1>5

LEMMA PostedMirrors ==
  ASSUME PageInv, MirrorInv, PageInv', Posted
  PROVE  MirrorInv'
<1>1. Types /\ Talks /\ OneFrame
  BY DEF PageInv, MirrorInv
<1>e. PICK e : e = Head(held)
  OBVIOUS
<1>2. /\ held # <<>> /\ held' = Tail(held) /\ hydrationId' = hydrationId + 1
      /\ rows' = <<>> /\ current' = 0 /\ waiting' = (IF waiting > 0 THEN Gone ELSE waiting)
      /\ streaming' = (streaming \/ e.busy)
      /\ sent' = sent /\ asked' = asked /\ phase' = phase /\ turn' = turn /\ block' = block /\ history' = history
  BY <1>e DEF Posted, turnVars
<1>3. Talks'
  BY <1>1, <1>2 DEF Talks, InPlace, HasUser, Item
<1>5. OneFrame'
  <2>l. PICK list : list = Head(held).list
    OBVIOUS
  <2>1. ASSUME NEW i \in DOMAIN frames', NEW j \in DOMAIN frames', frames'[i].id = frames'[j].id PROVE i = j
    <3>1. CASE frames'[i].id = hydrationId'
      BY <2>1, <3>1, <2>l, PostedFrames
    <3>2. CASE frames'[i].id # hydrationId'
      <4>1. /\ i \in DOMAIN frames /\ frames'[i] = frames[i]
            /\ j \in DOMAIN frames /\ frames'[j] = frames[j]
        BY <2>1, <3>2, <2>l, PostedFrames
      <4>2. QED
        BY <1>1, <2>1, <4>1 DEF OneFrame
    <3>3. QED
      BY <3>1, <3>2
  <2>2. QED
    BY <2>1 DEF OneFrame
<1>6. Mirror'
  <2>1. CASE ~Steady'
    BY <2>1 DEF Mirror
  <2>2. CASE Steady'
    <3>1. /\ phase = "idle" /\ sent = <<>> /\ ~streaming /\ e.list = history
          /\ e.busy => HasUser(history, Len(history))
      BY <1>e, <2>2, PostedIsHistory
    <3>r. PICK rs : rs = <<>>
      OBVIOUS
    <3>B. PICK B : B = {}
      OBVIOUS
    <3>h. PICK h : h = history
      OBVIOUS
    <3>2. Written' = h /\ Calling' = B /\ ~Writing' /\ Prompts' = {} /\ h \in Seq(Items)
      BY <1>1, <1>2, <3>1, <3>B, <3>h DEF Written, Calling, Writing, Prompts, Types
    <3>3. Regular(rs) /\ FacesIn(rs) = {} /\ \A i \in DOMAIN rs : FALSE
      BY <3>r DEF Regular, FacesIn, ShownIn
    <3>4. Faces(h, 0, B) = {} /\ ~HasUser(h, 0)
      BY DEF Faces, SaidIn, HasUser
    <3>5. Regular(rows)' /\ FacesIn(rows)' = {}
      BY <1>2, <3>r, <3>3 DEF Regular, FacesIn, ShownIn
    <3>6. Faces(Written, 0, Calling)' = {} /\ ~HasUser(Written, 0)'
      BY <3>2, <3>4 DEF Faces, FaceOf, SaidIn, Outcome, HasUser
    <3>7. waiting' \in {0, Gone} /\ waiting' <= 0
      BY <1>1, <1>2, PageFits DEF Gone, Fit
    <3>8. waiting' = Gone /\ streaming' => HasUser(history, Len(history))'
      <4>1. SUFFICES ASSUME waiting' = Gone, streaming' PROVE HasUser(history, Len(history))'
        OBVIOUS
      <4>2. HasUser(history, Len(history))
        BY <1>2, <3>1, <4>1
      <4>3. QED
        BY <1>2, <4>2 DEF HasUser
    <3>9. UpTo(0)'
      <4>1. CASE Hydrating'
        <5>1. ASSUME NEW i \in DOMAIN frames', frames'[i].id = hydrationId' PROVE frames'[i].rest = SubSeq(h, 1, Len(h))
          <6>1. frames'[i].rest = h
            BY <1>e, <3>1, <3>h, <5>1, PostedFrames
          <6>2. SubSeq(h, 1, Len(h)) = h
            BY <3>2
          <6>3. QED
            BY <6>1, <6>2
        <5>2. 0 + 1 = 1
          OBVIOUS
        <5>3. SubSeq(h, 1, Len(h)) = SubSeq(history, 0 + 1, Len(history))'
          BY <1>2, <3>h, <5>2
        <5>4. \A i \in DOMAIN frames' : frames'[i].id = hydrationId' => frames'[i].rest = SubSeq(history, 0 + 1, Len(history))'
          BY <5>1, <5>3
        <5>5. QED
          BY <3>5, <3>6, <4>1, <5>4 DEF UpTo
      <4>2. CASE ~Hydrating'
        <5>1. ~ \E i \in DOMAIN frames' : frames'[i].id = hydrationId'
          BY <4>2 DEF Hydrating
        <5>2. h = <<>>
          BY <1>e, <3>1, <3>h, <5>1, PostedFrames
        <5>3. (0 = Len(Written))'
          BY <3>2, <5>2
        <5>4. QED
          BY <3>5, <3>6, <4>2, <5>3 DEF UpTo
      <4>3. QED
        BY <4>1, <4>2
    <3>10. (\E n \in 0..Len(Written) : UpTo(n))'
      <4>1. (0 \in 0..Len(Written))'
        BY <3>2
      <4>2. QED
        BY <3>9, <4>1
    <3>11. phase' = "idle" /\ sent' = <<>> /\ current' = 0 /\ \A i \in DOMAIN rows' : FALSE
      BY <1>2, <3>1, <3>r, <3>3
    <3>12. ~(waiting' > 0)
      BY <3>7 DEF Gone
    <3>13. QED
      BY <3>2, <3>5, <3>7, <3>8, <3>10, <3>11, <3>12 DEF Mirror
  <2>3. QED
    BY <2>1, <2>2
<1>7. QED
  BY <1>3, <1>5, <1>6 DEF MirrorInv

--------------------------------------------------------------------------------
\* A frame of a hydration

\* The front of a list, and its back.
Front(S, s, n, to) == to \in Seq(S) /\ Len(to) = n /\ \A i \in 1..n : to[i] = s[i]
Back(S, s, n, to) == to \in Seq(S) /\ Len(to) = Len(s) - n /\ \A i \in 1..(Len(s) - n) : to[i] = s[n + i]

LEMMA FrontOf ==
  ASSUME NEW S, NEW s \in Seq(S), NEW n \in 0..Len(s), NEW to, to = SubSeq(s, 1, n)
  PROVE  Front(S, s, n, to)
<1>1. Len(s) \in Nat
  BY LenProperties
<1>2. QED
  BY <1>1, SubSeqProperties DEF Front

LEMMA BackOf ==
  ASSUME NEW S, NEW s \in Seq(S), NEW n \in 0..Len(s), NEW to, to = SubSeq(s, n + 1, Len(s))
  PROVE  Back(S, s, n, to)
<1>1. Len(s) \in Nat
  BY LenProperties
<1>2. QED
  BY <1>1, SubSeqProperties DEF Back

\* The parts of what is left of a list.
RestParts(S, s, n, c, part, left) ==
  /\ part \in Seq(S) /\ Len(part) = c /\ \A i \in 1..c : part[i] = s[n + i]
  /\ n + c \in 0..Len(s) /\ left = SubSeq(s, n + c + 1, Len(s))
  /\ left = <<>> => n + c = Len(s)

LEMMA PartsOfRest ==
  ASSUME NEW S, NEW s \in Seq(S), NEW n \in 0..Len(s), NEW rest, rest = SubSeq(s, n + 1, Len(s)),
         NEW c \in 0..Len(rest), NEW part, part = SubSeq(rest, 1, c), NEW left, left = SubSeq(rest, c + 1, Len(rest))
  PROVE  RestParts(S, s, n, c, part, left)
<1>0. Len(s) \in Nat /\ DOMAIN s = 1..Len(s)
  BY LenProperties
<1>l. PICK l \in Nat : l = Len(s) /\ DOMAIN s = 1..l
  BY <1>0
<1>1. rest \in Seq(S) /\ Len(rest) = l - n /\ \A i \in 1..(l - n) : rest[i] = s[n + i]
  <2>1. Back(S, s, n, rest)
    BY BackOf
  <2>2. QED
    BY <1>l, <2>1 DEF Back
<1>2. c \in 0..(l - n) /\ c \in Nat /\ n + c \in 0..l /\ n + c + 1 \in 1..(l + 1)
  BY <1>l, <1>1
<1>3. part \in Seq(S) /\ Len(part) = c /\ \A i \in 1..c : part[i] = rest[i]
  <2>1. rest \in Seq(S)
    BY <1>1
  <2>2. Front(S, rest, c, part)
    BY <2>1, FrontOf
  <2>3. QED
    BY <2>2 DEF Front
<1>4. left \in Seq(S) /\ Len(left) = l - n - c /\ \A i \in 1..(l - n - c) : left[i] = rest[c + i]
  <2>1. rest \in Seq(S)
    BY <1>1
  <2>2. Back(S, rest, c, left)
    BY <2>1, BackOf
  <2>3. QED
    BY <1>1, <2>2 DEF Back
<1>5. \A i \in 1..c : part[i] = s[n + i]
  BY <1>1, <1>2, <1>3
<1>t. PICK to : to = SubSeq(s, n + c + 1, l)
  OBVIOUS
<1>6. to \in Seq(S) /\ Len(to) = l - n - c /\ \A i \in 1..(l - n - c) : to[i] = s[n + c + i]
  <2>k. PICK k : k = n + c
    OBVIOUS
  <2>1. k \in 0..Len(s) /\ to = SubSeq(s, k + 1, Len(s))
    BY <1>l, <1>2, <1>t, <2>k
  <2>2. Back(S, s, k, to)
    BY <2>1, BackOf
  <2>3. Len(s) - k = l - n - c
    BY <1>l, <1>2, <2>k
  <2>4. QED
    BY <2>k, <2>2, <2>3 DEF Back
<1>7. \A i \in 1..(l - n - c) : left[i] = to[i]
  <2> TAKE i \in 1..(l - n - c)
  <2>1. c + i \in 1..(l - n) /\ n + (c + i) = n + c + i
    BY <1>2
  <2>2. left[i] = rest[c + i] /\ rest[c + i] = s[n + (c + i)] /\ to[i] = s[n + c + i]
    BY <1>1, <1>4, <1>6, <2>1
  <2>3. QED
    BY <2>1, <2>2
<1>8. left = to
  BY <1>4, <1>6, <1>7, SeqEqual
<1>9. left = <<>> => n + c = l
  <2>1. left = <<>> => Len(left) = 0
    BY NothingIsLeft
  <2>2. QED
    BY <1>2, <1>4, <2>1
<1>10. QED
  BY <1>l, <1>2, <1>3, <1>5, <1>8, <1>9, <1>t DEF RestParts

\* The first of a line of frames goes, or goes to the end with what is left of it.
LEMMA FirstGoes ==
  ASSUME NEW F, NEW fs \in Seq(F), fs # <<>>, \A i, j \in DOMAIN fs : fs[i].id = fs[j].id => i = j,
         NEW tl, tl = Tail(fs)
  PROVE  /\ tl \in Seq(F) /\ \A i, j \in DOMAIN tl : tl[i].id = tl[j].id => i = j
         /\ \A i \in DOMAIN tl : i + 1 \in DOMAIN fs /\ tl[i] = fs[i + 1] /\ tl[i].id # Head(fs).id
         /\ \A i \in DOMAIN fs : i # 1 => i - 1 \in DOMAIN tl /\ tl[i - 1] = fs[i]
<1>k. PICK k \in Nat : k = Len(tl) /\ DOMAIN tl = 1..k /\ tl \in Seq(F)
  BY RestOfList
<1>1. /\ Head(fs) = fs[1] /\ 1 \in DOMAIN fs
      /\ \A i \in DOMAIN tl : i + 1 \in DOMAIN fs /\ tl[i] = fs[i + 1]
      /\ \A i \in DOMAIN fs : i # 1 => i - 1 \in DOMAIN tl /\ tl[i - 1] = fs[i]
  BY RestOfList
<1>2. ASSUME NEW i \in DOMAIN tl, NEW j \in DOMAIN tl, tl[i].id = tl[j].id PROVE i = j
  <2>1. i + 1 \in DOMAIN fs /\ j + 1 \in DOMAIN fs /\ fs[i + 1].id = fs[j + 1].id
    BY <1>1, <1>2
  <2>2. i + 1 = j + 1
    BY <2>1
  <2>3. i \in Nat /\ j \in Nat
    BY <1>k
  <2>4. QED
    BY <2>2, <2>3
<1>3. ASSUME NEW i \in DOMAIN tl PROVE tl[i].id # Head(fs).id
  <2>1. i + 1 # 1 /\ i + 1 \in DOMAIN fs /\ tl[i] = fs[i + 1]
    BY <1>1, <1>k
  <2>2. fs[i + 1].id # fs[1].id
    BY <1>1, <2>1
  <2>3. QED
    BY <1>1, <2>1, <2>2
<1>4. QED
  BY <1>k, <1>1, <1>2, <1>3

LEMMA FirstGoesOn ==
  ASSUME NEW F, NEW fs \in Seq(F), fs # <<>>, \A i, j \in DOMAIN fs : fs[i].id = fs[j].id => i = j,
         NEW tl, tl = Tail(fs), NEW g, g.id = Head(fs).id, NEW to, to = Append(tl, g)
  PROVE  /\ \A i, j \in DOMAIN to : to[i].id = to[j].id => i = j
         /\ \A i \in DOMAIN to : to[i].id = g.id => to[i] = g
         /\ \E i \in DOMAIN to : to[i].id = g.id
<1>1. /\ tl \in Seq(F) /\ \A i, j \in DOMAIN tl : tl[i].id = tl[j].id => i = j
      /\ \A i \in DOMAIN tl : tl[i].id # g.id
  BY FirstGoes
<1>k. PICK k \in Nat : k = Len(tl) /\ DOMAIN tl = 1..k /\ tl \in Seq(F)
  BY <1>1
<1>2. DOMAIN to = 1..(k + 1) /\ to[k + 1] = g /\ \A i \in 1..k : to[i] = tl[i]
  BY <1>k
<1>3. \A i \in 1..(k + 1) : i \in 1..k \/ i = k + 1
  OBVIOUS
<1>4. \A i \in DOMAIN to : i = k + 1 \/ (i \in DOMAIN tl /\ to[i] = tl[i] /\ to[i].id # g.id)
  BY <1>1, <1>k, <1>2, <1>3
<1>5. \A i, j \in DOMAIN to : to[i].id = to[j].id => i = j
  BY <1>1, <1>2, <1>4
<1>6. k + 1 \in DOMAIN to
  BY <1>2
<1>7. QED
  BY <1>2, <1>4, <1>5, <1>6

\* After the part of a list that a page is drawn with, the rest is left.
DrawsOn(to, h, left) ==
  \E l \in 0..Len(h) : Drawn(to, h, l) /\ left = SubSeq(h, l + 1, Len(h)) /\ (left = <<>> => l = Len(h))

LEMMA RestIsDrawn ==
  ASSUME NEW h \in Seq(Items), InPlace(h), NEW n \in 0..Len(h), NEW pg, Drawn(pg, h, n),
         NEW rest, rest = SubSeq(h, n + 1, Len(h)),
         NEW c \in 0..Len(rest), NEW part, part = SubSeq(rest, 1, c), NEW left, left = SubSeq(rest, c + 1, Len(rest))
  PROVE  DrawsOn(Hydrate(pg, part), h, left)
<1>1. RestParts(Items, h, n, c, part, left)
  BY PartsOfRest
<1>2. /\ part \in Seq(Items) /\ Len(part) = c /\ n + c \in 0..Len(h) /\ left = SubSeq(h, n + c + 1, Len(h))
      /\ left = <<>> => n + c = Len(h)
  BY <1>1 DEF RestParts
<1>k. PICK k : k = Len(part)
  OBVIOUS
<1>3. \A i \in 1..k : part[i] = h[n + i]
  BY <1>1, <1>k DEF RestParts
<1>4. n + k <= Len(h) /\ k = c
  BY <1>2, <1>k
<1>5. Drawn(Hydrate(pg, part), h, n + Len(part))
  BY <1>2, <1>3, <1>4, <1>k, ListDrawn
<1>l. PICK l \in 0..Len(h) : l = n + c
  BY <1>2
<1>6. Drawn(Hydrate(pg, part), h, l) /\ left = SubSeq(h, l + 1, Len(h)) /\ (left = <<>> => l = Len(h))
  BY <1>2, <1>5, <1>l
<1>7. QED
  BY <1>6 DEF DrawsOn

\* The page before and after a frame of a hydration that goes on: more messages are drawn.
LEMMA FrameDraws ==
  ASSUME PageInv, MirrorInv, Steady, frames # <<>>, NEW rest, rest = Head(frames).rest, Head(frames).id = hydrationId,
         NEW c \in 0..Len(rest), NEW part, part = SubSeq(rest, 1, c), NEW left, left = SubSeq(rest, c + 1, Len(rest))
  PROVE  phase = "idle" /\ sent = <<>> /\ DrawsOn(Hydrate(Page, part), history, left)
<1>1. Types /\ Talks /\ OneFrame /\ Mirror
  BY DEF PageInv, MirrorInv
<1>2. 1 \in DOMAIN frames /\ Head(frames) = frames[1]
  BY <1>1, RestOfList DEF Types
<1>3. Hydrating
  BY <1>2 DEF Hydrating
<1>4. /\ phase = "idle" /\ sent = <<>> /\ waiting <= 0 /\ Regular(rows)
      /\ \A i \in DOMAIN rows : rows[i].block = "tool" => rows[i].call # Unset
  BY <1>1, <1>3 DEF Mirror
<1>B. PICK B : B = {}
  OBVIOUS
<1>h. PICK h : h = history
  OBVIOUS
<1>5. Written = h /\ Calling = B /\ ~Writing /\ h \in Seq(Items) /\ InPlace(h)
  BY <1>1, <1>4, <1>B, <1>h DEF Written, Calling, Writing, Types, Talks
<1>6. current = 0
  BY <1>1, <1>5 DEF Mirror
<1>n. PICK n \in 0..Len(Written) : UpTo(n)
  BY <1>1 DEF Mirror
<1>7. n \in 0..Len(h)
  BY <1>5
<1>8. FacesIn(rows) = Faces(h, n, B) /\ (waiting = Gone => ~HasUser(h, n))
  BY <1>5, <1>n DEF UpTo
<1>9. rest = SubSeq(h, n + 1, Len(h))
  BY <1>2, <1>3, <1>h, <1>n DEF UpTo
<1>p. PICK pg : pg = Page
  OBVIOUS
<1>10. Fit(pg) /\ pg.rows = rows /\ pg.current = 0 /\ pg.waiting = waiting
  BY <1>1, <1>6, <1>p, PageFits DEF Page
<1>11. Drawn(pg, h, n)
  BY <1>4, <1>8, <1>10, <1>B DEF Drawn
<1>12. h \in Seq(Items) /\ InPlace(h)
  BY <1>5
<1>13. DrawsOn(Hydrate(pg, part), h, left)
  BY <1>7, <1>9, <1>11, <1>12, RestIsDrawn
<1>14. QED
  BY <1>4, <1>h, <1>p, <1>13

\* The frames to come of the hydration id are one with what is left, if anything is.
Leaves(frs, id, left) ==
  /\ \A i \in DOMAIN frs : frs[i].id = id => frs[i].rest = left
  /\ left # <<>> => \E i \in DOMAIN frs : frs[i].id = id

\* What a frame leaves of the conversation is as the page is.
LEMMA DrawnMirrors ==
  ASSUME PageInv, Steady, phase = "idle", sent = <<>>,
         NEW l \in 0..Len(history), NEW to, Drawn(to, history, l), SetPage(to),
         NEW left, left = SubSeq(history, l + 1, Len(history)), left = <<>> => l = Len(history),
         Leaves(frames', hydrationId, left), hydrationId' = hydrationId, streaming' = streaming, sent' = sent, phase' = phase, turn' = turn,
         block' = block, history' = history, streaming => HasUser(history, Len(history)) \/ waiting' # Gone
  PROVE  Mirror'
<1>1. Types
  BY DEF PageInv
<1>B. PICK B : B = {}
  OBVIOUS
<1>h. PICK h : h = history
  OBVIOUS
<1>2. Written' = h /\ Calling' = B /\ ~Writing' /\ Prompts' = {} /\ history' = h /\ h \in Seq(Items)
  BY <1>1, <1>B, <1>h DEF Written, Calling, Writing, Prompts, Types
<1>3. /\ Regular(to.rows) /\ to.current = 0 /\ to.waiting <= 0 /\ to.waiting \in Int
      /\ \A i \in DOMAIN to.rows : to.rows[i].block = "tool" => to.rows[i].call # Unset
      /\ FacesIn(to.rows) = Faces(h, l, B) /\ (to.waiting = Gone => ~HasUser(h, l))
  BY <1>B, <1>h DEF Drawn, Fit
<1>4. rows' = to.rows /\ current' = to.current /\ waiting' = to.waiting
  BY DEF SetPage
<1>5. Regular(rows)' /\ FacesIn(rows)' = Faces(h, l, B)
  BY <1>3, <1>4 DEF Regular, FacesIn, ShownIn
<1>w. Written' = h /\ Calling' = B
  BY <1>2
<1>6. Faces(Written, l, Calling)' = Faces(h, l, B)
  BY <1>w DEF Faces, FaceOf, SaidIn, Outcome
<1>u. waiting' = Gone => ~HasUser(Written, l)'
  BY <1>3, <1>4, <1>w DEF HasUser
<1>7. IF Hydrating'
      THEN \A i \in DOMAIN frames' : frames'[i].id = hydrationId' => frames'[i].rest = SubSeq(history, l + 1, Len(history))'
      ELSE l = Len(Written)'
  <2>1. CASE Hydrating'
    BY <1>2, <1>h, <2>1 DEF Leaves
  <2>2. CASE ~Hydrating'
    <3>1. left = <<>>
      BY <2>2 DEF Hydrating, Leaves
    <3>2. l = Len(h)
      BY <1>h, <3>1
    <3>3. QED
      BY <1>2, <2>2, <3>2
  <2>3. QED
    BY <2>1, <2>2
<1>8. UpTo(l)'
  BY <1>5, <1>6, <1>u, <1>7 DEF UpTo
<1>9. (l \in 0..Len(Written))'
  BY <1>2, <1>h
<1>10. (\E n \in 0..Len(Written) : UpTo(n))'
  BY <1>8, <1>9
<1>11. waiting' = Gone /\ streaming' => HasUser(history, Len(history))'
  BY DEF HasUser
<1>12. waiting' <= 0 /\ ~(waiting' > 0) /\ current' = 0 /\ phase' = "idle" /\ sent' = <<>>
  BY <1>3, <1>4
<1>13. \A i \in DOMAIN rows' : rows'[i].block = "tool" => rows'[i].call # Unset
  BY <1>3, <1>4
<1>14. QED
  BY <1>2, <1>5, <1>10, <1>11, <1>12, <1>13 DEF Mirror

\* A frame of a hydration that is superseded changes nothing but the frames to come.
LEMMA OldFrameMirrors ==
  ASSUME PageInv, Mirror, Steady,
         rows' = rows, current' = current, waiting' = waiting, hydrationId' = hydrationId, streaming' = streaming,
         sent' = sent, phase' = phase, turn' = turn, block' = block, history' = history,
         \A i \in DOMAIN frames' : \E j \in DOMAIN frames : frames'[i] = frames[j],
         Hydrating => Hydrating'
  PROVE  Mirror'
<1>1. Hydrating' <=> Hydrating
  BY DEF Hydrating
<1>2. PICK n \in 0..Len(Written) : UpTo(n)
  BY DEF Mirror
<1>3. Written' = Written /\ Calling' = Calling /\ (Writing' <=> Writing)
  BY DEF Written, Calling, Writing, Reply, Item
<1>4. FacesIn(rows)' = FacesIn(rows) /\ (Regular(rows)' <=> Regular(rows))
  BY DEF FacesIn, Regular, ShownIn
<1>5. Faces(Written, n, Calling)' = Faces(Written, n, Calling) /\ (HasUser(Written, n)' <=> HasUser(Written, n))
  BY <1>3 DEF Faces, FaceOf, SaidIn, Outcome, HasUser
<1>6. UpTo(n)'
  BY <1>1, <1>2, <1>3, <1>4, <1>5 DEF UpTo
<1>7. (n \in 0..Len(Written))'
  BY <1>3
<1>8. (\E k \in 0..Len(Written) : UpTo(k))'
  BY <1>6, <1>7
<1>9. HasUser(history, Len(history))' <=> HasUser(history, Len(history))
  BY DEF HasUser
<1>10. QED
  BY <1>1, <1>3, <1>4, <1>8, <1>9 DEF Mirror, Prompts

LEMMA FrameMirrors ==
  ASSUME PageInv, MirrorInv, PageInv', Frame
  PROVE  MirrorInv'
<1>1. Types /\ Talks /\ OneFrame /\ Mirror
  BY DEF PageInv, MirrorInv
<1>f. PICK f : f = Head(frames)
  OBVIOUS
<1>r. PICK rest : rest = f.rest
  OBVIOUS
<1>c. PICK c : c = IF Len(rest) < Chunk THEN Len(rest) ELSE Chunk
  OBVIOUS
<1>p. PICK part : part = SubSeq(rest, 1, c)
  OBVIOUS
<1>l. PICK left : left = SubSeq(rest, c + 1, Len(rest))
  OBVIOUS
<1>2. /\ frames # <<>> /\ streaming' = streaming /\ hydrationId' = hydrationId
      /\ sent' = sent /\ asked' = asked /\ held' = held /\ phase' = phase /\ turn' = turn
      /\ block' = block /\ history' = history /\ upset' = upset
  BY DEF Frame, wayVars, turnVars
<1>3. \/ f.id # hydrationId /\ frames' = Tail(frames) /\ UNCHANGED <<rows, current, waiting>>
      \/ /\ f.id = hydrationId
         /\ SetPage(Hydrate(Page, part))
         /\ frames' = IF left = <<>> THEN Tail(frames) ELSE Append(Tail(frames), [f EXCEPT !.rest = left])
  BY <1>f, <1>r, <1>c, <1>p, <1>l DEF Frame
<1>4. Talks'
  BY <1>1, <1>2 DEF Talks, InPlace, HasUser, Item
<1>F. PICK F : F = [id : 1..hydrationId, rest : Seq(Items)]
  OBVIOUS
<1>s. PICK fs : fs = frames
  OBVIOUS
<1>t. PICK tl : tl = Tail(fs)
  OBVIOUS
<1>5. fs \in Seq(F) /\ fs # <<>> /\ f = Head(fs)
  BY <1>1, <1>2, <1>f, <1>F, <1>s DEF Types
<1>6. \A i, j \in DOMAIN fs : fs[i].id = fs[j].id => i = j
  BY <1>1, <1>s DEF OneFrame
<1>7. /\ \A i, j \in DOMAIN tl : tl[i].id = tl[j].id => i = j
      /\ \A i \in DOMAIN tl : i + 1 \in DOMAIN fs /\ tl[i] = fs[i + 1] /\ tl[i].id # f.id
      /\ \A i \in DOMAIN fs : i # 1 => i - 1 \in DOMAIN tl /\ tl[i - 1] = fs[i]
  BY <1>5, <1>6, <1>t, FirstGoes
<1>8. f \in F /\ f = fs[1]
  BY <1>5, RestOfList
<1>9. Steady' <=> Steady
  BY <1>2 DEF Steady, Told
<1>10. CASE f.id # hydrationId
  <2>1. frames' = tl /\ rows' = rows /\ current' = current /\ waiting' = waiting
    BY <1>3, <1>10, <1>s, <1>t
  <2>2. OneFrame'
    BY <1>7, <2>1 DEF OneFrame
  <2>3. \A i \in DOMAIN frames' : \E j \in DOMAIN frames : frames'[i] = frames[j]
    BY <1>7, <1>s, <2>1
  <2>4. Hydrating => Hydrating'
    <3>1. SUFFICES ASSUME NEW i \in DOMAIN fs, fs[i].id = hydrationId PROVE \E j \in DOMAIN tl : tl[j].id = hydrationId
      BY <1>2, <1>s, <2>1 DEF Hydrating
    <3>2. i # 1
      BY <1>8, <1>10, <3>1
    <3>3. QED
      BY <1>7, <3>1, <3>2
  <2>5. Mirror'
    <3>1. CASE Steady
      BY <1>1, <1>2, <2>1, <2>3, <2>4, <3>1, OldFrameMirrors
    <3>2. CASE ~Steady
      BY <1>9, <3>2 DEF Mirror
    <3>3. QED
      BY <3>1, <3>2
  <2>6. QED
    BY <1>4, <2>2, <2>5 DEF MirrorInv
<1>11. CASE f.id = hydrationId
  <2>g. PICK g : g = [f EXCEPT !.rest = left]
    OBVIOUS
  <2>1. g.id = f.id /\ g.rest = left /\ f.id = hydrationId
    BY <1>8, <1>11, <1>F, <2>g
  <2>2. SetPage(Hydrate(Page, part)) /\ frames' = IF left = <<>> THEN tl ELSE Append(tl, g)
    BY <1>3, <1>11, <1>s, <1>t, <2>g
  <2>3. rest \in Seq(Items) /\ c \in 0..Len(rest)
    <3>1. rest \in Seq(Items)
      BY <1>8, <1>F, <1>r
    <3>2. QED
      BY <3>1, <1>c, PageAssumption
  <2>4. OneFrame' /\ Leaves(frames', hydrationId, left)
    <3>1. CASE left = <<>>
      <4>1. frames' = tl
        BY <2>2, <3>1
      <4>2. \A i \in DOMAIN tl : tl[i].id # hydrationId
        BY <1>7, <2>1
      <4>3. QED
        BY <1>7, <3>1, <4>1, <4>2 DEF OneFrame, Leaves
    <3>2. CASE left # <<>>
      <4>t. PICK to : to = Append(tl, g)
        OBVIOUS
      <4>1. frames' = to
        BY <2>2, <3>2, <4>t
      <4>2. /\ \A i, j \in DOMAIN to : to[i].id = to[j].id => i = j
            /\ \A i \in DOMAIN to : to[i].id = g.id => to[i] = g
            /\ \E i \in DOMAIN to : to[i].id = g.id
        BY <1>5, <1>6, <1>t, <2>1, <4>t, FirstGoesOn
      <4>3. QED
        BY <2>1, <4>1, <4>2 DEF OneFrame, Leaves
    <3>3. QED
      BY <3>1, <3>2
  <2>5. Mirror'
    <3>1. CASE ~Steady
      BY <1>9, <3>1 DEF Mirror
    <3>2. CASE Steady
      <4>t. PICK to : to = Hydrate(Page, part)
        OBVIOUS
      <4>1. frames # <<>> /\ rest = Head(frames).rest /\ Head(frames).id = hydrationId
        BY <1>2, <1>f, <1>r, <1>11
      <4>2. phase = "idle" /\ sent = <<>> /\ DrawsOn(Hydrate(Page, part), history, left)
        BY <1>p, <1>l, <2>3, <3>2, <4>1, FrameDraws
      <4>l. PICK l \in 0..Len(history) : /\ Drawn(to, history, l)
                                         /\ left = SubSeq(history, l + 1, Len(history))
                                         /\ left = <<>> => l = Len(history)
        BY <4>2, <4>t DEF DrawsOn
      <4>3. streaming => HasUser(history, Len(history)) \/ waiting' # Gone
        <5>1. Fit(Page) /\ part \in Seq(Items)
          BY <1>1, <1>p, <2>3 DEF Types
        <5>A. PICK A : A = {part[j].id : j \in DOMAIN part}
          OBVIOUS
        <5>2. Into(Page, Hydrate(Page, part), A)
          BY <5>1, <5>A, ListHydrated
        <5>3. waiting' \in {waiting, 0}
          BY <2>2, <5>2 DEF Into, Grows, SetPage, Page
        <5>4. waiting = Gone /\ streaming => HasUser(history, Len(history))
          BY <1>1, <3>2 DEF Mirror
        <5>5. QED
          BY <5>3, <5>4 DEF Gone
      <4>4. SetPage(to)
        BY <2>2, <4>t
      <4>5. QED
        BY <1>2, <2>4, <3>2, <4>2, <4>l, <4>3, <4>4, DrawnMirrors
    <3>3. QED
      BY <3>1, <3>2
  <2>6. QED
    BY <1>4, <2>4, <2>5 DEF MirrorInv
<1>12. QED
  BY <1>10, <1>11

--------------------------------------------------------------------------------
\* The page shows the conversation: the theorem

LEMMA MirrorStarts ==
  ASSUME PageInit
  PROVE  MirrorInv
<1>1. /\ rows = <<>> /\ current = 0 /\ waiting = 0 /\ frames = <<>> /\ asked = <<>> /\ held = <<>>
      /\ phase = "idle" /\ block = "none" /\ history = Stored
      /\ upset = IF Stored = <<>> THEN {} ELSE {"overlap"}
  BY DEF PageInit
<1>2. InPlace(Stored)
  <2>1. ASSUME NEW i \in DOMAIN Stored, NEW j \in DOMAIN Stored, i < j PROVE Before(Stored[i], Stored[j])
    <3>1. i \in 1..(j - 1)
      BY <2>1, PageAssumption
    <3>2. QED
      BY <3>1, PageAssumption
  <2>2. QED
    BY <2>1 DEF InPlace
<1>3. Talks
  BY <1>1, <1>2 DEF Talks
<1>4. OneFrame
  BY <1>1 DEF OneFrame
<1>5. Mirror
  <2>1. CASE Stored # <<>>
    BY <1>1, <2>1 DEF Mirror, Steady
  <2>2. CASE Stored = <<>>
    <3>r. PICK rs : rs = <<>>
      OBVIOUS
    <3>h. PICK h : h = <<>>
      OBVIOUS
    <3>B. PICK B : B = {}
      OBVIOUS
    <3>1. Written = h /\ Calling = B /\ ~Writing /\ ~Hydrating
      BY <1>1, <2>2, <3>h, <3>B DEF Written, Calling, Writing, Hydrating
    <3>2. Regular(rs) /\ FacesIn(rs) = {}
      BY <3>r DEF Regular, FacesIn, ShownIn
    <3>3. Faces(h, 0, B) = {} /\ ~HasUser(h, 0) /\ 0 = Len(h)
      BY <3>h DEF Faces, SaidIn, HasUser
    <3>4. UpTo(0)
      BY <1>1, <3>r, <3>1, <3>2, <3>3 DEF UpTo
    <3>5. 0 \in 0..Len(Written)
      BY <3>1, <3>3
    <3>6. \E n \in 0..Len(Written) : UpTo(n)
      BY <3>4, <3>5
    <3>7. ~(waiting > 0) /\ waiting # Gone
      BY <1>1 DEF Gone
    <3>8. QED
      BY <1>1, <3>r, <3>1, <3>2, <3>6, <3>7 DEF Mirror
  <2>3. QED
    BY <2>1, <2>2
<1>6. QED
  BY <1>3, <1>4, <1>5 DEF MirrorInv

LEMMA MirrorRests ==
  ASSUME PageInv, MirrorInv, UNCHANGED chatVars
  PROVE  MirrorInv'
<1>1. /\ rows' = rows /\ current' = current /\ waiting' = waiting /\ streaming' = streaming
      /\ frames' = frames /\ hydrationId' = hydrationId /\ sent' = sent /\ asked' = asked /\ held' = held
      /\ phase' = phase /\ turn' = turn /\ block' = block /\ history' = history /\ upset' = upset
  BY DEF chatVars, pageVars, turnVars, wayVars
<1>2. Mirror
  BY DEF MirrorInv
<1>3. Steady' => Steady
  BY <1>1, SteadyBefore
<1>4. Steady' /\ waiting = Gone => Prompts' = {} /\ (streaming' => HasUser(history, Len(history)))
  BY <1>1, <1>2, <1>3 DEF Mirror, Prompts
<1>5. Steady' /\ Hydrating => sent' = <<>>
  BY <1>1, <1>2, <1>3 DEF Mirror
<1>6. QED
  BY <1>1, <1>3, <1>4, <1>5, MirrorStays

\* The rows that show are in the order of the messages they show.
LEMMA NotBothBefore ==
  ASSUME NEW m, NEW l, m.id \in Int, l.id \in Int,
         m.who \in {"user", "assistant", "result"}, l.who \in {"user", "assistant", "result"}
  PROVE  ~(Before(m, l) /\ Before(l, m))
BY DEF Before, Place

LEMMA SameOrder ==
  ASSUME NEW rs \in Seq(Row), Regular(rs), NEW items \in Seq(Items), InPlace(items),
         NEW i \in ShownIn(rs), NEW j \in ShownIn(rs), NEW m \in DOMAIN items, NEW n \in DOMAIN items,
         rs[i].id = items[m].id, rs[i].who = items[m].who, rs[j].id = items[n].id, rs[j].who = items[n].who
  PROVE  i < j <=> m < n
<1>a. PICK a : a = items[m]
  OBVIOUS
<1>b. PICK b : b = items[n]
  OBVIOUS
<1>1. /\ a \in Items /\ b \in Items /\ i \in Int /\ j \in Int /\ m \in Int /\ n \in Int
  BY <1>a, <1>b DEF ShownIn
<1>2. ~(Before(a, b) /\ Before(b, a))
  BY <1>1, MessageSides, NotBothBefore
<1>3. /\ i < j => Before(a, b)
      /\ j < i => Before(b, a)
  BY <1>a, <1>b DEF Regular, Before
<1>4. /\ m < n => Before(a, b)
      /\ n < m => Before(b, a)
  BY <1>a, <1>b DEF InPlace
<1>5. i = j => m = n
  BY MessagesDiffer
<1>6. m = n => i = j
  BY RowsDiffer
<1>7. QED
  BY <1>1, <1>2, <1>3, <1>4, <1>5, <1>6

LEMMA MirrorIsHistory ==
  ASSUME PageInv, MirrorInv
  PROVE  PageIsHistory
<1>1. SUFFICES ASSUME AtRest, phase = "idle", upset \cap {"overlap", "error", "command", "crossed", "untold"} = {}
               PROVE  /\ \A n \in Said : \E i \in ShownIn(rows) : Shows(i, n)
                      /\ \A i \in ShownIn(rows) : \E n \in Said : Shows(i, n)
                      /\ \A i, j \in ShownIn(rows), m, n \in Said :
                           Shows(i, m) /\ Shows(j, n) => (i < j <=> m < n)
  BY DEF PageIsHistory
<1>2. Types /\ InPlace(history) /\ Mirror
  BY DEF PageInv, MirrorInv, Talks
<1>3. Steady /\ ~Hydrating
  BY <1>1 DEF AtRest, Steady, Told, Hydrating
<1>B. PICK B : B = {}
  OBVIOUS
<1>h. PICK h : h = history
  OBVIOUS
<1>r. PICK rs : rs = rows
  OBVIOUS
<1>l. PICK l : l = Len(h)
  OBVIOUS
<1>4. Written = h /\ Calling = B
  BY <1>1, <1>h, <1>B DEF Written, Writing, Calling
<1>5. PICK k \in 0..Len(Written) : UpTo(k)
  BY <1>2, <1>3 DEF Mirror
<1>6. FacesIn(rs) = Faces(h, l, B)
  BY <1>3, <1>4, <1>5, <1>l, <1>r DEF UpTo
<1>7. Regular(rs) /\ rs \in Seq(Row) /\ h \in Seq(Items) /\ InPlace(h) /\ l \in Nat /\ DOMAIN h = 1..l /\ l \in 0..Len(h)
  <2>1. h \in Seq(Items)
    BY <1>2, <1>h DEF Types
  <2>2. l \in Nat /\ DOMAIN h = 1..l /\ l \in 0..Len(h)
    BY <1>l, <2>1
  <2>3. QED
    BY <1>2, <1>3, <1>h, <1>r, <2>1, <2>2, PageFits DEF Mirror
<1>8. Said = SaidIn(h, l)
  BY <1>7, <1>h DEF Said, SaidIn
<1>9. ASSUME NEW n \in Said
      PROVE  /\ RowOf(history[n]) = FaceOf(h, l, B, h[n]) /\ h[n] \in Items /\ h[n].who # "result" /\ n \in DOMAIN h
  <2>m. PICK m : m = h[n]
    OBVIOUS
  <2>1. m \in Items /\ m.who # "result" /\ n \in DOMAIN h
    BY <1>7, <1>h, <2>m DEF Said
  <2>2. Outcome(h, l, m.id) <=> \E k2 \in DOMAIN history : history[k2].who = "result" /\ history[k2].id = m.id
    BY <1>7, <1>h DEF Outcome
  <2>3. RowOf(m) = FaceOf(h, l, B, m)
    BY <1>B, <2>2 DEF RowOf, FaceOf
  <2>4. QED
    BY <1>h, <2>m, <2>1, <2>3
<1>10. ASSUME NEW n \in Said PROVE \E i \in ShownIn(rows) : Shows(i, n)
  <2>1. FaceOf(h, l, B, h[n]) \in Faces(h, l, B)
    BY <1>8 DEF Faces
  <2>2. PICK i \in ShownIn(rs) : Face(rs[i]) = FaceOf(h, l, B, h[n])
    BY <1>6, <2>1 DEF FacesIn
  <2>3. QED
    BY <1>9, <1>r, <2>2 DEF Shows
<1>11. ASSUME NEW i \in ShownIn(rows) PROVE \E n \in Said : Shows(i, n)
  <2>1. Face(rs[i]) \in Faces(h, l, B)
    BY <1>6, <1>r DEF FacesIn
  <2>2. PICK n \in Said : Face(rs[i]) = FaceOf(h, l, B, h[n])
    BY <1>8, <2>1 DEF Faces
  <2>3. QED
    BY <1>9, <1>r, <2>2 DEF Shows
<1>12. ASSUME NEW i \in ShownIn(rows), NEW n \in Said, Shows(i, n)
       PROVE  rs[i].id = h[n].id /\ rs[i].who = h[n].who /\ n \in DOMAIN h /\ i \in ShownIn(rs)
  <2>m. PICK m : m = h[n]
    OBVIOUS
  <2>f. PICK f : f = FaceOf(h, l, B, m)
    OBVIOUS
  <2>x. PICK x : x = rs[i]
    OBVIOUS
  <2>1. m \in Items /\ m.who # "result" /\ n \in DOMAIN h /\ RowOf(history[n]) = f
    BY <1>9, <2>m, <2>f
  <2>2. Face(x) = f
    BY <1>12, <1>r, <2>1, <2>x DEF Shows
  <2>3. x \in Row /\ i \in ShownIn(rs)
    BY <1>7, <1>r, <2>x DEF ShownIn
  <2>4. Face(x).id = x.id /\ Face(x).who = x.who
    BY <2>3, RowSides
  <2>5. f.id = m.id /\ f.who = m.who
    BY <2>1, <2>f, FaceOfSides
  <2>6. QED
    BY <2>m, <2>x, <2>1, <2>2, <2>3, <2>4, <2>5
<1>13. ASSUME NEW i \in ShownIn(rows), NEW j \in ShownIn(rows), NEW m \in Said, NEW n \in Said, Shows(i, m), Shows(j, n)
       PROVE  i < j <=> m < n
  <2>1. rs[i].id = h[m].id /\ rs[i].who = h[m].who /\ m \in DOMAIN h /\ i \in ShownIn(rs)
    BY <1>12, <1>13
  <2>2. rs[j].id = h[n].id /\ rs[j].who = h[n].who /\ n \in DOMAIN h /\ j \in ShownIn(rs)
    BY <1>12, <1>13
  <2>3. QED
    BY <1>7, <2>1, <2>2, SameOrder
<1>14. QED
  BY <1>10, <1>11, <1>13

\* What makes the rows the conversation: the rows that show are those of the messages up to where the
\* page is, the reply pi writes is the current one, and a hydration goes on from where it is.
THEOREM TheMirrorHolds == PageSpec => [](PageInv /\ MirrorInv)
<1>1. PageInit => PageInv /\ MirrorInv
  BY InvStarts, MirrorStarts
<1>2. PageInv /\ MirrorInv /\ PageInv' /\ [PageNext]_chatVars => MirrorInv'
  <2> SUFFICES ASSUME PageInv, MirrorInv, PageInv', [PageNext]_chatVars PROVE MirrorInv'
    OBVIOUS
  <2>1. ASSUME NEW k \in Kinds, Type(k) PROVE MirrorInv'
    BY <2>1, TypeMirrors
  <2>2. CASE Hydration
    BY <2>2, HydrationMirrors
  <2>3. CASE MessagesAnswered
    BY <2>3, MessagesAnsweredMirrors
  <2>4. CASE Posted
    BY <2>4, PostedMirrors
  <2>5. CASE Frame
    BY <2>5, FrameMirrors
  <2>6. CASE OtherError
    BY <2>6, OtherErrorMirrors
  <2>7. CASE TakesPrompt
    BY <2>7, TakesPromptMirrors
  <2>8. CASE Starts
    BY <2>8, StartsMirrors
  <2>9. CASE Writes
    BY <2>9, WritesMirrors
  <2>10. CASE Calls
    BY <2>10, CallsMirrors
  <2>11. CASE CallEnds
    BY <2>11, CallEndsMirrors
  <2>12. CASE RunsTool
    BY <2>12, RunsToolMirrors
  <2>13. CASE ToolEnds
    BY <2>13, ToolEndsMirrors
  <2>14. CASE GoesOn
    BY <2>14, GoesOnMirrors
  <2>15. ASSUME NEW stopped \in BOOLEAN, ReplyEnds(stopped) PROVE MirrorInv'
    BY <2>15, ReplyEndsMirrors
  <2>16. CASE NewSession
    BY <2>16, NewSessionMirrors
  <2>17. ASSUME NEW i \in DOMAIN rows, Fork(i) PROVE MirrorInv'
    BY <2>17, ForkMirrors
  <2>18. ASSUME NEW i \in DOMAIN asked, MessagesFail(i) PROVE MirrorInv'
    BY <2>18, MessagesFailMirrors
  <2>19. CASE Stop \/ UNCHANGED chatVars
    BY <2>19, MirrorRests DEF Stop
  <2>20. QED
    BY <2>1, <2>2, <2>3, <2>4, <2>5, <2>6, <2>7, <2>8, <2>9, <2>10, <2>11, <2>12, <2>13, <2>14,
       <2>15, <2>16, <2>17, <2>18, <2>19 DEF PageNext
<1>3. QED
  BY <1>1, <1>2, PageInvHolds, PTL DEF PageSpec

\* Once everything is done the page shows pi's conversation: each message once, in order, each tool
\* call with its outcome (handleEvent, hydrateMessages and sendPrompt write the same rows).
THEOREM ThePageIsTheHistory == PageSpec => []PageIsHistory
<1>1. PageInv /\ MirrorInv => PageIsHistory
  BY MirrorIsHistory
<1>2. QED
  BY <1>1, TheMirrorHolds, PTL
================================================================================
