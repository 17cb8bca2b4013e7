----------------------------- MODULE SessionStore -----------------------------
(***************************************************************************)
(* The session files on disk and who writes them: the pis of the windows    *)
(* (external), the sidebar's rename, delete, archive, restore and import    *)
(* (src/main/session-ops.ts, main.ts), and the list of sessions with its    *)
(* cache (src/main/sessions.ts).                                            *)
(*                                                                         *)
(* A file is a sequence of entries; an entry names its parent, and the last *)
(* one is where a pi that loads the file goes on.  Archiving a file moves   *)
(* it one directory `_archived` deeper, so a path is a name and a depth.    *)
(* The last entry's id stands for the file's mtime, the number of its       *)
(* entries for its size.                                                    *)
(***************************************************************************)
EXTENDS Naturals, Sequences, FiniteSets, FiniteSetsExt

CONSTANTS
  Names,       \* directory and base name of a session file
  First,       \* the session there is at first
  Windows, Lists, \* windows; calls of list()
  Slice,       \* how many entries HEAD_BYTES and TAIL_BYTES hold
  MaxDepth,    \* bound: archives within archives
  MaxWrites,   \* bound: entries
  MaxTroubles, \* bound: entries longer than the slices, reads that fail
  MaxAsked, MaxOpened, MaxListed, \* bounds: requests of the sidebar, sessions opened, lists made
  None

Ids == 1..MaxWrites
Paths == Names \X (0..MaxDepth)

Entry == [id : Ids, parent : Ids \cup {None}, kind : {"message", "name"}, huge : BOOLEAN]

\* `cut`, history: an entry does not follow the last message.
File == [entries : Seq(Entry) \ {<<>>}, cut : BOOLEAN]

ASSUME StoreAssumption ==
  /\ First \in Names /\ None \notin Names /\ None \notin Ids /\ None \notin Paths /\ None \notin File
  /\ Slice \in Nat \ {0} /\ MaxDepth \in Nat /\ MaxWrites \in Nat \ {0} /\ MaxTroubles \in Nat
  /\ MaxAsked \in Nat /\ MaxOpened \in Nat /\ MaxListed \in Nat

VARIABLES
  disk,      \* per path: the file, or None
  drives,    \* per window: the file its pi writes
  leaf,      \* per window: the entry its pi goes on from
  renaming,  \* per window: a rename between its read and its append
  importing, \* per window: an import between its choice of a name and its write; and, history,
             \* whether the name was free
  lists,     \* per call of list(): how far it is with each file
  cache,
  written, troubles, used, \* bounds
  \* history
  talk,      \* per message: the name of the file it was written to
  deleted,   \* messages the user deleted
  twice      \* names under which a file was written while another one of the name was there

fileVars == <<disk, talk, deleted, twice>>
piVars == <<drives, leaf>>
jobVars == <<renaming, importing>>
vars == <<fileVars, piVars, jobVars, lists, cache, written, troubles, used>>

\* One request more of a kind that is bounded.
Uses(kind, bound) == used[kind] < bound /\ used' = [used EXCEPT ![kind] = @ + 1]
Asks == Uses("asked", MaxAsked)

TypeOK ==
  /\ disk \in [Paths -> File \cup {None}]
  /\ drives \in [Windows -> Paths \cup {None}] /\ leaf \in [Windows -> Ids \cup {None}]
  /\ \A w \in Windows : renaming[w] # None => renaming[w] \in [path : Paths, parent : Ids \cup {None}]
  /\ \A w \in Windows : importing[w] # None => importing[w] \in [name : Names, free : BOOLEAN]
  /\ \A p \in Paths : cache[p] # None =>
       cache[p] \in [last : Ids, size : Nat, name : Ids \cup {None}, sound : BOOLEAN]
  /\ written \in 1..MaxWrites /\ troubles \in 0..MaxTroubles
  /\ used \in [asked : 0..MaxAsked, opened : 0..MaxOpened, listed : 0..MaxListed]
  /\ talk \in [Ids -> Names \cup {None}] /\ deleted \subseteq Ids /\ twice \subseteq Names

Message(id, parent, huge) == [id |-> id, parent |-> parent, kind |-> "message", huge |-> huge]
Info(id, parent) == [Message(id, parent, FALSE) EXCEPT !.kind = "name"]
FileOf(e) == [entries |-> <<e>>, cut |-> FALSE]

\* How far a call of list() is with a file: it has none of that path ("off"), has yet to look at
\* it ("todo"), has its time and size and reads it ("read"), or is through with it ("done").
At(where, last, size) == [at |-> where, last |-> last, size |-> size]
Off == At("off", None, 0)
ToDo == At("todo", None, 0)
Through == At("done", None, 0)

Init ==
  /\ disk = [p \in Paths |-> IF p = <<First, 0>> THEN FileOf(Message(1, None, FALSE)) ELSE None]
  /\ drives = [w \in Windows |-> None] /\ leaf = [w \in Windows |-> None]
  /\ renaming = [w \in Windows |-> None] /\ importing = [w \in Windows |-> None]
  /\ lists = [l \in Lists |-> [p \in Paths |-> Off]]
  /\ cache = [p \in Paths |-> None]
  /\ written = 1 /\ troubles = 0 /\ used = [asked |-> 0, opened |-> 0, listed |-> 0]
  /\ talk = [i \in Ids |-> IF i = 1 THEN First ELSE None]
  /\ deleted = {} /\ twice = {}

--------------------------------------------------------------------------------
\* Files

Exists(p) == disk[p] # None
Last(f) == f.entries[Len(f.entries)]
Messages(f) == {f.entries[i].id : i \in {j \in DOMAIN f.entries : f.entries[j].kind = "message"}}

\* Another file of this name is there, in another depth of the archive.
Namesakes(p) == \E q \in Paths \ {p} : q[1] = p[1] /\ Exists(q)

\* An entry is appended; the file is made if it is not there.  `off` says that the entry does not
\* follow the last message.
Appends(p, e, off) ==
  /\ written < MaxWrites /\ written' = e.id
  /\ disk' = [disk EXCEPT ![p] = IF Exists(p)
                THEN [entries |-> Append(disk[p].entries, e), cut |-> disk[p].cut \/ off]
                ELSE [FileOf(e) EXCEPT !.cut = off]]
  /\ talk' = IF e.kind = "message" THEN [talk EXCEPT ![e.id] = p[1]] ELSE talk
  /\ twice' = IF ~Exists(p) /\ Namesakes(p) THEN twice \cup {p[1]} ELSE twice
  /\ UNCHANGED deleted

\* lastEntryId: the id in the last line of the last 256 KB, or null: of a line that is longer,
\* or of a file that is not there.
LastEntryId(p) == IF Exists(p) /\ ~Last(disk[p]).huge THEN Last(disk[p]).id ELSE None

--------------------------------------------------------------------------------
\* The pis, external

\* A window's pi goes to a session that no other drives.
PiOpens(w, p) ==
  /\ Uses("opened", MaxOpened)
  /\ Exists(p) /\ \A v \in Windows : drives[v] # p
  /\ drives' = [drives EXCEPT ![w] = p]
  /\ leaf' = [leaf EXCEPT ![w] = Last(disk[p]).id]
  /\ UNCHANGED <<fileVars, jobVars, lists, cache, written, troubles>>

PiLeaves(w) ==
  /\ drives[w] # None
  /\ drives' = [drives EXCEPT ![w] = None] /\ leaf' = [leaf EXCEPT ![w] = None]
  /\ UNCHANGED <<fileVars, jobVars, lists, cache, written, troubles, used>>

\* The file is no longer the one that the pi wrote last, or another pi, which found it elsewhere,
\* has written to it.
Displaced(w) ==
  LET p == drives[w] IN
  ~Exists(p) \/ LET s == disk[p].entries IN
    ~\E i \in DOMAIN s : s[i].id = leaf[w] /\ \A j \in i + 1 .. Len(s) : s[j].kind = "name"

PiWrites(w, e) ==
  /\ drives[w] # None
  /\ Appends(drives[w], e, Displaced(w))
  /\ leaf' = [leaf EXCEPT ![w] = e.id]
  /\ UNCHANGED <<drives, jobVars, lists, cache, used>>

PiSays(w, huge) ==
  /\ huge => troubles < MaxTroubles
  /\ troubles' = troubles + (IF huge THEN 1 ELSE 0)
  /\ PiWrites(w, Message(written + 1, leaf[w], huge))

--------------------------------------------------------------------------------
\* session-op.  A row of the sidebar may be of a file that is gone meanwhile.

Listed(p) == Exists(p) \/ cache[p] # None

\* The session of the window itself is renamed by its pi.
RenameCurrent(w) == PiWrites(w, Info(written + 1, leaf[w])) /\ UNCHANGED troubles

\* renameSession up to lastEntryId.
RenameStarts(w, p) ==
  /\ Asks
  /\ Listed(p) /\ drives[w] # p /\ renaming[w] = None
  /\ renaming' = [renaming EXCEPT ![w] = [path |-> p, parent |-> LastEntryId(p)]]
  /\ UNCHANGED <<fileVars, piVars, importing, lists, cache, written, troubles>>

\* Mutant: the new entry is not chained to the last one.
RenameUnchained(w) ==
  /\ renaming[w] # None /\ renaming' = [renaming EXCEPT ![w] = None]
  /\ LET r == renaming[w] IN
     Appends(r.path, Info(written + 1, None), ~Exists(r.path) \/ r.parent # Last(disk[r.path]).id)
  /\ UNCHANGED <<piVars, importing, lists, cache, troubles, used>>
\* Then the append, whatever was appended, or moved, in between.
RenameEnds(w) ==
  /\ renaming[w] # None /\ renaming' = [renaming EXCEPT ![w] = None]
  /\ LET r == renaming[w] IN
     Appends(r.path, Info(written + 1, r.parent), ~Exists(r.path) \/ r.parent # Last(disk[r.path]).id)
  /\ UNCHANGED <<piVars, importing, lists, cache, troubles, used>>

RenameFails(w) ==
  /\ renaming[w] # None /\ renaming' = [renaming EXCEPT ![w] = None]
  /\ UNCHANGED <<fileVars, piVars, importing, lists, cache, written, troubles, used>>

\* Only the window's own session is known to be in use.
Delete(w, p) ==
  /\ Asks
  /\ Exists(p) /\ drives[w] # p
  /\ disk' = [disk EXCEPT ![p] = None]
  /\ deleted' = deleted \cup Messages(disk[p])
  /\ UNCHANGED <<talk, twice, piVars, jobVars, lists, cache, written, troubles>>

\* rename: what is at q is replaced.
Move(p, q) ==
  /\ Asks
  /\ Exists(p)
  /\ disk' = [disk EXCEPT ![q] = disk[p], ![p] = None]
  /\ UNCHANGED <<talk, deleted, twice, piVars, jobVars, lists, cache, written, troubles>>

Archive(p) == p[2] < MaxDepth /\ Move(p, <<p[1], p[2] + 1>>)
\* Refused for a path that is not in the archive.
Restore(p) == p[2] > 0 /\ Move(p, <<p[1], p[2] - 1>>)

\* Mutant: the name is not looked at.
ImportAnyway(w, n) ==
  /\ Asks
  /\ importing[w] = None
  /\ importing' = [importing EXCEPT ![w] = [name |-> n, free |-> ~Exists(<<n, 0>>)]]
  /\ UNCHANGED <<fileVars, piVars, renaming, lists, cache, written, troubles>>
\* importSession up to its write: the file's own name, or one with a number that is free.
ImportStarts(w, n) ==
  /\ Asks
  /\ importing[w] = None
  /\ \E m \in Names :
       /\ ~Exists(<<m, 0>>) /\ (m = n \/ Exists(<<n, 0>>))
       /\ importing' = [importing EXCEPT ![w] = [name |-> m, free |-> TRUE]]
  /\ UNCHANGED <<fileVars, piVars, renaming, lists, cache, written, troubles>>

\* writeFile.  Whatever took the name since it was chosen is replaced.
ImportEnds(w) ==
  LET p == <<importing[w].name, 0>> IN
  /\ importing[w] # None /\ importing' = [importing EXCEPT ![w] = None]
  /\ written < MaxWrites /\ written' = written + 1
  /\ disk' = [disk EXCEPT ![p] = FileOf(Message(written', None, FALSE))]
  /\ talk' = [talk EXCEPT ![written'] = p[1]]
  /\ twice' = IF Namesakes(p) \/ (importing[w].free /\ Exists(p)) THEN twice \cup {p[1]} ELSE twice
  /\ UNCHANGED <<deleted, piVars, renaming, lists, cache, troubles, used>>

ImportFails(w) ==
  /\ importing[w] # None /\ importing' = [importing EXCEPT ![w] = None]
  /\ UNCHANGED <<fileVars, piVars, renaming, lists, cache, written, troubles, used>>

--------------------------------------------------------------------------------
\* list()

Whole(s, i, j) == \A k \in i..j : ~s[k].huge
InHead(s) == {i \in 1..Len(s) : i <= Slice /\ Whole(s, 1, i)}
InTail(s) == {i \in 1..Len(s) : i > Len(s) - Slice /\ Whole(s, i, Len(s))}
InfosAmong(s, I) == {i \in I : s[i].kind = "name"}

\* parseLines: the newest name in the tail, else the first one in the head, else none (the list
\* shows the first message).
NameOf(s) ==
  CASE InfosAmong(s, InTail(s)) # {} -> s[Max(InfosAmong(s, InTail(s)))].id
    [] InfosAmong(s, InTail(s)) = {} /\ InfosAmong(s, InHead(s)) # {} -> s[Min(InfosAmong(s, InHead(s)))].id
    [] OTHER -> None

Stamp(p) == [last |-> Last(disk[p]).id, size |-> Len(disk[p].entries)]
Fresh(p) == cache[p] # None /\ Exists(p) /\ [last |-> cache[p].last, size |-> cache[p].size] = Stamp(p)

\* collectFiles; the archive is among the directories.
ListStarts(l) ==
  /\ Uses("listed", MaxListed)
  /\ \A p \in Paths : lists[l][p] = Off
  /\ lists' = [lists EXCEPT ![l] = [p \in Paths |-> IF Exists(p) THEN ToDo ELSE Off]]
  /\ UNCHANGED <<fileVars, piVars, jobVars, cache, written, troubles>>

\* metaFor up to its reads.
Stats(l, p) ==
  /\ lists[l][p] = ToDo
  /\ lists' = [lists EXCEPT ![l][p] = IF ~Exists(p) \/ Fresh(p) THEN Through
                                      ELSE At("read", Last(disk[p]).id, Len(disk[p].entries))]
  /\ UNCHANGED <<fileVars, piVars, jobVars, cache, written, troubles, used>>

Upto(s, n) == SubSeq(s, 1, IF n < Len(s) THEN n ELSE Len(s))

\* Mutant: the file is looked up again after the read.
ReadsThenStats(l, p) ==
  LET st == lists[l][p] IN
  /\ st.at = "read"
  /\ lists' = [lists EXCEPT ![l][p] = Through]
  /\ Exists(p)
  /\ LET got == Upto(disk[p].entries, st.size)
     IN cache' = [cache EXCEPT ![p] = [last |-> Stamp(p).last, size |-> Stamp(p).size, name |-> NameOf(got),
                    sound |-> Len(got) = st.size /\ got[Len(got)].id = st.last]]
  /\ UNCHANGED <<fileVars, piVars, jobVars, written, troubles, used>>
\* metaFor: as much as there was is read, and goes into the cache with the time and size from
\* before.  What cannot be read counts as empty.
ReadsFile(l, p) ==
  LET st == lists[l][p] IN
  /\ st.at = "read"
  /\ lists' = [lists EXCEPT ![l][p] = Through]
  /\ \/ /\ Exists(p)
        /\ LET got == Upto(disk[p].entries, st.size)
           IN cache' = [cache EXCEPT ![p] = [last |-> st.last, size |-> st.size, name |-> NameOf(got),
                          sound |-> Len(got) = st.size /\ got[Len(got)].id = st.last]]
        /\ UNCHANGED troubles
     \/ /\ Exists(p) => troubles < MaxTroubles
        /\ troubles' = troubles + (IF Exists(p) THEN 1 ELSE 0)
        /\ cache' = [cache EXCEPT ![p] = [last |-> st.last, size |-> st.size, name |-> None, sound |-> FALSE]]
  /\ UNCHANGED <<fileVars, piVars, jobVars, written, used>>

\* list() after its workers: entries of files it has not seen are dropped when there are more
\* entries than files.
ListEnds(l) ==
  LET files == {p \in Paths : lists[l][p] # Off}
      cached == {p \in Paths : cache[p] # None} IN
  /\ files # {} /\ \A p \in files : lists[l][p] = Through
  /\ lists' = [lists EXCEPT ![l] = [p \in Paths |-> Off]]
  /\ cache' = IF Cardinality(cached) > Cardinality(files)
              THEN [p \in Paths |-> IF p \in files THEN cache[p] ELSE None] ELSE cache
  /\ UNCHANGED <<fileVars, piVars, jobVars, written, troubles, used>>

Next ==
  \/ \E w \in Windows :
       \/ PiLeaves(w) \/ RenameCurrent(w) \/ RenameEnds(w) \/ RenameFails(w) \/ ImportEnds(w) \/ ImportFails(w)
       \/ \E huge \in BOOLEAN : PiSays(w, huge)
       \/ \E n \in Names : ImportStarts(w, n)
       \/ \E p \in Paths : PiOpens(w, p) \/ RenameStarts(w, p) \/ Delete(w, p)
  \/ \E p \in Paths : Archive(p) \/ Restore(p)
  \/ \E l \in Lists : ListStarts(l) \/ ListEnds(l) \/ \E p \in Paths : Stats(l, p) \/ ReadsFile(l, p)

Spec == Init /\ [][Next]_vars

--------------------------------------------------------------------------------
\* Properties

\* The entries from the last one up to its oldest ancestor: the conversation a pi shows that
\* loads the file.
OnBranch(s) ==
  LET n == Len(s)
      on[i \in 1..n] == i = n \/ \E j \in (i + 1)..n : on[j] /\ s[j].parent = s[i].id
  IN {i \in 1..n : on[i]}

\* A pi that loads a session shows all that was said in it, however often it was renamed, by its
\* own pi or from another window's sidebar, moved, or listed.  Except when a rename appended after
\* something else was appended, after a line it could not read or to a file that was gone; or when
\* the file was taken from its pi, which then went on alone.
TalkStaysTogether ==
  \A p \in Paths : Exists(p) /\ ~disk[p].cut =>
    LET s == disk[p].entries IN \A i \in DOMAIN s : s[i].kind = "message" => i \in OnBranch(s)

\* What was said in a session is in a file until the user deletes it: moving, restoring and
\* importing replace nothing.  Except where a file of a name was written while another one of the
\* name was there: by a pi or a rename whose file had been archived, or by an import.
NothingIsLost ==
  \A i \in 1..written : talk[i] # None =>
    i \in deleted \/ talk[i] \in twice \/ \E p \in Paths : Exists(p) /\ i \in Messages(disk[p])

\* What the cache says of a file that has not changed since is so: the name it was given last,
\* if that is within the tail, and none if it has no name; however reads, writes, moves and
\* overlapping lists were ordered.  Except if the file could not be read, or was another one by then.
CachedNameIsNewest ==
  \A p \in Paths : Fresh(p) /\ cache[p].sound =>
    LET s == disk[p].entries
        named == InfosAmong(s, DOMAIN s) IN
    IF named = {} THEN cache[p].name = None
    ELSE Max(named) \in InTail(s) => cache[p].name = s[Max(named)].id

\* The files are sequences of entries, and none is lost.
FilesAreKept == TypeOK /\ NothingIsLost
================================================================================
