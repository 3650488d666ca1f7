------------------------- MODULE SourceSync_proofs -------------------------
(***************************************************************************)
(* For every provider, any number of sessions, playlist categories, edits  *)
(* and failures: what SourceSync's variables hold, what a run's commit     *)
(* does to playlists, and that, until two runs overlap, the channels are   *)
(* the copy SourceMirror describes and the playlists follow it.            *)
(***************************************************************************)
EXTENDS SourceSync, TLAPS

-----------------------------------------------------------------------------
(* Type correctness *)

\* The names of rows and playlist channels.
LEMMA Naming ==
    /\ \A r \in Rows : KeyOf(r) \in Keys /\ r[2] \in Syncs /\ r = <<KeyOf(r), r[2]>>
    /\ \A r \in Rows : CatOfRow(r) \in Cats
    /\ \A pc \in PCs : RowOf(pc) \in Rows /\ pc[2] \in PCats /\ pc = <<RowOf(pc), pc[2]>>
    /\ \A k \in Keys, s \in Syncs : <<k, s>> \in Rows /\ KeyOf(<<k, s>>) = k
    /\ \A r \in Rows, p \in PCats : <<r, p>> \in PCs /\ RowOf(<<r, p>>) = r
  BY SyncAssumptions DEF Rows, PCs, KeyOf, RowOf, CatOfRow

\* No import is a value of its type.
LEMMA NoImportType == NoImport \in Import
<1>1. (CHOOSE p \in PCats : TRUE) \in PCats
  BY SyncAssumptions
<1>2. (CHOOSE c \in Cats : TRUE) \in Cats
  BY SyncAssumptions
<1> QED
  BY <1>1, <1>2 DEF NoImport, Import, MaybeName

\* What an answer lists: a set of names of each channel.
LEMMA ListingType ==
    ASSUME NEW f \in Feed \union {NoFeed}
    PROVE  Listing(f) \in [Keys -> SUBSET Names]
<1>1. \A k \in Listed(f) : f.name[k] \in Names
  <2>1. CASE f \in Feed
    BY <2>1 DEF Listed, Feed, MaybeName
  <2>2. CASE f = NoFeed
    BY <2>2 DEF Listed, NoFeed
  <2> QED
    BY <2>1, <2>2
<1> QED
  BY <1>1 DEF Listing

\* What the administrator writes while sessions are under way is noted in the type.
LEMMA TouchType ==
    ASSUME TypeOK, NEW pcs \in SUBSET PCs, Touch(pcs)
    PROVE  touched' \in [Syncs -> SUBSET PCs]
  BY DEF TypeOK, Touch

\* What a session that can see its feed computes from it.
LEMMA SessionSets ==
    ASSUME TypeOK, NEW s \in Syncs
    PROVE  /\ Listed(feed[s]) \subseteq Keys
           /\ \A k \in Listed(feed[s]) : feed[s].name[k] \in Names
           /\ NewRows(s) \subseteq Rows
           /\ UpdatedRows(s) \subseteq Rows
           /\ RemovedRows(s) \subseteq Rows
           /\ Outdated(s) \subseteq PCs
           /\ ToRename(s) \subseteq PCs
           /\ NewEntries(s) \subseteq PCs
           /\ Stale(s) \subseteq PCs
<1>1. Listed(feed[s]) \subseteq Keys
  BY DEF Listed
<1>2. \A k \in Listed(feed[s]) : feed[s].name[k] \in Names
  <2>1. CASE feed[s] \in Feed
    BY <2>1 DEF Listed, Feed, MaybeName
  <2>2. CASE feed[s] = NoFeed
    BY <2>2 DEF Listed, NoFeed
  <2> QED
    BY <2>1, <2>2 DEF TypeOK
<1>3. NewRows(s) \subseteq Rows
  BY <1>1 DEF NewRows, Rows
<1>4. pick[s] \in [Keys -> Rows \union {NoRow}]
  BY DEF TypeOK
<1>5. UpdatedRows(s) \subseteq Rows
  BY <1>1, <1>4 DEF UpdatedRows
<1>6. RemovedRows(s) \subseteq Rows
  BY <1>4 DEF RemovedRows
<1>7. NewEntries(s) \subseteq PCs
  BY <1>3 DEF NewEntries, PCs
<1> QED
  BY <1>1, <1>2, <1>3, <1>5, <1>6, <1>7 DEF Outdated, ToRename, Stale

\* The name a session sees of a row is a name or Absent.
LEMMA SeenNameType ==
    ASSUME TypeOK, NEW s \in Syncs, NEW r \in Rows
    PROVE  SeenName(s, r) \in MaybeName
<1>1. CASE r \in NewRows(s) \union UpdatedRows(s) /\ feed[s] \in Feed
  BY <1>1, Naming DEF SeenName, Feed
<1>2. CASE feed[s] = NoFeed
  <2>1. NewRows(s) = {} /\ UpdatedRows(s) = {}
    BY <1>2 DEF NewRows, UpdatedRows, Listed, NoFeed
  <2> QED
    BY <2>1 DEF SeenName, TypeOK
<1>3. CASE r \notin NewRows(s) \union UpdatedRows(s)
  BY <1>3 DEF SeenName, TypeOK
<1> QED
  BY <1>1, <1>2, <1>3 DEF TypeOK

\* Closing a session leaves its variables in their types.
LEMMA CloseType ==
    ASSUME TypeOK, NEW s \in Syncs, Close(s)
    PROVE  /\ step' \in [Syncs -> Steps]
           /\ feed' \in [Syncs -> Feed \union {NoFeed}]
           /\ sawName' \in [Syncs -> [Rows -> MaybeName]]
           /\ sawGone' \in [Syncs -> [Rows -> Gone]]
           /\ pick' \in [Syncs -> [Keys -> Rows \union {NoRow}]]
           /\ rename' \in [Syncs -> [PCs -> MaybeName]]
           /\ import' \in [Syncs -> SUBSET PCs]
           /\ clear' \in [Syncs -> SUBSET PCs]
           /\ locked' \in [Syncs -> SUBSET PCs]
           /\ touched' \in [Syncs -> SUBSET PCs]
           /\ kept' \in [Syncs -> SUBSET Links]
<1>1. NothingLoaded \in [Rows -> MaybeName]
  BY DEF NothingLoaded, MaybeName
<1>2. NothingGone \in [Rows -> Gone]
  BY DEF NothingGone, Gone
<1>3. NothingPicked \in [Keys -> Rows \union {NoRow}]
  BY DEF NothingPicked
<1>4. NoRename \in [PCs -> MaybeName]
  BY DEF NoRename, MaybeName
<1>5. "idle" \in Steps
  BY DEF Steps
<1> QED
  BY <1>1, <1>2, <1>3, <1>4, <1>5 DEF TypeOK, Close

\* The initial states are well typed.
LEMMA TypeInit == Init => TypeOK
<1> SUFFICES ASSUME Init PROVE TypeOK
  OBVIOUS
<1>1. provider \in Feed /\ rowName \in [Rows -> MaybeName]
  BY DEF Init
<1>2. rowGone \in [Rows -> Gone]
  BY DEF Init, Gone
<1>3. pcName \in [PCs -> MaybeName]
  BY <1>1, Naming DEF Init
<1>4. /\ pcLocked \in SUBSET PCs
      /\ links \in SUBSET Links
      /\ step \in [Syncs -> Steps]
      /\ feed \in [Syncs -> Feed \union {NoFeed}]
      /\ import \in [Syncs -> SUBSET PCs]
      /\ clear \in [Syncs -> SUBSET PCs]
      /\ locked \in [Syncs -> SUBSET PCs]
      /\ touched \in [Syncs -> SUBSET PCs]
      /\ kept \in [Syncs -> SUBSET Links]
  BY DEF Init, Steps
<1>5. /\ sawName \in [Syncs -> [Rows -> MaybeName]]
      /\ sawGone \in [Syncs -> [Rows -> Gone]]
      /\ pick \in [Syncs -> [Keys -> Rows \union {NoRow}]]
      /\ rename \in [Syncs -> [PCs -> MaybeName]]
  BY DEF Init, NothingLoaded, NothingGone, NothingPicked, NoRename, MaybeName, Gone
<1>6. imp \in Import
  BY NoImportType DEF Init
<1>7. synced \in [Keys -> SUBSET Names]
  BY <1>1, ListingType DEF Init
<1> QED
  BY <1>1, <1>2, <1>3, <1>4, <1>5, <1>6, <1>7 DEF TypeOK, Init

\* Every step of the program keeps the variables in their types.
LEMMA TypeStep == TypeOK /\ [Next]_vars => TypeOK'
<1> SUFFICES ASSUME TypeOK, [Next]_vars PROVE TypeOK'
  OBVIOUS
<1> USE SyncAssumptions DEF db, session, loaded, todo, runs, bounds
<1>1. ASSUME ProviderChanges PROVE TypeOK'
  <2>1. provider' \in Feed
    <3>1. ASSUME NEW k \in Keys, NEW n \in MaybeName,
                 provider' = [provider EXCEPT !.name[k] = n]
          PROVE  provider' \in Feed
      BY <3>1 DEF TypeOK, Feed
    <3>2. ASSUME NEW c \in Cats,
                 provider' = [provider EXCEPT
                    !.cats = IF c \in @ THEN @ \ {c} ELSE @ \union {c}]
          PROVE  provider' \in Feed
      BY <3>2 DEF TypeOK, Feed
    <3> QED
      BY <1>1, <3>1, <3>2 DEF ProviderChanges
  <2> QED
    BY <1>1, <2>1 DEF ProviderChanges, TypeOK
<1>2. ASSUME NEW r \in Rows, GraceEnds(r) PROVE TypeOK'
  BY <1>2 DEF GraceEnds, TypeOK, Gone
<1>3. ASSUME NEW s \in Syncs, Start(s) PROVE TypeOK'
  BY <1>3 DEF Start, TypeOK, Steps
<1>4. ASSUME NEW s \in Syncs, FetchFails(s) PROVE TypeOK'
  BY <1>4 DEF FetchFails, TypeOK, Steps
<1>5. ASSUME NEW s \in Syncs, ReadChannels(s) PROVE TypeOK'
  BY <1>5 DEF ReadChannels, TypeOK, Steps
<1>6. ASSUME NEW s \in Syncs, WriteChannels(s) PROVE TypeOK'
  <2>1. \A pc \in PCs : SeenName(s, RowOf(pc)) \in MaybeName
    BY SeenNameType, Naming
  <2>2. Absent \in MaybeName
    BY DEF MaybeName
  <2>3. rename' \in [Syncs -> [PCs -> MaybeName]]
    BY <1>6, <2>1, <2>2 DEF WriteChannels, TypeOK
  <2> QED
    BY <1>6, <2>3 DEF WriteChannels, TypeOK, Steps
<1>7. ASSUME NEW s \in Syncs, AutoImport(s) PROVE TypeOK'
  BY <1>7, SessionSets DEF AutoImport, TypeOK, Steps
<1>8. ASSUME NEW s \in Syncs, RenameFails(s) PROVE TypeOK'
  BY <1>8, CloseType DEF RenameFails, TypeOK
<1>9. ASSUME NEW s \in Syncs, ClearStale(s) PROVE TypeOK'
  BY <1>9, SessionSets DEF ClearStale, TypeOK, Steps
<1>10. ASSUME NEW s \in Syncs, Commit(s) PROVE TypeOK'
  <2>1. \A r \in Rows : r \in NewRows(s) \union UpdatedRows(s)
                           => feed[s].name[KeyOf(r)] \in MaybeName
    BY SeenNameType DEF SeenName
  <2>2. rowName' \in [Rows -> MaybeName]
    BY <1>10, <2>1 DEF Commit, CommitRows, TypeOK
  <2>3. rowGone' \in [Rows -> Gone]
    BY <1>10 DEF Commit, CommitRows, TypeOK, Gone
  <2>4. \A pc \in PCs : SeenName(s, RowOf(pc)) \in MaybeName
    BY SeenNameType, Naming
  <2>5. Absent \in MaybeName
    BY DEF MaybeName
  <2>6. pcName' \in [PCs -> MaybeName]
    BY <1>10, <2>4, <2>5 DEF Commit, CommitPlaylists, TypeOK
  <2>7. pcLocked' \in SUBSET PCs
    BY <1>10 DEF Commit, CommitPlaylists, TypeOK
  <2>8. synced' \in [Keys -> SUBSET Names]
    BY <1>10, ListingType DEF Commit, TypeOK
  <2> QED
    BY <1>10, <2>2, <2>3, <2>6, <2>7, <2>8, CloseType DEF Commit, TypeOK
<1>11. ASSUME NEW s \in Syncs, Abort(s) PROVE TypeOK'
  BY <1>11, CloseType DEF Abort, TypeOK
<1>12. ASSUME NEW p \in PCats, NEW c \in Cats, NEW link \in BOOLEAN,
              ImportRead(p, c, link)
       PROVE  TypeOK'
  <2>1. imp' \in Import
    BY <1>12 DEF ImportRead, TypeOK, Import, MaybeName
  <2> QED
    BY <1>12, <2>1 DEF ImportRead, EditBegins, TypeOK
<1>13. ASSUME ImportCommit PROVE TypeOK'
  <2>1. /\ imp.name \in [Rows -> MaybeName]
        /\ imp.target \in PCats /\ imp.cat \in Cats
    BY DEF TypeOK, Import
  <2>2. pcName' \in [PCs -> MaybeName]
    BY <1>13, <2>1, Naming DEF ImportCommit, TypeOK
  <2>3. links' \in SUBSET Links
    BY <1>13, <2>1 DEF ImportCommit, TypeOK, Links
  <2>4. touched' \in [Syncs -> SUBSET PCs]
    BY <1>13, TouchType DEF ImportCommit
  <2> QED
    BY <1>13, <2>2, <2>3, <2>4, NoImportType DEF ImportCommit, TypeOK
<1>14. ASSUME NEW pc \in PCs, NEW n \in Names, NEW lock \in BOOLEAN,
              PatchChannel(pc, n, lock)
       PROVE  TypeOK'
  BY <1>14, TouchType DEF PatchChannel, EditBegins, TypeOK, MaybeName
<1>15. ASSUME NEW pc \in PCs, DeleteChannel(pc) PROVE TypeOK'
  BY <1>15, TouchType DEF DeleteChannel, EditBegins, TypeOK, MaybeName
<1>16. ASSUME NEW l \in Links, AddLink(l) PROVE TypeOK'
  BY <1>16 DEF AddLink, EditBegins, TypeOK
<1>17. ASSUME NEW l \in Links, RemoveLink(l) PROVE TypeOK'
  BY <1>17 DEF RemoveLink, EditBegins, TypeOK
<1>18. CASE UNCHANGED vars
  BY <1>18 DEF vars, TypeOK
<1> QED
  BY <1>1, <1>2, <1>3, <1>4, <1>5, <1>6, <1>7, <1>8, <1>9, <1>10, <1>11,
     <1>12, <1>13, <1>14, <1>15, <1>16, <1>17, <1>18
     DEF Next, RunStep, Admin

\* Every reachable state of a synchronised source is well typed.
THEOREM TypeCorrect == Spec => []TypeOK
  BY TypeInit, TypeStep, PTL DEF Spec

-----------------------------------------------------------------------------
(* The inductive invariant *)

\* The session has read the channels, or skipped that for want of an answer.
Looked(s) == step[s] \in {"read", "written", "imported", "cleared"}

\* What a playlist shows, and what an import is about to insert, exists.
RowsInv ==
    /\ \A pc \in PCs : pcName[pc] # Absent => rowName[RowOf(pc)] # Absent
    /\ \A pc \in pcLocked : pcName[pc] # Absent
    /\ \A r \in Rows : imp.name[r] # Absent => rowName[r] # Absent
    /\ \A r \in Rows : rowName[r] = Absent => rowGone[r] = "no"

\* A session that is closed knows nothing.
ClosedInv(s) ==
    /\ step[s] = "idle" => feed[s] = NoFeed /\ pick[s] = NothingPicked
    /\ step[s] \notin {"imported", "cleared"} => import[s] = {}
    /\ step[s] # "cleared" => clear[s] = {}

\* A session reads the channels with an answer in hand, and picks none without.
FeedInv(s) ==
    /\ step[s] = "fetched" => feed[s] \in Feed
    /\ feed[s] = NoFeed => \A k \in Keys : pick[s][k] = NoRow

\* What a session picked exists; what it will insert does not, since only it
\* inserts a row of that name.
PickInv(s) ==
    /\ \A k \in Keys : pick[s][k] # NoRow =>
          KeyOf(pick[s][k]) = k /\ rowName[pick[s][k]] # Absent
    /\ Looked(s) => \A r \in NewRows(s) : rowName[r] = Absent

\* What a session is about to do to playlist channels.
TodoInv(s) ==
    /\ \A pc \in PCs : rename[s][pc] # Absent => rowName[RowOf(pc)] # Absent
    /\ \A pc \in locked[s] : rowName[RowOf(pc)] # Absent /\ rename[s][pc] = Absent
    /\ \A pc \in clear[s] : rowName[RowOf(pc)] # Absent
    /\ \A pc \in import[s] : RowOf(pc) \in NewRows(s)

\* The links a session has had from its start, and what it imports for them.
LinkInv(s) ==
    /\ kept[s] \subseteq links
    /\ step[s] \in {"imported", "cleared"} =>
          \A r \in NewRows(s), p \in PCats :
             <<p, CatOfRow(r)>> \in kept[s] => <<r, p>> \in import[s]

SessionInv(s) == ClosedInv(s) /\ FeedInv(s) /\ PickInv(s) /\ TodoInv(s) /\ LinkInv(s)

IInv == TypeOK /\ RowsInv /\ \A s \in Syncs : SessionInv(s)

-----------------------------------------------------------------------------
(* It is inductive *)

\* A step of another actor keeps a session's invariant when it leaves the
\* session alone, deletes no row, inserts none the session is to insert, and
\* takes a link away from the session before it goes.
LEMMA Untouched ==
    ASSUME TypeOK, NEW o \in Syncs, SessionInv(o),
           step'[o] = step[o], feed'[o] = feed[o], pick'[o] = pick[o],
           rename'[o] = rename[o], import'[o] = import[o], clear'[o] = clear[o],
           locked'[o] = locked[o],
           kept'[o] \subseteq kept[o], kept'[o] \subseteq links',
           \A r \in Rows : rowName[r] # Absent => rowName'[r] # Absent,
           Looked(o) => \A r \in NewRows(o) : rowName'[r] = rowName[r]
    PROVE  SessionInv(o)'
<1>1. NewRows(o)' = NewRows(o)
  BY DEF NewRows, Listed
<1>2. ClosedInv(o)' /\ FeedInv(o)'
  BY DEF SessionInv, ClosedInv, FeedInv
<1>3. PickInv(o)'
  <2>1. \A k \in Keys : pick[o][k] # NoRow => pick[o][k] \in Rows
    BY DEF TypeOK
  <2>2. \A k \in Keys : pick[o][k] # NoRow =>
           KeyOf(pick[o][k]) = k /\ rowName'[pick[o][k]] # Absent
    BY <2>1 DEF SessionInv, PickInv
  <2>3. Looked(o) => \A r \in NewRows(o) : rowName'[r] = Absent
    BY DEF SessionInv, PickInv
  <2> QED
    BY <1>1, <2>2, <2>3 DEF PickInv, Looked
<1>4. TodoInv(o)'
  <2>1. \A pc \in PCs : RowOf(pc) \in Rows
    BY Naming
  <2>2. locked[o] \subseteq PCs /\ clear[o] \subseteq PCs
    BY DEF TypeOK
  <2> QED
    BY <1>1, <2>1, <2>2 DEF SessionInv, TodoInv
<1>5. LinkInv(o)'
  BY <1>1 DEF SessionInv, LinkInv
<1> QED
  BY <1>2, <1>3, <1>4, <1>5 DEF SessionInv

\* A session that has just been closed satisfies its invariant.
LEMMA Closed ==
    ASSUME TypeOK, NEW s \in Syncs, Close(s) PROVE SessionInv(s)'
<1>1. /\ step'[s] = "idle" /\ feed'[s] = NoFeed /\ pick'[s] = NothingPicked
      /\ rename'[s] = NoRename /\ import'[s] = {} /\ clear'[s] = {}
      /\ locked'[s] = {} /\ kept'[s] = {}
  BY DEF Close, TypeOK
<1>2. \A k \in Keys : NothingPicked[k] = NoRow
  BY DEF NothingPicked
<1>3. \A pc \in PCs : NoRename[pc] = Absent
  BY DEF NoRename
<1>4. ClosedInv(s)' /\ FeedInv(s)'
  BY <1>1, <1>2 DEF ClosedInv, FeedInv
<1>5. PickInv(s)'
  BY <1>1, <1>2 DEF PickInv, Looked
<1>6. TodoInv(s)'
  BY <1>1, <1>3 DEF TodoInv
<1>7. LinkInv(s)'
  BY <1>1 DEF LinkInv
<1> QED
  BY <1>4, <1>5, <1>6, <1>7 DEF SessionInv

\* Closing a session leaves the others alone.
LEMMA CloseOther ==
    ASSUME TypeOK, NEW s \in Syncs, Close(s), NEW o \in Syncs, o # s
    PROVE  /\ step'[o] = step[o] /\ feed'[o] = feed[o] /\ pick'[o] = pick[o]
           /\ rename'[o] = rename[o] /\ import'[o] = import[o]
           /\ clear'[o] = clear[o] /\ locked'[o] = locked[o] /\ kept'[o] = kept[o]
  BY DEF Close, TypeOK

\* What a commit does to the names of rows: it keeps the rows there are,
\* inserts the session's new ones, and no others.
LEMMA CommitNames ==
    ASSUME IInv, NEW s \in Syncs, Commit(s)
    PROVE  /\ \A r \in Rows : rowName[r] # Absent => rowName'[r] # Absent
           /\ \A r \in NewRows(s) : rowName'[r] # Absent
           /\ \A r \in Rows : rowName[r] = Absent /\ rowName'[r] # Absent
                                => r \in NewRows(s)
<1>1. TypeOK /\ SessionInv(s)
  BY DEF IInv
<1>2. \A r \in NewRows(s) \union UpdatedRows(s) :
         r \in Rows /\ feed[s].name[KeyOf(r)] \in Names
  <2>1. ASSUME NEW k \in Listed(feed[s]), pick[s][k] = NoRow
        PROVE  <<k, s>> \in Rows /\ feed[s].name[KeyOf(<<k, s>>)] \in Names
    BY <1>1, SessionSets, Naming
  <2>2. ASSUME NEW k \in Listed(feed[s]), pick[s][k] # NoRow
        PROVE  /\ pick[s][k] \in Rows
               /\ feed[s].name[KeyOf(pick[s][k])] \in Names
    <3>1. k \in Keys /\ feed[s].name[k] \in Names
      BY <1>1, SessionSets
    <3>2. KeyOf(pick[s][k]) = k /\ pick[s][k] \in Rows
      BY <1>1, <2>2, <3>1 DEF SessionInv, PickInv, TypeOK
    <3> QED
      BY <3>1, <3>2
  <2> QED
    BY <2>1, <2>2 DEF NewRows, UpdatedRows
<1>3. \A r \in UpdatedRows(s) : rowName[r] # Absent
  <2>1. Listed(feed[s]) \subseteq Keys
    BY <1>1, SessionSets
  <2> QED
    BY <1>1, <2>1 DEF UpdatedRows, SessionInv, PickInv
<1>4. \A r \in Rows : rowName'[r] =
         IF \/ r \in NewRows(s)
            \/ r \in UpdatedRows(s) /\ sawName[s][r] # feed[s].name[KeyOf(r)]
         THEN feed[s].name[KeyOf(r)] ELSE rowName[r]
  BY DEF Commit, CommitRows
<1> QED
  BY <1>2, <1>3, <1>4, SyncAssumptions

\* The rows a session inserts are its own.
LEMMA NewRowsOwn ==
    ASSUME TypeOK, NEW s \in Syncs, NEW r \in NewRows(s)
    PROVE  r \in Rows /\ r[2] = s /\ KeyOf(r) \in Listed(feed[s])
                      /\ pick[s][KeyOf(r)] = NoRow
  BY SessionSets, Naming DEF NewRows, KeyOf

LEMMA InvInit == Init => IInv
<1> SUFFICES ASSUME Init PROVE IInv
  OBVIOUS
<1>1. TypeOK
  BY TypeInit
<1>2. RowsInv
  <2>1. \A pc \in PCs : pcName[pc] = rowName[RowOf(pc)]
    BY DEF Init
  <2>2. \A r \in Rows : imp.name[r] = Absent
    BY DEF Init, NoImport
  <2> QED
    BY <1>1, <2>1, <2>2 DEF RowsInv, Init, TypeOK
<1>3. ASSUME NEW s \in Syncs PROVE SessionInv(s)
  <2>1. /\ step[s] = "idle" /\ feed[s] = NoFeed /\ pick[s] = NothingPicked
        /\ rename[s] = NoRename /\ import[s] = {} /\ clear[s] = {}
        /\ locked[s] = {} /\ kept[s] = {}
    BY DEF Init
  <2>2. \A k \in Keys : NothingPicked[k] = NoRow
    BY DEF NothingPicked
  <2>3. \A pc \in PCs : NoRename[pc] = Absent
    BY DEF NoRename
  <2> QED
    BY <2>1, <2>2, <2>3
       DEF SessionInv, ClosedInv, FeedInv, PickInv, TodoInv, LinkInv, Looked
<1> QED
  BY <1>1, <1>2, <1>3 DEF IInv

\* Every step keeps playlists within the rows there are.
LEMMA RowsStep == IInv /\ [Next]_vars => RowsInv'
<1> SUFFICES ASSUME IInv, [Next]_vars PROVE RowsInv'
  OBVIOUS
<1>0. TypeOK /\ RowsInv
  BY DEF IInv
<1>1. ASSUME NEW s \in Syncs, Commit(s) PROVE RowsInv'
  <2>1. SessionInv(s)
    BY DEF IInv
  <2>2. \A pc \in PCs : RowOf(pc) \in Rows
    BY Naming
  <2>3. \A r \in Rows : rowName[r] # Absent => rowName'[r] # Absent
    BY <1>1, CommitNames
  <2>4. ASSUME NEW pc \in PCs, pcName'[pc] # Absent PROVE rowName'[RowOf(pc)] # Absent
    <3>1. CASE pc \in import[s]
      BY <1>1, <2>1, <3>1, CommitNames DEF SessionInv, TodoInv
    <3>2. CASE pc \in ToRename(s)
      BY <2>1, <2>2, <2>3, <3>2 DEF ToRename, SessionInv, TodoInv
    <3>3. CASE pc \notin import[s] /\ pc \notin ToRename(s)
      <4>1. pcName[pc] # Absent
        BY <1>1, <2>4, <3>3 DEF Commit, CommitPlaylists
      <4> QED
        BY <1>0, <2>2, <2>3, <4>1 DEF RowsInv
    <3> QED
      BY <3>1, <3>2, <3>3
  <2>5. ASSUME NEW pc \in pcLocked' PROVE pcName'[pc] # Absent
    <3>1. pc \in PCs /\ pc \in pcLocked /\ pc \notin clear[s]
      BY <1>0, <1>1, <2>5 DEF Commit, CommitPlaylists, TypeOK
    <3>2. CASE pc \in import[s]
      <4>1. RowOf(pc) \in NewRows(s)
        BY <2>1, <3>2 DEF SessionInv, TodoInv
      <4>2. SeenName(s, RowOf(pc)) # Absent
        <5>1. KeyOf(RowOf(pc)) \in Listed(feed[s])
          BY <1>0, <4>1, NewRowsOwn
        <5> QED
          BY <1>0, <4>1, <5>1, SessionSets, SyncAssumptions DEF SeenName
      <4> QED
        BY <1>1, <3>1, <3>2, <4>2 DEF Commit, CommitPlaylists
    <3>3. CASE pc \notin import[s]
      <4>1. pcName[pc] # Absent
        BY <1>0, <3>1 DEF RowsInv
      <4> QED
        BY <1>1, <3>1, <3>3, <4>1 DEF Commit, CommitPlaylists, ToRename
    <3> QED
      BY <3>2, <3>3
  <2>6. \A r \in Rows : imp'.name[r] # Absent => rowName'[r] # Absent
    BY <1>0, <1>1, <2>3 DEF Commit, RowsInv
  <2>7. ASSUME NEW r \in Rows, rowName'[r] = Absent PROVE rowGone'[r] = "no"
    <3>1. rowName[r] = Absent /\ rowGone[r] = "no"
      BY <1>0, <2>3, <2>7 DEF RowsInv
    <3>2. r \notin RemovedRows(s)
      BY <2>1, <3>1 DEF RemovedRows, SessionInv, PickInv
    <3> QED
      BY <1>1, <3>1, <3>2 DEF Commit, CommitRows
  <2> QED
    BY <2>4, <2>5, <2>6, <2>7 DEF RowsInv
<1>2. ASSUME NEW p \in PCats, NEW c \in Cats, NEW link \in BOOLEAN,
             ImportRead(p, c, link)
      PROVE  RowsInv'
  <2>1. \A r \in Rows : imp'.name[r] # Absent => rowName[r] # Absent
    BY <1>2 DEF ImportRead
  <2> QED
    BY <1>0, <1>2, <2>1 DEF ImportRead, RowsInv, db
<1>3. ASSUME ImportCommit PROVE RowsInv'
  <2>1. \A pc \in PCs : RowOf(pc) \in Rows
    BY Naming
  <2>2. \A r \in Rows : NoImport.name[r] = Absent
    BY DEF NoImport
  <2>3. \A pc \in PCs : pcName'[pc] # Absent => rowName[RowOf(pc)] # Absent
    BY <1>0, <1>3, <2>1 DEF ImportCommit, RowsInv
  <2>4. \A pc \in pcLocked : pcName'[pc] # Absent
    BY <1>0, <1>3 DEF ImportCommit, RowsInv, TypeOK
  <2> QED
    BY <1>0, <1>3, <2>2, <2>3, <2>4 DEF ImportCommit, RowsInv
<1>4. ASSUME NEW pc \in PCs, NEW n \in Names, NEW lock \in BOOLEAN,
             PatchChannel(pc, n, lock)
      PROVE  RowsInv'
  <2>1. pcName[pc] # Absent /\ n # Absent
    BY <1>4, SyncAssumptions DEF PatchChannel, Editable
  <2>2. \A q \in PCs : pcName'[q] # Absent <=> pcName[q] # Absent
    BY <1>0, <1>4, <2>1 DEF PatchChannel, TypeOK
  <2>3. \A q \in pcLocked' : q \in PCs /\ pcName[q] # Absent
    BY <1>0, <1>4, <2>1 DEF PatchChannel, RowsInv, TypeOK
  <2> QED
    BY <1>0, <1>4, <2>2, <2>3 DEF PatchChannel, RowsInv
<1>5. ASSUME NEW pc \in PCs, DeleteChannel(pc) PROVE RowsInv'
  <2>1. \A q \in PCs : pcName'[q] # Absent <=> q # pc /\ pcName[q] # Absent
    BY <1>0, <1>5 DEF DeleteChannel, TypeOK
  <2>2. \A q \in pcLocked' : q \in PCs /\ q # pc /\ pcName[q] # Absent
    BY <1>0, <1>5 DEF DeleteChannel, RowsInv, TypeOK
  <2> QED
    BY <1>0, <1>5, <2>1, <2>2 DEF DeleteChannel, RowsInv
<1>6. CASE UNCHANGED <<rowName, rowGone, pcName, pcLocked, imp>>
  BY <1>0, <1>6 DEF RowsInv
<1>7. CASE ProviderChanges
  BY <1>6, <1>7 DEF ProviderChanges, db
<1>11. ASSUME NEW r \in Rows, GraceEnds(r) PROVE RowsInv'
  <2>1. \A q \in Rows : rowName[q] = Absent => rowGone'[q] = "no"
    BY <1>0, <1>11 DEF GraceEnds, RowsInv, TypeOK
  <2> QED
    BY <1>0, <1>11, <2>1 DEF GraceEnds, RowsInv
<1>8. ASSUME NEW s \in Syncs, \/ Start(s) \/ FetchFails(s) \/ Abort(s)
                              \/ ReadChannels(s) \/ WriteChannels(s) \/ AutoImport(s)
                              \/ RenameFails(s) \/ ClearStale(s)
      PROVE  RowsInv'
  BY <1>6, <1>8 DEF Start, FetchFails, Abort, ReadChannels, WriteChannels,
                    AutoImport, RenameFails, ClearStale, db
<1>9. ASSUME NEW l \in Links, AddLink(l) \/ RemoveLink(l) PROVE RowsInv'
  BY <1>6, <1>9 DEF AddLink, RemoveLink
<1>10. CASE UNCHANGED vars
  BY <1>6, <1>10 DEF vars, db
<1> QED
  BY <1>1, <1>2, <1>3, <1>4, <1>5, <1>7, <1>8, <1>9, <1>10, <1>11
     DEF Next, RunStep, Admin

\* A step that changes no session, inserts no row and drops no link.
LEMMA SessionsUntouched ==
    ASSUME IInv, UNCHANGED <<session, locked, kept>>, links \subseteq links', rowName' = rowName
    PROVE  \A o \in Syncs : SessionInv(o)'
<1>1. ASSUME NEW o \in Syncs PROVE SessionInv(o)'
  <2>1. TypeOK /\ SessionInv(o) /\ kept[o] \subseteq links
    BY DEF IInv, SessionInv, LinkInv
  <2> QED
    BY <2>1, Untouched DEF session, todo, loaded
<1> QED
  BY <1>1

\* A step of one session is enough to look at where it alone changes.
LEMMA OthersUntouched ==
    ASSUME IInv, NEW s \in Syncs, SessionInv(s)', links' = links, rowName' = rowName,
           \A o \in Syncs \ {s} :
              /\ step'[o] = step[o] /\ feed'[o] = feed[o] /\ pick'[o] = pick[o]
              /\ rename'[o] = rename[o] /\ import'[o] = import[o]
              /\ clear'[o] = clear[o] /\ locked'[o] = locked[o] /\ kept'[o] = kept[o]
    PROVE  \A o \in Syncs : SessionInv(o)'
<1>1. ASSUME NEW o \in Syncs, o # s PROVE SessionInv(o)'
  <2>1. TypeOK /\ SessionInv(o) /\ kept[o] \subseteq links
    BY DEF IInv, SessionInv, LinkInv
  <2> QED
    BY <1>1, <2>1, Untouched
<1> QED
  BY <1>1

\* Every step of the program keeps every session's invariant.
LEMMA SessionStep == IInv /\ [Next]_vars => \A o \in Syncs : SessionInv(o)'
<1> SUFFICES ASSUME IInv, [Next]_vars PROVE \A o \in Syncs : SessionInv(o)'
  OBVIOUS
<1>0. TypeOK /\ RowsInv /\ \A s \in Syncs : SessionInv(s)
  BY DEF IInv
<1>1. CASE \/ ProviderChanges \/ \E r \in Rows : GraceEnds(r)
  BY <1>1, SessionsUntouched DEF ProviderChanges, GraceEnds, db, runs
<1>2. ASSUME NEW s \in Syncs, Start(s) PROVE \A o \in Syncs : SessionInv(o)'
  <2>1. /\ step'[s] = "fetched" /\ kept'[s] = links /\ links' = links
        /\ pick' = pick /\ rename' = rename /\ import' = import /\ clear' = clear
        /\ locked' = locked /\ rowName' = rowName
    BY <1>0, <1>2 DEF Start, TypeOK, db, loaded, todo
  <2>2. step[s] = "idle"
    BY <1>2 DEF Start, Active
  <2>3. import[s] = {} /\ clear[s] = {}
    BY <1>0, <2>2 DEF SessionInv, ClosedInv
  <2>4. ClosedInv(s)' /\ FeedInv(s)'
    <3>1. \A k \in Keys : pick[s][k] = NoRow
      BY <1>0, <2>2 DEF SessionInv, ClosedInv, NothingPicked
    <3>2. feed'[s] \in Feed
      BY <1>0, <1>2 DEF Start, TypeOK
    <3> QED
      BY <2>1, <2>3, <3>1, <3>2 DEF ClosedInv, FeedInv
  <2>5. PickInv(s)'
    BY <1>0, <2>1 DEF SessionInv, PickInv, Looked
  <2>6. TodoInv(s)'
    BY <1>0, <2>1, <2>3 DEF SessionInv, TodoInv
  <2>7. LinkInv(s)'
    BY <2>1 DEF LinkInv
  <2>8. SessionInv(s)'
    BY <2>4, <2>5, <2>6, <2>7 DEF SessionInv
  <2> QED
    BY <1>0, <1>2, <2>1, <2>8, OthersUntouched DEF Start, TypeOK
<1>3. ASSUME NEW s \in Syncs, FetchFails(s) PROVE \A o \in Syncs : SessionInv(o)'
  <2>1. /\ step'[s] = "imported" /\ kept' = kept /\ links' = links /\ feed' = feed
        /\ pick' = pick /\ rename' = rename /\ import' = import /\ clear' = clear
        /\ locked' = locked /\ rowName' = rowName
    BY <1>0, <1>3 DEF FetchFails, TypeOK, db, loaded, todo
  <2>2. step[s] = "idle"
    BY <1>3 DEF FetchFails, Active
  <2>3. feed[s] = NoFeed /\ import[s] = {} /\ clear[s] = {}
    BY <1>0, <2>2 DEF SessionInv, ClosedInv
  <2>4. NewRows(s)' = {}
    BY <2>1, <2>3 DEF NewRows, Listed, NoFeed
  <2>5. ClosedInv(s)' /\ FeedInv(s)'
    BY <1>0, <2>1, <2>3 DEF SessionInv, ClosedInv, FeedInv
  <2>6. PickInv(s)'
    BY <1>0, <2>1, <2>4 DEF SessionInv, PickInv
  <2>7. TodoInv(s)'
    BY <1>0, <2>1, <2>3 DEF SessionInv, TodoInv
  <2>8. LinkInv(s)'
    BY <1>0, <2>1, <2>4 DEF SessionInv, LinkInv
  <2>9. SessionInv(s)'
    BY <2>5, <2>6, <2>7, <2>8 DEF SessionInv
  <2> QED
    BY <1>0, <1>3, <2>1, <2>9, OthersUntouched DEF FetchFails, TypeOK
<1>4. ASSUME NEW s \in Syncs, ReadChannels(s) PROVE \A o \in Syncs : SessionInv(o)'
  <2>1. /\ step[s] = "fetched" /\ step'[s] = "read" /\ kept' = kept /\ links' = links
        /\ feed' = feed /\ rename' = rename /\ import' = import /\ clear' = clear
        /\ locked' = locked /\ rowName' = rowName
    BY <1>0, <1>4 DEF ReadChannels, TypeOK, db, todo
  <2>2. import[s] = {} /\ clear[s] = {}
    BY <1>0, <2>1 DEF SessionInv, ClosedInv
  <2>3. \A k \in Keys : pick'[s][k] \in IF Found(k) = {} THEN {NoRow} ELSE Found(k)
    BY <1>0, <1>4 DEF ReadChannels, TypeOK
  <2>4. ASSUME NEW k \in Keys, pick'[s][k] # NoRow
        PROVE  KeyOf(pick'[s][k]) = k /\ rowName[pick'[s][k]] # Absent
    BY <2>3, <2>4 DEF Found
  <2>5. ASSUME NEW k \in Keys, pick'[s][k] = NoRow
        PROVE  \A r \in Rows : KeyOf(r) = k => rowName[r] = Absent
    BY <2>3, <2>5, NoRowAssumption DEF Found
  <2>6. \A r \in NewRows(s)' : rowName[r] = Absent
    <3>1. SUFFICES ASSUME NEW k \in Listed(feed[s]), pick'[s][k] = NoRow
                   PROVE  rowName[<<k, s>>] = Absent
      BY <2>1 DEF NewRows, Listed
    <3>2. k \in Keys
      BY DEF Listed
    <3> QED
      BY <2>5, <3>1, <3>2, Naming
  <2>7. ClosedInv(s)' /\ FeedInv(s)'
    <3>1. feed[s] \in Feed
      BY <1>0, <2>1 DEF SessionInv, FeedInv
    <3>2. ASSUME NEW k \in Keys PROVE feed[s] # NoFeed
      BY <3>1, <3>2 DEF Feed, NoFeed
    <3> QED
      BY <2>1, <2>2, <3>2 DEF ClosedInv, FeedInv
  <2>8. PickInv(s)'
    BY <2>1, <2>4, <2>6 DEF PickInv
  <2>9. TodoInv(s)'
    BY <1>0, <2>1, <2>2 DEF SessionInv, TodoInv
  <2>10. LinkInv(s)'
    BY <1>0, <2>1 DEF SessionInv, LinkInv
  <2>11. SessionInv(s)'
    BY <2>7, <2>8, <2>9, <2>10 DEF SessionInv
  <2> QED
    BY <1>0, <1>4, <2>1, <2>11, OthersUntouched DEF ReadChannels, TypeOK
<1>5. ASSUME NEW s \in Syncs, WriteChannels(s) PROVE \A o \in Syncs : SessionInv(o)'
  <2>1. /\ step[s] = "read" /\ step'[s] = "written" /\ kept' = kept /\ links' = links
        /\ feed' = feed /\ pick' = pick /\ import' = import /\ clear' = clear
        /\ locked'[s] = pcLocked /\ rowName' = rowName
    BY <1>0, <1>5 DEF WriteChannels, TypeOK, db, loaded
  <2>2. import[s] = {} /\ clear[s] = {}
    BY <1>0, <2>1 DEF SessionInv, ClosedInv
  <2>3. \A pc \in PCs : rename'[s][pc] =
           IF pc \in Outdated(s) THEN SeenName(s, RowOf(pc)) ELSE Absent
    BY <1>0, <1>5 DEF WriteChannels, TypeOK
  <2>4. \A pc \in PCs : rename'[s][pc] # Absent => rowName[RowOf(pc)] # Absent
    BY <1>0, <2>3 DEF Outdated, RowsInv
  <2>5. \A pc \in pcLocked : pc \in PCs /\ rowName[RowOf(pc)] # Absent
                                        /\ rename'[s][pc] = Absent
    BY <1>0, <2>3 DEF Outdated, RowsInv, TypeOK
  <2>6. ClosedInv(s)' /\ FeedInv(s)'
    BY <1>0, <2>1, <2>2 DEF SessionInv, ClosedInv, FeedInv
  <2>7. PickInv(s)'
    BY <1>0, <2>1 DEF SessionInv, PickInv, Looked, NewRows, Listed
  <2>8. TodoInv(s)'
    BY <2>1, <2>2, <2>4, <2>5 DEF TodoInv
  <2>9. LinkInv(s)'
    BY <1>0, <2>1 DEF SessionInv, LinkInv
  <2>10. SessionInv(s)'
    BY <2>6, <2>7, <2>8, <2>9 DEF SessionInv
  <2> QED
    BY <1>0, <1>5, <2>1, <2>10, OthersUntouched DEF WriteChannels, TypeOK
<1>6. ASSUME NEW s \in Syncs, AutoImport(s) PROVE \A o \in Syncs : SessionInv(o)'
  <2>1. /\ step[s] = "written" /\ step'[s] = "imported" /\ kept' = kept
        /\ links' = links /\ feed' = feed /\ pick' = pick /\ rename' = rename
        /\ import'[s] = NewEntries(s) /\ clear' = clear /\ locked' = locked
        /\ rowName' = rowName
    BY <1>0, <1>6 DEF AutoImport, TypeOK, db, loaded
  <2>2. clear[s] = {} /\ kept[s] \subseteq links
    BY <1>0, <2>1 DEF SessionInv, ClosedInv, LinkInv
  <2>3. NewRows(s)' = NewRows(s)
    BY <2>1 DEF NewRows, Listed
  <2>4. ClosedInv(s)' /\ FeedInv(s)'
    BY <1>0, <2>1, <2>2 DEF SessionInv, ClosedInv, FeedInv
  <2>5. PickInv(s)'
    BY <1>0, <2>1, <2>3 DEF SessionInv, PickInv, Looked
  <2>6. \A pc \in NewEntries(s) : RowOf(pc) \in NewRows(s)
    BY DEF NewEntries, RowOf
  <2>7. TodoInv(s)'
    BY <1>0, <2>1, <2>2, <2>3, <2>6 DEF SessionInv, TodoInv
  <2>8. ASSUME NEW r \in NewRows(s), NEW p \in PCats, <<p, CatOfRow(r)>> \in kept[s]
        PROVE  <<r, p>> \in NewEntries(s)
    BY <2>2, <2>8 DEF NewEntries, RowOf
  <2>9. LinkInv(s)'
    BY <2>1, <2>2, <2>3, <2>8 DEF LinkInv
  <2>10. SessionInv(s)'
    BY <2>4, <2>5, <2>7, <2>9 DEF SessionInv
  <2> QED
    BY <1>0, <1>6, <2>1, <2>10, OthersUntouched DEF AutoImport, TypeOK
<1>7. ASSUME NEW s \in Syncs, RenameFails(s) \/ Abort(s)
      PROVE  \A o \in Syncs : SessionInv(o)'
  <2>1. Close(s) /\ links' = links /\ rowName' = rowName
    BY <1>7 DEF RenameFails, Abort, db
  <2> QED
    BY <1>0, <2>1, Closed, CloseOther, OthersUntouched
<1>8. ASSUME NEW s \in Syncs, ClearStale(s) PROVE \A o \in Syncs : SessionInv(o)'
  <2>1. /\ step[s] = "imported" /\ step'[s] = "cleared" /\ kept' = kept
        /\ links' = links /\ feed' = feed /\ pick' = pick /\ rename' = rename
        /\ import' = import /\ clear'[s] = Stale(s) /\ locked' = locked
        /\ rowName' = rowName
    BY <1>0, <1>8 DEF ClearStale, TypeOK, db, loaded
  <2>2. NewRows(s)' = NewRows(s)
    BY <2>1 DEF NewRows, Listed
  <2>3. ClosedInv(s)' /\ FeedInv(s)'
    BY <1>0, <2>1 DEF SessionInv, ClosedInv, FeedInv
  <2>4. PickInv(s)'
    BY <1>0, <2>1, <2>2 DEF SessionInv, PickInv, Looked
  <2>5. \A pc \in Stale(s) : rowName[RowOf(pc)] # Absent
    BY <1>0 DEF Stale, RowsInv
  <2>6. TodoInv(s)'
    BY <1>0, <2>1, <2>2, <2>5 DEF SessionInv, TodoInv
  <2>7. LinkInv(s)'
    BY <1>0, <2>1, <2>2 DEF SessionInv, LinkInv
  <2>8. SessionInv(s)'
    BY <2>3, <2>4, <2>6, <2>7 DEF SessionInv
  <2> QED
    BY <1>0, <1>8, <2>1, <2>8, OthersUntouched DEF ClearStale, TypeOK
<1>9. ASSUME NEW s \in Syncs, Commit(s) PROVE \A o \in Syncs : SessionInv(o)'
  <2>1. Close(s) /\ links' = links
    BY <1>9 DEF Commit
  <2>2. ASSUME NEW o \in Syncs, o # s PROVE SessionInv(o)'
    <3>1. \A r \in Rows : rowName[r] # Absent => rowName'[r] # Absent
      BY <1>9, CommitNames
    <3>2. ASSUME Looked(o), NEW r \in NewRows(o) PROVE rowName'[r] = rowName[r]
      <4>1. rowName[r] = Absent
        BY <1>0, <3>2 DEF SessionInv, PickInv
      <4>2. r \in Rows /\ r \notin NewRows(s)
        BY <1>0, <2>2, NewRowsOwn
      <4> QED
        BY <1>9, <4>1, <4>2, CommitNames
    <3>3. kept[o] \subseteq links
      BY <1>0 DEF SessionInv, LinkInv
    <3> QED
      BY <1>0, <2>1, <2>2, <3>1, <3>2, <3>3, CloseOther, Untouched
  <2> QED
    BY <1>0, <2>1, <2>2, Closed
<1>10. ASSUME NEW l \in Links, RemoveLink(l) PROVE \A o \in Syncs : SessionInv(o)'
  <2>1. /\ step' = step /\ feed' = feed /\ pick' = pick /\ rename' = rename
        /\ import' = import /\ clear' = clear /\ locked' = locked
        /\ rowName' = rowName /\ links' = links \ {l}
        /\ kept' = [o \in Syncs |-> kept[o] \ {l}]
    BY <1>10 DEF RemoveLink, session, loaded, todo
  <2>2. \A o \in Syncs : kept[o] \subseteq links
    BY <1>0 DEF SessionInv, LinkInv
  <2> QED
    BY <1>0, <2>1, <2>2, Untouched
<1>11. ASSUME NEW p \in PCats, NEW c \in Cats, NEW link \in BOOLEAN,
              ImportRead(p, c, link)
       PROVE  \A o \in Syncs : SessionInv(o)'
  BY <1>11, SessionsUntouched DEF ImportRead, db, runs
<1>12. CASE ImportCommit
  BY <1>12, SessionsUntouched DEF ImportCommit, runs
<1>13. ASSUME NEW pc \in PCs, NEW n \in Names, NEW lock \in BOOLEAN,
              PatchChannel(pc, n, lock)
       PROVE  \A o \in Syncs : SessionInv(o)'
  BY <1>13, SessionsUntouched DEF PatchChannel, runs
<1>14. ASSUME NEW pc \in PCs, DeleteChannel(pc) PROVE \A o \in Syncs : SessionInv(o)'
  BY <1>14, SessionsUntouched DEF DeleteChannel, runs
<1>15. ASSUME NEW l \in Links, AddLink(l) PROVE \A o \in Syncs : SessionInv(o)'
  BY <1>15, SessionsUntouched DEF AddLink, runs
<1>16. CASE UNCHANGED vars
  BY <1>16, SessionsUntouched DEF vars, db, runs
<1> QED
  BY <1>1, <1>2, <1>3, <1>4, <1>5, <1>6, <1>7, <1>8, <1>9, <1>10, <1>11, <1>12,
     <1>13, <1>14, <1>15, <1>16 DEF Next, RunStep, Admin

\* The invariant is inductive.
LEMMA InvStep == IInv /\ [Next]_vars => IInv'
  BY TypeStep, RowsStep, SessionStep DEF IInv

\* Every reachable state satisfies it: what sessions hold is consistent with
\* the rows, links and playlist channels of the database.
THEOREM Invariance == Spec => []IInv
  BY InvInit, InvStep, PTL DEF Spec

-----------------------------------------------------------------------------
(* What a commit does to playlists *)

\* A commit leaves alone what was locked when its run looked.
LEMMA CommitKeepsLocked ==
    ASSUME IInv, NEW s \in Syncs, Commit(s), NEW pc \in locked[s] \ clear[s]
    PROVE  pcName'[pc] = pcName[pc]
<1>1. TypeOK /\ SessionInv(s)
  BY DEF IInv
<1>2. pc \in PCs /\ rowName[RowOf(pc)] # Absent /\ rename[s][pc] = Absent
  BY <1>1 DEF SessionInv, TodoInv, TypeOK
<1>3. Looked(s)
  BY DEF Commit, Looked
<1>4. pc \notin import[s]
  BY <1>1, <1>2, <1>3 DEF SessionInv, TodoInv, PickInv
<1> QED
  BY <1>2, <1>4 DEF Commit, CommitPlaylists, ToRename

\* A commit inserts a playlist channel for each new row and lasting link.
LEMMA CommitServesLinks ==
    ASSUME IInv, NEW s \in Syncs, Commit(s), NEW r \in NewRows(s), NEW p \in PCats,
           <<p, CatOfRow(r)>> \in kept[s]
    PROVE  pcName'[<<r, p>>] # Absent
<1>1. TypeOK /\ SessionInv(s)
  BY DEF IInv
<1>2. r \in Rows /\ KeyOf(r) \in Listed(feed[s])
  BY <1>1, NewRowsOwn
<1>3. <<r, p>> \in PCs /\ RowOf(<<r, p>>) = r
  BY <1>2, Naming
<1>4. <<r, p>> \in import[s]
  BY <1>1 DEF SessionInv, LinkInv, Commit
<1>5. rowName[r] = Absent
  BY <1>1 DEF SessionInv, PickInv, Looked, Commit
<1>6. <<r, p>> \notin clear[s]
  BY <1>1, <1>3, <1>5 DEF SessionInv, TodoInv
<1>7. SeenName(s, r) # Absent
  BY <1>1, <1>2, SessionSets, SyncAssumptions DEF SeenName
<1> QED
  BY <1>3, <1>4, <1>6, <1>7 DEF Commit, CommitPlaylists

\* "Ignore Name Changes": for any overlap of runs and edits, no run writes a
\* playlist channel that was locked when the run looked at it.
THEOREM LockedNamesKept == Spec => LockedWhenReadIsKept
<1>1. IInv /\ [Next]_vars =>
        [ \A s \in Syncs : Commit(s) =>
            \A pc \in locked[s] \ clear[s] : pcName'[pc] = pcName[pc] ]_vars
  BY CommitKeepsLocked
<1> QED
  BY <1>1, Invariance, PTL DEF Spec, LockedWhenReadIsKept

\* New Channel Manager: for any overlap of runs and edits, a channel a run
\* adds is in every playlist category linked from its start to its commit.
THEOREM LinksServed == Spec => LinksGetNewChannels
<1>1. IInv /\ [Next]_vars =>
        [ \A s \in Syncs : Commit(s) =>
            \A r \in NewRows(s), p \in PCats :
               <<p, CatOfRow(r)>> \in kept[s] => pcName'[<<r, p>>] # Absent ]_vars
  BY CommitServesLinks
<1> QED
  BY <1>1, Invariance, PTL DEF Spec, LinksGetNewChannels

-----------------------------------------------------------------------------
(* Runs that do not overlap *)

\* What the session read of the rows it picked is still so, and what it found
\* missing still is.
Current(s) ==
    \A k \in Keys :
        /\ pick[s][k] = NoRow => \A r \in Rows : KeyOf(r) = k => rowName[r] = Absent
        /\ pick[s][k] # NoRow =>
              /\ sawName[s][pick[s][k]] = rowName[pick[s][k]]
              /\ sawGone[s][pick[s][k]] = "no" <=> rowGone[pick[s][k]] = "no"

\* What it clears shows channels past their grace period, not in its feed.
ClearsOld(s) ==
    \A pc \in clear[s] : rowGone[RowOf(pc)] = "old" /\ RowOf(pc) \notin UpdatedRows(s)

AloneInv(s) == (Looked(s) /\ feed[s] # NoFeed => Current(s)) /\ ClearsOld(s)

OneActive == \A s, o \in Syncs : Active(s) /\ Active(o) => s = o

OneRow == \A q, r \in Rows :
    rowName[q] # Absent /\ rowName[r] # Absent /\ KeyOf(q) = KeyOf(r) => q = r

SerialInv == ~overlapped => OneActive /\ OneRow /\ \A s \in Syncs : AloneInv(s)

SInv == IInv /\ SerialInv

\* A step that leaves a session and the rows' names alone, and marks and
\* unmarks no row, keeps what the session knows.
LEMMA AloneUntouched ==
    ASSUME TypeOK, NEW o \in Syncs, AloneInv(o),
           step'[o] = step[o], feed'[o] = feed[o], pick'[o] = pick[o],
           sawName'[o] = sawName[o], sawGone'[o] = sawGone[o], clear'[o] = clear[o],
           rowName' = rowName,
           \A r \in Rows : /\ rowGone[r] = "no" <=> rowGone'[r] = "no"
                           /\ rowGone[r] = "old" => rowGone'[r] = "old"
    PROVE  AloneInv(o)'
<1>1. UpdatedRows(o)' = UpdatedRows(o)
  BY DEF UpdatedRows, Listed
<1>2. \A k \in Keys : pick[o][k] # NoRow => pick[o][k] \in Rows
  BY DEF TypeOK
<1>3. \A pc \in clear[o] : RowOf(pc) \in Rows
  BY Naming DEF TypeOK
<1>4. Looked(o) /\ feed[o] # NoFeed => Current(o)'
  BY <1>2 DEF AloneInv, Current
<1>5. ClearsOld(o)'
  BY <1>1, <1>3 DEF AloneInv, ClearsOld
<1> QED
  BY <1>4, <1>5 DEF AloneInv, Looked

\* A session that is idle, or has just failed to fetch, has nothing to keep.
LEMMA AloneEmpty ==
    ASSUME NEW s \in Syncs, clear[s] = {}, ~Looked(s) \/ feed[s] = NoFeed
    PROVE  AloneInv(s)
  BY DEF AloneInv, ClearsOld

LEMMA SerialInit == Init => SerialInv
<1> SUFFICES ASSUME Init PROVE SerialInv
  OBVIOUS
<1>1. \A s \in Syncs : ~Active(s) /\ ~Looked(s) /\ clear[s] = {}
  BY DEF Init, Active, Looked
<1>2. \A r \in Rows : rowName[r] # Absent => r[2] = First
  BY DEF Init
<1>3. OneRow
  BY <1>2, Naming DEF OneRow
<1> QED
  BY <1>1, <1>3, AloneEmpty DEF SerialInv, OneActive

\* Every step of a session keeps what sessions know as long as none overlap.
LEMMA SerialSession ==
    ASSUME SInv, NEW s \in Syncs, ~overlapped',
           \/ Start(s) \/ FetchFails(s) \/ Abort(s)
           \/ ReadChannels(s) \/ WriteChannels(s) \/ AutoImport(s)
           \/ RenameFails(s) \/ ClearStale(s)
    PROVE  SerialInv'
<1>0. TypeOK /\ SessionInv(s) /\ ~overlapped
  BY DEF SInv, IInv, Start, FetchFails, Abort, ReadChannels, WriteChannels,
         AutoImport, RenameFails, ClearStale, TypeOK
<1>1. OneActive /\ OneRow /\ \A o \in Syncs : AloneInv(o)
  BY <1>0 DEF SInv, SerialInv
<1>2. rowName' = rowName /\ rowGone' = rowGone
  BY DEF Start, FetchFails, Abort, ReadChannels, WriteChannels, AutoImport,
         RenameFails, ClearStale, db
<1>3. ASSUME NEW o \in Syncs, o # s
      PROVE  /\ step'[o] = step[o] /\ feed'[o] = feed[o] /\ pick'[o] = pick[o]
             /\ sawName'[o] = sawName[o] /\ sawGone'[o] = sawGone[o]
             /\ clear'[o] = clear[o]
  <2>1. CASE Close(s)
    BY <1>0, <1>3, <2>1 DEF Close, TypeOK
  <2>2. CASE Start(s) \/ FetchFails(s)
    BY <1>0, <1>3, <2>2 DEF Start, FetchFails, TypeOK, loaded, todo
  <2>3. CASE ReadChannels(s)
    BY <1>0, <1>3, <2>3 DEF ReadChannels, TypeOK, todo
  <2>4. CASE WriteChannels(s) \/ AutoImport(s) \/ ClearStale(s)
    BY <1>0, <1>3, <2>4 DEF WriteChannels, AutoImport, ClearStale, TypeOK, loaded
  <2> QED
    BY <2>1, <2>2, <2>3, <2>4 DEF Abort, RenameFails
<1>4. \A o \in Syncs \ {s} : AloneInv(o)'
  BY <1>0, <1>1, <1>2, <1>3, AloneUntouched
<1>5. OneActive'
  <2>1. CASE Start(s) \/ FetchFails(s)
    <3>1. \A o \in Syncs : ~Active(o)
      BY <2>1 DEF Start, FetchFails
    <3> QED
      BY <1>3, <3>1 DEF OneActive, Active
  <2>2. CASE ~(Start(s) \/ FetchFails(s))
    <3>1. Active(s)
      BY <2>2 DEF Abort, ReadChannels, WriteChannels, AutoImport, RenameFails,
                  ClearStale, Active
    <3> QED
      BY <1>1, <1>3, <3>1 DEF OneActive, Active
  <2> QED
    BY <2>1, <2>2
<1>6. AloneInv(s)'
  <2>1. CASE Close(s)
    <3>1. clear'[s] = {} /\ step'[s] = "idle"
      BY <1>0, <2>1 DEF Close, TypeOK
    <3> QED
      BY <3>1 DEF AloneInv, ClearsOld, Looked
  <2>2. CASE Start(s)
    <3>1. step'[s] = "fetched" /\ clear' = clear /\ step[s] = "idle"
      BY <1>0, <2>2 DEF Start, TypeOK, todo, Active
    <3>2. clear'[s] = {}
      BY <1>0, <3>1 DEF SessionInv, ClosedInv
    <3> QED
      BY <3>1, <3>2 DEF AloneInv, ClearsOld, Looked
  <2>3. CASE FetchFails(s)
    <3>1. feed' = feed /\ clear' = clear /\ step[s] = "idle"
      BY <2>3 DEF FetchFails, todo, Active
    <3>2. clear'[s] = {} /\ feed'[s] = NoFeed
      BY <1>0, <3>1 DEF SessionInv, ClosedInv
    <3> QED
      BY <3>2 DEF AloneInv, ClearsOld
  <2>4. CASE ReadChannels(s)
    <3>1. /\ step[s] = "fetched" /\ clear' = clear
          /\ sawName'[s] = rowName /\ sawGone'[s] = rowGone
      BY <1>0, <2>4 DEF ReadChannels, TypeOK, todo
    <3>2. clear'[s] = {}
      BY <1>0, <3>1 DEF SessionInv, ClosedInv
    <3>3. \A k \in Keys : pick'[s][k] \in IF Found(k) = {} THEN {NoRow} ELSE Found(k)
      BY <1>0, <2>4 DEF ReadChannels, TypeOK
    <3>4. ASSUME NEW k \in Keys, pick'[s][k] = NoRow
          PROVE  \A r \in Rows : KeyOf(r) = k => rowName[r] = Absent
      BY <3>3, <3>4, NoRowAssumption DEF Found
    <3>5. Current(s)'
      BY <1>2, <3>1, <3>4 DEF Current
    <3> QED
      BY <3>2, <3>5 DEF AloneInv, ClearsOld
  <2>5. CASE WriteChannels(s) \/ AutoImport(s)
    <3>1. /\ Looked(s) /\ feed' = feed /\ pick' = pick /\ clear' = clear
          /\ sawName' = sawName /\ sawGone' = sawGone
      BY <2>5 DEF WriteChannels, AutoImport, Looked, loaded
    <3>2. UpdatedRows(s)' = UpdatedRows(s)
      BY <3>1 DEF UpdatedRows, Listed
    <3> QED
      BY <1>1, <1>2, <3>1, <3>2 DEF AloneInv, Current, ClearsOld
  <2>6. CASE ClearStale(s)
    <3>1. /\ Looked(s) /\ feed' = feed /\ pick' = pick /\ clear'[s] = Stale(s)
          /\ sawName' = sawName /\ sawGone' = sawGone
      BY <1>0, <2>6 DEF ClearStale, TypeOK, Looked, loaded
    <3>2. UpdatedRows(s)' = UpdatedRows(s)
      BY <3>1 DEF UpdatedRows, Listed
    <3>3. ClearsOld(s)'
      BY <1>2, <3>1, <3>2 DEF ClearsOld, Stale
    <3>4. feed[s] # NoFeed => Current(s)'
      BY <1>1, <1>2, <3>1 DEF AloneInv, Current
    <3> QED
      BY <3>1, <3>3, <3>4 DEF AloneInv
  <2> QED
    BY <2>1, <2>2, <2>3, <2>4, <2>5, <2>6 DEF Abort, RenameFails
<1> QED
  BY <1>1, <1>2, <1>4, <1>5, <1>6 DEF SerialInv, OneRow

\* A commit that overlapped no other run inserts no row that is there.
LEMMA CommitOneRow ==
    ASSUME SInv, NEW s \in Syncs, Commit(s), ~overlapped PROVE OneRow'
<1>0. IInv /\ TypeOK
  BY DEF SInv, IInv
<1>1. OneRow /\ AloneInv(s)
  BY DEF SInv, SerialInv
<1>2. ASSUME NEW q \in NewRows(s), NEW r \in Rows, KeyOf(q) = KeyOf(r)
      PROVE  rowName[r] = Absent
  <2>1. KeyOf(q) \in Listed(feed[s]) /\ pick[s][KeyOf(q)] = NoRow
    BY <1>0, NewRowsOwn
  <2>2. KeyOf(q) \in Keys /\ feed[s] # NoFeed
    BY <2>1 DEF Listed, NoFeed
  <2>3. Current(s)
    BY <1>1, <2>2 DEF AloneInv, Looked, Commit
  <2> QED
    BY <1>2, <2>1, <2>2, <2>3 DEF Current
<1>3. SUFFICES ASSUME NEW q \in Rows, NEW r \in Rows, rowName'[q] # Absent,
                      rowName'[r] # Absent, KeyOf(q) = KeyOf(r)
               PROVE  q = r
  BY DEF OneRow
<1>4. CASE rowName[q] # Absent /\ rowName[r] # Absent
  BY <1>1, <1>3, <1>4 DEF OneRow
<1>5. CASE rowName[q] = Absent
  <2>1. q \in NewRows(s) /\ rowName[r] = Absent
    BY <1>0, <1>2, <1>3, <1>5, CommitNames
  <2>2. r \in NewRows(s)
    BY <1>0, <1>3, <2>1, CommitNames
  <2> QED
    BY <1>0, <1>3, <2>1, <2>2, NewRowsOwn, Naming
<1>6. CASE rowName[r] = Absent
  <2>1. r \in NewRows(s) /\ rowName[q] = Absent
    BY <1>0, <1>2, <1>3, <1>6, CommitNames
  <2>2. q \in NewRows(s)
    BY <1>0, <1>3, <2>1, CommitNames
  <2> QED
    BY <1>0, <1>3, <2>1, <2>2, NewRowsOwn, Naming
<1> QED
  BY <1>4, <1>5, <1>6

LEMMA SerialStep == SInv /\ [Next]_vars => SerialInv'
<1> SUFFICES ASSUME SInv, [Next]_vars, ~overlapped' PROVE SerialInv'
  BY DEF SerialInv
<1>0. TypeOK /\ IInv
  BY DEF SInv, IInv
<1>1. ASSUME NEW s \in Syncs, \/ Start(s) \/ FetchFails(s) \/ Abort(s)
                              \/ ReadChannels(s) \/ WriteChannels(s) \/ AutoImport(s)
                              \/ RenameFails(s) \/ ClearStale(s)
      PROVE  SerialInv'
  BY <1>1, SerialSession
<1>2. ASSUME NEW s \in Syncs, Commit(s) PROVE SerialInv'
  <2>1. ~overlapped /\ Close(s) /\ Active(s)
    BY <1>2 DEF Commit, Active
  <2>2. OneActive /\ OneRow'
    BY <1>2, <2>1, CommitOneRow DEF SInv, SerialInv
  <2>3. \A o \in Syncs : step'[o] = "idle" /\ clear'[o] = {}
    <3>1. step'[s] = "idle" /\ clear'[s] = {}
      BY <1>0, <2>1 DEF Close, TypeOK
    <3>2. ASSUME NEW o \in Syncs, o # s PROVE step'[o] = "idle" /\ clear'[o] = {}
      <4>1. step[o] = "idle"
        BY <2>1, <2>2, <3>2 DEF OneActive, Active
      <4>2. clear[o] = {}
        BY <1>0, <4>1 DEF IInv, SessionInv, ClosedInv
      <4> QED
        BY <1>0, <2>1, <3>2, <4>1, <4>2, CloseOther
    <3> QED
      BY <3>1, <3>2
  <2>4. OneActive' /\ \A o \in Syncs : AloneInv(o)'
    BY <2>3 DEF OneActive, Active, AloneInv, ClearsOld, Looked
  <2> QED
    BY <2>2, <2>4 DEF SerialInv
<1>3. ASSUME rowName' = rowName, overlapped' = overlapped,
             UNCHANGED <<step, feed, pick, sawName, sawGone, clear>>,
             \A r \in Rows : /\ rowGone[r] = "no" <=> rowGone'[r] = "no"
                             /\ rowGone[r] = "old" => rowGone'[r] = "old"
      PROVE  SerialInv'
  <2>1. OneActive /\ OneRow /\ \A o \in Syncs : AloneInv(o)
    BY <1>3 DEF SInv, SerialInv
  <2>2. \A o \in Syncs : AloneInv(o)'
    BY <1>0, <1>3, <2>1, AloneUntouched
  <2> QED
    BY <1>3, <2>1, <2>2 DEF SerialInv, OneActive, Active, OneRow
<1>4. CASE ProviderChanges
  BY <1>3, <1>4 DEF ProviderChanges, db, runs, session, loaded, todo
<1>5. ASSUME NEW r \in Rows, GraceEnds(r) PROVE SerialInv'
  <2>1. \A q \in Rows : /\ rowGone[q] = "no" <=> rowGone'[q] = "no"
                        /\ rowGone[q] = "old" => rowGone'[q] = "old"
    BY <1>0, <1>5 DEF GraceEnds, TypeOK
  <2> QED
    BY <1>3, <1>5, <2>1 DEF GraceEnds, runs, session, loaded, todo
<1>6. CASE Admin
  <2>1. /\ UNCHANGED <<rowName, rowGone, overlapped>>
        /\ UNCHANGED <<step, feed, pick, sawName, sawGone, clear>>
    BY <1>6 DEF Admin, ImportRead, ImportCommit, PatchChannel, DeleteChannel,
                AddLink, RemoveLink, db, runs, session, loaded, todo
  <2> QED
    BY <1>3, <2>1
<1>7. CASE UNCHANGED vars
  BY <1>3, <1>7 DEF vars, db, runs, session, loaded, todo
<1> QED
  BY <1>1, <1>2, <1>4, <1>5, <1>6, <1>7 DEF Next, RunStep

\* Every reachable state: until two runs overlap, the rows are as a run in
\* progress read them.
THEOREM SerialInvariance == Spec => []SInv
<1>1. Init => SInv
  BY InvInit, SerialInit DEF SInv
<1>2. SInv /\ [Next]_vars => SInv'
  BY InvStep, SerialStep DEF SInv
<1> QED
  BY <1>1, <1>2, PTL DEF Spec

\* Until two runs overlap, a provider channel has at most one row.
THEOREM OneRowEach == Spec => []OneRowPerChannel
<1>1. SInv => OneRowPerChannel
  BY DEF SInv, SerialInv, OneRow, OneRowPerChannel
<1> QED
  BY <1>1, SerialInvariance, PTL

\* A commit that overlapped no other run makes live exactly what its feed
\* lists.
LEMMA CommitFollowsFeed ==
    ASSUME SInv, NEW s \in Syncs, Commit(s), feed[s] # NoFeed, ~overlapped,
           NEW k \in Keys
    PROVE  IF k \in Listed(feed[s])
           THEN \E r \in Rows : KeyOf(r) = k /\ rowGone'[r] = "no"
                                /\ rowName'[r] = feed[s].name[k]
           ELSE \A r \in Rows : KeyOf(r) = k /\ rowName'[r] # Absent
                                => rowGone'[r] # "no"
<1>0. TypeOK /\ IInv /\ SessionInv(s) /\ AloneInv(s) /\ OneRow
  BY DEF SInv, IInv, SerialInv
<1>1. Current(s) /\ Looked(s)
  BY <1>0 DEF AloneInv, Looked, Commit
<1>2. /\ \A r \in Rows : rowName'[r] =
            IF \/ r \in NewRows(s)
               \/ r \in UpdatedRows(s) /\ sawName[s][r] # feed[s].name[KeyOf(r)]
            THEN feed[s].name[KeyOf(r)] ELSE rowName[r]
      /\ \A r \in Rows : rowGone'[r] =
            IF r \in UpdatedRows(s) /\ sawGone[s][r] # "no" THEN "no"
            ELSE IF r \in RemovedRows(s) THEN "recent"
            ELSE rowGone[r]
  BY DEF Commit, CommitRows
<1>3. \A j \in Keys : pick[s][j] # NoRow =>
         pick[s][j] \in Rows /\ KeyOf(pick[s][j]) = j /\ rowName[pick[s][j]] # Absent
  BY <1>0 DEF SessionInv, PickInv, TypeOK
<1>4. \A r \in RemovedRows(s) : KeyOf(r) \notin Listed(feed[s])
  BY <1>3 DEF RemovedRows
<1>5. \A r \in UpdatedRows(s) : KeyOf(r) \in Listed(feed[s])
  <2>1. Listed(feed[s]) \subseteq Keys
    BY DEF Listed
  <2> QED
    BY <1>3, <2>1 DEF UpdatedRows
<1>6. CASE k \in Listed(feed[s]) /\ pick[s][k] # NoRow
  <2> DEFINE r == pick[s][k]
  <2>1. r \in Rows /\ KeyOf(r) = k /\ r \in UpdatedRows(s)
    BY <1>3, <1>6 DEF UpdatedRows
  <2>2. sawName[s][r] = rowName[r] /\ (sawGone[s][r] = "no" <=> rowGone[r] = "no")
    BY <1>1, <1>6 DEF Current
  <2>3. rowName'[r] = feed[s].name[k]
    BY <1>2, <2>1, <2>2
  <2>4. r \notin RemovedRows(s)
    BY <1>4, <1>6, <2>1
  <2>5. rowGone'[r] = "no"
    BY <1>2, <2>1, <2>2, <2>4
  <2> QED
    BY <1>6, <2>1, <2>3, <2>5
<1>7. CASE k \in Listed(feed[s]) /\ pick[s][k] = NoRow
  <2> DEFINE r == <<k, s>>
  <2>1. r \in Rows /\ KeyOf(r) = k /\ r \in NewRows(s)
    BY <1>7, Naming DEF NewRows
  <2>2. rowName'[r] = feed[s].name[k]
    BY <1>2, <2>1
  <2>3. r \notin UpdatedRows(s) /\ r \notin RemovedRows(s)
    <3>1. rowName[r] = Absent
      BY <1>1, <1>7, <2>1 DEF Current
    <3>2. \A q \in UpdatedRows(s) \union RemovedRows(s) : rowName[q] # Absent
      BY <1>3 DEF UpdatedRows, RemovedRows, Listed
    <3> QED
      BY <3>1, <3>2
  <2>4. rowGone'[r] = rowGone[r]
    BY <1>2, <2>1, <2>3
  <2>5. rowGone[r] = "no"
    BY <1>0, <1>1, <1>7, <2>1 DEF Current, IInv, RowsInv
  <2> QED
    BY <1>7, <2>1, <2>2, <2>4, <2>5
<1>8. CASE k \notin Listed(feed[s])
  <2>1. SUFFICES ASSUME NEW r \in Rows, KeyOf(r) = k, rowName'[r] # Absent
                 PROVE  rowGone'[r] # "no"
    BY <1>8
  <2>2. rowName[r] # Absent
    BY <1>0, <1>8, <2>1, CommitNames, NewRowsOwn
  <2>3. pick[s][k] = r
    BY <1>0, <1>1, <1>3, <2>1, <2>2 DEF Current, OneRow
  <2>4. sawGone[s][r] = "no" <=> rowGone[r] = "no"
    BY <1>0, <1>1, <1>3, <2>1, <2>2, <2>3, NoRowAssumption DEF Current
  <2>5. r \notin UpdatedRows(s)
    BY <1>5, <1>8, <2>1
  <2>6. sawGone[s][r] = "no" => r \in RemovedRows(s)
    BY <1>8, <2>1, <2>3, NoRowAssumption DEF RemovedRows
  <2> QED
    BY <1>2, <2>1, <2>4, <2>5, <2>6
<1> QED
  BY <1>6, <1>7, <1>8

\* A commit that overlapped no other run takes out of playlists only what has
\* been gone for longer than the grace period.
LEMMA CommitClearsOld ==
    ASSUME SInv, NEW s \in Syncs, Commit(s), ~overlapped, NEW pc \in PCs,
           pcName[pc] # Absent, pcName'[pc] = Absent
    PROVE  rowGone'[RowOf(pc)] = "old"
<1>0. TypeOK /\ IInv /\ SessionInv(s) /\ AloneInv(s)
  BY DEF SInv, IInv, SerialInv
<1>1. pc \in clear[s]
  <2>1. SUFFICES ASSUME pc \notin clear[s] PROVE FALSE
    OBVIOUS
  <2>2. pc \in import[s] /\ SeenName(s, RowOf(pc)) = Absent
    BY <2>1 DEF Commit, CommitPlaylists, ToRename
  <2>3. RowOf(pc) \in NewRows(s)
    BY <1>0, <2>2 DEF SessionInv, TodoInv
  <2>4. KeyOf(RowOf(pc)) \in Listed(feed[s])
    BY <1>0, <2>3, NewRowsOwn
  <2> QED
    BY <1>0, <2>2, <2>3, <2>4, SessionSets, SyncAssumptions DEF SeenName
<1>2. RowOf(pc) \in Rows /\ rowGone[RowOf(pc)] = "old" /\ RowOf(pc) \notin UpdatedRows(s)
  BY <1>0, <1>1, Naming DEF AloneInv, ClearsOld
<1>3. RowOf(pc) \notin RemovedRows(s)
  <2>1. SUFFICES ASSUME NEW k \in Keys, pick[s][k] # NoRow, RowOf(pc) = pick[s][k],
                        sawGone[s][pick[s][k]] = "no"
                 PROVE  FALSE
    BY DEF RemovedRows
  <2>2. CASE feed[s] # NoFeed
    <3>1. Current(s)
      BY <1>0, <2>2 DEF AloneInv, Looked, Commit
    <3> QED
      BY <1>2, <2>1, <3>1 DEF Current
  <2>3. CASE feed[s] = NoFeed
    BY <1>0, <2>1, <2>3 DEF SessionInv, FeedInv
  <2> QED
    BY <2>2, <2>3
<1> QED
  BY <1>2, <1>3 DEF Commit, CommitRows

\* A run that overlapped no other leaves as live exactly the channels its feed
\* listed, under the feed's names.
THEOREM FeedFollowed == Spec => CommitMatchesFeed
<1>1. SInv /\ [Next]_vars =>
        [ \A s \in Syncs : Commit(s) /\ feed[s] # NoFeed /\ ~overlapped =>
            \A k \in Keys :
              IF k \in Listed(feed[s])
              THEN \E r \in Rows : KeyOf(r) = k /\ rowGone'[r] = "no"
                                   /\ rowName'[r] = feed[s].name[k]
              ELSE \A r \in Rows : KeyOf(r) = k /\ rowName'[r] # Absent
                                   => rowGone'[r] # "no" ]_vars
  BY CommitFollowsFeed
<1> QED
  BY <1>1, SerialInvariance, PTL DEF Spec, CommitMatchesFeed

\* Unless runs overlap, a run takes a channel out of a playlist only when the
\* provider dropped it and its grace period is over.
THEOREM OnlyTheGoneCleared == Spec => ClearsOnlyTheGone
<1>1. SInv /\ [Next]_vars =>
        [ \A s \in Syncs : Commit(s) /\ ~overlapped =>
            \A pc \in PCs : pcName[pc] # Absent /\ pcName'[pc] = Absent
                              => rowGone'[RowOf(pc)] = "old" ]_vars
  BY CommitClearsOld
<1> QED
  BY <1>1, SerialInvariance, PTL DEF Spec, ClearsOnlyTheGone

-----------------------------------------------------------------------------
(* The rows readers see are a copy of an answer *)

\* What an answer lists is a listing: one name of a channel or none.
LEMMA ListingListed ==
    ASSUME NEW f \in Feed \union {NoFeed} PROVE Listing(f) \in Mirror!Listings
<1>1. \A k \in Listed(f) : f.name[k] \in Names
  <2>1. CASE f \in Feed
    BY <2>1 DEF Listed, Feed, MaybeName
  <2>2. CASE f = NoFeed
    BY <2>2 DEF Listed, NoFeed
  <2> QED
    BY <2>1, <2>2
<1> QED
  BY <1>1 DEF Listing, Mirror!Listings

\* The first sync left what the provider lists.
LEMMA ShownInit == Init => LiveNames = Listing(provider)
<1> SUFFICES ASSUME Init, NEW k \in Keys
             PROVE  {rowName[r] : r \in {q \in Rows : KeyOf(q) = k /\ Live(q)}}
                       = IF k \in Listed(provider) THEN {provider.name[k]} ELSE {}
  BY DEF LiveNames, Listing
<1>1. k \in Listed(provider) <=> provider.name[k] # Absent
  BY SyncAssumptions DEF Init, Listed
<1>2. \A r \in Rows : KeyOf(r) = k /\ rowName[r] # Absent => r = <<k, First>>
  BY Naming DEF Init
<1>3. /\ <<k, First>> \in Rows /\ KeyOf(<<k, First>>) = k
      /\ <<k, First>>[1] = k /\ <<k, First>>[2] = First
  BY Naming, SyncAssumptions
<1>4. CASE provider.name[k] # Absent
  <2>1. rowName[<<k, First>>] = provider.name[k] /\ Live(<<k, First>>)
    BY <1>3, <1>4 DEF Init, Live
  <2> QED
    BY <1>1, <1>2, <1>3, <1>4, <2>1 DEF Live
<1>5. CASE provider.name[k] = Absent
  <2>1. ~Live(<<k, First>>)
    BY <1>3, <1>5 DEF Init, Live
  <2> QED
    BY <1>1, <1>2, <1>5, <2>1 DEF Live
<1> QED
  BY <1>4, <1>5

\* What marks and unmarks no row, and names none, leaves what readers see.
LEMMA ShownUnchanged ==
    ASSUME rowName' = rowName,
           \A r \in Rows : rowGone'[r] = "no" <=> rowGone[r] = "no"
    PROVE  LiveNames' = LiveNames
  BY DEF LiveNames, Live

\* A commit that overlapped no other run leaves what its feed lists.
LEMMA ShownAfterCommit ==
    ASSUME SInv, NEW s \in Syncs, Commit(s), feed[s] # NoFeed, ~overlapped
    PROVE  LiveNames' = Listing(feed[s])
<1> SUFFICES ASSUME NEW k \in Keys
             PROVE  {rowName'[r] : r \in {q \in Rows : KeyOf(q) = k /\ Live(q)'}}
                       = IF k \in Listed(feed[s]) THEN {feed[s].name[k]} ELSE {}
  BY DEF LiveNames, Listing, Live
<1>1. \A r \in Rows : Live(r)' <=> rowName'[r] # Absent /\ rowGone'[r] = "no"
  BY DEF Live
<1>2. CASE k \in Listed(feed[s])
  <2>1. PICK r \in Rows : /\ KeyOf(r) = k /\ rowGone'[r] = "no"
                          /\ rowName'[r] = feed[s].name[k]
    BY <1>2, CommitFollowsFeed
  <2>2. feed[s].name[k] # Absent
    BY <1>2 DEF Listed
  <2>3. \A q \in Rows : KeyOf(q) = k /\ Live(q)' => q = r
    BY <1>1, <2>1, <2>2, CommitOneRow DEF OneRow
  <2> QED
    BY <1>1, <1>2, <2>1, <2>2, <2>3
<1>3. CASE k \notin Listed(feed[s])
  BY <1>1, <1>3, CommitFollowsFeed
<1> QED
  BY <1>2, <1>3

\* A run without an answer commits no change of a row.
LEMMA CommitOfNothing ==
    ASSUME IInv, NEW s \in Syncs, Commit(s), feed[s] = NoFeed
    PROVE  /\ NewRows(s) = {} /\ UpdatedRows(s) = {} /\ import[s] = {}
           /\ rowName' = rowName /\ rowGone' = rowGone
<1>1. TypeOK /\ SessionInv(s)
  BY DEF IInv
<1>2. NewRows(s) = {} /\ UpdatedRows(s) = {}
  BY DEF NewRows, UpdatedRows, Listed, NoFeed
<1>3. RemovedRows(s) = {}
  BY <1>1 DEF RemovedRows, SessionInv, FeedInv
<1>4. import[s] = {}
  BY <1>1, <1>2 DEF SessionInv, TodoInv
<1>5. rowName' = [r \in Rows |-> rowName[r]] /\ rowGone' = [r \in Rows |-> rowGone[r]]
  BY <1>2, <1>3 DEF Commit, CommitRows
<1> QED
  BY <1>1, <1>2, <1>4, <1>5 DEF TypeOK

\* Until runs overlap, only a run under way has an answer, and one is.
LEMMA OneAnswer ==
    ASSUME SInv, ~overlapped, NEW s \in Syncs, Active(s)
    PROVE  /\ \A o \in Syncs : o # s => feed[o] = NoFeed
           /\ feed[s] # NoFeed => Answered = {s}
<1>1. \A o \in Syncs : o # s => feed[o] = NoFeed
  BY DEF SInv, SerialInv, OneActive, IInv, SessionInv, ClosedInv, Active
<1> QED
  BY <1>1 DEF Answered

\* When a session is closed no answer is left.
LEMMA NoAnswerAfterClose ==
    ASSUME SInv, ~overlapped, NEW s \in Syncs, Active(s), Close(s)
    PROVE  Answered' = {} /\ (feed[s] = NoFeed => feed' = feed)
<1>1. feed' = [feed EXCEPT ![s] = NoFeed] /\ feed \in [Syncs -> Feed \union {NoFeed}]
  BY DEF Close, SInv, IInv, TypeOK
<1>2. \A o \in Syncs : feed'[o] = NoFeed
  BY <1>1, OneAnswer
<1> QED
  BY <1>1, <1>2 DEF Answered

\* A step of SourceSync that leaves answers and rows alone is no step of the copy.
LEMMA MirrorStutter ==
    ASSUME ~overlapped, UNCHANGED <<provider, feed, rowName, synced, overlapped>>,
           \A r \in Rows : rowGone'[r] = "no" <=> rowGone[r] = "no"
    PROVE  UNCHANGED Mirror!vars
<1>1. LiveNames' = LiveNames
  BY ShownUnchanged
<1>2. Listing(provider)' = Listing(provider)
  BY DEF Listing, Listed
<1>3. {Listing(feed[s]) : s \in Answered}' = {Listing(feed[s]) : s \in Answered}
  BY DEF Listing, Listed, Answered
<1> QED
  BY <1>1, <1>2, <1>3 DEF Mirror!vars

\* The end of a run that did not commit is the end of an answer, if it had one.
LEMMA MirrorGivesUp ==
    ASSUME SInv, NEW s \in Syncs, Active(s), Close(s), ~overlapped,
           UNCHANGED <<provider, db, overlapped>>
    PROVE  Mirror!GiveUp \/ UNCHANGED Mirror!vars
<1>1. CASE feed[s] = NoFeed
  BY <1>1, NoAnswerAfterClose, MirrorStutter DEF db
<1>2. CASE feed[s] # NoFeed
  <2>1. Answered = {s} /\ Answered' = {}
    BY <1>2, OneAnswer, NoAnswerAfterClose
  <2>2. LiveNames' = LiveNames
    BY ShownUnchanged DEF db
  <2>3. Listing(provider)' = Listing(provider)
    BY DEF Listing, Listed
  <2>4. {Listing(feed[o]) : o \in Answered}' = {}
    BY <2>1
  <2>5. {Listing(feed[o]) : o \in Answered} # {}
    BY <2>1
  <2> QED
    BY <2>2, <2>3, <2>4, <2>5 DEF Mirror!GiveUp, db
<1> QED
  BY <1>1, <1>2

\* Until runs overlap, each step is a step of the copy or leaves it alone.
LEMMA MirrorStep ==
    ASSUME SInv, TypeOK', ~overlapped', [Next]_vars
    PROVE  ~overlapped /\ (\/ Mirror!ProviderChanges \/ Mirror!Take
                           \/ Mirror!Publish \/ Mirror!GiveUp
                           \/ UNCHANGED Mirror!vars)
<1>0. TypeOK /\ IInv
  BY DEF SInv, IInv
<1> DEFINE Mirrored == ~overlapped /\ (\/ Mirror!ProviderChanges \/ Mirror!Take
                                       \/ Mirror!Publish \/ Mirror!GiveUp
                                       \/ UNCHANGED Mirror!vars)
<1>1. CASE ProviderChanges
  <2>1. UNCHANGED <<feed, rowName, rowGone, synced, overlapped>>
    BY <1>1 DEF ProviderChanges, db, runs, session
  <2>2. LiveNames' = LiveNames
    BY <2>1, ShownUnchanged
  <2>3. {Listing(feed[s]) : s \in Answered}' = {Listing(feed[s]) : s \in Answered}
    BY <2>1 DEF Listing, Listed, Answered
  <2>4. Listing(provider)' \in Mirror!Listings
    <3>1. \A f \in Feed : Listing(f) \in Mirror!Listings
      BY ListingListed
    <3>2. provider' \in Feed
      BY DEF TypeOK
    <3> QED
      BY <3>1, <3>2
  <2> QED
    BY <2>1, <2>2, <2>3, <2>4 DEF Mirror!ProviderChanges
<1>2. ASSUME NEW s \in Syncs, Start(s) PROVE Mirrored
  <2>1. /\ UNCHANGED <<provider, rowName, rowGone, synced>> /\ ~overlapped
        /\ \A o \in Syncs : ~Active(o)
        /\ feed' = [feed EXCEPT ![s] = provider]
    BY <1>0, <1>2 DEF Start, db, TypeOK
  <2>8. UNCHANGED overlapped
    BY <1>0, <2>1 DEF TypeOK
  <2>2. \A o \in Syncs : feed[o] = NoFeed
    BY <1>0, <2>1 DEF IInv, SessionInv, ClosedInv, Active
  <2>3. feed'[s] = provider /\ \A o \in Syncs : o # s => feed'[o] = NoFeed
    BY <1>0, <2>1, <2>2 DEF TypeOK
  <2>4. LiveNames' = LiveNames
    BY <2>1, ShownUnchanged
  <2>5. Listing(provider)' = Listing(provider)
    BY <2>1 DEF Listing, Listed
  <2>6. CASE provider = NoFeed
    <3>1. feed' = feed
      BY <1>0, <2>1, <2>2, <2>6 DEF TypeOK
    <3> QED
      BY <2>1, <2>8, <3>1, MirrorStutter
  <2>7. CASE provider # NoFeed
    <3>1. Answered = {} /\ Answered' = {s}
      BY <2>2, <2>3, <2>7 DEF Answered
    <3>2. {Listing(feed[o]) : o \in Answered} = {}
      BY <3>1
    <3>3. {Listing(feed[o]) : o \in Answered}' = {Listing(provider)}
      <4>1. {Listing(feed[o]) : o \in Answered}' = {Listing(feed[s])'}
        BY <3>1
      <4>2. Listing(feed[s])' = Listing(provider)
        BY <2>3 DEF Listing, Listed
      <4> QED
        BY <4>1, <4>2
    <3> QED
      BY <2>1, <2>4, <2>5, <3>2, <3>3 DEF Mirror!Take
  <2> QED
    BY <2>6, <2>7
<1>3. ASSUME NEW s \in Syncs, RenameFails(s) \/ Abort(s) PROVE Mirrored
  <2>1. /\ Active(s) /\ Close(s) /\ ~overlapped /\ UNCHANGED <<provider, db, overlapped>>
    BY <1>3 DEF RenameFails, Abort, Active
  <2> QED
    BY <2>1, MirrorGivesUp
<1>4. ASSUME NEW s \in Syncs, Commit(s) PROVE Mirrored
  <2>1. /\ Active(s) /\ Close(s) /\ ~overlapped /\ UNCHANGED <<provider, overlapped>>
    BY <1>4 DEF Commit, Active
  <2>2. CASE feed[s] = NoFeed
    <3>1. feed' = feed /\ rowName' = rowName /\ rowGone' = rowGone
      BY <1>0, <1>4, <2>1, <2>2, CommitOfNothing, NoAnswerAfterClose
    <3> QED
      BY <1>4, <2>1, <2>2, <3>1, MirrorStutter DEF Commit
  <2>3. CASE feed[s] # NoFeed
    <3>1. Answered = {s} /\ Answered' = {}
      BY <2>1, <2>3, OneAnswer, NoAnswerAfterClose
    <3>2. synced' = Listing(feed[s]) /\ LiveNames' = Listing(feed[s])
      BY <1>4, <2>1, <2>3, ShownAfterCommit DEF Commit
    <3>3. Listing(provider)' = Listing(provider)
      BY <2>1 DEF Listing, Listed
    <3>4. {Listing(feed[o]) : o \in Answered}' = {}
      BY <3>1
    <3>5. Listing(feed[s]) \in {Listing(feed[o]) : o \in Answered}
      BY <3>1
    <3> QED
      BY <2>1, <3>2, <3>3, <3>4, <3>5 DEF Mirror!Publish
  <2> QED
    BY <2>2, <2>3
<1>5. ASSUME NEW r \in Rows, GraceEnds(r) PROVE Mirrored
  <2>1. /\ UNCHANGED <<provider, feed, rowName, synced, overlapped>>
        /\ \A q \in Rows : rowGone'[q] = "no" <=> rowGone[q] = "no"
    BY <1>0, <1>5 DEF GraceEnds, TypeOK, runs, session
  <2> QED
    BY <2>1, MirrorStutter
<1>6. CASE \/ UNCHANGED vars \/ Admin
           \/ \E s \in Syncs : \/ FetchFails(s) \/ ReadChannels(s) \/ WriteChannels(s)
                               \/ AutoImport(s) \/ ClearStale(s)
  <2>1. UNCHANGED <<provider, feed, rowName, rowGone, synced>> /\ ~overlapped
    BY <1>0, <1>6 DEF vars, db, runs, session, Admin, ImportRead, ImportCommit, PatchChannel,
                      DeleteChannel, AddLink, RemoveLink, FetchFails, ReadChannels,
                      WriteChannels, AutoImport, ClearStale, TypeOK
  <2>2. UNCHANGED overlapped
    BY <1>0, <2>1 DEF TypeOK
  <2> QED
    BY <2>1, <2>2, MirrorStutter
<1> QED
  BY <1>1, <1>2, <1>3, <1>4, <1>5, <1>6 DEF Next, RunStep

\* As long as runs do not overlap, readers see a copy of an answer, replaced as
\* a whole by a run's commit and by nothing else, and marked with that answer.
THEOREM ProviderMirrored == Spec => MirrorsProvider
<1>1. Init => Mirror!Init
  <2> SUFFICES ASSUME Init PROVE Mirror!Init
    OBVIOUS
  <2>1. Listing(provider) \in Mirror!Listings
    BY ListingListed DEF Init
  <2>2. {Listing(feed[s]) : s \in Answered} = {}
    BY DEF Init, Answered
  <2>3. LiveNames = Listing(provider)
    BY ShownInit
  <2> QED
    BY <2>1, <2>2, <2>3 DEF Init, Mirror!Init
<1>2. SInv /\ SInv' /\ [Next]_vars => [Mirror!Next]_(Mirror!vars)
  <2> SUFFICES ASSUME SInv, SInv', [Next]_vars
               PROVE  Mirror!Next \/ UNCHANGED Mirror!vars
    OBVIOUS
  <2>1. CASE overlapped'
    BY <2>1 DEF Mirror!Next
  <2>2. CASE ~overlapped'
    <3>1. TypeOK'
      BY DEF SInv, IInv
    <3> QED
      BY <2>2, <3>1, MirrorStep DEF Mirror!Next
  <2> QED
    BY <2>1, <2>2
<1> QED
  BY <1>1, <1>2, SerialInvariance, PTL DEF Spec, MirrorsProvider, Mirror!Spec

-----------------------------------------------------------------------------
(* Renames reach playlists *)

\* The session has noted which playlist channels to rename.
Noted(s) == step[s] \in {"written", "imported", "cleared"}

\* What a session will rename, it renames to what it sees.
RenamesSeen(s) ==
    \A pc \in PCs : rename[s][pc] # Absent =>
        /\ Noted(s) /\ CatOfRow(RowOf(pc)) \in feed[s].cats
        /\ rename[s][pc] = SeenName(s, RowOf(pc))

\* What nobody wrote since has the name the session sees, or will have it.
NamesKnown(s) ==
    Noted(s) /\ feed[s] # NoFeed =>
        \A pc \in PCs \ (locked[s] \union touched[s]) :
            /\ pcName[pc] # Absent
            /\ CatOfRow(RowOf(pc)) \in feed[s].cats
            /\ rename[s][pc] = Absent
            => pcName[pc] = SeenName(s, RowOf(pc))

\* What it saw locked is so, or the administrator has written to it since.
LocksKnown(s) == locked[s] \subseteq IF Noted(s) THEN pcLocked \union touched[s] ELSE {}

RenameInv(s) == RenamesSeen(s) /\ NamesKnown(s) /\ LocksKnown(s)

PropagateInv == ~overlapped => \A s \in Syncs : RenameInv(s)

RInv == SInv /\ PropagateInv

\* A session sees what it saw as long as it and the rows' names stay.
LEMMA SeenUnchanged ==
    ASSUME NEW s \in Syncs, feed'[s] = feed[s], pick'[s] = pick[s],
           sawName'[s] = sawName[s], rowName' = rowName
    PROVE  \A r \in Rows : SeenName(s, r)' = SeenName(s, r)
<1>1. NewRows(s)' = NewRows(s) /\ UpdatedRows(s)' = UpdatedRows(s)
  BY DEF NewRows, UpdatedRows, Listed
<1> QED
  BY <1>1 DEF SeenName

\* A session sees a name of every row there is.
LEMMA SeenIsName ==
    ASSUME IInv, NEW s \in Syncs, NEW r \in Rows, rowName[r] # Absent
    PROVE  SeenName(s, r) # Absent
<1>1. TypeOK /\ SessionInv(s)
  BY DEF IInv
<1>2. \A k \in Listed(feed[s]) : k \in Keys /\ feed[s].name[k] # Absent
  BY DEF Listed
<1>3. \A q \in NewRows(s) \union UpdatedRows(s) : KeyOf(q) \in Listed(feed[s])
  BY <1>1, <1>2, NewRowsOwn DEF UpdatedRows, SessionInv, PickInv
<1> QED
  BY <1>2, <1>3 DEF SeenName

\* What a run that overlapped no other sees is what its commit leaves.
LEMMA CommitSeen ==
    ASSUME SInv, NEW s \in Syncs, Commit(s), feed[s] # NoFeed, ~overlapped,
           NEW r \in Rows, rowName[r] # Absent \/ r \in NewRows(s)
    PROVE  rowName'[r] = SeenName(s, r)
<1>0. TypeOK /\ IInv /\ SessionInv(s) /\ AloneInv(s) /\ OneRow
  BY DEF SInv, IInv, SerialInv
<1>1. Current(s)
  BY <1>0 DEF AloneInv, Looked, Commit
<1>2. rowName'[r] = IF \/ r \in NewRows(s)
                       \/ r \in UpdatedRows(s) /\ sawName[s][r] # feed[s].name[KeyOf(r)]
                    THEN feed[s].name[KeyOf(r)] ELSE rowName[r]
  BY DEF Commit, CommitRows
<1>3. CASE r \in NewRows(s)
  BY <1>2, <1>3 DEF SeenName
<1>4. CASE r \notin NewRows(s)
  <2>1. rowName[r] # Absent /\ KeyOf(r) \in Keys
    BY <1>4, Naming
  <2>2. pick[s][KeyOf(r)] # NoRow
    BY <1>1, <2>1 DEF Current
  <2>3. pick[s][KeyOf(r)] = r
    BY <1>0, <2>1, <2>2 DEF SessionInv, PickInv, TypeOK, OneRow
  <2>4. sawName[s][r] = rowName[r]
    BY <1>1, <2>1, <2>2, <2>3 DEF Current
  <2> QED
    BY <1>2, <1>4, <2>1, <2>4 DEF SeenName
<1> QED
  BY <1>3, <1>4

\* A step that leaves a session and the rows' names alone, and writes to
\* playlists only what it notes, keeps what the session knows of them.
LEMMA RenamesUntouched ==
    ASSUME NEW s \in Syncs, RenameInv(s),
           step'[s] = step[s], feed'[s] = feed[s], pick'[s] = pick[s],
           sawName'[s] = sawName[s], rename'[s] = rename[s], locked'[s] = locked[s],
           rowName' = rowName, touched[s] \subseteq touched'[s],
           Noted(s) => \A pc \in PCs \ touched'[s] : pcName'[pc] = pcName[pc],
           Noted(s) => pcLocked \subseteq pcLocked' \union touched'[s]
    PROVE  RenameInv(s)'
<1>1. \A pc \in PCs : /\ RowOf(pc) \in Rows
                      /\ SeenName(s, RowOf(pc))' = SeenName(s, RowOf(pc))
  BY Naming, SeenUnchanged
<1>2. Noted(s)' <=> Noted(s)
  BY DEF Noted
<1>3. RenamesSeen(s)'
  BY <1>1, <1>2 DEF RenameInv, RenamesSeen
<1>4. NamesKnown(s)'
  <2>1. SUFFICES ASSUME Noted(s), feed[s] # NoFeed,
                        NEW pc \in PCs \ (locked[s] \union touched'[s]),
                        pcName'[pc] # Absent,
                        CatOfRow(RowOf(pc)) \in feed[s].cats, rename[s][pc] = Absent
                 PROVE  pcName'[pc] = SeenName(s, RowOf(pc))
    BY <1>1, <1>2 DEF NamesKnown
  <2>2. pcName'[pc] = pcName[pc] /\ pc \in PCs \ (locked[s] \union touched[s])
    BY <2>1
  <2> QED
    BY <2>1, <2>2 DEF RenameInv, NamesKnown
<1> QED
  BY <1>2, <1>3, <1>4 DEF RenameInv, LocksKnown

\* A session that is idle plans nothing.
LEMMA IdleRenames ==
    ASSUME NEW s \in Syncs, ~Noted(s), locked[s] = {},
           \A pc \in PCs : rename[s][pc] = Absent
    PROVE  RenameInv(s)
  BY DEF RenameInv, RenamesSeen, NamesKnown, LocksKnown

\* Every step of a session keeps what it knows of playlists.
LEMMA RenameOwn ==
    ASSUME RInv, NEW s \in Syncs, ~overlapped',
           \/ Start(s) \/ FetchFails(s) \/ Abort(s)
           \/ ReadChannels(s) \/ WriteChannels(s) \/ AutoImport(s)
           \/ RenameFails(s) \/ ClearStale(s) \/ Commit(s)
    PROVE  RenameInv(s)'
<1>0. TypeOK /\ IInv /\ RowsInv /\ SessionInv(s) /\ ~overlapped
  BY DEF RInv, SInv, IInv, Start, FetchFails, Abort, ReadChannels, WriteChannels,
         AutoImport, RenameFails, ClearStale, Commit, TypeOK
<1>1. RenameInv(s)
  BY <1>0 DEF RInv, PropagateInv
<1>2. \A pc \in PCs : RowOf(pc) \in Rows
  BY Naming
<1>3. CASE Close(s)
  <2>1. step'[s] = "idle" /\ rename'[s] = NoRename /\ locked'[s] = {}
    BY <1>0, <1>3 DEF Close, TypeOK
  <2> QED
    BY <2>1 DEF RenameInv, RenamesSeen, NamesKnown, LocksKnown, Noted, NoRename
<1>4. CASE Start(s) \/ ReadChannels(s)
  <2>1. ~Noted(s) /\ ~Noted(s)' /\ rename' = rename /\ locked' = locked
    BY <1>0, <1>4 DEF Start, ReadChannels, Noted, Active, todo, TypeOK
  <2>2. locked[s] = {} /\ \A pc \in PCs : rename[s][pc] = Absent
    BY <1>1, <2>1 DEF RenameInv, RenamesSeen, LocksKnown
  <2> QED
    BY <2>1, <2>2 DEF RenameInv, RenamesSeen, NamesKnown, LocksKnown
<1>5. CASE FetchFails(s)
  <2>1. /\ ~Noted(s) /\ step[s] = "idle"
        /\ rename' = rename /\ feed' = feed /\ locked' = locked
    BY <1>5 DEF FetchFails, Noted, Active, todo
  <2>2. /\ feed'[s] = NoFeed /\ locked[s] = {}
        /\ \A pc \in PCs : rename[s][pc] = Absent
    BY <1>0, <1>1, <2>1 DEF RenameInv, RenamesSeen, LocksKnown, SessionInv, ClosedInv
  <2> QED
    BY <2>1, <2>2 DEF RenameInv, RenamesSeen, NamesKnown, LocksKnown
<1>6. CASE WriteChannels(s)
  <2>1. /\ step'[s] = "written" /\ feed' = feed /\ pick' = pick /\ sawName' = sawName
        /\ rowName' = rowName /\ pcName' = pcName
        /\ pcLocked' = pcLocked /\ locked'[s] = pcLocked
        /\ \A pc \in PCs : rename'[s][pc] =
              IF pc \in Outdated(s) THEN SeenName(s, RowOf(pc)) ELSE Absent
    BY <1>0, <1>6 DEF WriteChannels, TypeOK, db, loaded
  <2>2. \A pc \in PCs : SeenName(s, RowOf(pc))' = SeenName(s, RowOf(pc))
    BY <1>2, <2>1, SeenUnchanged
  <2>3. RenamesSeen(s)'
    BY <2>1, <2>2 DEF RenamesSeen, Noted, Outdated
  <2>4. NamesKnown(s)'
    <3>1. SUFFICES ASSUME NEW pc \in PCs \ pcLocked, pcName[pc] # Absent,
                          CatOfRow(RowOf(pc)) \in feed[s].cats,
                          rename'[s][pc] = Absent
                   PROVE  pcName[pc] = SeenName(s, RowOf(pc))
      BY <2>1, <2>2 DEF NamesKnown
    <3>2. SeenName(s, RowOf(pc)) # Absent
      BY <1>0, <1>2, <3>1, SeenIsName DEF RowsInv
    <3> QED
      BY <2>1, <3>1, <3>2 DEF Outdated
  <2>5. LocksKnown(s)'
    BY <2>1 DEF LocksKnown, Noted
  <2> QED
    BY <2>3, <2>4, <2>5 DEF RenameInv
<1>7. CASE AutoImport(s) \/ ClearStale(s)
  <2>1. /\ Noted(s) /\ Noted(s)' /\ feed' = feed /\ pick' = pick /\ sawName' = sawName
        /\ rowName' = rowName /\ pcName' = pcName /\ locked' = locked
        /\ touched' = touched /\ rename' = rename /\ pcLocked' = pcLocked
    BY <1>0, <1>7 DEF AutoImport, ClearStale, Noted, db, loaded, TypeOK
  <2>2. \A pc \in PCs : SeenName(s, RowOf(pc))' = SeenName(s, RowOf(pc))
    BY <1>2, <2>1, SeenUnchanged
  <2> QED
    BY <1>1, <2>1, <2>2 DEF RenameInv, RenamesSeen, NamesKnown, LocksKnown
<1> QED
  BY <1>3, <1>4, <1>5, <1>6, <1>7 DEF Abort, RenameFails, Commit

\* And what the others know: until runs overlap they are idle.
LEMMA RenameOthers ==
    ASSUME RInv, NEW s \in Syncs, ~overlapped', NEW o \in Syncs, o # s,
           \/ Start(s) \/ FetchFails(s) \/ Abort(s)
           \/ ReadChannels(s) \/ WriteChannels(s) \/ AutoImport(s)
           \/ RenameFails(s) \/ ClearStale(s) \/ Commit(s)
    PROVE  RenameInv(o)'
<1>0. TypeOK /\ ~overlapped
  BY DEF RInv, SInv, IInv, Start, FetchFails, Abort, ReadChannels, WriteChannels,
         AutoImport, RenameFails, ClearStale, Commit, TypeOK
<1>1. RenameInv(o) /\ OneActive
  BY <1>0 DEF RInv, PropagateInv, SInv, SerialInv
<1>2. step[o] = "idle"
  <2>1. CASE Start(s) \/ FetchFails(s)
    BY <1>0, <2>1 DEF Start, FetchFails, Active
  <2>2. CASE ~(Start(s) \/ FetchFails(s))
    <3>1. Active(s)
      BY <2>2 DEF Abort, ReadChannels, WriteChannels, AutoImport, RenameFails,
                  ClearStale, Commit, Active
    <3> QED
      BY <1>1, <3>1 DEF OneActive, Active
  <2> QED
    BY <2>1, <2>2
<1>3. locked[o] = {} /\ \A pc \in PCs : rename[o][pc] = Absent
  BY <1>1, <1>2 DEF RenameInv, RenamesSeen, LocksKnown, Noted
<1>4. step'[o] = step[o] /\ rename'[o] = rename[o] /\ locked'[o] = locked[o]
  <2>1. CASE Close(s)
    BY <1>0, <2>1, CloseOther
  <2>2. CASE ~Close(s)
    BY <1>0, <2>2 DEF Start, FetchFails, Abort, ReadChannels, WriteChannels,
         AutoImport, RenameFails, ClearStale, Commit, TypeOK, todo
  <2> QED
    BY <2>1, <2>2
<1> QED
  BY <1>2, <1>3, <1>4 DEF RenameInv, RenamesSeen, NamesKnown, LocksKnown, Noted

\* What the administrator writes is noted for the sessions under way.
LEMMA RenameAdmin ==
    ASSUME RInv, Admin, ~overlapped' PROVE \A s \in Syncs : RenameInv(s)'
<1>0. TypeOK
  BY DEF RInv, SInv, IInv
<1>1. UNCHANGED <<overlapped, rowName, session, locked>>
  <2>1. ASSUME NEW p \in PCats, NEW c \in Cats, NEW link \in BOOLEAN,
               ImportRead(p, c, link)
        PROVE  UNCHANGED <<overlapped, rowName, session, locked>>
    BY <2>1 DEF ImportRead, db, runs
  <2>2. CASE \/ ImportCommit
             \/ \E pc \in PCs, n \in Names, lock \in BOOLEAN : PatchChannel(pc, n, lock)
             \/ \E pc \in PCs : DeleteChannel(pc)
             \/ \E l \in Links : AddLink(l) \/ RemoveLink(l)
    BY <2>2 DEF ImportCommit, PatchChannel, DeleteChannel, AddLink, RemoveLink, runs
  <2> QED
    BY <2>1, <2>2 DEF Admin
<1> DEFINE Noticed(s) ==
             /\ touched[s] \subseteq touched'[s]
             /\ Noted(s) => \A pc \in PCs \ touched'[s] : pcName'[pc] = pcName[pc]
             /\ Noted(s) => pcLocked \subseteq pcLocked' \union touched'[s]
<1> SUFFICES ASSUME NEW s \in Syncs PROVE Noticed(s)
  <2>1. ASSUME NEW s \in Syncs PROVE RenameInv(s)
    BY <1>1 DEF RInv, PropagateInv
  <2> QED
    BY <1>1, <2>1, RenamesUntouched DEF session, loaded, todo
<1>2. ASSUME NEW pcs, Touch(pcs), \A pc \in PCs \ pcs : pcName'[pc] = pcName[pc],
             pcLocked \ pcs \subseteq pcLocked'
      PROVE  Noticed(s)
  BY <1>2 DEF Touch, Noted
<1>3. CASE ImportCommit
  <2> DEFINE pcs == {pc \in PCs : pc[2] = imp.target /\ imp.name[RowOf(pc)] # Absent}
  <2>1. /\ Touch(pcs) /\ \A pc \in PCs \ pcs : pcName'[pc] = pcName[pc]
        /\ pcLocked' = pcLocked
    BY <1>3 DEF ImportCommit
  <2> HIDE DEF pcs
  <2> QED
    BY <1>2, <2>1
<1>4. ASSUME NEW pc \in PCs, NEW n \in Names, NEW lock \in BOOLEAN,
             PatchChannel(pc, n, lock)
      PROVE  Noticed(s)
  <2>1. /\ Touch({pc}) /\ \A q \in PCs \ {pc} : pcName'[q] = pcName[q]
        /\ pcLocked \ {pc} \subseteq pcLocked'
    BY <1>0, <1>4 DEF PatchChannel, TypeOK
  <2> QED
    BY <1>2, <2>1
<1>5. ASSUME NEW pc \in PCs, DeleteChannel(pc)
      PROVE  Noticed(s)
  <2>1. /\ Touch({pc}) /\ \A q \in PCs \ {pc} : pcName'[q] = pcName[q]
        /\ pcLocked \ {pc} \subseteq pcLocked'
    BY <1>0, <1>5 DEF DeleteChannel, TypeOK
  <2> QED
    BY <1>2, <2>1
<1>6. CASE UNCHANGED <<pcName, pcLocked, touched>>
  BY <1>6
<1> QED
  BY <1>3, <1>4, <1>5, <1>6 DEF Admin, ImportRead, AddLink, RemoveLink, db, runs

LEMMA PropagateStep == RInv /\ [Next]_vars => PropagateInv'
<1> SUFFICES ASSUME RInv, [Next]_vars, ~overlapped'
             PROVE  \A s \in Syncs : RenameInv(s)'
  BY DEF PropagateInv
<1>1. ASSUME NEW s \in Syncs, \/ Start(s) \/ RunStep(s) \/ FetchFails(s) \/ Abort(s)
      PROVE  \A o \in Syncs : RenameInv(o)'
  BY <1>1, RenameOwn, RenameOthers DEF RunStep
<1>2. CASE Admin
  BY <1>2, RenameAdmin
<1>3. CASE \/ ProviderChanges \/ UNCHANGED vars \/ \E r \in Rows : GraceEnds(r)
  <2>1. UNCHANGED <<rowName, pcName, pcLocked, runs, overlapped>>
    BY <1>3 DEF ProviderChanges, GraceEnds, vars, db
  <2>2. \A s \in Syncs : RenameInv(s)
    BY <2>1 DEF RInv, PropagateInv
  <2> QED
    BY <2>1, <2>2, RenamesUntouched DEF runs, session, loaded, todo
<1> QED
  BY <1>1, <1>2, <1>3 DEF Next

\* Every reachable state: until two runs overlap, a run in progress knows the
\* name of every playlist channel it is to see to.
THEOREM RenameInvariance == Spec => []RInv
<1>1. Init => RInv
  <2>1. Init => PropagateInv
    <3> SUFFICES ASSUME Init, NEW s \in Syncs PROVE RenameInv(s)
      BY DEF PropagateInv
    <3> QED
      BY IdleRenames DEF Init, Noted, NoRename
  <2> QED
    BY <2>1, InvInit, SerialInit DEF RInv, SInv
<1>2. RInv /\ [Next]_vars => RInv'
  BY InvStep, SerialStep, PropagateStep DEF RInv, SInv
<1> QED
  BY <1>1, <1>2, PTL DEF Spec

\* The commit of a run that overlapped no other names the playlist channels of
\* its feed's categories as it leaves their source channels.
LEMMA CommitPropagates ==
    ASSUME RInv, NEW s \in Syncs, Commit(s), feed[s] # NoFeed, ~overlapped,
           NEW pc \in PCs, pcName'[pc] # Absent,
           CatOfRow(RowOf(pc)) \in feed[s].cats,
           pc \notin locked[s] \union touched[s] \/ pcName'[pc] # pcName[pc]
    PROVE  pcName'[pc] = rowName'[RowOf(pc)]
<1>0. TypeOK /\ IInv /\ SInv /\ RowsInv /\ SessionInv(s) /\ RenameInv(s)
  BY DEF RInv, PropagateInv, SInv, IInv
<1>1. RowOf(pc) \in Rows
  BY Naming
<1>2. pcName'[pc] = IF pc \in clear[s] THEN Absent
                    ELSE IF pc \in import[s] THEN SeenName(s, RowOf(pc))
                    ELSE IF pc \in ToRename(s) THEN rename[s][pc]
                    ELSE pcName[pc]
  BY DEF Commit, CommitPlaylists
<1>3. CASE pc \in import[s]
  <2>1. RowOf(pc) \in NewRows(s)
    BY <1>0, <1>3 DEF SessionInv, TodoInv
  <2> QED
    BY <1>0, <1>1, <1>2, <1>3, <2>1, CommitSeen
<1>4. CASE pc \notin import[s] /\ pc \in ToRename(s)
  <2>1. rename[s][pc] # Absent /\ rename[s][pc] = SeenName(s, RowOf(pc))
    BY <1>0, <1>4 DEF ToRename, RenameInv, RenamesSeen
  <2>2. rowName[RowOf(pc)] # Absent
    BY <1>0, <2>1 DEF SessionInv, TodoInv
  <2> QED
    BY <1>0, <1>1, <1>2, <1>4, <2>1, <2>2, CommitSeen
<1>5. CASE pc \notin import[s] /\ pc \notin ToRename(s)
  <2>1. pcName'[pc] = pcName[pc] /\ rename[s][pc] = Absent
    BY <1>2, <1>5 DEF ToRename
  <2>2. pcName[pc] = SeenName(s, RowOf(pc))
    BY <1>0, <2>1 DEF RenameInv, NamesKnown, Noted, Commit
  <2>3. rowName[RowOf(pc)] # Absent
    BY <1>0, <2>1 DEF RowsInv
  <2> QED
    BY <1>0, <1>1, <2>1, <2>2, <2>3, CommitSeen
<1> QED
  BY <1>3, <1>4, <1>5

\* After a run that overlapped no other, a playlist channel of the feed's
\* categories has its source channel's name, unless it was locked when the run
\* looked or the administrator has written to it since.
THEOREM RenamesReach == Spec => RenamesReachPlaylists
<1>1. RInv /\ [Next]_vars =>
        [ \A s \in Syncs : Commit(s) /\ feed[s] # NoFeed /\ ~overlapped =>
            \A pc \in PCs \ (locked[s] \union touched[s]) :
               pcName'[pc] # Absent /\ CatOfRow(RowOf(pc)) \in feed[s].cats
                 => pcName'[pc] = rowName'[RowOf(pc)] ]_vars
  BY CommitPropagates
<1> QED
  BY <1>1, RenameInvariance, PTL DEF Spec, RenamesReachPlaylists

-----------------------------------------------------------------------------
(* What is in line with the provider stays so *)

\* A step that leaves what InSync looks at leaves it.
LEMMA InSyncUnchanged ==
    ASSUME InSync, UNCHANGED <<provider, rowName, pcName, pcLocked>>,
           \A r \in Rows : rowGone'[r] = "no" <=> rowGone[r] = "no"
    PROVE  InSync'
<1>1. Listed(provider)' = Listed(provider)
  BY DEF Listed
<1> QED
  BY <1>1 DEF InSync

\* A run that got no answer disturbs nothing.
LEMMA NothingDisturbs ==
    ASSUME RInv, NEW s \in Syncs, Commit(s), feed[s] = NoFeed, ~overlapped, InSync
    PROVE  InSync'
<1>0. TypeOK /\ IInv /\ RenameInv(s)
  BY DEF RInv, PropagateInv, SInv, IInv
<1>1. import[s] = {} /\ rowName' = rowName /\ rowGone' = rowGone
  BY <1>0, CommitOfNothing
<1>2. ToRename(s) = {}
  BY <1>0 DEF ToRename, RenameInv, RenamesSeen, NoFeed
<1>3. /\ \A pc \in PCs : pcName'[pc] = IF pc \in clear[s] THEN Absent ELSE pcName[pc]
      /\ pcLocked' = pcLocked \ clear[s] /\ provider' = provider
  BY <1>1, <1>2 DEF Commit, CommitPlaylists
<1>4. Listed(provider)' = Listed(provider)
  BY <1>3 DEF Listed
<1> QED
  BY <1>1, <1>3, <1>4 DEF InSync

\* A run that got what the database already says disturbs nothing.
LEMMA SameDisturbsNothing ==
    ASSUME RInv, NEW s \in Syncs, Commit(s), feed[s] # NoFeed, feed[s] = provider,
           ~overlapped, InSync
    PROVE  InSync'
<1>0. TypeOK /\ IInv /\ SInv /\ OneRow /\ RowsInv /\ SessionInv(s) /\ AloneInv(s)
  BY DEF RInv, SInv, SerialInv, IInv
<1>1. provider' = provider /\ Listed(provider)' = Listed(provider)
  BY DEF Commit, Listed
<1>2. \A k \in Keys : IF k \in Listed(provider)
         THEN \E r \in Rows : KeyOf(r) = k /\ rowGone'[r] = "no"
                              /\ rowName'[r] = provider.name[k]
         ELSE \A r \in Rows : KeyOf(r) = k /\ rowName'[r] # Absent => rowGone'[r] # "no"
  BY <1>0, CommitFollowsFeed
<1>3. ASSUME NEW pc \in PCs, pcName'[pc] # Absent, pc \notin pcLocked',
             CatOfRow(RowOf(pc)) \in provider.cats
      PROVE  pcName'[pc] = rowName'[RowOf(pc)]
  <2>1. CASE pcName'[pc] # pcName[pc]
    BY <1>3, <2>1, CommitPropagates
  <2>2. CASE pcName'[pc] = pcName[pc]
    <3> DEFINE r == RowOf(pc)
    <3>1. r \in Rows /\ rowName[r] # Absent
      BY <1>0, <1>3, <2>2, Naming DEF RowsInv
    <3>2. pc \notin pcLocked \/ pc \in clear[s]
      BY <1>3 DEF Commit, CommitPlaylists
    <3>3. pc \notin pcLocked
      BY <1>3, <3>2 DEF Commit, CommitPlaylists
    <3>4. pcName[pc] = rowName[r]
      BY <1>3, <2>2, <3>3 DEF InSync
    <3>5. rowName'[r] = rowName[r]
      <4>1. r \notin NewRows(s)
        BY <1>0, <3>1 DEF SessionInv, PickInv, Looked, Commit
      <4>2. CASE r \in UpdatedRows(s)
        <5>1. PICK k \in Listed(feed[s]) : r = pick[s][k] /\ pick[s][k] # NoRow
          BY <4>2 DEF UpdatedRows
        <5>2. k \in Keys /\ KeyOf(r) = k /\ provider.name[k] # Absent
          BY <1>0, <5>1 DEF Listed, SessionInv, PickInv
        <5>3. PICK q \in Rows : KeyOf(q) = k /\ rowName[q] = provider.name[k]
          BY <5>1, <5>2 DEF InSync
        <5>4. q = r
          BY <1>0, <3>1, <5>2, <5>3 DEF OneRow
        <5> QED
          BY <3>1, <5>2, <5>3, <5>4 DEF Commit, CommitRows
      <4>3. CASE r \notin UpdatedRows(s)
        BY <3>1, <4>1, <4>3 DEF Commit, CommitRows
      <4> QED
        BY <4>2, <4>3
    <3> QED
      BY <2>2, <3>4, <3>5
  <2> QED
    BY <2>1, <2>2
<1> QED
  BY <1>1, <1>2, <1>3 DEF InSync

\* What says what the provider says goes on doing so until the provider or the
\* administrator changes something, or an older answer is committed.
THEOREM InSyncKept == Spec => StaysInSync
<1>1. ASSUME RInv, [Next]_vars, InSync, ~overlapped'
      PROVE  \/ InSync'
             \/ provider' # provider
             \/ Admin
             \/ \E s \in Syncs : Commit(s) /\ feed[s] \notin {NoFeed, provider}
  <2>0. TypeOK
    BY <1>1 DEF RInv, SInv, IInv
  <2>1. CASE ProviderChanges
    <3>1. CASE provider' = provider
      BY <1>1, <2>1, <3>1, InSyncUnchanged DEF ProviderChanges, db
    <3> QED
      BY <3>1
  <2>2. ASSUME NEW r \in Rows, GraceEnds(r) PROVE InSync'
    <3>1. \A q \in Rows : rowGone'[q] = "no" <=> rowGone[q] = "no"
      BY <2>0, <2>2 DEF GraceEnds, TypeOK
    <3> QED
      BY <1>1, <2>2, <3>1, InSyncUnchanged DEF GraceEnds
  <2>3. ASSUME NEW s \in Syncs, Commit(s), feed[s] \in {NoFeed, provider} PROVE InSync'
    <3>1. ~overlapped
      BY <1>1, <2>3 DEF Commit
    <3> QED
      BY <1>1, <2>3, <3>1, NothingDisturbs, SameDisturbsNothing
  <2>4. CASE \/ UNCHANGED vars
             \/ \E s \in Syncs : \/ Start(s) \/ FetchFails(s) \/ Abort(s)
                                 \/ ReadChannels(s) \/ WriteChannels(s) \/ AutoImport(s)
                                 \/ RenameFails(s) \/ ClearStale(s)
    <3>1. UNCHANGED <<provider, db>>
      BY <2>4 DEF vars, Start, FetchFails, Abort, ReadChannels, WriteChannels,
                  AutoImport, RenameFails, ClearStale
    <3> QED
      BY <1>1, <3>1, InSyncUnchanged DEF db
  <2> QED
    BY <1>1, <2>1, <2>2, <2>3, <2>4 DEF Next, RunStep
<1>2. RInv /\ [Next]_vars =>
        [ InSync /\ ~overlapped' =>
            \/ InSync'
            \/ provider' # provider
            \/ Admin
            \/ \E s \in Syncs : Commit(s) /\ feed[s] \notin {NoFeed, provider} ]_vars
  BY <1>1
<1> QED
  BY <1>2, RenameInvariance, PTL DEF Spec, StaysInSync

\* A run that overlapped no other and commits what the provider says then, with
\* no playlist channel written under its hands, brings all in line with it.
\* With InSyncKept this is Converges, but for the commits that must come.
THEOREM InSyncReached ==
    Spec => [][ \A s \in Syncs : Commit(s) /\ feed[s] # NoFeed /\ ~overlapped
                                  /\ feed[s] = provider /\ touched[s] = {}
                  => InSync' ]_vars
<1>1. ASSUME RInv, NEW s \in Syncs, Commit(s), feed[s] # NoFeed, ~overlapped,
             feed[s] = provider, touched[s] = {}
      PROVE  InSync'
  <2>1. SInv /\ provider' = provider /\ Listed(provider)' = Listed(provider)
    BY <1>1 DEF RInv, Commit, Listed
  <2>2. \A k \in Keys : IF k \in Listed(provider)
           THEN \E r \in Rows : KeyOf(r) = k /\ rowGone'[r] = "no"
                                /\ rowName'[r] = provider.name[k]
           ELSE \A r \in Rows : KeyOf(r) = k /\ rowName'[r] # Absent
                                => rowGone'[r] # "no"
    BY <1>1, <2>1, CommitFollowsFeed
  <2>3. ASSUME NEW pc \in PCs, pcName'[pc] # Absent, pc \notin pcLocked'
        PROVE  pc \notin locked[s]
    <3>1. locked[s] \subseteq pcLocked
      BY <1>1 DEF RInv, PropagateInv, RenameInv, LocksKnown, Noted, Commit
    <3>2. pc \notin clear[s]
      BY <1>1, <2>3 DEF Commit, CommitPlaylists
    <3> QED
      BY <1>1, <2>3, <3>1, <3>2 DEF Commit, CommitPlaylists
  <2>4. \A pc \in PCs : pcName'[pc] # Absent /\ pc \notin pcLocked'
                        /\ CatOfRow(RowOf(pc)) \in provider.cats
                           => pcName'[pc] = rowName'[RowOf(pc)]
    BY <1>1, <2>3, CommitPropagates
  <2> QED
    BY <2>1, <2>2, <2>4 DEF InSync
<1>2. RInv /\ [Next]_vars =>
        [ \A s \in Syncs : Commit(s) /\ feed[s] # NoFeed /\ ~overlapped
                           /\ feed[s] = provider /\ touched[s] = {}
             => InSync' ]_vars
  BY <1>1
<1> QED
  BY <1>2, RenameInvariance, PTL DEF Spec

=============================================================================
