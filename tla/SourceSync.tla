----------------------------- MODULE SourceSync -----------------------------
(***************************************************************************)
(* Synchronising one provider (services/sync_engine.py: sync_source and    *)
(* apply_auto_clear) while an administrator edits the playlists built on   *)
(* it (api/routes/playlists.py).                                           *)
(*                                                                         *)
(* A run is one database transaction that no lock keeps apart from the     *)
(* others: the scheduler, "Sync now" and a source's own sync button may    *)
(* overlap.  Its statements read what is committed then (READ COMMITTED)   *)
(* over its own writes, its ORM session keeps the values it loaded and     *)
(* writes only the columns that differ from them, and everything it wrote  *)
(* appears at once when it commits.                                        *)
(*                                                                         *)
(* A source_channels row is named by the provider channel it stands for    *)
(* and the session that inserted it; a playlist_channels row by the source *)
(* row it shows and the category it is in.  A name is Absent where there   *)
(* is no such row.  Source categories are only their presence in the feed. *)
(***************************************************************************)
EXTENDS Naturals, FiniteSets

CONSTANTS
    Cats,               \* the provider's categories
    Keys,               \* its channels: (category, external_stream_id)
    CatOf,              \* the category of each
    Names,              \* the names channels can have
    Absent,             \* no row, no write
    PCats,              \* playlist categories
    Syncs,              \* sessions that can run a sync
    First,              \* the one that ran the source's first sync
    AutoClear,          \* whether auto_clear_removed_days is set
    MaxFeeds,           \* bound on what the provider changes
    MaxEdits,           \* bound on what the administrator does
    MaxAborts           \* bound on fetch failures, crashes, database errors

ASSUME SyncAssumptions ==
    /\ CatOf \in [Keys -> Cats]
    /\ Absent \notin Names
    /\ PCats # {} /\ Cats # {}
    /\ First \in Syncs
    /\ AutoClear \in BOOLEAN
    /\ MaxFeeds \in Nat /\ MaxEdits \in Nat /\ MaxAborts \in Nat

Rows  == Keys \X Syncs
PCs   == Rows \X PCats
Links == PCats \X Cats
NoRow == <<Absent, Absent>>

ASSUME NoRowAssumption == NoRow \notin Rows

KeyOf(r)  == r[1]
RowOf(pc) == pc[1]
CatOfRow(r) == CatOf[KeyOf(r)]

MaybeName == Names \union {Absent}

VARIABLES
    provider,           \* what the provider answers now
    rowName, rowGone,   \* source_channels: name, removed_at
    pcName, pcLocked,   \* playlist_channels: name, name_locked
    links,              \* playlist_category_source_links
    synced,             \* history: the listing that last_sync_at is about
    step, feed,         \* of each session: where it is, what was fetched,
    sawName, sawGone,   \*   the source_channels as it loaded them,
    pick,               \*   existing_by_key,
    rename,             \*   playlist channel names to write,
    import, clear,      \*   playlist channels to insert, to delete
    locked,             \* history: what was locked when the session looked,
    touched,            \*   playlist channels the administrator wrote since,
    kept,               \*   links there since the session started
    imp,                \* the administrator's import request
    overlapped,         \* history: two syncs have run at the same time
    feeds, edits, aborts

db     == <<rowName, rowGone, pcName, pcLocked, links, synced>>
loaded == <<sawName, sawGone, pick>>
todo   == <<rename, import, clear>>
session == <<step, feed, loaded, todo>>
runs   == <<session, locked, touched, kept>>
bounds == <<feeds, edits, aborts>>
vars   == <<provider, db, runs, imp, overlapped, bounds>>

\* removed_at is NULL, lies within the grace period, or is older than it.
Gone == {"no", "recent", "old"}

Feed == [cats : SUBSET Cats, name : [Keys -> MaybeName]]

\* A session that has no answer (yet): not the same as an empty one.
NoFeed == [cats |-> {}, name |-> [k \in {} |-> Absent]]

\* The channels sync_source looks at: their category must be in the feed too.
Listed(f) == {k \in Keys : CatOf[k] \in f.cats /\ f.name[k] # Absent}

\* The names of each channel in an answer: one or none.
Listing(f) == [k \in Keys |-> IF k \in Listed(f) THEN {f.name[k]} ELSE {}]

Steps == {"idle", "fetched", "read", "written", "imported", "cleared"}

Import == [busy : BOOLEAN, target : PCats, cat : Cats,
           name : [Rows -> MaybeName], link : BOOLEAN]

NoImport == [busy |-> FALSE, target |-> CHOOSE p \in PCats : TRUE,
             cat |-> CHOOSE c \in Cats : TRUE,
             name |-> [r \in Rows |-> Absent], link |-> FALSE]

Active(s) == step[s] # "idle"

NothingLoaded == [r \in Rows |-> Absent]
NothingGone   == [r \in Rows |-> "no"]
NothingPicked == [k \in Keys |-> NoRow]
NoRename      == [pc \in PCs |-> Absent]

(***************************************************************************)
(* An earlier sync inserted what the provider then listed and has marked   *)
(* what it dropped; an import put every channel of its categories into     *)
(* each playlist category, linked or not.                                  *)
(***************************************************************************)
Init ==
    /\ provider \in {f \in Feed : f.cats = Cats}
    /\ rowName \in [Rows -> MaybeName]
    /\ \A r \in Rows :
         /\ r[2] # First => rowName[r] = Absent
         /\ r[2] = First /\ provider.name[r[1]] # Absent => rowName[r] = provider.name[r[1]]
    /\ rowGone = [r \in Rows |->
         IF rowName[r] # Absent /\ provider.name[r[1]] = Absent THEN "recent" ELSE "no"]
    /\ pcName = [pc \in PCs |-> rowName[RowOf(pc)]]
    /\ pcLocked = {}
    /\ links \in {{}, Links}
    /\ synced = Listing(provider)
    /\ step = [s \in Syncs |-> "idle"]
    /\ feed = [s \in Syncs |-> NoFeed]
    /\ sawName = [s \in Syncs |-> NothingLoaded]
    /\ sawGone = [s \in Syncs |-> NothingGone]
    /\ pick = [s \in Syncs |-> NothingPicked]
    /\ rename = [s \in Syncs |-> NoRename]
    /\ import = [s \in Syncs |-> {}]
    /\ clear = [s \in Syncs |-> {}]
    /\ locked = [s \in Syncs |-> {}]
    /\ touched = [s \in Syncs |-> {}]
    /\ kept = [s \in Syncs |-> {}]
    /\ imp = NoImport
    /\ overlapped = FALSE
    /\ feeds = 0 /\ edits = 0 /\ aborts = 0

-----------------------------------------------------------------------------
(* The provider and the calendar *)

\* The provider adds, drops or renames a channel, or a whole category.
ProviderChanges ==
    /\ feeds < MaxFeeds
    /\ feeds' = feeds + 1
    /\ \/ \E k \in Keys, n \in MaybeName :
            n # provider.name[k] /\ provider' = [provider EXCEPT !.name[k] = n]
       \/ \E c \in Cats :
            provider' = [provider EXCEPT !.cats = IF c \in @ THEN @ \ {c} ELSE @ \union {c}]
    /\ UNCHANGED <<db, runs, imp, overlapped, edits, aborts>>

\* The grace period of a removed channel runs out.
GraceEnds(r) ==
    /\ AutoClear
    /\ rowGone[r] = "recent"
    /\ rowGone' = [rowGone EXCEPT ![r] = "old"]
    /\ UNCHANGED <<provider, rowName, pcName, pcLocked, links, synced, runs, imp,
                   overlapped, bounds>>

-----------------------------------------------------------------------------
(* sync_source *)

\* The session is closed: whatever it had not committed is forgotten.
Close(s) ==
    /\ step' = [step EXCEPT ![s] = "idle"]
    /\ feed' = [feed EXCEPT ![s] = NoFeed]
    /\ sawName' = [sawName EXCEPT ![s] = NothingLoaded]
    /\ sawGone' = [sawGone EXCEPT ![s] = NothingGone]
    /\ pick' = [pick EXCEPT ![s] = NothingPicked]
    /\ rename' = [rename EXCEPT ![s] = NoRename]
    /\ import' = [import EXCEPT ![s] = {}]
    /\ clear' = [clear EXCEPT ![s] = {}]
    /\ locked' = [locked EXCEPT ![s] = {}]
    /\ touched' = [touched EXCEPT ![s] = {}]
    /\ kept' = [kept EXCEPT ![s] = {}]

\* The scheduler or a route opens a session, and the provider's answers arrive
\* before it reads or writes anything this module models.
Start(s) ==
    /\ ~Active(s)
    /\ step' = [step EXCEPT ![s] = "fetched"]
    /\ feed' = [feed EXCEPT ![s] = provider]
    /\ kept' = [kept EXCEPT ![s] = links]
    /\ overlapped' = (overlapped \/ \E o \in Syncs : Active(o))
    /\ UNCHANGED <<provider, db, loaded, todo, locked, touched, imp, bounds>>

\* Or the provider does not answer: sync_all_sources notes the error and goes
\* on with what is left of the run.
FetchFails(s) ==
    /\ ~Active(s)
    /\ aborts < MaxAborts
    /\ aborts' = aborts + 1
    /\ step' = [step EXCEPT ![s] = "imported"]
    /\ overlapped' = (overlapped \/ \E o \in Syncs : Active(o))
    /\ UNCHANGED <<provider, db, feed, loaded, todo, locked, touched, kept, imp,
                   feeds, edits>>

Live(r) == rowName[r] # Absent /\ rowGone[r] = "no"

\* Mutant: the SELECT leaves out removed channels.
FoundLive(k) == {r \in Rows : KeyOf(r) = k /\ Live(r)}

Found(k) == {r \in Rows : KeyOf(r) = k /\ rowName[r] # Absent}

\* SELECT the source's channels, keyed by category and external id.  Of rows
\* with one key the dict keeps the last, and the SELECT has no ORDER BY.
ReadChannels(s) ==
    /\ step[s] = "fetched"
    /\ step' = [step EXCEPT ![s] = "read"]
    /\ sawName' = [sawName EXCEPT ![s] = rowName]
    /\ sawGone' = [sawGone EXCEPT ![s] = rowGone]
    /\ \E choice \in [Keys -> Rows \union {NoRow}] :
         /\ \A k \in Keys : choice[k] \in IF Found(k) = {} THEN {NoRow} ELSE Found(k)
         /\ pick' = [pick EXCEPT ![s] = choice]
    /\ UNCHANGED <<provider, db, feed, todo, locked, touched, kept, imp,
                   overlapped, bounds>>

\* The rows a session inserts, finds in the feed, and marks removed.
NewRows(s) ==
    {<<k, s>> : k \in {j \in Listed(feed[s]) : pick[s][j] = NoRow}}

UpdatedRows(s) ==
    {pick[s][k] : k \in {j \in Listed(feed[s]) : pick[s][j] # NoRow}}

\* Mutant: a channel is not missed when its category left with it.
RemovedRowsUnlessListed(s) ==
    {pick[s][k] : k \in {j \in Keys : /\ pick[s][j] # NoRow
                                      /\ feed[s].name[j] = Absent
                                      /\ sawGone[s][pick[s][j]] = "no"}}

RemovedRows(s) ==
    {pick[s][k] : k \in {j \in Keys \ Listed(feed[s]) :
                            pick[s][j] # NoRow /\ sawGone[s][pick[s][j]] = "no"}}

\* Rows a session has written and not committed.
Holds(s) ==
    IF step[s] \in {"written", "imported", "cleared"}
    THEN UpdatedRows(s) \union RemovedRows(s) ELSE {}

\* A row's name as the session sees it: its own write, else what it loaded,
\* else (a row inserted since) what is there.
SeenName(s, r) ==
    IF r \in NewRows(s) \union UpdatedRows(s) THEN feed[s].name[KeyOf(r)]
    ELSE IF sawName[s][r] # Absent THEN sawName[s][r]
    ELSE rowName[r]

\* Mutant: name_locked is not looked at.
OutdatedOrLocked(s) ==
    {pc \in PCs : /\ pcName[pc] # Absent
                  /\ CatOfRow(RowOf(pc)) \in feed[s].cats
                  /\ pcName[pc] # SeenName(s, RowOf(pc))}

\* Mutant: only channels this run renamed are propagated.
OutdatedByThisRun(s) ==
    {pc \in PCs : /\ pcName[pc] # Absent
                  /\ pc \notin pcLocked
                  /\ CatOfRow(RowOf(pc)) \in feed[s].cats
                  /\ sawName[s][RowOf(pc)] # SeenName(s, RowOf(pc))
                  /\ pcName[pc] # SeenName(s, RowOf(pc))}

\* The playlist channels to rename: not locked, of a category in the feed.
Outdated(s) ==
    {pc \in PCs : /\ pcName[pc] # Absent
                  /\ pc \notin pcLocked
                  /\ CatOfRow(RowOf(pc)) \in feed[s].cats
                  /\ pcName[pc] # SeenName(s, RowOf(pc))}

ToRename(s) == {pc \in PCs : rename[s][pc] # Absent}

\* Playlist channels a session has written and not committed.
HoldsPC(s) ==
    CASE step[s] = "imported" -> ToRename(s)
      [] step[s] = "cleared"  -> ToRename(s) \union clear[s]
      [] OTHER -> {}

\* A statement waits for the other runs that have written a row it writes.  The
\* code takes the rows of a statement one by one (the flush of changed rows and
\* that of removed ones by id, the bookkeeping UPDATE in the order of the feed);
\* here they are all taken with the last one, which leaves others every step they
\* have in the code, and more.  Runs that hold rows and wait in a circle are not
\* followed further: PostgreSQL aborts one of them (Abort), the other goes on.
FreeRows(s, rows) == \A o \in Syncs \ {s} : rows \cap Holds(o) = {}
FreePCs(s, pcs)   == \A o \in Syncs \ {s} : pcs \cap HoldsPC(o) = {}

\* INSERT and UPDATE the channels, and the bookkeeping UPDATE of every row in
\* the feed; a row another run has written makes it wait.  Then "propagate
\* renames to non-locked playlist channels": SELECT them, note the names.
WriteChannels(s) ==
    /\ step[s] = "read"
    /\ FreeRows(s, UpdatedRows(s) \union RemovedRows(s))
    /\ step' = [step EXCEPT ![s] = "written"]
    /\ rename' = [rename EXCEPT ![s] =
         [pc \in PCs |-> IF pc \in Outdated(s) THEN SeenName(s, RowOf(pc)) ELSE Absent]]
    /\ locked' = [locked EXCEPT ![s] = pcLocked]
    /\ UNCHANGED <<provider, db, feed, loaded, import, clear, touched, kept, imp,
                   overlapped, bounds>>

\* Mutant: the link's source category is taken for its playlist category.
NewEntriesBySourceCategory(s) ==
    {<<r, CatOfRow(r)>> : r \in {q \in NewRows(s) : \E p \in PCats :
                                                      <<p, CatOfRow(q)>> \in links}}

\* Mutant: the import is skipped unless the run also updated a channel.
NewEntriesIfUpdated(s) ==
    {pc \in NewRows(s) \X PCats :
        UpdatedRows(s) # {} /\ <<pc[2], CatOfRow(RowOf(pc))>> \in links}

\* The playlist channels that links to the categories of new rows call for.
NewEntries(s) ==
    {pc \in NewRows(s) \X PCats : <<pc[2], CatOfRow(RowOf(pc))>> \in links}

\* The renames are flushed, then "auto-import new channels into linked
\* playlist categories": SELECT the links and insert.
AutoImport(s) ==
    /\ step[s] = "written"
    /\ FreePCs(s, ToRename(s))
    /\ \A pc \in ToRename(s) : pcName[pc] # Absent
    /\ step' = [step EXCEPT ![s] = "imported"]
    /\ import' = [import EXCEPT ![s] = NewEntries(s)]
    /\ UNCHANGED <<provider, db, feed, loaded, rename, clear, locked, touched,
                   kept, imp, overlapped, bounds>>

\* An UPDATE that finds its row gone raises StaleDataError: the session's
\* transaction is lost with all it wrote.
RenameFails(s) ==
    /\ step[s] = "written"
    /\ FreePCs(s, ToRename(s))
    /\ \E pc \in ToRename(s) : pcName[pc] = Absent
    /\ Close(s)
    /\ UNCHANGED <<provider, db, imp, overlapped, bounds>>

\* Mutant: the grace period is not looked at.
StaleAtOnce(s) ==
    {pc \in PCs : /\ pcName[pc] # Absent
                  /\ rowGone[RowOf(pc)] # "no"
                  /\ RowOf(pc) \notin UpdatedRows(s)}

\* The playlist channels that show a channel removed before the grace period.
Stale(s) ==
    {pc \in PCs : /\ pcName[pc] # Absent
                  /\ rowGone[RowOf(pc)] = "old"
                  /\ RowOf(pc) \notin UpdatedRows(s)}

\* apply_auto_clear: delete them.  A run of a single source ends without it.
ClearStale(s) ==
    /\ AutoClear
    /\ step[s] = "imported"
    /\ FreePCs(s, Stale(s))
    /\ step' = [step EXCEPT ![s] = "cleared"]
    /\ clear' = [clear EXCEPT ![s] = Stale(s)]
    /\ UNCHANGED <<provider, db, feed, loaded, rename, import, locked, touched,
                   kept, imp, overlapped, bounds>>

\* Only columns that differ from what was loaded are written.
CommitRows(s) ==
    /\ rowName' = [r \in Rows |->
         IF \/ r \in NewRows(s)
            \/ r \in UpdatedRows(s) /\ sawName[s][r] # feed[s].name[KeyOf(r)]
         THEN feed[s].name[KeyOf(r)] ELSE rowName[r]]
    /\ rowGone' = [r \in Rows |->
         IF r \in UpdatedRows(s) /\ sawGone[s][r] # "no" THEN "no"
         ELSE IF r \in RemovedRows(s) THEN "recent"
         ELSE rowGone[r]]

CommitPlaylists(s) ==
    /\ pcName' = [pc \in PCs |->
         IF pc \in clear[s] THEN Absent
         ELSE IF pc \in import[s] THEN SeenName(s, RowOf(pc))
         ELSE IF pc \in ToRename(s) THEN rename[s][pc]
         ELSE pcName[pc]]
    /\ pcLocked' = pcLocked \ clear[s]

Commit(s) ==
    /\ step[s] \in {"imported", "cleared"}
    /\ CommitRows(s)
    /\ CommitPlaylists(s)
    /\ synced' = IF feed[s] = NoFeed THEN synced ELSE Listing(feed[s])
    /\ Close(s)
    /\ UNCHANGED <<provider, links, imp, overlapped, bounds>>

\* A crash, a lost connection or a database error: nothing was committed.
Abort(s) ==
    /\ Active(s)
    /\ aborts < MaxAborts
    /\ aborts' = aborts + 1
    /\ Close(s)
    /\ UNCHANGED <<provider, db, imp, overlapped, feeds, edits>>

-----------------------------------------------------------------------------
(* The administrator *)

EditBegins == edits < MaxEdits /\ edits' = edits + 1

\* History, for the sessions that have looked at the playlists.
Touch(pcs) ==
    touched' = [s \in Syncs |-> IF step[s] \in {"written", "imported", "cleared"}
                                THEN touched[s] \union pcs ELSE touched[s]]

\* import_channels, mode "merge", of one source category: SELECT its live
\* channels and what the target already has and is linked to ...
ImportRead(p, c, link) ==
    /\ ~imp.busy
    /\ EditBegins
    /\ LET chosen == {r \in Rows : CatOfRow(r) = c /\ Live(r)} IN
       imp' = [busy |-> TRUE, target |-> p, cat |-> c,
               name |-> [r \in Rows |->
                           IF r \in chosen /\ pcName[<<r, p>>] = Absent
                           THEN rowName[r] ELSE Absent],
               link |-> link /\ chosen # {} /\ <<p, c>> \notin links]
    /\ UNCHANGED <<provider, db, runs, overlapped, feeds, aborts>>

\* ... then INSERT the channels and, if asked, the link, and COMMIT.
ImportCommit ==
    /\ imp.busy
    /\ pcName' = [pc \in PCs |->
                    IF pc[2] = imp.target /\ imp.name[RowOf(pc)] # Absent
                    THEN imp.name[RowOf(pc)] ELSE pcName[pc]]
    /\ links' = IF imp.link THEN links \union {<<imp.target, imp.cat>>} ELSE links
    /\ Touch({pc \in PCs : pc[2] = imp.target /\ imp.name[RowOf(pc)] # Absent})
    /\ imp' = NoImport
    /\ UNCHANGED <<provider, rowName, rowGone, pcLocked, synced, session, locked,
                   kept, overlapped, bounds>>

\* A row the administrator can write: it is there and no run holds it.
Editable(pc) == pcName[pc] # Absent /\ \A s \in Syncs : pc \notin HoldsPC(s)

\* update_channel: a new name, a new lock.
PatchChannel(pc, n, lock) ==
    /\ Editable(pc)
    /\ EditBegins
    /\ pcName' = [pcName EXCEPT ![pc] = n]
    /\ pcLocked' = IF lock THEN pcLocked \union {pc} ELSE pcLocked \ {pc}
    /\ Touch({pc})
    /\ UNCHANGED <<provider, rowName, rowGone, links, synced, session, locked,
                   kept, imp, overlapped, feeds, aborts>>

DeleteChannel(pc) ==
    /\ Editable(pc)
    /\ EditBegins
    /\ pcName' = [pcName EXCEPT ![pc] = Absent]
    /\ pcLocked' = pcLocked \ {pc}
    /\ Touch({pc})
    /\ UNCHANGED <<provider, rowName, rowGone, links, synced, session, locked,
                   kept, imp, overlapped, feeds, aborts>>

AddLink(l) ==
    /\ l \notin links
    /\ ~(imp.link /\ l = <<imp.target, imp.cat>>)
    /\ EditBegins
    /\ links' = links \union {l}
    /\ UNCHANGED <<provider, rowName, rowGone, pcName, pcLocked, synced, runs,
                   imp, overlapped, feeds, aborts>>

RemoveLink(l) ==
    /\ l \in links
    /\ EditBegins
    /\ links' = links \ {l}
    /\ kept' = [s \in Syncs |-> kept[s] \ {l}]
    /\ UNCHANGED <<provider, rowName, rowGone, pcName, pcLocked, synced, session,
                   locked, touched, imp, overlapped, feeds, aborts>>

-----------------------------------------------------------------------------
RunStep(s) ==
    \/ ReadChannels(s)
    \/ WriteChannels(s)
    \/ AutoImport(s)
    \/ RenameFails(s)
    \/ ClearStale(s)
    \/ Commit(s)

Admin ==
    \/ \E p \in PCats, c \in Cats, link \in BOOLEAN : ImportRead(p, c, link)
    \/ ImportCommit
    \/ \E pc \in PCs, n \in Names, lock \in BOOLEAN : PatchChannel(pc, n, lock)
    \/ \E pc \in PCs : DeleteChannel(pc)
    \/ \E l \in Links : AddLink(l) \/ RemoveLink(l)

Next ==
    \/ ProviderChanges
    \/ \E r \in Rows : GraceEnds(r)
    \/ \E s \in Syncs : Start(s) \/ RunStep(s) \/ FetchFails(s) \/ Abort(s)
    \/ Admin

Spec == Init /\ [][Next]_vars

(***************************************************************************)
(* The event loop drives every run it started, and a schedule starts one   *)
(* again and again.                                                        *)
(***************************************************************************)
Fairness ==
    /\ \A s \in Syncs : WF_vars(RunStep(s))
    /\ WF_vars(\E s \in Syncs : Start(s))
    /\ WF_vars(ImportCommit)

FairSpec == Spec /\ Fairness

-----------------------------------------------------------------------------
TypeOK ==
    /\ provider \in Feed
    /\ rowName \in [Rows -> MaybeName]
    /\ rowGone \in [Rows -> Gone]
    /\ pcName \in [PCs -> MaybeName]
    /\ pcLocked \in SUBSET PCs
    /\ links \in SUBSET Links
    /\ synced \in [Keys -> SUBSET Names]
    /\ step \in [Syncs -> Steps]
    /\ feed \in [Syncs -> Feed \union {NoFeed}]
    /\ sawName \in [Syncs -> [Rows -> MaybeName]]
    /\ sawGone \in [Syncs -> [Rows -> Gone]]
    /\ pick \in [Syncs -> [Keys -> Rows \union {NoRow}]]
    /\ rename \in [Syncs -> [PCs -> MaybeName]]
    /\ import \in [Syncs -> SUBSET PCs]
    /\ clear \in [Syncs -> SUBSET PCs]
    /\ locked \in [Syncs -> SUBSET PCs]
    /\ touched \in [Syncs -> SUBSET PCs]
    /\ kept \in [Syncs -> SUBSET Links]
    /\ imp \in Import
    /\ overlapped \in BOOLEAN
    /\ feeds \in Nat /\ edits \in Nat /\ aborts \in Nat

\* As long as no two runs overlapped, a provider channel has one row: the
\* upsert never inserts a channel it already has.
OneRowPerChannel ==
    overlapped \/ \A q, r \in Rows :
        rowName[q] # Absent /\ rowName[r] # Absent /\ KeyOf(q) = KeyOf(r) => q = r

\* A run that overlapped no other leaves as live exactly the channels its feed
\* listed, under the feed's names.
CommitMatchesFeed ==
    [][ \A s \in Syncs : Commit(s) /\ feed[s] # NoFeed /\ ~overlapped =>
          \A k \in Keys :
            IF k \in Listed(feed[s])
            THEN \E r \in Rows : KeyOf(r) = k /\ rowGone'[r] = "no"
                                 /\ rowName'[r] = feed[s].name[k]
            ELSE \A r \in Rows : KeyOf(r) = k /\ rowName'[r] # Absent
                                 => rowGone'[r] # "no" ]_vars

\* "Ignore Name Changes": a run never writes the name of a playlist channel
\* that was locked when the run looked at it, whatever happened to it since.
LockedWhenReadIsKept ==
    [][ \A s \in Syncs : Commit(s) =>
          \A pc \in locked[s] \ clear[s] : pcName'[pc] = pcName[pc] ]_vars

\* After a run that overlapped no other, every playlist channel of the feed's
\* categories has the name its source channel has then, also when the name
\* changed in an earlier run or was missed by one - unless it was locked when the
\* run looked, or the administrator has written to it since.
RenamesReachPlaylists ==
    [][ \A s \in Syncs : Commit(s) /\ feed[s] # NoFeed /\ ~overlapped =>
          \A pc \in PCs \ (locked[s] \union touched[s]) :
             pcName'[pc] # Absent /\ CatOfRow(RowOf(pc)) \in feed[s].cats
               => pcName'[pc] = rowName'[RowOf(pc)] ]_vars

\* New Channel Manager: a channel that a run adds is put into every playlist
\* category whose link existed from the start of the run to its commit.
LinksGetNewChannels ==
    [][ \A s \in Syncs : Commit(s) =>
          \A r \in NewRows(s), p \in PCats :
             <<p, CatOfRow(r)>> \in kept[s] => pcName'[<<r, p>>] # Absent ]_vars

\* Unless runs overlap, a run takes a channel out of a playlist only when the
\* provider dropped it and its grace period is over.
ClearsOnlyTheGone ==
    [][ \A s \in Syncs : Commit(s) /\ ~overlapped =>
          \A pc \in PCs : pcName[pc] # Absent /\ pcName'[pc] = Absent
                            => rowGone'[RowOf(pc)] = "old" ]_vars

\* The database says what the provider says.
InSync ==
    /\ \A k \in Keys : IF k \in Listed(provider)
         THEN \E r \in Rows : KeyOf(r) = k /\ rowGone[r] = "no"
                              /\ rowName[r] = provider.name[k]
         ELSE \A r \in Rows : KeyOf(r) = k /\ rowName[r] # Absent => rowGone[r] # "no"
    /\ \A pc \in PCs :
         /\ pcName[pc] # Absent
         /\ pc \notin pcLocked
         /\ CatOfRow(RowOf(pc)) \in provider.cats
         => pcName[pc] = rowName[RowOf(pc)]

\* What says what the provider says goes on doing so, whichever run commits or
\* fails and whatever grace period ends, until the provider or the administrator
\* changes something, or a run commits what the provider said before it changed.
StaysInSync ==
    [][ InSync /\ ~overlapped' =>
          \/ InSync'
          \/ provider' # provider
          \/ Admin
          \/ \E s \in Syncs : Commit(s) /\ feed[s] \notin {NoFeed, provider} ]_vars

\* Once the provider and the administrator pause, scheduled runs that never
\* overlap bring sources and unlocked playlist channels in line with the
\* provider, and keep them there.
Converges == ([]~overlapped) => <>[]InSync

\* The names of each channel among the live rows: more than one if a row is double.
LiveNames == [k \in Keys |-> {rowName[r] : r \in {q \in Rows : KeyOf(q) = k /\ Live(q)}}]

Answered == {s \in Syncs : feed[s] # NoFeed}

\* As long as runs do not overlap, the source's channels are a copy of what the
\* provider listed, replaced as a whole by the answer a run got and marked as synced
\* with it: readers never see a mixture of two answers, nothing but a run changes
\* the copy, and a run that fails leaves it as it was.
Mirror == INSTANCE SourceMirror WITH
    listed <- Listing(provider),
    taken  <- {Listing(feed[s]) : s \in Answered},
    shown  <- LiveNames,
    synced <- synced,
    apart  <- overlapped

MirrorsProvider == Mirror!Spec

\* models/playlist.py: "when True, sync will not overwrite name".
SyncKeepsLockedNames ==
    [][ \A s \in Syncs : Commit(s) =>
          \A pc \in pcLocked \ clear[s] : pcName'[pc] = pcName[pc] ]_vars

\* models/playlist.py: "source categories whose newly-added channels
\* auto-import here": a channel that appears while the link exists is there.
LinkedChannelsAppear ==
    [][ \A s \in Syncs : Commit(s) =>
          \A r \in NewRows(s), p \in PCats :
             <<p, CatOfRow(r)>> \in links => pcName'[<<r, p>>] # Absent ]_vars
=============================================================================
