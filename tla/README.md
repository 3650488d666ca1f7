# DPTV-Server: TLA+ specifications and proofs

DPTV-Server lets an administrator build IPTV playlists from one or more
providers and serves them to players through an Xtream-codes compatible API.
This directory models the parts of it where several actors change the same
data: TLC checks the models on small instances, and TLAPS proves what matters
most for instances of any size.

Paths below are relative to `src/backend/app` unless they start with `src/`.

Contents: [1 the system](#1-the-system) · [2 modules](#2-modules) ·
[3 ProfileStore](#3-profilestore) · [4 SourceSync](#4-sourcesync) ·
[5 PlaylistOrder](#5-playlistorder) · [6 SyncRevision](#6-syncrevision) ·
[7 Scheduler and SyncRuns](#7-scheduler-and-syncruns) ·
[8 DummyEpg and Guide](#8-dummyepg-and-guide) ·
[9 ChannelScan](#9-channelscan) · [10 runs](#10-runs) · [11 bounds](#11-bounds) ·
[12 fairness](#12-fairness) · [13 proofs](#13-proofs) ·
[14 disagreements](#14-where-code-and-documentation-disagree) ·
[15 not modelled](#15-not-modelled) · [16 plan](#16-plan) ·
[17 running](#17-running-the-checks)

## 1 The system

One process: FastAPI, async SQLAlchemy 2 and APScheduler on one asyncio event
loop, over PostgreSQL at READ COMMITTED. There are no threads that share data
and hardly any locks. Two things make its behaviour hard:

- **Every request and every job is a coroutine with a database transaction of
  its own.** A coroutine is suspended at each `await`, which is every statement
  and every call to a provider (minutes, for a large source). A statement sees
  what other transactions have committed *then*; an `UPDATE` or `DELETE` waits
  for a transaction that has written the same row; an ORM object keeps the
  values it was loaded with and writes only columns that differ from them.
- **State outlives the actors that use it.** Players keep revisions and ETags,
  schedules fire while their last run goes on, and administrators edit rows
  that a sync has read and not yet written.

### Inventory

| component | where | state it keeps | operations | talks to | what is hard | correct when |
|---|---|---|---|---|---|---|
| Shared player profile | `services/profile_store.py`, `api/routes/xc_server.py` 227-236, 316-335, `models/xc_user.py` 58-75 | one `xc_user_profiles` row per login: revision, data | read, compare-and-set write, clear | players (fetch, merge, write, 409) | writes of several TVs interleave; clear restarts revisions; timeouts and retries | nothing accepted is lost, TVs at one revision agree, everything is shared in the end |
| Source sync | `services/sync_engine.py` 22-225, 302-323 | `source_categories`, `source_channels`, the playlist channels and links built on them | upsert of channels, removal marks, rename propagation, auto-import, auto-clear | provider clients, playlist editing | one long transaction, several may overlap, edits commit in between | rows match the feed, locked names stay, linked categories get new channels, only channels gone for long are cleared |
| Sync runs | `services/sync_engine.py` 327-401, `services/sync_notify.py` | `sync_runs`, `last_status` of each source | `run_full_sync`, `sync_all_*`, notification | source sync, EPG refresh, players | one failing source among several in one session; crash | a bad provider does not stop the rest; no notification without a commit |
| Scheduler | `core/scheduler.py`, `api/routes/scheduler.py` | APScheduler jobs, `sync_schedules` | create, change, delete, reload, run, trigger | sync runs | two reloads overlap; patches of one schedule overlap | an enabled schedule has a job, and the jobs are those of the table |
| EPG refresh and jobs | `services/sync_engine.py` 228-299, `services/epg_refresh_jobs.py`, `api/routes/epg_sources.py` | `epg_channels`, `epg_programs`, in-memory job table | full replace of programmes; start, progress, poll, evict | guide download | two refreshes of one source; a table that evicts running jobs; a task that dies | each programme once; every job ends |
| Sync-status revisions | `services/sync_status.py`, `api/routes/xc_server.py` 157-176 | table of observed revisions | compute a revision, `Last-Modified`, 304 | every writer of the database, players | `updated_at` is the start of a transaction; the table is cleared when full | a 304 is only given for content that is still current |
| Xtream-codes server | `api/routes/xc_server.py`, `services/m3u_writer.py` | none | authenticate, list, M3U, XMLTV, redirect | players | none of its own: it reads | output is what the database says |
| Channel scans | `services/scan_jobs.py`, `stream_prober.py`, `duplicate_scanner.py` | in-memory job table, probe results on channels | start, probe a few at a time, poll, deduplicate, tag | playlist editing, providers | scans overlap; channels are deleted and edited while they are probed; a table that evicts running jobs | every scan ends, a row holds one probe's result, what is deleted has a better copy |
| Playlist editing | `api/routes/playlists.py` | playlists, categories, channels, links, rules, `sort_order` | import, patch, delete, link, reorder, move, copy, bulk, merge, duplicate | source sync | tied and recycled `sort_order`; long sequences of edits | an order is total and edits move only what they name |
| Dummy EPG, guide output | `services/dummy_epg.py`, `epg_writer.py`, `api/routes/playlists.py` 804-1047 | custom rules, pins, modes | parse events, tile fillers, choose mode, rule and length | XC server, playlist editing | boundaries of time; rules pinned across playlists; deletions that leave `updated_at` alone | tiles cover the window without overlap, an announced event keeps its time, the revision tells of every change |
| Provider clients, parsers | `services/xtream_client.py`, `m3u_parser.py`, `epg_parser.py`, `name_normalize.py`, `epg_mapper.py` | none | parse, match names | source sync, EPG refresh | string detail | – |
| Logo caches and indexes | `services/iptv_org_epg.py`, `iptvboss_logos.py`, `channel_logo.py`, `api/routes/logo_cache.py` | memory and disk caches | refresh, look up | output | best effort | – |
| Administration | `core/security.py`, `api/deps.py`, `api/routes/auth.py`, `settings.py`, `xc_users.py`, `logs.py`, `services/env_file.py`, `version.py`, `xc_log.py`, `guide_refresh_log.py` | settings, users, ring logs | CRUD | frontend | sequential | – |
| Schema and migrations | `src/backend/alembic`, `db.py`, `models/` | – | run before start | – | – | – |
| Web frontend | `src/frontend` | – | client of the admin API | – | – | – |
| Deployment | `src/docker-compose.yml`, `src/deploy` | – | – | – | – | – |

The hazards, each at its line with the properties that cover it, are listed in
`PROJECT.json`, and so is how far each component is modelled.

## 2 Modules

| module | what it is |
|---|---|
| `ProfileRegister` | the abstract specification of the shared profile: a register with a revision |
| `ProfileStore` | the store, its requests and the TVs; implements `ProfileRegister` |
| `ProfileStore_proofs` | theorems about `ProfileStore` |
| `MCProfileStore` | the instance TLC checks: two TVs, three items |
| `SourceMirror` | the abstract specification of a synchronised source: a copy of an answer of the provider |
| `SourceSync` | sync runs of one source, the provider, and an administrator editing playlists; implements `SourceMirror` until runs overlap |
| `SourceSync_proofs` | theorems about `SourceSync` |
| `MCSourceSync` | the instances TLC checks |
| `PlaylistOrder` | `sort_order` of channels and categories under the requests of the playlist editor, the auto-import of a sync, and a browser that drags rows |
| `PlaylistOrder_proofs` | theorems about `PlaylistOrder` |
| `SyncRevision` | revisions, ETags, dates and 304s of the list actions, over transactions that commit out of order |
| `SyncRevision_proofs` | theorems about `SyncRevision` |
| `Scheduler` | the schedule table, the requests that change it and reload the jobs |
| `SyncRuns` | runs over all sources and guides, the refresh jobs, the notification; extends `Scheduler`, whose jobs start runs |
| `SyncRuns_proofs` | theorems about `Scheduler` and `SyncRuns` |
| `DummyEpg` | operators: reading a time in a name, tiling a window with made-up programmes |
| `Guide` | what the guide shows of each channel as everything it depends on is edited, and its revision; extends `DummyEpg` |
| `Guide_proofs` | theorems about `Guide` and `DummyEpg` |
| `ChannelScan` | scanning channels, and deleting duplicates by the result |
| `ChannelScan_proofs` | theorems about `ChannelScan` |
| `SetSums_proofs` | lemmas on extremes and sums of finite sets, for the four modules that need them |
| `MCPlaylistOrder`, `MCSyncRevision`, `MCSyncRuns`, `MCGuide`, `MCChannelScan` | the instances TLC checks |

Where modules touch the same code, each keeps what its properties tell apart:
a sync of one source is spelled out in `SourceSync`, is one write in `SyncRuns`
and an insert with a position in `PlaylistOrder`; a refresh of a guide is a
batch of programmes in `SyncRuns` and the programmes themselves in `Guide`.

Operators commented "Mutant" are not part of a specification. Each is a
plausible wrong version of the operator of the same purpose, and `PROJECT.json`
pairs it with a property that then fails; this keeps the properties honest.

## 3 ProfileStore

Each XC login has one profile (watch history, favourites) that all its TVs
share. A TV fetches it (`dptv_profile`), merges it with its own, and writes the
result with the revision it merged from (`dptv_profile_put`); the server stores
it only if that is still the revision, and answers 409 otherwise.

| model | code |
|---|---|
| `profile` | the committed `xc_user_profiles` row: `id`, `revision`, `data`. A missing row is `NoRow`, which reads as revision 0 (`_read`) |
| `lastId` | the sequence behind `id` |
| `writer` | the transaction whose uncommitted INSERT or UPDATE holds the row |
| `req[c]` | one POST being served: its arguments and how far `write()` is |
| `tv[t]` | what a player knows (`local`), the revision it merged from (`base`), what it saw then (`seen`), and the request it waits for |
| `clearing` | rows that `clear()` has SELECTed and not yet deleted |
| `row`, `durable` | history: which row a revision belonged to; what accepted writes stored since the last clear |
| `InsertRow`, `UpdateRow` | the INSERT (base 0; the unique key decides) and the `UPDATE ... WHERE revision = base`, each either holding the row or refused |
| `Commit`, `Refuse`, `Reread` | `db.commit()`; rollback, then the SELECT whose revision the 409 carries |
| `ClearRead`, `ClearDelete` | the two statements of `clear()` |
| `Fetch`, `Put`, `Receive`, `GiveUp`, `Drop` | the player and its connection: it may stop waiting while the server goes on |
| `Abort` | a transaction that ends without a commit (crash, lost connection, cancelled request) |

The player is DPTV-Player, not part of the repository; its protocol is the one
`src/README.md` 238-251 gives, and its actions are marked external in
`PROJECT.json`. Items only ever get added to a profile: a merge is a union. The
JSON text, the 413 for a profile that is too large and authentication are left
out; none of them changes the row.

Properties:

- `NothingLostBeforeClear`: what an accepted write stored is still there, until
  the first clear.
- `TVsAgreeOnRevision`: a TV that believes it is at the current revision of
  the current row knows exactly what the row holds.
- `LossOnlyAcrossClear`: after clears too, a step loses data only when it is a
  clear or commits a write whose base belonged to a row cleared since.
- `ImplementsRegister`: with its statements interleaved, the store is an atomic
  register with revisions 1, 2, 3, ...
- `EventuallyShared`: whatever a TV records reaches the profile, through
  refusals, time-outs, aborts and clears. The exception, `TakesForKnown`: after a
  clear the next row reaches the revision the TV knew of the cleared one before
  the TV looks. To the TV nothing has changed then, it neither fetches nor
  writes, and what it shared before the clear stays out until it records
  something else.

## 4 SourceSync

`sync_source` fetches what the provider lists and then, in **one transaction**,
upserts categories and channels, marks what is missing as removed, copies new
names to playlist channels that are not locked, and inserts new channels into
playlist categories linked to their source category; `apply_auto_clear` deletes
playlist channels whose source channel has been gone for too long. The
scheduler, "Sync now" and the sync button of a source each open a session, and
nothing keeps them apart.

| model | code |
|---|---|
| `provider` | what the provider would answer now: categories, and channels with a name |
| `rowName`, `rowGone` | `source_channels`: `name` (`Absent` where there is no row) and `removed_at` (not set, within the grace period, older). A row is named by its channel and the session that inserted it, so two sessions can insert one channel twice, as the missing unique constraint lets them |
| `pcName`, `pcLocked` | `playlist_channels`: `name`, `name_locked` |
| `links` | `playlist_category_source_links` |
| `step`, `feed` | where a session's coroutine is, and what it fetched |
| `sawName`, `sawGone`, `pick` | the ORM objects as they were loaded, and `existing_by_key` |
| `rename`, `import`, `clear` | what the session has decided to write to playlists and nobody else can see yet |
| `synced` | history: the listing that `last_sync_at` is about |
| `locked`, `touched`, `kept` | history: locks when the session looked, playlist channels the administrator wrote since, links present since it started |
| `imp` | an import request between its SELECTs and its COMMIT |
| `overlapped` | history: two runs were ever active together |

| action | `sync_engine.py` | |
|---|---|---|
| `Start` | 22-76 | the session opens, the provider answers |
| `FetchFails` | 327-340 | it does not: `sync_all_sources` notes the error, the run goes on to auto-clear |
| `ReadChannels` | 79-84 | SELECT; of rows with one key, the dictionary keeps any |
| `WriteChannels` | 90-165 | the upsert and removal marks reach the database, then the SELECT of unlocked playlist channels |
| `AutoImport` / `RenameFails` | 167-225 | names are flushed, then SELECT of links and insertion / an UPDATE finds its row gone (`StaleDataError`) |
| `ClearStale` | 302-323 | |
| `Commit` | `core/scheduler.py` 51-53 | everything appears at once; only columns that differ from what was loaded are written |
| `Abort` | `core/scheduler.py` 58-60 | nothing appears |
| `ImportRead`, `ImportCommit`, `PatchChannel`, `DeleteChannel`, `AddLink`, `RemoveLink` | `api/routes/playlists.py` 557-802, 1050-1080 | the administrator |

A session's writes are visible to itself (`SeenName`) and make others wait
(`Holds`, `HoldsPC`).

What is abstracted: one source; a source category is only its presence in the
feed (its row, name, `enabled` and `removed_at` are left out); `tvg_id`, logo,
stream URL and EPG match are left out, being copied like the name but with no
lock; `sort_order` is left to `PlaylistOrder`; a feed that lists a channel
twice, `auto_clear_removed_days = 0` and imports other than "merge" with
duplicates skipped are left out; there is one import request at a time. The
order of row locks is abstracted: the code takes them row by row, of changed rows
by id, in the bookkeeping UPDATE in the order of the feed, then of removed rows,
of playlist channels to rename and to clear; the model takes those of a statement
together, with the last (`FreeRows`, `FreePCs`). Others can then do what they can
in the code, and more, which is sound for what is checked here: properties of
what commits leave. It says nothing of who waits for whom: runs that overlap
*can* wait in a circle, in any of these statements, and PostgreSQL ends that by
aborting one of them, which is `Abort` here.

`SourceMirror` is what a reader of `source_channels` may rely on: `shown` is a
copy of one answer and `synced` says of which; a run takes an answer (`Take`)
and replaces the copy by it as a whole (`Publish`), or gives up and leaves all
as it was. The refinement maps `shown` to the names of the live rows
(`LiveNames`), `taken` to the answers sessions hold, and `apart`, from which on
nothing is promised, to `overlapped`.

Properties:

- `CommitMatchesFeed` (proved, and part of what `MirrorsProvider` has TLC check):
  a run that overlapped no other leaves live exactly the
  channels of its feed, with the feed's names, though it compares with values
  it loaded long before.
- `OneRowPerChannel`: a channel that goes and comes back, alone or with its
  category, never gets a second row, as long as runs do not overlap. Overlap
  does break it (see 14).
- `LockedWhenReadIsKept`: for any overlap, a run never changes a name that was
  locked when it looked, even if it was unlocked or edited since.
- `LinksGetNewChannels`: for any overlap, a new channel is in every playlist
  category whose link lasted from the start of the run to its commit.
- `ClearsOnlyTheGone`: a channel disappears from a playlist only when the
  provider dropped it and the grace period is over.
- `MirrorsProvider`: `SourceSync` implements `SourceMirror`: no step but the commit
  of a run with an answer changes what readers see, a failed fetch or a crash
  included, and a commit leaves no mixture of two answers.
- `RenamesReachPlaylists`: after a run that overlapped no other, the playlist
  channels of its categories have their source channel's name, also when the
  name changed long before, unless they were locked when the run looked or the
  administrator has written to them since.
- `StaysInSync` (proved, see 13): only a change by the provider or the administrator, or the commit
  of an answer older than such a change, takes what is in line out of line. A
  grace period that ends, a failure, or a run that repeats the same answer do not.
- `Converges`: once provider and administrator pause, repeated runs bring rows
  and unlocked playlist names in line with the provider, for good. A rename
  lost to a crash, or made while the administrator had the name locked, is made
  up for.

## 5 PlaylistOrder

The editor shows rows of a playlist by `sort_order` and then id, players get
them by `sort_order` alone, and nothing keeps `sort_order` distinct. Each request
computes positions from what it read.

| model | code |
|---|---|
| `cat`, `order` | `playlist_channels`: `playlist_category_id`, `sort_order` |
| `cats`, `place`, `Label` | `playlist_categories`: which there are, their `sort_order`, their name and type, not unique; `Foreign` are another playlist's |
| `req` | a request between its SELECTs and its COMMIT: what it read (`sawCat`, `sawOrder`, ...) and what it will write |
| `page` | the rows a browser has loaded, some pages of a category |
| `Init` | `import_m3u_playlist`, `api/routes/playlists.py` 182-269 |
| `InsertBegin`, `InsertCommit` | `import_channels` ("merge", "per_category") and the auto-import of a sync, 597-802 |
| `Known`, `NextPlace` | `existing_by_name_type`, which keeps one category of each name and type, any of them, and the maximum over those, 696-700 |
| `AddManualChannel`, `CopyChannels`, `CreateCategory` | rows left at `sort_order` 0, 961-984, 1008-1035, 434-441 |
| `MoveChannels`, `DeleteChannels`, `DeleteCategory` | 989-1005, 1073-1080, 459-466 |
| `MergeBegin`, `MergeCommit` | `merge_categories`, 484-505: SELECT the channels, then UPDATE them and DELETE the categories |
| `SortBegin`, `SortCommit` | "sort_az", 1083-1138: the selected channels take the places they hold, by name |
| `OpenCategory`, `NextPage`, `Drag`, `DragCategories` | the editor's table (`src/frontend/.../PlaylistEditorPage.tsx` 149-162, 1008-1015) and the reorder requests it sends, 469-481, 877-894 |

Abstracted: a name is its sort key; what a copy copies; requests that write
fixed values are one step. A second category of a name comes from
`create_category`; renames, which could bring one too, and two requests
creating categories of one name at once are left out.

- `NewChannelsComeLast`: what is inserted has a higher number than what was
  counted. `(max or -1) + 1` gives 0 again where every number is 0: such a tie
  the editor breaks by id, for players the database may show it either way.
- `NewCategoriesComeLast`: categories that an import makes are in the provider's
  order and behind those it counted. Of two categories of one name it counts
  only one, so that a new one may come before the other.
- `DragMovesOnlyLoaded`: in a category without ties, renumbering the loaded
  rows shows them as dropped and leaves the rest where it was, whatever page
  was loaded (the comment at `playlists.py` 881-885). With ties it is not so:
  section 14.
- `SortStaysInPlace`: in a category without ties, a sort leaves every other row
  in its place, unless the sorted rows changed places while it ran.
- `MergeKeepsWhatItSaw`: a merge loses no channel it saw.

## 6 SyncRevision

A list is sent with an ETag (aggregates of the rows behind it) and a
`Last-Modified` (when the server first saw that ETag), and a player polls with
one of them. The aggregates, and then the list, are read in separate
statements, and a row's `updated_at` is the *start* of the transaction that
wrote it.

| model | code |
|---|---|
| `tab` | the playlist channels a user sees and the provider rows behind them: content, `updated_at`, whether a source channel is set |
| `txn` | when each open transaction began; `Commit...` are the kinds of change the server makes |
| `Part`, `ReadChannelsPart`, `Validate` | `compute_sync_status`, `services/sync_status.py` 94-230, one SELECT each |
| `observed`, `others`, `LastModified`, `OtherUser` | `_observed`, `last_modified_for`, 265-288, emptied at `_MAX_OBSERVED` |
| `Matches`, `NotModified` | `_is_not_modified`, the 304, `api/routes/xc_server.py` 157-187 |
| `ReadChannels`, `Answer` | the list itself, read after its validators |
| `urlSet`, `urlLoaded` | `public_base_url` as settings now say and as `m3u_writer` loaded it |
| `copy`, `Poll` | what a player keeps and asks with |
| `Tick`, `Restart` | the clock in fractions of a second; a restart in a later second |

`late`, `undated`, `at` and `next` are history: they name the exceptions below.

- `TagMatchIsExact`: a 304 for an ETag means that what it was computed from is
  what is there, unless an edit older than the newest one committed late.
- `DateMatchIsSafe`: the same for a date, over several changes in one second and
  restarts, unless the table was emptied or the process restarted before the
  date had come.
- `EventuallyCurrent`: a player that keeps polling ends up with the list as it
  is, with the same exceptions and one more: all that is wrong with its list are
  rows that were added between its ETag and the list and deleted since.
- `EventuallyAtBaseUrl`: once the URL that is set is the one loaded, such a
  player ends up with a list that carries it, whatever URLs were set, set back
  and loaded before, unless it has lost its date or got its list after the URL was
  set and before the restart that loads it.

## 7 Scheduler and SyncRuns

`Scheduler` is the table of schedules and the jobs made of it; `SyncRuns`
extends it with what the jobs, the buttons and the EPG refresh jobs start.

| model | code |
|---|---|
| `schedules`, `jobs` | `sync_schedules`; APScheduler's job of each |
| `requests` | a request of `api/routes/scheduler.py`: PATCH between its read and its commit, and any request in `reload_schedules` (`core/scheduler.py` 63-78): remove all jobs, SELECT, add |
| `CreateSchedule`, `ReadSchedule`/`UpdateSchedule`, `DeleteSchedule` | 49-96; a PATCH sets any fields |
| `RemoveJobs`, `SelectEnabled`, `AddJobs` | the reload; other requests run at its `await` |
| `RequestFails`, `DatabaseFailsRequest` | the row has gone; the database fails the commit, the refresh of the row or the SELECT |
| `run[r]` | a session: where it is, what it has loaded, fetched and written and has not committed |
| `db` | sources and guides: `last_sync_status`, the batches of programmes in the table |
| `table`, `job` | `_jobs` of `services/epg_refresh_jobs.py`, which evicts its oldest |
| `Fire`, `StartManual`, `StartJob`, `Begin` | who starts a run; what it checks first |
| `Load`, `Write`, `FetchFails` | `sync_all_sources`, `sync_all_epg_sources`, `sync_epg_source`, `services/sync_engine.py` 228-356 |
| `DatabaseFails` | an error of the database: the session is unusable and the handlers raise again |
| `Commit`, `Notify` | `run_full_sync` 392-401 and the commit after it; `services/sync_notify.py` |
| `RecordBegin`, `RecordCommit` | a failed job records its failure in a session of its own, `epg_refresh_jobs.py` 67-75 |
| `ToggleSource`, `DeleteProvider`, `Restart` | the administrator, the process |

Abstracted: what a sync writes for one source (`SourceSync`); programmes are the
id of the run that inserted them; a cron expression is a time, and when it
fires is a choice.

- `JobsFollowTable`: when no reload is under way, every enabled schedule has a
  job, and jobs are those of the table unless a change was committed in the
  middle of another reload; both unless an error cut the last reload off between
  the commit and the new jobs. A schedule runs something unless two PATCHes of
  it overlapped.
- `RunKeepsWhatItGot`: a run that gets to its end has committed an answer for
  every provider of its parts, guides included when a source failed; nobody is
  told of a run that was rolled back.
- `LastRefreshShows`: a guide's badge and programmes are those of its last
  refresh, each once, unless another run recorded something meanwhile; a refresh
  that is kept shows as failed only if the notification URL cannot be parsed.
- `JobsEnd`: a job that can be polled does not run for ever.
  `RunningJobsAreCarriedOut` (proved): such a job is the work of a run under way.

## 8 DummyEpg and Guide

`DummyEpg` has the operators of `services/dummy_epg.py`: reading a time in a
channel's name (`ParseEvent`), and the made-up programmes of a window
(`NameGuide`, `EventGuide`), which are compared with their definition of
correctness (`GuideCovers`) rather than with a second implementation. A regular
expression is a constant table of what it reads in each name. Times are in
units of five minutes. The code reckons with datetimes in the zone of a rule,
which add and compare what the clocks show (`NextOccurrence`, `BlockAt`,
`EventGuide`), and only programmes of different zones are compared as moments;
`Moment` and `OnClock` lead from one to the other, over hours that the clocks skip
(the offset before counts) or repeat (`fold`). A zone changes its clocks once
at most, and all years have one length.

`Guide` models what `services/epg_writer.py` does with them and everything that
edits what it depends on:

| model | code |
|---|---|
| `rule`, `category`, `channel` | `dummy_epg_rules`, and the guide columns of categories and channels |
| `guide`, `refreshed` | `epg_channels` with their programmes; `last_refreshed_at` |
| `Mode`, `Length`, `Pin`, `EventRules`, `Tried`, `Plan`, `DummyGuides` | `epg_writer.py` 41-190 |
| `Revision` | the "epg" revision, `sync_status.py` 94-253 |
| `kept`, `Fetch`: `CountCategories`, `CountChannels`, `CountRules`, `CountGuides` | a player's request, `get_xmltv`: the SELECTs of the revision, `sync_status.py` 130-251 |
| `LoadCategory`, `LoadChannels`, `LoadRules`, `ReadProgrammes` | then those of the guide, `xc_server.py` 44-61, `epg_writer.py` 126-139 |
| `CreateRule`, `UpdateRule`, `DeleteRule`, `ReorderRules` | `api/routes/playlists.py` 1543-1612 |
| `UpdateCategory`, `UpdateChannel`, `SetDummyMode` | 420-456, 1038-1059, 1106-1163 |
| `AssignGuide`, `AutoMapGuide`, `BulkAssignGuide`, `ClearGuides`, `ClearCategoryEpg` | 508-534, 1166-1173, 1341-1363, 1408-1440, 1507-1519 |
| `MoveChannels`, `CopyChannel`, `AddManualChannel`, `DeleteChannel` | 961-1035, 1073-1080 |
| `copying`, `CopyCategory`, `CopyChannels`, `CopyRules`, `Duplicate`, `DuplicateFails` | `duplicate_playlist`, 315-408: what is read, then all that is written |
| `Refresh` | a refresh of the EPG source: guides go, appear and change |

A request of the editor is one step, because it writes what it was sent; a
player's request and a duplication read in several, with commits in between. A
stamp stands for `updated_at`, the start of the transaction: `Commit` gives it
the number of the commit, or one that is no newer than what others have already
committed (`Overtaken`). Categories and channels may be pinned to any rule, of any
playlist. Disabled channels, layout of the XML and the preview are left out.

- `GuideCovers`: a dummy guide has something on at every moment of the window
  and never two things at once, wherever the event lies and whenever the clocks
  change, unless it is to begin at a time they skip or show again (`OddTime`).
- `AnnouncedTimeHolds`: an announced event keeps its time as the clock goes on,
  until six hours after it began or midnight in its zone, unless the clocks
  change meanwhile (`ChangesBy`): the six hours are hours on the clock.
- `CopyStandsAlone`: a duplicate shows what was read of the original, whatever is
  committed between the reads, and no edit of one playlist's rules or category
  changes what another shows, unless a channel or its category is pinned to a
  rule of the other, or of one deleted between two reads.
- `TagCoversGuide`: as long as the revision is the one a player has, the guide
  is the one it has, but for three cases of section 14: `CameAndWent`,
  `ForeignPinGone`, `late`.

## 9 ChannelScan

| model | code |
|---|---|
| `channel` | the playlist channels: name (key, country, tag), probe result |
| `scan[j]` | the task of `services/scan_jobs.py` 67-109: what it loaded, who holds the semaphore, what was measured |
| `job`, `table` | `ScanJob`, `_jobs` with its eviction |
| `StartScan`, `Load`, `Acquire`, `Probe`, `NothingToProbe`, `Write`, `Finish`, `ScanFails` | the scan, statement by statement; `stream_prober.py` |
| `GroupOf`, `Groups`, `Members`, `Rank`, `Winner`, `Best` | `duplicate_scanner.py`; the first of the best, as a stable sort leaves it |
| `Poll`, `Keep`, `Proposed` | the browser and the choice it proposes (`PlaylistEditorPage.tsx` 2269-2296) |
| `ApplyDedupe`, `TagResolution`, `DeleteChannels` | `api/routes/playlists.py` 1073-1080, 1238-1298 |

Abstracted: frame rate and bitrate, measured and ranked as the height is; a name
is what `normalize_channel_name` tells apart.

- `RowIsOneProbe`: what a scan leaves on a channel is what its one probe of it
  found, unless another scan wrote the row since it was loaded.
- `DeletedForABetterCopy`: whatever the proposal deletes has a copy of the same
  channel and country that played, is no worse, and is spared by that request.
- `ScanEnds`: a scan that can be polled ends, however many streams are dead.
  `ScansGoOn` (proved): such a scan always has a step to take that waits for
  nothing else.

## 10 Runs

| run | configuration | what it shows |
|---|---|---|
| `profile_store` | `MCProfileStore.cfg`: 2 TVs, 3 items, 2 requests, 1 clear, 1 fault, fair | all properties of 3 (190 135 states) |
| `profile_clear_loss` | `ProfileClearLoss.cfg` | `NothingLost` fails after a clear: finding 1 |
| `source_sync` | `MCSourceSync.cfg`: 2 sessions, 1 channel, 2 names, 1 change, 1 edit | the safety properties of 4 under every overlap (424 985 states) |
| `sync_converges` | `MCSyncConverges.cfg`: 1 session, 2 channels in one category, every category linked, 1 change, 1 edit, 1 crash, fair | the refinement of `SourceMirror`, and `Converges` (281 272 states) |
| `sync_lock_race` | `SyncLockRace.cfg` | `SyncKeepsLockedNames` fails: finding 2 |
| `sync_link_race` | `SyncLinkRace.cfg` | `LinkedChannelsAppear` fails: finding 3 |
| `playlist_order` | `MCPlaylistOrder.cfg`: 3 channels imported and up to 2 more, 2 names of categories, one of which two can have, and a foreign one, 2 requests, pages of 2, 2 edits; symmetric requests and categories of one name; the import begins with the other name or the foreign category | all properties of 5 (85 572 states) |
| `sync_revision` | `MCSyncRevision.cfg`: 1 player, 2 transactions, 3 rows, 2 ticks a second, a table of 1, 2 URLs either of which may be set and not yet loaded, 2 edits, fair | all properties of 6 (1 042 251 states) |
| `sync_runs` | `MCSyncRuns.cfg`: 1 schedule or none yet, 2 requests, 1 source, 1 guide, 2 runs, a table of 1 job, 2 events, fair | all properties of 7 (704 305 states) |
| `bad_provider` | `BadProvider.cfg` | `OneBadProviderStopsNoOther` fails: finding 4 |
| `guide` | `MCGuide.cfg`: 2 playlists, 3 names, 2 patterns, of a zone on UTC and of one whose clocks are put forward, 1 guide, up to 3 rules and 2 channels, 2 commits after the first, one of which may be overtaken, 2 instants around midnight and the change | all properties of 8 (398 408 states) |
| `scan` | `MCChannelScan.cfg`: 3 channels, 2 scans of two of them, 1 slot, a table of 1 job, 1 edit, fair | all properties of 9 (666 172 states) |

Every run sets `CHECK_DEADLOCK FALSE`, because every system modelled may stop:
when TVs have recorded everything there is, when the bounds of edits and faults
are used up, or when no run is due. That nothing waits for ever is checked by
`EventuallyShared`, `Converges`, `EventuallyCurrent`, `EventuallyAtBaseUrl`,
`JobsEnd` and `ScanEnds` instead.

## 11 Bounds

- `MaxClears`, `MaxFaults` (ProfileStore): how many clears take effect, how
  many requests are abandoned or aborted. One clear is enough for a revision to
  be used twice; one fault for a write that is committed and retried, or held
  and dropped. Three items let one TV write twice and the other once, which a
  lost update over an equal revision needs.
- `MaxFeeds`, `MaxEdits`, `MaxAborts` (SourceSync): changes by the provider,
  requests by the administrator, failures. The initial states already contain
  channels that have gone, so that one change makes one return, go, or be
  renamed; the races of an edit with a run need one edit; the races of runs
  need two sessions. Runs themselves are not bounded: a session may run again
  and again.
- Sizes in SourceSync: one category, one playlist category, two names. `CatOf`
  maps several channels to one category in `sync_converges`, whose single session
  runs again and again: there no two runs overlap.
- `MaxEdits`, `MaxId` (PlaylistOrder): what is begun, and rows ever inserted.
  Two requests overlapping, or one between a page being loaded and a drag of
  it, are two; three rows and pages of two give a head and a tail of a category.
- `MaxEdits`, `MaxNow`, `MaxRow` (SyncRevision): commits, changes of the URL and
  restarts; time; rows ever inserted. Two transactions that commit in the
  reverse of the order they began in are two edits; two ticks a second let two
  changes share a date. `MaxObserved` of 1 makes any other user empty the table.
  `MaxUrl`: two URLs; that one may already be set and not loaded leaves both edits
  for setting it back and restarting.
- `MaxEvents` (Scheduler, SyncRuns): schedule edits, starts, deletions,
  toggles and restarts together. Two overlapping reloads, two overlapping runs,
  or a run and whatever upsets it, are two events. `MaxJobs` of 1 makes the
  second job evict the first while it runs.
- `MaxEdits`, `MaxRule`, `MaxChannel` (Guide): commits, the first of which
  wrote the initial rows; rows ever inserted. Two edits are enough for an
  exchange that leaves a count or a sum as it was, for a row that comes and goes
  between two statements, and for a duplicate that is then edited. `Overtaken`:
  the second commit may have begun before the first. The clocks of one zone
  are put forward between the two instants, at an hour a name is read as.
  `ForeignPinGone` takes three commits (another playlist, its pin, the
  deletion), `ChangesBy` an event announced before the change for after it:
  these two cases the run does not reach, the theorems do.
- `OneAtATime` (MCGuide): a player's request and a duplication are not under way
  together. Neither reads what the other writes: the duplicate's rows are of a
  playlist nobody can ask for before it is there, and a request writes nothing.
- `MaxScans`, `MaxEdits` (ChannelScan): two scans overlap and one channel is
  deleted or one proposal applied meanwhile.

The theorems of section 13 have none of these bounds: they hold for every
value of the constants.

## 12 Fairness

- `ProfileStore`: weak fairness of each server request (the event loop drives
  every coroutine it started, and PostgreSQL wakes one that waits for a row),
  of `Drop`, of `ClearDelete`, and of each player's `Put`, `Receive` and
  `SeesNewRevision /\ Fetch`: it fetches when `profile.rev` differs from the
  revision it knows or it was refused, as `src/README.md` 250 has it, and writes
  what it has to share. There is none for a `Fetch` without such a reason, nor
  for `Change`, `GiveUp`, `Abort` or `ClearRead`.
- `SourceSync`: weak fairness of each session's next step, of starting some
  session (a schedule keeps firing), and of the import's commit. There is none
  for the provider, the grace period, the administrator or failures.
  `Converges` assumes that runs do not overlap: overlapping runs may insert a
  channel twice, and the duplicate row is then never reliably updated.
- `SyncRevision`: weak fairness of serving each player's request, and of its
  polling: players ask every few minutes. None for the clock, transactions,
  the administrator, other users or restarts.
- `SyncRuns`: weak fairness of the next step of each run: a fetch has a timeout
  and the database answers. None for starting, for the administrator or
  restarts, nor for the requests that edit schedules.
- `ChannelScan`: weak fairness of the next step of each scan: ffprobe is killed
  when its time is up (`stream_prober.py`). None for polling, for failures of a
  scan or for the administrator.

`PlaylistOrder` and `Guide` state safety only: nothing in the code promises
that an administrator goes on.

## 13 Proofs

TLAPS checks all theorems for every value of the constants, from the
assumptions named in the modules:

- `OwnerAssumption`, `ProfileAssumptions`: an item has one owner, `NoConn` is no
  slot, bounds are naturals;
- `SyncAssumptions`, `NoRowAssumption`: every channel has a category, `Absent` is
  no name, `NoRow` is no row, there is a category of either kind;
- `OrderAssumptions`: the categories of other playlists are finitely many, a
  category has a rank and a channel a name key, a page holds at least one row;
- `RevisionAssumptions`: there are two rows at least, a second has at least one
  tick and the bound on time leaves room for one second;
- `SchedulerAssumptions`, `RunAssumptions`: `NoTime` is no time, the table holds at
  least one job, no source is a guide;
- `DummyEpgAssumptions`: what a pattern reads is nothing, no number, or an hour and
  a minute, both any natural number, as a rule may match any digits, and a day,
  none, no number, or one there is not; a zone changes its clocks by less than the
  three hours of a block; the built-in parser reads UTC; `NoEvent` and `Raises` are
  no times;
- `GuideAssumptions`: two playlists at least, three modes, lengths and instants are
  naturals, ids start at 1;
- `ScanAssumptions`: finitely many channels, labels differ from no tag, the table
  holds at least one job.

Every safety invariant and every action property of the passing runs is proved;
so are the refinements of `ProfileRegister` and of
`SourceMirror`.

**ProfileStore_proofs.** `TypeCorrect`, `NoLossBeforeClear`,
`AgreementOnRevision`, `LossNeedsClear` and `Refinement`. None of the
properties is inductive: nothing in them says why a write that passed its check
may still be committed later. `IInv` adds that, as named conjuncts:

- `RowInv`: the row's id comes from the sequence, and an empty row is `NoRow`;
- `WriterInv`: a request that executed its statement holds the row, and the row
  still has the revision it was checked against;
- `SeenInv`, `BasisInv`, `AnswerInv`: a TV, a request or an answer that names
  the current revision of the current row knows, was merged from, or carries
  what the row holds;
- `WaitInv`: a TV waits for a request made from its own data, alone;
- `HistoryInv`: before the first clear there has been at most one row, and it
  holds all that was accepted.

**SourceSync_proofs.** `TypeCorrect`, then three invariants.

- `IInv` (`Invariance`) holds for any overlap. `RowsInv`: what a playlist shows
  exists. `SessionInv`, of each session: closed, it knows nothing
  (`ClosedInv`); without an answer it picks nothing (`FeedInv`); what it picked
  exists and what it will insert does not (`PickInv`); what it will do to
  playlists refers to such rows, and spares what was locked (`TodoInv`); it
  imports for every link it has had since it started (`LinkInv`).
  `LockedNamesKept` and `LinksServed` follow: the commit writes exactly
  what `TodoInv` and `LinkInv` describe.
- `SInv` (`SerialInvariance`) adds what is true until two runs overlap: one
  session is active, each channel has one row, what the session read of it is
  still so, and what it will clear is past its grace period.
  `OneRowEach`, `FeedFollowed` and `OnlyTheGoneCleared` follow. Without the
  clause that reads are still current, a commit that skips "unchanged" columns
  could not be shown to leave the feed's values. `ProviderMirrored` is the
  refinement: under `SInv`, `Start` is `Take`, a commit is `Publish` because
  one row of each listed channel is live then and no other row is, the end of a
  run that fails is `GiveUp`, and every other step leaves the copy alone.
- `RInv` (`RenameInvariance`) adds what a run knows of playlists: every playlist
  channel of its categories that nobody has written since it looked has the name
  the run sees, or will be given it (`NamesKnown`); what it will write is what it
  sees (`RenamesSeen`); what it saw locked still is, or has been written
  (`LocksKnown`). `CommitSeen` shows that what it sees is what its commit leaves
  in the rows. `RenamesReach` and `InSyncKept` follow, and `InSyncReached`: a run
  that commits what the provider still says, with no playlist channel written
  under its hands, leaves all in line. The last two are `Converges` but for the
  commits that have to come.

**PlaylistOrder_proofs.** `OrderTypeCorrect`, `MergeKeepsAlways`,
`ChannelsAlwaysLast`, `CategoriesAlwaysLast`, `DragAlwaysMovesOnlyLoaded` and
`SortAlwaysStaysInPlace`. `OInv` (`OrderInvariance`) says what a request between
its SELECTs and its COMMIT knows. `InsertOK`: its categories are there or its own
to make, its numbers are above every number it saw, or both are 0 and the ids
decide, and its places above that of every category it saw alone in its name;
`MergeOK`: its channels are all those it saw in what it drops, and its target
is not dropped; `SortOK`: each channel is to get the number of the place its name
has among those of its category; and ids not yet given out are higher than
all these (`RowsOK`, `RequestOK`, `PageOK`). Without the last, a tie of an insert
could not be decided. What a list shows is the set sorted by `sort_order` and id:
the proofs replace "sorted" by the number of rows before a row (`RankIn`), show
that ranks are a bijection with the places, and that `Display` is the one sequence
in that order; a drag and a sort then only have to be shown to leave ranks as they
are.

**SyncRevision_proofs.** `RevisionTypes`, `TagIsExactAlways` and
`DateIsSafeAlways`. A 304 compares aggregates, and the invariants say rows.
`RevisionInv` ties the two together. `KeptInv`, of each list a player keeps or is
being sent: newcomers have greater ids than what it was tagged with, and of that,
while all is there, each row is as it was or, unless its edit was overtaken, has a
newer stamp than the tag, and has at most lost a link (`Keeps`); equal
counts, sums and maxima then leave no room for a change; `TimeInv`: every
open transaction began at its own time, on which "newer" rests; `DateInv`: a
date sent is that of the revision now observed or has passed; `MatchInv`: between the two SELECTs of a
revision, the part that matched already was exact when it was read.

**SyncRuns_proofs.** Three invariants of `SyncRuns!Spec`.

- `SInv` (`SchedulerInvariance`) is about reloads. `JobsFollowTable` says
  nothing while a reload is under way, so it is not inductive. `OwnInv`: the
  schedule a request is about is a row, or has been deleted. `EnabledInv`: an enabled
  schedule without a job is in what some reload has found or will SELECT, until
  an error cuts a reload off (lemma `CutOffInv`: from then on nothing is claimed, until
  a reload removes the jobs there are and begins anew).
  `CurrentInv`: until a change is committed in the middle of another reload,
  what reloads have found, and the jobs there are, are those of the table.
  `JobsAreThoseOfTheTable` follows.
- `RInv` (`RunsInvariance`) is about runs: a run that works has every provider
  it has no answer of still to do, and once its guides are loaded it has all
  guides there are; one that got through (`Through`) has committed. The first
  two clauses are what the property lacks while a run is under way.
  `RunsKeepWhatTheyGot` follows, for any number of providers and overlapping
  runs, through deletions and restarts.
- `HInv` and `JInv` (`HistoryInvariance`): what a run has loaded of a provider, and
  the batches it will delete, are those of the table until another run records
  something of it; batches have ids of runs that were started, and only guides
  have any; every job of the table was started. `RefreshShowsAlways` follows:
  a run deletes exactly what was there before it inserts, so one batch is left.
  `NInv` (`NotifyInvariance`) adds when a run that is kept records a failure: only
  a refresh of one guide, and only with a URL that cannot be parsed.
  `RunsTypes` follows from all three.
- `JobsAlwaysCarriedOut` is `JobsEnd` but for the fairness: a job that can be
  polled and is not done is the work of a run under way
  (`RunningJobsAreCarriedOut`). A restart empties the table as it ends the runs,
  an eviction lets no job in, and a task that raises marks its own job.

**Guide_proofs.** `GuideTypeCorrect`, `RevisionCoversGuide`, `GuideAlwaysCovers`,
`AnnouncedTimesHold` and `CopyAlwaysStandsAlone`.

- `GInv` (`GuideInvariance`): stamps are those of transactions there have been, what
  was never used has none, a channel is in a category, and both are pinned and
  mapped to what is there. Each action is shown to keep it, and to move rows only
  as `Moved` says: stamped, emptied, or robbed of a pin or a mapping. `CopyingOK`:
  what a duplication has read were rows of the first playlist.
- `KeptInv`: what a request has read so far, statement by statement (`Reading`), are
  rows each of which has since stayed, been stamped with a newer time than the
  newest counted, gone, or lost a pin or a mapping with what it pointed to
  (`ChannelsSince`, `RulesSince`, `CategorySince`, `GuidesSince`); what has been
  loaded is either what was counted or such a change of it. If the revision is
  the same at the end, the newest stamps exclude the second for what is in the
  list, newcomers too, the count and sum the third, and the counts of pins and
  mappings the fourth, so that what was loaded is what is there (`ReadingShows`).
  A category's pin is in no count: it is covered as long as it is one of the
  playlist's own rules, whose deletion the rules tell of. `RevisionCoversGuide` follows.
- Tiles follow one another from the hour to the event or the end of the window
  (`TileIs`, `TilesFollow`, `JoinedCovers`): a block of three hours on the clock
  is a positive time, as no change of the clocks is as long. A time that is read
  stays until the grace has passed, as the local day and the clock decide.
- A duplicate's ids are a bijection with the originals' that keeps their order
  (`CopiesAreNew`), so that the rules EVENT mode tries are those of the original,
  in the same orders (`CopiedOrders`). An edit of one playlist leaves `Untouched`
  what others' plans are made of.

**ChannelScan_proofs.** `IInv` (`Invariance`) is `TypeInv`, the shape of the
variables; `CountInv`, that what a scan measured are different channels among
those it loaded, as many as its job says and all of them once it has written, and
no more probes run than there are slots; and `LoadedInv`, that what a scan loaded
of a channel's probe is still what the row says, until another scan writes to it.
`TypeCorrect` needs the second, with the cardinalities of finite sets;
`OneProbePerRow` the third: a scan writes only the columns that differ from what
it loaded, and without `LoadedInv` the others could be anything.
`DeletedOnlyForABetterCopy` needs that every loaded row is measured before a
choice is shown, and that a non-empty group has a first of its best.
`ScansAlwaysGoOn` is `ScanEnds` but for the fairness: a scan that can be polled
and runs can write, measure, or give a slot to a channel that waits
(`ScansGoOn`). It needs `SlotInv` (`SlotInvariance`), that whoever holds a slot is
not measured yet: were a slot kept after a time-out, all slots could be held by
channels nobody measures.

**SetSums_proofs.** Least and greatest elements, finiteness of images, and sums
of ids. The prover's induction does not reach an operator, so that sums over a
set are compared by counting where that is enough, and otherwise by a
minimal set for which a comparison fails (`MinimalSubset`): there is none.

Left to TLC: the liveness properties (`EventuallyShared`, `Converges`,
`EventuallyCurrent`, `EventuallyAtBaseUrl`, `JobsEnd`, `ScanEnds`), which the
prover does not handle.

Three operators are written so that they can be reasoned about: a selection
from a sequence whose order matters (`PlaylistOrder!Keep`, `ChannelScan!Winner`)
is by position and not by the library's recursive `SelectSeq`, and
`Guide!PlaceIn` names the position of a rule in what is sent.

## 14 Where code and documentation disagree

1. `clear()` deletes the row and with it the revision. A TV that merged from
   revision *n* of the cleared profile passes the check against revision *n* of
   the next one, which it never merged, and what another TV had put there is
   lost; `src/README.md` 248 says that nothing another TV wrote is lost. For the
   same reason `profile.rev` does not always say when to fetch
   (`src/README.md` 250): `EventuallyShared` names the case.
   `LossOnlyAcrossClear` is the promise the code does keep.
2. `name_locked` is read in one statement and the name written later by id. A
   name changed and locked in between is overwritten, against
   `models/playlist.py` 125. `LockedWhenReadIsKept` is what does hold.
3. A link made while a run is under way misses the channel that run is adding
   (`models/playlist.py` 94), and no later run makes up for it, the channel no
   longer being new. `LinksGetNewChannels` is what does hold.
4. "One bad provider shouldn't stop the rest" (`services/sync_engine.py`
   328-329) is true of a provider that does not answer. When the *database*
   refuses a statement of one source, the session they all share can do nothing
   before a rollback, the handler that would record the failure raises too, and
   what every other source answered is lost. `RunKeepsWhatItGot` is what does
   hold.

Exceptions the properties name. Some go against a comment or a description, which
is then quoted; there the property says what holds without the exception.

- Overlapping runs of one source can give a channel two rows, which is why
  `OneRowPerChannel`, `CommitMatchesFeed`, `ClearsOnlyTheGone` and `Converges`
  are stated for runs that do not overlap. Overlapping refreshes of one guide
  list its programmes twice, or leave the badge of another run, until the next
  refresh (`LastRefreshShows`).
- An edit whose transaction began before a change that is already committed
  leaves the newest `updated_at`, and so the revision, as it was (`late`), though
  `sync_status.py` 12 has every edit counted and 261-262 calls the ETag exact. When
  the table of observed revisions is emptied, or the process restarts before a
  date that ran ahead of the clock, a 304 for a date can be wrong (`undated`),
  against 261 ("never a wrong 304"). A list or guide read after its ETag may show a
  row that is deleted again by the time the ETag is right once more
  (`EventuallyCurrent`, `CameAndWent`). A base URL applies to lists after a
  restart, to ETags at once (`EventuallyAtBaseUrl`).
- A change committed while another request reloads the schedules can leave a
  deleted schedule's job, or an old time, until the next reload; two PATCHes
  that overlap can leave a schedule that runs nothing (`JobsFollowTable`). A
  database error between the commit and the new jobs leaves the old jobs, or
  none, until the next reload or restart (`unloaded`).
- A notification URL that cannot be parsed raises after the commit: the job says
  "error" and the guide's badge "failed" though the refresh is kept
  (`LastRefreshShows`). `sync_notify.py` 5 says that notifying never fails a sync,
  `settings.py` 77-81 that failures are only logged, and `epg_refresh_jobs.py` 63-66
  that the badge reflects reality. A job evicted before its task looks it up
  never starts. A single source that fails to sync is not recorded on the
  source (`api/routes/sources.py` 250-262). Rows of `sync_runs` are committed
  only at the end, so a running or failed run has none.
- Ties: channels added by hand or copied have `sort_order` 0, what is imported
  behind a single 0 has it too, and players may get tied rows in any order
  (`NewChannelsComeLast`). A drag among tied rows can put loaded ones behind an
  unloaded one, against `playlists.py` 884-885 ("can never collide"), and a sort
  of tied rows may move others: `DragMovesOnlyLoaded` and `SortStaysInPlace` are
  about categories without ties. Rules with one `sort_order` are tried
  in either order.
- A name without a date stands for the new day's event from midnight in its
  zone on, even while the event is on the air, and the six hours before it is
  taken for tomorrow's are hours on the clock: five or seven where the clocks
  change (`AnnouncedTimeHolds`). An event to begin at a time that the clocks skip or
  show again can stop before it starts, with other programmes over it
  (`GuideCovers`). A minute
  above 59 without a date, or an hour or day that `int()` refuses, raises and fails
  the guide of the whole playlist.
- Blocks after an event reach from its end to the end of the window: a date long
  past fills the guide with thousands of them (`dummy_epg.py` 583), whereas the
  blocks before an event are capped for that very reason (574-575).
- A channel can be pinned to a rule of another playlist, by the API, a move or a
  copy. It then goes by the built-in parser, until somebody deletes the other
  playlist's rule and the channel falls back to its own playlist's
  (`CopyStandsAlone`). The API lets a *category* be pinned so too, which the
  editor never offers; the "epg" revision does not tell of that deletion, as it
  counts the pins of channels only (`ForeignPinGone`), against
  `sync_status.py` 261-262.
- Deleting a pinned rule makes its channel try *all* rules, because the database
  clears the pin, against `services/epg_writer.py` 163-166, which has it fall
  through to the built-in parser; that is so for a disabled rule.
- Two overlapping scans leave rows that mix two probes; a channel deleted
  during a scan may fail it; two proposals applied one after the other can
  delete every copy of a channel (`DeletedForABetterCopy` is about one).

## 15 Not modelled

- **Provider clients and parsers** (`services/xtream_client.py`, `m3u_parser.py`,
  `epg_parser.py`, `name_normalize.py`, `epg_mapper.py`, `m3u_writer.py`):
  translations between strings and rows, sequential and without state. What
  matters of them is a set of named channels, a set of programmes or a sequence
  of categories, and their detail is beyond what TLC can enumerate; the
  repository's tests compare examples.
- **Suggesting rules** (`services/dummy_epg.py` 209-505): builds a regular
  expression from a sample, once, for the administrator to edit.
- **Logo caches and indexes**: refreshed on demand, best effort, no part depends
  on them.
- **Administration**: logins, settings, users, versions and logs are sequential
  edits of single rows or files; `public_base_url` is in `SyncRevision`.
- **Schema and migrations**: run once before the program. The constraints the
  models rest on (unique keys, `ON DELETE CASCADE` and `SET NULL`) are named
  where they are used.
- **Web frontend**: a client that may issue any request at any time. What it
  computes itself and sends is modelled: the order after a drag
  (`PlaylistOrder`), the proposed deletions (`ChannelScan`).
- **Deployment**: nginx, docker, systemd.
- Within modelled components: category rows of their own, EPG matching by name,
  logo and `tvg` fields (SourceSync); CRUD of playlists, details of films and
  series, bulk renames and searches (playlist editing); authentication,
  redirects and the layout of answers (XC server), which only read.

## 16 Plan

Every component that changes shared state has a module, and every property that
the prover can handle has a proof. What is left is a refinement:

| module | theorem | argument |
|---|---|---|
| `SyncRuns` | that runs which do not overlap implement "each provider's row is its last answer" | from `HInv` |

## 17 Running the checks

    tlc -workers 2 -config MCProfileStore.cfg MCProfileStore.tla
    tlc -workers 2 -config MCSourceSync.cfg MCSourceSync.tla
    tlc -workers 2 -config MCSyncConverges.cfg MCSourceSync.tla
    tlc -workers 2 -config MCPlaylistOrder.cfg MCPlaylistOrder.tla
    tlc -workers 2 -config MCSyncRevision.cfg MCSyncRevision.tla
    tlc -workers 2 -config MCSyncRuns.cfg MCSyncRuns.tla
    tlc -workers 2 -config BadProvider.cfg MCSyncRuns.tla
    tlc -workers 2 -config MCGuide.cfg MCGuide.tla
    tlc -workers 2 -config MCChannelScan.cfg MCChannelScan.tla
    tlapm ProfileStore_proofs.tla
    tlapm SourceSync_proofs.tla
    tlapm PlaylistOrder_proofs.tla
    tlapm SyncRevision_proofs.tla
    tlapm SyncRuns_proofs.tla
    tlapm Guide_proofs.tla
    tlapm ChannelScan_proofs.tla
    tlapm SetSums_proofs.tla

The longest run takes some three minutes with two workers; the proofs take
about a quarter of an hour together.
