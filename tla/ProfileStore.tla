---------------------------- MODULE ProfileStore ----------------------------
(***************************************************************************)
(* The profile kept for one XC login (services/profile_store.py) and the   *)
(* TVs that read, merge and write it (api/routes/xc_server.py).            *)
(*                                                                         *)
(* A request is a server-side coroutine with a database transaction of its *)
(* own: its statements interleave with those of other requests as          *)
(* PostgreSQL's READ COMMITTED allows.  A TV may stop waiting for a        *)
(* request that the server still executes, and a transaction may die       *)
(* before its commit.  The player is outside this repository: its protocol *)
(* (merge, write, on 409 fetch and merge again) is the one README.md gives *)
(* it.                                                                     *)
(***************************************************************************)
EXTENDS Naturals, FiniteSets

CONSTANTS
    TVs,                \* the players signed in with this login
    Items,              \* what they record
    OwnerOf,            \* the player that records each
    Conns,              \* request slots of the server
    NoConn,             \* no request
    MaxClears,          \* bound on the clears an administrator makes
    MaxFaults           \* bound on abandoned and aborted requests

ASSUME OwnerAssumption == OwnerOf \in [Items -> TVs]

ASSUME ProfileAssumptions ==
    /\ NoConn \notin Conns
    /\ MaxClears \in Nat
    /\ MaxFaults \in Nat

VARIABLES
    profile,            \* the committed row
    lastId,             \* the sequence behind the row's primary key
    writer,             \* the request whose uncommitted write holds the row
    req,                \* the requests in progress
    tv,                 \* what each player holds
    clearing,           \* ids of the rows read by clear requests in progress
    clears,             \* clears that took effect
    faults,             \* requests abandoned or aborted
    durable             \* history: items committed since the last clear

vars == <<profile, lastId, writer, req, tv, clearing, clears, faults, durable>>

(***************************************************************************)
(* A login without a row reads as revision 0 with no data.                 *)
(***************************************************************************)
NoRow == [id |-> 0, revision |-> 0, data |-> {}]

Idle == [step |-> "idle", base |-> 0, data |-> {}, row |-> 0, revision |-> 0]

(***************************************************************************)
(* A player: what it knows, the revision it last merged from and the data  *)
(* it saw then, whether it must fetch before it writes, and the request it *)
(* waits for.  row is history: the row that revision belonged to.          *)
(***************************************************************************)
NewTV == [local |-> {}, base |-> 0, seen |-> {}, row |-> 0,
          stale |-> FALSE, waits |-> NoConn]

Init ==
    /\ profile = NoRow
    /\ lastId = 0
    /\ writer = NoConn
    /\ req = [c \in Conns |-> Idle]
    /\ tv = [t \in TVs |-> NewTV]
    /\ clearing = {}
    /\ clears = 0
    /\ faults = 0
    /\ durable = {}

-----------------------------------------------------------------------------
(* The players *)

\* Something happens on a TV.
Change(t, i) ==
    /\ OwnerOf[i] = t
    /\ i \notin tv[t].local
    /\ tv' = [tv EXCEPT ![t].local = @ \union {i}]
    /\ UNCHANGED <<profile, lastId, writer, req, clearing, clears, faults, durable>>

\* dptv_profile: one SELECT; the player merges what it gets.  It may ask at any
\* time, as when it starts.
Fetch(t) ==
    /\ tv[t].waits = NoConn
    /\ tv' = [tv EXCEPT ![t] =
                [local |-> @.local \union profile.data,
                 base  |-> profile.revision,
                 seen  |-> profile.data,
                 row   |-> profile.id,
                 stale |-> FALSE,
                 waits |-> NoConn]]
    /\ UNCHANGED <<profile, lastId, writer, req, clearing, clears, faults, durable>>

\* Mutant: only a 409 makes the player fetch.
WasRefused(t) == tv[t].stale

\* The player sees in the sync status (profile.rev) that the revision is not the
\* one it knows, or was refused with 409: it has to fetch.  Of the same number
\* after a clear it learns nothing.
SeesNewRevision(t) == tv[t].stale \/ tv[t].base # profile.revision

\* dptv_profile_put is sent and the server starts on it.
Put(t, c) ==
    /\ tv[t].waits = NoConn
    /\ ~tv[t].stale
    /\ tv[t].local # tv[t].seen
    /\ req[c].step = "idle"
    /\ req' = [req EXCEPT ![c] = [step |-> "execute", base |-> tv[t].base,
                                  data |-> tv[t].local, row |-> tv[t].row,
                                  revision |-> 0]]
    /\ tv' = [tv EXCEPT ![t].waits = c]
    /\ UNCHANGED <<profile, lastId, writer, clearing, clears, faults, durable>>

Awaited(c) == \E t \in TVs : tv[t].waits = c

\* The player times out; the request goes on without it.
GiveUp(t) ==
    /\ tv[t].waits # NoConn
    /\ faults < MaxFaults
    /\ faults' = faults + 1
    /\ tv' = [tv EXCEPT ![t].waits = NoConn]
    /\ UNCHANGED <<profile, lastId, writer, req, clearing, clears, durable>>

\* The answer reaches the player: the new revision, or 409.
Receive(t) ==
    /\ tv[t].waits # NoConn
    /\ LET c == tv[t].waits IN
         /\ \/ /\ req[c].step = "stored"
               /\ tv' = [tv EXCEPT ![t] =
                            [local |-> @.local,
                             base  |-> req[c].revision,
                             seen  |-> req[c].data,
                             row   |-> req[c].row,
                             stale |-> @.stale,
                             waits |-> NoConn]]
            \/ /\ req[c].step = "conflict"
               /\ tv' = [tv EXCEPT ![t] =
                            [local |-> @.local,
                             base  |-> @.base,
                             seen  |-> @.seen,
                             row   |-> @.row,
                             stale |-> TRUE,
                             waits |-> NoConn]]
         /\ req' = [req EXCEPT ![c] = Idle]
    /\ UNCHANGED <<profile, lastId, writer, clearing, clears, faults, durable>>

\* An answer nobody waits for is dropped.
Drop(c) ==
    /\ req[c].step \in {"stored", "conflict"}
    /\ ~Awaited(c)
    /\ req' = [req EXCEPT ![c] = Idle]
    /\ UNCHANGED <<profile, lastId, writer, tv, clearing, clears, faults, durable>>

-----------------------------------------------------------------------------
(* profile_store.write *)

\* Mutant of Hold: the revision is checked in one transaction and written in
\* another, so nothing keeps a second request from passing the same check.
HoldNothing(c) ==
    /\ UNCHANGED writer
    /\ req' = [req EXCEPT ![c].step = "written"]

\* The statement took effect in c's transaction, which now holds the row.
Hold(c) ==
    /\ writer' = c
    /\ req' = [req EXCEPT ![c].step = "written"]

\* Mutant of Refuse: the IntegrityError or the row count is not handled.
RefuseUnhandled(c) ==
    /\ req' = [req EXCEPT ![c].step = "error"]
    /\ UNCHANGED writer

\* The statement found another revision: roll back, then read again.
Refuse(c) ==
    /\ req' = [req EXCEPT ![c].step = "refused"]
    /\ UNCHANGED writer

\* base_revision 0: INSERT.  The unique key on xc_user_id refuses a second
\* row, and makes an insert wait for the outcome of another insert.
InsertRow(c) ==
    /\ req[c].step = "execute"
    /\ req[c].base = 0
    /\ \/ profile = NoRow /\ writer = NoConn /\ Hold(c)
       \/ profile # NoRow /\ Refuse(c)
    /\ UNCHANGED <<profile, lastId, tv, clearing, clears, faults, durable>>

\* Mutant of UpdateRow: the WHERE clause does not name the revision.
UpdateAnyRevision(c) ==
    /\ req[c].step = "execute"
    /\ req[c].base # 0
    /\ \/ profile # NoRow /\ writer = NoConn /\ Hold(c)
       \/ profile = NoRow /\ Refuse(c)
    /\ UNCHANGED <<profile, lastId, tv, clearing, clears, faults, durable>>

\* UPDATE ... WHERE revision = base_revision.  It waits for a transaction
\* that changes the row it matches and then looks at the row again.
UpdateRow(c) ==
    /\ req[c].step = "execute"
    /\ req[c].base # 0
    /\ \/ profile.revision = req[c].base /\ writer = NoConn /\ Hold(c)
       \/ profile.revision # req[c].base /\ Refuse(c)
    /\ UNCHANGED <<profile, lastId, tv, clearing, clears, faults, durable>>

\* Mutant of Commit: the revision of an existing row stays what it was.
CommitSameRevision(c) ==
    LET id == IF req[c].base = 0 THEN lastId + 1 ELSE profile.id
        revision == IF req[c].base = 0 THEN 1 ELSE req[c].base IN
    /\ req[c].step = "written"
    /\ profile' = [id |-> id, revision |-> revision, data |-> req[c].data]
    /\ lastId' = IF req[c].base = 0 THEN id ELSE lastId
    /\ writer' = NoConn
    /\ req' = [req EXCEPT ![c] = [step |-> "stored", base |-> @.base,
                                  data |-> @.data, row |-> id,
                                  revision |-> revision]]
    /\ durable' = durable \union req[c].data
    /\ UNCHANGED <<tv, clearing, clears, faults>>

\* db.commit(): the write and its revision become visible.
Commit(c) ==
    LET id == IF req[c].base = 0 THEN lastId + 1 ELSE profile.id IN
    /\ req[c].step = "written"
    /\ profile' = [id |-> id, revision |-> req[c].base + 1, data |-> req[c].data]
    /\ lastId' = IF req[c].base = 0 THEN id ELSE lastId
    /\ writer' = NoConn
    /\ req' = [req EXCEPT ![c] = [step |-> "stored", base |-> @.base,
                                  data |-> @.data, row |-> id,
                                  revision |-> @.base + 1]]
    /\ durable' = durable \union req[c].data
    /\ UNCHANGED <<tv, clearing, clears, faults>>

\* The revision the 409 carries is read after the rollback.
Reread(c) ==
    /\ req[c].step = "refused"
    /\ req' = [req EXCEPT ![c] = [step |-> "conflict", base |-> @.base,
                                  data |-> @.data, row |-> @.row,
                                  revision |-> profile.revision]]
    /\ UNCHANGED <<profile, lastId, writer, tv, clearing, clears, faults, durable>>

\* The transaction dies before its commit: the write never happened.
Abort(c) ==
    /\ req[c].step \in {"execute", "written", "refused"}
    /\ faults < MaxFaults
    /\ faults' = faults + 1
    /\ writer' = IF writer = c THEN NoConn ELSE writer
    /\ req' = [req EXCEPT ![c] = Idle]
    /\ tv' = [t \in TVs |-> IF tv[t].waits = c
                            THEN [tv[t] EXCEPT !.waits = NoConn] ELSE tv[t]]
    /\ UNCHANGED <<profile, lastId, clearing, clears, durable>>

-----------------------------------------------------------------------------
(* profile_store.clear *)

\* SELECT; a login without a row answers {"cleared": false} at once.
ClearRead ==
    /\ clears < MaxClears
    /\ profile # NoRow
    /\ clearing' = clearing \union {profile.id}
    /\ UNCHANGED <<profile, lastId, writer, req, tv, clears, faults, durable>>

\* DELETE ... WHERE id = the row read, and COMMIT.  The delete waits for a
\* write that holds that row; when the row is gone it deletes nothing.
ClearDelete(id) ==
    /\ id \in clearing
    /\ clearing' = clearing \ {id}
    /\ \/ /\ profile.id = id
          /\ writer = NoConn
          /\ profile' = NoRow
          /\ durable' = {}
          /\ clears' = clears + 1
       \/ /\ profile.id # id
          /\ UNCHANGED <<profile, durable, clears>>
    /\ UNCHANGED <<lastId, writer, req, tv, faults>>

-----------------------------------------------------------------------------
Player(t) ==
    \/ \E i \in Items : Change(t, i)
    \/ Fetch(t)
    \/ \E c \in Conns : Put(t, c)
    \/ GiveUp(t)
    \/ Receive(t)

Server(c) == InsertRow(c) \/ UpdateRow(c) \/ Commit(c) \/ Reread(c)

Next ==
    \/ \E t \in TVs : Player(t)
    \/ \E c \in Conns : Server(c) \/ Abort(c) \/ Drop(c)
    \/ ClearRead
    \/ \E id \in clearing : ClearDelete(id)

Spec == Init /\ [][Next]_vars

(***************************************************************************)
(* The event loop runs every request to its end.  A player fetches when it *)
(* sees another revision, or has been refused, and writes what it has to   *)
(* share.                                                                  *)
(***************************************************************************)
Fairness ==
    /\ \A c \in Conns : WF_vars(Server(c)) /\ WF_vars(Drop(c))
    /\ \A t \in TVs : /\ WF_vars(SeesNewRevision(t) /\ Fetch(t))
                      /\ WF_vars(\E c \in Conns : Put(t, c))
                      /\ WF_vars(Receive(t))
    /\ WF_vars(\E id \in clearing : ClearDelete(id))

FairSpec == Spec /\ Fairness

-----------------------------------------------------------------------------
Steps == {"idle", "execute", "written", "refused", "stored", "conflict"}

Profiles == [id : Nat, revision : Nat, data : SUBSET Items]
Requests == [step : Steps, base : Nat, data : SUBSET Items, row : Nat, revision : Nat]
Players  == [local : SUBSET Items, base : Nat, seen : SUBSET Items, row : Nat,
             stale : BOOLEAN, waits : Conns \union {NoConn}]

\* The values each variable of this module takes.
TypeOK ==
    /\ profile \in Profiles
    /\ lastId \in Nat
    /\ writer \in Conns \union {NoConn}
    /\ req \in [Conns -> Requests]
    /\ tv \in [TVs -> Players]
    /\ clearing \in SUBSET Nat
    /\ clears \in Nat
    /\ faults \in Nat
    /\ durable \in SUBSET Items

\* What README.md and the model's docstring promise of the profile: whatever
\* a TV's accepted write put there is still there, until an administrator
\* clears the profile.
NothingLost == durable \subseteq profile.data

\* The promise holds as long as the profile was never cleared.
NothingLostBeforeClear == clears = 0 => NothingLost

\* An accepted write can drop what the profile holds only when it was merged
\* from a row that has been cleared since: the compare-and-set of write()
\* never loses a write to the row the player read.
LossOnlyAcrossClear ==
    [][ \/ profile.data \subseteq profile'.data
        \/ profile' = NoRow
        \/ \E c \in Conns :
              writer = c /\ req'[c].step = "stored" /\ req[c].row # profile.id ]_vars

\* Two requests accepted for the same row never claim the same revision, and
\* a player that was told revision n of the current row has seen all of it:
\* what a TV believes is on the server is what the server has.
TVsAgreeOnRevision ==
    \A t \in TVs :
        tv[t].row = profile.id /\ tv[t].base = profile.revision
            => tv[t].seen = profile.data /\ profile.data \subseteq tv[t].local

\* The store implements the register.
Register == INSTANCE ProfileRegister WITH
                revision <- profile.revision,
                data     <- profile.data,
                cleared  <- clears > 0

ImplementsRegister == Register!Spec

\* The player knows a revision of this number, of a row that has been cleared.
TakesForKnown(t) == tv[t].base = profile.revision /\ tv[t].row # profile.id

\* What a TV recorded reaches the profile, even when its requests are refused,
\* abandoned or aborted and when the profile is cleared meanwhile - unless the
\* next row comes to have the revision the TV knew of the cleared one, before it
\* looks: it then has no reason to fetch or to write.
EventuallyShared ==
    \A t \in TVs, i \in Items :
        i \in tv[t].local ~> i \in profile.data \/ TakesForKnown(t)
=============================================================================
