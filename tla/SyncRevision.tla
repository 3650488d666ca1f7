---------------------------- MODULE SyncRevision ----------------------------
(***************************************************************************)
(* Revisions and conditional responses (services/sync_status.py and the    *)
(* list actions of api/routes/xc_server.py).                               *)
(*                                                                         *)
(* A TV keeps the last list it was sent with its ETag and Last-Modified    *)
(* and asks again with one of them.  The server computes the revision from *)
(* aggregates of two tables, a SELECT each, remembers when it first saw    *)
(* it, and only then, in further SELECTs, reads what it sends.  Meanwhile  *)
(* transactions commit: every row they change carries the time they began, *)
(* because onupdate is now().                                              *)
(*                                                                         *)
(* "chan" are the playlist channels one user sees, "src" the provider's    *)
(* rows behind them.  A time is a tick; HTTP dates are whole seconds.      *)
(***************************************************************************)
EXTENDS Integers, FiniteSets, FiniteSetsExt

CONSTANTS
    TVs,            \* the user's players
    Txns,           \* transactions that can be open at once
    MaxRow,         \* bound on ids of playlist channels
    TicksPerSecond,
    MaxObserved,    \* _MAX_OBSERVED
    MaxNow,         \* bound on time before a restart
    MaxUrl,         \* base URLs are 0..MaxUrl
    MaxEdits        \* bound on commits, changes of the URL and restarts

ASSUME RevisionAssumptions ==
    /\ MaxRow \in Nat \ {0, 1}
    /\ TicksPerSecond \in Nat \ {0} /\ MaxObserved \in Nat \ {0}
    /\ MaxNow \in Nat /\ MaxNow >= TicksPerSecond /\ MaxEdits \in Nat /\ MaxUrl \in Nat

Tables    == {"chan", "src"}
RowsOf(t) == IF t = "chan" THEN 1..MaxRow ELSE {1}
Second(n) == n \div TicksPerSecond

VARIABLES
    now,
    tab,        \* the rows: content, updated_at, whether source_channel_id is set
    nextRow,    \* the sequence of ids
    txn,        \* of each open transaction, when it began
    urlSet,     \* public_base_url as set,
    urlLoaded,  \*   and as m3u_writer loaded it
    boot,       \* _PROCESS_START
    observed,   \* _observed: this user's entry,
    others,     \*   and how many others
    copy,       \* what each TV keeps
    rq,         \* the request each TV has under way
    edits

data   == <<tab, nextRow>>
server == <<urlLoaded, boot, observed, others>>
vars   == <<now, data, txn, urlSet, server, copy, rq, edits>>

NoRow   == [val |-> 0, stamp |-> 0, linked |-> FALSE]
NoTxn   == 0
NoEntry == [rev |-> <<>>, lm |-> -1]

Present(t) == {r \in RowsOf(t) : tab[t][r].val # 0}
Newest(t)  == Max({0} \union {tab[t][r].stamp : r \in Present(t)})

\* Mutant: no sum(id).
PartWithoutSum(t) ==
    [n |-> Cardinality(Present(t)), newest |-> Newest(t),
     linked |-> Cardinality({r \in Present(t) : tab[t][r].linked})]

\* max(updated_at), count(*), sum(id), count(source_channel_id); of the
\* provider's rows only the first.
Part(t) ==
    IF t = "src" THEN [newest |-> Newest(t)]
    ELSE [n |-> Cardinality(Present(t)), sum |-> SumSet(Present(t)), newest |-> Newest(t),
          linked |-> Cardinality({r \in Present(t) : tab[t][r].linked})]

Content(t) == [r \in Present(t) |-> <<tab[t][r].val, tab[t][r].linked>>]

Blank == [t \in Tables |-> <<>>]

\* A list with its validators.  History: at, what was there when the revision
\* was read; next, the id the next row was to get then; late, an edit older
\* than the newest was committed since; undated, the table of observed revisions was emptied since it got
\* its date, or the process restarted before that date had come.
NoCopy == [tag |-> Blank, tagUrl |-> 0, lm |-> -1, at |-> Blank, next |-> 1, body |-> Blank, url |-> 0,
           late |-> FALSE, undated |-> FALSE]

NoRequest == [step |-> "idle", how |-> "plain", was |-> Blank, new |-> NoCopy]

Init ==
    /\ now = TicksPerSecond
    /\ tab = [t \in Tables |-> [r \in RowsOf(t) |->
                IF r <= 2 THEN [val |-> 1, stamp |-> 0, linked |-> TRUE] ELSE NoRow]]
    /\ nextRow = 3
    /\ txn = [x \in Txns |-> NoTxn]
    /\ urlSet \in 0..MaxUrl /\ urlLoaded = 0
    /\ boot = 1
    /\ observed = NoEntry /\ others = 0
    /\ copy = [v \in TVs |-> NoCopy]
    /\ rq = [v \in TVs |-> NoRequest]
    /\ edits = 0

Edits == edits < MaxEdits /\ edits' = edits + 1

Tick ==
    /\ now < MaxNow
    /\ now' = now + 1
    /\ UNCHANGED <<data, txn, urlSet, server, copy, rq, edits>>

-----------------------------------------------------------------------------
(* What is committed *)

\* A sync, an edit in the playlist editor: now() is fixed here.
BeginTxn(x) ==
    /\ txn[x] = NoTxn
    /\ edits < MaxEdits
    /\ now < MaxNow
    /\ now' = now + 1
    /\ txn' = [txn EXCEPT ![x] = now']
    /\ UNCHANGED <<data, urlSet, server, copy, rq, edits>>

\* History, in every copy and every answer being prepared.
NoteLate(late) ==
    /\ copy' = [v \in TVs |-> IF copy[v] = NoCopy THEN NoCopy ELSE [copy[v] EXCEPT !.late = copy[v].late \/ late]]
    /\ rq' = [v \in TVs |-> IF rq[v].step \in {"idle", "chan"} THEN rq[v]
                            ELSE [rq[v] EXCEPT !.new.late = rq[v].new.late \/ late]]

NoteUndated ==
    /\ copy' = [v \in TVs |-> IF copy[v] = NoCopy THEN NoCopy ELSE [copy[v] EXCEPT !.undated = TRUE]]
    /\ rq' = [v \in TVs |-> IF rq[v].step \in {"body", "rest"}
                            THEN [rq[v] EXCEPT !.new.undated = TRUE] ELSE rq[v]]

Commits(x, t, rows) ==
    /\ txn[x] # NoTxn
    /\ txn' = [txn EXCEPT ![x] = NoTxn]
    /\ Edits
    /\ tab' = [tab EXCEPT ![t] = rows]
    /\ UNCHANGED <<now, urlSet, server>>

Fresh(x) == [val |-> edits + 2, stamp |-> txn[x], linked |-> TRUE]

\* An ORM flush or an UPDATE: onupdate sets updated_at.
CommitEdit(x, t, r) ==
    /\ r \in Present(t)
    /\ Commits(x, t, [tab[t] EXCEPT ![r].val = edits + 2, ![r].stamp = txn[x]])
    /\ NoteLate(txn[x] < Newest(t))
    /\ UNCHANGED nextRow

CommitDelete(x, r) ==
    /\ r \in Present("chan")
    /\ Commits(x, "chan", [tab["chan"] EXCEPT ![r] = NoRow])
    /\ UNCHANGED <<nextRow, copy, rq>>

CommitInsert(x) ==
    /\ nextRow \in RowsOf("chan")
    /\ Commits(x, "chan", [tab["chan"] EXCEPT ![nextRow] = Fresh(x)])
    /\ nextRow' = nextRow + 1
    /\ UNCHANGED <<copy, rq>>

\* One channel goes and another comes.
CommitSwap(x, r) ==
    /\ r \in Present("chan") /\ nextRow \in RowsOf("chan")
    /\ Commits(x, "chan", [tab["chan"] EXCEPT ![r] = NoRow, ![nextRow] = Fresh(x)])
    /\ nextRow' = nextRow + 1
    /\ UNCHANGED <<copy, rq>>

\* Its source channel is deleted: ON DELETE SET NULL leaves updated_at alone.
CommitDetach(x, r) ==
    /\ r \in Present("chan") /\ tab["chan"][r].linked
    /\ Commits(x, "chan", [tab["chan"] EXCEPT ![r].linked = FALSE])
    /\ UNCHANGED <<nextRow, copy, rq>>

\* update_settings: the .env file, and get_settings from now on.
EditBaseUrl ==
    /\ Edits
    /\ urlSet' \in 0..MaxUrl \ {urlSet}
    /\ UNCHANGED <<now, data, txn, server, copy, rq>>

\* The process starts anew in a later second; what was under way is lost.
Restart ==
    /\ Edits
    /\ boot' = Second(now) + 1
    /\ now' = boot' * TicksPerSecond
    /\ urlLoaded' = urlSet
    /\ observed' = NoEntry /\ others' = 0
    /\ txn' = [x \in Txns |-> NoTxn]
    /\ rq' = [v \in TVs |-> NoRequest]
    /\ copy' = [v \in TVs |-> IF copy[v].lm < boot' THEN copy[v] ELSE [copy[v] EXCEPT !.undated = TRUE]]
    /\ UNCHANGED <<data, urlSet>>

-----------------------------------------------------------------------------
(* Requests *)

\* A TV asks with its ETag, or with its date, or with neither.
Poll(v, how) ==
    /\ rq[v].step = "idle"
    /\ how # "plain" <=> copy[v] # NoCopy
    /\ rq' = [rq EXCEPT ![v].step = "chan", ![v].how = how]
    /\ UNCHANGED <<now, data, txn, urlSet, server, copy, edits>>

\* compute_sync_status: the settings, and the channels' aggregates ...
ReadChannelsPart(v) ==
    /\ rq[v].step = "chan"
    /\ rq' = [rq EXCEPT ![v] =
         [rq[v] EXCEPT !.step = "src", !.was["chan"] = Content("chan"),
                       !.new = [rq[v].new EXCEPT !.at["chan"] = Content("chan"), !.next = nextRow,
                                                 !.tag["chan"] = Part("chan"), !.tagUrl = urlSet]]]
    /\ UNCHANGED <<now, data, txn, urlSet, server, copy, edits>>

Entries == others + (IF observed = NoEntry THEN 0 ELSE 1)

\* Mutant: a new revision gets the newest timestamp of the data.
LastModifiedOfData(rev) ==
    IF observed.rev = rev THEN observed.lm
    ELSE Max({Second(rev.tag[t].newest) : t \in Tables} \union {boot})

\* Mutant: a revision seen for the first time may be dated before the process.
LastModifiedAnyTime(rev) ==
    IF observed.rev = rev THEN observed.lm
    ELSE Max({Second(rev.tag[t].newest) : t \in Tables} \union
             (IF observed = NoEntry THEN {0} ELSE {Second(now), observed.lm + 1}))

\* last_modified_for: when this revision was first seen.
LastModified(rev) ==
    IF observed.rev = rev THEN observed.lm
    ELSE Max({Second(rev.tag[t].newest) : t \in Tables} \union
             (IF observed = NoEntry THEN {boot} ELSE {Second(now), observed.lm + 1}))

\* Mutant: the revision leaves the settings out.
MatchesAnyUrl(v, tag, url, lm) ==
    \/ rq[v].how = "tag" /\ copy[v].tag = tag
    \/ rq[v].how = "date" /\ lm <= copy[v].lm

\* _is_not_modified: the ETag if there is one, else the date.
Matches(v, tag, url, lm) ==
    \/ rq[v].how = "tag" /\ copy[v].tag = tag /\ copy[v].tagUrl = url
    \/ rq[v].how = "date" /\ lm <= copy[v].lm

(***************************************************************************)
(* ... then the sources' aggregate; the revision is observed, and the      *)
(* answer is 304 or goes on with the body.                                 *)
(***************************************************************************)
Validate(v) ==
    LET tag == [rq[v].new.tag EXCEPT !["src"] = Part("src")]
        rev == [tag |-> tag, url |-> rq[v].new.tagUrl]
        lm  == LastModified(rev) IN
    /\ rq[v].step = "src"
    /\ IF observed.rev = rev THEN UNCHANGED <<observed, others>>
       ELSE /\ observed' = [rev |-> rev, lm |-> lm]
            /\ others' = IF Entries >= MaxObserved THEN 0 ELSE others
    /\ rq' = [rq EXCEPT ![v] =
         IF Matches(v, tag, rq[v].new.tagUrl, lm)
         THEN [rq[v] EXCEPT !.step = "same", !.was["src"] = Content("src")]
         ELSE [rq[v] EXCEPT !.step = "body",
                            !.new = [rq[v].new EXCEPT !.tag = tag, !.lm = lm, !.at["src"] = Content("src")]]]
    /\ UNCHANGED <<now, data, txn, urlSet, urlLoaded, boot, copy, edits>>

NotModified(v) ==
    /\ rq[v].step = "same"
    /\ rq' = [rq EXCEPT ![v] = NoRequest]
    /\ UNCHANGED <<now, data, txn, urlSet, server, copy, edits>>

\* _enabled_playlists loads the channels ...
ReadChannels(v) ==
    /\ rq[v].step = "body"
    /\ rq' = [rq EXCEPT ![v].step = "rest", ![v].new.body["chan"] = Content("chan")]
    /\ UNCHANGED <<now, data, txn, urlSet, server, copy, edits>>

\* Mutant: the validators are computed when the list is ready.
AnswerThenTag(v) ==
    /\ rq[v].step = "rest"
    /\ copy' = [copy EXCEPT ![v] =
         [rq[v].new EXCEPT !.body["src"] = Content("src"), !.url = urlLoaded,
                           !.tag = [t \in Tables |-> Part(t)], !.at = [t \in Tables |-> Content(t)]]]
    /\ rq' = [rq EXCEPT ![v] = NoRequest]
    /\ UNCHANGED <<now, data, txn, urlSet, server, edits>>

\* ... and what they show of their sources; the TV keeps the answer.
Answer(v) ==
    /\ rq[v].step = "rest"
    /\ copy' = [copy EXCEPT ![v] = [rq[v].new EXCEPT !.body["src"] = Content("src"), !.url = urlLoaded]]
    /\ rq' = [rq EXCEPT ![v] = NoRequest]
    /\ UNCHANGED <<now, data, txn, urlSet, server, edits>>

\* Another user's revision is observed; at the limit the table is emptied.
OtherUser ==
    /\ IF Entries >= MaxObserved
       THEN /\ observed' = NoEntry
            /\ others' = 1
            /\ NoteUndated
       ELSE /\ others' = others + 1
            /\ UNCHANGED <<observed, copy, rq>>
    /\ UNCHANGED <<now, data, txn, urlSet, urlLoaded, boot, edits>>

Commit(x) ==
    \/ \E t \in Tables : \E r \in RowsOf(t) : CommitEdit(x, t, r)
    \/ \E r \in RowsOf("chan") : CommitDelete(x, r) \/ CommitSwap(x, r) \/ CommitDetach(x, r)
    \/ CommitInsert(x)

Serve(v) == ReadChannelsPart(v) \/ Validate(v) \/ NotModified(v) \/ ReadChannels(v) \/ Answer(v)

Next ==
    \/ Tick \/ EditBaseUrl \/ Restart \/ OtherUser
    \/ \E x \in Txns : BeginTxn(x) \/ Commit(x)
    \/ \E v \in TVs : Serve(v) \/ \E how \in {"plain", "tag", "date"} : Poll(v, how)

\* A TV polls every few minutes, and the server answers.
Fairness ==
    \A v \in TVs : WF_vars(Serve(v)) /\ WF_vars(\E how \in {"plain", "tag", "date"} : Poll(v, how))

Spec == Init /\ [][Next]_vars /\ Fairness
-----------------------------------------------------------------------------
(* Type: dates of the table never run behind the process, and what a request
   has read fits its step. *)
TypeOK ==
    /\ now \in 0..MaxNow + TicksPerSecond * MaxEdits /\ nextRow \in 1..MaxRow + 1
    /\ \A t \in Tables : \A r \in RowsOf(t) : tab[t][r].val \in 0..MaxEdits + 1 /\ tab[t][r].stamp \in 0..now
    /\ txn \in [Txns -> 0..now]
    /\ observed = NoEntry \/ observed.lm >= boot
    /\ others \in 0..MaxObserved /\ Entries <= MaxObserved
    /\ \A v \in TVs : /\ rq[v].step \in {"idle", "chan", "src", "same", "body", "rest"}
                      /\ copy[v] # NoCopy => copy[v].lm >= 1

AsWhenTagged(v) == \A t \in Tables : copy[v].at[t] = rq[v].was[t]

(* "ETag / If-None-Match is exact": a 304 for an ETag means that what it was
   computed from is what is there now, whichever rows were edited, added,
   deleted, swapped or detached since and in whatever order transactions
   commit - except for an edit that began before a change that was committed
   already. *)
TagMatchIsExact ==
    \A v \in TVs : rq[v].step = "same" /\ rq[v].how = "tag" => AsWhenTagged(v) \/ copy[v].late

(* "never a wrong 304": the same for If-Modified-Since, over several
   changes in a second and restarts, as long as the table of observed
   revisions has not been emptied and no restart came before the date, which
   runs ahead of the clock when revisions change within a second. *)
DateMatchIsSafe ==
    \A v \in TVs : rq[v].step = "same" /\ rq[v].how = "date" =>
        AsWhenTagged(v) \/ copy[v].late \/ copy[v].undated

\* The list was read with rows that came after its ETag, and that are gone again.
AddedAndGone(v) ==
    \A t \in Tables :
      /\ copy[v].at[t] = Content(t)
      /\ \A r \in Present(t) : r \in DOMAIN copy[v].body[t] /\ copy[v].body[t][r] = copy[v].at[t][r]
      /\ \A r \in DOMAIN copy[v].body[t] \ Present(t) : t = "chan" /\ r >= copy[v].next

(* A TV that keeps polling ends up with the list as it is, though the answer
   it holds is read in several statements after its ETag - unless an edit came
   late, it has lost its date, or what was added between the ETag and the list
   has been deleted again, so that the ETag is right once more. *)
EventuallyCurrent ==
    \A v \in TVs : <>[](\/ \A t \in Tables : copy[v].body[t] = Content(t)
                        \/ copy[v].late \/ copy[v].undated
                        \/ AddedAndGone(v))

\* The list was written with the URL of before a change, under an ETag of after.
SetBeforeLoaded(v) == copy[v].tagUrl = urlSet /\ copy[v].url # urlSet

(* "Stream URLs embed the public base URL, so an edit has to read as a
   change": once the URL that is set is the one that is loaded, a TV that keeps
   polling ends up with a list that carries it, whichever URLs were set, set
   back and loaded by restarts before - unless it has lost its date, or got its
   list after the URL was set and before the server was restarted.  Then the
   ETag covers the new URL, the list has the old one, and the restart that
   changes the list leaves the ETag alone. *)
EventuallyAtBaseUrl ==
    \A v \in TVs : <>[](\/ urlSet # urlLoaded
                        \/ copy[v].url = urlLoaded
                        \/ copy[v].undated \/ SetBeforeLoaded(v))
=============================================================================
