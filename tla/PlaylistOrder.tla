--------------------------- MODULE PlaylistOrder ---------------------------
(***************************************************************************)
(* The order of categories and channels in a playlist                      *)
(* (api/routes/playlists.py and the auto-import of services/sync_engine.py)*)
(* while two requests run at once and an administrator's browser drags     *)
(* rows of a page it loaded some time ago.                                 *)
(*                                                                         *)
(* The editor shows rows by sort_order and then id, players get them by    *)
(* sort_order alone: of rows with one number, the database may put any     *)
(* first.  A request whose writes depend on what it read is two steps,     *)
(* what it reads and its COMMIT; one that writes fixed values is a single  *)
(* step.  Ids come from the database's sequence when a row is inserted.    *)
(***************************************************************************)
EXTENDS Integers, Sequences, FiniteSets, SequencesExt

CONSTANTS
    Cats,           \* category rows
    Foreign,        \* those of them that belong to another playlist
    Label,          \* the name and type of each: not unique
    Rank,           \* the provider's order of the categories of that name
    NoCat,          \* the category of a channel that is not there
    Reqs,           \* requests that can be under way at once
    Imported,       \* how many channels the first import brings
    MaxId,          \* bound on channels ever inserted
    NameKey,        \* _natural_key of each channel's name
    PageSize,       \* CHANNEL_PAGE_SIZE
    MaxEdits        \* bound on what is begun

ASSUME OrderAssumptions ==
    /\ Foreign \subseteq Cats /\ IsFiniteSet(Foreign)
    /\ Rank \in [Cats -> Nat]
    /\ NoCat \notin Cats
    /\ Imported \in 0..MaxId /\ MaxId \in Nat /\ MaxEdits \in Nat /\ PageSize \in Nat \ {0}
    /\ NameKey \in [1..MaxId -> Nat]

Ids == 1..MaxId
Own == Cats \ Foreign

VARIABLES
    cat, order,     \* playlist_channels: playlist_category_id, sort_order
    cats, place,    \* playlist_categories: the ids, their sort_order
    nextId,         \* the sequence of playlist_channels.id
    req,            \* requests under way
    page,           \* the browser's table: its category and rows
    edits

rowsVars == <<cat, order>>
catVars  == <<cats, place>>
vars     == <<rowsVars, catVars, nextId, req, page, edits>>

Members(c) == {i \in Ids : cat[i] = c}

\* ORDER BY sort_order, id: the listing of the editor.
BeforeIn(o, i, j) == o[i] < o[j] \/ (o[i] = o[j] /\ i < j)

\* How many of S come before i.
Position(i, S, Lt(_, _)) == Cardinality({j \in S : Lt(j, i)})

At(k, S, Lt(_, _)) == CHOOSE i \in S : Position(i, S, Lt) = k

Before(i, j) == BeforeIn(order, i, j)

\* What list_category_channels shows: ORDER BY sort_order, id.
Display(c) == [k \in 1..Cardinality(Members(c)) |-> At(k - 1, Members(c), Before)]

NoPage == [cat |-> NoCat, rows |-> <<>>]

Idle == [op |-> "idle", rows |-> {}, to |-> [i \in Ids |-> NoCat],
         order |-> [i \in Ids |-> 0], make |-> {}, place |-> [c \in Cats |-> 0],
         drop |-> {}, sawCat |-> [i \in Ids |-> NoCat], sawOrder |-> [i \in Ids |-> 0],
         sawCats |-> {}, sawPlace |-> [c \in Cats |-> 0]]

\* A request as it begins, with what it reads.
Begun(op) == [Idle EXCEPT !.op = op, !.sawCat = cat, !.sawOrder = order, !.sawCats = cats,
                            !.sawPlace = place]


(***************************************************************************)
(* import_m3u_playlist made the playlist: channels numbered over the whole *)
(* file, categories as they appear in it.                                  *)
(***************************************************************************)
Init ==
    \E c \in [1..Imported -> Cats] :
      /\ cat = [i \in Ids |-> IF i <= Imported THEN c[i] ELSE NoCat]
      /\ order = [i \in Ids |-> IF i <= Imported THEN i - 1 ELSE 0]
      /\ \A i, j \in 1..Imported : Label[c[i]] = Label[c[j]] => c[i] = c[j]
      /\ cats = ToSet(c) \union Foreign
      /\ place = [k \in Cats |-> IF k \notin ToSet(c) THEN 0
                                 ELSE Cardinality(ToSet(SubSeq(c, 1, SelectInSeq(c, LAMBDA d : d = k)))) - 1]
      /\ nextId = Imported + 1
      /\ req = [r \in Reqs |-> Idle]
      /\ page = NoPage
      /\ edits = 0

Begins == edits < MaxEdits /\ edits' = edits + 1

-----------------------------------------------------------------------------
(* Inserts: import_channels, the sync's auto-import, manual channels, copies *)

\* Mutant: the next number is how many channels there are.
NextByCount(c) == Cardinality(Members(c))

\* (max(sort_order) or -1) + 1: an empty category and a highest sort_order
\* of 0 both give 0.
NextOrder(c) ==
    IF \A i \in Members(c) : order[i] = 0 THEN 0
    ELSE 1 + Max({order[i] : i \in Members(c)})

\* Mutant: categories are numbered with (max or -1) + 1 too.
NextPlaceOr(known) ==
    IF \A c \in known : place[c] = 0 THEN 0 ELSE 1 + Max({place[c] : c \in known})

\* existing_by_name_type: of the categories of one name, any one of them.
Known == {K \in SUBSET (cats \ Foreign) :
            /\ \A c \in cats \ Foreign : \E k \in K : Label[k] = Label[c]
            /\ \A k, l \in K : Label[k] = Label[l] => k = l}

\* The highest place of those, and one.
NextPlace(known) == 1 + Max({-1} \union {place[c] : c \in known})

(***************************************************************************)
(* SELECT the highest sort_order of each target, INSERT the channels.  The *)
(* mode "per_category" puts them into the categories it knows by their     *)
(* names and creates those it lacks, in the provider's order; "merge"      *)
(* creates at most its one target, if there is none of that name; the      *)
(* auto-import of a sync has its targets.                                  *)
(***************************************************************************)
InsertBegin(r, mode, ids, to, known) ==
    LET targets == {to[i] : i \in ids}
        new     == targets \ cats IN
    /\ req[r] = Idle
    /\ Begins
    /\ \A q \in Reqs : req[q].make \cap targets = {}
    /\ \A c \in new, d \in cats \ Foreign : Label[c] # Label[d]
    /\ \A c, d \in new : Label[c] = Label[d] => c = d
    /\ mode = "merge" /\ new # {} => Cardinality(targets) = 1
    /\ mode = "per_category" => targets \cap cats \subseteq known
    /\ mode = "per_category" => \A i, j \in ids : i < j => Rank[to[i]] <= Rank[to[j]]
    /\ nextId' = nextId + Cardinality(ids)
    /\ req' = [req EXCEPT ![r] =
         [Begun(mode) EXCEPT
            !.rows  = ids,
            !.to    = [i \in Ids |-> IF i \in ids THEN to[i] ELSE NoCat],
            !.order = [i \in Ids |-> IF i \notin ids THEN 0 ELSE
                         NextOrder(to[i]) + Cardinality({j \in ids : j < i /\ to[j] = to[i]})],
            !.make  = new,
            !.place = [c \in Cats |-> IF c \notin new \/ mode = "merge" THEN 0 ELSE
                         NextPlace(known) + Cardinality({d \in new : Rank[d] < Rank[c]})]]]
    /\ UNCHANGED <<rowsVars, catVars, page>>

Inserting == {"merge", "per_category"}

Ends(r) == req' = [req EXCEPT ![r] = Idle]

InsertCommit(r) ==
    /\ req[r].op \in Inserting
    /\ cat' = [i \in Ids |-> IF i \in req[r].rows THEN req[r].to[i] ELSE cat[i]]
    /\ order' = [i \in Ids |-> IF i \in req[r].rows THEN req[r].order[i] ELSE order[i]]
    /\ cats' = cats \union req[r].make
    /\ place' = [c \in Cats |-> IF c \in req[r].make THEN req[r].place[c] ELSE place[c]]
    /\ Ends(r)
    /\ UNCHANGED <<nextId, page, edits>>

\* add_manual_channel, copy_channels: sort_order is left at its default.
InsertAtDefault(c, n) ==
    LET ids == nextId..nextId + n - 1 IN
    /\ c \in cats \ Foreign
    /\ ids \subseteq Ids
    /\ Begins
    /\ nextId' = nextId + n
    /\ cat' = [i \in Ids |-> IF i \in ids THEN c ELSE cat[i]]
    /\ UNCHANGED <<order, catVars, req, page>>

AddManualChannel(c) == InsertAtDefault(c, 1)

CopyChannels(S, c) == InsertAtDefault(c, Cardinality(S))

\* create_category: sort_order 0 unless the client says otherwise, and any name,
\* also one there is already.
CreateCategory(c) ==
    /\ c \in Own \ cats
    /\ \A q \in Reqs : c \notin req[q].make
    /\ Begins
    /\ cats' = cats \union {c}
    /\ place' = [place EXCEPT ![c] = 0]
    /\ UNCHANGED <<rowsVars, nextId, req, page>>

-----------------------------------------------------------------------------
(* Moves and deletes *)

\* move_channels: the rows, of any playlist, keep their sort_order.
MoveChannels(S, c) ==
    /\ c \in cats \ Foreign
    /\ Begins
    /\ cat' = [i \in Ids |-> IF i \in S /\ cat[i] # NoCat THEN c ELSE cat[i]]
    /\ UNCHANGED <<order, catVars, nextId, req, page>>

DeleteRows(S) ==
    /\ cat' = [i \in Ids |-> IF i \in S THEN NoCat ELSE cat[i]]
    /\ order' = [i \in Ids |-> IF i \in S THEN 0 ELSE order[i]]

DeleteCats(C) ==
    /\ cats' = cats \ C
    /\ place' = [c \in Cats |-> IF c \in C THEN 0 ELSE place[c]]

\* delete_channel, and "delete" of bulk_edit_channels.
DeleteChannels(S) ==
    /\ Begins
    /\ DeleteRows(S)
    /\ UNCHANGED <<catVars, nextId, req, page>>

\* A row that is being inserted locks its category: deleting the category
\* waits for the COMMIT and then takes the row with it.
Deletable(C) == \A q \in Reqs : req[q].op \in Inserting => {req[q].to[i] : i \in req[q].rows} \cap C = {}

\* Mutant: the channels of a deleted category stay.
DeleteCategoryAlone(c) ==
    /\ c \in cats \ Foreign
    /\ Begins
    /\ DeleteCats({c})
    /\ UNCHANGED <<rowsVars, nextId, req, page>>

DeleteCategory(c) ==
    /\ c \in cats \ Foreign
    /\ Deletable({c})
    /\ Begins
    /\ DeleteCats({c})
    /\ DeleteRows(Members(c))
    /\ UNCHANGED <<nextId, req, page>>

\* merge_categories: SELECT the channels of each category given ...
MergeBegin(r, into, from) ==
    /\ req[r] = Idle
    /\ into \in cats \ Foreign
    /\ Begins
    /\ req' = [req EXCEPT ![r] =
         [Begun("merge_categories") EXCEPT
            !.rows = {i \in Ids : cat[i] \in from \ {into}},
            !.to   = [i \in Ids |-> into],
            !.drop = from \ {into}]]
    /\ UNCHANGED <<rowsVars, catVars, nextId, page>>

Dropped(r) == (req[r].drop \ Foreign) \intersect cats

Moved(r) == {i \in req[r].rows : cat[i] # NoCat}

\* Mutant: the categories' channels are deleted before the moves are flushed.
LostUnflushed(r) == {i \in Ids : req[r].sawCat[i] \in Dropped(r) \/ cat[i] \in Dropped(r)}

\* What came into the merged categories after the request looked.
Lost(r) == {i \in Ids : cat[i] \in Dropped(r)} \ Moved(r)

\* ... then UPDATE them and DELETE the categories of this playlist, with
\* whatever came into them since.
MergeCommit(r) ==
    /\ req[r].op = "merge_categories"
    /\ \A c \in {req[r].to[i] : i \in req[r].rows} : c \in cats
    /\ Deletable(Dropped(r))
    /\ cat' = [i \in Ids |-> IF i \in Lost(r) THEN NoCat
                             ELSE IF i \in Moved(r) THEN req[r].to[i] ELSE cat[i]]
    /\ order' = [i \in Ids |-> IF i \in Lost(r) THEN 0 ELSE order[i]]
    /\ DeleteCats(Dropped(r))
    /\ Ends(r)
    /\ UNCHANGED <<nextId, page, edits>>

\* A row to update or the category to move to is gone: the request may end in
\* an error and its transaction with it.
RequestFails(r) ==
    /\ req[r].op \in {"merge_categories", "sort"}
    /\ \E i \in req[r].rows : cat[i] = NoCat \/ (req[r].op = "merge_categories" /\ req[r].to[i] \notin cats)
    /\ Ends(r)
    /\ UNCHANGED <<rowsVars, catVars, nextId, page, edits>>

-----------------------------------------------------------------------------
(* Sorting and dragging *)

ByName(i, j) == NameKey[i] < NameKey[j] \/ (NameKey[i] = NameKey[j] /\ i < j)

\* Mutant: the slots are taken as the database returned them.
SlotUnsorted(i, S) == order[At(Position(i, S, ByName), S, <)]

\* sort_az_slots: the k-th by name of one category gets the k-th sort_order.
Slot(i, S) == order[At(Position(i, S, ByName), S, Before)]

\* "sort_az" of bulk_edit_channels: SELECT the channels, give out the slots.
SortBegin(r, S) ==
    /\ req[r] = Idle
    /\ Begins
    /\ \A i \in S : cat[i] # NoCat
    /\ req' = [req EXCEPT ![r] =
         [Begun("sort") EXCEPT
            !.rows  = S,
            !.order = [i \in Ids |-> IF i \in S THEN Slot(i, S \intersect Members(cat[i])) ELSE 0]]]
    /\ UNCHANGED <<rowsVars, catVars, nextId, page>>

\* Only a sort_order that differs from the one loaded is written.
SortCommit(r) ==
    /\ req[r].op = "sort"
    /\ order' = [i \in Ids |->
         IF i \in req[r].rows /\ req[r].order[i] # req[r].sawOrder[i] /\ cat[i] # NoCat
         THEN req[r].order[i] ELSE order[i]]
    /\ Ends(r)
    /\ UNCHANGED <<cat, catVars, nextId, page, edits>>

\* The browser opens a category: its first page.
OpenCategory(c) ==
    /\ page = NoPage
    /\ c \in cats \ Foreign
    /\ Members(c) # {}
    /\ page' = [cat |-> c, rows |-> SubSeq(Display(c), 1, IF Len(Display(c)) < PageSize
                                                          THEN Len(Display(c)) ELSE PageSize)]
    /\ UNCHANGED <<rowsVars, catVars, nextId, req, edits>>

\* It scrolls: OFFSET what it has, LIMIT a page.
NextPage ==
    LET shown == Display(page.cat)
        upto  == Len(page.rows) + PageSize IN
    /\ page # NoPage
    /\ Len(page.rows) < Len(shown)
    /\ page' = [page EXCEPT !.rows =
         @ \o SubSeq(shown, Len(@) + 1, IF Len(shown) < upto THEN Len(shown) ELSE upto)]
    /\ UNCHANGED <<rowsVars, catVars, nextId, req, edits>>

LeavePage ==
    /\ page # NoPage
    /\ page' = NoPage
    /\ UNCHANGED <<rowsVars, catVars, nextId, req, edits>>

\* What a sequence has of a set, in its order.
Keep(s, S) ==
    LET places == {k \in DOMAIN s : s[k] \in S}
    IN [n \in 1..Cardinality(places) |-> s[At(n - 1, places, <)]]

\* reorderBlock: the dragged row, or the selection it is part of, goes before
\* the row it is dropped on; dropped on itself, to the end.
ReorderBlock(rows, selected, active, over) ==
    LET moving == IF active \in selected /\ Cardinality(selected) > 1 THEN selected ELSE {active}
        block  == IF moving = {active} THEN <<active>> ELSE Keep(rows, moving)
        rest   == Keep(rows, ToSet(rows) \ moving)
        at     == SelectInSeq(rest, LAMBDA i : i = over)
    IN IF at = 0 THEN rest \o block
       ELSE SubSeq(rest, 1, at - 1) \o block \o SubSeq(rest, at, Len(rest))

\* Mutant: numbered from 1.
RenumberFromOne(items, i) == Max({k \in DOMAIN items : items[k] = i})

\* The index the browser gives a row; of a row listed twice the last one counts.
Renumber(items, i) == Max({k \in DOMAIN items : items[k] = i}) - 1

\* reorder_channels with the whole of what is loaded, renumbered from 0; the
\* browser then loads the page anew.
Drag(selected, active, over) ==
    LET items == ReorderBlock(page.rows, selected, active, over) IN
    /\ {active, over} \union selected \subseteq ToSet(page.rows)
    /\ active # over
    /\ page.cat \in cats
    /\ Begins
    /\ order' = [i \in Ids |->
         IF i \in ToSet(items) /\ cat[i] = page.cat THEN Renumber(items, i) ELSE order[i]]
    /\ page' = NoPage
    /\ UNCHANGED <<cat, catVars, nextId, req>>

\* reorder_categories, with the categories as the browser shows them dragged.
DragCategories(items) ==
    /\ Begins
    /\ place' = [c \in Cats |-> IF c \in cats \ Foreign
                                THEN (CHOOSE k \in DOMAIN items : items[k] = c) - 1 ELSE place[c]]
    /\ UNCHANGED <<rowsVars, cats, nextId, req, page>>

-----------------------------------------------------------------------------
NewIds == {nextId..n : n \in nextId..MaxId}

Insert ==
    \/ \E r \in Reqs, mode \in Inserting, ids \in NewIds : \E to \in [ids -> Own] :
         \E known \in Known : InsertBegin(r, mode, ids, to, known)
    \/ \E r \in Reqs : InsertCommit(r)
    \/ \E c \in Own : AddManualChannel(c) \/ CreateCategory(c)
    \/ \E c \in Own, S \in SUBSET {i \in Ids : cat[i] # NoCat} : S # {} /\ CopyChannels(S, c)

Present == {i \in Ids : cat[i] # NoCat}

MoveOrDelete ==
    \/ \E c \in Own, S \in SUBSET Present : S # {} /\ MoveChannels(S, c)
    \/ \E S \in SUBSET Present : S # {} /\ DeleteChannels(S)
    \/ \E c \in Own : DeleteCategory(c)
    \/ \E r \in Reqs, c \in Own, from \in SUBSET cats : from # {} /\ MergeBegin(r, c, from)
    \/ \E r \in Reqs : MergeCommit(r) \/ RequestFails(r)

Rearrange ==
    \/ \E r \in Reqs, S \in SUBSET Present : Cardinality(S) > 1 /\ SortBegin(r, S)
    \/ \E r \in Reqs : SortCommit(r)
    \/ \E c \in Own : OpenCategory(c)
    \/ NextPage \/ LeavePage
    \/ \E S \in SUBSET ToSet(page.rows), i, j \in ToSet(page.rows) : Drag(S, i, j)
    \/ \E items \in SetToSeqs(cats \ Foreign) : DragCategories(items)

Next == Insert \/ MoveOrDelete \/ Rearrange

Spec == Init /\ [][Next]_vars

-----------------------------------------------------------------------------
(* Type and integrity: every channel is in a category that is there or about
   to be deleted with it, ids are never used twice, and a request only holds
   what was in the tables. *)
TypeOK ==
    /\ cat \in [Ids -> Cats \union {NoCat}] /\ order \in [Ids -> Nat]
    /\ cats \subseteq Cats /\ place \in [Cats -> Nat]
    /\ \A i \in Ids : cat[i] # NoCat => cat[i] \in cats /\ i < nextId
    /\ nextId \in 1..MaxId + 1 /\ edits \in 0..MaxEdits
    /\ \A r \in Reqs :
         /\ req[r].op \in Inserting \union {"idle", "merge_categories", "sort"}
         /\ req[r].rows \subseteq 1..nextId - 1
         /\ req[r].order \in [Ids -> Nat]
    /\ page.cat \in Own \union {NoCat} /\ ToSet(page.rows) \subseteq 1..nextId - 1

(* What an import or a sync adds to a category comes after every channel that
   was there when it counted and has kept its number since, though it counts in
   one statement and inserts in others: by its number in what players get, but
   that (max or -1) + 1 gives 0 again where all numbers are 0, and in the editor's
   listing in any case. *)
NewChannelsComeLast ==
    [][\A r \in Reqs : InsertCommit(r) =>
         \A n \in req[r].rows, i \in Ids \ req[r].rows :
           /\ cat[i] = req[r].to[n] /\ req[r].sawCat[i] = cat[i]
           /\ req[r].sawOrder[i] = order[i]
           => /\ order'[i] < order'[n] \/ (order'[i] = 0 /\ order'[n] = 0)
              /\ BeforeIn(order', i, n)]_vars

\* No other of these categories has its name.
OnlyOne(e, S) == \A d \in S \ Foreign : Label[d] = Label[e] => d = e

(* A per-category import keeps "the provider's own name and relative order":
   the categories it makes come in the provider's order, and after those that
   were there, whatever is dragged or deleted meanwhile.  A category that shares
   its name with another may be missed when the places are counted. *)
NewCategoriesComeLast ==
    [][\A r \in Reqs : InsertCommit(r) /\ req[r].op = "per_category" =>
         \A c, d \in req[r].make, e \in (req[r].sawCats \cap cats) \ Foreign :
           /\ Rank[c] < Rank[d] => place'[c] < place'[d]
           /\ OnlyOne(e, req[r].sawCats) /\ place[e] = req[r].sawPlace[e]
                => place'[e] < place'[c]]_vars

DistinctOrders(c) == \A i, j \in Members(c) : i # j => order[i] # order[j]

(* "renumbering just that prefix 0..N-1 can never collide with an unloaded
   channel further down": if what the browser has loaded is the head of a
   category without ties, a drag shows it as dropped and leaves the rest of
   the category where it was. *)
DragMovesOnlyLoaded ==
    [][page # NoPage /\ page' = NoPage /\ edits' # edits =>
       \A c \in Own, S \in SUBSET ToSet(page.rows), i, j \in ToSet(page.rows) :
         /\ Drag(S, i, j)
         /\ page.cat = c
         /\ DistinctOrders(c)
         /\ IsPrefix(page.rows, Display(c))
         => Display(c)' = ReorderBlock(page.rows, S, i, j) \o
                            SubSeq(Display(c), Len(page.rows) + 1, Len(Display(c)))]_vars

\* The channels of c that a sort was asked for.
SortedIn(r, c) == {i \in req[r].rows : req[r].sawCat[i] = c}

(* "the selected channels take the places they already hold, in name order -
   the channels around them don't move": so they do, in a category without
   ties, unless their own places changed while the request ran. *)
SortStaysInPlace ==
    [][\A r \in Reqs, c \in Own :
         /\ SortCommit(r) /\ c \in cats
         /\ \A i \in SortedIn(r, c) : cat[i] = c /\ order[i] = req[r].sawOrder[i]
         /\ req[r].rows \cap Members(c) \subseteq SortedIn(r, c)
         /\ DistinctOrders(c)
         => /\ \A k \in DOMAIN Display(c) :
                 Display(c)[k] \notin SortedIn(r, c) => Display(c)'[k] = Display(c)[k]
            /\ \A j, k \in DOMAIN Display(c)' :
                 j < k /\ {Display(c)'[j], Display(c)'[k]} \subseteq SortedIn(r, c)
                   => ByName(Display(c)'[j], Display(c)'[k])]_vars

(* A channel disappears only if it was named in a delete, its category was
   deleted, or it came into a merged category after the merge had looked; a
   merge keeps every channel it saw, in the target. *)
MergeKeepsWhatItSaw ==
    [][\A r \in Reqs : MergeCommit(r) => \A i \in Ids :
         /\ cat[i] # NoCat /\ cat'[i] = NoCat => req[r].sawCat[i] # cat[i]
         /\ req[r].sawCat[i] \in req[r].drop /\ cat[i] # NoCat => cat'[i] \in cats' \ req[r].drop]_vars
=============================================================================
