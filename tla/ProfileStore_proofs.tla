------------------------ MODULE ProfileStore_proofs ------------------------
(***************************************************************************)
(* For every number of TVs, items, requests, clears and faults: the type   *)
(* invariant of ProfileStore, that a write loses nothing of the row it was *)
(* merged from, and that the store implements ProfileRegister.             *)
(***************************************************************************)
EXTENDS ProfileStore, TLAPS

-----------------------------------------------------------------------------
(* The inductive invariant *)

\* The committed row, and the ids handed out so far; a clear is after a row.
RowInv ==
    /\ profile.id <= lastId
    /\ 0 \notin clearing
    /\ profile.id = 0 <=> profile.revision = 0
    /\ profile.id = 0 => profile.data = {}

\* The uncommitted write holds the row at the revision it was based on.
WriterInv ==
    \A c \in Conns :
        req[c].step = "written" => writer = c /\ profile.revision = req[c].base

\* (row, base) names a revision that was current once: it is not ahead of the
\* row it belongs to.
Past(row, base) ==
    /\ row <= lastId
    /\ row = 0 <=> base = 0
    /\ row = profile.id => base <= profile.revision

\* Whoever is at the current revision of the current row has seen its data.
SeenInv ==
    \A t \in TVs :
        /\ Past(tv[t].row, tv[t].base)
        /\ tv[t].row = 0 => tv[t].seen = {}
        /\ tv[t].seen \subseteq tv[t].local
        /\ tv[t].row = profile.id /\ tv[t].base = profile.revision
              => tv[t].seen = profile.data

\* A write in progress contains what it was merged from.
BasisInv ==
    \A c \in Conns : req[c].step \in {"execute", "written"} =>
        /\ Past(req[c].row, req[c].base)
        /\ req[c].row = profile.id /\ req[c].base = profile.revision
              => profile.data \subseteq req[c].data

\* An answer names a revision that was current once, and its data.
AnswerInv ==
    \A c \in Conns : req[c].step = "stored" =>
        /\ Past(req[c].row, req[c].revision)
        /\ req[c].row # 0
        /\ req[c].row = profile.id /\ req[c].revision = profile.revision
              => req[c].data = profile.data

\* A request belongs to the one TV that waits for it, if any, and what was
\* sent is still on that TV.
WaitInv ==
    \A t \in TVs, c \in Conns : tv[t].waits = c =>
        /\ req[c].step # "idle"
        /\ req[c].data \subseteq tv[t].local
        /\ \A u \in TVs : u # t => tv[u].waits # c

\* Until the first clear there is at most one row, and it has everything.
HistoryInv ==
    clears = 0 => lastId <= 1 /\ profile.id = lastId /\ durable \subseteq profile.data

IInv ==
    /\ TypeOK
    /\ RowInv
    /\ WriterInv
    /\ SeenInv
    /\ BasisInv
    /\ AnswerInv
    /\ WaitInv
    /\ HistoryInv

-----------------------------------------------------------------------------
(* Type correctness *)

\* Every step of the program keeps the variables in their types.
LEMMA TypeStep == TypeOK /\ [Next]_vars => TypeOK'
<1> SUFFICES ASSUME TypeOK, [Next]_vars PROVE TypeOK'
  OBVIOUS
<1> USE ProfileAssumptions
        DEF TypeOK, Profiles, Requests, Players, Steps, Idle, NoRow
<1>1. ASSUME NEW t \in TVs, NEW i \in Items, Change(t, i) PROVE TypeOK'
  BY <1>1 DEF Change
<1>2. ASSUME NEW t \in TVs, Fetch(t) PROVE TypeOK'
  BY <1>2 DEF Fetch
<1>3. ASSUME NEW t \in TVs, NEW c \in Conns, Put(t, c) PROVE TypeOK'
  BY <1>3 DEF Put
<1>4. ASSUME NEW t \in TVs, GiveUp(t) PROVE TypeOK'
  BY <1>4 DEF GiveUp
<1>5. ASSUME NEW t \in TVs, Receive(t) PROVE TypeOK'
  <2>1. tv[t].waits \in Conns /\ tv[t] \in Players /\ req[tv[t].waits] \in Requests
    BY <1>5 DEF Receive
  <2>2. req' \in [Conns -> Requests]
    BY <1>5 DEF Receive
  <2>3. PICK r \in Players : tv' = [tv EXCEPT ![t] = r]
    <3>1. CASE req[tv[t].waits].step = "stored"
      <4> DEFINE r == [local |-> tv[t].local, base |-> req[tv[t].waits].revision,
                       seen |-> req[tv[t].waits].data, row |-> req[tv[t].waits].row,
                       stale |-> tv[t].stale, waits |-> NoConn]
      <4>1. tv' = [tv EXCEPT ![t] = r]
        BY <1>5, <3>1 DEF Receive
      <4>2. r \in Players
        BY <2>1
      <4> QED
        BY <4>1, <4>2
    <3>2. CASE req[tv[t].waits].step = "conflict"
      <4> DEFINE r == [local |-> tv[t].local, base |-> tv[t].base,
                       seen |-> tv[t].seen, row |-> tv[t].row,
                       stale |-> TRUE, waits |-> NoConn]
      <4>1. tv' = [tv EXCEPT ![t] = r]
        BY <1>5, <3>2 DEF Receive
      <4>2. r \in Players
        BY <2>1
      <4> QED
        BY <4>1, <4>2
    <3> QED
      BY <1>5, <3>1, <3>2 DEF Receive
  <2> QED
    BY <1>5, <2>2, <2>3 DEF Receive
<1>6. ASSUME NEW c \in Conns, InsertRow(c) PROVE TypeOK'
  BY <1>6 DEF InsertRow, Hold, Refuse
<1>7. ASSUME NEW c \in Conns, UpdateRow(c) PROVE TypeOK'
  BY <1>7 DEF UpdateRow, Hold, Refuse
<1>8. ASSUME NEW c \in Conns, Commit(c) PROVE TypeOK'
  BY <1>8 DEF Commit
<1>9. ASSUME NEW c \in Conns, Reread(c) PROVE TypeOK'
  BY <1>9 DEF Reread
<1>10. ASSUME NEW c \in Conns, Abort(c) PROVE TypeOK'
  <2>1. \A t \in TVs : [tv[t] EXCEPT !.waits = NoConn] \in Players
    OBVIOUS
  <2>2. tv' \in [TVs -> Players]
    <3>1. tv' = [t \in TVs |-> IF tv[t].waits = c
                               THEN [tv[t] EXCEPT !.waits = NoConn] ELSE tv[t]]
      BY <1>10 DEF Abort
    <3>2. \A t \in TVs : tv[t] \in Players
      OBVIOUS
    <3> HIDE DEF Players
    <3> QED
      BY <2>1, <3>1, <3>2
  <2>3. req' \in [Conns -> Requests]
    BY <1>10 DEF Abort
  <2>4. writer' \in Conns \union {NoConn} /\ faults' \in Nat
    BY <1>10 DEF Abort
  <2>5. UNCHANGED <<profile, lastId, clearing, clears, durable>>
    BY <1>10 DEF Abort
  <2> HIDE DEF Players, Requests
  <2> QED
    BY <2>2, <2>3, <2>4, <2>5
<1>11. ASSUME NEW c \in Conns, Drop(c) PROVE TypeOK'
  BY <1>11 DEF Drop
<1>12. CASE ClearRead
  BY <1>12 DEF ClearRead
<1>13. ASSUME NEW id \in clearing, ClearDelete(id) PROVE TypeOK'
  BY <1>13 DEF ClearDelete
<1>14. CASE UNCHANGED vars
  BY <1>14 DEF vars
<1> QED
  BY <1>1, <1>2, <1>3, <1>4, <1>5, <1>6, <1>7, <1>8, <1>9, <1>10, <1>11,
     <1>12, <1>13, <1>14 DEF Next, Player, Server

\* Every variable of ProfileStore keeps its type, in every reachable state.
THEOREM TypeCorrect == Spec => []TypeOK
<1>1. Init => TypeOK
  BY ProfileAssumptions
     DEF Init, TypeOK, Profiles, Requests, Players, Steps, Idle, NoRow, NewTV
<1> QED
  BY <1>1, TypeStep, PTL DEF Spec

-----------------------------------------------------------------------------
(* The inductive step *)

\* Before the first clear, a write about to commit was merged from the row it
\* is going to replace.
LEMMA OneRow ==
    ASSUME IInv, clears = 0, NEW c \in Conns, req[c].step = "written"
    PROVE  /\ req[c].row = profile.id
           /\ req[c].base # 0 => profile.id = 1 /\ lastId = 1
<1>1. /\ profile.id \in Nat /\ lastId \in Nat /\ req[c].row \in Nat
      /\ lastId <= 1 /\ profile.id = lastId
  BY DEF IInv, TypeOK, Profiles, Requests, HistoryInv
<1>2. /\ profile.revision = req[c].base
      /\ profile.id = 0 <=> profile.revision = 0
      /\ req[c].row = 0 <=> req[c].base = 0
      /\ req[c].row <= lastId
  BY DEF IInv, RowInv, WriterInv, BasisInv, Past
<1> QED
  BY <1>1, <1>2

\* Every step of the program preserves the inductive invariant.
LEMMA InvStep == IInv /\ [Next]_vars => IInv'
<1> SUFFICES ASSUME IInv, [Next]_vars PROVE IInv'
  OBVIOUS
<1> DEFINE Rest == RowInv /\ WriterInv /\ SeenInv /\ BasisInv /\ AnswerInv
                     /\ WaitInv /\ HistoryInv
<1> USE ProfileAssumptions
<1>0. TypeOK /\ TypeOK'
  BY TypeStep DEF IInv
<1> USE DEF IInv, RowInv, WriterInv, Past, SeenInv, BasisInv, AnswerInv, WaitInv,
            HistoryInv, TypeOK, Profiles, Requests, Players, Idle, NoRow
<1>1. ASSUME NEW t \in TVs, NEW i \in Items, Change(t, i) PROVE Rest'
  BY <1>0, <1>1 DEF Change
<1>2. ASSUME NEW t \in TVs, Fetch(t) PROVE Rest'
  BY <1>0, <1>2 DEF Fetch
<1>3. ASSUME NEW t \in TVs, NEW c \in Conns, Put(t, c) PROVE Rest'
  <2>1. UNCHANGED <<profile, lastId, writer, clearing, clears, durable>>
    BY <1>3 DEF Put
  <2>2. \A d \in Conns : d # c => req'[d] = req[d]
    BY <1>0, <1>3 DEF Put
  <2>3. /\ req[c].step = "idle"
        /\ req'[c].step = "execute" /\ req'[c].base = tv[t].base
        /\ req'[c].row = tv[t].row /\ req'[c].data = tv[t].local
    BY <1>0, <1>3 DEF Put
  <2>4. \A u \in TVs : /\ tv'[u].base = tv[u].base /\ tv'[u].row = tv[u].row
                        /\ tv'[u].seen = tv[u].seen /\ tv'[u].local = tv[u].local
                        /\ tv'[u].waits = IF u = t THEN c ELSE tv[u].waits
    BY <1>0, <1>3 DEF Put
  <2>20. RowInv'
    BY <1>0, <2>1, <2>2, <2>3, <2>4
  <2>21. WriterInv'
    BY <1>0, <2>1, <2>2, <2>3, <2>4
  <2>22. SeenInv'
    BY <1>0, <2>1, <2>2, <2>3, <2>4
  <2>23. BasisInv'
    BY SMTT(20), <1>0, <2>1, <2>2, <2>3, <2>4
  <2>24. AnswerInv'
    BY <1>0, <2>1, <2>2, <2>3, <2>4
  <2>25. WaitInv'
    BY <1>0, <2>1, <2>2, <2>3, <2>4
  <2>26. HistoryInv'
    BY <1>0, <2>1, <2>2, <2>3, <2>4
  <2> QED
    BY <2>20, <2>21, <2>22, <2>23, <2>24, <2>25, <2>26
<1>4. ASSUME NEW t \in TVs, GiveUp(t) PROVE Rest'
  BY <1>0, <1>4 DEF GiveUp
<1>5. ASSUME NEW t \in TVs, Receive(t) PROVE Rest'
  <2> DEFINE c == tv[t].waits
  <2>1. UNCHANGED <<profile, lastId, writer, clearing, clears, durable>>
    BY <1>5 DEF Receive
  <2>2. c \in Conns /\ c # NoConn /\ req[c].step \in {"stored", "conflict"}
    BY <1>0, <1>5 DEF Receive
  <2>3. \A d \in Conns : req'[d] = IF d = c THEN Idle ELSE req[d]
    BY <1>0, <1>5 DEF Receive
  <2>4. \A u \in TVs : u # t => tv'[u] = tv[u]
    BY <1>0, <1>5 DEF Receive
  <2>5. tv'[t].local = tv[t].local /\ tv'[t].waits = NoConn
    BY <1>0, <1>5 DEF Receive
  <2>6. \/ /\ req[c].step = "stored" /\ tv'[t].base = req[c].revision
           /\ tv'[t].row = req[c].row /\ tv'[t].seen = req[c].data
        \/ /\ tv'[t].base = tv[t].base
           /\ tv'[t].row = tv[t].row /\ tv'[t].seen = tv[t].seen
    BY <1>0, <1>5 DEF Receive
  <2>7. req[c].data \subseteq tv[t].local
    BY <2>2
  <2> HIDE DEF c
  <2>20. RowInv'
    BY <1>0, <2>1, <2>2, <2>3, <2>4, <2>5
  <2>21. WriterInv'
    BY <1>0, <2>1, <2>2, <2>3, <2>4, <2>5
  <2>22. SeenInv'
    BY <1>0, <2>1, <2>2, <2>4, <2>5, <2>6, <2>7
  <2>23. BasisInv'
    BY <1>0, <2>1, <2>2, <2>3, <2>4, <2>5
  <2>24. AnswerInv'
    BY <1>0, <2>1, <2>2, <2>3, <2>4, <2>5
  <2>25. WaitInv'
    <3>1. \A u \in TVs : u # t => tv[u].waits # c
      BY <2>2 DEF c
    <3>2. \A u \in TVs, d \in Conns :
             tv'[u].waits = d => u # t /\ d # c /\ tv[u].waits = d /\ req'[d] = req[d]
      BY <1>0, <2>2, <2>3, <2>4, <2>5, <3>1
    <3> QED
      BY <1>0, <2>4, <2>5, <3>2
  <2>26. HistoryInv'
    BY <1>0, <2>1, <2>2, <2>3, <2>4, <2>5
  <2> QED
    BY <2>20, <2>21, <2>22, <2>23, <2>24, <2>25, <2>26
<1>6. ASSUME NEW c \in Conns, InsertRow(c) PROVE Rest'
  <2>1. UNCHANGED <<profile, lastId, tv, clearing, clears, durable>>
    BY <1>6 DEF InsertRow
  <2>2. /\ req[c].step = "execute" /\ req[c].base = 0
        /\ \A d \in Conns : d # c => req'[d] = req[d]
        /\ req'[c].base = req[c].base /\ req'[c].row = req[c].row
        /\ req'[c].data = req[c].data /\ req'[c].step # "idle"
        /\ req'[c].step # "stored"
    BY <1>0, <1>6 DEF InsertRow, Hold, Refuse
  <2>3. \/ /\ profile.revision = 0 /\ writer = NoConn /\ writer' = c
        \/ writer' = writer /\ req'[c].step = "refused"
    BY <1>0, <1>6 DEF InsertRow, Hold, Refuse
  <2>20. RowInv'
    BY <1>0, <2>1, <2>2, <2>3
  <2>21. WriterInv'
    BY <1>0, <2>1, <2>2, <2>3
  <2>22. SeenInv'
    BY <1>0, <2>1, <2>2, <2>3
  <2>23. BasisInv'
    BY <1>0, <2>1, <2>2, <2>3
  <2>24. AnswerInv'
    BY <1>0, <2>1, <2>2, <2>3
  <2>25. WaitInv'
    BY <1>0, <2>1, <2>2, <2>3
  <2>26. HistoryInv'
    BY <1>0, <2>1, <2>2, <2>3
  <2> QED
    BY <2>20, <2>21, <2>22, <2>23, <2>24, <2>25, <2>26
<1>7. ASSUME NEW c \in Conns, UpdateRow(c) PROVE Rest'
  BY SMTT(20), <1>0, <1>7 DEF UpdateRow, Hold, Refuse
<1>8. ASSUME NEW c \in Conns, Commit(c) PROVE Rest'
  <2> DEFINE id == IF req[c].base = 0 THEN lastId + 1 ELSE profile.id
  <2>1. UNCHANGED <<tv, clearing, clears>> /\ writer' = NoConn
    BY <1>8 DEF Commit
  <2>2. /\ profile'.id = id /\ profile'.revision = req[c].base + 1
        /\ profile'.data = req[c].data
        /\ lastId' = IF req[c].base = 0 THEN id ELSE lastId
        /\ durable' = durable \union req[c].data
    BY <1>8 DEF Commit
  <2>3. /\ req[c].step = "written" /\ writer = c /\ profile.revision = req[c].base
        /\ Past(req[c].row, req[c].base)
        /\ req[c].row = profile.id => profile.data \subseteq req[c].data
    BY <1>8 DEF Commit
  <2>4. /\ req'[c].step = "stored" /\ req'[c].row = id
        /\ req'[c].revision = req[c].base + 1 /\ req'[c].data = req[c].data
        /\ \A d \in Conns : d # c => req'[d] = req[d]
    BY <1>0, <1>8 DEF Commit
  <2>5. \A d \in Conns : d # c => req[d].step # "written"
    BY <2>3
  <2>20. RowInv'
    BY <1>0, <2>1, <2>2, <2>3, <2>4, <2>5
  <2>21. WriterInv'
    BY <1>0, <2>1, <2>2, <2>3, <2>4, <2>5
  <2>22. SeenInv'
    BY <1>0, <2>1, <2>2, <2>3, <2>4, <2>5
  <2>23. BasisInv'
    BY <1>0, <2>1, <2>2, <2>3, <2>4, <2>5
  <2>24. AnswerInv'
    BY <1>0, <2>1, <2>2, <2>3, <2>4, <2>5
  <2>25. WaitInv'
    BY <1>0, <2>1, <2>2, <2>3, <2>4, <2>5
  <2>26. HistoryInv'
    <3> SUFFICES ASSUME clears = 0
                 PROVE  lastId' <= 1 /\ profile'.id = lastId' /\ durable' \subseteq profile'.data
      BY <2>1
    <3>1. CASE req[c].base = 0
      <4>1. profile.id = 0 /\ lastId = 0 /\ durable = {}
        BY <1>0, <2>3, <3>1
      <4>2. id = 1
        BY <3>1, <4>1
      <4>3. lastId' = 1 /\ profile'.id = 1
        BY <2>2, <3>1, <4>2
      <4>4. durable' = req[c].data /\ profile'.data = req[c].data
        BY <2>2, <4>1
      <4> HIDE DEF id
      <4> QED
        BY <4>3, <4>4
    <3>2. CASE req[c].base # 0
      <4>1. profile.id = 1 /\ lastId = 1 /\ req[c].row = 1
        BY <2>3, <3>2, OneRow
      <4> QED
        BY <2>2, <2>3, <3>2, <4>1
    <3> QED
      BY <3>1, <3>2
  <2> QED
    BY <2>20, <2>21, <2>22, <2>23, <2>24, <2>25, <2>26
<1>9. ASSUME NEW c \in Conns, Reread(c) PROVE Rest'
  BY <1>0, <1>9 DEF Reread
<1>10. ASSUME NEW c \in Conns, Abort(c) PROVE Rest'
  BY <1>0, <1>10 DEF Abort
<1>11. ASSUME NEW c \in Conns, Drop(c) PROVE Rest'
  <2>1. UNCHANGED <<profile, lastId, writer, tv, clearing, clears, durable>>
    BY <1>11 DEF Drop
  <2>2. \A d \in Conns : req'[d] = IF d = c THEN Idle ELSE req[d]
    BY <1>0, <1>11 DEF Drop
  <2>3. \A t \in TVs : tv[t].waits # c
    BY <1>11 DEF Drop, Awaited
  <2>20. RowInv'
    BY <1>0, <2>1, <2>2, <2>3
  <2>21. WriterInv'
    BY <1>0, <2>1, <2>2, <2>3
  <2>22. SeenInv'
    BY <1>0, <2>1, <2>2, <2>3
  <2>23. BasisInv'
    BY <1>0, <2>1, <2>2, <2>3
  <2>24. AnswerInv'
    BY <1>0, <2>1, <2>2, <2>3
  <2>25. WaitInv'
    BY <1>0, <2>1, <2>2, <2>3
  <2>26. HistoryInv'
    BY <1>0, <2>1, <2>2, <2>3
  <2> QED
    BY <2>20, <2>21, <2>22, <2>23, <2>24, <2>25, <2>26
<1>12. ASSUME ClearRead PROVE Rest'
  BY <1>0, <1>12 DEF ClearRead
<1>13. ASSUME NEW id \in clearing, ClearDelete(id) PROVE Rest'
  <2>1. UNCHANGED <<lastId, writer, req, tv>> /\ clearing' = clearing \ {id}
    BY <1>13 DEF ClearDelete
  <2>2. CASE UNCHANGED <<profile, durable, clears>>
    BY <1>0, <2>1, <2>2
  <2>3. CASE /\ profile.id = id /\ writer = NoConn /\ profile' = NoRow
             /\ durable' = {} /\ clears' = clears + 1
    <3>1. \A c \in Conns : req[c].step # "written"
      BY <2>3
    <3>2. profile'.id = 0 /\ profile'.revision = 0 /\ profile'.data = {}
      BY <2>3
    <3> QED
      BY <1>0, <2>1, <2>3, <3>1, <3>2
  <2> QED
    BY <1>13, <2>2, <2>3 DEF ClearDelete
<1>14. ASSUME UNCHANGED vars PROVE Rest'
  BY <1>0, <1>14 DEF vars
<1> QED
  BY <1>0, <1>1, <1>2, <1>3, <1>4, <1>5, <1>6, <1>7, <1>8, <1>9, <1>10, <1>11,
     <1>12, <1>13, <1>14 DEF Next, Player, Server

-----------------------------------------------------------------------------
(* The theorems *)

\* IInv holds in every reachable state.
THEOREM Invariance == Spec => []IInv
<1>1. Init => IInv
  <2> SUFFICES ASSUME Init PROVE IInv
    OBVIOUS
  <2>1. TypeOK
    BY ProfileAssumptions
       DEF Init, TypeOK, Profiles, Requests, Players, Steps, Idle, NoRow, NewTV
  <2> QED
    BY <2>1, ProfileAssumptions
       DEF Init, IInv, RowInv, WriterInv, Past, SeenInv, BasisInv, AnswerInv,
           WaitInv, HistoryInv, Idle, NoRow, NewTV
<1> QED
  BY <1>1, InvStep, PTL DEF Spec

\* Until an administrator clears the profile, nothing a TV's accepted write
\* put there is lost (README.md, models/xc_user.py).
THEOREM NoLossBeforeClear == Spec => []NothingLostBeforeClear
<1>1. IInv => NothingLostBeforeClear
  BY DEF IInv, HistoryInv, NothingLostBeforeClear, NothingLost
<1> QED
  BY <1>1, Invariance, PTL

\* A player that believes it is at the current revision of the current row has
\* exactly that row's data: revisions of one row are never reused.
THEOREM AgreementOnRevision == Spec => []TVsAgreeOnRevision
<1>1. IInv => TVsAgreeOnRevision
  BY DEF IInv, SeenInv, TVsAgreeOnRevision
<1> QED
  BY <1>1, Invariance, PTL

\* What one step does to the profile.
LEMMA ProfileStep ==
    ASSUME IInv, [Next]_vars
    PROVE  \/ UNCHANGED <<profile, clears>>
           \/ profile' = NoRow /\ clears' = clears + 1 /\ profile.id \in clearing
           \/ \E c \in Conns :
                 /\ Commit(c)
                 /\ writer = c
                 /\ UNCHANGED clears
                 /\ profile'.revision = profile.revision + 1
                 /\ profile'.data = req[c].data
                 /\ req'[c].step = "stored"
                 /\ req[c].row = profile.id => profile.data \subseteq profile'.data
                 /\ clears = 0 => req[c].row = profile.id
<1>1. ASSUME NEW c \in Conns, Commit(c)
      PROVE  /\ writer = c
             /\ UNCHANGED clears
             /\ profile'.revision = profile.revision + 1
             /\ profile'.data = req[c].data
             /\ req'[c].step = "stored"
             /\ req[c].row = profile.id => profile.data \subseteq profile'.data
             /\ clears = 0 => req[c].row = profile.id
  <2>1. writer = c /\ profile.revision = req[c].base
    BY <1>1 DEF IInv, WriterInv, Commit
  <2>2. req[c].row = profile.id => profile.data \subseteq req[c].data
    BY <1>1, <2>1 DEF IInv, BasisInv, Commit
  <2>3. req'[c].step = "stored"
    BY <1>1 DEF Commit, IInv, TypeOK
  <2>4. clears = 0 => req[c].row = profile.id
    BY <1>1, OneRow DEF Commit
  <2> QED
    BY <1>1, <2>1, <2>2, <2>3, <2>4 DEF Commit
<1>2. ASSUME NEW id \in clearing, ClearDelete(id)
      PROVE  \/ UNCHANGED <<profile, clears>>
             \/ profile' = NoRow /\ clears' = clears + 1 /\ profile.id \in clearing
  BY <1>2 DEF ClearDelete
<1>3. ASSUME NEW t \in TVs, Player(t) PROVE UNCHANGED <<profile, clears>>
  BY <1>3 DEF Player, Change, Fetch, Put, GiveUp, Receive
<1>4. ASSUME NEW c \in Conns,
             InsertRow(c) \/ UpdateRow(c) \/ Reread(c) \/ Abort(c) \/ Drop(c)
      PROVE  UNCHANGED <<profile, clears>>
  BY <1>4 DEF InsertRow, UpdateRow, Reread, Abort, Drop
<1>5. CASE ClearRead
  BY <1>5 DEF ClearRead
<1>6. CASE UNCHANGED vars
  BY <1>6 DEF vars
<1> QED
  BY <1>1, <1>2, <1>3, <1>4, <1>5, <1>6 DEF Next, Server

\* The compare-and-set of write() never loses anything of the row the player
\* merged from; only a write merged from a row cleared since can.
THEOREM LossNeedsClear == Spec => LossOnlyAcrossClear
<1>1. IInv /\ [Next]_vars =>
        [ \/ profile.data \subseteq profile'.data
          \/ profile' = NoRow
          \/ \E c \in Conns :
                writer = c /\ req'[c].step = "stored" /\ req[c].row # profile.id ]_vars
  BY ProfileStep
<1> QED
  BY <1>1, Invariance, PTL DEF Spec, LossOnlyAcrossClear

\* ProfileStore implements the register it promises to be.
THEOREM Refinement == Spec => ImplementsRegister
<1>1. Init => Register!Init
  BY DEF Init, Register!Init, NoRow
<1>2. IInv /\ [Next]_vars => [Register!Next]_(Register!vars)
  <2> SUFFICES ASSUME IInv, [Next]_vars
               PROVE  Register!Next \/ UNCHANGED Register!vars
    OBVIOUS
  <2>1. TypeOK /\ TypeOK'
    BY TypeStep DEF IInv
  <2>2. CASE UNCHANGED <<profile, clears>>
    BY <2>2 DEF Register!vars
  <2>3. CASE profile' = NoRow /\ clears' = clears + 1 /\ profile.id \in clearing
    <3>1. profile.revision > 0
      BY <2>1, <2>3 DEF TypeOK, Profiles, IInv, RowInv
    <3> QED
      BY <2>1, <2>3, <3>1 DEF Register!Next, Register!Clear, NoRow, TypeOK
  <2>4. ASSUME NEW c \in Conns, Commit(c), UNCHANGED clears,
               profile'.revision = profile.revision + 1,
               profile'.data = req[c].data,
               req[c].row = profile.id => profile.data \subseteq profile'.data,
               clears = 0 => req[c].row = profile.id
        PROVE  Register!Next
    <3>1. req[c].data \in SUBSET Items
      BY <2>1 DEF TypeOK, Requests
    <3>2. clears > 0 \/ profile.data \subseteq req[c].data
      BY <2>1, <2>4 DEF TypeOK
    <3> QED
      BY <2>4, <3>1, <3>2 DEF Register!Next, Register!Write
  <2> QED
    BY <2>2, <2>3, <2>4, ProfileStep
<1> QED
  BY <1>1, <1>2, Invariance, PTL DEF Spec, ImplementsRegister, Register!Spec
=============================================================================
