----------------------------- MODULE Guide_proofs -----------------------------
(***************************************************************************)
(* The proofs of the properties of Guide and DummyEpg: for any number of   *)
(* playlists' rules, channels, guides and edits, any names, patterns, time *)
(* zones, instants and lengths of programmes.                              *)
(***************************************************************************)
EXTENDS Guide, SetSums_proofs, SequenceTheorems

RuleRows     == [list : Lists \union {NoList}, pattern : Parsers, on : BOOLEAN, place : Nat, stamp : Nat]
CategoryRows == [there : BOOLEAN, mode : Modes, minutes : Minutes, pin : Rules \union {NoRule}, stamp : Nat]
ChannelRows  == [list : Lists \union {NoList}, name : Names \union {""}, mode : Modes \union {"inherit"},
                 minutes : Minutes, pin : Rules \union {NoRule}, guide : Guides \union {NoGuide}, stamp : Nat]
GuideRows    == [there : BOOLEAN, shows : Shows \union {{}}]

\* A row's stamp is that of a request there has been; a row without one has
\* never been used.
RulesOK(rl, n) ==
    /\ rl \in [Rules -> RuleRows]
    /\ \A r \in Rules : rl[r].stamp <= n /\ (rl[r].list # NoList => rl[r].stamp # 0)

\* A category is pinned to a rule that is there, and there is no rule of a
\* playlist that is not there.
CategoriesOK(ca, rl, n) ==
    /\ ca \in [Lists -> CategoryRows]
    /\ ca[First].there
    /\ \A l \in Lists : ca[l].stamp <= n /\ (ca[l].pin # NoRule => rl[ca[l].pin].list # NoList)
    /\ \A r \in Rules : rl[r].list # NoList => ca[rl[r].list].there

\* A channel is in a playlist that is there, and what it is pinned and mapped
\* to is there.
ChannelsOK(ch, ca, rl, gu, n) ==
    /\ ch \in [Channels -> ChannelRows]
    /\ \A i \in Channels : ch[i].stamp <= n
    /\ \A i \in Channels : ch[i].list # NoList =>
         /\ ch[i].stamp # 0 /\ ch[i].name \in Names
         /\ ca[ch[i].list].there
         /\ ch[i].pin # NoRule => rl[ch[i].pin].list # NoList
         /\ ch[i].guide # NoGuide => gu[ch[i].guide].there

GInv ==
    /\ edits \in 1..MaxEdits /\ began \in 1..edits /\ refreshed \in 0..edits /\ now \in Instants
    /\ guide \in [Guides -> GuideRows]
    /\ RulesOK(rule, edits)
    /\ CategoriesOK(category, rule, edits)
    /\ ChannelsOK(channel, category, rule, guide, edits)

\* What a duplication has read were rows of the first playlist.
CopyingOK ==
    /\ copying.step \in {"none", "channels", "rules", "write"}
    /\ copying.step # "none" => copying.category \in CategoryRows /\ copying.category.there /\ ~category[Other].there
    /\ copying.step \in {"rules", "write"} =>
         /\ DOMAIN copying.channels \subseteq Channels
         /\ \A i \in DOMAIN copying.channels : copying.channels[i] \in ChannelRows /\ copying.channels[i].name \in Names
    /\ copying.step = "write" =>
         /\ DOMAIN copying.rules \subseteq Rules
         /\ \A r \in DOMAIN copying.rules : copying.rules[r] \in RuleRows

-----------------------------------------------------------------------------
(* Types and integrity *)

LEMMA RowFields ==
    /\ \A row \in RuleRows : row.list \in Lists \union {NoList} /\ row.pattern \in Parsers /\ row.stamp \in Nat
    /\ \A row \in CategoryRows : /\ row.mode \in Modes /\ row.minutes \in Minutes
                                 /\ row.pin \in Rules \union {NoRule} /\ row.stamp \in Nat
    /\ \A row \in ChannelRows : /\ row.list \in Lists \union {NoList} /\ row.mode \in Modes \union {"inherit"}
                                /\ row.minutes \in Minutes /\ row.stamp \in Nat
                                /\ row.pin \in Rules \union {NoRule} /\ row.guide \in Guides \union {NoGuide}
<1>1. \A row \in RuleRows : row.list \in Lists \union {NoList} /\ row.pattern \in Parsers /\ row.stamp \in Nat
  BY DEF RuleRows
<1>2. \A row \in CategoryRows : /\ row.mode \in Modes /\ row.minutes \in Minutes
                                /\ row.pin \in Rules \union {NoRule} /\ row.stamp \in Nat
  BY DEF CategoryRows
<1>3. \A row \in ChannelRows : /\ row.list \in Lists \union {NoList} /\ row.mode \in Modes \union {"inherit"}
                               /\ row.minutes \in Minutes /\ row.stamp \in Nat
                               /\ row.pin \in Rules \union {NoRule} /\ row.guide \in Guides \union {NoGuide}
  BY DEF ChannelRows
<1> QED
  BY <1>1, <1>2, <1>3

LEMMA GuideTypes == GInv => TypeOK
<1> SUFFICES ASSUME GInv PROVE TypeOK
  OBVIOUS
<1>1. \A r \in Rules : rule[r].list \in Lists \union {NoList} /\ rule[r].stamp \in 0..edits
  BY DEF GInv, RulesOK, RuleRows
<1>2. \A l \in Lists : /\ category[l].mode \in Modes /\ category[l].minutes \in Minutes
                       /\ category[l].pin \in RulesThere \union {NoRule}
                       /\ ~category[l].there => ChannelsOf(l) = {} /\ RulesOf(l) = {}
  <2> TAKE l \in Lists
  <2>1. category[l] \in CategoryRows
    BY DEF GInv, CategoriesOK
  <2>2. category[l].pin \in RulesThere \union {NoRule}
    BY <2>1 DEF GInv, CategoriesOK, CategoryRows, RulesThere
  <2>3. l # NoList
    BY GuideAssumptions
  <2>4. ~category[l].there => RulesOf(l) = {}
    BY <2>3 DEF GInv, CategoriesOK, RulesOf
  <2>5. ~category[l].there => ChannelsOf(l) = {}
    BY <2>3 DEF GInv, ChannelsOK, ChannelsOf
  <2> QED
    BY <2>1, <2>2, <2>4, <2>5 DEF CategoryRows
<1>3. \A i \in Present : /\ channel[i].pin \in RulesThere \union {NoRule}
                         /\ channel[i].guide # NoGuide => guide[channel[i].guide].there
                         /\ channel[i].mode \in Modes \union {"inherit"}
  BY DEF GInv, ChannelsOK, ChannelRows, Present, RulesThere
<1> QED
  BY <1>1, <1>2, <1>3, GuideAssumptions DEF TypeOK, GInv

LEMMA LeastOf ==
    ASSUME NEW S \in SUBSET Nat, S # {}
    PROVE  Min(S) \in S /\ \A y \in S : Min(S) <= y
BY LeastNumber DEF Min

LEMMA RuleZero == NoRule = 0 /\ NoRule \notin Rules
  BY GuideAssumptions DEF Rules

LEMMA EmptyRows ==
    /\ NoRuleRow \in RuleRows /\ NoCategory \in CategoryRows /\ NoChannel \in ChannelRows
    /\ NoRuleRow.list = NoList /\ NoRuleRow.stamp = 0
    /\ NoCategory.pin = NoRule /\ NoCategory.stamp = 0 /\ ~NoCategory.there
    /\ NoChannel.list = NoList /\ NoChannel.stamp = 0 /\ NoChannel.pin = NoRule /\ NoChannel.guide = NoGuide
  BY GuideAssumptions DEF NoRuleRow, NoCategory, NoChannel, RuleRows, CategoryRows, ChannelRows, Parsers

LEMMA GuideInitially == Init => GInv
<1> SUFFICES ASSUME Init PROVE GInv
  OBVIOUS
<1>0. PICK first \in Initial :
        /\ rule = [r \in Rules |->
              IF r \in DOMAIN first.rules
              THEN [list |-> First, pattern |-> first.rules[r], on |-> TRUE, place |-> r - 1, stamp |-> 1] ELSE NoRuleRow]
        /\ channel = [i \in Channels |->
              IF i = 1 THEN [NoChannel EXCEPT !.list = First, !.name = first.name, !.stamp = 1] ELSE NoChannel]
        /\ guide = [g \in Guides |-> [there |-> TRUE, shows |-> first.shows[g]]]
  BY DEF Init
<1>f. first.rules \in Seq(Patterns) /\ first.name \in Names /\ first.shows \in [Guides -> Shows]
  BY GuideAssumptions
<1>1. edits = 1 /\ began = 1 /\ refreshed = 1 /\ now \in Instants
  BY LeastOf, GuideAssumptions DEF Init
<1>2. guide \in [Guides -> GuideRows] /\ \A g \in Guides : guide[g].there
  BY <1>0, <1>f DEF GuideRows
<1>3. RulesOK(rule, 1) /\ \A r \in Rules : rule[r].list \in {First, NoList}
  <2>1. PICK ps \in Seq(Patterns) : rule = [r \in Rules |->
         IF r \in DOMAIN ps
         THEN [list |-> First, pattern |-> ps[r], on |-> TRUE, place |-> r - 1, stamp |-> 1] ELSE NoRuleRow]
    BY <1>0, <1>f
  <2>2. \A r \in DOMAIN ps : ps[r] \in Parsers
    BY ElementOfSeq DEF Parsers
  <2>3. ASSUME NEW r \in Rules
        PROVE  rule[r] \in RuleRows /\ rule[r].stamp <= 1 /\ (rule[r].list # NoList => rule[r].stamp # 0)
               /\ rule[r].list \in {First, NoList}
    <3>1. CASE r \in DOMAIN ps
      <4>1. rule[r] = [list |-> First, pattern |-> ps[r], on |-> TRUE, place |-> r - 1, stamp |-> 1]
        BY <2>1, <3>1
      <4> QED
        BY <2>2, <3>1, <4>1, GuideAssumptions DEF RuleRows, Rules
    <3>2. CASE r \notin DOMAIN ps
      <4>1. rule[r] = NoRuleRow
        BY <2>1, <3>2
      <4> QED
        BY <4>1, EmptyRows
    <3> QED
      BY <3>1, <3>2
  <2>4. rule \in [Rules -> RuleRows]
    BY <2>1, <2>3
  <2> QED
    BY <2>3, <2>4 DEF RulesOK
<1>4. CategoriesOK(category, rule, 1)
  <2>1. category = [l \in Lists |->
         IF l = First THEN [NoCategory EXCEPT !.there = TRUE, !.mode = "event", !.stamp = 1] ELSE NoCategory]
    BY DEF Init
  <2>2. PICK row : row = [NoCategory EXCEPT !.there = TRUE, !.mode = "event", !.stamp = 1]
    OBVIOUS
  <2>3. row \in CategoryRows /\ row.there /\ row.stamp = 1 /\ row.pin = NoRule
    BY <2>2, GuideAssumptions DEF NoCategory, CategoryRows
  <2>4. \A l \in Lists : category[l] = IF l = First THEN row ELSE NoCategory
    BY <2>1, <2>2
  <2>5. category \in [Lists -> CategoryRows]
    BY <2>1, <2>2, <2>3, EmptyRows
  <2> QED
    BY <1>3, <2>3, <2>4, <2>5, EmptyRows, GuideAssumptions DEF CategoriesOK
<1>5. ChannelsOK(channel, category, rule, guide, 1)
  <2>1. PICK n \in Names : channel = [i \in Channels |->
         IF i = 1 THEN [NoChannel EXCEPT !.list = First, !.name = n, !.stamp = 1] ELSE NoChannel]
    BY <1>0, <1>f
  <2>2. PICK row : row = [NoChannel EXCEPT !.list = First, !.name = n, !.stamp = 1]
    OBVIOUS
  <2>3. row \in ChannelRows /\ row.list = First /\ row.name = n /\ row.stamp = 1 /\ row.pin = NoRule /\ row.guide = NoGuide
    BY <2>2, GuideAssumptions DEF NoChannel, ChannelRows
  <2>4. \A i \in Channels : channel[i] = IF i = 1 THEN row ELSE NoChannel
    BY <2>1, <2>2
  <2>5. channel \in [Channels -> ChannelRows]
    BY <2>1, <2>2, <2>3, EmptyRows
  <2> QED
    BY <1>4, <2>3, <2>4, <2>5, EmptyRows DEF ChannelsOK, CategoriesOK
<1> QED
  BY <1>1, <1>2, <1>3, <1>4, <1>5, GuideAssumptions DEF GInv

-----------------------------------------------------------------------------
(* Sequences of ids *)

LEMMA NewestOf ==
    ASSUME NEW S \in SUBSET Nat, IsFiniteSet(S)
    PROVE  Newest(S) \in Nat /\ Newest(S) \in S \union {0} /\ \A y \in S : y <= Newest(S)
<1>1. PICK T : T = {0} \union S
  OBVIOUS
<1>2. IsFiniteSet({0})
  BY FS_Singleton
<1>3. IsFiniteSet(T)
  BY <1>1, <1>2, FS_Union
<1>4. T \in SUBSET Int /\ T # {}
  BY <1>1
<1>5. PICK n : n = Max(T)
  OBVIOUS
<1>6. n \in T /\ \A y \in T : n >= y
  BY <1>3, <1>4, <1>5, MaxOf
<1>7. Newest(S) = n
  BY <1>1, <1>5 DEF Newest
<1>8. n \in S \union {0} /\ n \in Nat /\ \A y \in S : y <= n
  BY <1>1, <1>6
<1> QED
  BY <1>7, <1>8

LEMMA Ids ==
    /\ Rules \in SUBSET Nat /\ IsFiniteSet(Rules) /\ \A S \in SUBSET Rules : S \in SUBSET Nat /\ IsFiniteSet(S)
    /\ Channels \in SUBSET Nat /\ IsFiniteSet(Channels) /\ \A S \in SUBSET Channels : S \in SUBSET Nat /\ IsFiniteSet(S)
<1>1. MaxRule \in Nat /\ MaxChannel \in Nat
  BY GuideAssumptions
<1>2. IsFiniteSet(Rules) /\ IsFiniteSet(Channels)
  BY <1>1, FS_Interval DEF Rules, Channels
<1>3. Rules \in SUBSET Nat /\ Channels \in SUBSET Nat
  BY <1>1 DEF Rules, Channels
<1>4. \A S \in SUBSET Rules : IsFiniteSet(S)
  BY <1>2, FS_Subset
<1>5. \A S \in SUBSET Channels : IsFiniteSet(S)
  BY <1>2, FS_Subset
<1> QED
  BY <1>2, <1>3, <1>4, <1>5

LEMMA FreshRule ==
    /\ NextRule \in Nat /\ \A r \in Rules : rule[r].stamp # 0 => r < NextRule
    /\ \A r \in Rules : r >= NextRule => rule[r].stamp = 0
<1>1. PICK S : S = {r \in Rules : rule[r].stamp # 0}
  OBVIOUS
<1>2. S \in SUBSET Nat /\ IsFiniteSet(S)
  BY <1>1, Ids
<1>3. NextRule = Newest(S) + 1
  BY <1>1 DEF NextRule
<1>4. \A r \in S : r \in Nat /\ r < NextRule
  BY <1>2, <1>3, NewestOf
<1>5. NextRule \in Nat
  BY <1>2, <1>3, NewestOf
<1>6. \A r \in Rules : rule[r].stamp # 0 => r < NextRule
  BY <1>1, <1>4
<1> QED
  BY <1>5, <1>6, Ids

LEMMA FreshChannel ==
    /\ NextChannel \in Nat /\ \A i \in Channels : channel[i].stamp # 0 => i < NextChannel
    /\ \A i \in Channels : i >= NextChannel => channel[i].stamp = 0
<1>1. PICK S : S = {i \in Channels : channel[i].stamp # 0}
  OBVIOUS
<1>2. S \in SUBSET Nat /\ IsFiniteSet(S)
  BY <1>1, Ids
<1>3. NextChannel = Newest(S) + 1
  BY <1>1 DEF NextChannel
<1>4. \A i \in S : i \in Nat /\ i < NextChannel
  BY <1>2, <1>3, NewestOf
<1>5. NextChannel \in Nat
  BY <1>2, <1>3, NewestOf
<1>6. \A i \in Channels : channel[i].stamp # 0 => i < NextChannel
  BY <1>1, <1>4
<1> QED
  BY <1>5, <1>6, Ids

-----------------------------------------------------------------------------
(* The steps keep the integrity *)

LEMMA EditCounts ==
    ASSUME GInv, Commit \/ Edit
    PROVE  edits' = edits + 1 /\ edits \in Nat /\ edits' \in 1..MaxEdits /\ began' \in Nat /\ began' \in 1..edits' /\ now' = now
  BY GuideAssumptions DEF GInv, Edit, Commit

\* The database stays as it is.
LEMMA TablesStay ==
    ASSUME GInv, tables' = tables, now' \in Instants, edits' = edits, began' = began
    PROVE  GInv'
  BY DEF GInv, tables, RulesOK, CategoriesOK, ChannelsOK

\* Rules are added or changed, none moves to another playlist.
LEMMA RulesChange ==
    ASSUME GInv, Edit, UNCHANGED <<category, channel, guide, refreshed>>,
           RulesOK(rule', edits'),
           \A r \in Rules : rule[r].list # NoList => rule'[r].list = rule[r].list,
           \A r \in Rules : rule'[r].list # NoList => category[rule'[r].list].there
    PROVE  GInv'
<1>1. edits' = edits + 1 /\ edits \in Nat /\ began' \in Nat /\ began' \in 1..edits' /\ edits' \in 1..MaxEdits /\ now' = now
  BY EditCounts DEF GInv
<1>2. CategoriesOK(category', rule', edits')
  <2>1. \A l \in Lists : category[l].stamp <= edits + 1 /\ (category[l].pin # NoRule => rule'[category[l].pin].list # NoList)
    <3> TAKE l \in Lists
    <3>1. category[l] \in CategoryRows
      BY DEF GInv, CategoriesOK
    <3>2. category[l].stamp <= edits /\ category[l].stamp \in Nat
      BY <3>1 DEF GInv, CategoriesOK, CategoryRows
    <3>3. ASSUME category[l].pin # NoRule PROVE rule'[category[l].pin].list # NoList
      <4>1. category[l].pin \in Rules /\ rule[category[l].pin].list # NoList
        BY <3>1, <3>3 DEF GInv, CategoriesOK, CategoryRows
      <4> QED
        BY <4>1, GuideAssumptions
    <3> QED
      BY <1>1, <3>2, <3>3
  <2> QED
    BY <1>1, <2>1 DEF GInv, CategoriesOK
<1>3. ChannelsOK(channel', category', rule', guide', edits')
  <2>1. \A i \in Channels : channel[i].stamp <= edits + 1
    <3> TAKE i \in Channels
    <3>1. channel[i] \in ChannelRows /\ channel[i].stamp <= edits
      BY DEF GInv, ChannelsOK
    <3> QED
      BY <1>1, <3>1, RowFields
  <2>2. \A i \in Channels : channel[i].list # NoList /\ channel[i].pin # NoRule => rule'[channel[i].pin].list # NoList
    <3> TAKE i \in Channels
    <3>1. channel[i].pin # NoRule => channel[i].pin \in Rules
      BY DEF GInv, ChannelsOK, ChannelRows
    <3> QED
      BY <3>1 DEF GInv, ChannelsOK
  <2> QED
    BY <1>1, <2>1, <2>2 DEF GInv, ChannelsOK
<1>4. refreshed' \in 0..edits' /\ guide' = guide
  BY <1>1 DEF GInv
<1> QED
  BY <1>1, <1>2, <1>3, <1>4 DEF GInv

\* One rule is written.
LEMMA RuleWritten ==
    ASSUME GInv, NEW r \in Rules, NEW row \in RuleRows, WriteRule(r, row), UNCHANGED <<category, channel, guide, refreshed>>,
           row.list # NoList, category[row.list].there, rule[r].list \in {NoList, row.list}
    PROVE  GInv' /\ rule'[r].stamp = began' /\ \A k \in Rules : k # r => rule'[k] = rule[k]
<1>1. edits' = edits + 1 /\ edits \in Nat /\ began' \in Nat /\ began' \in 1..edits'
  BY EditCounts DEF WriteRule, GInv
<1>2. PICK new : new = [row EXCEPT !.stamp = began']
  OBVIOUS
<1>3. new \in RuleRows /\ new.stamp = began' /\ new.list = row.list
  BY <1>1, <1>2 DEF RuleRows
<1>4. rule' = [rule EXCEPT ![r] = new]
  BY <1>2 DEF WriteRule
<1>5. rule \in [Rules -> RuleRows]
  BY DEF GInv, RulesOK
<1>6. rule'[r] = new /\ \A k \in Rules : k # r => rule'[k] = rule[k]
  BY <1>4, <1>5
<1>7. \A k \in Rules : rule[k].stamp <= edits + 1
  BY <1>1 DEF GInv, RulesOK, RuleRows
<1>8. RulesOK(rule', edits')
  BY <1>1, <1>3, <1>4, <1>5, <1>6, <1>7 DEF GInv, RulesOK
<1>9. \A k \in Rules : rule[k].list # NoList => rule'[k].list = rule[k].list
  BY <1>3, <1>6
<1>10. \A k \in Rules : rule'[k].list # NoList => category[rule'[k].list].there
  BY <1>3, <1>6 DEF GInv, CategoriesOK
<1>11. Edit
  BY DEF WriteRule
<1> QED
  BY <1>3, <1>6, <1>8, <1>9, <1>10, <1>11, RulesChange

LEMMA CreatedRule ==
    ASSUME GInv, NEW l \in Lists, NEW p \in Patterns, CreateRule(l, p)
    PROVE  GInv' /\ rule'[NextRule].stamp = began' /\ \A k \in Rules : k # NextRule => rule'[k] = rule[k]
<1>1. PICK row : row = [list |-> l, pattern |-> p, on |-> TRUE, place |-> Cardinality(RulesOf(l)), stamp |-> 0]
  OBVIOUS
<1>2. Cardinality(RulesOf(l)) \in Nat
  BY Ids, FS_CardinalityType DEF RulesOf
<1>3. row \in RuleRows /\ row.list = l /\ l # NoList
  BY <1>1, <1>2, GuideAssumptions DEF RuleRows, Parsers
<1>4. WriteRule(NextRule, row) /\ NextRule \in Rules /\ category[l].there /\ UNCHANGED <<category, channel, guide, refreshed>>
  BY <1>1 DEF CreateRule
<1>5. rule[NextRule].list = NoList
  BY <1>4, FreshRule, Ids DEF GInv, RulesOK
<1> QED
  BY <1>3, <1>4, <1>5, RuleWritten

LEMMA UpdatedRule ==
    ASSUME GInv, NEW l \in Lists, NEW r \in Rules, NEW p \in Patterns, NEW on \in BOOLEAN, UpdateRule(l, r, p, on)
    PROVE  GInv' /\ rule'[r].stamp = began' /\ \A k \in Rules : k # r => rule'[k] = rule[k]
<1>1. PICK row : row = [rule[r] EXCEPT !.pattern = p, !.on = on]
  OBVIOUS
<1>2. rule[r] \in RuleRows /\ rule[r].list = l /\ l # NoList
  BY GuideAssumptions DEF GInv, RulesOK, UpdateRule, RulesOf
<1>3. row \in RuleRows /\ row.list = l
  BY <1>1, <1>2 DEF RuleRows, Parsers
<1>4. WriteRule(r, row) /\ UNCHANGED <<category, channel, guide, refreshed>>
  BY <1>1 DEF UpdateRule
<1>5. category[l].there
  BY <1>2 DEF GInv, CategoriesOK
<1> QED
  BY <1>2, <1>3, <1>4, <1>5, RuleWritten

LEMMA Placed ==
    ASSUME NEW items, NEW S, S \in SUBSET Rules, items \in SetToSeqs(S), NEW r
    PROVE  PlaceIn(items, r) \in Int
<1>1. PICK I : I = {i \in 1..Len(items) : items[i] = r}
  OBVIOUS
<1>2. Len(items) = Cardinality(S) /\ Cardinality(S) \in Nat
  <2>1. Cardinality(S) \in Nat
    BY Ids, FS_CardinalityType
  <2> QED
    BY <2>1 DEF SetToSeqs
<1>3. I \in SUBSET Nat
  BY <1>1, <1>2
<1> QED
  BY <1>1, <1>3, LeastOf DEF SelectInSeq, PlaceIn

LEMMA ReorderedRules ==
    ASSUME GInv, NEW l \in Lists, NEW items \in SetToSeqs({r \in Rules : rule[r].list # NoList}), ReorderRules(l, items)
    PROVE  GInv' /\ \A k \in Rules : rule'[k] = rule[k] \/ rule'[k].stamp = began'
<1>0. Edit /\ UNCHANGED <<category, channel, guide, refreshed>>
  BY DEF ReorderRules
<1>1. Edit /\ edits' = edits + 1 /\ edits \in Nat /\ began' \in Nat /\ began' \in 1..edits' /\ UNCHANGED <<category, channel, guide, refreshed>>
  BY <1>0, EditCounts DEF GInv
<1>2. ASSUME NEW r \in Rules
      PROVE  /\ rule'[r] \in RuleRows /\ rule'[r].list = rule[r].list
             /\ rule'[r] = rule[r] \/ rule'[r].stamp = began'
  <2>1. PICK at : at = PlaceIn(items, r)
    OBVIOUS
  <2>2. at \in Int
    BY <2>1, Placed
  <2>3. rule[r] \in RuleRows
    BY DEF GInv, RulesOK
  <2>4. rule'[r] = IF at >= 0 /\ rule[r].list = l /\ rule[r].place # at
                   THEN [rule[r] EXCEPT !.place = at, !.stamp = began'] ELSE rule[r]
    BY <2>1 DEF ReorderRules
  <2>5. PICK row : row = [rule[r] EXCEPT !.place = at, !.stamp = began']
    OBVIOUS
  <2>6. ASSUME at >= 0 PROVE row \in RuleRows /\ row.list = rule[r].list /\ row.stamp = began'
    <3>1. at \in Nat /\ began' \in Nat
      BY <1>1, <2>2, <2>6
    <3>2. PICK old \in RuleRows : old = rule[r]
      BY <2>3
    <3>3. row = [old EXCEPT !.place = at, !.stamp = began']
      BY <2>5, <3>2
    <3>4. row \in RuleRows /\ row.list = old.list /\ row.stamp = began'
      BY <3>1, <3>3 DEF RuleRows
    <3> QED
      BY <1>1, <3>2, <3>4
  <2> QED
    BY <2>3, <2>4, <2>5, <2>6
<1>3. rule' \in [Rules -> RuleRows]
  <2>1. rule' = [r \in Rules |-> rule'[r]]
    BY DEF ReorderRules
  <2> QED
    BY <1>2, <2>1
<1>4. RulesOK(rule', edits')
  <2>1. \A r \in Rules : rule[r].stamp \in Nat /\ rule[r].stamp <= edits /\ (rule[r].list # NoList => rule[r].stamp # 0)
    BY DEF GInv, RulesOK, RuleRows
  <2> QED
    BY <1>1, <1>2, <1>3, <2>1 DEF RulesOK
<1>5. \A k \in Rules : rule'[k].list # NoList => category[rule'[k].list].there
  BY <1>2 DEF GInv, CategoriesOK
<1> QED
  BY <1>1, <1>2, <1>4, <1>5, RulesChange

\* Nothing is pinned to what is deleted.
LEMMA DeletedRule ==
    ASSUME GInv, NEW l \in Lists, NEW r \in Rules, DeleteRule(l, r)
    PROVE  /\ GInv'
           /\ rule[r].list = l /\ rule'[r].list = NoList /\ \A k \in Rules : k # r => rule'[k] = rule[k]
           /\ \A k \in Lists : category[k].pin # r => category'[k] = category[k]
           /\ \A k \in Lists : category[k].pin = r => category'[k] = [category[k] EXCEPT !.pin = NoRule]
           /\ \A i \in Channels : channel[i].pin # r => channel'[i] = channel[i]
           /\ \A i \in Channels : channel[i].pin = r => channel'[i] = [channel[i] EXCEPT !.pin = NoRule]
<1>1. Edit /\ edits' = edits + 1 /\ edits \in Nat /\ began' \in Nat /\ began' \in 1..edits' /\ edits' \in 1..MaxEdits /\ now' = now /\ UNCHANGED <<guide, refreshed>>
  BY EditCounts DEF DeleteRule, GInv
<1>2. rule \in [Rules -> RuleRows] /\ category \in [Lists -> CategoryRows] /\ channel \in [Channels -> ChannelRows]
  BY DEF GInv, RulesOK, CategoriesOK, ChannelsOK
<1>3. PICK row : row = [NoRuleRow EXCEPT !.stamp = rule[r].stamp]
  OBVIOUS
<1>4. row \in RuleRows /\ row.list = NoList /\ row.stamp = rule[r].stamp
  BY <1>2, <1>3, GuideAssumptions DEF NoRuleRow, RuleRows, Parsers
<1>5. rule' = [rule EXCEPT ![r] = row]
  BY <1>3 DEF DeleteRule
<1>6. rule'[r] = row /\ \A k \in Rules : k # r => rule'[k] = rule[k]
  BY <1>2, <1>5
<1>7. RulesOK(rule', edits')
  <2>1. \A k \in Rules : rule[k].stamp \in Nat /\ rule[k].stamp <= edits /\ (rule[k].list # NoList => rule[k].stamp # 0)
    BY DEF GInv, RulesOK, RuleRows
  <2> QED
    BY <1>1, <1>2, <1>4, <1>5, <1>6, <2>1 DEF RulesOK
<1>8. r # NoRule
  BY RuleZero
<1>9. ASSUME NEW k \in Lists
      PROVE  /\ category[k].pin # r => category'[k] = category[k]
             /\ category[k].pin = r => category'[k] = [category[k] EXCEPT !.pin = NoRule]
             /\ category'[k] \in CategoryRows
             /\ category'[k].there = category[k].there /\ category'[k].stamp = category[k].stamp
             /\ category'[k].pin # r /\ category'[k].pin \in {category[k].pin, NoRule}
  <2>1. category'[k] = [category[k] EXCEPT !.pin = Unpinned(category[k].pin, r)]
    BY DEF DeleteRule
  <2>2. category[k] \in CategoryRows
    BY <1>2
  <2>3. CASE category[k].pin = r
    <3>1. category'[k] = [category[k] EXCEPT !.pin = NoRule]
      BY <2>1, <2>3 DEF Unpinned
    <3> QED
      BY <1>8, <2>2, <2>3, <3>1 DEF CategoryRows
  <2>4. CASE category[k].pin # r
    <3>1. category'[k] = [category[k] EXCEPT !.pin = category[k].pin]
      BY <2>1, <2>4 DEF Unpinned
    <3>2. category'[k] = category[k]
      BY <2>2, <3>1 DEF CategoryRows
    <3> QED
      BY <2>2, <2>4, <3>2
  <2> QED
    BY <2>3, <2>4
<1>10. ASSUME NEW i \in Channels
       PROVE  /\ channel[i].pin # r => channel'[i] = channel[i]
              /\ channel[i].pin = r => channel'[i] = [channel[i] EXCEPT !.pin = NoRule]
              /\ channel'[i] \in ChannelRows
              /\ channel'[i].list = channel[i].list /\ channel'[i].stamp = channel[i].stamp
              /\ channel'[i].name = channel[i].name /\ channel'[i].guide = channel[i].guide
              /\ channel'[i].pin # r /\ channel'[i].pin \in {channel[i].pin, NoRule}
  <2>1. channel'[i] = [channel[i] EXCEPT !.pin = Unpinned(channel[i].pin, r)]
    BY DEF DeleteRule
  <2>2. channel[i] \in ChannelRows
    BY <1>2
  <2>3. CASE channel[i].pin = r
    <3>1. channel'[i] = [channel[i] EXCEPT !.pin = NoRule]
      BY <2>1, <2>3 DEF Unpinned
    <3> QED
      BY <1>8, <2>2, <2>3, <3>1 DEF ChannelRows
  <2>4. CASE channel[i].pin # r
    <3>1. channel'[i] = [channel[i] EXCEPT !.pin = channel[i].pin]
      BY <2>1, <2>4 DEF Unpinned
    <3>2. channel'[i] = channel[i]
      BY <2>2, <3>1 DEF ChannelRows
    <3> QED
      BY <2>2, <2>4, <3>2
  <2> QED
    BY <2>3, <2>4
<1>11. category' \in [Lists -> CategoryRows] /\ channel' \in [Channels -> ChannelRows]
  <2>1. category' = [k \in Lists |-> category'[k]] /\ channel' = [i \in Channels |-> channel'[i]]
    BY DEF DeleteRule
  <2> QED
    BY <1>9, <1>10, <2>1
<1>12. CategoriesOK(category', rule', edits')
  <2>1. \A k \in Lists : category[k].stamp \in Nat /\ category[k].stamp <= edits /\ (category[k].pin # NoRule => category[k].pin \in Rules /\ rule[category[k].pin].list # NoList)
    BY DEF GInv, CategoriesOK, CategoryRows
  <2>2. \A k \in Lists : category'[k].stamp <= edits' /\ (category'[k].pin # NoRule => rule'[category'[k].pin].list # NoList)
    <3> TAKE k \in Lists
    <3>1. category'[k].stamp <= edits'
      <4>1. category'[k].stamp = category[k].stamp
        BY <1>9
      <4>2. category[k].stamp \in Nat /\ category[k].stamp <= edits
        BY <2>1
      <4> QED
        BY <1>1, <4>1, <4>2
    <3>2. ASSUME category'[k].pin # NoRule PROVE rule'[category'[k].pin].list # NoList
      <4>1. category'[k].pin = category[k].pin /\ category[k].pin # r
        BY <1>9, <3>2
      <4>2. category[k].pin \in Rules /\ rule[category[k].pin].list # NoList
        BY <2>1, <3>2, <4>1
      <4> QED
        BY <1>6, <4>1, <4>2
    <3> QED
      BY <3>1, <3>2
  <2>3. \A k \in Rules : rule'[k].list # NoList => category'[rule'[k].list].there
    <3> SUFFICES ASSUME NEW k \in Rules, rule'[k].list # NoList PROVE category'[rule'[k].list].there
      OBVIOUS
    <3>1. rule'[k] = rule[k] /\ rule[k] \in RuleRows
      BY <1>2, <1>4, <1>6
    <3>2. rule[k].list \in Lists
      BY <3>1 DEF RuleRows
    <3> QED
      BY <1>9, <3>1, <3>2 DEF GInv, CategoriesOK
  <2>4. category'[First].there
    BY <1>9, GuideAssumptions DEF GInv, CategoriesOK
  <2> QED
    BY <1>11, <2>2, <2>3, <2>4 DEF CategoriesOK
<1>13. ChannelsOK(channel', category', rule', guide', edits')
  <2>1. \A i \in Channels : channel'[i].stamp <= edits'
    <3> TAKE i \in Channels
    <3>1. channel[i] \in ChannelRows /\ channel[i].stamp <= edits /\ channel'[i].stamp = channel[i].stamp
      BY <1>10 DEF GInv, ChannelsOK
    <3> QED
      BY <1>1, <3>1, RowFields
  <2>2. ASSUME NEW i \in Channels, channel'[i].list # NoList
        PROVE  /\ channel'[i].stamp # 0 /\ channel'[i].name \in Names
               /\ category'[channel'[i].list].there
               /\ channel'[i].pin # NoRule => rule'[channel'[i].pin].list # NoList
               /\ channel'[i].guide # NoGuide => guide[channel'[i].guide].there
    <3>1. channel[i] \in ChannelRows /\ channel[i].list # NoList
      BY <1>2, <1>10, <2>2
    <3>2. channel[i].list \in Lists /\ (channel[i].pin # NoRule => channel[i].pin \in Rules)
      BY <3>1 DEF ChannelRows
    <3>3. /\ channel'[i].stamp # 0 /\ channel'[i].name \in Names
          /\ channel'[i].guide # NoGuide => guide[channel'[i].guide].there
      BY ZenonT(40), <1>10, <3>1 DEF GInv, ChannelsOK
    <3>4. category'[channel'[i].list].there
      BY <1>9, <1>10, <3>1, <3>2 DEF GInv, ChannelsOK
    <3>5. ASSUME channel'[i].pin # NoRule PROVE rule'[channel'[i].pin].list # NoList
      <4>1. channel'[i].pin = channel[i].pin /\ channel[i].pin # r
        BY <1>10, <3>5
      <4>2. channel[i].pin \in Rules /\ rule[channel[i].pin].list # NoList
        BY <3>1, <3>2, <3>5, <4>1 DEF GInv, ChannelsOK
      <4> QED
        BY <1>6, <4>1, <4>2
    <3> QED
      BY <3>3, <3>4, <3>5
  <2> QED
    BY <1>1, <1>11, <2>1, <2>2 DEF ChannelsOK
<1>14. refreshed' \in 0..edits' /\ guide' = guide
  BY <1>1 DEF GInv
<1>15. GInv'
  BY <1>1, <1>7, <1>12, <1>13, <1>14 DEF GInv
<1>16. rule[r].list = l
  BY DEF DeleteRule, RulesOf
<1> QED
  BY <1>4, <1>6, <1>9, <1>10, <1>15, <1>16

\* A category is changed.
LEMMA UpdatedCategory ==
    ASSUME GInv, NEW l \in Lists, NEW row \in CategoryRows, row.there = category[l].there, UpdateCategory(l, row)
    PROVE  GInv' /\ category'[l].stamp = began' /\ (\A k \in Lists : k # l => category'[k] = category[k])
           /\ UNCHANGED <<rule, channel, guide, refreshed>>
<1>1. Edit /\ edits' = edits + 1 /\ edits \in Nat /\ began' \in Nat /\ began' \in 1..edits' /\ edits' \in 1..MaxEdits /\ now' = now
      /\ UNCHANGED <<rule, channel, guide, refreshed>>
  BY EditCounts DEF UpdateCategory, GInv
<1>2. PICK new : new = [row EXCEPT !.stamp = began']
  OBVIOUS
<1>3. new \in CategoryRows /\ new.stamp = began' /\ new.there = row.there /\ new.pin = row.pin
  BY <1>1, <1>2 DEF CategoryRows
<1>4. category' = [category EXCEPT ![l] = new] /\ category[l].there /\ (row.pin # NoRule => rule[row.pin].list # NoList)
  BY <1>2 DEF UpdateCategory, RulesThere
<1>5. category \in [Lists -> CategoryRows]
  BY DEF GInv, CategoriesOK
<1>6. category'[l] = new /\ \A k \in Lists : k # l => category'[k] = category[k]
  BY <1>4, <1>5
<1>7. \A k \in Lists : category'[k].there = category[k].there
  BY <1>3, <1>6
<1>8. CategoriesOK(category', rule', edits')
  <2>1. \A k \in Lists : category'[k].stamp <= edits' /\ (category'[k].pin # NoRule => rule[category'[k].pin].list # NoList)
    <3> TAKE k \in Lists
    <3>1. category[k].stamp \in Nat /\ category[k].stamp <= edits /\ (category[k].pin # NoRule => rule[category[k].pin].list # NoList)
      BY <1>5, RowFields DEF GInv, CategoriesOK
    <3>2. CASE k = l
      BY <1>1, <1>3, <1>4, <1>6, <3>2
    <3>3. CASE k # l
      BY <1>1, <1>6, <3>1, <3>3
    <3> QED
      BY <3>2, <3>3
  <2>2. \A r \in Rules : rule[r].list # NoList => category'[rule[r].list].there
    <3> TAKE r \in Rules
    <3>1. rule[r].list \in Lists \union {NoList}
      BY RowFields DEF GInv, RulesOK
    <3> QED
      BY <1>7, <3>1 DEF GInv, CategoriesOK
  <2>3. category'[First].there
    BY <1>7, GuideAssumptions DEF GInv, CategoriesOK
  <2>4. category' \in [Lists -> CategoryRows]
    BY <1>3, <1>4, <1>5
  <2> QED
    BY <1>1, <2>1, <2>2, <2>3, <2>4 DEF CategoriesOK
<1>9. ChannelsOK(channel', category', rule', guide', edits')
  <2>1. ASSUME NEW i \in Channels
        PROVE  channel[i].stamp <= edits' /\ (channel[i].list # NoList => category'[channel[i].list].there)
    <3>1. channel[i] \in ChannelRows /\ channel[i].stamp <= edits /\ (channel[i].list # NoList => category[channel[i].list].there)
      BY DEF GInv, ChannelsOK
    <3>2. channel[i].stamp \in Nat /\ channel[i].list \in Lists \union {NoList}
      BY <3>1, RowFields
    <3> QED
      BY <1>1, <1>7, <3>1, <3>2
  <2>2. channel' = channel /\ rule' = rule /\ guide' = guide
    BY <1>1
  <2> QED
    BY <2>1, <2>2 DEF GInv, ChannelsOK
<1>10. RulesOK(rule', edits')
  <2>1. \A r \in Rules : rule[r].stamp \in Nat /\ rule[r].stamp <= edits
    BY RowFields DEF GInv, RulesOK
  <2> QED
    BY <1>1, <2>1 DEF GInv, RulesOK
<1>11. refreshed' \in 0..edits' /\ guide' = guide
  BY <1>1 DEF GInv
<1> QED
  BY <1>1, <1>3, <1>6, <1>8, <1>9, <1>10, <1>11 DEF GInv

\* A row that may be written.
Fit(row) ==
    /\ row \in ChannelRows
    /\ row.list # NoList /\ category[row.list].there /\ row.name \in Names
    /\ row.pin # NoRule => rule[row.pin].list # NoList
    /\ row.guide # NoGuide => guide[row.guide].there

LEMMA PresentFit == ASSUME GInv, NEW i \in Present PROVE Fit(channel[i])
  BY DEF GInv, ChannelsOK, Present, Fit

\* Some rows are written or emptied, the others stay.
LEMMA ChannelsChange ==
    ASSUME GInv, Edit, UNCHANGED <<rule, category, guide, refreshed>>, channel' \in [Channels -> ChannelRows],
           \A i \in Channels : \/ channel'[i] = channel[i]
                               \/ channel'[i].list = NoList /\ channel'[i].stamp = channel[i].stamp
                               \/ channel'[i].stamp = began' /\ Fit(channel'[i])
    PROVE  GInv'
<1>1. edits' = edits + 1 /\ edits \in Nat /\ began' \in Nat /\ began' \in 1..edits' /\ edits' \in 1..MaxEdits /\ now' = now
  BY EditCounts DEF GInv
<1>2. RulesOK(rule', edits')
  <2>1. \A r \in Rules : rule[r].stamp \in Nat /\ rule[r].stamp <= edits
    BY RowFields DEF GInv, RulesOK
  <2> QED
    BY <1>1, <2>1 DEF GInv, RulesOK
<1>3. CategoriesOK(category', rule', edits')
  <2>1. \A l \in Lists : category[l].stamp \in Nat /\ category[l].stamp <= edits
    BY RowFields DEF GInv, CategoriesOK
  <2> QED
    BY <1>1, <2>1 DEF GInv, CategoriesOK
<1>4. ChannelsOK(channel', category', rule', guide', edits')
  <2>1. ASSUME NEW i \in Channels
        PROVE  /\ channel'[i].stamp <= edits'
               /\ channel'[i].list # NoList =>
                    /\ channel'[i].stamp # 0 /\ channel'[i].name \in Names
                    /\ category[channel'[i].list].there
                    /\ channel'[i].pin # NoRule => rule[channel'[i].pin].list # NoList
                    /\ channel'[i].guide # NoGuide => guide[channel'[i].guide].there
    <3>1. channel[i].stamp \in Nat /\ channel[i].stamp <= edits
      BY RowFields DEF GInv, ChannelsOK
    <3>2. CASE channel'[i] = channel[i]
      BY <1>1, <3>1, <3>2 DEF GInv, ChannelsOK
    <3>3. CASE channel'[i].list = NoList /\ channel'[i].stamp = channel[i].stamp
      BY <1>1, <3>1, <3>3
    <3>4. CASE channel'[i].stamp = began' /\ Fit(channel'[i])
      BY <1>1, <3>4 DEF Fit
    <3> QED
      BY <3>2, <3>3, <3>4
  <2>2. category' = category /\ rule' = rule /\ guide' = guide
    OBVIOUS
  <2> QED
    BY <2>1, <2>2 DEF ChannelsOK
<1>5. refreshed' \in 0..edits' /\ guide' = guide
  BY <1>1 DEF GInv
<1> QED
  BY <1>1, <1>2, <1>3, <1>4, <1>5 DEF GInv

LEMMA WroteChannels ==
    ASSUME GInv, NEW rows, WriteChannels(rows), rows \in [Channels -> ChannelRows],
           \A i \in Channels : rows[i] = channel[i] \/ Fit(rows[i])
    PROVE  /\ GInv' /\ \A i \in Channels : channel'[i] = channel[i] \/ channel'[i].stamp = began'
           /\ UNCHANGED <<rule, category, guide, refreshed>>
<1>1. Edit /\ UNCHANGED <<rule, category, guide, refreshed>>
  BY DEF WriteChannels
<1>2. edits' = edits + 1 /\ edits' \in Nat /\ began' \in Nat /\ began' \in 1..edits'
  BY <1>1, EditCounts DEF GInv
<1>3. ASSUME NEW i \in Channels
      PROVE  channel'[i] \in ChannelRows /\ (channel'[i] = channel[i] \/ (channel'[i].stamp = began' /\ Fit(channel'[i])))
  <2>1. CASE rows[i] = channel[i]
    BY <2>1 DEF WriteChannels
  <2>2. CASE rows[i] # channel[i]
    <3>1. channel'[i] = [rows[i] EXCEPT !.stamp = began']
      BY <2>2 DEF WriteChannels
    <3>2. PICK row \in ChannelRows : row = rows[i] /\ Fit(row)
      BY <2>2
    <3>3. PICK new : new = [row EXCEPT !.stamp = began']
      OBVIOUS
    <3>4. new \in ChannelRows /\ new.stamp = began' /\ new.list = row.list /\ new.name = row.name /\ new.pin = row.pin
          /\ new.guide = row.guide
      BY <1>2, <3>3 DEF ChannelRows
    <3>5. Fit(new)
      BY <3>2, <3>4 DEF Fit
    <3> QED
      BY <1>2, <3>1, <3>2, <3>3, <3>4, <3>5
  <2> QED
    BY <2>1, <2>2
<1>4. channel' \in [Channels -> ChannelRows]
  <2>1. channel' = [i \in Channels |-> channel'[i]]
    BY DEF WriteChannels
  <2> QED
    BY <1>3, <2>1
<1> QED
  BY <1>1, <1>2, <1>3, <1>4, ChannelsChange

LEMMA MappedGuides ==
    ASSUME GInv, NEW S \in SUBSET Present, NEW g \in Guides \union {NoGuide}, MapGuides(S, g)
    PROVE  /\ GInv' /\ \A i \in Channels : channel'[i] = channel[i] \/ channel'[i].stamp = began'
           /\ UNCHANGED <<rule, category, guide, refreshed>>
<1>1. PICK rows : rows = [i \in Channels |-> IF i \in S THEN [channel[i] EXCEPT !.guide = g] ELSE channel[i]]
  OBVIOUS
<1>2. WriteChannels(rows) /\ (g # NoGuide => guide[g].there)
  BY <1>1 DEF MapGuides
<1>3. ASSUME NEW i \in Channels PROVE rows[i] \in ChannelRows /\ (rows[i] = channel[i] \/ Fit(rows[i]))
  <2>1. CASE i \in S
    <3>1. rows[i] = [channel[i] EXCEPT !.guide = g]
      BY <1>1, <2>1
    <3>2. PICK old \in ChannelRows : old = channel[i] /\ Fit(old)
      BY <2>1, PresentFit DEF Fit
    <3>3. PICK new : new = [old EXCEPT !.guide = g]
      OBVIOUS
    <3>4. new \in ChannelRows /\ new.list = old.list /\ new.name = old.name /\ new.pin = old.pin /\ new.guide = g
      BY <3>3 DEF ChannelRows
    <3> QED
      BY <1>2, <3>1, <3>2, <3>3, <3>4 DEF Fit
  <2>2. CASE i \notin S
    BY <1>1, <2>2 DEF GInv, ChannelsOK
  <2> QED
    BY <2>1, <2>2
<1>4. rows \in [Channels -> ChannelRows]
  BY <1>1, <1>3
<1> QED
  BY <1>2, <1>3, <1>4, WroteChannels

\* One row is written.
LEMMA WroteChannel ==
    ASSUME GInv, NEW i \in Channels, NEW row, Fit(row), WriteChannels([channel EXCEPT ![i] = row])
    PROVE  /\ GInv' /\ \A k \in Channels : channel'[k] = channel[k] \/ channel'[k].stamp = began'
           /\ UNCHANGED <<rule, category, guide, refreshed>>
<1>1. PICK rows : rows = [channel EXCEPT ![i] = row]
  OBVIOUS
<1>2. channel \in [Channels -> ChannelRows] /\ row \in ChannelRows
  BY DEF GInv, ChannelsOK, Fit
<1>3. rows \in [Channels -> ChannelRows] /\ \A k \in Channels : rows[k] = channel[k] \/ Fit(rows[k])
  BY <1>1, <1>2
<1> QED
  BY <1>1, <1>3, WroteChannels

LEMMA UpdatedChannel ==
    ASSUME GInv, NEW i \in Channels, NEW row, UpdateChannel(i, row),
           \/ \E n \in Names : row = [channel[i] EXCEPT !.name = n]
           \/ \E m \in Modes \union {"inherit"}, k \in Minutes, r \in Rules \union {NoRule} :
                row = [channel[i] EXCEPT !.mode = m, !.minutes = k, !.pin = r]
    PROVE  /\ GInv' /\ \A k \in Channels : channel'[k] = channel[k] \/ channel'[k].stamp = began'
           /\ UNCHANGED <<rule, category, guide, refreshed>>
<1>1. PICK old \in ChannelRows : old = channel[i] /\ Fit(old)
  BY PresentFit DEF UpdateChannel, Fit
<1>2. WriteChannels([channel EXCEPT ![i] = row]) /\ (row.pin # NoRule => rule[row.pin].list # NoList)
  BY DEF UpdateChannel, RulesThere
<1>3. row \in ChannelRows /\ row.list = old.list /\ row.guide = old.guide /\ row.name \in Names
  <2>0. old.name \in Names
    BY <1>1 DEF Fit
  <2>1. CASE \E n \in Names : row = [channel[i] EXCEPT !.name = n]
    <3>1. PICK n \in Names : row = [old EXCEPT !.name = n]
      BY <1>1, <2>1
    <3> QED
      BY <3>1 DEF ChannelRows
  <2>2. CASE \E m \in Modes \union {"inherit"}, k \in Minutes, r \in Rules \union {NoRule} :
               row = [channel[i] EXCEPT !.mode = m, !.minutes = k, !.pin = r]
    <3>1. PICK m \in Modes \union {"inherit"}, k \in Minutes, r \in Rules \union {NoRule} :
            row = [old EXCEPT !.mode = m, !.minutes = k, !.pin = r]
      BY <1>1, <2>2
    <3> QED
      BY <2>0, <3>1 DEF ChannelRows
  <2> QED
    BY <2>1, <2>2
<1>4. Fit(row)
  BY <1>1, <1>2, <1>3 DEF Fit
<1> QED
  BY <1>2, <1>4, WroteChannel

\* What a request may be sent: one of the values, or nothing.
MaySend(S) == {{}} \union {{x} : x \in S}

LEMMA SentIs == ASSUME NEW S, NEW old \in S, NEW new \in MaySend(S) PROVE Sent(old, new) \in S
  BY DEF MaySend, Sent

LEMMA ModeSet ==
    ASSUME GInv, NEW S \in SUBSET Present, NEW m \in Modes \union {"inherit"}, NEW minutes \in MaySend(Minutes),
           NEW pins \in MaySend(RulesThere \union {NoRule}), SetDummyMode(S, m, minutes, pins)
    PROVE  /\ GInv' /\ \A i \in Channels : channel'[i] = channel[i] \/ channel'[i].stamp = began'
           /\ UNCHANGED <<rule, category, guide, refreshed>>
<1>1. PICK rows : rows = [i \in Channels |->
      IF i \notin S THEN channel[i]
      ELSE [channel[i] EXCEPT !.mode = m, !.minutes = Sent(channel[i].minutes, minutes), !.pin = Sent(channel[i].pin, pins)]]
  OBVIOUS
<1>2. WriteChannels(rows)
  BY <1>1 DEF SetDummyMode
<1>3. ASSUME NEW i \in Channels PROVE rows[i] \in ChannelRows /\ (rows[i] = channel[i] \/ Fit(rows[i]))
  <2>1. CASE i \in S
    <3>1. PICK old \in ChannelRows : old = channel[i] /\ Fit(old)
      BY <2>1, PresentFit DEF Fit
    <3>2. PICK pin : pin = Sent(old.pin, pins)
      OBVIOUS
    <3>3. PICK k : k = Sent(old.minutes, minutes)
      OBVIOUS
    <3>4. pin \in RulesThere \union {NoRule}
      <4>1. old.pin \in RulesThere \union {NoRule}
        BY <3>1, RowFields DEF Fit, RulesThere
      <4> QED
        BY <3>2, <4>1, SentIs
    <3>5. k \in Minutes
      <4>1. old.minutes \in Minutes
        BY <3>1, RowFields
      <4> QED
        BY <3>3, <4>1, SentIs
    <3>6. rows[i] = [old EXCEPT !.mode = m, !.minutes = k, !.pin = pin]
      BY <1>1, <2>1, <3>1, <3>2, <3>3
    <3>7. PICK new : new = [old EXCEPT !.mode = m, !.minutes = k, !.pin = pin]
      OBVIOUS
    <3>8. pin \in Rules \union {NoRule} /\ (pin # NoRule => rule[pin].list # NoList)
      BY <3>4 DEF RulesThere
    <3>9. new \in ChannelRows /\ new.list = old.list /\ new.name = old.name /\ new.pin = pin /\ new.guide = old.guide
      BY <3>5, <3>7, <3>8 DEF ChannelRows
    <3> QED
      BY <3>1, <3>6, <3>7, <3>8, <3>9 DEF Fit
  <2>2. CASE i \notin S
    BY <1>1, <2>2 DEF GInv, ChannelsOK
  <2> QED
    BY <2>1, <2>2
<1>4. rows \in [Channels -> ChannelRows]
  <2>1. rows = [i \in Channels |-> rows[i]]
    BY <1>1
  <2> QED
    BY <1>3, <2>1
<1> QED
  BY <1>2, <1>3, <1>4, WroteChannels

LEMMA MovedChannels ==
    ASSUME GInv, NEW S \in SUBSET Present, NEW l \in Lists, MoveChannels(S, l)
    PROVE  /\ GInv' /\ \A i \in Channels : channel'[i] = channel[i] \/ channel'[i].stamp = began'
           /\ UNCHANGED <<rule, category, guide, refreshed>>
<1>1. PICK rows : rows = [i \in Channels |-> IF i \in S THEN [channel[i] EXCEPT !.list = l] ELSE channel[i]]
  OBVIOUS
<1>2. WriteChannels(rows) /\ category[l].there /\ l # NoList
  BY <1>1, GuideAssumptions DEF MoveChannels
<1>3. ASSUME NEW i \in Channels PROVE rows[i] \in ChannelRows /\ (rows[i] = channel[i] \/ Fit(rows[i]))
  <2>1. CASE i \in S
    <3>1. rows[i] = [channel[i] EXCEPT !.list = l]
      BY <1>1, <2>1
    <3>2. PICK old \in ChannelRows : old = channel[i] /\ Fit(old)
      BY <2>1, PresentFit DEF Fit
    <3>3. PICK new : new = [old EXCEPT !.list = l]
      OBVIOUS
    <3>4. new \in ChannelRows /\ new.list = l /\ new.name = old.name /\ new.pin = old.pin /\ new.guide = old.guide
      BY <3>3 DEF ChannelRows
    <3> QED
      BY <1>2, <3>1, <3>2, <3>3, <3>4 DEF Fit
  <2>2. CASE i \notin S
    BY <1>1, <2>2 DEF GInv, ChannelsOK
  <2> QED
    BY <2>1, <2>2
<1>4. rows \in [Channels -> ChannelRows]
  BY <1>1, <1>3
<1> QED
  BY <1>2, <1>3, <1>4, WroteChannels

LEMMA CopiedChannel ==
    ASSUME GInv, NEW i \in Channels, NEW l \in Lists, CopyChannel(i, l)
    PROVE  /\ GInv' /\ \A k \in Channels : channel'[k] = channel[k] \/ channel'[k].stamp = began'
           /\ UNCHANGED <<rule, category, guide, refreshed>>
<1>1. PICK old \in ChannelRows : old = channel[i] /\ Fit(old)
  BY PresentFit DEF CopyChannel, Fit
<1>2. PICK new : new = [old EXCEPT !.list = l]
  OBVIOUS
<1>3. new \in ChannelRows /\ new.list = l /\ new.name = old.name /\ new.pin = old.pin /\ new.guide = old.guide
  BY <1>2 DEF ChannelRows
<1>4. category[l].there /\ l # NoList /\ NextChannel \in Channels /\ WriteChannels([channel EXCEPT ![NextChannel] = new])
  BY <1>1, <1>2, GuideAssumptions DEF CopyChannel
<1>5. Fit(new)
  BY <1>1, <1>3, <1>4 DEF Fit
<1> QED
  BY <1>4, <1>5, WroteChannel

LEMMA AddedChannel ==
    ASSUME GInv, NEW n \in Names, NEW l \in Lists, AddManualChannel(l, n)
    PROVE  /\ GInv' /\ \A k \in Channels : channel'[k] = channel[k] \/ channel'[k].stamp = began'
           /\ UNCHANGED <<rule, category, guide, refreshed>>
<1>1. PICK old \in ChannelRows : old = NoChannel
  BY EmptyRows
<1>2. PICK new : new = [old EXCEPT !.list = l, !.name = n]
  OBVIOUS
<1>3. new \in ChannelRows /\ new.list = l /\ new.name = n /\ new.pin = old.pin /\ new.guide = old.guide
  BY <1>2 DEF ChannelRows
<1>4. category[l].there /\ l # NoList /\ NextChannel \in Channels /\ WriteChannels([channel EXCEPT ![NextChannel] = new])
  BY <1>1, <1>2, GuideAssumptions DEF AddManualChannel
<1>5. Fit(new)
  BY <1>1, <1>3, <1>4, EmptyRows DEF Fit
<1> QED
  BY <1>4, <1>5, WroteChannel

LEMMA DeletedChannel ==
    ASSUME GInv, NEW i \in Channels, DeleteChannel(i)
    PROVE  /\ GInv' /\ channel'[i].list = NoList /\ \A k \in Channels : k # i => channel'[k] = channel[k]
           /\ UNCHANGED <<rule, category, guide, refreshed>>
<1>1. Edit /\ UNCHANGED <<rule, category, guide, refreshed>>
  BY DEF DeleteChannel
<1>2. channel \in [Channels -> ChannelRows] /\ channel[i].stamp \in Nat
  BY RowFields DEF GInv, ChannelsOK
<1>3. PICK old \in ChannelRows : old = NoChannel
  BY EmptyRows
<1>4. PICK row : row = [old EXCEPT !.stamp = channel[i].stamp]
  OBVIOUS
<1>5. row \in ChannelRows /\ row.list = NoList /\ row.stamp = channel[i].stamp
  <2>1. row \in ChannelRows /\ row.list = old.list /\ row.stamp = channel[i].stamp
    BY <1>2, <1>4 DEF ChannelRows
  <2> QED
    BY <1>3, <2>1, EmptyRows
<1>6. channel' = [channel EXCEPT ![i] = row]
  BY <1>3, <1>4 DEF DeleteChannel
<1>7. channel' \in [Channels -> ChannelRows] /\ channel'[i] = row /\ \A k \in Channels : k # i => channel'[k] = channel[k]
  BY <1>2, <1>5, <1>6
<1> QED
  BY <1>1, <1>5, <1>7, ChannelsChange

LEMMA ClearedCategory ==
    ASSUME GInv, NEW l \in Lists, ClearCategoryEpg(l)
    PROVE  /\ GInv' /\ \A i \in Channels : channel'[i] = channel[i] \/ channel'[i].stamp = began'
           /\ UNCHANGED <<rule, category, guide, refreshed>>
<1>1. Edit /\ UNCHANGED <<rule, category, guide, refreshed>>
  BY DEF ClearCategoryEpg
<1>2. edits' = edits + 1 /\ edits' \in Nat /\ began' \in Nat /\ began' \in 1..edits'
  BY <1>1, EditCounts DEF GInv
<1>3. ASSUME NEW i \in Channels
      PROVE  channel'[i] \in ChannelRows /\ (channel'[i] = channel[i] \/ (channel'[i].stamp = began' /\ Fit(channel'[i])))
  <2>1. CASE i \in ChannelsOf(l)
    <3>1. i \in Present
      BY <2>1, GuideAssumptions DEF ChannelsOf, Present
    <3>2. PICK old \in ChannelRows : old = channel[i] /\ Fit(old)
      BY <3>1, PresentFit DEF Fit
    <3>3. PICK new : new = [old EXCEPT !.guide = NoGuide, !.stamp = began']
      OBVIOUS
    <3>4. new \in ChannelRows /\ new.list = old.list /\ new.name = old.name /\ new.pin = old.pin /\ new.guide = NoGuide
          /\ new.stamp = began'
      BY <1>2, <3>3 DEF ChannelRows
    <3>5. channel'[i] = new
      BY <2>1, <3>2, <3>3 DEF ClearCategoryEpg
    <3> QED
      BY <1>2, <3>2, <3>4, <3>5 DEF Fit
  <2>2. CASE i \notin ChannelsOf(l)
    BY <2>2 DEF ClearCategoryEpg, GInv, ChannelsOK
  <2> QED
    BY <2>1, <2>2
<1>4. channel' \in [Channels -> ChannelRows]
  <2>1. channel' = [i \in Channels |-> channel'[i]]
    BY DEF ClearCategoryEpg
  <2> QED
    BY <1>3, <2>1
<1> QED
  BY <1>1, <1>3, <1>4, ChannelsChange

-----------------------------------------------------------------------------
(* Copies *)

\* Copies get new ids, in the order of the originals.
LEMMA CopiesAreNew ==
    ASSUME NEW S \in SUBSET Nat, IsFiniteSet(S), NEW next \in Nat
    PROVE  /\ \A i \in S : CopyOf(S, next, i) \in Nat /\ CopyOf(S, next, i) >= next
           /\ \A i, k \in S : i < k => CopyOf(S, next, i) < CopyOf(S, next, k)
           /\ \A n \in Copies(S, next) : Original(S, next, n) \in S /\ CopyOf(S, next, Original(S, next, n)) = n
           /\ \A i \in S : CopyOf(S, next, i) \in Copies(S, next) /\ Original(S, next, CopyOf(S, next, i)) = i
<1>1. ASSUME NEW i \in S PROVE IsFiniteSet({j \in S : j < i}) /\ Cardinality({j \in S : j < i}) \in Nat
  BY FS_Subset, FS_CardinalityType
<1>2. \A i \in S : CopyOf(S, next, i) \in Nat /\ CopyOf(S, next, i) >= next
  BY <1>1 DEF CopyOf
<1>3. ASSUME NEW i \in S, NEW k \in S, i < k PROVE CopyOf(S, next, i) < CopyOf(S, next, k)
  <2>1. PICK A : A = {j \in S : j < i}
    OBVIOUS
  <2>2. PICK B : B = {j \in S : j < k}
    OBVIOUS
  <2>3. A \subseteq B /\ i \in B /\ i \notin A
    <3>1. i \in Nat /\ k \in Nat /\ \A j \in S : j \in Nat
      OBVIOUS
    <3>2. \A j \in S : j < i => j < k
      BY <1>3, <3>1
    <3>3. ~(i < i)
      BY <3>1
    <3> QED
      BY <1>3, <2>1, <2>2, <3>2, <3>3
  <2>4. IsFiniteSet(B) /\ Cardinality(A) \in Nat /\ Cardinality(B) \in Nat
    BY <1>1, <2>1, <2>2
  <2>5. Cardinality(A) < Cardinality(B)
    <3>1. Cardinality(A) <= Cardinality(B) /\ (Cardinality(A) = Cardinality(B) => A = B)
      BY <2>3, <2>4, FS_Subset
    <3> QED
      BY <2>3, <2>4, <3>1
  <2>6. CopyOf(S, next, i) = next + Cardinality(A) /\ CopyOf(S, next, k) = next + Cardinality(B)
    BY <2>1, <2>2 DEF CopyOf
  <2> QED
    BY <2>4, <2>5, <2>6
<1>4. \A n \in Copies(S, next) : Original(S, next, n) \in S /\ CopyOf(S, next, Original(S, next, n)) = n
  BY DEF Copies, Original
<1>5. ASSUME NEW i \in S PROVE CopyOf(S, next, i) \in Copies(S, next) /\ Original(S, next, CopyOf(S, next, i)) = i
  <2>1. PICK n : n = CopyOf(S, next, i)
    OBVIOUS
  <2>2. n \in Copies(S, next)
    BY <2>1 DEF Copies
  <2>3. PICK k \in S : k = Original(S, next, n) /\ CopyOf(S, next, k) = n
    BY <1>4, <2>2
  <2>4. ~(i < k) /\ ~(k < i)
    BY <1>2, <1>3, <2>1, <2>3
  <2>5. i \in Nat /\ k \in Nat
    OBVIOUS
  <2>6. i = k
    BY <2>4, <2>5
  <2> QED
    BY <2>1, <2>2, <2>3, <2>6
<1> QED
  BY <1>2, <1>3, <1>4, <1>5

OldRules    == DOMAIN copying.rules
OldChannels == DOMAIN copying.channels
NewRules    == Copies(OldRules, NextRule)
NewChannels == Copies(OldChannels, NextChannel)

LEMMA OtherList == Other \in Lists /\ Other # First /\ Other # NoList /\ First # NoList
  BY GuideAssumptions DEF Other

LEMMA DuplicateEdits ==
    ASSUME GInv, Duplicate
    PROVE  edits' = edits + 1 /\ edits \in Nat /\ edits' \in Nat /\ edits' \in 1..MaxEdits /\ began' \in Nat /\ began' \in 1..edits' /\ now' = now
           /\ UNCHANGED <<guide, refreshed>>
<1>1. Commit /\ UNCHANGED <<guide, refreshed>>
  BY DEF Duplicate
<1> QED
  BY <1>1, EditCounts

\* What is copied has been read.
LEMMA ReadRows ==
    ASSUME CopyingOK, Duplicate
    PROVE  /\ OldRules \subseteq Rules /\ OldChannels \subseteq Channels
           /\ \A r \in OldRules : copying.rules[r] \in RuleRows
           /\ \A i \in OldChannels : /\ copying.channels[i] \in ChannelRows /\ copying.channels[i].name \in Names
                                     /\ copying.channels[i].guide # NoGuide => guide[copying.channels[i].guide].there
           /\ copying.category \in CategoryRows /\ copying.category.there /\ ~category[Other].there
  BY DEF CopyingOK, Duplicate, OldRules, OldChannels

\* What a duplicate is made of.
LEMMA DuplicateMade ==
    ASSUME GInv, CopyingOK, Duplicate
    PROVE  /\ ~category[Other].there /\ UNCHANGED <<guide, refreshed>>
           /\ NewRules \subseteq Rules /\ NewChannels \subseteq Channels
           /\ \A r \in NewRules : /\ Original(OldRules, NextRule, r) \in OldRules
                                  /\ rule[r].list = NoList /\ rule[r].stamp = 0
                                  /\ rule'[r] = [copying.rules[Original(OldRules, NextRule, r)] EXCEPT !.list = Other, !.stamp = began']
           /\ \A r \in Rules \ NewRules : rule'[r] = rule[r]
           /\ \A i \in NewChannels : /\ Original(OldChannels, NextChannel, i) \in OldChannels
                                     /\ channel[i].list = NoList /\ channel[i].stamp = 0
           /\ \A i \in Channels \ NewChannels : channel'[i] = channel[i]
           /\ \A r \in OldRules : CopyOf(OldRules, NextRule, r) \in NewRules
                                  /\ Original(OldRules, NextRule, CopyOf(OldRules, NextRule, r)) = r
           /\ \A i \in OldChannels : CopyOf(OldChannels, NextChannel, i) \in NewChannels
                                  /\ Original(OldChannels, NextChannel, CopyOf(OldChannels, NextChannel, i)) = i
<1>1. OldRules \in SUBSET Nat /\ IsFiniteSet(OldRules) /\ OldChannels \in SUBSET Nat /\ IsFiniteSet(OldChannels)
  BY Ids, ReadRows
<1>2. /\ \A r \in NewRules : Original(OldRules, NextRule, r) \in OldRules
      /\ \A r \in NewRules : CopyOf(OldRules, NextRule, Original(OldRules, NextRule, r)) = r
      /\ \A r \in OldRules : CopyOf(OldRules, NextRule, r) \in NewRules
                             /\ Original(OldRules, NextRule, CopyOf(OldRules, NextRule, r)) = r
  BY <1>1, CopiesAreNew, FreshRule DEF NewRules
<1>3. /\ \A i \in NewChannels : Original(OldChannels, NextChannel, i) \in OldChannels
      /\ \A i \in NewChannels : CopyOf(OldChannels, NextChannel, Original(OldChannels, NextChannel, i)) = i
      /\ \A i \in OldChannels : CopyOf(OldChannels, NextChannel, i) \in NewChannels
                             /\ Original(OldChannels, NextChannel, CopyOf(OldChannels, NextChannel, i)) = i
  BY <1>1, CopiesAreNew, FreshChannel DEF NewChannels
<1>4. NewRules \subseteq Rules /\ NewChannels \subseteq Channels
  BY DEF Duplicate, NewRules, NewChannels, OldRules, OldChannels
<1>5. ASSUME NEW r \in NewRules PROVE rule[r].list = NoList /\ rule[r].stamp = 0
  <2>1. r >= NextRule
    <3>1. PICK o \in OldRules : o = Original(OldRules, NextRule, r) /\ CopyOf(OldRules, NextRule, o) = r
      BY <1>2
    <3>2. CopyOf(OldRules, NextRule, o) >= NextRule
      BY <1>1, CopiesAreNew, FreshRule
    <3> QED
      BY <3>1, <3>2
  <2>2. r \in Rules /\ rule[r].stamp = 0
    BY <1>4, <2>1, FreshRule
  <2> QED
    BY <2>2 DEF GInv, RulesOK
<1>6. ASSUME NEW i \in NewChannels PROVE channel[i].list = NoList /\ channel[i].stamp = 0
  <2>1. i >= NextChannel
    <3>1. PICK o \in OldChannels : o = Original(OldChannels, NextChannel, i) /\ CopyOf(OldChannels, NextChannel, o) = i
      BY <1>3
    <3>2. CopyOf(OldChannels, NextChannel, o) >= NextChannel
      BY <1>1, CopiesAreNew, FreshChannel
    <3> QED
      BY <3>1, <3>2
  <2>2. i \in Channels /\ channel[i].stamp = 0
    BY <1>4, <2>1, FreshChannel
  <2> QED
    BY <2>2 DEF GInv, ChannelsOK
<1>7. rule' = [r \in Rules |->
         IF r \in NewRules
         THEN [copying.rules[Original(OldRules, NextRule, r)] EXCEPT !.list = Other, !.stamp = began'] ELSE rule[r]]
  BY DEF Duplicate, NewRules, OldRules
<1>8. \A i \in Channels \ NewChannels : channel'[i] = channel[i]
  BY DEF Duplicate, NewChannels, OldChannels
<1>9. ~category[Other].there /\ UNCHANGED <<guide, refreshed>>
  BY ReadRows DEF Duplicate
<1>10. /\ \A r \in NewRules : rule'[r] = [copying.rules[Original(OldRules, NextRule, r)] EXCEPT !.list = Other, !.stamp = began']
       /\ \A r \in Rules \ NewRules : rule'[r] = rule[r]
  BY <1>4, <1>7
<1> QED
  BY <1>2, <1>3, <1>4, <1>5, <1>6, <1>8, <1>9, <1>10

LEMMA MappedPin ==
    ASSUME GInv, CopyingOK, Duplicate, NEW pin
    PROVE  MapPin(pin) = NoRule \/ (pin \in OldRules /\ MapPin(pin) = CopyOf(OldRules, NextRule, pin) /\ MapPin(pin) \in NewRules)
  BY DuplicateMade DEF MapPin, OldRules

LEMMA CopiedRule ==
    ASSUME GInv, CopyingOK, Duplicate, NEW r \in NewRules
    PROVE  rule'[r] \in RuleRows /\ rule'[r].list = Other /\ rule'[r].stamp = began'
<1>1. PICK old \in RuleRows : old = copying.rules[Original(OldRules, NextRule, r)]
  BY DuplicateMade, ReadRows
<1>2. edits' = edits + 1 /\ edits' \in Nat /\ began' \in Nat /\ began' \in 1..edits'
  BY DuplicateEdits
<1>3. PICK new : new = [old EXCEPT !.list = Other, !.stamp = began']
  OBVIOUS
<1>4. new \in RuleRows /\ new.list = Other /\ new.stamp = began'
  BY <1>2, <1>3, OtherList DEF RuleRows
<1>5. rule'[r] = new
  BY <1>1, <1>3, DuplicateMade
<1> QED
  BY <1>2, <1>4, <1>5

LEMMA CopiedCategory ==
    ASSUME GInv, CopyingOK, Duplicate
    PROVE  /\ category' \in [Lists -> CategoryRows]
           /\ category'[Other] = [copying.category EXCEPT !.pin = MapPin(copying.category.pin), !.stamp = began']
           /\ category'[Other].there /\ category'[Other].stamp = began'
           /\ category'[Other].pin # NoRule => category'[Other].pin \in NewRules
           /\ \A l \in Lists : l # Other => category'[l] = category[l]
<1>1. category \in [Lists -> CategoryRows]
  BY DEF GInv, CategoriesOK
<1>2. PICK old \in CategoryRows : old = copying.category /\ old.there
  BY ReadRows
<1>3. edits' = edits + 1 /\ edits' \in Nat /\ began' \in Nat /\ began' \in 1..edits'
  BY DuplicateEdits
<1>4. PICK pin : pin = MapPin(old.pin)
  OBVIOUS
<1>5. pin \in Rules \union {NoRule} /\ (pin # NoRule => pin \in NewRules)
  BY <1>4, MappedPin, DuplicateMade
<1>6. PICK new : new = [old EXCEPT !.pin = pin, !.stamp = began']
  OBVIOUS
<1>7. new \in CategoryRows /\ new.there = old.there /\ new.pin = pin /\ new.stamp = began'
  BY <1>3, <1>5, <1>6 DEF CategoryRows
<1>8. category' = [category EXCEPT ![Other] = new]
  BY <1>2, <1>4, <1>6 DEF Duplicate
<1>9. category' \in [Lists -> CategoryRows] /\ category'[Other] = new /\ \A l \in Lists : l # Other => category'[l] = category[l]
  BY <1>1, <1>7, <1>8, OtherList
<1> QED
  BY <1>2, <1>3, <1>4, <1>5, <1>6, <1>7, <1>9

LEMMA CopiedChannels ==
    ASSUME GInv, CopyingOK, Duplicate, NEW i \in NewChannels, NEW o, o = Original(OldChannels, NextChannel, i)
    PROVE  /\ channel'[i] \in ChannelRows /\ channel'[i].list = Other /\ channel'[i].stamp = began'
           /\ channel'[i].pin = MapPin(copying.channels[o].pin) /\ (channel'[i].pin # NoRule => channel'[i].pin \in NewRules)
           /\ channel'[i].name = copying.channels[o].name /\ channel'[i].guide = copying.channels[o].guide
           /\ channel'[i].mode = copying.channels[o].mode /\ channel'[i].minutes = copying.channels[o].minutes
           /\ o \in OldChannels /\ copying.channels[o] \in ChannelRows
<1>1. o \in OldChannels /\ NewChannels \subseteq Channels
  BY DuplicateMade
<1>2. PICK old \in ChannelRows : old = copying.channels[o]
  BY <1>1, ReadRows
<1>3. edits' = edits + 1 /\ edits' \in Nat /\ began' \in Nat /\ began' \in 1..edits'
  BY DuplicateEdits
<1>4. PICK pin : pin = MapPin(old.pin)
  OBVIOUS
<1>5. pin \in Rules \union {NoRule} /\ (pin # NoRule => pin \in NewRules)
  BY <1>4, MappedPin, DuplicateMade
<1>6. PICK new : new = [old EXCEPT !.list = Other, !.pin = pin, !.stamp = began']
  OBVIOUS
<1>7. new \in ChannelRows /\ new.list = Other /\ new.pin = pin /\ new.stamp = began' /\ new.name = old.name
      /\ new.guide = old.guide /\ new.mode = old.mode /\ new.minutes = old.minutes
  BY <1>3, <1>5, <1>6, OtherList DEF ChannelRows
<1>8. channel'[i] = new
  BY <1>1, <1>2, <1>4, <1>6 DEF Duplicate, NewChannels, OldChannels
<1> QED
  BY <1>1, <1>2, <1>3, <1>4, <1>5, <1>7, <1>8

LEMMA Duplicated ==
    ASSUME GInv, CopyingOK, Duplicate
    PROVE  /\ GInv' /\ UNCHANGED <<guide, refreshed>>
           /\ \A r \in Rules : rule'[r] = rule[r] \/ rule'[r].stamp = began'
           /\ \A l \in Lists : category'[l] = category[l] \/ category'[l].stamp = began'
           /\ \A i \in Channels : channel'[i] = channel[i] \/ channel'[i].stamp = began'
<1>1. edits' = edits + 1 /\ edits \in Nat /\ began' \in Nat /\ began' \in 1..edits' /\ edits' \in 1..MaxEdits /\ now' = now /\ UNCHANGED <<guide, refreshed>>
  BY DuplicateEdits
<1>2. \A r \in Rules : (r \in NewRules /\ rule'[r] \in RuleRows /\ rule'[r].list = Other /\ rule'[r].stamp = began' /\ rule[r].list = NoList)
                       \/ (r \notin NewRules /\ rule'[r] = rule[r])
  BY DuplicateMade, CopiedRule
<1>3. RulesOK(rule', edits')
  <2>1. \A r \in Rules : rule[r] \in RuleRows /\ rule[r].stamp \in Nat /\ rule[r].stamp <= edits /\ (rule[r].list # NoList => rule[r].stamp # 0)
    BY RowFields DEF GInv, RulesOK
  <2>2. rule' \in [Rules -> RuleRows]
    <3>1. rule' = [r \in Rules |-> rule'[r]]
      BY DEF Duplicate
    <3> QED
      BY <1>2, <2>1, <3>1
  <2> QED
    BY <1>1, <1>2, <2>1, <2>2 DEF RulesOK
<1>4. CategoriesOK(category', rule', edits')
  <2>1. ASSUME NEW l \in Lists PROVE category'[l].stamp <= edits' /\ (category'[l].pin # NoRule => rule'[category'[l].pin].list # NoList)
    <3>1. CASE l = Other
      <4>1. category'[l].pin # NoRule => category'[l].pin \in NewRules
        BY <3>1, CopiedCategory
      <4>2. category'[l].stamp = began'
        BY <3>1, CopiedCategory
      <4> QED
        BY <1>1, <3>1, <4>1, <4>2, CopiedRule, OtherList
    <3>2. CASE l # Other
      <4>1. category'[l] = category[l] /\ category[l].stamp \in Nat /\ category[l].stamp <= edits
        BY <3>2, CopiedCategory, RowFields DEF GInv, CategoriesOK
      <4>2. category[l].pin # NoRule => category[l].pin \in Rules /\ rule[category[l].pin].list # NoList
        BY RowFields DEF GInv, CategoriesOK
      <4> QED
        BY <1>1, <1>2, <4>1, <4>2, GuideAssumptions
    <3> QED
      BY <3>1, <3>2
  <2>2. ASSUME NEW r \in Rules, rule'[r].list # NoList PROVE category'[rule'[r].list].there
    <3>1. CASE rule'[r].list = Other
      BY <3>1, CopiedCategory
    <3>2. CASE rule'[r].list # Other
      <4>1. rule'[r] = rule[r] /\ rule[r].list \in Lists
        BY <1>2, <2>2, <3>2, RowFields DEF GInv, RulesOK
      <4>2. category[rule[r].list].there
        BY <2>2, <4>1 DEF GInv, CategoriesOK
      <4> QED
        BY <3>2, <4>1, <4>2, CopiedCategory
    <3> QED
      BY <3>1, <3>2
  <2>3. category'[First].there
    BY CopiedCategory, OtherList, GuideAssumptions DEF GInv, CategoriesOK
  <2> QED
    BY <2>1, <2>2, <2>3, CopiedCategory DEF CategoriesOK
<1>5. ChannelsOK(channel', category', rule', guide', edits')
  <2>1. ASSUME NEW i \in Channels
        PROVE  /\ channel'[i] \in ChannelRows /\ channel'[i].stamp <= edits'
               /\ channel'[i].list # NoList =>
                    /\ channel'[i].stamp # 0 /\ channel'[i].name \in Names
                    /\ category'[channel'[i].list].there
                    /\ channel'[i].pin # NoRule => rule'[channel'[i].pin].list # NoList
                    /\ channel'[i].guide # NoGuide => guide[channel'[i].guide].there
    <3>1. CASE i \in NewChannels
      <4>1. PICK o : o = Original(OldChannels, NextChannel, i)
        OBVIOUS
      <4>2. /\ channel'[i] \in ChannelRows /\ channel'[i].list = Other /\ channel'[i].stamp = began'
            /\ channel'[i].pin # NoRule => channel'[i].pin \in NewRules
            /\ channel'[i].name = copying.channels[o].name /\ channel'[i].guide = copying.channels[o].guide
            /\ o \in OldChannels
        BY <3>1, <4>1, CopiedChannels
      <4>3. copying.channels[o].name \in Names /\ (copying.channels[o].guide # NoGuide => guide[copying.channels[o].guide].there)
        BY <4>2, ReadRows
      <4>4. channel'[i].pin # NoRule => rule'[channel'[i].pin].list # NoList
        BY <4>2, CopiedRule, OtherList
      <4>5. category'[Other].there
        BY CopiedCategory
      <4> QED
        BY <1>1, <4>2, <4>3, <4>4, <4>5
    <3>2. CASE i \notin NewChannels
      <4>1. channel'[i] = channel[i] /\ channel[i] \in ChannelRows /\ channel[i].stamp \in Nat /\ channel[i].stamp <= edits
        BY <3>2, DuplicateMade, RowFields DEF GInv, ChannelsOK
      <4>2. ASSUME channel[i].list # NoList
            PROVE  /\ channel[i].stamp # 0 /\ channel[i].name \in Names
                   /\ category'[channel[i].list].there
                   /\ channel[i].pin # NoRule => rule'[channel[i].pin].list # NoList
                   /\ channel[i].guide # NoGuide => guide[channel[i].guide].there
        <5>1. /\ channel[i].stamp # 0 /\ channel[i].name \in Names
              /\ category[channel[i].list].there /\ channel[i].list \in Lists
              /\ channel[i].pin # NoRule => channel[i].pin \in Rules /\ rule[channel[i].pin].list # NoList
              /\ channel[i].guide # NoGuide => guide[channel[i].guide].there
          BY <4>1, <4>2, RowFields DEF GInv, ChannelsOK
        <5>2. category'[channel[i].list].there
          BY <5>1, CopiedCategory
        <5>3. channel[i].pin # NoRule => rule'[channel[i].pin].list # NoList
          BY <1>2, <5>1, OtherList
        <5> QED
          BY <5>1, <5>2, <5>3
      <4> QED
        BY <1>1, <4>1, <4>2
    <3> QED
      BY <3>1, <3>2
  <2>2. channel' \in [Channels -> ChannelRows]
    <3>1. channel' = [i \in Channels |-> channel'[i]]
      BY DEF Duplicate
    <3> QED
      BY <2>1, <3>1
  <2> QED
    BY <1>1, <2>1, <2>2 DEF ChannelsOK
<1>6. refreshed' \in 0..edits' /\ guide' = guide
  BY <1>1 DEF GInv
<1>7. \A i \in Channels : channel'[i] = channel[i] \/ channel'[i].stamp = began'
  <2> TAKE i \in Channels
  <2>1. CASE i \in NewChannels
    BY <2>1, CopiedChannels
  <2>2. CASE i \notin NewChannels
    BY <2>2, DuplicateMade
  <2> QED
    BY <2>1, <2>2
<1>8. \A l \in Lists : category'[l] = category[l] \/ category'[l].stamp = began'
  BY CopiedCategory
<1> QED
  BY <1>1, <1>2, <1>3, <1>4, <1>5, <1>6, <1>7, <1>8 DEF GInv

-----------------------------------------------------------------------------
(* A refresh *)

LEMMA Refreshed ==
    ASSUME GInv, NEW feed \in SUBSET Guides, NEW shows \in [feed -> Shows], Refresh(feed, shows)
    PROVE  /\ GInv' /\ UNCHANGED <<rule, category>> /\ refreshed' = began'
           /\ \A i \in Channels :
                /\ channel'[i].list = channel[i].list /\ channel'[i].name = channel[i].name /\ channel'[i].mode = channel[i].mode
                /\ channel'[i].minutes = channel[i].minutes /\ channel'[i].stamp = channel[i].stamp /\ channel'[i].pin = channel[i].pin
                /\ channel'[i].guide \in {NoGuide, channel[i].guide}
<1>1. Edit /\ edits' = edits + 1 /\ edits \in Nat /\ began' \in Nat /\ began' \in 1..edits' /\ edits' \in 1..MaxEdits /\ now' = now /\ UNCHANGED <<rule, category>>
      /\ refreshed' = began'
  BY EditCounts DEF Refresh, GInv
<1>2. \A g \in Guides : guide'[g] = [there |-> g \in feed, shows |-> IF g \in feed THEN shows[g] ELSE {}]
  BY DEF Refresh
<1>3. guide' \in [Guides -> GuideRows]
  <2>1. ASSUME NEW g \in Guides PROVE guide'[g] \in GuideRows
    <3>1. CASE g \in feed
      <4>1. guide'[g] = [there |-> TRUE, shows |-> shows[g]]
        BY <1>2, <3>1
      <4> QED
        BY <3>1, <4>1 DEF GuideRows
    <3>2. CASE g \notin feed
      <4>0. (g \in feed) = FALSE
        BY <3>2
      <4>1. guide'[g] = [there |-> FALSE, shows |-> {}]
        BY <1>2, <4>0
      <4> QED
        BY <4>1 DEF GuideRows
    <3> QED
      BY <3>1, <3>2
  <2>2. guide' = [g \in Guides |-> guide'[g]]
    BY DEF Refresh
  <2> QED
    BY <2>1, <2>2
<1>4. ASSUME NEW g \in feed PROVE guide'[g].there
  <2>1. guide'[g] = [there |-> TRUE, shows |-> shows[g]]
    BY <1>2
  <2> QED
    BY <2>1
<1>5. ASSUME NEW i \in Channels
      PROVE  /\ channel'[i] \in ChannelRows
             /\ channel'[i].list = channel[i].list /\ channel'[i].name = channel[i].name /\ channel'[i].mode = channel[i].mode
             /\ channel'[i].minutes = channel[i].minutes /\ channel'[i].stamp = channel[i].stamp /\ channel'[i].pin = channel[i].pin
             /\ channel'[i].guide \in {NoGuide, channel[i].guide} /\ channel'[i].guide \in feed \union {NoGuide}
  <2>1. PICK old \in ChannelRows : old = channel[i]
    BY DEF GInv, ChannelsOK
  <2>2. PICK g : g = IF old.guide \in feed THEN old.guide ELSE NoGuide
    OBVIOUS
  <2>3. PICK new : new = [old EXCEPT !.guide = g]
    OBVIOUS
  <2>4. channel'[i] = new
    BY <2>1, <2>2, <2>3 DEF Refresh
  <2>5. g \in feed \union {NoGuide} /\ g \in {NoGuide, old.guide} /\ g \in Guides \union {NoGuide}
    BY <2>2
  <2>6. /\ new \in ChannelRows /\ new.list = old.list /\ new.name = old.name /\ new.mode = old.mode
        /\ new.minutes = old.minutes /\ new.stamp = old.stamp /\ new.pin = old.pin /\ new.guide = g
    BY <2>3, <2>5 DEF ChannelRows
  <2> QED
    BY <2>1, <2>4, <2>5, <2>6
<1>6. channel' \in [Channels -> ChannelRows]
  <2>1. channel' = [i \in Channels |-> channel'[i]]
    BY DEF Refresh
  <2> QED
    BY <1>5, <2>1
<1>7. RulesOK(rule', edits')
  <2>1. \A r \in Rules : rule[r].stamp \in Nat /\ rule[r].stamp <= edits
    BY RowFields DEF GInv, RulesOK
  <2> QED
    BY <1>1, <2>1 DEF GInv, RulesOK
<1>8. CategoriesOK(category', rule', edits')
  <2>1. \A l \in Lists : category[l].stamp \in Nat /\ category[l].stamp <= edits
    BY RowFields DEF GInv, CategoriesOK
  <2> QED
    BY <1>1, <2>1 DEF GInv, CategoriesOK
<1>9. ChannelsOK(channel', category', rule', guide', edits')
  <2>1. ASSUME NEW i \in Channels
        PROVE  /\ channel'[i].stamp <= edits'
               /\ channel'[i].list # NoList =>
                    /\ channel'[i].stamp # 0 /\ channel'[i].name \in Names
                    /\ category[channel'[i].list].there
                    /\ channel'[i].pin # NoRule => rule[channel'[i].pin].list # NoList
                    /\ channel'[i].guide # NoGuide => guide'[channel'[i].guide].there
    <3>1. channel[i].stamp \in Nat /\ channel[i].stamp <= edits
      BY RowFields DEF GInv, ChannelsOK
    <3>2. channel'[i].stamp <= edits'
      BY <1>1, <1>5, <3>1
    <3>3. channel'[i].guide # NoGuide => guide'[channel'[i].guide].there
      BY <1>4, <1>5
    <3>4. channel[i].list # NoList =>
            /\ channel[i].stamp # 0 /\ channel[i].name \in Names /\ category[channel[i].list].there
            /\ channel[i].pin # NoRule => rule[channel[i].pin].list # NoList
      BY DEF GInv, ChannelsOK
    <3> QED
      BY <1>5, <3>2, <3>3, <3>4
  <2> QED
    BY <1>1, <1>6, <2>1 DEF ChannelsOK
<1> QED
  BY <1>1, <1>3, <1>5, <1>7, <1>8, <1>9 DEF GInv

-----------------------------------------------------------------------------
(* Every step *)

\* What a request may do to a row without writing updated_at: the database
\* takes a pin or a mapping away.
Weaker(new, old) ==
    /\ new.list = old.list /\ new.name = old.name /\ new.mode = old.mode /\ new.minutes = old.minutes
    /\ new.stamp = old.stamp
    /\ new.pin \in {NoRule, old.pin} /\ new.guide \in {NoGuide, old.guide}

\* A row stays, is stamped with a new request's number, or is emptied; a pin
\* is taken away with its rule; programmes change with a refresh.
Moved ==
    /\ edits' \in {edits, edits + 1}
    /\ \A r \in Rules : rule'[r] = rule[r] \/ rule'[r].stamp = began' \/ rule'[r].list = NoList
    /\ \A l \in Lists : \/ category'[l] = category[l] \/ category'[l].stamp = began'
                        \/ /\ category[l].pin # NoRule /\ rule'[category[l].pin].list = NoList
                           /\ category'[l] = [category[l] EXCEPT !.pin = NoRule]
    /\ \A i \in Channels : \/ channel'[i].stamp = began' \/ channel'[i].list = NoList
                           \/ Weaker(channel'[i], channel[i])
    /\ (guide' = guide /\ refreshed' = refreshed) \/ refreshed' = began'

LEMMA StaysMoves ==
    ASSUME GInv, edits' = edits, tables' = tables
    PROVE  Moved
<1>1. rule' = rule /\ category' = category /\ channel' = channel /\ guide' = guide /\ refreshed' = refreshed
  BY DEF tables
<1> QED
  BY <1>1 DEF Moved, Weaker

LEMMA RulesMove ==
    ASSUME edits' = edits + 1, UNCHANGED <<category, channel, guide, refreshed>>,
           \A r \in Rules : rule'[r] = rule[r] \/ rule'[r].stamp = began'
    PROVE  Moved
  BY DEF Moved, Weaker

LEMMA ChannelsMove ==
    ASSUME edits' = edits + 1, UNCHANGED <<rule, category, guide, refreshed>>,
           \A i \in Channels : channel'[i] = channel[i] \/ channel'[i].stamp = began' \/ channel'[i].list = NoList
    PROVE  Moved
  BY DEF Moved, Weaker

LEMMA EditRulesStep == ASSUME GInv, NEW l \in Lists, EditRules(l) PROVE GInv' /\ Moved
<1>0. Edit => edits' = edits + 1
  BY EditCounts
<1>1. ASSUME NEW p \in Patterns, CreateRule(l, p) PROVE GInv' /\ Moved
  <2>1. edits' = edits + 1 /\ UNCHANGED <<category, channel, guide, refreshed>>
    BY <1>0, <1>1 DEF CreateRule, WriteRule
  <2>2. GInv' /\ \A r \in Rules : rule'[r] = rule[r] \/ rule'[r].stamp = began'
    BY <1>1, CreatedRule
  <2> QED
    BY <2>1, <2>2, RulesMove
<1>2. ASSUME NEW r \in Rules, NEW p \in Patterns, NEW on \in BOOLEAN, UpdateRule(l, r, p, on) PROVE GInv' /\ Moved
  <2>1. edits' = edits + 1 /\ UNCHANGED <<category, channel, guide, refreshed>>
    BY <1>0, <1>2 DEF UpdateRule, WriteRule
  <2>2. GInv' /\ \A k \in Rules : rule'[k] = rule[k] \/ rule'[k].stamp = began'
    BY <1>2, UpdatedRule
  <2> QED
    BY <2>1, <2>2, RulesMove
<1>3. ASSUME NEW items \in SetToSeqs({r \in Rules : rule[r].list # NoList}), ReorderRules(l, items) PROVE GInv' /\ Moved
  <2>1. edits' = edits + 1 /\ UNCHANGED <<category, channel, guide, refreshed>>
    BY <1>0, <1>3 DEF ReorderRules
  <2>2. GInv' /\ \A k \in Rules : rule'[k] = rule[k] \/ rule'[k].stamp = began'
    BY <1>3, ReorderedRules
  <2> QED
    BY <2>1, <2>2, RulesMove
<1>4. ASSUME NEW r \in Rules, DeleteRule(l, r) PROVE GInv' /\ Moved
  <2>1. edits' = edits + 1 /\ UNCHANGED <<guide, refreshed>>
    BY <1>0, <1>4 DEF DeleteRule
  <2>2. /\ GInv'
        /\ rule'[r].list = NoList /\ \A k \in Rules : k # r => rule'[k] = rule[k]
        /\ \A k \in Lists : category[k].pin # r => category'[k] = category[k]
        /\ \A k \in Lists : category[k].pin = r => category'[k] = [category[k] EXCEPT !.pin = NoRule]
        /\ \A i \in Channels : channel[i].pin # r => channel'[i] = channel[i]
        /\ \A i \in Channels : channel[i].pin = r => channel'[i] = [channel[i] EXCEPT !.pin = NoRule]
    BY <1>4, DeletedRule
  <2>3. ASSUME NEW i \in Channels PROVE Weaker(channel'[i], channel[i])
    <3>1. CASE channel[i].pin # r
      BY <2>2, <3>1 DEF Weaker
    <3>2. CASE channel[i].pin = r
      <4>1. PICK old \in ChannelRows : old = channel[i]
        BY DEF GInv, ChannelsOK
      <4>2. channel'[i] = [old EXCEPT !.pin = NoRule]
        BY <2>2, <3>2, <4>1
      <4> QED
        BY <4>1, <4>2 DEF Weaker, ChannelRows
    <3> QED
      BY <3>1, <3>2
  <2>4. ASSUME NEW k \in Lists
        PROVE  \/ category'[k] = category[k]
               \/ /\ category[k].pin # NoRule /\ rule'[category[k].pin].list = NoList
                  /\ category'[k] = [category[k] EXCEPT !.pin = NoRule]
    BY <2>2, RuleZero
  <2> QED
    BY <2>1, <2>2, <2>3, <2>4 DEF Moved
<1> QED
  BY <1>1, <1>2, <1>3, <1>4 DEF EditRules

LEMMA EditCategoryStep == ASSUME GInv, NEW l \in Lists, EditCategory(l) PROVE GInv' /\ Moved
<1>1. ASSUME NEW m \in Modes, NEW k \in Minutes, NEW r \in Rules \union {NoRule},
             UpdateCategory(l, [category[l] EXCEPT !.mode = m, !.minutes = k, !.pin = r])
      PROVE  GInv' /\ Moved
  <2>1. PICK old \in CategoryRows : old = category[l]
    BY DEF GInv, CategoriesOK
  <2>2. PICK row : row = [old EXCEPT !.mode = m, !.minutes = k, !.pin = r]
    OBVIOUS
  <2>3. row \in CategoryRows /\ row.there = old.there
    BY <2>2 DEF CategoryRows
  <2>4. UpdateCategory(l, row)
    BY <1>1, <2>1, <2>2
  <2>5. GInv' /\ category'[l].stamp = began' /\ (\A i \in Lists : i # l => category'[i] = category[i])
        /\ UNCHANGED <<rule, channel, guide, refreshed>>
    BY <2>1, <2>3, <2>4, UpdatedCategory
  <2>6. edits' = edits + 1
    BY <2>4, EditCounts DEF UpdateCategory
  <2> QED
    BY <2>5, <2>6 DEF Moved, Weaker
<1>2. CASE ClearCategoryEpg(l)
  <2>1. edits' = edits + 1
    BY <1>2, EditCounts DEF ClearCategoryEpg
  <2> QED
    BY <1>2, <2>1, ClearedCategory, ChannelsMove
<1> QED
  BY <1>1, <1>2 DEF EditCategory

LEMMA EditChannelsStep == ASSUME GInv, EditChannels PROVE GInv' /\ Moved
<1>0. Edit => edits' = edits + 1
  BY EditCounts
<1>w. ASSUME NEW rows, WriteChannels(rows) PROVE edits' = edits + 1
  BY <1>0, <1>w DEF WriteChannels
<1>1. ASSUME NEW i \in Channels, DeleteChannel(i) PROVE GInv' /\ Moved
  <2>1. edits' = edits + 1
    BY <1>0, <1>1 DEF DeleteChannel
  <2>2. GInv' /\ channel'[i].list = NoList /\ (\A k \in Channels : k # i => channel'[k] = channel[k])
        /\ UNCHANGED <<rule, category, guide, refreshed>>
    BY <1>1, DeletedChannel
  <2> QED
    BY <2>1, <2>2, ChannelsMove
<1>2. ASSUME NEW i \in Channels, NEW row, UpdateChannel(i, row),
             \/ \E n \in Names : row = [channel[i] EXCEPT !.name = n]
             \/ \E m \in Modes \union {"inherit"}, k \in Minutes, r \in Rules \union {NoRule} :
                  row = [channel[i] EXCEPT !.mode = m, !.minutes = k, !.pin = r]
      PROVE  GInv' /\ Moved
  <2>1. edits' = edits + 1
    BY <1>w, <1>2 DEF UpdateChannel
  <2>2. /\ GInv' /\ \A k \in Channels : channel'[k] = channel[k] \/ channel'[k].stamp = began'
        /\ UNCHANGED <<rule, category, guide, refreshed>>
    BY <1>2, UpdatedChannel
  <2> QED
    BY <2>1, <2>2, ChannelsMove
<1>3. ASSUME NEW S \in SUBSET Present, NEW m \in Modes \union {"inherit"}, NEW minutes \in MaySend(Minutes),
             NEW pins \in MaySend(RulesThere \union {NoRule}), SetDummyMode(S, m, minutes, pins)
      PROVE  GInv' /\ Moved
  <2>1. edits' = edits + 1
    BY <1>w, <1>3 DEF SetDummyMode
  <2>2. /\ GInv' /\ \A k \in Channels : channel'[k] = channel[k] \/ channel'[k].stamp = began'
        /\ UNCHANGED <<rule, category, guide, refreshed>>
    BY <1>3, ModeSet
  <2> QED
    BY <2>1, <2>2, ChannelsMove
<1>4. ASSUME NEW S \in SUBSET Present, NEW g \in Guides \union {NoGuide}, MapGuides(S, g) PROVE GInv' /\ Moved
  <2>1. edits' = edits + 1
    BY <1>w, <1>4 DEF MapGuides
  <2>2. /\ GInv' /\ \A k \in Channels : channel'[k] = channel[k] \/ channel'[k].stamp = began'
        /\ UNCHANGED <<rule, category, guide, refreshed>>
    BY <1>4, MappedGuides
  <2> QED
    BY <2>1, <2>2, ChannelsMove
<1>5. ASSUME NEW S \in SUBSET Present, NEW l \in Lists, MoveChannels(S, l) PROVE GInv' /\ Moved
  <2>1. edits' = edits + 1
    BY <1>w, <1>5 DEF MoveChannels
  <2>2. /\ GInv' /\ \A k \in Channels : channel'[k] = channel[k] \/ channel'[k].stamp = began'
        /\ UNCHANGED <<rule, category, guide, refreshed>>
    BY <1>5, MovedChannels
  <2> QED
    BY <2>1, <2>2, ChannelsMove
<1>6. ASSUME NEW i \in Channels, NEW l \in Lists, CopyChannel(i, l) PROVE GInv' /\ Moved
  <2>1. edits' = edits + 1
    BY <1>w, <1>6 DEF CopyChannel
  <2>2. /\ GInv' /\ \A k \in Channels : channel'[k] = channel[k] \/ channel'[k].stamp = began'
        /\ UNCHANGED <<rule, category, guide, refreshed>>
    BY <1>6, CopiedChannel
  <2> QED
    BY <2>1, <2>2, ChannelsMove
<1>7. ASSUME NEW n \in Names, NEW l \in Lists, AddManualChannel(l, n) PROVE GInv' /\ Moved
  <2>1. edits' = edits + 1
    BY <1>w, <1>7 DEF AddManualChannel
  <2>2. /\ GInv' /\ \A k \in Channels : channel'[k] = channel[k] \/ channel'[k].stamp = began'
        /\ UNCHANGED <<rule, category, guide, refreshed>>
    BY <1>7, AddedChannel
  <2> QED
    BY <2>1, <2>2, ChannelsMove
<1>8. ASSUME NEW i \in Channels, EditChannel(i) PROVE GInv' /\ Moved
  <2>2. ASSUME NEW n \in Names, UpdateChannel(i, [channel[i] EXCEPT !.name = n]) PROVE GInv' /\ Moved
    <3>1. PICK row : row = [channel[i] EXCEPT !.name = n]
      OBVIOUS
    <3> QED
      BY <1>2, <2>2, <3>1
  <2>3. ASSUME NEW m \in Modes \union {"inherit"}, NEW k \in Minutes, NEW r \in Rules \union {NoRule},
               UpdateChannel(i, [channel[i] EXCEPT !.mode = m, !.minutes = k, !.pin = r])
        PROVE  GInv' /\ Moved
    <3>1. PICK row : row = [channel[i] EXCEPT !.mode = m, !.minutes = k, !.pin = r]
      OBVIOUS
    <3> QED
      BY <1>2, <2>3, <3>1
  <2> QED
    BY <1>1, <1>8, <2>2, <2>3 DEF EditChannel
<1>9. ASSUME NEW S \in SUBSET Present, SetModes(S) PROVE GInv' /\ Moved
  <2>1. PICK m \in Modes \union {"inherit"}, minutes \in MaySend(Minutes), pins \in MaySend(RulesThere \union {NoRule}) :
          SetDummyMode(S, m, minutes, pins)
    BY <1>9 DEF SetModes, MaySend
  <2> QED
    BY <1>3, <2>1
<1>10. ASSUME NEW g \in Guides \union {NoGuide}, MapChannels(g) PROVE GInv' /\ Moved
  <2>1. ASSUME NEW i \in Channels, AssignGuide(i, g) \/ AutoMapGuide(i, g) PROVE \E S \in SUBSET Present : MapGuides(S, g)
    <3>1. {i} \in SUBSET Present /\ MapGuides({i}, g)
      BY <2>1 DEF AssignGuide, AutoMapGuide
    <3> QED
      BY <3>1
  <2>2. ASSUME NEW l \in Lists, NEW S \in SUBSET Present, BulkAssignGuide(l, S, g)
        PROVE  \E T \in SUBSET Present : MapGuides(T, g)
    <3>1. S \cap ChannelsOf(l) \in SUBSET Present /\ MapGuides(S \cap ChannelsOf(l), g)
      BY <2>2 DEF BulkAssignGuide
    <3> QED
      BY <3>1
  <2> QED
    BY <1>4, <1>10, <2>1, <2>2 DEF MapChannels
<1>11. ASSUME NEW S \in SUBSET Present, ClearGuides(S) PROVE GInv' /\ Moved
  BY <1>4, <1>11 DEF ClearGuides
<1>12. ASSUME NEW l \in Lists, AddChannels(l) PROVE GInv' /\ Moved
  BY <1>5, <1>6, <1>7, <1>12 DEF AddChannels
<1> QED
  BY <1>8, <1>9, <1>10, <1>11, <1>12 DEF EditChannels

LEMMA FetchReads == ASSUME Fetch PROVE UNCHANGED <<tables, now, copying, edits, began>>
  BY DEF Fetch, Statement, CountCategories, CountChannels, CountRules, CountGuides, LoadCategory, LoadChannels,
         LoadRules, ReadProgrammes

CopySteps == CopyCategory \/ CopyChannels \/ CopyRules \/ DuplicateFails

LEMMA CopyReads == ASSUME CopySteps PROVE UNCHANGED <<tables, now, kept, edits, began>>
  BY DEF CopySteps, Copying, CopyCategory, CopyChannels, CopyRules, DuplicateFails

LEMMA GuideStep == ASSUME GInv, CopyingOK, [Next]_vars PROVE GInv' /\ Moved
<1>1. CASE UNCHANGED vars
  <2>1. tables' = tables /\ edits' = edits /\ began' = began /\ now' = now
    BY <1>1 DEF vars
  <2> QED
    BY <2>1, TablesStay, StaysMoves DEF GInv
<1>2. CASE Tick
  <2>1. tables' = tables /\ edits' = edits /\ began' = began /\ now' \in Instants
    BY <1>2 DEF Tick
  <2> QED
    BY <2>1, TablesStay, StaysMoves
<1>3. CASE Fetch \/ CopySteps
  <2>1. tables' = tables /\ edits' = edits /\ began' = began /\ now' = now
    BY <1>3, FetchReads, CopyReads
  <2> QED
    BY <2>1, TablesStay, StaysMoves DEF GInv
<1>4. CASE Duplicate
  <2>1. edits' = edits + 1
    BY <1>4, DuplicateEdits
  <2> QED
    BY <1>4, <2>1, Duplicated DEF Moved, Weaker
<1>5. ASSUME NEW feed \in SUBSET Guides, NEW shows \in [feed -> Shows], Refresh(feed, shows) PROVE GInv' /\ Moved
  <2>1. edits' = edits + 1
    BY <1>5, EditCounts DEF Refresh
  <2> QED
    BY <1>5, <2>1, Refreshed DEF Moved, Weaker
<1> QED
  BY <1>1, <1>2, <1>3, <1>4, <1>5, EditRulesStep, EditCategoryStep, EditChannelsStep DEF Next, CopySteps

\* A request of the editor or a refresh.
Request ==
    \/ \E l \in Lists : EditRules(l) \/ EditCategory(l)
    \/ EditChannels
    \/ \E feed \in SUBSET Guides : \E shows \in [feed -> Shows] : Refresh(feed, shows)

LEMMA ChannelsEdited == ASSUME EditChannels PROVE Edit /\ UNCHANGED <<rule, category>>
<1>1. ASSUME NEW rows, WriteChannels(rows) PROVE Edit /\ UNCHANGED <<rule, category>>
  BY <1>1 DEF WriteChannels
<1>2. ASSUME NEW S, NEW g, MapGuides(S, g) PROVE Edit /\ UNCHANGED <<rule, category>>
  BY <1>1, <1>2 DEF MapGuides
<1>3. ASSUME NEW i, EditChannel(i) PROVE Edit /\ UNCHANGED <<rule, category>>
  BY <1>1, <1>3 DEF EditChannel, DeleteChannel, UpdateChannel
<1>4. ASSUME NEW S, SetModes(S) \/ ClearGuides(S) PROVE Edit /\ UNCHANGED <<rule, category>>
  BY <1>1, <1>2, <1>4 DEF SetModes, SetDummyMode, ClearGuides
<1>5. ASSUME NEW g, MapChannels(g) PROVE Edit /\ UNCHANGED <<rule, category>>
  BY <1>2, <1>5 DEF MapChannels, AssignGuide, AutoMapGuide, BulkAssignGuide
<1>6. ASSUME NEW l, AddChannels(l) PROVE Edit /\ UNCHANGED <<rule, category>>
  BY <1>1, <1>6 DEF AddChannels, MoveChannels, CopyChannel, AddManualChannel
<1> QED
  BY <1>3, <1>4, <1>5, <1>6 DEF EditChannels

\* A request makes no playlist.
LEMMA RequestEdits == ASSUME GInv, Request PROVE Edit /\ category'[Other].there = category[Other].there
<1>0. category \in [Lists -> CategoryRows] /\ Other \in Lists
  BY OtherList DEF GInv, CategoriesOK
<1>1. ASSUME NEW l \in Lists, EditRules(l) PROVE Edit /\ category'[Other].there = category[Other].there
  <2>1. ASSUME NEW r \in Rules, DeleteRule(l, r) PROVE Edit /\ category'[Other].there = category[Other].there
    <3>1. category'[Other] = [category[Other] EXCEPT !.pin = Unpinned(category[Other].pin, r)]
      BY <1>0, <2>1 DEF DeleteRule
    <3> QED
      BY <1>0, <2>1, <3>1 DEF DeleteRule, CategoryRows
  <2> QED
    BY <1>1, <2>1 DEF EditRules, CreateRule, UpdateRule, ReorderRules, WriteRule
<1>2. ASSUME NEW l \in Lists, EditCategory(l) PROVE Edit /\ category'[Other].there = category[Other].there
  <2>1. ASSUME NEW m, NEW k, NEW r, UpdateCategory(l, [category[l] EXCEPT !.mode = m, !.minutes = k, !.pin = r])
        PROVE  Edit /\ category'[Other].there = category[Other].there
    <3>1. PICK old \in CategoryRows : old = category[l]
      BY <1>0
    <3>2. PICK new : new = [[old EXCEPT !.mode = m, !.minutes = k, !.pin = r] EXCEPT !.stamp = began']
      OBVIOUS
    <3>3. new.there = old.there
      BY <3>2 DEF CategoryRows
    <3>4. category' = [category EXCEPT ![l] = new] /\ Edit
      BY <2>1, <3>1, <3>2 DEF UpdateCategory
    <3> QED
      BY <1>0, <3>1, <3>3, <3>4
  <2> QED
    BY <1>2, <2>1 DEF EditCategory, ClearCategoryEpg
<1> QED
  BY <1>1, <1>2, ChannelsEdited DEF Request, Refresh

LEMMA CopyingStep == ASSUME GInv, CopyingOK, [Next]_vars PROVE CopyingOK'
<1>1. CASE UNCHANGED vars \/ Tick \/ Fetch
  <2>1. copying' = copying /\ category' = category
    BY <1>1, FetchReads DEF vars, tables, Tick
  <2> QED
    BY <2>1 DEF CopyingOK
<1>2. CASE Request
  <2>1. copying' = copying /\ category'[Other].there = category[Other].there
    BY <1>2, RequestEdits DEF Edit
  <2> QED
    BY <2>1 DEF CopyingOK
<1>3. CASE Duplicate \/ DuplicateFails
  <2>1. copying' = NotCopying
    BY <1>3 DEF Duplicate, DuplicateFails, Copying
  <2> QED
    BY <2>1 DEF CopyingOK, NotCopying
<1>4. CASE CopyCategory
  <2>1. copying' = [copying EXCEPT !.step = "channels", !.category = category[First]] /\ category' = category
    BY <1>4 DEF CopyCategory, Copying, tables
  <2>2. category[First] \in CategoryRows /\ category[First].there /\ ~category[Other].there
    BY <1>4, GuideAssumptions DEF GInv, CategoriesOK, CopyCategory
  <2> QED
    BY <2>1, <2>2 DEF CopyingOK
<1>5. CASE CopyChannels
  <2>1. copying.step = "channels" /\ copying' = [copying EXCEPT !.step = "rules", !.channels = OwnChannels(First)] /\ category' = category
    BY <1>5 DEF CopyChannels, Copying, tables
  <2>2. PICK rows : rows = OwnChannels(First)
    OBVIOUS
  <2>3. /\ DOMAIN rows \subseteq Channels
        /\ \A i \in DOMAIN rows : rows[i] \in ChannelRows /\ rows[i].name \in Names
    BY <2>2, OtherList DEF OwnChannels, ChannelsOf, GInv, ChannelsOK
  <2> QED
    BY <2>1, <2>2, <2>3 DEF CopyingOK
<1>6. CASE CopyRules
  <2>1. copying.step = "rules" /\ copying' = [copying EXCEPT !.step = "write", !.rules = OwnRules(First)] /\ category' = category
    BY <1>6 DEF CopyRules, Copying, tables
  <2>2. PICK rows : rows = OwnRules(First)
    OBVIOUS
  <2>3. DOMAIN rows \subseteq Rules /\ \A r \in DOMAIN rows : rows[r] \in RuleRows
    BY <2>2 DEF OwnRules, RulesOf, GInv, RulesOK
  <2> QED
    BY <2>1, <2>2, <2>3 DEF CopyingOK
<1> QED
  BY <1>1, <1>2, <1>3, <1>4, <1>5, <1>6 DEF Next, Request

LEMMA GuideInvariance == Spec => [](GInv /\ CopyingOK)
<1>1. GInv /\ CopyingOK /\ [Next]_vars => (GInv /\ CopyingOK)'
  BY GuideStep, CopyingStep
<1>2. Init => CopyingOK
  BY DEF Init, CopyingOK, NotCopying
<1> QED
  BY <1>1, <1>2, GuideInitially, PTL DEF Spec

(* Types and integrity hold in every reachable state: no pin or mapping
   dangles, whatever is deleted, moved, copied, duplicated or refreshed. *)
THEOREM GuideTypeCorrect == Spec => []TypeOK
  BY GuideInvariance, GuideTypes, PTL

(* Made-up programmes *)

LEMMA Quotient ==
    ASSUME NEW a \in Int, NEW b \in Nat \ {0}
    PROVE  /\ a \div b \in Int /\ a % b \in Int
           /\ b * (a \div b) <= a /\ a < b * (a \div b) + b
           /\ 0 <= a % b /\ a % b < b /\ a = b * (a \div b) + (a % b)
OBVIOUS

LEMMA StepsReach ==
    ASSUME NEW from \in Int, NEW to \in Int, NEW length \in Nat \ {0}
    PROVE  /\ Steps(from, to, length) \in Int
           /\ Steps(from, to, length) * length >= to - from
           /\ (Steps(from, to, length) - 1) * length < to - from
           /\ from < to => Steps(from, to, length) >= 1
           /\ to <= from => Steps(from, to, length) <= 0
<1>1. PICK a \in Int : a = to - from + length - 1
  OBVIOUS
<1>2. PICK n \in Int : n = a \div length
  BY Quotient
<1>3. length * n <= a /\ a < length * n + length
  BY <1>2, Quotient
<1>4. n * length >= to - from /\ (n - 1) * length < to - from
  BY <1>1, <1>3
<1>5. from < to => n >= 1
  <2> SUFFICES ASSUME from < to, n <= 0 PROVE FALSE
    OBVIOUS
  <2>1. n * length <= 0
    OBVIOUS
  <2> QED
    BY <1>4, <2>1
<1>6. to <= from => n <= 0
  <2> SUFFICES ASSUME to <= from, n >= 1 PROVE FALSE
    OBVIOUS
  <2>1. (n - 1) * length >= 0
    OBVIOUS
  <2> QED
    BY <1>4, <2>1
<1> QED
  BY <1>1, <1>2, <1>4, <1>5, <1>6 DEF Steps

Programmes == [start : Int, stop : Int]

\* The zones there are: the clocks are changed by less than a block.
Zones == {z \in [before : Int, after : Int, change : Int] : z.before - z.after \in 1 - Block..Block - 1}

LEMMA ZonesKnown == Block = 36 /\ Utc \in Zones /\ \A p \in Parsers : Zone[p] \in Zones
<1>1. Block = 36
  BY DEF Block, Hour
<1>2. Utc \in [before : Int, after : Int, change : Int] /\ Utc.before = 0 /\ Utc.after = 0
  BY DEF Utc
<1>3. \A p \in Parsers : Zone[p] \in [before : Int, after : Int, change : Int] /\ Zone[p].before - Zone[p].after \in 1 - Block..Block - 1
  BY DummyEpgAssumptions
<1> QED
  BY <1>1, <1>2, <1>3 DEF Zones

LEMMA ZoneIs ==
    ASSUME NEW z \in Zones
    PROVE  /\ z.before \in Int /\ z.after \in Int /\ z.change \in Int
           /\ z.before - z.after >= -35 /\ z.before - z.after <= 35
<1>1. z \in [before : Int, after : Int, change : Int]
  BY DEF Zones
<1>2. z.before \in Int /\ z.after \in Int /\ z.change \in Int
  BY <1>1
<1>3. z.before - z.after \in -35..35
  BY ZonesKnown DEF Zones
<1> QED
  BY <1>2, <1>3

\* The moment of a time on the clocks, in numbers.
LEMMA MomentIs ==
    ASSUME NEW z \in Zones, NEW wall \in Int, NEW fold \in BOOLEAN,
           NEW b \in Int, NEW a \in Int, NEW c \in Int, b = z.before, a = z.after, c = z.change
    PROVE  /\ Moment(z, wall, fold) \in Moments
           /\ Moment(z, wall, fold).wall = wall
           /\ Moment(z, wall, fold).at =
                wall - (IF wall < c + (IF fold THEN (IF a < b THEN a ELSE b) ELSE (IF a < b THEN b ELSE a)) THEN b ELSE a)
<1>2. PICK least \in Int, most \in Int : least = AtMost(b, a) /\ most = AtLeast(b, a)
  BY DEF AtMost, AtLeast
<1>3. least = (IF a < b THEN a ELSE b) /\ most = (IF a < b THEN b ELSE a)
  BY <1>2 DEF AtMost, AtLeast
<1>4. PICK turn \in Int : turn = c + (IF fold THEN least ELSE most)
  OBVIOUS
<1>5. PICK x \in Int : x = wall - (IF wall < turn THEN b ELSE a)
  OBVIOUS
<1>6. Moment(z, wall, fold) = [at |-> x, wall |-> wall]
  <2>1. CASE fold
    BY <1>2, <1>4, <1>5, <2>1 DEF Moment
  <2>2. CASE ~fold
    BY <1>2, <1>4, <1>5, <2>2 DEF Moment
  <2> QED
    BY <2>1, <2>2
<1>7. turn = c + (IF fold THEN (IF a < b THEN a ELSE b) ELSE (IF a < b THEN b ELSE a))
  BY <1>3, <1>4
<1>8. [at |-> x, wall |-> wall] \in Moments
  BY DEF Moments
<1>9. Moment(z, wall, fold).wall = wall /\ Moment(z, wall, fold).at = x
  BY <1>6
<1> QED
  BY <1>5, <1>6, <1>7, <1>8, <1>9

\* The first of the moments at which the clocks may show a time.
LEMMA FirstMoment ==
    ASSUME NEW z \in Zones, NEW wall \in Int
    PROVE  /\ Moment(z, wall, FALSE) \in Moments
           /\ Moment(z, wall, FALSE).wall = wall
           /\ Moment(z, wall, FALSE).at =
                wall - (IF wall < z.change + (IF z.after < z.before THEN z.before ELSE z.after) THEN z.before ELSE z.after)
<1>1. PICK b \in Int, a \in Int, c \in Int : b = z.before /\ a = z.after /\ c = z.change
  BY ZoneIs
<1>2. PICK turn \in Int : turn = c + AtLeast(b, a) /\ turn = c + (IF a < b THEN b ELSE a)
  BY DEF AtLeast
<1>3. PICK x \in Int : x = wall - (IF wall < turn THEN b ELSE a)
  OBVIOUS
<1>4. Moment(z, wall, FALSE) = [at |-> x, wall |-> wall]
  BY <1>1, <1>2, <1>3 DEF Moment
<1>5. [at |-> x, wall |-> wall] \in Moments
  BY DEF Moments
<1>6. Moment(z, wall, FALSE).wall = wall /\ Moment(z, wall, FALSE).at = x
  <2>1. [at |-> x, wall |-> wall].wall = wall /\ [at |-> x, wall |-> wall].at = x
    OBVIOUS
  <2> QED
    BY <1>4, <2>1, Zenon
<1>7. x = wall - (IF wall < z.change + (IF z.after < z.before THEN z.before ELSE z.after) THEN z.before ELSE z.after)
  BY <1>1, <1>2, <1>3
<1> QED
  BY <1>4, <1>5, <1>6, <1>7

\* Blocks begin one after the other, and there are enough of them.
LEMMA BlocksGrow ==
    ASSUME NEW z \in Zones, NEW from \in Int
    PROVE  /\ \A k \in Nat : BlockAt(z, from, k) \in Int
           /\ \A k \in Nat : BlockAt(z, from, k) < BlockAt(z, from, k + 1)
           /\ \A k \in Nat : BlockAt(z, from, k) >= BlockAt(z, from, 0) + 36 * k - 35
<1>1. PICK b \in Int, a \in Int, c \in Int : b = z.before /\ a = z.after /\ c = z.change /\ b - a >= -35 /\ b - a <= 35
  BY ZoneIs
<1>2. PICK turn \in Int : turn = c + (IF a < b THEN b ELSE a)
  OBVIOUS
<1>3. ASSUME NEW k \in Nat
      PROVE  BlockAt(z, from, k) = from + k * 36 - (IF from + k * 36 < turn THEN b ELSE a)
  <2>1. from + k * 36 \in Int /\ Block = 36
    BY ZonesKnown
  <2>2. PICK wall \in Int : wall = from + k * 36
    BY <2>1
  <2>3. BlockAt(z, from, k) = Moment(z, wall, FALSE).at
    BY <2>1, <2>2 DEF BlockAt
  <2>4. Moment(z, wall, FALSE).at = wall - (IF wall < turn THEN b ELSE a)
    BY <1>1, <1>2, FirstMoment
  <2>5. BlockAt(z, from, k) = wall - (IF wall < turn THEN b ELSE a)
    BY <2>3, <2>4
  <2> QED
    BY <2>2, <2>5
<1>4. \A k \in Nat : BlockAt(z, from, k) \in Int
  BY <1>3
<1>5. ASSUME NEW k \in Nat PROVE BlockAt(z, from, k) < BlockAt(z, from, k + 1)
  <2>1. k + 1 \in Nat
    OBVIOUS
  <2>2. BlockAt(z, from, k + 1) = from + (k + 1) * 36 - (IF from + (k + 1) * 36 < turn THEN b ELSE a)
    BY <1>3, <2>1
  <2> QED
    BY <1>1, <1>3, <2>2
<1>6. ASSUME NEW k \in Nat PROVE BlockAt(z, from, k) >= BlockAt(z, from, 0) + 36 * k - 35
  <2>1. BlockAt(z, from, 0) = from + 0 * 36 - (IF from + 0 * 36 < turn THEN b ELSE a)
    BY <1>3
  <2> QED
    BY <1>1, <1>3, <2>1
<1> QED
  BY <1>4, <1>5, <1>6

\* The loop ends at the first block that does not begin before the end.
LEMMA BlocksEnd ==
    ASSUME NEW z \in Zones, NEW from \in Int, NEW to \in Int
    PROVE  /\ Blocks(z, from, to) \in Nat
           /\ BlockAt(z, from, Blocks(z, from, to)) >= to
           /\ \A k \in Nat : k < Blocks(z, from, to) => BlockAt(z, from, k) < to
<1>1. PICK first \in Int : first = BlockAt(z, from, 0)
  BY BlocksGrow
<1>2. PICK m \in Int : m = Steps(first, to, Block) /\ m * 36 >= to - first
  <2>1. Block = 36 /\ 36 \in Nat \ {0}
    BY ZonesKnown
  <2> QED
    BY <2>1, StepsReach
<1>3. PICK last \in Nat : last = AtLeast(0, m + 1) /\ last >= m + 1
  BY DEF AtLeast
<1>4. PICK S \in SUBSET Nat : S = {k \in Nat : BlockAt(z, from, k) >= to}
  OBVIOUS
<1>5. last \in S
  <2>1. BlockAt(z, from, last) \in Int /\ BlockAt(z, from, last) >= first + 36 * last - 35
    BY <1>1, BlocksGrow
  <2>2. BlockAt(z, from, last) >= to
    BY <1>2, <1>3, <2>1
  <2> QED
    BY <1>4, <2>2
<1>6. PICK n \in S : \A y \in S : n <= y
  BY <1>5, LeastOf
<1>7. n \in 0..last
  BY <1>4, <1>5, <1>6
<1>8. \A k \in 0..n - 1 : BlockAt(z, from, k) < to
  <2> TAKE k \in 0..n - 1
  <2>1. k \in Nat /\ k \notin S
    BY <1>4, <1>6
  <2>2. BlockAt(z, from, k) \in Int /\ ~(BlockAt(z, from, k) >= to)
    BY <1>4, <2>1, BlocksGrow
  <2> QED
    BY <2>2
<1>9. BlockAt(z, from, n) >= to
  BY <1>4
<1>10. \E x \in 0..last : BlockAt(z, from, x) >= to /\ \A k \in 0..x - 1 : BlockAt(z, from, k) < to
  BY <1>7, <1>8, <1>9
<1>11. Blocks(z, from, to)
         = CHOOSE x \in 0..last : BlockAt(z, from, x) >= to /\ \A k \in 0..x - 1 : BlockAt(z, from, k) < to
  BY <1>1, <1>2, <1>3 DEF Blocks
<1>12. PICK x \in 0..last : /\ x = Blocks(z, from, to) /\ BlockAt(z, from, x) >= to
                            /\ \A k \in 0..x - 1 : BlockAt(z, from, k) < to
  BY <1>10, <1>11
<1>13. \A k \in Nat : k < x => k \in 0..x - 1
  OBVIOUS
<1> QED
  BY <1>12, <1>13

\* n programmes that follow one another from one time to another.
Tiled(T, n, from, to) ==
    /\ T \in [1..n -> Programmes]
    /\ to <= from => n = 0
    /\ from < to => n >= 1 /\ T[1].start = from /\ T[n].stop = to
    /\ \A k \in 1..n : T[k].start < T[k].stop
    /\ \A k \in 1..n - 1 : T[k].stop = T[k + 1].start

LEMMA TileIs ==
    ASSUME NEW z \in Zones, NEW begin \in Int, NEW from \in Int, from = BlockAt(z, begin, 0), NEW to \in Int
    PROVE  \E n \in Nat : Tiled(Tile(z, begin, to), n, from, to)
<1>1. PICK f : f = [k \in Nat |-> BlockAt(z, begin, k)]
  OBVIOUS
<1>2. f \in [Nat -> Int] /\ f[0] = from /\ \A k \in Nat : f[k] < f[k + 1]
  <2>1. \A k \in Nat : BlockAt(z, begin, k) \in Int
    BY BlocksGrow
  <2>2. f \in [Nat -> Int]
    BY <1>1, <2>1
  <2>3. \A k \in Nat : BlockAt(z, begin, k) < BlockAt(z, begin, k + 1)
    BY BlocksGrow
  <2>4. \A k \in Nat : f[k] < f[k + 1]
    <3> TAKE k \in Nat
    <3>1. k + 1 \in Nat
      OBVIOUS
    <3>2. f[k] = BlockAt(z, begin, k) /\ f[k + 1] = BlockAt(z, begin, k + 1)
      BY <1>1, <3>1
    <3>3. BlockAt(z, begin, k) < BlockAt(z, begin, k + 1)
      BY <2>3
    <3> QED
      BY <3>2, <3>3
  <2> QED
    BY <1>1, <2>2, <2>4
<1>3. PICK n \in Nat : n = Blocks(z, begin, to) /\ f[n] >= to /\ \A k \in Nat : k < n => f[k] < to
  BY <1>1, BlocksEnd
<1>5. PICK T : T = Tile(z, begin, to)
  OBVIOUS
<1>6. T = [k \in 1..n |-> [start |-> f[k - 1], stop |-> AtMost(f[k], to)]]
  <2>1. \A k \in 1..n : f[k - 1] = BlockAt(z, begin, k - 1) /\ f[k] = BlockAt(z, begin, k)
    BY <1>1
  <2> QED
    BY <1>3, <1>5, <2>1 DEF Tile
<1>7. ASSUME NEW k \in 1..n
      PROVE  /\ T[k] \in Programmes /\ T[k].start = f[k - 1]
             /\ T[k].stop = (IF f[k] < to THEN f[k] ELSE to) /\ T[k].start < T[k].stop
  <2>1. k \in Nat /\ k - 1 \in Nat /\ k - 1 < n /\ k - 1 + 1 = k
    OBVIOUS
  <2>2. PICK x : x = AtMost(f[k], to)
    OBVIOUS
  <2>3. x = (IF f[k] < to THEN f[k] ELSE to) /\ x \in Int
    BY <1>2, <2>1, <2>2 DEF AtMost
  <2>4. T[k] = [start |-> f[k - 1], stop |-> x]
    BY <1>6, <2>2
  <2>5. f[k - 1] \in Int /\ f[k] \in Int /\ f[k - 1] < f[k] /\ f[k - 1] < to
    BY <1>2, <1>3, <2>1
  <2> QED
    BY <2>3, <2>4, <2>5 DEF Programmes
<1>8. T \in [1..n -> Programmes]
  BY <1>6, <1>7
<1>9. to <= from => n = 0
  BY <1>2, <1>3
<1>10. ASSUME from < to PROVE n >= 1 /\ T[1].start = from /\ T[n].stop = to
  <2>0. n # 0
    BY <1>2, <1>3, <1>10
  <2>1. n >= 1 /\ 1 \in 1..n /\ n \in 1..n /\ 1 - 1 = 0
    BY <2>0
  <2>2. T[1].start = f[0]
    BY <1>7, <2>1
  <2>3. T[n].stop = IF f[n] < to THEN f[n] ELSE to
    BY <1>7, <2>1
  <2>4. f[n] \in Int /\ ~(f[n] < to)
    BY <1>2, <1>3
  <2> QED
    BY <1>2, <2>1, <2>2, <2>3, <2>4
<1>11. ASSUME NEW k \in 1..n - 1 PROVE T[k].stop = T[k + 1].start
  <2>1. k \in 1..n /\ k + 1 \in 1..n /\ k \in Nat /\ k < n /\ k + 1 - 1 = k
    OBVIOUS
  <2>2. T[k + 1].start = f[k]
    BY <1>7, <2>1
  <2>3. T[k].stop = IF f[k] < to THEN f[k] ELSE to
    BY <1>7, <2>1
  <2>4. f[k] < to
    BY <1>3, <2>1
  <2> QED
    BY <2>2, <2>3, <2>4
<1> QED
  BY <1>5, <1>7, <1>8, <1>9, <1>10, <1>11 DEF Tiled

\* What GuideCovers says of what is shown from now to end.
Covers(shown, t, end) ==
    /\ shown[1].start <= t /\ shown[Len(shown)].stop >= end
    /\ \A k \in DOMAIN shown : shown[k].start < shown[k].stop
    /\ \A k \in 1..Len(shown) - 1 :
         \/ shown[k].stop = shown[k + 1].start
         \/ shown[k].stop = end /\ shown[k + 1].start > end

LEMMA HourBefore == ASSUME NEW t \in Int PROVE HourOf(t) \in Int /\ HourOf(t) <= t
  BY DEF HourOf, Hour

LEMMA NameGuideCovers ==
    ASSUME NEW t \in Int, NEW hours \in Nat \ {0}, NEW minutes \in Nat
    PROVE  Covers(NameGuide(t, hours, minutes), t, t + hours * Hour)
<1>1. PICK from \in Int : from = HourOf(t) /\ from <= t
  BY HourBefore
<1>2. PICK long \in Nat \ {0} : long = AtLeast(minutes, 1)
  BY DEF AtLeast
<1>3. PICK to \in Int : to = t + hours * Hour /\ t < to
  BY DEF Hour
<1>4. PICK n \in Nat : n = Steps(from, to, long) /\ n >= 1 /\ n * long >= to - from
  <2>0. from < to
    BY <1>1, <1>3
  <2>1. Steps(from, to, long) \in Int /\ Steps(from, to, long) >= 1
    BY <2>0, StepsReach
  <2>2. Steps(from, to, long) * long >= to - from
    BY StepsReach
  <2>3. Steps(from, to, long) \in Nat
    BY <2>1
  <2> QED
    BY <2>1, <2>2, <2>3
<1>5. PICK shown : shown = NameGuide(t, hours, minutes)
  OBVIOUS
<1>6. shown = [k \in 1..n |-> [start |-> from + (k - 1) * long, stop |-> from + k * long]]
  BY <1>1, <1>2, <1>3, <1>4, <1>5 DEF NameGuide
<1>7. DOMAIN shown = 1..n /\ Len(shown) = n
  BY <1>6
<1>8. \A k \in 1..n : shown[k].start = from + (k - 1) * long /\ shown[k].stop = from + k * long
  BY <1>6
<1>9. shown[1].start = from
  <2>1. 1 \in 1..n /\ (1 - 1) * long = 0
    BY <1>4
  <2>2. shown[1].start = from + (1 - 1) * long
    BY <1>8, <2>1
  <2> QED
    BY <2>1, <2>2
<1>10. shown[n].stop >= to
  <2>1. n \in 1..n
    BY <1>4
  <2>2. shown[n].stop = from + n * long
    BY <1>8, <2>1
  <2> QED
    BY <1>4, <2>2
<1>11. ASSUME NEW k \in 1..n PROVE shown[k].start < shown[k].stop
  <2>1. (k - 1) * long = k * long - long /\ k * long \in Int
    OBVIOUS
  <2>2. shown[k].start = from + (k - 1) * long /\ shown[k].stop = from + k * long
    BY <1>8
  <2> QED
    BY <2>1, <2>2
<1>12. ASSUME NEW k \in 1..n - 1 PROVE shown[k].stop = shown[k + 1].start
  <2>1. k \in 1..n /\ k + 1 \in 1..n /\ k + 1 - 1 = k
    OBVIOUS
  <2>2. shown[k].stop = from + k * long /\ shown[k + 1].start = from + (k + 1 - 1) * long
    BY <1>8, <2>1
  <2> QED
    BY <2>1, <2>2
<1>13. Covers(shown, t, to)
  BY <1>1, <1>7, <1>9, <1>10, <1>11, <1>12 DEF Covers
<1> QED
  BY <1>3, <1>5, <1>13

\* A sequence of programmes that follow one another from one time to another,
\* none if there is no time between.
Follow(s, from, to) ==
    /\ to <= from => s = << >>
    /\ from < to => s # << >> /\ s[1].start = from /\ s[Len(s)].stop = to
    /\ \A k \in 1..Len(s) : s[k].start < s[k].stop
    /\ \A k \in 1..Len(s) - 1 : s[k].stop = s[k + 1].start

LEMMA TilesFollow ==
    ASSUME NEW z \in Zones, NEW begin \in Int, NEW from \in Int, from = BlockAt(z, begin, 0), NEW to \in Int
    PROVE  Tile(z, begin, to) \in Seq(Programmes) /\ Follow(Tile(z, begin, to), from, to)
<1>1. PICK n \in Nat : Tiled(Tile(z, begin, to), n, from, to)
  BY TileIs
<1>2. PICK s \in [1..n -> Programmes] : s = Tile(z, begin, to)
  BY <1>1 DEF Tiled
<1>3. s \in Seq(Programmes) /\ Len(s) = n
  OBVIOUS
<1>4. to <= from => s = << >>
  BY <1>1, <1>2, <1>3 DEF Tiled
<1>5. from < to => s # << >> /\ s[1].start = from /\ s[Len(s)].stop = to
  <2>1. from < to => n >= 1 /\ s[1].start = from /\ s[n].stop = to
    BY <1>1, <1>2 DEF Tiled
  <2> QED
    BY <1>3, <2>1
<1>6. \A k \in 1..Len(s) : s[k].start < s[k].stop
  <2>1. \A k \in 1..n : s[k].start < s[k].stop
    BY <1>1, <1>2 DEF Tiled
  <2> QED
    BY <1>3, <2>1
<1>7. \A k \in 1..Len(s) - 1 : s[k].stop = s[k + 1].start
  <2>1. \A k \in 1..n - 1 : s[k].stop = s[k + 1].start
    BY <1>1, <1>2 DEF Tiled
  <2> QED
    BY <1>3, <2>1
<1> QED
  BY <1>2, <1>3, <1>4, <1>5, <1>6, <1>7 DEF Follow

\* Where the elements of a joined sequence come from.
LEMMA Joined ==
    ASSUME NEW S, NEW A \in Seq(S), NEW e \in S, NEW B \in Seq(S)
    PROVE  /\ A \o <<e>> \o B \in Seq(S)
           /\ Len(A \o <<e>> \o B) = Len(A) + 1 + Len(B)
           /\ \A k \in 1..Len(A) : (A \o <<e>> \o B)[k] = A[k]
           /\ (A \o <<e>> \o B)[Len(A) + 1] = e
           /\ \A k \in 1..Len(B) : (A \o <<e>> \o B)[Len(A) + 1 + k] = B[k]
<1>1. <<e>> \in Seq(S) /\ Len(<<e>>) = 1 /\ <<e>>[1] = e
  OBVIOUS
<1>2. PICK C \in Seq(S) : C = A \o <<e>>
  BY <1>1, ConcatProperties
<1>3. Len(C) = Len(A) + 1 /\ (\A k \in 1..Len(A) : C[k] = A[k]) /\ C[Len(A) + 1] = e
  BY <1>1, <1>2, ConcatProperties
<1>4. PICK D \in Seq(S) : D = C \o B
  BY ConcatProperties
<1>d. /\ Len(C \o B) = Len(C) + Len(B)
      /\ \A i \in 1..Len(C) + Len(B) : (C \o B)[i] = IF i <= Len(C) THEN C[i] ELSE B[i - Len(C)]
  BY ConcatProperties
<1>e. Len(A) \in Nat /\ Len(B) \in Nat /\ Len(C) \in Nat
  BY LenProperties
<1>f. \A i \in 1..Len(C) + Len(B) : D[i] = IF i <= Len(C) THEN C[i] ELSE B[i - Len(C)]
  BY <1>d, <1>4
<1>5. Len(D) = Len(A) + 1 + Len(B) /\ (\A k \in 1..Len(C) : D[k] = C[k])
  <2>1. Len(D) = Len(A) + 1 + Len(B)
    BY <1>3, <1>4, <1>d
  <2>2. ASSUME NEW k \in 1..Len(C) PROVE D[k] = C[k]
    BY <1>e, <1>f
  <2> QED
    BY <2>1, <2>2
<1>6. ASSUME NEW k \in 1..Len(B) PROVE D[Len(A) + 1 + k] = B[k]
  <2>0. Len(C) + k \in 1..Len(C) + Len(B) /\ ~(Len(C) + k <= Len(C)) /\ Len(C) + k - Len(C) = k
    BY <1>e
  <2>1. PICK n \in 1..Len(C) + Len(B) : n = Len(C) + k /\ ~(n <= Len(C)) /\ n - Len(C) = k
    BY <2>0
  <2> QED
    BY <1>3, <1>f, <2>1
<1>7. \A k \in 1..Len(A) : D[k] = A[k]
  BY <1>3, <1>5
<1>8. D[Len(A) + 1] = e
  BY <1>3, <1>5
<1> QED
  BY <1>2, <1>4, <1>5, <1>6, <1>7, <1>8

LEMMA JoinedCovers ==
    ASSUME NEW A \in Seq(Programmes), NEW e \in Programmes, NEW B \in Seq(Programmes),
           NEW from \in Int, NEW t \in Int, NEW end \in Int,
           from <= t, t < end, e.start < e.stop,
           Follow(A, from, AtMost(e.start, end)), Follow(B, e.stop, end)
    PROVE  Covers(A \o <<e>> \o B, t, end)
<1>1. PICK s \in Seq(Programmes) : s = A \o <<e>> \o B
  BY Joined
<1>2. PICK a \in Nat, b \in Nat : a = Len(A) /\ b = Len(B)
  OBVIOUS
<1>3. Len(s) = a + 1 + b
  BY <1>1, <1>2, Joined
<1>4. \A k \in 1..a : s[k] = A[k]
  BY <1>1, <1>2, Joined
<1>5. s[a + 1] = e
  BY <1>1, <1>2, Joined
<1>6. \A k \in 1..b : s[a + 1 + k] = B[k]
  BY <1>1, <1>2, Joined
<1>7. PICK at \in Int, stop \in Int : at = e.start /\ stop = e.stop
  BY DEF Programmes
<1>8. PICK to \in Int : to = AtMost(at, end) /\ to = IF at < end THEN at ELSE end
  BY DEF AtMost
<1>9. /\ to <= from => a = 0
      /\ from < to => a >= 1 /\ A[1].start = from /\ A[a].stop = to
  BY <1>2, <1>7, <1>8 DEF Follow
<1>10. \A k \in 1..a : A[k].start < A[k].stop
  BY <1>2 DEF Follow
<1>11. \A k \in 1..a - 1 : A[k].stop = A[k + 1].start
  BY <1>2 DEF Follow
<1>12. /\ end <= stop => b = 0
       /\ stop < end => b >= 1 /\ B[1].start = stop /\ B[b].stop = end
  BY <1>2, <1>7 DEF Follow
<1>13. \A k \in 1..b : B[k].start < B[k].stop
  BY <1>2 DEF Follow
<1>14. \A k \in 1..b - 1 : B[k].stop = B[k + 1].start
  BY <1>2 DEF Follow
<1>15. s[1].start <= t
  <2>1. CASE to <= from
    <3>1. a + 1 = 1 /\ at <= from
      BY <1>8, <1>9, <2>1
    <3>2. s[1] = e
      BY <1>5, <3>1
    <3> QED
      BY <1>7, <3>1, <3>2
  <2>2. CASE from < to
    <3>1. 1 \in 1..a /\ A[1].start = from
      BY <1>9, <2>2
    <3>2. s[1] = A[1]
      BY <1>4, <3>1
    <3> QED
      BY <3>1, <3>2
  <2> QED
    BY <2>1, <2>2
<1>16. s[Len(s)].stop >= end
  <2>1. CASE end <= stop
    <3>1. b = 0 /\ a + 1 + b = a + 1
      BY <1>12, <2>1
    <3>2. s[Len(s)] = e
      BY <1>3, <1>5, <3>1
    <3> QED
      BY <1>7, <2>1, <3>2
  <2>2. CASE stop < end
    <3>1. b \in 1..b /\ B[b].stop = end
      BY <1>12, <2>2
    <3>2. s[a + 1 + b] = B[b]
      BY <1>6, <3>1
    <3> QED
      BY <1>3, <3>1, <3>2
  <2> QED
    BY <2>1, <2>2
<1>17. ASSUME NEW k \in 1..a + 1 + b PROVE s[k].start < s[k].stop
  <2>1. CASE k <= a
    <3>1. k \in 1..a
      BY <2>1
    <3>2. s[k] = A[k] /\ A[k].start < A[k].stop
      BY <1>4, <1>10, <3>1
    <3> QED
      BY <3>2
  <2>2. CASE k = a + 1
    BY <1>5, <2>2
  <2>3. CASE k > a + 1
    <3>1. PICK j \in 1..b : k = a + 1 + j
      <4>1. k - (a + 1) \in 1..b /\ k = a + 1 + (k - (a + 1))
        BY <2>3
      <4> QED
        BY <4>1
    <3>2. s[k] = B[j] /\ B[j].start < B[j].stop
      BY <1>6, <1>13, <3>1
    <3> QED
      BY <3>2
  <2> QED
    BY <2>1, <2>2, <2>3
<1>18. ASSUME NEW k \in 1..a + b
       PROVE  s[k].stop = s[k + 1].start \/ (s[k].stop = end /\ s[k + 1].start > end)
  <2>1. CASE k < a
    <3>1. k \in 1..a - 1 /\ k \in 1..a /\ k + 1 \in 1..a
      BY <2>1
    <3>2. s[k] = A[k] /\ s[k + 1] = A[k + 1]
      BY <1>4, <3>1
    <3>3. A[k].stop = A[k + 1].start
      BY <1>11, <3>1
    <3> QED
      BY <3>2, <3>3
  <2>2. CASE k = a
    <3>1. a >= 1 /\ a \in 1..a /\ from < to
      BY <1>9, <2>2
    <3>2. s[k] = A[a] /\ A[a].stop = to
      BY <1>4, <1>9, <2>2, <3>1
    <3>3. s[k + 1].start = at
      BY <1>5, <1>7, <2>2
    <3>4. to = at \/ (to = end /\ (at > end \/ at = end))
      BY <1>8
    <3> QED
      BY <3>2, <3>3, <3>4
  <2>3. CASE k = a + 1
    <3>1. b >= 1 /\ stop < end /\ 1 \in 1..b
      BY <1>12, <2>3
    <3>2. s[k].stop = stop
      BY <1>5, <1>7, <2>3
    <3>3. s[a + 1 + 1] = B[1] /\ B[1].start = stop
      BY <1>6, <1>12, <3>1
    <3> QED
      BY <2>3, <3>2, <3>3
  <2>4. CASE k > a + 1
    <3>1. PICK j \in 1..b - 1 : k = a + 1 + j
      <4>1. k - (a + 1) \in 1..b - 1 /\ k = a + 1 + (k - (a + 1))
        BY <2>4
      <4> QED
        BY <4>1
    <3>2. j \in 1..b /\ j + 1 \in 1..b /\ k + 1 = a + 1 + (j + 1)
      BY <3>1
    <3>3. s[k] = B[j] /\ s[k + 1] = B[j + 1]
      BY <1>6, <3>1, <3>2
    <3>4. B[j].stop = B[j + 1].start
      BY <1>14, <3>1
    <3> QED
      BY <3>3, <3>4
  <2> QED
    BY <2>1, <2>2, <2>3, <2>4
<1>19. DOMAIN s = 1..a + 1 + b /\ 1..Len(s) - 1 = 1..a + b
  BY <1>3
<1> QED
  BY <1>1, <1>15, <1>16, <1>17, <1>18, <1>19 DEF Covers

\* The first block begins where the clocks say; a later time on them is a later
\* moment, unless the earlier is one that they skip or show again.
LEMMA BlockStarts ==
    ASSUME NEW z \in Zones, NEW from \in Int
    PROVE  /\ BlockAt(z, from, 0) = Moment(z, from, FALSE).at /\ BlockAt(z, from, 0) \in Int
           /\ BlockAt(Utc, from, 0) = from
<1>1. from + 0 * Block = from
  BY ZonesKnown
<1>2. BlockAt(z, from, 0) = Moment(z, from, FALSE).at /\ BlockAt(Utc, from, 0) = Moment(Utc, from, FALSE).at
  BY <1>1 DEF BlockAt
<1>3. Utc.before = 0 /\ Utc.after = 0 /\ Utc.change = 0
  BY DEF Utc
<1>4. Moment(Utc, from, FALSE).at = from
  <2>1. PICK u \in Zones : u = Utc /\ u.before = 0 /\ u.after = 0 /\ u.change = 0
    BY <1>3, ZonesKnown
  <2>2. Moment(u, from, FALSE).at
          = from - (IF from < u.change + (IF u.after < u.before THEN u.before ELSE u.after) THEN u.before ELSE u.after)
    BY FirstMoment
  <2>3. PICK off \in Int : off = (IF from < u.change + (IF u.after < u.before THEN u.before ELSE u.after) THEN u.before ELSE u.after)
    BY <2>1
  <2>4. off = 0
    BY <2>1, <2>3
  <2>5. Moment(u, from, FALSE).at = from - off
    BY <2>2, <2>3
  <2>6. from - off = from
    BY <2>4
  <2> QED
    BY <2>1, <2>5, <2>6
<1>5. BlockAt(z, from, 0) \in Int
  BY BlocksGrow
<1> QED
  BY <1>2, <1>4, <1>5

LEMMA OnClockIs ==
    ASSUME NEW z \in Zones, NEW t \in Int
    PROVE  OnClock(z, t) = t + (IF t < z.change THEN z.before ELSE z.after) /\ OnClock(z, t) \in Int
  BY ZoneIs DEF OnClock

LEMMA LaterOnClock ==
    ASSUME NEW z \in Zones, NEW time \in Moments, NEW wall \in Int, time.wall < wall,
           OnClock(z, time.at) = time.wall, Moment(z, time.wall, FALSE) = time
    PROVE  time.at < Moment(z, wall, FALSE).at
<1>1. PICK b \in Int, a \in Int, c \in Int : b = z.before /\ a = z.after /\ c = z.change
  BY ZoneIs
<1>2. PICK at \in Int, old \in Int : at = time.at /\ old = time.wall
  BY DEF Moments
<1>3. old = at + (IF at < c THEN b ELSE a)
  BY <1>1, <1>2, OnClockIs
<1>4. at = old - (IF old < c + (IF a < b THEN b ELSE a) THEN b ELSE a)
  BY <1>1, <1>2, FirstMoment
<1>5. PICK then \in Int : then = wall - (IF wall < c + (IF a < b THEN b ELSE a) THEN b ELSE a)
  <2>1. PICK turn \in Int : turn = c + (IF a < b THEN b ELSE a)
    BY SMTT(30)
  <2>2. PICK away \in Int : away = (IF wall < turn THEN b ELSE a)
    OBVIOUS
  <2>3. wall - away \in Int
    OBVIOUS
  <2> QED
    BY <2>1, <2>2, <2>3
<1>6. Moment(z, wall, FALSE).at = then
  BY <1>1, <1>5, FirstMoment
<1>7. at < then
  BY <1>2, <1>3, <1>4, <1>5
<1> QED
  BY <1>2, <1>6, <1>7

LEMMA EventGuideCovers ==
    ASSUME NEW z \in Zones, NEW time \in Moments, OnClock(z, time.at) = time.wall, Moment(z, time.wall, FALSE) = time,
           NEW t \in Int, NEW hours \in Nat \ {0}, NEW minutes \in Nat
    PROVE  Covers(EventGuide(z, time, t, hours, minutes), t, t + hours * Hour)
<1>1. PICK from \in Int : from = HourOf(t) /\ from <= t
  BY HourBefore
<1>2. PICK end \in Int : end = t + hours * Hour /\ t < end
  BY DEF Hour
<1>3. PICK at \in Int, wall \in Int : at = time.at /\ wall = time.wall
  BY DEF Moments
<1>4. PICK over \in Int : over = wall + AtLeast(minutes, 3) /\ wall < over
  BY DEF AtLeast
<1>5. PICK stop \in Int : stop = BlockAt(z, over, 0) /\ at < stop
  <2>1. BlockAt(z, over, 0) = Moment(z, over, FALSE).at /\ BlockAt(z, over, 0) \in Int
    BY BlockStarts
  <2>2. time.at < Moment(z, over, FALSE).at
    BY <1>3, <1>4, LaterOnClock
  <2> QED
    BY <1>3, <2>1, <2>2
<1>6. PICK e \in Programmes : e = [start |-> at, stop |-> stop]
  BY DEF Programmes
<1>7. e.start = at /\ e.stop = stop
  BY <1>6
<1>8. PICK to \in Int : to = AtMost(at, end)
  BY DEF AtMost
<1>9. PICK A \in Seq(Programmes) : A = Tile(Utc, from, to) /\ Follow(A, from, to)
  <2>1. BlockAt(Utc, from, 0) = from /\ Utc \in Zones
    BY BlockStarts, ZonesKnown
  <2> QED
    BY <2>1, TilesFollow
<1>10. PICK B \in Seq(Programmes) : B = Tile(z, over, end) /\ Follow(B, stop, end)
  BY <1>5, TilesFollow
<1>11. Covers(A \o <<e>> \o B, t, end)
  BY <1>1, <1>2, <1>5, <1>7, <1>8, <1>9, <1>10, JoinedCovers
<1>12. EventGuide(z, time, t, hours, minutes) = A \o <<e>> \o B
  BY <1>1, <1>2, <1>3, <1>4, <1>5, <1>6, <1>8, <1>9, <1>10 DEF EventGuide
<1> QED
  BY <1>2, <1>11, <1>12

\* Which patterns find a time in a name.
Finds(s, name, t) == {k \in 1..Len(s) : Apply(s[k], name, t) # NoEvent}

LEMMA ParseIs ==
    ASSUME NEW name, NEW rules \in Seq(Parsers), NEW t
    PROVE  LET tried == Append(rules, Builtin)
               k     == Min(Finds(tried, name, t)) IN
           /\ Finds(tried, name, t) = {} => ParseEvent(name, rules, t) = [by |-> Builtin, time |-> NoEvent]
           /\ Finds(tried, name, t) # {} =>
                /\ k \in Finds(tried, name, t)
                /\ ParseEvent(name, rules, t) = [by |-> tried[k], time |-> Apply(tried[k], name, t)]
<1>1. PICK tried \in Seq(Parsers) : tried = Append(rules, Builtin)
  <2>1. Builtin \in Parsers
    BY DEF Parsers
  <2> QED
    BY <2>1, AppendProperties
<1>2. PICK I : I = Finds(tried, name, t)
  OBVIOUS
<1>3. I \in SUBSET Nat /\ 0 \notin I
  BY <1>1, <1>2 DEF Finds
<1>4. I # {} => Min(I) \in I /\ Min(I) # 0
  BY <1>3, LeastOf
<1>5. {k \in 1..Len(tried) : Apply(tried[k], name, t) # NoEvent} = I
  BY <1>2 DEF Finds
<1>6. SelectInSeq(tried, LAMBDA p : Apply(p, name, t) # NoEvent) = IF I # {} THEN Min(I) ELSE 0
  BY <1>5 DEF SelectInSeq
<1>7. CASE I = {}
  <2>1. SelectInSeq(tried, LAMBDA p : Apply(p, name, t) # NoEvent) = 0
    BY <1>6, <1>7
  <2> QED
    BY <1>1, <1>2, <1>7, <2>1 DEF ParseEvent
<1>8. CASE I # {}
  <2>1. SelectInSeq(tried, LAMBDA p : Apply(p, name, t) # NoEvent) = Min(I)
    BY <1>6, <1>8
  <2> QED
    BY <1>1, <1>2, <1>4, <1>8, <2>1 DEF ParseEvent
<1> QED
  BY <1>7, <1>8

LEMMA ReadsOf ==
    ASSUME NEW p \in Parsers, NEW name \in Names, Reads[p][name] \notin {NoMatch, NoNumber}
    PROVE  /\ Reads[p][name].hour \in Nat /\ Reads[p][name].slot \in Nat
           /\ Reads[p][name].day \in Nat \union {NoDate, BadDate, NoNumber}
           /\ Reads[p][name].year \in BOOLEAN
  BY DummyEpgAssumptions

\* Whether a time is read at all does not depend on when.
Fails(read) == read.day = NoNumber \/ (read.day = NoDate /\ read.slot >= Hour)
Wrong(read) == read.hour > 23 \/ (~Fails(read) /\ (read.day = BadDate \/ read.slot >= Hour))

LEMMA Midnight ==
    ASSUME NEW z \in Zones, NEW t \in Int
    PROVE  OnClock(z, t) \div Day \in Int
<1>1. PICK a \in Int : a = OnClock(z, t)
  BY OnClockIs
<1>2. Day \in Nat \ {0}
  BY DEF Day, Hour
<1> QED
  BY <1>1, <1>2, Quotient

LEMMA NextIs ==
    ASSUME NEW z \in Zones, NEW wall \in Int, NEW t \in Int
    PROVE  NextOccurrence(z, wall, t) \in Moments
<1>1. Again(z, t) \in BOOLEAN
  BY DEF Again
<1>2. Moment(z, wall, Again(z, t)) \in Moments
  BY <1>1, ZoneIs, MomentIs
<1>3. PICK next \in Int : next = wall + Day
  BY DEF Day, Hour
<1>4. Moment(z, next, FALSE) \in Moments
  BY FirstMoment
<1>5. NextOccurrence(z, wall, t) = Moment(z, next, FALSE) \/ NextOccurrence(z, wall, t) = Moment(z, wall, Again(z, t))
  BY <1>3 DEF NextOccurrence
<1> QED
  BY <1>2, <1>4, <1>5

LEMMA DayReadIs ==
    ASSUME NEW read, read.day \in Nat, NEW today \in Int
    PROVE  DayRead(read, today) \in Int
<1>1. YearDays \in Nat \ {0}
  BY DummyEpgAssumptions
<1>2. today % YearDays \in Int
  BY <1>1, Quotient
<1> QED
  BY <1>2 DEF DayRead

LEMMA EventTimeIs ==
    ASSUME NEW read, read.hour \in Nat, read.slot \in Nat, read.day \in Nat \union {NoDate, BadDate, NoNumber},
           NEW z \in Zones, NEW t \in Int
    PROVE  /\ Wrong(read) => EventTime(read, z, t) = NoEvent
           /\ ~Wrong(read) => EventTime(read, z, t) \in Moments \union {Raises}
<1>1. PICK clock \in Int : clock = read.hour * Hour + read.slot
  BY DEF Hour
<1>2. PICK today \in Int : today = OnClock(z, t) \div Day
  BY Midnight
<1>3. EventTime(read, z, t)
        = IF read.hour > 23 THEN NoEvent
          ELSE IF Fails(read) THEN Raises
          ELSE IF read.day = BadDate \/ read.slot >= Hour THEN NoEvent
          ELSE IF read.day = NoDate THEN NextOccurrence(z, today * Day + clock, t)
          ELSE Moment(z, DayRead(read, today) * Day + clock, FALSE)
  BY <1>1, <1>2 DEF EventTime, Fails
<1>4. today * Day + clock \in Int
  BY DEF Day, Hour
<1>5. NextOccurrence(z, today * Day + clock, t) \in Moments
  BY <1>4, NextIs
<1>6. ASSUME read.day \in Nat PROVE Moment(z, DayRead(read, today) * Day + clock, FALSE) \in Moments
  <2>1. PICK day \in Int : day = DayRead(read, today)
    BY <1>6, DayReadIs
  <2>2. day * Day + clock \in Int
    BY DEF Day, Hour
  <2> QED
    BY <2>1, <2>2, FirstMoment
<1>7. CASE read.hour > 23
  BY <1>3, <1>7 DEF Wrong
<1>8. CASE ~(read.hour > 23) /\ Fails(read)
  BY <1>3, <1>8 DEF Wrong
<1>9. CASE ~(read.hour > 23) /\ ~Fails(read) /\ (read.day = BadDate \/ read.slot >= Hour)
  BY <1>3, <1>9 DEF Wrong
<1>10. CASE ~(read.hour > 23) /\ ~Fails(read) /\ ~(read.day = BadDate \/ read.slot >= Hour)
  <2>1. ~Wrong(read)
    BY <1>10 DEF Wrong
  <2>2. read.day = NoDate \/ read.day \in Nat
    BY <1>10 DEF Fails
  <2>3. EventTime(read, z, t) \in Moments
    BY <1>3, <1>5, <1>6, <1>10, <2>2
  <2> QED
    BY <2>1, <2>3
<1> QED
  BY <1>7, <1>8, <1>9, <1>10

LEMMA ApplyIs ==
    ASSUME NEW p \in Parsers, NEW name \in Names, NEW t \in Int, NEW u \in Int
    PROVE  /\ Apply(p, name, t) \in Moments \union {NoEvent, Raises}
           /\ Apply(p, name, t) = NoEvent <=> Apply(p, name, u) = NoEvent
<1>0. NoEvent \notin Moments \union {Raises}
  BY DummyEpgAssumptions
<1>1. CASE Reads[p][name] \in {NoMatch, NoNumber}
  BY <1>0, <1>1 DEF Apply
<1>2. CASE Reads[p][name] \notin {NoMatch, NoNumber}
  <2>1. PICK read : read = Reads[p][name]
    OBVIOUS
  <2>2. PICK z \in Zones : z = Zone[p]
    BY ZonesKnown
  <2>3. read.hour \in Nat /\ read.slot \in Nat /\ read.day \in Nat \union {NoDate, BadDate, NoNumber}
    BY <1>2, <2>1, ReadsOf
  <2>4. Apply(p, name, t) = EventTime(read, z, t) /\ Apply(p, name, u) = EventTime(read, z, u)
    BY <1>2, <2>1, <2>2 DEF Apply
  <2>5. /\ Wrong(read) => EventTime(read, z, t) = NoEvent /\ EventTime(read, z, u) = NoEvent
        /\ ~Wrong(read) => EventTime(read, z, t) \in Moments \union {Raises}
                           /\ EventTime(read, z, u) \in Moments \union {Raises}
    BY <2>3, EventTimeIs
  <2> QED
    BY <1>0, <2>4, <2>5
<1> QED
  BY <1>1, <1>2

\* What is read in a name, and when.
LEMMA ParsedEvent ==
    ASSUME NEW name \in Names, NEW rules \in Seq(Parsers), NEW t \in Int
    PROVE  /\ ParseEvent(name, rules, t).time \in Moments \union {NoEvent, Raises}
           /\ ParseEvent(name, rules, t).by \in Parsers
           /\ ParseEvent(name, rules, t).time # NoEvent
                => ParseEvent(name, rules, t).time = Apply(ParseEvent(name, rules, t).by, name, t)
<1>1. PICK tried \in Seq(Parsers) : tried = Append(rules, Builtin)
  <2>1. Builtin \in Parsers
    BY DEF Parsers
  <2> QED
    BY <2>1, AppendProperties
<1>2. CASE Finds(tried, name, t) = {}
  <2>1. ParseEvent(name, rules, t) = [by |-> Builtin, time |-> NoEvent]
    BY <1>1, <1>2, ParseIs
  <2> QED
    BY <2>1 DEF Parsers
<1>3. CASE Finds(tried, name, t) # {}
  <2>0. PICK k \in Finds(tried, name, t) : k = Min(Finds(tried, name, t))
    BY <1>1, <1>3, ParseIs
  <2>1. ParseEvent(name, rules, t) = [by |-> tried[k], time |-> Apply(tried[k], name, t)]
    BY <1>1, <1>3, <2>0, ParseIs
  <2>2. tried[k] \in Parsers
    BY <2>0, ElementOfSeq DEF Finds
  <2> QED
    BY <2>1, <2>2, ApplyIs
<1> QED
  BY <1>2, <1>3

\* The clock does not change which pattern reads a name.
LEMMA SameParser ==
    ASSUME NEW name \in Names, NEW rules \in Seq(Parsers), NEW t \in Int, NEW u \in Int,
           ParseEvent(name, rules, t).time # NoEvent
    PROVE  /\ ParseEvent(name, rules, u).time # NoEvent
           /\ ParseEvent(name, rules, u).by = ParseEvent(name, rules, t).by
           /\ ParseEvent(name, rules, u)
                = [by |-> ParseEvent(name, rules, u).by, time |-> ParseEvent(name, rules, u).time]
           /\ ParseEvent(name, rules, t)
                = [by |-> ParseEvent(name, rules, t).by, time |-> ParseEvent(name, rules, t).time]
<1>1. PICK tried \in Seq(Parsers) : tried = Append(rules, Builtin)
  <2>1. Builtin \in Parsers
    BY DEF Parsers
  <2> QED
    BY <2>1, AppendProperties
<1>2. PICK F : F = Finds(tried, name, t)
  OBVIOUS
<1>3. F = Finds(tried, name, u)
  <2>1. ASSUME NEW k \in 1..Len(tried)
        PROVE  Apply(tried[k], name, t) = NoEvent <=> Apply(tried[k], name, u) = NoEvent
    <3>1. tried[k] \in Parsers
      BY ElementOfSeq
    <3> QED
      BY <3>1, ApplyIs
  <2> QED
    BY <1>2, <2>1 DEF Finds
<1>4. F # {}
  <2>1. F = {} => ParseEvent(name, rules, t) = [by |-> Builtin, time |-> NoEvent]
    BY <1>1, <1>2, ParseIs
  <2> QED
    BY <2>1
<1>5. PICK k \in F : k = Min(F)
  BY <1>1, <1>2, <1>4, ParseIs
<1>6. ParseEvent(name, rules, t) = [by |-> tried[k], time |-> Apply(tried[k], name, t)]
  BY <1>1, <1>2, <1>4, <1>5, ParseIs
<1>7. ParseEvent(name, rules, u) = [by |-> tried[k], time |-> Apply(tried[k], name, u)]
  BY <1>1, <1>3, <1>4, <1>5, ParseIs
<1>8. Apply(tried[k], name, u) # NoEvent
  BY <1>3, <1>5 DEF Finds
<1> QED
  BY <1>6, <1>7, <1>8

LEMMA PinIs ==
    ASSUME NEW row \in ChannelRows, NEW cat \in CategoryRows
    PROVE  /\ Pin(row, cat) \in Rules \union {NoRule} /\ Length(row, cat) \in Minutes
           /\ Mode(row, cat) \in Modes
<1>1. /\ row.mode \in Modes \union {"inherit"} /\ row.minutes \in Minutes /\ row.pin \in Rules \union {NoRule}
      /\ cat.mode \in Modes /\ cat.minutes \in Minutes /\ cat.pin \in Rules \union {NoRule}
  BY RowFields
<1> QED
  BY <1>1 DEF Pin, Length, Mode

\* The rules a plan names are sequences of patterns.
LEMMA PlanRules ==
    ASSUME NEW row \in ChannelRows, NEW cat \in CategoryRows, NEW guides,
           NEW rules, DOMAIN rules \subseteq Rules, \A r \in DOMAIN rules : rules[r].pattern \in Parsers,
           NEW s \in PlanOf(row, cat, rules, guides).rules
    PROVE  s \in Seq(Parsers)
<1>1. PICK x \in Tried(Pin(row, cat), rules) : s = PatternsOf(x, rules)
  BY DEF PlanOf
<1>2. PICK n \in Nat : x \in [1..n -> DOMAIN rules]
  <2>1. CASE Pin(row, cat) = NoRule
    <3>1. PICK R : R = Enabled(rules)
      OBVIOUS
    <3>2. R \in SUBSET Rules /\ R \subseteq DOMAIN rules
      BY <3>1 DEF Enabled
    <3>3. x \in SetToSeqs(R)
      BY <1>1, <2>1, <3>1 DEF Tried, EventRules
    <3>4. Cardinality(R) \in Nat
      BY <3>2, Ids, FS_CardinalityType
    <3>5. x \in [1..Cardinality(R) -> R]
      BY <3>3 DEF SetToSeqs
    <3> QED
      BY <3>2, <3>4, <3>5
  <2>2. CASE Pin(row, cat) # NoRule
    <3>1. PICK pin : pin = Pin(row, cat)
      OBVIOUS
    <3>2. (pin \in DOMAIN rules /\ x = <<pin>>) \/ x = << >>
      BY <1>1, <2>2, <3>1 DEF Tried, Enabled
    <3>3. (pin \in DOMAIN rules => <<pin>> \in [1..1 -> DOMAIN rules]) /\ << >> \in [1..0 -> DOMAIN rules]
      OBVIOUS
    <3> QED
      BY <3>2, <3>3
  <2> QED
    BY <2>1, <2>2
<1>3. s = [k \in 1..n |-> rules[x[k]].pattern]
  BY <1>1, <1>2 DEF PatternsOf
<1>4. s \in [1..n -> Parsers]
  BY <1>2, <1>3
<1> QED
  BY <1>4

\* What a channel that is there shows goes by rows of the right types.
LEMMA PlanRows ==
    ASSUME GInv, NEW i \in Present
    PROVE  /\ channel[i] \in ChannelRows /\ channel[i].list \in Lists /\ channel[i].name \in Names
           /\ CategoryOf(i) \in CategoryRows
           /\ DOMAIN OwnRules(channel[i].list) \subseteq Rules
           /\ \A r \in DOMAIN OwnRules(channel[i].list) : OwnRules(channel[i].list)[r].pattern \in Parsers
           /\ \A s \in Plan(i).rules : s \in Seq(Parsers)
<1>1. channel[i] \in ChannelRows /\ channel[i].list \in Lists /\ channel[i].name \in Names
  BY RowFields DEF GInv, ChannelsOK, Present
<1>2. CategoryOf(i) \in CategoryRows
  BY <1>1 DEF GInv, CategoriesOK, CategoryOf
<1>3. PICK rules : rules = OwnRules(channel[i].list)
  OBVIOUS
<1>4. DOMAIN rules \subseteq Rules /\ \A r \in DOMAIN rules : rules[r].pattern \in Parsers
  <2>1. \A r \in Rules : rule[r] \in RuleRows
    BY DEF GInv, RulesOK
  <2> QED
    BY <1>3, <2>1, RowFields DEF OwnRules, RulesOf
<1>5. \A s \in Plan(i).rules : s \in Seq(Parsers)
  <2> TAKE s \in Plan(i).rules
  <2>1. s \in PlanOf(channel[i], CategoryOf(i), rules, guide).rules
    BY <1>3 DEF Plan
  <2> QED
    BY <1>1, <1>2, <1>4, <2>1, PlanRules
<1> QED
  BY <1>1, <1>2, <1>3, <1>4, <1>5

LEMMA DummiesCover == GInv => GuideCovers
<1> SUFFICES ASSUME GInv, NEW i \in Present,
                    \A e \in Events(Plan(i)) : e.time \in {NoEvent, Raises} \/ ~OddTime(e),
                    NEW shown \in DummyGuides(Plan(i))
             PROVE  Covers(shown, now, End)
  BY DEF GuideCovers, Covers
<1>1. PICK plan : plan = Plan(i)
  OBVIOUS
<1>2. plan.name \in Names /\ plan.minutes \in Nat /\ now \in Nat /\ Hours \in Nat \ {0}
  BY <1>1, PlanRows, PinIs, GuideAssumptions DEF Plan, PlanOf, GInv
<1>3. End = now + Hours * Hour
  BY DEF End
<1>4. \/ shown = NameGuide(now, Hours, plan.minutes)
      \/ \E e \in Events(plan) :
           /\ e.time # Raises
           /\ shown = IF e.time = NoEvent THEN NameGuide(now, Hours, plan.minutes)
                      ELSE EventGuide(Zone[e.by], e.time, now, Hours, plan.minutes)
  BY <1>1 DEF DummyGuides
<1>5. CASE shown = NameGuide(now, Hours, plan.minutes)
  BY <1>2, <1>3, <1>5, NameGuideCovers
<1>6. ASSUME NEW e \in Events(plan), e.time # Raises, e.time # NoEvent,
             shown = EventGuide(Zone[e.by], e.time, now, Hours, plan.minutes)
      PROVE  Covers(shown, now, End)
  <2>1. PICK rules \in plan.rules : e = ParseEvent(plan.name, rules, now)
    BY DEF Events
  <2>2. rules \in Seq(Parsers)
    BY <1>1, <2>1, PlanRows
  <2>3. e.time \in Moments /\ e.by \in Parsers
    BY <1>2, <1>6, <2>1, <2>2, ParsedEvent
  <2>4. OnClock(Zone[e.by], e.time.at) = e.time.wall /\ Moment(Zone[e.by], e.time.wall, FALSE) = e.time
    BY <1>1, <1>6 DEF OddTime
  <2>5. PICK z \in Zones : z = Zone[e.by]
    BY <2>3, ZonesKnown
  <2>6. PICK time \in Moments : time = e.time
    BY <2>3
  <2>7. OnClock(z, time.at) = time.wall /\ Moment(z, time.wall, FALSE) = time
    BY <2>4, <2>5, <2>6
  <2>8. Covers(EventGuide(z, time, now, Hours, plan.minutes), now, now + Hours * Hour)
    <3>1. PICK t \in Int, hours \in Nat \ {0}, minutes \in Nat : t = now /\ hours = Hours /\ minutes = plan.minutes
      BY <1>2
    <3>2. Covers(EventGuide(z, time, t, hours, minutes), t, t + hours * Hour)
      BY <2>7, EventGuideCovers
    <3> QED
      BY <3>1, <3>2
  <2> QED
    BY <1>3, <1>6, <2>5, <2>6, <2>8
<1> QED
  BY <1>4, <1>5, <1>6

(* A dummy guide leaves no gap and never shows two things at once, whatever is
   read in a channel's name, whenever it is shown, and whenever the clocks of
   the rule's zone are changed - but for an event at a time that they skip or
   show for the second time. *)
THEOREM GuideAlwaysCovers == Spec => []GuideCovers
  BY GuideInvariance, DummiesCover, PTL

-----------------------------------------------------------------------------
(* Announced times *)

LEMMA DayOf ==
    ASSUME NEW t \in Int
    PROVE  \E d \in Int, r \in 0..287 : d = t \div Day /\ t = 288 * d + r
<1>1. Day = 288 /\ 288 \in Nat \ {0}
  BY DEF Day, Hour
<1>2. /\ t \div 288 \in Int /\ t % 288 \in Int /\ 0 <= t % 288 /\ t % 288 < 288
      /\ t = 288 * (t \div 288) + (t % 288)
  BY <1>1, Quotient
<1>3. PICK d \in Int, r \in 0..287 : d = t \div 288 /\ r = t % 288 /\ t = 288 * d + r
  BY <1>2
<1> QED
  BY <1>1, <1>3

\* A time is not odd, and the clocks are not changed after it or after t and by u.
Keeps(z, time, t, u) ==
    /\ OnClock(z, time.at) = time.wall /\ Moment(z, time.wall, FALSE) = time
    /\ ~(z.change > AtMost(t, time.at) /\ z.change <= u)
    /\ u <= time.at + Grace

\* Then the clocks go on from t to u, six hours later at most than the time they
\* showed, and do not show that time again.
LEMMA ClocksGoOn ==
    ASSUME NEW z \in Zones, NEW time \in Moments, NEW t \in Int, NEW u \in Int, t < u, Keeps(z, time, t, u)
    PROVE  /\ OnClock(z, t) < OnClock(z, u)
           /\ ~(time.wall < OnClock(z, u) - 72)
           /\ Moment(z, time.wall, Again(z, u)) = time
<1>1. PICK b \in Int, a \in Int, c \in Int : b = z.before /\ a = z.after /\ c = z.change /\ b - a <= 35
  BY ZoneIs
<1>2. PICK at \in Int, wall \in Int : at = time.at /\ wall = time.wall
  BY DEF Moments
<1>3. PICK x \in Int, y \in Int : x = OnClock(z, t) /\ y = OnClock(z, u)
  BY OnClockIs
<1>4. x = t + (IF t < c THEN b ELSE a) /\ y = u + (IF u < c THEN b ELSE a)
  BY <1>1, <1>3, OnClockIs
<1>5. wall = at + (IF at < c THEN b ELSE a)
  BY <1>1, <1>2, OnClockIs DEF Keeps
<1>6. at = wall - (IF wall < c + (IF a < b THEN b ELSE a) THEN b ELSE a)
  BY <1>1, <1>2, FirstMoment DEF Keeps
<1>7. u < c \/ (c <= t /\ c <= at)
  BY <1>1, <1>2 DEF Keeps, AtMost
<1>8. u <= at + 72
  BY <1>2 DEF Keeps, Grace, Hour
<1>9. x < y
  BY <1>4, <1>7
<1>10. ~(wall < y - 72)
  BY <1>1, <1>4, <1>5, <1>7, <1>8
<1>11. Moment(z, time.wall, Again(z, u)) = time
  <2>1. Moment(z, time.wall, FALSE) = time
    BY DEF Keeps
  <2>2. CASE ~Again(z, u)
    <3>1. Again(z, u) = FALSE
      BY <2>2 DEF Again
    <3> QED
      BY <2>1, <3>1
  <2>3. CASE Again(z, u)
    <3>1. Again(z, u) = TRUE
      BY <2>3 DEF Again
    <3>2. c <= at /\ a < b
      BY <1>1, <1>7, <2>3 DEF Again
    <3>3. ~(wall < c + b) /\ ~(wall < c + a)
      BY <1>6, <3>2
    <3>4. PICK late \in Int, soon \in Int : /\ late = c + AtLeast(b, a) /\ soon = c + AtMost(b, a)
                                            /\ ~(wall < late) /\ ~(wall < soon)
      BY <3>3 DEF AtLeast, AtMost
    <3>5. Moment(z, wall, FALSE) = [at |-> wall - a, wall |-> wall]
      BY <1>1, <3>4 DEF Moment
    <3>6. Moment(z, wall, TRUE) = [at |-> wall - a, wall |-> wall]
      BY <1>1, <3>4 DEF Moment
    <3> QED
      BY <1>2, <2>1, <3>1, <3>5, <3>6
  <2> QED
    BY <2>2, <2>3
<1> QED
  BY <1>2, <1>3, <1>9, <1>10, <1>11

\* A day without a year stays in the year while it is to come.
LEMMA YearHolds ==
    ASSUME NEW read, read.day \in Nat, read.year \in BOOLEAN, ~read.year => read.day < YearDays,
           NEW c \in Int, NEW d \in Int, c <= d, d <= DayRead(read, c)
    PROVE  DayRead(read, d) = DayRead(read, c)
<1>1. CASE read.year
  BY <1>1 DEF DayRead
<1>2. CASE ~read.year
  <2>1. PICK n \in Nat \ {0} : n = YearDays
    BY DummyEpgAssumptions
  <2>2. PICK k \in Int, r \in Int : k = c \div n /\ r = c % n /\ 0 <= r /\ r < n /\ c = n * k + r
    BY Quotient
  <2>3. PICK j \in Int, q \in Int : j = d \div n /\ q = d % n /\ 0 <= q /\ q < n /\ d = n * j + q
    BY Quotient
  <2>4. PICK day \in Nat : day = read.day /\ day < n
    BY <1>2, <2>1
  <2>5. DayRead(read, c) = c - r + day /\ DayRead(read, d) = d - q + day
    BY <1>2, <2>1, <2>2, <2>3, <2>4 DEF DayRead
  <2>6. n * k <= n * j + q /\ n * j + q <= n * k + day
    BY <2>2, <2>3, <2>5
  <2>7. j = k
    <3>1. ~(j >= k + 1)
      <4> SUFFICES ASSUME j >= k + 1 PROVE FALSE
        OBVIOUS
      <4>1. n * (j - k - 1) >= 0
        OBVIOUS
      <4>2. n * j >= n * k + n
        BY <4>1
      <4> QED
        BY <2>3, <2>4, <2>6, <4>2
    <3>2. ~(k >= j + 1)
      <4> SUFFICES ASSUME k >= j + 1 PROVE FALSE
        OBVIOUS
      <4>1. n * (k - j - 1) >= 0
        OBVIOUS
      <4>2. n * k >= n * j + n
        BY <4>1
      <4> QED
        BY <2>3, <2>6, <4>2
    <3> QED
      BY <3>1, <3>2
  <2> QED
    BY <2>2, <2>3, <2>5, <2>7
<1> QED
  BY <1>1, <1>2

\* What is read holds from t to u: without a date it is of the day the clock is
\* in, or of the next if that is over six hours ago.
LEMMA EventTimeHolds ==
    ASSUME NEW read, read.hour \in Nat, read.slot \in Nat, read.day \in Nat \union {NoDate, BadDate, NoNumber},
           read.year \in BOOLEAN, read.day \in Nat /\ ~read.year => read.day < YearDays,
           NEW z \in Zones, NEW time \in Moments, NEW t \in Int, NEW u \in Int, t < u, Keeps(z, time, t, u),
           time = EventTime(read, z, t), OnClock(z, u) \div Day <= time.wall \div Day
    PROVE  EventTime(read, z, u) = time
<1>1. time # NoEvent /\ time # Raises
  BY DummyEpgAssumptions
<1>2. ~(read.hour > 23) /\ ~Fails(read) /\ ~(read.day = BadDate \/ read.slot >= Hour)
  BY <1>1 DEF EventTime, Fails
<1>3. PICK clock \in 0..287 : clock = read.hour * Hour + read.slot
  <2>1. PICK hour \in Nat, slot \in Nat : hour = read.hour /\ slot = read.slot
    OBVIOUS
  <2>2. ~(hour > 23) /\ ~(slot >= 12)
    BY <1>2, <2>1 DEF Hour
  <2>3. hour \in 0..23 /\ slot \in 0..11
    BY <2>2
  <2>4. hour * 12 + slot \in 0..287
    BY <2>3
  <2> QED
    BY <2>1, <2>4 DEF Hour
<1>4. PICK x \in Int, y \in Int : x = OnClock(z, t) /\ y = OnClock(z, u)
  BY OnClockIs
<1>c. PICK c \in Int, r \in 0..287 : c = x \div Day /\ x = 288 * c + r
  BY DayOf
<1>5. PICK d \in Int, q \in 0..287 : d = y \div Day /\ y = 288 * d + q
  BY DayOf
<1>6. c <= d
  <2>1. OnClock(z, t) < OnClock(z, u)
    BY ClocksGoOn
  <2>2. 288 * c + r < 288 * d + q
    BY <1>4, <1>c, <1>5, <2>1
  <2> QED
    BY <2>2
<1>7. CASE read.day = NoDate
  <2>1. PICK here \in Int, there \in Int : /\ here = c * Day + clock /\ here = 288 * c + clock
                                           /\ there = d * Day + clock /\ there = 288 * d + clock
    BY DEF Day, Hour
  <2>2. time = NextOccurrence(z, here, t)
    BY <1>2, <1>3, <1>4, <1>c, <1>7, <2>1 DEF EventTime, Fails
  <2>3. EventTime(read, z, u) = NextOccurrence(z, there, u)
    BY <1>2, <1>3, <1>4, <1>5, <1>7, <2>1 DEF EventTime, Fails
  <2>4. PICK wall \in Int : wall = time.wall
    BY DEF Moments
  <2>5. PICK e \in Int, o \in 0..287 : e = wall \div Day /\ wall = 288 * e + o
    BY DayOf
  <2>6. d <= e
    BY <1>4, <1>5, <2>4, <2>5
  <2>7. x < y /\ ~(wall < y - 72) /\ Moment(z, wall, Again(z, u)) = time
    BY <1>4, <2>4, ClocksGoOn
  <2>8. Grace = 72 /\ Day = 288
    BY DEF Grace, Day, Hour
  <2>9. /\ here < x - 72 => time = Moment(z, here + 288, FALSE)
        /\ ~(here < x - 72) => time = Moment(z, here, Again(z, t))
    BY <1>4, <2>2, <2>8 DEF NextOccurrence
  <2>10. /\ there < y - 72 => NextOccurrence(z, there, u) = Moment(z, there + 288, FALSE)
         /\ ~(there < y - 72) => NextOccurrence(z, there, u) = Moment(z, there, Again(z, u))
    BY <1>4, <2>8 DEF NextOccurrence
  <2>11. CASE here < x - 72
    <3>1. PICK next \in Int : next = here + 288
      OBVIOUS
    <3>2. time = Moment(z, next, FALSE)
      <4>1. time = Moment(z, here + 288, FALSE)
        BY <2>9, <2>11
      <4> QED
        BY <3>1, <4>1, Zenon
    <3>3. Moment(z, next, FALSE).wall = next
      BY FirstMoment
    <3>4. time.wall = next
      BY <3>2, <3>3, Zenon
    <3>5. wall = here + 288
      BY <2>4, <3>1, <3>4
    <3>6. e = c + 1
      <4>1. PICK f \in Int : f = c + 1 /\ 288 * f = 288 * c + 288
        OBVIOUS
      <4>2. wall = 288 * f + clock
        BY <2>1, <3>5, <4>1
      <4>3. 288 * e + o = 288 * f + clock
        BY <2>5, <4>2
      <4>4. e = f
        BY <4>3
      <4> QED
        BY <4>1, <4>4
    <3>7. CASE d = c
      <4>1. there = here /\ there < y - 72
        BY <2>1, <2>7, <2>11, <3>7
      <4>2. NextOccurrence(z, there, u) = Moment(z, here + 288, FALSE)
        BY <2>10, <4>1
      <4> QED
        BY <2>3, <2>9, <2>11, <4>2
    <3>8. CASE d = c + 1
      <4>1. there = wall
        BY <2>1, <3>5, <3>8
      <4> QED
        BY <2>3, <2>7, <2>10, <4>1
    <3> QED
      BY <1>6, <2>6, <3>6, <3>7, <3>8
  <2>12. CASE ~(here < x - 72)
    <3>1. Again(z, t) \in BOOLEAN
      BY DEF Again
    <3>2. Moment(z, here, Again(z, t)).wall = here
      BY <3>1, ZoneIs, MomentIs
    <3>3. time = Moment(z, here, Again(z, t))
      BY <2>9, <2>12
    <3>4. wall = here
      BY <2>4, <3>2, <3>3, Zenon
    <3>5. e = c
      <4>1. 288 * e + o = 288 * c + clock
        BY <2>1, <2>5, <3>4
      <4> QED
        BY <4>1
    <3>6. d = c
      BY <1>6, <2>6, <3>5
    <3>7. there = wall
      BY <2>1, <3>4, <3>6
    <3> QED
      BY <2>3, <2>7, <2>10, <3>7
  <2> QED
    BY <2>11, <2>12
<1>8. CASE read.day # NoDate
  <2>1. read.day \in Nat
    BY <1>2, <1>8 DEF Fails
  <2>2. time = Moment(z, DayRead(read, c) * Day + clock, FALSE)
    BY <1>2, <1>3, <1>4, <1>c, <1>8 DEF EventTime, Fails
  <2>3. EventTime(read, z, u) = Moment(z, DayRead(read, d) * Day + clock, FALSE)
    BY <1>2, <1>3, <1>4, <1>5, <1>8 DEF EventTime, Fails
  <2>4. PICK day \in Int : day = DayRead(read, c)
    BY <2>1, DayReadIs
  <2>5. PICK wall \in Int : wall = day * Day + clock /\ wall = 288 * day + clock
    BY DEF Day, Hour
  <2>6. time.wall = wall
    <3>1. Moment(z, wall, FALSE).wall = wall
      BY FirstMoment
    <3>2. time = Moment(z, wall, FALSE)
      BY <2>2, <2>4, <2>5
    <3> QED
      BY <3>1, <3>2, Zenon
  <2>7. wall \div Day = day
    <3>1. PICK e \in Int, o \in 0..287 : e = wall \div Day /\ wall = 288 * e + o
      BY DayOf
    <3>2. e = day
      BY <2>5, <3>1
    <3> QED
      BY <3>1, <3>2
  <2>8. d <= day
    BY <1>4, <1>5, <2>6, <2>7
  <2>9. DayRead(read, d) = DayRead(read, c)
    BY <1>6, <2>1, <2>4, <2>8, YearHolds
  <2> QED
    BY <2>2, <2>3, <2>9
<1> QED
  BY <1>7, <1>8

LEMMA ParsedTimeHolds ==
    ASSUME NEW name \in Names, NEW rules \in Seq(Parsers), NEW t \in Int, NEW u \in Int, t < u,
           NEW e, e = ParseEvent(name, rules, t), e.time \notin {NoEvent, Raises},
           Keeps(Zone[e.by], e.time, t, u), DayIn(e.by, u) <= e.time.wall \div Day
    PROVE  ParseEvent(name, rules, u) = ParseEvent(name, rules, t)
<1>1. PICK by \in Parsers, time \in Moments : by = e.by /\ time = e.time
  BY ParsedEvent
<1>2. time = Apply(by, name, t) /\ time \notin {NoEvent, Raises}
  BY <1>1, ParsedEvent
<1>3. Reads[by][name] \notin {NoMatch, NoNumber}
  BY <1>2 DEF Apply
<1>4. PICK z \in Zones : z = Zone[by]
  BY ZonesKnown
<1>5. PICK read : read = Reads[by][name]
  OBVIOUS
<1>6. /\ read.hour \in Nat /\ read.slot \in Nat /\ read.day \in Nat \union {NoDate, BadDate, NoNumber}
      /\ read.year \in BOOLEAN /\ (read.day \in Nat /\ ~read.year => read.day < YearDays)
  BY <1>3, <1>5, DummyEpgAssumptions
<1>7. time = EventTime(read, z, t) /\ Apply(by, name, u) = EventTime(read, z, u)
  BY <1>2, <1>3, <1>4, <1>5 DEF Apply
<1>8. Keeps(z, time, t, u) /\ OnClock(z, u) \div Day <= time.wall \div Day
  BY <1>1, <1>4 DEF DayIn
<1>9. Apply(by, name, u) = time
  BY <1>6, <1>7, <1>8, EventTimeHolds
<1>10. /\ ParseEvent(name, rules, u).time # NoEvent
       /\ ParseEvent(name, rules, u).by = by
       /\ ParseEvent(name, rules, u) = [by |-> by, time |-> ParseEvent(name, rules, u).time]
       /\ ParseEvent(name, rules, t) = [by |-> by, time |-> time]
  <2>1. ParseEvent(name, rules, t).time # NoEvent
    BY <1>1, <1>2
  <2>2. /\ ParseEvent(name, rules, u).time # NoEvent
        /\ ParseEvent(name, rules, u).by = ParseEvent(name, rules, t).by
        /\ ParseEvent(name, rules, u)
             = [by |-> ParseEvent(name, rules, u).by, time |-> ParseEvent(name, rules, u).time]
        /\ ParseEvent(name, rules, t)
             = [by |-> ParseEvent(name, rules, t).by, time |-> ParseEvent(name, rules, t).time]
    BY <2>1, SameParser
  <2> QED
    BY <1>1, <2>2
<1>11. ParseEvent(name, rules, u).time = Apply(by, name, u)
  BY <1>10, ParsedEvent
<1> QED
  BY <1>9, <1>10, <1>11

TimeStaysPut ==
    now' # now => \A i \in Present : \A s \in Plan(i).rules :
        LET before == ParseEvent(channel[i].name, s, now)
            after  == ParseEvent(channel[i].name, s, now') IN
        /\ before.time \notin {NoEvent, Raises}
        /\ now' <= before.time.at + Grace
        /\ DayIn(before.by, now') <= DayIn(before.by, before.time.at)
        /\ ~OddTime(before) /\ ~ChangesBy(before, now')
        => after = before

LEMMA ClockGoesOn == ASSUME GInv, [Next]_vars, now' # now PROVE now' \in Int /\ now < now'
<1>1. Tick => now' \in Int /\ now < now'
  BY GuideAssumptions DEF Tick
<1>2. Request => now' = now
  BY RequestEdits DEF Edit, Commit
<1>3. UNCHANGED vars \/ Fetch => now' = now
  BY FetchReads DEF vars
<1>4. CopySteps \/ Duplicate => now' = now
  BY CopyReads DEF Duplicate, Commit
<1> QED
  BY <1>1, <1>2, <1>3, <1>4 DEF Next, Request, CopySteps

LEMMA TimeStep == ASSUME GInv, [Next]_vars PROVE TimeStaysPut
<1> SUFFICES ASSUME now' # now, NEW i \in Present, NEW s \in Plan(i).rules,
                    NEW e, e = ParseEvent(channel[i].name, s, now), e.time \notin {NoEvent, Raises},
                    now' <= e.time.at + Grace, DayIn(e.by, now') <= DayIn(e.by, e.time.at),
                    ~OddTime(e), ~ChangesBy(e, now')
             PROVE  ParseEvent(channel[i].name, s, now') = e
  BY DEF TimeStaysPut
<1>1. now' \in Int /\ now < now' /\ now \in Int /\ channel[i].name \in Names /\ s \in Seq(Parsers)
  BY ClockGoesOn, PlanRows, GuideAssumptions DEF GInv
<1>2. Keeps(Zone[e.by], e.time, now, now')
  BY DEF OddTime, ChangesBy, Keeps
<1>3. DayIn(e.by, now') <= e.time.wall \div Day
  BY DEF DayIn, OddTime
<1> QED
  BY <1>1, <1>2, <1>3, ParsedTimeHolds

(* The time announced for an event stays as the clock goes on: for any name,
   rules and instants and any zones, each of which may change its clocks once;
   events at odd times, and changes of the clocks after an event or now, are
   left out. *)
THEOREM AnnouncedTimesHold == Spec => AnnouncedTimeHolds
<1>1. GInv /\ [Next]_vars => TimeStaysPut
  BY TimeStep
<1>2. Spec => [][TimeStaysPut]_vars
  BY <1>1, GuideInvariance, PTL DEF Spec
<1> QED
  BY <1>2 DEF AnnouncedTimeHolds, TimeStaysPut

-----------------------------------------------------------------------------
(* A duplicate stands alone *)

LEMMA PlanNext ==
    ASSUME NEW i
    PROVE  Plan(i)' = PlanOf(channel'[i], category'[channel'[i].list], OwnRules(channel[i].list)', guide')
  BY DEF Plan, CategoryOf

\* What an edit of one playlist's rules or category leaves alone: the rules of
\* the others, and what of their channels and categories counts for a channel
\* that is not pinned to it.
Untouched(l) ==
    /\ \A r \in Rules : rule'[r] = rule[r] \/ {rule[r].list, rule'[r].list} \subseteq {l, NoList}
    /\ \A i \in Present : channel[i].list # l /\ ~PinnedTo(i, l)
         => /\ channel'[i] = channel[i]
            /\ Mode(channel[i], category'[channel[i].list]) = Mode(channel[i], CategoryOf(i))
            /\ Length(channel[i], category'[channel[i].list]) = Length(channel[i], CategoryOf(i))
            /\ Pin(channel[i], category'[channel[i].list]) = Pin(channel[i], CategoryOf(i))
    /\ guide' = guide

LEMMA RulesEditUntouched == ASSUME GInv, NEW l \in Lists, EditRules(l) PROVE Untouched(l)
<1>0. rule \in [Rules -> RuleRows]
  BY DEF GInv, RulesOK
<1>1. ASSUME NEW p \in Patterns, CreateRule(l, p) PROVE Untouched(l)
  <2>1. UNCHANGED <<category, channel, guide>> /\ NextRule \in Rules
    BY <1>1 DEF CreateRule
  <2>2. \A k \in Rules : k # NextRule => rule'[k] = rule[k]
    BY <1>1, CreatedRule
  <2>3. rule[NextRule].list = NoList
    BY <2>1, FreshRule, Ids DEF GInv, RulesOK
  <2>4. rule'[NextRule].list = l
    <3>1. PICK row : row = [list |-> l, pattern |-> p, on |-> TRUE, place |-> Cardinality(RulesOf(l)), stamp |-> 0]
      OBVIOUS
    <3>2. rule' = [rule EXCEPT ![NextRule] = [row EXCEPT !.stamp = began']]
      BY <1>1, <3>1 DEF CreateRule, WriteRule
    <3>3. rule'[NextRule] = [row EXCEPT !.stamp = began']
      BY <1>0, <2>1, <3>2
    <3> QED
      BY <3>1, <3>3
  <2> QED
    BY <2>1, <2>2, <2>3, <2>4 DEF Untouched, CategoryOf
<1>2. ASSUME NEW r \in Rules, NEW p \in Patterns, NEW on \in BOOLEAN, UpdateRule(l, r, p, on) PROVE Untouched(l)
  <2>1. UNCHANGED <<category, channel, guide>> /\ rule[r].list = l
    BY <1>2 DEF UpdateRule, RulesOf
  <2>2. \A k \in Rules : k # r => rule'[k] = rule[k]
    BY <1>2, UpdatedRule
  <2>3. rule'[r].list = l
    <3>1. PICK old \in RuleRows : old = rule[r]
      BY <1>0
    <3>2. PICK row : row = [old EXCEPT !.pattern = p, !.on = on]
      OBVIOUS
    <3>3. rule' = [rule EXCEPT ![r] = [row EXCEPT !.stamp = began']]
      BY <1>2, <3>1, <3>2 DEF UpdateRule, WriteRule
    <3>4. rule'[r] = [row EXCEPT !.stamp = began']
      BY <1>0, <3>3
    <3>5. row.list = l
      BY <2>1, <3>1, <3>2 DEF RuleRows
    <3>6. [row EXCEPT !.stamp = began'].list = row.list
      BY <3>1, <3>2 DEF RuleRows
    <3> QED
      BY <3>4, <3>5, <3>6
  <2> QED
    BY <2>1, <2>2, <2>3 DEF Untouched, CategoryOf
<1>3. ASSUME NEW items \in SetToSeqs({r \in Rules : rule[r].list # NoList}), ReorderRules(l, items) PROVE Untouched(l)
  <2>1. UNCHANGED <<category, channel, guide>>
    BY <1>3 DEF ReorderRules
  <2>2. ASSUME NEW r \in Rules PROVE rule'[r] = rule[r] \/ (rule[r].list = l /\ rule'[r].list = l)
    <3>1. PICK at : at = PlaceIn(items, r)
      OBVIOUS
    <3>2. PICK old \in RuleRows : old = rule[r]
      BY <1>0
    <3>3. rule'[r] = IF at >= 0 /\ old.list = l /\ old.place # at
                     THEN [old EXCEPT !.place = at, !.stamp = began'] ELSE old
      BY <1>3, <3>1, <3>2 DEF ReorderRules
    <3>4. [old EXCEPT !.place = at, !.stamp = began'].list = old.list
      BY DEF RuleRows
    <3> QED
      BY <3>2, <3>3, <3>4
  <2> QED
    BY <2>1, <2>2 DEF Untouched, CategoryOf
<1>4. ASSUME NEW r \in Rules, DeleteRule(l, r) PROVE Untouched(l)
  <2>1. guide' = guide
    BY <1>4 DEF DeleteRule
  <2>2. /\ rule[r].list = l /\ rule'[r].list = NoList /\ \A k \in Rules : k # r => rule'[k] = rule[k]
        /\ \A k \in Lists : category[k].pin # r => category'[k] = category[k]
        /\ \A k \in Lists : category[k].pin = r => category'[k] = [category[k] EXCEPT !.pin = NoRule]
        /\ \A i \in Channels : channel[i].pin # r => channel'[i] = channel[i]
    BY <1>4, DeletedRule
  <2>3. ASSUME NEW i \in Present, ~PinnedTo(i, l)
        PROVE  /\ channel'[i] = channel[i]
               /\ Mode(channel[i], category'[channel[i].list]) = Mode(channel[i], CategoryOf(i))
               /\ Length(channel[i], category'[channel[i].list]) = Length(channel[i], CategoryOf(i))
               /\ Pin(channel[i], category'[channel[i].list]) = Pin(channel[i], CategoryOf(i))
    <3>1. i \in Channels /\ channel[i] \in ChannelRows /\ channel[i].list \in Lists /\ CategoryOf(i) \in CategoryRows
      BY PlanRows DEF Present
    <3>2. r # NoRule /\ r \in RulesOf(l)
      BY <2>2, RuleZero DEF RulesOf
    <3>3. PinOf(i) # r
      BY <2>3, <3>2 DEF PinnedTo
    <3>4. channel[i].pin # r
      BY <3>2, <3>3 DEF PinOf, Pin
    <3>5. PICK row : row = channel[i]
      OBVIOUS
    <3>6. PICK old, new : old \in CategoryRows /\ old = CategoryOf(i) /\ new = category'[channel[i].list]
      BY <3>1
    <3>7. old = category[channel[i].list]
      BY <3>6 DEF CategoryOf
    <3>8. CASE old.pin # r
      <4>1. new = old
        BY <2>2, <3>1, <3>6, <3>7, <3>8
      <4> QED
        BY <2>2, <3>1, <3>4, <3>6, <4>1
    <3>9. CASE old.pin = r
      <4>1. new = [old EXCEPT !.pin = NoRule]
        BY <2>2, <3>1, <3>6, <3>7, <3>9
      <4>2. new.mode = old.mode /\ new.minutes = old.minutes
        BY <4>1 DEF CategoryRows
      <4>3. row.pin # NoRule \/ row.mode # "inherit"
        BY <3>3, <3>5, <3>6, <3>9 DEF PinOf, Pin
      <4>4. Pin(row, new) = Pin(row, old) /\ Mode(row, new) = Mode(row, old) /\ Length(row, new) = Length(row, old)
        BY <4>2, <4>3 DEF Pin, Mode, Length
      <4> QED
        BY <2>2, <3>1, <3>4, <3>5, <3>6, <4>4
    <3> QED
      BY <3>8, <3>9
  <2> QED
    BY <2>1, <2>2, <2>3 DEF Untouched
<1> QED
  BY <1>1, <1>2, <1>3, <1>4 DEF EditRules

LEMMA CategoryEditUntouched == ASSUME GInv, NEW l \in Lists, EditCategory(l) PROVE Untouched(l)
<1>0. category \in [Lists -> CategoryRows]
  BY DEF GInv, CategoriesOK
<1>1. ASSUME NEW row, UpdateCategory(l, row) PROVE Untouched(l)
  <2>1. UNCHANGED <<rule, channel, guide>> /\ \A k \in Lists : k # l => category'[k] = category[k]
    BY <1>0, <1>1 DEF UpdateCategory
  <2>2. \A i \in Present : channel[i].list \in Lists
    BY PlanRows
  <2> QED
    BY <2>1, <2>2 DEF Untouched, CategoryOf
<1>2. CASE ClearCategoryEpg(l)
  <2>1. UNCHANGED <<rule, category, guide>> /\ \A i \in Channels : channel[i].list # l => channel'[i] = channel[i]
    BY <1>2 DEF ClearCategoryEpg, ChannelsOf
  <2> QED
    BY <2>1 DEF Untouched, Present, CategoryOf
<1> QED
  BY <1>1, <1>2 DEF EditCategory

\* What is untouched shows what it did.
LEMMA UntouchedShows ==
    ASSUME GInv, NEW l \in Lists, Untouched(l), NEW i \in Present, channel[i].list # l, ~PinnedTo(i, l)
    PROVE  Plan(i)' = Plan(i)
<1>1. PICK m, row, cat, new : m = channel[i].list /\ row = channel[i] /\ cat = CategoryOf(i) /\ new = category'[m]
  OBVIOUS
<1>2. m \in Lists /\ m # l /\ m # NoList
  BY <1>1, PlanRows, GuideAssumptions
<1>3. /\ channel'[i] = row /\ guide' = guide
      /\ Mode(row, new) = Mode(row, cat) /\ Length(row, new) = Length(row, cat) /\ Pin(row, new) = Pin(row, cat)
  BY <1>1 DEF Untouched
<1>4. PICK rules : rules = OwnRules(m)
  OBVIOUS
<1>5. OwnRules(channel[i].list)' = rules
  <2>1. \A r \in Rules : rule[r].list = m \/ rule'[r].list = m => rule'[r] = rule[r]
    BY <1>2 DEF Untouched
  <2>2. {r \in Rules : rule'[r].list = m} = {r \in Rules : rule[r].list = m}
    BY <2>1
  <2>3. PICK R : R = {r \in Rules : rule[r].list = m}
    OBVIOUS
  <2>4. \A r \in R : rule'[r] = rule[r]
    BY <2>1, <2>3
  <2>5. [r \in R |-> rule'[r]] = [r \in R |-> rule[r]]
    BY <2>4
  <2>6. channel'[i].list = m
    BY <1>1, <1>3
  <2>7. OwnRules(channel[i].list)' = [r \in R |-> rule'[r]]
    BY <2>2, <2>3, <2>6 DEF OwnRules, RulesOf
  <2>8. rules = [r \in R |-> rule[r]]
    BY <1>4, <2>3 DEF OwnRules, RulesOf
  <2> QED
    BY <2>5, <2>7, <2>8
<1>6. Plan(i)' = PlanOf(row, new, rules, guide)
  BY <1>1, <1>3, <1>5, PlanNext
<1>7. Plan(i) = PlanOf(row, cat, rules, guide)
  BY <1>1, <1>4 DEF Plan
<1>8. PlanOf(row, new, rules, guide) = PlanOf(row, cat, rules, guide)
  BY <1>3 DEF PlanOf
<1> QED
  BY <1>6, <1>7, <1>8

LEMMA EditsApart == ASSUME GInv PROVE EditsStayApart
  BY RulesEditUntouched, CategoryEditUntouched, UntouchedShows DEF EditsStayApart

\* Rules and their copies: f takes one to the other.
Matches(rl, S, rm, T, f) ==
    /\ f \in [S -> T] /\ \A r, q \in S : r # q => f[r] # f[q]
    /\ \A r \in S : rm[f[r]].pattern = rl[r].pattern /\ rm[f[r]].place = rl[r].place

LEMMA OrdersMatch ==
    ASSUME NEW rl, NEW rm, NEW S, S = Enabled(rl), NEW T, T = Enabled(rm), NEW f, Matches(rl, S, rm, T, f),
           Cardinality(S) = Cardinality(T)
    PROVE  {PatternsOf(s, rl) : s \in EventRules(rl)} \subseteq {PatternsOf(s, rm) : s \in EventRules(rm)}
<1> SUFFICES ASSUME NEW s \in EventRules(rl)
             PROVE  \E t \in EventRules(rm) : PatternsOf(s, rl) = PatternsOf(t, rm)
  OBVIOUS
<1>1. PICK D : D = 1..Cardinality(S)
  OBVIOUS
<1>2. s \in [D -> S] /\ \A j, k \in D : j # k => s[j] # s[k]
  BY <1>1 DEF EventRules, SetToSeqs
<1>3. \A j, k \in D : j < k => rl[s[j]].place <= rl[s[k]].place
  BY <1>2 DEF EventRules
<1>4. PICK t : t = [k \in D |-> f[s[k]]]
  OBVIOUS
<1>5. t \in [D -> T] /\ \A j, k \in D : j # k => t[j] # t[k]
  BY <1>2, <1>4 DEF Matches
<1>6. t \in SetToSeqs(T)
  BY <1>1, <1>5 DEF SetToSeqs
<1>7. \A k \in D : rm[t[k]].pattern = rl[s[k]].pattern /\ rm[t[k]].place = rl[s[k]].place
  BY <1>2, <1>4 DEF Matches
<1>8. \A j, k \in D : j < k => rm[t[j]].place <= rm[t[k]].place
  BY <1>3, <1>7
<1>9. t \in EventRules(rm)
  BY <1>5, <1>6, <1>8 DEF EventRules
<1>10. PatternsOf(s, rl) = PatternsOf(t, rm)
  BY <1>2, <1>5, <1>7 DEF PatternsOf
<1> QED
  BY <1>9, <1>10

\* The copy of a rule, and the rows of the copies.
Twin(r)  == CopyOf(OldRules, NextRule, r)
NewRows  == [r \in {r \in Rules : rule'[r].list = Other} |-> rule'[r]]

LEMMA CopiedRules ==
    ASSUME GInv, CopyingOK, Duplicate
    PROVE  /\ DOMAIN NewRows = NewRules
           /\ \A r \in OldRules :
                /\ Twin(r) \in NewRules /\ Original(OldRules, NextRule, Twin(r)) = r
                /\ NewRows[Twin(r)].pattern = copying.rules[r].pattern /\ NewRows[Twin(r)].on = copying.rules[r].on
                /\ NewRows[Twin(r)].place = copying.rules[r].place
           /\ \A n \in NewRules : Original(OldRules, NextRule, n) \in OldRules /\ Twin(Original(OldRules, NextRule, n)) = n
<1>1. /\ ~category[Other].there /\ NewRules \subseteq Rules
      /\ \A r \in NewRules : /\ Original(OldRules, NextRule, r) \in OldRules
                             /\ rule'[r] = [copying.rules[Original(OldRules, NextRule, r)] EXCEPT !.list = Other, !.stamp = began']
      /\ \A r \in Rules \ NewRules : rule'[r] = rule[r]
      /\ \A r \in OldRules : CopyOf(OldRules, NextRule, r) \in NewRules
                             /\ Original(OldRules, NextRule, CopyOf(OldRules, NextRule, r)) = r
  BY DuplicateMade
<1>2. {r \in Rules : rule'[r].list = Other} = NewRules
  <2>1. \A r \in Rules \ NewRules : rule'[r].list # Other
    BY <1>1, OtherList DEF GInv, CategoriesOK
  <2>2. \A r \in NewRules : rule'[r].list = Other
    BY CopiedRule
  <2> QED
    BY <1>1, <2>1, <2>2
<1>3. DOMAIN NewRows = NewRules /\ \A n \in NewRules : NewRows[n] = rule'[n]
  BY <1>2 DEF NewRows
<1>4. ASSUME NEW r \in OldRules
      PROVE  /\ Twin(r) \in NewRules /\ Original(OldRules, NextRule, Twin(r)) = r
             /\ NewRows[Twin(r)].pattern = copying.rules[r].pattern /\ NewRows[Twin(r)].on = copying.rules[r].on
             /\ NewRows[Twin(r)].place = copying.rules[r].place
  <2>1. PICK n \in NewRules : n = Twin(r) /\ Original(OldRules, NextRule, n) = r
    BY <1>1 DEF Twin
  <2>2. PICK old \in RuleRows : old = copying.rules[r]
    BY ReadRows
  <2>3. PICK new : new = [old EXCEPT !.list = Other, !.stamp = began']
    OBVIOUS
  <2>4. new.pattern = old.pattern /\ new.on = old.on /\ new.place = old.place
    BY <2>3 DEF RuleRows
  <2>5. NewRows[n] = new
    BY <1>1, <1>3, <2>1, <2>2, <2>3
  <2> QED
    BY <2>1, <2>2, <2>4, <2>5
<1>5. \A n \in NewRules : Original(OldRules, NextRule, n) \in OldRules /\ Twin(Original(OldRules, NextRule, n)) = n
  <2>1. OldRules \in SUBSET Nat /\ IsFiniteSet(OldRules)
    BY Ids, ReadRows
  <2> QED
    BY <2>1, CopiesAreNew, FreshRule DEF NewRules, Twin
<1> QED
  BY <1>3, <1>4, <1>5

\* The duplicate's rules are tried in the originals' orders.
LEMMA CopiedOrders ==
    ASSUME GInv, CopyingOK, Duplicate
    PROVE  {PatternsOf(s, NewRows) : s \in EventRules(NewRows)}
             = {PatternsOf(s, copying.rules) : s \in EventRules(copying.rules)}
<1>1. PICK rl, rm : rl = copying.rules /\ rm = NewRows
  OBVIOUS
<1>2. PICK S, T : S = Enabled(rl) /\ T = Enabled(rm)
  OBVIOUS
<1>3. S = {r \in OldRules : rl[r].on} /\ T = {r \in NewRules : rm[r].on}
  BY <1>1, <1>2, CopiedRules DEF Enabled, OldRules
<1>4. PICK f : f = [r \in S |-> Twin(r)]
  OBVIOUS
<1>5. PICK g : g = [n \in T |-> Original(OldRules, NextRule, n)]
  OBVIOUS
<1>6. /\ \A r \in S : /\ Twin(r) \in T /\ Original(OldRules, NextRule, Twin(r)) = r
                      /\ rm[Twin(r)].pattern = rl[r].pattern /\ rm[Twin(r)].place = rl[r].place
      /\ \A n \in T : Original(OldRules, NextRule, n) \in S /\ Twin(Original(OldRules, NextRule, n)) = n
  BY <1>1, <1>3, CopiedRules
<1>7. f \in [S -> T] /\ \A r \in S : f[r] \in T /\ f[r] = Twin(r)
  BY <1>4, <1>6
<1>8. g \in [T -> S] /\ \A n \in T : g[n] \in S /\ g[n] = Original(OldRules, NextRule, n)
  BY <1>5, <1>6
<1>9. (\A r \in S : g[f[r]] = r) /\ (\A n \in T : f[g[n]] = n)
  BY <1>6, <1>7, <1>8
<1>10. Matches(rl, S, rm, T, f)
  BY <1>6, <1>7, <1>9 DEF Matches
<1>11. Matches(rm, T, rl, S, g)
  <2>1. \A n \in T : rl[g[n]].pattern = rm[n].pattern /\ rl[g[n]].place = rm[n].place
    BY <1>6, <1>8
  <2> QED
    BY <1>8, <1>9, <2>1 DEF Matches
<1>12. Cardinality(S) = Cardinality(T)
  <2>1. IsFiniteSet(S)
    BY <1>3, Ids, ReadRows
  <2>2. f \in Injection(S, T)
    BY <1>7, <1>9 DEF Injection, IsInjective
  <2>3. f \in Surjection(S, T)
    BY <1>7, <1>8, <1>9 DEF Surjection
  <2> QED
    BY <2>1, <2>2, <2>3, FS_Surjection
<1>13. {PatternsOf(s, rl) : s \in EventRules(rl)} \subseteq {PatternsOf(s, rm) : s \in EventRules(rm)}
  BY <1>2, <1>10, <1>12, OrdersMatch
<1>14. {PatternsOf(s, rm) : s \in EventRules(rm)} \subseteq {PatternsOf(s, rl) : s \in EventRules(rl)}
  BY <1>2, <1>11, <1>12, OrdersMatch
<1> QED
  BY <1>1, <1>13, <1>14

\* The copy of a channel shows what was read for the channel.
LEMMA CopyShows ==
    ASSUME GInv, CopyingOK, Duplicate, NEW i \in OldChannels, NEW row, row = copying.channels[i],
           Pin(row, copying.category) = NoRule \/ Pin(row, copying.category) \in OldRules
    PROVE  \E j \in Present' : /\ channel'[j].list = Other
                               /\ Plan(j)' = PlanOf(row, copying.category, copying.rules, guide)
<1>1. PICK j : j = CopyOf(OldChannels, NextChannel, i)
  OBVIOUS
<1>2. j \in NewChannels /\ i = Original(OldChannels, NextChannel, j) /\ NewChannels \subseteq Channels /\ guide' = guide
  BY <1>1, DuplicateMade
<1>3. PICK new, cat, old : new = channel'[j] /\ cat = category'[Other] /\ old = copying.category
  OBVIOUS
<1>4. /\ new.list = Other /\ new.pin = MapPin(row.pin) /\ new.name = row.name /\ new.guide = row.guide
      /\ new.mode = row.mode /\ new.minutes = row.minutes /\ row \in ChannelRows
  BY <1>2, <1>3, CopiedChannels
<1>5. j \in Present'
  BY <1>2, <1>3, <1>4, OtherList DEF Present
<1>6. cat.pin = MapPin(old.pin) /\ cat.mode = old.mode /\ cat.minutes = old.minutes /\ old \in CategoryRows
  <2>1. old \in CategoryRows
    BY <1>3, ReadRows
  <2>2. cat = [old EXCEPT !.pin = MapPin(old.pin), !.stamp = began']
    BY <1>3, CopiedCategory
  <2> QED
    BY <2>1, <2>2 DEF CategoryRows
<1>7. PICK p : p = Pin(row, old) /\ (p = NoRule \/ p \in OldRules)
  BY <1>3
<1>8. MapPin(NoRule) = NoRule /\ (p # NoRule => MapPin(p) = Twin(p) /\ Twin(p) \in NewRules /\ Twin(p) # NoRule)
  <2>1. NoRule \notin OldRules
    BY RuleZero, ReadRows
  <2>2. MapPin(NoRule) = NoRule
    BY <2>1 DEF MapPin, OldRules
  <2>3. p # NoRule => MapPin(p) = Twin(p) /\ Twin(p) \in NewRules
    BY <1>7, CopiedRules DEF MapPin, Twin, OldRules
  <2>4. NoRule \notin NewRules
    BY RuleZero, DuplicateMade
  <2> QED
    BY <2>2, <2>3, <2>4
<1>9. Pin(new, cat) = MapPin(p)
  <2>1. p = IF row.pin # NoRule THEN row.pin ELSE IF row.mode = "inherit" THEN old.pin ELSE NoRule
    BY <1>7 DEF Pin
  <2>2. Pin(new, cat) = IF MapPin(row.pin) # NoRule THEN MapPin(row.pin)
                        ELSE IF row.mode = "inherit" THEN MapPin(old.pin) ELSE NoRule
    BY <1>4, <1>6 DEF Pin
  <2>3. CASE row.pin # NoRule
    BY <1>8, <2>1, <2>2, <2>3
  <2>4. CASE row.pin = NoRule
    BY <1>8, <2>1, <2>2, <2>4
  <2> QED
    BY <2>3, <2>4
<1>10. Mode(new, cat) = Mode(row, old) /\ Length(new, cat) = Length(row, old)
  BY <1>4, <1>6 DEF Mode, Length
<1>11. PICK rl, rm : rl = copying.rules /\ rm = NewRows
  OBVIOUS
<1>12. {PatternsOf(s, rm) : s \in Tried(MapPin(p), rm)} = {PatternsOf(s, rl) : s \in Tried(p, rl)}
  <2>1. CASE p = NoRule
    <3>1. Tried(p, rl) = EventRules(rl) /\ Tried(MapPin(p), rm) = EventRules(rm)
      BY <1>8, <2>1 DEF Tried
    <3> QED
      BY <1>11, <3>1, CopiedOrders
  <2>2. CASE p # NoRule
    <3>1. PICK q : q = Twin(p)
      OBVIOUS
    <3>2. rm[q].pattern = rl[p].pattern /\ rm[q].on = rl[p].on /\ p \in DOMAIN rl /\ q \in DOMAIN rm
      BY <1>7, <1>11, <2>2, <3>1, CopiedRules DEF OldRules
    <3>3. Tried(p, rl) = IF rl[p].on THEN {<<p>>} ELSE {<<>>}
      BY <2>2, <3>2 DEF Tried, Enabled
    <3>4. Tried(MapPin(p), rm) = IF rl[p].on THEN {<<q>>} ELSE {<<>>}
      BY <1>8, <2>2, <3>1, <3>2 DEF Tried, Enabled
    <3>5. PatternsOf(<<q>>, rm) = PatternsOf(<<p>>, rl)
      BY <3>2 DEF PatternsOf
    <3>6. PatternsOf(<<>>, rm) = PatternsOf(<<>>, rl)
      BY DEF PatternsOf
    <3> QED
      BY <3>3, <3>4, <3>5, <3>6
  <2> QED
    BY <2>1, <2>2
<1>13. PlanOf(new, cat, rm, guide) = PlanOf(row, old, rl, guide)
  BY <1>4, <1>7, <1>9, <1>10, <1>12 DEF PlanOf
<1>14. Plan(j)' = PlanOf(new, cat, rm, guide)
  <2>1. OwnRules(channel[j].list)' = NewRows
    BY <1>3, <1>4 DEF OwnRules, RulesOf, NewRows
  <2> QED
    BY <1>2, <1>3, <1>4, <1>11, <2>1, PlanNext
<1> QED
  BY <1>3, <1>4, <1>5, <1>11, <1>13, <1>14

\* Only a duplicate makes a playlist.
LEMMA ListsStay == ASSUME GInv, [Next]_vars, ~Duplicate PROVE category'[Other].there = category[Other].there
<1>1. UNCHANGED tables => category' = category
  BY DEF tables
<1>2. UNCHANGED vars \/ Tick \/ Fetch \/ CopySteps => category' = category
  BY <1>1, FetchReads, CopyReads DEF vars, Tick
<1> QED
  BY <1>2, RequestEdits DEF Next, Request, CopySteps

LEMMA DuplicateStep == ASSUME GInv, CopyingOK, [Next]_vars PROVE DuplicateShows
  BY ListsStay, CopyShows DEF DuplicateShows, OldChannels, OldRules

(* A duplicate shows what was read of the original, and no edit of one
   playlist's rules or category changes another's guide, pins across playlists
   apart: for any rules, pins, channels and modes, in any order of the rules,
   whatever is committed between the reads. *)
THEOREM CopyAlwaysStandsAlone == Spec => CopyStandsAlone
<1>1. GInv /\ CopyingOK /\ [Next]_vars => DuplicateShows /\ EditsStayApart
  BY DuplicateStep, EditsApart
<1>2. Spec => [][DuplicateShows /\ EditsStayApart]_vars
  BY <1>1, GuideInvariance, PTL DEF Spec
<1> QED
  BY <1>2 DEF CopyStandsAlone


-----------------------------------------------------------------------------
(* The revision *)

\* A rule stays in its playlist until it is deleted.
RulesStay == \A r \in Rules : rule[r].list # NoList => rule'[r].list \in {rule[r].list, NoList}

LEMMA RuleLists == ASSUME GInv, CopyingOK, [Next]_vars PROVE RulesStay
<1>1. UNCHANGED rule => RulesStay
  BY DEF RulesStay
<1>2. UNCHANGED tables => UNCHANGED rule
  BY DEF tables
<1>3. UNCHANGED vars \/ Tick \/ Fetch \/ CopySteps => UNCHANGED rule
  BY <1>2, FetchReads, CopyReads DEF vars, Tick
<1>4. ASSUME NEW l \in Lists, EditRules(l) \/ EditCategory(l) PROVE RulesStay
  <2>1. Untouched(l)
    BY <1>4, RulesEditUntouched, CategoryEditUntouched
  <2> QED
    BY <2>1 DEF Untouched, RulesStay
<1>5. EditChannels => UNCHANGED rule
  BY ChannelsEdited
<1>6. ASSUME NEW feed, NEW shows, Refresh(feed, shows) PROVE UNCHANGED rule
  BY <1>6 DEF Refresh
<1>7. Duplicate => RulesStay
  BY DuplicateMade DEF RulesStay
<1> QED
  BY <1>1, <1>3, <1>4, <1>5, <1>6, <1>7 DEF Next, CopySteps

\* The parts of a revision, by the rows they were read from.
ChannelsPartOf(m) ==
    <<Cardinality(DOMAIN m), SumSet(DOMAIN m), Newest({m[i].stamp : i \in DOMAIN m}),
      Cardinality({i \in DOMAIN m : m[i].guide # NoGuide}),
      Cardinality({i \in DOMAIN m : m[i].pin # NoRule})>>

LEMMA ChannelsPartIs == ASSUME NEW l PROVE ChannelsPart(l) = ChannelsPartOf(OwnChannels(l))
<1>1. PICK m : m = OwnChannels(l)
  OBVIOUS
<1>2. PICK C : C = ChannelsOf(l)
  OBVIOUS
<1>3. DOMAIN m = C /\ \A i \in C : m[i] = channel[i]
  BY <1>1, <1>2 DEF OwnChannels
<1>4. {channel[i].stamp : i \in C} = {m[i].stamp : i \in DOMAIN m}
  BY <1>3
<1>5. {i \in C : channel[i].guide # NoGuide} = {i \in DOMAIN m : m[i].guide # NoGuide}
  BY <1>3
<1>6. {i \in C : channel[i].pin # NoRule} = {i \in DOMAIN m : m[i].pin # NoRule}
  BY <1>3
<1>7. ChannelsPart(l) = ChannelsPartOf(m)
  BY <1>2, <1>3, <1>4, <1>5, <1>6 DEF ChannelsPart, ChannelsPartOf
<1> QED
  BY <1>1, <1>7

\* The newest of some rows' stamps is a stamp there may be.
LEMMA NewestStamp ==
    ASSUME NEW m, IsFiniteSet(DOMAIN m), NEW n \in Nat, \A i \in DOMAIN m : m[i].stamp \in Nat /\ m[i].stamp <= n
    PROVE  /\ Newest({m[i].stamp : i \in DOMAIN m}) \in 0..n
           /\ \A i \in DOMAIN m : m[i].stamp <= Newest({m[k].stamp : k \in DOMAIN m})
<1>1. PICK f : f = [i \in DOMAIN m |-> m[i].stamp]
  OBVIOUS
<1>2. PICK S : S = {f[i] : i \in DOMAIN m}
  OBVIOUS
<1>3. S = {m[i].stamp : i \in DOMAIN m}
  BY <1>1, <1>2
<1>4. IsFiniteSet(S)
  BY <1>2, ImageFinite
<1>5. S \in SUBSET Nat /\ \A y \in S : y <= n
  BY <1>3
<1>6. Newest(S) \in Nat /\ Newest(S) \in S \union {0} /\ \A y \in S : y <= Newest(S)
  BY <1>4, <1>5, NewestOf
<1>7. Newest(S) \in 0..n
  BY <1>5, <1>6
<1> QED
  BY <1>3, <1>6, <1>7

\* The rows of a playlist, and the stamps they have.
LEMMA OwnRows ==
    ASSUME GInv, NEW l \in Lists
    PROVE  /\ DOMAIN OwnChannels(l) = ChannelsOf(l) /\ ChannelsOf(l) \subseteq Channels /\ IsFiniteSet(ChannelsOf(l))
           /\ DOMAIN OwnRules(l) = RulesOf(l) /\ RulesOf(l) \subseteq Rules /\ IsFiniteSet(RulesOf(l))
           /\ \A i \in ChannelsOf(l) : OwnChannels(l)[i] = channel[i] /\ channel[i].list = l /\ channel[i].stamp \in 0..edits
           /\ \A r \in RulesOf(l) : OwnRules(l)[r] = rule[r] /\ rule[r].list = l /\ rule[r].stamp \in 0..edits
           /\ edits \in Nat /\ l # NoList
<1>1. edits \in Nat /\ l # NoList
  BY GuideAssumptions DEF GInv
<1>2. ChannelsOf(l) \subseteq Channels /\ RulesOf(l) \subseteq Rules
  BY DEF ChannelsOf, RulesOf
<1>3. \A i \in ChannelsOf(l) : channel[i].list = l /\ channel[i].stamp \in 0..edits
  BY <1>1, RowFields DEF ChannelsOf, GInv, ChannelsOK
<1>4. \A r \in RulesOf(l) : rule[r].list = l /\ rule[r].stamp \in 0..edits
  BY <1>1, RowFields DEF RulesOf, GInv, RulesOK
<1> QED
  BY <1>1, <1>2, <1>3, <1>4, Ids DEF OwnChannels, OwnRules

\* What has become of the rows read: those that no later request has written,
\* as their stamps show, are still as they were, but for what the database
\* takes away.
ChannelsSince(m, n, l) ==
    \A i \in ChannelsOf(l) : channel[i].stamp > n \/ (i \in DOMAIN m /\ Weaker(channel[i], m[i]))

RulesSince(m, n, l) ==
    \A r \in RulesOf(l) : rule[r].stamp > n \/ (r \in DOMAIN m /\ rule[r] = m[r])

CountedSince(S, n, l) == \A r \in RulesOf(l) : rule[r].stamp > n \/ r \in S

CategorySince(cat, n, k, l) ==
    \/ category[l].stamp > n \/ category[l] = cat
    \/ /\ cat.pin # NoRule /\ category[l] = [cat EXCEPT !.pin = NoRule]
       /\ rule[cat.pin].list = NoList \/ rule[cat.pin].stamp > k

GuidesSince(gu, n) == guide = gu \/ refreshed > n

\* A category that was pinned to a rule of its playlist when the rules were
\* counted is pinned to one of those.
PinCounted(S, n, l) == category[l].pin \in RulesOf(l) => category[l].stamp > n \/ category[l].pin \in S

\* An edit whose stamps are newer than all others.
InTurn == Moved /\ RulesStay /\ edits' = edits + 1 /\ began' = edits'

LEMMA ChannelsSinceStep ==
    ASSUME GInv, InTurn, NEW m, NEW n \in 0..edits, NEW l \in Lists, ChannelsSince(m, n, l)
    PROVE  ChannelsSince(m, n, l)'
<1> SUFFICES ASSUME NEW i \in Channels, channel'[i].list = l
             PROVE  channel'[i].stamp > n \/ (i \in DOMAIN m /\ Weaker(channel'[i], m[i]))
  BY DEF ChannelsSince, ChannelsOf
<1>1. edits \in Nat /\ l # NoList
  BY OwnRows
<1>2. channel'[i].stamp = edits + 1 \/ Weaker(channel'[i], channel[i])
  BY <1>1 DEF InTurn, Moved
<1>3. CASE channel'[i].stamp = edits + 1
  BY <1>1, <1>3
<1>4. CASE Weaker(channel'[i], channel[i])
  <2>1. i \in ChannelsOf(l) /\ channel'[i].stamp = channel[i].stamp
    BY <1>4 DEF Weaker, ChannelsOf
  <2>2. channel[i].stamp > n \/ (i \in DOMAIN m /\ Weaker(channel[i], m[i]))
    BY <2>1 DEF ChannelsSince
  <2> QED
    BY <1>4, <2>1, <2>2 DEF Weaker
<1> QED
  BY <1>2, <1>3, <1>4

LEMMA RulesSinceStep ==
    ASSUME GInv, InTurn, NEW m, NEW n \in 0..edits, NEW l \in Lists
    PROVE  /\ RulesSince(m, n, l) => RulesSince(m, n, l)'
           /\ CountedSince(m, n, l) => CountedSince(m, n, l)'
<1>1. edits \in Nat /\ l # NoList
  BY OwnRows
<1>2. ASSUME NEW r \in Rules, rule'[r].list = l PROVE rule'[r].stamp > n \/ (rule'[r] = rule[r] /\ r \in RulesOf(l))
  <2>1. rule'[r] = rule[r] \/ rule'[r].stamp = edits + 1
    BY <1>1, <1>2 DEF InTurn, Moved
  <2> QED
    BY <1>1, <1>2, <2>1 DEF RulesOf
<1>3. \A r \in RulesOf(l)' : r \in Rules /\ rule'[r].list = l
  BY DEF RulesOf
<1>4. RulesSince(m, n, l) => RulesSince(m, n, l)'
  BY <1>2, <1>3 DEF RulesSince
<1>5. CountedSince(m, n, l) => CountedSince(m, n, l)'
  BY <1>2, <1>3 DEF CountedSince
<1> QED
  BY <1>4, <1>5

LEMMA GuidesSinceStep ==
    ASSUME GInv, InTurn, NEW gu, NEW n \in 0..edits, GuidesSince(gu, n)
    PROVE  GuidesSince(gu, n)'
  BY DEF GInv, InTurn, Moved, GuidesSince

LEMMA PinCountedStep ==
    ASSUME GInv, InTurn, NEW S, NEW n \in 0..edits, NEW l \in Lists, PinCounted(S, n, l)
    PROVE  PinCounted(S, n, l)'
<1> SUFFICES ASSUME category'[l].pin \in Rules, rule'[category'[l].pin].list = l
             PROVE  category'[l].stamp > n \/ category'[l].pin \in S
  BY DEF PinCounted, RulesOf
<1>1. edits \in Nat /\ l # NoList
  BY OwnRows
<1>2. PICK row \in CategoryRows : row = category[l]
  BY DEF GInv, CategoriesOK
<1>3. [row EXCEPT !.pin = NoRule].pin = NoRule
  BY <1>2 DEF CategoryRows
<1>4. category'[l] = row \/ category'[l].stamp = edits + 1
  <2>1. category'[l] = [row EXCEPT !.pin = NoRule] => category'[l].pin = NoRule
    BY <1>3
  <2> QED
    BY <1>2, <2>1, RuleZero DEF InTurn, Moved
<1>5. CASE category'[l].stamp = edits + 1
  BY <1>1, <1>5
<1>6. CASE category'[l] = row
  <2>1. row.pin \in Rules /\ row.pin # NoRule
    BY <1>6, RuleZero
  <2>2. rule[row.pin].list # NoList
    BY <1>2, <2>1 DEF GInv, CategoriesOK
  <2>3. rule[row.pin].list = l
    BY <1>1, <1>6, <2>1, <2>2 DEF InTurn, RulesStay
  <2>4. category[l].pin \in RulesOf(l)
    BY <1>2, <2>1, <2>3 DEF RulesOf
  <2> QED
    BY <1>2, <1>6, <2>4 DEF PinCounted
<1> QED
  BY <1>4, <1>5, <1>6

LEMMA CategorySinceStep ==
    ASSUME GInv, InTurn, NEW cat \in CategoryRows, NEW n \in 0..edits, NEW k \in 0..edits, NEW l \in Lists, CategorySince(cat, n, k, l)
    PROVE  CategorySince(cat, n, k, l)'
<1>1. edits \in Nat
  BY OwnRows
<1>2. PICK row \in CategoryRows : row = category[l] /\ row.stamp \in Nat
  BY RowFields DEF GInv, CategoriesOK
<1>3. PICK new : new = category'[l]
  OBVIOUS
<1>4. \/ new = row \/ new.stamp = edits + 1
      \/ row.pin # NoRule /\ rule'[row.pin].list = NoList /\ new = [row EXCEPT !.pin = NoRule]
  BY <1>2, <1>3 DEF InTurn, Moved
<1>5. new.stamp = edits + 1 => new.stamp > n
  BY <1>1
<1>6. new = [row EXCEPT !.pin = NoRule] => new.stamp = row.stamp
  BY DEF CategoryRows
<1>7. [cat EXCEPT !.pin = NoRule].pin = NoRule
  BY DEF CategoryRows
<1>8. ASSUME cat.pin # NoRule, rule[cat.pin].list = NoList \/ rule[cat.pin].stamp > k
      PROVE  rule'[cat.pin].list = NoList \/ rule'[cat.pin].stamp > k
  <2>1. cat.pin \in Rules
    BY <1>8, RowFields
  <2> QED
    BY <1>1, <1>8, <2>1 DEF InTurn, Moved
<1>9. CASE row.stamp > n
  BY <1>3, <1>4, <1>5, <1>6, <1>9 DEF CategorySince
<1>10. CASE row = cat
  BY <1>3, <1>4, <1>5, <1>10 DEF CategorySince
<1>11. CASE /\ cat.pin # NoRule /\ row = [cat EXCEPT !.pin = NoRule]
            /\ rule[cat.pin].list = NoList \/ rule[cat.pin].stamp > k
  <2>1. row.pin = NoRule
    BY <1>7, <1>11
  <2>2. new = row \/ new.stamp > n
    BY <1>4, <1>5, <2>1
  <2> QED
    BY <1>3, <1>8, <1>11, <2>2 DEF CategorySince
<1> QED
  BY <1>2, <1>9, <1>10, <1>11 DEF CategorySince

\* The steps of a TV's request after which its revision has a part, or after
\* which rows have been loaded.
ChannelsCounted == {"rules", "epg", "load", "load channels", "load rules", "programmes"}
RulesCounted    == ChannelsCounted \ {"rules"}
GuidesCounted   == RulesCounted \ {"epg"}
CategoryLoaded  == GuidesCounted \ {"load"}
ChannelsLoaded  == CategoryLoaded \ {"load channels"}

\* The channels counted: m were their rows.
CountedChannels(k, m) ==
    /\ k.rev.channels = ChannelsPartOf(m) /\ k.counted.channels = DOMAIN m /\ DOMAIN m \subseteq Channels
    /\ k.rev.channels[3] \in 0..edits
    /\ ChannelsSince(m, k.rev.channels[3], k.list)

CountedRules(k) ==
    /\ k.counted.rules \subseteq Rules /\ k.rev.rules[1] = Cardinality(k.counted.rules)
    /\ k.rev.rules[3] \in 0..edits
    /\ CountedSince(k.counted.rules, k.rev.rules[3], k.list)
    /\ PinCounted(k.counted.rules, k.rev.category, k.list)

LoadedCategory(k) ==
    /\ k.category \in CategoryRows
    /\ CategorySince(k.category, k.rev.category, k.rev.rules[3], k.list)
    /\ k.foreign \/ k.category.pin = NoRule \/ k.category.stamp > k.rev.category \/ k.category.pin \in k.counted.rules

LoadedChannels(k, m) ==
    /\ k.came.channels = DOMAIN k.channels \ k.counted.channels
    /\ ChannelsSince(k.channels, k.rev.channels[3], k.list)
    /\ \A i \in DOMAIN k.channels :
         k.channels[i].stamp > k.rev.channels[3] \/ (i \in DOMAIN m /\ Weaker(k.channels[i], m[i]))

LoadedRules(k) ==
    /\ k.came.rules = DOMAIN k.rules \ k.counted.rules
    /\ k.rules = [r \in DOMAIN k.rules |-> k.rules[r]]
    /\ RulesSince(k.rules, k.rev.rules[3], k.list)

\* What holds of a request k that has got so far.
Reading(k, m) ==
    /\ k.list \in Lists /\ k.rev.category \in 0..edits
    /\ k.step \in ChannelsCounted => CountedChannels(k, m)
    /\ k.step \in RulesCounted => CountedRules(k)
    /\ k.step \in GuidesCounted => k.rev.epg \in 0..edits
    /\ k.step \in CategoryLoaded => LoadedCategory(k)
    /\ k.step \in ChannelsLoaded => LoadedChannels(k, m)
    /\ k.step = "programmes" => LoadedRules(k)

LEMMA ReadingStep ==
    ASSUME GInv, InTurn, NEW k, NEW m, Reading(k, m)
    PROVE  Reading(k, m)'
<1>1. PICK l \in Lists : l = k.list
  BY DEF Reading
<1>2. edits \in Nat /\ edits' = edits + 1
  BY OwnRows, <1>1 DEF InTurn
<1>3. PICK c \in 0..edits : c = k.rev.category
  BY DEF Reading
<1>4. c \in 0..edits'
  BY <1>2
<1>5. CountedChannels(k, m) => CountedChannels(k, m)'
  <2> SUFFICES ASSUME CountedChannels(k, m) PROVE CountedChannels(k, m)'
    OBVIOUS
  <2>1. PICK n \in 0..edits : n = k.rev.channels[3]
    BY DEF CountedChannels
  <2>2. ChannelsSince(m, n, l)'
    BY <1>1, <2>1, ChannelsSinceStep DEF CountedChannels
  <2>3. n \in 0..edits'
    BY <1>2
  <2> QED
    BY <1>1, <2>1, <2>2, <2>3 DEF CountedChannels, ChannelsSince
<1>6. CountedRules(k) => CountedRules(k)'
  <2> SUFFICES ASSUME CountedRules(k) PROVE CountedRules(k)'
    OBVIOUS
  <2>1. PICK n \in 0..edits : n = k.rev.rules[3]
    BY DEF CountedRules
  <2>2. PICK S : S = k.counted.rules
    OBVIOUS
  <2>3. CountedSince(S, n, l)'
    BY <1>1, <2>1, <2>2, RulesSinceStep DEF CountedRules
  <2>4. PinCounted(S, c, l)'
    BY <1>1, <1>3, <2>2, PinCountedStep DEF CountedRules
  <2>5. n \in 0..edits'
    BY <1>2
  <2> QED
    BY <1>1, <1>3, <2>1, <2>2, <2>3, <2>4, <2>5 DEF CountedRules, CountedSince, PinCounted
<1>7. CountedRules(k) /\ LoadedCategory(k) => LoadedCategory(k)'
  <2> SUFFICES ASSUME CountedRules(k), LoadedCategory(k) PROVE LoadedCategory(k)'
    OBVIOUS
  <2>1. PICK n \in 0..edits : n = k.rev.rules[3]
    BY DEF CountedRules
  <2>2. PICK cat \in CategoryRows : cat = k.category
    BY DEF LoadedCategory
  <2>3. CategorySince(cat, c, n, l)'
    BY <1>1, <1>3, <2>1, <2>2, CategorySinceStep DEF LoadedCategory
  <2> QED
    BY <1>1, <1>3, <2>1, <2>2, <2>3 DEF LoadedCategory, CategorySince
<1>8. CountedChannels(k, m) /\ LoadedChannels(k, m) => LoadedChannels(k, m)'
  <2> SUFFICES ASSUME CountedChannels(k, m), LoadedChannels(k, m) PROVE LoadedChannels(k, m)'
    OBVIOUS
  <2>1. PICK n \in 0..edits : n = k.rev.channels[3]
    BY DEF CountedChannels
  <2>2. PICK rows : rows = k.channels
    OBVIOUS
  <2>3. ChannelsSince(rows, n, l)'
    BY <1>1, <2>1, <2>2, ChannelsSinceStep DEF LoadedChannels
  <2> QED
    BY <1>1, <2>1, <2>2, <2>3 DEF LoadedChannels, ChannelsSince
<1>9. CountedRules(k) /\ LoadedRules(k) => LoadedRules(k)'
  <2> SUFFICES ASSUME CountedRules(k), LoadedRules(k) PROVE LoadedRules(k)'
    OBVIOUS
  <2>1. PICK n \in 0..edits : n = k.rev.rules[3]
    BY DEF CountedRules
  <2>2. PICK rows : rows = k.rules
    OBVIOUS
  <2>3. RulesSince(rows, n, l)'
    BY <1>1, <2>1, <2>2, RulesSinceStep DEF LoadedRules
  <2> QED
    BY <1>1, <2>1, <2>2, <2>3 DEF LoadedRules, RulesSince
<1>10. k.rev.epg \in 0..edits => k.rev.epg \in 0..edits'
  BY <1>2
<1>11. Reading(k, m) =>
         /\ k.step \in ChannelsCounted => CountedChannels(k, m)
         /\ k.step \in RulesCounted => CountedRules(k)
         /\ k.step \in GuidesCounted => k.rev.epg \in 0..edits
         /\ k.step \in CategoryLoaded => LoadedCategory(k)
         /\ k.step \in ChannelsLoaded => LoadedChannels(k, m)
         /\ k.step = "programmes" => LoadedRules(k)
  BY DEF Reading
<1>12. /\ k.step \in CategoryLoaded => k.step \in RulesCounted
       /\ k.step \in ChannelsLoaded => k.step \in ChannelsCounted
       /\ k.step = "programmes" => k.step \in RulesCounted
  BY DEF ChannelsLoaded, CategoryLoaded, GuidesCounted, RulesCounted, ChannelsCounted
<1> QED
  BY <1>1, <1>3, <1>4, <1>5, <1>6, <1>7, <1>8, <1>9, <1>10, <1>11, <1>12
  DEF Reading

\* Sets of rows that are of one size, of which one holds the other, are one.
LEMMA SameSize ==
    ASSUME NEW A, NEW B, IsFiniteSet(B), A \subseteq B, Cardinality(A) = Cardinality(B)
    PROVE  A = B
  BY FS_Subset

\* What a plan goes by.
LEMMA PlanByFields ==
    ASSUME NEW row, NEW old, NEW cat, NEW rules, NEW gu,
           row.name = old.name, row.mode = old.mode, row.minutes = old.minutes, row.pin = old.pin, row.guide = old.guide,
           row.guide # NoGuide => guide = gu
    PROVE  PlanOf(row, cat, rules, guide) = PlanOf(old, cat, rules, gu)
<1>1. Mode(row, cat) = Mode(old, cat) /\ Length(row, cat) = Length(old, cat) /\ Pin(row, cat) = Pin(old, cat)
  BY DEF Mode, Length, Pin
<1> QED
  BY <1>1 DEF PlanOf

\* The revision of a request that has loaded everything is the current one.
Current(k) ==
    /\ category[k.list].stamp = k.rev.category /\ ChannelsPart(k.list) = k.rev.channels
    /\ RulesPart(k.list) = k.rev.rules /\ EpgPart(k.list) = k.rev.epg
    /\ k.came.channels \subseteq ChannelsOf(k.list) /\ k.came.rules \subseteq RulesOf(k.list)
    /\ ~(k.foreign /\ category[k.list].pin = NoRule)

LEMMA ChannelsAsLoaded ==
    ASSUME GInv, NEW k, NEW m, Reading(k, m), k.step = "programmes", Current(k), NEW l \in Lists, l = k.list
    PROVE  /\ ChannelsOf(l) = DOMAIN k.channels
           /\ \A i \in ChannelsOf(l) :
                /\ channel[i].name = k.channels[i].name /\ channel[i].mode = k.channels[i].mode
                /\ channel[i].minutes = k.channels[i].minutes
                /\ channel[i].pin = k.channels[i].pin /\ channel[i].guide = k.channels[i].guide
<1>1. PICK rows : rows = k.channels
  OBVIOUS
<1>2. PICK n \in 0..edits : n = k.rev.channels[3]
  BY DEF Reading, CountedChannels, ChannelsCounted
<1>3. /\ ChannelsPartOf(OwnChannels(l)) = ChannelsPartOf(m) /\ ChannelsPartOf(m)[3] = n /\ DOMAIN m \subseteq Channels
      /\ ChannelsSince(m, n, l) /\ k.counted.channels = DOMAIN m
  BY <1>2, ChannelsPartIs DEF Reading, CountedChannels, ChannelsCounted, Current
<1>4. /\ DOMAIN rows \ DOMAIN m \subseteq ChannelsOf(l) /\ ChannelsSince(rows, n, l)
      /\ \A i \in DOMAIN rows : rows[i].stamp > n \/ (i \in DOMAIN m /\ Weaker(rows[i], m[i]))
  BY <1>1, <1>2, <1>3
     DEF Reading, LoadedChannels, ChannelsLoaded, CategoryLoaded, GuidesCounted, RulesCounted, ChannelsCounted, Current
<1>5. PICK own : own = OwnChannels(l)
  OBVIOUS
<1>6. /\ DOMAIN own = ChannelsOf(l) /\ ChannelsOf(l) \subseteq Channels /\ IsFiniteSet(DOMAIN own)
      /\ \A i \in ChannelsOf(l) : own[i] = channel[i] /\ channel[i].stamp \in 0..edits /\ channel[i].list = l
      /\ edits \in Nat /\ l # NoList
  BY <1>5, OwnRows
<1>7. /\ Cardinality(DOMAIN own) = Cardinality(DOMAIN m)
      /\ Newest({own[i].stamp : i \in DOMAIN own}) = n
      /\ Cardinality({i \in DOMAIN own : own[i].guide # NoGuide}) = Cardinality({i \in DOMAIN m : m[i].guide # NoGuide})
      /\ Cardinality({i \in DOMAIN own : own[i].pin # NoRule}) = Cardinality({i \in DOMAIN m : m[i].pin # NoRule})
  BY <1>3, <1>5 DEF ChannelsPartOf
<1>8. \A i \in DOMAIN own : own[i].stamp \in Nat /\ own[i].stamp <= n
  BY <1>6, <1>7, NewestStamp
<1>9. \A i \in ChannelsOf(l) : /\ i \in DOMAIN m /\ Weaker(channel[i], m[i])
                               /\ i \in DOMAIN rows /\ Weaker(channel[i], rows[i])
  BY <1>3, <1>4, <1>6, <1>8 DEF ChannelsSince
<1>10. IsFiniteSet(DOMAIN m) /\ \A S \in SUBSET DOMAIN m : IsFiniteSet(S)
  BY <1>3, Ids
<1>11. DOMAIN own = DOMAIN m
  BY <1>6, <1>7, <1>9, <1>10, SameSize
<1>12. {i \in DOMAIN own : own[i].guide # NoGuide} = {i \in DOMAIN m : m[i].guide # NoGuide}
  <2>1. {i \in DOMAIN own : own[i].guide # NoGuide} \subseteq {i \in DOMAIN m : m[i].guide # NoGuide}
    BY <1>6, <1>9 DEF Weaker
  <2> QED
    BY <1>7, <1>10, <2>1, SameSize
<1>13. {i \in DOMAIN own : own[i].pin # NoRule} = {i \in DOMAIN m : m[i].pin # NoRule}
  <2>1. {i \in DOMAIN own : own[i].pin # NoRule} \subseteq {i \in DOMAIN m : m[i].pin # NoRule}
    BY <1>6, <1>9 DEF Weaker
  <2> QED
    BY <1>7, <1>10, <2>1, SameSize
<1>14. \A i \in ChannelsOf(l) : /\ channel[i].guide = NoGuide <=> m[i].guide = NoGuide
                                /\ channel[i].pin = NoRule <=> m[i].pin = NoRule
  BY <1>6, <1>11, <1>12, <1>13
<1>15. \A i \in ChannelsOf(l) : Weaker(rows[i], m[i])
  BY <1>4, <1>6, <1>8, <1>9 DEF Weaker
<1>16. \A i \in ChannelsOf(l) : channel[i].guide = rows[i].guide /\ channel[i].pin = rows[i].pin
  BY <1>9, <1>14, <1>15 DEF Weaker
<1>17. ChannelsOf(l) = DOMAIN rows
  BY <1>4, <1>6, <1>9, <1>11
<1> QED
  BY <1>1, <1>9, <1>16, <1>17 DEF Weaker

LEMMA RulesAsLoaded ==
    ASSUME GInv, NEW k, NEW m, Reading(k, m), k.step = "programmes", Current(k), NEW l \in Lists, l = k.list
    PROVE  OwnRules(l) = k.rules /\ RulesOf(l) = k.counted.rules /\ \A r \in RulesOf(l) : rule[r].stamp <= k.rev.rules[3]
<1>1. PICK rows : rows = k.rules
  OBVIOUS
<1>2. PICK n \in 0..edits : n = k.rev.rules[3]
  BY DEF Reading, CountedRules, RulesCounted, ChannelsCounted
<1>3. PICK S : S = k.counted.rules
  OBVIOUS
<1>4. /\ RulesPart(l)[1] = Cardinality(S) /\ RulesPart(l)[3] = n /\ S \subseteq Rules
      /\ CountedSince(S, n, l)
  BY <1>2, <1>3 DEF Reading, CountedRules, RulesCounted, ChannelsCounted, Current
<1>5. /\ DOMAIN rows \ S \subseteq RulesOf(l) /\ RulesSince(rows, n, l)
      /\ rows = [r \in DOMAIN rows |-> rows[r]]
  BY <1>1, <1>2, <1>3 DEF Reading, LoadedRules, Current
<1>6. PICK own : own = OwnRules(l)
  OBVIOUS
<1>7. /\ DOMAIN own = RulesOf(l) /\ RulesOf(l) \subseteq Rules /\ IsFiniteSet(DOMAIN own)
      /\ \A r \in RulesOf(l) : own[r] = rule[r] /\ rule[r].stamp \in 0..edits /\ rule[r].list = l
      /\ edits \in Nat /\ l # NoList
  BY <1>6, OwnRows
<1>8. Cardinality(RulesOf(l)) = Cardinality(S) /\ Newest({rule[r].stamp : r \in RulesOf(l)}) = n
  BY <1>4 DEF RulesPart
<1>9. {own[r].stamp : r \in DOMAIN own} = {rule[r].stamp : r \in RulesOf(l)}
  BY <1>7
<1>10. \A r \in DOMAIN own : own[r].stamp \in Nat /\ own[r].stamp <= n
  BY <1>7, <1>8, <1>9, NewestStamp
<1>11. \A r \in RulesOf(l) : r \in S /\ r \in DOMAIN rows /\ rule[r] = rows[r]
  BY <1>4, <1>5, <1>7, <1>10 DEF CountedSince, RulesSince
<1>12. IsFiniteSet(S)
  BY <1>4, Ids
<1>13. RulesOf(l) = S
  BY <1>8, <1>11, <1>12, SameSize
<1>14. RulesOf(l) = DOMAIN rows
  BY <1>5, <1>11, <1>13
<1>15. own = rows
  BY <1>5, <1>6, <1>11, <1>14 DEF OwnRules
<1> QED
  BY <1>1, <1>2, <1>3, <1>6, <1>7, <1>10, <1>13, <1>15

LEMMA CategoryAsLoaded ==
    ASSUME GInv, NEW k, NEW m, Reading(k, m), k.step = "programmes", Current(k), NEW l \in Lists, l = k.list
    PROVE  category[l] = k.category
<1>1. PICK cat \in CategoryRows : cat = k.category /\ cat.stamp \in Nat
  BY RowFields
     DEF Reading, LoadedCategory, CategoryLoaded, GuidesCounted, RulesCounted, ChannelsCounted
<1>2. PICK n \in 0..edits : n = k.rev.rules[3]
  BY DEF Reading, CountedRules, RulesCounted, ChannelsCounted
<1>3. PICK c \in 0..edits : c = k.rev.category
  BY DEF Reading
<1>4. /\ CategorySince(cat, c, n, l) /\ category[l].stamp = c
      /\ k.foreign \/ cat.pin = NoRule \/ cat.stamp > c \/ cat.pin \in k.counted.rules
      /\ k.foreign => category[l].pin # NoRule
  BY <1>1, <1>2, <1>3 DEF Reading, LoadedCategory, CategoryLoaded, GuidesCounted, RulesCounted, ChannelsCounted, Current
<1>5. edits \in Nat /\ l # NoList
  BY OwnRows
<1>6. SUFFICES ASSUME cat.pin # NoRule, category[l] = [cat EXCEPT !.pin = NoRule],
                      rule[cat.pin].list = NoList \/ rule[cat.pin].stamp > n
               PROVE  FALSE
  BY <1>1, <1>4, <1>5 DEF CategorySince
<1>7. category[l].pin = NoRule /\ category[l].stamp = cat.stamp
  BY <1>6 DEF CategoryRows
<1>8. cat.pin \in k.counted.rules
  BY <1>4, <1>5, <1>6, <1>7
<1>9. cat.pin \in RulesOf(l) /\ rule[cat.pin].stamp <= n /\ rule[cat.pin].stamp \in 0..edits /\ rule[cat.pin].list = l
  BY <1>2, <1>8, RulesAsLoaded, OwnRows
<1> QED
  BY <1>5, <1>6, <1>9

LEMMA ReadingShows ==
    ASSUME GInv, NEW k, NEW m, Reading(k, m), k.step = "programmes", Current(k), NEW gu, GuidesSince(gu, k.rev.epg)
    PROVE  Plans(k.list) = [i \in DOMAIN k.channels |-> PlanOf(k.channels[i], k.category, k.rules, gu)]
<1>1. PICK l \in Lists : l = k.list
  BY DEF Reading
<1>2. /\ ChannelsOf(l) = DOMAIN k.channels
      /\ \A i \in ChannelsOf(l) :
                /\ channel[i].name = k.channels[i].name /\ channel[i].mode = k.channels[i].mode
                /\ channel[i].minutes = k.channels[i].minutes
                /\ channel[i].pin = k.channels[i].pin /\ channel[i].guide = k.channels[i].guide
  BY <1>1, ChannelsAsLoaded
<1>3. OwnRules(l) = k.rules
  BY <1>1, RulesAsLoaded
<1>4. category[l] = k.category
  BY <1>1, CategoryAsLoaded
<1>5. \A i \in ChannelsOf(l) : channel[i].guide # NoGuide => guide = gu
  <2> SUFFICES ASSUME NEW i \in ChannelsOf(l), channel[i].guide # NoGuide PROVE guide = gu
    OBVIOUS
  <2>1. refreshed = k.rev.epg
    BY <1>1 DEF Current, EpgPart
  <2>2. refreshed \in Nat
    BY DEF GInv
  <2> QED
    BY <2>1, <2>2 DEF GuidesSince
<1>6. \A i \in ChannelsOf(l) : Plan(i) = PlanOf(k.channels[i], k.category, k.rules, gu)
  <2> TAKE i \in ChannelsOf(l)
  <2>1. Plan(i) = PlanOf(channel[i], category[l], OwnRules(l), guide)
    BY DEF Plan, CategoryOf, ChannelsOf
  <2> QED
    BY <1>2, <1>3, <1>4, <1>5, <2>1, PlanByFields
<1> QED
  BY <1>1, <1>2, <1>6 DEF Plans

\* What a TV keeps has the parts it began with.
KeptFields == {"step", "list", "rev", "plans", "category", "channels", "rules", "counted", "came", "foreign", "late"}

Shaped(k) ==
    /\ DOMAIN k = KeptFields
    /\ DOMAIN k.rev = {"category", "channels", "rules", "epg", "day"}
    /\ DOMAIN k.counted = {"channels", "rules"} /\ DOMAIN k.came = {"channels", "rules"}

\* What is kept was read by a request k, and shows what that had loaded.
ShownBy(k, gu) ==
    /\ kept.list = k.list /\ kept.rev = k.rev /\ kept.came = k.came /\ kept.foreign = k.foreign
    /\ kept.plans = [i \in DOMAIN k.channels |-> PlanOf(k.channels[i], k.category, k.rules, gu)]

KeptReads ==
    \/ kept.step # "kept" /\ \E m : Reading(kept, m)
    \/ kept.step = "kept" /\ \E k, m, gu : /\ k.step = "programmes" /\ Reading(k, m) /\ GuidesSince(gu, k.rev.epg)
                                           /\ ShownBy(k, gu)

KeptInv == Shaped(kept) /\ (kept.step = "none" \/ kept.late \/ KeptReads)

LEMMA KeptCovers == GInv /\ KeptInv => TagCoversGuide
<1> SUFFICES ASSUME GInv, KeptInv, kept.step = "kept", Revision(kept.list) = kept.rev,
                    ~CameAndWent, ~ForeignPinGone, ~kept.late
             PROVE  Plans(kept.list) = kept.plans
  BY DEF TagCoversGuide
<1>1. PICK k, m, gu : /\ k.step = "programmes" /\ Reading(k, m) /\ GuidesSince(gu, k.rev.epg)
                      /\ ShownBy(k, gu)
  BY DEF KeptInv, KeptReads
<1>2. PICK u : u = Revision(k.list)
  OBVIOUS
<1>3. u = k.rev
  BY <1>1, <1>2 DEF ShownBy
<1>4. u.category = category[k.list].stamp /\ u.channels = ChannelsPart(k.list) /\ u.rules = RulesPart(k.list) /\ u.epg = EpgPart(k.list)
  BY <1>2 DEF Revision
<1>5. Current(k)
  BY <1>1, <1>3, <1>4 DEF Current, ShownBy, CameAndWent, ForeignPinGone
<1> QED
  BY <1>1, <1>5, ReadingShows DEF ShownBy

\* Nothing but an edit, the clock or a TV's request.
LEMMA EveryStep ==
    ASSUME GInv, [Next]_vars
    PROVE  Commit \/ Fetch \/ UNCHANGED <<tables, kept, edits, began>>
<1>1. Request \/ Duplicate => Commit
  BY RequestEdits DEF Edit, Duplicate
<1>2. Tick \/ CopySteps \/ UNCHANGED vars => UNCHANGED <<tables, kept, edits, began>>
  BY CopyReads DEF Tick, vars
<1> QED
  BY <1>1, <1>2 DEF Next, Request, CopySteps

\* An edit that is not in turn is told of.
LEMMA CommitInTurn ==
    ASSUME GInv, CopyingOK, [Next]_vars, Commit, Shaped(kept), kept.step # "none", ~kept'.late
    PROVE  kept' = kept /\ InTurn
<1>1. edits' = edits + 1 /\ edits \in Nat /\ began' \in 1..edits'
  BY EditCounts
<1>2. kept' = IF kept.step # "none" /\ began' < edits' THEN [kept EXCEPT !.late = TRUE] ELSE kept
  BY DEF Commit
<1>3. [kept EXCEPT !.late = TRUE].late = TRUE
  BY DEF Shaped, KeptFields
<1>4. kept' = kept /\ began' = edits'
  BY <1>1, <1>2, <1>3
<1> QED
  BY <1>1, <1>4, GuideStep, RuleLists DEF InTurn

LEMMA KeptCommit ==
    ASSUME GInv, CopyingOK, [Next]_vars, Commit, KeptInv
    PROVE  KeptInv'
<1>1. Shaped(kept)'
  <2>1. Shaped([kept EXCEPT !.late = TRUE])
    BY DEF KeptInv, Shaped, KeptFields
  <2>2. kept' = kept \/ kept' = [kept EXCEPT !.late = TRUE]
    BY DEF Commit
  <2>3. PICK new : new = kept'
    OBVIOUS
  <2>4. Shaped(new)
    BY <2>1, <2>2, <2>3 DEF KeptInv
  <2> QED
    BY <2>3, <2>4 DEF Shaped
<1>2. kept.step = "none" => kept' = kept
  BY DEF Commit
<1>3. CASE kept.step = "none" \/ kept'.late
  BY <1>1, <1>2, <1>3 DEF KeptInv
<1>4. CASE kept.step # "none" /\ ~kept'.late
  <2>1. kept' = kept /\ InTurn
    BY <1>4, CommitInTurn DEF KeptInv
  <2>2. CASE kept.step # "kept"
    <3>1. PICK m : Reading(kept, m)
      BY <1>4, <2>1, <2>2 DEF KeptInv, KeptReads
    <3>2. PICK k : k = kept
      OBVIOUS
    <3>3. Reading(k, m)'
      BY <2>1, <3>1, <3>2, ReadingStep
    <3>4. Reading(kept, m)'
      BY <2>1, <3>2, <3>3 DEF Reading, CountedChannels, CountedRules, LoadedCategory, LoadedChannels, LoadedRules,
                              ChannelsSince, RulesSince, CountedSince, CategorySince, PinCounted
    <3> QED
      BY <1>1, <2>1, <2>2, <3>4 DEF KeptInv, KeptReads
  <2>3. CASE kept.step = "kept"
    <3>1. PICK k, m, gu : /\ k.step = "programmes" /\ Reading(k, m) /\ GuidesSince(gu, k.rev.epg)
                          /\ ShownBy(k, gu)
      BY <1>4, <2>1, <2>3 DEF KeptInv, KeptReads
    <3>2. PICK n \in 0..edits : n = k.rev.epg
      BY <3>1 DEF Reading, GuidesCounted, RulesCounted, ChannelsCounted
    <3>3. GuidesSince(gu, n)'
      BY <2>1, <3>1, <3>2, GuidesSinceStep
    <3>4. Reading(k, m)'
      BY <2>1, <3>1, ReadingStep
    <3>5. GuidesSince(gu, k.rev.epg)'
      BY <3>2, <3>3 DEF GuidesSince
    <3>6. ShownBy(k, gu)'
      BY <2>1, <3>1 DEF ShownBy
    <3> QED
      BY <1>1, <2>1, <2>3, <3>1, <3>4, <3>5, <3>6 DEF KeptInv, KeptReads
  <2> QED
    BY <2>2, <2>3
<1> QED
  BY <1>3, <1>4

\* The database as it is: what holds of a request does not change.
LEMMA ReadingStays ==
    ASSUME UNCHANGED <<tables, edits>>, NEW k, NEW m, Reading(k, m)
    PROVE  Reading(k, m)'
<1>1. rule' = rule /\ category' = category /\ channel' = channel /\ edits' = edits
  BY DEF tables
<1> QED
  BY <1>1 DEF Reading, CountedChannels, CountedRules, LoadedCategory, LoadedChannels, LoadedRules,
              ChannelsSince, RulesSince, CountedSince, CategorySince, PinCounted, ChannelsOf, RulesOf

LEMMA KeptStays ==
    ASSUME UNCHANGED <<tables, kept, edits, began>>, KeptInv
    PROVE  KeptInv'
<1>1. guide' = guide /\ refreshed' = refreshed /\ kept' = kept
  BY DEF tables
<1>2. Shaped(kept)'
  BY <1>1 DEF KeptInv, Shaped
<1>3. CASE kept.step = "none" \/ kept.late
  BY <1>1, <1>2, <1>3 DEF KeptInv
<1>4. CASE kept.step # "kept" /\ \E m : Reading(kept, m)
  <2>1. PICK k, m : k = kept /\ Reading(k, m)
    BY <1>4
  <2>2. Reading(k, m)'
    BY <2>1, ReadingStays
  <2>3. Reading(kept, m)'
    BY <1>1, <2>1, <2>2 DEF Reading, CountedChannels, CountedRules, LoadedCategory, LoadedChannels, LoadedRules,
                            ChannelsSince, RulesSince, CountedSince, CategorySince, PinCounted
  <2> QED
    BY <1>1, <1>2, <1>4, <2>3 DEF KeptInv, KeptReads
<1>5. ASSUME kept.step = "kept", NEW k, NEW m, NEW gu, k.step = "programmes", Reading(k, m), GuidesSince(gu, k.rev.epg), ShownBy(k, gu)
      PROVE  KeptInv'
  <2>1. Reading(k, m)'
    BY <1>5, ReadingStays
  <2>2. GuidesSince(gu, k.rev.epg)' /\ ShownBy(k, gu)'
    BY <1>1, <1>5 DEF GuidesSince, ShownBy
  <2> QED
    BY <1>1, <1>2, <1>5, <2>1, <2>2 DEF KeptInv, KeptReads
<1> QED
  BY <1>3, <1>4, <1>5 DEF KeptInv, KeptReads

-----------------------------------------------------------------------------
(* The statements of a request *)

\* The statements of a request one after the other.
LEMMA CategoryCounted ==
    ASSUME GInv, NEW k, Shaped(k), NEW l \in Lists, NEW m,
           NEW new, new = [k EXCEPT !.step = "channels", !.list = l, !.rev.category = category[l].stamp]
    PROVE  Shaped(new) /\ Reading(new, m) /\ new.step = "channels" /\ new.late = k.late
<1>1. DOMAIN k = KeptFields /\ DOMAIN k.rev = {"category", "channels", "rules", "epg", "day"}
  BY DEF Shaped
<1>2. category[l].stamp \in 0..edits
  BY RowFields, OwnRows DEF GInv, CategoriesOK
<1>3. Shaped(new)
  BY DEF Shaped, KeptFields
<1>4. new.step = "channels" /\ new.list = l /\ new.rev.category = category[l].stamp /\ new.late = k.late
  BY <1>1 DEF KeptFields
<1> QED
  BY <1>2, <1>3, <1>4
     DEF Reading, ChannelsLoaded, CategoryLoaded, GuidesCounted, RulesCounted, ChannelsCounted

LEMMA WeakerSelf == ASSUME NEW row PROVE Weaker(row, row)
  BY DEF Weaker

LEMMA ChannelsCountedNow ==
    ASSUME GInv, NEW k, Shaped(k), NEW old, Reading(k, old), NEW m, m = OwnChannels(k.list),
           NEW new, new = kept', k = kept, CountChannels
    PROVE  Shaped(new) /\ Reading(new, m) /\ new.step = "rules" /\ new.late = k.late
<1>0. k.step = "channels" /\ new = [k EXCEPT !.step = "rules", !.rev.channels = ChannelsPart(k.list), !.counted.channels = ChannelsOf(k.list)]
  BY DEF CountChannels, Statement
<1>1. DOMAIN k = KeptFields /\ DOMAIN k.rev = {"category", "channels", "rules", "epg", "day"} /\ DOMAIN k.counted = {"channels", "rules"}
  BY DEF Shaped
<1>2. PICK l \in Lists : l = k.list
  BY DEF Reading
<1>3. Shaped(new)
  BY <1>0 DEF Shaped, KeptFields
<1>4. /\ new.step = "rules" /\ new.list = l /\ new.rev.category = k.rev.category /\ new.late = k.late
      /\ new.rev.channels = ChannelsPart(l) /\ new.counted.channels = ChannelsOf(l)
  BY <1>0, <1>1, <1>2 DEF KeptFields
<1>5. /\ DOMAIN m = ChannelsOf(l) /\ ChannelsOf(l) \subseteq Channels /\ IsFiniteSet(DOMAIN m) /\ edits \in Nat
      /\ \A i \in ChannelsOf(l) : m[i] = channel[i] /\ channel[i].stamp \in 0..edits
  BY <1>2, OwnRows
<1>6. ChannelsPart(l) = ChannelsPartOf(m)
  BY <1>2, ChannelsPartIs
<1>7. ChannelsPartOf(m)[3] \in 0..edits
  <2>1. \A i \in DOMAIN m : m[i].stamp \in Nat /\ m[i].stamp <= edits
    BY <1>5
  <2>2. Newest({m[i].stamp : i \in DOMAIN m}) \in 0..edits
    BY <1>5, <2>1, NewestStamp
  <2> QED
    BY <2>2 DEF ChannelsPartOf
<1>8. \A n : ChannelsSince(m, n, l)
  BY <1>5, WeakerSelf DEF ChannelsSince
<1>9. CountedChannels(new, m)
  BY <1>4, <1>5, <1>6, <1>7, <1>8 DEF CountedChannels
<1> QED
  BY <1>2, <1>3, <1>4, <1>9
     DEF Reading, ChannelsLoaded, CategoryLoaded, GuidesCounted, RulesCounted, ChannelsCounted

LEMMA RulesCountedNow ==
    ASSUME GInv, NEW k, Shaped(k), NEW m, Reading(k, m),
           NEW new, new = kept', k = kept, CountRules
    PROVE  Shaped(new) /\ Reading(new, m) /\ new.step = "epg" /\ new.late = k.late
<1>0. k.step = "rules" /\ new = [k EXCEPT !.step = "epg", !.rev.rules = RulesPart(k.list), !.counted.rules = RulesOf(k.list)]
  BY DEF CountRules, Statement
<1>1. DOMAIN k = KeptFields /\ DOMAIN k.rev = {"category", "channels", "rules", "epg", "day"} /\ DOMAIN k.counted = {"channels", "rules"}
  BY DEF Shaped
<1>2. PICK l \in Lists : l = k.list
  BY DEF Reading
<1>3. Shaped(new)
  BY <1>0 DEF Shaped, KeptFields
<1>4. /\ new.step = "epg" /\ new.list = l /\ new.rev.category = k.rev.category /\ new.late = k.late
      /\ new.rev.channels = k.rev.channels /\ new.counted.channels = k.counted.channels
      /\ new.rev.rules = RulesPart(l) /\ new.counted.rules = RulesOf(l)
  BY SMTT(40), <1>0, <1>1, <1>2 DEF KeptFields
<1>5. PICK own : own = OwnRules(l)
  OBVIOUS
<1>6. /\ DOMAIN own = RulesOf(l) /\ RulesOf(l) \subseteq Rules /\ IsFiniteSet(DOMAIN own) /\ edits \in Nat
      /\ \A r \in RulesOf(l) : own[r] = rule[r] /\ rule[r].stamp \in 0..edits
  BY <1>5, OwnRows
<1>7. RulesPart(l)[1] = Cardinality(RulesOf(l)) /\ RulesPart(l)[3] \in 0..edits
  <2>1. \A r \in DOMAIN own : own[r].stamp \in Nat /\ own[r].stamp <= edits
    BY <1>6
  <2>2. {own[r].stamp : r \in DOMAIN own} = {rule[r].stamp : r \in RulesOf(l)}
    BY <1>6
  <2>3. Newest({rule[r].stamp : r \in RulesOf(l)}) \in 0..edits
    BY <1>6, <2>1, <2>2, NewestStamp
  <2> QED
    BY <2>3 DEF RulesPart
<1>8. CountedRules(new)
  BY <1>4, <1>6, <1>7 DEF CountedRules, CountedSince, PinCounted
<1>9. CountedChannels(new, m)
  BY <1>0, <1>2, <1>4 DEF Reading, CountedChannels, ChannelsCounted
<1> QED
  BY <1>2, <1>3, <1>4, <1>8, <1>9
     DEF Reading, ChannelsLoaded, CategoryLoaded, GuidesCounted, RulesCounted, ChannelsCounted

LEMMA GuidesCountedNow ==
    ASSUME GInv, NEW k, Shaped(k), NEW m, Reading(k, m),
           NEW new, new = kept', k = kept, CountGuides
    PROVE  Shaped(new) /\ Reading(new, m) /\ new.step = "load" /\ new.late = k.late
<1>0. k.step = "epg" /\ new = [k EXCEPT !.step = "load", !.rev.epg = EpgPart(k.list), !.rev.day = now \div Day]
  BY DEF CountGuides, Statement
<1>1. DOMAIN k = KeptFields /\ DOMAIN k.rev = {"category", "channels", "rules", "epg", "day"} /\ DOMAIN k.counted = {"channels", "rules"}
  BY DEF Shaped
<1>2. PICK l \in Lists : l = k.list
  BY DEF Reading
<1>3. Shaped(new)
  BY <1>0 DEF Shaped, KeptFields
<1>4. /\ new.step = "load" /\ new.list = l /\ new.rev.category = k.rev.category /\ new.late = k.late
      /\ new.rev.channels = k.rev.channels /\ new.rev.rules = k.rev.rules
      /\ new.counted = k.counted /\ new.rev.epg = EpgPart(l)
  <2>1. new.step = "load" /\ new.list = l /\ new.late = k.late /\ new.counted = k.counted
    BY <1>0, <1>1, <1>2 DEF KeptFields
  <2>2. new.rev = [[k.rev EXCEPT !.epg = EpgPart(l)] EXCEPT !.day = now \div Day]
    BY <1>0, <1>1, <1>2 DEF KeptFields
  <2>3. /\ new.rev.category = k.rev.category /\ new.rev.channels = k.rev.channels /\ new.rev.rules = k.rev.rules
        /\ new.rev.epg = EpgPart(l)
    BY <1>1, <2>2
  <2> QED
    BY <2>1, <2>2, <2>3
<1>5. EpgPart(l) \in 0..edits
  BY DEF EpgPart, GInv
<1>6. CountedChannels(new, m) /\ CountedRules(new)
  BY <1>0, <1>2, <1>4 DEF Reading, CountedChannels, CountedRules, RulesCounted, ChannelsCounted
<1> QED
  BY <1>2, <1>3, <1>4, <1>5, <1>6
     DEF Reading, ChannelsLoaded, CategoryLoaded, GuidesCounted, RulesCounted, ChannelsCounted

LEMMA CategoryLoadedNow ==
    ASSUME GInv, NEW k, Shaped(k), NEW m, Reading(k, m), NEW cat, cat = category[k.list],
           NEW new, new = kept', k = kept, LoadCategory
    PROVE  Shaped(new) /\ Reading(new, m) /\ new.step = "load channels" /\ new.late = k.late
<1>0. k.step = "load" /\ new = [k EXCEPT !.step = "load channels", !.category = cat, !.foreign = cat.pin # NoRule /\ cat.pin \notin RulesOf(k.list)]
  BY DEF LoadCategory, Statement
<1>1. DOMAIN k = KeptFields
  BY DEF Shaped
<1>2. PICK l \in Lists : l = k.list
  BY DEF Reading
<1>3. Shaped(new)
  BY <1>0 DEF Shaped, KeptFields
<1>4. /\ new.step = "load channels" /\ new.list = l /\ new.rev = k.rev /\ new.late = k.late
      /\ new.counted = k.counted /\ new.category = cat
      /\ new.foreign = (cat.pin # NoRule /\ cat.pin \notin RulesOf(l))
  BY SMTT(40), <1>0, <1>1, <1>2 DEF KeptFields
<1>5. CountedChannels(new, m) /\ CountedRules(new) /\ new.rev.epg \in 0..edits
  BY <1>0, <1>2, <1>4 DEF Reading, CountedChannels, CountedRules, GuidesCounted, RulesCounted, ChannelsCounted
<1>6. cat \in CategoryRows
  BY <1>2 DEF GInv, CategoriesOK
<1>7. LoadedCategory(new)
  <2>1. new.foreign \/ cat.pin = NoRule \/ cat.pin \in RulesOf(l)
    BY <1>4
  <2>2. cat.pin \in RulesOf(l) => cat.stamp > new.rev.category \/ cat.pin \in new.counted.rules
    BY <1>2, <1>4, <1>5 DEF CountedRules, PinCounted
  <2> QED
    BY <1>2, <1>4, <1>6, <2>1, <2>2 DEF LoadedCategory, CategorySince
<1> QED
  BY <1>2, <1>3, <1>4, <1>5, <1>7
     DEF Reading, ChannelsLoaded, CategoryLoaded, GuidesCounted, RulesCounted, ChannelsCounted

LEMMA ChannelsLoadedNow ==
    ASSUME GInv, NEW k, Shaped(k), NEW m, Reading(k, m), NEW rows, rows = OwnChannels(k.list),
           NEW new, new = kept', k = kept, LoadChannels
    PROVE  Shaped(new) /\ Reading(new, m) /\ new.step = "load rules" /\ new.late = k.late
<1>0. k.step = "load channels" /\ new = [k EXCEPT !.step = "load rules", !.channels = rows, !.came.channels = ChannelsOf(k.list) \ k.counted.channels]
  BY DEF LoadChannels, Statement
<1>1. DOMAIN k = KeptFields /\ DOMAIN k.came = {"channels", "rules"}
  BY DEF Shaped
<1>2. PICK l \in Lists : l = k.list
  BY DEF Reading
<1>3. Shaped(new)
  BY <1>0 DEF Shaped, KeptFields
<1>4. /\ new.step = "load rules" /\ new.list = l /\ new.rev = k.rev /\ new.late = k.late
      /\ new.counted = k.counted /\ new.category = k.category /\ new.foreign = k.foreign
      /\ new.channels = rows /\ new.came.channels = ChannelsOf(l) \ k.counted.channels
  <2>1. new.step = "load rules" /\ new.list = l /\ new.rev = k.rev /\ new.late = k.late
    BY <1>0, <1>1, <1>2 DEF KeptFields
  <2>2. new.counted = k.counted /\ new.category = k.category /\ new.foreign = k.foreign
    BY <1>0, <1>1, <1>2 DEF KeptFields
  <2>3. new.channels = rows
    BY <1>0, <1>1, <1>2 DEF KeptFields
  <2>4. new.came = [k.came EXCEPT !.channels = ChannelsOf(l) \ k.counted.channels]
    BY <1>0, <1>1, <1>2 DEF KeptFields
  <2>5. new.came.channels = ChannelsOf(l) \ k.counted.channels
    BY <1>1, <2>4
  <2> QED
    BY <2>1, <2>2, <2>3, <2>5
<1>5. CountedChannels(new, m) /\ CountedRules(new) /\ new.rev.epg \in 0..edits /\ LoadedCategory(new)
  BY <1>0, <1>2, <1>4 DEF Reading, CountedChannels, CountedRules, LoadedCategory,
                    CategoryLoaded, GuidesCounted, RulesCounted, ChannelsCounted
<1>6. DOMAIN rows = ChannelsOf(l) /\ \A i \in ChannelsOf(l) : rows[i] = channel[i]
  BY <1>2, OwnRows
<1>7. LoadedChannels(new, m)
  <2>1. \A n : ChannelsSince(rows, n, l)
    BY <1>6, WeakerSelf DEF ChannelsSince
  <2>2. \A i \in ChannelsOf(l) : channel[i].stamp > new.rev.channels[3] \/ (i \in DOMAIN m /\ Weaker(channel[i], m[i]))
    BY <1>4, <1>5 DEF CountedChannels, ChannelsSince
  <2> QED
    BY <1>4, <1>6, <2>1, <2>2 DEF LoadedChannels
<1> QED
  BY <1>2, <1>3, <1>4, <1>5, <1>7
     DEF Reading, ChannelsLoaded, CategoryLoaded, GuidesCounted, RulesCounted, ChannelsCounted

LEMMA RulesLoadedNow ==
    ASSUME GInv, NEW k, Shaped(k), NEW m, Reading(k, m), NEW rows, rows = OwnRules(k.list),
           NEW new, new = kept', k = kept, LoadRules
    PROVE  Shaped(new) /\ Reading(new, m) /\ new.step = "programmes" /\ new.late = k.late
<1>0. k.step = "load rules" /\ new = [k EXCEPT !.step = "programmes", !.rules = rows, !.came.rules = RulesOf(k.list) \ k.counted.rules]
  BY DEF LoadRules, Statement
<1>1. DOMAIN k = KeptFields /\ DOMAIN k.came = {"channels", "rules"}
  BY DEF Shaped
<1>2. PICK l \in Lists : l = k.list
  BY DEF Reading
<1>3. Shaped(new)
  BY <1>0 DEF Shaped, KeptFields
<1>4. /\ new.step = "programmes" /\ new.list = l /\ new.rev = k.rev /\ new.late = k.late
      /\ new.counted = k.counted /\ new.category = k.category /\ new.foreign = k.foreign
      /\ new.channels = k.channels /\ new.came.channels = k.came.channels
      /\ new.rules = rows /\ new.came.rules = RulesOf(l) \ k.counted.rules
  <2>1. new.step = "programmes" /\ new.list = l /\ new.rev = k.rev /\ new.late = k.late
    BY <1>0, <1>1, <1>2 DEF KeptFields
  <2>2. new.counted = k.counted /\ new.category = k.category /\ new.foreign = k.foreign /\ new.channels = k.channels
    BY <1>0, <1>1, <1>2 DEF KeptFields
  <2>3. new.came = [k.came EXCEPT !.rules = RulesOf(l) \ k.counted.rules]
    BY <1>0, <1>1, <1>2 DEF KeptFields
  <2>4. new.rules = rows
    BY <1>0, <1>1, <1>2 DEF KeptFields
  <2>5. new.came.channels = k.came.channels /\ new.came.rules = RulesOf(l) \ k.counted.rules
    BY <1>1, <2>3
  <2> QED
    BY <2>1, <2>2, <2>3, <2>4, <2>5
<1>5. /\ CountedChannels(new, m) /\ CountedRules(new) /\ new.rev.epg \in 0..edits /\ LoadedCategory(new)
      /\ LoadedChannels(new, m)
  BY <1>0, <1>2, <1>4 DEF Reading, CountedChannels, CountedRules, LoadedCategory, LoadedChannels,
                    ChannelsLoaded, CategoryLoaded, GuidesCounted, RulesCounted, ChannelsCounted
<1>6. /\ DOMAIN rows = RulesOf(l) /\ \A r \in RulesOf(l) : rows[r] = rule[r]
      /\ rows = [r \in DOMAIN rows |-> rows[r]]
  BY <1>2, OwnRows DEF OwnRules
<1>7. LoadedRules(new)
  <2>1. \A n : RulesSince(rows, n, l)
    BY <1>6 DEF RulesSince
  <2> QED
    BY <1>4, <1>6, <2>1 DEF LoadedRules
<1>8. new.list \in Lists /\ new.rev.category \in 0..edits
  BY <1>2, <1>4 DEF Reading
<1> QED
  BY <1>3, <1>4, <1>5, <1>7, <1>8 DEF Reading

LEMMA ProgrammesReadNow ==
    ASSUME Shaped(kept), NEW m, Reading(kept, m), ReadProgrammes
    PROVE  /\ Shaped(kept') /\ kept'.step = "kept"
           /\ \E k, gu : /\ k.step = "programmes" /\ Reading(k, m) /\ GuidesSince(gu, k.rev.epg)
                         /\ ShownBy(k, gu)'
<1>1. PICK k, gu : k = kept /\ gu = guide
  OBVIOUS
<1>2. kept.step = "programmes" /\ kept' = [NothingKept EXCEPT
        !.step = "kept", !.list = k.list, !.rev = k.rev, !.came = k.came, !.foreign = k.foreign, !.late = k.late,
        !.plans = [i \in DOMAIN k.channels |-> PlanOf(k.channels[i], k.category, k.rules, gu)]]
  BY <1>1 DEF ReadProgrammes, Statement
<1>3. DOMAIN k.rev = {"category", "channels", "rules", "epg", "day"} /\ DOMAIN k.came = {"channels", "rules"}
  BY <1>1 DEF Shaped
<1>4. PICK new : new = kept'
  OBVIOUS
<1>5. /\ new.step = "kept" /\ new.list = k.list /\ new.rev = k.rev /\ new.came = k.came /\ new.foreign = k.foreign
      /\ new.plans = [i \in DOMAIN k.channels |-> PlanOf(k.channels[i], k.category, k.rules, gu)]
      /\ DOMAIN new = KeptFields /\ new.counted = [channels |-> {}, rules |-> {}]
  BY <1>2, <1>4 DEF NothingKept, KeptFields
<1>6. Shaped(new)
  BY <1>3, <1>5 DEF Shaped
<1>7. ShownBy(k, gu)'
  BY <1>4, <1>5 DEF ShownBy
<1>8. GuidesSince(gu, k.rev.epg) /\ Reading(k, m) /\ k.step = "programmes"
  BY <1>1, <1>2 DEF GuidesSince
<1> QED
  BY <1>4, <1>5, <1>6, <1>7, <1>8

\* That a request was overtaken is not forgotten.
LEMMA LateStays ==
    ASSUME Shaped(kept), kept.late,
           \/ CountChannels \/ CountRules \/ CountGuides
           \/ LoadCategory \/ LoadChannels \/ LoadRules \/ ReadProgrammes
    PROVE  KeptInv'
<1>1. DOMAIN kept = KeptFields /\ DOMAIN kept.rev = {"category", "channels", "rules", "epg", "day"}
      /\ DOMAIN kept.counted = {"channels", "rules"} /\ DOMAIN kept.came = {"channels", "rules"}
  BY DEF Shaped
<1>2. PICK new : new = kept'
  OBVIOUS
<1>3. Shaped(new) /\ new.late => KeptInv'
  BY <1>2 DEF KeptInv, Shaped
<1>4. CASE CountChannels
  <2>1. new = [kept EXCEPT !.step = "rules", !.rev.channels = ChannelsPart(kept.list),
                               !.counted.channels = ChannelsOf(kept.list)]
    BY <1>2, <1>4 DEF CountChannels, Statement
  <2> QED
    BY <1>1, <1>3, <2>1 DEF Shaped, KeptFields
<1>5. CASE CountRules
  <2>1. new = [kept EXCEPT !.step = "epg", !.rev.rules = RulesPart(kept.list), !.counted.rules = RulesOf(kept.list)]
    BY <1>2, <1>5 DEF CountRules, Statement
  <2> QED
    BY <1>1, <1>3, <2>1 DEF Shaped, KeptFields
<1>6. CASE CountGuides
  <2>1. new = [kept EXCEPT !.step = "load", !.rev.epg = EpgPart(kept.list), !.rev.day = now \div Day]
    BY <1>2, <1>6 DEF CountGuides, Statement
  <2> QED
    BY <1>1, <1>3, <2>1 DEF Shaped, KeptFields
<1>7. CASE LoadCategory
  <2>1. PICK cat : cat = category[kept.list]
    OBVIOUS
  <2>2. new = [kept EXCEPT !.step = "load channels", !.category = cat,
                               !.foreign = cat.pin # NoRule /\ cat.pin \notin RulesOf(kept.list)]
    BY <1>2, <1>7, <2>1 DEF LoadCategory, Statement
  <2> QED
    BY <1>1, <1>3, <2>2 DEF Shaped, KeptFields
<1>8. CASE LoadChannels
  <2>1. new = [kept EXCEPT !.step = "load rules", !.channels = OwnChannels(kept.list),
                               !.came.channels = ChannelsOf(kept.list) \ kept.counted.channels]
    BY <1>2, <1>8 DEF LoadChannels, Statement
  <2> QED
    BY <1>1, <1>3, <2>1 DEF Shaped, KeptFields
<1>9. CASE LoadRules
  <2>1. new = [kept EXCEPT !.step = "programmes", !.rules = OwnRules(kept.list),
                               !.came.rules = RulesOf(kept.list) \ kept.counted.rules]
    BY <1>2, <1>9 DEF LoadRules, Statement
  <2> QED
    BY <1>1, <1>3, <2>1 DEF Shaped, KeptFields
<1>10. CASE ReadProgrammes
  <2>1. PICK f : f = [i \in DOMAIN kept.channels |-> PlanOf(kept.channels[i], kept.category, kept.rules, guide)]
    OBVIOUS
  <2>2. new = [NothingKept EXCEPT !.step = "kept", !.list = kept.list, !.rev = kept.rev, !.came = kept.came,
                                  !.foreign = kept.foreign, !.late = kept.late, !.plans = f]
    BY <1>2, <1>10, <2>1 DEF ReadProgrammes, Statement
  <2> QED
    BY <1>1, <1>3, <2>2 DEF Shaped, KeptFields, NothingKept
<1> QED
  BY <1>4, <1>5, <1>6, <1>7, <1>8, <1>9, <1>10

LEMMA KeptRead == ASSUME GInv, KeptInv, Fetch PROVE KeptInv'
<1>1. UNCHANGED <<tables, edits>> /\ Shaped(kept)
  BY FetchReads DEF KeptInv
<1>2. ASSUME NEW new, Shaped(new), NEW m, Reading(new, m), new.step # "kept", kept' = new PROVE KeptInv'
  <2>1. Reading(new, m)'
    BY <1>1, <1>2, ReadingStays
  <2>2. Reading(kept, m)'
    BY <1>2, <2>1 DEF Reading, CountedChannels, CountedRules, LoadedCategory, LoadedChannels, LoadedRules,
                      ChannelsSince, RulesSince, CountedSince, CategorySince, PinCounted
  <2>3. Shaped(kept)'
    BY <1>2 DEF Shaped
  <2> QED
    BY <1>2, <2>2, <2>3 DEF KeptInv, KeptReads
<1>3. PICK k : k = kept
  OBVIOUS
<1>4. ASSUME NEW l \in Lists, CountCategories(l) PROVE KeptInv'
  <2>1. PICK new : new = [k EXCEPT !.step = "channels", !.list = l, !.rev.category = category[l].stamp]
    OBVIOUS
  <2>2. kept' = new
    BY <1>3, <1>4, <2>1 DEF CountCategories, Statement
  <2>3. \A m : Shaped(new) /\ Reading(new, m) /\ new.step = "channels"
    BY <1>1, <1>3, <2>1, CategoryCounted
  <2> QED
    BY <1>2, <2>2, <2>3
<1>5. ASSUME kept.step \notin {"none", "kept"} PROVE kept.late \/ \E m : Reading(k, m)
  BY <1>3, <1>5 DEF KeptInv, KeptReads
<1>6. CASE kept.late
  BY <1>1, <1>4, <1>6, LateStays DEF Fetch
<1>7. CASE CountChannels /\ ~kept.late
  <2>1. PICK new : new = kept'
    OBVIOUS
  <2>2. PICK m : Reading(k, m)
    BY <1>3, <1>5, <1>7 DEF CountChannels, Statement
  <2>3. Shaped(new) /\ \E n : Reading(new, n) /\ new.step # "kept"
    BY <1>1, <1>3, <1>7, <2>1, <2>2, ChannelsCountedNow
  <2> QED
    BY <1>2, <2>1, <2>3
<1>8. CASE CountRules /\ ~kept.late
  <2>1. PICK new : new = kept'
    OBVIOUS
  <2>2. PICK m : Reading(k, m)
    BY <1>3, <1>5, <1>8 DEF CountRules, Statement
  <2>3. Shaped(new) /\ \E n : Reading(new, n) /\ new.step # "kept"
    BY <1>1, <1>3, <1>8, <2>1, <2>2, RulesCountedNow
  <2> QED
    BY <1>2, <2>1, <2>3
<1>9. CASE CountGuides /\ ~kept.late
  <2>1. PICK new : new = kept'
    OBVIOUS
  <2>2. PICK m : Reading(k, m)
    BY <1>3, <1>5, <1>9 DEF CountGuides, Statement
  <2>3. Shaped(new) /\ \E n : Reading(new, n) /\ new.step # "kept"
    BY <1>1, <1>3, <1>9, <2>1, <2>2, GuidesCountedNow
  <2> QED
    BY <1>2, <2>1, <2>3
<1>10. CASE LoadCategory /\ ~kept.late
  <2>1. PICK new : new = kept'
    OBVIOUS
  <2>2. PICK m : Reading(k, m)
    BY <1>3, <1>5, <1>10 DEF LoadCategory, Statement
  <2>3. Shaped(new) /\ \E n : Reading(new, n) /\ new.step # "kept"
    BY <1>1, <1>3, <1>10, <2>1, <2>2, CategoryLoadedNow
  <2> QED
    BY <1>2, <2>1, <2>3
<1>11. CASE LoadChannels /\ ~kept.late
  <2>1. PICK new : new = kept'
    OBVIOUS
  <2>2. PICK m : Reading(k, m)
    BY <1>3, <1>5, <1>11 DEF LoadChannels, Statement
  <2>3. Shaped(new) /\ \E n : Reading(new, n) /\ new.step # "kept"
    BY <1>1, <1>3, <1>11, <2>1, <2>2, ChannelsLoadedNow
  <2> QED
    BY <1>2, <2>1, <2>3
<1>12. CASE LoadRules /\ ~kept.late
  <2>1. PICK new : new = kept'
    OBVIOUS
  <2>2. PICK m : Reading(k, m)
    BY <1>3, <1>5, <1>12 DEF LoadRules, Statement
  <2>3. Shaped(new) /\ \E n : Reading(new, n) /\ new.step # "kept"
    BY <1>1, <1>3, <1>12, <2>1, <2>2, RulesLoadedNow
  <2> QED
    BY <1>2, <2>1, <2>3
<1>13. CASE ReadProgrammes /\ ~kept.late
  <2>1. k.step = "programmes" /\ \E m : Reading(k, m)
    BY <1>3, <1>5, <1>13 DEF ReadProgrammes, Statement
  <2>2. PICK m : Reading(kept, m)
    BY <1>3, <2>1
  <2>3. /\ Shaped(kept') /\ kept'.step = "kept"
        /\ \E q, gu : q.step = "programmes" /\ Reading(q, m) /\ GuidesSince(gu, q.rev.epg) /\ ShownBy(q, gu)'
    BY <1>1, <1>13, <2>2, ProgrammesReadNow
  <2>4. PICK q, gu : q.step = "programmes" /\ Reading(q, m) /\ GuidesSince(gu, q.rev.epg) /\ ShownBy(q, gu)'
    BY <2>3
  <2>5. Reading(q, m)'
    BY <1>1, <2>4, ReadingStays
  <2>6. GuidesSince(gu, q.rev.epg)'
    BY <1>1, <2>4 DEF GuidesSince, tables
  <2>7. Shaped(kept)'
    BY <2>3 DEF Shaped
  <2> QED
    BY <2>3, <2>4, <2>5, <2>6, <2>7 DEF KeptInv, KeptReads
<1> QED
  BY <1>4, <1>6, <1>7, <1>8, <1>9, <1>10, <1>11, <1>12, <1>13 DEF Fetch

(* A revision that has not changed tells that the guide has not, for any
   number of edits, refreshes and deletions between the statements that read
   the revision, those that read the guide and later - but for what the
   property names. *)
THEOREM RevisionCoversGuide == Spec => []TagCoversGuide
<1>1. Init => KeptInv
  BY DEF Init, KeptInv, NothingKept, NoRevision, Shaped, KeptFields
<1>2. GInv /\ CopyingOK /\ KeptInv /\ [Next]_vars => KeptInv'
  BY EveryStep, KeptCommit, KeptRead, KeptStays
<1> QED
  BY <1>1, <1>2, GuideInvariance, KeptCovers, PTL DEF Spec
=============================================================================
