-------------------------------- MODULE Guide --------------------------------
(***************************************************************************)
(* What the guide shows of each channel (services/epg_writer.py) as the    *)
(* playlist editor changes channels, categories and custom rules, guides   *)
(* are refreshed, a playlist is duplicated and the clock goes on; and the  *)
(* "epg" revision by which a TV knows whether to fetch it again            *)
(* (services/sync_status.py).                                              *)
(*                                                                         *)
(* A request of the editor is one step, because it writes what it is sent; *)
(* a TV's request and a duplication read in several statements, and others *)
(* commit in between.  Ids come from sequences.  A row's stamp,            *)
(* updated_at, says when the transaction that wrote it last began: the     *)
(* number of its commit, or less if one that began later committed first.  *)
(* A row set to what it was is not written.  Disabled channels, which the  *)
(* guide leaves out, are not here, all channels are of one type, and       *)
(* epg_match_type, which nothing reads but the editor's table, is left     *)
(* out.                                                                    *)
(***************************************************************************)
EXTENDS DummyEpg, FiniteSets, FiniteSetsExt

CONSTANTS
    Lists, First,   \* playlists; First is there, the other becomes its duplicate
    Guides,         \* channels of the one EPG source
    Shows,          \* what a refresh may bring a guide: sets of programmes
    Minutes,        \* lengths of dummy programmes, in units
    Modes,          \* "off", "name", "event"
    Instants,       \* when the clock is looked at
    Hours,          \* the window
    Initial,        \* the patterns of the rules there are at first, the name
                    \* of the channel and the programmes of the guides
    Overtaken,      \* which commits others may have overtaken
    NoGuide, NoRule, NoList,
    MaxRule, MaxChannel, MaxEdits

ASSUME GuideAssumptions ==
    /\ First \in Lists /\ Lists # {First} /\ NoList \notin Lists
    /\ NoGuide \notin Guides /\ NoRule = 0
    /\ Modes = {"off", "name", "event"} /\ 0 \in Minutes /\ Minutes \subseteq Nat
    /\ Instants \subseteq Nat /\ Instants # {}
    /\ Initial \subseteq [rules : Seq(Patterns), name : Names, shows : [Guides -> Shows]]
    /\ Overtaken \subseteq Nat
    /\ MaxRule \in Nat /\ MaxChannel \in Nat \ {0} /\ MaxEdits \in Nat \ {0} /\ Hours \in Nat \ {0}

Rules    == 1..MaxRule
Channels == 1..MaxChannel
Other    == CHOOSE l \in Lists : l # First

VARIABLES
    rule,           \* dummy_epg_rules
    category,       \* each playlist's category
    channel,        \* playlist_channels
    guide,          \* epg_channels: whether it is there, its epg_programs
    refreshed,      \* last_refreshed_at of the source
    now,
    kept,           \* what a TV gets and keeps: a playlist's revision and plans
    copying,        \* what a duplication has read
    edits,          \* how many transactions have committed,
    began           \*   and when the last of them began

tables == <<rule, category, channel, guide, refreshed>>
vars   == <<tables, now, kept, copying, edits, began>>

NoRuleRow == [list |-> NoList, pattern |-> Builtin, on |-> FALSE, place |-> 0, stamp |-> 0]
NoCategory == [there |-> FALSE, mode |-> "off", minutes |-> 0, pin |-> NoRule, stamp |-> 0]
NoChannel == [list |-> NoList, name |-> "", mode |-> "inherit", minutes |-> 0, pin |-> NoRule,
              guide |-> NoGuide, stamp |-> 0]

RulesOf(l)    == {r \in Rules : rule[r].list = l}
ChannelsOf(l) == {i \in Channels : channel[i].list = l}
Present       == {i \in Channels : channel[i].list # NoList}

-----------------------------------------------------------------------------
(* What a channel shows, by its row, its category's and the playlist's rules *)

\* resolve_dummy_mode
Mode(row, cat) == IF row.mode # "inherit" THEN row.mode ELSE cat.mode

\* _resolve_program_minutes
Length(row, cat) == IF row.minutes # 0 THEN row.minutes ELSE cat.minutes

\* _resolve_pinned_rule_id: the channel's own, else an inheriting channel has
\* its category's.
Pin(row, cat) == IF row.pin # NoRule THEN row.pin
                 ELSE IF row.mode = "inherit" THEN cat.pin ELSE NoRule

\* _load_event_rules: the enabled ones by sort_order; of rules that share one
\* the database returns either first.
Enabled(rules) == {r \in DOMAIN rules : rules[r].on}
EventRules(rules) ==
    {s \in SetToSeqs(Enabled(rules)) :
       \A j, k \in DOMAIN s : j < k => rules[s[j]].place <= rules[s[k]].place}

\* The rules EVENT mode tries: the pinned one, none if it is disabled or of
\* another playlist, all of them without a pin.
Tried(pin, rules) ==
    IF pin = NoRule THEN EventRules(rules)
    ELSE IF pin \in Enabled(rules) THEN {<<pin>>} ELSE {<<>>}

PatternsOf(s, rules) == [k \in DOMAIN s |-> rules[s[k]].pattern]

\* What compute_channel_programs goes by, the clock apart.
PlanOf(row, cat, rules, guides) ==
    [name |-> row.name,
     real |-> IF row.guide = NoGuide THEN {} ELSE guides[row.guide].shows,
     mode |-> Mode(row, cat), minutes |-> Length(row, cat),
     rules |-> IF Mode(row, cat) = "event" THEN {PatternsOf(s, rules) : s \in Tried(Pin(row, cat), rules)} ELSE {}]

OwnRules(l)    == [r \in RulesOf(l) |-> rule[r]]
OwnChannels(l) == [i \in ChannelsOf(l) |-> channel[i]]
CategoryOf(i)  == category[channel[i].list]

Plan(i) == PlanOf(channel[i], CategoryOf(i), OwnRules(channel[i].list), guide)

End == now + Hours * Hour

InWindow(shows) == {s \in shows : s.stop > now /\ s.start < End}

\* The events EVENT mode may read in the channel's name.
Events(plan) == {ParseEvent(plan.name, rules, now) : rules \in plan.rules}

\* compute_channel_programs: the guide's own programmes if any is in the
\* window, else what the mode makes up.
DummyGuides(plan) ==
    IF InWindow(plan.real) # {} \/ plan.mode = "off" THEN {}
    ELSE IF plan.mode = "name" THEN {NameGuide(now, Hours, plan.minutes)}
    ELSE {IF e.time = NoEvent THEN NameGuide(now, Hours, plan.minutes)
          ELSE EventGuide(Zone[e.by], e.time, now, Hours, plan.minutes) : e \in {e \in Events(plan) : e.time # Raises}}

-----------------------------------------------------------------------------
(* The revision, and a TV's request *)

Newest(S) == Max({0} \union S)

\* Mutant: only the newest time of the rules is part of it.
RulesNewest(l) == <<Newest({rule[r].stamp : r \in RulesOf(l)})>>

\* The SELECTs of compute_sync_status that make up revs["epg"].
ChannelsPart(l) ==
    <<Cardinality(ChannelsOf(l)), SumSet(ChannelsOf(l)), Newest({channel[i].stamp : i \in ChannelsOf(l)}),
      Cardinality({i \in ChannelsOf(l) : channel[i].guide # NoGuide}),
      Cardinality({i \in ChannelsOf(l) : channel[i].pin # NoRule})>>
RulesPart(l) == <<Cardinality(RulesOf(l)), SumSet(RulesOf(l)), Newest({rule[r].stamp : r \in RulesOf(l)})>>
EpgPart(l)   == IF \E i \in ChannelsOf(l) : channel[i].guide # NoGuide THEN refreshed ELSE 0

Revision(l) ==
    [category |-> category[l].stamp, channels |-> ChannelsPart(l), rules |-> RulesPart(l), epg |-> EpgPart(l), day |-> now \div Day]

Plans(l) == [i \in ChannelsOf(l) |-> Plan(i)]

NoRevision == [category |-> 0, channels |-> <<>>, rules |-> <<>>, epg |-> 0, day |-> 0]

\* rev and plans, what a TV is sent; category, channels and rules, what has been
\* loaded for it; the rest is history: counted, the rows the revision counts,
\* came, those loaded that it does not; foreign, that the category was pinned to
\* a rule of another playlist; late, that a transaction has committed since
\* whose stamps are no newer than others.
NothingKept == [step |-> "none", list |-> NoList, rev |-> NoRevision, plans |-> <<>>,
                category |-> NoCategory, channels |-> <<>>, rules |-> <<>>,
                counted |-> [channels |-> {}, rules |-> {}], came |-> [channels |-> {}, rules |-> {}],
                foreign |-> FALSE, late |-> FALSE]

Statement(from, to) ==
    /\ kept.step = from
    /\ kept' = to
    /\ UNCHANGED <<tables, now, copying, edits, began>>

\* get_xmltv, without a validator that matches: the revision ...
CountCategories(l) ==
    /\ category[l].there
    /\ Statement("none", [kept EXCEPT !.step = "channels", !.list = l, !.rev.category = category[l].stamp])

CountChannels ==
    Statement("channels", [kept EXCEPT !.step = "rules", !.rev.channels = ChannelsPart(kept.list),
                                   !.counted.channels = ChannelsOf(kept.list)])

CountRules ==
    Statement("rules", [kept EXCEPT !.step = "epg", !.rev.rules = RulesPart(kept.list), !.counted.rules = RulesOf(kept.list)])

CountGuides ==
    Statement("epg", [kept EXCEPT !.step = "load", !.rev.epg = EpgPart(kept.list), !.rev.day = now \div Day])

\* ... then the playlist, the rules and the programmes.
LoadCategory ==
    LET cat == category[kept.list] IN
    Statement("load", [kept EXCEPT !.step = "load channels", !.category = cat,
                               !.foreign = cat.pin # NoRule /\ cat.pin \notin RulesOf(kept.list)])

LoadChannels ==
    Statement("load channels", [kept EXCEPT !.step = "load rules", !.channels = OwnChannels(kept.list),
                                        !.came.channels = ChannelsOf(kept.list) \ kept.counted.channels])

LoadRules ==
    Statement("load rules", [kept EXCEPT !.step = "programmes", !.rules = OwnRules(kept.list),
                                     !.came.rules = RulesOf(kept.list) \ kept.counted.rules])

ReadProgrammes ==
    Statement("programmes", [NothingKept EXCEPT
        !.step = "kept", !.list = kept.list, !.rev = kept.rev, !.came = kept.came, !.foreign = kept.foreign, !.late = kept.late,
        !.plans = [i \in DOMAIN kept.channels |-> PlanOf(kept.channels[i], kept.category, kept.rules, guide)]])

Fetch ==
    \/ \E l \in Lists : CountCategories(l)
    \/ CountChannels \/ CountRules \/ CountGuides
    \/ LoadCategory \/ LoadChannels \/ LoadRules \/ ReadProgrammes

Tick ==
    /\ \E t \in Instants : now < t /\ now' = t
    /\ UNCHANGED <<tables, kept, copying, edits, began>>

NotCopying == [step |-> "none", category |-> NoCategory, channels |-> <<>>, rules |-> <<>>]

\* A playlist with rules and one channel; request 1 wrote it all.
Init ==
    /\ \E first \in Initial :
         /\ rule = [r \in Rules |->
              IF r \in DOMAIN first.rules
              THEN [list |-> First, pattern |-> first.rules[r], on |-> TRUE, place |-> r - 1, stamp |-> 1] ELSE NoRuleRow]
         /\ channel = [i \in Channels |->
              IF i = 1 THEN [NoChannel EXCEPT !.list = First, !.name = first.name, !.stamp = 1] ELSE NoChannel]
         /\ guide = [g \in Guides |-> [there |-> TRUE, shows |-> first.shows[g]]]
    /\ category = [l \in Lists |->
         IF l = First THEN [NoCategory EXCEPT !.there = TRUE, !.mode = "event", !.stamp = 1] ELSE NoCategory]
    /\ refreshed = 1
    /\ now = Min(Instants)
    /\ kept = NothingKept /\ copying = NotCopying
    /\ edits = 1 /\ began = 1

\* A transaction commits.
Commit ==
    /\ edits < MaxEdits
    /\ edits' = edits + 1
    /\ began' \in 1..edits' /\ (edits' \notin Overtaken => began' = edits')
    /\ kept' = IF kept.step # "none" /\ began' < edits' THEN [kept EXCEPT !.late = TRUE] ELSE kept
    /\ UNCHANGED now

Edit == Commit /\ UNCHANGED copying

-----------------------------------------------------------------------------
(* Custom rules *)

WriteRule(r, row) ==
    /\ Edit
    /\ row # rule[r]
    /\ rule' = [rule EXCEPT ![r] = [row EXCEPT !.stamp = began']]

\* The sequences: a stamp stays when its row is deleted, an id is used once.
NextRule    == Newest({r \in Rules : rule[r].stamp # 0}) + 1
NextChannel == Newest({i \in Channels : channel[i].stamp # 0}) + 1

\* create_dummy_epg_rule: sort_order is how many there are.
CreateRule(l, p) ==
    /\ category[l].there
    /\ NextRule \in Rules
    /\ WriteRule(NextRule, [list |-> l, pattern |-> p, on |-> TRUE, place |-> Cardinality(RulesOf(l)), stamp |-> 0])
    /\ UNCHANGED <<category, channel, guide, refreshed>>

\* update_dummy_epg_rule
UpdateRule(l, r, p, on) ==
    /\ r \in RulesOf(l)
    /\ WriteRule(r, [rule[r] EXCEPT !.pattern = p, !.on = on])
    /\ UNCHANGED <<category, channel, guide, refreshed>>

\* Mutant: a pin stays when its rule is deleted.
UnpinnedNever(pin, r) == pin

\* ON DELETE SET NULL
Unpinned(pin, r) == IF pin = r THEN NoRule ELSE pin

\* delete_dummy_epg_rule: the database takes the pins away, here or in another
\* playlist, and leaves updated_at alone.
DeleteRule(l, r) ==
    /\ r \in RulesOf(l)
    /\ Edit
    /\ rule' = [rule EXCEPT ![r] = [NoRuleRow EXCEPT !.stamp = rule[r].stamp]]
    /\ category' = [k \in Lists |-> [category[k] EXCEPT !.pin = Unpinned(@, r)]]
    /\ channel' = [i \in Channels |-> [channel[i] EXCEPT !.pin = Unpinned(@, r)]]
    /\ UNCHANGED <<guide, refreshed>>

\* Where in the list sent a rule is, from 0; -1 if it is not there.
PlaceIn(items, r) == SelectInSeq(items, LAMBDA k : k = r) - 1

\* reorder_dummy_epg_rules: of the rules sent, those of this playlist.
ReorderRules(l, items) ==
    /\ Edit
    /\ \E r \in ToSet(items) : rule[r].place # PlaceIn(items, r)
    /\ rule' = [r \in Rules |->
         IF PlaceIn(items, r) >= 0 /\ rule[r].list = l /\ rule[r].place # PlaceIn(items, r)
         THEN [rule[r] EXCEPT !.place = PlaceIn(items, r), !.stamp = began'] ELSE rule[r]]
    /\ UNCHANGED <<category, channel, guide, refreshed>>

EditRules(l) ==
    \/ \E p \in Patterns : CreateRule(l, p)
    \/ \E r \in Rules : \/ DeleteRule(l, r)
                        \/ \E p \in Patterns, on \in BOOLEAN : UpdateRule(l, r, p, on)
    \/ \E items \in SetToSeqs({r \in Rules : rule[r].list # NoList}) : ReorderRules(l, items)

-----------------------------------------------------------------------------
(* The category and the channels *)

RulesThere == {r \in Rules : rule[r].list # NoList}

\* update_category: with any rule there is.
UpdateCategory(l, row) ==
    /\ category[l].there /\ row # category[l]
    /\ row.pin \in RulesThere \union {NoRule}
    /\ Edit
    /\ category' = [category EXCEPT ![l] = [row EXCEPT !.stamp = began']]
    /\ UNCHANGED <<rule, channel, guide, refreshed>>

\* A request that sets channels' columns; those it does not change are not
\* written.
WriteChannels(rows) ==
    /\ Edit
    /\ rows # channel
    /\ channel' = [i \in Channels |->
         IF rows[i] = channel[i] THEN channel[i] ELSE [rows[i] EXCEPT !.stamp = began']]
    /\ UNCHANGED <<rule, category, guide, refreshed>>

\* update_channel: of any playlist, with any rule there is.
UpdateChannel(i, row) ==
    /\ i \in Present
    /\ row.pin \in RulesThere \union {NoRule}
    /\ WriteChannels([channel EXCEPT ![i] = row])

\* What is sent, if anything.
Sent(old, new) == IF new = {} THEN old ELSE CHOOSE x \in new : TRUE

\* "set_dummy_epg_mode" of bulk_edit_channels.
SetDummyMode(S, mode, minutes, pin) ==
    WriteChannels([i \in Channels |->
      IF i \notin S THEN channel[i]
      ELSE [channel[i] EXCEPT !.mode = mode, !.minutes = Sent(@, minutes), !.pin = Sent(@, pin)]])

MapGuides(S, g) ==
    /\ g # NoGuide => guide[g].there
    /\ WriteChannels([i \in Channels |-> IF i \in S THEN [channel[i] EXCEPT !.guide = g] ELSE channel[i]])

\* assign_epg
AssignGuide(i, g) == i \in Present /\ MapGuides({i}, g)

\* auto_map_epg, when the name is close enough to a guide's.
AutoMapGuide(i, g) == i \in Present /\ g # NoGuide /\ MapGuides({i}, g)

\* bulk_assign_epg: of the channels sent, those of this playlist.
BulkAssignGuide(l, S, g) == MapGuides(S \cap ChannelsOf(l), g)

\* "clear_epg_mapping" of bulk_edit_channels.
ClearGuides(S) == MapGuides(S, NoGuide)

\* clear_category_epg_mappings: one UPDATE of all the category's channels.
ClearCategoryEpg(l) ==
    /\ ChannelsOf(l) # {}
    /\ Edit
    /\ channel' = [i \in Channels |->
         IF i \in ChannelsOf(l) THEN [channel[i] EXCEPT !.guide = NoGuide, !.stamp = began'] ELSE channel[i]]
    /\ UNCHANGED <<rule, category, guide, refreshed>>

\* move_channels
MoveChannels(S, l) ==
    /\ category[l].there
    /\ WriteChannels([i \in Channels |-> IF i \in S THEN [channel[i] EXCEPT !.list = l] ELSE channel[i]])

\* copy_channels: the copy has the channel's pin, whatever playlist it is in.
CopyChannel(i, l) ==
    /\ i \in Present /\ category[l].there /\ NextChannel \in Channels
    /\ WriteChannels([channel EXCEPT ![NextChannel] = [channel[i] EXCEPT !.list = l]])

\* add_manual_channel
AddManualChannel(l, n) ==
    /\ category[l].there /\ NextChannel \in Channels
    /\ WriteChannels([channel EXCEPT ![NextChannel] = [NoChannel EXCEPT !.list = l, !.name = n]])

\* delete_channel
DeleteChannel(i) ==
    /\ i \in Present
    /\ Edit
    /\ channel' = [channel EXCEPT ![i] = [NoChannel EXCEPT !.stamp = channel[i].stamp]]
    /\ UNCHANGED <<rule, category, guide, refreshed>>

EditCategory(l) ==
    \/ \E m \in Modes, k \in Minutes, r \in Rules \union {NoRule} :
         UpdateCategory(l, [category[l] EXCEPT !.mode = m, !.minutes = k, !.pin = r])
    \/ ClearCategoryEpg(l)

EditChannel(i) ==
    \/ DeleteChannel(i)
    \/ \E n \in Names : UpdateChannel(i, [channel[i] EXCEPT !.name = n])
    \/ \E m \in Modes \union {"inherit"}, k \in Minutes, r \in Rules \union {NoRule} :
         UpdateChannel(i, [channel[i] EXCEPT !.mode = m, !.minutes = k, !.pin = r])

SetModes(S) ==
    \E m \in Modes \union {"inherit"}, k \in {{}} \union {{x} : x \in Minutes}, r \in {{}} \union {{x} : x \in RulesThere \union {NoRule}} :
      SetDummyMode(S, m, k, r)

MapChannels(g) ==
    \/ \E i \in Channels : AssignGuide(i, g) \/ AutoMapGuide(i, g)
    \/ \E l \in Lists, S \in SUBSET Present : BulkAssignGuide(l, S, g)

AddChannels(l) ==
    \/ \E S \in SUBSET Present : MoveChannels(S, l)
    \/ \E i \in Channels : CopyChannel(i, l)
    \/ \E n \in Names : AddManualChannel(l, n)

EditChannels ==
    \/ \E i \in Channels : EditChannel(i)
    \/ \E S \in SUBSET Present : SetModes(S) \/ ClearGuides(S)
    \/ \E g \in Guides \union {NoGuide} : MapChannels(g)
    \/ \E l \in Lists : AddChannels(l)

-----------------------------------------------------------------------------
(* Duplicating a playlist, refreshing the guides *)

\* The k-th of the rows copied gets the k-th id.
CopyOf(S, next, i) == next + Cardinality({j \in S : j < i})

Original(S, next, n) == CHOOSE i \in S : CopyOf(S, next, i) = n

Copies(S, next) == {CopyOf(S, next, i) : i \in S}

\* Mutant: pins are copied as they are.
MapPinAsIs(r) == r

\* rule_id_map.get(...): the copy of one of the rules read, or none.
MapPin(r) == IF r \in DOMAIN copying.rules THEN CopyOf(DOMAIN copying.rules, NextRule, r) ELSE NoRule

Copying(from, to) ==
    /\ copying.step = from
    /\ copying' = to
    /\ UNCHANGED <<tables, now, kept, edits, began>>

\* duplicate_playlist reads the playlist, its channels and its rules ...
CopyCategory ==
    /\ ~category[Other].there /\ edits < MaxEdits
    /\ Copying("none", [copying EXCEPT !.step = "channels", !.category = category[First]])

CopyChannels == Copying("channels", [copying EXCEPT !.step = "rules", !.channels = OwnChannels(First)])

CopyRules == Copying("rules", [copying EXCEPT !.step = "write", !.rules = OwnRules(First)])

\* ... and writes them all anew, if what they are mapped to is still there.
Duplicate ==
    LET old     == DOMAIN copying.rules
        members == DOMAIN copying.channels IN
    /\ copying.step = "write"
    /\ \A i \in members : copying.channels[i].guide # NoGuide => guide[copying.channels[i].guide].there
    /\ Copies(old, NextRule) \subseteq Rules /\ Copies(members, NextChannel) \subseteq Channels
    /\ Commit
    /\ rule' = [r \in Rules |->
         IF r \in Copies(old, NextRule)
         THEN [copying.rules[Original(old, NextRule, r)] EXCEPT !.list = Other, !.stamp = began'] ELSE rule[r]]
    /\ category' = [category EXCEPT ![Other] =
         [copying.category EXCEPT !.pin = MapPin(@), !.stamp = began']]
    /\ channel' = [i \in Channels |->
         IF i \in Copies(members, NextChannel)
         THEN [copying.channels[Original(members, NextChannel, i)] EXCEPT
                 !.list = Other, !.pin = MapPin(@), !.stamp = began'] ELSE channel[i]]
    /\ copying' = NotCopying
    /\ UNCHANGED <<guide, refreshed>>

\* The mapping of a channel has gone, or another error: nothing is kept.
DuplicateFails ==
    copying.step # "none" /\ Copying(copying.step, NotCopying)

\* sync_epg_source: what the feed no longer lists is deleted, ON DELETE SET
\* NULL unmaps its channels, and all programmes are replaced.
Refresh(feed, shows) ==
    /\ Edit
    /\ guide' = [g \in Guides |-> [there |-> g \in feed, shows |-> IF g \in feed THEN shows[g] ELSE {}]]
    /\ channel' = [i \in Channels |-> [channel[i] EXCEPT !.guide = IF @ \in feed THEN @ ELSE NoGuide]]
    /\ refreshed' = began'
    /\ UNCHANGED <<rule, category>>

Next ==
    \/ Tick \/ Fetch
    \/ \E l \in Lists : EditRules(l) \/ EditCategory(l)
    \/ EditChannels
    \/ CopyCategory \/ CopyChannels \/ CopyRules \/ Duplicate \/ DuplicateFails
    \/ \E feed \in SUBSET Guides : \E shows \in [feed -> Shows] : Refresh(feed, shows)

Spec == Init /\ [][Next]_vars

-----------------------------------------------------------------------------
(* Type and integrity: what is pinned and mapped is there, ids are used once,
   and a duplicate has no channels before it is made. *)
TypeOK ==
    /\ \A r \in Rules : rule[r].list \in Lists \union {NoList} /\ rule[r].stamp \in 0..edits
    /\ \A l \in Lists : /\ category[l].mode \in Modes /\ category[l].minutes \in Minutes
                        /\ category[l].pin \in RulesThere \union {NoRule}
                        /\ ~category[l].there => ChannelsOf(l) = {} /\ RulesOf(l) = {}
    /\ \A i \in Present : /\ channel[i].pin \in RulesThere \union {NoRule}
                          /\ channel[i].guide # NoGuide => guide[channel[i].guide].there
                          /\ channel[i].mode \in Modes \union {"inherit"}
    /\ now \in Instants /\ edits \in 0..MaxEdits /\ began \in 0..edits /\ refreshed \in 0..edits

\* The clocks of its zone never show the time of an event, or have shown it before.
OddTime(e) ==
    \/ OnClock(Zone[e.by], e.time.at) # e.time.wall
    \/ Moment(Zone[e.by], e.time.wall, FALSE) # e.time

(* A dummy guide has something on at every moment of the window and never two
   things at once, wherever the event lies: it has begun already, it is over,
   it runs past the window, it is so far off that nothing is shown between the
   end of the window and the event, or the clocks are changed while it is on or
   after it - only not if it is to begin at a time that the clocks skip, or show
   for the second time. *)
GuideCovers ==
    \A plan \in {Plan(i) : i \in Present} :
      (\A e \in Events(plan) : e.time \in {NoEvent, Raises} \/ ~OddTime(e)) =>
        \A shown \in DummyGuides(plan) :
          /\ shown[1].start <= now /\ shown[Len(shown)].stop >= End
          /\ \A k \in DOMAIN shown : shown[k].start < shown[k].stop
          /\ \A k \in 1..Len(shown) - 1 :
               \/ shown[k].stop = shown[k + 1].start
               \/ shown[k].stop = End /\ shown[k + 1].start > End

\* The day of a time in the zone of the rule that read it.
DayIn(parser, t) == OnClock(Zone[parser], t) \div Day

\* The clocks of an event's zone are changed after it or now, and by a later time.
ChangesBy(e, t) == Zone[e.by].change > AtMost(now, e.time.at) /\ Zone[e.by].change <= t

(* An event announced for a time keeps it as the clock goes on, through its
   start and while it is on: until six hours after it began, or midnight in
   its zone.  From midnight on a name without a date stands for an event of
   the new day, and on New Year's Day one without a year for one of the new
   year.  A change of the clocks may end it, too: the six hours and the day are
   reckoned on them. *)
AnnouncedTimeHolds ==
    [][now' # now => \A i \in Present : \A s \in Plan(i).rules :
        LET before == ParseEvent(channel[i].name, s, now)
            after  == ParseEvent(channel[i].name, s, now') IN
        /\ before.time \notin {NoEvent, Raises}
        /\ now' <= before.time.at + Grace
        /\ DayIn(before.by, now') <= DayIn(before.by, before.time.at)
        /\ ~OddTime(before) /\ ~ChangesBy(before, now')
        => after = before]_vars

PinOf(i)       == Pin(channel[i], CategoryOf(i))
PinnedTo(i, l) == PinOf(i) \in RulesOf(l)

\* What is read of each channel of a duplicate is what the duplicate shows.
DuplicateShows ==
    category'[Other].there # category[Other].there
      => \A i \in DOMAIN copying.channels :
           LET row == copying.channels[i]  pin == Pin(row, copying.category) IN
           \/ pin # NoRule /\ pin \notin DOMAIN copying.rules
           \/ \E j \in Present' : /\ channel'[j].list = Other
                                  /\ Plan(j)' = PlanOf(row, copying.category, copying.rules, guide)

\* A playlist's rules and category concern its own channels.
EditsStayApart ==
    \A i \in Present \cap Present' : Plan(i)' # Plan(i)
      => \A l \in Lists \ {channel[i].list} : ~PinnedTo(i, l) => ~(EditRules(l) \/ EditCategory(l))

(* A duplicate "works standalone": for each channel it was made of it has one
   that shows, with the duplicate's own rules, what the rows read for it show -
   the same as the original, if nobody edited it meanwhile.  And no edit of one
   playlist's rules or category changes what another's channels show.  Unless a
   channel is pinned to a rule of the other playlist, by a move, a copy or an
   edit, or its category is; or, in a duplicate, to one that was deleted between
   two reads. *)
CopyStandsAlone == [][DuplicateShows /\ EditsStayApart]_vars

\* A channel or rule that came between the revision being counted and the guide
\* being read has gone again.
CameAndWent == kept.came.channels \ ChannelsOf(kept.list) # {} \/ kept.came.rules \ RulesOf(kept.list) # {}

\* The rule of another playlist that the category was pinned to has been deleted.
ForeignPinGone == kept.foreign /\ category[kept.list].pin = NoRule

(* A TV whose revision of the guide is still the current one has the guide as
   it is, in however many statements both were read: the revision tells of every
   change of rules, pins, modes, mappings and programmes that changes what a
   channel shows, the deletions that leave updated_at alone among them - but for
   a row that came and went, a category's pin to another playlist's rule, and a
   transaction whose updated_at is no newer than one already counted. *)
TagCoversGuide ==
    kept.step = "kept" /\ Revision(kept.list) = kept.rev
      => Plans(kept.list) = kept.plans \/ CameAndWent \/ ForeignPinGone \/ kept.late
=============================================================================
