------------------------------- MODULE DummyEpg -------------------------------
(***************************************************************************)
(* services/dummy_epg.py: reading a date and time in a channel's name, and *)
(* the made-up programmes of a channel without a guide.  Times are UTC, in *)
(* units of five minutes; how a regular expression reads a name is given   *)
(* by the constant Reads.                                                  *)
(*                                                                         *)
(* A datetime in the zone of a rule is what the clocks show there: adding  *)
(* to it and comparing it pays no heed to hours that they skip or repeat.  *)
(* Here a zone changes its offset once at most, and all years are as long. *)
(***************************************************************************)
EXTENDS Integers, Sequences, SequencesExt

CONSTANTS
    Names,      \* names of channels
    Patterns,   \* patterns of custom rules
    Builtin,    \* TIME_RE with DATE_RE
    Zone,       \* the timezone of each pattern's rule
    Reads,      \* what each pattern reads in each name
    YearDays,   \* days in a year
    NoMatch,    \* it does not match, or without hour and minute
    NoDate,     \* a match without month and day
    BadDate,    \* one with a month or day there is not
    NoNumber,   \* what int() refuses
    NoEvent,    \* None, where a time is expected
    Raises      \* an exception nobody catches

Hour  == 12
Day   == 24 * Hour
Block == 3 * Hour           \* UP_NEXT_BLOCK_MINUTES
Grace == 6 * Hour

Parsers == Patterns \union {Builtin}
Moments == [at : Int, wall : Int]

\* The offset of a zone from UTC before and after a change.
Utc == [before |-> 0, after |-> 0, change |-> 0]

ASSUME DummyEpgAssumptions ==
    /\ Builtin \notin Patterns
    /\ NoEvent \notin Moments /\ Raises \notin Moments /\ NoEvent # Raises
    /\ YearDays \in Nat \ {0}
    /\ Zone \in [Parsers -> [before : Int, after : Int, change : Int]] /\ Zone[Builtin] = Utc
    /\ \A p \in Parsers : Zone[p].before - Zone[p].after \in 1 - Block..Block - 1
    /\ \A p \in Parsers, n \in Names :
         \/ Reads[p][n] \in {NoMatch, NoNumber}
         \/ /\ Reads[p][n].hour \in Nat /\ Reads[p][n].slot \in Nat
            /\ Reads[p][n].day \in Nat \union {NoDate, BadDate, NoNumber} /\ Reads[p][n].year \in BOOLEAN
            /\ Reads[p][n].day \in Nat /\ ~Reads[p][n].year => Reads[p][n].day < YearDays

AtLeast(a, b) == IF a < b THEN b ELSE a
AtMost(a, b)  == IF a < b THEN a ELSE b

\* What the clocks of a zone show, and whether they show it again.
OnClock(z, t) == t + (IF t < z.change THEN z.before ELSE z.after)
Again(z, t)   == t >= z.change /\ t < z.change + z.before - z.after

\* zoneinfo: a time the clocks skip counts by the offset before, one that they
\* show twice is the first unless fold says otherwise.
Moment(z, wall, fold) ==
    LET turn == z.change + (IF fold THEN AtMost(z.before, z.after) ELSE AtLeast(z.before, z.after))
    IN [at |-> wall - (IF wall < turn THEN z.before ELSE z.after), wall |-> wall]

\* Mutant: a time that is over is tomorrow's.
NextOccurrenceNow(z, wall, now) ==
    IF wall < OnClock(z, now) THEN Moment(z, wall + Day, FALSE) ELSE Moment(z, wall, Again(z, now))

\* "if event_dt < now_local - timedelta(hours=6)"; replace() keeps the fold.
NextOccurrence(z, wall, now) ==
    IF wall < OnClock(z, now) - Grace THEN Moment(z, wall + Day, FALSE) ELSE Moment(z, wall, Again(z, now))

\* The day that is read: without a year, one of the year it is.
DayRead(read, today) == IF read.year THEN read.day ELSE today - (today % YearDays) + read.day

\* _build_event_datetime: only with a date is a wrong minute caught, and a day
\* that is no number never.
EventTime(read, z, now) ==
    LET clock == read.hour * Hour + read.slot
        today == OnClock(z, now) \div Day
    IN IF read.hour > 23 THEN NoEvent
       ELSE IF read.day = NoNumber \/ (read.day = NoDate /\ read.slot >= Hour) THEN Raises
       ELSE IF read.day = BadDate \/ read.slot >= Hour THEN NoEvent
       ELSE IF read.day = NoDate THEN NextOccurrence(z, today * Day + clock, now)
       ELSE Moment(z, DayRead(read, today) * Day + clock, FALSE)

\* _apply_custom_rule, and the built-in parser.
Apply(parser, name, now) ==
    IF Reads[parser][name] = NoMatch THEN NoEvent
    ELSE IF Reads[parser][name] = NoNumber THEN Raises
    ELSE EventTime(Reads[parser][name], Zone[parser], now)

\* parse_event_datetime: the first of the rules that finds a time, else the
\* built-in parser; which one it was, and the time.
ParseEvent(name, rules, now) ==
    LET tried == Append(rules, Builtin)
        first == SelectInSeq(tried, LAMBDA p : Apply(p, name, now) # NoEvent)
    IN IF first = 0 THEN [by |-> Builtin, time |-> NoEvent]
       ELSE [by |-> tried[first], time |-> Apply(tried[first], name, now)]

-----------------------------------------------------------------------------
HourOf(t) == t - (t % Hour)

\* How many steps of a length lead from one time to another or past it.
Steps(from, to, length) == (to - from + length - 1) \div length

\* When the k-th block begins; its start is reckoned on the clocks.
BlockAt(z, from, k) == Moment(z, from + k * Block, FALSE).at

\* Where the loop of _tile ends.
Blocks(z, from, to) ==
    CHOOSE n \in 0..AtLeast(0, Steps(BlockAt(z, from, 0), to, Block) + 1) :
        BlockAt(z, from, n) >= to /\ \A k \in 0..n - 1 : BlockAt(z, from, k) < to

\* Mutant: the last block is not cut off.
TileUnclipped(z, from, to) ==
    [k \in 1..Blocks(z, from, to) |-> [start |-> BlockAt(z, from, k - 1), stop |-> BlockAt(z, from, k)]]

\* _tile: three-hour blocks, the last one cut off at the end.
Tile(z, from, to) ==
    [k \in 1..Blocks(z, from, to) |-> [start |-> BlockAt(z, from, k - 1), stop |-> AtMost(BlockAt(z, from, k), to)]]

\* generate_name_dummy: the last programme may run past the window.
NameGuide(now, hours, minutes) ==
    LET from == HourOf(now)
        long == AtLeast(minutes, 1)
    IN [k \in 1..Steps(from, now + hours * Hour, long) |->
          [start |-> from + (k - 1) * long, stop |-> from + k * long]]

\* generate_event_dummy once the name is read: "Up Next" until the event or
\* the end of the window, the event itself, "finished" after it.
EventGuide(z, time, now, hours, minutes) ==
    LET end  == now + hours * Hour
        over == time.wall + AtLeast(minutes, 3)
    IN Tile(Utc, HourOf(now), AtMost(time.at, end))
         \o <<[start |-> time.at, stop |-> BlockAt(z, over, 0)]>> \o Tile(z, over, end)
=============================================================================
