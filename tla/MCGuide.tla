------------------------------- MODULE MCGuide -------------------------------
(* Five-minute units.  "late" is 23:30 to one rule and 16:30 in its zone to the
   other, "spring" is a time that the clocks of that zone skip. *)
EXTENDS Guide, TLC

At(d, h, s) == d * Day + h * Hour + s

\* The clocks of one zone are put forward by an hour, from 17:00 to 18:00.
MCZone == [p \in {"utc", "east", "builtin"} |->
             IF p = "east" THEN [before |-> -5 * Hour, after |-> -4 * Hour, change |-> At(10, 22, 0)] ELSE Utc]

Read(d, h, s) == [day |-> d, year |-> FALSE, hour |-> h, slot |-> s]

MCReads ==
    [utc     |-> [plain |-> Read(NoDate, 25, 0), late |-> Read(NoDate, 23, 6), spring |-> Read(BadDate, 8, 0)],
     east    |-> [plain |-> NoNumber, late |-> Read(NoDate, 16, 6), spring |-> Read(NoDate, 17, 10)],
     builtin |-> [plain |-> NoMatch, late |-> Read(NoDate, 12, 15), spring |-> Read(13, 8, 0)]]

MCInstants == {At(10, 20, 3), At(10, 23, 9)}

\* A TV's request and a duplication are not both under way: neither reads what
\* the other writes, as no guide of the duplicate is asked for before it is there.
OneAtATime == kept.step \in {"none", "kept"} \/ copying.step = "none"

Show == [start |-> At(10, 20, 0), stop |-> At(10, 21, 0)]

MCShows == {{}, {Show}}

MCInitial == {[rules |-> <<"east">>, name |-> "late", shows |-> [g \in Guides |-> {Show}]]}
=============================================================================
