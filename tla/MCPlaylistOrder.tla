-------------------------- MODULE MCPlaylistOrder --------------------------
(* Three channels are imported into a playlist of two categories, a third is
   another playlist's; a second category can have the name of one of the two;
   names of channels sort against the ids. *)
EXTENDS PlaylistOrder

CONSTANTS a, b, again, other

MCCats    == {a, b, again, other}
MCForeign == {other}
MCLabel   == [c \in MCCats |-> IF c = again THEN b ELSE c]
MCRank    == [c \in MCCats |-> IF c = a THEN 1 ELSE IF c = other THEN 3 ELSE 2]
\* The import begins with a, or with the name that is there twice later.
MCInit == Init /\ (cat[1] = a \/ (cat[1] = other /\ cat[2] \in {b, again}))

MCSpec == MCInit /\ [][Next]_vars

MCSymmetry == Permutations(Reqs) \union Permutations({b, again})

MCNameKey == [i \in 1..MaxId |-> MaxId - i]
=============================================================================
