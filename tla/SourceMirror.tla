----------------------------- MODULE SourceMirror -----------------------------
(***************************************************************************)
(* What synchronising a source promises to whoever reads its channels:     *)
(* they are a copy of one answer of the provider.  A run takes the answer  *)
(* and later, if nothing prevents it, the copy is replaced by it, as a     *)
(* whole.  The promise ends when two runs are under way at once.           *)
(* SourceSync is shown to implement this copy.                             *)
(***************************************************************************)
CONSTANTS
    Keys,           \* the provider's channels
    Names           \* what they can be called

VARIABLES
    listed,         \* what the provider lists now: the names of each channel
    taken,          \* the answer a run has taken, if one is under way
    shown,          \* the copy
    synced,         \* what it is said to be a copy of
    apart           \* two runs have been under way at once

vars == <<listed, taken, shown, synced, apart>>

Listings == [Keys -> {{}} \union {{n} : n \in Names}]

Init ==
    /\ listed \in Listings
    /\ taken = {}
    /\ shown = listed /\ synced = listed
    /\ apart = FALSE

ProviderChanges ==
    /\ listed' \in Listings
    /\ UNCHANGED <<taken, shown, synced>>

Take ==
    /\ taken = {}
    /\ taken' = {listed}
    /\ UNCHANGED <<listed, shown, synced>>

Publish ==
    /\ synced' \in taken
    /\ shown' = synced'
    /\ taken' = {}
    /\ UNCHANGED listed

GiveUp ==
    /\ taken # {}
    /\ taken' = {}
    /\ UNCHANGED <<listed, shown, synced>>

Next == apart' \/ (~apart /\ (ProviderChanges \/ Take \/ Publish \/ GiveUp))

Spec == Init /\ [][Next]_vars
=============================================================================
