--------------------------- MODULE ProfileRegister ---------------------------
(***************************************************************************)
(* What the shared player profile of one XC login promises to the TVs that *)
(* use it: a register with a revision.  A write raises the revision by one *)
(* and keeps everything the profile held.  Clear forgets the profile; the  *)
(* promise to keep what was written is made only until the first Clear.    *)
(* ProfileStore is shown to implement this register.                       *)
(***************************************************************************)
EXTENDS Naturals

CONSTANT Items          \* what TVs record: watch history, favourites, ...

VARIABLES
    revision,           \* 0: nothing has been synced
    data,               \* the items the profile holds
    cleared             \* TRUE once an administrator cleared it

vars == <<revision, data, cleared>>

Init == revision = 0 /\ data = {} /\ cleared = FALSE

Write(d) ==
    /\ cleared \/ data \subseteq d
    /\ revision' = revision + 1
    /\ data' = d
    /\ UNCHANGED cleared

Clear ==
    /\ revision > 0
    /\ revision' = 0
    /\ data' = {}
    /\ cleared' = TRUE

Next == Clear \/ \E d \in SUBSET Items : Write(d)

Spec == Init /\ [][Next]_vars
=============================================================================
