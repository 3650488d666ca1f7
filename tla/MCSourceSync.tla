---------------------------- MODULE MCSourceSync ----------------------------
(***************************************************************************)
(* SourceSync for a provider whose channels are all in one category, and   *)
(* for one whose categories are linked to every playlist category.         *)
(***************************************************************************)
EXTENDS SourceSync

MCCatOf == [k \in Keys |-> CHOOSE c \in Cats : TRUE]

LinkedInit == Init /\ links = Links

LinkedSpec == LinkedInit /\ [][Next]_vars /\ Fairness
=============================================================================
