--------------------------- MODULE MCProfileStore ---------------------------
(***************************************************************************)
(* ProfileStore with the TVs, items and requests of a small household.     *)
(* Two TVs and two request slots are the least that race; a third item     *)
(* lets each TV hold one the other has not seen after a first write both   *)
(* have.                                                                   *)
(***************************************************************************)
EXTENDS ProfileStore, TLC

CONSTANTS tv1, tv2, itemA, itemB, itemC

MCOwnerOf == itemA :> tv1 @@ itemB :> tv2 @@ itemC :> tv1
=============================================================================
