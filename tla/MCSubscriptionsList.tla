-------------------------- MODULE MCSubscriptionsList --------------------------
(***************************************************************************)
(* A small instance of SubscriptionsList: one watch that is paused and     *)
(* resumed and one that is deleted, here and elsewhere.                    *)
(***************************************************************************)
EXTENDS SubscriptionsList, TLC

CONSTANTS a, b

MCIds == {a, b}
MCChanges == a :> {"active", "paused"} @@ b :> {"gone"}
MCElsewhere == a :> {"paused"} @@ b :> {"gone"}

(* Two watches that the user only deletes. *)
MCDeletes == a :> {"gone"} @@ b :> {"gone"}
=============================================================================
