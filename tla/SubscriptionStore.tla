-------------------------- MODULE SubscriptionStore --------------------------
(***************************************************************************)
(* What the subscription backend promises about the table, whatever the    *)
(* handlers that serve requests do in between: a row appears whole, valid, *)
(* active and under an id that was never used; it can only be replaced by  *)
(* another valid subscription of the same owner; once it is gone, its id   *)
(* stays gone.                                                             *)
(***************************************************************************)
EXTENDS Domain

CONSTANTS Users, Ids

VARIABLES
    store,  \* store[i]: the row of id i, or NoRow
    used    \* the ids that hold a row or held one before

vars == <<store, used>>

Init ==
    /\ store = [i \in Ids |-> NoRow]
    /\ used = {}

Add(i, u, s) ==
    /\ i \notin used
    /\ Valid(s)
    /\ s["status"] = "active"
    /\ store' = [store EXCEPT ![i] = Row(u, s)]
    /\ used' = used \cup {i}

Replace(i, s) ==
    /\ store[i] # NoRow
    /\ Valid(s)
    /\ store' = [store EXCEPT ![i].sub = s]
    /\ UNCHANGED used

Remove(i) ==
    /\ store[i] # NoRow
    /\ store' = [store EXCEPT ![i] = NoRow]
    /\ UNCHANGED used

(* The subscriptions form a class rather than a set, so a step names the   *)
(* one it writes through the row it leaves behind.                         *)
Next ==
    /\ store' # store
    /\ \E i \in Ids :
          \/ /\ store'[i] # NoRow
             /\ \/ \E u \in Users : Add(i, u, store'[i].sub)
                \/ Replace(i, store'[i].sub)
          \/ Remove(i)

Spec == Init /\ [][Next]_vars
=============================================================================
