--------------------------- MODULE SubscriptionsList ---------------------------
(***************************************************************************)
(* The list screen of the Mini App (web/src/screens/SubscriptionsList.tsx  *)
(* over TanStack Query): the watches of one user, changed on the screen    *)
(* before the server has answered, rolled back to a snapshot on failure    *)
(* and fetched again after every change.  One device in full; what the     *)
(* user writes elsewhere (another device, the form) happens to the table.  *)
(*                                                                         *)
(* A watch is reduced to one field of two values, which stands for status  *)
(* and muted_until alike.  A PATCH is one step of the server here: what    *)
(* two of them can do to each other is the matter of Subscriptions.        *)
(***************************************************************************)
EXTENDS SequencesExt

CONSTANTS
    Ids,        \* the watches
    Null,       \* nothing loaded
    Changes,    \* Changes[i]: what the user may make of watch i
    Elsewhere,  \* Elsewhere[i]: what others may make of it
    MaxTaps     \* bound on the mutations in flight

VARIABLES
    rows,       \* the server: the state of every watch
    data,       \* the query cache: the rows as last received or changed
    failed,     \* the last fetch failed: the screen shows the error only
    fetch,      \* the GET in flight: its stage, and the reply once served
    mounted,    \* the list is open
    taps,       \* the mutations in flight, oldest first
    untold      \* history: since the open list last saw one of its changes
                \*   answered, the rows were written without its knowledge

vars == <<rows, data, failed, fetch, mounted, taps, untold>>

Filed == {"active", "paused"}
States == Filed \cup {"gone"}     \* ids are not used twice

ASSUME ChangesAssumption ==
    Changes \in [Ids -> SUBSET States] /\ Elsewhere \in [Ids -> SUBSET States]

ASSUME MaxTapsAssumption == MaxTaps \in Nat

Tables == [Ids -> States]

NoFetch == [stage |-> "none", reply |-> Null]
NewFetch == [stage |-> "sent", reply |-> Null]

Init ==
    /\ rows = [i \in Ids |-> "active"]
    /\ data = Null
    /\ failed = FALSE
    /\ fetch = NoFetch
    /\ mounted = FALSE
    /\ taps = <<>>
    /\ untold = FALSE

Usable == mounted /\ data # Null /\ ~failed

-----------------------------------------------------------------------------
(* Opening and leaving *)

(* Opening the list, or refocusing the window: what is cached is stale at  *)
(* once, so it is refetched; a fetch in flight is joined, not restarted.   *)
Refetch ==
    /\ mounted' = TRUE
    /\ fetch' = IF fetch = NoFetch THEN NewFetch ELSE fetch
    /\ UNCHANGED <<rows, data, failed, taps, untold>>

(* To the form or the settings.  Requests in flight go on. *)
Leave ==
    /\ mounted
    /\ mounted' = FALSE
    /\ UNCHANGED <<rows, data, failed, fetch, taps, untold>>

-----------------------------------------------------------------------------
(* Mutations *)

(* Mutant of Tap: onMutate does not return the rows for the rollback.      *)
TapWithoutContext(i, to) ==
    /\ Usable
    /\ data[i] \in Filed
    /\ to # data[i]
    /\ Len(taps) < MaxTaps
    /\ fetch' = NoFetch
    /\ data' = [data EXCEPT ![i] = to]
    /\ taps' = Append(taps, [stage |-> "sent", id |-> i, to |-> to, previous |-> Null])
    /\ UNCHANGED <<rows, failed, mounted, untold>>

(* onMutate: Pause, Resume, Mute and Unmute set the field, Delete drops    *)
(* the row.  The fetch in flight is cancelled, the rows are kept for a     *)
(* rollback, and the screen changes at once.                               *)
Tap(i, to) ==
    /\ Usable
    /\ data[i] \in Filed
    /\ to # data[i]
    /\ Len(taps) < MaxTaps
    /\ fetch' = NoFetch
    /\ data' = [data EXCEPT ![i] = to]
    /\ taps' = Append(taps, [stage |-> "sent", id |-> i, to |-> to, previous |-> data])
    /\ UNCHANGED <<rows, failed, mounted, untold>>

(* Mutant of Invalidate: a fetch in flight is joined. *)
InvalidateJoining ==
    /\ fetch' = IF mounted /\ fetch = NoFetch THEN NewFetch ELSE fetch
    /\ untold' = ~mounted

(* onSettled invalidates the query: a list that is open fetches anew, and  *)
(* a fetch already in flight is dropped; a closed one does nothing now.    *)
Invalidate ==
    /\ fetch' = IF mounted THEN NewFetch ELSE fetch
    /\ untold' = ~mounted

TapSucceeds(k) ==
    /\ taps[k].stage = "served"
    /\ taps' = RemoveAt(taps, k)
    /\ Invalidate
    /\ UNCHANGED <<rows, data, failed, mounted>>

(* Mutant of TapFails: only a refusal counts as a failure. *)
TapRefused(k) ==
    /\ taps[k].stage = "refused"
    /\ data' = taps[k].previous
    /\ failed' = FALSE
    /\ taps' = RemoveAt(taps, k)
    /\ Invalidate
    /\ UNCHANGED <<rows, mounted>>

(* Refused, lost on the way, or served with the answer lost: onError puts  *)
(* back the rows as they were before the tap.  A request that is served    *)
(* after all is a WriteElsewhere.                                          *)
TapFails(k) ==
    /\ data' = taps[k].previous
    /\ failed' = FALSE
    /\ taps' = RemoveAt(taps, k)
    /\ Invalidate
    /\ UNCHANGED <<rows, mounted>>

-----------------------------------------------------------------------------
(* The query *)

FetchArrives ==
    /\ fetch.stage = "served"
    /\ data' = fetch.reply
    /\ failed' = FALSE
    /\ fetch' = NoFetch
    /\ UNCHANGED <<rows, mounted, taps, untold>>

(* This query does not retry. *)
FetchFails ==
    /\ fetch # NoFetch
    /\ failed' = TRUE
    /\ fetch' = NoFetch
    /\ UNCHANGED <<rows, data, mounted, taps, untold>>

-----------------------------------------------------------------------------
(* The server *)

ServeList ==
    /\ fetch.stage = "sent"
    /\ fetch' = [stage |-> "served", reply |-> rows]
    /\ UNCHANGED <<rows, data, failed, mounted, taps, untold>>

(* PATCH and DELETE; a row that is gone gets a 404. *)
ServeTap(k) ==
    /\ taps[k].stage = "sent"
    /\ IF rows[taps[k].id] \in Filed
       THEN /\ rows' = [rows EXCEPT ![taps[k].id] = taps[k].to]
            /\ taps' = [taps EXCEPT ![k].stage = "served"]
       ELSE /\ taps' = [taps EXCEPT ![k].stage = "refused"]
            /\ UNCHANGED rows
    /\ UNCHANGED <<data, failed, fetch, mounted, untold>>

(* A PATCH or DELETE that this screen does not wait for.  (A watch created *)
(* elsewhere is one more id, which the instance need not follow.)          *)
WriteElsewhere(i, to) ==
    /\ rows[i] \in Filed \ {to}
    /\ rows' = [rows EXCEPT ![i] = to]
    /\ untold' = TRUE
    /\ UNCHANGED <<data, failed, fetch, mounted, taps>>

TapEnds == \E k \in DOMAIN taps : TapSucceeds(k) \/ TapFails(k)
FetchEnds == FetchArrives \/ FetchFails
UserActs == Refetch \/ \E i \in Ids : \E to \in Changes[i] : Tap(i, to)

Next ==
    \/ UserActs
    \/ Leave
    \/ TapEnds
    \/ FetchEnds
    \/ ServeList
    \/ \E k \in DOMAIN taps : ServeTap(k)
    \/ \E i \in Ids : \E to \in Elsewhere[i] : WriteElsewhere(i, to)

(* A fetch() that the browser has started ends, with a reply or an error.  *)
Spec == Init /\ [][Next]_vars /\ WF_vars(TapEnds) /\ WF_vars(FetchEnds)

-----------------------------------------------------------------------------
(* Properties *)

Mutations == [stage : {"sent", "served", "refused"}, id : Ids, to : States, previous : Tables]

(* The cache, snapshots and replies are tables, replies exist once served, *)
(* and no request is at a stage it cannot be in.                           *)
TypeOK ==
    /\ rows \in Tables
    /\ data \in Tables \cup {Null}
    /\ failed \in BOOLEAN /\ mounted \in BOOLEAN
    /\ fetch \in {NoFetch, NewFetch} \cup [stage : {"served"}, reply : Tables]
    /\ taps \in Seq(Mutations)
    /\ Len(taps) <= MaxTaps
    /\ untold \in BOOLEAN

Quiet == taps = <<>> /\ fetch = NoFetch

(* Once nothing is in flight, an open list shows exactly the rows of the   *)
(* server, but for what others have written since it saw the last of its   *)
(* changes answered: no optimistic guess, no snapshot of a rollback and no *)
(* reply of an older fetch stays on the screen.                            *)
QuietListIsCurrent == Quiet /\ Usable /\ ~untold => data = rows

(* When the user stops tapping, everything in flight comes to an end: the  *)
(* screen does not stay with a guess.                                      *)
SettlesDown == []<><<UserActs>>_vars \/ <>[]Quiet

(* What the comment on the delete mutation says, "restores it on failure": *)
(* a watch leaves the screen only when the user deletes it or when the     *)
(* server says that it is gone.  The code breaks it: the rollback of a     *)
(* second change, whose snapshot was taken while a first delete was        *)
(* pending, takes away again what the first one's failure has restored.    *)
VanishesForAReason ==
    [][\A i \in Ids :
          (Usable /\ Usable' /\ data[i] \in Filed /\ data'[i] \notin Filed) =>
              Len(taps') > Len(taps) \/ FetchArrives]_vars
=============================================================================
