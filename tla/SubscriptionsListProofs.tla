------------------------ MODULE SubscriptionsListProofs ------------------------
(***************************************************************************)
(* Proofs about SubscriptionsList, for any watches, changes and number of  *)
(* mutations in flight: what the quiet list shows, then the types.         *)
(***************************************************************************)
EXTENDS SubscriptionsList, SequenceFacts

(* What makes QuietListIsCurrent inductive: while nothing was written that *)
(* the list does not know of and no change is pending, a reply on its way  *)
(* is current too, and so is the cache of a list that has been left.       *)
Current ==
    ~untold /\ taps = <<>> =>
        /\ fetch.stage = "served" => fetch.reply = rows
        /\ fetch = NoFetch /\ ~failed /\ data # Null => data = rows

(* A step keeps it: one step of the proof per action. *)
LEMMA CurrentStep ==
    ASSUME Current, [Next]_vars
    PROVE  Current'
<1>1. CASE UNCHANGED vars
  BY <1>1 DEF Current, vars
<1>2. CASE Refetch
  BY <1>2 DEF Current, Refetch, NewFetch
<1>3. ASSUME NEW i \in Ids, NEW to \in Changes[i], Tap(i, to)
      PROVE  Current'
  <2>1. taps' # <<>>
    BY <1>3 DEF Tap
  <2> QED
    BY <2>1 DEF Current
<1>4. CASE Leave
  BY <1>4 DEF Current, Leave
<1>5. ASSUME NEW k \in DOMAIN taps, TapSucceeds(k) \/ TapFails(k)
      PROVE  Current'
  <2>1. ~untold' => fetch' = NewFetch
    BY <1>5 DEF TapSucceeds, TapFails, Invalidate
  <2> QED
    BY <2>1 DEF Current, NewFetch, NoFetch
<1>6. CASE FetchArrives
  BY <1>6 DEF Current, FetchArrives, NoFetch
<1>7. CASE FetchFails
  BY <1>7 DEF Current, FetchFails, NoFetch
<1>8. CASE ServeList
  BY <1>8 DEF Current, ServeList, NoFetch
<1>9. ASSUME NEW k \in DOMAIN taps, ServeTap(k)
      PROVE  Current'
  <2>1. taps # <<>>
    BY <1>9
  <2>2. DOMAIN taps' = DOMAIN taps
    BY <1>9 DEF ServeTap
  <2>3. taps' # <<>>
    BY <2>2, <1>9
  <2> QED
    BY <2>3 DEF Current
<1>10. ASSUME NEW i \in Ids, NEW to \in Elsewhere[i], WriteElsewhere(i, to)
       PROVE  Current'
  BY <1>10 DEF Current, WriteElsewhere
<1> QED
  BY <1>1, <1>2, <1>3, <1>4, <1>5, <1>6, <1>7, <1>8, <1>9, <1>10
     DEF Next, UserActs, TapEnds, FetchEnds

(* An open list with nothing in flight shows the rows of the server, but   *)
(* for what others wrote.                                                  *)
THEOREM QuietListsAreCurrent == Spec => []QuietListIsCurrent
<1>1. Init => Current
  BY DEF Init, Current, NoFetch
<1>2. Current /\ [Next]_vars => Current'
  BY CurrentStep
<1>3. Current => QuietListIsCurrent
  BY DEF Current, QuietListIsCurrent, Quiet, Usable
<1> QED
  BY <1>1, <1>2, <1>3, PTL DEF Spec

-----------------------------------------------------------------------------
(* Types *)

(* A mutation that ends leaves the others as they are. *)
LEMMA OthersStay ==
    ASSUME taps \in Seq(Mutations), NEW k \in DOMAIN taps
    PROVE  RemoveAt(taps, k) \in Seq(Mutations) /\ Len(RemoveAt(taps, k)) <= Len(taps)
BY RemovedAt

(* A step keeps the types: one step of the proof per action. *)
LEMMA TypeStep ==
    ASSUME TypeOK, [Next]_vars
    PROVE  TypeOK'
<1>1. CASE UNCHANGED vars
  BY <1>1 DEF TypeOK, vars
<1>2. CASE Refetch
  BY <1>2 DEF TypeOK, Refetch
<1>3. ASSUME NEW i \in Ids, NEW to \in Changes[i], Tap(i, to)
      PROVE  TypeOK'
  <2>1. to \in States
    BY ChangesAssumption
  <2>2. data \in Tables /\ data' \in Tables
    BY <1>3, <2>1 DEF TypeOK, Tap, Usable, Tables
  <2>3. [stage |-> "sent", id |-> i, to |-> to, previous |-> data] \in Mutations
    BY <2>1, <2>2 DEF Mutations
  <2>4. taps' \in Seq(Mutations) /\ Len(taps') <= MaxTaps
    BY <1>3, <2>3, MaxTapsAssumption DEF TypeOK, Tap
  <2> QED
    BY <1>3, <2>2, <2>4 DEF TypeOK, Tap
<1>4. CASE Leave
  BY <1>4 DEF TypeOK, Leave
<1>5. ASSUME NEW k \in DOMAIN taps, TapSucceeds(k) \/ TapFails(k)
      PROVE  TypeOK'
  <2>1. taps' \in Seq(Mutations) /\ Len(taps') <= MaxTaps
    <3>1. taps' = RemoveAt(taps, k)
      BY <1>5 DEF TapSucceeds, TapFails
    <3>2. Len(taps) \in Nat /\ Len(taps') \in Nat
      BY <3>1, OthersStay DEF TypeOK
    <3> QED
      BY <3>1, <3>2, OthersStay, MaxTapsAssumption DEF TypeOK
  <2>2. taps[k].previous \in Tables
    <3>1. taps[k] \in Mutations
      BY DEF TypeOK
    <3> QED
      BY <3>1 DEF Mutations
  <2>3. data' \in Tables \cup {Null} /\ failed' \in BOOLEAN
    BY <1>5, <2>2 DEF TypeOK, TapSucceeds, TapFails
  <2> QED
    BY <1>5, <2>1, <2>3 DEF TypeOK, TapSucceeds, TapFails, Invalidate
<1>6. CASE FetchArrives
  <2>1. fetch \in [stage : {"served"}, reply : Tables]
    <3>1. fetch # NoFetch /\ fetch # NewFetch
      BY <1>6 DEF FetchArrives, NoFetch, NewFetch
    <3> QED
      BY <3>1 DEF TypeOK
  <2>2. fetch.reply \in Tables
    BY <2>1
  <2> QED
    BY <1>6, <2>2 DEF TypeOK, FetchArrives
<1>7. CASE FetchFails
  BY <1>7 DEF TypeOK, FetchFails
<1>8. CASE ServeList
  BY <1>8 DEF TypeOK, ServeList
<1>9. ASSUME NEW k \in DOMAIN taps, ServeTap(k)
      PROVE  TypeOK'
  <2>1. PICK stage \in {"served", "refused"} : taps' = [taps EXCEPT ![k].stage = stage]
    BY <1>9 DEF ServeTap
  <2>2. [taps[k] EXCEPT !.stage = stage] \in Mutations
    <3>1. taps[k] \in Mutations
      BY DEF TypeOK
    <3> QED
      BY <3>1 DEF Mutations
  <2>3. taps' \in Seq(Mutations) /\ Len(taps') = Len(taps)
    BY <2>1, <2>2 DEF TypeOK
  <2>4. rows' \in Tables
    <3>1. taps[k] \in Mutations /\ rows \in Tables
      BY DEF TypeOK
    <3>2. taps[k].id \in Ids /\ taps[k].to \in States
      BY <3>1 DEF Mutations
    <3>3. [rows EXCEPT ![taps[k].id] = taps[k].to] \in Tables
      BY <3>1, <3>2 DEF Tables
    <3> QED
      BY <1>9, <3>1, <3>3 DEF ServeTap
  <2> QED
    BY <1>9, <2>3, <2>4 DEF TypeOK, ServeTap
<1>10. ASSUME NEW i \in Ids, NEW to \in Elsewhere[i], WriteElsewhere(i, to)
       PROVE  TypeOK'
  BY <1>10, ChangesAssumption DEF TypeOK, WriteElsewhere, Tables
<1> QED
  BY <1>1, <1>2, <1>3, <1>4, <1>5, <1>6, <1>7, <1>8, <1>9, <1>10
     DEF Next, UserActs, TapEnds, FetchEnds

(* The cache, the snapshots and the messages keep their types. *)
THEOREM TypeCorrect == Spec => []TypeOK
<1>1. Init => TypeOK
  <2>1. [i \in Ids |-> "active"] \in Tables
    BY DEF Tables, States, Filed
  <2>2. <<>> \in Seq(Mutations) /\ Len(<<>>) <= MaxTaps
    BY MaxTapsAssumption
  <2> QED
    BY <2>1, <2>2 DEF Init, TypeOK
<1>2. TypeOK /\ [Next]_vars => TypeOK'
  BY TypeStep
<1> QED
  BY <1>1, <1>2, PTL DEF Spec
-----------------------------------------------------------------------------
(* What the rollbacks need *)

GoneFrom(table, i) == table[i] \notin Filed

(* With one change at a time, no screen lies about what is gone: a reply,  *)
(* a settled cache and a snapshot miss a watch only when the server does,  *)
(* and what a snapshot misses, nothing that came later shows.              *)
GoneIsTrue ==
    /\ fetch.stage = "served" => \A i \in Ids : GoneFrom(fetch.reply, i) => GoneFrom(rows, i)
    /\ taps = <<>> /\ data # Null => \A i \in Ids : GoneFrom(data, i) => GoneFrom(rows, i)
    /\ \A k \in DOMAIN taps : \A i \in Ids :
          /\ GoneFrom(taps[k].previous, i) =>
                /\ GoneFrom(rows, i) /\ GoneFrom(data, i)
                /\ fetch.stage = "served" => GoneFrom(fetch.reply, i)
          /\ GoneFrom(data, i) =>
                \/ GoneFrom(rows, i)
                \/ i = taps[k].id /\ taps[k].stage # "served" /\ taps[k].to \notin Filed

(* A row that is gone stays gone: ids are not used twice. *)
LEMMA RowsStayGone ==
    ASSUME TypeOK, [Next]_vars, NEW i \in Ids, GoneFrom(rows, i)
    PROVE  GoneFrom(rows, i)'
<1>1. ASSUME NEW k \in DOMAIN taps, ServeTap(k)
      PROVE  GoneFrom(rows, i)'
  BY <1>1 DEF TypeOK, Tables, GoneFrom, ServeTap
<1>2. ASSUME NEW j \in Ids, NEW to \in Elsewhere[j], WriteElsewhere(j, to)
      PROVE  GoneFrom(rows, i)'
  BY <1>2 DEF TypeOK, Tables, GoneFrom, WriteElsewhere
<1> QED
  BY <1>1, <1>2
     DEF Next, vars, UserActs, TapEnds, FetchEnds, Refetch, Leave, Tap, TapSucceeds, TapFails,
         FetchArrives, FetchFails, ServeList, GoneFrom

(* With one change at a time, the one that ends is the only one. *)
LEMMA OnlyOne ==
    ASSUME TypeOK, MaxTaps = 1, NEW k \in DOMAIN taps
    PROVE  DOMAIN taps = {k} /\ k = 1 /\ RemoveAt(taps, k) = <<>>
<1>1. taps \in Seq(Mutations) /\ Len(taps) = 1 /\ k = 1 /\ DOMAIN taps = {k}
  <2>1. taps \in Seq(Mutations) /\ Len(taps) <= 1
    BY DEF TypeOK
  <2>2. Len(taps) \in Nat /\ DOMAIN taps = 1..Len(taps)
    BY <2>1
  <2>3. Len(taps) = 1 /\ k = 1
    BY <2>1, <2>2
  <2> QED
    BY <2>1, <2>2, <2>3
<1>2. RemoveAt(taps, k) \in Seq(Mutations) /\ Len(RemoveAt(taps, k)) = 0
  BY <1>1, RemovedAt
<1> QED
  BY <1>1, <1>2

LEMMA GoneIsTrueStep ==
    ASSUME TypeOK, GoneIsTrue, MaxTaps = 1, [Next]_vars
    PROVE  GoneIsTrue'
<1>1. \A i \in Ids : GoneFrom(rows, i) => GoneFrom(rows, i)'
  BY RowsStayGone
<1>2. CASE UNCHANGED vars \/ Refetch \/ Leave \/ FetchFails
  <2>1. /\ UNCHANGED <<rows, data, taps>>
        /\ fetch'.stage = "served" => fetch' = fetch
    BY <1>2 DEF vars, Refetch, Leave, FetchFails, NewFetch, NoFetch
  <2> QED
    BY <2>1 DEF GoneIsTrue, GoneFrom
<1>3. ASSUME NEW j \in Ids, NEW to \in Changes[j], Tap(j, to)
      PROVE  GoneIsTrue'
  <2> DEFINE t == [stage |-> "sent", id |-> j, to |-> to, previous |-> data]
  <2>1. /\ taps = <<>> /\ data \in Tables /\ data[j] \in Filed
        /\ \A i \in Ids \ {j} : data'[i] = data[i]
        /\ fetch' = NoFetch /\ rows' = rows /\ data'[j] = to
    <3>1. data \in Tables /\ data[j] \in Filed
      BY <1>3 DEF TypeOK, Tap, Usable
    <3>2. Len(taps) \in Nat /\ Len(taps) < 1 /\ taps \in Seq(Mutations)
      BY <1>3 DEF TypeOK, Tap
    <3>3. taps = <<>>
      BY <3>2
    <3>4. data' = [data EXCEPT ![j] = to] /\ fetch' = NoFetch /\ rows' = rows
      BY <1>3 DEF Tap
    <3> QED
      BY <3>1, <3>3, <3>4 DEF Tables
  <2>2. taps' = <<t>>
    BY <1>3, <2>1 DEF Tap
  <2>3. DOMAIN taps' = {1} /\ taps'[1].previous = data /\ taps'[1].id = j
        /\ taps'[1].stage = "sent" /\ taps'[1].to = to
    BY <2>2
  <2>4. data # Null
    BY <1>3 DEF Tap, Usable
  <2>5. taps' # <<>>
    BY <2>2
  <2> HIDE DEF t
  <2>6. fetch'.stage # "served"
    BY <2>1 DEF NoFetch
  <2>7. ASSUME NEW i \in Ids, GoneFrom(data, i)
        PROVE  GoneFrom(rows, i) /\ GoneFrom(rows, i)' /\ GoneFrom(data, i)'
    BY <2>1, <2>4, <2>7 DEF GoneIsTrue, GoneFrom
  <2>8. ASSUME NEW i \in Ids, GoneFrom(data, i)', ~GoneFrom(rows, i)'
        PROVE  i = j /\ to \notin Filed
    BY <2>1, <2>7, <2>8 DEF GoneFrom
  <2> QED
    BY <2>3, <2>5, <2>6, <2>7, <2>8 DEF GoneIsTrue, GoneFrom
<1>4. ASSUME NEW k \in DOMAIN taps, TapSucceeds(k) \/ TapFails(k)
      PROVE  GoneIsTrue'
  <2>1. DOMAIN taps = {k} /\ taps' = <<>> /\ rows' = rows
    BY <1>4, OnlyOne DEF TapSucceeds, TapFails
  <2>2. fetch'.stage = "served" => fetch' = fetch
    BY <1>4 DEF TapSucceeds, TapFails, Invalidate, NewFetch
  <2>3. \A i \in Ids : GoneFrom(data, i)' => GoneFrom(rows, i)
    BY <1>4 DEF GoneIsTrue, GoneFrom, TapSucceeds, TapFails
  <2> QED
    BY <2>1, <2>2, <2>3 DEF GoneIsTrue, GoneFrom
<1>5. CASE FetchArrives
  <2>1. /\ fetch'.stage # "served" /\ UNCHANGED <<rows, taps>>
        /\ fetch.stage = "served" /\ data' = fetch.reply
    BY <1>5 DEF FetchArrives, NoFetch
  <2> QED
    BY <2>1 DEF GoneIsTrue, GoneFrom
<1>6. CASE ServeList
  <2>1. fetch' = [stage |-> "served", reply |-> rows] /\ UNCHANGED <<rows, data, taps>>
    BY <1>6 DEF ServeList
  <2> QED
    BY <2>1 DEF GoneIsTrue, GoneFrom
<1>7. ASSUME NEW k \in DOMAIN taps, ServeTap(k)
      PROVE  GoneIsTrue'
  <2>1. PICK stage \in {"served", "refused"} :
            /\ taps' = [taps EXCEPT ![k].stage = stage]
            /\ stage = "served" => rows' = [rows EXCEPT ![taps[k].id] = taps[k].to]
            /\ stage = "refused" => rows' = rows /\ rows[taps[k].id] \notin Filed
    BY <1>7 DEF ServeTap
  <2>2. taps[k] \in Mutations /\ DOMAIN taps = {k} /\ rows \in Tables
    <3>1. DOMAIN taps = {k}
      BY OnlyOne
    <3>2. taps[k] \in Mutations /\ rows \in Tables
      BY DEF TypeOK
    <3> QED
      BY <3>1, <3>2
  <2>3. /\ DOMAIN taps' = {k} /\ taps'[k].previous = taps[k].previous
        /\ taps'[k].id = taps[k].id /\ taps'[k].stage = stage
    BY <2>1, <2>2 DEF Mutations
  <2>4. UNCHANGED <<data, fetch>> /\ taps' # <<>>
    BY <1>7, <2>3 DEF ServeTap
  <2>5. ASSUME NEW i \in Ids, GoneFrom(data, i), ~GoneFrom(rows, i)'
        PROVE  i = taps[k].id /\ stage # "served" /\ taps[k].to \notin Filed
    <3>1. i = taps[k].id /\ taps[k].to \notin Filed
      BY <1>1, <2>5 DEF GoneIsTrue
    <3>2. stage = "served" => rows'[i] = taps[k].to
      BY <2>1, <2>2, <3>1 DEF Tables
    <3> QED
      BY <2>5, <3>1, <3>2 DEF GoneFrom
  <2>6. taps'[k].to = taps[k].to
    BY <2>1, <2>2 DEF Mutations
  <2> QED
    BY <1>1, <2>3, <2>4, <2>5, <2>6 DEF GoneIsTrue, GoneFrom
<1>8. ASSUME NEW i \in Ids, NEW to \in Elsewhere[i], WriteElsewhere(i, to)
      PROVE  GoneIsTrue'
  <2>1. UNCHANGED <<data, fetch, taps>>
    BY <1>8 DEF WriteElsewhere
  <2> QED
    BY <1>1, <2>1 DEF GoneIsTrue, GoneFrom
<1> QED
  BY <1>2, <1>3, <1>4, <1>5, <1>6, <1>7, <1>8 DEF Next, UserActs, TapEnds, FetchEnds

(* A screen that has one change pending at a time keeps what the comment   *)
(* on the delete mutation says: a watch leaves it only when the user       *)
(* deletes it or when the server says that it is gone.  Several changes    *)
(* pending at once are the one way to break VanishesForAReason.            *)
THEOREM OneAtATimeKeepsWatches ==
    ASSUME MaxTaps = 1
    PROVE  Spec => VanishesForAReason
<1> DEFINE Explained(i) ==
        (Usable /\ Usable' /\ data[i] \in Filed /\ data'[i] \notin Filed) =>
            Len(taps') > Len(taps) \/ FetchArrives
<1>1. ASSUME TypeOK, GoneIsTrue, Next, NEW i \in Ids
      PROVE  Explained(i)
  <2>1. ASSUME NEW j \in Ids, NEW to \in Changes[j], Tap(j, to)
        PROVE  Len(taps') > Len(taps)
    BY <1>1, <2>1 DEF TypeOK, Tap
  <2>2. ASSUME NEW k \in DOMAIN taps, TapFails(k)
        PROVE  Explained(i)
    BY <1>1, <2>2 DEF GoneIsTrue, GoneFrom, TapFails
  <2> QED
    BY <1>1, <2>1, <2>2
       DEF Next, UserActs, TapEnds, FetchEnds, Refetch, Leave, TapSucceeds, FetchFails,
           ServeList, ServeTap, WriteElsewhere
<1>2. TypeOK /\ GoneIsTrue /\ [Next]_vars => [\A i \in Ids : Explained(i)]_vars
  BY <1>1
<1>3. Init => GoneIsTrue
  BY DEF Init, GoneIsTrue, NoFetch
<1>4. TypeOK /\ GoneIsTrue /\ [Next]_vars => GoneIsTrue'
  BY GoneIsTrueStep
<1> QED
  BY <1>2, <1>3, <1>4, TypeCorrect, PTL DEF Spec, VanishesForAReason
====
