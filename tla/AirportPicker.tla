----------------------------- MODULE AirportPicker -----------------------------
(***************************************************************************)
(* The airport autocomplete of the wizard                                  *)
(* (web/src/components/AirportPicker.tsx): a text field whose query is     *)
(* sent 250 ms after the last keystroke, a list of suggestions that hides  *)
(* 150 ms after the field loses the focus, and chips for what is chosen.   *)
(* Timers have no clock here: a running timer may fire at any time.  The   *)
(* answers come from AirportSearch, through TanStack Query's cache.        *)
(***************************************************************************)
EXTENDS AirportSearch

CONSTANTS
    all, popular,   \* the server's dataset and browse list
    Texts,          \* what the user may type
    exclude,        \* codes that must not be offered
    max,            \* airports that may be chosen
    MaxBlurs        \* bound on the blur timers running at once

ASSUME PickerAssumption ==
    /\ IsDataset(all) /\ IsFiniteSet(exclude)
    /\ \A i, j \in DOMAIN all : all[i].iata = all[j].iata => i = j
    /\ Texts \subseteq Seq(Chars) /\ <<>> \in Texts
    /\ \A t \in Texts : TrimSpace(t) \in Texts
    /\ max \in Nat \ {0} /\ MaxBlurs \in Nat

VARIABLES
    query,      \* the text in the field
    debounced,  \* the trimmed text the suggestions are fetched for
    inside,     \* the field has the browser's focus
    focused,    \* what the component believes of it
    blurs,      \* blur timers running; none is ever cleared
    fetches,    \* fetches[t]: the state of the cached query for text t
    selected,   \* the codes chosen
    hasty       \* history: the field got the focus while a blur timer ran

vars == <<query, debounced, inside, focused, blurs, fetches, selected, hasty>>

Init ==
    /\ query = <<>> /\ debounced = <<>>
    /\ inside = FALSE /\ focused = FALSE
    /\ blurs = 0
    /\ fetches = [t \in Texts |-> "none"]
    /\ selected = <<>>
    /\ hasty = FALSE

-----------------------------------------------------------------------------
(* What is on the screen *)

Answers == [t \in Texts |-> Codes(HandleSearchAirports(all, popular, t))]

(* Mutant of Suggestions: what is chosen already is offered again. *)
SuggestionsUnfiltered ==
    IF fetches[debounced] = "loaded" THEN Answers[debounced] \ exclude ELSE {}

Suggestions ==
    IF fetches[debounced] = "loaded" THEN Answers[debounced] \ (ToSet(selected) \cup exclude)
    ELSE {}

atCapacity == Len(selected) >= max
showList == focused /\ ~atCapacity
noMatches == showList /\ TrimSpace(query) # <<>> /\ Suggestions = {}

(* useQuery: enabling the query, or another key, fetches what is missing.  *)
Fetching(on, t) ==
    IF on /\ fetches[t] \in {"none", "failed"} THEN [fetches EXCEPT ![t] = "loading"]
    ELSE fetches

-----------------------------------------------------------------------------
(* The user *)

Focus ==
    /\ ~inside /\ ~atCapacity
    /\ inside' = TRUE /\ focused' = TRUE
    /\ fetches' = IF focused THEN fetches ELSE Fetching(TRUE, debounced)
    /\ hasty' = (blurs > 0)
    /\ UNCHANGED <<query, debounced, blurs, selected>>

Blur ==
    /\ inside /\ blurs < MaxBlurs
    /\ inside' = FALSE
    /\ blurs' = blurs + 1
    /\ UNCHANGED <<query, debounced, focused, fetches, selected, hasty>>

Type(t) ==
    /\ inside /\ t # query
    /\ query' = t
    /\ UNCHANGED <<debounced, inside, focused, blurs, fetches, selected, hasty>>

(* Mutant of Pick: the list closes, the field keeps the focus. *)
PickClosing(code) ==
    /\ showList /\ code \in Suggestions
    /\ selected' = Append(selected, code)
    /\ query' = <<>>
    /\ inside' = (inside /\ Len(selected) + 1 < max)
    /\ focused' = FALSE
    /\ UNCHANGED <<debounced, blurs, fetches, hasty>>

(* A tap on a suggestion.  Where tapping a button moves the focus, Blur    *)
(* comes first.  At capacity the field is removed, without a blur event.   *)
Pick(code) ==
    /\ showList /\ code \in Suggestions
    /\ selected' = Append(selected, code)
    /\ query' = <<>>
    /\ inside' = (inside /\ Len(selected) + 1 < max)
    /\ UNCHANGED <<debounced, focused, blurs, fetches, hasty>>

Unpick(i) ==
    /\ selected' = RemoveAt(selected, i)
    /\ UNCHANGED <<query, debounced, inside, focused, blurs, fetches, hasty>>

-----------------------------------------------------------------------------
(* Timers and answers *)

(* Mutant of Debounce: only focusing the field fetches. *)
DebounceQuietly ==
    /\ debounced # TrimSpace(query)
    /\ debounced' = TrimSpace(query)
    /\ UNCHANGED <<query, inside, focused, blurs, fetches, selected, hasty>>

(* useDebounced: a keystroke clears the timer and sets another. *)
Debounce ==
    /\ debounced # TrimSpace(query)
    /\ debounced' = TrimSpace(query)
    /\ fetches' = Fetching(focused, debounced')
    /\ UNCHANGED <<query, inside, focused, blurs, selected, hasty>>

BlurTimer ==
    /\ blurs > 0
    /\ blurs' = blurs - 1
    /\ focused' = FALSE
    /\ UNCHANGED <<query, debounced, inside, fetches, selected, hasty>>

(* Window focus and reconnection fetch again what failed. *)
Refetch ==
    /\ focused /\ fetches[debounced] = "failed"
    /\ fetches' = Fetching(TRUE, debounced)
    /\ UNCHANGED <<query, debounced, inside, focused, blurs, selected, hasty>>

(* An answer, or the failure of the last retry. *)
FetchEnds(t) ==
    /\ fetches[t] = "loading"
    /\ \E end \in {"loaded", "failed"} : fetches' = [fetches EXCEPT ![t] = end]
    /\ UNCHANGED <<query, debounced, inside, focused, blurs, selected, hasty>>

UserActs ==
    \/ Focus
    \/ Blur
    \/ \E t \in Texts : Type(t)
    \/ \E code \in Codes(all) : Pick(code)
    \/ \E i \in DOMAIN selected : Unpick(i)

Next ==
    \/ UserActs
    \/ Debounce
    \/ BlurTimer
    \/ Refetch
    \/ \E t \in Texts : FetchEnds(t)

(* Timers fire, and a fetch() that the browser has started ends.           *)
Spec ==
    /\ Init /\ [][Next]_vars
    /\ WF_vars(Debounce) /\ WF_vars(BlurTimer)
    /\ \A t \in Texts : WF_vars(FetchEnds(t))

-----------------------------------------------------------------------------
(* Properties *)

(* The chosen airports exist, may be offered, are chosen once, and are no  *)
(* more than allowed, whatever list was on the screen when one was picked. *)
TypeOK ==
    /\ query \in Texts /\ debounced \in Texts
    /\ inside \in BOOLEAN /\ focused \in BOOLEAN /\ hasty \in BOOLEAN
    /\ blurs \in 0 .. MaxBlurs
    /\ fetches \in [Texts -> {"none", "loading", "loaded", "failed"}]
    /\ selected \in Seq(Codes(all) \ exclude)
    /\ Len(selected) <= max
    /\ \A i, j \in DOMAIN selected : selected[i] = selected[j] => i = j

(* Focusing the field shows the list, and it stays while the field has the *)
(* focus.  The code has one exception: the field gets the focus back       *)
(* within 150 ms of losing it, and the timer hides the list under it.      *)
FocusShowsList == inside /\ ~hasty => showList

(* "No airport matches" is the truth about the text in the field, even     *)
(* while the query lags behind it, and about the whole dataset: all that   *)
(* match are chosen or excluded.  The list may say it too early before the *)
(* results are in, and when the text was not just typed on from one that   *)
(* folds to something; and wrongly when there were more results than an    *)
(* answer holds, but only in a picker where as many airports as it holds   *)
(* are chosen or excluded: never in those of the origin and of its         *)
(* alternatives, which have at most five of those against eight.           *)
NoMatchesIsTrue ==
    noMatches =>
        \/ fetches[debounced] # "loaded"
        \/ ~IsPrefix(debounced, TrimSpace(query)) \/ Folded(debounced) = <<>>
        \/ /\ Cardinality(Hits(all, debounced)) > SearchLimit
           /\ Len(selected) + Cardinality(exclude) >= SearchLimit
        \/ \A i \in Hits(all, TrimSpace(query)) : all[i].iata \in ToSet(selected) \cup exclude

(* When the user rests in the field, the list catches up with the text:    *)
(* what is offered, or the failure, is the answer to what was typed.       *)
UpToDate == debounced = TrimSpace(query) /\ fetches[debounced] \in {"loaded", "failed"}
CatchesUp == []<><<UserActs>>_vars \/ []<><<Refetch>>_vars \/ <>[](showList => UpToDate)
=============================================================================
