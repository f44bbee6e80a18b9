---------------------------- MODULE SettingsScreen ----------------------------
(***************************************************************************)
(* The settings screen of the Mini App (web/src/screens/SettingsScreen.tsx *)
(* over TanStack Query) against GET and PATCH /api/v1/me                   *)
(* (internal/api/me.go).  One device is modelled in full: what it has      *)
(* loaded, what its user has typed, its requests in flight.  Other devices *)
(* of the same user appear as the PATCHes that are served for them.        *)
(*                                                                         *)
(* The screen and the server share nothing but messages: a reply may be    *)
(* lost, and replies to different requests may arrive in any order.  The   *)
(* two handlers are a single SQL statement each.                           *)
(*                                                                         *)
(* Numbers stand for themselves, a percentage in tenths of a percent, as   *)
(* AlertSettings has the ratios: 20.5 in the field, 0.205 on the wire and  *)
(* in the row are all 205.  Two spellings of a number are one.             *)
(***************************************************************************)
EXTENDS AlertSettings, SequencesExt

CONSTANTS
    Params,         \* the fields of the screen that the instance follows
    Typed,          \* Typed[p]: what the user may type into field p; Null
                    \*   is the empty input
    FallsShort,     \* halves of a percent that Math.round rounds down, for
                    \*   the float below them: 14.5, 28.5, 56.5, 57.5, ...
    BadNumber,      \* a number that Go's int32 refuses, e.g. 1.5
    OtherBodies,    \* PATCH bodies served that this device does not wait for
    MaxSaves        \* bound on this device's saves in flight

ASSUME ParamsAssumption == Params \subseteq AlertParams
ASSUME TypedAssumption ==
    \A p \in Params : Typed[p] \subseteq Int \cup {Null}
                                   \cup (IF p = "cooldown_hours" THEN {BadNumber} ELSE {})
ASSUME NumbersAssumption ==
    /\ Null \notin Int /\ BadNumber \notin Int
    /\ \A P \in SUBSET AlertParams : Null \notin [P -> Int \cup {Null, BadNumber}]
ASSUME OtherBodiesAssumption ==
    \A body \in OtherBodies : \A p \in AlertParams \cap DOMAIN body :
        body[p] \in Int \cup {Null}
ASSUME MaxSavesAssumption == MaxSaves \in Nat

VARIABLES
    settings,   \* the user's row of user_settings, Null while there is none
    data,       \* the query cache: the row last received, or Null
    failed,     \* the last fetch of the query failed
    fetch,      \* the GET in flight: its stage, and the reply once served
    mounted,    \* the settings tab is open
    edited,     \* the values typed on top of data, Null while untouched
    saves,      \* the PATCHes in flight, oldest first
    seen        \* history: what the form showed when edited was last Null,
                \*   in the fields that were not typed into since

vars == <<settings, data, failed, fetch, mounted, edited, saves, seen>>

-----------------------------------------------------------------------------
(* Conversions *)

(* Math.round(ratio * 100). *)
Percent(x) ==
    IF x % 10 = 5 /\ x \in FallsShort THEN x \div 10 ELSE (x + 5) \div 10

(* What field p shows of a value: whole percents of a ratio. *)
Shown(p, x) == IF x = Null \/ p = "cooldown_hours" THEN x ELSE 10 * Percent(x)

fromSettings(row) == [p \in Params |-> Shown(p, row[p])]

(* Only the fields that differ from the loaded row go on the wire. *)
toPatch(v, orig) == [p \in {q \in Params : v[q] # orig[q]} |-> v[p]]

original == fromSettings(data)
values == IF edited = Null THEN original ELSE edited

-----------------------------------------------------------------------------

NoFetch == [stage |-> "none", reply |-> Null]

(* A PATCH in flight.  own: the screen that sent it is still mounted, so   *)
(* its answer clears what that screen holds in edited.                     *)
Sent(body) == [stage |-> "sent", own |-> TRUE, body |-> body, reply |-> Null]

Init ==
    /\ settings = Null
    /\ data = Null
    /\ failed = FALSE
    /\ fetch = NoFetch
    /\ mounted = FALSE
    /\ edited = Null
    /\ saves = <<>>
    /\ seen = <<>>

(* The form is shown once a row is loaded and the last fetch succeeded. *)
Usable == mounted /\ data # Null /\ ~failed

isPending == \E i \in DOMAIN saves : saves[i].own

-----------------------------------------------------------------------------
(* The screen *)

(* Opening the tab, or refocusing the window: the cached row is stale at   *)
(* once, so it is refetched unless a fetch is in flight already.           *)
Refetch ==
    /\ mounted' = TRUE
    /\ fetch' = IF fetch = NoFetch THEN [NoFetch EXCEPT !.stage = "sent"] ELSE fetch
    /\ UNCHANGED <<settings, data, failed, edited, saves, seen>>

(* Mutant of Leave: what was typed survives the visit. *)
LeaveKeepingEdits ==
    /\ mounted
    /\ mounted' = FALSE
    /\ saves' = [i \in DOMAIN saves |-> [saves[i] EXCEPT !.own = FALSE]]
    /\ UNCHANGED <<settings, data, failed, fetch, edited, seen>>

(* Leaving the tab drops the screen's state; requests in flight go on.     *)
Leave ==
    /\ mounted
    /\ mounted' = FALSE
    /\ edited' = Null /\ seen' = <<>>
    /\ saves' = [i \in DOMAIN saves |-> [saves[i] EXCEPT !.own = FALSE]]
    /\ UNCHANGED <<settings, data, failed, fetch>>

(* What is left of seen when the user types into field p. *)
SeenBut(p) ==
    LET before == IF edited = Null THEN original ELSE seen
    IN  [q \in DOMAIN before \ {p} |-> before[q]]

(* Mutant of Type: the fields not typed into are left blank. *)
TypeOverBlanks(p, v) ==
    /\ Usable
    /\ v # values[p]
    /\ edited' = [q \in Params |-> IF q = p THEN v ELSE Null]
    /\ seen' = SeenBut(p)
    /\ UNCHANGED <<settings, data, failed, fetch, mounted, saves>>

(* Typing into one field copies the other fields as they are shown. *)
Type(p, v) ==
    /\ Usable
    /\ v # values[p]
    /\ edited' = [values EXCEPT ![p] = v]
    /\ seen' = SeenBut(p)
    /\ UNCHANGED <<settings, data, failed, fetch, mounted, saves>>

Save ==
    /\ Usable
    /\ toPatch(values, original) # <<>>
    /\ ~isPending
    /\ Len(saves) < MaxSaves
    /\ saves' = Append(saves, Sent(toPatch(values, original)))
    /\ UNCHANGED <<settings, data, failed, fetch, mounted, edited, seen>>

(* The GET's reply, or its failure, reaches the query cache.               *)
FetchArrives ==
    /\ fetch.stage = "served"
    /\ data' = fetch.reply
    /\ failed' = FALSE
    /\ fetch' = NoFetch
    /\ UNCHANGED <<settings, mounted, edited, saves, seen>>

(* The GET fails, before or after it was served.  The query retries a few  *)
(* times before it gives up.                                               *)
FetchFails ==
    /\ fetch.stage # "none"
    /\ \/ fetch' = [NoFetch EXCEPT !.stage = "sent"] /\ UNCHANGED failed
       \/ fetch' = NoFetch /\ failed' = TRUE
    /\ UNCHANGED <<settings, data, mounted, edited, saves, seen>>

(* Mutant of SaveArrives: it clears edited whichever screen sent the save. *)
SaveArrivesAnywhere(i) ==
    /\ saves[i].stage = "served"
    /\ data' = saves[i].reply
    /\ failed' = FALSE
    /\ edited' = Null /\ seen' = <<>>
    /\ saves' = RemoveAt(saves, i)
    /\ UNCHANGED <<settings, fetch, mounted>>

(* A save's row goes to the cache, and the screen that sent it forgets     *)
(* what was typed.                                                         *)
SaveArrives(i) ==
    /\ saves[i].stage = "served"
    /\ data' = saves[i].reply
    /\ failed' = FALSE
    /\ IF saves[i].own THEN edited' = Null /\ seen' = <<>>
                       ELSE UNCHANGED <<edited, seen>>
    /\ saves' = RemoveAt(saves, i)
    /\ UNCHANGED <<settings, fetch, mounted>>

(* A save that is refused, or whose answer does not come, keeps edited.    *)
(* If its request is still on the way then, and is served after all, that  *)
(* is a ServeOther: nobody here waits for it.                              *)
SaveFails(i) ==
    /\ saves' = RemoveAt(saves, i)
    /\ UNCHANGED <<settings, data, failed, fetch, mounted, edited, seen>>

-----------------------------------------------------------------------------
(* The server *)

(* handleGetMe *)
ServeGet ==
    /\ fetch.stage = "sent"
    /\ settings' = EnsureUserSettings(settings)
    /\ fetch' = [stage |-> "served", reply |-> settings']
    /\ UNCHANGED <<data, failed, mounted, edited, saves, seen>>

(* The body decodes. *)
Decodes(body) == \A p \in DOMAIN body : body[p] # BadNumber

(* handlePatchMe.  A body that does not decode gets a 400: SaveFails. *)
ServePatch(i) ==
    /\ saves[i].stage = "sent"
    /\ Decodes(saves[i].body)
    /\ settings' = UpdateUserSettings(settings, saves[i].body)
    /\ saves' = [saves EXCEPT ![i].stage = "served", ![i].reply = settings']
    /\ UNCHANGED <<data, failed, fetch, mounted, edited, seen>>

(* handlePatchMe, for a PATCH that this device does not wait for: another  *)
(* device's, or a save this device has already seen fail.                  *)
ServeOther(body) ==
    /\ settings' = UpdateUserSettings(settings, body)
    /\ UNCHANGED <<data, failed, fetch, mounted, edited, saves, seen>>

Next ==
    \/ Refetch
    \/ Leave
    \/ \E p \in Params : \E v \in Typed[p] : Type(p, v)
    \/ Save
    \/ FetchArrives
    \/ FetchFails
    \/ \E i \in DOMAIN saves : SaveArrives(i) \/ SaveFails(i) \/ ServePatch(i)
    \/ ServeGet
    \/ \E body \in OtherBodies : ServeOther(body)

(* Nothing obliges a request to end, or a user to act. *)
Spec == Init /\ [][Next]_vars

-----------------------------------------------------------------------------
(* Properties *)

IsSettings(row) == row \in [AlertParams -> Int \cup {Null}]
IsForm(v) == DOMAIN v = Params /\ \A p \in Params : v[p] \in Int \cup {Null, BadNumber}
IsSave(s) ==
    /\ s.stage \in {"sent", "served"}
    /\ s.own => mounted
    /\ s.body # <<>> /\ DOMAIN s.body \subseteq Params
    /\ s.stage = "served" <=> s.reply # Null

(* Rows and forms hold what they should, at most one save belongs to the   *)
(* screen that is open, and only an open screen has anything typed.        *)
TypeOK ==
    /\ \A row \in {settings, data, fetch.reply} : row = Null \/ IsSettings(row)
    /\ failed \in BOOLEAN /\ mounted \in BOOLEAN
    /\ fetch.stage \in {"none", "sent", "served"}
    /\ fetch.stage = "served" <=> fetch.reply # Null
    /\ edited # Null => IsForm(edited) /\ mounted
    /\ Len(saves) <= MaxSaves
    /\ \A i \in DOMAIN saves : IsSave(saves[i])
    /\ \A i, j \in DOMAIN saves : saves[i].own /\ saves[j].own => i = j

(* The row that answers a save shows, in each field that was sent, what    *)
(* the user typed, whoever else writes meanwhile: the number itself when   *)
(* it is whole, and else a percent half a percent away at most.            *)
SavedShowsAsTyped ==
    \A i \in DOMAIN saves : saves[i].stage = "served" =>
        \A p \in DOMAIN saves[i].body :
            LET typed == saves[i].body[p]
                whole == p = "cooldown_hours" \/ typed = Null \/ typed % 10 = 0
            IN  fromSettings(saves[i].reply)[p] \in
                    IF whole THEN {typed} ELSE typed - 5 .. typed + 5

(* What the user typed goes only when the user leaves, or when a save that *)
(* this very screen sent has been stored: never because of a reply to an   *)
(* earlier visit of the screen, a refetch or a failed save.                *)
EditsKept ==
    [][edited # Null /\ edited' = Null =>
          \/ ~mounted'
          \/ \E i \in DOMAIN saves :
                saves[i].own /\ saves[i].stage = "served" /\ saves' = RemoveAt(saves, i)]_vars

(* A save carries, beside what the user typed, nothing but fields that     *)
(* changed under his edits, and puts those back to what he saw when he     *)
(* began: whatever is refetched or answered between typing and saving.     *)
SentWasTypedOrSeen ==
    Usable =>
        LET body == toPatch(values, original)
        IN  \A p \in DOMAIN body \cap DOMAIN seen :
                body[p] = seen[p] /\ seen[p] # original[p]

(* What the comment on toPatch says, "only changed keys go on the wire": a *)
(* save never names a field that its user does not type into.  The code    *)
(* breaks it: typing into one field copies the others as shown, and when   *)
(* the row under them changes, the copies look like changes and undo what  *)
(* was stored.                                                             *)
UntouchedKeysUnsent ==
    \A i \in DOMAIN saves : \A p \in DOMAIN saves[i].body : Typed[p] # {}

(* What the design promises, "ranges/enums validated before persisting":   *)
(* stored parameters are in bounds.  PATCH /me validates nothing.          *)
StoredInBounds ==
    settings # Null => \A p \in AlertParams : InBounds(p, settings[p])
=============================================================================
