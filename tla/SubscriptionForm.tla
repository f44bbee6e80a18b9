--------------------------- MODULE SubscriptionForm ---------------------------
(***************************************************************************)
(* The wizard that files, edits and duplicates a watch                     *)
(* (web/src/screens/SubscriptionForm.tsx, opened and closed by App.tsx),   *)
(* over the rules of FormLogic, and the server that checks its bodies with *)
(* the rules of Domain.  The form may be left while its save is on the way *)
(* and another one opened: a visit is one mounting of the component.       *)
(*                                                                         *)
(* One watch can be edited; others may change or delete it meanwhile.  A   *)
(* request is one step of the server here, how two of them interleave is   *)
(* the matter of Subscriptions.  The toggles that only unfold a picker are *)
(* left out (folding one, which empties its list, is not).                 *)
(***************************************************************************)
EXTENDS FormLogic, SequencesExt

CONSTANTS
    Rows,       \* the watch to edit, as it may be at first
    Elsewhere,  \* PATCH bodies others may send about it
    Errands,    \* Errands[n]: what visit n may be for: a mode, and for every
                \*   input what the user may enter there
    Today,      \* the server's date
    DaySkew,    \* bound: how far the device's date may be from it
    MaxVisits,  \* bound on the forms opened
    PickerAlternatives, PickerExtras    \* max of the two optional pickers

Modes == {"create", "edit", "duplicate"}
Visits == 1 .. MaxVisits
Days == (Today - DaySkew) .. (Today + DaySkew)

ASSUME RowsAssumption ==
    \A s \in Rows : IsSubscription(s) /\ Valid(s) /\ s = [f \in Fields |-> s[f]]
ASSUME ElsewhereAssumption == \A b \in Elsewhere : IsPatchBody(b)
(* 0 is Go's zero date, 1 January of the year 1: nobody enters it. *)
ASSUME ErrandsAssumption ==
    \A n \in Visits : \A e \in Errands[n] :
        /\ e.mode \in Modes
        /\ e.enters = [k \in FormKeys |-> e.enters[k]]
        /\ \A k \in {"origin", "originAlternatives", "destinations"} :
                e.enters[k] \subseteq Airports
        /\ e.enters["roundTrip"] \subseteq BOOLEAN
        /\ \A k \in stepFields[3] \cup {"maxPriceEur"} : e.enters[k] \subseteq Int \cup {Null}
        /\ 0 \notin e.enters["dateFrom"] \cup e.enters["dateTo"]
        /\ e.enters["maxStops"] \subseteq Nat \cup {Null}
        /\ e.enters["alertStrategy"] \subseteq AlertStrategies
ASSUME BoundsAssumption ==
    /\ MaxVisits \in Nat \ {0} /\ DaySkew \in Nat /\ Today - DaySkew > 0
    /\ PickerAlternatives \in 1 .. MaxOriginAlternatives
    /\ PickerExtras \in Nat /\ 1 + PickerExtras <= MaxDestinations
    /\ Today \in Int

(* What the form sends is spelled as the server spells it. *)
ASSUME SpellingAssumption ==
    /\ Airports \subseteq RawCodes /\ \A code \in Airports : Upper[code] = code
    /\ AlertStrategies \subseteq RawWords /\ \A w \in AlertStrategies : Trim[w] = w
    /\ \A n \in {MaxOriginAlternatives, MaxDestinations} : BoundedSeq(Airports, n) \subseteq RawLists

(* What a form and a save are made of, loosely; neither is Null. *)
Watches == [Fields -> Strings \cup Int \cup CodeLists \cup {Null}]
Values ==
    [FormKeys -> Airports \cup Seq(Airports) \cup Int \cup AlertStrategies \cup BOOLEAN
                 \cup {Blank, Null}]
Forms ==
    [mode : Modes, enters : {errand.enters : errand \in UNION {Errands[n] : n \in Visits}},
     source : Watches \cup {Null}, values : Values, step : 1 .. Summary,
     errors : SUBSET ErrorKeys, serverError : BOOLEAN]
Saves ==
    [stage : {"sent", "done", "lost", "refused"}, mode : Modes,
     source : Watches \cup {Null}, values : Values, fields : SUBSET Fields]
ASSUME RecordsAssumption == Null \notin Forms /\ Null \notin Saves

VARIABLES
    row,    \* the server's row of the watch, Null once deleted
    form,   \* the form on the screen, Null while another screen is open
    visit,  \* how many forms have been opened
    saves,  \* saves[n]: the save that visit n has pending, Null if none
    filed   \* history: the visits a create of which was served and not
            \*   reported as failed

vars == <<row, form, visit, saves, filed>>

Init ==
    /\ row \in Rows
    /\ form = Null
    /\ visit = 0
    /\ saves = [n \in Visits |-> Null]
    /\ filed = {}

Open(n) == form # Null /\ visit = n

-----------------------------------------------------------------------------
(* Filling in the form *)

(* onCreate, onEdit and onDuplicate of the list; the watch is as last      *)
(* seen, which is what the row is now or, if others write later, was.      *)
OpenForm(n, errand) ==
    LET source == IF errand.mode = "create" THEN Null ELSE row
    IN  /\ form = Null
        /\ n = visit + 1
        /\ errand.mode = "create" \/ row # Null
        /\ visit' = n
        /\ form' = [mode |-> errand.mode, enters |-> errand.enters, source |-> source,
                    values |-> IF source = Null THEN emptyForm ELSE fromSubscription(source),
                    step |-> 1, errors |-> {}, serverError |-> FALSE]
        /\ UNCHANGED <<row, saves, filed>>

Enter(k, x) == form' = [form EXCEPT !.values[k] = x, !.errors = @ \ {k}]
(* A chip is removed with its cross. *)
Drop(k) == \E i \in DOMAIN form.values[k] : Enter(k, RemoveAt(form.values[k], i))

PickOrigin ==
    IF form.values["origin"] = Blank
    THEN \E code \in form.enters["origin"] : Enter("origin", code)
    ELSE form.enters["origin"] # {} /\ Enter("origin", Blank)

(* Mutant of PickAlternative: what is chosen already is offered again. *)
PickAlternativeAgain ==
    LET chosen == form.values["originAlternatives"]
    IN  \E code \in form.enters["originAlternatives"] \ {form.values["origin"]} :
            /\ Len(chosen) < PickerAlternatives
            /\ Enter("originAlternatives", Append(chosen, code))

PickAlternative ==
    LET chosen == form.values["originAlternatives"]
    IN  \/ \E code \in form.enters["originAlternatives"]
                           \ ({form.values["origin"]} \cup ToSet(chosen)) :
            /\ Len(chosen) < PickerAlternatives
            /\ Enter("originAlternatives", Append(chosen, code))
        \/ /\ form.enters["originAlternatives"] # {}
           /\ \/ Drop("originAlternatives")
              \/ Enter("originAlternatives", <<>>)

(* Two pickers show one list: its first airport, and the rest. *)
PickDestination ==
    LET chosen == form.values["destinations"]
    IN  \/ \E code \in form.enters["destinations"]
                           \ ({form.values["origin"]} \cup ToSet(chosen)) :
            /\ Len(chosen) <= PickerExtras
            /\ Enter("destinations", Append(chosen, code))
        \/ /\ form.enters["destinations"] # {}
           /\ \/ Drop("destinations")
              \/ Len(chosen) > 1 /\ Enter("destinations", SubSeq(chosen, 1, 1))

(* toggleRoundTrip proposes a week after the last day of departure. *)
ToggleRoundTrip(on) ==
    LET v == form.values
        proposed == on /\ ~Given(v["returnDateFrom"]) /\ Given(v["dateTo"])
        week == [v EXCEPT !["roundTrip"] = on, !["returnDateFrom"] = v["dateTo"],
                          !["returnDateTo"] = v["dateTo"] + 7]
    IN  form' = [form EXCEPT
                    !.values = IF proposed THEN week ELSE [v EXCEPT !["roundTrip"] = on],
                    !.errors = @ \ {"returnDateFrom", "returnDateTo"}]

(* The plain inputs that are on the screen. *)
Inputs ==
    {k \in stepFields[form.step] \ {"origin", "originAlternatives", "destinations"} :
        /\ k \in {"returnDateFrom", "returnDateTo"} => form.values["roundTrip"]
        /\ k = "maxPriceEur" => form.values["alertStrategy"] = "absolute_threshold"}

FillIn ==
    /\ form # Null
    /\ \/ form.step = 1 /\ (PickOrigin \/ PickAlternative)
       \/ form.step = 2 /\ PickDestination
       \/ /\ form.step = 3
          /\ \E on \in form.enters["roundTrip"] \ {form.values["roundTrip"]} : ToggleRoundTrip(on)
       \/ \E k \in Inputs : \E x \in form.enters[k] \ {form.values[k]} : Enter(k, x)
    /\ UNCHANGED <<row, visit, saves, filed>>

-----------------------------------------------------------------------------
(* Turning the pages *)

(* Mutant of Advance: the button stays enabled. *)
AdvanceAlways == form # Null

(* The primary button: disabled while this visit's save is pending. *)
Advance == form # Null /\ saves[visit] = Null

PageErrors(day) == validate(form.values, day) \cap stepFields[form.step]

NextPage(day) ==
    /\ Advance /\ form.step < Summary
    /\ PageErrors(day) = {}
    /\ form' = [form EXCEPT !.errors = {}, !.step = @ + 1]
    /\ UNCHANGED <<row, visit, saves, filed>>

NextRefused(day) ==
    /\ Advance /\ form.step < Summary
    /\ PageErrors(day) # {}
    /\ form' = [form EXCEPT !.errors = PageErrors(day)]
    /\ UNCHANGED <<row, visit, saves, filed>>

(* Back, or a tap on an earlier part of the step scale. *)
GoBack(step) ==
    /\ form # Null /\ step < form.step
    /\ form' = [form EXCEPT !.step = step]
    /\ UNCHANGED <<row, visit, saves, filed>>

(* Cancel on the first page: onDone. *)
Leave ==
    /\ form # Null /\ form.step = 1
    /\ form' = Null
    /\ UNCHANGED <<row, visit, saves, filed>>

ConfirmRefused(day) ==
    LET errors == validate(form.values, day)
    IN  /\ Advance /\ form.step = Summary
        /\ errors # {}
        /\ form' = [form EXCEPT !.errors = errors, !.serverError = FALSE,
                                !.step = FirstInvalidStep(errors)]
        /\ UNCHANGED <<row, visit, saves, filed>>

Body(s) ==
    IF s.mode = "edit" THEN toPatchPayload(s.values, s.source) ELSE toCreatePayload(s.values)

Confirmed(day) == Advance /\ form.step = Summary /\ validate(form.values, day) = {}

ConfirmUnchanged(day) ==
    /\ Confirmed(day)
    /\ form.mode = "edit" /\ DOMAIN Body(form) = {}
    /\ form' = Null
    /\ UNCHANGED <<row, visit, saves, filed>>

ConfirmSave(day) ==
    /\ Confirmed(day)
    /\ form.mode = "edit" => DOMAIN Body(form) # {}
    /\ form' = [form EXCEPT !.errors = {}, !.serverError = FALSE]
    /\ saves' = [saves EXCEPT ![visit] =
                    [stage |-> "sent", mode |-> form.mode, source |-> form.source,
                     values |-> form.values, fields |-> {}]]
    /\ UNCHANGED <<row, visit, filed>>

-----------------------------------------------------------------------------
(* The server *)

Written(s) ==
    IF s.mode = "edit" THEN MergePatch(row, Body(s)) ELSE FromCreateBody(Body(s))

(* The fields of the 400; validateSubscription asks for freshness last. *)
RefusedFields(s) ==
    IF s.mode = "edit" /\ NullErrors(Body(s)) # {} THEN NullErrors(Body(s))
    ELSE IF ~Valid(Written(s)) THEN Validate(Written(s))
    ELSE IF s.mode = "edit" THEN {} ELSE ValidateFresh(Written(s), Today)

Served(n, stage, fields) ==
    saves' = [saves EXCEPT ![n].stage = stage, ![n].fields = fields]

Sending(n) == saves[n] # Null /\ saves[n].stage = "sent"
NotFound(n) == saves[n].mode = "edit" /\ row = Null

ServeNothing(n) ==
    /\ Sending(n) /\ NotFound(n)
    /\ Served(n, "lost", {})
    /\ UNCHANGED <<row, form, visit, filed>>

ServeRefusal(n) ==
    /\ Sending(n) /\ ~NotFound(n)
    /\ RefusedFields(saves[n]) # {}
    /\ Served(n, "refused", RefusedFields(saves[n]))
    /\ UNCHANGED <<row, form, visit, filed>>

ServeSave(n) ==
    /\ Sending(n) /\ ~NotFound(n)
    /\ RefusedFields(saves[n]) = {}
    /\ Served(n, "done", {})
    /\ IF saves[n].mode = "edit"
       THEN row' = Written(saves[n]) /\ UNCHANGED filed
       ELSE filed' = filed \cup {n} /\ UNCHANGED row
    /\ UNCHANGED <<form, visit>>

WriteElsewhere(b) ==
    /\ row # Null
    /\ NullErrors(b) = {} /\ Valid(MergePatch(row, b))
    /\ row' = MergePatch(row, b)
    /\ UNCHANGED <<form, visit, saves, filed>>

DeleteElsewhere ==
    /\ row # Null
    /\ row' = Null
    /\ UNCHANGED <<form, visit, saves, filed>>

-----------------------------------------------------------------------------
(* The answers.  A save outlives its form; what it does to a form that is  *)
(* gone is lost, but onDone shows the list whichever screen is open.       *)

Ended(n) == saves' = [saves EXCEPT ![n] = Null]

SaveSucceeds(n) ==
    /\ saves[n] # Null /\ saves[n].stage = "done"
    /\ Ended(n)
    /\ form' = Null
    /\ UNCHANGED <<row, visit, filed>>

(* Mutant of Refuse: the page stays the one the user is on. *)
RefuseInPlace(fields) ==
    [form EXCEPT !.errors = Mapped(fields), !.serverError = Unmapped(fields) # {}]

Refuse(fields) ==
    [form EXCEPT !.errors = Mapped(fields),
                 !.step = IF Mapped(fields) = {} THEN @ ELSE FirstInvalidStep(Mapped(fields)),
                 !.serverError = Unmapped(fields) # {}]

SaveRefused(n) ==
    /\ saves[n] # Null /\ saves[n].stage = "refused"
    /\ Ended(n)
    /\ form' = IF Open(n) THEN Refuse(saves[n].fields) ELSE form
    /\ UNCHANGED <<row, visit, filed>>

(* Mutant of SaveFails: the form closes whatever the outcome. *)
SaveFailsClosing(n) ==
    /\ saves[n] # Null
    /\ Ended(n)
    /\ form' = Null
    /\ filed' = filed \ {n}
    /\ UNCHANGED <<row, visit>>

(* A 404, a 500, or no answer, whether the server has served it or not. *)
SaveFails(n) ==
    /\ saves[n] # Null
    /\ Ended(n)
    /\ form' = IF Open(n) THEN [form EXCEPT !.serverError = TRUE] ELSE form
    /\ filed' = filed \ {n}
    /\ UNCHANGED <<row, visit>>

SaveEnds(n) == SaveSucceeds(n) \/ SaveRefused(n) \/ SaveFails(n)

UserActs ==
    \/ \E n \in Visits : \E errand \in Errands[n] : OpenForm(n, errand)
    \/ FillIn
    \/ \E step \in 1 .. Summary : GoBack(step)
    \/ Leave
    \/ \E day \in Days :
            \/ NextPage(day) \/ NextRefused(day)
            \/ ConfirmRefused(day) \/ ConfirmUnchanged(day) \/ ConfirmSave(day)

Next ==
    \/ UserActs
    \/ \E n \in Visits : ServeNothing(n) \/ ServeRefusal(n) \/ ServeSave(n) \/ SaveEnds(n)
    \/ \E b \in Elsewhere : WriteElsewhere(b)
    \/ DeleteElsewhere

(* Nothing obliges a request to end, or a user to act. *)
Spec == Init /\ [][Next]_vars

-----------------------------------------------------------------------------
(* Properties *)

NoRepeats(list) == \A i, j \in DOMAIN list : list[i] = list[j] => i = j

(* What the form may hold: airports the pickers offer, each once, never    *)
(* more than a list may have.                                              *)
FormValues(v) ==
    /\ IsFormValues(v)
    /\ NoRepeats(v["originAlternatives"]) /\ NoRepeats(v["destinations"])
    /\ Len(v["originAlternatives"]) <= MaxOriginAlternatives
    /\ Len(v["destinations"]) <= MaxDestinations

IsForm(f) ==
    /\ f.mode \in Modes /\ FormValues(f.values)
    /\ f.step \in 1 .. Summary /\ f.errors \subseteq ErrorKeys
    /\ f.serverError \in BOOLEAN
    /\ (f.source = Null) = (f.mode = "create")

IsSave(s) ==
    /\ s.mode \in Modes /\ FormValues(s.values)
    /\ s.stage \in {"sent", "done", "lost", "refused"} /\ s.fields \subseteq Fields
    /\ (s.source = Null) = (s.mode = "create")
    /\ (s.stage = "refused") = (s.fields # {})

(* The row is a valid watch, the form and the saves hold what the inputs   *)
(* can produce, and only a visit that was made saves anything.             *)
TypeOK ==
    /\ row # Null => IsSubscription(row) /\ Valid(row)
    /\ visit \in 0 .. MaxVisits
    /\ form # Null => visit > 0 /\ IsForm(form)
    /\ DOMAIN saves = Visits
    /\ \A n \in Visits : saves[n] # Null => n <= visit /\ IsSave(saves[n])
    /\ filed \subseteq 1 .. visit

(* Every field the server can refuse in a body of this form has an input   *)
(* to show it on (serverFieldMap): the notice for fields the form does not *)
(* expose never appears, however the watch was made or changed.            *)
RefusalsMapped ==
    \A n \in Visits : saves[n] # Null => Unmapped(saves[n].fields) = {}

(* The form's own validation is complete: the server refuses what it let   *)
(* through only when the origin was changed to one of the alternatives,    *)
(* when the watch has changed since the form was opened, or when its last  *)
(* day is over by the server's date.                                       *)
NothingInvalidGetsThrough ==
    \A n \in Visits :
        Sending(n) /\ ~NotFound(n) /\ RefusedFields(saves[n]) # {} =>
            \/ Mentions(saves[n].values["originAlternatives"], saves[n].values["origin"])
            \/ saves[n].mode = "edit" /\ row # saves[n].source
            \/ saves[n].mode # "edit" /\ saves[n].values["dateTo"] < Today

(* ... and it mirrors the server's rules: what it complains about, the     *)
(* server would refuse too, on the same input, but for five demands of its *)
(* own: both dates, both return dates of a round trip, whole euros, a      *)
(* ceiling that does not round to nothing, and freshness of edits as well. *)
OwnDemand(k, v) ==
    \/ k = "dateFrom"
    \/ k = "returnDateFrom" /\ ~Given(v["returnDateFrom"]) /\ ~Given(v["returnDateTo"])
    \/ k = "maxPriceEur" /\ Given(v["maxPriceEur"]) /\ v["maxPriceEur"] % 100 # 0
    \/ /\ form.mode = "edit"
       /\ \/ k = "maxPriceEur" /\ v["maxPriceEur"] = 0
          \/ k = "dateTo" /\ v["dateTo"] >= v["dateFrom"]
ComplaintsAreServerRules ==
    form # Null =>
        LET body == Body(form)
            watch == IF form.mode = "edit" THEN MergePatch(form.source, body)
                     ELSE FromCreateBody(body)
            refused == IF form.mode = "edit" THEN Validate(watch)
                       ELSE Validate(watch) \cup ValidateFresh(watch, Today)
        IN  \A k \in validate(form.values, Today) :
                OwnDemand(k, form.values) \/ k \in Mapped(refused)

(* What was typed is what is stored: a watch opened again after a save     *)
(* shows the same values, the columns the form does not show and the cents *)
(* of a ceiling that was left alone are as before (toPatchPayload,         *)
(* fromSubscription, mergePatch).                                          *)
EditsRoundTrip ==
    \A n \in Visits :
        LET s == saves[n]
            typed == [k \in FormKeys |->
                        IF k \in {"returnDateFrom", "returnDateTo"} /\ ~s.values["roundTrip"]
                        THEN Null ELSE s.values[k]]
        IN  Sending(n) /\ ~NotFound(n) /\ RefusedFields(s) = {} =>
                /\ (s.mode = "edit" => row = s.source) => fromSubscription(Written(s)) = typed
                /\ s.mode = "edit" =>
                    /\ \A f \in Fields \ FormColumns : Written(s)[f] = row[f]
                    /\ s.values["maxPriceEur"] = fromSubscription(s.source)["maxPriceEur"] =>
                          Written(s)["max_price_minor"] = row["max_price_minor"]

(* An error is on a page that shows it, at the input it is about.          *)
ShowsError(f, k) ==
    \/ k \in {"origin", "destinations", "dateFrom", "dateTo"}
    \/ k \in {"returnDateFrom", "returnDateTo"} /\ f.values["roundTrip"]
    \/ k = "maxPriceEur" /\ f.values["alertStrategy"] = "absolute_threshold"

(* When an input is refused, by the form or by the server, the user is put *)
(* on a page the refusal is about, and sees it at the input.  The code has *)
(* four exceptions: the picker of alternative origins gets no error, the   *)
(* price is hidden under the other strategy, and the return dates are when *)
(* the save is of a one-way trip that others made a round trip, or when    *)
(* the round trip was switched off while the save was pending.             *)
RefusalIsShown ==
    [][form # Null /\ form' # Null /\ ~(form'.errors \subseteq form.errors) =>
          /\ form'.errors \cap stepFields[form'.step] # {}
          /\ \A k \in form'.errors :
                \/ ShowsError(form', k)
                \/ k = "originAlternatives"
                \/ k = "maxPriceEur" /\ form'.values["alertStrategy"] = "historical_minimum"
                \/ /\ k \in {"returnDateFrom", "returnDateTo"}
                   /\ form.mode = "edit" /\ saves[visit] # Null
                   /\ \/ ~Given(form.source["return_date_from"])
                      \/ saves[visit].values["roundTrip"]]_vars

(* A form closes only on its first page, with nothing changed, or because  *)
(* a save was stored; a failure never takes away what was entered.         *)
ClosesForAReason ==
    [][form # Null /\ form' = Null =>
          \/ form.step = 1
          \/ form.mode = "edit" /\ DOMAIN Body(form) = {}
          \/ \E n \in Visits : saves[n] # Null /\ saves[n].stage = "done"]_vars

(* One visit files one watch: as long as no failure was reported, a second *)
(* create is never on the way.                                             *)
FiledOnce ==
    \A n \in filed : saves[n] # Null => saves[n].stage = "done"
=============================================================================
