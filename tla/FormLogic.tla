------------------------------- MODULE FormLogic -------------------------------
(***************************************************************************)
(* The pure logic of the subscription wizard                               *)
(* (web/src/lib/subscriptionForm.ts): the values of the form, what its own *)
(* validation complains about, the bodies it sends, the values an existing *)
(* watch fills it with, and where the server's field errors are shown.     *)
(*                                                                         *)
(* An input that is empty ('') holds Null, the origin Blank.  A price is   *)
(* kept in minor units, so "150" is 15000 and "10.5" is 1050; a blank      *)
(* price is Null.                                                          *)
(***************************************************************************)
EXTENDS Domain

wizardSteps == <<"from", "to", "dates", "alert", "summary">>

(* Step by step, the values a page asks for. *)
stepFields ==
    <<{"origin", "originAlternatives"},
      {"destinations"},
      {"dateFrom", "dateTo", "returnDateFrom", "returnDateTo"},
      {"alertStrategy", "maxPriceEur", "maxStops"},
      {}>>
Summary == 5
ErrorKeys == UNION {stepFields[i] : i \in 1 .. Summary}
FormKeys == ErrorKeys \cup {"roundTrip"}

(* Mutant of serverFieldMap: a column the form has no line for. *)
serverFieldMapShort ==
    [origin |-> "origin", destinations |-> "destinations", date_from |-> "dateFrom",
     date_to |-> "dateTo", return_date_from |-> "returnDateFrom",
     return_date_to |-> "returnDateTo", max_price_minor |-> "maxPriceEur",
     alert_strategy |-> "alertStrategy", max_stops |-> "maxStops"]

serverFieldMap ==
    [origin |-> "origin", origin_alternatives |-> "originAlternatives",
     destinations |-> "destinations", date_from |-> "dateFrom", date_to |-> "dateTo",
     return_date_from |-> "returnDateFrom", return_date_to |-> "returnDateTo",
     max_price_minor |-> "maxPriceEur", alert_strategy |-> "alertStrategy",
     max_stops |-> "maxStops"]
FormColumns == DOMAIN serverFieldMap
ReturnDates == {"return_date_from", "return_date_to"}

IsFormValues(v) ==
    /\ DOMAIN v = FormKeys
    /\ v["roundTrip"] \in BOOLEAN
    /\ v["origin"] \in Airports \cup {Blank}
    /\ \A k \in {"originAlternatives", "destinations"} : v[k] \in Seq(Airports)
    /\ \A k \in stepFields[3] \cup {"maxPriceEur", "maxStops"} : v[k] \in Int \cup {Null}
    /\ v["alertStrategy"] \in AlertStrategies

emptyForm ==
    [k \in FormKeys |->
        IF k = "origin" THEN Blank
        ELSE IF k \in {"originAlternatives", "destinations"} THEN <<>>
        ELSE IF k = "roundTrip" THEN FALSE
        ELSE IF k = "alertStrategy" THEN "absolute_threshold" ELSE Null]

-----------------------------------------------------------------------------
(* validate: the inputs it complains about; day is the device's date *)

DateFromMissing(v) == ~Given(v["dateFrom"]) \/ ~Given(v["dateTo"])
DateToWrong(v, day) ==
    ~DateFromMissing(v) /\ (v["dateTo"] < v["dateFrom"] \/ v["dateTo"] < day)

ReturnMissing(v) == ~Given(v["returnDateFrom"]) \/ ~Given(v["returnDateTo"])
ReturnDateToWrong(v) ==
    v["roundTrip"] /\ ~ReturnMissing(v) /\ v["returnDateTo"] < v["returnDateFrom"]

(* Mutants of ReturnDateFromWrong: the way back may only start after the   *)
(* last day of departure; and it may start on any day.                     *)
ReturnDateFromLate(v) ==
    /\ v["roundTrip"]
    /\ \/ ReturnMissing(v)
       \/ Given(v["dateTo"]) /\ v["returnDateFrom"] < v["dateTo"]
ReturnDateFromAnyDay(v) == v["roundTrip"] /\ ReturnMissing(v)

ReturnDateFromWrong(v) ==
    /\ v["roundTrip"]
    /\ \/ ReturnMissing(v)
       \/ /\ v["returnDateTo"] >= v["returnDateFrom"]
          /\ Given(v["dateFrom"]) /\ v["returnDateFrom"] < v["dateFrom"]

PriceWrong(v) ==
    IF Given(v["maxPriceEur"]) THEN v["maxPriceEur"] <= 0 \/ v["maxPriceEur"] % 100 # 0
                               ELSE v["alertStrategy"] = "absolute_threshold"

Wrong(v, day, k) ==
    \/ k = "origin" /\ v["origin"] = Blank
    \/ k = "destinations" /\
            (v["destinations"] = <<>> \/ Mentions(v["destinations"], v["origin"]))
    \/ k = "dateFrom" /\ DateFromMissing(v)
    \/ k = "dateTo" /\ DateToWrong(v, day)
    \/ k = "returnDateFrom" /\ ReturnDateFromWrong(v)
    \/ k = "returnDateTo" /\ ReturnDateToWrong(v)
    \/ k = "maxPriceEur" /\ PriceWrong(v)

validate(v, day) == {k \in ErrorKeys : Wrong(v, day, k)}

(* firstInvalidStep, for errors that are not empty. *)
FirstInvalidStep(errors) ==
    CHOOSE i \in 1 .. Summary :
        /\ stepFields[i] \cap errors # {}
        /\ \A j \in 1 .. i - 1 : stepFields[j] \cap errors = {}

(* applyServerErrors *)
Mapped(fields) == {serverFieldMap[f] : f \in fields \cap FormColumns}
Unmapped(fields) == fields \ FormColumns

-----------------------------------------------------------------------------
(* Bodies *)

Sent(v, f) == IF f \in ReturnDates /\ ~v["roundTrip"] THEN Null ELSE v[serverFieldMap[f]]

toCreatePayload(v) == [f \in FormColumns |-> Sent(v, f)]

(* minorToEuros, and the euros in minor units again. *)
WholeEuros(minor) == 100 * ((minor + 50) \div 100)

fromSubscription(s) ==
    [origin |-> s["origin"], originAlternatives |-> s["origin_alternatives"],
     destinations |-> s["destinations"], dateFrom |-> s["date_from"], dateTo |-> s["date_to"],
     roundTrip |-> Given(s["return_date_from"]),
     returnDateFrom |-> s["return_date_from"], returnDateTo |-> s["return_date_to"],
     alertStrategy |-> s["alert_strategy"],
     maxPriceEur |-> IF Given(s["max_price_minor"]) THEN WholeEuros(s["max_price_minor"])
                                                    ELSE Null,
     maxStops |-> s["max_stops"]]

(* Mutant of toPatchPayload: a return window that was cleared is left out. *)
toPatchPayloadNoClearing(v, original) ==
    LET orig == fromSubscription(original)
        changed == {f \in FormColumns : Sent(v, f) # orig[serverFieldMap[f]] /\ Sent(v, f) # Null}
    IN  [f \in changed |-> Sent(v, f)]

(* What differs from the values the watch filled the form with; the two    *)
(* return dates go together.                                               *)
toPatchPayload(v, original) ==
    LET orig == fromSubscription(original)
        changed == {f \in FormColumns : Sent(v, f) # orig[serverFieldMap[f]]}
        sent == IF changed \cap ReturnDates = {} THEN changed ELSE changed \cup ReturnDates
    IN  [f \in sent |-> Sent(v, f)]
=============================================================================
