-------------------------- MODULE MCSubscriptionForm --------------------------
(***************************************************************************)
(* A small instance of SubscriptionForm.  Every errand touches a few       *)
(* inputs, chosen so that rules that look at two of them can fail; they    *)
(* together touch every input in every mode.                               *)
(***************************************************************************)
EXTENDS SubscriptionForm

MCStrings == STRING
MCRawCodes == {"", "BEG", "BCN", "MAD"}
MCUpper == [code \in MCRawCodes |-> code]
MCRawLists == BoundedSeq(MCRawCodes \ {""}, 3)
MCRawWords == {"", "absolute_threshold", "historical_minimum"}
MCTrim == [w \in MCRawWords |-> w]

(* A one-way watch with an alternative origin, a ceiling of 150.50, and a  *)
(* setting the form does not show.                                         *)
OneWay ==
    [f \in Fields |->
        IF f = "origin" THEN "BEG"
        ELSE IF f = "origin_alternatives" THEN <<"MAD">>
        ELSE IF f = "destinations" THEN <<"BCN">>
        ELSE IF f = "date_from" THEN 11
        ELSE IF f = "date_to" THEN 12
        ELSE IF f = "max_price_minor" THEN 15050
        ELSE IF f = "cooldown_hours" THEN 6
        ELSE IF f = "alert_strategy" THEN "absolute_threshold"
        ELSE Zero(f)]
(* A round trip whose last day of departure is over and whose ceiling      *)
(* rounds to nothing.                                                      *)
PastRoundTrip ==
    [OneWay EXCEPT !["origin_alternatives"] = <<>>, !["date_from"] = 9, !["date_to"] = 9,
        !["return_date_from"] = 12, !["return_date_to"] = 13, !["max_price_minor"] = 40]
MCRows == {OneWay, PastRoundTrip}

(* Others make it a round trip. *)
MCElsewhere == {[return_date_from |-> 12, return_date_to |-> 14]}

Errand(mode, enters) ==
    [mode |-> mode,
     enters |-> [k \in FormKeys |-> IF k \in DOMAIN enters THEN enters[k] ELSE {}]]
NewWatch ==
    [origin |-> {"BEG"}, destinations |-> {"BCN"}, dateFrom |-> {9}, dateTo |-> {9, 10},
     maxPriceEur |-> {9000}]
MCErrands ==
    <<{Errand("edit", [origin |-> {"BEG", "MAD"}, destinations |-> {"MAD", "BCN"}]),
       Errand("edit", [originAlternatives |-> {"MAD"}, dateFrom |-> {13}, dateTo |-> {13}]),
       Errand("edit", [roundTrip |-> BOOLEAN, returnDateFrom |-> {Null, 10}, dateTo |-> {Null, 13}]),
       Errand("edit", [alertStrategy |-> AlertStrategies, maxPriceEur |-> {Null, 9000, 1050}]),
       Errand("duplicate", [dateTo |-> {10}, maxPriceEur |-> {15100}, maxStops |-> {Null, 1}]),
       Errand("create", NewWatch)},
      {Errand("edit", [alertStrategy |-> {"historical_minimum"}])}>>
=============================================================================
