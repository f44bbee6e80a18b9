------------------------------- MODULE Domain -------------------------------
(***************************************************************************)
(* The pure rules of internal/domain and of the request bodies decoded in  *)
(* internal/api: what a subscription is, when it is valid, what a POST     *)
(* body creates and what a PATCH body changes.  No state: the state        *)
(* machines use these operators.                                           *)
(*                                                                         *)
(* A subscription is a function on Fields (the columns a client can write) *)
(* and a JSON body is a function on the keys it contains, so "key absent", *)
(* "key null" and "key set" stay three different things.  Dates are day    *)
(* numbers with 0 for Go's zero time.                                      *)
(***************************************************************************)
EXTENDS AlertSettings, Sequences

CONSTANTS
    Strings,    \* every string of the wire and of the text columns
    RawCodes,   \* codes as a client may spell them: "beg ", "BEG", " "
    Upper,      \* Upper[c]: c trimmed and upper-cased, Blank if nothing is left
    RawLists,   \* the code lists a client may send
    RawWords,   \* spellings a client may send for alert_strategy
    Trim,       \* Trim[w]: w without surrounding spaces
    Airports,   \* well-formed codes for which airports.Exists answers true
    Carriers,   \* well-formed two-character carrier codes
    MaxOriginAlternatives, MaxDestinations, MaxAirlineFilters

Blank == ""

ASSUME NullAssumption ==
    /\ Null \notin Int /\ Null \notin Strings /\ Null \notin RawLists
    /\ Null \notin RawCodes /\ Null \notin RawWords
ASSUME StringsAssumption ==
    {Blank, "active", "paused", "archived", "absolute_threshold", "historical_minimum"}
        \subseteq Strings
ASSUME WireAssumption ==
    /\ Upper \in [RawCodes -> Strings]
    /\ RawLists \subseteq Seq(RawCodes)
    /\ <<>> \in RawLists
    /\ Blank \in RawCodes /\ Upper[Blank] = Blank
    /\ Trim \in [RawWords -> Strings]
    /\ Blank \in RawWords /\ Trim[Blank] = Blank
ASSUME DatasetAssumption ==
    /\ Airports \subseteq Strings \ {Blank}
    /\ Carriers \subseteq Strings \ {Blank}
ASSUME CapsAssumption ==
    {MaxOriginAlternatives, MaxDestinations, MaxAirlineFilters} \subseteq Nat \ {0}

-----------------------------------------------------------------------------
(* Fields, enumerations and types *)

RequiredFields ==
    {"origin", "destinations", "date_from", "date_to", "alert_strategy", "status"}
ListFields ==
    {"origin_alternatives", "airlines_whitelist", "airlines_blacklist"}
NullableFields ==
    {"return_date_from", "return_date_to", "trip_length_min", "trip_length_max",
     "max_price_minor", "max_stops", "max_duration_minutes",
     "cooldown_hours", "drop_pct", "stable_price_band_pct", "muted_until"}
Fields == RequiredFields \cup ListFields \cup NullableFields

Statuses == {"active", "paused", "archived"}
AlertStrategies == {"absolute_threshold", "historical_minimum"}
DefaultStrategy == "absolute_threshold"

(* normCode and normCodes: blank entries of a list are dropped. *)
NormCode(c) == Upper[c]
NormCodes(cs) ==
    LET kept[n \in 0 .. Len(cs)] ==
            IF n = 0 THEN <<>>
            ELSE IF NormCode(cs[n]) = Blank THEN kept[n - 1]
            ELSE Append(kept[n - 1], NormCode(cs[n]))
    IN  kept[Len(cs)]

(* The lists a field can hold: nil, or what normCodes makes of a list.     *)
CodeLists == {<<>>} \cup {NormCodes(cs) : cs \in RawLists}

(* The values each field of a stored subscription ranges over. *)
Column == [f \in Fields |->
    IF f \in {"origin", "alert_strategy", "status"} THEN Strings
    ELSE IF f \in ListFields \cup {"destinations"} THEN CodeLists
    ELSE IF f \in {"date_from", "date_to"} THEN Int
    ELSE Int \cup {Null}]

(* A row of the subscriptions table; a row without an owner is no row.     *)
Row(u, s) == [user_chat_id |-> u, sub |-> s]
NoRow == Row(Null, Null)

IsSubscription(s) ==
    /\ DOMAIN s = Fields
    /\ \A f \in Fields : s[f] \in Column[f]

(* The values a JSON body may carry under each key, null aside.  A status  *)
(* is any string: mergePatch takes it as it is.                            *)
Wire == [f \in Fields |->
    IF f = "origin" THEN RawCodes
    ELSE IF f \in ListFields \cup {"destinations"} THEN RawLists
    ELSE IF f = "alert_strategy" THEN RawWords
    ELSE IF f = "status" THEN Strings
    ELSE Int]

IsPatchBody(b) ==
    /\ DOMAIN b \subseteq Fields
    /\ \A f \in DOMAIN b : b[f] \in Wire[f] \cup {Null}

(* A POST body has no status and no muted_until, and a null date does not  *)
(* decode (Date.UnmarshalJSON refuses it).                                 *)
IsCreateBody(b) ==
    /\ DOMAIN b \subseteq Fields \ {"status", "muted_until"}
    /\ \A f \in DOMAIN b : b[f] \in Wire[f] \cup {Null}
    /\ \A f \in DOMAIN b \cap {"date_from", "date_to"} : b[f] # Null

-----------------------------------------------------------------------------
(* Request bodies *)

(* What a present, non-null key writes into the field. *)
Decoded(f, v) ==
    IF f = "origin" THEN NormCode(v)
    ELSE IF f \in ListFields \cup {"destinations"} THEN NormCodes(v)
    ELSE IF f = "alert_strategy" THEN Trim[v]
    ELSE v

(* What null, or in a POST body an absent key, leaves in the field. *)
Zero(f) ==
    IF f \in {"origin", "alert_strategy"} THEN Blank
    ELSE IF f \in ListFields \cup {"destinations"} THEN <<>>
    ELSE IF f \in {"date_from", "date_to"} THEN 0
    ELSE IF f = "status" THEN "active"
    ELSE Null

(* Mutant of FromCreateBody: the codes are taken as they are spelled.      *)
FromCreateBodySpelled(b) ==
    [f \in Fields |->
        IF f \in DOMAIN b /\ b[f] # Null THEN b[f]
        ELSE IF f = "alert_strategy" THEN DefaultStrategy ELSE Zero(f)]

(* The domain.Subscription handleCreateSubscription builds from its body. *)
FromCreateBody(b) ==
    LET given(f) == f \in DOMAIN b /\ b[f] # Null
        decoded(f) == IF given(f) THEN Decoded(f, b[f]) ELSE Zero(f)
    IN  [f \in Fields |->
            IF f = "alert_strategy" /\ decoded(f) = Blank
            THEN DefaultStrategy ELSE decoded(f)]

(* mergePatch reports an explicit null on a required field ... *)
NullErrors(b) == {f \in RequiredFields \cap DOMAIN b : b[f] = Null}

(* Mutant of MergePatch: null is taken for absent. *)
MergePatchIgnoringNulls(s, b) ==
    [f \in Fields |-> IF f \in DOMAIN b /\ b[f] # Null THEN Decoded(f, b[f]) ELSE s[f]]

(* ... and applies every other key that is present onto s. *)
MergePatch(s, b) ==
    [f \in Fields |->
        IF f \notin DOMAIN b \/ f \in NullErrors(b) THEN s[f]
        ELSE IF b[f] = Null THEN Zero(f) ELSE Decoded(f, b[f])]

-----------------------------------------------------------------------------
(* Subscription.Validate: the set of fields it reports *)

(* Mutant of HasDuplicate: only neighbours are compared. *)
HasAdjacentDuplicate(cs) ==
    \E i \in 2 .. Len(cs) : cs[i] = cs[i - 1]

HasDuplicate(cs) ==
    \E i, j \in DOMAIN cs : i # j /\ cs[i] = cs[j]

Mentions(cs, c) == \E i \in DOMAIN cs : cs[i] = c

OnlyKnown(cs, known) == \A i \in DOMAIN cs : cs[i] \in known

OriginAlternativesBroken(s) ==
    LET alternatives == s["origin_alternatives"]
    IN  \/ Len(alternatives) > MaxOriginAlternatives
        \/ ~OnlyKnown(alternatives, Airports)
        \/ Mentions(alternatives, s["origin"])
        \/ HasDuplicate(alternatives)

DestinationsBroken(s) ==
    LET destinations == s["destinations"]
    IN  \/ Len(destinations) \notin 1 .. MaxDestinations
        \/ ~OnlyKnown(destinations, Airports)
        \/ Mentions(destinations, s["origin"])
        \/ HasDuplicate(destinations)

DateFromBroken(s) == s["date_from"] = 0 \/ s["date_to"] = 0
DateToBroken(s) == ~DateFromBroken(s) /\ s["date_to"] < s["date_from"]

ReturnWindowHalfGiven(s) == Given(s["return_date_from"]) # Given(s["return_date_to"])
ReturnWindowGiven(s) == Given(s["return_date_from"]) /\ Given(s["return_date_to"])

ReturnDateFromBroken(s) ==
    \/ ReturnWindowHalfGiven(s)
    \/ ReturnWindowGiven(s) /\ s["return_date_from"] < s["date_from"]
ReturnDateToBroken(s) ==
    ReturnWindowGiven(s) /\ s["return_date_to"] < s["return_date_from"]

TripLengthMinBroken(s) == Given(s["trip_length_min"]) /\ s["trip_length_min"] < 1
TripLengthMaxBroken(s) ==
    /\ Given(s["trip_length_max"])
    /\ \/ s["trip_length_max"] < 1
       \/ Given(s["trip_length_min"]) /\ s["trip_length_max"] < s["trip_length_min"]

MaxPriceBroken(s) ==
    IF Given(s["max_price_minor"]) THEN s["max_price_minor"] <= 0
                                   ELSE s["alert_strategy"] = "absolute_threshold"

CarriersBroken(cs) ==
    \/ Len(cs) > MaxAirlineFilters
    \/ ~OnlyKnown(cs, Carriers)
    \/ HasDuplicate(cs)
BlacklistBroken(s) ==
    \/ \E i \in DOMAIN s["airlines_blacklist"] :
            Mentions(s["airlines_whitelist"], s["airlines_blacklist"][i])
    \/ CarriersBroken(s["airlines_blacklist"])

Broken(s, f) ==
    \/ f = "origin" /\ s["origin"] \notin Airports
    \/ f = "origin_alternatives" /\ OriginAlternativesBroken(s)
    \/ f = "destinations" /\ DestinationsBroken(s)
    \/ f = "date_from" /\ DateFromBroken(s)
    \/ f = "date_to" /\ DateToBroken(s)
    \/ f = "return_date_from" /\ ReturnDateFromBroken(s)
    \/ f = "return_date_to" /\ ReturnDateToBroken(s)
    \/ f = "trip_length_min" /\ TripLengthMinBroken(s)
    \/ f = "trip_length_max" /\ TripLengthMaxBroken(s)
    \/ f = "max_price_minor" /\ MaxPriceBroken(s)
    \/ f = "max_stops" /\ Given(s["max_stops"]) /\ s["max_stops"] < 0
    \/ f = "max_duration_minutes" /\
            Given(s["max_duration_minutes"]) /\ s["max_duration_minutes"] <= 0
    \/ f = "airlines_whitelist" /\ CarriersBroken(s["airlines_whitelist"])
    \/ f = "airlines_blacklist" /\ BlacklistBroken(s)
    \/ f = "alert_strategy" /\ s["alert_strategy"] \notin AlertStrategies
    \/ f = "status" /\ s["status"] \notin Statuses
    \/ f = "cooldown_hours" /\ CooldownBroken(s["cooldown_hours"])
    \/ f = "drop_pct" /\ DropBroken(s["drop_pct"])
    \/ f = "stable_price_band_pct" /\ BandBroken(s["stable_price_band_pct"])

Validate(s) == {f \in Fields : Broken(s, f)}
Valid(s) == Validate(s) = {}

(* ValidateFresh: the departure window must not lie entirely in the past. *)
ValidateFresh(s, today) ==
    IF s["date_to"] # 0 /\ s["date_to"] < today THEN {"date_to"} ELSE {}
=============================================================================
