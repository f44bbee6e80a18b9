------------------------ MODULE SubscriptionFormProofs ------------------------
(***************************************************************************)
(* Proofs about SubscriptionForm, for any watches, inputs, PATCHes of      *)
(* others, dates and number of visits.  First the bodies: what the form    *)
(* sends of its values, and what the server makes of it; then the inputs   *)
(* and the requests; then the properties the runs check.                   *)
(***************************************************************************)
EXTENDS SubscriptionForm, DomainProofs, SequenceFacts

-----------------------------------------------------------------------------
(* Watches and the values of a form *)

GoodWatch(s) == s \in Watches /\ IsSubscription(s) /\ Valid(s)

(* What the inputs can produce. *)
Good(v) ==
    /\ v \in Values /\ FormValues(v)
    /\ v["dateFrom"] # 0 /\ v["dateTo"] # 0
    /\ v["maxStops"] \in Nat \cup {Null}

LEMMA FormColumnsAre ==
    /\ FormColumns = {"origin", "origin_alternatives", "destinations", "date_from", "date_to",
                      "return_date_from", "return_date_to", "max_price_minor",
                      "alert_strategy", "max_stops"}
    /\ FormColumns \subseteq Fields
  BY DEF FormColumns, serverFieldMap, Fields, RequiredFields, ListFields, NullableFields

LEMMA FormKeysAre ==
    FormKeys = {"origin", "originAlternatives", "destinations", "dateFrom", "dateTo",
                "returnDateFrom", "returnDateTo", "alertStrategy", "maxPriceEur", "maxStops",
                "roundTrip"}
<1>1. ErrorKeys = stepFields[1] \cup stepFields[2] \cup stepFields[3] \cup stepFields[4]
                    \cup stepFields[5]
  BY DEF ErrorKeys, Summary
<1> QED
  BY <1>1 DEF FormKeys, stepFields

(* Where each column's value comes from. *)
LEMMA SentIs ==
    ASSUME NEW v
    PROVE  /\ Sent(v, "origin") = v["origin"]
           /\ Sent(v, "origin_alternatives") = v["originAlternatives"]
           /\ Sent(v, "destinations") = v["destinations"]
           /\ Sent(v, "date_from") = v["dateFrom"]
           /\ Sent(v, "date_to") = v["dateTo"]
           /\ Sent(v, "return_date_from") = IF v["roundTrip"] THEN v["returnDateFrom"] ELSE Null
           /\ Sent(v, "return_date_to") = IF v["roundTrip"] THEN v["returnDateTo"] ELSE Null
           /\ Sent(v, "max_price_minor") = v["maxPriceEur"]
           /\ Sent(v, "alert_strategy") = v["alertStrategy"]
           /\ Sent(v, "max_stops") = v["maxStops"]
  BY DEF Sent, ReturnDates, serverFieldMap

(* The types of the columns of the form. *)
LEMMA ColumnTypes ==
    ASSUME NEW s, IsSubscription(s)
    PROVE  /\ s["origin_alternatives"] \in Seq(Strings) /\ s["destinations"] \in Seq(Strings)
           /\ s["date_from"] \in Int /\ s["date_to"] \in Int
           /\ \A f \in {"return_date_from", "return_date_to", "max_price_minor", "max_stops"} :
                s[f] \in Int \cup {Null}
<1>1. CodeLists \subseteq Seq(Strings)
  BY CodeListsType
<1>2. /\ s["origin_alternatives"] \in CodeLists /\ s["destinations"] \in CodeLists
      /\ s["date_from"] \in Int /\ s["date_to"] \in Int
  BY ColumnValues DEF IsSubscription, Fields, RequiredFields, ListFields
<1>3. \A f \in NullableFields : s[f] \in Int \cup {Null}
  BY ColumnValues DEF IsSubscription, Fields
<1> QED
  BY <1>1, <1>2, <1>3 DEF NullableFields

(* What the rules of Validate say of the columns of the form. *)
LEMMA ValidColumns ==
    ASSUME NEW s, IsSubscription(s), Valid(s)
    PROVE  /\ s["origin"] \in Airports
           /\ ~OriginAlternativesBroken(s) /\ ~DestinationsBroken(s)
           /\ ~DateFromBroken(s) /\ ~DateToBroken(s)
           /\ ~ReturnDateFromBroken(s) /\ ~ReturnDateToBroken(s)
           /\ ~MaxPriceBroken(s)
           /\ s["max_stops"] = Null \/ s["max_stops"] >= 0
           /\ s["alert_strategy"] \in AlertStrategies
<1>1. \A f \in Fields : ~Broken(s, f)
  BY DEF Valid, Validate
<1>2. FormColumns \subseteq Fields
  BY FormColumnsAre
<1>3. /\ ~Broken(s, "origin") /\ ~Broken(s, "origin_alternatives")
      /\ ~Broken(s, "destinations") /\ ~Broken(s, "date_from") /\ ~Broken(s, "date_to")
      /\ ~Broken(s, "return_date_from") /\ ~Broken(s, "return_date_to")
      /\ ~Broken(s, "max_price_minor") /\ ~Broken(s, "max_stops")
      /\ ~Broken(s, "alert_strategy")
  BY <1>1, <1>2, FormColumnsAre
<1>4. s["max_stops"] = Null \/ ~(s["max_stops"] < 0)
  BY <1>3, Zenon DEF Broken, Given
<1>5. s["max_stops"] = Null \/ s["max_stops"] >= 0
  <2>1. s["max_stops"] \in Int \cup {Null}
    BY ColumnTypes
  <2> QED
    BY <1>4, <2>1
<1> QED
  BY <1>3, <1>5, Zenon DEF Broken

(* A valid list of airports, as the form holds it. *)
LEMMA ListOfAirports ==
    ASSUME NEW list \in Seq(Strings), OnlyKnown(list, Airports), ~HasDuplicate(list)
    PROVE  list \in Seq(Airports) /\ NoRepeats(list)
  BY DEF OnlyKnown, HasDuplicate, NoRepeats

(* The values of a record, one by one. *)
LEMMA FromSubscriptionIs ==
    ASSUME NEW s
    PROVE  LET v == fromSubscription(s)
           IN  /\ DOMAIN v = FormKeys /\ v = [k \in FormKeys |-> v[k]]
               /\ v["origin"] = s["origin"]
               /\ v["originAlternatives"] = s["origin_alternatives"]
               /\ v["destinations"] = s["destinations"]
               /\ v["dateFrom"] = s["date_from"] /\ v["dateTo"] = s["date_to"]
               /\ v["roundTrip"] = Given(s["return_date_from"])
               /\ v["returnDateFrom"] = s["return_date_from"]
               /\ v["returnDateTo"] = s["return_date_to"]
               /\ v["alertStrategy"] = s["alert_strategy"]
               /\ v["maxPriceEur"] = IF Given(s["max_price_minor"])
                                     THEN WholeEuros(s["max_price_minor"]) ELSE Null
               /\ v["maxStops"] = s["max_stops"]
  BY FormKeysAre DEF fromSubscription

(* A watch fills the form with values it can hold. *)
LEMMA FromSubscriptionGood ==
    ASSUME NEW s, GoodWatch(s)
    PROVE  Good(fromSubscription(s))
<1> DEFINE v == fromSubscription(s)
<1>1. v["origin"] \in Airports /\ v["alertStrategy"] \in AlertStrategies
  BY ValidColumns, FromSubscriptionIs DEF GoodWatch
<1>2. /\ v["originAlternatives"] \in Seq(Airports) /\ NoRepeats(v["originAlternatives"])
      /\ Len(v["originAlternatives"]) <= MaxOriginAlternatives
  <2>1. /\ ~(Len(s["origin_alternatives"]) > MaxOriginAlternatives)
        /\ OnlyKnown(s["origin_alternatives"], Airports)
        /\ ~HasDuplicate(s["origin_alternatives"])
    BY ValidColumns DEF GoodWatch, OriginAlternativesBroken
  <2> QED
    BY <2>1, ColumnTypes, ListOfAirports, FromSubscriptionIs, CapsAssumption DEF GoodWatch
<1>3. /\ v["destinations"] \in Seq(Airports) /\ NoRepeats(v["destinations"])
      /\ Len(v["destinations"]) <= MaxDestinations
  <2>1. /\ Len(s["destinations"]) \in 1 .. MaxDestinations
        /\ OnlyKnown(s["destinations"], Airports)
        /\ ~HasDuplicate(s["destinations"])
    BY ValidColumns DEF GoodWatch, DestinationsBroken
  <2> QED
    BY <2>1, ColumnTypes, ListOfAirports, FromSubscriptionIs, CapsAssumption DEF GoodWatch
<1>4. v["dateFrom"] \in Int \ {0} /\ v["dateTo"] \in Int \ {0}
  BY ValidColumns, ColumnTypes, FromSubscriptionIs DEF GoodWatch, DateFromBroken
<1>5. v["returnDateFrom"] \in Int \cup {Null} /\ v["returnDateTo"] \in Int \cup {Null}
  BY ColumnTypes, FromSubscriptionIs DEF GoodWatch
<1>6. v["maxPriceEur"] \in Int \cup {Null}
  BY ColumnTypes, FromSubscriptionIs DEF GoodWatch, Given, WholeEuros
<1>7. v["maxStops"] \in Nat \cup {Null}
  BY ColumnTypes, ValidColumns, FromSubscriptionIs DEF GoodWatch
<1>8. v["roundTrip"] \in BOOLEAN
  BY FromSubscriptionIs DEF Given
<1>9. DOMAIN v = FormKeys /\ v = [k \in FormKeys |-> v[k]]
  BY FromSubscriptionIs
<1> HIDE DEF v
<1>10. IsFormValues(v)
  BY <1>1, <1>2, <1>3, <1>4, <1>5, <1>6, <1>7, <1>8, <1>9 DEF IsFormValues, stepFields
<1>11. v \in Values
  BY <1>1, <1>2, <1>3, <1>4, <1>5, <1>6, <1>7, <1>8, <1>9, FormKeysAre DEF Values
<1> QED
  BY <1>2, <1>3, <1>4, <1>7, <1>10, <1>11 DEF Good, FormValues, v

-----------------------------------------------------------------------------
(* Bodies: what the server decodes is what the form holds *)

LEMMA SpelledLists ==
    ASSUME NEW v, Good(v)
    PROVE  \A k \in {"originAlternatives", "destinations"} :
                v[k] \in RawLists /\ NormCodes(v[k]) = v[k]
<1>1. ASSUME NEW list \in Seq(Airports), NEW n \in {MaxOriginAlternatives, MaxDestinations},
             Len(list) <= n
      PROVE  list \in RawLists /\ NormCodes(list) = list
  <2>1. Len(list) \in 0 .. n /\ list \in [1 .. Len(list) -> Airports]
    BY <1>1, CapsAssumption
  <2>2. list \in BoundedSeq(Airports, n)
    BY <2>1 DEF BoundedSeq, SeqOf
  <2>3. list \in RawLists
    BY <2>2, SpellingAssumption
  <2>4. \A i \in DOMAIN list : NormCode(list[i]) = list[i] /\ list[i] # Blank
    BY <2>1, SpellingAssumption, DatasetAssumption DEF NormCode
  <2>5. NormCodes(list) = list
    BY <2>3, <2>4, WireAssumption, NormCodesSpelled
  <2> QED
    BY <2>3, <2>5
<1> QED
  BY <1>1 DEF Good, FormValues, IsFormValues

(* The values that are sent for each column. *)
LEMMA SentTypes ==
    ASSUME NEW v, Good(v)
    PROVE  /\ Sent(v, "origin") \in Airports \cup {Blank}
           /\ Sent(v, "origin_alternatives") \in RawLists /\ Sent(v, "destinations") \in RawLists
           /\ Sent(v, "alert_strategy") \in AlertStrategies
           /\ \A f \in {"date_from", "date_to", "return_date_from", "return_date_to",
                        "max_price_minor", "max_stops"} : Sent(v, f) \in Int \cup {Null}
<1>1. /\ v["origin"] \in Airports \cup {Blank} /\ v["alertStrategy"] \in AlertStrategies
      /\ v["originAlternatives"] \in RawLists /\ v["destinations"] \in RawLists
  BY SpelledLists DEF Good, FormValues, IsFormValues
<1>2. \A k \in {"dateFrom", "dateTo", "returnDateFrom", "returnDateTo", "maxPriceEur",
               "maxStops"} : v[k] \in Int \cup {Null}
  BY DEF Good, FormValues, IsFormValues, stepFields
<1> QED
  BY <1>1, <1>2, SentIs

LEMMA SentOnTheWire ==
    ASSUME NEW v, Good(v), NEW f \in FormColumns
    PROVE  Sent(v, f) \in Wire[f] \cup {Null}
<1>1. f \in Fields
  BY FormColumnsAre
<1>2. CASE f = "origin"
  BY <1>1, <1>2, SentTypes, SpellingAssumption, WireAssumption DEF Wire
<1>3. CASE f \in {"origin_alternatives", "destinations"}
  BY <1>1, <1>3, SentTypes DEF Wire, ListFields
<1>4. CASE f = "alert_strategy"
  BY <1>1, <1>4, SentTypes, SpellingAssumption DEF Wire, ListFields
<1>5. CASE f \in {"date_from", "date_to", "return_date_from", "return_date_to",
                 "max_price_minor", "max_stops"}
  BY <1>1, <1>5, SentTypes DEF Wire, ListFields
<1> QED
  BY <1>2, <1>3, <1>4, <1>5, FormColumnsAre

(* Only an input that is empty is sent as null, and what is sent is        *)
(* decoded to itself.                                                      *)
LEMMA SentDecodes ==
    ASSUME NEW v, Good(v), NEW f \in FormColumns
    PROVE  /\ Sent(v, f) = Null => f \in NullableFields \cup {"date_from", "date_to"}
           /\ Sent(v, f) # Null => Decoded(f, Sent(v, f)) = Sent(v, f)
<1>1. CASE f = "origin"
  BY <1>1, SentTypes, SpellingAssumption, WireAssumption, NullAssumption
     DEF Decoded, NormCode
<1>2. CASE f \in {"origin_alternatives", "destinations"}
  BY <1>2, SentTypes, SentIs, SpelledLists, NullAssumption DEF Decoded, ListFields
<1>3. CASE f = "alert_strategy"
  BY <1>3, SentTypes, SpellingAssumption, NullAssumption DEF Decoded, ListFields
<1>4. CASE f \in {"date_from", "date_to", "return_date_from", "return_date_to",
                 "max_price_minor", "max_stops"}
  BY <1>4 DEF Decoded, ListFields, NullableFields
<1> QED
  BY <1>1, <1>2, <1>3, <1>4, FormColumnsAre

(* What a POST of the form creates, column by column. *)
LEMMA CreatedIs ==
    ASSUME NEW v, Good(v)
    PROVE  LET w == FromCreateBody(toCreatePayload(v))
           IN  /\ \A f \in FormColumns : w[f] = IF Sent(v, f) = Null THEN Zero(f) ELSE Sent(v, f)
               /\ \A f \in Fields \ FormColumns : w[f] = Zero(f)
<1> DEFINE b == toCreatePayload(v)
           w == FromCreateBody(b)
           given(f) == f \in DOMAIN b /\ b[f] # Null
           decoded(f) == IF given(f) THEN Decoded(f, b[f]) ELSE Zero(f)
<1>1. DOMAIN b = FormColumns /\ \A f \in FormColumns : b[f] = Sent(v, f)
  BY DEF toCreatePayload
<1>2. \A f \in Fields :
         w[f] = IF f = "alert_strategy" /\ decoded(f) = Blank THEN DefaultStrategy ELSE decoded(f)
  BY DEF FromCreateBody
<1>3. ASSUME NEW f \in FormColumns
      PROVE  decoded(f) = IF Sent(v, f) = Null THEN Zero(f) ELSE Sent(v, f)
  BY <1>1, SentDecodes
<1>4. ASSUME NEW f \in Fields \ FormColumns
      PROVE  decoded(f) = Zero(f)
  BY <1>1
<1> HIDE DEF decoded, w
<1>5. decoded("alert_strategy") # Blank
  <2>1. Sent(v, "alert_strategy") \in AlertStrategies /\ "alert_strategy" \in FormColumns
    BY SentTypes, FormColumnsAre
  <2>2. Sent(v, "alert_strategy") # Null
    BY <2>1, SpellingAssumption, NullAssumption
  <2>3. Blank \notin AlertStrategies
    BY DEF Blank, AlertStrategies
  <2> QED
    BY <1>3, <2>1, <2>2, <2>3
<1>6. \A f \in Fields : w[f] = decoded(f)
  BY <1>2, <1>5
<1> QED
  BY <1>3, <1>4, <1>6, FormColumnsAre DEF w

(* What a PATCH of the form changes, column by column. *)
LEMMA BodyIs ==
    ASSUME NEW v, NEW s
    PROVE  LET b == toPatchPayload(v, s)
           IN  /\ DOMAIN b \subseteq FormColumns
               /\ \A f \in DOMAIN b : b[f] = Sent(v, f)
               /\ \A f \in FormColumns \ DOMAIN b :
                    Sent(v, f) = fromSubscription(s)[serverFieldMap[f]]
               /\ \A f \in DOMAIN b \ ReturnDates :
                    Sent(v, f) # fromSubscription(s)[serverFieldMap[f]]
<1>1. ReturnDates \subseteq FormColumns
  BY FormColumnsAre DEF ReturnDates
<1> QED
  BY <1>1 DEF toPatchPayload

LEMMA PatchTyped ==
    ASSUME NEW v, Good(v), NEW s
    PROVE  IsPatchBody(toPatchPayload(v, s))
  BY BodyIs, SentOnTheWire, FormColumnsAre DEF IsPatchBody

LEMMA CreateTyped ==
    ASSUME NEW v, Good(v), v["dateFrom"] # Null, v["dateTo"] # Null
    PROVE  IsCreateBody(toCreatePayload(v))
<1>1. /\ DOMAIN toCreatePayload(v) = FormColumns
      /\ \A f \in FormColumns : toCreatePayload(v)[f] = Sent(v, f)
  BY DEF toCreatePayload
<1>2. FormColumns \subseteq Fields \ {"status", "muted_until"}
  BY FormColumnsAre
<1>3. Sent(v, "date_from") # Null /\ Sent(v, "date_to") # Null
  BY SentIs
<1> QED
  BY <1>1, <1>2, <1>3, SentOnTheWire DEF IsCreateBody

(* ... of any watch, the columns the form does not show stay. *)
LEMMA MergeKeepsOthers ==
    ASSUME NEW v, NEW s, NEW source, NEW f \in Fields \ FormColumns
    PROVE  MergePatch(s, toPatchPayload(v, source))[f] = s[f]
  BY BodyIs DEF MergePatch

(* ... of the watch that filled the form, the columns get what it shows.   *)
LEMMA MergedIs ==
    ASSUME NEW v, Good(v), NEW s
    PROVE  LET w == MergePatch(s, toPatchPayload(v, s))
           IN  /\ \A f \in FormColumns \ {"max_price_minor"} :
                    w[f] = IF f \in RequiredFields /\ Sent(v, f) = Null THEN s[f] ELSE Sent(v, f)
               /\ w["max_price_minor"] =
                    IF v["maxPriceEur"] = fromSubscription(s)["maxPriceEur"]
                    THEN s["max_price_minor"] ELSE v["maxPriceEur"]
<1> DEFINE b == toPatchPayload(v, s)
           w == MergePatch(s, b)
<1>1. ASSUME NEW f \in FormColumns \cap DOMAIN b
      PROVE  w[f] = IF f \in RequiredFields /\ Sent(v, f) = Null THEN s[f] ELSE Sent(v, f)
  <2>1. b[f] = Sent(v, f) /\ f \in Fields
    BY BodyIs, FormColumnsAre
  <2>2. w[f] = IF f \in NullErrors(b) THEN s[f]
               ELSE IF b[f] = Null THEN Zero(f) ELSE Decoded(f, b[f])
    BY <2>1 DEF MergePatch
  <2>3. f \in NullErrors(b) <=> f \in RequiredFields /\ Sent(v, f) = Null
    BY <2>1 DEF NullErrors
  <2>4. f \notin RequiredFields /\ Sent(v, f) = Null => Zero(f) = Null
    BY SentDecodes DEF RequiredFields, Zero, ListFields, NullableFields
  <2> QED
    BY <2>1, <2>2, <2>3, <2>4, SentDecodes
<1>2. ASSUME NEW f \in FormColumns \ DOMAIN b
      PROVE  w[f] = s[f] /\ Sent(v, f) = fromSubscription(s)[serverFieldMap[f]]
  BY BodyIs, FormColumnsAre DEF MergePatch
<1>3. ASSUME NEW f \in FormColumns \ {"max_price_minor"}
      PROVE  fromSubscription(s)[serverFieldMap[f]] = s[f]
  BY FormColumnsAre, FromSubscriptionIs DEF serverFieldMap
<1>4. w["max_price_minor"] =
        IF v["maxPriceEur"] = fromSubscription(s)["maxPriceEur"]
        THEN s["max_price_minor"] ELSE v["maxPriceEur"]
  <2>1. "max_price_minor" \in FormColumns /\ "max_price_minor" \notin RequiredFields
    BY FormColumnsAre DEF RequiredFields
  <2>2. "max_price_minor" \in DOMAIN b => v["maxPriceEur"] # fromSubscription(s)["maxPriceEur"]
    BY BodyIs, SentIs DEF ReturnDates, serverFieldMap
  <2>3. serverFieldMap["max_price_minor"] = "maxPriceEur"
    BY DEF serverFieldMap
  <2> QED
    BY <1>1, <1>2, <2>1, <2>2, <2>3, SentIs
<1> QED
  BY <1>1, <1>2, <1>3, <1>4

-----------------------------------------------------------------------------
(* Rules: what the server says of a watch that the form wrote *)

OtherColumns ==
    {"status", "airlines_whitelist", "airlines_blacklist", "trip_length_min",
     "trip_length_max", "max_duration_minutes", "cooldown_hours", "drop_pct",
     "stable_price_band_pct", "muted_until"}

LEMMA OtherColumnsAre == Fields \ FormColumns = OtherColumns
  BY FormColumnsAre
     DEF OtherColumns, Fields, RequiredFields, ListFields, NullableFields

(* A rule about a column the form does not show looks at no other.         *)
LEMMA OthersAlike ==
    ASSUME NEW s, NEW w, \A g \in OtherColumns : w[g] = s[g], NEW f \in OtherColumns,
           ~Broken(s, f)
    PROVE  ~Broken(w, f)
<1>1. CASE f \in {"airlines_whitelist", "airlines_blacklist"}
  BY <1>1 DEF Broken, OtherColumns, CarriersBroken, BlacklistBroken
<1>2. CASE f \in {"trip_length_min", "trip_length_max"}
  BY <1>2 DEF Broken, OtherColumns, TripLengthMinBroken, TripLengthMaxBroken
<1>3. CASE f \in {"status", "max_duration_minutes", "cooldown_hours", "drop_pct",
                 "stable_price_band_pct", "muted_until"}
  BY <1>3 DEF Broken, OtherColumns
<1> QED
  BY <1>1, <1>2, <1>3 DEF OtherColumns

(* What no client has given breaks no rule. *)
LEMMA ZeroIsFine ==
    ASSUME NEW w, \A g \in OtherColumns : w[g] = Zero(g), NEW f \in OtherColumns
    PROVE  ~Broken(w, f)
<1>1. CASE f \in {"airlines_whitelist", "airlines_blacklist"}
  <2>1. w["airlines_whitelist"] = <<>> /\ w["airlines_blacklist"] = <<>>
    BY DEF OtherColumns, Zero, ListFields
  <2>2. ~CarriersBroken(<<>>)
    BY CapsAssumption DEF CarriersBroken, OnlyKnown, HasDuplicate
  <2> QED
    BY <1>1, <2>1, <2>2 DEF Broken, BlacklistBroken
<1>2. CASE f = "status"
  BY <1>2 DEF Broken, OtherColumns, Zero, ListFields, Statuses
<1>3. CASE f \in OtherColumns \ {"airlines_whitelist", "airlines_blacklist", "status"}
  <2>1. \A g \in OtherColumns \ {"airlines_whitelist", "airlines_blacklist", "status"} :
            w[g] = Null
    BY DEF OtherColumns, Zero, ListFields
  <2> QED
    BY <1>3, <2>1 DEF Broken, OtherColumns, Given, TripLengthMinBroken, TripLengthMaxBroken,
          CooldownBroken, DropBroken, BandBroken
<1> QED
  BY <1>1, <1>2, <1>3

(* Values the form does not complain about. *)
Checked(v) == \E day \in Int : validate(v, day) = {}

LEMMA CheckedValues ==
    ASSUME NEW v, Good(v), Checked(v)
    PROVE  /\ v["origin"] \in Airports
           /\ v["destinations"] # <<>> /\ ~Mentions(v["destinations"], v["origin"])
           /\ v["dateFrom"] \in Int \ {0} /\ v["dateTo"] \in Int \ {0}
           /\ ~(v["dateTo"] < v["dateFrom"])
           /\ v["roundTrip"] =>
                /\ v["returnDateFrom"] \in Int /\ v["returnDateTo"] \in Int
                /\ ~(v["returnDateTo"] < v["returnDateFrom"])
                /\ ~(v["returnDateFrom"] < v["dateFrom"])
           /\ ~PriceWrong(v)
<1>1. PICK day \in Int : validate(v, day) = {}
  BY DEF Checked
<1>2. {"origin", "destinations", "dateFrom", "dateTo", "returnDateFrom", "returnDateTo",
        "maxPriceEur"} \subseteq ErrorKeys
  <2>1. ErrorKeys = stepFields[1] \cup stepFields[2] \cup stepFields[3] \cup stepFields[4]
                    \cup stepFields[5]
    BY DEF ErrorKeys, Summary
  <2> QED
    BY <2>1 DEF stepFields
<1>3. /\ ~Wrong(v, day, "origin") /\ ~Wrong(v, day, "destinations")
      /\ ~Wrong(v, day, "dateFrom") /\ ~Wrong(v, day, "dateTo")
      /\ ~Wrong(v, day, "returnDateFrom") /\ ~Wrong(v, day, "returnDateTo")
      /\ ~Wrong(v, day, "maxPriceEur")
  BY <1>1, <1>2 DEF validate
<1>4. /\ v["origin"] # Blank /\ v["destinations"] # <<>>
      /\ ~Mentions(v["destinations"], v["origin"]) /\ ~DateFromMissing(v)
      /\ ~DateToWrong(v, day) /\ ~ReturnDateFromWrong(v) /\ ~ReturnDateToWrong(v)
      /\ ~PriceWrong(v)
  BY <1>3, Zenon DEF Wrong
<1>5. /\ v["origin"] \in Airports \cup {Blank} /\ v["roundTrip"] \in BOOLEAN
      /\ \A k \in {"dateFrom", "dateTo", "returnDateFrom", "returnDateTo"} :
            v[k] \in Int \cup {Null}
  BY DEF Good, FormValues, IsFormValues, stepFields
<1>6. v["dateFrom"] \in Int \ {0} /\ v["dateTo"] \in Int \ {0}
  BY <1>4, <1>5 DEF DateFromMissing, Given, Good
<1>7. v["roundTrip"] =>
        /\ v["returnDateFrom"] \in Int /\ v["returnDateTo"] \in Int
        /\ ~(v["returnDateTo"] < v["returnDateFrom"])
        /\ ~(v["returnDateFrom"] < v["dateFrom"])
  <2> SUFFICES ASSUME v["roundTrip"]
               PROVE  /\ v["returnDateFrom"] \in Int /\ v["returnDateTo"] \in Int
                      /\ ~(v["returnDateTo"] < v["returnDateFrom"])
                      /\ ~(v["returnDateFrom"] < v["dateFrom"])
    OBVIOUS
  <2>1. ~ReturnMissing(v)
    BY <1>4 DEF ReturnDateFromWrong
  <2>2. v["returnDateFrom"] \in Int /\ v["returnDateTo"] \in Int
    BY <1>5, <2>1 DEF ReturnMissing, Given
  <2>3. ~(v["returnDateTo"] < v["returnDateFrom"])
    BY <1>4, <2>1 DEF ReturnDateToWrong
  <2>4. Given(v["dateFrom"])
    BY <1>4 DEF DateFromMissing
  <2> QED
    BY <1>4, <1>6, <2>2, <2>3, <2>4 DEF ReturnDateFromWrong
<1> QED
  BY <1>4, <1>5, <1>6, <1>7, NullAssumption DEF DateToWrong

(* The columns that such values fill break no rule.  A ceiling that was    *)
(* left alone keeps its cents.                                             *)
LEMMA CheckedIsFine ==
    ASSUME NEW v, Good(v), Checked(v),
           NEW w, \A f \in FormColumns \ {"max_price_minor"} : w[f] = Sent(v, f),
           ~MaxPriceBroken(w), NEW f \in FormColumns,
           f = "origin_alternatives" => ~Mentions(v["originAlternatives"], v["origin"])
    PROVE  ~Broken(w, f)
<1>1. /\ w["origin"] = v["origin"] /\ w["origin_alternatives"] = v["originAlternatives"]
      /\ w["destinations"] = v["destinations"]
      /\ w["date_from"] = v["dateFrom"] /\ w["date_to"] = v["dateTo"]
      /\ w["return_date_from"] = IF v["roundTrip"] THEN v["returnDateFrom"] ELSE Null
      /\ w["return_date_to"] = IF v["roundTrip"] THEN v["returnDateTo"] ELSE Null
      /\ w["alert_strategy"] = v["alertStrategy"] /\ w["max_stops"] = v["maxStops"]
  BY FormColumnsAre, SentIs
<1>2. /\ v["originAlternatives"] \in Seq(Airports) /\ NoRepeats(v["originAlternatives"])
      /\ Len(v["originAlternatives"]) <= MaxOriginAlternatives
      /\ v["destinations"] \in Seq(Airports) /\ NoRepeats(v["destinations"])
      /\ Len(v["destinations"]) <= MaxDestinations
      /\ v["alertStrategy"] \in AlertStrategies
  BY DEF Good, FormValues, IsFormValues
<1>3. CASE f = "origin"
  BY <1>1, <1>3, CheckedValues DEF Broken
<1>4. CASE f = "origin_alternatives"
  <2>1. ~OriginAlternativesBroken(w)
    BY <1>1, <1>2, <1>4, CapsAssumption
       DEF OriginAlternativesBroken, OnlyKnown, HasDuplicate, NoRepeats
  <2> QED
    BY <1>4, <2>1 DEF Broken
<1>5. CASE f = "destinations"
  <2>1. Len(v["destinations"]) \in 1 .. MaxDestinations
    BY <1>2, CheckedValues, CapsAssumption
  <2>2. ~DestinationsBroken(w)
    BY <1>1, <1>2, <2>1, CheckedValues DEF DestinationsBroken, OnlyKnown, HasDuplicate, NoRepeats
  <2> QED
    BY <1>5, <2>2 DEF Broken
<1>6. CASE f \in {"date_from", "date_to"}
  <2>1. ~DateFromBroken(w) /\ ~DateToBroken(w)
    BY <1>1, CheckedValues DEF DateFromBroken, DateToBroken
  <2> QED
    BY <1>6, <2>1 DEF Broken
<1>7. CASE f \in {"return_date_from", "return_date_to"}
  <2>1. ~ReturnDateFromBroken(w) /\ ~ReturnDateToBroken(w)
    BY <1>1, CheckedValues, NullAssumption
       DEF ReturnDateFromBroken, ReturnDateToBroken, ReturnWindowHalfGiven, ReturnWindowGiven,
           Given
  <2> QED
    BY <1>7, <2>1 DEF Broken
<1>8. CASE f = "max_price_minor"
  BY <1>8 DEF Broken
<1>9. CASE f = "max_stops"
  BY <1>1, <1>9 DEF Broken, Good, Given
<1>10. CASE f = "alert_strategy"
  BY <1>1, <1>2, <1>10 DEF Broken
<1> QED
  BY <1>3, <1>4, <1>5, <1>6, <1>7, <1>8, <1>9, <1>10, FormColumnsAre

(* Of any body of the form the server refuses only columns the form shows. *)
LEMMA CreateRefusals ==
    ASSUME NEW v, Good(v)
    PROVE  Validate(FromCreateBody(toCreatePayload(v))) \subseteq FormColumns
  BY CreatedIs, OtherColumnsAre, ZeroIsFine DEF Validate

LEMMA PatchRefusals ==
    ASSUME NEW v, NEW s, Valid(s), NEW source
    PROVE  /\ NullErrors(toPatchPayload(v, source)) \subseteq FormColumns
           /\ Validate(MergePatch(s, toPatchPayload(v, source))) \subseteq FormColumns
<1>1. \A f \in OtherColumns :
        ~Broken(s, f) /\ MergePatch(s, toPatchPayload(v, source))[f] = s[f]
  BY MergeKeepsOthers, OtherColumnsAre DEF Valid, Validate
<1>2. Validate(MergePatch(s, toPatchPayload(v, source))) \subseteq FormColumns
  BY <1>1, OthersAlike, OtherColumnsAre DEF Validate
<1>3. NullErrors(toPatchPayload(v, source)) \subseteq FormColumns
  BY BodyIs DEF NullErrors
<1> QED
  BY <1>2, <1>3

(* What a form that was checked creates. *)
LEMMA CheckedCreates ==
    ASSUME NEW v, Good(v), Checked(v)
    PROVE  LET w == FromCreateBody(toCreatePayload(v))
           IN  /\ \A f \in FormColumns : w[f] = Sent(v, f)
               /\ ~MaxPriceBroken(w)
               /\ IsCreateBody(toCreatePayload(v))
<1> DEFINE w == FromCreateBody(toCreatePayload(v))
<1>1. v["dateFrom"] # Null /\ v["dateTo"] # Null
  BY CheckedValues, NullAssumption
<1>2. ASSUME NEW f \in FormColumns
      PROVE  w[f] = Sent(v, f)
  <2>1. CASE Sent(v, f) # Null
    BY <2>1, CreatedIs
  <2>2. CASE Sent(v, f) = Null
    <3>1. f \in NullableFields
      BY <1>1, <2>2, SentDecodes, SentIs
    <3>2. Zero(f) = Null
      BY <3>1 DEF Zero, NullableFields, ListFields
    <3> QED
      BY <2>2, <3>2, CreatedIs
  <2> QED
    BY <2>1, <2>2
<1>3. w["max_price_minor"] = v["maxPriceEur"] /\ w["alert_strategy"] = v["alertStrategy"]
  BY <1>2, SentIs, FormColumnsAre
<1>4. ~MaxPriceBroken(w)
  <2>1. v["maxPriceEur"] \in Int \cup {Null}
    BY DEF Good, FormValues, IsFormValues
  <2> QED
    BY <1>3, <2>1, CheckedValues DEF MaxPriceBroken, PriceWrong, Given
<1> QED
  BY <1>1, <1>2, <1>4, CreateTyped

(* What a form that was checked makes of the watch that filled it. *)
LEMMA CheckedMerges ==
    ASSUME NEW v, Good(v), Checked(v), NEW s, IsSubscription(s), Valid(s)
    PROVE  LET b == toPatchPayload(v, s)
               w == MergePatch(s, b)
           IN  /\ NullErrors(b) = {}
               /\ \A f \in FormColumns \ {"max_price_minor"} : w[f] = Sent(v, f)
               /\ ~MaxPriceBroken(w)
<1> DEFINE b == toPatchPayload(v, s)
           w == MergePatch(s, b)
<1>1. v["dateFrom"] # Null /\ v["dateTo"] # Null
  BY CheckedValues, NullAssumption
<1>2. ASSUME NEW f \in FormColumns \cap RequiredFields
      PROVE  Sent(v, f) # Null
  BY <1>1, SentDecodes, SentIs DEF RequiredFields, NullableFields
<1>3. NullErrors(b) = {}
  BY <1>2, BodyIs DEF NullErrors
<1>4. \A f \in FormColumns \ {"max_price_minor"} : w[f] = Sent(v, f)
  BY <1>2, MergedIs
<1>5. w["alert_strategy"] = v["alertStrategy"]
  BY <1>4, SentIs, FormColumnsAre
<1>6. ~MaxPriceBroken(w)
  <2>1. v["maxPriceEur"] \in Int \cup {Null} /\ s["max_price_minor"] \in Int \cup {Null}
    BY ColumnTypes DEF Good, FormValues, IsFormValues
  <2>2. CASE v["maxPriceEur"] # fromSubscription(s)["maxPriceEur"]
    <3>1. w["max_price_minor"] = v["maxPriceEur"]
      BY <2>2, MergedIs
    <3> QED
      BY <1>5, <2>1, <3>1, CheckedValues DEF MaxPriceBroken, PriceWrong, Given
  <2>3. CASE v["maxPriceEur"] = fromSubscription(s)["maxPriceEur"]
    <3>1. w["max_price_minor"] = s["max_price_minor"]
      BY <2>3, MergedIs
    <3>2. Given(s["max_price_minor"]) => s["max_price_minor"] > 0
      BY <2>1, ValidColumns DEF MaxPriceBroken, Given
    <3>3. ~Given(s["max_price_minor"]) => v["maxPriceEur"] = Null
      BY <2>3, FromSubscriptionIs
    <3>4. ~Given(s["max_price_minor"]) => v["alertStrategy"] # "absolute_threshold"
      BY <3>3, CheckedValues DEF PriceWrong, Given
    <3> HIDE DEF w
    <3>5. CASE Given(s["max_price_minor"])
      BY <2>1, <3>1, <3>2, <3>5 DEF MaxPriceBroken, Given
    <3>6. CASE ~Given(s["max_price_minor"])
      BY <1>5, <3>1, <3>4, <3>6, Zenon DEF MaxPriceBroken
    <3> QED
      BY <3>5, <3>6
  <2> QED
    BY <2>2, <2>3
<1> QED
  BY <1>3, <1>4, <1>6

(* The form's own validation is complete, for what was not changed under   *)
(* it and for an origin that is no alternative.                            *)
LEMMA CheckedIsAccepted ==
    ASSUME NEW v, Good(v), Checked(v), ~Mentions(v["originAlternatives"], v["origin"])
    PROVE  /\ Valid(FromCreateBody(toCreatePayload(v)))
           /\ \A s : IsSubscription(s) /\ Valid(s) => Valid(MergePatch(s, toPatchPayload(v, s)))
<1>1. Valid(FromCreateBody(toCreatePayload(v)))
  <2> DEFINE w == FromCreateBody(toCreatePayload(v))
  <2>1. (\A f \in FormColumns : w[f] = Sent(v, f)) /\ ~MaxPriceBroken(w)
    BY CheckedCreates
  <2>2. Validate(w) \subseteq FormColumns
    BY CreateRefusals
  <2> HIDE DEF w
  <2>3. \A f \in FormColumns : ~Broken(w, f)
    BY <2>1, CheckedIsFine
  <2> QED
    BY <2>2, <2>3 DEF Valid, Validate, w
<1>2. ASSUME NEW s, IsSubscription(s), Valid(s)
      PROVE  Valid(MergePatch(s, toPatchPayload(v, s)))
  <2> DEFINE w == MergePatch(s, toPatchPayload(v, s))
  <2>1. (\A f \in FormColumns \ {"max_price_minor"} : w[f] = Sent(v, f)) /\ ~MaxPriceBroken(w)
    BY <1>2, CheckedMerges
  <2>2. Validate(w) \subseteq FormColumns
    BY <1>2, PatchRefusals
  <2> HIDE DEF w
  <2>3. \A f \in FormColumns : ~Broken(w, f)
    BY <2>1, CheckedIsFine
  <2> QED
    BY <2>2, <2>3 DEF Valid, Validate, w
<1> QED
  BY <1>1, <1>2

LEMMA EurosBack ==
    ASSUME NEW price \in Int, price % 100 = 0
    PROVE  WholeEuros(price) = price
<1>1. PICK euros \in Int : price = 100 * euros
  <2>1. price = 100 * (price \div 100) /\ price \div 100 \in Int
    OBVIOUS
  <2> QED
    BY <2>1
<1>2. (100 * euros + 50) \div 100 = euros
  OBVIOUS
<1> QED
  BY <1>1, <1>2 DEF WholeEuros

(* What was typed, the return dates of a one-way trip aside. *)
Typed(v) ==
    [k \in FormKeys |->
        IF k \in {"returnDateFrom", "returnDateTo"} /\ ~v["roundTrip"] THEN Null ELSE v[k]]

(* A watch that holds what was sent fills a form with what was typed. *)
LEMMA ShownAgain ==
    ASSUME NEW v, Good(v), Checked(v), NEW w,
           \A f \in FormColumns \ {"max_price_minor"} : w[f] = Sent(v, f),
           \/ w["max_price_minor"] = v["maxPriceEur"]
           \/ fromSubscription(w)["maxPriceEur"] = v["maxPriceEur"]
    PROVE  fromSubscription(w) = Typed(v)
<1> DEFINE shown == fromSubscription(w)
<1>1. /\ shown["origin"] = v["origin"]
      /\ shown["originAlternatives"] = v["originAlternatives"]
      /\ shown["destinations"] = v["destinations"]
      /\ shown["dateFrom"] = v["dateFrom"] /\ shown["dateTo"] = v["dateTo"]
      /\ shown["alertStrategy"] = v["alertStrategy"] /\ shown["maxStops"] = v["maxStops"]
  BY FromSubscriptionIs, FormColumnsAre, SentIs
<1>2. /\ w["return_date_from"] = IF v["roundTrip"] THEN v["returnDateFrom"] ELSE Null
      /\ w["return_date_to"] = IF v["roundTrip"] THEN v["returnDateTo"] ELSE Null
  BY FormColumnsAre, SentIs
<1>3. /\ shown["returnDateFrom"] = IF v["roundTrip"] THEN v["returnDateFrom"] ELSE Null
      /\ shown["returnDateTo"] = IF v["roundTrip"] THEN v["returnDateTo"] ELSE Null
  BY <1>2, FromSubscriptionIs
<1>4. shown["roundTrip"] = v["roundTrip"]
  <2>1. v["roundTrip"] \in BOOLEAN
    BY DEF Good, FormValues, IsFormValues
  <2>2. v["roundTrip"] => v["returnDateFrom"] # Null
    BY CheckedValues, NullAssumption
  <2>3. shown["roundTrip"] = Given(w["return_date_from"])
    BY FromSubscriptionIs
  <2>4. CASE v["roundTrip"]
    BY <1>2, <2>1, <2>2, <2>3, <2>4 DEF Given
  <2>5. CASE ~v["roundTrip"]
    BY <1>2, <2>1, <2>3, <2>5 DEF Given
  <2> QED
    BY <2>4, <2>5
<1>5. shown["maxPriceEur"] = v["maxPriceEur"]
  <2> SUFFICES ASSUME w["max_price_minor"] = v["maxPriceEur"]
               PROVE  shown["maxPriceEur"] = v["maxPriceEur"]
    OBVIOUS
  <2>1. v["maxPriceEur"] \in Int \cup {Null}
    BY DEF Good, FormValues, IsFormValues
  <2>2. CASE v["maxPriceEur"] = Null
    BY <2>2, FromSubscriptionIs DEF Given
  <2>3. CASE v["maxPriceEur"] \in Int /\ v["maxPriceEur"] # Null
    <3>1. v["maxPriceEur"] % 100 = 0
      BY <2>3, CheckedValues DEF PriceWrong, Given
    <3>2. WholeEuros(v["maxPriceEur"]) = v["maxPriceEur"]
      BY <2>3, <3>1, EurosBack
    <3> QED
      BY <2>3, <3>2, FromSubscriptionIs DEF Given
  <2> QED
    BY <2>1, <2>2, <2>3
<1>6. shown = [k \in FormKeys |-> shown[k]]
  BY FromSubscriptionIs
<1> HIDE DEF shown
<1>7. \A k \in FormKeys : shown[k] = Typed(v)[k]
  BY <1>1, <1>3, <1>4, <1>5, FormKeysAre DEF Typed
<1> QED
  BY <1>6, <1>7 DEF Typed, shown

-----------------------------------------------------------------------------
(* Inputs: what may stand in each, and what entering something leaves *)

Possible(k, x) ==
    /\ k = "origin" => x \in Airports \cup {Blank}
    /\ k \in {"originAlternatives", "destinations"} => x \in Seq(Airports) /\ NoRepeats(x)
    /\ k = "originAlternatives" => Len(x) <= MaxOriginAlternatives
    /\ k = "destinations" => Len(x) <= MaxDestinations
    /\ k \in {"dateFrom", "dateTo", "returnDateFrom", "returnDateTo", "maxPriceEur"} =>
            x \in Int \cup {Null}
    /\ k \in {"dateFrom", "dateTo"} => x # 0
    /\ k = "maxStops" => x \in Nat \cup {Null}
    /\ k = "alertStrategy" => x \in AlertStrategies
    /\ k = "roundTrip" => x \in BOOLEAN

LEMMA GoodIs ==
    ASSUME NEW v
    PROVE  Good(v) <=> v \in Values /\ \A k \in FormKeys : Possible(k, v[k])
<1>1. ASSUME Good(v)
      PROVE  v \in Values /\ \A k \in FormKeys : Possible(k, v[k])
  BY <1>1, FormKeysAre DEF Good, FormValues, IsFormValues, stepFields, Possible
<1>2. ASSUME v \in Values, \A k \in FormKeys : Possible(k, v[k])
      PROVE  Good(v)
  <2>1. DOMAIN v = FormKeys
    BY <1>2 DEF Values
  <2>2. /\ Possible("origin", v["origin"])
        /\ Possible("originAlternatives", v["originAlternatives"])
        /\ Possible("destinations", v["destinations"])
        /\ Possible("dateFrom", v["dateFrom"]) /\ Possible("dateTo", v["dateTo"])
        /\ Possible("returnDateFrom", v["returnDateFrom"])
        /\ Possible("returnDateTo", v["returnDateTo"])
        /\ Possible("alertStrategy", v["alertStrategy"])
        /\ Possible("maxPriceEur", v["maxPriceEur"]) /\ Possible("maxStops", v["maxStops"])
        /\ Possible("roundTrip", v["roundTrip"])
    BY <1>2, FormKeysAre
  <2>3. IsFormValues(v)
    BY <2>1, <2>2 DEF IsFormValues, stepFields, Possible
  <2> QED
    BY <1>2, <2>2, <2>3 DEF Good, FormValues, Possible
<1> QED
  BY <1>1, <1>2

LEMMA GoodWith ==
    ASSUME NEW v, Good(v), NEW k \in FormKeys, NEW x, Possible(k, x)
    PROVE  Good([v EXCEPT ![k] = x])
<1> DEFINE w == [v EXCEPT ![k] = x]
<1>1. x \in Airports \cup Seq(Airports) \cup Int \cup AlertStrategies \cup BOOLEAN
                \cup {Blank, Null}
  BY FormKeysAre DEF Possible
<1>2. w \in Values
  BY <1>1 DEF Good, Values
<1>3. ASSUME NEW j \in FormKeys
      PROVE  Possible(j, w[j])
  <2>1. w[j] = IF j = k THEN x ELSE v[j]
    BY DEF Good, Values
  <2> QED
    BY <2>1, GoodIs
<1> QED
  BY <1>2, <1>3, GoodIs

(* The form that is open, and the watch that filled it. *)
FormInv ==
    form # Null =>
        /\ form \in Forms /\ Good(form.values)
        /\ (form.source = Null) = (form.mode = "create")
        /\ form.source # Null => GoodWatch(form.source)

(* What may be typed is what the errand allows. *)
LEMMA EntersAre ==
    ASSUME FormInv, form # Null
    PROVE  /\ \A k \in {"origin", "originAlternatives", "destinations"} :
                form.enters[k] \subseteq Airports
           /\ form.enters["roundTrip"] \subseteq BOOLEAN
           /\ \A k \in {"dateFrom", "dateTo", "returnDateFrom", "returnDateTo", "maxPriceEur",
                        "maxStops", "alertStrategy"} :
                \A x \in form.enters[k] : Possible(k, x)
<1>1. PICK errand \in UNION {Errands[n] : n \in Visits} : form.enters = errand.enters
  BY DEF FormInv, Forms
<1>2. PICK n \in Visits : errand \in Errands[n]
  OBVIOUS
<1>3. stepFields[3] = {"dateFrom", "dateTo", "returnDateFrom", "returnDateTo"}
  BY DEF stepFields
<1> QED
  BY <1>1, <1>2, <1>3, ErrandsAssumption DEF Possible

LEMMA DropPossible ==
    ASSUME NEW k \in {"originAlternatives", "destinations"}, NEW list, Possible(k, list),
           NEW i \in DOMAIN list
    PROVE  Possible(k, RemoveAt(list, i))
<1>1. list \in Seq(Airports) /\ Distinct(list)
  BY DEF Possible, NoRepeats, Distinct
<1>2. RemoveAt(list, i) \in Seq(Airports) /\ Len(RemoveAt(list, i)) = Len(list) - 1
  BY <1>1, RemovedAt
<1>3. NoRepeats(RemoveAt(list, i))
  BY <1>1, RemovedDistinct DEF Distinct, NoRepeats
<1>4. Len(list) \in Nat
  BY <1>1
<1> QED
  BY <1>2, <1>3, <1>4, CapsAssumption DEF Possible

LEMMA AddPossible ==
    ASSUME NEW k \in {"originAlternatives", "destinations"}, NEW list, Possible(k, list),
           NEW code \in Airports \ ToSet(list),
           Len(list) < IF k = "destinations" THEN MaxDestinations ELSE MaxOriginAlternatives
    PROVE  Possible(k, Append(list, code))
<1>1. list \in Seq(Airports) /\ Distinct(list)
  BY DEF Possible, NoRepeats, Distinct
<1>2. \A i \in DOMAIN list : list[i] # code
  BY DEF ToSet
<1>3. /\ Append(list, code) \in Seq(Airports) /\ Distinct(Append(list, code))
      /\ Len(Append(list, code)) = Len(list) + 1
  BY <1>1, <1>2, AppendedDistinct
<1>4. Len(list) \in Nat
  BY <1>1
<1> QED
  BY <1>3, <1>4, CapsAssumption DEF Possible, Distinct, NoRepeats

(* Whatever is done to an input other than the toggle enters a possible    *)
(* value into it.                                                          *)
Entered == \E k \in ErrorKeys : \E x : Possible(k, x) /\ Enter(k, x)

LEMMA FillInEnters ==
    ASSUME FormInv, FillIn
    PROVE  Entered \/ \E on \in BOOLEAN : ToggleRoundTrip(on)
<1>1. form # Null /\ Good(form.values)
  BY DEF FillIn, FormInv
<1>2. ErrorKeys = FormKeys \ {"roundTrip"}
  BY FormKeysAre DEF FormKeys, ErrorKeys, stepFields, Summary
<1>3. {"origin", "originAlternatives", "destinations"} \subseteq ErrorKeys
  BY <1>2, FormKeysAre
<1>4. CASE PickOrigin
  <2>1. PICK x : (x = Blank \/ x \in form.enters["origin"]) /\ Enter("origin", x)
    BY <1>4 DEF PickOrigin
  <2>2. Possible("origin", x)
    BY <1>1, <2>1, EntersAre DEF Possible
  <2> QED
    BY <1>3, <2>1, <2>2 DEF Entered
<1>5. ASSUME NEW k \in {"originAlternatives", "destinations"}, Drop(k)
      PROVE  Entered
  <2>1. Possible(k, form.values[k])
    BY <1>1, FormKeysAre, GoodIs
  <2> QED
    BY <1>3, <1>5, <2>1, DropPossible DEF Drop, Entered
<1>6. CASE PickAlternative
  <2> DEFINE chosen == form.values["originAlternatives"]
  <2>1. Possible("originAlternatives", chosen)
    BY <1>1, FormKeysAre, GoodIs
  <2>2. ASSUME NEW code \in form.enters["originAlternatives"]
                            \ ({form.values["origin"]} \cup ToSet(chosen)),
               Len(chosen) < PickerAlternatives,
               Enter("originAlternatives", Append(chosen, code))
        PROVE  Entered
    <3>1. code \in Airports \ ToSet(chosen)
      BY <1>1, EntersAre
    <3>2. Len(chosen) < MaxOriginAlternatives
      BY <2>1, <2>2, BoundsAssumption, CapsAssumption DEF Possible
    <3>3. Possible("originAlternatives", Append(chosen, code))
      BY <2>1, <3>1, <3>2, AddPossible
    <3> QED
      BY <1>3, <2>2, <3>3 DEF Entered
  <2>3. ASSUME Enter("originAlternatives", <<>>)
        PROVE  Entered
    <3>1. Possible("originAlternatives", <<>>)
      BY CapsAssumption DEF Possible, NoRepeats
    <3> QED
      BY <1>3, <2>3, <3>1 DEF Entered
  <2> QED
    BY <1>5, <1>6, <2>2, <2>3 DEF PickAlternative
<1>7. CASE PickDestination
  <2> DEFINE chosen == form.values["destinations"]
  <2>1. Possible("destinations", chosen)
    BY <1>1, FormKeysAre, GoodIs
  <2>2. ASSUME NEW code \in form.enters["destinations"]
                            \ ({form.values["origin"]} \cup ToSet(chosen)),
               Len(chosen) <= PickerExtras,
               Enter("destinations", Append(chosen, code))
        PROVE  Entered
    <3>1. code \in Airports \ ToSet(chosen)
      BY <1>1, EntersAre
    <3>2. Len(chosen) < MaxDestinations
      BY <2>1, <2>2, BoundsAssumption, CapsAssumption DEF Possible
    <3>3. Possible("destinations", Append(chosen, code))
      BY <2>1, <3>1, <3>2, AddPossible
    <3> QED
      BY <1>3, <2>2, <3>3 DEF Entered
  <2>3. ASSUME Len(chosen) > 1, Enter("destinations", SubSeq(chosen, 1, 1))
        PROVE  Entered
    <3>1. /\ SubSeq(chosen, 1, 1) \in Seq(Airports) /\ Len(SubSeq(chosen, 1, 1)) = 1
          /\ DOMAIN SubSeq(chosen, 1, 1) = {1}
      BY <2>1, <2>3 DEF Possible
    <3>2. Possible("destinations", SubSeq(chosen, 1, 1))
      BY <3>1, CapsAssumption DEF Possible, NoRepeats
    <3> QED
      BY <1>3, <2>3, <3>2 DEF Entered
  <2> QED
    BY <1>5, <1>7, <2>2, <2>3 DEF PickDestination
<1>8. ASSUME NEW k \in Inputs, NEW x \in form.enters[k], Enter(k, x)
      PROVE  Entered
  <2>1. k \in {"dateFrom", "dateTo", "returnDateFrom", "returnDateTo", "maxPriceEur",
               "maxStops", "alertStrategy"}
    <3>1. form.step \in {1, 2, 3, 4, 5}
      BY <1>1 DEF FormInv, Forms, Summary
    <3> QED
      BY <3>1 DEF Inputs, stepFields
  <2>2. Possible(k, x)
    BY <1>1, <1>8, <2>1, EntersAre
  <2> QED
    BY <1>2, <1>8, <2>1, <2>2, FormKeysAre DEF Entered
<1>9. ASSUME NEW on \in form.enters["roundTrip"], ToggleRoundTrip(on)
      PROVE  \E o \in BOOLEAN : ToggleRoundTrip(o)
  BY <1>1, <1>9, EntersAre
<1> QED
  BY <1>4, <1>6, <1>7, <1>8, <1>9 DEF FillIn

(* Entering a possible value leaves a possible form. *)
LEMMA EnteredInv ==
    ASSUME FormInv, FillIn
    PROVE  /\ FormInv' /\ form' \in Forms
           /\ form'.mode = form.mode /\ form'.source = form.source
<1> DEFINE Kept == /\ FormInv' /\ form' \in Forms
                   /\ form'.mode = form.mode /\ form'.source = form.source
<1>1. form \in Forms /\ Good(form.values) /\ form # Null
  BY DEF FormInv, FillIn
<1>2. ASSUME NEW values, Good(values), NEW errors \in SUBSET ErrorKeys,
             form' = [form EXCEPT !.values = values, !.errors = errors]
      PROVE  Kept
  <2>1. /\ form' \in Forms /\ form'.values = values
        /\ form'.source = form.source /\ form'.mode = form.mode
    BY <1>1, <1>2 DEF Forms, Good
  <2> QED
    BY <1>1, <1>2, <2>1 DEF FormInv
<1>3. form.errors \subseteq ErrorKeys
  BY <1>1 DEF Forms
<1>4. CASE Entered
  <2>0. PICK k \in ErrorKeys : \E x : Possible(k, x) /\ Enter(k, x)
    BY <1>4 DEF Entered
  <2>1. PICK x : Possible(k, x) /\ Enter(k, x)
    BY <2>0
  <2>2. Good([form.values EXCEPT ![k] = x])
    BY <1>1, <2>1, GoodWith DEF FormKeys
  <2>3. form' = [form EXCEPT !.values = [form.values EXCEPT ![k] = x],
                             !.errors = form.errors \ {k}]
    BY <1>1, <2>1 DEF Enter, Forms
  <2> DEFINE values == [form.values EXCEPT ![k] = x]
             errors == form.errors \ {k}
  <2>4. Good(values) /\ errors \in SUBSET ErrorKeys
    BY <1>3, <2>2
  <2>5. form' = [form EXCEPT !.values = values, !.errors = errors]
    BY <2>3
  <2> HIDE DEF values, errors
  <2> QED
    BY <1>2, <2>4, <2>5
<1>5. ASSUME NEW on \in BOOLEAN, ToggleRoundTrip(on)
      PROVE  Kept
  <2> DEFINE v == form.values
             w == [v EXCEPT !["roundTrip"] = on]
             week == [v EXCEPT !["roundTrip"] = on, !["returnDateFrom"] = v["dateTo"],
                               !["returnDateTo"] = v["dateTo"] + 7]
  <2>1. Good(w)
    BY <1>1, FormKeysAre, GoodWith DEF Possible
  <2>2. ASSUME Given(v["dateTo"])
        PROVE  Good(week)
    <3>1. v["dateTo"] \in Int
      BY <1>1, <2>2, FormKeysAre, GoodIs DEF Possible, Given
    <3> DEFINE w1 == [w EXCEPT !["returnDateFrom"] = v["dateTo"]]
    <3>2. Good(w1)
      BY <2>1, <3>1, FormKeysAre, GoodWith DEF Possible
    <3>3. Good([w1 EXCEPT !["returnDateTo"] = v["dateTo"] + 7])
      <4> HIDE DEF w1
      <4> QED
        BY <3>1, <3>2, FormKeysAre, GoodWith DEF Possible
    <3>4. week = [w1 EXCEPT !["returnDateTo"] = v["dateTo"] + 7]
      BY <1>1 DEF Forms, Values
    <3> QED
      BY <3>3, <3>4
  <2> DEFINE proposed == on /\ ~Given(v["returnDateFrom"]) /\ Given(v["dateTo"])
             new == IF proposed THEN week ELSE w
             errors == form.errors \ {"returnDateFrom", "returnDateTo"}
  <2>3. Good(new)
    BY <2>1, <2>2
  <2>4. form' = [form EXCEPT !.values = new, !.errors = errors]
    BY <1>5 DEF ToggleRoundTrip
  <2>5. errors \in SUBSET ErrorKeys
    BY <1>3
  <2> HIDE DEF new, errors
  <2> QED
    BY <1>2, <2>3, <2>4, <2>5
<1> QED
  BY <1>4, <1>5, FillInEnters

-----------------------------------------------------------------------------
(* The inductive invariant *)

RowInv == row # Null => GoodWatch(row)

(* What the server may refuse of a save.  The columns the form cannot get  *)
(* wrong are never among it; the return dates are of an edit that sends    *)
(* them, or that left alone those others have set meanwhile.               *)
Refusable(s, fields) ==
    /\ fields \subseteq FormColumns \ {"alert_strategy", "max_stops"}
    /\ fields \cap ReturnDates # {} =>
          s.mode = "edit" /\ (s.values["roundTrip"] \/ ~Given(s.source["return_date_from"]))

SaveInv(s) ==
    /\ s \in Saves /\ Good(s.values) /\ Checked(s.values)
    /\ (s.source = Null) = (s.mode = "create")
    /\ s.source # Null => GoodWatch(s.source)
    /\ (s.stage = "refused") = (s.fields # {})
    /\ Refusable(s, s.fields)

SavesInv ==
    /\ saves \in [Visits -> Saves \cup {Null}]
    /\ \A n \in Visits : saves[n] # Null => n <= visit /\ SaveInv(saves[n])

(* What makes FiledOnce inductive: once the save of a visit is over and a  *)
(* watch filed, the form of that visit is closed.                          *)
FiledInv ==
    /\ filed \subseteq 1 .. visit
    /\ \A n \in filed :
          IF saves[n] = Null THEN ~Open(n) ELSE saves[n].stage = "done"

(* The save a form waits for is one of the watch it shows. *)
PendingInv ==
    form # Null /\ saves[visit] # Null =>
        saves[visit].mode = form.mode /\ saves[visit].source = form.source

IndInv ==
    /\ RowInv
    /\ visit \in 0 .. MaxVisits
    /\ FormInv /\ (form # Null => visit > 0)
    /\ SavesInv
    /\ FiledInv
    /\ PendingInv

LEMMA WatchesAre ==
    ASSUME NEW s, IsSubscription(s), s = [f \in Fields |-> s[f]]
    PROVE  s \in Watches
<1>1. \A f \in Fields : Column[f] \subseteq Strings \cup Int \cup CodeLists \cup {Null}
  BY DEF Column
<1>2. \A f \in Fields : s[f] \in Strings \cup Int \cup CodeLists \cup {Null}
  BY <1>1 DEF IsSubscription
<1> QED
  BY <1>2 DEF Watches

LEMMA MergedWatch ==
    ASSUME NEW s, IsSubscription(s), NEW b, IsPatchBody(b), Valid(MergePatch(s, b))
    PROVE  GoodWatch(MergePatch(s, b))
<1>1. IsSubscription(MergePatch(s, b))
  BY MergePatchType
<1>2. MergePatch(s, b) = [f \in Fields |-> MergePatch(s, b)[f]]
  BY DEF MergePatch
<1> QED
  BY <1>1, <1>2, WatchesAre DEF GoodWatch

(* Steps of the server and of others leave the form alone, steps of the    *)
(* user leave the row.                                                     *)
LEMMA RowStep ==
    ASSUME IndInv, [Next]_vars
    PROVE  RowInv'
<1>1. ASSUME NEW n \in Visits, ServeSave(n), saves[n].mode = "edit"
      PROVE  RowInv'
  <2>1. saves[n] # Null /\ row # Null /\ RefusedFields(saves[n]) = {}
    BY <1>1 DEF ServeSave, Sending, NotFound
  <2>2. GoodWatch(row) /\ Good(saves[n].values)
    BY <2>1 DEF IndInv, RowInv, SavesInv, SaveInv
  <2>3. row' = MergePatch(row, Body(saves[n])) /\ Valid(row')
    BY <1>1, <2>1 DEF ServeSave, Written, RefusedFields, Valid
  <2>4. IsPatchBody(Body(saves[n]))
    BY <1>1, <2>2, PatchTyped DEF Body
  <2> QED
    BY <2>2, <2>3, <2>4, MergedWatch DEF RowInv, GoodWatch
<1>2. ASSUME NEW b \in Elsewhere, WriteElsewhere(b)
      PROVE  RowInv'
  <2>1. GoodWatch(row) /\ IsPatchBody(b) /\ Valid(MergePatch(row, b)) /\ row' = MergePatch(row, b)
    BY <1>2, ElsewhereAssumption DEF WriteElsewhere, IndInv, RowInv
  <2> QED
    BY <2>1, MergedWatch DEF RowInv, GoodWatch
<1>3. CASE DeleteElsewhere
  BY <1>3 DEF DeleteElsewhere, RowInv
<1>4. CASE row' = row
  BY <1>4 DEF IndInv, RowInv
<1>5. \/ row' = row \/ DeleteElsewhere
      \/ \E b \in Elsewhere : WriteElsewhere(b)
      \/ \E n \in Visits : ServeSave(n) /\ saves[n].mode = "edit"
  BY DEF Next, vars, UserActs, OpenForm, FillIn, GoBack, Leave, NextPage, NextRefused,
         ConfirmRefused, ConfirmUnchanged, ConfirmSave, ServeNothing, ServeRefusal, ServeSave,
         SaveEnds, SaveSucceeds, SaveRefused, SaveFails
<1> QED
  BY <1>1, <1>2, <1>3, <1>4, <1>5

LEMMA EmptyIsGood == Good(emptyForm)
<1>1. ASSUME NEW k \in FormKeys
      PROVE  Possible(k, emptyForm[k])
  <2>1. CASE k \in {"originAlternatives", "destinations"}
    <3>1. emptyForm[k] = <<>>
      BY <2>1 DEF emptyForm
    <3>2. <<>> \in Seq(Airports) /\ NoRepeats(<<>>) /\ Len(<<>>) = 0
      BY DEF NoRepeats
    <3> QED
      BY <2>1, <3>1, <3>2, CapsAssumption DEF Possible
  <2>2. CASE k \in {"origin", "roundTrip", "alertStrategy"}
    BY <2>2 DEF emptyForm, Possible, AlertStrategies
  <2>3. CASE k \in {"dateFrom", "dateTo", "returnDateFrom", "returnDateTo", "maxPriceEur",
                   "maxStops"}
    <3>1. emptyForm[k] = Null
      BY <2>3 DEF emptyForm
    <3> QED
      BY <2>3, <3>1, NullAssumption DEF Possible
  <2> QED
    BY <2>1, <2>2, <2>3, FormKeysAre
<1>2. emptyForm \in Values
  BY DEF emptyForm, Values, AlertStrategies
<1> QED
  BY <1>1, <1>2, GoodIs

(* The page the user is put on is one of the form's. *)
LEMMA FirstStepIs ==
    ASSUME NEW errors \in SUBSET ErrorKeys, errors # {}
    PROVE  /\ FirstInvalidStep(errors) \in 1 .. Summary
           /\ stepFields[FirstInvalidStep(errors)] \cap errors # {}
<1> DEFINE First(i) == /\ stepFields[i] \cap errors # {}
                       /\ \A j \in 1 .. i - 1 : stepFields[j] \cap errors = {}
<1>1. \E i \in 1 .. 5 : stepFields[i] \cap errors # {}
  BY DEF ErrorKeys, Summary
<1>2. \E i \in 1 .. Summary : First(i)
  <2>1. CASE stepFields[1] \cap errors # {}
    BY <2>1 DEF Summary
  <2>2. CASE stepFields[1] \cap errors = {} /\ stepFields[2] \cap errors # {}
    BY <2>2 DEF Summary
  <2>3. CASE stepFields[1] \cap errors = {} /\ stepFields[2] \cap errors = {}
               /\ stepFields[3] \cap errors # {}
    BY <2>3 DEF Summary
  <2>4. CASE stepFields[1] \cap errors = {} /\ stepFields[2] \cap errors = {}
               /\ stepFields[3] \cap errors = {} /\ stepFields[4] \cap errors # {}
    BY <2>4 DEF Summary
  <2>5. CASE stepFields[1] \cap errors = {} /\ stepFields[2] \cap errors = {}
               /\ stepFields[3] \cap errors = {} /\ stepFields[4] \cap errors = {}
               /\ stepFields[5] \cap errors # {}
    BY <2>5 DEF Summary
  <2> QED
    BY <1>1, <2>1, <2>2, <2>3, <2>4, <2>5
<1> QED
  BY <1>2 DEF FirstInvalidStep

(* Errors, the page and the notice change without touching what was typed. *)
Turned ==
    /\ form # Null /\ form' \in Forms
    /\ form'.values = form.values /\ form'.source = form.source /\ form'.mode = form.mode

LEMMA TurnedInv ==
    ASSUME FormInv, Turned
    PROVE  FormInv'
  BY DEF FormInv, Turned

LEMMA MappedAre ==
    ASSUME NEW fields \in SUBSET Fields
    PROVE  Mapped(fields) \in SUBSET ErrorKeys
<1>1. ErrorKeys = FormKeys \ {"roundTrip"}
  BY FormKeysAre DEF FormKeys, ErrorKeys, stepFields, Summary
<1>2. \A f \in FormColumns : serverFieldMap[f] \in ErrorKeys
  BY <1>1, FormColumnsAre, FormKeysAre DEF serverFieldMap
<1> QED
  BY <1>2 DEF Mapped

(* The steps that close a form. *)
Closed ==
    \/ Leave
    \/ \E day \in Days : ConfirmUnchanged(day)
    \/ \E n \in Visits : SaveSucceeds(n)

(* A form that is open stays one when the user acts and when a save ends,  *)
(* unless the step closes it.                                              *)
LEMMA FormStep ==
    ASSUME IndInv, [Next]_vars
    PROVE  FormInv' /\ (form' = form \/ form' \in Forms \/ Closed)
<1>1. CASE form' = form
  BY <1>1 DEF IndInv, FormInv
<1>2. CASE Closed
  <2>1. form' = Null
    BY <1>2 DEF Closed, Leave, ConfirmUnchanged, SaveSucceeds
  <2> QED
    BY <1>2, <2>1 DEF FormInv
<1>3. ASSUME NEW n \in Visits, NEW errand \in Errands[n], OpenForm(n, errand)
      PROVE  FormInv' /\ (form' = form \/ form' \in Forms \/ Closed)
  <2> DEFINE source == IF errand.mode = "create" THEN Null ELSE row
             values == IF source = Null THEN emptyForm ELSE fromSubscription(source)
  <2>1. form' = [mode |-> errand.mode, enters |-> errand.enters, source |-> source,
                 values |-> values, step |-> 1, errors |-> {}, serverError |-> FALSE]
    BY <1>3 DEF OpenForm
  <2>2. errand.mode \in Modes /\ (errand.mode = "create" \/ row # Null)
    BY <1>3, ErrandsAssumption DEF OpenForm
  <2>3. (source = Null) = (errand.mode = "create")
    BY <2>2
  <2>4. source # Null => GoodWatch(source)
    BY DEF IndInv, RowInv
  <2>5. Good(values)
    BY <2>4, EmptyIsGood, FromSubscriptionGood
  <2>6. errand.enters \in {e.enters : e \in UNION {Errands[i] : i \in Visits}}
    OBVIOUS
  <2> HIDE DEF source, values
  <2>7. form' \in Forms
    BY <2>1, <2>2, <2>4, <2>5, <2>6 DEF Forms, Good, GoodWatch, Summary
  <2> QED
    BY <2>1, <2>3, <2>4, <2>5, <2>7 DEF FormInv
<1>4. CASE FillIn
  BY <1>4, EnteredInv DEF IndInv
<1>5. form # Null =>
        /\ form \in Forms /\ form.errors \in SUBSET ErrorKeys /\ form.step \in 1 .. Summary
        /\ form.serverError \in BOOLEAN
  BY DEF IndInv, FormInv, Forms
<1>6. Turned => FormInv' /\ (form' = form \/ form' \in Forms \/ Closed)
  BY TurnedInv DEF IndInv, Turned
<1>7. ASSUME NEW day \in Days, NextPage(day)
      PROVE  Turned
  <2>1. form # Null /\ form.step + 1 \in 1 .. Summary
    BY <1>5, <1>7 DEF NextPage, Advance, Summary
  <2> QED
    BY <1>5, <1>7, <2>1 DEF NextPage, Turned, Forms
<1>8. ASSUME NEW day \in Days, NextRefused(day)
      PROVE  Turned
  <2>1. PageErrors(day) \in SUBSET ErrorKeys /\ form # Null
    BY <1>8 DEF NextRefused, Advance, PageErrors, validate
  <2> QED
    BY <1>5, <1>8, <2>1 DEF NextRefused, Turned, Forms
<1>9. ASSUME NEW step \in 1 .. Summary, GoBack(step)
      PROVE  Turned
  BY <1>5, <1>9 DEF GoBack, Turned, Forms
<1>10. ASSUME NEW day \in Days, ConfirmRefused(day)
       PROVE  Turned
  <2> DEFINE errors == validate(form.values, day)
             step == FirstInvalidStep(errors)
  <2>1. errors \in SUBSET ErrorKeys /\ errors # {} /\ form # Null
    BY <1>10 DEF ConfirmRefused, Advance, validate
  <2>2. step \in 1 .. Summary
    BY <2>1, FirstStepIs
  <2>3. form' = [form EXCEPT !.errors = errors, !.serverError = FALSE, !.step = step]
    BY <1>10 DEF ConfirmRefused
  <2> HIDE DEF errors, step
  <2> QED
    BY <1>5, <2>1, <2>2, <2>3 DEF Turned, Forms
<1>11. ASSUME NEW day \in Days, ConfirmSave(day)
       PROVE  Turned
  <2>1. form # Null /\ form' = [form EXCEPT !.errors = {}, !.serverError = FALSE]
    BY <1>11 DEF ConfirmSave, Confirmed, Advance
  <2> QED
    BY <1>5, <2>1 DEF Turned, Forms
<1>12. ASSUME NEW n \in Visits, SaveRefused(n), Open(n)
       PROVE  Turned
  <2> DEFINE fields == saves[n].fields
             step == IF Mapped(fields) = {} THEN form.step ELSE FirstInvalidStep(Mapped(fields))
             notice == Unmapped(fields) # {}
  <2>1. fields \in SUBSET Fields /\ form # Null
    BY <1>12, FormColumnsAre DEF IndInv, SavesInv, SaveInv, Refusable, SaveRefused, Open
  <2>2. Mapped(fields) \in SUBSET ErrorKeys
    BY <2>1, MappedAre
  <2>3. step \in 1 .. Summary
    BY <1>5, <2>1, <2>2, FirstStepIs
  <2>4. notice \in BOOLEAN
    OBVIOUS
  <2>5. form' = [form EXCEPT !.errors = Mapped(fields), !.step = step, !.serverError = notice]
    BY <1>12 DEF SaveRefused, Refuse
  <2> HIDE DEF fields, step, notice
  <2> QED
    BY <1>5, <2>1, <2>2, <2>3, <2>4, <2>5 DEF Turned, Forms
<1>13. ASSUME NEW n \in Visits, SaveFails(n), Open(n)
       PROVE  Turned
  BY <1>5, <1>13 DEF SaveFails, Open, Turned, Forms
<1>14. \/ form' = form \/ Closed \/ FillIn
       \/ \E n \in Visits : \E errand \in Errands[n] : OpenForm(n, errand)
       \/ \E step \in 1 .. Summary : GoBack(step)
       \/ \E day \in Days :
            NextPage(day) \/ NextRefused(day) \/ ConfirmRefused(day) \/ ConfirmSave(day)
       \/ \E n \in Visits : Open(n) /\ (SaveRefused(n) \/ SaveFails(n))
  BY DEF Next, vars, UserActs, Closed, ServeNothing, ServeRefusal, ServeSave,
         SaveEnds, SaveRefused, SaveFails, WriteElsewhere, DeleteElsewhere
<1> QED
  BY <1>1, <1>2, <1>3, <1>4, <1>6, <1>7, <1>8, <1>9, <1>10, <1>11, <1>12, <1>13, <1>14

-----------------------------------------------------------------------------
(* Requests *)

(* The server answers one save. *)
LEMMA ServedInv ==
    ASSUME SavesInv, NEW n \in Visits, saves[n] # Null, UNCHANGED visit,
           NEW stage \in {"sent", "done", "lost", "refused"}, NEW fields,
           Refusable(saves[n], fields),
           (stage = "refused") = (fields # {}), Served(n, stage, fields)
    PROVE  /\ SavesInv'
           /\ saves'[n] # Null /\ saves'[n].stage = stage
           /\ saves'[n].mode = saves[n].mode /\ saves'[n].source = saves[n].source
           /\ \A m \in Visits \ {n} : saves'[m] = saves[m]
<1> DEFINE s == [saves[n] EXCEPT !.stage = stage, !.fields = fields]
<1>1. saves[n] \in Saves /\ SaveInv(saves[n]) /\ n <= visit
  BY DEF SavesInv, SaveInv
<1>2. /\ s \in Saves /\ s.stage = stage /\ s.fields = fields /\ s.mode = saves[n].mode
      /\ s.source = saves[n].source /\ s.values = saves[n].values
  BY <1>1, FormColumnsAre DEF Saves, Refusable
<1>3. saves' = [saves EXCEPT ![n] = s]
  BY <1>1 DEF Served, Saves, SavesInv
<1> HIDE DEF s
<1>4. s # Null
  BY <1>2, RecordsAssumption
<1>5. SaveInv(s)
  BY <1>1, <1>2 DEF SaveInv, Refusable
<1>6. /\ saves' \in [Visits -> Saves \cup {Null}] /\ saves'[n] = s
      /\ \A m \in Visits \ {n} : saves'[m] = saves[m]
  BY <1>2, <1>3 DEF SavesInv
<1> QED
  BY <1>1, <1>2, <1>4, <1>5, <1>6 DEF SavesInv

(* What the server writes into each column of the form. *)
LEMMA MergedColumn ==
    ASSUME NEW v, Good(v), Checked(v), NEW s, NEW source, NEW f \in FormColumns
    PROVE  LET b == toPatchPayload(v, source)
           IN  /\ NullErrors(b) = {}
               /\ MergePatch(s, b)[f] = IF f \in DOMAIN b THEN Sent(v, f) ELSE s[f]
<1> DEFINE b == toPatchPayload(v, source)
<1>1. \A g \in DOMAIN b : g \in FormColumns /\ b[g] = Sent(v, g)
  BY BodyIs
<1>2. \A g \in FormColumns \cap RequiredFields : Sent(v, g) # Null
  BY CheckedValues, NullAssumption, SentDecodes, SentIs DEF RequiredFields, NullableFields
<1>3. NullErrors(b) = {}
  BY <1>1, <1>2 DEF NullErrors
<1>4. f \in RequiredFields \/ Sent(v, f) # Null \/ Zero(f) = Null
  BY SentDecodes DEF RequiredFields, Zero, ListFields, NullableFields
<1>5. f \in Fields
  BY FormColumnsAre
<1> HIDE DEF b
<1>6. MergePatch(s, b)[f] =
        IF f \notin DOMAIN b THEN s[f] ELSE IF b[f] = Null THEN Zero(f) ELSE Decoded(f, b[f])
  BY <1>3, <1>5 DEF MergePatch
<1>7. f \in DOMAIN b => MergePatch(s, b)[f] = Sent(v, f)
  BY <1>1, <1>2, <1>4, <1>6, SentDecodes
<1> QED
  BY <1>3, <1>6, <1>7 DEF b

(* What the server refuses of a checked edit, whatever the watch is now. *)
LEMMA EditRefusals ==
    ASSUME NEW v, Good(v), Checked(v), NEW s, IsSubscription(s), Valid(s), NEW source
    PROVE  LET broken == Validate(MergePatch(s, toPatchPayload(v, source)))
           IN  /\ broken \subseteq FormColumns \ {"alert_strategy", "max_stops"}
               /\ broken \cap ReturnDates # {} =>
                    v["roundTrip"] \/ ~Given(source["return_date_from"])
<1> DEFINE b == toPatchPayload(v, source)
           w == MergePatch(s, b)
<1>1. Validate(w) \subseteq FormColumns
  BY PatchRefusals
<1>2. \A f \in FormColumns : w[f] = IF f \in DOMAIN b THEN Sent(v, f) ELSE s[f]
  BY MergedColumn
<1> HIDE DEF w
<1>3. w["alert_strategy"] \in AlertStrategies
  BY <1>2, FormColumnsAre, SentTypes, ValidColumns
<1>4. w["max_stops"] = Null \/ w["max_stops"] \in Nat
  <2>1. Sent(v, "max_stops") \in Nat \cup {Null}
    BY SentIs DEF Good
  <2>2. s["max_stops"] \in Nat \cup {Null}
    BY ValidColumns, ColumnTypes
  <2> QED
    BY <1>2, <2>1, <2>2, FormColumnsAre
<1>5. ~Broken(w, "alert_strategy") /\ ~Broken(w, "max_stops")
  BY <1>3, <1>4 DEF Broken, Given
<1>6. ASSUME ~v["roundTrip"], Given(source["return_date_from"])
      PROVE  ~Broken(w, "return_date_from") /\ ~Broken(w, "return_date_to")
  <2>1. Sent(v, "return_date_from") = Null /\ Sent(v, "return_date_to") = Null
    BY <1>6, SentIs
  <2>2. fromSubscription(source)["returnDateFrom"] # Null
    BY <1>6, FromSubscriptionIs DEF Given
  <2>3. "return_date_from" \in DOMAIN b /\ "return_date_to" \in DOMAIN b
    BY <2>1, <2>2, FormColumnsAre DEF toPatchPayload, ReturnDates, serverFieldMap
  <2>4. w["return_date_from"] = Null /\ w["return_date_to"] = Null
    BY <1>2, <2>1, <2>3, FormColumnsAre
  <2> QED
    BY <2>4 DEF Broken, ReturnDateFromBroken, ReturnDateToBroken, ReturnWindowHalfGiven,
                ReturnWindowGiven, Given
<1> QED
  BY <1>1, <1>5, <1>6 DEF Validate, ReturnDates, w

(* ... and of a checked create: the alternatives, or a day that is over. *)
LEMMA CreateRefused ==
    ASSUME NEW v, Good(v), Checked(v)
    PROVE  Validate(FromCreateBody(toCreatePayload(v))) \subseteq {"origin_alternatives"}
<1> DEFINE w == FromCreateBody(toCreatePayload(v))
<1>1. Validate(w) \subseteq FormColumns
  BY CreateRefusals
<1>2. (\A f \in FormColumns : w[f] = Sent(v, f)) /\ ~MaxPriceBroken(w)
  BY CheckedCreates
<1> HIDE DEF w
<1>3. \A f \in FormColumns \ {"origin_alternatives"} : ~Broken(w, f)
  BY <1>2, CheckedIsFine
<1> QED
  BY <1>1, <1>3 DEF Validate, w

(* What the server refuses of a save is what it may refuse. *)
LEMMA RefusalsAre ==
    ASSUME IndInv, NEW n \in Visits, Sending(n), ~NotFound(n)
    PROVE  Refusable(saves[n], RefusedFields(saves[n]))
<1> DEFINE s == saves[n]
<1>1. Good(s.values) /\ Checked(s.values)
  BY DEF Sending, IndInv, SavesInv, SaveInv
<1>2. CASE s.mode = "edit"
  <2>1. IsSubscription(row) /\ Valid(row)
    BY <1>2 DEF NotFound, IndInv, RowInv, GoodWatch
  <2>2. NullErrors(Body(s)) = {}
    BY <1>1, <1>2, FormColumnsAre, MergedColumn DEF Body
  <2>3. RefusedFields(s) \in {{}, Validate(Written(s))}
    BY <1>2, <2>2 DEF RefusedFields
  <2>4. Refusable(s, Validate(Written(s)))
    BY <1>1, <1>2, <2>1, EditRefusals DEF Body, Written, Refusable
  <2> QED
    BY <2>3, <2>4 DEF Refusable
<1>3. CASE s.mode # "edit"
  <2>1. Validate(Written(s)) \subseteq {"origin_alternatives"}
    BY <1>1, <1>3, CreateRefused DEF Body, Written
  <2>2. RefusedFields(s) \subseteq {"origin_alternatives", "date_to"}
    BY <1>3, <2>1 DEF RefusedFields, ValidateFresh
  <2> QED
    BY <2>2, FormColumnsAre DEF Refusable, ReturnDates
<1> QED
  BY <1>2, <1>3

(* A save is sent with values the form does not complain about. *)
LEMMA SentInv ==
    ASSUME IndInv, NEW day \in Days, ConfirmSave(day)
    PROVE  /\ SavesInv' /\ visit \in Visits /\ saves[visit] = Null
           /\ \A m \in Visits \ {visit} : saves'[m] = saves[m]
           /\ saves'[visit] # Null
           /\ saves'[visit].mode = form.mode /\ saves'[visit].source = form.source
<1> DEFINE s == [stage |-> "sent", mode |-> form.mode, source |-> form.source,
                 values |-> form.values, fields |-> {}]
<1>1. /\ form # Null /\ saves[visit] = Null /\ validate(form.values, day) = {}
      /\ saves' = [saves EXCEPT ![visit] = s] /\ visit' = visit
  BY DEF ConfirmSave, Confirmed, Advance
<1>2. visit \in Visits
  BY <1>1, BoundsAssumption DEF IndInv, Visits
<1>3. /\ form \in Forms /\ Good(form.values) /\ (form.source = Null) = (form.mode = "create")
      /\ form.source # Null => GoodWatch(form.source)
  BY <1>1 DEF IndInv, FormInv
<1>4. s \in Saves
  BY <1>3 DEF Forms, Saves
<1>5. day \in Int
  BY BoundsAssumption DEF Days
<1>6. SaveInv(s)
  BY <1>1, <1>3, <1>4, <1>5 DEF SaveInv, Checked, Refusable
<1>7. s # Null /\ s.mode = form.mode /\ s.source = form.source
  BY <1>4, RecordsAssumption
<1> HIDE DEF s
<1>8. /\ saves' \in [Visits -> Saves \cup {Null}] /\ saves'[visit] = s
      /\ \A m \in Visits \ {visit} : saves'[m] = saves[m]
  BY <1>1, <1>2, <1>4 DEF IndInv, SavesInv
<1>9. visit <= visit
  BY <1>2 DEF Visits
<1> QED
  BY <1>1, <1>2, <1>6, <1>7, <1>8, <1>9 DEF IndInv, SavesInv

LEMMA EndedInv ==
    ASSUME SavesInv, NEW n \in Visits, Ended(n), UNCHANGED visit
    PROVE  /\ SavesInv' /\ saves'[n] = Null
           /\ \A m \in Visits \ {n} : saves'[m] = saves[m]
  BY DEF SavesInv, Ended

LEMMA SavesStep ==
    ASSUME IndInv, [Next]_vars
    PROVE  SavesInv'
<1>0. ASSUME NEW s
      PROVE  Refusable(s, {})
  BY DEF Refusable
<1>1. ASSUME NEW n \in Visits, ServeNothing(n) \/ ServeSave(n)
      PROVE  SavesInv'
  BY <1>0, <1>1, ServedInv DEF IndInv, ServeNothing, ServeSave, Sending
<1>2. ASSUME NEW n \in Visits, ServeRefusal(n)
      PROVE  SavesInv'
  BY <1>2, ServedInv, RefusalsAre DEF IndInv, ServeRefusal, Sending
<1>3. ASSUME NEW n \in Visits, SaveEnds(n)
      PROVE  SavesInv'
  BY <1>3, EndedInv DEF IndInv, SaveEnds, SaveSucceeds, SaveRefused, SaveFails
<1>4. ASSUME NEW day \in Days, ConfirmSave(day)
      PROVE  SavesInv'
  BY <1>4, SentInv
<1>5. ASSUME NEW n \in Visits, NEW errand \in Errands[n], OpenForm(n, errand)
      PROVE  SavesInv'
  <2>1. visit' = visit + 1 /\ saves' = saves
    BY <1>5 DEF OpenForm
  <2>2. \A m \in Visits : m <= visit => m <= visit'
    BY <2>1, BoundsAssumption DEF IndInv, Visits
  <2> QED
    BY <2>1, <2>2 DEF IndInv, SavesInv
<1>6. CASE saves' = saves /\ visit' = visit
  BY <1>6 DEF IndInv, SavesInv
<1> QED
  BY <1>1, <1>2, <1>3, <1>4, <1>5, <1>6
     DEF Next, vars, UserActs, FillIn, GoBack, Leave, NextPage, NextRefused, ConfirmRefused,
         ConfirmUnchanged, WriteElsewhere, DeleteElsewhere

LEMMA FiledStep ==
    ASSUME IndInv, [Next]_vars
    PROVE  FiledInv'
<1>1. /\ filed \subseteq 1 .. visit /\ visit \in 0 .. MaxVisits /\ filed \subseteq Visits
      /\ \A n \in filed : IF saves[n] = Null THEN ~Open(n) ELSE saves[n].stage = "done"
  <2>1. filed \subseteq 1 .. visit /\ visit \in 0 .. MaxVisits /\ MaxVisits \in Int
    BY BoundsAssumption DEF IndInv, FiledInv
  <2>2. filed \subseteq Visits
    BY <2>1 DEF Visits
  <2> QED
    BY <2>1, <2>2, Zenon DEF IndInv, FiledInv
<1>2. ASSUME UNCHANGED <<visit, saves, filed>>, form # Null \/ form' = Null
      PROVE  FiledInv'
  BY <1>1, <1>2 DEF FiledInv, Open
<1>3. ASSUME NEW n \in Visits, NEW errand \in Errands[n], OpenForm(n, errand)
      PROVE  FiledInv'
  <2>1. visit' = visit + 1 /\ saves' = saves /\ filed' = filed
    BY <1>3 DEF OpenForm
  <2>2. filed' \subseteq 1 .. visit' /\ \A m \in filed : m # visit'
    BY <1>1, <2>1
  <2> QED
    BY <1>1, <2>1, <2>2 DEF FiledInv, Open
<1>4. ASSUME NEW day \in Days, ConfirmSave(day)
      PROVE  FiledInv'
  <2>1. form # Null /\ visit' = visit /\ filed' = filed
    BY <1>4 DEF ConfirmSave, Confirmed, Advance
  <2>2. visit \notin filed
    BY <1>1, <1>4, <2>1, SentInv DEF Open
  <2>3. \A m \in filed : saves'[m] = saves[m]
    BY <1>1, <1>4, <2>2, SentInv
  <2> QED
    BY <1>1, <2>1, <2>3 DEF FiledInv, Open
<1>5. ASSUME NEW n \in Visits, ServeNothing(n) \/ ServeRefusal(n)
      PROVE  FiledInv'
  <2>1. n \notin filed
    BY <1>1, <1>5 DEF ServeNothing, ServeRefusal, Sending
  <2>2. \A m \in Visits \ {n} : saves'[m] = saves[m]
    BY <1>5 DEF ServeNothing, ServeRefusal, Served, IndInv, SavesInv
  <2> QED
    BY <1>1, <1>5, <2>1, <2>2 DEF FiledInv, Open, ServeNothing, ServeRefusal
<1>6. ASSUME NEW n \in Visits, ServeSave(n)
      PROVE  FiledInv'
  <2>1. n <= visit /\ UNCHANGED <<form, visit>> /\ filed' \in {filed, filed \cup {n}}
    BY <1>6 DEF IndInv, SavesInv, ServeSave, Sending
  <2>2. /\ saves'[n] # Null /\ saves'[n].stage = "done"
        /\ \A m \in Visits \ {n} : saves'[m] = saves[m]
    BY <1>6, ServedInv DEF IndInv, ServeSave, Sending, Refusable
  <2>3. n \in 1 .. visit
    BY <1>1, <2>1, BoundsAssumption DEF Visits
  <2> QED
    BY <1>1, <2>1, <2>2, <2>3 DEF FiledInv, Open
<1>7. ASSUME NEW n \in Visits, SaveSucceeds(n)
      PROVE  FiledInv'
  <2>1. \A m \in Visits \ {n} : saves'[m] = saves[m]
    BY <1>7, EndedInv DEF IndInv, SaveSucceeds
  <2>2. saves'[n] = Null /\ ~Open(n)' /\ UNCHANGED <<visit, filed>> /\ form' = Null
    BY <1>7, EndedInv DEF IndInv, SaveSucceeds, Open
  <2> QED
    BY <1>1, <2>1, <2>2 DEF FiledInv, Open
<1>8. ASSUME NEW n \in Visits, SaveRefused(n) \/ SaveFails(n)
      PROVE  FiledInv'
  <2>1. \A m \in Visits \ {n} : saves'[m] = saves[m]
    BY <1>8, EndedInv DEF IndInv, SaveRefused, SaveFails
  <2>2. n \notin filed' /\ filed' \subseteq filed /\ visit' = visit
    BY <1>1, <1>8 DEF SaveRefused, SaveFails
  <2>3. form' # Null => form # Null
    BY <1>8 DEF SaveRefused, SaveFails, Open
  <2> QED
    BY <1>1, <2>1, <2>2, <2>3 DEF FiledInv, Open
<1>9. \/ UNCHANGED <<visit, saves, filed>> /\ (form # Null \/ form' = Null)
      \/ \E n \in Visits : \E errand \in Errands[n] : OpenForm(n, errand)
      \/ \E day \in Days : ConfirmSave(day)
      \/ \E n \in Visits : \/ ServeNothing(n) \/ ServeRefusal(n) \/ ServeSave(n)
                           \/ SaveSucceeds(n) \/ SaveRefused(n) \/ SaveFails(n)
  BY DEF Next, vars, UserActs, FillIn, GoBack, Leave, NextPage, NextRefused, ConfirmRefused,
         ConfirmUnchanged, Advance, Confirmed, SaveEnds, WriteElsewhere, DeleteElsewhere
<1> QED
  BY <1>2, <1>3, <1>4, <1>5, <1>6, <1>7, <1>8, <1>9

-----------------------------------------------------------------------------
(* The invariant *)

LEMMA VisitStep ==
    ASSUME IndInv, [Next]_vars
    PROVE  visit' \in 0 .. MaxVisits /\ (form' # Null => visit' > 0)
<1>1. /\ visit \in 0 .. MaxVisits /\ MaxVisits \in Int
      /\ form # Null => visit > 0
  BY BoundsAssumption DEF IndInv
<1>2. ASSUME NEW n \in Visits, NEW errand \in Errands[n], OpenForm(n, errand)
      PROVE  visit' \in 0 .. MaxVisits /\ visit' > 0
  <2>1. visit' = n
    BY <1>2 DEF OpenForm
  <2> QED
    BY <1>1, <2>1 DEF Visits
<1>3. CASE visit' = visit /\ (form' # Null => form # Null)
  BY <1>1, <1>3
<1>4. \/ visit' = visit /\ (form' # Null => form # Null)
      \/ \E n \in Visits : \E errand \in Errands[n] : OpenForm(n, errand)
  BY DEF Next, vars, UserActs, FillIn, GoBack, Leave, NextPage, NextRefused, ConfirmRefused,
         ConfirmUnchanged, ConfirmSave, Confirmed, Advance, ServeNothing, ServeRefusal,
         ServeSave, SaveEnds, SaveSucceeds, SaveRefused, SaveFails, Open, WriteElsewhere,
         DeleteElsewhere
<1> QED
  BY <1>2, <1>3, <1>4

(* The save that is pending stays one of the watch on the screen. *)
LEMMA PendingStep ==
    ASSUME IndInv, [Next]_vars
    PROVE  PendingInv'
<1>0. /\ form # Null => visit \in Visits
      /\ \A m \in Visits : saves[m] # Null => m <= visit
  BY BoundsAssumption DEF IndInv, SavesInv, Visits
<1>1. ASSUME NEW n \in Visits, NEW errand \in Errands[n], OpenForm(n, errand)
      PROVE  PendingInv'
  <2>1. visit' = n /\ n = visit + 1 /\ saves' = saves
    BY <1>1 DEF OpenForm
  <2>2. saves[n] = Null
    BY <1>0, <2>1 DEF IndInv
  <2> QED
    BY <2>1, <2>2 DEF PendingInv
<1>2. CASE form' = Null
  BY <1>2 DEF PendingInv
<1>3. ASSUME NEW day \in Days, ConfirmSave(day)
      PROVE  PendingInv'
  <2>1. form # Null /\ form' = [form EXCEPT !.errors = {}, !.serverError = FALSE]
        /\ visit' = visit
    BY <1>3 DEF ConfirmSave, Confirmed, Advance
  <2>2. form'.mode = form.mode /\ form'.source = form.source
    BY <2>1 DEF IndInv, FormInv, Forms
  <2> QED
    BY <1>3, <2>1, <2>2, SentInv DEF PendingInv
<1>4. ASSUME NEW n \in Visits, ServeNothing(n) \/ ServeRefusal(n) \/ ServeSave(n)
      PROVE  PendingInv'
  <2>1. /\ saves'[n].mode = saves[n].mode /\ saves'[n].source = saves[n].source
        /\ saves[n] # Null /\ \A m \in Visits \ {n} : saves'[m] = saves[m]
    BY <1>4, ServedInv, RefusalsAre
       DEF IndInv, ServeNothing, ServeRefusal, ServeSave, Sending, Refusable
  <2>2. UNCHANGED <<form, visit>>
    BY <1>4 DEF ServeNothing, ServeRefusal, ServeSave
  <2> QED
    BY <1>0, <2>1, <2>2 DEF IndInv, PendingInv
<1>5. ASSUME NEW n \in Visits, SaveRefused(n) \/ SaveFails(n)
      PROVE  PendingInv'
  <2>1. /\ saves'[n] = Null /\ visit' = visit
        /\ \A m \in Visits \ {n} : saves'[m] = saves[m]
    BY <1>5, EndedInv DEF IndInv, SaveRefused, SaveFails
  <2>2. visit # n => form' = form
    BY <1>5 DEF SaveRefused, SaveFails, Open
  <2> QED
    BY <1>0, <2>1, <2>2 DEF IndInv, PendingInv
<1>6. ASSUME UNCHANGED <<visit, saves>>, form # Null,
             form'.mode = form.mode /\ form'.source = form.source
      PROVE  PendingInv'
  BY <1>6 DEF IndInv, PendingInv
<1>7. ASSUME NEW day \in Days, NextPage(day) \/ NextRefused(day) \/ ConfirmRefused(day)
      PROVE  PendingInv'
  BY <1>6, <1>7 DEF NextPage, NextRefused, ConfirmRefused, Advance, IndInv, FormInv, Forms
<1>8. ASSUME NEW step \in 1 .. Summary, GoBack(step)
      PROVE  PendingInv'
  BY <1>6, <1>8 DEF GoBack, IndInv, FormInv, Forms
<1>9. CASE FillIn
  BY <1>6, <1>9, EnteredInv DEF FillIn, IndInv
<1>10. CASE UNCHANGED <<form, visit, saves>>
  BY <1>10 DEF IndInv, PendingInv
<1>11. \/ form' = Null \/ FillIn \/ UNCHANGED <<form, visit, saves>>
       \/ \E n \in Visits : \E errand \in Errands[n] : OpenForm(n, errand)
       \/ \E step \in 1 .. Summary : GoBack(step)
       \/ \E day \in Days : \/ NextPage(day) \/ NextRefused(day) \/ ConfirmRefused(day)
                           \/ ConfirmSave(day)
       \/ \E n \in Visits : \/ ServeNothing(n) \/ ServeRefusal(n) \/ ServeSave(n)
                            \/ SaveRefused(n) \/ SaveFails(n)
  BY DEF Next, vars, UserActs, Leave, ConfirmUnchanged, SaveEnds, SaveSucceeds, WriteElsewhere,
         DeleteElsewhere
<1> QED
  BY <1>1, <1>2, <1>3, <1>4, <1>5, <1>7, <1>8, <1>9, <1>10, <1>11

LEMMA InitInv == Init => IndInv
<1> SUFFICES ASSUME Init
             PROVE  IndInv
  OBVIOUS
<1>1. RowInv
  BY RowsAssumption, WatchesAre DEF Init, RowInv, GoodWatch
<1>2. visit \in 0 .. MaxVisits
  BY BoundsAssumption DEF Init
<1>3. SavesInv /\ FiledInv /\ FormInv /\ PendingInv /\ form = Null
  BY DEF Init, SavesInv, FiledInv, FormInv, PendingInv
<1> QED
  BY <1>1, <1>2, <1>3 DEF IndInv

LEMMA Invariance == Spec => []IndInv
<1>1. IndInv /\ [Next]_vars => IndInv'
  BY RowStep, VisitStep, FormStep, SavesStep, FiledStep, PendingStep DEF IndInv
<1> QED
  BY <1>1, InitInv, PTL DEF Spec

-----------------------------------------------------------------------------
(* Theorems *)

(* The row, the form and the saves hold what they may. *)
THEOREM FormTypes == Spec => []TypeOK
<1>1. ASSUME IndInv
      PROVE  TypeOK
  <2>1. row # Null => IsSubscription(row) /\ Valid(row)
    BY <1>1 DEF IndInv, RowInv, GoodWatch
  <2>2. form # Null => visit > 0 /\ IsForm(form)
    BY <1>1 DEF IndInv, FormInv, Forms, Good, IsForm
  <2>3. ASSUME NEW n \in Visits, saves[n] # Null
        PROVE  n <= visit /\ IsSave(saves[n])
    <3>1. n <= visit /\ SaveInv(saves[n])
      BY <1>1, <2>3 DEF IndInv, SavesInv
    <3> QED
      BY <3>1, FormColumnsAre DEF SaveInv, Refusable, Saves, Good, IsSave
  <2> QED
    BY <1>1, <2>1, <2>2, <2>3 DEF IndInv, SavesInv, FiledInv, TypeOK
<1> QED
  BY <1>1, Invariance, PTL

(* No refusal of the server is without an input to show it on. *)
THEOREM EveryRefusalHasAnInput == Spec => []RefusalsMapped
<1>1. ASSUME IndInv
      PROVE  RefusalsMapped
  BY <1>1 DEF IndInv, SavesInv, SaveInv, Refusable, RefusalsMapped, Unmapped
<1> QED
  BY <1>1, Invariance, PTL

(* As long as no failure was reported, a visit files one watch. *)
THEOREM OneVisitOneWatch == Spec => []FiledOnce
<1>1. ASSUME IndInv
      PROVE  FiledOnce
  BY <1>1 DEF IndInv, FiledInv, FiledOnce
<1> QED
  BY <1>1, Invariance, PTL

(* A form does not close on a failure. *)
THEOREM OnlyForAReason == Spec => ClosesForAReason
<1> DEFINE Reason ==
      form # Null /\ form' = Null =>
          \/ form.step = 1
          \/ form.mode = "edit" /\ DOMAIN Body(form) = {}
          \/ \E n \in Visits : saves[n] # Null /\ saves[n].stage = "done"
<1>1. ASSUME IndInv, [Next]_vars
      PROVE  [Reason]_vars
  <2> SUFFICES ASSUME Next, form # Null, form' = Null
               PROVE  Reason
    BY <1>1
  <2>1. Closed
    BY <1>1, FormStep, RecordsAssumption
  <2> QED
    BY <2>1 DEF Closed, Leave, ConfirmUnchanged, SaveSucceeds
<1> QED
  BY <1>1, Invariance, PTL DEF Spec, ClosesForAReason

(* The form's own complaints are at inputs that show them. *)
LEMMA OwnComplaintsShow ==
    ASSUME NEW f, Good(f.values), NEW day, NEW k \in validate(f.values, day)
    PROVE  \/ ShowsError(f, k)
           \/ k = "maxPriceEur" /\ f.values["alertStrategy"] = "historical_minimum"
<1>1. Wrong(f.values, day, k)
  BY DEF validate
<1>2. f.values["alertStrategy"] \in AlertStrategies
  BY DEF Good, FormValues, IsFormValues
<1> QED
  BY <1>1, <1>2 DEF Wrong, ReturnDateFromWrong, ReturnDateToWrong, ShowsError, AlertStrategies

(* A refused input is on the page the user is put on, and shown there, but *)
(* for the exceptions RefusalIsShown names.                                *)
THEOREM RefusalsAreShown == Spec => RefusalIsShown
<1> DEFINE Shown(k) ==
              \/ ShowsError(form', k)
              \/ k = "originAlternatives"
              \/ k = "maxPriceEur" /\ form'.values["alertStrategy"] = "historical_minimum"
              \/ /\ k \in {"returnDateFrom", "returnDateTo"}
                 /\ form.mode = "edit" /\ saves[visit] # Null
                 /\ \/ ~Given(form.source["return_date_from"])
                    \/ saves[visit].values["roundTrip"]
           Told == /\ form'.errors \cap stepFields[form'.step] # {}
                   /\ \A k \in form'.errors : Shown(k)
           News == form # Null /\ form' # Null /\ ~(form'.errors \subseteq form.errors)
<1>1. ASSUME IndInv, [Next]_vars, News
      PROVE  Told
  <2>1. form \in Forms /\ Good(form.values) /\ ~(form'.errors \subseteq form.errors)
    BY <1>1 DEF IndInv, FormInv
  <2>2. ASSUME NEW values, NEW errors \in SUBSET ErrorKeys,
               form' = [form EXCEPT !.values = values, !.errors = errors]
        PROVE  form'.errors = errors
    BY <2>1, <2>2 DEF Forms
  <2>3. ASSUME NEW day \in Days, NextRefused(day)
        PROVE  Told
    <3>1. /\ form'.errors = PageErrors(day) /\ form'.step = form.step
          /\ form'.values = form.values /\ PageErrors(day) # {}
      BY <2>1, <2>3 DEF NextRefused, Forms
    <3>2. PageErrors(day) = validate(form'.values, day) \cap stepFields[form.step]
      BY <3>1 DEF PageErrors
    <3> QED
      BY <2>1, <3>1, <3>2, OwnComplaintsShow
  <2>4. ASSUME NEW day \in Days, ConfirmRefused(day)
        PROVE  Told
    <3> DEFINE errors == validate(form.values, day)
    <3>1. errors \in SUBSET ErrorKeys /\ errors # {}
      BY <2>4 DEF ConfirmRefused, validate
    <3>2. /\ form'.errors = errors /\ form'.step = FirstInvalidStep(errors)
          /\ form'.values = form.values
      BY <2>1, <2>4 DEF ConfirmRefused, Forms
    <3>3. \A k \in errors : Shown(k)
      BY <2>1, <3>2, OwnComplaintsShow
    <3> HIDE DEF errors
    <3> QED
      BY <3>1, <3>2, <3>3, FirstStepIs
  <2>5. ASSUME NEW n \in Visits, SaveRefused(n), Open(n)
        PROVE  Told
    <3> DEFINE fields == saves[n].fields
               errors == Mapped(fields)
    <3>1. /\ saves[n] # Null /\ saves[n] = saves[visit] /\ form # Null
          /\ Refusable(saves[n], fields)
          /\ saves[n].mode = form.mode /\ saves[n].source = form.source
      BY <1>1, <2>5 DEF IndInv, SavesInv, SaveInv, PendingInv, SaveRefused, Open
    <3>2. errors \in SUBSET ErrorKeys
      BY <3>1, FormColumnsAre, MappedAre DEF Refusable
    <3>3. /\ form'.errors = errors /\ form'.values = form.values
          /\ errors # {} => form'.step = FirstInvalidStep(errors)
      BY <2>1, <2>5 DEF SaveRefused, Refuse, Forms
    <3>4. form'.errors \cap stepFields[form'.step] # {}
      <4> HIDE DEF errors
      <4> QED
        BY <2>1, <3>2, <3>3, FirstStepIs
    <3>5. ASSUME NEW f \in fields
          PROVE  Shown(serverFieldMap[f])
      <4>1. f \in FormColumns \ {"alert_strategy", "max_stops"}
        BY <3>1 DEF Refusable
      <4>2. CASE f \in ReturnDates
        <5>1. form.mode = "edit" /\ (saves[visit].values["roundTrip"]
                                       \/ ~Given(form.source["return_date_from"]))
          BY <3>1, <4>2 DEF Refusable
        <5>2. serverFieldMap[f] \in {"returnDateFrom", "returnDateTo"}
          BY <4>2 DEF ReturnDates, serverFieldMap
        <5> QED
          BY <3>1, <5>1, <5>2
      <4>3. CASE f = "max_price_minor"
        <5>1. form'.values["alertStrategy"] \in AlertStrategies
          BY <2>1, <3>3 DEF Good, FormValues, IsFormValues
        <5> QED
          BY <4>3, <5>1 DEF ShowsError, AlertStrategies, serverFieldMap
      <4>4. CASE f \in {"origin", "origin_alternatives", "destinations", "date_from", "date_to"}
        BY <4>4 DEF ShowsError, serverFieldMap
      <4> QED
        BY <4>1, <4>2, <4>3, <4>4, FormColumnsAre DEF ReturnDates
    <3>6. \A k \in form'.errors : Shown(k)
      BY <3>3, <3>5 DEF Mapped
    <3> QED
      BY <3>4, <3>6
  <2>6. ASSUME form'.errors \subseteq form.errors
        PROVE  FALSE
    BY <2>1, <2>6
  <2>7. ASSUME Entered
        PROVE  form'.errors \subseteq form.errors
    BY <2>1, <2>7 DEF Entered, Enter, Forms
  <2>8. ASSUME NEW on, ToggleRoundTrip(on)
        PROVE  form'.errors \subseteq form.errors
    BY <2>1, <2>8 DEF ToggleRoundTrip, Forms
  <2>9. CASE FillIn
    BY <1>1, <2>6, <2>7, <2>8, <2>9, FillInEnters DEF IndInv
  <2>10. ASSUME NEW day \in Days, NextPage(day) \/ ConfirmSave(day)
         PROVE  FALSE
    BY <2>1, <2>6, <2>10 DEF NextPage, ConfirmSave, Forms
  <2>11. ASSUME NEW step \in 1 .. Summary, GoBack(step)
         PROVE  FALSE
    BY <2>1, <2>6, <2>11 DEF GoBack, Forms
  <2>12. ASSUME NEW n \in Visits, SaveFails(n)
         PROVE  FALSE
    BY <2>1, <2>6, <2>12 DEF SaveFails, Forms
  <2>13. \/ form' = form \/ FillIn
         \/ \E step \in 1 .. Summary : GoBack(step)
         \/ \E day \in Days :
              NextPage(day) \/ NextRefused(day) \/ ConfirmRefused(day) \/ ConfirmSave(day)
         \/ \E n \in Visits : (SaveRefused(n) /\ Open(n)) \/ SaveFails(n)
    BY <1>1
       DEF Next, vars, UserActs, OpenForm, Leave, ConfirmUnchanged, ServeNothing, ServeRefusal,
           ServeSave, SaveEnds, SaveSucceeds, SaveRefused, WriteElsewhere, DeleteElsewhere
  <2> QED
    BY <2>3, <2>4, <2>5, <2>6, <2>9, <2>10, <2>11, <2>12, <2>13
<1>2. ASSUME IndInv, [Next]_vars
      PROVE  [News => Told]_vars
  BY <1>1, <1>2
<1> QED
  BY <1>2, Invariance, PTL DEF Spec, RefusalIsShown


(* What the form lets through, the server refuses only for what changed    *)
(* under it, an origin that became an alternative, or a day that is over.  *)
THEOREM ValidationIsComplete == Spec => []NothingInvalidGetsThrough
<1>1. ASSUME IndInv, NEW n \in Visits, Sending(n), ~NotFound(n),
             ~Mentions(saves[n].values["originAlternatives"], saves[n].values["origin"]),
             saves[n].mode = "edit" => row = saves[n].source,
             saves[n].mode # "edit" => ~(saves[n].values["dateTo"] < Today)
      PROVE  RefusedFields(saves[n]) = {}
  <2> DEFINE s == saves[n]
  <2>1. Good(s.values) /\ Checked(s.values)
    BY <1>1 DEF Sending, IndInv, SavesInv, SaveInv
  <2>2. CASE s.mode = "edit"
    <3>1. row = s.source /\ IsSubscription(row) /\ Valid(row)
      BY <1>1, <2>2 DEF NotFound, IndInv, RowInv, GoodWatch
    <3>2. NullErrors(Body(s)) = {} /\ Valid(Written(s))
      BY <1>1, <2>1, <2>2, <3>1, CheckedMerges, CheckedIsAccepted DEF Body, Written
    <3> QED
      BY <2>2, <3>2 DEF RefusedFields
  <2>3. CASE s.mode # "edit"
    <3>1. Valid(Written(s))
      BY <1>1, <2>1, <2>3, CheckedIsAccepted DEF Body, Written
    <3>2. Written(s)["date_to"] = s.values["dateTo"]
      BY <2>1, <2>3, CheckedCreates, SentIs, FormColumnsAre DEF Body, Written
    <3>3. ValidateFresh(Written(s), Today) = {}
      BY <1>1, <2>3, <3>2 DEF ValidateFresh
    <3> QED
      BY <2>3, <3>1, <3>3 DEF RefusedFields
  <2> QED
    BY <2>2, <2>3
<1>2. IndInv => NothingInvalidGetsThrough
  BY <1>1 DEF NothingInvalidGetsThrough
<1> QED
  BY <1>2, Invariance, PTL

(* What was typed is what is stored; what the form does not show stays. *)
THEOREM TypedIsStored == Spec => []EditsRoundTrip
<1>1. ASSUME IndInv, NEW n \in Visits, Sending(n), ~NotFound(n),
             saves[n].mode = "edit" => row = saves[n].source
      PROVE  fromSubscription(Written(saves[n])) = Typed(saves[n].values)
  <2> DEFINE s == saves[n]
             w == Written(s)
  <2>1. Good(s.values) /\ Checked(s.values)
    BY <1>1 DEF Sending, IndInv, SavesInv, SaveInv
  <2>2. CASE s.mode = "edit"
    <3>1. row = s.source /\ IsSubscription(row) /\ Valid(row)
      BY <1>1, <2>2 DEF NotFound, IndInv, RowInv, GoodWatch
    <3>2. w = MergePatch(row, toPatchPayload(s.values, row))
      BY <2>2, <3>1 DEF Body, Written
    <3>3. \A f \in FormColumns \ {"max_price_minor"} : w[f] = Sent(s.values, f)
      BY <2>1, <3>1, <3>2, CheckedMerges
    <3>4. w["max_price_minor"] =
            IF s.values["maxPriceEur"] = fromSubscription(row)["maxPriceEur"]
            THEN row["max_price_minor"] ELSE s.values["maxPriceEur"]
      BY <2>1, <3>2, MergedIs
    <3> HIDE DEF w
    <3>5. w["max_price_minor"] = row["max_price_minor"] =>
            fromSubscription(w)["maxPriceEur"] = fromSubscription(row)["maxPriceEur"]
      BY FromSubscriptionIs
    <3> QED
      BY <2>1, <3>3, <3>4, <3>5, ShownAgain DEF w
  <2>3. CASE s.mode # "edit"
    <3>1. w = FromCreateBody(toCreatePayload(s.values))
      BY <2>3 DEF Body, Written
    <3>2. \A f \in FormColumns : w[f] = Sent(s.values, f)
      BY <2>1, <3>1, CheckedCreates
    <3>3. w["max_price_minor"] = s.values["maxPriceEur"]
      BY <3>2, SentIs, FormColumnsAre
    <3> HIDE DEF w
    <3> QED
      BY <2>1, <3>2, <3>3, ShownAgain DEF w
  <2> QED
    BY <2>2, <2>3
<1>2. ASSUME IndInv, NEW n \in Visits, Sending(n), ~NotFound(n), saves[n].mode = "edit"
      PROVE  /\ \A f \in Fields \ FormColumns : Written(saves[n])[f] = row[f]
             /\ saves[n].values["maxPriceEur"] = fromSubscription(saves[n].source)["maxPriceEur"] =>
                    Written(saves[n])["max_price_minor"] = row["max_price_minor"]
  <2> DEFINE s == saves[n]
             b == toPatchPayload(s.values, s.source)
  <2>1. Written(s) = MergePatch(row, b)
    BY <1>2 DEF Body, Written
  <2>2. \A f \in Fields \ FormColumns : MergePatch(row, b)[f] = row[f]
    BY MergeKeepsOthers
  <2>3. ASSUME s.values["maxPriceEur"] = fromSubscription(s.source)["maxPriceEur"]
        PROVE  MergePatch(row, b)["max_price_minor"] = row["max_price_minor"]
    <3>1. "max_price_minor" \notin DOMAIN b
      BY <2>3, BodyIs, SentIs DEF ReturnDates, serverFieldMap
    <3> QED
      BY <3>1, FormColumnsAre DEF MergePatch
  <2> QED
    BY <2>1, <2>2, <2>3
<1>3. IndInv => EditsRoundTrip
  BY <1>1, <1>2 DEF EditsRoundTrip, Typed
<1> QED
  BY <1>3, Invariance, PTL


-----------------------------------------------------------------------------
(* The complaints of the form *)

(* What the form sends of its values, whatever it thinks of them; dates    *)
(* that are missing aside.                                                 *)
Carries(w, v) ==
    /\ \A f \in FormColumns \ {"date_from", "date_to", "max_price_minor"} : w[f] = Sent(v, f)
    /\ v["dateFrom"] # Null => w["date_from"] = v["dateFrom"]
    /\ v["dateTo"] # Null => w["date_to"] = v["dateTo"]

LEMMA CreatedCarries ==
    ASSUME NEW v, Good(v)
    PROVE  LET w == FromCreateBody(toCreatePayload(v))
           IN  Carries(w, v) /\ w["max_price_minor"] = v["maxPriceEur"]
<1> DEFINE w == FromCreateBody(toCreatePayload(v))
<1>1. \A f \in FormColumns : w[f] = IF Sent(v, f) = Null THEN Zero(f) ELSE Sent(v, f)
  BY CreatedIs
<1>2. ASSUME NEW f \in FormColumns \ {"date_from", "date_to"}
      PROVE  w[f] = Sent(v, f)
  <2>1. Sent(v, f) = Null => Zero(f) = Null
    BY SentDecodes DEF Zero, NullableFields, ListFields
  <2> QED
    BY <1>1, <2>1
<1> HIDE DEF w
<1>3. w["max_price_minor"] = v["maxPriceEur"]
  BY <1>2, SentIs, FormColumnsAre
<1>4. /\ v["dateFrom"] # Null => w["date_from"] = v["dateFrom"]
      /\ v["dateTo"] # Null => w["date_to"] = v["dateTo"]
  BY <1>1, SentIs, FormColumnsAre
<1> QED
  BY <1>2, <1>3, <1>4 DEF Carries, w

LEMMA MergedCarries ==
    ASSUME NEW v, Good(v), NEW s
    PROVE  Carries(MergePatch(s, toPatchPayload(v, s)), v)
<1> DEFINE w == MergePatch(s, toPatchPayload(v, s))
<1>1. \A f \in FormColumns \ {"max_price_minor"} :
        w[f] = IF f \in RequiredFields /\ Sent(v, f) = Null THEN s[f] ELSE Sent(v, f)
  BY MergedIs
<1> HIDE DEF w
<1>2. \A f \in FormColumns \ {"date_from", "date_to", "max_price_minor"} : w[f] = Sent(v, f)
  BY <1>1, SentDecodes DEF RequiredFields, NullableFields
<1>3. /\ v["dateFrom"] # Null => w["date_from"] = v["dateFrom"]
      /\ v["dateTo"] # Null => w["date_to"] = v["dateTo"]
  BY <1>1, SentIs, FormColumnsAre
<1> QED
  BY <1>2, <1>3 DEF Carries, w

(* What the form finds wrong, its own demands aside, breaks the server's   *)
(* rule about the same input.                                              *)
LEMMA WrongIsBroken ==
    ASSUME NEW v, Good(v), NEW w, Carries(w, v)
    PROVE  /\ v["origin"] = Blank => Broken(w, "origin")
           /\ v["destinations"] = <<>> \/ Mentions(v["destinations"], v["origin"]) =>
                Broken(w, "destinations")
           /\ ~DateFromMissing(v) /\ v["dateTo"] < v["dateFrom"] => Broken(w, "date_to")
           /\ /\ ReturnDateFromWrong(v)
              /\ Given(v["returnDateFrom"]) \/ Given(v["returnDateTo"])
              => Broken(w, "return_date_from")
           /\ ReturnDateToWrong(v) => Broken(w, "return_date_to")
<1>1. /\ w["origin"] = v["origin"] /\ w["destinations"] = v["destinations"]
      /\ w["return_date_from"] = IF v["roundTrip"] THEN v["returnDateFrom"] ELSE Null
      /\ w["return_date_to"] = IF v["roundTrip"] THEN v["returnDateTo"] ELSE Null
  BY FormColumnsAre, SentIs DEF Carries
<1>2. v["origin"] = Blank => Broken(w, "origin")
  BY <1>1, DatasetAssumption DEF Broken
<1>3. v["destinations"] = <<>> \/ Mentions(v["destinations"], v["origin"]) =>
        Broken(w, "destinations")
  <2>1. v["destinations"] = <<>> => Len(v["destinations"]) = 0
    OBVIOUS
  <2> QED
    BY <1>1, <2>1 DEF Broken, DestinationsBroken
<1>4. ~DateFromMissing(v) /\ v["dateTo"] < v["dateFrom"] => Broken(w, "date_to")
  BY DEF Carries, Good, DateFromMissing, Given, Broken, DateToBroken, DateFromBroken
<1>5. ASSUME ReturnDateFromWrong(v), Given(v["returnDateFrom"]) \/ Given(v["returnDateTo"])
      PROVE  ReturnDateFromBroken(w)
  <2>1. CASE ReturnMissing(v)
    BY <1>1, <1>5, <2>1
       DEF ReturnDateFromWrong, ReturnMissing, ReturnDateFromBroken, ReturnWindowHalfGiven, Given
  <2>2. CASE ~ReturnMissing(v)
    BY <1>1, <1>5, <2>2
       DEF Carries, ReturnDateFromWrong, ReturnMissing, ReturnDateFromBroken, ReturnWindowGiven,
           Given
  <2> QED
    BY <2>1, <2>2
<1>6. ReturnDateToWrong(v) => ReturnDateToBroken(w)
  BY <1>1 DEF ReturnDateToWrong, ReturnMissing, ReturnDateToBroken, ReturnWindowGiven, Given
<1> QED
  BY <1>2, <1>3, <1>4, <1>5, <1>6, Zenon DEF Broken

LEMMA PriceIsBroken ==
    ASSUME NEW v, Good(v), PriceWrong(v), NEW w, Carries(w, v),
           ~Given(v["maxPriceEur"]) \/ v["maxPriceEur"] % 100 = 0,
           w["max_price_minor"] = v["maxPriceEur"]
    PROVE  MaxPriceBroken(w)
<1>1. w["alert_strategy"] = v["alertStrategy"]
  BY FormColumnsAre, SentIs DEF Carries
<1>2. CASE Given(v["maxPriceEur"])
  BY <1>2 DEF PriceWrong, MaxPriceBroken
<1>3. CASE ~Given(v["maxPriceEur"])
  BY <1>1, <1>3, Zenon DEF PriceWrong, MaxPriceBroken
<1> QED
  BY <1>2, <1>3

(* A ceiling that was left alone is wrong only for the form, or Null. *)
LEMMA PriceOfEdit ==
    ASSUME NEW v, Good(v), NEW s, IsSubscription(s), Valid(s), PriceWrong(v),
           ~Given(v["maxPriceEur"]) \/ (v["maxPriceEur"] % 100 = 0 /\ v["maxPriceEur"] # 0)
    PROVE  MergePatch(s, toPatchPayload(v, s))["max_price_minor"] = v["maxPriceEur"]
<1> SUFFICES ASSUME v["maxPriceEur"] = fromSubscription(s)["maxPriceEur"]
             PROVE  s["max_price_minor"] = v["maxPriceEur"]
  BY MergedIs
<1>1. s["max_price_minor"] \in Int \cup {Null}
  BY ColumnTypes
<1>2. CASE Given(s["max_price_minor"])
  <2>1. s["max_price_minor"] \in Int /\ s["max_price_minor"] > 0
    BY <1>1, <1>2, ValidColumns DEF MaxPriceBroken, Given
  <2>2. v["maxPriceEur"] = WholeEuros(s["max_price_minor"])
    BY <1>2, FromSubscriptionIs
  <2>3. WholeEuros(s["max_price_minor"]) \in Int /\ WholeEuros(s["max_price_minor"]) >= 0
    BY <2>1 DEF WholeEuros
  <2> QED
    BY <2>2, <2>3, NullAssumption DEF PriceWrong, Given
<1>3. CASE ~Given(s["max_price_minor"])
  BY <1>3, FromSubscriptionIs DEF Given
<1> QED
  BY <1>2, <1>3

(* What the form complains about, its own demands aside, the server would  *)
(* refuse too, on the same input.                                          *)
THEOREM ComplaintsAreTheServers == Spec => []ComplaintsAreServerRules
<1> DEFINE body == Body(form)
           watch == IF form.mode = "edit" THEN MergePatch(form.source, body)
                    ELSE FromCreateBody(body)
           refused == IF form.mode = "edit" THEN Validate(watch)
                      ELSE Validate(watch) \cup ValidateFresh(watch, Today)
           v == form.values
<1>1. ASSUME IndInv, form # Null, NEW k \in validate(v, Today), ~OwnDemand(k, v)
      PROVE  k \in Mapped(refused)
  <2>1. Good(v) /\ form.mode \in Modes
    BY <1>1 DEF IndInv, FormInv, Forms
  <2>2. form.mode = "edit" =>
          /\ IsSubscription(form.source) /\ Valid(form.source)
          /\ watch = MergePatch(form.source, toPatchPayload(v, form.source))
    BY <1>1 DEF IndInv, FormInv, GoodWatch, Body
  <2>3. form.mode # "edit" => watch = FromCreateBody(toCreatePayload(v))
    BY DEF Body
  <2>4. Carries(watch, v)
    BY <2>1, <2>2, <2>3, CreatedCarries, MergedCarries
  <2>5. Validate(watch) \subseteq refused
    OBVIOUS
  <2> HIDE DEF watch
  <2>6. ASSUME NEW f \in FormColumns, f \in refused
        PROVE  serverFieldMap[f] \in Mapped(refused)
    BY <2>6 DEF Mapped
  <2>7. ASSUME NEW f \in FormColumns, Broken(watch, f)
        PROVE  serverFieldMap[f] \in Mapped(refused)
    BY <2>5, <2>6, <2>7, FormColumnsAre DEF Validate
  <2>8. Wrong(v, Today, k)
    BY DEF validate
  <2>9. CASE k = "origin"
    BY <2>1, <2>4, <2>7, <2>8, <2>9, WrongIsBroken, FormColumnsAre DEF Wrong, serverFieldMap
  <2>10. CASE k = "destinations"
    BY <2>1, <2>4, <2>7, <2>8, <2>10, WrongIsBroken, FormColumnsAre DEF Wrong, serverFieldMap
  <2>11. CASE k = "returnDateFrom"
    <3>1. ReturnDateFromWrong(v) /\ (Given(v["returnDateFrom"]) \/ Given(v["returnDateTo"]))
      BY <1>1, <2>8, <2>11 DEF Wrong, OwnDemand
    <3> QED
      BY <2>1, <2>4, <2>7, <2>11, <3>1, WrongIsBroken, FormColumnsAre DEF serverFieldMap
  <2>12. CASE k = "returnDateTo"
    BY <2>1, <2>4, <2>7, <2>8, <2>12, WrongIsBroken, FormColumnsAre DEF Wrong, serverFieldMap
  <2>13. CASE k = "dateTo"
    <3>1. DateToWrong(v, Today)
      BY <2>8, <2>13 DEF Wrong
    <3>2. CASE v["dateTo"] < v["dateFrom"]
      BY <2>1, <2>4, <2>7, <2>13, <3>1, <3>2, WrongIsBroken, FormColumnsAre
         DEF DateToWrong, serverFieldMap
    <3>3. CASE ~(v["dateTo"] < v["dateFrom"])
      <4>1. v["dateTo"] \in Int \ {0} /\ v["dateFrom"] \in Int /\ v["dateTo"] # Null
        BY <2>1, <3>1 DEF DateToWrong, DateFromMissing, Given, Good, FormValues, IsFormValues,
                          stepFields
      <4>2. form.mode # "edit"
        BY <1>1, <2>13, <3>3, <4>1 DEF OwnDemand
      <4>3. watch["date_to"] = v["dateTo"] /\ v["dateTo"] < Today
        BY <2>4, <3>1, <3>3, <4>1 DEF Carries, DateToWrong
      <4>4. "date_to" \in refused
        BY <4>1, <4>2, <4>3 DEF ValidateFresh
      <4> QED
        BY <2>6, <2>13, <4>4, FormColumnsAre DEF serverFieldMap
    <3> QED
      BY <3>2, <3>3
  <2>14. CASE k = "maxPriceEur"
    <3>1. /\ PriceWrong(v)
          /\ ~Given(v["maxPriceEur"]) \/ v["maxPriceEur"] % 100 = 0
          /\ form.mode = "edit" => v["maxPriceEur"] # 0
      BY <1>1, <2>8, <2>14 DEF Wrong, OwnDemand
    <3>2. watch["max_price_minor"] = v["maxPriceEur"]
      BY <2>1, <2>2, <2>3, <3>1, CreatedCarries, PriceOfEdit
    <3>3. MaxPriceBroken(watch)
      BY <2>1, <2>4, <3>1, <3>2, PriceIsBroken
    <3> QED
      BY <2>7, <2>14, <3>3, FormColumnsAre DEF Broken, serverFieldMap
  <2> QED
    BY <1>1, <2>8, <2>9, <2>10, <2>11, <2>12, <2>13, <2>14 DEF Wrong, OwnDemand
<1>2. IndInv => ComplaintsAreServerRules
  BY <1>1 DEF ComplaintsAreServerRules
<1> QED
  BY <1>2, Invariance, PTL
=============================================================================
