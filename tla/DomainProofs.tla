----------------------------- MODULE DomainProofs -----------------------------
(***************************************************************************)
(* What the operators of Domain return, for every body and subscription:   *)
(* each that builds a subscription returns one; then the properties of     *)
(* DomainRules, for every sample.                                          *)
(***************************************************************************)
EXTENDS DomainRules, SequenceFacts

(* What each column holds, by kind of field. *)
LEMMA ColumnValues ==
    ASSUME NEW f \in Fields
    PROVE  /\ f \in {"origin", "alert_strategy", "status"} => Column[f] = Strings
           /\ f \in ListFields \cup {"destinations"} => Column[f] = CodeLists
           /\ f \in {"date_from", "date_to"} => Column[f] = Int
           /\ f \in NullableFields => Column[f] = Int \cup {Null}
  BY DEF Column, Fields, RequiredFields, ListFields, NullableFields

(* A cleared field holds a value of its column. *)
LEMMA ZeroType ==
    ASSUME NEW f \in Fields
    PROVE  Zero(f) \in Column[f]
<1>1. CASE f \in {"origin", "alert_strategy"}
  <2>1. Zero(f) = Blank
    BY <1>1 DEF Zero
  <2>2. Blank \in Strings
    BY StringsAssumption
  <2> QED
    BY <1>1, <2>1, <2>2, ColumnValues
<1>2. CASE f \in ListFields \cup {"destinations"}
  BY <1>2, ColumnValues DEF Zero, CodeLists, ListFields
<1>3. CASE f \in {"date_from", "date_to"}
  <2>1. Zero(f) = 0
    BY <1>3 DEF Zero, ListFields
  <2> QED
    BY <1>3, <2>1, ColumnValues
<1>4. CASE f = "status"
  BY <1>4, ColumnValues, StringsAssumption DEF Zero, ListFields
<1>5. CASE f \in NullableFields
  BY <1>5, ColumnValues DEF Zero, ListFields, NullableFields
<1> QED
  BY <1>1, <1>2, <1>3, <1>4, <1>5 DEF Fields, RequiredFields

(* A decoded value is a value of its column. *)
LEMMA DecodedType ==
    ASSUME NEW f \in Fields, NEW v \in Wire[f]
    PROVE  Decoded(f, v) \in Column[f]
  BY WireAssumption, ColumnValues DEF Decoded, Wire, NormCode, Fields, RequiredFields,
        ListFields, NullableFields, CodeLists

(* Merging a PATCH body into a subscription gives a subscription. *)
LEMMA MergePatchType ==
    ASSUME NEW s, IsSubscription(s), NEW b, IsPatchBody(b)
    PROVE  IsSubscription(MergePatch(s, b))
  BY ZeroType, DecodedType DEF IsSubscription, IsPatchBody, MergePatch, NullErrors

(* A POST body decodes to a subscription. *)
LEMMA FromCreateBodyType ==
    ASSUME NEW b, IsCreateBody(b)
    PROVE  IsSubscription(FromCreateBody(b)) /\ FromCreateBody(b)["status"] = "active"
<1> DEFINE given(f) == f \in DOMAIN b /\ b[f] # Null
           decoded(f) == IF given(f) THEN Decoded(f, b[f]) ELSE Zero(f)
           sub == FromCreateBody(b)
<1>1. ASSUME NEW f \in Fields
      PROVE  decoded(f) \in Column[f]
  BY ZeroType, DecodedType DEF IsCreateBody
<1>2. DOMAIN sub = Fields /\ \A f \in Fields :
         sub[f] = IF f = "alert_strategy" /\ decoded(f) = Blank THEN DefaultStrategy ELSE decoded(f)
  BY DEF FromCreateBody
<1>3. DefaultStrategy \in Column["alert_strategy"]
  BY ColumnValues, StringsAssumption DEF DefaultStrategy, Fields, RequiredFields
<1>4. IsSubscription(sub)
  <2> HIDE DEF decoded, sub
  <2> QED
    BY <1>1, <1>2, <1>3 DEF IsSubscription
<1>5. decoded("status") = "active"
  BY DEF IsCreateBody, Zero, ListFields
<1>6. sub["status"] = "active"
  <2> HIDE DEF decoded, sub
  <2> QED
    BY <1>2, <1>5 DEF Fields, RequiredFields
<1> QED
  BY <1>4, <1>6

(* Two PATCHes one after the other leave what one PATCH with the keys of   *)
(* both leaves, the later one first where they share a key: whatever the   *)
(* bodies, as long as mergePatch refuses neither.                          *)
THEOREM MergesCompose ==
    ASSUME NEW s, NEW b, NEW c, NullErrors(b) = {}, NullErrors(c) = {}
    PROVE  MergePatch(MergePatch(s, b), c) = MergePatch(s, Joined(b, c))
<1>1. NullErrors(Joined(b, c)) = {}
  BY DEF NullErrors, Joined
<1>2. ASSUME NEW f \in Fields
      PROVE  MergePatch(MergePatch(s, b), c)[f] = MergePatch(s, Joined(b, c))[f]
  BY <1>1 DEF MergePatch, Joined
<1> QED
  BY <1>2 DEF MergePatch

(* The fields that Validate's complaint about f looks at. *)
LooksAt(f) ==
    {g \in Fields :
        \/ g = f
        \/ f \in {"origin_alternatives", "destinations"} /\ g = "origin"
        \/ f = "date_from" /\ g = "date_to"
        \/ f \in {"date_to", "return_date_from"} /\ g = "date_from"
        \/ f = "return_date_from" /\ g = "return_date_to"
        \/ f = "return_date_to" /\ g = "return_date_from"
        \/ f = "trip_length_max" /\ g = "trip_length_min"
        \/ f = "max_price_minor" /\ g = "alert_strategy"
        \/ f = "airlines_blacklist" /\ g = "airlines_whitelist"}

(* Two subscriptions that agree there get the same complaint. *)
LEMMA ComplaintIsLocal ==
    ASSUME NEW s, NEW t, NEW f \in Fields, \A g \in LooksAt(f) : s[g] = t[g],
           Broken(s, f)
    PROVE  Broken(t, f)
<1>1. f \in LooksAt(f) /\ s[f] = t[f]
  BY DEF LooksAt
<1>2. CASE f \in {"origin_alternatives", "destinations"}
  <2>1. s["origin"] = t["origin"]
    BY <1>2 DEF LooksAt, Fields, RequiredFields
  <2> QED
    BY <1>1, <1>2, <2>1 DEF Broken, OriginAlternativesBroken, DestinationsBroken
<1>3. CASE f \in {"date_from", "date_to"}
  <2>1. s["date_from"] = t["date_from"] /\ s["date_to"] = t["date_to"]
    BY <1>3 DEF LooksAt, Fields, RequiredFields
  <2> QED
    BY <1>3, <2>1 DEF Broken, DateFromBroken, DateToBroken
<1>4. CASE f \in {"return_date_from", "return_date_to"}
  <2>1. /\ s["return_date_from"] = t["return_date_from"]
        /\ s["return_date_to"] = t["return_date_to"]
    BY <1>4 DEF LooksAt, Fields, NullableFields
  <2>2. f = "return_date_from" => s["date_from"] = t["date_from"]
    BY DEF LooksAt, Fields, RequiredFields
  <2> QED
    BY <1>4, <2>1, <2>2
       DEF Broken, ReturnDateFromBroken, ReturnDateToBroken, ReturnWindowHalfGiven,
           ReturnWindowGiven
<1>5. CASE f = "trip_length_max"
  <2>1. s["trip_length_min"] = t["trip_length_min"]
    BY <1>5 DEF LooksAt, Fields, NullableFields
  <2> QED
    BY <1>1, <1>5, <2>1 DEF Broken, TripLengthMaxBroken
<1>6. CASE f = "max_price_minor"
  <2>1. s["alert_strategy"] = t["alert_strategy"]
    BY <1>6 DEF LooksAt, Fields, RequiredFields
  <2> QED
    BY <1>1, <1>6, <2>1 DEF Broken, MaxPriceBroken
<1>7. CASE f = "airlines_blacklist"
  <2>1. s["airlines_whitelist"] = t["airlines_whitelist"]
    BY <1>7 DEF LooksAt, Fields, ListFields
  <2> QED
    BY <1>1, <1>7, <2>1 DEF Broken, BlacklistBroken
<1>8. CASE f \notin {"origin_alternatives", "destinations", "date_from", "date_to",
                     "return_date_from", "return_date_to", "trip_length_max",
                     "max_price_minor", "airlines_blacklist"}
  BY <1>1, <1>8 DEF Broken, TripLengthMinBroken
<1> QED
  BY <1>2, <1>3, <1>4, <1>5, <1>6, <1>7, <1>8

(* What Validate says of a patched subscription that was valid before, it  *)
(* says because of the patch: each complaint looks at a key of the body.   *)
(* So a row in order never stands in the way of an unrelated change.       *)
THEOREM PatchBreaksOnlyItsOwn ==
    ASSUME NEW s, Valid(s), NEW b, NEW f \in Validate(MergePatch(s, b))
    PROVE  LooksAt(f) \cap DOMAIN b # {}
<1> DEFINE m == MergePatch(s, b)
<1> SUFFICES ASSUME LooksAt(f) \cap DOMAIN b = {}
             PROVE  FALSE
  OBVIOUS
<1>1. f \in Fields /\ Broken(m, f)
  BY DEF Validate
<1>2. \A g \in LooksAt(f) : m[g] = s[g]
  BY DEF MergePatch, LooksAt
<1> HIDE DEF m
<1>3. Broken(s, f)
  BY <1>1, <1>2, ComplaintIsLocal
<1> QED
  BY <1>1, <1>3 DEF Valid, Validate

-----------------------------------------------------------------------------
(* normCodes *)

(* What normCodes has kept after each code. *)
NormTurns(cs, kept) ==
    /\ kept[0] = <<>>
    /\ \A n \in 1 .. Len(cs) :
            kept[n] = IF NormCode(cs[n]) = Blank THEN kept[n - 1]
                      ELSE Append(kept[n - 1], NormCode(cs[n]))

LEMMA NormCodesTurns ==
    ASSUME NEW cs \in Seq(RawCodes)
    PROVE  \E kept : NormTurns(cs, kept) /\ NormCodes(cs) = kept[Len(cs)]
<1> DEFINE N == 0 .. Len(cs)
           Next(f, n) == IF n = 0 THEN <<>>
                         ELSE IF NormCode(cs[n]) = Blank THEN f[n - 1]
                         ELSE Append(f[n - 1], NormCode(cs[n]))
           kept == CHOOSE f : f = [n \in N |-> Next(f, n)]
           turn == [n \in 1 .. Len(cs) |-> [x \in Seq(Strings) |->
                        IF NormCode(cs[n]) = Blank THEN x ELSE Append(x, NormCode(cs[n]))]]
<1>1. NormCodes(cs) = kept[Len(cs)]
  BY DEF NormCodes
<1>2. Len(cs) \in Nat /\ \A n \in 1 .. Len(cs) : NormCode(cs[n]) \in Strings
  BY WireAssumption DEF NormCode
<1>3. PICK f \in [N -> Seq(Strings)] :
         f[0] = <<>> /\ \A n \in 1 .. Len(cs) : f[n] = turn[n][f[n - 1]]
  <2> DEFINE empty == <<>>
             lists == Seq(Strings)
  <2>1. empty \in lists
    OBVIOUS
  <2>2. turn \in Turns(lists, Len(cs))
    BY <1>2 DEF Turns
  <2>3. Len(cs) \in Nat
    BY <1>2
  <2> HIDE DEF turn, empty, lists
  <2>4. PICK f : IsRun(lists, Len(cs), empty, turn, f)
    BY <2>1, <2>2, <2>3, Loop
  <2> QED
    BY <2>4 DEF empty, lists, IsRun
<1>4. ASSUME NEW n \in N
      PROVE  f[n] = Next(f, n)
  <2>1. CASE n = 0
    BY <1>3, <2>1
  <2>2. CASE n # 0
    <3>1. n \in 1 .. Len(cs) /\ n - 1 \in N
      BY <1>2, <2>2
    <3>2. f[n - 1] \in Seq(Strings) /\ f[n] = turn[n][f[n - 1]]
      BY <1>3, <3>1
    <3>3. turn[n][f[n - 1]] = IF NormCode(cs[n]) = Blank THEN f[n - 1]
                              ELSE Append(f[n - 1], NormCode(cs[n]))
      BY <3>1, <3>2
    <3> QED
      BY <2>2, <3>2, <3>3
  <2> QED
    BY <2>1, <2>2
<1>5. f = [n \in N |-> Next(f, n)]
  <2> HIDE DEF Next
  <2>1. f = [n \in N |-> f[n]]
    BY <1>3
  <2> QED
    BY <1>4, <2>1, Zenon
<1>6. \A n \in N : kept[n] = Next(kept, n)
  <2>1. kept = [n \in N |-> Next(kept, n)]
    <3> HIDE DEF Next
    <3> QED
      BY <1>5, Zenon
  <2> HIDE DEF kept, Next
  <2> QED
    BY <2>1, Zenon
<1> HIDE DEF kept
<1>7. NormTurns(cs, kept)
  BY <1>2, <1>6 DEF NormTurns
<1> QED
  BY <1>1, <1>7

(* normCodes makes a list of strings. *)
LEMMA NormCodesType ==
    ASSUME NEW cs \in Seq(RawCodes)
    PROVE  NormCodes(cs) \in Seq(Strings)
<1>1. PICK kept : NormTurns(cs, kept) /\ NormCodes(cs) = kept[Len(cs)]
  BY NormCodesTurns
<1>2. Len(cs) \in Nat /\ \A n \in 1 .. Len(cs) : NormCode(cs[n]) \in Strings
  BY WireAssumption DEF NormCode
<1> DEFINE strays == {n \in 0 .. Len(cs) : kept[n] \notin Seq(Strings)}
<1>3. ASSUME strays # {}
      PROVE  FALSE
  <2>1. strays \in SUBSET Nat
    OBVIOUS
  <2>2. PICK n \in strays : \A m \in strays : n <= m
    BY <1>3, <2>1, LeastNatural
  <2>3. n # 0
    <3>1. kept[0] \in Seq(Strings)
      BY <1>1 DEF NormTurns
    <3> QED
      BY <2>2, <3>1
  <2>4. n - 1 \in 0 .. Len(cs) /\ n - 1 \notin strays /\ n \in 1 .. Len(cs)
    BY <2>2, <2>3
  <2>5. kept[n - 1] \in Seq(Strings)
    BY <2>4
  <2>6. kept[n] \in Seq(Strings)
    <3>1. Append(kept[n - 1], NormCode(cs[n])) \in Seq(Strings)
      BY <1>2, <2>4, <2>5
    <3> QED
      BY <1>1, <2>4, <2>5, <3>1 DEF NormTurns
  <2> QED
    BY <2>2, <2>6
<1> QED
  BY <1>1, <1>2, <1>3

(* normCodes leaves a list alone whose codes are spelled as it spells them.*)
LEMMA NormCodesSpelled ==
    ASSUME NEW cs \in Seq(RawCodes), \A i \in DOMAIN cs : NormCode(cs[i]) = cs[i] /\ cs[i] # Blank
    PROVE  NormCodes(cs) = cs
<1>1. PICK kept : NormTurns(cs, kept) /\ NormCodes(cs) = kept[Len(cs)]
  BY NormCodesTurns
<1>2. Len(cs) \in Nat /\ DOMAIN cs = 1 .. Len(cs)
  OBVIOUS
<1> DEFINE strays == {n \in 0 .. Len(cs) : kept[n] # SubSeq(cs, 1, n)}
<1>3. ASSUME strays # {}
      PROVE  FALSE
  <2>1. strays \in SUBSET Nat
    OBVIOUS
  <2>2. PICK n \in strays : \A m \in strays : n <= m
    BY <1>3, <2>1, LeastNatural
  <2>3. n # 0
    <3>1. kept[0] = SubSeq(cs, 1, 0)
      BY <1>1 DEF NormTurns
    <3> QED
      BY <2>2, <3>1
  <2>4. n - 1 \in 0 .. Len(cs) /\ n - 1 \notin strays /\ n \in 1 .. Len(cs)
    BY <2>2, <2>3
  <2>5. kept[n] = Append(SubSeq(cs, 1, n - 1), cs[n])
    BY <1>1, <1>2, <2>4 DEF NormTurns
  <2>6. Append(SubSeq(cs, 1, n - 1), cs[n]) = SubSeq(cs, 1, n)
    BY <1>2, <2>4
  <2> QED
    BY <2>2, <2>5, <2>6
<1>4. SubSeq(cs, 1, Len(cs)) = cs
  OBVIOUS
<1> QED
  BY <1>1, <1>2, <1>3, <1>4

(* The lists of a subscription are sequences of strings.                   *)
LEMMA CodeListsType == CodeLists \subseteq Seq(Strings)
<1>1. ASSUME NEW cs \in RawLists
      PROVE  NormCodes(cs) \in Seq(Strings)
  BY WireAssumption, NormCodesType
<1>2. <<>> \in Seq(Strings)
  OBVIOUS
<1>3. ASSUME NEW list \in CodeLists
      PROVE  list = <<>> \/ \E cs \in RawLists : list = NormCodes(cs)
  BY Zenon DEF CodeLists
<1> QED
  BY <1>1, <1>2, <1>3, Zenon

-----------------------------------------------------------------------------
(* The properties of DomainRules.  A sample never changes, so what any     *)
(* sample satisfies holds at every step.                                   *)

LEMMA SampleStays == SamplesSpec => [](sample \in Samples)
<1>1. SamplesInit => sample \in Samples
  BY DEF SamplesInit
<1>2. sample \in Samples /\ [SamplesNext]_sample => (sample \in Samples)'
  BY DEF SamplesNext
<1> QED
  BY <1>1, <1>2, PTL DEF SamplesSpec

(* One PATCH with the keys of both does what two PATCHes do.               *)
THEOREM RepeatedPatches == SamplesSpec => []PatchesCompose
<1>1. PatchesCompose
  BY MergesCompose DEF PatchesCompose
<1> QED
  BY <1>1, PTL

(* A POST body decodes as a PATCH of a fresh watch does. *)
LEMMA PostDecodes ==
    ASSUME sample \in Samples
    PROVE  PostDecodesAsPatch
<1> DEFINE required == sample.required
           post == Joined(required, sample.first)
           cleared == [f \in (ListFields \cup NullableFields) \ DOMAIN post |-> Null]
           patch == Joined(cleared, post)
           fresh == FromCreateBody(required)
           patched == MergePatch(fresh, patch)
<1> SUFFICES ASSUME IsCreateBody(post), NullErrors(post) = {}, NEW f \in Fields
             PROVE  FromCreateBody(post)[f] =
                        IF f = "alert_strategy" /\ patched[f] = Blank THEN DefaultStrategy
                        ELSE patched[f]
  BY DEF PostDecodesAsPatch
<1>1. /\ DOMAIN required = {"origin", "destinations", "date_from", "date_to"}
      /\ \A k \in DOMAIN required : required[k] # Null
  BY SamplesAssumption
<1>2. /\ DOMAIN patch = DOMAIN cleared \cup DOMAIN post
      /\ \A k \in DOMAIN post : patch[k] = post[k]
      /\ \A k \in DOMAIN patch \ DOMAIN post : patch[k] = Null
  BY DEF Joined
<1>3. DOMAIN cleared = (ListFields \cup NullableFields) \ DOMAIN post
  OBVIOUS
<1>4. NullErrors(patch) = {}
  <2>1. RequiredFields \cap (ListFields \cup NullableFields) = {}
    BY DEF RequiredFields, ListFields, NullableFields
  <2> HIDE DEF patch, post, cleared
  <2> QED
    BY <1>2, <1>3, <2>1 DEF NullErrors
<1>5. DOMAIN required \subseteq DOMAIN post
  BY DEF Joined
<1> HIDE DEF post, cleared, patch, required
<1>6. /\ f \notin DOMAIN patch => patched[f] = fresh[f]
      /\ f \in DOMAIN patch => patched[f] = IF patch[f] = Null THEN Zero(f) ELSE Decoded(f, patch[f])
  BY <1>4 DEF MergePatch
<1>7. CASE f \in DOMAIN post
  <2>1. patched[f] = IF post[f] = Null THEN Zero(f) ELSE Decoded(f, post[f])
    BY <1>2, <1>6, <1>7
  <2> QED
    BY <1>7, <2>1 DEF FromCreateBody
<1>8. CASE f \notin DOMAIN post /\ f \in ListFields \cup NullableFields
  <2>1. patched[f] = Zero(f)
    BY <1>2, <1>3, <1>6, <1>8
  <2>2. f # "alert_strategy"
    BY <1>8 DEF ListFields, NullableFields
  <2> QED
    BY <1>8, <2>1, <2>2 DEF FromCreateBody
<1>9. CASE f \notin DOMAIN post /\ f \notin ListFields \cup NullableFields
  <2>1. f \in {"alert_strategy", "status"}
    BY <1>1, <1>5, <1>9 DEF Fields, RequiredFields
  <2>2. patched[f] = fresh[f]
    BY <1>2, <1>3, <1>6, <1>9
  <2>3. fresh[f] = IF f = "alert_strategy" THEN DefaultStrategy ELSE "active"
    BY <1>1, <2>1 DEF FromCreateBody, Zero, ListFields
  <2>4. FromCreateBody(post)[f] = IF f = "alert_strategy" THEN DefaultStrategy ELSE "active"
    BY <1>9, <2>1 DEF FromCreateBody, Zero, ListFields
  <2>5. DefaultStrategy # Blank
    BY DEF DefaultStrategy, Blank
  <2> QED
    BY <2>1, <2>2, <2>3, <2>4, <2>5
<1> QED
  BY <1>7, <1>8, <1>9

(* Creating from a body is patching it onto a fresh watch. *)
THEOREM PostsDecodeAsPatches == SamplesSpec => []PostDecodesAsPatch
  BY SampleStays, PostDecodes, PTL

(* The subscription a PATCH leaves is not Null. *)
LEMMA MergePatchGiven ==
    ASSUME NEW s, IsSubscription(s), NEW b, IsPatchBody(b)
    PROVE  MergePatch(s, b) # Null
<1> DEFINE m == MergePatch(s, b)
<1>1. IsSubscription(m) /\ m = [f \in Fields |-> m[f]]
  BY MergePatchType DEF MergePatch
<1> HIDE DEF m
<1>2. m \in [Fields -> UNION {Column[f] : f \in Fields}]
  BY <1>1 DEF IsSubscription
<1> QED
  BY <1>2, NoSubscriptionAssumption DEF m

(* An override takes effect, at once and alone. *)
LEMMA OverridesResolve ==
    ASSUME sample \in Samples
    PROVE  OverrideTakesEffect
<1> DEFINE s == sample.sub
           b == sample.first
           m == MergePatch(s, b)
<1>1. IsSubscription(s) /\ s # Null /\ IsPatchBody(b)
  BY SamplesAssumption
<1>2. m # Null
  BY <1>1, MergePatchGiven
<1>3. ASSUME NEW p \in AlertParams
      PROVE  /\ p \notin DOMAIN b => m[p] = s[p]
             /\ p \in DOMAIN b => m[p] = b[p]
  <2>1. p \in Fields \ RequiredFields /\ Zero(p) = Null
    BY DEF AlertParams, Fields, RequiredFields, NullableFields, ListFields, Zero
  <2>2. ASSUME p \in DOMAIN b
        PROVE  Decoded(p, b[p]) = b[p]
    BY DEF Decoded, AlertParams, ListFields
  <2> QED
    BY <2>1, <2>2 DEF MergePatch, NullErrors
<1> SUFFICES ASSUME NEW p \in AlertParams
             PROVE  ResolveSettings(m, sample.user, Defaults)[p] =
                        IF p \notin DOMAIN b THEN ResolveSettings(s, sample.user, Defaults)[p]
                        ELSE IF b[p] = Null THEN ResolveSettings(Null, sample.user, Defaults)[p]
                        ELSE b[p]
  BY DEF OverrideTakesEffect
<1> HIDE DEF m, s, b
<1> QED
  BY <1>1, <1>2, <1>3 DEF ResolveSettings, Given

(* Of the three levels that set an alert parameter, a PATCH changes one.   *)
THEOREM OverridesTakeEffect == SamplesSpec => []OverrideTakesEffect
  BY SampleStays, OverridesResolve, PTL

-----------------------------------------------------------------------------
(* The passes over the code lists *)

(* What a pass over the first n codes has seen, and where it complained.   *)
SeenUpTo(codes, seen, n) == seen \cup {codes[i] : i \in 1 .. n}
FaultsUpTo(codes, seen, known, n) ==
    {i \in 1 .. n : codes[i] \notin known \/ codes[i] \in SeenUpTo(codes, seen, i - 1)}

(* One turn of the loop, from what the turns before it have left.          *)
FaultAt(codes, seen, known, n) == {i \in {n} : codes[i] \notin known \/ codes[i] \in seen}
Turn(codes, seen, known, before, n) ==
    IF n = 0 THEN [seen |-> seen, faults |-> {}]
    ELSE [seen |-> before[n - 1].seen \cup {codes[n]},
          faults |-> before[n - 1].faults \cup FaultAt(codes, before[n - 1].seen, known, n)]

LEMMA OneMoreTurn ==
    ASSUME NEW codes, NEW seen, NEW known, NEW n \in Nat, n # 0
    PROVE  /\ SeenUpTo(codes, seen, n) = SeenUpTo(codes, seen, n - 1) \cup {codes[n]}
           /\ FaultsUpTo(codes, seen, known, n) =
                 FaultsUpTo(codes, seen, known, n - 1)
                     \cup FaultAt(codes, SeenUpTo(codes, seen, n - 1), known, n)
<1>1. 1 .. n = 1 .. (n - 1) \cup {n}
  OBVIOUS
<1> QED
  BY <1>1, Zenon DEF SeenUpTo, FaultsUpTo, FaultAt

(* A pass is the only function that every turn takes one step further.     *)
LEMMA PassIs ==
    ASSUME NEW codes, Len(codes) \in Nat, NEW seen, NEW known
    PROVE  /\ CheckCodes(codes, seen, known).seen = SeenUpTo(codes, seen, Len(codes))
           /\ CheckCodes(codes, seen, known).faults =
                FaultsUpTo(codes, seen, known, Len(codes))
<1> DEFINE N == 0 .. Len(codes)
           pass == CHOOSE f : f = [n \in N |-> Turn(codes, seen, known, f, n)]
           ideal == [n \in N |-> [seen |-> SeenUpTo(codes, seen, n),
                                  faults |-> FaultsUpTo(codes, seen, known, n)]]
<1>1. CheckCodes(codes, seen, known) = pass[Len(codes)]
  BY DEF CheckCodes, Turn, FaultAt
<1>2. ASSUME NEW n \in N
      PROVE  ideal[n] = Turn(codes, seen, known, ideal, n)
  <2>1. CASE n = 0
    <3>1. SeenUpTo(codes, seen, 0) = seen /\ FaultsUpTo(codes, seen, known, 0) = {}
      BY DEF SeenUpTo, FaultsUpTo
    <3> QED
      BY <2>1, <3>1 DEF Turn
  <2>2. CASE n # 0
    <3>1. n \in Nat /\ n - 1 \in N
      BY <2>2
    <3>2. /\ ideal[n - 1].seen = SeenUpTo(codes, seen, n - 1)
          /\ ideal[n - 1].faults = FaultsUpTo(codes, seen, known, n - 1)
      BY <3>1
    <3>3. ideal[n] = [seen |-> SeenUpTo(codes, seen, n),
                      faults |-> FaultsUpTo(codes, seen, known, n)]
      OBVIOUS
    <3> HIDE DEF ideal
    <3>4. Turn(codes, seen, known, ideal, n) =
             [seen |-> SeenUpTo(codes, seen, n - 1) \cup {codes[n]},
              faults |-> FaultsUpTo(codes, seen, known, n - 1)
                           \cup FaultAt(codes, SeenUpTo(codes, seen, n - 1), known, n)]
      BY <2>2, <3>2 DEF Turn
    <3>5. /\ SeenUpTo(codes, seen, n) = SeenUpTo(codes, seen, n - 1) \cup {codes[n]}
          /\ FaultsUpTo(codes, seen, known, n) =
                FaultsUpTo(codes, seen, known, n - 1)
                    \cup FaultAt(codes, SeenUpTo(codes, seen, n - 1), known, n)
      BY <2>2, <3>1, OneMoreTurn
    <3> QED
      BY <3>3, <3>4, <3>5, Zenon
  <2> QED
    BY <2>1, <2>2
<1>3. ideal = [n \in N |-> Turn(codes, seen, known, ideal, n)]
  <2>1. [n \in N |-> ideal[n]] = [n \in N |-> Turn(codes, seen, known, ideal, n)]
    BY <1>2, Zenon
  <2>2. ideal = [n \in N |-> ideal[n]]
    BY Zenon
  <2> QED
    BY <2>1, <2>2, Zenon
<1>4. \A n \in N : pass[n] = Turn(codes, seen, known, pass, n)
  <2>1. pass = [n \in N |-> Turn(codes, seen, known, pass, n)]
    <3> HIDE DEF ideal
    <3> QED
      BY <1>3, Zenon
  <2> HIDE DEF pass
  <2> QED
    BY <2>1, Zenon
<1> HIDE DEF pass, ideal
<1>5. \A n \in N : pass[n] = ideal[n]
  <2> DEFINE strays == {n \in N : pass[n] # ideal[n]}
  <2>1. ASSUME strays # {}
        PROVE  FALSE
    <3>1. strays \in SUBSET Nat
      OBVIOUS
    <3>2. PICK n \in strays : \A m \in strays : n <= m
      BY <2>1, <3>1, LeastNatural
    <3>3. n \in N /\ pass[n] # ideal[n]
      OBVIOUS
    <3>4. CASE n = 0
      BY <1>2, <1>4, <3>3, <3>4, Zenon DEF Turn
    <3>5. CASE n # 0
      <4>1. n - 1 \in N /\ n - 1 \notin strays
        BY <3>2, <3>3, <3>5
      <4>2. pass[n - 1] = ideal[n - 1]
        BY <4>1
      <4> QED
        BY <1>2, <1>4, <3>3, <3>5, <4>2 DEF Turn
    <3> QED
      BY <3>4, <3>5
  <2> QED
    BY <2>1
<1>6. Len(codes) \in N
  OBVIOUS
<1>7. ideal[Len(codes)] = [seen |-> SeenUpTo(codes, seen, Len(codes)),
                           faults |-> FaultsUpTo(codes, seen, known, Len(codes))]
  BY <1>6 DEF ideal
<1> QED
  BY <1>1, <1>5, <1>6, <1>7

(* A code seen before is a duplicate, or was seen at the start.            *)
LEMMA FaultsAre ==
    ASSUME NEW S, NEW codes \in Seq(S), NEW seen, NEW known
    PROVE  /\ CheckCodes(codes, seen, known).seen = seen \cup ToSet(codes)
           /\ CheckCodes(codes, seen, known).faults = {} <=>
                 /\ OnlyKnown(codes, known) /\ ~HasDuplicate(codes)
                 /\ \A i \in DOMAIN codes : codes[i] \notin seen
<1>1. Len(codes) \in Nat /\ DOMAIN codes = 1 .. Len(codes)
  OBVIOUS
<1>2. FaultsUpTo(codes, seen, known, Len(codes)) = {} <=>
         /\ OnlyKnown(codes, known)
         /\ \A i \in DOMAIN codes : codes[i] \notin seen
         /\ \A i \in DOMAIN codes : \A j \in 1 .. i - 1 : codes[i] # codes[j]
  BY <1>1 DEF FaultsUpTo, SeenUpTo, OnlyKnown
<1>3. HasDuplicate(codes) <=> \E i \in DOMAIN codes : \E j \in 1 .. i - 1 : codes[i] = codes[j]
  <2>1. ASSUME NEW i \in DOMAIN codes, NEW j \in DOMAIN codes, i # j
        PROVE  j \in 1 .. i - 1 \/ i \in 1 .. j - 1
    <3>1. i \in 1 .. Len(codes) /\ j \in 1 .. Len(codes)
      BY <1>1
    <3> QED
      BY <1>1, <2>1, <3>1
  <2>2. ASSUME NEW i \in DOMAIN codes, NEW j \in 1 .. i - 1
        PROVE  j \in DOMAIN codes /\ i # j
    BY <1>1
  <2> QED
    BY <2>1, <2>2 DEF HasDuplicate
<1>4. SeenUpTo(codes, seen, Len(codes)) = seen \cup ToSet(codes)
  BY <1>1 DEF SeenUpTo, ToSet
<1> QED
  BY <1>1, <1>2, <1>3, <1>4, PassIs

LEMMA FaultsAfresh ==
    ASSUME NEW S, NEW codes \in Seq(S), NEW known
    PROVE  /\ CheckCodes(codes, {}, known).seen = ToSet(codes)
           /\ CheckCodes(codes, {}, known).faults = {} <=>
                 OnlyKnown(codes, known) /\ ~HasDuplicate(codes)
<1> DEFINE none == {}
<1>1. \A c : c \notin none
  OBVIOUS
<1> HIDE DEF none
<1>2. /\ CheckCodes(codes, none, known).seen = none \cup ToSet(codes)
      /\ CheckCodes(codes, none, known).faults = {} <=>
            /\ OnlyKnown(codes, known) /\ ~HasDuplicate(codes)
            /\ \A i \in DOMAIN codes : codes[i] \notin none
  BY FaultsAre
<1>3. none \cup ToSet(codes) = ToSet(codes)
  BY <1>1
<1> QED
  BY <1>1, <1>2, <1>3 DEF none

(* What the rules say of a sample's lists is what the passes say.          *)
LEMMA ListRules ==
    ASSUME sample \in Samples
    PROVE  ListRulesMatchLoops
<1> DEFINE s == sample.sub
           origin == s["origin"]
           alternatives == s["origin_alternatives"]
           destinations == s["destinations"]
           white == s["airlines_whitelist"]
           black == s["airlines_blacklist"]
           checked == ListFields \cup {"destinations"}
           B == AirportBreaks(s) \cup CarrierBreaks(s)
<1>1. IsSubscription(s)
  BY SamplesAssumption
<1>2. /\ alternatives \in Seq(Strings) /\ destinations \in Seq(Strings)
      /\ white \in Seq(Strings) /\ black \in Seq(Strings)
  <2>1. \A f \in ListFields \cup {"destinations"} : s[f] \in CodeLists
    BY <1>1, ColumnValues DEF IsSubscription, Fields, RequiredFields
  <2> QED
    BY <2>1, CodeListsType DEF ListFields
<1> HIDE DEF s
<1>3. "origin_alternatives" \in B <=> OriginAlternativesBroken(s)
  <2>1. "origin_alternatives" \in B <=>
            \/ CheckCodes(alternatives, {origin}, Airports).faults # {}
            \/ Len(alternatives) > MaxOriginAlternatives
    BY DEF AirportBreaks, CarrierBreaks
  <2>2. CheckCodes(alternatives, {origin}, Airports).faults = {} <=>
            /\ OnlyKnown(alternatives, Airports) /\ ~HasDuplicate(alternatives)
            /\ \A i \in DOMAIN alternatives : alternatives[i] \notin {origin}
    <3> DEFINE start == {origin}
    <3> HIDE DEF start
    <3>1. CheckCodes(alternatives, start, Airports).faults = {} <=>
              /\ OnlyKnown(alternatives, Airports) /\ ~HasDuplicate(alternatives)
              /\ \A i \in DOMAIN alternatives : alternatives[i] \notin start
      BY <1>2, FaultsAre
    <3> QED
      BY <3>1 DEF start
  <2> QED
    BY <2>1, <2>2 DEF OriginAlternativesBroken, Mentions
<1>4. "destinations" \in B <=> DestinationsBroken(s)
  <2>1. "destinations" \in B <=>
            \/ CheckCodes(destinations, {}, Airports).faults # {}
            \/ \E i \in DOMAIN destinations : destinations[i] = origin
            \/ Len(destinations) > MaxDestinations \/ destinations = <<>>
    BY DEF AirportBreaks, CarrierBreaks
  <2>2. CheckCodes(destinations, {}, Airports).faults = {} <=>
            OnlyKnown(destinations, Airports) /\ ~HasDuplicate(destinations)
    BY <1>2, FaultsAfresh
  <2>3. Len(destinations) \notin 1 .. MaxDestinations <=>
            Len(destinations) > MaxDestinations \/ destinations = <<>>
    BY <1>2, CapsAssumption
  <2> QED
    BY <2>1, <2>2, <2>3 DEF DestinationsBroken, Mentions
<1>5. "airlines_whitelist" \in B <=> CarriersBroken(white)
  <2>1. "airlines_whitelist" \in B <=>
            CheckCodes(white, {}, Carriers).faults # {} \/ Len(white) > MaxAirlineFilters
    BY DEF AirportBreaks, CarrierBreaks
  <2>2. CheckCodes(white, {}, Carriers).faults = {} <=>
            OnlyKnown(white, Carriers) /\ ~HasDuplicate(white)
    BY <1>2, FaultsAfresh
  <2> QED
    BY <2>1, <2>2 DEF CarriersBroken
<1>6. "airlines_blacklist" \in B <=> BlacklistBroken(s)
  <2>1. "airlines_blacklist" \in B <=>
            \/ CheckCodes(black, {}, Carriers).faults # {} \/ Len(black) > MaxAirlineFilters
            \/ \E i \in DOMAIN black : black[i] \in CheckCodes(white, {}, Carriers).seen
    BY DEF AirportBreaks, CarrierBreaks
  <2>2. CheckCodes(black, {}, Carriers).faults = {} <=>
            OnlyKnown(black, Carriers) /\ ~HasDuplicate(black)
    BY <1>2, FaultsAfresh
  <2>3. CheckCodes(white, {}, Carriers).seen = ToSet(white)
    BY <1>2, FaultsAfresh
  <2>4. \A c : c \in ToSet(white) <=> Mentions(white, c)
    BY DEF ToSet, Mentions
  <2> QED
    BY <2>1, <2>2, <2>3, <2>4 DEF BlacklistBroken, CarriersBroken
<1>7. B \subseteq checked
  BY DEF AirportBreaks, CarrierBreaks, ListFields
<1>8. ASSUME NEW f \in checked
      PROVE  f \in Validate(s) <=> f \in B
  BY <1>3, <1>4, <1>5, <1>6 DEF Validate, Broken, ListFields, Fields, RequiredFields
<1> QED
  BY <1>7, <1>8 DEF ListRulesMatchLoops, s

(* The rules on lists complain where the loops of Validate do.             *)
THEOREM ListRulesAreLoops == SamplesSpec => []ListRulesMatchLoops
  BY SampleStays, ListRules, PTL
=============================================================================
