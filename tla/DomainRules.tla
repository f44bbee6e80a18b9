------------------------------ MODULE DomainRules ------------------------------
(***************************************************************************)
(* What Domain promises, whatever the subscription and the bodies.  A      *)
(* state is one sample of them; nothing moves.                             *)
(***************************************************************************)
EXTENDS Domain, SequencesExt

CONSTANTS
    Samples,    \* each: a subscription, the keys a POST must have, two PATCH
                \*   bodies, and the alert settings of a user
    Defaults    \* the alert settings of the environment

ASSUME SamplesAssumption ==
    \A x \in Samples :
        /\ IsSubscription(x.sub) /\ x.sub # Null
        /\ IsCreateBody(x.required)
        /\ DOMAIN x.required = {"origin", "destinations", "date_from", "date_to"}
        /\ \A f \in DOMAIN x.required : x.required[f] # Null
        /\ IsPatchBody(x.first) /\ IsPatchBody(x.second)
        /\ DOMAIN x.user = AlertParams
ASSUME NoSubscriptionAssumption ==
    Null \notin [Fields -> UNION {Column[f] : f \in Fields}]

VARIABLE sample

SamplesInit == sample \in Samples
SamplesNext == UNCHANGED sample
SamplesSpec == SamplesInit /\ [][SamplesNext]_sample

-----------------------------------------------------------------------------
(* The list rules of Subscription.Validate as its loops compute them: one  *)
(* pass, with a map of the codes seen so far.                              *)

(* What a pass leaves seen, and the places of the codes it complains of.   *)
CheckCodes(codes, seen, known) ==
    LET pass[n \in 0 .. Len(codes)] ==
            IF n = 0 THEN [seen |-> seen, faults |-> {}]
            ELSE [seen |-> pass[n - 1].seen \cup {codes[n]},
                  faults |-> pass[n - 1].faults \cup
                      {i \in {n} : codes[i] \notin known \/ codes[i] \in pass[n - 1].seen}]
    IN  pass[Len(codes)]

(* The passes over the two lists of airports. *)
AirportBreaks(s) ==
    LET alternatives == CheckCodes(s["origin_alternatives"], {s["origin"]}, Airports)
        destinations == CheckCodes(s["destinations"], {}, Airports)
    IN  {f \in {"origin_alternatives"} :
            alternatives.faults # {} \/ Len(s[f]) > MaxOriginAlternatives}
        \cup
        {f \in {"destinations"} :
            \/ destinations.faults # {} \/ \E i \in DOMAIN s[f] : s[f][i] = s["origin"]
            \/ s[f] = <<>> \/ Len(s[f]) > MaxDestinations}

(* validateCarriers, and the pass over the blacklist between its two calls.*)
CarrierBreaks(s) ==
    LET white == CheckCodes(s["airlines_whitelist"], {}, Carriers)
        black == CheckCodes(s["airlines_blacklist"], {}, Carriers)
    IN  {f \in {"airlines_whitelist"} :
            white.faults # {} \/ Len(s[f]) > MaxAirlineFilters}
        \cup
        {f \in {"airlines_blacklist"} :
            \/ black.faults # {} \/ \E i \in DOMAIN s[f] : s[f][i] \in white.seen
            \/ Len(s[f]) > MaxAirlineFilters}

-----------------------------------------------------------------------------
(* Properties *)

(* The body with the keys of both, c's value where both have a key. *)
Joined(b, c) ==
    [f \in DOMAIN b \cup DOMAIN c |-> IF f \in DOMAIN c THEN c[f] ELSE b[f]]

(* The rules on code lists, stated as sets and quantifiers, report exactly *)
(* the fields that the passes over the lists in Subscription.Validate do.  *)
ListRulesMatchLoops ==
    Validate(sample.sub) \cap (ListFields \cup {"destinations"}) =
        AirportBreaks(sample.sub) \cup CarrierBreaks(sample.sub)

(* Two PATCHes that are accepted leave what one PATCH with the keys of     *)
(* both does, the later one winning where both have a key; in particular a *)
(* PATCH sent again after its answer was lost changes nothing.             *)
PatchesCompose ==
    NullErrors(sample.first) = {} /\ NullErrors(sample.second) = {} =>
        MergePatch(MergePatch(sample.sub, sample.first), sample.second) =
            MergePatch(sample.sub, Joined(sample.first, sample.second))

(* A POST and a PATCH decode a key alike: creating from a body, or         *)
(* patching that body onto a fresh watch with every other optional key     *)
(* null, gives the same subscription; but a strategy that is blank is the  *)
(* default one of a POST, and stays blank in a PATCH.                      *)
PostDecodesAsPatch ==
    LET post == Joined(sample.required, sample.first)
        cleared == [f \in (ListFields \cup NullableFields) \ DOMAIN post |-> Null]
        patched == MergePatch(FromCreateBody(sample.required), Joined(cleared, post))
    IN  IsCreateBody(post) /\ NullErrors(post) = {} =>
            \A f \in Fields :
                FromCreateBody(post)[f] =
                    IF f = "alert_strategy" /\ patched[f] = Blank THEN DefaultStrategy
                    ELSE patched[f]

(* A PATCH of an alert parameter takes effect at once and alone: the value *)
(* it sets wins over the user's, null hands the parameter back to what the *)
(* settings screen shows as effective, and the other parameters resolve as *)
(* before (mergePatch with ResolveSettings).                               *)
OverrideTakesEffect ==
    \A p \in AlertParams :
        ResolveSettings(MergePatch(sample.sub, sample.first), sample.user, Defaults)[p] =
            IF p \notin DOMAIN sample.first
            THEN ResolveSettings(sample.sub, sample.user, Defaults)[p]
            ELSE IF sample.first[p] = Null
            THEN ResolveSettings(Null, sample.user, Defaults)[p]
            ELSE sample.first[p]
=============================================================================
