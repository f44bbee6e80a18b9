--------------------------- MODULE MCSubscriptions ---------------------------
(***************************************************************************)
(* A small instance of Subscriptions for TLC: a handful of bodies chosen   *)
(* so that the cross-field rules, the freshness rule and the three states  *)
(* of a PATCH key (absent, null, set) all matter.                          *)
(***************************************************************************)
EXTENDS Subscriptions, TLC

MCStrings == STRING
MCRawCodes == {"", "beg ", "BCN", "XXX"}
MCUpper == [c \in MCRawCodes |-> IF c = "beg " THEN "BEG" ELSE c]
MCRawLists == {<<>>, <<"BCN">>, <<"", "BCN">>, <<"beg ">>}
MCRawWords == {"", "absolute_threshold", "historical_minimum "}
MCTrim == [w \in MCRawWords |->
              IF w = "historical_minimum " THEN "historical_minimum" ELSE w]

(* A watch for day 1 that has a ceiling without needing one, and one that  *)
(* relies on the default strategy and lacks the ceiling it needs.          *)
Watch == [origin |-> "beg ", destinations |-> <<"", "BCN">>, date_from |-> 1]
MCCreateBodies ==
    {Watch @@ [date_to |-> 1, alert_strategy |-> "historical_minimum ",
               max_price_minor |-> 9000],
     Watch @@ [date_to |-> 2]}

(* Resume, and two that are each fine on the first watch but not one on    *)
(* top of the other.                                                       *)
MCPatchBodies ==
    {[status |-> "active"],
     [max_price_minor |-> Null],
     [alert_strategy |-> "absolute_threshold", status |-> "paused"]}

(* Two PATCHes about different fields, all the lost update needs.          *)
MCPauseAndMute == {[status |-> "paused"], [muted_until |-> 9]}

Symmetry == Permutations(Users) \cup Permutations(Ids) \cup Permutations(Requests)
=============================================================================
