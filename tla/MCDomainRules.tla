----------------------------- MODULE MCDomainRules -----------------------------
(***************************************************************************)
(* A small instance of DomainRules: a subscription with arbitrary code     *)
(* lists, or a subscription and two PATCH bodies, or a subscription, a     *)
(* body and a user's settings.  Codes are abstract, so the same ones serve *)
(* as airports and as carriers.                                            *)
(***************************************************************************)
EXTENDS DomainRules

MCStrings == STRING
MCRawCodes == {"", "beg ", "BEG", "BCN", "XXX"}
MCUpper == [code \in MCRawCodes |-> IF code = "beg " THEN "BEG" ELSE code]
MCRawLists == BoundedSeq({"", "beg ", "BCN", "XXX"}, 3)
MCRawWords == {"", "historical_minimum "}
MCTrim == [w \in MCRawWords |-> IF w = "" THEN "" ELSE "historical_minimum"]

Watch ==
    [f \in Fields |->
        IF f = "origin" THEN "BEG"
        ELSE IF f = "destinations" THEN <<"BCN">>
        ELSE IF f \in {"date_from", "date_to"} THEN 1
        ELSE IF f = "max_price_minor" THEN 9000
        ELSE Zero(f)]

(* Every body over a required key, a list key, a nullable key and the key  *)
(* with a default, each absent, null or set in one way or two.             *)
Key(f, vs) == {<<>>} \cup {f :> v : v \in vs}
Bodies ==
    {o @@ l @@ p @@ w :
        o \in Key("origin", {Null, "beg "}),
        l \in Key("origin_alternatives", {Null, <<"", "beg ">>, <<"XXX", "BCN">>}),
        p \in Key("max_price_minor", {Null, 5000}),
        w \in Key("alert_strategy", {Null, "", "historical_minimum "})}

(* Overrides of a subscription over the settings of a user; 0 hours is a   *)
(* setting like any other.                                                 *)
Settings(cooldowns, drops) ==
    {[cooldown_hours |-> h, drop_pct |-> d, stable_price_band_pct |-> Null] :
        h \in cooldowns, d \in drops}
MCDefaults == [cooldown_hours |-> 12, drop_pct |-> 150, stable_price_band_pct |-> 50]
Overrides ==
    {h @@ d : h \in Key("cooldown_hours", {Null, 0, 7}), d \in Key("drop_pct", {Null, 300})}

Required ==
    [f \in {"origin", "destinations", "date_from", "date_to"} |->
        IF f = "destinations" THEN <<"beg ">> ELSE IF f = "origin" THEN "BEG" ELSE 1]

Sample(sub, first, second, user) ==
    [sub |-> sub, required |-> Required, first |-> first, second |-> second, user |-> user]
Unset == [p \in AlertParams |-> Null]
Lists(code, l1, l2) ==
    [Watch EXCEPT !["origin"] = code,
                  !["origin_alternatives"] = l1, !["destinations"] = l2,
                  !["airlines_whitelist"] = l1, !["airlines_blacklist"] = l2]
MCSamples ==
    {Sample(Lists(code, l1, l2), <<>>, <<>>, Unset) :
        code \in {"", "BEG", "BCN"}, l1 \in CodeLists, l2 \in CodeLists}
    \cup {Sample(Watch, first, second, Unset) : first \in Bodies, second \in Bodies}
    \cup {Sample(p @@ Watch, first, <<>>, user) :
              p \in Settings({Null, 0, 5}, {Null, 200}), first \in Overrides,
              user \in Settings({Null, 0, 24}, {Null, 250})}
=============================================================================
