---------------------------- MODULE AlertSettings ----------------------------
(***************************************************************************)
(* The alert parameters that a subscription, a user and the environment    *)
(* can each set: their bounds (internal/domain/validate.go), the cascade   *)
(* that picks one (internal/domain/settings.go), and the two statements on *)
(* the user_settings table (db/queries/user_settings.sql).                 *)
(*                                                                         *)
(* Ratios are integer per-mille: 250 is 0.25.                              *)
(***************************************************************************)
EXTENDS Integers

CONSTANT Null   \* JSON null, a nil pointer, SQL NULL

AlertParams == {"cooldown_hours", "drop_pct", "stable_price_band_pct"}

Given(x) == x # Null

CooldownBroken(x) == Given(x) /\ x < 0
DropBroken(x) == Given(x) /\ x \notin 1 .. 999
BandBroken(x) == Given(x) /\ x \notin 0 .. 999

InBounds(p, x) ==
    /\ p = "cooldown_hours" => ~CooldownBroken(x)
    /\ p = "drop_pct" => ~DropBroken(x)
    /\ p = "stable_price_band_pct" => ~BandBroken(x)

(* Mutant of ResolveSettings: the user's setting wins over the watch's. *)
ResolveUserFirst(sub, user, def) ==
    [p \in AlertParams |->
        IF Given(user[p]) THEN user[p]
        ELSE IF sub # Null /\ Given(sub[p]) THEN sub[p] ELSE def[p]]

(* ResolveSettings: the most specific level that sets a value wins.  sub   *)
(* is Null when only the user's own settings are resolved.                 *)
ResolveSettings(sub, user, def) ==
    [p \in AlertParams |->
        IF sub # Null /\ Given(sub[p]) THEN sub[p]
        ELSE IF Given(user[p]) THEN user[p] ELSE def[p]]

(* EnsureUserSettings: a row with nothing set appears where there is none. *)
EnsureUserSettings(row) ==
    IF row = Null THEN [p \in AlertParams |-> Null] ELSE row

(* Mutant of UpdateUserSettings: COALESCE(excluded.column, column). *)
UpdateIgnoringNulls(row, body) ==
    [p \in AlertParams |->
        IF p \in DOMAIN body /\ Given(body[p]) THEN body[p] ELSE EnsureUserSettings(row)[p]]

(* UpdateUserSettings: one upsert; a column changes when its set_ flag is  *)
(* true, that is when the body has its key.                                *)
UpdateUserSettings(row, body) ==
    [p \in AlertParams |->
        IF p \in DOMAIN body THEN body[p] ELSE EnsureUserSettings(row)[p]]
=============================================================================
