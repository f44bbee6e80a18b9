--------------------------- MODULE MCSettingsScreen ---------------------------
(***************************************************************************)
(* A small instance of SettingsScreen: two of the three fields, one whole  *)
(* and one a ratio that may be finer than a percent, typed here (20.5 %    *)
(* and 28.5 %, a half that is rounded up and one that is not) or stored by *)
(* another device (25.5 %).                                                *)
(***************************************************************************)
EXTENDS SettingsScreen, TLC

MCParams == {"cooldown_hours", "drop_pct"}
MCTyped == "cooldown_hours" :> {BadNumber} @@ "drop_pct" :> {Null, 200, 205, 285}
MCFallsShort == {285}
MCOtherBodies == {"drop_pct" :> 255, "cooldown_hours" :> 8}

(* A user who only cares about the quiet period.                           *)
MCTypedCooldown == "cooldown_hours" :> {8} @@ "drop_pct" :> {}

(* Nothing keeps the user from typing 0, whatever the input's min says.    *)
MCTypedZero == "cooldown_hours" :> {8} @@ "drop_pct" :> {0, 200}
=============================================================================
