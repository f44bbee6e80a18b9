------------------------------ MODULE MCLifecycle ------------------------------
(***************************************************************************)
(* A small instance of Lifecycle: two requests to the app, one to metrics. *)
(***************************************************************************)
EXTENDS Lifecycle, TLC

CONSTANTS r1, r2, r3

MCRequests == {r1, r2, r3}
MCOn == r1 :> "app" @@ r2 :> "app" @@ r3 :> "metrics"
=============================================================================
