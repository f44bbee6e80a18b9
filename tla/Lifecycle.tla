------------------------------- MODULE Lifecycle -------------------------------
(***************************************************************************)
(* One run of the process (cmd/warden/main.go): what run() starts, the     *)
(* signal or the failing listener that ends it, the ordered shutdown under *)
(* its one deadline, and the deferred calls.  Around it the goroutines it  *)
(* does not wait for: the bot, two HTTP servers and their handlers, which  *)
(* query the pool.                                                         *)
(***************************************************************************)
EXTENDS FiniteSets

CONSTANTS
    Requests,   \* handler goroutines
    On          \* On[r]: the server r belongs to

Servers == {"app", "metrics"}

ASSUME OnAssumption == On \in [Requests -> Servers]

VARIABLES
    stage,      \* where run() is
    result,     \* what run() returns, "none" until it does
    signalled,  \* SIGINT or SIGTERM has come
    expired,    \* the 15 seconds of shutdownCtx are over
    bot,        \* the goroutine that polls Telegram
    listener,   \* listener[s]: the ListenAndServe of server s
    errCh,      \* the servers whose error waits in errCh
    pool,       \* the pgx pool
    work        \* work[r]: what handler r is doing

vars == <<stage, result, signalled, expired, bot, listener, errCh, pool, work>>

environment == <<signalled, expired, errCh, work>>

Stopping == {"stop_bot", "stop_app", "stop_metrics"}
Stages == {"starting", "connected", "wired", "serving", "closing", "exited"} \cup Stopping

Init ==
    /\ stage = "starting"
    /\ result = "none"
    /\ signalled = FALSE
    /\ expired = FALSE
    /\ bot = "off"
    /\ listener = [s \in Servers |-> "off"]
    /\ errCh = {}
    /\ pool = "none"
    /\ work = [r \in Requests |-> "none"]

-----------------------------------------------------------------------------
(* run(): starting *)

Goes(from, to) == stage = from /\ stage' = to

(* run() returns, and its deferred calls begin with botCancel. *)
Return(res) ==
    /\ stage' = "closing"
    /\ result' = res
    /\ bot' = IF bot = "polling" THEN "stopping" ELSE bot

(* Migrate and Connect. *)
Connect ==
    /\ Goes("starting", "connected")
    /\ pool' = "open"
    /\ UNCHANGED <<environment, result, bot, listener>>

StartBot ==
    /\ Goes("connected", "wired")
    /\ bot' = "polling"
    /\ UNCHANGED <<environment, result, listener, pool>>

StartServers ==
    /\ Goes("wired", "serving")
    /\ listener' = [s \in Servers |-> "open"]
    /\ UNCHANGED <<environment, result, bot, pool>>

(* Migrate or Connect, bot.New, airports.New. *)
StartFails ==
    /\ stage \in {"starting", "connected", "wired"}
    /\ Return("error")
    /\ UNCHANGED <<environment, listener, pool>>

-----------------------------------------------------------------------------
(* run(): the select, and the ordered shutdown *)

TakeSignal ==
    /\ signalled
    /\ Goes("serving", "stop_bot")
    /\ bot' = "stopping"
    /\ UNCHANGED <<environment, result, listener, pool>>

TakeError ==
    /\ stage = "serving"
    /\ errCh # {}
    /\ Return("error")
    /\ \E s \in errCh : errCh' = errCh \ {s}
    /\ UNCHANGED <<signalled, expired, listener, pool, work>>

(* A call of Shutdown closes the listener first. *)
Shut(s) ==
    listener' = [listener EXCEPT ![s] = IF @ = "open" THEN "shut" ELSE @]

(* ... and returns once the server has no request, or at the deadline.     *)
Drained(s) == expired \/ \A r \in Requests : On[r] = s => work[r] = "none"

BotIsDone ==
    /\ bot = "stopped" \/ expired
    /\ Goes("stop_bot", "stop_app")
    /\ Shut("app")
    /\ UNCHANGED <<environment, result, bot, pool>>

(* Mutant of AppIsDone: Shutdown is called, but not waited for. *)
AppIsLeft ==
    /\ Goes("stop_app", "stop_metrics")
    /\ Shut("metrics")
    /\ UNCHANGED <<environment, result, bot, pool>>

AppIsDone ==
    /\ Drained("app")
    /\ Goes("stop_app", "stop_metrics")
    /\ Shut("metrics")
    /\ UNCHANGED <<environment, result, bot, pool>>

MetricsAreDone ==
    /\ stage = "stop_metrics"
    /\ Drained("metrics")
    /\ Return("ok")
    /\ UNCHANGED <<environment, listener, pool>>

(* store.Close: no connection is handed out any more ... *)
ClosePool ==
    /\ stage = "closing"
    /\ pool = "open"
    /\ pool' = "closing"
    /\ UNCHANGED <<environment, stage, result, bot, listener>>

(* Mutant of PoolCloses: it does not wait. *)
PoolClosesAtOnce ==
    /\ pool = "closing"
    /\ pool' = "closed"
    /\ UNCHANGED <<environment, stage, result, bot, listener>>

(* ... and it returns when those in use have come back. *)
PoolCloses ==
    /\ pool = "closing"
    /\ \A r \in Requests : work[r] # "querying"
    /\ pool' = "closed"
    /\ UNCHANGED <<environment, stage, result, bot, listener>>

(* The process ends, and every goroutine with it. *)
Exit ==
    /\ pool \in {"none", "closed"}
    /\ Goes("closing", "exited")
    /\ bot' = "off"
    /\ listener' = [s \in Servers |-> "off"]
    /\ errCh' = {}
    /\ work' = [r \in Requests |-> "none"]
    /\ UNCHANGED <<result, signalled, expired, pool>>

Run ==
    \/ Connect \/ StartBot \/ StartServers \/ StartFails
    \/ TakeSignal \/ TakeError
    \/ BotIsDone \/ AppIsDone \/ MetricsAreDone
    \/ ClosePool \/ PoolCloses \/ Exit

-----------------------------------------------------------------------------
(* The other goroutines and the environment *)

Signal ==
    /\ ~signalled
    /\ stage # "exited"
    /\ signalled' = TRUE
    /\ UNCHANGED <<stage, result, expired, bot, listener, errCh, pool, work>>

(* Mutant of Deadline: it bounds the wait for the bot only. *)
DeadlineOfBot ==
    /\ stage = "stop_bot" /\ ~expired
    /\ expired' = TRUE
    /\ UNCHANGED <<stage, result, signalled, bot, listener, errCh, pool, work>>

Deadline ==
    /\ stage \in Stopping /\ ~expired
    /\ expired' = TRUE
    /\ UNCHANGED <<stage, result, signalled, bot, listener, errCh, pool, work>>

BotStops ==
    /\ bot = "stopping"
    /\ bot' = "stopped"
    /\ UNCHANGED <<environment, stage, result, listener, pool>>

(* Mutant of ListenerFails: only the app server's error is reported. *)
ListenerFailsQuietly(s) ==
    /\ listener[s] = "open"
    /\ listener' = [listener EXCEPT ![s] = "failed"]
    /\ errCh' = errCh \cup ({s} \cap {"app"})
    /\ UNCHANGED <<stage, result, signalled, expired, bot, pool, work>>

(* serve: ListenAndServe returns an error that is not ErrServerClosed. *)
ListenerFails(s) ==
    /\ listener[s] = "open"
    /\ listener' = [listener EXCEPT ![s] = "failed"]
    /\ errCh' = errCh \cup {s}
    /\ UNCHANGED <<stage, result, signalled, expired, bot, pool, work>>

Moves(r, from, to) == work[r] = from /\ work' = [work EXCEPT ![r] = to]

others == <<stage, result, signalled, expired, bot, listener, errCh, pool>>

Arrives(r) == listener[On[r]] = "open" /\ Moves(r, "none", "handling") /\ UNCHANGED others

(* A handler that asks a closed pool gets an error, and answers. *)
Queries(r) == pool = "open" /\ Moves(r, "handling", "querying") /\ UNCHANGED others

StatementEnds(r) == Moves(r, "querying", "handling") /\ UNCHANGED others

Answers(r) == Moves(r, "handling", "none") /\ UNCHANGED others

Next ==
    \/ Run
    \/ Signal
    \/ Deadline
    \/ BotStops
    \/ \E s \in Servers : ListenerFails(s)
    \/ \E r \in Requests : Arrives(r) \/ Queries(r) \/ StatementEnds(r) \/ Answers(r)

(* run() goes on when it can, time passes, and a statement ends, if only   *)
(* because its connection breaks.  Handlers and the bot may take for ever. *)
Spec ==
    /\ Init /\ [][Next]_vars
    /\ WF_vars(Run)
    /\ WF_vars(Deadline)
    /\ \A r \in Requests : WF_vars(StatementEnds(r))

-----------------------------------------------------------------------------
(* Properties *)

(* Everything is in a known state, listeners and the bot run only between  *)
(* start and shutdown, and no statement runs on a pool that is not there.  *)
TypeOK ==
    /\ stage \in Stages
    /\ result \in {"none", "ok", "error"}
    /\ result # "none" <=> stage \in {"closing", "exited"}
    /\ signalled \in BOOLEAN /\ expired \in BOOLEAN
    /\ bot \in {"off", "polling", "stopping", "stopped"}
    /\ bot = "polling" => stage \in {"wired", "serving"}
    /\ listener \in [Servers -> {"off", "open", "failed", "shut"}]
    /\ stage \in {"starting", "connected", "wired", "exited"} =>
          \A s \in Servers : listener[s] = "off"
    /\ errCh \subseteq {s \in Servers : listener[s] = "failed"}
    /\ pool \in {"none", "open", "closing", "closed"}
    /\ work \in [Requests -> {"none", "handling", "querying"}]
    /\ \A r \in Requests : work[r] = "querying" => pool \in {"open", "closing"}

Closing == pool \in {"closing", "closed"}
InFlight == {r \in Requests : work[r] # "none"}

(* A run that ends well within its deadline has cut off no request: when   *)
(* the pool closes, every handler has answered, and none can start.        *)
CleanExitCutsNothing ==
    Closing /\ result = "ok" /\ ~expired => InFlight = {}

(* A signal ends the process, whatever the bot and the handlers do: each   *)
(* wait on the way has a limit.  (A signal is not taken back: to be        *)
(* signalled and not ended for ever is the only way to break it.)          *)
SignalEndsIt == []<>(signalled => stage = "exited")

(* The process does not stay up with one of its listeners dead.  (A dead   *)
(* one stays dead.)                                                        *)
AListenerIsDead == \E s \in Servers : listener[s] = "failed"
NeverHalfUp == []<>(AListenerIsDead => stage = "exited")

(* The design order on the comment of the bot, "bot -> HTTP -> in-flight   *)
(* -> pool": however run() ends, requests in flight are waited for before  *)
(* the pool closes, up to the deadline.  The code breaks it: when one      *)
(* listener fails, run() returns at once and the pool closes under the     *)
(* requests of both servers.                                               *)
PoolClosesLast == Closing /\ ~expired => InFlight = {}
=============================================================================
