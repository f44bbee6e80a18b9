---------------------------- MODULE LifecycleProofs ----------------------------
(***************************************************************************)
(* Proofs about Lifecycle, for any number of requests to either server.    *)
(***************************************************************************)
EXTENDS Lifecycle, TLAPS

Idle(s) == \A r \in Requests : On[r] = s => work[r] = "none"

(* What shutdown has achieved at each stage, and keeps: a listener that    *)
(* was shut stays so, hence a server that was drained stays idle.          *)
Achieved ==
    /\ stage \in {"stop_app", "stop_metrics"} \/ result = "ok" => listener["app"] # "open"
    /\ stage = "stop_metrics" \/ result = "ok" =>
          listener["metrics"] # "open" /\ (~expired => Idle("app"))
    /\ result = "ok" /\ ~expired => Idle("metrics")

IndInv == TypeOK /\ Achieved

(* A step of run(). *)
LEMMA RunStep ==
    ASSUME IndInv, Run
    PROVE  IndInv'
<1> USE DEF Stages, Stopping, Servers, Goes, environment
<1>1. TypeOK'
  <2>1. CASE Connect
    BY <2>1 DEF IndInv, TypeOK, Connect
  <2>2. CASE StartBot
    BY <2>2 DEF IndInv, TypeOK, StartBot
  <2>3. CASE StartServers
    BY <2>3 DEF IndInv, TypeOK, StartServers
  <2>4. CASE StartFails
    <3>1. /\ stage' = "closing" /\ result' = "error" /\ UNCHANGED <<environment, listener, pool>>
          /\ bot' \in {"off", "stopping", "stopped"}
      BY <2>4 DEF IndInv, TypeOK, StartFails, Return
    <3> QED
      BY <3>1 DEF IndInv, TypeOK
  <2>5. CASE TakeSignal
    BY <2>5 DEF IndInv, TypeOK, TakeSignal
  <2>6. CASE TakeError
    BY <2>6 DEF IndInv, TypeOK, TakeError, Return
  <2>7. CASE BotIsDone
    BY <2>7 DEF IndInv, TypeOK, BotIsDone, Shut
  <2>8. CASE AppIsDone
    BY <2>8 DEF IndInv, TypeOK, AppIsDone, Shut
  <2>9. CASE MetricsAreDone
    BY <2>9 DEF IndInv, TypeOK, MetricsAreDone, Return
  <2>10. CASE ClosePool
    BY <2>10 DEF IndInv, TypeOK, ClosePool
  <2>11. CASE PoolCloses
    BY <2>11 DEF IndInv, TypeOK, PoolCloses
  <2>12. CASE Exit
    BY <2>12 DEF IndInv, TypeOK, Exit
  <2> QED
    BY <2>1, <2>2, <2>3, <2>4, <2>5, <2>6, <2>7, <2>8, <2>9, <2>10, <2>11, <2>12 DEF Run
<1>2. Achieved'
  <2>1. CASE Connect
    BY <2>1 DEF IndInv, TypeOK, Achieved, Idle, Connect
  <2>2. CASE StartBot
    BY <2>2 DEF IndInv, TypeOK, Achieved, Idle, StartBot
  <2>3. CASE StartServers
    BY <2>3 DEF IndInv, TypeOK, Achieved, Idle, StartServers
  <2>4. CASE StartFails
    BY <2>4 DEF IndInv, TypeOK, Achieved, Idle, StartFails, Return
  <2>5. CASE TakeSignal
    BY <2>5 DEF IndInv, TypeOK, Achieved, Idle, TakeSignal
  <2>6. CASE TakeError
    BY <2>6 DEF IndInv, TypeOK, Achieved, Idle, TakeError, Return
  <2>7. CASE BotIsDone
    BY <2>7 DEF IndInv, TypeOK, Achieved, Idle, BotIsDone, Shut
  <2>8. CASE AppIsDone
    BY <2>8 DEF IndInv, TypeOK, Achieved, Idle, AppIsDone, Drained, Shut
  <2>9. CASE MetricsAreDone
    BY <2>9 DEF IndInv, TypeOK, Achieved, Idle, MetricsAreDone, Drained, Return
  <2>10. CASE ClosePool
    BY <2>10 DEF IndInv, TypeOK, Achieved, Idle, ClosePool
  <2>11. CASE PoolCloses
    BY <2>11 DEF IndInv, TypeOK, Achieved, Idle, PoolCloses
  <2>12. CASE Exit
    BY <2>12 DEF IndInv, TypeOK, Achieved, Idle, Exit
  <2> QED
    BY <2>1, <2>2, <2>3, <2>4, <2>5, <2>6, <2>7, <2>8, <2>9, <2>10, <2>11, <2>12 DEF Run
<1> QED
  BY <1>1, <1>2 DEF IndInv

(* A step of a handler: it starts only on an open listener. *)
LEMMA HandlerStep ==
    ASSUME IndInv, NEW r \in Requests,
           Arrives(r) \/ Queries(r) \/ StatementEnds(r) \/ Answers(r)
    PROVE  IndInv'
<1> USE OnAssumption DEF Servers, others, Moves
<1>1. TypeOK'
  <2>1. CASE Arrives(r)
    BY <2>1 DEF IndInv, TypeOK, Arrives
  <2>2. CASE Queries(r)
    BY <2>2 DEF IndInv, TypeOK, Queries
  <2>3. CASE StatementEnds(r)
    BY <2>3 DEF IndInv, TypeOK, StatementEnds
  <2>4. CASE Answers(r)
    BY <2>4 DEF IndInv, TypeOK, Answers
  <2> QED
    BY <2>1, <2>2, <2>3, <2>4
<1>2. \A s \in Servers :
         listener[s] # "open" /\ Idle(s) => Idle(s)'
  BY DEF IndInv, TypeOK, Idle, Arrives, Queries, StatementEnds, Answers
<1>3. UNCHANGED <<stage, result, expired, listener>>
  BY DEF Arrives, Queries, StatementEnds, Answers
<1>4. Achieved'
  BY <1>2, <1>3 DEF IndInv, Achieved
<1> QED
  BY <1>1, <1>4 DEF IndInv

(* A step of the environment. *)
LEMMA EnvironmentStep ==
    ASSUME IndInv, Signal \/ Deadline \/ BotStops \/ \E s \in Servers : ListenerFails(s)
    PROVE  IndInv'
<1> USE DEF Servers, Stopping, environment
<1>1. TypeOK'
  <2>1. CASE Signal
    BY <2>1 DEF IndInv, TypeOK, Signal
  <2>2. CASE Deadline
    BY <2>2 DEF IndInv, TypeOK, Deadline
  <2>3. CASE BotStops
    BY <2>3 DEF IndInv, TypeOK, BotStops
  <2>4. ASSUME NEW s \in Servers, ListenerFails(s)
        PROVE  TypeOK'
    BY <2>4 DEF IndInv, TypeOK, ListenerFails
  <2> QED
    BY <2>1, <2>2, <2>3, <2>4
<1>2. Achieved'
  BY DEF IndInv, TypeOK, Achieved, Idle, Signal, Deadline, BotStops, ListenerFails
<1> QED
  BY <1>1, <1>2 DEF IndInv

(* The invariant holds in every state. *)
LEMMA Invariance == Spec => []IndInv
<1>1. Init => IndInv
  BY DEF Init, IndInv, TypeOK, Achieved, Idle, Stages, Stopping, Servers
<1>2. IndInv /\ [Next]_vars => IndInv'
  <2> SUFFICES ASSUME IndInv, [Next]_vars PROVE IndInv'
    OBVIOUS
  <2>1. CASE UNCHANGED vars
    BY <2>1 DEF IndInv, TypeOK, Achieved, Idle, vars
  <2>2. CASE Next
    BY <2>2, RunStep, HandlerStep, EnvironmentStep DEF Next
  <2> QED
    BY <2>1, <2>2
<1> QED
  BY <1>1, <1>2, PTL DEF Spec

(* run() and its goroutines keep to their states. *)
THEOREM TypeCorrect == Spec => []TypeOK
<1>1. IndInv => TypeOK
  BY DEF IndInv
<1> QED
  BY <1>1, Invariance, PTL

(* A shutdown that ends well within its deadline has cut off no request.   *)
THEOREM CleanExitsCutNothing == Spec => []CleanExitCutsNothing
<1>1. IndInv => CleanExitCutsNothing
  BY OnAssumption DEF IndInv, Achieved, Idle, CleanExitCutsNothing, InFlight, Servers
<1> QED
  BY <1>1, Invariance, PTL
-----------------------------------------------------------------------------
(* What is left of the design order when a listener fails *)

(* Before the servers listen there is no request; run() returns an error   *)
(* either then, or because a listener has died; and the pool is closed     *)
(* only on the way out.                                                    *)
Explained ==
    /\ stage \in {"starting", "connected", "wired"} => InFlight = {}
    /\ result = "error" =>
          AListenerIsDead \/ (InFlight = {} /\ \A s \in Servers : listener[s] = "off")
    /\ Closing => stage \in {"closing", "exited"}

(* A step keeps it. *)
LEMMA ExplainedStep ==
    ASSUME TypeOK, Explained, [Next]_vars
    PROVE  Explained'
<1> USE DEF Explained, InFlight, AListenerIsDead, Closing, Servers
<1>1. CASE UNCHANGED vars
  BY <1>1 DEF vars
<1>2. CASE Connect \/ StartBot \/ StartServers
  BY <1>2 DEF TypeOK, Connect, StartBot, StartServers, Goes, environment
<1>3. CASE StartFails
  BY <1>3 DEF TypeOK, StartFails, Return, environment
<1>4. CASE TakeSignal
  BY <1>4 DEF TypeOK, TakeSignal, Goes, environment
<1>5. CASE TakeError
  BY <1>5 DEF TypeOK, TakeError, Return
<1>6. CASE BotIsDone \/ AppIsDone
  BY <1>6 DEF TypeOK, BotIsDone, AppIsDone, Goes, Shut, environment
<1>7. CASE MetricsAreDone
  BY <1>7 DEF TypeOK, MetricsAreDone, Return, environment
<1>8. CASE ClosePool \/ PoolCloses
  BY <1>8 DEF TypeOK, ClosePool, PoolCloses, environment
<1>9. CASE Exit
  BY <1>9 DEF TypeOK, Exit, Goes
<1>10. CASE Signal \/ Deadline \/ BotStops
  BY <1>10 DEF TypeOK, Signal, Deadline, BotStops, environment
<1>11. ASSUME NEW s \in Servers, ListenerFails(s)
       PROVE  Explained'
  BY <1>11 DEF TypeOK, ListenerFails
<1>12. ASSUME NEW r \in Requests, Arrives(r) \/ Queries(r) \/ StatementEnds(r) \/ Answers(r)
       PROVE  Explained'
  BY <1>12, OnAssumption DEF TypeOK, Arrives, Queries, StatementEnds, Answers, Moves, others
<1> QED
  BY <1>1, <1>2, <1>3, <1>4, <1>5, <1>6, <1>7, <1>8, <1>9, <1>10, <1>11, <1>12 DEF Next, Run

(* The pool closes under a request only when the 15 seconds are over or a  *)
(* listener has died: PoolClosesLast, which the code breaks, is broken in  *)
(* no other way.                                                           *)
CutOnlyForACause == Closing /\ InFlight # {} => expired \/ AListenerIsDead

(* Whatever run() does, it cuts no request off without one of these causes. *)
THEOREM CutsHaveACause == Spec => []CutOnlyForACause
<1>1. Init => Explained
  BY DEF Init, Explained, InFlight, Closing
<1>2. IndInv => TypeOK
  BY DEF IndInv
<1>3. TypeOK /\ Explained /\ [Next]_vars => Explained'
  BY ExplainedStep
<1>4. IndInv => CleanExitCutsNothing
  BY OnAssumption DEF IndInv, Achieved, Idle, CleanExitCutsNothing, InFlight, Servers
<1>5. TypeOK /\ Explained /\ CleanExitCutsNothing => CutOnlyForACause
  BY DEF TypeOK, Explained, CleanExitCutsNothing, CutOnlyForACause
<1> QED
  BY <1>1, <1>2, <1>3, <1>4, <1>5, Invariance, PTL DEF Spec

-----------------------------------------------------------------------------
(* What the liveness properties say *)

(* A signal is not taken back. *)
LEMMA SignalStays ==
    ASSUME signalled, [Next]_vars
    PROVE  signalled'
BY DEF Next, vars, Run, environment, Connect, StartBot, StartServers, StartFails, TakeSignal,
       TakeError, BotIsDone, AppIsDone, MetricsAreDone, ClosePool, PoolCloses, Exit, Signal,
       Deadline, BotStops, ListenerFails, Arrives, Queries, StatementEnds, Answers, others

(* A listener that has died is not revived. *)
LEMMA DeadStaysDead ==
    ASSUME TypeOK, AListenerIsDead, [Next]_vars
    PROVE  AListenerIsDead' \/ (stage = "exited")'
<1> USE DEF AListenerIsDead, Servers
<1>1. CASE UNCHANGED vars
  BY <1>1 DEF vars
<1>2. CASE Connect \/ StartBot \/ StartFails \/ TakeSignal \/ TakeError \/ MetricsAreDone
           \/ ClosePool \/ PoolCloses
  BY <1>2 DEF Connect, StartBot, StartFails, TakeSignal, TakeError, MetricsAreDone, ClosePool,
              PoolCloses
<1>3. CASE StartServers
  BY <1>3 DEF TypeOK, StartServers, Goes
<1>4. CASE BotIsDone \/ AppIsDone
  BY <1>4 DEF TypeOK, BotIsDone, AppIsDone, Shut
<1>5. CASE Exit
  BY <1>5 DEF Exit, Goes
<1>6. CASE Signal \/ Deadline \/ BotStops
  BY <1>6 DEF Signal, Deadline, BotStops
<1>7. ASSUME NEW s \in Servers, ListenerFails(s)
      PROVE  AListenerIsDead'
  BY <1>7 DEF TypeOK, ListenerFails
<1>8. ASSUME NEW r \in Requests, Arrives(r) \/ Queries(r) \/ StatementEnds(r) \/ Answers(r)
      PROVE  AListenerIsDead'
  BY <1>8 DEF Arrives, Queries, StatementEnds, Answers, others
<1> QED
  BY <1>1, <1>2, <1>3, <1>4, <1>5, <1>6, <1>7, <1>8 DEF Next, Run

(* The two liveness properties, written as recurrences, say what they are  *)
(* meant to: a signal leads to the end of the process, and so does the     *)
(* death of a listener.  (That they hold is for TLC to check.)             *)
THEOREM RecurrencesAreLeadsTo ==
    Spec => /\ SignalEndsIt <=> (signalled ~> stage = "exited")
            /\ NeverHalfUp <=> (AListenerIsDead ~> stage = "exited")
<1>1. signalled /\ [Next]_vars => signalled'
  BY SignalStays
<1>2. IndInv => TypeOK
  BY DEF IndInv
<1>3. TypeOK /\ AListenerIsDead /\ [Next]_vars => AListenerIsDead' \/ (stage = "exited")'
  BY DeadStaysDead
<1>4. Spec => (SignalEndsIt <=> (signalled ~> stage = "exited"))
  BY <1>1, PTL DEF Spec, SignalEndsIt
<1>5. Spec => (NeverHalfUp <=> (AListenerIsDead ~> stage = "exited"))
  BY <1>2, <1>3, Invariance, PTL DEF Spec, NeverHalfUp
<1> QED
  BY <1>4, <1>5, PTL
=============================================================================
