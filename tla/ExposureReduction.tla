-------------------------- MODULE ExposureReduction -------------------------
(***************************************************************************)
(* How a strategy paces its reductions.  A round that sees too much        *)
(* exposure sends on exposureReductionChan (unbuffered).  The receiver     *)
(* starts a timer goroutine unless it is waiting for one, and a timer that *)
(* runs out arms the next reduction and ends the waiting.  Three           *)
(* goroutines share the two flags without a lock, so a timer's two stores  *)
(* may reach the others in either order.                                   *)
(***************************************************************************)
EXTENDS Naturals, FiniteSets

CONSTANT Timers   \* names for timer goroutines: a bound on those alive at once

VARIABLES receiver,                 \* "ready", or "took" before it looks at the flag
          waitingToReduce,
          timer,                    \* timer[t]: "none", "asleep", or what it has stored
          reduceExposureThisCycle,
          ranOut                    \* history: a timer ran out since the last reduction

reductionVars == <<receiver, waitingToReduce, timer, reduceExposureThisCycle, ranOut>>

Asleep == {t \in Timers : timer[t] = "asleep"}

ReductionInit ==
    /\ receiver = "ready"
    /\ waitingToReduce = FALSE
    /\ timer = [t \in Timers |-> "none"]
    /\ reduceExposureThisCycle = FALSE
    /\ ranOut = FALSE

\* The strategy's send, received by the goroutine that runs the loop.
Ask ==
    /\ receiver = "ready"
    /\ receiver' = "took"
    /\ UNCHANGED <<waitingToReduce, timer, reduceExposureThisCycle, ranOut>>

IgnoresAsk ==
    /\ receiver = "took"
    /\ waitingToReduce
    /\ receiver' = "ready"
    /\ UNCHANGED <<waitingToReduce, timer, reduceExposureThisCycle, ranOut>>

StartsTimer(t) ==
    /\ receiver = "took"
    /\ ~waitingToReduce
    /\ timer[t] = "none"
    /\ waitingToReduce' = TRUE
    /\ timer' = [timer EXCEPT ![t] = "asleep"]
    /\ receiver' = "ready"
    /\ UNCHANGED <<reduceExposureThisCycle, ranOut>>

\* MUTANT: the timer does not end the waiting.
Releases_Never(t) ==
    /\ timer[t] \in {"asleep", "armed"}
    /\ timer' = [timer EXCEPT ![t] = IF @ = "asleep" THEN "released" ELSE "none"]
    /\ UNCHANGED <<receiver, waitingToReduce, reduceExposureThisCycle, ranOut>>

\* The two stores after the sleep of 5 to 19 seconds, in either order.
Arms(t) ==
    /\ timer[t] \in {"asleep", "released"}
    /\ reduceExposureThisCycle' = TRUE
    /\ ranOut' = TRUE
    /\ timer' = [timer EXCEPT ![t] = IF @ = "asleep" THEN "armed" ELSE "none"]
    /\ UNCHANGED <<receiver, waitingToReduce>>

Releases(t) ==
    /\ timer[t] \in {"asleep", "armed"}
    /\ waitingToReduce' = FALSE
    /\ timer' = [timer EXCEPT ![t] = IF @ = "asleep" THEN "released" ELSE "none"]
    /\ UNCHANGED <<receiver, reduceExposureThisCycle, ranOut>>

\* MUTANT: the flag is not reset.
Uses_KeepsFlag ==
    /\ ranOut' = FALSE
    /\ UNCHANGED <<receiver, waitingToReduce, timer, reduceExposureThisCycle>>

\* The strategy has built its reduction and resets the flag.
Uses ==
    /\ reduceExposureThisCycle' = FALSE
    /\ ranOut' = FALSE
    /\ UNCHANGED <<receiver, waitingToReduce, timer>>

Receiver == IgnoresAsk \/ \E t \in Timers : StartsTimer(t)
Timer(t) == Arms(t) \/ Releases(t)
=============================================================================
