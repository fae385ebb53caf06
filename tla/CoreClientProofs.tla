-------------------------- MODULE CoreClientProofs --------------------------
(***************************************************************************)
(* The safety of the Vega core client's reconnect protocol, for any bound  *)
(* on the failures: the flag is never left standing, no loop is given up   *)
(* without a replacement, the handler dials tested addresses, and loops    *)
(* pile up by one for each failure at most.                                *)
(***************************************************************************)
EXTENDS CoreClient, Integers, TLAPS

\* From the end of a successful test to the next request nobody empties the
\* address.
AddrInv == handler \in {"reset", "startSubmit", "startBlock"} => grpcAddr = "up"

Inv == TypeOK /\ FlagPending /\ Serviced /\ AddrInv

LoopsType == loops \in [Kinds -> [Places -> Nat]]

-----------------------------------------------------------------------------
(* What the three ways of changing the counts leave behind.                *)

\* A loop is started: one more stands at wait.
LEMMA StartsEffect ==
    ASSUME LoopsType, NEW k \in Kinds, Starts(k)
    PROVE  /\ LoopsType'
           /\ loops'[k]["wait"] = loops[k]["wait"] + 1
           /\ \A j \in Kinds : \A p \in Places :
                  j # k \/ p # "wait" => loops'[j][p] = loops[j][p]
BY DEF LoopsType, Starts, Places, Kinds

\* A loop moves: one less at from, one more at to.
LEMMA MovesEffect ==
    ASSUME LoopsType, NEW k \in Kinds, NEW from \in Places, NEW to \in Places,
           from # to, Moves(k, from, to)
    PROVE  /\ LoopsType'
           /\ loops'[k][to] = loops[k][to] + 1
           /\ loops'[k][from] = loops[k][from] - 1
           /\ \A j \in Kinds : \A p \in Places :
                  j # k \/ (p # from /\ p # to) => loops'[j][p] = loops[j][p]
BY DEF LoopsType, Moves

\* A loop returns: one less at from.
LEMMA ReturnsEffect ==
    ASSUME LoopsType, NEW k \in Kinds, NEW from \in Places, Returns(k, from)
    PROVE  /\ LoopsType'
           /\ loops'[k][from] = loops[k][from] - 1
           /\ \A j \in Kinds : \A p \in Places :
                  j # k \/ p # from => loops'[j][p] = loops[j][p]
BY DEF LoopsType, Returns

-----------------------------------------------------------------------------
(* The inductive invariant.  Asking is the only part of FlagPending and    *)
(* Serviced that a step other than the handler's can take away, and a loop *)
(* that leaves check without asking has read the flag: so Serviced needs   *)
(* FlagPending to be inductive.                                            *)

LEMMA InitInv == Init => Inv
<1> SUFFICES ASSUME Init PROVE Inv
  OBVIOUS
<1>1. TypeOK
  <2>1. loops \in [Kinds -> [Places -> Nat]]
    BY DEF Init
  <2>2. failures \in 0..MaxFailures
    BY CoreAssumption DEF CoreAssumption, Init
  <2> QED
    BY <2>1, <2>2 DEF Init, TypeOK
<1>2. FlagPending /\ Serviced /\ AddrInv
  BY DEF Init, FlagPending, Serviced, ToBeStarted, AddrInv
<1> QED
  BY <1>1, <1>2 DEF Inv

\* The start-up steps.
LEMMA MainStep ==
    ASSUME Inv, Main
    PROVE  Inv'
<1> USE DEF Inv
<1>a. LoopsType /\ "submit" \in Kinds /\ "block" \in Kinds
      /\ "wait" \in Places /\ "send" \in Places /\ "set" \in Places
  BY DEF TypeOK, LoopsType, Kinds, Places
<1>1. CASE MainStartsBlock
  <2>1. /\ LoopsType' /\ loops'["block"]["wait"] = loops["block"]["wait"] + 1
        /\ \A j \in Kinds : \A p \in Places :
              j # "block" \/ p # "wait" => loops'[j][p] = loops[j][p]
    BY <1>1, <1>a, StartsEffect DEF MainStartsBlock
  <2>2. TypeOK'
    BY <1>1, <2>1 DEF MainStartsBlock, TypeOK, LoopsType
  <2>3. FlagPending'
    BY <1>1, <1>a, <2>1 DEF MainStartsBlock, FlagPending, Asking
  <2>4. loops'["block"]["wait"] > 0
    BY <2>1, <1>a DEF LoopsType
  <2>5. Serviced'
    BY <1>1, <2>4 DEF MainStartsBlock, Serviced, Running, ToBeStarted, Kinds
  <2> QED
    BY <1>1, <2>2, <2>3, <2>5 DEF MainStartsBlock, AddrInv
<1>2. CASE MainStartsSubmit
  <2>1. /\ LoopsType' /\ loops'["submit"]["wait"] = loops["submit"]["wait"] + 1
        /\ \A j \in Kinds : \A p \in Places :
              j # "submit" \/ p # "wait" => loops'[j][p] = loops[j][p]
    BY <1>2, <1>a, StartsEffect DEF MainStartsSubmit
  <2>2. TypeOK'
    BY <1>2, <2>1 DEF MainStartsSubmit, TypeOK, LoopsType
  <2>3. FlagPending'
    BY <1>2, <1>a, <2>1 DEF MainStartsSubmit, FlagPending, Asking
  <2>4. loops'["submit"]["wait"] > 0
    BY <2>1, <1>a DEF LoopsType
  <2>5. Serviced'
    BY <1>2, <1>a, <2>1, <2>4
    DEF MainStartsSubmit, Serviced, Running, ToBeStarted, Asking, AboutToAsk, Kinds, Places
  <2> QED
    BY <1>2, <2>2, <2>3, <2>5 DEF MainStartsSubmit, AddrInv
<1>3. CASE MainDialFails
  BY <1>3 DEF MainDialFails, TypeOK, FlagPending, Serviced, AddrInv, Asking,
              AboutToAsk, Running, ToBeStarted
<1>4. CASE MainChecks
  BY <1>4 DEF MainChecks, TypeOK, FlagPending, Serviced, AddrInv, Asking,
              AboutToAsk, Running, ToBeStarted
<1>5. CASE MainSets
  BY <1>5 DEF MainSets, TypeOK, FlagPending, Serviced, AddrInv, Asking,
              AboutToAsk, Running, ToBeStarted
<1> QED
  BY <1>1, <1>2, <1>3, <1>4, <1>5 DEF Main

\* The steps of a loop.
LEMMA LoopStep ==
    ASSUME Inv, NEW k \in Kinds, Loop(k)
    PROVE  Inv'
<1> USE DEF Inv
<1>a. LoopsType /\ {"wait", "call", "deliver", "check", "set", "send"} \subseteq Places
  BY DEF TypeOK, LoopsType, Places
<1>1. CASE Begins(k)
  <2>1. /\ LoopsType' /\ loops'[k]["call"] = loops[k]["call"] + 1
        /\ loops[k]["wait"] > 0
        /\ \A j \in Kinds : \A p \in Places :
              j # k \/ (p # "wait" /\ p # "call") => loops'[j][p] = loops[j][p]
    <3>1. Moves(k, "wait", "call")
      BY <1>1 DEF Begins
    <3>2. loops[k]["wait"] > 0
      BY <3>1 DEF Moves
    <3> QED
      BY <3>1, <3>2, <1>a, MovesEffect
  <2>2. loops'[k]["call"] > 0
    BY <2>1, <1>a DEF LoopsType
  <2>3. TypeOK' /\ AddrInv'
    BY <1>1, <2>1 DEF Begins, TypeOK, LoopsType, AddrInv
  <2>4. FlagPending'
    BY <1>1, <1>a, <2>1 DEF Begins, FlagPending, Asking
  <2>5. Serviced'
    BY <1>1, <1>a, <2>1, <2>2
    DEF Begins, Serviced, Running, ToBeStarted, Asking, AboutToAsk, Places
  <2> QED
    BY <2>3, <2>4, <2>5
<1>2. CASE CallSucceeds(k)
  <2> DEFINE to == IF k = "block" THEN "deliver" ELSE "wait"
  <2>0. to \in Places /\ to \in {"deliver", "wait"}
    BY <1>a
  <2>1. /\ LoopsType' /\ loops'[k][to] = loops[k][to] + 1
        /\ loops[k]["call"] > 0
        /\ \A j \in Kinds : \A p \in Places :
              j # k \/ (p # "call" /\ p # to) => loops'[j][p] = loops[j][p]
    <3>1. Moves(k, "call", to)
      BY <1>2 DEF CallSucceeds
    <3>2. loops[k]["call"] > 0
      BY <3>1 DEF Moves
    <3> HIDE DEF to
    <3>3. "call" # to
      BY <2>0
    <3> QED
      BY <3>1, <3>2, <3>3, <2>0, <1>a, MovesEffect
  <2>2. loops'[k][to] > 0
    BY <2>0, <2>1, <1>a DEF LoopsType
  <2> HIDE DEF to
  <2>3. TypeOK' /\ AddrInv'
    BY <1>2, <2>1 DEF CallSucceeds, TypeOK, LoopsType, AddrInv
  <2>4. FlagPending'
    BY <1>2, <1>a, <2>0, <2>1 DEF CallSucceeds, FlagPending, Asking
  <2>5. Serviced'
    BY <1>2, <1>a, <2>0, <2>1, <2>2
    DEF CallSucceeds, Serviced, Running, ToBeStarted, Asking, AboutToAsk, Places
  <2> QED
    BY <2>3, <2>4, <2>5
<1>3. CASE Delivers(k)
  <2>1. /\ LoopsType' /\ loops'[k]["wait"] = loops[k]["wait"] + 1
        /\ loops[k]["deliver"] > 0
        /\ \A j \in Kinds : \A p \in Places :
              j # k \/ (p # "deliver" /\ p # "wait") => loops'[j][p] = loops[j][p]
    <3>1. Moves(k, "deliver", "wait")
      BY <1>3 DEF Delivers
    <3>2. loops[k]["deliver"] > 0
      BY <3>1 DEF Moves
    <3> QED
      BY <3>1, <3>2, <1>a, MovesEffect
  <2>2. loops'[k]["wait"] > 0
    BY <2>1, <1>a DEF LoopsType
  <2>3. TypeOK' /\ AddrInv'
    BY <1>3, <2>1 DEF Delivers, TypeOK, LoopsType, AddrInv
  <2>4. FlagPending'
    BY <1>3, <1>a, <2>1 DEF Delivers, FlagPending, Asking
  <2>5. Serviced'
    BY <1>3, <1>a, <2>1, <2>2
    DEF Delivers, Serviced, Running, ToBeStarted, Asking, AboutToAsk, Places
  <2> QED
    BY <2>3, <2>4, <2>5
<1>4. CASE CallFails(k)
  <2>1. /\ LoopsType' /\ loops'[k]["check"] = loops[k]["check"] + 1
        /\ loops[k]["call"] > 0
        /\ \A j \in Kinds : \A p \in Places :
              j # k \/ (p # "call" /\ p # "check") => loops'[j][p] = loops[j][p]
    <3>1. Moves(k, "call", "check")
      BY <1>4 DEF CallFails
    <3>2. loops[k]["call"] > 0
      BY <3>1 DEF Moves
    <3> QED
      BY <3>1, <3>2, <1>a, MovesEffect
  <2>2. loops'[k]["check"] > 0
    BY <2>1, <1>a DEF LoopsType
  <2>3. TypeOK' /\ AddrInv'
    BY <1>4, <2>1, CoreAssumption DEF CoreAssumption, CallFails, TypeOK, LoopsType, AddrInv
  <2>4. FlagPending'
    BY <1>4, <1>a, <2>1 DEF CallFails, FlagPending, Asking
  <2>5. Serviced'
    BY <1>4, <1>a, <2>1, <2>2
    DEF CallFails, Serviced, Running, ToBeStarted, Asking, AboutToAsk, Places
  <2> QED
    BY <2>3, <2>4, <2>5
\* The loop that reads the set flag is the one that goes without asking.
<1>5. CASE Checks(k) /\ reconnecting
  <2>1. /\ LoopsType'
        /\ \A j \in Kinds : \A p \in Places :
              j # k \/ p # "check" => loops'[j][p] = loops[j][p]
    BY <1>5, <1>a, ReturnsEffect DEF Checks
  <2>2. TypeOK' /\ AddrInv'
    BY <1>5, <2>1 DEF Checks, TypeOK, LoopsType, AddrInv
  <2>3. Asking \/ handler \in {"test", "reset"}
    BY <1>5 DEF FlagPending
  <2>4. Asking' \/ handler' \in {"test", "reset"}
    BY <1>5, <1>a, <2>1, <2>3 DEF Checks, Asking
  <2> QED
    BY <2>2, <2>4 DEF FlagPending, Serviced, ToBeStarted
<1>6. CASE Checks(k) /\ ~reconnecting
  <2>1. /\ LoopsType' /\ loops'[k]["set"] = loops[k]["set"] + 1
        /\ \A j \in Kinds : \A p \in Places :
              j # k \/ (p # "check" /\ p # "set") => loops'[j][p] = loops[j][p]
    BY <1>6, <1>a, MovesEffect DEF Checks
  <2>2. loops'[k]["set"] > 0
    BY <2>1, <1>a DEF LoopsType
  <2>3. TypeOK' /\ AddrInv'
    BY <1>6, <2>1 DEF Checks, TypeOK, LoopsType, AddrInv
  <2>4. FlagPending'
    BY <1>6 DEF Checks, FlagPending
  <2> QED
    BY <2>2, <2>3, <2>4 DEF Serviced, AboutToAsk
<1>7. CASE Sets(k)
  <2>1. /\ LoopsType' /\ loops'[k]["send"] = loops[k]["send"] + 1
    BY <1>7, <1>a, MovesEffect DEF Sets
  <2>2. loops'[k]["send"] > 0
    BY <2>1, <1>a DEF LoopsType
  <2>3. TypeOK' /\ AddrInv'
    BY <1>7, <2>1 DEF Sets, TypeOK, LoopsType, AddrInv
  <2> QED
    BY <2>2, <2>3 DEF FlagPending, Serviced, Asking
<1> QED
  BY <1>1, <1>2, <1>3, <1>4, <1>5, <1>6, <1>7 DEF Loop

\* The steps of the handler, the rendezvous with a requester included.
LEMMA HandlerStep ==
    ASSUME Inv, Takes \/ TestFails \/ TestSucceeds \/ HandlerWorks
    PROVE  Inv'
<1> USE DEF Inv
<1>a. LoopsType /\ "wait" \in Places /\ "send" \in Places /\ "set" \in Places
      /\ "check" \in Places /\ "submit" \in Kinds /\ "block" \in Kinds
  BY DEF TypeOK, LoopsType, Places, Kinds
<1>b. /\ After["idle"] = "test" /\ After["test"] = "reset"
      /\ After["reset"] = "startSubmit"
      /\ After["startSubmit"] = "startBlock" /\ After["startBlock"] = "idle"
  BY DEF After
<1>1. ASSUME NEW k \in Kinds, TakesLoop(k) PROVE Inv'
  <2>1. LoopsType'
    BY <1>1, <1>a, ReturnsEffect DEF TakesLoop
  <2>2. handler' = "test"
    BY <1>1, <1>b DEF TakesLoop
  <2>3. TypeOK' /\ AddrInv'
    BY <1>1, <2>1, <2>2 DEF TakesLoop, TypeOK, LoopsType, AddrInv
  <2> QED
    BY <2>2, <2>3 DEF FlagPending, Serviced, ToBeStarted
<1>2. CASE TakesMain
  BY <1>2, <1>b DEF TakesMain, TypeOK, AddrInv, FlagPending, Serviced, ToBeStarted
<1>3. CASE TestFails
  BY <1>3 DEF TestFails, TypeOK, AddrInv, FlagPending, Serviced, ToBeStarted
<1>4. CASE TestSucceeds
  BY <1>4, <1>b DEF TestSucceeds, TypeOK, AddrInv, FlagPending, Serviced, ToBeStarted
<1>5. CASE Resets
  BY <1>5, <1>b DEF Resets, TypeOK, AddrInv, FlagPending, Serviced, ToBeStarted
<1>6. CASE HandlerStarts("startSubmit", "submit")
  <2>1. /\ LoopsType' /\ loops'["submit"]["wait"] = loops["submit"]["wait"] + 1
        /\ \A j \in Kinds : \A p \in Places :
              j # "submit" \/ p # "wait" => loops'[j][p] = loops[j][p]
    BY <1>6, <1>a, StartsEffect DEF HandlerStarts
  <2>2. loops'["submit"]["wait"] > 0
    BY <2>1, <1>a DEF LoopsType
  <2>3. handler = "startSubmit" /\ handler' = "startBlock"
    BY <1>6, <1>b DEF HandlerStarts
  <2>4. TypeOK' /\ AddrInv'
    BY <1>6, <2>1, <2>3 DEF HandlerStarts, TypeOK, LoopsType, AddrInv
  <2>5. FlagPending'
    BY <1>6, <1>a, <2>1, <2>3 DEF HandlerStarts, FlagPending, Asking
  <2>6. Serviced'
    BY <2>2, <2>3 DEF Serviced, Running, ToBeStarted, Kinds
  <2> QED
    BY <2>4, <2>5, <2>6
<1>7. CASE HandlerStarts("startBlock", "block")
  <2>1. /\ LoopsType' /\ loops'["block"]["wait"] = loops["block"]["wait"] + 1
        /\ \A j \in Kinds : \A p \in Places :
              j # "block" \/ p # "wait" => loops'[j][p] = loops[j][p]
    BY <1>7, <1>a, StartsEffect DEF HandlerStarts
  <2>2. loops'["block"]["wait"] > 0
    BY <2>1, <1>a DEF LoopsType
  <2>3. handler = "startBlock" /\ handler' = "idle"
    BY <1>7, <1>b DEF HandlerStarts
  <2>4. TypeOK' /\ AddrInv'
    BY <1>7, <2>1, <2>3 DEF HandlerStarts, TypeOK, LoopsType, AddrInv
  <2>5. FlagPending'
    BY <1>7, <1>a, <2>1, <2>3 DEF HandlerStarts, FlagPending, Asking
  <2>6. Serviced'
    BY <1>7, <1>a, <2>1, <2>2, <2>3
    DEF HandlerStarts, Serviced, Running, ToBeStarted, Asking, AboutToAsk, Kinds, Places
  <2> QED
    BY <2>4, <2>5, <2>6
<1> QED
  BY <1>1, <1>2, <1>3, <1>4, <1>5, <1>6, <1>7 DEF Takes, HandlerWorks

LEMMA StutterStep ==
    ASSUME Inv, UNCHANGED vars
    PROVE  Inv'
BY DEF vars, Inv, TypeOK, FlagPending, Serviced, AddrInv, Asking, AboutToAsk,
       Running, ToBeStarted

LEMMA InvKept == Spec => []Inv
<1>1. ASSUME Inv, [Next]_vars PROVE Inv'
  BY <1>1, MainStep, LoopStep, HandlerStep, StutterStep DEF Next
<1> QED
  BY <1>1, InitInv, PTL DEF Spec

-----------------------------------------------------------------------------
(* What the protocol guarantees, whatever the number of failures.          *)

\* The counts, places and flags keep their types.
THEOREM TypeCorrect == Spec => []TypeOK
BY InvKept, PTL DEF Inv

\* A set flag always has a reset to come: HandleVegaCoreReconnect never turns
\* requests away for good.
THEOREM FlagSettles == Spec => []FlagPending
BY InvKept, PTL DEF Inv

\* A loop that returned is replaced or being replaced.
THEOREM LoopsServiced == Spec => []Serviced
BY InvKept, PTL DEF Inv

\* The handler's two dials use the address TestVegaCoreAddrs has just set.
THEOREM DialsTested == Spec => []HandlerDialsTested
<1>1. Inv => HandlerDialsTested
  BY DEF Inv, AddrInv, HandlerDialsTested
<1> QED
  BY <1>1, InvKept, PTL
-----------------------------------------------------------------------------
(* The loops that may come of what goes on: a running loop counts once, a  *)
(* failed call or dial twice until the handler has started its two loops.  *)
(* This weight grows with a failed call alone, and by one.                 *)

HandlerOwes ==
    CASE handler \in {"test", "reset", "startSubmit"} -> 2
      [] handler = "startBlock" -> 1
      [] handler = "idle" -> 0

MainOwes ==
    CASE main = "startBlock" -> 3
      [] main \in {"startSubmit", "check", "set", "send"} -> 2
      [] main = "done" -> 0

Weight(k) == Live(k) + 2 * Leaving(k)

LoadInv == Weight("submit") + Weight("block") + HandlerOwes + MainOwes <= 3 + failures

\* A kind's counts are numbers, and only its own steps change them.
LEMMA WeightType ==
    ASSUME LoopsType, NEW k \in Kinds
    PROVE  Live(k) \in Nat /\ Leaving(k) \in Nat /\ Weight(k) \in Nat
BY DEF LoopsType, Live, Leaving, Weight, Places

LEMMA OtherWeight ==
    ASSUME NEW k \in Kinds, \A p \in Places : loops'[k][p] = loops[k][p]
    PROVE  Weight(k)' = Weight(k)
BY DEF Weight, Live, Leaving, Places

\* The weight of a place, so that a move is the difference of two.
PlaceWeight(p) == IF p \in {"wait", "call", "deliver"} THEN 1 ELSE 2

LEMMA StartsWeight ==
    ASSUME LoopsType, NEW k \in Kinds, Starts(k)
    PROVE  /\ Weight(k)' = Weight(k) + 1
           /\ \A j \in Kinds : j # k => Weight(j)' = Weight(j)
<1>1. /\ LoopsType'
      /\ loops'[k]["wait"] = loops[k]["wait"] + 1
      /\ \A j \in Kinds : \A p \in Places :
             j # k \/ p # "wait" => loops'[j][p] = loops[j][p]
  BY StartsEffect
<1>2. Weight(k)' = Weight(k) + 1
  BY <1>1 DEF Weight, Live, Leaving, LoopsType, Places
<1>3. ASSUME NEW j \in Kinds, j # k PROVE Weight(j)' = Weight(j)
  BY <1>1, <1>3, OtherWeight
<1> QED
  BY <1>2, <1>3

LEMMA MovesWeight ==
    ASSUME LoopsType, NEW k \in Kinds, NEW from \in Places, NEW to \in Places,
           from # to, Moves(k, from, to)
    PROVE  /\ Weight(k)' = Weight(k) + PlaceWeight(to) - PlaceWeight(from)
           /\ \A j \in Kinds : j # k => Weight(j)' = Weight(j)
<1>1. /\ LoopsType'
      /\ loops'[k][to] = loops[k][to] + 1
      /\ loops'[k][from] = loops[k][from] - 1
      /\ \A j \in Kinds : \A p \in Places :
             j # k \/ (p # from /\ p # to) => loops'[j][p] = loops[j][p]
  BY MovesEffect
<1>2. Weight(k)' = Weight(k) + PlaceWeight(to) - PlaceWeight(from)
  <2> DEFINE now(p) == loops[k][p]
             gain(p) == (IF p = to THEN 1 ELSE 0) - (IF p = from THEN 1 ELSE 0)
  <2>1. \A p \in Places : now(p) \in Nat /\ loops'[k][p] = now(p) + gain(p)
    BY <1>1 DEF LoopsType
  <2>2. /\ Weight(k) = (now("wait") + now("call") + now("deliver"))
                       + 2 * (now("check") + now("set") + now("send"))
        /\ Weight(k)' = ((now("wait") + gain("wait")) + (now("call") + gain("call"))
                          + (now("deliver") + gain("deliver")))
                        + 2 * ((now("check") + gain("check")) + (now("set") + gain("set"))
                               + (now("send") + gain("send")))
    BY <2>1 DEF Weight, Live, Leaving, Places
  <2>3. (gain("wait") + gain("call") + gain("deliver"))
           + 2 * (gain("check") + gain("set") + gain("send"))
        = PlaceWeight(to) - PlaceWeight(from)
    BY DEF Places, PlaceWeight
  <2>4. /\ \A p \in Places : gain(p) \in Int
        /\ PlaceWeight(to) \in Int /\ PlaceWeight(from) \in Int
    BY DEF PlaceWeight
  <2> HIDE DEF now, gain
  <2> QED
    BY <2>1, <2>2, <2>3, <2>4 DEF Places
<1>3. ASSUME NEW j \in Kinds, j # k PROVE Weight(j)' = Weight(j)
  BY <1>1, <1>3, OtherWeight
<1> QED
  BY <1>2, <1>3

LEMMA ReturnsWeight ==
    ASSUME LoopsType, NEW k \in Kinds, NEW from \in Places, Returns(k, from)
    PROVE  /\ Weight(k)' = Weight(k) - PlaceWeight(from)
           /\ \A j \in Kinds : j # k => Weight(j)' = Weight(j)
<1>1. /\ LoopsType'
      /\ loops'[k][from] = loops[k][from] - 1
      /\ \A j \in Kinds : \A p \in Places :
             j # k \/ p # from => loops'[j][p] = loops[j][p]
  BY ReturnsEffect
<1>2. Weight(k)' = Weight(k) - PlaceWeight(from)
  BY <1>1 DEF Weight, Live, Leaving, LoopsType, Places, PlaceWeight
<1>3. ASSUME NEW j \in Kinds, j # k PROVE Weight(j)' = Weight(j)
  BY <1>1, <1>3, OtherWeight
<1> QED
  BY <1>2, <1>3

\* What a step does to the two kinds' weights together.
Total == Weight("submit") + Weight("block")

LEMMA TotalChange ==
    ASSUME LoopsType, NEW k \in Kinds, NEW d \in Int,
           Weight(k)' = Weight(k) + d,
           \A j \in Kinds : j # k => Weight(j)' = Weight(j)
    PROVE  Total' = Total + d
<1>1. Weight("submit") \in Nat /\ Weight("block") \in Nat
  BY WeightType DEF Kinds
<1>2. CASE k = "submit"
  BY <1>1, <1>2 DEF Total, Kinds
<1>3. CASE k = "block"
  BY <1>1, <1>3 DEF Total, Kinds
<1> QED
  BY <1>2, <1>3 DEF Kinds

LEMMA LoadStep ==
    ASSUME TypeOK, LoadInv, [Next]_vars
    PROVE  LoadInv'
<1>a. /\ LoopsType /\ "submit" \in Kinds /\ "block" \in Kinds
      /\ {"wait", "call", "deliver", "check", "set", "send"} \subseteq Places
      /\ failures \in Nat
  BY DEF TypeOK, LoopsType, Kinds, Places
<1>b. /\ After["idle"] = "test" /\ After["test"] = "reset"
      /\ After["reset"] = "startSubmit"
      /\ After["startSubmit"] = "startBlock" /\ After["startBlock"] = "idle"
  BY DEF After
<1>c. Total \in Nat /\ HandlerOwes \in Nat /\ MainOwes \in Nat
      /\ Total + HandlerOwes + MainOwes <= 3 + failures
  BY <1>a, WeightType DEF Total, LoadInv, HandlerOwes, MainOwes, TypeOK
<1>d. ASSUME Total' + HandlerOwes' + MainOwes' <= 3 + failures' PROVE LoadInv'
  BY <1>d DEF Total, LoadInv
<1>e. ASSUME loops' = loops PROVE Total' = Total
  BY <1>e DEF Total, Weight, Live, Leaving
<1>1. CASE MainStartsBlock
  <2>1. Total' = Total + 1
    BY <1>1, <1>a, StartsWeight, TotalChange DEF MainStartsBlock
  <2>2. MainOwes = 3 /\ MainOwes' = 2 /\ HandlerOwes' = HandlerOwes /\ failures' = failures
    BY <1>1 DEF MainStartsBlock, MainOwes, HandlerOwes
  <2> QED
    BY <1>c, <1>d, <2>1, <2>2
<1>2. CASE MainStartsSubmit
  <2>1. Total' = Total + 1
    BY <1>2, <1>a, StartsWeight, TotalChange DEF MainStartsSubmit
  <2>2. MainOwes = 2 /\ MainOwes' = 0 /\ HandlerOwes' = HandlerOwes /\ failures' = failures
    BY <1>2 DEF MainStartsSubmit, MainOwes, HandlerOwes
  <2> QED
    BY <1>c, <1>d, <1>a, <2>1, <2>2
<1>3. CASE MainDialFails \/ MainChecks \/ MainSets
  <2>1. /\ MainOwes' = 2 \/ MainOwes' = 0
        /\ MainOwes = 2 /\ HandlerOwes' = HandlerOwes /\ failures' = failures
        /\ loops' = loops
    BY <1>3 DEF MainDialFails, MainChecks, MainSets, MainOwes, HandlerOwes
  <2> QED
    BY <1>c, <1>d, <1>e, <1>a, <2>1
<1>4. ASSUME NEW k \in Kinds, Begins(k) \/ CallSucceeds(k) \/ Delivers(k) PROVE LoadInv'
  <2>1. Total' = Total + 0
    <3>1. PICK from \in {"wait", "call", "deliver"}, to \in {"wait", "call", "deliver"} :
             from # to /\ Moves(k, from, to)
      BY <1>4 DEF Begins, CallSucceeds, Delivers
    <3>2. from \in Places /\ to \in Places /\ PlaceWeight(from) = 1 /\ PlaceWeight(to) = 1
      BY <1>a DEF PlaceWeight
    <3>3. /\ Weight(k)' = Weight(k) + 1 - 1
          /\ \A j \in Kinds : j # k => Weight(j)' = Weight(j)
      BY <1>a, <3>1, <3>2, MovesWeight
    <3>4. Weight(k)' = Weight(k) + 0
      BY <1>a, <3>3, WeightType
    <3> QED
      BY <1>a, <3>3, <3>4, TotalChange
  <2>2. MainOwes' = MainOwes /\ HandlerOwes' = HandlerOwes /\ failures' = failures
    BY <1>4 DEF Begins, CallSucceeds, Delivers, MainOwes, HandlerOwes
  <2> QED
    BY <1>c, <1>d, <1>a, <2>1, <2>2
<1>5. ASSUME NEW k \in Kinds, CallFails(k) PROVE LoadInv'
  <2>1. Total' = Total + 1
    <3>1. Moves(k, "call", "check") /\ PlaceWeight("check") = 2 /\ PlaceWeight("call") = 1
      BY <1>5 DEF CallFails, PlaceWeight
    <3>2. /\ Weight(k)' = Weight(k) + 2 - 1
          /\ \A j \in Kinds : j # k => Weight(j)' = Weight(j)
      BY <1>a, <3>1, MovesWeight
    <3>3. Weight(k)' = Weight(k) + 1
      BY <1>a, <3>2, WeightType
    <3> QED
      BY <1>a, <3>2, <3>3, TotalChange
  <2>2. MainOwes' = MainOwes /\ HandlerOwes' = HandlerOwes /\ failures' = failures + 1
    BY <1>5 DEF CallFails, MainOwes, HandlerOwes
  <2> QED
    BY <1>c, <1>d, <1>a, <2>1, <2>2
<1>6. ASSUME NEW k \in Kinds, Checks(k) \/ Sets(k) PROVE LoadInv'
  <2>1. Total' = Total + 0 \/ Total' = Total + (-2)
    <3>1. CASE Returns(k, "check")
      <4>1. /\ Weight(k)' = Weight(k) - 2
            /\ \A j \in Kinds : j # k => Weight(j)' = Weight(j)
        BY <1>a, <3>1, ReturnsWeight DEF PlaceWeight
      <4>2. Weight(k)' = Weight(k) + (-2) /\ -2 \in Int
        BY <1>a, <4>1, WeightType
      <4> QED
        BY <1>a, <4>1, <4>2, TotalChange
    <3>2. CASE \E from, to \in {"check", "set", "send"} : from # to /\ Moves(k, from, to)
      <4>1. PICK from \in {"check", "set", "send"}, to \in {"check", "set", "send"} :
               from # to /\ Moves(k, from, to)
        BY <3>2
      <4>2. from \in Places /\ to \in Places /\ PlaceWeight(from) = 2 /\ PlaceWeight(to) = 2
        BY <1>a DEF PlaceWeight
      <4>3. /\ Weight(k)' = Weight(k) + 2 - 2
            /\ \A j \in Kinds : j # k => Weight(j)' = Weight(j)
        BY <1>a, <4>1, <4>2, MovesWeight
      <4>4. Weight(k)' = Weight(k) + 0
        BY <1>a, <4>3, WeightType
      <4> QED
        BY <1>a, <4>3, <4>4, TotalChange
    <3> QED
      BY <1>6, <3>1, <3>2 DEF Checks, Sets
  <2>2. MainOwes' = MainOwes /\ HandlerOwes' = HandlerOwes /\ failures' = failures
    BY <1>6 DEF Checks, Sets, MainOwes, HandlerOwes
  <2> QED
    BY <1>c, <1>d, <1>a, <2>1, <2>2
<1>7. ASSUME NEW k \in Kinds, TakesLoop(k) PROVE LoadInv'
  <2>1. Total' = Total + (-2)
    <3>1. Returns(k, "send")
      BY <1>7 DEF TakesLoop
    <3>2. /\ Weight(k)' = Weight(k) - 2
          /\ \A j \in Kinds : j # k => Weight(j)' = Weight(j)
      BY <1>a, <3>1, ReturnsWeight DEF PlaceWeight
    <3>3. Weight(k)' = Weight(k) + (-2) /\ -2 \in Int
      BY <1>a, <3>2, WeightType
    <3> QED
      BY <1>a, <3>2, <3>3, TotalChange
  <2>2. /\ MainOwes' = MainOwes /\ HandlerOwes = 0 /\ HandlerOwes' = 2
        /\ failures' = failures
    BY <1>7, <1>b DEF TakesLoop, MainOwes, HandlerOwes
  <2> QED
    BY <1>c, <1>d, <1>a, <2>1, <2>2
<1>8. CASE TakesMain
  <2>1. /\ loops' = loops /\ MainOwes = 2 /\ MainOwes' = 0
        /\ HandlerOwes = 0 /\ HandlerOwes' = 2 /\ failures' = failures
    BY <1>8, <1>b DEF TakesMain, MainOwes, HandlerOwes
  <2> QED
    BY <1>c, <1>d, <1>e, <1>a, <2>1
<1>9. CASE TestFails \/ TestSucceeds \/ Resets
  <2>1. /\ loops' = loops /\ MainOwes' = MainOwes
        /\ HandlerOwes = 2 /\ HandlerOwes' = 2 /\ failures' = failures
    BY <1>9, <1>b DEF TestFails, TestSucceeds, Resets, MainOwes, HandlerOwes
  <2> QED
    BY <1>c, <1>d, <1>e, <1>a, <2>1
<1>10. CASE HandlerStarts("startSubmit", "submit")
  <2>1. Total' = Total + 1
    BY <1>10, <1>a, StartsWeight, TotalChange DEF HandlerStarts
  <2>2. /\ MainOwes' = MainOwes /\ HandlerOwes = 2 /\ HandlerOwes' = 1
        /\ failures' = failures
    BY <1>10, <1>b DEF HandlerStarts, MainOwes, HandlerOwes
  <2> QED
    BY <1>c, <1>d, <1>a, <2>1, <2>2
<1>11. CASE HandlerStarts("startBlock", "block")
  <2>1. Total' = Total + 1
    BY <1>11, <1>a, StartsWeight, TotalChange DEF HandlerStarts
  <2>2. /\ MainOwes' = MainOwes /\ HandlerOwes = 1 /\ HandlerOwes' = 0
        /\ failures' = failures
    BY <1>11, <1>b DEF HandlerStarts, MainOwes, HandlerOwes
  <2> QED
    BY <1>c, <1>d, <1>a, <2>1, <2>2
<1>12. CASE UNCHANGED vars
  BY <1>12 DEF vars, LoadInv, Weight, Live, Leaving, HandlerOwes, MainOwes
<1> QED
  BY <1>1, <1>2, <1>3, <1>4, <1>5, <1>6, <1>7, <1>8, <1>9, <1>10, <1>11, <1>12
  DEF Next, Main, Loop, Takes, HandlerWorks

\* Loops pile up by one for each failed call at most, whatever the number of
\* failures and however the requests of loops and main goroutine meet.
THEOREM LoopsStayBounded == Spec => []LoopsBounded
<1>1. Init => LoadInv
  BY DEF Init, LoadInv, Weight, Live, Leaving, HandlerOwes, MainOwes, Kinds, Places
<1>2. TypeOK /\ LoadInv /\ [Next]_vars => LoadInv'
  BY LoadStep
<1>3. TypeOK /\ LoadInv => LoopsBounded
  <2> SUFFICES ASSUME TypeOK, LoadInv PROVE LoopsBounded
    OBVIOUS
  <2>1. LoopsType /\ failures \in Nat
    BY DEF TypeOK, LoopsType
  <2>2. /\ Live("submit") \in Nat /\ Leaving("submit") \in Nat
        /\ Live("block") \in Nat /\ Leaving("block") \in Nat
    BY <2>1, WeightType DEF Kinds
  <2>3. HandlerOwes \in Nat /\ MainOwes \in Nat
    BY DEF TypeOK, HandlerOwes, MainOwes
  <2> QED
    BY <2>1, <2>2, <2>3 DEF LoadInv, Weight, LoopsBounded
<1> QED
  BY <1>1, <1>2, <1>3, TypeCorrect, PTL DEF Spec
=============================================================================
