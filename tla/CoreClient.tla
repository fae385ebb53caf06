----------------------------- MODULE CoreClient -----------------------------
(***************************************************************************)
(* The Vega core client (src/data-engine/vega_core_client.go): goroutines  *)
(* that submit transactions or poll the last block, and the reconnect      *)
(* handler that starts them anew.  The goroutines share the unsynchronised *)
(* fields reconnecting and grpcAddr and the unbuffered channel reconnChan, *)
(* so every read, write and rendezvous is a step of its own.               *)
(*                                                                         *)
(* Two loops of one kind differ in nothing but where they stand, so the    *)
(* state counts them: loops[k][p] goroutines of kind k stand at p, where   *)
(*   wait     is for a transaction (submit) or for the ticker (block)      *)
(*   call     in the gRPC call                                             *)
(*   deliver  sending the block to the proof-of-work worker (block)        *)
(*   check    in HandleVegaCoreReconnect, about to read reconnecting       *)
(*   set      about to set reconnecting                                    *)
(*   send     blocked in the send on reconnChan                            *)
(* and a goroutine that returns is no longer counted.                      *)
(*                                                                         *)
(* grpc.Dial does not block: it fails for the empty address alone, a node  *)
(* that has gone since it was tested shows in the first call.              *)
(***************************************************************************)
EXTENDS Naturals

CONSTANT MaxFailures  \* bound: failed calls in a behaviour

ASSUME CoreAssumption == MaxFailures \in Nat

VARIABLES
    reconnecting, \* v.reconnecting
    grpcAddr,     \* "up": an address that answered, "none": the empty string
    main,         \* where VegaCoreClient.Start stands
    handler,      \* where the reconnect handler's goroutine stands
    loops,        \* loops[k][p]: loops of kind k that stand at p
    failures      \* failed calls so far

vars == <<reconnecting, grpcAddr, main, handler, loops, failures>>

Kinds == {"submit", "block"}
Places == {"wait", "call", "deliver", "check", "set", "send"}

\* Init has found an address that answers, or the process has ended.
Init ==
    /\ reconnecting = FALSE
    /\ grpcAddr = "up"
    /\ main = "startBlock"
    /\ handler = "idle"
    /\ loops = [k \in Kinds |-> [p \in Places |-> 0]]
    /\ failures = 0

\* The go statement of StartSubmitTxLoop or StartGetLastBlockLoop.
Starts(k) == loops' = [loops EXCEPT ![k]["wait"] = @ + 1]

Moves(k, from, to) ==
    /\ loops[k][from] > 0
    /\ loops' = [loops EXCEPT ![k][from] = @ - 1, ![k][to] = @ + 1]

Returns(k, from) ==
    /\ loops[k][from] > 0
    /\ loops' = [loops EXCEPT ![k][from] = @ - 1]

-----------------------------------------------------------------------------
(* VegaCoreClient.Start, in the main goroutine: the block loop first.      *)

MainStartsBlock ==
    /\ main = "startBlock"
    /\ Starts("block")
    /\ main' = "startSubmit"
    /\ UNCHANGED <<reconnecting, grpcAddr, handler, failures>>

MainStartsSubmit ==
    /\ main = "startSubmit"
    /\ grpcAddr # "none"
    /\ Starts("submit")
    /\ main' = "done"
    /\ UNCHANGED <<reconnecting, grpcAddr, handler, failures>>

\* The block loop has failed by now and the handler has emptied grpcAddr.
MainDialFails ==
    /\ main = "startSubmit"
    /\ grpcAddr = "none"
    /\ main' = "check"
    /\ UNCHANGED <<reconnecting, grpcAddr, handler, loops, failures>>

MainChecks ==
    /\ main = "check"
    /\ main' = IF reconnecting THEN "done" ELSE "set"
    /\ UNCHANGED <<reconnecting, grpcAddr, handler, loops, failures>>

MainSets ==
    /\ main = "set"
    /\ reconnecting' = TRUE
    /\ main' = "send"
    /\ UNCHANGED <<grpcAddr, handler, loops, failures>>

Main ==
    MainStartsBlock \/ MainStartsSubmit \/ MainDialFails \/ MainChecks \/ MainSets

-----------------------------------------------------------------------------
(* The loops.                                                              *)

\* A transaction arrives on txInCh, or the ticker fires.
Begins(k) ==
    /\ Moves(k, "wait", "call")
    /\ UNCHANGED <<reconnecting, grpcAddr, main, handler, failures>>

CallSucceeds(k) ==
    /\ Moves(k, "call", IF k = "block" THEN "deliver" ELSE "wait")
    /\ UNCHANGED <<reconnecting, grpcAddr, main, handler, failures>>

\* The proof-of-work worker always comes back to its channel.
Delivers(k) ==
    /\ Moves(k, "deliver", "wait")
    /\ UNCHANGED <<reconnecting, grpcAddr, main, handler, failures>>

CallFails(k) ==
    /\ failures < MaxFailures
    /\ Moves(k, "call", "check")
    /\ failures' = failures + 1
    /\ UNCHANGED <<reconnecting, grpcAddr, main, handler>>

\* HandleVegaCoreReconnect tests the flag; its caller then returns.
Checks(k) ==
    /\ IF reconnecting THEN Returns(k, "check") ELSE Moves(k, "check", "set")
    /\ UNCHANGED <<reconnecting, grpcAddr, main, handler, failures>>

\* Mutant: the send does not wait for the handler, the request is dropped.
Sets_NonBlocking(k) ==
    /\ IF handler = "idle" THEN Moves(k, "set", "send") ELSE Returns(k, "set")
    /\ reconnecting' = TRUE
    /\ UNCHANGED <<grpcAddr, main, handler, failures>>

Sets(k) ==
    /\ Moves(k, "set", "send")
    /\ reconnecting' = TRUE
    /\ UNCHANGED <<grpcAddr, main, handler, failures>>

Loop(k) ==
    Begins(k) \/ CallSucceeds(k) \/ Delivers(k) \/ CallFails(k) \/ Checks(k) \/ Sets(k)

-----------------------------------------------------------------------------
(* The reconnect handler.                                                  *)

\* Mutants: the flag is reset after the loops are started, or not at all, or
\* the loops are started before an address is found.
After_LateReset ==
    [idle |-> "test", test |-> "startSubmit", startSubmit |-> "startBlock",
     startBlock |-> "reset", reset |-> "idle"]
After_NoReset ==
    [idle |-> "test", test |-> "startSubmit", startSubmit |-> "startBlock",
     startBlock |-> "idle", reset |-> "idle"]
After_DialFirst ==
    [idle |-> "startSubmit", startSubmit |-> "startBlock", startBlock |-> "test",
     test |-> "reset", reset |-> "idle"]

\* The order of the handler's loop body.
After ==
    [idle |-> "test", test |-> "reset", reset |-> "startSubmit",
     startSubmit |-> "startBlock", startBlock |-> "idle"]

\* Mutant: a loop that has made its request does not return.
TakesLoop_GoesOn(k) ==
    /\ handler = "idle"
    /\ Moves(k, "send", "wait")
    /\ handler' = After["idle"]
    /\ grpcAddr' = "none"
    /\ UNCHANGED <<reconnecting, main, failures>>

\* The rendezvous on reconnChan; the handler then empties grpcAddr.
TakesLoop(k) ==
    /\ handler = "idle"
    /\ Returns(k, "send")
    /\ handler' = After["idle"]
    /\ grpcAddr' = "none"
    /\ UNCHANGED <<reconnecting, main, failures>>

TakesMain ==
    /\ handler = "idle"
    /\ main = "send"
    /\ main' = "done"
    /\ handler' = After["idle"]
    /\ grpcAddr' = "none"
    /\ UNCHANGED <<reconnecting, loops, failures>>

\* No address answers: the handler sleeps and tests anew.
TestFails ==
    /\ handler = "test"
    /\ grpcAddr' = "none"
    /\ UNCHANGED <<reconnecting, main, handler, loops, failures>>

TestSucceeds ==
    /\ handler = "test"
    /\ grpcAddr' = "up"
    /\ handler' = After["test"]
    /\ UNCHANGED <<reconnecting, main, loops, failures>>

Resets ==
    /\ handler = "reset"
    /\ reconnecting' = FALSE
    /\ handler' = After["reset"]
    /\ UNCHANGED <<grpcAddr, main, loops, failures>>

\* The handler dials the address it has just tested (HandlerDialsTested).
HandlerStarts(stage, k) ==
    /\ handler = stage
    /\ Starts(k)
    /\ handler' = After[stage]
    /\ UNCHANGED <<reconnecting, grpcAddr, main, failures>>

Takes == TakesMain \/ \E k \in Kinds : TakesLoop(k)

HandlerWorks ==
    Resets \/ HandlerStarts("startSubmit", "submit") \/ HandlerStarts("startBlock", "block")

-----------------------------------------------------------------------------

Next ==
    \/ Main
    \/ \E k \in Kinds : Loop(k)
    \/ Takes \/ TestFails \/ TestSucceeds \/ HandlerWorks

Spec == Init /\ [][Next]_vars

\* Goroutines are scheduled, a send on reconnChan is received when the
\* handler is back at its select, and some address answers in the end.  Of
\* the calls nothing is assumed: they may hang, succeed or fail for ever.
FairSpec ==
    /\ Spec
    /\ WF_vars(Main)
    /\ \A k \in Kinds : WF_vars(Checks(k)) /\ WF_vars(Sets(k))
    /\ WF_vars(Takes) /\ WF_vars(TestSucceeds) /\ WF_vars(HandlerWorks)

-----------------------------------------------------------------------------
(* Properties.                                                             *)

TypeOK ==
    /\ reconnecting \in BOOLEAN
    /\ grpcAddr \in {"up", "none"}
    /\ main \in {"startBlock", "startSubmit", "check", "set", "send", "done"}
    /\ handler \in {"idle", "test", "reset", "startSubmit", "startBlock"}
    /\ loops \in [Kinds -> [Places -> Nat]]
    /\ failures \in 0..MaxFailures

\* A loop that will serve again if its call succeeds.
Running(k) == \E p \in {"wait", "call", "deliver"} : loops[k][p] > 0

\* A reconnect request on its way to the handler.
Asking == main = "send" \/ \E k \in Kinds : loops[k]["send"] > 0
AboutToAsk == main = "set" \/ \E k \in Kinds : loops[k]["set"] > 0

\* The flag that turns requests away is never left standing: while it is
\* set, a request is waiting for the handler or the handler has yet to
\* reset it.
FlagPending ==
    reconnecting => Asking \/ handler \in {"test", "reset"}

\* A loop that gives up because a reconnect is under way is always replaced:
\* when no loop of a kind runs, and none is deciding whether to ask, either
\* the main goroutine or the handler is still to start one, or a request is
\* on its way.  Rests on the handler resetting the flag before it starts the
\* loops.
ToBeStarted(k) ==
    \/ main = "startBlock"
    \/ k = "submit" /\ main \in {"startSubmit", "check"}
    \/ handler \in {"test", "reset", "startSubmit"}
    \/ k = "block" /\ handler = "startBlock"

Serviced ==
    \A k \in Kinds :
        \/ Running(k) \/ loops[k]["check"] > 0
        \/ Asking \/ AboutToAsk
        \/ ToBeStarted(k)

\* The handler never dials the address it has emptied: a dial that failed
\* there would send on reconnChan from its only receiver.
HandlerDialsTested ==
    handler \in {"startSubmit", "startBlock"} => grpcAddr = "up"

\* A reconnect starts a loop of both kinds although one has failed, so loops
\* pile up and share txInCh, but by one for each failed call at most.  One
\* more than the two of Start is possible: when its own dial fails at the
\* address the handler has emptied, its request comes on top of the block
\* loop's.
Live(k) == loops[k]["wait"] + loops[k]["call"] + loops[k]["deliver"]
Leaving(k) == loops[k]["check"] + loops[k]["set"] + loops[k]["send"]

LoopsBounded ==
    Live("submit") + Leaving("submit") + Live("block") + Leaving("block") <= 3 + failures

\* The client recovers: whenever no loop of a kind runs, one runs later.
Recovers == \A k \in Kinds : ~Running(k) ~> Running(k)
=============================================================================
