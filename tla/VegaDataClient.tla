--------------------------- MODULE VegaDataClient ---------------------------
(***************************************************************************)
(* The Vega data client's reconnect protocol                               *)
(* (src/data-engine/vega_data_client.go).  StreamVegaData tests the nodes  *)
(* again, dials, makes a series of loads and starts the streams; it runs   *)
(* once at start-up and once for each reconnect, where the handler waits   *)
(* for it.  Two such openers may be at work at once: the start-up one and  *)
(* the handler's.  Each stands at                                          *)
(*   idle   not running                                                    *)
(*   test   in the test StreamVegaData begins with                         *)
(*   dial   about to dial grpcAddr, which other goroutines write           *)
(*   load   before the next of its loads, or about to start the streams    *)
(*   check, set, send   in handleGrpcReconnect, after a load has failed    *)
(* A stream goroutine stands at open (in the Observe call), run (reading), *)
(* check, set or send; streams[k][p] of kind k stand at p.  Streams of one *)
(* kind differ in nothing else, and none is ever cancelled.                *)
(*                                                                         *)
(* What the streams write is not modelled here.                            *)
(***************************************************************************)
EXTENDS Naturals

CONSTANTS
    Kinds,        \* market data, accounts, orders, positions
    NumLoads,     \* loads of StreamVegaData, 7 in the code
    MaxFailures   \* bound: failed streams and loads in a behaviour

ASSUME DataAssumption ==
    /\ Kinds # {}
    /\ NumLoads \in Nat \ {0}
    /\ MaxFailures \in Nat

VARIABLES
    reconnecting, \* vegaClient.reconnecting
    grpcAddr,     \* "up": an address that answered, "none": the empty string
    handler,      \* where the reconnect handler stands
    place,        \* place["start"], place["handler"]: where the openers stand
    loaded,       \* loaded[c]: loads opener c has been through
    streams,      \* streams[k][p]: stream goroutines of kind k at p
    failures      \* failed streams and loads so far

vars == <<reconnecting, grpcAddr, handler, place, loaded, streams, failures>>

Openers == {"start", "handler"}
StreamPlaces == {"open", "run", "check", "set", "send"}

\* Start has begun; Init has found an address that answers.
Init ==
    /\ reconnecting = FALSE
    /\ grpcAddr = "up"
    /\ handler = "idle"
    /\ place = [start |-> "test", handler |-> "idle"]
    /\ loaded = [c \in Openers |-> 0]
    /\ streams = [k \in Kinds |-> [p \in StreamPlaces |-> 0]]
    /\ failures = 0

Goes(c, from, to) ==
    /\ place[c] = from
    /\ place' = [place EXCEPT ![c] = to]

Moves(k, from, to) ==
    /\ streams[k][from] > 0
    /\ streams' = [streams EXCEPT ![k][from] = @ - 1, ![k][to] = @ + 1]

\* A goroutine that returns.
Returns(k, from) ==
    /\ streams[k][from] > 0
    /\ streams' = [streams EXCEPT ![k][from] = @ - 1]

Fail ==
    /\ failures < MaxFailures
    /\ failures' = failures + 1

-----------------------------------------------------------------------------
(* StreamVegaData.                                                         *)

TestPasses(c) ==
    /\ Goes(c, "test", "dial")
    /\ grpcAddr' = "up"
    /\ UNCHANGED <<reconnecting, handler, loaded, streams, failures>>

\* No node answers: log.Fatal ends the process, every goroutine with it.
TestKills(c) ==
    /\ place[c] = "test"
    /\ grpcAddr' = "none"
    /\ handler' = "exited"
    /\ place' = [d \in Openers |-> "idle"]
    /\ streams' = [k \in Kinds |-> [p \in StreamPlaces |-> 0]]
    /\ UNCHANGED <<reconnecting, loaded, failures>>

\* A dial of the empty address would end the process too (DialsTested).
Dials(c) ==
    /\ Goes(c, "dial", "load")
    /\ loaded' = [loaded EXCEPT ![c] = 0]
    /\ UNCHANGED <<reconnecting, grpcAddr, handler, streams, failures>>

Loads(c) ==
    /\ place[c] = "load" /\ loaded[c] < NumLoads
    /\ loaded' = [loaded EXCEPT ![c] = @ + 1]
    /\ UNCHANGED <<reconnecting, grpcAddr, handler, place, streams, failures>>

\* The load asks for a reconnect; its caller learns nothing of it and goes
\* on with the next load.
LoadFails(c) ==
    /\ loaded[c] < NumLoads
    /\ Goes(c, "load", "check")
    /\ loaded' = [loaded EXCEPT ![c] = @ + 1]
    /\ Fail
    /\ UNCHANGED <<reconnecting, grpcAddr, handler, streams>>

OpenerChecks(c) ==
    /\ Goes(c, "check", IF reconnecting THEN "load" ELSE "set")
    /\ UNCHANGED <<reconnecting, grpcAddr, handler, loaded, streams, failures>>

OpenerSets(c) ==
    /\ Goes(c, "set", "send")
    /\ reconnecting' = TRUE
    /\ UNCHANGED <<grpcAddr, handler, loaded, streams, failures>>

\* The go statements, and wg.Done: with that the handler may go on.
StartsStreams(c) ==
    /\ loaded[c] = NumLoads
    /\ Goes(c, "load", "idle")
    /\ streams' = [k \in Kinds |-> [streams[k] EXCEPT !["open"] = @ + 1]]
    /\ UNCHANGED <<reconnecting, grpcAddr, handler, loaded, failures>>

Opener(c) ==
    \/ TestPasses(c) \/ TestKills(c) \/ Dials(c) \/ Loads(c) \/ LoadFails(c)
    \/ OpenerChecks(c) \/ OpenerSets(c) \/ StartsStreams(c)

-----------------------------------------------------------------------------
(* The streams.                                                            *)

Opens(k) ==
    /\ Moves(k, "open", "run")
    /\ UNCHANGED <<reconnecting, grpcAddr, handler, place, loaded, failures>>

\* The Observe call or a Recv fails.
StreamFails(k, from) ==
    /\ Moves(k, from, "check")
    /\ Fail
    /\ UNCHANGED <<reconnecting, grpcAddr, handler, place, loaded>>

StreamChecks(k) ==
    /\ IF reconnecting THEN Returns(k, "check") ELSE Moves(k, "check", "set")
    /\ UNCHANGED <<reconnecting, grpcAddr, handler, place, loaded, failures>>

\* Mutant: the send does not wait for the handler, the request is dropped.
StreamSets_NonBlocking(k) ==
    /\ IF handler = "idle" THEN Moves(k, "set", "send") ELSE Returns(k, "set")
    /\ reconnecting' = TRUE
    /\ UNCHANGED <<grpcAddr, handler, place, loaded, failures>>

StreamSets(k) ==
    /\ Moves(k, "set", "send")
    /\ reconnecting' = TRUE
    /\ UNCHANGED <<grpcAddr, handler, place, loaded, failures>>

Stream(k) ==
    \/ Opens(k) \/ StreamFails(k, "open") \/ StreamFails(k, "run")
    \/ StreamChecks(k) \/ StreamSets(k)

-----------------------------------------------------------------------------
(* The reconnect handler.                                                  *)

\* The rendezvous on reconnChan; the handler then empties grpcAddr.
TakesStream(k) ==
    /\ handler = "idle"
    /\ Returns(k, "send")
    /\ handler' = "test"
    /\ grpcAddr' = "none"
    /\ UNCHANGED <<reconnecting, place, loaded, failures>>

TakesOpener(c) ==
    /\ handler = "idle"
    /\ Goes(c, "send", "load")
    /\ handler' = "test"
    /\ grpcAddr' = "none"
    /\ UNCHANGED <<reconnecting, loaded, streams, failures>>

HandlerTestFails ==
    /\ handler = "test"
    /\ grpcAddr' = "none"
    /\ UNCHANGED <<reconnecting, handler, place, loaded, streams, failures>>

HandlerTestPasses ==
    /\ handler = "test"
    /\ grpcAddr' = "up"
    /\ handler' = "reset"
    /\ UNCHANGED <<reconnecting, place, loaded, streams, failures>>

\* Mutant: the flag stays set.
Resets_Never ==
    /\ handler = "reset"
    /\ handler' = "spawn"
    /\ UNCHANGED <<reconnecting, grpcAddr, place, loaded, streams, failures>>

Resets ==
    /\ handler = "reset"
    /\ reconnecting' = FALSE
    /\ handler' = "spawn"
    /\ UNCHANGED <<grpcAddr, place, loaded, streams, failures>>

\* go StreamVegaData(wg)
Spawns ==
    /\ handler = "spawn"
    /\ Goes("handler", "idle", "test")
    /\ handler' = "wait"
    /\ UNCHANGED <<reconnecting, grpcAddr, loaded, streams, failures>>

\* Mutant: the handler does not wait for the streams.
WaitEnds_AtOnce ==
    /\ handler = "wait"
    /\ handler' = "idle"
    /\ UNCHANGED <<reconnecting, grpcAddr, place, loaded, streams, failures>>

\* wg.Wait
WaitEnds ==
    /\ handler = "wait"
    /\ place["handler"] = "idle"
    /\ handler' = "idle"
    /\ UNCHANGED <<reconnecting, grpcAddr, place, loaded, streams, failures>>

Takes == \/ \E k \in Kinds : TakesStream(k)
         \/ \E c \in Openers : TakesOpener(c)

HandlerWorks == Resets \/ Spawns \/ WaitEnds

-----------------------------------------------------------------------------

Next ==
    \/ \E c \in Openers : Opener(c)
    \/ \E k \in Kinds : Stream(k)
    \/ Takes \/ HandlerTestFails \/ HandlerTestPasses \/ HandlerWorks

Spec == Init /\ [][Next]_vars

\* Goroutines are scheduled, a call returns or fails, a send on reconnChan
\* is received when the handler is back at its select, and some node answers
\* the handler's tests in the end.
FairSpec ==
    /\ Spec
    /\ \A c \in Openers : WF_vars(Opener(c))
    /\ \A k \in Kinds : /\ WF_vars(StreamChecks(k)) /\ WF_vars(StreamSets(k))
                         /\ WF_vars(Opens(k) \/ StreamFails(k, "open"))
    /\ WF_vars(Takes) /\ WF_vars(HandlerTestPasses) /\ WF_vars(HandlerWorks)

-----------------------------------------------------------------------------
(* Properties.                                                             *)

OpenerPlaces == {"idle", "test", "dial", "load", "check", "set", "send"}

TypeOK ==
    /\ reconnecting \in BOOLEAN
    /\ grpcAddr \in {"up", "none"}
    /\ handler \in {"idle", "test", "reset", "spawn", "wait", "exited"}
    /\ place \in [Openers -> OpenerPlaces]
    /\ loaded \in [Openers -> 0..NumLoads]
    /\ streams \in [Kinds -> [StreamPlaces -> Nat]]
    /\ failures \in 0..MaxFailures

Asking == \/ \E c \in Openers : place[c] = "send"
          \/ \E k \in Kinds : streams[k]["send"] > 0
AboutToAsk == \/ \E c \in Openers : place[c] \in {"check", "set"}
              \/ \E k \in Kinds : streams[k]["set"] > 0

\* While the flag turns requests away, a request waits for the handler or
\* the handler has yet to reset the flag (or the process has ended).
FlagPending == reconnecting => Asking \/ handler \in {"test", "reset", "exited"}

\* A stream that gives up because a reconnect is under way is always
\* replaced: when no stream of a kind is open or about to say that it
\* failed, an opener or the handler is still to start one, or a request is
\* on its way.
Serviced ==
    \A k \in Kinds :
        \/ \E p \in {"open", "run", "check"} : streams[k][p] > 0
        \/ \E c \in Openers : place[c] # "idle"
        \/ handler \in {"test", "reset", "spawn", "exited"}
        \/ Asking \/ AboutToAsk

\* StreamVegaData never dials the empty address, which would end the
\* process, although the handler empties grpcAddr with each request: the
\* handler is idle only while no opener stands between its test and its
\* dial, and a request can come from streams only an opener has started.
DialsTested == \A c \in Openers : place[c] = "dial" => grpcAddr = "up"

\* The one way the handler hangs: it waits for a StreamVegaData that is
\* blocked in a request of its own, after a load has failed.
Hangs == handler = "wait" /\ place["handler"] = "send"

\* Whatever else happens, streams and loads failing in any order, a stream
\* that is missing comes back; or the process has ended for want of any node.
Recovers ==
    \A k \in Kinds :
        (streams[k]["run"] = 0) ~>
            (streams[k]["run"] > 0 \/ handler = "exited" \/ Hangs)

\* vega_data_client.go:173-175, "Waiting for new vega data streams" ...
\* "Finished reconnecting to a data node.": the wait ends.
ReconnectFinishes == handler = "wait" ~> handler \in {"idle", "exited"}
=============================================================================
