------------------------ MODULE VegaDataClientProofs ------------------------
(***************************************************************************)
(* The safety of the Vega data client's reconnect protocol, for any kinds  *)
(* of stream, any number of loads and any bound on the failures: the flag  *)
(* is never left standing, no stream is given up without a replacement, no *)
(* opener dials the empty address, which would end the process, and a      *)
(* handler that waits for itself does so for ever.                         *)
(***************************************************************************)
EXTENDS VegaDataClient, TLAPS

\* Until the start-up opener has dialled there is no stream, so nobody can
\* have asked the handler for anything.
StartInv ==
    place["start"] \in {"test", "dial"} =>
        /\ handler = "idle"
        /\ place["handler"] = "idle"
        /\ \A k \in Kinds : \A p \in StreamPlaces : streams[k][p] = 0

\* The handler waits for as long as its opener is at work.
OpenerInv == place["handler"] # "idle" => handler = "wait"

Inv == TypeOK /\ FlagPending /\ Serviced /\ DialsTested /\ StartInv /\ OpenerInv

StreamsType == streams \in [Kinds -> [StreamPlaces -> Nat]]
PlaceType == place \in [Openers -> OpenerPlaces]

-----------------------------------------------------------------------------
(* What the two ways of changing one kind's counts leave behind.           *)

\* A stream goroutine moves: one less at from, one more at to.
LEMMA MovesEffect ==
    ASSUME StreamsType, NEW k \in Kinds, NEW from \in StreamPlaces,
           NEW to \in StreamPlaces, from # to, Moves(k, from, to)
    PROVE  /\ StreamsType'
           /\ streams[k][from] > 0
           /\ streams'[k][to] > 0
           /\ \A j \in Kinds : \A p \in StreamPlaces :
                  j # k \/ (p # from /\ p # to) => streams'[j][p] = streams[j][p]
<1>1. /\ StreamsType'
      /\ streams'[k][to] = streams[k][to] + 1
      /\ \A j \in Kinds : \A p \in StreamPlaces :
             j # k \/ (p # from /\ p # to) => streams'[j][p] = streams[j][p]
  BY DEF StreamsType, Moves
<1>2. streams[k][from] > 0 /\ streams[k][to] \in Nat
  BY DEF StreamsType, Moves
<1>3. QED
  BY <1>1, <1>2

\* A stream goroutine returns: one less at from.
LEMMA ReturnsEffect ==
    ASSUME StreamsType, NEW k \in Kinds, NEW from \in StreamPlaces,
           Returns(k, from)
    PROVE  /\ StreamsType'
           /\ streams[k][from] > 0
           /\ \A j \in Kinds : \A p \in StreamPlaces :
                  j # k \/ p # from => streams'[j][p] = streams[j][p]
BY DEF StreamsType, Returns

-----------------------------------------------------------------------------
(* The inductive invariant.  DialsTested rests on StartInv and OpenerInv:  *)
(* the handler empties the address when it is idle or testing, and then no *)
(* opener is at its dial.  Serviced rests on FlagPending: a stream that    *)
(* goes without asking has read the set flag.                              *)

LEMMA InitInv == Init => Inv
<1> SUFFICES ASSUME Init PROVE Inv
  OBVIOUS
<1>1. TypeOK
  <2>1. streams \in [Kinds -> [StreamPlaces -> Nat]]
    BY DEF Init
  <2>2. loaded \in [Openers -> 0..NumLoads] /\ failures \in 0..MaxFailures
    BY DataAssumption DEF DataAssumption, Init
  <2>3. place \in [Openers -> OpenerPlaces]
    BY DEF Init, Openers, OpenerPlaces
  <2>4. QED
    BY <2>1, <2>2, <2>3 DEF Init, TypeOK
<1>2. FlagPending /\ Serviced /\ DialsTested /\ StartInv /\ OpenerInv
  BY DEF Init, FlagPending, Serviced, DialsTested, StartInv, OpenerInv, Openers,
         StreamPlaces
<1>3. QED
  BY <1>1, <1>2 DEF Inv

\* The steps of StreamVegaData.
LEMMA OpenerStep ==
    ASSUME Inv, NEW c \in Openers, Opener(c)
    PROVE  Inv'
<1> USE DEF Inv
<1>a. StreamsType /\ PlaceType /\ NumLoads \in Nat /\ MaxFailures \in Nat
  BY DataAssumption DEF DataAssumption, TypeOK, StreamsType, PlaceType
<1>b. "start" \in Openers /\ "handler" \in Openers
  BY DEF Openers
<1>1. CASE TestPasses(c)
  <2>1. TypeOK'
    BY <1>1 DEF TestPasses, Goes, TypeOK, OpenerPlaces
  <2>2. FlagPending' /\ Serviced'
    BY <1>1, <1>a DEF TestPasses, Goes, FlagPending, Serviced, Asking, AboutToAsk, PlaceType
  <2>3. DialsTested' /\ StartInv' /\ OpenerInv'
    BY <1>1, <1>a, <1>b
    DEF TestPasses, Goes, DialsTested, StartInv, OpenerInv, PlaceType
  <2>4. QED
    BY <2>1, <2>2, <2>3
<1>2. CASE TestKills(c)
  <2>1. TypeOK'
    BY <1>2 DEF TestKills, TypeOK, OpenerPlaces
  <2>2. FlagPending' /\ Serviced' /\ DialsTested' /\ StartInv' /\ OpenerInv'
    BY <1>2, <1>b
    DEF TestKills, FlagPending, Serviced, DialsTested, StartInv, OpenerInv
  <2>3. QED
    BY <2>1, <2>2
<1>3. CASE Dials(c)
  <2>1. TypeOK'
    BY <1>3, <1>a DEF Dials, Goes, TypeOK, OpenerPlaces
  <2>2. FlagPending' /\ Serviced'
    BY <1>3, <1>a DEF Dials, Goes, FlagPending, Serviced, Asking, AboutToAsk, PlaceType
  <2>3. DialsTested' /\ StartInv' /\ OpenerInv'
    BY <1>3, <1>a, <1>b DEF Dials, Goes, DialsTested, StartInv, OpenerInv, PlaceType
  <2>4. QED
    BY <2>1, <2>2, <2>3
<1>4. CASE Loads(c)
  <2>1. loaded' \in [Openers -> 0..NumLoads]
    BY <1>4, <1>a DEF Loads, TypeOK
  <2>2. QED
    BY <1>4, <2>1
    DEF Loads, TypeOK, FlagPending, Serviced, DialsTested, StartInv, OpenerInv,
        Asking, AboutToAsk
<1>5. CASE LoadFails(c)
  <2>1. loaded' \in [Openers -> 0..NumLoads] /\ failures' \in 0..MaxFailures
    BY <1>5, <1>a DEF LoadFails, Fail, TypeOK
  <2>2. TypeOK'
    BY <1>5, <2>1 DEF LoadFails, Goes, TypeOK, OpenerPlaces
  <2>3. FlagPending' /\ Serviced'
    BY <1>5, <1>a DEF LoadFails, Goes, FlagPending, Serviced, Asking, AboutToAsk, PlaceType
  <2>4. DialsTested' /\ StartInv' /\ OpenerInv'
    BY <1>5, <1>a, <1>b
    DEF LoadFails, Goes, DialsTested, StartInv, OpenerInv, PlaceType
  <2>5. QED
    BY <2>2, <2>3, <2>4
<1>6. CASE OpenerChecks(c)
  <2>1. TypeOK'
    BY <1>6 DEF OpenerChecks, Goes, TypeOK, OpenerPlaces
  <2>2. FlagPending' /\ Serviced'
    BY <1>6, <1>a
    DEF OpenerChecks, Goes, FlagPending, Serviced, Asking, AboutToAsk, PlaceType
  <2>3. DialsTested' /\ StartInv' /\ OpenerInv'
    BY <1>6, <1>a, <1>b
    DEF OpenerChecks, Goes, DialsTested, StartInv, OpenerInv, PlaceType
  <2>4. QED
    BY <2>1, <2>2, <2>3
<1>7. CASE OpenerSets(c)
  <2>1. TypeOK'
    BY <1>7 DEF OpenerSets, Goes, TypeOK, OpenerPlaces
  <2>2. FlagPending' /\ Serviced'
    BY <1>7, <1>a DEF OpenerSets, Goes, FlagPending, Serviced, Asking, PlaceType
  <2>3. DialsTested' /\ StartInv' /\ OpenerInv'
    BY <1>7, <1>a, <1>b
    DEF OpenerSets, Goes, DialsTested, StartInv, OpenerInv, PlaceType
  <2>4. QED
    BY <2>1, <2>2, <2>3
<1>8. CASE StartsStreams(c)
  <2>1. /\ StreamsType'
        /\ \A k \in Kinds : /\ streams'[k]["open"] > 0
                            /\ streams'[k]["send"] = streams[k]["send"]
    BY <1>8, <1>a DEF StartsStreams, StreamsType, StreamPlaces
  <2>2. TypeOK'
    BY <1>8, <2>1 DEF StartsStreams, Goes, TypeOK, OpenerPlaces, StreamsType
  <2>3. FlagPending'
    BY <1>8, <1>a, <2>1 DEF StartsStreams, Goes, FlagPending, Asking, PlaceType
  <2>4. Serviced'
    BY <2>1 DEF Serviced
  \* The handler's opener is not at work before the start-up one has dialled.
  <2>5. place'["start"] \notin {"test", "dial"}
    <3>1. place[c] = "load" /\ place' = [place EXCEPT ![c] = "idle"]
      BY <1>8 DEF StartsStreams, Goes
    <3>2. place["start"] \notin {"test", "dial"}
      BY <3>1 DEF StartInv, Openers
    <3>3. QED
      BY <1>a, <1>b, <3>1, <3>2 DEF PlaceType
  <2>6. DialsTested' /\ OpenerInv'
    BY <1>8, <1>a, <1>b DEF StartsStreams, Goes, DialsTested, OpenerInv, PlaceType
  <2>7. QED
    BY <2>2, <2>3, <2>4, <2>5, <2>6 DEF StartInv
<1>9. QED
  BY <1>1, <1>2, <1>3, <1>4, <1>5, <1>6, <1>7, <1>8 DEF Opener

\* The steps of a stream.
LEMMA StreamStep ==
    ASSUME Inv, NEW k \in Kinds, Stream(k)
    PROVE  Inv'
<1> USE DEF Inv
<1>a. StreamsType /\ {"open", "run", "check", "set", "send"} \subseteq StreamPlaces
  BY DEF TypeOK, StreamsType, StreamPlaces
\* While there is a stream the start-up opener is past its dial.
<1>b. ASSUME NEW p \in StreamPlaces, streams[k][p] > 0
      PROVE  place["start"] \notin {"test", "dial"}
  BY <1>b DEF StartInv
<1>1. CASE Opens(k)
  <2>1. /\ StreamsType' /\ streams[k]["open"] > 0 /\ streams'[k]["run"] > 0
        /\ \A j \in Kinds : \A p \in StreamPlaces :
              j # k \/ (p # "open" /\ p # "run") => streams'[j][p] = streams[j][p]
    BY <1>1, <1>a, MovesEffect DEF Opens
  <2>2. TypeOK'
    BY <1>1, <2>1 DEF Opens, TypeOK, StreamsType
  <2>3. FlagPending'
    BY <1>1, <1>a, <2>1 DEF Opens, FlagPending, Asking
  <2>4. Serviced'
    BY <1>1, <1>a, <2>1 DEF Opens, Serviced, Asking, AboutToAsk
  <2>5. DialsTested' /\ StartInv' /\ OpenerInv'
    BY <1>1, <1>a, <1>b, <2>1 DEF Opens, DialsTested, StartInv, OpenerInv
  <2>6. QED
    BY <2>2, <2>3, <2>4, <2>5
<1>2. ASSUME NEW from \in {"open", "run"}, StreamFails(k, from) PROVE Inv'
  <2>1. /\ StreamsType' /\ streams[k][from] > 0 /\ streams'[k]["check"] > 0
        /\ \A j \in Kinds : \A p \in StreamPlaces :
              j # k \/ (p # from /\ p # "check") => streams'[j][p] = streams[j][p]
    BY <1>2, <1>a, MovesEffect DEF StreamFails
  <2>2. failures' \in 0..MaxFailures
    BY <1>2, DataAssumption DEF DataAssumption, StreamFails, Fail, TypeOK
  <2>3. TypeOK'
    BY <1>2, <2>1, <2>2 DEF StreamFails, TypeOK, StreamsType
  <2>4. FlagPending'
    BY <1>2, <1>a, <2>1 DEF StreamFails, FlagPending, Asking
  <2>5. Serviced'
    BY <1>2, <1>a, <2>1 DEF StreamFails, Serviced, Asking, AboutToAsk
  <2>6. DialsTested' /\ StartInv' /\ OpenerInv'
    BY <1>2, <1>a, <1>b, <2>1 DEF StreamFails, DialsTested, StartInv, OpenerInv
  <2>7. QED
    BY <2>3, <2>4, <2>5, <2>6
\* The stream that reads the set flag is the one that goes without asking.
<1>3. CASE StreamChecks(k) /\ reconnecting
  <2>1. /\ StreamsType' /\ streams[k]["check"] > 0
        /\ \A j \in Kinds : \A p \in StreamPlaces :
              j # k \/ p # "check" => streams'[j][p] = streams[j][p]
    BY <1>3, <1>a, ReturnsEffect DEF StreamChecks
  <2>2. TypeOK'
    BY <1>3, <2>1 DEF StreamChecks, TypeOK, StreamsType
  <2>3. Asking \/ handler \in {"test", "reset", "exited"}
    BY <1>3 DEF FlagPending
  <2>4. Asking' \/ handler' \in {"test", "reset", "exited"}
    BY <1>3, <1>a, <2>1, <2>3 DEF StreamChecks, Asking
  <2>5. FlagPending' /\ Serviced'
    BY <2>4 DEF FlagPending, Serviced
  <2>6. DialsTested' /\ StartInv' /\ OpenerInv'
    BY <1>3, <1>a, <1>b, <2>1 DEF StreamChecks, DialsTested, StartInv, OpenerInv
  <2>7. QED
    BY <2>2, <2>5, <2>6
<1>4. CASE StreamChecks(k) /\ ~reconnecting
  <2>1. /\ StreamsType' /\ streams[k]["check"] > 0 /\ streams'[k]["set"] > 0
    BY <1>4, <1>a, MovesEffect DEF StreamChecks
  <2>2. TypeOK'
    BY <1>4, <2>1 DEF StreamChecks, TypeOK, StreamsType
  <2>3. FlagPending' /\ Serviced'
    BY <1>4, <2>1 DEF StreamChecks, FlagPending, Serviced, AboutToAsk
  <2>4. DialsTested' /\ StartInv' /\ OpenerInv'
    BY <1>4, <1>a, <1>b, <2>1 DEF StreamChecks, DialsTested, StartInv, OpenerInv
  <2>5. QED
    BY <2>2, <2>3, <2>4
<1>5. CASE StreamSets(k)
  <2>1. /\ StreamsType' /\ streams[k]["set"] > 0 /\ streams'[k]["send"] > 0
    BY <1>5, <1>a, MovesEffect DEF StreamSets
  <2>2. TypeOK'
    BY <1>5, <2>1 DEF StreamSets, TypeOK, StreamsType
  <2>3. FlagPending' /\ Serviced'
    BY <2>1 DEF FlagPending, Serviced, Asking
  <2>4. DialsTested' /\ StartInv' /\ OpenerInv'
    BY <1>5, <1>a, <1>b, <2>1 DEF StreamSets, DialsTested, StartInv, OpenerInv
  <2>5. QED
    BY <2>2, <2>3, <2>4
<1>6. QED
  BY <1>1, <1>2, <1>3, <1>4, <1>5 DEF Stream

\* The steps of the handler, the rendezvous with a requester included.
LEMMA HandlerStep ==
    ASSUME Inv, Takes \/ HandlerTestFails \/ HandlerTestPasses \/ HandlerWorks
    PROVE  Inv'
<1> USE DEF Inv
<1>a. StreamsType /\ PlaceType /\ "send" \in StreamPlaces
      /\ "start" \in Openers /\ "handler" \in Openers
  BY DEF TypeOK, StreamsType, PlaceType, StreamPlaces, Openers
\* While the handler is idle or testing, its opener is not at its dial, and
\* with a request made the start-up opener is past it.
<1>b. ASSUME handler \in {"idle", "test"}, place["start"] # "dial"
      PROVE  \A c \in Openers : place[c] # "dial"
  BY <1>b DEF OpenerInv, Openers
<1>1. ASSUME NEW k \in Kinds, TakesStream(k) PROVE Inv'
  <2>1. StreamsType' /\ streams[k]["send"] > 0
    BY <1>1, <1>a, ReturnsEffect DEF TakesStream
  <2>2. place["start"] \notin {"test", "dial"}
    BY <1>a, <2>1 DEF StartInv
  <2>3. handler' = "test" /\ UNCHANGED place /\ handler = "idle"
    BY <1>1 DEF TakesStream
  <2>4. TypeOK'
    BY <1>1, <2>1 DEF TakesStream, TypeOK, StreamsType
  <2>5. DialsTested'
    BY <1>b, <2>2, <2>3 DEF DialsTested
  <2>6. QED
    BY <2>2, <2>3, <2>4, <2>5 DEF FlagPending, Serviced, StartInv, OpenerInv
<1>2. ASSUME NEW c \in Openers, TakesOpener(c) PROVE Inv'
  <2>1. place[c] = "send" /\ handler = "idle" /\ handler' = "test"
        /\ place' = [place EXCEPT ![c] = "load"]
    BY <1>2 DEF TakesOpener, Goes
  \* The handler's own opener cannot be the one: the handler would wait.
  <2>2. c = "start"
    BY <2>1 DEF OpenerInv, Openers
  <2>3. TypeOK'
    BY <1>2, <2>1 DEF TakesOpener, TypeOK, OpenerPlaces
  <2>4. DialsTested' /\ StartInv' /\ OpenerInv'
    BY <1>a, <1>b, <2>1, <2>2 DEF DialsTested, StartInv, OpenerInv, PlaceType
  <2>5. QED
    BY <2>1, <2>3, <2>4 DEF FlagPending, Serviced
<1>3. CASE HandlerTestFails
  <2>1. place["start"] \notin {"test", "dial"}
    BY <1>3 DEF HandlerTestFails, StartInv
  <2>2. DialsTested'
    BY <1>3, <1>b, <2>1 DEF HandlerTestFails, DialsTested
  <2>3. QED
    BY <1>3, <2>1, <2>2
    DEF HandlerTestFails, TypeOK, FlagPending, Serviced, StartInv, OpenerInv
<1>4. CASE HandlerTestPasses
  BY <1>4 DEF HandlerTestPasses, TypeOK, FlagPending, Serviced, DialsTested,
              StartInv, OpenerInv
<1>5. CASE Resets
  BY <1>5 DEF Resets, TypeOK, FlagPending, Serviced, DialsTested, StartInv, OpenerInv
<1>6. CASE Spawns
  <2>1. handler = "spawn" /\ handler' = "wait" /\ place["handler"] = "idle"
        /\ place' = [place EXCEPT !["handler"] = "test"]
    BY <1>6 DEF Spawns, Goes
  <2>2. TypeOK'
    BY <1>6, <2>1 DEF Spawns, TypeOK, OpenerPlaces
  <2>3. FlagPending'
    BY <1>6, <1>a, <2>1 DEF Spawns, FlagPending, Asking, PlaceType
  <2>4. place'["handler"] # "idle"
    BY <1>a, <2>1 DEF PlaceType
  <2>5. Serviced'
    BY <1>a, <2>4 DEF Serviced
  <2>6. DialsTested' /\ StartInv' /\ OpenerInv'
    BY <1>6, <1>a, <2>1 DEF Spawns, DialsTested, StartInv, OpenerInv, PlaceType
  <2>7. QED
    BY <2>2, <2>3, <2>5, <2>6
<1>7. CASE WaitEnds
  BY <1>7 DEF WaitEnds, TypeOK, FlagPending, Serviced, DialsTested, StartInv,
              OpenerInv, Asking, AboutToAsk
<1>8. QED
  BY <1>1, <1>2, <1>3, <1>4, <1>5, <1>6, <1>7 DEF Takes, HandlerWorks

LEMMA StutterStep ==
    ASSUME Inv, UNCHANGED vars
    PROVE  Inv'
BY DEF vars, Inv, TypeOK, FlagPending, Serviced, DialsTested, StartInv, OpenerInv,
       Asking, AboutToAsk

LEMMA InvKept == Spec => []Inv
<1>1. ASSUME Inv, [Next]_vars PROVE Inv'
  BY <1>1, OpenerStep, StreamStep, HandlerStep, StutterStep DEF Next
<1>2. QED
  BY <1>1, InitInv, PTL DEF Spec

-----------------------------------------------------------------------------
(* What the protocol guarantees, whatever the failures.                    *)

\* The places, counts and flags of vegaClient keep their types.
THEOREM TypeCorrect == Spec => []TypeOK
BY InvKept, PTL DEF Inv

\* handleGrpcReconnect never turns requests away for good: a set flag has a
\* request or a reset to come.
THEOREM FlagSettles == Spec => []FlagPending
BY InvKept, PTL DEF Inv

\* A stream goroutine that returned is replaced or being replaced.
THEOREM StreamsServiced == Spec => []Serviced
BY InvKept, PTL DEF Inv

\* StreamVegaData dials an address that has answered: its log.Fatalf at the
\* dial is not reached for want of an address.
THEOREM DialsAnswered == Spec => []DialsTested
BY InvKept, PTL DEF Inv

-----------------------------------------------------------------------------
(* The handler that waits for itself.                                      *)

\* What the run against ReconnectFinishes reaches is not left again: the
\* handler waits for the load, and the load for the handler, for ever
\* (vega_data_client.go:174 and 189).
THEOREM HangsForGood == Spec => [](Hangs => []Hangs)
<1>1. ASSUME Inv, Hangs, [Next]_vars PROVE Hangs'
  <2>1. PlaceType /\ handler = "wait" /\ place["handler"] = "send"
    BY <1>1 DEF Inv, TypeOK, PlaceType, Hangs
  <2>2. CASE \E c \in Openers : Opener(c)
    <3>1. PICK c \in Openers : Opener(c)
      BY <2>2
    <3>2. ~TestKills(c)
      BY <1>1, <2>1 DEF Inv, StartInv, TestKills, Openers
    <3>3. handler' = handler
      BY <3>1, <3>2 DEF Opener, TestPasses, Dials, Loads, LoadFails, OpenerChecks, OpenerSets,
                        StartsStreams
    <3>4. place'["handler"] = "send"
      <4>1. CASE c = "handler"
        BY <2>1, <3>1, <3>2, <4>1
           DEF Opener, TestPasses, Dials, Loads, LoadFails, OpenerChecks, OpenerSets,
               StartsStreams, Goes
      <4>2. CASE c # "handler"
        BY <2>1, <3>1, <3>2, <4>2
           DEF PlaceType, Openers, Opener, TestPasses, Dials, Loads, LoadFails, OpenerChecks,
               OpenerSets, StartsStreams, Goes
      <4> QED
        BY <4>1, <4>2
    <3> QED
      BY <2>1, <3>3, <3>4 DEF Hangs
  <2>3. CASE UNCHANGED vars \/ \E k \in Kinds : Stream(k)
    BY <2>1, <2>3 DEF vars, Hangs, Stream, Opens, StreamFails, StreamChecks, StreamSets
  <2>4. ~(Takes \/ HandlerTestFails \/ HandlerTestPasses \/ HandlerWorks)
    BY <2>1 DEF Takes, TakesStream, TakesOpener, HandlerTestFails, HandlerTestPasses,
                HandlerWorks, Resets, Spawns, WaitEnds
  <2> QED
    BY <1>1, <2>2, <2>3, <2>4 DEF Next
<1> QED
  BY <1>1, InvKept, PTL DEF Spec

\* Meanwhile, once the start-up opener has returned, no stream is opened: the
\* streams that still run end one by one and none comes back.
THEOREM NothingOpened ==
    Spec => [][Hangs /\ place["start"] = "idle" =>
                  /\ place'["start"] = "idle"
                  /\ \A k \in Kinds : streams'[k]["open"] <= streams[k]["open"]]_vars
<1> DEFINE Opened == /\ place'["start"] = "idle"
                     /\ \A k \in Kinds : streams'[k]["open"] <= streams[k]["open"]
<1>1. ASSUME Inv, Next, Hangs, place["start"] = "idle" PROVE Opened
  <2>1. /\ PlaceType /\ StreamsType
        /\ handler = "wait" /\ place["handler"] = "send" /\ place["start"] = "idle"
    BY <1>1 DEF Inv, TypeOK, PlaceType, StreamsType, Hangs
  <2>2. \A c \in Openers : ~Opener(c)
    BY <2>1 DEF Openers, Opener, TestPasses, TestKills, Dials, Loads, LoadFails, OpenerChecks,
                OpenerSets, StartsStreams, Goes
  <2>3. ~(Takes \/ HandlerTestFails \/ HandlerTestPasses \/ HandlerWorks)
    BY <2>1 DEF Takes, TakesStream, TakesOpener, HandlerTestFails, HandlerTestPasses,
                HandlerWorks, Resets, Spawns, WaitEnds
  <2>4. PICK k \in Kinds : Stream(k)
    BY <1>1, <2>2, <2>3 DEF Next
  <2>5. /\ place' = place
        /\ \/ \E from \in {"open", "run", "check", "set"}, to \in {"run", "check", "set", "send"} :
                from # to /\ Moves(k, from, to)
           \/ Returns(k, "check")
    BY <2>4 DEF Stream, Opens, StreamFails, StreamChecks, StreamSets
  <2>6. \A j \in Kinds : streams'[j]["open"] <= streams[j]["open"]
    <3>1. CASE Returns(k, "check")
      BY <2>1, <3>1 DEF Returns, StreamsType, StreamPlaces
    <3>2. ASSUME NEW from \in {"open", "run", "check", "set"},
                 NEW to \in {"run", "check", "set", "send"}, from # to, Moves(k, from, to)
          PROVE  \A j \in Kinds : streams'[j]["open"] <= streams[j]["open"]
      <4>1. /\ streams'[k]["open"] = IF from = "open" THEN streams[k]["open"] - 1
                                     ELSE streams[k]["open"]
            /\ \A j \in Kinds : j # k => streams'[j] = streams[j]
        BY <2>1, <3>2 DEF Moves, StreamsType, StreamPlaces
      <4>2. \A j \in Kinds : streams[j]["open"] \in Nat
        BY <2>1 DEF StreamsType, StreamPlaces
      <4> QED
        BY <4>1, <4>2
    <3> QED
      BY <2>5, <3>1, <3>2
  <2> QED
    BY <2>1, <2>5, <2>6
<1>2. Inv /\ [Next]_vars => [Hangs /\ place["start"] = "idle" => Opened]_vars
  BY <1>1
<1> QED
  BY <1>2, InvKept, PTL DEF Spec
=============================================================================
