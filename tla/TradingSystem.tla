--------------------------- MODULE TradingSystem ----------------------------
(***************************************************************************)
(* The whole program: main's start-up order (src/main.go), the agents'     *)
(* start (src/trading-engine), and the goroutines that then run beside     *)
(* each other: the strategies, which report to the metrics server and      *)
(* then hand a batch to their agent's signer, the signers, the core        *)
(* client's submit loop with its outages, the metrics loop and the server. *)
(* What a strategy computes, the proofs of work and the reconnects are     *)
(* modelled elsewhere; here they succeed or fail.                          *)
(*                                                                         *)
(* A channel is the sequence of what it buffers and of the senders blocked *)
(* behind that, in the order they came: Go serves them in this order.  A   *)
(* strategy is named by its place in main's list.                          *)
(***************************************************************************)
EXTENDS Registration, MetricsServer, Signers, Folds, SequencesExt

CONSTANTS
    Lists,     \* lists of strategies main may have
    Assets,    \* assets of which balances are reported
    Vega,      \* the VEGA token, one of them
    Balances,  \* Balances[a][x]: what agent a owns of asset x (it does not change)
    QueueCap   \* capacity of txDataCh, 5 in the code

ASSUME SystemAssumption ==
    /\ QueueCap \in Nat \ {0}
    /\ Vega \in Assets
    /\ \A list \in Lists :
          /\ list \in Seq(Range(list))
          /\ \A i \in DOMAIN list : list[i].asset \in Assets
          /\ \A a \in AgentsOf(list) : \A x \in Assets : Balances[a][x] \in Nat

VARIABLES
    strategies, \* main's list
    main,      \* where main stands; "dead": the process has ended
    priced,    \* binanceClient.Start's share of main's wait group is done:
               \* every Binance store has a price
    loading,   \* the first StreamVegaData is not through yet
    held,      \* the markets the stores know, with their assets
    quoted,    \* the markets of which the stores have market data
    agentAt,   \* agentAt[a]: how far Start is with agent a
    place,     \* place[i]: where strategy i stands
    decimals,  \* strategies whose decimals are set
    core,      \* the connection to a core node: up or down
    toReport   \* events the metrics loop has still to send, in order

startVars == <<main, priced, loading, held, quoted, agentAt, decimals>>
signerVars == <<txDataCh, signer, core>>
runVars == <<place, signerVars, toReport, serverVars>>
vars == <<strategies, startVars, runVars>>

Agents == AgentsOf(strategies)
Running == {i \in Registered(strategies) : place[i] # "off"}
Key(i) == strategies[i].agent
NoOne == 0

\* The data engine's Init has tested the data nodes: with the first market,
\* and there is none in an empty list, which panics.
Init ==
    /\ strategies \in Lists
    /\ main = IF Known(strategies) = {} THEN "dead" ELSE "streams"
    /\ priced = FALSE
    /\ loading = TRUE
    /\ held = {}
    /\ quoted = {}
    /\ agentAt = [a \in Agents |-> "new"]
    /\ place = [i \in DOMAIN strategies |-> "off"]
    /\ decimals = {}
    /\ txDataCh = [a \in Agents |-> <<>>]
    /\ signer = [a \in Agents |-> [at |-> "off", for |-> NoInput]]
    /\ core = "up"
    /\ toReport = <<>>
    /\ ServerInit

-----------------------------------------------------------------------------
(* main, up to the wait group of two, and the data clients' part in it.    *)

Alive == main # "dead"

\* Without Binance stores Start is done at once; else once every store has
\* a price (external).
BinanceReady ==
    /\ Alive /\ ~priced
    /\ priced' = TRUE
    /\ UNCHANGED <<strategies, main, loading, held, quoted, agentAt, decimals, runVars>>

MarketsOf == {strategies[i].market : i \in Known(strategies)}

\* The first StreamVegaData is through with its loads.  Each of them stops
\* at its first failure, for the markets that come after, and has a reconnect
\* begun; the loads after it are tried all the same, so that the markets and
\* their market data may be missing apart.
VegaLoaded(markets, data) ==
    /\ Alive /\ loading
    /\ loading' = FALSE
    /\ held' = held \cup markets
    /\ quoted' = quoted \cup data
    /\ UNCHANGED <<strategies, main, priced, agentAt, decimals, runVars>>

\* A reconnect repeats the loads, and the stream brings market data.
Reloaded(markets, data) ==
    /\ Alive /\ ~loading
    /\ held' = held \cup markets
    /\ quoted' = quoted \cup data
    /\ held' # held \/ quoted' # quoted
    /\ UNCHANGED <<strategies, main, priced, loading, agentAt, decimals, runVars>>

\* Mutant: metricsServer.Start, which serves HTTP and does not return, comes
\* before tradingEngine.Start.
WaitsForStreams_ServesFirst ==
    /\ main = "streams" /\ priced /\ ~loading
    /\ main' = "serving"
    /\ serving' = TRUE
    /\ UNCHANGED <<strategies, priced, loading, held, quoted, agentAt, decimals, place, signerVars,
                   toReport, inCh, handling, gauges>>

WaitsForStreams ==
    /\ main = "streams" /\ priced /\ ~loading
    /\ main' = "starting"
    /\ UNCHANGED <<strategies, priced, loading, held, quoted, agentAt, decimals, runVars>>

-----------------------------------------------------------------------------
(* tradingEngine.Start, for one agent after the other in any order.        *)

\* The agent Start is at, and the next one it may begin with.
At(a, step) == main = "starting" /\ agentAt[a] = step
StartIs(a, step) == agentAt' = [agentAt EXCEPT ![a] = step]

StartsSigner(a) ==
    /\ At(a, "new") /\ \A b \in Agents : agentAt[b] \in {"new", "running"}
    /\ StartIs(a, "signing")
    /\ signer' = [signer EXCEPT ![a].at = "idle"]
    /\ UNCHANGED <<strategies, main, priced, loading, held, quoted, decimals, place, txDataCh, core,
                   toReport, serverVars>>

\* Mutant: a strategy whose market is missing is passed over.
LoadsVegaDecimals_Lenient(a) ==
    /\ At(a, "signing")
    /\ StartIs(a, "priced")
    /\ decimals' = decimals \cup {i \in StrategiesOf(strategies, a) : strategies[i].market \in held}
    /\ UNCHANGED <<strategies, main, priced, loading, held, quoted, runVars>>

\* A market or asset that was not loaded is nil: its fields panic, which
\* ends the process, whatever the agents before this one do already.
LoadsVegaDecimals(a) ==
    /\ At(a, "signing")
    /\ IF \A i \in StrategiesOf(strategies, a) : strategies[i].market \in held
       THEN /\ StartIs(a, "priced")
            /\ decimals' = decimals \cup StrategiesOf(strategies, a)
            /\ UNCHANGED main
       ELSE /\ main' = "dead"
            /\ UNCHANGED <<agentAt, decimals>>
    /\ UNCHANGED <<strategies, priced, loading, held, quoted, runVars>>

\* UpdateLiquidityCommitments changes nothing before: it returns at the
\* first strategy without one, and goes on to the next at the others.
RunsStrategies(a) ==
    /\ At(a, "priced")
    /\ StartIs(a, "running")
    /\ place' = [i \in DOMAIN strategies |->
                   IF i \in StrategiesOf(strategies, a) THEN "idle" ELSE place[i]]
    /\ UNCHANGED <<strategies, main, priced, loading, held, quoted, decimals, signerVars, toReport,
                   serverVars>>

ServesMetrics ==
    /\ main = "starting" /\ \A a \in Agents : agentAt[a] = "running"
    /\ main' = "serving"
    /\ serving' = TRUE
    /\ UNCHANGED <<strategies, priced, loading, held, quoted, agentAt, decimals, place, signerVars,
                   toReport, inCh, handling, gauges>>

-----------------------------------------------------------------------------
(* A strategy: a round that finds its data reports, then hands over a      *)
(* batch; it stays in the send while the buffer is full.  A round may also *)
(* end in a panic, which ends the process: without market data, and at an  *)
(* empty side of the book (StrategyRound).                                 *)

\* Mutant: each batch is sent in a goroutine of its own.
Blocked_Never(i) == FALSE

Blocked(i) == \E n \in DOMAIN txDataCh[Key(i)] : n > QueueCap /\ txDataCh[Key(i)][n] = i

BeginsRound(i) == Alive /\ place[i] = "idle" /\ ~Blocked(i)

RoundPanics(i) ==
    /\ BeginsRound(i)
    /\ main' = "dead"
    /\ UNCHANGED <<strategies, priced, loading, held, quoted, agentAt, decimals, runVars>>

\* What a strategy reports is told apart by who reports it.
Reports(i) ==
    /\ BeginsRound(i) /\ strategies[i].market \in quoted
    /\ Send(i, StrategyEvent(strategies[i].ticker, Key(i), i))
    /\ place' = [place EXCEPT ![i] = "reporting"]
    /\ UNCHANGED <<strategies, startVars, signerVars, toReport, serving, handling, gauges>>

Hands(i) ==
    /\ Alive /\ place[i] = "handing"
    /\ Put(Key(i), i)
    /\ place' = [place EXCEPT ![i] = "idle"]
    /\ UNCHANGED <<strategies, startVars, core, toReport, serverVars>>

-----------------------------------------------------------------------------
(* The signers and the submit loop.                                        *)

TakesInput(a) ==
    /\ Alive /\ Take(a)
    /\ UNCHANGED <<strategies, startVars, place, core, toReport, serverVars>>

Signs(a) ==
    /\ Alive /\ Sign(a)
    /\ UNCHANGED <<strategies, startVars, place, core, toReport, serverVars>>

Drops(a) ==
    /\ Alive /\ Drop(a)
    /\ UNCHANGED <<strategies, startVars, place, core, toReport, serverVars>>

\* The submit loop takes a transaction, if a connection stands, and loses it
\* with the connection or not.
Submits(a, after) ==
    /\ Alive /\ core = "up" /\ Pass(a)
    /\ core' = after
    /\ UNCHANGED <<strategies, startVars, place, toReport, serverVars>>

\* Another stream of the core client fails.
Outage ==
    /\ Alive /\ core = "up"
    /\ core' = "down"
    /\ UNCHANGED <<strategies, startVars, place, txDataCh, signer, toReport, serverVars>>

Reconnects ==
    /\ Alive /\ core = "down"
    /\ core' = "up"
    /\ UNCHANGED <<strategies, startVars, place, txDataCh, signer, toReport, serverVars>>

-----------------------------------------------------------------------------
(* The metrics loop, and the server.                                       *)

\* Mutant: an asset is reported for each strategy that settles in it.
Entries_PerStrategy(a) ==
    LET seq == SetToSeq(StrategiesOf(strategies, a))
    IN  [n \in DOMAIN seq |-> strategies[seq[n]].asset] \o <<Vega>>

\* GetBalances: each settlement asset once, and VEGA.
Entries(a) ==
    SetToSeq({strategies[i].asset : i \in StrategiesOf(strategies, a)}) \o <<Vega>>

\* ComputeMetrics adds up the entries of an asset, and the agents' sums.
AgentBalance(a) ==
    LET entries == Entries(a)
    IN  [x \in Assets |-> Cardinality({n \in DOMAIN entries : entries[n] = x}) * Balances[a][x]]

SumOver(agents, balances) ==
    [x \in Assets |-> FoldSet(LAMBDA a, sum : sum + balances[a][x], 0, agents)]

TotalBalance == SumOver(Agents, [a \in Agents |-> AgentBalance(a)])

\* The ticker's first tick comes 3 seconds after Start has begun, which
\* blocks nowhere: Start is taken to be through by then.
Ticks ==
    /\ main = "serving" /\ toReport = <<>> /\ \A n \in DOMAIN inCh : inCh[n].from # NoOne
    /\ LET agents == SetToSeq(Agents)
           events == [n \in DOMAIN agents |-> AgentEvent(agents[n], AgentBalance(agents[n]))]
                        \o <<EngineEvent(TotalBalance)>>
       IN  /\ toReport' = Tail(events)
           /\ Send(NoOne, Head(events))
    /\ UNCHANGED <<strategies, startVars, place, signerVars, serving, handling, gauges>>

\* The server takes an event: the strategy goes on, or the metrics loop
\* blocks in its next send.
ServerReceives ==
    /\ Alive /\ Receive
    /\ LET from == Head(inCh).from
       IN  place' = [i \in DOMAIN strategies |-> IF i = from THEN "handing" ELSE place[i]]
    /\ UNCHANGED <<strategies, startVars, signerVars, toReport>>

LoopSends ==
    /\ Alive /\ toReport # <<>> /\ \A n \in DOMAIN inCh : inCh[n].from # NoOne
    /\ Send(NoOne, Head(toReport))
    /\ toReport' = Tail(toReport)
    /\ UNCHANGED <<strategies, startVars, place, signerVars, serving, handling, gauges>>

ServerHandles ==
    /\ Alive /\ HandleEvent
    /\ UNCHANGED <<strategies, startVars, place, signerVars, toReport>>

-----------------------------------------------------------------------------

MainStep ==
    \/ BinanceReady \/ WaitsForStreams \/ ServesMetrics
    \/ \E markets, data \in SUBSET MarketsOf : VegaLoaded(markets, data)
    \/ \E a \in Agents : StartsSigner(a) \/ LoadsVegaDecimals(a) \/ RunsStrategies(a)

SignerStep(a) ==
    TakesInput(a) \/ Signs(a) \/ Drops(a) \/ \E after \in {"up", "down"} : Submits(a, after)

Next ==
    \/ MainStep
    \/ \E markets, data \in SUBSET MarketsOf : Reloaded(markets, data)
    \/ \E i \in DOMAIN strategies : Hands(i) \/ Reports(i) \/ RoundPanics(i)
    \/ \E a \in Agents : SignerStep(a)
    \/ Outage \/ Reconnects
    \/ Ticks \/ LoopSends \/ ServerReceives \/ ServerHandles

Spec == Init /\ [][Next]_vars

\* Binance's streams bring prices in the end, and a core connection lasts,
\* now and then, until the submit loop has taken what waits for it, in
\* turn; every other step is a goroutine's own.  Nothing says that a round
\* comes, that an outage ends for good, that a tick comes, or that what a
\* load left out is ever brought.
AllAgents == UNION {AgentsOf(list) : list \in Lists}
AllPlaces == UNION {DOMAIN list : list \in Lists}

Fairness ==
    /\ WF_vars(MainStep)
    /\ \A i \in AllPlaces : WF_vars(i \in DOMAIN strategies /\ Hands(i))
    /\ \A a \in AllAgents :
          /\ WF_vars(a \in Agents /\ (TakesInput(a) \/ Signs(a) \/ Drops(a)))
          /\ SF_vars(a \in Agents /\ \E after \in {"up", "down"} : Submits(a, after))
    /\ WF_vars(Reconnects) /\ WF_vars(LoopSends)
    /\ WF_vars(ServerReceives) /\ WF_vars(ServerHandles)

FairSpec == Spec /\ Fairness

-----------------------------------------------------------------------------
(* Properties.                                                             *)

\* What the variables hold; and a sender stands at most once in a channel,
\* a strategy only while it is reporting.
TypeOK ==
    /\ strategies \in Lists
    /\ main \in {"streams", "starting", "serving", "dead"}
    /\ priced \in BOOLEAN /\ loading \in BOOLEAN /\ serving \in BOOLEAN
    /\ held \subseteq MarketsOf /\ quoted \subseteq MarketsOf
    /\ decimals \subseteq Registered(strategies)
    /\ agentAt \in [Agents -> {"new", "signing", "priced", "running"}]
    /\ place \in [DOMAIN strategies -> {"off", "idle", "reporting", "handing"}]
    /\ \A a \in Agents : txDataCh[a] \in Seq(StrategiesOf(strategies, a))
    /\ \A a \in Agents : signer[a].at \in {"off", "idle", "signing", "sending"}
    /\ core \in {"up", "down"}
    /\ \A i \in DOMAIN strategies :
          Cardinality({n \in DOMAIN inCh : inCh[n].from = i}) =
             IF place[i] = "reporting" THEN 1 ELSE 0
    /\ Cardinality({n \in DOMAIN inCh : inCh[n].from = NoOne}) <= 1
    /\ Len(handling) <= 1

\* The tables of the five parts agree: the keys the data engine serves are
\* the agents, each of which has a proof-of-work store that is asked for as
\* many proofs as strategies need; and where the data client looks for the
\* store of a strategy's market and key it finds that strategy's own, though
\* the agent keeps the first of its strategies for a market and the data
\* client the last (agent.go's RegisterStrategy, the data client's Init).
WiredAlike ==
    /\ ServedKeys(strategies) = PowAgents(strategies)
    /\ \A a \in Agents :
          NumStrats(strategies)[a] = Cardinality({i \in Known(strategies) : Key(i) = a})
    /\ \A i \in Registered(strategies) :
          MayServe(strategies, strategies[i].market, Key(i)) = {i}

\* A strategy that runs has Binance's prices, its market, its decimals and a
\* signer: main waits for the streams, and a load that left a market out
\* ends the process before the strategies of that market's agent run.  Market
\* data it may lack, since the wait is for the loads to be through, not for
\* their success; the round panics then, so that what is reported or handed
\* over was priced with them.
RunsPrepared ==
    \A i \in Running :
        /\ priced /\ ~loading
        /\ i \in decimals /\ strategies[i].market \in held
        /\ signer[Key(i)].at # "off"
        /\ place[i] \in {"reporting", "handing"} => strategies[i].market \in quoted

\* After an outage, however long, a market sees at most QueueCap + 2 batches
\* of a strategy that were computed before: the buffer's, the signer's, and
\* the one in the strategy's own send (txDataCh, and BuildAndSendTx's
\* blocking send).  The strategies of an agent share the buffer.
Backlog(i) ==
    Cardinality({n \in DOMAIN txDataCh[Key(i)] : txDataCh[Key(i)][n] = i})
        + (IF signer[Key(i)].for = i THEN 1 ELSE 0)

StaleBatchesBounded ==
    /\ \A i \in Running : Backlog(i) <= QueueCap + 2
    /\ \A a \in Agents : Len(txDataCh[a]) <= QueueCap + NumStrats(strategies)[a]

\* While a strategy hands its batch over, its gauges show what it reported
\* before, unless the event is still handled, or another strategy has its
\* ticker and its key (no label has the market: server.go's labels).
OwnLabel(i) == <<strategies[i].ticker, Key(i)>>

GaugesOwn ==
    \A i \in Running :
        /\ place[i] = "handing"
        /\ \A j \in Registered(strategies) \ {i} : OwnLabel(j) # OwnLabel(i)
        => \/ i \in Range(liveOrders)
           \/ handling # <<>> /\ handling[1] = StrategyEvent(strategies[i].ticker, Key(i), i)

\* Once a tick's events are handled the server shows for each agent what it
\* owns, every asset once however many of its strategies settle in it, and
\* for the engine the sum over the agents.  An agent that settles in VEGA is
\* excepted: GetBalances lists it once more at the end.
Between == toReport = <<>> /\ handling = <<>> /\ \A n \in DOMAIN inCh : inCh[n].from # NoOne

SettlesInVega(a) == \E i \in StrategiesOf(strategies, a) : strategies[i].asset = Vega

BalancesTrue ==
    Between /\ totalGauge # <<>> =>
        /\ \A i \in Registered(strategies) : \A x \in {Vega, strategies[i].asset} :
              ~SettlesInVega(Key(i)) => agentGauge[<<Key(i)>>][x] = Balances[Key(i)][x]
        /\ totalGauge[<<>>] = SumOver(Agents, [a \in Agents |-> agentGauge[<<a>>]])

\* Nobody waits in vain: whoever is blocked waits for someone who can take a
\* step.  A strategy that is not running yet waits for main, one that reports
\* for the server or, while there is none, for main to get to it, one whose
\* batch is behind the buffer for its signer, and the metrics loop for the
\* server.  (A signer's send waits for the core client alone.)
Starting == main \in {"streams", "starting"}
ServerMoves == handling # <<>> \/ (serving /\ inCh # <<>>)
SignerMoves(a) ==
    \/ signer[a].at \in {"signing", "sending"}
    \/ signer[a].at = "idle" /\ txDataCh[a] # <<>>

NobodyWaitsInVain ==
    Alive =>
        /\ \A i \in Registered(strategies) :
              /\ place[i] = "off" => Starting
              /\ place[i] = "reporting" => Starting \/ ServerMoves
              /\ Blocked(i) => SignerMoves(Key(i))
        /\ toReport # <<>> =>
              ServerMoves \/ \A n \in DOMAIN inCh : inCh[n].from # NoOne

\* No strategy is held for ever, by the metrics server, by its agent's other
\* strategies or by an outage: it is free for its next round again and
\* again, unless the process has ended, at start-up or in a panic.
NeverStuck ==
    \A i \in AllPlaces :
        []<>( \/ main = "dead"
              \/ i \notin Registered(strategies)
              \/ place[i] = "idle" /\ ~Blocked(i) )
=============================================================================
