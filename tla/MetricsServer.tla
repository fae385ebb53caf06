--------------------------- MODULE MetricsServer ----------------------------
(***************************************************************************)
(* The metrics server (src/metrics/server.go): one goroutine receives      *)
(* events from an unbuffered channel and sets gauges, which are told apart *)
(* by labels.  Go serves blocked senders in the order they came, so the    *)
(* channel is the sequence of them.  One gauge stands for the seven that a *)
(* strategy's event sets alike; the counter only grows and is left out.    *)
(***************************************************************************)
EXTENDS Naturals, Sequences

VARIABLES
    serving,    \* Start has been called
    inCh,       \* the blocked senders: [from, event]
    handling,   \* the event in HandleEvent, if any: at most one
    liveOrders, \* the gauge of strategies, by label
    agentGauge, \* balances, by public key
    totalGauge  \* the trading engine's balances

gauges == <<liveOrders, agentGauge, totalGauge>>
serverVars == <<serving, inCh, handling, gauges>>

StrategyEvent(ticker, key, live) ==
    [type |-> "strategy", labels |-> <<ticker, key>>, value |-> live]
AgentEvent(key, balances) == [type |-> "agent", labels |-> <<key>>, value |-> balances]
EngineEvent(balances) == [type |-> "engine", labels |-> <<>>, value |-> balances]

\* Mutant: the gauges of strategies are told apart by their ticker alone.
Labels_Ticker(event) ==
    IF event.type = "strategy" THEN <<event.labels[1]>> ELSE event.labels

Labels(event) == event.labels

ServerInit ==
    /\ serving = FALSE
    /\ inCh = <<>>
    /\ handling = <<>>
    /\ liveOrders = <<>>
    /\ agentGauge = <<>>
    /\ totalGauge = <<>>

\* A sender blocks in its send.
Send(from, event) == inCh' = Append(inCh, [from |-> from, event |-> event])

Receive ==
    /\ serving /\ handling = <<>> /\ inCh # <<>>
    /\ handling' = <<Head(inCh).event>>
    /\ inCh' = Tail(inCh)
    /\ UNCHANGED <<serving, gauges>>

SetGauge(gauge, event) ==
    [l \in DOMAIN gauge \cup {Labels(event)} |->
        IF l = Labels(event) THEN event.value ELSE gauge[l]]

HandleEvent ==
    /\ handling # <<>>
    /\ LET event == handling[1]
           After(type, gauge) == IF event.type = type THEN SetGauge(gauge, event) ELSE gauge
       IN  /\ liveOrders' = After("strategy", liveOrders)
           /\ agentGauge' = After("agent", agentGauge)
           /\ totalGauge' = After("engine", totalGauge)
    /\ handling' = <<>>
    /\ UNCHANGED <<serving, inCh>>
=============================================================================
