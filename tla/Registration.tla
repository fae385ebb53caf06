---------------------------- MODULE Registration ----------------------------
(***************************************************************************)
(* Who knows whom once the strategies are registered: the trading engine's *)
(* agents (src/trading-engine), the stores and public keys of the data     *)
(* engine (src/data-engine/engine.go), the worker's agents.  Each part     *)
(* builds its own tables; what they were built from is a list of           *)
(* strategies, [agent, market, ticker, asset], in main's order.            *)
(* A strategy's store has its agent's key only once it is registered.      *)
(***************************************************************************)
EXTENDS Naturals, Sequences, FiniteSets

NoAgent == "no agent"

\* LoadStrategies, AddStrategy, RegisterStrategy: an agent has one strategy
\* for a market, the first of the list; a second one is ignored.
Registered(list) ==
    {i \in DOMAIN list : \A j \in 1 .. i - 1 :
        <<list[j].agent, list[j].market>> # <<list[i].agent, list[i].market>>}

AgentsOf(list) == {list[i].agent : i \in DOMAIN list}
StrategiesOf(list, a) == {i \in Registered(list) : list[i].agent = a}

KeyOf(list, i) == IF i \in Registered(list) THEN list[i].agent ELSE NoAgent

\* Mutant: main hands the data engine its own list.
Known_All(list) == DOMAIN list

\* GetStrategies: what the data engine is told of.
Known(list) == UNION {StrategiesOf(list, a) : a \in AgentsOf(list)}

\* RegisterStrategies, and the data client's map of stores: one for each
\* market and public key, the last to come (maps give any order).
ServedKeys(list) == {KeyOf(list, i) : i \in Known(list)}
MayServe(list, market, key) ==
    {i \in Known(list) : list[i].market = market /\ KeyOf(list, i) = key}

\* GetPowStores, GetNumStratsPerAgent: a proof-of-work store for each agent.
PowAgents(list) == AgentsOf(list)
NumStrats(list) == [a \in AgentsOf(list) |-> Cardinality(StrategiesOf(list, a))]
=============================================================================
