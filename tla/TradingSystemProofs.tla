------------------------ MODULE TradingSystemProofs ------------------------
(***************************************************************************)
(* For any lists of strategies and any capacity of the signers' channels:  *)
(* no strategy runs unprepared, the batches that wait behind an outage are *)
(* bounded, the server shows what strategies and agents have reported, and *)
(* whoever is blocked waits for someone who can move.                      *)
(***************************************************************************)
EXTENDS TradingSystem, FiniteSetTheorems, SequenceTheorems, TLAPS

-----------------------------------------------------------------------------
(* Sequences, and a queue that holds each element once past some point.    *)

IsSeq(s) == s \in Seq(Range(s))

LEMMA AppendSeq ==
    ASSUME NEW s, IsSeq(s), NEW e
    PROVE  /\ IsSeq(Append(s, e))
           /\ Len(s) \in Nat /\ DOMAIN s = 1 .. Len(s)
           /\ DOMAIN Append(s, e) = 1 .. Len(s) + 1
           /\ \A n \in 1 .. Len(s) : Append(s, e)[n] = s[n]
           /\ Append(s, e)[Len(s) + 1] = e
<1>1. s \in Seq(Range(s) \cup {e})
  BY DEF IsSeq
<1>2. Append(s, e) \in Seq(Range(s) \cup {e})
  BY <1>1
<1>3. /\ Len(s) \in Nat /\ DOMAIN s = 1 .. Len(s)
      /\ DOMAIN Append(s, e) = 1 .. Len(s) + 1 /\ Len(Append(s, e)) = Len(s) + 1
      /\ \A n \in 1 .. Len(s) : Append(s, e)[n] = s[n]
      /\ Append(s, e)[Len(s) + 1] = e
  BY <1>1
<1>4. IsSeq(Append(s, e))
  BY <1>2, SeqOfRange DEF IsSeq
<1> QED
  BY <1>3, <1>4

LEMMA TailSeq ==
    ASSUME NEW s, IsSeq(s), s # <<>>
    PROVE  /\ IsSeq(Tail(s))
           /\ Len(s) \in Nat \ {0} /\ DOMAIN s = 1 .. Len(s)
           /\ DOMAIN Tail(s) = 1 .. Len(s) - 1
           /\ \A n \in 1 .. Len(s) - 1 : Tail(s)[n] = s[n + 1]
           /\ Head(s) = s[1]
<1>1. s \in Seq(Range(s))
  BY DEF IsSeq
<1>2. /\ Len(s) \in Nat \ {0} /\ DOMAIN s = 1 .. Len(s)
      /\ DOMAIN Tail(s) = 1 .. Len(s) - 1 /\ Len(Tail(s)) = Len(s) - 1
      /\ \A n \in 1 .. Len(s) - 1 : Tail(s)[n] = s[n + 1]
      /\ Head(s) = s[1] /\ Tail(s) \in Seq(Range(s))
  BY <1>1
<1>3. IsSeq(Tail(s))
  BY <1>2, SeqOfRange DEF IsSeq
<1> QED
  BY <1>2, <1>3

\* No element twice past place c.
Once(q, c) ==
    \A n, m \in DOMAIN q : n > c /\ m > c /\ q[n] = q[m] => n = m

LEMMA OnceBoundsLength ==
    ASSUME NEW S, IsFiniteSet(S), NEW q \in Seq(S), NEW c \in Nat, Once(q, c)
    PROVE  Len(q) <= c + Cardinality(S)
<1> DEFINE late == c + 1 .. Len(q)
           f == [n \in late |-> q[n]]
<1>1. f \in Injection(late, S)
  BY DEF Injection, IsInjective, Once
<1>2. Cardinality(late) <= Cardinality(S)
  BY <1>1, FS_Injection
<1>3. c + 1 \in Int /\ Len(q) \in Nat /\ Cardinality(S) \in Nat
  BY FS_CardinalityType
<1>4. Cardinality(late) = IF c + 1 > Len(q) THEN 0 ELSE Len(q) - (c + 1) + 1
  <2>1. \A a, b \in Int : Cardinality(a .. b) = IF a > b THEN 0 ELSE b - a + 1
    BY FS_Interval
  <2>2. Len(q) \in Int
    BY <1>3
  <2> QED
    BY <1>3, <2>1, <2>2, Zenon
<1> QED
  BY <1>2, <1>3, <1>4

LEMMA OnceBoundsShare ==
    ASSUME NEW S, NEW q \in Seq(S), NEW c \in Nat, Once(q, c), NEW e
    PROVE  Cardinality({n \in DOMAIN q : q[n] = e}) <= c + 1
           /\ Cardinality({n \in DOMAIN q : q[n] = e}) \in Nat
<1> DEFINE at == {n \in DOMAIN q : q[n] = e}
<1>1. IsFiniteSet(1 .. c) /\ Cardinality(1 .. c) = c
  BY FS_Interval
<1>2. \E m : at \subseteq (1 .. c) \cup {m}
  <2>1. CASE \E m \in at : m > c
    <3>1. PICK m \in at : m > c
      BY <2>1
    <3>2. \A n \in at : n \in 1 .. c \/ n = m
      BY <3>1 DEF Once
    <3> QED
      BY <3>2
  <2>2. CASE ~ \E m \in at : m > c
    <3>1. \A n \in at : n \in 1 .. c
      BY <2>2
    <3> QED
      BY <3>1
  <2> QED
    BY <2>1, <2>2
<1>3. PICK m : at \subseteq (1 .. c) \cup {m}
  BY <1>2
<1>4. /\ IsFiniteSet((1 .. c) \cup {m})
      /\ Cardinality((1 .. c) \cup {m}) <= c + 1
      /\ Cardinality((1 .. c) \cup {m}) \in Nat
  <2>1. /\ IsFiniteSet((1 .. c) \cup {m})
        /\ Cardinality((1 .. c) \cup {m}) = IF m \in 1 .. c THEN c ELSE c + 1
    BY <1>1, FS_AddElement
  <2> QED
    BY <2>1
<1>5. IsFiniteSet(at) /\ Cardinality(at) <= Cardinality((1 .. c) \cup {m})
  BY <1>3, <1>4, FS_Subset
<1>6. Cardinality(at) \in Nat
  BY <1>5, FS_CardinalityType
<1> QED
  BY <1>4, <1>5, <1>6
-----------------------------------------------------------------------------
(* The invariant.                                                          *)

Types ==
    /\ strategies \in Lists
    /\ main \in {"streams", "starting", "serving", "dead"}
    /\ held \subseteq MarketsOf /\ quoted \subseteq MarketsOf
    /\ agentAt \in [Agents -> {"new", "signing", "priced", "running"}]
    /\ place \in [DOMAIN strategies -> {"off", "idle", "reporting", "handing"}]
    /\ txDataCh \in [Agents -> Seq(DOMAIN strategies)]
    /\ signer \in [Agents -> [at : {"off", "idle", "signing", "sending"},
                             for : DOMAIN strategies \cup {NoInput}]]
    /\ IsSeq(inCh)

\* What a strategy and its agent have behind them when they run.
Prepared ==
    /\ main \in {"starting", "serving"} => priced /\ ~loading
    /\ \A a \in Agents : agentAt[a] # "new" => signer[a].at # "off" /\ priced /\ ~loading
    /\ \A a \in Agents : agentAt[a] \in {"priced", "running"} =>
          \A i \in StrategiesOf(strategies, a) : i \in decimals /\ strategies[i].market \in held
    /\ \A i \in DOMAIN strategies : place[i] # "off" =>
          i \in Registered(strategies) /\ agentAt[Key(i)] = "running"

\* A sender stands once in the metrics channel, a strategy while it reports.
Senders ==
    /\ \A n \in DOMAIN inCh : inCh[n].from # NoOne =>
          inCh[n].from \in DOMAIN strategies /\ place[inCh[n].from] = "reporting"
    /\ \A n, m \in DOMAIN inCh :
          inCh[n].from # NoOne /\ inCh[n].from = inCh[m].from => n = m

\* A signer's channel holds its own agent's strategies, one past the buffer
\* for each at most; and one that is about to hand over is not among these.
Queues ==
    /\ \A a \in Agents : \A n \in DOMAIN txDataCh[a] :
          txDataCh[a][n] \in StrategiesOf(strategies, a)
    /\ \A a \in Agents : Once(txDataCh[a], QueueCap)
    /\ \A i \in DOMAIN strategies : place[i] \in {"reporting", "handing"} => ~Blocked(i)

Inv == Types /\ Prepared /\ Senders /\ Queues

\* Facts about the list that no step changes.
LEMMA ListFacts ==
    ASSUME strategies \in Lists
    PROVE  /\ Len(strategies) \in Nat /\ DOMAIN strategies = 1 .. Len(strategies)
           /\ NoOne \notin DOMAIN strategies
           /\ Registered(strategies) \subseteq DOMAIN strategies
           /\ \A i \in DOMAIN strategies : Key(i) \in Agents
           /\ \A i \in Registered(strategies) : i \in StrategiesOf(strategies, Key(i))
           /\ \A a : \A i \in StrategiesOf(strategies, a) :
                 i \in Registered(strategies) /\ Key(i) = a /\ a \in Agents
<1>1. strategies \in Seq(Range(strategies))
  BY SystemAssumption
<1>2. Len(strategies) \in Nat /\ DOMAIN strategies = 1 .. Len(strategies)
  BY <1>1
<1>3. NoOne \notin DOMAIN strategies
  BY <1>2 DEF NoOne
<1>4. Registered(strategies) \subseteq DOMAIN strategies
  BY DEF Registered
<1>5. \A i \in DOMAIN strategies : Key(i) \in Agents
  BY DEF Key, Agents, AgentsOf
<1>6. \A i \in Registered(strategies) : i \in StrategiesOf(strategies, Key(i))
  BY DEF StrategiesOf, Key
<1>7. \A a : \A i \in StrategiesOf(strategies, a) :
         i \in Registered(strategies) /\ Key(i) = a /\ a \in Agents
  BY <1>4, <1>5 DEF StrategiesOf, Key
<1> QED
  BY <1>2, <1>3, <1>4, <1>5, <1>6, <1>7

LEMMA InitInv == Init => Inv
<1> SUFFICES ASSUME Init PROVE Inv
  OBVIOUS
<1>1. Types
  <2>1. IsSeq(<<>>)
    BY DEF IsSeq
  <2>2. <<>> \in Seq(DOMAIN strategies)
    OBVIOUS
  <2> QED
    BY <2>1, <2>2 DEF Init, ServerInit, Types
<1>2. Prepared
  BY DEF Init, Prepared
<1>3. Senders
  BY DEF Init, ServerInit, Senders
<1>4. Queues
  BY DEF Init, Queues, Once
<1> QED
  BY <1>1, <1>2, <1>3, <1>4 DEF Inv

\* What the list alone decides stays as it is.
LEMMA SameList ==
    ASSUME strategies' = strategies
    PROVE  /\ Agents' = Agents /\ MarketsOf' = MarketsOf
           /\ Registered(strategies)' = Registered(strategies)
           /\ \A i : Key(i)' = Key(i)
           /\ \A a : StrategiesOf(strategies, a)' = StrategiesOf(strategies, a)
BY DEF Agents, MarketsOf, Key

\* The parts of the invariant from what a step leaves unchanged.
LEMMA SendersSame ==
    ASSUME Senders, UNCHANGED <<strategies, place, inCh>>
    PROVE  Senders'
BY DEF Senders

LEMMA QueuesSame ==
    ASSUME Queues, UNCHANGED <<strategies, place, txDataCh>>
    PROVE  Queues'
BY SameList DEF Queues, Blocked, Once

\* What may come beside main: a later load, and the end in a panic.
Beside ==
    \/ \E markets, data \in SUBSET MarketsOf : Reloaded(markets, data)
    \/ \E i \in DOMAIN strategies : RoundPanics(i)

\* Before the strategies, and beside them: main, the loads and the start.
LEMMA MainKeeps ==
    ASSUME Inv, MainStep \/ Beside
    PROVE  Inv'
<1> USE DEF Inv
<1>1. CASE BinanceReady \/ WaitsForStreams
  <2>1. /\ UNCHANGED <<strategies, loading, held, quoted, agentAt, decimals, runVars>>
        /\ priced => priced'
        /\ main' \in {"streams", "starting", "serving", "dead"}
        /\ main' \in {"starting", "serving"} => priced' /\ ~loading
    BY <1>1 DEF BinanceReady, WaitsForStreams, Prepared, Types
  <2>2. Types'
    BY <2>1, SameList DEF Types, runVars, signerVars, serverVars
  <2>3. Prepared'
    BY <2>1, SameList DEF Types, Prepared, runVars, signerVars
  <2> QED
    BY <2>1, <2>2, <2>3, SendersSame, QueuesSame DEF runVars, signerVars, serverVars
<1>2. CASE Beside \/ \E markets, data \in SUBSET MarketsOf : VegaLoaded(markets, data)
  <2>1. /\ UNCHANGED <<strategies, priced, agentAt, decimals, runVars>>
        /\ main' = main \/ main' = "dead"
        /\ ~loading => ~loading'
        /\ held \subseteq held' /\ held' \subseteq MarketsOf
        /\ quoted' \subseteq MarketsOf
    BY <1>2 DEF Beside, Reloaded, RoundPanics, VegaLoaded, Types
  <2>2. Types'
    BY <2>1, SameList DEF Types, runVars, signerVars, serverVars
  <2>3. Prepared'
    BY <2>1, SameList DEF Types, Prepared, runVars, signerVars
  <2> QED
    BY <2>1, <2>2, <2>3, SendersSame, QueuesSame DEF runVars, signerVars, serverVars
<1>3. CASE ServesMetrics
  <2>1. /\ UNCHANGED <<strategies, priced, loading, held, quoted, agentAt, decimals, place, signerVars, inCh>>
        /\ main = "starting" /\ main' = "serving"
    BY <1>3 DEF ServesMetrics
  <2>2. Types'
    BY <2>1, SameList DEF Types, signerVars
  <2>3. Prepared'
    BY <2>1, SameList DEF Types, Prepared, signerVars
  <2> QED
    BY <2>1, <2>2, <2>3, SendersSame, QueuesSame DEF signerVars
<1>4. ASSUME NEW a \in Agents, StartsSigner(a)
      PROVE  Inv'
  <2>1. /\ UNCHANGED <<strategies, main, priced, loading, held, quoted, decimals, place, txDataCh, inCh>>
        /\ main = "starting" /\ agentAt[a] = "new"
        /\ agentAt' = [agentAt EXCEPT ![a] = "signing"]
        /\ signer' = [signer EXCEPT ![a].at = "idle"]
    BY <1>4 DEF StartsSigner, At, StartIs, serverVars
  <2>2. Types'
    BY <2>1, SameList DEF Types
  <2>3. /\ agentAt'[a] = "signing" /\ signer'[a].at = "idle"
        /\ \A b \in Agents : b # a => agentAt'[b] = agentAt[b] /\ signer'[b] = signer[b]
    BY <2>1 DEF Types
  <2>4. Prepared'
    <3>1. \A i \in DOMAIN strategies : place[i] # "off" => agentAt'[Key(i)] = "running"
      BY <2>1, <2>3, ListFacts DEF Types, Prepared
    <3> QED
      BY <2>1, <2>3, <3>1, SameList DEF Prepared
  <2> QED
    BY <2>1, <2>2, <2>4, SendersSame, QueuesSame
<1>5. ASSUME NEW a \in Agents, LoadsVegaDecimals(a)
      PROVE  Inv'
  <2>1. /\ UNCHANGED <<strategies, priced, loading, held, quoted, runVars>>
        /\ main = "starting" /\ agentAt[a] = "signing"
    BY <1>5 DEF LoadsVegaDecimals, At
  <2>2. CASE \A i \in StrategiesOf(strategies, a) : strategies[i].market \in held
    <3>1. /\ agentAt' = [agentAt EXCEPT ![a] = "priced"]
          /\ decimals' = decimals \cup StrategiesOf(strategies, a)
          /\ main' = main
      BY <1>5, <2>2 DEF LoadsVegaDecimals, StartIs
    <3>2. Types'
      BY <2>1, <3>1, SameList DEF Types, runVars, signerVars, serverVars
    <3>3. /\ agentAt'[a] = "priced"
          /\ \A b \in Agents : b # a => agentAt'[b] = agentAt[b]
      BY <3>1 DEF Types
    <3>4. /\ \A i \in DOMAIN strategies : place[i] # "off" => agentAt'[Key(i)] = "running"
          /\ \A b \in Agents : agentAt'[b] # "new" => agentAt[b] # "new"
      BY <2>1, <3>3, ListFacts DEF Types, Prepared
    <3>5. \A b \in Agents : agentAt'[b] \in {"priced", "running"} =>
             \A i \in StrategiesOf(strategies, b) :
                i \in decimals' /\ strategies[i].market \in held
      BY <2>2, <3>1, <3>3 DEF Prepared
    <3>6. Prepared'
      BY <2>1, <3>1, <3>4, <3>5, SameList DEF Prepared, runVars, signerVars
    <3> QED
      BY <2>1, <3>2, <3>6, SendersSame, QueuesSame DEF runVars, signerVars, serverVars
  <2>3. CASE ~ \A i \in StrategiesOf(strategies, a) : strategies[i].market \in held
    <3>1. main' = "dead" /\ UNCHANGED <<agentAt, decimals>>
      BY <1>5, <2>3 DEF LoadsVegaDecimals
    <3>2. Types'
      BY <2>1, <3>1, SameList DEF Types, runVars, signerVars, serverVars
    <3>3. Prepared'
      BY <2>1, <3>1, SameList DEF Prepared, runVars, signerVars
    <3> QED
      BY <2>1, <3>2, <3>3, SendersSame, QueuesSame DEF runVars, signerVars, serverVars
  <2> QED
    BY <2>2, <2>3
<1>6. ASSUME NEW a \in Agents, RunsStrategies(a)
      PROVE  Inv'
  <2>1. /\ UNCHANGED <<strategies, main, priced, loading, held, quoted, decimals, signerVars, inCh>>
        /\ agentAt[a] = "priced"
        /\ agentAt' = [agentAt EXCEPT ![a] = "running"]
        /\ place' = [i \in DOMAIN strategies |->
                        IF i \in StrategiesOf(strategies, a) THEN "idle" ELSE place[i]]
    BY <1>6 DEF RunsStrategies, At, StartIs, serverVars
  <2>2. Types'
    BY <2>1, SameList DEF Types, signerVars
  <2>3. /\ agentAt'[a] = "running"
        /\ \A b \in Agents : b # a => agentAt'[b] = agentAt[b]
    BY <2>1 DEF Types
  <2>4. \A i \in StrategiesOf(strategies, a) : place[i] = "off"
    BY <2>1, ListFacts DEF Types, Prepared
  <2>5. Prepared'
    <3>1. \A i \in DOMAIN strategies : place'[i] # "off" =>
             i \in Registered(strategies) /\ agentAt'[Key(i)] = "running"
      BY <2>1, <2>3, ListFacts DEF Types, Prepared
    <3>2. \A b \in Agents : agentAt'[b] \in {"priced", "running"} =>
             agentAt[b] \in {"priced", "running"}
      BY <2>1, <2>3
    <3>3. \A b \in Agents : agentAt'[b] # "new" => agentAt[b] # "new"
      BY <2>1, <2>3
    <3> QED
      BY <2>1, <3>1, <3>2, <3>3, SameList DEF Prepared, signerVars
  <2>6. Senders'
    <3>1. \A i \in DOMAIN strategies : place[i] = "reporting" => place'[i] = "reporting"
      BY <2>1, <2>4
    <3> QED
      BY <2>1, <3>1 DEF Senders
  <2>7. Queues'
    <3>1. \A i \in DOMAIN strategies :
             place'[i] \in {"reporting", "handing"} => place[i] \in {"reporting", "handing"}
      BY <2>1
    <3> QED
      BY <2>1, <3>1, SameList DEF Queues, Blocked, Once, signerVars
  <2> QED
    BY <2>2, <2>5, <2>6, <2>7
<1> QED
  BY <1>1, <1>2, <1>3, <1>4, <1>5, <1>6 DEF MainStep

-----------------------------------------------------------------------------
(* The steps of the running system.                                        *)

LEMMA OnceAppend ==
    ASSUME NEW S, NEW q \in Seq(S), NEW e \in S, NEW c \in Nat, Once(q, c),
           \A n \in DOMAIN q : n > c => q[n] # e
    PROVE  /\ Append(q, e) \in Seq(S) /\ Once(Append(q, e), c)
           /\ DOMAIN Append(q, e) = DOMAIN q \cup {Len(q) + 1}
           /\ \A n \in DOMAIN q : Append(q, e)[n] = q[n]
           /\ Append(q, e)[Len(q) + 1] = e
<1>1. /\ Append(q, e) \in Seq(S) /\ Len(q) \in Nat
      /\ DOMAIN Append(q, e) = 1 .. Len(q) + 1 /\ DOMAIN q = 1 .. Len(q)
      /\ \A n \in 1 .. Len(q) : Append(q, e)[n] = q[n]
      /\ Append(q, e)[Len(q) + 1] = e
  OBVIOUS
<1>2. DOMAIN Append(q, e) = DOMAIN q \cup {Len(q) + 1}
  BY <1>1
<1> QED
  BY <1>1, <1>2 DEF Once

LEMMA OnceTail ==
    ASSUME NEW S, NEW q \in Seq(S), q # <<>>, NEW c \in Nat, Once(q, c)
    PROVE  /\ Tail(q) \in Seq(S) /\ Once(Tail(q), c)
           /\ \A n \in DOMAIN Tail(q) : n + 1 \in DOMAIN q /\ n \in Nat /\ Tail(q)[n] = q[n + 1]
           /\ Head(q) \in S
<1>1. /\ Tail(q) \in Seq(S) /\ Len(q) \in Nat \ {0}
      /\ DOMAIN Tail(q) = 1 .. Len(q) - 1 /\ DOMAIN q = 1 .. Len(q)
      /\ \A n \in 1 .. Len(q) - 1 : Tail(q)[n] = q[n + 1]
      /\ Head(q) \in S
  OBVIOUS
<1> QED
  BY <1>1 DEF Once

\* Steps that leave what Prepared is about.
LEMMA PreparedSame ==
    ASSUME Prepared, UNCHANGED <<strategies, startVars>>,
           \A a \in Agents : signer[a].at # "off" => signer'[a].at # "off",
           \A i \in DOMAIN strategies : place[i] = "off" => place'[i] = "off"
    PROVE  Prepared'
BY SameList DEF Prepared, startVars

\* A strategy hands over only what keeps its own share of the channel.
LEMMA HandsKeeps ==
    ASSUME Inv, NEW i \in DOMAIN strategies, Hands(i)
    PROVE  Inv'
<1> USE DEF Inv
<1> DEFINE a == Key(i)
<1>1. /\ UNCHANGED <<strategies, startVars, signer, inCh>>
      /\ place[i] = "handing" /\ place' = [place EXCEPT ![i] = "idle"]
      /\ txDataCh' = [txDataCh EXCEPT ![a] = Append(@, i)]
  BY DEF Hands, Put, serverVars
<1>2. /\ a \in Agents /\ i \in StrategiesOf(strategies, a)
      /\ txDataCh[a] \in Seq(DOMAIN strategies)
      /\ \A n \in DOMAIN txDataCh[a] : n > QueueCap => txDataCh[a][n] # i
  BY <1>1, ListFacts DEF Types, Prepared, Queues, Blocked
<1>3. /\ Append(txDataCh[a], i) \in Seq(DOMAIN strategies)
      /\ Once(Append(txDataCh[a], i), QueueCap)
      /\ DOMAIN Append(txDataCh[a], i) = DOMAIN txDataCh[a] \cup {Len(txDataCh[a]) + 1}
      /\ \A n \in DOMAIN txDataCh[a] : Append(txDataCh[a], i)[n] = txDataCh[a][n]
      /\ Append(txDataCh[a], i)[Len(txDataCh[a]) + 1] = i
  BY <1>2, OnceAppend, SystemAssumption DEF Queues
<1>4. /\ txDataCh'[a] = Append(txDataCh[a], i)
      /\ \A b \in Agents : b # a => txDataCh'[b] = txDataCh[b]
      /\ place'[i] = "idle"
      /\ \A j \in DOMAIN strategies : j # i => place'[j] = place[j]
  BY <1>1, <1>2 DEF Types
<1>5. Types'
  BY <1>1, <1>2, <1>3, SameList DEF Types, startVars
<1>6. Prepared'
  BY <1>1, <1>4, PreparedSame
<1>7. Senders'
  BY <1>1, <1>4 DEF Senders
<1>8. Queues'
  <2>1. \A b \in Agents : \A n \in DOMAIN txDataCh'[b] :
           txDataCh'[b][n] \in StrategiesOf(strategies, b)
    BY <1>2, <1>3, <1>4 DEF Queues
  <2>2. \A b \in Agents : Once(txDataCh'[b], QueueCap)
    BY <1>3, <1>4 DEF Queues
  <2>3. ASSUME NEW j \in DOMAIN strategies, place'[j] \in {"reporting", "handing"}
        PROVE  ~Blocked(j)'
    <3>1. j # i /\ place[j] = place'[j] /\ Key(j) \in Agents
      BY <1>4, <2>3, ListFacts DEF Types
    <3>2. \A n \in DOMAIN txDataCh[Key(j)] : ~(n > QueueCap /\ txDataCh[Key(j)][n] = j)
      BY <2>3, <3>1 DEF Queues, Blocked
    <3>3. \A n \in DOMAIN txDataCh'[Key(j)] : ~(n > QueueCap /\ txDataCh'[Key(j)][n] = j)
      BY <1>3, <1>4, <3>1, <3>2
    <3> QED
      BY <1>1, <3>3, SameList DEF Blocked
  <2> QED
    BY <1>1, <2>1, <2>2, <2>3, SameList DEF Queues, Once
<1> QED
  BY <1>5, <1>6, <1>7, <1>8

\* A strategy joins the metrics channel once, and only while its signer's
\* channel does not hold it back.
LEMMA ReportsKeeps ==
    ASSUME Inv, NEW i \in DOMAIN strategies, Reports(i)
    PROVE  Inv'
<1> USE DEF Inv
<1> DEFINE event == StrategyEvent(strategies[i].ticker, Key(i), i)
           sender == [from |-> i, event |-> event]
<1>1. /\ UNCHANGED <<strategies, startVars, signerVars>>
      /\ place[i] = "idle" /\ ~Blocked(i) /\ strategies[i].market \in quoted
      /\ place' = [place EXCEPT ![i] = "reporting"]
      /\ inCh' = Append(inCh, sender)
  BY DEF Reports, BeginsRound, Send
<1>2. /\ place'[i] = "reporting"
      /\ \A j \in DOMAIN strategies : j # i => place'[j] = place[j]
  BY <1>1 DEF Types
<1>3. /\ IsSeq(inCh') /\ Len(inCh) \in Nat /\ DOMAIN inCh = 1 .. Len(inCh)
      /\ DOMAIN inCh' = 1 .. Len(inCh) + 1
      /\ \A n \in 1 .. Len(inCh) : inCh'[n] = inCh[n]
      /\ inCh'[Len(inCh) + 1] = sender
  BY <1>1, AppendSeq DEF Types
<1>4. Types'
  BY <1>1, <1>3, SameList DEF Types, startVars, signerVars
<1>5. Prepared'
  BY <1>1, <1>2, PreparedSame DEF signerVars
<1>6. Senders'
  <2>1. \A n \in DOMAIN inCh : inCh[n].from # i
    BY <1>1, ListFacts DEF Senders, Types
  <2>2. sender.from = i
    OBVIOUS
  <2> QED
    BY <1>1, <1>2, <1>3, <2>1, <2>2 DEF Senders
<1>7. Queues'
  BY <1>1, <1>2, SameList DEF Queues, Blocked, Once, signerVars
<1> QED
  BY <1>4, <1>5, <1>6, <1>7

\* What a signer takes moves the places behind it one forward.
LEMMA TakesInputKeeps ==
    ASSUME Inv, NEW a \in Agents, TakesInput(a)
    PROVE  Inv'
<1> USE DEF Inv
<1>1. /\ UNCHANGED <<strategies, startVars, place, inCh>>
      /\ signer[a].at = "idle" /\ txDataCh[a] # <<>>
      /\ signer' = [signer EXCEPT ![a] = [at |-> "signing", for |-> Head(txDataCh[a])]]
      /\ txDataCh' = [txDataCh EXCEPT ![a] = Tail(@)]
  BY DEF TakesInput, Take, serverVars
<1>2. /\ txDataCh[a] \in Seq(DOMAIN strategies) /\ QueueCap \in Nat
      /\ Once(txDataCh[a], QueueCap)
  BY SystemAssumption DEF Types, Queues
<1>3. /\ Tail(txDataCh[a]) \in Seq(DOMAIN strategies)
      /\ Once(Tail(txDataCh[a]), QueueCap)
      /\ \A n \in DOMAIN Tail(txDataCh[a]) :
            n + 1 \in DOMAIN txDataCh[a] /\ n \in Nat /\ Tail(txDataCh[a])[n] = txDataCh[a][n + 1]
      /\ Head(txDataCh[a]) \in DOMAIN strategies
  BY <1>1, <1>2, OnceTail
<1>4. /\ txDataCh'[a] = Tail(txDataCh[a]) /\ signer'[a].at = "signing"
      /\ \A b \in Agents : b # a => txDataCh'[b] = txDataCh[b] /\ signer'[b] = signer[b]
  BY <1>1 DEF Types
<1>5. Types'
  BY <1>1, <1>3, SameList DEF Types, startVars
<1>6. Prepared'
  BY <1>1, <1>4, PreparedSame
<1>7. Senders'
  BY <1>1, SendersSame
<1>8. Queues'
  <2>1. \A b \in Agents : \A n \in DOMAIN txDataCh'[b] :
           txDataCh'[b][n] \in StrategiesOf(strategies, b)
    BY <1>3, <1>4 DEF Queues
  <2>2. \A b \in Agents : Once(txDataCh'[b], QueueCap)
    BY <1>3, <1>4 DEF Queues
  <2>3. ASSUME NEW j \in DOMAIN strategies, place'[j] \in {"reporting", "handing"}
        PROVE  ~Blocked(j)'
    <3>1. \A n \in DOMAIN txDataCh[Key(j)] : ~(n > QueueCap /\ txDataCh[Key(j)][n] = j)
      BY <1>1, <2>3 DEF Queues, Blocked
    <3>2. \A n \in DOMAIN txDataCh'[Key(j)] : ~(n > QueueCap /\ txDataCh'[Key(j)][n] = j)
      <4>1. CASE Key(j) = a
        <5>1. ASSUME NEW n \in DOMAIN Tail(txDataCh[a]), n > QueueCap
              PROVE  Tail(txDataCh[a])[n] # j
          <6>1. n + 1 \in DOMAIN txDataCh[a] /\ n + 1 > QueueCap
            BY <1>2, <1>3, <5>1
          <6> QED
            BY <1>3, <3>1, <4>1, <6>1
        <5> QED
          BY <1>4, <4>1, <5>1
      <4>2. CASE Key(j) # a
        BY <1>4, <3>1, <4>2, ListFacts DEF Types
      <4> QED
        BY <4>1, <4>2
    <3> QED
      BY <1>1, <3>2, SameList DEF Blocked
  <2> QED
    BY <1>1, <2>1, <2>2, <2>3, SameList DEF Queues, Once
<1> QED
  BY <1>5, <1>6, <1>7, <1>8

\* The signer's other steps, and the connection's.
LEMMA SigningKeeps ==
    ASSUME Inv,
           \/ Outage \/ Reconnects
           \/ \E a \in Agents : Signs(a) \/ Drops(a) \/ \E after \in {"up", "down"} : Submits(a, after)
    PROVE  Inv'
<1> USE DEF Inv
<1>1. /\ UNCHANGED <<strategies, startVars, place, txDataCh, inCh>>
      /\ \/ signer' = signer
         \/ \E a \in Agents : /\ signer[a].at # "off"
                             /\ \/ signer' = [signer EXCEPT ![a].at = "sending"]
                                \/ signer' = [signer EXCEPT ![a] = [at |-> "idle", for |-> NoInput]]
  BY DEF Outage, Reconnects, Signs, Drops, Submits, Sign, Drop, Pass, Idle, serverVars
<1> DEFINE Fits == /\ signer' \in [Agents -> [at : {"off", "idle", "signing", "sending"},
                                             for : DOMAIN strategies \cup {NoInput}]]
                   /\ \A a \in Agents : signer[a].at # "off" => signer'[a].at # "off"
<1>2. Fits
  <2>1. CASE signer' = signer
    BY <2>1 DEF Types
  <2>2. ASSUME NEW a \in Agents, signer' = [signer EXCEPT ![a].at = "sending"]
        PROVE  Fits
    BY <2>2 DEF Types
  <2>3. ASSUME NEW a \in Agents,
               signer' = [signer EXCEPT ![a] = [at |-> "idle", for |-> NoInput]]
        PROVE  Fits
    BY <2>3 DEF Types
  <2> QED
    BY <1>1, <2>1, <2>2, <2>3
<1>3. Types'
  BY <1>1, <1>2, SameList DEF Types, startVars
<1> QED
  BY <1>1, <1>2, <1>3, PreparedSame, SendersSame, QueuesSame

\* The metrics loop, and the server: a strategy goes on when its event is
\* taken.
LEMMA MetricsKeeps ==
    ASSUME Inv, Ticks \/ LoopSends \/ ServerReceives \/ ServerHandles
    PROVE  Inv'
<1> USE DEF Inv
<1>1. CASE Ticks \/ LoopSends
  <2>1. /\ UNCHANGED <<strategies, startVars, place, signerVars>>
        /\ \E e : inCh' = Append(inCh, e) /\ e.from = NoOne
        /\ \A n \in DOMAIN inCh : inCh[n].from # NoOne
    BY <1>1 DEF Ticks, LoopSends, Send
  <2>2. PICK e : inCh' = Append(inCh, e) /\ e.from = NoOne
    BY <2>1
  <2>3. /\ IsSeq(inCh') /\ Len(inCh) \in Nat /\ DOMAIN inCh = 1 .. Len(inCh)
        /\ DOMAIN inCh' = 1 .. Len(inCh) + 1
        /\ \A n \in 1 .. Len(inCh) : inCh'[n] = inCh[n]
        /\ inCh'[Len(inCh) + 1] = e
    BY <2>2, AppendSeq DEF Types
  <2>4. Types'
    BY <2>1, <2>3, SameList DEF Types, startVars, signerVars
  <2>5. Prepared'
    BY <2>1, PreparedSame DEF signerVars
  <2>6. Senders'
    BY <2>1, <2>2, <2>3 DEF Senders
  <2> QED
    BY <2>1, <2>4, <2>5, <2>6, QueuesSame DEF signerVars
<1>2. CASE ServerReceives
  <2> DEFINE from == Head(inCh).from
  <2>1. /\ UNCHANGED <<strategies, startVars, signerVars>>
        /\ inCh # <<>> /\ inCh' = Tail(inCh)
        /\ place' = [i \in DOMAIN strategies |-> IF i = from THEN "handing" ELSE place[i]]
    BY <1>2 DEF ServerReceives, Receive
  <2>2. /\ IsSeq(inCh') /\ Len(inCh) \in Nat \ {0} /\ DOMAIN inCh = 1 .. Len(inCh)
        /\ DOMAIN inCh' = 1 .. Len(inCh) - 1
        /\ \A n \in 1 .. Len(inCh) - 1 : inCh'[n] = inCh[n + 1]
        /\ from = inCh[1].from
    BY <2>1, TailSeq DEF Types
  <2>3. Types'
    BY <2>1, <2>2, SameList DEF Types, startVars, signerVars
  <2>4. \A i \in DOMAIN strategies : i = from => place[i] = "reporting"
    <3>1. 1 \in DOMAIN inCh /\ NoOne \notin DOMAIN strategies
      BY <2>2, ListFacts DEF Types
    <3> HIDE DEF from
    <3> QED
      BY <2>2, <3>1 DEF Senders
  <2>5. Prepared'
    BY <2>1, <2>4, PreparedSame DEF signerVars
  <2>6. Senders'
    <3>1. \A n \in DOMAIN inCh' :
             /\ n \in Nat /\ n + 1 \in DOMAIN inCh /\ inCh'[n] = inCh[n + 1]
             /\ inCh'[n].from # NoOne => inCh'[n].from # from
      BY <2>2 DEF Senders
    <3>2. \A n \in DOMAIN inCh' : inCh'[n].from # NoOne =>
             inCh'[n].from \in DOMAIN strategies /\ place'[inCh'[n].from] = "reporting"
      BY <2>1, <3>1 DEF Senders
    <3>3. \A n, m \in DOMAIN inCh' :
             inCh'[n].from # NoOne /\ inCh'[n].from = inCh'[m].from => n = m
      <4>1. \A n, m \in DOMAIN inCh' :
               inCh'[n].from # NoOne /\ inCh'[n].from = inCh'[m].from => n + 1 = m + 1
        BY <3>1 DEF Senders
      <4> QED
        BY <3>1, <4>1
    <3> QED
      BY <2>1, <3>2, <3>3 DEF Senders
  <2>7. Queues'
    <3>1. \A i \in DOMAIN strategies :
             place'[i] \in {"reporting", "handing"} => place[i] \in {"reporting", "handing"}
      BY <2>1, <2>4
    <3> QED
      BY <2>1, <3>1, SameList DEF Queues, Blocked, Once, signerVars
  <2> QED
    BY <2>3, <2>5, <2>6, <2>7
<1>3. CASE ServerHandles
  <2>1. UNCHANGED <<strategies, startVars, place, signerVars, inCh>>
    BY <1>3 DEF ServerHandles, HandleEvent
  <2>2. Types'
    BY <2>1, SameList DEF Types, startVars, signerVars
  <2>3. Prepared'
    BY <2>1, PreparedSame DEF signerVars
  <2> QED
    BY <2>1, <2>2, <2>3, SendersSame, QueuesSame DEF signerVars
<1> QED
  BY <1>1, <1>2, <1>3

LEMMA InvKept == Spec => []Inv
<1>1. Inv /\ [Next]_vars => Inv'
  <2> SUFFICES ASSUME Inv, [Next]_vars PROVE Inv'
    OBVIOUS
  <2>1. CASE UNCHANGED vars
    <3>1. UNCHANGED <<strategies, startVars, place, signerVars, inCh>>
      BY <2>1 DEF vars, runVars, serverVars
    <3>2. Types'
      BY <3>1, SameList DEF Inv, Types, startVars, signerVars
    <3>3. Prepared'
      BY <3>1, PreparedSame DEF Inv, signerVars
    <3> QED
      BY <3>1, <3>2, <3>3, SendersSame, QueuesSame DEF Inv, signerVars
  <2>2. CASE MainStep \/ Beside
    BY <2>2, MainKeeps
  <2>3. CASE \E i \in DOMAIN strategies : Hands(i) \/ Reports(i)
    BY <2>3, HandsKeeps, ReportsKeeps
  <2>4. CASE \E a \in Agents : SignerStep(a)
    BY <2>4, TakesInputKeeps, SigningKeeps DEF SignerStep
  <2>5. CASE Outage \/ Reconnects
    BY <2>5, SigningKeeps
  <2>6. CASE Ticks \/ LoopSends \/ ServerReceives \/ ServerHandles
    BY <2>6, MetricsKeeps
  <2> QED
    BY <2>1, <2>2, <2>3, <2>4, <2>5, <2>6 DEF Next, Beside
<1> QED
  BY <1>1, InitInv, PTL DEF Spec

-----------------------------------------------------------------------------
(* The metrics channel: who stands in it, and with what.                   *)

Own(i) == StrategyEvent(strategies[i].ticker, Key(i), i)
OfAgent(a) == AgentEvent(a, AgentBalance(a))
OfEngine == EngineEvent(TotalBalance)
LoopEvents == {OfAgent(a) : a \in Agents} \cup {OfEngine}

Flags == priced \in BOOLEAN /\ loading \in BOOLEAN /\ serving \in BOOLEAN
             /\ core \in {"up", "down"} /\ decimals \subseteq Registered(strategies)

\* A strategy that reports stands in the channel with its own event, the
\* metrics loop at most once.
Channel ==
    /\ \A i \in DOMAIN strategies : place[i] = "reporting" =>
          \E n \in DOMAIN inCh : inCh[n].from = i
    /\ \A n \in DOMAIN inCh : IF inCh[n].from = NoOne THEN inCh[n].event \in LoopEvents
                                                     ELSE inCh[n].event = Own(inCh[n].from)
    /\ \A n, m \in DOMAIN inCh : inCh[n].from = NoOne /\ inCh[m].from = NoOne => n = m

\* What is handled, and what the metrics loop has still to send.
Handling ==
    /\ toReport \in Seq(LoopEvents)
    /\ handling = <<>> \/ \E e \in LoopEvents \cup {Own(i) : i \in Registered(strategies)} :
                             handling = <<e>>

Alone(i) == \A j \in Registered(strategies) \ {i} : OwnLabel(j) # OwnLabel(i)

\* A strategy whose event was taken has it handled, or its gauges are set.
Gauged ==
    \A i \in DOMAIN strategies : place[i] = "handing" /\ Alone(i) =>
        \/ handling = <<Own(i)>>
        \/ OwnLabel(i) \in DOMAIN liveOrders /\ liveOrders[OwnLabel(i)] = i

\* From the first tick on, an agent's balances are shown or on their way.
Pending(e) ==
    \/ handling = <<e>>
    \/ \E n \in DOMAIN inCh : inCh[n].from = NoOne /\ inCh[n].event = e
    \/ \E n \in DOMAIN toReport : toReport[n] = e
Shown(a) == <<a>> \in DOMAIN agentGauge /\ agentGauge[<<a>>] = AgentBalance(a)
Unticked == totalGauge = <<>> /\ ~Pending(OfEngine)

Balanced ==
    /\ \A a \in Agents : Shown(a) \/ Pending(OfAgent(a)) \/ Unticked
    /\ totalGauge = <<>> \/ totalGauge = [l \in {<<>>} |-> TotalBalance]

Metrics == Flags /\ Channel /\ Handling /\ Gauged /\ Balanced

LEMMA SameEvents ==
    ASSUME strategies' = strategies
    PROVE  /\ \A i : Own(i)' = Own(i) /\ OwnLabel(i)' = OwnLabel(i)
           /\ \A a : AgentBalance(a)' = AgentBalance(a) /\ OfAgent(a)' = OfAgent(a)
           /\ Agents' = Agents /\ TotalBalance' = TotalBalance
           /\ OfEngine' = OfEngine /\ LoopEvents' = LoopEvents
<1>1. /\ \A i : Own(i)' = Own(i) /\ OwnLabel(i)' = OwnLabel(i)
      /\ \A a : AgentBalance(a)' = AgentBalance(a)
      /\ Agents' = Agents
  BY SameList DEF Own, OwnLabel, AgentBalance, Entries, Key
<1>2. /\ \A a : OfAgent(a)' = OfAgent(a)
      /\ TotalBalance' = TotalBalance
  BY <1>1 DEF OfAgent, TotalBalance
<1> QED
  BY <1>1, <1>2 DEF OfEngine, LoopEvents

LEMMA SameAlone ==
    ASSUME strategies' = strategies
    PROVE  \A i : Alone(i)' <=> Alone(i)
BY SameList, SameEvents DEF Alone

\* The events are told apart by what they are about.
LEMMA EventsApart ==
    ASSUME NEW i, NEW a, NEW b
    PROVE  /\ Own(i) # OfAgent(a) /\ Own(i) # OfEngine /\ OfAgent(a) # OfEngine
           /\ a # b => OfAgent(a) # OfAgent(b)
           /\ Own(i).labels = OwnLabel(i) /\ Own(i).value = i /\ Own(i).type = "strategy"
           /\ OfAgent(a).type = "agent" /\ OfAgent(a).labels = <<a>>
           /\ OfAgent(a).value = AgentBalance(a)
           /\ OfEngine.type = "engine" /\ OfEngine.labels = <<>>
           /\ OfEngine.value = TotalBalance
BY DEF Own, OfAgent, OfEngine, StrategyEvent, AgentEvent, EngineEvent, OwnLabel

LEMMA InitMetrics == Init => Metrics
<1> SUFFICES ASSUME Init PROVE Metrics
  OBVIOUS
<1>1. Flags
  BY DEF Init, ServerInit, Flags
<1>2. Channel
  BY DEF Init, ServerInit, Channel
<1>3. Handling
  BY DEF Init, ServerInit, Handling
<1>4. Gauged
  BY DEF Init, Gauged
<1>5. Balanced
  BY DEF Init, ServerInit, Balanced, Unticked, Pending
<1> QED
  BY <1>1, <1>2, <1>3, <1>4, <1>5 DEF Metrics

\* Steps that neither join the channel nor are the server's.
LEMMA MetricsSame ==
    ASSUME Metrics, Flags',
           UNCHANGED <<strategies, toReport, inCh, handling, gauges>>,
           \A i \in DOMAIN strategies : place'[i] = "reporting" => place[i] = "reporting",
           \A i \in DOMAIN strategies : place'[i] = "handing" => place[i] = "handing"
    PROVE  Metrics'
<1> USE DEF Metrics, gauges
<1>1. Channel'
  BY SameEvents DEF Channel
<1>2. Handling'
  BY SameEvents, SameList DEF Handling
<1>3. Gauged'
  BY SameEvents, SameAlone DEF Gauged
<1>4. Balanced'
  <2>1. \A e : Pending(e)' <=> Pending(e)
    BY DEF Pending
  <2>2. Unticked' <=> Unticked
    BY <2>1, SameEvents DEF Unticked
  <2>3. \A a : Shown(a)' <=> Shown(a)
    BY SameEvents DEF Shown
  <2> QED
    BY <2>1, <2>2, <2>3, SameEvents DEF Balanced
<1> QED
  BY <1>1, <1>2, <1>3, <1>4

\* A strategy joins the channel with its own event.
LEMMA ReportsMetrics ==
    ASSUME Inv, Metrics, NEW i \in DOMAIN strategies, Reports(i)
    PROVE  Metrics'
<1> USE DEF Metrics
<1> DEFINE sender == [from |-> i, event |-> Own(i)]
<1>1. /\ UNCHANGED <<strategies, startVars, signerVars, toReport, serving, handling, gauges>>
      /\ place[i] = "idle"
      /\ place' = [place EXCEPT ![i] = "reporting"]
      /\ inCh' = Append(inCh, sender)
  BY DEF Reports, BeginsRound, Send, Own
<1>2. /\ place'[i] = "reporting"
      /\ \A j \in DOMAIN strategies : j # i => place'[j] = place[j]
  BY <1>1 DEF Inv, Types
<1>3. /\ Len(inCh) \in Nat /\ DOMAIN inCh = 1 .. Len(inCh)
      /\ DOMAIN inCh' = 1 .. Len(inCh) + 1
      /\ \A n \in 1 .. Len(inCh) : inCh'[n] = inCh[n]
      /\ inCh'[Len(inCh) + 1] = sender
  BY <1>1, AppendSeq DEF Inv, Types
<1>4. /\ sender.from = i /\ sender.event = Own(i) /\ i # NoOne
      /\ \A n \in DOMAIN inCh' : n \in DOMAIN inCh \/ n = Len(inCh) + 1
  BY <1>3, ListFacts DEF Inv, Types
<1> HIDE DEF sender
<1>5. Flags'
  BY <1>1, SameList DEF Flags, startVars, signerVars
<1>6. Channel'
  <2>1. \A j \in DOMAIN strategies : place'[j] = "reporting" =>
           \E n \in DOMAIN inCh' : inCh'[n].from = j
    BY <1>2, <1>3, <1>4 DEF Channel
  <2>2. \A n \in DOMAIN inCh' : IF inCh'[n].from = NoOne THEN inCh'[n].event \in LoopEvents
                                  ELSE inCh'[n].event = Own(inCh'[n].from)
    BY <1>3, <1>4 DEF Channel
  <2>3. \A n, m \in DOMAIN inCh' : inCh'[n].from = NoOne /\ inCh'[m].from = NoOne => n = m
    BY <1>3, <1>4 DEF Channel
  <2> QED
    BY <1>1, <2>1, <2>2, <2>3, SameEvents DEF Channel
<1>7. Handling'
  BY <1>1, SameEvents, SameList DEF Handling
<1>8. Gauged'
  <2>1. \A j \in DOMAIN strategies : place'[j] = "handing" => place[j] = "handing"
    BY <1>2
  <2> QED
    BY <1>1, <2>1, SameEvents, SameAlone DEF Gauged, gauges
<1>9. Balanced'
  <2>1. \A e : Pending(e)' <=> Pending(e)
    BY <1>1, <1>3, <1>4 DEF Pending
  <2>2. Unticked' <=> Unticked
    BY <1>1, <2>1, SameEvents DEF Unticked, gauges
  <2>3. \A a : Shown(a)' <=> Shown(a)
    BY <1>1, SameEvents DEF Shown, gauges
  <2> QED
    BY <1>1, <2>1, <2>2, <2>3, SameEvents DEF Balanced, gauges
<1> QED
  BY <1>5, <1>6, <1>7, <1>8, <1>9

LEMMA FiniteAgents ==
    ASSUME strategies \in Lists
    PROVE  IsFiniteSet(Agents) /\ \A a \in Agents : IsFiniteSet(StrategiesOf(strategies, a))
<1>1. IsFiniteSet(DOMAIN strategies)
  BY ListFacts, FS_Interval
<1>2. [i \in DOMAIN strategies |-> Key(i)] \in Surjection(DOMAIN strategies, Agents)
  BY DEF Surjection, Agents, AgentsOf, Key
<1>3. \A a \in Agents : StrategiesOf(strategies, a) \subseteq DOMAIN strategies
  BY ListFacts
<1> QED
  BY <1>1, <1>2, <1>3, FS_Surjection, FS_Subset

\* SetToSeq lists a finite set, every element once.
LEMMA SetToSeqOf ==
    ASSUME NEW S, IsFiniteSet(S)
    PROVE  /\ Cardinality(S) \in Nat
           /\ SetToSeq(S) \in [1 .. Cardinality(S) -> S]
           /\ IsInjective(SetToSeq(S))
           /\ \A e \in S : \E n \in 1 .. Cardinality(S) : SetToSeq(S)[n] = e
<1> DEFINE D == 1 .. Cardinality(S)
<1>1. Cardinality(S) \in Nat /\ ExistsBijection(D, S)
  BY FS_CardinalityType
<1>2. \E f \in [D -> S] : IsInjective(f)
  BY <1>1 DEF ExistsBijection, Bijection, Injection
<1>3. SetToSeq(S) \in [D -> S] /\ IsInjective(SetToSeq(S))
  BY <1>1, <1>2 DEF SetToSeq
<1>4. SetToSeq(S) \in Injection(D, S) /\ Cardinality(D) = Cardinality(S)
  BY <1>1, <1>3, FS_Interval DEF Injection
<1>5. SetToSeq(S) \in Surjection(D, S)
  BY <1>4, FS_Injection
<1> QED
  BY <1>1, <1>3, <1>5 DEF Surjection

\* What a tick computes: an event for each agent, then the engine's.
LEMMA TickEvents ==
    ASSUME Inv
    PROVE  LET agents == SetToSeq(Agents)
               events == [n \in DOMAIN agents |-> AgentEvent(agents[n], AgentBalance(agents[n]))]
                            \o <<EngineEvent(TotalBalance)>>
           IN  /\ events \in Seq(LoopEvents) /\ events # <<>>
               /\ \A a \in Agents : \E n \in DOMAIN events : events[n] = OfAgent(a)
<1> DEFINE agents == SetToSeq(Agents)
           first == [n \in DOMAIN agents |-> AgentEvent(agents[n], AgentBalance(agents[n]))]
           last == <<EngineEvent(TotalBalance)>>
<1>1. PICK c \in Nat : /\ agents \in [1 .. c -> Agents]
                       /\ \A a \in Agents : \E n \in 1 .. c : agents[n] = a
  BY FiniteAgents, SetToSeqOf DEF Inv, Types
<1>2. /\ first \in [1 .. c -> LoopEvents]
      /\ \A n \in 1 .. c : first[n] = OfAgent(agents[n])
  BY <1>1 DEF LoopEvents, OfAgent
<1>3. last \in Seq(LoopEvents) /\ Len(last) = 1
  BY DEF LoopEvents, OfEngine
<1> HIDE DEF agents, first, last
<1>4. first \in Seq(LoopEvents) /\ Len(first) = c
  BY <1>2
<1>5. /\ first \o last \in Seq(LoopEvents) /\ first \o last # <<>>
      /\ \A n \in 1 .. c : (first \o last)[n] = first[n] /\ n \in DOMAIN (first \o last)
  <2>1. /\ first \o last \in Seq(LoopEvents) /\ Len(first \o last) = c + 1
        /\ \A n \in 1 .. c + 1 : (first \o last)[n] = IF n <= c THEN first[n] ELSE last[n - c]
    <3>1. /\ first \o last \in Seq(LoopEvents) /\ Len(first \o last) = Len(first) + Len(last)
          /\ \A n \in 1 .. Len(first) + Len(last) :
                (first \o last)[n] = IF n <= Len(first) THEN first[n] ELSE last[n - Len(first)]
      BY <1>3, <1>4, ConcatProperties, Zenon
    <3> QED
      BY <1>3, <1>4, <3>1, Zenon
  <2>2. DOMAIN (first \o last) = 1 .. c + 1
    BY <2>1
  <2>3. first \o last # <<>>
    BY <2>1, <2>2
  <2> QED
    BY <2>1, <2>2, <2>3
<1>6. \A a \in Agents : \E n \in DOMAIN (first \o last) : (first \o last)[n] = OfAgent(a)
  BY <1>1, <1>2, <1>5
<1>7. /\ first = [n \in DOMAIN agents |-> AgentEvent(agents[n], AgentBalance(agents[n]))]
      /\ agents = SetToSeq(Agents) /\ last = <<EngineEvent(TotalBalance)>>
  BY DEF first, agents, last
<1> QED
  BY <1>5, <1>6, <1>7, Zenon

\* The metrics loop sends what comes first, and keeps the rest for later.
LEMMA LoopMetrics ==
    ASSUME Inv, Metrics, NEW events \in Seq(LoopEvents), events # <<>>,
           Send(NoOne, Head(events)), toReport' = Tail(events),
           \A n \in DOMAIN inCh : inCh[n].from # NoOne,
           UNCHANGED <<strategies, startVars, place, signerVars, serving, handling, gauges>>,
           \/ toReport = events
           \/ /\ toReport = <<>>
              /\ \A a \in Agents : \E n \in DOMAIN events : events[n] = OfAgent(a)
    PROVE  Metrics'
<1> USE DEF Metrics
<1> DEFINE sender == [from |-> NoOne, event |-> Head(events)]
<1>1. /\ Len(inCh) \in Nat /\ DOMAIN inCh = 1 .. Len(inCh)
      /\ DOMAIN inCh' = 1 .. Len(inCh) + 1
      /\ \A n \in 1 .. Len(inCh) : inCh'[n] = inCh[n]
      /\ inCh'[Len(inCh) + 1] = sender
  BY AppendSeq DEF Inv, Types, Send
<1>2. /\ Head(events) \in LoopEvents /\ Tail(events) \in Seq(LoopEvents)
      /\ Head(events) = events[1] /\ 1 \in DOMAIN events
      /\ \A n \in DOMAIN Tail(events) : Tail(events)[n] = events[n + 1] /\ n + 1 \in DOMAIN events
      /\ \A n \in DOMAIN events : n = 1 \/ (n - 1 \in DOMAIN Tail(events)
                                               /\ Tail(events)[n - 1] = events[n])
  <2>1. /\ Len(events) \in Nat \ {0} /\ DOMAIN events = 1 .. Len(events)
        /\ DOMAIN Tail(events) = 1 .. Len(events) - 1
        /\ \A n \in 1 .. Len(events) - 1 : Tail(events)[n] = events[n + 1]
        /\ Head(events) = events[1]
    OBVIOUS
  <2>2. Head(events) \in LoopEvents /\ Tail(events) \in Seq(LoopEvents)
    OBVIOUS
  <2>3. ASSUME NEW n \in DOMAIN events, n # 1
        PROVE  n - 1 \in DOMAIN Tail(events) /\ Tail(events)[n - 1] = events[n]
    <3>1. n - 1 \in 1 .. Len(events) - 1 /\ n - 1 + 1 = n
      BY <2>1, <2>3
    <3> QED
      BY <2>1, <3>1
  <2>4. 1 \in DOMAIN events
    BY <2>1
  <2>5. \A n \in DOMAIN Tail(events) : Tail(events)[n] = events[n + 1] /\ n + 1 \in DOMAIN events
    BY <2>1
  <2>6. \A n \in DOMAIN events : n = 1 \/ (n - 1 \in DOMAIN Tail(events)
                                               /\ Tail(events)[n - 1] = events[n])
    BY <2>3, Zenon
  <2> QED
    BY <2>1, <2>2, <2>4, <2>5, <2>6, Zenon
<1>3. /\ sender.from = NoOne /\ sender.event = Head(events)
      /\ Len(inCh) + 1 \in DOMAIN inCh'
      /\ \A n \in DOMAIN inCh' : n \in DOMAIN inCh \/ n = Len(inCh) + 1
  BY <1>1
<1> HIDE DEF sender
<1>4. Flags'
  BY SameList DEF Flags, startVars, signerVars
<1>5. Channel'
  <2>1. \A n \in DOMAIN inCh' : IF inCh'[n].from = NoOne THEN inCh'[n].event \in LoopEvents
                                  ELSE inCh'[n].event = Own(inCh'[n].from)
    BY <1>1, <1>2, <1>3 DEF Channel
  <2>2. \A n, m \in DOMAIN inCh' : inCh'[n].from = NoOne /\ inCh'[m].from = NoOne => n = m
    BY <1>1, <1>3
  <2>3. \A j \in DOMAIN strategies : place[j] = "reporting" =>
           \E n \in DOMAIN inCh' : inCh'[n].from = j
    BY <1>1 DEF Channel
  <2> QED
    BY <2>1, <2>2, <2>3, SameEvents DEF Channel
<1>6. Handling'
  BY <1>2, SameEvents, SameList DEF Handling
<1>7. Gauged'
  BY SameEvents, SameAlone DEF Gauged, gauges
<1>8. Balanced'
  <2>1. ASSUME NEW n \in DOMAIN events
        PROVE  Pending(events[n])'
    <3>1. CASE n = 1
      BY <1>1, <1>2, <1>3, <3>1 DEF Pending
    <3>2. CASE n # 1
      BY <1>2, <3>2 DEF Pending
    <3> QED
      BY <3>1, <3>2
  <2>2. \A e : handling = <<e>> => Pending(e)'
    BY DEF Pending
  <2>3. \A a : Shown(a)' <=> Shown(a)
    BY SameEvents DEF Shown, gauges
  <2>4. CASE toReport = events
    <3>1. \A e : Pending(e)' <=> Pending(e)
      <4>1. \A e : Pending(e) => Pending(e)'
        BY <2>1, <2>2, <2>4 DEF Pending
      <4>2. ASSUME NEW e, Pending(e)' PROVE Pending(e)
        <5>1. CASE handling' = <<e>>
          BY <5>1 DEF Pending
        <5>2. CASE \E n \in DOMAIN inCh' : inCh'[n].from = NoOne /\ inCh'[n].event = e
          <6>1. e = Head(events)
            BY <1>1, <1>3, <5>2
          <6> QED
            BY <1>2, <2>4, <6>1 DEF Pending
        <5>3. CASE \E n \in DOMAIN toReport' : toReport'[n] = e
          BY <1>2, <2>4, <5>3 DEF Pending
        <5> QED
          BY <4>2, <5>1, <5>2, <5>3 DEF Pending
      <4> QED
        BY <4>1, <4>2
    <3>2. Unticked' <=> Unticked
      BY <3>1, SameEvents DEF Unticked, gauges
    <3> QED
      BY <2>3, <3>1, <3>2, SameEvents DEF Balanced, gauges
  <2>5. CASE \A a \in Agents : \E n \in DOMAIN events : events[n] = OfAgent(a)
    <3>1. \A a \in Agents : Pending(OfAgent(a))'
      BY <2>1, <2>5, SameEvents
    <3> QED
      BY <3>1, SameEvents DEF Balanced, gauges
  <2> QED
    BY <2>4, <2>5
<1> QED
  BY <1>4, <1>5, <1>6, <1>7, <1>8

\* The server takes the first sender's event.
LEMMA ReceivesMetrics ==
    ASSUME Inv, Metrics, ServerReceives
    PROVE  Metrics'
<1> USE DEF Metrics
<1> DEFINE first == inCh[1]
<1>1. /\ UNCHANGED <<strategies, startVars, signerVars, toReport, serving, gauges>>
      /\ handling = <<>> /\ inCh # <<>> /\ inCh' = Tail(inCh)
      /\ handling' = <<Head(inCh).event>>
      /\ place' = [i \in DOMAIN strategies |->
                      IF i = Head(inCh).from THEN "handing" ELSE place[i]]
  BY DEF ServerReceives, Receive
<1>2. /\ Len(inCh) \in Nat \ {0} /\ DOMAIN inCh = 1 .. Len(inCh)
      /\ DOMAIN inCh' = 1 .. Len(inCh) - 1
      /\ \A n \in 1 .. Len(inCh) - 1 : inCh'[n] = inCh[n + 1]
      /\ Head(inCh) = first
  BY <1>1, TailSeq DEF Inv, Types
<1>3. /\ 1 \in DOMAIN inCh
      /\ \A n \in DOMAIN inCh' : n \in Nat /\ n + 1 \in DOMAIN inCh /\ inCh'[n] = inCh[n + 1]
      /\ \A n \in DOMAIN inCh : n = 1 \/ (n - 1 \in DOMAIN inCh' /\ inCh'[n - 1] = inCh[n])
  <2>1. \A n \in 1 .. Len(inCh) : n = 1 \/ (n - 1 \in 1 .. Len(inCh) - 1 /\ n - 1 + 1 = n)
    BY <1>2
  <2>2. \A n \in 1 .. Len(inCh) - 1 : n \in Nat /\ n + 1 \in 1 .. Len(inCh)
    BY <1>2
  <2>3. 1 \in 1 .. Len(inCh)
    BY <1>2
  <2>4. ASSUME NEW n \in DOMAIN inCh, n # 1
        PROVE  n - 1 \in DOMAIN inCh' /\ inCh'[n - 1] = inCh[n]
    <3>1. n - 1 \in 1 .. Len(inCh) - 1 /\ n - 1 + 1 = n
      BY <1>2, <2>1, <2>4
    <3> QED
      BY <1>2, <3>1
  <2>5. \A n \in DOMAIN inCh' : n \in Nat /\ n + 1 \in DOMAIN inCh /\ inCh'[n] = inCh[n + 1]
    BY <1>2, <2>2
  <2>6. 1 \in DOMAIN inCh
    BY <1>2, <2>3
  <2> QED
    BY <2>4, <2>5, <2>6, Zenon
<1>4. \A i \in DOMAIN strategies : place'[i] = IF i = first.from THEN "handing" ELSE place[i]
  BY <1>1, <1>2
<1>5. \/ first.from = NoOne /\ first.event \in LoopEvents
      \/ /\ first.from \in DOMAIN strategies /\ place[first.from] = "reporting"
         /\ first.event = Own(first.from) /\ first.from \in Registered(strategies)
  BY <1>3 DEF Channel, Inv, Senders, Prepared
<1> HIDE DEF first
<1>6. Flags'
  BY <1>1, SameList DEF Flags, startVars, signerVars
<1>7. Channel'
  <2>1. \A i \in DOMAIN strategies : place'[i] = "reporting" =>
           \E n \in DOMAIN inCh' : inCh'[n].from = i
    <3>1. ASSUME NEW i \in DOMAIN strategies, place'[i] = "reporting"
          PROVE  \E n \in DOMAIN inCh' : inCh'[n].from = i
      <4>1. i # first.from /\ place[i] = "reporting"
        BY <1>4, <3>1
      <4>2. PICK n \in DOMAIN inCh : inCh[n].from = i
        BY <4>1 DEF Channel
      <4>3. n # 1
        BY <4>1, <4>2 DEF first
      <4> QED
        BY <1>3, <4>2, <4>3
    <3> QED
      BY <3>1
  <2>2. \A n \in DOMAIN inCh' : IF inCh'[n].from = NoOne THEN inCh'[n].event \in LoopEvents
                                  ELSE inCh'[n].event = Own(inCh'[n].from)
    BY <1>3 DEF Channel
  <2>3. \A n, m \in DOMAIN inCh' : inCh'[n].from = NoOne /\ inCh'[m].from = NoOne => n = m
    <3>1. \A n, m \in DOMAIN inCh' :
             inCh'[n].from = NoOne /\ inCh'[m].from = NoOne => n + 1 = m + 1
      BY <1>3 DEF Channel
    <3> QED
      BY <1>3, <3>1
  <2> QED
    BY <1>1, <2>1, <2>2, <2>3, SameEvents DEF Channel
<1>8. Handling'
  <2>1. handling' = <<first.event>>
    BY <1>1, <1>2
  <2>2. first.event \in LoopEvents \cup {Own(i) : i \in Registered(strategies)}
    BY <1>5
  <2> QED
    BY <1>1, <2>1, <2>2, SameEvents, SameList DEF Handling
<1>9. Gauged'
  <2>1. ASSUME NEW i \in DOMAIN strategies, place'[i] = "handing", Alone(i)
        PROVE  \/ handling' = <<Own(i)>>
               \/ OwnLabel(i) \in DOMAIN liveOrders /\ liveOrders[OwnLabel(i)] = i
    <3>1. CASE i = first.from
      <4>1. first.event = Own(i)
        BY <1>5, <3>1, ListFacts DEF Inv, Types
      <4> QED
        BY <1>1, <1>2, <4>1
    <3>2. CASE i # first.from
      <4>1. place[i] = "handing"
        BY <1>4, <2>1, <3>2
      <4> QED
        BY <1>1, <2>1, <4>1 DEF Gauged
    <3> QED
      BY <3>1, <3>2
  <2> QED
    BY <1>1, <2>1, SameEvents, SameAlone DEF Gauged, gauges
<1>10. Balanced'
  <2>1. ASSUME NEW e, e \in LoopEvents PROVE Pending(e)' <=> Pending(e)
    <3>1. CASE first.from = NoOne
      <4>1. handling' = <<first.event>>
        BY <1>1, <1>2
      <4>2. Pending(e)' => Pending(e)
        BY <1>1, <1>3, <3>1, <4>1 DEF Pending, first
      <4>3. Pending(e) => Pending(e)'
        <5>1. ASSUME NEW n \in DOMAIN inCh, inCh[n].from = NoOne, inCh[n].event = e
              PROVE  \/ handling' = <<e>>
                     \/ \E m \in DOMAIN inCh' : inCh'[m].from = NoOne /\ inCh'[m].event = e
          <6>1. n = 1 => handling' = <<e>>
            BY <4>1, <5>1 DEF first
          <6> QED
            BY <1>3, <5>1, <6>1
        <5> QED
          BY <1>1, <5>1 DEF Pending
      <4> QED
        BY <4>2, <4>3
    <3>2. CASE first.from # NoOne
      <4>1. handling' = <<Own(first.from)>>
        BY <1>1, <1>2, <1>5, <3>2
      <4>2. e # Own(first.from)
        BY <2>1, EventsApart DEF LoopEvents
      <4>3. handling' # <<e>> /\ handling # <<e>>
        BY <1>1, <4>1, <4>2
      <4>4. Pending(e)' => Pending(e)
        BY <1>1, <1>3, <4>3 DEF Pending
      <4>5. Pending(e) => Pending(e)'
        <5>1. ASSUME NEW n \in DOMAIN inCh, inCh[n].from = NoOne, inCh[n].event = e
              PROVE  \E m \in DOMAIN inCh' : inCh'[m].from = NoOne /\ inCh'[m].event = e
          <6>1. n # 1
            BY <3>2, <5>1 DEF first
          <6> QED
            BY <1>3, <5>1, <6>1
        <5> QED
          BY <1>1, <4>3, <5>1 DEF Pending
      <4> QED
        BY <4>4, <4>5
    <3> QED
      BY <3>1, <3>2
  <2>2. \A a \in Agents : OfAgent(a) \in LoopEvents
    BY DEF LoopEvents
  <2>3. OfEngine \in LoopEvents
    BY DEF LoopEvents
  <2>4. Unticked' <=> Unticked
    BY <1>1, <2>1, <2>3, SameEvents DEF Unticked, gauges
  <2>5. \A a : Shown(a)' <=> Shown(a)
    BY <1>1, SameEvents DEF Shown, gauges
  <2> QED
    BY <1>1, <2>1, <2>2, <2>4, <2>5, SameEvents DEF Balanced, gauges
<1> QED
  BY <1>6, <1>7, <1>8, <1>9, <1>10

LEMMA SetGaugeSets ==
    ASSUME NEW gauge, NEW event
    PROVE  /\ DOMAIN SetGauge(gauge, event) = DOMAIN gauge \cup {event.labels}
           /\ SetGauge(gauge, event)[event.labels] = event.value
           /\ \A l \in DOMAIN gauge : l # event.labels => SetGauge(gauge, event)[l] = gauge[l]
BY DEF SetGauge, Labels

\* The server sets the gauges its event is about.
LEMMA HandlesMetrics ==
    ASSUME Inv, Metrics, ServerHandles
    PROVE  Metrics'
<1> USE DEF Metrics
<1> DEFINE event == handling[1]
<1>1. /\ UNCHANGED <<strategies, startVars, place, signerVars, toReport, serving, inCh>>
      /\ handling # <<>> /\ handling' = <<>>
      /\ liveOrders' = IF event.type = "strategy" THEN SetGauge(liveOrders, event) ELSE liveOrders
      /\ agentGauge' = IF event.type = "agent" THEN SetGauge(agentGauge, event) ELSE agentGauge
      /\ totalGauge' = IF event.type = "engine" THEN SetGauge(totalGauge, event) ELSE totalGauge
  BY DEF ServerHandles, HandleEvent
<1>2. /\ event \in LoopEvents \cup {Own(i) : i \in Registered(strategies)}
      /\ handling = <<event>>
  BY <1>1 DEF Handling
<1>3. \A gauge : /\ DOMAIN SetGauge(gauge, event) = DOMAIN gauge \cup {event.labels}
                 /\ SetGauge(gauge, event)[event.labels] = event.value
                 /\ \A l \in DOMAIN gauge : l # event.labels =>
                       SetGauge(gauge, event)[l] = gauge[l]
  BY SetGaugeSets
<1> HIDE DEF event
<1>4. Flags'
  BY <1>1, SameList DEF Flags, startVars, signerVars
<1>5. Channel'
  BY <1>1, SameEvents DEF Channel
<1>6. Handling'
  BY <1>1, SameEvents, SameList DEF Handling
<1>7. Gauged'
  <2>1. ASSUME NEW i \in DOMAIN strategies, place[i] = "handing", Alone(i)
        PROVE  OwnLabel(i) \in DOMAIN liveOrders' /\ liveOrders'[OwnLabel(i)] = i
    <3>1. CASE event = Own(i)
      BY <1>1, <1>3, <3>1, EventsApart
    <3>2. CASE event # Own(i)
      <4>1. OwnLabel(i) \in DOMAIN liveOrders /\ liveOrders[OwnLabel(i)] = i
        <5>1. handling # <<Own(i)>>
          BY <1>2, <3>2
        <5> QED
          BY <2>1, <5>1 DEF Gauged
      <4>2. CASE event \in LoopEvents
        <5>1. event.type # "strategy"
          BY <4>2, EventsApart DEF LoopEvents
        <5> QED
          BY <1>1, <4>1, <5>1
      <4>3. CASE \E j \in Registered(strategies) : event = Own(j)
        <5>1. PICK j \in Registered(strategies) : event = Own(j)
          BY <4>3
        <5>2. OwnLabel(j) # OwnLabel(i)
          BY <2>1, <3>2, <5>1 DEF Alone
        <5>3. event.labels # OwnLabel(i)
          BY <5>1, <5>2, EventsApart
        <5> QED
          BY <1>1, <1>3, <4>1, <5>3
      <4> QED
        BY <1>2, <4>2, <4>3
    <3> QED
      BY <3>1, <3>2
  <2> QED
    BY <1>1, <2>1, SameEvents, SameAlone DEF Gauged
<1>8. Balanced'
  <2>1. \A e : Pending(e) => Pending(e)' \/ e = event
    BY <1>1, <1>2 DEF Pending
  <2>2. \A e : Pending(e)' => Pending(e)
    BY <1>1 DEF Pending
  <2>3. \A a : Shown(a) => Shown(a)'
    <3>1. CASE event.type # "agent"
      BY <1>1, <3>1, SameEvents DEF Shown
    <3>2. CASE event.type = "agent"
      <4>1. PICK b \in Agents : event = OfAgent(b)
        BY <1>2, <3>2, EventsApart DEF LoopEvents
      <4>2. event.labels = <<b>> /\ event.value = AgentBalance(b)
        BY <4>1, EventsApart
      <4>3. agentGauge' = SetGauge(agentGauge, event)
        BY <1>1, <3>2
      <4>4. \A a : <<a>> = <<b>> => a = b
        OBVIOUS
      <4> QED
        BY <1>1, <1>3, <4>2, <4>3, <4>4, SameEvents DEF Shown
    <3> QED
      BY <3>1, <3>2
  <2>4. \A a \in Agents : event = OfAgent(a) => Shown(a)'
    BY <1>1, <1>3, EventsApart, SameEvents DEF Shown
  <2>5. Unticked => Unticked'
    <3>1. ASSUME Unticked PROVE event.type # "engine"
      BY <1>2, <3>1, EventsApart DEF Unticked, Pending, LoopEvents
    <3> QED
      BY <1>1, <2>2, <3>1, SameEvents DEF Unticked
  <2>6. totalGauge' = <<>> \/ totalGauge' = [l \in {<<>>} |-> TotalBalance]
    <3>1. CASE event.type # "engine"
      BY <1>1, <3>1 DEF Balanced
    <3>2. CASE event.type = "engine"
      <4>1. event = OfEngine
        BY <1>2, <3>2, EventsApart DEF LoopEvents
      <4>2. event.labels = <<>> /\ event.value = TotalBalance
        BY <4>1, EventsApart
      <4>3. DOMAIN totalGauge \subseteq {<<>>}
        BY DEF Balanced
      <4>4. totalGauge' = [l \in DOMAIN totalGauge \cup {<<>>} |->
                             IF l = <<>> THEN TotalBalance ELSE totalGauge[l]]
        BY <1>1, <3>2, <4>2 DEF SetGauge, Labels
      <4>5. DOMAIN totalGauge \cup {<<>>} = {<<>>}
        BY <4>3
      <4> QED
        BY <4>4, <4>5
    <3> QED
      BY <3>1, <3>2
  <2>7. ASSUME NEW a \in Agents
        PROVE  Shown(a)' \/ Pending(OfAgent(a))' \/ Unticked'
    <3>1. Shown(a) \/ Pending(OfAgent(a)) \/ Unticked
      BY DEF Balanced
    <3>2. Pending(OfAgent(a)) => Pending(OfAgent(a))' \/ event = OfAgent(a)
      <4>1. OfAgent(a)' = OfAgent(a)
        BY <1>1, SameEvents
      <4> QED
        BY <1>1, <1>2, <4>1 DEF Pending
    <3> QED
      BY <2>3, <2>4, <2>5, <3>1, <3>2
  <2> QED
    BY <1>1, <2>6, <2>7, SameEvents DEF Balanced
<1> QED
  BY <1>4, <1>5, <1>6, <1>7, <1>8

LEMMA MetricsKept == Spec => []Metrics
<1>1. Inv /\ Metrics /\ [Next]_vars => Metrics'
  <2> SUFFICES ASSUME Inv, Metrics, [Next]_vars PROVE Metrics'
    OBVIOUS
  <2>1. CASE UNCHANGED vars
    <3>1. Flags'
      BY <2>1, SameList DEF Metrics, Flags, vars, startVars, runVars, signerVars, serverVars
    <3> QED
      BY <2>1, <3>1, MetricsSame DEF vars, runVars, serverVars
  <2>2. CASE MainStep \/ Beside
    <3>1. /\ UNCHANGED <<strategies, toReport, inCh, handling, gauges>>
          /\ \A i \in DOMAIN strategies : place'[i] = "reporting" => place[i] = "reporting"
          /\ \A i \in DOMAIN strategies : place'[i] = "handing" => place[i] = "handing"
      BY <2>2 DEF MainStep, BinanceReady, WaitsForStreams, ServesMetrics, VegaLoaded,
                  Beside, Reloaded, RoundPanics, StartsSigner, LoadsVegaDecimals, RunsStrategies, runVars, serverVars
    <3>2. Flags'
      <4>1. strategies' = strategies /\ Flags
        BY <3>1 DEF Metrics
      <4>2. CASE UNCHANGED <<priced, loading, serving, core, decimals>>
        BY <4>1, <4>2, SameList DEF Flags
      <4>3. CASE \/ BinanceReady \/ ServesMetrics
                 \/ \E markets, data \in SUBSET MarketsOf : VegaLoaded(markets, data)
        BY <4>1, <4>3, SameList DEF Flags, BinanceReady, ServesMetrics, VegaLoaded, runVars,
                                    signerVars, serverVars
      <4>4. CASE \E a \in Agents : LoadsVegaDecimals(a)
        <5>1. PICK a \in Agents : LoadsVegaDecimals(a)
          BY <4>4
        <5>2. /\ UNCHANGED <<priced, loading, serving, core>>
              /\ decimals' \subseteq decimals \cup StrategiesOf(strategies, a)
          BY <5>1 DEF LoadsVegaDecimals, runVars, signerVars, serverVars
        <5> QED
          BY <4>1, <5>2, SameList, ListFacts DEF Flags, Inv, Types
      <4> QED
        BY <2>2, <4>2, <4>3, <4>4
           DEF MainStep, WaitsForStreams, Beside, Reloaded, RoundPanics, StartsSigner,
               RunsStrategies, runVars, signerVars, serverVars
    <3> QED
      BY <3>1, <3>2, MetricsSame
  <2>3. ASSUME NEW i \in DOMAIN strategies, Hands(i) PROVE Metrics'
    <3>1. /\ UNCHANGED <<strategies, startVars, signer, core, toReport, serverVars>>
          /\ \A j \in DOMAIN strategies : place'[j] = "reporting" => place[j] = "reporting"
          /\ \A j \in DOMAIN strategies : place'[j] = "handing" => place[j] = "handing"
      BY <2>3 DEF Hands, Put, Inv, Types
    <3>2. Flags'
      BY <3>1, SameList DEF Metrics, Flags, startVars, serverVars
    <3> QED
      BY <3>1, <3>2, MetricsSame DEF serverVars
  <2>4. ASSUME NEW i \in DOMAIN strategies, Reports(i) PROVE Metrics'
    BY <2>4, ReportsMetrics
  <2>5. CASE Outage \/ Reconnects \/ \E a \in Agents : SignerStep(a)
    <3>1. /\ UNCHANGED <<strategies, startVars, place, toReport, serverVars>>
          /\ core' = core \/ core' \in {"up", "down"}
      BY <2>5 DEF Outage, Reconnects, SignerStep, TakesInput, Signs, Drops, Submits
    <3>2. Flags'
      BY <3>1, SameList DEF Metrics, Flags, startVars, serverVars
    <3> QED
      BY <3>1, <3>2, MetricsSame DEF serverVars
  <2>6. CASE Ticks
    <3> DEFINE agents == SetToSeq(Agents)
               events == [n \in DOMAIN agents |-> AgentEvent(agents[n], AgentBalance(agents[n]))]
                            \o <<EngineEvent(TotalBalance)>>
    <3>1. /\ toReport = <<>> /\ \A n \in DOMAIN inCh : inCh[n].from # NoOne
          /\ toReport' = Tail(events) /\ Send(NoOne, Head(events))
          /\ UNCHANGED <<strategies, startVars, place, signerVars, serving, handling, gauges>>
      BY <2>6 DEF Ticks
    <3>2. /\ events \in Seq(LoopEvents) /\ events # <<>>
          /\ \A a \in Agents : \E n \in DOMAIN events : events[n] = OfAgent(a)
      BY TickEvents
    <3> HIDE DEF events
    <3> QED
      BY <3>1, <3>2, LoopMetrics
  <2>7. CASE LoopSends
    <3>1. toReport \in Seq(LoopEvents)
      BY DEF Metrics, Handling
    <3> QED
      BY <2>7, <3>1, LoopMetrics DEF LoopSends
  <2>8. CASE ServerReceives
    BY <2>8, ReceivesMetrics
  <2>9. CASE ServerHandles
    BY <2>9, HandlesMetrics
  <2> QED
    BY <2>1, <2>2, <2>3, <2>4, <2>5, <2>6, <2>7, <2>8, <2>9 DEF Next, Beside
<1> QED
  BY <1>1, InitMetrics, InvKept, PTL DEF Spec

\* The variables hold what they should; and every sender stands in the
\* metrics channel as often as it is blocked there.
THEOREM TypeCorrect == Spec => []TypeOK
<1>1. Inv /\ Metrics => TypeOK
  <2> SUFFICES ASSUME Inv, Metrics PROVE TypeOK
    OBVIOUS
  <2> USE DEF Inv, Metrics
  <2>1. /\ strategies \in Lists
        /\ main \in {"streams", "starting", "serving", "dead"}
        /\ priced \in BOOLEAN /\ loading \in BOOLEAN /\ serving \in BOOLEAN
        /\ held \subseteq MarketsOf /\ quoted \subseteq MarketsOf
        /\ decimals \subseteq Registered(strategies)
        /\ agentAt \in [Agents -> {"new", "signing", "priced", "running"}]
        /\ place \in [DOMAIN strategies -> {"off", "idle", "reporting", "handing"}]
        /\ core \in {"up", "down"}
    BY DEF Types, Flags
  <2>2. ASSUME NEW a \in Agents
        PROVE  /\ txDataCh[a] \in Seq(StrategiesOf(strategies, a))
               /\ signer[a].at \in {"off", "idle", "signing", "sending"}
    <3>1. txDataCh[a] \in Seq(DOMAIN strategies)
      BY DEF Types
    <3>2. \A n \in DOMAIN txDataCh[a] : txDataCh[a][n] \in StrategiesOf(strategies, a)
      BY DEF Queues
    <3>3. txDataCh[a] \in Seq(StrategiesOf(strategies, a))
      BY <3>1, <3>2
    <3> QED
      BY <3>3 DEF Types
  <2>3. ASSUME NEW i \in DOMAIN strategies
        PROVE  Cardinality({n \in DOMAIN inCh : inCh[n].from = i}) =
                  IF place[i] = "reporting" THEN 1 ELSE 0
    <3> DEFINE at == {n \in DOMAIN inCh : inCh[n].from = i}
    <3>1. i # NoOne
      BY <2>1, ListFacts
    <3>2. CASE place[i] = "reporting"
      <4>1. PICK n \in DOMAIN inCh : inCh[n].from = i
        BY <3>2 DEF Channel
      <4>2. at = {n}
        BY <3>1, <4>1 DEF Senders
      <4>3. Cardinality({n}) = 1
        BY FS_Singleton
      <4> QED
        BY <3>2, <4>2, <4>3
    <3>3. CASE place[i] # "reporting"
      <4>1. at = {}
        BY <3>1, <3>3 DEF Senders
      <4> QED
        BY <3>3, <4>1, FS_EmptySet
    <3> QED
      BY <3>2, <3>3
  <2>4. Cardinality({n \in DOMAIN inCh : inCh[n].from = NoOne}) <= 1
    <3> DEFINE at == {n \in DOMAIN inCh : inCh[n].from = NoOne}
    <3>1. at = {} \/ \E n : at = {n}
      BY DEF Channel
    <3>2. Cardinality({}) = 0 /\ \A n : Cardinality({n}) = 1
      BY FS_EmptySet, FS_Singleton
    <3>3. Cardinality(at) = 0 \/ Cardinality(at) = 1
      BY <3>1, <3>2
    <3> QED
      BY <3>3
  <2>5. Len(handling) <= 1
    <3>1. Len(<<>>) = 0 /\ \A e : Len(<<e>>) = 1
      OBVIOUS
    <3> DEFINE length == Len(handling)
    <3>2. length = 0 \/ length = 1
      BY <3>1 DEF Handling
    <3> HIDE DEF length
    <3>3. length <= 1
      BY <3>2
    <3> QED
      BY <3>3 DEF length
  <2> QED
    BY <2>1, <2>2, <2>3, <2>4, <2>5 DEF TypeOK
<1> QED
  BY <1>1, InvKept, MetricsKept, PTL

\* While a strategy hands its batch over its gauges are its own, whatever
\* the other senders of the channel do, unless it shares its label.
THEOREM OwnGauges == Spec => []GaugesOwn
<1>1. Inv /\ Metrics => GaugesOwn
  <2> SUFFICES ASSUME Metrics, NEW i \in Running, place[i] = "handing", Alone(i)
               PROVE  \/ i \in Range(liveOrders)
                      \/ handling # <<>> /\ handling[1] = Own(i)
    BY DEF GaugesOwn, Alone, Own
  <2>1. i \in DOMAIN strategies
    BY DEF Running, Registered
  <2>2. CASE handling = <<Own(i)>>
    BY <2>2
  <2>3. CASE OwnLabel(i) \in DOMAIN liveOrders /\ liveOrders[OwnLabel(i)] = i
    BY <2>3 DEF Range
  <2> QED
    BY <2>1, <2>2, <2>3 DEF Metrics, Gauged
<1> QED
  BY <1>1, InvKept, MetricsKept, PTL

\* GetBalances lists an asset once, unless VEGA is a settlement asset too.
LEMMA ListedOnce ==
    ASSUME strategies \in Lists, NEW i \in Registered(strategies), ~SettlesInVega(Key(i)),
           NEW x \in {Vega, strategies[i].asset}
    PROVE  AgentBalance(Key(i))[x] = Balances[Key(i)][x]
<1> DEFINE a == Key(i)
           assets == {strategies[j].asset : j \in StrategiesOf(strategies, a)}
           seq == SetToSeq(assets)
           entries == Entries(a)
<1>1. a \in Agents /\ i \in DOMAIN strategies /\ i \in StrategiesOf(strategies, a)
  BY ListFacts
<1>2. x \in Assets /\ Balances[a][x] \in Nat
  BY <1>1, SystemAssumption DEF Agents
<1>3. IsFiniteSet(assets)
  <2>1. [j \in StrategiesOf(strategies, a) |-> strategies[j].asset]
           \in Surjection(StrategiesOf(strategies, a), assets)
    BY DEF Surjection
  <2> QED
    BY <1>1, <2>1, FiniteAgents, FS_Surjection
<1>4. strategies[i].asset \in assets /\ Vega \notin assets
  BY <1>1 DEF SettlesInVega
<1> HIDE DEF assets
<1>5. PICK c \in Nat : /\ seq \in [1 .. c -> assets] /\ IsInjective(seq)
                       /\ \A e \in assets : \E n \in 1 .. c : seq[n] = e
  BY <1>3, SetToSeqOf
<1>6. entries = seq \o <<Vega>>
  BY DEF Entries, assets
<1> HIDE DEF seq, entries
<1>7. seq \in Seq(assets \cup {Vega}) /\ Len(seq) = c
  BY <1>5
<1>8. /\ DOMAIN entries = 1 .. c + 1
      /\ \A n \in 1 .. c : entries[n] = seq[n]
      /\ entries[c + 1] = Vega
  <2>1. <<Vega>> \in Seq(assets \cup {Vega}) /\ Len(<<Vega>>) = 1 /\ <<Vega>>[1] = Vega
    OBVIOUS
  <2>2. /\ entries \in Seq(assets \cup {Vega}) /\ Len(entries) = Len(seq) + Len(<<Vega>>)
        /\ \A n \in 1 .. Len(seq) + Len(<<Vega>>) :
              entries[n] = IF n <= Len(seq) THEN seq[n] ELSE <<Vega>>[n - Len(seq)]
    BY <1>6, <1>7, <2>1, ConcatProperties, Zenon
  <2>3. /\ Len(entries) = c + 1
        /\ \A n \in 1 .. c + 1 : entries[n] = IF n <= c THEN seq[n] ELSE <<Vega>>[n - c]
    BY <1>7, <2>1, <2>2, Zenon
  <2>4. DOMAIN entries = 1 .. c + 1
    BY <2>2, <2>3
  <2>5. \A n \in 1 .. c : n \in 1 .. c + 1 /\ n <= c
    BY <1>5
  <2>6. c + 1 \in 1 .. c + 1 /\ ~(c + 1 <= c) /\ c + 1 - c = 1
    BY <1>5
  <2> QED
    BY <2>1, <2>3, <2>4, <2>5, <2>6
<1>9. \E n \in 1 .. c + 1 : {m \in DOMAIN entries : entries[m] = x} = {n}
  <2>1. CASE x = Vega
    <3>1. \A m \in 1 .. c : entries[m] # Vega
      BY <1>4, <1>5, <1>8
    <3>2. \A m \in 1 .. c + 1 : m \in 1 .. c \/ m = c + 1
      BY <1>5
    <3>3. c + 1 \in 1 .. c + 1
      BY <1>5
    <3> QED
      BY <1>8, <2>1, <3>1, <3>2, <3>3
  <2>2. CASE x # Vega
    <3>1. x \in assets
      BY <1>4, <2>2
    <3>2. PICK n \in 1 .. c : seq[n] = x
      BY <1>5, <3>1
    <3>3. \A m \in 1 .. c : seq[m] = x => m = n
      BY <1>5, <3>2 DEF IsInjective
    <3>4. \A m \in 1 .. c + 1 : m \in 1 .. c \/ m = c + 1
      BY <1>5
    <3>5. n \in 1 .. c + 1
      BY <1>5
    <3> QED
      BY <1>8, <2>2, <3>2, <3>3, <3>4, <3>5
  <2> QED
    BY <2>1, <2>2
<1>10. Cardinality({m \in DOMAIN entries : entries[m] = x}) = 1
  BY <1>9, FS_Singleton
<1>11. AgentBalance(a)[x] =
          Cardinality({m \in DOMAIN entries : entries[m] = x}) * Balances[a][x]
  BY <1>2 DEF AgentBalance, entries
<1> QED
  BY <1>2, <1>10, <1>11

\* Sums over the same numbers are equal.
LEMMA SameSums ==
    ASSUME NEW S, NEW f, NEW g, \A a \in S : f[a] = g[a]
    PROVE  SumOver(S, f) = SumOver(S, g)
<1> SUFFICES ASSUME NEW x \in Assets
             PROVE  FoldSet(LAMBDA a, sum : sum + f[a][x], 0, S)
                       = FoldSet(LAMBDA a, sum : sum + g[a][x], 0, S)
  BY DEF SumOver
<1> DEFINE Is(h, iter) ==
             iter = [s \in SUBSET S |->
                       IF s = {} THEN 0
                       ELSE iter[s \ {CHOOSE a \in s : TRUE}] + h[CHOOSE a \in s : TRUE][x]]
<1>1. ASSUME NEW iter PROVE Is(f, iter) <=> Is(g, iter)
  <2>1. ASSUME NEW s \in SUBSET S, s # {}
        PROVE  f[CHOOSE a \in s : TRUE] = g[CHOOSE a \in s : TRUE]
    <3>1. (CHOOSE a \in s : TRUE) \in s
      BY <2>1
    <3> QED
      BY <3>1
  <2> QED
    BY <2>1
<1>2. (CHOOSE iter : Is(f, iter)) = (CHOOSE iter : Is(g, iter))
  <2> HIDE DEF Is
  <2> QED
    BY <1>1, Zenon
<1>3. /\ FoldSet(LAMBDA a, sum : sum + f[a][x], 0, S) = (CHOOSE iter : Is(f, iter))[S]
      /\ FoldSet(LAMBDA a, sum : sum + g[a][x], 0, S) = (CHOOSE iter : Is(g, iter))[S]
  BY Zenon DEF FoldSet, MapThenFoldSet
<1> QED
  BY <1>2, <1>3, Zenon

\* After a tick's events the server shows what every agent owns, each asset
\* once, and their sums, for any list of strategies and any balances.
THEOREM TrueBalances == Spec => []BalancesTrue
<1>1. Inv /\ Metrics => BalancesTrue
  <2> SUFFICES ASSUME Inv, Metrics, Between, totalGauge # <<>>
               PROVE  /\ \A i \in Registered(strategies) : \A x \in {Vega, strategies[i].asset} :
                            ~SettlesInVega(Key(i)) =>
                               agentGauge[<<Key(i)>>][x] = Balances[Key(i)][x]
                      /\ totalGauge[<<>>] =
                            SumOver(Agents, [a \in Agents |-> agentGauge[<<a>>]])
    BY DEF BalancesTrue
  <2>1. strategies \in Lists
    BY DEF Inv, Types
  <2>2. \A a \in Agents : agentGauge[<<a>>] = AgentBalance(a)
    <3>1. \A a \in Agents : ~Pending(OfAgent(a))
      BY DEF Between, Pending
    <3> QED
      BY <3>1 DEF Metrics, Balanced, Unticked, Shown
  <2>3. ASSUME NEW i \in Registered(strategies), NEW x \in {Vega, strategies[i].asset},
               ~SettlesInVega(Key(i))
        PROVE  agentGauge[<<Key(i)>>][x] = Balances[Key(i)][x]
    <3>1. Key(i) \in Agents
      BY <2>1, ListFacts
    <3>2. AgentBalance(Key(i))[x] = Balances[Key(i)][x]
      BY <2>1, <2>3, ListedOnce
    <3> QED
      BY <2>2, <3>1, <3>2
  <2>4. totalGauge[<<>>] = TotalBalance
    BY DEF Metrics, Balanced
  <2>5. SumOver(Agents, [a \in Agents |-> AgentBalance(a)])
           = SumOver(Agents, [a \in Agents |-> agentGauge[<<a>>]])
    BY <2>2, SameSums
  <2> QED
    BY <2>3, <2>4, <2>5 DEF TotalBalance
<1> QED
  BY <1>1, InvKept, MetricsKept, PTL

\* A strategy that has begun to report had market data for its prices.
PricesSeen ==
    \A i \in DOMAIN strategies :
        place[i] \in {"reporting", "handing"} => strategies[i].market \in quoted

\* Only a report moves a strategy past its prices; what was loaded stays.
LEMMA PricesStaySeen ==
    ASSUME Inv, PricesSeen, [Next]_vars
    PROVE  PricesSeen'
<1>1. strategies' = strategies
  BY DEF Next, MainStep, SignerStep, vars, BinanceReady, VegaLoaded, Reloaded, WaitsForStreams,
         ServesMetrics, StartsSigner, LoadsVegaDecimals, RunsStrategies, RoundPanics, Reports,
         Hands, TakesInput, Signs, Drops, Submits, Outage, Reconnects, Ticks, LoopSends,
         ServerReceives, ServerHandles
<1>2. quoted \subseteq quoted'
  BY DEF Next, MainStep, SignerStep, vars, startVars, BinanceReady, VegaLoaded, Reloaded,
         WaitsForStreams, ServesMetrics, StartsSigner, LoadsVegaDecimals, RunsStrategies,
         RoundPanics, Reports, Hands, TakesInput, Signs, Drops, Submits, Outage, Reconnects,
         Ticks, LoopSends, ServerReceives, ServerHandles
<1>3. ASSUME NEW i \in DOMAIN strategies, place'[i] \in {"reporting", "handing"}
      PROVE  place[i] \in {"reporting", "handing"} \/ strategies[i].market \in quoted
  <2>1. CASE UNCHANGED place
    BY <1>3, <2>1
  <2>2. CASE \E a \in Agents : RunsStrategies(a)
    BY <1>3, <2>2 DEF RunsStrategies
  <2>3. CASE \E j \in DOMAIN strategies : Hands(j) \/ Reports(j)
    BY <1>3, <2>3 DEF Hands, Reports, Inv, Types
  <2>4. CASE ServerReceives
    <3>1. /\ inCh # <<>>
          /\ place' = [j \in DOMAIN strategies |->
                          IF j = Head(inCh).from THEN "handing" ELSE place[j]]
      BY <2>4 DEF ServerReceives, Receive
    <3>2. 1 \in DOMAIN inCh /\ Head(inCh).from = inCh[1].from
      BY <3>1, TailSeq DEF Inv, Types
    <3>3. i = Head(inCh).from => place[i] = "reporting"
      BY <3>2, ListFacts DEF Inv, Types, Senders
    <3> QED
      BY <1>3, <3>1, <3>3
  <2> QED
    BY <2>1, <2>2, <2>3, <2>4
       DEF Next, MainStep, SignerStep, vars, runVars, BinanceReady, VegaLoaded, Reloaded,
           WaitsForStreams, ServesMetrics, StartsSigner, LoadsVegaDecimals, RoundPanics,
           TakesInput, Signs, Drops, Submits, Outage, Reconnects, Ticks, LoopSends,
           ServerHandles
<1> QED
  BY <1>1, <1>2, <1>3 DEF PricesSeen

\* A strategy runs only with Binance's prices, its market, its decimals and a
\* signer, and gets past its prices only with market data, whatever loads
\* fail, together or apart, and in whatever order the agents are started.
THEOREM StrategiesPrepared == Spec => []RunsPrepared
<1>1. Inv /\ PricesSeen => RunsPrepared
  <2> SUFFICES ASSUME Inv, PricesSeen, NEW i \in Running
               PROVE  /\ priced /\ ~loading
                      /\ i \in decimals /\ strategies[i].market \in held
                      /\ signer[Key(i)].at # "off"
                      /\ place[i] \in {"reporting", "handing"} =>
                            strategies[i].market \in quoted
    BY DEF RunsPrepared
  <2>1. /\ i \in StrategiesOf(strategies, Key(i)) /\ Key(i) \in Agents
        /\ i \in DOMAIN strategies /\ agentAt[Key(i)] = "running"
    BY ListFacts DEF Inv, Types, Prepared, Running
  <2> QED
    BY <2>1 DEF Inv, Prepared, PricesSeen
<1>2. Init => PricesSeen
  BY DEF Init, PricesSeen
<1> QED
  BY <1>1, <1>2, PricesStaySeen, InvKept, PTL DEF Spec

\* After an outage of any length the market sees a bounded number of old
\* batches of each strategy, and the agent's channel of all of them, for any
\* capacity and any number of strategies.
THEOREM OldBatchesBounded == Spec => []StaleBatchesBounded
<1>1. Inv => StaleBatchesBounded
  <2> SUFFICES ASSUME Inv PROVE StaleBatchesBounded
    OBVIOUS
  <2>1. QueueCap \in Nat
    BY SystemAssumption
  <2>2. ASSUME NEW i \in Running
        PROVE  Backlog(i) <= QueueCap + 2
    <3>1. /\ txDataCh[Key(i)] \in Seq(DOMAIN strategies)
          /\ Once(txDataCh[Key(i)], QueueCap)
      BY ListFacts DEF Inv, Types, Queues, Running
    <3> DEFINE share == Cardinality({n \in DOMAIN txDataCh[Key(i)] : txDataCh[Key(i)][n] = i})
    <3>2. share <= QueueCap + 1 /\ share \in Nat
      BY <2>1, <3>1, OnceBoundsShare
    <3>3. Backlog(i) = share + (IF signer[Key(i)].for = i THEN 1 ELSE 0)
      BY DEF Backlog
    <3> HIDE DEF share
    <3> QED
      BY <2>1, <3>2, <3>3
  <2>3. ASSUME NEW a \in Agents
        PROVE  Len(txDataCh[a]) <= QueueCap + NumStrats(strategies)[a]
    <3>1. IsFiniteSet(StrategiesOf(strategies, a))
      <4>1. IsFiniteSet(1 .. Len(strategies))
        BY ListFacts, FS_Interval DEF Inv, Types
      <4>2. StrategiesOf(strategies, a) \subseteq 1 .. Len(strategies)
        BY ListFacts DEF Inv, Types
      <4> QED
        BY <4>1, <4>2, FS_Subset
    <3>2. txDataCh[a] \in Seq(StrategiesOf(strategies, a)) /\ Once(txDataCh[a], QueueCap)
      BY DEF Inv, Types, Queues
    <3>3. NumStrats(strategies)[a] = Cardinality(StrategiesOf(strategies, a))
      BY DEF NumStrats, Agents
    <3> QED
      BY <2>1, <3>1, <3>2, <3>3, OnceBoundsLength
  <2> QED
    BY <2>2, <2>3 DEF StaleBatchesBounded
<1> QED
  BY <1>1, InvKept, PTL

-----------------------------------------------------------------------------
(* Nobody waits in vain: who is waited for has been started.               *)

Started ==
    /\ main = "serving" => serving /\ \A a \in Agents : agentAt[a] = "running"
    /\ \A i \in Registered(strategies) : agentAt[Key(i)] = "running" => place[i] # "off"
    /\ \A a \in Agents : txDataCh[a] # <<>> => signer[a].at # "off"
    /\ toReport # <<>> => serving
    /\ \A n \in DOMAIN inCh : inCh[n].from = NoOne => serving

LEMMA InitStarted == Init => Started
<1> SUFFICES ASSUME Init PROVE Started
  OBVIOUS
<1>1. \A i \in Registered(strategies) : Key(i) \in Agents
  BY ListFacts DEF Init
<1>2. main # "serving" /\ \A a \in Agents : agentAt[a] = "new" /\ txDataCh[a] = <<>>
  BY DEF Init
<1>3. toReport = <<>> /\ inCh = <<>>
  BY DEF Init, ServerInit
<1> QED
  BY <1>1, <1>2, <1>3 DEF Started

\* What a step may not undo, where it starts nobody.
LEMMA StartedSame ==
    ASSUME Inv, Started, UNCHANGED <<strategies, main, agentAt, toReport>>,
           serving' = serving,
           \A i \in DOMAIN strategies : place[i] # "off" => place'[i] # "off",
           \A a \in Agents : signer[a].at # "off" => signer'[a].at # "off",
           \A a \in Agents : txDataCh'[a] # <<>> => signer'[a].at # "off",
           \A n \in DOMAIN inCh' : inCh'[n].from = NoOne =>
              \E m \in DOMAIN inCh : inCh[m].from = NoOne
    PROVE  Started'
<1>1. Registered(strategies) \subseteq DOMAIN strategies
  BY ListFacts DEF Inv, Types
<1> QED
  BY <1>1, SameList DEF Started

\* The metrics server is started last, after every agent.
LEMMA MainStarts ==
    ASSUME Inv, Started, MainStep \/ Beside
    PROVE  Started'
<1> USE DEF Started
<1>1. CASE \/ BinanceReady \/ WaitsForStreams \/ Beside
           \/ \E markets, data \in SUBSET MarketsOf : VegaLoaded(markets, data)
  <2>1. /\ UNCHANGED <<strategies, agentAt, runVars>>
        /\ main' = "serving" => main = "serving"
    BY <1>1 DEF BinanceReady, WaitsForStreams, Beside, Reloaded, RoundPanics, VegaLoaded
  <2> QED
    BY <2>1, SameList DEF runVars, signerVars, serverVars
<1>2. CASE ServesMetrics
  <2>1. /\ UNCHANGED <<strategies, agentAt, place, signerVars, toReport, inCh>>
        /\ serving' = TRUE /\ \A a \in Agents : agentAt[a] = "running"
    BY <1>2 DEF ServesMetrics
  <2> QED
    BY <2>1, SameList DEF signerVars
<1>3. ASSUME NEW a \in Agents, StartsSigner(a) PROVE Started'
  <2>1. /\ UNCHANGED <<strategies, main, place, txDataCh, toReport, inCh, serving>>
        /\ main = "starting" /\ agentAt[a] = "new"
        /\ agentAt' = [agentAt EXCEPT ![a] = "signing"]
        /\ signer' = [signer EXCEPT ![a].at = "idle"]
    BY <1>3 DEF StartsSigner, At, StartIs, serverVars
  <2>2. /\ \A b \in Agents : agentAt'[b] = "running" => agentAt[b] = "running"
        /\ \A b \in Agents : signer[b].at # "off" => signer'[b].at # "off"
    BY <2>1 DEF Inv, Types
  <2>3. \A i \in Registered(strategies) : Key(i) \in Agents
    BY ListFacts DEF Inv, Types
  <2> QED
    BY <2>1, <2>2, <2>3, SameList
<1>4. ASSUME NEW a \in Agents, LoadsVegaDecimals(a) PROVE Started'
  <2>1. /\ UNCHANGED <<strategies, runVars>>
        /\ main' # "serving" /\ agentAt[a] = "signing"
        /\ agentAt' = agentAt \/ agentAt' = [agentAt EXCEPT ![a] = "priced"]
    BY <1>4 DEF LoadsVegaDecimals, At, StartIs
  <2>2. \A b \in Agents : agentAt'[b] = "running" => agentAt[b] = "running"
    BY <2>1 DEF Inv, Types
  <2>3. \A i \in Registered(strategies) : Key(i) \in Agents
    BY ListFacts DEF Inv, Types
  <2> QED
    BY <2>1, <2>2, <2>3, SameList DEF runVars, signerVars, serverVars
<1>5. ASSUME NEW a \in Agents, RunsStrategies(a) PROVE Started'
  <2>1. /\ UNCHANGED <<strategies, main, signerVars, toReport, inCh, serving>>
        /\ main = "starting"
        /\ agentAt' = [agentAt EXCEPT ![a] = "running"]
        /\ place' = [i \in DOMAIN strategies |->
                        IF i \in StrategiesOf(strategies, a) THEN "idle" ELSE place[i]]
    BY <1>5 DEF RunsStrategies, At, StartIs, serverVars
  <2>2. ASSUME NEW i \in Registered(strategies), agentAt'[Key(i)] = "running"
        PROVE  place'[i] # "off"
    <3>1. /\ i \in DOMAIN strategies /\ Key(i) \in Agents
          /\ i \in StrategiesOf(strategies, Key(i))
      BY ListFacts DEF Inv, Types
    <3>2. CASE Key(i) = a
      BY <2>1, <3>1, <3>2
    <3>3. CASE Key(i) # a
      <4>1. agentAt[Key(i)] = "running"
        BY <2>1, <2>2, <3>1, <3>3 DEF Inv, Types
      <4> QED
        BY <2>1, <3>1, <4>1
    <3> QED
      BY <3>2, <3>3
  <2> QED
    BY <2>1, <2>2, SameList DEF signerVars
<1> QED
  BY <1>1, <1>2, <1>3, <1>4, <1>5 DEF MainStep

\* A signer that has something in its channel has been started, for a
\* strategy hands over only when its agent runs.
LEMMA SignersStarted ==
    ASSUME Inv, Started,
           \/ Outage \/ Reconnects
           \/ \E a \in Agents : SignerStep(a)
           \/ \E i \in DOMAIN strategies : Hands(i)
    PROVE  Started'
<1>1. CASE \E i \in DOMAIN strategies : Hands(i)
  <2>1. PICK i \in DOMAIN strategies : Hands(i)
    BY <1>1
  <2>2. /\ UNCHANGED <<strategies, startVars, signer, toReport, serverVars>>
        /\ place[i] = "handing" /\ place' = [place EXCEPT ![i] = "idle"]
        /\ txDataCh' = [txDataCh EXCEPT ![Key(i)] = Append(@, i)]
    BY <2>1 DEF Hands, Put
  <2>3. signer[Key(i)].at # "off"
    BY <2>2, ListFacts DEF Inv, Types, Prepared
  <2>4. \A a \in Agents : txDataCh'[a] # <<>> => signer[a].at # "off"
    BY <2>2, <2>3 DEF Inv, Types, Started
  <2>5. \A j \in DOMAIN strategies : place[j] # "off" => place'[j] # "off"
    BY <2>2 DEF Inv, Types
  <2> QED
    BY <2>2, <2>4, <2>5, StartedSame DEF startVars, serverVars
<1>2. CASE Outage \/ Reconnects
  <2>1. UNCHANGED <<strategies, startVars, place, txDataCh, signer, toReport, serverVars>>
    BY <1>2 DEF Outage, Reconnects
  <2>2. \A a \in Agents : txDataCh[a] # <<>> => signer[a].at # "off"
    BY DEF Started
  <2> QED
    BY <2>1, <2>2, StartedSame DEF startVars, serverVars
<1>3. ASSUME NEW a \in Agents, SignerStep(a) PROVE Started'
  <2>1. /\ UNCHANGED <<strategies, startVars, place, toReport, serverVars>>
        /\ \/ /\ txDataCh' = txDataCh
              /\ signer[a].at # "off"
              /\ \/ signer' = [signer EXCEPT ![a].at = "sending"]
                 \/ signer' = [signer EXCEPT ![a] = [at |-> "idle", for |-> NoInput]]
           \/ /\ txDataCh' = [txDataCh EXCEPT ![a] = Tail(@)]
              /\ signer' = [signer EXCEPT ![a] = [at |-> "signing", for |-> Head(txDataCh[a])]]
    BY <1>3 DEF SignerStep, TakesInput, Signs, Drops, Submits, Take, Sign, Drop, Pass, Idle
  <2>2. /\ signer'[a].at # "off"
        /\ \A b \in Agents : b # a => signer'[b] = signer[b] /\ txDataCh'[b] = txDataCh[b]
    BY <2>1 DEF Inv, Types
  <2>3. /\ \A b \in Agents : signer[b].at # "off" => signer'[b].at # "off"
        /\ \A b \in Agents : txDataCh'[b] # <<>> => signer'[b].at # "off"
    BY <2>2 DEF Started
  <2> QED
    BY <2>1, <2>3, StartedSame DEF startVars, serverVars
<1> QED
  BY <1>1, <1>2, <1>3

\* The metrics loop reports only when the server has been started.
LEMMA SendersStarted ==
    ASSUME Inv, Started,
           \/ Ticks \/ LoopSends \/ ServerReceives \/ ServerHandles
           \/ \E i \in DOMAIN strategies : Reports(i)
    PROVE  Started'
<1>1. CASE Ticks \/ LoopSends
  <2>1. /\ UNCHANGED <<strategies, startVars, place, signerVars, serving>>
        /\ main = "serving" \/ toReport # <<>>
    BY <1>1 DEF Ticks, LoopSends
  <2>2. serving' = TRUE
    BY <2>1 DEF Started
  <2> QED
    BY <2>1, <2>2, SameList DEF Started, startVars, signerVars
<1>2. CASE \E i \in DOMAIN strategies : Reports(i)
  <2>1. PICK i \in DOMAIN strategies : Reports(i)
    BY <1>2
  <2> DEFINE sender == [from |-> i, event |-> StrategyEvent(strategies[i].ticker, Key(i), i)]
  <2>2. /\ UNCHANGED <<strategies, startVars, signerVars, toReport, serving>>
        /\ place' = [place EXCEPT ![i] = "reporting"]
        /\ inCh' = Append(inCh, sender)
    BY <2>1 DEF Reports, Send
  <2>3. sender.from # NoOne
    BY ListFacts DEF Inv, Types
  <2> HIDE DEF sender
  <2>4. \A n \in DOMAIN inCh' : inCh'[n].from = NoOne =>
           \E m \in DOMAIN inCh : inCh[m].from = NoOne
    BY <2>2, <2>3, AppendSeq DEF Inv, Types
  <2>5. \A j \in DOMAIN strategies : place[j] # "off" => place'[j] # "off"
    BY <2>2 DEF Inv, Types
  <2>6. \A a \in Agents : txDataCh[a] # <<>> => signer[a].at # "off"
    BY DEF Started
  <2> QED
    BY <2>2, <2>4, <2>5, <2>6, StartedSame DEF startVars, signerVars
<1>3. CASE ServerReceives
  <2>1. /\ UNCHANGED <<strategies, startVars, signerVars, toReport, serving>>
        /\ inCh # <<>> /\ inCh' = Tail(inCh)
        /\ place' = [i \in DOMAIN strategies |->
                        IF i = Head(inCh).from THEN "handing" ELSE place[i]]
    BY <1>3 DEF ServerReceives, Receive
  <2>2. /\ Len(inCh) \in Nat \ {0} /\ DOMAIN inCh = 1 .. Len(inCh)
        /\ DOMAIN inCh' = 1 .. Len(inCh) - 1
        /\ \A n \in 1 .. Len(inCh) - 1 : inCh'[n] = inCh[n + 1]
    BY <2>1, TailSeq DEF Inv, Types
  <2>3. ASSUME NEW n \in DOMAIN inCh', inCh'[n].from = NoOne
        PROVE  \E m \in DOMAIN inCh : inCh[m].from = NoOne
    <3>1. n + 1 \in DOMAIN inCh /\ inCh[n + 1].from = NoOne
      BY <2>2, <2>3
    <3> QED
      BY <3>1
  <2>4. \A a \in Agents : txDataCh[a] # <<>> => signer[a].at # "off"
    BY DEF Started
  <2> QED
    BY <2>1, <2>3, <2>4, StartedSame DEF startVars, signerVars
<1>4. CASE ServerHandles
  <2>1. UNCHANGED <<strategies, startVars, place, signerVars, toReport, serving, inCh>>
    BY <1>4 DEF ServerHandles, HandleEvent
  <2>2. \A a \in Agents : txDataCh[a] # <<>> => signer[a].at # "off"
    BY DEF Started
  <2> QED
    BY <2>1, <2>2, StartedSame DEF startVars, signerVars
<1> QED
  BY <1>1, <1>2, <1>3, <1>4

LEMMA StartedKept == Spec => []Started
<1>1. Inv /\ Started /\ [Next]_vars => Started'
  <2>1. ASSUME Inv, Started, UNCHANGED vars PROVE Started'
    <3>1. UNCHANGED <<strategies, main, agentAt, place, txDataCh, signer, toReport, inCh, serving>>
      BY <2>1 DEF vars, startVars, runVars, signerVars, serverVars
    <3> QED
      BY <2>1, <3>1, SameList DEF Started
  <2> QED
    BY <2>1, MainStarts, SignersStarted, SendersStarted DEF Next, Beside
<1> QED
  BY <1>1, InitStarted, InvKept, PTL DEF Spec

\* However many strategies and agents there are, whoever is blocked waits for
\* somebody who can take a step: no circle of channels closes.
THEOREM SomebodyMoves == Spec => []NobodyWaitsInVain
<1>1. Inv /\ Metrics /\ Started => NobodyWaitsInVain
  <2> SUFFICES ASSUME Inv, Metrics, Started, Alive
               PROVE  /\ \A i \in Registered(strategies) :
                            /\ place[i] = "off" => Starting
                            /\ place[i] = "reporting" => Starting \/ ServerMoves
                            /\ Blocked(i) => SignerMoves(Key(i))
                      /\ toReport # <<>> =>
                            ServerMoves \/ \A n \in DOMAIN inCh : inCh[n].from # NoOne
    BY DEF NobodyWaitsInVain
  <2>1. /\ Starting \/ main = "serving"
        /\ main = "serving" => serving
    BY DEF Inv, Types, Alive, Starting, Started
  <2>2. \A n \in DOMAIN inCh : inCh # <<>>
    OBVIOUS
  <2>3. ASSUME NEW i \in Registered(strategies)
        PROVE  /\ place[i] = "off" => Starting
               /\ place[i] = "reporting" => Starting \/ ServerMoves
               /\ Blocked(i) => SignerMoves(Key(i))
    <3>1. i \in DOMAIN strategies /\ Key(i) \in Agents
      BY ListFacts DEF Inv, Types
    <3>2. place[i] = "off" => Starting
      BY <2>1, <3>1 DEF Started
    <3>3. ASSUME place[i] = "reporting" PROVE Starting \/ ServerMoves
      <4>1. PICK n \in DOMAIN inCh : inCh[n].from = i
        BY <3>1, <3>3 DEF Metrics, Channel
      <4> QED
        BY <2>1, <2>2, <4>1 DEF ServerMoves
    <3>4. ASSUME Blocked(i) PROVE SignerMoves(Key(i))
      <4>1. txDataCh[Key(i)] # <<>>
        BY <3>4 DEF Blocked
      <4>2. signer[Key(i)].at \in {"idle", "signing", "sending"}
        BY <3>1, <4>1 DEF Started, Inv, Types
      <4> QED
        BY <4>1, <4>2 DEF SignerMoves
    <3> QED
      BY <3>2, <3>3, <3>4
  <2>4. ASSUME NEW n \in DOMAIN inCh, inCh[n].from = NoOne
        PROVE  ServerMoves
    BY <2>2, <2>4 DEF ServerMoves, Started
  <2> QED
    BY <2>3, <2>4
<1> QED
  BY <1>1, InvKept, MetricsKept, StartedKept, PTL

-----------------------------------------------------------------------------
(* The tables of the parts.                                                *)

SameMarket(i, j) ==
    strategies[i].agent = strategies[j].agent /\ strategies[i].market = strategies[j].market

\* Of the strategies of one agent for one market the first is registered.
LEMMA FirstRegistered ==
    ASSUME strategies \in Lists, NEW i \in DOMAIN strategies
    PROVE  \E j \in Registered(strategies) : SameMarket(i, j)
<1> DEFINE T == {j \in DOMAIN strategies : SameMarket(i, j)}
<1>1. T \subseteq Nat /\ T # {}
  BY ListFacts DEF SameMarket
<1>2. PICK j \in T : \A k \in T : ~(<<k, j>> \in OpToRel(<, Nat))
  <2> HIDE DEF T
  <2> QED
    BY <1>1, NatLessThanWellFounded, WFMin
<1>3. \A k \in T : ~(k < j)
  BY <1>1, <1>2 DEF OpToRel
<1>4. \A k \in 1 .. j - 1 : k \in DOMAIN strategies /\ k < j
  <2>1. /\ Len(strategies) \in Nat /\ DOMAIN strategies = 1 .. Len(strategies)
        /\ j \in DOMAIN strategies
    BY <1>2, ListFacts
  <2>2. j \in Nat /\ j <= Len(strategies)
    BY <2>1
  <2> QED
    BY <2>1, <2>2
<1>5. j \in Registered(strategies)
  BY <1>2, <1>3, <1>4 DEF Registered, SameMarket
<1> QED
  BY <1>2, <1>5

\* Two registered strategies of one agent are for two markets.
LEMMA OneForAMarket ==
    ASSUME strategies \in Lists, NEW i \in Registered(strategies),
           NEW j \in Registered(strategies), SameMarket(i, j)
    PROVE  i = j
<1>1. i \in Nat \ {0} /\ j \in Nat \ {0}
  BY ListFacts
<1>2. ~(i < j) /\ ~(j < i)
  BY <1>1 DEF Registered, SameMarket
<1> QED
  BY <1>1, <1>2

\* The data engine, the worker and the agents know the same strategies, and
\* the data client finds a strategy's own store, for any list of main's,
\* with whatever strategies come twice.
THEOREM PartsWiredAlike == Spec => []WiredAlike
<1>1. strategies \in Lists => WiredAlike
  <2> SUFFICES ASSUME strategies \in Lists PROVE WiredAlike
    OBVIOUS
  <2>1. Known(strategies) = Registered(strategies)
    BY ListFacts DEF Known, Agents
  <2>2. \A i \in Registered(strategies) : KeyOf(strategies, i) = Key(i)
    BY DEF KeyOf, Key
  <2>3. ServedKeys(strategies) = PowAgents(strategies)
    <3>1. \A a \in AgentsOf(strategies) : \E i \in Registered(strategies) : Key(i) = a
      BY FirstRegistered DEF AgentsOf, SameMarket, Key
    <3>2. \A i \in Registered(strategies) : Key(i) \in AgentsOf(strategies)
      BY ListFacts DEF Agents
    <3> QED
      BY <2>1, <2>2, <3>1, <3>2 DEF ServedKeys, PowAgents
  <2>4. ASSUME NEW a \in Agents
        PROVE  NumStrats(strategies)[a] = Cardinality({i \in Known(strategies) : Key(i) = a})
    <3>1. {i \in Known(strategies) : Key(i) = a} = StrategiesOf(strategies, a)
      BY <2>1 DEF StrategiesOf, Key
    <3> QED
      BY <3>1 DEF NumStrats, Agents
  <2>5. ASSUME NEW i \in Registered(strategies)
        PROVE  MayServe(strategies, strategies[i].market, Key(i)) = {i}
    <3>1. \A j \in MayServe(strategies, strategies[i].market, Key(i)) : j = i
      BY <2>1, <2>2, OneForAMarket DEF MayServe, SameMarket, Key
    <3>2. i \in MayServe(strategies, strategies[i].market, Key(i))
      BY <2>1, <2>2 DEF MayServe
    <3> QED
      BY <3>1, <3>2
  <2> QED
    BY <2>3, <2>4, <2>5 DEF WiredAlike
<1>2. Inv => strategies \in Lists
  BY DEF Inv, Types
<1> QED
  BY <1>1, <1>2, InvKept, PTL
=============================================================================
