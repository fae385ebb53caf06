-------------------------- MODULE VegaOrdersProofs --------------------------
(***************************************************************************)
(* For any agents, orders and number of streams, in any interleaving: once *)
(* the streams have caught up each store has exactly its agent's active    *)
(* orders, and misses none of the orders of the other parties.             *)
(***************************************************************************)
EXTENDS VegaOrders, FiniteSetTheorems, SequenceTheorems, TLAPS

Stores == DOMAIN Agents
Alive(g) == place[g] \in {"clear", "snapshot", "write", "recv"}
OrderOf(i) == log[i].order

\* The streams are numbered as they open, and a dead one knows the newest of
\* its time.
BornInv ==
    /\ {g \in Streams : place[g] # "unborn"} = 1 .. Newest
    /\ \A g \in Streams :
          /\ place[g] = "dead" => died[g] \in g .. Newest
          /\ died[g] # 0 => place[g] = "dead"

\* An order has at most two events, and the second ends it.
LogInv ==
    \A i, j \in DOMAIN log :
        OrderOf(i) = OrderOf(j) /\ i < j => log[i].active /\ ~log[j].active

\* A list holds events of its party that the stream has received, and with
\* an event all the later ones of that order; the list of an own party is
\* empty but from a message to the visit of its store.
Lists(g) ==
    /\ place[g] \in {"snapshot", "recv"} => store[g] = 1
    /\ place[g] \in {"unborn", "clear", "snapshot", "dead"} =>
          \A p \in Parties : orderMap[g][p] = {}
    /\ \A s \in Stores : orderMap[g][Agents[s]] # {} => place[g] = "write" /\ store[g] <= s
    /\ \A p \in Parties : \A i \in orderMap[g][p] :
          /\ Owner[OrderOf(i)] = p /\ i <= pos[g]
          /\ \A j \in DOMAIN log :
                i < j /\ j <= pos[g] /\ OrderOf(j) = OrderOf(i) => j \in orderMap[g][p]

ListInv == \A g \in Streams : Lists(g)

\* Stream g will still receive event i; or it died, and no stream has opened
\* since: the reconnect it asked for is yet to come.
Coming(g, i) == Alive(g) /\ pos[g] < i
Reconnecting(g) == place[g] = "dead" /\ died[g] = Newest

\* Some stream will put the order of event i into its own store s, or into
\* the external orders of store s, or will take it out of its own store s.
WillAdd(s, i) ==
    \E g \in Streams :
        \/ Coming(g, i) \/ Reconnecting(g) \/ place[g] \in {"clear", "snapshot"}
        \/ i \in orderMap[g][Agents[s]]

WillTell(s, i) ==
    \E g \in Streams :
        \/ Coming(g, i) \/ Reconnecting(g) \/ place[g] \in {"clear", "snapshot"}
        \/ place[g] = "write" /\ store[g] <= s /\ i \in orderMap[g][Owner[OrderOf(i)]]

WillRemove(s, i) ==
    \E g \in Streams :
        \/ Coming(g, i) \/ Reconnecting(g)
        \/ place[g] = "clear" /\ store[g] <= s
        \/ i \in orderMap[g][Agents[s]]

\* No event has ended the order.
Open(o) == \A i \in DOMAIN log : OrderOf(i) = o => log[i].active

\* Streams will mend what a store lacks or has too much, as long as there is
\* one at all.
OwnOnly ==
    \A s \in Stores : \A o \in orders[s] :
        Newest > 0 /\ Owner[o] = Agents[s] /\ OfOrder(DOMAIN log, o) # {}

AddInv ==
    \A s \in Stores : \A i \in DOMAIN log :
        /\ Newest > 0 /\ Owner[OrderOf(i)] = Agents[s]
        /\ Open(OrderOf(i)) /\ OrderOf(i) \notin orders[s]
        => WillAdd(s, i)

RemoveInv ==
    \A s \in Stores : \A i \in DOMAIN log :
        ~log[i].active /\ OrderOf(i) \in orders[s] => WillRemove(s, i)

ForeignInv ==
    \A s \in Stores : \A i \in DOMAIN log :
        /\ Newest > 0 /\ Owner[OrderOf(i)] \in Foreign
        /\ Open(OrderOf(i)) /\ OrderOf(i) \notin external[s]
        => WillTell(s, i)

Inv == TypeOK /\ BornInv /\ LogInv /\ ListInv /\ OwnOnly /\ AddInv /\ RemoveInv
       /\ ForeignInv

-----------------------------------------------------------------------------
(* The parameters, the network's log, and what the actions change.         *)

LEMMA StoresAre ==
    /\ Len(Agents) \in Nat \ {0} /\ Stores = 1 .. Len(Agents)
    /\ \A s \in Stores : Agents[s] \in Own /\ Agents[s] \in Parties /\ Agents[s] \notin Foreign
    /\ \A s, t \in Stores : Agents[s] = Agents[t] => s = t
    /\ Foreign \subseteq Parties
BY OrdersAssumption DEF Stores, Own, Parties

LEMMA EventIs ==
    ASSUME TypeOK, NEW i \in DOMAIN log
    PROVE  OrderOf(i) \in Orders /\ Owner[OrderOf(i)] \in Parties
<1>1. log[i] \in Events
  BY DEF TypeOK
<1> QED
  BY <1>1, OrdersAssumption DEF OrderOf, Events

\* Events of an order leave it active exactly if none of them ends it.
LEMMA ActiveIff ==
    ASSUME TypeOK, LogInv, NEW o \in Orders, NEW events \in SUBSET DOMAIN log,
           OfOrder(events, o) # {}
    PROVE  Active(events, o) <=> \A i \in OfOrder(events, o) : log[i].active
<1>1. DOMAIN log \subseteq Nat
  BY DEF TypeOK
<1>2. \A i, j \in OfOrder(events, o) : i < j => log[i].active /\ ~log[j].active
  BY DEF LogInv, OrderOf, OfOrder
<1>3. \E i \in OfOrder(events, o) : \A j \in OfOrder(events, o) : j <= i
  <2>1. PICK i \in OfOrder(events, o) : TRUE
    OBVIOUS
  <2>2. CASE \A j \in OfOrder(events, o) : j <= i
    BY <2>2
  <2>3. CASE \E j \in OfOrder(events, o) : ~(j <= i)
    <3>1. PICK j \in OfOrder(events, o) : ~(j <= i)
      BY <2>3
    <3>2. i \in Nat /\ j \in Nat /\ i < j
      BY <1>1, <3>1 DEF OfOrder
    <3>3. ASSUME NEW k \in OfOrder(events, o), ~(k <= j) PROVE FALSE
      <4>1. k \in Nat /\ j < k
        BY <1>1, <3>2, <3>3 DEF OfOrder
      <4> QED
        BY <1>2, <3>2, <4>1
    <3> QED
      BY <3>3
  <2> QED
    BY <2>2, <2>3
<1>4. /\ LastOf(events, o) \in OfOrder(events, o)
      /\ \A j \in OfOrder(events, o) : j <= LastOf(events, o)
  BY <1>3 DEF LastOf
<1>5. ASSUME NEW i \in OfOrder(events, o), i # LastOf(events, o)
      PROVE  ~log[LastOf(events, o)].active
  <2>1. i \in Nat /\ LastOf(events, o) \in Nat /\ i < LastOf(events, o)
    BY <1>1, <1>4, <1>5 DEF OfOrder
  <2> QED
    BY <1>2, <1>4, <2>1
<1> QED
  BY <1>4, <1>5 DEF Active

LEMMA SetOrdersAre ==
    ASSUME TypeOK, LogInv, NEW o \in Orders, NEW known, NEW events \in SUBSET DOMAIN log
    PROVE  o \in SetOrders(known, events) <=>
              IF OfOrder(events, o) # {} THEN \A i \in OfOrder(events, o) : log[i].active
                                         ELSE o \in known
BY ActiveIff DEF SetOrders

LEMMA LiveAre ==
    ASSUME TypeOK, LogInv, NEW o \in Orders, NEW n \in 0 .. Len(log)
    PROVE  o \in Live(n) <=>
              OfOrder(1 .. n, o) # {} /\ \A i \in OfOrder(1 .. n, o) : log[i].active
<1>1. 1 .. n \in SUBSET DOMAIN log
  BY DEF TypeOK
<1> QED
  BY <1>1, ActiveIff DEF Live

\* The network's step appends an event.
LEMMA NetworkAppends ==
    ASSUME TypeOK, NEW o \in Orders, OrderPlaced(o) \/ OrderEnds(o)
    PROVE  /\ log' \in Seq(Events) /\ Len(log) \in Nat /\ Len(log') = Len(log) + 1
           /\ DOMAIN log = 1 .. Len(log) /\ DOMAIN log' = 1 .. Len(log) + 1
           /\ \A i \in DOMAIN log : log'[i] = log[i]
           /\ log'[Len(log) + 1].order = o
           /\ log'[Len(log) + 1].active <=> OrderPlaced(o)
           /\ UNCHANGED <<streamVars, orders, external>>
<1>1. log \in Seq(Events) /\ Len(log) \in Nat /\ DOMAIN log = 1 .. Len(log)
  BY DEF TypeOK
<1>2. CASE OrderPlaced(o)
  BY <1>1, <1>2 DEF OrderPlaced, Events
<1>3. CASE OrderEnds(o) /\ ~OrderPlaced(o)
  BY <1>1, <1>3 DEF OrderEnds, Events
<1> QED
  BY <1>2, <1>3

LEMMA NewestIs ==
    ASSUME TypeOK
    PROVE  Newest \in 0 .. MaxStreams
<1> DEFINE born == {g \in Streams : place[g] # "unborn"}
<1>1. IsFiniteSet(Streams) /\ Cardinality(Streams) = MaxStreams
  BY FS_Interval, OrdersAssumption DEF Streams
<1>2. Cardinality(born) \in Nat /\ Cardinality(born) <= MaxStreams
  <2>1. IsFiniteSet(born) /\ Cardinality(born) <= Cardinality(Streams)
    BY <1>1, FS_Subset
  <2> QED
    BY <1>1, <2>1, FS_CardinalityType
<1> QED
  BY <1>2, OrdersAssumption DEF Newest

\* What every step of a stream keeps; only Opens makes a stream newer.
LEMMA SameNewest ==
    ASSUME TypeOK, NEW g \in Streams,
           Clears(g) \/ ReceivesSnapshot(g) \/ ReceivesUpdates(g) \/ Writes(g) \/ Dies(g)
    PROVE  /\ Newest' = Newest
           /\ UNCHANGED log
           /\ place[g] # "unborn" /\ place'[g] # "unborn"
           /\ \A h \in Streams : h # g => place'[h] = place[h]
<1>1. /\ UNCHANGED log
      /\ place[g] # "unborn" /\ place'[g] # "unborn"
      /\ \A h \in Streams : h # g => place'[h] = place[h]
  BY DEF TypeOK, Clears, ReceivesSnapshot, ReceivesUpdates, Writes, Dies, NextStore
<1>2. {h \in Streams : place'[h] # "unborn"} = {h \in Streams : place[h] # "unborn"}
  BY <1>1
<1> QED
  BY <1>1, <1>2 DEF Newest

LEMMA OpensNewest ==
    ASSUME TypeOK, BornInv, NEW g \in Streams, Opens(g)
    PROVE  /\ Newest' = Newest + 1 /\ g = Newest + 1
           /\ {h \in Streams : place'[h] # "unborn"} = 1 .. Newest'
           /\ place[g] = "unborn"
<1>1. Newest \in Nat /\ g = Newest + 1
  BY NewestIs, OrdersAssumption DEF Opens
<1>2. {h \in Streams : place[h] # "unborn"} = 1 .. Newest
  BY DEF BornInv
<1>3. g \notin 1 .. Newest /\ 1 .. g = (1 .. Newest) \cup {g}
  BY <1>1
<1>4. {h \in Streams : place'[h] # "unborn"} = 1 .. g
  BY <1>2, <1>3 DEF Opens, TypeOK
<1>5. Newest' = Cardinality(1 .. g)
  BY <1>4 DEF Newest
<1>6. Cardinality(1 .. g) = g
  BY <1>1, FS_Interval
<1> QED
  BY <1>1, <1>2, <1>3, <1>4, <1>5, <1>6

-----------------------------------------------------------------------------
(* Type correctness, the numbers of the streams, and the log.              *)

LEMMA NextStoreTypes ==
    ASSUME TypeOK, NEW g \in Streams, NEW then \in {"snapshot", "recv"}, NextStore(g, then)
    PROVE  /\ store' \in [Streams -> DOMAIN Agents]
           /\ place' \in [Streams -> {"unborn", "clear", "snapshot", "write", "recv", "dead"}]
<1>1. CASE store[g] = Len(Agents)
  <2>1. 1 \in DOMAIN Agents
    BY StoresAre DEF Stores
  <2> QED
    BY <1>1, <2>1 DEF NextStore, TypeOK
<1>2. CASE store[g] # Len(Agents)
  <2>1. store[g] + 1 \in DOMAIN Agents
    BY <1>2, StoresAre DEF TypeOK, Stores
  <2> QED
    BY <1>2, <2>1 DEF NextStore, TypeOK
<1> QED
  BY <1>1, <1>2

LEMMA TypeStep == ASSUME TypeOK, BornInv, [Next]_vars PROVE TypeOK'
<1>1. /\ Len(log) \in Nat /\ DOMAIN log = 1 .. Len(log) /\ log \in Seq(Events)
      /\ MaxStreams \in Nat
  BY OrdersAssumption DEF TypeOK
<1>2. ASSUME NEW o \in Orders, OrderPlaced(o) \/ OrderEnds(o) PROVE TypeOK'
  <2>1. /\ log' \in Seq(Events) /\ Len(log') = Len(log) + 1
        /\ DOMAIN log \subseteq DOMAIN log'
        /\ UNCHANGED <<streamVars, orders, external>>
    BY <1>1, <1>2, NetworkAppends
  <2> QED
    BY <1>1, <2>1 DEF TypeOK, streamVars
<1>3. ASSUME NEW g \in Streams, Opens(g) PROVE TypeOK'
  BY <1>1, <1>3, StoresAre DEF TypeOK, Opens, Stores
<1>4. ASSUME NEW g \in Streams, Clears(g) PROVE TypeOK'
  BY <1>1, <1>4, NextStoreTypes DEF TypeOK, Clears
<1>5. ASSUME NEW g \in Streams, ReceivesSnapshot(g) PROVE TypeOK'
  <2>1. Snapshot(pos[g]) \subseteq DOMAIN log
    BY <1>1 DEF TypeOK, Snapshot
  <2>2. Sorted(orderMap[g], Snapshot(pos[g])) \in [Parties -> SUBSET DOMAIN log]
    BY <2>1 DEF TypeOK, Sorted
  <2> QED
    BY <1>1, <1>5, <2>2 DEF TypeOK, ReceivesSnapshot
<1>6. ASSUME NEW g \in Streams, ReceivesUpdates(g) PROVE TypeOK'
  <2>1. PICK n \in (pos[g] + 1) .. Len(log) :
           /\ pos' = [pos EXCEPT ![g] = n]
           /\ orderMap' = [orderMap EXCEPT ![g] = Sorted(@, (pos[g] + 1) .. n)]
    BY <1>6 DEF ReceivesUpdates
  <2>2. (pos[g] + 1) .. n \subseteq DOMAIN log /\ n \in 0 .. Len(log)
    BY <1>1 DEF TypeOK
  <2>3. Sorted(orderMap[g], (pos[g] + 1) .. n) \in [Parties -> SUBSET DOMAIN log]
    BY <2>2 DEF TypeOK, Sorted
  <2> QED
    BY <1>1, <1>6, <2>1, <2>2, <2>3 DEF TypeOK, ReceivesUpdates
<1>7. ASSUME NEW g \in Streams, Writes(g) PROVE TypeOK'
  <2>1. /\ SetOrders(orders[store[g]], orderMap[g][Agents[store[g]]]) \subseteq Orders
        /\ External(external[store[g]], orderMap[g], Agents[store[g]]) \subseteq Orders
    BY DEF SetOrders, External
  <2>2. Emptied(orderMap[g], Agents[store[g]]) \in [Parties -> SUBSET DOMAIN log]
    BY StoresAre DEF TypeOK, Emptied, Stores
  <2> QED
    BY <1>1, <1>7, <2>1, <2>2, NextStoreTypes DEF TypeOK, Writes
<1>8. ASSUME NEW g \in Streams, Dies(g) PROVE TypeOK'
  BY <1>1, <1>8, NewestIs DEF TypeOK, Dies
<1>9. CASE UNCHANGED vars
  BY <1>9 DEF TypeOK, vars, streamVars
<1> QED
  BY <1>2, <1>3, <1>4, <1>5, <1>6, <1>7, <1>8, <1>9 DEF Next, Stream

LEMMA BornStep == ASSUME TypeOK, BornInv, [Next]_vars PROVE BornInv'
<1>1. ASSUME NEW o \in Orders, OrderPlaced(o) \/ OrderEnds(o) PROVE BornInv'
  BY <1>1 DEF OrderPlaced, OrderEnds, BornInv, Newest, streamVars
<1>2. ASSUME NEW g \in Streams, Opens(g) PROVE BornInv'
  <2>1. Newest \in Nat /\ Newest' = Newest + 1 /\ g = Newest + 1
    BY <1>2, NewestIs, OpensNewest, OrdersAssumption
  <2>2. /\ place'[g] = "clear" /\ place[g] = "unborn" /\ UNCHANGED died
        /\ \A h \in Streams : h # g => place'[h] = place[h]
    BY <1>2, OpensNewest DEF Opens, TypeOK
  <2>3. ASSUME NEW h \in Streams, place'[h] = "dead" PROVE died'[h] \in h .. Newest'
    <3>1. died[h] \in h .. Newest
      BY <2>2, <2>3 DEF BornInv
    <3> QED
      BY <2>1, <2>2, <3>1
  <2>4. ASSUME NEW h \in Streams, died'[h] # 0 PROVE place'[h] = "dead"
    BY <2>2, <2>4 DEF BornInv
  <2>5. {h \in Streams : place'[h] # "unborn"} = 1 .. Newest'
    BY <1>2, OpensNewest
  <2> QED
    BY <2>3, <2>4, <2>5 DEF BornInv
<1>3. ASSUME NEW g \in Streams, Dies(g) PROVE BornInv'
  <2>1. Newest \in Nat /\ Newest' = Newest
    BY <1>3, NewestIs, SameNewest, OrdersAssumption
  <2>2. /\ g \in 1 .. Newest /\ died'[g] = Newest /\ place'[g] = "dead"
        /\ \A h \in Streams : h # g => place'[h] = place[h] /\ died'[h] = died[h]
    BY <1>3, SameNewest DEF Dies, BornInv, TypeOK
  <2>3. {h \in Streams : place'[h] # "unborn"} = 1 .. Newest
    BY <1>3, SameNewest DEF BornInv
  <2>4. Newest \in g .. Newest
    BY <2>1, <2>2
  <2> QED
    BY <2>1, <2>2, <2>3, <2>4 DEF BornInv
<1>4. ASSUME NEW g \in Streams,
             Clears(g) \/ ReceivesSnapshot(g) \/ ReceivesUpdates(g) \/ Writes(g)
      PROVE  BornInv'
  <2>1. /\ Newest' = Newest
        /\ {h \in Streams : place'[h] # "unborn"} = {h \in Streams : place[h] # "unborn"}
    BY <1>4, SameNewest
  <2>2. /\ UNCHANGED died
        /\ place[g] # "dead" /\ place'[g] # "dead"
        /\ \A h \in Streams : h # g => place'[h] = place[h]
    BY <1>4 DEF Clears, ReceivesSnapshot, ReceivesUpdates, Writes, NextStore, TypeOK
  <2> QED
    BY <2>1, <2>2 DEF BornInv
<1>5. CASE UNCHANGED vars
  BY <1>5 DEF vars, streamVars, BornInv, Newest
<1> QED
  BY <1>1, <1>2, <1>3, <1>4, <1>5 DEF Next, Stream

LEMMA LogStep == ASSUME TypeOK, LogInv, [Next]_vars PROVE LogInv'
<1>1. DOMAIN log = 1 .. Len(log) /\ Len(log) \in Nat
  BY DEF TypeOK
<1>2. ASSUME NEW o \in Orders, OrderPlaced(o) PROVE LogInv'
  <2>1. \A i \in DOMAIN log : log[i].order # o
    BY <1>2 DEF OrderPlaced, OfOrder
  <2> QED
    BY <1>1, <1>2, <2>1, NetworkAppends DEF LogInv, OrderOf
<1>3. ASSUME NEW o \in Orders, OrderEnds(o), ~OrderPlaced(o) PROVE LogInv'
  <2>1. \A i \in DOMAIN log : log[i].order = o => log[i].active
    BY <1>1, <1>3, LiveAre DEF OrderEnds, OfOrder
  <2> QED
    BY <1>1, <1>3, <2>1, NetworkAppends DEF LogInv, OrderOf
<1>4. ASSUME NEW g \in Streams, Stream(g) PROVE UNCHANGED log
  BY <1>4 DEF Stream, Opens, Clears, ReceivesSnapshot, ReceivesUpdates, Writes, Dies
<1>5. ASSUME UNCHANGED log PROVE LogInv'
  BY <1>5 DEF LogInv, OrderOf
<1> QED
  BY <1>2, <1>3, <1>4, <1>5 DEF Next, vars

-----------------------------------------------------------------------------
(* The lists.                                                              *)

LEMMA OthersKept ==
    ASSUME TypeOK, NEW g \in Streams, Stream(g)
    PROVE  /\ UNCHANGED log
           /\ \A h \in Streams : h # g =>
                 /\ place'[h] = place[h] /\ store'[h] = store[h] /\ pos'[h] = pos[h]
                 /\ orderMap'[h] = orderMap[h] /\ died'[h] = died[h]
<1>1. CASE Opens(g)
  BY <1>1 DEF TypeOK, Opens
<1>2. CASE Clears(g)
  BY <1>2 DEF TypeOK, Clears, NextStore
<1>3. CASE ReceivesSnapshot(g)
  BY <1>3 DEF TypeOK, ReceivesSnapshot
<1>4. CASE ReceivesUpdates(g)
  BY <1>4 DEF TypeOK, ReceivesUpdates
<1>5. CASE Writes(g)
  BY <1>5 DEF TypeOK, Writes, NextStore
<1>6. CASE Dies(g)
  BY <1>6 DEF TypeOK, Dies
<1> QED
  BY <1>1, <1>2, <1>3, <1>4, <1>5, <1>6 DEF Stream

\* What a message adds to the lists of a stream, and with it to what the
\* stream has received.
LEMMA SortedAre ==
    ASSUME TypeOK, NEW g \in Streams, NEW p \in Parties, NEW events \in SUBSET DOMAIN log
    PROVE  \A i : i \in Sorted(orderMap[g], events)[p] <=>
              i \in orderMap[g][p] \/ (i \in events /\ Owner[OrderOf(i)] = p)
BY DEF Sorted, OrderOf

LEMMA ListsSnapshot ==
    ASSUME TypeOK, LogInv, NEW g \in Streams, Lists(g), ReceivesSnapshot(g)
    PROVE  Lists(g)'
<1>1. /\ place[g] = "snapshot" /\ place'[g] = "write" /\ store[g] = 1 /\ store'[g] = 1
      /\ pos'[g] = pos[g] /\ pos[g] \in 0 .. Len(log) /\ UNCHANGED log
      /\ DOMAIN log = 1 .. Len(log) /\ Len(log) \in Nat
      /\ orderMap'[g] = Sorted(orderMap[g], Snapshot(pos[g]))
      /\ \A p \in Parties : orderMap[g][p] = {}
  BY DEF TypeOK, Lists, ReceivesSnapshot
<1>2. Snapshot(pos[g]) \in SUBSET DOMAIN log
  BY <1>1 DEF Snapshot
<1>3. \A p \in Parties : \A i :
         i \in orderMap'[g][p] <=> i \in Snapshot(pos[g]) /\ Owner[OrderOf(i)] = p
  <2> DEFINE events == Snapshot(pos[g])
  <2>1. \A p \in Parties : \A i : i \in Sorted(orderMap[g], events)[p] <=>
           i \in orderMap[g][p] \/ (i \in events /\ Owner[OrderOf(i)] = p)
    BY <1>2, SortedAre
  <2> QED
    BY <1>1, <2>1
<1>4. ASSUME NEW i \in Snapshot(pos[g]), NEW j \in DOMAIN log, i < j, j <= pos[g],
             OrderOf(j) = OrderOf(i)
      PROVE  FALSE
  <2>1. i \in DOMAIN log /\ OrderOf(i) \in Orders /\ OrderOf(i) \in Live(pos[g])
    <3>1. i \in 1 .. Len(log) /\ log[i].order \in Live(pos[g])
      BY <1>1 DEF Snapshot
    <3>2. log[i] \in Events
      BY <3>1 DEF TypeOK
    <3> QED
      BY <1>1, <3>1, <3>2 DEF OrderOf, Events
  <2>2. log[j].active
    BY <1>1, <1>4, <2>1, LiveAre DEF OfOrder, OrderOf
  <2> QED
    BY <1>4, <2>1, <2>2 DEF LogInv
<1>5. \A s \in Stores : store'[g] <= s
  BY <1>1, StoresAre
<1>6. \A p \in Parties : \A i \in orderMap'[g][p] :
          /\ Owner[OrderOf(i)] = p /\ i <= pos[g]
          /\ \A j \in DOMAIN log : ~(i < j /\ j <= pos[g] /\ OrderOf(j) = OrderOf(i))
  BY <1>1, <1>3, <1>4 DEF Snapshot
<1> QED
  BY <1>1, <1>5, <1>6 DEF Lists, OrderOf

LEMMA ListsUpdates ==
    ASSUME TypeOK, NEW g \in Streams, Lists(g), ReceivesUpdates(g)
    PROVE  Lists(g)'
<1>1. PICK n \in (pos[g] + 1) .. Len(log) :
         /\ pos' = [pos EXCEPT ![g] = n]
         /\ orderMap' = [orderMap EXCEPT ![g] = Sorted(@, (pos[g] + 1) .. n)]
  BY DEF ReceivesUpdates
<1>2. /\ place[g] = "recv" /\ place'[g] = "write" /\ store[g] = 1 /\ store'[g] = 1
      /\ pos'[g] = n /\ pos[g] \in 0 .. Len(log) /\ n \in Nat /\ UNCHANGED log
      /\ DOMAIN log = 1 .. Len(log) /\ Len(log) \in Nat
      /\ orderMap'[g] = Sorted(orderMap[g], (pos[g] + 1) .. n)
      /\ \A p \in Parties : orderMap[g][p] \subseteq DOMAIN log
  BY <1>1 DEF TypeOK, Lists, ReceivesUpdates
<1>3. (pos[g] + 1) .. n \in SUBSET DOMAIN log
  BY <1>2
<1>4. \A p \in Parties : \A i :
         i \in orderMap'[g][p] <=>
            i \in orderMap[g][p] \/ (i \in (pos[g] + 1) .. n /\ Owner[OrderOf(i)] = p)
  <2> DEFINE events == (pos[g] + 1) .. n
  <2> HIDE DEF events
  <2>1. \A p \in Parties : \A i : i \in Sorted(orderMap[g], events)[p] <=>
           i \in orderMap[g][p] \/ (i \in events /\ Owner[OrderOf(i)] = p)
    BY <1>3, SortedAre DEF events
  <2> QED
    BY <1>2, <2>1 DEF events
<1>5. ASSUME NEW p \in Parties, NEW i \in orderMap'[g][p]
      PROVE  /\ Owner[OrderOf(i)] = p /\ i <= n
             /\ \A j \in DOMAIN log :
                   i < j /\ j <= n /\ OrderOf(j) = OrderOf(i) => j \in orderMap'[g][p]
  <2>1. Owner[OrderOf(i)] = p
    BY <1>4, <1>5 DEF Lists
  <2>2. i \in Nat /\ i <= n
    BY <1>2, <1>4, <1>5 DEF Lists
  <2>3. ASSUME NEW j \in DOMAIN log, i < j, j <= n, OrderOf(j) = OrderOf(i)
        PROVE  j \in orderMap'[g][p]
    <3>1. CASE j <= pos[g]
      <4>1. i \in orderMap[g][p]
        BY <1>2, <1>4, <1>5, <2>2, <2>3, <3>1
      <4> QED
        BY <1>4, <2>3, <3>1, <4>1 DEF Lists
    <3>2. CASE ~(j <= pos[g])
      <4>1. j \in (pos[g] + 1) .. n
        BY <1>2, <2>3, <3>2
      <4> QED
        BY <1>4, <2>1, <2>3, <4>1
    <3> QED
      BY <3>1, <3>2
  <2> QED
    BY <2>1, <2>2, <2>3
<1>6. \A s \in Stores : store'[g] <= s
  BY <1>2, StoresAre
<1> QED
  BY <1>2, <1>5, <1>6 DEF Lists, OrderOf

\* The stores before the next one have been visited.
LEMMA NextStoreIs ==
    ASSUME TypeOK, NEW g \in Streams, NEW then, NextStore(g, then)
    PROVE  /\ store[g] \in Stores
           /\ \/ store[g] = Len(Agents) /\ place'[g] = then /\ store'[g] = 1
              \/ store[g] < Len(Agents) /\ place'[g] = place[g] /\ store'[g] = store[g] + 1
           /\ \A s \in Stores : store[g] <= s /\ s # store[g] =>
                 place'[g] = place[g] /\ store'[g] <= s
<1>1. store[g] \in Stores
  BY DEF TypeOK, Stores
<1>2. CASE store[g] = Len(Agents)
  BY <1>1, <1>2, StoresAre DEF NextStore, TypeOK
<1>3. CASE store[g] # Len(Agents)
  BY <1>1, <1>3, StoresAre DEF NextStore, TypeOK
<1> QED
  BY <1>1, <1>2, <1>3

\* What a visit does to the two maps and the lists.
LEMMA WritesAre ==
    ASSUME TypeOK, NEW g \in Streams, Writes(g)
    PROVE  LET s == store[g]
               self == Agents[s]
           IN  /\ s \in Stores /\ self \in Parties
               /\ orders'[s] = SetOrders(orders[s], orderMap[g][self])
               /\ external'[s] = External(external[s], orderMap[g], self)
               /\ \A t \in Stores : t # s => orders'[t] = orders[t] /\ external'[t] = external[t]
               /\ orderMap'[g][self] = {}
               /\ \A p \in Parties : p # self => orderMap'[g][p] = orderMap[g][p]
               /\ place[g] = "write" /\ NextStore(g, "recv")
               /\ UNCHANGED <<log, pos, died>>
<1>1. store[g] \in Stores /\ Agents[store[g]] \in Parties
  BY StoresAre DEF TypeOK, Stores
<1>2. orderMap[g] \in [Parties -> SUBSET DOMAIN log]
  BY DEF TypeOK
<1>3. orderMap'[g] = [orderMap[g] EXCEPT ![Agents[store[g]]] = {}]
  BY DEF TypeOK, Writes, Emptied
<1>4. /\ orders' = [orders EXCEPT ![store[g]] =
                       SetOrders(orders[store[g]], orderMap[g][Agents[store[g]]])]
      /\ external' = [external EXCEPT ![store[g]] =
                         External(external[store[g]], orderMap[g], Agents[store[g]])]
      /\ place[g] = "write" /\ NextStore(g, "recv") /\ UNCHANGED <<log, pos, died>>
  BY DEF Writes
<1> QED
  BY <1>1, <1>2, <1>3, <1>4 DEF TypeOK, Stores

LEMMA ListsWrites ==
    ASSUME TypeOK, NEW g \in Streams, Lists(g), Writes(g)
    PROVE  Lists(g)'
<1> DEFINE self == Agents[store[g]]
<1>1. /\ store[g] \in Stores /\ self \in Parties /\ place[g] = "write"
      /\ orderMap'[g][self] = {} /\ UNCHANGED <<log, pos, died>>
      /\ \A p \in Parties : p # self => orderMap'[g][p] = orderMap[g][p]
      /\ NextStore(g, "recv")
  BY WritesAre
<1>2. /\ place'[g] \in {"write", "recv"}
      /\ place'[g] = "recv" => store'[g] = 1
      /\ \A s \in Stores : store[g] <= s /\ s # store[g] =>
            place'[g] = "write" /\ store'[g] <= s
  BY <1>1, NextStoreIs
<1>3. ASSUME NEW s \in Stores, orderMap'[g][Agents[s]] # {}
      PROVE  place'[g] = "write" /\ store'[g] <= s
  <2>1. s # store[g] /\ Agents[s] # self /\ Agents[s] \in Parties
    BY <1>1, <1>3, StoresAre
  <2>2. store[g] <= s
    BY <1>1, <1>3, <2>1 DEF Lists
  <2> QED
    BY <1>2, <2>1, <2>2
<1>4. \A p \in Parties : orderMap'[g][p] = orderMap[g][p] \/ orderMap'[g][p] = {}
  BY <1>1
<1>5. \A p \in Parties : \A i \in orderMap'[g][p] :
          /\ Owner[OrderOf(i)'] = p /\ i <= pos'[g]
          /\ \A j \in DOMAIN log' :
                i < j /\ j <= pos'[g] /\ OrderOf(j)' = OrderOf(i)' => j \in orderMap'[g][p]
  BY <1>1, <1>4 DEF Lists, OrderOf
<1> HIDE DEF self
<1> QED
  BY <1>2, <1>3, <1>5 DEF Lists

LEMMA ListStep == ASSUME TypeOK, BornInv, LogInv, ListInv, [Next]_vars PROVE ListInv'
<1>1. ASSUME NEW o \in Orders, OrderPlaced(o) \/ OrderEnds(o), NEW g \in Streams PROVE Lists(g)'
  <2>1. /\ Len(log) \in Nat /\ DOMAIN log = 1 .. Len(log) /\ DOMAIN log' = 1 .. Len(log) + 1
        /\ \A i \in DOMAIN log : log'[i] = log[i]
        /\ UNCHANGED streamVars
    BY <1>1, NetworkAppends
  <2>2. pos[g] \in 0 .. Len(log) /\ \A p \in Parties : orderMap[g][p] \subseteq DOMAIN log
    BY DEF TypeOK
  <2>3. Lists(g)
    BY DEF ListInv
  <2> QED
    BY <2>1, <2>2, <2>3 DEF Lists, OrderOf, streamVars
<1>2. ASSUME NEW g \in Streams, Stream(g) PROVE Lists(g)'
  <2>1. Lists(g)
    BY DEF ListInv
  <2>2. CASE Opens(g)
    <3>1. place[g] = "unborn" /\ place'[g] = "clear" /\ UNCHANGED <<log, orderMap>>
      BY <2>2, OpensNewest DEF Opens, TypeOK
    <3> QED
      BY <2>1, <3>1, StoresAre DEF Lists
  <2>3. CASE Clears(g)
    <3>1. place'[g] \in {"clear", "snapshot"} /\ (place'[g] = "snapshot" => store'[g] = 1)
      BY <2>3, NextStoreIs DEF Clears
    <3>2. place[g] = "clear" /\ UNCHANGED <<log, orderMap, pos>>
      BY <2>3 DEF Clears
    <3> QED
      BY <2>1, <3>1, <3>2, StoresAre DEF Lists
  <2>4. CASE Dies(g)
    <3>1. place'[g] = "dead" /\ \A p \in Parties : orderMap'[g][p] = {}
      BY <2>4 DEF Dies, TypeOK
    <3> QED
      BY <3>1, StoresAre DEF Lists
  <2> QED
    BY <1>2, <2>1, <2>2, <2>3, <2>4, ListsSnapshot, ListsUpdates, ListsWrites DEF Stream
<1>3. ASSUME NEW g \in Streams, Stream(g), NEW h \in Streams, h # g PROVE Lists(h)'
  BY <1>3, OthersKept DEF ListInv, Lists, OrderOf
<1>4. CASE UNCHANGED vars
  BY <1>4 DEF ListInv, Lists, OrderOf, vars, streamVars
<1> QED
  BY <1>1, <1>2, <1>3, <1>4 DEF Next, ListInv

-----------------------------------------------------------------------------
(* What is still to come.                                                  *)

Base == TypeOK /\ BornInv /\ LogInv /\ ListInv

\* A new event finds the newest stream alive, or a reconnect to come.
LEMMA NewIsComing ==
    ASSUME Base, NEW o \in Orders, OrderPlaced(o) \/ OrderEnds(o), Newest > 0,
           NEW i, i = Len(log) + 1
    PROVE  \E g \in Streams : Coming(g, i)' \/ Reconnecting(g)'
<1>1. Newest \in Streams /\ place[Newest] # "unborn"
  <2>1. Newest \in 1 .. Newest
    BY NewestIs, OrdersAssumption DEF Base
  <2> QED
    BY <2>1 DEF Base, BornInv
<1>2. Len(log) \in Nat /\ UNCHANGED <<place, pos, died>> /\ Newest' = Newest
  BY NetworkAppends DEF Base, streamVars, Newest
<1>3. CASE place[Newest] = "dead"
  <2>1. died[Newest] = Newest
    BY <1>1, <1>3, NewestIs, OrdersAssumption DEF Base, BornInv
  <2> QED
    BY <1>1, <1>2, <1>3, <2>1 DEF Reconnecting
<1>4. CASE place[Newest] # "dead"
  <2>1. Alive(Newest) /\ pos[Newest] < i
    BY <1>1, <1>2, <1>4 DEF Base, TypeOK, Alive
  <2> QED
    BY <1>1, <1>2, <2>1 DEF Coming, Alive
<1> QED
  BY <1>3, <1>4

LEMMA OpenedClears ==
    ASSUME Base, NEW g \in Streams, Opens(g)
    PROVE  place'[g] = "clear" /\ store'[g] = 1 /\ UNCHANGED <<log, orders, external>>
BY DEF Base, TypeOK, Opens

\* A step that opens no stream keeps the number of the newest.
LEMMA NewestKept ==
    ASSUME Base, [Next]_vars, ~\E h \in Streams : Opens(h)
    PROVE  Newest' = Newest
<1>1. ASSUME NEW o \in Orders, OrderPlaced(o) \/ OrderEnds(o) PROVE Newest' = Newest
  BY <1>1 DEF OrderPlaced, OrderEnds, streamVars, Newest
<1>2. ASSUME NEW g \in Streams, Stream(g) PROVE Newest' = Newest
  BY <1>2, SameNewest DEF Stream, Base
<1>3. CASE UNCHANGED vars
  BY <1>3 DEF vars, streamVars, Newest
<1> QED
  BY <1>1, <1>2, <1>3 DEF Next

\* An event of the log stays there, and its order has no fewer events.
LEMMA EventsKept ==
    ASSUME Base, [Next]_vars
    PROVE  /\ DOMAIN log \subseteq DOMAIN log'
           /\ \A i \in DOMAIN log : log'[i] = log[i] /\ OrderOf(i)' = OrderOf(i)
           /\ \A o : Open(o)' => Open(o)
           /\ \A i \in DOMAIN log' \ DOMAIN log :
                 /\ i = Len(log) + 1
                 /\ \E o \in Orders : OrderPlaced(o) \/ OrderEnds(o)
<1>1. CASE \E o \in Orders : OrderPlaced(o) \/ OrderEnds(o)
  <2>1. /\ DOMAIN log = 1 .. Len(log) /\ DOMAIN log' = 1 .. Len(log) + 1 /\ Len(log) \in Nat
        /\ \A i \in DOMAIN log : log'[i] = log[i]
    BY <1>1, NetworkAppends DEF Base
  <2> QED
    BY <1>1, <2>1 DEF OrderOf, Open
<1>2. CASE ~\E o \in Orders : OrderPlaced(o) \/ OrderEnds(o)
  <2>1. UNCHANGED log
    BY <1>2, OthersKept DEF Base, Next, vars
  <2> QED
    BY <2>1 DEF OrderOf, Open
<1> QED
  BY <1>1, <1>2

\* An event to come stays to come, unless a stream opens, or it arrives: it
\* is then in its party's list, and the pass over the stores is to begin.
LEMMA StillDue ==
    ASSUME Base, [Next]_vars, ~\E h \in Streams : Opens(h),
           NEW g \in Streams, NEW i \in DOMAIN log, Coming(g, i) \/ Reconnecting(g)
    PROVE  \/ Coming(g, i)' \/ Reconnecting(g)'
           \/ /\ place'[g] = "write" /\ store'[g] = 1
              /\ i \in orderMap'[g][Owner[OrderOf(i)]]
<1>1. Newest' = Newest
  BY NewestKept
<1>2. ASSUME place'[g] = place[g], pos'[g] = pos[g], died'[g] = died[g]
      PROVE  Coming(g, i)' \/ Reconnecting(g)'
  BY <1>1, <1>2 DEF Coming, Alive, Reconnecting
<1>3. ASSUME NEW o \in Orders, OrderPlaced(o) \/ OrderEnds(o)
      PROVE  Coming(g, i)' \/ Reconnecting(g)'
  BY <1>2, <1>3, NetworkAppends DEF Base, streamVars
<1>4. ASSUME NEW h \in Streams, h # g, Stream(h) PROVE Coming(g, i)' \/ Reconnecting(g)'
  BY <1>2, <1>4, OthersKept DEF Base
<1>5. CASE UNCHANGED vars
  BY <1>2, <1>5 DEF vars, streamVars
<1>6. CASE Clears(g) \/ ReceivesSnapshot(g) \/ Writes(g)
  <2>1. pos'[g] = pos[g] /\ Alive(g) /\ Alive(g)'
    BY <1>6 DEF Base, TypeOK, Clears, ReceivesSnapshot, Writes, NextStore, Alive
  <2> QED
    BY <2>1 DEF Coming, Alive, Reconnecting
<1>7. CASE Dies(g)
  BY <1>1, <1>7 DEF Base, TypeOK, Dies, Reconnecting
<1>8. CASE ReceivesUpdates(g)
  <2>1. PICK n \in (pos[g] + 1) .. Len(log) :
           /\ pos' = [pos EXCEPT ![g] = n]
           /\ orderMap' = [orderMap EXCEPT ![g] = Sorted(@, (pos[g] + 1) .. n)]
    BY <1>8 DEF ReceivesUpdates
  <2>2. /\ place[g] = "recv" /\ place'[g] = "write" /\ store'[g] = 1 /\ pos'[g] = n
        /\ orderMap'[g] = Sorted(orderMap[g], (pos[g] + 1) .. n)
        /\ pos[g] \in Nat /\ i \in Nat /\ n \in Nat /\ pos[g] < i
    BY <1>8, <2>1 DEF Base, TypeOK, ListInv, Lists, ReceivesUpdates, Coming, Reconnecting
  <2>3. CASE i <= n
    <3>1. i \in (pos[g] + 1) .. n
      BY <2>2, <2>3
    <3>2. log[i] \in Events
      BY DEF Base, TypeOK
    <3>3. Owner[OrderOf(i)] \in Parties
      BY <3>2, OrdersAssumption DEF OrderOf, Events
    <3> QED
      BY <2>2, <3>1, <3>3 DEF Sorted, OrderOf
  <2>4. CASE ~(i <= n)
    BY <2>2, <2>4 DEF Coming, Alive
  <2> QED
    BY <2>3, <2>4
<1> QED
  BY <1>3, <1>4, <1>5, <1>6, <1>7, <1>8 DEF Next, Stream

\* So is one that a stream has not subscribed to yet, if its order is open:
\* the snapshot will have it.
LEMMA StillFresh ==
    ASSUME Base, NEW g \in Streams, Stream(g), NEW i \in DOMAIN log,
           place[g] \in {"clear", "snapshot"}, Open(OrderOf(i))
    PROVE  \/ Coming(g, i)' \/ place'[g] \in {"clear", "snapshot"}
           \/ Dies(g)
           \/ /\ place'[g] = "write" /\ store'[g] = 1
              /\ i \in orderMap'[g][Owner[OrderOf(i)]]
<1>1. CASE Clears(g)
  BY <1>1, NextStoreIs DEF Base, Clears
<1>2. CASE ReceivesSnapshot(g)
  <2>1. /\ place'[g] = "write" /\ store'[g] = 1 /\ pos'[g] = pos[g]
        /\ orderMap'[g] = Sorted(orderMap[g], Snapshot(pos[g]))
        /\ pos[g] \in 0 .. Len(log) /\ i \in 1 .. Len(log) /\ Len(log) \in Nat
        /\ log[i] \in Events
    BY <1>2 DEF Base, TypeOK, ListInv, Lists, ReceivesSnapshot
  <2>2. CASE i <= pos[g]
    <3>1. i \in OfOrder(1 .. pos[g], OrderOf(i)) /\ OrderOf(i) \in Orders
      BY <2>1, <2>2 DEF OfOrder, OrderOf, Events
    <3>2. \A j \in OfOrder(1 .. pos[g], OrderOf(i)) : log[j].active
      BY <2>1 DEF Open, OfOrder, OrderOf
    <3>3. i \in Snapshot(pos[g])
      BY <2>1, <2>2, <3>1, <3>2, LiveAre DEF Snapshot, Base, OrderOf
    <3>4. Owner[OrderOf(i)] \in Parties
      BY <3>1, OrdersAssumption
    <3> QED
      BY <2>1, <3>3, <3>4 DEF Sorted, OrderOf
  <2>3. CASE ~(i <= pos[g])
    BY <2>1, <2>3 DEF Coming, Alive
  <2> QED
    BY <2>2, <2>3
<1> QED
  BY <1>1, <1>2, OpensNewest DEF Base, Stream, ReceivesUpdates, Writes

-----------------------------------------------------------------------------
(* The stores.                                                             *)

\* What a stream's step does to the own orders of a store.
LEMMA OrdersKept ==
    ASSUME Base, [Next]_vars, NEW s \in Stores
    PROVE  \/ orders'[s] = orders[s]
           \/ \E g \in Streams : Clears(g) /\ store[g] = s /\ orders'[s] = {}
           \/ \E g \in Streams :
                 /\ Writes(g) /\ store[g] = s
                 /\ orders'[s] = SetOrders(orders[s], orderMap[g][Agents[s]])
<1>1. ASSUME NEW o \in Orders, OrderPlaced(o) \/ OrderEnds(o) PROVE orders'[s] = orders[s]
  BY <1>1 DEF OrderPlaced, OrderEnds
<1>2. ASSUME NEW g \in Streams,
             Opens(g) \/ ReceivesSnapshot(g) \/ ReceivesUpdates(g) \/ Dies(g)
      PROVE  orders'[s] = orders[s]
  BY <1>2 DEF Opens, ReceivesSnapshot, ReceivesUpdates, Dies
<1>3. ASSUME NEW g \in Streams, Clears(g)
      PROVE  orders'[s] = orders[s] \/ (store[g] = s /\ orders'[s] = {})
  BY <1>3 DEF Clears, Base, TypeOK, Stores
<1>4. ASSUME NEW g \in Streams, Writes(g)
      PROVE  \/ orders'[s] = orders[s]
             \/ store[g] = s /\ orders'[s] = SetOrders(orders[s], orderMap[g][Agents[s]])
  BY <1>4, WritesAre DEF Base
<1>5. CASE UNCHANGED vars
  BY <1>5 DEF vars
<1> QED
  BY <1>1, <1>2, <1>3, <1>4, <1>5 DEF Next, Stream

\* The list of an own party is left alone by every step but its store's turn.
LEMMA OwnListKept ==
    ASSUME Base, [Next]_vars, NEW g \in Streams, NEW s \in Stores,
           NEW i \in orderMap[g][Agents[s]], ~(Writes(g) /\ store[g] = s)
    PROVE  i \in orderMap'[g][Agents[s]]
<1>1. place[g] = "write" /\ Agents[s] \in Parties
  BY StoresAre DEF Base, ListInv, Lists
<1>2. ASSUME NEW o \in Orders, OrderPlaced(o) \/ OrderEnds(o) PROVE UNCHANGED orderMap
  BY <1>2 DEF OrderPlaced, OrderEnds, streamVars
<1>3. ASSUME NEW h \in Streams, Stream(h), h # g PROVE orderMap'[g] = orderMap[g]
  BY <1>3, OthersKept DEF Base
<1>4. ASSUME Writes(g) PROVE orderMap'[g][Agents[s]] = orderMap[g][Agents[s]]
  BY <1>1, <1>4, WritesAre, StoresAre DEF Base
<1>5. ASSUME Stream(g) PROVE Writes(g)
  BY <1>1, <1>5, OpensNewest
  DEF Base, Stream, Clears, ReceivesSnapshot, ReceivesUpdates, Dies
<1>6. CASE UNCHANGED vars
  BY <1>6 DEF vars, streamVars
<1> QED
  BY <1>2, <1>3, <1>4, <1>5, <1>6 DEF Next

LEMMA OwnOnlyStep == ASSUME Base, OwnOnly, [Next]_vars PROVE OwnOnly'
<1> SUFFICES ASSUME NEW s \in Stores, NEW o \in orders'[s]
             PROVE  Newest' > 0 /\ Owner[o] = Agents[s] /\ OfOrder(DOMAIN log, o)' # {}
  BY DEF OwnOnly
<1>1. Newest \in Nat /\ (Newest' = Newest \/ Newest' = Newest + 1)
  BY NewestKept, OpensNewest, NewestIs, OrdersAssumption DEF Base
<1>2. ASSUME OfOrder(DOMAIN log, o) # {} PROVE OfOrder(DOMAIN log, o)' # {}
  BY <1>2, EventsKept DEF OfOrder
<1>3. CASE o \in orders[s]
  BY <1>1, <1>2, <1>3 DEF OwnOnly
<1>4. CASE o \notin orders[s]
  <2>1. PICK g \in Streams :
           /\ Writes(g) /\ store[g] = s
           /\ orders'[s] = SetOrders(orders[s], orderMap[g][Agents[s]])
    BY <1>4, OrdersKept
  <2>2. PICK i \in orderMap[g][Agents[s]] : log[i].order = o
    BY <1>4, <2>1 DEF SetOrders, OfOrder
  <2>3. Owner[o] = Agents[s] /\ i \in DOMAIN log
    BY <2>2, StoresAre DEF Base, TypeOK, ListInv, Lists, OrderOf
  <2>4. Newest > 0
    <3>1. g \in 1 .. Newest
      BY <2>1 DEF Base, BornInv, Writes
    <3> QED
      BY <1>1, <3>1
  <2> QED
    BY <1>1, <1>2, <2>2, <2>3, <2>4 DEF OfOrder
<1> QED
  BY <1>3, <1>4

\* A stream that will put an order into its store still will, or has done so.
LEMMA StillAdds ==
    ASSUME Base, [Next]_vars, NEW s \in Stores, NEW i \in DOMAIN log, WillAdd(s, i),
           Owner[OrderOf(i)] = Agents[s], Open(OrderOf(i)), OrderOf(i) \notin orders'[s]
    PROVE  WillAdd(s, i)'
<1>1. CASE \E h \in Streams : Opens(h)
  BY <1>1, OpenedClears DEF WillAdd
<1>2. CASE ~\E h \in Streams : Opens(h)
  <2>1. PICK g \in Streams :
           \/ Coming(g, i) \/ Reconnecting(g) \/ place[g] \in {"clear", "snapshot"}
           \/ i \in orderMap[g][Agents[s]]
    BY DEF WillAdd
  <2>2. CASE Coming(g, i) \/ Reconnecting(g)
    BY <1>2, <2>2, StillDue DEF WillAdd
  <2>3. CASE place[g] \in {"clear", "snapshot"}
    <3>1. CASE Stream(g)
      <4>1. ASSUME Dies(g) PROVE Reconnecting(g)'
        BY <1>2, <4>1, NewestKept DEF Base, TypeOK, Dies, Reconnecting
      <4> QED
        BY <2>3, <3>1, <4>1, StillFresh DEF WillAdd
    <3>2. CASE ~Stream(g)
      <4>1. place'[g] = place[g]
        BY <3>2, OthersKept DEF Base, Next, OrderPlaced, OrderEnds, vars, streamVars
      <4> QED
        BY <2>3, <4>1 DEF WillAdd
    <3> QED
      BY <3>1, <3>2
  <2>4. CASE i \in orderMap[g][Agents[s]]
    <3>1. ~(Writes(g) /\ store[g] = s)
      <4> SUFFICES ASSUME Writes(g), store[g] = s PROVE FALSE
        OBVIOUS
      <4>1. orders'[s] = SetOrders(orders[s], orderMap[g][Agents[s]])
        BY WritesAre DEF Base
      <4>2. orderMap[g][Agents[s]] \in SUBSET DOMAIN log /\ OrderOf(i) \in Orders
        BY StoresAre, EventIs DEF Base, TypeOK
      <4>3. i \in OfOrder(orderMap[g][Agents[s]], OrderOf(i))
        BY <2>4 DEF OfOrder, OrderOf
      <4>4. \A j \in OfOrder(orderMap[g][Agents[s]], OrderOf(i)) : log[j].active
        BY <4>2 DEF Open, OfOrder, OrderOf
      <4> QED
        BY <4>1, <4>2, <4>3, <4>4, SetOrdersAre DEF Base
    <3> QED
      BY <2>4, <3>1, OwnListKept DEF WillAdd
  <2> QED
    BY <2>1, <2>2, <2>3, <2>4
<1> QED
  BY <1>1, <1>2

\* An open order leaves a store by the pass of a stream that clears it.
LEMMA OnlyClears ==
    ASSUME Base, [Next]_vars, NEW s \in Stores, NEW o \in orders[s], Open(o), o \in Orders,
           o \notin orders'[s]
    PROVE  \E g \in Streams : Clears(g)
<1>1. ASSUME NEW g \in Streams, Writes(g), store[g] = s,
             orders'[s] = SetOrders(orders[s], orderMap[g][Agents[s]])
      PROVE  FALSE
  <2>1. orderMap[g][Agents[s]] \in SUBSET DOMAIN log
    BY StoresAre DEF Base, TypeOK
  <2>2. \A j \in OfOrder(orderMap[g][Agents[s]], o) : log[j].active
    BY <2>1 DEF Open, OfOrder, OrderOf
  <2> QED
    BY <1>1, <2>1, <2>2, SetOrdersAre DEF Base
<1> QED
  BY <1>1, OrdersKept

LEMMA AddStep == ASSUME Base, OwnOnly, AddInv, [Next]_vars PROVE AddInv'
<1> SUFFICES ASSUME NEW s \in Stores, NEW i \in DOMAIN log', Newest' > 0,
                    Owner[OrderOf(i)'] = Agents[s], Open(OrderOf(i))',
                    OrderOf(i)' \notin orders'[s]
             PROVE  WillAdd(s, i)'
  BY DEF AddInv
<1>1. CASE \E h \in Streams : Opens(h)
  BY <1>1, OpenedClears DEF WillAdd
<1>2. CASE ~\E h \in Streams : Opens(h)
  <2>1. Newest > 0
    BY <1>2, NewestKept
  <2>2. CASE i \notin DOMAIN log
    <3>1. i = Len(log) + 1 /\ \E o \in Orders : OrderPlaced(o) \/ OrderEnds(o)
      BY <2>2, EventsKept
    <3> QED
      BY <2>1, <3>1, NewIsComing DEF WillAdd
  <2>3. CASE i \in DOMAIN log
    <3>1. OrderOf(i)' = OrderOf(i) /\ Open(OrderOf(i)) /\ OrderOf(i) \in Orders
      <4>1. OrderOf(i)' = OrderOf(i) /\ Open(OrderOf(i))
        BY <2>3, EventsKept
      <4> QED
        BY <2>3, <4>1, EventIs DEF Base
    <3>2. CASE OrderOf(i) \notin orders[s]
      <4>1. WillAdd(s, i)
        BY <2>1, <2>3, <3>1, <3>2 DEF AddInv
      <4> QED
        BY <2>3, <3>1, <4>1, StillAdds
    <3>3. CASE OrderOf(i) \in orders[s]
      <4>1. PICK g \in Streams : Clears(g)
        BY <3>1, <3>3, OnlyClears
      <4>2. place'[g] \in {"clear", "snapshot"}
        BY <4>1, NextStoreIs DEF Base, Clears
      <4> QED
        BY <4>2 DEF WillAdd
    <3> QED
      BY <3>2, <3>3
  <2> QED
    BY <2>2, <2>3
<1> QED
  BY <1>1, <1>2

\* So with a stream that will take out an order that has ended.
LEMMA StillRemoves ==
    ASSUME Base, [Next]_vars, NEW s \in Stores, NEW i \in DOMAIN log, WillRemove(s, i),
           ~log[i].active, OrderOf(i) \in orders'[s],
           Owner[OrderOf(i)] = Agents[s]
    PROVE  WillRemove(s, i)'
<1>1. CASE \E h \in Streams : Opens(h)
  BY <1>1, OpenedClears, StoresAre DEF WillRemove
<1>2. CASE ~\E h \in Streams : Opens(h)
  <2>1. PICK g \in Streams :
           \/ Coming(g, i) \/ Reconnecting(g)
           \/ place[g] = "clear" /\ store[g] <= s
           \/ i \in orderMap[g][Agents[s]]
    BY DEF WillRemove
  <2>2. CASE Coming(g, i) \/ Reconnecting(g)
    BY <1>2, <2>2, StillDue DEF WillRemove
  <2>3. CASE place[g] = "clear" /\ store[g] <= s
    <3>1. CASE Clears(g)
      <4>1. store[g] # s
        BY <3>1 DEF Clears, Base, TypeOK, Stores
      <4> QED
        BY <2>3, <3>1, <4>1, NextStoreIs DEF WillRemove, Clears, Base
    <3>2. CASE ~Clears(g)
      <4>1. ~Stream(g)
        BY <1>2, <2>3, <3>2 DEF Stream, ReceivesSnapshot, ReceivesUpdates, Writes, Dies
      <4>2. place'[g] = place[g] /\ store'[g] = store[g]
        BY <4>1, OthersKept DEF Base, Next, OrderPlaced, OrderEnds, vars, streamVars
      <4> QED
        BY <2>3, <4>2 DEF WillRemove
    <3> QED
      BY <3>1, <3>2
  <2>4. CASE i \in orderMap[g][Agents[s]]
    <3>1. ~(Writes(g) /\ store[g] = s)
      <4> SUFFICES ASSUME Writes(g), store[g] = s PROVE FALSE
        OBVIOUS
      <4>1. orders'[s] = SetOrders(orders[s], orderMap[g][Agents[s]])
        BY WritesAre DEF Base
      <4>2. orderMap[g][Agents[s]] \in SUBSET DOMAIN log /\ OrderOf(i) \in Orders
        BY StoresAre, EventIs DEF Base, TypeOK
      <4>3. i \in OfOrder(orderMap[g][Agents[s]], OrderOf(i))
        BY <2>4 DEF OfOrder, OrderOf
      <4> QED
        BY <4>1, <4>2, <4>3, SetOrdersAre DEF Base
    <3> QED
      BY <2>4, <3>1, OwnListKept DEF WillRemove
  <2> QED
    BY <2>1, <2>2, <2>3, <2>4
<1> QED
  BY <1>1, <1>2

\* An order that has ended comes back only from a stream that has not
\* received its end yet.
LEMMA OnlyLagging ==
    ASSUME Base, [Next]_vars, NEW s \in Stores, NEW i \in DOMAIN log, ~log[i].active,
           OrderOf(i) \notin orders[s], OrderOf(i) \in orders'[s]
    PROVE  \E g \in Streams : Coming(g, i)'
<1>1. PICK g \in Streams :
         Writes(g) /\ store[g] = s /\ orders'[s] = SetOrders(orders[s], orderMap[g][Agents[s]])
  BY OrdersKept
<1> DEFINE list == orderMap[g][Agents[s]]
<1>2. list \in SUBSET DOMAIN log /\ OrderOf(i) \in Orders /\ Agents[s] \in Parties
  BY StoresAre, EventIs DEF Base, TypeOK
<1>3. OfOrder(list, OrderOf(i)) # {} /\ \A j \in OfOrder(list, OrderOf(i)) : log[j].active
  BY <1>1, <1>2, SetOrdersAre DEF Base
<1>4. PICK j \in list : OrderOf(j) = OrderOf(i) /\ log[j].active
  BY <1>3 DEF OfOrder, OrderOf
<1>5. i \notin list
  BY <1>3 DEF OfOrder, OrderOf
<1>6. j < i
  <2>1. j \in Nat /\ i \in Nat /\ j # i /\ j \in DOMAIN log
    BY <1>2, <1>4 DEF Base, TypeOK
  <2>2. ~(i < j)
    BY <1>4, <2>1 DEF Base, LogInv
  <2> QED
    BY <2>1, <2>2
<1>7. pos[g] < i
  <2>1. pos[g] \in Nat /\ i \in Nat
    BY DEF Base, TypeOK
  <2>2. ~(i <= pos[g])
    BY <1>2, <1>4, <1>5, <1>6 DEF Base, ListInv, Lists
  <2> QED
    BY <2>1, <2>2
<1>8. pos'[g] = pos[g] /\ place'[g] \in {"write", "recv"}
  BY <1>1, WritesAre, NextStoreIs DEF Base
<1> QED
  BY <1>7, <1>8 DEF Coming, Alive

LEMMA RemoveStep == ASSUME Base, OwnOnly, RemoveInv, [Next]_vars PROVE RemoveInv'
<1> SUFFICES ASSUME NEW s \in Stores, NEW i \in DOMAIN log', ~log'[i].active,
                    OrderOf(i)' \in orders'[s]
             PROVE  WillRemove(s, i)'
  BY DEF RemoveInv
<1>1. CASE \E h \in Streams : Opens(h)
  BY <1>1, OpenedClears, StoresAre DEF WillRemove
<1>2. CASE ~\E h \in Streams : Opens(h)
  <2>1. Newest' = Newest /\ Newest' > 0 /\ Owner[OrderOf(i)'] = Agents[s]
    BY <1>2, NewestKept, OwnOnlyStep DEF OwnOnly
  <2>2. CASE i \notin DOMAIN log
    <3>1. i = Len(log) + 1 /\ \E o \in Orders : OrderPlaced(o) \/ OrderEnds(o)
      BY <2>2, EventsKept
    <3> QED
      BY <2>1, <3>1, NewIsComing DEF WillRemove
  <2>3. CASE i \in DOMAIN log
    <3>1. OrderOf(i)' = OrderOf(i) /\ ~log[i].active
      BY <2>3, EventsKept
    <3>2. CASE OrderOf(i) \notin orders[s]
      BY <2>3, <3>1, <3>2, OnlyLagging DEF WillRemove
    <3>3. CASE OrderOf(i) \in orders[s]
      <4>1. WillRemove(s, i)
        BY <2>3, <3>1, <3>3 DEF RemoveInv
      <4> QED
        BY <2>1, <2>3, <3>1, <4>1, StillRemoves
    <3> QED
      BY <3>2, <3>3
  <2> QED
    BY <2>2, <2>3
<1> QED
  BY <1>1, <1>2

-----------------------------------------------------------------------------
(* The orders of other parties.                                            *)

\* Foreign lists only grow while their stream lives.
LEMMA ForeignListKept ==
    ASSUME Base, [Next]_vars, NEW g \in Streams, NEW p \in Foreign,
           place[g] = "write", NEW i \in orderMap[g][p]
    PROVE  i \in orderMap'[g][p]
<1>1. ASSUME NEW o \in Orders, OrderPlaced(o) \/ OrderEnds(o) PROVE UNCHANGED orderMap
  BY <1>1 DEF OrderPlaced, OrderEnds, streamVars
<1>2. ASSUME NEW h \in Streams, Stream(h), h # g PROVE orderMap'[g] = orderMap[g]
  BY <1>2, OthersKept DEF Base
<1>3. ASSUME Writes(g) PROVE orderMap'[g][p] = orderMap[g][p]
  <2>1. store[g] \in Stores /\ p \in Parties /\ p # Agents[store[g]]
    BY <1>3, WritesAre, StoresAre DEF Base
  <2> QED
    BY <1>3, <2>1, WritesAre DEF Base
<1>4. ASSUME Stream(g) PROVE Writes(g)
  BY <1>4, OpensNewest
  DEF Base, Stream, Clears, ReceivesSnapshot, ReceivesUpdates, Dies
<1>5. CASE UNCHANGED vars
  BY <1>5 DEF vars, streamVars
<1> QED
  BY <1>1, <1>2, <1>3, <1>4, <1>5 DEF Next

LEMMA ExternalKept ==
    ASSUME Base, [Next]_vars, NEW s \in Stores
    PROVE  \/ external'[s] = external[s]
           \/ \E g \in Streams :
                 /\ Writes(g) /\ store[g] = s
                 /\ external'[s] = External(external[s], orderMap[g], Agents[s])
<1>1. ASSUME NEW o \in Orders, OrderPlaced(o) \/ OrderEnds(o) PROVE external'[s] = external[s]
  BY <1>1 DEF OrderPlaced, OrderEnds
<1>2. ASSUME NEW g \in Streams,
             Opens(g) \/ Clears(g) \/ ReceivesSnapshot(g) \/ ReceivesUpdates(g) \/ Dies(g)
      PROVE  external'[s] = external[s]
  BY <1>2 DEF Opens, Clears, ReceivesSnapshot, ReceivesUpdates, Dies
<1>3. ASSUME NEW g \in Streams, Writes(g)
      PROVE  \/ external'[s] = external[s]
             \/ /\ store[g] = s
                /\ external'[s] = External(external[s], orderMap[g], Agents[s])
  BY <1>3, WritesAre DEF Base
<1>4. CASE UNCHANGED vars
  BY <1>4 DEF vars
<1> QED
  BY <1>1, <1>2, <1>3, <1>4 DEF Next, Stream

\* An open order of another party is never taken out, and a visit with it in
\* the list puts it in.
LEMMA ExternalAre ==
    ASSUME Base, NEW g \in Streams, NEW self \in Own, NEW known,
           NEW o \in Orders, Owner[o] \in Foreign, Open(o)
    PROVE  o \in External(known, orderMap[g], self) <=>
              o \in known \/ OfOrder(orderMap[g][Owner[o]], o) # {}
<1>1. Owner[o] # self /\ Owner[o] \in Parties
  BY StoresAre, OrdersAssumption
<1>2. orderMap[g][Owner[o]] \in SUBSET DOMAIN log
  BY <1>1 DEF Base, TypeOK
<1>3. \A j \in OfOrder(orderMap[g][Owner[o]], o) : log[j].active
  BY <1>2 DEF Open, OfOrder, OrderOf
<1>4. o \in SetOrders(known, orderMap[g][Owner[o]]) <=>
         IF OfOrder(orderMap[g][Owner[o]], o) # {} THEN TRUE ELSE o \in known
  BY <1>2, <1>3, SetOrdersAre DEF Base
<1>5. o \in External(known, orderMap[g], self) <=> o \in SetOrders(known, orderMap[g][Owner[o]])
  BY <1>1 DEF External
<1> QED
  BY <1>3, <1>4, <1>5

LEMMA StillTells ==
    ASSUME Base, [Next]_vars, NEW s \in Stores, NEW i \in DOMAIN log, WillTell(s, i),
           OrderOf(i)' = OrderOf(i),
           Owner[OrderOf(i)] \in Foreign, Open(OrderOf(i)), OrderOf(i) \notin external'[s]
    PROVE  WillTell(s, i)'
<1> DEFINE p == Owner[OrderOf(i)]
<1>1. CASE \E h \in Streams : Opens(h)
  BY <1>1, OpenedClears DEF WillTell
<1>2. CASE ~\E h \in Streams : Opens(h)
  <2>1. PICK g \in Streams :
           \/ Coming(g, i) \/ Reconnecting(g) \/ place[g] \in {"clear", "snapshot"}
           \/ place[g] = "write" /\ store[g] <= s /\ i \in orderMap[g][p]
    BY DEF WillTell
  <2>2. CASE Coming(g, i) \/ Reconnecting(g)
    BY <1>2, <2>2, StillDue, StoresAre DEF WillTell
  <2>3. CASE place[g] \in {"clear", "snapshot"}
    <3>1. CASE Stream(g)
      <4>1. ASSUME Dies(g) PROVE Reconnecting(g)'
        BY <1>2, <4>1, NewestKept DEF Base, TypeOK, Dies, Reconnecting
      <4> QED
        BY <2>3, <3>1, <4>1, StillFresh, StoresAre DEF WillTell
    <3>2. CASE ~Stream(g)
      <4>1. place'[g] = place[g]
        BY <3>2, OthersKept DEF Base, Next, OrderPlaced, OrderEnds, vars, streamVars
      <4> QED
        BY <2>3, <4>1 DEF WillTell
    <3> QED
      BY <3>1, <3>2
  <2>4. CASE place[g] = "write" /\ store[g] <= s /\ i \in orderMap[g][p]
    <3>1. i \in orderMap'[g][p]
      BY <2>4, ForeignListKept
    <3>2. CASE Writes(g)
      <4>1. store[g] # s
        <5> SUFFICES ASSUME store[g] = s PROVE FALSE
          OBVIOUS
        <5>1. external'[s] = External(external[s], orderMap[g], Agents[s])
          BY <3>2, WritesAre DEF Base
        <5>2. i \in OfOrder(orderMap[g][p], OrderOf(i)) /\ OrderOf(i) \in Orders
          BY <2>4, EventIs DEF OfOrder, OrderOf, Base
        <5>3. Agents[s] \in Own /\ OfOrder(orderMap[g][p], OrderOf(i)) # {}
          BY <5>2, StoresAre
        <5>4. OrderOf(i) \in External(external[s], orderMap[g], Agents[s])
          BY <5>2, <5>3, ExternalAre
        <5> QED
          BY <5>1, <5>4
      <4>2. place'[g] = "write" /\ store'[g] <= s
        BY <2>4, <3>2, <4>1, WritesAre, NextStoreIs DEF Base
      <4> QED
        BY <3>1, <4>2 DEF WillTell
    <3>3. CASE ~Writes(g)
      <4>1. ~Stream(g)
        BY <1>2, <2>4, <3>3 DEF Stream, Clears, ReceivesSnapshot, ReceivesUpdates, Dies
      <4>2. place'[g] = place[g] /\ store'[g] = store[g]
        BY <4>1, OthersKept DEF Base, Next, OrderPlaced, OrderEnds, vars, streamVars
      <4> QED
        BY <2>4, <3>1, <4>2 DEF WillTell
    <3> QED
      BY <3>2, <3>3
  <2> QED
    BY <2>1, <2>2, <2>3, <2>4
<1> QED
  BY <1>1, <1>2

LEMMA ForeignStep == ASSUME Base, ForeignInv, [Next]_vars PROVE ForeignInv'
<1> SUFFICES ASSUME NEW s \in Stores, NEW i \in DOMAIN log', Newest' > 0,
                    Owner[OrderOf(i)'] \in Foreign, Open(OrderOf(i))',
                    OrderOf(i)' \notin external'[s]
             PROVE  WillTell(s, i)'
  BY DEF ForeignInv
<1>1. CASE \E h \in Streams : Opens(h)
  BY <1>1, OpenedClears DEF WillTell
<1>2. CASE ~\E h \in Streams : Opens(h)
  <2>1. Newest > 0
    BY <1>2, NewestKept
  <2>2. CASE i \notin DOMAIN log
    <3>1. i = Len(log) + 1 /\ \E o \in Orders : OrderPlaced(o) \/ OrderEnds(o)
      BY <2>2, EventsKept
    <3> QED
      BY <2>1, <3>1, NewIsComing DEF WillTell
  <2>3. CASE i \in DOMAIN log
    <3>1. OrderOf(i)' = OrderOf(i) /\ Open(OrderOf(i)) /\ OrderOf(i) \in Orders
      <4>1. OrderOf(i)' = OrderOf(i) /\ Open(OrderOf(i))
        BY <2>3, EventsKept
      <4> QED
        BY <2>3, <4>1, EventIs DEF Base
    <3>2. OrderOf(i) \notin external[s]
      BY <3>1, ExternalKept, ExternalAre, StoresAre
    <3>3. WillTell(s, i)
      BY <2>1, <2>3, <3>1, <3>2 DEF ForeignInv
    <3> QED
      BY <2>3, <3>1, <3>3, StillTells
  <2> QED
    BY <2>2, <2>3
<1> QED
  BY <1>1, <1>2

-----------------------------------------------------------------------------
(* The theorems.                                                           *)

LEMMA OrdersInvariant == Spec => []Inv
<1>1. Init => Inv
  <2> SUFFICES ASSUME Init PROVE Inv
    OBVIOUS
  <2>1. TypeOK
    BY StoresAre, OrdersAssumption DEF Init, TypeOK, Stores
  <2>2. Newest = 0 /\ {g \in Streams : place[g] # "unborn"} = {}
    <3>1. {g \in Streams : place[g] # "unborn"} = {}
      BY DEF Init
    <3> QED
      BY <3>1, FS_EmptySet DEF Newest
  <2>3. BornInv
    BY <2>2 DEF Init, BornInv
  <2>4. DOMAIN log = {}
    BY DEF Init
  <2>5. ListInv
    BY StoresAre DEF Init, ListInv, Lists
  <2>6. OwnOnly
    BY DEF Init, OwnOnly, Stores
  <2> QED
    BY <2>1, <2>3, <2>4, <2>5, <2>6 DEF Inv, LogInv, AddInv, RemoveInv, ForeignInv
<1>2. Inv /\ [Next]_vars => Inv'
  BY TypeStep, BornStep, LogStep, ListStep, OwnOnlyStep, AddStep, RemoveStep, ForeignStep
  DEF Inv, Base
<1> QED
  BY <1>1, <1>2, PTL DEF Spec

\* Every state of the order streams is well-typed.
THEOREM TypeCorrect == Spec => []TypeOK
<1>1. Inv => TypeOK
  BY DEF Inv
<1> QED
  BY <1>1, OrdersInvariant, PTL

\* When the streams are quiet nothing is to come.
LEMMA NothingDue ==
    ASSUME Inv, Quiet, NEW g \in Streams
    PROVE  /\ \A i \in DOMAIN log : ~Coming(g, i)
           /\ ~Reconnecting(g)
           /\ place[g] \notin {"clear", "snapshot", "write"}
           /\ \A s \in Stores : orderMap[g][Agents[s]] = {}
<1>1. Newest \in Nat /\ Newest > 0 /\ {h \in Streams : place[h] # "unborn"} = 1 .. Newest
  BY NewestIs, OrdersAssumption DEF Inv, Quiet, BornInv
<1>2. CASE g \notin 1 .. Newest
  <2>1. place[g] = "unborn"
    BY <1>1, <1>2
  <2> QED
    BY <2>1 DEF Inv, ListInv, Lists, Coming, Alive, Reconnecting
<1>3. CASE g \in 1 .. Newest
  <2>1. CASE CaughtUp(g)
    <3>1. place[g] = "recv" /\ \A i \in DOMAIN log : ~(pos[g] < i)
      BY <2>1 DEF CaughtUp, Inv, TypeOK
    <3> QED
      BY <3>1 DEF Inv, ListInv, Lists, Coming, Reconnecting
  <2>2. CASE ~CaughtUp(g)
    <3>1. g # Newest /\ died[g] # 0 /\ died[g] < Newest
      BY <1>1, <1>3, <2>2 DEF Quiet
    <3>2. place[g] = "dead"
      BY <3>1 DEF Inv, BornInv
    <3> QED
      BY <1>1, <3>1, <3>2 DEF Inv, ListInv, Lists, Coming, Alive, Reconnecting
  <2> QED
    BY <2>1, <2>2
<1> QED
  BY <1>2, <1>3

\* However many streams of whatever age interleave, once they have caught up
\* each store holds exactly its agent's active orders.
THEOREM OwnOrdersKept == Spec => []OwnOrdersExact
<1>1. Inv => OwnOrdersExact
  <2> SUFFICES ASSUME Inv, Quiet, NEW s \in Stores
               PROVE  orders[s] = Live(Len(log)) \cap OwnedBy(Agents[s])
    BY DEF OwnOrdersExact, Stores
  <2>1. DOMAIN log = 1 .. Len(log) /\ Len(log) \in 0 .. Len(log) /\ orders[s] \subseteq Orders
    BY DEF Inv, TypeOK, Stores
  <2>2. Newest > 0
    BY DEF Quiet
  <2>3. \A i \in DOMAIN log : ~WillAdd(s, i) /\ ~WillRemove(s, i)
    BY NothingDue DEF WillAdd, WillRemove
  <2>4. ASSUME NEW o \in orders[s] PROVE o \in Live(Len(log)) /\ o \in OwnedBy(Agents[s])
    <3>1. Owner[o] = Agents[s] /\ OfOrder(DOMAIN log, o) # {} /\ o \in Orders
      BY <2>1 DEF Inv, OwnOnly
    <3>2. \A i \in OfOrder(DOMAIN log, o) : log[i].active
      BY <2>3 DEF Inv, RemoveInv, OfOrder, OrderOf
    <3> QED
      BY <2>1, <3>1, <3>2, LiveAre DEF Inv, OwnedBy
  <2>5. ASSUME NEW o \in Live(Len(log)), o \in OwnedBy(Agents[s]) PROVE o \in orders[s]
    <3>1. o \in Orders /\ Owner[o] = Agents[s]
      BY <2>5 DEF OwnedBy
    <3>2. PICK i \in DOMAIN log : OrderOf(i) = o
      BY <2>1, <3>1, LiveAre DEF Inv, OfOrder, OrderOf
    <3>3. Open(o)
      BY <2>1, <3>1, LiveAre DEF Inv, OfOrder, OrderOf, Open
    <3> QED
      BY <2>2, <2>3, <3>1, <3>2, <3>3 DEF Inv, AddInv
  <2> QED
    BY <2>4, <2>5
<1> QED
  BY <1>1, OrdersInvariant, PTL

\* Then, too, no store misses an active order of another party.
THEOREM ForeignOrdersKept == Spec => []ForeignOrdersKnown
<1>1. Inv => ForeignOrdersKnown
  <2> SUFFICES ASSUME Inv, Quiet, NEW s \in Stores, NEW o \in Live(Len(log)), o \in OwnedByForeign
               PROVE  o \in external[s]
    BY DEF ForeignOrdersKnown, Stores
  <2>1. DOMAIN log = 1 .. Len(log) /\ Len(log) \in 0 .. Len(log)
    BY DEF Inv, TypeOK
  <2>2. o \in Orders /\ Owner[o] \in Foreign
    BY DEF OwnedByForeign
  <2>3. PICK i \in DOMAIN log : OrderOf(i) = o
    BY <2>1, <2>2, LiveAre DEF Inv, OfOrder, OrderOf
  <2>4. Open(o)
    BY <2>1, <2>2, LiveAre DEF Inv, OfOrder, OrderOf, Open
  <2>5. ~WillTell(s, i)
    BY NothingDue DEF WillTell
  <2> QED
    BY <2>2, <2>3, <2>4, <2>5 DEF Inv, ForeignInv, Quiet
<1> QED
  BY <1>1, OrdersInvariant, PTL
=============================================================================
