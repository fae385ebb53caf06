----------------------------- MODULE VegaOrders -----------------------------
(***************************************************************************)
(* How order events reach the Vega stores of one market: streamOrders and  *)
(* storeOrders (src/data-engine/vega_data_client.go) and SetOrders,        *)
(* SetExternalOrders and ClearOrders (src/stores/stores.go).  Each         *)
(* reconnect starts another streamOrders goroutine and cancels none, so    *)
(* streams of several ages may write the same stores.  The stores lock     *)
(* themselves one call at a time; a stream visits them one by one.         *)
(*                                                                         *)
(* A stream keeps its own orderMap, for each party the events received;    *)
(* the list of an own party is emptied when its store is visited, the list *)
(* of any other party is kept and applied again with each message.  A list *)
(* is in the order of the events, so that the set of them stands for it.   *)
(***************************************************************************)
EXTENDS Naturals, Sequences, FiniteSets

CONSTANTS
    Agents,     \* own public keys, in the order of storesSlice: a sequence
    Foreign,    \* public keys of other parties
    Orders,     \* order ids
    Owner,      \* Owner[o]: the party whose order o is
    MaxStreams  \* bound: streamOrders goroutines of a behaviour

Own == {Agents[s] : s \in DOMAIN Agents}
Parties == Own \cup Foreign

ASSUME OrdersAssumption ==
    /\ Agents \in Seq(Own) /\ Agents # <<>>
    /\ \A s, t \in DOMAIN Agents : Agents[s] = Agents[t] => s = t
    /\ Foreign \cap Own = {}
    /\ Owner \in [Orders -> Parties]
    /\ MaxStreams \in Nat

VARIABLES
    log,        \* the market's order events, as the network makes them
    place,      \* place[g]: where stream goroutine g stands
    store,      \* store[g]: the store g clears or writes next
    pos,        \* pos[g]: events of the log the messages g got stand for
    orderMap,   \* orderMap[g][p]: the list of party p in g's map: places of the log
    orders,     \* orders[s]: ids in the orders map of store s
    external,   \* external[s]: ids in its externalOrders map
    died        \* history: the newest stream when g died, 0 while it lives

streamVars == <<place, store, pos, orderMap, died>>
vars == <<log, streamVars, orders, external>>

Streams == 1..MaxStreams
Events == [order : Orders, active : BOOLEAN]

Init ==
    /\ log = <<>>
    /\ place = [g \in Streams |-> "unborn"]
    /\ store = [g \in Streams |-> 1]
    /\ pos = [g \in Streams |-> 0]
    /\ orderMap = [g \in Streams |-> [p \in Parties |-> {}]]
    /\ orders = [s \in DOMAIN Agents |-> {}]
    /\ external = [s \in DOMAIN Agents |-> {}]
    /\ died = [g \in Streams |-> 0]

-----------------------------------------------------------------------------
(* The network (external): an order becomes active once and ends once.     *)

\* Of events (places of the log), those of an order, and the last of them.
OfOrder(events, o) == {i \in events : log[i].order = o}
LastOf(events, o) ==
    CHOOSE i \in OfOrder(events, o) : \A j \in OfOrder(events, o) : j <= i

\* Events of an order leave it active.
Active(events, o) == log[LastOf(events, o)].active

\* Orders the first n events leave active.
Live(n) == {o \in Orders : OfOrder(1 .. n, o) # {} /\ Active(1 .. n, o)}

OrderPlaced(o) ==
    /\ OfOrder(DOMAIN log, o) = {}
    /\ log' = Append(log, [order |-> o, active |-> TRUE])
    /\ UNCHANGED <<streamVars, orders, external>>

\* Filled, cancelled, expired or stopped.
OrderEnds(o) ==
    /\ o \in Live(Len(log))
    /\ log' = Append(log, [order |-> o, active |-> FALSE])
    /\ UNCHANGED <<streamVars, orders, external>>

-----------------------------------------------------------------------------
(* The stores.                                                             *)

\* SetOrders and SetExternalOrders: each event in turn enters its order in
\* the map or deletes it, so the last event of an order decides.
SetOrders(known, events) ==
    {o \in Orders : IF OfOrder(events, o) # {} THEN Active(events, o) ELSE o \in known}

-----------------------------------------------------------------------------
(* streamOrders.                                                           *)

Newest == Cardinality({g \in Streams : place[g] # "unborn"})

\* ObserveOrders succeeds; the snapshot, which stands for every event so
\* far, is on its way.
Opens(g) ==
    /\ g = Newest + 1
    /\ place' = [place EXCEPT ![g] = "clear"]
    /\ store' = [store EXCEPT ![g] = 1]
    /\ pos' = [pos EXCEPT ![g] = Len(log)]
    /\ UNCHANGED <<log, orderMap, died, orders, external>>

\* The next store, or on to where the pass over the stores leads.
NextStore(g, then) ==
    IF store[g] = Len(Agents)
    THEN place' = [place EXCEPT ![g] = then] /\ store' = [store EXCEPT ![g] = 1]
    ELSE UNCHANGED place /\ store' = [store EXCEPT ![g] = @ + 1]

\* Mutant: the stores are not cleared.
Clears_Nothing(g) ==
    /\ place[g] = "clear"
    /\ NextStore(g, "snapshot")
    /\ UNCHANGED <<log, pos, orderMap, died, orders, external>>

\* ClearOrders empties the store's own orders, not the external ones.
Clears(g) ==
    /\ place[g] = "clear"
    /\ orders' = [orders EXCEPT ![store[g]] = {}]
    /\ NextStore(g, "snapshot")
    /\ UNCHANGED <<log, pos, orderMap, died, external>>

\* Appends each event to the list of its order's party.
Sorted(map, events) ==
    [p \in Parties |-> map[p] \cup {i \in events : Owner[log[i].order] = p}]

\* The active orders among the first n events, each with the one event that
\* says so: they come in any order, but no two are of one order.
Snapshot(n) == {i \in 1 .. n : log[i].active /\ log[i].order \in Live(n)}

ReceivesSnapshot(g) ==
    /\ place[g] = "snapshot"
    /\ place' = [place EXCEPT ![g] = "write"]
    /\ orderMap' = [orderMap EXCEPT ![g] = Sorted(@, Snapshot(pos[g]))]
    /\ UNCHANGED <<log, store, pos, died, orders, external>>

\* A message carries the next events, one or several.
ReceivesUpdates(g) ==
    /\ place[g] = "recv"
    /\ \E n \in (pos[g] + 1)..Len(log) :
         /\ pos' = [pos EXCEPT ![g] = n]
         /\ orderMap' = [orderMap EXCEPT ![g] = Sorted(@, (pos[g] + 1) .. n)]
    /\ place' = [place EXCEPT ![g] = "write"]
    /\ UNCHANGED <<log, store, died, orders, external>>

\* What SetExternalOrders makes of the lists of all other parties.  Lists of
\* different parties name different orders, so the order in which they are
\* strung together does not matter: its own party's list decides an order.
External(known, map, self) ==
    {o \in Orders : IF Owner[o] = self THEN o \in known
                    ELSE o \in SetOrders(known, map[Owner[o]])}

\* Mutant: every list is emptied, before the later stores have seen it.
Emptied_All(map, self) == [p \in Parties |-> {}]

\* The list of the store's own party has been applied.
Emptied(map, self) == [map EXCEPT ![self] = {}]

\* One store's turn in storeOrders: SetOrders, then SetExternalOrders.
Writes(g) ==
    /\ place[g] = "write"
    /\ LET s == store[g]
           self == Agents[s]
           map == orderMap[g]
       IN  /\ orders' = [orders EXCEPT ![s] = SetOrders(@, map[self])]
           /\ external' = [external EXCEPT ![s] = External(@, map, self)]
           /\ orderMap' = [orderMap EXCEPT ![g] = Emptied(map, self)]
    /\ NextStore(g, "recv")
    /\ UNCHANGED <<log, pos, died>>

\* Recv fails; the goroutine asks for a reconnect and returns, its map with
\* it.
Dies(g) ==
    /\ place[g] \in {"snapshot", "recv"}
    /\ place' = [place EXCEPT ![g] = "dead"]
    /\ died' = [died EXCEPT ![g] = Newest]
    /\ orderMap' = [orderMap EXCEPT ![g] = [p \in Parties |-> {}]]
    /\ pos' = [pos EXCEPT ![g] = 0]
    /\ UNCHANGED <<log, store, orders, external>>

Stream(g) ==
    Opens(g) \/ Clears(g) \/ ReceivesSnapshot(g) \/ ReceivesUpdates(g) \/ Writes(g) \/ Dies(g)

-----------------------------------------------------------------------------

Next ==
    \/ \E o \in Orders : OrderPlaced(o) \/ OrderEnds(o)
    \/ \E g \in Streams : Stream(g)

Spec == Init /\ [][Next]_vars

-----------------------------------------------------------------------------
(* Properties.                                                             *)

TypeOK ==
    /\ log \in Seq(Events)
    /\ place \in [Streams -> {"unborn", "clear", "snapshot", "write", "recv", "dead"}]
    /\ store \in [Streams -> DOMAIN Agents]
    /\ pos \in [Streams -> 0..Len(log)]
    /\ orderMap \in [Streams -> [Parties -> SUBSET DOMAIN log]]
    /\ orders \in [DOMAIN Agents -> SUBSET Orders]
    /\ external \in [DOMAIN Agents -> SUBSET Orders]
    /\ died \in [Streams -> 0..MaxStreams]

OwnedBy(p) == {o \in Orders : Owner[o] = p}
OwnedByForeign == {o \in Orders : Owner[o] \in Foreign}

CaughtUp(g) == place[g] = "recv" /\ pos[g] = Len(log)

\* The newest stream has caught up, every older one has too or was dead
\* before the newest opened.  An older stream that lagged behind the newest
\* and then died is left out: an order it brought back stays in the store
\* until another reconnect clears it.
Quiet ==
    /\ Newest > 0
    /\ CaughtUp(Newest)
    /\ \A g \in 1..(Newest - 1) : CaughtUp(g) \/ (died[g] # 0 /\ died[g] < Newest)

\* However the streams of several ages interleave, once they have caught up
\* each store holds exactly its agent's active orders: none missed over a
\* reconnect, none left that ended meanwhile, none brought back by an older
\* stream that lags behind.
OwnOrdersExact ==
    Quiet => \A s \in DOMAIN Agents :
        orders[s] = Live(Len(log)) \cap OwnedBy(Agents[s])

\* Then, too, every store knows every active order of the other parties.
ForeignOrdersKnown ==
    Quiet => \A s \in DOMAIN Agents :
        Live(Len(log)) \cap OwnedByForeign \subseteq external[s]
=============================================================================
