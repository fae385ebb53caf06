-------------------------- MODULE VegaValuesProofs --------------------------
(***************************************************************************)
(* For any stores, kinds of data, number of openings and changes: a store  *)
(* holds its own data only, and goes back to an older value only where two *)
(* runs of StreamVegaData overlap; what a load that ran alone leaves in a  *)
(* store is not older than that load, as far as the network lists it, and  *)
(* what the streams have brought is what the stores hold.                  *)
(***************************************************************************)
EXTENDS VegaValues, FiniteSetTheorems, SequenceTheorems, WellFoundedInduction, TLAPS

-----------------------------------------------------------------------------
(* Cells, requests and subscriptions.                                      *)

LEMMA SetToSeqOf ==
    ASSUME NEW S, IsFiniteSet(S)
    PROVE  /\ SetToSeq(S) \in [1 .. Cardinality(S) -> S]
           /\ Cardinality(S) \in Nat
           /\ IsInjective(SetToSeq(S))
           /\ \A e \in S : \E n \in 1 .. Cardinality(S) : SetToSeq(S)[n] = e
<1> DEFINE D == 1 .. Cardinality(S)
<1>1. Cardinality(S) \in Nat /\ ExistsBijection(D, S)
  BY FS_CardinalityType
<1>2. \E f \in [D -> S] : IsInjective(f)
  BY <1>1 DEF ExistsBijection, Bijection, Injection
<1>3. SetToSeq(S) \in [D -> S] /\ IsInjective(SetToSeq(S))
  BY <1>1, <1>2 DEF SetToSeq
<1>4. SetToSeq(S) \in Injection(D, S) /\ Cardinality(D) = Cardinality(S)
  BY <1>1, <1>3, FS_Interval DEF Injection
<1>5. SetToSeq(S) \in Surjection(D, S)
  BY <1>4, FS_Injection
<1> QED
  BY <1>1, <1>3, <1>5 DEF Surjection

LEMMA FinitePlaces ==
    /\ Len(Stores) \in Nat /\ Places = 1 .. Len(Stores) /\ IsFiniteSet(Places)
    /\ IsFiniteSet(Agents) /\ IsFiniteSet(Markets)
<1>1. Len(Stores) \in Nat /\ Places = 1 .. Len(Stores)
  BY ValuesAssumption DEF Places
<1>2. IsFiniteSet(Places)
  BY <1>1, FS_Interval
<1>3. IsFiniteSet(Agents)
  <2>1. [i \in Places |-> Stores[i].agent] \in Surjection(Places, Agents)
    BY DEF Surjection, Agents
  <2> QED
    BY <1>2, <2>1, FS_Surjection
<1>4. IsFiniteSet(Markets)
  <2>1. [i \in Places |-> Stores[i].market] \in Surjection(Places, Markets)
    BY DEF Surjection, Markets
  <2> QED
    BY <1>2, <2>1, FS_Surjection
<1> QED
  BY <1>1, <1>2, <1>3, <1>4

\* The stores are written one after the other: there is a first one.
LEMMA MinOf ==
    ASSUME NEW S, S \subseteq Places, S # {}
    PROVE  Min(S) \in S
<1>1. S \subseteq Nat
  BY FinitePlaces
<1>2. PICK i \in S : \A j \in S : ~(<<j, i>> \in OpToRel(<, Nat))
  BY <1>1, NatLessThanWellFounded, WFMin
<1>3. \A j \in S : ~(j < i)
  BY <1>1, <1>2 DEF OpToRel
<1>4. i \in S /\ \A j \in S : i <= j
  BY <1>1, <1>3
<1> QED
  BY <1>4 DEF Min

\* The streams of accounts and positions: one for each agent, and no cell in
\* two of them.
LEMMA AgentStreams ==
    ASSUME NEW k \in Kinds \cap {"accounts", "positions"}
    PROVE  /\ \E n \in Nat : ByAgent[k] \in [1 .. n -> SUBSET Cells[k]]
           /\ \A a \in Agents : \E n \in DOMAIN ByAgent[k] : ByAgent[k][n] = OfAgent(k, a)
           /\ \A m, n \in DOMAIN ByAgent[k] :
                 m # n => ByAgent[k][m] \cap ByAgent[k][n] = {}
<1> DEFINE groups == {OfAgent(k, a) : a \in Agents}
<1>1. IsFiniteSet(groups)
  <2>1. [a \in Agents |-> OfAgent(k, a)] \in Surjection(Agents, groups)
    BY DEF Surjection
  <2> HIDE DEF groups
  <2> QED
    BY <2>1, FinitePlaces, FS_Surjection
<1>2. ByAgent[k] = SetToSeq(groups)
  BY DEF ByAgent
<1>3. groups \subseteq SUBSET Cells[k]
  BY DEF OfAgent
<1>4. /\ ByAgent[k] \in [1 .. Cardinality(groups) -> groups]
      /\ Cardinality(groups) \in Nat /\ IsInjective(ByAgent[k])
      /\ \A e \in groups : \E n \in DOMAIN ByAgent[k] : ByAgent[k][n] = e
  <2> HIDE DEF groups
  <2> QED
    BY <1>1, <1>2, SetToSeqOf
<1>5. ASSUME NEW m \in DOMAIN ByAgent[k], NEW n \in DOMAIN ByAgent[k], m # n
      PROVE  ByAgent[k][m] \cap ByAgent[k][n] = {}
  <2>1. ByAgent[k][m] \in groups /\ ByAgent[k][n] \in groups
    BY <1>4
  <2>2. ByAgent[k][m] # ByAgent[k][n]
    BY <1>4, <1>5 DEF IsInjective
  <2>3. PICK a \in Agents, b \in Agents :
           ByAgent[k][m] = OfAgent(k, a) /\ ByAgent[k][n] = OfAgent(k, b)
    BY <2>1
  <2>4. a # b
    BY <2>2, <2>3
  <2> QED
    BY <2>3, <2>4 DEF OfAgent
<1>6. ByAgent[k] \in [1 .. Cardinality(groups) -> SUBSET Cells[k]]
  <2> HIDE DEF groups
  <2> QED
    BY <1>3, <1>4
<1> QED
  BY <1>4, <1>5, <1>6

\* A request asks for cells of its kind.
LEMMA RequestCells ==
    ASSUME kind \in Kinds
    PROVE  \E n \in Nat : Requests \in [1 .. n -> SUBSET Cells[kind]]
<1>1. Requests = RequestsOf[kind] /\ RequestsOf[kind] =
        CASE kind \in {"markets", "marketData"} -> SetToSeq({{<<m>>} : m \in Markets})
          [] kind = "accounts"                  -> ByAgent[kind]
          [] kind = "positions"                 -> <<Cells[kind]>>
          [] kind = "liquidity"                 ->
                [i \in Places |-> {<<Stores[i].market, Stores[i].agent>>}]
          [] OTHER                              -> <<{<<"network">>}>>
  BY DEF Requests, RequestsOf
<1>2. CASE kind \in {"markets", "marketData"}
  <2> DEFINE groups == {{<<m>>} : m \in Markets}
  <2>1. Cells[kind] = {<<m>> : m \in Markets}
    BY <1>2 DEF Cells
  <2>2. groups \subseteq SUBSET Cells[kind]
    BY <2>1
  <2>3. [m \in Markets |-> {<<m>>}] \in Surjection(Markets, groups)
    BY DEF Surjection
  <2>4. Requests = SetToSeq(groups)
    BY <1>1, <1>2
  <2> HIDE DEF groups
  <2>5. IsFiniteSet(groups)
    BY <2>3, FinitePlaces, FS_Surjection
  <2>6. Requests \in [1 .. Cardinality(groups) -> groups] /\ Cardinality(groups) \in Nat
    BY <2>4, <2>5, SetToSeqOf
  <2> QED
    BY <2>2, <2>6
<1>3. CASE kind = "accounts"
  BY <1>1, <1>3, AgentStreams
<1>4. CASE kind = "positions"
  BY <1>1, <1>4
<1>5. CASE kind = "liquidity"
  <2>1. Cells[kind] = Markets \X Agents
    BY <1>5 DEF Cells
  <2>2. \A i \in Places : {<<Stores[i].market, Stores[i].agent>>} \in SUBSET Cells[kind]
    BY <2>1 DEF Markets, Agents
  <2>3. Requests = [i \in Places |-> {<<Stores[i].market, Stores[i].agent>>}]
    BY <1>1, <1>5
  <2>4. Requests \in [Places -> SUBSET Cells[kind]]
    BY <2>2, <2>3
  <2> QED
    BY <2>4, FinitePlaces
<1>6. CASE kind \in {"assets", "stake"}
  <2>1. Cells[kind] = {<<"network">>}
    BY <1>6 DEF Cells
  <2>2. Requests = <<{<<"network">>}>>
    BY <1>1, <1>6
  <2> QED
    BY <2>1, <2>2
<1> QED
  BY <1>2, <1>3, <1>4, <1>5, <1>6, ValuesAssumption

\* A subscription is to cells of its kind, and no cell is in two.
LEMMA SubscriptionCells ==
    ASSUME kind \in Kinds
    PROVE  /\ 0 \notin Streams /\ \E n \in Nat : Streams = 1 .. n
           /\ Subscriptions \in [Streams -> SUBSET Cells[kind]]
           /\ \A j, k \in Streams : j # k => Subscriptions[j] \cap Subscriptions[k] = {}
<1>1. Subscriptions = SubscriptionsOf[kind] /\ SubscriptionsOf[kind] =
        CASE kind = "marketData"                -> <<Cells[kind]>>
          [] kind \in {"accounts", "positions"} -> ByAgent[kind]
          [] OTHER                              -> <<>>
  BY DEF Subscriptions, SubscriptionsOf
<1>2. CASE kind = "marketData"
  BY <1>1, <1>2 DEF Streams
<1>3. CASE kind \in {"accounts", "positions"}
  BY <1>1, <1>3, AgentStreams DEF Streams
<1>4. CASE kind \notin {"marketData", "accounts", "positions"}
  BY <1>1, <1>4 DEF Streams
<1> QED
  BY <1>2, <1>3, <1>4

\* Whatever message brings a cell, a slot takes its own only.
LEMMA TakesOwn ==
    ASSUME kind \in Kinds, NEW i \in Places, NEW slot \in Slots, NEW c \in Cells[kind],
           Takes(i, slot, c)
    PROVE  c = CellOf(i, slot)
<1>1. CASE kind \in {"markets", "marketData"}
  BY <1>1 DEF Cells, Takes, CellOf
<1>2. CASE kind = "accounts"
  BY <1>2 DEF Cells, Takes, CellOf
<1>3. CASE kind \in {"positions", "liquidity"}
  BY <1>3 DEF Cells, Takes, CellOf
<1>4. CASE kind \in {"assets", "stake"}
  BY <1>4 DEF Cells, Takes, CellOf
<1> QED
  BY <1>1, <1>2, <1>3, <1>4, ValuesAssumption

LEMMA OwnCells ==
    ASSUME kind \in Kinds, NEW i \in Places, NEW slot \in Slots
    PROVE  CellOf(i, slot) \in Cells[kind]
<1>1. CASE kind \in {"markets", "marketData"}
  BY <1>1 DEF Cells, CellOf, Markets
<1>2. CASE kind = "accounts"
  BY <1>2 DEF Cells, CellOf, Agents, Slots
<1>3. CASE kind \in {"positions", "liquidity"}
  BY <1>3 DEF Cells, CellOf, Agents, Markets
<1>4. CASE kind \in {"assets", "stake"}
  BY <1>4 DEF Cells, CellOf
<1> QED
  BY <1>1, <1>2, <1>3, <1>4, ValuesAssumption

\* A load asks for the value of every slot.
LEMMA EverySlotAsked ==
    ASSUME kind \in Kinds, NEW i \in Places, NEW slot \in Slots
    PROVE  /\ Len(Requests) \in Nat
           /\ \E n \in 1 .. Len(Requests) : CellOf(i, slot) \in Requests[n]
<1>1. Len(Requests) \in Nat /\ DOMAIN Requests = 1 .. Len(Requests)
  BY RequestCells
<1>2. Requests = RequestsOf[kind] /\ RequestsOf[kind] =
        CASE kind \in {"markets", "marketData"} -> SetToSeq({{<<m>>} : m \in Markets})
          [] kind = "accounts"                  -> ByAgent[kind]
          [] kind = "positions"                 -> <<Cells[kind]>>
          [] kind = "liquidity"                 ->
                [j \in Places |-> {<<Stores[j].market, Stores[j].agent>>}]
          [] OTHER                              -> <<{<<"network">>}>>
  BY DEF Requests, RequestsOf
<1>3. CellOf(i, slot) \in Cells[kind]
  BY OwnCells
<1>4. \E n \in DOMAIN Requests : CellOf(i, slot) \in Requests[n]
  <2>1. CASE kind \in {"markets", "marketData"}
    <3> DEFINE groups == {{<<m>>} : m \in Markets}
    <3>1. Requests = SetToSeq(groups)
      BY <1>2, <2>1
    <3>2. [m \in Markets |-> {<<m>>}] \in Surjection(Markets, groups)
      BY DEF Surjection
    <3>3. {<<Stores[i].market>>} \in groups
      BY DEF Markets
    <3> HIDE DEF groups
    <3>4. IsFiniteSet(groups)
      BY <3>2, FinitePlaces, FS_Surjection
    <3>5. \E n \in DOMAIN Requests : Requests[n] = {<<Stores[i].market>>}
      BY <3>1, <3>3, <3>4, SetToSeqOf
    <3> QED
      BY <2>1, <3>5 DEF CellOf
  <2>2. CASE kind = "accounts"
    <3>1. PICK n \in DOMAIN ByAgent[kind] : ByAgent[kind][n] = OfAgent(kind, Stores[i].agent)
      BY <2>2, AgentStreams DEF Agents
    <3>2. CellOf(i, slot) \in OfAgent(kind, Stores[i].agent)
      BY <1>3, <2>2 DEF OfAgent, AgentOf, CellOf
    <3> QED
      BY <1>2, <2>2, <3>1, <3>2
  <2>3. CASE kind = "positions"
    BY <1>2, <1>3, <2>3
  <2>4. CASE kind = "liquidity"
    BY <1>2, <2>4 DEF CellOf
  <2>5. CASE kind \in {"assets", "stake"}
    <3>1. Requests = <<{<<"network">>}>> /\ CellOf(i, slot) = <<"network">>
      BY <1>2, <2>5 DEF CellOf
    <3>2. 1 \in DOMAIN Requests /\ CellOf(i, slot) \in Requests[1]
      BY <3>1
    <3> QED
      BY <3>2
  <2> QED
    BY <2>1, <2>2, <2>3, <2>4, <2>5, ValuesAssumption
<1> QED
  BY <1>1, <1>4

\* What a slot is for, it takes.
LEMMA TakesIts ==
    ASSUME kind \in Kinds, NEW i \in Places, NEW slot \in Slots
    PROVE  Takes(i, slot, CellOf(i, slot))
<1>1. CASE kind \in {"markets", "marketData"}
  BY <1>1 DEF Takes, CellOf
<1>2. CASE kind = "accounts"
  BY <1>2 DEF Takes, CellOf
<1>3. CASE kind \in {"positions", "liquidity"}
  BY <1>3 DEF Takes, CellOf
<1>4. CASE kind \in {"assets", "stake"}
  BY <1>4 DEF Takes, CellOf
<1> QED
  BY <1>1, <1>2, <1>3, <1>4, ValuesAssumption

LEMMA FiniteCells ==
    ASSUME kind \in Kinds
    PROVE  IsFiniteSet(Cells[kind])
<1>1. CASE kind \in {"markets", "marketData"}
  <2>1. Cells[kind] = {<<m>> : m \in Markets}
    BY <1>1 DEF Cells
  <2>2. [m \in Markets |-> <<m>>] \in Surjection(Markets, Cells[kind])
    BY <2>1 DEF Surjection
  <2> QED
    BY <2>2, FinitePlaces, FS_Surjection
<1>2. CASE kind = "accounts"
  <2>1. Cells[kind] = Agents \X Assets
    BY <1>2 DEF Cells
  <2> QED
    BY <2>1, FinitePlaces, FS_Product, ValuesAssumption
<1>3. CASE kind \in {"positions", "liquidity"}
  <2>1. Cells[kind] = Markets \X Agents
    BY <1>3 DEF Cells
  <2> QED
    BY <2>1, FinitePlaces, FS_Product
<1>4. CASE kind \in {"assets", "stake"}
  <2>1. Cells[kind] = {<<"network">>}
    BY <1>4 DEF Cells
  <2> QED
    BY <2>1, FS_Singleton
<1> QED
  BY <1>1, <1>2, <1>3, <1>4, ValuesAssumption

LEMMA FiniteChanges == IsFiniteSet(1 .. MaxChanges)
<1>1. MaxChanges \in Int /\ 1 \in Int
  BY ValuesAssumption
<1> QED
  BY <1>1, FS_Interval, Zenon

\* Every change of a value is counted.
LEMMA ChangesCounted ==
    ASSUME kind \in Kinds, NEW c \in Cells[kind], latest[c] \in 1 .. MaxChanges + 1,
           NumChanges < MaxChanges
    PROVE  latest[c] <= MaxChanges
<1> DEFINE counted == {v \in Cells[kind] \X (1 .. MaxChanges) : v[2] < latest[v[1]]}
           D == 1 .. latest[c] - 1
           f == [n \in D |-> <<c, n>>]
<1>1. MaxChanges \in Nat /\ latest[c] \in Nat /\ latest[c] >= 1
  BY ValuesAssumption
<1>2. IsFiniteSet(counted)
  <2>1. IsFiniteSet(Cells[kind] \X (1 .. MaxChanges))
    BY FiniteChanges, FiniteCells, FS_Product
  <2> QED
    BY <2>1, FS_Subset
<1>3. f \in Injection(D, counted)
  <2>1. \A n \in D : n \in 1 .. MaxChanges /\ n < latest[c]
    BY <1>1
  <2>2. f \in [D -> counted]
    BY <2>1
  <2> QED
    BY <2>2 DEF Injection, IsInjective
<1>4. Cardinality(counted) < MaxChanges /\ Cardinality(counted) \in Nat
  BY <1>2, FS_CardinalityType DEF NumChanges
<1>5. Cardinality(D) = latest[c] - 1
  <2>1. ASSUME NEW b \in Nat PROVE Cardinality(1 .. b) = b
    BY FS_Interval
  <2>2. latest[c] - 1 \in Nat
    BY <1>1
  <2> QED
    BY <2>1, <2>2
<1> HIDE DEF counted, D, f
<1>6. Cardinality(D) <= Cardinality(counted)
  BY <1>2, <1>3, FS_Injection
<1> QED
  BY <1>1, <1>4, <1>5, <1>6

-----------------------------------------------------------------------------
(* The invariant.                                                          *)

\* The versions of some cells: what a response or a message carries.
Versions(cells) == UNION {[D -> Nat] : D \in SUBSET cells}

\* What a store can hold in a slot.
Entries == {e \in [cell : AllCells, version : Nat, holds : {"nothing", "pending", "value"}] :
                e.holds = Kept(e.cell, e.version)}

LEMMA EntryOf ==
    ASSUME NEW c \in AllCells, NEW v \in Nat
    PROVE  [cell |-> c, version |-> v, holds |-> Kept(c, v)] \in Entries
<1>1. Kept(c, v) \in {"nothing", "pending", "value"}
  BY DEF Kept
<1> QED
  BY <1>1 DEF Entries

LEMMA NoEntry ==
    ASSUME NEW c \in AllCells
    PROVE  [cell |-> c, version |-> 0, holds |-> "nothing"] \in Entries
<1>1. Kept(c, 0) = "nothing" /\ 0 \in Nat
  BY DEF Kept
<1>2. [cell |-> c, version |-> 0, holds |-> Kept(c, 0)] \in Entries
  BY <1>1, EntryOf, Zenon
<1> QED
  BY <1>1, <1>2

\* An entry is for a cell, and has a version.
LEMMA OfEntry ==
    ASSUME NEW e \in Entries
    PROVE  e.cell \in AllCells /\ e.version \in Nat /\ e.holds = Kept(e.cell, e.version)
BY DEF Entries

Types ==
    /\ kind \in Kinds
    /\ latest \in [AllCells -> Nat]
    /\ value \in [Places -> [Slots -> Entries]]
    /\ stage \in [Openings -> {"none", "load", "live", "short"}]
    /\ step \in [Openings -> Nat \ {0}]
    /\ response \in [Openings -> Versions(AllCells)]
    /\ toWrite \in [Openings -> SUBSET Places]
    /\ place \in [Openings -> [Streams -> {"closed", "open", "ended"}]]
    /\ message \in [Openings -> [Streams -> Versions(AllCells)]]
    /\ rest \in [Openings -> [Streams -> SUBSET Places]]
    /\ settled \in [Openings -> [Streams \cup {0} -> SUBSET Openings]]

\* The streams of an opening are subscribed one after the other.
InOrder(places) ==
    \A j, k \in Streams : j < k /\ places[j] = "closed" => places[k] = "closed"

\* The loads come before the streams, and what is to be written is the
\* work of a load or a stream that is under way.
Stages ==
    \A g \in Openings :
        /\ toWrite[g] # {} => stage[g] = "load"
        /\ \A k \in Streams :
              /\ place[g][k] # "closed" => Loaded(g)
              /\ rest[g][k] # {} => place[g][k] = "open"
              /\ DOMAIN message[g][k] \subseteq Subscriptions[k]
        /\ InOrder(place[g])

\* Nothing is newer than the network.
NoneNewer ==
    /\ \A i \in Places, slot \in Slots :
          value[i][slot].version <= latest[CellOf(i, slot)]
    /\ \A g \in Openings :
          /\ \A c \in DOMAIN response[g] : response[g][c] <= latest[c]
          /\ \A k \in Streams : \A c \in DOMAIN message[g][k] : message[g][k][c] <= latest[c]

\* What history calls settled has ended.
SettledEnded ==
    \A g \in Openings : \A h \in settled[g][0] : Finished(h)

\* An opening that began after every other one had ended.
Alone(g) ==
    /\ stage[g] # "none"
    /\ \A h \in Openings \ {g} : stage[h] = "none" \/ h \in settled[g][0]

\* What is still to be written is not older than what it replaces.
NewerLoad(g) ==
    \A i \in toWrite[g], slot \in Slots : \A c \in DOMAIN response[g] :
        Takes(i, slot, c) => value[i][slot].version <= response[g][c]

NewerStream(g, k) ==
    \A i \in rest[g][k], slot \in Slots : \A c \in DOMAIN message[g][k] :
        Takes(i, slot, c) => value[i][slot].version <= message[g][k][c]

NewerToCome ==
    \A g \in Openings : Alone(g) => NewerLoad(g) /\ \A k \in Streams : NewerStream(g, k)

Inv == Types /\ OwnDataOnly /\ Stages /\ NoneNewer /\ SettledEnded /\ NewerToCome

LEMMA NoVersions ==
    ASSUME NEW cells
    PROVE  None \in Versions(cells) /\ DOMAIN None = {}
<1>1. None \in [{} -> Nat] /\ DOMAIN None = {}
  BY DEF None
<1>2. {} \in SUBSET cells
  OBVIOUS
<1> QED
  BY <1>1, <1>2, Zenon DEF Versions

LEMMA InitInv == Init => Inv
<1> SUFFICES ASSUME Init PROVE Inv
  OBVIOUS
<1>1. kind \in Kinds /\ 0 \notin Streams
  BY SubscriptionCells DEF Init
<1>2. None \in Versions(AllCells) /\ DOMAIN None = {}
  BY NoVersions
<1>3. Types
  <2>1. \A i \in Places, slot \in Slots : CellOf(i, slot) \in AllCells
    BY <1>1, OwnCells DEF AllCells
  <2>2. \A i \in Places, slot \in Slots :
           [cell |-> CellOf(i, slot), version |-> 0, holds |-> "nothing"] \in Entries
    BY <2>1, NoEntry
  <2> QED
    BY <1>1, <1>2, <2>2 DEF Init, Types, AllCells
<1>4. OwnDataOnly
  BY DEF Init, OwnDataOnly
<1>5. Stages
  BY <1>2 DEF Init, Stages, InOrder
<1>6. NoneNewer
  BY <1>1, <1>2, OwnCells DEF Init, NoneNewer
<1>7. SettledEnded
  BY DEF Init, SettledEnded
<1>8. NewerToCome
  BY DEF Init, NewerToCome, NewerLoad, NewerStream
<1> QED
  BY <1>3, <1>4, <1>5, <1>6, <1>7, <1>8 DEF Inv

\* What the kind alone decides stays as it is.
LEMMA SameKind ==
    ASSUME kind' = kind
    PROVE  /\ AllCells' = AllCells /\ Slots' = Slots /\ Streams' = Streams
           /\ Subscriptions' = Subscriptions /\ Requests' = Requests
           /\ \A i, slot : CellOf(i, slot)' = CellOf(i, slot)
           /\ \A i, slot, c : Takes(i, slot, c)' = Takes(i, slot, c)
           /\ \A cells : Takers(cells)' = Takers(cells)
           /\ \A c, v : Kept(c, v)' = Kept(c, v) /\ Listed(c, v)' = Listed(c, v)
           /\ Entries' = Entries
<1>1. AllCells' = AllCells
  BY DEF AllCells
<1>2. \A c, v : Kept(c, v)' = Kept(c, v) /\ Listed(c, v)' = Listed(c, v)
  BY DEF Kept, Listed
<1>3. Entries' = Entries
  BY <1>1, <1>2 DEF Entries
<1> QED
  BY <1>1, <1>2, <1>3 DEF Slots, Streams, Subscriptions, Requests, CellOf, Takes, Takers

\* An opening that has begun stays so, and history is written only when one
\* begins (k = 0); what has ended stays so.
Forward ==
    /\ kind' = kind
    /\ \A g \in Openings : stage[g] # "none" =>
          stage'[g] # "none" /\ settled'[g][0] = settled[g][0]
    /\ \A g \in Openings : Loaded(g) => Loaded(g)'
    /\ \A g \in Openings, k \in Streams :
          place[g][k] = "ended" /\ rest[g][k] = {} => place'[g][k] = "ended" /\ rest'[g][k] = {}

LEMMA FinishedStays ==
    ASSUME Forward, NEW g \in Openings, Finished(g)
    PROVE  Finished(g)'
BY SameKind DEF Forward, Finished, Quiet

LEMMA AloneStays ==
    ASSUME Forward, NEW g \in Openings, stage[g] # "none", Alone(g)'
    PROVE  Alone(g)
BY DEF Forward, Alone

LEMMA SettledStays ==
    ASSUME SettledEnded, Forward,
           \A g \in Openings : \A h \in settled'[g][0] \ settled[g][0] : h \in Openings /\ Finished(h),
           Types
    PROVE  SettledEnded'
<1> SUFFICES ASSUME NEW g \in Openings, NEW h \in settled'[g][0]
             PROVE  Finished(h)'
  BY DEF SettledEnded
<1>1. h \in Openings /\ Finished(h)
  <2>1. settled[g][0] \subseteq Openings
    BY DEF Types
  <2> QED
    BY <2>1 DEF SettledEnded
<1> QED
  BY <1>1, FinishedStays

\* Steps that write no store and bring nothing to write.
LEMMA NothingWritten ==
    ASSUME Inv, Types', Stages', Forward,
           UNCHANGED <<value, response, toWrite, message, rest>>,
           \A c \in AllCells : latest[c] <= latest'[c],
           \A g \in Openings : \A h \in settled'[g][0] \ settled[g][0] : h \in Openings /\ Finished(h)
    PROVE  Inv'
<1>1. kind' = kind /\ kind \in Kinds
  BY DEF Forward, Inv, Types
<1>2. OwnDataOnly'
  BY <1>1, SameKind DEF Inv, OwnDataOnly
<1>3. NoneNewer'
  <2>1. ASSUME NEW i \in Places, NEW slot \in Slots
        PROVE  value[i][slot].version <= latest'[CellOf(i, slot)]
    <3>1. CellOf(i, slot) \in AllCells
      BY <1>1, OwnCells DEF AllCells
    <3>2. /\ value[i][slot].version \in Nat
          /\ latest[CellOf(i, slot)] \in Nat /\ latest'[CellOf(i, slot)] \in Nat
      BY <1>1, <3>1, SameKind, OfEntry DEF Inv, Types
    <3> QED
      BY <3>1, <3>2 DEF Inv, NoneNewer
  <2>2. ASSUME NEW f \in Versions(AllCells), \A c \in DOMAIN f : f[c] <= latest[c]
        PROVE  \A c \in DOMAIN f : f[c] <= latest'[c]
    <3>1. \A c \in DOMAIN f : c \in AllCells /\ f[c] \in Nat
      BY DEF Versions
    <3>2. latest \in [AllCells -> Nat] /\ latest' \in [AllCells -> Nat]
      BY <1>1, SameKind DEF Inv, Types
    <3> QED
      BY <2>2, <3>1, <3>2
  <2>3. \A g \in Openings : \A c \in DOMAIN response[g] : response[g][c] <= latest'[c]
    BY <2>2 DEF Inv, Types, NoneNewer
  <2>4. \A g \in Openings, k \in Streams :
           \A c \in DOMAIN message[g][k] : message[g][k][c] <= latest'[c]
    BY <2>2 DEF Inv, Types, NoneNewer
  <2> QED
    BY <1>1, <2>1, <2>3, <2>4, SameKind DEF NoneNewer
<1>4. SettledEnded'
  BY SettledStays DEF Inv
<1>5. NewerToCome'
  <2> SUFFICES ASSUME NEW g \in Openings, Alone(g)'
               PROVE  NewerLoad(g)' /\ \A k \in Streams' : NewerStream(g, k)'
    BY DEF NewerToCome
  <2>1. CASE stage[g] = "none"
    <3>1. toWrite[g] = {} /\ \A k \in Streams : rest[g][k] = {}
      BY <2>1 DEF Inv, Stages, Loaded
    <3> QED
      BY <1>1, <3>1, SameKind DEF NewerLoad, NewerStream
  <2>2. CASE stage[g] # "none"
    <3>1. NewerLoad(g) /\ \A k \in Streams : NewerStream(g, k)
      BY <2>2, AloneStays DEF Inv, NewerToCome
    <3> QED
      BY <1>1, <3>1, SameKind DEF NewerLoad, NewerStream
  <2> QED
    BY <2>1, <2>2
<1> QED
  BY <1>2, <1>3, <1>4, <1>5 DEF Inv

LEMMA ChangesKeeps ==
    ASSUME Inv, NEW c \in DOMAIN latest, Changes(c)
    PROVE  Inv' /\ Forward
<1>1. /\ UNCHANGED <<kind, value, stage, step, response, toWrite, place, message, rest, settled>>
      /\ latest' = [latest EXCEPT ![c] = @ + 1]
  BY DEF Changes, loadVars, streamVars
<1>2. latest' \in [AllCells -> Nat] /\ \A d \in AllCells : latest[d] <= latest'[d]
  BY <1>1 DEF Inv, Types
<1>3. Types'
  BY <1>1, <1>2, SameKind DEF Inv, Types, Versions
<1>4. Stages'
  BY <1>1, SameKind DEF Inv, Stages, Loaded, InOrder
<1>5. Forward
  BY <1>1 DEF Forward, Loaded
<1> QED
  BY <1>1, <1>2, <1>3, <1>4, <1>5, NothingWritten

LEMMA OpensKeeps ==
    ASSUME Inv, NEW g \in Openings, Opens(g)
    PROVE  Inv' /\ Forward
<1>1. /\ UNCHANGED <<kind, latest, value, step, response, toWrite, place, message, rest>>
      /\ stage[g] = "none" /\ stage' = [stage EXCEPT ![g] = "load"]
      /\ settled' = [settled EXCEPT ![g][0] = {h \in Openings : Finished(h)}]
  BY DEF Opens, streamVars
<1>2. /\ stage'[g] = "load"
      /\ \A h \in Openings : h # g => stage'[h] = stage[h]
      /\ stage' \in [Openings -> {"none", "load", "live", "short"}]
  BY <1>1 DEF Inv, Types
<1>3. /\ settled' \in [Openings -> [Streams \cup {0} -> SUBSET Openings]]
      /\ settled'[g][0] = {h \in Openings : Finished(h)}
      /\ \A h \in Openings : h # g => settled'[h] = settled[h]
  BY <1>1 DEF Inv, Types
<1>4. Types'
  BY <1>1, <1>2, <1>3, SameKind DEF Inv, Types, Versions
<1>5. Stages'
  BY <1>1, <1>2, SameKind DEF Inv, Stages, Loaded, InOrder
<1>6. Forward
  BY <1>1, <1>2, <1>3 DEF Forward, Loaded
<1>7. \A c \in AllCells : latest[c] <= latest'[c]
  BY <1>1 DEF Inv, Types
<1>8. \A h \in Openings : \A b \in settled'[h][0] \ settled[h][0] : b \in Openings /\ Finished(b)
  BY <1>3
<1> QED
  BY <1>1, <1>4, <1>5, <1>6, <1>7, <1>8, NothingWritten

\* A load ends, on its way or with all its requests answered.
LEMMA LoadOverKeeps ==
    ASSUME Inv, NEW g \in Openings, LoadFails(g) \/ LoadEnds(g)
    PROVE  Inv' /\ Forward
<1>1. /\ UNCHANGED <<kind, latest, value, step, response, toWrite, place, message, rest, settled>>
      /\ stage[g] = "load" /\ toWrite[g] = {}
      /\ \E to \in {"live", "short"} : stage' = [stage EXCEPT ![g] = to]
  BY DEF LoadFails, LoadEnds, MayAsk, streamVars
<1>2. /\ stage'[g] \in {"live", "short"}
      /\ \A h \in Openings : h # g => stage'[h] = stage[h]
      /\ stage' \in [Openings -> {"none", "load", "live", "short"}]
  BY <1>1 DEF Inv, Types
<1>3. Types'
  BY <1>1, <1>2, SameKind DEF Inv, Types, Versions
<1>4. Stages'
  BY <1>1, <1>2, SameKind DEF Inv, Stages, Loaded, InOrder
<1>5. Forward
  BY <1>1, <1>2 DEF Forward, Loaded
<1>6. \A c \in AllCells : latest[c] <= latest'[c]
  BY <1>1 DEF Inv, Types
<1> QED
  BY <1>1, <1>3, <1>4, <1>5, <1>6, NothingWritten

\* A stream is subscribed, is not, or ends.
LEMMA StreamTurnsKeeps ==
    ASSUME Inv, NEW g \in Openings, NEW k \in Streams,
           Subscribes(g, k) \/ SubscribeFails(g, k) \/ Ends(g, k)
    PROVE  Inv' /\ Forward
<1>1. UNCHANGED <<kind, latest, value, stage, step, response, toWrite, message, rest>>
  BY DEF Subscribes, SubscribeFails, Ends, loadVars
<1>2. Streams \subseteq Int /\ 0 \notin Streams /\ \A i \in Streams, j \in Streams : i < j => i \in 1 .. j - 1
  BY SubscriptionCells DEF Inv, Types
<1>3. /\ place' \in [Openings -> [Streams -> {"closed", "open", "ended"}]]
      /\ \A h \in Openings : h # g => place'[h] = place[h]
      /\ \A j \in Streams :
            /\ place[g][j] = "ended" => place'[g][j] = "ended"
            /\ place'[g][j] # "closed" => Loaded(g)
            /\ rest[g][j] # {} => place'[g][j] = "open"
      /\ InOrder(place'[g])
  <2>1. CASE Subscribes(g, k)
    <3>1. /\ place' = [place EXCEPT ![g][k] = "open"]
          /\ Loaded(g) /\ place[g][k] = "closed"
          /\ \A j \in Streams : j < k => place[g][j] # "closed"
      BY <2>1, <1>2 DEF Subscribes, MaySubscribe
    <3>2. \A j \in Streams : place'[g][j] = IF j = k THEN "open" ELSE place[g][j]
      BY <3>1 DEF Inv, Types
    <3>3. InOrder(place'[g])
      BY <3>1, <3>2, <1>2 DEF Inv, Stages, InOrder
    <3> QED
      BY <3>1, <3>2, <3>3 DEF Inv, Types, Stages
  <2>2. CASE SubscribeFails(g, k)
    <3>1. /\ place' = [place EXCEPT ![g] = [j \in Streams |-> IF j < k THEN place[g][j] ELSE "ended"]]
          /\ Loaded(g) /\ place[g][k] = "closed"
          /\ \A j \in Streams : j < k => place[g][j] # "closed"
      BY <2>2, <1>2 DEF SubscribeFails, MaySubscribe, Inv, Types
    <3>2. \A j \in Streams : place'[g][j] = IF j < k THEN place[g][j] ELSE "ended"
      BY <3>1 DEF Inv, Types
    <3>3. \A j \in Streams : rest[g][j] # {} => j < k
      BY <3>1, <1>2 DEF Inv, Stages, InOrder
    <3>4. InOrder(place'[g])
      BY <3>1, <3>2 DEF InOrder
    <3> QED
      BY <3>1, <3>2, <3>3, <3>4 DEF Inv, Types, Stages
  <2>3. CASE Ends(g, k)
    <3>1. /\ place' = [place EXCEPT ![g][k] = "ended"]
          /\ place[g][k] = "open" /\ rest[g][k] = {}
      BY <2>3 DEF Ends
    <3>2. \A j \in Streams : place'[g][j] = IF j = k THEN "ended" ELSE place[g][j]
      BY <3>1 DEF Inv, Types
    <3>3. InOrder(place'[g])
      BY <3>1, <3>2 DEF Inv, Stages, InOrder
    <3> QED
      BY <3>1, <3>2, <3>3 DEF Inv, Types, Stages
  <2> QED
    BY <2>1, <2>2, <2>3
<1>4. /\ settled' \in [Openings -> [Streams \cup {0} -> SUBSET Openings]]
      /\ \A h \in Openings : settled'[h][0] = settled[h][0]
  <2>1. CASE settled' = settled
    BY <2>1 DEF Inv, Types
  <2>2. CASE settled' = [settled EXCEPT ![g][k] = {h \in Openings : Quiet(h, k)}]
    <3>1. k # 0
      BY <1>2
    <3> QED
      BY <2>2, <3>1 DEF Inv, Types
  <2> QED
    BY <2>1, <2>2 DEF Subscribes, SubscribeFails, Ends
<1>5. Types'
  BY <1>1, <1>3, <1>4, SameKind DEF Inv, Types, Versions
<1>6. Stages'
  <2> SUFFICES ASSUME NEW h \in Openings
               PROVE  /\ toWrite[h] # {} => stage[h] = "load"
                      /\ \A j \in Streams :
                            /\ place'[h][j] # "closed" => Loaded(h)
                            /\ rest[h][j] # {} => place'[h][j] = "open"
                            /\ DOMAIN message[h][j] \subseteq Subscriptions[j]
                      /\ InOrder(place'[h])
    BY <1>1, SameKind DEF Stages, Loaded, InOrder
  <2>1. CASE h = g
    <3>1. /\ toWrite[g] # {} => stage[g] = "load"
          /\ \A j \in Streams : DOMAIN message[g][j] \subseteq Subscriptions[j]
      BY DEF Inv, Stages
    <3> QED
      BY <1>3, <2>1, <3>1
  <2>2. CASE h # g
    BY <1>3, <2>2 DEF Inv, Stages
  <2> QED
    BY <2>1, <2>2
<1>7. Forward
  <2>1. \A h \in Openings, j \in Streams : place[h][j] = "ended" => place'[h][j] = "ended"
    <3> SUFFICES ASSUME NEW h \in Openings, NEW j \in Streams, place[h][j] = "ended"
                 PROVE  place'[h][j] = "ended"
      OBVIOUS
    <3>1. CASE h = g
      <4>1. place[g][j] = "ended"
        BY <3>1
      <4>2. place'[g][j] = "ended"
        BY <1>3, <4>1
      <4> QED
        BY <3>1, <4>2
    <3>2. CASE h # g
      BY <1>3, <3>2
    <3> QED
      BY <3>1, <3>2
  <2> QED
    BY <1>1, <1>4, <2>1 DEF Forward, Loaded
<1>8. \A c \in AllCells : latest[c] <= latest'[c]
  BY <1>1 DEF Inv, Types
<1>9. \A h \in Openings : \A b \in settled'[h][0] \ settled[h][0] : b \in Openings /\ Finished(b)
  BY <1>4
<1> QED
  BY <1>1, <1>5, <1>6, <1>7, <1>8, <1>9, NothingWritten

\* A response or a message carries the newest versions of what it is about.
LEMMA Carries ==
    ASSUME Types, NEW cells, cells \subseteq AllCells
    PROVE  /\ Restrict(latest, cells) \in Versions(AllCells)
           /\ DOMAIN Restrict(latest, cells) = cells
           /\ \A c \in cells : Restrict(latest, cells)[c] = latest[c]
BY DEF Types, Restrict, Versions

\* Nothing a store holds is newer than what is asked for now.
LEMMA OlderThanNew ==
    ASSUME Inv, NEW i \in Places, NEW slot \in Slots, NEW c \in AllCells, Takes(i, slot, c)
    PROVE  value[i][slot].version <= latest[c]
<1>1. c = CellOf(i, slot)
  BY TakesOwn DEF Inv, Types, AllCells
<1> QED
  BY <1>1 DEF Inv, NoneNewer

LEMMA AnsweredKeeps ==
    ASSUME Inv, NEW g \in Openings, Answered(g)
    PROVE  Inv' /\ Forward
<1> DEFINE cells == Edges(Requests[step[g]])
           f == Restrict(latest, cells)
<1>1. /\ stage[g] = "load" /\ toWrite[g] = {} /\ step[g] <= Len(Requests)
      /\ response' = [response EXCEPT ![g] = f]
      /\ toWrite' = [toWrite EXCEPT ![g] = Takers(cells)]
      /\ step' = [step EXCEPT ![g] = @ + 1]
      /\ UNCHANGED <<kind, latest, value, stage, place, message, rest, settled>>
  BY DEF Answered, MayAsk, streamVars
<1>2. cells \subseteq AllCells
  BY <1>1, RequestCells DEF Inv, Types, AllCells, Edges
<1>3. f \in Versions(AllCells) /\ DOMAIN f = cells /\ \A c \in cells : f[c] = latest[c]
  BY <1>2, Carries DEF Inv
<1> HIDE DEF f, cells
<1>4. /\ response' \in [Openings -> Versions(AllCells)] /\ response'[g] = f
      /\ \A h \in Openings : h # g => response'[h] = response[h]
  BY <1>1, <1>3 DEF Inv, Types
<1>5. /\ toWrite' \in [Openings -> SUBSET Places]
      /\ \A h \in Openings : h # g => toWrite'[h] = toWrite[h]
  <2>1. Takers(cells) \subseteq Places
    BY DEF Takers
  <2> QED
    BY <1>1, <2>1 DEF Inv, Types
<1>6. Types'
  <2>1. step' \in [Openings -> Nat \ {0}]
    BY <1>1 DEF Inv, Types
  <2> QED
    BY <1>1, <1>4, <1>5, <2>1, SameKind DEF Inv, Types, Versions
<1>7. OwnDataOnly'
  BY <1>1, SameKind DEF Inv, OwnDataOnly
<1>8. Stages'
  BY <1>1, <1>5, SameKind DEF Inv, Stages, Loaded, InOrder
<1>9. NoneNewer'
  <2>1. \A c \in DOMAIN f : f[c] <= latest[c]
    BY <1>2, <1>3 DEF Inv, Types
  <2>2. \A h \in Openings : \A c \in DOMAIN response'[h] : response'[h][c] <= latest[c]
    <3> SUFFICES ASSUME NEW h \in Openings
                 PROVE  \A c \in DOMAIN response'[h] : response'[h][c] <= latest[c]
      OBVIOUS
    <3>1. CASE h = g
      BY <1>4, <2>1, <3>1
    <3>2. CASE h # g
      BY <1>4, <3>2 DEF Inv, NoneNewer
    <3> QED
      BY <3>1, <3>2
  <2> QED
    BY <1>1, <2>2, SameKind DEF Inv, NoneNewer
<1>10. Forward
  BY <1>1 DEF Forward, Loaded
<1>11. SettledEnded'
  BY <1>1, <1>10, SettledStays DEF Inv
<1>12. NewerToCome'
  <2> SUFFICES ASSUME NEW h \in Openings, Alone(h)'
               PROVE  NewerLoad(h)' /\ \A k \in Streams' : NewerStream(h, k)'
    BY DEF NewerToCome
  <2>1. NewerLoad(h) /\ \A k \in Streams : NewerStream(h, k)
    <3>1. stage[h] # "none"
      BY <1>1 DEF Alone
    <3> QED
      BY <1>10, <3>1, AloneStays DEF Inv, NewerToCome
  <2>2. \A k \in Streams' : NewerStream(h, k)'
    BY <1>1, <2>1, SameKind DEF NewerStream
  <2>3. CASE h = g
    <3>1. \A i \in toWrite'[g], slot \in Slots : \A c \in DOMAIN f :
             Takes(i, slot, c) => value[i][slot].version <= f[c]
      BY <1>2, <1>3, <1>5, OlderThanNew
    <3> QED
      BY <1>1, <1>4, <2>2, <2>3, <3>1, SameKind DEF NewerLoad
  <2>4. CASE h # g
    <3>1. response'[h] = response[h] /\ toWrite'[h] = toWrite[h]
      BY <1>4, <1>5, <2>4
    <3> QED
      BY <1>1, <2>1, <2>2, <3>1, SameKind DEF NewerLoad
  <2> QED
    BY <2>3, <2>4
<1> QED
  BY <1>6, <1>7, <1>8, <1>9, <1>10, <1>11, <1>12 DEF Inv

LEMMA ReceivesKeeps ==
    ASSUME Inv, NEW g \in Openings, NEW k \in Streams,
           NEW cells \in SUBSET Subscriptions[k], Receives(g, k, cells)
    PROVE  Inv' /\ Forward
<1> DEFINE f == IF Takers(cells) = {} THEN None ELSE Restrict(latest, cells)
<1>1. /\ place[g][k] = "open" /\ rest[g][k] = {}
      /\ message' = [message EXCEPT ![g][k] = f]
      /\ rest' = [rest EXCEPT ![g][k] = Takers(cells)]
      /\ UNCHANGED <<kind, latest, value, stage, step, response, toWrite, place, settled>>
  BY DEF Receives, loadVars
<1>2. cells \subseteq AllCells
  BY SubscriptionCells DEF Inv, Types, AllCells
<1>3. /\ f \in Versions(AllCells) /\ DOMAIN f \subseteq cells
      /\ \A c \in DOMAIN f : f[c] = latest[c]
  <2>1. None \in Versions(AllCells) /\ DOMAIN None = {}
    BY NoVersions
  <2> QED
    BY <1>2, <2>1, Carries DEF Inv
<1> HIDE DEF f
<1>4. /\ message' \in [Openings -> [Streams -> Versions(AllCells)]] /\ message'[g][k] = f
      /\ \A h \in Openings, j \in Streams : h # g \/ j # k => message'[h][j] = message[h][j]
  BY <1>1, <1>3 DEF Inv, Types
<1>5. /\ rest' \in [Openings -> [Streams -> SUBSET Places]]
      /\ \A h \in Openings, j \in Streams : h # g \/ j # k => rest'[h][j] = rest[h][j]
  <2>1. Takers(cells) \subseteq Places
    BY DEF Takers
  <2> QED
    BY <1>1, <2>1 DEF Inv, Types
<1>6. Types'
  BY <1>1, <1>4, <1>5, SameKind DEF Inv, Types, Versions
<1>7. OwnDataOnly'
  BY <1>1, SameKind DEF Inv, OwnDataOnly
<1>8. Stages'
  <2>1. \A h \in Openings, j \in Streams : rest'[h][j] # {} => place[h][j] = "open"
    BY <1>1, <1>5 DEF Inv, Stages
  <2>2. \A h \in Openings, j \in Streams : DOMAIN message'[h][j] \subseteq Subscriptions[j]
    BY <1>3, <1>4 DEF Inv, Stages
  <2> QED
    BY <1>1, <2>1, <2>2, SameKind DEF Inv, Stages, Loaded, InOrder
<1>9. NoneNewer'
  <2>1. \A c \in DOMAIN f : f[c] <= latest[c]
    BY <1>2, <1>3 DEF Inv, Types
  <2>2. \A h \in Openings, j \in Streams :
           \A c \in DOMAIN message'[h][j] : message'[h][j][c] <= latest[c]
    <3> SUFFICES ASSUME NEW h \in Openings, NEW j \in Streams
                 PROVE  \A c \in DOMAIN message'[h][j] : message'[h][j][c] <= latest[c]
      OBVIOUS
    <3>1. CASE h = g /\ j = k
      BY <1>4, <2>1, <3>1
    <3>2. CASE ~(h = g /\ j = k)
      BY <1>4, <3>2 DEF Inv, NoneNewer
    <3> QED
      BY <3>1, <3>2
  <2> QED
    BY <1>1, <2>2, SameKind DEF Inv, NoneNewer
<1>10. Forward
  <2>1. ASSUME NEW h \in Openings, NEW j \in Streams, place[h][j] = "ended", rest[h][j] = {}
        PROVE  place'[h][j] = "ended" /\ rest'[h][j] = {}
    <3>1. h # g \/ j # k
      BY <1>1, <2>1
    <3> QED
      BY <1>1, <1>5, <2>1, <3>1
  <2> QED
    BY <1>1, <2>1 DEF Forward, Loaded
<1>11. SettledEnded'
  BY <1>1, <1>10, SettledStays DEF Inv
<1>12. NewerToCome'
  <2> SUFFICES ASSUME NEW h \in Openings, Alone(h)'
               PROVE  NewerLoad(h)' /\ \A j \in Streams' : NewerStream(h, j)'
    BY DEF NewerToCome
  <2>1. NewerLoad(h) /\ \A j \in Streams : NewerStream(h, j)
    <3>1. stage[h] # "none"
      BY <1>1 DEF Alone
    <3> QED
      BY <1>10, <3>1, AloneStays DEF Inv, NewerToCome
  <2>2. NewerLoad(h)'
    BY <1>1, <2>1, SameKind DEF NewerLoad
  <2>3. ASSUME NEW j \in Streams PROVE NewerStream(h, j)'
    <3>1. CASE h = g /\ j = k
      <4>1. \A i \in rest'[g][k], slot \in Slots : \A c \in DOMAIN f :
               Takes(i, slot, c) => value[i][slot].version <= f[c]
        BY <1>2, <1>3, <1>5, OlderThanNew
      <4> QED
        BY <1>1, <1>4, <3>1, <4>1, SameKind DEF NewerStream
    <3>2. CASE ~(h = g /\ j = k)
      <4>1. message'[h][j] = message[h][j] /\ rest'[h][j] = rest[h][j]
        BY <1>4, <1>5, <3>2
      <4> QED
        BY <1>1, <2>1, <4>1, SameKind DEF NewerStream
    <3> QED
      BY <3>1, <3>2
  <2> QED
    BY <1>1, <2>2, <2>3, SameKind
<1> QED
  BY <1>6, <1>7, <1>8, <1>9, <1>10, <1>11, <1>12 DEF Inv

-----------------------------------------------------------------------------
(* The writes.                                                             *)

EntryFor(c, f) == [cell |-> c, version |-> f[c], holds |-> Kept(c, f[c])]

\* A setter leaves a slot as it is or replaces it by the cell it is for.
LEMMA WrittenOf ==
    ASSUME Inv, NEW i \in Places, NEW slot \in Slots, NEW f \in Versions(AllCells)
    PROVE  \/ Written(i, f)[slot] = value[i][slot]
           \/ /\ CellOf(i, slot) \in DOMAIN f /\ Takes(i, slot, CellOf(i, slot))
              /\ Written(i, f)[slot] = EntryFor(CellOf(i, slot), f)
<1>1. CASE ~\E c \in DOMAIN f : Takes(i, slot, c)
  BY <1>1 DEF Written
<1>2. CASE \E c \in DOMAIN f : Takes(i, slot, c)
  <2> DEFINE d == CHOOSE e \in DOMAIN f : Takes(i, slot, e)
  <2>1. d \in DOMAIN f /\ Takes(i, slot, d)
    BY <1>2
  <2>2. Written(i, f)[slot] = EntryFor(d, f)
    BY <1>2 DEF Written, EntryFor
  <2> HIDE DEF d
  <2>3. d \in AllCells
    BY <2>1 DEF Versions
  <2>4. d = CellOf(i, slot)
    BY <2>1, <2>3, TakesOwn DEF Inv, Types, AllCells
  <2> QED
    BY <2>1, <2>2, <2>4
<1> QED
  BY <1>1, <1>2

\* What a write keeps, whoever makes it.
LEMMA WriteKeeps ==
    ASSUME Inv, NEW i \in Places, NEW f \in Versions(AllCells),
           \A c \in DOMAIN f : f[c] <= latest[c],
           value' = [value EXCEPT ![i] = Written(i, f)], UNCHANGED <<kind, latest>>
    PROVE  /\ value' \in [Places -> [Slots -> Entries]]
           /\ value'[i] = Written(i, f)
           /\ \A j \in Places : j # i => value'[j] = value[j]
           /\ OwnDataOnly'
           /\ \A j \in Places, slot \in Slots : value'[j][slot].version <= latest[CellOf(j, slot)]
<1>1. value'[i] = Written(i, f) /\ \A j \in Places : j # i => value'[j] = value[j]
  BY DEF Inv, Types
<1>2. ASSUME NEW slot \in Slots
      PROVE  /\ Written(i, f)[slot] \in Entries
             /\ Written(i, f)[slot].cell = CellOf(i, slot)
             /\ Written(i, f)[slot].version <= latest[CellOf(i, slot)]
  <2>1. CASE Written(i, f)[slot] = value[i][slot]
    BY <2>1 DEF Inv, Types, OwnDataOnly, NoneNewer
  <2>2. CASE /\ CellOf(i, slot) \in DOMAIN f
             /\ Written(i, f)[slot] = EntryFor(CellOf(i, slot), f)
    <3>1. CellOf(i, slot) \in AllCells /\ f[CellOf(i, slot)] \in Nat
      BY <2>2 DEF Versions
    <3>2. EntryFor(CellOf(i, slot), f) \in Entries
      BY <3>1, EntryOf DEF EntryFor
    <3> QED
      BY <2>2, <3>2 DEF EntryFor
  <2> QED
    BY <2>1, <2>2, WrittenOf
<1>3. Written(i, f) \in [Slots -> Entries]
  <2>1. \A slot \in Slots : Written(i, f)[slot] \in Entries
    BY <1>2
  <2> QED
    BY <2>1 DEF Written
<1>4. value' \in [Places -> [Slots -> Entries]]
  BY <1>3 DEF Inv, Types
<1>5. \A j \in Places, slot \in Slots :
         /\ value'[j][slot].cell = CellOf(j, slot)
         /\ value'[j][slot].version <= latest[CellOf(j, slot)]
  <2> SUFFICES ASSUME NEW j \in Places, NEW slot \in Slots
               PROVE  /\ value'[j][slot].cell = CellOf(j, slot)
                      /\ value'[j][slot].version <= latest[CellOf(j, slot)]
    OBVIOUS
  <2>1. CASE j = i
    BY <1>1, <1>2, <2>1
  <2>2. CASE j # i
    BY <1>1, <2>2 DEF Inv, OwnDataOnly, NoneNewer
  <2> QED
    BY <2>1, <2>2
<1>6. OwnDataOnly'
  BY <1>5, SameKind DEF OwnDataOnly
<1> QED
  BY <1>1, <1>4, <1>5, <1>6

\* An opening that writes is none that another one has outlived.
LEMMA WriterAlone ==
    ASSUME Inv, NEW g \in Openings, stage[g] # "none", ~Finished(g),
           NEW h \in Openings, Alone(h)
    PROVE  h = g
BY DEF Inv, SettledEnded, Alone

LEMMA LoaderWritesKeeps ==
    ASSUME Inv, NEW g \in Openings, NEW i \in Places, LoaderWrites(g, i)
    PROVE  Inv' /\ Forward
<1>1. /\ toWrite[g] # {} /\ value' = [value EXCEPT ![i] = Written(i, response[g])]
      /\ toWrite' = [toWrite EXCEPT ![g] = @ \ {i}]
      /\ response' = [response EXCEPT ![g] = IF toWrite[g] = {i} THEN None ELSE @]
      /\ UNCHANGED <<kind, latest, stage, step, place, message, rest, settled>>
  BY DEF LoaderWrites, streamVars
<1>2. /\ stage[g] = "load" /\ ~Loaded(g)
      /\ \A k \in Streams : rest[g][k] = {}
  BY <1>1 DEF Inv, Stages, Loaded
<1>3. /\ value' \in [Places -> [Slots -> Entries]]
      /\ \A j \in Places : j # i => value'[j] = value[j]
      /\ OwnDataOnly'
      /\ \A j \in Places, slot \in Slots : value'[j][slot].version <= latest[CellOf(j, slot)]
  <2>1. response[g] \in Versions(AllCells) /\ \A c \in DOMAIN response[g] : response[g][c] <= latest[c]
    BY DEF Inv, Types, NoneNewer
  <2> QED
    BY <1>1, <2>1, WriteKeeps
<1>4. /\ toWrite' \in [Openings -> SUBSET Places] /\ toWrite'[g] = toWrite[g] \ {i}
      /\ \A h \in Openings : h # g => toWrite'[h] = toWrite[h]
  BY <1>1 DEF Inv, Types
<1>5. /\ response' \in [Openings -> Versions(AllCells)]
      /\ response'[g] = None \/ response'[g] = response[g]
      /\ toWrite'[g] # {} => response'[g] = response[g]
      /\ \A h \in Openings : h # g => response'[h] = response[h]
  <2>1. None \in Versions(AllCells)
    BY NoVersions
  <2> QED
    BY <1>1, <1>4, <2>1 DEF Inv, Types
<1>6. Types'
  BY <1>1, <1>3, <1>4, <1>5, SameKind DEF Inv, Types, Versions
<1>7. Stages'
  BY <1>1, <1>2, <1>4, SameKind DEF Inv, Stages, Loaded, InOrder
<1>8. NoneNewer'
  <2>1. ASSUME NEW h \in Openings
        PROVE  \A c \in DOMAIN response'[h] : response'[h][c] <= latest[c]
    <3>1. DOMAIN None = {}
      BY DEF None
    <3> QED
      BY <1>5, <3>1 DEF Inv, NoneNewer
  <2> QED
    BY <1>1, <1>3, <2>1, SameKind DEF Inv, NoneNewer
<1>9. Forward
  BY <1>1 DEF Forward, Loaded
<1>10. SettledEnded'
  BY <1>1, <1>9, SettledStays DEF Inv
<1>11. NewerToCome'
  <2> SUFFICES ASSUME NEW h \in Openings, Alone(h)'
               PROVE  NewerLoad(h)' /\ \A k \in Streams' : NewerStream(h, k)'
    BY DEF NewerToCome
  <2>1. h = g /\ NewerLoad(g)
    <3>1. ~Finished(g)
      BY <1>2 DEF Finished, Quiet
    <3>2. Alone(h)
      <4>1. stage[h] # "none"
        BY <1>1 DEF Alone
      <4> QED
        BY <1>9, <4>1, AloneStays
    <3>3. h = g
      BY <1>2, <3>1, <3>2, WriterAlone
    <3> QED
      BY <3>2, <3>3 DEF Inv, NewerToCome
  <2>2. \A k \in Streams' : NewerStream(h, k)'
    BY <1>1, <1>2, <2>1, SameKind DEF NewerStream
  <2>3. \A j \in toWrite'[g] : j # i /\ j \in toWrite[g] /\ j \in Places
    BY <1>4 DEF Inv, Types
  <2>4. ASSUME NEW j \in toWrite'[g], NEW slot \in Slots, NEW c \in DOMAIN response'[g],
               Takes(j, slot, c)
        PROVE  value'[j][slot].version <= response'[g][c]
    <3>1. response'[g] = response[g] /\ value'[j] = value[j]
      BY <1>3, <1>5, <2>3
    <3> QED
      BY <2>1, <2>3, <2>4, <3>1 DEF NewerLoad
  <2> QED
    BY <1>1, <2>1, <2>2, <2>4, SameKind DEF NewerLoad
<1> QED
  BY <1>3, <1>6, <1>7, <1>8, <1>9, <1>10, <1>11 DEF Inv

LEMMA StreamWritesKeeps ==
    ASSUME Inv, NEW g \in Openings, NEW k \in Streams, NEW i \in Places, StreamWrites(g, k, i)
    PROVE  Inv' /\ Forward
<1>1. /\ rest[g][k] # {} /\ value' = [value EXCEPT ![i] = Written(i, message[g][k])]
      /\ rest' = [rest EXCEPT ![g][k] = @ \ {i}]
      /\ message' = [message EXCEPT ![g][k] = IF rest[g][k] = {i} THEN None ELSE @]
      /\ UNCHANGED <<kind, latest, stage, step, response, toWrite, place, settled>>
  BY DEF StreamWrites, loadVars
<1>2. place[g][k] = "open" /\ Loaded(g) /\ stage[g] # "none" /\ toWrite[g] = {}
  BY <1>1 DEF Inv, Stages, Loaded
<1>3. /\ value' \in [Places -> [Slots -> Entries]]
      /\ value'[i] = Written(i, message[g][k])
      /\ \A j \in Places : j # i => value'[j] = value[j]
      /\ OwnDataOnly'
      /\ \A j \in Places, slot \in Slots : value'[j][slot].version <= latest[CellOf(j, slot)]
  <2>1. /\ message[g][k] \in Versions(AllCells)
        /\ \A c \in DOMAIN message[g][k] : message[g][k][c] <= latest[c]
    BY DEF Inv, Types, NoneNewer
  <2> QED
    BY <1>1, <2>1, WriteKeeps
<1>4. /\ rest' \in [Openings -> [Streams -> SUBSET Places]] /\ rest'[g][k] = rest[g][k] \ {i}
      /\ \A h \in Openings, j \in Streams : h # g \/ j # k => rest'[h][j] = rest[h][j]
  BY <1>1 DEF Inv, Types
<1>5. /\ message' \in [Openings -> [Streams -> Versions(AllCells)]]
      /\ message'[g][k] = None \/ message'[g][k] = message[g][k]
      /\ rest'[g][k] # {} => message'[g][k] = message[g][k]
      /\ \A h \in Openings, j \in Streams : h # g \/ j # k => message'[h][j] = message[h][j]
  <2>1. None \in Versions(AllCells)
    BY NoVersions
  <2> QED
    BY <1>1, <1>4, <2>1 DEF Inv, Types
<1>6. DOMAIN None = {}
  BY DEF None
<1>7. Types'
  BY <1>1, <1>3, <1>4, <1>5, SameKind DEF Inv, Types, Versions
<1>8. Stages'
  <2>1. \A h \in Openings, j \in Streams : rest'[h][j] # {} => place[h][j] = "open"
    BY <1>2, <1>4 DEF Inv, Stages
  <2>2. \A h \in Openings, j \in Streams : DOMAIN message'[h][j] \subseteq Subscriptions[j]
    BY <1>5, <1>6 DEF Inv, Stages
  <2> QED
    BY <1>1, <2>1, <2>2, SameKind DEF Inv, Stages, Loaded, InOrder
<1>9. NoneNewer'
  <2>1. ASSUME NEW h \in Openings, NEW j \in Streams
        PROVE  \A c \in DOMAIN message'[h][j] : message'[h][j][c] <= latest[c]
    BY <1>5, <1>6 DEF Inv, NoneNewer
  <2> QED
    BY <1>1, <1>3, <2>1, SameKind DEF Inv, NoneNewer
<1>10. Forward
  <2>1. ASSUME NEW h \in Openings, NEW j \in Streams, place[h][j] = "ended", rest[h][j] = {}
        PROVE  place'[h][j] = "ended" /\ rest'[h][j] = {}
    <3>1. h # g \/ j # k
      BY <1>1, <2>1
    <3> QED
      BY <1>1, <1>4, <2>1, <3>1
  <2> QED
    BY <1>1, <2>1 DEF Forward, Loaded
<1>11. SettledEnded'
  BY <1>1, <1>10, SettledStays DEF Inv
<1>12. NewerToCome'
  <2> SUFFICES ASSUME NEW h \in Openings, Alone(h)'
               PROVE  NewerLoad(h)' /\ \A j \in Streams' : NewerStream(h, j)'
    BY DEF NewerToCome
  <2>1. h = g /\ \A j \in Streams : NewerStream(g, j)
    <3>1. ~Finished(g)
      BY <1>1 DEF Finished, Quiet
    <3>2. Alone(h)
      <4>1. stage[h] # "none"
        BY <1>1 DEF Alone
      <4> QED
        BY <1>10, <4>1, AloneStays
    <3>3. h = g
      BY <1>2, <3>1, <3>2, WriterAlone
    <3> QED
      BY <3>2, <3>3 DEF Inv, NewerToCome
  <2>2. NewerLoad(h)'
    BY <1>1, <1>2, <2>1 DEF NewerLoad
  <2>3. ASSUME NEW j \in Streams, NEW l \in rest'[g][j], NEW slot \in Slots,
               NEW c \in DOMAIN message'[g][j], Takes(l, slot, c)
        PROVE  value'[l][slot].version <= message'[g][j][c]
    <3>1. /\ l \in rest[g][j] /\ l \in Places
          /\ message'[g][j] = message[g][j] /\ c \in DOMAIN message[g][j]
      BY <1>4, <1>5, <2>3 DEF Inv, Types
    <3>2. value[l][slot].version <= message[g][j][c]
      BY <2>1, <2>3, <3>1 DEF NewerStream
    <3>3. CASE l # i
      BY <1>3, <3>1, <3>2, <3>3
    <3>4. CASE l = i
      <4>1. j # k
        BY <1>4, <3>4
      <4>2. c \in Subscriptions[j] /\ c \in AllCells
        BY <3>1, SubscriptionCells DEF Inv, Types, Stages, AllCells
      <4>3. c = CellOf(i, slot)
        BY <2>3, <3>4, <4>2, TakesOwn DEF Inv, Types, AllCells
      <4>4. c \notin DOMAIN message[g][k]
        BY <4>1, <4>2, SubscriptionCells DEF Inv, Types, Stages
      <4>5. Written(i, message[g][k])[slot] = value[i][slot]
        <5>1. message[g][k] \in Versions(AllCells)
          BY DEF Inv, Types
        <5> QED
          BY <4>3, <4>4, <5>1, WrittenOf
      <4> QED
        BY <1>3, <3>1, <3>2, <3>4, <4>5
    <3> QED
      BY <3>3, <3>4
  <2> QED
    BY <1>1, <2>1, <2>2, <2>3, SameKind DEF NewerStream
<1> QED
  BY <1>3, <1>7, <1>8, <1>9, <1>10, <1>11, <1>12 DEF Inv

LEMMA InvKept ==
    ASSUME Inv, [Next]_vars
    PROVE  Inv' /\ Forward
<1>1. CASE UNCHANGED vars
  <2>1. UNCHANGED <<kind, latest, value, stage, step, response, toWrite, place, message, rest, settled>>
    BY <1>1 DEF vars, loadVars, streamVars
  <2>2. Types'
    BY <2>1, SameKind DEF Inv, Types, Versions
  <2>3. Stages'
    BY <2>1, SameKind DEF Inv, Stages, Loaded, InOrder
  <2>4. Forward
    BY <2>1 DEF Forward, Loaded
  <2>5. \A c \in AllCells : latest[c] <= latest'[c]
    BY <2>1 DEF Inv, Types
  <2>6. \A g \in Openings : \A h \in settled'[g][0] \ settled[g][0] : h \in Openings /\ Finished(h)
    BY <2>1
  <2> QED
    BY <2>1, <2>2, <2>3, <2>4, <2>5, <2>6, NothingWritten
<1>2. CASE \E c \in DOMAIN latest : Changes(c)
  BY <1>2, ChangesKeeps
<1>3. ASSUME NEW g \in Openings, Opening(g) PROVE Inv' /\ Forward
  BY <1>3, OpensKeeps, AnsweredKeeps, LoadOverKeeps, LoaderWritesKeeps DEF Opening
<1>4. ASSUME NEW g \in Openings, NEW k \in Streams, Stream(g, k) PROVE Inv' /\ Forward
  BY <1>4, StreamTurnsKeeps, ReceivesKeeps, StreamWritesKeeps DEF Stream
<1> QED
  BY <1>1, <1>2, <1>3, <1>4 DEF Next

-----------------------------------------------------------------------------
(* The theorems.                                                           *)

\* The invariant of the loads, the streams and the stores holds in every
\* reachable state.
THEOREM ValuesInvariant == Spec => []Inv
BY InitInv, InvKept, PTL DEF Spec

\* Whatever market, agent and asset lists there are, and however the loads
\* and streams of several openings interleave, no setter ever leaves another
\* party's or another market's data in a store.
THEOREM OwnDataKept == Spec => []OwnDataOnly
<1>1. Inv => OwnDataOnly
  BY DEF Inv
<1> QED
  BY <1>1, ValuesInvariant, PTL

\* No step takes a store back while an opening is alone.
LEMMA ForwardWrites ==
    ASSUME Inv, [Next]_vars, NEW g \in Openings, Alone(g), NEW i \in Places, NEW slot \in Slots
    PROVE  value[i][slot].version <= value'[i][slot].version
<1>1. value[i][slot].version \in Nat
  BY OfEntry DEF Inv, Types
<1>2. CASE value' = value
  BY <1>1, <1>2
<1>3. ASSUME NEW p \in Places, NEW f \in Versions(AllCells), value' = [value EXCEPT ![p] = Written(p, f)],
             \A c \in DOMAIN f : Takes(p, slot, c) => value[p][slot].version <= f[c]
      PROVE  value[i][slot].version <= value'[i][slot].version
  <2>1. value'[i] = IF i = p THEN Written(p, f) ELSE value[i]
    BY <1>3 DEF Inv, Types
  <2>2. CASE i = p /\ Written(i, f)[slot] # value[i][slot]
    <3>1. /\ CellOf(i, slot) \in DOMAIN f /\ Takes(i, slot, CellOf(i, slot))
          /\ Written(i, f)[slot] = EntryFor(CellOf(i, slot), f)
      BY <1>3, <2>2, WrittenOf
    <3> QED
      BY <1>3, <2>1, <2>2, <3>1 DEF EntryFor
  <2> QED
    BY <1>1, <2>1, <2>2
<1>4. ASSUME NEW h \in Openings, NEW p \in Places, LoaderWrites(h, p)
      PROVE  value[i][slot].version <= value'[i][slot].version
  <2>1. /\ toWrite[h] # {} /\ p = Min(toWrite[h])
        /\ value' = [value EXCEPT ![p] = Written(p, response[h])]
    BY <1>4 DEF LoaderWrites
  <2>2. toWrite[h] \subseteq Places /\ response[h] \in Versions(AllCells)
    BY DEF Inv, Types
  <2>3. p \in toWrite[h]
    BY <2>1, <2>2, MinOf
  <2>4. stage[h] = "load" /\ ~Finished(h)
    BY <2>1 DEF Inv, Stages, Finished, Quiet, Loaded
  <2>5. g = h
    BY <2>4, WriterAlone
  <2> QED
    BY <1>3, <2>1, <2>2, <2>3, <2>5 DEF Inv, NewerToCome, NewerLoad
<1>5. ASSUME NEW h \in Openings, NEW k \in Streams, NEW p \in Places, StreamWrites(h, k, p)
      PROVE  value[i][slot].version <= value'[i][slot].version
  <2>1. /\ rest[h][k] # {} /\ p = Min(rest[h][k])
        /\ value' = [value EXCEPT ![p] = Written(p, message[h][k])]
    BY <1>5 DEF StreamWrites
  <2>2. rest[h][k] \subseteq Places /\ message[h][k] \in Versions(AllCells)
    BY DEF Inv, Types
  <2>3. p \in rest[h][k]
    BY <2>1, <2>2, MinOf
  <2>4. stage[h] # "none" /\ ~Finished(h)
    BY <2>1 DEF Inv, Stages, Finished, Quiet, Loaded
  <2>5. g = h
    BY <2>4, WriterAlone
  <2> QED
    BY <1>3, <2>1, <2>2, <2>3, <2>5 DEF Inv, NewerToCome, NewerStream
<1>6. ASSUME NEW h \in Openings, Opening(h)
      PROVE  value[i][slot].version <= value'[i][slot].version
  BY <1>2, <1>4, <1>6 DEF Opening, Opens, Answered, LoadFails, LoadEnds
<1>7. ASSUME NEW h \in Openings, NEW k \in Streams, Stream(h, k)
      PROVE  value[i][slot].version <= value'[i][slot].version
  BY <1>2, <1>5, <1>7 DEF Stream, Subscribes, SubscribeFails, Ends, Receives
<1>8. ASSUME NEW c \in DOMAIN latest, Changes(c)
      PROVE  value[i][slot].version <= value'[i][slot].version
  BY <1>2, <1>8 DEF Changes
<1> QED
  BY <1>2, <1>6, <1>7, <1>8 DEF Next, vars

\* Who writes is at work.
LEMMA WriterAtWork ==
    ASSUME Inv, [Next]_vars, value' # value
    PROVE  \E g \in Openings : stage[g] # "none" /\ ~Finished(g)
<1>1. ASSUME NEW g \in Openings, NEW p \in Places, LoaderWrites(g, p)
      PROVE  stage[g] # "none" /\ ~Finished(g)
  BY <1>1 DEF LoaderWrites, Inv, Stages, Finished, Quiet, Loaded
<1>2. ASSUME NEW g \in Openings, NEW k \in Streams, NEW p \in Places, StreamWrites(g, k, p)
      PROVE  stage[g] # "none" /\ ~Finished(g)
  BY <1>2 DEF StreamWrites, Inv, Stages, Finished, Quiet, Loaded
<1>3. \/ \E g \in Openings : \E p \in Places : LoaderWrites(g, p)
      \/ \E g \in Openings, k \in Streams : \E p \in Places : StreamWrites(g, k, p)
  BY DEF Next, Opening, Stream, Changes, Opens, Answered, LoadFails, LoadEnds, Subscribes,
         SubscribeFails, Ends, Receives, vars
<1> QED
  BY <1>1, <1>2, <1>3

\* A store goes back to an older value only where two runs of StreamVegaData
\* overlap: one run alone writes its loads before its streams, no two of its
\* streams write the same value, and each is in order.
THEOREM BackByOverlapOnly == Spec => BackOnlyByOverlap
<1> DEFINE Forth ==
        \A i \in Places, slot \in Slots :
           value'[i][slot].version < value[i][slot].version =>
              \E g, h \in Openings : Overlap(g, h)
<1>1. ASSUME Inv, [Next]_vars PROVE [Forth]_vars
  <2> SUFFICES ASSUME ~\E g, h \in Openings : Overlap(g, h), NEW i \in Places, NEW slot \in Slots,
                      value'[i][slot].version < value[i][slot].version
               PROVE  FALSE
    OBVIOUS
  <2>1. Inv'
    BY <1>1, InvKept
  <2>2. kind' = kind
    <3>1. ASSUME NEW c \in DOMAIN latest, Changes(c) PROVE kind' = kind
      BY <3>1 DEF Changes
    <3>2. ASSUME NEW g \in Openings, Opening(g) PROVE kind' = kind
      BY <3>2 DEF Opening, Opens, Answered, LoadFails, LoadEnds, LoaderWrites
    <3>3. ASSUME NEW g \in Openings, NEW k \in Streams, Stream(g, k) PROVE kind' = kind
      BY <3>3 DEF Stream, Subscribes, SubscribeFails, Ends, Receives, StreamWrites
    <3>4. CASE UNCHANGED vars
      BY <3>4 DEF vars
    <3> QED
      BY <1>1, <3>1, <3>2, <3>3, <3>4 DEF Next
  <2>3. value[i][slot].version \in Nat /\ value'[i][slot].version \in Nat
    <3>1. value[i][slot] \in Entries /\ value'[i][slot] \in Entries
      BY <1>1, <2>1, <2>2, SameKind DEF Inv, Types
    <3> QED
      BY <3>1, OfEntry
  <2>4. PICK g \in Openings : stage[g] # "none" /\ ~Finished(g)
    BY <1>1, <2>3, WriterAtWork
  <2>5. Alone(g)
    BY <1>1, <2>4 DEF Overlap, Alone, Inv, SettledEnded
  <2> QED
    BY <1>1, <2>3, <2>5, ForwardWrites
<1>2. Spec => [][Forth]_vars
  <2> HIDE DEF Forth
  <2> QED
    BY <1>1, ValuesInvariant, PTL DEF Spec
<1> QED
  BY <1>2 DEF BackOnlyByOverlap
-----------------------------------------------------------------------------
(* What the loads and the streams have brought.                            *)

\* Versions the network has had.
Known(f) == \A c \in DOMAIN f : f[c] \in 1 .. latest[c]

\* The requests of a load, one after the other.
Asked ==
    /\ \A c \in AllCells : latest[c] \in 1 .. MaxChanges + 1
    /\ \A g \in Openings :
          /\ step[g] <= Len(Requests) + 1
          /\ stage[g] = "none" => step[g] = 1
          /\ Known(response[g])

Begun ==
    /\ begun \in [Openings -> Versions(AllCells)]
    /\ \A g \in Openings :
          /\ Known(begun[g])
          /\ stage[g] # "none" => DOMAIN begun[g] = AllCells

\* A stream that is not subscribed has heard nothing, and it writes what it
\* has heard.
Heard ==
    /\ seen \in [Openings -> [Streams -> Versions(AllCells)]]
    /\ \A g \in Openings, k \in Streams :
          /\ DOMAIN seen[g][k] \subseteq Subscriptions[k] /\ Known(seen[g][k])
          /\ place[g][k] = "closed" => DOMAIN seen[g][k] = {}
          /\ \A c \in DOMAIN message[g][k] :
                c \in DOMAIN seen[g][k] /\ message[g][k][c] = seen[g][k][c]

\* What could not write when a stream was subscribed cannot now.
SettledQuiet ==
    \A g \in Openings, k \in Streams : \A h \in settled[g][k] : Quiet(h, k)

\* What a load has still to write into a store, or still to ask for.
Arriving(g, i, c) ==
    \/ /\ i \in toWrite[g]
       /\ c \in DOMAIN response[g] /\ response[g][c] >= begun[g][c]
    \/ \E n \in step[g] .. Len(Requests) : c \in Requests[n]

\* What the network had when a lone load began is in the stores, or will be,
\* or was not listed at some time since.
Loads ==
    \A g \in Openings : Alone(g) /\ stage[g] \in {"load", "live"} =>
        \A i \in Places, slot \in Slots :
            \/ value[i][slot].version >= begun[g][CellOf(i, slot)]
            \/ stage[g] = "load" /\ Arriving(g, i, CellOf(i, slot))
            \/ UnlistedSince(CellOf(i, slot), begun[g][CellOf(i, slot)])

\* A stream has heard the newest version, and store i is past it.
Brought(g, k, i, c) ==
    /\ c \in DOMAIN seen[g][k] /\ seen[g][k][c] = latest[c]
    /\ ~(i \in rest[g][k] /\ c \in DOMAIN message[g][k])

\* ValuesExact, store by store.
Exact ==
    \A g \in Openings, k \in Streams, i \in Places, slot \in Slots :
        /\ Brought(g, k, i, CellOf(i, slot))
        /\ \A h \in Openings \ {g} :
              \/ stage[h] = "none" \/ h \in settled[g][k]
              \/ Brought(h, k, i, CellOf(i, slot))
        => value[i][slot].version = latest[CellOf(i, slot)]

Arrivals == Asked /\ Begun /\ Heard /\ SettledQuiet /\ Loads /\ Exact

LEMMA InitArrivals ==
    ASSUME Init
    PROVE  Arrivals
<1>1. Inv
  BY InitInv
<1>2. None \in Versions(AllCells) /\ DOMAIN None = {}
  BY NoVersions
<1>3. 0 \notin Streams /\ kind \in Kinds
  BY SubscriptionCells DEF Init
<1>4. Asked
  <2>1. Len(Requests) \in Nat
    BY <1>3, RequestCells
  <2>2. \A g \in Openings : step[g] = 1 /\ Known(response[g])
    BY <1>2 DEF Init, Known
  <2>3. \A c \in AllCells : latest[c] \in 1 .. MaxChanges + 1
    BY ValuesAssumption DEF Init, AllCells
  <2> QED
    BY <2>1, <2>2, <2>3 DEF Asked
<1>5. Begun
  BY <1>2 DEF Init, Begun, Known
<1>6. Heard
  <2>1. seen \in [Openings -> [Streams -> Versions(AllCells)]]
    BY <1>2 DEF Init
  <2>2. \A g \in Openings, k \in Streams : seen[g][k] = None /\ message[g][k] = None
    BY DEF Init
  <2> QED
    BY <1>2, <2>1, <2>2 DEF Heard, Known
<1>7. SettledQuiet
  BY DEF Init, SettledQuiet
<1>8. Loads
  BY DEF Init, Loads, Alone
<1>9. Exact
  <2>1. \A g \in Openings, k \in Streams : seen[g][k] = None
    BY DEF Init
  <2> QED
    BY <1>2, <2>1 DEF Exact, Brought
<1> QED
  BY <1>4, <1>5, <1>6, <1>7, <1>8, <1>9 DEF Arrivals

LEMMA LatestGrows ==
    ASSUME Inv, [Next]_vars
    PROVE  /\ kind' = kind /\ latest' \in [AllCells -> Nat]
           /\ \A c \in AllCells : latest[c] <= latest'[c]
           /\ \/ latest' = latest
              \/ \E c \in AllCells : /\ NumChanges < MaxChanges
                                     /\ latest' = [latest EXCEPT ![c] = @ + 1]
<1>1. Inv' /\ Forward
  BY InvKept
<1>2. kind' = kind /\ latest' \in [AllCells -> Nat]
  BY <1>1, SameKind DEF Forward, Inv, Types
<1>3. CASE latest' = latest
  BY <1>2, <1>3
<1>4. ASSUME NEW c \in DOMAIN latest, Changes(c)
      PROVE  /\ \A d \in AllCells : latest[d] <= latest'[d]
             /\ \E d \in AllCells : /\ NumChanges < MaxChanges
                                    /\ latest' = [latest EXCEPT ![d] = @ + 1]
  <2>1. /\ NumChanges < MaxChanges /\ latest' = [latest EXCEPT ![c] = @ + 1]
        /\ c \in AllCells /\ latest \in [AllCells -> Nat]
    BY <1>4 DEF Changes, Inv, Types
  <2>2. \A d \in AllCells : latest[d] <= latest'[d]
    BY <2>1
  <2> QED
    BY <2>1, <2>2
<1>5. ASSUME NEW g \in Openings, Opening(g) PROVE latest' = latest
  BY <1>5 DEF Opening, Opens, Answered, LoadFails, LoadEnds, LoaderWrites
<1>6. ASSUME NEW g \in Openings, NEW k \in Streams, Stream(g, k) PROVE latest' = latest
  BY <1>6 DEF Stream, Subscribes, SubscribeFails, Ends, Receives, StreamWrites
<1>7. latest' = latest \/ \E c \in DOMAIN latest : Changes(c)
  BY <1>5, <1>6 DEF Next, vars
<1> QED
  BY <1>2, <1>3, <1>4, <1>7

LEMMA KnownStays ==
    ASSUME Inv, [Next]_vars, NEW f \in Versions(AllCells),
           \A c \in DOMAIN f : f[c] \in 1 .. latest[c]
    PROVE  \A c \in DOMAIN f : f[c] \in 1 .. latest'[c]
<1>1. \A c \in DOMAIN f : c \in AllCells /\ f[c] \in Nat
  BY DEF Versions
<1>2. \A c \in AllCells : latest[c] \in Nat /\ latest'[c] \in Nat /\ latest[c] <= latest'[c]
  BY LatestGrows DEF Inv, Types
<1> QED
  BY <1>1, <1>2

\* What a step does to the load of one opening.
LEMMA LoadSteps ==
    ASSUME Inv, Begun, [Next]_vars, NEW h \in Openings
    PROVE  \/ /\ stage'[h] = stage[h] /\ step'[h] = step[h] /\ response'[h] = response[h]
              /\ toWrite'[h] = toWrite[h] /\ begun'[h] = begun[h]
           \/ Opens(h) \/ Answered(h) \/ LoadFails(h) \/ LoadEnds(h)
           \/ \E i \in Places : LoaderWrites(h, i)
<1>1. CASE UNCHANGED <<stage, step, response, toWrite, begun>>
  BY <1>1
<1>2. ASSUME NEW g \in Openings, g # h, Opening(g)
      PROVE  /\ stage'[h] = stage[h] /\ step'[h] = step[h] /\ response'[h] = response[h]
             /\ toWrite'[h] = toWrite[h] /\ begun'[h] = begun[h]
  <2>1. CASE Opens(g)
    BY <1>2, <2>1 DEF Opens, Inv, Types, Begun
  <2>2. CASE Answered(g)
    BY <1>2, <2>2 DEF Answered, Inv, Types, Begun
  <2>3. CASE LoadFails(g) \/ LoadEnds(g)
    BY <1>2, <2>3 DEF LoadFails, LoadEnds, Inv, Types, Begun
  <2>4. ASSUME NEW i \in Places, LoaderWrites(g, i)
        PROVE  /\ stage'[h] = stage[h] /\ step'[h] = step[h] /\ response'[h] = response[h]
               /\ toWrite'[h] = toWrite[h] /\ begun'[h] = begun[h]
    BY <1>2, <2>4 DEF LoaderWrites, Inv, Types, Begun
  <2> QED
    BY <1>2, <2>1, <2>2, <2>3, <2>4 DEF Opening
<1>3. ASSUME NEW g \in Openings, NEW k \in Streams, Stream(g, k)
      PROVE  UNCHANGED <<stage, step, response, toWrite, begun>>
  BY <1>3 DEF Stream, Subscribes, SubscribeFails, Ends, Receives, StreamWrites, loadVars
<1>4. CASE UNCHANGED vars \/ \E c \in DOMAIN latest : Changes(c)
  BY <1>1, <1>4 DEF Changes, vars, loadVars
<1>5. CASE Opening(h)
  BY <1>5 DEF Opening
<1> QED
  BY <1>1, <1>2, <1>3, <1>4, <1>5 DEF Next

\* What a step does to one stream.
LEMMA StreamSteps ==
    ASSUME Inv, Heard, [Next]_vars, NEW h \in Openings, NEW k \in Streams
    PROVE  \/ /\ seen'[h][k] = seen[h][k] /\ message'[h][k] = message[h][k]
              /\ rest'[h][k] = rest[h][k]
              /\ Subscribes(h, k) \/ settled'[h][k] = settled[h][k]
              /\ place[h][k] # "closed" => place'[h][k] # "closed"
           \/ /\ \/ \E cells \in SUBSET Subscriptions[k] : Receives(h, k, cells)
                 \/ \E i \in Places : StreamWrites(h, k, i)
              /\ settled' = settled /\ place' = place
<1> DEFINE Same == /\ seen'[h][k] = seen[h][k] /\ message'[h][k] = message[h][k]
                   /\ rest'[h][k] = rest[h][k]
                   /\ Subscribes(h, k) \/ settled'[h][k] = settled[h][k]
                   /\ place[h][k] # "closed" => place'[h][k] # "closed"
<1>1. ASSUME UNCHANGED vars \/ \E c \in DOMAIN latest : Changes(c)
      PROVE  Same
  BY <1>1 DEF Changes, vars, streamVars
<1>2. ASSUME NEW g \in Openings, NEW j \in Streams, Subscribes(g, j)
      PROVE  Same
  BY <1>2 DEF Subscribes, Inv, Types
<1>3. ASSUME NEW g \in Openings, NEW j \in Streams, SubscribeFails(g, j)
      PROVE  Same
  <2>1. UNCHANGED <<seen, message, rest, settled>>
    BY <1>3 DEF SubscribeFails
  <2>2. place' = [place EXCEPT ![g] = [l \in Streams |-> IF l < j THEN place[g][l] ELSE "ended"]]
    BY <1>3 DEF SubscribeFails, Inv, Types
  <2>3. place[h][k] # "closed" => place'[h][k] # "closed"
    BY <2>2 DEF Inv, Types
  <2> QED
    BY <2>1, <2>3
<1>4. ASSUME NEW g \in Openings, NEW j \in Streams, Ends(g, j)
      PROVE  Same
  BY <1>4 DEF Ends, Inv, Types
<1>5. ASSUME NEW g \in Openings, NEW j \in Streams, NEW cells \in SUBSET Subscriptions[j],
             Receives(g, j, cells), g # h \/ j # k
      PROVE  Same
  BY <1>5 DEF Receives, Inv, Types, Heard
<1>6. ASSUME NEW g \in Openings, NEW j \in Streams, NEW i \in Places,
             StreamWrites(g, j, i), g # h \/ j # k
      PROVE  Same
  BY <1>6 DEF StreamWrites, Inv, Types, Heard
<1>7. ASSUME NEW g \in Openings, Opening(g)
      PROVE  Same
  <2>1. UNCHANGED <<place, seen, message, rest>>
    BY <1>7 DEF Opening, Opens, Answered, LoadFails, LoadEnds, LoaderWrites, streamVars
  <2>2. settled'[h][k] = settled[h][k]
    <3>1. CASE settled' = settled
      BY <3>1
    <3>2. CASE settled' = [settled EXCEPT ![g][0] = {l \in Openings : Finished(l)}]
      <4>1. k # 0
        BY SubscriptionCells DEF Inv, Types
      <4> QED
        BY <3>2, <4>1 DEF Inv, Types
    <3> QED
      BY <1>7, <3>1, <3>2 DEF Opening, Opens, Answered, LoadFails, LoadEnds, LoaderWrites
  <2> QED
    BY <2>1, <2>2
<1>8. ASSUME NEW cells \in SUBSET Subscriptions[k], Receives(h, k, cells)
      PROVE  settled' = settled /\ place' = place
  BY <1>8 DEF Receives
<1>9. ASSUME NEW i \in Places, StreamWrites(h, k, i)
       PROVE  settled' = settled /\ place' = place
  BY <1>9 DEF StreamWrites
<1> HIDE DEF Same
<1>10. Same \/ \E cells \in SUBSET Subscriptions[k] : Receives(h, k, cells)
            \/ \E i \in Places : StreamWrites(h, k, i)
  BY <1>1, <1>2, <1>3, <1>4, <1>5, <1>6, <1>7 DEF Next, Stream
<1> QED
  BY <1>8, <1>9, <1>10 DEF Same

LEMMA AskedKept ==
    ASSUME Inv, Asked, Begun, [Next]_vars
    PROVE  Asked'
<1>1. /\ kind' = kind /\ kind \in Kinds /\ Len(Requests) \in Nat /\ Requests' = Requests
      /\ AllCells' = AllCells
  <2>1. kind' = kind /\ kind \in Kinds
    BY LatestGrows DEF Inv, Types
  <2> QED
    BY <2>1, SameKind, RequestCells
<1>2. \A c \in AllCells : latest'[c] \in 1 .. MaxChanges + 1
  <2>1. CASE latest' = latest
    BY <2>1 DEF Asked
  <2>2. ASSUME NEW d \in AllCells, NumChanges < MaxChanges, latest' = [latest EXCEPT ![d] = @ + 1]
        PROVE  \A c \in AllCells : latest'[c] \in 1 .. MaxChanges + 1
    <3>1. latest[d] <= MaxChanges /\ MaxChanges \in Nat
      BY <1>1, <2>2, ChangesCounted, ValuesAssumption DEF Asked, AllCells
    <3> QED
      BY <2>2, <3>1 DEF Asked, Inv, Types
  <2> QED
    BY <2>1, <2>2, LatestGrows
<1>3. ASSUME NEW h \in Openings
      PROVE  /\ step'[h] <= Len(Requests) + 1
             /\ stage'[h] = "none" => step'[h] = 1
             /\ \A c \in DOMAIN response'[h] : response'[h][c] \in 1 .. latest'[c]
  <2>1. /\ step[h] <= Len(Requests) + 1
        /\ stage[h] = "none" => step[h] = 1
        /\ step[h] \in Nat /\ response[h] \in Versions(AllCells)
    BY DEF Asked, Inv, Types
  <2>2. \A c \in DOMAIN response[h] : response[h][c] \in 1 .. latest'[c]
    BY <2>1, KnownStays DEF Asked, Known
  <2>3. CASE stage'[h] = stage[h] /\ step'[h] = step[h] /\ response'[h] = response[h]
    BY <2>1, <2>2, <2>3
  <2>4. CASE Opens(h)
    <3>1. step' = step /\ response' = response /\ stage'[h] = "load"
      BY <2>4 DEF Opens, Inv, Types
    <3> QED
      BY <2>1, <2>2, <3>1
  <2>5. CASE LoadFails(h) \/ LoadEnds(h)
    <3>1. step' = step /\ response' = response /\ stage'[h] # "none"
      BY <2>5 DEF LoadFails, LoadEnds, Inv, Types
    <3> QED
      BY <2>1, <2>2, <3>1
  <2>6. CASE Answered(h)
    <3> DEFINE cells == Edges(Requests[step[h]])
    <3>1. /\ stage[h] = "load" /\ step[h] <= Len(Requests) /\ stage' = stage /\ latest' = latest
          /\ step'[h] = step[h] + 1 /\ response'[h] = Restrict(latest, cells)
      BY <2>6 DEF Answered, MayAsk, Inv, Types
    <3>2. cells \subseteq AllCells
      BY <1>1, <2>1, <3>1, RequestCells DEF Inv, Types, AllCells, Edges
    <3> HIDE DEF cells
    <3>3. /\ DOMAIN Restrict(latest, cells) = cells
          /\ \A c \in cells : Restrict(latest, cells)[c] = latest[c]
      BY <3>2, Carries DEF Inv
    <3>4. \A c \in cells : latest[c] \in 1 .. latest[c]
      BY <3>2 DEF Asked, Inv, Types
    <3> QED
      BY <1>1, <2>1, <3>1, <3>3, <3>4
  <2>7. ASSUME NEW i \in Places, LoaderWrites(h, i)
        PROVE  /\ step'[h] = step[h] /\ stage'[h] = stage[h]
               /\ response'[h] = response[h] \/ DOMAIN response'[h] = {}
    BY <2>7 DEF LoaderWrites, Inv, Types, None
  <2> QED
    BY <2>1, <2>2, <2>3, <2>4, <2>5, <2>6, <2>7, LoadSteps
<1> QED
  BY <1>1, <1>2, <1>3 DEF Asked, Known

LEMMA BegunKept ==
    ASSUME Inv, Asked, Begun, [Next]_vars
    PROVE  Begun'
<1>1. kind' = kind /\ AllCells' = AllCells /\ Versions(AllCells)' = Versions(AllCells)
  BY LatestGrows, SameKind DEF Versions
<1>2. latest \in Versions(AllCells) /\ DOMAIN latest = AllCells
  BY DEF Inv, Types, Versions
<1>3. \A c \in AllCells : latest[c] \in 1 .. latest'[c]
  <2>1. /\ latest \in [AllCells -> Nat] /\ latest' \in [AllCells -> Nat]
        /\ \A c \in AllCells : latest[c] <= latest'[c]
    BY LatestGrows DEF Inv, Types
  <2>2. \A c \in AllCells : latest[c] >= 1
    BY DEF Asked
  <2> QED
    BY <2>1, <2>2
<1>4. begun' \in [Openings -> Versions(AllCells)]
  <2>1. begun' = begun \/ \E g \in Openings : begun' = [begun EXCEPT ![g] = latest]
    <3>1. ASSUME NEW g \in Openings, Opening(g)
          PROVE  begun' = begun \/ begun' = [begun EXCEPT ![g] = latest]
      BY <3>1 DEF Opening, Opens, Answered, LoadFails, LoadEnds, LoaderWrites
    <3>2. ASSUME NEW g \in Openings, NEW k \in Streams, Stream(g, k) PROVE begun' = begun
      BY <3>2 DEF Stream, Subscribes, SubscribeFails, Ends, Receives, StreamWrites
    <3> QED
      BY <3>1, <3>2 DEF Next, Changes, vars
  <2> QED
    BY <1>2, <2>1 DEF Begun
<1>5. ASSUME NEW h \in Openings
      PROVE  /\ \A c \in DOMAIN begun'[h] : begun'[h][c] \in 1 .. latest'[c]
             /\ stage'[h] # "none" => DOMAIN begun'[h] = AllCells
  <2>1. CASE begun'[h] = begun[h] /\ (stage'[h] # "none" => stage[h] # "none")
    BY <2>1, KnownStays DEF Begun, Known
  <2>2. CASE Opens(h)
    BY <1>2, <1>3, <2>2 DEF Opens, Begun
  <2>3. CASE Answered(h) \/ LoadFails(h) \/ LoadEnds(h) \/ \E i \in Places : LoaderWrites(h, i)
    <3>1. begun' = begun /\ stage[h] # "none"
      BY <2>3 DEF Answered, LoadFails, LoadEnds, LoaderWrites, MayAsk, Inv, Stages
    <3> QED
      BY <2>1, <3>1
  <2> QED
    BY <2>1, <2>2, <2>3, LoadSteps
<1> QED
  BY <1>1, <1>4, <1>5 DEF Begun, Known

\* A message and what is learned from it.
LEMMA ReceivesOf ==
    ASSUME Inv, Heard, NEW h \in Openings, NEW k \in Streams,
           NEW cells \in SUBSET Subscriptions[k], Receives(h, k, cells)
    PROVE  /\ place[h][k] = "open" /\ rest[h][k] = {} /\ latest' = latest
           /\ cells \subseteq AllCells
           /\ DOMAIN seen'[h][k] = DOMAIN seen[h][k] \cup cells
           /\ \A c \in DOMAIN seen'[h][k] :
                 seen'[h][k][c] = IF c \in cells THEN latest[c] ELSE seen[h][k][c]
           /\ seen' \in [Openings -> [Streams -> Versions(AllCells)]]
           /\ rest'[h][k] = Takers(cells)
           /\ IF Takers(cells) = {} THEN DOMAIN message'[h][k] = {}
              ELSE /\ DOMAIN message'[h][k] = cells
                   /\ \A c \in cells : message'[h][k][c] = latest[c]
<1>1. /\ place[h][k] = "open" /\ rest[h][k] = {} /\ latest' = latest
      /\ seen' = [seen EXCEPT ![h][k] = Learned(seen[h][k], cells)]
      /\ rest' = [rest EXCEPT ![h][k] = Takers(cells)]
      /\ message' = [message EXCEPT ![h][k] =
                        IF Takers(cells) = {} THEN None ELSE Restrict(latest, cells)]
  BY DEF Receives, Heard
<1>2. cells \subseteq AllCells
  BY SubscriptionCells DEF Inv, Types, AllCells
<1>3. Learned(seen[h][k], cells) \in Versions(AllCells)
  <2>1. seen[h][k] \in Versions(AllCells) /\ latest \in [AllCells -> Nat]
    BY DEF Heard, Inv, Types
  <2> DEFINE D == DOMAIN seen[h][k] \cup cells
  <2>2. DOMAIN seen[h][k] \subseteq AllCells /\ \A c \in DOMAIN seen[h][k] : seen[h][k][c] \in Nat
    BY <2>1 DEF Versions
  <2>3. Learned(seen[h][k], cells) \in [D -> Nat] /\ D \subseteq AllCells
    BY <1>2, <2>1, <2>2 DEF Learned
  <2> QED
    BY <2>3 DEF Versions
<1>4. seen'[h][k] = Learned(seen[h][k], cells) /\ seen' \in [Openings -> [Streams -> Versions(AllCells)]]
  BY <1>1, <1>3 DEF Heard
<1>5. /\ DOMAIN seen'[h][k] = DOMAIN seen[h][k] \cup cells
      /\ \A c \in DOMAIN seen'[h][k] :
            seen'[h][k][c] = IF c \in cells THEN latest[c] ELSE seen[h][k][c]
  BY <1>4 DEF Learned
<1>6. rest'[h][k] = Takers(cells)
  BY <1>1 DEF Inv, Types
<1>7. message'[h][k] = IF Takers(cells) = {} THEN None ELSE Restrict(latest, cells)
  BY <1>1 DEF Inv, Types
<1>8. IF Takers(cells) = {} THEN DOMAIN message'[h][k] = {}
      ELSE /\ DOMAIN message'[h][k] = cells
           /\ \A c \in cells : message'[h][k][c] = latest[c]
  BY <1>2, <1>7, Carries DEF Inv, None
<1> QED
  BY <1>1, <1>2, <1>4, <1>5, <1>6, <1>8

\* What a stream's write leaves to be written.
LEMMA StreamWritesOf ==
    ASSUME Inv, NEW h \in Openings, NEW k \in Streams, NEW i \in Places, StreamWrites(h, k, i)
    PROVE  /\ i \in rest[h][k] /\ place[h][k] = "open" /\ Loaded(h)
           /\ value' = [value EXCEPT ![i] = Written(i, message[h][k])]
           /\ rest'[h][k] = rest[h][k] \ {i}
           /\ IF rest[h][k] = {i} THEN DOMAIN message'[h][k] = {} ELSE message'[h][k] = message[h][k]
           /\ latest' = latest /\ seen' = seen
<1>1. rest[h][k] # {} /\ rest[h][k] \subseteq Places /\ i = Min(rest[h][k])
  BY DEF StreamWrites, Inv, Types
<1>2. i \in rest[h][k]
  BY <1>1, MinOf
<1>3. place[h][k] = "open" /\ Loaded(h)
  BY <1>1 DEF Inv, Stages
<1>4. /\ rest' = [rest EXCEPT ![h][k] = @ \ {i}]
      /\ message' = [message EXCEPT ![h][k] = IF rest[h][k] = {i} THEN None ELSE @]
  BY DEF StreamWrites
<1>5. rest'[h][k] = rest[h][k] \ {i}
  BY <1>4 DEF Inv, Types
<1>6. message'[h][k] = IF rest[h][k] = {i} THEN None ELSE message[h][k]
  BY <1>4 DEF Inv, Types
<1> QED
  BY <1>2, <1>3, <1>5, <1>6 DEF StreamWrites, None

LEMMA HeardKept ==
    ASSUME Inv, Asked, Heard, [Next]_vars
    PROVE  Heard'
<1>1. /\ kind' = kind /\ AllCells' = AllCells /\ Versions(AllCells)' = Versions(AllCells)
      /\ Streams' = Streams /\ Subscriptions' = Subscriptions
  BY LatestGrows, SameKind DEF Versions
<1>2. seen' \in [Openings -> [Streams -> Versions(AllCells)]]
  <2>1. seen' = seen \/ \E g \in Openings, k \in Streams :
                           \E cells \in SUBSET Subscriptions[k] : Receives(g, k, cells)
    <3>1. ASSUME NEW g \in Openings, Opening(g) PROVE seen' = seen
      BY <3>1 DEF Opening, Opens, Answered, LoadFails, LoadEnds, LoaderWrites, streamVars
    <3>2. ASSUME NEW g \in Openings, NEW k \in Streams, Stream(g, k)
          PROVE  seen' = seen \/ \E cells \in SUBSET Subscriptions[k] : Receives(g, k, cells)
      BY <3>2 DEF Stream, Subscribes, SubscribeFails, Ends, StreamWrites
    <3>3. ASSUME UNCHANGED vars \/ \E c \in DOMAIN latest : Changes(c) PROVE seen' = seen
      BY <3>3 DEF Changes, vars, streamVars
    <3> QED
      BY <3>1, <3>2, <3>3 DEF Next
  <2> QED
    BY <2>1, ReceivesOf DEF Heard
<1>3. ASSUME NEW h \in Openings, NEW k \in Streams
      PROVE  /\ DOMAIN seen'[h][k] \subseteq Subscriptions[k]
             /\ \A c \in DOMAIN seen'[h][k] : seen'[h][k][c] \in 1 .. latest'[c]
             /\ place'[h][k] = "closed" => DOMAIN seen'[h][k] = {}
             /\ \A c \in DOMAIN message'[h][k] :
                   c \in DOMAIN seen'[h][k] /\ message'[h][k][c] = seen'[h][k][c]
  <2>1. /\ DOMAIN seen[h][k] \subseteq Subscriptions[k]
        /\ place[h][k] = "closed" => DOMAIN seen[h][k] = {}
        /\ \A c \in DOMAIN message[h][k] :
              c \in DOMAIN seen[h][k] /\ message[h][k][c] = seen[h][k][c]
    BY DEF Heard
  <2>2. \A c \in DOMAIN seen[h][k] : seen[h][k][c] \in 1 .. latest'[c]
    BY KnownStays DEF Heard, Known
  <2>3. CASE /\ seen'[h][k] = seen[h][k] /\ message'[h][k] = message[h][k]
             /\ place[h][k] # "closed" => place'[h][k] # "closed"
    BY <2>1, <2>2, <2>3
  <2>4. ASSUME NEW cells \in SUBSET Subscriptions[k], Receives(h, k, cells), place' = place
        PROVE  /\ DOMAIN seen'[h][k] \subseteq Subscriptions[k]
               /\ \A c \in DOMAIN seen'[h][k] : seen'[h][k][c] \in 1 .. latest'[c]
               /\ place'[h][k] # "closed"
               /\ \A c \in DOMAIN message'[h][k] :
                     c \in DOMAIN seen'[h][k] /\ message'[h][k][c] = seen'[h][k][c]
    <3>1. /\ place[h][k] = "open" /\ latest' = latest /\ cells \subseteq AllCells
          /\ DOMAIN seen'[h][k] = DOMAIN seen[h][k] \cup cells
          /\ \A c \in DOMAIN seen'[h][k] :
                seen'[h][k][c] = IF c \in cells THEN latest[c] ELSE seen[h][k][c]
          /\ \A c \in DOMAIN message'[h][k] : c \in cells /\ message'[h][k][c] = latest[c]
      BY <2>4, ReceivesOf
    <3>2. \A c \in cells : latest[c] \in 1 .. latest[c]
      BY <3>1 DEF Asked, Inv, Types
    <3> QED
      BY <2>1, <2>2, <2>4, <3>1, <3>2
  <2>5. ASSUME NEW i \in Places, StreamWrites(h, k, i), place' = place
        PROVE  /\ seen'[h][k] = seen[h][k] /\ place'[h][k] = place[h][k]
               /\ message'[h][k] = message[h][k] \/ DOMAIN message'[h][k] = {}
    BY <2>5, StreamWritesOf
  <2> QED
    BY <2>1, <2>2, <2>3, <2>4, <2>5, StreamSteps
<1> QED
  BY <1>1, <1>2, <1>3 DEF Heard, Known

LEMMA SettledQuietKept ==
    ASSUME Inv, Heard, SettledQuiet, [Next]_vars
    PROVE  SettledQuiet'
<1>1. Forward /\ kind' = kind /\ Streams' = Streams
  BY InvKept, LatestGrows, SameKind
<1>2. ASSUME NEW h \in Openings, NEW k \in Streams, Quiet(h, k)
      PROVE  Quiet(h, k)'
  BY <1>1, <1>2 DEF Forward, Quiet
<1>3. ASSUME NEW g \in Openings, NEW k \in Streams, NEW h \in settled'[g][k]
      PROVE  h \in Openings /\ Quiet(h, k)
  <2>1. CASE settled'[g][k] = settled[g][k]
    BY <1>3, <2>1 DEF SettledQuiet, Inv, Types
  <2>2. CASE Subscribes(g, k)
    <3>1. settled'[g][k] = {b \in Openings : Quiet(b, k)}
      BY <2>2 DEF Subscribes, Inv, Types
    <3> QED
      BY <1>3, <3>1
  <2> QED
    BY <2>1, <2>2, StreamSteps
<1> QED
  BY <1>1, <1>2, <1>3 DEF SettledQuiet

\* A setter's call leaves in a slot what the message has for it.
LEMMA WrittenTaken ==
    ASSUME Inv, NEW i \in Places, NEW slot \in Slots, NEW f \in Versions(AllCells),
           CellOf(i, slot) \in DOMAIN f
    PROVE  Written(i, f)[slot].version = f[CellOf(i, slot)]
<1> DEFINE d == CHOOSE e \in DOMAIN f : Takes(i, slot, e)
<1>1. \E e \in DOMAIN f : Takes(i, slot, e)
  BY TakesIts DEF Inv, Types
<1>2. d \in DOMAIN f /\ Takes(i, slot, d)
  BY <1>1
<1>3. Written(i, f)[slot] = EntryFor(d, f)
  BY <1>1 DEF Written, EntryFor
<1> HIDE DEF d
<1>4. d \in AllCells
  BY <1>2 DEF Versions
<1>5. d = CellOf(i, slot)
  BY <1>2, <1>4, TakesOwn DEF Inv, Types, AllCells
<1> QED
  BY <1>3, <1>5 DEF EntryFor

LEMMA LoadsKept ==
    ASSUME Inv, Asked, Begun, Loads, [Next]_vars
    PROVE  Loads'
<1>1. /\ kind' = kind /\ kind \in Kinds /\ Slots' = Slots /\ Requests' = Requests
      /\ \A i, slot : CellOf(i, slot)' = CellOf(i, slot)
      /\ \A i, slot, c : Takes(i, slot, c)' = Takes(i, slot, c)
  <2>1. kind' = kind /\ kind \in Kinds
    BY LatestGrows DEF Inv, Types
  <2> QED
    BY <2>1, SameKind
<1>2. Inv' /\ Forward
  BY InvKept
<1> SUFFICES ASSUME NEW g \in Openings, Alone(g)', stage'[g] \in {"load", "live"},
                    NEW i \in Places, NEW slot \in Slots
             PROVE  \/ value'[i][slot].version >= begun'[g][CellOf(i, slot)]
                    \/ /\ stage'[g] = "load"
                       /\ \/ /\ i \in toWrite'[g]
                             /\ CellOf(i, slot) \in DOMAIN response'[g]
                             /\ response'[g][CellOf(i, slot)] >= begun'[g][CellOf(i, slot)]
                          \/ \E n \in step'[g] .. Len(Requests) : CellOf(i, slot) \in Requests[n]
                    \/ \E n \in begun'[g][CellOf(i, slot)] .. latest'[CellOf(i, slot)] :
                          ~Listed(CellOf(i, slot), n)
  BY <1>1, SameKind DEF Loads, Arriving, UnlistedSince
<1> DEFINE c == CellOf(i, slot)
<1>3. c \in AllCells
  BY <1>1, OwnCells DEF AllCells
<1>4. CASE stage[g] = "none"
  <2>1. Opens(g)
    BY <1>4, LoadSteps DEF Answered, LoadFails, LoadEnds, LoaderWrites, MayAsk, Inv, Stages
  <2>2. stage'[g] = "load" /\ step'[g] = 1
    BY <1>4, <2>1 DEF Opens, Asked, Inv, Types
  <2> QED
    BY <1>1, <2>2, EverySlotAsked
<1>5. CASE stage[g] # "none"
  <2>1. Alone(g)
    BY <1>2, <1>5, AloneStays
  <2>2. /\ value[i][slot].version <= value'[i][slot].version
        /\ value[i][slot].version \in Nat /\ value'[i][slot].version \in Nat
    <3>1. value[i][slot].version \in Nat
      BY OfEntry DEF Inv, Types
    <3>2. value'[i][slot] \in Entries
      BY <1>1, <1>2, SameKind DEF Inv, Types
    <3>3. value'[i][slot].version \in Nat
      BY <3>2, OfEntry
    <3> QED
      BY <2>1, <3>1, <3>3, ForwardWrites
  <2>3. begun[g][c] \in Nat
    BY <1>3, <1>5 DEF Begun, Versions
  <2>4. begun'[g] = begun[g]
    <3>1. ~Opens(g)
      BY <1>5 DEF Opens
    <3> QED
      BY <3>1, LoadSteps DEF Answered, LoadFails, LoadEnds, LoaderWrites
  <2>5. stage[g] \in {"load", "live"}
    <3>1. CASE stage[g] = "short"
      BY <1>2, <3>1, LoadSteps DEF Opens, Answered, LoadFails, LoadEnds, LoaderWrites, MayAsk,
                              Inv, Stages
    <3> QED
      BY <1>5, <3>1 DEF Inv, Types
  <2>6. CASE value[i][slot].version >= begun[g][c]
    BY <2>2, <2>3, <2>4, <2>6
  <2>7. CASE stage[g] = "load" /\ Arriving(g, i, c)
    <3>1. CASE /\ stage'[g] = stage[g] /\ step'[g] = step[g] /\ response'[g] = response[g]
               /\ toWrite'[g] = toWrite[g]
      BY <2>4, <2>7, <3>1 DEF Arriving
    <3>2. CASE Answered(g)
      <4> DEFINE cells == Edges(Requests[step[g]])
      <4>1. /\ toWrite[g] = {} /\ step[g] <= Len(Requests) /\ stage'[g] = "load"
            /\ step'[g] = step[g] + 1 /\ response'[g] = Restrict(latest, cells)
            /\ toWrite'[g] = Takers(cells) /\ latest' = latest
        BY <2>7, <3>2 DEF Answered, MayAsk, Inv, Types
      <4>2. PICK n \in step[g] .. Len(Requests) : c \in Requests[n]
        BY <2>7, <4>1 DEF Arriving
      <4>3. CASE n = step[g] /\ Listed(c, latest[c])
        <5>1. cells \subseteq AllCells
          BY <1>1, <4>1, RequestCells DEF Inv, Types, AllCells, Edges
        <5>2. c \in cells
          BY <4>2, <4>3 DEF Edges
        <5>3. i \in Takers(cells)
          BY <1>1, <5>2, TakesIts DEF Takers
        <5>4. c \in DOMAIN response'[g] /\ response'[g][c] = latest[c]
          BY <4>1, <5>1, <5>2, Carries DEF Inv
        <5>5. begun[g][c] <= latest[c]
          BY <1>3, <1>5 DEF Begun, Known, Inv, Types
        <5> QED
          BY <2>3, <2>4, <4>1, <5>3, <5>4, <5>5 DEF Inv, Types
      <4>4. CASE n # step[g]
        <5>1. step[g] \in Nat
          BY DEF Inv, Types
        <5>2. n \in step[g] + 1 .. Len(Requests)
          BY <4>2, <4>4, <5>1
        <5> QED
          BY <4>1, <4>2, <5>2
      <4>5. CASE ~Listed(c, latest[c])
        <5>1. begun[g][c] <= latest[c] /\ latest[c] \in Nat
          BY <1>3, <1>5 DEF Begun, Known, Inv, Types
        <5> QED
          BY <2>3, <2>4, <4>1, <4>5, <5>1
      <4> QED
        BY <4>3, <4>4, <4>5
    <3>3. CASE LoadFails(g)
      BY <3>3 DEF LoadFails, Inv, Types
    <3>4. CASE LoadEnds(g)
      <4>1. toWrite[g] = {} /\ step[g] > Len(Requests)
        BY <3>4 DEF LoadEnds
      <4>2. Len(Requests) \in Nat /\ step[g] \in Nat
        BY <1>1, RequestCells DEF Inv, Types
      <4> QED
        BY <2>7, <4>1, <4>2 DEF Arriving
    <3>5. ASSUME NEW p \in Places, LoaderWrites(g, p)
          PROVE  \/ value'[i][slot].version >= begun'[g][c]
                 \/ /\ stage'[g] = "load"
                    /\ \/ /\ i \in toWrite'[g]
                          /\ c \in DOMAIN response'[g]
                          /\ response'[g][c] >= begun'[g][c]
                       \/ \E n \in step'[g] .. Len(Requests) : c \in Requests[n]
      <4>1. /\ value' = [value EXCEPT ![p] = Written(p, response[g])]
            /\ toWrite' = [toWrite EXCEPT ![g] = @ \ {p}]
            /\ response' = [response EXCEPT ![g] = IF toWrite[g] = {p} THEN None ELSE @]
            /\ UNCHANGED <<stage, step>>
        BY <3>5 DEF LoaderWrites
      <4>2. /\ toWrite'[g] = toWrite[g] \ {p}
            /\ response'[g] = IF toWrite[g] = {p} THEN None ELSE response[g]
            /\ value'[p] = Written(p, response[g])
        BY <4>1 DEF Inv, Types
      <4>3. CASE \E n \in step[g] .. Len(Requests) : c \in Requests[n]
        BY <2>7, <4>1, <4>3
      <4>4. CASE i \in toWrite[g] /\ c \in DOMAIN response[g] /\ response[g][c] >= begun[g][c]
        <5>1. CASE i = p
          <6>1. response[g] \in Versions(AllCells)
            BY DEF Inv, Types
          <6>2. value'[i][slot].version = response[g][c]
            BY <4>2, <4>4, <5>1, <6>1, WrittenTaken
          <6> QED
            BY <2>4, <4>4, <6>2
        <5>2. CASE i # p
          BY <2>4, <2>7, <4>1, <4>2, <4>4, <5>2
        <5> QED
          BY <5>1, <5>2
      <4> QED
        BY <2>7, <4>3, <4>4 DEF Arriving
    <3>6. ~Opens(g)
      BY <1>5 DEF Opens
    <3> QED
      BY <3>1, <3>2, <3>3, <3>4, <3>5, <3>6, LoadSteps
  <2>8. CASE UnlistedSince(c, begun[g][c])
    <3>1. latest[c] <= latest'[c] /\ latest[c] \in Nat /\ latest'[c] \in Nat
      BY <1>2, <1>3, LatestGrows, SameKind DEF Inv, Types
    <3>2. PICK n \in begun[g][c] .. latest[c] : ~Listed(c, n)
      BY <2>8 DEF UnlistedSince
    <3>3. n \in begun[g][c] .. latest'[c]
      BY <2>3, <3>1, <3>2
    <3> QED
      BY <2>4, <3>2, <3>3
  <2> QED
    BY <2>1, <2>5, <2>6, <2>7, <2>8 DEF Loads
<1> QED
  BY <1>4, <1>5

\* A stream that has brought a value to a store had done so before, or has
\* just written it.
LEMMA BroughtBefore ==
    ASSUME Inv, Heard, [Next]_vars, NEW h \in Openings, NEW k \in Streams,
           NEW i \in Places, NEW slot \in Slots, NEW c, c = CellOf(i, slot),
           c \in DOMAIN seen'[h][k], seen'[h][k][c] = latest'[c],
           ~(i \in rest'[h][k] /\ c \in DOMAIN message'[h][k])
    PROVE  \/ Brought(h, k, i, c) /\ latest'[c] = latest[c]
           \/ value'[i][slot].version = latest'[c]
<1>1. /\ c \in AllCells /\ latest[c] \in Nat /\ latest'[c] \in Nat /\ latest[c] <= latest'[c]
  <2>1. c \in AllCells
    BY OwnCells DEF Inv, Types, AllCells
  <2> QED
    BY <2>1, LatestGrows DEF Inv, Types
<1>2. c \in DOMAIN seen[h][k] => seen[h][k][c] \in 1 .. latest[c]
  BY DEF Heard, Known
<1>3. CASE /\ seen'[h][k] = seen[h][k] /\ message'[h][k] = message[h][k]
           /\ rest'[h][k] = rest[h][k]
  BY <1>1, <1>2, <1>3 DEF Brought
<1>4. ASSUME NEW cells \in SUBSET Subscriptions[k], Receives(h, k, cells)
      PROVE  Brought(h, k, i, c) /\ latest'[c] = latest[c]
  <2>1. /\ rest[h][k] = {} /\ latest' = latest
        /\ DOMAIN seen'[h][k] = DOMAIN seen[h][k] \cup cells
        /\ \A d \in DOMAIN seen'[h][k] :
              seen'[h][k][d] = IF d \in cells THEN latest[d] ELSE seen[h][k][d]
        /\ rest'[h][k] = Takers(cells)
        /\ Takers(cells) # {} => DOMAIN message'[h][k] = cells
    BY <1>4, ReceivesOf
  <2>2. c \notin cells
    <3>1. c \in cells => i \in Takers(cells)
      BY TakesIts DEF Takers, Inv, Types
    <3> QED
      BY <2>1, <3>1
  <2> QED
    BY <2>1, <2>2 DEF Brought
<1>5. ASSUME NEW p \in Places, StreamWrites(h, k, p)
      PROVE  \/ Brought(h, k, i, c) /\ latest'[c] = latest[c]
             \/ value'[i][slot].version = latest'[c]
  <2>1. /\ p \in rest[h][k] /\ latest' = latest /\ seen' = seen
        /\ value' = [value EXCEPT ![p] = Written(p, message[h][k])]
        /\ rest'[h][k] = rest[h][k] \ {p}
        /\ IF rest[h][k] = {p} THEN DOMAIN message'[h][k] = {} ELSE message'[h][k] = message[h][k]
    BY <1>5, StreamWritesOf
  <2>2. CASE i = p /\ c \in DOMAIN message[h][k]
    <3>1. message[h][k] \in Versions(AllCells) /\ value'[i] = Written(i, message[h][k])
      BY <2>1, <2>2 DEF Inv, Types
    <3>2. value'[i][slot].version = message[h][k][c]
      BY <2>2, <3>1, WrittenTaken
    <3>3. message[h][k][c] = seen[h][k][c]
      BY <2>2 DEF Heard
    <3> QED
      BY <2>1, <3>2, <3>3
  <2>3. CASE ~(i = p /\ c \in DOMAIN message[h][k])
    <3>1. ~(i \in rest[h][k] /\ c \in DOMAIN message[h][k])
      BY <2>1, <2>3
    <3> QED
      BY <2>1, <3>1 DEF Brought
  <2> QED
    BY <2>2, <2>3
<1> QED
  BY <1>3, <1>4, <1>5, StreamSteps

LEMMA ExactKept ==
    ASSUME Inv, Heard, SettledQuiet, Exact, [Next]_vars
    PROVE  Exact'
<1>1. /\ kind' = kind /\ Slots' = Slots /\ Streams' = Streams
      /\ \A i, slot : CellOf(i, slot)' = CellOf(i, slot)
  <2>1. kind' = kind
    BY LatestGrows
  <2> QED
    BY <2>1, SameKind
<1>2. Forward
  BY InvKept
<1> DEFINE Now(h, k, i, c) == /\ c \in DOMAIN seen'[h][k] /\ seen'[h][k][c] = latest'[c]
                              /\ ~(i \in rest'[h][k] /\ c \in DOMAIN message'[h][k])
<1> SUFFICES ASSUME NEW g \in Openings, NEW k \in Streams, NEW i \in Places, NEW slot \in Slots,
                    Now(g, k, i, CellOf(i, slot)),
                    \A h \in Openings \ {g} :
                       \/ stage'[h] = "none" \/ h \in settled'[g][k]
                       \/ Now(h, k, i, CellOf(i, slot)),
                    value'[i][slot].version # latest'[CellOf(i, slot)]
             PROVE  FALSE
  BY <1>1 DEF Exact, Brought
<1> DEFINE c == CellOf(i, slot)
<1>3. \A h \in Openings : Now(h, k, i, c) => Brought(h, k, i, c) /\ latest'[c] = latest[c]
  BY BroughtBefore
<1>4. Brought(g, k, i, c) /\ latest'[c] = latest[c]
  BY <1>3
<1>5. settled'[g][k] = settled[g][k]
  <2>1. ~Subscribes(g, k)
    <3>1. place[g][k] # "closed"
      BY <1>4 DEF Brought, Heard
    <3> QED
      BY <3>1 DEF Subscribes, MaySubscribe
  <2> QED
    BY <2>1, StreamSteps
<1>6. \A h \in Openings \ {g} : stage[h] = "none" \/ h \in settled[g][k] \/ Brought(h, k, i, c)
  <2>1. \A h \in Openings : stage'[h] = "none" => stage[h] = "none"
    BY <1>2 DEF Forward
  <2> QED
    BY <1>3, <1>5, <2>1
<1>7. value[i][slot].version = latest[c]
  BY <1>4, <1>6 DEF Exact
<1>8. value'[i][slot] # value[i][slot]
  BY <1>4, <1>7
<1>9. \A h \in Openings : Brought(h, k, i, c) => Loaded(h)
  BY DEF Brought, Heard, Inv, Stages
<1>10. \A h \in settled[g][k] : Loaded(h) /\ rest[h][k] = {}
  BY DEF SettledQuiet, Quiet
<1>11. ASSUME NEW h \in Openings, NEW p \in Places, LoaderWrites(h, p)
       PROVE  FALSE
  <2>1. stage[h] = "load"
    BY <1>11 DEF LoaderWrites, Inv, Stages
  <2> QED
    BY <1>4, <1>6, <1>9, <1>10, <2>1 DEF Loaded
<1>12. ASSUME NEW h \in Openings, NEW j \in Streams, NEW p \in Places, StreamWrites(h, j, p)
       PROVE  FALSE
  <2>1. /\ p \in rest[h][j] /\ Loaded(h)
        /\ value' = [value EXCEPT ![p] = Written(p, message[h][j])]
    BY <1>12, StreamWritesOf
  <2>2. p = i /\ Written(i, message[h][j])[slot] # value[i][slot]
    BY <1>8, <2>1 DEF Inv, Types
  <2>3. c \in DOMAIN message[h][j]
    <3>1. message[h][j] \in Versions(AllCells)
      BY DEF Inv, Types
    <3> QED
      BY <2>2, <3>1, WrittenOf
  <2>4. j = k
    <3>1. c \in Subscriptions[j]
      BY <2>3 DEF Inv, Stages
    <3>2. c \in Subscriptions[k]
      BY <1>4 DEF Brought, Heard
    <3> QED
      BY <3>1, <3>2, SubscriptionCells DEF Inv, Types
  <2>5. ~Brought(h, k, i, c)
    BY <2>1, <2>2, <2>3, <2>4 DEF Brought
  <2> QED
    BY <1>4, <1>6, <1>10, <2>1, <2>4, <2>5 DEF Loaded
<1>13. ASSUME NEW h \in Openings, Opening(h)
       PROVE  FALSE
  BY <1>8, <1>11, <1>13 DEF Opening, Opens, Answered, LoadFails, LoadEnds
<1>14. ASSUME NEW h \in Openings, NEW j \in Streams, Stream(h, j)
       PROVE  FALSE
  BY <1>8, <1>12, <1>14 DEF Stream, Subscribes, SubscribeFails, Ends, Receives
<1> QED
  BY <1>8, <1>13, <1>14 DEF Next, Changes, vars

LEMMA ArrivalsKept == Spec => [](Inv /\ Arrivals)
<1>1. Init => Inv /\ Arrivals
  BY InitInv, InitArrivals
<1>2. Inv /\ Arrivals /\ [Next]_vars => (Inv /\ Arrivals)'
  BY InvKept, AskedKept, BegunKept, HeardKept, SettledQuietKept, LoadsKept, ExactKept DEF Arrivals
<1> QED
  BY <1>1, <1>2, PTL DEF Spec

\* A load that met no error leaves in every store what the setters keep of
\* what the network had when its run of StreamVegaData began, or of something
\* newer, for any stores and any number of runs of which none could still
\* write when it began; but for a liquidity provision that the network did
\* not list at some time since, for which nothing is written.  Of one that it
\* lists the update that pends is kept, and nil if none does, whatever
\* versions of it there are.
THEOREM FreshLoads == Spec => []LoadsFresh
<1>1. ASSUME Inv, Arrivals PROVE LoadsFresh
  <2> SUFFICES ASSUME NEW g \in Openings, stage[g] = "live", Alone(g),
                      NEW i \in Places, NEW slot \in Slots
               PROVE  LET c == CellOf(i, slot)
                      IN  \/ /\ value[i][slot].version >= begun[g][c]
                             /\ value[i][slot].holds = Kept(c, value[i][slot].version)
                          \/ UnlistedSince(c, begun[g][c])
    BY DEF LoadsFresh, Alone
  <2>1. value[i][slot].holds = Kept(CellOf(i, slot), value[i][slot].version)
    <3>1. value[i][slot] \in Entries /\ value[i][slot].cell = CellOf(i, slot)
      BY <1>1 DEF Inv, Types, OwnDataOnly
    <3> QED
      BY <3>1, OfEntry
  <2>2. \/ value[i][slot].version >= begun[g][CellOf(i, slot)]
        \/ UnlistedSince(CellOf(i, slot), begun[g][CellOf(i, slot)])
    BY <1>1 DEF Arrivals, Loads
  <2> QED
    BY <2>1, <2>2
<1>2. Inv /\ Arrivals => LoadsFresh
  BY <1>1
<1> QED
  BY <1>2, ArrivalsKept, PTL

\* What a stream has brought ends up in every store it belongs to and stays
\* there, for any number of openings of other ages that can write no more or
\* have brought it too.
THEOREM ExactValues == Spec => []ValuesExact
<1>1. ASSUME Inv, Arrivals PROVE ValuesExact
  <2> SUFFICES ASSUME NEW g \in Openings, NEW k \in Streams, NEW c \in Subscriptions[k],
                      CaughtUp(g, k, c),
                      \A h \in Openings \ {g} :
                         stage[h] = "none" \/ h \in settled[g][k] \/ CaughtUp(h, k, c),
                      NEW i \in Places, NEW slot \in Slots, CellOf(i, slot) = c
               PROVE  value[i][slot].version = latest[c]
    BY DEF ValuesExact
  <2>1. \A h \in Openings : CaughtUp(h, k, c) => Brought(h, k, i, c)
    BY DEF CaughtUp, Brought
  <2> QED
    BY <1>1, <2>1 DEF Arrivals, Exact
<1>2. Inv /\ Arrivals => ValuesExact
  BY <1>1
<1> QED
  BY <1>2, ArrivalsKept, PTL

\* The types, and that a load that is over has written all it was answered.
THEOREM TypeCorrect == Spec => []TypeOK
<1>1. ASSUME Inv, Arrivals PROVE TypeOK
  <2>1. MaxChanges \in Nat /\ Len(Requests) \in Nat /\ \A c \in AllCells : latest[c] \in 1 .. MaxChanges + 1
    BY <1>1, RequestCells, ValuesAssumption DEF Arrivals, Asked, Inv, Types
  <2>2. ASSUME NEW f \in Versions(AllCells), \A c \in DOMAIN f : f[c] \in 1 .. latest[c]
        PROVE  AreVersions(f, AllCells) /\ \A c \in DOMAIN f : f[c] \in 1 .. MaxChanges + 1
    BY <2>1, <2>2 DEF Versions, AreVersions
  <2>3. latest \in [AllCells -> 1 .. MaxChanges + 1]
    BY <1>1, <2>1 DEF Inv, Types
  <2> DEFINE Bounded == [cell : AllCells, version : 0 .. MaxChanges + 1,
                         holds : {"nothing", "pending", "value"}]
  <2>4. value \in [Places -> [Slots -> Bounded]]
    <3>1. \A i \in Places, slot \in Slots :
             value[i][slot] \in Bounded
      <4> SUFFICES ASSUME NEW i \in Places, NEW slot \in Slots
                   PROVE  value[i][slot] \in Bounded
        OBVIOUS
      <4>1. CellOf(i, slot) \in AllCells
        BY <1>1, OwnCells DEF Inv, Types, AllCells
      <4>2. /\ value[i][slot].version \in Nat
            /\ value[i][slot].version <= latest[CellOf(i, slot)]
            /\ value[i][slot] \in Entries
        BY <1>1, OfEntry DEF Inv, Types, NoneNewer
      <4>3. value[i][slot].version \in 0 .. MaxChanges + 1
        BY <2>1, <4>1, <4>2
      <4> QED
        BY <4>2, <4>3 DEF Entries
    <3> QED
      BY <1>1, <3>1 DEF Inv, Types
  <2>5. step \in [Openings -> 1 .. Len(Requests) + 1]
    BY <1>1, <2>1 DEF Inv, Types, Arrivals, Asked
  <2>6. ASSUME NEW g \in Openings
        PROVE  /\ AreVersions(response[g], AllCells) /\ AreVersions(begun[g], AllCells)
               /\ toWrite[g] \subseteq Places
               /\ Loaded(g) => toWrite[g] = {}
    <3>1. AreVersions(response[g], AllCells) /\ AreVersions(begun[g], AllCells)
      BY <1>1, <2>2 DEF Arrivals, Asked, Begun, Known, Inv, Types
    <3> QED
      BY <1>1, <3>1 DEF Inv, Types, Stages, Loaded
  <2>7. ASSUME NEW g \in Openings, NEW k \in Streams
        PROVE  /\ place[g][k] \in {"closed", "open", "ended"}
               /\ rest[g][k] \subseteq Places
               /\ DOMAIN message[g][k] \subseteq DOMAIN seen[g][k]
               /\ AreVersions(seen[g][k], Subscriptions[k])
    <3>1. /\ DOMAIN seen[g][k] \subseteq Subscriptions[k]
          /\ \A c \in DOMAIN seen[g][k] : seen[g][k][c] \in 1 .. MaxChanges + 1
      BY <1>1, <2>2 DEF Arrivals, Heard, Known
    <3>2. DOMAIN message[g][k] \subseteq DOMAIN seen[g][k]
      BY <1>1 DEF Arrivals, Heard
    <3> QED
      BY <1>1, <3>1, <3>2 DEF AreVersions, Inv, Types
  <2>8. stage \in [Openings -> {"none", "load", "live", "short"}]
    BY <1>1 DEF Inv, Types
  <2> QED
    BY <2>3, <2>4, <2>5, <2>6, <2>7, <2>8 DEF TypeOK
<1>2. Inv /\ Arrivals => TypeOK
  BY <1>1
<1> QED
  BY <1>2, ArrivalsKept, PTL
=============================================================================
