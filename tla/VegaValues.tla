----------------------------- MODULE VegaValues -----------------------------
(***************************************************************************)
(* How everything but orders reaches the Vega stores: the loads and the    *)
(* streams of src/data-engine/vega_data_client.go and the setters of       *)
(* src/stores/stores.go.  StreamVegaData runs again for each reconnect and *)
(* cancels no stream, so that openings of several ages write whole values  *)
(* into the same stores, and the last write wins.                          *)
(*                                                                         *)
(* The kinds of data do not meet (each has its own fields of the stores),  *)
(* so a behaviour is about one kind.  A cell is one value of the network,  *)
(* its versions are numbered, and a message carries versions of cells.     *)
(* Stores keep a version whole, but of a liquidity provision only the      *)
(* update that is pending.                                                 *)
(***************************************************************************)
EXTENDS Naturals, Sequences, FiniteSets, SequencesExt, FiniteSetsExt, Functions

CONSTANTS
    Stores,      \* Init's dataStores: a sequence of [market, agent]
    Assets,
    Kinds,       \* the kinds of data an instance looks at
    Provisions,  \* Provisions[c][v]: what version v of a liquidity provision
                 \* is: not listed ("none"), in force ("current"), or with an
                 \* update that comes into force later ("pending")
    MaxOpenings, \* bound: runs of StreamVegaData
    MaxChanges   \* bound: changes of the network's values

Places == DOMAIN Stores
Agents == {Stores[i].agent : i \in Places}
Markets == {Stores[i].market : i \in Places}

ASSUME ValuesAssumption ==
    /\ Stores # <<>> /\ Stores \in Seq(Range(Stores))
    /\ IsFiniteSet(Assets)
    /\ MaxOpenings \in Nat /\ MaxChanges \in Nat
    /\ \A i, j \in Places : Stores[i] = Stores[j] => i = j
    /\ Kinds \subseteq {"markets", "marketData", "accounts", "positions",
                        "assets", "liquidity", "stake"}
    /\ Provisions \in [Markets \X Agents ->
                         [1 .. MaxChanges + 1 -> {"none", "current", "pending"}]]

VARIABLES
    kind,       \* the kind of data
    latest,     \* latest[c]: the newest version of cell c on the network
    value,      \* value[i][slot]: the cell and version that store i was last
                \* written from (version 0: not yet), and what it holds of it
    stage,      \* stage[g]: where opening g stands
    step,       \* step[g]: its next request
    response,   \* response[g]: the versions it has to write
    toWrite,    \* toWrite[g]: the stores it has still to write them to
    place,      \* place[g][k]: where stream k of opening g stands
    seen,       \* seen[g][k]: the versions its messages have brought
    message,    \* message[g][k]: those it has to write
    rest,       \* rest[g][k]: the stores it has still to write them to
    begun,      \* history, begun[g]: the versions when opening g began
    settled     \* history, settled[g][k]: the openings that could no longer
                \* write when g began (k = 0), or its stream k was subscribed

loadVars == <<stage, step, response, toWrite>>
streamVars == <<place, seen, message, rest>>
vars == <<kind, latest, value, loadVars, streamVars, begun, settled>>

Openings == 1 .. MaxOpenings

-----------------------------------------------------------------------------
(* What is asked for, and which store takes which cell.                    *)

Slots == IF kind = "accounts" THEN Assets ELSE {"value"}

\* The cell whose value a slot of a store is meant to hold.
CellOf(i, slot) ==
    CASE kind \in {"markets", "marketData"}   -> <<Stores[i].market>>
      [] kind = "accounts"                    -> <<Stores[i].agent, slot>>
      [] kind \in {"positions", "liquidity"}  -> <<Stores[i].market, Stores[i].agent>>
      [] OTHER                                -> <<"network">>

\* A party may hold positions in markets of which it runs no strategy.
Cells == [k \in Kinds |->
    CASE k \in {"markets", "marketData"}  -> {<<m>> : m \in Markets}
      [] k = "accounts"                   -> Agents \X Assets
      [] k \in {"positions", "liquidity"} -> Markets \X Agents
      [] OTHER                            -> {<<"network">>}]

AgentOf(k, c) == IF k = "accounts" THEN c[1] ELSE c[2]
OfAgent(k, a) == {c \in Cells[k] : AgentOf(k, c) = a}
ByAgent == [k \in Kinds \cap {"accounts", "positions"} |->
    SetToSeq({OfAgent(k, a) : a \in Agents})]

\* The requests of a load, one after the other: maps.Keys gives the markets
\* and the agents in any order, one order will do.
RequestsOf == [k \in Kinds |->
    CASE k \in {"markets", "marketData"} -> SetToSeq({{<<m>>} : m \in Markets})
      [] k = "accounts"                  -> ByAgent[k]
      [] k = "positions"                 -> <<Cells[k]>>
      [] k = "liquidity"                 ->
            [i \in Places |-> {<<Stores[i].market, Stores[i].agent>>}]
      [] OTHER                           -> <<{<<"network">>}>>]

\* One stream for all the markets, or one for each agent.
SubscriptionsOf == [k \in Kinds |->
    CASE k = "marketData"               -> <<Cells[k]>>
      [] k \in {"accounts", "positions"} -> ByAgent[k]
      [] OTHER                          -> <<>>]

Requests == RequestsOf[kind]
Subscriptions == SubscriptionsOf[kind]
Streams == DOMAIN Subscriptions

\* Mutant: a party's positions go to each of the market's stores.
Takes_EveryAgent(i, slot, c) ==
    CASE kind = "stake" \/ kind = "assets" -> TRUE
      [] kind = "accounts"               -> Stores[i].agent = c[1] /\ slot = c[2]
      [] OTHER                           -> Stores[i].market = c[1]

\* The slot of store i that takes the value of cell c, if one does.
Takes(i, slot, c) ==
    CASE kind \in {"markets", "marketData"} -> Stores[i].market = c[1]
      [] kind = "accounts"                  -> Stores[i].agent = c[1] /\ slot = c[2]
      [] kind = "positions"                 -> Stores[i].market = c[1] /\ Stores[i].agent = c[2]
      [] kind = "liquidity"                 -> CellOf(i, slot) = c
      [] OTHER                              -> TRUE

\* A request for a provision has an edge only if the network lists one.
Listed(c, version) == kind = "liquidity" => Provisions[c][version] # "none"

\* What a setter is given of a version: of an edge of a provision Pending
\* only, which is nil while no update is pending.
Kept(c, version) ==
    IF version = 0 \/ (kind = "liquidity" /\ Provisions[c][version] # "pending") THEN "nothing"
    ELSE IF kind = "liquidity" THEN "pending" ELSE "value"

Takers(cells) == {i \in Places : \E slot \in Slots, c \in cells : Takes(i, slot, c)}

\* Mutant: the values a message does not mention are lost.
Written_Forgets(i, versions) ==
    [slot \in Slots |->
        IF \E c \in DOMAIN versions : Takes(i, slot, c)
        THEN LET c == CHOOSE d \in DOMAIN versions : Takes(i, slot, d)
             IN  [cell |-> c, version |-> versions[c], holds |-> Kept(c, versions[c])]
        ELSE [cell |-> CellOf(i, slot), version |-> 0, holds |-> "nothing"]]

\* A setter's call on store i: the slots named in the message are replaced.
Written(i, versions) ==
    [slot \in Slots |->
        IF \E c \in DOMAIN versions : Takes(i, slot, c)
        THEN LET c == CHOOSE d \in DOMAIN versions : Takes(i, slot, d)
             IN  [cell |-> c, version |-> versions[c], holds |-> Kept(c, versions[c])]
        ELSE value[i][slot]]

None == [c \in {} |-> 0]

Init ==
    /\ kind \in Kinds
    /\ latest = [c \in Cells[kind] |-> 1]
    /\ value = [i \in Places |-> [slot \in Slots |->
                   [cell |-> CellOf(i, slot), version |-> 0, holds |-> "nothing"]]]
    /\ stage = [g \in Openings |-> "none"]
    /\ step = [g \in Openings |-> 1]
    /\ response = [g \in Openings |-> None]
    /\ toWrite = [g \in Openings |-> {}]
    /\ place = [g \in Openings |-> [k \in Streams |-> "closed"]]
    /\ seen = [g \in Openings |-> [k \in Streams |-> None]]
    /\ message = [g \in Openings |-> [k \in Streams |-> None]]
    /\ rest = [g \in Openings |-> [k \in Streams |-> {}]]
    /\ begun = [g \in Openings |-> None]
    /\ settled = [g \in Openings |-> [k \in Streams \cup {0} |-> {}]]

-----------------------------------------------------------------------------
(* The network, and the openings.  Any other kind of data may make the     *)
(* client ask for a reconnect at any time.                                 *)

NumChanges == Cardinality({v \in Cells[kind] \X (1 .. MaxChanges) : v[2] < latest[v[1]]})

\* A value changes (external).
Changes(c) ==
    /\ NumChanges < MaxChanges
    /\ latest' = [latest EXCEPT ![c] = @ + 1]
    /\ UNCHANGED <<kind, value, loadVars, streamVars, begun, settled>>

\* Openings that will never write again, stream k (if there is one) ended.
Loaded(g) == stage[g] \in {"live", "short"}
Quiet(g, k) == Loaded(g) /\ (k \in Streams => place[g][k] = "ended" /\ rest[g][k] = {})
Finished(g) == \A k \in Streams \cup {0} : Quiet(g, k)

\* Start runs StreamVegaData once; the reconnect handler runs it again, and
\* waits for the run it has started, not for that of Start.
Opens(g) ==
    /\ stage[g] = "none"
    /\ \A h \in 1 .. g - 1 : stage[h] # "none" /\ (h > 1 => Loaded(h))
    /\ stage' = [stage EXCEPT ![g] = "load"]
    /\ begun' = [begun EXCEPT ![g] = latest]
    /\ settled' = [settled EXCEPT ![g][0] = {h \in Openings : Finished(h)}]
    /\ UNCHANGED <<kind, latest, value, step, response, toWrite, streamVars>>

-----------------------------------------------------------------------------
(* The load of the kind: its requests, and what each brings.               *)

MayAsk(g) ==
    stage[g] = "load" /\ toWrite[g] = {} /\ step[g] <= Len(Requests)

\* The cells of a request that the network lists.
Edges(cells) == {c \in cells : Listed(c, latest[c])}

\* Nothing is written for a cell that is not listed.
Answered(g) ==
    /\ MayAsk(g)
    /\ LET cells == Edges(Requests[step[g]])
       IN  /\ response' = [response EXCEPT ![g] = Restrict(latest, cells)]
           /\ toWrite' = [toWrite EXCEPT ![g] = Takers(cells)]
    /\ step' = [step EXCEPT ![g] = @ + 1]
    /\ UNCHANGED <<kind, latest, value, stage, streamVars, begun, settled>>

\* Mutant: a request that fails does not end the load (and asks nobody).
LoadFails_GoesOn(g) ==
    /\ MayAsk(g)
    /\ step' = [step EXCEPT ![g] = @ + 1]
    /\ UNCHANGED <<kind, latest, value, stage, response, toWrite, streamVars, begun, settled>>

\* The load returns before its later requests; StreamVegaData goes on.
LoadFails(g) ==
    /\ MayAsk(g)
    /\ stage' = [stage EXCEPT ![g] = "short"]
    /\ UNCHANGED <<kind, latest, value, step, response, toWrite, streamVars, begun, settled>>

\* The stores in Init's order, which the slices have; maps give any other,
\* but no property relates two stores.
LoaderWrites(g, i) ==
    /\ toWrite[g] # {} /\ i = Min(toWrite[g])
    /\ value' = [value EXCEPT ![i] = Written(i, response[g])]
    /\ toWrite' = [toWrite EXCEPT ![g] = @ \ {i}]
    /\ response' = [response EXCEPT ![g] = IF toWrite[g] = {i} THEN None ELSE @]
    /\ UNCHANGED <<kind, latest, stage, step, streamVars, begun, settled>>

LoadEnds(g) ==
    /\ stage[g] = "load" /\ toWrite[g] = {} /\ step[g] > Len(Requests)
    /\ stage' = [stage EXCEPT ![g] = "live"]
    /\ UNCHANGED <<kind, latest, value, step, response, toWrite, streamVars, begun, settled>>

-----------------------------------------------------------------------------
(* The streams, subscribed once every load is over.                        *)

\* Mutant: the streams are started before the loads.
MaySubscribe_Early(g, k) ==
    /\ stage[g] # "none" /\ place[g][k] = "closed"
    /\ \A j \in 1 .. k - 1 : place[g][j] # "closed"

MaySubscribe(g, k) ==
    /\ Loaded(g) /\ place[g][k] = "closed"
    /\ \A j \in 1 .. k - 1 : place[g][j] # "closed"

Subscribes(g, k) ==
    /\ MaySubscribe(g, k)
    /\ place' = [place EXCEPT ![g][k] = "open"]
    /\ settled' = [settled EXCEPT ![g][k] = {h \in Openings : Quiet(h, k)}]
    /\ UNCHANGED <<kind, latest, value, loadVars, seen, message, rest, begun>>

\* The agents that come after are not subscribed either.
SubscribeFails(g, k) ==
    /\ MaySubscribe(g, k)
    /\ place' = [place EXCEPT ![g] = [j \in Streams |-> IF j < k THEN @[j] ELSE "ended"]]
    /\ UNCHANGED <<kind, latest, value, loadVars, seen, message, rest, begun, settled>>

\* A message: the network sends a snapshot first (market data has none, and
\* is sent again with every block), then what changed (external).
News(g, k) ==
    {c \in Subscriptions[k] : c \notin DOMAIN seen[g][k] \/ seen[g][k][c] < latest[c]}

\* What is known after the newest versions of some cells have come.
Learned(known, cells) ==
    [c \in DOMAIN known \cup cells |-> IF c \in cells THEN latest[c] ELSE known[c]]

Receives(g, k, cells) ==
    /\ place[g][k] = "open" /\ rest[g][k] = {}
    /\ cells # {} /\ cells \subseteq News(g, k)
    /\ kind # "marketData" /\ DOMAIN seen[g][k] = {} => cells = Subscriptions[k]
    /\ message' = [message EXCEPT ![g][k] =
                     IF Takers(cells) = {} THEN None ELSE Restrict(latest, cells)]
    /\ seen' = [seen EXCEPT ![g][k] = Learned(@, cells)]
    /\ rest' = [rest EXCEPT ![g][k] = Takers(cells)]
    /\ UNCHANGED <<kind, latest, value, loadVars, place, begun, settled>>

StreamWrites(g, k, i) ==
    /\ rest[g][k] # {} /\ i = Min(rest[g][k])
    /\ value' = [value EXCEPT ![i] = Written(i, message[g][k])]
    /\ rest' = [rest EXCEPT ![g][k] = @ \ {i}]
    /\ message' = [message EXCEPT ![g][k] = IF rest[g][k] = {i} THEN None ELSE @]
    /\ UNCHANGED <<kind, latest, loadVars, place, seen, begun, settled>>

Ends(g, k) ==
    /\ place[g][k] = "open" /\ rest[g][k] = {}
    /\ place' = [place EXCEPT ![g][k] = "ended"]
    /\ UNCHANGED <<kind, latest, value, loadVars, seen, message, rest, begun, settled>>

-----------------------------------------------------------------------------

Opening(g) ==
    \/ Opens(g) \/ Answered(g) \/ LoadFails(g) \/ LoadEnds(g)
    \/ \E i \in Places : LoaderWrites(g, i)

Stream(g, k) ==
    \/ Subscribes(g, k) \/ SubscribeFails(g, k) \/ Ends(g, k)
    \/ \E cells \in SUBSET Subscriptions[k] : Receives(g, k, cells)
    \/ \E i \in Places : StreamWrites(g, k, i)

Next ==
    \/ \E c \in DOMAIN latest : Changes(c)
    \/ \E g \in Openings : Opening(g) \/ \E k \in Streams : Stream(g, k)

Spec == Init /\ [][Next]_vars

-----------------------------------------------------------------------------
(* Properties.                                                             *)

AllCells == Cells[kind]
AreVersions(f, cells) ==
    DOMAIN f \subseteq cells /\ \A c \in DOMAIN f : f[c] \in 1 .. MaxChanges + 1

\* What the variables hold; and a load that is over has written all that its
\* requests returned, so that the streams' values come after the load's
\* (each response is written before the next request is made).
TypeOK ==
    /\ latest \in [AllCells -> 1 .. MaxChanges + 1]
    /\ value \in [Places -> [Slots -> [cell : AllCells, version : 0 .. MaxChanges + 1,
                                       holds : {"nothing", "pending", "value"}]]]
    /\ stage \in [Openings -> {"none", "load", "live", "short"}]
    /\ step \in [Openings -> 1 .. Len(Requests) + 1]
    /\ \A g \in Openings :
          /\ AreVersions(response[g], AllCells) /\ AreVersions(begun[g], AllCells)
          /\ toWrite[g] \subseteq Places /\ (Loaded(g) => toWrite[g] = {})
          /\ \A k \in Streams :
                /\ place[g][k] \in {"closed", "open", "ended"}
                /\ rest[g][k] \subseteq Places
                /\ DOMAIN message[g][k] \subseteq DOMAIN seen[g][k]
                /\ AreVersions(seen[g][k], Subscriptions[k])

\* A strategy sees its own data only: what a store holds is of its market,
\* its agent, or both, whichever message brought it.  (Loads and streams
\* find the stores in four different ways.)
OwnDataOnly ==
    \A i \in Places, slot \in Slots : value[i][slot].cell = CellOf(i, slot)

CaughtUp(g, k, c) ==
    /\ c \in DOMAIN seen[g][k] /\ seen[g][k][c] = latest[c]
    /\ rest[g][k] = {}

\* A value the network no longer changes ends up in every store it belongs
\* to, once a stream has brought it there, and the openings of other ages
\* have nothing older left to write: they could write no more when that
\* stream was subscribed, or have brought it too.  What is lost between a
\* load and the streams comes with the streams.
ValuesExact ==
    \A g \in Openings, k \in Streams : \A c \in Subscriptions[k] :
        /\ CaughtUp(g, k, c)
        /\ \A h \in Openings \ {g} :
              stage[h] = "none" \/ h \in settled[g][k] \/ CaughtUp(h, k, c)
        => \A i \in Places, slot \in Slots :
              CellOf(i, slot) = c => value[i][slot].version = latest[c]

\* The network did not list cell c at some time since its version since.
UnlistedSince(c, since) == \E n \in since .. latest[c] : ~Listed(c, n)

\* A load that met no error leaves in every store what the setters keep of
\* what the network had when StreamVegaData began, or of something newer, if
\* no other run of it could still write then or has begun since.  The one
\* exception: a liquidity provision that the network did not list, for which
\* nothing is written, so that an update the store held stays there.
LoadsFresh ==
    \A g \in Openings :
        /\ stage[g] = "live"
        /\ \A h \in Openings \ {g} : stage[h] = "none" \/ h \in settled[g][0]
        => \A i \in Places, slot \in Slots :
              LET c == CellOf(i, slot)
              IN  \/ /\ value[i][slot].version >= begun[g][c]
                     /\ value[i][slot].holds = Kept(c, value[i][slot].version)
                  \/ UnlistedSince(c, begun[g][c])

Overlap(g, h) ==
    /\ g # h /\ stage[g] # "none" /\ stage[h] # "none"
    /\ h \notin settled[g][0] /\ g \notin settled[h][0]

\* A store goes back to an older value only where two runs of StreamVegaData
\* overlap: the loads come before the streams, and a stream is in order.
BackOnlyByOverlap ==
    [][\A i \in Places, slot \in Slots :
          value'[i][slot].version < value[i][slot].version =>
             \E g, h \in Openings : Overlap(g, h)]_vars
=============================================================================
