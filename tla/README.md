# A verification project for vega-mm-bot

TLA+ models of the market-making bot: its goroutines and channels, its stores,
the rounds of its strategies and its start-up, model-checked with TLC and, where
it pays, proved with TLAPS.  Paths are relative to the
repository; `file.go:n` is line n at the commit modelled.

## 1. The system

The bot quotes on Vega markets for a number of agents (public keys).  It is one
process of goroutines joined by channels; nothing is persisted.

| Component | State | Operations | Talks to |
|---|---|---|---|
| Proof-of-work worker (`pow/worker.go`) | last block | receive a block, generate proofs for every agent, prune | block loops (`recentBlockCh`), every store |
| Proof-of-work store (`pow/store.go`), one per agent | proofs by height, Used flags | SetPows, GetPow (retrying), PrunePows | worker, one signer |
| Signer (`wallets/vega.go`), one per agent | buffered channel of 5 inputs | take an input, take a proof, sign, send, or drop the input | strategies (`txDataCh`), submit loops (`txBroadcastCh`) |
| Vega core client (`data-engine/vega_core_client.go`) | reconnecting, grpcAddr | submit loop, block loop, reconnect handler | signers, worker, a core node |
| Binance client (`data-engine/binance_client.go`) | reconnecting, the stores' prices and stale flag | open, read, reconnect handler | Binance, Binance stores |
| Vega data client (`data-engine/vega_data_client.go`) | reconnecting, grpcAddr, order lists per stream | load, four kinds of stream, reconnect handler | a data node, Vega stores |
| Stores (`stores/stores.go`) | orders, external orders, accounts, position, market data | setters and getters, one lock per call | data clients write, strategies read |
| Strategies (`strategies/`) | exposure reduction flags | one quoting round each 750 ms | stores, metrics channel, signer |
| Agents, trading engine (`trading-engine/`) | agents, strategies by market | registration, start-up, metrics loop | everything, at start-up |
| Metrics server (`metrics/server.go`) | Prometheus metrics | receive events | strategies, trading engine |
| Start-up (`main.go`) | | Init and Start in a fixed order, wait for both data clients | everything |
| Legacy code (`signing.go`, `client.go`, `store.go`, `strategy.go`, `metrics.go`, `config.go`) | | compiled, never called from `main` | |

Most channels are unbuffered, most flags of the data clients are unlocked
fields, and the reconnect handlers are both receivers of requests and, through
the functions they call, senders of them.  The hard behaviours follow:

- **interleaving** of worker and signers on the proof stores; of failing loops
  and the handler on `reconnecting`;
- **ordering**: repeated and out-of-order blocks, order streams of several ages
  writing the same stores, several submit loops on one channel;
- **staleness**: addresses, prices and orders that outlive their connection;
- **atomicity**: one round reads its position, its books and its prices with
  several getter calls, and messages are stored in between;
- **deadlock**: a handler that waits for its own requester; strategies that
  block on the metrics channel before they block on their signer;
- **partial failure**: a load or a dial failing in the middle of a reconnect, or
  one load of the start-up failing alone; a panic in one round that ends all others;
- **numeric edges**: heights are `uint64`, and 80 is subtracted from them; quotes
  are offset, truncated and spread over geometric ladders.

What makes each component correct:

| Component | Correct when |
|---|---|
| worker and stores | a proof is handed out once; the store holds the window and what was just generated; difficulties leave in the order the spam rule wants |
| signer | inputs are settled once each, in order, and waiting for proofs ends |
| core client | a loop that gives up is replaced; both loops run again after any outage |
| Binance client | one stream at most; prices not marked fresh without a stream |
| data client | a missing stream comes back; no dial of the empty address; the handler does not hang |
| stores | once caught up they hold what the network holds (of a liquidity provision, its pending update), each store its own market's and party's; values go back only where two connections overlap |
| strategies | quotes do not cross, nor go through the book; a reduction reduces and is not bought back; reductions are paced, neither lost nor doubled |
| trading engine, data engine | all parts are built from the same strategies; no strategy runs unprepared |
| metrics server | gauges show what was reported; nobody is held by it |
| whole system | no strategy is stuck for ever; what an outage delays is bounded |

`PROJECT.json` lists every component with its status, and under `hazards` each
of the behaviours above at its line.

## 2. The plan

| # | Module | Content | State |
|---|---|---|---|
| 1 | `PowStore`, `PowPipeline`, `TxStream`, `Signers`, `PowPipelineProofs` | blocks and inputs to signed transactions, with its two abstract specifications and proofs | done |
| 2 | `CoreClient`, `CoreClientProofs` | submit and block loops, reconnects, with proofs | done |
| 3 | `BinanceClient`, `BinanceClientProofs` | stream, staleness, reconnects, with proofs | done |
| 4 | `VegaDataClient`, `VegaDataClientProofs` | openers, streams, reconnects, with proofs | done |
| 5 | `VegaOrders`, `VegaOrdersProofs` | order events of several stream ages into the stores, with proofs | done |
| 6 | `VegaValues`, `VegaValuesProofs` | all other data: loads and streams of whole values into the stores, last write wins, with proofs | done |
| 7 | `ExposureReduction` | the unlocked flags and timers that pace reductions | done |
| 8 | `Prices`, `AggressiveQuote`, `PointsQuote` | thresholds, offsets, reference prices, truncation, ladders | done |
| 9 | `MartingaleQuote` | the bounds of its price search, its ladder and what is taken off it | done |
| 10 | `StrategyRound`, `StrategyRoundProofs` | composes 7 to 9: rounds with torn reads, pacing, batches, with proofs | done |
| 11 | `Registration`, `MetricsServer`, `TradingSystem`, `TradingSystemProofs` | registration, start-up, strategies, signers, submit loop, metrics: order of start, deadlock, liveness, backlog, gauges, with proofs | done |

`PowPipeline` refines `TxStream`, and `Signers`, of whose steps `TradingSystem` is
made: what the whole system takes the signers for is what the pipeline does.
`StrategyRound` extends `ExposureReduction` and instantiates the three `*Quote`
modules, which extend `Prices`. `TradingSystem` extends `Registration`,
`MetricsServer` and `Signers`; in it the pipeline, the reconnects and the rounds of
the other modules succeed or fail.

Every safety property and every action property that a run checks, the two
refinements among them, has a theorem (section 5); the liveness properties are
left to TLC.

## 3. The modules

### PowStore and PowPipeline

`PowStore` holds the operations of `pow/store.go` as operators on a set of
proofs and the subset whose `Used` flag is set.  A proof keeps its height, its
difficulty above the block's base and its transaction id; nonce, hash and chain
id are carried along unread.  `NextProofs` is what `sort.Slice` can leave in
front: the comparator compares a height with itself, so heights are not
ordered; the element in front is nevertheless a lowest of its own height,
because the first pivot is compared with every element and only lower ones of
its height go before it (short slices are sorted by insertion, and the proofs
of one height lie together).

`PowPipeline` has the worker (`pc`, `todo`: which agents of a generate or prune
pass are still to come), one store and one signer per agent.  A worker step is
one store's turn, since the worker's lock is not the store's and a signer can
get in between any two.  The signer's steps are the receive from its channel,
each `GetPow` call, and the send.  Blocks are any heights in any order: after a
reconnect two block loops may be alive (see `CoreClient`), which is what the
test at `worker.go:101` is for.

| Model | Code |
|---|---|
| `FirstBlock`, `SkipBlock`, `NewBlock`, `KeepSince` | `worker.Start`, worker.go:88-112 |
| `GenerateFor`, `Generated` | `GeneratePows`, worker.go:185-237 |
| `PruneFor` | `PrunePowStores`, `PrunePows` |
| `HandOver` | the last line of a strategy round |
| `StartInput` | `VegaSigner.Start` |
| `TakeProof`, `RetryLater`, `DropInput` | `GetPowWithRetry`, `GetPow` |
| `SendTx` | the send on `txOutCh`, vega.go:186 |

`TxStream` is what the pipeline promises: inputs of an agent are taken in order
and each is settled once, dropped or delivered, with an id no other delivered
transaction carries.  `PowPipeline` maps to it by `Settled` (accepted minus what
is queued or in hand) and `Delivered` (what the broadcast channel took), and
`StreamSpec` is checked as a property and proved in `PowPipelineProofs`.

`Signers` is the same code seen from the other side, that of the strategies: a
queue for each agent, and a signer that is idle, signing or sending.  The pipeline
maps to it by `SignerOf` (an input in hand is being signed until a proof is in
hand), and `SignersSpec` says that worker, retries and stores show outside only as
these steps.  A signer that took the next input before the last had left, say one
that ran `BuildAndSendTx` in a goroutine of its own, would break it.

### CoreClient

The two loops differ only in where they stand, so `loops[k][p]` counts the
goroutines of kind k at place p.  Reading the flag (`Checks`), setting it (`Sets`)
and the rendezvous (`TakesLoop`, `TakesMain`) are separate steps: the field has no
lock.  The order of the handler's loop body is the function `After`.  `grpc.Dial`
(v1.59.0, `go.mod`) does not block: it fails for the empty address and succeeds
otherwise, and a node that has gone shows in the first call.  The only dial that can
meet the empty address is the main goroutine's second (`MainDialFails`); that the
handler's cannot is the invariant `HandlerDialsTested`.  The handler starts both
loops (vega_core_client.go:232-233) although one alone has failed, so loops pile up;
`LoopsBounded` says by how many. Its bound is reached: one failed call can make four
loops, when the block loop fails during start-up, the main goroutine's own dial then
meets the address that the handler has emptied, and its request comes on top of the
block loop's.  A stale read of an unlocked field equals an earlier read, which the
interleaving has.

### BinanceClient

The opener runs in the start-up goroutine and, for a reconnect, in the handler's
own.  The dial, the subscription and the first read fail with the same effect
and are one step.  `WaitEnds` is the waiter goroutine: it asks for non-zero
prices, not for new ones.  `priced` are the stores
with prices; nothing empties it, so after the first stream the wait ends at
once, on the prices of the stream before.  A handler
that reaches `send` has no way on, and a reader that has given up leaves nobody
to act: the system really may stop, so these configurations do not check
deadlock.

### VegaDataClient

Two openers (`StreamVegaData` at start-up, and the handler's) and any number of
stream goroutines of each kind.  The loads are a counter: a load that fails asks
for a reconnect and the opener goes on with the next.  When the handler's own
opener is the one that asks, the handler waits for it and it for the handler
(`Hangs`): `ReconnectFinishes` is refuted by that, and `Recovers` says that it is
the only way, the process's end aside, in which a stream stays missing.  `TestKills` is
`log.Fatal`: every goroutine ends with the process, so deadlock is not checked.
Kinds stand for independent streams, of which accounts and positions have one
per public key; with several keys a failing `Observe` call also skips the keys
after it, which the model does not have.

### VegaOrders

One market, one store for each own agent in the order of `storesSlice`.  The
network is a log of order events (external); a stream gets a snapshot that
stands for a prefix of the log and then any batches of the rest.  `orderMap`
holds the places in the log of the events in a party's list, so that the list is
the events at these places in their order.  A stream
clears and writes the stores one at a time, and streams of several ages
interleave.  One store's turn (`SetOrders`, then `SetExternalOrders`) is one
step: the two write different maps.  Two own agents in one market are not
symmetric: the earlier store sees the other's orders as external, the later
never does, because the lists are emptied along the pass; no property is stated
about it.  `Quiet`, the premise of the two exactness properties, leaves out an old
stream that lags behind the newest and then dies: the code has no remedy for an
order it brought back but the next reconnect.

### VegaValues

Whatever is not an order: markets, market data, accounts, positions, assets,
liquidity provisions and stake.  `StreamVegaData` runs once more for each
reconnect and cancels no stream of an earlier run, so several openings write
whole values into the same stores.  The kinds do not meet (each has its own
fields), so a behaviour is about one kind.  A cell is one value of the network,
its versions are numbered; `Changes` is the network, and `NumChanges` counts the
pairs of a cell and a change it has had.

A store keeps a version whole, with one exception. `loadLiquidityProvisions`
stores the *pending* update of a provision only (vega_data_client.go:367-369): of a
provision in force that has none it stores nil, and of one that the network does
not list it stores nothing at all, so that an update once stored stays. `Provisions`
says what each version is, `Kept` what a setter is given of it, `Edges` which cells
of a request are answered; `LoadsFresh` is about what is kept, and excepts the
provision that was not listed. No stream brings provisions, and the value's only
live reader is a log line (agent.go:131; what comes after it is not reached).

| Model | Code |
|---|---|
| `Opens` | `StreamVegaData` by `Start` or by the reconnect handler |
| `RequestsOf`, `Answered`, `LoadFails`, `LoadEnds` | `loadMarkets`, `loadMarketData`, `loadAccounts`, `loadPositions`, `loadAssets`, `loadLiquidityProvisions`, `loadStakeToCcyVolume` |
| `SubscriptionsOf`, `Subscribes`, `SubscribeFails` | the `Observe` calls of the three streams, one for each agent or one for all |
| `Receives`, `StreamWrites`, `Ends` | the receive loops |
| `Takes`, `Written`, `Kept` | which store takes what a message brings, and what the setters of `stores.go` are given of it |

The four ways of finding the store (by market, by key, by both in a map of maps, or
all of them) are the cases of `Takes`; `CellOf` is what a slot is meant to hold, and
`OwnDataOnly` compares the two.  `Learned` is what a stream knows after a message:
the newest versions of its cells, and the old ones of the others.  The histories
`begun` and `settled` serve the properties: an opening is settled for another if it
could not write any more when the other began.

### ExposureReduction

Receiver goroutine, timer goroutines and the round share `waitingToReduce` and
`reduceExposureThisCycle` without a lock (aggressive.go:285-302; points.go has
the same).  A timer's two stores are separate steps in either order (the
language's memory model orders neither for the other goroutines).

### Prices, AggressiveQuote, PointsQuote, MartingaleQuote

The arithmetic of a batch, on integers: prices in ticks, sizes in the smallest unit,
offsets in 1/20000, of which every offset in the code is a multiple. `Truncated` is
`decimal.BigInt`.  What binary floats and `DivRound` do beyond the last kept digit
is not modelled.  `SteppedOffset` is the loop over the thresholds, which keeps the
last match; `Reduction`, `Bids` and `Asks` are the orders.  The shares of a ladder
are whole numbers: with a ratio `num/den` the i-th of n is `num^i * den^(n-1-i)`
over their sum (the martingale's begins one power higher), and `Power` is a
recursive function, so that it can be reasoned about.  `Raised` are the orders of a
points ladder that the code raises to the smallest unit.  In `MartingaleQuote` the
probability of trading is left open: the search for the first price may take any
number of steps up to a bound.

### StrategyRound

One strategy, with options of `main.go`, of the tests, or with every switch on. A
round is one step per getter call (`Read`), the decision (`GoesOn`, `Asks`,
`NotArmed`, `FindsArmed`, `Resets`), the send to the metrics server (`Reports`) and
the hand-over to the signer (`Hands`).  Between any two reads the streams may store
anything, so each read returns any value of its set: a volume of one position goes
with the entry price of another.  The batch is a function of what was read.

A round may end in a panic, and the process with it. `FindsNoPrice`: the best prices
are read with `RequireFromString`, which panics on an empty string: that of a store
without market data, or of a message without prices (aggressive.go:315-317,
points.go:188-190, martingale.go:586-589). `AfterSizes`: the sizes are quotients, and
`Div` panics where a reference price is zero, as that of a side without orders is
(aggressive.go:506-507), or where a points ladder's ratio is 1 (points.go:48); the
numbers divided by are `Divisors`. `Panics` is the martingale strategy's fate in its
first round: `SetAgentPubKeyBalance`, called at martingale.go:616, locks a mutex that
no constructor creates.  Its ladder is therefore checked as what the round would have
computed, where its divisors are not zero. `ReducesAgain` promises the next reduction
for as long as no round panics.

The sizes of a points ladder are divided by the middle price (points.go:82, 104).  The
comment above them means another one, the lowest of the side, so that the ladder is not
worth less than the commitment "without having to increase TargetVolCoefficient"
(points.go:74-77; the lines that took it are commented out).  What the code does keep
is `CommitmentCovered`: at its own prices a side is worth `TargetObligationVolume`,
but for rounding, as long as the target volume, with the coefficient, makes up for the
offset of the furthest bid.  For the options of `main.go` the 1.15 makes up for the
initial 12.5%, and not for the 85% that the fourth threshold adds to the bids of a
long position.  `LadderVolume` says what the sizes add up to at the middle price,
from both sides; it is proved, and no run needs it.

`QuotesInsideBook` has premises.  It is about books with two sides that do not
cross (`TwoSided`, for points the best external orders), and about the ladders of the three
strategies: the single order that the martingale strategy adds to neutralise its
position (`Neutrality`, martingale.go:660-712) is not among them.  An ask is truncated
towards the bids, and an offset that is not worth the tick (`Resolves`) does not
keep it off the best bid: where prices are a few ticks, a martingale or points
ask may stand on it.  `BidsPositive` is the other end: whatever offsets add up,
no bid falls to zero.  Its premise is on the options and the prices read: what the
offsets of the furthest order add up to (`Furthest`) leaves at least a tick of every
price that is read (`Leaves`), for the martingale strategy with what Binance's bid is
below Vega's.  Nothing in the code sees to that; `MCStrategyRound` assumes it of
`main.go`'s options and its two-sided books (`RoomForBids`), and TLC evaluates the assumption.

### Registration, MetricsServer, TradingSystem

`Registration` has the tables that the parts build for themselves from one list
of strategies: an agent keeps the *first* of two strategies for a market, the
data client's map the *last* store.  `MetricsServer` has the unbuffered channel as
the sequence of blocked senders, which Go serves in order, the one receiver and
the gauges by label.  Balances are naturals: a sum of what agents own.  `GetBalances`
adds the VEGA account to those of the settlement assets, and so lists it twice for
an agent that settles in VEGA; `BalancesTrue` excepts these agents.  An asset that is
not in its table of two (agent.go:216-219) is skipped by the code and not among
`Assets`, so the property says nothing of it.

| Model | Code |
|---|---|
| `Init`, `WaitsForStreams`, `ServesMetrics` | `main`, from the list of strategies to `metricsServer.Start`, which does not return |
| `BinanceReady`, `VegaLoaded`, `Reloaded` | the two shares of the wait group; loads that fail, together or apart, and what is brought later |
| `StartsSigner`, `LoadsVegaDecimals`, `RunsStrategies` | `Start` of the trading engine for each agent, `LoadVegaDecimals`, `RunStrategies` |
| `RoundPanics` | a round that finds no price or divides by zero (`StrategyRound`) |
| `Reports`, `Hands` | the sends of a round to the metrics server and to the signer |
| `TakesInput`, `Signs`, `Drops`, `Submits`, by the steps of `Signers` | `VegaSigner.Start` and the submit loop |
| `Ticks`, `LoopSends`, `Entries`, `TotalBalance` | `StartMetricsLoop`, `GetBalances`, `ComputeMetrics` |
| `ServerReceives`, `ServerHandles` | `MetricsServer.Start` and `HandleEvent` |

The list of strategies at this commit is empty (every entry of `main.go` is
commented out), which panics in the data client's `Init`
(vega_data_client.go:110: `vegaMarkets[0]`); lists are inputs of the model, and
the empty one is among them.  The exits of the process in `StreamVegaData`
(`log.Fatal`) are in `VegaDataClient` and not repeated here.  The first tick of the
metrics loop comes three seconds after `Start` has begun (engine.go:210) and reads
what `Start` sets; `Start` blocks nowhere in between, and is taken to be through.

A load that fails asks for a reconnect and gives up its own markets, and
`StreamVegaData` tries the other loads and then reports to the wait group
(vega_data_client.go:211-218, 226): that it is through does not say that anything was
loaded. So `held` (a market and its asset are known) and `quoted` (its market data
are) are two sets, and any part of either may be missing. Without the market the
process ends in `LoadVegaDecimals`; without market data the strategies are started,
and the first round ends it, unless a reconnect or the stream brings the data first.
`RunsPrepared` says what a running strategy can rely on, which is Binance's prices,
its market, its decimals and its signer, and that no batch leaves without market
data. The comment at agent.go:96-97 demands more of the start, "after connecting to and
receiving initial data", which the code does not keep.

`NobodyWaitsInVain` is the absence of deadlock, part by part: whoever is blocked (a
strategy that is not started, one in the metrics channel, one behind a full buffer,
the metrics loop) waits for someone who can take a step.  A signer that sends waits
for the core client, which is outside this.  `NeverStuck` is about the same waits,
under fairness: they end.

## 4. The runs

| Run | Shows |
|---|---|
| `pow_safety` | `ProofSpentOnce`, `StoreWindow`, `FreshProofsKept`, `StreamSpec`, `SignersSpec` |
| `pow_spam` | `SpamRule` with two proofs per difficulty and four per block; `EveryInputSettled` with a fair signer |
| `core_reconnect` | `FlagPending`, `Serviced`, `HandlerDialsTested`, `LoopsBounded`, `Recovers` |
| `binance_reconnect` | `OneOwner`, `GivesUpInWindow` |
| `binance_retry` (violated) | a failed reconnect is never tried again |
| `data_reconnect` | `FlagPending`, `Serviced`, `DialsTested`, `Recovers`, streams and loads failing |
| `data_finish` (violated) | a failed load and the handler wait for each other |
| `orders` | `OwnOrdersExact`, `ForeignOrdersKnown` |
| `values` | `OwnDataOnly`, `ValuesExact`, `LoadsFresh`, `BackOnlyByOverlap` for each kind of data |
| `rounds` | quotes (`QuotesOrdered`, `QuotesInsideBook`, `BidsPositive`), reductions (`NoBuyBack`, `ReductionShrinks`, `LadderReduced`), worth of a ladder (`CommitmentCovered`), pacing (`PacedReductions`, `ReducesAgain`) |
| `rounds_mid` (violated) | the points strategy is not priced off Vega's best prices, and without an external offer its middle price is out of any book's range |
| `system` | `WiredAlike`, `RunsPrepared`, `StaleBatchesBounded`, `GaugesOwn`, `BalancesTrue`, `NobodyWaitsInVain`, `NeverStuck` |

The violated runs are the findings of `PROJECT.json`, each with the comment or
message of the code it contradicts.  That the two blocked handlers stay blocked, for
any constants, is proved (section 5).

Seen while modelling, and stated by no run:

- The sizes of a points ladder are computed at the middle price, against the comment
  at points.go:74-77: the bids stand below it, and where the coefficient does not
  make up for their offset, the ladder is worth less than the commitment (without
  its premise, `CommitmentCovered` fails with the options of `main.go`).
- `LoadVegaDecimals` "must be called after connecting to and receiving initial data"
  (agent.go:96-97), but a `loadMarketData` that fails (vega_data_client.go:250-254)
  only asks for a reconnect: the strategies are started without market data, and
  panic unless it comes before their first round (`FindsNoPrice`).
- `GetPow` does not prefer the oldest proof: its comparator compares a height
  with itself.  The spam rule holds nevertheless (`PowStore`).
- When a block loop fails, the handler starts a second submit loop beside the
  first; two loops then drain one channel, and transactions of one key can
  overtake each other, by as many as there are loops (`LoopsBounded`).
- `IsStale` stays false after a reader that gave up without asking; the prices
  of the stores are then those of the stream before.
- A liquidity provision in force is stored as none, and one that is gone is not
  removed (vega_data_client.go:367-369; the exception in `LoadsFresh`).
- An empty side of Vega's book, or a message without a best price, ends the process
  in the next round of any strategy of that market (`AfterSizes`, `FindsNoPrice`).
- Where the keep height wraps, below height 80, a pass empties every store
  (premise of `FreshProofsKept`).
- Two strategies of one agent with one ticker overwrite each other's gauges
  (premise of `GaugesOwn`).
- External orders that ended during an outage stay in the stores after it.
- Two getter calls for the Binance prices can return a bid above the ask; the
  aggressive strategy's own quotes may then cross (premise of `QuotesOrdered`).
- `points.go:331` tests an absolute value for being negative: the reduction of a
  small position is never the whole position.
- `UpdateLiquidityCommitments` returns at the first strategy without a commitment
  (agent.go:124) and goes on to the next at the others (agent.go:134): the calls
  behind that are not reached.
- The cumulative order counter adds all live orders with each event
  (server.go:325).
- Nothing deletes an account from a store (stores.go:148).
- With the initial offsets of the options in `main.go` that exceed the largest
  neutrality offset, the exposure steps of the aggressive strategy have no effect
  (aggressive.go:354).
- Signal handling stands behind `metricsServer.Start` (main.go:452-458) and is not
  reached.

**Bounds.**  `PowPipeline`: two agents (proofs of one must not reach the other),
heights 0..5 with `KeepBlocks` 1 and `Modulus` 8, so that the keep height wraps
(first block 0), prunes and skips (but for the wrap, no proof is old enough to go
before height 5); a channel of one input and two inputs per agent, so that it fills;
one retry.  The spam run has one agent with two strategies (four proofs of a block
in two difficulties) and five inputs, more than a block has proofs.  `CoreClient`,
`VegaDataClient`: three failures, enough for one loop to fail while another's
request is being served and a third waits; two kinds of stream, two loads.
`BinanceClient` needs no bound: its state is finite, with three stores, any of
which can have prices before the others. `VegaOrders`: two own agents and one
foreign party with an order each, two streams; an order begins and ends once, so an
old stream can lag across both. `VegaValues`: two openings (an overlap needs no
more), one change of the network, so that an old value and a new one can meet; three
stores (two agents in one market, one agent in two markets), so that every way of
finding a store may go wrong; all seven kinds; the two assets are symmetric.
One provision appears with an update, one's update comes into force, and one in force
is withdrawn (`TheProvisions`).
`StrategyRound`: seven sets of options, one with a ratio of 1; three Vega books, wide
and narrow, and two with an empty side, and three Binance books, inside, above and below them; no position, a small long, a short and
a large long one, torn in any way; external books that are empty, one-sided, ordered
and crossed; a points ladder for a target so small that its first orders are raised
to the smallest unit (`Ladder`), and one that is not; `MaxInt` 40000 stands for
`math.MaxInt`, above twice every price of the books; two timers (the second is never
needed, which `PacedReductions` shows); 20 steps of the price search take it past
its limit. `TradingSystem`: a buffer of one, which three batches of one agent
overfill; two strategies of one agent, two agents with one ticker, and a strategy
listed twice.  `VegaValues` is bounded in openings and changes, a round may
panic and the process of `TradingSystem` may die, at start-up or by a panic, so these
runs do not check deadlock.

**Fairness.**  A goroutine that can go on does (weak fairness of its steps), and
a rendezvous both sides wait for happens.  `PowPipeline` assumes this of signers
only, not of blocks or strategies; a signer's send needs a submit loop that
receives, which is `CoreClient!Recovers`.  `CoreClient` and `VegaDataClient`
assume that some node answers the handler's tests in the end; of calls nothing
is assumed but (for `Observe`) that they return.  `BinanceClient` assumes strong
fairness of a successful dial, and the retry still fails to come.
`StrategyRound`: the round, the receiver and each timer go on, that is, the
metrics server receives and the signer takes, which `TradingSystem!NeverStuck`
is about.  `TradingSystem`: start-up goes on (prices from Binance arrive), the
signers, the server, the metrics loop and the reconnect go on; a signer's send is
served under strong fairness, since Go serves blocked senders in turn and outages
come in between.  No round, tick or lasting end of outages is assumed,
nor that what a load left out is ever brought.

## 5. The proofs

All for any value of the constants, from the named assumptions of each module.

**`PowPipelineProofs`**: `TypeCorrect`, `SpentOnce`, `SpamRuleKept`, `WindowKept`,
`NewestKept`.  `ProofSpentOnce` is not inductive: that a proof leaves once rests on
ids being drawn once, on a proof in hand being marked, and on marked proofs never
coming back.  The inductive invariant adds: ids in stores and in hands were drawn
(`KnownInv`), what was sent or is in hand is used or pruned (`SpentInv`), and for
the spam rule a ladder (`LadderInv`): the proofs of a height taken so far are the
lowest of those generated, so the n-th to leave has at least the difficulty the rule
asks of the n-th.  `FreshProofsKept` needs `StockInv`: from an agent's generation to
the next block its store has every proof of the last block, because a pass prunes
below that height unless its limit wrapped.

`StreamImplemented`, that `PowPipeline` implements `TxStream`, rests on the
same invariant (the id of a proof in hand is one nobody has sent) and on
`QueueInv`: the numbers in the channel are the last ones accepted, in order, and
the input in hand is the one before them.  `SignersImplemented`, the other
refinement, rests on it too: that a block, a proof taken or missed and a hand-over
each are a step of `Signers` or none (`SignerSteps`), and that what is handed over is
an input of the bound.

**`CoreClientProofs`**: `TypeCorrect`, `FlagSettles`, `LoopsServiced`,
`DialsTested`, `LoopsStayBounded`.  `Serviced` needs `FlagPending` to be inductive:
a loop that gives up has read the set flag, and a set flag means that the handler
has a request coming or is yet to reset it, in either case before it starts the
loops. `LoopsBounded` is not inductive, since the handler starts two loops for one
request. The invariant is a weight (`LoadInv`): a running loop weighs one, one that
is giving up two, for it will be replaced by two; what the handler and the main
goroutine are yet to start weighs what it will weigh.  Every step but a failed call
keeps the sum or lowers it, and a failed call adds one.

**`BinanceClientProofs`**: `TypeCorrect`, `StreamOwned`, `GivesUpOnlyThere`.
`OneOwner` is inductive with the types; the action property needs `WindowInv`:
the reader that has not asked sees the flag set only while the handler is
between opening its stream and resetting the flag.  `SelfSendEndsAll` makes the
finding of `binance_retry` final: by `OneOwner`, when the handler is in its send
nobody else has the stream in hand, so that no step of the client is possible.

**`VegaDataClientProofs`**: `TypeCorrect`, `FlagSettles`, `StreamsServiced`,
`DialsAnswered`.  The dial of an address rests on two more parts: until the
start-up opener has dialled there is no stream and so no request (`StartInv`),
and the handler waits for as long as its own opener is at work (`OpenerInv`);
only an idle or testing handler empties the address.  `HangsForGood` and
`NothingOpened` do for `data_finish` what `SelfSendEndsAll` does there: the handler
and its opener wait for each other for ever, and once the start-up opener is through
no stream is opened again.

**`VegaOrdersProofs`**: `TypeCorrect`, `OwnOrdersKept`, `ForeignOrdersKept`, from
`OrdersAssumption` (no agent is listed twice, own and foreign parties differ,
every order has an owner).  That the stores are exact once the streams are quiet
says nothing of the states before; the invariant says of every state who will mend
what is wrong.  For every open order a store lacks, and every ended order it still
holds, some stream has the event of it still to receive (`Coming`), is clearing or
taking its snapshot, has the event in the list it writes from, or died with no
stream opened since, so that the next one is to come (`Reconnecting`): `AddInv`,
`RemoveInv`, `ForeignInv`.  Under them lie `LogInv` (an order has two events at
most, and the second ends it), `ListInv` (a list that holds an event holds the
later ones of its order too, so that writing it in order leaves the newest
state) and `BornInv` (streams are numbered as they open).  Once the premise makes
all streams quiet none of the four cases is left.

**`VegaValuesProofs`**: `TypeCorrect`, `OwnDataKept`, `BackByOverlapOnly`,
`FreshLoads`, `ExactValues`, from `ValuesAssumption` (the stores are a sequence
without repetition, assets are finitely many, kinds are the seven).  That a message
never reaches a foreign store is `TakesOwn`.  That a value does not go back needs an
invariant over everything still to be written: a load writes only before its
opening's streams are subscribed (`Stages`); no cell is in two subscriptions, since
`SetToSeq` gives each agent once (`SubscriptionCells`); nothing is newer than the
network (`NoneNewer`); what is called settled has ended for good (`SettledEnded`);
and so what an opening has still to write is not older than what it replaces, as
long as it is alone, begun after every other had ended (`NewerToCome`).
`FreshLoads` and `ExactValues` rest on `Arrivals`, inductive beside these.  Its
part `Loads`: of an opening that is alone, what is kept of what the network had when
it began is in the stores, or in the response it is writing, or still to be asked
for, or the network did not list it since.  Its part
`Exact` is `ValuesExact` store by store: a stream that has heard the newest version
and is past a store has left it there, and every other opening is past it too or
could no longer write.  The property itself is not inductive, since it speaks only
of streams that are past every store.

**`StrategyRoundProofs`**: `TypeCorrect`, `ReductionsPaced`, `OrderedQuotes`,
`NeverBuysBack`, `ReductionsShrink`, `InsideTheBook`, `BidsStayPositive`,
`LadderQuotesVolume`, `CommitmentIsCovered`, `LadderReducedExactly`, from `ScaleAssumption` and
`RoundAssumption`: prices are not negative and those of orders not zero, offsets,
thresholds, targets and ratios are naturals, a ladder has an order, the ratio's
denominator is not zero, and the reduction is a fraction. The code checks none of
these of its options or of the network.  The pace rests on `PaceInv`: a timer that
waits has the flag set and is the only one, and what arms a reduction is a timer
that ran out.  The quote theorems rest on `ReadInv` (what a round has read comes
from the sets of its reads) and lemmas on the monotony of `Below` and `Above`.

`InsideTheBook` shows that no offset is negative whichever thresholds are crossed,
that the best of finitely many external orders exists, and what truncation takes
off a price that an offset has moved by a tick, or half a tick from the middle.
`BidsStayPositive` needs that no order is further out than `Furthest`, whatever
thresholds are crossed in whatever order, and that a price moved by no more than
that still has a tick that truncation leaves.

The three ladder theorems are about sums over any number of orders, which the model
writes with `MapThenSumSet`.  That such a sum is what one expects is proved once
(section "Sums and powers"): the recursive function behind the fold exists
(`Stepwise`, `AddsExists`: a least number of elements at which it failed would have
a smaller one), its value does not depend on which element `CHOOSE` picks
(`AddsAll`), and so a sum over `0 .. n` is the sum over `0 .. n - 1` and the last
term (`PrefixSums`).  The library's induction theorems take an operator and cannot
be used; a least counterexample, from the well-foundedness of the naturals, takes
their place. `LadderReducedExactly` is then the invariant of the loop over the
orders: after i of them, what was taken off is the smaller of the amount and the
sizes so far. `LadderQuotesVolume` bounds each order's size by its exact share
(`OneMoreSize`, `SizesFill`) and cancels the sum of the shares. `CommitmentIsCovered`
adds that every price of a side is the middle one times what the furthest offset
leaves of it, or more, but for a tick (`TickBelow`), so that the worth is at least
that part of the volume (`WorthAdds`, `MakesUp`).

**`TradingSystemProofs`**: `TypeCorrect`, `StrategiesPrepared`, `OldBatchesBounded`,
`PartsWiredAlike`, `OwnGauges`, `TrueBalances`, `SomebodyMoves`, from
`SystemAssumption`.  The invariant says what each stage of the start has behind it
(`Prepared`), that a sender stands once in the metrics channel (`Senders`), and that
beyond a signer's buffer each of the agent's strategies stands at most once and not
while it reports or is about to hand over (`Queues`); the bounds then follow by
counting (`OnceBoundsLength`, a pigeonhole argument).  That a strategy past its prices
had market data is `PricesSeen`: only a report takes it there, and what was loaded
stays.  What the gauges show is an
invariant of its own, `Metrics`: a strategy stands in the channel with its own event
(`Channel`), one whose event was taken has it in the server's hands or its gauges
set (`Gauged`), and from the first tick on each agent's balances are shown or on
their way (`Balanced`), so that between two ticks, with nothing on its way, they are
shown, and so is their sum.  `SomebodyMoves` adds `Started`: when main serves, the
server and every agent have been started, no strategy of a running agent is off, and
nothing stands in the channel of a signer that has not been started.

Type correctness of every module is proved and not run.  Model-checked only: the
liveness properties (`EveryInputSettled`, both `Recovers`, `ReducesAgain`,
`NeverStuck`), which the prover's temporal backend does not reach.  The values of
the recursive functions of `Prices` and the ladders enter the proofs through their
defining equations and a least counterexample, never by an induction theorem.

## 6. Not modelled

Signatures, hashes and key derivation (no control depends on them); the latency
ranking of nodes (any node that answers may be chosen); logging and the message
rate counter; the integrals behind the martingale's probability of trading; the
lifetimes of orders and the reported best prices; the cumulative order counter;
the hedger (never started: engine.go:80); the relative return farming strategy
(a stub).  The legacy files at the top of the repository (`signing.go`,
`client.go`, `store.go`, `strategy.go`, `metrics.go`, `config.go`) are compiled and
never called: they are dead code, superseded by the packages modelled here
(among what stays there, `GeneratePow` can return with its mutex held,
signing.go:170).  `IsStale` reads its flag after unlocking (`stores.go:286-288`),
which for a boolean gives the old or the new value.  The
liquidity calls of the strategies are not reached (agent.go:134), so that what a
store holds of a provision (`VegaValues`) decides nothing.
