---------------------------- MODULE StrategyRound ---------------------------
(***************************************************************************)
(* RunStrategy of one strategy: every tick it reads the stores one getter  *)
(* call at a time, decides whether to reduce, prices a batch, reports it   *)
(* to the metrics channel and hands it to its signer.  The streams write   *)
(* the stores all the time, so each call returns any value of its set.     *)
(* A price that is missing, or that it divides by and is zero, panics, and *)
(* with it the process ends.                                               *)
(***************************************************************************)
EXTENDS ExposureReduction, Prices, Sequences

CONSTANTS Strategies,     \* options records, see MCStrategyRound
          Books,          \* best prices of a market data message
          BinanceBooks,   \* best prices of a Binance message
          Positions,      \* volume and entry price; a missing one is all zero
          ExternalBooks,  \* sets of orders of other parties
          Balances,
          MaxInt,
          MaxSteps        \* price steps of a martingale's search (a bound)

\* Prices are not negative, those of orders not zero; the best price of a side
\* without orders is zero.  A ladder has an order, and a reduction is a
\* fraction of the position.
ASSUME RoundAssumption ==
    /\ \A s \in Strategies :
          /\ s.kind \in {"aggressive", "points", "martingale"}
          /\ s.kind # "martingale" => /\ s.initialOffset \in Nat /\ s.threshold \in Nat
                                     /\ s.reductionFactor \in 0 .. 1000
          /\ s.kind # "aggressive" =>
                /\ s.orders \in Nat \ {0} /\ s.spacing \in Nat
                /\ s.sizeBase.num \in Nat /\ s.sizeBase.den \in Nat \ {0}
          /\ s.target \in Nat /\ s.coefficient \in Nat
    /\ \A b \in Books \cup BinanceBooks : b.bid \in Nat /\ b.ask \in Nat
    /\ \A b \in Books : b.mid \in Nat
    /\ \A p \in Positions : p.volume \in Int /\ p.entry \in Nat
    /\ \A x \in ExternalBooks : IsFiniteSet(x) /\ \A o \in x : o.price \in Nat \ {0}
    /\ MaxInt \in Nat \ {0}

VARIABLES strategy,   \* the options of the strategy
          pc,         \* where its round is
          done,       \* how many of its reads it has made
          r,          \* what they returned
          reducing    \* it builds a reduction in this round

vars == <<strategy, pc, done, r, reducing, reductionVars>>
roundVars == <<strategy, pc, done, r, reducing>>

Aggressive == INSTANCE AggressiveQuote
Points == INSTANCE PointsQuote
Martingale == INSTANCE MartingaleQuote

Reads(kind) ==
    CASE kind = "aggressive" -> Aggressive!Reads
      [] kind = "points"     -> Points!Reads
      [] kind = "martingale" -> Martingale!Reads

Returned(field) ==
    CASE field = "book"       -> Books
      [] field = "binanceBid" -> {b.bid : b \in BinanceBooks}
      [] field = "binanceAsk" -> {b.ask : b \in BinanceBooks}
      [] field = "volume"     -> {p.volume : p \in Positions}
      [] field = "entry"      -> {p.entry : p \in Positions}
      [] field = "external"   -> ExternalBooks
      [] field = "balance"    -> Balances

Fields == {"book", "binanceBid", "binanceAsk", "volume", "entry", "external", "balance"}
NoReads == [f \in Fields |->
                CASE f = "book" -> [bid |-> 0, ask |-> 0, mid |-> 0]
                  [] f = "external" -> {}
                  [] OTHER -> 0]

Init ==
    /\ strategy \in Strategies
    /\ pc = "reading"
    /\ done = 0
    /\ r = NoReads
    /\ reducing = FALSE
    /\ ReductionInit

Read ==
    LET reads == Reads(strategy.kind)
    IN  /\ pc = "reading"
        /\ done < Len(reads)
        /\ \E v \in Returned(reads[done + 1]) : r' = [r EXCEPT ![reads[done + 1]] = v]
        /\ done' = done + 1
        /\ UNCHANGED <<strategy, pc, reducing, reductionVars>>

\* RequireFromString panics on an empty price: that of a store to which no
\* market data has come yet, or of a message without it.
FindsNoPrice ==
    LET reads == Reads(strategy.kind)
    IN  /\ pc = "reading"
        /\ done < Len(reads) /\ reads[done + 1] = "book"
        /\ pc' = "panicked"
        /\ UNCHANGED <<strategy, done, r, reducing, reductionVars>>

ReadAll == pc = "reading" /\ done = Len(Reads(strategy.kind))
Goes(to) == pc' = to /\ UNCHANGED <<strategy, done, r>>

\* A batch is priced and goes on to be reported, if its sizes can be computed.
Divisors == IF strategy.kind = "points" THEN Points!Divisors(strategy, r)
                                        ELSE Aggressive!Divisors(r, reducing)
AfterSizes == IF 0 \in Divisors THEN "panicked" ELSE "reporting"

\* SetAgentPubKeyBalance locks a mutex nobody has created.
Panics ==
    /\ ReadAll
    /\ strategy.kind = "martingale"
    /\ Goes("panicked")
    /\ UNCHANGED <<reducing, reductionVars>>

GoesOn ==
    /\ ReadAll
    /\ strategy.kind # "martingale"
    /\ ~Excess(strategy, r)
    /\ Goes(AfterSizes)
    /\ UNCHANGED <<reducing, reductionVars>>

Asks ==
    /\ ReadAll
    /\ strategy.kind # "martingale"
    /\ Excess(strategy, r)
    /\ Ask
    /\ Goes("testing")
    /\ UNCHANGED reducing

NotArmed ==
    /\ pc = "testing"
    /\ ~reduceExposureThisCycle
    /\ Goes(AfterSizes)
    /\ UNCHANGED <<reducing, reductionVars>>

FindsArmed ==
    /\ pc = "testing"
    /\ reduceExposureThisCycle
    /\ reducing' = TRUE
    /\ Goes("resetting")
    /\ UNCHANGED reductionVars

Resets ==
    /\ pc = "resetting"
    /\ Uses
    /\ Goes(AfterSizes)
    /\ UNCHANGED reducing

\* Blocks until the metrics server receives.
Reports ==
    /\ pc = "reporting"
    /\ Goes("handing")
    /\ UNCHANGED <<reducing, reductionVars>>

\* Blocks while the buffer of the signer is full; then the next tick.
Hands ==
    /\ pc = "handing"
    /\ pc' = "reading"
    /\ done' = 0
    /\ r' = NoReads
    /\ reducing' = FALSE
    /\ UNCHANGED <<strategy, reductionVars>>

Round ==
    \/ Read \/ FindsNoPrice \/ Panics \/ GoesOn \/ Asks \/ NotArmed \/ FindsArmed
    \/ Resets \/ Reports \/ Hands

\* A panic ends the process, and its other goroutines with it.
ReceiverStep == pc # "panicked" /\ Receiver /\ UNCHANGED roundVars
TimerStep(t) == pc # "panicked" /\ Timer(t) /\ UNCHANGED roundVars

Next ==
    \/ Round
    \/ ReceiverStep
    \/ \E t \in Timers : TimerStep(t)

\* The goroutines run, the metrics server receives, the signer takes.
Fairness ==
    /\ WF_vars(Round)
    /\ WF_vars(ReceiverStep)
    /\ \A t \in Timers : WF_vars(TimerStep(t))

Spec == Init /\ [][Next]_vars /\ Fairness
-----------------------------------------------------------------------------
\* The batch of a round, once its prices are set; a martingale's as it would
\* be after its last read, for some probability model and stale flag, and if
\* its sizes can be computed.
Priced(kind) == strategy.kind = kind /\ pc \in {"reporting", "handing"}
WouldPrice == ReadAll /\ 0 \notin Martingale!Divisors(strategy, r)

Reduction == IF strategy.kind = "points" THEN Points!Reduction(strategy, r)
                                         ELSE Aggressive!Reduction(strategy, r)
OurBids == IF strategy.kind = "points" THEN Points!Bids(strategy, r, reducing)
                                       ELSE Aggressive!Bids(strategy, r, reducing)
OurAsks == IF strategy.kind = "points" THEN Points!Asks(strategy, r, reducing)
                                       ELSE Aggressive!Asks(strategy, r, reducing)

TypeOK ==
    /\ strategy \in Strategies
    /\ pc \in {"reading", "testing", "resetting", "reporting", "handing", "panicked"}
    /\ done \in 0 .. Len(Reads(strategy.kind))
    /\ \A k \in 1 .. done : r[Reads(strategy.kind)[k]] \in Returned(Reads(strategy.kind)[k])
    /\ reducing \in BOOLEAN
    /\ receiver \in {"ready", "took"}
    /\ waitingToReduce \in BOOLEAN
    /\ timer \in [Timers -> {"none", "asleep", "armed", "released"}]
    /\ reduceExposureThisCycle \in BOOLEAN
    /\ ranOut \in BOOLEAN

\* The aggressive strategy's bid is never above its own ask, whatever the
\* Vega book, the position and a reduction do to the two prices, as long as
\* the Binance prices it read are ordered.  They come from two getter calls,
\* and a message stored in between can turn them around
\* (aggressive.go:322-323).
QuotesOrdered ==
    Priced("aggressive") /\ r.binanceBid <= r.binanceAsk =>
        \A bid \in PricesOf(OurBids), ask \in PricesOf(OurAsks) : bid <= ask

\* The best prices do not cross, and the middle price is half their sum,
\* rounded down.
TwoSided(book) == book.bid <= book.mid /\ book.mid < book.ask

\* An offset moves a price by a tick or more.
Resolves(price, offset) == price * offset >= Unit

\* A quote is never priced through the book it was computed from: not
\* through Vega's best price on the other side (aggressive, martingale), nor
\* through the best external order on the other side (points), while both
\* sides have one and they do not cross.  An ask is truncated towards the
\* bids: the offset that keeps it off them must be more than a tick, and
\* for points, which adds it to the middle price, half of one.
QuotesInsideBook ==
    /\ Priced("aggressive") /\ TwoSided(r.book) =>
           /\ \A bid \in PricesOf(OurBids) : bid <= r.book.ask
           /\ \A ask \in PricesOf(OurAsks) : ask >= r.book.bid
    /\ Priced("points") =>
           LET bestBid == Points!BestBid(r.external)
               bestAsk == Points!BestAsk(r.external)
           IN  0 < bestBid /\ bestBid < bestAsk /\ bestAsk < MaxInt =>
                   /\ \A bid \in PricesOf(OurBids) : bid < bestAsk
                   /\ Resolves(Points!TwiceMid(r), strategy.initialOffset) =>
                          \A ask \in PricesOf(OurAsks) : ask > bestBid
    /\ strategy.kind = "martingale" /\ WouldPrice /\ TwoSided(r.book) =>
           \A steps \in 1 .. MaxSteps, stale \in BOOLEAN :
               /\ \A bid \in PricesOf(Martingale!Bids(strategy, r, steps, stale)) :
                      bid < r.book.ask
               /\ Resolves(r.book.mid, 60) =>
                      \A ask \in PricesOf(Martingale!Asks(strategy, r, steps, stale)) :
                          ask > r.book.bid

\* What the offsets of a strategy add up to for its furthest order: for points
\* it is the fourth threshold that moves the quote most.
Furthest(s) ==
    CASE s.kind = "aggressive" ->
             Larger(s.initialOffset, Aggressive!NeutralityOffsets[5]) + Aggressive!TakerOffset
      [] s.kind = "points" ->
             s.initialOffset + Points!NeutralityOffsets[4] + Points!TakerOffset
             + (s.orders - 1) * s.spacing
      [] s.kind = "martingale" ->
             Martingale!NeutralityOffsets[4] + (s.orders - 1) * s.spacing

\* An offset leaves a tick or more of a price.
Leaves(price, offset) == price * (Unit - offset) >= Unit

\* How far Binance's bid is below Vega's, as an offset.
BinanceBelow(read) ==
    IF read.binanceBid < read.book.bid
    THEN Unit - (read.binanceBid * Unit) \div read.book.bid
    ELSE 0

\* No bid is zero or negative, however many offsets add up: those of the
\* exposure, also where the fourth exceeds the fifth (points.go:203), of a
\* reduction, of the ladder and of a Binance price further out, as long as
\* the options leave room for the furthest order (those of main.go do, see
\* MCStrategyRound).
BidsPositive ==
    /\ Priced("aggressive")
       /\ (\A price \in {r.book.bid, r.book.ask, r.binanceBid} :
              Leaves(price, Furthest(strategy))) =>
           \A bid \in PricesOf(OurBids) : bid > 0
    /\ Priced("points")
       /\ (\A price \in {Points!BestBid(r.external), Points!BestAsk(r.external)} :
              Leaves(price, Furthest(strategy))) =>
           \A bid \in PricesOf(OurBids) : bid > 0
    /\ strategy.kind = "martingale" /\ WouldPrice
       /\ Leaves(Below(r.book.mid, 62), Furthest(strategy) + BinanceBelow(r)) =>
           \A steps \in 1 .. MaxSteps, stale \in BOOLEAN :
               \A bid \in PricesOf(Martingale!Bids(strategy, r, steps, stale)) : bid > 0

\* In a batch that sells a long position down to some limit price, the
\* aggressive strategy does not bid above that limit, and does not offer
\* below the limit of a reduction that buys (aggressive.go:451-463).
NoBuyBack ==
    Priced("aggressive") /\ reducing =>
        IF r.volume > 0
        THEN \A bid \in PricesOf(OurBids) : bid <= Reduction.price
        ELSE \A ask \in PricesOf(OurAsks) : ask >= Reduction.price

\* A reduction is on the closing side of the volume that was read and not
\* larger than it, although the entry price that decides about its side
\* comes from another getter call (aggressive.go:241-242).
ReductionShrinks ==
    (Priced("aggressive") \/ Priced("points")) /\ reducing =>
        /\ Reduction.size <= Size(r.volume)
        /\ r.volume > 0 => Reduction.side = "sell"
        /\ r.volume < 0 => Reduction.side = "buy"

\* The sizes of a points ladder add up to the target volume at the middle
\* price: at most one smallest unit less for each order, and more only by the
\* orders raised to one (points.go:48-49, 78-97).
LadderVolume ==
    Priced("points") /\ Points!TwiceMid(r) < MaxInt =>
        \A orders \in {OurBids, OurAsks} :
            LET quoted == TotalSize(orders) * Points!TwiceMid(r)
                target == 2 * TargetVolume(strategy) * Scale
                raised == Cardinality(Points!Raised(strategy, r))
            IN  /\ quoted <= target + raised * Points!TwiceMid(r)
                /\ target <= quoted + strategy.orders * Points!TwiceMid(r)

\* What the orders are worth at their own prices, but for a tick and a smallest
\* unit that each was rounded down by.
Worth(orders) ==
    MapThenSumSet(LAMBDA k : (orders[k].price + 1) * (orders[k].size + 1), DOMAIN orders)

\* A side of a points ladder is worth TargetObligationVolume at its own prices,
\* for as long as TargetVolCoefficient makes up for the offset of its furthest
\* bid.  The comment at points.go:74-77 means more: that the sizes are divided
\* by the side's lowest price, and the commitment kept without raising the
\* coefficient; the code divides by the middle one (82, 104).
CommitmentCovered ==
    Priced("points") /\ Points!TwiceMid(r) < MaxInt =>
        LET far == Points!BidOffset(strategy, r, reducing)
                   + (strategy.orders - 1) * strategy.spacing
        IN  /\ far < Unit /\ TargetVolume(strategy) * (Unit - far) >= strategy.target * Unit
                   => Worth(OurBids) >= strategy.target * Scale
            /\ TargetVolume(strategy) >= strategy.target
                   => Worth(OurAsks) >= strategy.target * Scale

\* Filling a martingale ladder from the front, with the reduction amount
\* carried from order to order, takes exactly that amount off its total
\* (martingale.go:355-374).
LadderReduced ==
    strategy.kind = "martingale" /\ ReadAll =>
        \A side \in {"buy", "sell"} :
            LET amount == Martingale!Reducing(strategy, r, side)
                slots == 0 .. strategy.orders - 1
                full == MapThenSumSet(LAMBDA i : Martingale!FullSize(strategy, i), slots)
                left == MapThenSumSet(
                            LAMBDA i : Martingale!AdjustedSize(strategy, amount, i), slots)
            IN  left = Larger(0, full - amount)

\* Reductions are paced by the timers: never two asleep, and between two
\* reductions one runs out, in any order of the unlocked accesses of the
\* three goroutines (aggressive.go:285-302, 443, 482).
PacedReductions ==
    /\ Cardinality(Asleep) <= 1
    /\ pc = "resetting" => ranOut

\* "Since there is no underlying price we can track anywhere we will simply
\* use the vega best bid and ask to determine how we will price our orders."
\* (points.go:147-148): a bid is then nowhere near twice the best offer that
\* was read in the same round.
PricedOffTheBook ==
    Priced("points") /\ r.book.ask > 0 =>
        \A bid \in PricesOf(OurBids) : bid <= 2 * r.book.ask

\* A strategy that keeps seeing too much exposure keeps reducing it: the
\* waiting of a timer always ends, and an armed reduction is always used, for
\* as long as no round panics.
ReducesAgain ==
    \/ <>(pc = "panicked")
    \/ []<>(pc = "resetting")
    \/ []<>(pc = "reporting" /\ ~Excess(strategy, r))
=============================================================================
