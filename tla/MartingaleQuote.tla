--------------------------- MODULE MartingaleQuote --------------------------
(***************************************************************************)
(* What the martingale strategy computes from the values of one round: an  *)
(* order that closes its position at the Binance price, and a ladder on    *)
(* each side.  The probability of trading is not computed: steps, how far  *)
(* from the reference price it falls below the maximum, is any positive    *)
(* number.  The first price of a ladder is kept to the tick.               *)
(***************************************************************************)
EXTENDS Prices, Sequences

Thresholds == <<0, 10, 35, 75>>           \* thousandths of the balance
NeutralityOffsets == <<10, 15, 25, 40>>

\* The getter calls of a round, in their order.
Reads == <<"book", "binanceBid", "binanceAsk", "volume", "entry", "balance">>

SteppedOffset(r, exposure) ==
    LastOf(NeutralityOffsets, Crossed(exposure, r.balance * Scale, Thresholds, 1000))

\* Posted to close the position: an order of its whole volume.
Neutrality(r) ==
    IF r.volume = 0 THEN <<>>
    ELSE IF Exposure(r) > 0 THEN <<Order("sell", r.binanceAsk, Size(r.volume))>>
                            ELSE <<Order("buy", r.binanceBid, Size(r.volume))>>

\* The first price at which the probability of trading is low enough, times
\* Unit: the search goes down from the best bid, and up from the best ask.
SearchedBid(r, steps) == r.book.bid * (Unit - 4 * steps)
SearchedAsk(r, steps) == r.book.ask * (Unit + 5 * steps)

\* MUTANT: the price is pulled back to the wrong side of the middle.
FirstBid_WrongSide(r, steps) ==
    IF SearchedBid(r, steps) < r.book.mid * (Unit - 62)
    THEN Above(r.book.mid, 60)
    ELSE Truncated(SearchedBid(r, steps), Unit)

\* Pulled back to 30 basis points from the middle when it is further away
\* than 31.
FirstBid(r, steps) ==
    IF SearchedBid(r, steps) < r.book.mid * (Unit - 62)
    THEN Below(r.book.mid, 60)
    ELSE Truncated(SearchedBid(r, steps), Unit)

FirstAsk(r, steps) ==
    IF SearchedAsk(r, steps) > r.book.mid * (Unit + 62)
    THEN Above(r.book.mid, 60)
    ELSE Truncated(SearchedAsk(r, steps), Unit)

\* A Binance price further out, of a stream that is alive, adds its distance.
BidOffset(r, stale) ==
    SteppedOffset(r, Exposure(r))
    + (IF r.binanceBid * Unit < r.book.bid * (Unit - 10) /\ ~stale
       THEN Unit - (r.binanceBid * Unit) \div r.book.bid ELSE 0)

AskOffset(r, stale) ==
    SteppedOffset(r, -Exposure(r))
    + (IF r.binanceAsk * Unit > r.book.ask * (Unit + 10) /\ ~stale
       THEN (r.binanceAsk * Unit) \div r.book.ask - Unit ELSE 0)

\* Order i has the share b^(i+1) of b^0 + ... + b^n: the ladder leaves the
\* first share out.  Sizes before truncation are numbers of
\* 1 / (2 * Shares * reference).
Share(b, n, i) == Power(b.num, i + 1) * Power(b.den, n - 1 - i)
Shares(b, n) == MapThenSumSet(LAMBDA j : Power(b.num, j) * Power(b.den, n - j), 0 .. n)
FullSize(s, i) == 2 * TargetVolume(s) * Scale * Share(s.sizeBase, s.orders, i)

\* As for the other strategies; a ratio of 1 makes the sum of the shares NaN,
\* which panics in decimal.NewFromFloat.
Divisors(s, r) == {r.book.bid, r.book.ask, s.sizeBase.num - s.sizeBase.den}

\* Half the exposure is taken off the orders nearest to the middle first.
Reducing(s, r, side) ==
    Larger(0, IF side = "buy" THEN Exposure(r) ELSE -Exposure(r)) * Shares(s.sizeBase, s.orders)

\* MUTANT: what an order has taken up is not subtracted for the next one.
LeftToReduce_Whole(s, amount) == [i \in 0 .. s.orders |-> amount]

LeftToReduce(s, amount) ==
    LET left[i \in 0 .. s.orders] ==
            IF i = 0 THEN amount ELSE Larger(0, left[i - 1] - FullSize(s, i - 1))
    IN  left

AdjustedSize(s, amount, i) == Larger(0, FullSize(s, i) - LeftToReduce(s, amount)[i])

LadderSize(s, r, side, reference, i) ==
    Larger(1, AdjustedSize(s, Reducing(s, r, side), i)
              \div (2 * Shares(s.sizeBase, s.orders) * reference))

Bids(s, r, steps, stale) ==
    [k \in 1 .. s.orders |->
        Order("buy", Below(FirstBid(r, steps), (k - 1) * s.spacing + BidOffset(r, stale)),
              LadderSize(s, r, "buy", r.book.bid, k - 1))]

Asks(s, r, steps, stale) ==
    [k \in 1 .. s.orders |->
        Order("sell", Above(FirstAsk(r, steps), (k - 1) * s.spacing + AskOffset(r, stale)),
              LadderSize(s, r, "sell", r.book.ask, k - 1))]
=============================================================================
