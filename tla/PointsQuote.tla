----------------------------- MODULE PointsQuote ----------------------------
(***************************************************************************)
(* What the points strategy puts into the batch of one round: at most one  *)
(* reduction and a ladder of orders on each side of the middle of the best *)
(* external prices, the sizes growing geometrically away from it.          *)
(***************************************************************************)
EXTENDS Prices, Sequences

CONSTANT MaxInt   \* stands for math.MaxInt: far above every price of a book

Thresholds == <<1, 2, 3, 4, 5>>                      \* tenths of the target
NeutralityOffsets == <<200, 500, 1000, 17000, 2500>>
TakerOffset == 40

\* The getter calls of a round, in their order.
Reads == <<"external", "book", "volume", "entry">>

Long(r) == Exposure(r) > 0

BestBid(external) ==
    Max({0} \cup {o.price : o \in {x \in external : x.side = "buy"}})
BestAsk(external) ==
    Min({MaxInt} \cup {o.price : o \in {x \in external : x.side = "sell"}})

\* Twice the middle price, so that it is a number of ticks.
TwiceMid(r) == BestBid(r.external) + BestAsk(r.external)

\* The offset of a threshold comes on top of the initial one, and only when
\* it is larger than that.
SteppedOffset(s, exposure) ==
    s.initialOffset
    + LastOf(NeutralityOffsets,
             {i \in Crossed(exposure, s.target * Scale, Thresholds, 10) :
                  NeutralityOffsets[i] > s.initialOffset})

BidOffset(s, r, reducing) ==
    SteppedOffset(s, Exposure(r)) + (IF reducing /\ Long(r) THEN TakerOffset ELSE 0)

AskOffset(s, r, reducing) ==
    SteppedOffset(s, -Exposure(r)) + (IF reducing /\ ~Long(r) THEN TakerOffset ELSE 0)

\* The fraction is never raised to 1: the test for a small exposure compares
\* an absolute value with zero.
Reduction(s, r) ==
    LET size == (Size(r.volume) * s.reductionFactor) \div 1000
    IN  IF Long(r) THEN Order("sell", Below(BestBid(r.external), TakerOffset), size)
                   ELSE Order("buy", Above(BestAsk(r.external), TakerOffset), size)

\* The share of order i of n and the sum of all shares, for a ratio b.num/b.den.
Share(b, n, i) == Power(b.num, i) * Power(b.den, n - 1 - i)
\* MUTANT: the sum of the martingale's ladder, with one more term.
Shares_OneMore(b, n) == MapThenSumSet(LAMBDA j : Power(b.num, j) * Power(b.den, n - j), 0 .. n)

Shares(b, n) == MapThenSumSet(LAMBDA i : Share(b, n, i), 0 .. n - 1)

\* What the sum of the shares and the sizes are divided by: zero panics in
\* decimal.Div, so that the ratio of a ladder is not 1.
Divisors(s, r) == {s.sizeBase.den - s.sizeBase.num, TwiceMid(r)}

\* The orders that would be smaller than the smallest unit.
Raised(s, r) ==
    {i \in 0 .. s.orders - 1 :
        2 * TargetVolume(s) * Scale * Share(s.sizeBase, s.orders, i)
            < Shares(s.sizeBase, s.orders) * TwiceMid(r)}

LadderSize(s, r, i) ==
    Larger(1, (2 * TargetVolume(s) * Scale * Share(s.sizeBase, s.orders, i))
              \div (Shares(s.sizeBase, s.orders) * TwiceMid(r)))

BidPrice(s, r, offset, i) ==
    Truncated(TwiceMid(r) * (Unit - i * s.spacing - offset), 2 * Unit)
AskPrice(s, r, offset, i) ==
    Truncated(TwiceMid(r) * (Unit + i * s.spacing + offset), 2 * Unit)

Bids(s, r, reducing) ==
    [k \in 1 .. s.orders |->
        Order("buy", BidPrice(s, r, BidOffset(s, r, reducing), k - 1), LadderSize(s, r, k - 1))]

Asks(s, r, reducing) ==
    [k \in 1 .. s.orders |->
        Order("sell", AskPrice(s, r, AskOffset(s, r, reducing), k - 1), LadderSize(s, r, k - 1))]
=============================================================================
