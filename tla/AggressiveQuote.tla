--------------------------- MODULE AggressiveQuote --------------------------
(***************************************************************************)
(* What the aggressive strategy puts into the batch of one round: at most  *)
(* one reduction, one bid and one ask, priced off Binance and the best     *)
(* prices of the Vega book.                                                *)
(***************************************************************************)
EXTENDS Prices, Sequences

Thresholds == <<1, 2, 3, 4, 5>>               \* tenths of the target
NeutralityOffsets == <<30, 50, 70, 110, 150>>
TakerOffset == 25
SmallExposure == 500                          \* in quote currency

\* The getter calls of a round, in their order.
Reads == <<"book", "binanceBid", "binanceAsk", "volume", "entry">>

Long(r) == Exposure(r) > 0

\* An exposure above a threshold steps the quote back to that threshold's
\* offset, unless the initial offset is at least as far out.
SteppedOffset(s, exposure) ==
    LET further == {i \in Crossed(exposure, s.target * Scale, Thresholds, 10) :
                        NeutralityOffsets[i] > s.initialOffset}
    IN  IF further = {} THEN s.initialOffset ELSE LastOf(NeutralityOffsets, further)

EagerBid(s, r) ==
    /\ s.highAggression
    /\ r.binanceBid * Unit <= r.book.bid * (Unit + 10)
    /\ Exposure(r) <= 0

EagerAsk(s, r) ==
    /\ s.highAggression
    /\ r.binanceAsk * Unit >= r.book.ask * (Unit - 10)
    /\ Exposure(r) >= 0

BidOffset(s, r, reducing) ==
    (IF EagerBid(s, r) THEN 0 ELSE SteppedOffset(s, Exposure(r)))
    + (IF reducing /\ Long(r) THEN TakerOffset ELSE 0)

AskOffset(s, r, reducing) ==
    (IF EagerAsk(s, r) THEN 0 ELSE SteppedOffset(s, -Exposure(r)))
    + (IF reducing /\ ~Long(r) THEN TakerOffset ELSE 0)

\* MUTANT: the reference of the bid is moved up instead of down.
BidReference_Larger(r, reducing) ==
    IF reducing /\ Long(r) THEN r.book.bid ELSE Larger(r.binanceBid, r.book.ask)

\* MUTANT: a reduction leaves the reference of the bid where it was.
BidReference_Kept(r, reducing) == Smaller(r.binanceBid, r.book.ask)

BidReference(r, reducing) ==
    IF reducing /\ Long(r) THEN r.book.bid ELSE Smaller(r.binanceBid, r.book.ask)

AskReference(r, reducing) ==
    IF reducing /\ ~Long(r) THEN r.book.ask ELSE Larger(r.binanceAsk, r.book.bid)

\* The sizes are quotients: a reference of zero, which an empty side of the
\* book has, panics in decimal.Div.
Divisors(r, reducing) == {BidReference(r, reducing), AskReference(r, reducing)}

\* MUTANT: the fraction is read as a percentage.
Reduction_Percent(s, r) ==
    LET part == IF Size(Exposure(r)) < SmallExposure * Scale THEN 100 ELSE s.reductionFactor
        size == (Size(r.volume) * part) \div 100
    IN  IF Long(r) THEN Order("sell", Below(r.book.bid, TakerOffset), size)
                   ELSE Order("buy", Above(r.book.ask, TakerOffset), size)

\* Takes from the other side of the book, at most an eighth of a percent
\* through its best price; a small position is closed at once.
Reduction(s, r) ==
    LET part == IF Size(Exposure(r)) < SmallExposure * Scale THEN 1000 ELSE s.reductionFactor
        size == (Size(r.volume) * part) \div 1000
    IN  IF Long(r) THEN Order("sell", Below(r.book.bid, TakerOffset), size)
                   ELSE Order("buy", Above(r.book.ask, TakerOffset), size)

Bids(s, r, reducing) ==
    LET reference == BidReference(r, reducing)
    IN  <<Order("buy", Below(reference, BidOffset(s, r, reducing)),
                (TargetVolume(s) * Scale) \div reference)>>

Asks(s, r, reducing) ==
    LET reference == AskReference(r, reducing)
    IN  <<Order("sell", Above(reference, AskOffset(s, r, reducing)),
                (TargetVolume(s) * Scale) \div reference)>>
=============================================================================
