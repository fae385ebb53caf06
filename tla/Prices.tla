------------------------------- MODULE Prices -------------------------------
(***************************************************************************)
(* The arithmetic the strategies share.  A price is a number of ticks (the *)
(* code's price times priceFactor), a size a number of the market's        *)
(* smallest units (size times positionFactor), and a price times a size is *)
(* Scale for one unit of the quote currency.  An offset is a number of     *)
(* 1 / Unit: every offset written in the code is a multiple of that.       *)
(*                                                                         *)
(* s is the options record of a strategy, r what it read in this round.    *)
(***************************************************************************)
EXTENDS Integers, FiniteSets, FiniteSetsExt

CONSTANT Scale   \* priceFactor * positionFactor

ASSUME ScaleAssumption == Scale \in Nat \ {0}

Unit == 20000

Larger(a, b) == IF a > b THEN a ELSE b
Smaller(a, b) == IF a < b THEN a ELSE b
Size(a) == IF a < 0 THEN -a ELSE a

\* decimal.BigInt rounds towards zero.
Truncated(a, b) == IF a < 0 THEN -((-a) \div b) ELSE a \div b

\* decimal.Pow, for the exponents of a ladder.
Power(b, n) ==
    LET power[k \in 0 .. n] == IF k = 0 THEN 1 ELSE b * power[k - 1]
    IN  power[n]

\* A price moved down, or up, by an offset.
Below(price, offset) == Truncated(price * (Unit - offset), Unit)
Above(price, offset) == Truncated(price * (Unit + offset), Unit)

\* The worth of a position: the volume of one getter call at the entry
\* price of the next one.
Exposure(r) == r.volume * r.entry

\* TargetObligationVolume times TargetVolCoefficient, in quote currency.
TargetVolume(s) == (s.target * s.coefficient) \div 100

\* The thresholds an exposure lies above, each a fraction of base.
Crossed(exposure, base, thresholds, parts) ==
    {i \in DOMAIN thresholds : exposure * parts > thresholds[i] * base}

\* MUTANT: the offsets of all matches are added up.
LastOf_Added(offsets, matches) == MapThenSumSet(LAMBDA i : offsets[i], matches)

\* The loop over the thresholds keeps the value of its last match.
LastOf(offsets, matches) ==
    IF matches = {} THEN 0 ELSE offsets[Max(matches)]

Order(side, price, size) == [side |-> side, price |-> price, size |-> size]

\* A strategy with ReduceExposureAsTaker asks for a reduction in the rounds
\* that see more exposure than its threshold.
Excess(s, r) == s.reduces /\ Size(Exposure(r)) > s.threshold * Scale

PricesOf(orders) == {orders[k].price : k \in DOMAIN orders}
TotalSize(orders) == MapThenSumSet(LAMBDA k : orders[k].size, DOMAIN orders)
=============================================================================
