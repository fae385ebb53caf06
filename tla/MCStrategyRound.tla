--------------------------- MODULE MCStrategyRound --------------------------
(***************************************************************************)
(* The instances of StrategyRound for TLC: options of src/main.go, those   *)
(* of its test, and one set that turns every switch on.  Prices have two   *)
(* decimals, sizes none.                                                   *)
(***************************************************************************)
EXTENDS StrategyRound

CONSTANTS t1, t2

\* main.go:223-239 and 241-257, and a set with the offset of the defaults
\* and high aggression.
Eth == [kind |-> "aggressive", initialOffset |-> 250, reduces |-> TRUE, threshold |-> 0,
        reductionFactor |-> 150, highAggression |-> FALSE, target |-> 200000,
        coefficient |-> 110]
Inj == [Eth EXCEPT !.initialOffset = 200, !.reductionFactor = 125, !.target = 10000]
Bold == [Inj EXCEPT !.initialOffset = 10, !.highAggression = TRUE]

\* main.go:295-314, and the ladder of points_test.go with reductions, for a
\* target so small that its first orders are raised to the smallest unit.
Eglp == [kind |-> "points", initialOffset |-> 2500, reduces |-> FALSE, threshold |-> 500,
         reductionFactor |-> 120, spacing |-> 80, sizeBase |-> [num |-> 9, den |-> 5],
         orders |-> 1, target |-> 10000, coefficient |-> 115]
Ladder == [Eglp EXCEPT !.initialOffset = 200, !.reduces = TRUE, !.orders = 5,
                       !.target = 500, !.sizeBase = [num |-> 2, den |-> 1]]

\* A ladder of equal orders: nothing in the options forbids a ratio of 1.
Flat == [Ladder EXCEPT !.reduces = FALSE, !.sizeBase = [num |-> 1, den |-> 1]]

\* main.go:59-74.
Btc == [kind |-> "martingale", reduces |-> FALSE, spacing |-> 10, orders |-> 5,
        sizeBase |-> [num |-> 2, den |-> 1], target |-> 10000, coefficient |-> 120]

MCStrategies == {Eth, Inj, Bold, Eglp, Ladder, Flat, Btc}

Book(bid, ask) == [bid |-> bid, ask |-> ask, mid |-> (bid + ask) \div 2]
NoBids == [bid |-> 0, ask |-> 10010, mid |-> 0]
NoAsks == [bid |-> 9990, ask |-> 0, mid |-> 0]
TwoSidedBooks == {Book(9990, 10010), Book(10198, 10202), Book(9900, 10300)}
MCBooks == TwoSidedBooks \cup {NoBids, NoAsks}
MCBinanceBooks == {Book(9995, 10005), Book(10250, 10260), Book(9800, 9810)}

Held(volume, entry) == [volume |-> volume, entry |-> entry]
MCPositions == {Held(0, 0), Held(4, 10000), Held(-30, 10200), Held(60, 10000)}

Buy(price) == [side |-> "buy", price |-> price]
Sell(price) == [side |-> "sell", price |-> price]
MCExternalBooks == {{}, {Buy(9900)}, {Buy(9900), Buy(9800), Sell(10100)}, {Buy(10100), Sell(9900)}}

\* The premise of BidsPositive: the options leave room below every price, of
\* books that have two sides.
ASSUME RoomForBids ==
    \A s \in MCStrategies :
        /\ \A b \in TwoSidedBooks \cup MCBinanceBooks :
               Leaves(b.bid, Furthest(s)) /\ Leaves(b.ask, Furthest(s))
        /\ \A x \in MCExternalBooks : \A o \in x : Leaves(o.price, Furthest(s))
        /\ s.kind = "martingale" =>
               \A b \in TwoSidedBooks, far \in MCBinanceBooks :
                   Leaves(Below(b.mid, 62),
                          Furthest(s) + BinanceBelow([book |-> b, binanceBid |-> far.bid]))
=============================================================================
