-------------------------- MODULE MCTradingSystem ---------------------------
(***************************************************************************)
(* The instance of TradingSystem for TLC: two strategies of one agent, or  *)
(* of two agents with the same ticker, and one that comes twice; one list  *)
(* is empty, as at this commit.                                            *)
(***************************************************************************)
EXTENDS TradingSystem

CONSTANTS a1, a2, m1, m2

Strategy(a, m, ticker) ==
    [agent |-> a, market |-> m, ticker |-> ticker, asset |-> "USDT"]

TheLists == {
    << >>,
    << Strategy(a1, m1, "BTC"), Strategy(a1, m2, "ETH") >>,
    << Strategy(a1, m1, "BTC"), Strategy(a2, m1, "BTC"),
       Strategy(a1, m1, "BTC") >> }

TheBalances ==
    [a \in {a1, a2} |-> [x \in {"USDT", "VEGA"} |-> IF x = "USDT" /\ a = a1 THEN 2 ELSE 1]]
=============================================================================
