---------------------------- MODULE MCVegaOrders ----------------------------
(***************************************************************************)
(* The instances of VegaOrders for TLC: two own agents, so that one store  *)
(* is visited before the other, one foreign party, one order each.         *)
(***************************************************************************)
EXTENDS VegaOrders

CONSTANTS p1, p2, f1, o1, o2, o3

MCAgents == <<p1, p2>>
MCOwner == [o \in Orders |-> IF o = o1 THEN p1 ELSE IF o = o2 THEN p2 ELSE f1]
=============================================================================
