---------------------------- MODULE MCVegaValues ----------------------------
(***************************************************************************)
(* The instance of VegaValues for TLC: two agents in one market, and one   *)
(* agent in two, so that every way of finding the stores of a message may  *)
(* go wrong.                                                               *)
(***************************************************************************)
EXTENDS VegaValues, TLC

CONSTANTS m1, m2, p1, p2, a1, a2

TheStores == << [market |-> m1, agent |-> p1],
                [market |-> m2, agent |-> p1],
                [market |-> m1, agent |-> p2] >>

\* A provision is made and pends, the update of one comes into force, and one
\* in force is withdrawn.
TheProvisions == [c \in Markets \X Agents |->
    CASE c = <<m1, p1>> -> <<"none", "pending">>
      [] c = <<m2, p1>> -> <<"pending", "current">>
      [] OTHER          -> <<"current", "none">>]

\* Nothing tells the assets apart.
AssetSymmetry == Permutations(Assets)
=============================================================================
