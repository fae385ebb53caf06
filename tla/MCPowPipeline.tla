--------------------------- MODULE MCPowPipeline ----------------------------
(***************************************************************************)
(* Instances of PowPipeline for TLC: constants only.                       *)
(***************************************************************************)
EXTENDS PowPipeline

CONSTANTS a1, a2

MCOneStrategy == [a \in Agents |-> 1]
MCTwoStrategies == [a \in Agents |-> 2]
=============================================================================
