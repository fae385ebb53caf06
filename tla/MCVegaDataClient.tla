-------------------------- MODULE MCVegaDataClient --------------------------
(***************************************************************************)
(* The instances of VegaDataClient for TLC: two kinds of stream are enough *)
(* for one to fail while the other lives on.                               *)
(***************************************************************************)
EXTENDS VegaDataClient

CONSTANTS k1, k2
=============================================================================
