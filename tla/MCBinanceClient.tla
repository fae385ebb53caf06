--------------------------- MODULE MCBinanceClient ---------------------------
(***************************************************************************)
(* The instance of BinanceClient for TLC: three stores, of which any may   *)
(* have their prices while the others wait for them.                       *)
(***************************************************************************)
EXTENDS BinanceClient

CONSTANTS s1, s2, s3
=============================================================================
