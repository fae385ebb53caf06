---------------------------- MODULE MCCoreClient ----------------------------
(***************************************************************************)
(* The instance of CoreClient for TLC: the bound comes from the cfg.       *)
(***************************************************************************)
EXTENDS CoreClient
=============================================================================
