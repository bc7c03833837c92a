-------------------------- MODULE MCWalletSnapshot --------------------------
(***************************************************************************)
(* A small instance of WalletSnapshot for TLC.                             *)
(***************************************************************************)
EXTENDS WalletSnapshot
=============================================================================
