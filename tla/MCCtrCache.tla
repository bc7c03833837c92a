----------------------------- MODULE MCCtrCache -----------------------------
(***************************************************************************)
(* Small instances of CtrCache for TLC.                                    *)
(***************************************************************************)
EXTENDS CtrCache, TLC

CtrSymmetry == Permutations(Request) \cup Permutations(Instance)
=============================================================================
