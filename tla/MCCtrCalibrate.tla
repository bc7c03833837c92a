--------------------------- MODULE MCCtrCalibrate ---------------------------
(***************************************************************************)
(* A small instance of CtrCalibrate for TLC.                               *)
(***************************************************************************)
EXTENDS CtrCalibrate, TLC

CtrSymmetry == Permutations(Request) \cup Permutations(Instance)
=============================================================================
