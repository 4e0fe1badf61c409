----------------------------- MODULE MCSalesFloor -----------------------------
(***************************************************************************)
(* Instances of SalesFloor for TLC: what the configurations share.         *)
(***************************************************************************)
EXTENDS SalesFloor, TLC

\* Orders are interchangeable where all of them, or none, may be dated.
OrderSymmetry == Permutations(Orders)
=============================================================================
