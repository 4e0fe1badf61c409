--------------------------- MODULE MCInventoryCount ---------------------------
(***************************************************************************)
(* Instances of InventoryCount for TLC: what the configurations share.     *)
(***************************************************************************)
EXTENDS InventoryCount, TLC

\* Users are interchangeable where none is singled out.
UserSymmetry == Permutations(Users)
=============================================================================
