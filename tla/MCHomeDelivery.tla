---------------------------- MODULE MCHomeDelivery ----------------------------
(***************************************************************************)
(* Instances of HomeDelivery for TLC.                                      *)
(***************************************************************************)
EXTENDS HomeDelivery, TLC

\* Cash, and transfers that carry a reference.
CashOrTransfer == [method : {"cash"}, ref : {NoRef}] \union [method : {"transfer"}, ref : References]

\* Calls are interchangeable.
AttemptSymmetry == Permutations(Attempts)
=============================================================================
