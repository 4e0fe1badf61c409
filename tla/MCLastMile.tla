------------------------------ MODULE MCLastMile ------------------------------
(***************************************************************************)
(* Instances of LastMile for TLC.                                          *)
(***************************************************************************)
EXTENDS LastMile, TLC

\* Cash, and transfers that carry a reference.
CashOrTransfer == [method : {"cash"}, ref : {NoRef}] \union [method : {"transfer"}, ref : References]

\* Calls are interchangeable.
AttemptSymmetry == Permutations(Attempts)
=============================================================================
