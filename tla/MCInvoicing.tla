------------------------------ MODULE MCInvoicing ------------------------------
(***************************************************************************)
(* Instances of Invoicing for TLC.                                         *)
(***************************************************************************)
EXTENDS Invoicing

\* All the orders are of the same customer.
OneCustomer == [o \in Orders |-> CHOOSE k \in Customers : TRUE]
=============================================================================
