----------------------------- MODULE MCQuantity ------------------------------
(* Every pair of quantities of small limbs.                                 *)
EXTENDS Quantity
=============================================================================
