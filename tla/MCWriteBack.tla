----------------------------- MODULE MCWriteBack -----------------------------
(***************************************************************************)
(* An instance of WriteBack: two users, one token, amounts that meet the   *)
(* largest quantity.                                                       *)
(***************************************************************************)
EXTENDS WriteBack

CONSTANTS alice, bob, icp, none

MCUsers == {alice, bob}
MCTokens == {icp}
MCAmounts == 0 .. 1
=============================================================================
