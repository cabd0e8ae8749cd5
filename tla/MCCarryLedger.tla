----------------------------- MODULE MCCarryLedger ----------------------------
(***************************************************************************)
(* A rate that pays the short and one that charges it.                     *)
(***************************************************************************)
EXTENDS CarryLedger

SignedRates == {-1, 1}
=============================================================================
