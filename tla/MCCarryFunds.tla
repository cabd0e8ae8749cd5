----------------------------- MODULE MCCarryFunds -----------------------------
(***************************************************************************)
(* Two symbols, in the order of the configuration.                         *)
(***************************************************************************)
EXTENDS CarryFunds

MCSymbols == <<"BTC", "ETH">>
=============================================================================
