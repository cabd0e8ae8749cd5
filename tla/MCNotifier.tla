------------------------------ MODULE MCNotifier ------------------------------
(***************************************************************************)
(* A cycle with a channel that waits for a second observation, and a       *)
(* heartbeat with one that does not.                                       *)
(***************************************************************************)
EXTENDS Notifier

CycleAndHeartbeat ==
    [p \in Procs |-> IF p = "cycle" THEN <<"risk_state">> ELSE <<"heartbeat">>]
StateConfirmCycles == [c \in Channels |-> IF c = "risk_state" THEN 2 ELSE 1]
=============================================================================
