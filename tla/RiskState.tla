------------------------------ MODULE RiskState ------------------------------
(***************************************************************************)
(* The signed risk-state record and what its readers make of it: the       *)
(* operators of risk_state.py, carry/state.py and the two runners.  No     *)
(* state of its own: Supervision, CarryCycle and YieldCycle extend it.     *)
(*                                                                         *)
(* A file is missing, unverifiable (unreadable, malformed, of the other    *)
(* profile, with a bad signature, or read without a key: no reader tells   *)
(* them apart) or a signed record.                                         *)
(***************************************************************************)
EXTENDS Integers

CONSTANTS
    MaxAge,     \* MAX_AGE_MS: a record older than this is stale
    MaxSkew     \* MAX_FUTURE_SKEW_MS: tolerated clock skew

ASSUME AgesAssumption == MaxAge \in Nat /\ MaxSkew \in Nat

RiskStates == {"NORMAL", "NO_NEW_POSITIONS", "UNWIND"}
Sources == {"heartbeat_bootstrap", "heartbeat_renew", "operator"}

Signed(state, source, ts) ==
    [kind |-> "signed", state |-> state, source |-> source, ts |-> ts]
SignedRecord ==
    [kind : {"signed"}, state : RiskStates, source : Sources, ts : Nat]
Missing == [kind |-> "missing"]
Unverifiable == [kind |-> "unverifiable"]
File == SignedRecord \cup {Missing, Unverifiable}

SignatureValid(f) == f.kind = "signed"

Code(f, at) ==
    IF f.kind = "missing" THEN "RISK_STATE_MISSING"
    ELSE IF f.kind = "unverifiable" THEN "RISK_STATE_UNVERIFIABLE"
    ELSE IF at - f.ts < -MaxSkew THEN "RISK_STATE_FUTURE_TS"
    ELSE IF at - f.ts > MaxAge THEN "RISK_STATE_STALE"
    ELSE "OK"

Fresh(f, at) == Code(f, at) = "OK"

(* Mutant: a stale record keeps its state.                                 *)
EffectiveForever(f, at) ==
    IF SignatureValid(f) THEN f.state ELSE "NO_NEW_POSITIONS"

(* Mutant: the verification's code leaks into the state.                   *)
EffectiveLeaksCode(f, at) == IF Fresh(f, at) THEN f.state ELSE Code(f, at)

(* The effective state: as signed while fresh, never laxer once it is not. *)
Effective(f, at) ==
    IF SignatureValid(f) /\ (Fresh(f, at) \/ f.state = "UNWIND")
    THEN f.state
    ELSE "NO_NEW_POSITIONS"

Conservative == [s \in RiskStates |->
    IF s = "NORMAL" THEN 0 ELSE IF s = "NO_NEW_POSITIONS" THEN 1 ELSE 2]

Stricter(a, b) == IF Conservative[a] >= Conservative[b] THEN a ELSE b
=============================================================================
