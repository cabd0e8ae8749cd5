------------------------------ MODULE CarryBook ------------------------------
(***************************************************************************)
(* The carry's book of a symbol, and the arithmetic on it that the plan    *)
(* (carry/plan.py) and the execution (carry/execute.py) share.             *)
(*                                                                         *)
(* Quantities are in spot steps; a perp quantity is a multiple of PerpStep *)
(* of them.  A book is a record with at least the fields status, perp      *)
(* (perp_qty), spot (spot_qty), dust (dust_qty) and pending (pending_spot).*)
(***************************************************************************)
EXTENDS Integers, Functions

CONSTANTS
    PerpStep,       \* m.perp.qty_step
    SpotMin,        \* m.spot.min_qty; less is dust
    FeeMax,         \* the spot fee, in the coin, of one order
    Quantity        \* the perp quantity of a position

ASSUME BookAssumption ==
    /\ PerpStep \in Nat \ {0} /\ SpotMin \in Nat \ {0} /\ FeeMax \in Nat
    /\ Quantity \in Nat \ {0} /\ (Quantity % PerpStep) = 0

Unread == -1                    \* None: not in the action, or not readable
MinOf(a, b) == IF a <= b THEN a ELSE b
MaxOf(a, b) == IF a >= b THEN a ELSE b
FloorTo(x, step) == (x \div step) * step

(* Both legs gone, and no order of unknown fate.                           *)
Gone(b) == b.perp <= 0 /\ b.spot < SpotMin /\ b.pending = {}

(* settle: both legs gone is FLAT, the rest under the minimum stays ours.  *)
Settled(b) ==
    IF Gone(b)
    THEN [b EXCEPT !.status = "FLAT", !.perp = 0, !.spot = 0, !.dust = @ + b.spot]
    ELSE b

(* Mutant: the short is cut to the step above.                             *)
TargetAbove(filled, received, pending) ==
    IF pending # {} THEN 0
    ELSE MinOf(filled, FloorTo(received + PerpStep - 1, PerpStep))

(* What an entry's short is cut to: never above the spot that came in.     *)
Target(filled, received, pending) ==
    IF pending # {} THEN 0 ELSE MinOf(filled, FloorTo(received, PerpStep))

(* The book's dust is ours and in the wallet: it is part of the spot leg.  *)
OwnDust(b, wallet, filled) ==
    MinOf(IF wallet = Unread THEN b.dust ELSE MinOf(b.dust, wallet), filled)

(* What a reduction's perp leg closes: the quantity asked for, all of the  *)
(* position, or of the book when the position cannot be read.              *)
PerpToClose(act, b) ==
    IF act.perp # Unread THEN act.perp
    ELSE IF act.pos # Unread /\ act.pos > 0 THEN act.pos ELSE b.perp

(* Mutant: more closed than the book knew of is a negative rest.           *)
PerpLeftRaw(act, b, closed) ==
    (IF act.perp # Unread \/ act.pos = Unread THEN b.perp ELSE act.pos) - closed

(* What is left of the short after closing of it.                          *)
PerpLeft(act, b, closed) ==
    MaxOf(0, (IF act.perp # Unread \/ act.pos = Unread THEN b.perp ELSE act.pos) - closed)

(* An exit without a perp leg, of a position that is gone.                 *)
Exited(act, b) ==
    Settled(IF "perp" \notin Range(act.legs) /\ act.pos = 0
            THEN [b EXCEPT !.perp = 0] ELSE b)
=============================================================================
