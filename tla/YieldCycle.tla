------------------------------ MODULE YieldCycle ------------------------------
(***************************************************************************)
(* The yield rotation over many cycles (run_yield_cycle.py, executor.py):  *)
(* one whitelisted coin, as deployed, and its Earn products.  A cycle      *)
(* reads the risk state, then products, balance, positions and orders one  *)
(* after the other; takes its decisions from UNWIND or from the language   *)
(* model, which may answer anything; passes them through the gates; and    *)
(* turns them one by one into orders at amounts of its own.  Bybit         *)
(* fills, credits or fails the orders between any two of these steps.      *)
(*                                                                         *)
(* What a cycle reads once and nothing else depends on (the risk-state     *)
(* file, the product list, foreign orders) has no variable: the read may   *)
(* find any of it.  build_plan is pure and looks only at what was read, so *)
(* the model plans in the step that reads the orders.                      *)
(***************************************************************************)
EXTENDS RiskState, SequencesExt, Sums

CONSTANTS
    Products,       \* the coin's FlexibleSaving products
    Funds,          \* the coin, in the wallet at the start
    Prompt,         \* the products Bybit credits within RECENT_STAKE_WINDOW_MS
    Reserve,        \* RESERVE_USD
    Cap,            \* MAX_PER_PRODUCT_USD
    Floor,          \* max(MIN_MOVE_USD, the products' minStakeAmount)
    MaxStakes,      \* bound: stake orders that still matter, at a time
    MaxDecisions,   \* bound: decisions in one answer of the language model
    MaxFaults       \* bound: kills, unread positions, refused or failed redemptions and stakes

ASSUME YieldAssumption ==
    /\ IsFiniteSet(Products) /\ Prompt \subseteq Products /\ Funds \in Nat /\ Reserve \in 0..Funds
    /\ Cap \in Nat \ {0} /\ Floor \in Nat \ {0}
    /\ MaxStakes \in Nat \ {0} /\ MaxDecisions \in Nat /\ MaxFaults \in Nat

VARIABLES
    wallet,     \* Bybit: the idle coin
    position,   \* Bybit: what each product holds
    stakes,     \* Bybit: the stake orders that can still matter
    redeems,    \* Bybit: the redemption under way of each product
    cycle,      \* the running cycle
    faults,     \* how often the world has interfered
    slid        \* history: a stake left the wallet between two reads of a cycle

bybit == <<wallet, position, stakes, redeems>>
vars == <<bybit, cycle, faults, slid>>

Stake == [of : Products, amount : 1..Funds,
          status : {"open", "success", "credited"},     \* credited: success, and in the position
          recent : BOOLEAN,     \* created within RECENT_STAKE_WINDOW_MS of a snapshot
          debited : BOOLEAN,    \* taken from the wallet
          mine : BOOLEAN]       \* sent by the running cycle
None == [status |-> "none"]
Redeem == [amount : 0..Funds, status : {"none", "pending", "other"}]
NoRedeem == [amount |-> 0, status |-> "none"]

Slots == {i \in 1..MaxStakes : stakes[i] # None}
Open == {i \in Slots : stakes[i].status = "open"}
Uncredited == {i \in Slots : stakes[i].status # "credited"}
Amount(S) == Sum([i \in 1..MaxStakes |-> IF i \in S THEN stakes[i].amount ELSE 0], MaxStakes)

\* What the wallet holds once every accepted stake has left it.
Free == wallet - Amount({i \in Slots : ~stakes[i].debited})

Decision == [act : {"STAKE", "REDEEM"}, of : Products]
Sent == [act : {"STAKE", "REDEEM"}, of : Products, amount : 1..Funds]
Nothing == [p \in Products |-> 0]
Off == [pc |-> "off", eff |-> "NO_NEW_POSITIONS", gone |-> {}, idle |-> 0, unread |-> FALSE,
        held |-> Nothing, plan |-> <<>>]

(* Every amount is a natural number, every order one Bybit could hold, and *)
(* the cycle's picture of the world has the shape collect_inputs gives it. *)
YieldTypeOK ==
    /\ wallet \in 0..Funds /\ position \in [Products -> 0..Funds]
    /\ stakes \in [1..MaxStakes -> Stake \cup {None}] /\ redeems \in [Products -> Redeem]
    /\ faults \in 0..MaxFaults /\ slid \in BOOLEAN
    /\ cycle \in [pc : {"off", "positions", "orders", "execute"}, eff : RiskStates,
                  gone : SUBSET Products, idle : 0..Funds, unread : BOOLEAN, held : [Products -> 0..Funds], plan : Seq(Sent)]

Init ==
    /\ wallet = Funds /\ position = Nothing
    /\ stakes = [i \in 1..MaxStakes |-> None] /\ redeems = [p \in Products |-> NoRedeem]
    /\ cycle = Off /\ faults = 0 /\ slid = FALSE

Fault == faults < MaxFaults /\ faults' = faults + 1

-----------------------------------------------------------------------------
(* Bybit.                                                                  *)

\* A stake leaves the wallet when it is accepted, or only when it succeeds.
StakeSucceeds(i) ==
    /\ i \in Open
    /\ stakes' = [stakes EXCEPT ![i].status = "success", ![i].debited = TRUE]
    /\ wallet' = IF stakes[i].debited THEN wallet ELSE wallet - stakes[i].amount
    /\ slid' = (slid \/ (~stakes[i].debited /\ cycle.pc \in {"positions", "orders"}))
    /\ UNCHANGED <<position, redeems, cycle, faults>>

StakeFails(i) ==
    /\ i \in Open
    /\ stakes' = [stakes EXCEPT ![i] = None]
    /\ wallet' = IF stakes[i].debited THEN wallet + stakes[i].amount ELSE wallet
    /\ UNCHANGED <<position, redeems, cycle, faults, slid>>

\* Success may lag behind /v5/earn/position.
StakeCredited(i) ==
    /\ i \in Slots /\ stakes[i].status = "success"
    /\ position' = [position EXCEPT ![stakes[i].of] = @ + stakes[i].amount]
    /\ stakes' = [stakes EXCEPT ![i] = IF @.recent THEN [@ EXCEPT !.status = "credited"] ELSE None]
    /\ UNCHANGED <<wallet, redeems, cycle, faults, slid>>

\* Ages are taken at the cycle's snapshot, before its first read.
StakeAges(i) ==
    /\ i \in Slots /\ stakes[i].recent /\ cycle.pc \notin {"positions", "orders"}
    /\ i \in Uncredited => stakes[i].of \notin Prompt
    /\ stakes' = [stakes EXCEPT ![i] = IF i \in Uncredited THEN [@ EXCEPT !.recent = FALSE] ELSE None]
    /\ UNCHANGED <<wallet, position, redeems, cycle, faults, slid>>

RedeemSucceeds(p) ==
    /\ redeems[p] # NoRedeem
    /\ redeems' = [redeems EXCEPT ![p] = NoRedeem]
    /\ position' = [position EXCEPT ![p] = @ - redeems[p].amount]
    /\ wallet' = wallet + redeems[p].amount
    /\ UNCHANGED <<stakes, cycle, faults, slid>>

RedeemFails(p) ==
    /\ Fault /\ redeems[p] # NoRedeem
    /\ redeems' = [redeems EXCEPT ![p] = NoRedeem]
    /\ UNCHANGED <<wallet, position, stakes, cycle, slid>>

-----------------------------------------------------------------------------
(* The reads.                                                              *)

\* The risk state and the products are read before the balance; nothing
\* that moves here depends on them, so ReadPositions picks what they said.
Begin ==
    /\ cycle.pc = "off"
    /\ \/ cycle' = [Off EXCEPT !.pc = "positions", !.idle = wallet]
       \/ cycle' = [Off EXCEPT !.pc = "positions", !.unread = TRUE]
    /\ stakes' = [i \in DOMAIN stakes |->
                    IF stakes[i] = None THEN None ELSE [stakes[i] EXCEPT !.mine = FALSE]]
    /\ UNCHANGED <<wallet, position, redeems, faults, slid>>

\* The effective risk state, of a record fresh or stale.
RiskRead == {Effective(file, at) : at \in {0, MaxAge + 1},
    file \in {Missing, Unverifiable} \cup {Signed(s, "operator", 0) : s \in RiskStates}}

\* A product that is gone is listed, but not Available.
ReadPositions ==
    /\ cycle.pc = "positions"
    /\ \E eff \in RiskRead, gone \in SUBSET Products :
        cycle' = [cycle EXCEPT !.pc = "orders", !.eff = eff, !.gone = gone, !.held = position]
    /\ UNCHANGED <<bybit, faults, slid>>

\* No positions, no orders this cycle.
PositionsUnread ==
    /\ cycle.pc = "positions" /\ Fault
    /\ cycle' = Off
    /\ UNCHANGED <<bybit, slid>>

-----------------------------------------------------------------------------
(* What the list of orders says.                                           *)

(* Mutant: a success counts no more, credited or not.                      *)
CountedOpen == Open
(* The stakes that count against the cap: open, or a recent success.       *)
Counted == {i \in Slots : i \in Open \/ stakes[i].recent}
Committed(p) == cycle.held[p] + Amount({i \in Counted : stakes[i].of = p})

(* Mutant: a stake only counts against its cap, it blocks nothing.         *)
BlockedByRedeem(foreign) == foreign \/ \E p \in Products : redeems[p] # NoRedeem
(* Any open order of the coin, whatever its type and status, blocks new    *)
(* stakes; so does one that cannot be attributed.                          *)
Blocked(foreign) == foreign \/ Open # {} \/ \E p \in Products : redeems[p] # NoRedeem

(* Mutant: an order nobody can attribute blocks every exit.                *)
RedeemingAny(foreign) == {p \in Products : redeems[p].status = "pending" \/ foreign}
(* Only a redemption known to be pending blocks another of its product.    *)
Redeeming(foreign) == {p \in Products : redeems[p].status = "pending"}

\* The orders as this cycle read them: unread, or with a foreign one or not.
OrdersRead == {[unread |-> TRUE, block |-> FALSE, redeeming |-> {}, committed |-> cycle.held]}
    \cup {[unread |-> FALSE, block |-> Blocked(foreign), redeeming |-> Redeeming(foreign),
           committed |-> [p \in Products |-> Committed(p)]] : foreign \in BOOLEAN}

-----------------------------------------------------------------------------
(* Decisions and gates.                                                    *)

HeldIds == {p \in Products : cycle.held[p] > 0}
RedeemAll(S) == SetToSeq([act : {"REDEEM"}, of : S])

\* What the scan may say: the products that are not gone, each with the least
\* of its own limits.  One it drops is one the answer does not stake.
Scans == [Products \ cycle.gone -> 1..Cap]

(* The risk gate, the data gate and the executor's own.                    *)
MayStake(read) == cycle.eff = "NORMAL" /\ ~cycle.unread /\ ~read.unread

\* What validation lets through: stakes of scanned products, redemptions of
\* held ones, all of them at once; or nothing.
Wanted(scan) == [act : {"STAKE"}, of : scan] \cup [act : {"REDEEM"}, of : HeldIds]

\* The gates drop every stake: what they leave of an answer is a shorter one.
Gated(wanted, read) == {d \in wanted : d.act = "STAKE" => MayStake(read)}
Answers(scan, read) ==
    {RedeemAll(HeldIds)} \cup UNION {[1..n -> Gated(Wanted(scan), read)] : n \in 0..MaxDecisions}

(* Positions in products that are no longer Available, first of all.       *)
Forced == RedeemAll(cycle.gone \cap HeldIds)

-----------------------------------------------------------------------------
(* The plan.                                                               *)

Least(S) == CHOOSE m \in S : \A n \in S : m <= n
StakeAmount(p, idle, read, limit) ==
    Least({idle - Reserve, Cap - read.committed[p], limit[p]})

(* Mutant: the second stake of a cycle is sized on the same idle balance.  *)
IdleAfterUnspent(idle, amount) == idle
IdleAfter(idle, amount) == idle - amount

(* Mutant: an amount below the floor is staked.                            *)
StakeableBelow(p, acc, read, limit) ==
    /\ \A i \in DOMAIN acc.plan : acc.plan[i].act = "STAKE" => acc.plan[i].of # p
    /\ ~read.block
(* Once per product, while nothing is open, at or above the floor.         *)
Stakeable(p, acc, read, limit) ==
    /\ \A i \in DOMAIN acc.plan : acc.plan[i].act = "STAKE" => acc.plan[i].of # p
    /\ ~read.block /\ StakeAmount(p, acc.idle, read, limit) >= Floor

\* The whole position, once, unless its redemption is known to be pending.
Redeemable(p, acc, read) ==
    /\ \A i \in DOMAIN acc.plan : acc.plan[i].act = "REDEEM" => acc.plan[i].of # p
    /\ p \notin read.redeeming /\ cycle.held[p] > 0

Planned(acc, act, p, amount, idle) ==
    [plan |-> Append(acc.plan, [act |-> act, of |-> p, amount |-> amount]), idle |-> idle]
Considered(acc, d, read, limit) ==
    LET amount == StakeAmount(d.of, acc.idle, read, limit) IN
    IF d.act = "STAKE" /\ Stakeable(d.of, acc, read, limit)
    THEN Planned(acc, "STAKE", d.of, amount, IdleAfter(acc.idle, amount))
    ELSE IF d.act = "REDEEM" /\ Redeemable(d.of, acc, read)
    THEN Planned(acc, "REDEEM", d.of, cycle.held[d.of], acc.idle)
    ELSE acc
BuildPlan(decisions, read, limit) ==
    LET acc[i \in 0..Len(decisions)] ==
            IF i = 0 THEN [plan |-> <<>>, idle |-> cycle.idle]
            ELSE Considered(acc[i - 1], decisions[i], read, limit)
    IN acc[Len(decisions)].plan

\* The orders are read last, and nothing after them: however long the
\* language model takes, the plan is the one made now.
Decide ==
    /\ cycle.pc = "orders"
    /\ \E read \in OrdersRead, limit \in Scans :
       \E decisions \in {Forced \o answer : answer \in
                IF cycle.eff = "UNWIND" THEN {RedeemAll(HeldIds)} ELSE Answers(DOMAIN limit, read)} :
        cycle' = [Off EXCEPT !.pc = "execute", !.plan = BuildPlan(decisions, read, limit)]
    /\ UNCHANGED <<bybit, faults, slid>>

-----------------------------------------------------------------------------
(* The orders.                                                             *)

\* Bybit takes a stake the wallet can pay, a redemption the position can.
AcceptStake(p, amount) ==
    /\ Free >= amount
    /\ \E i \in 1..MaxStakes \ Slots, debited \in BOOLEAN :
        /\ \A j \in 1..MaxStakes \ Slots : i <= j
        /\ stakes' = [stakes EXCEPT ![i] = [of |-> p, amount |-> amount, status |-> "open",
                        recent |-> TRUE, debited |-> debited, mine |-> TRUE]]
        /\ wallet' = IF debited THEN wallet - amount ELSE wallet
    /\ UNCHANGED <<position, redeems, faults>>

AcceptRedeem(p, amount) ==
    /\ redeems[p] = NoRedeem /\ amount <= position[p]
    /\ \E status \in {"pending", "other"} :
        redeems' = [redeems EXCEPT ![p] = [amount |-> amount, status |-> status]]
    /\ UNCHANGED <<wallet, position, stakes, faults>>

\* place_order fails and Bybit has nothing: for a reason of Bybit's, or any.
RefuseStake(amount) ==
    /\ UNCHANGED bybit
    /\ IF Free >= amount /\ Slots # 1..MaxStakes THEN Fault ELSE UNCHANGED faults
RefuseRedeem(p, amount) ==
    /\ UNCHANGED bybit
    /\ IF redeems[p] = NoRedeem /\ amount <= position[p] THEN Fault ELSE UNCHANGED faults

Send ==
    /\ cycle.pc = "execute" /\ cycle.plan # <<>>
    /\ LET o == Head(cycle.plan) IN
        IF o.act = "STAKE"
        THEN AcceptStake(o.of, o.amount) \/ RefuseStake(o.amount)
        ELSE AcceptRedeem(o.of, o.amount) \/ RefuseRedeem(o.of, o.amount)
    /\ cycle' = [cycle EXCEPT !.plan = Tail(@)]
    /\ UNCHANGED slid

Finish ==
    /\ cycle.pc = "execute" /\ cycle.plan = <<>>
    /\ cycle' = Off
    /\ UNCHANGED <<bybit, faults, slid>>

\* TimeoutStartSec, a reboot, a crash; also a missing prompt, after the reads.
Killed ==
    /\ cycle.pc # "off" /\ Fault
    /\ cycle' = Off
    /\ UNCHANGED <<bybit, slid>>

-----------------------------------------------------------------------------
Step == Begin \/ ReadPositions \/ PositionsUnread \/ Decide \/ Send \/ Finish

World ==
    \/ Killed
    \/ \E p \in Products : RedeemSucceeds(p) \/ RedeemFails(p)
    \/ \E i \in 1..MaxStakes : StakeSucceeds(i) \/ StakeFails(i) \/ StakeCredited(i) \/ StakeAges(i)

Next == Step \/ World

\* The timer starts the next cycle and the process runs; Bybit ends what it
\* has accepted.  Nothing else is promised.
Fairness ==
    /\ WF_vars(Step)
    /\ \A p \in Products : WF_vars(RedeemSucceeds(p))
    /\ \A i \in 1..MaxStakes : WF_vars(StakeSucceeds(i) \/ StakeFails(i)) /\ WF_vars(StakeCredited(i))

Spec == Init /\ [][Next]_vars /\ Fairness

-----------------------------------------------------------------------------
(* Properties.                                                             *)

(* What a product holds, with every stake on its way to it, stays within   *)
(* MAX_PER_PRODUCT_USD, whatever the reads interleave with, if Bybit shows *)
(* its stakes in the position within the recent-stake window.              *)
Exposure(p) == position[p] + Amount({i \in Uncredited : stakes[i].of = p})
CapKept == \A p \in Prompt : Exposure(p) <= Cap

(* RESERVE_USD stays in the wallet, with everything accepted paid for,     *)
(* unless a stake left the wallet after a cycle had read the balance and   *)
(* before it read the orders.                                              *)
ReserveKeptUnlessSlid == ~slid => Free >= Reserve

(* A stake is sent only when no stake of an earlier cycle is open: one     *)
(* whose answer was lost, or that the last cycle was killed after, is      *)
(* never repeated.                                                         *)
OneCycleStakes == [][\A i \in Slots' \ Slots : \A j \in Open : stakes[j].mine]_vars

(* When every cycle from some time on finds UNWIND, every product is empty *)
(* for good in the end: with the orders or the balance unread for ever,    *)
(* foreign orders open, statuses unknown and stakes still on their way.    *)
UnwindEmpties ==
    <>[](cycle.pc = "orders" => cycle.eff = "UNWIND") =>
        <>[](Uncredited = {} /\ \A p \in Products : position[p] = 0)

(* When every cycle from some time on finds a product not Available, its   *)
(* position is left, whatever the risk state and the language model say.   *)
UnavailableIsLeft == \A p \in Products :
    <>[](cycle.pc = "orders" => p \in cycle.gone) => <>[](position[p] = 0)

(* What is to be left is left in the end: everything under UNWIND, a       *)
(* product that is gone under any state.                                   *)
ExitsEnd == UnwindEmpties /\ UnavailableIsLeft
=============================================================================
