------------------------------ MODULE CarryCycle ------------------------------
(***************************************************************************)
(* The carry over many cycles, for one symbol: what the system remembers   *)
(* (carry/book.py) against what the exchange holds.  A cycle               *)
(* (run_carry_cycle.py) loads the book and settles the orders of unknown   *)
(* fate, reads the exchange and plans (carry/plan.py), executes leg by leg *)
(* (carry/execute.py, each leg one step with the outcomes CarryExec shows  *)
(* order by order), and saves the book.  It may be killed between any two  *)
(* of these; the book may be lost, the exchange may deleverage, foreign    *)
(* coins arrive, any read may fail.                                        *)
(***************************************************************************)
EXTENDS CarryBook, Sequences, Sums

CONSTANTS
    DriftPct,           \* MAX_HEDGE_DRIFT_PCT
    UnreadableExit,     \* UNREADABLE_EXIT_CYCLES
    Deposit,            \* bound: foreign coins that may arrive, once
    MaxPending,         \* bound: orders of unknown fate at a time
    MaxFaults           \* bound: deposits, deleveragings, lost books, kills, adoptions,
                        \* legs with an order that stood but was taken for refused

ASSUME CycleAssumption ==
    /\ DriftPct \in Nat /\ UnreadableExit \in Nat \ {0}
    /\ Deposit \in Nat /\ MaxPending \in Nat /\ MaxFaults \in Nat

VARIABLES
    short,      \* the exchange: our short perp
    wallet,     \* the exchange: the coin in the wallet
    fates,      \* the exchange: what the orders in the journal have traded
    stored,     \* carry_book.json, the symbol's entry
    cycle,      \* the running cycle
    faults,     \* how often the world has interfered
    calm,       \* from now on: UNWIND, every read and every order succeeds
    foreign,    \* history: the coins that are not ours
    blind,      \* history: a sale that did not reach the book
    doubled,    \* history: coins that an adoption has counted twice
    lost,       \* history: the hedge there was when the book was lost
    adopted     \* history: the operator has had it put in the book again

exchange == <<short, wallet, fates>>
history == <<foreign, blind, doubled, lost, adopted>>
world == <<faults, calm>>
vars == <<exchange, stored, cycle, world, history>>

Entry == [side : {"Buy", "Sell"}, id : 1..MaxPending]
Book == [status : {"FLAT", "OPEN"}, perp : Nat, spot : Nat, dust : Nat,
         pending : SUBSET Entry, unread : 0..UnreadableExit]
Legs == {<<>>, <<"spot">>, <<"perp">>, <<"spot", "perp">>, <<"perp", "spot">>}
Action == [kind : {"NONE", "ENTER", "EXIT", "TRIM", "REBALANCE"}, legs : Legs,
           perp : Nat \cup {Unread}, spot : Nat, pos : Nat \cup {Unread}]

(* known: the account was read, and neither the world nor an entry that    *)
(* was taken for refused has changed it since; good: all could be read and *)
(* traded; sold: coins of ours have left the wallet.                       *)
Cycle == [pc : {"idle", "plan", "enter", "buy", "cut", "leg", "save"},
          book : Book, act : Action, legs : Legs, entered : Nat, excess : Nat,
          escalate : BOOLEAN, good : BOOLEAN, known : BOOLEAN, sold : BOOLEAN]

Empty == [status |-> "FLAT", perp |-> 0, spot |-> 0, dust |-> 0, pending |-> {}, unread |-> 0]
NoAction == [kind |-> "NONE", legs |-> <<>>, perp |-> Unread, spot |-> 0, pos |-> Unread]
Idle == [pc |-> "idle", book |-> Empty, act |-> NoAction, legs |-> <<>>,
         entered |-> 0, excess |-> 0, escalate |-> FALSE,
         good |-> TRUE, known |-> FALSE, sold |-> FALSE]
NoFates == [e \in {} |-> 0]

(* Every quantity is a natural number, and the journal of the saved and of *)
(* the running book names only orders the exchange can be asked about.     *)
CycleTypeOK ==
    /\ short \in Nat /\ wallet \in Nat /\ foreign \in Nat /\ lost \in Nat
    /\ DOMAIN fates \subseteq Entry /\ fates \in [DOMAIN fates -> Nat]
    /\ stored \in Book /\ stored.pending \subseteq DOMAIN fates
    /\ faults \in 0..MaxFaults /\ calm \in BOOLEAN /\ blind \in BOOLEAN /\ doubled \in BOOLEAN
    /\ adopted \in BOOLEAN
    /\ cycle \in Cycle
    /\ cycle.book.pending \subseteq DOMAIN fates

Init ==
    /\ short = 0 /\ wallet = 0 /\ fates = NoFates
    /\ stored = Empty /\ cycle = Idle /\ calm = FALSE /\ faults = 0
    /\ foreign = 0 /\ blind = FALSE /\ doubled = FALSE /\ lost = 0 /\ adopted = FALSE

-----------------------------------------------------------------------------
(* The world.                                                              *)

Interferes == ~calm /\ faults < MaxFaults /\ faults' = faults + 1 /\ UNCHANGED calm

(* Foreign coins arrive.                                                   *)
Arrive ==
    /\ Interferes /\ foreign = 0
    /\ wallet' = wallet + Deposit
    /\ foreign' = Deposit
    /\ cycle' = [cycle EXCEPT !.good = FALSE, !.known = FALSE]
    /\ UNCHANGED <<short, fates, stored, blind, doubled, lost, adopted>>

(* Auto-deleveraging takes a part of the position away.                    *)
Deleverage ==
    /\ Interferes /\ short >= PerpStep
    /\ short' = short - PerpStep
    /\ lost' = 0 /\ adopted' = FALSE
    /\ cycle' = [cycle EXCEPT !.good = FALSE, !.known = FALSE]
    /\ UNCHANGED <<wallet, fates, stored, foreign, blind, doubled>>

(* The book's file is gone, damaged or signed with another key: an empty   *)
(* book to the next cycle.                                                 *)
LoseBook ==
    /\ Interferes /\ cycle.pc = "idle"
    /\ stored' = Empty
    /\ fates' = NoFates
    /\ lost' = IF wallet > SpotMin THEN MinOf(short, wallet) ELSE 0
    /\ adopted' = FALSE
    /\ UNCHANGED <<short, wallet, cycle, foreign, blind, doubled>>

(* From here on every read and every order succeeds, and all is UNWIND.    *)
Calm ==
    /\ ~calm /\ cycle.pc = "idle" /\ calm' = TRUE
    /\ UNCHANGED <<exchange, stored, cycle, faults, history>>

-----------------------------------------------------------------------------
(* Start: the book, and the orders of unknown fate.                         *)

(* What the orders of one side have traded, their fates being f.           *)
Traded(f, side, orders) ==
    LET of(e) == IF e \in orders THEN f[e] ELSE 0
    IN  Sum([i \in 1..MaxPending |-> of([side |-> side, id |-> i])], MaxPending)

(* resolve_pending: an order read becomes, or stops being, the book's; one *)
(* that cannot be read stays.                                              *)
Resolved(b, read) ==
    LET spot == MaxOf(0, b.spot + Traded(fates, "Buy", read)
                                - Traded(fates, "Sell", read))
    IN IF b.pending = {} THEN b
       ELSE [b EXCEPT !.spot = spot, !.pending = @ \ read,
                      !.status = IF spot > 0 THEN "OPEN" ELSE @]

Begin ==
    /\ cycle.pc = "idle"
    /\ \E read \in SUBSET stored.pending :
          /\ calm => read = stored.pending
          /\ cycle' = [Idle EXCEPT !.pc = "plan", !.book = Resolved(stored, read),
                                   !.good = (read = stored.pending)]
    /\ UNCHANGED <<exchange, stored, world, history>>

(* Past the last leg, only the book and what was seen are still used.      *)
Done(c) == [c EXCEPT !.pc = "save", !.act = NoAction, !.legs = <<>>, !.entered = 0, !.excess = 0]

-----------------------------------------------------------------------------
(* The plan, from a snapshot s: the position and the wallet, if they could *)
(* be read, whether the market could; the operator's request; what all     *)
(* else says: the risk state, the latch in it, to "unwind" (Supervision;   *)
(* NO_NEW_POSITIONS is a NORMAL that does not enter), the funding to       *)
(* "enter" or "leave", the market to "exit", the margin an "emergency" or  *)
(* to "reduce".                                                            *)

Dust(s) == IF s.market THEN SpotMin ELSE 0
Known(s) == s.pos # Unread /\ s.wallet # Unread

(* What can be sold: the book's spot, capped by what the wallet holds.     *)
Held(b) == IF b.status = "OPEN" THEN b.spot ELSE 0

(* Mutant: everything in the wallet.                                       *)
SpotOfWallet(b, s) == s.wallet

Spot(b, s) == IF s.wallet = Unread THEN Unread ELSE MinOf(s.wallet, Held(b))

(* Cycles in a row an open position could not be read.                     *)
Counted(b, s) ==
    IF b.status # "OPEN" THEN b
    ELSE [b EXCEPT !.unread = IF s.pos = Unread THEN MinOf(@ + 1, UnreadableExit) ELSE 0]

(* Mutant: a wallet that cannot be read holds nothing.                     *)
LostBookReadable(b, s) == b.status # "OPEN" /\ s.pos > 0 /\ s.wallet > Dust(s)

(* A short the book does not hold, next to spot in the wallet, or a wallet *)
(* that cannot be read.                                                    *)
LostBook(b, s) ==
    /\ b.status # "OPEN" /\ s.pos > 0
    /\ s.wallet = Unread \/ s.wallet > Dust(s)

Do(kind, legs, perp, spot, s) ==
    [kind |-> kind, legs |-> legs, perp |-> perp, spot |-> MaxOf(spot, 0), pos |-> s.pos]
Result(act, b) == [act |-> act, book |-> b]

(* Only a short beyond the wallet's spot is closed, until the operator     *)
(* lets the rest into the book.                                            *)
Mismatch(b, s) ==
    LET held == MinOf(s.pos, MaxOf(s.wallet, 0))
        excess == IF s.market THEN FloorTo(s.pos - held, PerpStep) ELSE 0
    IN Result(IF excess > 0 /\ s.wallet # Unread
              THEN Do("REBALANCE", <<"perp">>, excess, 0, s) ELSE NoAction,
              IF s.adopt THEN [b EXCEPT !.status = "OPEN", !.perp = s.pos, !.spot = held] ELSE b)

(* Mutant: a short of nobody's is left alone.                              *)
NotAdopted(b, s) == b

(* A short beside no spot at all is taken into the book, to be closed.     *)
Adopted(b, s) ==
    IF b.status # "OPEN" /\ s.pos > 0
    THEN [b EXCEPT !.status = "OPEN", !.perp = s.pos, !.spot = 0] ELSE b

(* A leg without the other.                                                *)
Orphan(b, s) ==
    /\ b.status = "OPEN" /\ Known(s)
    /\ \/ s.pos = 0 /\ Spot(b, s) > Dust(s)
       \/ s.pos > 0 /\ Spot(b, s) < Dust(s)

(* A position that looks gone.                                             *)
Reconciled(b, s) ==
    IF b.status = "OPEN" /\ Known(s) /\ s.pos = 0
    THEN [Empty EXCEPT !.dust = b.dust + Spot(b, s)] ELSE b

Drifted(b, s) == LET d == Spot(b, s) - s.pos IN MaxOf(d, -d) * 100 > DriftPct * s.pos

(* The risk reductions of a position that is read.                         *)
Reduction(b, s) ==
    LET spot == Spot(b, s)
        trim == FloorTo(s.pos \div 2, PerpStep)
    IN IF Drifted(b, s)
       THEN IF spot > s.pos THEN Do("REBALANCE", <<"spot">>, Unread, spot - s.pos, s)
            ELSE Do("REBALANCE", <<"perp">>, FloorTo(s.pos - spot, PerpStep), 0, s)
       ELSE IF s.say = "reduce" /\ trim > 0
       THEN Do("TRIM", <<"spot", "perp">>, trim, MinOf(trim, spot), s)
       ELSE NoAction

(* Mutant: a position that cannot be read is none.                         *)
MayEnterUnread(b, r, s) ==
    /\ s.say = "enter"
    /\ s.wallet # Unread /\ s.market
    /\ r.pending = {}
    /\ s.wallet - (Held(b) + b.dust) <= Dust(s)

MayEnter(b, r, s) ==
    /\ s.say = "enter"
    /\ Known(s) /\ s.market
    /\ r.pending = {}
    /\ s.wallet - (Held(b) + b.dust) <= Dust(s)

PlanOf(book, s) ==
    LET c == Counted(book, s)
        b == Adopted(c, s)
        r == Reconciled(b, s)
        leave == IF s.say = "emergency" THEN <<"perp", "spot">> ELSE <<"spot", "perp">>
    IN CASE c.status = "OPEN" /\ s.pos = Unread /\ c.unread >= UnreadableExit
            -> Result(Do("EXIT", <<"spot", "perp">>, IF c.perp > 0 THEN c.perp ELSE Unread,
                         IF s.wallet = Unread THEN c.spot ELSE Spot(c, s), s), c)
         [] LostBook(c, s) -> Mismatch(c, s)
         [] ~LostBook(c, s) /\ Orphan(b, s)
            -> Result(Do("EXIT", IF s.pos = 0 THEN <<"spot">> ELSE <<"perp">>, Unread,
                         IF s.pos = 0 THEN Spot(b, s) ELSE 0, s), b)
         [] OTHER
            -> IF r.status = "OPEN"
               THEN IF s.say \in {"unwind", "exit", "emergency"}
                    THEN Result(Do("EXIT", leave, Unread, Spot(r, s), s), r)
                    ELSE IF Known(s) /\ s.market /\ Reduction(r, s) # NoAction
                    THEN Result(Reduction(r, s), r)
                    ELSE IF s.market /\ s.say = "leave"
                    THEN Result(Do("EXIT", <<"spot", "perp">>, Unread, Spot(r, s), s), r)
                    ELSE Result(NoAction, r)
               ELSE IF MayEnter(b, r, s)
               THEN Result(Do("ENTER", <<>>, Quantity, MinOf(r.dust, s.wallet), s), r)
               ELSE Result(NoAction, r)

Snapshots ==
    {s \in [pos : {short, Unread}, wallet : {wallet, Unread}, market : BOOLEAN,
            adopt : BOOLEAN,
            say : {"", "enter", "leave", "unwind", "exit", "emergency", "reduce"}] :
        /\ s.say \in {"exit", "reduce"} => s.market \/ s.wallet # Unread
        /\ s.say = "emergency" => s.wallet # Unread
        /\ s.adopt => faults < MaxFaults
        /\ calm => Known(s) /\ s.market /\ s.say = "unwind" /\ ~s.adopt}

(* A hedge in the book is given up for a reason: then it is not `lost` any *)
(* more.  Out of the book, there is none (LostHedgeKept).                  *)
GivenUp(b, s) ==
    b.status = "OPEN" /\ (s.say \notin {"", "enter"} \/ s.pos = Unread)

Plan ==
    /\ cycle.pc = "plan"
    /\ \E s \in Snapshots :
          LET p == PlanOf(cycle.book, s)
              adopting == s.adopt /\ LostBook(cycle.book, s)
              nothing == p.act.kind = "NONE"
              planned == [cycle EXCEPT
                    !.pc = IF p.act.kind = "ENTER" THEN "enter" ELSE "leg",
                    !.book = p.book, !.act = p.act, !.legs = p.act.legs,
                    !.escalate = \/ LostBook(cycle.book, s) /\ ~s.adopt
                                 \/ ~nothing /\ ~s.market,
                    !.good = @ /\ Known(s) /\ s.market, !.known = Known(s) /\ s.market]
          IN /\ cycle' = IF nothing \/ ~s.market THEN Done(planned) ELSE planned
             /\ IF GivenUp(cycle.book, s) THEN lost' = 0 /\ adopted' = FALSE
                ELSE lost' = lost /\ adopted' = (adopted \/ (adopting /\ lost > 0))
             /\ foreign' = IF adopting THEN MaxOf(0, wallet - p.book.spot - p.book.dust)
                           ELSE foreign
             /\ doubled' = (doubled \/ (adopting /\ cycle.book.dust > 0))
             /\ faults' = IF adopting THEN faults + 1 ELSE faults
    /\ UNCHANGED <<exchange, stored, calm, blind>>

-----------------------------------------------------------------------------
(* The legs.  Each is one step; what an order really did, and what the run *)
(* has seen of it, may differ: its fate is unknown, or it was sent again   *)
(* and refused though the first one stood (`Disown' of CarryExec).         *)

Steps(q) == {n * PerpStep : n \in 0..q \div PerpStep}

(* Whether an order was taken for refused that has traded.                 *)
Disowned(so) == IF so THEN Interferes ELSE UNCHANGED world

(* An order of unknown fate is journaled.                                  *)
FreeIds == {i \in 1..MaxPending : \A e \in DOMAIN fates : e.id # i}
Room == FreeIds # {}
NewEntry(side) == [side |-> side, id |-> CHOOSE i \in FreeIds : TRUE]
Fated(entry, traded) == [e \in DOMAIN fates \cup {entry} |-> IF e = entry THEN traded ELSE fates[e]]
Journaled(b, entries) == [b EXCEPT !.pending = @ \cup entries]

(* A symbol that is FLAT again starts counting again.                      *)
Fresh(b) == IF b.status = "FLAT" THEN [b EXCEPT !.unread = 0] ELSE b

(* Entry: the perp.  Refused, or not filled; filled in part or whole;      *)
(* filled and taken for refused, which ends the entry unsaid; or of        *)
(* unknown fate and closed again, which may come before it is filled.      *)
EnterPerp ==
    /\ cycle.pc = "enter"
    /\ \/ /\ cycle' = Done(cycle)
          /\ UNCHANGED short
          /\ Disowned(FALSE)
       \/ /\ \E filled \in Steps(cycle.act.perp) \ {0} : short' = short + filled
          /\ cycle' = Done([cycle EXCEPT !.good = FALSE, !.known = FALSE])
          /\ Disowned(TRUE)
       \/ \E filled \in Steps(cycle.act.perp) \ {0} :
             /\ short' = short + filled
             /\ LET own == MinOf(cycle.act.spot, filled)
                IN cycle' = [cycle EXCEPT !.pc = "buy", !.entered = filled,
                                !.book = [cycle.book EXCEPT !.status = "OPEN", !.perp = filled,
                                                   !.spot = own, !.dust = @ - own]]
          /\ Disowned(FALSE)
       \/ /\ ~calm /\ Disowned(FALSE)
          /\ \E left \in Steps(cycle.act.perp), ok \in BOOLEAN :
                /\ short' = short + left
                /\ cycle' = Done([cycle EXCEPT !.escalate = TRUE, !.good = FALSE,
                      !.book = Fresh(Settled([@ EXCEPT
                                        !.perp = IF ok THEN 0 ELSE cycle.act.perp]))])
    /\ UNCHANGED <<wallet, fates, stored, history>>

(* Entry: the spot.  `seen` came in, `more` by an order of unknown fate or *)
(* one that was taken for refused, which nothing remembers.                *)
BuySpot ==
    /\ cycle.pc = "buy"
    /\ LET need == cycle.entered - cycle.book.spot
           most == IF need > 0 THEN need + MaxOf(FeeMax, SpotMin - 1) ELSE 0
       IN \E seen \in 0..most, unknown \in BOOLEAN :
          \E more \in 0..most - seen :
             LET entries == IF unknown THEN {NewEntry("Buy")} ELSE {}
                 spot == cycle.book.spot + seen
                 target == Target(cycle.entered, spot, entries)
                 b == Journaled([cycle.book EXCEPT !.spot = spot], entries)
             IN /\ unknown => ~calm /\ Room /\ need > 0
                /\ Disowned(~unknown /\ more > 0)
                /\ wallet' = wallet + seen + more
                /\ fates' = IF unknown THEN Fated(NewEntry("Buy"), more) ELSE fates
                /\ cycle' =
                     IF target < cycle.entered
                     THEN [cycle EXCEPT !.pc = "cut", !.book = b,
                              !.excess = cycle.entered - target, !.good = @ /\ ~unknown,
                              !.escalate = @ \/ seen = 0 \/ unknown]
                     ELSE Done([cycle EXCEPT !.book = b])
    /\ UNCHANGED <<short, stored, history>>

(* A close of q: what it closed (real) and what the run has seen of it.    *)
(* Through; out of time; of unknown fate; more than it was to, an order    *)
(* taken for refused being followed by another; or refused as there is     *)
(* nothing left to reduce.                                                 *)
Closes(q) ==
    {c \in [real : Steps(short), seen : Steps(q), ok : BOOLEAN] :
        /\ \/ c.seen <= c.real /\ c.ok = (c.seen >= q)
           \/ c.real = short /\ c.seen = q /\ c.ok
        /\ calm => c.real = MinOf(q, short) /\ c.ok}

(* Entry: the short is cut to the spot that came in.                       *)
CutPerp ==
    /\ cycle.pc = "cut"
    /\ \E c \in Closes(cycle.excess) :
          /\ short' = short - c.real
          /\ Disowned(c.real > cycle.excess)
          /\ cycle' = Done([cycle EXCEPT !.escalate = @ \/ ~c.ok,
                          !.good = @ /\ c.ok /\ c.real <= cycle.excess,
                          !.book = Fresh(Settled([@ EXCEPT !.perp = cycle.entered - c.seen]))])
    /\ UNCHANGED <<wallet, fates, stored, history>>

(* On to the next leg; past the last one, an exit is settled.              *)
Onward(c) ==
    IF Len(c.legs) > 1 THEN [c EXCEPT !.legs = Tail(@)]
    ELSE Done([c EXCEPT !.book = IF c.act.kind = "EXIT" THEN Fresh(Exited(c.act, @)) ELSE @])

PerpLeg ==
    /\ cycle.pc = "leg" /\ Head(cycle.legs) = "perp"
    /\ LET q == PerpToClose(cycle.act, cycle.book)
       IN IF q <= 0 THEN cycle' = Onward(cycle) /\ UNCHANGED <<short, world, lost, adopted>>
          ELSE \E c \in Closes(q) :
                  /\ short' = short - c.real
                  /\ Disowned(c.real > q)
                  /\ cycle' = Onward([cycle EXCEPT
                                  !.book = [@ EXCEPT !.perp =
                                              PerpLeft(cycle.act, cycle.book, c.seen)],
                                  !.escalate = @ \/ ~c.ok, !.good = @ /\ c.ok /\ c.real <= q])
                  /\ IF c.real > q THEN lost' = 0 /\ adopted' = FALSE
                     ELSE UNCHANGED <<lost, adopted>>
    /\ UNCHANGED <<wallet, fates, stored, foreign, blind, doubled>>

(* A sale of q: out of time, of unknown fate, through; or refused, in the  *)
(* time given or, past it, with no escalation.                             *)
Sales(q) ==
    {x \in [real : 0..MinOf(q, wallet), seen : 0..q, unknown : BOOLEAN, refused : BOOLEAN] :
        /\ x.seen <= x.real
        /\ x.unknown => x.seen < q /\ ~x.refused /\ Room
        /\ x.refused => x.seen < q
        /\ calm => x.real = MinOf(q, wallet) /\ x.seen = x.real /\ ~x.unknown}

SpotLeg ==
    /\ cycle.pc = "leg" /\ Head(cycle.legs) = "spot"
    /\ LET q == MinOf(cycle.act.spot, cycle.book.spot)
       IN IF q < SpotMin THEN cycle' = Onward(cycle) /\ UNCHANGED <<wallet, fates, world, blind>>
          ELSE \E x \in Sales(q) :
                  LET entries == IF x.unknown THEN {NewEntry("Sell")} ELSE {}
                  IN /\ Disowned(~x.unknown /\ x.seen < x.real)
                     /\ wallet' = wallet - x.real
                     /\ fates' = IF x.unknown THEN Fated(NewEntry("Sell"), x.real - x.seen)
                                 ELSE fates
                     /\ blind' = (blind \/ x.seen < x.real)
                     /\ cycle' = Onward([cycle EXCEPT
                           !.book = Journaled([cycle.book EXCEPT !.spot = MaxOf(0, @ - x.seen)],
                                              entries),
                           !.escalate = @ \/ x.refused, !.sold = @ \/ x.real > 0,
                           !.good = @ /\ ~x.unknown /\ q - x.seen < SpotMin])
    /\ UNCHANGED <<short, stored, foreign, doubled, lost, adopted>>

-----------------------------------------------------------------------------
(* The book is saved; or the process ends, at any point.                   *)

(* What the journal does not hold any more, nobody will look up.           *)
Save ==
    /\ cycle.pc = "save"
    /\ stored' = cycle.book
    /\ fates' = Restrict(fates, cycle.book.pending)
    /\ cycle' = Idle
    /\ UNCHANGED <<short, wallet, world, history>>

Killed ==
    /\ Interferes /\ cycle.pc # "idle"
    /\ fates' = Restrict(fates, stored.pending)
    /\ blind' = (blind \/ cycle.sold)
    /\ cycle' = Idle
    /\ UNCHANGED <<short, wallet, stored, foreign, doubled, lost, adopted>>

-----------------------------------------------------------------------------
Step ==
    \/ Begin \/ Plan
    \/ EnterPerp \/ BuySpot \/ CutPerp \/ PerpLeg \/ SpotLeg \/ Save

World == Arrive \/ Deleverage \/ LoseBook \/ Killed

Next == Step \/ World
Spec == Init /\ [][Next]_vars

(* The timer starts the next cycle, a cycle runs on.                       *)
CalmSpec == Init /\ [][Next \/ Calm]_vars /\ WF_vars(Step)
-----------------------------------------------------------------------------
(* No cycle enters on top of a short: whatever was unread, unsaved, lost   *)
(* or of unknown fate, there is never more than one position.              *)
OnePosition == short <= Quantity

(* A cycle that read the account leaves no short beyond the coins in the   *)
(* wallet (but less than a step, or than the drift allowed) without an     *)
(* escalation, however the account came to be what it was: left by an      *)
(* entry that an earlier cycle took for refused, too (in the cycle itself  *)
(* such an entry is not known of).  A TRIM takes the same from both legs:  *)
(* the drift it leaves is that of a position up to twice as large.         *)
NakedShortIsHeld ==
    cycle.pc = "save" /\ cycle.known
    => \/ short < wallet + PerpStep
       \/ (short - wallet) * 100 <= 2 * DriftPct * short
       \/ cycle.escalate

(* Nor, if it could also trade and the book holds every sale and no coin   *)
(* twice, spot of the book without a short, but for the dust of two sales, *)
(* or what an entry bought of a perp step it could not fill (sold as an    *)
(* orphan by the next cycle).                                              *)
NoNakedSpot ==
    cycle.pc = "save" /\ cycle.good /\ ~blind /\ ~doubled /\ short = 0
    => MinOf(cycle.book.spot + cycle.book.dust, wallet) < MaxOf(2 * SpotMin, PerpStep)

(* Over any number of cycles there is one position at most; no cycle that  *)
(* could read the account leaves a short alone, unless it says so or was   *)
(* told that its entry was refused; and none that could trade, and whose   *)
(* book knows of every sale, leaves spot alone.                            *)
PositionIsHedged == OnePosition /\ NakedShortIsHeld /\ NoNakedSpot

(* Decision 13.15: with the book lost, the hedge stays: no coin is sold    *)
(* and the short is not closed below them, whatever cycles run (UNWIND     *)
(* too), until the operator adopts it or the exchange takes it, by         *)
(* deleveraging or by a close that it refused and filled.                  *)
LostHedgeKept ==
    lost > 0 /\ ~adopted => short >= lost /\ wallet >= lost

(* Decision 13.14: coins that are not ours are sold only if a sale of ours *)
(* did not reach the book (of unknown fate, taken for refused, or killed   *)
(* between it and the save), or if an adoption has counted dust twice.     *)
ForeignSoldOnlyBlind == wallet < foreign => blind \/ doubled

Flat == short = 0 /\ stored.status = "FLAT" /\ stored.pending = {}
Unadopted == short > 0 /\ stored.status = "FLAT" /\ wallet > SpotMin

(* Left in peace, an UNWIND ends flat for good, however the cycles before  *)
(* it ended, but for a short the operator has not yet adopted.             *)
StopEndsFlat == calm ~> [](Flat \/ Unadopted)

-----------------------------------------------------------------------------
(* The claims of the docs that the code does not keep.                     *)

(* carry/plan.py: beyond the book, coins are "foreign: never traded".      *)
ForeignNeverSold == wallet >= foreign

(* carry/execute.py, resolve_pending: an order "still unknown stays".      *)
UnknownOrderStays ==
    [][Plan => cycle.book.pending \subseteq cycle'.book.pending]_vars

(* telegram_bot.py: the cycle after an adoption "puts min(short, spot)     *)
(* into the book (no trade)"; the hedge is then an ordinary one.           *)
AdoptedHedgeKept == lost > 0 => short >= lost /\ wallet >= lost
=============================================================================
