------------------------------ MODULE CarryExec ------------------------------
(***************************************************************************)
(* One run of carry/execute.py: the trade of one symbol a cycle has        *)
(* planned, sent order by order to an exchange that may refuse an order,   *)
(* answer late or never, fill it in part, and show it late or not at all.  *)
(* The book of the run (carry/book.py's entry for the symbol) is what the  *)
(* next cycle will know of it.                                             *)
(*                                                                         *)
(* Prices are left out: an IOC fills any part of its quantity.             *)
(***************************************************************************)
EXTENDS CarryBook, Sequences

CONSTANTS
    Foreign,        \* coins in the wallet that are not ours
    MaxOrders       \* bound: by the MaxOrders-th order of a leg its deadline has passed

ASSUME ExecAssumption ==
    /\ Foreign \in Nat /\ MaxOrders \in Nat \ {0}

VARIABLES
    short,      \* the exchange: our short perp
    wallet,     \* the exchange: the coin in the wallet, ours and foreign
    orders,     \* the exchange: the orders of ours whose fate the run has not read
    strays,     \* the exchange: of the orders it took while the run was told they were refused
    book,       \* the run's SymbolBook of the symbol
    act,        \* the planned action
    run,        \* where the run is
    escalate,   \* ExecResult.escalate
    slack       \* history: fee the book assumed that was not taken in the coin

vars == <<short, wallet, orders, strays, book, act, run, escalate, slack>>


(* The four kinds of order: perp entry, perp close, spot buy, spot sell.   *)
Tags == {"P", "C", "S", "X"}
Link == [tag : Tags, n : 0..MaxOrders]
Order == [st : {"open", "final"}, qty : Nat, filled : Nat, fee : Nat]
Stray == [open : Nat, got : Nat]    \* still to match; filled, net of the fee in the coin
Book == [status : {"FLAT", "OPEN"}, perp : Nat, spot : Nat, dust : Nat,
         pending : SUBSET Link]
Action == [kind : {"ENTER", "EXIT", "TRIM", "REBALANCE"},
           legs : {<<>>, <<"spot">>, <<"perp">>, <<"spot", "perp">>, <<"perp", "spot">>},
           perp : Nat \cup {Unread}, spot : Nat, pos : Nat \cup {Unread}]
Outcome == [state : {"none", "done", "nothing to reduce", "rejected", "unknown"},
            filled : Nat, fee : Nat]
Run == [pc : {"enter", "buy", "leg", "close", "sell",
              "send", "look", "resend", "poll", "answer", "done", "failed"},
        legs : {<<>>, <<"spot">>, <<"perp">>, <<"spot", "perp">>, <<"perp", "spot">>},
        link : Link, qty : Nat, sent : BOOLEAN, out : Outcome,
        late : BOOLEAN,         \* the leg's deadline has passed
        want : Nat, got : Nat,  \* what the leg is to move, and has moved
        entered : Nat,          \* the perp filled by the entry
        own : Nat,              \* the part of its spot leg that is the book's dust
        after : {"", "unknown entry", "excess"}]    \* why a close runs, outside a leg

ExecTypeOK ==
    /\ short \in Nat /\ wallet \in Nat /\ slack \in Nat
    /\ DOMAIN orders \subseteq Link /\ \A l \in DOMAIN orders : orders[l] \in Order
    /\ strays \in [Tags -> Stray]
    /\ book \in Book /\ act \in Action /\ run \in Run /\ escalate \in BOOLEAN

NoOutcome == [state |-> "none", filled |-> 0, fee |-> 0]
Begin(pc) ==
    [pc |-> pc, legs |-> act.legs, link |-> [tag |-> "P", n |-> 0], qty |-> 0,
     sent |-> FALSE, out |-> NoOutcome, late |-> FALSE, want |-> 0, got |-> 0,
     entered |-> 0, own |-> 0, after |-> ""]

-----------------------------------------------------------------------------
(* What the plan asks for (carry/plan.py), with the book and the snapshot  *)
(* it was made from.  The position may have been reduced by the exchange   *)
(* (ADL, liquidation), or be unreadable, and then an exit closes what the  *)
(* book holds; so may the account, and then an exit names no spot quantity. *)

Planned(kind, legs, perp, spot, pos) ==
    [kind |-> kind, legs |-> legs, perp |-> perp, spot |-> spot, pos |-> pos]

PlanEntry ==
    /\ \E dust \in 0..SpotMin - 1 :
          /\ book = [status |-> "FLAT", perp |-> 0, spot |-> 0, dust |-> dust, pending |-> {}]
          /\ wallet = Foreign + dust
    /\ short = 0
    /\ act = Planned("ENTER", <<>>, Quantity, 0, 0)
    /\ run = Begin("enter")

PlanReduction ==
    /\ \E dust \in 0..SpotMin - 1, spot \in 0..Quantity + 1, left \in 0..Quantity \div PerpStep :
          /\ spot < SpotMin \/ spot >= Quantity - 1
          /\ book = [status |-> "OPEN", perp |-> Quantity, spot |-> spot, dust |-> dust,
                     pending |-> {}]
          /\ wallet = Foreign + spot + dust
          /\ short = left * PerpStep
          /\ \/ \E legs \in {<<"spot", "perp">>, <<"perp", "spot">>}, s \in {0, spot},
                   pos \in {short, Unread} : act = Planned("EXIT", legs, Unread, s, pos)
             \/ /\ short = 0 /\ spot > SpotMin
                /\ act = Planned("EXIT", <<"spot">>, Unread, spot, 0)
             \/ /\ short > 0 /\ spot < SpotMin
                /\ act = Planned("EXIT", <<"perp">>, Unread, 0, short)
             \/ /\ short > 0 /\ spot > short
                /\ act = Planned("REBALANCE", <<"spot">>, Unread, spot - short, short)
             \/ /\ short > spot /\ spot >= SpotMin
                /\ act = Planned("REBALANCE", <<"perp">>, FloorTo(short - spot, PerpStep), 0, short)
             \/ LET trim == FloorTo(short \div 2, PerpStep)
                IN /\ trim > 0 /\ spot >= SpotMin
                   /\ act = Planned("TRIM", <<"spot", "perp">>, trim, MinOf(trim, spot), short)
    /\ run = Begin("leg")

Init ==
    /\ PlanEntry \/ PlanReduction
    /\ orders = <<>>
    /\ strays = [tag \in Tags |-> [open |-> 0, got |-> 0]]
    /\ escalate = FALSE
    /\ slack = 0

-----------------------------------------------------------------------------
(* The exchange.                                                           *)

(* An order is matched: an IOC fills what it can, a reduceOnly never more  *)
(* than the position.  The fee of a buy is assumed to be no more than the  *)
(* fill and FeeMax, whatever coin it is in.                                *)
Fills(tag, qty, f, fee, taken) ==
    /\ f <= qty /\ fee <= f /\ taken \in {0, fee} /\ (tag # "S" => fee = 0)
    /\ tag \in {"P", "C"} => (f % PerpStep) = 0
    /\ tag = "C" => f <= short
    /\ tag = "X" => f <= wallet
    /\ short' = CASE tag = "P" -> short + f
                  [] tag = "C" -> short - f
                  [] OTHER -> short
    /\ wallet' = CASE tag = "S" -> wallet + f - taken
                   [] tag = "X" -> wallet - f
                   [] OTHER -> wallet

(* Bybit may not say in which coin the fee was taken; the book then        *)
(* assumes the coin.                                                       *)
Match(l) ==
    /\ orders[l].st = "open"
    /\ \E f \in 0..orders[l].qty, fee, taken \in 0..FeeMax :
          /\ Fills(l.tag, orders[l].qty, f, fee, taken)
          /\ orders' = [orders EXCEPT ![l].st = "final", ![l].filled = f, ![l].fee = fee]
          /\ slack' = slack + fee - taken
    /\ UNCHANGED <<strays, book, act, run, escalate>>

(* An order the run takes for refused is matched too; of several closes    *)
(* some may still be open after it.  What they closed, short shows.        *)
Came(tag, filled) == IF tag = "C" THEN 0 ELSE filled

MatchStray(tag) ==
    /\ strays[tag].open > 0
    /\ \E f \in 0..strays[tag].open, fee \in 0..FeeMax :
          /\ Fills(tag, strays[tag].open, f, fee, fee)
          /\ \E left \in 0..strays[tag].open - f :
                /\ tag # "C" => left = 0
                /\ strays' = [strays EXCEPT ![tag] = [open |-> left,
                                                   got |-> @.got + Came(tag, f - fee)]]
    /\ UNCHANGED <<orders, book, act, run, escalate, slack>>

(* Auto-deleveraging takes a part of the position away.                    *)
Deleverage ==
    /\ short >= PerpStep
    /\ short' = short - PerpStep
    /\ UNCHANGED <<wallet, orders, strays, book, act, run, escalate, slack>>

Deadline ==
    /\ run.pc \notin {"done", "failed"} /\ ~run.late
    /\ run' = [run EXCEPT !.late = TRUE]
    /\ UNCHANGED <<short, wallet, orders, strays, book, act, escalate, slack>>

-----------------------------------------------------------------------------
(* One order (submit): sent, looked up by its link until it is final, and  *)
(* sent again under the same link if it never arrived.                     *)

exchange == <<short, wallet, strays, slack>>

Ask(r, tag, n, qty) ==
    [r EXCEPT !.pc = "send", !.link = [tag |-> tag, n |-> n], !.qty = qty,
              !.sent = FALSE, !.out = NoOutcome]
Answered(state) == [run EXCEPT !.pc = "answer", !.out = [NoOutcome EXCEPT !.state = state]]

NothingToReduce == run.link.tag = "C" /\ short = 0

Accepted(l) ==
    orders' = [k \in DOMAIN orders \cup {l} |->
                  IF k = l THEN [st |-> "open", qty |-> run.qty, filled |-> 0, fee |-> 0]
                  ELSE orders[k]]

(* create_order: accepted, refused with an answer, or not answered, having *)
(* arrived or not.                                                         *)
Transmit(l, next) ==
    \/ /\ ~NothingToReduce
       /\ Accepted(l)
       /\ \E answered \in BOOLEAN :
             run' = [run EXCEPT !.pc = next, !.sent = answered, !.link = l]
    \/ run' = [run EXCEPT !.pc = next, !.link = l] /\ UNCHANGED orders
    \/ run' = Answered("rejected") /\ UNCHANGED orders
    \/ NothingToReduce /\ run' = Answered("nothing to reduce") /\ UNCHANGED orders

Send ==
    /\ run.pc = "send"
    /\ Transmit(run.link, "look")
    /\ UNCHANGED <<exchange, book, act, escalate>>

(* Mutant: the second attempt gets a link of its own.                      *)
ResendNewLink ==
    /\ run.pc = "resend"
    /\ run.link.n < MaxOrders
    /\ Transmit([run.link EXCEPT !.n = @ + 1], "poll")
    /\ UNCHANGED <<exchange, book, act, escalate>>

(* Mutant: the fee is taken off twice.                                     *)
ReceivedTwiceNet(out) == out.filled - 2 * out.fee

(* fee_in_base: the coins of a spot buy, net of the fee.                   *)
Received(out) == out.filled - out.fee

(* The order is on the exchange, and the run is told that it is refused.   *)
LeftOpen(d) == IF d.st = "open" THEN d.qty ELSE 0
Disown(l) ==
    /\ orders' = Restrict(orders, DOMAIN orders \ {l})
    /\ strays' = [strays EXCEPT ![l.tag] = [open |-> @.open + LeftOpen(orders[l]),
                                            got |-> @.got + Came(l.tag, Received(orders[l]))]]

(* The exchange refuses a second order under the same link: as a           *)
(* duplicate; or with another code, of which the run concludes that        *)
(* neither attempt was placed.                                             *)
Resend ==
    /\ run.pc = "resend"
    /\ \/ /\ run.link \in DOMAIN orders
          /\ \E answered \in BOOLEAN : run' = [run EXCEPT !.pc = "poll", !.sent = answered]
          /\ UNCHANGED <<orders, strays>>
       \/ /\ run.link \in DOMAIN orders
          /\ \/ run' = Answered("rejected")
             \/ NothingToReduce /\ run' = Answered("nothing to reduce")
          /\ Disown(run.link)
       \/ run.link \notin DOMAIN orders /\ Transmit(run.link, "poll") /\ UNCHANGED strays
    /\ UNCHANGED <<short, wallet, slack, book, act, escalate>>

(* find_order: final; or not shown (it never arrived, or the exchange does *)
(* not show it yet); or unreadable, or not final.                          *)
Look ==
    /\ run.pc = "look"
    /\ \/ /\ run.link \in DOMAIN orders /\ orders[run.link].st = "final"
          /\ run' = [run EXCEPT !.pc = "answer",
                       !.out = [state |-> "done", filled |-> orders[run.link].filled,
                                fee |-> orders[run.link].fee]]
          /\ orders' = Restrict(orders, DOMAIN orders \ {run.link})
       \/ ~run.sent /\ run' = [run EXCEPT !.pc = "resend"] /\ UNCHANGED orders
       \/ run' = [run EXCEPT !.pc = "poll"] /\ UNCHANGED orders
    /\ UNCHANGED <<exchange, book, act, escalate>>

(* Looked up again, until the deadline.                                    *)
Poll ==
    /\ run.pc = "poll"
    /\ run' = IF run.late THEN Answered("unknown") ELSE [run EXCEPT !.pc = "look"]
    /\ UNCHANGED <<exchange, orders, book, act, escalate>>

-----------------------------------------------------------------------------
(* The run.                                                                *)

traded == <<exchange, orders, act>>

End(pc) == [Begin(pc) EXCEPT !.legs = <<>>]
Finish == run' = End("done")
(* The order is answered, its loop goes on.                                *)
Again(pc, got) ==
    [run EXCEPT !.pc = pc, !.got = got, !.link.n = @ + 1, !.qty = 0, !.sent = FALSE,
                !.out = NoOutcome]

(* A leg starts with a fresh deadline.                                     *)
StartClose(r, qty, after) ==
    [Begin("close") EXCEPT !.legs = r.legs, !.entered = r.entered, !.after = after,
                           !.link = [tag |-> "C", n |-> 0], !.want = qty]

(* A malformed price level, or any error that is not the client's own,     *)
(* ends the action: CRITICAL, and what the run had not put in the book is  *)
(* lost.                                                                   *)
Raises ==
    /\ run.pc \in {"enter", "buy", "sell"}
    /\ run' = End("failed")
    /\ escalate' = TRUE
    /\ UNCHANGED <<traded, book, slack>>

(* Entry: the perp first, if its orderbook can be read.                    *)
Enter ==
    /\ run.pc = "enter"
    /\ \/ Finish
       \/ run' = Ask(run, "P", 0, FloorTo(act.perp, PerpStep))
    /\ UNCHANGED <<traded, book, escalate>>

EntryAnswered ==
    /\ run.pc = "answer" /\ run.link.tag = "P"
    /\ \/ /\ run.out.state = "rejected" \/ (run.out.state = "done" /\ run.out.filled = 0)
          /\ Finish /\ UNCHANGED book
       \/ /\ run.out.state = "unknown"
          /\ run' = StartClose(run, run.qty, "unknown entry")
          /\ UNCHANGED book
       \/ /\ run.out.state = "done" /\ run.out.filled > 0
          /\ LET filled == run.out.filled
                 own == OwnDust(book, wallet, filled)
             IN /\ book' = [book EXCEPT !.status = "OPEN", !.perp = filled, !.spot = own,
                                        !.dust = @ - own]
                /\ run' = [Begin("buy") EXCEPT !.entered = filled, !.own = own,
                              !.want = filled - own, !.link = [tag |-> "S", n |-> 0],
                              !.late = run.late]
    /\ UNCHANGED <<traded, escalate>>

(* The spot leg is over: put it in the book, cut the short to it.          *)
Reconcile(got, pending) ==
    LET received == run.own + got
        target == Target(run.entered, received, pending)
    IN /\ book' = [book EXCEPT !.spot = received, !.pending = @ \cup pending]
       /\ run' = IF target < run.entered
                 THEN StartClose(run, run.entered - target, "excess")
                 ELSE End("done")
       /\ escalate' = (escalate \/ (target < run.entered /\ (got <= 0 \/ pending # {})))

Buy ==
    /\ run.pc = "buy"
    /\ \/ /\ run.got >= run.want \/ run.late
          /\ Reconcile(run.got, {})
       \/ /\ run.got < run.want /\ ~run.late /\ run.link.n < MaxOrders
          /\ run' = Ask(run, "S", run.link.n, MaxOf(run.want - run.got + FeeMax, SpotMin))
          /\ UNCHANGED <<book, escalate>>
    /\ UNCHANGED traded

BuyAnswered ==
    /\ run.pc = "answer" /\ run.link.tag = "S"
    /\ \/ run.out.state = "unknown" /\ Reconcile(run.got, {run.link})
       \/ run.out.state = "rejected" /\ Reconcile(run.got, {})
       \/ /\ run.out.state = "done"
          /\ LET got == run.got + Received(run.out)
             IN IF run.out.filled >= run.qty
                THEN Reconcile(got, {})
                ELSE /\ run' = Again("buy", got)
                     /\ UNCHANGED <<book, escalate>>
    /\ UNCHANGED traded

-----------------------------------------------------------------------------
(* The next leg of a reduction.                                            *)
NextLeg(r) == [Begin("leg") EXCEPT !.legs = Tail(r.legs)]

(* close_perp: reduceOnly, until it is all closed or the deadline.         *)

(* Closed: what follows depends on why it ran.                             *)
Closed(closed, ok) ==
    CASE run.after = "unknown entry" ->
            /\ book' = Settled([book EXCEPT !.perp = IF ok THEN 0 ELSE run.want])
            /\ escalate' = TRUE
            /\ Finish
      [] run.after = "excess" ->
            /\ book' = Settled([book EXCEPT !.perp = run.entered - closed])
            /\ escalate' = (escalate \/ ~ok)
            /\ Finish
      [] OTHER ->
            /\ book' = [book EXCEPT !.perp = PerpLeft(act, book, closed)]
            /\ escalate' = (escalate \/ ~ok)
            /\ run' = NextLeg(run)

(* Mutant: a close is tried until it is through, whatever the time.        *)
CloseForever ==
    /\ run.pc = "close"
    /\ \/ run.got >= run.want /\ Closed(run.got, TRUE)
       \/ /\ run.got < run.want
          /\ run' = Ask(run, "C", (run.link.n + 1) % MaxOrders, run.want - run.got)
          /\ UNCHANGED <<book, escalate>>
    /\ UNCHANGED traded

Close ==
    /\ run.pc = "close"
    /\ \/ /\ run.got >= run.want \/ run.late
          /\ Closed(run.got, run.got >= run.want)
       \/ /\ run.got < run.want /\ ~run.late /\ run.link.n < MaxOrders
          /\ run' = Ask(run, "C", run.link.n, run.want - run.got)
          /\ UNCHANGED <<book, escalate>>
    /\ UNCHANGED traded

(* Mutant: a close of unknown fate counts as closed.                       *)
CloseAnsweredWell ==
    /\ run.pc = "answer" /\ run.link.tag = "C"
    /\ \/ run.out.state \in {"unknown", "nothing to reduce"} /\ Closed(run.want, TRUE)
       \/ /\ run.out.state \in {"rejected", "done"}
          /\ run' = Again("close", run.got + run.out.filled)
          /\ UNCHANGED <<book, escalate>>
    /\ UNCHANGED traded

CloseAnswered ==
    /\ run.pc = "answer" /\ run.link.tag = "C"
    /\ \/ run.out.state = "unknown" /\ Closed(run.got, FALSE)
       \/ run.out.state = "nothing to reduce" /\ Closed(run.want, TRUE)
       \/ /\ run.out.state \in {"rejected", "done"}
          /\ run' = Again("close", run.got + run.out.filled)
          /\ UNCHANGED <<book, escalate>>
    /\ UNCHANGED traded

-----------------------------------------------------------------------------
(* reduce: the legs in their order.                                        *)

SpotLeg ==
    /\ run.pc = "leg" /\ run.legs # <<>> /\ Head(run.legs) = "spot"
    /\ LET want == MinOf(act.spot, book.spot)
       IN run' = IF want < SpotMin THEN NextLeg(run)
                 ELSE [run EXCEPT !.pc = "sell", !.link = [tag |-> "X", n |-> 0],
                                  !.late = FALSE, !.want = want, !.got = 0]
    /\ UNCHANGED <<traded, book, escalate>>

PerpLeg ==
    /\ run.pc = "leg" /\ run.legs # <<>> /\ Head(run.legs) = "perp"
    /\ LET qty == PerpToClose(act, book)
       IN run' = IF qty <= 0 THEN NextLeg(run) ELSE StartClose(run, qty, "")
    /\ UNCHANGED <<traded, book, escalate>>

LegsDone ==
    /\ run.pc = "leg" /\ run.legs = <<>>
    /\ book' = IF act.kind = "EXIT" THEN Exited(act, book) ELSE book
    /\ Finish
    /\ UNCHANGED <<traded, escalate>>

(* sell_spot: Limit IOC, Market without an orderbook, until the rest is    *)
(* dust or the deadline; then one Market order for the rest, with a        *)
(* deadline of its own (the order of number MaxOrders).                    *)
Sold(sold, pending) ==
    /\ book' = [book EXCEPT !.spot = MaxOf(0, @ - sold), !.pending = @ \cup pending]
    /\ run' = NextLeg(run)

Sell ==
    /\ run.pc = "sell"
    /\ LET left == run.want - run.got
       IN \/ left < SpotMin /\ Sold(run.got, {})
          \/ /\ left >= SpotMin /\ ~run.late /\ run.link.n < MaxOrders
             /\ run' = Ask(run, "X", run.link.n, left)
             /\ UNCHANGED book
          \/ /\ left >= SpotMin /\ run.late
             /\ run' = [Ask(run, "X", MaxOrders, left) EXCEPT !.late = FALSE]
             /\ UNCHANGED book
    /\ UNCHANGED <<traded, escalate>>

SellAnswered ==
    /\ run.pc = "answer" /\ run.link.tag = "X"
    /\ \/ run.out.state = "unknown" /\ Sold(run.got, {run.link}) /\ UNCHANGED escalate
       \/ /\ run.out.state # "unknown" /\ run.link.n = MaxOrders
          /\ Sold(run.got + run.out.filled, {}) /\ UNCHANGED escalate
       \/ /\ run.out.state = "rejected" /\ run.link.n < MaxOrders
          /\ Sold(run.got, {}) /\ escalate' = TRUE
       \/ /\ run.out.state = "done" /\ run.link.n < MaxOrders
          /\ run' = Again("sell", run.got + run.out.filled)
          /\ UNCHANGED <<book, escalate>>
    /\ UNCHANGED traded

-----------------------------------------------------------------------------
Step ==
    \/ Send \/ Resend \/ Look \/ Poll
    \/ Enter \/ EntryAnswered \/ Buy \/ BuyAnswered
    \/ Close \/ CloseAnswered
    \/ SpotLeg \/ PerpLeg \/ LegsDone \/ Sell \/ SellAnswered

Next ==
    \/ Step
    \/ Raises
    \/ Deadline
    \/ Deleverage
    \/ \E l \in DOMAIN orders : Match(l)
    \/ \E tag \in Tags : MatchStray(tag)

(* The process runs on until it is over, and so does its clock: one of the *)
(* two can always go on, so that this is their weak fairness.  The         *)
(* exchange owes nothing.                                                  *)
Over == run.pc \in {"done", "failed"}
Spec ==
    /\ Init /\ [][Next]_vars
    /\ []<>(run.late \/ Over) /\ ([]<>Over \/ []<><<TRUE>>_run)
-----------------------------------------------------------------------------
Ours == wallet - Foreign
Done == run.pc = "done"

(* R20: an entry that ends without an escalation leaves no short beyond    *)
(* the coins it bought.                                                    *)
EntryLeavesNoShort == Done /\ act.kind = "ENTER" /\ ~escalate => short <= Ours

(* It does but for one order: its perp order, taken by the exchange while  *)
(* the run was told of its second attempt that it was refused.             *)
EntryIsHedged ==
    Done /\ act.kind = "ENTER" /\ ~escalate => short <= Ours + strays["P"].got

(* An exit that was to close the perp has closed it, or escalates.         *)
ExitClosesShort ==
    Done /\ act.kind = "EXIT" /\ act.legs # <<"spot">> /\ ~escalate => short = 0

(* A run that does not escalate ends with no leg of its making open        *)
(* alone: an entry is hedged, an exit has closed its short.                *)
EndsHedged == EntryIsHedged /\ ExitClosesShort

(* R24: whatever was resent, an entry never shorts more than was planned,  *)
(* nor buys more than that, its fee and the exchange's minimum.            *)
EntryWithinPlan ==
    act.kind = "ENTER"
    => /\ short <= act.perp
       /\ Ours <= act.perp + MaxOf(FeeMax, SpotMin) + SpotMin + slack

(* Decision 13.14: foreign coins are never sold.                           *)
ForeignKept == wallet >= Foreign

(* Whatever orders are lost, hidden, resent or of unknown fate, no more is *)
(* traded than the plan says and than is ours.                             *)
TradesWithinPlan == EntryWithinPlan /\ ForeignKept

(* A run that does not escalate leaves no short the book does not hold,    *)
(* but what an entry filled that it took for refused.                      *)
ShortIsTracked ==
    Done /\ ~escalate
    => /\ short <= book.perp + strays["P"].got
       /\ short > strays["P"].got => book.status = "OPEN"

(* Once the fate of every spot order is known, the book holds the coins    *)
(* that are ours: none that is not there, and none it does not know of but *)
(* a fee it assumed; except what a buy bought, or a sale sold, that the    *)
(* run took for refused.                                                   *)
CoinsAreTracked ==
    Done /\ book.pending = {}
    => LET known == book.spot + book.dust + strays["S"].got - strays["X"].got
       IN known <= Ours /\ Ours <= known + slack

(* What the run leaves on the exchange is what it puts in the book.        *)
BookTells == ShortIsTracked /\ CoinsAreTracked

(* Every loop of the run ends by its deadline.                             *)
RunEnds == <>Over
=============================================================================
