------------------------------- MODULE CarryFunds -------------------------------
(***************************************************************************)
(* The USDT of the carry account between its wallet, the positions and     *)
(* Easy Earn (plan.py sections 4 to 6, execute.py).  A cycle reads         *)
(* positions and wallet, then Earn, which may pay out in between; it plans *)
(* for all symbols, sends its orders one by one, and saves its book: it    *)
(* can be killed at any point.  An entry that lacks USDT asks Earn for it, *)
(* waits over cycles, and is entered or abandoned; idle USDT is returned.  *)
(* A position costs what it returns: prices, fees and funding are left out *)
(* here, and a position is both legs or none (CarryExec has the legs).     *)
(***************************************************************************)
EXTENDS Integers, Sequences, FiniteSets, SequencesExt

CONSTANTS
    Symbols,        \* the sequence SYMBOLS of the configuration
    Cost,           \* USDT of an entry
    Buffer,         \* USDT_BUFFER_USD
    Slack,          \* ENTRY_PRICE_SLACK of the cost
    MinReturn,      \* EARN_RETURN_MIN_USD, or Earn's minimum
    Timeout,        \* REDEEM_TIMEOUT_HOURS, in cycles
    Stock,          \* bound: all the USDT
    MaxLinks,       \* bound: redeems at a time
    MaxFaults       \* bound: kills, unreadable answers, orders not taken or failed

Coins == ToSet(Symbols)
Links == 1..MaxLinks

ASSUME FundsAssumption ==
    /\ Symbols \in Seq(Coins) /\ IsInjective(Symbols)
    /\ {Cost, MinReturn, Timeout, MaxLinks} \subseteq Nat \ {0}
    /\ {Buffer, Slack, Stock, MaxFaults} \subseteq Nat
    /\ Buffer <= Cost           \* as in config/carry.yaml: 15 and 80

VARIABLES
    wallet,         \* USDT in the trading account
    staked,         \* USDT in Easy Earn
    staking,        \* USDT of an unfinished stake
    order,          \* the redeems that matter, by orderLinkId
    open,           \* symbols with a position on the exchange
    book,           \* carry_book.json
    cyc,            \* the cycle at work
    gone,           \* no symbol is worth entering any more
    hidden,         \* history: a cycle planned while a position was in neither
                    \* the book nor what could be read
    faults

earn == <<staked, staking, order>>
vars == <<wallet, earn, open, book, cyc, gone, hidden, faults>>

Flat == [status |-> "FLAT", link |-> 0, age |-> 0]
Opened == [status |-> "OPEN", link |-> 0, age |-> 0]
Redeeming(l) == [status |-> "REDEEMING", link |-> l, age |-> 0]
NoOrder == [state |-> "none", amount |-> 0]
NotRead == [wallet |-> 0, acct |-> FALSE, at |-> {}, unread |-> {}]
Off == [pc |-> "off", read |-> NotRead, acts |-> <<>>, next |-> [s \in Coins |-> Flat]]
Act == [kind : {"ENTER", "EXIT"}, sym : Coins]
       \cup [kind : {"REDEEM"}, sym : Coins, amount : 0..Stock, link : Links]
       \cup [kind : {"RETURN"}, amount : 0..Stock]

LinksOf(bk) == {bk[s].link : s \in Coins} \ {0}
Named == LinksOf(book) \cup LinksOf(cyc.next)

(* Types; and a book names an Earn order of its own while it waits for it, *)
(* and only then.                                                          *)
IsBook(bk) ==
    /\ bk \in [Coins -> [status : {"FLAT", "REDEEMING", "OPEN"}, link : 0..MaxLinks,
                         age : 0..Timeout]]
    /\ \A s \in Coins : bk[s].status = "REDEEMING" <=> bk[s].link # 0
    /\ \A s, t \in Coins : s # t /\ bk[s].link # 0 => bk[s].link # bk[t].link
FundsTypeOK ==
    /\ wallet \in Int /\ staked \in 0..Stock /\ staking \in 0..Stock
    /\ order \in [Links -> [state : {"none", "pending", "done", "failed"}, amount : 0..Stock]]
    /\ open \subseteq Coins /\ IsBook(book) /\ IsBook(cyc.next)
    /\ cyc.pc \in {"off", "read", "act"} /\ cyc.acts \in Seq(Act)
    /\ cyc.read \in [wallet : Int, acct : BOOLEAN, at : SUBSET Coins, unread : SUBSET Coins]
    /\ gone \in BOOLEAN /\ hidden \in BOOLEAN /\ faults \in 0..MaxFaults

Init ==
    /\ wallet = 0 /\ staked = Stock /\ staking = 0
    /\ order = [l \in Links |-> NoOrder]
    /\ open = {} /\ book = [s \in Coins |-> Flat] /\ cyc = Off
    /\ gone = FALSE /\ hidden = FALSE /\ faults = 0

Fault == faults < MaxFaults /\ faults' = faults + 1

-----------------------------------------------------------------------------
(* Bybit Easy Earn: an order is taken, then ends.  What is asked for is no *)
(* longer staked.                                                          *)

Ended(l, state) ==
    /\ order[l].state = "pending"
    /\ order' = [order EXCEPT ![l] = IF l \in Named THEN [NoOrder EXCEPT !.state = state]
                                     ELSE NoOrder]

RedeemEnds(l) ==
    /\ Ended(l, "done") /\ wallet' = wallet + order[l].amount
    /\ UNCHANGED <<staked, staking, open, book, cyc, gone, hidden, faults>>

RedeemFails(l) ==
    /\ Fault /\ Ended(l, "failed") /\ staked' = staked + order[l].amount
    /\ UNCHANGED <<wallet, staking, open, book, cyc, gone, hidden>>

StakeEnds ==
    /\ staking > 0 /\ staking' = 0 /\ staked' = staked + staking
    /\ UNCHANGED <<wallet, order, open, book, cyc, gone, hidden, faults>>

StakeFails ==
    /\ Fault /\ staking > 0 /\ staking' = 0 /\ wallet' = wallet + staking
    /\ UNCHANGED <<staked, order, open, book, cyc, gone, hidden>>

\* The funding is low for good.
ConditionsGo ==
    /\ ~gone /\ gone' = TRUE
    /\ UNCHANGED <<wallet, earn, open, book, cyc, hidden, faults>>

-----------------------------------------------------------------------------
(* The plan, of what was read:                                             *)
(*   v.acct, v.wallet, v.at, v.unread   account, USDT, shorts, unread ones *)
(*   v.earn, v.adopt                    Earn was read; /adopt carry stands *)
(*   v.says[s]                          the funding decision of s          *)
(* A symbol's decision is to enter (or hold); to do nothing so near to the *)
(* settlement (or hold); to stay out (or exit).  Or there is no market to  *)
(* decide on: to a waiting redeem this is the same as a decision to enter  *)
(* that something else bars (preflight, a foreign balance, collateral).    *)

Says == {"ENTER", "WINDOW", "STAY", "UNREADABLE"}

\* _lost_book: a short that the book does not have, its coins next to it.
Lost(v) == {s \in v.at : book[s].status # "OPEN"}
Mismatch(v) == IF v.adopt THEN {} ELSE Lost(v)

\* Without Earn there is no rate to compare with.
Decision(v, s) ==
    LET d == v.says[s]
    IN CASE d = "ENTER" /\ ~v.earn -> "STAY"
         [] d = "ENTER" /\ (~v.acct \/ s \in v.unread \/ Mismatch(v) # {}) -> "BARRED"
         [] OTHER -> d

AbandonedLinked(b) == [b EXCEPT !.status = "FLAT"]      \* mutant: keeps the link
Abandoned(b) == Flat

FateUntimed(v, b, d) ==                     \* mutant: no REDEEM_TIMEOUT_HOURS
    LET state == IF v.earn THEN order[b.link].state ELSE "none"
    IN CASE state = "failed" -> "abandon"
         [] state = "done" /\ d = "ENTER" -> "enter"
         [] state = "done" /\ d # "WINDOW" -> "abandon"
         [] state # "done" /\ d = "STAY" -> "abandon"
         [] OTHER -> "wait"

\* _redeem_step: what becomes of an entry that waits for its redeem.
Fate(v, b, d) ==
    LET state == IF v.earn THEN order[b.link].state ELSE "none"
    IN CASE state = "failed" -> "abandon"
         [] state = "done" /\ d = "ENTER" -> "enter"
         [] state = "done" /\ d = "WINDOW" /\ b.age < Timeout -> "wait"
         [] state = "done" -> "abandon"
         [] b.age >= Timeout \/ d = "STAY" -> "abandon"
         [] OTHER -> "wait"

Required(notional) == Cost + IF notional = 0 THEN Buffer ELSE 0

\* The plan so far: USDT not spent, positions, actions, the next book.
PlanEnterFree(p, s) ==                      \* mutant: what it spends is not set aside
    [p EXCEPT !.notional = @ + 1, !.next[s] = Flat,
              !.acts = Append(@, [kind |-> "ENTER", sym |-> s])]
PlanEnter(p, s) ==
    [p EXCEPT !.free = @ - Required(p.notional), !.notional = @ + 1, !.next[s] = Flat,
              !.acts = Append(@, [kind |-> "ENTER", sym |-> s])]

FreeLinks(p) == {l \in Links : order[l].state = "none"} \ (LinksOf(book) \cup LinksOf(p.next))
PlanRedeem(p, s) ==
    LET l == CHOOSE x \in FreeLinks(p) : \A y \in FreeLinks(p) : x <= y
    IN [p EXCEPT !.next[s] = Redeeming(l),
                 !.acts = Append(@, [kind |-> "REDEEM", sym |-> s, link |-> l,
                                     amount |-> Required(p.notional) + Slack - p.free])]

\* Each redeem is held against all that is staked.
WithFunds(p, s) ==
    IF p.free >= Required(p.notional) THEN PlanEnter(p, s)
    ELSE IF staked < Required(p.notional) + Slack - p.free \/ FreeLinks(p) = {}
         THEN [p EXCEPT !.next[s] = Flat]
         ELSE PlanRedeem(p, s)

PlanFlat(v, p, s) ==
    LET d == Decision(v, s)
        fate == IF p.next[s].status = "REDEEMING" THEN Fate(v, p.next[s], d)
                ELSE IF d = "ENTER" THEN "enter" ELSE "wait"
    IN CASE fate = "enter" -> WithFunds(p, s)
         [] fate = "abandon" -> [p EXCEPT !.next[s] = Abandoned(p.next[s])]
         [] fate = "wait" -> p

\* A position that went by itself is FLAT once positions and wallet show it.
Went(v, s) == book[s].status = "OPEN" /\ s \notin v.at \cup v.unread /\ v.acct

PlanSymbol(v, p, s) ==
    IF s \in Lost(v) THEN IF v.adopt THEN [p EXCEPT !.next[s] = Opened] ELSE p
    ELSE IF book[s].status # "OPEN" THEN PlanFlat(v, p, s)
    ELSE IF Went(v, s) THEN PlanFlat(v, [p EXCEPT !.next[s] = Flat], s)
    ELSE IF v.says[s] = "STAY"
         THEN [p EXCEPT !.acts = Append(@, [kind |-> "EXIT", sym |-> s])]
    ELSE p

Priced(v) == {s \in v.at : v.says[s] # "UNREADABLE"}
PlanEntries(v) ==
    LET plan[i \in 0..Len(Symbols)] ==
            IF i = 0
            THEN [free |-> v.wallet, notional |-> Cardinality(Priced(v)), acts |-> <<>>, next |-> book]
            ELSE PlanSymbol(v, plan[i - 1], Symbols[i])
    IN plan[Len(Symbols)]

Unfinished == staking > 0 \/ \E l \in Links : order[l].state = "pending"
Statuses(bk) == {bk[s].status : s \in Coins}
Keep(v, bk) == IF "OPEN" \in Statuses(bk) \/ v.at # {} THEN Buffer ELSE 0
MayReturn(v, p) ==
    /\ v.acct /\ v.earn /\ p.acts = <<>> /\ "REDEEMING" \notin Statuses(p.next)
    /\ ~Unfinished /\ Lost(v) = {}
    /\ v.wallet - Keep(v, p.next) >= MinReturn

\* Idle USDT back to Earn, in a cycle that does nothing else.
Plan(v) ==
    LET p == PlanEntries(v)
    IN IF MayReturn(v, p)
       THEN [p EXCEPT !.acts = <<[kind |-> "RETURN", amount |-> v.wallet - Keep(v, p.next)]>>]
       ELSE p

-----------------------------------------------------------------------------
(* One cycle.                                                              *)

ReadAccount ==
    /\ cyc.pc = "off"
    /\ \E unread \in SUBSET Coins, acct \in BOOLEAN :
          /\ IF unread = {} /\ acct THEN UNCHANGED faults ELSE Fault
          /\ cyc' = [cyc EXCEPT !.pc = "read", !.next = book,
                       !.read = [wallet |-> IF acct THEN wallet ELSE 0, acct |-> acct,
                                 at |-> open \ unread, unread |-> unread]]
    /\ UNCHANGED <<wallet, earn, open, book, gone, hidden>>

Views == {[wallet |-> cyc.read.wallet, acct |-> cyc.read.acct, at |-> cyc.read.at,
           unread |-> cyc.read.unread, earn |-> e, adopt |-> a, says |-> says] :
             e, a \in BOOLEAN, says \in [Coins -> IF gone THEN Says \ {"ENTER"} ELSE Says]}

\* Earn is read, and all is planned.  A position is held for any decision but
\* STAY.
ReadEarnAndPlan ==
    /\ cyc.pc = "read"
    /\ \E v \in Views :
          /\ IF v.earn THEN UNCHANGED faults ELSE Fault
          /\ v.adopt => Lost(v) # {}
          /\ \E p \in {Plan(v)} :
                cyc' = [cyc EXCEPT !.pc = "act", !.read = NotRead, !.acts = p.acts, !.next = p.next]
          /\ hidden' = (hidden \/ \E s \in open \cap v.unread : book[s].status # "OPEN")
    /\ UNCHANGED <<wallet, earn, open, book, gone>>

Acts(kind) == cyc.pc = "act" /\ cyc.acts # <<>> /\ Head(cyc.acts).kind = kind
Now == Head(cyc.acts)
Done(next) == cyc' = [cyc EXCEPT !.acts = Tail(@), !.next = next]

\* Both legs, or aborted: nothing that stays.
Enter ==
    /\ Acts("ENTER")
    /\ \/ /\ wallet' = wallet - Cost /\ open' = open \cup {Now.sym}
          /\ Done([cyc.next EXCEPT ![Now.sym] = Opened])
       \/ Done(cyc.next) /\ UNCHANGED <<wallet, open>>
    /\ UNCHANGED <<earn, book, gone, hidden, faults>>

\* Both legs, or incomplete: the book stays OPEN.
Exit ==
    /\ Acts("EXIT")
    /\ \/ /\ wallet' = wallet + IF Now.sym \in open THEN Cost ELSE 0
          /\ open' = open \ {Now.sym}
          /\ Done([cyc.next EXCEPT ![Now.sym] = Flat]) /\ UNCHANGED faults
       \/ Fault /\ Done(cyc.next) /\ UNCHANGED <<wallet, open>>
    /\ UNCHANGED <<earn, book, gone, hidden>>

\* An order that Earn does not take, or that is not sent, is waited for all
\* the same.
Redeem ==
    /\ Acts("REDEEM") /\ Done(cyc.next)
    /\ \/ /\ Now.amount <= staked /\ staked' = staked - Now.amount
          /\ order' = [order EXCEPT ![Now.link] = [state |-> "pending", amount |-> Now.amount]]
          /\ UNCHANGED faults
       \/ /\ IF Now.amount > staked THEN UNCHANGED faults ELSE Fault
          /\ UNCHANGED <<staked, order>>
    /\ UNCHANGED <<wallet, staking, open, book, gone, hidden>>

Return ==
    /\ Acts("RETURN") /\ Done(cyc.next)
    /\ \/ wallet' = wallet - Now.amount /\ staking' = Now.amount /\ UNCHANGED faults
       \/ Fault /\ UNCHANGED <<wallet, staking>>
    /\ UNCHANGED <<staked, order, open, book, gone, hidden>>

\* The cycle is over.  A redeem that no book names is looked up no more.
Ends(bk) ==
    /\ book' = [s \in Coins |-> IF bk[s].status = "REDEEMING" /\ bk[s].age < Timeout
                                THEN [bk[s] EXCEPT !.age = @ + 1] ELSE bk[s]]
    /\ order' = [l \in Links |-> IF l \in LinksOf(bk) \/ order[l].state = "pending"
                                 THEN order[l] ELSE NoOrder]
    /\ cyc' = Off
    /\ UNCHANGED <<wallet, staked, staking, open, gone, hidden>>

Save == cyc.pc = "act" /\ cyc.acts = <<>> /\ Ends(cyc.next) /\ UNCHANGED faults
Killed == Fault /\ cyc.pc # "off" /\ Ends(book)

Next ==
    \/ ReadAccount \/ ReadEarnAndPlan \/ Enter \/ Exit \/ Redeem \/ Return \/ Save \/ Killed
    \/ \E l \in Links : RedeemEnds(l) \/ RedeemFails(l)
    \/ StakeEnds \/ StakeFails \/ ConditionsGo

\* The timer starts cycles, whose steps follow one another (one is enabled in
\* every state, so that this is their weak fairness), and Earn ends its orders.
Spec ==
    /\ Init /\ [][Next]_vars /\ []<><<TRUE>>_cyc /\ WF_vars(StakeEnds)
    /\ \A l \in Links : WF_vars(RedeemEnds(l))

-----------------------------------------------------------------------------
(* Properties.                                                             *)

(* However the redeems, the entries and the kills fall, no entry is sent   *)
(* that the wallet does not cover: the account never borrows.  With one    *)
(* position open and no cycle at work, the wallet has the buffer; unless a *)
(* position that a killed cycle left out of the book was also unreadable.  *)
FundsKept ==
    /\ wallet >= 0
    /\ cyc.pc = "off" /\ Cardinality(open) = 1 => wallet >= Buffer \/ hidden

(* config.py and carry.yaml: the buffer stays in the account while a       *)
(* position is open.  The code keeps it for the first one only.            *)
BufferStays == cyc.pc = "off" /\ open # {} => wallet >= Buffer

(* Once nothing is worth entering, no USDT stays idle: every redeem that   *)
(* was asked for, abandoned or forgotten comes home, and the wallet keeps  *)
(* the buffer of the open positions and no more; unless a killed cycle     *)
(* left a position for the operator to adopt, who need never do it.        *)
Home ==
    /\ wallet - (IF open # {} THEN Buffer ELSE 0) < MinReturn
    /\ staking = 0 /\ \A l \in Links : order[l].state # "pending"
    /\ "REDEEMING" \notin Statuses(book)
LostPosition == \E s \in open : book[s].status # "OPEN"
IdleReturns == <>gone => <>[](Home \/ LostPosition)
=============================================================================
