--------------------------- MODULE CarryExecProofs ---------------------------
(***************************************************************************)
(* Proofs about CarryExec, for any steps, minimum, fee, quantity, foreign  *)
(* coins and tries: the types; a run that does not escalate ends hedged;   *)
(* no more is traded than was planned and is ours; the book tells what is  *)
(* on the exchange.  IInv says, for each loop of the run, where an order   *)
(* it has not read can be, and what book, run and such orders make of what *)
(* the exchange holds; Astray, where an order can be that it takes for     *)
(* refused, and what such orders can still make.                           *)
(***************************************************************************)
EXTENDS CarryExec, TLAPS

(* What the run is at: the order loop of a tag, between legs, or ended.    *)
Asking == run.pc \in {"send", "look", "resend", "poll", "answer"}
Work ==
    CASE run.pc = "enter" -> "P"
      [] run.pc = "buy" -> "S"
      [] run.pc = "close" -> "C"
      [] run.pc = "sell" -> "X"
      [] run.pc \in {"leg", "done", "failed"} -> run.pc
      [] OTHER -> run.link.tag

(* The order of a tag the run has not read the fate of, and the most it    *)
(* can still fill, and have filled.                                        *)
Has(o, tag) == \E l \in DOMAIN o : l.tag = tag
NoOrder == [st |-> "final", qty |-> 0, filled |-> 0, fee |-> 0]
The(o, tag) == IF Has(o, tag) THEN o[CHOOSE l \in DOMAIN o : l.tag = tag] ELSE NoOrder
Rest(d) == IF d.st = "open" THEN d.qty ELSE 0
Most(d) == d.filled + Rest(d)

(* There is one such order of a tag.                                       *)
Single(o) == \A l, m \in DOMAIN o : l.tag = m.tag => l = m
Sane(d, tag) ==
    /\ d.fee <= d.filled /\ (tag # "S" => d.fee = 0)
    /\ d.st = "open" => d.filled = 0 /\ d.fee = 0
OrdersSane == Single(orders) /\ \A l \in DOMAIN orders : Sane(orders[l], l.tag)

Entry == act.kind = "ENTER"

(* Where an unread order can be: in its loop, which then asks for it; or   *)
(* left behind, in a way the run knows of.                                 *)
Placed ==
    /\ Asking /\ Has(orders, run.link.tag) =>
          /\ run.pc # "send" /\ run.link \in DOMAIN orders
          /\ run.pc = "answer" => run.out.state = "unknown"
    /\ Has(orders, "P") => \/ Asking /\ Work = "P"
                           \/ Work = "C" /\ run.after = "unknown entry"
                           \/ Work = "done" /\ escalate
    /\ Has(orders, "S") => \/ Asking /\ Work = "S"
                           \/ book.pending # {} /\ Work \in {"C", "done"}
    /\ Has(orders, "C") => \/ Asking /\ Work = "C"
                           \/ Work \in {"done", "failed"}
                           \/ ~Entry /\ Work # "C" /\ "perp" \notin Range(run.legs)
    /\ Has(orders, "X") => \/ Asking /\ Work = "X"
                           \/ /\ book.pending # {} /\ Work # "failed"
                              /\ "spot" \notin Range(run.legs)
    /\ IF Entry THEN ~Has(orders, "X") ELSE ~Has(orders, "P") /\ ~Has(orders, "S")

(* Which loop runs in which action, with which legs to go.                 *)
Frame ==
    /\ Entry => act.perp = Quantity /\ act.legs = <<>> /\ run.legs = <<>>
    /\ ~Entry => act.legs # <<>>
    /\ act.kind = "EXIT" => act.perp = Unread
    /\ Range(run.legs) \subseteq Range(act.legs)
    /\ Work \in {"P", "S"} => Entry
    /\ Work \in {"X", "leg"} => ~Entry
    /\ Work = "C" => (run.after # "" <=> Entry)
    /\ Work # "C" => run.after = ""
    /\ Work = "X" => run.legs # <<>> /\ Head(run.legs) = "spot"
    /\ Work = "C" /\ ~Entry => run.legs # <<>> /\ Head(run.legs) = "perp"
    /\ Work \in {"done", "failed"} => run.legs = <<>>
    /\ Work = "failed" => escalate
    /\ Asking /\ Work \in {"S", "C"} => run.link.n < MaxOrders

(* What an answer says.                                                    *)
Answers ==
    /\ run.pc # "answer" => run.out = NoOutcome
    /\ run.out.state # "done" => run.out.filled = 0 /\ run.out.fee = 0
    /\ run.out.fee <= run.out.filled
    /\ run.pc = "answer" /\ Work # "S" => run.out.fee = 0
    /\ run.out.state = "nothing to reduce" =>
          Work = "C" /\ (short = 0 \/ run.after = "unknown entry")

(* What the book has of a trade under way.                                 *)
InBook ==
    /\ Work = "P" => /\ book.status = "FLAT" /\ book.perp = 0 /\ book.spot = 0
                     /\ book.dust < SpotMin /\ book.pending = {}
    /\ Work = "S" => /\ book.status = "OPEN" /\ book.perp = run.entered /\ book.spot = run.own
                     /\ book.spot + book.dust < SpotMin /\ book.pending = {}
                     /\ run.want + run.own = run.entered
    /\ Work = "C" /\ run.after = "excess" => book.status = "OPEN" /\ book.perp = run.entered
    /\ ~Entry /\ Work \notin {"done", "failed"} => book.status = "OPEN"
    /\ Work = "X" => run.want <= book.spot

(* What a loop has moved, and may still move.                              *)
Moved == run.got + run.out.filled
Moving ==
    /\ Work = "P" => Moved + Most(The(orders, "P")) <= Quantity /\ run.got = 0
    /\ Work = "S" => Moved + Most(The(orders, "S")) <= run.want + MaxOf(FeeMax, SpotMin)
    /\ Work = "C" => Moved + Most(The(orders, "C")) <= run.want
    /\ Work = "X" => Moved + Most(The(orders, "X")) <= run.want
    /\ Work # "X" => Most(The(orders, "X")) <= book.spot
    /\ Asking /\ Work = "P" => run.qty = Quantity
    /\ Asking /\ Work = "S" => run.got + run.qty <= run.want + MaxOf(FeeMax, SpotMin)
    /\ Asking /\ Work \in {"C", "X"} => run.got + run.qty <= run.want

(* Our coins are those in the book, with what the run has yet to put in it *)
(* and the orders it has not read; but for those of orders it takes for    *)
(* refused.                                                                *)
Quiet(tag) == strays[tag].open = 0 /\ strays[tag].got = 0
Drift == strays["S"].got - strays["X"].got
Bought == Ours - Drift
Held ==
    book.spot + book.dust
    + (IF Work = "S" THEN Moved - run.out.fee ELSE IF Work = "X" THEN - Moved ELSE 0)
Counted ==
    IF run.pc = "failed" THEN Foreign <= wallet
    ELSE Bought - slack = Held + The(orders, "S").filled - The(orders, "S").fee
                             - The(orders, "X").filled

(* An entry ends within its plan whatever its orders still fill.           *)
MostCoins == Quantity + MaxOf(FeeMax, SpotMin) + SpotMin
InPlan ==
    Entry =>
        /\ short + Rest(The(orders, "P")) <= Quantity
        /\ IF run.pc = "failed" THEN Bought - slack <= MostCoins
           ELSE Held + Most(The(orders, "S")) <= MostCoins

(* The short, against what the loop has closed of what it was to close.    *)
Base == IF act.perp # Unread \/ act.pos = Unread THEN book.perp ELSE act.pos
Closing == short + Moved + The(orders, "C").filled
EntryShort ==
    /\ Work = "P" /\ Quiet("P") => short <= The(orders, "P").filled + run.out.filled
    /\ Work = "S" => short <= run.entered /\ run.entered <= Quantity
    /\ Work = "C" /\ run.after = "excess" =>
          Closing <= run.entered /\ run.want <= run.entered
          /\ run.entered - run.want <= book.spot
LegShort ==
    ~Entry =>
        /\ act.pos # Unread => short <= act.pos
        /\ Work = "C" => \/ escalate
                         \/ Closing <= Base /\ (act.kind = "EXIT" => Closing <= run.want)
        /\ Work # "C" => escalate \/ short <= book.perp
        /\ act.kind = "EXIT" /\ "perp" \in Range(act.legs) /\ "perp" \notin Range(run.legs) =>
              escalate \/ short = 0
        /\ act.kind = "EXIT" /\ "perp" \notin Range(act.legs) => act.legs = <<"spot">>

(* A run that has ended has done so well.                                  *)
Ended ==
    run.pc = "done" /\ ~escalate /\ Quiet("P") =>
        /\ short <= book.perp /\ (short > 0 => book.status = "OPEN")
        /\ Entry => short <= book.spot + book.dust

(* Where an order taken for refused can be: its loop is told so, or has    *)
(* ended over it; and the most it can make of short and coins.             *)
Refused == run.pc = "answer" /\ run.out.state = "rejected"
Astray ==
    /\ ~Quiet("P") => /\ Entry /\ ~Has(orders, "P")
                      /\ run.pc = "done" \/ (Refused /\ Work = "P")
                      /\ short + strays["P"].open <= Quantity /\ short <= strays["P"].got
    /\ ~Quiet("S") => /\ Entry /\ ~Has(orders, "S")
                      /\ Work \in {"C", "done"} \/ (Refused /\ Work = "S")
                      /\ Held + strays["S"].open + strays["S"].got <= MostCoins
    /\ ~Quiet("X") => /\ ~Entry /\ ~Has(orders, "X") /\ Work # "failed"
                      /\ "spot" \notin Range(run.legs) \/ (Refused /\ Work = "X")
                      /\ strays["X"].open + strays["X"].got <= Held

IInv ==
    /\ ExecTypeOK /\ OrdersSane /\ Placed /\ Frame /\ Answers /\ InBook
    /\ Moving /\ Counted /\ InPlan /\ EntryShort /\ LegShort /\ Ended

-----------------------------------------------------------------------------
USE BookAssumption, ExecAssumption DEF Unread, MinOf, MaxOf

(* Orders.                                                                 *)

LEMMA TheIs ==
  ASSUME NEW o, Single(o), NEW l \in DOMAIN o
  PROVE  Has(o, l.tag) /\ The(o, l.tag) = o[l]
<1>1. Has(o, l.tag)
    BY DEF Has
<1>2. PICK m : m = CHOOSE k \in DOMAIN o : k.tag = l.tag
    OBVIOUS
<1>3. m \in DOMAIN o /\ m.tag = l.tag
    BY <1>2
<1>4. m = l
    BY <1>3 DEF Single
<1>. QED
    BY <1>1, <1>2, <1>4 DEF The

LEMMA TheNone == ASSUME NEW o, NEW tag, ~Has(o, tag) PROVE The(o, tag) = NoOrder
BY DEF The

LEMMA TheSome ==
  ASSUME NEW o, NEW tag, Single(o), Has(o, tag)
  PROVE  \E l \in DOMAIN o : l.tag = tag /\ The(o, tag) = o[l]
<1>1. PICK l \in DOMAIN o : l.tag = tag
    BY DEF Has
<1>. QED
    BY <1>1, TheIs

(* What the orders of the other tags are, they stay.                       *)
LEMMA Others ==
  ASSUME NEW o, NEW o2, Single(o), Single(o2), NEW tag,
         \A l : l.tag = tag => (l \in DOMAIN o <=> l \in DOMAIN o2),
         \A l \in DOMAIN o : l.tag = tag => o2[l] = o[l]
  PROVE  (Has(o2, tag) <=> Has(o, tag)) /\ The(o2, tag) = The(o, tag)
<1>1. Has(o2, tag) <=> Has(o, tag)
    BY DEF Has
<1>2. CASE Has(o, tag)
  <2>1. PICK l \in DOMAIN o : l.tag = tag /\ The(o, tag) = o[l]
      BY <1>2, TheSome
  <2>2. l \in DOMAIN o2 /\ The(o2, tag) = o2[l]
      BY <2>1, TheIs
  <2>. QED
      BY <1>1, <2>1, <2>2
<1>3. CASE ~Has(o, tag)
    BY <1>1, <1>3, TheNone
<1>. QED
    BY <1>2, <1>3

LEMMA Adding ==
  ASSUME NEW o, NEW l, NEW d, NEW o2, Single(o), ~Has(o, l.tag),
         DOMAIN o2 = DOMAIN o \cup {l}, o2[l] = d, \A k \in DOMAIN o : o2[k] = o[k]
  PROVE  /\ Single(o2) /\ Has(o2, l.tag) /\ The(o2, l.tag) = d
         /\ \A tag : tag # l.tag => (Has(o2, tag) <=> Has(o, tag)) /\ The(o2, tag) = The(o, tag)
<1>1. \A k \in DOMAIN o : k.tag # l.tag /\ k # l
    BY DEF Has
<1>2. DOMAIN o2 = DOMAIN o \cup {l} /\ o2[l] = d /\ \A k \in DOMAIN o : o2[k] = o[k]
    OBVIOUS
<1>3. Single(o2)
    BY <1>1, <1>2 DEF Single
<1>4. Has(o2, l.tag) /\ The(o2, l.tag) = d
    BY <1>2, <1>3, TheIs
<1>5. ASSUME NEW tag, tag # l.tag
      PROVE  (Has(o2, tag) <=> Has(o, tag)) /\ The(o2, tag) = The(o, tag)
  <2>1. \A k : k.tag = tag => (k \in DOMAIN o <=> k \in DOMAIN o2)
      BY <1>2, <1>5
  <2>2. \A k \in DOMAIN o : k.tag = tag => o2[k] = o[k]
      BY <1>2
  <2>. QED
      BY <1>3, <2>1, <2>2, Others
<1>. QED
    BY <1>3, <1>4, <1>5

LEMMA Matching ==
  ASSUME NEW o, NEW l \in DOMAIN o, NEW d, NEW o2, Single(o),
         DOMAIN o2 = DOMAIN o, o2[l] = d, \A k \in DOMAIN o : k # l => o2[k] = o[k]
  PROVE  /\ Single(o2) /\ Has(o2, l.tag) /\ The(o2, l.tag) = d /\ The(o, l.tag) = o[l]
         /\ Has(o, l.tag)
         /\ \A tag : tag # l.tag => (Has(o2, tag) <=> Has(o, tag)) /\ The(o2, tag) = The(o, tag)
<1>1. Single(o2)
    BY DEF Single
<1>2. /\ Has(o2, l.tag) /\ The(o2, l.tag) = d /\ The(o, l.tag) = o[l] /\ Has(o, l.tag)
    BY <1>1, TheIs
<1>3. ASSUME NEW tag, tag # l.tag
      PROVE  (Has(o2, tag) <=> Has(o, tag)) /\ The(o2, tag) = The(o, tag)
  <2>1. \A k : k.tag = tag => (k \in DOMAIN o <=> k \in DOMAIN o2)
      OBVIOUS
  <2>2. \A k \in DOMAIN o : k.tag = tag => o2[k] = o[k]
      BY <1>3
  <2>. QED
      BY <1>1, <2>1, <2>2, Others
<1>. QED
    BY <1>1, <1>2, <1>3

LEMMA Removing ==
  ASSUME NEW o, NEW l \in DOMAIN o, NEW o2, Single(o), o2 = Restrict(o, DOMAIN o \ {l})
  PROVE  /\ Single(o2) /\ ~Has(o2, l.tag) /\ The(o, l.tag) = o[l] /\ The(o2, l.tag) = NoOrder
         /\ DOMAIN o2 \subseteq DOMAIN o /\ \A k \in DOMAIN o2 : o2[k] = o[k]
         /\ \A tag : tag # l.tag => (Has(o2, tag) <=> Has(o, tag)) /\ The(o2, tag) = The(o, tag)
<1>1. DOMAIN o2 = DOMAIN o \ {l} /\ \A k \in DOMAIN o2 : o2[k] = o[k]
    BY DEF Restrict
<1>2. Single(o2)
    BY <1>1 DEF Single
<1>3. ~Has(o2, l.tag)
    BY <1>1 DEF Has, Single
<1>4. The(o, l.tag) = o[l] /\ The(o2, l.tag) = NoOrder
    BY <1>3, TheIs, TheNone
<1>5. ASSUME NEW tag, tag # l.tag
      PROVE  (Has(o2, tag) <=> Has(o, tag)) /\ The(o2, tag) = The(o, tag)
  <2>1. \A k : k.tag = tag => (k \in DOMAIN o <=> k \in DOMAIN o2)
      BY <1>1, <1>5
  <2>2. \A k \in DOMAIN o : k.tag = tag => o2[k] = o[k]
      BY <1>1, <2>1
  <2>. QED
      BY <1>2, <2>1, <2>2, Others, ZenonT(20)
<1>. QED
    BY <1>1, <1>2, <1>3, <1>4, <1>5

-----------------------------------------------------------------------------
(* The types.                                                              *)

Legs == {<<>>, <<"spot">>, <<"perp">>, <<"spot", "perp">>, <<"perp", "spot">>}
PCs == {"enter", "buy", "leg", "close", "sell",
        "send", "look", "resend", "poll", "answer", "done", "failed"}
Afters == {"", "unknown entry", "excess"}

LEMMA LegsAre ==
  ASSUME NEW legs \in Legs
  PROVE  /\ Range(<<>>) = {}
         /\ legs # <<>> => /\ Tail(legs) \in Legs /\ Range(Tail(legs)) \subseteq Range(legs)
                           /\ Range(legs) = {Head(legs)} \cup Range(Tail(legs))
                           /\ Head(legs) \in Range(legs) /\ Head(legs) \notin Range(Tail(legs))
                           /\ Head(legs) \in {"spot", "perp"}
<1>1. Range(<<>>) = {}
    BY DEF Range
<1>2. /\ Range(<<"perp">>) = {"perp"} /\ Range(<<"spot">>) = {"spot"}
      /\ Range(<<"perp", "spot">>) = {"perp", "spot"}
      /\ Range(<<"spot", "perp">>) = {"perp", "spot"}
    BY DEF Range
<1>3. /\ Tail(<<"perp", "spot">>) = <<"spot">> /\ Tail(<<"spot", "perp">>) = <<"perp">>
      /\ Tail(<<"perp">>) = <<>> /\ Tail(<<"spot">>) = <<>>
      /\ Head(<<"perp">>) = "perp" /\ Head(<<"spot">>) = "spot"
      /\ Head(<<"perp", "spot">>) = "perp" /\ Head(<<"spot", "perp">>) = "spot"
    OBVIOUS
<1>. QED
    BY <1>1, <1>2, <1>3 DEF Legs

LEMMA RunIs ==
  ASSUME NEW r \in Run
  PROVE  /\ r.pc \in PCs /\ r.legs \in Legs /\ r.link \in Link /\ r.qty \in Nat
         /\ r.sent \in BOOLEAN /\ r.out \in Outcome /\ r.late \in BOOLEAN /\ r.want \in Nat
         /\ r.got \in Nat /\ r.entered \in Nat /\ r.own \in Nat /\ r.after \in Afters
         /\ r.link.tag \in Tags /\ r.link.n \in 0..MaxOrders
         /\ r.out.filled \in Nat /\ r.out.fee \in Nat
BY DEF Run, PCs, Legs, Afters, Link, Outcome

LEMMA NoOutcomeIs ==
  NoOutcome \in Outcome /\ NoOutcome.filled = 0 /\ NoOutcome.fee = 0 /\ NoOutcome.state = "none"
BY DEF NoOutcome, Outcome

LEMMA BeginIs ==
  ASSUME act \in Action, NEW pc \in PCs
  PROVE  /\ Begin(pc) \in Run /\ Begin(pc).pc = pc /\ Begin(pc).legs = act.legs
         /\ Begin(pc).out = NoOutcome /\ Begin(pc).got = 0 /\ Begin(pc).after = ""
         /\ Begin(pc).late = FALSE
BY NoOutcomeIs DEF Begin, Action, Run, PCs, Link, Tags

LEMMA EndIs ==
  ASSUME act \in Action, NEW pc \in PCs
  PROVE  /\ End(pc) \in Run /\ End(pc).pc = pc /\ End(pc).legs = <<>>
         /\ End(pc).out = NoOutcome /\ End(pc).got = 0 /\ End(pc).after = ""
<1>1. Begin(pc) \in Run /\ Begin(pc).pc = pc /\ Begin(pc).out = NoOutcome
      /\ Begin(pc).got = 0 /\ Begin(pc).after = ""
    BY BeginIs
<1>. QED
    BY <1>1 DEF End, Run

LEMMA NextLegIs ==
  ASSUME act \in Action, NEW r \in Run, r.legs # <<>>
  PROVE  /\ NextLeg(r) \in Run /\ NextLeg(r).pc = "leg" /\ NextLeg(r).legs = Tail(r.legs)
         /\ NextLeg(r).out = NoOutcome /\ NextLeg(r).got = 0 /\ NextLeg(r).after = ""
<1>1. Begin("leg") \in Run /\ Begin("leg").pc = "leg" /\ Begin("leg").out = NoOutcome
      /\ Begin("leg").got = 0 /\ Begin("leg").after = ""
    BY BeginIs DEF PCs
<1>2. Tail(r.legs) \in Legs
    BY RunIs, LegsAre
<1>. QED
    BY <1>1, <1>2 DEF NextLeg, Run, Legs

LEMMA StartCloseIs ==
  ASSUME act \in Action, NEW r \in Run, NEW qty \in Nat, NEW after \in Afters
  PROVE  LET c == StartClose(r, qty, after)
         IN /\ c \in Run /\ c.pc = "close" /\ c.legs = r.legs /\ c.entered = r.entered
            /\ c.want = qty /\ c.got = 0 /\ c.out = NoOutcome /\ c.after = after
<1>1. Begin("close") \in Run /\ Begin("close").pc = "close" /\ Begin("close").out = NoOutcome
      /\ Begin("close").got = 0
    BY BeginIs DEF PCs
<1>2. r.legs \in Legs /\ r.entered \in Nat
    BY RunIs
<1>3. [tag |-> "C", n |-> 0] \in Link
    BY DEF Link, Tags
<1>. QED
    BY <1>1, <1>2, <1>3 DEF StartClose, Run, Legs, Afters

LEMMA AskIs ==
  ASSUME NEW r \in Run, NEW tag \in Tags, NEW n \in 0..MaxOrders, NEW qty \in Nat
  PROVE  LET a == Ask(r, tag, n, qty)
         IN /\ a \in Run /\ a.pc = "send" /\ a.link = [tag |-> tag, n |-> n] /\ a.qty = qty
            /\ a.out = NoOutcome /\ a.legs = r.legs /\ a.want = r.want /\ a.got = r.got
            /\ a.entered = r.entered /\ a.own = r.own /\ a.after = r.after
<1>1. [tag |-> tag, n |-> n] \in Link
    BY DEF Link
<1>. QED
    BY <1>1, NoOutcomeIs DEF Ask, Run

LEMMA AgainIs ==
  ASSUME run \in Run, run.link.n < MaxOrders, NEW pc \in PCs, NEW got \in Nat
  PROVE  LET a == Again(pc, got)
         IN /\ a \in Run /\ a.pc = pc /\ a.got = got /\ a.out = NoOutcome
            /\ a.legs = run.legs /\ a.want = run.want /\ a.entered = run.entered
            /\ a.own = run.own /\ a.after = run.after
<1>1. PICK link : link = [run.link EXCEPT !.n = @ + 1]
    OBVIOUS
<1>2. link \in Link
    BY <1>1, RunIs DEF Link
<1>3. Again(pc, got) = [run EXCEPT !.pc = pc, !.got = got, !.link = link, !.qty = 0,
                                   !.sent = FALSE, !.out = NoOutcome]
    BY <1>1 DEF Again
<1>4. [run EXCEPT !.pc = pc, !.got = got, !.link = link, !.qty = 0,
                  !.sent = FALSE, !.out = NoOutcome] \in Run
    BY <1>2, NoOutcomeIs DEF Run, PCs
<1>5. Again(pc, got).link = link /\ Again(pc, got).pc = pc /\ Again(pc, got).got = got
      /\ Again(pc, got).out = NoOutcome /\ Again(pc, got).legs = run.legs
      /\ Again(pc, got).want = run.want /\ Again(pc, got).entered = run.entered
      /\ Again(pc, got).own = run.own /\ Again(pc, got).after = run.after
    BY <1>3 DEF Run
<1>. QED
    BY <1>3, <1>4, <1>5

LEMMA AnsweredIs ==
  ASSUME run \in Run, NEW state \in {"nothing to reduce", "rejected", "unknown"}
  PROVE  LET a == Answered(state)
         IN /\ a \in Run /\ a.pc = "answer" /\ a.out \in Outcome /\ a.out.state = state
            /\ a.out.filled = 0 /\ a.out.fee = 0
            /\ a.link = run.link /\ a.qty = run.qty /\ a.legs = run.legs /\ a.want = run.want
            /\ a.got = run.got /\ a.entered = run.entered /\ a.own = run.own
            /\ a.after = run.after
<1>1. [NoOutcome EXCEPT !.state = state] \in Outcome
    BY NoOutcomeIs DEF Outcome
<1>2. /\ [NoOutcome EXCEPT !.state = state].state = state
      /\ [NoOutcome EXCEPT !.state = state].filled = 0
      /\ [NoOutcome EXCEPT !.state = state].fee = 0
    BY NoOutcomeIs DEF Outcome
<1>. QED
    BY <1>1, <1>2 DEF Answered, Run

-----------------------------------------------------------------------------
(* What the types and OrdersSane say of the numbers.                       *)

LEMMA OrderIs ==
  ASSUME NEW d \in Order
  PROVE  /\ d.st \in {"open", "final"} /\ d.qty \in Nat /\ d.filled \in Nat /\ d.fee \in Nat
         /\ Rest(d) \in Nat /\ Most(d) \in Nat /\ d.filled <= Most(d)
BY DEF Order, Rest, Most

LEMMA NoOrderIs ==
  /\ NoOrder \in Order /\ NoOrder.filled = 0 /\ NoOrder.fee = 0 /\ Rest(NoOrder) = 0
  /\ Most(NoOrder) = 0 /\ \A tag : Sane(NoOrder, tag)
BY DEF NoOrder, Order, Rest, Most, Sane

LEMMA TheTypeOf ==
  ASSUME NEW o, Single(o), \A l \in DOMAIN o : o[l] \in Order /\ Sane(o[l], l.tag), NEW tag
  PROVE  The(o, tag) \in Order /\ Sane(The(o, tag), tag)
<1>1. CASE Has(o, tag)
    BY <1>1, TheSome
<1>2. CASE ~Has(o, tag)
    BY <1>2, TheNone, NoOrderIs
<1>. QED
    BY <1>1, <1>2

LEMMA TheType ==
  ASSUME ExecTypeOK, OrdersSane, NEW tag
  PROVE  The(orders, tag) \in Order /\ Sane(The(orders, tag), tag)
BY TheTypeOf DEF ExecTypeOK, OrdersSane

LEMMA Numbers ==
  ASSUME ExecTypeOK, OrdersSane
  PROVE  /\ short \in Nat /\ wallet \in Nat /\ slack \in Nat /\ escalate \in BOOLEAN
         /\ book.status \in {"FLAT", "OPEN"} /\ book.perp \in Nat /\ book.spot \in Nat
         /\ book.dust \in Nat /\ book.pending \in SUBSET Link
         /\ act.kind \in {"ENTER", "EXIT", "TRIM", "REBALANCE"} /\ act.legs \in Legs
         /\ act.perp \in Nat \cup {-1} /\ act.spot \in Nat /\ act.pos \in Nat \cup {-1}
         /\ run \in Run /\ run.qty \in Nat /\ run.want \in Nat /\ run.got \in Nat
         /\ run.entered \in Nat /\ run.own \in Nat /\ run.out.filled \in Nat /\ run.out.fee \in Nat
         /\ Moved \in Nat /\ Drift \in Int
         /\ \A tag \in Tags : strays[tag].open \in Nat /\ strays[tag].got \in Nat
         /\ \A tag : /\ The(orders, tag).filled \in Nat /\ The(orders, tag).fee \in Nat
                     /\ Most(The(orders, tag)) \in Nat /\ Rest(The(orders, tag)) \in Nat
                     /\ The(orders, tag).filled <= Most(The(orders, tag))
                     /\ The(orders, tag).fee <= The(orders, tag).filled
<1>1. /\ short \in Nat /\ wallet \in Nat /\ slack \in Nat /\ escalate \in BOOLEAN
      /\ book \in Book /\ act \in Action /\ run \in Run
    BY DEF ExecTypeOK
<1>2. /\ run.qty \in Nat /\ run.want \in Nat /\ run.got \in Nat
      /\ run.entered \in Nat /\ run.own \in Nat /\ run.out.filled \in Nat /\ run.out.fee \in Nat
    BY <1>1, RunIs
<1>3. ASSUME NEW tag
      PROVE  /\ The(orders, tag).filled \in Nat /\ The(orders, tag).fee \in Nat
             /\ Most(The(orders, tag)) \in Nat /\ Rest(The(orders, tag)) \in Nat
             /\ The(orders, tag).filled <= Most(The(orders, tag))
             /\ The(orders, tag).fee <= The(orders, tag).filled
    BY TheType, OrderIs DEF Sane
<1>4. Moved \in Nat
    BY <1>2 DEF Moved
<1>5. /\ book.status \in {"FLAT", "OPEN"} /\ book.perp \in Nat /\ book.spot \in Nat
      /\ book.dust \in Nat /\ book.pending \in SUBSET Link
    BY <1>1 DEF Book
<1>6. /\ act.kind \in {"ENTER", "EXIT", "TRIM", "REBALANCE"} /\ act.legs \in Legs
      /\ act.perp \in Nat \cup {-1} /\ act.spot \in Nat /\ act.pos \in Nat \cup {-1}
    BY <1>1 DEF Action, Legs
<1>7. \A tag \in Tags : strays[tag].open \in Nat /\ strays[tag].got \in Nat
    BY DEF ExecTypeOK, Stray
<1>8. Drift \in Int
    BY <1>7 DEF Drift, Tags
<1>. QED
    BY <1>1, <1>2, <1>3, <1>4, <1>5, <1>6, <1>7, <1>8

(* The loop of an order that is asked for is that of its tag.              *)
LEMMA WorkIs ==
  ASSUME ExecTypeOK
  PROVE  /\ Asking => Work = run.link.tag
         /\ Work \in {"P", "S", "C", "X", "leg", "done", "failed"}
         /\ (Work = "leg" <=> run.pc = "leg") /\ (Work = "done" <=> run.pc = "done")
         /\ (Work = "failed" <=> run.pc = "failed")
         /\ Work = "P" <=> run.pc = "enter" \/ (Asking /\ run.link.tag = "P")
         /\ Work = "S" <=> run.pc = "buy" \/ (Asking /\ run.link.tag = "S")
         /\ Work = "C" <=> run.pc = "close" \/ (Asking /\ run.link.tag = "C")
         /\ Work = "X" <=> run.pc = "sell" \/ (Asking /\ run.link.tag = "X")
<1>1. run.pc \in PCs /\ run.link.tag \in Tags
    BY RunIs DEF ExecTypeOK
<1>. QED
    BY <1>1 DEF Work, Asking, PCs, Tags

(* No order is taken for refused, and none of those moves.                 *)
LEMMA StraysStay ==
  ASSUME UNCHANGED strays
  PROVE  /\ Drift' = Drift /\ (wallet' = wallet => Bought' = Bought)
         /\ Quiet("P")' <=> Quiet("P")
BY DEF Drift, Bought, Ours, Quiet

(* Before an order is answered none is taken for refused.                  *)
LEMMA NotRefused ==
  ASSUME IInv, Astray, run.pc # "answer"
  PROVE  /\ Work = "P" => Quiet("P")
         /\ Work \in {"P", "S", "X"} => Quiet("S") /\ Quiet("X")
         /\ run.pc # "done" => Quiet("P")
         /\ ~Quiet("S") => Entry /\ Work \in {"C", "done"}
         /\ ~Quiet("X") => ~Entry /\ "spot" \notin Range(run.legs)
<1>1. run.legs # <<>> => Head(run.legs) \in Range(run.legs)
    BY RunIs, LegsAre DEF IInv, ExecTypeOK
<1>2. Work = "X" => "spot" \in Range(run.legs)
    BY <1>1 DEF IInv, Frame
<1>3. Work \in {"P", "S"} => Entry
    BY DEF IInv, Frame
<1>. QED
    BY <1>2, <1>3, WorkIs DEF IInv, Astray, Refused

-----------------------------------------------------------------------------
(* The exchange moves.                                                     *)

LEMMA DeadlineKeeps == IInv /\ Deadline => IInv'
<1> SUFFICES ASSUME IInv, Deadline PROVE IInv'
    OBVIOUS
<1> USE DEF IInv
<1>1. /\ UNCHANGED <<short, wallet, orders, strays, book, act, escalate, slack>>
      /\ run' = [run EXCEPT !.late = TRUE] /\ run \in Run
    BY DEF Deadline, ExecTypeOK
<1>2. /\ run' \in Run /\ run'.pc = run.pc /\ run'.legs = run.legs /\ run'.link = run.link
      /\ run'.qty = run.qty /\ run'.out = run.out /\ run'.want = run.want /\ run'.got = run.got
      /\ run'.entered = run.entered /\ run'.own = run.own /\ run'.after = run.after
    BY <1>1 DEF Run
<1>3. Work' = Work /\ Asking' = Asking /\ Moved' = Moved /\ Entry' = Entry
    BY <1>1, <1>2 DEF Work, Asking, Moved, Entry
<1>4. ExecTypeOK' /\ OrdersSane'
    BY <1>1, <1>2 DEF ExecTypeOK, OrdersSane
<1>5. Placed'
    BY <1>1, <1>2, <1>3 DEF Placed
<1>6. Frame'
    BY <1>1, <1>2, <1>3 DEF Frame
<1>7. Answers'
    BY <1>1, <1>2, <1>3 DEF Answers
<1>8. InBook' /\ Moving'
    BY <1>1, <1>2, <1>3 DEF InBook, Moving
<1>9. Held' = Held /\ Bought' = Bought
    BY <1>1, <1>2, <1>3, StraysStay DEF Held, Bought, Ours
<1>10. Counted' /\ InPlan'
    BY <1>1, <1>2, <1>3, <1>9 DEF Counted, InPlan
<1>11. EntryShort' /\ LegShort' /\ Ended'
    BY <1>1, <1>2, <1>3, StraysStay DEF EntryShort, LegShort, Ended, Closing, Base
<1>. QED
    BY <1>4, <1>5, <1>6, <1>7, <1>8, <1>10, <1>11

(* The book, the run, and the loop it is in stay.                          *)
LEMMA RunStays ==
  ASSUME UNCHANGED <<book, act, run, escalate>>
  PROVE  /\ Work' = Work /\ Asking' = Asking /\ Moved' = Moved /\ Entry' = Entry /\ Held' = Held
         /\ (Frame => Frame') /\ (InBook => InBook')
<1>1. Work' = Work /\ Asking' = Asking /\ Moved' = Moved /\ Entry' = Entry
    BY DEF Work, Asking, Moved, Entry
<1>2. Held' = Held
    BY <1>1 DEF Held
<1>3. Frame => Frame'
    BY <1>1 DEF Frame
<1>4. InBook => InBook'
    BY <1>1 DEF InBook
<1>. QED
    BY <1>1, <1>2, <1>3, <1>4

LEMMA DeleverageKeeps == IInv /\ Deleverage => IInv'
<1> SUFFICES ASSUME IInv, Deleverage PROVE IInv'
    OBVIOUS
<1> USE DEF IInv
<1>1. /\ UNCHANGED <<wallet, orders, strays, book, act, run, escalate, slack>>
      /\ short' \in Nat /\ short' <= short
    BY Numbers DEF Deleverage
<1>2. /\ Work' = Work /\ Asking' = Asking /\ Moved' = Moved /\ Entry' = Entry /\ Held' = Held
      /\ Frame' /\ InBook'
    BY <1>1, RunStays
<1>3. ExecTypeOK' /\ OrdersSane'
    BY <1>1 DEF ExecTypeOK, OrdersSane
<1>4. Placed'
    BY <1>1, <1>2 DEF Placed
<1>5. Answers'
  <2>1. short = 0 => short' = 0
      BY <1>1, Numbers
  <2>. QED
      BY <1>1, <1>2, <2>1 DEF Answers
<1>6. Moving'
    BY <1>1, <1>2 DEF Moving
<1>7. Counted'
    BY <1>1, <1>2, StraysStay DEF Counted, Bought, Ours
<1>8. InPlan'
    BY <1>1, <1>2, Numbers, StraysStay DEF InPlan, Bought, Ours
<1>9. EntryShort'
    BY <1>1, <1>2, Numbers, StraysStay DEF EntryShort, Closing
<1>10. LegShort'
    BY <1>1, <1>2, Numbers DEF LegShort, Closing, Base
<1>11. Ended'
    BY <1>1, <1>2, Numbers, StraysStay DEF Ended
<1>. QED
    BY <1>2, <1>3, <1>4, <1>5, <1>6, <1>7, <1>8, <1>9, <1>10, <1>11

(* A match turns what an order could fill into what it has filled.         *)
LEMMA MatchKeeps == ASSUME IInv, NEW l \in DOMAIN orders, Match(l) PROVE IInv'
<1> USE DEF IInv
<1>1. PICK f \in 0..orders[l].qty, fee \in 0..FeeMax, taken \in 0..FeeMax :
          /\ Fills(l.tag, orders[l].qty, f, fee, taken)
          /\ orders' = [orders EXCEPT ![l].st = "final", ![l].filled = f, ![l].fee = fee]
          /\ slack' = slack + fee - taken
    BY DEF Match
<1>2. /\ orders[l].st = "open"
      /\ fee <= f /\ taken \in {0, fee} /\ (l.tag # "S" => fee = 0)
      /\ l.tag = "C" => f <= short
      /\ l.tag = "X" => f <= wallet
      /\ orders' = [orders EXCEPT ![l].st = "final", ![l].filled = f, ![l].fee = fee]
      /\ short' = CASE l.tag = "P" -> short + f
                    [] l.tag = "C" -> short - f
                    [] OTHER -> short
      /\ wallet' = CASE l.tag = "S" -> wallet + f - taken
                     [] l.tag = "X" -> wallet - f
                     [] OTHER -> wallet
      /\ slack' = slack + fee - taken
    BY <1>1 DEF Match, Fills
<1>3. UNCHANGED <<strays, book, act, run, escalate>> /\ Drift' = Drift /\ Drift \in Int
    BY StraysStay, Numbers DEF Match
<1>4. orders[l] \in Order /\ l \in Link /\ l.tag \in Tags /\ Single(orders) /\ Sane(orders[l], l.tag)
    BY DEF ExecTypeOK, OrdersSane, Link
<1>5. orders[l].qty \in Nat /\ f \in Nat /\ fee \in Nat /\ taken \in Nat /\ f <= orders[l].qty
      /\ taken <= fee /\ FeeMax \in Nat
    BY <1>2, <1>4, OrderIs
<1>6. PICK d : d = [orders[l] EXCEPT !.st = "final", !.filled = f, !.fee = fee]
    OBVIOUS
<1>7. d \in Order /\ d.st = "final" /\ d.filled = f /\ d.fee = fee
    BY <1>4, <1>5, <1>6 DEF Order
<1>8. DOMAIN orders' = DOMAIN orders /\ orders'[l] = d /\ \A k \in DOMAIN orders : k # l => orders'[k] = orders[k]
    BY <1>2, <1>6
<1>9. /\ Single(orders') /\ The(orders', l.tag) = d /\ The(orders, l.tag) = orders[l]
      /\ Has(orders, l.tag) /\ Has(orders', l.tag)
      /\ \A tag : tag # l.tag => /\ Has(orders', tag) <=> Has(orders, tag)
                                 /\ The(orders', tag) = The(orders, tag)
    BY <1>4, <1>8, Matching
<1>10. \A tag : Has(orders', tag) <=> Has(orders, tag)
    BY <1>9
<1>11. /\ The(orders', l.tag).filled = f /\ The(orders', l.tag).fee = fee
       /\ The(orders, l.tag).filled = 0 /\ The(orders, l.tag).fee = 0
       /\ Rest(The(orders', l.tag)) = 0 /\ Most(The(orders', l.tag)) = f
       /\ Rest(The(orders, l.tag)) = orders[l].qty /\ Most(The(orders, l.tag)) = orders[l].qty
    BY <1>2, <1>4, <1>5, <1>7, <1>9 DEF Rest, Most, Sane
<1>12. \A tag : Most(The(orders', tag)) <= Most(The(orders, tag))
    BY <1>5, <1>9, <1>11, Numbers
<1>13. ExecTypeOK'
  <2>1. short' \in Nat
      BY <1>2, <1>5, Numbers
  <2>2. wallet' \in Nat
    <3>1. wallet \in Nat
        BY Numbers
    <3>2. CASE l.tag = "S"
        BY <1>2, <1>5, <3>1, <3>2
    <3>3. CASE l.tag # "S"
        BY <1>2, <1>5, <3>1, <3>3
    <3>. QED
        BY <3>2, <3>3
  <2>3. slack' \in Nat
      BY <1>2, <1>5, Numbers
  <2>4. \A k \in DOMAIN orders' : orders'[k] \in Order
      BY <1>7, <1>8 DEF ExecTypeOK
  <2>. QED
      BY <1>3, <1>8, <2>1, <2>2, <2>3, <2>4 DEF ExecTypeOK
<1>14. OrdersSane'
  <2>1. Sane(d, l.tag)
      BY <1>2, <1>7 DEF Sane
  <2>. QED
      BY <1>8, <1>9, <2>1 DEF OrdersSane
<1>15. \A tag : Most(The(orders', tag)) \in Nat
  <2>1. ASSUME NEW tag PROVE The(orders', tag) \in Order
      BY <1>13, <1>14, TheTypeOf DEF ExecTypeOK, OrdersSane
  <2>. QED
      BY <2>1, OrderIs
<1>16. /\ Work' = Work /\ Asking' = Asking /\ Moved' = Moved /\ Entry' = Entry /\ Held' = Held
       /\ Frame' /\ InBook'
    BY <1>3, RunStays
<1>17. Placed'
    BY <1>3, <1>8, <1>10, <1>16 DEF Placed
<1>18. /\ l.tag = "P" => Entry /\ (\/ Work = "P"
                                   \/ Work = "C" /\ run.after = "unknown entry"
                                   \/ Work = "done" /\ escalate)
       /\ l.tag = "S" => Entry /\ Work \in {"S", "C", "done"}
       /\ l.tag = "X" => ~Entry /\ Work # "failed"
    BY <1>9, WorkIs DEF Placed
<1>19. l.tag # "P" => short' <= short
    BY <1>2, <1>5, Numbers
<1>20. Answers'
  <2>1. l.tag # "P" /\ short = 0 => short' = 0
      BY <1>13, <1>19, Numbers DEF ExecTypeOK
  <2>2. run.out.state = "nothing to reduce" => short' = 0 \/ run.after = "unknown entry"
      BY <1>18, <2>1 DEF Answers
  <2>. QED
      BY <1>3, <1>16, <2>2 DEF Answers
<1>21. Moving'
  <2>1. /\ Work = "P" => Moved + Most(The(orders', "P")) <= Quantity
        /\ Work = "S" => Moved + Most(The(orders', "S")) <= run.want + MaxOf(FeeMax, SpotMin)
        /\ Work = "C" => Moved + Most(The(orders', "C")) <= run.want
        /\ Work = "X" => Moved + Most(The(orders', "X")) <= run.want
        /\ Work # "X" => Most(The(orders', "X")) <= book.spot
    <3>1. \A tag : Most(The(orders, tag)) \in Nat /\ Most(The(orders', tag)) \in Nat
        BY <1>15, Numbers
    <3>. QED
        BY <1>12, <3>1, Numbers DEF Moving
  <2>. QED
      BY <1>3, <1>16, <2>1 DEF Moving
<1>22. Counted'
  <2>1. CASE run.pc = "failed"
    <3>1. wallet' = wallet
        BY <1>2, <1>18, <2>1, WorkIs
    <3>. QED
        BY <1>3, <2>1, <3>1 DEF Counted
  <2>2. CASE run.pc # "failed"
    <3>1. Bought - slack = Held + The(orders, "S").filled - The(orders, "S").fee
                              - The(orders, "X").filled
        BY <2>2 DEF Counted
    <3>2. Held \in Int
        BY Numbers, WorkIs DEF Held
    <3>3. Bought' - slack' = Held + The(orders', "S").filled - The(orders', "S").fee
                                - The(orders', "X").filled
      <4>1. /\ The(orders, "S").filled \in Nat /\ The(orders, "S").fee \in Nat
            /\ The(orders, "X").filled \in Nat /\ wallet \in Nat /\ slack \in Nat /\ Foreign \in Nat
          BY Numbers
      <4>5. Bought = wallet - Foreign - Drift /\ Bought' = wallet' - Foreign - Drift
          BY <1>3 DEF Bought, Ours
      <4>6. Bought \in Int /\ Bought' \in Int /\ slack' \in Nat
          BY <1>3, <1>13, <4>1, <4>5 DEF ExecTypeOK
      <4>2. CASE l.tag = "S"
        <5>1. /\ The(orders', "X") = The(orders, "X") /\ wallet' = wallet + f - taken
              /\ The(orders, "S").filled = 0 /\ The(orders, "S").fee = 0
              /\ The(orders', "S").filled = f /\ The(orders', "S").fee = fee
              /\ slack' = slack + fee - taken
            BY <1>2, <1>9, <1>11, <4>2
        <5>2. Bought' - slack' = Bought - slack + f - fee
            BY <1>3, <1>5, <4>1, <4>5, <5>1
        <5>3. Bought - slack = Held - The(orders, "X").filled
            BY <3>1, <3>2, <4>1, <5>1
        <5>4. Bought' - slack' = Held - The(orders, "X").filled + f - fee
            BY <1>5, <5>2, <5>3
        <5>. QED
            BY <1>5, <3>2, <4>1, <5>1, <5>4
      <4>3. CASE l.tag = "X"
        <5>1. /\ The(orders', "S") = The(orders, "S") /\ wallet' = wallet - f
              /\ The(orders, "X").filled = 0 /\ The(orders', "X").filled = f
            BY <1>2, <1>9, <1>11, <4>3
        <5>2. fee = 0 /\ taken = 0
            BY <1>2, <4>3
        <5>3. slack' = slack
            BY <1>2, <4>1, <5>2
        <5>4. PICK a : a = The(orders, "S").filled - The(orders, "S").fee
            OBVIOUS
        <5>5. a \in Int /\ Bought - slack = Held + (a - 0)
            BY <3>1, <4>1, <5>1, <5>4
        <5>6. Bought' = Bought - f
            BY <1>3, <1>5, <4>1, <4>5, <5>1
        <5>7. PICK m \in Int : m = Bought - slack
            BY <3>2, <4>1, <4>6
        <5>8. Bought' - slack' = m - f
            BY <1>5, <3>2, <4>1, <4>6, <5>3, <5>6, <5>7
        <5>9. Bought' - slack' = Held + (a - f)
            BY <1>5, <3>2, <5>5, <5>7, <5>8
        <5>. QED
            BY <5>1, <5>4, <5>9
      <4>4. CASE l.tag \notin {"S", "X"}
        <5>1. /\ The(orders', "S") = The(orders, "S") /\ The(orders', "X") = The(orders, "X")
              /\ wallet' = wallet
            BY <1>2, <1>9, <4>4
        <5>2. slack' = slack
            BY <1>2, <4>1, <4>4
        <5>. QED
            BY <3>1, <4>5, <5>1, <5>2
      <4>. QED
          BY <4>2, <4>3, <4>4
    <3>. QED
        BY <1>3, <1>16, <2>2, <3>3 DEF Counted
  <2>. QED
      BY <2>1, <2>2
<1>23. InPlan'
  <2>1. SUFFICES ASSUME Entry
                 PROVE  /\ short' + Rest(The(orders', "P")) <= Quantity
                        /\ IF run.pc = "failed" THEN Bought' - slack' <= MostCoins
                           ELSE Held + Most(The(orders', "S")) <= MostCoins
      BY <1>3, <1>16 DEF InPlan, MostCoins
  <2>2. short + Rest(The(orders, "P")) <= Quantity
      BY <2>1 DEF InPlan
  <2>3. short' + Rest(The(orders', "P")) <= Quantity
    <3>1. CASE l.tag = "P"
        BY <1>2, <1>5, <1>11, <2>2, <3>1, Numbers
    <3>2. CASE l.tag # "P"
        BY <1>9, <1>13, <1>19, <2>2, <3>2, Numbers DEF ExecTypeOK
    <3>. QED
        BY <3>1, <3>2
  <2>4. CASE run.pc = "failed"
    <3>1. wallet' = wallet /\ slack' = slack
        BY <1>2, <1>5, <1>18, <2>4, WorkIs, Numbers
    <3>2. Bought' = Bought
        BY <1>3, <3>1, StraysStay
    <3>. QED
        BY <2>1, <2>3, <2>4, <3>1, <3>2 DEF InPlan
  <2>5. CASE run.pc # "failed"
    <3>1. Held + Most(The(orders, "S")) <= MostCoins
        BY <2>1, <2>5 DEF InPlan
    <3>2. Held \in Int /\ MostCoins \in Int
        BY Numbers, WorkIs DEF Held, MostCoins
    <3>3. Most(The(orders', "S")) \in Nat
        BY <1>15
    <3>. QED
        BY <1>12, <2>3, <2>5, <3>1, <3>2, <3>3, Numbers
  <2>. QED
      BY <2>4, <2>5
<1>24. EntryShort'
  <2>1. Work = "P" /\ Quiet("P") => short' <= The(orders', "P").filled + run.out.filled
    <3>1. CASE l.tag = "P"
        BY <1>2, <1>5, <1>11, <3>1, Numbers, StraysStay DEF EntryShort
    <3>2. CASE l.tag # "P"
        BY <1>9, <1>13, <1>19, <3>2, Numbers, StraysStay DEF EntryShort, ExecTypeOK
    <3>. QED
        BY <3>1, <3>2
  <2>2. Work = "S" => short' <= run.entered
      BY <1>13, <1>18, <1>19, Numbers, StraysStay DEF EntryShort, ExecTypeOK
  <2>3. Work = "C" /\ run.after = "excess" =>
            short' + Moved + The(orders', "C").filled <= run.entered
    <3>1. SUFFICES ASSUME Work = "C", run.after = "excess"
                   PROVE  short' + Moved + The(orders', "C").filled <= run.entered
        OBVIOUS
    <3>2. short + Moved + The(orders, "C").filled <= run.entered /\ l.tag # "P"
        BY <1>18, <3>1, StraysStay DEF EntryShort, Closing
    <3>3. CASE l.tag = "C"
        BY <1>2, <1>5, <1>11, <3>2, <3>3, Numbers
    <3>4. CASE l.tag # "C"
        BY <1>9, <1>13, <1>19, <3>2, <3>4, Numbers DEF ExecTypeOK
    <3>. QED
        BY <3>3, <3>4
  <2>. QED
      BY <1>3, <1>16, <2>1, <2>2, <2>3, StraysStay DEF EntryShort, Closing
<1>25. LegShort'
  <2>1. SUFFICES ASSUME ~Entry PROVE LegShort'
      BY <1>16 DEF LegShort
  <2>2. short' <= short /\ short' \in Nat
      BY <1>13, <1>18, <1>19, <2>1 DEF ExecTypeOK
  <2>3. Closing' <= Closing /\ Closing' \in Nat /\ Closing \in Nat
    <3>1. CASE l.tag = "C"
        BY <1>2, <1>5, <1>11, <1>16, <2>2, <3>1, Numbers DEF Closing
    <3>2. CASE l.tag # "C"
        BY <1>9, <1>16, <2>2, <3>2, Numbers DEF Closing
    <3>. QED
        BY <3>1, <3>2
  <2>4. Base' = Base /\ Base \in Int
      BY <1>3, Numbers DEF Base
  <2>5. Work = "C" => \/ escalate
                      \/ Closing' <= Base /\ (act.kind = "EXIT" => Closing' <= run.want)
      BY <2>1, <2>3, <2>4, Numbers DEF LegShort
  <2>6. /\ act.pos # Unread => short' <= act.pos
        /\ Work # "C" => escalate \/ short' <= book.perp
      BY <2>1, <2>2, Numbers DEF LegShort
  <2>7. short = 0 => short' = 0
      BY <2>2, Numbers
  <2>. QED
      BY <1>3, <1>16, <2>1, <2>4, <2>5, <2>6, <2>7 DEF LegShort
<1>26. Ended'
  <2>1. SUFFICES ASSUME run.pc = "done", ~escalate, Quiet("P")
                 PROVE  /\ short' <= book.perp /\ (short' > 0 => book.status = "OPEN")
                        /\ Entry => short' <= book.spot + book.dust
      BY <1>3, <1>16, StraysStay DEF Ended
  <2>2. short' <= short /\ short' \in Nat
      BY <1>13, <1>18, <1>19, <2>1, WorkIs DEF ExecTypeOK
  <2>3. /\ short <= book.perp /\ (short > 0 => book.status = "OPEN")
        /\ Entry => short <= book.spot + book.dust
      BY <2>1, StraysStay DEF Ended
  <2>. QED
      BY <2>2, <2>3, Numbers
<1>. QED
    BY <1>13, <1>14, <1>16, <1>17, <1>20, <1>21, <1>22, <1>23, <1>24, <1>25, <1>26

-----------------------------------------------------------------------------
(* One order.                                                              *)

(* The run asks on: all but where in the asking it is, and what it was     *)
(* told, stays.                                                            *)
AsksOn ==
    /\ UNCHANGED <<short, wallet, slack, book, act, escalate>>
    /\ Asking /\ run.pc # "answer" /\ Asking' /\ run'.pc # "send" /\ run' \in Run
    /\ run'.legs = run.legs /\ run'.link = run.link /\ run'.qty = run.qty
    /\ run'.want = run.want /\ run'.got = run.got /\ run'.entered = run.entered
    /\ run'.own = run.own /\ run'.after = run.after

LEMMA AskingOn ==
  ASSUME IInv, AsksOn
  PROVE  /\ Work = run.link.tag /\ Work' = Work /\ Work \in {"P", "S", "C", "X"}
         /\ Entry' = Entry /\ Frame' /\ InBook' /\ run.out = NoOutcome /\ Moved = run.got
         /\ run.pc \notin {"failed", "done"} /\ run'.pc \notin {"failed", "done"} /\ Ended'
<1> USE DEF IInv
<1>1. Work = run.link.tag /\ Work' = run'.link.tag /\ Work \in {"P", "S", "C", "X"}
    BY WorkIs, RunIs DEF AsksOn, Asking, Work, ExecTypeOK, Tags
<1>2. Work' = Work /\ Entry' = Entry
    BY <1>1 DEF AsksOn, Entry
<1>3. Frame'
    BY <1>1, <1>2 DEF Frame, AsksOn
<1>4. InBook'
    BY <1>1, <1>2 DEF InBook, AsksOn
<1>5. run.out = NoOutcome
    BY DEF Answers, AsksOn
<1>6. Moved = run.got
    BY <1>5, NoOutcomeIs, Numbers DEF Moved
<1>7. run.pc \notin {"failed", "done"} /\ run'.pc \notin {"failed", "done"}
    BY DEF AsksOn, Asking
<1>8. Ended'
    BY <1>7, StraysStay DEF Ended
<1>. QED
    BY <1>1, <1>2, <1>3, <1>4, <1>5, <1>6, <1>7, <1>8

(* What is taken for refused stays what it is.                             *)
LEMMA AstrayAsking ==
  ASSUME IInv, Astray, AsksOn, UNCHANGED strays,
         \A l \in DOMAIN orders' : l \in DOMAIN orders \/ l = run.link
  PROVE  Astray'
<1>1. /\ Work = run.link.tag /\ Work' = Work /\ Work \in {"P", "S", "C", "X"} /\ Entry' = Entry
      /\ Frame
    BY AskingOn DEF IInv
<1>2. /\ run.pc \notin {"answer", "done"} /\ run'.legs = run.legs /\ book' = book
      /\ short' = short
    BY DEF AsksOn, Asking
<1>3. /\ Quiet("P") /\ (~Quiet("S") => Entry /\ Work = "C")
      /\ ~Quiet("X") => ~Entry /\ "spot" \notin Range(run.legs)
    BY <1>1, <1>2, NotRefused
<1>4. \A tag : tag # Work /\ Has(orders', tag) => Has(orders, tag)
    BY <1>1 DEF Has
<1>5. ~Quiet("X") => Work = "C"
  <2>1. Work = "X" => run.legs # <<>> /\ Head(run.legs) = "spot"
      BY <1>1 DEF Frame
  <2>2. run.legs # <<>> => Head(run.legs) \in Range(run.legs)
      BY RunIs, LegsAre DEF IInv, ExecTypeOK
  <2>. QED
      BY <1>1, <1>3, <2>1, <2>2 DEF Frame
<1>6. Work = "C" => Held' = Held
    BY <1>1, <1>2 DEF Held
<1>7. \A tag \in {"P", "S", "X"} : /\ Quiet(tag)' <=> Quiet(tag)
                                  /\ strays'[tag] = strays[tag]
    BY DEF Quiet
<1>8. MostCoins' = MostCoins
    BY DEF MostCoins
<1>. QED
    BY <1>1, <1>2, <1>3, <1>4, <1>5, <1>6, <1>7, <1>8 DEF Astray

LEMMA PlusZero == ASSUME NEW n \in Nat PROVE n + 0 = n
OBVIOUS

(* No order moves, and nothing is filled.                                  *)
LEMMA NothingFilled ==
  ASSUME IInv, AsksOn, UNCHANGED <<orders, strays>>, run'.out.filled = 0, run'.out.fee = 0,
         run'.pc # "answer" => run'.out = NoOutcome,
         run'.pc = "answer" => run'.out.state \in {"rejected", "unknown", "nothing to reduce"},
         run'.out.state \in {"rejected", "nothing to reduce"} => ~Has(orders, run.link.tag),
         run'.out.state = "nothing to reduce" => run.link.tag = "C" /\ short = 0
  PROVE  IInv'
<1> USE DEF IInv
<1>1. /\ Work = run.link.tag /\ Work' = Work /\ Work \in {"P", "S", "C", "X"}
      /\ Entry' = Entry /\ Frame' /\ InBook' /\ run.out = NoOutcome /\ Moved = run.got
      /\ run.pc \notin {"failed", "done"} /\ run'.pc \notin {"failed", "done"} /\ Ended'
    BY AskingOn
<1>2. Moved' = Moved
  <2>1. Moved' = run'.got + run'.out.filled
      BY DEF Moved
  <2>2. run.got \in Nat /\ run'.got = run.got
      BY Numbers DEF AsksOn
  <2>3. run'.out.filled = 0 /\ Moved = run.got
      BY <1>1
  <2>4. run.got + 0 = run.got
      BY <2>2, PlusZero
  <2>. QED
      BY <2>1, <2>2, <2>3, <2>4
<1>3. ExecTypeOK' /\ OrdersSane'
    BY DEF ExecTypeOK, OrdersSane, AsksOn
<1>4. Placed'
  <2>1. Has(orders, run.link.tag) => /\ run.link \in DOMAIN orders
                                     /\ run'.pc = "answer" => run'.out.state = "unknown"
      BY DEF Placed, AsksOn
  <2>. QED
      BY <1>1, <2>1 DEF Placed, AsksOn
<1>5. Answers'
    BY <1>1, NoOutcomeIs DEF Answers, AsksOn
<1>6. Moving'
    BY <1>1, <1>2 DEF Moving, AsksOn
<1>7. Held' = Held
    BY <1>1, <1>2, NoOutcomeIs DEF Held, AsksOn
<1>8. Counted'
    BY <1>1, <1>7, StraysStay DEF Counted, Bought, Ours, AsksOn
<1>9. InPlan'
    BY <1>1, <1>7, StraysStay DEF InPlan, Bought, Ours, AsksOn
<1>10. EntryShort'
    BY <1>1, <1>2, NoOutcomeIs, StraysStay DEF EntryShort, Closing, AsksOn
<1>11. LegShort'
    BY <1>1, <1>2 DEF LegShort, Closing, Base, AsksOn
<1>. QED
    BY <1>1, <1>3, <1>4, <1>5, <1>6, <1>8, <1>9, <1>10, <1>11

(* The order is accepted.                                                  *)
LEMMA AcceptedKeeps ==
  ASSUME IInv, Astray, AsksOn, UNCHANGED strays, ~Has(orders, run.link.tag), Accepted(run.link),
         run'.pc # "answer", run'.out = NoOutcome
  PROVE  IInv'
<1> USE DEF IInv
<1>1. /\ Work = run.link.tag /\ Work' = Work /\ Work \in {"P", "S", "C", "X"}
      /\ Entry' = Entry /\ Frame' /\ InBook' /\ run.out = NoOutcome /\ Moved = run.got
      /\ run.pc \notin {"failed", "done"} /\ run'.pc \notin {"failed", "done"} /\ Ended'
    BY AskingOn
<1>2. Moved' = Moved
    BY <1>1 DEF Moved, AsksOn
<1>3. PICK d : d = [st |-> "open", qty |-> run.qty, filled |-> 0, fee |-> 0]
    OBVIOUS
<1>4. /\ d \in Order /\ Rest(d) = run.qty /\ Most(d) = run.qty /\ d.filled = 0 /\ d.fee = 0
      /\ \A tag : Sane(d, tag)
    BY <1>3, Numbers DEF Order, Rest, Most, Sane
<1>5. orders' = [k \in DOMAIN orders \cup {run.link} |-> IF k = run.link THEN d ELSE orders[k]]
    BY <1>3 DEF Accepted
<1>6. /\ Single(orders') /\ Has(orders', Work) /\ The(orders', Work) = d
      /\ \A tag : tag # Work => /\ Has(orders', tag) <=> Has(orders, tag)
                                /\ The(orders', tag) = The(orders, tag)
  <2>1. Single(orders)
      BY DEF OrdersSane
  <2>2. /\ Single(orders') /\ Has(orders', run.link.tag) /\ The(orders', run.link.tag) = d
        /\ \A tag : tag # run.link.tag => /\ Has(orders', tag) <=> Has(orders, tag)
                                         /\ The(orders', tag) = The(orders, tag)
    <3>1. /\ DOMAIN orders' = DOMAIN orders \cup {run.link} /\ orders'[run.link] = d
          /\ \A k \in DOMAIN orders : orders'[k] = orders[k]
      <4>1. run.link \notin DOMAIN orders
          BY DEF Has
      <4>. QED
          BY <1>5, <4>1
    <3>. QED
        BY <2>1, <3>1, Adding
  <2>. QED
      BY <1>1, <2>2
<1>7. The(orders, Work) = NoOrder
    BY <1>1, TheNone
<1>8. run.link \in DOMAIN orders' /\ run.link \in Link /\ run.link.tag = Work
    BY <1>1, <1>5, RunIs DEF ExecTypeOK
<1>9. ExecTypeOK' /\ OrdersSane'
    BY <1>4, <1>5, <1>6, <1>8 DEF ExecTypeOK, OrdersSane, AsksOn
<1>10. Placed'
  <2>1. /\ Work = "P" => Entry
        /\ Work = "S" => Entry
        /\ Work = "X" => ~Entry
      BY DEF Frame
  <2>2. Asking'
      BY DEF AsksOn
  <2>3. /\ Has(orders', "P") => Work = "P" \/ Has(orders, "P")
        /\ Has(orders', "S") => Work = "S" \/ Has(orders, "S")
        /\ Has(orders', "C") => Work = "C" \/ Has(orders, "C")
        /\ Has(orders', "X") => Work = "X" \/ Has(orders, "X")
      BY <1>6
  <2>4. /\ run'.pc # "send" /\ run'.link = run.link /\ run'.after = run.after
        /\ run'.legs = run.legs /\ book' = book /\ escalate' = escalate
      BY DEF AsksOn
  <2>5. IF Entry THEN ~Has(orders', "X") ELSE ~Has(orders', "P") /\ ~Has(orders', "S")
      BY <2>1, <2>3 DEF Placed
  <2>6. /\ Has(orders', "P") => Work = "P" \/ (Work = "C" /\ run.after = "unknown entry")
        /\ Has(orders', "S") => Work = "S" \/ (book.pending # {} /\ Work = "C")
        /\ Has(orders', "C") => Work = "C" \/ (~Entry /\ "perp" \notin Range(run.legs))
        /\ Has(orders', "X") => \/ Work = "X"
                                \/ book.pending # {} /\ "spot" \notin Range(run.legs)
      BY <1>1, <2>3 DEF Placed
  <2>. QED
      BY <1>1, <1>8, <2>2, <2>4, <2>5, <2>6 DEF Placed
<1>11. Answers'
    BY <1>1, NoOutcomeIs DEF Answers, AsksOn
<1>12. Moving'
  <2>1. /\ run'.qty = run.qty /\ run'.want = run.want /\ run'.got = run.got /\ book' = book
      BY DEF AsksOn
  <2>2. /\ Work = "S" => run.got + run.qty <= run.want + MaxOf(FeeMax, SpotMin)
        /\ Work \in {"C", "X"} => run.got + run.qty <= run.want
        /\ Work = "P" => run.qty = Quantity /\ run.got = 0
      BY <1>1 DEF Moving, AsksOn
  <2>3. Work = "P" => run.got + run.qty = Quantity
      BY <2>2, Numbers
  <2>4. Work # "X" => Most(The(orders', "X")) <= book.spot
      BY <1>6 DEF Moving
  <2>5. Moved' + Most(The(orders', Work)) = run.got + run.qty
      BY <1>1, <1>2, <1>4, <1>6
  <2>6. /\ Work = "P" => Moved' + Most(The(orders', "P")) <= Quantity /\ run.got = 0
        /\ Work = "S" => Moved' + Most(The(orders', "S")) <= run.want + MaxOf(FeeMax, SpotMin)
        /\ Work = "C" => Moved' + Most(The(orders', "C")) <= run.want
        /\ Work = "X" => Moved' + Most(The(orders', "X")) <= run.want
    <3>1. Work = "P" => Moved' + Most(The(orders', "P")) <= Quantity
      <4>1. Quantity <= Quantity
          OBVIOUS
      <4>. QED
          BY <2>3, <2>5, <4>1
    <3>. QED
        BY <2>2, <2>5, <3>1
  <2>. QED
      BY <1>1, <2>1, <2>2, <2>4, <2>6 DEF Moving
<1>13. Held' = Held /\ Bought' = Bought
    BY <1>1, <1>2, StraysStay DEF Held, Bought, Ours, AsksOn
<1>14. /\ The(orders', "S").filled = The(orders, "S").filled
       /\ The(orders', "S").fee = The(orders, "S").fee
       /\ The(orders', "X").filled = The(orders, "X").filled
       /\ The(orders', "P").filled = The(orders, "P").filled
       /\ The(orders', "C").filled = The(orders, "C").filled
    BY <1>4, <1>6, <1>7, NoOrderIs
<1>15. Counted'
    BY <1>1, <1>13, <1>14 DEF Counted, AsksOn
<1>16. InPlan'
  <2>1. SUFFICES ASSUME Entry
                 PROVE  /\ short + Rest(The(orders', "P")) <= Quantity
                        /\ Held + Most(The(orders', "S")) <= MostCoins
      BY <1>1, <1>13 DEF InPlan, AsksOn, MostCoins
  <2>2. short + Rest(The(orders, "P")) <= Quantity /\ Held + Most(The(orders, "S")) <= MostCoins
      BY <1>1, <2>1 DEF InPlan
  <2>3. short + Rest(The(orders', "P")) <= Quantity
    <3>1. CASE Work = "P"
      <4>1. short <= 0
          BY <1>1, <1>7, NotRefused, <3>1, NoOrderIs, NoOutcomeIs, Numbers DEF EntryShort, AsksOn
      <4>2. run.qty = Quantity
          BY <3>1 DEF Moving, AsksOn
      <4>. QED
          BY <1>4, <1>6, <3>1, <4>1, <4>2, Numbers
    <3>2. CASE Work # "P"
        BY <1>6, <2>2, <3>2
    <3>. QED
        BY <3>1, <3>2
  <2>4. Held + Most(The(orders', "S")) <= MostCoins
    <3>1. CASE Work = "S"
      <4>1. run.got + run.qty <= run.want + MaxOf(FeeMax, SpotMin)
          BY <3>1 DEF Moving, AsksOn
      <4>2. Held = book.spot + book.dust + run.got
          BY <1>1, <3>1, NoOutcomeIs, Numbers DEF Held
      <4>3. /\ book.spot = run.own /\ book.spot + book.dust < SpotMin
            /\ run.want + run.own = run.entered /\ run.entered <= Quantity
          BY <3>1, StraysStay DEF InBook, EntryShort
      <4>. QED
          BY <1>4, <1>6, <3>1, <4>1, <4>2, <4>3, Numbers DEF MostCoins
    <3>2. CASE Work # "S"
        BY <1>6, <2>2, <3>2
    <3>. QED
        BY <3>1, <3>2
  <2>. QED
      BY <2>3, <2>4
<1>17. EntryShort'
    BY <1>1, <1>2, <1>14, NoOutcomeIs, StraysStay DEF EntryShort, Closing, AsksOn
<1>18. LegShort'
    BY <1>1, <1>2, <1>14 DEF LegShort, Closing, Base, AsksOn
<1>. QED
    BY <1>1, <1>9, <1>10, <1>11, <1>12, <1>15, <1>16, <1>17, <1>18

(* The order is found, final.                                              *)
LEMMA FoundKeeps ==
  ASSUME IInv, AsksOn, UNCHANGED strays, run.link \in DOMAIN orders, orders[run.link].st = "final",
         orders' = Restrict(orders, DOMAIN orders \ {run.link}), run'.pc = "answer",
         run'.out.state = "done", run'.out.filled = orders[run.link].filled,
         run'.out.fee = orders[run.link].fee
  PROVE  IInv'
<1> USE DEF IInv
<1>1. /\ Work = run.link.tag /\ Work' = Work /\ Work \in {"P", "S", "C", "X"}
      /\ Entry' = Entry /\ Frame' /\ InBook' /\ run.out = NoOutcome /\ Moved = run.got
      /\ run.pc \notin {"failed", "done"} /\ run'.pc \notin {"failed", "done"} /\ Ended'
    BY AskingOn
<1>2. PICK d : d = orders[run.link]
    OBVIOUS
<1>3. d \in Order /\ Sane(d, run.link.tag) /\ d.st = "final"
    BY <1>2 DEF ExecTypeOK, OrdersSane
<1>4. /\ d.filled \in Nat /\ d.fee \in Nat /\ d.fee <= d.filled /\ Rest(d) = 0 /\ Most(d) = d.filled
      /\ (Work # "S" => d.fee = 0)
    BY <1>1, <1>3, OrderIs DEF Sane, Rest, Most
<1>5. Moved' = Moved + d.filled
  <2>1. Moved' = run'.got + run'.out.filled
      BY DEF Moved
  <2>2. run'.got = run.got
      BY DEF AsksOn
  <2>. QED
      BY <1>1, <1>2, <2>1, <2>2
<1>6. /\ Single(orders') /\ ~Has(orders', Work) /\ The(orders, Work) = d
      /\ The(orders', Work) = NoOrder
      /\ DOMAIN orders' \subseteq DOMAIN orders /\ \A k \in DOMAIN orders' : orders'[k] = orders[k]
      /\ \A tag : tag # Work => /\ Has(orders', tag) <=> Has(orders, tag)
                                /\ The(orders', tag) = The(orders, tag)
  <2>1. Single(orders)
      BY DEF OrdersSane
  <2>2. /\ Single(orders') /\ ~Has(orders', run.link.tag) /\ The(orders, run.link.tag) = d
        /\ The(orders', run.link.tag) = NoOrder
        /\ DOMAIN orders' \subseteq DOMAIN orders /\ \A k \in DOMAIN orders' : orders'[k] = orders[k]
        /\ \A tag : tag # run.link.tag => /\ Has(orders', tag) <=> Has(orders, tag)
                                          /\ The(orders', tag) = The(orders, tag)
      BY <1>2, <2>1, Removing
  <2>. QED
      BY <1>1, <2>2
<1>7. ExecTypeOK' /\ OrdersSane'
    BY <1>6 DEF ExecTypeOK, OrdersSane, AsksOn
<1>8. Placed'
  <2>1. /\ Has(orders', "P") => Has(orders, "P") /\ Work # "P"
        /\ Has(orders', "S") => Has(orders, "S") /\ Work # "S"
        /\ Has(orders', "C") => Has(orders, "C") /\ Work # "C"
        /\ Has(orders', "X") => Has(orders, "X") /\ Work # "X"
      BY <1>6
  <2>2. /\ run'.link = run.link /\ run'.after = run.after
        /\ run'.legs = run.legs /\ book' = book /\ escalate' = escalate
      BY DEF AsksOn
  <2>3. ~Has(orders', run'.link.tag)
      BY <1>1, <1>6, <2>2
  <2>4. IF Entry THEN ~Has(orders', "X") ELSE ~Has(orders', "P") /\ ~Has(orders', "S")
      BY <2>1 DEF Placed
  <2>5. /\ Has(orders', "P") => Work = "C" /\ run.after = "unknown entry"
        /\ Has(orders', "S") => book.pending # {} /\ Work = "C"
        /\ Has(orders', "C") => ~Entry /\ Work # "C" /\ "perp" \notin Range(run.legs)
        /\ Has(orders', "X") => book.pending # {} /\ "spot" \notin Range(run.legs)
      BY <1>1, <2>1 DEF Placed
  <2>. QED
      BY <1>1, <2>2, <2>3, <2>4, <2>5 DEF Placed
<1>9. Answers'
    BY <1>1, <1>2, <1>4 DEF Answers, AsksOn
<1>10. Moving'
  <2>1. /\ run'.qty = run.qty /\ run'.want = run.want /\ run'.got = run.got /\ book' = book
      BY DEF AsksOn
  <2>2. /\ Asking' /\ Work = "S" => run.got + run.qty <= run.want + MaxOf(FeeMax, SpotMin)
        /\ Asking' /\ Work \in {"C", "X"} => run.got + run.qty <= run.want
        /\ Asking' /\ Work = "P" => run.qty = Quantity
      BY <1>1 DEF Moving, AsksOn
  <2>3. Work # "X" => Most(The(orders', "X")) <= book.spot
      BY <1>6 DEF Moving
  <2>4. Moved' + Most(The(orders', Work)) = Moved + Most(The(orders, Work))
      BY <1>4, <1>5, <1>6, NoOrderIs, Numbers
  <2>5. /\ Work = "P" => Moved' + Most(The(orders', "P")) <= Quantity /\ run.got = 0
        /\ Work = "S" => Moved' + Most(The(orders', "S")) <= run.want + MaxOf(FeeMax, SpotMin)
        /\ Work = "C" => Moved' + Most(The(orders', "C")) <= run.want
        /\ Work = "X" => Moved' + Most(The(orders', "X")) <= run.want
    <3>1. Work = "S" => Moved' + Most(The(orders', "S")) <= run.want + MaxOf(FeeMax, SpotMin)
        BY <2>4 DEF Moving
    <3>2. Work = "C" => Moved' + Most(The(orders', "C")) <= run.want
        BY <2>4 DEF Moving
    <3>3. Work = "X" => Moved' + Most(The(orders', "X")) <= run.want
        BY <2>4 DEF Moving
    <3>4. Work = "P" => Moved' + Most(The(orders', "P")) <= Quantity /\ run.got = 0
        BY <2>4 DEF Moving
    <3>. QED
        BY <3>1, <3>2, <3>3, <3>4
  <2>. QED
      BY <1>1, <2>1, <2>2, <2>3, <2>5 DEF Moving
<1>11. /\ Work = "S" => Held' = Held + d.filled - d.fee
       /\ Work = "X" => Held' = Held - d.filled
       /\ Work \notin {"S", "X"} => Held' = Held
       /\ Held \in Int /\ Bought' = Bought
  <2>1. book' = book /\ Bought' = Bought /\ run'.out.fee = d.fee
      BY <1>2, StraysStay DEF AsksOn, Bought, Ours
  <2>2. run.out.fee = 0
      BY <1>1, NoOutcomeIs
  <2>3. book.spot \in Nat /\ book.dust \in Nat /\ Moved \in Nat
      BY Numbers
  <2>4. CASE Work = "S"
      BY <1>1, <1>4, <1>5, <2>1, <2>2, <2>3, <2>4 DEF Held
  <2>5. CASE Work = "X"
      BY <1>1, <1>4, <1>5, <2>1, <2>2, <2>3, <2>5 DEF Held
  <2>6. CASE Work \notin {"S", "X"}
      BY <1>1, <1>4, <1>5, <2>1, <2>2, <2>3, <2>6 DEF Held
  <2>. QED
      BY <2>4, <2>5, <2>6
<1>12. Counted'
  <2>1. Bought - slack = Held + The(orders, "S").filled - The(orders, "S").fee
                            - The(orders, "X").filled
      BY <1>1 DEF Counted
  <2>2. /\ The(orders, "S").filled \in Nat /\ The(orders, "S").fee \in Nat
        /\ The(orders, "X").filled \in Nat
      BY Numbers
  <2>3. Bought - slack = Held' + The(orders', "S").filled - The(orders', "S").fee
                             - The(orders', "X").filled
    <3>1. CASE Work = "S"
      <4>1. The(orders', "S") = NoOrder /\ The(orders, "S") = d /\ The(orders', "X") = The(orders, "X")
          BY <1>6, <3>1
      <4>. QED
          BY <1>4, <1>11, <2>1, <2>2, <3>1, <4>1, NoOrderIs
    <3>2. CASE Work = "X"
      <4>1. The(orders', "X") = NoOrder /\ The(orders, "X") = d /\ The(orders', "S") = The(orders, "S")
          BY <1>6, <3>2
      <4>. QED
          BY <1>4, <1>11, <2>1, <2>2, <3>2, <4>1, NoOrderIs
    <3>3. CASE Work \notin {"S", "X"}
      <4>1. The(orders', "X") = The(orders, "X") /\ The(orders', "S") = The(orders, "S")
          BY <1>6, <3>3
      <4>. QED
          BY <1>11, <2>1, <3>3, <4>1
    <3>. QED
        BY <3>1, <3>2, <3>3
  <2>4. slack' = slack
      BY DEF AsksOn
  <2>. QED
      BY <1>1, <1>11, <2>3, <2>4 DEF Counted
<1>13. InPlan'
  <2>1. SUFFICES ASSUME Entry
                 PROVE  /\ short + Rest(The(orders', "P")) <= Quantity
                        /\ Held' + Most(The(orders', "S")) <= MostCoins
      BY <1>1 DEF InPlan, AsksOn, MostCoins
  <2>2. short + Rest(The(orders, "P")) <= Quantity /\ Held + Most(The(orders, "S")) <= MostCoins
      BY <1>1, <2>1 DEF InPlan
  <2>3. short + Rest(The(orders', "P")) <= Quantity
    <3>1. CASE Work = "P"
        BY <1>4, <1>6, <2>2, <3>1, NoOrderIs
    <3>2. CASE Work # "P"
        BY <1>6, <2>2, <3>2
    <3>. QED
        BY <3>1, <3>2
  <2>4. Held' + Most(The(orders', "S")) <= MostCoins
    <3>1. CASE Work = "S"
        BY <1>4, <1>6, <1>11, <2>2, <3>1, NoOrderIs, Numbers DEF MostCoins
    <3>2. CASE Work # "S"
      <4>1. Held' <= Held /\ Held' \in Int /\ Held \in Int
          BY <1>1, <1>4, <1>11, <3>2
      <4>2. The(orders', "S") = The(orders, "S") /\ Most(The(orders, "S")) \in Nat
          BY <1>6, <3>2, Numbers
      <4>. QED
          BY <2>2, <4>1, <4>2, Numbers DEF MostCoins
    <3>. QED
        BY <3>1, <3>2
  <2>. QED
      BY <2>3, <2>4
<1>14. /\ Work = "P" => The(orders', "P").filled + run'.out.filled
                          = The(orders, "P").filled + run.out.filled
       /\ Work = "C" => Closing' = Closing
       /\ Work # "C" => The(orders', "C") = The(orders, "C")
  <2>1. run.out.filled = 0 /\ run'.out.filled = d.filled /\ short' = short
      BY <1>1, <1>2, NoOutcomeIs DEF AsksOn
  <2>2. Work = "P" => The(orders', "P").filled + run'.out.filled
                        = The(orders, "P").filled + run.out.filled
      BY <1>4, <1>6, <2>1, NoOrderIs
  <2>3. Work = "C" => Closing' = Closing
    <3>1. SUFFICES ASSUME Work = "C" PROVE Closing' = Closing
        OBVIOUS
    <3>2. The(orders', "C").filled = 0 /\ The(orders, "C").filled = d.filled
        BY <1>6, <3>1, NoOrderIs
    <3>3. short \in Nat /\ Moved \in Nat
        BY Numbers
    <3>. QED
        BY <1>4, <1>5, <2>1, <3>2, <3>3 DEF Closing
  <2>. QED
      BY <1>6, <2>2, <2>3
<1>15. EntryShort'
    BY <1>1, <1>14, StraysStay DEF EntryShort, AsksOn
<1>16. LegShort'
    BY <1>1, <1>14 DEF LegShort, Base, AsksOn
<1>. QED
    BY <1>1, <1>7, <1>8, <1>9, <1>10, <1>12, <1>13, <1>15, <1>16

LEMMA TransmitKeeps ==
  ASSUME IInv, Astray, run.pc \in {"send", "resend"}, ~Has(orders, run.link.tag),
         NEW next \in {"look", "poll"}, Transmit(run.link, next),
         UNCHANGED <<exchange, book, act, escalate>>
  PROVE  IInv' /\ Astray'
<1>1. run \in Run /\ run.out = NoOutcome
    BY DEF IInv, ExecTypeOK, Answers
<1>2. UNCHANGED <<short, wallet, strays, slack, book, act, escalate>>
    BY DEF exchange
<1>3. Asking
    BY DEF Asking
<1>4. ASSUME NEW answered \in BOOLEAN,
             run' = [run EXCEPT !.pc = next, !.sent = answered, !.link = run.link]
      PROVE  AsksOn /\ run'.pc # "answer" /\ run'.out = NoOutcome
    BY <1>1, <1>2, <1>3, <1>4 DEF AsksOn, Asking, Run
<1>5. ASSUME run' = [run EXCEPT !.pc = next, !.link = run.link]
      PROVE  AsksOn /\ run'.pc # "answer" /\ run'.out = NoOutcome
    BY <1>1, <1>2, <1>3, <1>5 DEF AsksOn, Asking, Run
<1>6. ASSUME NEW state \in {"nothing to reduce", "rejected"}, run' = Answered(state)
      PROVE  /\ AsksOn /\ run'.pc = "answer" /\ run'.out.state = state
             /\ run'.out.filled = 0 /\ run'.out.fee = 0
    BY <1>1, <1>2, <1>3, <1>6, AnsweredIs DEF AsksOn, Asking
<1>7. CASE Accepted(run.link) /\ \E answered \in BOOLEAN :
              run' = [run EXCEPT !.pc = next, !.sent = answered, !.link = run.link]
  <2>1. AsksOn /\ run'.pc # "answer" /\ run'.out = NoOutcome
      BY <1>4, <1>7
  <2>2. DOMAIN orders' = DOMAIN orders \cup {run.link}
      BY <1>7 DEF Accepted
  <2>. QED
      BY <1>2, <1>7, <2>1, <2>2, AcceptedKeeps, AstrayAsking
<1>8. CASE run' = [run EXCEPT !.pc = next, !.link = run.link] /\ UNCHANGED orders
    BY <1>2, <1>5, <1>8, NothingFilled, AstrayAsking, NoOutcomeIs
<1>9. CASE run' = Answered("rejected") /\ UNCHANGED orders
    BY <1>2, <1>6, <1>9, NothingFilled, AstrayAsking
<1>10. CASE NothingToReduce /\ run' = Answered("nothing to reduce") /\ UNCHANGED orders
    BY <1>2, <1>6, <1>10, NothingFilled, AstrayAsking DEF NothingToReduce
<1>. QED
    BY <1>7, <1>8, <1>9, <1>10 DEF Transmit

LEMMA SendKeeps == IInv /\ Astray /\ Send => IInv' /\ Astray'
<1> SUFFICES ASSUME IInv, Astray, Send PROVE IInv' /\ Astray'
    OBVIOUS
<1>1. run.pc = "send" /\ Transmit(run.link, "look") /\ UNCHANGED <<exchange, book, act, escalate>>
    BY DEF Send
<1>2. ~Has(orders, run.link.tag)
    BY <1>1 DEF IInv, Placed, Asking
<1>. QED
    BY <1>1, <1>2, TransmitKeeps

(* The order is taken, and the run is told that it is refused.             *)
Told ==
    /\ run'.pc = "answer" /\ run'.out.filled = 0 /\ run'.out.fee = 0
    /\ \/ run'.out.state = "rejected"
       \/ run'.out.state = "nothing to reduce" /\ NothingToReduce

LEMMA DisownKeeps ==
  ASSUME IInv, Astray, AsksOn, run.link \in DOMAIN orders, Disown(run.link), Told
  PROVE  IInv' /\ Astray'
<1> USE DEF IInv
<1>1. /\ Work = run.link.tag /\ Work' = Work /\ Work \in {"P", "S", "C", "X"}
      /\ Entry' = Entry /\ Frame' /\ InBook' /\ run.out = NoOutcome /\ Moved = run.got
      /\ run.pc \notin {"failed", "done"} /\ run'.pc \notin {"failed", "done"} /\ Ended'
    BY AskingOn
<1>0. /\ run'.pc = "answer" /\ run'.out.filled = 0 /\ run'.out.fee = 0
      /\ run'.out.state \in {"rejected", "nothing to reduce"}
      /\ run'.out.state = "nothing to reduce" => run.link.tag = "C" /\ short = 0
    BY DEF Told, NothingToReduce
<1>2. PICK d : d = orders[run.link]
    OBVIOUS
<1>3. d \in Order /\ Sane(d, run.link.tag)
    BY <1>2 DEF ExecTypeOK, OrdersSane
<1>4. /\ d.filled \in Nat /\ d.fee \in Nat /\ d.fee <= d.filled /\ Rest(d) \in Nat
      /\ Most(d) = d.filled + Rest(d) /\ (Work # "S" => d.fee = 0)
    BY <1>1, <1>3, OrderIs DEF Sane, Most
<1>5. /\ orders' = Restrict(orders, DOMAIN orders \ {run.link})
      /\ strays' = [strays EXCEPT ![Work] = [open |-> @.open + Rest(d),
                                            got |-> @.got + Came(Work, d.filled - d.fee)]]
    BY <1>1, <1>2 DEF Disown, LeftOpen, Rest, Received
<1>6. /\ Single(orders') /\ ~Has(orders', Work) /\ The(orders, Work) = d
      /\ The(orders', Work) = NoOrder
      /\ DOMAIN orders' \subseteq DOMAIN orders /\ \A k \in DOMAIN orders' : orders'[k] = orders[k]
      /\ \A tag : tag # Work => /\ Has(orders', tag) <=> Has(orders, tag)
                                /\ The(orders', tag) = The(orders, tag)
  <2>1. Single(orders)
      BY DEF OrdersSane
  <2>2. /\ Single(orders') /\ ~Has(orders', run.link.tag) /\ The(orders, run.link.tag) = d
        /\ The(orders', run.link.tag) = NoOrder
        /\ DOMAIN orders' \subseteq DOMAIN orders /\ \A k \in DOMAIN orders' : orders'[k] = orders[k]
        /\ \A tag : tag # run.link.tag => /\ Has(orders', tag) <=> Has(orders, tag)
                                          /\ The(orders', tag) = The(orders, tag)
      BY <1>2, <1>5, <2>1, Removing
  <2>. QED
      BY <1>1, <2>2
<1>7. \A tag \in Tags : /\ strays[tag] \in Stray /\ strays[tag].open \in Nat
                        /\ strays[tag].got \in Nat
    BY DEF ExecTypeOK, Stray
<1>8. /\ strays' \in [Tags -> Stray]
      /\ \A tag \in Tags : tag # Work => strays'[tag] = strays[tag]
      /\ strays'[Work].open = strays[Work].open + Rest(d)
      /\ strays'[Work].got = strays[Work].got + Came(Work, d.filled - d.fee)
  <2>1. strays \in [Tags -> Stray] /\ Work \in Tags
      BY <1>1 DEF ExecTypeOK, Tags
  <2>2. d.filled - d.fee \in Nat
      BY <1>4
  <2>3. Came(Work, d.filled - d.fee) \in Nat
      BY <2>2 DEF Came
  <2>4. [open |-> strays[Work].open + Rest(d),
         got |-> strays[Work].got + Came(Work, d.filled - d.fee)] \in Stray
      BY <1>4, <1>7, <2>1, <2>3 DEF Stray
  <2>. QED
      BY <1>5, <2>1, <2>4
<1>9. /\ Quiet("P") /\ (Work = "S" => Quiet("S")) /\ (Work = "X" => Quiet("X"))
      /\ ~Quiet("S") => Entry /\ Work = "C"
      /\ ~Quiet("X") => ~Entry /\ "spot" \notin Range(run.legs)
  <2>1. run.pc # "answer"
      BY DEF AsksOn
  <2>. QED
      BY <1>1, <2>1, NotRefused
<1>10. ExecTypeOK' /\ OrdersSane'
    BY <1>6, <1>8 DEF ExecTypeOK, OrdersSane, AsksOn
<1>11. Moved' = Moved /\ Held' = Held /\ Held \in Int
  <2>1. Moved' = run.got + 0 /\ run.got \in Nat
      BY <1>0, Numbers DEF Moved, AsksOn
  <2>2. Moved' = Moved
      BY <1>1, <2>1, PlusZero
  <2>3. Held' = Held
      BY <1>0, <1>1, <2>2, NoOutcomeIs DEF Held, AsksOn
  <2>4. Held \in Int
      BY Numbers, WorkIs DEF Held
  <2>. QED
      BY <2>2, <2>3, <2>4
<1>12. Placed'
  <2>1. /\ Has(orders', "P") => Has(orders, "P") /\ Work # "P"
        /\ Has(orders', "S") => Has(orders, "S") /\ Work # "S"
        /\ Has(orders', "C") => Has(orders, "C") /\ Work # "C"
        /\ Has(orders', "X") => Has(orders, "X") /\ Work # "X"
      BY <1>6
  <2>2. /\ run'.link = run.link /\ run'.after = run.after
        /\ run'.legs = run.legs /\ book' = book /\ escalate' = escalate
      BY DEF AsksOn
  <2>3. ~Has(orders', run'.link.tag)
      BY <1>1, <1>6, <2>2
  <2>4. IF Entry THEN ~Has(orders', "X") ELSE ~Has(orders', "P") /\ ~Has(orders', "S")
      BY <2>1 DEF Placed
  <2>5. /\ Has(orders', "P") => Work = "C" /\ run.after = "unknown entry"
        /\ Has(orders', "S") => book.pending # {} /\ Work = "C"
        /\ Has(orders', "C") => ~Entry /\ Work # "C" /\ "perp" \notin Range(run.legs)
        /\ Has(orders', "X") => book.pending # {} /\ "spot" \notin Range(run.legs)
      BY <1>1, <2>1 DEF Placed
  <2>. QED
      BY <1>1, <2>2, <2>3, <2>4, <2>5 DEF Placed
<1>13. Answers'
  <2>1. /\ run'.pc = "answer" /\ short' = short /\ run'.out.state # "done"
        /\ run'.out.fee <= run'.out.filled
    <3>1. \A n, k : n = 0 /\ k = 0 => n <= k
        OBVIOUS
    <3>. QED
        BY <1>0, <3>1 DEF AsksOn
  <2>2. run'.out.state = "nothing to reduce" => Work' = "C" /\ short' = 0
      BY <1>0, <1>1, <2>1
  <2>. QED
      BY <1>0, <2>1, <2>2 DEF Answers
<1>14. \A tag : /\ Most(The(orders', tag)) <= Most(The(orders, tag))
                /\ The(orders', tag).filled <= The(orders, tag).filled
                /\ Rest(The(orders', tag)) <= Rest(The(orders, tag))
                /\ Most(The(orders', tag)) \in Nat /\ The(orders', tag).filled \in Nat
                /\ Rest(The(orders', tag)) \in Nat
    BY <1>6, NoOrderIs, Numbers
<1>15. Moving'
  <2>1. /\ run'.qty = run.qty /\ run'.want = run.want /\ run'.got = run.got /\ book' = book
        /\ run.want \in Nat /\ book.spot \in Nat /\ Moved \in Nat
        /\ \A tag : Most(The(orders, tag)) \in Nat
      BY Numbers DEF AsksOn
  <2>2. /\ Work = "P" => Moved + Most(The(orders', "P")) <= Quantity
        /\ Work = "S" => Moved + Most(The(orders', "S")) <= run.want + MaxOf(FeeMax, SpotMin)
        /\ Work = "C" => Moved + Most(The(orders', "C")) <= run.want
        /\ Work = "X" => Moved + Most(The(orders', "X")) <= run.want
        /\ Work # "X" => Most(The(orders', "X")) <= book.spot
      BY <1>14, <2>1 DEF Moving
  <2>3. Asking
      BY DEF AsksOn
  <2>. QED
      BY <1>1, <1>11, <2>1, <2>2, <2>3 DEF Moving
<1>16. Counted'
  <2>1. Bought - slack = Held + The(orders, "S").filled - The(orders, "S").fee
                              - The(orders, "X").filled
      BY <1>1 DEF Counted
  <2>2. /\ The(orders, "S").filled \in Nat /\ The(orders, "S").fee \in Nat
        /\ The(orders, "X").filled \in Nat /\ wallet \in Nat /\ slack \in Nat /\ Foreign \in Nat
        /\ strays["S"].got \in Nat /\ strays["X"].got \in Nat
      BY <1>7, Numbers DEF Tags
  <2>3. wallet' = wallet /\ slack' = slack
      BY DEF AsksOn
  <2>5. /\ Bought = wallet - Foreign - (strays["S"].got - strays["X"].got)
        /\ Bought' = wallet - Foreign - (strays'["S"].got - strays'["X"].got)
      BY <2>3 DEF Bought, Ours, Drift
  <2>4. Bought' - slack = Held + The(orders', "S").filled - The(orders', "S").fee
                              - The(orders', "X").filled
    <3>1. CASE Work = "S"
      <4>1. /\ The(orders', "S") = NoOrder /\ The(orders, "S") = d
            /\ The(orders', "X") = The(orders, "X")
            /\ strays'["S"].got = strays["S"].got + (d.filled - d.fee)
            /\ strays'["X"] = strays["X"]
          BY <1>6, <1>8, <3>1 DEF Came, Tags
      <4>2. Bought' = Bought - (d.filled - d.fee)
          BY <1>4, <2>2, <2>5, <4>1
      <4>3. /\ The(orders', "S").filled = 0 /\ The(orders', "S").fee = 0
            /\ The(orders', "X").filled = The(orders, "X").filled
          BY <4>1, NoOrderIs
      <4>4. Bought \in Int
          BY <2>2, <2>5
      <4>. QED
          BY <1>4, <1>11, <2>1, <2>2, <4>1, <4>2, <4>3, <4>4
    <3>2. CASE Work = "X"
      <4>1. /\ The(orders', "X") = NoOrder /\ The(orders, "X") = d
            /\ The(orders', "S") = The(orders, "S") /\ d.fee = 0
            /\ strays'["X"].got = strays["X"].got + (d.filled - d.fee)
            /\ strays'["S"] = strays["S"]
          BY <1>4, <1>6, <1>8, <3>2 DEF Came, Tags
      <4>2. Bought' = Bought + d.filled
          BY <1>4, <2>2, <2>5, <4>1
      <4>3. /\ The(orders', "X").filled = 0 /\ The(orders, "X").filled = d.filled
            /\ The(orders', "S").filled = The(orders, "S").filled
            /\ The(orders', "S").fee = The(orders, "S").fee
          BY <4>1, NoOrderIs
      <4>4. Bought \in Int
          BY <2>2, <2>5
      <4>5. Bought' - slack = Bought - slack + d.filled
          BY <1>4, <2>2, <4>2, <4>4
      <4>6. Bought - slack = Held + The(orders, "S").filled - The(orders, "S").fee - d.filled
          BY <2>1, <4>3
      <4>7. Bought' - slack = Held + The(orders, "S").filled - The(orders, "S").fee
          BY <1>4, <1>11, <2>2, <4>5, <4>6
      <4>. QED
          BY <1>11, <2>2, <4>3, <4>7
    <3>3. CASE Work \notin {"S", "X"}
      <4>1. /\ The(orders', "X") = The(orders, "X") /\ The(orders', "S") = The(orders, "S")
            /\ strays'["S"] = strays["S"] /\ strays'["X"] = strays["X"]
          BY <1>6, <1>8, <3>3 DEF Tags
      <4>. QED
          BY <2>1, <2>3, <4>1 DEF Bought, Ours, Drift
    <3>. QED
        BY <3>1, <3>2, <3>3
  <2>. QED
      BY <1>1, <1>11, <2>3, <2>4 DEF Counted
<1>17. InPlan'
  <2>1. SUFFICES ASSUME Entry
                 PROVE  /\ short + Rest(The(orders', "P")) <= Quantity
                        /\ Held + Most(The(orders', "S")) <= MostCoins
      BY <1>1, <1>11 DEF InPlan, AsksOn, MostCoins
  <2>2. /\ short + Rest(The(orders, "P")) <= Quantity
        /\ Held + Most(The(orders, "S")) <= MostCoins
        /\ MostCoins \in Int /\ Most(The(orders, "S")) \in Nat
        /\ short \in Nat /\ Rest(The(orders, "P")) \in Nat
      BY <1>1, <2>1, Numbers DEF InPlan, MostCoins
  <2>. QED
      BY <1>11, <1>14, <2>2
<1>18. Closing' <= Closing /\ Closing' \in Nat /\ Closing \in Nat
  <2>1. short' = short /\ short \in Nat /\ Moved \in Nat /\ The(orders, "C").filled \in Nat
      BY Numbers DEF AsksOn
  <2>. QED
      BY <1>11, <1>14, <2>1 DEF Closing
<1>19. EntryShort'
  <2>1. short' = short /\ run'.entered = run.entered /\ run'.want = run.want /\ book' = book
        /\ run'.after = run.after
      BY DEF AsksOn
  <2>2. Work = "P" /\ Quiet("P")' => short <= The(orders', "P").filled + run'.out.filled
    <3>1. SUFFICES ASSUME Work = "P", Quiet("P")' PROVE short <= 0 + 0
        BY <1>0, <1>6, NoOrderIs
    <3>2. d.filled = 0
        BY <1>4, <1>7, <1>8, <3>1 DEF Quiet, Came, Tags
    <3>3. short <= The(orders, "P").filled + run.out.filled
        BY <1>9, <3>1 DEF EntryShort
    <3>. QED
        BY <1>1, <1>6, <3>1, <3>2, <3>3, NoOutcomeIs
  <2>3. Work = "C" /\ run.after = "excess" => Closing' <= run.entered
      BY <1>18, Numbers DEF EntryShort
  <2>. QED
      BY <1>1, <2>1, <2>2, <2>3 DEF EntryShort
<1>20. LegShort'
  <2>1. Base' = Base /\ Base \in Int /\ run.want \in Nat
      BY Numbers DEF Base, AsksOn
  <2>2. ~Entry /\ Work = "C" =>
            escalate \/ (Closing' <= Base /\ (act.kind = "EXIT" => Closing' <= run.want))
      BY <1>18, <2>1 DEF LegShort
  <2>. QED
      BY <1>1, <2>1, <2>2 DEF LegShort, AsksOn
<1>21. Astray'
  <2>1. /\ short' = short /\ run'.legs = run.legs /\ short \in Nat /\ MostCoins \in Int
      BY Numbers DEF AsksOn, MostCoins
  <2>2. Work # "C" => Refused'
      BY <1>0, <1>1 DEF Refused
  <2>3. ~Quiet("P")' => /\ Entry /\ ~Has(orders', "P") /\ Refused' /\ Work = "P"
                        /\ short + strays'["P"].open <= Quantity /\ short <= strays'["P"].got
    <3>1. SUFFICES ASSUME ~Quiet("P")'
                   PROVE  /\ Entry /\ ~Has(orders', "P") /\ Refused' /\ Work = "P"
                          /\ short + strays'["P"].open <= Quantity /\ short <= strays'["P"].got
        OBVIOUS
    <3>2. Work = "P" /\ strays["P"].open = 0 /\ strays["P"].got = 0
        BY <1>8, <1>9, <3>1 DEF Quiet, Tags
    <3>3. strays'["P"].open = Rest(d) /\ strays'["P"].got = d.filled
        BY <1>4, <1>8, <3>2 DEF Came
    <3>4. Entry
        BY <3>2 DEF Frame
    <3>5. short + Rest(d) <= Quantity
        BY <1>1, <1>6, <3>2, <3>4 DEF InPlan
    <3>6. short <= d.filled + 0
        BY <1>1, <1>6, <1>9, <3>2, NoOutcomeIs DEF EntryShort
    <3>. QED
        BY <1>4, <1>6, <2>2, <3>2, <3>3, <3>4, <3>5, <3>6
  <2>4. ~Quiet("S")' => /\ Entry /\ ~Has(orders', "S") /\ (Work = "C" \/ (Refused' /\ Work = "S"))
                        /\ Held + strays'["S"].open + strays'["S"].got <= MostCoins
    <3>1. CASE Work = "S"
      <4>1. Entry /\ strays["S"].open = 0 /\ strays["S"].got = 0
          BY <1>9, <3>1 DEF Frame, Quiet
      <4>2. strays'["S"].open = Rest(d) /\ strays'["S"].got = d.filled - d.fee
          BY <1>4, <1>8, <3>1, <4>1 DEF Came
      <4>3. Held + Most(d) <= MostCoins
          BY <1>1, <1>6, <3>1, <4>1 DEF InPlan
      <4>. QED
          BY <1>4, <1>6, <1>11, <2>1, <2>2, <3>1, <4>1, <4>2, <4>3
    <3>2. CASE Work # "S"
      <4>1. strays'["S"] = strays["S"] /\ (Quiet("S")' <=> Quiet("S"))
          BY <1>8, <3>2 DEF Tags, Quiet
      <4>2. ~Has(orders, "S") => ~Has(orders', "S")
          BY <1>6, <3>2
      <4>. QED
          BY <1>9, <4>1, <4>2 DEF Astray
    <3>. QED
        BY <3>1, <3>2
  <2>5. ~Quiet("X")' => /\ ~Entry /\ ~Has(orders', "X")
                        /\ "spot" \notin Range(run.legs) \/ (Refused' /\ Work = "X")
                        /\ strays'["X"].open + strays'["X"].got <= Held
    <3>1. CASE Work = "X"
      <4>1. ~Entry /\ strays["X"].open = 0 /\ strays["X"].got = 0 /\ d.fee = 0
          BY <1>4, <1>9, <3>1 DEF Frame, Quiet
      <4>2. strays'["X"].open = Rest(d) /\ strays'["X"].got = d.filled
          BY <1>4, <1>8, <3>1, <4>1 DEF Came
      <4>3. Moved + Most(d) <= run.want /\ run.want <= book.spot
          BY <1>6, <3>1 DEF Moving, InBook
      <4>4. Held = book.spot + book.dust + (- Moved)
          BY <3>1 DEF Held
      <4>5. book.spot \in Nat /\ book.dust \in Nat /\ Moved \in Nat /\ run.want \in Nat
          BY Numbers
      <4>6. Rest(d) + d.filled <= Held
          BY <1>4, <4>3, <4>4, <4>5
      <4>. QED
          BY <1>6, <2>2, <3>1, <4>1, <4>2, <4>6
    <3>2. CASE Work # "X"
      <4>1. strays'["X"] = strays["X"] /\ (Quiet("X")' <=> Quiet("X"))
          BY <1>8, <3>2 DEF Tags, Quiet
      <4>2. ~Has(orders, "X") => ~Has(orders', "X")
          BY <1>6, <3>2
      <4>. QED
          BY <1>9, <4>1, <4>2 DEF Astray
    <3>. QED
        BY <3>1, <3>2
  <2>. QED
      BY <1>1, <1>11, <2>1, <2>3, <2>4, <2>5 DEF Astray, MostCoins
<1>. QED
    BY <1>1, <1>10, <1>12, <1>13, <1>15, <1>16, <1>17, <1>19, <1>20, <1>21

LEMMA ResendKeeps == IInv /\ Astray /\ Resend => IInv' /\ Astray'
<1> SUFFICES ASSUME IInv, Astray, Resend PROVE IInv' /\ Astray'
    OBVIOUS
<1>1. run.pc = "resend" /\ UNCHANGED <<short, wallet, slack, book, act, escalate>>
    BY DEF Resend
<1>2. run \in Run /\ run.out = NoOutcome
    BY <1>1 DEF IInv, ExecTypeOK, Answers
<1>3. CASE /\ run.link \in DOMAIN orders
           /\ \E answered \in BOOLEAN : run' = [run EXCEPT !.pc = "poll", !.sent = answered]
           /\ UNCHANGED <<orders, strays>>
  <2>1. AsksOn /\ run'.pc = "poll" /\ run'.out = NoOutcome
      BY <1>1, <1>2, <1>3 DEF AsksOn, Asking, Run
  <2>2. IInv'
      BY <1>3, <2>1, NothingFilled, NoOutcomeIs
  <2>. QED
      BY <1>3, <2>1, <2>2, AstrayAsking
<1>4. CASE /\ run.link \in DOMAIN orders
           /\ \/ run' = Answered("rejected")
              \/ NothingToReduce /\ run' = Answered("nothing to reduce")
           /\ Disown(run.link)
  <2>1. /\ AsksOn /\ run'.pc = "answer" /\ run'.out.filled = 0 /\ run'.out.fee = 0
        /\ \/ run'.out.state = "rejected"
           \/ run'.out.state = "nothing to reduce" /\ NothingToReduce
      BY <1>1, <1>2, <1>4, AnsweredIs DEF AsksOn, Asking
  <2>2. Told
      BY <2>1 DEF Told
  <2>. QED
      BY <1>4, <2>1, <2>2, DisownKeeps
<1>5. CASE run.link \notin DOMAIN orders /\ Transmit(run.link, "poll") /\ UNCHANGED strays
  <2>1. ~Has(orders, run.link.tag)
      BY <1>1, <1>5 DEF IInv, Placed, Asking
  <2>2. UNCHANGED <<exchange, book, act, escalate>>
      BY <1>1, <1>5 DEF exchange
  <2>. QED
      BY <1>1, <1>5, <2>1, <2>2, TransmitKeeps
<1>. QED
    BY <1>3, <1>4, <1>5 DEF Resend

LEMMA LookKeeps == IInv /\ Astray /\ Look => IInv' /\ Astray'
<1> SUFFICES ASSUME IInv, Astray, Look PROVE IInv' /\ Astray'
    OBVIOUS
<1>1. run.pc = "look" /\ UNCHANGED <<short, wallet, strays, slack, book, act, escalate>>
    BY DEF Look, exchange
<1>2. run \in Run /\ run.out = NoOutcome
    BY <1>1 DEF IInv, ExecTypeOK, Answers
<1>3. CASE /\ run.link \in DOMAIN orders /\ orders[run.link].st = "final"
           /\ run' = [run EXCEPT !.pc = "answer",
                       !.out = [state |-> "done", filled |-> orders[run.link].filled,
                                fee |-> orders[run.link].fee]]
           /\ orders' = Restrict(orders, DOMAIN orders \ {run.link})
  <2>1. orders[run.link].filled \in Nat /\ orders[run.link].fee \in Nat
      BY <1>3, OrderIs DEF IInv, ExecTypeOK
  <2>2. [state |-> "done", filled |-> orders[run.link].filled, fee |-> orders[run.link].fee] \in Outcome
      BY <2>1 DEF Outcome
  <2>3. PICK out \in Outcome :
            out = [state |-> "done", filled |-> orders[run.link].filled, fee |-> orders[run.link].fee]
      BY <2>2
  <2>4. run' = [run EXCEPT !.pc = "answer", !.out = out]
      BY <1>3, <2>3
  <2>5. AsksOn /\ run'.pc = "answer" /\ run'.out = out
      BY <1>1, <1>2, <2>4 DEF AsksOn, Asking, Run
  <2>6. run'.out.state = "done" /\ run'.out.filled = orders[run.link].filled
        /\ run'.out.fee = orders[run.link].fee
      BY <2>3, <2>5
  <2>7. DOMAIN orders' \subseteq DOMAIN orders
      BY <1>3 DEF Restrict
  <2>. QED
      BY <1>1, <1>3, <2>5, <2>6, <2>7, FoundKeeps, AstrayAsking
<1>4. ASSUME NEW pc \in {"resend", "poll"}, run' = [run EXCEPT !.pc = pc], UNCHANGED orders
      PROVE  IInv' /\ Astray'
  <2>1. AsksOn /\ run'.pc # "answer" /\ run'.out = NoOutcome
      BY <1>1, <1>2, <1>4 DEF AsksOn, Asking, Run
  <2>. QED
      BY <1>1, <1>4, <2>1, NothingFilled, AstrayAsking, NoOutcomeIs
<1>. QED
    BY <1>3, <1>4 DEF Look

LEMMA PollKeeps == IInv /\ Astray /\ Poll => IInv' /\ Astray'
<1> SUFFICES ASSUME IInv, Astray, Poll PROVE IInv' /\ Astray'
    OBVIOUS
<1>1. run.pc = "poll" /\ UNCHANGED <<short, wallet, strays, slack, orders, book, act, escalate>>
    BY DEF Poll, exchange
<1>2. run \in Run /\ run.out = NoOutcome
    BY <1>1 DEF IInv, ExecTypeOK, Answers
<1>3. CASE run.late
  <2>1. run' = Answered("unknown")
      BY <1>3 DEF Poll
  <2>2. /\ AsksOn /\ run'.pc = "answer" /\ run'.out.state = "unknown"
        /\ run'.out.filled = 0 /\ run'.out.fee = 0
      BY <1>1, <1>2, <2>1, AnsweredIs DEF AsksOn, Asking
  <2>. QED
      BY <1>1, <2>2, NothingFilled, AstrayAsking
<1>4. CASE ~run.late
  <2>1. run' = [run EXCEPT !.pc = "look"]
      BY <1>4 DEF Poll
  <2>2. AsksOn /\ run'.pc = "look" /\ run'.out = NoOutcome
      BY <1>1, <1>2, <2>1 DEF AsksOn, Asking, Run
  <2>. QED
      BY <1>1, <2>2, NothingFilled, AstrayAsking, NoOutcomeIs
<1>. QED
    BY <1>3, <1>4

-----------------------------------------------------------------------------
(* The run.  Its own steps leave the exchange and its orders alone.        *)

Goes ==
    /\ UNCHANGED <<short, wallet, strays, slack, orders, act>>
    /\ run' \in Run /\ book' \in Book /\ escalate' \in BOOLEAN

LEMMA GoesTypes == ExecTypeOK /\ OrdersSane /\ Goes => ExecTypeOK' /\ OrdersSane' /\ Entry' = Entry
BY DEF ExecTypeOK, OrdersSane, Goes, Entry

(* No order of the loop it is in is left unread when the run does not ask. *)
LEMMA NoneLeft ==
  ASSUME IInv, ~Asking
  PROVE  /\ Work \in {"P", "S", "C", "X"} => ~Has(orders, Work) /\ The(orders, Work) = NoOrder
         /\ Work # "C" => run.after = ""
         /\ Work \in {"P", "S"} => \A tag \in Tags : ~Has(orders, tag)
         /\ Work = "X" => ~Has(orders, "P") /\ ~Has(orders, "S")
         /\ run.out = NoOutcome /\ run.out.filled = 0 /\ run.out.fee = 0 /\ Moved = run.got
<1> USE DEF IInv
<1>1. /\ Work = "P" => book.pending = {} /\ Entry
      /\ Work = "S" => book.pending = {} /\ Entry
      /\ Work = "X" => ~Entry
    BY DEF InBook, Frame
<1>2. Work = "C" => run.after # "" <=> Entry
    BY DEF Frame
<1>3. run.legs # <<>> => Head(run.legs) \in Range(run.legs)
  <2>1. run.legs \in Legs
      BY RunIs DEF ExecTypeOK
  <2>. QED
      BY <2>1, LegsAre
<1>4. Work = "X" => "spot" \in Range(run.legs)
    BY <1>3 DEF Frame
<1>5. Work = "C" /\ ~Entry => "perp" \in Range(run.legs)
    BY <1>3 DEF Frame
<1>6. Work \in {"P", "S"} => \A tag \in Tags : ~Has(orders, tag)
    BY <1>1 DEF Placed, Tags
<1>7. Work = "X" => ~Has(orders, "P") /\ ~Has(orders, "S") /\ ~Has(orders, "X")
    BY <1>1, <1>4 DEF Placed
<1>8. Work = "C" => ~Has(orders, "C")
    BY DEF Placed
<1>9. Work \in {"P", "S", "C", "X"} => ~Has(orders, Work) /\ The(orders, Work) = NoOrder
    BY <1>6, <1>7, <1>8, TheNone DEF Tags
<1>10. run.out = NoOutcome
    BY DEF Answers, Asking
<1>11. Moved = run.got
  <2>1. run.out.filled = 0 /\ run.got \in Nat
      BY <1>10, NoOutcomeIs, Numbers
  <2>. QED
      BY <2>1, PlusZero DEF Moved
<1>. QED
    BY <1>6, <1>7, <1>9, <1>10, <1>11, NoOutcomeIs DEF Frame

LEMMA NoAnswer == ASSUME run'.pc # "answer", run'.out = NoOutcome PROVE Answers'
BY NoOutcomeIs DEF Answers

(* An order is asked for.                                                  *)
LEMMA AskKeeps ==
  ASSUME IInv, ~Asking, Goes, UNCHANGED <<book, escalate>>,
         NEW tag \in Tags, Work = tag, NEW n \in 0..MaxOrders, NEW qty \in Nat,
         tag \in {"S", "C"} => n < MaxOrders,
         tag = "P" => qty = Quantity,
         tag = "S" => run.got + qty <= run.want + MaxOf(FeeMax, SpotMin),
         tag \in {"C", "X"} => run.got + qty <= run.want,
         run'.pc = "send", run'.link = [tag |-> tag, n |-> n], run'.qty = qty,
         run'.out = NoOutcome, run'.legs = run.legs, run'.want = run.want, run'.got = run.got,
         run'.entered = run.entered, run'.own = run.own, run'.after = run.after
  PROVE  IInv'
<1> USE DEF IInv
<1>1. ExecTypeOK' /\ OrdersSane' /\ Entry' = Entry
    BY GoesTypes
<1>2. /\ ~Has(orders, tag) /\ The(orders, tag) = NoOrder
      /\ run.out = NoOutcome /\ run.out.filled = 0 /\ run.out.fee = 0 /\ Moved = run.got
    BY NoneLeft DEF Tags
<1>3. run'.link.tag = tag /\ run'.link.n = n
    OBVIOUS
<1>4. Work' = tag /\ Asking'
    BY <1>3 DEF Work, Asking
<1>5. Moved' = Moved
  <2>1. run'.out.filled = run.out.filled
      BY <1>2
  <2>. QED
      BY <2>1 DEF Moved
<1>6. UNCHANGED <<short, wallet, strays, slack, orders, act>>
    BY DEF Goes
<1>7. Placed'
  <2>1. /\ Has(orders, "P") => Work = "C" /\ run.after = "unknown entry"
        /\ Has(orders, "S") => book.pending # {} /\ Work = "C"
        /\ Has(orders, "C") => ~Entry /\ Work # "C" /\ "perp" \notin Range(run.legs)
        /\ Has(orders, "X") => book.pending # {} /\ "spot" \notin Range(run.legs)
        /\ IF Entry THEN ~Has(orders, "X") ELSE ~Has(orders, "P") /\ ~Has(orders, "S")
      BY <1>2 DEF Placed, Tags
  <2>2. ~Has(orders, run'.link.tag)
      BY <1>2, <1>3
  <2>3. tag \notin {"failed", "done"}
      BY DEF Tags
  <2>. QED
      BY <1>1, <1>4, <1>6, <2>1, <2>2, <2>3 DEF Placed
<1>8. Frame'
    BY <1>1, <1>3, <1>4, <1>6 DEF Frame, Tags
<1>9. Answers'
    BY <1>2, <1>4, <1>6 DEF Answers, NoOutcome
<1>10. InBook'
    BY <1>1, <1>4 DEF InBook
<1>11. Moving'
    BY <1>4, <1>5, <1>6 DEF Moving
<1>12. Held' = Held /\ Bought' = Bought
    BY <1>2, <1>4, <1>5, <1>6, StraysStay DEF Held, Bought, Ours
<1>13. run.pc # "failed" /\ run'.pc # "failed" /\ run'.pc # "done"
    BY WorkIs DEF Tags
<1>14. Counted'
    BY <1>6, <1>12, <1>13 DEF Counted
<1>15. InPlan'
    BY <1>1, <1>6, <1>12, <1>13 DEF InPlan
<1>16. EntryShort'
    BY <1>2, <1>4, <1>5, <1>6, StraysStay DEF EntryShort, Closing
<1>17. LegShort'
    BY <1>1, <1>4, <1>5, <1>6 DEF LegShort, Closing, Base
<1>18. Ended'
    BY <1>13, StraysStay DEF Ended
<1>. QED
    BY <1>1, <1>7, <1>8, <1>9, <1>10, <1>11, <1>14, <1>15, <1>16, <1>17, <1>18

(* The answer is taken, and the loop goes on.                              *)
LEMMA AgainKeeps ==
  ASSUME IInv, Goes, UNCHANGED <<book, escalate>>,
         run.pc = "answer", run.out.state \in {"done", "rejected"}, run.link.n < MaxOrders,
         NEW pc \in {"buy", "close", "sell"},
         run.link.tag = (CASE pc = "buy" -> "S" [] pc = "close" -> "C" [] OTHER -> "X"),
         run' = Again(pc, run.got + (run.out.filled - run.out.fee))
  PROVE  IInv'
<1> USE DEF IInv
<1>1. ExecTypeOK' /\ OrdersSane' /\ Entry' = Entry
    BY GoesTypes
<1>2. UNCHANGED <<short, wallet, strays, slack, orders, act>>
    BY DEF Goes
<1>3. Asking /\ Work = run.link.tag /\ ~Has(orders, Work) /\ Work \in {"S", "C", "X"}
    BY WorkIs DEF Asking, Placed
<1>4. /\ run.got \in Nat /\ run.out.filled \in Nat /\ run.out.fee \in Nat
      /\ run.out.fee <= run.out.filled /\ (Work # "S" => run.out.fee = 0)
    BY Numbers DEF Answers
<1>5. PICK got \in Nat : got = run.got + (run.out.filled - run.out.fee)
    BY <1>4
<1>6. /\ run'.pc = pc /\ run'.got = got /\ run'.out = NoOutcome
      /\ run'.legs = run.legs /\ run'.want = run.want /\ run'.entered = run.entered
      /\ run'.own = run.own /\ run'.after = run.after
    BY <1>5, AgainIs DEF ExecTypeOK, PCs
<1>7. Work' = Work /\ ~Asking' /\ run'.out.filled = 0 /\ run'.out.fee = 0
    BY <1>3, <1>6, NoOutcomeIs DEF Work, Asking
<1>8. Moved' = got /\ got = Moved - run.out.fee
  <2>1. Moved' = got + 0
      BY <1>6, <1>7 DEF Moved
  <2>2. Moved = run.got + run.out.filled
      BY DEF Moved
  <2>. QED
      BY <1>4, <1>5, <2>1, <2>2
<1>9. run.pc # "failed" /\ run'.pc # "failed" /\ run'.pc # "done"
    BY <1>6
<1>10. Placed'
  <2>1. /\ Has(orders, "P") => Work = "C" /\ run.after = "unknown entry"
        /\ Has(orders, "S") => Work # "S" /\ book.pending # {} /\ Work = "C"
        /\ Has(orders, "C") => ~Entry /\ Work # "C" /\ "perp" \notin Range(run.legs)
        /\ Has(orders, "X") => book.pending # {} /\ "spot" \notin Range(run.legs)
        /\ IF Entry THEN ~Has(orders, "X") ELSE ~Has(orders, "P") /\ ~Has(orders, "S")
      BY <1>3 DEF Placed
  <2>. QED
      BY <1>1, <1>2, <1>3, <1>6, <1>7, <2>1 DEF Placed
<1>11. Frame'
    BY <1>1, <1>2, <1>3, <1>6, <1>7 DEF Frame
<1>12. Answers'
    BY <1>6, NoAnswer
<1>13. InBook'
    BY <1>1, <1>6, <1>7 DEF InBook
<1>14. Moving'
  <2>1. /\ Moved \in Nat /\ Moved' <= Moved /\ run.want \in Nat
        /\ \A tag : Most(The(orders, tag)) \in Nat
      BY <1>4, <1>5, <1>8, Numbers
  <2>2. /\ Work = "S" => Moved' + Most(The(orders, "S")) <= run.want + MaxOf(FeeMax, SpotMin)
        /\ Work = "C" => Moved' + Most(The(orders, "C")) <= run.want
        /\ Work = "X" => Moved' + Most(The(orders, "X")) <= run.want
        /\ Work # "X" => Most(The(orders, "X")) <= book.spot
      BY <1>8, <2>1 DEF Moving
  <2>. QED
      BY <1>2, <1>3, <1>6, <1>7, <2>2 DEF Moving
<1>15. Held' = Held /\ Bought' = Bought
    BY <1>2, <1>3, <1>4, <1>7, <1>8, Numbers, StraysStay DEF Held, Bought, Ours
<1>16. Counted'
    BY <1>2, <1>9, <1>15 DEF Counted
<1>17. InPlan'
    BY <1>1, <1>2, <1>9, <1>15 DEF InPlan
<1>18. Work # "S" => Moved' = Moved
    BY <1>4, <1>8, Numbers
<1>19. EntryShort'
    BY <1>2, <1>3, <1>6, <1>7, <1>18, StraysStay DEF EntryShort, Closing
<1>20. LegShort'
    BY <1>1, <1>2, <1>3, <1>6, <1>7, <1>18 DEF LegShort, Closing, Base
<1>21. Ended'
    BY <1>9, StraysStay DEF Ended
<1>. QED
    BY <1>1, <1>10, <1>11, <1>12, <1>13, <1>14, <1>16, <1>17, <1>19, <1>20, <1>21

(* An entry is over.                                                       *)
LEMMA EntryEnds ==
  ASSUME IInv, Goes, Entry, run' = End("done"), run.pc # "failed", escalate => escalate',
         Has(orders, "P") => escalate', Has(orders, "S") => book'.pending # {},
         book'.spot + book'.dust = Held,
         (~escalate' /\ Quiet("P")) =>
            /\ short <= book'.perp /\ (short > 0 => book'.status = "OPEN")
            /\ short <= book'.spot + book'.dust
  PROVE  IInv'
<1> USE DEF IInv
<1>1. ExecTypeOK' /\ OrdersSane' /\ Entry' = Entry
    BY GoesTypes
<1>2. UNCHANGED <<short, wallet, strays, slack, orders, act>>
    BY DEF Goes
<1>3. /\ run'.pc = "done" /\ run'.legs = <<>> /\ run'.out = NoOutcome /\ run'.after = ""
      /\ run'.out.filled = 0 /\ run'.out.fee = 0 /\ run'.out.state = "none"
    BY EndIs, NoOutcomeIs DEF ExecTypeOK, PCs
<1>4. Work' = "done" /\ ~Asking'
    BY <1>3 DEF Work, Asking
<1>5. ~Has(orders, "X") /\ Most(The(orders, "X")) = 0
    BY TheNone, NoOrderIs DEF Placed
<1>6. Placed'
    BY <1>1, <1>2, <1>4, <1>5 DEF Placed
<1>7. Frame'
  <2>1. Range(run'.legs) = {}
      BY <1>3, LegsAre DEF Legs
  <2>. QED
      BY <1>1, <1>2, <1>3, <1>4, <2>1 DEF Frame
<1>8. Answers'
    BY <1>3, NoAnswer
<1>9. InBook'
    BY <1>1, <1>4 DEF InBook
<1>10. Moving'
  <2>1. Most(The(orders, "X")) <= book'.spot
      BY <1>1, <1>5 DEF ExecTypeOK, Book
  <2>. QED
      BY <1>2, <1>4, <2>1 DEF Moving
<1>11. Held' = Held /\ Bought' = Bought
  <2>1. Held' = book'.spot + book'.dust + 0
      BY <1>4 DEF Held
  <2>2. book'.spot \in Nat /\ book'.dust \in Nat
      BY DEF Goes, Book
  <2>. QED
      BY <1>2, <2>1, <2>2, StraysStay DEF Bought, Ours
<1>12. Counted'
    BY <1>2, <1>3, <1>11 DEF Counted
<1>13. InPlan'
    BY <1>1, <1>2, <1>3, <1>11 DEF InPlan
<1>14. EntryShort' /\ LegShort'
    BY <1>1, <1>4, StraysStay DEF EntryShort, LegShort
<1>15. Ended'
  <2>1. Quiet("P")' <=> Quiet("P")
      BY <1>2, StraysStay
  <2>2. Entry' = Entry /\ short' = short
      BY <1>1, <1>2
  <2>3. ASSUME ~escalate', Quiet("P")'
        PROVE  /\ short' <= book'.perp /\ (short' > 0 => book'.status = "OPEN")
               /\ short' <= book'.spot + book'.dust
    <3>1. /\ short <= book'.perp /\ (short > 0 => book'.status = "OPEN")
          /\ short <= book'.spot + book'.dust
        BY <2>1, <2>3, Zenon
    <3>. QED
        BY <2>2, <3>1
  <2>. QED
      BY <2>3 DEF Ended
<1>. QED
    BY <1>1, <1>6, <1>7, <1>8, <1>9, <1>10, <1>12, <1>13, <1>14, <1>15

(* A reduction goes to its next leg.                                       *)
LEMMA LegEnds ==
  ASSUME IInv, Goes, ~Entry, run' = NextLeg(run), run.legs # <<>>, run.pc # "failed",
         escalate => escalate', book'.status = "OPEN",
         Has(orders, "C") => "perp" \notin Range(Tail(run.legs)),
         Has(orders, "X") => book'.pending # {} /\ "spot" \notin Range(Tail(run.legs)),
         book'.spot + book'.dust = Held, Most(The(orders, "X")) <= book'.spot,
         escalate' \/ short <= book'.perp,
         act.kind = "EXIT" /\ "perp" \in Range(act.legs) /\ "perp" \notin Range(Tail(run.legs)) =>
            escalate' \/ short = 0
  PROVE  IInv'
<1> USE DEF IInv
<1>1. ExecTypeOK' /\ OrdersSane' /\ Entry' = Entry
    BY GoesTypes
<1>2. UNCHANGED <<short, wallet, strays, slack, orders, act>>
    BY DEF Goes
<1>3. /\ run'.pc = "leg" /\ run'.legs = Tail(run.legs) /\ run'.out = NoOutcome
      /\ run'.after = "" /\ run'.out.filled = 0 /\ run'.out.fee = 0 /\ run'.out.state = "none"
    BY NextLegIs, NoOutcomeIs DEF ExecTypeOK
<1>4. Work' = "leg" /\ ~Asking'
    BY <1>3 DEF Work, Asking
<1>5. Placed'
    BY <1>1, <1>2, <1>3, <1>4 DEF Placed
<1>6. Frame'
  <2>1. Range(run'.legs) \subseteq Range(act.legs)
    <3>1. Range(Tail(run.legs)) \subseteq Range(run.legs)
        BY LegsAre, RunIs DEF ExecTypeOK
    <3>. QED
        BY <1>3, <3>1 DEF Frame
  <2>. QED
      BY <1>1, <1>2, <1>3, <1>4, <2>1 DEF Frame
<1>7. Answers'
    BY <1>3, NoAnswer
<1>8. InBook'
    BY <1>1, <1>4 DEF InBook
<1>9. Moving'
    BY <1>2, <1>4 DEF Moving
<1>10. Held' = Held /\ Bought' = Bought
  <2>1. Held' = book'.spot + book'.dust + 0
      BY <1>4 DEF Held
  <2>2. book'.spot \in Nat /\ book'.dust \in Nat
      BY DEF Goes, Book
  <2>. QED
      BY <1>2, <2>1, <2>2, StraysStay DEF Bought, Ours
<1>11. Counted'
    BY <1>2, <1>3, <1>10 DEF Counted
<1>12. InPlan' /\ EntryShort'
    BY <1>1, <1>4, StraysStay DEF InPlan, EntryShort
<1>13. LegShort'
    BY <1>1, <1>2, <1>3, <1>4 DEF LegShort
<1>14. Ended'
    BY <1>3, StraysStay DEF Ended
<1>. QED
    BY <1>1, <1>5, <1>6, <1>7, <1>8, <1>9, <1>11, <1>12, <1>13, <1>14

(* A close begins.                                                         *)
Begins(qty, after) ==
    /\ Goes /\ run' = StartClose(run, qty, after)
    /\ (after # "" <=> Entry) /\ run.pc \notin {"failed", "done"} /\ (escalate => escalate')
    /\ ~Has(orders, "C") /\ (Has(orders, "P") => after = "unknown entry")
    /\ Has(orders, "S") => book'.pending # {}
    /\ Has(orders, "X") => book'.pending # {} /\ "spot" \notin Range(run.legs)
    /\ book'.spot + book'.dust = Held /\ Most(The(orders, "X")) <= book'.spot
    /\ after = "excess" =>
          /\ book'.status = "OPEN" /\ book'.perp = run.entered
          /\ short <= run.entered /\ qty <= run.entered /\ run.entered - qty <= book'.spot
    /\ ~Entry =>
          /\ run.legs # <<>> /\ Head(run.legs) = "perp" /\ book' = book
          /\ escalate' \/ (short <= Base /\ (act.kind = "EXIT" => short <= qty))

LEMMA CloseBegins ==
  ASSUME IInv, NEW qty \in Nat, NEW after \in Afters, Begins(qty, after)
  PROVE  IInv'
<1> USE DEF IInv
<1>1. ExecTypeOK' /\ OrdersSane' /\ Entry' = Entry
    BY GoesTypes DEF Begins
<1>2. UNCHANGED <<short, wallet, strays, slack, orders, act>>
    BY DEF Goes, Begins
<1>3. /\ run'.pc = "close" /\ run'.legs = run.legs /\ run'.entered = run.entered
      /\ run'.want = qty /\ run'.got = 0 /\ run'.out = NoOutcome /\ run'.after = after
      /\ run'.out.filled = 0 /\ run'.out.fee = 0 /\ run'.out.state = "none"
  <2>1. act \in Action /\ run \in Run
      BY DEF ExecTypeOK
  <2>2. /\ run'.pc = "close" /\ run'.legs = run.legs /\ run'.entered = run.entered
        /\ run'.want = qty /\ run'.got = 0 /\ run'.out = NoOutcome /\ run'.after = after
    <3>1. PICK c : c = StartClose(run, qty, after)
        OBVIOUS
    <3>2. /\ c.pc = "close" /\ c.legs = run.legs /\ c.entered = run.entered
          /\ c.want = qty /\ c.got = 0 /\ c.out = NoOutcome /\ c.after = after
        BY <2>1, <3>1, StartCloseIs
    <3>3. run' = c
        BY <3>1 DEF Begins
    <3>. QED
        BY <3>2, <3>3
  <2>. QED
      BY <2>2, NoOutcomeIs
<1>4. Work' = "C" /\ ~Asking'
    BY <1>3 DEF Work, Asking
<1>5. Moved' = 0 /\ The(orders, "C") = NoOrder
    BY <1>3, TheNone, PlusZero DEF Moved, Begins
<1>6. Work \notin {"failed", "done"}
    BY WorkIs DEF Begins
<1>7. Placed'
    BY <1>1, <1>2, <1>3, <1>4 DEF Placed, Begins
<1>8. Frame'
  <2>1. IF Entry THEN act.perp = Quantity /\ run.legs = <<>> ELSE act.legs # <<>>
      BY DEF Frame
  <2>. QED
      BY <1>1, <1>2, <1>3, <1>4, <2>1 DEF Frame, Begins
<1>9. Answers'
    BY <1>3, NoAnswer
<1>10. InBook'
    BY <1>1, <1>3, <1>4, <1>6 DEF InBook, Begins
<1>11. Moving'
  <2>1. Moved' + Most(The(orders, "C")) = 0 + 0
      BY <1>5, NoOrderIs
  <2>2. Moved' + Most(The(orders, "C")) <= qty
      BY <2>1
  <2>. QED
      BY <1>2, <1>3, <1>4, <2>2 DEF Moving, Begins
<1>12. Held' = Held /\ Bought' = Bought
  <2>1. Held' = book'.spot + book'.dust + 0
      BY <1>4 DEF Held
  <2>2. book'.spot \in Nat /\ book'.dust \in Nat
      BY DEF Goes, Begins, Book
  <2>3. book'.spot + book'.dust + 0 = book'.spot + book'.dust
      BY <2>2, PlusZero
  <2>. QED
      BY <1>2, <2>1, <2>3, StraysStay DEF Bought, Ours, Begins
<1>13. Counted'
    BY <1>2, <1>3, <1>12 DEF Counted, Begins
<1>14. InPlan'
    BY <1>1, <1>2, <1>3, <1>12 DEF InPlan, Begins
<1>15. Closing' = short
  <2>1. Closing' = short + 0 + 0
      BY <1>2, <1>5, NoOrderIs DEF Closing
  <2>2. short \in Nat
      BY Numbers
  <2>. QED
      BY <2>1, <2>2, PlusZero
<1>16. EntryShort'
    BY <1>3, <1>4, <1>15, StraysStay DEF EntryShort, Begins
<1>17. LegShort'
  <2>1. SUFFICES ASSUME ~Entry PROVE LegShort'
      BY <1>1 DEF LegShort
  <2>2. Base' = Base
      BY <1>2, <2>1 DEF Base, Begins
  <2>3. /\ act.pos # Unread => short <= act.pos
        /\ act.kind = "EXIT" /\ "perp" \in Range(act.legs) /\ "perp" \notin Range(run.legs) =>
              escalate \/ short = 0
        /\ act.kind = "EXIT" /\ "perp" \notin Range(act.legs) => act.legs = <<"spot">>
      BY <2>1 DEF LegShort
  <2>. QED
      BY <1>2, <1>3, <1>4, <1>15, <2>1, <2>2, <2>3 DEF LegShort, Begins
<1>18. Ended'
    BY <1>3, StraysStay DEF Ended
<1>. QED
    BY <1>1, <1>7, <1>8, <1>9, <1>10, <1>11, <1>13, <1>14, <1>16, <1>17, <1>18

(* The run is abandoned, with no spot order unread.                        *)
LEMMA RaisesKeeps == IInv /\ Astray /\ Raises => IInv'
<1> SUFFICES ASSUME IInv, Astray, Raises PROVE IInv'
    OBVIOUS
<1> USE DEF IInv
<1>1. /\ UNCHANGED <<short, wallet, strays, slack, orders, act, book>> /\ escalate' = TRUE
      /\ run' = End("failed") /\ run.pc \in {"enter", "buy", "sell"}
    BY DEF Raises, traded, exchange
<1>2. /\ run' \in Run /\ run'.pc = "failed" /\ run'.legs = <<>> /\ run'.out = NoOutcome
      /\ run'.after = "" /\ run'.out.filled = 0 /\ run'.out.fee = 0 /\ run'.out.state = "none"
    BY <1>1, EndIs, NoOutcomeIs DEF ExecTypeOK, PCs
<1>3. Goes
    BY <1>1, <1>2 DEF Goes, ExecTypeOK
<1>4. ExecTypeOK' /\ OrdersSane' /\ Entry' = Entry
    BY <1>3, GoesTypes
<1>5. ~Asking /\ Work \in {"P", "S", "X"}
    BY <1>1 DEF Asking, Work
<1>6. /\ ~Has(orders, "P") /\ ~Has(orders, "S") /\ ~Has(orders, "X")
      /\ Moved = run.got /\ run.out.fee = 0
    BY <1>5, NoneLeft DEF Tags
<1>7. Work' = "failed" /\ ~Asking'
    BY <1>2 DEF Work, Asking
<1>8. The(orders, "P") = NoOrder /\ The(orders, "S") = NoOrder /\ The(orders, "X") = NoOrder
    BY <1>6, TheNone
<1>9. Placed'
    BY <1>1, <1>4, <1>6, <1>7 DEF Placed
<1>10. Frame'
  <2>1. Range(run'.legs) = {}
      BY <1>2, LegsAre DEF Legs
  <2>. QED
      BY <1>1, <1>2, <1>4, <1>7, <2>1 DEF Frame
<1>11. Answers'
    BY <1>2, NoAnswer
<1>12. InBook'
    BY <1>4, <1>7 DEF InBook
<1>13. Moving'
  <2>1. Most(The(orders, "X")) <= book.spot
      BY <1>8, NoOrderIs, Numbers
  <2>. QED
      BY <1>1, <1>7, <2>1 DEF Moving
<1>14. Held \in Nat
  <2>1. Work = "X" => Moved <= book.spot
    <3>1. SUFFICES ASSUME Work = "X" PROVE Moved <= book.spot
        OBVIOUS
    <3>2. Moved + 0 <= run.want /\ run.want <= book.spot
        BY <1>8, <3>1, NoOrderIs DEF Moving, InBook
    <3>. QED
        BY <3>2, Numbers
  <2>. QED
      BY <1>5, <1>6, <2>1, Numbers DEF Held
<1>15. Bought - slack = Held
  <2>1. Bought - slack = Held + 0 - 0 - 0
      BY <1>1, <1>8, NoOrderIs DEF Counted
  <2>. QED
      BY <1>14, <2>1
<1>16. Counted'
  <2>1. Foreign <= wallet
      BY <1>1, <1>5, <1>14, <1>15, NotRefused, Numbers DEF Bought, Ours, Drift, Quiet
  <2>. QED
      BY <1>1, <1>2, <2>1 DEF Counted
<1>17. InPlan'
  <2>1. Entry => short + Rest(The(orders, "P")) <= Quantity /\ Held + 0 <= MostCoins
      BY <1>1, <1>8, NoOrderIs DEF InPlan
  <2>2. Bought' - slack' = Held /\ Held + 0 = Held
      BY <1>1, <1>14, <1>15, StraysStay DEF Bought, Ours
  <2>. QED
      BY <1>1, <1>2, <1>4, <2>1, <2>2 DEF InPlan
<1>18. EntryShort'
    BY <1>7, StraysStay DEF EntryShort
<1>19. LegShort'
    BY <1>1, <1>4, <1>7 DEF LegShort
<1>20. Ended'
    BY <1>2, StraysStay DEF Ended
<1>. QED
    BY <1>4, <1>9, <1>10, <1>11, <1>12, <1>13, <1>16, <1>17, <1>18, <1>19, <1>20

-----------------------------------------------------------------------------
(* The entry.                                                              *)

(* The arithmetic of whole steps.                                          *)
LEMMA FloorIs ==
  ASSUME NEW x \in Nat
  PROVE  /\ FloorTo(x, PerpStep) \in Nat /\ FloorTo(x, PerpStep) <= x
         /\ (x % PerpStep) = 0 => FloorTo(x, PerpStep) = x
<1>1. x \div PerpStep \in Nat
    OBVIOUS
<1>2. x = PerpStep * (x \div PerpStep) + (x % PerpStep) /\ (x % PerpStep) \in 0..PerpStep - 1
    OBVIOUS
<1>3. PerpStep * (x \div PerpStep) = (x \div PerpStep) * PerpStep /\ (x \div PerpStep) * PerpStep \in Nat
    BY <1>1
<1>. QED
    BY <1>2, <1>3 DEF FloorTo

LEMMA EnterKeeps == IInv /\ Astray /\ Enter => IInv'
<1> SUFFICES ASSUME IInv, Astray, Enter PROVE IInv'
    OBVIOUS
<1> USE DEF IInv
<1>1. /\ UNCHANGED <<short, wallet, strays, slack, orders, act, book, escalate>> /\ run.pc = "enter"
    BY DEF Enter, traded, exchange
<1>2. ~Asking /\ Work = "P" /\ Entry
    BY <1>1 DEF Asking, Work, Frame
<1>3. /\ The(orders, "P") = NoOrder /\ run.out.filled = 0 /\ Moved = run.got
      /\ ~Has(orders, "P") /\ ~Has(orders, "S")
    BY <1>2, NoneLeft DEF Tags
<1>4. act \in Action /\ run \in Run /\ book \in Book /\ escalate \in BOOLEAN
    BY DEF ExecTypeOK
<1>5. CASE Finish
  <2>1. run' = End("done") /\ run' \in Run
      BY <1>4, <1>5, EndIs DEF Finish, PCs
  <2>2. Goes
      BY <1>1, <1>4, <2>1 DEF Goes
  <2>3. short <= 0 + 0
      BY <1>1, <1>2, <1>3, NotRefused, NoOrderIs DEF EntryShort
  <2>4. book.spot + book.dust = Held
      BY <1>2, Numbers DEF Held
  <2>. QED
      BY <1>1, <1>2, <1>3, <2>1, <2>2, <2>3, <2>4, EntryEnds, Numbers
<1>6. CASE run' = Ask(run, "P", 0, FloorTo(act.perp, PerpStep))
  <2>1. FloorTo(act.perp, PerpStep) = Quantity /\ Quantity \in Nat
      BY <1>2, FloorIs DEF Frame
  <2>2. PICK a : a = Ask(run, "P", 0, Quantity)
      OBVIOUS
  <2>3. /\ a \in Run /\ a.pc = "send" /\ a.link = [tag |-> "P", n |-> 0] /\ a.qty = Quantity
        /\ a.out = NoOutcome /\ a.legs = run.legs /\ a.want = run.want /\ a.got = run.got
        /\ a.entered = run.entered /\ a.own = run.own /\ a.after = run.after
      BY <1>4, <2>1, <2>2, AskIs DEF Tags
  <2>4. run' = a
      BY <1>6, <2>1, <2>2
  <2>5. Goes
      BY <1>1, <1>4, <2>3, <2>4 DEF Goes
  <2>. QED
      BY <1>1, <1>2, <2>1, <2>3, <2>4, <2>5, AskKeeps DEF Tags
<1>. QED
    BY <1>5, <1>6 DEF Enter

(* The answer to an entry: what it leaves, and that no other order is      *)
(* unread.                                                                 *)
LEMMA EntryAnswerIs ==
  ASSUME IInv, run.pc = "answer", run.link.tag = "P"
  PROVE  /\ Work = "P" /\ Entry /\ act.legs = <<>> /\ Held = book.spot + book.dust
         /\ Has(orders, "P") => run.out.state = "unknown"
         /\ ~Has(orders, "S") /\ ~Has(orders, "C") /\ ~Has(orders, "X")
         /\ book.perp = 0 /\ book.spot = 0 /\ book.dust < SpotMin /\ book.pending = {}
         /\ Quiet("P") => short <= The(orders, "P").filled + run.out.filled
         /\ run.out.filled <= Quantity
<1> USE DEF IInv
<1>1. Asking /\ Work = "P" /\ Entry /\ act.legs = <<>>
    BY WorkIs DEF Asking, Frame
<1>2. Held = book.spot + book.dust
    BY <1>1, Numbers DEF Held
<1>3. Has(orders, "P") => run.out.state = "unknown"
    BY <1>1 DEF Placed
<1>4. book.perp = 0 /\ book.spot = 0 /\ book.dust < SpotMin /\ book.pending = {}
    BY <1>1 DEF InBook
<1>5. ~Has(orders, "S") /\ ~Has(orders, "C") /\ ~Has(orders, "X")
    BY <1>1, <1>4 DEF Placed
<1>6. Quiet("P") => short <= The(orders, "P").filled + run.out.filled
    BY <1>1 DEF EntryShort
<1>7. run.out.filled <= Quantity
  <2>1. run.got + run.out.filled + Most(The(orders, "P")) <= Quantity
      BY <1>1 DEF Moving, Moved
  <2>. QED
      BY <2>1, Numbers
<1>. QED
    BY <1>1, <1>2, <1>3, <1>4, <1>5, <1>6, <1>7

(* The spot leg of an entry begins.                                        *)
GoesToBuy(own) ==
    /\ book' = [book EXCEPT !.status = "OPEN", !.perp = run.out.filled, !.spot = own,
                            !.dust = @ - own]
    /\ run' = [Begin("buy") EXCEPT !.entered = run.out.filled, !.own = own,
                   !.want = run.out.filled - own, !.link = [tag |-> "S", n |-> 0],
                   !.late = run.late]

LEMMA BuyBegins ==
  ASSUME IInv, run.pc = "answer", run.link.tag = "P", run.out.state = "done",
         run.out.filled > 0, UNCHANGED <<short, wallet, strays, slack, orders, act, escalate>>,
         NEW own \in Nat, own <= book.dust, own <= run.out.filled, GoesToBuy(own), Quiet("P")
  PROVE  IInv'
<1> USE DEF IInv
<1>1. /\ Work = "P" /\ Entry /\ act.legs = <<>> /\ Held = book.spot + book.dust
      /\ ~Has(orders, "P") /\ ~Has(orders, "S") /\ ~Has(orders, "C") /\ ~Has(orders, "X")
      /\ book.perp = 0 /\ book.spot = 0 /\ book.dust < SpotMin /\ book.pending = {}
      /\ short <= The(orders, "P").filled + run.out.filled /\ run.out.filled <= Quantity
    BY EntryAnswerIs
<1>2. /\ The(orders, "P") = NoOrder /\ The(orders, "S") = NoOrder
      /\ The(orders, "C") = NoOrder /\ The(orders, "X") = NoOrder
    BY <1>1, TheNone
<1>3. act \in Action /\ run \in Run /\ book \in Book /\ run.out.filled \in Nat /\ run.late \in BOOLEAN
    BY RunIs DEF ExecTypeOK
<1>4. /\ book' \in Book /\ book'.status = "OPEN" /\ book'.perp = run.out.filled
      /\ book'.spot = own /\ book'.dust = book.dust - own /\ book'.pending = book.pending
  <2>1. book.dust - own \in Nat
      BY Numbers
  <2>. QED
      BY <1>3, <2>1 DEF Book, GoesToBuy
<1>5. /\ run' \in Run /\ run'.pc = "buy" /\ run'.legs = <<>> /\ run'.link.tag = "S"
      /\ run'.link.n = 0 /\ run'.out = NoOutcome /\ run'.got = 0 /\ run'.after = ""
      /\ run'.entered = run.out.filled /\ run'.own = own /\ run'.want = run.out.filled - own
  <2>1. /\ Begin("buy") \in Run /\ Begin("buy").pc = "buy" /\ Begin("buy").legs = act.legs
        /\ Begin("buy").out = NoOutcome /\ Begin("buy").got = 0 /\ Begin("buy").after = ""
      BY <1>3, BeginIs DEF PCs
  <2>2. run.out.filled - own \in Nat
      BY <1>3
  <2>3. PICK link : link = [tag |-> "S", n |-> 0]
      OBVIOUS
  <2>4. link \in Link /\ link.tag = "S" /\ link.n = 0
      BY <2>3 DEF Link, Tags
  <2>5. run' = [Begin("buy") EXCEPT !.entered = run.out.filled, !.own = own,
                    !.want = run.out.filled - own, !.link = link, !.late = run.late]
      BY <2>3 DEF GoesToBuy
  <2>6. run' \in Run
      BY <1>3, <2>1, <2>2, <2>4, <2>5 DEF Run
  <2>7. /\ run'.pc = "buy" /\ run'.legs = <<>> /\ run'.link = link
        /\ run'.out = NoOutcome /\ run'.got = 0 /\ run'.after = ""
        /\ run'.entered = run.out.filled /\ run'.own = own /\ run'.want = run.out.filled - own
      BY <1>1, <2>1, <2>5 DEF Run
  <2>. QED
      BY <2>4, <2>6, <2>7
<1>6. Goes
    BY <1>3, <1>4, <1>5 DEF Goes, ExecTypeOK
<1>7. ExecTypeOK' /\ OrdersSane' /\ Entry' = Entry
    BY <1>6, GoesTypes
<1>8. Work' = "S" /\ ~Asking' /\ run'.out.filled = 0 /\ run'.out.fee = 0 /\ Moved' = 0
  <2>1. Work' = "S" /\ ~Asking' /\ run'.out.filled = 0 /\ run'.out.fee = 0
      BY <1>5, NoOutcomeIs DEF Work, Asking
  <2>. QED
      BY <1>5, <2>1, PlusZero DEF Moved
<1>9. Placed'
    BY <1>1, <1>7, <1>8 DEF Placed
<1>10. Frame'
  <2>1. act.perp = Quantity
      BY <1>1 DEF Frame
  <2>2. Range(run'.legs) = {}
      BY <1>5, LegsAre DEF Legs
  <2>. QED
      BY <1>1, <1>5, <1>7, <1>8, <2>1, <2>2 DEF Frame, Entry
<1>11. Answers'
    BY <1>5, NoAnswer
<1>12. book'.spot + book'.dust = book.spot + book.dust
  <2>1. book.dust \in Nat /\ book.spot = 0 /\ book'.spot = own /\ book'.dust = book.dust - own
      BY <1>1, <1>4, Numbers
  <2>2. own + (book.dust - own) = 0 + book.dust
      BY <2>1
  <2>. QED
      BY <2>1, <2>2
<1>13. InBook'
  <2>1. run'.want + run'.own = run'.entered
    <3>1. run.out.filled \in Nat
        BY <1>3
    <3>2. run.out.filled - own + own = run.out.filled
        BY <3>1
    <3>. QED
        BY <1>5, <3>2
  <2>2. book'.spot + book'.dust < SpotMin
    <3>1. book.spot + book.dust = book.dust
      <4>1. 0 + book.dust = book.dust
          BY Numbers
      <4>. QED
          BY <1>1, <4>1
    <3>. QED
        BY <1>1, <1>12, <3>1
  <2>. QED
      BY <1>1, <1>4, <1>5, <1>7, <1>8, <2>1, <2>2 DEF InBook
<1>14. Moving'
  <2>1. /\ Most(The(orders, "S")) = 0 /\ Most(The(orders, "X")) = 0
      BY <1>2, NoOrderIs
  <2>2. 0 <= run'.want + MaxOf(FeeMax, SpotMin) /\ 0 <= book'.spot
    <3>1. run'.want \in Nat /\ book'.spot \in Nat
        BY <1>5, <1>4, RunIs
    <3>. QED
        BY <3>1
  <2>. QED
      BY <1>8, <2>1, <2>2 DEF Moving
<1>15. Held' = Held /\ Bought' = Bought
  <2>1. Held' = book'.spot + book'.dust + (0 - 0)
      BY <1>8 DEF Held
  <2>2. Held' = book.spot + book.dust + (0 - 0)
      BY <1>12, <2>1
  <2>3. book.spot + book.dust + (0 - 0) = book.spot + book.dust
      BY Numbers
  <2>. QED
      BY <1>1, <2>2, <2>3, StraysStay DEF Bought, Ours
<1>16. run.pc # "failed" /\ run'.pc # "failed" /\ run'.pc # "done"
    BY <1>5
<1>17. Counted'
    BY <1>15, <1>16 DEF Counted
<1>18. InPlan'
    BY <1>7, <1>15, <1>16 DEF InPlan
<1>19. EntryShort'
  <2>1. short <= run.out.filled
      BY <1>1, <1>2, <1>3, NoOrderIs
  <2>. QED
      BY <1>1, <1>5, <1>8, <2>1, StraysStay DEF EntryShort
<1>20. LegShort'
    BY <1>1, <1>7 DEF LegShort
<1>21. Ended'
    BY <1>16, StraysStay DEF Ended
<1>. QED
    BY <1>7, <1>9, <1>10, <1>11, <1>13, <1>14, <1>17, <1>18, <1>19, <1>20, <1>21

LEMMA EntryAnsweredKeeps == IInv /\ Astray /\ EntryAnswered => IInv'
<1> SUFFICES ASSUME IInv, Astray, EntryAnswered PROVE IInv'
    OBVIOUS
<1>1. /\ UNCHANGED <<short, wallet, strays, slack, orders, act, escalate>>
      /\ run.pc = "answer" /\ run.link.tag = "P"
    BY DEF EntryAnswered, traded, exchange
<1>2. ExecTypeOK /\ OrdersSane /\ act \in Action /\ run \in Run /\ book \in Book /\ escalate \in BOOLEAN
    BY DEF IInv, ExecTypeOK
<1>3. /\ Work = "P" /\ Entry /\ act.legs = <<>> /\ Held = book.spot + book.dust
      /\ Has(orders, "P") => run.out.state = "unknown"
      /\ ~Has(orders, "S") /\ ~Has(orders, "C") /\ ~Has(orders, "X")
      /\ Quiet("P") => short <= The(orders, "P").filled + run.out.filled
    BY <1>1, EntryAnswerIs
<1>4. CASE /\ run.out.state = "rejected" \/ (run.out.state = "done" /\ run.out.filled = 0)
           /\ Finish /\ UNCHANGED book
  <2>1. run' = End("done") /\ run' \in Run
      BY <1>2, <1>4, EndIs DEF Finish, PCs
  <2>2. Goes
      BY <1>1, <1>2, <1>4, <2>1 DEF Goes
  <2>3. run.out.filled = 0
      BY <1>4 DEF IInv, Answers
  <2>4. ~Has(orders, "P") /\ The(orders, "P").filled = 0
      BY <1>3, <1>4, TheNone, NoOrderIs
  <2>5. Quiet("P") => short = 0
    <3>1. Quiet("P") => short <= 0 + 0
        BY <1>3, <2>3, <2>4
    <3>2. short \in Nat
        BY <1>2, Numbers
    <3>. QED
        BY <3>1, <3>2
  <2>6. Quiet("P") => /\ short <= book'.perp /\ ~(short > 0)
                      /\ short <= book'.spot + book'.dust
    <3>1. book.perp \in Nat /\ book.spot \in Nat /\ book.dust \in Nat
        BY <1>2, Numbers
    <3>2. 0 <= book.perp /\ 0 <= book.spot + book.dust
        BY <3>1
    <3>. QED
        BY <1>4, <2>5, <3>2
  <2>7. book'.spot + book'.dust = Held /\ run.pc # "failed" /\ (escalate => escalate')
      BY <1>1, <1>3, <1>4
  <2>. QED
      BY <1>3, <2>1, <2>2, <2>4, <2>6, <2>7, EntryEnds
<1>5. CASE /\ run.out.state = "unknown"
           /\ run' = StartClose(run, run.qty, "unknown entry") /\ UNCHANGED book
  <2>1. run.qty \in Nat /\ "unknown entry" \in Afters
      BY <1>2, Numbers DEF Afters
  <2>2. run' \in Run
      BY <1>2, <1>5, <2>1, StartCloseIs
  <2>3. Goes
      BY <1>1, <1>2, <1>5, <2>2 DEF Goes
  <2>4. Most(The(orders, "X")) <= book.spot
    <3>1. Most(The(orders, "X")) = 0
        BY <1>3, TheNone, NoOrderIs
    <3>. QED
        BY <1>2, <3>1, Numbers
  <2>5. Begins(run.qty, "unknown entry")
      BY <1>1, <1>2, <1>3, <1>5, <2>3, <2>4 DEF Begins
  <2>. QED
      BY <2>1, <2>5, CloseBegins
<1>6. CASE /\ run.out.state = "done" /\ run.out.filled > 0
           /\ LET filled == run.out.filled
                  own == OwnDust(book, wallet, filled)
              IN /\ book' = [book EXCEPT !.status = "OPEN", !.perp = filled, !.spot = own,
                                         !.dust = @ - own]
                 /\ run' = [Begin("buy") EXCEPT !.entered = filled, !.own = own,
                               !.want = filled - own, !.link = [tag |-> "S", n |-> 0],
                               !.late = run.late]
  <2>1. PICK own : own = OwnDust(book, wallet, run.out.filled)
      OBVIOUS
  <2>2. own \in Nat /\ own <= book.dust /\ own <= run.out.filled
      BY <1>2, <2>1, Numbers DEF OwnDust
  <2>3. Quiet("P")
      BY <1>1, <1>6 DEF Astray, Refused
  <2>. QED
      BY <1>1, <1>6, <2>1, <2>2, <2>3, BuyBegins DEF GoesToBuy
<1>. QED
    BY <1>4, <1>5, <1>6 DEF EntryAnswered

-----------------------------------------------------------------------------
(* The spot leg of an entry.                                               *)

LEMMA TargetIs ==
  ASSUME NEW filled \in Nat, NEW received \in Nat, NEW pending
  PROVE  /\ Target(filled, received, pending) \in 0..filled
         /\ Target(filled, received, pending) <= received
<1>1. FloorTo(received, PerpStep) \in Nat /\ FloorTo(received, PerpStep) <= received
    BY FloorIs
<1>. QED
    BY <1>1 DEF Target

(* What came in is what was bought so far, net of its fees.                *)
LEMMA ReconcileKeeps ==
  ASSUME IInv, UNCHANGED <<short, wallet, strays, slack, orders, act>>, Work = "S",
         NEW got \in Nat, got = Moved - run.out.fee, NEW pending \in SUBSET Link,
         Has(orders, "S") => pending # {}, Reconcile(got, pending)
  PROVE  IInv'
<1> USE DEF IInv
<1>1. /\ ExecTypeOK /\ OrdersSane /\ act \in Action /\ run \in Run /\ book \in Book
      /\ escalate \in BOOLEAN
    BY DEF ExecTypeOK
<1>2. /\ Entry /\ ~Has(orders, "P") /\ ~Has(orders, "C") /\ ~Has(orders, "X")
      /\ run.pc \notin {"failed", "done"}
  <2>1. Entry /\ run.pc \notin {"failed", "done"} /\ book.pending = {}
      BY <1>1, WorkIs DEF Frame, InBook
  <2>. QED
      BY <2>1 DEF Placed
<1>3. /\ book.status = "OPEN" /\ book.perp = run.entered /\ book.spot = run.own
      /\ short <= run.entered
    BY StraysStay DEF InBook, EntryShort
<1>4. PICK received : received = run.own + got
    OBVIOUS
<1>5. PICK target : target = Target(run.entered, received, pending)
    OBVIOUS
<1>6. /\ received \in Nat /\ target \in Nat /\ target <= run.entered /\ target <= received
      /\ run.entered \in Nat /\ run.entered - target \in Nat
    BY <1>1, <1>4, <1>5, TargetIs, RunIs
<1>7. /\ book' = [book EXCEPT !.spot = received, !.pending = @ \cup pending]
      /\ run' = IF target < run.entered
                THEN StartClose(run, run.entered - target, "excess")
                ELSE End("done")
      /\ escalate' = (escalate \/ (target < run.entered /\ (got <= 0 \/ pending # {})))
    BY <1>4, <1>5 DEF Reconcile
<1>8. /\ book' \in Book /\ book'.status = "OPEN" /\ book'.perp = run.entered
      /\ book'.spot = received /\ book'.dust = book.dust
      /\ book'.pending = book.pending \cup pending
    BY <1>1, <1>3, <1>6, <1>7 DEF Book
<1>9. escalate' \in BOOLEAN /\ (escalate => escalate')
    BY <1>1, <1>7
<1>10. book'.spot + book'.dust = Held
  <2>1. Held = book.spot + book.dust + got
      BY DEF Held
  <2>. QED
      BY <1>1, <1>3, <1>4, <1>8, <2>1, Numbers
<1>11. Most(The(orders, "X")) = 0
    BY <1>2, TheNone, NoOrderIs
<1>12. Has(orders, "S") => book'.pending # {}
    BY <1>8
<1>13. CASE target < run.entered
  <2>1. run' = StartClose(run, run.entered - target, "excess") /\ "excess" \in Afters
      BY <1>7, <1>13 DEF Afters
  <2>2. run' \in Run
      BY <1>1, <1>6, <2>1, StartCloseIs
  <2>3. Goes
      BY <1>8, <1>9, <2>2 DEF Goes
  <2>4. run.entered - target <= run.entered /\ run.entered - (run.entered - target) <= book'.spot
      BY <1>6, <1>8
  <2>5. Most(The(orders, "X")) <= book'.spot
      BY <1>6, <1>8, <1>11
  <2>6. Begins(run.entered - target, "excess")
      BY <1>2, <1>3, <1>8, <1>9, <1>10, <1>12, <2>1, <2>3, <2>4, <2>5 DEF Begins
  <2>. QED
      BY <1>6, <2>1, <2>6, CloseBegins
<1>14. CASE ~(target < run.entered)
  <2>1. run' = End("done") /\ run' \in Run
      BY <1>1, <1>7, <1>14, EndIs DEF PCs
  <2>2. Goes
      BY <1>8, <1>9, <2>1 DEF Goes
  <2>3. short <= book'.perp /\ short <= book'.spot + book'.dust
      BY <1>1, <1>3, <1>6, <1>8, <1>14, Numbers
  <2>. QED
      BY <1>2, <1>8, <1>9, <1>10, <1>12, <2>1, <2>2, <2>3, EntryEnds
<1>. QED
    BY <1>13, <1>14

LEMMA BuyKeeps == IInv /\ Buy => IInv'
<1> SUFFICES ASSUME IInv, Buy PROVE IInv'
    OBVIOUS
<1>1. UNCHANGED <<short, wallet, strays, slack, orders, act>> /\ run.pc = "buy"
    BY DEF Buy, traded, exchange
<1>2. /\ ExecTypeOK /\ OrdersSane /\ act \in Action /\ run \in Run /\ book \in Book
      /\ escalate \in BOOLEAN
    BY DEF IInv, ExecTypeOK
<1>3. ~Asking /\ Work = "S"
    BY <1>1 DEF Asking, Work
<1>4. ~Has(orders, "S") /\ run.out.fee = 0 /\ Moved = run.got /\ run.got \in Nat
    BY <1>2, <1>3, NoneLeft, Numbers
<1>5. CASE Reconcile(run.got, {})
  <2>1. run.got = Moved - run.out.fee
      BY <1>4
  <2>. QED
      BY <1>1, <1>3, <1>4, <1>5, <2>1, ReconcileKeeps
<1>6. CASE /\ run.got < run.want /\ run.link.n < MaxOrders
           /\ run' = Ask(run, "S", run.link.n, MaxOf(run.want - run.got + FeeMax, SpotMin))
           /\ UNCHANGED <<book, escalate>>
  <2>1. PICK qty : qty = MaxOf(run.want - run.got + FeeMax, SpotMin)
      OBVIOUS
  <2>2. qty \in Nat /\ run.got + qty <= run.want + MaxOf(FeeMax, SpotMin)
    <3>1. run.want \in Nat
        BY <1>2, RunIs
    <3>. QED
        BY <1>4, <1>6, <2>1, <3>1
  <2>3. PICK n : n = run.link.n
      OBVIOUS
  <2>4. n \in 0..MaxOrders /\ n < MaxOrders
      BY <1>2, <1>6, <2>3, RunIs
  <2>5. PICK a : a = Ask(run, "S", n, qty)
      OBVIOUS
  <2>6. /\ a \in Run /\ a.pc = "send" /\ a.link = [tag |-> "S", n |-> n] /\ a.qty = qty
        /\ a.out = NoOutcome /\ a.legs = run.legs /\ a.want = run.want /\ a.got = run.got
        /\ a.entered = run.entered /\ a.own = run.own /\ a.after = run.after
    <3>1. run \in Run /\ "S" \in Tags /\ n \in 0..MaxOrders /\ qty \in Nat
        BY <1>2, <2>2, <2>4 DEF Tags
    <3>. QED
        BY <2>5, <3>1, AskIs
  <2>7. run' = a
      BY <1>6, <2>1, <2>3, <2>5
  <2>8. Goes
      BY <1>1, <1>2, <1>6, <2>6, <2>7 DEF Goes
  <2>. QED
      BY <1>3, <1>6, <2>2, <2>4, <2>6, <2>7, <2>8, AskKeeps DEF Tags
<1>. QED
    BY <1>5, <1>6 DEF Buy

LEMMA BuyAnsweredKeeps == IInv /\ BuyAnswered => IInv'
<1> SUFFICES ASSUME IInv, BuyAnswered PROVE IInv'
    OBVIOUS
<1>1. /\ UNCHANGED <<short, wallet, strays, slack, orders, act>>
      /\ run.pc = "answer" /\ run.link.tag = "S"
    BY DEF BuyAnswered, traded, exchange
<1>2. /\ ExecTypeOK /\ OrdersSane /\ act \in Action /\ run \in Run /\ book \in Book
      /\ escalate \in BOOLEAN
    BY DEF IInv, ExecTypeOK
<1>3. Asking /\ Work = "S"
    BY <1>1, <1>2, WorkIs DEF Asking
<1>4. Has(orders, "S") => run.out.state = "unknown"
    BY <1>1, <1>3 DEF IInv, Placed
<1>5. run.link.n < MaxOrders
    BY <1>3 DEF IInv, Frame
<1>6. run.got \in Nat /\ run.out.filled \in Nat /\ run.out.fee \in Nat /\ run.out.fee <= run.out.filled
    BY <1>2, RunIs DEF IInv, Answers
<1>7. run.out.state # "done" => Moved = run.got /\ run.out.fee = 0
  <2>1. run.out.state # "done" => run.out.filled = 0 /\ run.out.fee = 0
      BY DEF IInv, Answers
  <2>. QED
      BY <1>6, <2>1 DEF Moved
<1>8. CASE run.out.state = "unknown" /\ Reconcile(run.got, {run.link})
  <2>1. run.got = Moved - run.out.fee
      BY <1>6, <1>7, <1>8
  <2>2. {run.link} \in SUBSET Link
      BY <1>2, RunIs
  <2>. QED
      BY <1>1, <1>3, <1>6, <1>8, <2>1, <2>2, ReconcileKeeps
<1>9. CASE run.out.state = "rejected" /\ Reconcile(run.got, {})
  <2>1. run.got = Moved - run.out.fee
      BY <1>6, <1>7, <1>9
  <2>. QED
      BY <1>1, <1>3, <1>4, <1>6, <1>9, <2>1, ReconcileKeeps
<1>10. ASSUME run.out.state = "done"
       PROVE  LET got == run.got + Received(run.out)
              IN  (IF run.out.filled >= run.qty
                   THEN Reconcile(got, {})
                   ELSE run' = Again("buy", got) /\ UNCHANGED <<book, escalate>>)
                  => IInv'
  <2>1. PICK got : got = run.got + Received(run.out)
      OBVIOUS
  <2>2. got = run.got + (run.out.filled - run.out.fee)
      BY <2>1 DEF Received
  <2>3. got \in Nat /\ got = Moved - run.out.fee
      BY <1>6, <2>2 DEF Moved
  <2>4. Reconcile(got, {}) => IInv'
      BY <1>1, <1>3, <1>4, <1>10, <2>3, ReconcileKeeps
  <2>5. run' = Again("buy", got) /\ UNCHANGED <<book, escalate>> => IInv'
    <3>1. SUFFICES ASSUME run' = Again("buy", got), UNCHANGED <<book, escalate>> PROVE IInv'
        OBVIOUS
    <3>2. run' \in Run
        BY <1>2, <1>5, <2>3, <3>1, AgainIs DEF PCs
    <3>3. Goes
        BY <1>1, <1>2, <3>1, <3>2 DEF Goes
    <3>4. run' = Again("buy", run.got + (run.out.filled - run.out.fee))
        BY <2>2, <3>1
    <3>. QED
        BY <1>1, <1>5, <1>10, <3>1, <3>3, <3>4, AgainKeeps
  <2>. QED
      BY <2>1, <2>4, <2>5
<1>. QED
    BY <1>8, <1>9, <1>10 DEF BuyAnswered

-----------------------------------------------------------------------------
(* A close.                                                                *)

LEMMA SettledIs ==
  ASSUME NEW b \in Book
  PROVE  /\ Settled(b) \in Book /\ Settled(b).perp = b.perp /\ Settled(b).pending = b.pending
         /\ Settled(b).spot + Settled(b).dust = b.spot + b.dust
         /\ b.perp > 0 => Settled(b).status = b.status
<1>1. b.perp \in Nat /\ b.spot \in Nat /\ b.dust \in Nat /\ b.pending \in SUBSET Link
    BY DEF Book
<1>2. CASE Gone(b)
  <2>1. PICK dust : dust = b.dust + b.spot
      OBVIOUS
  <2>2. dust \in Nat
      BY <1>1, <2>1
  <2>3. Settled(b) = [b EXCEPT !.status = "FLAT", !.perp = 0, !.spot = 0, !.dust = dust]
      BY <1>2, <2>1 DEF Settled
  <2>4. /\ Settled(b) \in Book /\ Settled(b).perp = 0 /\ Settled(b).pending = b.pending
        /\ Settled(b).spot = 0 /\ Settled(b).dust = dust
    <3>1. PICK c : c = Settled(b)
        OBVIOUS
    <3>2. c = [b EXCEPT !.status = "FLAT", !.perp = 0, !.spot = 0, !.dust = dust]
        BY <2>3, <3>1
    <3>3. c \in Book
        BY <2>2, <3>2 DEF Book
    <3>4. c.perp = 0 /\ c.pending = b.pending /\ c.spot = 0 /\ c.dust = dust
        BY <3>2 DEF Book
    <3>. QED
        BY <3>1, <3>3, <3>4
  <2>5. b.perp = 0
      BY <1>1, <1>2 DEF Gone
  <2>. QED
      BY <1>1, <2>1, <2>4, <2>5
<1>3. CASE ~Gone(b)
    BY <1>3 DEF Settled
<1>. QED
    BY <1>2, <1>3

(* What a close says it has closed: what it has seen filled, or all, when  *)
(* there is nothing to close.                                              *)
ClosedSo(closed) ==
    closed = Moved \/ (closed = run.want /\ run.out.state = "nothing to reduce")

LEMMA ClosedIs ==
  ASSUME IInv, Work = "C", NEW closed, ClosedSo(closed)
  PROVE  /\ closed \in Nat /\ closed <= run.want
         /\ closed >= run.want /\ run.after # "unknown entry" =>
               short = 0 \/ (closed = run.want /\ short + closed <= Closing)
<1> USE DEF IInv
<1>1. run.want \in Nat /\ Moved \in Nat /\ short \in Nat /\ The(orders, "C").filled \in Nat
    BY Numbers
<1>2. Moved <= run.want
  <2>1. Moved + Most(The(orders, "C")) <= run.want
      BY DEF Moving
  <2>. QED
      BY <2>1, Numbers
<1>3. CASE closed = Moved
  <2>1. short + closed <= Closing
      BY <1>1, <1>3 DEF Closing
  <2>2. closed >= run.want => closed = run.want
      BY <1>1, <1>2, <1>3
  <2>. QED
      BY <1>1, <1>2, <1>3, <2>1, <2>2
<1>4. CASE closed = run.want /\ run.out.state = "nothing to reduce"
  <2>1. short = 0 \/ run.after = "unknown entry"
      BY <1>4 DEF Answers
  <2>2. run.want \in Nat /\ run.want <= run.want
      BY <1>1
  <2>3. closed \in Nat /\ closed <= run.want
      BY <1>4, <2>2
  <2>. QED
      BY <2>1, <2>3
<1>. QED
    BY <1>3, <1>4 DEF ClosedSo

LEMMA PerpLeftIs ==
  ASSUME ExecTypeOK, OrdersSane, NEW closed \in Nat
  PROVE  /\ Base \in Int /\ PerpLeft(act, book, closed) \in Nat
         /\ Base <= PerpLeft(act, book, closed) + closed
<1>1. Base \in Int
    BY Numbers DEF Base
<1>2. PerpLeft(act, book, closed) = MaxOf(0, Base - closed)
    BY DEF PerpLeft, Base
<1>. QED
    BY <1>1, <1>2

LEMMA ClosedKeeps ==
  ASSUME IInv, UNCHANGED <<short, wallet, strays, slack, orders, act>>, Work = "C",
         NEW closed, NEW ok \in BOOLEAN, ClosedSo(closed),
         ok => closed >= run.want, Closed(closed, ok)
  PROVE  IInv'
<1>1. /\ ExecTypeOK /\ OrdersSane /\ act \in Action /\ run \in Run /\ book \in Book
      /\ escalate \in BOOLEAN
    BY DEF IInv, ExecTypeOK
<1>2. /\ closed \in Nat /\ closed <= run.want
      /\ closed >= run.want /\ run.after # "unknown entry" =>
            short = 0 \/ (closed = run.want /\ short + closed <= Closing)
    BY ClosedIs
<1>3. /\ run.pc # "failed" /\ (run.after # "" <=> Entry) /\ run.after \in Afters
      /\ Has(orders, "P") => run.after = "unknown entry"
      /\ Has(orders, "S") => book.pending # {}
    BY <1>1, WorkIs, RunIs DEF IInv, Frame, Placed
<1>4. Held = book.spot + book.dust
  <2>1. Held = book.spot + book.dust + 0
      BY DEF Held
  <2>. QED
      BY <1>1, <2>1, Numbers
<1>5. End("done") \in Run
    BY <1>1, EndIs DEF PCs
<1>6. CASE run.after = "unknown entry"
  <2>1. PICK perp \in Nat : perp = IF ok THEN 0 ELSE run.want
      BY <1>1, RunIs
  <2>2. PICK b : b = [book EXCEPT !.perp = perp]
      OBVIOUS
  <2>3. b \in Book /\ b.spot = book.spot /\ b.dust = book.dust /\ b.pending = book.pending
      BY <1>1, <2>2 DEF Book
  <2>4. book' = Settled(b) /\ escalate' = TRUE /\ run' = End("done")
      BY <1>6, <2>1, <2>2 DEF Closed, Finish
  <2>5. book' \in Book /\ book'.pending = book.pending /\ book'.spot + book'.dust = Held
      BY <1>4, <2>3, <2>4, SettledIs
  <2>6. Goes
      BY <1>5, <2>4, <2>5 DEF Goes
  <2>. QED
      BY <1>3, <1>6, <2>4, <2>5, <2>6, EntryEnds
<1>7. CASE run.after = "excess"
  <2>1. /\ Closing <= run.entered /\ run.want <= run.entered /\ run.entered - run.want <= book.spot
        /\ book.status = "OPEN"
      BY <1>7, StraysStay DEF IInv, EntryShort, InBook
  <2>2. run.entered \in Nat /\ run.want \in Nat /\ short \in Nat /\ Closing \in Nat
      BY <1>1, Numbers DEF Closing
  <2>3. PICK perp : perp = run.entered - closed
      OBVIOUS
  <2>4. perp \in Nat
    <3>1. closed \in Nat /\ closed <= run.entered
      <4>1. closed \in Nat /\ closed <= run.want /\ run.want <= run.entered
          BY <1>2, <2>1
      <4>. QED
          BY <2>2, <4>1
    <3>. QED
        BY <2>2, <2>3, <3>1
  <2>5. PICK b : b = [book EXCEPT !.perp = perp]
      OBVIOUS
  <2>6. /\ b \in Book /\ b.spot = book.spot /\ b.dust = book.dust /\ b.pending = book.pending
        /\ b.perp = perp /\ b.status = "OPEN"
      BY <1>1, <2>1, <2>4, <2>5 DEF Book
  <2>7. book' = Settled(b) /\ escalate' = (escalate \/ ~ok) /\ run' = End("done")
      BY <1>7, <2>3, <2>5 DEF Closed, Finish
  <2>8. /\ book' \in Book /\ book'.pending = book.pending /\ book'.spot + book'.dust = Held
        /\ book'.perp = perp /\ (perp > 0 => book'.status = "OPEN")
      BY <1>4, <2>6, <2>7, SettledIs
  <2>9. Goes
      BY <1>1, <1>5, <2>7, <2>8 DEF Goes
  <2>10. ok => short <= perp /\ short <= book.spot + book.dust
    <3>1. SUFFICES ASSUME ok PROVE short <= perp /\ short <= book.spot + book.dust
        OBVIOUS
    <3>2. book.spot \in Nat /\ book.dust \in Nat
        BY <1>1, Numbers
    <3>3. CASE short = 0
        BY <2>4, <3>2, <3>3
    <3>4. CASE short # 0
      <4>1. closed = run.want /\ short + closed <= Closing
          BY <1>2, <1>7, <3>1, <3>4
      <4>. QED
          BY <2>1, <2>2, <2>3, <3>2, <4>1
    <3>. QED
        BY <3>3, <3>4
  <2>11. short > 0 /\ short <= perp => book'.status = "OPEN"
      BY <2>2, <2>4, <2>8
  <2>. QED
      BY <1>3, <1>4, <1>7, <2>7, <2>8, <2>9, <2>10, <2>11, EntryEnds
<1>8. CASE run.after = ""
  <2>1. /\ ~Entry /\ run.legs # <<>> /\ Head(run.legs) = "perp" /\ book.status = "OPEN"
        /\ Most(The(orders, "X")) <= book.spot
      BY <1>3, <1>8 DEF IInv, Frame, InBook, Moving
  <2>2. /\ "perp" \notin Range(Tail(run.legs)) /\ Range(Tail(run.legs)) \subseteq Range(run.legs)
    <3>1. run.legs \in Legs
        BY <1>1, RunIs
    <3>. QED
        BY <2>1, <3>1, LegsAre
  <2>3. Has(orders, "X") => book.pending # {} /\ "spot" \notin Range(Tail(run.legs))
      BY <2>2 DEF IInv, Placed
  <2>4. PICK perp : perp = PerpLeft(act, book, closed)
      OBVIOUS
  <2>5. Base \in Int /\ perp \in Nat /\ Base <= perp + closed
      BY <1>1, <1>2, <2>4, PerpLeftIs
  <2>6. book' = [book EXCEPT !.perp = perp] /\ escalate' = (escalate \/ ~ok) /\ run' = NextLeg(run)
      BY <1>8, <2>4 DEF Closed
  <2>7. /\ book' \in Book /\ book'.spot = book.spot /\ book'.dust = book.dust
        /\ book'.pending = book.pending /\ book'.perp = perp /\ book'.status = "OPEN"
      BY <1>1, <2>1, <2>5, <2>6 DEF Book
  <2>8. run' \in Run
      BY <1>1, <2>1, <2>6, NextLegIs
  <2>9. Goes
      BY <1>1, <2>6, <2>7, <2>8 DEF Goes
  <2>10. escalate' \/ (short <= perp /\ (act.kind = "EXIT" => short = 0))
    <3>1. SUFFICES ASSUME ~escalate, ok
                   PROVE  short <= perp /\ (act.kind = "EXIT" => short = 0)
        BY <2>6
    <3>2. short \in Nat /\ run.want \in Nat /\ Closing \in Nat
        BY <1>1, Numbers DEF Closing
    <3>3. CASE short = 0
        BY <2>5, <3>3
    <3>4. CASE short # 0
      <4>1. closed = run.want /\ short + closed <= Closing
          BY <1>2, <1>8, <3>1, <3>4
      <4>2. Closing <= Base /\ (act.kind = "EXIT" => Closing <= run.want)
          BY <2>1, <3>1 DEF IInv, LegShort
      <4>3. closed \in Nat
          BY <1>2
      <4>4. short + closed <= Base
          BY <2>5, <3>2, <4>1, <4>2, <4>3
      <4>5. short <= perp
          BY <2>5, <3>2, <4>3, <4>4
      <4>6. act.kind = "EXIT" => short <= 0
        <5>1. SUFFICES ASSUME Closing <= run.want PROVE short <= 0
            BY <4>2
        <5>. QED
            BY <3>2, <4>1, <4>3, <5>1
      <4>. QED
          BY <3>2, <4>5, <4>6
    <3>. QED
        BY <3>3, <3>4
  <2>11. book'.spot + book'.dust = Held /\ Most(The(orders, "X")) <= book'.spot
         /\ (Has(orders, "X") => book'.pending # {} /\ "spot" \notin Range(Tail(run.legs)))
         /\ (escalate => escalate')
      BY <1>4, <2>1, <2>3, <2>6, <2>7
  <2>. QED
      BY <1>3, <2>1, <2>2, <2>6, <2>7, <2>9, <2>10, <2>11, LegEnds
<1>. QED
    BY <1>3, <1>6, <1>7, <1>8 DEF Afters

LEMMA CloseKeeps == IInv /\ Close => IInv'
<1> SUFFICES ASSUME IInv, Close PROVE IInv'
    OBVIOUS
<1>1. UNCHANGED <<short, wallet, strays, slack, orders, act>> /\ run.pc = "close"
    BY DEF Close, traded, exchange
<1>2. /\ ExecTypeOK /\ OrdersSane /\ act \in Action /\ run \in Run /\ book \in Book
      /\ escalate \in BOOLEAN
    BY DEF IInv, ExecTypeOK
<1>3. ~Asking /\ Work = "C"
    BY <1>1 DEF Asking, Work
<1>4. Moved = run.got /\ run.got \in Nat /\ run.want \in Nat
    BY <1>2, <1>3, NoneLeft, Numbers
<1>5. CASE Closed(run.got, run.got >= run.want)
  <2>1. ClosedSo(run.got)
      BY <1>4 DEF ClosedSo
  <2>2. (run.got >= run.want) \in BOOLEAN
      OBVIOUS
  <2>. QED
      BY <1>1, <1>3, <1>5, <2>1, <2>2, ClosedKeeps
<1>6. CASE /\ run.got < run.want /\ run.link.n < MaxOrders
           /\ run' = Ask(run, "C", run.link.n, run.want - run.got)
           /\ UNCHANGED <<book, escalate>>
  <2>1. PICK qty : qty = run.want - run.got
      OBVIOUS
  <2>2. qty \in Nat /\ run.got + qty <= run.want
      BY <1>4, <1>6, <2>1
  <2>3. PICK n : n = run.link.n
      OBVIOUS
  <2>4. n \in 0..MaxOrders /\ n < MaxOrders
      BY <1>2, <1>6, <2>3, RunIs
  <2>5. PICK a : a = Ask(run, "C", n, qty)
      OBVIOUS
  <2>6. /\ a \in Run /\ a.pc = "send" /\ a.link = [tag |-> "C", n |-> n] /\ a.qty = qty
        /\ a.out = NoOutcome /\ a.legs = run.legs /\ a.want = run.want /\ a.got = run.got
        /\ a.entered = run.entered /\ a.own = run.own /\ a.after = run.after
    <3>1. run \in Run /\ "C" \in Tags /\ n \in 0..MaxOrders /\ qty \in Nat
        BY <1>2, <2>2, <2>4 DEF Tags
    <3>. QED
        BY <2>5, <3>1, AskIs
  <2>7. run' = a
      BY <1>6, <2>1, <2>3, <2>5
  <2>8. Goes
      BY <1>1, <1>2, <1>6, <2>6, <2>7 DEF Goes
  <2>. QED
      BY <1>3, <1>6, <2>2, <2>4, <2>6, <2>7, <2>8, AskKeeps DEF Tags
<1>. QED
    BY <1>5, <1>6 DEF Close

LEMMA CloseAnsweredKeeps == IInv /\ CloseAnswered => IInv'
<1> SUFFICES ASSUME IInv, CloseAnswered PROVE IInv'
    OBVIOUS
<1>1. /\ UNCHANGED <<short, wallet, strays, slack, orders, act>>
      /\ run.pc = "answer" /\ run.link.tag = "C"
    BY DEF CloseAnswered, traded, exchange
<1>2. /\ ExecTypeOK /\ OrdersSane /\ act \in Action /\ run \in Run /\ book \in Book
      /\ escalate \in BOOLEAN
    BY DEF IInv, ExecTypeOK
<1>3. Asking /\ Work = "C"
    BY <1>1, <1>2, WorkIs DEF Asking
<1>4. run.link.n < MaxOrders
    BY <1>3 DEF IInv, Frame
<1>5. /\ run.got \in Nat /\ run.want \in Nat /\ run.out.filled \in Nat /\ run.out.fee = 0
      /\ run.out.state # "done" => run.out.filled = 0
    BY <1>1, <1>2, <1>3, RunIs DEF IInv, Answers
<1>6. CASE run.out.state = "unknown" /\ Closed(run.got, FALSE)
  <2>1. run.got = Moved
      BY <1>5, <1>6, PlusZero DEF Moved
  <2>2. ClosedSo(run.got)
      BY <2>1 DEF ClosedSo
  <2>. QED
      BY <1>1, <1>3, <1>6, <2>2, ClosedKeeps
<1>7. CASE run.out.state = "nothing to reduce" /\ Closed(run.want, TRUE)
  <2>1. ClosedSo(run.want)
      BY <1>7 DEF ClosedSo
  <2>2. run.want >= run.want
      BY <1>5
  <2>. QED
      BY <1>1, <1>3, <1>7, <2>1, <2>2, ClosedKeeps
<1>8. CASE /\ run.out.state \in {"rejected", "done"}
           /\ run' = Again("close", run.got + run.out.filled)
           /\ UNCHANGED <<book, escalate>>
  <2>1. run.got + run.out.filled \in Nat
      BY <1>5
  <2>2. run.got + (run.out.filled - run.out.fee) = run.got + run.out.filled
      BY <1>5
  <2>3. run' \in Run
      BY <1>2, <1>4, <1>8, <2>1, AgainIs DEF PCs
  <2>4. Goes
      BY <1>1, <1>2, <1>8, <2>3 DEF Goes
  <2>. QED
      BY <1>1, <1>4, <1>8, <2>2, <2>4, AgainKeeps
<1>. QED
    BY <1>6, <1>7, <1>8 DEF CloseAnswered

-----------------------------------------------------------------------------
(* A reduction.                                                            *)

(* Between the legs, and what the next one is.                             *)
LEMMA AtLeg ==
  ASSUME IInv, run.pc = "leg"
  PROVE  /\ Work = "leg" /\ ~Asking /\ ~Entry /\ book.status = "OPEN"
         /\ ~Has(orders, "P") /\ ~Has(orders, "S")
         /\ Has(orders, "C") => "perp" \notin Range(run.legs)
         /\ Has(orders, "X") => book.pending # {} /\ "spot" \notin Range(run.legs)
         /\ Held = book.spot + book.dust /\ Most(The(orders, "X")) <= book.spot
         /\ escalate \/ short <= book.perp
         /\ act.pos # Unread => short <= act.pos
         /\ act.kind = "EXIT" /\ "perp" \in Range(act.legs) /\ "perp" \notin Range(run.legs) =>
               escalate \/ short = 0
         /\ run.legs # <<>> =>
               /\ Range(run.legs) = {Head(run.legs)} \cup Range(Tail(run.legs))
               /\ Head(run.legs) \notin Range(Tail(run.legs))
<1> USE DEF IInv
<1>1. Work = "leg" /\ ~Asking
    BY DEF Work, Asking
<1>2. ~Entry /\ book.status = "OPEN"
    BY <1>1 DEF Frame, InBook
<1>3. /\ ~Has(orders, "P") /\ ~Has(orders, "S")
      /\ Has(orders, "C") => "perp" \notin Range(run.legs)
      /\ Has(orders, "X") => book.pending # {} /\ "spot" \notin Range(run.legs)
    BY <1>1, <1>2 DEF Placed
<1>4. Held = book.spot + book.dust
  <2>1. Held = book.spot + book.dust + 0
      BY <1>1 DEF Held
  <2>. QED
      BY <2>1, Numbers
<1>5. Most(The(orders, "X")) <= book.spot
    BY <1>1 DEF Moving
<1>6. /\ escalate \/ short <= book.perp
      /\ act.pos # Unread => short <= act.pos
      /\ act.kind = "EXIT" /\ "perp" \in Range(act.legs) /\ "perp" \notin Range(run.legs) =>
            escalate \/ short = 0
    BY <1>1, <1>2 DEF LegShort
<1>7. run.legs # <<>> => /\ Range(run.legs) = {Head(run.legs)} \cup Range(Tail(run.legs))
                         /\ Head(run.legs) \notin Range(Tail(run.legs))
  <2>1. run.legs \in Legs
      BY RunIs DEF ExecTypeOK
  <2>. QED
      BY <2>1, LegsAre
<1>. QED
    BY <1>1, <1>2, <1>3, <1>4, <1>5, <1>6, <1>7

(* A leg with nothing to do is passed over.                                *)
LEMMA LegSkipped ==
  ASSUME IInv, run.pc = "leg", run.legs # <<>>, run' = NextLeg(run),
         UNCHANGED <<short, wallet, strays, slack, orders, act, book, escalate>>,
         act.kind = "EXIT" /\ Head(run.legs) = "perp" => escalate \/ short = 0
  PROVE  IInv'
<1>1. ExecTypeOK /\ act \in Action /\ run \in Run /\ book \in Book /\ escalate \in BOOLEAN
    BY DEF IInv, ExecTypeOK
<1>2. /\ ~Entry /\ book.status = "OPEN"
      /\ Has(orders, "C") => "perp" \notin Range(run.legs)
      /\ Has(orders, "X") => book.pending # {} /\ "spot" \notin Range(run.legs)
      /\ Held = book.spot + book.dust /\ Most(The(orders, "X")) <= book.spot
      /\ escalate \/ short <= book.perp
      /\ act.kind = "EXIT" /\ "perp" \in Range(act.legs) /\ "perp" \notin Range(run.legs) =>
            escalate \/ short = 0
      /\ Range(run.legs) = {Head(run.legs)} \cup Range(Tail(run.legs))
    BY AtLeg
<1>3. run' \in Run
    BY <1>1, NextLegIs
<1>4. Goes
    BY <1>1, <1>3 DEF Goes
<1>5. act.kind = "EXIT" /\ "perp" \in Range(act.legs) /\ "perp" \notin Range(Tail(run.legs)) =>
          escalate \/ short = 0
    BY <1>2
<1>. QED
    BY <1>2, <1>4, <1>5, LegEnds

LEMMA PerpLegKeeps == IInv /\ PerpLeg => IInv'
<1> SUFFICES ASSUME IInv, PerpLeg PROVE IInv'
    OBVIOUS
<1>1. /\ UNCHANGED <<short, wallet, strays, slack, orders, act, book, escalate>>
      /\ run.pc = "leg" /\ run.legs # <<>> /\ Head(run.legs) = "perp"
    BY DEF PerpLeg, traded, exchange
<1>2. /\ ExecTypeOK /\ OrdersSane /\ act \in Action /\ run \in Run /\ book \in Book
      /\ escalate \in BOOLEAN
    BY DEF IInv, ExecTypeOK
<1>3. /\ ~Entry /\ ~Has(orders, "P") /\ ~Has(orders, "S")
      /\ Has(orders, "C") => "perp" \notin Range(run.legs)
      /\ Has(orders, "X") => book.pending # {} /\ "spot" \notin Range(run.legs)
      /\ Held = book.spot + book.dust /\ Most(The(orders, "X")) <= book.spot
      /\ escalate \/ short <= book.perp
      /\ act.pos # Unread => short <= act.pos
      /\ Range(run.legs) = {Head(run.legs)} \cup Range(Tail(run.legs))
    BY <1>1, AtLeg
<1>4. act.kind = "EXIT" => act.perp = Unread
    BY DEF IInv, Frame
<1>5. /\ short \in Nat /\ book.perp \in Nat /\ act.perp \in Nat \cup {-1}
      /\ act.pos \in Nat \cup {-1}
    BY <1>2, Numbers
<1>6. PICK qty : qty = PerpToClose(act, book)
    OBVIOUS
<1>7. qty \in Nat \cup {-1}
    BY <1>5, <1>6 DEF PerpToClose
<1>8. escalate \/ (short <= Base /\ (act.kind = "EXIT" => short <= qty))
  <2>1. SUFFICES ASSUME ~escalate PROVE short <= Base /\ (act.kind = "EXIT" => short <= qty)
      BY <1>2
  <2>2. short <= book.perp
      BY <1>3, <2>1
  <2>3. short <= Base
      BY <1>3, <2>2 DEF Base
  <2>4. act.kind = "EXIT" => short <= qty
      BY <1>3, <1>4, <1>6, <2>2 DEF PerpToClose
  <2>. QED
      BY <2>3, <2>4
<1>9. CASE qty <= 0
  <2>1. run' = NextLeg(run)
      BY <1>6, <1>9 DEF PerpLeg
  <2>2. act.kind = "EXIT" => escalate \/ short = 0
      BY <1>5, <1>7, <1>8, <1>9
  <2>. QED
      BY <1>1, <2>1, <2>2, LegSkipped
<1>10. CASE ~(qty <= 0)
  <2>1. run' = StartClose(run, qty, "") /\ qty \in Nat /\ "" \in Afters
    <3>1. run' = StartClose(run, qty, "")
        BY <1>6, <1>10 DEF PerpLeg
    <3>2. qty \in Nat /\ "" \in Afters
        BY <1>7, <1>10 DEF Afters
    <3>. QED
        BY <3>1, <3>2
  <2>2. run' \in Run
      BY <1>2, <2>1, StartCloseIs
  <2>3. Goes
      BY <1>1, <1>2, <2>2 DEF Goes
  <2>4. ~Has(orders, "C")
      BY <1>1, <1>3
  <2>5. Begins(qty, "")
    <3>1. "" # "" <=> Entry
        BY <1>3
    <3>2. book'.spot + book'.dust = Held /\ Most(The(orders, "X")) <= book'.spot
        BY <1>1, <1>3
    <3>3. /\ run.pc \notin {"failed", "done"} /\ (escalate => escalate') /\ book' = book
          /\ escalate' \/ (short <= Base /\ (act.kind = "EXIT" => short <= qty))
        BY <1>1, <1>8
    <3>. QED
        BY <1>1, <1>3, <2>1, <2>3, <2>4, <3>1, <3>2, <3>3 DEF Begins
  <2>. QED
      BY <2>1, <2>5, CloseBegins
<1>. QED
    BY <1>9, <1>10

(* A sale begins.                                                          *)
GoesToSell(want) ==
    run' = [run EXCEPT !.pc = "sell", !.link = [tag |-> "X", n |-> 0],
                       !.late = FALSE, !.want = want, !.got = 0]

LEMMA SellBegins ==
  ASSUME IInv, run.pc = "leg", run.legs # <<>>, Head(run.legs) = "spot",
         UNCHANGED <<short, wallet, strays, slack, orders, act, book, escalate>>,
         NEW want \in Nat, want <= book.spot, GoesToSell(want)
  PROVE  IInv'
<1> USE DEF IInv
<1>1. run \in Run /\ book \in Book /\ escalate \in BOOLEAN
    BY DEF ExecTypeOK
<1>2. /\ Work = "leg" /\ ~Asking /\ ~Entry
      /\ ~Has(orders, "P") /\ ~Has(orders, "S")
      /\ Has(orders, "C") => "perp" \notin Range(run.legs)
      /\ Has(orders, "X") => "spot" \notin Range(run.legs)
      /\ Held = book.spot + book.dust
      /\ Range(run.legs) = {Head(run.legs)} \cup Range(Tail(run.legs))
    BY AtLeg
<1>3. ~Has(orders, "X") /\ The(orders, "X") = NoOrder
    BY <1>2, TheNone
<1>4. /\ run' \in Run /\ run'.pc = "sell" /\ run'.legs = run.legs /\ run'.want = want
      /\ run'.got = 0 /\ run'.out = run.out /\ run'.after = run.after
  <2>1. PICK link : link = [tag |-> "X", n |-> 0]
      OBVIOUS
  <2>2. link \in Link
      BY <2>1 DEF Link, Tags
  <2>3. run' = [run EXCEPT !.pc = "sell", !.link = link, !.late = FALSE, !.want = want, !.got = 0]
      BY <2>1 DEF GoesToSell
  <2>. QED
      BY <1>1, <2>2, <2>3 DEF Run
<1>5. Goes
    BY <1>1, <1>4 DEF Goes
<1>6. ExecTypeOK' /\ OrdersSane' /\ Entry' = Entry
    BY <1>5, GoesTypes
<1>7. Work' = "X" /\ ~Asking' /\ run.out = NoOutcome /\ run'.out = NoOutcome
    BY <1>4 DEF Work, Asking, Answers
<1>8. Moved' = 0
  <2>1. Moved' = 0 + 0
      BY <1>4, <1>7, NoOutcomeIs DEF Moved
  <2>. QED
      BY <2>1
<1>9. Placed'
    BY <1>2, <1>3, <1>4, <1>6, <1>7 DEF Placed
<1>10. Frame'
    BY <1>2, <1>4, <1>6, <1>7 DEF Frame
<1>11. Answers'
    BY <1>4, <1>7, NoAnswer
<1>12. InBook'
    BY <1>2, <1>4, <1>6, <1>7 DEF InBook
<1>13. Moving'
  <2>1. Most(The(orders, "X")) = 0 /\ 0 + 0 <= want
      BY <1>3, NoOrderIs
  <2>. QED
      BY <1>4, <1>7, <1>8, <2>1 DEF Moving
<1>14. Held' = Held /\ Bought' = Bought
  <2>1. Held' = book.spot + book.dust + (- 0)
      BY <1>7, <1>8 DEF Held
  <2>2. book.spot \in Nat /\ book.dust \in Nat
      BY <1>1 DEF Book
  <2>3. book.spot + book.dust + (- 0) = book.spot + book.dust
      BY <2>2
  <2>4. Held' = Held
      BY <1>2, <2>1, <2>3
  <2>. QED
      BY <2>4, StraysStay DEF Bought, Ours
<1>15. Counted'
    BY <1>4, <1>14 DEF Counted
<1>16. InPlan' /\ EntryShort'
    BY <1>2, <1>6, <1>7, StraysStay DEF InPlan, EntryShort
<1>17. LegShort'
    BY <1>2, <1>4, <1>6, <1>7 DEF LegShort
<1>18. Ended'
    BY <1>4, StraysStay DEF Ended
<1>. QED
    BY <1>6, <1>9, <1>10, <1>11, <1>12, <1>13, <1>15, <1>16, <1>17, <1>18

LEMMA SpotLegKeeps == IInv /\ SpotLeg => IInv'
<1> SUFFICES ASSUME IInv, SpotLeg PROVE IInv'
    OBVIOUS
<1>1. /\ UNCHANGED <<short, wallet, strays, slack, orders, act, book, escalate>>
      /\ run.pc = "leg" /\ run.legs # <<>> /\ Head(run.legs) = "spot"
    BY DEF SpotLeg, traded, exchange
<1>2. PICK want : want = MinOf(act.spot, book.spot)
    OBVIOUS
<1>3. want \in Nat /\ want <= book.spot
  <2>1. act.spot \in Nat /\ book.spot \in Nat
      BY Numbers DEF IInv
  <2>. QED
      BY <1>2, <2>1
<1>4. CASE run' = NextLeg(run)
    BY <1>1, <1>4, LegSkipped
<1>5. CASE GoesToSell(want)
    BY <1>1, <1>3, <1>5, SellBegins
<1>. QED
    BY <1>2, <1>4, <1>5 DEF SpotLeg, GoesToSell

LEMMA ExitedIs ==
  ASSUME book \in Book
  PROVE  LET b == Exited(act, book)
         IN /\ b \in Book /\ b.pending = book.pending
            /\ b.spot + b.dust = book.spot + book.dust
            /\ b.perp > 0 => b.status = book.status
            /\ b.perp = book.perp \/ (b.perp = 0 /\ act.pos = 0)
            /\ b.spot = book.spot \/ book.pending = {}
<1>1. PICK b : b = (IF "perp" \notin Range(act.legs) /\ act.pos = 0
                    THEN [book EXCEPT !.perp = 0] ELSE book)
    OBVIOUS
<1>2. /\ b \in Book /\ b.spot = book.spot /\ b.dust = book.dust /\ b.pending = book.pending
      /\ b.status = book.status /\ (b.perp = book.perp \/ (b.perp = 0 /\ act.pos = 0))
    BY <1>1 DEF Book
<1>3. Exited(act, book) = Settled(b)
    BY <1>1 DEF Exited
<1>4. Settled(b).spot = b.spot \/ b.pending = {}
    BY DEF Settled, Gone
<1>5. PICK c : c = Settled(b)
    OBVIOUS
<1>6. /\ c \in Book /\ c.perp = b.perp /\ c.pending = b.pending
      /\ c.spot + c.dust = b.spot + b.dust /\ (b.perp > 0 => c.status = b.status)
    BY <1>2, <1>5, SettledIs
<1>. QED
    BY <1>2, <1>3, <1>4, <1>5, <1>6

LEMMA LegsDoneKeeps == IInv /\ LegsDone => IInv'
<1> SUFFICES ASSUME IInv, LegsDone PROVE IInv'
    OBVIOUS
<1> USE DEF IInv
<1>1. /\ UNCHANGED <<short, wallet, strays, slack, orders, act, escalate>>
      /\ run.pc = "leg" /\ run.legs = <<>> /\ run' = End("done")
    BY DEF LegsDone, traded, exchange, Finish
<1>2. act \in Action /\ book \in Book /\ escalate \in BOOLEAN
    BY DEF ExecTypeOK
<1>3. /\ ~Entry /\ book.status = "OPEN" /\ ~Has(orders, "P") /\ ~Has(orders, "S")
      /\ Has(orders, "X") => book.pending # {}
      /\ Held = book.spot + book.dust /\ Most(The(orders, "X")) <= book.spot
      /\ escalate \/ short <= book.perp
      /\ act.pos # Unread => short <= act.pos
      /\ act.kind = "EXIT" /\ "perp" \in Range(act.legs) /\ "perp" \notin Range(run.legs) =>
            escalate \/ short = 0
    BY <1>1, AtLeg
<1>4. Range(run.legs) = {}
    BY <1>1, LegsAre DEF Legs
<1>5. short \in Nat /\ book.spot \in Nat /\ book.dust \in Nat /\ Foreign \in Nat
    BY Numbers
<1>6. /\ book' \in Book /\ book'.pending = book.pending /\ book'.spot + book'.dust = Held
      /\ book'.perp > 0 => book'.status = "OPEN"
      /\ book'.perp = book.perp \/ (book'.perp = 0 /\ act.pos = 0)
      /\ book'.spot = book.spot \/ book.pending = {}
  <2>1. CASE act.kind = "EXIT"
    <3>1. PICK b : b = Exited(act, book)
        OBVIOUS
    <3>2. book' = b
        BY <2>1, <3>1 DEF LegsDone
    <3>. QED
        BY <1>2, <1>3, <3>1, <3>2, ExitedIs
  <2>2. CASE act.kind # "EXIT"
      BY <1>2, <1>3, <2>2 DEF LegsDone
  <2>. QED
      BY <2>1, <2>2
<1>7. /\ run' \in Run /\ run'.pc = "done" /\ run'.legs = <<>> /\ run'.out = NoOutcome
      /\ run'.after = "" /\ run'.out.filled = 0 /\ run'.out.fee = 0 /\ run'.out.state = "none"
    BY <1>1, <1>2, EndIs, NoOutcomeIs DEF PCs
<1>8. Goes
    BY <1>1, <1>2, <1>6, <1>7 DEF Goes
<1>9. ExecTypeOK' /\ OrdersSane' /\ Entry' = Entry
    BY <1>8, GoesTypes
<1>10. Work' = "done" /\ ~Asking'
    BY <1>7 DEF Work, Asking
<1>11. Placed'
    BY <1>1, <1>3, <1>4, <1>6, <1>7, <1>9, <1>10 DEF Placed
<1>12. Frame'
    BY <1>1, <1>3, <1>4, <1>7, <1>9, <1>10 DEF Frame
<1>13. Answers'
    BY <1>7, NoAnswer
<1>14. InBook'
    BY <1>3, <1>9, <1>10 DEF InBook
<1>15. Moving'
  <2>1. Most(The(orders, "X")) <= book'.spot
    <3>1. CASE Has(orders, "X")
        BY <1>3, <1>6, <3>1
    <3>2. CASE ~Has(orders, "X")
      <4>1. Most(The(orders, "X")) = 0 /\ book'.spot \in Nat
          BY <1>6, <3>2, TheNone, NoOrderIs DEF Book
      <4>. QED
          BY <4>1
    <3>. QED
        BY <3>1, <3>2
  <2>. QED
      BY <1>1, <1>10, <2>1 DEF Moving
<1>16. Held' = Held /\ Bought' = Bought
  <2>1. Held' = book'.spot + book'.dust + 0
      BY <1>10 DEF Held
  <2>2. book'.spot \in Nat /\ book'.dust \in Nat
      BY <1>6 DEF Book
  <2>. QED
      BY <1>1, <1>6, <2>1, <2>2, StraysStay DEF Bought, Ours
<1>17. Counted'
    BY <1>1, <1>7, <1>16 DEF Counted
<1>18. InPlan' /\ EntryShort'
    BY <1>3, <1>9, <1>10, StraysStay DEF InPlan, EntryShort
<1>19. escalate \/ short <= book'.perp
    BY <1>3, <1>5, <1>6
<1>20. LegShort'
    BY <1>1, <1>3, <1>4, <1>7, <1>9, <1>10, <1>19 DEF LegShort
<1>21. Ended'
  <2>1. book'.perp \in Nat
      BY <1>6 DEF Book
  <2>2. short > 0 /\ short <= book'.perp => book'.status = "OPEN"
      BY <1>5, <1>6, <2>1
  <2>. QED
      BY <1>1, <1>3, <1>9, <1>19, <2>2, StraysStay DEF Ended
<1>. QED
    BY <1>9, <1>11, <1>12, <1>13, <1>14, <1>15, <1>17, <1>18, <1>20, <1>21

(* A sale is over: what it sold leaves the book, and what it may still     *)
(* sell is pending.                                                        *)
LEMMA SoldKeeps ==
  ASSUME IInv, UNCHANGED <<short, wallet, strays, slack, orders, act>>, Work = "X",
         NEW sold, sold = Moved, NEW pending \in SUBSET Link,
         Has(orders, "X") => pending # {}, Sold(sold, pending),
         escalate' \in BOOLEAN, escalate => escalate'
  PROVE  IInv'
<1> USE DEF IInv
<1>1. /\ ExecTypeOK /\ act \in Action /\ run \in Run /\ book \in Book /\ escalate \in BOOLEAN
    BY DEF ExecTypeOK
<1>2. /\ ~Entry /\ run.legs # <<>> /\ Head(run.legs) = "spot" /\ book.status = "OPEN"
      /\ run.pc # "failed"
      /\ escalate \/ short <= book.perp
      /\ act.kind = "EXIT" /\ "perp" \in Range(act.legs) /\ "perp" \notin Range(run.legs) =>
            escalate \/ short = 0
      /\ Has(orders, "C") => "perp" \notin Range(run.legs)
    BY <1>1, WorkIs DEF Frame, InBook, LegShort, Placed
<1>3. /\ Range(run.legs) = {"spot"} \cup Range(Tail(run.legs))
      /\ "spot" \notin Range(Tail(run.legs))
  <2>1. run.legs \in Legs
      BY <1>1, RunIs
  <2>. QED
      BY <1>2, <2>1, LegsAre
<1>4. /\ Moved \in Nat /\ book.spot \in Nat /\ book.dust \in Nat
      /\ Most(The(orders, "X")) \in Nat /\ Moved + Most(The(orders, "X")) <= book.spot
  <2>1. Moved + Most(The(orders, "X")) <= run.want /\ run.want <= book.spot
      BY DEF Moving, InBook
  <2>. QED
      BY <2>1, Numbers
<1>5. PICK spot : spot = MaxOf(0, book.spot - sold)
    OBVIOUS
<1>6. spot \in Nat /\ spot = book.spot - Moved /\ Most(The(orders, "X")) <= spot
    BY <1>4, <1>5
<1>7. book' = [book EXCEPT !.spot = spot, !.pending = @ \cup pending] /\ run' = NextLeg(run)
    BY <1>5 DEF Sold
<1>8. /\ book' \in Book /\ book'.status = "OPEN" /\ book'.perp = book.perp
      /\ book'.spot = spot /\ book'.dust = book.dust
      /\ book'.pending = book.pending \cup pending
    BY <1>1, <1>2, <1>6, <1>7 DEF Book
<1>9. run' \in Run
    BY <1>1, <1>2, <1>7, NextLegIs
<1>10. Goes
    BY <1>8, <1>9 DEF Goes
<1>11. book'.spot + book'.dust = Held
  <2>1. Held = book.spot + book.dust + (- Moved)
      BY DEF Held
  <2>. QED
      BY <1>4, <1>6, <1>8, <2>1
<1>12. /\ Has(orders, "C") => "perp" \notin Range(Tail(run.legs))
       /\ Has(orders, "X") => book'.pending # {} /\ "spot" \notin Range(Tail(run.legs))
       /\ Most(The(orders, "X")) <= book'.spot
    BY <1>2, <1>3, <1>6, <1>8
<1>13. /\ escalate' \/ short <= book'.perp
       /\ act.kind = "EXIT" /\ "perp" \in Range(act.legs) /\ "perp" \notin Range(Tail(run.legs)) =>
             escalate' \/ short = 0
    BY <1>2, <1>3, <1>8
<1>. QED
    BY <1>2, <1>7, <1>8, <1>10, <1>11, <1>12, <1>13, LegEnds

LEMMA SellAsks ==
  ASSUME IInv, run.pc = "sell", UNCHANGED <<short, wallet, strays, slack, orders, act, book, escalate>>,
         NEW n \in 0..MaxOrders, NEW left \in Nat, run.got + left <= run.want,
         run' \in Run, run'.pc = "send", run'.link = [tag |-> "X", n |-> n], run'.qty = left,
         run'.out = NoOutcome, run'.legs = run.legs, run'.want = run.want, run'.got = run.got,
         run'.entered = run.entered, run'.own = run.own, run'.after = run.after
  PROVE  IInv'
<1>1. ~Asking /\ Work = "X"
    BY DEF Asking, Work
<1>2. Goes
    BY DEF Goes, IInv, ExecTypeOK
<1>. QED
    BY <1>1, <1>2, AskKeeps DEF Tags

LEMMA SellKeeps == IInv /\ Sell => IInv'
<1> SUFFICES ASSUME IInv, Sell PROVE IInv'
    OBVIOUS
<1>1. UNCHANGED <<short, wallet, strays, slack, orders, act, escalate>> /\ run.pc = "sell"
    BY DEF Sell, traded, exchange
<1>2. ExecTypeOK /\ OrdersSane /\ run \in Run /\ escalate \in BOOLEAN
    BY DEF IInv, ExecTypeOK
<1>3. ~Asking /\ Work = "X"
    BY <1>1 DEF Asking, Work
<1>4. ~Has(orders, "X") /\ Moved = run.got /\ run.got \in Nat /\ run.want \in Nat
    BY <1>2, <1>3, NoneLeft, Numbers
<1>5. PICK left : left = run.want - run.got
    OBVIOUS
<1>6. left \in Int /\ run.got + left <= run.want
    BY <1>4, <1>5
<1>7. CASE Sold(run.got, {})
    BY <1>1, <1>2, <1>3, <1>4, <1>7, SoldKeeps
<1>8. ASSUME NEW n \in 0..MaxOrders, left >= SpotMin, UNCHANGED book,
             run' = Ask(run, "X", n, left) \/ run' = [Ask(run, "X", n, left) EXCEPT !.late = FALSE]
      PROVE  IInv'
  <2>1. left \in Nat
      BY <1>6, <1>8
  <2>2. PICK a : a = Ask(run, "X", n, left)
      OBVIOUS
  <2>3. /\ a \in Run /\ a.pc = "send" /\ a.link = [tag |-> "X", n |-> n] /\ a.qty = left
        /\ a.out = NoOutcome /\ a.legs = run.legs /\ a.want = run.want /\ a.got = run.got
        /\ a.entered = run.entered /\ a.own = run.own /\ a.after = run.after
    <3>1. "X" \in Tags
        BY DEF Tags
    <3>. QED
        BY <1>2, <2>1, <2>2, <3>1, AskIs
  <2>4. PICK c : c = [a EXCEPT !.late = FALSE]
      OBVIOUS
  <2>5. /\ c \in Run /\ c.pc = a.pc /\ c.link = a.link /\ c.qty = a.qty
        /\ c.out = a.out /\ c.legs = a.legs /\ c.want = a.want /\ c.got = a.got
        /\ c.entered = a.entered /\ c.own = a.own /\ c.after = a.after
      BY <2>3, <2>4 DEF Run
  <2>6. run' = a \/ run' = c
      BY <1>8, <2>2, <2>4
  <2>7. /\ run' \in Run /\ run'.pc = "send" /\ run'.link = [tag |-> "X", n |-> n] /\ run'.qty = left
        /\ run'.out = NoOutcome /\ run'.legs = run.legs /\ run'.want = run.want
        /\ run'.got = run.got /\ run'.entered = run.entered /\ run'.own = run.own
        /\ run'.after = run.after
      BY <2>3, <2>5, <2>6
  <2>. QED
      BY <1>1, <1>6, <1>8, <2>1, <2>7, SellAsks
<1>9. CASE /\ left >= SpotMin /\ run.link.n < MaxOrders
           /\ run' = Ask(run, "X", run.link.n, left) /\ UNCHANGED book
  <2>1. run.link.n \in 0..MaxOrders
      BY <1>2, RunIs
  <2>. QED
      BY <1>8, <1>9, <2>1
<1>10. CASE /\ left >= SpotMin
            /\ run' = [Ask(run, "X", MaxOrders, left) EXCEPT !.late = FALSE] /\ UNCHANGED book
    BY <1>8, <1>10
<1>. QED
    BY <1>5, <1>7, <1>9, <1>10 DEF Sell

LEMMA SellAnsweredKeeps == IInv /\ SellAnswered => IInv'
<1> SUFFICES ASSUME IInv, SellAnswered PROVE IInv'
    OBVIOUS
<1>1. /\ UNCHANGED <<short, wallet, strays, slack, orders, act>>
      /\ run.pc = "answer" /\ run.link.tag = "X"
    BY DEF SellAnswered, traded, exchange
<1>2. /\ ExecTypeOK /\ OrdersSane /\ act \in Action /\ run \in Run /\ book \in Book
      /\ escalate \in BOOLEAN /\ run.link \in Link
    BY RunIs DEF IInv, ExecTypeOK
<1>3. Asking /\ Work = "X"
    BY <1>1, <1>2, WorkIs DEF Asking
<1>4. Has(orders, "X") => run.out.state = "unknown"
    BY <1>1, <1>3 DEF IInv, Placed
<1>5. /\ run.got \in Nat /\ run.out.filled \in Nat /\ run.out.fee = 0
      /\ run.out.state # "done" => run.out.filled = 0
    BY <1>1, <1>2, <1>3, RunIs DEF IInv, Answers
<1>6. Moved = run.got + run.out.filled /\ (run.out.state # "done" => Moved = run.got)
    BY <1>5 DEF Moved
<1>7. CASE run.out.state = "unknown" /\ Sold(run.got, {run.link}) /\ UNCHANGED escalate
    BY <1>1, <1>2, <1>3, <1>6, <1>7, SoldKeeps
<1>8. CASE /\ run.out.state # "unknown" /\ Sold(run.got + run.out.filled, {})
           /\ UNCHANGED escalate
    BY <1>1, <1>2, <1>3, <1>4, <1>6, <1>8, SoldKeeps
<1>9. CASE run.out.state = "rejected" /\ Sold(run.got, {}) /\ escalate' = TRUE
    BY <1>1, <1>2, <1>3, <1>4, <1>6, <1>9, SoldKeeps
<1>10. CASE /\ run.out.state = "done" /\ run.link.n < MaxOrders
            /\ run' = Again("sell", run.got + run.out.filled)
            /\ UNCHANGED <<book, escalate>>
  <2>1. run.got + run.out.filled \in Nat
      BY <1>5
  <2>2. run.got + (run.out.filled - run.out.fee) = run.got + run.out.filled
      BY <1>5
  <2>3. run' \in Run
      BY <1>2, <1>10, <2>1, AgainIs DEF PCs
  <2>4. Goes
      BY <1>1, <1>2, <1>10, <2>3 DEF Goes
  <2>. QED
      BY <1>1, <1>10, <2>2, <2>4, AgainKeeps
<1>. QED
    BY <1>7, <1>8, <1>9, <1>10 DEF SellAnswered

-----------------------------------------------------------------------------
(* What a run starts from.                                                 *)

Kinds == {"ENTER", "EXIT", "TRIM", "REBALANCE"}

LEMMA PlannedIs ==
  ASSUME NEW kind \in Kinds, NEW legs \in Legs, NEW perp \in Nat \cup {-1}, NEW spot \in Nat,
         NEW pos \in Nat \cup {-1}
  PROVE  LET a == Planned(kind, legs, perp, spot, pos)
         IN /\ a \in Action /\ a.kind = kind /\ a.legs = legs /\ a.perp = perp /\ a.pos = pos
BY DEF Planned, Action, Kinds, Legs

LEMMA PlanIs ==
  ASSUME PlanReduction
  PROVE  /\ short \in Nat /\ short <= Quantity
         /\ book \in Book /\ book.status = "OPEN" /\ book.perp = Quantity
         /\ wallet \in Nat /\ wallet = Foreign + (book.spot + book.dust)
         /\ act \in Action /\ act.kind # "ENTER" /\ act.legs # <<>>
         /\ act.kind = "EXIT" => act.perp = Unread
         /\ act.pos # Unread => act.pos = short
         /\ act.kind = "EXIT" /\ "perp" \notin Range(act.legs) => act.legs = <<"spot">>
         /\ run = Begin("leg")
<1>1. PICK dust \in 0..SpotMin - 1, spot \in 0..Quantity + 1, left \in 0..Quantity \div PerpStep :
          /\ spot < SpotMin \/ spot >= Quantity - 1
          /\ book = [status |-> "OPEN", perp |-> Quantity, spot |-> spot, dust |-> dust,
                     pending |-> {}]
          /\ wallet = Foreign + spot + dust
          /\ short = left * PerpStep
          /\ \/ \E legs \in {<<"spot", "perp">>, <<"perp", "spot">>}, s \in {0, spot},
                   pos \in {short, Unread} : act = Planned("EXIT", legs, Unread, s, pos)
             \/ /\ short = 0 /\ spot > SpotMin
                /\ act = Planned("EXIT", <<"spot">>, Unread, spot, 0)
             \/ /\ short > 0 /\ spot < SpotMin
                /\ act = Planned("EXIT", <<"perp">>, Unread, 0, short)
             \/ /\ short > 0 /\ spot > short
                /\ act = Planned("REBALANCE", <<"spot">>, Unread, spot - short, short)
             \/ /\ short > spot /\ spot >= SpotMin
                /\ act = Planned("REBALANCE", <<"perp">>, FloorTo(short - spot, PerpStep), 0, short)
             \/ LET trim == FloorTo(short \div 2, PerpStep)
                IN /\ trim > 0 /\ spot >= SpotMin
                   /\ act = Planned("TRIM", <<"spot", "perp">>, trim, MinOf(trim, spot), short)
    BY DEF PlanReduction
<1>2. dust \in Nat /\ spot \in Nat /\ Quantity \in Nat
    OBVIOUS
<1>3. short \in Nat /\ short <= Quantity
  <2>1. Quantity \div PerpStep \in Nat /\ FloorTo(Quantity, PerpStep) <= Quantity
      BY FloorIs
  <2>2. left \in Nat /\ left <= Quantity \div PerpStep
      BY <2>1
  <2>3. left * PerpStep \in Nat /\ left * PerpStep <= (Quantity \div PerpStep) * PerpStep
      BY <2>1, <2>2
  <2>. QED
      BY <1>1, <2>1, <2>3 DEF FloorTo
<1>4. /\ book \in Book /\ book.status = "OPEN" /\ book.perp = Quantity
      /\ book.spot = spot /\ book.dust = dust
    BY <1>1, <1>2 DEF Book
<1>5. wallet \in Nat /\ wallet = Foreign + (book.spot + book.dust)
  <2>1. wallet = Foreign + spot + dust
      BY <1>1
  <2>. QED
      BY <1>2, <1>4, <2>1
<1>6. PICK trim : trim = FloorTo(short \div 2, PerpStep)
    OBVIOUS
<1>7. PICK drift : drift = FloorTo(short - spot, PerpStep)
    OBVIOUS
<1>8. trim \in Nat /\ MinOf(trim, spot) \in Nat /\ (short > spot => drift \in Nat)
  <2>1. short \div 2 \in Nat
      BY <1>3
  <2>2. short > spot => short - spot \in Nat
      BY <1>2, <1>3
  <2>. QED
      BY <1>2, <1>6, <1>7, <2>1, <2>2, FloorIs
<1>9. \E kind \in Kinds, legs \in Legs, perp \in Nat \cup {-1}, s \in Nat, pos \in Nat \cup {-1} :
          /\ act = Planned(kind, legs, perp, s, pos)
          /\ kind # "ENTER" /\ legs # <<>> /\ (kind = "EXIT" => perp = -1)
          /\ pos \in {short, -1}
          /\ kind = "EXIT" /\ "perp" \notin Range(legs) => legs = <<"spot">>
  <2>1. /\ \A legs \in {<<"spot", "perp">>, <<"perp", "spot">>, <<"perp">>} :
               legs \in Legs /\ legs # <<>> /\ "perp" \in Range(legs)
        /\ <<"spot">> \in Legs /\ <<"spot">> # <<>>
      BY DEF Legs, Range
  <2>2. \A kind \in {"EXIT", "REBALANCE", "TRIM"} : kind \in Kinds /\ kind # "ENTER"
      BY DEF Kinds
  <2>3. CASE \E legs \in {<<"spot", "perp">>, <<"perp", "spot">>}, s \in {0, spot},
                pos \in {short, Unread} : act = Planned("EXIT", legs, Unread, s, pos)
      BY <1>2, <1>3, <2>1, <2>2, <2>3
  <2>4. CASE short = 0 /\ act = Planned("EXIT", <<"spot">>, Unread, spot, 0)
      BY <1>2, <1>3, <2>1, <2>2, <2>4
  <2>5. CASE act = Planned("EXIT", <<"perp">>, Unread, 0, short)
      BY <1>2, <1>3, <2>1, <2>2, <2>5
  <2>6. CASE spot > short /\ act = Planned("REBALANCE", <<"spot">>, Unread, spot - short, short)
    <3>1. spot - short \in Nat
        BY <1>2, <1>3, <2>6
    <3>. QED
        BY <1>3, <2>1, <2>2, <2>6, <3>1
  <2>7. CASE short > spot /\ act = Planned("REBALANCE", <<"perp">>, drift, 0, short)
      BY <1>3, <1>8, <2>1, <2>2, <2>7
  <2>8. CASE act = Planned("TRIM", <<"spot", "perp">>, trim, MinOf(trim, spot), short)
      BY <1>3, <1>8, <2>1, <2>2, <2>8
  <2>. QED
      BY <1>1, <1>6, <1>7, <2>3, <2>4, <2>5, <2>6, <2>7, <2>8
<1>10. /\ act \in Action /\ act.kind # "ENTER" /\ act.legs # <<>>
       /\ act.kind = "EXIT" => act.perp = Unread
       /\ act.pos # Unread => act.pos = short
       /\ act.kind = "EXIT" /\ "perp" \notin Range(act.legs) => act.legs = <<"spot">>
  <2>1. PICK kind \in Kinds, legs \in Legs, perp \in Nat \cup {-1}, s \in Nat,
             pos \in Nat \cup {-1} :
          /\ act = Planned(kind, legs, perp, s, pos)
          /\ kind # "ENTER" /\ legs # <<>> /\ (kind = "EXIT" => perp = -1)
          /\ pos \in {short, -1}
          /\ kind = "EXIT" /\ "perp" \notin Range(legs) => legs = <<"spot">>
      BY <1>9
  <2>2. act \in Action /\ act.kind = kind /\ act.legs = legs /\ act.perp = perp /\ act.pos = pos
      BY <2>1, PlannedIs
  <2>. QED
      BY <2>1, <2>2
<1>11. run = Begin("leg")
    BY DEF PlanReduction
<1>. QED
    BY <1>3, <1>4, <1>5, <1>10, <1>11

(* No order is out, and the run is at its beginning.                       *)
Nothing ==
    /\ orders = <<>> /\ escalate = FALSE /\ slack = 0
    /\ strays = [tag \in Tags |-> [open |-> 0, got |-> 0]]
Starts(pc) ==
    /\ Nothing /\ act \in Action /\ run = Begin(pc)
    /\ short \in Nat /\ wallet \in Nat /\ book \in Book
    /\ wallet = Foreign + (book.spot + book.dust)

LEMMA StartIs ==
  ASSUME NEW pc \in {"enter", "leg"}, Starts(pc)
  PROVE  /\ ExecTypeOK /\ OrdersSane /\ Answers /\ Counted /\ Ended /\ Astray
         /\ Work = (IF pc = "enter" THEN "P" ELSE "leg") /\ ~Asking
         /\ \A tag : ~Has(orders, tag) /\ The(orders, tag) = NoOrder
         /\ Moved = 0 /\ run.got = 0 /\ run.legs = act.legs /\ run.after = ""
         /\ run.pc # "failed" /\ run.out.filled = 0 /\ Held = book.spot + book.dust
<1>1. /\ orders = <<>> /\ escalate = FALSE /\ slack = 0 /\ act \in Action
      /\ short \in Nat /\ wallet \in Nat /\ book \in Book
      /\ wallet = Foreign + (book.spot + book.dust)
    BY DEF Starts, Nothing
<1>2. /\ run \in Run /\ run.pc = pc /\ run.legs = act.legs /\ run.out = NoOutcome
      /\ run.got = 0 /\ run.after = ""
  <2>1. pc \in PCs /\ run = Begin(pc)
      BY DEF PCs, Starts
  <2>. QED
      BY <1>1, <2>1, BeginIs
<1>3. DOMAIN orders = {} /\ strays \in [Tags -> Stray] /\ Drift = 0
      /\ Quiet("P") /\ Quiet("S") /\ Quiet("X")
    BY <1>1 DEF Starts, Nothing, Stray, Tags, Drift, Quiet
<1>4. ExecTypeOK /\ OrdersSane
    BY <1>1, <1>2, <1>3 DEF ExecTypeOK, OrdersSane, Single
<1>5. \A tag : ~Has(orders, tag) /\ The(orders, tag) = NoOrder
    BY <1>3 DEF Has, The
<1>6. run.out.filled = 0 /\ run.out.fee = 0 /\ run.out.state = "none"
    BY <1>2, NoOutcomeIs
<1>7. Answers
  <2>1. run.pc # "answer"
      BY <1>2
  <2>2. run.out.fee <= run.out.filled
      BY <1>6
  <2>. QED
      BY <1>2, <1>6, <2>1, <2>2 DEF Answers
<1>8. Work = (IF pc = "enter" THEN "P" ELSE "leg") /\ ~Asking /\ run.pc # "failed"
    BY <1>2 DEF Work, Asking
<1>9. Moved = 0
  <2>1. Moved = 0 + 0
      BY <1>2, <1>6 DEF Moved
  <2>. QED
      BY <2>1
<1>10. Held = book.spot + book.dust
  <2>1. Held = book.spot + book.dust + 0
      BY <1>8 DEF Held
  <2>2. book.spot \in Nat /\ book.dust \in Nat
      BY <1>1 DEF Book
  <2>. QED
      BY <2>1, <2>2
<1>11. Counted
  <2>1. Bought - slack = Held + 0 - 0 - 0
    <3>1. book.spot \in Nat /\ book.dust \in Nat /\ Foreign \in Nat
        BY <1>1 DEF Book
    <3>. QED
        BY <1>1, <1>3, <1>10, <3>1 DEF Bought, Ours
  <2>2. /\ The(orders, "S").filled = 0 /\ The(orders, "S").fee = 0
        /\ The(orders, "X").filled = 0
      BY <1>5, NoOrderIs
  <2>. QED
      BY <1>8, <2>1, <2>2 DEF Counted
<1>12. Ended /\ Astray
    BY <1>2, <1>3 DEF Ended, Astray
<1>. QED
    BY <1>2, <1>4, <1>5, <1>6, <1>7, <1>8, <1>9, <1>10, <1>11, <1>12

LEMMA EntryStarts == Nothing /\ PlanEntry => IInv /\ Astray
<1> SUFFICES ASSUME Nothing, PlanEntry PROVE IInv /\ Astray
    OBVIOUS
<1>1. /\ short = 0 /\ act = Planned("ENTER", <<>>, Quantity, 0, 0) /\ run = Begin("enter")
    BY DEF PlanEntry
<1>2. PICK dust \in 0..SpotMin - 1 :
          /\ book = [status |-> "FLAT", perp |-> 0, spot |-> 0, dust |-> dust, pending |-> {}]
          /\ wallet = Foreign + dust
    BY DEF PlanEntry
<1>3. /\ book \in Book /\ book.status = "FLAT" /\ book.perp = 0 /\ book.spot = 0
      /\ book.dust = dust /\ book.pending = {} /\ dust \in Nat /\ dust < SpotMin
    BY <1>2 DEF Book
<1>4. act \in Action /\ act.kind = "ENTER" /\ act.legs = <<>> /\ act.perp = Quantity
  <2>1. "ENTER" \in Kinds /\ <<>> \in Legs /\ Quantity \in Nat
      BY DEF Kinds, Legs
  <2>. QED
      BY <1>1, <2>1, PlannedIs
<1>5. wallet \in Nat /\ wallet = Foreign + (book.spot + book.dust)
    BY <1>2, <1>3
<1>6. Starts("enter")
    BY <1>1, <1>3, <1>4, <1>5 DEF Starts
<1>7. /\ ExecTypeOK /\ OrdersSane /\ Answers /\ Counted /\ Ended /\ Astray
      /\ Work = "P" /\ ~Asking /\ \A tag : ~Has(orders, tag) /\ The(orders, tag) = NoOrder
      /\ Moved = 0 /\ run.got = 0 /\ run.legs = act.legs /\ run.after = ""
      /\ run.pc # "failed" /\ run.out.filled = 0 /\ Held = book.spot + book.dust
    BY <1>6, StartIs
<1>8. Entry
    BY <1>4 DEF Entry
<1>9. Range(run.legs) = {}
    BY <1>4, <1>7, LegsAre DEF Legs
<1>10. Placed
    BY <1>7, <1>8 DEF Placed
<1>11. Frame
    BY <1>4, <1>7, <1>8, <1>9 DEF Frame, Entry
<1>12. InBook
    BY <1>3, <1>7, <1>8 DEF InBook
<1>13. Moving
  <2>1. Most(The(orders, "P")) = 0 /\ Most(The(orders, "X")) = 0
      BY <1>7, NoOrderIs
  <2>2. Moved + Most(The(orders, "P")) <= Quantity
    <3>1. Moved + Most(The(orders, "P")) = 0 + 0
        BY <1>7, <2>1
    <3>. QED
        BY <3>1
  <2>3. Most(The(orders, "X")) <= book.spot
      BY <1>3, <2>1
  <2>. QED
      BY <1>7, <2>2, <2>3 DEF Moving
<1>14. InPlan
  <2>1. Rest(The(orders, "P")) = 0 /\ Most(The(orders, "S")) = 0
      BY <1>7, NoOrderIs
  <2>2. Held = dust
    <3>1. Held = 0 + dust
        BY <1>3, <1>7
    <3>. QED
        BY <1>3, <3>1
  <2>3. dust + 0 <= MostCoins /\ 0 + 0 <= Quantity
      BY <1>3 DEF MostCoins
  <2>. QED
      BY <1>1, <1>7, <2>1, <2>2, <2>3 DEF InPlan
<1>15. EntryShort
  <2>1. The(orders, "P").filled + run.out.filled = 0 + 0
      BY <1>7, NoOrderIs
  <2>2. short <= The(orders, "P").filled + run.out.filled
      BY <1>1, <2>1
  <2>. QED
      BY <1>7, <2>2, StraysStay DEF EntryShort
<1>16. LegShort
    BY <1>8 DEF LegShort
<1>. QED
    BY <1>7, <1>10, <1>11, <1>12, <1>13, <1>14, <1>15, <1>16 DEF IInv

LEMMA ReductionStarts == Nothing /\ PlanReduction => IInv /\ Astray
<1> SUFFICES ASSUME Nothing, PlanReduction PROVE IInv /\ Astray
    OBVIOUS
<1>1. /\ short \in Nat /\ short <= Quantity
      /\ book \in Book /\ book.status = "OPEN" /\ book.perp = Quantity
      /\ wallet \in Nat /\ wallet = Foreign + (book.spot + book.dust)
      /\ act \in Action /\ act.kind # "ENTER" /\ act.legs # <<>>
      /\ act.kind = "EXIT" => act.perp = Unread
      /\ act.pos # Unread => act.pos = short
      /\ act.kind = "EXIT" /\ "perp" \notin Range(act.legs) => act.legs = <<"spot">>
      /\ run = Begin("leg")
    BY PlanIs
<1>2. Starts("leg")
    BY <1>1 DEF Starts
<1>3. /\ ExecTypeOK /\ OrdersSane /\ Answers /\ Counted /\ Ended /\ Astray
      /\ Work = "leg" /\ ~Asking /\ \A tag : ~Has(orders, tag) /\ The(orders, tag) = NoOrder
      /\ Moved = 0 /\ run.got = 0 /\ run.legs = act.legs /\ run.after = ""
    BY <1>2, StartIs
<1>4. ~Entry
    BY <1>1 DEF Entry
<1>5. Placed
    BY <1>3, <1>4 DEF Placed
<1>6. Frame
    BY <1>1, <1>3, <1>4 DEF Frame
<1>7. InBook
    BY <1>1, <1>3, <1>4 DEF InBook
<1>8. Moving
  <2>1. Most(The(orders, "X")) = 0 /\ book.spot \in Nat
      BY <1>1, <1>3, NoOrderIs DEF Book
  <2>2. Most(The(orders, "X")) <= book.spot
      BY <2>1
  <2>. QED
      BY <1>3, <2>2 DEF Moving
<1>9. InPlan /\ EntryShort
    BY <1>3, <1>4, StraysStay DEF InPlan, EntryShort
<1>10. LegShort
  <2>1. act.pos # Unread => short <= act.pos
      BY <1>1
  <2>2. short <= book.perp
      BY <1>1
  <2>. QED
      BY <1>1, <1>3, <2>1, <2>2 DEF LegShort
<1>. QED
    BY <1>3, <1>5, <1>6, <1>7, <1>8, <1>9, <1>10 DEF IInv

LEMMA InitInv == Init => IInv /\ Astray
BY EntryStarts, ReductionStarts DEF Init, Nothing

-----------------------------------------------------------------------------
(* The invariant.                                                          *)

LEMMA StutterKeeps == IInv /\ UNCHANGED vars => IInv'
<1> SUFFICES ASSUME IInv, UNCHANGED vars PROVE IInv'
    OBVIOUS
<1> USE DEF IInv
<1>1. UNCHANGED <<short, wallet, orders, strays, book, act, run, escalate, slack>>
    BY DEF vars
<1>2. /\ Work' = Work /\ Asking' = Asking /\ Moved' = Moved /\ Entry' = Entry /\ Held' = Held
      /\ Frame' /\ InBook'
    BY <1>1, RunStays
<1>3. ExecTypeOK' /\ OrdersSane'
    BY <1>1 DEF ExecTypeOK, OrdersSane
<1>4. Placed'
    BY <1>1, <1>2 DEF Placed
<1>5. Answers' /\ Moving'
    BY <1>1, <1>2 DEF Answers, Moving
<1>6. Counted' /\ InPlan'
    BY <1>1, <1>2, StraysStay DEF Counted, InPlan, Bought, Ours
<1>7. EntryShort' /\ LegShort' /\ Ended'
    BY <1>1, <1>2, StraysStay DEF EntryShort, LegShort, Ended, Closing, Base
<1>. QED
    BY <1>2, <1>3, <1>4, <1>5, <1>6, <1>7

(* The run has not been told anything of them, or has ended its loop.      *)
LEMMA AstrayGoes ==
  ASSUME IInv, Astray, IInv', UNCHANGED <<strays, act>>,
         ~Quiet("P") => short' <= short,
         ~Quiet("S") \/ ~Quiet("X") => Held' = Held,
         \A tag \in {"P", "S", "X"} : Has(orders', tag) => Has(orders, tag),
         ~Quiet("P") => run'.pc = "done" \/ (Refused' /\ Work' = "P"),
         ~Quiet("S") => Work' \in {"C", "done"} \/ (Refused' /\ Work' = "S"),
         ~Quiet("X") => /\ Work' # "failed"
                        /\ "spot" \notin Range(run'.legs) \/ (Refused' /\ Work' = "X")
  PROVE  Astray'
<1>1. short \in Nat /\ short' \in Nat /\ \A tag \in Tags : strays[tag].open \in Nat /\ strays[tag].got \in Nat
    BY Numbers DEF IInv, ExecTypeOK
<1>2. ~Quiet("P") => short' + strays["P"].open <= Quantity /\ short' <= strays["P"].got
    BY <1>1 DEF Astray, Tags
<1>3. Entry' = Entry /\ MostCoins' = MostCoins
    BY DEF Entry, MostCoins
<1>4. \A tag \in {"P", "S", "X"} : /\ Quiet(tag)' <=> Quiet(tag)
                                  /\ strays'[tag] = strays[tag]
    BY DEF Quiet
<1>. QED
    BY <1>2, <1>3, <1>4 DEF Astray

(* A match of an order that is taken for refused.                          *)
LEMMA MatchStrayKeeps ==
  ASSUME IInv, Astray, NEW tag \in Tags, MatchStray(tag)
  PROVE  IInv' /\ Astray'
<1> USE DEF IInv
<1>0. PICK f \in 0..strays[tag].open, fee \in 0..FeeMax :
          /\ Fills(tag, strays[tag].open, f, fee, fee)
          /\ \E left \in 0..strays[tag].open - f :
                /\ tag # "C" => left = 0
                /\ strays' = [strays EXCEPT ![tag] = [open |-> left,
                                                     got |-> @.got + Came(tag, f - fee)]]
    BY DEF MatchStray
<1>1. PICK left \in 0..strays[tag].open - f :
          /\ Fills(tag, strays[tag].open, f, fee, fee)
          /\ tag # "C" => left = 0
          /\ strays' = [strays EXCEPT ![tag] = [open |-> left,
                                               got |-> @.got + Came(tag, f - fee)]]
    BY <1>0
<1>2. /\ UNCHANGED <<orders, book, act, run, escalate, slack>> /\ strays[tag].open > 0
      /\ strays \in [Tags -> Stray] /\ \A t \in Tags : strays[t].open \in Nat /\ strays[t].got \in Nat
      /\ short \in Nat /\ wallet \in Nat /\ slack \in Nat
    BY Numbers DEF MatchStray, ExecTypeOK
<1>3. /\ f \in Nat /\ fee \in Nat /\ left \in Nat /\ f + left <= strays[tag].open
      /\ fee <= f /\ (tag # "S" => fee = 0) /\ FeeMax \in Nat
    BY <1>1, <1>2 DEF Fills
<1>4. /\ strays' \in [Tags -> Stray] /\ \A t \in Tags : t # tag => strays'[t] = strays[t]
      /\ strays'[tag].open = left /\ strays'[tag].got = strays[tag].got + Came(tag, f - fee)
      /\ Came(tag, f - fee) \in Nat
  <2>1. Came(tag, f - fee) \in Nat
      BY <1>3 DEF Came
  <2>2. [open |-> left, got |-> strays[tag].got + Came(tag, f - fee)] \in Stray
      BY <1>2, <1>3, <2>1 DEF Stray
  <2>. QED
      BY <1>1, <1>2, <2>1, <2>2
<1>5. /\ tag = "P" => short' = short + f /\ wallet' = wallet
      /\ tag = "C" => short' = short - f /\ f <= short /\ wallet' = wallet
      /\ tag = "S" => short' = short /\ wallet' = wallet + f - fee
      /\ tag = "X" => short' = short /\ wallet' = wallet - f /\ f <= wallet
    BY <1>1 DEF Fills
<1>6. tag \in {"P", "S", "X"} => ~Quiet(tag)
    BY <1>2 DEF Quiet
<1>7. /\ Work' = Work /\ Asking' = Asking /\ Moved' = Moved /\ Entry' = Entry /\ Held' = Held
      /\ Frame' /\ InBook' /\ Base' = Base /\ Refused' = Refused
  <2>1. Base' = Base /\ Refused' = Refused
      BY <1>2 DEF Base, Refused
  <2>2. UNCHANGED <<book, act, run, escalate>>
      BY <1>2
  <2>3. /\ Work' = Work /\ Asking' = Asking /\ Moved' = Moved /\ Entry' = Entry /\ Held' = Held
        /\ (Frame => Frame') /\ (InBook => InBook')
      BY ONLY <2>2, RunStays
  <2>4. Frame /\ InBook
      OBVIOUS
  <2>. QED
      BY ONLY <2>1, <2>3, <2>4, Zenon
<1>8. short' \in Nat /\ wallet' \in Nat
    BY <1>2, <1>3, <1>5 DEF Tags
<1>9. ExecTypeOK' /\ OrdersSane' /\ Placed' /\ Moving'
    BY <1>2, <1>4, <1>7, <1>8 DEF ExecTypeOK, OrdersSane, Placed, Moving
<1>10. /\ tag = "P" => /\ Entry /\ ~Has(orders, "P") /\ Work \in {"P", "done"}
                       /\ short + strays["P"].open <= Quantity /\ short <= strays["P"].got
       /\ tag = "S" => Entry /\ Work \in {"S", "C", "done"}
       /\ tag = "X" => ~Entry /\ Work # "failed"
    BY <1>6, WorkIs DEF Astray
<1>11. tag # "P" => short' <= short
    BY <1>2, <1>3, <1>5 DEF Tags
<1>12. Bought' = Bought
  <2>1. strays'["S"].got \in Nat /\ strays'["X"].got \in Nat
      BY <1>4 DEF Stray, Tags
  <2>2. CASE tag = "S"
    <3>1. strays'["S"].got = strays["S"].got + (f - fee) /\ strays'["X"] = strays["X"]
        BY <1>4, <2>2 DEF Came, Tags
    <3>. QED
        BY <1>2, <1>3, <1>5, <2>2, <3>1 DEF Bought, Ours, Drift, Tags
  <2>3. CASE tag = "X"
    <3>1. strays'["X"].got = strays["X"].got + f /\ strays'["S"] = strays["S"]
        BY <1>3, <1>4, <2>3 DEF Came, Tags
    <3>. QED
        BY <1>2, <1>3, <1>5, <2>3, <3>1 DEF Bought, Ours, Drift, Tags
  <2>4. CASE tag \in {"P", "C"}
    <3>1. strays'["S"] = strays["S"] /\ strays'["X"] = strays["X"] /\ wallet' = wallet
        BY <1>4, <1>5, <2>4 DEF Tags
    <3>. QED
        BY <3>1 DEF Bought, Ours, Drift
  <2>. QED
      BY <2>2, <2>3, <2>4 DEF Tags
<1>13. Answers'
  <2>1. run.out.state = "nothing to reduce" => short' = 0 \/ run.after = "unknown entry"
    <3>1. SUFFICES ASSUME run.out.state = "nothing to reduce", run.after # "unknown entry"
                   PROVE  short' = 0
        OBVIOUS
    <3>2. Work = "C" /\ short = 0
        BY <3>1 DEF Answers
    <3>3. tag # "P"
        BY <1>10, <3>2
    <3>. QED
        BY <1>8, <1>11, <3>2, <3>3
  <2>. QED
      BY <1>2, <1>7, <2>1 DEF Answers
<1>14. Counted'
  <2>1. run.pc = "failed" => wallet' = wallet
      BY <1>5, <1>10, WorkIs DEF Tags
  <2>. QED
      BY <1>2, <1>7, <1>12, <2>1 DEF Counted
<1>15. InPlan'
  <2>1. Entry => short' + Rest(The(orders, "P")) <= Quantity
    <3>1. SUFFICES ASSUME Entry PROVE short' + Rest(The(orders, "P")) <= Quantity
        OBVIOUS
    <3>2. CASE tag = "P"
      <4>1. Rest(The(orders, "P")) = 0
          BY <1>10, <3>2, TheNone, NoOrderIs
      <4>. QED
          BY <1>2, <1>3, <1>5, <1>10, <3>2, <4>1 DEF Tags
    <3>3. CASE tag # "P"
        BY <1>8, <1>11, <3>1, <3>3, Numbers DEF InPlan
    <3>. QED
        BY <3>2, <3>3
  <2>. QED
      BY <1>2, <1>7, <1>12, <2>1 DEF InPlan, MostCoins
<1>16. Quiet("P")' => short' = 0 \/ (Quiet("P") /\ short' <= short)
  <2>1. CASE tag = "P"
    <3>1. Quiet("P")' => strays["P"].got + f = 0
        BY <1>3, <1>4, <2>1 DEF Quiet, Came
    <3>. QED
        BY <1>2, <1>3, <1>5, <1>10, <2>1, <3>1 DEF Tags
  <2>2. CASE tag # "P"
      BY <1>4, <1>11, <2>2 DEF Quiet, Tags
  <2>. QED
      BY <2>1, <2>2
<1>17. EntryShort'
  <2>1. Work = "P" /\ Quiet("P")' => short' <= The(orders, "P").filled + run.out.filled
      BY <1>8, <1>16, Numbers DEF EntryShort
  <2>2. Work = "S" => short' <= run.entered
      BY <1>8, <1>10, <1>11, Numbers DEF EntryShort
  <2>3. Work = "C" => Closing' <= Closing /\ Closing' \in Nat /\ Closing \in Nat
      BY <1>2, <1>7, <1>8, <1>10, <1>11, Numbers DEF Closing
  <2>4. Work = "C" /\ run.after = "excess" => Closing' <= run.entered
      BY <2>3, Numbers DEF EntryShort
  <2>. QED
      BY <1>2, <1>7, <2>1, <2>2, <2>4 DEF EntryShort
<1>18. LegShort'
  <2>1. SUFFICES ASSUME ~Entry PROVE LegShort'
      BY <1>7 DEF LegShort
  <2>2. short' <= short /\ (short = 0 => short' = 0)
      BY <1>2, <1>8, <1>10, <1>11, <2>1
  <2>3. Closing' <= Closing /\ Closing' \in Nat /\ Closing \in Nat
      BY <1>2, <1>7, <1>8, <2>2, Numbers DEF Closing
  <2>4. Work = "C" => \/ escalate
                      \/ Closing' <= Base /\ (act.kind = "EXIT" => Closing' <= run.want)
      BY <2>1, <2>3, Numbers DEF LegShort, Base
  <2>5. /\ act.pos # Unread => short' <= act.pos
        /\ Work # "C" => escalate \/ short' <= book.perp
      BY <1>2, <1>8, <2>1, <2>2, Numbers DEF LegShort
  <2>. QED
      BY <1>2, <1>7, <2>1, <2>2, <2>4, <2>5 DEF LegShort
<1>19. Ended'
  <2>1. SUFFICES ASSUME run.pc = "done", ~escalate, Quiet("P")'
                 PROVE  /\ short' <= book.perp /\ (short' > 0 => book.status = "OPEN")
                        /\ Entry => short' <= book.spot + book.dust
      BY <1>2, <1>7 DEF Ended
  <2>. QED
      BY <1>2, <1>8, <1>16, <2>1, Numbers DEF Ended
<1>20. Astray'
  <2>1. ~Quiet("P")' => short' + strays'["P"].open <= Quantity /\ short' <= strays'["P"].got /\ ~Quiet("P")
    <3>1. CASE tag = "P"
        BY <1>2, <1>3, <1>4, <1>5, <1>6, <1>10, <3>1 DEF Came, Tags
    <3>2. CASE tag # "P"
      <4>1. strays'["P"] = strays["P"] /\ (Quiet("P")' <=> Quiet("P"))
          BY <1>4, <3>2 DEF Tags, Quiet
      <4>. QED
          BY <1>2, <1>8, <1>11, <3>2, <4>1 DEF Astray, Tags
    <3>. QED
        BY <3>1, <3>2
  <2>2. \A t \in {"S", "X"} :
            /\ strays'[t].open + strays'[t].got <= strays[t].open + strays[t].got
            /\ strays'[t].open \in Nat /\ strays'[t].got \in Nat
            /\ ~Quiet(t)' => ~Quiet(t)
    <3>1. SUFFICES ASSUME NEW t \in {"S", "X"}
                   PROVE  /\ strays'[t].open + strays'[t].got <= strays[t].open + strays[t].got
                          /\ strays'[t].open \in Nat /\ strays'[t].got \in Nat
                          /\ ~Quiet(t)' => ~Quiet(t)
        OBVIOUS
    <3>2. CASE t = tag
        BY <1>2, <1>3, <1>4, <1>6, <3>2 DEF Came, Tags
    <3>3. CASE t # tag
        BY <1>2, <1>4, <3>3 DEF Quiet, Tags
    <3>. QED
        BY <3>2, <3>3
  <2>3. Held \in Int /\ MostCoins' = MostCoins /\ MostCoins \in Int
      BY Numbers, WorkIs DEF Held, MostCoins
  <2>4. ~Quiet("S")' => Held + strays'["S"].open + strays'["S"].got <= MostCoins
      BY <1>2, <2>2, <2>3 DEF Astray, Tags
  <2>5. ~Quiet("X")' => strays'["X"].open + strays'["X"].got <= Held
      BY <1>2, <2>2, <2>3 DEF Astray, Tags
  <2>. QED
      BY <1>2, <1>7, <2>1, <2>2, <2>3, <2>4, <2>5 DEF Astray
<1>. QED
    BY <1>7, <1>9, <1>13, <1>14, <1>15, <1>17, <1>18, <1>19, <1>20

(* What the run still has, when its orders, coins and their count stay.    *)
LEMMA HeldStays ==
  ASSUME IInv, IInv', UNCHANGED <<wallet, slack, strays, orders>>,
         run.pc # "failed", run'.pc # "failed"
  PROVE  Held' = Held
<1>1. /\ Bought - slack = Held + The(orders, "S").filled - The(orders, "S").fee
                              - The(orders, "X").filled
      /\ Bought - slack = Held' + The(orders, "S").filled - The(orders, "S").fee
                              - The(orders, "X").filled
    BY StraysStay DEF IInv, Counted
<1>2. /\ The(orders, "S").filled \in Nat /\ The(orders, "S").fee \in Nat
      /\ The(orders, "X").filled \in Nat /\ Held \in Int
    BY Numbers, WorkIs DEF IInv, Held
<1>3. Held' \in Int
  <2>1. /\ book'.spot \in Nat /\ book'.dust \in Nat /\ run'.got \in Nat
        /\ run'.out.filled \in Nat /\ run'.out.fee \in Nat
    <3>1. book' \in Book /\ run' \in Run
        BY DEF IInv, ExecTypeOK
    <3>. QED
        BY <3>1, RunIs DEF Book
  <2>. QED
      BY <2>1 DEF Held, Moved
<1>. QED
    BY <1>1, <1>2, <1>3

(* A step of the run's own.                                                *)
LEMMA RunAstray ==
  ASSUME IInv, Astray, IInv', UNCHANGED <<short, wallet, strays, slack, orders, act>>,
         run.pc # "failed", run'.pc # "failed",
         ~Quiet("P") => run'.pc = "done",
         ~Quiet("S") => run'.pc \in {"close", "done"} \/ (Entry /\ Work' = "C"),
         ~Quiet("X") => "spot" \notin Range(run'.legs)
  PROVE  Astray'
<1>1. Held' = Held
    BY HeldStays
<1>2. short' <= short
    BY Numbers DEF IInv
<1>3. /\ run'.pc \in {"close", "done"} => Work' \in {"C", "done"}
      /\ Work' # "failed"
  <2>1. ExecTypeOK'
      BY DEF IInv
  <2>2. run'.pc \in PCs /\ run'.link.tag \in Tags
      BY <2>1, RunIs DEF ExecTypeOK
  <2>. QED
      BY <2>2 DEF Work, PCs, Tags
<1>. QED
    BY <1>1, <1>2, <1>3, AstrayGoes

LEMMA PcOfAsk == ASSUME run \in Run, NEW tag, NEW n, NEW qty
                 PROVE  Ask(run, tag, n, qty).pc = "send" /\ Ask(run, tag, n, qty).legs = run.legs
                        /\ Ask(run, tag, n, qty).link.tag = tag
BY DEF Ask, Run

LEMMA PcOfClose ==
  ASSUME NEW qty, NEW after
  PROVE  StartClose(run, qty, after).pc = "close" /\ StartClose(run, qty, after).legs = run.legs
BY DEF StartClose, Begin

LEMMA PcOfNext == NextLeg(run).pc = "leg" /\ NextLeg(run).legs = Tail(run.legs)
BY DEF NextLeg, Begin

LEMMA PcOfEnd == ASSUME NEW pc PROVE End(pc).pc = pc /\ End(pc).legs = <<>>
BY DEF End, Begin

LEMMA PcOfAgain ==
  ASSUME run \in Run, NEW pc, NEW got
  PROVE  Again(pc, got).pc = pc /\ Again(pc, got).legs = run.legs
BY DEF Again, Run

(* An entry that hears of a refusal ends, or goes on to the next leg.      *)
LEMMA EntryAstray ==
  IInv /\ Astray /\ IInv' /\ (Enter \/ EntryAnswered \/ Buy \/ BuyAnswered) => Astray'
<1> SUFFICES ASSUME IInv, Astray, IInv', Enter \/ EntryAnswered \/ Buy \/ BuyAnswered
             PROVE  Astray'
    OBVIOUS
<1>1. UNCHANGED <<short, wallet, strays, slack, orders, act>> /\ run \in Run /\ ExecTypeOK
    BY DEF Enter, EntryAnswered, Buy, BuyAnswered, traded, exchange, IInv, ExecTypeOK
<1>2. ASSUME NEW got, NEW pending, Reconcile(got, pending) PROVE run'.pc \in {"close", "done"}
    BY <1>2, PcOfClose, PcOfEnd DEF Reconcile
<1>3. CASE Enter
  <2>1. run.pc = "enter" /\ Work = "P"
      BY <1>3 DEF Enter, Work
  <2>2. Quiet("P") /\ Quiet("S") /\ Quiet("X")
      BY <2>1, NotRefused
  <2>3. run'.pc \in {"send", "done"}
      BY <1>1, <1>3, PcOfAsk, PcOfEnd DEF Enter, Finish
  <2>. QED
      BY <1>1, <2>1, <2>2, <2>3, RunAstray
<1>4. CASE EntryAnswered
  <2>1. run.pc = "answer" /\ Work = "P"
      BY <1>4 DEF EntryAnswered, Work
  <2>2. Entry
      BY <2>1 DEF IInv, Frame
  <2>3. /\ Quiet("S") /\ Quiet("X")
        /\ ~Quiet("P") => run.out.state = "rejected"
      BY <2>1, <2>2 DEF Astray, Refused
  <2>4. run.out.state = "rejected" => run'.pc = "done"
      BY <1>4, PcOfEnd DEF EntryAnswered, Finish
  <2>5. run'.pc \in {"close", "done", "buy"}
    <3>1. CASE Finish
        BY <3>1, PcOfEnd DEF Finish
    <3>2. CASE run' = StartClose(run, run.qty, "unknown entry")
        BY <3>2, PcOfClose
    <3>3. CASE run.out.state = "done" /\ run.out.filled > 0
      <4>1. GoesToBuy(OwnDust(book, wallet, run.out.filled))
          BY <1>4, <3>3 DEF EntryAnswered, GoesToBuy
      <4>. QED
          BY <4>1 DEF GoesToBuy, Begin
    <3>. QED
        BY <1>4, <3>1, <3>2, <3>3 DEF EntryAnswered
  <2>. QED
      BY <1>1, <2>1, <2>3, <2>4, <2>5, RunAstray
<1>5. CASE Buy
  <2>1. run.pc = "buy" /\ Work = "S"
      BY <1>5 DEF Buy, Work
  <2>2. Quiet("P") /\ Quiet("S") /\ Quiet("X")
      BY <2>1, NotRefused
  <2>3. run'.pc \in {"send", "close", "done"}
      BY <1>1, <1>2, <1>5, PcOfAsk DEF Buy
  <2>. QED
      BY <1>1, <2>1, <2>2, <2>3, RunAstray
<1>6. CASE BuyAnswered
  <2>1. run.pc = "answer" /\ Work = "S"
      BY <1>6 DEF BuyAnswered, Work
  <2>2. Entry
      BY <2>1 DEF IInv, Frame
  <2>3. /\ Quiet("P") /\ Quiet("X")
        /\ ~Quiet("S") => run.out.state = "rejected"
      BY <2>1, <2>2 DEF Astray, Refused
  <2>4. run.out.state = "rejected" => run'.pc \in {"close", "done"}
      BY <1>2, <1>6 DEF BuyAnswered
  <2>5. run'.pc \in {"buy", "close", "done"}
      BY <1>1, <1>2, <1>6, PcOfAgain DEF BuyAnswered
  <2>. QED
      BY <1>1, <2>1, <2>3, <2>4, <2>5, RunAstray
<1>. QED
    BY <1>3, <1>4, <1>5, <1>6

LEMMA ClosedGoes ==
  ASSUME ExecTypeOK, Frame, Work = "C", NEW closed, NEW ok, Closed(closed, ok)
  PROVE  /\ run'.pc \in {"done", "leg"} /\ (Entry => run'.pc = "done")
         /\ Range(run'.legs) \subseteq Range(run.legs)
<1>1. run.after \in Afters /\ run.legs \in Legs /\ (run.after # "" <=> Entry)
    BY RunIs DEF ExecTypeOK, Frame
<1>2. CASE Entry
  <2>1. run' = End("done")
      BY <1>1, <1>2 DEF Closed, Finish, Afters
  <2>. QED
      BY <2>1, PcOfEnd, LegsAre DEF Legs
<1>3. CASE ~Entry
  <2>1. run' = NextLeg(run) /\ run.legs # <<>>
      BY <1>1, <1>3 DEF Closed, Frame
  <2>. QED
      BY <1>1, <1>3, <2>1, PcOfNext, LegsAre
<1>. QED
    BY <1>2, <1>3

(* A close goes on, or ends: the entry, or its leg.                        *)
LEMMA CloseAstray == IInv /\ Astray /\ IInv' /\ (Close \/ CloseAnswered) => Astray'
<1> SUFFICES ASSUME IInv, Astray, IInv', Close \/ CloseAnswered PROVE Astray'
    OBVIOUS
<1>1. /\ UNCHANGED <<short, wallet, strays, slack, orders, act>> /\ run \in Run
      /\ ExecTypeOK /\ Frame
    BY DEF Close, CloseAnswered, traded, exchange, IInv, ExecTypeOK
<1>2. run.pc \in {"close", "answer"} /\ Work = "C"
    BY DEF Close, CloseAnswered, Work
<1>3. /\ Quiet("P")
      /\ ~Quiet("S") => Entry
      /\ ~Quiet("X") => "spot" \notin Range(run.legs)
    BY <1>2 DEF Astray
<1>4. \/ \E closed, ok : Closed(closed, ok)
      \/ \E n, qty : run' = Ask(run, "C", n, qty)
      \/ \E got : run' = Again("close", got)
    BY DEF Close, CloseAnswered
<1>5. CASE \E closed, ok : Closed(closed, ok)
  <2>1. /\ run'.pc \in {"done", "leg"} /\ (Entry => run'.pc = "done")
        /\ Range(run'.legs) \subseteq Range(run.legs)
      BY <1>1, <1>2, <1>5, ClosedGoes
  <2>2. run.pc # "failed" /\ run'.pc # "failed"
      BY <1>2, <2>1
  <2>3. /\ ~Quiet("S") => run'.pc \in {"close", "done"}
        /\ ~Quiet("X") => "spot" \notin Range(run'.legs)
      BY <1>3, <2>1
  <2>. QED
      BY <1>1, <1>3, <2>2, <2>3, RunAstray
<1>6. CASE \E n, qty : run' = Ask(run, "C", n, qty)
  <2>1. run'.pc = "send" /\ run'.legs = run.legs /\ run'.link.tag = "C"
      BY <1>1, <1>6, PcOfAsk
  <2>2. Work' = "C"
      BY <2>1 DEF Work
  <2>3. run.pc # "failed" /\ run'.pc # "failed"
      BY <1>2, <2>1
  <2>4. ~Quiet("X") => "spot" \notin Range(run'.legs)
      BY <1>3, <2>1
  <2>. QED
      BY <1>1, <1>3, <2>2, <2>3, <2>4, RunAstray
<1>7. CASE \E got : run' = Again("close", got)
  <2>1. run'.pc = "close" /\ run'.legs = run.legs
      BY <1>1, <1>7, PcOfAgain
  <2>. QED
      BY <1>1, <1>2, <1>3, <2>1, RunAstray
<1>. QED
    BY <1>4, <1>5, <1>6, <1>7

(* A leg that hears of a refused sale is over.                             *)
LEMMA LegAstray ==
  IInv /\ Astray /\ IInv' /\ (SpotLeg \/ PerpLeg \/ LegsDone \/ Sell \/ SellAnswered) => Astray'
<1> SUFFICES ASSUME IInv, Astray, IInv', SpotLeg \/ PerpLeg \/ LegsDone \/ Sell \/ SellAnswered
             PROVE  Astray'
    OBVIOUS
<1>1. /\ UNCHANGED <<short, wallet, strays, slack, orders, act>> /\ run \in Run
      /\ ExecTypeOK /\ Frame /\ run.legs \in Legs
    BY RunIs DEF SpotLeg, PerpLeg, LegsDone, Sell, SellAnswered, traded, exchange, IInv, ExecTypeOK
<1>2. run.pc \in {"leg", "sell", "answer"} /\ Work \in {"leg", "X"}
    BY DEF SpotLeg, PerpLeg, LegsDone, Sell, SellAnswered, Work
<1>3. ~Entry /\ Quiet("P") /\ Quiet("S")
    BY <1>1, <1>2 DEF Astray, Frame
<1>4. run.legs # <<>> => /\ Head(run.legs) \in Range(run.legs)
                         /\ Head(run.legs) \notin Range(Tail(run.legs))
                         /\ Range(Tail(run.legs)) \subseteq Range(run.legs)
    BY <1>1, LegsAre
<1>5. /\ run.pc = "leg" /\ ~Quiet("X") => "spot" \notin Range(run.legs)
      /\ run.pc = "sell" => Quiet("X")
    BY NotRefused DEF Work
<1>6. CASE SpotLeg
  <2>1. Quiet("X") /\ run.pc = "leg"
      BY <1>4, <1>5, <1>6 DEF SpotLeg
  <2>2. run'.pc \in {"leg", "sell"}
    <3>1. run' = NextLeg(run) \/ run'.pc = "sell"
        BY <1>1, <1>6 DEF SpotLeg, Run
    <3>. QED
        BY <3>1, PcOfNext
  <2>. QED
      BY <1>1, <1>3, <2>1, <2>2, RunAstray
<1>7. CASE PerpLeg
  <2>1. run.pc = "leg" /\ run.legs # <<>>
      BY <1>7 DEF PerpLeg
  <2>2. /\ run'.pc \in {"leg", "close"}
        /\ run'.legs = run.legs \/ run'.legs = Tail(run.legs)
      BY <1>7, PcOfNext, PcOfClose DEF PerpLeg
  <2>. QED
      BY <1>1, <1>3, <1>4, <1>5, <2>1, <2>2, RunAstray
<1>8. CASE LegsDone
  <2>1. run.pc = "leg" /\ run'.pc = "done" /\ run'.legs = <<>>
      BY <1>8, PcOfEnd DEF LegsDone, Finish
  <2>2. Range(run'.legs) = {}
      BY <2>1, LegsAre DEF Legs
  <2>. QED
      BY <1>1, <1>3, <2>1, <2>2, RunAstray
<1>9. CASE Sell
  <2>1. run.pc = "sell" /\ Quiet("X")
      BY <1>5, <1>9 DEF Sell
  <2>2. run'.pc \in {"leg", "send"}
    <3>1. ASSUME NEW sold, NEW pending, Sold(sold, pending) PROVE run'.pc = "leg"
        BY <3>1, PcOfNext DEF Sold
    <3>2. ASSUME run' = [Ask(run, "X", MaxOrders, run.want - run.got) EXCEPT !.late = FALSE]
          PROVE  run'.pc = "send"
        BY <1>1, <3>2 DEF Ask, Run
    <3>. QED
        BY <1>1, <1>9, <3>1, <3>2, PcOfAsk DEF Sell
  <2>. QED
      BY <1>1, <1>3, <2>1, <2>2, RunAstray
<1>10. CASE SellAnswered
  <2>1. run.pc = "answer" /\ Work = "X"
      BY <1>10 DEF SellAnswered, Work
  <2>2. run.legs # <<>> /\ Head(run.legs) = "spot"
      BY <1>1, <2>1 DEF Frame
  <2>3. ~Quiet("X") => run.out.state = "rejected"
      BY <1>4, <2>2 DEF Astray, Refused
  <2>4. \/ run'.pc = "leg" /\ run'.legs = Tail(run.legs)
        \/ run.out.state = "done" /\ run'.pc = "sell"
    <3>1. ASSUME NEW sold, NEW pending, Sold(sold, pending)
          PROVE  run'.pc = "leg" /\ run'.legs = Tail(run.legs)
        BY <3>1, PcOfNext DEF Sold
    <3>. QED
        BY <1>1, <1>10, <3>1, PcOfAgain DEF SellAnswered
  <2>. QED
      BY <1>1, <1>3, <1>4, <2>1, <2>2, <2>3, <2>4, RunAstray
<1>. QED
    BY <1>6, <1>7, <1>8, <1>9, <1>10

LEMMA StepKeeps == IInv /\ Astray /\ Step => IInv' /\ Astray'
<1> SUFFICES ASSUME IInv, Astray, Step PROVE IInv' /\ Astray'
    OBVIOUS
<1>1. CASE Send \/ Resend \/ Look \/ Poll
    BY <1>1, SendKeeps, ResendKeeps, LookKeeps, PollKeeps
<1>2. CASE Enter \/ EntryAnswered \/ Buy \/ BuyAnswered
  <2>1. IInv'
      BY <1>2, EnterKeeps, EntryAnsweredKeeps, BuyKeeps, BuyAnsweredKeeps
  <2>. QED
      BY <1>2, <2>1, EntryAstray
<1>3. CASE Close \/ CloseAnswered
  <2>1. IInv'
      BY <1>3, CloseKeeps, CloseAnsweredKeeps
  <2>. QED
      BY <1>3, <2>1, CloseAstray
<1>4. CASE SpotLeg \/ PerpLeg \/ LegsDone \/ Sell \/ SellAnswered
  <2>1. IInv'
      BY <1>4, SpotLegKeeps, PerpLegKeeps, LegsDoneKeeps, SellKeeps, SellAnsweredKeeps
  <2>. QED
      BY <1>4, <2>1, LegAstray
<1>. QED
    BY <1>1, <1>2, <1>3, <1>4 DEF Step

LEMMA NextKeeps == IInv /\ Astray /\ [Next]_vars => IInv' /\ Astray'
<1> SUFFICES ASSUME IInv, Astray, [Next]_vars PROVE IInv' /\ Astray'
    OBVIOUS
<1>1. CASE Step
    BY <1>1, StepKeeps
<1>2. CASE Raises
  <2>1. IInv'
      BY <1>2, RaisesKeeps
  <2>2. Quiet("P") /\ Quiet("S") /\ Quiet("X")
    <3>1. run.pc \in {"enter", "buy", "sell"} /\ Work \in {"P", "S", "X"}
        BY <1>2 DEF Raises, Work
    <3>. QED
        BY <3>1, NotRefused
  <2>3. UNCHANGED <<strays, act, orders>>
      BY <1>2 DEF Raises, traded, exchange
  <2>. QED
      BY <2>1, <2>2, <2>3, AstrayGoes
<1>3. CASE Deadline
  <2>1. IInv'
      BY <1>3, DeadlineKeeps
  <2>2. /\ UNCHANGED <<short, wallet, orders, strays, book, act, escalate, slack>>
        /\ run' = [run EXCEPT !.late = TRUE] /\ run \in Run /\ short <= short
      BY <1>3, Numbers DEF Deadline, IInv, ExecTypeOK
  <2>3. /\ run'.pc = run.pc /\ run'.legs = run.legs /\ run'.link = run.link
        /\ run'.out = run.out /\ run'.got = run.got
      BY <2>2 DEF Run
  <2>4. Work' = Work /\ Held' = Held /\ Refused' = Refused
      BY <2>2, <2>3 DEF Work, Held, Moved, Refused
  <2>. QED
      BY <2>1, <2>2, <2>3, <2>4, AstrayGoes DEF Astray
<1>4. CASE Deleverage
  <2>1. IInv'
      BY <1>4, DeleverageKeeps
  <2>2. UNCHANGED <<wallet, orders, strays, book, act, run, escalate, slack>> /\ short' <= short
      BY <1>4, Numbers DEF Deleverage, IInv
  <2>3. Work' = Work /\ Held' = Held /\ Refused' = Refused
      BY <2>2, RunStays DEF Refused
  <2>. QED
      BY <2>1, <2>2, <2>3, AstrayGoes DEF Astray
<1>5. ASSUME NEW l \in DOMAIN orders, Match(l) PROVE IInv' /\ Astray'
  <2>1. IInv'
      BY <1>5, MatchKeeps
  <2>2. UNCHANGED <<strays, book, act, run, escalate>> /\ DOMAIN orders' = DOMAIN orders
      BY <1>5 DEF Match
  <2>3. Work' = Work /\ Held' = Held /\ Refused' = Refused
      BY <2>2, RunStays DEF Refused
  <2>4. ~Quiet("P") => short' <= short
    <3>1. ~Quiet("P") => l.tag # "P"
        BY DEF Astray, Has
    <3>2. PICK f \in 0..orders[l].qty, fee \in 0..FeeMax, taken \in 0..FeeMax :
              Fills(l.tag, orders[l].qty, f, fee, taken)
        BY <1>5 DEF Match
    <3>3. orders[l].qty \in Nat /\ short \in Nat
        BY Numbers, OrderIs DEF IInv, ExecTypeOK
    <3>. QED
        BY <3>1, <3>2, <3>3 DEF Fills
  <2>5. \A tag : Has(orders', tag) => Has(orders, tag)
      BY <2>2 DEF Has
  <2>. QED
      BY <2>1, <2>2, <2>3, <2>4, <2>5, AstrayGoes DEF Astray
<1>6. CASE UNCHANGED vars
  <2>1. IInv' /\ UNCHANGED <<short, orders, strays, book, act, run, escalate>> /\ short <= short
      BY <1>6, StutterKeeps, Numbers DEF vars, IInv
  <2>2. Work' = Work /\ Held' = Held /\ Refused' = Refused
      BY <2>1, RunStays DEF Refused
  <2>. QED
      BY <2>1, <2>2, AstrayGoes DEF Astray
<1>7. ASSUME NEW tag \in Tags, MatchStray(tag) PROVE IInv' /\ Astray'
    BY <1>7, MatchStrayKeeps
<1>. QED
    BY <1>1, <1>2, <1>3, <1>4, <1>5, <1>6, <1>7 DEF Next

(* Both hold in every state of a run, whatever the exchange does.          *)
THEOREM Inductive == Spec => [](IInv /\ Astray)
<1>1. Init => IInv /\ Astray
    BY InitInv
<1>2. IInv /\ Astray /\ [Next]_vars => IInv' /\ Astray'
    BY NextKeeps
<1>. QED
    BY <1>1, <1>2, PTL DEF Spec

-----------------------------------------------------------------------------
(* What it says.                                                           *)

(* The coins that are ours, in a state that has not been abandoned.        *)
LEMMA OursAre ==
  ASSUME IInv, Astray, run.pc # "failed"
  PROVE  /\ Held \in Int /\ Ours \in Int
         /\ The(orders, "X").filled + strays["X"].got <= Held
         /\ Ours = slack + Held + (The(orders, "S").filled - The(orders, "S").fee)
                   - The(orders, "X").filled + strays["S"].got - strays["X"].got
<1> USE DEF IInv
<1>1. /\ wallet \in Nat /\ slack \in Nat /\ Foreign \in Nat /\ book.spot \in Nat /\ book.dust \in Nat
      /\ Moved \in Nat /\ run.got \in Nat /\ run.out.filled \in Nat /\ run.out.fee \in Nat
      /\ The(orders, "S").filled \in Nat /\ The(orders, "S").fee \in Nat
      /\ The(orders, "X").filled \in Nat /\ Most(The(orders, "X")) \in Nat
      /\ The(orders, "X").filled <= Most(The(orders, "X"))
      /\ strays["S"].got \in Nat /\ strays["X"].got \in Nat /\ strays["X"].open \in Nat
    BY Numbers DEF Tags
<1>2. Held \in Int /\ Ours \in Int
    BY <1>1 DEF Held, Ours
<1>3. The(orders, "X").filled <= Held
  <2>1. CASE Work = "X"
    <3>1. Moved + Most(The(orders, "X")) <= run.want /\ run.want <= book.spot
        BY <2>1 DEF Moving, InBook
    <3>2. run.want \in Nat
        BY Numbers
    <3>3. Held = book.spot + book.dust + (- Moved)
        BY <2>1 DEF Held
    <3>. QED
        BY <1>1, <3>1, <3>2, <3>3
  <2>2. CASE Work = "S"
    <3>1. Most(The(orders, "X")) <= book.spot
        BY <2>2 DEF Moving
    <3>2. Moved - run.out.fee \in Nat
      <4>1. run.out.fee <= run.out.filled
          BY DEF Answers
      <4>2. Moved = run.got + run.out.filled
          BY DEF Moved
      <4>3. run.out.fee <= Moved
          BY <1>1, <4>1, <4>2
      <4>. QED
          BY <1>1, <4>3
    <3>3. Held = book.spot + book.dust + (Moved - run.out.fee)
        BY <2>2 DEF Held
    <3>. QED
        BY <1>1, <3>1, <3>2, <3>3
  <2>3. CASE Work \notin {"S", "X"}
    <3>1. Most(The(orders, "X")) <= book.spot
        BY <2>3 DEF Moving
    <3>2. Held = book.spot + book.dust + 0
        BY <2>3 DEF Held
    <3>. QED
        BY <1>1, <3>1, <3>2
  <2>. QED
      BY <2>1, <2>2, <2>3
<1>4. The(orders, "X").filled + strays["X"].got <= Held
  <2>1. CASE Quiet("X")
    <3>1. strays["X"].got = 0
        BY <2>1 DEF Quiet
    <3>. QED
        BY <1>1, <1>2, <1>3, <3>1
  <2>2. CASE ~Quiet("X")
    <3>1. ~Has(orders, "X") /\ strays["X"].open + strays["X"].got <= Held
        BY <2>2 DEF Astray
    <3>2. The(orders, "X").filled = 0
        BY <3>1, TheNone, NoOrderIs
    <3>. QED
        BY <1>1, <1>2, <3>1, <3>2
  <2>. QED
      BY <2>1, <2>2
<1>5. Ours - (strays["S"].got - strays["X"].got) - slack
        = Held + The(orders, "S").filled - The(orders, "S").fee - The(orders, "X").filled
    BY DEF Counted, Bought, Drift
<1>6. PICK a, b : /\ a = The(orders, "S").filled - The(orders, "S").fee - The(orders, "X").filled
                  /\ b = strays["S"].got - strays["X"].got
    OBVIOUS
<1>7. a \in Int /\ b \in Int
    BY <1>1, <1>6
<1>8. Ours - b - slack = Held + a
    BY <1>5, <1>6
<1>9. Ours = slack + Held + a + b
    BY <1>1, <1>2, <1>7, <1>8
<1>. QED
    BY <1>2, <1>4, <1>6, <1>9

LEMMA HedgedWhenDone == IInv /\ Astray => EndsHedged
<1> SUFFICES ASSUME IInv, Astray PROVE EndsHedged
    OBVIOUS
<1> USE DEF IInv
<1>1. EntryIsHedged
  <2>1. SUFFICES ASSUME Done, Entry, ~escalate PROVE short <= Ours + strays["P"].got
      BY DEF EntryIsHedged, Entry
  <2>2. run.pc = "done" /\ Work = "done"
      BY <2>1, WorkIs DEF Done
  <2>3. Held = book.spot + book.dust + 0
      BY <2>2 DEF Held
  <2>4. /\ Ours = slack + Held + (The(orders, "S").filled - The(orders, "S").fee)
                  - The(orders, "X").filled + strays["S"].got - strays["X"].got
        /\ The(orders, "X").filled + strays["X"].got <= Held
      BY <2>2, OursAre
  <2>5. /\ short \in Nat /\ slack \in Nat /\ book.spot \in Nat /\ book.dust \in Nat
        /\ The(orders, "S").filled - The(orders, "S").fee \in Nat
        /\ The(orders, "X").filled \in Nat
        /\ \A tag \in Tags : strays[tag].got \in Nat
      BY Numbers
  <2>6. Ours \in Nat /\ strays["P"].got \in Nat /\ strays["S"].got \in Nat
        /\ strays["X"].got \in Nat
      BY <2>3, <2>4, <2>5 DEF Tags
  <2>7. CASE Quiet("P")
    <3>1. short <= book.spot + book.dust
        BY <2>1, <2>2, <2>7 DEF Ended
    <3>2. The(orders, "X").filled = 0
        BY <2>1, TheNone, NoOrderIs DEF Placed
    <3>3. strays["X"].got = 0
        BY <2>1 DEF Astray, Quiet
    <3>4. Held <= Ours
        BY <2>3, <2>4, <2>5, <2>6, <3>2, <3>3
    <3>. QED
        BY <2>3, <2>5, <2>6, <3>1, <3>4
  <2>8. CASE ~Quiet("P")
    <3>1. short <= strays["P"].got
        BY <2>8 DEF Astray
    <3>. QED
        BY <2>5, <2>6, <3>1
  <2>. QED
      BY <2>7, <2>8
<1>2. ExitClosesShort
  <2>1. SUFFICES ASSUME Done, act.kind = "EXIT", act.legs # <<"spot">>, ~escalate
                 PROVE  short = 0
      BY DEF ExitClosesShort
  <2>2. ~Entry /\ Work = "done"
      BY <2>1, WorkIs DEF Done, Entry
  <2>3. "perp" \in Range(act.legs)
      BY <2>1, <2>2 DEF LegShort
  <2>4. Range(run.legs) = {}
      BY <2>2, LegsAre DEF Frame, Legs
  <2>. QED
      BY <2>1, <2>2, <2>3, <2>4 DEF LegShort
<1>. QED
    BY <1>1, <1>2 DEF EndsHedged

LEMMA WithinPlan == IInv /\ Astray => TradesWithinPlan
<1> SUFFICES ASSUME IInv, Astray PROVE TradesWithinPlan
    OBVIOUS
<1> USE DEF IInv
<1>1. /\ wallet \in Nat /\ slack \in Nat /\ Foreign \in Nat /\ short \in Nat
      /\ Rest(The(orders, "P")) \in Nat /\ Most(The(orders, "S")) \in Nat
      /\ The(orders, "S").filled \in Nat /\ The(orders, "S").fee \in Nat
      /\ The(orders, "S").filled <= Most(The(orders, "S"))
      /\ The(orders, "S").filled - The(orders, "S").fee \in Nat
      /\ The(orders, "X").filled \in Nat /\ strays["S"].open \in Nat
      /\ strays["S"].got \in Nat /\ strays["X"].got \in Nat
    BY Numbers DEF Tags
<1>2. EntryWithinPlan
  <2>1. SUFFICES ASSUME Entry
                 PROVE  short <= act.perp /\ Ours <= act.perp + MaxOf(FeeMax, SpotMin) + SpotMin + slack
      BY DEF EntryWithinPlan, Entry, MaxOf
  <2>2. act.perp = Quantity
      BY <2>1 DEF Frame
  <2>3. short <= Quantity
    <3>1. short + Rest(The(orders, "P")) <= Quantity
        BY <2>1 DEF InPlan
    <3>. QED
        BY <1>1, <3>1
  <2>4. MostCoins \in Nat /\ MostCoins = Quantity + MaxOf(FeeMax, SpotMin) + SpotMin
      BY DEF MostCoins
  <2>5. Ours - slack <= MostCoins
    <3>1. CASE run.pc = "failed"
      <4>1. Quiet("S") /\ Quiet("X")
          BY <2>1, <3>1 DEF Astray, Refused, Work
      <4>2. Bought = Ours - (0 - 0)
          BY <4>1 DEF Bought, Drift, Quiet
      <4>3. Ours \in Int
          BY <1>1 DEF Ours
      <4>4. Bought = Ours
          BY <4>2, <4>3
      <4>. QED
          BY <2>1, <3>1, <4>4 DEF InPlan
    <3>2. CASE run.pc # "failed"
      <4>1. Held + Most(The(orders, "S")) <= MostCoins
          BY <2>1, <3>2 DEF InPlan
      <4>2. /\ Held \in Int
            /\ Ours = slack + Held + (The(orders, "S").filled - The(orders, "S").fee)
                      - The(orders, "X").filled + strays["S"].got - strays["X"].got
          BY <3>2, OursAre
      <4>3. CASE Quiet("S")
        <5>1. strays["S"].got = 0
            BY <4>3 DEF Quiet
        <5>. QED
            BY <1>1, <2>4, <4>1, <4>2, <5>1
      <4>4. CASE ~Quiet("S")
        <5>1. ~Has(orders, "S") /\ Held + strays["S"].open + strays["S"].got <= MostCoins
            BY <4>4 DEF Astray
        <5>2. The(orders, "S").filled = 0 /\ The(orders, "S").fee = 0
            BY <5>1, TheNone, NoOrderIs
        <5>. QED
            BY <1>1, <2>4, <4>2, <5>1, <5>2
      <4>. QED
          BY <4>3, <4>4
    <3>. QED
        BY <3>1, <3>2
  <2>6. Ours <= MostCoins + slack
      BY <1>1, <2>4, <2>5 DEF Ours
  <2>. QED
      BY <2>2, <2>3, <2>4, <2>6
<1>3. ForeignKept
  <2>1. CASE run.pc = "failed"
      BY <2>1 DEF Counted, ForeignKept
  <2>2. CASE run.pc # "failed"
    <3>1. /\ Held \in Int /\ The(orders, "X").filled + strays["X"].got <= Held
          /\ Ours = slack + Held + (The(orders, "S").filled - The(orders, "S").fee)
                    - The(orders, "X").filled + strays["S"].got - strays["X"].got
        BY <2>2, OursAre
    <3>2. Ours >= 0
        BY <1>1, <3>1
    <3>. QED
        BY <1>1, <3>2 DEF Ours, ForeignKept
  <2>. QED
      BY <2>1, <2>2
<1>. QED
    BY <1>2, <1>3 DEF TradesWithinPlan

LEMMA ToldInBook == IInv /\ Astray => BookTells
<1> SUFFICES ASSUME IInv, Astray PROVE BookTells
    OBVIOUS
<1> USE DEF IInv
<1>1. ShortIsTracked
  <2>1. SUFFICES ASSUME Done, ~escalate
                 PROVE  /\ short <= book.perp + strays["P"].got
                        /\ short > strays["P"].got => book.status = "OPEN"
      BY DEF ShortIsTracked
  <2>2. short \in Nat /\ book.perp \in Nat /\ strays["P"].got \in Nat
      BY Numbers DEF Tags
  <2>3. CASE Quiet("P")
      BY <2>1, <2>2, <2>3 DEF Ended, Done, Quiet
  <2>4. CASE ~Quiet("P")
      BY <2>2, <2>4 DEF Astray
  <2>. QED
      BY <2>3, <2>4
<1>2. CoinsAreTracked
  <2>1. SUFFICES ASSUME Done, book.pending = {}
                 PROVE  LET known == book.spot + book.dust + strays["S"].got - strays["X"].got
                        IN known <= Ours /\ Ours <= known + slack
      BY DEF CoinsAreTracked
  <2>2. run.pc = "done" /\ Work = "done" /\ ~Asking
      BY <2>1, WorkIs DEF Done, Asking
  <2>3. ~Has(orders, "S") /\ ~Has(orders, "X")
      BY <2>1, <2>2 DEF Placed
  <2>4. /\ The(orders, "S").filled = 0 /\ The(orders, "S").fee = 0
        /\ The(orders, "X").filled = 0
      BY <2>3, TheNone, NoOrderIs
  <2>5. Held = book.spot + book.dust + 0
      BY <2>2 DEF Held
  <2>6. Ours = slack + Held + (0 - 0) - 0 + strays["S"].got - strays["X"].got
      BY <2>2, <2>4, OursAre
  <2>7. slack \in Nat /\ book.spot \in Nat /\ book.dust \in Nat
        /\ strays["S"].got \in Nat /\ strays["X"].got \in Nat
      BY Numbers DEF Tags
  <2>. QED
      BY <2>5, <2>6, <2>7
<1>. QED
    BY <1>1, <1>2 DEF BookTells

(* Every variable of a run keeps its type.                                 *)
THEOREM TypeCorrect == Spec => []ExecTypeOK
<1>1. IInv /\ Astray => ExecTypeOK
    BY DEF IInv
<1>. QED
    BY <1>1, Inductive, PTL

(* execute.py's R20, and its exits: a run that does not escalate leaves no *)
(* leg of its making open alone, for every exchange behaviour: orders      *)
(* lost, shown late, of unknown fate, filled in part, refused the second   *)
(* time; but for a short its entry opened that it takes for refused.       *)
THEOREM RunEndsHedged == Spec => []EndsHedged
BY HedgedWhenDone, Inductive, PTL

(* R24, decision 13.14: in no state has more been shorted or bought than   *)
(* was planned, nor a foreign coin been sold, whatever is resent, and      *)
(* whatever the exchange took while it refused it.                         *)
THEOREM RunTradesWithinPlan == Spec => []TradesWithinPlan
BY WithinPlan, Inductive, PTL

(* What a run leaves on the exchange is what it puts in the book, for the  *)
(* next cycle to know of it, but for exactly what the exchange took of     *)
(* orders the run was told were refused.                                   *)
THEOREM RunTellsTheBook == Spec => []BookTells
BY ToldInBook, Inductive, PTL
=============================================================================
