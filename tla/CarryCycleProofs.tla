--------------------------- MODULE CarryCycleProofs ---------------------------
(***************************************************************************)
(* Proofs about CarryCycle, for any size of position, any number of orders *)
(* of unknown fate and any number of interferences: the types, one         *)
(* position at a time, no leg left alone unsaid, the hedge of a lost book, *)
(* and the coins that are not ours.                                        *)
(***************************************************************************)
EXTENDS CarryCycle, SumsProofs

(* Between cycles nothing is remembered but the files; a leg is left to    *)
(* run; an entry starts from nothing.                                      *)
Phases ==
    /\ cycle.pc = "idle" => cycle.book = Empty
    /\ cycle.pc \in {"idle", "plan"} => ~cycle.known
    /\ cycle.pc \notin {"leg", "save"} => ~cycle.sold
    /\ cycle.pc = "plan" /\ cycle.book.status = "FLAT" => cycle.book = stored
    /\ cycle.pc \notin {"idle", "plan"} /\ cycle.good => cycle.known
    /\ cycle.pc = "leg" => cycle.legs # <<>>
    /\ cycle.pc = "enter" =>
          /\ short = 0 /\ cycle.act.perp = Quantity
          /\ cycle.act.spot <= cycle.book.dust /\ cycle.act.spot <= wallet
          /\ cycle.book.status = "FLAT"
    /\ cycle.pc \in {"buy", "cut"} => cycle.book.status = "OPEN" /\ cycle.entered > 0
    /\ cycle.pc = "buy" => cycle.book.pending = {} /\ cycle.book.spot <= cycle.entered
    /\ cycle.pc = "cut" => cycle.excess \in 1..cycle.entered

(* A FLAT book holds no spot and no journal.                               *)
NothingHeld(b) == b.status = "FLAT" => b.spot = 0 /\ b.pending = {}
FlatIsEmpty == NothingHeld(stored) /\ NothingHeld(cycle.book)

(* The hedge of a lost book: no cycle has it in its book, and what a cycle *)
(* is about to close is beyond it.                                         *)
LostKept ==
    lost > 0 /\ ~adopted =>
        /\ short >= lost /\ wallet >= lost /\ wallet > SpotMin
        /\ stored.status = "FLAT" /\ cycle.book.status = "FLAT"
        /\ cycle.pc \in {"idle", "plan", "leg", "save"}
        /\ cycle.pc = "leg" => /\ cycle.legs = <<"perp">> /\ cycle.act.kind = "REBALANCE"
                               /\ cycle.act.perp \in Nat /\ short - cycle.act.perp >= lost

(* What a book claims of the wallet: what it holds, and what the orders of *)
(* unknown fate have bought.                                               *)
Claim(f, b) == b.spot + b.dust + Traded(f, "Buy", b.pending)

(* Every sale is in the book, and no coin in it twice.                     *)
Heard == ~blind /\ ~doubled

(* Then the claims and the foreign coins are in the wallet: those of the   *)
(* running book, and those of the saved one until the cycle sells.         *)
Owned ==
    Heard =>
        /\ ~cycle.sold => foreign + Claim(fates, stored) <= wallet
        /\ foreign + Claim(fates, cycle.book) <= wallet

(* Dust is less than a sale, and no order adds to the spot beside it.      *)
Dusty(b) ==
    \/ b.dust = 0
    \/ b.dust + b.spot <= SpotMin /\ \A e \in b.pending : e.side # "Buy"
DustIsSmall == Heard => Dusty(stored) /\ Dusty(cycle.book)

DustIsUsed ==
    Heard /\ cycle.book.dust > 0 =>
        /\ cycle.pc = "enter" => cycle.act.spot = cycle.book.dust
        /\ cycle.pc = "buy" => cycle.entered <= cycle.book.spot

(* What the legs that are left will close, and sell.                       *)
ToClose(act, legs, b) == IF "perp" \in Range(legs) THEN PerpToClose(act, b) ELSE 0
ToSell(act, legs) == IF "spot" \in Range(legs) THEN act.spot ELSE 0

(* A short the coins bear.                                                 *)
Bearable(s, w) == s < w + PerpStep \/ (s - w) * 100 <= 2 * DriftPct * s

(* The legs leave such a short; or they leave a short, or no spot.         *)
Bears(act, legs, b) ==
    /\ ToClose(act, legs, b) \in 0..short /\ ToSell(act, legs) <= wallet
    /\ Bearable(short - ToClose(act, legs, b), wallet - ToSell(act, legs))
Settles(act, legs, b) ==
    \/ short > ToClose(act, legs, b)
    \/ MinOf(b.spot, wallet) < SpotMin
    \/ ToSell(act, legs) = MinOf(b.spot, wallet)

(* A cycle that read the account is on the way to a short the wallet       *)
(* bears.                                                                  *)
OnTheWay ==
    cycle.known =>
        /\ cycle.pc = "buy" => short = cycle.entered /\ cycle.book.spot <= wallet
        /\ cycle.pc = "cut" => short = cycle.entered /\ short - cycle.excess <= wallet
        /\ cycle.pc = "leg" /\ ~cycle.escalate =>
              Bears(cycle.act, cycle.legs, cycle.book)
        /\ cycle.pc = "save" /\ ~cycle.escalate => Bearable(short, wallet)

(* One that can also trade is on the way to either a short or no spot.     *)
Settling ==
    cycle.good /\ Heard =>
        /\ cycle.pc = "cut" /\ cycle.excess = cycle.entered => cycle.book.spot < PerpStep
        /\ cycle.pc = "leg" => Settles(cycle.act, cycle.legs, cycle.book)
        /\ cycle.pc = "save" /\ short = 0 =>
              \/ MinOf(cycle.book.spot, wallet) < SpotMin
              \/ cycle.book.spot < PerpStep

IInv == /\ CycleTypeOK /\ Phases /\ FlatIsEmpty /\ OnePosition /\ LostKept
        /\ Owned /\ DustIsSmall /\ DustIsUsed /\ OnTheWay /\ Settling

-----------------------------------------------------------------------------
USE BookAssumption, CycleAssumption DEF Unread, MinOf, MaxOf, Heard

(* The arithmetic of whole steps.                                          *)
LEMMA FloorIs ==
  ASSUME NEW x \in Nat, NEW step \in Nat \ {0}
  PROVE  /\ FloorTo(x, step) \in Nat /\ FloorTo(x, step) <= x
         /\ x < FloorTo(x, step) + step
<1>1. x \div step \in Nat
    OBVIOUS
<1>2. x = step * (x \div step) + (x % step) /\ (x % step) \in 0..step - 1
    OBVIOUS
<1>3. step * (x \div step) = (x \div step) * step /\ (x \div step) * step \in Nat
    BY <1>1
<1>. QED
    BY <1>2, <1>3 DEF FloorTo

LEMMA StepsAre ==
  ASSUME NEW q \in Nat, NEW x \in Steps(q)
  PROVE  x \in 0..q
<1>1. PICK n \in 0..q \div PerpStep : x = n * PerpStep
    BY DEF Steps
<1>2. q \div PerpStep \in Nat /\ FloorTo(q, PerpStep) <= q /\ FloorTo(q, PerpStep) \in Nat
    BY FloorIs
<1>3. n \in Nat /\ n <= q \div PerpStep
    BY <1>2
<1>4. n * PerpStep \in Nat /\ n * PerpStep <= (q \div PerpStep) * PerpStep
    BY <1>2, <1>3
<1>. QED
    BY <1>1, <1>2, <1>4 DEF FloorTo

LEMMA TargetIs ==
  ASSUME NEW filled \in Nat, NEW received \in Nat, NEW pending
  PROVE  /\ Target(filled, received, pending) \in 0..filled
         /\ Target(filled, received, pending) <= received
         /\ pending = {} /\ Target(filled, received, pending) = 0 /\ filled > 0
            => received < PerpStep
<1>1. /\ FloorTo(received, PerpStep) \in Nat /\ FloorTo(received, PerpStep) <= received
      /\ received < FloorTo(received, PerpStep) + PerpStep
    BY FloorIs
<1>. QED
    BY <1>1 DEF Target

-----------------------------------------------------------------------------
(* What the orders in a journal have traded.                               *)

FatesType(f) == DOMAIN f \subseteq Entry /\ f \in [DOMAIN f -> Nat]
Part(f, side, orders) ==
    [i \in 1..MaxPending |-> IF [side |-> side, id |-> i] \in orders
                             THEN f[[side |-> side, id |-> i]] ELSE 0]

LEMMA TradedIs ==
  ASSUME NEW f, NEW side, NEW orders
  PROVE  Traded(f, side, orders) = Sum(Part(f, side, orders), MaxPending)
  BY DEF Traded, Part

LEMMA PartNat ==
  ASSUME NEW f, FatesType(f), NEW side, NEW orders \in SUBSET DOMAIN f
  PROVE  \A i \in 1..MaxPending : Part(f, side, orders)[i] \in Nat
  BY DEF Part, FatesType

LEMMA TradedNat ==
  ASSUME NEW f, FatesType(f), NEW side, NEW orders \in SUBSET DOMAIN f
  PROVE  Traded(f, side, orders) \in Nat
  BY PartNat, SumNat, TradedIs

(* A part of the journal and the rest of it.                               *)
LEMMA TradedSplit ==
  ASSUME NEW f, FatesType(f), NEW side, NEW orders \in SUBSET DOMAIN f,
         NEW read \in SUBSET orders
  PROVE  Traded(f, side, orders) = Traded(f, side, read) + Traded(f, side, orders \ read)
<1> DEFINE a == Part(f, side, read)
           b == Part(f, side, orders \ read)
           c == Part(f, side, orders)
<1>1. \A i \in 1..MaxPending : a[i] \in Nat /\ b[i] \in Nat /\ c[i] \in Nat
    BY PartNat
<1>2. \A i \in 1..MaxPending : c[i] = a[i] + b[i]
    BY <1>1 DEF Part
<1> HIDE DEF a, b, c
<1>3. Sum(c, MaxPending) = Sum(a, MaxPending) + Sum(b, MaxPending)
    BY <1>1, <1>2, SumAdd
<1>. QED
    BY <1>3, TradedIs DEF a, b, c

LEMMA TradedNothing ==
  ASSUME NEW f, NEW side, NEW orders, \A e \in orders : e.side # side
  PROVE  Traded(f, side, orders) = 0
<1>1. \A i \in 1..MaxPending : [side |-> side, id |-> i] \notin orders
    OBVIOUS
<1>2. \A i \in 1..MaxPending : Part(f, side, orders)[i] = 0
    BY <1>1 DEF Part
<1>. QED
    BY <1>2, SumZero, TradedIs

(* Orders that keep their fates have traded what they had.                 *)
LEMMA TradedSame ==
  ASSUME NEW f, NEW g, NEW side, NEW orders, \A e \in orders : g[e] = f[e]
  PROVE  Traded(g, side, orders) = Traded(f, side, orders)
<1>1. Part(g, side, orders) = Part(f, side, orders)
    BY DEF Part
<1>. QED
    BY <1>1, TradedIs

LEMMA TradedOne ==
  ASSUME NEW f, NEW e \in Entry, f[e] \in Nat
  PROVE  Traded(f, e.side, {e}) = f[e]
<1> DEFINE a == Part(f, e.side, {})
           b == Part(f, e.side, {e})
<1>1. e = [side |-> e.side, id |-> e.id] /\ e.id \in 1..MaxPending
    BY DEF Entry
<1>2. \A i \in 1..MaxPending : a[i] = 0
    BY DEF Part
<1>3. b[e.id] = f[e] /\ \A i \in 1..MaxPending : i # e.id => b[i] = 0
    BY <1>1 DEF Part
<1> HIDE DEF a, b
<1>4. Sum(b, MaxPending) = Sum(a, MaxPending) + b[e.id] - a[e.id]
  <2>1. \A i \in 1..MaxPending : a[i] \in Int /\ b[i] \in Int
      BY <1>1, <1>2, <1>3
  <2>2. \A i \in 1..MaxPending : i # e.id => a[i] = b[i]
      BY <1>2, <1>3
  <2> DEFINE c == e.id
  <2>3. c \in 1..MaxPending /\ MaxPending \in Nat
      BY <1>1
  <2>4. \A i \in 1..MaxPending : i # c => a[i] = b[i]
      BY <2>2
  <2> HIDE DEF c
  <2>5. Sum(b, MaxPending) = Sum(a, MaxPending) + b[c] - a[c]
      BY ONLY <2>1, <2>3, <2>4, SumChange
  <2>. QED
      BY <2>5 DEF c
<1>5. Sum(a, MaxPending) = 0
    BY <1>2, SumZero
<1>. QED
    BY <1>1, <1>2, <1>3, <1>4, <1>5, TradedIs DEF b

(* A new order adds what it has traded, on its own side.                   *)
LEMMA OneMore ==
  ASSUME FatesType(fates), NEW e \in Entry, e \notin DOMAIN fates, NEW n \in Nat,
         fates' = Fated(e, n), NEW old \in SUBSET DOMAIN fates
  PROVE  /\ FatesType(fates') /\ DOMAIN fates' = DOMAIN fates \cup {e}
         /\ Traded(fates', "Buy", old) = Traded(fates, "Buy", old)
         /\ e.side = "Buy" => Traded(fates', "Buy", {e}) = n
         /\ e.side # "Buy" => Traded(fates', "Buy", old \cup {e}) = Traded(fates, "Buy", old)
<1> DEFINE g == Fated(e, n)
<1>1. DOMAIN g = DOMAIN fates \cup {e} /\ g[e] = n /\ \A x \in DOMAIN fates : g[x] = fates[x]
    BY DEF Fated
<1>2. FatesType(g)
    BY DEF FatesType, Fated
<1> HIDE DEF g
<1>3. Traded(g, "Buy", old) = Traded(fates, "Buy", old)
    BY <1>1, TradedSame
<1>4. e.side = "Buy" => Traded(g, "Buy", {e}) = n
  <2>1. Traded(g, e.side, {e}) = n
      BY <1>1, TradedOne
  <2>. QED
      BY <2>1
<1>5. e.side # "Buy" => Traded(g, "Buy", {e}) = 0
    BY TradedNothing
<1>6. old \cup {e} \in SUBSET DOMAIN g /\ {e} \in SUBSET (old \cup {e})
      /\ (old \cup {e}) \ {e} = old
    BY <1>1
<1>7. Traded(g, "Buy", old \cup {e}) = Traded(g, "Buy", {e}) + Traded(g, "Buy", old)
    BY <1>2, <1>6, TradedSplit
<1>8. Traded(fates, "Buy", old) \in Nat
    BY TradedNat
<1>9. fates' = g
    BY DEF g
<1>. QED
    BY <1>1, <1>2, <1>3, <1>4, <1>5, <1>7, <1>8, <1>9

LEMMA NewEntryIs ==
  ASSUME NEW side \in {"Buy", "Sell"}, Room
  PROVE  NewEntry(side) \in Entry /\ NewEntry(side) \notin DOMAIN fates /\ NewEntry(side).side = side
  BY DEF NewEntry, Room, FreeIds, Entry

(* What the exchange forgets of the orders that are no longer in a journal. *)
LEMMA RestrictIs ==
  ASSUME FatesType(fates), NEW orders \in SUBSET DOMAIN fates
  PROVE  /\ FatesType(Restrict(fates, orders)) /\ DOMAIN Restrict(fates, orders) = orders
         /\ Traded(Restrict(fates, orders), "Buy", orders) = Traded(fates, "Buy", orders)
<1>1. \A e \in orders : Restrict(fates, orders)[e] = fates[e]
    BY DEF Restrict
<1>2. Traded(Restrict(fates, orders), "Buy", orders) = Traded(fates, "Buy", orders)
    BY <1>1, TradedSame
<1>3. DOMAIN Restrict(fates, orders) = orders
    BY DEF Restrict
<1>4. FatesType(Restrict(fates, orders))
    BY <1>3 DEF FatesType, Restrict
<1>. QED
    BY <1>2, <1>3, <1>4

-----------------------------------------------------------------------------
(* The arithmetic of the book.                                             *)

(* The same coins in the book, as spot or as dust.                         *)
SameCoins(p, b) ==
    /\ p \in Book /\ p.spot <= b.spot /\ p.spot + p.dust = b.spot + b.dust
    /\ p.pending = b.pending
    /\ NothingHeld(b) => NothingHeld(p)
    /\ Dusty(b) => Dusty(p)

LEMMA PerpIs ==
  ASSUME NEW b \in Book, NEW x \in Nat
  PROVE  SameCoins([b EXCEPT !.perp = x], b) /\ [b EXCEPT !.perp = x].spot = b.spot
         /\ [b EXCEPT !.perp = x].status = b.status
  BY DEF SameCoins, Book, NothingHeld, Dusty

LEMMA SettledIs ==
  ASSUME NEW b \in Book
  PROVE  SameCoins(Settled(b), b) /\ SameCoins(Fresh(b), b)
<1>1. SameCoins(Fresh(b), b)
    BY DEF SameCoins, Fresh, Book, NothingHeld, Dusty
<1>2. CASE Gone(b)
  <2>1. Settled(b) = [b EXCEPT !.status = "FLAT", !.perp = 0, !.spot = 0, !.dust = @ + b.spot]
      BY <1>2 DEF Settled
  <2>2. Settled(b) \in Book
    <3>1. b.dust + b.spot \in Nat
        BY DEF Book
    <3> DEFINE n == b.dust + b.spot
    <3>2. [b EXCEPT !.status = "FLAT", !.perp = 0, !.spot = 0, !.dust = n] \in Book
      <4> HIDE DEF n
      <4>1. n \in Nat
          BY <3>1 DEF n
      <4>. QED
          BY <4>1 DEF Book
    <3>. QED
        BY <2>1, <3>2
  <2>3. /\ Settled(b).spot = 0 /\ Settled(b).dust = b.dust + b.spot
        /\ Settled(b).pending = b.pending /\ b.pending = {} /\ b.spot < SpotMin
        /\ b.spot \in Nat /\ b.dust \in Nat
      BY <1>2, <2>1 DEF Book, Gone
  <2>. QED
      BY <1>1, <2>2, <2>3 DEF SameCoins, NothingHeld, Dusty
<1>3. CASE ~Gone(b)
    BY <1>1, <1>3 DEF Settled, SameCoins, Book
<1>. QED
    BY <1>2, <1>3

LEMMA SameCoinsTwice ==
  ASSUME NEW b \in Book, NEW p, NEW q, SameCoins(p, b), SameCoins(q, p)
  PROVE  SameCoins(q, b)
  BY DEF SameCoins, Book

LEMMA ClosedIs ==
  ASSUME NEW b \in Book, NEW x \in Nat
  PROVE  SameCoins(Fresh(Settled([b EXCEPT !.perp = x])), b)
<1> DEFINE p == [b EXCEPT !.perp = x]
<1>1. p \in Book /\ SameCoins(p, b)
    BY PerpIs DEF SameCoins
<1> HIDE DEF p
<1>2. SameCoins(Settled(p), p)
    BY <1>1, SettledIs
<1>3. Settled(p) \in Book
    BY <1>2 DEF SameCoins
<1>4. SameCoins(Fresh(Settled(p)), Settled(p))
    BY <1>3, SettledIs
<1>5. SameCoins(Fresh(Settled(p)), p)
    BY <1>1, <1>2, <1>4, SameCoinsTwice
<1>. QED
    BY <1>1, <1>5, SameCoinsTwice DEF p

LEMMA ExitedIs ==
  ASSUME NEW act, NEW b \in Book
  PROVE  SameCoins(Fresh(Exited(act, b)), b)
<1>1. b = [b EXCEPT !.perp = b.perp] /\ b.perp \in Nat
    BY DEF Book
<1>2. \/ Exited(act, b) = Settled([b EXCEPT !.perp = 0])
      \/ Exited(act, b) = Settled([b EXCEPT !.perp = b.perp])
    BY <1>1 DEF Exited
<1>. QED
    BY <1>1, <1>2, ClosedIs

LEMMA ClaimNat ==
  ASSUME FatesType(fates), NEW b \in Book, b.pending \subseteq DOMAIN fates
  PROVE  Claim(fates, b) \in Nat
<1>1. Traded(fates, "Buy", b.pending) \in Nat
    BY TradedNat
<1>. QED
    BY <1>1 DEF Claim, Book

(* resolve_pending moves what the orders have traded into the spot: the    *)
(* book claims no more than before.                                        *)
LEMMA ResolvedIs ==
  ASSUME FatesType(fates), NEW b \in Book, b.pending \subseteq DOMAIN fates,
         NEW read \in SUBSET b.pending, NothingHeld(b),
         NEW r, r = Resolved(b, read)
  PROVE  /\ r \in Book /\ r.pending \subseteq b.pending
         /\ Claim(fates, r) <= Claim(fates, b)
         /\ NothingHeld(r) /\ r.status = b.status
         /\ Dusty(b) => Dusty(r)
<1> DEFINE bought == Traded(fates, "Buy", read)
           sold == Traded(fates, "Sell", read)
           spot == MaxOf(0, b.spot + bought - sold)
           left == b.pending \ read
<1>0. b.pending \in SUBSET DOMAIN fates /\ read \in SUBSET DOMAIN fates /\ left \in SUBSET DOMAIN fates
    OBVIOUS
<1>1. bought \in Nat /\ sold \in Nat /\ Traded(fates, "Buy", left) \in Nat
    BY <1>0, TradedNat
<1>2. Traded(fates, "Buy", b.pending) = bought + Traded(fates, "Buy", left)
    BY <1>0, TradedSplit
<1>3. b.spot \in Nat /\ b.dust \in Nat /\ b.pending \subseteq Entry
    BY DEF Book
<1>4. spot \in Nat /\ spot <= b.spot + bought
    BY <1>1, <1>3
<1>5. CASE b.pending = {}
  <2>1. r = b
      BY <1>5 DEF Resolved
  <2>2. Claim(fates, b) \in Nat
      BY ClaimNat
  <2>3. Claim(fates, r) = Claim(fates, b)
      BY <2>1
  <2>. QED
      BY <2>1, <2>2
<1>6. CASE b.pending # {}
  <2>1. b.status = "OPEN"
      BY <1>6 DEF NothingHeld, Book
  <2> HIDE DEF spot, left
  <2>2. r = [b EXCEPT !.spot = spot, !.pending = left, !.status = "OPEN"]
      BY <1>6, <2>1 DEF Resolved, spot, left, bought, sold, Book
  <2>3. left \subseteq Entry
      BY <1>3 DEF left
  <2>4. /\ r \in Book /\ r.spot = spot /\ r.dust = b.dust /\ r.pending = left
        /\ r.status = "OPEN"
      BY <2>2, <2>3, <1>4 DEF Book

  <2>5. Claim(fates, r) <= Claim(fates, b)
    <3> HIDE DEF bought
    <3>. QED
      BY <1>1, <1>2, <1>3, <1>4, <2>4 DEF Claim
  <2>6. ASSUME Dusty(b), b.dust # 0 PROVE Dusty(r)
    <3>1. b.dust + b.spot <= SpotMin /\ \A e \in b.pending : e.side # "Buy"
        BY <2>6 DEF Dusty
    <3>2. bought = 0
        BY <3>1, TradedNothing
    <3>. QED
        BY <3>1, <3>2, <1>3, <1>4, <2>4 DEF Dusty, left
  <2>. QED
      BY <2>1, <2>4, <2>5, <2>6 DEF NothingHeld, Dusty, left
<1>. QED
    BY <1>5, <1>6

-----------------------------------------------------------------------------
LEMMA EmptyIs ==
  /\ Empty \in Book /\ NothingHeld(Empty) /\ Dusty(Empty) /\ Empty.status = "FLAT"
  /\ Empty.pending = {} /\ Empty.spot = 0 /\ Empty.dust = 0
  /\ \A f : Claim(f, Empty) = 0
<1>1. /\ Empty \in Book /\ NothingHeld(Empty) /\ Dusty(Empty) /\ Empty.status = "FLAT"
      /\ Empty.pending = {} /\ Empty.spot = 0 /\ Empty.dust = 0
    BY DEF Empty, Book, NothingHeld, Dusty
<1>2. ASSUME NEW f PROVE Claim(f, Empty) = 0
    BY <1>1, TradedNothing DEF Claim
<1>. QED
    BY <1>1, <1>2

LEMMA NoActionIs == NoAction \in Action
  BY DEF NoAction, Action, Legs

LEMMA IdleIs ==
  /\ Idle \in Cycle /\ Idle.pc = "idle" /\ Idle.book = Empty /\ Idle.known = FALSE /\ Idle.sold = FALSE
  /\ Idle.legs = <<>> /\ Idle.act = NoAction
  BY EmptyIs, NoActionIs DEF Idle, Cycle, Legs

LEMMA NoFatesIs == FatesType(NoFates) /\ DOMAIN NoFates = {}
  BY DEF NoFates, FatesType

LEMMA InitInv == Init => IInv
<1> SUFFICES ASSUME Init PROVE IInv
    OBVIOUS
<1>1. /\ short = 0 /\ wallet = 0 /\ fates = NoFates /\ stored = Empty /\ cycle = Idle
      /\ calm = FALSE /\ faults = 0 /\ foreign = 0 /\ blind = FALSE
      /\ doubled = FALSE /\ lost = 0
      /\ adopted = FALSE
    BY DEF Init
<1>2. CycleTypeOK
  <2>1. DOMAIN fates \subseteq Entry /\ fates \in [DOMAIN fates -> Nat]
      BY <1>1, NoFatesIs DEF FatesType
  <2>2. stored \in Book /\ stored.pending \subseteq DOMAIN fates
        /\ cycle \in Cycle /\ cycle.book.pending \subseteq DOMAIN fates
      BY <1>1, EmptyIs, IdleIs
  <2>3. short \in Nat /\ wallet \in Nat /\ foreign \in Nat /\ lost \in Nat
        /\ faults \in 0..MaxFaults
      BY <1>1
  <2>4. calm \in BOOLEAN /\ blind \in BOOLEAN /\ doubled \in BOOLEAN /\ adopted \in BOOLEAN
      BY <1>1
  <2>. QED
      BY <2>1, <2>2, <2>3, <2>4 DEF CycleTypeOK
<1>3. Phases /\ FlatIsEmpty /\ OnePosition /\ LostKept
    BY <1>1, EmptyIs, IdleIs DEF Phases, FlatIsEmpty, OnePosition, LostKept
<1>4. Owned /\ DustIsSmall
    BY <1>1, EmptyIs, IdleIs DEF Owned, DustIsSmall
<1>5. DustIsUsed /\ OnTheWay /\ Settling
    BY <1>1, EmptyIs, IdleIs DEF DustIsUsed, OnTheWay, Settling
<1>. QED
    BY <1>2, <1>3, <1>4, <1>5 DEF IInv

(* What the types say of the parts of the state.                           *)
LEMMA Numbers ==
  ASSUME CycleTypeOK
  PROVE  /\ short \in Nat /\ wallet \in Nat /\ foreign \in Nat /\ lost \in Nat
         /\ FatesType(fates)
         /\ stored \in Book /\ stored.pending \in SUBSET DOMAIN fates
         /\ cycle \in Cycle /\ cycle.book \in Book
         /\ cycle.book.pending \in SUBSET DOMAIN fates
         /\ Claim(fates, stored) \in Nat /\ Claim(fates, cycle.book) \in Nat
<1>1. /\ short \in Nat /\ wallet \in Nat /\ foreign \in Nat /\ lost \in Nat
      /\ FatesType(fates)
      /\ stored \in Book /\ stored.pending \in SUBSET DOMAIN fates
      /\ cycle \in Cycle /\ cycle.book \in Book
      /\ cycle.book.pending \in SUBSET DOMAIN fates
    BY DEF CycleTypeOK, FatesType, Cycle
<1>2. ASSUME NEW b \in Book, b.pending \in SUBSET DOMAIN fates
      PROVE  Claim(fates, b) \in Nat
  <2>1. Traded(fates, "Buy", b.pending) \in Nat
      BY <1>1, <1>2, TradedNat
  <2>. QED
      BY <2>1 DEF Claim, Book
<1>. QED
    BY <1>1, <1>2

(* With every sale in the book, the foreign coins are in the wallet.       *)
LEMMA ForeignIsThere ==
  ASSUME CycleTypeOK, Owned, Heard
  PROVE  foreign <= wallet
<1>1. foreign + Claim(fates, cycle.book) <= wallet
    BY DEF Owned
<1>. QED
    BY <1>1, Numbers

(* Between cycles, little is left to say.                                  *)
LEMMA AtRest ==
  ASSUME CycleTypeOK', cycle' = Idle
  PROVE  Phases' /\ DustIsUsed' /\ OnTheWay' /\ Settling'
  BY IdleIs DEF Phases, DustIsUsed, OnTheWay, Settling

-----------------------------------------------------------------------------
(* The world.                                                              *)

LEMMA ArriveKeeps == IInv /\ Arrive => IInv'
<1> SUFFICES ASSUME IInv, Arrive PROVE IInv'
    OBVIOUS
<1> USE DEF IInv
<1>1. /\ wallet' = wallet + Deposit /\ foreign = 0 /\ foreign' = Deposit
      /\ UNCHANGED <<short, fates, stored, blind, doubled, lost, adopted, calm>>
      /\ faults < MaxFaults /\ faults' = faults + 1
    BY DEF Arrive, Interferes
<1>2. cycle' \in Cycle
    BY Numbers DEF Arrive, Cycle
<1>3. /\ cycle'.pc = cycle.pc /\ cycle'.book = cycle.book /\ cycle'.act = cycle.act
      /\ cycle'.legs = cycle.legs /\ cycle'.entered = cycle.entered
      /\ cycle'.excess = cycle.excess /\ cycle'.escalate = cycle.escalate
      /\ cycle'.good = FALSE /\ cycle'.known = FALSE /\ cycle'.sold = cycle.sold
    BY Numbers DEF Arrive, Cycle
<1>4. CycleTypeOK'
    BY <1>1, <1>2, <1>3 DEF CycleTypeOK
<1>5. Phases'
  <2>1. cycle.act.spot \in Nat /\ wallet \in Nat /\ wallet' \in Nat /\ wallet <= wallet'
      BY <1>1, Numbers DEF Cycle, Action
  <2>2. cycle.pc = "enter" => cycle.act.spot <= wallet'
      BY <2>1 DEF Phases
  <2>. QED
      BY <1>1, <1>3, <2>2 DEF Phases
<1>51. FlatIsEmpty' /\ OnePosition' /\ DustIsSmall'
    BY <1>1, <1>3 DEF FlatIsEmpty, OnePosition, DustIsSmall
<1>6. LostKept'
    BY <1>1, <1>3, Numbers DEF LostKept
<1>7. Owned'
    BY <1>1, <1>3, Numbers DEF Owned
<1>8. DustIsUsed' /\ OnTheWay' /\ Settling'
    BY <1>1, <1>3 DEF DustIsUsed, OnTheWay, Settling
<1>. QED
    BY <1>4, <1>5, <1>51, <1>6, <1>7, <1>8

LEMMA DeleverageKeeps == IInv /\ Deleverage => IInv'
<1> SUFFICES ASSUME IInv, Deleverage PROVE IInv'
    OBVIOUS
<1> USE DEF IInv
<1>1. /\ short' = short - PerpStep /\ short >= PerpStep /\ lost' = 0 /\ adopted' = FALSE
      /\ UNCHANGED <<wallet, fates, stored, foreign, blind, doubled, calm>>
      /\ faults < MaxFaults /\ faults' = faults + 1
    BY DEF Deleverage, Interferes
<1>2. cycle' \in Cycle
    BY Numbers DEF Deleverage, Cycle
<1>3. /\ cycle'.pc = cycle.pc /\ cycle'.book = cycle.book /\ cycle'.act = cycle.act
      /\ cycle'.legs = cycle.legs /\ cycle'.entered = cycle.entered
      /\ cycle'.excess = cycle.excess /\ cycle'.escalate = cycle.escalate
      /\ cycle'.good = FALSE /\ cycle'.known = FALSE /\ cycle'.sold = cycle.sold
    BY Numbers DEF Deleverage, Cycle
<1>4. short' \in Nat /\ short' < short
    BY <1>1, Numbers
<1>5. CycleTypeOK'
  <2>0. faults \in 0..MaxFaults
      BY DEF CycleTypeOK
  <2>1. lost' \in Nat /\ faults' \in 0..MaxFaults
      BY <1>1, <2>0
  <2>3. adopted' \in BOOLEAN
      BY <1>1
  <2>2. cycle'.book.pending \subseteq DOMAIN fates'
      BY <1>1, <1>3 DEF CycleTypeOK
  <2>. QED
      BY <1>1, <1>2, <1>4, <2>1, <2>2, <2>3 DEF CycleTypeOK
<1>6. Phases'
  <2>1. cycle.pc # "enter"
      BY <1>1 DEF Phases
  <2>. QED
      BY <1>1, <1>3, <2>1 DEF Phases
<1>7. FlatIsEmpty' /\ OnePosition' /\ DustIsSmall' /\ LostKept' /\ Owned'
    BY <1>1, <1>3, <1>4, Numbers DEF FlatIsEmpty, OnePosition, DustIsSmall, LostKept, Owned
<1>8. DustIsUsed' /\ OnTheWay' /\ Settling'
    BY <1>1, <1>3 DEF DustIsUsed, OnTheWay, Settling
<1>. QED
    BY <1>5, <1>6, <1>7, <1>8

LEMMA LoseBookKeeps == IInv /\ LoseBook => IInv'
<1> SUFFICES ASSUME IInv, LoseBook PROVE IInv'
    OBVIOUS
<1> USE DEF IInv
<1>1. /\ cycle.pc = "idle" /\ stored' = Empty /\ fates' = NoFates
      /\ lost' = IF wallet > SpotMin THEN MinOf(short, wallet) ELSE 0
      /\ adopted' = FALSE /\ UNCHANGED <<short, wallet, cycle, foreign, blind, doubled, calm>>
      /\ faults < MaxFaults /\ faults' = faults + 1
    BY DEF LoseBook, Interferes
<1>2. cycle.book = Empty
    BY <1>1 DEF Phases
<1>3. CycleTypeOK'
  <2>1. lost' \in Nat /\ faults' \in 0..MaxFaults
      BY <1>1, Numbers DEF CycleTypeOK
  <2>2. DOMAIN fates' \subseteq Entry /\ fates' \in [DOMAIN fates' -> Nat]
      BY <1>1, NoFatesIs DEF FatesType
  <2>3. stored' \in Book /\ stored'.pending = {} /\ cycle'.book.pending = {}
      BY <1>1, <1>2, EmptyIs
  <2>. QED
      BY <1>1, <2>1, <2>2, <2>3 DEF CycleTypeOK
<1>4. Phases' /\ OnePosition' /\ DustIsUsed' /\ OnTheWay' /\ Settling'
  <2>1. Phases' /\ OnePosition'
      BY <1>1 DEF Phases, OnePosition
  <2>2. DustIsUsed' /\ OnTheWay' /\ Settling'
      BY <1>1 DEF Phases, DustIsUsed, OnTheWay, Settling
  <2>. QED
      BY <2>1, <2>2
<1>5. FlatIsEmpty' /\ DustIsSmall'
    BY <1>1, <1>2, EmptyIs DEF FlatIsEmpty, DustIsSmall
<1>6. LostKept'
    BY <1>1, <1>2, EmptyIs, Numbers DEF LostKept
<1>7. Owned'
  <2>1. Heard => foreign <= wallet
      BY ForeignIsThere
  <2>2. Claim(fates', stored') = 0 /\ Claim(fates', cycle'.book) = 0
      BY <1>1, <1>2, EmptyIs
  <2>. QED
      BY <1>1, <2>1, <2>2, Numbers DEF Owned
<1>. QED
    BY <1>3, <1>4, <1>5, <1>6, <1>7

LEMMA KilledKeeps == IInv /\ Killed => IInv'
<1> SUFFICES ASSUME IInv, Killed PROVE IInv'
    OBVIOUS
<1> USE DEF IInv
<1>1. /\ fates' = Restrict(fates, stored.pending) /\ cycle' = Idle
      /\ blind' = (blind \/ cycle.sold)
      /\ UNCHANGED <<short, wallet, stored, foreign, doubled, lost, adopted, calm>>
      /\ faults < MaxFaults /\ faults' = faults + 1
    BY DEF Killed, Interferes
<1>2. /\ FatesType(fates') /\ DOMAIN fates' = stored.pending
      /\ Traded(fates', "Buy", stored.pending) = Traded(fates, "Buy", stored.pending)
    BY <1>1, Numbers, RestrictIs
<1>3. CycleTypeOK'
    BY <1>1, <1>2, IdleIs, EmptyIs DEF CycleTypeOK, FatesType
<1>4. Phases' /\ DustIsUsed' /\ OnTheWay' /\ Settling'
    BY <1>1, <1>3, AtRest
<1>5. FlatIsEmpty' /\ OnePosition' /\ DustIsSmall'
    BY <1>1, EmptyIs, IdleIs DEF FlatIsEmpty, OnePosition, DustIsSmall
<1>6. LostKept'
    BY <1>1, EmptyIs, IdleIs DEF LostKept
<1>7. Owned'
  <2>1. Heard => foreign <= wallet
      BY ForeignIsThere
  <2>2. Claim(fates', stored') = Claim(fates, stored) /\ Claim(fates', cycle'.book) = 0
      BY <1>1, <1>2, EmptyIs, IdleIs DEF Claim
  <2>3. Heard' => Heard /\ ~cycle.sold
      BY <1>1
  <2>4. Heard' => foreign + Claim(fates, stored) <= wallet
      BY <2>3 DEF Owned
  <2>. QED
      BY <1>1, <2>1, <2>2, <2>3, <2>4, Numbers DEF Owned
<1>. QED
    BY <1>3, <1>4, <1>5, <1>6, <1>7

-----------------------------------------------------------------------------
(* The cycle's first and last steps.                                       *)

LEMMA SaveKeeps == IInv /\ Save => IInv'
<1> SUFFICES ASSUME IInv, Save PROVE IInv'
    OBVIOUS
<1> USE DEF IInv
<1>1. /\ cycle.pc = "save" /\ stored' = cycle.book
      /\ fates' = Restrict(fates, cycle.book.pending) /\ cycle' = Idle
      /\ UNCHANGED <<short, wallet, faults, calm, foreign, blind, doubled, lost, adopted>>
    BY DEF Save, world, history
<1>2. /\ FatesType(fates') /\ DOMAIN fates' = cycle.book.pending
      /\ Traded(fates', "Buy", cycle.book.pending) = Traded(fates, "Buy", cycle.book.pending)
    BY <1>1, Numbers, RestrictIs
<1>3. CycleTypeOK'
    BY <1>1, <1>2, Numbers, IdleIs, EmptyIs DEF CycleTypeOK, FatesType
<1>4. Phases' /\ DustIsUsed' /\ OnTheWay' /\ Settling'
    BY <1>1, <1>3, AtRest
<1>5. FlatIsEmpty' /\ OnePosition' /\ DustIsSmall'
    BY <1>1, EmptyIs, IdleIs DEF FlatIsEmpty, OnePosition, DustIsSmall
<1>6. LostKept'
    BY <1>1, EmptyIs, IdleIs DEF LostKept
<1>7. Owned'
  <2>1. Heard => foreign <= wallet
      BY ForeignIsThere
  <2>2. Claim(fates', stored') = Claim(fates, cycle.book) /\ Claim(fates', cycle'.book) = 0
      BY <1>1, <1>2, EmptyIs, IdleIs DEF Claim
  <2>. QED
      BY <1>1, <2>1, <2>2, Numbers DEF Owned
<1>. QED
    BY <1>3, <1>4, <1>5, <1>6, <1>7

LEMMA BeginKeeps == IInv /\ Begin => IInv'
<1> SUFFICES ASSUME IInv, Begin PROVE IInv'
    OBVIOUS
<1> USE DEF IInv
<1>1. /\ cycle.pc = "idle"
      /\ UNCHANGED <<short, wallet, fates, stored, faults, calm, foreign, blind, doubled, lost, adopted>>
    BY DEF Begin, exchange, world, history
<1>2. PICK read \in SUBSET stored.pending :
         cycle' = [Idle EXCEPT !.pc = "plan", !.book = Resolved(stored, read),
                               !.good = (read = stored.pending)]
    BY DEF Begin
<1> DEFINE r == Resolved(stored, read)
<1>3. /\ r \in Book /\ r.pending \subseteq stored.pending
      /\ Claim(fates, r) <= Claim(fates, stored)
      /\ NothingHeld(r) /\ r.status = stored.status
      /\ Dusty(stored) => Dusty(r)
    BY Numbers, ResolvedIs DEF FlatIsEmpty
<1> HIDE DEF r
<1>4. cycle' = [Idle EXCEPT !.pc = "plan", !.book = r, !.good = (read = stored.pending)]
    BY <1>2 DEF r
<1>5. cycle' \in Cycle /\ cycle'.pc = "plan" /\ cycle'.book = r /\ cycle'.known = FALSE
      /\ cycle'.sold = FALSE
    BY <1>3, <1>4, IdleIs DEF Cycle
<1>6. CycleTypeOK'
    BY <1>1, <1>3, <1>5 DEF CycleTypeOK
<1>61. r.status = "FLAT" => r = stored
    BY <1>3 DEF r, Resolved, FlatIsEmpty, NothingHeld
<1>7. Phases' /\ DustIsUsed' /\ OnTheWay' /\ Settling'
    BY <1>1, <1>5, <1>61 DEF Phases, DustIsUsed, OnTheWay, Settling
<1>8. FlatIsEmpty' /\ OnePosition' /\ DustIsSmall'
    BY <1>1, <1>3, <1>5 DEF FlatIsEmpty, OnePosition, DustIsSmall
<1>9. LostKept'
    BY <1>1, <1>3, <1>5 DEF LostKept
<1>10. Owned'
  <2>1. Claim(fates, r) \in Nat
      BY <1>3, Numbers, ClaimNat
  <2>. QED
      BY <1>1, <1>3, <1>5, <2>1, Numbers DEF Owned, Phases
<1>. QED
    BY <1>6, <1>7, <1>8, <1>9, <1>10

-----------------------------------------------------------------------------
(* The last steps of a cycle.                                              *)

LEMMA DoneIs ==
  ASSUME NEW c \in Cycle, NEW d, d = Done(c)
  PROVE  /\ d \in Cycle /\ d.pc = "save" /\ d.book = c.book /\ d.good = c.good
         /\ d.known = c.known /\ d.escalate = c.escalate /\ d.sold = c.sold
<1>1. <<>> \in Legs
    BY DEF Legs
<1>. QED
    BY <1>1, NoActionIs DEF Done, Cycle

(* What is left to say of a cycle that is to be saved.                     *)
LEMMA AtSave ==
  ASSUME CycleTypeOK', cycle'.pc = "save", cycle'.good => cycle'.known,
         cycle'.known /\ ~cycle'.escalate => Bearable(short, wallet)',
         cycle'.good /\ Heard' /\ short' = 0
         => \/ MinOf(cycle'.book.spot, wallet') < SpotMin
            \/ cycle'.book.spot < PerpStep
  PROVE  Phases' /\ DustIsUsed' /\ OnTheWay' /\ Settling'
<1>1. Phases'
    BY DEF Phases
<1>2. DustIsUsed'
    BY DEF DustIsUsed
<1>3. OnTheWay'
    BY DEF OnTheWay
<1>4. Settling'
    BY DEF Settling
<1>. QED
    BY <1>1, <1>2, <1>3, <1>4

(* The same coins make the same claim.                                     *)
LEMMA SameClaim ==
  ASSUME NEW f, NEW b \in Book, NEW p, SameCoins(p, b)
  PROVE  Claim(f, p) = Claim(f, b)
<1>1. p.spot + p.dust = b.spot + b.dust /\ p.pending = b.pending
    BY DEF SameCoins
<1> DEFINE t == Traded(f, "Buy", b.pending)
<1>2. Claim(f, p) = (p.spot + p.dust) + t /\ Claim(f, b) = (b.spot + b.dust) + t
    BY <1>1 DEF Claim
<1>. QED
    BY <1>1, <1>2

(* An order taken for refused is one of the world's interferences.         *)
LEMMA DisownedIs ==
  ASSUME CycleTypeOK, NEW so, Disowned(so)
  PROVE  faults' \in 0..MaxFaults /\ calm' = calm
  BY DEF Disowned, Interferes, world, CycleTypeOK

-----------------------------------------------------------------------------
(* An entry.                                                               *)

(* A close closes no more than there is, and if it says so all it is to.   *)
LEMMA ClosesAre ==
  ASSUME NEW q \in Nat, short \in Nat, NEW c \in Closes(q)
  PROVE  /\ c.real \in 0..short /\ c.seen \in 0..q /\ c.ok \in BOOLEAN
         /\ c.ok => c.real = short \/ c.real >= q
<1>1. /\ c.real \in Steps(short) /\ c.seen \in Steps(q) /\ c.ok \in BOOLEAN
      /\ \/ c.seen <= c.real /\ c.ok = (c.seen >= q)
         \/ c.real = short /\ c.seen = q /\ c.ok
    BY DEF Closes
<1>2. c.real \in 0..short /\ c.seen \in 0..q
    BY <1>1, StepsAre
<1>. QED
    BY <1>1, <1>2

LEMMA CutPerpKeeps == IInv /\ CutPerp => IInv'
<1> SUFFICES ASSUME IInv, CutPerp PROVE IInv'
    OBVIOUS
<1> USE DEF IInv
<1>1. /\ cycle.pc = "cut"
      /\ UNCHANGED <<wallet, fates, stored, foreign, blind, doubled, lost, adopted>>
    BY DEF CutPerp, history
<1>2. PICK c \in Closes(cycle.excess) :
         /\ short' = short - c.real
         /\ Disowned(c.real > cycle.excess)
         /\ cycle' = Done([cycle EXCEPT !.escalate = @ \/ ~c.ok,
                          !.good = @ /\ c.ok /\ c.real <= cycle.excess,
                          !.book = Fresh(Settled([@ EXCEPT !.perp = cycle.entered - c.seen]))])
    BY DEF CutPerp
<1>3. /\ cycle.excess \in 1..cycle.entered /\ cycle.entered \in Nat /\ cycle.book.spot \in Nat
      /\ cycle.good => cycle.known
    BY <1>1, Numbers DEF Phases, Cycle, Book
<1>4. /\ c.real \in 0..short /\ c.seen \in 0..cycle.excess /\ c.ok \in BOOLEAN
      /\ c.ok => c.real = short \/ c.real >= cycle.excess
  <2>1. cycle.excess \in Nat
      BY <1>3
  <2>. QED
      BY <2>1, Numbers, ClosesAre
<1>41. faults' \in 0..MaxFaults /\ calm' = calm
    BY <1>2, DisownedIs
<1>42. PICK good \in BOOLEAN : good = (cycle.good /\ c.ok /\ c.real <= cycle.excess)
    OBVIOUS
<1> DEFINE p == Fresh(Settled([cycle.book EXCEPT !.perp = cycle.entered - c.seen]))
           n == [cycle EXCEPT !.escalate = @ \/ ~c.ok, !.good = good, !.book = p]
<1>5. SameCoins(p, cycle.book)
  <2>1. cycle.entered - c.seen \in Nat
      BY <1>3, <1>4
  <2>. QED
      BY <2>1, Numbers, ClosedIs
<1>6. p \in Book
    BY <1>5 DEF SameCoins
<1> HIDE DEF p
<1>7. /\ n \in Cycle /\ n.book = p /\ n.good = good
      /\ n.known = cycle.known /\ n.sold = cycle.sold
      /\ n.escalate = (cycle.escalate \/ ~c.ok)
    BY <1>4, <1>6, Numbers DEF Cycle
<1>8. cycle' = Done(n)
    BY <1>2, <1>42 DEF p
<1> HIDE DEF n
<1>9. /\ cycle' \in Cycle /\ cycle'.pc = "save" /\ cycle'.book = p
      /\ cycle'.good = good /\ cycle'.known = cycle.known /\ cycle'.sold = cycle.sold
      /\ cycle'.escalate = (cycle.escalate \/ ~c.ok)
    BY <1>7, <1>8, DoneIs
<1>10. short' \in Nat /\ short' <= short
    BY <1>2, <1>3, <1>4, Numbers
<1>11. CycleTypeOK'
    BY <1>1, <1>5, <1>9, <1>10, <1>41 DEF CycleTypeOK, SameCoins
<1>12. FlatIsEmpty' /\ DustIsSmall'
    BY <1>1, <1>5, <1>9 DEF FlatIsEmpty, DustIsSmall, SameCoins
<1>13. OnePosition'
    BY <1>10, Numbers DEF OnePosition
<1>14. LostKept'
    BY <1>1 DEF LostKept
<1>15. Owned'
  <2>1. Claim(fates, p) = Claim(fates, cycle.book)
      BY <1>5, Numbers, SameClaim
  <2>. QED
      BY <1>1, <1>9, <2>1 DEF Owned
<1>16. cycle'.known /\ ~cycle'.escalate => Bearable(short, wallet)'
  <2>1. SUFFICES ASSUME cycle.known, c.ok PROVE short' < wallet' + PerpStep
      BY <1>9 DEF Bearable
  <2>2. short = cycle.entered /\ short - cycle.excess <= wallet
      BY <1>1, <2>1 DEF OnTheWay
  <2>. QED
      BY <1>1, <1>2, <1>3, <1>4, <2>1, <2>2, Numbers
<1>17. cycle'.good /\ Heard' /\ short' = 0 => cycle'.book.spot < PerpStep
  <2>1. SUFFICES ASSUME cycle.good, c.ok, c.real <= cycle.excess, Heard, short' = 0
                 PROVE  p.spot < PerpStep
      BY <1>1, <1>9, <1>42
  <2>2. short = cycle.entered
      BY <1>1, <1>3, <2>1 DEF OnTheWay
  <2>3. cycle.excess = cycle.entered
      BY <1>2, <1>3, <1>4, <2>1, <2>2, Numbers
  <2>4. cycle.book.spot < PerpStep
      BY <1>1, <2>1, <2>3 DEF Settling
  <2>. QED
      BY <2>4, <1>3, <1>5 DEF SameCoins, Book
<1>18. Phases' /\ DustIsUsed' /\ OnTheWay' /\ Settling'
    BY <1>3, <1>9, <1>11, <1>16, <1>17, <1>42, AtSave
<1>. QED
    BY <1>11, <1>12, <1>13, <1>14, <1>15, <1>18

LEMMA EnterPerpKeeps == IInv /\ EnterPerp => IInv'
<1> SUFFICES ASSUME IInv, EnterPerp PROVE IInv'
    OBVIOUS
<1> USE DEF IInv
<1>1. /\ cycle.pc = "enter"
      /\ UNCHANGED <<wallet, fates, stored, foreign, blind, doubled, lost, adopted>>
    BY DEF EnterPerp, history
<1>2. /\ short = 0 /\ cycle.act.perp = Quantity /\ cycle.book.status = "FLAT"
      /\ cycle.act.spot <= cycle.book.dust /\ cycle.act.spot <= wallet
      /\ cycle.book.spot = 0 /\ cycle.book.pending = {}
      /\ cycle.good => cycle.known
    BY <1>1 DEF Phases, FlatIsEmpty, NothingHeld
<1>3. cycle.act.spot \in Nat /\ cycle.book.dust \in Nat /\ wallet \in Nat
    BY Numbers DEF Cycle, Action, Book
<1>4. LostKept'
    BY <1>1 DEF LostKept
<1>5. \A filled \in Steps(Quantity) : filled \in 0..Quantity
    BY StepsAre
<1>51. faults' \in 0..MaxFaults /\ calm' = calm
  <2>1. \E so \in BOOLEAN : Disowned(so)
      BY DEF EnterPerp
  <2>. QED
      BY <2>1, DisownedIs
<1>6. ASSUME cycle' = Done(cycle), UNCHANGED short PROVE IInv'
  <2>1. cycle' \in Cycle /\ cycle'.pc = "save" /\ cycle'.book = cycle.book
        /\ cycle'.good = cycle.good /\ cycle'.known = cycle.known /\ cycle'.sold = cycle.sold
      BY <1>6, Numbers, DoneIs
  <2>2. CycleTypeOK'
      BY <1>1, <1>51, <1>6, <2>1 DEF CycleTypeOK
  <2>3. FlatIsEmpty' /\ OnePosition' /\ DustIsSmall' /\ Owned'
      BY <1>1, <1>6, <2>1 DEF FlatIsEmpty, OnePosition, DustIsSmall, Owned
  <2>4. Bearable(short, wallet)'
      BY <1>1, <1>2, <1>3, <1>6 DEF Bearable
  <2>5. cycle'.book.spot < PerpStep
      BY <1>2, <2>1
  <2>6. Phases' /\ DustIsUsed' /\ OnTheWay' /\ Settling'
      BY <1>2, <2>1, <2>2, <2>4, <2>5, AtSave
  <2>. QED
      BY <1>4, <2>2, <2>3, <2>6
<1>7. ASSUME NEW filled \in Steps(Quantity) \ {0},
             short' = short + filled,
             NEW own, own = MinOf(cycle.act.spot, filled),
             cycle' = [cycle EXCEPT !.pc = "buy", !.entered = filled,
                          !.book = [cycle.book EXCEPT !.status = "OPEN", !.perp = filled,
                                          !.spot = own, !.dust = @ - own]]
      PROVE  IInv'
  <2> DEFINE rest == cycle.book.dust - own
             b == [cycle.book EXCEPT !.status = "OPEN", !.perp = filled, !.spot = own, !.dust = rest]
  <2>1. filled \in 1..Quantity /\ short' = filled
      BY <1>2, <1>5, <1>7
  <2>2. own \in 0..filled /\ own <= cycle.act.spot /\ rest \in Nat /\ own + rest = cycle.book.dust
        /\ (own = filled \/ own = cycle.act.spot)
      BY <1>2, <1>3, <1>7, <2>1
  <2>3. cycle' = [cycle EXCEPT !.pc = "buy", !.entered = filled, !.book = b]
      BY <1>7
  <2> HIDE DEF rest
  <2>31. filled \in Nat /\ own \in Nat /\ cycle.book \in Book
      BY <2>1, <2>2, Numbers
  <2>4. b \in Book /\ b.status = "OPEN" /\ b.spot = own /\ b.dust = rest /\ b.pending = {}
      BY <1>2, <2>2, <2>31 DEF Book
  <2> HIDE DEF b
  <2>5. /\ cycle' \in Cycle /\ cycle'.pc = "buy" /\ cycle'.entered = filled /\ cycle'.book = b
        /\ cycle'.good = cycle.good /\ cycle'.known = cycle.known /\ cycle'.sold = cycle.sold
      BY <2>3, <2>31, <2>4, Numbers DEF Cycle
  <2>6. short' \in Nat
      BY <2>1
  <2>7. CycleTypeOK'
      BY <1>1, <1>51, <2>4, <2>5, <2>6 DEF CycleTypeOK
  <2>8. Phases'
      BY <1>1, <1>2, <2>1, <2>2, <2>4, <2>5 DEF Phases
  <2>9. FlatIsEmpty' /\ OnePosition'
      BY <1>1, <2>1, <2>4, <2>5 DEF FlatIsEmpty, NothingHeld, OnePosition
  <2>10. Owned'
    <3>1. Claim(fates, b) = Claim(fates, cycle.book)
        BY <1>2, <2>2, <2>4, TradedNothing DEF Claim
    <3>. QED
        BY <1>1, <2>5, <3>1 DEF Owned
  <2>11. DustIsSmall'
    <3>1. Heard => Dusty(stored) /\ Dusty(cycle.book)
        BY DEF DustIsSmall
    <3>2. Dusty(cycle.book) => Dusty(b)
        BY <1>2, <1>3, <2>2, <2>4 DEF Dusty
    <3>. QED
        BY <1>1, <2>5, <3>1, <3>2 DEF DustIsSmall
  <2>12. DustIsUsed'
    <3>1. ASSUME Heard, rest > 0 PROVE filled <= own
      <4>1. cycle.act.spot = cycle.book.dust
          BY <1>1, <1>3, <2>1, <2>2, <3>1 DEF DustIsUsed
      <4>. QED
          BY <4>1, <1>3, <2>1, <2>2, <3>1
    <3>. QED
        BY <1>1, <2>4, <2>5, <3>1 DEF DustIsUsed
  <2>13. OnTheWay'
    <3>1. own <= wallet
        BY <1>2, <1>3, <2>1, <2>2
    <3>. QED
        BY <1>1, <2>1, <2>4, <2>5, <3>1 DEF OnTheWay
  <2>14. Settling'
      BY <2>5 DEF Settling
  <2>. QED
      BY <1>4, <2>7, <2>8, <2>9, <2>10, <2>11, <2>12, <2>13, <2>14
<1>8. ASSUME NEW left \in Steps(Quantity), NEW ok \in BOOLEAN,
             short' = short + left,
             cycle' = Done([cycle EXCEPT !.escalate = TRUE, !.good = FALSE,
                      !.book = Fresh(Settled([@ EXCEPT
                                        !.perp = IF ok THEN 0 ELSE cycle.act.perp]))])
      PROVE  IInv'
  <2> DEFINE x == IF ok THEN 0 ELSE Quantity
             p == Fresh(Settled([cycle.book EXCEPT !.perp = x]))
             n == [cycle EXCEPT !.escalate = TRUE, !.good = FALSE, !.book = p]
  <2>1. left \in 0..Quantity /\ short' = left
      BY <1>2, <1>5, <1>8
  <2>2. cycle' = Done(n)
      BY <1>2, <1>8
  <2>3. x \in Nat
      OBVIOUS
  <2> HIDE DEF x
  <2>4. SameCoins(p, cycle.book)
      BY <2>3, Numbers, ClosedIs
  <2> HIDE DEF p
  <2>5. p \in Book
      BY <2>4 DEF SameCoins
  <2>6. n \in Cycle /\ n.book = p /\ n.good = FALSE /\ n.escalate = TRUE
        /\ n.known = cycle.known /\ n.sold = cycle.sold
      BY <2>5, Numbers DEF Cycle
  <2> HIDE DEF n
  <2>7. cycle' \in Cycle /\ cycle'.pc = "save" /\ cycle'.book = p
        /\ cycle'.good = FALSE /\ cycle'.escalate = TRUE /\ cycle'.sold = cycle.sold
      BY <2>2, <2>6, DoneIs
  <2>8. short' \in Nat
      BY <2>1
  <2>9. CycleTypeOK'
      BY <1>1, <1>51, <2>4, <2>7, <2>8 DEF CycleTypeOK, SameCoins
  <2>10. FlatIsEmpty' /\ DustIsSmall'
      BY <1>1, <2>4, <2>7 DEF FlatIsEmpty, DustIsSmall, SameCoins
  <2>11. OnePosition'
      BY <2>1 DEF OnePosition
  <2>12. Owned'
    <3>1. Claim(fates, p) = Claim(fates, cycle.book)
        BY <2>4, Numbers, SameClaim
    <3>. QED
        BY <1>1, <2>7, <3>1 DEF Owned
  <2>13. Phases' /\ DustIsUsed' /\ OnTheWay' /\ Settling'
      BY <2>7, <2>9, AtSave
  <2>. QED
      BY <1>4, <2>9, <2>10, <2>11, <2>12, <2>13
(* Filled, and taken for refused: the book stays as it was. *)
<1>81. ASSUME NEW filled \in Steps(Quantity) \ {0}, short' = short + filled,
              cycle' = Done([cycle EXCEPT !.good = FALSE, !.known = FALSE])
       PROVE  IInv'
  <2> DEFINE n == [cycle EXCEPT !.good = FALSE, !.known = FALSE]
  <2>1. filled \in 1..Quantity /\ short' = filled
      BY <1>2, <1>5, <1>81
  <2>2. n \in Cycle /\ n.book = cycle.book /\ n.good = FALSE /\ n.known = FALSE
        /\ n.sold = cycle.sold
      BY Numbers DEF Cycle
  <2>3. cycle' = Done(n)
      BY <1>81
  <2> HIDE DEF n
  <2>4. /\ cycle' \in Cycle /\ cycle'.pc = "save" /\ cycle'.book = cycle.book
        /\ cycle'.good = FALSE /\ cycle'.known = FALSE /\ cycle'.sold = cycle.sold
      BY <2>2, <2>3, DoneIs
  <2>5. short' \in Nat
      BY <2>1
  <2>6. CycleTypeOK'
      BY <1>1, <1>51, <2>4, <2>5 DEF CycleTypeOK
  <2>7. FlatIsEmpty' /\ OnePosition' /\ DustIsSmall' /\ Owned'
      BY <1>1, <2>1, <2>4 DEF FlatIsEmpty, OnePosition, DustIsSmall, Owned
  <2>8. Phases' /\ DustIsUsed' /\ OnTheWay' /\ Settling'
      BY <2>4, <2>6, AtSave
  <2>. QED
      BY <1>4, <2>6, <2>7, <2>8
<1>9. \/ cycle' = Done(cycle) /\ UNCHANGED short
      \/ \E filled \in Steps(Quantity) \ {0} :
            /\ short' = short + filled
            /\ cycle' = Done([cycle EXCEPT !.good = FALSE, !.known = FALSE])
      \/ \E filled \in Steps(Quantity) \ {0} :
            /\ short' = short + filled
            /\ LET own == MinOf(cycle.act.spot, filled)
               IN cycle' = [cycle EXCEPT !.pc = "buy", !.entered = filled,
                               !.book = [cycle.book EXCEPT !.status = "OPEN", !.perp = filled,
                                                  !.spot = own, !.dust = @ - own]]
      \/ \E left \in Steps(Quantity), ok \in BOOLEAN :
            /\ short' = short + left
            /\ cycle' = Done([cycle EXCEPT !.escalate = TRUE, !.good = FALSE,
                      !.book = Fresh(Settled([@ EXCEPT
                                        !.perp = IF ok THEN 0 ELSE cycle.act.perp]))])
    BY <1>2 DEF EnterPerp
<1>10. CASE \E filled \in Steps(Quantity) \ {0} :
            /\ short' = short + filled
            /\ LET own == MinOf(cycle.act.spot, filled)
               IN cycle' = [cycle EXCEPT !.pc = "buy", !.entered = filled,
                               !.book = [cycle.book EXCEPT !.status = "OPEN", !.perp = filled,
                                                  !.spot = own, !.dust = @ - own]]
  <2>1. PICK filled \in Steps(Quantity) \ {0} :
            /\ short' = short + filled
            /\ LET own == MinOf(cycle.act.spot, filled)
               IN cycle' = [cycle EXCEPT !.pc = "buy", !.entered = filled,
                               !.book = [cycle.book EXCEPT !.status = "OPEN", !.perp = filled,
                                                  !.spot = own, !.dust = @ - own]]
      BY <1>10
  <2> DEFINE own == MinOf(cycle.act.spot, filled)
  <2>2. cycle' = [cycle EXCEPT !.pc = "buy", !.entered = filled,
                          !.book = [cycle.book EXCEPT !.status = "OPEN", !.perp = filled,
                                          !.spot = own, !.dust = @ - own]]
      BY <2>1
  <2>3. own = MinOf(cycle.act.spot, filled)
      OBVIOUS
  <2> HIDE DEF own
  <2>. QED
      BY <1>7, <2>1, <2>2, <2>3
<1>. QED
    BY <1>6, <1>8, <1>81, <1>9, <1>10

LEMMA BuySpotKeeps == IInv /\ BuySpot => IInv'
<1> SUFFICES ASSUME IInv, BuySpot PROVE IInv'
    OBVIOUS
<1> USE DEF IInv
<1>1. /\ cycle.pc = "buy"
      /\ UNCHANGED <<short, stored, foreign, blind, doubled, lost, adopted>>
    BY DEF BuySpot, history
<1> DEFINE need == cycle.entered - cycle.book.spot
           most == IF need > 0 THEN need + MaxOf(FeeMax, SpotMin - 1) ELSE 0
<1>2. /\ cycle.book.status = "OPEN" /\ cycle.entered \in Nat /\ cycle.entered > 0
      /\ cycle.book.pending = {} /\ cycle.book.spot \in Nat /\ cycle.book.spot <= cycle.entered
      /\ cycle.book.dust \in Nat /\ wallet \in Nat /\ short \in Nat
      /\ cycle.good => cycle.known
    BY <1>1, Numbers DEF Phases, Cycle, Book
<1>3. PICK seen \in 0..most, unknown \in BOOLEAN :
        \E more \in 0..most - seen :
             LET entries == IF unknown THEN {NewEntry("Buy")} ELSE {}
                 spot == cycle.book.spot + seen
                 target == Target(cycle.entered, spot, entries)
                 b == Journaled([cycle.book EXCEPT !.spot = spot], entries)
             IN /\ unknown => ~calm /\ Room /\ need > 0
                /\ Disowned(~unknown /\ more > 0)
                /\ wallet' = wallet + seen + more
                /\ fates' = IF unknown THEN Fated(NewEntry("Buy"), more) ELSE fates
                /\ cycle' =
                     IF target < cycle.entered
                     THEN [cycle EXCEPT !.pc = "cut", !.book = b,
                              !.excess = cycle.entered - target, !.good = @ /\ ~unknown,
                              !.escalate = @ \/ seen = 0 \/ unknown]
                     ELSE Done([cycle EXCEPT !.book = b])
    BY DEF BuySpot
<1> DEFINE entries == IF unknown THEN {NewEntry("Buy")} ELSE {}
           spot == cycle.book.spot + seen
           target == Target(cycle.entered, spot, entries)
           b == Journaled([cycle.book EXCEPT !.spot = spot], entries)
<1>4. PICK more \in 0..most - seen :
             /\ unknown => Room /\ need > 0
             /\ Disowned(~unknown /\ more > 0)
             /\ wallet' = wallet + seen + more
             /\ fates' = IF unknown THEN Fated(NewEntry("Buy"), more) ELSE fates
             /\ cycle' =
                  IF target < cycle.entered
                  THEN [cycle EXCEPT !.pc = "cut", !.book = b,
                           !.excess = cycle.entered - target, !.good = @ /\ ~unknown,
                           !.escalate = @ \/ seen = 0 \/ unknown]
                  ELSE Done([cycle EXCEPT !.book = b])
    BY <1>3
<1>5. most \in Nat /\ (need <= 0 => most = 0)
    BY <1>2
<1>51. faults' \in 0..MaxFaults /\ calm' = calm
    BY <1>4, DisownedIs
<1>6. /\ seen \in Nat /\ more \in Nat
      /\ need <= 0 => seen = 0 /\ more = 0
    BY <1>3, <1>4, <1>5
<1>7. spot \in Nat
    BY <1>2, <1>6
<1>8. /\ target \in 0..cycle.entered /\ target <= spot
      /\ entries = {} /\ target = 0 => spot < PerpStep
    BY <1>2, <1>7, TargetIs
<1> HIDE DEF need, most, spot, target
<1>9. unknown => NewEntry("Buy") \in Entry /\ NewEntry("Buy") \notin DOMAIN fates
                 /\ NewEntry("Buy").side = "Buy"
    BY <1>4, NewEntryIs
<1>10. /\ FatesType(fates') /\ DOMAIN fates' = DOMAIN fates \cup entries
       /\ Traded(fates', "Buy", stored.pending) = Traded(fates, "Buy", stored.pending)
       /\ Traded(fates', "Buy", entries) <= more /\ Traded(fates', "Buy", entries) \in Nat
  <2>1. CASE unknown
    <3>1. fates' = Fated(NewEntry("Buy"), more) /\ entries = {NewEntry("Buy")}
        BY <1>4, <2>1
    <3>2. FatesType(fates) /\ stored.pending \in SUBSET DOMAIN fates
        BY Numbers
    <3>3. /\ FatesType(fates') /\ DOMAIN fates' = DOMAIN fates \cup {NewEntry("Buy")}
          /\ Traded(fates', "Buy", stored.pending) = Traded(fates, "Buy", stored.pending)
          /\ Traded(fates', "Buy", {NewEntry("Buy")}) = more
        BY <1>6, <1>9, <2>1, <3>1, <3>2, OneMore
    <3>. QED
        BY <1>6, <3>1, <3>3
  <2>2. CASE ~unknown
    <3>1. fates' = fates /\ entries = {}
        BY <1>4, <2>2
    <3>2. Traded(fates', "Buy", entries) = 0
        BY <3>1, TradedNothing
    <3>3. 0 <= more
        BY <1>6
    <3>4. FatesType(fates') /\ DOMAIN fates' = DOMAIN fates \cup entries
        BY <3>1, Numbers
    <3>. QED
        BY <3>1, <3>2, <3>3, <3>4
  <2>. QED
      BY <2>1, <2>2
<1>11. /\ b \in Book /\ b.status = "OPEN" /\ b.spot = spot /\ b.dust = cycle.book.dust
       /\ b.pending = entries
    BY <1>2, <1>7, <1>9, Numbers DEF Book, Journaled
<1> DEFINE excess == cycle.entered - target
           n == [cycle EXCEPT !.book = b]
<1>12. /\ target < cycle.entered =>
            cycle' = [cycle EXCEPT !.pc = "cut", !.book = b, !.excess = excess,
                           !.good = @ /\ ~unknown, !.escalate = @ \/ seen = 0 \/ unknown]
       /\ ~(target < cycle.entered) => cycle' = Done(n)
    BY <1>4
<1>13. excess \in Nat /\ (target < cycle.entered => excess \in 1..cycle.entered)
    BY <1>2, <1>8
<1> HIDE DEF b, excess
<1>14. n \in Cycle /\ n.book = b /\ n.good = cycle.good /\ n.known = cycle.known /\ n.sold = cycle.sold
    BY <1>11, Numbers DEF Cycle
<1> HIDE DEF n
<1>15. target < cycle.entered =>
         /\ cycle' \in Cycle /\ cycle'.pc = "cut" /\ cycle'.book = b /\ cycle'.excess = excess
         /\ cycle'.entered = cycle.entered /\ cycle'.good = (cycle.good /\ ~unknown)
         /\ cycle'.known = cycle.known /\ cycle'.sold = cycle.sold
  <2>1. ASSUME target < cycle.entered
        PROVE  cycle' = [cycle EXCEPT !.pc = "cut", !.book = b, !.excess = excess,
                           !.good = @ /\ ~unknown, !.escalate = @ \/ seen = 0 \/ unknown]
      BY <1>12, <2>1
  <2>2. cycle \in Cycle /\ excess \in Nat /\ b \in Book
      BY <1>11, <1>13, Numbers
  <2>. QED
      BY <2>1, <2>2 DEF Cycle
<1>16. ~(target < cycle.entered) =>
         /\ cycle' \in Cycle /\ cycle'.pc = "save" /\ cycle'.book = b
         /\ cycle'.good = cycle.good /\ cycle'.known = cycle.known /\ cycle'.sold = cycle.sold
    BY <1>12, <1>14, DoneIs
<1>17. cycle' \in Cycle /\ cycle'.book = b /\ cycle'.pc \in {"cut", "save"}
       /\ cycle'.sold = cycle.sold
    BY <1>15, <1>16
<1>18. wallet' \in Nat /\ wallet' = wallet + seen + more /\ wallet + seen <= wallet'
       /\ wallet <= wallet'
    BY <1>2, <1>4, <1>6
<1>19. CycleTypeOK'
    BY <1>1, <1>10, <1>11, <1>17, <1>18, <1>51 DEF CycleTypeOK, FatesType
<1>20. FlatIsEmpty' /\ OnePosition'
    BY <1>1, <1>11, <1>17 DEF FlatIsEmpty, NothingHeld, OnePosition
<1>21. LostKept'
    BY <1>1 DEF LostKept
<1>22. Owned'
  <2>1. Claim(fates', stored') = Claim(fates, stored)
      BY <1>1, <1>10 DEF Claim
  <2>2. Claim(fates, cycle.book) = cycle.book.spot + cycle.book.dust
      BY <1>2, TradedNothing DEF Claim
  <2>3. Claim(fates', b) <= cycle.book.spot + seen + cycle.book.dust + more
        /\ Claim(fates', b) \in Nat
      BY <1>10, <1>11, <1>2, <1>6 DEF Claim, spot
  <2>4. Heard => foreign + Claim(fates, stored) <= wallet
      BY <1>1 DEF Owned, Phases
  <2>5. Heard => foreign + Claim(fates, cycle.book) <= wallet
      BY DEF Owned
  <2>6. Heard => foreign + Claim(fates', b) <= wallet'
      BY <2>2, <2>3, <2>5, <1>2, <1>6, <1>18, Numbers
  <2>7. Heard => foreign + Claim(fates, stored) <= wallet'
      BY <2>4, <1>18, <1>2, Numbers
  <2>. QED
      BY <1>1, <1>17, <2>1, <2>6, <2>7 DEF Owned
<1>23. DustIsSmall'
  <2>1. Heard => Dusty(stored) /\ Dusty(cycle.book)
      BY DEF DustIsSmall
  <2>2. ASSUME Heard, cycle.book.dust # 0 PROVE Dusty(b)
    <3>1. cycle.entered <= cycle.book.spot
        BY <1>1, <1>2, <2>2 DEF DustIsUsed
    <3>2. ~unknown /\ seen = 0
        BY <1>2, <1>4, <1>6, <3>1 DEF need
    <3>3. b.spot = cycle.book.spot /\ b.dust = cycle.book.dust /\ b.pending = cycle.book.pending
        BY <1>2, <1>11, <3>2 DEF spot
    <3>. QED
        BY <2>1, <2>2, <3>3 DEF Dusty
  <2>3. cycle.book.dust = 0 => Dusty(b)
      BY <1>11 DEF Dusty
  <2>. QED
      BY <1>1, <1>17, <2>1, <2>2, <2>3 DEF DustIsSmall
<1>24. CASE target < cycle.entered
  <2>1. Phases'
      BY <1>1, <1>24, <1>15, <1>17, <1>11, <1>13, <1>2 DEF Phases
  <2>2. DustIsUsed'
      BY <1>24, <1>15 DEF DustIsUsed
  <2>3. OnTheWay'
    <3>1. ASSUME cycle.known PROVE short = cycle.entered /\ short - excess <= wallet'
      <4>1. short = cycle.entered /\ cycle.book.spot <= wallet
          BY <1>1, <3>1 DEF OnTheWay
      <4>2. short - excess = target
          BY <4>1, <1>2, <1>8 DEF excess
      <4>3. spot <= wallet'
          BY <4>1, <1>2, <1>6, <1>18 DEF spot
      <4>. QED
          BY <4>1, <4>2, <4>3, <1>7, <1>8, <1>18
    <3>. QED
        BY <1>1, <1>24, <1>15, <3>1 DEF OnTheWay
  <2>4. Settling'
    <3>1. ASSUME ~unknown, excess = cycle.entered PROVE spot < PerpStep
      <4>1. target = 0
          BY <3>1, <1>2, <1>8 DEF excess
      <4>. QED
          BY <3>1, <4>1, <1>8
    <3>. QED
        BY <1>24, <1>15, <1>11, <3>1 DEF Settling
  <2>. QED
      BY <1>19, <1>20, <1>21, <1>22, <1>23, <2>1, <2>2, <2>3, <2>4
<1>25. CASE ~(target < cycle.entered)
  <2>1. ASSUME cycle.known PROVE short > 0 /\ short <= wallet'
    <3>1. short = cycle.entered /\ cycle.book.spot <= wallet
        BY <1>1, <2>1 DEF OnTheWay
    <3>2. target = cycle.entered
        BY <1>25, <1>2, <1>8
    <3>3. spot <= wallet'
        BY <3>1, <1>2, <1>6, <1>18 DEF spot
    <3>. QED
        BY <3>1, <3>2, <3>3, <1>2, <1>7, <1>8, <1>18
  <2>2. cycle'.known => Bearable(short, wallet)' /\ short' # 0
    <3>1. cycle.known => short' < wallet' + PerpStep /\ short' # 0
        BY <2>1, <1>1, <1>2, <1>18
    <3>. QED
        BY <3>1, <1>16, <1>25 DEF Bearable
  <2>3. cycle'.pc = "save" /\ (cycle'.good => cycle'.known)
      BY <1>2, <1>16, <1>25
  <2>4. Phases' /\ DustIsUsed' /\ OnTheWay' /\ Settling'
      BY <1>19, <2>2, <2>3, AtSave
  <2>. QED
      BY <1>19, <1>20, <1>21, <1>22, <1>23, <2>4
<1>. QED
    BY <1>24, <1>25

(* What some coins bear, more do.                                          *)
LEMMA BearableMore ==
  ASSUME NEW s \in Nat, NEW w \in Int, NEW v \in Int, w <= v, Bearable(s, w)
  PROVE  Bearable(s, v)
<1>1. PICK drift \in Nat : drift = 2 * DriftPct * s
    OBVIOUS
<1>2. s < w + PerpStep \/ (s - w) * 100 <= drift
    BY <1>1 DEF Bearable
<1>3. s < v + PerpStep \/ (s - v) * 100 <= drift
    BY <1>2
<1>. QED
    BY <1>1, <1>3 DEF Bearable

(* And of a short they bear, a part.                                       *)
LEMMA BearableLess ==
  ASSUME NEW s \in Nat, NEW t \in Nat, t <= s, NEW w \in Nat, Bearable(s, w)
  PROVE  Bearable(t, w)
<1> DEFINE k == 2 * DriftPct
<1>1. k \in Nat
    OBVIOUS
<1>2. s < w + PerpStep \/ (s - w) * 100 <= k * s
    BY DEF Bearable
<1>3. PICK d \in Nat : s = t + d
  <2>1. s - t \in Nat /\ s = t + (s - t)
      OBVIOUS
  <2>. QED
      BY <2>1
<1> HIDE DEF k
<1>4. CASE s < w + PerpStep
    BY <1>4 DEF Bearable
<1>5. CASE (s - w) * 100 <= k * s
  <2>1. k * s = k * t + k * d /\ k * t \in Nat /\ k * d \in Nat
      BY <1>1, <1>3
  <2>2. CASE k >= 100
    <3>1. 100 * t <= k * t
        BY <1>1, <2>2
    <3>2. (t - w) * 100 <= k * t
        BY <2>1, <3>1
    <3>. QED
        BY <3>2 DEF Bearable, k
  <2>3. CASE k < 100
    <3>1. k * d <= 100 * d
        BY <1>1, <2>3
    <3>2. (t - w) * 100 <= k * t
        BY <1>3, <1>5, <2>1, <3>1
    <3>. QED
        BY <3>2 DEF Bearable, k
  <2>. QED
      BY <1>1, <2>2, <2>3
<1>. QED
    BY <1>2, <1>4, <1>5

-----------------------------------------------------------------------------
(* The legs of a reduction.                                                *)

LEMMA LegsAre ==
  ASSUME NEW legs \in Legs, legs # <<>>
  PROVE  /\ Head(legs) = "perp" => legs = <<"perp">> \/ legs = <<"perp", "spot">>
         /\ Head(legs) = "spot" => legs = <<"spot">> \/ legs = <<"spot", "perp">>
  BY DEF Legs

LEMMA TwoLegs ==
  /\ Len(<<"perp">>) = 1 /\ Len(<<"spot">>) = 1
  /\ Len(<<"perp", "spot">>) = 2 /\ Len(<<"spot", "perp">>) = 2
  /\ Tail(<<"perp", "spot">>) = <<"spot">> /\ Tail(<<"spot", "perp">>) = <<"perp">>
  /\ <<"spot">> # <<>> /\ <<"perp">> # <<>>
  OBVIOUS

LEMMA RangesAre ==
  /\ Range(<<"perp">>) = {"perp"} /\ Range(<<"spot">>) = {"spot"}
  /\ Range(<<"perp", "spot">>) = {"perp", "spot"}
  /\ Range(<<"spot", "perp">>) = {"perp", "spot"}
  BY DEF Range

LEMMA ToCloseIs ==
  ASSUME NEW act, NEW b
  PROVE  /\ ToClose(act, <<"perp">>, b) = PerpToClose(act, b) /\ ToSell(act, <<"perp">>) = 0
         /\ ToClose(act, <<"spot">>, b) = 0 /\ ToSell(act, <<"spot">>) = act.spot
         /\ ToClose(act, <<"perp", "spot">>, b) = PerpToClose(act, b)
         /\ ToSell(act, <<"perp", "spot">>) = act.spot
         /\ ToClose(act, <<"spot", "perp">>, b) = PerpToClose(act, b)
         /\ ToSell(act, <<"spot", "perp">>) = act.spot
  BY RangesAre DEF ToClose, ToSell

LEMMA PerpToCloseIs ==
  ASSUME NEW act \in Action, NEW b \in Book
  PROVE  PerpToClose(act, b) \in Nat
  BY DEF PerpToClose, Action, Book

(* On to the other leg, or done.                                           *)
LEMMA OnwardIs ==
  ASSUME NEW c \in Cycle, c.pc = "leg", NEW a, NEW z, c.legs = <<a, z>>, NEW d, d = Onward(c)
  PROVE  /\ d = [c EXCEPT !.legs = Tail(<<a, z>>)] /\ d.pc = "leg" /\ d.legs = <<z>>
         /\ d.act = c.act /\ d.book = c.book /\ d.good = c.good /\ d.known = c.known /\ d.sold = c.sold
         /\ d.escalate = c.escalate
  BY DEF Onward, Cycle

LEMMA OnwardTyped ==
  ASSUME NEW c \in Cycle, NEW x \in {"perp", "spot"}, NEW d, d = [c EXCEPT !.legs = <<x>>]
  PROVE  d \in Cycle
<1>1. <<x>> \in Legs
    BY DEF Legs
<1>. QED
    BY <1>1 DEF Cycle

LEMMA OnwardEnds ==
  ASSUME NEW c \in Cycle, NEW x, c.legs = <<x>>, NEW d, d = Onward(c)
  PROVE  /\ d \in Cycle /\ d.pc = "save" /\ SameCoins(d.book, c.book)
         /\ d.good = c.good /\ d.known = c.known /\ d.sold = c.sold /\ d.escalate = c.escalate
         /\ c.act.kind # "EXIT" => d.book = c.book
<1> DEFINE b == IF c.act.kind = "EXIT" THEN Fresh(Exited(c.act, c.book)) ELSE c.book
           n == [c EXCEPT !.book = b]
<1>1. d = Done(n)
    BY DEF Onward
<1>2. c.book \in Book
    BY DEF Cycle
<1>3. SameCoins(b, c.book)
  <2>1. SameCoins(Fresh(Exited(c.act, c.book)), c.book)
      BY <1>2, ExitedIs
  <2>2. SameCoins(c.book, c.book)
      BY <1>2 DEF SameCoins, Book
  <2>. QED
      BY <2>1, <2>2
<1>4. c.act.kind # "EXIT" => b = c.book
    OBVIOUS
<1>5. b \in Book
    BY <1>3 DEF SameCoins
<1> HIDE DEF b
<1>6. n \in Cycle /\ n.book = b /\ n.good = c.good /\ n.known = c.known /\ n.sold = c.sold /\ n.escalate = c.escalate
    BY <1>5 DEF Cycle
<1> HIDE DEF n
<1>. QED
    BY <1>1, <1>3, <1>4, <1>6, DoneIs

(* What any leg leaves true.                                               *)
LEMMA LegKeeps ==
  ASSUME IInv, cycle.pc = "leg", cycle' \in Cycle, cycle'.pc \in {"leg", "save"},
         short' \in Nat, short' <= short, wallet' \in Nat, FatesType(fates'),
         stored' = stored, stored.pending \subseteq DOMAIN fates',
         cycle'.book.pending \subseteq DOMAIN fates',
         faults' \in 0..MaxFaults, UNCHANGED <<calm, foreign>>,
         lost' \in Nat, adopted' \in BOOLEAN,
         blind' \in BOOLEAN, doubled' \in BOOLEAN, Heard' => Heard,
         NothingHeld(cycle.book) => NothingHeld(cycle'.book),
         Heard' => foreign + Claim(fates', cycle'.book) <= wallet',
         Heard' /\ ~cycle'.sold => foreign + Claim(fates', stored) <= wallet',
         Dusty(cycle.book) => Dusty(cycle'.book),
         cycle'.pc = "leg" => cycle'.legs # <<>>,
         cycle'.good => cycle.good, cycle'.known = cycle.known
  PROVE  /\ CycleTypeOK' /\ Phases' /\ FlatIsEmpty' /\ OnePosition'
         /\ Owned' /\ DustIsSmall' /\ DustIsUsed'
<1> USE DEF IInv
<1>1. CycleTypeOK'
    BY DEF CycleTypeOK, FatesType
<1>2. Phases'
    BY DEF Phases
<1>3. FlatIsEmpty' /\ DustIsSmall' /\ DustIsUsed'
    BY DEF FlatIsEmpty, DustIsSmall, DustIsUsed
<1>4. OnePosition'
    BY Numbers DEF OnePosition
<1>5. Owned'
    BY DEF Owned
<1>. QED
    BY <1>1, <1>2, <1>3, <1>4, <1>5

(* A close of more than q takes a part of the hedge.                       *)
HedgeAfter(q, real) ==
    IF real > q THEN lost' = 0 /\ adopted' = FALSE ELSE UNCHANGED <<lost, adopted>>

(* A perp leg closes what it is to close, or more, but if it says          *)
(* otherwise.                                                              *)
PerpRun(c, real, ok) ==
    /\ real \in Nat /\ real <= short
    /\ short' = short - real /\ ok \in BOOLEAN
    /\ ok => real = short \/ real >= PerpToClose(cycle.act, cycle.book)
    /\ faults' \in 0..MaxFaults /\ calm' = calm
    /\ HedgeAfter(PerpToClose(cycle.act, cycle.book), real)
    /\ cycle' = Onward(c)
    /\ c \in Cycle /\ c.pc = "leg" /\ c.legs = cycle.legs /\ c.act = cycle.act
    /\ SameCoins(c.book, cycle.book) /\ c.book.spot = cycle.book.spot
    /\ c.book.status = cycle.book.status
    /\ c.good => cycle.good /\ ok /\ real <= PerpToClose(cycle.act, cycle.book)
    /\ c.known = cycle.known /\ c.sold = cycle.sold
    /\ ~c.escalate => ~cycle.escalate /\ ok

LEMMA PerpLegRuns ==
  ASSUME IInv, PerpLeg
  PROVE  \E c, real, ok : PerpRun(c, real, ok)
<1> USE DEF IInv
<1> DEFINE q == PerpToClose(cycle.act, cycle.book)
<1>1. /\ cycle.pc = "leg" /\ cycle \in Cycle /\ cycle.book \in Book /\ cycle.act \in Action
      /\ short \in Nat /\ cycle.good \in BOOLEAN /\ cycle.escalate \in BOOLEAN
    BY Numbers DEF PerpLeg, Cycle
<1>2. q \in Nat
    BY <1>1, PerpToCloseIs
<1>3. \/ q <= 0 /\ cycle' = Onward(cycle) /\ UNCHANGED <<short, world, lost, adopted>>
      \/ \E c \in Closes(q) :
            /\ short' = short - c.real
            /\ Disowned(c.real > q)
            /\ cycle' = Onward([cycle EXCEPT
                            !.book = [@ EXCEPT !.perp = PerpLeft(cycle.act, cycle.book, c.seen)],
                            !.escalate = @ \/ ~c.ok, !.good = @ /\ c.ok /\ c.real <= q])
            /\ IF c.real > q THEN lost' = 0 /\ adopted' = FALSE ELSE UNCHANGED <<lost, adopted>>
    BY DEF PerpLeg
<1> HIDE DEF q
<1>4. CASE q <= 0 /\ cycle' = Onward(cycle) /\ UNCHANGED <<short, world, lost, adopted>>
  <2>1. SameCoins(cycle.book, cycle.book)
      BY <1>1 DEF SameCoins, Book
  <2>2. short' = short - 0 /\ 0 <= q /\ 0 <= short /\ q = 0
      BY <1>1, <1>2, <1>4
  <2>3. faults' \in 0..MaxFaults /\ calm' = calm
      BY <1>4 DEF world, CycleTypeOK
  <2>4. HedgeAfter(q, 0)
      BY <1>4, <2>2 DEF HedgeAfter
  <2>5. PerpRun(cycle, 0, TRUE)
      BY <1>1, <1>4, <2>1, <2>2, <2>3, <2>4 DEF PerpRun, q
  <2>. QED
      BY <2>5
<1>5. ASSUME NEW c \in Closes(q),
             short' = short - c.real,
             Disowned(c.real > q),
             cycle' = Onward([cycle EXCEPT
                            !.book = [@ EXCEPT !.perp = PerpLeft(cycle.act, cycle.book, c.seen)],
                            !.escalate = @ \/ ~c.ok, !.good = @ /\ c.ok /\ c.real <= q]),
             IF c.real > q THEN lost' = 0 /\ adopted' = FALSE ELSE UNCHANGED <<lost, adopted>>
      PROVE  \E d, real, ok : PerpRun(d, real, ok)
  <2>1. PICK good \in BOOLEAN : good = (cycle.good /\ c.ok /\ c.real <= q)
      OBVIOUS
  <2> DEFINE x == PerpLeft(cycle.act, cycle.book, c.seen)
             b == [cycle.book EXCEPT !.perp = x]
             n == [cycle EXCEPT !.book = b, !.escalate = @ \/ ~c.ok, !.good = good]
  <2>2. /\ c.real \in 0..short /\ c.seen \in 0..q /\ c.ok \in BOOLEAN
        /\ c.ok => c.real = short \/ c.real >= q
      BY <1>1, <1>2, ClosesAre
  <2>3. faults' \in 0..MaxFaults /\ calm' = calm
      BY <1>5, DisownedIs
  <2>4. HedgeAfter(q, c.real)
      BY <1>5 DEF HedgeAfter
  <2>6. x \in Nat
      BY <1>1, <1>2, <2>2 DEF PerpLeft, Action, Book
  <2>7. cycle' = Onward(n)
      BY <1>5, <2>1
  <2> HIDE DEF x
  <2>8. SameCoins(b, cycle.book) /\ b.spot = cycle.book.spot /\ b.status = cycle.book.status
      BY <1>1, <2>6, PerpIs
  <2>9. b \in Book
      BY <2>8 DEF SameCoins
  <2> HIDE DEF b
  <2>10. /\ n \in Cycle /\ n.pc = "leg" /\ n.legs = cycle.legs /\ n.act = cycle.act
         /\ n.book = b /\ n.known = cycle.known /\ n.sold = cycle.sold
         /\ n.good = good /\ n.escalate = (cycle.escalate \/ ~c.ok)
      BY <1>1, <2>2, <2>9 DEF Cycle
  <2> HIDE DEF n
  <2>11. c.real \in Nat /\ c.real <= short
      BY <1>1, <2>2
  <2>12. (n.good => cycle.good /\ c.ok /\ c.real <= q) /\ (~n.escalate => ~cycle.escalate /\ c.ok)
      BY <2>1, <2>10
  <2>13. PerpRun(n, c.real, c.ok)
      BY ONLY <1>5, <2>2, <2>3, <2>4, <2>7, <2>8, <2>10, <2>11, <2>12, ZenonT(30) DEF PerpRun, q
  <2>. QED
      BY <2>13
<1>. QED
    BY <1>3, <1>4, <1>5

LEMMA PerpLegKeeps == IInv /\ PerpLeg => IInv'
<1> SUFFICES ASSUME IInv, PerpLeg PROVE IInv'
    OBVIOUS
<1> USE DEF IInv
<1>1. /\ cycle.pc = "leg" /\ Head(cycle.legs) = "perp"
      /\ UNCHANGED <<wallet, fates, stored, foreign, blind, doubled>>
    BY DEF PerpLeg
<1>2. PICK c, real, ok : PerpRun(c, real, ok)
    BY PerpLegRuns
<1> DEFINE q == PerpToClose(cycle.act, cycle.book)
<1>3. /\ cycle \in Cycle /\ cycle.book \in Book /\ cycle.act \in Action /\ q \in Nat
      /\ cycle.legs \in Legs /\ cycle.legs # <<>> /\ cycle.act.spot \in Nat
      /\ short \in Nat /\ wallet \in Nat /\ cycle.book.spot \in Nat
      /\ cycle.good => cycle.known
    BY <1>1, Numbers, PerpToCloseIs DEF Cycle, Action, Book, Phases
<1> HIDE DEF q
<1>4. /\ real \in Nat /\ real <= short /\ short' = short - real
      /\ ok => real = short \/ real >= q
      /\ faults' \in 0..MaxFaults /\ calm' = calm
    BY <1>2 DEF PerpRun, q
<1>41. /\ real > q => lost' = 0 /\ adopted' = FALSE
       /\ ~(real > q) => lost' = lost /\ adopted' = adopted
  <2>1. HedgeAfter(q, real)
      BY <1>2 DEF PerpRun, q
  <2>. QED
      BY <2>1 DEF HedgeAfter
<1>42. lost' \in Nat /\ adopted' \in BOOLEAN
  <2>1. lost \in Nat /\ adopted \in BOOLEAN
      BY DEF CycleTypeOK
  <2>2. lost' = 0 \/ lost' = lost
      BY <1>41
  <2>3. adopted' = FALSE \/ adopted' = adopted
      BY <1>41
  <2>4. lost' \in Nat
      BY <2>1, <2>2
  <2>5. adopted' \in BOOLEAN
      BY <2>1, <2>3
  <2>. QED
      BY <2>4, <2>5
<1>5. cycle.legs = <<"perp">> \/ cycle.legs = <<"perp", "spot">>
    BY <1>1, <1>3, LegsAre
<1>6. /\ c \in Cycle /\ c.pc = "leg" /\ c.legs = cycle.legs /\ c.act = cycle.act
      /\ SameCoins(c.book, cycle.book) /\ c.book.spot = cycle.book.spot
      /\ c.book.status = cycle.book.status
      /\ c.known = cycle.known /\ c.sold = cycle.sold /\ cycle' = Onward(c)
    BY <1>2 DEF PerpRun
<1>7. (c.good => cycle.good /\ ok /\ real <= q) /\ (~c.escalate => ~cycle.escalate /\ ok)
    BY <1>2 DEF PerpRun, q
<1>8. cycle.legs = <<"perp">> =>
         /\ cycle' \in Cycle /\ cycle'.pc = "save" /\ SameCoins(cycle'.book, c.book)
         /\ cycle'.good = c.good /\ cycle'.known = c.known /\ cycle'.sold = c.sold /\ cycle'.escalate = c.escalate
         /\ cycle.act.kind # "EXIT" => cycle'.book = c.book
    BY <1>6, OnwardEnds
<1>9. cycle.legs = <<"perp", "spot">> =>
         /\ cycle' \in Cycle /\ cycle'.pc = "leg" /\ cycle'.legs = <<"spot">>
         /\ cycle'.act = cycle.act /\ cycle'.book = c.book
         /\ cycle'.good = c.good /\ cycle'.known = c.known /\ cycle'.sold = c.sold /\ cycle'.escalate = c.escalate
  <2>1. ASSUME cycle.legs = <<"perp", "spot">>
        PROVE  /\ cycle' = [c EXCEPT !.legs = <<"spot">>] /\ cycle'.pc = "leg"
               /\ cycle'.legs = <<"spot">>
               /\ cycle'.act = cycle.act /\ cycle'.book = c.book
               /\ cycle'.good = c.good /\ cycle'.known = c.known /\ cycle'.sold = c.sold
               /\ cycle'.escalate = c.escalate
    <3>1. c.legs = <<"perp", "spot">>
        BY <1>6, <2>1
    <3>. QED
        BY <3>1, <1>6, OnwardIs, TwoLegs
  <2>. QED
      BY <1>6, <2>1, OnwardTyped
<1>10. SameCoins(cycle'.book, cycle.book) /\ cycle'.book.spot <= cycle.book.spot
  <2>1. SameCoins(c.book, c.book)
      BY <1>6 DEF SameCoins, Book
  <2>2. SameCoins(cycle'.book, c.book)
      BY <1>5, <1>8, <1>9, <2>1
  <2>3. SameCoins(cycle'.book, cycle.book)
      BY <1>3, <1>6, <2>2, SameCoinsTwice
  <2>. QED
      BY <2>3 DEF SameCoins
<1>11. short' \in Nat /\ short' <= short
    BY <1>3, <1>4
<1>12. /\ CycleTypeOK' /\ Phases' /\ FlatIsEmpty' /\ OnePosition'
       /\ Owned' /\ DustIsSmall' /\ DustIsUsed'
  <2>1. Claim(fates, cycle'.book) = Claim(fates, cycle.book)
      BY <1>3, <1>10, SameClaim
  <2>2. Heard => foreign + Claim(fates, cycle'.book) <= wallet
      BY <2>1 DEF Owned
  <2>3. cycle'.book.pending \subseteq DOMAIN fates
      BY <1>10, Numbers DEF SameCoins
  <2>4. /\ NothingHeld(cycle.book) => NothingHeld(cycle'.book)
        /\ Dusty(cycle.book) => Dusty(cycle'.book)
      BY <1>10 DEF SameCoins
  <2>5. cycle' \in Cycle /\ cycle'.pc \in {"leg", "save"}
        /\ (cycle'.pc = "leg" => cycle'.legs # <<>>)
        /\ (cycle'.good => cycle.good) /\ cycle'.known = cycle.known
      BY <1>5, <1>6, <1>7, <1>8, <1>9, TwoLegs
  <2>6. blind \in BOOLEAN /\ doubled \in BOOLEAN
      BY DEF CycleTypeOK
  <2>7. Heard /\ ~cycle'.sold => foreign + Claim(fates, stored) <= wallet
    <3>1. cycle'.sold = cycle.sold
        BY <1>5, <1>6, <1>8, <1>9
    <3>. QED
        BY <3>1 DEF Owned
  <2>. QED
      BY <1>1, <1>4, <1>42, <1>11, <2>2, <2>3, <2>4, <2>5, <2>6, <2>7, Numbers, LegKeeps
<1>13. LostKept'
  <2>0. CASE real > q
    <3>1. ~(lost' > 0)
        BY <1>41, <2>0
    <3>. QED
        BY <3>1 DEF LostKept
  <2>1. SUFFICES ASSUME ~(real > q), lost' = lost, adopted' = adopted, lost > 0, ~adopted
                 PROVE  /\ short' >= lost /\ cycle'.book.status = "FLAT" /\ cycle'.pc = "save"
    <3>1. ~(real > q) => lost' = lost /\ adopted' = adopted
        BY <1>41
    <3>. QED
        BY <1>1, <2>0, <3>1 DEF LostKept
  <2>2. /\ cycle.legs = <<"perp">> /\ cycle.act.kind = "REBALANCE" /\ cycle.book.status = "FLAT"
        /\ cycle.act.perp \in Nat /\ short - cycle.act.perp >= lost
      BY <1>1, <2>1 DEF LostKept
  <2>3. q = cycle.act.perp
      BY <2>2 DEF q, PerpToClose
  <2>4. lost \in Nat
      BY Numbers
  <2>. QED
      BY <2>1, <2>2, <2>3, <2>4, <1>3, <1>4, <1>6, <1>8
<1>14. cycle.known /\ ~cycle.escalate => Bears(cycle.act, cycle.legs, cycle.book)
    BY <1>1 DEF OnTheWay
<1>15. cycle.good /\ Heard => Settles(cycle.act, cycle.legs, cycle.book)
    BY <1>1 DEF Settling
<1>16. CASE cycle.legs = <<"perp">>
  <2>1. ToClose(cycle.act, cycle.legs, cycle.book) = q /\ ToSell(cycle.act, cycle.legs) = 0
      BY <1>16, ToCloseIs DEF q
  <2>2. cycle'.known /\ ~cycle'.escalate => Bearable(short, wallet)'
    <3>1. SUFFICES ASSUME cycle.known, ~cycle.escalate, ok PROVE Bearable(short', wallet)
        BY <1>1, <1>6, <1>7, <1>8, <1>16 DEF Bearable
    <3>2. q \in 0..short /\ Bearable(short - q, wallet - 0)
        BY <1>14, <2>1, <3>1 DEF Bears
    <3>3. short' <= short - q /\ short - q \in Nat /\ wallet - 0 = wallet
        BY <1>3, <1>4, <3>1, <3>2
    <3>. QED
        BY <1>3, <1>11, <3>2, <3>3, BearableLess
  <2>3. cycle'.good /\ Heard' /\ short' = 0 => MinOf(cycle'.book.spot, wallet') < SpotMin
    <3>1. SUFFICES ASSUME cycle.good, ok, real <= q, Heard, short' = 0
                   PROVE  MinOf(cycle'.book.spot, wallet) < SpotMin
        BY <1>1, <1>7, <1>8, <1>16
    <3>2. \/ short > q \/ MinOf(cycle.book.spot, wallet) < SpotMin
          \/ 0 = MinOf(cycle.book.spot, wallet)
        BY <1>15, <2>1, <3>1 DEF Settles
    <3>3. ~(short > q)
        BY <1>3, <1>4, <3>1
    <3>4. MinOf(cycle.book.spot, wallet) < SpotMin
        BY <3>2, <3>3
    <3>5. cycle'.book.spot \in Nat
        BY <1>10 DEF SameCoins, Book
    <3>. QED
        BY <3>4, <3>5, <1>3, <1>10
  <2>4. cycle'.pc = "save" /\ (cycle'.good => cycle'.known)
      BY <1>3, <1>6, <1>7, <1>8, <1>16
  <2>5. OnTheWay' /\ Settling'
      BY <1>12, <2>2, <2>3, <2>4, AtSave
  <2>. QED
      BY <1>12, <1>13, <2>5
<1>17. CASE cycle.legs = <<"perp", "spot">>
  <2>1. ToClose(cycle.act, cycle.legs, cycle.book) = q
        /\ ToSell(cycle.act, cycle.legs) = cycle.act.spot
      BY <1>17, ToCloseIs DEF q
  <2>2. /\ cycle'.pc = "leg" /\ cycle'.legs = <<"spot">> /\ cycle'.act = cycle.act
        /\ cycle'.known = cycle.known /\ cycle'.book.spot = cycle.book.spot
        /\ cycle'.good => cycle.good /\ ok /\ real <= q
        /\ ~cycle'.escalate => ~cycle.escalate /\ ok
      BY <1>6, <1>7, <1>9, <1>17
  <2>3. ToClose(cycle'.act, cycle'.legs, cycle'.book) = 0
        /\ ToSell(cycle'.act, cycle'.legs) = cycle.act.spot
      BY <2>2, ToCloseIs
  <2>4. OnTheWay'
    <3>1. SUFFICES ASSUME cycle.known, ~cycle.escalate, ok
                   PROVE  /\ 0 \in 0..short' /\ cycle.act.spot <= wallet
                          /\ Bearable(short' - 0, wallet - cycle.act.spot)
        BY <1>1, <2>2, <2>3 DEF OnTheWay, Bears, Bearable
    <3>2. /\ q \in 0..short /\ Bearable(short - q, wallet - cycle.act.spot)
          /\ cycle.act.spot <= wallet
        BY <1>14, <2>1, <3>1 DEF Bears
    <3>3. /\ short' - 0 = short' /\ short' <= short - q /\ short - q \in Nat
          /\ wallet - cycle.act.spot \in Nat
        BY <1>3, <1>4, <3>1, <3>2
    <3>. QED
        BY <1>11, <3>2, <3>3, BearableLess
  <2>5. Settling'
    <3>1. SUFFICES ASSUME cycle.good, ok, real <= q, Heard
                   PROVE  \/ short' > 0 \/ MinOf(cycle.book.spot, wallet) < SpotMin
                          \/ cycle.act.spot = MinOf(cycle.book.spot, wallet)
        BY <1>1, <2>2, <2>3 DEF Settling, Settles
    <3>2. \/ short > q \/ MinOf(cycle.book.spot, wallet) < SpotMin
          \/ cycle.act.spot = MinOf(cycle.book.spot, wallet)
        BY <1>15, <2>1, <3>1 DEF Settles
    <3>3. short > q => short' > 0
        BY <1>3, <1>4, <3>1
    <3>. QED
        BY <3>2, <3>3
  <2>. QED
      BY <1>12, <1>13, <2>4, <2>5
<1>. QED
    BY <1>5, <1>16, <1>17

(* A spot leg sells no more than it is to, of what is there; what it says  *)
(* it has sold it has.                                                     *)
SpotRun(c, real, seen) ==
    /\ real \in Nat /\ real <= cycle.act.spot /\ real <= wallet /\ wallet' = wallet - real
    /\ seen \in Nat /\ seen <= real /\ seen <= cycle.book.spot
    /\ blind' = (blind \/ seen < real) /\ faults' \in 0..MaxFaults /\ calm' = calm
    /\ FatesType(fates') /\ DOMAIN fates \subseteq DOMAIN fates'
    /\ cycle' = Onward(c)
    /\ c \in Cycle /\ c.pc = "leg" /\ c.legs = cycle.legs /\ c.act = cycle.act
    /\ c.book \in Book /\ c.book.spot = cycle.book.spot - seen /\ c.book.dust = cycle.book.dust
    /\ c.book.perp = cycle.book.perp
    /\ NothingHeld(cycle.book) => NothingHeld(c.book)
    /\ c.book.pending \subseteq DOMAIN fates'
    /\ \A e \in c.book.pending : e.side = "Buy" => e \in cycle.book.pending
    /\ Traded(fates', "Buy", c.book.pending) = Traded(fates, "Buy", cycle.book.pending)
    /\ Traded(fates', "Buy", stored.pending) = Traded(fates, "Buy", stored.pending)
    /\ c.known = cycle.known /\ (~c.escalate => ~cycle.escalate)
    /\ c.sold = (cycle.sold \/ real > 0)
    /\ (c.good => cycle.good /\ MinOf(cycle.act.spot, cycle.book.spot) - seen < SpotMin)

LEMMA SpotLegRuns ==
  ASSUME IInv, SpotLeg
  PROVE  \E c, real, seen : SpotRun(c, real, seen)
<1> USE DEF IInv
<1> DEFINE q == MinOf(cycle.act.spot, cycle.book.spot)
<1>1. /\ cycle.pc = "leg" /\ cycle \in Cycle /\ cycle.book \in Book /\ cycle.act \in Action
      /\ wallet \in Nat /\ cycle.good \in BOOLEAN /\ cycle.escalate \in BOOLEAN
      /\ cycle.act.spot \in Nat /\ cycle.book.spot \in Nat /\ blind \in BOOLEAN
      /\ FatesType(fates) /\ cycle.book.pending \in SUBSET DOMAIN fates
      /\ cycle.book.pending \subseteq Entry /\ stored.pending \in SUBSET DOMAIN fates
      /\ faults \in 0..MaxFaults /\ cycle.sold \in BOOLEAN
    BY Numbers DEF SpotLeg, Cycle, Action, Book, CycleTypeOK
<1>2. q \in Nat /\ q <= cycle.act.spot /\ q <= cycle.book.spot
    BY <1>1
<1>3. \/ q < SpotMin /\ cycle' = Onward(cycle) /\ UNCHANGED <<wallet, fates, world, blind>>
      \/ q >= SpotMin /\ \E x \in Sales(q) :
            LET entries == IF x.unknown THEN {NewEntry("Sell")} ELSE {}
            IN /\ Disowned(~x.unknown /\ x.seen < x.real)
               /\ wallet' = wallet - x.real
               /\ fates' = IF x.unknown THEN Fated(NewEntry("Sell"), x.real - x.seen)
                           ELSE fates
               /\ blind' = (blind \/ x.seen < x.real)
               /\ cycle' = Onward([cycle EXCEPT
                     !.book = Journaled([cycle.book EXCEPT !.spot = MaxOf(0, @ - x.seen)], entries),
                     !.escalate = @ \/ x.refused, !.sold = @ \/ x.real > 0,
                     !.good = @ /\ ~x.unknown /\ q - x.seen < SpotMin])
  <2>1. ~(q < SpotMin) => q >= SpotMin
      BY <1>2
  <2>. QED
      BY <2>1 DEF SpotLeg
<1> HIDE DEF q
<1>4. CASE q < SpotMin /\ cycle' = Onward(cycle) /\ UNCHANGED <<wallet, fates, world, blind>>
  <2>1. /\ wallet' = wallet - 0 /\ cycle.book.spot = cycle.book.spot - 0 /\ q - 0 < SpotMin
        /\ 0 <= cycle.act.spot /\ 0 <= wallet /\ 0 <= cycle.book.spot
        /\ blind' = (blind \/ 0 < 0) /\ cycle.sold = (cycle.sold \/ 0 > 0)
        /\ faults' \in 0..MaxFaults /\ calm' = calm
      BY <1>1, <1>2, <1>4 DEF world
  <2>3. /\ FatesType(fates') /\ DOMAIN fates \subseteq DOMAIN fates'
        /\ cycle.book.pending \subseteq DOMAIN fates'
        /\ Traded(fates', "Buy", cycle.book.pending) = Traded(fates, "Buy", cycle.book.pending)
        /\ Traded(fates', "Buy", stored.pending) = Traded(fates, "Buy", stored.pending)
      BY <1>1, <1>4
  <2>4. cycle.good => cycle.good /\ MinOf(cycle.act.spot, cycle.book.spot) - 0 < SpotMin
      BY <2>1 DEF q
  <2>5. 0 \in Nat /\ 0 <= 0
      OBVIOUS
  <2>6. cycle' = Onward(cycle)
      BY <1>4
  <2>7. \A e \in cycle.book.pending : e.side = "Buy" => e \in cycle.book.pending
      OBVIOUS
  <2>2. SpotRun(cycle, 0, 0)
      BY ONLY <1>1, <2>1, <2>3, <2>4, <2>5, <2>6, <2>7, ZenonT(30) DEF SpotRun
  <2>. QED
      BY <2>2
<1>5. ASSUME NEW x \in Sales(q), NEW entries,
             entries = IF x.unknown THEN {NewEntry("Sell")} ELSE {},
             Disowned(~x.unknown /\ x.seen < x.real),
             wallet' = wallet - x.real,
             fates' = IF x.unknown THEN Fated(NewEntry("Sell"), x.real - x.seen) ELSE fates,
             blind' = (blind \/ x.seen < x.real),
             cycle' = Onward([cycle EXCEPT
                     !.book = Journaled([cycle.book EXCEPT !.spot = MaxOf(0, @ - x.seen)], entries),
                     !.escalate = @ \/ x.refused, !.sold = @ \/ x.real > 0,
                     !.good = @ /\ ~x.unknown /\ q - x.seen < SpotMin])
      PROVE  \E c, real, seen : SpotRun(c, real, seen)
  <2>1. /\ x.real \in 0..MinOf(q, wallet) /\ x.seen \in 0..q /\ x.unknown \in BOOLEAN
        /\ x.refused \in BOOLEAN
        /\ x.seen <= x.real /\ (x.unknown => x.seen < q /\ Room)
      BY DEF Sales
  <2>2. /\ x.real \in Nat /\ x.real <= cycle.act.spot /\ x.real <= wallet
        /\ x.seen \in Nat /\ x.seen <= x.real /\ x.seen <= cycle.book.spot
        /\ x.real - x.seen \in Nat
      BY <1>1, <1>2, <2>1
  <2>21. faults' \in 0..MaxFaults /\ calm' = calm
      BY <1>5, DisownedIs
  <2>22. PICK sold \in BOOLEAN : sold = (cycle.sold \/ x.real > 0)
      OBVIOUS
  <2>23. PICK good \in BOOLEAN : good = (cycle.good /\ ~x.unknown /\ q - x.seen < SpotMin)
      OBVIOUS
  <2> DEFINE rest == cycle.book.spot - x.seen
             e == NewEntry("Sell")
             b == Journaled([cycle.book EXCEPT !.spot = rest], entries)
             n == [cycle EXCEPT !.book = b, !.escalate = @ \/ x.refused,
                                !.sold = sold, !.good = good]
  <2>3. rest \in Nat /\ MaxOf(0, cycle.book.spot - x.seen) = rest
      BY <1>1, <2>2
  <2>4. cycle' = Onward(n)
      BY <1>5, <2>3, <2>22, <2>23
  <2>5. x.unknown => e \in Entry /\ e \notin DOMAIN fates /\ e.side = "Sell"
      BY <2>1, NewEntryIs
  <2>6. /\ FatesType(fates') /\ DOMAIN fates' = DOMAIN fates \cup entries
        /\ Traded(fates', "Buy", cycle.book.pending \cup entries)
           = Traded(fates, "Buy", cycle.book.pending)
        /\ Traded(fates', "Buy", stored.pending) = Traded(fates, "Buy", stored.pending)
    <3>1. CASE x.unknown
      <4>1. fates' = Fated(NewEntry("Sell"), x.real - x.seen) /\ entries = {NewEntry("Sell")}
          BY <1>5, <3>1
      <4>2. /\ FatesType(fates') /\ DOMAIN fates' = DOMAIN fates \cup {NewEntry("Sell")}
            /\ Traded(fates', "Buy", cycle.book.pending \cup {NewEntry("Sell")})
               = Traded(fates, "Buy", cycle.book.pending)
          BY <1>1, <2>2, <2>5, <3>1, <4>1, OneMore
      <4>3. Traded(fates', "Buy", stored.pending) = Traded(fates, "Buy", stored.pending)
          BY <1>1, <2>2, <2>5, <3>1, <4>1, OneMore
      <4>. QED
          BY <4>1, <4>2, <4>3
    <3>2. CASE ~x.unknown
      <4>1. fates' = fates /\ entries = {} /\ cycle.book.pending \cup {} = cycle.book.pending
          BY <1>5, <3>2
      <4>. QED
          BY <1>1, <4>1
    <3>. QED
        BY <2>1, <3>1, <3>2
  <2>7. entries \subseteq Entry /\ \A y \in entries : y.side # "Buy"
      BY <1>5, <2>5
  <2>8. entries # {} => x.unknown
      BY <1>5
  <2> HIDE DEF rest
  <2>9. /\ b \in Book /\ b.spot = rest /\ b.dust = cycle.book.dust /\ b.perp = cycle.book.perp
        /\ b.pending = cycle.book.pending \cup entries /\ b.status = cycle.book.status
      BY <1>1, <2>3, <2>7 DEF Book, Journaled
  <2> HIDE DEF b
  <2>10. NothingHeld(cycle.book) => NothingHeld(b)
    <3>1. SUFFICES ASSUME cycle.book.status = "FLAT", cycle.book.spot = 0, cycle.book.pending = {}
                   PROVE  b.spot = 0 /\ b.pending = {}
        BY <2>9 DEF NothingHeld
    <3>2. q = 0
        BY <1>1, <1>2, <3>1
    <3>3. ~x.unknown /\ x.seen = 0
        BY <2>1, <3>2
    <3>. QED
        BY <2>8, <2>9, <3>1, <3>3 DEF rest
  <2>11. /\ n \in Cycle /\ n.pc = "leg" /\ n.legs = cycle.legs /\ n.act = cycle.act
         /\ n.book = b /\ n.known = cycle.known /\ n.sold = sold /\ n.good = good
         /\ n.escalate = (cycle.escalate \/ x.refused)
      BY <1>1, <2>1, <2>9 DEF Cycle
  <2> HIDE DEF n
  <2>12. b.pending \subseteq DOMAIN fates'
         /\ \A y \in b.pending : y.side = "Buy" => y \in cycle.book.pending
      BY <1>1, <2>6, <2>7, <2>9
  <2>13. /\ n.book \in Book /\ n.book.spot = cycle.book.spot - x.seen
         /\ n.book.dust = cycle.book.dust /\ n.book.perp = cycle.book.perp
         /\ n.book.pending \subseteq DOMAIN fates'
         /\ \A y \in n.book.pending : y.side = "Buy" => y \in cycle.book.pending
         /\ NothingHeld(cycle.book) => NothingHeld(n.book)
         /\ Traded(fates', "Buy", n.book.pending) = Traded(fates, "Buy", cycle.book.pending)
      BY <2>6, <2>9, <2>10, <2>11, <2>12 DEF rest
  <2>14. n.good => cycle.good /\ MinOf(cycle.act.spot, cycle.book.spot) - x.seen < SpotMin
      BY <2>11, <2>23 DEF q
  <2>15. (~n.escalate => ~cycle.escalate) /\ n.sold = (cycle.sold \/ x.real > 0)
      BY <1>1, <2>11, <2>22
  <2>16. DOMAIN fates \subseteq DOMAIN fates'
      BY <2>6
  <2>17. SpotRun(n, x.real, x.seen)
      BY ONLY <1>5, <2>2, <2>21, <2>4, <2>6, <2>11, <2>13, <2>14, <2>15, <2>16, ZenonT(30)
         DEF SpotRun
  <2>. QED
      BY <2>17
<1>. QED
    BY <1>3, <1>4, <1>5

LEMMA SpotLegKeeps == IInv /\ SpotLeg => IInv'
<1> SUFFICES ASSUME IInv, SpotLeg PROVE IInv'
    OBVIOUS
<1> USE DEF IInv
<1>1. /\ cycle.pc = "leg" /\ Head(cycle.legs) = "spot"
      /\ UNCHANGED <<short, stored, foreign, doubled, lost, adopted>>
    BY DEF SpotLeg
<1>2. PICK c, real, seen : SpotRun(c, real, seen)
    BY SpotLegRuns
<1> DEFINE q == PerpToClose(cycle.act, cycle.book)
<1>3. /\ cycle \in Cycle /\ cycle.book \in Book /\ cycle.act \in Action /\ q \in Nat
      /\ cycle.legs \in Legs /\ cycle.legs # <<>> /\ cycle.act.spot \in Nat
      /\ short \in Nat /\ wallet \in Nat /\ cycle.book.spot \in Nat /\ foreign \in Nat
      /\ cycle.book.dust \in Nat /\ blind \in BOOLEAN /\ doubled \in BOOLEAN
      /\ cycle.good => cycle.known
    BY <1>1, Numbers, PerpToCloseIs DEF Cycle, Action, Book, Phases, CycleTypeOK
<1>4. /\ real \in Nat /\ real <= cycle.act.spot /\ real <= wallet /\ wallet' = wallet - real
      /\ seen \in Nat /\ seen <= real /\ seen <= cycle.book.spot
      /\ blind' = (blind \/ seen < real) /\ faults' \in 0..MaxFaults /\ calm' = calm
    BY <1>2 DEF SpotRun
<1>41. Heard' => Heard /\ seen = real
  <2>1. Heard' => Heard /\ ~(seen < real)
      BY <1>1, <1>4
  <2>2. ~(seen < real) => seen = real
      BY <1>4
  <2>. QED
      BY <2>1, <2>2
<1>5. cycle.legs = <<"spot">> \/ cycle.legs = <<"spot", "perp">>
    BY <1>1, <1>3, LegsAre
<1>6. /\ c \in Cycle /\ c.pc = "leg" /\ c.legs = cycle.legs /\ c.act = cycle.act
      /\ c.book \in Book /\ c.book.spot = cycle.book.spot - seen
      /\ c.book.dust = cycle.book.dust /\ c.book.perp = cycle.book.perp
      /\ c.known = cycle.known /\ c.sold = (cycle.sold \/ real > 0) /\ cycle' = Onward(c)
    BY <1>2 DEF SpotRun
<1>7. (c.good => cycle.good /\ MinOf(cycle.act.spot, cycle.book.spot) - seen < SpotMin)
      /\ (~c.escalate => ~cycle.escalate)
    BY <1>2 DEF SpotRun
<1>71. /\ FatesType(fates') /\ DOMAIN fates \subseteq DOMAIN fates'
       /\ NothingHeld(cycle.book) => NothingHeld(c.book)
       /\ c.book.pending \subseteq DOMAIN fates'
       /\ \A e \in c.book.pending : e.side = "Buy" => e \in cycle.book.pending
       /\ Traded(fates', "Buy", c.book.pending) = Traded(fates, "Buy", cycle.book.pending)
       /\ Traded(fates', "Buy", stored.pending) = Traded(fates, "Buy", stored.pending)
    BY <1>2 DEF SpotRun
<1>8. cycle.legs = <<"spot">> =>
         /\ cycle' \in Cycle /\ cycle'.pc = "save" /\ SameCoins(cycle'.book, c.book)
         /\ cycle'.good = c.good /\ cycle'.known = c.known /\ cycle'.sold = c.sold /\ cycle'.escalate = c.escalate
    BY <1>6, OnwardEnds
<1>9. cycle.legs = <<"spot", "perp">> =>
         /\ cycle' \in Cycle /\ cycle'.pc = "leg" /\ cycle'.legs = <<"perp">>
         /\ cycle'.act = cycle.act /\ cycle'.book = c.book
         /\ cycle'.good = c.good /\ cycle'.known = c.known /\ cycle'.sold = c.sold /\ cycle'.escalate = c.escalate
  <2>1. ASSUME cycle.legs = <<"spot", "perp">>
        PROVE  /\ cycle' = [c EXCEPT !.legs = <<"perp">>] /\ cycle'.pc = "leg"
               /\ cycle'.legs = <<"perp">>
               /\ cycle'.act = cycle.act /\ cycle'.book = c.book
               /\ cycle'.good = c.good /\ cycle'.known = c.known /\ cycle'.sold = c.sold
               /\ cycle'.escalate = c.escalate
    <3>1. c.legs = <<"spot", "perp">>
        BY <1>6, <2>1
    <3>. QED
        BY <3>1, <1>6, OnwardIs, TwoLegs
  <2>. QED
      BY <1>6, <2>1, OnwardTyped
<1>10. SameCoins(cycle'.book, c.book) /\ cycle'.book.spot \in Nat
       /\ cycle'.book.spot <= cycle.book.spot - seen
  <2>1. SameCoins(c.book, c.book)
      BY <1>6 DEF SameCoins, Book
  <2>2. SameCoins(cycle'.book, c.book)
      BY <1>5, <1>8, <1>9, <2>1
  <2>. QED
      BY <1>6, <2>2 DEF SameCoins, Book
<1>11. wallet' \in Nat /\ wallet' <= wallet
    BY <1>3, <1>4
<1>12. /\ CycleTypeOK' /\ Phases' /\ FlatIsEmpty' /\ OnePosition'
       /\ Owned' /\ DustIsSmall' /\ DustIsUsed'
  <2>1. Claim(fates', cycle'.book) = Claim(fates', c.book)
      BY <1>6, <1>10, SameClaim
  <2> DEFINE t == Traded(fates, "Buy", cycle.book.pending)
  <2>2. t \in Nat
      BY Numbers, TradedNat
  <2>3. Claim(fates', c.book) = (cycle.book.spot - seen) + cycle.book.dust + t
        /\ Claim(fates, cycle.book) = cycle.book.spot + cycle.book.dust + t
      BY <1>6, <1>71 DEF Claim
  <2> HIDE DEF t
  <2>4. Heard' => foreign + Claim(fates', cycle'.book) <= wallet'
    <3>1. SUFFICES ASSUME Heard' PROVE foreign + Claim(fates', cycle'.book) <= wallet'
        OBVIOUS
    <3>2. Heard /\ seen = real
        BY <1>41, <3>1
    <3>3. foreign + Claim(fates, cycle.book) <= wallet
        BY <3>2 DEF Owned
    <3>. QED
        BY <1>3, <1>4, <2>1, <2>2, <2>3, <3>2, <3>3, SMTT(30)
  <2>5. Dusty(cycle.book) => Dusty(cycle'.book)
    <3>1. Dusty(cycle.book) => Dusty(c.book)
      <4>1. c.book.dust = cycle.book.dust /\ c.book.spot <= cycle.book.spot
            /\ cycle.book.dust \in Nat /\ c.book.spot \in Nat /\ cycle.book.spot \in Nat
          BY <1>3, <1>4, <1>6 DEF Book
      <4>2. cycle.book.dust + cycle.book.spot <= SpotMin => c.book.dust + c.book.spot <= SpotMin
          BY <4>1
      <4>. QED
          BY <1>71, <4>1, <4>2 DEF Dusty
    <3>. QED
        BY <3>1, <1>10 DEF SameCoins
  <2>6. NothingHeld(cycle.book) => NothingHeld(cycle'.book)
      BY <1>10, <1>71 DEF SameCoins
  <2>7. cycle'.book.pending \subseteq DOMAIN fates' /\ stored.pending \subseteq DOMAIN fates'
      BY <1>10, <1>71, Numbers DEF SameCoins
  <2>8. cycle' \in Cycle /\ cycle'.pc \in {"leg", "save"}
        /\ (cycle'.pc = "leg" => cycle'.legs # <<>>)
        /\ (cycle'.good => cycle.good) /\ cycle'.known = cycle.known
      BY <1>5, <1>6, <1>7, <1>8, <1>9, TwoLegs
  <2>9. blind' \in BOOLEAN /\ doubled' \in BOOLEAN
      BY <1>1, <1>3, <1>4
  <2>10. short' \in Nat /\ short' <= short /\ lost' \in Nat /\ adopted' \in BOOLEAN
      BY <1>1, <1>3, Numbers DEF CycleTypeOK
  <2>11. Heard' /\ ~cycle'.sold => foreign + Claim(fates', stored) <= wallet'
    <3>1. SUFFICES ASSUME Heard', ~cycle'.sold PROVE foreign + Claim(fates', stored) <= wallet'
        OBVIOUS
    <3>2. ~cycle.sold /\ ~(real > 0)
        BY <1>5, <1>6, <1>8, <1>9, <3>1
    <3>3. wallet' = wallet
        BY <1>3, <1>4, <3>2
    <3>4. Claim(fates', stored) = Claim(fates, stored)
        BY <1>71 DEF Claim
    <3>5. foreign + Claim(fates, stored) <= wallet
        BY <1>41, <3>1, <3>2 DEF Owned
    <3>. QED
        BY <3>3, <3>4, <3>5
  <2>. QED
      BY <1>1, <1>4, <1>41, <1>11, <1>71, <2>4, <2>5, <2>6, <2>7, <2>8, <2>9, <2>10, <2>11,
         LegKeeps
<1>13. LostKept'
  <2>1. ~(lost > 0 /\ ~adopted)
    <3>1. <<"perp">> # <<"spot">> /\ <<"perp">> # <<"spot", "perp">>
        OBVIOUS
    <3>. QED
        BY <1>1, <1>5, <3>1 DEF LostKept
  <2>. QED
      BY <1>1, <2>1 DEF LostKept
<1>14. cycle.known /\ ~cycle.escalate => Bears(cycle.act, cycle.legs, cycle.book)
    BY <1>1 DEF OnTheWay
<1>15. cycle.good /\ Heard => Settles(cycle.act, cycle.legs, cycle.book)
    BY <1>1 DEF Settling
<1>16. ASSUME NEW s \in Nat, Bearable(s, wallet - cycle.act.spot)
       PROVE  Bearable(s, wallet')
  <2>1. PICK w \in Int : w = wallet - cycle.act.spot
      BY <1>3
  <2>2. PICK v \in Int : v = wallet'
      BY <1>11
  <2>3. w <= v
      BY <1>3, <1>4, <2>1, <2>2
  <2>4. Bearable(s, w)
      BY <1>16, <2>1
  <2>5. Bearable(s, v)
      BY <1>16, <2>3, <2>4, BearableMore
  <2>. QED
      BY <2>2, <2>5
(* With less than a sale left of it, no spot is. *)
<1>17. ASSUME cycle'.good, Heard',
              \/ MinOf(cycle.book.spot, wallet) < SpotMin
              \/ cycle.act.spot = MinOf(cycle.book.spot, wallet)
       PROVE  MinOf(cycle'.book.spot, wallet') < SpotMin
  <2>1. MinOf(cycle.act.spot, cycle.book.spot) - seen < SpotMin
      BY <1>5, <1>7, <1>8, <1>9, <1>17
  <2>2. seen = real
      BY <1>41, <1>17
  <2>. QED
      BY <1>3, <1>4, <1>10, <1>17, <2>1, <2>2, SMTT(30)
<1>18. CASE cycle.legs = <<"spot">>
  <2>1. ToClose(cycle.act, cycle.legs, cycle.book) = 0
        /\ ToSell(cycle.act, cycle.legs) = cycle.act.spot
      BY <1>18, ToCloseIs
  <2>2. cycle'.known /\ ~cycle'.escalate => Bearable(short, wallet)'
    <3>1. SUFFICES ASSUME cycle.known, ~cycle.escalate PROVE Bearable(short, wallet')
        BY <1>1, <1>6, <1>7, <1>8, <1>18 DEF Bearable
    <3>2. Bearable(short - 0, wallet - cycle.act.spot) /\ short - 0 = short
        BY <1>3, <1>14, <2>1, <3>1 DEF Bears
    <3>. QED
        BY <1>3, <1>16, <3>2
  <2>3. cycle'.good /\ Heard' /\ short' = 0 => MinOf(cycle'.book.spot, wallet') < SpotMin
    <3>1. SUFFICES ASSUME cycle'.good, Heard', short = 0
                   PROVE  MinOf(cycle'.book.spot, wallet') < SpotMin
        BY <1>1
    <3>2. cycle.good /\ Heard
        BY <1>41, <1>7, <1>8, <1>18, <3>1
    <3>3. \/ short > 0 \/ MinOf(cycle.book.spot, wallet) < SpotMin
          \/ cycle.act.spot = MinOf(cycle.book.spot, wallet)
        BY <1>15, <2>1, <3>2 DEF Settles
    <3>. QED
        BY <1>17, <3>1, <3>3
  <2>4. cycle'.pc = "save" /\ (cycle'.good => cycle'.known)
      BY <1>3, <1>6, <1>7, <1>8, <1>18
  <2>5. OnTheWay' /\ Settling'
      BY <1>12, <2>2, <2>3, <2>4, AtSave
  <2>. QED
      BY <1>12, <1>13, <2>5
<1>19. CASE cycle.legs = <<"spot", "perp">>
  <2>1. ToClose(cycle.act, cycle.legs, cycle.book) = q
        /\ ToSell(cycle.act, cycle.legs) = cycle.act.spot
      BY <1>19, ToCloseIs
  <2>2. /\ cycle'.pc = "leg" /\ cycle'.legs = <<"perp">> /\ cycle'.act = cycle.act
        /\ cycle'.known = cycle.known /\ cycle'.book.perp = cycle.book.perp
        /\ (cycle'.good => cycle.good)
        /\ (~cycle'.escalate => ~cycle.escalate)
      BY <1>6, <1>7, <1>9, <1>19
  <2>3. ToClose(cycle'.act, cycle'.legs, cycle'.book) = q
        /\ ToSell(cycle'.act, cycle'.legs) = 0
      BY <2>2, ToCloseIs DEF PerpToClose
  <2> HIDE DEF q
  <2>4. OnTheWay'
    <3>1. SUFFICES ASSUME cycle.known, ~cycle.escalate
                   PROVE  q \in 0..short /\ 0 <= wallet' /\ Bearable(short - q, wallet' - 0)
        BY <1>1, <2>2, <2>3 DEF OnTheWay, Bears, Bearable
    <3>2. q \in 0..short /\ Bearable(short - q, wallet - cycle.act.spot)
        BY <1>14, <2>1, <3>1 DEF Bears
    <3>21. q \in 0..short /\ short \in Nat /\ wallet' \in Nat
        BY <1>3, <1>11, <3>2
    <3>3. short - q \in Nat /\ wallet' - 0 = wallet' /\ 0 <= wallet'
      <4>1. short - q \in Nat
          BY ONLY <3>21
      <4>2. \A y \in Nat : y - 0 = y /\ 0 <= y
          OBVIOUS
      <4>. QED
          BY ONLY <3>21, <4>1, <4>2, Zenon
    <3>4. Bearable(short - q, wallet')
        BY <1>16, <3>2, <3>3
    <3>. QED
        BY <3>2, <3>3, <3>4
  <2>5. Settling'
    <3>1. SUFFICES ASSUME cycle'.good, Heard'
                   PROVE  \/ short > q \/ MinOf(cycle'.book.spot, wallet') < SpotMin
        BY <1>1, <2>2, <2>3 DEF Settling, Settles
    <3>2. cycle.good /\ Heard
        BY <1>41, <2>2, <3>1
    <3>3. \/ short > q \/ MinOf(cycle.book.spot, wallet) < SpotMin
          \/ cycle.act.spot = MinOf(cycle.book.spot, wallet)
        BY <1>15, <2>1, <3>2 DEF Settles
    <3>. QED
        BY <1>17, <3>1, <3>3
  <2>. QED
      BY <1>12, <1>13, <2>4, <2>5
<1>. QED
    BY <1>5, <1>18, <1>19

-----------------------------------------------------------------------------
(* The plan, case by case.                                                 *)

(* What a snapshot can say.                                                *)
Looked(s) ==
    /\ s.pos \in {short, Unread} /\ s.wallet \in {wallet, Unread}
    /\ s.market \in BOOLEAN /\ s.adopt \in BOOLEAN

LEMMA DoIs ==
  ASSUME NEW kind \in {"ENTER", "EXIT", "TRIM", "REBALANCE"}, NEW legs \in Legs,
         NEW perp \in Nat \cup {Unread}, NEW spot \in Int,
         NEW s, s.pos \in Nat \cup {Unread}, NEW a, a = Do(kind, legs, perp, spot, s)
  PROVE  /\ a \in Action /\ a.kind = kind /\ a.legs = legs /\ a.perp = perp
         /\ a.pos = s.pos /\ a.spot = MaxOf(spot, 0)
  BY DEF Do, Action

(* The nine ways a plan comes out.                                         *)
LEMMA PlanIs ==
  ASSUME NEW book, NEW s, NEW p, p = PlanOf(book, s),
         NEW c, c = Counted(book, s), NEW b, b = Adopted(c, s), NEW r, r = Reconciled(b, s)
  PROVE  \/ /\ c.status = "OPEN" /\ s.pos = Unread
            /\ p = Result(Do("EXIT", <<"spot", "perp">>, IF c.perp > 0 THEN c.perp ELSE Unread,
                              IF s.wallet = Unread THEN c.spot ELSE Spot(c, s), s), c)
         \/ LostBook(c, s) /\ p = Mismatch(c, s)
         \/ /\ ~LostBook(c, s) /\ Orphan(b, s)
            /\ p = Result(Do("EXIT", IF s.pos = 0 THEN <<"spot">> ELSE <<"perp">>, Unread,
                              IF s.pos = 0 THEN Spot(b, s) ELSE 0, s), b)
         \/ /\ ~LostBook(c, s) /\ ~Orphan(b, s) /\ r.status = "OPEN"
            /\ \/ p = Result(Do("EXIT", <<"perp", "spot">>, Unread, Spot(r, s), s), r)
               \/ p = Result(Do("EXIT", <<"spot", "perp">>, Unread, Spot(r, s), s), r)
               \/ /\ Known(s) /\ s.market /\ Reduction(r, s) # NoAction
                  /\ p = Result(Reduction(r, s), r)
               \/ /\ Known(s) /\ s.market => Reduction(r, s) = NoAction
                  /\ p = Result(NoAction, r)
         \/ /\ ~LostBook(c, s) /\ ~Orphan(b, s) /\ r.status # "OPEN"
            /\ \/ /\ Known(s) /\ s.market
                  /\ p = Result(Do("ENTER", <<>>, Quantity, MinOf(r.dust, s.wallet), s), r)
               \/ p = Result(NoAction, r)
<1> DEFINE leave == IF s.say = "emergency" THEN <<"perp", "spot">> ELSE <<"spot", "perp">>
<1>1. CASE c.status = "OPEN" /\ s.pos = Unread /\ c.unread >= UnreadableExit
  <2>1. ~LostBook(c, s) /\ ~Orphan(b, s)
      BY <1>1 DEF LostBook, Orphan, Known
  <2>. QED
      BY <1>1, <2>1 DEF PlanOf
<1>2. CASE LostBook(c, s)
  <2>1. ~(c.status = "OPEN")
      BY <1>2 DEF LostBook
  <2>. QED
      BY <1>2, <2>1 DEF PlanOf
<1>3. CASE ~LostBook(c, s) /\ Orphan(b, s)
  <2>1. ~(s.pos = Unread)
      BY <1>3 DEF Orphan, Known
  <2>. QED
      BY <1>3, <2>1 DEF PlanOf
<1>4. CASE ~LostBook(c, s) /\ ~Orphan(b, s)
           /\ ~(c.status = "OPEN" /\ s.pos = Unread /\ c.unread >= UnreadableExit)
  <2>1. p = IF r.status = "OPEN"
            THEN IF s.say \in {"unwind", "exit", "emergency"}
                 THEN Result(Do("EXIT", leave, Unread, Spot(r, s), s), r)
                 ELSE IF Known(s) /\ s.market /\ Reduction(r, s) # NoAction
                 THEN Result(Reduction(r, s), r)
                 ELSE IF s.market /\ s.say = "leave"
                 THEN Result(Do("EXIT", <<"spot", "perp">>, Unread, Spot(r, s), s), r)
                 ELSE Result(NoAction, r)
            ELSE IF MayEnter(b, r, s)
            THEN Result(Do("ENTER", <<>>, Quantity, MinOf(r.dust, s.wallet), s), r)
            ELSE Result(NoAction, r)
      BY <1>4 DEF PlanOf
  <2>2. MayEnter(b, r, s) => Known(s) /\ s.market
      BY DEF MayEnter
  <2>3. leave = <<"perp", "spot">> \/ leave = <<"spot", "perp">>
      OBVIOUS
  <2> HIDE DEF leave
  <2>4. CASE r.status = "OPEN"
      BY <1>4, <2>1, <2>3, <2>4
  <2>5. CASE r.status # "OPEN"
      BY <1>4, <2>1, <2>2, <2>5
  <2>. QED
      BY <2>4, <2>5
<1>. QED
    BY <1>1, <1>2, <1>3, <1>4

(* What becomes of the book before anything is decided.                    *)
Lesser(p, b) ==
    /\ p \in Book /\ p.spot + p.dust <= b.spot + b.dust
    /\ p.pending = b.pending \/ p.pending = {}
    /\ NothingHeld(p)
    /\ Dusty(b) => Dusty(p)

LEMMA CountedIs ==
  ASSUME NEW book \in Book, NEW s, NEW c, c = Counted(book, s)
  PROVE  /\ c \in Book /\ c.status = book.status /\ c.perp = book.perp /\ c.spot = book.spot
         /\ c.dust = book.dust /\ c.pending = book.pending
<1> DEFINE n == IF s.pos = Unread THEN MinOf(book.unread + 1, UnreadableExit) ELSE 0
<1>1. n \in 0..UnreadableExit
    BY DEF Book
<1>2. c = book \/ c = [book EXCEPT !.unread = n]
    BY DEF Counted
<1> HIDE DEF n
<1>. QED
    BY <1>1, <1>2 DEF Book

LEMMA AdoptedIs ==
  ASSUME NEW c \in Book, NothingHeld(c), NEW s, s.pos \in Nat \cup {Unread},
         NEW b, b = Adopted(c, s)
  PROVE  /\ b \in Book /\ b.spot = c.spot /\ b.dust = c.dust /\ b.pending = c.pending
         /\ NothingHeld(b)
         /\ b.status = "OPEN" <=> (c.status = "OPEN" \/ s.pos > 0)
<1>1. CASE c.status # "OPEN" /\ s.pos > 0
  <2>1. b = [c EXCEPT !.status = "OPEN", !.perp = s.pos, !.spot = 0]
      BY <1>1 DEF Adopted
  <2>2. s.pos \in Nat /\ c.status = "FLAT" /\ c.spot = 0
      BY <1>1 DEF NothingHeld, Book
  <2>. QED
      BY <1>1, <2>1, <2>2 DEF Book, NothingHeld
<1>2. CASE ~(c.status # "OPEN" /\ s.pos > 0)
    BY <1>2 DEF Adopted
<1>. QED
    BY <1>1, <1>2

LEMMA SpotIs ==
  ASSUME NEW b \in Book, NEW s, s.wallet \in {wallet, Unread}, wallet \in Nat, NothingHeld(b)
  PROVE  /\ Spot(b, s) \in Int
         /\ s.wallet # Unread => Spot(b, s) = MinOf(wallet, b.spot) /\ Spot(b, s) \in Nat
  BY DEF Spot, Held, NothingHeld, Book

LEMMA ReconciledIs ==
  ASSUME NEW b \in Book, NothingHeld(b), NEW s, Looked(s), wallet \in Nat,
         ~Orphan(b, s), NEW r, r = Reconciled(b, s)
  PROVE  /\ Lesser(r, b)
         /\ r.status = "OPEN" => r = b /\ (Known(s) => s.pos # 0)
         /\ Known(s) /\ s.pos # 0 /\ b.status = "OPEN" => r.status = "OPEN"
<1>1. CASE b.status = "OPEN" /\ Known(s) /\ s.pos = 0
  <2> DEFINE n == b.dust + Spot(b, s)
  <2>1. r = [Empty EXCEPT !.dust = n]
      BY <1>1 DEF Reconciled
  <2>2. Spot(b, s) \in Nat /\ Spot(b, s) <= b.spot /\ b.spot \in Nat /\ b.dust \in Nat
      BY <1>1, SpotIs DEF Known, Looked, Book
  <2>3. Spot(b, s) <= SpotMin
      BY <1>1, <2>2 DEF Orphan, Dust
  <2>4. n \in Nat /\ n <= b.spot + b.dust /\ (b.dust = 0 => n <= SpotMin)
      BY <2>2, <2>3
  <2> HIDE DEF n
  <2>5. r \in Book /\ r.status = "FLAT" /\ r.spot = 0 /\ r.pending = {} /\ r.dust = n
      BY <2>1, <2>4 DEF Empty, Book
  <2>6. NothingHeld(r)
      BY <2>5 DEF NothingHeld
  <2>7. Dusty(b) => Dusty(r)
    <3>1. Dusty(b) => n <= SpotMin
        BY <2>2, <2>4 DEF Dusty
    <3>2. n <= SpotMin => Dusty(r)
        BY <2>4, <2>5 DEF Dusty
    <3>. QED
        BY <3>1, <3>2
  <2>8. Lesser(r, b)
      BY <2>4, <2>5, <2>6, <2>7 DEF Lesser
  <2>. QED
      BY <1>1, <2>5, <2>8
<1>2. CASE ~(b.status = "OPEN" /\ Known(s) /\ s.pos = 0)
  <2>1. r = b
      BY <1>2 DEF Reconciled
  <2>2. Lesser(b, b)
      BY DEF Lesser, Book
  <2>. QED
      BY <1>2, <2>1, <2>2
<1>. QED
    BY <1>1, <1>2

(* What a plan has to keep to.                                             *)
Sane(act, bk) ==
    /\ act \in Action /\ bk \in Book /\ NothingHeld(bk)
    /\ bk.pending \subseteq cycle.book.pending
    /\ act.kind \notin {"NONE", "ENTER"} => act.legs # <<>>
    /\ act.kind = "ENTER" =>
          /\ short = 0 /\ act.perp = Quantity /\ bk.status = "FLAT"
          /\ act.spot <= bk.dust /\ act.spot <= wallet
          /\ bk.dust <= wallet => act.spot = bk.dust
Adopts(s) == s.adopt /\ LostBook(cycle.book, s)
Lawful(act, bk, s) ==
    IF Adopts(s)
    THEN /\ bk.status = "OPEN" /\ bk.pending = {} /\ bk.dust = cycle.book.dust
         /\ bk.spot <= wallet /\ act.kind # "ENTER"
    ELSE Claim(fates, bk) <= Claim(fates, cycle.book) /\ (Dusty(cycle.book) => Dusty(bk))
HedgeIsKept(act, bk, s) ==
    lost > 0 /\ ~adopted /\ ~Adopts(s) =>
        /\ bk.status = "FLAT"
        /\ \/ act.kind = "NONE"
           \/ /\ act.kind = "REBALANCE" /\ act.legs = <<"perp">>
              /\ act.perp \in Nat /\ short - act.perp >= lost
Safe(act, bk, s) ==
    Known(s) /\ s.market =>
        /\ act.kind = "NONE" => /\ Bearable(short, wallet)
                                /\ short = 0 => MinOf(bk.spot, wallet) < SpotMin
        /\ act.kind \notin {"NONE", "ENTER"} =>
              Bears(act, act.legs, bk) /\ Settles(act, act.legs, bk)
Sound(act, bk, s) == Sane(act, bk) /\ Lawful(act, bk, s) /\ HedgeIsKept(act, bk, s) /\ Safe(act, bk, s)

LEMMA LesserClaims ==
  ASSUME FatesType(fates), NEW b \in Book, b.pending \in SUBSET DOMAIN fates, NEW p, Lesser(p, b)
  PROVE  Claim(fates, p) <= Claim(fates, b)
<1>1. Traded(fates, "Buy", b.pending) \in Nat /\ Traded(fates, "Buy", {}) = 0
    BY TradedNat, TradedNothing
<1>2. CASE p.pending = b.pending
    BY <1>1, <1>2 DEF Lesser, Claim, Book
<1>3. CASE p.pending = {}
    BY <1>1, <1>3 DEF Lesser, Claim, Book
<1>. QED
    BY <1>2, <1>3 DEF Lesser

(* The coins of a book, the way the plan has changed it.                   *)
LEMMA LesserThanBefore ==
  ASSUME NEW book \in Book, NothingHeld(book), NEW s, Looked(s), short \in Nat, wallet \in Nat,
         NEW c, c = Counted(book, s), NEW b, b = Adopted(c, s)
  PROVE  /\ c \in Book /\ Lesser(c, book) /\ c.status = book.status /\ c.dust = book.dust
         /\ c.pending = book.pending /\ c.spot = book.spot
         /\ Lesser(b, book) /\ b.spot = book.spot
         /\ b.status = "OPEN" <=> (c.status = "OPEN" \/ s.pos > 0)
<1>1. /\ c \in Book /\ c.status = book.status /\ c.perp = book.perp /\ c.spot = book.spot
      /\ c.dust = book.dust /\ c.pending = book.pending
    BY CountedIs
<1>2. NothingHeld(c)
    BY <1>1 DEF NothingHeld
<1>3. s.pos \in Nat \cup {Unread}
    BY DEF Looked
<1>4. /\ b \in Book /\ b.spot = c.spot /\ b.dust = c.dust /\ b.pending = c.pending
      /\ NothingHeld(b)
      /\ b.status = "OPEN" <=> (c.status = "OPEN" \/ s.pos > 0)
    BY <1>1, <1>2, <1>3, AdoptedIs
<1>5. Lesser(c, book)
    BY <1>1, <1>2 DEF Lesser, Dusty, Book
<1>6. Lesser(b, book)
    BY <1>1, <1>4 DEF Lesser, Dusty, Book
<1>. QED
    BY <1>1, <1>4, <1>5, <1>6

LEMMA LesserTwice ==
  ASSUME NEW b \in Book, NEW p, NEW q, Lesser(p, b), Lesser(q, p)
  PROVE  Lesser(q, b)
  BY DEF Lesser, Book

LEMMA NoActionFields ==
  NoAction.kind = "NONE" /\ NoAction.legs = <<>>
  BY DEF NoAction

(* What a rebalancing or trimming perp leg will close is what it says.     *)
LEMMA ClosesWhatItSays ==
  ASSUME NEW act, act.perp \in Nat, NEW b
  PROVE  PerpToClose(act, b) = act.perp
  BY DEF PerpToClose

(* A short beside too little spot is rebalanced away, one in a bad position *)
(* halved, or the legs are apart no more than allowed.                     *)
LEMMA ReductionIs ==
  ASSUME NEW r \in Book, NothingHeld(r), r.status = "OPEN", NEW s, Looked(s), Known(s), s.market,
         s.pos # 0, short \in Nat, wallet \in Nat, ~(Spot(r, s) < Dust(s)),
         NEW act, act = Reduction(r, s)
  PROVE  /\ act.kind # "NONE" =>
              /\ act \in Action /\ act.kind # "ENTER" /\ act.legs # <<>>
              /\ Bears(act, act.legs, r) /\ Settles(act, act.legs, r)
         /\ act = NoAction => Bearable(short, wallet)
<1> DEFINE spot == Spot(r, s)
           trim == FloorTo(s.pos \div 2, PerpStep)
           part == FloorTo(s.pos - spot, PerpStep)
<1>1. s.pos = short /\ s.wallet = wallet /\ short > 0
    BY DEF Looked, Known
<1>2. spot \in Nat /\ spot = MinOf(wallet, r.spot) /\ r.spot \in Nat /\ spot >= SpotMin
    BY <1>1, SpotIs DEF Known, Looked, Dust, Book
<1>21. spot <= wallet
    BY <1>2
<1>3. short \div 2 \in Nat /\ 2 * (short \div 2) <= short
    OBVIOUS
<1>4. trim \in Nat /\ 2 * trim <= short
  <2>1. FloorTo(short \div 2, PerpStep) \in Nat
        /\ FloorTo(short \div 2, PerpStep) <= short \div 2
      BY <1>3, FloorIs
  <2>. QED
      BY <1>1, <1>3, <2>1
<1>5. spot <= short => part \in Nat /\ part <= short - spot /\ short - spot < part + PerpStep
  <2>1. spot <= short => short - spot \in Nat
      BY <1>2
  <2>. QED
      BY <1>1, <2>1, FloorIs
<1> HIDE DEF spot, trim, part
<1>6. Drifted(r, s) <=> MaxOf(spot - short, short - spot) * 100 > DriftPct * short
  <2>1. -(spot - short) = short - spot
      BY <1>1, <1>2
  <2>. QED
      BY <1>1, <2>1 DEF Drifted, spot
<1>7. CASE Drifted(r, s) /\ spot > short
  <2>1. act = Do("REBALANCE", <<"spot">>, Unread, spot - short, s)
      BY <1>1, <1>7 DEF Reduction, spot
  <2>2. /\ act \in Action /\ act.kind = "REBALANCE" /\ act.legs = <<"spot">>
        /\ act.spot = spot - short
    <3>1. <<"spot">> \in Legs /\ spot - short \in Int /\ s.pos \in Nat \cup {Unread}
          /\ MaxOf(spot - short, 0) = spot - short
        BY <1>1, <1>2, <1>7 DEF Legs
    <3>. QED
        BY <2>1, <3>1, DoIs
  <2>3. ToClose(act, act.legs, r) = 0 /\ ToSell(act, act.legs) = spot - short
      BY <2>2, ToCloseIs
  <2>4. /\ short - 0 < (wallet - (spot - short)) + PerpStep /\ 0 \in 0..short
        /\ spot - short <= wallet
      BY <1>2, <1>21
  <2>5. Bears(act, act.legs, r) /\ Settles(act, act.legs, r)
      BY <1>1, <2>3, <2>4 DEF Bears, Bearable, Settles
  <2>. QED
      BY <2>2, <2>5, TwoLegs, NoActionFields
<1>8. CASE Drifted(r, s) /\ ~(spot > short)
  <2>1. act = Do("REBALANCE", <<"perp">>, part, 0, s)
      BY <1>1, <1>8 DEF Reduction, spot, part
  <2>2. spot <= short
      BY <1>2, <1>8
  <2>3. /\ act \in Action /\ act.kind = "REBALANCE" /\ act.legs = <<"perp">>
        /\ act.perp = part
    <3>1. <<"perp">> \in Legs /\ part \in Nat \cup {Unread} /\ s.pos \in Nat \cup {Unread}
        BY <1>1, <1>5, <2>2 DEF Legs
    <3>2. act = [kind |-> "REBALANCE", legs |-> <<"perp">>, perp |-> part,
                 spot |-> MaxOf(0, 0), pos |-> s.pos]
        BY ONLY <2>1 DEF Do
    <3>3. MaxOf(0, 0) \in Nat
        BY DEF MaxOf
    <3>4. act \in Action
        BY ONLY <3>1, <3>2, <3>3 DEF Action
    <3>. QED
        BY ONLY <3>2, <3>4
  <2>4. ToClose(act, act.legs, r) = part /\ ToSell(act, act.legs) = 0
      BY <1>5, <2>2, <2>3, ToCloseIs, ClosesWhatItSays
  <2>5. /\ short - part < (wallet - 0) + PerpStep /\ part \in 0..short /\ short > part
        /\ 0 <= wallet
      BY <1>2, <1>21, <1>5, <2>2
  <2>6. Bears(act, act.legs, r) /\ Settles(act, act.legs, r)
      BY <2>4, <2>5 DEF Bears, Bearable, Settles
  <2>. QED
      BY <2>3, <2>6, TwoLegs, NoActionFields
<1>9. ASSUME ~Drifted(r, s)
      PROVE  /\ \A w \in Nat : spot <= w => (short - w) * 100 <= DriftPct * short
             /\ DriftPct * short \in Nat
  <2>1. PICK d \in Nat : d = DriftPct * short
      OBVIOUS
  <2>2. MaxOf(spot - short, short - spot) * 100 <= d
      BY <1>2, <1>6, <1>9, <2>1
  <2>3. (short - spot) * 100 <= d
      BY <1>2, <2>1, <2>2
  <2>4. ASSUME NEW w \in Nat, spot <= w PROVE (short - w) * 100 <= d
      BY <1>2, <2>1, <2>3, <2>4
  <2>. QED
      BY <2>1, <2>4
<1>10. CASE ~Drifted(r, s) /\ s.say = "reduce" /\ trim > 0
  <2> DEFINE sold == MinOf(trim, spot)
  <2>1. act = Do("TRIM", <<"spot", "perp">>, trim, sold, s)
      BY <1>1, <1>10 DEF Reduction, spot, trim
  <2>2. sold \in Nat /\ sold <= wallet /\ (sold = trim \/ sold = spot) /\ MaxOf(sold, 0) = sold
        /\ sold <= trim
      BY <1>2, <1>21, <1>4
  <2> HIDE DEF sold
  <2>3. /\ act \in Action /\ act.kind = "TRIM" /\ act.legs = <<"spot", "perp">>
        /\ act.perp = trim /\ act.spot = sold
    <3>1. <<"spot", "perp">> \in Legs /\ trim \in Nat \cup {Unread} /\ s.pos \in Nat \cup {Unread}
          /\ sold \in Int
        BY <1>1, <1>4, <2>2 DEF Legs
    <3>. QED
        BY <2>1, <2>2, <3>1, DoIs
  <2>4. ToClose(act, act.legs, r) = trim /\ ToSell(act, act.legs) = sold
      BY <1>4, <2>3, ToCloseIs, ClosesWhatItSays
  <2>5. trim \in 0..short /\ short > trim
      BY <1>1, <1>4
  <2>6. (short - trim - (wallet - sold)) * 100 <= DriftPct * short
    <3>1. (short - wallet) * 100 <= DriftPct * short /\ (short - spot) * 100 <= DriftPct * short
          /\ DriftPct * short \in Nat
        BY <1>2, <1>21, <1>9, <1>10
    <3>2. PICK d \in Nat : d = DriftPct * short
        BY <3>1
    <3>3. CASE sold = trim
      <4>1. short - trim - (wallet - sold) = short - wallet
          BY <1>4, <2>2, <3>3
      <4>. QED
          BY <3>1, <4>1
    <3>4. CASE sold = spot
      <4>1. (short - trim - (wallet - sold)) * 100 <= (short - spot) * 100
          BY <1>2, <1>21, <1>4, <2>2, <3>4
      <4>2. (short - spot) * 100 <= d /\ short - spot \in Int
            /\ short - trim - (wallet - sold) \in Int
          BY <1>2, <1>4, <2>2, <3>1, <3>2
      <4>3. (short - trim - (wallet - sold)) * 100 <= d
          BY <4>1, <4>2
      <4>. QED
          BY <3>2, <4>3
    <3>. QED
        BY <2>2, <3>3, <3>4
  <2>7. DriftPct * short <= 2 * DriftPct * (short - trim)
    <3>1. PICK k \in Nat : k = 2 * (short - trim)
        BY <2>5
    <3>2. k >= short
        BY <1>4, <2>5, <3>1
    <3>3. DriftPct * short <= DriftPct * k
        BY <3>2
    <3>4. DriftPct * k = 2 * DriftPct * (short - trim)
        BY <2>5, <3>1
    <3>. QED
        BY <3>3, <3>4
  <2>8. Bearable(short - trim, wallet - sold)
    <3>1. PICK d \in Nat : d = DriftPct * short
        OBVIOUS
    <3>2. PICK f \in Nat : f = 2 * DriftPct * (short - trim)
        BY <2>5
    <3>3. PICK x \in Int : x = (short - trim - (wallet - sold)) * 100
        BY <1>4, <2>2
    <3>4. x <= f
        BY <2>6, <2>7, <3>1, <3>2, <3>3
    <3>. QED
        BY <3>2, <3>3, <3>4 DEF Bearable
  <2>9. Bears(act, act.legs, r) /\ Settles(act, act.legs, r)
      BY <2>2, <2>4, <2>5, <2>8 DEF Bears, Settles
  <2>10. <<"spot", "perp">> # <<>>
      OBVIOUS
  <2>. QED
      BY <2>3, <2>9, <2>10, NoActionFields
<1>11. CASE ~Drifted(r, s) /\ ~(s.say = "reduce" /\ trim > 0)
  <2>1. act = NoAction
      BY <1>1, <1>11 DEF Reduction, trim
  <2>2. (short - wallet) * 100 <= DriftPct * short /\ DriftPct * short \in Nat
      BY <1>21, <1>9, <1>11
  <2>3. PICK d \in Nat : d = DriftPct * short
      BY <2>2
  <2>4. 2 * DriftPct * short = d + d
      BY <2>3
  <2>5. (short - wallet) * 100 <= 2 * DriftPct * short
      BY <2>2, <2>3, <2>4
  <2>. QED
      BY <2>1, <2>5, NoActionFields DEF Bearable
<1>. QED
    BY <1>7, <1>8, <1>10, <1>11

(* A short the book does not hold.                                         *)
LEMMA MismatchIs ==
  ASSUME IInv, cycle.pc = "plan", NEW s, Looked(s), LostBook(cycle.book, s),
         NEW c \in Book, NothingHeld(c), c.status # "OPEN", c.spot = cycle.book.spot,
         c.dust = cycle.book.dust, c.pending = cycle.book.pending, Lesser(c, cycle.book),
         NEW p, p = Mismatch(c, s)
  PROVE  Sound(p.act, p.book, s)
<1> USE DEF IInv
<1> DEFINE held == MinOf(s.pos, MaxOf(s.wallet, 0))
           excess == IF s.market THEN FloorTo(s.pos - held, PerpStep) ELSE 0
           act == IF excess > 0 /\ s.wallet # Unread
                  THEN Do("REBALANCE", <<"perp">>, excess, 0, s) ELSE NoAction
           bk == IF s.adopt THEN [c EXCEPT !.status = "OPEN", !.perp = s.pos, !.spot = held] ELSE c
<1>1. p.act = act /\ p.book = bk
    BY DEF Mismatch, Result
<1>2. /\ short \in Nat /\ wallet \in Nat /\ lost \in Nat /\ cycle.book \in Book
      /\ FatesType(fates) /\ cycle.book.pending \in SUBSET DOMAIN fates
    BY Numbers
<1>3. /\ s.pos = short /\ short > 0 /\ s.market \in BOOLEAN
      /\ s.wallet = Unread \/ (s.wallet = wallet /\ wallet > Dust(s))
    BY DEF LostBook, Looked
<1>4. /\ held \in Nat /\ held <= short /\ held <= wallet
      /\ s.wallet = wallet => held = MinOf(short, wallet)
    BY <1>2, <1>3
<1>5. /\ excess \in Nat /\ excess <= short - held
      /\ s.market => short - held < excess + PerpStep
  <2>1. short - held \in Nat
      BY <1>2, <1>4
  <2>2. /\ FloorTo(short - held, PerpStep) \in Nat /\ FloorTo(short - held, PerpStep) <= short - held
        /\ short - held < FloorTo(short - held, PerpStep) + PerpStep
      BY <2>1, FloorIs
  <2>. QED
      BY <1>3, <2>1, <2>2
<1> HIDE DEF held, excess
<1>6. s.market /\ s.wallet = wallet => held > 0
    BY <1>2, <1>3, <1>4 DEF Dust
<1>7. \/ act = NoAction /\ (excess = 0 \/ s.wallet = Unread)
      \/ /\ act \in Action /\ act.kind = "REBALANCE" /\ act.legs = <<"perp">>
         /\ act.perp = excess /\ s.wallet = wallet
  <2>1. <<"perp">> \in Legs /\ excess \in Nat \cup {Unread} /\ s.pos \in Nat \cup {Unread}
      BY <1>2, <1>3, <1>5 DEF Legs
  <2>2. CASE excess > 0 /\ s.wallet # Unread
    <3>1. act = Do("REBALANCE", <<"perp">>, excess, 0, s)
        BY <2>2
    <3> HIDE DEF act
    <3>. QED
        BY <1>3, <2>1, <2>2, <3>1, DoIs
  <2>3. CASE ~(excess > 0 /\ s.wallet # Unread)
      BY <1>5, <2>3
  <2>. QED
      BY <2>2, <2>3
<1> HIDE DEF act
<1>8. c.status = "FLAT" /\ c.spot = 0 /\ c.pending = {}
    BY DEF NothingHeld, Book
<1>9. /\ bk \in Book /\ NothingHeld(bk) /\ bk.pending = {} /\ bk.dust = cycle.book.dust
      /\ s.adopt => bk.status = "OPEN" /\ bk.spot = held
      /\ ~s.adopt => bk = c
    BY <1>2, <1>3, <1>4, <1>8 DEF Book, NothingHeld
<1> HIDE DEF bk
<1>10. Sane(act, bk)
    BY <1>7, <1>9, NoActionIs, NoActionFields, TwoLegs DEF Sane
<1>11. Lawful(act, bk, s)
  <2>1. CASE s.adopt
      BY <1>4, <1>7, <1>9, <2>1, NoActionFields DEF Lawful, Adopts
  <2>2. CASE ~s.adopt
    <3>1. Claim(fates, c) <= Claim(fates, cycle.book)
        BY <1>2, LesserClaims
    <3>. QED
        BY <1>9, <2>2, <3>1 DEF Lawful, Adopts, Lesser
  <2>. QED
      BY <2>1, <2>2
<1>12. HedgeIsKept(act, bk, s)
  <2>1. SUFFICES ASSUME lost > 0, ~adopted, ~s.adopt
                 PROVE  /\ bk.status = "FLAT"
                        /\ \/ act.kind = "NONE"
                           \/ /\ act.kind = "REBALANCE" /\ act.legs = <<"perp">>
                              /\ act.perp \in Nat /\ short - act.perp >= lost
      BY DEF HedgeIsKept, Adopts
  <2>2. short >= lost /\ wallet >= lost
      BY <2>1 DEF LostKept
  <2>3. s.wallet = wallet => held >= lost
      BY <1>2, <1>4, <2>2
  <2>4. s.wallet = wallet => short - excess >= lost
      BY <1>2, <1>4, <1>5, <2>3
  <2>. QED
      BY <1>5, <1>7, <1>8, <1>9, <2>1, <2>4, NoActionFields
<1>13. Safe(act, bk, s)
  <2>1. SUFFICES ASSUME s.wallet = wallet, s.market
                 PROVE  /\ act.kind = "NONE" => Bearable(short, wallet)
                        /\ act.kind \notin {"NONE", "ENTER"} =>
                              Bears(act, act.legs, bk) /\ Settles(act, act.legs, bk)
      BY <1>3 DEF Safe, Known
  <2>2. CASE act = NoAction /\ excess = 0
    <3>1. short < wallet + PerpStep
        BY <1>2, <1>4, <1>5, <2>1, <2>2
    <3>. QED
        BY <2>2, <3>1, NoActionFields DEF Bearable
  <2>3. CASE /\ act \in Action /\ act.kind = "REBALANCE" /\ act.legs = <<"perp">>
             /\ act.perp = excess
    <3>1. ToClose(act, act.legs, bk) = excess /\ ToSell(act, act.legs) = 0
        BY <1>5, <2>3, ToCloseIs, ClosesWhatItSays
    <3>2. /\ short - excess < (wallet - 0) + PerpStep /\ excess \in 0..short /\ short > excess
          /\ 0 <= wallet
        BY <1>2, <1>4, <1>5, <1>6, <2>1
    <3>. QED
        BY <2>3, <3>1, <3>2 DEF Bears, Bearable, Settles
  <2>. QED
      BY <1>2, <1>7, <2>1, <2>2, <2>3
<1>. QED
    BY <1>1, <1>10, <1>11, <1>12, <1>13 DEF Sound

(* A plan keeps to all of it, whatever it read.                            *)
LEMMA PlanIsSound ==
  ASSUME IInv, cycle.pc = "plan", NEW s, Looked(s), NEW p, p = PlanOf(cycle.book, s)
  PROVE  Sound(p.act, p.book, s)
<1> USE DEF IInv
<1>1. /\ short \in Nat /\ wallet \in Nat /\ lost \in Nat /\ cycle.book \in Book
      /\ FatesType(fates) /\ cycle.book.pending \in SUBSET DOMAIN fates
      /\ NothingHeld(cycle.book) /\ s.pos \in Nat \cup {Unread}
    BY Numbers DEF FlatIsEmpty, Looked
<1>2. PICK c : c = Counted(cycle.book, s)
    OBVIOUS
<1>3. PICK b : b = Adopted(c, s)
    OBVIOUS
<1>4. PICK r : r = Reconciled(b, s)
    OBVIOUS
<1>5. /\ c \in Book /\ Lesser(c, cycle.book) /\ c.status = cycle.book.status
      /\ c.dust = cycle.book.dust /\ c.pending = cycle.book.pending
      /\ c.spot = cycle.book.spot
      /\ Lesser(b, cycle.book) /\ b.spot = cycle.book.spot
      /\ b.status = "OPEN" <=> (c.status = "OPEN" \/ s.pos > 0)
    BY <1>1, <1>2, <1>3, LesserThanBefore
<1>6. b \in Book /\ NothingHeld(b) /\ NothingHeld(c)
    BY <1>5 DEF Lesser
<1>7. ~Orphan(b, s) =>
         /\ Lesser(r, b) /\ Lesser(r, cycle.book) /\ r \in Book /\ NothingHeld(r)
         /\ r.status = "OPEN" => r = b /\ (Known(s) => s.pos # 0)
         /\ Known(s) /\ s.pos # 0 /\ b.status = "OPEN" => r.status = "OPEN"
  <2>1. ~Orphan(b, s) =>
         /\ Lesser(r, b)
         /\ r.status = "OPEN" => r = b /\ (Known(s) => s.pos # 0)
         /\ Known(s) /\ s.pos # 0 /\ b.status = "OPEN" => r.status = "OPEN"
      BY <1>1, <1>4, <1>6, ReconciledIs
  <2>2. Lesser(r, b) => Lesser(r, cycle.book)
      BY <1>1, <1>5, LesserTwice
  <2>. QED
      BY <2>1, <2>2 DEF Lesser
<1>8. LostBook(cycle.book, s) <=> LostBook(c, s)
    BY <1>5 DEF LostBook
<1>9. lost > 0 /\ ~adopted => c.status = "FLAT" /\ short > 0 /\ wallet > SpotMin
    BY <1>1, <1>5 DEF LostKept
<1>10. lost > 0 /\ ~adopted /\ ~LostBook(c, s) => s.pos = Unread
  <2>1. SUFFICES ASSUME lost > 0, ~adopted, s.pos # Unread PROVE LostBook(c, s)
      OBVIOUS
  <2>2. s.pos = short /\ short > 0 /\ c.status # "OPEN" /\ wallet > SpotMin
      BY <1>9, <2>1 DEF Looked
  <2>3. s.wallet = Unread \/ s.wallet > Dust(s)
      BY <2>2, <1>1 DEF Dust, Looked
  <2>. QED
      BY <2>2, <2>3 DEF LostBook
<1>11. lost > 0 /\ ~adopted /\ ~LostBook(c, s) => b.status = "FLAT" /\ ~Known(s)
  <2>1. SUFFICES ASSUME s.pos = Unread, c.status = "FLAT" PROVE b.status = "FLAT" /\ ~Known(s)
      BY <1>9, <1>10
  <2>2. ~(s.pos > 0)
      BY <2>1
  <2>. QED
      BY <1>5, <1>6, <2>1, <2>2 DEF Known, Book
(* A book that has only lost something is lawful. *)
<1>12. ASSUME NEW act, NEW bk, Lesser(bk, cycle.book), ~LostBook(c, s) PROVE Lawful(act, bk, s)
  <2>1. Claim(fates, bk) <= Claim(fates, cycle.book)
      BY <1>1, <1>12, LesserClaims
  <2>. QED
      BY <1>8, <1>12, <2>1 DEF Lawful, Adopts, Lesser
(* An action with legs, of a book that holds a position. *)
<1>13. ASSUME NEW act, NEW bk, Lesser(bk, cycle.book), ~LostBook(c, s),
              act \in Action, act.kind \notin {"NONE", "ENTER"}, act.legs # <<>>,
              lost > 0 /\ ~adopted => FALSE,
              Known(s) /\ s.market => Bears(act, act.legs, bk) /\ Settles(act, act.legs, bk)
       PROVE  Sound(act, bk, s)
  <2>1. Sane(act, bk)
      BY <1>13 DEF Sane, Lesser
  <2>2. Lawful(act, bk, s)
      BY <1>12, <1>13
  <2>3. HedgeIsKept(act, bk, s)
      BY <1>13 DEF HedgeIsKept
  <2>4. Safe(act, bk, s)
      BY <1>13 DEF Safe
  <2>. QED
      BY <2>1, <2>2, <2>3, <2>4 DEF Sound
(* No action. *)
<1>14. ASSUME NEW bk, Lesser(bk, cycle.book), ~LostBook(c, s),
              lost > 0 /\ ~adopted => bk.status = "FLAT",
              Known(s) /\ s.market =>
                 Bearable(short, wallet) /\ (short = 0 => MinOf(bk.spot, wallet) < SpotMin)
       PROVE  Sound(NoAction, bk, s)
  <2>1. Sane(NoAction, bk)
      BY <1>14, NoActionIs, NoActionFields DEF Sane, Lesser
  <2>2. Lawful(NoAction, bk, s)
      BY <1>12, <1>14
  <2>3. HedgeIsKept(NoAction, bk, s)
      BY <1>14, NoActionFields DEF HedgeIsKept
  <2>4. Safe(NoAction, bk, s)
      BY <1>14, NoActionFields DEF Safe
  <2>. QED
      BY <2>1, <2>2, <2>3, <2>4 DEF Sound
<1>15. <<"spot", "perp">> \in Legs /\ <<"perp", "spot">> \in Legs /\ <<"spot">> \in Legs
       /\ <<"perp">> \in Legs /\ <<>> \in Legs
       /\ <<"spot", "perp">> # <<>> /\ <<"perp", "spot">> # <<>> /\ <<"spot">> # <<>>
       /\ <<"perp">> # <<>>
    BY DEF Legs
<1>18. CASE LostBook(c, s) /\ p = Mismatch(c, s)
  <2>1. c.status # "OPEN"
      BY <1>18 DEF LostBook
  <2>. QED
      BY <1>5, <1>6, <1>8, <1>18, <2>1, MismatchIs
<1>19. ASSUME c.status = "OPEN", s.pos = Unread,
              p = Result(Do("EXIT", <<"spot", "perp">>, IF c.perp > 0 THEN c.perp ELSE Unread,
                              IF s.wallet = Unread THEN c.spot ELSE Spot(c, s), s), c)
       PROVE  Sound(p.act, p.book, s)
  <2>1. PICK x, y : /\ x = (IF c.perp > 0 THEN c.perp ELSE Unread)
                    /\ y = (IF s.wallet = Unread THEN c.spot ELSE Spot(c, s))
      OBVIOUS
  <2>2. x \in Nat \cup {Unread}
      BY <1>5, <2>1 DEF Book
  <2>3. y \in Int
      BY <1>1, <1>5, <1>6, <2>1, SpotIs DEF Book, Looked
  <2>4. PICK act : act = Do("EXIT", <<"spot", "perp">>, x, y, s)
      OBVIOUS
  <2>5. act \in Action /\ act.kind = "EXIT" /\ act.legs = <<"spot", "perp">>
      BY <1>1, <1>15, <2>2, <2>3, <2>4, DoIs
  <2>6. p.act = act /\ p.book = c
      BY <1>19, <2>1, <2>4 DEF Result
  <2>7. ~LostBook(c, s) /\ ~Known(s) /\ ~(lost > 0 /\ ~adopted)
      BY <1>9, <1>19 DEF LostBook, Known
  <2>. QED
      BY <1>5, <1>13, <1>15, <2>5, <2>6, <2>7
<1>20. ASSUME ~LostBook(c, s), Orphan(b, s),
              p = Result(Do("EXIT", IF s.pos = 0 THEN <<"spot">> ELSE <<"perp">>, Unread,
                              IF s.pos = 0 THEN Spot(b, s) ELSE 0, s), b)
       PROVE  Sound(p.act, p.book, s)
  <2>1. /\ b.status = "OPEN" /\ Known(s) /\ s.pos = short /\ s.wallet = wallet
        /\ \/ s.pos = 0 /\ Spot(b, s) > Dust(s)
           \/ s.pos > 0 /\ Spot(b, s) < Dust(s)
      BY <1>20 DEF Orphan, Known, Looked
  <2>2. ~(lost > 0 /\ ~adopted)
      BY <1>11, <1>20, <2>1
  <2>3. Spot(b, s) \in Nat /\ Spot(b, s) = MinOf(b.spot, wallet) /\ b.spot \in Nat
        /\ Spot(b, s) <= wallet
    <3>1. Spot(b, s) \in Nat /\ Spot(b, s) = MinOf(wallet, b.spot) /\ b.spot \in Nat
        BY <1>1, <1>6, <2>1, SpotIs DEF Known, Book, Looked
    <3>. QED
        BY <1>1, <3>1
  <2>4. CASE s.pos = 0
    <3>1. PICK act : act = Do("EXIT", <<"spot">>, Unread, Spot(b, s), s)
        OBVIOUS
    <3>2. /\ act \in Action /\ act.kind = "EXIT" /\ act.legs = <<"spot">>
          /\ act.spot = Spot(b, s)
      <4>1. Spot(b, s) \in Int /\ Unread \in Nat \cup {Unread} /\ MaxOf(Spot(b, s), 0) = Spot(b, s)
          BY <2>3
      <4>. QED
          BY <1>1, <1>15, <3>1, <4>1, DoIs
    <3>3. p.act = act /\ p.book = b
        BY <1>20, <2>4, <3>1 DEF Result
    <3>4. ToClose(act, act.legs, b) = 0 /\ ToSell(act, act.legs) = Spot(b, s)
        BY <3>2, ToCloseIs
    <3>5. short - 0 < (wallet - Spot(b, s)) + PerpStep /\ 0 \in 0..short
      <4>1. PICK y \in Nat : y = Spot(b, s) /\ y <= wallet
          BY <2>3
      <4>2. short = 0
          BY <2>1, <2>4
      <4>3. short - 0 < (wallet - y) + PerpStep
          BY <1>1, <4>1, <4>2
      <4>. QED
          BY <4>1, <4>2, <4>3
    <3>6. Bears(act, act.legs, b) /\ Settles(act, act.legs, b)
        BY <2>3, <3>4, <3>5 DEF Bears, Bearable, Settles
    <3>. QED
        BY <1>5, <1>13, <1>15, <1>20, <2>2, <3>2, <3>3, <3>6
  <2>5. CASE s.pos # 0
    <3>1. PICK act : act = Do("EXIT", <<"perp">>, Unread, 0, s)
        OBVIOUS
    <3>2. /\ act \in Action /\ act.kind = "EXIT" /\ act.legs = <<"perp">>
          /\ act.perp = Unread /\ act.pos = s.pos
      <4>1. 0 \in Int /\ Unread \in Nat \cup {Unread}
          OBVIOUS
      <4>. QED
          BY <1>1, <1>15, <3>1, <4>1, DoIs
    <3>3. p.act = act /\ p.book = b
        BY <1>20, <2>5, <3>1 DEF Result
    <3>4. ToClose(act, act.legs, b) = short /\ ToSell(act, act.legs) = 0
      <4>1. PerpToClose(act, b) = short
          BY <1>1, <2>1, <2>5, <3>2 DEF PerpToClose
      <4>. QED
          BY <3>2, <4>1, ToCloseIs
    <3>5. short - short < (wallet - 0) + PerpStep /\ short \in 0..short /\ 0 <= wallet
        BY <1>1
    <3>6. MinOf(b.spot, wallet) < SpotMin
        BY <1>1, <2>1, <2>3, <2>5 DEF Dust
    <3>7. Bears(act, act.legs, b) /\ Settles(act, act.legs, b)
        BY <3>4, <3>5, <3>6 DEF Bears, Bearable, Settles
    <3>. QED
        BY <1>5, <1>13, <1>15, <1>20, <2>2, <3>2, <3>3, <3>7
  <2>. QED
      BY <2>4, <2>5
<1>21. ASSUME ~LostBook(c, s), ~Orphan(b, s), r.status = "OPEN"
       PROVE  /\ r = b /\ Lesser(r, cycle.book) /\ r \in Book /\ NothingHeld(r)
              /\ ~(lost > 0 /\ ~adopted) /\ Spot(r, s) \in Int
              /\ Known(s) => /\ s.pos = short /\ s.wallet = wallet /\ short > 0
                             /\ Spot(r, s) = MinOf(r.spot, wallet) /\ Spot(r, s) \in 0..wallet
                             /\ ~(Spot(r, s) < Dust(s))
  <2>1. r = b /\ (Known(s) => s.pos # 0) /\ Lesser(r, cycle.book)
      BY <1>7, <1>21
  <2>2. ~(lost > 0 /\ ~adopted)
      BY <1>11, <1>21, <2>1
  <2>3. Spot(r, s) \in Int
      BY <1>1, <1>6, <2>1, SpotIs DEF Looked
  <2>4. ASSUME Known(s)
        PROVE  /\ s.pos = short /\ s.wallet = wallet /\ short > 0
               /\ Spot(r, s) = MinOf(r.spot, wallet) /\ Spot(r, s) \in 0..wallet
               /\ ~(Spot(r, s) < Dust(s))
    <3>1. s.pos = short /\ s.wallet = wallet /\ short > 0
        BY <1>1, <2>1, <2>4 DEF Known, Looked
    <3>2. Spot(r, s) \in Nat /\ Spot(r, s) = MinOf(wallet, r.spot) /\ r.spot \in Nat
        BY <1>1, <1>6, <2>1, <2>4, SpotIs DEF Known, Book, Looked
    <3>3. ~(Spot(r, s) < Dust(s))
        BY <1>21, <2>1, <2>4, <3>1 DEF Orphan
    <3>. QED
        BY <1>1, <3>1, <3>2, <3>3
  <2>. QED
      BY <1>6, <2>1, <2>2, <2>3, <2>4
<1>22. ASSUME ~LostBook(c, s), ~Orphan(b, s), r.status = "OPEN",
              NEW legs \in {<<"spot", "perp">>, <<"perp", "spot">>},
              p = Result(Do("EXIT", legs, Unread, Spot(r, s), s), r)
       PROVE  Sound(p.act, p.book, s)
  <2>1. PICK act : act = Do("EXIT", legs, Unread, Spot(r, s), s)
      OBVIOUS
  <2>2. /\ act \in Action /\ act.kind = "EXIT" /\ act.legs = legs /\ act.perp = Unread
        /\ act.pos = s.pos /\ act.spot = MaxOf(Spot(r, s), 0)
    <3>1. Spot(r, s) \in Int /\ Unread \in Nat \cup {Unread} /\ legs \in Legs
        BY <1>15, <1>21, <1>22
    <3>. QED
        BY <1>1, <2>1, <3>1, DoIs
  <2>3. p.act = act /\ p.book = r
      BY <1>22, <2>1 DEF Result
  <2>4. ASSUME Known(s) PROVE Bears(act, act.legs, r) /\ Settles(act, act.legs, r)
    <3>1. /\ s.pos = short /\ s.wallet = wallet /\ short > 0
          /\ Spot(r, s) = MinOf(r.spot, wallet) /\ Spot(r, s) \in 0..wallet
        BY <1>21, <1>22, <2>4
    <3>2. PerpToClose(act, r) = short /\ act.spot = Spot(r, s)
        BY <1>1, <2>2, <3>1 DEF PerpToClose
    <3>3. ToClose(act, act.legs, r) = short /\ ToSell(act, act.legs) = Spot(r, s)
        BY <1>22, <2>2, <3>2, ToCloseIs
    <3>4. short - short < (wallet - Spot(r, s)) + PerpStep /\ short \in 0..short
        BY <1>1, <3>1
    <3>. QED
        BY <3>1, <3>3, <3>4 DEF Bears, Bearable, Settles
  <2>5. act.legs # <<>>
      BY <1>15, <1>22, <2>2
  <2>. QED
      BY <1>13, <1>21, <1>22, <2>2, <2>3, <2>4, <2>5
<1>23. ASSUME ~LostBook(c, s), ~Orphan(b, s), r.status = "OPEN",
              Known(s), s.market, Reduction(r, s) # NoAction, p = Result(Reduction(r, s), r)
       PROVE  Sound(p.act, p.book, s)
  <2>1. PICK act : act = Reduction(r, s)
      OBVIOUS
  <2>2. p.act = act /\ p.book = r
      BY <1>23, <2>1 DEF Result
  <2>3. s.pos # 0 /\ ~(Spot(r, s) < Dust(s)) /\ r \in Book /\ NothingHeld(r)
      BY <1>1, <1>21, <1>23
  <2>4. act.kind # "NONE" =>
              /\ act \in Action /\ act.kind # "ENTER" /\ act.legs # <<>>
              /\ Bears(act, act.legs, r) /\ Settles(act, act.legs, r)
      BY <1>1, <1>23, <2>1, <2>3, ReductionIs
  <2>5. act.kind # "NONE"
      BY <1>23, <2>1 DEF Reduction, Do
  <2>. QED
      BY <1>13, <1>21, <1>23, <2>2, <2>4, <2>5
<1>24. ASSUME ~LostBook(c, s), ~Orphan(b, s), r.status = "OPEN",
              Known(s) /\ s.market => Reduction(r, s) = NoAction, p = Result(NoAction, r)
       PROVE  Sound(p.act, p.book, s)
  <2>1. p.act = NoAction /\ p.book = r
      BY <1>24 DEF Result
  <2>2. ASSUME Known(s), s.market PROVE Bearable(short, wallet) /\ short > 0
    <3>1. s.pos # 0 /\ short > 0 /\ ~(Spot(r, s) < Dust(s)) /\ r \in Book /\ NothingHeld(r)
        BY <1>1, <1>21, <1>24, <2>2
    <3>2. PICK act : act = Reduction(r, s)
        OBVIOUS
    <3>3. act = NoAction
        BY <1>24, <2>2, <3>2
    <3>4. act = NoAction => Bearable(short, wallet)
        BY <1>1, <1>24, <2>2, <3>1, <3>2, ReductionIs
    <3>. QED
        BY <3>1, <3>3, <3>4
  <2>3. short > 0 => short # 0
      BY <1>1
  <2>. QED
      BY <1>14, <1>21, <1>24, <2>1, <2>2, <2>3
<1>25. ASSUME ~LostBook(c, s), ~Orphan(b, s), r.status # "OPEN"
       PROVE  /\ Lesser(r, cycle.book) /\ r.status = "FLAT" /\ r.spot = 0 /\ r.pending = {}
              /\ Known(s) => short = 0 /\ s.wallet = wallet /\ ~(lost > 0 /\ ~adopted)
  <2>1. Lesser(r, cycle.book) /\ r \in Book /\ NothingHeld(r)
      BY <1>7, <1>25
  <2>2. r.status = "FLAT" /\ r.spot = 0 /\ r.pending = {}
      BY <1>25, <2>1 DEF Book, NothingHeld
  <2>3. ASSUME Known(s) PROVE short = 0 /\ s.wallet = wallet /\ ~(lost > 0 /\ ~adopted)
    <3>1. s.pos = short /\ s.wallet = wallet
        BY <2>3 DEF Known, Looked
    <3>2. s.pos # 0 => b.status = "OPEN"
        BY <1>1, <1>5, <3>1
    <3>3. short = 0
        BY <1>7, <1>25, <2>3, <3>1, <3>2
    <3>. QED
        BY <1>11, <1>25, <2>3, <3>1, <3>3
  <2>. QED
      BY <2>1, <2>2, <2>3
<1>26. ASSUME ~LostBook(c, s), ~Orphan(b, s), r.status # "OPEN", Known(s),
              p = Result(Do("ENTER", <<>>, Quantity, MinOf(r.dust, s.wallet), s), r)
       PROVE  Sound(p.act, p.book, s)
  <2>1. /\ Lesser(r, cycle.book) /\ r.status = "FLAT" /\ short = 0 /\ s.wallet = wallet
        /\ ~(lost > 0 /\ ~adopted) /\ r \in Book /\ r.dust \in Nat
      BY <1>25, <1>26 DEF Lesser, Book
  <2>2. PICK x : x = MinOf(r.dust, wallet)
      OBVIOUS
  <2>3. x \in Nat /\ x <= r.dust /\ x <= wallet /\ (r.dust <= wallet => x = r.dust)
        /\ MaxOf(x, 0) = x
      BY <1>1, <2>1, <2>2
  <2>4. PICK act : act = Do("ENTER", <<>>, Quantity, x, s)
      OBVIOUS
  <2>5. act \in Action /\ act.kind = "ENTER" /\ act.perp = Quantity /\ act.spot = x
    <3>1. Quantity \in Nat \cup {Unread} /\ x \in Int
        BY <2>3
    <3>. QED
        BY <1>1, <1>15, <2>3, <2>4, <3>1, DoIs
  <2>6. p.act = act /\ p.book = r
      BY <1>26, <2>1, <2>2, <2>4 DEF Result
  <2>7. Sane(act, r)
      BY <1>1, <2>1, <2>3, <2>5 DEF Sane, Lesser
  <2>8. Lawful(act, r, s)
      BY <1>12, <1>26, <2>1
  <2>9. HedgeIsKept(act, r, s)
      BY <2>1 DEF HedgeIsKept
  <2>10. Safe(act, r, s)
      BY <2>5 DEF Safe
  <2>. QED
      BY <2>6, <2>7, <2>8, <2>9, <2>10 DEF Sound
<1>27. ASSUME ~LostBook(c, s), ~Orphan(b, s), r.status # "OPEN", p = Result(NoAction, r)
       PROVE  Sound(p.act, p.book, s)
  <2>1. p.act = NoAction /\ p.book = r
      BY <1>27 DEF Result
  <2>2. Known(s) => Bearable(short, wallet) /\ MinOf(r.spot, wallet) < SpotMin
    <3>1. Known(s) => short < wallet + PerpStep
        BY <1>1, <1>25, <1>27
    <3>. QED
        BY <1>1, <1>25, <1>27, <3>1 DEF Bearable
  <2>. QED
      BY <1>14, <1>25, <1>27, <2>1, <2>2
<1>. QED
  <2>1. s.market \in BOOLEAN
      BY DEF Looked
  <2> HIDE DEF IInv
  <2>. QED
      BY <1>2, <1>3, <1>4, <1>18, <1>19, <1>20, <1>22, <1>23, <1>24, <1>26, <1>27, PlanIs

(* The step of the cycle that the plan is.                                 *)
PlanStep(s, p, n) ==
    /\ Looked(s) /\ p = PlanOf(cycle.book, s)
    /\ n = [cycle EXCEPT
                !.pc = IF p.act.kind = "ENTER" THEN "enter" ELSE "leg",
                !.book = p.book, !.act = p.act, !.legs = p.act.legs,
                !.escalate = \/ LostBook(cycle.book, s) /\ ~s.adopt
                             \/ ~(p.act.kind = "NONE") /\ ~s.market,
                !.good = @ /\ Known(s) /\ s.market, !.known = Known(s) /\ s.market]
    /\ cycle' = IF p.act.kind = "NONE" \/ ~s.market THEN Done(n) ELSE n
    /\ IF GivenUp(cycle.book, s) THEN lost' = 0 /\ adopted' = FALSE
       ELSE lost' = lost /\ adopted' = (adopted \/ (Adopts(s) /\ lost > 0))
    /\ foreign' = IF Adopts(s) THEN MaxOf(0, wallet - p.book.spot - p.book.dust) ELSE foreign
    /\ doubled' = (doubled \/ (Adopts(s) /\ cycle.book.dust > 0))
    /\ faults' = IF Adopts(s) THEN faults + 1 ELSE faults
    /\ s.adopt => faults < MaxFaults

LEMMA PlanSteps ==
  ASSUME Plan
  PROVE  \E s, p, n : PlanStep(s, p, n)
<1>1. PICK s \in Snapshots :
          LET p == PlanOf(cycle.book, s)
              adopting == s.adopt /\ LostBook(cycle.book, s)
              nothing == p.act.kind = "NONE"
              planned == [cycle EXCEPT
                    !.pc = IF p.act.kind = "ENTER" THEN "enter" ELSE "leg",
                    !.book = p.book, !.act = p.act, !.legs = p.act.legs,
                    !.escalate = \/ LostBook(cycle.book, s) /\ ~s.adopt
                                 \/ ~nothing /\ ~s.market,
                    !.good = @ /\ Known(s) /\ s.market, !.known = Known(s) /\ s.market]
          IN /\ cycle' = IF nothing \/ ~s.market THEN Done(planned) ELSE planned
             /\ IF GivenUp(cycle.book, s) THEN lost' = 0 /\ adopted' = FALSE
                ELSE lost' = lost /\ adopted' = (adopted \/ (adopting /\ lost > 0))
             /\ foreign' = IF adopting THEN MaxOf(0, wallet - p.book.spot - p.book.dust)
                           ELSE foreign
             /\ doubled' = (doubled \/ (adopting /\ cycle.book.dust > 0))
             /\ faults' = IF adopting THEN faults + 1 ELSE faults
    BY DEF Plan
<1>2. Looked(s) /\ (s.adopt => faults < MaxFaults)
    BY DEF Snapshots, Looked
<1> DEFINE p == PlanOf(cycle.book, s)
           n == [cycle EXCEPT
                !.pc = IF p.act.kind = "ENTER" THEN "enter" ELSE "leg",
                !.book = p.book, !.act = p.act, !.legs = p.act.legs,
                !.escalate = \/ LostBook(cycle.book, s) /\ ~s.adopt
                             \/ ~(p.act.kind = "NONE") /\ ~s.market,
                !.good = @ /\ Known(s) /\ s.market, !.known = Known(s) /\ s.market]
<1>3. PlanStep(s, p, n)
    BY <1>1, <1>2 DEF PlanStep, Adopts
<1>. QED
    BY <1>3

LEMMA PlanKeeps == IInv /\ Plan => IInv'
<1> SUFFICES ASSUME IInv, Plan PROVE IInv'
    OBVIOUS
<1> USE DEF IInv
<1>1. /\ cycle.pc = "plan" /\ UNCHANGED <<short, wallet, fates, stored, calm, blind>>
    BY DEF Plan, exchange
<1>2. PICK s, p, n : PlanStep(s, p, n)
    BY PlanSteps
<1>3. PICK act, bk : act = p.act /\ bk = p.book
    OBVIOUS
<1>4. Looked(s) /\ Sane(act, bk) /\ Lawful(act, bk, s) /\ HedgeIsKept(act, bk, s) /\ Safe(act, bk, s)
    BY <1>1, <1>2, <1>3, PlanIsSound DEF PlanStep, Sound
<1>5. /\ short \in Nat /\ wallet \in Nat /\ lost \in Nat /\ foreign \in Nat /\ cycle \in Cycle
      /\ cycle.book \in Book /\ FatesType(fates) /\ cycle.book.pending \in SUBSET DOMAIN fates
      /\ blind \in BOOLEAN /\ doubled \in BOOLEAN /\ adopted \in BOOLEAN
      /\ faults \in 0..MaxFaults
    BY Numbers DEF CycleTypeOK
<1>6. /\ act \in Action /\ bk \in Book /\ NothingHeld(bk)
      /\ bk.pending \subseteq cycle.book.pending /\ bk.spot \in Nat /\ bk.dust \in Nat
    BY <1>4 DEF Sane, Book
<1>7. Known(s) \in BOOLEAN /\ s.market \in BOOLEAN /\ s.adopt \in BOOLEAN /\ cycle.good \in BOOLEAN
      /\ LostBook(cycle.book, s) \in BOOLEAN
    BY <1>4, <1>5 DEF Known, Looked, LostBook, Cycle
<1>8. /\ n \in Cycle /\ n.book = bk /\ n.act = act /\ n.legs = act.legs
      /\ n.pc = (IF act.kind = "ENTER" THEN "enter" ELSE "leg")
      /\ n.good = (cycle.good /\ Known(s) /\ s.market) /\ n.known = (Known(s) /\ s.market)
      /\ n.sold = FALSE
  <2>1. n = [cycle EXCEPT
                !.pc = IF act.kind = "ENTER" THEN "enter" ELSE "leg",
                !.book = bk, !.act = act, !.legs = act.legs,
                !.escalate = \/ LostBook(cycle.book, s) /\ ~s.adopt
                             \/ ~(act.kind = "NONE") /\ ~s.market,
                !.good = @ /\ Known(s) /\ s.market, !.known = Known(s) /\ s.market]
      BY <1>2, <1>3 DEF PlanStep
  <2>2. act.legs \in Legs
      BY <1>6 DEF Action
  <2>3. PICK e \in BOOLEAN : e = (\/ LostBook(cycle.book, s) /\ ~s.adopt
                                  \/ ~(act.kind = "NONE") /\ ~s.market)
      OBVIOUS
  <2>4. PICK k \in BOOLEAN : k = (Known(s) /\ s.market)
      OBVIOUS
  <2>5. PICK g \in BOOLEAN : g = (cycle.good /\ Known(s) /\ s.market)
      OBVIOUS
  <2>6. PICK c \in {"enter", "leg"} : c = IF act.kind = "ENTER" THEN "enter" ELSE "leg"
      OBVIOUS
  <2>7. n = [cycle EXCEPT !.pc = c, !.book = bk, !.act = act, !.legs = act.legs,
                          !.escalate = e, !.good = g, !.known = k]
      BY <2>1, <2>3, <2>4, <2>5, <2>6
  <2>8. /\ n \in Cycle /\ n.book = bk /\ n.act = act /\ n.legs = act.legs
        /\ n.pc = c /\ n.good = g /\ n.known = k /\ n.sold = cycle.sold
      BY <1>5, <1>6, <2>2, <2>7 DEF Cycle
  <2>9. ~cycle.sold /\ cycle.sold \in BOOLEAN
      BY <1>1, <1>5 DEF Phases, Cycle
  <2>. QED
      BY <2>4, <2>5, <2>6, <2>8, <2>9
<1>9. cycle' = IF act.kind = "NONE" \/ ~s.market THEN Done(n) ELSE n
    BY <1>2, <1>3 DEF PlanStep
<1>10. act.kind = "NONE" \/ ~s.market =>
          /\ cycle' \in Cycle /\ cycle'.pc = "save" /\ cycle'.book = bk
          /\ cycle'.good = n.good /\ cycle'.known = n.known /\ cycle'.sold = n.sold
    BY <1>8, <1>9, DoneIs
<1>11. ~(act.kind = "NONE" \/ ~s.market) => cycle' = n
    BY <1>9
<1>12. /\ cycle' \in Cycle /\ cycle'.book = bk /\ cycle'.pc \in {"enter", "leg", "save"}
       /\ cycle'.pc = "enter" => act.kind = "ENTER"
       /\ cycle'.known = (Known(s) /\ s.market)
       /\ cycle'.good = (cycle.good /\ Known(s) /\ s.market) /\ ~cycle'.sold
    BY <1>8, <1>10, <1>11
<1>13. /\ IF GivenUp(cycle.book, s) THEN lost' = 0 /\ adopted' = FALSE
          ELSE lost' = lost /\ adopted' = (adopted \/ (Adopts(s) /\ lost > 0))
       /\ foreign' = IF Adopts(s) THEN MaxOf(0, wallet - bk.spot - bk.dust) ELSE foreign
       /\ doubled' = (doubled \/ (Adopts(s) /\ cycle.book.dust > 0))
       /\ faults' = IF Adopts(s) THEN faults + 1 ELSE faults
       /\ s.adopt => faults < MaxFaults
    BY <1>2, <1>3 DEF PlanStep
<1>14. Adopts(s) \in BOOLEAN /\ (Adopts(s) => s.adopt)
    BY <1>7 DEF Adopts
<1>15. CycleTypeOK'
  <2>1. lost' \in Nat
      BY <1>5, <1>13
  <2>2. adopted' \in BOOLEAN
      BY <1>5, <1>13
  <2>3. foreign' \in Nat
      BY <1>5, <1>6, <1>13
  <2>4. blind' \in BOOLEAN /\ doubled' \in BOOLEAN
      BY <1>1, <1>5, <1>13
  <2>5. faults' \in 0..MaxFaults
      BY <1>5, <1>13, <1>14
  <2>6. cycle'.book.pending \subseteq DOMAIN fates'
      BY <1>1, <1>5, <1>6, <1>12
  <2>. QED
      BY <1>1, <1>12, <2>1, <2>2, <2>3, <2>4, <2>5, <2>6 DEF CycleTypeOK
<1>16. FlatIsEmpty' /\ OnePosition'
    BY <1>1, <1>6, <1>12 DEF FlatIsEmpty, OnePosition
<1>17. Heard' => Heard /\ (Adopts(s) => cycle.book.dust = 0)
  <2>1. Heard' => Heard /\ (Adopts(s) => ~(cycle.book.dust > 0))
      BY <1>1, <1>5, <1>13, <1>14
  <2>2. ~(cycle.book.dust > 0) => cycle.book.dust = 0
      BY <1>5 DEF Book
  <2>. QED
      BY <2>1, <2>2
<1>18. Owned'
  <2>1. ASSUME Heard', Adopts(s)
        PROVE  /\ foreign' + Claim(fates, bk) <= wallet
               /\ foreign' + Claim(fates, stored) <= wallet
    <3>1. /\ bk.pending = {} /\ bk.dust = 0 /\ bk.spot <= wallet /\ act.kind # "ENTER"
        BY <1>4, <1>17, <2>1 DEF Lawful
    <3>2. Traded(fates, "Buy", bk.pending) = 0
        BY <3>1, TradedNothing
    <3>3. Claim(fates, bk) = bk.spot
        BY <1>6, <3>1, <3>2 DEF Claim
    <3>4. foreign' = wallet - bk.spot
        BY <1>5, <1>6, <1>13, <2>1, <3>1
    <3>5. Claim(fates, stored) = 0
      <4>1. cycle.book.status = "FLAT"
          BY <1>5, <2>1 DEF Adopts, LostBook, Book
      <4>2. stored = cycle.book /\ stored.spot = 0 /\ stored.pending = {} /\ stored.dust = 0
          BY <1>1, <1>17, <2>1, <4>1 DEF Phases, FlatIsEmpty, NothingHeld
      <4>3. Traded(fates, "Buy", stored.pending) = 0
          BY <4>2, TradedNothing
      <4>. QED
          BY <4>2, <4>3 DEF Claim
    <3>. QED
        BY <1>5, <1>6, <3>1, <3>3, <3>4, <3>5
  <2>2. ASSUME Heard', ~Adopts(s)
        PROVE  /\ foreign' = foreign /\ foreign + Claim(fates, bk) <= wallet
               /\ foreign + Claim(fates, stored) <= wallet
    <3>1. /\ foreign + Claim(fates, cycle.book) <= wallet
          /\ foreign + Claim(fates, stored) <= wallet
        BY <1>1, <1>17, <2>2 DEF Owned, Phases
    <3>2. Claim(fates, bk) <= Claim(fates, cycle.book)
        BY <1>4, <2>2 DEF Lawful
    <3>3. Claim(fates, bk) \in Nat /\ Claim(fates, cycle.book) \in Nat
        BY <1>5, <1>6, ClaimNat
    <3>. QED
        BY <1>5, <1>13, <2>2, <3>1, <3>2, <3>3
  <2>3. CASE Adopts(s)
      BY <1>1, <1>12, <2>1, <2>3 DEF Owned
  <2>4. CASE ~Adopts(s)
      BY <1>1, <1>12, <2>2, <2>4 DEF Owned
  <2>. QED
      BY <2>3, <2>4
<1>19. DustIsSmall'
  <2>1. ASSUME Heard' PROVE Dusty(stored) /\ Dusty(bk)
    <3>1. Dusty(stored) /\ Dusty(cycle.book)
        BY <1>17, <2>1 DEF DustIsSmall
    <3>2. CASE Adopts(s)
        BY <1>4, <1>17, <2>1, <3>1, <3>2 DEF Lawful, Dusty
    <3>3. CASE ~Adopts(s)
        BY <1>4, <3>1, <3>3 DEF Lawful
    <3>. QED
        BY <3>1, <3>2, <3>3
  <2>. QED
      BY <1>1, <1>12, <2>1 DEF DustIsSmall
<1>20. LostKept'
  <2>1. SUFFICES ASSUME lost' > 0, ~adopted'
                 PROVE  /\ short >= lost' /\ wallet >= lost' /\ wallet > SpotMin
                        /\ stored.status = "FLAT" /\ bk.status = "FLAT"
                        /\ cycle'.pc \in {"idle", "plan", "leg", "save"}
                        /\ cycle'.pc = "leg" =>
                              /\ cycle'.legs = <<"perp">> /\ cycle'.act.kind = "REBALANCE"
                              /\ cycle'.act.perp \in Nat /\ short - cycle'.act.perp >= lost'
      BY <1>1, <1>12 DEF LostKept
  <2>2. ~GivenUp(cycle.book, s)
    <3>1. GivenUp(cycle.book, s) => ~(lost' > 0)
        BY <1>13
    <3>. QED
        BY <2>1, <3>1
  <2>3. lost' = lost /\ ~adopted /\ ~(Adopts(s) /\ lost > 0)
      BY <1>5, <1>13, <1>14, <2>1, <2>2
  <2>4. lost > 0 /\ ~Adopts(s)
      BY <2>1, <2>3
  <2>5. /\ short >= lost /\ wallet >= lost /\ wallet > SpotMin /\ stored.status = "FLAT"
      BY <2>3, <2>4 DEF LostKept
  <2>6. /\ bk.status = "FLAT"
        /\ \/ act.kind = "NONE"
           \/ /\ act.kind = "REBALANCE" /\ act.legs = <<"perp">>
              /\ act.perp \in Nat /\ short - act.perp >= lost
      BY <1>4, <2>3, <2>4 DEF HedgeIsKept
  <2>7. CASE act.kind = "NONE"
      BY <1>10, <2>3, <2>5, <2>6, <2>7
  <2>8. CASE act.kind # "NONE"
      BY <1>8, <1>10, <1>11, <2>3, <2>5, <2>6, <2>8
  <2>. QED
      BY <2>7, <2>8
<1>21. CASE act.kind = "NONE" \/ ~s.market
  <2>1. cycle'.known => /\ Bearable(short, wallet)
                        /\ short = 0 => MinOf(bk.spot, wallet) < SpotMin
      BY <1>4, <1>12, <1>21 DEF Safe
  <2>2. cycle'.pc = "save" /\ (cycle'.good => cycle'.known)
      BY <1>10, <1>12, <1>21
  <2>3. Bearable(short, wallet)' <=> Bearable(short, wallet)
      BY <1>1 DEF Bearable
  <2>4. cycle'.known /\ ~cycle'.escalate => Bearable(short, wallet)'
      BY <2>1, <2>3
  <2>5. cycle'.good /\ Heard' /\ short' = 0 => MinOf(cycle'.book.spot, wallet') < SpotMin
      BY <1>1, <1>12, <2>1, <2>2
  <2>6. Phases' /\ DustIsUsed' /\ OnTheWay' /\ Settling'
      BY <1>15, <2>2, <2>4, <2>5, AtSave
  <2>. QED
      BY <1>15, <1>16, <1>18, <1>19, <1>20, <2>6
<1>22. CASE ~(act.kind = "NONE" \/ ~s.market)
  <2>1. /\ cycle' = n /\ cycle'.act = act /\ cycle'.legs = act.legs
        /\ cycle'.pc = (IF act.kind = "ENTER" THEN "enter" ELSE "leg")
      BY <1>8, <1>11, <1>22
  <2>2. Phases'
    <3>1. CASE act.kind = "ENTER"
        BY <1>1, <1>4, <1>12, <2>1, <3>1 DEF Phases, Sane
    <3>2. CASE act.kind # "ENTER"
        BY <1>4, <1>12, <1>22, <2>1, <3>2 DEF Phases, Sane
    <3>. QED
        BY <3>1, <3>2
  <2>3. DustIsUsed'
    <3>1. ASSUME Heard', act.kind = "ENTER" PROVE act.spot = bk.dust
      <4>1. Heard /\ ~Adopts(s)
          BY <1>4, <1>17, <3>1 DEF Lawful
      <4>2. foreign + Claim(fates, cycle.book) <= wallet /\ Claim(fates, bk) <= Claim(fates, cycle.book)
          BY <1>4, <4>1 DEF Owned, Lawful
      <4>3. bk.dust <= Claim(fates, bk)
        <5>1. Traded(fates, "Buy", bk.pending) \in Nat
            BY <1>5, <1>6, TradedNat
        <5>. QED
            BY <1>6, <5>1 DEF Claim
      <4>4. Claim(fates, bk) \in Nat /\ Claim(fates, cycle.book) \in Nat
          BY <1>5, <1>6, ClaimNat
      <4>5. bk.dust <= wallet
          BY <1>5, <1>6, <4>2, <4>3, <4>4
      <4>. QED
          BY <1>4, <3>1, <4>5 DEF Sane
    <3>. QED
        BY <1>12, <2>1, <3>1 DEF DustIsUsed
  <2>4. cycle'.pc = "leg" /\ Known(s) => Bears(act, act.legs, bk) /\ Settles(act, act.legs, bk)
      BY <1>4, <1>22, <2>1 DEF Safe
  <2>5. OnTheWay'
    <3>1. cycle'.pc \in {"enter", "leg"} /\ (cycle'.known => Known(s))
        BY <1>12, <2>1
    <3>2. cycle'.book = bk /\ cycle'.act = act /\ cycle'.legs = act.legs
        BY <1>12, <2>1
    <3>3. ASSUME cycle'.known, cycle'.pc = "leg" PROVE Bears(cycle.act, cycle.legs, cycle.book)'
      <4>1. Bears(act, act.legs, bk)
          BY <2>4, <3>1, <3>3
      <4>. QED
          BY <1>1, <3>2, <4>1 DEF Bears, Bearable
    <3>. QED
        BY <3>1, <3>3 DEF OnTheWay
  <2>6. Settling'
      BY <1>1, <1>12, <2>1, <2>4 DEF Settling, Settles
  <2>. QED
      BY <1>15, <1>16, <1>18, <1>19, <1>20, <2>2, <2>3, <2>5, <2>6
<1>. QED
    BY <1>21, <1>22

-----------------------------------------------------------------------------
LEMMA StutterKeeps == IInv /\ UNCHANGED vars => IInv'
<1> SUFFICES ASSUME IInv, UNCHANGED vars PROVE IInv'
    OBVIOUS
<1>1. UNCHANGED <<short, wallet, fates, stored, cycle, faults, calm, foreign, blind, doubled, lost, adopted>>
    BY DEF vars, exchange, world, history
<1> USE DEF IInv
<1>2. CycleTypeOK' /\ Phases' /\ FlatIsEmpty' /\ OnePosition' /\ LostKept'
    BY <1>1 DEF CycleTypeOK, Phases, FlatIsEmpty, OnePosition, LostKept
<1>3. Owned' /\ DustIsSmall' /\ DustIsUsed'
    BY <1>1 DEF Owned, DustIsSmall, DustIsUsed
<1>4. OnTheWay'
    BY <1>1 DEF OnTheWay, Bears, Bearable
<1>5. Settling'
    BY <1>1 DEF Settling, Settles
<1>. QED
    BY <1>2, <1>3, <1>4, <1>5

LEMMA NextKeeps == IInv /\ [Next]_vars => IInv'
<1> SUFFICES ASSUME IInv, [Next]_vars PROVE IInv'
    OBVIOUS
<1>1. CASE Step
    BY <1>1, BeginKeeps, PlanKeeps, EnterPerpKeeps, BuySpotKeeps, CutPerpKeeps, PerpLegKeeps,
       SpotLegKeeps, SaveKeeps DEF Step
<1>2. CASE World
    BY <1>2, ArriveKeeps, DeleverageKeeps, LoseBookKeeps, KilledKeeps DEF World
<1>3. CASE UNCHANGED vars
    BY <1>3, StutterKeeps
<1>. QED
    BY <1>1, <1>2, <1>3 DEF Next

LEMMA Inductive == Spec => []IInv
<1>. QED
    BY InitInv, NextKeeps, PTL DEF Spec

(* Every quantity stays a natural number, and the journals name only       *)
(* orders the exchange can be asked about.                                 *)
THEOREM TypeCorrect == Spec => []CycleTypeOK
<1>1. IInv => CycleTypeOK
    BY DEF IInv
<1>. QED
    BY <1>1, Inductive, PTL

(* One position at most; and what a cycle that could read the account      *)
(* leaves is hedged, unless it says so, its own entry was taken for        *)
(* refused, or, for spot alone, it could not trade or a sale escaped it.   *)
THEOREM NoLegAlone == Spec => []PositionIsHedged
<1>1. IInv => PositionIsHedged
  <2> SUFFICES ASSUME IInv PROVE PositionIsHedged
      OBVIOUS
  <2> USE DEF IInv
  <2>1. short \in Nat /\ wallet \in Nat /\ cycle.book \in Book
      BY Numbers
  <2>2. NakedShortIsHeld
      BY DEF NakedShortIsHeld, OnTheWay, Bearable
  <2>3. NoNakedSpot
    <3>1. SUFFICES ASSUME cycle.pc = "save", cycle.good, Heard, short = 0
                   PROVE  MinOf(cycle.book.spot + cycle.book.dust, wallet) < MaxOf(2 * SpotMin, PerpStep)
        BY DEF NoNakedSpot
    <3>2. cycle.book.spot \in Nat /\ cycle.book.dust \in Nat
        BY <2>1 DEF Book
    <3>3. MinOf(cycle.book.spot, wallet) < SpotMin \/ cycle.book.spot < PerpStep
        BY <3>1 DEF Settling
    <3>4. cycle.book.dust = 0 \/ cycle.book.dust + cycle.book.spot <= SpotMin
        BY <3>1 DEF DustIsSmall, Dusty
    <3>. QED
        BY <2>1, <3>2, <3>3, <3>4
  <2>. QED
      BY <2>2, <2>3 DEF PositionIsHedged
<1>. QED
    BY <1>1, Inductive, PTL

(* With the book lost, the hedge stays, until the operator adopts it or    *)
(* the exchange takes it, by deleveraging or by a close that it refused    *)
(* and filled.                                                             *)
THEOREM LostHedgeStays == Spec => []LostHedgeKept
<1>1. IInv => LostHedgeKept
    BY DEF IInv, LostHedgeKept, LostKept
<1>. QED
    BY <1>1, Inductive, PTL

(* Coins that are not ours are sold only if a sale of ours did not reach   *)
(* the book (of unknown fate, taken for refused, or killed between it and  *)
(* the save), or an adoption has counted dust twice.                       *)
THEOREM ForeignIsSafe == Spec => []ForeignSoldOnlyBlind
<1>1. IInv => ForeignSoldOnlyBlind
  <2> SUFFICES ASSUME IInv, Heard PROVE ~(wallet < foreign)
      BY DEF ForeignSoldOnlyBlind
  <2>1. foreign <= wallet
      BY ForeignIsThere DEF IInv
  <2>. QED
      BY <2>1, Numbers DEF IInv
<1>. QED
    BY <1>1, Inductive, PTL

=============================================================================
