--------------------------- MODULE YieldCycleProofs ---------------------------
(***************************************************************************)
(* Proofs about YieldCycle, for any products, funds, caps, reserve and     *)
(* floor, any answer of the language model and any order in which Bybit    *)
(* fills and credits: the types; the cap of a product; the reserve; that   *)
(* no stake is sent while one of an earlier cycle is open.  IInv says what *)
(* a cycle that has read half of the account still knows of the rest, and  *)
(* that what it has planned fits into what is free when it is sent.        *)
(***************************************************************************)
EXTENDS YieldCycle, SumsProofs, SequenceTheorems, FiniteSetTheorems, FunctionTheorems

(* What a stake order counts for: not yet taken from the wallet; taken,    *)
(* and in no position; on its way to p; in the position of p, and listed.  *)
Owed(x) == IF x # None /\ ~x.debited THEN x.amount ELSE 0
Paid(x) == IF x # None /\ x.debited /\ x.status # "credited" THEN x.amount ELSE 0
Coming(x, p) == IF x # None /\ x.status # "credited" /\ x.of = p THEN x.amount ELSE 0
InHand(x, p) == IF x # None /\ x.status = "credited" /\ x.of = p THEN x.amount ELSE 0

OwedIn(st) == Sum([i \in 1..MaxStakes |-> Owed(st[i])], MaxStakes)
PaidIn(st) == Sum([i \in 1..MaxStakes |-> Paid(st[i])], MaxStakes)
ComingIn(st, p) == Sum([i \in 1..MaxStakes |-> Coming(st[i], p)], MaxStakes)
InHandIn(st, p) == Sum([i \in 1..MaxStakes |-> InHand(st[i], p)], MaxStakes)

(* All that the products hold, added up in some order.                     *)
Count == Cardinality(Products)
Listed == CHOOSE e \in Bijection(1..Count, Products) : TRUE
Holds(pos) == Sum([k \in 1..Count |-> pos[Listed[k]]], Count)

(* The stakes of a plan.                                                   *)
Staking(plan) == {k \in DOMAIN plan : plan[k].act = "STAKE"}
Spent(o) == IF o.act = "STAKE" THEN o.amount ELSE 0
ToSpend(plan) == Sum([k \in 1..Len(plan) |-> Spent(plan[k])], Len(plan))

(* No coin is lost or made, and none is spent twice.                       *)
Whole == wallet + Holds(position) + PaidIn(stakes) = Funds /\ Free >= 0
Covered == \A p \in Products : redeems[p].amount <= position[p]

(* A stake that is over has left the wallet; one that is in the position   *)
(* is listed while it is recent; Bybit credits the prompt products in time.*)
StakesSane ==
    \A i \in Slots :
        /\ i \notin Open => stakes[i].debited
        /\ stakes[i].recent \/ (i \in Uncredited /\ stakes[i].of \notin Prompt)

(* Between its reads a cycle knows at most the balance there is, but for a *)
(* stake that slid through; and the position, but for what is listed as    *)
(* credited since.                                                         *)
Known ==
    /\ cycle.pc \in {"positions", "orders"} => cycle.idle <= wallet \/ slid
    /\ cycle.pc = "orders" =>
          \A p \in Prompt : position[p] <= cycle.held[p] + InHandIn(stakes, p)

(* What is planned and not sent yet: one stake of a product, within its    *)
(* cap and the reserve, and nothing of an earlier cycle is open.           *)
Fits ==
    /\ cycle.pc # "execute" => cycle.plan = <<>>
    /\ \A k, l \in Staking(cycle.plan) : cycle.plan[k].of = cycle.plan[l].of => k = l
    /\ \A k \in Staking(cycle.plan) :
          cycle.plan[k].of \in Prompt => Exposure(cycle.plan[k].of) + cycle.plan[k].amount <= Cap
    /\ slid \/ Free - ToSpend(cycle.plan) >= Reserve
    /\ Staking(cycle.plan) # {} => \A j \in Open : stakes[j].mine

IInv == YieldTypeOK /\ Whole /\ Covered /\ StakesSane /\ Known /\ Fits /\ CapKept
-----------------------------------------------------------------------------
USE YieldAssumption

(* What the products hold.                                                 *)
LEMMA ListedIs ==
  /\ Count \in Nat /\ Listed \in [1..Count -> Products]
  /\ \A k, l \in 1..Count : Listed[k] = Listed[l] => k = l
  /\ \A p \in Products : \E k \in 1..Count : Listed[k] = p
<1>1. Count \in Nat /\ ExistsBijection(1..Count, Products)
    BY FS_CardinalityType DEF Count
<1>2. Bijection(1..Count, Products) # {}
    BY <1>1 DEF ExistsBijection
<1>3. Listed \in Bijection(1..Count, Products)
    BY <1>2 DEF Listed
<1>. QED
    BY <1>1, <1>3 DEF Bijection, Injection, Surjection, IsInjective

LEMMA HoldsIs ==
  ASSUME NEW pos \in [Products -> Nat]
  PROVE  Holds(pos) \in Nat /\ \A p \in Products : pos[p] <= Holds(pos)
<1> DEFINE f == [k \in 1..Count |-> pos[Listed[k]]]
<1>1. Count \in Nat /\ \A k \in 1..Count : f[k] \in Nat /\ f[k] = pos[Listed[k]]
    BY ListedIs
<1>2. Holds(pos) = Sum(f, Count)
    BY DEF Holds
<1> HIDE DEF f
<1>3. Sum(f, Count) \in Nat
    BY <1>1, SumNat
<1>4. ASSUME NEW p \in Products PROVE pos[p] <= Sum(f, Count)
  <2>1. PICK k \in 1..Count : Listed[k] = p
      BY ListedIs
  <2>2. f[k] <= Sum(f, Count)
      BY <1>1, SumTerm
  <2>. QED
      BY <1>1, <2>1, <2>2
<1>. QED
    BY <1>2, <1>3, <1>4

LEMMA HoldsChange ==
  ASSUME NEW pos \in [Products -> Nat], NEW p \in Products, NEW n \in Nat
  PROVE  Holds([pos EXCEPT ![p] = n]) = Holds(pos) + n - pos[p]
<1> DEFINE f == [k \in 1..Count |-> pos[Listed[k]]]
           g == [k \in 1..Count |-> [pos EXCEPT ![p] = n][Listed[k]]]
<1>1. PICK c \in 1..Count : Listed[c] = p
    BY ListedIs
<1>2. Count \in Nat /\ \A k \in 1..Count : Listed[k] \in Products /\ (Listed[k] = p => k = c)
    BY <1>1, ListedIs
<1>3. \A k \in 1..Count : f[k] \in Int /\ g[k] \in Int /\ (k # c => f[k] = g[k])
    BY <1>2
<1>4. f[c] = pos[p] /\ g[c] = n
    BY <1>1
<1>5. Holds(pos) = Sum(f, Count) /\ Holds([pos EXCEPT ![p] = n]) = Sum(g, Count)
    BY DEF Holds
<1> HIDE DEF f, g
<1>6. Sum(g, Count) = Sum(f, Count) + g[c] - f[c]
    BY <1>2, <1>3, SumChange
<1>. QED
    BY <1>4, <1>5, <1>6

(* What stake orders count for.                                            *)
Stakes == [1..MaxStakes -> Stake \cup {None}]

LEMMA StakeIs ==
  /\ None \notin Stake
  /\ \A x \in Stake : /\ x.amount \in 1..Funds /\ x.of \in Products
                      /\ x.status \in {"open", "success", "credited"}
                      /\ x.debited \in BOOLEAN /\ x.recent \in BOOLEAN /\ x.mine \in BOOLEAN
  /\ \A of \in Products, amount \in 1..Funds, status \in {"open", "success", "credited"},
        recent, debited, mine \in BOOLEAN :
        [of |-> of, amount |-> amount, status |-> status, recent |-> recent,
         debited |-> debited, mine |-> mine] \in Stake
BY DEF Stake, None

LEMMA WeightsAre ==
  ASSUME NEW x \in Stake \cup {None}, NEW p
  PROVE  Owed(x) \in 0..Funds /\ Paid(x) \in 0..Funds /\ Coming(x, p) \in 0..Funds
         /\ InHand(x, p) \in 0..Funds
BY StakeIs DEF Owed, Paid, Coming, InHand

LEMMA SumsAre ==
  ASSUME NEW st \in Stakes, NEW p
  PROVE  /\ OwedIn(st) \in Nat /\ PaidIn(st) \in Nat /\ ComingIn(st, p) \in Nat
         /\ InHandIn(st, p) \in Nat
         /\ \A i \in 1..MaxStakes : Owed(st[i]) <= OwedIn(st) /\ Paid(st[i]) <= PaidIn(st)
                                    /\ Coming(st[i], p) <= ComingIn(st, p)
<1> DEFINE f == [i \in 1..MaxStakes |-> Owed(st[i])]
           g == [i \in 1..MaxStakes |-> Paid(st[i])]
           h == [i \in 1..MaxStakes |-> Coming(st[i], p)]
           m == [i \in 1..MaxStakes |-> InHand(st[i], p)]
<1>1. \A i \in 1..MaxStakes : /\ Owed(st[i]) \in Nat /\ Paid(st[i]) \in Nat
                              /\ Coming(st[i], p) \in Nat /\ InHand(st[i], p) \in Nat
  <2> SUFFICES ASSUME NEW i \in 1..MaxStakes
               PROVE  /\ Owed(st[i]) \in Nat /\ Paid(st[i]) \in Nat
                      /\ Coming(st[i], p) \in Nat /\ InHand(st[i], p) \in Nat
      OBVIOUS
  <2>1. st[i] \in Stake \cup {None}
      BY DEF Stakes
  <2>2. /\ Owed(st[i]) \in 0..Funds /\ Paid(st[i]) \in 0..Funds
        /\ Coming(st[i], p) \in 0..Funds /\ InHand(st[i], p) \in 0..Funds
      BY <2>1, WeightsAre
  <2>. QED
      BY <2>2
<1>2. \A i \in 1..MaxStakes : f[i] \in Nat /\ g[i] \in Nat /\ h[i] \in Nat /\ m[i] \in Nat
    BY <1>1
<1>3. \A i \in 1..MaxStakes : /\ f[i] = Owed(st[i]) /\ g[i] = Paid(st[i]) 
                              /\ h[i] = Coming(st[i], p)
    OBVIOUS
<1>4. /\ OwedIn(st) = Sum(f, MaxStakes) /\ PaidIn(st) = Sum(g, MaxStakes)
      /\ ComingIn(st, p) = Sum(h, MaxStakes) /\ InHandIn(st, p) = Sum(m, MaxStakes)
    BY DEF OwedIn, PaidIn, ComingIn, InHandIn
<1> HIDE DEF f, g, h, m
<1>5. /\ Sum(f, MaxStakes) \in Nat /\ Sum(g, MaxStakes) \in Nat
      /\ Sum(h, MaxStakes) \in Nat /\ Sum(m, MaxStakes) \in Nat
    BY <1>2, SumNat
<1>6. \A i \in 1..MaxStakes : f[i] <= Sum(f, MaxStakes) /\ g[i] <= Sum(g, MaxStakes)
                              /\ h[i] <= Sum(h, MaxStakes)
    BY <1>2, SumTerm
<1>. QED
    BY <1>3, <1>4, <1>5, <1>6

(* One order changes.                                                      *)
Becomes(st, tt, c, e) == tt = [st EXCEPT ![c] = e]

OneDiffers(f, g, c) ==
    \A i \in 1..MaxStakes : f[i] \in Int /\ g[i] \in Int /\ (i # c => f[i] = g[i])

LEMMA OneChanges ==
  ASSUME NEW f, NEW g, NEW c \in 1..MaxStakes, OneDiffers(f, g, c)
  PROVE  Sum(g, MaxStakes) = Sum(f, MaxStakes) + g[c] - f[c]
<1>1. /\ MaxStakes \in Nat
      /\ \A i \in 1..MaxStakes : f[i] \in Int /\ g[i] \in Int
      /\ \A i \in 1..MaxStakes : i # c => f[i] = g[i]
    BY DEF OneDiffers
<1>. QED
    BY <1>1, SumChange

LEMMA SumsChange ==
  ASSUME NEW st \in Stakes, NEW c \in 1..MaxStakes, NEW e \in Stake \cup {None},
         NEW tt, Becomes(st, tt, c, e)
  PROVE  /\ tt \in Stakes
         /\ OwedIn(tt) = OwedIn(st) + Owed(e) - Owed(st[c])
         /\ PaidIn(tt) = PaidIn(st) + Paid(e) - Paid(st[c])
<1>1. tt \in Stakes /\ tt[c] = e /\ \A i \in 1..MaxStakes : i # c => tt[i] = st[i]
    BY DEF Stakes, Becomes
<1>2. \A i \in 1..MaxStakes : st[i] \in Stake \cup {None} /\ tt[i] \in Stake \cup {None}
    BY <1>1 DEF Stakes
<1>3. OwedIn(tt) = OwedIn(st) + Owed(e) - Owed(st[c])
  <2> DEFINE f == [i \in 1..MaxStakes |-> Owed(st[i])]
             g == [i \in 1..MaxStakes |-> Owed(tt[i])]
  <2>1. \A i \in 1..MaxStakes : f[i] \in Int /\ g[i] \in Int
      BY <1>2, WeightsAre
  <2>2. \A i \in 1..MaxStakes : i # c => f[i] = g[i]
      BY <1>1
  <2>3. f[c] = Owed(st[c]) /\ g[c] = Owed(e)
      BY <1>1
  <2>4. OwedIn(st) = Sum(f, MaxStakes) /\ OwedIn(tt) = Sum(g, MaxStakes)
      BY DEF OwedIn
  <2> HIDE DEF f, g
  <2>5. Sum(g, MaxStakes) = Sum(f, MaxStakes) + g[c] - f[c]
      BY <2>1, <2>2, OneChanges DEF OneDiffers
  <2>. QED
      BY <2>3, <2>4, <2>5
<1>4. PaidIn(tt) = PaidIn(st) + Paid(e) - Paid(st[c])
  <2> DEFINE f == [i \in 1..MaxStakes |-> Paid(st[i])]
             g == [i \in 1..MaxStakes |-> Paid(tt[i])]
  <2>1. \A i \in 1..MaxStakes : f[i] \in Int /\ g[i] \in Int
      BY <1>2, WeightsAre
  <2>2. \A i \in 1..MaxStakes : i # c => f[i] = g[i]
      BY <1>1
  <2>3. f[c] = Paid(st[c]) /\ g[c] = Paid(e)
      BY <1>1
  <2>4. PaidIn(st) = Sum(f, MaxStakes) /\ PaidIn(tt) = Sum(g, MaxStakes)
      BY DEF PaidIn
  <2> HIDE DEF f, g
  <2>5. Sum(g, MaxStakes) = Sum(f, MaxStakes) + g[c] - f[c]
      BY <2>1, <2>2, OneChanges DEF OneDiffers
  <2>. QED
      BY <2>3, <2>4, <2>5
<1>. QED
    BY <1>1, <1>3, <1>4

LEMMA ComingChange ==
  ASSUME NEW st \in Stakes, NEW c \in 1..MaxStakes, NEW e \in Stake \cup {None},
         NEW tt, Becomes(st, tt, c, e), NEW p
  PROVE  /\ ComingIn(tt, p) = ComingIn(st, p) + Coming(e, p) - Coming(st[c], p)
         /\ InHandIn(tt, p) = InHandIn(st, p) + InHand(e, p) - InHand(st[c], p)
<1>1. tt \in Stakes /\ tt[c] = e /\ \A i \in 1..MaxStakes : i # c => tt[i] = st[i]
    BY DEF Stakes, Becomes
<1>2. \A i \in 1..MaxStakes : st[i] \in Stake \cup {None} /\ tt[i] \in Stake \cup {None}
    BY <1>1 DEF Stakes
<1>3. ComingIn(tt, p) = ComingIn(st, p) + Coming(e, p) - Coming(st[c], p)
  <2> DEFINE f == [i \in 1..MaxStakes |-> Coming(st[i], p)]
             g == [i \in 1..MaxStakes |-> Coming(tt[i], p)]
  <2>1. \A i \in 1..MaxStakes : f[i] \in Int /\ g[i] \in Int
      BY <1>2, WeightsAre
  <2>2. \A i \in 1..MaxStakes : i # c => f[i] = g[i]
      BY <1>1
  <2>3. f[c] = Coming(st[c], p) /\ g[c] = Coming(e, p)
      BY <1>1
  <2>4. ComingIn(st, p) = Sum(f, MaxStakes) /\ ComingIn(tt, p) = Sum(g, MaxStakes)
      BY DEF ComingIn
  <2> HIDE DEF f, g
  <2>5. Sum(g, MaxStakes) = Sum(f, MaxStakes) + g[c] - f[c]
      BY <2>1, <2>2, OneChanges DEF OneDiffers
  <2>. QED
      BY <2>3, <2>4, <2>5
<1>4. InHandIn(tt, p) = InHandIn(st, p) + InHand(e, p) - InHand(st[c], p)
  <2> DEFINE f == [i \in 1..MaxStakes |-> InHand(st[i], p)]
             g == [i \in 1..MaxStakes |-> InHand(tt[i], p)]
  <2>1. \A i \in 1..MaxStakes : f[i] \in Int /\ g[i] \in Int
      BY <1>2, WeightsAre
  <2>2. \A i \in 1..MaxStakes : i # c => f[i] = g[i]
      BY <1>1
  <2>3. f[c] = InHand(st[c], p) /\ g[c] = InHand(e, p)
      BY <1>1
  <2>4. InHandIn(st, p) = Sum(f, MaxStakes) /\ InHandIn(tt, p) = Sum(g, MaxStakes)
      BY DEF InHandIn
  <2> HIDE DEF f, g
  <2>5. Sum(g, MaxStakes) = Sum(f, MaxStakes) + g[c] - f[c]
      BY <2>1, <2>2, OneChanges DEF OneDiffers
  <2>. QED
      BY <2>3, <2>4, <2>5
<1>. QED
    BY <1>3, <1>4

(* The amounts of the model, in these terms.                               *)
LEMMA OwedAre ==
  ASSUME NEW st
  PROVE  Sum([i \in 1..MaxStakes |->
                IF i \in {j \in {k \in 1..MaxStakes : st[k] # None} : ~st[j].debited}
                THEN st[i].amount ELSE 0], MaxStakes) = OwedIn(st)
<1>1. [i \in 1..MaxStakes |->
         IF i \in {j \in {k \in 1..MaxStakes : st[k] # None} : ~st[j].debited}
         THEN st[i].amount ELSE 0] = [i \in 1..MaxStakes |-> Owed(st[i])]
    BY DEF Owed
<1>. QED
    BY <1>1 DEF OwedIn

LEMMA ComingAre ==
  ASSUME NEW st, NEW p
  PROVE  Sum([i \in 1..MaxStakes |->
                IF i \in {j \in {m \in {k \in 1..MaxStakes : st[k] # None} : st[m].status # "credited"} :
                              st[j].of = p}
                THEN st[i].amount ELSE 0], MaxStakes) = ComingIn(st, p)
<1>1. [i \in 1..MaxStakes |->
         IF i \in {j \in {m \in {k \in 1..MaxStakes : st[k] # None} : st[m].status # "credited"} :
                       st[j].of = p}
         THEN st[i].amount ELSE 0] = [i \in 1..MaxStakes |-> Coming(st[i], p)]
    BY DEF Coming
<1>. QED
    BY <1>1 DEF ComingIn

LEMMA FreeIs == Free = wallet - OwedIn(stakes) /\ Free' = wallet' - OwedIn(stakes')
BY OwedAre DEF Free, Amount, Slots

LEMMA ExposureIs ==
  ASSUME NEW p
  PROVE  /\ Exposure(p) = position[p] + ComingIn(stakes, p)
         /\ Exposure(p)' = position'[p] + ComingIn(stakes', p)
BY ComingAre DEF Exposure, Amount, Uncredited, Slots

(* What a cycle counts of a prompt product: all that is on its way to it,  *)
(* or in it and listed.                                                    *)
LEMMA CountedIs ==
  ASSUME stakes \in Stakes, StakesSane, NEW p \in Prompt
  PROVE  Amount({i \in Counted : stakes[i].of = p}) = ComingIn(stakes, p) + InHandIn(stakes, p)
<1> DEFINE f == [i \in 1..MaxStakes |-> Coming(stakes[i], p)]
           g == [i \in 1..MaxStakes |-> InHand(stakes[i], p)]
           h == [i \in 1..MaxStakes |->
                   IF i \in {j \in Counted : stakes[j].of = p} THEN stakes[i].amount ELSE 0]
<1>1. ASSUME NEW i \in 1..MaxStakes
      PROVE  f[i] \in Int /\ g[i] \in Int /\ h[i] \in Int /\ h[i] = f[i] + g[i]
  <2>1. CASE stakes[i] = None
    <3>1. i \notin Counted
        BY <2>1 DEF Counted, Slots
    <3>. QED
        BY <2>1, <3>1 DEF Coming, InHand
  <2>2. CASE stakes[i] # None
    <3>1. stakes[i] \in Stake /\ i \in Slots
        BY <2>2 DEF Stakes, Slots
    <3>2. stakes[i].of = p => i \in Counted
        BY <3>1 DEF StakesSane, Counted, Uncredited, Open
    <3>3. stakes[i].amount \in Int
        BY <3>1, StakeIs
    <3>. QED
        BY <2>2, <3>1, <3>2, <3>3 DEF Coming, InHand
  <2>. QED
      BY <2>1, <2>2
<1>2. /\ Amount({i \in Counted : stakes[i].of = p}) = Sum(h, MaxStakes)
      /\ ComingIn(stakes, p) = Sum(f, MaxStakes) /\ InHandIn(stakes, p) = Sum(g, MaxStakes)
    BY DEF Amount, ComingIn, InHandIn
<1> HIDE DEF f, g, h
<1>. QED
    BY <1>1, <1>2, SumAdd

(* Plans.                                                                  *)
Plans == Seq(Sent)

LEMMA SentIs ==
  /\ \A o \in Sent : o.act \in {"STAKE", "REDEEM"} /\ o.of \in Products /\ o.amount \in 1..Funds
  /\ \A act \in {"STAKE", "REDEEM"}, of \in Products, amount \in 1..Funds :
        [act |-> act, of |-> of, amount |-> amount] \in Sent
BY DEF Sent

LEMMA ToSpendNat == ASSUME NEW plan \in Plans PROVE ToSpend(plan) \in Nat
<1> DEFINE f == [k \in 1..Len(plan) |-> Spent(plan[k])]
<1>1. Len(plan) \in Nat /\ \A k \in 1..Len(plan) : plan[k] \in Sent
    BY DEF Plans
<1>2. \A k \in 1..Len(plan) : f[k] \in Nat
    BY <1>1, SentIs DEF Spent
<1>3. ToSpend(plan) = Sum(f, Len(plan))
    BY DEF ToSpend
<1> HIDE DEF f
<1>. QED
    BY <1>1, <1>2, <1>3, SumNat

LEMMA NothingToSpend == ASSUME NEW plan \in Plans, Staking(plan) = {} PROVE ToSpend(plan) = 0
<1> DEFINE f == [k \in 1..Len(plan) |-> Spent(plan[k])]
<1>1. Len(plan) \in Nat /\ DOMAIN plan = 1..Len(plan)
    BY DEF Plans
<1>2. \A k \in 1..Len(plan) : f[k] = 0
    BY <1>1 DEF Spent, Staking
<1>3. ToSpend(plan) = Sum(f, Len(plan))
    BY DEF ToSpend
<1> HIDE DEF f
<1>. QED
    BY <1>1, <1>2, <1>3, SumZero

(* One order more.                                                         *)
LEMMA ToSpendAppend ==
  ASSUME NEW plan \in Plans, NEW o \in Sent
  PROVE  ToSpend(Append(plan, o)) = ToSpend(plan) + Spent(o)
<1> DEFINE n == Len(plan)
           pl == Append(plan, o)
           f == [k \in 1..n + 1 |-> Spent(pl[k])]
           g == [k \in 1..n |-> Spent(plan[k])]
<1>1. /\ n \in Nat /\ \A k \in 1..n : plan[k] \in Sent
      /\ pl \in Seq(Sent) /\ Len(pl) = n + 1 /\ pl[n + 1] = o /\ \A k \in 1..n : pl[k] = plan[k]
    BY AppendProperties DEF Plans
<1>2. \A k \in 1..n + 1 : pl[k] \in Sent
    BY <1>1
<1>3. \A k \in 1..n + 1 : f[k] \in Int
    BY <1>2, SentIs DEF Spent
<1>4. (\A k \in 1..(n + 1) - 1 : g[k] = f[k]) /\ f[n + 1] = Spent(o)
    BY <1>1
<1>5. ToSpend(pl) = Sum(f, n + 1) /\ ToSpend(plan) = Sum(g, n)
    BY <1>1 DEF ToSpend
<1>6. n + 1 \in Nat \ {0} /\ (n + 1) - 1 = n
    BY <1>1
<1> HIDE DEF f, g, n, pl
<1>7. Sum(f, n + 1) = Sum(g, (n + 1) - 1) + f[n + 1]
    BY <1>3, <1>4, <1>6, SumLast
<1>. QED
    BY <1>4, <1>5, <1>6, <1>7 DEF pl

(* One order sent.                                                         *)
LEMMA PlanTail ==
  ASSUME NEW plan \in Plans, plan # <<>>
  PROVE  /\ Head(plan) \in Sent /\ Head(plan) = plan[1] /\ 1 \in DOMAIN plan
         /\ Tail(plan) \in Plans
         /\ ToSpend(plan) = Spent(Head(plan)) + ToSpend(Tail(plan))
         /\ \A k \in DOMAIN Tail(plan) : k \in Nat /\ k >= 1 /\ k + 1 \in DOMAIN plan
                                         /\ Tail(plan)[k] = plan[k + 1]
<1> DEFINE n == Len(plan)
           pl == Tail(plan)
           f == [k \in 1..n |-> Spent(plan[k])]
           g == [k \in 1..n - 1 |-> Spent(pl[k])]
<1>1. /\ n \in Nat \ {0} /\ DOMAIN plan = 1..n /\ \A k \in 1..n : plan[k] \in Sent
      /\ Head(plan) \in Sent /\ Head(plan) = plan[1]
      /\ pl \in Seq(Sent) /\ Len(pl) = n - 1 /\ DOMAIN pl = 1..n - 1
      /\ \A k \in 1..n - 1 : pl[k] = plan[k + 1]
    BY HeadTailProperties DEF Plans
<1>2. \A k \in 1..n : f[k] \in Int
    BY <1>1, SentIs DEF Spent
<1>3. (\A k \in 1..n - 1 : g[k] = f[k + 1]) /\ f[1] = Spent(Head(plan))
    BY <1>1
<1>4. ToSpend(plan) = Sum(f, n) /\ ToSpend(pl) = Sum(g, n - 1)
    BY <1>1 DEF ToSpend
<1>5. 1 \in DOMAIN plan /\ \A k \in DOMAIN pl : k \in Nat /\ k >= 1 /\ k + 1 \in DOMAIN plan
                                                 /\ pl[k] = plan[k + 1]
    BY <1>1
<1> HIDE DEF f, g, n, pl
<1>6. Sum(f, n) = f[1] + Sum(g, n - 1)
    BY <1>1, <1>2, <1>3, SumFirst
<1>. QED
    BY <1>1, <1>3, <1>4, <1>5, <1>6 DEF pl, Plans

(* What build_plan knows, and what it has made of the decisions so far.    *)
Reads == [unread : BOOLEAN, block : BOOLEAN, redeeming : SUBSET Products,
          committed : [Products -> Int]]
Limits == UNION {[scan -> 1..Cap] : scan \in SUBSET Products}
Validated(limit, read) == Gated(Wanted(DOMAIN limit), read)
Accs == [plan : Plans, idle : Int]
Sound(acc, read) ==
    /\ acc \in Accs
    /\ acc.idle + ToSpend(acc.plan) = cycle.idle
    /\ \A k, l \in Staking(acc.plan) : acc.plan[k].of = acc.plan[l].of => k = l
    /\ \A k \in Staking(acc.plan) : acc.plan[k].amount <= Cap - read.committed[acc.plan[k].of]
    /\ Staking(acc.plan) # {} => acc.idle >= Reserve /\ MayStake(read) /\ ~read.block

LEMMA LeastIs ==
  ASSUME NEW a \in Int, NEW b \in Int, NEW c \in Int
  PROVE  LET m == Least({a, b, c}) IN m \in Int /\ m <= a /\ m <= b /\ m <= c
<1>1. \E m \in {a, b, c} : \A n \in {a, b, c} : m <= n
    OBVIOUS
<1>2. /\ Least({a, b, c}) \in {a, b, c}
      /\ \A n \in {a, b, c} : Least({a, b, c}) <= n
    BY <1>1 DEF Least
<1>. QED
    BY <1>2

LEMMA StakingAppend ==
  ASSUME NEW plan \in Plans, NEW o \in Sent
  PROVE  /\ Append(plan, o) \in Plans
         /\ \A k \in Staking(Append(plan, o)) :
               \/ k \in Staking(plan) /\ Append(plan, o)[k] = plan[k]
               \/ k = Len(plan) + 1 /\ Append(plan, o)[k] = o /\ o.act = "STAKE"
<1> DEFINE pl == Append(plan, o)
<1>1. /\ pl \in Seq(Sent) /\ Len(pl) = Len(plan) + 1 /\ Len(plan) \in Nat
      /\ \A k \in 1..Len(plan) : pl[k] = plan[k]
      /\ pl[Len(plan) + 1] = o
    BY AppendProperties DEF Plans
<1>2. DOMAIN pl = 1..Len(plan) + 1 /\ DOMAIN plan = 1..Len(plan)
    BY <1>1 DEF Plans
<1> HIDE DEF pl
<1>3. ASSUME NEW k \in Staking(pl)
      PROVE  \/ k \in Staking(plan) /\ pl[k] = plan[k]
             \/ k = Len(plan) + 1 /\ pl[k] = o /\ o.act = "STAKE"
    BY <1>1, <1>2 DEF Staking
<1>. QED
    BY <1>1, <1>3 DEF pl, Plans

LEMMA ConsideredKeeps ==
  ASSUME cycle.held \in [Products -> 0..Funds], cycle.idle \in 0..Funds,
         NEW read \in Reads, NEW limit \in Limits, NEW acc, Sound(acc, read),
         NEW d \in Validated(limit, read)
  PROVE  Sound(Considered(acc, d, read, limit), read)
<1> DEFINE amount == StakeAmount(d.of, acc.idle, read, limit)
           o == [act |-> "STAKE", of |-> d.of, amount |-> amount]
           r == [act |-> "REDEEM", of |-> d.of, amount |-> cycle.held[d.of]]
<1>1. acc.plan \in Plans /\ acc.idle \in Int /\ acc.idle + ToSpend(acc.plan) = cycle.idle
    BY DEF Sound, Accs
<1>2. /\ d.act \in {"STAKE", "REDEEM"} /\ d.of \in Products
      /\ d.act = "STAKE" => MayStake(read) /\ limit[d.of] \in 1..Cap
    BY DEF Validated, Gated, Wanted, HeldIds, Limits
<1>3. CASE d.act = "STAKE" /\ Stakeable(d.of, acc, read, limit)
  <2>1. amount \in Int /\ amount <= acc.idle - Reserve /\ amount <= Cap - read.committed[d.of]
    <3>1. /\ acc.idle - Reserve \in Int /\ Cap - read.committed[d.of] \in Int
          /\ limit[d.of] \in Int
        BY <1>1, <1>2, <1>3 DEF Reads
    <3>. QED
        BY <3>1, LeastIs DEF StakeAmount
  <2>2. /\ amount >= Floor /\ ~read.block
        /\ \A k \in Staking(acc.plan) : acc.plan[k].of # d.of
      BY <1>3 DEF Stakeable, Staking
  <2> HIDE DEF amount
  <2>3. ToSpend(acc.plan) \in Nat
      BY <1>1, ToSpendNat
  <2>4. amount \in 1..Funds
      BY <1>1, <2>1, <2>2, <2>3
  <2>5. o \in Sent /\ o.of = d.of /\ o.amount = amount /\ Spent(o) = amount
      BY <1>2, <2>4, SentIs DEF Spent
  <2>6. Considered(acc, d, read, limit) = [plan |-> Append(acc.plan, o), idle |-> acc.idle - amount]
      BY <1>3 DEF Considered, Planned, IdleAfter, amount
  <2> HIDE DEF o
  <2> DEFINE pl == Append(acc.plan, o)
  <2>7. /\ pl \in Plans /\ ToSpend(pl) = ToSpend(acc.plan) + amount
        /\ \A k \in Staking(pl) : \/ k \in Staking(acc.plan) /\ pl[k] = acc.plan[k]
                                  \/ k = Len(acc.plan) + 1 /\ pl[k] = o
    <3>1. ToSpend(pl) = ToSpend(acc.plan) + Spent(o)
        BY <1>1, <2>5, ToSpendAppend
    <3>2. ToSpend(pl) = ToSpend(acc.plan) + amount
        BY <2>5, <3>1
    <3>3. /\ pl \in Plans
          /\ \A k \in Staking(pl) : \/ k \in Staking(acc.plan) /\ pl[k] = acc.plan[k]
                                    \/ k = Len(acc.plan) + 1 /\ pl[k] = o /\ o.act = "STAKE"
        BY <1>1, <2>5, StakingAppend, Zenon
    <3>. QED
        BY <3>2, <3>3
  <2> HIDE DEF pl
  <2>8. (acc.idle - amount) + ToSpend(pl) = cycle.idle
      BY <1>1, <2>1, <2>3, <2>7
  <2>9. \A k, l \in Staking(pl) : pl[k].of = pl[l].of => k = l
      BY <2>2, <2>5, <2>7 DEF Sound
  <2>10. \A k \in Staking(pl) : pl[k].amount <= Cap - read.committed[pl[k].of]
      BY <2>1, <2>5, <2>7 DEF Sound
  <2>11. acc.idle - amount \in Int /\ acc.idle - amount >= Reserve
      BY <1>1, <2>1
  <2> DEFINE res == [plan |-> pl, idle |-> acc.idle - amount]
  <2>12. res \in Accs /\ res.plan = pl /\ res.idle = acc.idle - amount
      BY <2>7, <2>11 DEF Accs
  <2>13. Considered(acc, d, read, limit) = res
      BY <2>6 DEF pl
  <2>14. MayStake(read) /\ ~read.block
      BY <1>2, <1>3, <2>2
  <2> HIDE DEF res
  <2>15. Sound(res, read)
      BY <2>8, <2>9, <2>10, <2>11, <2>12, <2>14 DEF Sound
  <2>. QED
      BY <2>13, <2>15
<1>4. CASE d.act = "REDEEM" /\ Redeemable(d.of, acc, read)
  <2>1. cycle.held[d.of] \in 1..Funds
      BY <1>2, <1>4 DEF Redeemable
  <2>2. r \in Sent /\ Spent(r) = 0 /\ r.act = "REDEEM"
      BY <1>2, <2>1, SentIs DEF Spent
  <2>3. Considered(acc, d, read, limit) = [plan |-> Append(acc.plan, r), idle |-> acc.idle]
      BY <1>4 DEF Considered, Planned
  <2> HIDE DEF r
  <2> DEFINE pl == Append(acc.plan, r)
  <2>4. /\ pl \in Plans /\ ToSpend(pl) = ToSpend(acc.plan) + 0
        /\ \A k \in Staking(pl) : k \in Staking(acc.plan) /\ pl[k] = acc.plan[k]
      BY <1>1, <2>2, StakingAppend, ToSpendAppend
  <2> HIDE DEF pl
  <2>5. ToSpend(pl) = ToSpend(acc.plan)
      BY <1>1, <2>4, ToSpendNat
  <2> DEFINE res == [plan |-> pl, idle |-> acc.idle]
  <2>6. res \in Accs /\ res.plan = pl /\ res.idle = acc.idle
      BY <1>1, <2>4 DEF Accs
  <2>7. Considered(acc, d, read, limit) = res
      BY <2>3 DEF pl
  <2> HIDE DEF res
  <2>8. Sound(res, read)
      BY <2>4, <2>5, <2>6 DEF Sound
  <2>. QED
      BY <2>7, <2>8
<1>5. CASE Considered(acc, d, read, limit) = acc
    BY <1>5
<1>. QED
    BY <1>3, <1>4, <1>5 DEF Considered

(* Whatever is decided, build_plan's plan is sound.                        *)
Stated(s, decisions, read, limit, n) ==
    /\ DOMAIN s = 0..n
    /\ s[0] = [plan |-> <<>>, idle |-> cycle.idle]
    /\ \A i \in 1..n : s[i] = Considered(s[i - 1], decisions[i], read, limit)

LEMMA FoldExists ==
  ASSUME NEW decisions, NEW read, NEW limit, NEW n \in Nat
  PROVE  \E s : s = [i \in 0..n |-> s[i]] /\ Stated(s, decisions, read, limit, n)
<1> DEFINE Good(s, k) == s = [i \in 0..k |-> s[i]] /\ Stated(s, decisions, read, limit, k)
           S == {k \in 0..n : \E s : Good(s, k)}
<1>1. 0 \in S
  <2>1. Good([i \in 0..0 |-> [plan |-> <<>>, idle |-> cycle.idle]], 0)
      BY DEF Stated
  <2>. QED
      BY <2>1
<1>2. ASSUME NEW k \in 1..n, k - 1 \in S PROVE k \in S
  <2>1. PICK s : Good(s, k - 1)
      BY <1>2
  <2> DEFINE t == [i \in 0..k |-> IF i = k THEN Considered(s[k - 1], decisions[k], read, limit)
                                  ELSE s[i]]
  <2>2. DOMAIN t = 0..k /\ t = [i \in 0..k |-> t[i]]
      OBVIOUS
  <2>3. t[0] = [plan |-> <<>>, idle |-> cycle.idle]
      BY <2>1 DEF Stated
  <2>4. ASSUME NEW i \in 1..k PROVE t[i] = Considered(t[i - 1], decisions[i], read, limit)
    <3>1. CASE i = k
      <4>1. t[i - 1] = s[k - 1]
          BY <3>1
      <4>. QED
          BY <3>1, <4>1
    <3>2. CASE i # k
      <4>1. i \in 1..k - 1 /\ t[i] = s[i] /\ t[i - 1] = s[i - 1]
          BY <3>2
      <4>. QED
          BY <2>1, <4>1 DEF Stated
    <3>. QED
        BY <3>1, <3>2
  <2> HIDE DEF t
  <2>5. Good(t, k)
      BY <2>2, <2>3, <2>4 DEF Stated
  <2>. QED
      BY <2>5
<1> HIDE DEF S
<1>3. n \in S
    BY <1>1, <1>2, UpTo
<1>. QED
    BY <1>3 DEF S

LEMMA PlanIsSound ==
  ASSUME cycle.held \in [Products -> 0..Funds], cycle.idle \in 0..Funds,
         NEW read \in Reads, NEW limit \in Limits, NEW decisions \in Seq(Validated(limit, read))
  PROVE  \E idle : Sound([plan |-> BuildPlan(decisions, read, limit), idle |-> idle], read)
<1> DEFINE n == Len(decisions)
           Solves(s) == s = [i \in 0..n |-> IF i = 0 THEN [plan |-> <<>>, idle |-> cycle.idle]
                                            ELSE Considered(s[i - 1], decisions[i], read, limit)]
<1>1. n \in Nat /\ \A i \in 1..n : decisions[i] \in Validated(limit, read)
    OBVIOUS
<1>2. \E s : Solves(s)
  <2>1. PICK s : s = [i \in 0..n |-> s[i]] /\ Stated(s, decisions, read, limit, n)
      BY <1>1, FoldExists
  <2>2. \A i \in 0..n : s[i] = IF i = 0 THEN [plan |-> <<>>, idle |-> cycle.idle]
                               ELSE Considered(s[i - 1], decisions[i], read, limit)
    <3>1. \A i \in 0..n : i = 0 \/ i \in 1..n
        BY <1>1
    <3>2. /\ s[0] = [plan |-> <<>>, idle |-> cycle.idle]
          /\ \A i \in 1..n : s[i] = Considered(s[i - 1], decisions[i], read, limit)
        BY <2>1, Zenon DEF Stated
    <3>3. \A i \in 1..n : i # 0
        BY <1>1
    <3>. QED
        BY <3>1, <3>2, <3>3, Zenon
  <2>3. Solves(s)
      BY <2>1, <2>2
  <2>. QED
      BY <2>3
<1> DEFINE s == CHOOSE s : Solves(s)
<1>3. Solves(s)
    BY <1>2
<1>4. BuildPlan(decisions, read, limit) = s[n].plan
    BY DEF BuildPlan
<1> HIDE DEF s
<1>5. /\ s[0] = [plan |-> <<>>, idle |-> cycle.idle]
      /\ \A i \in 1..n : s[i] = Considered(s[i - 1], decisions[i], read, limit)
    BY <1>1, <1>3
<1> DEFINE S == {k \in 0..n : Sound(s[k], read)}
<1>6. 0 \in S
  <2>1. <<>> \in Plans /\ Staking(<<>>) = {}
      BY DEF Plans, Staking
  <2>2. ToSpend(<<>>) = 0
      BY <2>1, NothingToSpend
  <2>3. Sound(s[0], read)
      BY <1>5, <2>1, <2>2 DEF Sound, Accs
  <2>. QED
      BY <1>1, <2>3
<1>7. ASSUME NEW k \in 1..n, k - 1 \in S PROVE k \in S
  <2>1. k - 1 \in 0..n /\ k \in 0..n /\ Sound(s[k - 1], read)
      BY <1>1, <1>7
  <2>2. Sound(Considered(s[k - 1], decisions[k], read, limit), read)
      BY <1>1, <2>1, ConsideredKeeps
  <2>. QED
      BY <1>5, <2>1, <2>2
<1> HIDE DEF S
<1>8. 0..n \subseteq S
    BY <1>1, <1>6, <1>7, UpTo
<1>9. Sound(s[n], read)
    BY <1>1, <1>8 DEF S
<1>10. s[n] = [plan |-> s[n].plan, idle |-> s[n].idle]
    BY <1>9 DEF Sound, Accs
<1>. QED
    BY <1>4, <1>9, <1>10

-----------------------------------------------------------------------------
(* Bybit.                                                                  *)

LEMMA TypesAre ==
  ASSUME YieldTypeOK
  PROVE  /\ wallet \in 0..Funds /\ position \in [Products -> 0..Funds]
         /\ position \in [Products -> Nat]
         /\ stakes \in Stakes /\ redeems \in [Products -> Redeem]
         /\ \A p \in Products : redeems[p].amount \in 0..Funds
         /\ faults \in 0..MaxFaults /\ slid \in BOOLEAN
         /\ cycle.idle \in 0..Funds /\ cycle.held \in [Products -> 0..Funds]
         /\ cycle.plan \in Plans /\ cycle.pc \in {"off", "positions", "orders", "execute"}
         /\ cycle.unread \in BOOLEAN /\ cycle.gone \in SUBSET Products
<1>1. \A r \in Redeem : r.amount \in 0..Funds
    BY DEF Redeem
<1>. QED
    BY <1>1 DEF YieldTypeOK, Stakes, Plans

(* As no coin is made, no amount exceeds the funds.                        *)
LEMMA Bounded ==
  ASSUME NEW w \in Int, NEW pos \in [Products -> Nat], NEW st \in Stakes,
         w + Holds(pos) + PaidIn(st) = Funds, w - OwedIn(st) >= 0
  PROVE  w \in 0..Funds /\ pos \in [Products -> 0..Funds]
<1>1. Holds(pos) \in Nat /\ \A p \in Products : pos[p] <= Holds(pos)
    BY HoldsIs
<1>2. OwedIn(st) \in Nat /\ PaidIn(st) \in Nat
    BY SumsAre
<1>3. w \in 0..Funds /\ Holds(pos) <= Funds
    BY <1>1, <1>2
<1>4. \A p \in Products : pos[p] \in 0..Funds
    BY <1>1, <1>3
<1>. QED
    BY <1>3, <1>4

(* What Bybit does to the account: nothing is lost; no less is free, no    *)
(* more is at a product or on its way; nothing new is open; and what a     *)
(* cycle has read still bounds what there is.                              *)
Settles ==
    /\ cycle' = cycle /\ faults' \in 0..MaxFaults /\ slid' \in BOOLEAN /\ (slid => slid')
    /\ stakes' \in Stakes /\ redeems' \in [Products -> Redeem]
    /\ position' \in [Products -> Nat] /\ wallet' \in Int
    /\ Covered' /\ StakesSane'
    /\ wallet' + Holds(position') + PaidIn(stakes') = Funds
    /\ wallet' - OwedIn(stakes') >= wallet - OwedIn(stakes)
    /\ \A p \in Products :
          position'[p] + ComingIn(stakes', p) <= position[p] + ComingIn(stakes, p)
    /\ cycle.pc \in {"positions", "orders"} => slid' \/ wallet <= wallet'
    /\ cycle.pc = "orders" => \A p \in Prompt :
          position'[p] - InHandIn(stakes', p) <= position[p] - InHandIn(stakes, p)
    /\ \A j \in Open' : j \in Open /\ stakes'[j].mine = stakes[j].mine

LEMMA SettlesKeeps == ASSUME IInv, Settles PROVE IInv'
<1>1. /\ YieldTypeOK /\ stakes \in Stakes /\ wallet \in Int /\ position \in [Products -> Nat]
      /\ cycle.idle \in Int /\ cycle.held \in [Products -> 0..Funds] /\ cycle.plan \in Plans
      /\ slid \in BOOLEAN
    BY TypesAre DEF IInv
<1>2. /\ stakes' \in Stakes /\ position' \in [Products -> Nat] /\ wallet' \in Int
      /\ cycle' = cycle /\ (slid => slid')
      /\ wallet' + Holds(position') + PaidIn(stakes') = Funds
      /\ wallet' - OwedIn(stakes') >= wallet - OwedIn(stakes)
    BY DEF Settles
<1>3. /\ OwedIn(stakes) \in Int /\ OwedIn(stakes') \in Int
      /\ \A p : ComingIn(stakes, p) \in Int /\ ComingIn(stakes', p) \in Int
      /\ \A p : InHandIn(stakes, p) \in Int /\ InHandIn(stakes', p) \in Int
    BY <1>1, <1>2, SumsAre
<1>4. Free \in Int /\ Free' \in Int /\ Free' >= Free /\ Free >= 0
  <2>1. Free >= 0
      BY DEF IInv, Whole
  <2>. QED
      BY <1>1, <1>2, <1>3, <2>1, FreeIs
<1>5. Whole'
    BY <1>2, <1>4 DEF Whole
<1>6. wallet' \in 0..Funds /\ position' \in [Products -> 0..Funds]
  <2>1. wallet' - OwedIn(stakes') >= 0
      BY <1>4, FreeIs
  <2>. QED
      BY <1>2, <2>1, Bounded
<1>7. YieldTypeOK'
    BY <1>1, <1>6 DEF YieldTypeOK, Settles, Stakes
<1>8. Covered' /\ StakesSane'
    BY DEF Settles
<1>9. \A p \in Products : Exposure(p)' <= Exposure(p) /\ Exposure(p) \in Int /\ Exposure(p)' \in Int
  <2> SUFFICES ASSUME NEW p \in Products
               PROVE  Exposure(p)' <= Exposure(p) /\ Exposure(p) \in Int /\ Exposure(p)' \in Int
      OBVIOUS
  <2>1. position'[p] + ComingIn(stakes', p) <= position[p] + ComingIn(stakes, p)
      BY DEF Settles
  <2>2. position[p] \in Int /\ position'[p] \in Int
      BY <1>1, <1>2
  <2>3. /\ Exposure(p) = position[p] + ComingIn(stakes, p)
        /\ Exposure(p)' = position'[p] + ComingIn(stakes', p)
      BY ExposureIs
  <2>. QED
      BY <1>3, <2>1, <2>2, <2>3
<1>10. Known'
  <2>1. ASSUME cycle.pc \in {"positions", "orders"} PROVE cycle.idle <= wallet' \/ slid'
    <3>1. cycle.idle <= wallet \/ slid
        BY <2>1 DEF IInv, Known
    <3>2. slid' \/ wallet <= wallet'
        BY <2>1 DEF Settles
    <3>. QED
        BY <1>1, <1>2, <3>1, <3>2
  <2>2. ASSUME cycle.pc = "orders", NEW p \in Prompt
        PROVE  position'[p] <= cycle.held[p] + InHandIn(stakes', p)
    <3>1. position[p] <= cycle.held[p] + InHandIn(stakes, p)
        BY <2>2 DEF IInv, Known
    <3>2. position'[p] - InHandIn(stakes', p) <= position[p] - InHandIn(stakes, p)
        BY <2>2 DEF Settles
    <3>3. position[p] \in Int /\ position'[p] \in Int /\ cycle.held[p] \in Int
        BY <1>1, <1>2
    <3>. QED
        BY <1>3, <3>1, <3>2, <3>3
  <2>. QED
      BY <1>2, <2>1, <2>2 DEF Known
<1>11. Fits'
  <2>1. \A k \in Staking(cycle.plan) : /\ cycle.plan[k].of \in Products
                                       /\ cycle.plan[k].amount \in Int
      BY <1>1, SentIs DEF Staking, Plans
  <2>2. ASSUME NEW k \in Staking(cycle.plan), NEW p \in Prompt, cycle.plan[k].of = p
        PROVE  Exposure(p)' + cycle.plan[k].amount <= Cap
    <3>1. Exposure(p) + cycle.plan[k].amount <= Cap
        BY <2>2 DEF IInv, Fits
    <3>2. Exposure(p)' <= Exposure(p) /\ Exposure(p) \in Int /\ Exposure(p)' \in Int
        BY <1>9
    <3>3. cycle.plan[k].amount \in Int
        BY <2>1
    <3>. QED
        BY <3>1, <3>2, <3>3
  <2>3. slid' \/ Free' - ToSpend(cycle.plan) >= Reserve
    <3>1. slid \/ Free - ToSpend(cycle.plan) >= Reserve
        BY DEF IInv, Fits
    <3>2. ToSpend(cycle.plan) \in Int
        BY <1>1, ToSpendNat
    <3>. QED
        BY <1>2, <1>4, <3>1, <3>2
  <2>4. Staking(cycle.plan) # {} => \A j \in Open' : stakes'[j].mine
      BY DEF IInv, Fits, Settles
  <2>5. /\ cycle.pc # "execute" => cycle.plan = <<>>
        /\ \A k, l \in Staking(cycle.plan) : cycle.plan[k].of = cycle.plan[l].of => k = l
      BY DEF IInv, Fits
  <2>. QED
      BY <1>2, <2>2, <2>3, <2>4, <2>5 DEF Fits
<1>12. CapKept'
    BY <1>9 DEF IInv, CapKept
<1>. QED
    BY <1>5, <1>7, <1>8, <1>10, <1>11, <1>12 DEF IInv

(* One stake order moves on.                                               *)
Moves(i, e) ==
    /\ stakes' = [stakes EXCEPT ![i] = e] /\ UNCHANGED <<redeems, cycle, faults>>
    /\ e # None => /\ e.status # "open" => e.debited
                   /\ e.recent \/ (e.status # "credited" /\ e.of \notin Prompt)
                   /\ e.status = "open" => stakes[i].status = "open" /\ e.mine = stakes[i].mine
    /\ slid' \in BOOLEAN /\ (slid => slid')
    /\ wallet' \in Int /\ position' \in [Products -> Nat]
    /\ wallet' + Holds(position') + Paid(e) = wallet + Holds(position) + Paid(stakes[i])
    /\ wallet' - Owed(e) >= wallet - Owed(stakes[i])
    /\ cycle.pc \in {"positions", "orders"} => slid' \/ wallet <= wallet'
    /\ \A p \in Products :
          /\ position[p] <= position'[p]
          /\ position'[p] + Coming(e, p) <= position[p] + Coming(stakes[i], p)
          /\ cycle.pc = "orders" /\ p \in Prompt =>
                position'[p] - InHand(e, p) <= position[p] - InHand(stakes[i], p)

LEMMA MovesKeeps ==
  ASSUME IInv, NEW i \in Slots, NEW e \in Stake \cup {None}, Moves(i, e)
  PROVE  IInv'
<1>1. /\ stakes \in Stakes /\ wallet \in Int /\ position \in [Products -> Nat] /\ i \in 1..MaxStakes
      /\ redeems \in [Products -> Redeem] /\ faults \in 0..MaxFaults
      /\ \A p \in Products : redeems[p].amount \in Int
    BY TypesAre DEF IInv, Slots
<1>2. stakes' = [stakes EXCEPT ![i] = e] /\ wallet' \in Int /\ position' \in [Products -> Nat]
    BY DEF Moves
<1>3. Becomes(stakes, stakes', i, e)
    BY <1>2 DEF Becomes
<1>4. /\ stakes' \in Stakes
      /\ OwedIn(stakes') = OwedIn(stakes) + Owed(e) - Owed(stakes[i])
      /\ PaidIn(stakes') = PaidIn(stakes) + Paid(e) - Paid(stakes[i])
      /\ \A p : ComingIn(stakes', p) = ComingIn(stakes, p) + Coming(e, p) - Coming(stakes[i], p)
      /\ \A p : InHandIn(stakes', p) = InHandIn(stakes, p) + InHand(e, p) - InHand(stakes[i], p)
  <2>1. /\ stakes' \in Stakes
        /\ OwedIn(stakes') = OwedIn(stakes) + Owed(e) - Owed(stakes[i])
        /\ PaidIn(stakes') = PaidIn(stakes) + Paid(e) - Paid(stakes[i])
      BY <1>3, <1>1, SumsChange
  <2>2. ASSUME NEW p PROVE ComingIn(stakes', p) = ComingIn(stakes, p) + Coming(e, p) - Coming(stakes[i], p)
      BY <1>3, <1>1, ComingChange
  <2>3. ASSUME NEW p PROVE InHandIn(stakes', p) = InHandIn(stakes, p) + InHand(e, p) - InHand(stakes[i], p)
      BY <1>3, <1>1, ComingChange
  <2>. QED
      BY <2>1, <2>2, <2>3
<1>5. /\ OwedIn(stakes) \in Int /\ PaidIn(stakes) \in Int
      /\ \A p : ComingIn(stakes, p) \in Int /\ InHandIn(stakes, p) \in Int
    BY <1>1, SumsAre
<1>6. /\ Owed(e) \in Int /\ Paid(e) \in Int /\ Owed(stakes[i]) \in Int /\ Paid(stakes[i]) \in Int
      /\ \A p : Coming(e, p) \in Int /\ InHand(e, p) \in Int
      /\ \A p : Coming(stakes[i], p) \in Int /\ InHand(stakes[i], p) \in Int
  <2>1. stakes[i] \in Stake \cup {None}
      BY <1>1 DEF Stakes
  <2>. QED
      BY <2>1, WeightsAre
<1>7. Holds(position) \in Int /\ Holds(position') \in Int
    BY <1>1, <1>2, HoldsIs
<1>8. wallet' + Holds(position') + PaidIn(stakes') = Funds
  <2>1. wallet + Holds(position) + PaidIn(stakes) = Funds
      BY DEF IInv, Whole
  <2>2. wallet' + Holds(position') + Paid(e) = wallet + Holds(position) + Paid(stakes[i])
      BY DEF Moves
  <2>. QED
      BY <1>1, <1>2, <1>4, <1>5, <1>6, <1>7, <2>1, <2>2
<1>9. wallet' - OwedIn(stakes') >= wallet - OwedIn(stakes)
  <2>1. wallet' - Owed(e) >= wallet - Owed(stakes[i])
      BY DEF Moves
  <2>. QED
      BY <1>1, <1>2, <1>4, <1>5, <1>6, <2>1
<1>10. ASSUME NEW p \in Products
      PROVE  /\ position'[p] + ComingIn(stakes', p) <= position[p] + ComingIn(stakes, p)
             /\ cycle.pc = "orders" /\ p \in Prompt =>
                   position'[p] - InHandIn(stakes', p) <= position[p] - InHandIn(stakes, p)
  <2>1. position[p] \in Int /\ position'[p] \in Int
      BY <1>1, <1>2
  <2>2. position'[p] + Coming(e, p) <= position[p] + Coming(stakes[i], p)
      BY DEF Moves
  <2>3. position'[p] + ComingIn(stakes', p) <= position[p] + ComingIn(stakes, p)
      BY <1>4, <1>5, <1>6, <2>1, <2>2
  <2>4. ASSUME cycle.pc = "orders", p \in Prompt
        PROVE  position'[p] - InHandIn(stakes', p) <= position[p] - InHandIn(stakes, p)
    <3>1. position'[p] - InHand(e, p) <= position[p] - InHand(stakes[i], p)
        BY <2>4 DEF Moves
    <3>. QED
        BY <1>4, <1>5, <1>6, <2>1, <3>1
  <2>. QED
      BY <2>3, <2>4
<1>11. Covered'
  <2> SUFFICES ASSUME NEW p \in Products PROVE redeems'[p].amount <= position'[p]
      BY DEF Covered
  <2>1. redeems[p].amount <= position[p] /\ redeems' = redeems /\ position[p] <= position'[p]
      BY DEF IInv, Covered, Moves
  <2>2. position[p] \in Int /\ position'[p] \in Int /\ redeems[p].amount \in Int
      BY <1>1, <1>2
  <2>. QED
      BY <2>1, <2>2
<1>12. \A j \in 1..MaxStakes : stakes'[j] = IF j = i THEN e ELSE stakes[j]
    BY <1>1, <1>2 DEF Stakes
<1>13. StakesSane'
  <2> SUFFICES ASSUME NEW j \in Slots'
               PROVE  /\ j \notin Open' => stakes'[j].debited
                      /\ stakes'[j].recent \/ (j \in Uncredited' /\ stakes'[j].of \notin Prompt)
      BY DEF StakesSane
  <2>1. CASE j = i
      BY <1>12, <2>1 DEF Moves, Slots, Open, Uncredited
  <2>2. CASE j # i
    <3>1. j \in Slots /\ stakes'[j] = stakes[j]
        BY <1>12, <2>2 DEF Slots
    <3>. QED
        BY <3>1 DEF IInv, StakesSane, Open, Uncredited
  <2>. QED
      BY <2>1, <2>2
<1>14. ASSUME NEW j \in Open' PROVE j \in Open /\ stakes'[j].mine = stakes[j].mine
  <2>1. CASE j = i
      BY <1>12, <2>1 DEF Moves, Slots, Open
  <2>2. CASE j # i
      BY <1>12, <2>2 DEF Slots, Open
  <2>. QED
      BY <2>1, <2>2
<1>15. /\ cycle' = cycle /\ faults' = faults /\ redeems' = redeems
       /\ slid' \in BOOLEAN /\ (slid => slid')
       /\ cycle.pc \in {"positions", "orders"} => slid' \/ wallet <= wallet'
    BY DEF Moves
<1>16. cycle.pc = "orders" => \A p \in Prompt :
          position'[p] - InHandIn(stakes', p) <= position[p] - InHandIn(stakes, p)
    BY <1>10
<1>17. Settles
    BY <1>1, <1>2, <1>4, <1>8, <1>9, <1>10, <1>11, <1>13, <1>14, <1>15, <1>16 DEF Settles
<1>. QED
    BY <1>17, SettlesKeeps

(* A stake order there is.                                                 *)
LEMMA OrderIs ==
  ASSUME IInv, NEW i \in Slots
  PROVE  /\ i \in 1..MaxStakes /\ stakes[i] \in Stake /\ stakes[i] # None
         /\ stakes[i].amount \in 1..Funds /\ stakes[i].of \in Products
         /\ wallet \in 0..Funds /\ position \in [Products -> Nat] /\ slid \in BOOLEAN
         /\ Holds(position) \in Int
         /\ i \notin Open => stakes[i].debited
         /\ stakes[i].recent \/ (stakes[i].status # "credited" /\ stakes[i].of \notin Prompt)
<1>1. wallet \in 0..Funds /\ position \in [Products -> Nat] /\ slid \in BOOLEAN /\ stakes \in Stakes
    BY TypesAre DEF IInv
<1>2. i \in 1..MaxStakes /\ stakes[i] # None
    BY DEF Slots
<1>3. stakes[i] \in Stake
    BY <1>1, <1>2 DEF Stakes
<1>4. Holds(position) \in Int
    BY <1>1, HoldsIs
<1>5. /\ i \notin Open => stakes[i].debited
      /\ stakes[i].recent \/ (stakes[i].status # "credited" /\ stakes[i].of \notin Prompt)
    BY DEF IInv, StakesSane, Uncredited
<1>. QED
    BY <1>1, <1>2, <1>3, <1>4, <1>5, StakeIs

LEMMA SucceedsKeeps == ASSUME IInv, NEW i \in 1..MaxStakes, StakeSucceeds(i) PROVE IInv'
<1>1. i \in Slots /\ stakes[i].status = "open"
    BY DEF StakeSucceeds, Open
<1> DEFINE x == stakes[i]
<1>2. /\ stakes \in Stakes /\ x \in Stake /\ x # None /\ x.amount \in 1..Funds /\ wallet \in 0..Funds
      /\ position \in [Products -> Nat] /\ slid \in BOOLEAN /\ Holds(position) \in Int
      /\ x.recent \/ x.of \notin Prompt
    BY <1>1, OrderIs, TypesAre DEF IInv
<1> DEFINE e == [x EXCEPT !.status = "success", !.debited = TRUE]
<1>3. /\ e \in Stake /\ e.status = "success" /\ e.debited /\ e.amount = x.amount /\ e.of = x.of
      /\ e.recent = x.recent
    BY <1>2 DEF Stake
<1>4. stakes' = [stakes EXCEPT ![i] = e]
    BY <1>2 DEF StakeSucceeds, Stakes
<1>5. /\ wallet' = IF x.debited THEN wallet ELSE wallet - x.amount
      /\ slid' = (slid \/ (~x.debited /\ cycle.pc \in {"positions", "orders"}))
      /\ UNCHANGED <<position, redeems, cycle, faults>>
    BY DEF StakeSucceeds
<1>6. e # None
    BY <1>3, StakeIs
<1> HIDE DEF e
<1>7. Paid(e) = x.amount /\ Owed(e) = 0
    BY <1>3, <1>6 DEF Paid, Owed
<1>8. /\ Paid(x) = IF x.debited THEN x.amount ELSE 0
      /\ Owed(x) = IF x.debited THEN 0 ELSE x.amount
    BY <1>1, <1>2 DEF Paid, Owed
<1>9. ASSUME NEW p \in Products
      PROVE  Coming(e, p) = Coming(x, p) /\ InHand(e, p) = InHand(x, p) /\ Coming(x, p) \in Int
             /\ InHand(x, p) \in Int /\ position[p] \in Int
    BY <1>1, <1>2, <1>3, <1>6 DEF Coming, InHand
<1> HIDE DEF x
<1>10. wallet' \in Int /\ wallet' + Paid(e) = wallet + Paid(x) /\ wallet' - Owed(e) >= wallet - Owed(x)
    BY <1>2, <1>5, <1>7, <1>8
<1>11. /\ wallet' + Holds(position') + Paid(e) = wallet + Holds(position) + Paid(x)
       /\ Paid(e) \in Int /\ Paid(x) \in Int
    BY <1>2, <1>5, <1>7, <1>8, <1>10
<1>12. ASSUME cycle.pc \in {"positions", "orders"} PROVE slid' \/ wallet <= wallet'
  <2>1. CASE x.debited
      BY <1>2, <1>5, <2>1
  <2>2. CASE ~x.debited
      BY <1>5, <1>12, <2>2
  <2>. QED
      BY <2>1, <2>2
<1>13. \A p \in Products :
          /\ position[p] <= position'[p]
          /\ position'[p] + Coming(e, p) <= position[p] + Coming(x, p)
          /\ position'[p] - InHand(e, p) <= position[p] - InHand(x, p)
    BY <1>5, <1>9
<1>14. Moves(i, e)
    BY <1>2, <1>3, <1>4, <1>5, <1>10, <1>11, <1>12, <1>13 DEF Moves, x
<1>. QED
    BY <1>1, <1>3, <1>14, MovesKeeps

(* An order that is gone counts for nothing.                               *)
LEMMA NoneIs ==
  /\ Owed(None) = 0 /\ Paid(None) = 0
  /\ \A p \in Products : Coming(None, p) = 0 /\ InHand(None, p) = 0
BY DEF Owed, Paid, Coming, InHand

LEMMA FailsKeeps == ASSUME IInv, NEW i \in 1..MaxStakes, StakeFails(i) PROVE IInv'
<1>1. i \in Slots /\ stakes[i].status = "open"
    BY DEF StakeFails, Open
<1> DEFINE x == stakes[i]
<1>2. /\ stakes \in Stakes /\ x \in Stake /\ x # None /\ x.amount \in 1..Funds /\ wallet \in 0..Funds
      /\ position \in [Products -> Nat] /\ slid \in BOOLEAN /\ Holds(position) \in Int
    BY <1>1, OrderIs, TypesAre DEF IInv
<1>3. /\ stakes' = [stakes EXCEPT ![i] = None]
      /\ wallet' = IF x.debited THEN wallet + x.amount ELSE wallet
      /\ UNCHANGED <<position, redeems, cycle, faults, slid>>
    BY DEF StakeFails
<1>4. /\ Paid(x) = IF x.debited THEN x.amount ELSE 0
      /\ Owed(x) = IF x.debited THEN 0 ELSE x.amount
    BY <1>1, <1>2 DEF Paid, Owed
<1>5. ASSUME NEW p \in Products
      PROVE  Coming(x, p) = (IF x.of = p THEN x.amount ELSE 0) /\ InHand(x, p) = 0 /\ position[p] \in Int
    BY <1>1, <1>2 DEF Coming, InHand
<1> HIDE DEF x
<1>6. wallet' \in Int /\ wallet' = wallet + Paid(x) /\ wallet' >= wallet - Owed(x) /\ wallet <= wallet'
    BY <1>2, <1>3, <1>4
<1>7. wallet' + Holds(position') + 0 = wallet + Holds(position) + Paid(x) /\ Paid(x) \in Int
    BY <1>2, <1>3, <1>4, <1>6
<1>8. \A p \in Products :
          /\ position[p] <= position'[p]
          /\ position'[p] + 0 <= position[p] + Coming(x, p)
          /\ position'[p] - 0 <= position[p] - InHand(x, p)
    BY <1>2, <1>3, <1>5
<1>9. /\ wallet' + Holds(position') + Paid(None) = wallet + Holds(position) + Paid(x)
      /\ wallet' - Owed(None) >= wallet - Owed(x)
      /\ \A p \in Products :
            /\ position[p] <= position'[p]
            /\ position'[p] + Coming(None, p) <= position[p] + Coming(x, p)
            /\ position'[p] - InHand(None, p) <= position[p] - InHand(x, p)
    BY <1>2, <1>3, <1>6, <1>7, <1>8, NoneIs
<1>10. Moves(i, None)
    BY <1>2, <1>3, <1>6, <1>9 DEF Moves, x
<1>. QED
    BY <1>1, <1>10, MovesKeeps

(* Bybit shows the stake in the position; it counts on while it is recent. *)
LEMMA CreditedKeeps == ASSUME IInv, NEW i \in 1..MaxStakes, StakeCredited(i) PROVE IInv'
<1>1. i \in Slots /\ stakes[i].status = "success" /\ i \notin Open
    BY DEF StakeCredited, Open
<1> DEFINE x == stakes[i]
           q == x.of
           e == IF x.recent THEN [x EXCEPT !.status = "credited"] ELSE None
<1>2. /\ stakes \in Stakes /\ x \in Stake /\ x # None /\ x.amount \in 1..Funds /\ q \in Products
      /\ wallet \in 0..Funds /\ position \in [Products -> Nat] /\ slid \in BOOLEAN
      /\ Holds(position) \in Int /\ x.debited
      /\ x.recent \/ q \notin Prompt
    BY <1>1, OrderIs, TypesAre DEF IInv
<1>3. /\ stakes' = [stakes EXCEPT ![i] = e]
      /\ position' = [position EXCEPT ![q] = position[q] + x.amount]
      /\ UNCHANGED <<wallet, redeems, cycle, faults, slid>>
  <2>1. stakes[i] = x
      OBVIOUS
  <2>. QED
      BY <1>2, <2>1 DEF StakeCredited, Stakes
<1>4. e \in Stake \cup {None}
    BY <1>2 DEF Stake
<1>5. x.recent => /\ e \in Stake /\ e.status = "credited" /\ e.debited /\ e.recent
                  /\ e.of = q /\ e.amount = x.amount
    BY <1>2 DEF Stake
<1>6. ~x.recent => e = None
    OBVIOUS
<1>7. Paid(x) = x.amount /\ Owed(x) = 0
    BY <1>1, <1>2 DEF Paid, Owed
<1>8. ASSUME NEW p \in Products
      PROVE  Coming(x, p) = (IF p = q THEN x.amount ELSE 0) /\ InHand(x, p) = 0
    BY <1>1, <1>2 DEF Coming, InHand
<1> HIDE DEF e
<1>9. Paid(e) = 0 /\ Owed(e) = 0
    BY <1>5, <1>6, StakeIs DEF Paid, Owed
<1>10. ASSUME NEW p \in Products
       PROVE  /\ Coming(e, p) = 0
              /\ InHand(e, p) = IF x.recent /\ p = q THEN x.amount ELSE 0
    BY <1>5, <1>6, StakeIs DEF Coming, InHand
<1> HIDE DEF x, q
<1>11. position[q] \in Nat /\ position[q] + x.amount \in Nat
    BY <1>2
<1>12. Holds(position') = Holds(position) + (position[q] + x.amount) - position[q]
    BY <1>2, <1>3, <1>11, HoldsChange
<1>13. /\ wallet' + Holds(position') + Paid(e) = wallet + Holds(position) + Paid(x)
       /\ wallet' - Owed(e) >= wallet - Owed(x) /\ wallet' \in Int /\ wallet <= wallet'
    BY <1>2, <1>3, <1>7, <1>9, <1>11, <1>12
<1>14. ASSUME NEW p \in Products
       PROVE  /\ position[p] <= position'[p]
              /\ position'[p] + Coming(e, p) <= position[p] + Coming(x, p)
              /\ p \in Prompt => position'[p] - InHand(e, p) <= position[p] - InHand(x, p)
  <2>1. position[p] \in Nat /\ position'[p] = IF p = q THEN position[p] + x.amount ELSE position[p]
      BY <1>2, <1>3
  <2>2. p \in Prompt /\ p = q => x.recent
      BY <1>2
  <2>. QED
      BY <1>2, <1>8, <1>10, <2>1, <2>2
<1>15. position' \in [Products -> Nat]
    BY <1>2, <1>3, <1>11
<1>16. e # None => e.debited /\ e.recent /\ e.status # "open"
    BY <1>5, <1>6
<1>17. Moves(i, e)
    BY <1>2, <1>3, <1>13, <1>14, <1>15, <1>16 DEF Moves, x
<1>. QED
    BY <1>1, <1>4, <1>17, MovesKeeps

(* A stake is no longer listed as recent; a prompt one is credited by then.*)
LEMMA AgesKeeps == ASSUME IInv, NEW i \in 1..MaxStakes, StakeAges(i) PROVE IInv'
<1>1. i \in Slots /\ stakes[i].recent /\ cycle.pc \notin {"positions", "orders"}
      /\ (i \in Uncredited => stakes[i].of \notin Prompt)
    BY DEF StakeAges
<1> DEFINE x == stakes[i]
           e == IF i \in Uncredited THEN [x EXCEPT !.recent = FALSE] ELSE None
<1>2. /\ stakes \in Stakes /\ x \in Stake /\ x # None /\ x.amount \in 1..Funds
      /\ wallet \in 0..Funds /\ position \in [Products -> Nat] /\ slid \in BOOLEAN
      /\ Holds(position) \in Int /\ (x.status # "open" => x.debited)
      /\ (i \in Uncredited <=> x.status # "credited")
    BY <1>1, OrderIs, TypesAre DEF IInv, Open, Uncredited
<1>3. /\ stakes' = [stakes EXCEPT ![i] = e]
      /\ UNCHANGED <<wallet, position, redeems, cycle, faults, slid>>
  <2>1. stakes[i] = x
      OBVIOUS
  <2>. QED
      BY <1>2, <2>1 DEF StakeAges, Stakes
<1>4. e \in Stake \cup {None}
    BY <1>2 DEF Stake
<1>5. i \in Uncredited =>
         /\ e \in Stake /\ e.status = x.status /\ e.debited = x.debited
         /\ e.of = x.of /\ e.amount = x.amount /\ e.mine = x.mine
    BY <1>2 DEF Stake
<1>6. i \notin Uncredited => e = None
    OBVIOUS
<1> HIDE DEF e
<1>7. Paid(e) = Paid(x) /\ Owed(e) = Owed(x) /\ Paid(x) \in Int /\ Owed(x) \in Int
    BY <1>2, <1>5, <1>6, StakeIs DEF Paid, Owed
<1>8. ASSUME NEW p \in Products
      PROVE  Coming(e, p) = Coming(x, p) /\ Coming(x, p) \in Int /\ position[p] \in Int
    BY <1>2, <1>5, <1>6, StakeIs DEF Coming
<1>9. e # None => /\ e.status # "open" => e.debited
                  /\ e.status # "credited" /\ e.of \notin Prompt
                  /\ e.status = "open" => x.status = "open" /\ e.mine = x.mine
    BY <1>1, <1>2, <1>5, <1>6
<1> HIDE DEF x
<1>10. /\ wallet' + Holds(position') + Paid(e) = wallet + Holds(position) + Paid(x)
       /\ wallet' - Owed(e) >= wallet - Owed(x) /\ wallet' \in Int /\ wallet <= wallet'
    BY <1>2, <1>3, <1>7
<1>11. \A p \in Products :
          /\ position[p] <= position'[p]
          /\ position'[p] + Coming(e, p) <= position[p] + Coming(x, p)
    BY <1>3, <1>8
<1>12. cycle.pc \notin {"positions", "orders"}
    BY <1>1
<1>13. Moves(i, e)
    BY <1>2, <1>3, <1>9, <1>10, <1>11, <1>12 DEF Moves, x
<1>. QED
    BY <1>1, <1>4, <1>13, MovesKeeps

(* A redemption ends.                                                      *)
LEMMA RedeemKeeps ==
  ASSUME IInv, NEW p \in Products, RedeemSucceeds(p) \/ RedeemFails(p)
  PROVE  IInv'
<1>1. /\ stakes \in Stakes /\ wallet \in 0..Funds /\ position \in [Products -> Nat]
      /\ redeems \in [Products -> Redeem] /\ faults \in 0..MaxFaults /\ slid \in BOOLEAN
      /\ \A r \in Products : redeems[r].amount \in 0..Funds
    BY TypesAre DEF IInv
<1>2. /\ redeems' = [redeems EXCEPT ![p] = NoRedeem]
      /\ UNCHANGED <<stakes, cycle, slid>> /\ faults' \in 0..MaxFaults
    BY <1>1 DEF RedeemSucceeds, RedeemFails, Fault
<1> DEFINE n == redeems[p].amount
           m == IF RedeemSucceeds(p) THEN n ELSE 0
<1>3. m \in Nat /\ n \in Nat /\ n <= position[p] /\ m <= position[p] /\ position[p] \in Nat
    BY <1>1 DEF IInv, Covered
<1>4. wallet' = wallet + m /\ position' = [position EXCEPT ![p] = position[p] - m]
  <2>1. CASE RedeemSucceeds(p)
      BY <1>1, <2>1 DEF RedeemSucceeds
  <2>2. CASE ~RedeemSucceeds(p)
    <3>1. wallet' = wallet /\ position' = position /\ m = 0
        BY <2>2 DEF RedeemFails
    <3>2. position = [position EXCEPT ![p] = position[p] - 0]
        BY <1>1, <1>3
    <3>. QED
        BY <1>1, <3>1, <3>2
  <2>. QED
      BY <2>1, <2>2
<1> HIDE DEF m, n
<1>5. position[p] - m \in Nat /\ position' \in [Products -> Nat]
    BY <1>1, <1>3, <1>4
<1>6. Holds(position') = Holds(position) + (position[p] - m) - position[p]
    BY <1>1, <1>4, <1>5, HoldsChange
<1>7. Holds(position) \in Int /\ OwedIn(stakes) \in Int /\ PaidIn(stakes) \in Int
    BY <1>1, HoldsIs, SumsAre
<1>8. /\ wallet' \in Int /\ wallet <= wallet'
      /\ wallet' + Holds(position') + PaidIn(stakes') = Funds
      /\ wallet' - OwedIn(stakes') >= wallet - OwedIn(stakes)
  <2>1. wallet + Holds(position) + PaidIn(stakes) = Funds
      BY DEF IInv, Whole
  <2>2. PaidIn(stakes') = PaidIn(stakes) /\ OwedIn(stakes') = OwedIn(stakes)
      BY <1>2
  <2>. QED
      BY <1>1, <1>3, <1>4, <1>6, <1>7, <2>1, <2>2
<1>9. \A r \in Products : position'[r] <= position[r] /\ position'[r] \in Int /\ position[r] \in Int
    BY <1>1, <1>3, <1>4
<1>10. \A r \in Products : ComingIn(stakes, r) \in Int /\ InHandIn(stakes, r) \in Int
    BY <1>1, SumsAre
<1>11. \A r \in Products :
          /\ position'[r] + ComingIn(stakes', r) <= position[r] + ComingIn(stakes, r)
          /\ position'[r] - InHandIn(stakes', r) <= position[r] - InHandIn(stakes, r)
    BY <1>2, <1>9, <1>10
<1>12. NoRedeem \in Redeem /\ NoRedeem.amount = 0
    BY DEF NoRedeem, Redeem
<1>13. Covered'
  <2> SUFFICES ASSUME NEW r \in Products PROVE redeems'[r].amount <= position'[r]
      BY DEF Covered
  <2>1. CASE r = p
    <3>1. redeems'[p].amount = 0
        BY <1>1, <1>2, <1>12
    <3>2. position'[p] \in Nat
        BY <1>5
    <3>. QED
        BY <2>1, <3>1, <3>2
  <2>2. CASE r # p
      BY <1>1, <1>2, <1>4, <2>2 DEF IInv, Covered
  <2>. QED
      BY <2>1, <2>2
<1>14. StakesSane'
    BY <1>2 DEF IInv, StakesSane, Slots, Open, Uncredited
<1>15. \A j \in Open' : j \in Open /\ stakes'[j].mine = stakes[j].mine
    BY <1>2 DEF Open, Slots
<1>16. stakes' \in Stakes /\ cycle' = cycle /\ slid' = slid /\ redeems' \in [Products -> Redeem]
    BY <1>1, <1>2, <1>12
<1>17. Settles
    BY <1>1, <1>2, <1>5, <1>8, <1>11, <1>13, <1>14, <1>15, <1>16 DEF Settles
<1>. QED
    BY <1>17, SettlesKeeps

-----------------------------------------------------------------------------
(* The cycle.                                                              *)

(* A step that moves nothing but the cycle.                                *)
LEMMA CycleKeeps ==
  ASSUME IInv, UNCHANGED <<bybit, slid>>, YieldTypeOK', Known', Fits'
  PROVE  IInv'
<1>1. wallet' = wallet /\ position' = position /\ stakes' = stakes /\ redeems' = redeems
    BY DEF bybit
<1>2. Free' = Free
    BY <1>1, FreeIs
<1>3. Whole' /\ Covered' /\ StakesSane'
    BY <1>1, <1>2 DEF IInv, Whole, Covered, StakesSane, Slots, Open, Uncredited
<1>4. ASSUME NEW p \in Prompt PROVE Exposure(p)' <= Cap
  <2>1. Exposure(p)' = Exposure(p)
      BY <1>1, ExposureIs
  <2>. QED
      BY <2>1 DEF IInv, CapKept
<1>5. CapKept'
    BY <1>4 DEF CapKept
<1>. QED
    BY <1>3, <1>5 DEF IInv

LEMMA OwedInt == ASSUME NEW st \in Stakes PROVE OwedIn(st) \in Nat /\ PaidIn(st) \in Nat
<1>1. OwedIn(st) \in Nat
    BY SumsAre
<1>2. PaidIn(st) \in Nat
    BY SumsAre
<1>. QED
    BY <1>1, <1>2

LEMMA FreeInt == ASSUME IInv PROVE Free \in Int
<1>1. wallet \in 0..Funds /\ stakes \in Stakes
    BY TypesAre DEF IInv
<1>2. OwedIn(stakes) \in Nat
    BY <1>1, SumsAre
<1>. QED
    BY <1>1, <1>2, FreeIs

(* With nothing planned, what is free is what counts.                      *)
LEMMA NothingPlanned ==
  ASSUME IInv, slid' = slid, Free' = Free, cycle'.plan = <<>>
  PROVE  Fits'
<1>1. <<>> \in Plans /\ Staking(<<>>) = {}
    BY DEF Plans, Staking
<1>2. ToSpend(<<>>) = 0
    BY <1>1, NothingToSpend
<1>3. ToSpend(cycle.plan) \in Nat /\ Free \in Int
    BY TypesAre, ToSpendNat, FreeInt DEF IInv
<1>4. slid \/ Free - ToSpend(cycle.plan) >= Reserve
    BY DEF IInv, Fits
<1>5. slid' \/ Free' - ToSpend(cycle'.plan) >= Reserve
    BY <1>2, <1>3, <1>4
<1>6. Staking(cycle'.plan) = {}
    BY <1>1
<1>. QED
    BY <1>5, <1>6 DEF Fits

(* What a cycle starts from, and what it ends in.                          *)
Cycles == [pc : {"off", "positions", "orders", "execute"}, eff : RiskStates,
           gone : SUBSET Products, idle : 0..Funds, unread : BOOLEAN,
           held : [Products -> 0..Funds], plan : Seq(Sent)]

LEMMA OffIs == Off \in Cycles /\ Off.pc = "off" /\ Off.plan = <<>> /\ Off.idle = 0
BY DEF Off, Nothing, RiskStates, Cycles

LEMMA BegunIs ==
  ASSUME NEW c, NEW w \in 0..Funds,
         \/ c = [Off EXCEPT !.pc = "positions", !.idle = w]
         \/ c = [Off EXCEPT !.pc = "positions", !.unread = TRUE]
  PROVE  c \in Cycles /\ c.pc = "positions" /\ c.plan = <<>> /\ c.idle \in {0, w}
<1>1. CASE c = [Off EXCEPT !.pc = "positions", !.idle = w]
  <2>1. c \in Cycles
      BY <1>1, OffIs DEF Cycles
  <2>2. c.pc = "positions" /\ c.plan = <<>> /\ c.idle = w
      BY <1>1, OffIs DEF Cycles
  <2>. QED
      BY <2>1, <2>2
<1>2. CASE c = [Off EXCEPT !.pc = "positions", !.unread = TRUE]
  <2>1. c \in Cycles
      BY <1>2, OffIs DEF Cycles
  <2>2. c.pc = "positions" /\ c.plan = <<>> /\ c.idle = 0
      BY <1>2, OffIs DEF Cycles
  <2>. QED
      BY <2>1, <2>2
<1>. QED
    BY <1>1, <1>2

LEMMA DecidedIs ==
  ASSUME NEW c, NEW plan \in Plans, c = [Off EXCEPT !.pc = "execute", !.plan = plan]
  PROVE  c \in Cycles /\ c.pc = "execute" /\ c.plan = plan
<1>1. c \in Cycles
    BY OffIs DEF Cycles, Plans
<1>. QED
    BY <1>1, OffIs DEF Cycles

LEMMA OverKeeps ==
  ASSUME IInv, PositionsUnread \/ Finish \/ Killed
  PROVE  IInv'
<1>1. UNCHANGED <<bybit, slid>> /\ cycle' = Off /\ faults' \in 0..MaxFaults
    BY DEF PositionsUnread, Finish, Killed, Fault, IInv, YieldTypeOK
<1>2. YieldTypeOK'
    BY <1>1, OffIs DEF IInv, YieldTypeOK, bybit, Cycles
<1>3. Free' = Free
    BY <1>1, FreeIs DEF bybit
<1>4. Fits'
    BY <1>1, <1>3, OffIs, NothingPlanned
<1>5. Known'
    BY <1>1, OffIs DEF Known
<1>. QED
    BY <1>1, <1>2, <1>4, <1>5, CycleKeeps

LEMMA RiskReadIs == RiskRead \subseteq RiskStates
<1>1. \A s \in RiskStates : Signed(s, "operator", 0).state = s
    BY DEF Signed
<1>2. ~SignatureValid(Missing) /\ ~SignatureValid(Unverifiable)
    BY DEF SignatureValid, Missing, Unverifiable
<1>3. ASSUME NEW file \in {Missing, Unverifiable} \cup {Signed(s, "operator", 0) : s \in RiskStates}, NEW at
      PROVE  Effective(file, at) \in RiskStates
    BY <1>1, <1>2 DEF Effective, RiskStates
<1>. QED
    BY <1>3 DEF RiskRead

LEMMA ReadPositionsKeeps == ASSUME IInv, ReadPositions PROVE IInv'
<1>1. PICK eff \in RiskRead, gone \in SUBSET Products :
          cycle' = [cycle EXCEPT !.pc = "orders", !.eff = eff, !.gone = gone, !.held = position]
    BY DEF ReadPositions
<1>2. /\ UNCHANGED <<bybit, faults, slid>> /\ cycle.pc = "positions"
      /\ wallet' = wallet /\ position' = position /\ stakes' = stakes
    BY DEF ReadPositions, bybit
<1>3. YieldTypeOK'
    BY <1>1, <1>2, RiskReadIs DEF IInv, YieldTypeOK, bybit
<1>4. /\ cycle'.pc = "orders" /\ cycle'.held = position /\ cycle'.idle = cycle.idle
      /\ cycle'.plan = cycle.plan
    BY <1>1 DEF IInv, YieldTypeOK
<1>5. cycle.plan = <<>>
    BY <1>2 DEF IInv, Fits
<1>6. Free' = Free
    BY <1>2, FreeIs
<1>7. Fits'
    BY <1>2, <1>4, <1>5, <1>6, NothingPlanned
<1>8. ASSUME NEW p \in Prompt PROVE position'[p] <= cycle'.held[p] + InHandIn(stakes', p)
  <2>1. InHandIn(stakes, p) \in Nat /\ position[p] \in Nat
      BY SumsAre, TypesAre DEF IInv
  <2>. QED
      BY <1>2, <1>4, <2>1
<1>9. cycle'.idle <= wallet' \/ slid'
    BY <1>2, <1>4 DEF IInv, Known
<1>10. Known'
    BY <1>8, <1>9 DEF Known
<1>. QED
    BY <1>2, <1>3, <1>7, <1>10, CycleKeeps

(* Orders that differ in nothing but who sent them count for the same.     *)
LEMMA SumsStay ==
  ASSUME NEW st \in Stakes, NEW tt \in Stakes,
         \A i \in 1..MaxStakes :
            /\ st[i] = None <=> tt[i] = None
            /\ st[i] # None => /\ tt[i].of = st[i].of /\ tt[i].amount = st[i].amount
                               /\ tt[i].status = st[i].status /\ tt[i].debited = st[i].debited
  PROVE  /\ OwedIn(tt) = OwedIn(st) /\ PaidIn(tt) = PaidIn(st)
         /\ \A p : ComingIn(tt, p) = ComingIn(st, p) /\ InHandIn(tt, p) = InHandIn(st, p)
<1>1. \A i \in 1..MaxStakes : Owed(tt[i]) = Owed(st[i])
    BY DEF Owed
<1>2. \A i \in 1..MaxStakes : Paid(tt[i]) = Paid(st[i])
    BY DEF Paid
<1>3. ASSUME NEW p
      PROVE  ComingIn(tt, p) = ComingIn(st, p) /\ InHandIn(tt, p) = InHandIn(st, p)
  <2>1. \A i \in 1..MaxStakes : Coming(tt[i], p) = Coming(st[i], p)
      BY DEF Coming
  <2>2. \A i \in 1..MaxStakes : InHand(tt[i], p) = InHand(st[i], p)
      BY DEF InHand
  <2>3. [i \in 1..MaxStakes |-> Coming(tt[i], p)] = [i \in 1..MaxStakes |-> Coming(st[i], p)]
      BY <2>1
  <2>4. [i \in 1..MaxStakes |-> InHand(tt[i], p)] = [i \in 1..MaxStakes |-> InHand(st[i], p)]
      BY <2>2
  <2>. QED
      BY <2>3, <2>4 DEF ComingIn, InHandIn
<1>4. [i \in 1..MaxStakes |-> Owed(tt[i])] = [i \in 1..MaxStakes |-> Owed(st[i])]
    BY <1>1
<1>5. [i \in 1..MaxStakes |-> Paid(tt[i])] = [i \in 1..MaxStakes |-> Paid(st[i])]
    BY <1>2
<1>6. OwedIn(tt) = OwedIn(st) /\ PaidIn(tt) = PaidIn(st)
    BY <1>4, <1>5 DEF OwedIn, PaidIn
<1>. QED
    BY <1>3, <1>6

LEMMA BeginKeeps == ASSUME IInv, Begin PROVE IInv'
<1>1. /\ stakes \in Stakes /\ wallet \in 0..Funds /\ position \in [Products -> Nat]
      /\ cycle.plan = <<>>
    BY TypesAre DEF IInv, Begin, Fits
<1>2. /\ wallet' = wallet /\ position' = position /\ redeems' = redeems
      /\ UNCHANGED <<faults, slid>>
    BY DEF Begin
<1>3. /\ cycle' \in Cycles /\ cycle'.pc = "positions" /\ cycle'.plan = <<>>
      /\ cycle'.idle \in {0, wallet}
    BY <1>1, BegunIs DEF Begin
<1>4. /\ DOMAIN stakes' = 1..MaxStakes
      /\ \A i \in 1..MaxStakes :
            stakes'[i] = IF stakes[i] = None THEN None ELSE [stakes[i] EXCEPT !.mine = FALSE]
    BY <1>1 DEF Begin, Stakes
<1>5. ASSUME NEW i \in 1..MaxStakes, stakes[i] # None
      PROVE  /\ stakes'[i] \in Stake /\ stakes'[i] # None /\ stakes'[i].of = stakes[i].of
             /\ stakes'[i].amount = stakes[i].amount /\ stakes'[i].status = stakes[i].status
             /\ stakes'[i].debited = stakes[i].debited /\ stakes'[i].recent = stakes[i].recent
  <2>1. stakes[i] \in Stake /\ stakes'[i] = [stakes[i] EXCEPT !.mine = FALSE]
      BY <1>1, <1>4, <1>5 DEF Stakes
  <2>2. stakes'[i] \in Stake
      BY <2>1 DEF Stake
  <2>3. /\ stakes'[i].of = stakes[i].of
        /\ stakes'[i].amount = stakes[i].amount /\ stakes'[i].status = stakes[i].status
        /\ stakes'[i].debited = stakes[i].debited /\ stakes'[i].recent = stakes[i].recent
      BY <2>1 DEF Stake
  <2>. QED
      BY <2>2, <2>3, StakeIs
<1>6. \A i \in 1..MaxStakes : stakes[i] = None => stakes'[i] = None
    BY <1>4
<1>7. stakes' \in Stakes
  <2>1. stakes' = [i \in 1..MaxStakes |-> stakes'[i]]
      BY <1>1 DEF Begin, Stakes
  <2>. QED
      BY <1>5, <1>6, <2>1 DEF Stakes
<1>8. /\ OwedIn(stakes') = OwedIn(stakes) /\ PaidIn(stakes') = PaidIn(stakes)
      /\ \A p : ComingIn(stakes', p) = ComingIn(stakes, p)
  <2>1. \A i \in 1..MaxStakes :
            /\ stakes[i] = None <=> stakes'[i] = None
            /\ stakes[i] # None =>
                  /\ stakes'[i].of = stakes[i].of /\ stakes'[i].amount = stakes[i].amount
                  /\ stakes'[i].status = stakes[i].status /\ stakes'[i].debited = stakes[i].debited
      BY <1>5, <1>6
  <2>. QED
      BY <1>1, <1>7, <2>1, SumsStay
<1>9. YieldTypeOK'
    BY <1>2, <1>3, <1>7 DEF IInv, YieldTypeOK, Stakes, Cycles
<1>10. Free' = Free
    BY <1>2, <1>8, FreeIs
<1>11. Whole' /\ Covered'
    BY <1>2, <1>8, <1>10 DEF IInv, Whole, Covered
<1>12. StakesSane'
    BY <1>5, <1>6 DEF IInv, StakesSane, Slots, Open, Uncredited
<1>13. Known'
    BY <1>1, <1>2, <1>3 DEF Known
<1>14. Fits'
    BY <1>2, <1>3, <1>10, NothingPlanned
<1>15. ASSUME NEW p \in Prompt PROVE Exposure(p)' <= Cap
  <2>1. Exposure(p)' = Exposure(p)
      BY <1>2, <1>8, ExposureIs
  <2>. QED
      BY <2>1 DEF IInv, CapKept
<1>16. CapKept'
    BY <1>15 DEF CapKept
<1>. QED
    BY <1>9, <1>11, <1>12, <1>13, <1>14, <1>16 DEF IInv

(* The plan once its first order is sent or refused.                       *)
Sending == cycle.pc = "execute" /\ cycle.plan # <<>> /\ cycle' = [cycle EXCEPT !.plan = Tail(@)]

LEMMA TailIs ==
  ASSUME IInv, Sending
  PROVE  LET o == Head(cycle.plan) IN
         /\ cycle' \in Cycles /\ cycle'.pc = "execute" /\ cycle'.plan = Tail(cycle.plan)
         /\ o \in Sent /\ o.act \in {"STAKE", "REDEEM"} /\ o.of \in Products /\ o.amount \in 1..Funds
         /\ cycle'.plan \in Plans /\ ToSpend(cycle'.plan) \in Nat
         /\ ToSpend(cycle.plan) = Spent(o) + ToSpend(cycle'.plan)
         /\ o.act = "STAKE" => /\ \A j \in Open : stakes[j].mine
                               /\ o.of \in Prompt => Exposure(o.of) + o.amount <= Cap
         /\ \A k, l \in Staking(cycle'.plan) : cycle'.plan[k].of = cycle'.plan[l].of => k = l
         /\ \A k \in Staking(cycle'.plan) :
               /\ cycle'.plan[k].of \in Products /\ cycle'.plan[k].amount \in 1..Funds
               /\ cycle'.plan[k].of \in Prompt =>
                     Exposure(cycle'.plan[k].of) + cycle'.plan[k].amount <= Cap
               /\ o.act = "STAKE" => cycle'.plan[k].of # o.of
         /\ Staking(cycle'.plan) # {} => \A j \in Open : stakes[j].mine
<1> DEFINE o == Head(cycle.plan)
           pl == cycle'.plan
<1>1. cycle.plan \in Plans /\ cycle \in Cycles
    BY TypesAre DEF IInv, YieldTypeOK, Cycles
<1>2. pl = Tail(cycle.plan)
    BY <1>1 DEF Cycles, Sending
<1>3. /\ o \in Sent /\ o = cycle.plan[1] /\ 1 \in DOMAIN cycle.plan /\ pl \in Plans
      /\ ToSpend(cycle.plan) = Spent(o) + ToSpend(pl)
      /\ \A k \in DOMAIN pl : k \in Nat /\ k >= 1 /\ k + 1 \in DOMAIN cycle.plan
                              /\ pl[k] = cycle.plan[k + 1]
    BY <1>1, <1>2, PlanTail DEF Sending
<1>4. cycle' \in Cycles /\ cycle'.pc = "execute"
    BY <1>1, <1>3, <1>2 DEF Cycles, Plans, Sending
<1>5. o.act \in {"STAKE", "REDEEM"} /\ o.of \in Products /\ o.amount \in 1..Funds
    BY <1>3, SentIs
<1>6. ToSpend(pl) \in Nat
    BY <1>3, ToSpendNat
<1>7. o.act = "STAKE" => 1 \in Staking(cycle.plan)
    BY <1>3 DEF Staking
<1> HIDE DEF o, pl
<1>8. \A k \in Staking(pl) : /\ k \in Nat /\ k >= 1 /\ k + 1 \in Staking(cycle.plan)
                             /\ pl[k] = cycle.plan[k + 1]
    BY <1>3 DEF Staking
<1>9. /\ \A k, l \in Staking(cycle.plan) : cycle.plan[k].of = cycle.plan[l].of => k = l
      /\ \A k \in Staking(cycle.plan) :
            cycle.plan[k].of \in Prompt => Exposure(cycle.plan[k].of) + cycle.plan[k].amount <= Cap
      /\ Staking(cycle.plan) # {} => \A j \in Open : stakes[j].mine
    BY DEF IInv, Fits
<1>10. o.act = "STAKE" => /\ \A j \in Open : stakes[j].mine
                          /\ o.of \in Prompt => Exposure(o.of) + o.amount <= Cap
    BY <1>3, <1>7, <1>9
<1>11. \A k, l \in Staking(pl) : pl[k].of = pl[l].of => k = l
  <2> SUFFICES ASSUME NEW k \in Staking(pl), NEW l \in Staking(pl), pl[k].of = pl[l].of PROVE k = l
      OBVIOUS
  <2>1. k + 1 = l + 1
      BY <1>8, <1>9
  <2>. QED
      BY <1>8, <2>1
<1>12. ASSUME NEW k \in Staking(pl)
       PROVE  /\ pl[k].of \in Products /\ pl[k].amount \in 1..Funds
              /\ pl[k].of \in Prompt => Exposure(pl[k].of) + pl[k].amount <= Cap
              /\ o.act = "STAKE" => pl[k].of # o.of
  <2>1. pl[k].of \in Products /\ pl[k].amount \in 1..Funds
    <3>1. pl[k] \in Sent
        BY <1>3 DEF Staking, Plans
    <3>. QED
        BY <3>1, SentIs
  <2>2. pl[k].of \in Prompt => Exposure(pl[k].of) + pl[k].amount <= Cap
      BY <1>8, <1>9
  <2>3. ASSUME o.act = "STAKE", pl[k].of = o.of PROVE FALSE
    <3>1. k + 1 = 1
        BY <1>3, <1>7, <1>8, <1>9, <2>3
    <3>. QED
        BY <1>8, <3>1
  <2>. QED
      BY <2>1, <2>2, <2>3
<1>13. Staking(pl) # {} => \A j \in Open : stakes[j].mine
    BY <1>8, <1>9
<1>. QED
    BY <1>3, <1>2, <1>4, <1>5, <1>6, <1>10, <1>11, <1>12, <1>13 DEF o, pl

(* An order is refused, or a redemption accepted.                          *)
LEMMA SentKeeps ==
  ASSUME IInv, Sending,
         UNCHANGED <<wallet, position, stakes, slid>>,
         redeems' \in [Products -> Redeem], faults' \in 0..MaxFaults, Covered'
  PROVE  IInv'
<1>1. YieldTypeOK'
    BY TailIs DEF IInv, YieldTypeOK, Cycles
<1>2. Free' = Free /\ Free \in Int
    BY FreeIs, FreeInt
<1>3. Whole' /\ StakesSane'
    BY <1>2 DEF IInv, Whole, StakesSane, Slots, Open, Uncredited
<1>4. Known'
    BY TailIs DEF Known
<1>5. ASSUME NEW p PROVE Exposure(p)' = Exposure(p)
    BY ExposureIs
<1>6. CapKept'
    BY <1>5 DEF IInv, CapKept
<1>7. slid' \/ Free' - ToSpend(cycle'.plan) >= Reserve
  <2>1. /\ ToSpend(cycle.plan) = Spent(Head(cycle.plan)) + ToSpend(cycle'.plan)
        /\ ToSpend(cycle'.plan) \in Nat /\ Spent(Head(cycle.plan)) \in Nat
      BY TailIs DEF Spent
  <2>2. slid \/ Free - ToSpend(cycle.plan) >= Reserve
      BY DEF IInv, Fits
  <2>. QED
      BY <1>2, <2>1, <2>2
<1>8. ASSUME NEW k \in Staking(cycle'.plan), NEW p \in Prompt, cycle'.plan[k].of = p
      PROVE  Exposure(p)' + cycle'.plan[k].amount <= Cap
    BY <1>5, <1>8, TailIs
<1>9. Staking(cycle'.plan) # {} => \A j \in Open' : stakes'[j].mine
    BY TailIs DEF Open, Slots
<1>10. cycle'.pc = "execute" /\ \A k, l \in Staking(cycle'.plan) : cycle'.plan[k].of = cycle'.plan[l].of => k = l
    BY TailIs
<1>11. Fits'
    BY <1>7, <1>8, <1>9, <1>10 DEF Fits
<1>. QED
    BY <1>1, <1>3, <1>4, <1>6, <1>11 DEF IInv

(* A stake is accepted: it is taken, or owed; either way it is not free.   *)
LEMMA StakedKeeps ==
  ASSUME IInv, Sending,
         Head(cycle.plan).act = "STAKE", slid' = slid,
         AcceptStake(Head(cycle.plan).of, Head(cycle.plan).amount)
  PROVE  IInv'
<1> DEFINE q == Head(cycle.plan).of
           a == Head(cycle.plan).amount
<1>1. q \in Products /\ a \in 1..Funds
    BY TailIs
<1>2. /\ Free >= a /\ UNCHANGED <<position, redeems, faults>>
      /\ \E i \in 1..MaxStakes \ Slots, debited \in BOOLEAN :
            /\ stakes' = [stakes EXCEPT ![i] = [of |-> q, amount |-> a, status |-> "open",
                            recent |-> TRUE, debited |-> debited, mine |-> TRUE]]
            /\ wallet' = IF debited THEN wallet - a ELSE wallet
    BY DEF AcceptStake
<1>3. PICK i \in 1..MaxStakes \ Slots, debited \in BOOLEAN :
            /\ stakes' = [stakes EXCEPT ![i] = [of |-> q, amount |-> a, status |-> "open",
                            recent |-> TRUE, debited |-> debited, mine |-> TRUE]]
            /\ wallet' = IF debited THEN wallet - a ELSE wallet
    BY <1>2
<1> DEFINE e == [of |-> q, amount |-> a, status |-> "open",
                 recent |-> TRUE, debited |-> debited, mine |-> TRUE]
<1>4. /\ stakes \in Stakes /\ wallet \in 0..Funds /\ position \in [Products -> Nat]
      /\ slid \in BOOLEAN
    BY TypesAre DEF IInv
<1>5. stakes[i] = None /\ i \in 1..MaxStakes
    BY DEF Slots
<1>6. /\ e \in Stake /\ e.of = q /\ e.amount = a /\ e.status = "open" /\ e.recent
      /\ e.debited = debited /\ e.mine
    BY <1>1, StakeIs
<1>7. Becomes(stakes, stakes', i, e) /\ e # None
    BY <1>3, <1>6, StakeIs DEF Becomes
<1> HIDE DEF e
<1>8. /\ Owed(e) = IF debited THEN 0 ELSE a
      /\ Paid(e) = IF debited THEN a ELSE 0
      /\ \A p \in Products : Coming(e, p) = IF p = q THEN a ELSE 0
    BY <1>6, <1>7 DEF Owed, Paid, Coming
<1>9. /\ Owed(stakes[i]) = 0 /\ Paid(stakes[i]) = 0
      /\ \A p \in Products : Coming(stakes[i], p) = 0
    BY <1>5, NoneIs
<1> HIDE DEF q, a
<1>10. stakes' \in Stakes /\ OwedIn(stakes') = OwedIn(stakes) + Owed(e)
       /\ PaidIn(stakes') = PaidIn(stakes) + Paid(e)
       /\ OwedIn(stakes) \in Int /\ PaidIn(stakes) \in Int
  <2>1. /\ stakes' \in Stakes
        /\ OwedIn(stakes') = OwedIn(stakes) + Owed(e) - Owed(stakes[i])
        /\ PaidIn(stakes') = PaidIn(stakes) + Paid(e) - Paid(stakes[i])
      BY <1>4, <1>5, <1>6, <1>7, SumsChange
  <2>2. OwedIn(stakes) \in Int /\ PaidIn(stakes) \in Int
      BY <1>4, OwedInt
  <2>3. Owed(e) \in Int /\ Paid(e) \in Int
      BY <1>1, <1>8
  <2>. QED
      BY <1>9, <2>1, <2>2, <2>3
<1>11. ASSUME NEW p \in Products
       PROVE  Exposure(p)' = Exposure(p) + (IF p = q THEN a ELSE 0) /\ Exposure(p) \in Int
  <2>1. ComingIn(stakes', p) = ComingIn(stakes, p) + Coming(e, p) - Coming(stakes[i], p)
      BY <1>4, <1>5, <1>6, <1>7, ComingChange
  <2>2. ComingIn(stakes, p) \in Int /\ position[p] \in Int /\ position' = position
      BY <1>2, <1>4, SumsAre
  <2>. QED
      BY <1>1, <1>8, <1>9, <2>1, <2>2, ExposureIs
<1>12. Free' = Free - a /\ Free \in Int /\ wallet' \in Int /\ Free = wallet - OwedIn(stakes)
  <2>1. Free = wallet - OwedIn(stakes) /\ Free' = wallet' - OwedIn(stakes')
      BY FreeIs
  <2>2. wallet' \in Int /\ a \in Int /\ Owed(e) \in Int /\ wallet' - Owed(e) = wallet - a
      BY <1>1, <1>3, <1>4, <1>8
  <2>3. OwedIn(stakes) \in Int /\ OwedIn(stakes') = OwedIn(stakes) + Owed(e)
      BY <1>10
  <2>. QED
      BY <1>4, <2>1, <2>2, <2>3
<1>13. Whole'
  <2>1. wallet + Holds(position) + PaidIn(stakes) = Funds /\ Holds(position) \in Int
      BY <1>4, HoldsIs DEF IInv, Whole
  <2>2. wallet' + Holds(position') + PaidIn(stakes') = Funds
      BY <1>1, <1>2, <1>3, <1>4, <1>8, <1>10, <2>1
  <2>. QED
      BY <1>1, <1>2, <1>12, <2>2 DEF Whole
<1>14. wallet' \in 0..Funds
  <2>1. OwedIn(stakes) \in Nat
      BY <1>4, SumsAre
  <2>. QED
      BY <1>1, <1>2, <1>3, <1>4, <1>12, <2>1
<1>15. YieldTypeOK'
    BY <1>2, <1>10, <1>14, TailIs DEF IInv, YieldTypeOK, Cycles, Stakes
<1>16. \A j \in 1..MaxStakes : stakes'[j] = IF j = i THEN e ELSE stakes[j]
    BY <1>4, <1>5, <1>7 DEF Becomes, Stakes
<1>17. StakesSane'
  <2> SUFFICES ASSUME NEW j \in Slots'
               PROVE  /\ j \notin Open' => stakes'[j].debited
                      /\ stakes'[j].recent \/ (j \in Uncredited' /\ stakes'[j].of \notin Prompt)
      BY DEF StakesSane
  <2>1. CASE j = i
      BY <1>6, <1>16, <2>1 DEF Slots, Open
  <2>2. CASE j # i
    <3>1. j \in Slots /\ stakes'[j] = stakes[j]
        BY <1>16, <2>2 DEF Slots
    <3>. QED
        BY <3>1 DEF IInv, StakesSane, Open, Uncredited
  <2>. QED
      BY <2>1, <2>2
<1>18. \A j \in Open' : stakes'[j].mine
  <2>1. \A j \in Open : stakes[j].mine
      BY TailIs
  <2> SUFFICES ASSUME NEW j \in Open' PROVE stakes'[j].mine
      OBVIOUS
  <2>2. CASE j = i
      BY <1>6, <1>16, <2>2 DEF Open, Slots
  <2>3. CASE j # i
      BY <1>16, <2>1, <2>3 DEF Open, Slots
  <2>. QED
      BY <2>2, <2>3
<1>19. Covered' /\ Known'
    BY <1>2, TailIs DEF IInv, Covered, Known
<1>20. ASSUME NEW p \in Prompt PROVE Exposure(p)' <= Cap
  <2>1. p = q => Exposure(p) + a <= Cap
      BY TailIs DEF q, a
  <2>2. Exposure(p) <= Cap
      BY DEF IInv, CapKept
  <2>. QED
      BY <1>11, <2>1, <2>2
<1>21. slid' \/ Free' - ToSpend(cycle'.plan) >= Reserve
  <2>1. ToSpend(cycle.plan) = a + ToSpend(cycle'.plan) /\ ToSpend(cycle'.plan) \in Nat
      BY TailIs DEF Spent, a
  <2>2. slid \/ Free - ToSpend(cycle.plan) >= Reserve
      BY DEF IInv, Fits
  <2>. QED
      BY <1>1, <1>12, <2>1, <2>2
<1>22. ASSUME NEW k \in Staking(cycle'.plan), NEW p \in Prompt, cycle'.plan[k].of = p
       PROVE  Exposure(p)' + cycle'.plan[k].amount <= Cap
  <2>1. p # q /\ Exposure(p) + cycle'.plan[k].amount <= Cap /\ cycle'.plan[k].amount \in Int
    <3>1. /\ cycle'.plan[k].of # q /\ cycle'.plan[k].amount \in 1..Funds
          /\ cycle'.plan[k].of \in Prompt =>
                Exposure(cycle'.plan[k].of) + cycle'.plan[k].amount <= Cap
        BY TailIs DEF q
    <3>. QED
        BY <1>22, <3>1
  <2>2. Exposure(p)' = Exposure(p) /\ Exposure(p) \in Int
      BY <1>11, <2>1
  <2>. QED
      BY <2>1, <2>2
<1>23. cycle'.pc = "execute" /\ \A k, l \in Staking(cycle'.plan) : cycle'.plan[k].of = cycle'.plan[l].of => k = l
    BY TailIs
<1>24. Fits'
    BY <1>18, <1>21, <1>22, <1>23 DEF Fits
<1>25. CapKept'
    BY <1>20 DEF CapKept
<1>. QED
    BY <1>13, <1>15, <1>17, <1>19, <1>24, <1>25 DEF IInv

LEMMA SendKeeps == ASSUME IInv, Send PROVE IInv'
<1>1. Sending /\ slid' = slid
    BY DEF Send, Sending
<1> DEFINE o == Head(cycle.plan)
<1>2. /\ redeems \in [Products -> Redeem] /\ faults \in 0..MaxFaults
      /\ position \in [Products -> Nat] /\ o.of \in Products /\ o.amount \in 1..Funds
    BY <1>1, TailIs, TypesAre DEF IInv
<1>3. \/ o.act = "STAKE" /\ AcceptStake(o.of, o.amount)
      \/ AcceptRedeem(o.of, o.amount)
      \/ RefuseStake(o.amount) \/ RefuseRedeem(o.of, o.amount)
    BY DEF Send
<1>4. CASE o.act = "STAKE" /\ AcceptStake(o.of, o.amount)
    BY <1>1, <1>4, StakedKeeps
<1>5. CASE AcceptRedeem(o.of, o.amount)
  <2>1. PICK status \in {"pending", "other"} :
            redeems' = [redeems EXCEPT ![o.of] = [amount |-> o.amount, status |-> status]]
      BY <1>5 DEF AcceptRedeem
  <2>2. UNCHANGED <<wallet, position, stakes, faults>> /\ o.amount <= position[o.of]
      BY <1>5 DEF AcceptRedeem
  <2>3. [amount |-> o.amount, status |-> status] \in Redeem
      BY <1>2 DEF Redeem
  <2> HIDE DEF o
  <2>4. redeems' \in [Products -> Redeem]
      BY <1>2, <2>1, <2>3
  <2>5. Covered'
    <3> SUFFICES ASSUME NEW p \in Products PROVE redeems'[p].amount <= position'[p]
        BY DEF Covered
    <3>1. CASE p = o.of
        BY <1>2, <2>1, <2>2, <3>1
    <3>2. CASE p # o.of
        BY <1>2, <2>1, <2>2, <3>2 DEF IInv, Covered
    <3>. QED
        BY <3>1, <3>2
  <2>. QED
      BY <1>1, <1>2, <2>2, <2>4, <2>5, SentKeeps
<1>6. CASE RefuseStake(o.amount) \/ RefuseRedeem(o.of, o.amount)
  <2>1. UNCHANGED bybit /\ faults' \in 0..MaxFaults
      BY <1>2, <1>6 DEF RefuseStake, RefuseRedeem, Fault
  <2>2. Covered'
      BY <2>1 DEF IInv, Covered, bybit
  <2>. QED
      BY <1>1, <1>2, <2>1, <2>2, SentKeeps DEF bybit
<1>. QED
    BY <1>3, <1>4, <1>5, <1>6

(* What is decided: redemptions of what is held, stakes the gates let pass.*)
LEMMA RedeemAllIs ==
  ASSUME NEW V, [act : {"REDEEM"}, of : HeldIds] \subseteq V, NEW S \in SUBSET HeldIds
  PROVE  RedeemAll(S) \in Seq(V)
<1> DEFINE T == [act : {"REDEEM"}, of : S]
           f == [p \in S |-> [act |-> "REDEEM", of |-> p]]
<1>1. IsFiniteSet(S)
    BY FS_Subset DEF HeldIds
<1>2. f \in Surjection(S, T)
  <2>1. f \in [S -> T]
      OBVIOUS
  <2>2. ASSUME NEW t \in T PROVE \E p \in S : f[p] = t
    <3>1. t.of \in S /\ t = [act |-> "REDEEM", of |-> t.of]
        OBVIOUS
    <3>. QED
        BY <3>1
  <2>. QED
      BY <2>1, <2>2 DEF Surjection
<1> HIDE DEF T, f
<1>3. IsFiniteSet(T)
    BY <1>1, <1>2, FS_Surjection
<1>4. Cardinality(T) \in Nat /\ ExistsBijection(1..Cardinality(T), T)
    BY <1>3, FS_CardinalityType
<1>5. \E g \in [1..Cardinality(T) -> T] : IsInjective(g)
    BY <1>4 DEF ExistsBijection, Bijection, Injection
<1>6. SetToSeq(T) \in [1..Cardinality(T) -> T]
    BY <1>5 DEF SetToSeq
<1>7. T \subseteq V
    BY DEF T
<1>8. SetToSeq(T) \in [1..Cardinality(T) -> V]
    BY <1>6, <1>7
<1>9. SetToSeq(T) \in Seq(V)
    BY <1>4, <1>8
<1>. QED
    BY <1>9 DEF RedeemAll, T

LEMMA DecisionsAre ==
  ASSUME NEW read, NEW limit \in Scans, NEW answer,
         answer = RedeemAll(HeldIds) \/ answer \in Answers(DOMAIN limit, read)
  PROVE  Forced \o answer \in Seq(Validated(limit, read))
<1> DEFINE V == Validated(limit, read)
<1>1. [act : {"REDEEM"}, of : HeldIds] \subseteq V
    BY DEF Validated, Gated, Wanted
<1> HIDE DEF V
<1>2. HeldIds \in SUBSET HeldIds /\ cycle.gone \cap HeldIds \in SUBSET HeldIds
    OBVIOUS
<1>3. Forced \in Seq(V) /\ RedeemAll(HeldIds) \in Seq(V)
    BY <1>1, <1>2, RedeemAllIs DEF Forced
<1>4. ASSUME NEW n \in 0..MaxDecisions, answer \in [1..n -> V] PROVE answer \in Seq(V)
    BY <1>4
<1>5. answer \in Seq(V)
    BY <1>3, <1>4 DEF Answers, V, Validated
<1>6. Forced \o answer \in Seq(V)
    BY <1>3, <1>5, ConcatProperties
<1>. QED
    BY <1>6 DEF V

LEMMA ReadIs ==
  ASSUME IInv, NEW read \in OrdersRead
  PROVE  /\ read \in Reads
         /\ ~read.unread /\ ~read.block =>
               Open = {} /\ \A p \in Products : read.committed[p] = Committed(p)
<1>1. /\ stakes \in Stakes /\ cycle.held \in [Products -> 0..Funds]
    BY TypesAre DEF IInv
<1>2. ASSUME NEW p \in Products PROVE Committed(p) \in Int
  <2> DEFINE f == [i \in 1..MaxStakes |-> IF i \in {j \in Counted : stakes[j].of = p}
                                          THEN stakes[i].amount ELSE 0]
  <2>1. \A i \in Slots : stakes[i].amount \in Int
    <3> SUFFICES ASSUME NEW i \in Slots PROVE stakes[i].amount \in Int
        OBVIOUS
    <3>1. stakes[i] \in Stake
        BY <1>1 DEF Slots, Stakes
    <3>. QED
        BY <3>1, StakeIs
  <2>2. \A i \in 1..MaxStakes : f[i] \in Int
      BY <2>1 DEF Counted
  <2>3. Amount({j \in Counted : stakes[j].of = p}) = Sum(f, MaxStakes)
      BY DEF Amount
  <2> HIDE DEF f
  <2>4. Sum(f, MaxStakes) \in Int
      BY <2>2, SumInt
  <2>5. cycle.held[p] \in Int
      BY <1>1
  <2>. QED
      BY <2>3, <2>4, <2>5 DEF Committed
<1>3. CASE read = [unread |-> TRUE, block |-> FALSE, redeeming |-> {}, committed |-> cycle.held]
  <2>1. cycle.held \in [Products -> Int]
      BY <1>1
  <2>. QED
      BY <1>3, <2>1 DEF Reads
<1>4. ASSUME NEW foreign \in BOOLEAN,
             read = [unread |-> FALSE, block |-> Blocked(foreign), redeeming |-> Redeeming(foreign),
                     committed |-> [p \in Products |-> Committed(p)]]
      PROVE  /\ read \in Reads
             /\ ~read.block => Open = {} /\ \A p \in Products : read.committed[p] = Committed(p)
  <2>1. Redeeming(foreign) \in SUBSET Products
      BY DEF Redeeming
  <2>2. Blocked(foreign) \in BOOLEAN /\ (~Blocked(foreign) => Open = {})
      BY DEF Blocked
  <2>3. [p \in Products |-> Committed(p)] \in [Products -> Int]
      BY <1>2
  <2>4. read \in Reads
      BY <1>4, <2>1, <2>2, <2>3 DEF Reads
  <2>. QED
      BY <1>4, <2>2, <2>4
<1>. QED
    BY <1>3, <1>4 DEF OrdersRead

(* With nothing open, all that was accepted is paid for.                   *)
LEMMA AllPaid == ASSUME IInv, Open = {} PROVE Free = wallet
<1>1. \A i \in 1..MaxStakes : Owed(stakes[i]) = 0
    BY DEF IInv, StakesSane, Slots, Owed
<1> DEFINE f == [i \in 1..MaxStakes |-> Owed(stakes[i])]
<1>2. \A i \in 1..MaxStakes : f[i] = 0
    BY <1>1
<1>3. OwedIn(stakes) = Sum(f, MaxStakes)
    BY DEF OwedIn
<1> HIDE DEF f
<1>4. Sum(f, MaxStakes) = 0
    BY <1>2, SumZero
<1>5. wallet \in 0..Funds
    BY TypesAre DEF IInv
<1>. QED
    BY <1>3, <1>4, <1>5, FreeIs

LEMMA DecideKeeps == ASSUME IInv, Decide PROVE IInv'
<1>1. /\ UNCHANGED <<bybit, faults, slid>> /\ cycle.pc = "orders"
      /\ wallet' = wallet /\ position' = position /\ stakes' = stakes
    BY DEF Decide, bybit
<1>2. PICK read \in OrdersRead, limit \in Scans :
        \E decisions \in {Forced \o answer : answer \in
                IF cycle.eff = "UNWIND" THEN {RedeemAll(HeldIds)} ELSE Answers(DOMAIN limit, read)} :
            cycle' = [Off EXCEPT !.pc = "execute", !.plan = BuildPlan(decisions, read, limit)]
    BY DEF Decide
<1>3. PICK answer :
        /\ answer = RedeemAll(HeldIds) \/ answer \in Answers(DOMAIN limit, read)
        /\ cycle' = [Off EXCEPT !.pc = "execute", !.plan = BuildPlan(Forced \o answer, read, limit)]
    BY <1>2
<1> DEFINE plan == BuildPlan(Forced \o answer, read, limit)
<1>4. Forced \o answer \in Seq(Validated(limit, read))
    BY <1>3, DecisionsAre
<1>5. /\ read \in Reads
      /\ ~read.unread /\ ~read.block =>
            Open = {} /\ \A p \in Products : read.committed[p] = Committed(p)
    BY ReadIs
<1>6. limit \in Limits
    BY DEF Scans, Limits
<1>7. /\ cycle.held \in [Products -> 0..Funds] /\ cycle.idle \in 0..Funds /\ wallet \in 0..Funds
      /\ position \in [Products -> Nat] /\ stakes \in Stakes /\ slid \in BOOLEAN
    BY TypesAre DEF IInv
<1>8. PICK idle : Sound([plan |-> plan, idle |-> idle], read)
    BY <1>4, <1>5, <1>6, <1>7, PlanIsSound
<1> HIDE DEF plan
<1>9. /\ plan \in Plans /\ idle \in Int /\ idle + ToSpend(plan) = cycle.idle
      /\ \A k, l \in Staking(plan) : plan[k].of = plan[l].of => k = l
      /\ \A k \in Staking(plan) : plan[k].amount <= Cap - read.committed[plan[k].of]
      /\ Staking(plan) # {} => idle >= Reserve /\ MayStake(read) /\ ~read.block
  <2> DEFINE acc == [plan |-> plan, idle |-> idle]
  <2>1. acc.plan = plan /\ acc.idle = idle
      OBVIOUS
  <2> HIDE DEF acc
  <2>2. Sound(acc, read)
      BY <1>8 DEF acc
  <2>. QED
      BY <2>1, <2>2 DEF Sound, Accs
<1>10. cycle' \in Cycles /\ cycle'.pc = "execute" /\ cycle'.plan = plan
    BY <1>3, <1>9, DecidedIs DEF plan
<1>11. Staking(plan) # {} => /\ Open = {} /\ idle >= Reserve
                             /\ \A p \in Products : read.committed[p] = Committed(p)
    BY <1>5, <1>9 DEF MayStake
<1>12. Free' = Free /\ Free \in Int /\ ToSpend(plan) \in Nat
    BY <1>1, <1>9, FreeIs, FreeInt, ToSpendNat
<1>13. slid' \/ Free' - ToSpend(plan) >= Reserve
  <2>1. CASE Staking(plan) = {}
    <3>1. ToSpend(plan) = 0 /\ cycle.plan = <<>>
        BY <1>1, <1>9, <2>1, NothingToSpend DEF IInv, Fits
    <3>2. <<>> \in Plans /\ Staking(<<>>) = {}
        BY DEF Plans, Staking
    <3>3. ToSpend(<<>>) = 0
        BY <3>2, NothingToSpend
    <3>4. slid \/ Free - ToSpend(<<>>) >= Reserve
        BY <3>1 DEF IInv, Fits
    <3>. QED
        BY <1>1, <1>12, <3>1, <3>3, <3>4
  <2>2. CASE Staking(plan) # {}
    <3>1. Free = wallet /\ idle >= Reserve
        BY <1>11, <2>2, AllPaid
    <3>2. cycle.idle <= wallet \/ slid
        BY <1>1 DEF IInv, Known
    <3>. QED
        BY <1>1, <1>7, <1>9, <1>12, <3>1, <3>2
  <2>. QED
      BY <2>1, <2>2
<1>14. ASSUME NEW k \in Staking(plan), NEW p \in Prompt, plan[k].of = p
       PROVE  Exposure(p)' + plan[k].amount <= Cap
  <2>1. plan[k].amount \in Int
    <3>1. plan[k] \in Sent
        BY <1>9 DEF Staking, Plans
    <3>2. plan[k].amount \in 1..Funds
        BY <3>1, SentIs
    <3>. QED
        BY <3>2
  <2>2. plan[k].amount <= Cap - Committed(p)
      BY <1>9, <1>11, <1>14
  <2>3. Committed(p) = cycle.held[p] + (ComingIn(stakes, p) + InHandIn(stakes, p))
    <3>1. StakesSane
        BY DEF IInv
    <3>. QED
        BY <1>7, <3>1, CountedIs DEF Committed
  <2>4. position[p] <= cycle.held[p] + InHandIn(stakes, p)
      BY <1>1 DEF IInv, Known
  <2>5. /\ ComingIn(stakes, p) \in Int /\ InHandIn(stakes, p) \in Int
        /\ position[p] \in Int /\ cycle.held[p] \in Int
      BY <1>7, SumsAre
  <2>6. Exposure(p)' = position[p] + ComingIn(stakes, p)
      BY <1>1, ExposureIs
  <2>. QED
      BY <2>1, <2>2, <2>3, <2>4, <2>5, <2>6
<1>15. Staking(plan) # {} => \A j \in Open' : stakes'[j].mine
    BY <1>1, <1>11 DEF Open, Slots
<1>16. Fits'
    BY <1>9, <1>10, <1>13, <1>14, <1>15 DEF Fits
<1>17. Known'
    BY <1>10 DEF Known
<1>18. YieldTypeOK'
    BY <1>1, <1>10 DEF IInv, YieldTypeOK, bybit, Cycles
<1>. QED
    BY <1>1, <1>16, <1>17, <1>18, CycleKeeps

-----------------------------------------------------------------------------
(* The theorems.                                                           *)

LEMMA InitInv == Init => IInv
<1> SUFFICES ASSUME Init PROVE IInv
    OBVIOUS
<1>1. /\ wallet = Funds /\ position = Nothing /\ stakes = [i \in 1..MaxStakes |-> None]
      /\ redeems = [p \in Products |-> NoRedeem] /\ cycle = Off /\ faults = 0 /\ slid = FALSE
    BY DEF Init
<1>2. stakes \in Stakes /\ Slots = {} /\ \A i \in 1..MaxStakes : stakes[i] = None
    BY <1>1 DEF Stakes, Slots
<1>3. NoRedeem \in Redeem /\ NoRedeem.amount = 0
    BY DEF NoRedeem, Redeem
<1>4. position \in [Products -> 0..Funds] /\ \A p \in Products : position[p] = 0
    BY <1>1 DEF Nothing
<1>5. YieldTypeOK
  <2>1. wallet \in 0..Funds /\ faults \in 0..MaxFaults
      BY <1>1
  <2>2. slid \in BOOLEAN
      BY <1>1
  <2>3. redeems \in [Products -> Redeem] /\ stakes \in [1..MaxStakes -> Stake \cup {None}]
      BY <1>1, <1>2, <1>3 DEF Stakes
  <2>4. cycle \in Cycles
      BY <1>1, OffIs
  <2>. QED
      BY <1>4, <2>1, <2>3, <2>4, <2>2 DEF YieldTypeOK, Cycles
<1>6. Holds(position) = 0
  <2> DEFINE f == [k \in 1..Count |-> position[Listed[k]]]
  <2>1. Count \in Nat /\ \A k \in 1..Count : f[k] = 0
      BY <1>4, ListedIs
  <2>2. Holds(position) = Sum(f, Count)
      BY DEF Holds
  <2> HIDE DEF f
  <2>. QED
      BY <2>1, <2>2, SumZero
<1>7. OwedIn(stakes) = 0 /\ PaidIn(stakes) = 0 /\ \A p \in Products : ComingIn(stakes, p) = 0
  <2>1. ASSUME NEW f, \A i \in 1..MaxStakes : f[i] = 0 PROVE Sum(f, MaxStakes) = 0
    <3>1. MaxStakes \in Nat
        OBVIOUS
    <3>. QED
        BY <2>1, <3>1, SumZero
  <2>2. OwedIn(stakes) = 0
    <3> DEFINE f == [i \in 1..MaxStakes |-> Owed(stakes[i])]
    <3>1. (\A i \in 1..MaxStakes : f[i] = 0) /\ OwedIn(stakes) = Sum(f, MaxStakes)
        BY <1>2, NoneIs DEF OwedIn
    <3> HIDE DEF f
    <3>. QED
        BY <2>1, <3>1
  <2>3. PaidIn(stakes) = 0
    <3> DEFINE f == [i \in 1..MaxStakes |-> Paid(stakes[i])]
    <3>1. (\A i \in 1..MaxStakes : f[i] = 0) /\ PaidIn(stakes) = Sum(f, MaxStakes)
        BY <1>2, NoneIs DEF PaidIn
    <3> HIDE DEF f
    <3>. QED
        BY <2>1, <3>1
  <2>4. ASSUME NEW p \in Products PROVE ComingIn(stakes, p) = 0
    <3> DEFINE f == [i \in 1..MaxStakes |-> Coming(stakes[i], p)]
    <3>1. (\A i \in 1..MaxStakes : f[i] = 0) /\ ComingIn(stakes, p) = Sum(f, MaxStakes)
        BY <1>2, NoneIs DEF ComingIn
    <3> HIDE DEF f
    <3>. QED
        BY <2>1, <3>1
  <2>. QED
      BY <2>2, <2>3, <2>4
<1>8. Free = Funds
    BY <1>1, <1>7, FreeIs
<1>9. Whole /\ Covered
    BY <1>1, <1>3, <1>4, <1>6, <1>7, <1>8 DEF Whole, Covered
<1>10. StakesSane /\ Known
    BY <1>1, <1>2, OffIs DEF StakesSane, Known
<1>11. Fits
  <2>1. <<>> \in Plans /\ Staking(<<>>) = {}
      BY DEF Plans, Staking
  <2>2. ToSpend(<<>>) = 0
      BY <2>1, NothingToSpend
  <2>3. cycle.plan = <<>>
      BY <1>1, OffIs
  <2>4. Free - ToSpend(cycle.plan) >= Reserve
      BY <1>8, <2>2, <2>3
  <2>5. Staking(cycle.plan) = {}
      BY <2>1, <2>3
  <2>. QED
      BY <2>3, <2>4, <2>5 DEF Fits
<1>12. CapKept
  <2> SUFFICES ASSUME NEW p \in Prompt PROVE Exposure(p) <= Cap
      BY DEF CapKept
  <2>1. Exposure(p) = 0
      BY <1>4, <1>7, ExposureIs
  <2>. QED
      BY <2>1
<1>. QED
    BY <1>5, <1>9, <1>10, <1>11, <1>12 DEF IInv

LEMMA StutterKeeps == ASSUME IInv, UNCHANGED vars PROVE IInv'
<1>1. /\ wallet' = wallet /\ position' = position /\ stakes' = stakes /\ redeems' = redeems
      /\ cycle' = cycle /\ faults' = faults /\ slid' = slid
    BY DEF vars, bybit
<1>. QED
  <2>1. YieldTypeOK' /\ Known'
      BY <1>1 DEF IInv, YieldTypeOK, Known
  <2>2. Free' = Free /\ \A j \in Open' : j \in Open /\ stakes'[j] = stakes[j]
      BY <1>1, FreeIs DEF Open, Slots
  <2>3. ASSUME NEW p PROVE Exposure(p)' = Exposure(p)
      BY <1>1, ExposureIs
  <2>4. ASSUME NEW k \in Staking(cycle.plan), NEW p \in Prompt, cycle.plan[k].of = p
        PROVE  Exposure(p)' + cycle.plan[k].amount <= Cap
      BY <2>3, <2>4 DEF IInv, Fits
  <2>5. Fits'
      BY <1>1, <2>2, <2>4 DEF IInv, Fits
  <2>. QED
      BY <1>1, <2>1, <2>5, CycleKeeps DEF bybit

LEMMA StepKeeps == IInv /\ [Next]_vars => IInv'
<1> SUFFICES ASSUME IInv, [Next]_vars PROVE IInv'
    OBVIOUS
<1>1. CASE Begin
    BY <1>1, BeginKeeps
<1>2. CASE ReadPositions
    BY <1>2, ReadPositionsKeeps
<1>3. CASE PositionsUnread \/ Finish \/ Killed
    BY <1>3, OverKeeps
<1>4. CASE Decide
    BY <1>4, DecideKeeps
<1>5. CASE Send
    BY <1>5, SendKeeps
<1>6. CASE \E p \in Products : RedeemSucceeds(p) \/ RedeemFails(p)
    BY <1>6, RedeemKeeps
<1>7. CASE \E i \in 1..MaxStakes : StakeSucceeds(i) \/ StakeFails(i) \/ StakeCredited(i) \/ StakeAges(i)
    BY <1>7, SucceedsKeeps, FailsKeeps, CreditedKeeps, AgesKeeps
<1>8. CASE UNCHANGED vars
    BY <1>8, StutterKeeps
<1>. QED
    BY <1>1, <1>2, <1>3, <1>4, <1>5, <1>6, <1>7, <1>8 DEF Next, Step, World

(* The inductive invariant: what the halves a cycle has read still say of  *)
(* the account, and that its plan fits into it until it is sent.           *)
THEOREM Inductive == Spec => []IInv
BY InitInv, StepKeeps, PTL DEF Spec

(* Every amount stays a natural number: no order of run_yield_cycle makes  *)
(* a wallet or a position negative, or sums up to more than the funds.     *)
THEOREM TypeCorrect == Spec => []YieldTypeOK
<1>1. IInv => YieldTypeOK
    BY DEF IInv
<1>. QED
    BY <1>1, Inductive, PTL

(* MAX_PER_PRODUCT_USD: what a prompt product holds and what is on its way *)
(* to it stay within the cap, for any cap, products and order of events.   *)
THEOREM CapsAreKept == Spec => []CapKept
<1>1. IInv => CapKept
    BY DEF IInv
<1>. QED
    BY <1>1, Inductive, PTL

(* RESERVE_USD stays free, unless a stake slid between two reads.          *)
THEOREM ReserveIsKept == Spec => []ReserveKeptUnlessSlid
<1>1. IInv => ReserveKeptUnlessSlid
  <2> SUFFICES ASSUME IInv, ~slid PROVE Free >= Reserve
      BY DEF ReserveKeptUnlessSlid
  <2>1. Free - ToSpend(cycle.plan) >= Reserve
      BY DEF IInv, Fits
  <2>2. ToSpend(cycle.plan) \in Nat /\ Free \in Int
      BY TypesAre, ToSpendNat, FreeInt DEF IInv
  <2>. QED
      BY <2>1, <2>2
<1>. QED
    BY <1>1, Inductive, PTL

(* No stake is sent while one of an earlier cycle is open: the answer that *)
(* was lost, the kill after the order, repeat nothing.                     *)
THEOREM OnlyOneCycleStakes == Spec => OneCycleStakes
<1> DEFINE Alone == \A i \in Slots' \ Slots : \A j \in Open : stakes[j].mine
<1>1. IInv /\ [Next]_vars => [Alone]_vars
  <2> SUFFICES ASSUME IInv, Next, NEW i \in Slots', i \notin Slots, NEW j \in Open PROVE stakes[j].mine
      OBVIOUS
  <2>1. i \in 1..MaxStakes /\ stakes[i] = None /\ stakes'[i] # None /\ stakes \in Stakes
      BY TypesAre DEF Slots, IInv
  <2>2. CASE Begin
      BY <2>1, <2>2 DEF Begin, Stakes
  <2>3. CASE ReadPositions \/ PositionsUnread \/ Decide \/ Finish \/ Killed
      BY <2>1, <2>3 DEF ReadPositions, PositionsUnread, Decide, Finish, Killed, bybit
  <2>4. CASE Send
    <3>1. Sending
        BY <2>4 DEF Send, Sending
    <3>2. CASE Head(cycle.plan).act = "STAKE"
        BY <3>1, <3>2, TailIs
    <3>3. CASE Head(cycle.plan).act # "STAKE"
        BY <2>1, <2>4, <3>3 DEF Send, AcceptRedeem, RefuseRedeem, bybit
    <3>. QED
        BY <3>2, <3>3
  <2>5. CASE \E p \in Products : RedeemSucceeds(p) \/ RedeemFails(p)
      BY <2>1, <2>5 DEF RedeemSucceeds, RedeemFails
  <2>6. CASE \E c \in 1..MaxStakes : StakeSucceeds(c) \/ StakeFails(c) \/ StakeCredited(c) \/ StakeAges(c)
    <3>1. PICK c \in 1..MaxStakes : StakeSucceeds(c) \/ StakeFails(c) \/ StakeCredited(c) \/ StakeAges(c)
        BY <2>6
    <3>2. c \in Slots /\ c # i
        BY <3>1, <2>1 DEF StakeSucceeds, StakeFails, StakeCredited, StakeAges, Open, Slots
    <3>3. stakes'[i] = stakes[i]
        BY <3>1, <3>2, <2>1 DEF StakeSucceeds, StakeFails, StakeCredited, StakeAges, Stakes
    <3>. QED
        BY <2>1, <3>3
  <2>. QED
      BY <2>2, <2>3, <2>4, <2>5, <2>6 DEF Next, Step, World
<1>. QED
    BY <1>1, Inductive, PTL DEF Spec, OneCycleStakes
=============================================================================
