---------------------------- MODULE CarryFundsProofs ----------------------------
(***************************************************************************)
(* Proofs about CarryFunds, for any symbols, cost, buffer, slack, timeout  *)
(* and stock: the types; and that no entry is sent which the wallet does   *)
(* not cover, whatever Earn pays, when, and whatever is killed.  IInv says *)
(* that no USDT is made, what a cycle that has read the account still      *)
(* knows of it, and that what it has planned is covered until it is done.  *)
(***************************************************************************)
EXTENDS CarryFunds, SumsProofs, SequenceTheorems, FiniteSetTheorems

(* USDT on its way from Earn, in the positions, and for planned entries.   *)
Due(o) == IF o.state = "pending" THEN o.amount ELSE 0
Pending(ord) == Sum([l \in Links |-> Due(ord[l])], MaxLinks)
Invested(at) == Cost * Cardinality(at)
Price(a) == IF a.kind = "ENTER" THEN Cost ELSE 0
ToPay(acts) == Sum([k \in 1..Len(acts) |-> Price(acts[k])], Len(acts))
Entries(acts) == {k \in DOMAIN acts : acts[k].kind = "ENTER"}

(* No USDT is made.                                                        *)
Conserved == wallet + staked + staking + Pending(order) + Invested(open) <= Stock

(* Until Earn is read, the wallet holds at least what was read, and what   *)
(* is open is what was read or could not be.                               *)
Known ==
    cyc.pc = "read" =>
        /\ cyc.read.wallet \in 0..wallet
        /\ cyc.read.at = open \ cyc.read.unread

(* The buffer is there while one position is open.                         *)
Buffered == Cardinality(open) = 1 => wallet >= Buffer \/ hidden

(* What is planned is covered: each entry, of a symbol of its own that is  *)
(* not open; with the buffer as well when nothing else is open; and a      *)
(* return, with nothing else.                                              *)
Covered(acts) ==
    /\ wallet >= ToPay(acts)
    /\ open = {} /\ Entries(acts) # {} => wallet >= ToPay(acts) + Buffer
    /\ \A k \in Entries(acts) : acts[k].sym \notin open
    /\ \A k, l \in Entries(acts) : acts[k].sym = acts[l].sym => k = l
    /\ \A k \in DOMAIN acts : acts[k].kind = "RETURN" =>
          /\ Len(acts) = 1 /\ acts[k].amount <= wallet
          /\ Cardinality(open) = 1 => wallet - acts[k].amount >= Buffer \/ hidden

(* A cycle has its fields, and acts once it has planned.                   *)
Entry == [status : {"FLAT", "REDEEMING", "OPEN"}, link : 0..MaxLinks, age : 0..Timeout]
Actions == Seq(Act)
Cycles == [pc : {"off", "read", "act"}, acts : Actions, next : [Coins -> Entry],
           read : [wallet : Int, acct : BOOLEAN, at : SUBSET Coins, unread : SUBSET Coins]]
Whole == cyc \in Cycles /\ (cyc.pc # "act" => cyc.acts = <<>>)

IInv == FundsTypeOK /\ wallet >= 0 /\ Whole /\ Conserved /\ Known /\ Buffered /\ Covered(cyc.acts)
-----------------------------------------------------------------------------
LEMMA ConstantsAre ==
  /\ Cost \in Nat /\ Cost > 0 /\ MinReturn \in Nat /\ MinReturn > 0 /\ Timeout \in Nat
  /\ MaxLinks \in Nat /\ Buffer \in Nat /\ Slack \in Nat /\ Stock \in Nat /\ MaxFaults \in Nat
  /\ Buffer <= Cost
BY FundsAssumption

USE ConstantsAre

(* The symbols of the configuration.                                       *)
LEMMA SymbolsAre ==
  /\ Len(Symbols) \in Nat /\ DOMAIN Symbols = 1..Len(Symbols)
  /\ \A i \in 1..Len(Symbols) : Symbols[i] \in Coins
  /\ \A i, j \in 1..Len(Symbols) : Symbols[i] = Symbols[j] => i = j
  /\ IsFiniteSet(Coins)
<1>1. Symbols \in Seq(Coins) /\ IsInjective(Symbols)
    BY FundsAssumption
<1>2. /\ Len(Symbols) \in Nat /\ DOMAIN Symbols = 1..Len(Symbols)
      /\ Symbols \in [1..Len(Symbols) -> Coins]
    BY <1>1
<1>3. \A c \in Coins : \E i \in 1..Len(Symbols) : Symbols[i] = c
    BY <1>2 DEF Coins, ToSet
<1>4. Symbols \in Surjection(1..Len(Symbols), Coins)
    BY <1>2, <1>3 DEF Surjection
<1>5. IsFiniteSet(1..Len(Symbols))
    BY <1>2, FS_Interval
<1>6. IsFiniteSet(Coins)
    BY <1>4, <1>5, FS_Surjection
<1>. QED
    BY <1>1, <1>2, <1>6 DEF IsInjective

(* What the positions cost.                                                *)
LEMMA CountIs ==
  ASSUME NEW S \in SUBSET Coins
  PROVE  /\ IsFiniteSet(S) /\ Cardinality(S) \in Nat /\ (Cardinality(S) = 0 <=> S = {})
         /\ Invested(S) \in Nat
<1>1. IsFiniteSet(S)
    BY SymbolsAre, FS_Subset
<1>2. Cardinality(S) \in Nat /\ (Cardinality(S) = 0 <=> S = {})
    BY <1>1, FS_CardinalityType, FS_EmptySet
<1>3. Invested(S) \in Nat
    BY <1>2 DEF Invested
<1>. QED
    BY <1>1, <1>2, <1>3

LEMMA CountAdd ==
  ASSUME NEW S \in SUBSET Coins, NEW s \in Coins, s \notin S
  PROVE  /\ Cardinality(S \cup {s}) = Cardinality(S) + 1
         /\ Invested(S \cup {s}) = Invested(S) + Cost
<1>1. IsFiniteSet(S) /\ Cardinality(S) \in Nat
    BY CountIs
<1>2. Cardinality(S \cup {s}) = Cardinality(S) + 1
    BY <1>1, FS_AddElement
<1>3. \A n \in Nat : Cost * (n + 1) = Cost * n + Cost
    OBVIOUS
<1>. QED
    BY <1>1, <1>2, <1>3 DEF Invested

LEMMA CountRemove ==
  ASSUME NEW S \in SUBSET Coins, NEW s \in S
  PROVE  /\ Cardinality(S \ {s}) = Cardinality(S) - 1
         /\ Invested(S \ {s}) = Invested(S) - Cost
<1> DEFINE T == S \ {s}
<1>1. T \in SUBSET Coins /\ s \in Coins /\ s \notin T /\ S = T \cup {s}
    OBVIOUS
<1>2. Cardinality(T) \in Nat /\ Invested(T) \in Nat
    BY <1>1, CountIs
<1> HIDE DEF T
<1>3. Cardinality(T \cup {s}) = Cardinality(T) + 1 /\ Invested(T \cup {s}) = Invested(T) + Cost
    BY <1>1, CountAdd
<1>4. Cardinality(T) = Cardinality(S) - 1 /\ Invested(T) = Invested(S) - Cost
    BY <1>1, <1>2, <1>3
<1>. QED
    BY <1>4 DEF T

(* What Earn still owes.                                                   *)
EarnOrder == [state : {"none", "pending", "done", "failed"}, amount : 0..Stock]
Orders == [Links -> EarnOrder]

LEMMA DueIs ==
  /\ \A o \in EarnOrder : Due(o) \in Nat /\ o.amount \in 0..Stock
                          /\ o.state \in {"none", "pending", "done", "failed"}
  /\ NoOrder \in EarnOrder /\ Due(NoOrder) = 0
  /\ \A state \in {"none", "done", "failed"} :
        [NoOrder EXCEPT !.state = state] \in EarnOrder /\ Due([NoOrder EXCEPT !.state = state]) = 0
BY DEF EarnOrder, Due, NoOrder

LEMMA PendingIs ==
  ASSUME NEW ord \in Orders
  PROVE  Pending(ord) \in Nat /\ \A l \in Links : Due(ord[l]) <= Pending(ord)
<1> DEFINE f == [l \in Links |-> Due(ord[l])]
<1>1. \A l \in 1..MaxLinks : f[l] \in Nat /\ f[l] = Due(ord[l])
    BY DueIs DEF Orders, Links
<1>2. Pending(ord) = Sum(f, MaxLinks)
    BY DEF Pending
<1> HIDE DEF f
<1>3. Sum(f, MaxLinks) \in Nat
    BY <1>1, SumNat
<1>4. \A l \in 1..MaxLinks : f[l] <= Sum(f, MaxLinks)
    BY <1>1, SumTerm
<1>. QED
    BY <1>1, <1>2, <1>3, <1>4 DEF Links

LEMMA PendingChange ==
  ASSUME NEW ord \in Orders, NEW c \in Links, NEW o \in EarnOrder
  PROVE  /\ [ord EXCEPT ![c] = o] \in Orders
         /\ Pending([ord EXCEPT ![c] = o]) = Pending(ord) + Due(o) - Due(ord[c])
<1> DEFINE next == [ord EXCEPT ![c] = o]
           f == [l \in Links |-> Due(ord[l])]
           g == [l \in Links |-> Due(next[l])]
<1>1. next \in Orders /\ c \in 1..MaxLinks
    BY DEF Orders, Links
<1>2. \A l \in 1..MaxLinks : f[l] \in Int /\ g[l] \in Int
    BY <1>1, DueIs DEF Orders, Links
<1>3. \A l \in 1..MaxLinks : l # c => f[l] = g[l]
    BY DEF Orders, Links
<1>4. f[c] = Due(ord[c]) /\ g[c] = Due(o)
    BY DEF Orders
<1>5. Pending(ord) = Sum(f, MaxLinks) /\ Pending(next) = Sum(g, MaxLinks)
    BY DEF Pending
<1> HIDE DEF f, g, next
<1>6. Sum(g, MaxLinks) = Sum(f, MaxLinks) + g[c] - f[c]
    BY <1>1, <1>2, <1>3, SumChange
<1>. QED
    BY <1>1, <1>4, <1>5, <1>6 DEF next

(* Planned actions, and what their entries cost.                           *)
LEMMA ActIs ==
  /\ \A a \in Act : a.kind \in {"ENTER", "EXIT", "REDEEM", "RETURN"}
  /\ \A a \in Act : a.kind # "RETURN" => a.sym \in Coins
  /\ \A a \in Act : a.kind = "REDEEM" => a.amount \in 0..Stock /\ a.link \in Links
  /\ \A a \in Act : a.kind = "RETURN" => a.amount \in 0..Stock
  /\ \A kind \in {"ENTER", "EXIT"}, s \in Coins : [kind |-> kind, sym |-> s] \in Act
  /\ \A s \in Coins, amount \in 0..Stock, l \in Links :
        [kind |-> "REDEEM", sym |-> s, amount |-> amount, link |-> l] \in Act
  /\ \A amount \in 0..Stock : [kind |-> "RETURN", amount |-> amount] \in Act
BY DEF Act

LEMMA ActsAre == ASSUME NEW acts \in Actions PROVE \A k \in DOMAIN acts : acts[k] \in Act
  BY DEF Actions

LEMMA ToPayNat == ASSUME NEW acts \in Actions PROVE ToPay(acts) \in Nat
<1> DEFINE f == [k \in 1..Len(acts) |-> Price(acts[k])]
<1>1. Len(acts) \in Nat /\ \A k \in 1..Len(acts) : f[k] \in Nat
    BY DEF Price, Actions
<1>2. ToPay(acts) = Sum(f, Len(acts))
    BY DEF ToPay
<1> HIDE DEF f
<1>. QED
    BY <1>1, <1>2, SumNat

LEMMA NothingToPay == ASSUME NEW acts \in Actions, Entries(acts) = {} PROVE ToPay(acts) = 0
<1> DEFINE f == [k \in 1..Len(acts) |-> Price(acts[k])]
<1>1. Len(acts) \in Nat /\ DOMAIN acts = 1..Len(acts)
    BY DEF Actions
<1>2. \A k \in 1..Len(acts) : f[k] = 0
    BY <1>1 DEF Price, Entries
<1>3. ToPay(acts) = Sum(f, Len(acts))
    BY DEF ToPay
<1> HIDE DEF f
<1>. QED
    BY <1>1, <1>2, <1>3, SumZero

LEMMA ToPayAppend ==
  ASSUME NEW acts \in Actions, NEW a \in Act
  PROVE  ToPay(Append(acts, a)) = ToPay(acts) + Price(a)
<1> DEFINE n == Len(acts)
           al == Append(acts, a)
           f == [k \in 1..n + 1 |-> Price(al[k])]
           g == [k \in 1..n |-> Price(acts[k])]
<1>1. /\ n \in Nat /\ \A k \in 1..n : acts[k] \in Act
      /\ al \in Seq(Act) /\ Len(al) = n + 1 /\ al[n + 1] = a /\ \A k \in 1..n : al[k] = acts[k]
    BY AppendProperties DEF Actions
<1>2. \A k \in 1..n + 1 : f[k] \in Int
    BY DEF Price
<1>3. (\A k \in 1..(n + 1) - 1 : g[k] = f[k]) /\ f[n + 1] = Price(a)
    BY <1>1
<1>4. ToPay(al) = Sum(f, n + 1) /\ ToPay(acts) = Sum(g, n)
    BY <1>1 DEF ToPay
<1>5. n + 1 \in Nat \ {0} /\ (n + 1) - 1 = n
    BY <1>1
<1> HIDE DEF f, g, n, al
<1>6. Sum(f, n + 1) = Sum(g, (n + 1) - 1) + f[n + 1]
    BY <1>2, <1>3, <1>5, SumLast
<1>. QED
    BY <1>3, <1>4, <1>5, <1>6 DEF al

LEMMA AppendIs ==
  ASSUME NEW acts \in Actions, NEW a \in Act
  PROVE  /\ Append(acts, a) \in Actions
         /\ \A k \in DOMAIN Append(acts, a) :
               \/ k \in DOMAIN acts /\ Append(acts, a)[k] = acts[k]
               \/ k = Len(acts) + 1 /\ Append(acts, a)[k] = a
<1> DEFINE al == Append(acts, a)
<1>1. /\ al \in Seq(Act) /\ Len(al) = Len(acts) + 1 /\ Len(acts) \in Nat
      /\ \A k \in 1..Len(acts) : al[k] = acts[k]
      /\ al[Len(acts) + 1] = a
    BY AppendProperties DEF Actions
<1>2. DOMAIN al = 1..Len(acts) + 1 /\ DOMAIN acts = 1..Len(acts)
    BY <1>1 DEF Actions
<1> HIDE DEF al
<1>3. ASSUME NEW k \in DOMAIN al
      PROVE  \/ k \in DOMAIN acts /\ al[k] = acts[k]
             \/ k = Len(acts) + 1 /\ al[k] = a
    BY <1>1, <1>2
<1>. QED
    BY <1>1, <1>3 DEF al, Actions

LEMMA ActsTail ==
  ASSUME NEW acts \in Actions, acts # <<>>
  PROVE  /\ Head(acts) \in Act /\ Head(acts) = acts[1] /\ 1 \in DOMAIN acts
         /\ Tail(acts) \in Actions /\ Len(Tail(acts)) = Len(acts) - 1 /\ Len(acts) \in Nat
         /\ ToPay(acts) = Price(Head(acts)) + ToPay(Tail(acts))
         /\ \A k \in DOMAIN Tail(acts) : k \in Nat /\ k >= 1 /\ k + 1 \in DOMAIN acts
                                         /\ Tail(acts)[k] = acts[k + 1]
<1> DEFINE n == Len(acts)
           al == Tail(acts)
           f == [k \in 1..n |-> Price(acts[k])]
           g == [k \in 1..n - 1 |-> Price(al[k])]
<1>1. /\ n \in Nat \ {0} /\ DOMAIN acts = 1..n
      /\ Head(acts) \in Act /\ Head(acts) = acts[1]
      /\ al \in Seq(Act) /\ Len(al) = n - 1 /\ DOMAIN al = 1..n - 1
      /\ \A k \in 1..n - 1 : al[k] = acts[k + 1]
    BY HeadTailProperties DEF Actions
<1>2. \A k \in 1..n : f[k] \in Int
    BY DEF Price
<1>3. (\A k \in 1..n - 1 : g[k] = f[k + 1]) /\ f[1] = Price(Head(acts))
    BY <1>1
<1>4. ToPay(acts) = Sum(f, n) /\ ToPay(al) = Sum(g, n - 1)
    BY <1>1 DEF ToPay
<1>5. 1 \in DOMAIN acts /\ \A k \in DOMAIN al : k \in Nat /\ k >= 1 /\ k + 1 \in DOMAIN acts
                                                 /\ al[k] = acts[k + 1]
    BY <1>1
<1> HIDE DEF f, g, n, al
<1>6. Sum(f, n) = f[1] + Sum(g, n - 1)
    BY <1>1, <1>2, <1>3, SumFirst
<1>. QED
    BY <1>1, <1>3, <1>4, <1>5, <1>6 DEF al, n, Actions

(* The book: who waits for which redeem.                                   *)
LEMMA EntryIs ==
  /\ Flat \in Entry /\ Flat.status = "FLAT" /\ Flat.link = 0
  /\ Opened \in Entry /\ Opened.status = "OPEN" /\ Opened.link = 0
  /\ \A l \in Links : Redeeming(l) \in Entry /\ Redeeming(l).status = "REDEEMING"
                      /\ Redeeming(l).link = l /\ l # 0
BY DEF Entry, Flat, Opened, Redeeming, Links

LEMMA FlatBook == IsBook([s \in Coins |-> Flat])
  BY EntryIs DEF IsBook, Entry

LEMMA BookPut ==
  ASSUME NEW bk, IsBook(bk), NEW s \in Coins, NEW e \in Entry,
         e.status = "REDEEMING" <=> e.link # 0, e.link = 0 \/ e.link \notin LinksOf(bk)
  PROVE  IsBook([bk EXCEPT ![s] = e])
<1> DEFINE next == [bk EXCEPT ![s] = e]
<1>1. bk \in [Coins -> Entry] /\ next \in [Coins -> Entry]
    BY DEF IsBook, Entry
<1>2. next[s] = e /\ \A t \in Coins : t # s => next[t] = bk[t]
    BY <1>1
<1>3. \A t \in Coins : bk[t].link # 0 => bk[t].link \in LinksOf(bk)
    BY DEF LinksOf
<1> HIDE DEF next
<1>4. \A t \in Coins : next[t].status = "REDEEMING" <=> next[t].link # 0
    BY <1>2 DEF IsBook
<1>5. ASSUME NEW t \in Coins, NEW u \in Coins, t # u, next[t].link # 0
      PROVE  next[t].link # next[u].link
  <2>1. CASE t # s /\ u # s
      BY <1>2, <1>5, <2>1 DEF IsBook
  <2>2. CASE t = s
      BY <1>2, <1>3, <1>5, <2>2
  <2>3. CASE u = s
      BY <1>2, <1>3, <1>5, <2>3
  <2>. QED
      BY <2>1, <2>2, <2>3
<1>. QED
    BY <1>1, <1>4, <1>5 DEF IsBook, Entry, next

(* A cycle that ends makes its book a cycle older.                         *)
LEMMA BookAges ==
  ASSUME NEW bk, IsBook(bk)
  PROVE  IsBook([s \in Coins |-> IF bk[s].status = "REDEEMING" /\ bk[s].age < Timeout
                                 THEN [bk[s] EXCEPT !.age = @ + 1] ELSE bk[s]])
<1> DEFINE Older(e) == IF e.status = "REDEEMING" /\ e.age < Timeout
                       THEN [e EXCEPT !.age = @ + 1] ELSE e
           next == [s \in Coins |-> Older(bk[s])]
<1>1. \A e \in Entry : Older(e) \in Entry /\ Older(e).status = e.status /\ Older(e).link = e.link
    BY DEF Entry
<1>2. bk \in [Coins -> Entry]
    BY DEF IsBook, Entry
<1> HIDE DEF Older
<1>3. /\ next \in [Coins -> Entry]
      /\ \A s \in Coins : next[s].status = bk[s].status /\ next[s].link = bk[s].link
    BY <1>1, <1>2
<1> HIDE DEF next
<1>4. IsBook(next)
    BY <1>3 DEF IsBook, Entry
<1>. QED
    BY <1>4 DEF next, Older

-----------------------------------------------------------------------------
(* The plan, symbol by symbol.                                             *)
Viewed == [wallet : Nat, acct : BOOLEAN, at : SUBSET Coins, unread : SUBSET Coins,
           earn : BOOLEAN, adopt : BOOLEAN, says : [Coins -> Says]]
PlanSoFar == [free : Nat, notional : Nat, acts : Actions, next : [Coins -> Entry]]

(* What is planned for the symbols S is paid from what was read; with the  *)
(* buffer, when no position was read.                                      *)
Paid(v, p) ==
    /\ p.free + ToPay(p.acts) <= v.wallet
    /\ Priced(v) = {} /\ Entries(p.acts) # {} => p.free + ToPay(p.acts) + Buffer <= v.wallet
    /\ p.notional # 0 => Priced(v) # {} \/ Entries(p.acts) # {}
OnePer(v, p, S) ==
    /\ \A k \in DOMAIN p.acts : p.acts[k].kind # "RETURN" /\ p.acts[k].sym \in S
    /\ \A k \in Entries(p.acts) : p.acts[k].sym \notin v.at \cup v.unread
    /\ \A k, l \in Entries(p.acts) : p.acts[k].sym = p.acts[l].sym => k = l
Unseen(v, bk) == \A s \in v.unread : book[s].status = "OPEN" => bk[s].status = "OPEN"
Sound(v, p, S) ==
    /\ p \in PlanSoFar /\ IsBook(p.next)
    /\ Paid(v, p) /\ OnePer(v, p, S) /\ Unseen(v, p.next)

LEMMA EntriesAppend ==
  ASSUME NEW acts \in Actions, NEW a \in Act
  PROVE  /\ a.kind # "ENTER" => (Entries(Append(acts, a)) = {} <=> Entries(acts) = {})
         /\ a.kind = "ENTER" => Entries(Append(acts, a)) # {}
<1> DEFINE al == Append(acts, a)
<1>1. /\ al \in Seq(Act) /\ Len(al) = Len(acts) + 1 /\ Len(acts) \in Nat
      /\ \A k \in 1..Len(acts) : al[k] = acts[k]
      /\ al[Len(acts) + 1] = a
    BY AppendProperties DEF Actions
<1>2. DOMAIN al = 1..Len(acts) + 1 /\ DOMAIN acts = 1..Len(acts)
    BY <1>1 DEF Actions
<1> HIDE DEF al
<1>3. a.kind = "ENTER" => Len(acts) + 1 \in Entries(al)
    BY <1>1, <1>2 DEF Entries
<1>4. \A k \in Entries(acts) : k \in Entries(al)
    BY <1>1, <1>2 DEF Entries
<1>5. a.kind # "ENTER" => \A k \in Entries(al) : k \in Entries(acts)
    BY <1>1, <1>2 DEF Entries
<1>. QED
    BY <1>3, <1>4, <1>5 DEF al

LEMMA OnePerAppend ==
  ASSUME NEW v, NEW S, NEW p, NEW q, p.acts \in Actions, OnePer(v, p, S),
         NEW a \in Act, q.acts = Append(p.acts, a), a.kind # "RETURN", a.sym \notin S,
         a.kind = "ENTER" => a.sym \notin v.at \cup v.unread
  PROVE  OnePer(v, q, S \cup {a.sym})
<1> DEFINE old == p.acts
           new == q.acts
           n == Len(old) + 1
<1>1. \A k \in DOMAIN new : \/ k \in DOMAIN old /\ new[k] = old[k]
                            \/ k = n /\ new[k] = a
    BY AppendIs
<1>2. /\ \A k \in DOMAIN old : old[k].kind # "RETURN" /\ old[k].sym \in S
      /\ \A k \in Entries(old) : old[k].sym \notin v.at \cup v.unread
      /\ \A k, l \in Entries(old) : old[k].sym = old[l].sym => k = l
    BY DEF OnePer
<1> HIDE DEF old, new, n
<1>3. \A k \in DOMAIN new : new[k].kind # "RETURN" /\ new[k].sym \in S \cup {a.sym}
    BY <1>1, <1>2
<1>4. \A k \in Entries(new) : \/ k \in Entries(old) /\ new[k] = old[k] /\ old[k].sym \in S
                              \/ k = n /\ new[k] = a /\ a.kind = "ENTER"
    BY <1>1, <1>2 DEF Entries
<1>5. \A k \in Entries(new) : new[k].sym \notin v.at \cup v.unread
    BY <1>2, <1>4
<1>6. \A k, l \in Entries(new) : new[k].sym = new[l].sym => k = l
    BY <1>2, <1>4
<1>. QED
    BY <1>3, <1>5, <1>6 DEF OnePer, new

LEMMA PaidAppend ==
  ASSUME NEW v, NEW p, NEW q, p.acts \in Actions, Paid(v, p),
         NEW a \in Act, q.acts = Append(p.acts, a), a.kind # "ENTER",
         q.free = p.free, q.notional = p.notional
  PROVE  Paid(v, q)
<1>1. ToPay(q.acts) = ToPay(p.acts) + Price(a) /\ Price(a) = 0 /\ ToPay(p.acts) \in Nat
    BY ToPayAppend, ToPayNat DEF Price
<1>2. Entries(q.acts) = {} <=> Entries(p.acts) = {}
    BY EntriesAppend
<1>3. ToPay(q.acts) = ToPay(p.acts)
    BY <1>1
<1>. QED
    BY <1>2, <1>3 DEF Paid

LEMMA RequiredIs ==
  /\ \A n \in Nat : Required(n) \in Nat
  /\ Required(0) = Cost + Buffer
  /\ \A n \in Nat : n # 0 => Required(n) = Cost
BY DEF Required

LEMMA PaidEnter ==
  ASSUME NEW v \in Viewed, NEW p \in PlanSoFar, NEW q, Paid(v, p),
         NEW a \in Act, q.acts = Append(p.acts, a), a.kind = "ENTER",
         q.free = p.free - Required(p.notional), q.notional = p.notional + 1
  PROVE  Paid(v, q)
<1>1. p.acts \in Actions /\ p.free \in Nat /\ p.notional \in Nat /\ v.wallet \in Nat
    BY DEF PlanSoFar, Viewed
<1>2. ToPay(q.acts) = ToPay(p.acts) + Price(a) /\ Price(a) = Cost /\ ToPay(p.acts) \in Nat
    BY <1>1, ToPayAppend, ToPayNat DEF Price
<1>3. Entries(q.acts) # {}
    BY <1>1, EntriesAppend
<1>4. p.free + ToPay(p.acts) <= v.wallet
    BY DEF Paid
<1>5. CASE p.notional = 0
  <2>1. Required(p.notional) = Cost + Buffer
      BY <1>5, RequiredIs
  <2>2. q.free + ToPay(q.acts) + Buffer = p.free + ToPay(p.acts)
      BY <1>1, <1>2, <2>1
  <2>3. q.free + ToPay(q.acts) + Buffer <= v.wallet
      BY <1>4, <2>2
  <2>4. q.free \in Int /\ ToPay(q.acts) \in Int
      BY <1>1, <1>2, <2>1
  <2>5. q.free + ToPay(q.acts) <= v.wallet
      BY <1>1, <2>3, <2>4
  <2>. QED
      BY <1>3, <2>3, <2>5 DEF Paid
<1>6. CASE p.notional # 0
  <2>1. Required(p.notional) = Cost
      BY <1>1, <1>6, RequiredIs
  <2>2. q.free + ToPay(q.acts) = p.free + ToPay(p.acts)
      BY <1>1, <1>2, <2>1
  <2>3. Priced(v) = {} => p.free + ToPay(p.acts) + Buffer <= v.wallet
      BY <1>6 DEF Paid
  <2>. QED
      BY <1>3, <1>4, <2>2, <2>3 DEF Paid
<1>. QED
    BY <1>5, <1>6

(* The decisions.                                                          *)
LEMMA DecisionEnters ==
  ASSUME NEW v, NEW s, Decision(v, s) = "ENTER"
  PROVE  s \notin v.unread
BY DEF Decision

LEMMA FateIs ==
  ASSUME NEW v, NEW b, NEW d
  PROVE  /\ Fate(v, b, d) \in {"enter", "abandon", "wait"}
         /\ Fate(v, b, d) = "enter" => d = "ENTER"
BY DEF Fate

(* One step of the plan of a symbol.                                       *)
LEMMA SoundMore ==
  ASSUME NEW v, NEW p, NEW S, NEW T, Sound(v, p, S), S \subseteq T
  PROVE  Sound(v, p, T)
BY DEF Sound, OnePer

LEMMA SoundIs ==
  ASSUME NEW v, NEW p, NEW S, Sound(v, p, S)
  PROVE  /\ p \in PlanSoFar /\ p.free \in Nat /\ p.notional \in Nat /\ p.acts \in Actions
         /\ p.next \in [Coins -> Entry] /\ IsBook(p.next)
BY DEF Sound, PlanSoFar

LEMMA NextKeeps ==
  ASSUME NEW v, NEW bk, IsBook(bk), Unseen(v, bk), NEW s \in Coins, NEW e \in Entry,
         e.status = "REDEEMING" <=> e.link # 0, e.link = 0 \/ e.link \notin LinksOf(bk),
         s \in v.unread => book[s].status # "OPEN"
  PROVE  /\ [bk EXCEPT ![s] = e] \in [Coins -> Entry]
         /\ IsBook([bk EXCEPT ![s] = e]) /\ Unseen(v, [bk EXCEPT ![s] = e])
<1>1. IsBook([bk EXCEPT ![s] = e])
    BY BookPut
<1>2. bk \in [Coins -> Entry]
    BY DEF IsBook, Entry
<1>3. \A t \in v.unread : t # s => [bk EXCEPT ![s] = e][t] = bk[t]
    BY <1>2
<1>4. Unseen(v, [bk EXCEPT ![s] = e])
    BY <1>3 DEF Unseen
<1>. QED
    BY <1>1, <1>2, <1>4

LEMMA PutPlanned ==
  ASSUME NEW v, NEW p, NEW S, Sound(v, p, S), NEW s \in Coins, NEW e \in Entry,
         e.status = "REDEEMING" <=> e.link # 0, e.link = 0 \/ e.link \notin LinksOf(p.next),
         s \in v.unread => book[s].status # "OPEN"
  PROVE  Sound(v, [p EXCEPT !.next[s] = e], S)
<1> DEFINE q == [p EXCEPT !.next[s] = e]
           next == [p.next EXCEPT ![s] = e]
<1>1. next \in [Coins -> Entry] /\ IsBook(next) /\ Unseen(v, next)
    BY NextKeeps DEF Sound
<1>2. q.free = p.free /\ q.notional = p.notional /\ q.acts = p.acts /\ q.next = next
    BY DEF Sound, PlanSoFar
<1>3. q \in PlanSoFar
    BY <1>1, SoundIs DEF PlanSoFar
<1> HIDE DEF q, next
<1>4. Paid(v, q) /\ OnePer(v, q, S)
    BY <1>2 DEF Sound, Paid, OnePer
<1>5. Sound(v, q, S)
    BY <1>1, <1>2, <1>3, <1>4 DEF Sound
<1>. QED
    BY <1>5 DEF q

LEMMA ActPlanned ==
  ASSUME NEW v, NEW p, NEW S, Sound(v, p, S), NEW a \in Act,
         a.kind \in {"EXIT", "REDEEM"}, a.sym \notin S
  PROVE  Sound(v, [p EXCEPT !.acts = Append(@, a)], S \cup {a.sym})
<1> DEFINE q == [p EXCEPT !.acts = Append(@, a)]
           acts == Append(p.acts, a)
<1>1. acts \in Actions
    BY SoundIs, AppendIs
<1>2. q.free = p.free /\ q.notional = p.notional /\ q.acts = acts /\ q.next = p.next
    BY DEF Sound, PlanSoFar
<1>3. q \in PlanSoFar
    BY <1>1, SoundIs DEF PlanSoFar
<1> HIDE DEF q
<1>4. Paid(v, p) /\ OnePer(v, p, S) /\ p.acts \in Actions
    BY SoundIs DEF Sound
<1>5. Paid(v, q)
    BY <1>2, <1>4, PaidAppend
<1>6. OnePer(v, q, S \cup {a.sym})
    BY <1>2, <1>4, OnePerAppend
<1>7. Sound(v, q, S \cup {a.sym})
    BY <1>2, <1>3, <1>5, <1>6 DEF Sound
<1>. QED
    BY <1>7 DEF q

LEMMA EnterPlanned ==
  ASSUME NEW v \in Viewed, NEW p, NEW S, Sound(v, p, S), NEW s \in Coins, s \notin S,
         s \notin v.at \cup v.unread, p.free >= Required(p.notional)
  PROVE  Sound(v, PlanEnter(p, s), S \cup {s})
<1> DEFINE q == PlanEnter(p, s)
           a == [kind |-> "ENTER", sym |-> s]
           acts == Append(p.acts, a)
           next == [p.next EXCEPT ![s] = Flat]
<1>1. a \in Act /\ a.kind = "ENTER" /\ a.sym = s
    BY ActIs
<1>2. p.free \in Nat /\ p.notional \in Nat /\ p.acts \in Actions
    BY SoundIs
<1>3. next \in [Coins -> Entry] /\ IsBook(next) /\ Unseen(v, next)
    BY EntryIs, NextKeeps DEF Sound
<1>4. acts \in Actions
    BY <1>1, <1>2, AppendIs
<1>5. Required(p.notional) \in Nat
    BY <1>2, RequiredIs
<1>6. p.free - Required(p.notional) \in Nat /\ p.notional + 1 \in Nat
    BY <1>2, <1>5
<1>7. /\ q.free = p.free - Required(p.notional) /\ q.notional = p.notional + 1
      /\ q.acts = acts /\ q.next = next
    BY DEF Sound, PlanSoFar, PlanEnter
<1>8. q \in PlanSoFar
    BY <1>3, <1>4, <1>6 DEF Sound, PlanSoFar, PlanEnter
<1> HIDE DEF q, a, next, acts
<1>9. Paid(v, p) /\ OnePer(v, p, S) /\ p \in PlanSoFar
    BY DEF Sound
<1>10. Paid(v, q)
    BY <1>1, <1>7, <1>9, PaidEnter DEF acts
<1>11. OnePer(v, q, S \cup {a.sym})
    BY <1>1, <1>2, <1>7, <1>9, OnePerAppend DEF acts
<1>12. Sound(v, q, S \cup {s})
    BY <1>1, <1>3, <1>7, <1>8, <1>10, <1>11 DEF Sound
<1>. QED
    BY <1>12 DEF q

LEMMA LinkIs ==
  ASSUME NEW p, FreeLinks(p) # {}
  PROVE  LET l == CHOOSE x \in FreeLinks(p) : \A y \in FreeLinks(p) : x <= y
         IN l \in Links /\ l \in FreeLinks(p) /\ l \notin LinksOf(p.next)
<1>1. FreeLinks(p) \in SUBSET Nat
    BY DEF FreeLinks, Links
<1>2. \E x \in FreeLinks(p) : \A y \in FreeLinks(p) : x <= y
    BY <1>1, LeastNat
<1> DEFINE l == CHOOSE x \in FreeLinks(p) : \A y \in FreeLinks(p) : x <= y
<1>3. l \in FreeLinks(p)
    BY <1>2
<1> HIDE DEF l
<1>4. l \in Links /\ l \notin LinksOf(p.next)
    BY <1>3 DEF FreeLinks
<1>. QED
    BY <1>3, <1>4 DEF l

LEMMA RedeemPlanned ==
  ASSUME NEW v, NEW p, NEW S, Sound(v, p, S), NEW s \in Coins, s \notin S,
         s \in v.unread => book[s].status # "OPEN",
         p.free < Required(p.notional), staked \in 0..Stock,
         Required(p.notional) + Slack - p.free <= staked, FreeLinks(p) # {}
  PROVE  Sound(v, PlanRedeem(p, s), S \cup {s})
<1> DEFINE l == CHOOSE x \in FreeLinks(p) : \A y \in FreeLinks(p) : x <= y
           amount == Required(p.notional) + Slack - p.free
           a == [kind |-> "REDEEM", sym |-> s, link |-> l, amount |-> amount]
           q == [p EXCEPT !.next[s] = Redeeming(l)]
           r == [q EXCEPT !.acts = Append(@, a)]
<1>1. l \in Links /\ l \notin LinksOf(p.next)
    BY LinkIs
<1>2. p.free \in Nat /\ p.notional \in Nat /\ Required(p.notional) \in Nat
    BY SoundIs, RequiredIs
<1>3. amount \in 0..Stock
    BY <1>2
<1>4. PlanRedeem(p, s) = r
    BY SoundIs DEF PlanRedeem, PlanSoFar
<1> HIDE DEF l, amount
<1>5. a \in Act /\ a.kind = "REDEEM" /\ a.sym = s
    BY <1>1, <1>3 DEF Act
<1> HIDE DEF a
<1>6. Sound(v, q, S)
    BY <1>1, EntryIs, PutPlanned
<1> HIDE DEF q
<1>7. Sound(v, r, S \cup {s})
    BY <1>5, <1>6, ActPlanned
<1>. QED
    BY <1>4, <1>7

LEMMA FlatPlanned ==
  ASSUME NEW v, NEW p, NEW S, Sound(v, p, S), NEW s \in Coins,
         s \in v.unread => book[s].status # "OPEN"
  PROVE  Sound(v, [p EXCEPT !.next[s] = Flat], S \cup {s})
<1>1. Sound(v, [p EXCEPT !.next[s] = Flat], S)
    BY EntryIs, PutPlanned
<1>. QED
    BY <1>1, SoundMore

LEMMA WithFundsSound ==
  ASSUME NEW v \in Viewed, NEW p, NEW S, Sound(v, p, S), NEW s \in Coins, s \notin S,
         s \notin v.at \cup v.unread, staked \in 0..Stock
  PROVE  Sound(v, WithFunds(p, s), S \cup {s})
<1>1. p.free \in Nat /\ Required(p.notional) \in Nat
    BY SoundIs, RequiredIs
<1>2. CASE p.free >= Required(p.notional)
    BY <1>2, EnterPlanned DEF WithFunds
<1>3. CASE p.free < Required(p.notional)
  <2>1. ~(p.free >= Required(p.notional))
      BY <1>1, <1>3
  <2>2. CASE staked < Required(p.notional) + Slack - p.free \/ FreeLinks(p) = {}
      BY <2>1, <2>2, FlatPlanned DEF WithFunds
  <2>3. CASE ~(staked < Required(p.notional) + Slack - p.free \/ FreeLinks(p) = {})
    <3>1. Required(p.notional) + Slack - p.free <= staked /\ FreeLinks(p) # {}
        BY <1>1, <2>3
    <3>2. Sound(v, PlanRedeem(p, s), S \cup {s})
        BY <1>3, <3>1, RedeemPlanned
    <3>3. WithFunds(p, s) = PlanRedeem(p, s)
        BY <2>1, <2>3 DEF WithFunds
    <3>. QED
        BY <3>2, <3>3
  <2>. QED
      BY <2>2, <2>3
<1>. QED
    BY <1>1, <1>2, <1>3

LEMMA PlanFlatSound ==
  ASSUME NEW v \in Viewed, NEW p, NEW S, Sound(v, p, S), NEW s \in Coins, s \notin S,
         s \notin v.at, s \in v.unread => book[s].status # "OPEN", staked \in 0..Stock
  PROVE  Sound(v, PlanFlat(v, p, s), S \cup {s})
<1> DEFINE d == Decision(v, s)
           fate == IF p.next[s].status = "REDEEMING" THEN Fate(v, p.next[s], d)
                   ELSE IF d = "ENTER" THEN "enter" ELSE "wait"
<1>1. fate \in {"enter", "abandon", "wait"} /\ (fate = "enter" => d = "ENTER")
    BY FateIs
<1>2. PlanFlat(v, p, s) = CASE fate = "enter" -> WithFunds(p, s)
                            [] fate = "abandon" -> [p EXCEPT !.next[s] = Abandoned(p.next[s])]
                            [] fate = "wait" -> p
    BY DEF PlanFlat
<1> HIDE DEF fate
<1>3. CASE fate = "enter"
  <2>1. s \notin v.at \cup v.unread
      BY <1>1, <1>3, DecisionEnters
  <2>2. Sound(v, WithFunds(p, s), S \cup {s})
      BY <2>1, WithFundsSound
  <2>. QED
      BY <1>2, <1>3, <2>2
<1>4. CASE fate = "abandon"
    BY <1>2, <1>4, FlatPlanned DEF Abandoned
<1>5. CASE fate = "wait"
    BY <1>2, <1>5, SoundMore
<1>. QED
    BY <1>1, <1>3, <1>4, <1>5

LEMMA PlanSymbolSound ==
  ASSUME NEW v \in Viewed, NEW p, NEW S, Sound(v, p, S), NEW s \in Coins, s \notin S,
         staked \in 0..Stock
  PROVE  Sound(v, PlanSymbol(v, p, s), S \cup {s})
<1>1. CASE s \in Lost(v)
  <2>1. book[s].status # "OPEN"
      BY <1>1 DEF Lost
  <2>2. Sound(v, [p EXCEPT !.next[s] = Opened], S)
      BY <2>1, EntryIs, PutPlanned
  <2>. QED
      BY <1>1, <2>2, SoundMore DEF PlanSymbol
<1>2. CASE s \notin Lost(v) /\ book[s].status # "OPEN"
  <2>1. s \notin v.at
      BY <1>2 DEF Lost
  <2>2. Sound(v, PlanFlat(v, p, s), S \cup {s})
      BY <1>2, <2>1, PlanFlatSound
  <2>. QED
      BY <1>2, <2>2 DEF PlanSymbol
<1>3. CASE s \notin Lost(v) /\ book[s].status = "OPEN" /\ Went(v, s)
  <2>1. s \notin v.at /\ s \notin v.unread
      BY <1>3 DEF Went
  <2>2. Sound(v, [p EXCEPT !.next[s] = Flat], S)
      BY <2>1, EntryIs, PutPlanned
  <2>3. Sound(v, PlanFlat(v, [p EXCEPT !.next[s] = Flat], s), S \cup {s})
      BY <2>1, <2>2, PlanFlatSound
  <2>. QED
      BY <1>3, <2>3 DEF PlanSymbol
<1>4. CASE s \notin Lost(v) /\ book[s].status = "OPEN" /\ ~Went(v, s)
  <2>1. [kind |-> "EXIT", sym |-> s] \in Act
      BY ActIs
  <2>2. Sound(v, [p EXCEPT !.acts = Append(@, [kind |-> "EXIT", sym |-> s])], S \cup {s})
      BY <2>1, ActPlanned
  <2>. QED
      BY <1>4, <2>2, SoundMore DEF PlanSymbol
<1>. QED
    BY <1>1, <1>2, <1>3, <1>4

(* The plan for all symbols.                                               *)
Start(v) == [free |-> v.wallet, notional |-> Cardinality(Priced(v)), acts |-> <<>>, next |-> book]
Stated(f, v, n) ==
    /\ DOMAIN f = 0..n
    /\ f[0] = Start(v)
    /\ \A i \in 1..n : f[i] = PlanSymbol(v, f[i - 1], Symbols[i])

LEMMA FoldExists ==
  ASSUME NEW v, NEW n \in Nat
  PROVE  \E f : f = [i \in 0..n |-> f[i]] /\ Stated(f, v, n)
<1> DEFINE Good(f, k) == f = [i \in 0..k |-> f[i]] /\ Stated(f, v, k)
           S == {k \in 0..n : \E f : Good(f, k)}
<1>1. 0 \in S
  <2>1. Good([i \in 0..0 |-> Start(v)], 0)
      BY DEF Stated
  <2>. QED
      BY <2>1
<1>2. ASSUME NEW k \in 1..n, k - 1 \in S PROVE k \in S
  <2>1. PICK f : Good(f, k - 1)
      BY <1>2
  <2> DEFINE g == [i \in 0..k |-> IF i = k THEN PlanSymbol(v, f[k - 1], Symbols[k]) ELSE f[i]]
  <2>2. DOMAIN g = 0..k /\ g = [i \in 0..k |-> g[i]]
      OBVIOUS
  <2>3. g[0] = Start(v)
      BY <2>1 DEF Stated
  <2>4. ASSUME NEW i \in 1..k PROVE g[i] = PlanSymbol(v, g[i - 1], Symbols[i])
    <3>1. CASE i = k
      <4>1. g[i - 1] = f[k - 1]
          BY <3>1
      <4>. QED
          BY <3>1, <4>1
    <3>2. CASE i # k
      <4>1. i \in 1..k - 1 /\ g[i] = f[i] /\ g[i - 1] = f[i - 1]
          BY <3>2
      <4>. QED
          BY <2>1, <4>1 DEF Stated
    <3>. QED
        BY <3>1, <3>2
  <2> HIDE DEF g
  <2>5. Good(g, k)
      BY <2>2, <2>3, <2>4 DEF Stated
  <2>. QED
      BY <2>5
<1> HIDE DEF S
<1>3. n \in S
    BY <1>1, <1>2, UpTo
<1>. QED
    BY <1>3 DEF S

LEMMA StartIsSound ==
  ASSUME NEW v \in Viewed, IsBook(book)
  PROVE  Sound(v, Start(v), {})
<1>1. v.wallet \in Nat /\ v.at \in SUBSET Coins
    BY DEF Viewed
<1>2. Priced(v) \in SUBSET Coins
    BY <1>1 DEF Priced
<1>3. Cardinality(Priced(v)) \in Nat /\ (Cardinality(Priced(v)) = 0 <=> Priced(v) = {})
    BY <1>2, CountIs
<1>4. <<>> \in Actions /\ Entries(<<>>) = {}
    BY DEF Actions, Entries
<1>5. ToPay(<<>>) = 0
    BY <1>4, NothingToPay
<1>6. book \in [Coins -> Entry]
    BY DEF IsBook, Entry
<1> DEFINE p == Start(v)
<1>7. /\ p.free = v.wallet /\ p.notional = Cardinality(Priced(v)) /\ p.acts = <<>>
      /\ p.next = book /\ p \in PlanSoFar
    BY <1>1, <1>3, <1>4, <1>6 DEF Start, PlanSoFar
<1> HIDE DEF p
<1>8. Paid(v, p)
    BY <1>1, <1>3, <1>4, <1>5, <1>7 DEF Paid
<1>9. OnePer(v, p, {})
    BY <1>4, <1>7 DEF OnePer
<1>10. Unseen(v, p.next)
    BY <1>7 DEF Unseen
<1>11. Sound(v, p, {})
    BY <1>7, <1>8, <1>9, <1>10 DEF Sound
<1>. QED
    BY <1>11 DEF p

LEMMA EntriesAreSound ==
  ASSUME NEW v \in Viewed, IsBook(book), staked \in 0..Stock
  PROVE  Sound(v, PlanEntries(v), Coins)
<1> DEFINE n == Len(Symbols)
           Solves(f) == f = [i \in 0..n |-> IF i = 0 THEN Start(v)
                                            ELSE PlanSymbol(v, f[i - 1], Symbols[i])]
<1>1. n \in Nat
    BY SymbolsAre
<1>2. \E f : Solves(f)
  <2>1. PICK f : f = [i \in 0..n |-> f[i]] /\ Stated(f, v, n)
      BY <1>1, FoldExists
  <2>2. \A i \in 0..n : f[i] = IF i = 0 THEN Start(v) ELSE PlanSymbol(v, f[i - 1], Symbols[i])
    <3>1. \A i \in 0..n : i = 0 \/ i \in 1..n
        BY <1>1
    <3>2. f[0] = Start(v) /\ \A i \in 1..n : f[i] = PlanSymbol(v, f[i - 1], Symbols[i])
        BY <2>1, Zenon DEF Stated
    <3>3. \A i \in 1..n : i # 0
        BY <1>1
    <3>. QED
        BY <3>1, <3>2, <3>3, Zenon
  <2>3. Solves(f)
      BY <2>1, <2>2
  <2>. QED
      BY <2>3
<1> DEFINE f == CHOOSE f : Solves(f)
<1>3. Solves(f)
    BY <1>2
<1>4. PlanEntries(v) = f[n]
    BY DEF PlanEntries, Start
<1> HIDE DEF f
<1>5. f[0] = Start(v) /\ \A i \in 1..n : f[i] = PlanSymbol(v, f[i - 1], Symbols[i])
    BY <1>1, <1>3
<1> DEFINE Upto(k) == {Symbols[j] : j \in 1..k}
           S == {k \in 0..n : Sound(v, f[k], Upto(k))}
<1>6. 0 \in S
  <2>1. Upto(0) = {}
      OBVIOUS
  <2>2. Sound(v, f[0], {})
      BY <1>5, StartIsSound
  <2> HIDE DEF Upto
  <2>3. Sound(v, f[0], Upto(0))
      BY <2>1, <2>2
  <2>. QED
      BY <1>1, <2>3
<1>7. ASSUME NEW k \in 1..n, k - 1 \in S PROVE k \in S
  <2>1. k - 1 \in 0..n /\ k \in 0..n /\ Sound(v, f[k - 1], Upto(k - 1))
      BY <1>1, <1>7
  <2>2. Symbols[k] \in Coins /\ Symbols[k] \notin Upto(k - 1)
      BY <1>1, SymbolsAre
  <2>3. Upto(k - 1) \cup {Symbols[k]} \subseteq Upto(k)
      BY <1>1
  <2> HIDE DEF Upto
  <2>4. Sound(v, PlanSymbol(v, f[k - 1], Symbols[k]), Upto(k - 1) \cup {Symbols[k]})
      BY <2>1, <2>2, PlanSymbolSound
  <2>5. Sound(v, f[k], Upto(k - 1) \cup {Symbols[k]})
      BY <1>5, <2>4
  <2>6. Sound(v, f[k], Upto(k))
      BY <2>3, <2>5, SoundMore
  <2>. QED
      BY <2>1, <2>6
<1> HIDE DEF S
<1>8. 0..n \subseteq S
    BY <1>1, <1>6, <1>7, UpTo
<1>9. Upto(n) \subseteq Coins
    BY SymbolsAre
<1> HIDE DEF Upto
<1>10. Sound(v, f[n], Upto(n))
    BY <1>1, <1>8 DEF S
<1>11. Sound(v, f[n], Coins)
    BY <1>9, <1>10, SoundMore
<1>. QED
    BY <1>4, <1>11

(* The whole plan, which is the entries' or the return of what is idle.    *)
Promised(v, acts, next) ==
    /\ ToPay(acts) <= v.wallet
    /\ Priced(v) = {} /\ Entries(acts) # {} => ToPay(acts) + Buffer <= v.wallet
    /\ \A k \in Entries(acts) : acts[k].sym \notin v.at \cup v.unread
    /\ \A k, l \in Entries(acts) : acts[k].sym = acts[l].sym => k = l
    /\ \A k \in DOMAIN acts : acts[k].kind = "RETURN" =>
          Len(acts) = 1 /\ acts[k].amount = v.wallet - Keep(v, next) /\ acts[k].amount >= 0
    /\ Unseen(v, next)

LEMMA OneReturn ==
  ASSUME NEW amount \in 0..Stock
  PROVE  LET acts == <<[kind |-> "RETURN", amount |-> amount]>>
         IN /\ acts \in Actions /\ DOMAIN acts = {1} /\ Len(acts) = 1
            /\ acts[1].kind = "RETURN" /\ acts[1].amount = amount
            /\ Entries(acts) = {} /\ ToPay(acts) = 0
<1> DEFINE a == [kind |-> "RETURN", amount |-> amount]
           acts == <<a>>
<1>1. a \in Act /\ a.kind = "RETURN" /\ a.amount = amount
    BY ActIs
<1> HIDE DEF a
<1>2. acts \in Seq(Act) /\ Len(acts) = 1 /\ acts[1] = a /\ DOMAIN acts = {1}
    BY <1>1
<1>3. Entries(acts) = {}
    BY <1>1, <1>2 DEF Entries
<1>4. ToPay(acts) = 0
    BY <1>2, <1>3, NothingToPay DEF Actions
<1>. QED
    BY <1>1, <1>2, <1>3, <1>4 DEF Actions, a

LEMMA PlanIs ==
  ASSUME NEW v \in Viewed, IsBook(book), staked \in 0..Stock, v.wallet <= Stock
  PROVE  LET p == Plan(v)
         IN p.acts \in Actions /\ IsBook(p.next) /\ Promised(v, p.acts, p.next)
<1> DEFINE p == PlanEntries(v)
           amount == v.wallet - Keep(v, p.next)
           acts == <<[kind |-> "RETURN", amount |-> amount]>>
           r == [p EXCEPT !.acts = acts]
<1>1. Sound(v, p, Coins)
    BY EntriesAreSound
<1>2. Plan(v) = IF MayReturn(v, p) THEN r ELSE p
    BY DEF Plan
<1>3. /\ p \in PlanSoFar /\ p.acts \in Actions /\ p.free \in Nat /\ v.wallet \in Nat
      /\ ToPay(p.acts) \in Nat /\ IsBook(p.next) /\ Unseen(v, p.next)
    BY <1>1, SoundIs, ToPayNat DEF Sound, Viewed
<1> HIDE DEF p
<1>4. CASE ~MayReturn(v, p)
  <2>1. /\ p.free + ToPay(p.acts) <= v.wallet
        /\ Priced(v) = {} /\ Entries(p.acts) # {} => p.free + ToPay(p.acts) + Buffer <= v.wallet
      BY <1>1 DEF Sound, Paid
  <2>2. ToPay(p.acts) <= v.wallet
      BY <1>3, <2>1
  <2>3. Priced(v) = {} /\ Entries(p.acts) # {} => ToPay(p.acts) + Buffer <= v.wallet
      BY <1>3, <2>1
  <2>4. Promised(v, p.acts, p.next)
      BY <1>1, <1>3, <2>2, <2>3 DEF Promised, Sound, OnePer
  <2>. QED
      BY <1>2, <1>3, <1>4, <2>4
<1>5. CASE MayReturn(v, p)
  <2>1. Keep(v, p.next) \in Nat
      BY DEF Keep
  <2>2. amount >= MinReturn
      BY <1>5 DEF MayReturn
  <2>3. amount \in 0..Stock
      BY <1>3, <2>1, <2>2
  <2>4. /\ r.acts = acts /\ r.next = p.next
      BY <1>3 DEF PlanSoFar
  <2> HIDE DEF r
  <2>5. /\ acts \in Actions /\ DOMAIN acts = {1} /\ Len(acts) = 1
        /\ acts[1].kind = "RETURN" /\ acts[1].amount = amount
        /\ Entries(acts) = {} /\ ToPay(acts) = 0
      BY <2>3, OneReturn
  <2> HIDE DEF acts
  <2>6. Promised(v, acts, p.next)
      BY <1>3, <2>3, <2>5 DEF Promised
  <2>7. Plan(v) = r
      BY <1>2, <1>5
  <2>. QED
      BY <1>3, <2>4, <2>5, <2>6, <2>7
<1>. QED
    BY <1>4, <1>5

-----------------------------------------------------------------------------
(* The steps.                                                              *)
LEMMA FundsAre ==
  ASSUME IInv
  PROVE  /\ wallet \in Nat /\ staked \in 0..Stock /\ staking \in 0..Stock /\ order \in Orders
         /\ open \in SUBSET Coins /\ IsBook(book) /\ IsBook(cyc.next) /\ cyc \in Cycles
         /\ gone \in BOOLEAN /\ hidden \in BOOLEAN /\ faults \in 0..MaxFaults
         /\ Pending(order) \in Nat /\ Invested(open) \in Nat
         /\ wallet + staked + staking + Pending(order) + Invested(open) <= Stock
         /\ wallet <= Stock
<1>1. /\ wallet \in Nat /\ staked \in 0..Stock /\ staking \in 0..Stock /\ order \in Orders
      /\ open \in SUBSET Coins /\ IsBook(book) /\ IsBook(cyc.next) /\ cyc \in Cycles
      /\ gone \in BOOLEAN /\ hidden \in BOOLEAN /\ faults \in 0..MaxFaults
    BY DEF IInv, FundsTypeOK, Whole, Orders, EarnOrder
<1>2. Pending(order) \in Nat /\ Invested(open) \in Nat
    BY <1>1, PendingIs, CountIs
<1>3. wallet + staked + staking + Pending(order) + Invested(open) <= Stock
    BY DEF IInv, Conserved
<1>4. wallet <= Stock
    BY <1>1, <1>2, <1>3
<1>. QED
    BY <1>1, <1>2, <1>3, <1>4

LEMMA CyclesAre ==
  ASSUME NEW c \in Cycles
  PROVE  /\ c.pc \in {"off", "read", "act"} /\ c.acts \in Actions /\ c.next \in [Coins -> Entry]
         /\ c.read \in [wallet : Int, acct : BOOLEAN, at : SUBSET Coins, unread : SUBSET Coins]
BY DEF Cycles

(* What is to be shown of a step.                                          *)
Typed ==
    /\ wallet \in Nat /\ staked \in 0..Stock /\ staking \in 0..Stock /\ order \in Orders
    /\ open \in SUBSET Coins /\ IsBook(book) /\ IsBook(cyc.next) /\ cyc \in Cycles
    /\ gone \in BOOLEAN /\ hidden \in BOOLEAN /\ faults \in 0..MaxFaults

LEMMA Together ==
  ASSUME Typed', cyc'.pc # "act" => cyc'.acts = <<>>, Conserved', Known', Buffered',
         Covered(cyc.acts)'
  PROVE  IInv'
<1>1. FundsTypeOK'
    BY CyclesAre DEF Typed, FundsTypeOK, Actions, Orders, EarnOrder
<1>. QED
    BY <1>1 DEF IInv, Whole, Typed

(* Earn's steps only add to the wallet.                                    *)
LEMMA EarnSteps ==
  ASSUME IInv, UNCHANGED <<open, book, cyc, hidden>>,
         wallet' \in Nat, wallet' >= wallet, staked' \in 0..Stock, staking' \in 0..Stock,
         order' \in Orders, gone' \in BOOLEAN, faults' \in 0..MaxFaults,
         wallet' + staked' + staking' + Pending(order') + Invested(open) <= Stock
  PROVE  IInv'
<1> DEFINE acts == cyc.acts
<1>1. wallet \in Nat /\ acts \in Actions /\ ToPay(acts) \in Nat /\ cyc \in Cycles
    BY FundsAre, CyclesAre, ToPayNat
<1>2. Typed'
    BY FundsAre DEF Typed
<1>3. cyc'.pc # "act" => cyc'.acts = <<>>
    BY DEF IInv, Whole
<1>4. Conserved'
    BY DEF Conserved, Pending, Invested
<1>5. Known'
  <2>1. Known /\ cyc.read.wallet \in Int
      BY <1>1 DEF IInv, Cycles
  <2>. QED
      BY <1>1, <2>1 DEF Known
<1>6. Buffered'
    BY <1>1 DEF IInv, Buffered
<1>7. Covered(acts)'
  <2>1. /\ wallet >= ToPay(acts)
        /\ open = {} /\ Entries(acts) # {} => wallet >= ToPay(acts) + Buffer
        /\ \A k \in Entries(acts) : acts[k].sym \notin open
        /\ \A k, l \in Entries(acts) : acts[k].sym = acts[l].sym => k = l
      BY DEF IInv, Covered
  <2>2. \A k \in DOMAIN acts : acts[k].kind = "RETURN" =>
            /\ Len(acts) = 1 /\ acts[k].amount <= wallet
            /\ Cardinality(open) = 1 => wallet - acts[k].amount >= Buffer \/ hidden
      BY DEF IInv, Covered
  <2>3. \A k \in DOMAIN acts : acts[k].kind = "RETURN" => acts[k].amount \in Nat
    <3>1. \A k \in DOMAIN acts : acts[k] \in Act
        BY <1>1, ActsAre
    <3>. QED
        BY <3>1, ActIs
  <2>4. acts' = acts
      OBVIOUS
  <2> HIDE DEF acts
  <2>5. wallet' >= ToPay(acts) /\ (open = {} /\ Entries(acts) # {} => wallet' >= ToPay(acts) + Buffer)
      BY <1>1, <2>1
  <2>6. \A k \in DOMAIN acts : acts[k].kind = "RETURN" =>
            /\ Len(acts) = 1 /\ acts[k].amount <= wallet'
            /\ Cardinality(open) = 1 => wallet' - acts[k].amount >= Buffer \/ hidden
      BY <1>1, <2>2, <2>3
  <2>. QED
      BY <2>1, <2>4, <2>5, <2>6 DEF Covered, Entries, ToPay
<1>. QED
    BY <1>2, <1>3, <1>4, <1>5, <1>6, <1>7, Together

LEMMA EndedIs ==
  ASSUME IInv, NEW l \in Links, NEW state \in {"done", "failed"}, Ended(l, state)
  PROVE  /\ order' \in Orders /\ order[l].amount \in 0..Stock
         /\ Pending(order') = Pending(order) - order[l].amount
         /\ order[l].amount <= Pending(order)
<1> DEFINE o == IF l \in Named THEN [NoOrder EXCEPT !.state = state] ELSE NoOrder
<1>1. o \in EarnOrder /\ Due(o) = 0
    BY DueIs
<1> HIDE DEF o
<1>2. order \in Orders /\ Pending(order) \in Nat
    BY FundsAre
<1>3. order[l] \in EarnOrder
    BY <1>2 DEF Orders
<1>4. order[l].amount \in 0..Stock /\ Due(order[l]) = order[l].amount
    BY <1>3, DueIs DEF Ended, Due
<1>5. order' = [order EXCEPT ![l] = o]
    BY DEF Ended, o
<1>6. /\ [order EXCEPT ![l] = o] \in Orders
      /\ Pending([order EXCEPT ![l] = o]) = Pending(order) + Due(o) - Due(order[l])
    BY <1>1, <1>2, PendingChange
<1>7. Due(order[l]) <= Pending(order)
    BY <1>2, PendingIs
<1>8. order' \in Orders /\ Pending(order') = Pending(order) + Due(o) - Due(order[l])
    BY <1>5, <1>6
<1>. QED
    BY <1>1, <1>2, <1>4, <1>7, <1>8

LEMMA RedeemEndsKeeps == ASSUME IInv, NEW l \in Links, RedeemEnds(l) PROVE IInv'
<1>1. Ended(l, "done") /\ wallet' = wallet + order[l].amount
      /\ UNCHANGED <<staked, staking, open, book, cyc, gone, hidden, faults>>
    BY DEF RedeemEnds
<1>2. /\ order' \in Orders /\ order[l].amount \in 0..Stock
      /\ Pending(order') = Pending(order) - order[l].amount
    BY <1>1, EndedIs
<1>3. wallet' + staked' + staking' + Pending(order') + Invested(open) <= Stock
    BY <1>1, <1>2, FundsAre
<1>. QED
    BY <1>1, <1>2, <1>3, FundsAre, EarnSteps

LEMMA FaultIs == ASSUME IInv, Fault PROVE faults' \in 0..MaxFaults
  BY FundsAre DEF Fault

LEMMA RedeemFailsKeeps == ASSUME IInv, NEW l \in Links, RedeemFails(l) PROVE IInv'
<1>1. Ended(l, "failed") /\ staked' = staked + order[l].amount /\ faults' \in 0..MaxFaults
      /\ UNCHANGED <<wallet, staking, open, book, cyc, gone, hidden>>
    BY FaultIs DEF RedeemFails
<1>2. /\ order' \in Orders /\ order[l].amount \in 0..Stock
      /\ Pending(order') = Pending(order) - order[l].amount
      /\ order[l].amount <= Pending(order)
    BY <1>1, EndedIs
<1>3. wallet' + staked' + staking' + Pending(order') + Invested(open) <= Stock
    BY <1>1, <1>2, FundsAre
<1>4. staked' \in 0..Stock
    BY <1>1, <1>2, FundsAre
<1>. QED
    BY <1>1, <1>2, <1>3, <1>4, FundsAre, EarnSteps

LEMMA StakeEndsKeeps == ASSUME IInv, StakeEnds PROVE IInv'
<1>1. staking' = 0 /\ staked' = staked + staking
      /\ UNCHANGED <<wallet, order, open, book, cyc, gone, hidden, faults>>
    BY DEF StakeEnds
<1>2. wallet' + staked' + staking' + Pending(order') + Invested(open) <= Stock
    BY <1>1, FundsAre
<1>3. staked' \in 0..Stock /\ staking' \in 0..Stock
    BY <1>1, FundsAre
<1>. QED
    BY <1>1, <1>2, <1>3, FundsAre, EarnSteps

LEMMA StakeFailsKeeps == ASSUME IInv, StakeFails PROVE IInv'
<1>1. staking' = 0 /\ wallet' = wallet + staking /\ faults' \in 0..MaxFaults
      /\ UNCHANGED <<staked, order, open, book, cyc, gone, hidden>>
    BY FaultIs DEF StakeFails
<1>2. wallet' + staked' + staking' + Pending(order') + Invested(open) <= Stock
    BY <1>1, FundsAre
<1>3. staking' \in 0..Stock /\ wallet' \in Nat /\ wallet' >= wallet
    BY <1>1, FundsAre
<1>. QED
    BY <1>1, <1>2, <1>3, FundsAre, EarnSteps

LEMMA ConditionsGoKeeps == ASSUME IInv, ConditionsGo PROVE IInv'
<1>1. gone' \in BOOLEAN /\ UNCHANGED <<wallet, earn, open, book, cyc, hidden, faults>>
    BY DEF ConditionsGo
<1>2. wallet' + staked' + staking' + Pending(order') + Invested(open) <= Stock
    BY <1>1, FundsAre DEF earn
<1>. QED
    BY <1>1, <1>2, FundsAre, EarnSteps DEF earn

LEMMA StutterKeeps == ASSUME IInv, UNCHANGED vars PROVE IInv'
<1>1. UNCHANGED <<wallet, earn, open, book, cyc, gone, hidden, faults>>
    BY DEF vars
<1>2. wallet' + staked' + staking' + Pending(order') + Invested(open) <= Stock
    BY <1>1, FundsAre DEF earn
<1>. QED
    BY <1>1, <1>2, FundsAre, EarnSteps DEF earn

(* Reading the account, and Earn.                                          *)
LEMMA NoActs ==
  ASSUME NEW acts, acts = <<>>
  PROVE  acts \in Actions /\ DOMAIN acts = {} /\ Entries(acts) = {} /\ ToPay(acts) = 0
<1>1. acts \in Actions /\ DOMAIN acts = {} /\ Entries(acts) = {}
    BY DEF Actions, Entries
<1>. QED
    BY <1>1, NothingToPay

LEMMA NothingCovered ==
  ASSUME wallet' \in Nat, cyc'.acts = <<>>
  PROVE  Covered(cyc.acts)'
<1>1. /\ DOMAIN cyc'.acts = {} /\ Entries(cyc'.acts) = {} /\ ToPay(cyc'.acts) = 0
    BY NoActs
<1>. QED
    BY <1>1 DEF Covered, Entries, ToPay

LEMMA ReadAccountKeeps == ASSUME IInv, ReadAccount PROVE IInv'
<1>1. PICK unread \in SUBSET Coins, acct \in BOOLEAN :
        /\ IF unread = {} /\ acct THEN UNCHANGED faults ELSE Fault
        /\ cyc' = [cyc EXCEPT !.pc = "read", !.next = book,
                     !.read = [wallet |-> IF acct THEN wallet ELSE 0, acct |-> acct,
                               at |-> open \ unread, unread |-> unread]]
    BY DEF ReadAccount
<1>2. cyc.pc = "off" /\ UNCHANGED <<wallet, earn, open, book, gone, hidden>>
    BY DEF ReadAccount
<1> DEFINE read == [wallet |-> IF acct THEN wallet ELSE 0, acct |-> acct,
                    at |-> open \ unread, unread |-> unread]
<1>3. /\ read \in [wallet : Int, acct : BOOLEAN, at : SUBSET Coins, unread : SUBSET Coins]
      /\ read.wallet \in 0..wallet /\ read.at = open \ read.unread
    BY FundsAre
<1>4. book \in [Coins -> Entry] /\ IsBook(book) /\ cyc \in Cycles
    BY FundsAre DEF IsBook, Entry
<1>5. cyc.acts = <<>>
    BY <1>2 DEF IInv, Whole
<1>6. cyc' = [cyc EXCEPT !.pc = "read", !.next = book, !.read = read]
    BY <1>1
<1> HIDE DEF read
<1>7. cyc' \in Cycles /\ cyc'.pc = "read" /\ cyc'.next = book /\ cyc'.read = read /\ cyc'.acts = <<>>
    BY <1>3, <1>4, <1>5, <1>6 DEF Cycles
<1>8. faults' \in 0..MaxFaults
    BY <1>1, FundsAre, FaultIs
<1>9. Typed'
    BY <1>2, <1>4, <1>7, <1>8, FundsAre DEF Typed, earn
<1>10. Conserved' /\ Buffered'
    BY <1>2 DEF IInv, Conserved, Pending, Invested, Buffered, earn
<1>11. Known'
    BY <1>2, <1>3, <1>7 DEF Known
<1>12. Covered(cyc.acts)'
    BY <1>2, <1>7, FundsAre, NothingCovered
<1>. QED
    BY <1>7, <1>9, <1>10, <1>11, <1>12, Together

LEMMA ViewsAre ==
  ASSUME IInv, cyc.pc = "read", NEW v \in Views
  PROVE  /\ v \in Viewed /\ v.wallet \in Nat /\ v.wallet <= wallet /\ v.wallet <= Stock
         /\ v.at = open \ v.unread
<1>1. cyc.read.wallet \in 0..wallet /\ cyc.read.at = open \ cyc.read.unread
    BY DEF IInv, Known
<1>2. PICK e \in BOOLEAN, a \in BOOLEAN, says \in [Coins -> Says] :
        v = [wallet |-> cyc.read.wallet, acct |-> cyc.read.acct, at |-> cyc.read.at,
             unread |-> cyc.read.unread, earn |-> e, adopt |-> a, says |-> says]
  <2>1. [Coins -> IF gone THEN Says \ {"ENTER"} ELSE Says] \subseteq [Coins -> Says]
      OBVIOUS
  <2>. QED
      BY <2>1 DEF Views
<1>3. cyc.read \in [wallet : Int, acct : BOOLEAN, at : SUBSET Coins, unread : SUBSET Coins]
    BY FundsAre, CyclesAre
<1>4. v.wallet = cyc.read.wallet /\ v.at = cyc.read.at /\ v.unread = cyc.read.unread
    BY <1>2
<1>5. wallet \in Nat /\ wallet <= Stock
    BY FundsAre
<1>6. v.wallet \in Nat /\ v.wallet <= wallet /\ v.wallet <= Stock
    BY <1>1, <1>4, <1>5
<1>7. v \in Viewed
    BY <1>2, <1>3, <1>4, <1>6 DEF Viewed
<1>. QED
    BY <1>1, <1>4, <1>6, <1>7

(* One position open: what is kept is the buffer, or the position is       *)
(* hidden.                                                                 *)
LEMMA Kept ==
  ASSUME NEW v, v.at = open \ v.unread, NEW bk, Unseen(v, bk), open \in SUBSET Coins, open # {},
         ~ \E s \in open \cap v.unread : book[s].status # "OPEN"
  PROVE  Keep(v, bk) = Buffer
<1>1. CASE v.at # {}
    BY <1>1 DEF Keep
<1>2. CASE v.at = {}
  <2>1. PICK s \in open : s \in v.unread
      BY <1>2
  <2>2. bk[s].status = "OPEN" /\ s \in Coins
      BY <2>1 DEF Unseen
  <2>3. "OPEN" \in Statuses(bk)
      BY <2>2 DEF Statuses
  <2>. QED
      BY <2>3 DEF Keep
<1>. QED
    BY <1>1, <1>2

LEMMA PromiseHolds ==
  ASSUME NEW v, NEW acts \in Actions, NEW next, Promised(v, acts, next),
         v.wallet \in Nat, wallet \in Nat, v.wallet <= wallet,
         v.at = open \ v.unread, open \in SUBSET Coins,
         UNCHANGED <<wallet, open>>, cyc'.acts = acts,
         hidden' = (hidden \/ \E s \in open \cap v.unread : book[s].status # "OPEN")
  PROVE  Covered(cyc.acts)'
<1>1. /\ ToPay(acts) <= v.wallet
      /\ Priced(v) = {} /\ Entries(acts) # {} => ToPay(acts) + Buffer <= v.wallet
      /\ \A k \in Entries(acts) : acts[k].sym \notin v.at \cup v.unread
      /\ \A k, l \in Entries(acts) : acts[k].sym = acts[l].sym => k = l
      /\ \A k \in DOMAIN acts : acts[k].kind = "RETURN" =>
            Len(acts) = 1 /\ acts[k].amount = v.wallet - Keep(v, next) /\ acts[k].amount >= 0
      /\ Unseen(v, next)
    BY DEF Promised
<1>2. ToPay(acts) \in Nat
    BY ToPayNat
<1>3. wallet >= ToPay(acts)
    BY <1>1, <1>2
<1>4. open = {} /\ Entries(acts) # {} => wallet >= ToPay(acts) + Buffer
  <2>1. open = {} => Priced(v) = {}
      BY DEF Priced
  <2>2. open = {} /\ Entries(acts) # {} => ToPay(acts) + Buffer <= v.wallet
      BY <1>1, <2>1
  <2>. QED
      BY <1>2, <2>2
<1>5. \A k \in Entries(acts) : acts[k].sym \notin open
    BY <1>1
<1>6. ASSUME NEW k \in DOMAIN acts, acts[k].kind = "RETURN"
      PROVE  /\ Len(acts) = 1 /\ acts[k].amount <= wallet
             /\ Cardinality(open) = 1 => wallet - acts[k].amount >= Buffer \/ hidden'
  <2>1. /\ Len(acts) = 1 /\ acts[k].amount = v.wallet - Keep(v, next) /\ Keep(v, next) \in Nat
      BY <1>1, <1>6 DEF Keep
  <2>2. acts[k].amount <= wallet /\ wallet - acts[k].amount >= Keep(v, next)
      BY <2>1
  <2>3. Cardinality(open) = 1 => open # {}
      BY CountIs
  <2>4. Cardinality(open) = 1 /\ ~hidden' => Keep(v, next) = Buffer
      BY <1>1, <2>3, Kept
  <2>. QED
      BY <2>1, <2>2, <2>4
<1>. QED
    BY <1>1, <1>3, <1>4, <1>5, <1>6 DEF Covered, Entries, ToPay

LEMMA ReadEarnAndPlanKeeps == ASSUME IInv, ReadEarnAndPlan PROVE IInv'
<1>1. PICK v \in Views :
        /\ IF v.earn THEN UNCHANGED faults ELSE Fault
        /\ \E p \in {Plan(v)} :
              cyc' = [cyc EXCEPT !.pc = "act", !.read = NotRead, !.acts = p.acts, !.next = p.next]
        /\ hidden' = (hidden \/ \E s \in open \cap v.unread : book[s].status # "OPEN")
    BY DEF ReadEarnAndPlan
<1>2. cyc.pc = "read" /\ UNCHANGED <<wallet, earn, open, book, gone>>
    BY DEF ReadEarnAndPlan
<1>3. /\ v \in Viewed /\ v.wallet \in Nat /\ v.wallet <= wallet /\ v.wallet <= Stock
      /\ v.at = open \ v.unread
    BY <1>2, ViewsAre
<1> DEFINE acts == Plan(v).acts
           next == Plan(v).next
<1>4. cyc' = [cyc EXCEPT !.pc = "act", !.read = NotRead, !.acts = acts, !.next = next]
    BY <1>1
<1>5. acts \in Actions /\ IsBook(next) /\ Promised(v, acts, next)
    BY <1>3, FundsAre, PlanIs
<1> HIDE DEF acts, next
<1>6. cyc \in Cycles /\ next \in [Coins -> Entry]
    BY <1>5, FundsAre DEF IsBook, Entry
<1>7. NotRead \in [wallet : Int, acct : BOOLEAN, at : SUBSET Coins, unread : SUBSET Coins]
    BY DEF NotRead
<1>8. cyc' \in Cycles /\ cyc'.pc = "act" /\ cyc'.acts = acts /\ cyc'.next = next
    BY <1>4, <1>5, <1>6, <1>7 DEF Cycles
<1>9. faults' \in 0..MaxFaults
    BY <1>1, FundsAre, FaultIs
<1>10. hidden' \in BOOLEAN
    BY <1>1, FundsAre
<1>11. Typed'
    BY <1>2, <1>5, <1>8, <1>9, <1>10, FundsAre DEF Typed, earn
<1>12. Conserved'
    BY <1>2 DEF IInv, Conserved, Pending, Invested, earn
<1>13. Buffered'
    BY <1>1, <1>2 DEF IInv, Buffered
<1>14. Known'
    BY <1>8 DEF Known
<1>15. Covered(cyc.acts)'
    BY <1>1, <1>2, <1>3, <1>5, <1>8, FundsAre, PromiseHolds
<1>. QED
    BY <1>8, <1>11, <1>12, <1>13, <1>14, <1>15, Together

(* One action done.                                                        *)
LEMMA DoneIs ==
  ASSUME IInv, NEW kind, Acts(kind), NEW next \in [Coins -> Entry], Done(next)
  PROVE  /\ cyc' \in Cycles /\ cyc.pc = "act" /\ cyc'.pc = "act" /\ cyc'.acts = Tail(cyc.acts)
         /\ cyc'.next = next /\ cyc.acts \in Actions /\ cyc.acts # <<>>
         /\ Now \in Act /\ Now = cyc.acts[1] /\ Now.kind = kind /\ 1 \in DOMAIN cyc.acts
<1>1. cyc \in Cycles /\ cyc.acts \in Actions /\ cyc.acts # <<>> /\ cyc.pc = "act" /\ Now.kind = kind
    BY FundsAre, CyclesAre DEF Acts, Now
<1>2. /\ Now \in Act /\ Now = cyc.acts[1] /\ 1 \in DOMAIN cyc.acts
      /\ Tail(cyc.acts) \in Actions
    BY <1>1, ActsTail DEF Now
<1>3. cyc' = [cyc EXCEPT !.acts = Tail(cyc.acts), !.next = next]
    BY DEF Done
<1>4. cyc' \in Cycles /\ cyc'.pc = cyc.pc /\ cyc'.acts = Tail(cyc.acts) /\ cyc'.next = next
    BY <1>1, <1>2, <1>3 DEF Cycles
<1>. QED
    BY <1>1, <1>2, <1>4

(* What the rest of the plan needs.                                        *)
LEMMA RestIs ==
  ASSUME NEW acts \in Actions, acts # <<>>, Covered(acts)
  PROVE  LET rest == Tail(acts)
         IN /\ ToPay(acts) = Price(Head(acts)) + ToPay(rest) /\ ToPay(rest) \in Nat
            /\ Entries(rest) # {} => Entries(acts) # {}
            /\ \A k \in Entries(rest) : /\ rest[k].sym \notin open
                                        /\ Head(acts).kind = "ENTER" => rest[k].sym # Head(acts).sym
            /\ \A k, l \in Entries(rest) : rest[k].sym = rest[l].sym => k = l
            /\ \A k \in DOMAIN rest : rest[k].kind # "RETURN"
            /\ acts[1].kind = "RETURN" => Entries(rest) = {}
<1> DEFINE rest == Tail(acts)
<1>1. /\ Head(acts) = acts[1] /\ 1 \in DOMAIN acts /\ rest \in Actions
      /\ Len(rest) = Len(acts) - 1 /\ Len(acts) \in Nat
      /\ ToPay(acts) = Price(Head(acts)) + ToPay(rest)
      /\ \A k \in DOMAIN rest : k \in Nat /\ k >= 1 /\ k + 1 \in DOMAIN acts
                                /\ rest[k] = acts[k + 1]
    BY ActsTail
<1>2. DOMAIN rest = 1..Len(rest)
    BY <1>1 DEF Actions
<1>3. ToPay(rest) \in Nat
    BY <1>1, ToPayNat
<1> HIDE DEF rest
<1>4. /\ \A k \in Entries(acts) : acts[k].sym \notin open
      /\ \A k, l \in Entries(acts) : acts[k].sym = acts[l].sym => k = l
      /\ \A k \in DOMAIN acts : acts[k].kind = "RETURN" => Len(acts) = 1
    BY DEF Covered
<1>5. \A k \in Entries(rest) : k \in Nat /\ k >= 1 /\ k + 1 \in Entries(acts) /\ rest[k] = acts[k + 1]
    BY <1>1 DEF Entries
<1>6. Head(acts).kind = "ENTER" => 1 \in Entries(acts)
    BY <1>1 DEF Entries
<1>7. ASSUME NEW k \in Entries(rest)
      PROVE  /\ rest[k].sym \notin open
             /\ Head(acts).kind = "ENTER" => rest[k].sym # Head(acts).sym
  <2>1. k + 1 # 1 /\ k + 1 \in Entries(acts) /\ rest[k] = acts[k + 1]
      BY <1>5
  <2>. QED
      BY <1>1, <1>4, <1>6, <2>1
<1>8. ASSUME NEW k \in Entries(rest), NEW l \in Entries(rest), rest[k].sym = rest[l].sym
      PROVE  k = l
  <2>1. k + 1 = l + 1
      BY <1>4, <1>5, <1>8
  <2>. QED
      BY <1>5, <2>1
<1>9. (\E k \in DOMAIN acts : acts[k].kind = "RETURN") => DOMAIN rest = {}
    BY <1>1, <1>2, <1>4
<1>10. \A k \in DOMAIN rest : rest[k].kind # "RETURN"
    BY <1>1, <1>9
<1>11. acts[1].kind = "RETURN" => Entries(rest) = {}
    BY <1>1, <1>9 DEF Entries
<1>12. Entries(rest) # {} => Entries(acts) # {}
    BY <1>5
<1>. QED
    BY <1>1, <1>3, <1>7, <1>8, <1>10, <1>11, <1>12 DEF rest

LEMMA RestCovered ==
  ASSUME NEW rest \in Actions, cyc'.acts = rest,
         \A k \in DOMAIN rest : rest[k].kind # "RETURN",
         \A k, l \in Entries(rest) : rest[k].sym = rest[l].sym => k = l,
         \A k \in Entries(rest) : rest[k].sym \notin open',
         wallet' >= ToPay(rest),
         open' = {} /\ Entries(rest) # {} => wallet' >= ToPay(rest) + Buffer
  PROVE  Covered(cyc.acts)'
BY DEF Covered, Entries, ToPay

(* An action that changes no position and takes nothing from the wallet.   *)
LEMMA SkipCovered ==
  ASSUME IInv, NEW kind, Acts(kind), NEW next \in [Coins -> Entry], Done(next),
         UNCHANGED <<wallet, open>>
  PROVE  Covered(cyc.acts)'
<1> DEFINE acts == cyc.acts
           rest == Tail(acts)
<1>1. cyc'.acts = rest /\ acts \in Actions /\ acts # <<>>
    BY DoneIs
<1>2. rest \in Actions /\ Price(Head(acts)) \in Nat
    BY <1>1, ActsTail DEF Price
<1>3. Covered(acts)
    BY DEF IInv
<1>4. /\ wallet >= ToPay(acts)
      /\ open = {} /\ Entries(acts) # {} => wallet >= ToPay(acts) + Buffer
    BY <1>3 DEF Covered
<1> HIDE DEF acts
<1>5. /\ ToPay(acts) = Price(Head(acts)) + ToPay(rest) /\ ToPay(rest) \in Nat
      /\ Entries(rest) # {} => Entries(acts) # {}
      /\ \A k \in Entries(rest) : rest[k].sym \notin open
      /\ \A k, l \in Entries(rest) : rest[k].sym = rest[l].sym => k = l
      /\ \A k \in DOMAIN rest : rest[k].kind # "RETURN"
    BY <1>1, <1>3, RestIs
<1> HIDE DEF rest
<1>6. wallet \in Nat
    BY FundsAre
<1>7. wallet >= ToPay(rest)
    BY <1>2, <1>4, <1>5, <1>6
<1>8. open = {} /\ Entries(rest) # {} => wallet >= ToPay(rest) + Buffer
    BY <1>2, <1>4, <1>5, <1>6
<1>. QED
    BY <1>1, <1>2, <1>5, <1>7, <1>8, RestCovered

LEMMA EnterKeeps == ASSUME IInv, Enter PROVE IInv'
<1>1. Acts("ENTER") /\ UNCHANGED <<earn, book, gone, hidden, faults>>
    BY DEF Enter
<1>2. \/ /\ wallet' = wallet - Cost /\ open' = open \cup {Now.sym}
         /\ Done([cyc.next EXCEPT ![Now.sym] = Opened])
      \/ Done(cyc.next) /\ UNCHANGED <<wallet, open>>
    BY DEF Enter
<1>3. /\ wallet \in Nat /\ open \in SUBSET Coins /\ IsBook(cyc.next) /\ cyc \in Cycles
      /\ cyc.next \in [Coins -> Entry] /\ Pending(order) \in Nat /\ Invested(open) \in Nat
      /\ staked \in Int /\ staking \in Int
    BY FundsAre, CyclesAre
<1>4. CASE Done(cyc.next) /\ UNCHANGED <<wallet, open>>
  <2>1. cyc' \in Cycles /\ cyc'.pc = "act" /\ cyc'.next = cyc.next
      BY <1>1, <1>3, <1>4, DoneIs
  <2>2. Covered(cyc.acts)'
      BY <1>1, <1>3, <1>4, SkipCovered
  <2>3. Typed'
      BY <1>1, <1>4, <2>1, FundsAre DEF Typed, earn
  <2>4. Conserved' /\ Buffered'
      BY <1>1, <1>4 DEF IInv, Conserved, Pending, Invested, Buffered, earn
  <2>5. Known'
      BY <2>1 DEF Known
  <2>. QED
      BY <2>1, <2>2, <2>3, <2>4, <2>5, Together
<1>5. CASE /\ wallet' = wallet - Cost /\ open' = open \cup {Now.sym}
           /\ Done([cyc.next EXCEPT ![Now.sym] = Opened])
  <2> DEFINE acts == cyc.acts
             rest == Tail(acts)
             s == Now.sym
             next == [cyc.next EXCEPT ![s] = Opened]
  <2>1. acts # <<>> /\ acts \in Actions /\ Now = acts[1] /\ Now = Head(acts) /\ Now \in Act
        /\ Now.kind = "ENTER" /\ 1 \in DOMAIN acts
      BY <1>1, CyclesAre, FundsAre, ActsTail DEF Acts, Now
  <2>2. s \in Coins
      BY <2>1, ActIs
  <2>3. next \in [Coins -> Entry] /\ IsBook(next)
      BY <1>3, <2>2, EntryIs, BookPut
  <2>4. cyc' \in Cycles /\ cyc'.pc = "act" /\ cyc'.acts = rest /\ cyc'.next = next
      BY <1>1, <1>5, <2>3, DoneIs
  <2>5. Covered(acts)
      BY DEF IInv
  <2>6. 1 \in Entries(acts) /\ Entries(acts) # {} /\ s \notin open
      BY <2>1, <2>5 DEF Entries, Covered
  <2>7. /\ wallet >= ToPay(acts)
        /\ open = {} => wallet >= ToPay(acts) + Buffer
      BY <2>5, <2>6 DEF Covered
  <2>8. /\ ToPay(acts) = Price(Head(acts)) + ToPay(rest) /\ ToPay(rest) \in Nat
        /\ \A k \in Entries(rest) : /\ rest[k].sym \notin open
                                    /\ Head(acts).kind = "ENTER" => rest[k].sym # Head(acts).sym
        /\ \A k, l \in Entries(rest) : rest[k].sym = rest[l].sym => k = l
        /\ \A k \in DOMAIN rest : rest[k].kind # "RETURN"
      BY <2>1, <2>5, RestIs
  <2>9. ToPay(acts) = Cost + ToPay(rest) /\ rest \in Actions
      BY <2>1, <2>8, ActsTail DEF Price
  <2>10. \A k \in Entries(rest) : rest[k].sym \notin open'
      BY <1>5, <2>1, <2>8
  <2>11. open' \in SUBSET Coins /\ open' # {}
      BY <1>3, <1>5, <2>2
  <2>12. /\ Cardinality(open') = Cardinality(open) + 1 /\ Invested(open') = Invested(open) + Cost
         /\ Cardinality(open) \in Nat /\ (Cardinality(open) = 0 <=> open = {})
      BY <1>3, <1>5, <2>2, <2>6, CountAdd, CountIs
  <2> HIDE DEF acts, rest, s, next
  <2>13. wallet' >= ToPay(rest) /\ (open = {} => wallet' >= ToPay(rest) + Buffer) /\ wallet' \in Nat
      BY <1>3, <1>5, <2>7, <2>8, <2>9
  <2>14. Covered(cyc.acts)'
      BY <2>4, <2>8, <2>9, <2>10, <2>11, <2>13, RestCovered
  <2>15. Typed'
      BY <1>1, <2>3, <2>4, <2>11, <2>13, FundsAre DEF Typed, earn
  <2>16. wallet' + staked + staking + Pending(order) + Invested(open') <= Stock
      BY <1>3, <1>5, <2>12, FundsAre
  <2>17. Conserved'
      BY <1>1, <2>16 DEF Conserved, Pending, Invested, earn
  <2>18. Cardinality(open') = 1 => wallet' >= Buffer
      BY <2>8, <2>12, <2>13
  <2>19. Buffered'
      BY <2>18 DEF Buffered
  <2>20. Known'
      BY <2>4 DEF Known
  <2>. QED
      BY <2>4, <2>14, <2>15, <2>17, <2>19, <2>20, Together
<1>. QED
    BY <1>2, <1>4, <1>5

LEMMA ExitKeeps == ASSUME IInv, Exit PROVE IInv'
<1>1. Acts("EXIT") /\ UNCHANGED <<earn, book, gone, hidden>>
    BY DEF Exit
<1>2. \/ /\ wallet' = wallet + IF Now.sym \in open THEN Cost ELSE 0
         /\ open' = open \ {Now.sym}
         /\ Done([cyc.next EXCEPT ![Now.sym] = Flat]) /\ UNCHANGED faults
      \/ Fault /\ Done(cyc.next) /\ UNCHANGED <<wallet, open>>
    BY DEF Exit
<1>3. /\ wallet \in Nat /\ open \in SUBSET Coins /\ IsBook(cyc.next) /\ cyc \in Cycles
      /\ cyc.next \in [Coins -> Entry] /\ Pending(order) \in Nat /\ Invested(open) \in Nat
      /\ staked \in Int /\ staking \in Int
    BY FundsAre, CyclesAre
<1>4. faults' \in 0..MaxFaults
    BY <1>2, FundsAre, FaultIs
<1> DEFINE acts == cyc.acts
           rest == Tail(acts)
           s == Now.sym
           next == [cyc.next EXCEPT ![s] = Flat]
<1>5. acts # <<>> /\ acts \in Actions /\ Now = acts[1] /\ Now = Head(acts) /\ Now \in Act
      /\ Now.kind = "EXIT" /\ 1 \in DOMAIN acts
    BY <1>1, CyclesAre, FundsAre, ActsTail DEF Acts, Now
<1>6. s \in Coins
    BY <1>5, ActIs
<1>7. next \in [Coins -> Entry] /\ IsBook(next)
    BY <1>3, <1>6, EntryIs, BookPut
<1>8. CASE UNCHANGED <<wallet, open>> /\ (Done(cyc.next) \/ Done(next))
  <2>1. PICK nx \in [Coins -> Entry] : IsBook(nx) /\ Done(nx)
      BY <1>3, <1>7, <1>8
  <2>2. cyc' \in Cycles /\ cyc'.pc = "act" /\ cyc'.next = nx
      BY <1>1, <2>1, DoneIs
  <2>3. Covered(cyc.acts)'
      BY <1>1, <1>8, <2>1, SkipCovered
  <2>4. Typed'
      BY <1>1, <1>4, <1>8, <2>1, <2>2, FundsAre DEF Typed, earn
  <2>5. Conserved' /\ Buffered'
      BY <1>1, <1>8 DEF IInv, Conserved, Pending, Invested, Buffered, earn
  <2>6. Known'
      BY <2>2 DEF Known
  <2>. QED
      BY <2>2, <2>3, <2>4, <2>5, <2>6, Together
<1>9. CASE s \in open /\ wallet' = wallet + Cost /\ open' = open \ {s} /\ Done(next)
  <2>1. cyc' \in Cycles /\ cyc'.pc = "act" /\ cyc'.acts = rest /\ cyc'.next = next
      BY <1>1, <1>7, <1>9, DoneIs
  <2>2. Covered(acts)
      BY DEF IInv
  <2>3. wallet >= ToPay(acts)
      BY <2>2 DEF Covered
  <2>4. /\ ToPay(acts) = Price(Head(acts)) + ToPay(rest) /\ ToPay(rest) \in Nat
        /\ \A k \in Entries(rest) : rest[k].sym \notin open
        /\ \A k, l \in Entries(rest) : rest[k].sym = rest[l].sym => k = l
        /\ \A k \in DOMAIN rest : rest[k].kind # "RETURN"
      BY <1>5, <2>2, RestIs
  <2>5. ToPay(acts) = ToPay(rest) /\ rest \in Actions
      BY <1>5, <2>4, ActsTail DEF Price
  <2>6. \A k \in Entries(rest) : rest[k].sym \notin open'
      BY <1>9, <2>4
  <2>7. open' \in SUBSET Coins /\ Invested(open') = Invested(open) - Cost
      BY <1>3, <1>9, CountRemove
  <2> HIDE DEF acts, rest, s, next
  <2>8. wallet' >= ToPay(rest) /\ wallet' >= ToPay(rest) + Buffer /\ wallet' \in Nat
        /\ wallet' >= Buffer
      BY <1>3, <1>9, <2>3, <2>4, <2>5
  <2>9. Covered(cyc.acts)'
      BY <2>1, <2>4, <2>5, <2>6, <2>8, RestCovered
  <2>10. Typed'
      BY <1>1, <1>4, <1>7, <2>1, <2>7, <2>8, FundsAre DEF Typed, earn
  <2>11. wallet' + staked + staking + Pending(order) + Invested(open') <= Stock
      BY <1>3, <1>9, <2>7, FundsAre
  <2>12. Conserved'
      BY <1>1, <2>11 DEF Conserved, Pending, Invested, earn
  <2>13. Buffered' /\ Known'
      BY <2>1, <2>8 DEF Buffered, Known
  <2>. QED
      BY <2>1, <2>9, <2>10, <2>12, <2>13, Together
<1>10. \/ UNCHANGED <<wallet, open>> /\ (Done(cyc.next) \/ Done(next))
       \/ s \in open /\ wallet' = wallet + Cost /\ open' = open \ {s} /\ Done(next)
  <2>1. s \notin open => open \ {s} = open /\ wallet + 0 = wallet
      BY <1>3
  <2>. QED
      BY <1>2, <2>1
<1>. QED
    BY <1>8, <1>9, <1>10

LEMMA RedeemKeeps == ASSUME IInv, Redeem PROVE IInv'
<1>1. Acts("REDEEM") /\ Done(cyc.next) /\ UNCHANGED <<wallet, staking, open, book, gone, hidden>>
    BY DEF Redeem
<1>2. \/ /\ Now.amount <= staked /\ staked' = staked - Now.amount
         /\ order' = [order EXCEPT ![Now.link] = [state |-> "pending", amount |-> Now.amount]]
         /\ UNCHANGED faults
      \/ /\ IF Now.amount > staked THEN UNCHANGED faults ELSE Fault
         /\ UNCHANGED <<staked, order>>
    BY DEF Redeem
<1>3. /\ wallet \in Nat /\ cyc \in Cycles /\ cyc.next \in [Coins -> Entry]
      /\ Pending(order) \in Nat /\ Invested(open) \in Nat /\ order \in Orders
      /\ staked \in 0..Stock /\ staking \in Int
    BY FundsAre, CyclesAre
<1>4. faults' \in 0..MaxFaults
    BY <1>2, FundsAre, FaultIs
<1>5. /\ cyc' \in Cycles /\ cyc'.pc = "act" /\ cyc'.next = cyc.next
      /\ Now \in Act /\ Now.kind = "REDEEM"
    BY <1>1, <1>3, DoneIs
<1>6. Covered(cyc.acts)'
    BY <1>1, <1>3, SkipCovered
<1>7. Now.amount \in 0..Stock /\ Now.link \in Links
    BY <1>5, ActIs
<1>8. /\ staked' \in 0..Stock /\ order' \in Orders
      /\ wallet + staked' + staking + Pending(order') + Invested(open) <= Stock
  <2>1. CASE UNCHANGED <<staked, order>>
      BY <1>3, <2>1, FundsAre
  <2>2. CASE /\ Now.amount <= staked /\ staked' = staked - Now.amount
             /\ order' = [order EXCEPT ![Now.link] = [state |-> "pending", amount |-> Now.amount]]
    <3> DEFINE o == [state |-> "pending", amount |-> Now.amount]
    <3>1. o \in EarnOrder /\ Due(o) = Now.amount
        BY <1>7 DEF EarnOrder, Due
    <3>2. order' = [order EXCEPT ![Now.link] = o]
        BY <2>2
    <3> HIDE DEF o
    <3>3. /\ [order EXCEPT ![Now.link] = o] \in Orders
          /\ Pending([order EXCEPT ![Now.link] = o])
               = Pending(order) + Due(o) - Due(order[Now.link])
        BY <1>3, <1>7, <3>1, PendingChange
    <3>4. order[Now.link] \in EarnOrder
        BY <1>3, <1>7 DEF Orders
    <3>5. Due(order[Now.link]) \in Nat
        BY <3>4, DueIs
    <3>6. order' \in Orders /\ Pending(order') <= Pending(order) + Now.amount
          /\ Pending(order') \in Nat
      <4>1. order' \in Orders /\ Pending(order') = Pending(order) + Due(o) - Due(order[Now.link])
          BY <3>2, <3>3
      <4>2. Pending(order') \in Nat
          BY <4>1, PendingIs
      <4>. QED
          BY <1>3, <1>7, <3>1, <3>5, <4>1, <4>2
    <3>7. wallet + staked + staking + Pending(order) + Invested(open) <= Stock
        BY FundsAre
    <3>. QED
        BY <1>3, <1>7, <2>2, <3>6, <3>7
  <2>. QED
      BY <1>2, <2>1, <2>2
<1>9. Typed'
    BY <1>1, <1>4, <1>5, <1>8, FundsAre DEF Typed
<1>10. Conserved'
    BY <1>1, <1>8 DEF Conserved, Pending, Invested
<1>11. Buffered'
    BY <1>1 DEF IInv, Buffered
<1>12. Known'
    BY <1>5 DEF Known
<1>. QED
    BY <1>5, <1>6, <1>9, <1>10, <1>11, <1>12, Together

LEMMA ReturnKeeps == ASSUME IInv, Return PROVE IInv'
<1>1. Acts("RETURN") /\ Done(cyc.next) /\ UNCHANGED <<staked, order, open, book, gone, hidden>>
    BY DEF Return
<1>2. \/ wallet' = wallet - Now.amount /\ staking' = Now.amount /\ UNCHANGED faults
      \/ Fault /\ UNCHANGED <<wallet, staking>>
    BY DEF Return
<1>3. /\ wallet \in Nat /\ cyc \in Cycles /\ cyc.next \in [Coins -> Entry]
      /\ Pending(order) \in Nat /\ Invested(open) \in Nat
      /\ staked \in 0..Stock /\ staking \in 0..Stock
    BY FundsAre, CyclesAre
<1>4. faults' \in 0..MaxFaults
    BY <1>2, FundsAre, FaultIs
<1> DEFINE acts == cyc.acts
           rest == Tail(acts)
           amount == Now.amount
<1>5. /\ cyc' \in Cycles /\ cyc'.pc = "act" /\ cyc'.acts = rest /\ cyc'.next = cyc.next
      /\ acts \in Actions /\ acts # <<>>
      /\ Now \in Act /\ Now = acts[1] /\ Now.kind = "RETURN" /\ 1 \in DOMAIN acts
    BY <1>1, <1>3, DoneIs
<1>6. amount \in 0..Stock
    BY <1>5, ActIs
<1>7. Covered(acts)
    BY DEF IInv
<1>8. amount <= wallet /\ (Cardinality(open) = 1 => wallet - amount >= Buffer \/ hidden)
    BY <1>5, <1>7 DEF Covered
<1>9. Entries(rest) = {} /\ \A k \in DOMAIN rest : rest[k].kind # "RETURN"
    BY <1>5, <1>7, RestIs
<1>10. rest \in Actions
    BY <1>5, ActsTail
<1> HIDE DEF rest, acts, amount
<1>11. ToPay(rest) = 0
    BY <1>9, <1>10, NothingToPay
<1>12. /\ wallet' \in Nat /\ staking' \in 0..Stock
       /\ wallet' + staked + staking' + Pending(order) + Invested(open) <= Stock
       /\ Cardinality(open) = 1 => wallet' >= Buffer \/ hidden
  <2>1. CASE UNCHANGED <<wallet, staking>>
      BY <1>3, <2>1, FundsAre DEF IInv, Buffered
  <2>2. CASE wallet' = wallet - amount /\ staking' = amount
    <3>1. wallet + staked + staking + Pending(order) + Invested(open) <= Stock
        BY FundsAre
    <3>. QED
        BY <1>3, <1>6, <1>8, <2>2, <3>1
  <2>. QED
      BY <1>2, <2>1, <2>2 DEF amount
<1>13. Covered(cyc.acts)'
    BY <1>5, <1>9, <1>10, <1>11, <1>12, RestCovered
<1>14. Typed'
    BY <1>1, <1>4, <1>5, <1>12, FundsAre DEF Typed
<1>15. Conserved'
    BY <1>1, <1>12 DEF Conserved, Pending, Invested
<1>16. Buffered'
    BY <1>1, <1>12 DEF Buffered
<1>17. Known'
    BY <1>5 DEF Known
<1>. QED
    BY <1>5, <1>13, <1>14, <1>15, <1>16, <1>17, Together

(* The end of a cycle, saved or killed.                                    *)
LEMMA OffIs ==
  /\ Off \in Cycles /\ Off.pc = "off" /\ Off.acts = <<>> /\ IsBook(Off.next)
<1>1. [s \in Coins |-> Flat] \in [Coins -> Entry] /\ <<>> \in Actions
    BY EntryIs DEF Actions
<1>2. NotRead \in [wallet : Int, acct : BOOLEAN, at : SUBSET Coins, unread : SUBSET Coins]
    BY DEF NotRead
<1>. QED
    BY <1>1, <1>2, FlatBook DEF Off, Cycles

LEMMA EndsKeeps ==
  ASSUME IInv, NEW bk, IsBook(bk), Ends(bk), faults' \in 0..MaxFaults
  PROVE  IInv'
<1>1. /\ cyc' = Off /\ UNCHANGED <<wallet, staked, staking, open, gone, hidden>>
      /\ order' = [l \in Links |-> IF l \in LinksOf(bk) \/ order[l].state = "pending"
                                   THEN order[l] ELSE NoOrder]
    BY DEF Ends
<1>2. IsBook(book')
    BY BookAges DEF Ends
<1>3. /\ wallet \in Nat /\ order \in Orders /\ Pending(order) \in Nat
    BY FundsAre
<1>4. \A l \in Links : order[l] \in EarnOrder
    BY <1>3 DEF Orders
<1>5. order' \in Orders
    BY <1>1, <1>4, DueIs DEF Orders
<1>6. Pending(order') = Pending(order)
  <2> DEFINE f == [l \in Links |-> Due(order'[l])]
             g == [l \in Links |-> Due(order[l])]
  <2>1. ASSUME NEW l \in Links PROVE Due(order'[l]) = Due(order[l]) /\ Due(order[l]) \in Int
    <3>1. Due(order[l]) \in Int
        BY <1>4, DueIs
    <3>2. CASE l \in LinksOf(bk) \/ order[l].state = "pending"
        BY <1>1, <3>1, <3>2
    <3>3. CASE ~(l \in LinksOf(bk) \/ order[l].state = "pending")
      <4>1. order'[l] = NoOrder /\ Due(order[l]) = 0
          BY <1>1, <3>3 DEF Due
      <4>. QED
          BY <4>1, DueIs
    <3>. QED
        BY <3>2, <3>3
  <2>2. \A l \in 1..MaxLinks : f[l] \in Int /\ f[l] = g[l]
      BY <2>1 DEF Links
  <2>3. Pending(order') = Sum(f, MaxLinks) /\ Pending(order) = Sum(g, MaxLinks)
      BY DEF Pending
  <2> HIDE DEF f, g
  <2>4. Sum(f, MaxLinks) = Sum(g, MaxLinks)
      BY <2>2, SumSame
  <2>. QED
      BY <2>3, <2>4
<1>7. Typed'
    BY <1>1, <1>2, <1>5, OffIs, FundsAre DEF Typed
<1>8. Conserved'
  <2>1. wallet' + staked' + staking' + Pending(order') + Invested(open') <= Stock
      BY <1>1, <1>6, FundsAre
  <2>. QED
      BY <2>1 DEF Conserved, Pending, Invested
<1>9. Buffered'
    BY <1>1 DEF IInv, Buffered
<1>10. cyc'.pc = "off" /\ cyc'.acts = <<>>
    BY <1>1, OffIs
<1>11. Known'
    BY <1>10 DEF Known
<1>12. Covered(cyc.acts)'
    BY <1>1, <1>3, <1>10, NothingCovered
<1>. QED
    BY <1>7, <1>8, <1>9, <1>10, <1>11, <1>12, Together

LEMMA SaveKeeps == ASSUME IInv, Save PROVE IInv'
<1>1. Ends(cyc.next) /\ UNCHANGED faults
    BY DEF Save
<1>. QED
    BY <1>1, FundsAre, EndsKeeps

LEMMA KilledKeeps == ASSUME IInv, Killed PROVE IInv'
<1>1. Ends(book) /\ Fault
    BY DEF Killed
<1>. QED
    BY <1>1, FundsAre, FaultIs, EndsKeeps

LEMMA InitInv == Init => IInv
<1> SUFFICES ASSUME Init PROVE IInv
    OBVIOUS
<1>1. /\ wallet = 0 /\ staked = Stock /\ staking = 0
      /\ order = [l \in Links |-> NoOrder]
      /\ open = {} /\ book = [s \in Coins |-> Flat] /\ cyc = Off
      /\ gone = FALSE /\ hidden = FALSE /\ faults = 0
    BY DEF Init
<1>2. order \in Orders /\ Pending(order) = 0
  <2>1. order \in Orders
      BY <1>1, DueIs DEF Orders
  <2> DEFINE f == [l \in Links |-> Due(order[l])]
  <2>2. \A l \in 1..MaxLinks : f[l] = 0
      BY <1>1, DueIs DEF Links
  <2>3. Pending(order) = Sum(f, MaxLinks)
      BY DEF Pending
  <2> HIDE DEF f
  <2>. QED
      BY <2>1, <2>2, <2>3, SumZero
<1>3. Invested(open) = 0 /\ Cardinality(open) = 0
  <2>1. Cardinality(open) = 0
      BY <1>1, CountIs
  <2>. QED
      BY <2>1 DEF Invested
<1>4. IsBook(book) /\ IsBook(cyc.next) /\ cyc \in Cycles /\ cyc.pc = "off" /\ cyc.acts = <<>>
    BY <1>1, FlatBook, OffIs
<1>5. FundsTypeOK
  <2>1. /\ wallet \in Nat /\ staked \in 0..Stock /\ staking \in 0..Stock
        /\ open \in SUBSET Coins /\ gone \in BOOLEAN /\ hidden \in BOOLEAN
        /\ faults \in 0..MaxFaults
    <3>1. wallet = 0 /\ staked = Stock /\ staking = 0 /\ faults = 0
        BY <1>1, Zenon
    <3>2. open = {} /\ gone = FALSE /\ hidden = FALSE
        BY <1>1, Zenon
    <3>3. wallet \in Nat /\ staked \in 0..Stock /\ staking \in 0..Stock /\ faults \in 0..MaxFaults
        BY <3>1
    <3>. QED
        BY <3>2, <3>3
  <2>2. Typed
      BY <1>2, <1>4, <2>1, Zenon DEF Typed
  <2>. QED
      BY <2>2, CyclesAre DEF Typed, FundsTypeOK, Actions, Orders, EarnOrder
<1>6. Conserved
    BY <1>1, <1>2, <1>3 DEF Conserved
<1>7. Buffered /\ Known
    BY <1>3, <1>4 DEF Buffered, Known
<1>8. Covered(cyc.acts)
  <2>1. DOMAIN cyc.acts = {} /\ Entries(cyc.acts) = {} /\ ToPay(cyc.acts) = 0
      BY <1>4, NoActs
  <2>. QED
      BY <1>1, <2>1 DEF Covered
<1>. QED
    BY <1>1, <1>4, <1>5, <1>6, <1>7, <1>8 DEF IInv, Whole

LEMMA StepKeeps == IInv /\ [Next]_vars => IInv'
<1> SUFFICES ASSUME IInv, [Next]_vars PROVE IInv'
    OBVIOUS
<1>1. CASE ReadAccount
    BY <1>1, ReadAccountKeeps
<1>2. CASE ReadEarnAndPlan
    BY <1>2, ReadEarnAndPlanKeeps
<1>3. CASE Enter
    BY <1>3, EnterKeeps
<1>4. CASE Exit
    BY <1>4, ExitKeeps
<1>5. CASE Redeem
    BY <1>5, RedeemKeeps
<1>6. CASE Return
    BY <1>6, ReturnKeeps
<1>7. CASE Save
    BY <1>7, SaveKeeps
<1>8. CASE Killed
    BY <1>8, KilledKeeps
<1>9. CASE \E l \in Links : RedeemEnds(l) \/ RedeemFails(l)
    BY <1>9, RedeemEndsKeeps, RedeemFailsKeeps
<1>10. CASE StakeEnds
    BY <1>10, StakeEndsKeeps
<1>11. CASE StakeFails
    BY <1>11, StakeFailsKeeps
<1>12. CASE ConditionsGo
    BY <1>12, ConditionsGoKeeps
<1>13. CASE UNCHANGED vars
    BY <1>13, StutterKeeps
<1>. QED
    BY <1>1, <1>2, <1>3, <1>4, <1>5, <1>6, <1>7, <1>8, <1>9, <1>10, <1>11, <1>12, <1>13 DEF Next

(* What IInv says of the USDT, of what a cycle has read and of what it has *)
(* planned holds in every state.                                           *)
THEOREM Inductive == Spec => []IInv
<1>. QED
    BY InitInv, StepKeeps, PTL DEF Spec

(* No variable leaves its type, and no two symbols wait for one redeem,    *)
(* for any symbols, costs and bounds.                                      *)
THEOREM TypeCorrect == Spec => []FundsTypeOK
<1>1. IInv => FundsTypeOK
    BY DEF IInv
<1>. QED
    BY <1>1, Inductive, PTL

(* No entry is sent that the wallet does not cover: the account never      *)
(* borrows; and the buffer is there while one position is open and no      *)
(* cycle is at work, unless that position was hidden.  For any symbols,    *)
(* costs, slack and timeout, and whatever Earn pays, when, and whatever is *)
(* killed.                                                                 *)
THEOREM FundsAreKept == Spec => []FundsKept
<1>1. IInv => FundsKept
    BY DEF IInv, FundsKept, Buffered
<1>. QED
    BY <1>1, Inductive, PTL
=============================================================================
