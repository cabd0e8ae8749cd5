------------------------------ MODULE SumsProofs ------------------------------
(***************************************************************************)
(* What the proofs need to know of Sum.  The induction is over a set of    *)
(* naturals: the least number outside of a set that holds 0 and the        *)
(* successor of each of its elements.                                      *)
(***************************************************************************)
EXTENDS Sums, WellFoundedInduction, TLAPS

LEMMA LeastNat ==
  ASSUME NEW T \in SUBSET Nat, T # {}
  PROVE  \E n \in T : \A m \in T : n <= m
<1>1. PICK n \in T : \A m \in T : ~(<<m, n>> \in OpToRel(<, Nat))
    BY NatLessThanWellFounded, WFMin
<1>2. \A m \in T : (<<m, n>> \in OpToRel(<, Nat)) <=> m < n
    BY DEF OpToRel
<1>3. \A m \in T : m \in Nat /\ ~(m < n)
    BY <1>1, <1>2
<1>4. n \in Nat
    OBVIOUS
<1>5. \A m \in T : n <= m
    BY <1>3, <1>4
<1>. QED
    BY <1>5

LEMMA UpTo ==
  ASSUME NEW n \in Nat, NEW S, 0 \in S, \A i \in 1..n : i - 1 \in S => i \in S
  PROVE  0..n \subseteq S
<1> SUFFICES ASSUME (0..n) \ S # {} PROVE FALSE
    OBVIOUS
<1> DEFINE T == (0..n) \ S
<1>0. T \in SUBSET Nat /\ T # {}
    OBVIOUS
<1> HIDE DEF T
<1>1. PICK k \in T : \A m \in T : k <= m
    BY <1>0, LeastNat
<1> USE DEF T
<1>2. k \in 1..n /\ k - 1 \in S
    BY <1>1
<1>. QED
    BY <1>1, <1>2

IsSum(s, f, n) ==
    s \in [0..n -> Int] /\ s[0] = 0 /\ \A i \in 1..n : s[i] = s[i - 1] + f[i]

LEMMA SumExists ==
  ASSUME NEW n \in Nat, NEW f, \A i \in 1..n : f[i] \in Int
  PROVE  \E s : IsSum(s, f, n)
<1> DEFINE S == {k \in 0..n : \E s : IsSum(s, f, k)}
<1>1. 0 \in S
  <2>1. IsSum([i \in 0..0 |-> 0], f, 0)
      BY DEF IsSum
  <2>. QED
      BY <2>1
<1>2. ASSUME NEW k \in 1..n, k - 1 \in S PROVE k \in S
  <2>1. PICK s : IsSum(s, f, k - 1)
      BY <1>2
  <2>2. IsSum([i \in 0..k |-> IF i = k THEN s[k - 1] + f[k] ELSE s[i]], f, k)
      BY <2>1 DEF IsSum
  <2>. QED
      BY <2>2
<1> HIDE DEF S
<1>3. n \in S
    BY <1>1, <1>2, UpTo
<1>. QED
    BY <1>3 DEF S

LEMMA SumIs ==
  ASSUME NEW n \in Nat, NEW f, \A i \in 1..n : f[i] \in Int
  PROVE  \E s : IsSum(s, f, n) /\ Sum(f, n) = s[n]
<1> DEFINE Solves(s) == s = [i \in 0..n |-> IF i = 0 THEN 0 ELSE s[i - 1] + f[i]]
<1>1. \E s : Solves(s)
  <2>1. PICK s : IsSum(s, f, n)
      BY SumExists
  <2>2. s = [i \in 0..n |-> s[i]]
      BY <2>1 DEF IsSum
  <2>3. \A i \in 0..n : s[i] = IF i = 0 THEN 0 ELSE s[i - 1] + f[i]
      BY <2>1 DEF IsSum
  <2>. QED
      BY <2>2, <2>3
<1> DEFINE s == CHOOSE s : Solves(s)
<1>2. Solves(s)
    BY <1>1
<1>3. Sum(f, n) = s[n]
    BY DEF Sum
<1> HIDE DEF s
<1> DEFINE S == {k \in 0..n : s[k] \in Int}
<1>4. 0 \in S /\ \A k \in 1..n : k - 1 \in S => k \in S
    BY <1>2
<1> HIDE DEF S
<1>5. 0..n \subseteq S
    BY <1>4, UpTo
<1>6. \A k \in 0..n : s[k] \in Int
    BY <1>5 DEF S
<1>7. IsSum(s, f, n)
    BY <1>2, <1>6 DEF IsSum
<1>. QED
    BY <1>3, <1>7

LEMMA SumInt ==
  ASSUME NEW n \in Nat, NEW f, \A i \in 1..n : f[i] \in Int
  PROVE  Sum(f, n) \in Int
BY SumIs DEF IsSum

(* The sum of naturals is a natural.                                       *)
LEMMA SumNat ==
  ASSUME NEW n \in Nat, NEW f, \A i \in 1..n : f[i] \in Nat
  PROVE  Sum(f, n) \in Nat
<1>1. PICK s : IsSum(s, f, n) /\ Sum(f, n) = s[n]
    BY SumIs
<1> DEFINE S == {k \in 0..n : s[k] \in Nat}
<1>2. 0 \in S
    BY <1>1 DEF IsSum
<1>3. ASSUME NEW k \in 1..n, k - 1 \in S PROVE k \in S
  <2>1. k \in 0..n /\ s[k] = s[k - 1] + f[k]
      BY <1>1 DEF IsSum
  <2>. QED
      BY <1>3, <2>1
<1> HIDE DEF S
<1>4. 0..n \subseteq S
    BY <1>2, <1>3, UpTo
<1>. QED
    BY <1>1, <1>4 DEF S

(* What is not more in any place is not more in sum.                       *)
LEMMA SumMono ==
  ASSUME NEW n \in Nat, NEW f, NEW g,
         \A i \in 1..n : f[i] \in Int /\ g[i] \in Int /\ f[i] <= g[i]
  PROVE  Sum(f, n) <= Sum(g, n)
<1>1. PICK s : IsSum(s, f, n) /\ Sum(f, n) = s[n]
    BY SumIs
<1>2. PICK r : IsSum(r, g, n) /\ Sum(g, n) = r[n]
    BY SumIs
<1> DEFINE S == {k \in 0..n : s[k] <= r[k]}
<1>3. 0 \in S
    BY <1>1, <1>2 DEF IsSum
<1>4. ASSUME NEW k \in 1..n, k - 1 \in S PROVE k \in S
  <2>1. k - 1 \in 0..n /\ k \in 0..n
      OBVIOUS
  <2>2. s[k] = s[k - 1] + f[k] /\ r[k] = r[k - 1] + g[k]
      BY <1>1, <1>2 DEF IsSum
  <2>3. {s[k - 1], s[k], r[k - 1], r[k]} \subseteq Int
      BY <1>1, <1>2, <2>1 DEF IsSum
  <2>. QED
      BY <1>4, <2>1, <2>2, <2>3
<1> HIDE DEF S
<1>5. 0..n \subseteq S
    BY <1>3, <1>4, UpTo
<1>. QED
    BY <1>1, <1>2, <1>5 DEF S

(* A change in one place changes the sum by as much.                       *)
LEMMA SumChange ==
  ASSUME NEW n \in Nat, NEW f, NEW g, NEW c \in 1..n,
         \A i \in 1..n : f[i] \in Int /\ g[i] \in Int,
         \A i \in 1..n : i # c => f[i] = g[i]
  PROVE  Sum(g, n) = Sum(f, n) + g[c] - f[c]
<1>1. PICK s : IsSum(s, f, n) /\ Sum(f, n) = s[n]
    BY SumIs
<1>2. PICK r : IsSum(r, g, n) /\ Sum(g, n) = r[n]
    BY SumIs
<1> DEFINE S == {k \in 0..n : r[k] = IF k < c THEN s[k] ELSE s[k] + g[c] - f[c]}
<1>3. 0 \in S
    BY <1>1, <1>2 DEF IsSum
<1>4. ASSUME NEW k \in 1..n, k - 1 \in S PROVE k \in S
  <2>1. k - 1 \in 0..n /\ k \in 0..n
      OBVIOUS
  <2>2. s[k] = s[k - 1] + f[k] /\ r[k] = r[k - 1] + g[k]
      BY <1>1, <1>2 DEF IsSum
  <2>3. {s[k - 1], s[k], r[k - 1], r[k], f[c], g[c], f[k], g[k]} \subseteq Int
      BY <1>1, <1>2, <2>1 DEF IsSum
  <2>4. CASE k < c
      BY <1>4, <2>1, <2>2, <2>3, <2>4
  <2>5. CASE k = c
      BY <1>4, <2>1, <2>2, <2>3, <2>5
  <2>6. CASE k > c
      BY <1>4, <2>1, <2>2, <2>3, <2>6
  <2>. QED
      BY <2>4, <2>5, <2>6
<1> HIDE DEF S
<1>5. 0..n \subseteq S
    BY <1>3, <1>4, UpTo
<1>6. n \in S /\ ~(n < c)
    BY <1>5
<1>. QED
    BY <1>1, <1>2, <1>6 DEF S

(* The sum of zeros is zero.                                               *)
LEMMA SumZero ==
  ASSUME NEW n \in Nat, NEW f, \A i \in 1..n : f[i] = 0
  PROVE  Sum(f, n) = 0
<1>1. PICK s : IsSum(s, f, n) /\ Sum(f, n) = s[n]
    BY SumIs
<1> DEFINE S == {k \in 0..n : s[k] = 0}
<1>2. 0 \in S
    BY <1>1 DEF IsSum
<1>3. ASSUME NEW k \in 1..n, k - 1 \in S PROVE k \in S
  <2>1. k \in 0..n /\ s[k] = s[k - 1] + f[k] /\ f[k] = 0
      BY <1>1 DEF IsSum
  <2>. QED
      BY <1>3, <2>1
<1> HIDE DEF S
<1>4. 0..n \subseteq S
    BY <1>2, <1>3, UpTo
<1>. QED
    BY <1>1, <1>4 DEF S

(* Sums add up.                                                            *)
LEMMA SumAdd ==
  ASSUME NEW n \in Nat, NEW f, NEW g, NEW h,
         \A i \in 1..n : f[i] \in Int /\ g[i] \in Int /\ h[i] \in Int /\ h[i] = f[i] + g[i]
  PROVE  Sum(h, n) = Sum(f, n) + Sum(g, n)
<1>1. PICK s : IsSum(s, f, n) /\ Sum(f, n) = s[n]
    BY SumIs
<1>2. PICK r : IsSum(r, g, n) /\ Sum(g, n) = r[n]
    BY SumIs
<1>3. PICK t : IsSum(t, h, n) /\ Sum(h, n) = t[n]
    BY SumIs
<1> DEFINE S == {k \in 0..n : t[k] = s[k] + r[k]}
<1>4. 0 \in S
    BY <1>1, <1>2, <1>3 DEF IsSum
<1>5. ASSUME NEW k \in 1..n, k - 1 \in S PROVE k \in S
  <2>1. k - 1 \in 0..n /\ k \in 0..n
      OBVIOUS
  <2>2. s[k] = s[k - 1] + f[k] /\ r[k] = r[k - 1] + g[k] /\ t[k] = t[k - 1] + h[k]
      BY <1>1, <1>2, <1>3 DEF IsSum
  <2>3. {s[k - 1], s[k], r[k - 1], r[k], t[k - 1], t[k], f[k], g[k], h[k]} \subseteq Int
      BY <1>1, <1>2, <1>3, <2>1 DEF IsSum
  <2>. QED
      BY <1>5, <2>1, <2>2, <2>3
<1> HIDE DEF S
<1>6. 0..n \subseteq S
    BY <1>4, <1>5, UpTo
<1>. QED
    BY <1>1, <1>2, <1>3, <1>6 DEF S

(* What is the same in every place is the same in sum.                     *)
LEMMA SumSame ==
  ASSUME NEW n \in Nat, NEW f, NEW g, \A i \in 1..n : f[i] \in Int /\ f[i] = g[i]
  PROVE  Sum(f, n) = Sum(g, n)
<1>1. Sum(f, n) <= Sum(g, n) /\ Sum(g, n) <= Sum(f, n)
    BY SumMono
<1>2. Sum(f, n) \in Int /\ Sum(g, n) \in Int
    BY SumInt
<1>. QED
    BY <1>1, <1>2

(* No place has more than the sum.                                         *)
LEMMA SumTerm ==
  ASSUME NEW n \in Nat, NEW f, \A i \in 1..n : f[i] \in Nat, NEW c \in 1..n
  PROVE  f[c] <= Sum(f, n)
<1> DEFINE g == [i \in 1..n |-> IF i = c THEN 0 ELSE f[i]]
<1>1. \A i \in 1..n : g[i] \in Nat /\ (i # c => f[i] = g[i])
    OBVIOUS
<1>2. g[c] = 0
    OBVIOUS
<1> HIDE DEF g
<1>3. Sum(g, n) = Sum(f, n) + g[c] - f[c]
    BY <1>1, SumChange
<1>4. Sum(g, n) \in Nat /\ Sum(f, n) \in Nat /\ f[c] \in Nat
    BY <1>1, SumNat
<1>. QED
    BY <1>2, <1>3, <1>4

(* The last place.                                                         *)
LEMMA SumLast ==
  ASSUME NEW n \in Nat \ {0}, NEW f, NEW g,
         \A i \in 1..n : f[i] \in Int, \A i \in 1..n - 1 : g[i] = f[i]
  PROVE  Sum(f, n) = Sum(g, n - 1) + f[n]
<1>1. PICK s : IsSum(s, f, n) /\ Sum(f, n) = s[n]
    BY SumIs
<1>2. \A i \in 1..n - 1 : g[i] \in Int
    OBVIOUS
<1>3. PICK r : IsSum(r, g, n - 1) /\ Sum(g, n - 1) = r[n - 1]
    BY <1>2, SumIs
<1> DEFINE S == {k \in 0..n - 1 : r[k] = s[k]}
<1>4. 0 \in S
    BY <1>1, <1>3 DEF IsSum
<1>5. ASSUME NEW k \in 1..n - 1, k - 1 \in S PROVE k \in S
  <2>1. k \in 0..n - 1 /\ k \in 1..n /\ s[k] = s[k - 1] + f[k] /\ r[k] = r[k - 1] + g[k]
      BY <1>1, <1>3 DEF IsSum
  <2>. QED
      BY <1>5, <2>1
<1> HIDE DEF S
<1>6. 0..n - 1 \subseteq S
    BY <1>4, <1>5, UpTo
<1>7. r[n - 1] = s[n - 1]
    BY <1>6 DEF S
<1>. QED
    BY <1>1, <1>3, <1>7 DEF IsSum

(* The first place.                                                        *)
LEMMA SumFirst ==
  ASSUME NEW n \in Nat \ {0}, NEW f, NEW g,
         \A i \in 1..n : f[i] \in Int, \A i \in 1..n - 1 : g[i] = f[i + 1]
  PROVE  Sum(f, n) = f[1] + Sum(g, n - 1)
<1>1. PICK s : IsSum(s, f, n) /\ Sum(f, n) = s[n]
    BY SumIs
<1>2. \A i \in 1..n - 1 : g[i] \in Int
    OBVIOUS
<1>3. PICK r : IsSum(r, g, n - 1) /\ Sum(g, n - 1) = r[n - 1]
    BY <1>2, SumIs
<1> DEFINE S == {k \in 0..n - 1 : s[k + 1] = f[1] + r[k]}
<1>4. 0 \in S
  <2>1. 1 \in 1..n /\ s[1] = s[0] + f[1] /\ s[0] = 0 /\ r[0] = 0 /\ f[1] \in Int
      BY <1>1, <1>3 DEF IsSum
  <2>. QED
      BY <2>1
<1>5. ASSUME NEW k \in 1..n - 1, k - 1 \in S PROVE k \in S
  <2>1. k \in 0..n - 1 /\ k - 1 \in 0..n - 1 /\ k + 1 \in 1..n /\ k \in 1..n /\ (k - 1) + 1 = k
      OBVIOUS
  <2>2. s[k + 1] = s[k] + f[k + 1] /\ r[k] = r[k - 1] + f[k + 1]
      BY <1>1, <1>3, <2>1 DEF IsSum
  <2>3. {s[k + 1], s[k], r[k], r[k - 1], f[k + 1], f[1]} \subseteq Int
      BY <1>1, <1>3, <2>1 DEF IsSum
  <2>. QED
      BY <1>5, <2>1, <2>2, <2>3
<1> HIDE DEF S
<1>6. 0..n - 1 \subseteq S
    BY <1>4, <1>5, UpTo
<1>7. s[(n - 1) + 1] = f[1] + r[n - 1] /\ (n - 1) + 1 = n
    BY <1>6 DEF S
<1>. QED
    BY <1>1, <1>3, <1>7

LEMMA Times ==
  ASSUME NEW c \in Int, NEW x \in Int, NEW y \in Int
  PROVE  c * x \in Int /\ c * (x + y) = c * x + c * y
OBVIOUS

(* The sum of a multiple.                                                  *)
LEMMA SumTimes ==
  ASSUME NEW n \in Nat, NEW f, NEW c \in Int, \A i \in 1..n : f[i] \in Int
  PROVE  Sum([i \in 1..n |-> c * f[i]], n) = c * Sum(f, n)
<1> DEFINE g == [i \in 1..n |-> c * f[i]]
<1>1. \A i \in 1..n : g[i] \in Int
    BY Times
<1>2. PICK s : IsSum(s, f, n) /\ Sum(f, n) = s[n]
    BY SumIs
<1>3. \A i \in 1..n : g[i] = c * f[i]
    OBVIOUS
<1> HIDE DEF g
<1>4. PICK r : IsSum(r, g, n) /\ Sum(g, n) = r[n]
    BY <1>1, SumIs
<1> DEFINE S == {k \in 0..n : r[k] = c * s[k]}
<1>5. 0 \in S
    BY <1>2, <1>4 DEF IsSum
<1>6. ASSUME NEW k \in 1..n, k - 1 \in S PROVE k \in S
  <2>1. k - 1 \in 0..n /\ k \in 0..n
      OBVIOUS
  <2>2. s[k] = s[k - 1] + f[k] /\ r[k] = r[k - 1] + g[k] /\ g[k] = c * f[k]
        /\ r[k - 1] = c * s[k - 1]
      BY <1>2, <1>3, <1>4, <1>6 DEF IsSum
  <2>3. s[k - 1] \in Int /\ f[k] \in Int
      BY <1>2, <2>1 DEF IsSum
  <2>4. c * (s[k - 1] + f[k]) = c * s[k - 1] + c * f[k]
      BY <2>3, Times
  <2>. QED
      BY <2>1, <2>2, <2>4
<1> HIDE DEF S
<1>7. 0..n \subseteq S
    BY <1>5, <1>6, UpTo
<1>8. r[n] = c * s[n]
    BY <1>7 DEF S
<1>. QED
    BY <1>2, <1>4, <1>8 DEF g

(* What is at least the ratio of the other in every place is so in sum.    *)
LEMMA SumRatio ==
  ASSUME NEW n \in Nat, NEW f, NEW g, NEW c \in Int, NEW d \in Int,
         \A i \in 1..n : f[i] \in Int /\ g[i] \in Int /\ c * f[i] <= d * g[i]
  PROVE  c * Sum(f, n) <= d * Sum(g, n)
<1> DEFINE e == [i \in 1..n |-> c * f[i]]
           h == [i \in 1..n |-> d * g[i]]
<1>1. \A i \in 1..n : e[i] \in Int /\ h[i] \in Int /\ e[i] <= h[i]
    BY Times
<1>2. Sum(e, n) = c * Sum(f, n) /\ Sum(h, n) = d * Sum(g, n)
    BY SumTimes
<1> HIDE DEF e, h
<1>3. Sum(e, n) <= Sum(h, n)
    BY <1>1, SumMono
<1>. QED
    BY <1>2, <1>3
=============================================================================
