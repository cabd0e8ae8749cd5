--------------------------------- MODULE Sums ---------------------------------
(***************************************************************************)
(* The sum of f[1] to f[n], as the code has it wherever it adds up rows or *)
(* orders in a loop.  A recursive function, not an operator: the proofs    *)
(* are about it.                                                           *)
(***************************************************************************)
EXTENDS Integers

Sum(f, n) == LET s[i \in 0..n] == IF i = 0 THEN 0 ELSE s[i - 1] + f[i] IN s[n]
=============================================================================
