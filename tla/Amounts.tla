------------------------------ MODULE Amounts ------------------------------
(***************************************************************************)
(* Sums of money.  The SDK keeps amounts as floats rounded to nine digits  *)
(* wherever it compares them; here an amount is a natural number of the    *)
(* smallest unit.  The total of a function f \in [S -> Nat] counts its     *)
(* units, one pair <<c, i>> for the i-th unit of f[c].  Counting, where a  *)
(* fold would add, is what lets the laws of addition be proved from those  *)
(* of finite sets (AmountsProofs).                                         *)
(***************************************************************************)
EXTENDS Naturals, FiniteSets

Units(f) == UNION {{c} \X (1 .. f[c]) : c \in DOMAIN f}

Total(f) == Cardinality(Units(f))

(* The part of f that lies in D, and the part that lies outside of it.     *)
Within(f, D)  == [c \in DOMAIN f |-> IF c \in D THEN f[c] ELSE 0]
Without(f, D) == [c \in DOMAIN f |-> IF c \in D THEN 0 ELSE f[c]]
=============================================================================
