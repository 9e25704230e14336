--------------------------- MODULE AmountsProofs ---------------------------
(***************************************************************************)
(* The laws of Total that the accounting proofs rest on, for every finite  *)
(* set S and every f \in [S -> Nat].                                       *)
(***************************************************************************)
EXTENDS Amounts, FiniteSetTheorems, TLAPS

(* A pair is a unit of f exactly when its index lies within f's amount.    *)
LEMMA InUnits ==
  ASSUME NEW S, NEW f \in [S -> Nat], NEW p
  PROVE  p \in Units(f) <=> \E c \in S : \E i \in 1 .. f[c] : p = <<c, i>>
BY DEF Units

(* The units of a single amount n: finitely many, n of them.               *)
LEMMA Column ==
  ASSUME NEW c, NEW n \in Nat
  PROVE  /\ IsFiniteSet({c} \X (1 .. n))
         /\ Cardinality({c} \X (1 .. n)) = n
<1>1. IsFiniteSet({c}) /\ Cardinality({c}) = 1
  BY FS_Singleton, Zenon
<1>2. IsFiniteSet(1 .. n) /\ Cardinality(1 .. n) = n
  <2>1. 1 \in Int /\ n \in Int
    OBVIOUS
  <2>2. /\ IsFiniteSet(1 .. n)
        /\ Cardinality(1 .. n) = IF 1 > n THEN 0 ELSE n - 1 + 1
    BY <2>1, FS_Interval
  <2> QED BY <2>2
<1>3. /\ IsFiniteSet({c} \X (1 .. n))
      /\ Cardinality({c} \X (1 .. n)) = Cardinality({c}) * Cardinality(1 .. n)
  BY <1>1, <1>2, FS_Product, Zenon
<1> QED BY <1>1, <1>2, <1>3

(* A finite function has finitely many units, so its total is a number.    *)
THEOREM TotalType ==
  ASSUME NEW S, IsFiniteSet(S), NEW f \in [S -> Nat]
  PROVE  /\ IsFiniteSet(Units(f))
         /\ Total(f) \in Nat
<1> DEFINE column == [c \in S |-> {c} \X (1 .. f[c])]
           T == {column[c] : c \in S}
<1>1. column \in Surjection(S, T)
  BY DEF Surjection
<1>2. IsFiniteSet(T)
  <2> HIDE DEF column, T
  <2> QED BY <1>1, FS_Surjection
<1>3. ASSUME NEW X \in T PROVE IsFiniteSet(X)
  <2>1. PICK c \in S : X = {c} \X (1 .. f[c])
    OBVIOUS
  <2> QED BY <2>1, Column
<1>4. Units(f) = UNION T
  BY DEF Units
<1>5. IsFiniteSet(Units(f))
  <2> HIDE DEF T
  <2> QED BY <1>2, <1>3, <1>4, FS_UNION
<1> QED BY <1>5, FS_CardinalityType DEF Total

(* A function that is smaller everywhere has the smaller total.            *)
THEOREM TotalMonotone ==
  ASSUME NEW S, IsFiniteSet(S), NEW f \in [S -> Nat], NEW g \in [S -> Nat],
         \A c \in S : f[c] <= g[c]
  PROVE  Total(f) <= Total(g)
<1>1. Units(f) \subseteq Units(g)
  <2>1. ASSUME NEW p \in Units(f) PROVE p \in Units(g)
    <3>1. PICK c \in S, i \in Nat : i \in 1 .. f[c] /\ p = <<c, i>>
      BY InUnits
    <3>2. i \in 1 .. g[c]
      BY <3>1
    <3> QED BY <3>1, <3>2, InUnits
  <2> QED BY <2>1
<1> QED BY <1>1, TotalType, FS_Subset DEF Total

(* Nothing has total zero, and only nothing has.                           *)
THEOREM TotalZero ==
  ASSUME NEW S, IsFiniteSet(S), NEW f \in [S -> Nat]
  PROVE  Total(f) = 0 <=> \A c \in S : f[c] = 0
<1>1. Total(f) = 0 <=> Units(f) = {}
  BY TotalType, FS_EmptySet DEF Total
<1>2. ASSUME NEW c \in S, f[c] # 0 PROVE Units(f) # {}
  <2>1. f[c] \in Nat /\ 1 \in 1 .. f[c]
    BY <1>2
  <2>2. <<c, 1>> \in Units(f)
    BY <2>1, InUnits
  <2> QED BY <2>2
<1>3. ASSUME \A c \in S : f[c] = 0 PROVE Units(f) = {}
  BY InUnits, <1>3
<1> QED BY <1>1, <1>2, <1>3

(* A function whose units are those of two others, with none in common,    *)
(* has the sum of their totals.                                            *)
LEMMA TotalDisjoint ==
  ASSUME NEW S, IsFiniteSet(S), NEW f \in [S -> Nat],
         NEW g \in [S -> Nat], NEW h \in [S -> Nat],
         \A c \in S : \/ f[c] = g[c] /\ h[c] = 0
                      \/ f[c] = h[c] /\ g[c] = 0
  PROVE  Total(f) = Total(g) + Total(h)
<1>1. Units(f) = Units(g) \cup Units(h)
  <2>1. ASSUME NEW p \in Units(f) PROVE p \in Units(g) \cup Units(h)
    <3>1. PICK c \in S, i \in Nat : i \in 1 .. f[c] /\ p = <<c, i>>
      BY InUnits
    <3>2. i \in 1 .. g[c] \/ i \in 1 .. h[c]
      BY <3>1
    <3> QED BY <3>1, <3>2, InUnits
  <2>2. ASSUME NEW p \in Units(g) PROVE p \in Units(f)
    <3>1. PICK c \in S, i \in Nat : i \in 1 .. g[c] /\ p = <<c, i>>
      BY InUnits
    <3>2. i \in 1 .. f[c]
      BY <3>1
    <3> QED BY <3>1, <3>2, InUnits
  <2>3. ASSUME NEW p \in Units(h) PROVE p \in Units(f)
    <3>1. PICK c \in S, i \in Nat : i \in 1 .. h[c] /\ p = <<c, i>>
      BY InUnits
    <3>2. i \in 1 .. f[c]
      BY <3>1
    <3> QED BY <3>1, <3>2, InUnits
  <2> QED BY <2>1, <2>2, <2>3
<1>2. Units(g) \cap Units(h) = {}
  <2> SUFFICES ASSUME NEW p \in Units(g), p \in Units(h) PROVE FALSE
    OBVIOUS
  <2>1. PICK c \in S, i \in Nat : i \in 1 .. g[c] /\ p = <<c, i>>
    BY InUnits
  <2>2. PICK d \in S, j \in Nat : j \in 1 .. h[d] /\ p = <<d, j>>
    BY InUnits
  <2>3. c = d
    BY <2>1, <2>2
  <2>4. g[c] > 0 /\ h[c] > 0
    BY <2>1, <2>2, <2>3
  <2> QED BY <2>4
<1>3. /\ IsFiniteSet(Units(g)) /\ Cardinality(Units(g)) \in Nat
      /\ IsFiniteSet(Units(h)) /\ Cardinality(Units(h)) \in Nat
  BY TotalType DEF Total
<1>4. Cardinality(Units(f)) = Cardinality(Units(g)) + Cardinality(Units(h)) - 0
  BY <1>1, <1>2, <1>3, FS_Union, FS_EmptySet
<1> QED BY <1>3, <1>4 DEF Total

(* Splitting at any set D loses nothing.                                   *)
THEOREM TotalSplit ==
  ASSUME NEW S, IsFiniteSet(S), NEW f \in [S -> Nat], NEW D
  PROVE  Total(f) = Total(Without(f, D)) + Total(Within(f, D))
<1>1. Without(f, D) \in [S -> Nat] /\ Within(f, D) \in [S -> Nat]
  BY DEF Within, Without
<1>2. \A c \in S : \/ f[c] = Without(f, D)[c] /\ Within(f, D)[c] = 0
                   \/ f[c] = Within(f, D)[c] /\ Without(f, D)[c] = 0
  BY DEF Within, Without
<1> QED BY <1>1, <1>2, TotalDisjoint

(* The total of a single amount is that amount.                            *)
LEMMA TotalSingle ==
  ASSUME NEW S, IsFiniteSet(S), NEW f \in [S -> Nat], NEW c \in S,
         \A d \in S \ {c} : f[d] = 0
  PROVE  Total(f) = f[c]
<1>1. Units(f) = {c} \X (1 .. f[c])
  <2>1. ASSUME NEW p \in Units(f) PROVE p \in {c} \X (1 .. f[c])
    <3>1. PICK d \in S, i \in Nat : i \in 1 .. f[d] /\ p = <<d, i>>
      BY InUnits
    <3>2. d = c
      BY <3>1
    <3> QED BY <3>1, <3>2
  <2>2. ASSUME NEW p \in {c} \X (1 .. f[c]) PROVE p \in Units(f)
    <3>1. PICK i \in 1 .. f[c] : p = <<c, i>>
      OBVIOUS
    <3> QED BY <3>1, InUnits
  <2> QED BY <2>1, <2>2
<1>2. Cardinality({c} \X (1 .. f[c])) = f[c]
  BY Column
<1> QED BY <1>1, <1>2 DEF Total

(* Changing one amount moves the total by the difference.                  *)
THEOREM TotalUpdate ==
  ASSUME NEW S, IsFiniteSet(S), NEW f \in [S -> Nat], NEW g \in [S -> Nat], NEW c \in S,
         \A d \in S \ {c} : f[d] = g[d]
  PROVE  Total(g) + f[c] = Total(f) + g[c]
<1>1. Without(f, {c}) = Without(g, {c})
  BY DEF Without
<1>2. /\ Within(f, {c}) \in [S -> Nat] /\ Within(f, {c})[c] = f[c]
      /\ \A d \in S \ {c} : Within(f, {c})[d] = 0
  BY DEF Within
<1>3. /\ Within(g, {c}) \in [S -> Nat] /\ Within(g, {c})[c] = g[c]
      /\ \A d \in S \ {c} : Within(g, {c})[d] = 0
  BY DEF Within
<1>4. Total(Within(f, {c})) = f[c] /\ Total(Within(g, {c})) = g[c]
  <2> DEFINE p == Within(f, {c})
             q == Within(g, {c})
  <2>1. /\ p \in [S -> Nat] /\ p[c] = f[c] /\ \A d \in S \ {c} : p[d] = 0
        /\ q \in [S -> Nat] /\ q[c] = g[c] /\ \A d \in S \ {c} : q[d] = 0
    BY <1>2, <1>3
  <2> HIDE DEF p, q
  <2>2. Total(p) = p[c] /\ Total(q) = q[c]
    BY <2>1, TotalSingle
  <2>3. Total(p) = f[c] /\ Total(q) = g[c]
    BY <2>1, <2>2
  <2> QED BY <2>3 DEF p, q
<1>5. Total(Without(f, {c})) \in Nat
  <2>1. Without(f, {c}) \in [S -> Nat]
    BY DEF Without
  <2> QED BY <2>1, TotalType
<1>6. /\ Total(f) = Total(Without(f, {c})) + f[c]
      /\ Total(g) = Total(Without(g, {c})) + g[c]
  BY <1>4, TotalSplit
<1> QED BY <1>1, <1>5, <1>6

(* Parts that agree but for c differ in total by what c contributes.       *)
THEOREM TotalMove ==
  ASSUME NEW S, IsFiniteSet(S), NEW f \in [S -> Nat], NEW g \in [S -> Nat],
         NEW D, NEW E, NEW c \in S,
         \A d \in S \ {c} : (d \in D <=> d \in E) /\ (d \in D => f[d] = g[d])
  PROVE  Total(Within(g, E)) + (IF c \in D THEN f[c] ELSE 0)
            = Total(Within(f, D)) + (IF c \in E THEN g[c] ELSE 0)
<1> DEFINE p == Within(f, D)
           q == Within(g, E)
<1>1. /\ p \in [S -> Nat] /\ q \in [S -> Nat]
      /\ p[c] = IF c \in D THEN f[c] ELSE 0
      /\ q[c] = IF c \in E THEN g[c] ELSE 0
      /\ \A d \in S \ {c} : p[d] = q[d]
  BY DEF Within
<1>2. Total(q) + p[c] = Total(p) + q[c]
  <2> HIDE DEF p, q
  <2> QED BY <1>1, TotalUpdate
<1> QED BY <1>1, <1>2

(* Taking a subset F out of a part D takes out F's own total.              *)
THEOREM TotalRemove ==
  ASSUME NEW S, IsFiniteSet(S), NEW f \in [S -> Nat], NEW D, NEW F, F \subseteq D
  PROVE  /\ Total(Within(f, D)) = Total(Within(f, D \ F)) + Total(Within(f, F))
         /\ Total(Within(f, D)) \in Nat
         /\ Total(Within(f, D \ F)) \in Nat
         /\ Total(Within(f, F)) \in Nat
<1>1. /\ Within(f, D) \in [S -> Nat]
      /\ Within(f, D \ F) \in [S -> Nat]
      /\ Within(f, F) \in [S -> Nat]
  BY DEF Within
<1>2. \A c \in S : \/ Within(f, D)[c] = Within(f, D \ F)[c] /\ Within(f, F)[c] = 0
                   \/ Within(f, D)[c] = Within(f, F)[c] /\ Within(f, D \ F)[c] = 0
  BY DEF Within
<1>3. Total(Within(f, D)) = Total(Within(f, D \ F)) + Total(Within(f, F))
  <2> DEFINE a == Within(f, D)
             g == Within(f, D \ F)
             h == Within(f, F)
  <2>1. /\ a \in [S -> Nat] /\ g \in [S -> Nat] /\ h \in [S -> Nat]
        /\ \A c \in S : (a[c] = g[c] /\ h[c] = 0) \/ (a[c] = h[c] /\ g[c] = 0)
    BY <1>1, <1>2
  <2> HIDE DEF a, g, h
  <2>2. Total(a) = Total(g) + Total(h)
    BY <2>1, TotalDisjoint
  <2> QED BY <2>2 DEF a, g, h
<1> QED BY <1>1, <1>3, TotalType
=============================================================================
