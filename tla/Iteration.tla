----------------------------- MODULE Iteration -----------------------------
(***************************************************************************)
(* Facts about functions on the natural numbers that are defined by        *)
(* recursion, g[0] = x and g[k + 1] = F[g[k]], and what they reach when    *)
(* their values are growing subsets of a finite set.  The operators of the *)
(* models that iterate something are of this form.  And what is in an      *)
(* enumeration of a finite set: hash maps are read in such an order.       *)
(*                                                                         *)
(* Induction is stated for sets of numbers, not for predicates: what holds *)
(* of 0 and is passed on to n + 1 is a set that contains Nat.              *)
(***************************************************************************)
EXTENDS SequencesExt, FiniteSetTheorems, WellFoundedInduction, TLAPS

Below == {p \in Nat \X Nat : p[1] < p[2]}

(* A set of numbers that is not empty has a least one.                      *)
LEMMA LeastNumber ==
  ASSUME NEW T, T \subseteq Nat, T # {}
  PROVE  \E x \in T : \A y \in T : x =< y
<1>1. IsWellFoundedOn(Below, Nat)
  BY NatLessThanWellFounded DEF Below, OpToRel
<1>2. PICK x \in T : \A y \in T : ~(<<y, x>> \in Below)
  BY <1>1, WFMin
<1>3. \A y \in T : ~(y < x)
  BY <1>2 DEF Below
<1>4. \A y \in T : x \in Nat /\ y \in Nat
  OBVIOUS
<1>5. \A y \in T : x =< y
  BY <1>3, <1>4
<1> QED
  BY <1>5

(* Induction: a set of numbers without a least missing one misses none.     *)
LEMMA NatSet ==
  ASSUME NEW S, 0 \in S, \A n \in Nat : n \in S => n + 1 \in S
  PROVE  Nat \subseteq S
<1> SUFFICES ASSUME Nat \ S # {} PROVE FALSE
  OBVIOUS
<1>1. PICK x \in Nat \ S : \A y \in Nat \ S : x =< y
  BY LeastNumber
<1>2. x # 0 /\ x \in Nat
  BY <1>1
<1>3. x - 1 \in Nat /\ (x - 1) + 1 = x /\ ~(x =< x - 1)
  BY <1>2
<1>4. x - 1 \in S
  BY <1>1, <1>3
<1> QED
  BY <1>1, <1>3, <1>4
-----------------------------------------------------------------------------
(* g is F iterated from x. *)
Iterates(g, F, x) == g = [k \in Nat |-> IF k = 0 THEN x ELSE F[g[k - 1]]]

(* The first n + 1 values. *)
Prefix(h, F, x, n) ==
  /\ h = [k \in 0 .. n |-> h[k]]
  /\ h[0] = x
  /\ \A k \in 0 .. n : k # 0 => h[k] = F[h[k - 1]]

(* There are prefixes of every length. *)
LEMMA PrefixExists ==
  ASSUME NEW F, NEW x, NEW n \in Nat
  PROVE  \E h : Prefix(h, F, x, n)
<1> DEFINE S == {k \in Nat : \E h : Prefix(h, F, x, k)}
<1>1. 0 \in S
  <2> DEFINE h == [k \in 0 .. 0 |-> x]
  <2>1. Prefix(h, F, x, 0)
    BY DEF Prefix
  <2> QED
    BY <2>1
<1>2. \A k \in Nat : k \in S => k + 1 \in S
  <2> SUFFICES ASSUME NEW k \in Nat, NEW h, Prefix(h, F, x, k)
               PROVE  \E g : Prefix(g, F, x, k + 1)
    OBVIOUS
  <2> DEFINE g == [i \in 0 .. k + 1 |-> IF i = k + 1 THEN F[h[k]] ELSE h[i]]
  <2>1. g = [i \in 0 .. k + 1 |-> g[i]]
    OBVIOUS
  <2>2. g[0] = x
    BY DEF Prefix
  <2>3. ASSUME NEW i \in 0 .. k + 1, i # 0 PROVE g[i] = F[g[i - 1]]
    <3>1. CASE i = k + 1
      BY <3>1
    <3>2. CASE i # k + 1
      <4>1. i \in 0 .. k /\ i - 1 \in 0 .. k + 1 /\ i - 1 # k + 1
        BY <2>3, <3>2
      <4>2. h[i] = F[h[i - 1]]
        BY <2>3, <4>1 DEF Prefix
      <4> QED
        BY <3>2, <4>1, <4>2
    <3> QED
      BY <3>1, <3>2
  <2>X. Prefix(g, F, x, k + 1)
    <3> HIDE DEF g
    <3> QED
      BY <2>1, <2>2, <2>3 DEF Prefix
  <2> QED
    BY <2>X
<1> HIDE DEF S
<1>3. n \in S
  BY <1>1, <1>2, NatSet
<1> QED
  BY <1>3 DEF S

(* Prefixes agree where both are defined. *)
LEMMA PrefixUnique ==
  ASSUME NEW F, NEW x, NEW m \in Nat, NEW n \in Nat, NEW h, NEW g,
         Prefix(h, F, x, m), Prefix(g, F, x, n)
  PROVE  \A k \in Nat : k =< m /\ k =< n => h[k] = g[k]
<1> DEFINE S == {k \in Nat : k =< m /\ k =< n => h[k] = g[k]}
<1>1. 0 \in S
  BY DEF Prefix
<1>2. \A k \in Nat : k \in S => k + 1 \in S
  <2> SUFFICES ASSUME NEW k \in Nat, k =< m /\ k =< n => h[k] = g[k], k + 1 =< m, k + 1 =< n
               PROVE  h[k + 1] = g[k + 1]
    OBVIOUS
  <2>1. k + 1 \in 0 .. m /\ k + 1 \in 0 .. n /\ k + 1 # 0 /\ (k + 1) - 1 = k /\ k =< m /\ k =< n
    OBVIOUS
  <2>2. h[k + 1] = F[h[k]] /\ g[k + 1] = F[g[k]]
    BY <2>1 DEF Prefix
  <2> QED
    BY <2>1, <2>2
<1> HIDE DEF S
<1>3. Nat \subseteq S
  BY <1>1, <1>2, NatSet
<1> QED
  BY <1>3 DEF S

(* Something is F iterated from x. *)
LEMMA IterationExists ==
  ASSUME NEW F, NEW x
  PROVE  \E g : Iterates(g, F, x)
<1> DEFINE h(n) == CHOOSE f : Prefix(f, F, x, n)
           g == [n \in Nat |-> h(n)[n]]
<1>1. \A n \in Nat : Prefix(h(n), F, x, n)
  BY PrefixExists
<1> HIDE DEF h
<1>2. g[0] = x
  BY <1>1 DEF Prefix
<1>3. ASSUME NEW n \in Nat, n # 0 PROVE g[n] = F[g[n - 1]]
  <2>1. n - 1 \in Nat /\ n \in 0 .. n /\ n - 1 =< n
    BY <1>3
  <2>2. h(n)[n] = F[h(n)[n - 1]]
    BY <1>1, <1>3, <2>1 DEF Prefix
  <2>3. h(n)[n - 1] = h(n - 1)[n - 1]
    BY <1>1, <2>1, PrefixUnique
  <2> QED
    BY <2>1, <2>2, <2>3
<1>4. g = [n \in Nat |-> IF n = 0 THEN x ELSE F[g[n - 1]]]
  BY <1>2, <1>3
<1> QED
  BY <1>4 DEF Iterates

(* Its steps. *)
LEMMA IterationSteps ==
  ASSUME NEW F, NEW x, NEW g, Iterates(g, F, x)
  PROVE  g[0] = x /\ \A k \in Nat : g[k + 1] = F[g[k]]
<1>1. \A k \in Nat : k + 1 \in Nat /\ k + 1 # 0 /\ (k + 1) - 1 = k
  OBVIOUS
<1> QED
  BY <1>1 DEF Iterates

(* Only one function has these steps. *)
LEMMA IterationUnique ==
  ASSUME NEW F, NEW x, NEW g, Iterates(g, F, x),
         NEW w, w = [k \in Nat |-> w[k]], w[0] = x,
         \A k \in Nat : w[k] = g[k] => w[k + 1] = F[g[k]]
  PROVE  w = g
<1> DEFINE S == {k \in Nat : w[k] = g[k]}
<1>1. 0 \in S /\ \A k \in Nat : k \in S => k + 1 \in S
  BY IterationSteps
<1>2. g = [k \in Nat |-> g[k]]
  BY DEF Iterates
<1> HIDE DEF S
<1>3. Nat \subseteq S
  BY <1>1, NatSet
<1>4. \A k \in Nat : w[k] = g[k]
  BY <1>3 DEF S
<1> QED
  BY <1>2, <1>4

(* It stays in a set that F does not leave. *)
LEMMA IterationType ==
  ASSUME NEW F, NEW V, NEW x \in V, \A v \in V : F[v] \in V, NEW g, Iterates(g, F, x)
  PROVE  \A k \in Nat : g[k] \in V
<1> DEFINE S == {k \in Nat : g[k] \in V}
<1>1. 0 \in S /\ \A k \in Nat : k \in S => k + 1 \in S
  BY IterationSteps
<1> HIDE DEF S
<1>2. Nat \subseteq S
  BY <1>1, NatSet
<1> QED
  BY <1>2 DEF S
-----------------------------------------------------------------------------
(* A set that grows within a finite set N: until it stops growing each step *)
(* adds at least one element, so it stops when there are none left to add.  *)
LEMMA GrowthStopsBy ==
  ASSUME NEW F, NEW N, IsFiniteSet(N), NEW x \in SUBSET N,
         \A A \in SUBSET N : F[A] \in SUBSET N /\ A \subseteq F[A],
         NEW g, Iterates(g, F, x),
         NEW c \in Nat, Cardinality(N) =< c + Cardinality(x)
  PROVE  /\ g[c] \in SUBSET N
         /\ x \subseteq g[c]
         /\ F[g[c]] = g[c]
<1> DEFINE a == Cardinality(x)
           S == {k \in Nat : x \subseteq g[k] /\ (F[g[k]] = g[k] \/ k + a =< Cardinality(g[k]))}
<1>1. Cardinality(N) \in Nat /\ a \in Nat
  BY FS_CardinalityType, FS_Subset
<1>2. \A k \in Nat : g[k] \in SUBSET N
  BY IterationType
<1>3. \A k \in Nat : /\ IsFiniteSet(g[k]) /\ Cardinality(g[k]) \in Nat
                     /\ Cardinality(g[k]) =< Cardinality(N)
  BY <1>2, FS_Subset, FS_CardinalityType
<1>4. g[0] = x /\ \A k \in Nat : g[k + 1] = F[g[k]] /\ g[k] \subseteq g[k + 1]
  BY <1>2, IterationSteps
<1>5. 0 \in S
  BY <1>1, <1>4
<1>6. ASSUME NEW k \in S PROVE k + 1 \in S
  <2>1. CASE F[g[k]] = g[k]
    BY <1>4, <2>1
  <2>2. CASE F[g[k]] # g[k] /\ k + a =< Cardinality(g[k])
    <3>1. g[k] \subseteq g[k + 1] /\ g[k] # g[k + 1]
      BY <1>4, <2>2
    <3>2. Cardinality(g[k]) < Cardinality(g[k + 1])
      <4>1. Cardinality(g[k]) =< Cardinality(g[k + 1])
        BY <1>3, <3>1, FS_Subset
      <4>2. Cardinality(g[k]) # Cardinality(g[k + 1])
        BY <1>3, <3>1, FS_Subset
      <4> QED
        BY <1>3, <4>1, <4>2
    <3> HIDE DEF a
    <3>3. (k + 1) + a =< Cardinality(g[k + 1])
      BY <1>1, <1>3, <2>2, <3>2
    <3> QED
      BY <1>4, <3>3
  <2> QED
    BY <2>1, <2>2
<1> HIDE DEF S, a
<1>7. c \in S
  BY <1>5, <1>6, NatSet
<1>8. x \subseteq g[c] /\ (F[g[c]] = g[c] \/ c + a =< Cardinality(g[c]))
  BY <1>7 DEF S
<1>9. CASE c + a =< Cardinality(g[c])
  <2> DEFINE d == Cardinality(g[c])
             n == Cardinality(N)
  <2>1. d \in Nat /\ n \in Nat /\ a \in Nat /\ d =< n /\ n =< c + a /\ c + a =< d
    BY <1>1, <1>3, <1>9 DEF a
  <2> HIDE DEF d, n
  <2>2. d = n
    BY <2>1
  <2>3. g[c] \in SUBSET N /\ Cardinality(g[c]) = Cardinality(N)
    BY <1>2, <2>2 DEF d, n
  <2>4. g[c] = N
    BY <2>3, FS_Subset
  <2>5. F[g[c]] = N
    <3>1. N \in SUBSET N
      OBVIOUS
    <3>2. F[N] \in SUBSET N /\ N \subseteq F[N]
      BY <3>1
    <3> QED
      BY <2>4, <3>2
  <2> QED
    BY <1>2, <1>8, <2>4, <2>5
<1> QED
  BY <1>2, <1>8, <1>9

LEMMA GrowthStops ==
  ASSUME NEW F, NEW N, IsFiniteSet(N), NEW x \in SUBSET N,
         \A A \in SUBSET N : F[A] \in SUBSET N /\ A \subseteq F[A],
         NEW g, Iterates(g, F, x)
  PROVE  /\ Cardinality(N) \in Nat
         /\ g[Cardinality(N)] \in SUBSET N
         /\ x \subseteq g[Cardinality(N)]
         /\ F[g[Cardinality(N)]] = g[Cardinality(N)]
<1> DEFINE c == Cardinality(N)
           a == Cardinality(x)
<1>1. c \in Nat /\ a \in Nat
  BY FS_CardinalityType, FS_Subset
<1>2. Cardinality(N) =< c + Cardinality(x)
  <2> HIDE DEF c, a
  <2>1. c =< c + a
    BY <1>1
  <2> QED
    BY <2>1 DEF c, a
<1>3. IsFiniteSet(N) /\ x \in SUBSET N /\ Iterates(g, F, x)
  OBVIOUS
<1>4. \A A \in SUBSET N : F[A] \in SUBSET N /\ A \subseteq F[A]
  OBVIOUS
<1>5. c \in Nat
  BY <1>1
<1> HIDE DEF c
<1>6. g[c] \in SUBSET N /\ x \subseteq g[c] /\ F[g[c]] = g[c]
  BY ONLY <1>2, <1>3, <1>4, <1>5, GrowthStopsBy
<1> QED
  BY <1>5, <1>6 DEF c
(* What a growing set has become when it stops: the least set that holds x   *)
(* and is left by no step.                                                  *)
IsLeastClosed(R, F, N, x) ==
  /\ R \in SUBSET N
  /\ x \subseteq R
  /\ F[R] = R
  /\ \A S \in SUBSET N : x \subseteq S /\ (\A A \in SUBSET S : F[A] \subseteq S) => R \subseteq S

LEMMA LeastClosed ==
  ASSUME NEW F, NEW N, IsFiniteSet(N), NEW x \in SUBSET N,
         \A A \in SUBSET N : F[A] \in SUBSET N /\ A \subseteq F[A],
         NEW c \in Nat, Cardinality(N) =< c + Cardinality(x),
         NEW w, w = [k \in Nat |-> w[k]], w[0] = x,
         \A k \in Nat : w[k] \in SUBSET N => w[k + 1] = F[w[k]]
  PROVE  IsLeastClosed(w[c], F, N, x)
<1>1. PICK g : Iterates(g, F, x)
  BY IterationExists
<1>2. \A k \in Nat : g[k] \in SUBSET N
  <2> DEFINE V == SUBSET N
  <2>1. x \in V /\ \A v \in V : F[v] \in V
    OBVIOUS
  <2> HIDE DEF V
  <2>2. \A k \in Nat : g[k] \in V
    BY ONLY <1>1, <2>1, IterationType
  <2> QED
    BY <2>2 DEF V
<1>3. \A k \in Nat : w[k] = g[k] => w[k + 1] = F[g[k]]
  BY <1>2
<1>4. w = g
  BY <1>1, <1>3, IterationUnique
<1>5. w[c] \in SUBSET N /\ x \subseteq w[c] /\ F[w[c]] = w[c]
  BY <1>1, <1>4, GrowthStopsBy
<1>6. ASSUME NEW S \in SUBSET N, x \subseteq S, \A A \in SUBSET S : F[A] \subseteq S
      PROVE  w[c] \subseteq S
  <2> DEFINE V == SUBSET S
  <2>1. x \in V /\ \A v \in V : F[v] \in V
    BY <1>6
  <2> HIDE DEF V
  <2>2. \A k \in Nat : g[k] \in V
    BY ONLY <1>1, <2>1, IterationType
  <2> QED
    BY <1>4, <2>2 DEF V
<1> QED
  BY <1>5, <1>6 DEF IsLeastClosed
-----------------------------------------------------------------------------
(* An enumeration of a finite set: injective, so nothing is left out.       *)
LEMMA SomeOrder ==
  ASSUME NEW S, IsFiniteSet(S), NEW o \in SetToSeqs(S)
  PROVE  /\ o \in [1 .. Cardinality(S) -> S]
         /\ \A x \in S : \E i \in 1 .. Cardinality(S) : o[i] = x
<1> DEFINE c == Cardinality(S)
<1>1. c \in Nat
  BY FS_CardinalityType
<1>2. o \in [1 .. c -> S] /\ \A i, j \in 1 .. c : i # j => o[i] # o[j]
  BY DEF SetToSeqs
<1>3. IsFiniteSet(1 .. c) /\ Cardinality(1 .. c) = c
  <2> HIDE DEF c
  <2> QED
    BY <1>1, FS_Interval
<1>4. o \in Injection(1 .. c, S)
  BY <1>2 DEF Injection, IsInjective
<1>5. o \in Surjection(1 .. c, S)
  BY <1>3, <1>4, FS_Injection
<1> QED
  BY <1>2, <1>5 DEF Surjection

(* The image of a finite set is finite. *)
LEMMA FiniteImage ==
  ASSUME NEW S, IsFiniteSet(S), NEW F
  PROVE  IsFiniteSet({F[x] : x \in S})
<1> DEFINE T == {F[x] : x \in S}
           f == [x \in S |-> F[x]]
<1>1. f \in Surjection(S, T)
  BY DEF Surjection
<1> HIDE DEF f, T
<1>2. IsFiniteSet(T)
  BY <1>1, FS_Surjection
<1> QED
  BY <1>2 DEF T
=============================================================================
