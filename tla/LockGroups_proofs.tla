------------------------- MODULE LockGroups_proofs -------------------------
(***************************************************************************)
(* Proofs about guards and the places of their locks, for all crates with  *)
(* finitely many guards: whatever the lock objects and their points-to sets*)
(* are, in every order of the guards, the trees of the union-find of       *)
(* construct_lock_with_dfs are the connected components of may-alias; and  *)
(* the collector finds the lock object of every guard that owns a lock, in *)
(* bodies that move their guards from local to local.                      *)
(***************************************************************************)
EXTENDS LockGroups, Iteration

(* A function that leads everyone to a root, which it maps to itself: no   *)
(* set is left by nobody unless it contains a root.                        *)
Forest(p) ==
  /\ p \in [DOMAIN p -> DOMAIN p]
  /\ IsFiniteSet(DOMAIN p)
  /\ \A S \in SUBSET DOMAIN p :
       S # {} /\ (\A s \in S : p[s] \in S) => \E s \in S : p[s] = s

(* Find of the tree p. *)
RootOf(p, g) ==
  LET up[k \in Nat] == IF k = 0 THEN g ELSE p[up[k - 1]]
  IN  up[Cardinality(DOMAIN p)]

(* The way up from g. *)
LEMMA WayUp ==
  ASSUME NEW p, NEW g
  PROVE  \E up : Iterates(up, p, g) /\ RootOf(p, g) = up[Cardinality(DOMAIN p)]
<1> DEFINE up == CHOOSE f : f = [k \in Nat |-> IF k = 0 THEN g ELSE p[f[k - 1]]]
<1>1. Iterates(up, p, g)
  BY IterationExists DEF Iterates
<1>2. RootOf(p, g) = up[Cardinality(DOMAIN p)]
  BY DEF RootOf
<1> QED
  BY <1>1, <1>2

(* It goes no further than a root.                                         *)
LEMMA RootIsKept ==
  ASSUME NEW p, NEW g, NEW up, Iterates(up, p, g),
         NEW m \in Nat, p[up[m]] = up[m], NEW n \in Nat, m =< n
  PROVE  up[n] = up[m]
<1> DEFINE S == {k \in Nat : up[m + k] = up[m]}
<1>1. 0 \in S
  OBVIOUS
<1>2. ASSUME NEW k \in S PROVE k + 1 \in S
  <2>1. m + k \in Nat /\ m + (k + 1) = (m + k) + 1
    OBVIOUS
  <2>2. up[(m + k) + 1] = p[up[m + k]]
    BY <2>1, IterationSteps
  <2> QED
    BY <2>1, <2>2
<1> HIDE DEF S
<1>3. Nat \subseteq S
  BY <1>1, <1>2, NatSet DEF S
<1>4. n - m \in S /\ m + (n - m) = n
  BY <1>3
<1> QED
  BY <1>4 DEF S

(* It meets a root within as many steps as there are guards: if it does not,*)
(* it meets some guard twice and goes round, and the round has no root.    *)
LEMMA RootIsMet ==
  ASSUME NEW p, Forest(p), NEW g \in DOMAIN p, NEW up, Iterates(up, p, g)
  PROVE  /\ Cardinality(DOMAIN p) \in Nat
         /\ \A k \in Nat : up[k] \in DOMAIN p
         /\ p[up[Cardinality(DOMAIN p)]] = up[Cardinality(DOMAIN p)]
<1> DEFINE G == DOMAIN p
           c == Cardinality(G)
<1>1. c \in Nat /\ IsFiniteSet(G)
  BY FS_CardinalityType DEF Forest
<1>2. \A k \in Nat : up[k] \in G
  <2>1. \A v \in G : p[v] \in G
    BY DEF Forest
  <2> HIDE DEF G
  <2>2. g \in G
    BY DEF G
  <2> QED
    BY <2>1, <2>2, IterationType
<1>3. \E i, j \in 0 .. c : i # j /\ up[i] = up[j]
  <2> DEFINE f == [i \in 0 .. c |-> up[i]]
  <2> HIDE DEF c
  <2>1. IsFiniteSet(0 .. c) /\ Cardinality(0 .. c) = c + 1
    BY <1>1, FS_Interval
  <2>2. f \in [0 .. c -> G]
    BY <1>1, <1>2
  <2>3. Cardinality(G) < Cardinality(0 .. c)
    BY <1>1, <2>1 DEF c
  <2> HIDE DEF f, G
  <2>4. \E i, j \in 0 .. c : i # j /\ f[i] = f[j]
    BY <1>1, <2>1, <2>2, <2>3, FS_PigeonHole
  <2> QED
    BY <2>4 DEF f
<1>4. PICK i \in 0 .. c, j \in 0 .. c : i < j /\ up[i] = up[j]
  BY <1>1, <1>3
<1> DEFINE S == {up[m] : m \in i .. j - 1}
<1>5. S # {} /\ S \in SUBSET G
  <2>1. i \in i .. j - 1
    BY <1>1, <1>4
  <2>2. \A m \in i .. j - 1 : m \in Nat
    BY <1>1, <1>4
  <2> QED
    BY <1>2, <2>1, <2>2
<1>6. \A m \in i .. j - 1 : p[up[m]] \in S
  <2> SUFFICES ASSUME NEW m \in i .. j - 1 PROVE p[up[m]] \in S
    OBVIOUS
  <2>1. m \in Nat /\ (m + 1 = j \/ m + 1 \in i .. j - 1)
    BY <1>1, <1>4
  <2>2. up[m + 1] = p[up[m]]
    BY <2>1, IterationSteps
  <2>3. i \in i .. j - 1
    BY <1>1, <1>4
  <2> QED
    BY <1>4, <2>1, <2>2, <2>3
<1>7. PICK m \in i .. j - 1 : p[up[m]] = up[m]
  BY <1>5, <1>6 DEF Forest
<1>8. m \in Nat /\ m =< c
  BY <1>1, <1>4
<1> HIDE DEF c, S
<1>9. up[c] = up[m]
  BY <1>1, <1>7, <1>8, RootIsKept
<1> QED
  BY <1>1, <1>2, <1>7, <1>9 DEF c

(* It stays on the same side of a set that is left by nobody and entered by*)
(* nobody.                                                                 *)
LEMMA SameSide ==
  ASSUME NEW p, Forest(p), NEW g \in DOMAIN p,
         NEW D, \A s \in DOMAIN p : s \in D <=> p[s] \in D
  PROVE  g \in D <=> RootOf(p, g) \in D
<1> DEFINE c == Cardinality(DOMAIN p)
<1>1. PICK up : Iterates(up, p, g) /\ RootOf(p, g) = up[c]
  BY WayUp
<1>2. c \in Nat /\ (\A k \in Nat : up[k] \in DOMAIN p)
  BY <1>1, RootIsMet
<1>3. up[0] = g /\ \A k \in Nat : up[k + 1] = p[up[k]]
  BY <1>1, IterationSteps
<1> DEFINE S == {k \in Nat : g \in D <=> up[k] \in D}
<1>4. 0 \in S /\ \A k \in Nat : k \in S => k + 1 \in S
  BY <1>2, <1>3
<1> HIDE DEF S
<1>5. c \in S
  BY <1>2, <1>4, NatSet
<1> QED
  BY <1>1, <1>5 DEF S

(* What a root is: the root of whoever leads to it, and its own.           *)
LEMMA RootFacts ==
  ASSUME NEW p, Forest(p), NEW g \in DOMAIN p
  PROVE  /\ RootOf(p, g) \in DOMAIN p
         /\ p[RootOf(p, g)] = RootOf(p, g)
         /\ p[g] \in DOMAIN p
         /\ RootOf(p, p[g]) = RootOf(p, g)
         /\ p[g] = g => RootOf(p, g) = g
<1> DEFINE c == Cardinality(DOMAIN p)
<1>1. PICK up : Iterates(up, p, g) /\ RootOf(p, g) = up[c]
  BY WayUp
<1>2. c \in Nat /\ (\A k \in Nat : up[k] \in DOMAIN p) /\ p[up[c]] = up[c]
  BY <1>1, RootIsMet
<1>3. up[0] = g /\ \A k \in Nat : up[k + 1] = p[up[k]]
  BY <1>1, IterationSteps
<1>4. p[g] \in DOMAIN p
  BY DEF Forest
<1>5. PICK above : Iterates(above, p, p[g]) /\ RootOf(p, p[g]) = above[c]
  BY WayUp
<1> HIDE DEF c
<1>6. above[c] = up[c]
  <2> DEFINE S == {k \in Nat : above[k] = up[k + 1]}
  <2>1. 0 \in S
    <3>1. above[0] = p[g] /\ up[0 + 1] = p[up[0]]
      BY <1>3, <1>5, IterationSteps
    <3> QED
      BY <1>3, <3>1
  <2>2. ASSUME NEW k \in S PROVE k + 1 \in S
    <3>1. above[k + 1] = p[above[k]] /\ up[(k + 1) + 1] = p[up[k + 1]]
      BY <1>3, <1>5, IterationSteps
    <3> QED
      BY <3>1
  <2> HIDE DEF S
  <2>3. c \in S
    BY <1>2, <2>1, <2>2, NatSet DEF S
  <2> QED
    BY <1>2, <1>3, <2>3 DEF S
<1>7. p[g] = g => up[c] = g
  BY <1>1, <1>2, <1>3, RootIsKept
<1> QED
  BY <1>1, <1>2, <1>4, <1>5, <1>6, <1>7

(* A root r hung under a root t: what had r as its root has t, and nothing *)
(* else changes.                                                           *)
LEMMA Hanging ==
  ASSUME NEW p, Forest(p), NEW r \in DOMAIN p, NEW t \in DOMAIN p, p[r] = r, p[t] = t,
         NEW q \in [DOMAIN p -> DOMAIN p], q[r] = t, \A s \in DOMAIN p : s # r => q[s] = p[s]
  PROVE  /\ Forest(q)
         /\ \A g \in DOMAIN p : RootOf(q, g) = IF RootOf(p, g) = r THEN t ELSE RootOf(p, g)
<1>1. CASE r = t
  <2>1. q = p
    BY <1>1 DEF Forest
  <2> QED
    BY <1>1, <2>1
<1>2. CASE r # t
  <2>1. /\ DOMAIN q = DOMAIN p /\ q \in [DOMAIN p -> DOMAIN p]
        /\ q[r] = t /\ \A s \in DOMAIN p : s # r => q[s] = p[s]
    BY DEF Forest
  <2>2. Forest(q)
    <3> SUFFICES ASSUME NEW S \in SUBSET DOMAIN p, S # {}, \A s \in S : q[s] \in S
                 PROVE  \E s \in S : q[s] = s
      BY <2>1 DEF Forest
    <3>1. CASE r \in S
      <4>1. t \in S /\ q[t] = t
        BY <1>2, <2>1, <3>1
      <4> QED
        BY <4>1
    <3>2. CASE r \notin S
      <4>1. \A s \in S : q[s] = p[s]
        BY <2>1, <3>2
      <4> QED
        BY <4>1 DEF Forest
    <3> QED
      BY <3>1, <3>2
  <2> DEFINE New(x) == IF x = r THEN t ELSE x
  <2>3. ASSUME NEW g \in DOMAIN p PROVE RootOf(q, g) = New(RootOf(p, g))
    <3> DEFINE root == RootOf(q, g)
               D == {x \in DOMAIN p : New(RootOf(p, x)) = root}
    <3>1. root \in DOMAIN p /\ q[root] = root
      BY <2>1, <2>2, RootFacts
    <3>2. root # r /\ p[root] = root
      BY <1>2, <2>1, <3>1
    <3>3. RootOf(p, root) = root
      BY <3>1, <3>2, RootFacts
    <3> HIDE DEF root
    <3>4. root \in D
      BY <3>1, <3>2, <3>3
    <3>5. ASSUME NEW s \in DOMAIN q PROVE s \in D <=> q[s] \in D
      <4>1. CASE s = r
        <5>1. RootOf(p, r) = r /\ RootOf(p, t) = t
          BY RootFacts
        <5> QED
          BY <1>2, <2>1, <4>1, <5>1
      <4>2. CASE s # r
        <5>1. q[s] = p[s] /\ p[s] \in DOMAIN p /\ RootOf(p, p[s]) = RootOf(p, s)
          BY <2>1, <4>2, RootFacts
        <5> QED
          BY <2>1, <5>1
      <4> QED
        BY <4>1, <4>2
    <3> HIDE DEF D
    <3>6. g \in D <=> root \in D
      <4>1. g \in DOMAIN q
        BY <2>1
      <4> QED
        BY <2>2, <3>5, <4>1, SameSide DEF root
    <3> QED
      BY <3>4, <3>6 DEF D, root
  <2> QED
    BY <2>1, <2>2, <2>3
<1> QED
  BY <1>1, <1>2
-----------------------------------------------------------------------------
G == DOMAIN guards

(* A crate has finitely many guards; of the guards' kinds, of the bodies and*)
(* of the points-to sets nothing is assumed.                               *)
FiniteCrates == \A c \in Crates : IsFiniteSet(DOMAIN c.guard)

(* Guards of C are the same lock as guards of C only. *)
Separate(C) == \A g, h \in G : SameLock(g, h) => (g \in C <=> h \in C)

(* The pair of the i-th and the j-th guard has been compared. *)
Compared(i, j) == i < pair[1] \/ (i = pair[1] /\ j < pair[2])

(* Every guard has a place in the order; the trees are trees; they do not  *)
(* join what may-alias separates; and they join what has been compared.    *)
Ordered ==
  /\ order \in [1 .. Cardinality(G) -> G]
  /\ \A g \in G : \E i \in 1 .. Cardinality(G) : order[i] = g

PairInOrder ==
  /\ pair[1] \in Nat \ {0} /\ pair[2] \in Nat /\ pair[1] < pair[2]
  /\ pair[2] =< Cardinality(G) \/ pair[1] >= Cardinality(G)

Trees == DOMAIN parent = G /\ Forest(parent)

NothingElseJoined ==
  \A C \in SUBSET G : Separate(C) => \A g \in G : g \in C <=> parent[g] \in C

ComparedAreJoined ==
  \A i, j \in 1 .. Cardinality(G) :
    i < j /\ Compared(i, j) /\ SameLock(order[i], order[j]) =>
      RootOf(parent, order[i]) = RootOf(parent, order[j])

(* A tree has one kind of place, the one some guard of the tree asks for.  *)
KindOf(g) == IF guards[g] = "mutex" THEN "mutex" ELSE "rwlock"

KindsTaken ==
  \A g \in G :
    /\ \E h \in G : RootOf(parent, h) = RootOf(parent, g) /\ place[g].kind = KindOf(h)
    /\ \A h \in G : RootOf(parent, h) = RootOf(parent, g) => place[h].kind = place[g].kind

(* The groups are components when all pairs have been compared; inductive  *)
(* is how far the comparison has come.                                     *)
IInv ==
  /\ phase \in {"collect", "unite", "done"}
  /\ IsFiniteSet(G)
  /\ phase = "collect" => pair = <<1, 2>>
  /\ phase # "collect" => /\ Ordered /\ PairInOrder /\ Trees
                          /\ NothingElseJoined /\ ComparedAreJoined
  /\ phase = "done" => /\ pair[1] >= Cardinality(G)
                       /\ \A g \in G : place[g].group = RootOf(parent, g)
                       /\ KindsTaken

(* May-alias is symmetric, whatever lock objects and points-to sets are. *)
LEMMA SameLockSymmetric == \A g, h : SameLock(g, h) <=> SameLock(h, g)
<1>1. \A o, p : SameParameter(o, p) <=> SameParameter(p, o)
  BY DEF SameParameter
<1>2. \A o, p : MayAlias(o, p) <=> MayAlias(p, o)
  BY <1>1 DEF MayAlias
<1> QED
  BY <1>2 DEF SameLock

(* It depends on the crate and on the lock objects. *)
LEMMA SameLockKept ==
  ASSUME crate' = crate, objects' = objects
  PROVE  \A a, b : SameLock(a, b)' <=> SameLock(a, b)
BY DEF SameLock, ObjectOf, MayAlias, SameParameter, Denoted, Pts, StoredInto, At

LEMMA OrderLength ==
  ASSUME IsFiniteSet(G), Ordered
  PROVE  /\ Cardinality(G) \in Nat
         /\ Len(order) = Cardinality(G)
         /\ DOMAIN order = 1 .. Cardinality(G)
<1>1. Cardinality(G) \in Nat
  BY FS_CardinalityType
<1>2. order \in Seq(G) /\ DOMAIN order = 1 .. Cardinality(G)
  BY <1>1 DEF Ordered
<1> QED
  BY <1>1, <1>2
-----------------------------------------------------------------------------
LEMMA InitIInv ==
  ASSUME FiniteCrates, Init
  PROVE  IInv
BY DEF FiniteCrates, Init, IInv, G

(* What one step of the collection reads changes the guards by one at most.*)
LEMMA CollectIInv ==
  ASSUME IInv, Collect
  PROVE  IInv'
<1>1. phase' = phase /\ pair' = pair /\ phase = "collect"
  BY DEF Collect, Use, Ref, Acquire, Extract, Wait, Ignore, Reading
<1>2. guards' = guards \/ \E x, v : guards' = With(guards, x, v)
  BY DEF Collect, Use, Ref, Acquire, Extract, Wait, Ignore
<1>3. IsFiniteSet(G)'
  <2>1. \A x, v : DOMAIN With(guards, x, v) = G \cup {x}
    BY DEF With, G
  <2>2. ASSUME NEW x PROVE IsFiniteSet(G \cup {x})
    <3>1. IsFiniteSet(G)
      BY DEF IInv
    <3> QED
      BY ONLY <3>1, FS_AddElement, Zenon
  <2>3. CASE guards' = guards
    BY <2>3 DEF IInv, G
  <2>4. ASSUME NEW x, NEW v, guards' = With(guards, x, v) PROVE IsFiniteSet(G)'
    <3>1. G' = G \cup {x}
      BY <2>1, <2>4 DEF G
    <3> HIDE DEF G
    <3> QED
      BY <2>2, <3>1
  <2> QED
    BY <1>2, <2>3, <2>4
<1> QED
  BY <1>1, <1>3 DEF IInv

LEMMA EndBodyIInv ==
  ASSUME IInv, EndBody
  PROVE  IInv'
BY DEF IInv, EndBody, G

(* The trees are single guards, and nothing has been compared.             *)
LEMMA StartUnitingIInv ==
  ASSUME IInv, StartUniting
  PROVE  IInv'
<1>1. /\ guards' = guards /\ G' = G /\ IsFiniteSet(G)
      /\ order' \in SetToSeqs(G) /\ phase' = "unite"
      /\ parent' = [g \in G |-> g] /\ pair' = <<1, 2>>
  BY DEF IInv, StartUniting, collectVars, G
<1>2. Ordered'
  <2>1. /\ order' \in [1 .. Cardinality(G) -> G]
        /\ \A g \in G : \E i \in 1 .. Cardinality(G) : order'[i] = g
    BY <1>1, SomeOrder
  <2> QED
    BY <1>1, <2>1 DEF Ordered
<1>3. PairInOrder'
  <2>1. Cardinality(G) \in Nat
    BY <1>1, FS_CardinalityType
  <2> QED
    BY <1>1, <2>1 DEF PairInOrder
<1>4. Trees' /\ NothingElseJoined'
  BY <1>1 DEF Trees, Forest, NothingElseJoined
<1>5. ComparedAreJoined'
  <2>1. \A i, j \in 1 .. Cardinality(G) : ~(i < j /\ Compared(i, j)')
    BY <1>1, FS_CardinalityType DEF Compared
  <2> QED
    BY <1>1, <2>1 DEF ComparedAreJoined
<1> QED
  BY <1>1, <1>2, <1>3, <1>4, <1>5 DEF IInv

(* The pair that follows, and what it says of the pairs before it.         *)
LEMMA NextPair ==
  ASSUME IInv, phase = "unite", pair[2] \in DOMAIN order,
         G' = G, order' = order,
         pair' = IF pair[2] < Len(order) THEN <<pair[1], pair[2] + 1>>
                 ELSE <<pair[1] + 1, pair[1] + 2>>
  PROVE  /\ pair[1] \in 1 .. Cardinality(G) /\ pair[2] \in 1 .. Cardinality(G)
         /\ PairInOrder'
         /\ \A i, j \in 1 .. Cardinality(G) :
              i < j /\ Compared(i, j)' => Compared(i, j) \/ (i = pair[1] /\ j = pair[2])
<1> DEFINE c == Cardinality(G)
<1>1. c \in Nat /\ Len(order) = c /\ DOMAIN order = 1 .. c
  BY OrderLength DEF IInv
<1>2. /\ pair[1] \in Nat \ {0} /\ pair[2] \in Nat /\ pair[1] < pair[2]
      /\ pair[2] =< c
  BY <1>1 DEF IInv, PairInOrder
<1>3. Cardinality(G)' = c
  OBVIOUS
<1> HIDE DEF c
<1>4. CASE pair[2] < c
  <2>1. pair'[1] = pair[1] /\ pair'[2] = pair[2] + 1
    BY <1>1, <1>4
  <2> QED
    BY <1>1, <1>2, <1>3, <1>4, <2>1 DEF PairInOrder, Compared, c
<1>5. CASE pair[2] = c
  <2>1. pair'[1] = pair[1] + 1 /\ pair'[2] = pair[1] + 2
    BY <1>1, <1>2, <1>5
  <2> QED
    BY <1>1, <1>2, <1>3, <1>5, <2>1 DEF PairInOrder, Compared, c
<1> QED
  BY <1>1, <1>2, <1>4, <1>5

(* A union hangs the root of one guard under that of the other.            *)
LEMMA UniteHangs ==
  ASSUME Trees, NEW g \in G, NEW h \in G, Unite(g, h)
  PROVE  /\ DOMAIN parent' = G /\ Forest(parent')
         /\ RootOf(parent, g) \in G /\ RootOf(parent, h) \in G
         /\ parent' = [parent EXCEPT ![RootOf(parent, h)] = RootOf(parent, g)]
         /\ \A x \in G : RootOf(parent', x) = IF RootOf(parent, x) = RootOf(parent, h)
                                              THEN RootOf(parent, g) ELSE RootOf(parent, x)
<1>1. parent' = [parent EXCEPT ![RootOf(parent, h)] = RootOf(parent, g)]
  BY DEF Unite, Find, RootOf
<1>2. DOMAIN parent = G /\ Forest(parent)
  BY DEF Trees
<1> DEFINE r == RootOf(parent, h)
           t == RootOf(parent, g)
<1>3. r \in DOMAIN parent /\ parent[r] = r /\ t \in DOMAIN parent /\ parent[t] = t
  BY <1>2, RootFacts
<1>4. /\ Forest(parent') /\ DOMAIN parent' = DOMAIN parent
      /\ \A x \in DOMAIN parent :
           RootOf(parent', x) = IF RootOf(parent, x) = r THEN t ELSE RootOf(parent, x)
  <2> DEFINE p == parent
             q == parent'
  <2>1. /\ Forest(p) /\ r \in DOMAIN p /\ t \in DOMAIN p /\ p[r] = r /\ p[t] = t
        /\ q \in [DOMAIN p -> DOMAIN p] /\ q[r] = t /\ DOMAIN q = DOMAIN p
        /\ \A s \in DOMAIN p : s # r => q[s] = p[s]
    BY <1>1, <1>2, <1>3 DEF Forest
  <2> HIDE DEF p, q, r, t
  <2>2. /\ Forest(q)
        /\ \A x \in DOMAIN p : RootOf(q, x) = IF RootOf(p, x) = r THEN t ELSE RootOf(p, x)
    BY ONLY <2>1, Hanging
  <2> QED
    BY <2>1, <2>2 DEF p, q
<1> HIDE DEF r, t
<1> QED
  BY <1>1, <1>2, <1>3, <1>4 DEF r, t

(* A comparison that unites two guards: a set that may-alias separates holds*)
(* both or none, and with them their roots.                                *)
LEMMA UniteKeepsSeparate ==
  ASSUME Trees, NothingElseJoined, NEW g \in G, NEW h \in G, SameLock(g, h), Unite(g, h),
         NEW C \in SUBSET G, Separate(C), NEW x \in G
  PROVE  x \in C <=> parent'[x] \in C
<1> DEFINE r == RootOf(parent, h)
           t == RootOf(parent, g)
<1>1. \A y \in G : y \in C <=> parent[y] \in C
  BY DEF NothingElseJoined
<1>2. DOMAIN parent = G /\ Forest(parent)
  BY DEF Trees
<1>3. g \in C <=> t \in C
  BY <1>1, <1>2, SameSide
<1>4. h \in C <=> r \in C
  BY <1>1, <1>2, SameSide
<1>5. g \in C <=> h \in C
  BY DEF Separate
<1>6. parent' = [parent EXCEPT ![r] = t]
  BY UniteHangs
<1> HIDE DEF r, t
<1>7. parent'[x] = IF x = r THEN t ELSE parent[x]
  BY <1>2, <1>6
<1> QED
  BY <1>1, <1>3, <1>4, <1>5, <1>7

(* One comparison, of guards that are the same lock or not.                *)
LEMMA ComparePairIInv ==
  ASSUME IInv, ComparePair
  PROVE  IInv'
<1> DEFINE g == order[pair[1]]
           h == order[pair[2]]
           Same(i, j) == RootOf(parent, order[i]) = RootOf(parent, order[j])
<1>1. /\ phase = "unite" /\ pair[2] \in DOMAIN order /\ phase' = phase
      /\ crate' = crate /\ guards' = guards /\ objects' = objects /\ order' = order
      /\ IF SameLock(g, h) THEN Unite(g, h) ELSE parent' = parent
      /\ pair' = IF pair[2] < Len(order) THEN <<pair[1], pair[2] + 1>>
                 ELSE <<pair[1] + 1, pair[1] + 2>>
  BY DEF ComparePair, collectVars
<1>2. IsFiniteSet(G) /\ Ordered /\ Trees /\ NothingElseJoined /\ ComparedAreJoined
  BY <1>1 DEF IInv
<1>3. G' = G
  BY <1>1 DEF G
<1>4. \A a, b : SameLock(a, b)' <=> SameLock(a, b)
  BY <1>1, SameLockKept
<1>5. /\ pair[1] \in 1 .. Cardinality(G) /\ pair[2] \in 1 .. Cardinality(G)
      /\ PairInOrder'
      /\ \A i, j \in 1 .. Cardinality(G) :
           i < j /\ Compared(i, j)' => Compared(i, j) \/ (i = pair[1] /\ j = pair[2])
  BY <1>1, <1>3, NextPair
<1>6. Ordered'
  BY <1>1, <1>2, <1>3 DEF Ordered
<1>7. \A i \in 1 .. Cardinality(G) : order[i] \in G
  BY <1>2 DEF Ordered
<1>8. g \in G /\ h \in G
  BY <1>5, <1>7
<1>9. \A C : Separate(C)' <=> Separate(C)
  BY <1>3, <1>4 DEF Separate
<1>10. \A i, j \in 1 .. Cardinality(G) :
         i < j /\ Compared(i, j) /\ SameLock(order[i], order[j]) => Same(i, j)
  BY <1>2 DEF ComparedAreJoined
<1> HIDE DEF g, h
<1>11. Trees' /\ NothingElseJoined'
       /\ \A i, j \in 1 .. Cardinality(G) :
            i < j /\ Compared(i, j)' /\ SameLock(order[i], order[j]) => Same(i, j)'
  <2>1. CASE SameLock(g, h)
    <3>1. Unite(g, h)
      BY <1>1, <2>1
    <3>2. /\ DOMAIN parent' = G /\ Forest(parent')
          /\ \A x \in G : RootOf(parent', x) = IF RootOf(parent, x) = RootOf(parent, h)
                                               THEN RootOf(parent, g) ELSE RootOf(parent, x)
      BY <1>2, <1>8, <3>1, UniteHangs
    <3>3. Trees'
      BY <1>3, <3>2 DEF Trees
    <3>4. NothingElseJoined'
      <4>1. \A C \in SUBSET G : Separate(C) => \A x \in G : x \in C <=> parent'[x] \in C
        BY <1>2, <1>8, <2>1, <3>1, UniteKeepsSeparate
      <4> QED
        BY <1>3, <1>9, <4>1 DEF NothingElseJoined
    <3>5. ASSUME NEW i \in 1 .. Cardinality(G), NEW j \in 1 .. Cardinality(G),
                 i < j, Compared(i, j)', SameLock(order[i], order[j])
          PROVE  RootOf(parent', order[i]) = RootOf(parent', order[j])
      <4>1. order[i] \in G /\ order[j] \in G
        BY <1>7
      <4>2. CASE Compared(i, j)
        <5>1. RootOf(parent, order[i]) = RootOf(parent, order[j])
          BY <1>10, <3>5, <4>2
        <5> QED
          BY <3>2, <4>1, <5>1
      <4>3. CASE i = pair[1] /\ j = pair[2]
        <5>1. order[i] = g /\ order[j] = h
          BY <4>3 DEF g, h
        <5> QED
          BY <1>8, <3>2, <5>1
      <4> QED
        BY <1>5, <3>5, <4>2, <4>3
    <3> QED
      BY <1>1, <3>3, <3>4, <3>5
  <2>2. CASE ~SameLock(g, h)
    <3>1. parent' = parent
      BY <1>1, <2>2
    <3>2. Trees'
      BY <1>2, <1>3, <3>1 DEF Trees
    <3>3. NothingElseJoined'
      BY <1>2, <1>3, <1>9, <3>1 DEF NothingElseJoined
    <3>4. ASSUME NEW i \in 1 .. Cardinality(G), NEW j \in 1 .. Cardinality(G),
                 i < j, Compared(i, j)', SameLock(order[i], order[j])
          PROVE  Compared(i, j)
      BY <1>5, <2>2, <3>4 DEF g, h
    <3> QED
      BY <1>1, <1>10, <3>1, <3>2, <3>3, <3>4
  <2> QED
    BY <2>1, <2>2
<1>12. ComparedAreJoined'
  BY <1>1, <1>3, <1>4, <1>11 DEF ComparedAreJoined
<1> QED
  BY <1>1, <1>2, <1>3, <1>5, <1>6, <1>11, <1>12 DEF IInv

(* All pairs have been compared; the places are named by the roots.        *)
LEMMA CreatePlacesIInv ==
  ASSUME IInv, CreatePlaces
  PROVE  IInv'
<1>1. /\ phase = "unite" /\ pair[2] \notin DOMAIN order /\ phase' = "done"
      /\ crate' = crate /\ guards' = guards /\ objects' = objects /\ order' = order
      /\ pair' = pair /\ parent' = parent
  BY DEF CreatePlaces, collectVars
<1>2. \A x \in G : place'[x].group = RootOf(parent, x)
  BY DEF CreatePlaces, G, Find, RootOf
<1>3. /\ IsFiniteSet(G) /\ Ordered /\ PairInOrder /\ Trees
      /\ NothingElseJoined /\ ComparedAreJoined
  BY <1>1 DEF IInv
<1>4. G' = G
  BY <1>1 DEF G
<1>5. \A a, b : SameLock(a, b)' <=> SameLock(a, b)
  BY <1>1, SameLockKept
<1>6. pair[1] >= Cardinality(G)
  <2>1. Cardinality(G) \in Nat /\ DOMAIN order = 1 .. Cardinality(G)
    BY <1>3, OrderLength
  <2> QED
    BY <1>1, <1>3, <2>1 DEF PairInOrder
<1>7. Ordered' /\ PairInOrder' /\ Trees'
  BY <1>1, <1>3, <1>4 DEF Ordered, PairInOrder, Trees
<1>8. NothingElseJoined'
  BY <1>1, <1>3, <1>4, <1>5 DEF NothingElseJoined, Separate
<1>9. ComparedAreJoined'
  BY <1>1, <1>3, <1>4, <1>5 DEF ComparedAreJoined, Compared
<1>10. KindsTaken'
  <2> DEFINE Met(g) == {i \in DOMAIN order : Find(order[i]) = Find(g)}
             first(g) == order[Min(Met(g))]
  <2>1. \A g \in G : place'[g].kind = IF guards[first(g)] = "mutex" THEN "mutex" ELSE "rwlock"
    BY DEF CreatePlaces, G
  <2>2. Cardinality(G) \in Nat /\ DOMAIN order = 1 .. Cardinality(G)
    BY <1>3, OrderLength
  <2>3. \A g \in G : first(g) \in G /\ Find(first(g)) = Find(g)
    <3> SUFFICES ASSUME NEW g \in G PROVE first(g) \in G /\ Find(first(g)) = Find(g)
      OBVIOUS
    <3>1. PICK i \in DOMAIN order : order[i] = g
      BY <1>3, <2>2 DEF Ordered
    <3>2. Met(g) \in SUBSET Nat /\ i \in Met(g)
      BY <2>2, <3>1
    <3>3. \E m \in Met(g) : \A n \in Met(g) : m =< n
      BY <3>2, LeastNumber
    <3>4. Min(Met(g)) \in Met(g)
      BY <3>3 DEF Min
    <3> QED
      BY <1>3, <2>2, <3>4 DEF Ordered
  <2>4. \A g, h \in G : Find(h) = Find(g) => first(h) = first(g)
    OBVIOUS
  <2> HIDE DEF first
  <2>5. \A a \in G : Find(a) = RootOf(parent, a)
    BY DEF Find, RootOf
  <2>6. \A g \in G : RootOf(parent, first(g)) = RootOf(parent, g)
    BY <2>3, <2>5
  <2>7. \A g, h \in G : RootOf(parent, h) = RootOf(parent, g) => first(h) = first(g)
    BY <2>4, <2>5
  <2>8. \A g \in G : place'[g].kind = KindOf(first(g))
    BY <2>1 DEF KindOf
  <2>9. \A h \in G : KindOf(h)' = KindOf(h)
    BY <1>1 DEF KindOf
  <2> QED
    BY <1>1, <1>4, <2>3, <2>6, <2>7, <2>8, <2>9 DEF KindsTaken
<1> QED
  BY <1>1, <1>2, <1>3, <1>4, <1>6, <1>7, <1>8, <1>9, <1>10 DEF IInv

(* However far the comparison has come, the trees hold what it has found.  *)
THEOREM Inductive ==
  ASSUME FiniteCrates
  PROVE  Spec => []IInv
<1>1. Init => IInv
  BY InitIInv
<1>2. IInv /\ [Next]_vars => IInv'
  <2> SUFFICES ASSUME IInv, [Next]_vars PROVE IInv'
    OBVIOUS
  <2>1. CASE Collect
    BY <2>1, CollectIInv
  <2>2. CASE EndBody
    BY <2>2, EndBodyIInv
  <2>3. CASE StartUniting
    BY <2>3, StartUnitingIInv
  <2>4. CASE ComparePair
    BY <2>4, ComparePairIInv
  <2>5. CASE CreatePlaces
    BY <2>5, CreatePlacesIInv
  <2>6. CASE UNCHANGED vars
    <3>1. /\ phase' = phase /\ crate' = crate /\ guards' = guards /\ objects' = objects
          /\ order' = order /\ pair' = pair /\ parent' = parent /\ place' = place
      BY <2>6 DEF vars, collectVars
    <3>2. G' = G /\ \A a, b : SameLock(a, b)' <=> SameLock(a, b)
      BY <3>1, SameLockKept DEF G
    <3>3. /\ Ordered' <=> Ordered
          /\ PairInOrder' <=> PairInOrder
          /\ Trees' <=> Trees
          /\ NothingElseJoined' <=> NothingElseJoined
          /\ ComparedAreJoined' <=> ComparedAreJoined
          /\ KindsTaken' <=> KindsTaken
      BY <3>1, <3>2 DEF Ordered, PairInOrder, Trees, NothingElseJoined, Separate,
                        ComparedAreJoined, Compared, KindsTaken, KindOf
    <3> QED
      BY <3>1, <3>2, <3>3 DEF IInv
  <2> QED
    BY <2>1, <2>2, <2>3, <2>4, <2>5, <2>6 DEF Next, Step, Done
<1> QED
  BY <1>1, <1>2, PTL DEF Spec
-----------------------------------------------------------------------------
(* A component is the least set that holds the guard and is left by no     *)
(* may-alias: what Component collects stops growing.                       *)
LEMMA ComponentIsLeast ==
  ASSUME IsFiniteSet(G), NEW g \in G
  PROVE  /\ g \in Component(g)
         /\ Component(g) \subseteq G
         /\ Separate(Component(g))
         /\ \A C \in SUBSET G : g \in C /\ Separate(C) => Component(g) \subseteq C
<1> DEFINE Onward(A) == A \cup {h \in G : \E b \in A : SameLock(b, h)}
           F == [A \in SUBSET G |-> Onward(A)]
           within == CHOOSE w : w = [k \in Nat |-> IF k = 0 THEN {g} ELSE Onward(w[k - 1])]
           R == within[Cardinality(G)]
<1>1. Component(g) = R
  BY DEF Component, G
<1>2. \A A \in SUBSET G : F[A] = Onward(A) /\ F[A] \in SUBSET G /\ A \subseteq F[A]
  OBVIOUS
<1>3. {g} \in SUBSET G
  OBVIOUS
<1>4. Iterates(within, F, {g})
  <2>1. PICK w : Iterates(w, F, {g})
    BY IterationExists
  <2> HIDE DEF F
  <2>2. \A k \in Nat : w[k] \in SUBSET G
    BY <1>2, <1>3, <2>1, IterationType
  <2>3. \A k \in Nat : k # 0 => k - 1 \in Nat
    OBVIOUS
  <2>4. \A k \in Nat : k # 0 => F[w[k - 1]] = Onward(w[k - 1])
    BY <1>2, <2>2, <2>3
  <2> HIDE DEF Onward
  <2>5. w = [k \in Nat |-> IF k = 0 THEN {g} ELSE Onward(w[k - 1])]
    BY <2>1, <2>4 DEF Iterates
  <2>6. within = [k \in Nat |-> IF k = 0 THEN {g} ELSE Onward(within[k - 1])]
    BY <2>5
  <2> HIDE DEF within
  <2>7. within = [k \in Nat |-> within[k]] /\ within[0] = {g}
    BY <2>6
  <2>8. \A k \in Nat : within[k + 1] = Onward(within[k])
    <3>1. \A k \in Nat : k + 1 \in Nat /\ k + 1 # 0 /\ (k + 1) - 1 = k
      OBVIOUS
    <3> QED
      BY <2>6, <3>1
  <2>9. \A k \in Nat : within[k] = w[k] => within[k + 1] = F[w[k]]
    BY <1>2, <2>2, <2>8
  <2>10. within = w
    <3> DEFINE x == {g}
    <3>1. Iterates(w, F, x) /\ within = [k \in Nat |-> within[k]] /\ within[0] = x
      BY <2>1, <2>7
    <3> HIDE DEF x
    <3> QED
      BY ONLY <2>9, <3>1, IterationUnique
  <2> QED
    BY <2>1, <2>10
<1> HIDE DEF F, within, Onward
<1>5. R \in SUBSET G /\ {g} \subseteq R /\ F[R] = R
  <2> DEFINE x == {g}
             N == G
  <2>1. IsFiniteSet(N) /\ x \in SUBSET N /\ Iterates(within, F, x)
    BY <1>3, <1>4
  <2>2. \A A \in SUBSET N : F[A] \in SUBSET N /\ A \subseteq F[A]
    BY <1>2
  <2> HIDE DEF x, N
  <2>3. /\ within[Cardinality(N)] \in SUBSET N
        /\ x \subseteq within[Cardinality(N)]
        /\ F[within[Cardinality(N)]] = within[Cardinality(N)]
    BY ONLY <2>1, <2>2, GrowthStops
  <2> QED
    BY <2>3 DEF x, N
<1>6. Separate(R)
  <2>1. Onward(R) = R
    BY <1>2, <1>5
  <2> HIDE DEF R
  <2>2. \A a, b \in G : SameLock(a, b) /\ a \in R => b \in R
    BY <2>1 DEF Onward
  <2> QED
    BY <2>2, SameLockSymmetric DEF Separate
<1>7. ASSUME NEW C \in SUBSET G, g \in C, Separate(C) PROVE R \subseteq C
  <2>1. \A A \in SUBSET C : F[A] \in SUBSET C
    <3>1. \A A \in SUBSET C : Onward(A) \subseteq C
      BY <1>7 DEF Onward, Separate
    <3> QED
      BY <1>2, <1>7, <3>1
  <2>2. {g} \in SUBSET C
    BY <1>7
  <2>3. \A k \in Nat : within[k] \in SUBSET C
    BY <1>4, <2>1, <2>2, IterationType
  <2> QED
    BY <2>3, FS_CardinalityType
<1> QED
  BY <1>1, <1>5, <1>6, <1>7

(* When all pairs have been compared, whoever leads to the root of g is left*)
(* by no may-alias.                                                        *)
LEMMA TreeIsSeparate ==
  ASSUME IInv, phase = "done", NEW root
  PROVE  Separate({x \in G : RootOf(parent, x) = root})
<1>1. IsFiniteSet(G) /\ Ordered /\ PairInOrder /\ ComparedAreJoined /\ pair[1] >= Cardinality(G)
  BY DEF IInv
<1>2. Cardinality(G) \in Nat
  BY <1>1, FS_CardinalityType
<1>3. \A i, j \in 1 .. Cardinality(G) :
        SameLock(order[i], order[j]) => RootOf(parent, order[i]) = RootOf(parent, order[j])
  <2>1. \A i, j \in 1 .. Cardinality(G) : i < j => Compared(i, j)
    BY <1>1, <1>2 DEF PairInOrder, Compared
  <2>2. \A i, j \in 1 .. Cardinality(G) : i < j /\ SameLock(order[i], order[j]) =>
          RootOf(parent, order[i]) = RootOf(parent, order[j])
    BY <1>1, <2>1 DEF ComparedAreJoined
  <2>3. \A i, j \in 1 .. Cardinality(G) : i < j \/ i = j \/ j < i
    BY <1>2
  <2> QED
    BY <2>2, <2>3, SameLockSymmetric
<1>4. \A a, b \in G : SameLock(a, b) => RootOf(parent, a) = RootOf(parent, b)
  <2>1. \A a \in G : \E i \in 1 .. Cardinality(G) : order[i] = a
    BY <1>1 DEF Ordered
  <2> QED
    BY <1>3, <2>1
<1> QED
  BY <1>4 DEF Separate

(* The trees the comparison ends with are the components. *)
LEMMA DoneIsGrouped ==
  ASSUME IInv
  PROVE  GroupsAreComponents
<1> SUFFICES ASSUME phase = "done", NEW g \in G, NEW h \in G
             PROVE  SamePlace(g, h) <=> h \in Component(g)
  BY DEF GroupsAreComponents, G
<1>1. IsFiniteSet(G) /\ Trees /\ NothingElseJoined
  BY DEF IInv
<1>2. SamePlace(g, h) <=> RootOf(parent, g) = RootOf(parent, h)
  BY DEF IInv, SamePlace
<1> DEFINE C == Component(g)
           D == {x \in G : RootOf(parent, x) = RootOf(parent, g)}
<1>3. /\ g \in C /\ C \in SUBSET G /\ Separate(C)
      /\ \A S \in SUBSET G : g \in S /\ Separate(S) => C \subseteq S
  BY <1>1, ComponentIsLeast
<1>4. D \in SUBSET G /\ g \in D /\ Separate(D)
  BY TreeIsSeparate
<1> HIDE DEF C
<1>5. h \in C => RootOf(parent, h) = RootOf(parent, g)
  BY <1>3, <1>4
<1>6. RootOf(parent, g) = RootOf(parent, h) => h \in C
  <2>1. DOMAIN parent = G /\ Forest(parent) /\ \A s \in G : s \in C <=> parent[s] \in C
    BY <1>1, <1>3 DEF Trees, NothingElseJoined
  <2>2. (g \in C <=> RootOf(parent, g) \in C) /\ (h \in C <=> RootOf(parent, h) \in C)
    BY <2>1, SameSide
  <2> QED
    BY <1>3, <2>2
<1> QED
  BY <1>2, <1>5, <1>6 DEF C

(* May-alias takes no mutex and no RwLock for one lock.                    *)
KindsSeparate == \A g, h \in G : SameLock(g, h) => (guards[g] = "mutex" <=> guards[h] = "mutex")

(* A tree holds guards of both kinds only if may-alias joined two of them. *)
LEMMA DoneHasKinds ==
  ASSUME IInv, phase = "done"
  PROVE  KindsAgree <=> KindsSeparate
<1> DEFINE Mutexes == {x \in G : guards[x] = "mutex"}
<1>1. Trees /\ NothingElseJoined /\ KindsTaken
  BY DEF IInv
<1>2. ASSUME KindsAgree, NEW g \in G, NEW h \in G, SameLock(g, h)
      PROVE  guards[g] = "mutex" <=> guards[h] = "mutex"
  <2>1. RootOf(parent, h) = RootOf(parent, g)
    BY <1>2, TreeIsSeparate DEF Separate
  <2>2. place[h].kind = place[g].kind
    BY <1>1, <2>1 DEF KindsTaken
  <2> QED
    BY <1>2, <2>2 DEF KindsAgree, G
<1>3. ASSUME KindsSeparate, NEW g \in G
      PROVE  place[g].kind = "mutex" <=> guards[g] = "mutex"
  <2>1. PICK h \in G : RootOf(parent, h) = RootOf(parent, g) /\ place[g].kind = KindOf(h)
    BY <1>1 DEF KindsTaken
  <2>2. DOMAIN parent = G /\ Forest(parent) /\ \A s \in G : s \in Mutexes <=> parent[s] \in Mutexes
    BY <1>1, <1>3 DEF Trees, NothingElseJoined, Separate, KindsSeparate
  <2>3. \A x \in G : x \in Mutexes <=> RootOf(parent, x) \in Mutexes
    BY <2>2, SameSide
  <2> QED
    BY <2>1, <2>3 DEF KindOf
<1> QED
  BY <1>2, <1>3 DEF KindsAgree, KindsSeparate, G

(* Two guards get one place exactly if a chain of may-alias connects them, *)
(* in every order of the guards and for all points-to sets.                *)
THEOREM GroupsCorrect ==
  ASSUME FiniteCrates
  PROVE  Spec => []GroupsAreComponents
<1>1. IInv => GroupsAreComponents
  BY DoneIsGrouped
<1> QED
  BY <1>1, Inductive, PTL

(* Every guard has a place of its own kind exactly if may-alias takes no   *)
(* mutex and no RwLock for one lock: a chain of guards between them, and the*)
(* guard that happens to come first, do no harm of their own.              *)
THEOREM KindsOfPlaces ==
  ASSUME FiniteCrates
  PROVE  Spec => [](phase = "done" => (KindsAgree <=> KindsSeparate))
<1>1. IInv => (phase = "done" => (KindsAgree <=> KindsSeparate))
  BY DoneHasKinds
<1> QED
  BY <1>1, Inductive, PTL

-----------------------------------------------------------------------------
(* Receivers: the search of resolve_guard_receiver is a function of where  *)
(* it is and of what it has seen on its way.                               *)
D == DOMAIN defs

Spots == D \X SUBSET D

ChainOf(W, seen, d) ==
  IF EndsChain(d) THEN {<<d.src, d.from>>}
  ELSE IF d.src \in seen \/ d.src \notin D THEN {}
  ELSE {<<r[1], IF d.how = "borrow" THEN r[2] ELSE OrElse(r[2], d.from)>> :
          r \in W[<<d.src, seen \cup {d.src}>>]}

Ending(W, w) == {k \in DOMAIN defs[w[1]] : ChainOf(W, w[2], defs[w[1]][k]) # {}}

Walked(W, w) ==
  IF Ending(W, w) = {} THEN {} ELSE ChainOf(W, w[2], defs[w[1]][Min(Ending(W, w))])

IsWalk(W) == W = [w \in Spots |-> Walked(W, w)]

(* If there is such a search Resolve is one.                               *)
LEMMA ResolveWalks ==
  ASSUME NEW x \in D, NEW V, IsWalk(V)
  PROVE  \E W : IsWalk(W) /\ Resolve(x) = W[<<x, {}>>]
<1>1. Resolve(x) = (CHOOSE W : IsWalk(W))[<<x, {}>>]
  BY DEF Resolve, D, IsWalk, Walked, Ending, ChainOf, Spots
<1>2. IsWalk(CHOOSE W : IsWalk(W))
  OBVIOUS
<1> QED
  BY <1>1, <1>2

DefsOk == IsFiniteSet(D) /\ \A y \in D : DOMAIN defs[y] \subseteq Nat

Sources == UNION {{defs[y][k].src : k \in DOMAIN defs[y]} : y \in D}
Fields == {NoField} \cup UNION {{defs[y][k].from : k \in DOMAIN defs[y]} : y \in D}
Found == SUBSET (Sources \X Fields)

LEMMA FirstEnding ==
  ASSUME DefsOk, NEW W, NEW w \in Spots, Ending(W, w) # {}
  PROVE  Min(Ending(W, w)) \in Ending(W, w)
<1>1. w[1] \in D /\ Ending(W, w) \subseteq Nat
  BY DEF DefsOk, Spots, Ending
<1>2. \E k \in Ending(W, w) : \A j \in Ending(W, w) : k =< j
  BY <1>1, LeastNumber
<1> QED
  BY <1>2 DEF Min

LEMMA WalkedFound ==
  ASSUME DefsOk, NEW W \in [Spots -> Found], NEW w \in Spots
  PROVE  Walked(W, w) \in Found
<1>1. w[1] \in D /\ w[2] \in SUBSET D /\ w = <<w[1], w[2]>>
  BY DEF Spots
<1>2. ASSUME NEW k \in DOMAIN defs[w[1]]
      PROVE  ChainOf(W, w[2], defs[w[1]][k]) \in Found
  <2> DEFINE d == defs[w[1]][k]
  <2>1. d.src \in Sources /\ d.from \in Fields
    BY <1>1, <1>2 DEF Sources, Fields
  <2> SUFFICES ChainOf(W, w[2], d) \in Found
    OBVIOUS
  <2> HIDE DEF d
  <2>2. CASE EndsChain(d)
    BY <2>1, <2>2 DEF ChainOf, Found
  <2>3. CASE ~EndsChain(d) /\ (d.src \in w[2] \/ d.src \notin D)
    BY <2>3 DEF ChainOf, Found
  <2>4. CASE ~EndsChain(d) /\ d.src \notin w[2] /\ d.src \in D
    <3> DEFINE R == W[<<d.src, w[2] \cup {d.src}>>]
    <3>1. <<d.src, w[2] \cup {d.src}>> \in Spots
      BY <1>1, <2>4 DEF Spots
    <3>2. R \in Found
      BY <3>1
    <3>3. \A r \in R : r[1] \in Sources /\ r[2] \in Fields
      BY <3>2 DEF Found
    <3>4. \A r \in R : OrElse(r[2], d.from) \in Fields
      BY <2>1, <3>3 DEF OrElse
    <3>5. ChainOf(W, w[2], d) = {<<r[1], IF d.how = "borrow" THEN r[2] ELSE OrElse(r[2], d.from)>> : r \in R}
      BY <2>4 DEF ChainOf
    <3> HIDE DEF R
    <3>6. ASSUME NEW r \in R
          PROVE  <<r[1], IF d.how = "borrow" THEN r[2] ELSE OrElse(r[2], d.from)>> \in Sources \X Fields
      BY <3>3, <3>4
    <3> QED
      BY <3>5, <3>6 DEF Found
  <2> QED
    BY <2>2, <2>3, <2>4
<1>3. CASE Ending(W, w) = {}
  BY <1>3 DEF Walked, Found
<1>4. CASE Ending(W, w) # {}
  <2>1. Min(Ending(W, w)) \in DOMAIN defs[w[1]]
    BY <1>4, FirstEnding DEF Ending
  <2> QED
    BY <1>2, <1>4, <2>1 DEF Walked
<1> QED
  BY <1>3, <1>4

(* The search only asks where its source has not been seen.                *)
LEMMA WalkedSame ==
  ASSUME NEW W, NEW V, NEW w,
         \A s \in D \ w[2] : W[<<s, w[2] \cup {s}>>] = V[<<s, w[2] \cup {s}>>]
  PROVE  Walked(W, w) = Walked(V, w)
<1>1. \A d : ChainOf(W, w[2], d) = ChainOf(V, w[2], d)
  BY DEF ChainOf
<1>2. Ending(W, w) = Ending(V, w)
  BY <1>1 DEF Ending
<1> QED
  BY <1>1, <1>2 DEF Walked

(* There is such a search: what it has seen grows at each step of it.      *)
LEMMA WalkExists ==
  ASSUME DefsOk
  PROVE  \E W : IsWalk(W)
<1> DEFINE F == [W \in [Spots -> Found] |-> [w \in Spots |-> Walked(W, w)]]
           nothing == [w \in Spots |-> {}]
           T == [Spots -> Found]
<1>1. PICK g : Iterates(g, F, nothing)
  BY IterationExists
<1>2. \A W \in T : F[W] = [w \in Spots |-> Walked(W, w)] /\ F[W] \in T
  BY WalkedFound
<1>3. nothing \in T
  BY DEF Found
<1> HIDE DEF F, nothing
<1>4. \A k \in Nat : g[k] \in T
  <2> HIDE DEF T
  <2> QED
    BY <1>1, <1>2, <1>3, IterationType
<1>5. \A k \in Nat : g[k + 1] = F[g[k]]
  BY <1>1, IterationSteps
<1>6. \A k \in Nat : \A w \in Spots : g[k + 1][w] = Walked(g[k], w)
  <2> SUFFICES ASSUME NEW k \in Nat, NEW w \in Spots
               PROVE  g[k + 1][w] = Walked(g[k], w)
    OBVIOUS
  <2>1. g[k + 1] = [v \in Spots |-> Walked(g[k], v)]
    BY <1>2, <1>4, <1>5
  <2> QED
    BY <2>1
<1> DEFINE c == Cardinality(D)
           Settled(n, w) == \A k \in Nat : k >= n + 1 => g[k + 1][w] = g[k][w]
           S == {n \in Nat : \A w \in Spots : Cardinality(D \ w[2]) =< n => Settled(n, w)}
<1>7. \A w \in Spots : IsFiniteSet(D \ w[2]) /\ Cardinality(D \ w[2]) \in Nat
  <2>1. \A w \in Spots : IsFiniteSet(D \ w[2])
    BY FS_Subset DEF DefsOk
  <2> QED
    BY <2>1, FS_CardinalityType
<1>8. ASSUME NEW n \in Nat, NEW w \in Spots, NEW k \in Nat, k >= n + 1,
             \A s \in D \ w[2] : g[k][<<s, w[2] \cup {s}>>] = g[k - 1][<<s, w[2] \cup {s}>>]
      PROVE  g[k + 1][w] = g[k][w]
  <2>1. k - 1 \in Nat /\ (k - 1) + 1 = k
    BY <1>8
  <2>2. g[k + 1][w] = Walked(g[k], w) /\ g[k][w] = Walked(g[k - 1], w)
    BY <1>6, <2>1
  <2>3. Walked(g[k], w) = Walked(g[k - 1], w)
    BY <1>8, WalkedSame
  <2> QED
    BY <2>2, <2>3
<1>9. 0 \in S
  <2> SUFFICES ASSUME NEW w \in Spots, Cardinality(D \ w[2]) =< 0, NEW k \in Nat, k >= 0 + 1
               PROVE  g[k + 1][w] = g[k][w]
    OBVIOUS
  <2>1. D \ w[2] = {}
    BY <1>7, FS_EmptySet
  <2> QED
    BY <1>8, <2>1
<1>10. \A n \in Nat : n \in S => n + 1 \in S
  <2> SUFFICES ASSUME NEW n \in Nat, n \in S, NEW w \in Spots, Cardinality(D \ w[2]) =< n + 1,
                      NEW k \in Nat, k >= (n + 1) + 1
               PROVE  g[k + 1][w] = g[k][w]
    OBVIOUS
  <2>1. ASSUME NEW s \in D \ w[2]
        PROVE  g[k][<<s, w[2] \cup {s}>>] = g[k - 1][<<s, w[2] \cup {s}>>]
    <3> DEFINE v == <<s, w[2] \cup {s}>>
    <3>1. v \in Spots /\ v[2] = w[2] \cup {s}
      BY DEF Spots
    <3>2. D \ v[2] = (D \ w[2]) \ {s}
      BY <3>1
    <3>3. Cardinality((D \ w[2]) \ {s}) = Cardinality(D \ w[2]) - 1
      BY <1>7, FS_RemoveElement
    <3>4. Cardinality(D \ v[2]) =< n
      <4>1. Cardinality(D \ w[2]) \in Nat /\ Cardinality(D \ w[2]) =< n + 1
        BY <1>7
      <4>2. Cardinality(D \ v[2]) = Cardinality(D \ w[2]) - 1
        BY <3>2, <3>3
      <4> QED
        BY ONLY <4>1, <4>2, n \in Nat
    <3>5. k - 1 \in Nat /\ k - 1 >= n + 1 /\ (k - 1) + 1 = k
      OBVIOUS
    <3> HIDE DEF v
    <3>6. Settled(n, v)
      BY <3>1, <3>4 DEF S
    <3>7. g[(k - 1) + 1][v] = g[k - 1][v]
      BY <3>5, <3>6
    <3> QED
      BY <3>5, <3>7 DEF v
  <2>2. k >= n + 1
    OBVIOUS
  <2> QED
    BY <1>8, <2>1, <2>2
<1> HIDE DEF S
<1>11. c \in S /\ c \in Nat
  BY <1>9, <1>10, NatSet, FS_CardinalityType DEF DefsOk
<1>12. ASSUME NEW w \in Spots PROVE g[(c + 1) + 1][w] = g[c + 1][w]
  <2>1. Cardinality(D \ w[2]) =< c
    BY FS_Subset, FS_CardinalityType DEF DefsOk
  <2>2. Settled(c, w)
    BY <1>11, <2>1 DEF S
  <2> QED
    BY <1>11, <2>2
<1>13. g[c + 1] = [w \in Spots |-> Walked(g[c + 1], w)]
  <2>1. c + 1 \in Nat /\ g[c + 1] \in T
    BY <1>4, <1>11
  <2>2. \A w \in Spots : g[c + 1][w] = Walked(g[c + 1], w)
    BY <1>6, <1>12, <2>1
  <2> QED
    BY <2>1, <2>2
<1> QED
  BY <1>13 DEF IsWalk

(* What the search finds from: where a chain ends, and what is defined from*)
(* there.                                                                  *)
EndsAt == {y \in D : \E k \in DOMAIN defs[y] : EndsChain(defs[y][k])}
Back(A) == A \cup {y \in D : \E k \in DOMAIN defs[y] : defs[y][k].src \in A}

LEMMA EndingFound ==
  ASSUME DefsOk, NEW W, IsWalk(W), NEW w \in Spots, NEW k \in DOMAIN defs[w[1]],
         ChainOf(W, w[2], defs[w[1]][k]) # {}
  PROVE  W[w] # {}
<1>1. Ending(W, w) # {}
  BY DEF Ending
<1>2. Min(Ending(W, w)) \in Ending(W, w)
  BY <1>1, FirstEnding
<1>3. W[w] = Walked(W, w)
  BY DEF IsWalk
<1> QED
  BY <1>1, <1>2, <1>3 DEF Walked, Ending

(* Wherever a chain of definitions leads to one that ends, the search finds*)
(* an end: it never gets lost in a loop, as the shortest chain meets       *)
(* nothing that was seen on the way.                                       *)
LEMMA WalkFinds ==
  ASSUME DefsOk
  PROVE  \E L \in SUBSET D : /\ EndsAt \subseteq L
                             /\ Back(L) \subseteq L
                             /\ \A y \in L : Resolve(y) # {}
<1> DEFINE F == [A \in SUBSET D |-> Back(A)]
<1>1. PICK g : Iterates(g, F, EndsAt)
  BY IterationExists
<1>2. \A A \in SUBSET D : F[A] = Back(A) /\ F[A] \in SUBSET D /\ A \subseteq F[A]
  BY DEF Back
<1>3. EndsAt \in SUBSET D
  BY DEF EndsAt
<1> HIDE DEF F
<1>4. \A k \in Nat : g[k] \in SUBSET D
  <2> DEFINE V == SUBSET D
  <2>1. EndsAt \in V /\ \A A \in V : F[A] \in V
    BY <1>2, <1>3
  <2> HIDE DEF V
  <2>2. \A k \in Nat : g[k] \in V
    BY <1>1, <2>1, IterationType
  <2> QED
    BY <2>2 DEF V
<1>5. g[0] = EndsAt /\ \A k \in Nat : g[k + 1] = Back(g[k])
  BY <1>1, <1>2, <1>4, IterationSteps
<1> DEFINE Fresh(n, w) == n = 0 \/ w[2] \cap g[n - 1] = {}
           Finds(n, w) == \A W : IsWalk(W) /\ w[1] \in g[n] /\ Fresh(n, w) => W[w] # {}
           S == {n \in Nat : \A w \in Spots : Finds(n, w)}
<1>6. 0 \in S
  <2> SUFFICES ASSUME NEW w \in Spots, NEW W, IsWalk(W), w[1] \in EndsAt PROVE W[w] # {}
    BY <1>5
  <2>1. PICK k \in DOMAIN defs[w[1]] : EndsChain(defs[w[1]][k])
    BY DEF EndsAt
  <2>2. ChainOf(W, w[2], defs[w[1]][k]) # {}
    BY <2>1 DEF ChainOf
  <2> QED
    BY <2>2, EndingFound
<1>7. ASSUME NEW n \in Nat, n \in S PROVE n + 1 \in S
  <2> SUFFICES ASSUME NEW w \in Spots, NEW W, IsWalk(W), w[1] \in g[n + 1], w[2] \cap g[n] = {}
               PROVE  W[w] # {}
    <3>1. n + 1 # 0 /\ (n + 1) - 1 = n /\ n + 1 \in Nat
      OBVIOUS
    <3> QED
      BY <3>1
  <2>1. \A v \in Spots : v[1] \in g[n] /\ Fresh(n, v) => W[v] # {}
    BY <1>7
  <2>2. n # 0 => n - 1 \in Nat /\ g[n] = Back(g[n - 1]) /\ g[n - 1] \subseteq g[n]
    <3> SUFFICES ASSUME n # 0 PROVE n - 1 \in Nat /\ g[n] = Back(g[n - 1])
      BY DEF Back
    <3>1. n - 1 \in Nat /\ (n - 1) + 1 = n
      OBVIOUS
    <3> QED
      BY <1>5, <3>1
  <2>3. CASE w[1] \in g[n]
    BY <2>1, <2>2, <2>3
  <2>4. CASE w[1] \notin g[n]
    <3>1. w[1] \in Back(g[n])
      BY <1>5
    <3>2. PICK k \in DOMAIN defs[w[1]] : defs[w[1]][k].src \in g[n]
      BY <2>4, <3>1 DEF Back
    <3> DEFINE d == defs[w[1]][k]
               v == <<d.src, w[2] \cup {d.src}>>
    <3>3. d.src \in D /\ d.src \notin w[2]
      BY <1>4, <3>2
    <3>4. w[1] \in D
      BY DEF Spots
    <3>5. n # 0 => d.src \notin g[n - 1]
      BY <2>2, <2>4, <3>2, <3>4 DEF Back
    <3>6. v \in Spots /\ v[1] = d.src /\ v[2] = w[2] \cup {d.src}
      BY <3>3 DEF Spots
    <3>7. Fresh(n, v)
      BY <2>2, <3>5, <3>6
    <3>8. W[v] # {}
      BY <2>1, <3>2, <3>6, <3>7
    <3>9. ChainOf(W, w[2], d) # {}
      <4> HIDE DEF d
      <4> QED
        BY <3>3, <3>8 DEF ChainOf
    <3> QED
      BY <3>9, EndingFound
  <2> QED
    BY <2>3, <2>4
<1> HIDE DEF S
<1>8. Nat \subseteq S
  BY <1>6, <1>7, NatSet DEF S
<1> DEFINE L == {y \in D : \E n \in Nat : y \in g[n]}
<1>9. EndsAt \subseteq L
  BY <1>3, <1>5 DEF EndsAt
<1>10. Back(L) \subseteq L
  <2> SUFFICES ASSUME NEW y \in D, NEW k \in DOMAIN defs[y], defs[y][k].src \in L PROVE y \in L
    BY DEF Back
  <2>1. PICK n \in Nat : defs[y][k].src \in g[n]
    OBVIOUS
  <2>2. y \in g[n + 1] /\ n + 1 \in Nat
    BY <1>5, <2>1 DEF Back
  <2> QED
    BY <2>2
<1>11. ASSUME NEW y \in L PROVE Resolve(y) # {}
  <2>1. PICK n \in Nat : y \in g[n]
    OBVIOUS
  <2>2. PICK W : IsWalk(W) /\ Resolve(y) = W[<<y, {}>>]
    BY WalkExists, ResolveWalks
  <2>3. <<y, {}>> \in Spots /\ n \in S
    BY <1>8 DEF Spots
  <2>4. W[<<y, {}>>] # {}
    BY <2>1, <2>2, <2>3 DEF S
  <2> QED
    BY <2>2, <2>4
<1> QED
  BY <1>9, <1>10, <1>11

-----------------------------------------------------------------------------
(* What the collector follows: all but what is stored to a field, what a   *)
(* call of another kind returns, and a guard kept in a coroutine's state,  *)
(* which it registers at once.                                             *)
Guarding(f, x) == <<f, x, NoField>> \in DOMAIN crate.guard

Recorded(f, d) ==
  /\ d.field = NoField
  /\ d.how \in {"use", "ref", "acquire", "extract", "wait"} \/ (d.how = "call" /\ Guarding(f, d.dest))

TakesFrom(d) == IF d.how = "wait" THEN d.second ELSE d.src

(* Bodies that move guards from local to local.  What is not followed is   *)
(* not moved on; a call that takes a lock is recognised or given a borrow  *)
(* of it; a wait that returns a guard returns it where it came from.       *)
TraceableIn(f) ==
  LET body == crate.body[f] IN
  /\ body \in Seq(Range(body))
  /\ \A i \in DOMAIN body : LET d == body[i] IN
       /\ d.how \in {"use", "ref", "acquire", "extract", "call", "wait", "store"}
       /\ ~Recorded(f, d) =>
            /\ ~Guarding(f, d.dest)
            /\ \A j \in DOMAIN body :
                 Recorded(f, body[j]) /\ body[j].how # "ref" => TakesFrom(body[j]) # d.dest
       /\ Recorded(f, d) /\ d.locks # {} =>
            \/ d.how = "acquire"
            \/ /\ d.how = "call"
               /\ \E j \in DOMAIN body : /\ body[j].how = "ref" /\ body[j].field = NoField
                                         /\ body[j].dest = d.src /\ ~Guarding(f, body[j].src)
       /\ d.how = "wait" /\ Guarding(f, d.dest) => d.second = d.dest

Traceable ==
  /\ crate.nodes \in Seq(Range(crate.nodes))
  /\ \A f \in Range(crate.nodes) : TraceableIn(f)
  /\ \A g \in DOMAIN crate.guard :
       \E f \in Range(crate.nodes) : g = <<f, g[2], NoField>>

(* The definition is known to the collector. *)
ReadIn(f, d) ==
  /\ d.dest \in D
  /\ \E k \in DOMAIN defs[d.dest] : LET e == defs[d.dest][k] IN
       /\ e.how = CASE d.how = "ref" -> "borrow"
                    [] d.how = "acquire" -> "acquire"
                    [] OTHER -> "forward"
       /\ d.how # "acquire" => e.src = IF d.how = "wait" /\ ~Guarding(f, d.dest) THEN d.second ELSE d.src

DefsListed == IsFiniteSet(D) /\ \A y \in D : defs[y] \in Seq(Range(defs[y]))

LEMMA ListedOk == DefsListed => DefsOk
<1>1. ASSUME DefsListed, NEW y \in D PROVE DOMAIN defs[y] \subseteq Nat
  <2>1. defs[y] \in Seq(Range(defs[y]))
    BY <1>1 DEF DefsListed
  <2> QED
    BY <2>1
<1> QED
  BY <1>1 DEF DefsListed, DefsOk

LEMMA Appended ==
  ASSUME NEW s, s \in Seq(Range(s)), NEW e
  PROVE  /\ Append(s, e) \in Seq(Range(Append(s, e)))
         /\ \A k \in DOMAIN s : k \in DOMAIN Append(s, e) /\ Append(s, e)[k] = s[k]
         /\ \E k \in DOMAIN Append(s, e) : Append(s, e)[k] = e
<1> DEFINE S == Range(s) \cup {e}
           t == Append(s, e)
<1>1. s \in Seq(S) /\ e \in S
  OBVIOUS
<1>2. /\ t \in Seq(S) /\ Len(t) = Len(s) + 1 /\ Len(s) \in Nat
      /\ \A k \in 1 .. Len(s) : t[k] = s[k]
      /\ t[Len(s) + 1] = e
  <2> HIDE DEF S
  <2> QED
    BY <1>1
<1>3. DOMAIN s = 1 .. Len(s) /\ DOMAIN t = 1 .. Len(t)
  BY <1>1, <1>2
<1>4. t \in Seq(Range(t))
  <2>1. t \in [1 .. Len(t) -> Range(t)] /\ Len(t) \in Nat
    <3> HIDE DEF S, t
    <3>1. t = [k \in 1 .. Len(t) |-> t[k]] /\ Len(t) \in Nat
      BY <1>2
    <3> QED
      BY <1>3, <3>1 DEF Range
  <2> HIDE DEF t
  <2> QED
    BY <2>1
<1>5. Len(s) + 1 \in DOMAIN t
  BY <1>2, <1>3
<1> HIDE DEF t
<1>6. \A k \in DOMAIN s : k \in DOMAIN t /\ t[k] = s[k]
  BY <1>2, <1>3
<1> QED
  BY <1>2, <1>4, <1>5, <1>6 DEF t

(* Recording a definition makes it known and forgets none.                 *)
LEMMA RecordKept ==
  ASSUME DefsListed, NEW x, NEW how, NEW src, NEW from, Record(x, how, src, from), crate' = crate
  PROVE  /\ DefsListed'
         /\ \A f, d : ReadIn(f, d) => ReadIn(f, d)'
         /\ x \in D' /\ \E k \in DOMAIN defs'[x] : defs'[x][k].how = how /\ defs'[x][k].src = src
<1> DEFINE e == [how |-> how, src |-> src, from |-> from]
           s == IF x \in D THEN defs[x] ELSE <<>>
<1>1. s \in Seq(Range(s))
  <2>1. CASE x \in D
    BY <2>1 DEF DefsListed
  <2>2. CASE x \notin D
    BY <2>2
  <2> QED
    BY <2>1, <2>2
<1>2. D' = D \cup {x} /\ \A y \in D' : defs'[y] = IF y = x THEN Append(s, e) ELSE defs[y]
  BY DEF Record, With, D
<1>3. e.how = how /\ e.src = src
  OBVIOUS
<1> HIDE DEF e
<1>4. /\ Append(s, e) \in Seq(Range(Append(s, e)))
      /\ \A k \in DOMAIN s : k \in DOMAIN Append(s, e) /\ Append(s, e)[k] = s[k]
      /\ \E k \in DOMAIN Append(s, e) : Append(s, e)[k] = e
  BY <1>1, Appended
<1>5. DefsListed'
  <2>1. IsFiniteSet(D')
    BY <1>2, FS_AddElement DEF DefsListed
  <2>2. \A y \in D' : defs'[y] \in Seq(Range(defs'[y]))
    BY <1>2, <1>4 DEF DefsListed
  <2> QED
    BY <2>1, <2>2 DEF DefsListed
<1>6. \A y \in D : y \in D' /\ \A k \in DOMAIN defs[y] : k \in DOMAIN defs'[y] /\ defs'[y][k] = defs[y][k]
  BY <1>2, <1>4
<1>7. \A f, d : ReadIn(f, d) => ReadIn(f, d)'
  BY <1>6 DEF ReadIn, Guarding
<1>8. x \in D' /\ \E k \in DOMAIN defs'[x] : defs'[x][k].how = how /\ defs'[x][k].src = src
  BY <1>2, <1>3, <1>4
<1> QED
  BY <1>5, <1>7, <1>8

(* Where the locks a place may own come from: from calls that take one, on *)
(* from place to place.                                                    *)
PlaceOf(d) == <<d.dest, d.field>>
PlacesOf(f) == {PlaceOf(crate.body[f][i]) : i \in DOMAIN crate.body[f]}
PartsOf(f, d) == {p \in PlacesOf(f) : p[1] = TakesFrom(d) /\ (p[2] = d.from \/ NoField \in {p[2], d.from})}

LEMMA OwnedComesFrom ==
  ASSUME NEW f, crate.body[f] \in Seq(Range(crate.body[f])), NEW Q,
         \A i \in DOMAIN crate.body[f] : crate.body[f][i].locks # {} => PlaceOf(crate.body[f][i]) \in Q,
         \A i \in DOMAIN crate.body[f] : \A q \in Q \cap PartsOf(f, crate.body[f][i]) :
           crate.body[f][i].how # "ref" => PlaceOf(crate.body[f][i]) \in Q
  PROVE  DOMAIN Owned(f) = PlacesOf(f) /\ \A p \in PlacesOf(f) : Owned(f)[p] # {} => p \in Q
<1> DEFINE body == crate.body[f]
           places == PlacesOf(f)
           given(A, d) == d.locks \cup IF d.how = "ref" THEN {} ELSE UNION {A[p] : p \in PartsOf(f, d)}
           Onward(A) == [p \in places |-> UNION {given(A, body[i]) : i \in {n \in DOMAIN body : PlaceOf(body[n]) = p}}]
           none == [p \in places |-> {}]
           N == UNION {body[i].locks : i \in DOMAIN body}
           T == [places -> SUBSET N]
           F == [A \in T |-> Onward(A)]
           owned == CHOOSE w : w = [k \in Nat |-> IF k = 0 THEN none ELSE Onward(w[k - 1])]
           c == Cardinality(places) + 1
<1>1. Owned(f) = owned[c]
  BY DEF Owned, PlacesOf, PlaceOf, PartsOf, TakesFrom
<1>2. \A A \in T : F[A] = Onward(A) /\ Onward(A) \in T
  <2> SUFFICES ASSUME NEW A \in T, NEW p \in places, NEW i \in DOMAIN body, NEW l \in given(A, body[i])
               PROVE  l \in N
    OBVIOUS
  <2>1. body[i].locks \subseteq N
    OBVIOUS
  <2>2. \A q \in PartsOf(f, body[i]) : A[q] \subseteq N
    BY DEF PartsOf
  <2> HIDE DEF N
  <2> QED
    BY <2>1, <2>2
<1>3. none \in T
  OBVIOUS
<1>4. Iterates(owned, F, none)
  <2>1. PICK w : Iterates(w, F, none)
    BY IterationExists
  <2> HIDE DEF F, T, Onward
  <2>2. \A k \in Nat : w[k] \in T
    BY <1>2, <1>3, <2>1, IterationType
  <2>3. \A k \in Nat : k # 0 => k - 1 \in Nat
    OBVIOUS
  <2>4. \A k \in Nat : k # 0 => F[w[k - 1]] = Onward(w[k - 1])
    BY <1>2, <2>2, <2>3
  <2> HIDE DEF none
  <2>5. w = [k \in Nat |-> IF k = 0 THEN none ELSE Onward(w[k - 1])]
    BY <2>1, <2>4 DEF Iterates
  <2>6. owned = [k \in Nat |-> IF k = 0 THEN none ELSE Onward(owned[k - 1])]
    BY <2>5
  <2> HIDE DEF owned
  <2>7. owned = [k \in Nat |-> owned[k]] /\ owned[0] = none
    BY <2>6
  <2>8. \A k \in Nat : owned[k + 1] = Onward(owned[k])
    <3>1. \A k \in Nat : k + 1 \in Nat /\ k + 1 # 0 /\ (k + 1) - 1 = k
      OBVIOUS
    <3> QED
      BY <2>6, <3>1
  <2>9. \A k \in Nat : owned[k] = w[k] => owned[k + 1] = F[w[k]]
    BY <1>2, <2>2, <2>8
  <2>10. owned = w
    BY ONLY <2>1, <2>7, <2>9, IterationUnique
  <2> QED
    BY <2>1, <2>10
<1>5. c \in Nat
  <2>1. IsFiniteSet(DOMAIN body)
    <3>1. DOMAIN body = 1 .. Len(body) /\ Len(body) \in Nat
      OBVIOUS
    <3> QED
      BY <3>1, FS_Interval
  <2> DEFINE O == [i \in DOMAIN body |-> PlaceOf(body[i])]
  <2>2. IsFiniteSet({O[i] : i \in DOMAIN body})
    <3> HIDE DEF O
    <3> QED
      BY <2>1, FiniteImage
  <2>3. places = {O[i] : i \in DOMAIN body}
    BY DEF PlacesOf
  <2> QED
    BY <2>2, <2>3, FS_CardinalityType
<1> DEFINE Held(A) == \A p \in places : A[p] # {} => p \in Q
           V == {A \in T : Held(A)}
<1>6. ASSUME NEW A \in V PROVE Held(Onward(A))
  <2> SUFFICES ASSUME NEW p \in places, NEW i \in DOMAIN body, PlaceOf(body[i]) = p,
                      NEW l \in given(A, body[i])
               PROVE  p \in Q
    OBVIOUS
  <2>1. CASE l \in body[i].locks
    BY <2>1
  <2>2. CASE l \notin body[i].locks
    <3>1. body[i].how # "ref" /\ \E q \in PartsOf(f, body[i]) : l \in A[q]
      BY <2>2
    <3>2. PICK q \in PartsOf(f, body[i]) : l \in A[q]
      BY <3>1
    <3>3. q \in places /\ q \in Q
      BY <3>2 DEF PartsOf
    <3> QED
      BY <3>1, <3>2, <3>3
  <2> QED
    BY <2>1, <2>2
<1>7. none \in V
  BY <1>3
<1> HIDE DEF F, Onward, none, T
<1>8. \A A \in V : F[A] \in V
  BY <1>2, <1>6
<1> HIDE DEF V, owned
<1>9. owned[c] \in V
  BY <1>4, <1>5, <1>7, <1>8, IterationType
<1>10. owned[c] \in T /\ Held(owned[c])
  BY <1>9 DEF V
<1>11. DOMAIN owned[c] = places
  BY <1>10 DEF T
<1> QED
  BY <1>1, <1>10, <1>11

(* At the end of a body: a lock is owned by what ends at a lock call, and by*)
(* what is not followed, which is no guard.                                *)
Local(f, x) == <<f, x, NoField>>
Unfollowed(f) ==
  {crate.body[f][i].dest : i \in {j \in DOMAIN crate.body[f] : ~Recorded(f, crate.body[f][j])}}

AllRead(f) ==
  \A i \in DOMAIN crate.body[f] : Recorded(f, crate.body[f][i]) => ReadIn(f, crate.body[f][i])

(* A guard kept in a coroutine's state is no local. *)
GuardsKept == {g \in DOMAIN guards : g[3] = NoField} = DOMAIN crate.guard

LEMMA KnownGuards ==
  ASSUME GuardsKept
  PROVE  \A f, x : Local(f, x) \in DOMAIN guards <=> Guarding(f, x)
BY DEF GuardsKept, Guarding, Local

LEMMA BodyFinds ==
  ASSUME NEW f, f = fn, TraceableIn(f), DefsListed, GuardsKept, AllRead(f)
  PROVE  \A x : Guarding(f, x) /\ At(Owned(f), <<x, NoField>>) # {} => Resolve(x) # {}
<1> DEFINE body == crate.body[f]
<1>1. PICK L \in SUBSET D : /\ EndsAt \subseteq L
                            /\ Back(L) \subseteq L
                            /\ \A y \in L : Resolve(y) # {}
  BY ListedOk, WalkFinds
<1> DEFINE Q == {p \in PlacesOf(f) : p[1] \in L \cup Unfollowed(f)}
<1>2. body \in Seq(Range(body))
  BY DEF TraceableIn
<1>3. ASSUME NEW i \in DOMAIN body, ~Recorded(f, body[i])
      PROVE  PlaceOf(body[i]) \in Q
  BY <1>3 DEF PlaceOf, PlacesOf, Unfollowed
<1>4. ASSUME NEW i \in DOMAIN body, body[i].dest \in L
      PROVE  PlaceOf(body[i]) \in Q
  BY <1>4 DEF PlaceOf, PlacesOf
<1>5. ASSUME NEW i \in DOMAIN body, Recorded(f, body[i])
      PROVE  /\ body[i].dest \in D
             /\ \E k \in DOMAIN defs[body[i].dest] : LET e == defs[body[i].dest][k] IN
                  /\ e.how = CASE body[i].how = "ref" -> "borrow"
                               [] body[i].how = "acquire" -> "acquire"
                               [] OTHER -> "forward"
                  /\ body[i].how # "acquire" =>
                       e.src = IF body[i].how = "wait" /\ ~Guarding(f, body[i].dest)
                                 THEN body[i].second ELSE body[i].src
  BY <1>5 DEF AllRead, ReadIn
<1>6. ASSUME NEW i \in DOMAIN body, Recorded(f, body[i]), body[i].how = "acquire"
      PROVE  body[i].dest \in L
  <2>1. body[i].dest \in EndsAt
    BY <1>5, <1>6 DEF EndsAt, EndsChain
  <2> QED
    BY <1>1, <2>1
<1>7. ASSUME NEW j \in DOMAIN body, Recorded(f, body[j]), body[j].how = "ref",
             ~Guarding(f, body[j].src)
      PROVE  body[j].dest \in L
  <2>1. PICK k \in DOMAIN defs[body[j].dest] :
          defs[body[j].dest][k].how = "borrow" /\ defs[body[j].dest][k].src = body[j].src
    BY <1>5, <1>7
  <2>2. Plain(body[j].src) \notin DOMAIN guards
    <3>1. \A x : Plain(x) \in DOMAIN guards <=> Guarding(f, x)
      <4>1. \A x : Plain(x) = Local(f, x)
        BY DEF Plain, Local
      <4> QED
        BY <4>1, KnownGuards
    <3> QED
      BY <1>7, <3>1
  <2>3. body[j].dest \in EndsAt
    BY <1>5, <1>7, <2>1, <2>2 DEF EndsAt, EndsChain
  <2> QED
    BY <1>1, <2>3
<1>8. ASSUME NEW i \in DOMAIN body, Recorded(f, body[i]), body[i].how # "acquire",
             (IF body[i].how = "wait" /\ ~Guarding(f, body[i].dest)
                THEN body[i].second ELSE body[i].src) \in L
      PROVE  body[i].dest \in L
  <2>1. body[i].dest \in Back(L)
    BY <1>5, <1>8 DEF Back
  <2> QED
    BY <1>1, <2>1
<1>9. \A i \in DOMAIN body : body[i].locks # {} => PlaceOf(body[i]) \in Q
  <2> SUFFICES ASSUME NEW i \in DOMAIN body, body[i].locks # {}, Recorded(f, body[i])
               PROVE  body[i].dest \in L
    BY <1>3, <1>4
  <2>1. \/ body[i].how = "acquire"
        \/ /\ body[i].how = "call"
           /\ \E j \in DOMAIN body : /\ body[j].how = "ref" /\ body[j].field = NoField
                                     /\ body[j].dest = body[i].src /\ ~Guarding(f, body[j].src)
    BY DEF TraceableIn
  <2>2. ASSUME body[i].how = "call", NEW j \in DOMAIN body, body[j].how = "ref",
               body[j].field = NoField, body[j].dest = body[i].src, ~Guarding(f, body[j].src)
        PROVE  body[i].dest \in L
    <3>1. Recorded(f, body[j])
      BY <2>2 DEF Recorded
    <3>2. body[i].src \in L
      BY <1>7, <2>2, <3>1
    <3> QED
      BY <1>8, <2>2, <3>2
  <2> QED
    BY <1>6, <2>1, <2>2
<1>10. ASSUME NEW i \in DOMAIN body, NEW q \in Q \cap PartsOf(f, body[i]), body[i].how # "ref"
       PROVE  PlaceOf(body[i]) \in Q
  <2> SUFFICES ASSUME Recorded(f, body[i]), body[i].how # "acquire" PROVE body[i].dest \in L
    BY <1>3, <1>4, <1>6
  <2>1. q[1] = TakesFrom(body[i]) /\ q[1] \in L \cup Unfollowed(f)
    BY DEF PartsOf
  <2>2. TakesFrom(body[i]) \notin Unfollowed(f)
    BY <1>10 DEF Unfollowed, TraceableIn
  <2>3. TakesFrom(body[i]) \in L
    BY <2>1, <2>2
  <2>4. CASE body[i].how = "wait" /\ Guarding(f, body[i].dest)
    BY <2>3, <2>4 DEF TraceableIn, TakesFrom
  <2>5. CASE ~(body[i].how = "wait" /\ Guarding(f, body[i].dest))
    BY <1>8, <2>3, <2>5 DEF TakesFrom
  <2> QED
    BY <2>4, <2>5
<1> HIDE DEF Q
<1>11. DOMAIN Owned(f) = PlacesOf(f) /\ \A p \in PlacesOf(f) : Owned(f)[p] # {} => p \in Q
  BY <1>2, <1>9, <1>10, OwnedComesFrom
<1>12. ASSUME NEW x, Guarding(f, x), At(Owned(f), <<x, NoField>>) # {}
       PROVE  Resolve(x) # {}
  <2>1. <<x, NoField>> \in Q
    BY <1>11, <1>12 DEF At
  <2>2. x \notin Unfollowed(f)
    BY <1>12 DEF Unfollowed, TraceableIn
  <2> QED
    BY <1>1, <2>1, <2>2 DEF Q
<1> QED
  BY <1>12

(* What has been read of the body is known.                                *)
ReadSoFar ==
  /\ node \in Nat \ {0} /\ next \in Nat \ {0}
  /\ DefsListed
  /\ node \in DOMAIN crate.nodes =>
       \A i \in DOMAIN crate.body[fn] :
         i < next /\ Recorded(fn, crate.body[fn][i]) => ReadIn(fn, crate.body[fn][i])

(* A guard without a lock object owns no lock, or its body is still to be  *)
(* read to its end.                                                        *)
GuardsFollowed ==
  \A g \in DOMAIN guards :
    \/ g \in DOMAIN objects
    \/ Protects(g) = {}
    \/ /\ phase = "collect"
       /\ \E j \in DOMAIN crate.nodes : node =< j /\ g = Local(crate.nodes[j], g[2])

(* Inductive for crates that are Traceable. *)
ReceiverInv ==
  /\ GuardsKept
  /\ GuardsFollowed
  /\ phase = "collect" => ReadSoFar

(* Nothing has been read. *)
NothingRead ==
  phase = "collect" /\ node = 1 /\ next = 1 /\ defs = <<>> /\ guards = crate.guard

LEMMA InitReceiverInv == NothingRead /\ Traceable => ReceiverInv
<1> SUFFICES ASSUME NothingRead, Traceable PROVE ReceiverInv
  OBVIOUS
<1>1. phase = "collect" /\ node = 1 /\ next = 1 /\ defs = <<>> /\ guards = crate.guard
  BY DEF NothingRead
<1>2. GuardsKept
  <2>1. ASSUME NEW g \in DOMAIN crate.guard PROVE g[3] = NoField
    BY DEF Traceable
  <2> QED
    BY <1>1, <2>1 DEF GuardsKept
<1>3. GuardsFollowed
  <2> SUFFICES ASSUME NEW g \in DOMAIN guards
               PROVE  \E j \in DOMAIN crate.nodes : node =< j /\ g = Local(crate.nodes[j], g[2])
    BY <1>1 DEF GuardsFollowed
  <2>1. PICK f \in Range(crate.nodes) : g = <<f, g[2], NoField>>
    BY <1>1 DEF Traceable
  <2>2. PICK j \in DOMAIN crate.nodes : f = crate.nodes[j]
    BY DEF Range
  <2>3. crate.nodes \in Seq(Range(crate.nodes))
    BY DEF Traceable
  <2>4. j \in Nat /\ 1 =< j
    BY <2>2, <2>3
  <2> QED
    BY <1>1, <2>1, <2>2, <2>4 DEF Local
<1>4. ReadSoFar
  <2>1. DefsListed
    BY <1>1, FS_EmptySet DEF DefsListed, D
  <2>2. ASSUME node \in DOMAIN crate.nodes, NEW i \in DOMAIN crate.body[fn] PROVE ~(i < next)
    <3>1. crate.body[fn] \in Seq(Range(crate.body[fn]))
      BY <2>2 DEF Traceable, TraceableIn, fn, Range
    <3> QED
      BY <1>1, <3>1
  <2> QED
    BY <1>1, <2>1, <2>2 DEF ReadSoFar
<1> QED
  BY <1>2, <1>3, <1>4 DEF ReceiverInv

(* What a step that reads a definition has to show.                        *)
LEMMA ReadingKeeps ==
  ASSUME ReceiverInv, Traceable,
         phase = "collect", node \in DOMAIN crate.nodes, next \in DOMAIN crate.body[fn],
         crate' = crate, phase' = phase, node' = node, next' = next + 1,
         NEW f, f = fn, NEW d, d = crate.body[fn][next],
         DefsListed', \A x : ReadIn(f, x) => ReadIn(f, x)', Recorded(f, d) => ReadIn(f, d)',
         GuardsKept',
         \A g \in DOMAIN guards' : g \in DOMAIN guards \cup DOMAIN objects',
         DOMAIN objects \subseteq DOMAIN objects'
  PROVE  ReceiverInv'
<1>1. GuardsFollowed'
  <2>1. \A g : Protects(g)' = Protects(g)
    BY DEF Protects, At, Owned
  <2> QED
    BY <2>1 DEF ReceiverInv, GuardsFollowed
<1>2. ReadSoFar'
  <2>1. /\ node \in Nat \ {0} /\ next \in Nat \ {0}
        /\ \A i \in DOMAIN crate.body[f] :
             i < next /\ Recorded(f, crate.body[f][i]) => ReadIn(f, crate.body[f][i])
    <3>1. ReadSoFar
      BY DEF ReceiverInv
    <3>2. \A i \in DOMAIN crate.body[fn] :
            i < next /\ Recorded(fn, crate.body[fn][i]) => ReadIn(fn, crate.body[fn][i])
      BY <3>1 DEF ReadSoFar
    <3> QED
      BY <3>1, <3>2 DEF ReadSoFar
  <2>2. crate.body[f] \in Seq(Range(crate.body[f]))
    <3>1. f \in Range(crate.nodes)
      BY DEF fn, Range
    <3>2. TraceableIn(f)
      BY <3>1 DEF Traceable
    <3> QED
      BY <3>2 DEF TraceableIn
  <2>3. fn' = f
    BY DEF fn
  <2>4. \A x : Recorded(f, x)' <=> Recorded(f, x)
    BY DEF Recorded, Guarding
  <2>5. ASSUME NEW i \in DOMAIN crate.body[f], i < next + 1, Recorded(f, crate.body[f][i])
        PROVE  ReadIn(f, crate.body[f][i])'
    <3>1. i < next \/ i = next
      BY <2>1, <2>2, <2>5
    <3>2. CASE i < next
      BY <2>1, <2>5, <3>2
    <3>3. CASE i = next
      BY <2>5, <3>3
    <3> QED
      BY <3>1, <3>2, <3>3
  <2>6. next' \in Nat \ {0}
    BY <2>1
  <2> QED
    BY <2>1, <2>3, <2>4, <2>5, <2>6 DEF ReadSoFar
<1> QED
  BY <1>1, <1>2 DEF ReceiverInv

(* A definition that is recorded. *)
LEMMA RecordingKeeps ==
  ASSUME ReceiverInv, Traceable,
         phase = "collect", node \in DOMAIN crate.nodes, next \in DOMAIN crate.body[fn],
         crate' = crate, phase' = phase, node' = node, next' = next + 1,
         guards' = guards, objects' = objects,
         NEW f, f = fn, NEW d, d = crate.body[fn][next],
         NEW how, NEW src, NEW from, Record(d.dest, how, src, from),
         Recorded(f, d) =>
           /\ how = CASE d.how = "ref" -> "borrow"
                      [] d.how = "acquire" -> "acquire"
                      [] OTHER -> "forward"
           /\ d.how # "acquire" =>
                src = IF d.how = "wait" /\ ~Guarding(f, d.dest) THEN d.second ELSE d.src
  PROVE  ReceiverInv'
<1>1. DefsListed
  BY DEF ReceiverInv, ReadSoFar
<1>2. /\ DefsListed'
      /\ \A g, x : ReadIn(g, x) => ReadIn(g, x)'
      /\ d.dest \in D' /\ \E k \in DOMAIN defs'[d.dest] :
           defs'[d.dest][k].how = how /\ defs'[d.dest][k].src = src
  BY <1>1, RecordKept
<1>3. Guarding(f, d.dest)' <=> Guarding(f, d.dest)
  BY DEF Guarding
<1>4. Recorded(f, d) => ReadIn(f, d)'
  BY <1>2, <1>3 DEF ReadIn
<1>5. GuardsKept'
  BY DEF ReceiverInv, GuardsKept
<1> QED
  BY <1>2, <1>4, <1>5, ReadingKeeps

LEMMA CollectReceivers ==
  ASSUME ReceiverInv, Traceable, Collect
  PROVE  ReceiverInv'
<1>1. /\ phase = "collect" /\ node \in DOMAIN crate.nodes /\ next \in DOMAIN crate.body[fn]
      /\ crate' = crate /\ phase' = phase /\ node' = node /\ next' = next + 1
  BY DEF Collect, Use, Ref, Acquire, Extract, Wait, Ignore, Reading
<1>2. PICK f, d : f = fn /\ d = crate.body[fn][next]
  OBVIOUS
<1>3. Use(d) \/ Ref(d) \/ Acquire(d) \/ Extract(d) \/ Wait(d) \/ Ignore(d)
  BY <1>2 DEF Collect
<1>4. \A x : Plain(x) \in DOMAIN guards <=> Guarding(f, x)
  <2>1. \A x : Plain(x) = Local(f, x)
    BY <1>2 DEF Plain, Local
  <2>2. GuardsKept
    BY DEF ReceiverInv
  <2> QED
    BY <2>1, <2>2, KnownGuards
<1>5. CASE Use(d)
  <2>1. /\ Record(d.dest, "forward", d.src, d.from)
        /\ guards' = guards /\ objects' = objects /\ d.how = "use"
    BY <1>2, <1>5 DEF Use, Reading
  <2> QED
    BY <1>1, <1>2, <2>1, RecordingKeeps
<1>6. CASE Ref(d)
  <2>1. /\ Record(d.dest, "borrow", d.src, d.from)
        /\ guards' = guards /\ objects' = objects /\ d.how = "ref"
    BY <1>2, <1>6 DEF Ref, Reading
  <2> QED
    BY <1>1, <1>2, <2>1, RecordingKeeps
<1>7. CASE Extract(d)
  <2>1. /\ Record(d.dest, "forward", d.src, d.from)
        /\ guards' = guards /\ objects' = objects
        /\ d.how \in {"extract", "call", "wait"}
        /\ d.how = "wait" => Guarding(f, d.dest)
    BY <1>2, <1>4, <1>7 DEF Extract, Reading
  <2> QED
    BY <1>1, <1>2, <2>1, RecordingKeeps
<1>8. CASE Wait(d)
  <2>1. /\ Record(d.dest, "forward", d.second, NoField)
        /\ guards' = guards /\ objects' = objects
        /\ d.how = "wait" /\ ~Guarding(f, d.dest)
    BY <1>2, <1>4, <1>8 DEF Wait, Reading
  <2> QED
    BY <1>1, <1>2, <2>1, RecordingKeeps
<1>9. ASSUME defs' = defs, ~Recorded(f, d), GuardsKept',
             \A g \in DOMAIN guards' : g \in DOMAIN guards \cup DOMAIN objects',
             DOMAIN objects \subseteq DOMAIN objects'
      PROVE  ReceiverInv'
  <2>1. DefsListed
    BY <1>1 DEF ReceiverInv, ReadSoFar
  <2>2. DefsListed' /\ \A x : ReadIn(f, x) => ReadIn(f, x)'
    BY <1>1, <1>9, <2>1 DEF DefsListed, D, ReadIn, Guarding
  <2> QED
    BY <1>1, <1>2, <1>9, <2>2, ReadingKeeps
<1>10. CASE Ignore(d)
  <2>1. /\ defs' = defs /\ guards' = guards /\ objects' = objects
        /\ d.how = "store" \/ (d.how = "call" /\ ~Guarding(f, d.dest))
    BY <1>2, <1>4, <1>10 DEF Ignore, Reading
  <2>2. ~Recorded(f, d)
    BY <2>1 DEF Recorded
  <2>3. GuardsKept'
    BY <1>1, <2>1 DEF ReceiverInv, GuardsKept
  <2> QED
    BY <1>9, <2>1, <2>2, <2>3
<1>11. CASE Acquire(d)
  <2> DEFINE at == TraceToReceiver(d.src).at
             field == OrElse(d.from, TraceToReceiver(d.src).from)
             guard == <<fn, d.dest, d.field>>
  <2>1. d.how = "acquire"
    BY <1>2, <1>11 DEF Acquire, Reading
  <2>2. CASE d.field = NoField
    <3>1. /\ Record(d.dest, "acquire", at, field)
          /\ guards' = guards /\ objects' = objects
      BY <1>11, <2>2 DEF Acquire
    <3> HIDE DEF at, field
    <3> QED
      BY <1>1, <1>2, <2>1, <3>1, RecordingKeeps
  <2>3. CASE d.field # NoField
    <3>1. /\ defs' = defs
          /\ \/ guards' = guards /\ objects' = objects
             \/ /\ guards' = With(guards, guard, d.kind)
                /\ objects' = With(objects, guard, <<fn, at, field>>)
      BY <1>11, <2>3 DEF Acquire
    <3>2. ~Recorded(f, d)
      BY <2>3 DEF Recorded
    <3>3. \A m, x, v : DOMAIN With(m, x, v) = DOMAIN m \cup {x}
      BY DEF With
    <3> HIDE DEF at, field
    <3>4. \/ DOMAIN guards' = DOMAIN guards /\ DOMAIN objects' = DOMAIN objects
          \/ /\ DOMAIN guards' = DOMAIN guards \cup {guard}
             /\ DOMAIN objects' = DOMAIN objects \cup {guard}
      <4> DEFINE object == <<fn, at, field>>
                 kind == d.kind
      <4>1. \/ guards' = guards /\ objects' = objects
            \/ guards' = With(guards, guard, kind) /\ objects' = With(objects, guard, object)
        BY <3>1
      <4> HIDE DEF guard, object, kind
      <4>2. /\ DOMAIN With(guards, guard, kind) = DOMAIN guards \cup {guard}
            /\ DOMAIN With(objects, guard, object) = DOMAIN objects \cup {guard}
        BY ONLY <3>3, Zenon
      <4> QED
        BY ONLY <4>1, <4>2, Zenon
    <3>5. GuardsKept'
      <4>1. guard[3] # NoField
        BY <2>3
      <4>2. GuardsKept
        BY DEF ReceiverInv
      <4> QED
        BY <1>1, <3>4, <4>1, <4>2 DEF GuardsKept
    <3> QED
      BY <1>9, <3>1, <3>2, <3>4, <3>5
  <2> QED
    BY <2>2, <2>3
<1> QED
  BY <1>3, <1>5, <1>6, <1>7, <1>8, <1>10, <1>11

(* At the end of a body each of its guards that owns a lock is resolved.   *)
LEMMA EndBodyReceivers ==
  ASSUME ReceiverInv, Traceable, EndBody
  PROVE  ReceiverInv'
<1> DEFINE resolved == {g \in DOMAIN guards : g[1] = fn /\ g[3] = NoField /\ Resolve(g[2]) # {}}
<1>1. /\ phase = "collect" /\ node \in DOMAIN crate.nodes /\ next \notin DOMAIN crate.body[fn]
      /\ crate' = crate /\ phase' = phase /\ guards' = guards /\ defs' = <<>>
      /\ node' = node + 1 /\ next' = 1
  BY DEF EndBody
<1>2. DOMAIN objects' = resolved \cup DOMAIN objects
  BY DEF EndBody
<1>3. PICK f : f = fn
  OBVIOUS
<1>4. TraceableIn(f)
  <2>1. f \in Range(crate.nodes)
    BY <1>1, <1>3 DEF fn, Range
  <2> QED
    BY <2>1 DEF Traceable
<1>5. ReadSoFar /\ GuardsKept /\ GuardsFollowed
  BY <1>1 DEF ReceiverInv
<1>6. AllRead(f)
  <2> SUFFICES ASSUME NEW i \in DOMAIN crate.body[f], Recorded(f, crate.body[f][i])
               PROVE  ReadIn(f, crate.body[f][i])
    BY DEF AllRead
  <2>1. crate.body[f] \in Seq(Range(crate.body[f]))
    BY <1>4 DEF TraceableIn
  <2>2. next \in Nat \ {0}
    BY <1>5 DEF ReadSoFar
  <2>3. DOMAIN crate.body[f] = 1 .. Len(crate.body[f]) /\ Len(crate.body[f]) \in Nat
    BY <2>1
  <2>4. i < next
    BY <1>1, <1>3, <2>2, <2>3
  <2> QED
    BY <1>1, <1>3, <1>5, <2>4 DEF ReadSoFar
<1>7. \A x : Guarding(f, x) /\ At(Owned(f), <<x, NoField>>) # {} => Resolve(x) # {}
  BY <1>3, <1>4, <1>5, <1>6, BodyFinds DEF ReadSoFar
<1>8. ASSUME NEW g \in DOMAIN guards, g = Local(f, g[2]), Protects(g) # {} PROVE g \in resolved
  <2>1. g[1] = f /\ g[3] = NoField
    BY <1>8 DEF Local
  <2>2. Guarding(f, g[2])
    BY <1>5, <1>8, KnownGuards
  <2>3. At(Owned(f), <<g[2], NoField>>) # {}
    BY <1>8, <2>1 DEF Protects
  <2> QED
    BY <1>3, <1>7, <2>1, <2>2, <2>3
<1>9. GuardsFollowed'
  <2>1. \A g : Protects(g)' = Protects(g)
    BY <1>1 DEF Protects, At, Owned
  <2> SUFFICES ASSUME NEW g \in DOMAIN guards, g \notin DOMAIN objects', Protects(g) # {}
               PROVE  \E j \in DOMAIN crate.nodes : node + 1 =< j /\ g = Local(crate.nodes[j], g[2])
    BY <1>1, <2>1 DEF GuardsFollowed
  <2>2. PICK j \in DOMAIN crate.nodes : node =< j /\ g = Local(crate.nodes[j], g[2])
    BY <1>2, <1>5 DEF GuardsFollowed
  <2>3. j # node
    BY <1>2, <1>3, <1>8, <2>2 DEF fn
  <2>4. node \in Nat /\ j \in Nat
    BY <1>5, <2>2 DEF ReadSoFar, Traceable
  <2>5. node + 1 =< j
    BY <2>2, <2>3, <2>4
  <2> QED
    BY <2>2, <2>5
<1>10. ReadSoFar'
  <2>1. DefsListed'
    BY <1>1, FS_EmptySet DEF DefsListed, D
  <2>2. node' \in Nat \ {0} /\ next' \in Nat \ {0}
    BY <1>1, <1>5 DEF ReadSoFar
  <2>3. ASSUME (node \in DOMAIN crate.nodes)', NEW i \in DOMAIN crate.body[fn]' PROVE ~(i < next')
    <3>1. PICK h : h = fn'
      OBVIOUS
    <3>2. h \in Range(crate.nodes)
      BY <1>1, <2>3, <3>1 DEF fn, Range
    <3>3. TraceableIn(h)
      BY <3>2 DEF Traceable
    <3>4. crate.body[h] \in Seq(Range(crate.body[h]))
      BY <3>3 DEF TraceableIn
    <3>5. i \in DOMAIN crate.body[h]
      BY <1>1, <2>3, <3>1
    <3> QED
      BY <1>1, <3>4, <3>5
  <2> QED
    BY <2>1, <2>2, <2>3 DEF ReadSoFar
<1> QED
  BY <1>1, <1>5, <1>9, <1>10 DEF ReceiverInv, GuardsKept

(* When the guards are united no body is left. *)
LEMMA UniteReceivers ==
  ASSUME ReceiverInv, Traceable,
         \/ StartUniting
         \/ phase \in {"unite", "done"} /\ UNCHANGED <<crate, guards, objects>>
            /\ phase' \in {"unite", "done"}
  PROVE  ReceiverInv'
<1>1. /\ crate' = crate /\ guards' = guards /\ objects' = objects
      /\ phase' \in {"unite", "done"}
      /\ phase = "collect" => node \notin DOMAIN crate.nodes
  BY DEF StartUniting, collectVars
<1>2. \A g : Protects(g)' = Protects(g)
  BY <1>1 DEF Protects, At, Owned
<1>3. ASSUME phase = "collect", NEW j \in DOMAIN crate.nodes PROVE ~(node =< j)
  <2>1. node \in Nat \ {0}
    BY <1>3 DEF ReceiverInv, ReadSoFar
  <2>2. crate.nodes \in Seq(Range(crate.nodes))
    BY DEF Traceable
  <2>3. DOMAIN crate.nodes = 1 .. Len(crate.nodes) /\ Len(crate.nodes) \in Nat
    BY <2>2
  <2> QED
    BY <1>1, <1>3, <2>1, <2>3
<1>4. GuardsFollowed'
  <2>1. GuardsFollowed
    BY DEF ReceiverInv
  <2> QED
    BY <1>1, <1>2, <1>3, <2>1 DEF GuardsFollowed
<1>5. GuardsKept'
  BY <1>1 DEF ReceiverInv, GuardsKept
<1> QED
  BY <1>1, <1>4, <1>5 DEF ReceiverInv

(* What the crate has to be and what the invariant says depend on these.   *)
LEMMA TraceableKept ==
  ASSUME crate' = crate
  PROVE  Traceable' <=> Traceable
<1>1. \A f, x : Guarding(f, x)' <=> Guarding(f, x)
  BY DEF Guarding
<1>2. \A f, d : Recorded(f, d)' <=> Recorded(f, d)
  BY <1>1 DEF Recorded
<1>3. \A f : crate'.body[f] = crate.body[f]
  OBVIOUS
<1>4. ASSUME NEW f, TraceableIn(f) PROVE TraceableIn(f)'
  BY <1>1, <1>2, <1>3, <1>4 DEF TraceableIn
<1>5. ASSUME NEW f, TraceableIn(f)' PROVE TraceableIn(f)
  BY <1>1, <1>2, <1>3, <1>5 DEF TraceableIn
<1>6. \A f : TraceableIn(f)' <=> TraceableIn(f)
  BY <1>4, <1>5
<1>7. Range(crate.nodes)' = Range(crate.nodes)
  OBVIOUS
<1> QED
  BY <1>6, <1>7 DEF Traceable

LEMMA ReceiversKept ==
  ASSUME ReceiverInv, UNCHANGED <<crate, phase, collectVars>>
  PROVE  ReceiverInv'
<1>1. /\ crate' = crate /\ phase' = phase /\ node' = node /\ next' = next /\ defs' = defs
      /\ guards' = guards /\ objects' = objects
  BY DEF collectVars
<1>2. \A g : Protects(g)' = Protects(g)
  BY <1>1 DEF Protects, At, Owned
<1>3. ReadSoFar' <=> ReadSoFar
  BY <1>1 DEF ReadSoFar, DefsListed, D, Recorded, ReadIn, Guarding, fn
<1>4. GuardsKept' /\ GuardsFollowed'
  BY <1>1, <1>2 DEF ReceiverInv, GuardsKept, GuardsFollowed
<1> QED
  BY <1>1, <1>3, <1>4 DEF ReceiverInv

(* In a crate that moves its guards from local to local every guard that   *)
(* some lock call of its body reaches gets its lock object: whatever chain *)
(* of definitions leads there, however these go round in loops and in      *)
(* whatever order the blocks are numbered.                                 *)
THEOREM ReceiversAreFound == Spec /\ Traceable => []ReceiversFound
<1> DEFINE Inv == Traceable /\ phase \in {"collect", "unite", "done"} /\ ReceiverInv
<1>1. Init /\ Traceable => Inv
  BY InitReceiverInv DEF Init, NothingRead
<1>2. Inv /\ [Next]_vars => Inv'
  <2> SUFFICES ASSUME Inv, [Next]_vars PROVE Inv'
    OBVIOUS
  <2>1. crate' = crate
    <3>1. CASE Collect
      BY <3>1 DEF Collect, Use, Ref, Acquire, Extract, Wait, Ignore, Reading
    <3>2. CASE EndBody \/ StartUniting \/ ComparePair \/ CreatePlaces
      BY <3>2 DEF EndBody, StartUniting, ComparePair, CreatePlaces
    <3>3. CASE UNCHANGED vars
      BY <3>3 DEF vars
    <3> QED
      BY <3>1, <3>2, <3>3 DEF Next, Step, Done
  <2>2. Traceable'
    BY <2>1, TraceableKept
  <2>3. CASE Collect
    BY <2>2, <2>3, CollectReceivers
       DEF Collect, Use, Ref, Acquire, Extract, Wait, Ignore, Reading
  <2>4. CASE EndBody
    BY <2>2, <2>4, EndBodyReceivers DEF EndBody
  <2>5. CASE StartUniting
    BY <2>2, <2>5, UniteReceivers DEF StartUniting
  <2>6. CASE ComparePair \/ CreatePlaces
    BY <2>2, <2>6, UniteReceivers DEF ComparePair, CreatePlaces, collectVars
  <2>7. CASE UNCHANGED vars
    <3>1. phase' = phase /\ ReceiverInv'
      BY <2>7, ReceiversKept DEF vars
    <3> QED
      BY <2>2, <3>1
  <2> QED
    BY <2>3, <2>4, <2>5, <2>6, <2>7 DEF Next, Step, Done
<1>3. Inv => ReceiversFound
  BY DEF ReceiverInv, GuardsFollowed, ReceiversFound
<1> QED
  BY <1>1, <1>2, <1>3, PTL DEF Spec


=============================================================================
