---------------------- MODULE AtomicityDetector_proofs ----------------------
(***************************************************************************)
(* Proofs about the search for atomicity violations: for all finite state  *)
(* graphs and all limits, what the matcher remembers of a walk is what the *)
(* walk says, every witness is a violation that some run commits, and if   *)
(* no limit is met some violation of every kind there is is reported.      *)
(***************************************************************************)
EXTENDS AtomicityDetector, Iteration

(* Step i stores, as thread j, into the interval of k that began at from,   *)
(* and no end came later.                                                   *)
StoreSince(tr, r, k, from, j, i) ==
  /\ i \in from + 1 .. Len(tr)
  /\ IsMid(r, tr[i]) /\ KeyOf(tr[i]) = <<k[1], j>>
  /\ \A e \in i + 1 .. Len(tr) : ~(IsEnd(r, tr[e]) /\ KeyOf(tr[e]) = k)

(* Mirrors, entry by entry. *)
LastIsLast(tr, m, r) ==
  /\ \A k \in DOMAIN m.last : /\ m.last[k] \in 1 .. Len(tr)
                              /\ IsStart(r, tr[m.last[k]]) /\ KeyOf(tr[m.last[k]]) = k
  /\ \A i \in 1 .. Len(tr) : IsStart(r, tr[i]) =>
       KeyOf(tr[i]) \in DOMAIN m.last /\ i =< m.last[KeyOf(tr[i])]

SawStores(tr, m, r) ==
  \A k \in DOMAIN m.saw :
    /\ k \in DOMAIN m.last /\ DOMAIN m.saw[k] # {}
    /\ \A j \in DOMAIN m.saw[k] : j # k[2] /\ StoreSince(tr, r, k, m.last[k], j, m.saw[k][j])

SawTheLast(tr, m, r) ==
  \A k \in DOMAIN m.last : \A i \in 1 .. Len(tr) : \A j :
    j # k[2] /\ StoreSince(tr, r, k, m.last[k], j, i) =>
      k \in DOMAIN m.saw /\ j \in DOMAIN m.saw[k] /\ i =< m.saw[k][j]

Remembers(tr, m, r) ==
  /\ m = [last |-> m.last, saw |-> m.saw]
  /\ LastIsLast(tr, m, r) /\ SawStores(tr, m, r) /\ SawTheLast(tr, m, r)

LEMMA MaxIs ==
  ASSUME NEW S \in SUBSET Nat, NEW x \in S, \A y \in S : y =< x
  PROVE  Max(S) = x
<1>1. \A y \in S : x >= y
  OBVIOUS
<1>2. \A z \in S : (\A y \in S : z >= y) => z = x
  OBVIOUS
<1> QED
  BY <1>1, <1>2 DEF Max

LEMMA RemembersMirrors ==
  ASSUME NEW r, NEW tr \in Seq(TransitionIds), NEW m, Remembers(tr, m, r)
  PROVE  Mirrors(tr, m, r)
<1> DEFINE starts(k) == {i \in DOMAIN tr : IsStart(r, tr[i]) /\ KeyOf(tr[i]) = k}
           ends(k, i) == \E e \in Since(tr, i) : IsEnd(r, tr[e]) /\ KeyOf(tr[e]) = k
           stores(k, j) == {i \in Since(tr, m.last[k]) :
                              /\ IsMid(r, tr[i])
                              /\ KeyOf(tr[i]) = <<k[1], j>>
                              /\ ~ends(k, i)}
           others(k) == {KeyOf(tr[i])[2] : i \in DOMAIN tr} \ {k[2]}
           intruders(k) == {j \in others(k) : stores(k, j) # {}}
<1>1. DOMAIN tr = 1 .. Len(tr) /\ Len(tr) \in Nat
  OBVIOUS
<1>2. \A k, j, i : i \in stores(k, j) <=> StoreSince(tr, r, k, m.last[k], j, i)
  BY DEF StoreSince, Since
<1>3. \A k \in DOMAIN m.last : m.last[k] \in 1 .. Len(tr)
  BY DEF Remembers, LastIsLast
<1>4. \A k \in DOMAIN m.last : \A j, i : StoreSince(tr, r, k, m.last[k], j, i) => i \in 1 .. Len(tr)
  BY <1>1, <1>3 DEF StoreSince
<1>5. \A k \in DOMAIN m.last : \A j : stores(k, j) \subseteq Nat
  <2> HIDE DEF stores
  <2> SUFFICES ASSUME NEW k \in DOMAIN m.last, NEW j, NEW i \in stores(k, j) PROVE i \in Nat
    OBVIOUS
  <2>1. StoreSince(tr, r, k, m.last[k], j, i)
    BY <1>2
  <2>2. i \in 1 .. Len(tr)
    BY <1>4, <2>1
  <2> QED
    BY <1>1, <2>2
<1>6. \A k \in DOMAIN m.last : \A j :
        j \in intruders(k) <=> j # k[2] /\ \E i : StoreSince(tr, r, k, m.last[k], j, i)
  <2> SUFFICES ASSUME NEW k \in DOMAIN m.last, NEW j, NEW i, StoreSince(tr, r, k, m.last[k], j, i)
               PROVE  j \in {KeyOf(tr[h])[2] : h \in DOMAIN tr}
    BY <1>2
  <2>1. i \in DOMAIN tr /\ KeyOf(tr[i])[2] = j
    BY <1>1, <1>4 DEF StoreSince
  <2> QED
    BY <2>1
<1>7. \A k \in DOMAIN m.last : m.last[k] = Max(starts(k))
  <2> SUFFICES ASSUME NEW k \in DOMAIN m.last PROVE m.last[k] = Max(starts(k))
    OBVIOUS
  <2> DEFINE S == starts(k)
             x == m.last[k]
  <2>1. S \in SUBSET Nat /\ x \in S
    BY <1>1 DEF Remembers, LastIsLast
  <2>2. \A y \in S : y =< x
    BY <1>1 DEF Remembers, LastIsLast
  <2> HIDE DEF S, x
  <2>3. Max(S) = x
    BY ONLY <2>1, <2>2, MaxIs
  <2> QED
    BY <2>3 DEF S, x
<1>8. DOMAIN m.last = {KeyOf(tr[i]) : i \in {h \in DOMAIN tr : IsStart(r, tr[h])}}
  BY <1>1 DEF Remembers, LastIsLast
<1> HIDE DEF intruders, stores
<1>9. DOMAIN m.saw = {k \in DOMAIN m.last : intruders(k) # {}}
  <2>1. ASSUME NEW k \in DOMAIN m.saw PROVE k \in DOMAIN m.last /\ intruders(k) # {}
    BY <1>6 DEF Remembers, SawStores
  <2>2. ASSUME NEW k \in DOMAIN m.last, NEW j \in intruders(k) PROVE k \in DOMAIN m.saw
    BY <1>4, <1>6 DEF Remembers, SawTheLast
  <2> QED
    BY <2>1, <2>2
<1>10. ASSUME NEW k \in DOMAIN m.saw
       PROVE  /\ DOMAIN m.saw[k] = intruders(k)
              /\ \A j \in intruders(k) : m.saw[k][j] = Max(stores(k, j))
  <2>1. k \in DOMAIN m.last
    BY DEF Remembers, SawStores
  <2>2. DOMAIN m.saw[k] = intruders(k)
    <3>1. \A j \in DOMAIN m.saw[k] : j \in intruders(k)
      BY <1>6, <2>1 DEF Remembers, SawStores
    <3>2. \A j \in intruders(k) : j \in DOMAIN m.saw[k]
      BY <1>4, <1>6, <2>1 DEF Remembers, SawTheLast
    <3> QED
      BY <3>1, <3>2
  <2>3. ASSUME NEW j \in intruders(k) PROVE m.saw[k][j] = Max(stores(k, j))
    <3> DEFINE S == stores(k, j)
               x == m.saw[k][j]
    <3>1. j # k[2]
      BY <1>6, <2>1
    <3>2. S \in SUBSET Nat
      BY <1>5, <2>1
    <3>3. x \in S
      BY <1>2, <2>2 DEF Remembers, SawStores
    <3>4. \A y \in S : y =< x
      BY <1>2, <1>4, <2>1, <3>1 DEF Remembers, SawTheLast
    <3> HIDE DEF S, x
    <3>5. Max(S) = x
      BY ONLY <3>2, <3>3, <3>4, MaxIs
    <3> QED
      BY <3>5 DEF S, x
  <2> QED
    BY <2>2, <2>3
<1> QED
  BY <1>7, <1>8, <1>9, <1>10 DEF Mirrors, intruders, stores
-----------------------------------------------------------------------------
LEMMA NothingRemembered ==
  ASSUME NEW r PROVE Remembers(<<>>, Forgotten, r)
BY DEF Remembers, Forgotten, LastIsLast, SawStores, SawTheLast

(* An event is of the kinds of its rule; what is no event is of none.       *)
LEMMA NoEventNoRole ==
  ASSUME NEW r \in RuleId, NEW t, ~IsEvent(t)
  PROVE  ~IsStart(r, t) /\ ~IsMid(r, t) /\ ~IsEnd(r, t)
<1>1. r \in 1 .. 3
  BY DEF RuleId, Rules
<1>2. r = 1 \/ r = 2 \/ r = 3
  BY <1>1
<1>3. Rules[r].start # "None" /\ Rules[r].mid # "None" /\ Rules[r].end # "None"
  BY <1>2 DEF Rules
<1> QED
  BY <1>3 DEF IsEvent, IsStart, IsMid, IsEnd

(* Everything seen in an interval is consumed by its end. *)
LEMMA EndConsumes ==
  ASSUME NEW r, NEW tr \in Seq(TransitionIds), NEW m, Remembers(tr, m, r), NEW t, IsEnd(r, t),
         KeyOf(t) \in DOMAIN m.saw
  PROVE  Closed(m, r, t, Len(tr) + 1) = DOMAIN m.saw[KeyOf(t)]
<1> DEFINE K == KeyOf(t)
<1>1. K \in DOMAIN m.last /\ m.last[K] \in 1 .. Len(tr)
  BY DEF Remembers, SawStores, LastIsLast
<1>2. \A j \in DOMAIN m.saw[K] : m.saw[K][j] \in m.last[K] + 1 .. Len(tr)
  BY DEF Remembers, SawStores, StoreSince
<1>3. Closed(m, r, t, Len(tr) + 1) =
        {j \in DOMAIN m.saw[K] : m.last[K] < m.saw[K][j] /\ m.saw[K][j] < Len(tr) + 1}
  BY <1>1 DEF Closed
<1>4. \A j \in DOMAIN m.saw[K] : m.last[K] < m.saw[K][j] /\ m.saw[K][j] < Len(tr) + 1
  BY <1>1, <1>2
<1> QED
  BY <1>3, <1>4

(* The intervals a transition intrudes into. *)
Intrudes(m, r, t, k) == IsMid(r, t) /\ k \in DOMAIN m.last /\ k[1] = Var(t) /\ k[2] # Tid(t)

Opens(r, t, k) == IsStart(r, t) /\ KeyOf(t) = k
Ends(r, t, k) == IsEnd(r, t) /\ KeyOf(t) = k

(* What an event makes of the memory, entry by entry. *)
Updated(m, w, r, t, now) ==
  /\ w = [last |-> w.last, saw |-> w.saw]
  /\ DOMAIN w.last = DOMAIN m.last \cup (IF IsStart(r, t) THEN {KeyOf(t)} ELSE {})
  /\ \A k \in DOMAIN w.last : w.last[k] = IF Opens(r, t, k) THEN now ELSE m.last[k]
  /\ \A k : k \in DOMAIN w.saw <=>
       /\ ~Opens(r, t, k)
       /\ (k \in DOMAIN m.saw /\ ~Ends(r, t, k)) \/ Intrudes(m, r, t, k)
  /\ \A k \in DOMAIN w.saw : \A j :
       /\ j \in DOMAIN w.saw[k] <=> \/ k \in DOMAIN m.saw /\ j \in DOMAIN m.saw[k]
                                    \/ Intrudes(m, r, t, k) /\ j = Tid(t)
       /\ j \in DOMAIN w.saw[k] =>
            w.saw[k][j] = IF Intrudes(m, r, t, k) /\ j = Tid(t) THEN now ELSE m.saw[k][j]

LEMMA MatchedUpdates ==
  ASSUME NEW r \in RuleId, NEW tr \in Seq(TransitionIds), NEW m, Remembers(tr, m, r), NEW t
  PROVE  Updated(m, Matched(m, r, t, Len(tr) + 1), r, t, Len(tr) + 1)
<1> DEFINE now == Len(tr) + 1
           K == KeyOf(t)
           m1 == AfterEnd(m, r, t, now)
           m2 == AfterMid(m1, r, t, now)
           m3 == AfterStart(m2, r, t, now)
<1>1. m = [last |-> m.last, saw |-> m.saw]
  BY DEF Remembers
<1>2. \A k : Ends(r, t, k) => ~Intrudes(m, r, t, k)
  BY DEF Ends, Intrudes, KeyOf
<1>3. CASE ~IsEvent(t)
  <2>1. ~IsStart(r, t) /\ ~IsMid(r, t) /\ ~IsEnd(r, t)
    BY <1>3, NoEventNoRole
  <2>2. Matched(m, r, t, now) = m
    BY <1>3 DEF Matched
  <2> QED
    BY <1>1, <2>1, <2>2 DEF Updated, Opens, Ends, Intrudes
<1>4. CASE IsEvent(t)
  <2>1. Matched(m, r, t, now) = m3
    BY <1>4 DEF Matched
  <2>2. /\ m1 = [last |-> m1.last, saw |-> m1.saw] /\ m1.last = m.last
        /\ \A k : k \in DOMAIN m1.saw <=> k \in DOMAIN m.saw /\ ~Ends(r, t, k)
        /\ \A k \in DOMAIN m1.saw : m1.saw[k] = m.saw[k]
    <3>1. CASE IsEnd(r, t) /\ K \in DOMAIN m.saw
      <4>1. K \in DOMAIN m.last
        BY <3>1 DEF Remembers, SawStores
      <4>2. Closed(m, r, t, now) = DOMAIN m.saw[K]
        BY <3>1, EndConsumes
      <4>3. DOMAIN Without(m.saw[K], Closed(m, r, t, now)) = {}
        BY <4>2 DEF Without
      <4>4. m1 = [m EXCEPT !.saw = Without(m.saw, {K})]
        BY <3>1, <4>1, <4>3 DEF AfterEnd
      <4>5. m1 = [last |-> m.last, saw |-> Without(m.saw, {K})]
        BY <1>1, <4>4
      <4> HIDE DEF m1
      <4>6. m1.last = m.last /\ m1.saw = Without(m.saw, {K}) /\ m1 = [last |-> m1.last, saw |-> m1.saw]
        BY <4>5
      <4>7. DOMAIN m1.saw = DOMAIN m.saw \ {K} /\ \A k \in DOMAIN m1.saw : m1.saw[k] = m.saw[k]
        BY <4>6 DEF Without
      <4> QED
        BY <3>1, <4>6, <4>7 DEF Ends
    <3>2. CASE ~(IsEnd(r, t) /\ K \in DOMAIN m.saw)
      <4>1. m1 = m
        BY <3>2 DEF AfterEnd
      <4> HIDE DEF m1
      <4> QED
        BY <1>1, <3>2, <4>1 DEF Ends
    <3> QED
      BY <3>1, <3>2
  <2> HIDE DEF m1
  <2> DEFINE before(k) == IF k \in DOMAIN m1.saw THEN m1.saw[k] ELSE <<>>
  <2>3. /\ m2 = [last |-> m2.last, saw |-> m2.saw] /\ m2.last = m.last
        /\ \A k : k \in DOMAIN m2.saw <=> k \in DOMAIN m1.saw \/ Intrudes(m, r, t, k)
        /\ \A k \in DOMAIN m2.saw :
             m2.saw[k] = IF Intrudes(m, r, t, k) THEN With(before(k), Tid(t), now) ELSE m1.saw[k]
    <3>1. CASE IsMid(r, t)
      <4> DEFINE keys == {k \in DOMAIN m1.last : k[1] = Var(t) /\ k[2] # Tid(t)}
                 stored == [k \in keys \cup DOMAIN m1.saw |->
                              IF k \in keys THEN With(before(k), Tid(t), now) ELSE m1.saw[k]]
      <4>1. m2 = [m1 EXCEPT !.saw = stored]
        BY <3>1 DEF AfterMid
      <4>2. \A k : k \in keys <=> Intrudes(m, r, t, k)
        BY <2>2, <3>1 DEF Intrudes
      <4> HIDE DEF keys, before
      <4>3. DOMAIN stored = keys \cup DOMAIN m1.saw
            /\ \A k \in keys \cup DOMAIN m1.saw :
                 stored[k] = IF k \in keys THEN With(before(k), Tid(t), now) ELSE m1.saw[k]
        OBVIOUS
      <4> HIDE DEF stored, m2
      <4>4. m2 = [last |-> m1.last, saw |-> stored]
        BY <2>2, <4>1
      <4>5. m2.last = m1.last /\ m2.saw = stored /\ m2 = [last |-> m2.last, saw |-> m2.saw]
        BY <4>4
      <4> QED
        BY <2>2, <4>2, <4>3, <4>5
    <3>2. CASE ~IsMid(r, t)
      <4>1. m2 = m1
        BY <3>2 DEF AfterMid
      <4> HIDE DEF m2
      <4> QED
        BY <2>2, <3>2, <4>1 DEF Intrudes
    <3> QED
      BY <3>1, <3>2
  <2> HIDE DEF m2
  <2>4. /\ m3 = [last |-> m3.last, saw |-> m3.saw]
        /\ DOMAIN m3.last = DOMAIN m.last \cup (IF IsStart(r, t) THEN {K} ELSE {})
        /\ \A k \in DOMAIN m3.last : m3.last[k] = IF Opens(r, t, k) THEN now ELSE m.last[k]
        /\ \A k : k \in DOMAIN m3.saw <=> k \in DOMAIN m2.saw /\ ~Opens(r, t, k)
        /\ \A k \in DOMAIN m3.saw : m3.saw[k] = m2.saw[k]
    <3>1. CASE IsStart(r, t)
      <4>1. m3 = [last |-> With(m.last, K, now), saw |-> Without(m2.saw, {K})]
        BY <2>3, <3>1 DEF AfterStart
      <4> HIDE DEF m3
      <4>2. m3.last = With(m.last, K, now) /\ m3.saw = Without(m2.saw, {K})
            /\ m3 = [last |-> m3.last, saw |-> m3.saw]
        BY <4>1
      <4>3. /\ DOMAIN m3.last = DOMAIN m.last \cup {K}
            /\ \A k \in DOMAIN m3.last : m3.last[k] = IF k = K THEN now ELSE m.last[k]
        BY <4>2 DEF With
      <4>4. /\ DOMAIN m3.saw = DOMAIN m2.saw \ {K}
            /\ \A k \in DOMAIN m3.saw : m3.saw[k] = m2.saw[k]
        BY <4>2 DEF Without
      <4> QED
        BY <3>1, <4>2, <4>3, <4>4 DEF Opens
    <3>2. CASE ~IsStart(r, t)
      <4>1. m3 = m2
        BY <3>2 DEF AfterStart
      <4> HIDE DEF m3
      <4> QED
        BY <2>3, <3>2, <4>1 DEF Opens
    <3> QED
      BY <3>1, <3>2
  <2> HIDE DEF m3, K, now
  <2>5. \A k : k \in DOMAIN m3.saw <=>
          /\ ~Opens(r, t, k)
          /\ (k \in DOMAIN m.saw /\ ~Ends(r, t, k)) \/ Intrudes(m, r, t, k)
    BY <2>2, <2>3, <2>4
  <2>6. ASSUME NEW k \in DOMAIN m3.saw, NEW j
        PROVE  /\ j \in DOMAIN m3.saw[k] <=> \/ k \in DOMAIN m.saw /\ j \in DOMAIN m.saw[k]
                                             \/ Intrudes(m, r, t, k) /\ j = Tid(t)
               /\ j \in DOMAIN m3.saw[k] =>
                    m3.saw[k][j] = IF Intrudes(m, r, t, k) /\ j = Tid(t) THEN now ELSE m.saw[k][j]
    <3>1. k \in DOMAIN m2.saw /\ m3.saw[k] = m2.saw[k]
      BY <2>4
    <3>2. CASE Intrudes(m, r, t, k)
      <4>1. ~Ends(r, t, k)
        BY <1>2, <3>2
      <4>2. m3.saw[k] = With(before(k), Tid(t), now)
        BY <2>3, <3>1, <3>2
      <4>3. DOMAIN m3.saw[k] = DOMAIN before(k) \cup {Tid(t)}
            /\ \A i \in DOMAIN m3.saw[k] : m3.saw[k][i] = IF i = Tid(t) THEN now ELSE before(k)[i]
        BY <4>2 DEF With
      <4>4. CASE k \in DOMAIN m.saw
        <5>1. before(k) = m.saw[k]
          BY <2>2, <4>1, <4>4
        <5> HIDE DEF before
        <5> QED
          BY <3>2, <4>3, <4>4, <5>1
      <4>5. CASE k \notin DOMAIN m.saw
        <5>1. DOMAIN before(k) = {}
          BY <2>2, <4>5
        <5> HIDE DEF before
        <5> QED
          BY <3>2, <4>3, <4>5, <5>1
      <4> QED
        BY <4>4, <4>5
    <3>3. CASE ~Intrudes(m, r, t, k)
      <4>1. k \in DOMAIN m1.saw /\ m3.saw[k] = m1.saw[k]
        BY <2>3, <3>1, <3>3
      <4>2. k \in DOMAIN m.saw /\ m3.saw[k] = m.saw[k]
        BY <2>2, <4>1
      <4> QED
        BY <3>3, <4>2
    <3> QED
      BY <3>2, <3>3
  <2>7. Updated(m, m3, r, t, now)
    BY <2>4, <2>5, <2>6 DEF Updated, K
  <2> QED
    BY <2>1, <2>7 DEF now
<1> QED
  BY <1>3, <1>4

(* The walk goes on by a transition. *)
LEMMA MatchRemembers ==
  ASSUME NEW r \in RuleId, NEW tr \in Seq(TransitionIds), NEW m, Remembers(tr, m, r),
         NEW t \in TransitionIds
  PROVE  Remembers(Append(tr, t), Matched(m, r, t, Len(tr) + 1), r)
<1> DEFINE now == Len(tr) + 1
           tr2 == Append(tr, t)
           w == Matched(m, r, t, now)
<1>1. Updated(m, w, r, t, now)
  BY MatchedUpdates
<1>2. /\ Len(tr) \in Nat /\ now = Len(tr) + 1 /\ Len(tr2) = now
      /\ \A i \in 1 .. Len(tr) : tr2[i] = tr[i]
      /\ tr2[now] = t
  OBVIOUS
<1>3. LastIsLast(tr, m, r) /\ SawStores(tr, m, r) /\ SawTheLast(tr, m, r)
  BY DEF Remembers
<1> HIDE DEF now, tr2, w
<1>4. \A i \in 1 .. now : i \in 1 .. Len(tr) \/ i = now
  BY <1>2
<1>5. LastIsLast(tr2, w, r)
  <2>1. ASSUME NEW k \in DOMAIN w.last
        PROVE  /\ w.last[k] \in 1 .. Len(tr2)
               /\ IsStart(r, tr2[w.last[k]]) /\ KeyOf(tr2[w.last[k]]) = k
    <3>1. CASE Opens(r, t, k)
      <4>1. w.last[k] = now
        BY <1>1, <3>1 DEF Updated
      <4> QED
        BY <1>2, <3>1, <4>1 DEF Opens
    <3>2. CASE ~Opens(r, t, k)
      <4>1. k \in DOMAIN m.last /\ w.last[k] = m.last[k]
        BY <1>1, <3>2 DEF Updated, Opens
      <4>2. m.last[k] \in 1 .. Len(tr) /\ IsStart(r, tr[m.last[k]]) /\ KeyOf(tr[m.last[k]]) = k
        BY <1>3, <4>1 DEF LastIsLast
      <4>3. tr2[m.last[k]] = tr[m.last[k]] /\ m.last[k] \in 1 .. Len(tr2)
        BY <1>2, <4>2
      <4> QED
        BY <4>1, <4>2, <4>3
    <3> QED
      BY <3>1, <3>2
  <2>2. ASSUME NEW i \in 1 .. Len(tr2), IsStart(r, tr2[i])
        PROVE  KeyOf(tr2[i]) \in DOMAIN w.last /\ i =< w.last[KeyOf(tr2[i])]
    <3>1. CASE i = now
      BY <1>1, <1>2, <2>2, <3>1 DEF Updated, Opens
    <3>2. CASE i \in 1 .. Len(tr)
      <4> DEFINE k == KeyOf(tr[i])
      <4>1. k = KeyOf(tr2[i]) /\ IsStart(r, tr[i])
        BY <1>2, <2>2, <3>2
      <4>2. k \in DOMAIN m.last /\ i =< m.last[k]
        BY <1>3, <3>2, <4>1 DEF LastIsLast
      <4> HIDE DEF k
      <4>3. k \in DOMAIN w.last /\ w.last[k] = IF Opens(r, t, k) THEN now ELSE m.last[k]
        BY <1>1, <4>2 DEF Updated
      <4>4. i =< now
        BY <1>2, <3>2
      <4> QED
        BY <4>1, <4>2, <4>3, <4>4
    <3> QED
      BY <1>2, <1>4, <3>1, <3>2
  <2> QED
    BY <2>1, <2>2 DEF LastIsLast
<1>6. \A k \in DOMAIN m.last : m.last[k] \in 1 .. Len(tr)
  BY <1>3 DEF LastIsLast
<1>7. ASSUME NEW k \in DOMAIN m.last, NEW j, NEW i
      PROVE  StoreSince(tr2, r, k, m.last[k], j, i) <=>
               \/ StoreSince(tr, r, k, m.last[k], j, i) /\ ~Ends(r, t, k)
               \/ i = now /\ IsMid(r, t) /\ KeyOf(t) = <<k[1], j>>
  <2> DEFINE from == m.last[k]
  <2>1. from \in 1 .. Len(tr)
    BY <1>6
  <2> HIDE DEF from
  <2>2. CASE i = now
    <3>1. ~(i \in from + 1 .. Len(tr)) /\ i \in from + 1 .. Len(tr2)
      BY <1>2, <2>1, <2>2
    <3>2. \A e \in i + 1 .. Len(tr2) : FALSE
      BY <1>2, <2>2
    <3>3. tr2[i] = t
      BY <1>2, <2>2
    <3> QED
      BY <2>2, <3>1, <3>2, <3>3 DEF StoreSince, from
  <2>3. CASE i \in from + 1 .. Len(tr)
    <3>1. i \in 1 .. Len(tr) /\ i # now /\ i \in from + 1 .. Len(tr2)
      BY <1>2, <2>1, <2>3
    <3>2. tr2[i] = tr[i]
      BY <1>2, <3>1
    <3>3. /\ now \in i + 1 .. Len(tr2)
          /\ \A e \in i + 1 .. Len(tr) : e \in i + 1 .. Len(tr2) /\ tr2[e] = tr[e]
          /\ \A e \in i + 1 .. Len(tr2) : e = now \/ e \in i + 1 .. Len(tr)
      BY <1>2, <3>1
    <3>4. (\A e \in i + 1 .. Len(tr2) : ~(IsEnd(r, tr2[e]) /\ KeyOf(tr2[e]) = k)) <=>
            /\ \A e \in i + 1 .. Len(tr) : ~(IsEnd(r, tr[e]) /\ KeyOf(tr[e]) = k)
            /\ ~Ends(r, t, k)
      BY <1>2, <3>3 DEF Ends
    <3> QED
      BY <2>3, <3>1, <3>2, <3>4 DEF StoreSince, from
  <2>4. CASE i # now /\ ~(i \in from + 1 .. Len(tr))
    <3>1. ~(i \in from + 1 .. Len(tr2))
      BY <1>2, <2>1, <2>4
    <3> QED
      BY <2>4, <3>1 DEF StoreSince, from
  <2> QED
    BY <2>2, <2>3, <2>4
<1>8. \A k \in DOMAIN m.last : \A j : j # k[2] =>
        (IsMid(r, t) /\ KeyOf(t) = <<k[1], j>> <=> Intrudes(m, r, t, k) /\ j = Tid(t))
  BY DEF Intrudes, KeyOf
<1>9. \A k \in DOMAIN m.last : k \in DOMAIN w.last /\ (~Opens(r, t, k) => w.last[k] = m.last[k])
  BY <1>1 DEF Updated
<1>10. SawStores(tr2, w, r)
  <2> SUFFICES ASSUME NEW k \in DOMAIN w.saw
               PROVE  /\ k \in DOMAIN w.last /\ DOMAIN w.saw[k] # {}
                      /\ \A j \in DOMAIN w.saw[k] :
                           j # k[2] /\ StoreSince(tr2, r, k, w.last[k], j, w.saw[k][j])
    BY DEF SawStores
  <2>1. ~Opens(r, t, k) /\ ((k \in DOMAIN m.saw /\ ~Ends(r, t, k)) \/ Intrudes(m, r, t, k))
    BY <1>1 DEF Updated
  <2>2. k \in DOMAIN m.last
    BY <1>3, <2>1 DEF SawStores, Intrudes
  <2>3. k \in DOMAIN w.last /\ w.last[k] = m.last[k]
    BY <1>9, <2>1, <2>2
  <2>4. \A j : /\ j \in DOMAIN w.saw[k] <=> \/ k \in DOMAIN m.saw /\ j \in DOMAIN m.saw[k]
                                            \/ Intrudes(m, r, t, k) /\ j = Tid(t)
               /\ j \in DOMAIN w.saw[k] =>
                    w.saw[k][j] = IF Intrudes(m, r, t, k) /\ j = Tid(t) THEN now ELSE m.saw[k][j]
    BY <1>1 DEF Updated
  <2>5. DOMAIN w.saw[k] # {}
    BY <1>3, <2>1, <2>4 DEF SawStores
  <2>6. ASSUME NEW j \in DOMAIN w.saw[k]
        PROVE  j # k[2] /\ StoreSince(tr2, r, k, m.last[k], j, w.saw[k][j])
    <3>1. CASE Intrudes(m, r, t, k) /\ j = Tid(t)
      <4>1. j # k[2] /\ w.saw[k][j] = now
        BY <2>4, <2>6, <3>1 DEF Intrudes
      <4> QED
        BY <1>7, <1>8, <2>2, <3>1, <4>1
    <3>2. CASE ~(Intrudes(m, r, t, k) /\ j = Tid(t))
      <4>1. k \in DOMAIN m.saw /\ j \in DOMAIN m.saw[k] /\ w.saw[k][j] = m.saw[k][j]
        BY <2>4, <2>6, <3>2
      <4>2. j # k[2] /\ StoreSince(tr, r, k, m.last[k], j, m.saw[k][j])
        BY <1>3, <4>1 DEF SawStores
      <4>3. ~Ends(r, t, k)
        BY <2>1, <4>2 DEF Ends, Intrudes, KeyOf
      <4> QED
        BY <1>7, <2>2, <4>1, <4>2, <4>3
    <3> QED
      BY <3>1, <3>2
  <2> QED
    BY <2>3, <2>5, <2>6
<1>11. SawTheLast(tr2, w, r)
  <2> SUFFICES ASSUME NEW k \in DOMAIN w.last, NEW i \in 1 .. Len(tr2), NEW j, j # k[2],
                      StoreSince(tr2, r, k, w.last[k], j, i)
               PROVE  k \in DOMAIN w.saw /\ j \in DOMAIN w.saw[k] /\ i =< w.saw[k][j]
    BY DEF SawTheLast
  <2>1. ~Opens(r, t, k)
    <3> SUFFICES ASSUME Opens(r, t, k) PROVE FALSE
      OBVIOUS
    <3>1. w.last[k] = now
      BY <1>1 DEF Updated
    <3> QED
      BY <1>2, <3>1 DEF StoreSince
  <2>2. k \in DOMAIN m.last /\ w.last[k] = m.last[k]
    BY <1>1, <2>1 DEF Updated, Opens
  <2>3. \/ StoreSince(tr, r, k, m.last[k], j, i) /\ ~Ends(r, t, k)
        \/ i = now /\ Intrudes(m, r, t, k) /\ j = Tid(t)
    <3>1. StoreSince(tr2, r, k, m.last[k], j, i)
      BY <2>2
    <3>2. \/ StoreSince(tr, r, k, m.last[k], j, i) /\ ~Ends(r, t, k)
          \/ i = now /\ IsMid(r, t) /\ KeyOf(t) = <<k[1], j>>
      BY <1>7, <2>2, <3>1
    <3>3. IsMid(r, t) /\ KeyOf(t) = <<k[1], j>> => Intrudes(m, r, t, k) /\ j = Tid(t)
      BY <2>2 DEF Intrudes, KeyOf
    <3> QED
      BY ONLY <3>2, <3>3, Zenon
  <2>4. /\ k \in DOMAIN w.saw <=> (k \in DOMAIN m.saw /\ ~Ends(r, t, k)) \/ Intrudes(m, r, t, k)
        /\ k \in DOMAIN w.saw =>
             /\ j \in DOMAIN w.saw[k] <=> \/ k \in DOMAIN m.saw /\ j \in DOMAIN m.saw[k]
                                          \/ Intrudes(m, r, t, k) /\ j = Tid(t)
             /\ j \in DOMAIN w.saw[k] =>
                  w.saw[k][j] = IF Intrudes(m, r, t, k) /\ j = Tid(t) THEN now ELSE m.saw[k][j]
    BY <1>1, <2>1 DEF Updated
  <2>5. i =< now /\ i \in Nat
    BY <1>2
  <2>6. CASE Intrudes(m, r, t, k) /\ j = Tid(t)
    BY <2>4, <2>5, <2>6
  <2>7. CASE ~(Intrudes(m, r, t, k) /\ j = Tid(t))
    <3>1. StoreSince(tr, r, k, m.last[k], j, i) /\ ~Ends(r, t, k)
      BY <2>3, <2>7
    <3>2. i \in 1 .. Len(tr)
      BY <1>2, <1>6, <2>2, <3>1 DEF StoreSince
    <3>3. k \in DOMAIN m.saw /\ j \in DOMAIN m.saw[k] /\ i =< m.saw[k][j]
      BY <1>3, <2>2, <3>1, <3>2 DEF SawTheLast
    <3> QED
      BY <2>4, <2>7, <3>1, <3>3
  <2> QED
    BY <2>6, <2>7
<1> QED
  BY <1>1, <1>5, <1>10, <1>11 DEF Remembers, Updated, tr2, w, now
-----------------------------------------------------------------------------
(* No transition of ts leads out of S. *)
ClosedUnder(S, ts) == \A e \in graph.edges : e[1] \in S /\ e[2] \in ts => e[3] \in S

(* Reached stops growing: it is the least set with n that ts does not leave. *)
LEMMA ReachedIsClosed ==
  ASSUME IsFiniteSet(graph.edges), NEW n, NEW ts
  PROVE  /\ n \in Reached(n, ts)
         /\ ClosedUnder(Reached(n, ts), ts)
         /\ \A S : n \in S /\ ClosedUnder(S, ts) => Reached(n, ts) \subseteq S
<1> DEFINE E == graph.edges
           Targets == {e[3] : e \in E}
           N == Targets \cup {n}
           Onward(A) == A \cup {e[3] : e \in {d \in E : d[1] \in A /\ d[2] \in ts}}
           F == [A \in SUBSET N |-> Onward(A)]
           within == CHOOSE w : w = [k \in Nat |-> IF k = 0 THEN {n} ELSE Onward(w[k - 1])]
           c == Cardinality(E)
           R == within[c]
<1>1. Reached(n, ts) = R
  BY DEF Reached
<1>2. \A A \in SUBSET N : F[A] = Onward(A) /\ F[A] \in SUBSET N /\ A \subseteq F[A]
  OBVIOUS
<1>3. {n} \in SUBSET N
  OBVIOUS
<1>4. Iterates(within, F, {n})
  <2>1. PICK w : Iterates(w, F, {n})
    BY IterationExists
  <2> HIDE DEF F, N
  <2>2. \A k \in Nat : w[k] \in SUBSET N
    BY <1>2, <1>3, <2>1, IterationType
  <2>3. \A k \in Nat : k # 0 => k - 1 \in Nat
    OBVIOUS
  <2>4. \A k \in Nat : k # 0 => F[w[k - 1]] = Onward(w[k - 1])
    BY <1>2, <2>2, <2>3
  <2> HIDE DEF Onward
  <2>5. w = [k \in Nat |-> IF k = 0 THEN {n} ELSE Onward(w[k - 1])]
    BY <2>1, <2>4 DEF Iterates
  <2>6. within = [k \in Nat |-> IF k = 0 THEN {n} ELSE Onward(within[k - 1])]
    BY <2>5
  <2> HIDE DEF within
  <2>7. within = [k \in Nat |-> within[k]] /\ within[0] = {n}
    BY <2>6
  <2>8. \A k \in Nat : within[k + 1] = Onward(within[k])
    <3>1. \A k \in Nat : k + 1 \in Nat /\ k + 1 # 0 /\ (k + 1) - 1 = k
      OBVIOUS
    <3> QED
      BY <2>6, <3>1
  <2>9. \A k \in Nat : within[k] = w[k] => within[k + 1] = F[w[k]]
    BY <1>2, <2>2, <2>8
  <2>10. within = w
    <3> DEFINE x == {n}
    <3>1. Iterates(w, F, x) /\ within = [k \in Nat |-> within[k]] /\ within[0] = x
      BY <2>1, <2>7
    <3> HIDE DEF x
    <3> QED
      BY ONLY <2>9, <3>1, IterationUnique
  <2> QED
    BY <2>1, <2>10
<1>5. IsFiniteSet(N) /\ c \in Nat /\ Cardinality(N) =< c + Cardinality({n})
  <2>1. c \in Nat
    BY FS_CardinalityType
  <2>2. IsFiniteSet(Targets) /\ Cardinality(Targets) =< c
    <3> DEFINE f == [e \in E |-> e[3]]
    <3>1. f \in Surjection(E, Targets)
      BY DEF Surjection
    <3>2. IsFiniteSet(E)
      OBVIOUS
    <3> HIDE DEF E, Targets, f
    <3>3. IsFiniteSet(Targets) /\ Cardinality(Targets) =< Cardinality(E)
      BY ONLY <3>1, <3>2, FS_Surjection
    <3> QED
      BY <3>3
  <2>3. Cardinality(Targets) \in Nat
    BY <2>2, FS_CardinalityType
  <2> HIDE DEF Targets, c
  <2>4. IsFiniteSet(N) /\ Cardinality(N) = IF n \in Targets THEN Cardinality(Targets)
                                          ELSE Cardinality(Targets) + 1
    BY ONLY <2>2, FS_AddElement, Zenon DEF N
  <2>5. Cardinality({n}) = 1
    BY FS_Singleton
  <2> QED
    BY <2>1, <2>2, <2>3, <2>4, <2>5
<1>6. ASSUME NEW S, n \in S, ClosedUnder(S, ts) PROVE R \subseteq S
  <2> DEFINE V == S \cap N
  <2>1. \A A \in SUBSET V : F[A] \in SUBSET V
    <3> SUFFICES ASSUME NEW A \in SUBSET V PROVE Onward(A) \subseteq V
      BY <1>2
    <3>1. \A e \in E : e[1] \in A /\ e[2] \in ts => e[3] \in V
      BY <1>6 DEF ClosedUnder
    <3> QED
      BY <3>1
  <2>2. {n} \in SUBSET V
    BY <1>6
  <2> HIDE DEF V, F, within, c
  <2> DEFINE W == SUBSET V
             x == {n}
  <2>3. x \in W /\ (\A A \in W : F[A] \in W) /\ Iterates(within, F, x)
    BY <1>4, <2>1, <2>2
  <2> HIDE DEF W, x
  <2>4. \A k \in Nat : within[k] \in W
    BY ONLY <2>3, IterationType
  <2> QED
    BY <1>5, <2>4 DEF W, V
<1> HIDE DEF F, within, Onward, N, c, Targets
<1>7. R \in SUBSET N /\ {n} \subseteq R /\ F[R] = R
  <2> DEFINE x == {n}
  <2>1. x \in SUBSET N /\ Iterates(within, F, x) /\ Cardinality(N) =< c + Cardinality(x)
    BY <1>3, <1>4, <1>5
  <2>2. \A A \in SUBSET N : F[A] \in SUBSET N /\ A \subseteq F[A]
    BY <1>2
  <2>3. c \in Nat /\ IsFiniteSet(N)
    BY <1>5
  <2> HIDE DEF x
  <2>4. within[c] \in SUBSET N /\ x \subseteq within[c] /\ F[within[c]] = within[c]
    BY ONLY <2>1, <2>2, <2>3, GrowthStopsBy
  <2> QED
    BY <2>4 DEF x
<1>8. Onward(R) = R
  BY <1>2, <1>7
<1> HIDE DEF R
<1> QED
  BY <1>1, <1>6, <1>7, <1>8 DEF Onward, ClosedUnder

(* The states along a walk. *)
Walks(p, tr) ==
  \A i \in 1 .. Len(tr) :
    \E e \in graph.edges : e[1] = p[i - 1] /\ e[2] = tr[i] /\ e[3] = p[i]

(* A stretch of a walk stays within what is reached from where it begins.   *)
LEMMA WalkReaches ==
  ASSUME IsFiniteSet(graph.edges), NEW tr \in Seq(TransitionIds), NEW p, Walks(p, tr), NEW ts,
         NEW a \in Nat, NEW b \in Nat, a =< b, b =< Len(tr),
         \A i \in a + 1 .. b : tr[i] \in ts
  PROVE  p[b] \in Reached(p[a], ts)
<1> DEFINE R == Reached(p[a], ts)
           S == {k \in Nat : a + k =< b => p[a + k] \in R}
<1>1. p[a] \in R /\ \A e \in graph.edges : e[1] \in R /\ e[2] \in ts => e[3] \in R
  BY ReachedIsClosed DEF ClosedUnder
<1> HIDE DEF R
<1>2. 0 \in S
  BY <1>1
<1>3. ASSUME NEW k \in S PROVE k + 1 \in S
  <2> SUFFICES ASSUME a + (k + 1) =< b PROVE p[a + (k + 1)] \in R
    OBVIOUS
  <2> DEFINE i == a + (k + 1)
  <2>1. /\ i \in 1 .. Len(tr) /\ i - 1 = a + k /\ a + k =< b /\ i \in a + 1 .. b
    OBVIOUS
  <2> HIDE DEF i
  <2>2. PICK e \in graph.edges : e[1] = p[i - 1] /\ e[2] = tr[i] /\ e[3] = p[i]
    BY <2>1 DEF Walks
  <2>3. e[1] \in R /\ e[2] \in ts
    BY <2>1, <2>2
  <2>4. p[i] \in R
    BY <1>1, <2>2, <2>3
  <2> QED
    BY <2>4 DEF i
<1> HIDE DEF S
<1>4. b - a \in Nat /\ a + (b - a) = b
  OBVIOUS
<1>5. b - a \in S
  BY <1>2, <1>3, <1>4, NatSet
<1> QED
  BY <1>4, <1>5 DEF S, R

(* Three steps of a walk are those of a run. *)
LEMMA WalkRuns ==
  ASSUME IsFiniteSet(graph.edges), NEW tr \in Seq(TransitionIds), NEW p, Walks(p, tr),
         p[0] = graph.initial, NEW us, NEW vs,
         NEW x \in 1 .. Len(tr), NEW y \in 1 .. Len(tr), NEW z \in 1 .. Len(tr), x < y, y < z,
         \A i \in x + 1 .. y - 1 : tr[i] \in us,
         \A i \in y + 1 .. z - 1 : tr[i] \in vs
  PROVE  Runs(tr[x], us, tr[y], vs, tr[z])
<1>1. /\ 0 \in Nat /\ x - 1 \in Nat /\ 0 =< x - 1 /\ x - 1 =< Len(tr)
      /\ x \in Nat /\ y - 1 \in Nat /\ x =< y - 1 /\ y - 1 =< Len(tr)
      /\ y \in Nat /\ z - 1 \in Nat /\ y =< z - 1 /\ z - 1 =< Len(tr)
  OBVIOUS
<1>2. \A i \in 0 + 1 .. x - 1 : tr[i] \in TransitionIds
  OBVIOUS
<1>3. p[x - 1] \in Reached(p[0], TransitionIds)
  BY <1>1, <1>2, WalkReaches
<1>4. p[y - 1] \in Reached(p[x], us)
  BY <1>1, WalkReaches
<1>5. p[z - 1] \in Reached(p[y], vs)
  BY <1>1, WalkReaches
<1>6. \A i \in 1 .. Len(tr) :
        \E e \in graph.edges : e[1] = p[i - 1] /\ e[2] = tr[i] /\ e[3] = p[i]
  BY DEF Walks
<1>7. PICK a \in EdgesOf(tr[x]) : a[1] = p[x - 1] /\ a[3] = p[x]
  BY <1>6 DEF EdgesOf
<1>8. PICK b \in EdgesOf(tr[y]) : b[1] = p[y - 1] /\ b[3] = p[y]
  BY <1>6 DEF EdgesOf
<1>9. PICK c \in EdgesOf(tr[z]) : c[1] = p[z - 1]
  BY <1>6 DEF EdgesOf
<1> QED
  BY <1>3, <1>4, <1>5, <1>7, <1>8, <1>9 DEF Runs
-----------------------------------------------------------------------------
IsWalk(tr, n) ==
  \E p : p[0] = graph.initial /\ p[Len(tr)] = n /\ Walks(p, tr)

(* A frame is a walk from the initial state and what the matcher remembers  *)
(* of it.                                                                   *)
Sound(fr) ==
  /\ fr.trace \in Seq(TransitionIds)
  /\ \A r \in RuleId : Remembers(fr.trace, fr.memory[r], r)
  /\ IsWalk(fr.trace, fr.node)

Frames == {stack[n] : n \in DOMAIN stack}

IInv ==
  /\ graph \in StateGraphs
  /\ stack \in Seq(Frames)
  /\ \A fr \in Frames : Sound(fr)
  /\ WitnessesReal

LEMMA GraphFields ==
  ASSUME IInv
  PROVE  IsFiniteSet(graph.edges) /\ \A e \in graph.edges : e[2] \in TransitionIds
BY GraphAssumption DEF IInv, TransitionIds

LEMMA ExtendedIsSound ==
  ASSUME IInv, NEW fr, Sound(fr), NEW e \in graph.edges, e[1] = fr.node
  PROVE  Sound(Extended(fr, e))
<1> DEFINE tr == fr.trace
           t == e[2]
           tr2 == Append(tr, t)
           w == Extended(fr, e)
<1>1. /\ w.node = e[3] /\ w.trace = tr2
      /\ \A r \in RuleId : w.memory[r] = Matched(fr.memory[r], r, t, Len(tr) + 1)
  BY DEF Extended
<1>2. tr \in Seq(TransitionIds) /\ t \in TransitionIds
  BY GraphFields DEF Sound
<1>3. tr2 \in Seq(TransitionIds)
  BY <1>2
<1>4. \A r \in RuleId : Remembers(tr2, w.memory[r], r)
  BY <1>1, <1>2, MatchRemembers DEF Sound
<1>5. IsWalk(tr2, e[3])
  <2>1. PICK p : p[0] = graph.initial /\ p[Len(tr)] = fr.node /\ Walks(p, tr)
    BY DEF Sound, IsWalk
  <2> DEFINE now == Len(tr) + 1
             q == [i \in 0 .. now |-> IF i = now THEN e[3] ELSE p[i]]
  <2>2. /\ Len(tr) \in Nat /\ Len(tr2) = now /\ tr2[now] = t
        /\ \A i \in 1 .. Len(tr) : tr2[i] = tr[i]
    BY <1>2
  <2> HIDE DEF tr2, tr, t
  <2>3. q[0] = graph.initial /\ q[Len(tr2)] = e[3]
    BY <2>1, <2>2
  <2>4. ASSUME NEW i \in 1 .. Len(tr2)
        PROVE  \E d \in graph.edges : d[1] = q[i - 1] /\ d[2] = tr2[i] /\ d[3] = q[i]
    <3>1. CASE i = now
      <4>1. q[i - 1] = p[Len(tr)] /\ q[i] = e[3]
        BY <2>2, <3>1
      <4> QED
        BY <2>1, <2>2, <3>1, <4>1 DEF t
    <3>2. CASE i \in 1 .. Len(tr)
      <4>1. q[i - 1] = p[i - 1] /\ q[i] = p[i] /\ tr2[i] = tr[i]
        BY <2>2, <3>2
      <4> HIDE DEF q
      <4>2. \E d \in graph.edges : d[1] = p[i - 1] /\ d[2] = tr[i] /\ d[3] = p[i]
        BY <2>1, <3>2 DEF Walks
      <4> QED
        BY <4>1, <4>2
    <3>3. i = now \/ i \in 1 .. Len(tr)
      BY <2>2
    <3> QED
      BY <3>1, <3>2, <3>3
  <2> HIDE DEF q
  <2> QED
    BY <2>3, <2>4 DEF IsWalk, Walks
<1> QED
  BY <1>1, <1>3, <1>4, <1>5 DEF Sound

(* The witnesses of an edge, one by one. *)
LEMMA WitnessesAre ==
  ASSUME NEW fr, NEW e
  PROVE  \A v : v \in Witnesses(fr, e) <=>
           /\ IsEvent(e[2])
           /\ \E r \in RuleId : \E j \in Closed(fr.memory[r], r, e[2], Len(fr.trace) + 1) :
                v = <<r, fr.trace[fr.memory[r].last[KeyOf(e[2])]],
                      fr.trace[fr.memory[r].saw[KeyOf(e[2])][j]], e[2]>>
<1> DEFINE now == Len(fr.trace) + 1
           new(r) == {<<r, fr.trace[fr.memory[r].last[KeyOf(e[2])]],
                        fr.trace[fr.memory[r].saw[KeyOf(e[2])][j]], e[2]>> :
                          j \in Closed(fr.memory[r], r, e[2], now)}
<1>1. Witnesses(fr, e) = IF IsEvent(e[2]) THEN UNION {new(r) : r \in RuleId} ELSE {}
  BY DEF Witnesses
<1>2. \A r, v : v \in new(r) <=>
        \E j \in Closed(fr.memory[r], r, e[2], now) :
          v = <<r, fr.trace[fr.memory[r].last[KeyOf(e[2])]],
                fr.trace[fr.memory[r].saw[KeyOf(e[2])][j]], e[2]>>
  OBVIOUS
<1> HIDE DEF new, now
<1>3. \A v : v \in UNION {new(r) : r \in RuleId} <=> \E r \in RuleId : v \in new(r)
  OBVIOUS
<1>4. \A v : v \in Witnesses(fr, e) <=> IsEvent(e[2]) /\ \E r \in RuleId : v \in new(r)
  BY <1>1, <1>3
<1> QED
  BY <1>2, <1>4 DEF now

(* What a closing event of a sound frame witnesses is a violation. *)
LEMMA WitnessIsReal ==
  ASSUME IInv, NEW fr, Sound(fr), NEW e \in graph.edges, e[1] = fr.node,
         NEW v \in Witnesses(fr, e)
  PROVE  /\ IsTriple(v[1], v[2], v[3], v[4])
         /\ Runs(v[2], NoRestart(v[1], v[2]), v[3], NoRestart(v[1], v[2]), v[4])
<1> DEFINE tr == fr.trace
           t == e[2]
           now == Len(tr) + 1
           tr2 == Append(tr, t)
           k == KeyOf(t)
<1>1. PICK r, j : /\ r \in RuleId /\ j \in Closed(fr.memory[r], r, t, now)
                  /\ v = <<r, tr[fr.memory[r].last[k]], tr[fr.memory[r].saw[k][j]], t>>
  BY WitnessesAre
<1> DEFINE m == fr.memory[r]
           a == m.last[k]
           b == m.saw[k][j]
           ts == NoRestart(r, tr[a])
<1>2. IsEnd(r, t) /\ k \in DOMAIN m.last /\ k \in DOMAIN m.saw /\ j \in DOMAIN m.saw[k]
  BY <1>1 DEF Closed
<1>3. LastIsLast(tr, m, r) /\ SawStores(tr, m, r) /\ tr \in Seq(TransitionIds)
  BY <1>1 DEF Sound, Remembers
<1>4. Sound(Extended(fr, e)) /\ Extended(fr, e).trace = tr2
  BY ExtendedIsSound DEF Extended
<1>5. PICK p : p[0] = graph.initial /\ Walks(p, tr2)
  BY <1>4 DEF Sound, IsWalk
<1>6. tr2 \in Seq(TransitionIds)
  BY <1>4 DEF Sound
<1>7. /\ Len(tr) \in Nat /\ Len(tr2) = now /\ tr2[now] = t
      /\ \A i \in 1 .. Len(tr) : tr2[i] = tr[i] /\ tr[i] \in TransitionIds
  BY <1>3
<1>8. v = <<r, tr[a], tr[b], t>>
  BY <1>1
<1> HIDE DEF tr2, tr, m, k
<1>9. a \in 1 .. Len(tr) /\ IsStart(r, tr[a]) /\ KeyOf(tr[a]) = k
  BY <1>2, <1>3 DEF LastIsLast
<1>10. j # k[2] /\ b \in a + 1 .. Len(tr) /\ IsMid(r, tr[b]) /\ KeyOf(tr[b]) = <<k[1], j>>
  BY <1>2, <1>3 DEF SawStores, StoreSince
<1>11. \A i \in a + 1 .. Len(tr) : tr2[i] \in ts
  <2> SUFFICES ASSUME NEW i \in a + 1 .. Len(tr) PROVE ~(IsStart(r, tr[i]) /\ KeyOf(tr[i]) = k)
    BY <1>7, <1>9 DEF NoRestart
  <2>1. i \in 1 .. Len(tr) /\ ~(i =< a)
    BY <1>7, <1>9
  <2> QED
    BY <1>3, <2>1 DEF LastIsLast
<1> HIDE DEF a, b, ts
<1>12. tr2[a] = tr[a] /\ tr2[b] = tr[b] /\ tr2[now] = t
  BY <1>7, <1>9, <1>10
<1>13. IsTriple(r, tr[a], tr[b], t)
  <2>1. Var(tr[a]) = k[1] /\ Tid(tr[a]) = k[2] /\ Var(tr[b]) = k[1] /\ Tid(tr[b]) = j
    BY <1>9, <1>10 DEF KeyOf
  <2> QED
    BY <1>2, <1>9, <1>10, <2>1 DEF IsTriple, k
<1> HIDE DEF now
<1>14. /\ a \in 1 .. Len(tr2) /\ b \in 1 .. Len(tr2) /\ now \in 1 .. Len(tr2) /\ a < b /\ b < now
       /\ \A i \in a + 1 .. b - 1 : i \in a + 1 .. Len(tr)
       /\ \A i \in b + 1 .. now - 1 : i \in a + 1 .. Len(tr)
  BY <1>7, <1>9, <1>10 DEF now
<1>15. IsFiniteSet(graph.edges)
  BY GraphFields
<1>16. (\A i \in a + 1 .. b - 1 : tr2[i] \in ts) /\ (\A i \in b + 1 .. now - 1 : tr2[i] \in ts)
  BY <1>11, <1>14
<1>17. Runs(tr2[a], ts, tr2[b], ts, tr2[now])
  BY <1>5, <1>6, <1>14, <1>15, <1>16, WalkRuns
<1> QED
  BY <1>8, <1>12, <1>13, <1>17 DEF ts
-----------------------------------------------------------------------------
LEMMA InitIInv ==
  ASSUME Init
  PROVE  IInv
<1>1. graph \in StateGraphs /\ seen = {}
  BY DEF Init
<1>2. CASE MaxStates = 0
  <2>1. stack = <<>>
    BY <1>2 DEF Init
  <2> QED
    BY <1>1, <2>1 DEF IInv, Frames, WitnessesReal
<1>3. CASE MaxStates # 0
  <2> DEFINE fr == [node |-> graph.initial, trace |-> <<>>,
                    memory |-> [r \in RuleId |-> Forgotten]]
  <2>1. stack = <<fr>>
    BY <1>3 DEF Init
  <2>2. /\ fr.node = graph.initial /\ fr.trace = <<>>
        /\ \A r \in RuleId : fr.memory[r] = Forgotten
    OBVIOUS
  <2> HIDE DEF fr
  <2>3. Sound(fr)
    <3>1. IsWalk(<<>>, graph.initial)
      <4> DEFINE p == [i \in {0} |-> graph.initial]
      <4>1. p[0] = graph.initial /\ p[Len(<<>>)] = graph.initial /\ Walks(p, <<>>)
        BY DEF Walks
      <4> QED
        BY <4>1 DEF IsWalk
    <3> QED
      BY <2>2, <3>1, NothingRemembered DEF Sound
  <2>4. Frames = {fr}
    BY <2>1 DEF Frames
  <2>5. stack \in Seq(Frames)
    BY <2>1, <2>4
  <2> QED
    BY <1>1, <2>3, <2>4, <2>5 DEF IInv, WitnessesReal
<1> QED
  BY <1>2, <1>3

(* WitnessesReal and Sound are of the graph, which stays what it is. *)
LEMMA GraphKept ==
  ASSUME graph' = graph
  PROVE  /\ \A fr : Sound(fr)' <=> Sound(fr)
         /\ \A r, a, b, c : IsTriple(r, a, b, c)' <=> IsTriple(r, a, b, c)
         /\ \A a, us, b, vs, c : Runs(a, us, b, vs, c)' <=> Runs(a, us, b, vs, c)
         /\ \A r, a : NoRestart(r, a)' = NoRestart(r, a)
<1>1. /\ TransitionIds' = TransitionIds
      /\ \A a : Var(a)' = Var(a) /\ Tid(a)' = Tid(a) /\ KindOf(a)' = KindOf(a)
  BY DEF TransitionIds, Var, Tid, KindOf
<1>2. \A a : KeyOf(a)' = KeyOf(a)
  BY <1>1 DEF KeyOf
<1>3. \A r, a : /\ IsStart(r, a)' <=> IsStart(r, a)
                /\ IsMid(r, a)' <=> IsMid(r, a)
                /\ IsEnd(r, a)' <=> IsEnd(r, a)
  BY <1>1 DEF IsStart, IsMid, IsEnd
<1>4. \A r, a, b, c : IsTriple(r, a, b, c)' <=> IsTriple(r, a, b, c)
  BY <1>1, <1>2, <1>3 DEF IsTriple
<1>5. \A n, ts : Reached(n, ts)' = Reached(n, ts)
  BY DEF Reached
<1>6. \A a : EdgesOf(a)' = EdgesOf(a)
  BY DEF EdgesOf
<1>7. \A a, us, b, vs, c : Runs(a, us, b, vs, c)' <=> Runs(a, us, b, vs, c)
  BY <1>1, <1>5, <1>6 DEF Runs
<1>9. \A r, a : NoRestart(r, a)' = NoRestart(r, a)
  BY <1>1, <1>2, <1>3 DEF NoRestart
<1>10. \A tr, r, k, from, j, i : StoreSince(tr, r, k, from, j, i)' <=> StoreSince(tr, r, k, from, j, i)
  BY <1>2, <1>3 DEF StoreSince
<1>11. \A tr, m, r : /\ LastIsLast(tr, m, r)' <=> LastIsLast(tr, m, r)
                     /\ SawStores(tr, m, r)' <=> SawStores(tr, m, r)
                     /\ SawTheLast(tr, m, r)' <=> SawTheLast(tr, m, r)
  BY <1>2, <1>3, <1>10 DEF LastIsLast, SawStores, SawTheLast
<1>12. \A tr, m, r : Remembers(tr, m, r)' <=> Remembers(tr, m, r)
  BY <1>11 DEF Remembers
<1>13. \A tr, n : IsWalk(tr, n)' <=> IsWalk(tr, n)
  BY DEF IsWalk, Walks
<1>14. \A fr : Sound(fr)' <=> Sound(fr)
  BY <1>1, <1>12, <1>13 DEF Sound
<1> QED
  BY <1>4, <1>7, <1>9, <1>14

LEMMA DropIInv ==
  ASSUME IInv, Drop
  PROVE  IInv'
<1>1. graph' = graph /\ seen' = seen /\ stack # <<>> /\ stack' = Front(stack)
  BY DEF Drop
<1>2. stack \in Seq(Frames) /\ \A fr \in Frames : Sound(fr)
  BY DEF IInv
<1>3. /\ stack' \in Seq(Frames) /\ Len(stack) \in Nat \ {0}
      /\ \A n \in DOMAIN stack' : n \in DOMAIN stack /\ stack'[n] = stack[n]
  <2> HIDE DEF Frames
  <2> QED
    BY <1>1, <1>2 DEF Front
<1>4. Frames' \subseteq Frames
  BY <1>3 DEF Frames
<1>5. stack' \in Seq(Frames')
  BY <1>3 DEF Frames
<1>6. WitnessesReal'
  BY <1>1, GraphKept DEF IInv, WitnessesReal
<1> QED
  BY <1>1, <1>2, <1>4, <1>5, <1>6, GraphKept DEF IInv

(* A sorted enumeration of the edges that leave n. *)
LEMMA OutgoingEdges ==
  ASSUME IInv, NEW n, NEW out \in Outgoing(n)
  PROVE  /\ out \in Seq(graph.edges)
         /\ \A i \in DOMAIN out : out[i] \in graph.edges /\ out[i][1] = n
         /\ \A e \in graph.edges : e[1] = n => \E i \in DOMAIN out : out[i] = e
<1> DEFINE E == {e \in graph.edges : e[1] = n}
           c == Cardinality(E)
<1>1. IsFiniteSet(E) /\ c \in Nat
  BY GraphFields, FS_Subset, FS_CardinalityType
<1>2. out \in SetToSeqs(E)
  BY DEF Outgoing
<1>3. out \in [1 .. c -> E] /\ \A e \in E : \E i \in 1 .. c : out[i] = e
  <2> HIDE DEF E
  <2> QED
    BY <1>1, <1>2, SomeOrder
<1> HIDE DEF c
<1> QED
  BY <1>1, <1>3

LEMMA ExpandIInv ==
  ASSUME IInv, Expand
  PROVE  IInv'
<1> DEFINE fr == Last(stack)
<1>1. PICK out : /\ out = <<>> \/ out \in Outgoing(fr.node)
                 /\ seen' = seen \cup UNION {Witnesses(fr, out[i]) : i \in DOMAIN out}
                 /\ stack' = Front(stack) \o [i \in DOMAIN out |-> Extended(fr, out[i])]
  BY DEF Expand
<1>2. graph' = graph /\ stack # <<>>
  BY DEF Expand
<1>3. stack \in Seq(Frames) /\ \A f \in Frames : Sound(f)
  BY DEF IInv
<1>4. fr \in Frames
  <2>1. Len(stack) \in DOMAIN stack
    BY <1>2, <1>3
  <2> QED
    BY <2>1 DEF Last, Frames
<1>5. /\ Len(out) \in Nat /\ DOMAIN out = 1 .. Len(out)
      /\ \A i \in DOMAIN out : out[i] \in graph.edges /\ out[i][1] = fr.node
  <2> HIDE DEF fr
  <2>1. CASE out = <<>>
    BY <2>1
  <2>2. CASE out \in Outgoing(fr.node)
    BY <2>2, OutgoingEdges
  <2> QED
    BY <1>1, <2>1, <2>2
<1> HIDE DEF fr
<1>6. \A i \in DOMAIN out : Sound(Extended(fr, out[i]))
  BY <1>3, <1>4, <1>5, ExtendedIsSound
<1> DEFINE New == {Extended(fr, out[i]) : i \in DOMAIN out}
           new == [i \in DOMAIN out |-> Extended(fr, out[i])]
           All == Frames \cup New
<1>7. Front(stack) \in Seq(Frames)
  <2> HIDE DEF Frames
  <2> QED
    BY <1>2, <1>3 DEF Front
<1>8. new \in Seq(New)
  BY <1>5
<1> HIDE DEF New, new, Frames
<1>9. stack' \in Seq(All)
  BY <1>1, <1>7, <1>8 DEF new
<1>10. \A f \in All : Sound(f)
  BY <1>3, <1>6 DEF New
<1> HIDE DEF All
<1>11. Frames' \subseteq All /\ stack' \in Seq(Frames')
  BY <1>9 DEF Frames
<1>12. WitnessesReal'
  <2>1. \A v \in seen' :
          /\ IsTriple(v[1], v[2], v[3], v[4])
          /\ Runs(v[2], NoRestart(v[1], v[2]), v[3], NoRestart(v[1], v[2]), v[4])
    <3> SUFFICES ASSUME NEW v \in seen'
                 PROVE  /\ IsTriple(v[1], v[2], v[3], v[4])
                        /\ Runs(v[2], NoRestart(v[1], v[2]), v[3], NoRestart(v[1], v[2]), v[4])
      OBVIOUS
    <3>1. CASE v \in seen
      BY <3>1 DEF IInv, WitnessesReal
    <3>2. ASSUME NEW i \in DOMAIN out, v \in Witnesses(fr, out[i])
          PROVE  /\ IsTriple(v[1], v[2], v[3], v[4])
                 /\ Runs(v[2], NoRestart(v[1], v[2]), v[3], NoRestart(v[1], v[2]), v[4])
      BY <1>3, <1>4, <1>5, <3>2, WitnessIsReal
    <3> QED
      BY <1>1, <3>1, <3>2
  <2> QED
    BY <1>2, <2>1, GraphKept DEF WitnessesReal
<1> QED
  BY <1>2, <1>10, <1>11, <1>12, GraphKept DEF IInv

LEMMA StutterIInv ==
  ASSUME IInv, graph' = graph, stack' = stack, seen' = seen
  PROVE  IInv'
<1>1. Frames' = Frames
  BY DEF Frames
<1>2. WitnessesReal'
  BY GraphKept DEF IInv, WitnessesReal
<1> QED
  BY <1>1, <1>2, GraphKept DEF IInv

(* Every frame is a walk with the memory that belongs to it. *)
THEOREM Inductive == Spec => []IInv
<1>1. Init => IInv
  BY InitIInv
<1>2. IInv /\ [Next]_vars => IInv'
  <2> SUFFICES ASSUME IInv, [Next]_vars PROVE IInv'
    OBVIOUS
  <2>1. CASE Drop
    BY <2>1, DropIInv
  <2>2. CASE Expand
    BY <2>2, ExpandIInv
  <2>3. CASE Report
    BY <2>3, StutterIInv DEF Report
  <2>4. CASE UNCHANGED vars
    BY <2>4, StutterIInv DEF vars
  <2> QED
    BY <2>1, <2>2, <2>3, <2>4 DEF Next
<1> QED
  BY <1>1, <1>2, PTL DEF Spec

(* What the matcher keeps up to date event by event is what the whole walk  *)
(* says, in every frame of every search.                                    *)
THEOREM MemoryIsTheWalk == Spec => []MemoryMirrorsTrace
<1>1. IInv => MemoryMirrorsTrace
  BY RemembersMirrors DEF IInv, Frames, Sound, MemoryMirrorsTrace
<1> QED
  BY <1>1, Inductive, PTL

(* No false alarm: every witness is a violation that some run commits.      *)
THEOREM WitnessesAreReal == Spec => []WitnessesReal
<1>1. IInv => WitnessesReal
  BY DEF IInv
<1> QED
  BY <1>1, Inductive, PTL
-----------------------------------------------------------------------------
(* Nothing is lost as long as no limit is met. *)

(* A walk has as many steps as a run may take. *)
LEMMA WalksAreShallow ==
  ASSUME IsFiniteSet(graph.edges), Shallow, NEW tr \in Seq(TransitionIds), NEW n, IsWalk(tr, n)
  PROVE  Len(tr) < MaxDepth
<1> DEFINE E == graph.edges
           N == {e[3] : e \in E} \cup {graph.initial}
           Onward(A) == {e[3] : e \in {d \in E : d[1] \in A}}
           F == [A \in SUBSET N |-> Onward(A)]
           after == CHOOSE f : f = [k \in Nat |-> IF k = 0 THEN {graph.initial}
                                                  ELSE Onward(f[k - 1])]
<1>1. after[MaxDepth] = {}
  BY DEF Shallow
<1>2. \A A \in SUBSET N : F[A] = Onward(A) /\ F[A] \in SUBSET N
  OBVIOUS
<1>3. {graph.initial} \in SUBSET N
  OBVIOUS
<1>4. after[0] = {graph.initial} /\ \A k \in Nat : after[k + 1] = Onward(after[k])
  <2>1. PICK w : Iterates(w, F, {graph.initial})
    BY IterationExists
  <2> HIDE DEF F, N
  <2> DEFINE V == SUBSET N
             x == {graph.initial}
  <2>2. x \in V /\ (\A A \in V : F[A] \in V) /\ Iterates(w, F, x)
    BY <1>2, <1>3, <2>1
  <2> HIDE DEF V, x
  <2>3. \A k \in Nat : w[k] \in V
    BY ONLY <2>2, IterationType
  <2>4. \A k \in Nat : k # 0 => k - 1 \in Nat
    OBVIOUS
  <2>5. \A k \in Nat : k # 0 => F[w[k - 1]] = Onward(w[k - 1])
    BY <1>2, <2>3, <2>4 DEF V
  <2> HIDE DEF Onward
  <2>6. w = [k \in Nat |-> IF k = 0 THEN {graph.initial} ELSE Onward(w[k - 1])]
    BY <2>1, <2>5 DEF Iterates
  <2>7. after = [k \in Nat |-> IF k = 0 THEN {graph.initial} ELSE Onward(after[k - 1])]
    BY <2>6
  <2> HIDE DEF after
  <2>8. \A k \in Nat : k + 1 \in Nat /\ k + 1 # 0 /\ (k + 1) - 1 = k
    OBVIOUS
  <2> QED
    BY <2>7, <2>8
<1>5. PICK p : p[0] = graph.initial /\ Walks(p, tr)
  BY DEF IsWalk
<1> DEFINE S == {k \in Nat : k =< Len(tr) => p[k] \in after[k]}
<1> HIDE DEF after, F, N
<1>6. 0 \in S
  BY <1>4, <1>5
<1>7. ASSUME NEW k \in S PROVE k + 1 \in S
  <2> SUFFICES ASSUME k + 1 =< Len(tr) PROVE p[k + 1] \in after[k + 1]
    OBVIOUS
  <2>1. k + 1 \in 1 .. Len(tr) /\ (k + 1) - 1 = k /\ k =< Len(tr)
    OBVIOUS
  <2>2. PICK e \in E : e[1] = p[(k + 1) - 1] /\ e[3] = p[k + 1]
    BY <1>5, <2>1 DEF Walks
  <2>3. e[1] \in after[k]
    BY <2>1, <2>2
  <2> QED
    BY <1>4, <2>2, <2>3
<1> HIDE DEF S
<1>8. MaxDepth \in S
  BY <1>6, <1>7, NatSet, LimitsAssumption
<1> QED
  BY <1>1, <1>8, LimitsAssumption DEF S

(* A fingerprint was expanded or waits to be. *)
Covered(f) == f \in visited \/ \E fr \in Frames : Fingerprint(fr) = f

Followed(fr) ==
  \A e \in graph.edges : e[1] = fr.node =>
    Covered(Fingerprint(Extended(fr, e))) /\ Witnesses(fr, e) \subseteq seen

FirstFrame == [node |-> graph.initial, trace |-> <<>>, memory |-> [r \in RuleId |-> Forgotten]]

NothingLost ==
  /\ Covered(Fingerprint(FirstFrame))
  /\ \A f \in visited : \E fr : Sound(fr) /\ Fingerprint(fr) = f /\ Followed(fr)

WithinLimits == Shallow /\ Cardinality(visited) < MaxStates

CInv ==
  /\ IInv
  /\ IsFiniteSet(visited)
  /\ WithinLimits => NothingLost
  /\ report = {} \/ (stack = <<>> /\ report = {PatternOf(w) : w \in seen})

(* Extended, Witnesses and Shallow are of the graph. *)
LEMMA StepsKept ==
  ASSUME graph' = graph
  PROVE  /\ \A fr, e : Extended(fr, e)' = Extended(fr, e)
         /\ \A fr, e : Witnesses(fr, e)' = Witnesses(fr, e)
         /\ Shallow' <=> Shallow
         /\ FirstFrame' = FirstFrame
<1>1. \A a : Var(a)' = Var(a) /\ Tid(a)' = Tid(a) /\ KindOf(a)' = KindOf(a)
  BY DEF Var, Tid, KindOf
<1>2. \A a : KeyOf(a)' = KeyOf(a) /\ (IsEvent(a)' <=> IsEvent(a))
  BY <1>1 DEF KeyOf, IsEvent
<1>3. \A r, a : /\ IsStart(r, a)' <=> IsStart(r, a)
                /\ IsMid(r, a)' <=> IsMid(r, a)
                /\ IsEnd(r, a)' <=> IsEnd(r, a)
  BY <1>1 DEF IsStart, IsMid, IsEnd
<1>4. \A m, r, t, now : Closed(m, r, t, now)' = Closed(m, r, t, now)
  BY <1>2, <1>3 DEF Closed
<1>5. \A m, r, t, now : AfterEnd(m, r, t, now)' = AfterEnd(m, r, t, now)
  <2> SUFFICES ASSUME NEW m, NEW r, NEW t, NEW now
               PROVE  AfterEnd(m, r, t, now)' = AfterEnd(m, r, t, now)
    OBVIOUS
  <2>1. /\ KeyOf(t)' = KeyOf(t) /\ (IsEnd(r, t)' <=> IsEnd(r, t))
        /\ Closed(m, r, t, now)' = Closed(m, r, t, now)
    BY <1>2, <1>3, <1>4
  <2> QED
    BY <2>1 DEF AfterEnd
<1>6. \A m, r, t, now : AfterMid(m, r, t, now)' = AfterMid(m, r, t, now)
  BY <1>1, <1>2, <1>3 DEF AfterMid
<1>7. \A m, r, t, now : AfterStart(m, r, t, now)' = AfterStart(m, r, t, now)
  BY <1>2, <1>3 DEF AfterStart
<1>8. \A m, r, t, now : Matched(m, r, t, now)' = Matched(m, r, t, now)
  BY <1>2, <1>5, <1>6, <1>7 DEF Matched
<1>9. \A fr, e : Extended(fr, e)' = Extended(fr, e)
  BY <1>8 DEF Extended
<1>10. \A fr, e : Witnesses(fr, e)' = Witnesses(fr, e)
  <2> SUFFICES ASSUME NEW fr, NEW e PROVE Witnesses(fr, e)' = Witnesses(fr, e)
    OBVIOUS
  <2> DEFINE now == Len(fr.trace) + 1
  <2>1. KeyOf(e[2])' = KeyOf(e[2]) /\ (IsEvent(e[2])' <=> IsEvent(e[2]))
    BY <1>2
  <2>2. \A r : Closed(fr.memory[r], r, e[2], now)' = Closed(fr.memory[r], r, e[2], now)
    BY <1>4
  <2> DEFINE new(r) == {<<r, fr.trace[fr.memory[r].last[KeyOf(e[2])]],
                          fr.trace[fr.memory[r].saw[KeyOf(e[2])][j]], e[2]>> :
                            j \in Closed(fr.memory[r], r, e[2], now)}
             new2(r) == {<<r, fr.trace[fr.memory[r].last[KeyOf(e[2])']],
                           fr.trace[fr.memory[r].saw[KeyOf(e[2])'][j]], e[2]>> :
                             j \in Closed(fr.memory[r], r, e[2], now)'}
  <2>3. \A r : new2(r) = new(r)
    BY <2>1, <2>2
  <2>4. /\ Witnesses(fr, e) = IF IsEvent(e[2]) THEN UNION {new(r) : r \in RuleId} ELSE {}
        /\ Witnesses(fr, e)' = IF IsEvent(e[2])' THEN UNION {new2(r) : r \in RuleId} ELSE {}
    BY DEF Witnesses
  <2> HIDE DEF new, new2
  <2> QED
    BY <2>1, <2>3, <2>4
<1>11. Shallow' <=> Shallow
  BY DEF Shallow
<1>12. FirstFrame' = FirstFrame
  BY DEF FirstFrame
<1> QED
  BY <1>9, <1>10, <1>11, <1>12

LEMMA InitCInv ==
  ASSUME Init
  PROVE  CInv
<1>1. IInv /\ visited = {} /\ report = {}
  BY InitIInv DEF Init
<1>2. IsFiniteSet(visited) /\ Cardinality(visited) = 0
  BY <1>1, FS_EmptySet
<1>3. ASSUME WithinLimits PROVE NothingLost
  <2>1. MaxStates # 0
    BY <1>2, <1>3, LimitsAssumption DEF WithinLimits
  <2>2. stack = <<FirstFrame>>
    BY <2>1 DEF Init, FirstFrame
  <2>3. FirstFrame \in Frames
    BY <2>2 DEF Frames
  <2> QED
    BY <1>1, <2>3 DEF NothingLost, Covered
<1> QED
  BY <1>1, <1>2, <1>3 DEF CInv

(* What is covered and seen stays so; then what was followed is followed.   *)
LEMMA NothingLostKept ==
  ASSUME graph' = graph, visited \subseteq visited', seen \subseteq seen', NothingLost,
         \A f : Covered(f) => Covered(f)',
         \A f \in visited' : f \notin visited =>
           \E fr : Sound(fr) /\ Fingerprint(fr) = f /\ Followed(fr)'
  PROVE  NothingLost'
<1>1. Covered(Fingerprint(FirstFrame))'
  <2>1. PICK f : f = Fingerprint(FirstFrame)
    OBVIOUS
  <2>2. Covered(f)'
    BY <2>1 DEF NothingLost
  <2>3. Fingerprint(FirstFrame)' = f
    BY <2>1, StepsKept DEF Fingerprint
  <2> QED
    BY <2>2, <2>3 DEF Covered
<1>2. \A fr : Followed(fr) => Followed(fr)'
  <2> SUFFICES ASSUME NEW fr, Followed(fr), NEW e \in graph.edges, e[1] = fr.node
               PROVE  Covered(Fingerprint(Extended(fr, e)))' /\ Witnesses(fr, e)' \subseteq seen'
    BY DEF Followed
  <2>1. Extended(fr, e)' = Extended(fr, e) /\ Witnesses(fr, e)' = Witnesses(fr, e)
    BY StepsKept
  <2>2. Covered(Fingerprint(Extended(fr, e))) /\ Witnesses(fr, e) \subseteq seen
    BY DEF Followed
  <2>3. PICK f : f = Fingerprint(Extended(fr, e))
    OBVIOUS
  <2>4. Covered(f)'
    BY <2>2, <2>3
  <2>5. Fingerprint(Extended(fr, e))' = f
    BY <2>1, <2>3 DEF Fingerprint
  <2>6. Covered(Fingerprint(Extended(fr, e)))'
    BY <2>4, <2>5 DEF Covered
  <2> QED
    BY <2>1, <2>2, <2>6
<1>3. ASSUME NEW f \in visited' PROVE \E fr : Sound(fr)' /\ Fingerprint(fr) = f /\ Followed(fr)'
  BY <1>2, GraphKept DEF NothingLost
<1> QED
  BY <1>1, <1>3 DEF NothingLost

LEMMA DropCInv ==
  ASSUME CInv, Drop
  PROVE  CInv'
<1> DEFINE fr == Last(stack)
           n == Len(stack)
<1>1. /\ graph' = graph /\ visited' = visited /\ seen' = seen /\ report' = report
      /\ stack # <<>> /\ stack' = Front(stack)
  BY DEF Drop
<1>2. Truncated(fr) \/ Fingerprint(fr) \in visited
  BY DEF Drop
<1>3. IInv /\ stack \in Seq(Frames) /\ report = {}
  BY <1>1 DEF CInv, IInv
<1>4. /\ n \in Nat \ {0} /\ DOMAIN stack = 1 .. n /\ fr = stack[n] /\ fr \in Frames
      /\ \A i \in 1 .. n - 1 : i \in DOMAIN stack' /\ stack'[i] = stack[i]
  <2>1. n \in Nat \ {0} /\ DOMAIN stack = 1 .. n
    <3> HIDE DEF Frames
    <3> QED
      BY <1>1, <1>3
  <2>2. stack' = [i \in 1 .. n - 1 |-> stack[i]]
    <3> HIDE DEF Frames
    <3> QED
      BY <1>1, <1>3, <2>1 DEF Front
  <2> QED
    BY <2>1, <2>2 DEF Last, Frames
<1> HIDE DEF fr, n
<1>5. ASSUME WithinLimits' PROVE NothingLost'
  <2>1. WithinLimits /\ NothingLost
    BY <1>1, <1>5, StepsKept DEF WithinLimits, CInv
  <2>2. Fingerprint(fr) \in visited
    <3>1. Sound(fr) /\ IsFiniteSet(graph.edges)
      BY <1>3, <1>4, GraphFields DEF IInv
    <3>2. Len(fr.trace) < MaxDepth /\ Len(fr.trace) \in Nat
      BY <2>1, <3>1, WalksAreShallow DEF WithinLimits, Sound
    <3>3. Cardinality(visited) \in Nat /\ Cardinality(visited) < MaxStates
      BY <2>1, FS_CardinalityType DEF WithinLimits, CInv
    <3>4. ~Truncated(fr)
      BY <3>2, <3>3, LimitsAssumption DEF Truncated
    <3> QED
      BY <1>2, <3>4
  <2>3. ASSUME NEW f, Covered(f) PROVE Covered(f)'
    <3>1. CASE f \in visited
      BY <1>1, <3>1 DEF Covered
    <3>2. ASSUME NEW i \in 1 .. n, Fingerprint(stack[i]) = f PROVE Covered(f)'
      <4>1. CASE i = n
        BY <1>1, <1>4, <2>2, <3>2, <4>1 DEF Covered
      <4>2. CASE i # n
        <5>1. i \in 1 .. n - 1
          BY <1>4, <4>2
        <5>2. stack[i] \in Frames'
          BY <1>4, <5>1 DEF Frames
        <5>3. Fingerprint(stack[i])' = [node |-> stack'[i].node, memory |-> stack'[i].memory]
          BY DEF Fingerprint
        <5>4. \E g \in Frames' : [node |-> g.node, memory |-> g.memory] = f
          BY <3>2, <5>2 DEF Fingerprint
        <5> QED
          BY <5>4 DEF Covered, Fingerprint
      <4> QED
        BY <4>1, <4>2
    <3> QED
      BY <1>4, <2>3, <3>1, <3>2 DEF Covered, Frames
  <2> QED
    BY <1>1, <2>1, <2>3, NothingLostKept
<1>6. IInv'
  BY <1>3, DropIInv
<1> QED
  BY <1>1, <1>3, <1>5, <1>6 DEF CInv

LEMMA ExpandCInv ==
  ASSUME CInv, Expand
  PROVE  CInv'
<1> DEFINE fr == Last(stack)
           n == Len(stack)
           F == Fingerprint(fr)
           counted == visited \cup {F}
<1>1. graph' = graph /\ report' = report /\ stack # <<>> /\ visited' = counted
  BY DEF Expand
<1>2. PICK out : /\ Cardinality(counted) < MaxStates => out \in Outgoing(fr.node)
                 /\ out = <<>> \/ out \in Outgoing(fr.node)
                 /\ seen' = seen \cup UNION {Witnesses(fr, out[i]) : i \in DOMAIN out}
                 /\ stack' = Front(stack) \o [i \in DOMAIN out |-> Extended(fr, out[i])]
  <2>1. IsFiniteSet(counted)
    BY FS_AddElement DEF CInv
  <2>2. Cardinality(counted) \in Nat
    BY <2>1, FS_CardinalityType
  <2> DEFINE c == Cardinality(counted)
  <2> HIDE DEF c
  <2>3. ~(c >= MaxStates /\ c < MaxStates)
    BY <2>2, LimitsAssumption DEF c
  <2>4. PICK o \in IF c >= MaxStates THEN {<<>>} ELSE Outgoing(fr.node) :
          /\ seen' = seen \cup UNION {Witnesses(fr, o[i]) : i \in DOMAIN o}
          /\ stack' = Front(stack) \o [i \in DOMAIN o |-> Extended(fr, o[i])]
    BY DEF Expand, c
  <2>5. (c < MaxStates => o \in Outgoing(fr.node)) /\ (o = <<>> \/ o \in Outgoing(fr.node))
    <3> HIDE DEF fr
    <3> QED
      BY <2>3, <2>4
  <2> QED
    BY <2>4, <2>5 DEF c
<1>3. IInv /\ stack \in Seq(Frames) /\ report = {} /\ IInv'
  BY <1>1, ExpandIInv DEF CInv, IInv
<1>4. n \in Nat \ {0} /\ DOMAIN stack = 1 .. n /\ fr = stack[n] /\ fr \in Frames /\ Sound(fr)
  <2>1. n \in Nat \ {0} /\ DOMAIN stack = 1 .. n
    <3> HIDE DEF Frames
    <3> QED
      BY <1>1, <1>3
  <2> QED
    BY <1>3, <2>1 DEF Last, Frames, IInv
<1> HIDE DEF fr, n
<1>5. /\ Len(out) \in Nat /\ DOMAIN out = 1 .. Len(out)
      /\ \A i \in 1 .. n - 1 : i \in DOMAIN stack' /\ stack'[i] = stack[i]
      /\ \A i \in DOMAIN out : (n - 1) + i \in DOMAIN stack'
                               /\ stack'[(n - 1) + i] = Extended(fr, out[i])
  <2>1. Len(out) \in Nat /\ DOMAIN out = 1 .. Len(out)
    <3>1. CASE out = <<>>
      BY <3>1
    <3>2. CASE out \in Outgoing(fr.node)
      BY <1>3, <3>2, OutgoingEdges
    <3> QED
      BY <1>2, <3>1, <3>2
  <2> DEFINE old == Front(stack)
             new == [i \in DOMAIN out |-> Extended(fr, out[i])]
  <2>2. old = [i \in 1 .. n - 1 |-> stack[i]]
    <3> HIDE DEF Frames
    <3> QED
      BY <1>3, <1>4 DEF Front, n
  <2>3. Len(old) = n - 1 /\ \A i \in 1 .. n - 1 : old[i] = stack[i]
    BY <1>4, <2>2
  <2>4. Len(new) = Len(out) /\ \A i \in DOMAIN out : new[i] = Extended(fr, out[i])
    BY <2>1
  <2> DEFINE All == Frames \cup {new[i] : i \in DOMAIN out}
  <2>5. old \in Seq(All) /\ new \in Seq(All)
    <3>1. \A i \in 1 .. n - 1 : stack[i] \in All
      BY <1>4 DEF Frames
    <3>2. \A i \in DOMAIN out : new[i] \in All
      OBVIOUS
    <3>3. old \in [1 .. n - 1 -> All] /\ new \in [1 .. Len(out) -> All]
      BY <2>1, <2>2, <3>1, <3>2
    <3> QED
      BY <1>4, <2>1, <3>3
  <2> HIDE DEF old, new, All
  <2>6. stack' = old \o new
    BY <1>2 DEF old, new
  <2>7. /\ DOMAIN stack' = 1 .. Len(old) + Len(new)
        /\ \A i \in 1 .. Len(old) : stack'[i] = old[i]
        /\ \A i \in 1 .. Len(new) : stack'[Len(old) + i] = new[i]
    BY <2>5, <2>6
  <2>8. ASSUME NEW i \in 1 .. n - 1 PROVE i \in DOMAIN stack' /\ stack'[i] = stack[i]
    BY <1>4, <2>1, <2>3, <2>4, <2>7
  <2>9. ASSUME NEW i \in DOMAIN out
        PROVE  (n - 1) + i \in DOMAIN stack' /\ stack'[(n - 1) + i] = Extended(fr, out[i])
    <3>1. i \in 1 .. Len(out) /\ new[i] = Extended(fr, out[i])
      BY <2>1, <2>4
    <3>2. (n - 1) + i \in 1 .. (n - 1) + Len(out)
      BY <1>4, <2>1, <3>1
    <3> QED
      BY <2>3, <2>4, <2>7, <3>1, <3>2
  <2> QED
    BY <2>1, <2>8, <2>9
<1>6. visited \subseteq visited' /\ seen \subseteq seen' /\ F \in visited'
  BY <1>1, <1>2
<1>7. IsFiniteSet(visited') /\ (Cardinality(visited') < MaxStates => Cardinality(visited) < MaxStates)
  <2>1. IsFiniteSet(visited) /\ IsFiniteSet(visited')
    BY <1>1, FS_AddElement DEF CInv
  <2>2. Cardinality(visited) \in Nat /\ Cardinality(visited') \in Nat
    BY <2>1, FS_CardinalityType
  <2>3. Cardinality(visited) =< Cardinality(visited')
    BY <1>6, <2>1, FS_Subset
  <2> QED
    BY <2>1, <2>2, <2>3, LimitsAssumption
<1>8. ASSUME WithinLimits' PROVE NothingLost'
  <2>1. WithinLimits /\ NothingLost /\ Cardinality(counted) < MaxStates
    BY <1>1, <1>7, <1>8, StepsKept DEF WithinLimits, CInv
  <2>2. out \in Outgoing(fr.node)
    BY <1>2, <2>1
  <2> HIDE DEF F
  <2>3. ASSUME NEW g \in Frames', NEW f, [node |-> g.node, memory |-> g.memory] = f
        PROVE  Covered(f)'
    BY <2>3 DEF Covered, Fingerprint
  <2>4. ASSUME NEW f, Covered(f) PROVE Covered(f)'
    <3>1. CASE f \in visited
      BY <1>6, <3>1 DEF Covered
    <3>2. ASSUME NEW i \in 1 .. n, Fingerprint(stack[i]) = f PROVE Covered(f)'
      <4>1. CASE i = n
        BY <1>4, <1>6, <3>2, <4>1 DEF Covered, F
      <4>2. CASE i # n
        <5>1. stack[i] \in Frames'
          BY <1>4, <1>5, <4>2 DEF Frames
        <5>2. [node |-> stack[i].node, memory |-> stack[i].memory] = f
          BY <3>2 DEF Fingerprint
        <5> QED
          BY <2>3, <5>1, <5>2
      <4> QED
        BY <4>1, <4>2
    <3> QED
      BY <1>4, <2>4, <3>1, <3>2 DEF Covered, Frames
  <2>5. PICK h : h = fr
    OBVIOUS
  <2>6. Followed(h)'
    <3>1. ASSUME NEW e \in graph.edges, e[1] = h.node
          PROVE  Covered(Fingerprint(Extended(h, e)))' /\ Witnesses(h, e)' \subseteq seen'
      <4>1. PICK i \in DOMAIN out : out[i] = e
        BY <1>3, <2>2, <2>5, <3>1, OutgoingEdges
      <4>2. PICK g : g = Extended(h, e)
        OBVIOUS
      <4>3. g \in Frames'
        BY <1>5, <2>5, <4>1, <4>2 DEF Frames
      <4>4. Extended(h, e)' = g /\ Witnesses(h, e)' = Witnesses(h, e)
        BY <1>1, <4>2, StepsKept
      <4>5. Covered([node |-> g.node, memory |-> g.memory])'
        BY <2>3, <4>3
      <4>6. Fingerprint(Extended(h, e))' = [node |-> g.node, memory |-> g.memory]
        BY <4>4 DEF Fingerprint
      <4>7. Witnesses(h, e) \subseteq seen'
        BY <1>2, <2>5, <4>1
      <4> QED
        BY <4>4, <4>5, <4>6, <4>7 DEF Covered
    <3> QED
      BY <1>1, <3>1 DEF Followed
  <2>7. ASSUME NEW f \in visited', f \notin visited
        PROVE  \E g : Sound(g) /\ Fingerprint(g) = f /\ Followed(g)'
    BY <1>1, <1>4, <2>5, <2>6, <2>7 DEF F
  <2> QED
    BY <1>1, <1>6, <2>1, <2>4, <2>7, NothingLostKept
<1> QED
  BY <1>1, <1>3, <1>7, <1>8 DEF CInv

LEMMA StutterCInv ==
  ASSUME CInv, graph' = graph, stack' = stack, visited' = visited, seen' = seen,
         report' = report \/ (stack = <<>> /\ report' = {PatternOf(w) : w \in seen})
  PROVE  CInv'
<1>1. Frames' = Frames
  BY DEF Frames
<1>2. \A f : Covered(f) => Covered(f)'
  BY <1>1 DEF Covered, Fingerprint
<1>3. WithinLimits' <=> WithinLimits
  BY StepsKept DEF WithinLimits
<1>4. ASSUME NothingLost PROVE NothingLost'
  BY <1>2, <1>4, NothingLostKept
<1>5. IInv'
  BY StutterIInv DEF CInv
<1>6. {PatternOf(w) : w \in seen}' = {PatternOf(w) : w \in seen}
  BY DEF PatternOf
<1> QED
  BY <1>3, <1>4, <1>5, <1>6 DEF CInv

(* Nothing is lost, whatever the limits, unless one of them is met. *)
LEMMA NothingIsLost == Spec => []CInv
<1>1. Init => CInv
  BY InitCInv
<1>2. CInv /\ [Next]_vars => CInv'
  <2> SUFFICES ASSUME CInv, [Next]_vars PROVE CInv'
    OBVIOUS
  <2>1. CASE Drop
    BY <2>1, DropCInv
  <2>2. CASE Expand
    BY <2>2, ExpandCInv
  <2>3. CASE Report
    BY <2>3, StutterCInv DEF Report
  <2>4. CASE UNCHANGED vars
    BY <2>4, StutterCInv DEF vars
  <2> QED
    BY <2>1, <2>2, <2>3, <2>4 DEF Next
<1> QED
  BY <1>1, <1>2, PTL DEF Spec
-----------------------------------------------------------------------------
(* An end of k witnesses every intruder that the matcher saw in k. *)
LEMMA EndIsWitnessed ==
  ASSUME NEW fr, Sound(fr), NEW r \in RuleId, NEW e, IsEnd(r, e[2]),
         KeyOf(e[2]) \in DOMAIN fr.memory[r].saw,
         NEW j \in DOMAIN fr.memory[r].saw[KeyOf(e[2])]
  PROVE  \E v \in Witnesses(fr, e) : v[1] = r /\ KeyOf(v[2]) = KeyOf(e[2]) /\ Tid(v[3]) = j
<1> DEFINE m == fr.memory[r]
           tr == fr.trace
           t == e[2]
           k == KeyOf(t)
           now == Len(tr) + 1
           v == <<r, tr[m.last[k]], tr[m.saw[k][j]], t>>
<1>1. tr \in Seq(TransitionIds) /\ Remembers(tr, m, r)
  BY DEF Sound
<1>2. IsEvent(t)
  BY NoEventNoRole
<1>3. j \in Closed(m, r, t, now)
  BY <1>1, EndConsumes
<1>4. v \in Witnesses(fr, e)
  BY <1>2, <1>3, WitnessesAre
<1>5. k \in DOMAIN m.last /\ KeyOf(tr[m.last[k]]) = k
  BY <1>1 DEF Remembers, SawStores, LastIsLast
<1>6. KeyOf(tr[m.saw[k][j]]) = <<k[1], j>>
  BY <1>1, <1>5 DEF Remembers, SawStores, StoreSince
<1>7. Tid(tr[m.saw[k][j]]) = j
  BY <1>6 DEF KeyOf
<1> QED
  BY <1>4, <1>5, <1>7

(* Once the search is over, every edge of an expanded state was taken.      *)
LEMMA Successor ==
  ASSUME CInv, stack = <<>>, WithinLimits, NEW f \in visited, NEW e \in graph.edges, e[1] = f.node
  PROVE  \E fr, g :
           /\ Sound(fr) /\ Fingerprint(fr) = f /\ Witnesses(fr, e) \subseteq seen
           /\ g \in visited /\ g.node = e[3]
           /\ \A r \in RuleId : Updated(f.memory[r], g.memory[r], r, e[2], Len(fr.trace) + 1)
<1>1. PICK fr : Sound(fr) /\ Fingerprint(fr) = f /\ Followed(fr)
  BY DEF CInv, NothingLost
<1>2. fr.node = f.node /\ fr.memory = f.memory
  BY <1>1 DEF Fingerprint
<1> DEFINE x == Extended(fr, e)
           g == Fingerprint(x)
           now == Len(fr.trace) + 1
<1>3. Covered(g) /\ Witnesses(fr, e) \subseteq seen
  BY <1>1, <1>2 DEF Followed
<1>4. g \in visited
  BY <1>3 DEF Covered, Frames
<1>5. /\ x.node = e[3]
      /\ \A r \in RuleId : x.memory[r] = Matched(fr.memory[r], r, e[2], now)
  BY DEF Extended
<1>6. g.node = e[3] /\ g.memory = x.memory
  BY <1>5 DEF Fingerprint
<1>7. fr.trace \in Seq(TransitionIds) /\ \A r \in RuleId : Remembers(fr.trace, fr.memory[r], r)
  BY <1>1 DEF Sound
<1> HIDE DEF x, g
<1>8. \A r \in RuleId : Updated(f.memory[r], g.memory[r], r, e[2], now)
  BY <1>2, <1>5, <1>6, <1>7, MatchedUpdates
<1> QED
  BY <1>1, <1>3, <1>4, <1>6, <1>8

LEMMA RunIsFound ==
  ASSUME CInv, stack = <<>>, WithinLimits,
         NEW r \in RuleId, NEW s, NEW m, NEW e,
         IsTriple(r, s, m, e), Runs(s, TransitionIds, m, NoRestart(r, s), e)
  PROVE  \E w \in seen : w[1] = r /\ KeyOf(w[2]) = KeyOf(s) /\ Tid(w[3]) = Tid(m)
<1> SUFFICES ASSUME \A w \in seen : ~(w[1] = r /\ KeyOf(w[2]) = KeyOf(s) /\ Tid(w[3]) = Tid(m))
             PROVE  FALSE
  OBVIOUS
<1> DEFINE k == KeyOf(s)
           j == Tid(m)
           started(f) == k \in DOMAIN f.memory[r].last
           broken(f) == k \in DOMAIN f.memory[r].saw /\ j \in DOMAIN f.memory[r].saw[k]
           A == {f.node : f \in visited}
           B == {f.node : f \in {g \in visited : started(g)}}
           C == {f.node : f \in {g \in visited : broken(g)}}
<1>1. /\ IsFiniteSet(graph.edges) /\ \A x \in graph.edges : x[2] \in TransitionIds
  BY GraphFields DEF CInv
<1>2. PICK a \in EdgesOf(s), b \in EdgesOf(m), c \in EdgesOf(e) :
        /\ a[1] \in Reached(graph.initial, TransitionIds)
        /\ b[1] \in Reached(a[3], TransitionIds)
        /\ c[1] \in Reached(b[3], NoRestart(r, s))
  BY DEF Runs
<1>3. /\ a \in graph.edges /\ a[2] = s /\ b \in graph.edges /\ b[2] = m
      /\ c \in graph.edges /\ c[2] = e
  BY DEF EdgesOf
<1>4. /\ IsStart(r, s) /\ IsMid(r, m) /\ IsEnd(r, e)
      /\ KeyOf(e) = k /\ k[1] = Var(m) /\ k[2] # j /\ KeyOf(m) # k
  BY DEF IsTriple, KeyOf
<1> HIDE DEF k, j
<1>5. ASSUME NEW f \in visited, broken(f), NEW x \in graph.edges, x[1] = f.node
      PROVE  ~Ends(r, x[2], k)
  <2> SUFFICES ASSUME IsEnd(r, x[2]), KeyOf(x[2]) = k PROVE FALSE
    BY DEF Ends
  <2>1. PICK fr : Sound(fr) /\ Fingerprint(fr) = f /\ Witnesses(fr, x) \subseteq seen
    BY <1>5, Successor
  <2>2. fr.memory = f.memory
    BY <2>1 DEF Fingerprint
  <2>3. \E v \in Witnesses(fr, x) : v[1] = r /\ KeyOf(v[2]) = KeyOf(x[2]) /\ Tid(v[3]) = j
    BY <1>5, <2>1, <2>2, EndIsWitnessed
  <2> QED
    BY <2>1, <2>3 DEF k, j
<1>6. graph.initial \in A /\ ClosedUnder(A, TransitionIds)
  <2>1. Covered(Fingerprint(FirstFrame))
    BY DEF CInv, NothingLost
  <2>2. Fingerprint(FirstFrame) \in visited
    BY <2>1 DEF Covered, Frames
  <2>3. Fingerprint(FirstFrame).node = graph.initial
    BY DEF Fingerprint, FirstFrame
  <2>4. ASSUME NEW f \in visited, NEW x \in graph.edges, x[1] = f.node PROVE x[3] \in A
    BY <2>4, Successor
  <2> QED
    BY <2>2, <2>3, <2>4 DEF ClosedUnder
<1>7. a[3] \in B
  <2>1. a[1] \in A
    BY <1>1, <1>2, <1>6, ReachedIsClosed
  <2>2. PICK f \in visited : f.node = a[1]
    BY <2>1
  <2>3. PICK g, now : g \in visited /\ g.node = a[3] /\ Updated(f.memory[r], g.memory[r], r, a[2], now)
    BY <1>3, <2>2, Successor
  <2>4. started(g)
    BY <1>3, <1>4, <2>3 DEF Updated, k
  <2> QED
    BY <2>3, <2>4
<1>8. ClosedUnder(B, TransitionIds)
  <2> SUFFICES ASSUME NEW x \in graph.edges, NEW f \in visited, started(f), f.node = x[1]
               PROVE  x[3] \in B
    BY DEF ClosedUnder
  <2>1. PICK g, now : g \in visited /\ g.node = x[3] /\ Updated(f.memory[r], g.memory[r], r, x[2], now)
    BY Successor
  <2>2. started(g)
    BY <2>1 DEF Updated
  <2> QED
    BY <2>1, <2>2
<1>9. b[3] \in C
  <2>1. b[1] \in B
    BY <1>1, <1>2, <1>7, <1>8, ReachedIsClosed
  <2>2. PICK f \in visited : started(f) /\ f.node = b[1]
    BY <2>1
  <2>3. PICK g, now : g \in visited /\ g.node = b[3] /\ Updated(f.memory[r], g.memory[r], r, b[2], now)
    BY <1>3, <2>2, Successor
  <2>4. Intrudes(f.memory[r], r, m, k) /\ ~Opens(r, m, k) /\ Tid(m) = j
    BY <1>4, <2>2 DEF Intrudes, Opens, j
  <2>5. broken(g)
    BY <1>3, <2>3, <2>4 DEF Updated
  <2> QED
    BY <2>3, <2>5
<1>10. ClosedUnder(C, NoRestart(r, s))
  <2> SUFFICES ASSUME NEW x \in graph.edges, x[2] \in NoRestart(r, s),
                      NEW f \in visited, broken(f), f.node = x[1]
               PROVE  x[3] \in C
    BY DEF ClosedUnder
  <2>1. PICK g, now : g \in visited /\ g.node = x[3] /\ Updated(f.memory[r], g.memory[r], r, x[2], now)
    BY Successor
  <2>2. ~Opens(r, x[2], k) /\ ~Ends(r, x[2], k)
    BY <1>5 DEF NoRestart, Opens, k
  <2>3. broken(g)
    BY <2>1, <2>2 DEF Updated
  <2> QED
    BY <2>1, <2>3
<1>11. c[1] \in C
  BY <1>1, <1>2, <1>9, <1>10, ReachedIsClosed
<1>12. PICK f \in visited : broken(f) /\ f.node = c[1]
  BY <1>11
<1>13. ~Ends(r, c[2], k)
  BY <1>3, <1>5, <1>12
<1> QED
  BY <1>3, <1>4, <1>13 DEF Ends

(* No false negative within the limits: whenever some run breaks an         *)
(* interval, a violation of that rule, interval and intruder is reported.   *)
THEOREM NoViolationMissed == Spec => []ViolationsFound
<1>1. ASSUME CInv PROVE ViolationsFound
  <2> SUFFICES ASSUME Exhausted,
                      NEW r \in RuleId, NEW s \in TransitionIds, NEW m \in TransitionIds,
                      NEW e \in TransitionIds, IsTriple(r, s, m, e),
                      Runs(s, TransitionIds, m, NoRestart(r, s), e)
               PROVE  \E w \in seen : /\ w[1] = r /\ KeyOf(w[2]) = KeyOf(s) /\ Tid(w[3]) = Tid(m)
                                      /\ PatternOf(w) \in report
    BY DEF ViolationsFound
  <2>1. stack = <<>> /\ WithinLimits /\ (seen # {} => report # {})
    BY DEF Exhausted, Done, WithinLimits
  <2>2. PICK w \in seen : w[1] = r /\ KeyOf(w[2]) = KeyOf(s) /\ Tid(w[3]) = Tid(m)
    BY <1>1, <2>1, RunIsFound
  <2>3. report = {PatternOf(v) : v \in seen}
    BY <1>1, <2>1, <2>2 DEF CInv
  <2> QED
    BY <2>2, <2>3
<1> QED
  BY <1>1, NothingIsLost, PTL
=============================================================================
