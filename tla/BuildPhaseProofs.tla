-------------------------- MODULE BuildPhaseProofs --------------------------
(* Proofs about BuildPhase, for all finite plans, all texts and machines and *)
(* all numbers of passes and of calls that raise.                            *)
EXTENDS BuildPhase, FiniteSetTheorems, SequenceTheorems, TLAPS

-----------------------------------------------------------------------------
(* Sets of items.                                                            *)

(* The sets among T that hold no other one of them. *)
Minimal(T) == {r \in T : \A q \in T : q \subseteq r => q = r}

(* Of some subsets of a finite set one is minimal. *)
LEMMA MinimalSubset ==
    ASSUME NEW S, IsFiniteSet(S), NEW T \in SUBSET SUBSET S, T # {}
    PROVE  Minimal(T) # {}
<1>1. T \subseteq FiniteSubsetsOf(S)
  BY FS_Subset DEF FiniteSubsetsOf
<1>2. PICK r \in T : \A q \in T : ~(<<q, r>> \in StrictSubsetOrdering(S))
  BY <1>1, FS_StrictSubsetOrderingWellFounded, WFMin
<1> QED
  BY <1>2 DEF StrictSubsetOrdering, Minimal

LEMMA Largest ==
    ASSUME NEW S \in SUBSET Nat, IsFiniteSet(S), S # {}
    PROVE  \E m \in S : \A n \in S : n <= m
<1> DEFINE from(k) == {n \in S : n >= k}
           T == {from(k) : k \in S}
<1>1. T \in SUBSET SUBSET S /\ T # {}
  OBVIOUS
<1> HIDE DEF T
<1>2. PICK r \in T : \A q \in T : q \subseteq r => q = r
  <2>1. Minimal(T) # {}
    BY <1>1, MinimalSubset
  <2> QED
    BY <2>1 DEF Minimal
<1>3. PICK m \in S : r = from(m)
  BY <1>2 DEF T
<1>4. ASSUME NEW n \in S, n > m PROVE FALSE
  <2>1. m \in Nat /\ n \in Nat /\ \A k \in S : k \in Nat
    OBVIOUS
  <2>2. from(n) \subseteq from(m)
    <3>1. ASSUME NEW k \in S, k >= n PROVE k >= m
      BY <1>4, <2>1, <3>1
    <3> QED
      BY <3>1
  <2>3. m \in from(m) /\ m \notin from(n)
    BY <1>4, <2>1
  <2>4. from(n) \in T
    BY DEF T
  <2> QED
    BY <1>2, <1>3, <2>2, <2>3, <2>4
<1> QED
  BY <1>4

InOrder(s, items) ==
    /\ s \in [1..Cardinality(items) -> items]
    /\ \A m, n \in DOMAIN s : m < n => s[m] < s[n]

LEMMA OrderExists ==
    ASSUME NEW S \in SUBSET Nat, IsFiniteSet(S)
    PROVE  \E s : InOrder(s, S)
<1> DEFINE T == {r \in SUBSET S : ~\E s : InOrder(s, r)}
<1> SUFFICES ASSUME T # {} PROVE FALSE
  OBVIOUS
<1>0. T \in SUBSET SUBSET S
  OBVIOUS
<1> HIDE DEF T
<1>1. PICK r \in T : \A q \in T : q \subseteq r => q = r
  <2>1. Minimal(T) # {}
    BY <1>0, MinimalSubset
  <2> QED
    BY <2>1 DEF Minimal
<1> USE DEF T
<1>2. r \in SUBSET Nat /\ IsFiniteSet(r) /\ Cardinality(r) \in Nat
  BY <1>1, FS_Subset, FS_CardinalityType
<1>3. CASE r = {}
  <2>1. InOrder(<<>>, r)
    BY <1>3, FS_EmptySet DEF InOrder
  <2> QED
    BY <1>1, <2>1
<1>4. CASE r # {}
  <2>1. PICK m \in r : \A n \in r : n <= m
    BY <1>2, <1>4, Largest
  <2> DEFINE q == r \ {m}
             k == Cardinality(q)
  <2>2. IsFiniteSet(q) /\ k \in Nat /\ Cardinality(r) = k + 1
    <3>1. IsFiniteSet(q) /\ k = Cardinality(r) - 1
      BY <1>2, <2>1, FS_RemoveElement
    <3>2. k \in Nat
      BY <3>1, FS_CardinalityType
    <3> QED
      BY <1>2, <3>1, <3>2
  <2>3. PICK s : InOrder(s, q)
    BY <1>1, <2>1
  <2> DEFINE t == [n \in 1..(k + 1) |-> IF n = k + 1 THEN m ELSE s[n]]
  <2> HIDE DEF k
  <2>4. s \in [1..k -> q] /\ \A i, j \in 1..k : i < j => s[i] < s[j]
    BY <2>3 DEF InOrder, k
  <2>5. \A n \in 1..(k + 1) : n = k + 1 \/ n \in 1..k
    BY <2>2
  <2>6. t \in [1..(k + 1) -> r]
    BY <2>1, <2>4, <2>5
  <2>7. ASSUME NEW i \in 1..(k + 1), NEW j \in 1..(k + 1), i < j PROVE t[i] < t[j]
    <3>1. i \in 1..k
      BY <2>2, <2>7
    <3>2. CASE j = k + 1
      <4>1. s[i] \in r /\ s[i] # m
        BY <2>4, <3>1
      <4>2. s[i] < m
        <5>1. s[i] \in Nat /\ m \in Nat /\ s[i] <= m
          BY <1>2, <2>1, <4>1
        <5> QED
          BY <4>1, <5>1
      <4> QED
        BY <2>2, <3>1, <3>2, <4>2
    <3>3. CASE j \in 1..k
      BY <2>2, <2>4, <2>7, <3>1, <3>3
    <3> QED
      BY <2>5, <3>2, <3>3
  <2> HIDE DEF t
  <2>8. InOrder(t, r)
    BY <2>2, <2>6, <2>7 DEF InOrder
  <2> QED
    BY <1>1, <2>8
<1> QED
  BY <1>3, <1>4

(* A sequence without repetitions, of all the items of a set. *)
Enumerates(s, items) ==
    /\ s \in Seq(items) /\ ToSet(s) = items
    /\ \A m, n \in 1..Len(s) : s[m] = s[n] => m = n

LEMMA SortedEnumerates ==
    ASSUME NEW S \in SUBSET Nat, IsFiniteSet(S)
    PROVE  Enumerates(Sorted(S), S)
<1> DEFINE s == Sorted(S)
           k == Cardinality(S)
<1>1. s \in [1..k -> S] /\ \A m, n \in 1..k : m < n => s[m] < s[n]
  BY OrderExists DEF Sorted, InOrder
<1>2. k \in Nat
  BY FS_CardinalityType
<1> HIDE DEF s, k
<1>3. \A m, n \in 1..k : s[m] = s[n] => m = n
  <2> SUFFICES ASSUME NEW m \in 1..k, NEW n \in 1..k, m < n PROVE s[m] # s[n]
    BY <1>2
  <2>1. s[m] < s[n] /\ s[m] \in Nat /\ s[n] \in Nat
    BY <1>1
  <2> QED
    BY <2>1
<1>4. s \in Injection(1..k, S)
  BY <1>1, <1>3 DEF Injection, IsInjective
<1>5. Cardinality(1..k) = k
  BY <1>2, FS_Interval
<1>6. s \in Surjection(1..k, S)
  BY <1>4, <1>5, FS_Injection DEF k
<1>7. ToSet(s) = S
  BY <1>1, <1>6 DEF Surjection, ToSet
<1>8. s \in Seq(S) /\ Len(s) = k
  BY <1>1, <1>2
<1> QED
  BY <1>3, <1>7, <1>8 DEF Enumerates, s

-----------------------------------------------------------------------------
(* The recursive function of Ordered: there is one on every finite set.      *)

(* What is found for r, when rest is found for what is not ready. *)
Layer(p, r, rest) == IF Ready(p, r) = {} THEN <<>> ELSE Sorted(Ready(p, r)) \o rest

Layers(p, f, S) == f = [r \in SUBSET S |-> Layer(p, r, f[r \ Ready(p, r)])]

LEMMA OrderedUnfolds ==
    ASSUME NEW p
    PROVE  Ordered(p) = (CHOOSE f : Layers(p, f, p.items))[p.items]
BY DEF Ordered, Layers, Layer

LEMMA LayersUnique ==
    ASSUME NEW p, NEW S, IsFiniteSet(S), NEW Q \in SUBSET S,
           NEW f, NEW g, Layers(p, f, S), Layers(p, g, Q)
    PROVE  \A r \in SUBSET Q : f[r] = g[r]
<1> DEFINE T == {r \in SUBSET Q : f[r] # g[r]}
<1> SUFFICES ASSUME T # {} PROVE FALSE
  OBVIOUS
<1>1. Minimal(T) # {}
  <2>1. T \in SUBSET SUBSET S
    OBVIOUS
  <2> HIDE DEF T
  <2> QED
    BY <2>1, MinimalSubset
<1>2. PICK r \in T : \A q \in T : q \subseteq r => q = r
  BY <1>1 DEF Minimal
<1> DEFINE rest == r \ Ready(p, r)
<1>3. f[r] = Layer(p, r, f[rest]) /\ g[r] = Layer(p, r, g[rest])
  BY <1>2 DEF Layers
<1>4. CASE Ready(p, r) = {}
  BY <1>2, <1>3, <1>4 DEF Layer
<1>5. CASE Ready(p, r) # {}
  <2>1. rest \in SUBSET Q /\ rest \subseteq r /\ rest # r
    BY <1>2, <1>5 DEF Ready
  <2>2. f[rest] = g[rest]
    BY <1>2, <2>1
  <2> QED
    BY <1>2, <1>3, <2>2
<1> QED
  BY <1>4, <1>5

LEMMA LayersExist ==
    ASSUME NEW p, NEW S, IsFiniteSet(S)
    PROVE  \E f : Layers(p, f, S)
<1> DEFINE T == {r \in SUBSET S : ~\E f : Layers(p, f, r)}
<1> SUFFICES ASSUME T # {} PROVE FALSE
  <2>1. S \in SUBSET S
    OBVIOUS
  <2> QED
    BY <2>1
<1>1. Minimal(T) # {}
  <2>1. T \in SUBSET SUBSET S
    OBVIOUS
  <2> HIDE DEF T
  <2> QED
    BY <2>1, MinimalSubset
<1>2. PICK r \in T : \A q \in T : q \subseteq r => q = r
  BY <1>1 DEF Minimal
<1> DEFINE on(q) == CHOOSE f : Layers(p, f, q)
           value(q) == on(q)[q]
           f == [q \in SUBSET r |-> Layer(p, q, value(q \ Ready(p, q)))]
<1>3. ASSUME NEW q \in SUBSET r, q # r PROVE Layers(p, on(q), q)
  <2>1. \E g : Layers(p, g, q)
    BY <1>2, <1>3
  <2> QED
    BY <2>1
<1>4. ASSUME NEW q \in SUBSET r, q # r PROVE f[q] = value(q)
  <2> DEFINE rest == q \ Ready(p, q)
  <2>1. value(q) = Layer(p, q, on(q)[rest])
    <3>1. q \in SUBSET q
      OBVIOUS
    <3> HIDE DEF on
    <3> QED
      BY <1>3, <1>4, <3>1 DEF Layers
  <2>2. on(q)[rest] = value(rest)
    <3>1. rest \in SUBSET q /\ rest \in SUBSET r /\ rest # r
      BY <1>4 DEF Ready
    <3>2. Layers(p, on(q), q) /\ Layers(p, on(rest), rest) /\ IsFiniteSet(q)
      BY <1>2, <1>3, <1>4, <3>1, FS_Subset
    <3>3. rest \in SUBSET rest
      OBVIOUS
    <3> HIDE DEF on, rest
    <3> QED
      BY <3>1, <3>2, <3>3, LayersUnique
  <2> HIDE DEF value, on
  <2> QED
    BY <2>1, <2>2
<1>5. ASSUME NEW q \in SUBSET r
      PROVE  Layer(p, q, value(q \ Ready(p, q))) = Layer(p, q, f[q \ Ready(p, q)])
  <2> DEFINE rest == q \ Ready(p, q)
  <2>1. CASE Ready(p, q) = {}
    BY <2>1 DEF Layer
  <2>2. CASE Ready(p, q) # {}
    <3>1. rest \in SUBSET r /\ rest # r
      BY <2>2 DEF Ready
    <3>2. f[rest] = value(rest)
      <4> HIDE DEF f, value, rest
      <4> QED
        BY <1>4, <3>1
    <3> HIDE DEF f, value
    <3> QED
      BY <3>2
  <2> QED
    BY <2>1, <2>2
<1>6. Layers(p, f, r)
  <2>1. f = [q \in SUBSET r |-> Layer(p, q, f[q \ Ready(p, q)])]
    <3>1. [q \in SUBSET r |-> Layer(p, q, value(q \ Ready(p, q)))]
            = [q \in SUBSET r |-> Layer(p, q, f[q \ Ready(p, q)])]
      <4> HIDE DEF f, value
      <4> QED
        BY <1>5
    <3> QED
      BY <3>1
  <2> HIDE DEF f
  <2> QED
    BY <2>1 DEF Layers
<1> HIDE DEF f
<1> QED
  BY <1>2, <1>6

(* Ordered, unfolded once and for all. *)
LEMMA OrderedLayers ==
    ASSUME NEW p, IsFiniteSet(p.items)
    PROVE  \E f : Layers(p, f, p.items) /\ Ordered(p) = f[p.items]
<1> DEFINE f == CHOOSE g : Layers(p, g, p.items)
<1>1. Layers(p, f, p.items)
  BY LayersExist
<1> HIDE DEF f
<1> QED
  BY <1>1, OrderedUnfolds DEF f

-----------------------------------------------------------------------------
(* What the order is.                                                        *)

LEMMA Concatenation ==
    ASSUME NEW S, NEW s \in Seq(S), NEW t \in Seq(S)
    PROVE  /\ s \o t \in Seq(S)
           /\ Len(s) \in Nat /\ Len(t) \in Nat /\ Len(s \o t) = Len(s) + Len(t)
           /\ \A n \in 1..Len(s) : n \in 1..Len(s \o t) /\ (s \o t)[n] = s[n]
           /\ \A n \in 1..Len(t) : /\ Len(s) + n \in 1..Len(s \o t)
                                   /\ (s \o t)[Len(s) + n] = t[n]
           /\ \A n \in 1..Len(s \o t) :
                 n \in 1..Len(s) \/ \E m \in 1..Len(t) : n = Len(s) + m
           /\ ToSet(s \o t) = ToSet(s) \cup ToSet(t)
<1>1. /\ s \o t \in Seq(S)
      /\ Len(s) \in Nat /\ Len(t) \in Nat /\ Len(s \o t) = Len(s) + Len(t)
  OBVIOUS
<1>2. \A n \in 1..Len(s) : n \in 1..Len(s \o t) /\ (s \o t)[n] = s[n]
  BY <1>1
<1>3. \A n \in 1..Len(t) : /\ Len(s) + n \in 1..Len(s \o t)
                           /\ (s \o t)[Len(s) + n] = t[n]
  BY <1>1
<1>4. \A n \in 1..Len(s \o t) : n \in 1..Len(s) \/ \E m \in 1..Len(t) : n = Len(s) + m
  <2> SUFFICES ASSUME NEW n \in 1..Len(s \o t), n \notin 1..Len(s)
               PROVE  \E m \in 1..Len(t) : n = Len(s) + m
    OBVIOUS
  <2>1. n - Len(s) \in 1..Len(t) /\ n = Len(s) + (n - Len(s))
    BY <1>1
  <2> QED
    BY <2>1
<1>5. \A q \in {s, t, s \o t} : DOMAIN q = 1..Len(q)
  BY <1>1
<1>6. ToSet(s \o t) = ToSet(s) \cup ToSet(t)
  BY <1>2, <1>3, <1>4, <1>5 DEF ToSet
<1> QED
  BY <1>1, <1>2, <1>3, <1>4, <1>6

(* The items of r that o leaves out wait for each other. *)
LeftOver(r, o) == r \ ToSet(o)

OrderFits(p, r, o) ==
    /\ o \in Seq(r)
    /\ \A m, n \in 1..Len(o) : o[m] = o[n] => m = n
    /\ \A i \in LeftOver(r, o) : p.deps[i] \cap LeftOver(r, o) # {}
    /\ \A n \in 1..Len(o) : \A i \in p.deps[o[n]] \cap r : \E j \in 1..Len(o) : j < n /\ o[j] = i

(* A layer before an order of the rest is an order. *)
LEMMA LayerKeepsOrder ==
    ASSUME NEW p, NEW r \in SUBSET Nat, IsFiniteSet(r),
           NEW rest, rest = r \ Ready(p, r), NEW o, OrderFits(p, rest, o)
    PROVE  OrderFits(p, r, Sorted(Ready(p, r)) \o o)
<1> DEFINE s == Sorted(Ready(p, r))
           both == s \o o
<1>1. Enumerates(s, Ready(p, r)) /\ Ready(p, r) \subseteq r
  <2>1. Ready(p, r) \in SUBSET r
    BY DEF Ready
  <2>2. Ready(p, r) \in SUBSET Nat /\ IsFiniteSet(Ready(p, r))
    BY <2>1, FS_Subset
  <2> QED
    BY <2>1, <2>2, SortedEnumerates
<1> HIDE DEF s
<1>2. /\ s \in Seq(r) /\ ToSet(s) = Ready(p, r) /\ \A m, n \in 1..Len(s) : s[m] = s[n] => m = n
      /\ \A n \in 1..Len(s) : s[n] \in Ready(p, r)
  BY <1>1 DEF Enumerates
<1>3. /\ o \in Seq(r) /\ \A m, n \in 1..Len(o) : o[m] = o[n] => m = n
      /\ \A n \in 1..Len(o) : o[n] \in rest
  BY DEF OrderFits
<1>4. /\ both \in Seq(r) /\ Len(s) \in Nat /\ Len(o) \in Nat
      /\ \A n \in 1..Len(s) : n \in 1..Len(both) /\ both[n] = s[n]
      /\ \A n \in 1..Len(o) : Len(s) + n \in 1..Len(both) /\ both[Len(s) + n] = o[n]
      /\ \A n \in 1..Len(both) : n \in 1..Len(s) \/ \E m \in 1..Len(o) : n = Len(s) + m
      /\ ToSet(both) = ToSet(s) \cup ToSet(o)
  BY <1>2, <1>3, Concatenation
<1> HIDE DEF both
<1>5. ASSUME NEW m \in 1..Len(both), NEW n \in 1..Len(both), both[m] = both[n] PROVE m = n
  <2>1. CASE m \in 1..Len(s) /\ n \in 1..Len(s)
    BY <1>2, <1>4, <1>5, <2>1
  <2>2. CASE m \notin 1..Len(s) /\ n \notin 1..Len(s)
    <3>1. PICK k \in 1..Len(o), l \in 1..Len(o) : m = Len(s) + k /\ n = Len(s) + l
      BY <1>4, <2>2
    <3>2. k = l
      BY <1>3, <1>4, <1>5, <3>1
    <3> QED
      BY <3>1, <3>2
  <2>3. CASE (m \in 1..Len(s)) # (n \in 1..Len(s))
    <3>1. \A k \in 1..Len(s), l \in 1..Len(o) : s[k] # o[l]
      BY <1>2, <1>3
    <3> QED
      BY <1>4, <1>5, <2>3, <3>1
  <2> QED
    BY <2>1, <2>2, <2>3
<1>6. LeftOver(r, both) = LeftOver(rest, o)
  BY <1>2, <1>4 DEF LeftOver
<1>7. ASSUME NEW n \in 1..Len(both), NEW i \in p.deps[both[n]] \cap r
      PROVE  \E j \in 1..Len(both) : j < n /\ both[j] = i
  <2>1. CASE n \in 1..Len(s)
    <3>1. p.deps[both[n]] \cap r = {}
      BY <1>2, <1>4, <2>1 DEF Ready
    <3> QED
      BY <3>1
  <2>2. ASSUME NEW m \in 1..Len(o), n = Len(s) + m
        PROVE  \E j \in 1..Len(both) : j < n /\ both[j] = i
    <3>1. i \in p.deps[o[m]] /\ (i \in rest \/ i \in Ready(p, r))
      BY <1>4, <2>2
    <3>2. CASE i \in rest
      <4>1. PICK j \in 1..Len(o) : j < m /\ o[j] = i
        BY <3>1, <3>2 DEF OrderFits
      <4>2. Len(s) + j \in 1..Len(both) /\ Len(s) + j < n /\ both[Len(s) + j] = i
        BY <1>4, <2>2, <4>1
      <4> QED
        BY <4>2
    <3>3. CASE i \in Ready(p, r)
      <4>1. PICK j \in 1..Len(s) : s[j] = i
        BY <1>2, <3>3 DEF ToSet
      <4>2. j \in 1..Len(both) /\ j < n /\ both[j] = i
        BY <1>4, <2>2, <4>1
      <4> QED
        BY <4>2
    <3> QED
      BY <3>1, <3>2, <3>3
  <2> QED
    BY <1>4, <2>1, <2>2
<1>8. \A i \in LeftOver(r, both) : p.deps[i] \cap LeftOver(r, both) # {}
  BY <1>6 DEF OrderFits
<1> QED
  BY <1>4, <1>5, <1>7, <1>8 DEF OrderFits, both, s

LEMMA NoOrder ==
    ASSUME NEW p, NEW r, Ready(p, r) = {}
    PROVE  OrderFits(p, r, <<>>)
<1>1. ToSet(<<>>) = {} /\ LeftOver(r, <<>>) = r
  BY DEF ToSet, LeftOver
<1>2. \A i \in r : p.deps[i] \cap r # {}
  BY DEF Ready
<1> QED
  BY <1>1, <1>2 DEF OrderFits

LEMMA OrderedFits ==
    ASSUME NEW p, IsFiniteSet(p.items), p.items \subseteq Nat
    PROVE  OrderFits(p, p.items, Ordered(p))
<1>1. PICK f : Layers(p, f, p.items) /\ Ordered(p) = f[p.items]
  BY OrderedLayers
<1> DEFINE T == {r \in SUBSET p.items : ~OrderFits(p, r, f[r])}
<1> SUFFICES ASSUME T # {} PROVE FALSE
  BY <1>1
<1>2. Minimal(T) # {}
  <2>1. T \in SUBSET SUBSET p.items
    OBVIOUS
  <2> HIDE DEF T
  <2> QED
    BY <2>1, MinimalSubset
<1>3. PICK r \in T : \A q \in T : q \subseteq r => q = r
  BY <1>2 DEF Minimal
<1> DEFINE rest == r \ Ready(p, r)
<1>4. f[r] = Layer(p, r, f[rest])
  BY <1>1, <1>3 DEF Layers
<1>5. CASE Ready(p, r) = {}
  BY <1>3, <1>4, <1>5, NoOrder DEF Layer
<1>6. CASE Ready(p, r) # {}
  <2>1. rest \in SUBSET p.items /\ rest \subseteq r /\ rest # r
    BY <1>3, <1>6 DEF Ready
  <2>2. OrderFits(p, rest, f[rest])
    BY <1>3, <2>1
  <2>3. r \in SUBSET Nat /\ IsFiniteSet(r)
    BY <1>3, FS_Subset
  <2>4. OrderFits(p, r, Sorted(Ready(p, r)) \o f[rest])
    BY <2>2, <2>3, LayerKeepsOrder
  <2> QED
    BY <1>3, <1>4, <1>6, <2>4 DEF Layer
<1> QED
  BY <1>5, <1>6

LEMMA PlanFacts ==
    ASSUME NEW p \in Plans
    PROVE  /\ p.items \subseteq Items /\ p.items \subseteq Nat /\ IsFiniteSet(p.items)
           /\ p.items # {} /\ p.deps \in [p.items -> SUBSET p.items]
           /\ Cardinality(p.items) \in Nat \ {0}
<1>1. /\ p.items \subseteq Items /\ p.items # {} /\ p.deps \in [p.items -> SUBSET p.items]
      /\ Items \subseteq Nat /\ IsFiniteSet(Items)
  BY BuildAssumption DEF Items
<1>2. IsFiniteSet(p.items) /\ Cardinality(p.items) \in Nat
  BY <1>1, FS_Subset, FS_CardinalityType
<1> QED
  BY <1>1, <1>2, FS_EmptySet

(* An order without repetitions has as many places as items. *)
LEMMA OrderLength ==
    ASSUME NEW p \in Plans
    PROVE  LET order == Ordered(p) IN
           /\ order \in Seq(p.items) /\ DOMAIN order = 1..Len(order) /\ Len(order) \in Nat
           /\ ToSet(order) \subseteq p.items
           /\ Sortable(p) <=> ToSet(order) = p.items
<1> DEFINE order == Ordered(p)
<1>1. OrderFits(p, p.items, order)
  BY PlanFacts, OrderedFits
<1> HIDE DEF order
<1>2. /\ order \in Seq(p.items) /\ DOMAIN order = 1..Len(order) /\ Len(order) \in Nat
      /\ \A m, n \in 1..Len(order) : order[m] = order[n] => m = n
  BY <1>1 DEF OrderFits
<1>3. ToSet(order) \subseteq p.items /\ IsFiniteSet(ToSet(order))
  <2>1. ToSet(order) \in SUBSET p.items
    BY <1>2 DEF ToSet
  <2> QED
    BY <2>1, PlanFacts, FS_Subset
<1>4. order \in Injection(1..Len(order), ToSet(order))
  BY <1>2 DEF Injection, IsInjective, ToSet
<1>5. order \in Surjection(1..Len(order), ToSet(order))
  BY <1>2 DEF Surjection, ToSet
<1>6. Cardinality(ToSet(order)) = Len(order)
  <2>1. Cardinality(1..Len(order)) = Len(order)
    BY <1>2, FS_Interval
  <2> QED
    BY <1>3, <1>4, <1>5, <2>1, FS_Injection
<1>7. Len(order) = Cardinality(p.items) <=> ToSet(order) = p.items
  BY <1>3, <1>6, PlanFacts, FS_Subset
<1> QED
  BY <1>2, <1>3, <1>7 DEF Sortable, order

(* Items that wait for each other have no place in an order. *)
LEMMA CycleIsLeftOver ==
    ASSUME NEW p \in Plans, NEW s \in SUBSET p.items, \A i \in s : p.deps[i] \cap s # {}
    PROVE  s \cap ToSet(Ordered(p)) = {}
<1> DEFINE order == Ordered(p)
           places == {n \in 1..Len(order) : order[n] \in s}
<1>1. OrderFits(p, p.items, order) /\ DOMAIN order = 1..Len(order) /\ Len(order) \in Nat
  BY PlanFacts, OrderedFits, OrderLength
<1> HIDE DEF order
<1>2. ASSUME places # {} PROVE FALSE
  <2>1. PICK n \in places : \A m \in places : ~(<<m, n>> \in OpToRel(<, Nat))
    <3>1. places \subseteq Nat
      BY <1>1
    <3> QED
      BY <1>2, <3>1, NatLessThanWellFounded, WFMin
  <2>2. PICK i \in p.deps[order[n]] : i \in s
    OBVIOUS
  <2>3. PICK m \in 1..Len(order) : m < n /\ order[m] = i
    BY <1>1, <2>2 DEF OrderFits
  <2>4. <<m, n>> \in OpToRel(<, Nat)
    BY <1>1, <2>3 DEF OpToRel
  <2> QED
    BY <2>1, <2>2, <2>3, <2>4
<1> QED
  BY <1>1, <1>2 DEF ToSet, order

(* The order is found whenever there is one, for every plan. *)
LEMMA OrderIsTopologicalFor ==
    ASSUME plan \in Plans
    PROVE  OrderIsTopological
<1> DEFINE order == Ordered(plan)
           left == plan.items \ ToSet(order)
<1>1. OrderFits(plan, plan.items, order)
  BY PlanFacts, OrderedFits
<1>2. /\ DOMAIN order = 1..Len(order) /\ Len(order) \in Nat /\ order \in Seq(plan.items)
      /\ ToSet(order) \subseteq plan.items
      /\ Sortable(plan) <=> ToSet(order) = plan.items
  BY OrderLength
<1> HIDE DEF order
<1>3. CASE Cyclic(plan)
  <2>1. PICK s \in SUBSET plan.items : s # {} /\ \A i \in s : plan.deps[i] \cap s # {}
    BY <1>3 DEF Cyclic
  <2>2. s \cap ToSet(order) = {}
    BY <2>1, CycleIsLeftOver DEF order
  <2>3. ~Sortable(plan)
    BY <1>2, <2>1, <2>2
  <2> QED
    BY <1>3, <2>3 DEF OrderIsTopological
<1>4. CASE ~Cyclic(plan)
  <2>1. \A i \in left : plan.deps[i] \cap left # {}
    BY <1>1 DEF OrderFits, LeftOver
  <2>2. left = {}
    BY <1>4, <2>1 DEF Cyclic
  <2>3. Sortable(plan) /\ ToSet(order) = plan.items
    BY <1>2, <2>2
  <2>4. ASSUME NEW n \in 1..Len(order)
        PROVE  plan.deps[order[n]] \subseteq {order[j] : j \in 1..(n - 1)}
    <3> SUFFICES ASSUME NEW i \in plan.deps[order[n]] PROVE i \in {order[j] : j \in 1..(n - 1)}
      OBVIOUS
    <3>1. order[n] \in plan.items /\ i \in plan.items
      BY <1>2, PlanFacts
    <3>2. PICK j \in 1..Len(order) : j < n /\ order[j] = i
      BY <1>1, <3>1 DEF OrderFits
    <3>3. j \in 1..(n - 1)
      BY <1>2, <3>2
    <3> QED
      BY <3>2, <3>3
  <2> QED
    BY <1>4, <2>3, <2>4 DEF OrderIsTopological, order
<1> QED
  BY <1>3, <1>4

-----------------------------------------------------------------------------
(* The invariant.                                                            *)

LEMMA WrittenFacts ==
    ASSUME NEW files, DOMAIN files = Items, NEW i \in Items, NEW d
    PROVE  /\ \/ Written(files, i, d) = files
              \/ Written(files, i, d) = [files EXCEPT ![i] = "absent"]
              \/ d \notin {"nothing", "delete"} /\ Written(files, i, d) = [files EXCEPT ![i] = d]
           /\ Agrees(d, Written(files, i, d)[i])
           /\ \A j \in Items : j # i => Written(files, i, d)[j] = files[j]
<1>1. "nothing" \notin Texts /\ "delete" \notin Texts
  BY BuildAssumption
<1>2. CASE d = "nothing"
  BY <1>1, <1>2 DEF Written, Agrees
<1>3. CASE d = "delete"
  BY <1>1, <1>3 DEF Written, Agrees
<1>4. CASE d \notin {"nothing", "delete"}
  BY <1>4 DEF Written, Agrees
<1> QED
  BY <1>2, <1>3, <1>4

LEMMA Constants ==
    /\ NoFiles \in Files /\ NoUpdates \in Updates
    /\ NotChecked \in [code : Files, test : Files, tree : {NoTree} \cup Files,
                       passed : BOOLEAN]
    /\ NoUpdates.code = NoDiffs /\ NoUpdates.test = NoDiffs
    /\ \A i \in Items : NoDiffs[i] = "none" /\ NoFiles[i] = "absent"
    /\ Plans # {} => NoTree \notin Files /\ NoFiles # NoTree
    /\ {"nothing", "delete", "none", "absent"} \cap Texts = {}
<1>1. NoFiles \in Files /\ NoUpdates \in Updates
  BY DEF NoFiles, Files, NoUpdates, NoDiffs, Updates, Diffs
<1>2. ASSUME Plans # {} PROVE NoTree \notin Files /\ NoFiles # NoTree
  <2>1. Items # {}
    BY <1>2, PlanFacts
  <2>2. DOMAIN NoTree = {} /\ \A f \in Files : DOMAIN f = Items
    BY DEF NoTree, Files
  <2> QED
    BY <1>1, <2>1, <2>2
<1> QED
  BY <1>1, <1>2, BuildAssumption DEF NotChecked, NoUpdates, NoDiffs, NoFiles

LEMMA StateTypes ==
    ASSUME TypeOK
    PROVE  /\ plan \in Plans /\ plan.items \subseteq Items /\ machine \in Machines
           /\ \A u \in {made, state} : /\ u \in Updates
                                      /\ u.code \in [Items -> Diffs \cup {"none"}]
                                      /\ u.test \in [Items -> Diffs \cup {"none"}]
                                      /\ u.review \in [Items -> {"none", "approved", "rejected"}]
           /\ \A m \in Machines : /\ sandbox[m].code \in Files /\ sandbox[m].test \in Files
                                  /\ tree[m] \in {NoTree} \cup Files
                                  /\ head[m] \in {NoTree} \cup Files
           /\ NoTree \notin Files /\ NoFiles # NoTree
           /\ passes \in Nat /\ raises \in Nat
<1>1. plan \in Plans /\ passes \in Nat /\ raises \in Nat
  BY BuildAssumption DEF TypeOK
<1> QED
  BY <1>1, PlanFacts, Constants DEF TypeOK, Updates

LEMMA HeadFacts ==
    ASSUME TypeOK, pc \in {"code", "test", "review"}
    PROVE  /\ todo # <<>> /\ Head(todo) \in plan.items /\ Head(todo) \in Items
           /\ Tail(todo) \in Seq(plan.items) /\ Head(todo) \in ToSet(todo)
           /\ ToSet(todo) = {Head(todo)} \cup ToSet(Tail(todo))
           /\ Len(todo) \in Nat \ {0}
           /\ Len(todo) > 1 <=> Tail(todo) # <<>>
           /\ Tail(todo) = <<>> => ToSet(todo) = {Head(todo)}
<1>1. todo \in Seq(plan.items) /\ todo # <<>> /\ plan.items \subseteq Items
  BY StateTypes DEF TypeOK
<1> DEFINE n == Len(todo)
<1>2. n \in Nat \ {0} /\ DOMAIN todo = 1..n /\ Head(todo) = todo[1]
  BY <1>1
<1>3. /\ Tail(todo) \in Seq(plan.items) /\ Len(Tail(todo)) = n - 1 /\ DOMAIN Tail(todo) = 1..(n - 1)
      /\ \A k \in 1..(n - 1) : Tail(todo)[k] = todo[k + 1]
  BY <1>1, <1>2
<1>4. \A k \in 1..n : k = 1 \/ (k - 1 \in 1..(n - 1) /\ todo[k] = Tail(todo)[k - 1])
  BY <1>2, <1>3
<1>5. 1 \in 1..n /\ \A k \in 1..(n - 1) : k + 1 \in 1..n /\ Tail(todo)[k] = todo[k + 1]
  BY <1>2, <1>3
<1>6. ToSet(todo) = {Head(todo)} \cup ToSet(Tail(todo))
  <2> HIDE DEF n
  <2>1. \A i : i \in ToSet(todo) <=> \E k \in 1..n : todo[k] = i
    BY <1>2 DEF ToSet
  <2>2. \A i : i \in ToSet(Tail(todo)) <=> \E k \in 1..(n - 1) : Tail(todo)[k] = i
    BY <1>3 DEF ToSet
  <2>3. ASSUME NEW i \in ToSet(todo) PROVE i = Head(todo) \/ i \in ToSet(Tail(todo))
    BY <1>2, <1>4, <2>1, <2>2
  <2>4. Head(todo) \in ToSet(todo) /\ \A i \in ToSet(Tail(todo)) : i \in ToSet(todo)
    BY <1>2, <1>5, <2>1, <2>2
  <2> QED
    BY <2>3, <2>4
<1>7. n > 1 <=> Tail(todo) # <<>>
  <2>1. \A t \in Seq(plan.items) : t = <<>> <=> Len(t) = 0
    BY EmptySeq
  <2>2. Tail(todo) = <<>> <=> Len(Tail(todo)) = 0
    BY <1>3, <2>1
  <2> HIDE DEF n
  <2> QED
    BY <1>2, <1>3, <2>2
<1>8. Tail(todo) = <<>> => ToSet(todo) = {Head(todo)}
  BY <1>6 DEF ToSet
<1> QED
  BY <1>1, <1>2, <1>3, <1>6, <1>7, <1>8

LEMMA BuildInit == Init => TypeOK /\ IInv
<1> SUFFICES ASSUME Init PROVE TypeOK /\ IInv
  OBVIOUS
<1>1. TypeOK
  <2>1. passes \in 0..MaxPasses /\ raises \in 0..MaxRaises
    BY BuildAssumption DEF Init
  <2>2. todo \in Seq(plan.items) /\ {made, state} \subseteq Updates
    BY Constants DEF Init
  <2>3. /\ sandbox \in [Machines -> [code : Files, test : Files]]
        /\ {tree, head} \subseteq [Machines -> {NoTree} \cup Files]
    BY Constants DEF Init
  <2> QED
    BY <2>1, <2>2, <2>3, Constants DEF Init, TypeOK
<1>2. WorkFits /\ StateFits
  BY DEF Init, WorkFits, StateFits
<1>3. PlanFits
  BY Constants DEF Init, PlanFits
<1>4. FirstFits
  BY DEF Init, FirstFits
<1> QED
  BY <1>1, <1>2, <1>3, <1>4 DEF IInv

(* A pass with plan p begins on machine m. *)
LEMMA BeginKeeps ==
    ASSUME TypeOK, IInv, NEW m \in Machines, Begin(m)
    PROVE  TypeOK' /\ IInv'
<1>1. /\ pc = "idle" /\ passes < MaxPasses /\ passes' = passes + 1 /\ pc' = "work"
      /\ machine' = m /\ state' \in {state, NoUpdates} /\ checked' = NotChecked
      /\ UNCHANGED <<sandbox, tree, head, mode, repo, raises, todo, made, outcome>>
  BY DEF Begin, Scaffold, disk
<1>2. /\ plan' \in Plans /\ replanned' \in BOOLEAN
      /\ ~replanned' => ~replanned /\ plan' = plan
  <2>1. plan \in Plans /\ replanned \in BOOLEAN
    BY DEF TypeOK
  <2>2. PICK p \in Plans : plan' = p /\ replanned' = (replanned \/ p # plan)
    BY <2>1 DEF Begin
  <2> QED
    BY <2>1, <2>2
<1>3. TypeOK'
  <2>1. todo' \in Seq(plan'.items) /\ todo' = <<>>
    BY <1>1 DEF TypeOK
  <2>2. passes' \in 0..MaxPasses
    BY <1>1, BuildAssumption DEF TypeOK
  <2> QED
    BY <1>1, <1>2, <2>1, <2>2, Constants DEF TypeOK
<1>4. WorkFits' /\ StateFits'
  BY <1>1 DEF IInv, WorkFits, StateFits
<1>5. PlanFits'
  <2> SUFFICES ASSUME ~replanned' PROVE PlanFits'
    BY DEF PlanFits
  <2>1. state' = state \/ \A i \in Items : state'.code[i] = "none"
    BY <1>1, Constants
  <2> QED
    BY <1>1, <1>2, <2>1 DEF IInv, PlanFits
<1>6. FirstFits'
  <2>1. passes' # 0 /\ (passes' = 1 => passes = 0)
    BY <1>1, StateTypes
  <2> QED
    BY <1>1, <2>1, Constants DEF IInv, FirstFits
<1> QED
  BY <1>3, <1>4, <1>5, <1>6 DEF IInv

(* Updates are lost, files are not. *)
LEMMA FailsKeep ==
    ASSUME TypeOK, IInv, pc # "idle", raises' \in 0..MaxRaises, Fails
    PROVE  TypeOK' /\ IInv'
<1>1. /\ outcome' = "raised" /\ todo' = <<>> /\ made' = NoUpdates
      /\ pc' \in {"idle", "work", pc} /\ pc' \notin {"code", "test", "review"}
      /\ UNCHANGED <<mode, repo, plan, passes, replanned, machine, state, sandbox, tree, head, checked>>
  BY DEF Fails, run, disk, TypeOK
<1>2. TypeOK'
  BY <1>1, Constants DEF TypeOK
<1>3. WorkFits' /\ StateFits'
  BY <1>1 DEF IInv, WorkFits, StateFits, Coded, Tested
<1>4. PlanFits'
  BY <1>1, Constants DEF IInv, PlanFits
<1>5. FirstFits'
  BY <1>1, <1>2 DEF IInv, FirstFits, Fails, TypeOK
<1> QED
  BY <1>2, <1>3, <1>4, <1>5 DEF IInv

LEMMA OrderKeeps ==
    ASSUME TypeOK, IInv, Order
    PROVE  TypeOK' /\ IInv'
<1>1. /\ pc = "work" /\ Sortable(plan) /\ todo' = Ordered(plan) /\ pc' = "code"
      /\ UNCHANGED <<mode, repo, plan, passes, replanned, raises, machine, made, state,
                     sandbox, tree, head, checked, outcome>>
  BY DEF Order, run, disk
<1>2. todo' \in Seq(plan.items) /\ ToSet(todo') = plan.items /\ todo' # <<>>
  <2>1. plan \in Plans /\ plan.items # {}
    BY StateTypes, PlanFacts
  <2>2. todo' \in Seq(plan.items) /\ ToSet(todo') = plan.items
    BY <1>1, <2>1, OrderLength
  <2> QED
    BY <2>1, <2>2 DEF ToSet
<1>3. TypeOK'
  BY <1>1, <1>2 DEF TypeOK
<1>4. WorkFits' /\ StateFits'
  BY <1>1, <1>2 DEF WorkFits, StateFits
<1>5. PlanFits' /\ FirstFits'
  BY <1>1 DEF IInv, PlanFits, FirstFits
<1> QED
  BY <1>3, <1>4, <1>5 DEF IInv

LEMMA CodeItemKeeps ==
    ASSUME TypeOK, IInv, CodeItem
    PROVE  TypeOK' /\ IInv'
<1>0. PICK h \in Items : h = Head(todo) /\ h \in plan.items /\ h \in ToSet(todo) /\ todo # <<>>
  BY HeadFacts DEF CodeItem
<1>1. PICK d \in Diffs :
        /\ pc = "code" /\ pc' = "test"
        /\ made' = [made EXCEPT !.code[h] = d]
        /\ sandbox' = [sandbox EXCEPT ![machine].code = Written(@, h, d)]
        /\ UNCHANGED <<mode, repo, plan, passes, replanned, raises, machine, todo, state,
                       tree, head, checked, outcome>>
  BY <1>0 DEF CodeItem, run
<1>2. h \in plan.items /\ todo # <<>> /\ h \in ToSet(todo) /\ Head(todo') = h
  BY <1>0, <1>1
<1>3. /\ made.code \in [Items -> Diffs \cup {"none"}] /\ made \in Updates /\ machine \in Machines
      /\ sandbox[machine].code \in Files /\ plan.items \subseteq Items
  BY StateTypes
<1>4. /\ made' \in Updates /\ made'.code[h] = d
      /\ made'.test = made.test
      /\ \A i \in Items : i # h => made'.code[i] = made.code[i]
  BY <1>1, <1>2, <1>3 DEF Updates
<1> DEFINE new == Written(sandbox[machine].code, h, d)
<1>5. /\ new \in Files /\ Agrees(d, new[h])
      /\ \A i \in Items : i # h => new[i] = sandbox[machine].code[i]
  <2> DEFINE old == sandbox[machine].code
  <2>1. old \in Files /\ DOMAIN old = Items
    BY <1>3 DEF Files
  <2> HIDE DEF old
  <2>2. /\ \/ new = old
           \/ new = [old EXCEPT ![h] = "absent"]
           \/ d \notin {"nothing", "delete"} /\ new = [old EXCEPT ![h] = d]
        /\ Agrees(d, new[h])
        /\ \A i \in Items : i # h => new[i] = old[i]
    BY <2>1, WrittenFacts DEF old
  <2> HIDE DEF new
  <2>3. new \in Files
    BY <2>1, <2>2 DEF Files, Diffs
  <2> QED
    BY <2>2, <2>3 DEF old
<1>6. /\ sandbox' \in [Machines -> [code : Files, test : Files]]
      /\ sandbox'[machine].code = new /\ sandbox'[machine].test = sandbox[machine].test
      /\ \A m \in Machines : m # machine => sandbox'[m] = sandbox[m]
      /\ \A m \in Machines : sandbox'[m].test = sandbox[m].test
  BY <1>1, <1>3, <1>5 DEF TypeOK
<1> HIDE DEF new
<1>7. TypeOK'
  BY <1>1, <1>2, <1>4, <1>6 DEF TypeOK
<1>8. WorkFits'
  <2>1. d # "none"
    BY BuildAssumption DEF Diffs
  <2>2. Coded(made, h)'
    BY <1>1, <1>4, <1>5, <1>6, <2>1 DEF Coded
  <2>3. ASSUME NEW i \in plan.items, i \notin ToSet(todo)
        PROVE  Coded(made, i)' /\ Tested(made, i)'
    <3>1. i # h /\ i \in Items /\ Coded(made, i) /\ Tested(made, i)
      BY <1>1, <1>2, <1>3, <2>3 DEF IInv, WorkFits
    <3> QED
      BY <1>1, <1>4, <1>5, <1>6, <3>1 DEF Coded, Tested
  <2> QED
    BY <1>1, <1>2, <2>2, <2>3 DEF WorkFits
<1>9. StateFits'
  BY <1>1 DEF StateFits
<1>10. PlanFits'
  BY <1>1, <1>2, <1>4 DEF IInv, PlanFits
<1>11. FirstFits'
  BY <1>1, <1>2, <1>5, <1>6 DEF IInv, FirstFits
<1> QED
  BY <1>7, <1>8, <1>9, <1>10, <1>11 DEF IInv

LEMMA TestItemKeeps ==
    ASSUME TypeOK, IInv, TestItem
    PROVE  TypeOK' /\ IInv'
<1>0. PICK h \in Items : h = Head(todo) /\ h \in plan.items /\ h \in ToSet(todo) /\ todo # <<>>
  BY HeadFacts DEF TestItem
<1>1. PICK d \in Diffs :
        /\ pc = "test" /\ pc' = "review"
        /\ made' = [made EXCEPT !.test[h] = d]
        /\ sandbox' = [sandbox EXCEPT ![machine].test = Written(@, h, d)]
        /\ UNCHANGED <<mode, repo, plan, passes, replanned, raises, machine, todo, state,
                       tree, head, checked, outcome>>
  BY <1>0 DEF TestItem, run
<1>2. h \in plan.items /\ todo # <<>> /\ h \in ToSet(todo) /\ Head(todo') = h
  BY <1>0, <1>1
<1>3. /\ made.test \in [Items -> Diffs \cup {"none"}] /\ made \in Updates /\ machine \in Machines
      /\ sandbox[machine].test \in Files /\ plan.items \subseteq Items
  BY StateTypes
<1>4. /\ made' \in Updates /\ made'.test[h] = d
      /\ made'.code = made.code
      /\ \A i \in Items : i # h => made'.test[i] = made.test[i]
  BY <1>1, <1>2, <1>3 DEF Updates
<1> DEFINE new == Written(sandbox[machine].test, h, d)
<1>5. /\ new \in Files /\ Agrees(d, new[h])
      /\ \A i \in Items : i # h => new[i] = sandbox[machine].test[i]
  <2> DEFINE old == sandbox[machine].test
  <2>1. old \in Files /\ DOMAIN old = Items
    BY <1>3 DEF Files
  <2> HIDE DEF old
  <2>2. /\ \/ new = old
           \/ new = [old EXCEPT ![h] = "absent"]
           \/ d \notin {"nothing", "delete"} /\ new = [old EXCEPT ![h] = d]
        /\ Agrees(d, new[h])
        /\ \A i \in Items : i # h => new[i] = old[i]
    BY <2>1, WrittenFacts DEF old
  <2> HIDE DEF new
  <2>3. new \in Files
    BY <2>1, <2>2 DEF Files, Diffs
  <2> QED
    BY <2>2, <2>3 DEF old
<1>6. /\ sandbox' \in [Machines -> [code : Files, test : Files]]
      /\ sandbox'[machine].test = new /\ sandbox'[machine].code = sandbox[machine].code
      /\ \A m \in Machines : m # machine => sandbox'[m] = sandbox[m]
      /\ \A m \in Machines : sandbox'[m].code = sandbox[m].code
  BY <1>1, <1>3, <1>5 DEF TypeOK
<1> HIDE DEF new
<1>7. TypeOK'
  BY <1>1, <1>2, <1>4, <1>6 DEF TypeOK
<1>8. WorkFits'
  <2>1. Tested(made, h)'
    <3>1. d # "none"
      BY BuildAssumption DEF Diffs
    <3> QED
      BY <1>1, <1>4, <1>5, <1>6, <3>1 DEF Tested
  <2>2. Coded(made, h)'
    <3>1. Coded(made, h)
      BY <1>0, <1>1 DEF IInv, WorkFits
    <3> QED
      BY <1>1, <1>4, <1>6, <3>1 DEF Coded
  <2>3. ASSUME NEW i \in plan.items, i \notin ToSet(todo)
        PROVE  Coded(made, i)' /\ Tested(made, i)'
    <3>1. i # h /\ i \in Items /\ Coded(made, i) /\ Tested(made, i)
      BY <1>1, <1>2, <1>3, <2>3 DEF IInv, WorkFits
    <3> QED
      BY <1>1, <1>4, <1>5, <1>6, <3>1 DEF Coded, Tested
  <2> QED
    BY <1>1, <1>2, <2>1, <2>2, <2>3 DEF WorkFits
<1>9. StateFits'
  BY <1>1 DEF StateFits
<1>10. PlanFits'
  BY <1>1, <1>4 DEF IInv, PlanFits
<1>11. FirstFits'
  BY <1>1, <1>2, <1>5, <1>6 DEF IInv, FirstFits
<1> QED
  BY <1>7, <1>8, <1>9, <1>10, <1>11 DEF IInv

LEMMA ReviewItemKeeps ==
    ASSUME TypeOK, IInv, ReviewItem
    PROVE  TypeOK' /\ IInv'
<1>0. PICK h \in Items :
        /\ h = Head(todo) /\ h \in plan.items /\ todo # <<>>
        /\ Tail(todo) \in Seq(plan.items) /\ ToSet(todo) = {h} \cup ToSet(Tail(todo))
        /\ Len(todo) > 1 <=> Tail(todo) # <<>>
        /\ Tail(todo) = <<>> => ToSet(todo) = {h}
  BY HeadFacts DEF ReviewItem
<1>1. PICK r \in {"approved", "rejected"} :
        LET all == [made EXCEPT !.review[h] = r] IN
        /\ pc = "review" /\ todo' = Tail(todo)
        /\ IF Len(todo) > 1
           THEN made' = all /\ pc' = "code" /\ UNCHANGED state
           ELSE /\ state' = [code |-> Merged(state.code, all.code),
                             test |-> Merged(state.test, all.test),
                             review |-> Merged(state.review, all.review)]
                /\ made' = NoUpdates
                /\ pc' = "check"
        /\ UNCHANGED <<mode, repo, plan, passes, replanned, raises, machine,
                       sandbox, tree, head, checked, outcome>>
  BY <1>0 DEF ReviewItem, run, disk
<1> DEFINE all == [made EXCEPT !.review[h] = r]
<1>2. all \in Updates /\ all.code = made.code /\ all.test = made.test
  BY StateTypes DEF Updates
<1> HIDE DEF all
<1>3. \A i \in plan.items \ ToSet(Tail(todo)) : Coded(made, i) /\ Tested(made, i)
  BY <1>0, <1>1 DEF IInv, WorkFits
<1>4. /\ pc' \in {"code", "check"} /\ todo' = Tail(todo)
      /\ UNCHANGED <<mode, repo, plan, passes, replanned, raises, machine,
                     sandbox, tree, head, checked, outcome>>
  BY <1>1
<1>5. \/ pc' = "code" /\ todo' # <<>> /\ made' = all /\ state' = state
      \/ /\ pc' = "check" /\ todo' = <<>> /\ made' = NoUpdates
         /\ state' = [code |-> Merged(state.code, all.code),
                      test |-> Merged(state.test, all.test),
                      review |-> Merged(state.review, all.review)]
  BY <1>0, <1>1 DEF all
<1>6. PlanFits' /\ FirstFits'
  <2>1. FirstFits'
    BY <1>1, <1>4 DEF IInv, FirstFits
  <2>2. ASSUME ~replanned, NEW i \in Items \ plan.items PROVE state'.code[i] = "none" /\ made'.code[i] = "none"
    <3>1. state.code[i] = "none" /\ made.code[i] = "none"
      BY <2>2 DEF IInv, PlanFits
    <3>2. Merged(state.code, all.code)[i] = "none"
      BY <1>2, <3>1 DEF Merged
    <3> QED
      BY <1>2, <1>5, <3>1, <3>2, Constants
  <2>3. PlanFits'
    BY <1>4, <2>2 DEF IInv, PlanFits
  <2> QED
    BY <2>1, <2>3
<1>7. TypeOK' /\ WorkFits' /\ StateFits'
  <2>1. CASE pc' = "code"
    <3>1. todo' # <<>> /\ made' = all /\ state' = state
      BY <1>5, <2>1
    <3>2. TypeOK'
      BY <1>0, <1>2, <1>4, <2>1, <3>1 DEF TypeOK
    <3>3. \A i \in plan.items \ ToSet(Tail(todo)) : Coded(made, i)' /\ Tested(made, i)'
      BY <1>2, <1>3, <1>4, <3>1 DEF Coded, Tested
    <3>4. WorkFits' /\ StateFits'
      BY <1>4, <2>1, <3>3 DEF WorkFits, StateFits
    <3> QED
      BY <3>2, <3>4
  <2>2. CASE pc' = "check"
    <3>1. /\ todo' = <<>> /\ made' = NoUpdates
          /\ state'.code = Merged(state.code, made.code)
          /\ state'.test = Merged(state.test, made.test)
      BY <1>2, <1>5, <2>2
    <3>2. state' \in Updates
      <4>1. /\ Merged(state.code, all.code) \in [Items -> Diffs \cup {"none"}]
            /\ Merged(state.test, all.test) \in [Items -> Diffs \cup {"none"}]
            /\ Merged(state.review, all.review) \in [Items -> {"none", "approved", "rejected"}]
        BY <1>2, StateTypes DEF Merged, Updates
      <4> QED
        BY <1>5, <2>2, <4>1 DEF Updates
    <3>3. TypeOK'
      <4>1. todo' \in Seq(plan.items) /\ made' \in Updates
        BY <1>0, <1>4, <3>1, Constants
      <4>2. pc' \in {"code", "test", "review"} <=> todo' # <<>>
        BY <2>2, <3>1
      <4> QED
        BY <1>4, <2>2, <3>2, <4>1, <4>2 DEF TypeOK
    <3>4. ASSUME NEW i \in plan.items PROVE Coded(state, i)' /\ Tested(state, i)'
      <4>1. i \in Items /\ Coded(made, i) /\ Tested(made, i)
        BY <1>0, <1>3, <1>4, <3>1, StateTypes DEF ToSet
      <4>2. state'.code[i] = made.code[i] /\ state'.test[i] = made.test[i]
        BY <3>1, <4>1 DEF Merged, Coded, Tested
      <4> QED
        BY <1>4, <4>1, <4>2 DEF Coded, Tested
    <3>5. WorkFits' /\ StateFits'
      BY <1>4, <2>2, <3>1, <3>4 DEF WorkFits, StateFits
    <3> QED
      BY <3>3, <3>5
  <2> QED
    BY <1>4, <2>1, <2>2
<1> QED
  BY <1>6, <1>7 DEF IInv

LEMMA CheckKeeps ==
    ASSUME TypeOK, IInv, Check
    PROVE  TypeOK' /\ IInv'
<1>1. PICK ok \in BOOLEAN :
        /\ pc = "check" /\ pc' = "integrate"
        /\ checked' = [code |-> sandbox[machine].code, test |-> sandbox[machine].test,
                       tree |-> tree[machine], passed |-> ok]
        /\ UNCHANGED <<mode, repo, plan, passes, replanned, raises, machine, todo, made, state,
                       sandbox, tree, head, outcome>>
  BY DEF Check, run, disk
<1>2. TypeOK'
  BY <1>1, StateTypes DEF TypeOK
<1>3. WorkFits'
  BY <1>1 DEF IInv, WorkFits
<1>4. StateFits'
  <2>1. \A i \in plan.items : Coded(state, i)' /\ Tested(state, i)'
    BY <1>1 DEF IInv, StateFits, Coded, Tested
  <2> QED
    BY <1>1, <2>1 DEF StateFits
<1>5. PlanFits' /\ FirstFits'
  BY <1>1 DEF IInv, PlanFits, FirstFits
<1> QED
  BY <1>2, <1>3, <1>4, <1>5 DEF IInv

LEMMA IntegrateKeeps ==
    ASSUME TypeOK, IInv, Integrate
    PROVE  TypeOK' /\ IInv'
<1> DEFINE old == IF tree[machine] = NoTree THEN NoFiles ELSE tree[machine]
           files == Integrated(old)
<1>1. pc = "integrate" /\ UNCHANGED raises /\ raises' \in 0..MaxRaises
  BY DEF Integrate, TypeOK
<1>2. \/ /\ repo = "none" /\ pc' = "evaluate"
         /\ UNCHANGED <<run, machine, todo, made, state, disk, checked, outcome>>
      \/ Fails
      \/ /\ repo # "none" /\ tree' = [tree EXCEPT ![machine] = files]
         /\ head' = [head EXCEPT ![machine] = files]
         /\ pc' = "evaluate"
         /\ UNCHANGED <<run, machine, todo, made, state, sandbox, checked, outcome>>
  BY DEF Integrate
<1>3. CASE Fails
  BY <1>1, <1>3, FailsKeep
<1>4. CASE /\ repo = "none" /\ pc' = "evaluate"
           /\ UNCHANGED <<run, machine, todo, made, state, disk, checked, outcome>>
  <2>1. TypeOK'
    BY <1>1, <1>4 DEF TypeOK, run, disk
  <2>2. WorkFits' /\ PlanFits' /\ FirstFits'
    BY <1>1, <1>4 DEF IInv, WorkFits, PlanFits, FirstFits, run, disk
  <2>3. StateFits'
    <3>1. \A i \in plan.items : Coded(state, i)' /\ Tested(state, i)'
      BY <1>1, <1>4 DEF IInv, StateFits, Coded, Tested, disk
    <3>2. checked.code = sandbox[machine].code /\ checked.test = sandbox[machine].test
      BY <1>1 DEF IInv, StateFits
    <3> QED
      BY <1>4, <3>1, <3>2 DEF StateFits, run, disk
  <2> QED
    BY <2>1, <2>2, <2>3 DEF IInv
<1>5. CASE /\ repo # "none" /\ tree' = [tree EXCEPT ![machine] = files]
           /\ head' = [head EXCEPT ![machine] = files]
           /\ pc' = "evaluate"
           /\ UNCHANGED <<run, machine, todo, made, state, sandbox, checked, outcome>>
  <2>1. old \in Files /\ machine \in Machines /\ state \in Updates /\ NoTree \notin Files
    BY StateTypes, Constants
  <2>2. /\ \A i \in Items : state.code[i] = "none" => files[i] = old[i]
        /\ \A i \in Items : state.code[i] \in Texts => files[i] = state.code[i]
        /\ files \in Files
    <3> HIDE DEF old
    <3>1. DOMAIN old = Items /\ \A i \in Items : state.code[i] \in Texts \cup {"nothing", "delete", "none"}
      BY <2>1 DEF Files, Updates, Diffs
    <3>2. ASSUME NEW i \in Items
          PROVE  /\ state.code[i] = "none" => files[i] = old[i]
                 /\ state.code[i] \in Texts => files[i] = state.code[i]
                 /\ files[i] \in Texts \cup {"absent"}
      <4> DEFINE d == state.code[i]
                 new == Written(old, i, d)
      <4>1. files[i] = IF d = "none" THEN old[i] ELSE new[i]
        BY DEF Integrated
      <4>2. old[i] \in Texts \cup {"absent"}
        BY <2>1 DEF Files
      <4> HIDE DEF files, d
      <4>3. /\ new[i] \in {old[i], "absent", d}
            /\ d \in {"nothing", "delete"} => new[i] \in {old[i], "absent"}
            /\ d \in Texts => new[i] = d
        BY <3>1, Constants DEF Written
      <4>4. d \in Texts \cup {"nothing", "delete", "none"}
        BY <3>1 DEF d
      <4> HIDE DEF new
      <4> QED
        BY <4>1, <4>2, <4>3, <4>4, Constants DEF d
    <3>3. files \in Files
      <4>1. files = [i \in Items |-> files[i]]
        BY DEF Integrated
      <4> HIDE DEF files
      <4> QED
        BY <3>2, <4>1 DEF Files
    <3> QED
      BY <3>2, <3>3
  <2> HIDE DEF files
  <2>3. TypeOK'
    BY <1>1, <1>5, <2>1, <2>2 DEF TypeOK, run
  <2>4. WorkFits' /\ FirstFits'
    BY <1>1, <1>5, StateTypes DEF IInv, WorkFits, FirstFits, run
  <2>5. StateFits'
    <3>1. \A i \in plan.items : Coded(state, i)' /\ Tested(state, i)'
      BY <1>1, <1>5 DEF IInv, StateFits, Coded, Tested
    <3>2. checked.code = sandbox[machine].code /\ checked.test = sandbox[machine].test
      BY <1>1 DEF IInv, StateFits
    <3>3. head'[machine] = files /\ plan.items \subseteq Items
      BY <1>5, <2>1, StateTypes DEF TypeOK
    <3> QED
      BY <1>5, <2>1, <2>2, <3>1, <3>2, <3>3 DEF StateFits, run
  <2>6. PlanFits'
    <3> SUFFICES ASSUME ~replanned, NEW i \in Items \ plan.items
                 PROVE  /\ state.code[i] = "none" /\ made.code[i] = "none"
                        /\ \A m \in Machines : /\ tree'[m] # NoTree => tree'[m][i] = "absent"
                                               /\ head'[m] # NoTree => head'[m][i] = "absent"
      BY <1>5 DEF PlanFits, run
    <3>1. /\ state.code[i] = "none" /\ made.code[i] = "none"
          /\ \A m \in Machines : /\ tree[m] # NoTree => tree[m][i] = "absent"
                                 /\ head[m] # NoTree => head[m][i] = "absent"
      BY DEF IInv, PlanFits
    <3>2. files[i] = "absent"
      BY <2>1, <2>2, <3>1, Constants
    <3> QED
      BY <1>5, <3>1, <3>2 DEF TypeOK
  <2> QED
    BY <2>3, <2>4, <2>5, <2>6 DEF IInv
<1> QED
  BY <1>2, <1>3, <1>4, <1>5

LEMMA EvaluateKeeps ==
    ASSUME TypeOK, IInv, Evaluate
    PROVE  TypeOK' /\ IInv'
<1>1. /\ pc = "evaluate" /\ pc' = "idle" /\ outcome' \in {"passed", "failed"}
      /\ UNCHANGED <<mode, repo, plan, passes, replanned, raises, machine, todo, made, state,
                     sandbox, tree, head, checked>>
  BY DEF Evaluate, run, disk
<1>2. TypeOK'
  BY <1>1 DEF TypeOK
<1>3. WorkFits' /\ StateFits' /\ PlanFits' /\ FirstFits'
  BY <1>1 DEF IInv, WorkFits, StateFits, PlanFits, FirstFits
<1> QED
  BY <1>2, <1>3 DEF IInv

LEMMA BuildNext == TypeOK /\ IInv /\ [Next]_vars => TypeOK' /\ IInv'
<1> SUFFICES ASSUME TypeOK, IInv, [Next]_vars PROVE TypeOK' /\ IInv'
  OBVIOUS
<1>1. CASE Raise
  <2>1. pc # "idle" /\ raises' \in 0..MaxRaises /\ Fails
    BY <1>1, BuildAssumption DEF Raise, TypeOK
  <2> QED
    BY <2>1, FailsKeep
<1>2. CASE UNCHANGED vars
  BY <1>2 DEF vars, run, disk, TypeOK, IInv, WorkFits, StateFits, PlanFits, FirstFits, Coded, Tested
<1> QED
  BY <1>1, <1>2, BeginKeeps, OrderKeeps, CodeItemKeeps, TestItemKeeps, ReviewItemKeeps,
     CheckKeeps, IntegrateKeeps, EvaluateKeeps DEF Next

-----------------------------------------------------------------------------
(* The theorems.                                                             *)

(* Type correctness, the shapes of updates, files and trees included. *)
THEOREM BuildTypeOK == Spec => []TypeOK
  BY BuildInit, BuildNext, PTL DEF Spec

(* The inductive invariant: sandbox, updates, what was checked and what was  *)
(* committed fit together at every step of a pass, through calls that raise. *)
THEOREM BuildInvariant == Spec => []IInv
  BY BuildInit, BuildNext, PTL DEF Spec

(* The order of items is found whenever there is one, and then has every     *)
(* item once, after all it depends on, for every finite plan.                *)
THEOREM OrderIsTopologicalHolds == Spec => []OrderIsTopological
<1>1. TypeOK => OrderIsTopological
  BY OrderIsTopologicalFor DEF TypeOK
<1> QED
  BY <1>1, BuildTypeOK, PTL

(* The checks see the modules and tests that were reviewed.                  *)
THEOREM ChecksSeeReviewedCodeHolds == Spec => []ChecksSeeReviewedCode
<1>1. ASSUME IInv PROVE ChecksSeeReviewedCode
  <2> SUFFICES ASSUME pc = "evaluate", NEW i \in plan.items
               PROVE  /\ state.code[i] \in Texts => checked.code[i] = state.code[i]
                      /\ state.code[i] = "delete" => checked.code[i] = "absent"
                      /\ state.test[i] \in Texts => checked.test[i] = state.test[i]
                      /\ state.test[i] = "delete" => checked.test[i] = "absent"
    BY DEF ChecksSeeReviewedCode
  <2>1. /\ Coded(state, i) /\ Tested(state, i)
        /\ checked.code = sandbox[machine].code /\ checked.test = sandbox[machine].test
    BY <1>1 DEF IInv, StateFits
  <2> QED
    BY <2>1 DEF Coded, Tested, Agrees
<1> QED
  BY <1>1, BuildInvariant, PTL

(* What is committed is what was reviewed, and only that under one plan.     *)
THEOREM CommitHoldsPlanHolds == Spec => []CommitHoldsPlan
<1>1. ASSUME TypeOK, IInv PROVE CommitHoldsPlan
  BY <1>1, StateTypes DEF IInv, StateFits, PlanFits, CommitHoldsPlan
<1> QED
  BY <1>1, BuildTypeOK, BuildInvariant, PTL

(* A first pass is judged by its own files alone.                            *)
THEOREM FirstPassIsCleanHolds == Spec => []FirstPassIsClean
<1>1. ASSUME TypeOK, IInv PROVE FirstPassIsClean
  <2> SUFFICES ASSUME pc = "evaluate", passes = 1 PROVE FirstPassIsClean
    BY DEF FirstPassIsClean
  <2>1. checked.tree = NoTree /\ machine \in Machines
        /\ checked.code = sandbox[machine].code /\ checked.test = sandbox[machine].test
    BY <1>1, StateTypes DEF IInv, StateFits, FirstFits
  <2> QED
    BY <1>1, <2>1 DEF IInv, FirstFits, FirstPassIsClean
<1> QED
  BY <1>1, BuildTypeOK, BuildInvariant, PTL
=============================================================================
