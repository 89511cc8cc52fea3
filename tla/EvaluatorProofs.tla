--------------------------- MODULE EvaluatorProofs ---------------------------
(* Proofs about Evaluator, for all marks and overall scores a judge may give *)
(* and all numbers of completions and of re-asks.                            *)
EXTENDS Evaluator, FiniteSetTheorems, WellFoundedInduction, TLAPS

-----------------------------------------------------------------------------
(* Sums.  Total goes through the keys in an order of its own, as a recursive *)
(* function on the sets of keys that are left.  For finitely many keys there *)
(* is such a function.                                                       *)

(* The sets among T that hold no other one of them. *)
Minimal(T) == {r \in T : \A q \in T : q \subseteq r => q = r}

LEMMA MinimalSubset ==
    ASSUME NEW S, IsFiniteSet(S), NEW T \in SUBSET SUBSET S, T # {}
    PROVE  Minimal(T) # {}
<1>1. T \subseteq FiniteSubsetsOf(S)
  BY FS_Subset DEF FiniteSubsetsOf
<1>2. PICK r \in T : \A q \in T : ~(<<q, r>> \in StrictSubsetOrdering(S))
  BY <1>1, FS_StrictSubsetOrderingWellFounded, WFMin
<1> QED
  BY <1>2 DEF StrictSubsetOrdering, Minimal

Taken(s) == CHOOSE key \in s : TRUE

Rest(s) == s \ {Taken(s)}

(* The sum of s, when that of the rest is known. *)
Sum(scores, s, rest) == IF s = {} THEN 0 ELSE scores[Taken(s)] + rest

Adds(sum, scores, S) == sum = [s \in SUBSET S |-> Sum(scores, s, sum[Rest(s)])]

LEMMA TotalUnfolds ==
    ASSUME NEW scores
    PROVE  Total(scores) = (CHOOSE sum : Adds(sum, scores, DOMAIN scores))[DOMAIN scores]
BY DEF Total, FoldFunction, FoldFunctionOnSet, MapThenFoldSet, Adds, Sum, Rest, Taken

LEMMA TakenFacts ==
    ASSUME NEW s, s # {}
    PROVE  Taken(s) \in s /\ Rest(s) \subseteq s /\ Rest(s) # s
BY DEF Taken, Rest

LEMMA SumsUnique ==
    ASSUME NEW scores, NEW f, NEW g, NEW r, NEW q, IsFiniteSet(r), IsFiniteSet(q),
           Adds(f, scores, r), Adds(g, scores, q), NEW s \in SUBSET (r \cap q)
    PROVE  f[s] = g[s]
<1> DEFINE T == {t \in SUBSET (r \cap q) : f[t] # g[t]}
<1> SUFFICES ASSUME T # {} PROVE FALSE
  OBVIOUS
<1>1. PICK t \in T : \A u \in T : u \subseteq t => u = t
  <2>1. T \in SUBSET SUBSET r
    OBVIOUS
  <2> HIDE DEF T
  <2>2. Minimal(T) # {}
    BY <2>1, MinimalSubset
  <2> QED
    BY <2>2 DEF Minimal
<1>2. /\ f[t] = Sum(scores, t, f[Rest(t)])
      /\ g[t] = Sum(scores, t, g[Rest(t)])
  <2>1. t \in SUBSET r /\ t \in SUBSET q
    BY <1>1
  <2> HIDE DEF T
  <2> QED
    BY <2>1 DEF Adds
<1>3. t # {}
  BY <1>1, <1>2 DEF Sum
<1>4. f[Rest(t)] = g[Rest(t)]
  BY <1>1, <1>3, TakenFacts
<1> QED
  BY <1>1, <1>2, <1>4

LEMMA SumsExist ==
    ASSUME NEW scores, NEW S, IsFiniteSet(S)
    PROVE  \E f : Adds(f, scores, S)
<1> DEFINE T == {r \in SUBSET S : ~\E f : Adds(f, scores, r)}
<1> SUFFICES ASSUME T # {} PROVE FALSE
  <2>1. S \in SUBSET S
    OBVIOUS
  <2> QED
    BY <2>1
<1>1. PICK r \in T : \A q \in T : q \subseteq r => q = r
  <2>1. T \in SUBSET SUBSET S
    OBVIOUS
  <2> HIDE DEF T
  <2>2. Minimal(T) # {}
    BY <2>1, MinimalSubset
  <2> QED
    BY <2>2 DEF Minimal
<1> DEFINE on(q) == CHOOSE f : Adds(f, scores, q)
           value(q) == on(q)[q]
           f == [q \in SUBSET r |-> Sum(scores, q, value(Rest(q)))]
<1>2. ASSUME NEW q \in SUBSET r, q # r PROVE Adds(on(q), scores, q)
  <2>1. \E g : Adds(g, scores, q)
    BY <1>1, <1>2
  <2> QED
    BY <2>1
<1>3. ASSUME NEW q \in SUBSET r, q # r PROVE f[q] = value(q)
  <2>1. value(q) = Sum(scores, q, on(q)[Rest(q)])
    <3>1. q \in SUBSET q
      OBVIOUS
    <3> HIDE DEF on
    <3> QED
      BY <1>2, <1>3, <3>1 DEF Adds
  <2>2. q # {} => on(q)[Rest(q)] = value(Rest(q))
    <3> SUFFICES ASSUME q # {} PROVE on(q)[Rest(q)] = value(Rest(q))
      OBVIOUS
    <3>1. Rest(q) \in SUBSET q /\ Rest(q) \in SUBSET r /\ Rest(q) # r
      BY <1>3, TakenFacts
    <3>2. /\ Adds(on(q), scores, q) /\ Adds(on(Rest(q)), scores, Rest(q))
          /\ IsFiniteSet(q) /\ IsFiniteSet(Rest(q))
      BY <1>1, <1>2, <1>3, <3>1, FS_Subset
    <3>3. Rest(q) \in SUBSET (q \cap Rest(q))
      BY <3>1
    <3>4. \A f1, g1 : Adds(f1, scores, q) /\ Adds(g1, scores, Rest(q))
                     => f1[Rest(q)] = g1[Rest(q)]
      BY <3>2, <3>3, SumsUnique
    <3> HIDE DEF on
    <3> QED
      BY <3>2, <3>4
  <2> HIDE DEF value, on
  <2> QED
    BY <2>1, <2>2 DEF Sum
<1>4. ASSUME NEW q \in SUBSET r
      PROVE  Sum(scores, q, value(Rest(q))) = Sum(scores, q, f[Rest(q)])
  <2>1. CASE q = {}
    BY <2>1 DEF Sum
  <2>2. CASE q # {}
    <3>1. Rest(q) \in SUBSET r /\ Rest(q) # r
      BY <2>2, TakenFacts
    <3>2. f[Rest(q)] = value(Rest(q))
      <4> HIDE DEF f, value
      <4> QED
        BY <1>3, <3>1
    <3> HIDE DEF f, value
    <3> QED
      BY <3>2
  <2> QED
    BY <2>1, <2>2
<1>5. Adds(f, scores, r)
  <2>1. f = [q \in SUBSET r |-> Sum(scores, q, f[Rest(q)])]
    <3>1. [q \in SUBSET r |-> Sum(scores, q, value(Rest(q)))]
            = [q \in SUBSET r |-> Sum(scores, q, f[Rest(q)])]
      <4> HIDE DEF f, value
      <4> QED
        BY <1>4
    <3> QED
      BY <3>1
  <2> HIDE DEF f
  <2> QED
    BY <2>1 DEF Adds
<1> HIDE DEF f
<1> QED
  BY <1>1, <1>5

(* Total, unfolded once and for all. *)
LEMMA TotalAdds ==
    ASSUME NEW S, IsFiniteSet(S), NEW scores \in [S -> Nat]
    PROVE  \E sum : /\ Total(scores) = sum[S]
                    /\ sum[{}] = 0
                    /\ \A s \in SUBSET S :
                          s # {} => sum[s] = scores[Taken(s)] + sum[Rest(s)]
<1> DEFINE sum == CHOOSE g : Adds(g, scores, S)
<1>1. Adds(sum, scores, S)
  BY SumsExist
<1>2. Total(scores) = sum[S]
  BY TotalUnfolds
<1> HIDE DEF sum
<1>3. \A s \in SUBSET S : sum[s] = Sum(scores, s, sum[Rest(s)])
  BY <1>1 DEF Adds
<1> QED
  BY <1>2, <1>3 DEF Sum

(* Who gives every key at least as much has at least as much in all. *)
LEMMA TotalMonotone ==
    ASSUME NEW S, IsFiniteSet(S), NEW low \in [S -> Nat], NEW high \in [S -> Nat],
           \A key \in S : low[key] <= high[key]
    PROVE  Total(low) \in Nat /\ Total(high) \in Nat /\ Total(low) <= Total(high)
<1>1. PICK l : /\ Total(low) = l[S] /\ l[{}] = 0
               /\ \A s \in SUBSET S : s # {} => l[s] = low[Taken(s)] + l[Rest(s)]
  BY TotalAdds
<1>2. PICK h : /\ Total(high) = h[S] /\ h[{}] = 0
               /\ \A s \in SUBSET S : s # {} => h[s] = high[Taken(s)] + h[Rest(s)]
  BY TotalAdds
<1> DEFINE T == {s \in SUBSET S : ~(l[s] \in Nat /\ h[s] \in Nat /\ l[s] <= h[s])}
<1> SUFFICES ASSUME T # {} PROVE FALSE
  <2>1. S \in SUBSET S
    OBVIOUS
  <2> QED
    BY <1>1, <1>2, <2>1
<1>3. PICK t \in T : \A u \in T : u \subseteq t => u = t
  <2>1. T \in SUBSET SUBSET S
    OBVIOUS
  <2> HIDE DEF T
  <2>2. Minimal(T) # {}
    BY <2>1, MinimalSubset
  <2> QED
    BY <2>2 DEF Minimal
<1>4. t # {}
  <2>1. ~(l[t] \in Nat /\ h[t] \in Nat /\ l[t] <= h[t])
    BY <1>3
  <2>2. l[{}] \in Nat /\ h[{}] \in Nat /\ l[{}] <= h[{}]
    BY <1>1, <1>2
  <2> QED
    BY <2>1, <2>2
<1>5. /\ Taken(t) \in S /\ Rest(t) \in SUBSET S
      /\ l[Rest(t)] \in Nat /\ h[Rest(t)] \in Nat /\ l[Rest(t)] <= h[Rest(t)]
  BY <1>3, <1>4, TakenFacts
<1>6. /\ l[t] = low[Taken(t)] + l[Rest(t)] /\ h[t] = high[Taken(t)] + h[Rest(t)]
      /\ low[Taken(t)] \in Nat /\ high[Taken(t)] \in Nat /\ low[Taken(t)] <= high[Taken(t)]
  <2>1. t \in SUBSET S
    BY <1>3
  <2> HIDE DEF T
  <2> QED
    BY <1>1, <1>2, <1>4, <1>5, <2>1
<1>7. l[t] \in Nat /\ h[t] \in Nat /\ l[t] <= h[t]
  <2> HIDE DEF T
  <2> QED
    BY <1>5, <1>6
<1> QED
  BY <1>3, <1>7

(* The sum of up to three scores. *)

(* What key adds, if it is in s. *)
Share(scores, s, key) == IF key \in s THEN scores[key] ELSE 0

LEMMA TotalOfThree ==
    ASSUME NEW a, NEW b, NEW c, a # b, a # c, b # c,
           NEW S \in SUBSET {a, b, c}, NEW scores \in [S -> Nat]
    PROVE  Total(scores) = Share(scores, S, a) + Share(scores, S, b) + Share(scores, S, c)
<1> DEFINE v(s, key) == Share(scores, s, key)
<1>1. \A s \in SUBSET S : v(s, a) \in Nat /\ v(s, b) \in Nat /\ v(s, c) \in Nat
  BY DEF Share
<1>2. ASSUME NEW s \in SUBSET S, s # {}
      PROVE  /\ Taken(s) \in s
             /\ s \ {Taken(s)} \in SUBSET S
             /\ v(s, a) + v(s, b) + v(s, c)
                  = scores[Taken(s)]
                    + (v(s \ {Taken(s)}, a) + v(s \ {Taken(s)}, b) + v(s \ {Taken(s)}, c))
  <2>1. Taken(s) \in s
    BY <1>2 DEF Taken
  <2> DEFINE k == Taken(s)
  <2> HIDE DEF k
  <2>2. k \in s /\ k \in {a, b, c} /\ scores[k] \in Nat
    BY <2>1 DEF k
  <2>3. /\ v(s, k) = scores[k] /\ v(s \ {k}, k) = 0
        /\ \A key \in {a, b, c} : key # k => v(s \ {k}, key) = v(s, key)
    BY <2>2 DEF Share
  <2> HIDE DEF v
  <2>4. CASE k = a
    BY <1>1, <2>2, <2>3, <2>4 DEF k
  <2>5. CASE k = b
    BY <1>1, <2>2, <2>3, <2>5 DEF k
  <2>6. CASE k = c
    BY <1>1, <2>2, <2>3, <2>6 DEF k
  <2> QED
    BY <2>1, <2>2, <2>4, <2>5, <2>6 DEF k
<1>3. IsFiniteSet(S)
  <2>1. IsFiniteSet({a})
    BY FS_Singleton
  <2>2. IsFiniteSet({a} \cup {b})
    BY <2>1, FS_AddElement
  <2>3. IsFiniteSet({a} \cup {b} \cup {c})
    BY <2>2, FS_AddElement
  <2> QED
    BY <2>3, FS_Subset
<1>4. \E sum : /\ Total(scores) = sum[S] /\ sum[{}] = 0
               /\ \A s \in SUBSET S : s # {} => sum[s] = scores[Taken(s)] + sum[Rest(s)]
  BY <1>3, TotalAdds
<1>5. PICK sum : /\ Total(scores) = sum[S] /\ sum[{}] = 0
                 /\ \A s \in SUBSET S :
                       s # {} => sum[s] = scores[Taken(s)] + sum[s \ {Taken(s)}]
  BY <1>4 DEF Rest
<1> DEFINE Right(s) == sum[s] = v(s, a) + v(s, b) + v(s, c)
<1>6. ASSUME NEW s \in SUBSET S, s # {}, Right(s \ {Taken(s)})
      PROVE  Right(s)
  BY <1>2, <1>5, <1>6
<1>7. Right({})
  BY <1>5 DEF Share
<1> HIDE DEF Right
<1>8. \A k \in S : Right({k})
  <2> SUFFICES ASSUME NEW k \in S PROVE Right({k})
    OBVIOUS
  <2>1. Taken({k}) = k /\ {k} \ {Taken({k})} = {}
    BY DEF Taken
  <2> QED
    BY <1>6, <1>7, <2>1
<1>9. \A k, l \in S : Right({k, l})
  <2> SUFFICES ASSUME NEW k \in S, NEW l \in S PROVE Right({k, l})
    OBVIOUS
  <2>1. Taken({k, l}) \in {k, l}
    BY DEF Taken
  <2>2. \/ {k, l} \ {Taken({k, l})} = {}
        \/ {k, l} \ {Taken({k, l})} = {k}
        \/ {k, l} \ {Taken({k, l})} = {l}
    BY <2>1
  <2>3. Right({k, l} \ {Taken({k, l})})
    BY <1>7, <1>8, <2>2
  <2> QED
    BY <1>6, <2>3
<1>10. \A k, l, m \in S : Right({k, l, m})
  <2> SUFFICES ASSUME NEW k \in S, NEW l \in S, NEW m \in S PROVE Right({k, l, m})
    OBVIOUS
  <2> DEFINE s == {k, l, m}
  <2>1. Taken(s) \in s
    BY DEF Taken
  <2>2. \E x, y \in S : s \ {Taken(s)} = {} \/ s \ {Taken(s)} = {x, y}
    <3>1. CASE Taken(s) = k
      <4>1. s \ {k} \in {{}, {l, m}, {l, l}, {m, m}}
        OBVIOUS
      <4> QED
        BY <3>1, <4>1
    <3>2. CASE Taken(s) = l
      <4>1. s \ {l} \in {{}, {k, m}, {k, k}, {m, m}}
        OBVIOUS
      <4> QED
        BY <3>2, <4>1
    <3>3. CASE Taken(s) = m
      <4>1. s \ {m} \in {{}, {k, l}, {k, k}, {l, l}}
        OBVIOUS
      <4> QED
        BY <3>3, <4>1
    <3> QED
      BY <2>1, <3>1, <3>2, <3>3
  <2>3. Right(s \ {Taken(s)})
    BY <1>7, <1>9, <2>2
  <2> QED
    BY <1>6, <2>3
<1>11. Right(S)
  <2>1. CASE S = {}
    BY <1>7, <2>1
  <2>2. CASE S # {}
    <3>1. PICK k \in S : TRUE
      BY <2>2
    <3> DEFINE x(key) == IF key \in S THEN key ELSE k
    <3>2. x(a) \in S /\ x(b) \in S /\ x(c) \in S /\ S = {x(a), x(b), x(c)}
      BY <3>1
    <3> QED
      BY <1>10, <3>2
  <2> QED
    BY <2>1, <2>2
<1> QED
  BY <1>5, <1>11 DEF Right

-----------------------------------------------------------------------------
(* The two verdicts on a scorecard.                                          *)

(* A rubric has two keys or three; for two c is something else.              *)
LEMMA RubricSizes ==
    ASSUME NEW p \in Phases
    PROVE  \E a, b, c : /\ a # b /\ a # c /\ b # c
                        /\ \/ Rubric(p) = {a, b} /\ Cardinality(Rubric(p)) = 2
                           \/ Rubric(p) = {a, b, c} /\ Cardinality(Rubric(p)) = 3
<1>1. \A a, b : a # b => IsFiniteSet({a, b}) /\ Cardinality({a, b}) = 2
  <2> SUFFICES ASSUME NEW a, NEW b, a # b PROVE IsFiniteSet({a, b}) /\ Cardinality({a, b}) = 2
    OBVIOUS
  <2>1. IsFiniteSet({a}) /\ Cardinality({a}) = 1
    BY FS_Singleton
  <2>2. {a, b} = {a} \cup {b}
    OBVIOUS
  <2> QED
    BY <2>1, <2>2, FS_AddElement
<1>2. \A a, b, c : a # b /\ a # c /\ b # c => Cardinality({a, b, c}) = 3
  <2> SUFFICES ASSUME NEW a, NEW b, NEW c, a # b, a # c, b # c PROVE Cardinality({a, b, c}) = 3
    OBVIOUS
  <2>1. IsFiniteSet({a, b}) /\ Cardinality({a, b}) = 2
    BY <1>1
  <2>2. {a, b, c} = {a, b} \cup {c}
    OBVIOUS
  <2> QED
    BY <2>1, <2>2, FS_AddElement
<1>3. CASE p \in {"requirements", "build"}
  BY <1>2, <1>3 DEF Rubric
<1>4. CASE p \in {"design", "test_eval", "deploy"}
  <2>1. \E a, b : a # b /\ a # "third" /\ b # "third" /\ Rubric(p) = {a, b}
    <3>1. CASE p = "design"
      BY <3>1, Rubric(p) = {"traceability", "dag"} DEF Rubric
    <3>2. CASE p = "test_eval"
      BY <3>2, Rubric(p) = {"quality", "coverage"} DEF Rubric
    <3>3. CASE p = "deploy"
      BY <3>3, Rubric(p) = {"deployment", "soak"} DEF Rubric
    <3> QED
      BY <1>4, <3>1, <3>2, <3>3
  <2>2. PICK a, b : a # b /\ a # "third" /\ b # "third" /\ Rubric(p) = {a, b}
    BY <2>1
  <2>3. Cardinality(Rubric(p)) = 2
    BY <1>1, <2>2
  <2> QED
    BY <2>2, <2>3
<1> QED
  BY <1>3, <1>4 DEF Phases

LEMMA RubricFinite ==
    ASSUME NEW p \in Phases
    PROVE  IsFiniteSet(Rubric(p))
<1>1. PICK a, b, c : Rubric(p) = {a, b} \/ Rubric(p) = {a, b, c}
  BY RubricSizes
<1>2. IsFiniteSet({a})
  BY FS_Singleton
<1>3. IsFiniteSet({a} \cup {b})
  BY <1>2, FS_AddElement
<1>4. IsFiniteSet({a} \cup {b} \cup {c})
  BY <1>3, FS_AddElement
<1>5. {a} \cup {b} = {a, b} /\ {a} \cup {b} \cup {c} = {a, b, c}
  OBVIOUS
<1> QED
  BY <1>1, <1>3, <1>4, <1>5

(* Scores of a rubric's keys that are 100 at most, one of them 0, do not pass. *)
LEMMA BrokenDoesNotPass ==
    ASSUME NEW p \in Phases, NEW scores \in [Rubric(p) -> Nat],
           \A key \in Rubric(p) : scores[key] <= 100,
           NEW k \in Rubric(p), scores[k] = 0
    PROVE  ~Passes(scores)
<1>1. PICK a, b, c : /\ a # b /\ a # c /\ b # c
                     /\ \/ Rubric(p) = {a, b} /\ Cardinality(Rubric(p)) = 2
                        \/ Rubric(p) = {a, b, c} /\ Cardinality(Rubric(p)) = 3
  BY RubricSizes
<1> DEFINE v(key) == Share(scores, Rubric(p), key)
<1>2. Total(scores) = v(a) + v(b) + v(c)
  BY <1>1, TotalOfThree
<1>3. /\ \A key \in {a, b, c} : v(key) \in 0..100
      /\ k \in {a, b, c} /\ v(k) = 0
      /\ c \notin Rubric(p) => v(c) = 0 /\ k # c
  BY <1>1 DEF Share
<1> HIDE DEF v
<1>4. CASE c \notin Rubric(p)
  <2>1. Total(scores) \in 0..100 /\ Cardinality(DOMAIN scores) = 2
    BY <1>1, <1>2, <1>3, <1>4
  <2> QED
    BY <2>1 DEF Passes, Threshold
<1>5. CASE c \in Rubric(p)
  <2>1. Total(scores) \in 0..200 /\ Cardinality(DOMAIN scores) = 3
    BY <1>1, <1>2, <1>3, <1>5
  <2> QED
    BY <2>1 DEF Passes, Threshold
<1> QED
  BY <1>4, <1>5

(* Scores of a rubric that are all 100 pass. *)
LEMMA FullMarksPass ==
    ASSUME NEW p \in Phases, NEW scores \in [Rubric(p) -> Nat],
           \A key \in Rubric(p) : scores[key] = 100
    PROVE  Passes(scores)
<1>1. PICK a, b, c : /\ a # b /\ a # c /\ b # c
                     /\ \/ Rubric(p) = {a, b} /\ Cardinality(Rubric(p)) = 2
                        \/ Rubric(p) = {a, b, c} /\ Cardinality(Rubric(p)) = 3
  BY RubricSizes
<1> DEFINE v(key) == Share(scores, Rubric(p), key)
<1>2. Total(scores) = v(a) + v(b) + v(c)
  BY <1>1, TotalOfThree
<1>3. v(a) = 100 /\ v(b) = 100 /\ v(c) = IF c \in Rubric(p) THEN 100 ELSE 0
  BY <1>1 DEF Share
<1> HIDE DEF v
<1>4. a \in DOMAIN scores /\ scores # NoScores
  BY <1>1 DEF NoScores
<1>5. CASE c \notin Rubric(p)
  <2>1. Total(scores) = 200 /\ Cardinality(DOMAIN scores) = 2
    BY <1>1, <1>2, <1>3, <1>5
  <2> QED
    BY <1>4, <2>1 DEF Passes, Threshold
<1>6. CASE c \in Rubric(p)
  <2>1. Total(scores) = 300 /\ Cardinality(DOMAIN scores) = 3
    BY <1>1, <1>2, <1>3, <1>6
  <2> QED
    BY <1>4, <2>1 DEF Passes, Threshold
<1> QED
  BY <1>5, <1>6

(* Who gives every key at least as much passes what the other passes. *)
LEMMA PassesMonotone ==
    ASSUME NEW S, IsFiniteSet(S), NEW low \in [S -> Nat], NEW high \in [S -> Nat],
           \A key \in S : low[key] <= high[key],
           Passes(low)
    PROVE  Passes(high)
<1>1. Total(low) \in Nat /\ Total(high) \in Nat /\ Total(low) <= Total(high)
  BY TotalMonotone
<1>2. DOMAIN low = S /\ DOMAIN high = S /\ Cardinality(S) \in Nat
  BY FS_CardinalityType
<1>3. high # NoScores
  BY <1>2 DEF Passes, NoScores
<1> QED
  BY <1>1, <1>2, <1>3 DEF Passes, Threshold

-----------------------------------------------------------------------------
(* The invariant.                                                            *)

LEMMA PhaseFacts ==
    ASSUME NEW p \in Phases
    PROVE  /\ NoScores \in ScoreSets(p)
           /\ MockVerdict(p).scores \in ScoreSets(p)
           /\ MockVerdict(p).overall \in Nat
           /\ \A v \in Verdicts(p) : v.scores \in ScoreSets(p) /\ v.overall \in Nat
           /\ \A e \in Evidence(p) : e \in [Rubric(p) -> {0, 100}]
           /\ Rubric(p) # {}
<1>1. NoScores \in ScoreSets(p)
  <2>1. NoScores \in [{} -> Nat] /\ {} \in SUBSET (Rubric(p) \cup ExtraKeys)
    BY DEF NoScores
  <2> QED
    BY <2>1 DEF ScoreSets
<1>2. MockVerdict(p).scores \in ScoreSets(p)
  <2>1. MockVerdict(p).scores \in [Rubric(p) -> Nat]
    BY DEF MockVerdict
  <2> QED
    BY <2>1 DEF ScoreSets
<1>3. ASSUME NEW v \in Verdicts(p) PROVE v.scores \in ScoreSets(p) /\ v.overall \in Nat
  <2>1. PICK keys \in SUBSET (Rubric(p) \cup ExtraKeys) : v.scores \in [keys -> Marks]
    BY DEF Verdicts
  <2>2. v.scores \in [keys -> Nat] /\ v.overall \in Nat
    BY <2>1, EvaluatorAssumption DEF Verdicts
  <2> QED
    BY <2>2 DEF ScoreSets
<1>4. MockVerdict(p).overall \in Nat
  BY DEF MockVerdict
<1> QED
  BY <1>1, <1>2, <1>3, <1>4 DEF Evidence, Rubric, Phases

(* A scorecard is never the missing one, and says where it comes from. *)
LEMMA ScorecardFacts ==
    ASSUME CountsFit, NEW v
    PROVE  /\ ChecksOnly # NoCard
           /\ Scorecard(v) # NoCard
           /\ Scorecard(v) = ChecksOnly
              \/ Scorecard(v) = [scores |-> Combined(v.scores), flagged |-> FALSE]
<1>1. \A flag : [scores |-> Combined(v.scores), flagged |-> flag] # NoCard
  <2>1. PICK key \in Rubric(phase) : TRUE
    BY PhaseFacts DEF CountsFit
  <2>2. key \in DOMAIN Combined(v.scores)
    BY <2>1 DEF Combined
  <2> QED
    BY <2>2 DEF NoCard, NoScores
<1>2. ChecksOnly # NoCard
  BY DEF ChecksOnly, NoCard
<1> QED
  BY <1>1, <1>2 DEF Scorecard

LEMMA EvaluatorInit == Init => IInv
<1> SUFFICES ASSUME Init PROVE IInv
  OBVIOUS
<1>1. CountsFit
  BY PhaseFacts, EvaluatorAssumption DEF Init, CountsFit, NoVerdict
<1>2. CallsFit /\ CardFits
  BY EvaluatorAssumption DEF Init, CallsFit, CardFits
<1>3. SpendIsBounded
  BY EvaluatorAssumption DEF Init, SpendIsBounded
<1> QED
  BY <1>1, <1>2, <1>3 DEF IInv

(* What a completion adds still fits in what a full call may cost. *)
LEMMA OneMore ==
    ASSUME IInv, card = NoCard
    PROVE  /\ spent + 1 \in Nat
           /\ spent + 1 <= Completions * verdicts + (asked + 1)
           /\ spent + 1 <= Completions * (verdicts + 1)
           /\ spent + 1 <= Completions * (ReAsks + 1)
<1>1. /\ spent \in Nat /\ asked \in 0..(Completions - 1) /\ verdicts \in Nat
      /\ spent <= Completions * verdicts + asked /\ verdicts + 1 <= ReAsks + 1
      /\ Completions \in Nat /\ ReAsks \in Nat
  BY EvaluatorAssumption DEF IInv, CountsFit, CallsFit
<1>2. Completions * (verdicts + 1) = Completions * verdicts + Completions
  BY <1>1
<1>3. Completions * (verdicts + 1) <= Completions * (ReAsks + 1)
  BY <1>1
<1>4. Completions * verdicts \in Nat /\ Completions * (ReAsks + 1) \in Nat
  BY <1>1
<1> QED
  BY <1>1, <1>2, <1>3, <1>4

LEMMA AnswerKeeps ==
    ASSUME IInv, card = NoCard, NEW v, v.scores \in ScoreSets(phase), v.overall \in Nat,
           Answer(v)
    PROVE  IInv'
<1>1. /\ verdicts' = verdicts + 1 /\ best' = Better(v) /\ asked' = 0 /\ spent' = spent + 1
      /\ card' = (IF AsksAgain(v) THEN NoCard ELSE Scorecard(Better(v)))
      /\ UNCHANGED <<phase, evidence>>
  BY DEF Answer
<1>2. CountsFit /\ CallsFit /\ verdicts <= ReAsks
  BY DEF IInv, CallsFit
<1>3. CountsFit'
  <2>1. Better(v).scores \in ScoreSets(phase) /\ Better(v).overall \in Nat
    BY <1>2 DEF Better, CountsFit
  <2>2. 0 \in 0..(Completions - 1) /\ spent + 1 \in Nat /\ verdicts + 1 \in Nat
    BY <1>2, OneMore, EvaluatorAssumption DEF CountsFit
  <2> QED
    BY <1>1, <1>2, <2>1, <2>2 DEF CountsFit
<1>4. CallsFit'
  <2>1. card' = NoCard => verdicts < ReAsks
    BY <1>1, <1>2, ScorecardFacts DEF AsksAgain
  <2>2. verdicts < ReAsks => verdicts + 1 <= ReAsks
    BY <1>2, EvaluatorAssumption DEF CountsFit
  <2>3. Completions * (verdicts + 1) \in Nat
    BY <1>2, EvaluatorAssumption DEF CountsFit
  <2> QED
    BY <1>1, <1>2, <2>1, <2>2, <2>3, OneMore DEF CallsFit
<1>5. CardFits'
  <2>1. ChecksOnly' = ChecksOnly /\ Combined(best.scores)' = Combined(Better(v).scores)
    BY <1>1 DEF ChecksOnly, Combined, Checked
  <2>2. ~AsksAgain(v) => Broken \/ Better(v).overall >= Threshold \/ verdicts + 1 = ReAsks + 1
    <3>1. Better(v).overall >= v.overall /\ Better(v).overall \in Nat
      BY <1>2 DEF Better, CountsFit
    <3>2. \A key \in Rubric(phase) : evidence[key] \in {0, 100}
      BY <1>2, PhaseFacts DEF CountsFit
    <3>3. verdicts \in Nat /\ ReAsks \in Nat
      BY <1>2, EvaluatorAssumption DEF CountsFit
    <3>4. ~Broken => \A key \in Rubric(phase) : evidence[key] = 100
      BY <3>2 DEF Broken
    <3> QED
      BY <1>2, <3>1, <3>3, <3>4 DEF AsksAgain, Threshold
  <2>3. Broken' = Broken
    BY <1>1 DEF Broken
  <2> QED
    BY <1>1, <2>1, <2>2, <2>3, ScorecardFacts, <1>2 DEF CardFits
<1>6. SpendIsBounded'
  BY <1>1, OneMore DEF SpendIsBounded
<1> QED
  BY <1>3, <1>4, <1>5, <1>6 DEF IInv

LEMMA FailKeeps ==
    ASSUME IInv, card = NoCard, NEW fallback, Fail(fallback)
    PROVE  IInv'
<1>1. /\ spent' = spent + 1 /\ UNCHANGED <<phase, evidence, verdicts, best>>
      /\ \/ asked + 1 < Completions /\ asked' = asked + 1 /\ UNCHANGED card
         \/ card' = ChecksOnly /\ UNCHANGED asked
  BY DEF Fail
<1>2. CountsFit /\ CallsFit /\ verdicts <= ReAsks
  BY DEF IInv, CallsFit
<1>3. CountsFit'
  <2>1. asked' \in 0..(Completions - 1)
    BY <1>1, <1>2, EvaluatorAssumption DEF CountsFit
  <2> QED
    BY <1>1, <1>2, <2>1, OneMore DEF CountsFit
<1>4. CallsFit'
  BY <1>1, <1>2, OneMore, ScorecardFacts DEF CallsFit
<1>5. CardFits'
  <2>1. ChecksOnly' = ChecksOnly
    BY <1>1 DEF ChecksOnly
  <2> QED
    BY <1>1, <2>1 DEF CardFits
<1>6. SpendIsBounded'
  BY <1>1, OneMore DEF SpendIsBounded
<1> QED
  BY <1>3, <1>4, <1>5, <1>6 DEF IInv

LEMMA EvaluatorNext == IInv /\ [Next]_vars => IInv'
<1> SUFFICES ASSUME IInv, [Next]_vars PROVE IInv'
  OBVIOUS
<1>1. phase \in Phases
  BY DEF IInv, CountsFit
<1>2. CASE Judge
  BY <1>1, <1>2, AnswerKeeps, FailKeeps, PhaseFacts DEF Judge
<1>3. CASE MockJudge
  BY <1>1, <1>3, AnswerKeeps, PhaseFacts DEF MockJudge
<1>4. CASE UNCHANGED vars
  BY <1>4 DEF vars, IInv, CountsFit, CallsFit, CardFits, SpendIsBounded,
              ChecksOnly, Combined, Checked, Broken
<1> QED
  BY <1>2, <1>3, <1>4 DEF Next

(* The inductive invariant: what the completions so far have cost, and that  *)
(* a scorecard is the checks alone or what they and the best verdict give.   *)
THEOREM EvaluatorInvariant == Spec => []IInv
  BY EvaluatorInit, EvaluatorNext, PTL DEF Spec

(* Repairs and re-asks stay within their product.                            *)
THEOREM SpendIsBoundedHolds == Spec => []SpendIsBounded
<1>1. IInv => SpendIsBounded
  BY DEF IInv
<1> QED
  BY <1>1, EvaluatorInvariant, PTL

(* A phase whose checks passed fails on the judge's word only, after all the *)
(* verdicts there can be or under a high overall score: a judge that fails   *)
(* in any call does not fail it.                                             *)
THEOREM DoubtNeedsAllVerdictsHolds == Spec => []DoubtNeedsAllVerdicts
<1>1. ASSUME IInv PROVE DoubtNeedsAllVerdicts
  <2> SUFFICES ASSUME card # NoCard, ~Broken, ~Passes(card.scores)
               PROVE  verdicts = ReAsks + 1 \/ best.overall >= Threshold
    BY DEF DoubtNeedsAllVerdicts
  <2>1. CASE card = ChecksOnly
    <3>1. phase \in Phases /\ evidence \in [Rubric(phase) -> {0, 100}]
      BY <1>1, PhaseFacts DEF IInv, CountsFit
    <3>2. evidence \in [Rubric(phase) -> Nat] /\ \A key \in Rubric(phase) : evidence[key] = 100
      BY <3>1 DEF Broken
    <3>3. Passes(evidence)
      BY <3>1, <3>2, FullMarksPass
    <3> QED
      BY <2>1, <3>3 DEF ChecksOnly
  <2>2. CASE card # ChecksOnly
    BY <1>1, <2>2 DEF IInv, CardFits
  <2> QED
    BY <2>1, <2>2
<1> QED
  BY <1>1, EvaluatorInvariant, PTL

(* What the checks and a verdict within the rubric give. *)
LEMMA CombinedFacts ==
    ASSUME IInv, KeptToRubric
    PROVE  /\ evidence \in [Rubric(phase) -> Nat]
           /\ \A key \in Rubric(phase) : evidence[key] <= 100
           /\ best.scores \in [DOMAIN best.scores -> Nat]
           /\ Combined(best.scores) \in [Rubric(phase) -> Nat]
           /\ \A key \in Rubric(phase) :
                 /\ Combined(best.scores)[key] <= evidence[key]
                 /\ key \in DOMAIN best.scores => Combined(best.scores)[key] <= best.scores[key]
<1>1. phase \in Phases /\ evidence \in [Rubric(phase) -> {0, 100}]
  BY PhaseFacts DEF IInv, CountsFit
<1>2. PICK keys \in SUBSET (Rubric(phase) \cup ExtraKeys) : best.scores \in [keys -> Nat]
  BY DEF IInv, CountsFit, ScoreSets
<1>3. Rubric(phase) \cup DOMAIN best.scores = Rubric(phase)
  BY DEF KeptToRubric
<1> DEFINE c(key) == IF key \notin DOMAIN best.scores \/ evidence[key] < best.scores[key]
                     THEN evidence[key] ELSE best.scores[key]
<1>4. Combined(best.scores) = [key \in Rubric(phase) |-> c(key)]
  BY <1>3 DEF Combined, Checked
<1>5. \A key \in Rubric(phase) :
        /\ evidence[key] \in Nat /\ evidence[key] <= 100
        /\ key \in DOMAIN best.scores => best.scores[key] \in Nat
  BY <1>1, <1>2
<1>6. \A key \in Rubric(phase) :
        /\ c(key) \in Nat /\ c(key) <= evidence[key]
        /\ key \in DOMAIN best.scores => c(key) <= best.scores[key]
  BY <1>5
<1> HIDE DEF c
<1> QED
  BY <1>1, <1>2, <1>4, <1>5, <1>6

(* No judge within the rubric, whatever it says and however often it is      *)
(* asked, makes a phase with a failed check pass.                            *)
THEOREM FailedCheckFailsHolds == Spec => []FailedCheckFails
<1>1. ASSUME IInv PROVE FailedCheckFails
  <2> SUFFICES ASSUME card # NoCard, Broken, KeptToRubric PROVE ~Passes(card.scores)
    BY DEF FailedCheckFails
  <2>1. PICK k \in Rubric(phase) : evidence[k] = 0
    BY DEF Broken
  <2>2. phase \in Phases /\ (card = ChecksOnly \/ card.scores = Combined(best.scores))
    BY <1>1 DEF IInv, CountsFit, CardFits
  <2>3. CASE card = ChecksOnly
    BY <1>1, <2>1, <2>2, <2>3, CombinedFacts, BrokenDoesNotPass DEF ChecksOnly
  <2>4. CASE card.scores = Combined(best.scores)
    <3>1. Combined(best.scores)[k] = 0
      BY <1>1, <2>1, CombinedFacts
    <3>2. \A key \in Rubric(phase) : Combined(best.scores)[key] <= 100
      BY <1>1, CombinedFacts
    <3> QED
      BY <1>1, <2>2, <2>4, <3>1, <3>2, CombinedFacts, BrokenDoesNotPass
  <2> QED
    BY <2>2, <2>3, <2>4
<1> QED
  BY <1>1, EvaluatorInvariant, PTL

(* The checks do not lift a verdict that scores the whole rubric, with keys  *)
(* of the judge's own or not, over the threshold it stays under.             *)
THEOREM ChecksLiftNoVerdictHolds == Spec => []ChecksLiftNoVerdict
<1>1. ASSUME IInv PROVE ChecksLiftNoVerdict
  <2> SUFFICES ASSUME card # NoCard, ~card.flagged, Passes(card.scores),
                      Rubric(phase) \subseteq DOMAIN best.scores
               PROVE  Passes(best.scores)
    BY DEF ChecksLiftNoVerdict
  <2>1. phase \in Phases /\ card.scores = Combined(best.scores)
    BY <1>1 DEF IInv, CountsFit, CardFits, ChecksOnly
  <2>2. PICK keys \in SUBSET (Rubric(phase) \cup ExtraKeys) : best.scores \in [keys -> Nat]
    BY <1>1 DEF IInv, CountsFit, ScoreSets
  <2>3. IsFiniteSet(keys)
    <3>1. IsFiniteSet(Rubric(phase))
      BY <2>1, RubricFinite
    <3> QED
      BY <2>2, <3>1, EvaluatorAssumption, FS_Union, FS_Subset
  <2> DEFINE c(key) == IF key \notin keys \/ Checked(key) < best.scores[key]
                       THEN Checked(key) ELSE best.scores[key]
  <2>4. Combined(best.scores) = [key \in keys |-> c(key)]
    BY <2>2 DEF Combined
  <2>5. ASSUME NEW key \in keys PROVE c(key) \in Nat /\ c(key) <= best.scores[key]
    <3>1. Checked(key) \in Nat
      BY <1>1, <2>1, PhaseFacts DEF IInv, CountsFit, Checked
    <3>2. best.scores[key] \in Nat
      BY <2>2
    <3> QED
      BY <3>1, <3>2
  <2> HIDE DEF c
  <2>6. /\ Combined(best.scores) \in [keys -> Nat]
        /\ \A key \in keys : Combined(best.scores)[key] <= best.scores[key]
    BY <2>4, <2>5
  <2> QED
    BY <2>1, <2>2, <2>3, <2>6, PassesMonotone
<1> QED
  BY <1>1, EvaluatorInvariant, PTL
=============================================================================
