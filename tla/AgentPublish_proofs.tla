------------------------ MODULE AgentPublish_proofs -------------------------
(***************************************************************************)
(* Proofs about AgentPublish, for every set of pipelines, keys and values  *)
(* and every bound.                                                        *)
(***************************************************************************)
EXTENDS AgentPublish, FiniteSetTheorems, TLAPS

-----------------------------------------------------------------------------
(* Induction over finite sets: every induction below looks at a smallest   *)
(* counterexample.                                                         *)

(* A non-empty set of numbers has a least one.                             *)
LEMMA LeastExists ==
    ASSUME NEW T \in SUBSET Nat, T # {}
    PROVE  \E p \in T : \A q \in T : p <= q
<1>1. IsWellFoundedOn(OpToRel(<, Nat), Nat)
  BY NatLessThanWellFounded
<1>2. PICK p \in T : \A q \in T : ~ (<<q, p>> \in OpToRel(<, Nat))
  BY <1>1, WFMin
<1>3. \A q \in T : ~(q < p)
  BY <1>2 DEF OpToRel
<1> QED
  BY <1>3

(* A non-empty family of subsets of a finite set has a member of which no  *)
(* other member is a subset: induction over finite sets, as the provers    *)
(* can use it.                                                             *)
LEMMA MinimalSubset ==
    ASSUME NEW S, IsFiniteSet(S), NEW F \in SUBSET SUBSET S, F # {}
    PROVE  \E s \in F : \A t \in F : t \subseteq s => t = s
<1> DEFINE sizes == {Cardinality(s) : s \in F}
<1>1. \A s \in F : IsFiniteSet(s) /\ Cardinality(s) \in Nat
  BY FS_Subset, FS_CardinalityType
<1>2. PICK n \in sizes : \A m \in sizes : n <= m
  <2>1. sizes \in SUBSET Nat /\ sizes # {}
    BY <1>1
  <2> HIDE DEF sizes
  <2> QED
    BY <2>1, LeastExists
<1>3. PICK s \in F : n = Cardinality(s)
  BY <1>2
<1>4. ASSUME NEW t \in F, t \subseteq s PROVE t = s
  <2>1. Cardinality(s) <= Cardinality(t)
    BY <1>2, <1>3
  <2>2. Cardinality(t) <= Cardinality(s) /\ (Cardinality(s) = Cardinality(t) => s = t)
    BY <1>1, <1>4, FS_Subset
  <2> QED
    BY <2>1, <2>2, <1>1
<1> QED
  BY <1>3, <1>4

(* The elements of a non-empty finite set have a greatest rank.            *)
LEMMA GreatestExists ==
    ASSUME NEW S, IsFiniteSet(S), S # {}, NEW rank \in [S -> Nat]
    PROVE  \E p \in S : \A q \in S : rank[q] =< rank[p]
<1> DEFINE Topped(T) == \E p \in T : \A q \in T : rank[q] =< rank[p]
           F == {T \in SUBSET S : T # {} /\ ~Topped(T)}
<1>1. SUFFICES ASSUME F # {} PROVE FALSE
  BY DEF F
<1>2. PICK T \in F : \A U \in F : U \subseteq T => U = T
  <2>1. F \in SUBSET SUBSET S
    OBVIOUS
  <2> HIDE DEF F
  <2> QED
    BY <1>1, <2>1, MinimalSubset
<1>3. PICK x \in T : TRUE
  BY <1>2
<1>4. T \ {x} \notin F
  BY <1>2, <1>3
<1>5. CASE T \ {x} = {}
  BY <1>2, <1>3, <1>5
<1>6. CASE Topped(T \ {x})
  <2>1. PICK p \in T \ {x} : \A q \in T \ {x} : rank[q] =< rank[p]
    BY <1>6
  <2>2. rank[x] \in Nat /\ rank[p] \in Nat /\ \A q \in T : rank[q] \in Nat
    BY <1>2, <1>3
  <2>3. Topped(T)
    <3>1. CASE rank[x] =< rank[p]
      BY <2>1, <3>1
    <3>2. CASE rank[p] =< rank[x]
      <4>1. \A q \in T : rank[q] =< rank[x]
        BY <2>1, <2>2, <3>2
      <4> QED
        BY <1>3, <4>1
    <3> QED
      BY <2>2, <3>1, <3>2
  <2> QED
    BY <1>2, <2>3
<1> QED
  BY <1>2, <1>4, <1>5, <1>6

-----------------------------------------------------------------------------
(* Sums over finite sets, which is what the folds of SecretAssets compute. *)

(* The element that a fold takes out of a set.                             *)
Any(s) == CHOOSE x \in s : TRUE

(* it gives the sum of the weights w over every subset of S.               *)
IsSum(w, S, it) ==
    it = [s \in SUBSET S |-> IF s = {} THEN 0 ELSE w[Any(s)] + it[s \ {Any(s)}]]

(* A fold takes out a member.                                              *)
LEMMA AnyFacts == \A s : s # {} => Any(s) \in s
BY DEF Any

(* The two cases of a sum.                                                 *)
LEMMA SumStep ==
    ASSUME NEW w, NEW S, NEW it, IsSum(w, S, it)
    PROVE  /\ it[{}] = 0
           /\ \A s \in SUBSET S : s # {} =>
                 /\ Any(s) \in s
                 /\ s \ {Any(s)} \in SUBSET S
                 /\ it[s] = w[Any(s)] + it[s \ {Any(s)}]
BY AnyFacts DEF IsSum

(* Sums of naturals are naturals, and depend only on the weights.          *)
LEMMA SumLocal ==
    ASSUME NEW S, IsFiniteSet(S), NEW w, \A k \in S : w[k] \in Nat,
           NEW it, IsSum(w, S, it), NEW T, NEW jt, IsSum(w, T, jt),
           NEW u \in SUBSET (S \cap T)
    PROVE  it[u] \in Nat /\ it[u] = jt[u]
<1> DEFINE F == {s \in SUBSET S : s \in SUBSET T /\ ~(it[s] \in Nat /\ it[s] = jt[s])}
<1>1. SUFFICES ASSUME F # {} PROVE FALSE
  OBVIOUS
<1>2. PICK s \in F : \A t \in F : t \subseteq s => t = s
  <2>1. F \in SUBSET SUBSET S
    OBVIOUS
  <2> HIDE DEF F
  <2> QED
    BY <1>1, <2>1, MinimalSubset
<1>3. s # {}
  <2>1. SUFFICES ASSUME s = {} PROVE FALSE
    OBVIOUS
  <2>2. it[s] = 0 /\ jt[s] = 0
    BY <2>1, SumStep
  <2>3. ~(it[s] \in Nat /\ it[s] = jt[s])
    BY <1>2
  <2> HIDE DEF F
  <2> QED
    BY <2>2, <2>3
<1>4. /\ Any(s) \in s
      /\ it[s] = w[Any(s)] + it[s \ {Any(s)}]
      /\ jt[s] = w[Any(s)] + jt[s \ {Any(s)}]
  <2>1. s \in SUBSET S /\ s \in SUBSET T
    BY <1>2
  <2> HIDE DEF F
  <2>2. Any(s) \in s /\ it[s] = w[Any(s)] + it[s \ {Any(s)}]
    BY <1>3, <2>1, SumStep
  <2>3. jt[s] = w[Any(s)] + jt[s \ {Any(s)}]
    <3>1. \A r \in SUBSET T : r # {} => jt[r] = w[Any(r)] + jt[r \ {Any(r)}]
      BY DEF IsSum
    <3> QED
      BY <1>3, <2>1, <3>1
  <2> QED
    BY <2>2, <2>3
<1>5. s \ {Any(s)} \notin F
  BY <1>2, <1>4
<1>6. it[s \ {Any(s)}] \in Nat /\ it[s \ {Any(s)}] = jt[s \ {Any(s)}]
  BY <1>2, <1>5
<1>7. w[Any(s)] \in Nat
  BY <1>2, <1>4
<1>8. it[s] \in Nat /\ it[s] = jt[s]
  BY <1>4, <1>6, <1>7
<1> QED
  BY <1>2, <1>8

(* Every finite set has its sum.                                           *)
LEMMA SumExists ==
    ASSUME NEW S, IsFiniteSet(S), NEW w, \A k \in S : w[k] \in Nat
    PROVE  \E it : IsSum(w, S, it)
<1> DEFINE F == {s \in SUBSET S : ~ \E it : IsSum(w, s, it)}
<1>1. SUFFICES ASSUME F # {} PROVE FALSE
  OBVIOUS
<1>2. PICK u \in F : \A t \in F : t \subseteq u => t = u
  <2>1. F \in SUBSET SUBSET S
    OBVIOUS
  <2> HIDE DEF F
  <2> QED
    BY <1>1, <2>1, MinimalSubset
<1> DEFINE G(t) == CHOOSE it : IsSum(w, t, it)
           V(t) == G(t)[t]
           it == [s \in SUBSET u |-> IF s = {} THEN 0 ELSE w[Any(s)] + V(s \ {Any(s)})]
<1>3. ASSUME NEW t \in SUBSET u, t # u PROVE IsSum(w, t, G(t))
  <2>1. t \notin F /\ t \in SUBSET S
    BY <1>2, <1>3
  <2> QED
    BY <2>1
<1>4. V({}) = 0
  <2>1. {} # u
    <3>1. IsSum(w, {}, [s \in SUBSET {} |-> 0])
      BY DEF IsSum
    <3> QED
      BY <1>2, <3>1
  <2>2. IsSum(w, {}, G({}))
    BY <1>3, <2>1
  <2> HIDE DEF G
  <2> QED
    BY <2>2, SumStep
<1>5. ASSUME NEW r \in SUBSET u, r # u, r # {}
      PROVE  V(r) = w[Any(r)] + V(r \ {Any(r)})
  <2>1. Any(r) \in r
    BY <1>5, AnyFacts
  <2> DEFINE q == r \ {Any(r)}
  <2>2. q \in SUBSET u /\ q # u /\ q \in SUBSET (r \cap q) /\ IsFiniteSet(r)
    BY <1>2, <1>5, <2>1, FS_Subset
  <2>3. IsSum(w, r, G(r)) /\ IsSum(w, q, G(q))
    BY <1>3, <1>5, <2>2
  <2> HIDE DEF G, q
  <2>4. \A k \in r : w[k] \in Nat
    BY <1>2, <1>5
  <2>5. G(r)[q] = G(q)[q]
    BY <2>2, <2>3, <2>4, SumLocal
  <2>6. G(r)[r] = w[Any(r)] + G(r)[q]
    BY <2>3, <1>5, SumStep DEF q
  <2> QED
    BY <2>5, <2>6 DEF q
<1> HIDE DEF V
<1>6. IsSum(w, u, it)
  <2>1. ASSUME NEW s \in SUBSET u, s # {} PROVE it[s \ {Any(s)}] = V(s \ {Any(s)})
    <3>1. Any(s) \in s
      BY <2>1, AnyFacts
    <3> DEFINE r == s \ {Any(s)}
    <3>2. r \in SUBSET u /\ r # u
      BY <2>1, <3>1
    <3>3. CASE r = {}
      BY <3>2, <3>3, <1>4
    <3>4. CASE r # {}
      <4> HIDE DEF r
      <4>1. V(r) = w[Any(r)] + V(r \ {Any(r)})
        BY <3>2, <3>4, <1>5
      <4>2. it[r] = w[Any(r)] + V(r \ {Any(r)})
        BY <3>2, <3>4
      <4> QED
        BY <4>1, <4>2 DEF r
    <3> QED
      BY <3>3, <3>4
  <2> HIDE DEF it
  <2>2. it = [s \in SUBSET u |-> IF s = {} THEN 0 ELSE w[Any(s)] + V(s \ {Any(s)})]
    BY DEF it
  <2>3. it = [s \in SUBSET u |-> IF s = {} THEN 0 ELSE w[Any(s)] + it[s \ {Any(s)}]]
    BY <2>1, <2>2
  <2> QED
    BY <2>3 DEF IsSum
<1> QED
  BY <1>2, <1>6

(* Any element may be the one taken out first.                             *)
LEMMA SumRemove ==
    ASSUME NEW S, IsFiniteSet(S), NEW w, \A k \in S : w[k] \in Nat,
           NEW it, IsSum(w, S, it), NEW u \in SUBSET S, NEW x \in u
    PROVE  /\ it[u] = w[x] + it[u \ {x}]
           /\ it[u \ {x}] \in Nat
<1> DEFINE F == {s \in SUBSET S : \E y \in s : it[s] # w[y] + it[s \ {y}]}
<1>0. \A s \in SUBSET S : it[s] \in Nat
  BY SumLocal
<1>1. SUFFICES ASSUME F # {} PROVE FALSE
  BY <1>0
<1>2. PICK s \in F : \A t \in F : t \subseteq s => t = s
  <2>1. F \in SUBSET SUBSET S
    OBVIOUS
  <2> HIDE DEF F
  <2> QED
    BY <1>1, <2>1, MinimalSubset
<1>3. PICK y \in s : it[s] # w[y] + it[s \ {y}]
  BY <1>2
<1> DEFINE a == Any(s)
<1>4. a \in s /\ it[s] = w[a] + it[s \ {a}]
  <2>1. s \in SUBSET S /\ s # {}
    BY <1>2, <1>3
  <2> HIDE DEF F
  <2>2. \A r \in SUBSET S : r # {} =>
           Any(r) \in r /\ it[r] = w[Any(r)] + it[r \ {Any(r)}]
    BY SumStep
  <2> QED
    BY <2>1, <2>2
<1> HIDE DEF a
<1>5. a # y
  BY <1>3, <1>4
<1>6. s \ {a} \notin F /\ s \ {y} \notin F
  BY <1>2, <1>3, <1>4
<1>7. /\ it[s \ {a}] = w[y] + it[(s \ {a}) \ {y}]
      /\ it[s \ {y}] = w[a] + it[(s \ {y}) \ {a}]
  BY <1>2, <1>3, <1>4, <1>5, <1>6
<1>8. (s \ {a}) \ {y} = (s \ {y}) \ {a} /\ (s \ {a}) \ {y} \in SUBSET S
  BY <1>2
<1>9. w[y] \in Nat /\ w[a] \in Nat /\ it[(s \ {a}) \ {y}] \in Nat
  BY <1>0, <1>2, <1>3, <1>4, <1>8
<1> DEFINE rest == it[(s \ {a}) \ {y}]
<1>10. /\ it[s] = w[a] + (w[y] + rest)
       /\ it[s \ {y}] = w[a] + rest
       /\ it[s] # w[y] + it[s \ {y}]
  BY <1>3, <1>4, <1>7, <1>8
<1> HIDE DEF F, rest
<1> QED
  BY <1>9, <1>10 DEF rest

(* A sum over fewer elements of no greater weight is no greater.           *)
LEMMA SumMonotone ==
    ASSUME NEW S, NEW T, IsFiniteSet(T), S \subseteq T, NEW w, NEW x,
           \A k \in T : x[k] \in Nat,
           \A k \in S : w[k] \in Nat /\ w[k] =< x[k],
           NEW it, IsSum(w, S, it), NEW jt, IsSum(x, T, jt)
    PROVE  it[S] =< jt[T]
<1>1. IsFiniteSet(S)
  BY FS_Subset
<1>2. /\ \A s \in SUBSET S : it[s] \in Nat
      /\ \A t \in SUBSET T : jt[t] \in Nat
  BY <1>1, SumLocal
<1> DEFINE F == {t \in SUBSET T : ~(it[t \cap S] =< jt[t])}
<1>3. SUFFICES ASSUME F # {} PROVE FALSE
  <2>1. T \cap S = S /\ T \in SUBSET T
    OBVIOUS
  <2> QED
    BY <2>1, <1>3
<1>4. PICK t \in F : \A r \in F : r \subseteq t => r = t
  <2>1. F \in SUBSET SUBSET T
    OBVIOUS
  <2> HIDE DEF F
  <2> QED
    BY <1>3, <2>1, MinimalSubset
<1>5. t # {}
  <2>1. SUFFICES ASSUME t = {} PROVE FALSE
    OBVIOUS
  <2>2. t \cap S = {}
    BY <2>1
  <2>3. it[t \cap S] = 0 /\ jt[t] = 0
    BY <2>1, <2>2, SumStep
  <2>4. ~(it[t \cap S] =< jt[t])
    BY <1>4
  <2> HIDE DEF F
  <2> QED
    BY <2>3, <2>4
<1>6. PICK y \in t : TRUE
  BY <1>5
<1>7. it[(t \ {y}) \cap S] =< jt[t \ {y}]
  BY <1>4, <1>6
<1>8. jt[t] = x[y] + jt[t \ {y}] /\ jt[t \ {y}] \in Nat /\ x[y] \in Nat
  BY <1>4, <1>6, SumRemove
<1>9. it[t \cap S] =< jt[t]
  <2>1. CASE y \in S
    <3>1. t \cap S \in SUBSET S /\ y \in t \cap S /\ (t \cap S) \ {y} = (t \ {y}) \cap S
      BY <1>6, <2>1
    <3>2. it[t \cap S] = w[y] + it[(t \cap S) \ {y}] /\ it[(t \cap S) \ {y}] \in Nat
      BY <3>1, <1>1, SumRemove
    <3>3. w[y] \in Nat /\ w[y] =< x[y]
      BY <2>1
    <3>4. it[(t \cap S) \ {y}] =< jt[t \ {y}]
      BY <3>1, <1>7
    <3> DEFINE i == it[(t \cap S) \ {y}]
               j == jt[t \ {y}]
    <3> HIDE DEF F, i, j
    <3> QED
      BY <3>2, <3>3, <3>4, <1>8 DEF i, j
  <2>2. CASE y \notin S
    <3>1. t \cap S = (t \ {y}) \cap S /\ t \cap S \in SUBSET S
      BY <1>6, <2>2
    <3>2. it[t \cap S] \in Nat /\ it[t \cap S] =< jt[t \ {y}]
      BY <3>1, <1>2, <1>7
    <3> HIDE DEF F
    <3> QED
      BY <3>2, <1>8
  <2> QED
    BY <2>1, <2>2
<1> QED
  BY <1>4, <1>9

(* Data of a Secret is finite and its values have natural lengths.         *)
LEMMA DataFacts ==
    ASSUME NEW d \in Data
    PROVE  IsFiniteSet(DOMAIN d) /\ DOMAIN d \subseteq Key /\ \A k \in DOMAIN d : d[k] \in Nat
<1>1. DOMAIN d \subseteq Key /\ \A k \in DOMAIN d : d[k] \in Length
  BY DEF Data
<1>2. Length \subseteq Nat
  BY BudgetAssumption DEF Length
<1> QED
  BY <1>1, <1>2, FiniteAssumption, FS_Subset

(* What the folds of secretDataSize and secretObjectSize return: the sum   *)
(* of the entries.                                                         *)
LEMMA SizesAreSums ==
    ASSUME NEW d \in Data
    PROVE  /\ \E it : IsSum(d, DOMAIN d, it) /\ ValuesSize(d) = it[DOMAIN d]
           /\ \E it : /\ IsSum([k \in DOMAIN d |-> d[k] + EntryOverhead], DOMAIN d, it)
                      /\ ObjectSize(d) = it[DOMAIN d]
<1>1. IsFiniteSet(DOMAIN d) /\ \A k \in DOMAIN d : d[k] \in Nat
  BY DataFacts
<1>2. \E it : IsSum(d, DOMAIN d, it) /\ ValuesSize(d) = it[DOMAIN d]
  <2> DEFINE V(it) == it = [s \in SUBSET DOMAIN d |->
                              IF s = {} THEN 0 ELSE d[Any(s)] + it[s \ {Any(s)}]]
  <2>1. ValuesSize(d) = (CHOOSE it : V(it))[DOMAIN d]
    BY DEF ValuesSize, MapThenSumSet, MapThenFoldSet, Any
  <2>2. \E it : V(it)
    <3>1. PICK it : IsSum(d, DOMAIN d, it)
      BY <1>1, SumExists
    <3>2. V(it)
      BY <3>1 DEF IsSum
    <3> HIDE DEF V
    <3> QED
      BY <3>2
  <2>3. V(CHOOSE it : V(it))
    <3> HIDE DEF V
    <3> QED
      BY <2>2
  <2>4. IsSum(d, DOMAIN d, CHOOSE it : V(it))
    BY <2>3 DEF IsSum
  <2> HIDE DEF V
  <2> QED
    BY <2>1, <2>4
<1>3. \E it : /\ IsSum([k \in DOMAIN d |-> d[k] + EntryOverhead], DOMAIN d, it)
             /\ ObjectSize(d) = it[DOMAIN d]
  <2> DEFINE w == [k \in DOMAIN d |-> d[k] + EntryOverhead]
             V(it) == it = [s \in SUBSET DOMAIN d |->
                              IF s = {} THEN 0
                              ELSE (d[Any(s)] + EntryOverhead) + it[s \ {Any(s)}]]
  <2>1. ObjectSize(d) = (CHOOSE it : V(it))[DOMAIN d]
    BY DEF ObjectSize, MapThenSumSet, MapThenFoldSet, Any
  <2>2. \A k \in DOMAIN d : w[k] \in Nat /\ w[k] = d[k] + EntryOverhead
    BY <1>1, BudgetAssumption
  <2> HIDE DEF w
  <2>3. \A s \in SUBSET DOMAIN d : s # {} => w[Any(s)] = d[Any(s)] + EntryOverhead
    BY <2>2, AnyFacts
  <2>4. \A it : IsSum(w, DOMAIN d, it) <=> V(it)
    <3> TAKE it
    <3>1. [s \in SUBSET DOMAIN d |-> IF s = {} THEN 0 ELSE w[Any(s)] + it[s \ {Any(s)}]]
          = [s \in SUBSET DOMAIN d |->
                IF s = {} THEN 0 ELSE (d[Any(s)] + EntryOverhead) + it[s \ {Any(s)}]]
      BY <2>3
    <3> QED
      BY <3>1 DEF IsSum
  <2> HIDE DEF V
  <2>5. V(CHOOSE it : V(it))
    BY <1>1, <2>2, <2>4, SumExists
  <2> QED
    BY <2>1, <2>4, <2>5 DEF w
<1> QED
  BY <1>2, <1>3

(* Sizes are numbers.                                                      *)
LEMMA SizeType ==
    ASSUME NEW d \in Data
    PROVE  ValuesSize(d) \in Nat /\ ObjectSize(d) \in Nat
<1>1. IsFiniteSet(DOMAIN d) /\ \A k \in DOMAIN d : d[k] \in Nat
  BY DataFacts
<1>2. ValuesSize(d) \in Nat
  <2>1. PICK it : IsSum(d, DOMAIN d, it) /\ ValuesSize(d) = it[DOMAIN d]
    BY SizesAreSums
  <2>2. DOMAIN d \in SUBSET (DOMAIN d \cap DOMAIN d)
    OBVIOUS
  <2> QED
    BY <1>1, <2>1, <2>2, SumLocal
<1>3. ObjectSize(d) \in Nat
  <2> DEFINE w == [k \in DOMAIN d |-> d[k] + EntryOverhead]
  <2>1. PICK it : IsSum(w, DOMAIN d, it) /\ ObjectSize(d) = it[DOMAIN d]
    BY SizesAreSums
  <2>2. DOMAIN d \in SUBSET (DOMAIN d \cap DOMAIN d)
    OBVIOUS
  <2>3. \A k \in DOMAIN d : w[k] \in Nat
    BY <1>1, BudgetAssumption
  <2> HIDE DEF w
  <2> QED
    BY <1>1, <2>1, <2>2, <2>3, SumLocal
<1> QED
  BY <1>2, <1>3

(* Data with fewer entries of no greater length fits where the larger one  *)
(* does.                                                                   *)
LEMMA SmallerFits ==
    ASSUME NEW d \in Data, NEW e \in Data, DOMAIN d \subseteq DOMAIN e,
           \A k \in DOMAIN d : d[k] =< e[k], Fits(e)
    PROVE  Fits(d)
<1>1. /\ IsFiniteSet(DOMAIN e)
      /\ \A k \in DOMAIN d : d[k] \in Nat
      /\ \A k \in DOMAIN e : e[k] \in Nat
  BY DataFacts
<1>2. ValuesSize(d) =< ValuesSize(e)
  BY <1>1, SizesAreSums, SumMonotone
<1>3. ObjectSize(d) =< ObjectSize(e)
  <2> DEFINE w == [k \in DOMAIN d |-> d[k] + EntryOverhead]
             x == [k \in DOMAIN e |-> e[k] + EntryOverhead]
  <2>1. /\ \A k \in DOMAIN e : x[k] \in Nat
        /\ \A k \in DOMAIN d : w[k] \in Nat /\ w[k] =< x[k]
    BY <1>1, BudgetAssumption
  <2>2. /\ \E it : IsSum(w, DOMAIN d, it) /\ ObjectSize(d) = it[DOMAIN d]
        /\ \E it : IsSum(x, DOMAIN e, it) /\ ObjectSize(e) = it[DOMAIN e]
    BY SizesAreSums
  <2> HIDE DEF w, x
  <2> QED
    BY <1>1, <2>1, <2>2, SumMonotone
<1>4. /\ ValuesSize(d) \in Nat /\ ValuesSize(e) \in Nat
      /\ ObjectSize(d) \in Nat /\ ObjectSize(e) \in Nat
  BY SizeType
<1> QED
  BY <1>2, <1>3, <1>4, BudgetAssumption DEF Fits

(* A Secret without entries is within every budget.                        *)
LEMMA NoDataFits == Fits(NoData)
<1>1. NoData \in Data /\ DOMAIN NoData = {}
  BY DEF NoData, Data
<1>2. PICK it : IsSum(NoData, DOMAIN NoData, it) /\ ValuesSize(NoData) = it[DOMAIN NoData]
  BY <1>1, SizesAreSums
<1>3. PICK jt : /\ IsSum([k \in DOMAIN NoData |-> NoData[k] + EntryOverhead], DOMAIN NoData, jt)
                /\ ObjectSize(NoData) = jt[DOMAIN NoData]
  BY <1>1, SizesAreSums
<1>4. ValuesSize(NoData) = 0 /\ ObjectSize(NoData) = 0
  <2>1. it[{}] = 0
    BY <1>2, SumStep
  <2>2. jt[{}] = 0
    BY <1>3, SumStep
  <2> QED
    BY <1>1, <1>2, <1>3, <2>1, <2>2
<1> QED
  BY <1>4, BudgetAssumption DEF Fits

-----------------------------------------------------------------------------
(* What the operators of SecretAssets return.                              *)

(* The empty Secret is a Secret, and the only one without keys.            *)
LEMMA NoDataFacts ==
    /\ NoData \in Data
    /\ DOMAIN NoData = {}
    /\ \A d \in Data : DOMAIN d = {} => d = NoData
BY DEF NoData, Data

(* Staging the values of some pipelines adds exactly the keys they         *)
(* reference.                                                              *)
LEMMA StageFacts ==
    ASSUME NEW e \in Data, NEW vals \in [Key -> Length], NEW P \in SUBSET Pipeline
    PROVE  /\ Stage(e, vals, P) \in Data
           /\ DOMAIN Stage(e, vals, P) = DOMAIN e \cup KeysOf(P)
           /\ KeysOf(P) \subseteq Key
<1>1. KeysOf(P) \subseteq Key
  BY RefsAssumption DEF KeysOf
<1>2. DOMAIN e \subseteq Key /\ \A k \in DOMAIN e : e[k] \in Length
  BY DEF Data
<1>3. DOMAIN Stage(e, vals, P) = DOMAIN e \cup KeysOf(P)
  BY DEF Stage
<1>4. Stage(e, vals, P) \in [DOMAIN e \cup KeysOf(P) -> Length]
  BY <1>1, <1>2 DEF Stage
<1>5. Stage(e, vals, P) \in Data
  BY <1>1, <1>2, <1>4 DEF Data
<1> QED
  BY <1>1, <1>3, <1>5

(* The exact target of a set of pipelines holds their keys and no other.   *)
LEMMA ExactFacts ==
    ASSUME NEW vals \in [Key -> Length], NEW P \in SUBSET Pipeline
    PROVE  /\ Stage(NoData, vals, P) \in Data
           /\ DOMAIN Stage(NoData, vals, P) = KeysOf(P)
<1>1. Stage(NoData, vals, P) \in Data
  BY StageFacts, NoDataFacts
<1>2. DOMAIN Stage(NoData, vals, P) = DOMAIN NoData \cup KeysOf(P)
  BY StageFacts, NoDataFacts
<1>3. DOMAIN Stage(NoData, vals, P) = KeysOf(P)
  BY <1>2, NoDataFacts
<1> QED
  BY <1>1, <1>3

(* Every non-empty selection has an oldest member: the head of the list    *)
(* gatherPendingSecretsByPipeline sorts.                                   *)
LEMMA OldestExists ==
    ASSUME NEW S \in SUBSET Pipeline, S # {}
    PROVE  \E p \in S : \A q \in S : Born[p] =< Born[q]
<1> DEFINE Ranks == {Born[p] : p \in S}
<1>1. Ranks \in SUBSET Nat /\ Ranks # {}
  BY BornAssumption
<1>2. PICK n \in Ranks : \A m \in Ranks : n =< m
  <2> HIDE DEF Ranks
  <2> QED
    BY <1>1, LeastExists
<1> QED
  BY <1>2

(* And, as the cluster is finite, a youngest one.                          *)
LEMMA YoungestExists ==
    ASSUME NEW S \in SUBSET Pipeline, S # {}
    PROVE  \E p \in S : \A q \in S : Born[q] =< Born[p]
<1>1. IsFiniteSet(S)
  BY FiniteAssumption, FS_Subset
<1>2. [p \in S |-> Born[p]] \in [S -> Nat]
  BY BornAssumption
<1>3. PICK p \in S : \A q \in S : [r \in S |-> Born[r]][q] =< [r \in S |-> Born[r]][p]
  BY <1>1, <1>2, GreatestExists
<1> QED
  BY <1>3

(* Staging pipelines that reference the same keys gives the same data.     *)
LEMMA StageKeys ==
    ASSUME NEW e, NEW vals, NEW P, NEW Q, KeysOf(P) = KeysOf(Q)
    PROVE  Stage(e, vals, P) = Stage(e, vals, Q)
BY DEF Stage

(* Staging more pipelines on the same data never makes it smaller.         *)
LEMMA StageMonotone ==
    ASSUME NEW e \in Data, NEW vals \in [Key -> Length],
           NEW Q \in SUBSET Pipeline, NEW P \in SUBSET Q,
           \A k \in DOMAIN e \cap (KeysOf(Q) \ KeysOf(P)) : e[k] =< vals[k],
           Fits(Stage(e, vals, Q))
    PROVE  Fits(Stage(e, vals, P))
<1>1. /\ Stage(e, vals, P) \in Data /\ Stage(e, vals, Q) \in Data
      /\ DOMAIN Stage(e, vals, P) = DOMAIN e \cup KeysOf(P)
      /\ DOMAIN Stage(e, vals, Q) = DOMAIN e \cup KeysOf(Q)
      /\ KeysOf(Q) \subseteq Key
  BY StageFacts
<1>2. KeysOf(P) \subseteq KeysOf(Q)
  BY DEF KeysOf
<1>3. \A k \in DOMAIN e : e[k] \in Nat
  BY DataFacts
<1>4. \A k \in Key : vals[k] \in Nat
  BY BudgetAssumption DEF Length
<1>5. \A k \in DOMAIN e \cup KeysOf(P) : Stage(e, vals, P)[k] =< Stage(e, vals, Q)[k]
  BY <1>1, <1>2, <1>3, <1>4 DEF Stage
<1> QED
  BY <1>1, <1>2, <1>5, SmallerFits

(* What a pass accepts fits as a whole: its youngest member that           *)
(* references anything was measured with all the others.                   *)
LEMMA GreedyFits ==
    ASSUME NEW e \in Data, NEW vals, NEW P \in SUBSET Pipeline, NEW A,
           Greedy(e, vals, P, A), Fits(e)
    PROVE  Fits(Stage(e, vals, A))
<1> DEFINE R == {p \in A : Refs[p] # {}}
<1>1. A \subseteq P /\ R \in SUBSET Pipeline
  BY DEF Greedy
<1>2. KeysOf(A) = KeysOf(R)
  BY DEF KeysOf
<1>3. CASE R = {}
  <2>1. KeysOf(A) = {}
    BY <1>2, <1>3 DEF KeysOf
  <2>2. Stage(e, vals, A) = e
    BY <2>1 DEF Stage, Data
  <2> QED
    BY <2>2
<1>4. CASE R # {}
  <2>1. PICK p \in R : \A q \in R : Born[q] =< Born[p]
    <3> HIDE DEF R
    <3> QED
      BY <1>1, <1>4, YoungestExists
  <2> DEFINE B == {q \in A : Older(q, p)} \cup {p}
  <2>2. R \subseteq B /\ B \subseteq A
    BY <1>1, <2>1, BornAssumption DEF Older
  <2>3. KeysOf(B) = KeysOf(A)
    BY <1>2, <2>2 DEF KeysOf
  <2>4. Fits(Stage(e, vals, B))
    BY <1>1, <2>1 DEF Greedy
  <2> HIDE DEF B
  <2> QED
    BY <2>3, <2>4, StageKeys
<1> QED
  BY <1>3, <1>4

(* A pass has one outcome.                                                 *)
LEMMA GreedyUnique ==
    ASSUME NEW e, NEW vals, NEW P \in SUBSET Pipeline, NEW A, NEW B,
           Greedy(e, vals, P, A), Greedy(e, vals, P, B)
    PROVE  A = B
<1> DEFINE D == (A \ B) \cup (B \ A)
<1>1. A \subseteq P /\ B \subseteq P /\ D \in SUBSET Pipeline
  BY DEF Greedy
<1>2. SUFFICES ASSUME D # {} PROVE FALSE
  OBVIOUS
<1>3. PICK p \in D : \A q \in D : Born[p] =< Born[q]
  <2> HIDE DEF D
  <2> QED
    BY <1>1, <1>2, OldestExists
<1>4. {q \in A : Older(q, p)} = {q \in B : Older(q, p)}
  BY <1>1, <1>3, BornAssumption DEF Older
<1>5. p \in A <=> \/ Refs[p] = {}
                  \/ Fits(Stage(e, vals, {q \in A : Older(q, p)} \cup {p}))
  BY <1>1, <1>3 DEF Greedy
<1>6. p \in B <=> \/ Refs[p] = {}
                  \/ Fits(Stage(e, vals, {q \in B : Older(q, p)} \cup {p}))
  BY <1>1, <1>3 DEF Greedy
<1> QED
  BY <1>3, <1>4, <1>5, <1>6

(* A pass over any selection has an outcome.                               *)
LEMMA GreedyExists ==
    ASSUME NEW e, NEW vals, NEW P \in SUBSET Pipeline
    PROVE  \E A \in SUBSET P : Greedy(e, vals, P, A)
<1> DEFINE F == {Q \in SUBSET Pipeline : ~ \E A \in SUBSET Q : Greedy(e, vals, Q, A)}
<1>1. SUFFICES ASSUME F # {} PROVE FALSE
  OBVIOUS
<1>2. PICK Q \in F : \A T \in F : T \subseteq Q => T = Q
  <2>1. F \in SUBSET SUBSET Pipeline
    OBVIOUS
  <2> HIDE DEF F
  <2> QED
    BY <1>1, <2>1, FiniteAssumption, MinimalSubset
<1>3. Q # {}
  <2>1. Greedy(e, vals, {}, {})
    BY DEF Greedy
  <2> QED
    BY <1>2, <2>1
<1>4. PICK x \in Q : \A q \in Q : Born[q] =< Born[x]
  <2>1. Q \in SUBSET Pipeline
    BY <1>2
  <2> HIDE DEF F
  <2> QED
    BY <1>3, <2>1, YoungestExists
<1>5. Q \ {x} \notin F
  BY <1>2, <1>4
<1>6. PICK B \in SUBSET (Q \ {x}) : Greedy(e, vals, Q \ {x}, B)
  BY <1>2, <1>5
<1> DEFINE in == Refs[x] = {} \/ Fits(Stage(e, vals, {q \in B : Older(q, x)} \cup {x}))
           A == IF in THEN B \cup {x} ELSE B
<1>7. \A p \in Q : {q \in A : Older(q, p)} = {q \in B : Older(q, p)}
  BY <1>2, <1>4, BornAssumption DEF Older
<1>8. x \in A <=> in
  BY <1>6
<1>9. \A p \in Q \ {x} : p \in A <=> p \in B
  BY <1>6
<1>10. \A p \in Q : p \in A <=>
          \/ Refs[p] = {}
          \/ Fits(Stage(e, vals, {q \in B : Older(q, p)} \cup {p}))
  <2>1. \A p \in Q \ {x} : p \in B <=>
          \/ Refs[p] = {}
          \/ Fits(Stage(e, vals, {q \in B : Older(q, p)} \cup {p}))
    BY <1>6 DEF Greedy
  <2> HIDE DEF A, F
  <2> QED
    BY <1>8, <1>9, <2>1
<1>11. A \subseteq Q
  BY <1>4, <1>6
<1> HIDE DEF A, F, in
<1>12. Greedy(e, vals, Q, A)
  BY <1>7, <1>10, <1>11 DEF Greedy
<1> QED
  BY <1>2, <1>11, <1>12 DEF F

(* The loops of DetectSecretSizeOverflow and BridgeAssets are functions,   *)
(* and Greedy describes what they return: for any pipelines, references,   *)
(* ages, values and budgets exactly one set of pipelines is the outcome.   *)
THEOREM PassHasOneOutcome ==
    ASSUME NEW e, NEW vals, NEW P \in SUBSET Pipeline
    PROVE  \E A \in SUBSET P : \A B : Greedy(e, vals, P, B) <=> B = A
<1>1. PICK A \in SUBSET P : Greedy(e, vals, P, A)
  BY GreedyExists
<1>2. ASSUME NEW B, Greedy(e, vals, P, B) PROVE B = A
  BY <1>1, <1>2, GreedyUnique
<1> QED
  BY <1>1, <1>2

(* A pass over the pipelines an earlier pass over the same data accepted   *)
(* accepts all of them again: this is the guarantee that the second pass   *)
(* of planSecretAssetsBridge relies on, and with one variant it holds.     *)
LEMMA GreedyIdempotent ==
    ASSUME NEW e, NEW vals, NEW P \in SUBSET Pipeline, NEW A, NEW B,
           Greedy(e, vals, P, A), Greedy(e, vals, A, B)
    PROVE  B = A
<1>1. A \subseteq P /\ B \subseteq A
  BY DEF Greedy
<1>2. SUFFICES ASSUME A \ B # {} PROVE FALSE
  BY <1>1
<1>3. PICK p \in A \ B : \A q \in A \ B : Born[p] =< Born[q]
  BY <1>1, <1>2, OldestExists
<1>4. \A q \in A : Older(q, p) => q \in B
  BY <1>1, <1>3, BornAssumption DEF Older
<1>5. {q \in A : Older(q, p)} = {q \in B : Older(q, p)}
  BY <1>1, <1>4
<1>6. p \in A <=> \/ Refs[p] = {}
                  \/ Fits(Stage(e, vals, {q \in A : Older(q, p)} \cup {p}))
  BY <1>1, <1>3 DEF Greedy
<1>7. p \in B <=> \/ Refs[p] = {}
                  \/ Fits(Stage(e, vals, {q \in B : Older(q, p)} \cup {p}))
  BY <1>3 DEF Greedy
<1> QED
  BY <1>3, <1>5, <1>6, <1>7

-----------------------------------------------------------------------------
(* Type correctness.                                                       *)

(* Every step but the last has a successor in each of the three orders.    *)
LEMMA NextStepType ==
    \A o \in Orders : \A s \in Steps \ {"status"} : NextStep[o][s] \in Steps
BY DEF Orders, Steps, NextStep

(* While a round runs, Advance leads to a well-formed round.               *)
LEMMA AdvanceType ==
    ASSUME TypeOK, round.pc \in Steps \ {"status"}, Advance
    PROVE  /\ round \in Round
           /\ round' \in Round
           /\ round' = [round EXCEPT !.pc = NextStep[round.order][round.pc]]
<1>1. round \in Round
  BY DEF TypeOK, Idle, Steps
<1>2. NextStep[round.order][round.pc] \in Steps
  BY <1>1, NextStepType DEF Round
<1> QED
  BY <1>1, <1>2 DEF Advance, Round

(* The variants the names resolve to.                                      *)
LEMMA VariantFacts ==
    \A opt : /\ Primary(opt) \in Variant
            /\ Standby(opt) \in Variant
            /\ Managed \subseteq Variant
BY DEF Primary, Standby, Variant, Managed

(* What a round plans has the type of a round.                             *)
LEMMA PlannedRoundType ==
    ASSUME TypeOK, NEW pipes \in SUBSET Pipeline, NEW altBuilt \in BOOLEAN,
           NEW bridged \in [Variant -> Data]
    PROVE  PlannedRound(pipes, altBuilt, bridged) \in Round
<1> DEFINE exact == Stage(NoData, values, pipes)
           unchanged == AllConfigsUnchanged(pipes, altBuilt)
           wouldDrop == \E v \in Managed : WouldDropAKey(assets[v], exact)
           prune == ~wouldDrop \/ MayPrune(unchanged)
           data == IF prune THEN [v \in Variant |-> exact] ELSE bridged
           requeue == IF wouldDrop THEN RequeueAfter(unchanged) ELSE 0
           order == WriteOrder(optimize, data[Primary(optimize)])
<1>1. exact \in Data
  BY StageFacts, NoDataFacts DEF TypeOK
<1>2. data \in [Variant -> Data]
  BY <1>1
<1>3. unchanged \in BOOLEAN
  BY DEF AllConfigsUnchanged
<1>4. requeue \in 0..Grace
  BY PublishAssumption DEF RequeueAfter, MayPrune, TypeOK, NoMark
<1>5. order \in Orders
  BY DEF WriteOrder, Orders
<1>6. optimize \in BOOLEAN /\ 0 \in 0..Latency
  BY PublishAssumption DEF TypeOK
<1>7. PlannedRound(pipes, altBuilt, bridged) =
        [pc |-> "check", opt |-> optimize, pipes |-> pipes, altBuilt |-> altBuilt,
         data |-> data, publishing |-> ~unchanged, order |-> order,
         marked |-> cachedMark # NoMark, stale |-> cachedMark # mark,
         requeue |-> requeue, late |-> 0]
  BY DEF PlannedRound
<1> HIDE DEF data, unchanged, requeue, order
<1> QED
  BY <1>2, <1>3, <1>4, <1>5, <1>6, <1>7 DEF Round, Steps

(* The initial states, with or without objects of an earlier version.      *)
LEMMA TypeInit == Init => TypeOK
<1> SUFFICES ASSUME Init PROVE TypeOK
  OBVIOUS
<1>1. wanted \in SUBSET Pipeline /\ optimize \in BOOLEAN /\ migration \in BOOLEAN
  BY PublishAssumption DEF Init
<1>2. values \in [Key -> Length]
  BY DEF Init
<1>3. /\ mark \in NoMark..Grace /\ cachedMark \in NoMark..Grace
      /\ queued \in BOOLEAN /\ timer \in NoTimer..Grace
      /\ edits \in 0..MaxEdits /\ faults \in 0..MaxFaults
      /\ round \in Round \cup {Idle}
  BY PublishAssumption DEF Init, NoMark, NoTimer
<1>4. /\ assets \in [Variant -> Data]
      /\ config \in [Variant -> Config \cup {NoConfig}]
      /\ daemonSet \in [variant : Variant, mount : BOOLEAN] \cup {NoDaemonSet}
      /\ unused \in [Variant -> [Key -> 0..Grace]]
  <2>1. CASE NothingPublished
    BY <2>1, NoDataFacts, PublishAssumption DEF NothingPublished
  <2>2. ASSUME NEW pipes \in Selections, PublishedUnmarked(pipes)
        PROVE  <1>4!1 /\ <1>4!2 /\ <1>4!3 /\ <1>4!4
    <3>1. pipes \in SUBSET Pipeline
      BY PublishAssumption
    <3>2. Stage(NoData, values, pipes) \in Data
      BY <3>1, <1>2, StageFacts, NoDataFacts
    <3> QED
      BY <2>2, <3>1, <3>2, <1>1, NoDataFacts, PublishAssumption
         DEF PublishedUnmarked, Config, Variant
  <2> QED
    BY <2>1, <2>2 DEF Init
<1> QED
  BY <1>1, <1>2, <1>3, <1>4 DEF TypeOK

(* One step per action.                                                    *)
LEMMA TypeStep == TypeOK /\ [Next]_vars => TypeOK'
<1> SUFFICES ASSUME TypeOK, [Next]_vars PROVE TypeOK'
  OBVIOUS
<1> USE PublishAssumption
<1>1. CASE ChangePipelines
  BY <1>1 DEF ChangePipelines, Edit, TypeOK, cluster
<1>2. CASE RotateValue
  BY <1>2 DEF RotateValue, Edit, TypeOK, cluster, Length
<1>3. CASE SwitchMode
  BY <1>3 DEF SwitchMode, Edit, TypeOK, cluster
<1>4. CASE StartRound
  <2>1. PICK target \in SUBSET wanted : \E room \in [Managed -> SUBSET target] :
           \E staged \in [Managed -> SUBSET Bridge(target, room)],
              altBuilt \in IF AltMayFail THEN BOOLEAN ELSE {TRUE} :
              round' = PlannedRound(Bridge(target, room), migration /\ altBuilt,
                                    BridgeData(staged))
    BY <1>4 DEF StartRound
  <2>2. PICK room \in [Managed -> SUBSET target] :
           \E staged \in [Managed -> SUBSET Bridge(target, room)],
              altBuilt \in IF AltMayFail THEN BOOLEAN ELSE {TRUE} :
              round' = PlannedRound(Bridge(target, room), migration /\ altBuilt,
                                    BridgeData(staged))
    BY <2>1
  <2>3. PICK staged \in [Managed -> SUBSET Bridge(target, room)],
             altBuilt \in IF AltMayFail THEN BOOLEAN ELSE {TRUE} :
           round' = PlannedRound(Bridge(target, room), migration /\ altBuilt,
                                 BridgeData(staged))
    BY <2>2
  <2>4. Bridge(target, room) \in SUBSET Pipeline
    BY DEF Bridge, TypeOK
  <2>5. BridgeData(staged) \in [Variant -> Data]
    <3>1. \A v \in Managed : Stage(assets[v], values, staged[v]) \in Data
      BY <2>4, StageFacts, VariantFacts DEF TypeOK
    <3> QED
      BY <3>1, NoDataFacts DEF BridgeData
  <2>6. round' \in Round
    BY <2>3, <2>4, <2>5, PlannedRoundType DEF TypeOK
  <2> QED
    BY <2>6, <1>4 DEF StartRound, TypeOK, inputs, cluster
<1>5. CASE RejectConfig
  BY <1>5 DEF RejectConfig, TypeOK, inputs, cluster
<1>6. CASE AcceptConfig
  <2>1. round' \in Round
    BY <1>6, AdvanceType DEF AcceptConfig, Steps
  <2> QED
    BY <1>6, <2>1 DEF AcceptConfig, TypeOK, inputs, cluster
<1>7. CASE WriteAssets
  <2>1. round \in Round /\ round' \in Round
    BY <1>7, AdvanceType DEF WriteAssets, Steps
  <2>2. assets' \in [Variant -> Data] /\ queued' \in BOOLEAN
    BY <1>7, <2>1, VariantFacts DEF WriteAssets, PutAssets, Notify, Round, TypeOK
  <2> QED
    BY <1>7, <2>1, <2>2 DEF WriteAssets, TypeOK, inputs
<1>8. CASE WriteAltAssets
  <2>1. round \in Round /\ round' \in Round
    BY <1>8, AdvanceType DEF WriteAltAssets, Steps
  <2>2. assets' \in [Variant -> Data] /\ queued' \in BOOLEAN
    BY <1>8, <2>1, VariantFacts, NoDataFacts
       DEF WriteAltAssets, PutAssets, Notify, Round, TypeOK
  <2> QED
    BY <1>8, <2>1, <2>2 DEF WriteAltAssets, TypeOK, inputs
<1>9. CASE StampPublishing
  <2>1. round' \in Round
    BY <1>9, AdvanceType DEF StampPublishing, Steps
  <2>2. mark' \in NoMark..Grace /\ cachedMark' \in NoMark..Grace
    BY <1>9 DEF StampPublishing, PatchMark, TypeOK, NoMark
  <2> QED
    BY <1>9, <2>1, <2>2 DEF StampPublishing, TypeOK, inputs, cluster
<1>10. CASE WriteConfig
  <2>1. round \in Round /\ round' \in Round
    BY <1>10, AdvanceType DEF WriteConfig, Steps
  <2>2. [pipes |-> round.pipes, opt |-> round.opt] \in Config
    BY <2>1 DEF Round, Config
  <2>3. config' \in [Variant -> Config \cup {NoConfig}] /\ queued' \in BOOLEAN
    BY <1>10, <2>2, VariantFacts DEF WriteConfig, PutConfig, Notify, TypeOK
  <2>4. unused' \in [Variant -> [Key -> 0..Grace]]
    BY <1>10, VariantFacts DEF WriteConfig, PutConfig, TypeOK
  <2> QED
    BY <1>10, <2>1, <2>3, <2>4 DEF WriteConfig, TypeOK, inputs
<1>11. CASE WriteAltConfig
  <2>1. round \in Round /\ round' \in Round
    BY <1>11, AdvanceType DEF WriteAltConfig, Steps
  <2>2. [pipes |-> round.pipes, opt |-> ~round.opt] \in Config
    BY <2>1 DEF Round, Config
  <2>3. config' \in [Variant -> Config \cup {NoConfig}] /\ queued' \in BOOLEAN
    BY <1>11, <2>2, VariantFacts DEF WriteAltConfig, PutConfig, Notify, TypeOK
  <2>4. unused' \in [Variant -> [Key -> 0..Grace]]
    BY <1>11, VariantFacts DEF WriteAltConfig, PutConfig, TypeOK
  <2> QED
    BY <1>11, <2>1, <2>3, <2>4 DEF WriteAltConfig, TypeOK, inputs
<1>12. CASE WriteDaemonSet
  <2>1. round' \in Round
    BY <1>12, AdvanceType DEF WriteDaemonSet, Template, Steps
  <2>2. /\ daemonSet' \in [variant : Variant, mount : BOOLEAN] \cup {NoDaemonSet}
        /\ queued' \in BOOLEAN
    BY <1>12, VariantFacts DEF WriteDaemonSet, Template, Notify, TypeOK
  <2> QED
    BY <1>12, <2>1, <2>2 DEF WriteDaemonSet, Template, TypeOK, inputs
<1>13. CASE FinishRound
  <2>1. round \in Round
    BY <1>13 DEF FinishRound, TypeOK, Idle
  <2>2. mark' \in NoMark..Grace /\ cachedMark' \in NoMark..Grace
    BY <1>13 DEF FinishRound, PatchMark, TypeOK, NoMark
  <2>3. timer' \in NoTimer..Grace
    BY <1>13, <2>1 DEF FinishRound, TypeOK, Round, NoTimer
  <2> QED
    BY <1>13, <2>2, <2>3 DEF FinishRound, TypeOK, inputs, cluster
<1>14. CASE KeepLeftoverConfig
  <2>1. round' \in Round
    BY <1>14, AdvanceType DEF KeepLeftoverConfig, Steps
  <2> QED
    BY <1>14, <2>1 DEF KeepLeftoverConfig, TypeOK, inputs, cluster
<1>15. CASE FailRound
  BY <1>15 DEF FailRound, TypeOK, inputs, cluster
<1>16. CASE Restart
  BY <1>16 DEF Restart, TypeOK, inputs, cluster, NoTimer
<1>17. CASE SyncCache
  BY <1>17 DEF SyncCache, TypeOK, inputs, cluster
<1>18. CASE Tick
  <2>1. \A a \in NoMark..Grace : Older1(a) \in NoMark..Grace
    BY DEF Older1, NoMark
  <2>2. mark' \in NoMark..Grace /\ cachedMark' \in NoMark..Grace
    BY <1>18, <2>1 DEF Tick, TypeOK
  <2>3. \A a \in 0..Grace : Older1(a) \in 0..Grace
    BY DEF Older1, NoMark
  <2>4. unused' \in [Variant -> [Key -> 0..Grace]]
    BY <1>18, <2>3 DEF Tick, TypeOK
  <2>5. timer' \in NoTimer..Grace
    BY <1>18 DEF Tick, TypeOK, NoTimer
  <2>6. round' \in Round \cup {Idle}
    <3>1. CASE Publishing
      <4>1. round \in Round
        BY <3>1 DEF Publishing, TypeOK, Idle
      <4>2. round.late + 1 \in 0..Latency
        BY <1>18, <3>1, <4>1 DEF Tick, Round
      <4>3. round' = [round EXCEPT !.late = round.late + 1]
        BY <1>18, <3>1 DEF Tick
      <4> QED
        BY <4>1, <4>2, <4>3 DEF Round
    <3>2. CASE ~Publishing
      BY <1>18, <3>2 DEF Tick, TypeOK
    <3> QED
      BY <3>1, <3>2
  <2> QED
    BY <1>18, <2>2, <2>4, <2>5, <2>6 DEF Tick, TypeOK, inputs
<1>19. CASE RequeueExpires
  BY <1>19 DEF RequeueExpires, TypeOK, inputs, cluster, NoTimer
<1>20. CASE UNCHANGED vars
  BY <1>20 DEF vars, inputs, cluster, TypeOK
<1> QED
  BY <1>1, <1>2, <1>3, <1>4, <1>5, <1>6, <1>7, <1>8, <1>9, <1>10, <1>11, <1>12,
     <1>13, <1>14, <1>15, <1>16, <1>17, <1>18, <1>19, <1>20 DEF Next, Step

(* Every reachable state has the declared types: ages and timers stay      *)
(* within the grace period, and a round always has a step to take next.    *)
THEOREM TypeCorrect == Spec => []TypeOK
BY TypeInit, TypeStep, PTL DEF Spec

-----------------------------------------------------------------------------
(* The plan of a round, with or without checkpoint migration.              *)

(* A step of the round that advances it changes nothing else in it.        *)
LEMMA AdvanceFields ==
    ASSUME TypeOK, round.pc \in Steps \ {"status"}, Advance
    PROVE  /\ round # Idle /\ round' # Idle
           /\ round.order \in Orders
           /\ round.data["legacy"] \in Data
           /\ round'.order = round.order
           /\ round'.data = round.data
           /\ round'.pipes = round.pipes
           /\ round'.pc = NextStep[round.order][round.pc]
<1>1. round \in Round /\ round' = [round EXCEPT !.pc = NextStep[round.order][round.pc]]
  BY AdvanceType
<1>2. NextStep[round.order][round.pc] \in Steps
  BY <1>1, NextStepType DEF Round
<1>3. round' \in Round
  BY AdvanceType
<1>4. /\ round'.order = round.order /\ round'.data = round.data
      /\ round'.pipes = round.pipes /\ round'.pc = NextStep[round.order][round.pc]
  BY <1>1 DEF Round
<1>5. round # Idle /\ round' # Idle
  BY <1>2, <1>4 DEF Idle, Steps
<1> QED
  BY <1>1, <1>4, <1>5 DEF Round, Variant

(* The step lists of the three orders, for the provers.                    *)
LEMMA NextStepValues ==
    /\ NextStep["gaining"]["check"] = "assets"
    /\ NextStep["gaining"]["assets"] = "altAssets"
    /\ NextStep["gaining"]["altAssets"] = "daemonSet"
    /\ NextStep["gaining"]["daemonSet"] = "stamp"
    /\ NextStep["gaining"]["stamp"] = "config"
    /\ NextStep["gaining"]["config"] = "altConfig"
    /\ NextStep["gaining"]["altConfig"] = "status"
    /\ NextStep["losing"]["check"] = "stamp"
    /\ NextStep["losing"]["stamp"] = "config"
    /\ NextStep["losing"]["config"] = "altConfig"
    /\ NextStep["losing"]["altConfig"] = "daemonSet"
    /\ NextStep["losing"]["daemonSet"] = "assets"
    /\ NextStep["losing"]["assets"] = "altAssets"
    /\ NextStep["losing"]["altAssets"] = "status"
    /\ NextStep["keeping"]["check"] = "assets"
    /\ NextStep["keeping"]["assets"] = "altAssets"
    /\ NextStep["keeping"]["altAssets"] = "stamp"
    /\ NextStep["keeping"]["stamp"] = "config"
    /\ NextStep["keeping"]["config"] = "altConfig"
    /\ NextStep["keeping"]["altConfig"] = "daemonSet"
    /\ NextStep["keeping"]["daemonSet"] = "status"
BY DEF NextStep

(* The decisions of a round that starts: target is what resolution left,   *)
(* room and staged are the two passes of planSecretAssetsBridge.           *)
Chosen(target, room, staged, altBuilt) ==
    /\ Greedy(NoData, values, wanted, target)
    /\ \A v \in Managed :
          /\ Greedy(assets[v], values, target, room[v])
          /\ Greedy(assets[v], values, Bridge(target, room), staged[v])
    /\ round' = PlannedRound(Bridge(target, room), altBuilt, BridgeData(staged))

(* Every round starts from such decisions.                                 *)
LEMMA StartChoices ==
    ASSUME TypeOK, StartRound
    PROVE  \E target \in SUBSET Pipeline : \E room \in [Managed -> SUBSET target] :
           \E staged \in [Managed -> SUBSET Bridge(target, room)] :
           \E altBuilt \in BOOLEAN :
              /\ Chosen(target, room, staged, altBuilt)
              /\ Bridge(target, room) \in SUBSET target
              /\ BridgeData(staged) \in [Variant -> Data]
              /\ altBuilt => migration
              /\ ~AltMayFail => (migration => altBuilt)
<1>1. PICK target \in SUBSET wanted :
         /\ Greedy(NoData, values, wanted, target)
         /\ \E room \in [Managed -> SUBSET target] :
               /\ \A v \in Managed : Greedy(assets[v], values, target, room[v])
               /\ \E staged \in [Managed -> SUBSET Bridge(target, room)],
                     altBuilt \in IF AltMayFail THEN BOOLEAN ELSE {TRUE} :
                     /\ \A v \in Managed :
                           Greedy(assets[v], values, Bridge(target, room), staged[v])
                     /\ round' = PlannedRound(Bridge(target, room), migration /\ altBuilt,
                                              BridgeData(staged))
  BY DEF StartRound
<1>2. PICK room \in [Managed -> SUBSET target] :
         /\ \A v \in Managed : Greedy(assets[v], values, target, room[v])
         /\ \E staged \in [Managed -> SUBSET Bridge(target, room)],
               altBuilt \in IF AltMayFail THEN BOOLEAN ELSE {TRUE} :
               /\ \A v \in Managed :
                     Greedy(assets[v], values, Bridge(target, room), staged[v])
               /\ round' = PlannedRound(Bridge(target, room), migration /\ altBuilt,
                                        BridgeData(staged))
  BY <1>1
<1>3. PICK staged \in [Managed -> SUBSET Bridge(target, room)],
           altBuilt \in IF AltMayFail THEN BOOLEAN ELSE {TRUE} :
         /\ \A v \in Managed : Greedy(assets[v], values, Bridge(target, room), staged[v])
         /\ round' = PlannedRound(Bridge(target, room), migration /\ altBuilt,
                                  BridgeData(staged))
  BY <1>2
<1>4. Chosen(target, room, staged, migration /\ altBuilt)
  BY <1>1, <1>2, <1>3 DEF Chosen
<1>5. target \in SUBSET Pipeline /\ Bridge(target, room) \in SUBSET target
  BY DEF Bridge, TypeOK
<1>6. \A v \in Managed : Stage(assets[v], values, staged[v]) \in Data
  <2> TAKE v \in Managed
  <2>1. assets[v] \in Data /\ values \in [Key -> Length]
    BY VariantFacts DEF TypeOK
  <2>2. staged[v] \in SUBSET Pipeline
    BY <1>3, <1>5
  <2> QED
    BY <2>1, <2>2, StageFacts
<1>7. BridgeData(staged) \in [Variant -> Data]
  BY <1>6, NoDataFacts DEF BridgeData
<1>8. (migration /\ altBuilt) \in BOOLEAN
  OBVIOUS
<1>9. ~AltMayFail => (migration => altBuilt)
  BY <1>3
<1> QED
  BY <1>4, <1>5, <1>7, <1>8, <1>9

(* What the round takes over from its plan.                                *)
LEMMA PlanFields ==
    ASSUME NEW pipes, NEW altBuilt, NEW bridged
    PROVE  LET plan == PlannedRound(pipes, altBuilt, bridged)
               exact == Stage(NoData, values, pipes)
               unchanged == AllConfigsUnchanged(pipes, altBuilt)
               wouldDrop == \E v \in Managed : WouldDropAKey(assets[v], exact)
           IN  /\ plan.pc = "check" /\ plan.opt = optimize /\ plan.pipes = pipes
               /\ plan.altBuilt = altBuilt
               /\ plan.publishing = ~unchanged
               /\ plan.data = IF ~wouldDrop \/ MayPrune(unchanged)
                              THEN [v \in Variant |-> exact] ELSE bridged
               /\ plan.order = WriteOrder(optimize, plan.data[Primary(optimize)])
               /\ plan.late = 0
               /\ plan.requeue = IF wouldDrop THEN RequeueAfter(unchanged) ELSE 0
               /\ plan # Idle
BY DEF PlannedRound, Idle

-----------------------------------------------------------------------------
(* The budgets, with or without checkpoint migration.                      *)

(* The inductive invariant behind StagedDataFits: what a round is about to *)
(* write fits as well.                                                     *)
FitsInv ==
    /\ StagedDataFits
    /\ round # Idle => \A v \in Variant : Fits(round.data[v])

LEMMA FitsInit == Init => FitsInv
<1> SUFFICES ASSUME Init PROVE FitsInv
  OBVIOUS
<1>1. CASE NothingPublished
  BY <1>1, NoDataFits DEF NothingPublished, Init, FitsInv, StagedDataFits
<1>2. ASSUME NEW pipes \in Selections, PublishedUnmarked(pipes)
      PROVE  FitsInv
  BY <1>2, NoDataFits DEF PublishedUnmarked, Init, FitsInv, StagedDataFits
<1> QED
  BY <1>1, <1>2 DEF Init

(* Everything a round may stage fits: a bridge is the outcome of a pass    *)
(* over what is there, and the exact target is part of what resolution     *)
(* accepted from nothing.                                                  *)
LEMMA FitsStart ==
    ASSUME TypeOK, FitsInv, StartRound
    PROVE  \A v \in Variant : Fits(round'.data[v])
<1>1. PICK target \in SUBSET Pipeline : \E room \in [Managed -> SUBSET target] :
      \E staged \in [Managed -> SUBSET Bridge(target, room)] : \E altBuilt \in BOOLEAN :
         /\ Chosen(target, room, staged, altBuilt)
         /\ Bridge(target, room) \in SUBSET target
  BY StartChoices
<1>2. PICK room \in [Managed -> SUBSET target] :
      \E staged \in [Managed -> SUBSET Bridge(target, room)] : \E altBuilt \in BOOLEAN :
         /\ Chosen(target, room, staged, altBuilt)
         /\ Bridge(target, room) \in SUBSET target
  BY <1>1
<1> DEFINE pipes == Bridge(target, room)
<1>3. PICK staged \in [Managed -> SUBSET pipes], altBuilt \in BOOLEAN :
         /\ Chosen(target, room, staged, altBuilt)
         /\ pipes \in SUBSET target
  BY <1>2
<1>4. /\ Greedy(NoData, values, wanted, target)
      /\ \A v \in Managed : Greedy(assets[v], values, pipes, staged[v])
      /\ round' = PlannedRound(pipes, altBuilt, BridgeData(staged))
  BY <1>3 DEF Chosen
<1> HIDE DEF pipes
<1>5. values \in [Key -> Length] /\ wanted \in SUBSET Pipeline /\ pipes \in SUBSET Pipeline
  BY <1>3 DEF TypeOK
<1>6. Fits(Stage(NoData, values, pipes))
  <2>1. Fits(Stage(NoData, values, target))
    BY <1>4, <1>5, NoDataFacts, NoDataFits, GreedyFits
  <2> QED
    BY <1>3, <1>5, <2>1, NoDataFacts, StageMonotone
<1>7. \A v \in Variant : Fits(BridgeData(staged)[v])
  <2>1. \A v \in Managed : Fits(Stage(assets[v], values, staged[v]))
    <3> TAKE v \in Managed
    <3>1. assets[v] \in Data /\ Fits(assets[v])
      BY VariantFacts DEF TypeOK, FitsInv, StagedDataFits
    <3> QED
      BY <1>4, <1>5, <3>1, GreedyFits
  <2> QED
    BY <2>1, NoDataFits DEF BridgeData
<1>8. \/ round'.data = [v \in Variant |-> Stage(NoData, values, pipes)]
      \/ round'.data = BridgeData(staged)
  BY <1>4 DEF PlannedRound
<1> QED
  BY <1>6, <1>7, <1>8

LEMMA FitsStep == TypeOK /\ FitsInv /\ [Next]_vars => FitsInv'
<1> SUFFICES ASSUME TypeOK, FitsInv, [Next]_vars PROVE FitsInv'
  OBVIOUS
<1>1. CASE UNCHANGED assets /\ round' \in {round, Idle}
  BY <1>1 DEF FitsInv, StagedDataFits
<1>2. CASE UNCHANGED assets /\ round.pc \in Steps \ {"status"} /\ Advance
  BY <1>2, AdvanceFields DEF FitsInv, StagedDataFits
<1>3. CASE StartRound
  BY <1>3, FitsStart DEF StartRound, cluster, FitsInv, StagedDataFits
<1>4. CASE WriteAssets \/ WriteAltAssets
  <2>1. round.pc \in Steps \ {"status"} /\ Advance
    BY <1>4 DEF WriteAssets, WriteAltAssets, Steps
  <2>2. round # Idle /\ round' # Idle /\ round'.data = round.data
    BY <2>1, AdvanceFields
  <2>3. PICK w \in Variant : \E d : Fits(d) /\ assets' = [assets EXCEPT ![w] = d]
    <3>1. CASE WriteAssets
      BY <3>1, <2>2, VariantFacts DEF WriteAssets, PutAssets, FitsInv
    <3>2. CASE WriteAltAssets
      BY <3>2, <2>2, VariantFacts, NoDataFits
         DEF WriteAltAssets, PutAssets, FitsInv, StagedDataFits
    <3> QED
      BY <1>4, <3>1, <3>2
  <2>4. StagedDataFits'
    BY <2>3 DEF FitsInv, StagedDataFits, TypeOK
  <2> QED
    BY <2>2, <2>4 DEF FitsInv
<1>5. CASE Tick
  <2>1. UNCHANGED assets
    BY <1>5 DEF Tick
  <2>2. CASE Publishing
    <3>1. round \in Round /\ round # Idle
      BY <2>2 DEF Publishing, TypeOK, Idle
    <3>2. round' = [round EXCEPT !.late = round.late + 1]
      BY <1>5, <2>2 DEF Tick
    <3>3. round'.data = round.data
      BY <3>1, <3>2 DEF Round
    <3> QED
      BY <2>1, <3>1, <3>3 DEF FitsInv, StagedDataFits
  <2>3. CASE ~Publishing
    BY <1>1, <1>5, <2>1, <2>3 DEF Tick
  <2> QED
    BY <2>2, <2>3
<1>6. CASE ChangePipelines \/ RotateValue \/ SwitchMode \/ RejectConfig \/ FinishRound
           \/ FailRound \/ Restart \/ SyncCache \/ RequeueExpires \/ UNCHANGED vars
  BY <1>1, <1>6 DEF ChangePipelines, RotateValue, SwitchMode, Edit, RejectConfig, FinishRound,
                    FailRound, Restart, SyncCache, RequeueExpires, cluster, vars
<1>7. CASE AcceptConfig \/ StampPublishing \/ WriteConfig \/ WriteAltConfig
           \/ WriteDaemonSet \/ KeepLeftoverConfig
  BY <1>2, <1>7 DEF AcceptConfig, StampPublishing, WriteConfig, WriteAltConfig,
                    WriteDaemonSet, KeepLeftoverConfig, cluster, Steps
<1> QED
  BY <1>3, <1>4, <1>5, <1>6, <1>7 DEF Next, Step

(* Whatever the pipelines, the lengths of their secrets, the budgets and   *)
(* the flag, through rotations, mode switches, failed writes, restarts and *)
(* upgrades: what an assets Secret holds is within both budgets, so the    *)
(* API server accepts every write of ensureVectorAgentSecretAssets.        *)
THEOREM StagedDataAlwaysFits == Spec => []StagedDataFits
<1>1. FitsInv => StagedDataFits
  BY DEF FitsInv
<1> QED
  BY <1>1, FitsInit, FitsStep, TypeCorrect, PTL DEF Spec

-----------------------------------------------------------------------------
(* The mount, with or without checkpoint migration.                        *)

(* The variant a round publishes for the DaemonSet, and its counterpart.   *)
Active == Primary(round.opt)
Dormant == Standby(round.opt)

(* What the mount relies on, for either mode and in each order: a round    *)
(* without data publishes no reference (EmptyPlan), a config with          *)
(* references is written when the template mounts the assets of the active *)
(* variant (MountedFirst), and a template without the mount is written     *)
(* when the active config has been (UnmountedLast).                        *)
EmptyPlan ==
    round # Idle /\ round.data[Active] = NoData => KeysOf(round.pipes) = {}

MountedFirst ==
    round # Idle /\ round.data[Active] # NoData =>
        /\ round.order \in {"gaining", "keeping"}
        /\ \/ round.order = "gaining" /\ round.pc \in {"check", "assets", "altAssets", "daemonSet"}
           \/ daemonSet = [variant |-> Active, mount |-> TRUE]

UnmountedLast ==
    round # Idle /\ round.data[Active] = NoData =>
        /\ round.order \in {"losing", "keeping"}
        /\ round.pc \in {"altConfig", "daemonSet"} => config[Active].pipes = round.pipes

MountInv == MountCoversReferences /\ EmptyPlan /\ MountedFirst /\ UnmountedLast

(* A step of the round keeps its plan.                                     *)
LEMMA AdvanceKeeps ==
    ASSUME TypeOK, round.pc \in Steps \ {"status"}, Advance, UNCHANGED migration
    PROVE  /\ round \in Round /\ round' \in Round
           /\ round'.opt = round.opt /\ round'.altBuilt = round.altBuilt
           /\ round'.publishing = round.publishing /\ round'.late = round.late
           /\ round'.requeue = round.requeue /\ round'.stale = round.stale
           /\ Active' = Active /\ Dormant' = Dormant
           /\ Active \in Variant /\ Dormant \in Variant /\ Active # Dormant
<1>1. /\ round \in Round /\ round' \in Round
      /\ round' = [round EXCEPT !.pc = NextStep[round.order][round.pc]]
  BY AdvanceType
<1>2. /\ round'.opt = round.opt /\ round'.altBuilt = round.altBuilt
      /\ round'.publishing = round.publishing /\ round'.late = round.late
      /\ round'.requeue = round.requeue /\ round'.stale = round.stale
  BY <1>1 DEF Round
<1> QED
  BY <1>1, <1>2 DEF Active, Dormant, Primary, Standby, Variant

(* Time passes without touching the plan of a round.                       *)
LEMMA TickKeeps ==
    ASSUME TypeOK, Tick
    PROVE  /\ round' = Idle <=> round = Idle
           /\ round # Idle =>
                 /\ round'.pc = round.pc /\ round'.opt = round.opt
                 /\ round'.pipes = round.pipes /\ round'.altBuilt = round.altBuilt
                 /\ round'.data = round.data /\ round'.publishing = round.publishing
                 /\ round'.order = round.order /\ round.late \in Nat
                 /\ round'.requeue = round.requeue /\ round'.stale = round.stale
                 /\ Publishing => round'.late = round.late + 1
                 /\ Active' = Active /\ Dormant' = Dormant
<1>0. UNCHANGED migration
  BY DEF Tick
<1>1. CASE Publishing
  <2>1. round \in Round /\ round # Idle
    BY <1>1 DEF Publishing, TypeOK, Idle
  <2>2. round' = [round EXCEPT !.late = round.late + 1]
    BY <1>1 DEF Tick
  <2>3. /\ round'.pc = round.pc /\ round'.opt = round.opt
        /\ round'.pipes = round.pipes /\ round'.altBuilt = round.altBuilt
        /\ round'.data = round.data /\ round'.publishing = round.publishing
        /\ round'.order = round.order /\ round.late \in Nat
        /\ round'.requeue = round.requeue /\ round'.stale = round.stale
        /\ round'.late = round.late + 1
    BY <2>1, <2>2 DEF Round
  <2>4. round' # Idle
    BY <1>1, <2>3 DEF Publishing, Idle
  <2> QED
    BY <1>0, <2>1, <2>3, <2>4 DEF Active, Dormant, Primary, Standby
<1>2. CASE ~Publishing
  <2>1. round' = round
    BY <1>2 DEF Tick
  <2>2. round # Idle => round.late \in Nat
    BY DEF TypeOK, Round
  <2> QED
    BY <1>0, <1>2, <2>1, <2>2 DEF Active, Dormant, Primary, Standby
<1> QED
  BY <1>1, <1>2

(* A pass over part of what fits as a whole from nothing accepts it all.   *)
LEMMA GreedyWhole ==
    ASSUME NEW vals \in [Key -> Length], NEW T \in SUBSET Pipeline, NEW P \in SUBSET T,
           NEW A, Fits(Stage(NoData, vals, T)), Greedy(NoData, vals, P, A)
    PROVE  A = P
<1>1. A \subseteq P
  BY DEF Greedy
<1>2. ASSUME NEW p \in P PROVE p \in A
  <2> DEFINE Q == {q \in A : Older(q, p)} \cup {p}
  <2>1. Q \in SUBSET T
    BY <1>1
  <2>2. Fits(Stage(NoData, vals, Q))
    <3> HIDE DEF Q
    <3> QED
      BY <2>1, NoDataFacts, StageMonotone
  <2> QED
    BY <2>2 DEF Greedy
<1> QED
  BY <1>1, <1>2

(* A round that has nothing to stage has no reference to publish: what     *)
(* resolution accepted fits into an empty Secret as a whole.               *)
LEMMA EmptyPlanStart ==
    ASSUME TypeOK, StartRound
    PROVE  round'.data[Primary(optimize)] = NoData => KeysOf(round'.pipes) = {}
<1>1. PICK target \in SUBSET Pipeline : \E room \in [Managed -> SUBSET target] :
      \E staged \in [Managed -> SUBSET Bridge(target, room)] : \E altBuilt \in BOOLEAN :
         /\ Chosen(target, room, staged, altBuilt)
         /\ Bridge(target, room) \in SUBSET target
  BY StartChoices
<1>2. PICK room \in [Managed -> SUBSET target] :
      \E staged \in [Managed -> SUBSET Bridge(target, room)] : \E altBuilt \in BOOLEAN :
         /\ Chosen(target, room, staged, altBuilt)
         /\ Bridge(target, room) \in SUBSET target
  BY <1>1
<1> DEFINE pipes == Bridge(target, room)
           v == Primary(optimize)
<1>3. PICK staged \in [Managed -> SUBSET pipes], altBuilt \in BOOLEAN :
         /\ Chosen(target, room, staged, altBuilt)
         /\ pipes \in SUBSET target
  BY <1>2
<1>4. v \in Managed /\ v \in Variant
  BY DEF Primary, Managed, Variant
<1>5. /\ Greedy(NoData, values, wanted, target)
      /\ Greedy(assets[v], values, pipes, staged[v])
      /\ round' = PlannedRound(pipes, altBuilt, BridgeData(staged))
  BY <1>3, <1>4 DEF Chosen
<1> HIDE DEF pipes
<1>6. /\ values \in [Key -> Length] /\ wanted \in SUBSET Pipeline /\ pipes \in SUBSET Pipeline
      /\ assets[v] \in Data /\ staged[v] \in SUBSET Pipeline
  BY <1>3, <1>4 DEF TypeOK
<1>7. /\ round'.pipes = pipes
      /\ \/ round'.data = [w \in Variant |-> Stage(NoData, values, pipes)]
         \/ round'.data = BridgeData(staged)
  BY <1>5 DEF PlannedRound
<1>8. CASE round'.data = [w \in Variant |-> Stage(NoData, values, pipes)]
  BY <1>4, <1>6, <1>7, <1>8, ExactFacts, NoDataFacts
<1>9. CASE round'.data = BridgeData(staged)
  <2>1. SUFFICES ASSUME round'.data[v] = NoData PROVE KeysOf(pipes) = {}
    BY <1>7
  <2>2. Stage(assets[v], values, staged[v]) = NoData
    BY <1>4, <1>9, <2>1 DEF BridgeData
  <2>3. DOMAIN assets[v] = {} /\ KeysOf(staged[v]) = {}
    <3>1. DOMAIN Stage(assets[v], values, staged[v]) = DOMAIN assets[v] \cup KeysOf(staged[v])
      BY <1>6, StageFacts
    <3> QED
      BY <2>2, <3>1, NoDataFacts
  <2>4. Greedy(NoData, values, pipes, staged[v])
    BY <1>5, <1>6, <2>3, NoDataFacts
  <2>5. Fits(Stage(NoData, values, target))
    BY <1>5, <1>6, NoDataFacts, NoDataFits, GreedyFits
  <2>6. staged[v] = pipes
    BY <1>3, <1>6, <2>4, <2>5, GreedyWhole
  <2> QED
    BY <2>3, <2>6
<1> HIDE DEF v
<1> QED
  BY <1>7, <1>8, <1>9 DEF v

LEMMA MountInit == Init => MountInv
<1> SUFFICES ASSUME Init PROVE MountInv
  OBVIOUS
<1>1. EmptyPlan /\ MountedFirst /\ UnmountedLast
  BY DEF Init, EmptyPlan, MountedFirst, UnmountedLast
<1>2. CASE NothingPublished
  <2>1. daemonSet = NoDaemonSet
    BY <1>2 DEF NothingPublished
  <2> QED
    BY <1>1, <2>1 DEF MountInv, MountCoversReferences
<1>3. ASSUME NEW pipes \in Selections, PublishedUnmarked(pipes)
      PROVE  MountCoversReferences
  <2>1. /\ config["legacy"].pipes = pipes
        /\ daemonSet.variant = "legacy" /\ daemonSet.mount = (KeysOf(pipes) # {})
    BY <1>3 DEF PublishedUnmarked, Variant
  <2> QED
    BY <2>1 DEF MountCoversReferences, Referenced
<1> QED
  BY <1>1, <1>2, <1>3 DEF Init, MountInv

LEMMA MountStep == TypeOK /\ MountInv /\ [Next]_vars => MountInv'
<1> SUFFICES ASSUME TypeOK, MountInv, [Next]_vars PROVE MountInv'
  OBVIOUS
<1>0. ASSUME UNCHANGED config, UNCHANGED daemonSet, round' = Idle
      PROVE  MountInv'
  BY <1>0 DEF MountInv, MountCoversReferences, Referenced, EmptyPlan, MountedFirst, UnmountedLast
<1>1. ASSUME UNCHANGED <<migration, config, daemonSet, round>>
      PROVE  MountInv'
  <2>1. Active' = Active
    BY <1>1 DEF Active, Primary
  <2> QED
    BY <1>1, <2>1 DEF MountInv, MountCoversReferences, Referenced, EmptyPlan, MountedFirst,
                      UnmountedLast
<1>2. ASSUME UNCHANGED <<migration, config, daemonSet>>, Advance,
             \/ round.pc \in {"check", "assets", "altAssets", "stamp"}
             \/ round.pc = "altConfig"
      PROVE  MountInv'
  <2>1. round.pc \in Steps \ {"status"}
    BY <1>2 DEF Steps
  <2>2. /\ round # Idle /\ round' # Idle /\ round.order \in Orders
        /\ round'.order = round.order /\ round'.data = round.data
        /\ round'.pipes = round.pipes /\ round'.pc = NextStep[round.order][round.pc]
        /\ Active' = Active
    BY <1>2, <2>1, AdvanceFields, AdvanceKeeps
  <2>3. MountCoversReferences'
    BY <1>2 DEF MountInv, MountCoversReferences, Referenced
  <2>4. EmptyPlan'
    BY <2>2 DEF MountInv, EmptyPlan
  <2>5. MountedFirst'
    BY <1>2, <2>2, NextStepValues DEF MountInv, MountedFirst, Orders
  <2>6. UnmountedLast'
    BY <1>2, <2>2, NextStepValues DEF MountInv, UnmountedLast, Orders
  <2> QED
    BY <2>3, <2>4, <2>5, <2>6 DEF MountInv
<1>3. CASE StartRound
  <2>1. UNCHANGED <<migration, config, daemonSet>>
    BY <1>3 DEF StartRound, cluster
  <2>2. /\ round'.pc = "check" /\ round'.opt = optimize
        /\ round'.order = WriteOrder(optimize, round'.data[Primary(optimize)])
    BY <1>3, StartChoices, PlanFields DEF Chosen
  <2>3. Active' = Primary(optimize)
    BY <2>1, <2>2 DEF Active, Primary
  <2>4. MountCoversReferences'
    BY <2>1 DEF MountInv, MountCoversReferences, Referenced
  <2>5. EmptyPlan'
    BY <1>3, <2>3, EmptyPlanStart DEF EmptyPlan
  <2>6. MountedFirst' /\ UnmountedLast'
    BY <2>1, <2>2, <2>3 DEF MountedFirst, UnmountedLast, WriteOrder
  <2> QED
    BY <2>4, <2>5, <2>6 DEF MountInv
<1>4. CASE WriteConfig
  <2>1. round.pc = "config" /\ Advance /\ UNCHANGED <<migration, daemonSet>>
    BY <1>4 DEF WriteConfig
  <2>2. /\ round # Idle /\ round' # Idle /\ round.order \in Orders
        /\ round'.order = round.order /\ round'.data = round.data
        /\ round'.pipes = round.pipes /\ round'.pc = "altConfig"
        /\ Active' = Active /\ Active \in Variant
    BY <2>1, AdvanceFields, AdvanceKeeps, NextStepValues DEF Steps, Orders
  <2>3. config' = [config EXCEPT ![Active] = [pipes |-> round.pipes, opt |-> round.opt]]
    BY <1>4 DEF WriteConfig, PutConfig, Active
  <2>4. /\ config'[Active].pipes = round.pipes
        /\ \A v \in Variant \ {Active} : config'[v] = config[v]
    BY <2>2, <2>3 DEF TypeOK
  <2>5. MountCoversReferences'
    <3>1. SUFFICES ASSUME daemonSet # NoDaemonSet, KeysOf(config'[daemonSet.variant].pipes) # {}
                   PROVE  daemonSet.mount
      BY <2>1 DEF MountCoversReferences, Referenced
    <3>2. daemonSet.variant \in Variant
      BY <3>1 DEF TypeOK
    <3>3. CASE daemonSet.variant = Active
      <4>1. daemonSet = [variant |-> Active, mount |-> TRUE]
        BY <2>1, <2>2, <2>4, <3>1, <3>3 DEF MountInv, EmptyPlan, MountedFirst
      <4> QED
        BY <4>1
    <3>4. CASE daemonSet.variant # Active
      BY <2>4, <3>1, <3>2, <3>4 DEF MountInv, MountCoversReferences, Referenced
    <3> QED
      BY <3>3, <3>4
  <2>6. EmptyPlan' /\ MountedFirst' /\ UnmountedLast'
    BY <2>1, <2>2, <2>4 DEF MountInv, EmptyPlan, MountedFirst, UnmountedLast
  <2> QED
    BY <2>5, <2>6 DEF MountInv
<1>5. CASE WriteAltConfig
  <2>1. round.pc = "altConfig" /\ Advance /\ UNCHANGED <<migration, daemonSet>>
    BY <1>5 DEF WriteAltConfig
  <2>2. /\ round # Idle /\ round' # Idle /\ round.order \in Orders
        /\ round'.order = round.order /\ round'.data = round.data
        /\ round'.pipes = round.pipes /\ round'.pc \in {"status", "daemonSet"}
        /\ round'.pc = "daemonSet" => round.order # "gaining"
        /\ Active' = Active /\ Active \in Variant
        /\ Dormant \in Variant /\ Active # Dormant
    BY <2>1, AdvanceFields, AdvanceKeeps, NextStepValues DEF Steps, Orders
  <2>3. PICK c : /\ config' = [config EXCEPT ![Dormant] = c]
                 /\ c.pipes = {} \/ c.pipes = round.pipes \/ c = config[Dormant]
    <3>1. config' = [config EXCEPT ![Dormant] =
                       IF ~migration THEN NoConfig
                       ELSE IF round.altBuilt
                            THEN [pipes |-> round.pipes, opt |-> ~round.opt]
                            ELSE config[Dormant]]
      BY <1>5 DEF WriteAltConfig, PutConfig, Dormant
    <3>2. NoConfig.pipes = {} /\ [pipes |-> round.pipes, opt |-> ~round.opt].pipes = round.pipes
      BY DEF NoConfig
    <3> QED
      BY <3>1, <3>2
  <2>4. config'[Active] = config[Active] /\ config'[Dormant] = c
    BY <2>2, <2>3 DEF TypeOK
  <2>5. MountCoversReferences'
    <3>1. SUFFICES ASSUME daemonSet # NoDaemonSet, KeysOf(config'[daemonSet.variant].pipes) # {}
                   PROVE  daemonSet.mount
      BY <2>1 DEF MountCoversReferences, Referenced
    <3>2. daemonSet.variant \in {Active, Dormant}
      BY <2>2, <3>1 DEF TypeOK, Variant
    <3>3. CASE config'[daemonSet.variant] = config[daemonSet.variant]
      BY <3>1, <3>3 DEF MountInv, MountCoversReferences, Referenced
    <3>4. CASE daemonSet.variant = Dormant /\ c.pipes \in {{}, round.pipes}
      <4>1. KeysOf({}) = {}
        BY DEF KeysOf
      <4>2. KeysOf(round.pipes) # {}
        BY <2>4, <3>1, <3>4, <4>1
      <4>3. daemonSet = [variant |-> Active, mount |-> TRUE]
        BY <2>1, <2>2, <4>2 DEF MountInv, EmptyPlan, MountedFirst
      <4> QED
        BY <4>3
    <3> QED
      BY <2>3, <2>4, <3>2, <3>3, <3>4
  <2>6. EmptyPlan' /\ MountedFirst'
    BY <2>1, <2>2 DEF MountInv, EmptyPlan, MountedFirst
  <2>7. UnmountedLast'
    BY <2>1, <2>2, <2>4 DEF MountInv, UnmountedLast
  <2> QED
    BY <2>5, <2>6, <2>7 DEF MountInv
<1>6. CASE WriteDaemonSet
  <2>1. round.pc = "daemonSet" /\ Advance /\ UNCHANGED <<migration, config>>
    BY <1>6 DEF WriteDaemonSet
  <2>2. /\ round # Idle /\ round' # Idle /\ round.order \in Orders
        /\ round'.order = round.order /\ round'.data = round.data
        /\ round'.pipes = round.pipes /\ round'.pc \in {"stamp", "assets", "status"}
        /\ Active' = Active
    BY <2>1, AdvanceFields, AdvanceKeeps, NextStepValues DEF Steps, Orders
  <2>3. daemonSet' = [variant |-> Active, mount |-> round.data[Active] # NoData]
    BY <1>6 DEF WriteDaemonSet, Template, Active
  <2>4. MountCoversReferences'
    <3>1. CASE round.data[Active] # NoData
      BY <2>3, <3>1 DEF MountCoversReferences
    <3>2. CASE round.data[Active] = NoData
      <4>1. config[Active].pipes = round.pipes /\ KeysOf(round.pipes) = {}
        BY <2>1, <2>2, <3>2 DEF MountInv, EmptyPlan, UnmountedLast
      <4>2. daemonSet'.variant = Active
        BY <2>3
      <4> QED
        BY <2>1, <4>1, <4>2 DEF MountCoversReferences, Referenced
    <3> QED
      BY <3>1, <3>2
  <2>5. EmptyPlan' /\ UnmountedLast'
    BY <2>1, <2>2 DEF MountInv, EmptyPlan, UnmountedLast
  <2>6. MountedFirst'
    BY <2>2, <2>3 DEF MountInv, MountedFirst
  <2> QED
    BY <2>4, <2>5, <2>6 DEF MountInv
<1>7. CASE Tick
  <2>1. UNCHANGED <<migration, config, daemonSet>>
    BY <1>7 DEF Tick
  <2>2. MountCoversReferences'
    BY <2>1 DEF MountInv, MountCoversReferences, Referenced
  <2> QED
    BY <1>7, <2>1, <2>2, TickKeeps DEF MountInv, EmptyPlan, MountedFirst, UnmountedLast
<1>8. CASE ChangePipelines \/ RotateValue \/ SwitchMode \/ RejectConfig \/ FinishRound
           \/ FailRound \/ Restart \/ SyncCache \/ RequeueExpires \/ UNCHANGED vars
  <2>1. CASE RejectConfig \/ FinishRound \/ FailRound \/ Restart
    <3>1. UNCHANGED <<config, daemonSet>> /\ round' = Idle
      BY <2>1 DEF RejectConfig, FinishRound, FailRound, Restart, cluster
    <3> QED
      BY <1>0, <3>1
  <2>2. CASE ChangePipelines \/ RotateValue \/ SwitchMode \/ SyncCache \/ RequeueExpires
             \/ UNCHANGED vars
    BY <1>1, <2>2 DEF ChangePipelines, RotateValue, SwitchMode, Edit, SyncCache,
                      RequeueExpires, cluster, vars
  <2> QED
    BY <1>8, <2>1, <2>2
<1>9. CASE AcceptConfig \/ StampPublishing \/ WriteAssets \/ WriteAltAssets
           \/ KeepLeftoverConfig
  BY <1>2, <1>9 DEF AcceptConfig, StampPublishing, WriteAssets, WriteAltAssets,
                    KeepLeftoverConfig, cluster
<1> QED
  BY <1>3, <1>4, <1>5, <1>6, <1>7, <1>8, <1>9 DEF Next, Step

(* In every state, whatever the flag, the modes, the budgets, the edits,   *)
(* the failed writes and the restarts, also when the flag is changed: the  *)
(* pod template mounts assets if the config it mounts references any (the  *)
(* orders of EnsureVectorAgent).                                           *)
THEOREM MountBeforeReference == Spec => []MountCoversReferences
<1>1. MountInv => MountCoversReferences
  BY DEF MountInv
<1> QED
  BY <1>1, MountInit, MountStep, TypeCorrect, PTL DEF Spec

-----------------------------------------------------------------------------
(* Safety of publication without checkpoint migration.                     *)

(* Without migration there is one name of everything.                      *)
LEMMA OneVariant ==
    ASSUME ~migration
    PROVE  /\ Managed = {"legacy"}
           /\ \A opt : Primary(opt) = "legacy" /\ Standby(opt) = "opt"
BY DEF Managed, Primary, Standby

(* The DaemonSet of an operator without migration mounts the one variant   *)
(* or none, so hadMount is the mount itself.                               *)
LEMMA MountIsPrimary ==
    ASSUME TypeOK, SingleVariant
    PROVE  /\ daemonSet.mount \in BOOLEAN
           /\ daemonSet.mount <=> daemonSet = [variant |-> "legacy", mount |-> TRUE]
           /\ daemonSet = NoDaemonSet => ~daemonSet.mount
           /\ daemonSet # NoDaemonSet => daemonSet.variant = "legacy"
<1>1. CASE daemonSet = NoDaemonSet
  BY <1>1 DEF NoDaemonSet
<1>2. CASE daemonSet # NoDaemonSet
  <2>1. daemonSet \in [variant : Variant, mount : BOOLEAN]
    BY <1>2 DEF TypeOK
  <2>2. daemonSet.variant = "legacy" /\ daemonSet.mount \in BOOLEAN
    BY <2>1 DEF SingleVariant, Variant
  <2>3. daemonSet = [variant |-> "legacy", mount |-> daemonSet.mount]
    BY <2>1, <2>2
  <2> QED
    BY <1>2, <2>2, <2>3
<1> QED
  BY <1>1, <1>2

(* What a round plans covers the keys of the config it found and of the    *)
(* config it will publish: the bridge keeps everything, a prune that drops *)
(* nothing is no prune, and a real prune finds its own config published.   *)
LEMMA PlannedDataCovers ==
    ASSUME TypeOK, SingleVariant, NoDanglingReference,
           NEW pipes \in SUBSET Pipeline, NEW altBuilt,
           NEW bridged \in [Variant -> Data],
           DOMAIN bridged["legacy"] = DOMAIN assets["legacy"] \cup KeysOf(pipes)
    PROVE  LET plan == PlannedRound(pipes, altBuilt, bridged)
           IN  /\ plan.pc = "check"
               /\ plan.pipes = pipes
               /\ plan.data["legacy"] \in Data
               /\ Referenced("legacy") \cup KeysOf(pipes) \subseteq DOMAIN plan.data["legacy"]
               /\ plan.order = WriteOrder(optimize, plan.data["legacy"])
<1> DEFINE plan == PlannedRound(pipes, altBuilt, bridged)
           exact == Stage(NoData, values, pipes)
           unchanged == AllConfigsUnchanged(pipes, altBuilt)
           wouldDrop == \E v \in Managed : WouldDropAKey(assets[v], exact)
           prune == ~wouldDrop \/ MayPrune(unchanged)
           data == IF prune THEN [v \in Variant |-> exact] ELSE bridged
<1>1. exact \in Data /\ DOMAIN exact = KeysOf(pipes)
  BY ExactFacts DEF TypeOK
<1>2. /\ plan.pc = "check"
      /\ plan.pipes = pipes
      /\ plan.data = data
      /\ plan.order = WriteOrder(optimize, data["legacy"])
  <2>1. Primary(optimize) = "legacy"
    BY OneVariant DEF SingleVariant
  <2>2. plan = [pc |-> "check", opt |-> optimize, pipes |-> pipes, altBuilt |-> altBuilt,
                data |-> data, publishing |-> ~unchanged,
                order |-> WriteOrder(optimize, data[Primary(optimize)]),
                marked |-> cachedMark # NoMark, stale |-> cachedMark # mark,
                requeue |-> IF wouldDrop THEN RequeueAfter(unchanged) ELSE 0,
                late |-> 0]
    BY DEF PlannedRound
  <2> HIDE DEF plan, data, unchanged, wouldDrop
  <2> QED
    BY <2>1, <2>2
<1>3. "legacy" \in Variant /\ ~migration
  BY DEF Variant, SingleVariant
<1>4. Referenced("legacy") \subseteq DOMAIN assets["legacy"]
  BY <1>3 DEF NoDanglingReference
<1>5. data["legacy"] \in Data
  BY <1>1, <1>3
<1>6. Referenced("legacy") \cup KeysOf(pipes) \subseteq DOMAIN data["legacy"]
  <2>1. CASE ~prune
    BY <2>1, <1>4
  <2>2. CASE ~wouldDrop
    <3>1. DOMAIN assets["legacy"] \subseteq DOMAIN exact
      BY <2>2, <1>3, OneVariant DEF WouldDropAKey
    <3> QED
      BY <2>2, <3>1, <1>1, <1>3, <1>4
  <2>3. CASE prune /\ unchanged
    <3>1. config["legacy"].pipes = pipes
      BY <2>3, <1>3, OneVariant DEF AllConfigsUnchanged
    <3> QED
      BY <2>3, <3>1, <1>1, <1>3 DEF Referenced
  <2> QED
    BY <2>1, <2>2, <2>3 DEF MayPrune
<1> HIDE DEF data, plan
<1> QED
  BY <1>2, <1>5, <1>6 DEF plan

(* Nothing published, or published by a version without the mark: both     *)
(* are consistent.                                                         *)
LEMMA PublishInit == Flags = {FALSE} /\ Init => PublishInv
<1> SUFFICES ASSUME Flags = {FALSE}, Init PROVE PublishInv
  OBVIOUS
<1>1. TypeOK
  BY TypeInit
<1>2. ~migration /\ round = Idle
  BY DEF Init
<1>3. KeysOf({}) = {}
  BY DEF KeysOf
<1>4. CASE NothingPublished
  BY <1>2, <1>3, <1>4, NoDataFacts
     DEF NothingPublished, PublishInv, SingleVariant, NoDanglingReference,
         MountCoversReferences, MountedSecretExists, PlanCovers, StagedBeforeUse,
         MountFollowsOrder, Referenced, NoConfig, NoDaemonSet, Variant
<1>5. ASSUME NEW pipes \in Selections, PublishedUnmarked(pipes)
      PROVE  PublishInv
  <2>1. pipes \in SUBSET Pipeline
    BY PublishAssumption
  <2>2. /\ Stage(NoData, values, pipes) \in Data
        /\ DOMAIN Stage(NoData, values, pipes) = KeysOf(pipes)
    BY <2>1, <1>1, ExactFacts DEF TypeOK
  <2>3. /\ assets["legacy"] = Stage(NoData, values, pipes)
        /\ assets["opt"] = NoData
        /\ config["legacy"].pipes = pipes
        /\ config["opt"] = NoConfig
        /\ daemonSet = [variant |-> "legacy", mount |-> KeysOf(pipes) # {}]
    BY <1>5 DEF PublishedUnmarked, Variant
  <2>4. SingleVariant
    BY <1>2, <2>3 DEF SingleVariant
  <2>5. NoDanglingReference
    BY <2>2, <2>3, <1>3 DEF NoDanglingReference, Referenced, Variant, NoConfig
  <2>6. daemonSet.variant = "legacy" /\ (daemonSet.mount <=> KeysOf(pipes) # {})
    BY <2>3
  <2>7. Referenced("legacy") = KeysOf(pipes)
    BY <2>3 DEF Referenced
  <2>8. KeysOf(pipes) # {} => assets["legacy"] # NoData
    BY <2>2, <2>3, NoDataFacts
  <2>9. MountCoversReferences /\ MountedSecretExists
    BY <2>6, <2>7, <2>8 DEF MountCoversReferences, MountedSecretExists
  <2>10. PlanCovers /\ StagedBeforeUse /\ MountFollowsOrder
    BY <1>2 DEF PlanCovers, StagedBeforeUse, MountFollowsOrder
  <2> QED
    BY <2>4, <2>5, <2>9, <2>10 DEF PublishInv
<1> QED
  BY <1>4, <1>5 DEF Init

(* A step that writes nothing and ends the round or leaves it alone.       *)
LEMMA QuietStep ==
    ASSUME PublishInv, UNCHANGED <<migration, assets, config, daemonSet>>,
           round' \in {round, Idle}
    PROVE  PublishInv'
<1>1. SingleVariant'
  BY DEF PublishInv, SingleVariant
<1>2. NoDanglingReference' /\ MountCoversReferences' /\ MountedSecretExists'
  BY DEF PublishInv, NoDanglingReference, MountCoversReferences,
         MountedSecretExists, Referenced
<1>3. PlanCovers'
  BY DEF PublishInv, PlanCovers, Referenced
<1>4. StagedBeforeUse'
  BY DEF PublishInv, StagedBeforeUse
<1>5. MountFollowsOrder'
  BY DEF PublishInv, MountFollowsOrder
<1> QED
  BY <1>1, <1>2, <1>3, <1>4, <1>5 DEF PublishInv

(* What a round plans from: the bridge adds the keys of its pipelines to   *)
(* the ones there are.                                                     *)
LEMMA StartPlans ==
    ASSUME TypeOK, PublishInv, StartRound
    PROVE  \E pipes \in SUBSET Pipeline, altBuilt \in BOOLEAN, bridged \in [Variant -> Data] :
              /\ DOMAIN bridged["legacy"] = DOMAIN assets["legacy"] \cup KeysOf(pipes)
              /\ round' = PlannedRound(pipes, altBuilt, bridged)
<1>1. PICK target \in SUBSET wanted : \E room \in [Managed -> SUBSET target] :
         /\ \A v \in Managed : Greedy(assets[v], values, target, room[v])
         /\ \E staged \in [Managed -> SUBSET Bridge(target, room)],
               altBuilt \in IF AltMayFail THEN BOOLEAN ELSE {TRUE} :
               /\ \A v \in Managed :
                     Greedy(assets[v], values, Bridge(target, room), staged[v])
               /\ round' = PlannedRound(Bridge(target, room), migration /\ altBuilt,
                                        BridgeData(staged))
  BY DEF StartRound
<1>2. PICK room \in [Managed -> SUBSET target] :
         /\ \A v \in Managed : Greedy(assets[v], values, target, room[v])
         /\ \E staged \in [Managed -> SUBSET Bridge(target, room)],
               altBuilt \in IF AltMayFail THEN BOOLEAN ELSE {TRUE} :
               /\ \A v \in Managed :
                     Greedy(assets[v], values, Bridge(target, room), staged[v])
               /\ round' = PlannedRound(Bridge(target, room), migration /\ altBuilt,
                                        BridgeData(staged))
  BY <1>1
<1> DEFINE pipes == Bridge(target, room)
<1>3. PICK staged \in [Managed -> SUBSET pipes],
           altBuilt \in IF AltMayFail THEN BOOLEAN ELSE {TRUE} :
         /\ \A v \in Managed : Greedy(assets[v], values, pipes, staged[v])
         /\ round' = PlannedRound(pipes, migration /\ altBuilt, BridgeData(staged))
  BY <1>2
<1>4. Managed = {"legacy"} /\ SingleVariant /\ NoDanglingReference
  BY OneVariant DEF PublishInv, SingleVariant
<1>5. target \in SUBSET Pipeline /\ pipes \in SUBSET Pipeline
  BY DEF Bridge, TypeOK
<1>6. pipes = room["legacy"]
  BY <1>4 DEF Bridge
<1>7. staged["legacy"] = pipes
  <2>1. Greedy(assets["legacy"], values, target, pipes)
    BY <1>2, <1>4, <1>6
  <2>2. Greedy(assets["legacy"], values, pipes, staged["legacy"])
    BY <1>3, <1>4
  <2> HIDE DEF pipes
  <2> QED
    BY <2>1, <2>2, <1>5, GreedyIdempotent
<1> HIDE DEF pipes
<1>8. /\ BridgeData(staged) \in [Variant -> Data]
      /\ DOMAIN BridgeData(staged)["legacy"] = DOMAIN assets["legacy"] \cup KeysOf(pipes)
  <2>1. assets["legacy"] \in Data /\ values \in [Key -> Length]
    BY DEF TypeOK, Variant
  <2>2. /\ Stage(assets["legacy"], values, pipes) \in Data
        /\ DOMAIN Stage(assets["legacy"], values, pipes)
             = DOMAIN assets["legacy"] \cup KeysOf(pipes)
    BY <2>1, <1>5, StageFacts
  <2>3. BridgeData(staged) = [v \in Variant |-> IF v = "legacy"
                                 THEN Stage(assets["legacy"], values, pipes) ELSE NoData]
    BY <1>4, <1>7 DEF BridgeData
  <2> QED
    BY <2>2, <2>3, NoDataFacts DEF Variant
<1>9. (migration /\ altBuilt) \in BOOLEAN
  OBVIOUS
<1> QED
  BY <1>3, <1>5, <1>8, <1>9

(* Planning a round establishes what the round relies on.                  *)
LEMMA PublishStart ==
    ASSUME TypeOK, PublishInv, StartRound
    PROVE  PublishInv'
<1>1. PICK pipes \in SUBSET Pipeline, altBuilt \in BOOLEAN, bridged \in [Variant -> Data] :
         /\ DOMAIN bridged["legacy"] = DOMAIN assets["legacy"] \cup KeysOf(pipes)
         /\ round' = PlannedRound(pipes, altBuilt, bridged)
  BY StartPlans
<1>4. SingleVariant /\ NoDanglingReference
  BY DEF PublishInv
<1>9. /\ round'.pc = "check"
      /\ round'.pipes = pipes
      /\ round'.data["legacy"] \in Data
      /\ Referenced("legacy") \cup KeysOf(pipes) \subseteq DOMAIN round'.data["legacy"]
      /\ round'.order = WriteOrder(optimize, round'.data["legacy"])
  BY <1>1, <1>4, PlannedDataCovers
<1>10. UNCHANGED <<migration, assets, config, daemonSet>>
  BY DEF StartRound, cluster
<1>11. SingleVariant'
  BY <1>4, <1>10 DEF SingleVariant
<1>12. NoDanglingReference' /\ MountCoversReferences' /\ MountedSecretExists'
  BY <1>10 DEF PublishInv, NoDanglingReference, MountCoversReferences,
               MountedSecretExists, Referenced
<1>13. PlanCovers' /\ StagedBeforeUse'
  BY <1>9, <1>10 DEF PlanCovers, StagedBeforeUse, Referenced
<1>14. MountFollowsOrder'
  <2>1. Primary(optimize) = "legacy"
    BY <1>4, OneVariant DEF SingleVariant
  <2>2. daemonSet.mount <=> daemonSet = [variant |-> "legacy", mount |-> TRUE]
    BY <1>4, MountIsPrimary
  <2>3. round'.order = IF ~daemonSet.mount /\ round'.data["legacy"] # NoData THEN "gaining"
                       ELSE IF daemonSet.mount /\ ~(round'.data["legacy"] # NoData)
                            THEN "losing" ELSE "keeping"
    BY <1>9, <2>1, <2>2 DEF WriteOrder
  <2> QED
    BY <1>9, <1>10, <2>3 DEF MountFollowsOrder
<1> QED
  BY <1>11, <1>12, <1>13, <1>14 DEF PublishInv

(* Steps of a round that write neither the assets, a config nor the        *)
(* DaemonSet of the one variant.                                           *)
LEMMA PublishPass ==
    ASSUME TypeOK, PublishInv, UNCHANGED <<migration, assets, config, daemonSet>>,
           round.pc \in {"check", "altAssets", "stamp", "altConfig"}, Advance
    PROVE  PublishInv'
<1>1. round.pc \in Steps \ {"status"}
  BY DEF Steps
<1>2. SingleVariant'
  BY DEF PublishInv, SingleVariant
<1>3. NoDanglingReference' /\ MountCoversReferences' /\ MountedSecretExists'
  BY DEF PublishInv, NoDanglingReference, MountCoversReferences,
         MountedSecretExists, Referenced
<1>4. PlanCovers'
  BY <1>1, AdvanceFields DEF PublishInv, PlanCovers, Referenced
<1>5. StagedBeforeUse'
  BY <1>1, AdvanceFields, NextStepValues DEF PublishInv, StagedBeforeUse, Orders
<1>6. MountFollowsOrder'
  BY <1>1, AdvanceFields, NextStepValues DEF PublishInv, MountFollowsOrder, Orders
<1> QED
  BY <1>2, <1>3, <1>4, <1>5, <1>6 DEF PublishInv

(* The assets are replaced by data that covers every reference.            *)
LEMMA PublishAssets ==
    ASSUME TypeOK, PublishInv, WriteAssets
    PROVE  PublishInv'
<1>1. round.pc \in Steps \ {"status"} /\ Advance /\ round.pc = "assets"
  BY DEF WriteAssets, Steps
<1>2. UNCHANGED <<migration, config, daemonSet>>
  BY DEF WriteAssets
<1>3. assets' = [assets EXCEPT !["legacy"] = round.data["legacy"]]
  BY OneVariant DEF WriteAssets, PutAssets, PublishInv, SingleVariant
<1>4. assets'["legacy"] = round.data["legacy"] /\ assets'["opt"] = assets["opt"]
  BY <1>3 DEF TypeOK, Variant
<1>5. SingleVariant'
  BY <1>2, <1>4 DEF PublishInv, SingleVariant
<1>6. PlanCovers' /\ NoDanglingReference' /\ MountCoversReferences'
  <2>1. PlanCovers'
    BY <1>1, <1>2, AdvanceFields DEF PublishInv, PlanCovers, Referenced
  <2>2. Referenced("legacy")' \subseteq DOMAIN assets'["legacy"]
    BY <1>1, <1>2, <1>4, AdvanceFields DEF PublishInv, PlanCovers, Referenced
  <2>3. Referenced("opt")' \subseteq DOMAIN assets'["opt"]
    BY <1>2, <1>4 DEF PublishInv, NoDanglingReference, Referenced, Variant
  <2>4. MountCoversReferences'
    BY <1>2 DEF PublishInv, MountCoversReferences, Referenced
  <2> QED
    BY <2>1, <2>2, <2>3, <2>4 DEF NoDanglingReference, Variant
<1>7. MountedSecretExists'
  <2>1. daemonSet.mount => round.data["legacy"] # NoData
    BY <1>1, AdvanceFields DEF PublishInv, MountFollowsOrder, Orders
  <2>2. daemonSet.mount => daemonSet.variant = "legacy"
    BY MountIsPrimary DEF PublishInv
  <2> QED
    BY <1>2, <1>4, <2>1, <2>2 DEF MountedSecretExists
<1>8. StagedBeforeUse'
  BY <1>1, <1>4, AdvanceFields DEF StagedBeforeUse
<1>9. MountFollowsOrder'
  BY <1>1, <1>2, AdvanceFields, NextStepValues DEF PublishInv, MountFollowsOrder, Orders
<1> QED
  BY <1>5, <1>6, <1>7, <1>8, <1>9 DEF PublishInv

(* The new config finds its keys staged, and mounted if there are any.     *)
LEMMA PublishConfig ==
    ASSUME TypeOK, PublishInv, WriteConfig
    PROVE  PublishInv'
<1>1. round.pc \in Steps \ {"status"} /\ Advance /\ round.pc = "config"
  BY DEF WriteConfig, Steps
<1>2. UNCHANGED <<migration, assets, daemonSet>>
  BY DEF WriteConfig
<1>3. config' = [config EXCEPT !["legacy"] = [pipes |-> round.pipes, opt |-> round.opt]]
  BY OneVariant DEF WriteConfig, PutConfig, PublishInv, SingleVariant
<1>4. config'["legacy"].pipes = round.pipes /\ config'["opt"] = config["opt"]
  BY <1>3 DEF TypeOK, Variant
<1>5. Referenced("legacy")' = KeysOf(round.pipes) /\ Referenced("opt")' = Referenced("opt")
  BY <1>4 DEF Referenced
<1>6. KeysOf(round.pipes) \subseteq DOMAIN round.data["legacy"]
  BY <1>1, AdvanceFields DEF PublishInv, PlanCovers
<1>7. SingleVariant'
  BY <1>2, <1>4 DEF PublishInv, SingleVariant
<1>8. PlanCovers'
  BY <1>1, <1>5, <1>6, AdvanceFields DEF PlanCovers
<1>9. KeysOf(round.pipes) \subseteq DOMAIN assets["legacy"]
  <2>1. CASE round.order = "losing"
    <3>1. round.data["legacy"] = NoData
      BY <1>1, <2>1, AdvanceFields DEF PublishInv, MountFollowsOrder
    <3> QED
      BY <3>1, <1>6, NoDataFacts
  <2>2. CASE round.order # "losing"
    <3>1. assets["legacy"] = round.data["legacy"]
      BY <1>1, <2>2, AdvanceFields DEF PublishInv, StagedBeforeUse
    <3> QED
      BY <3>1, <1>6
  <2> QED
    BY <2>1, <2>2
<1>10. NoDanglingReference'
  <2>1. Referenced("opt") \subseteq DOMAIN assets["opt"]
    BY DEF PublishInv, NoDanglingReference, Variant
  <2> QED
    BY <1>2, <1>5, <1>9, <2>1 DEF NoDanglingReference, Variant
<1>11. MountCoversReferences'
  <2>1. KeysOf(round.pipes) # {} => round.data["legacy"] # NoData
    BY <1>6, NoDataFacts
  <2>2. KeysOf(round.pipes) # {} => daemonSet.mount
    BY <1>1, <2>1, AdvanceFields DEF PublishInv, MountFollowsOrder, Orders
  <2>3. daemonSet # NoDaemonSet => daemonSet.variant = "legacy"
    BY MountIsPrimary DEF PublishInv
  <2> QED
    BY <1>2, <1>5, <2>2, <2>3 DEF MountCoversReferences
<1>12. MountedSecretExists'
  BY <1>2 DEF PublishInv, MountedSecretExists
<1>13. StagedBeforeUse'
  BY <1>1, <1>2, AdvanceFields, NextStepValues DEF PublishInv, StagedBeforeUse, Orders
<1>14. MountFollowsOrder'
  BY <1>1, <1>2, AdvanceFields, NextStepValues DEF PublishInv, MountFollowsOrder, Orders
<1> QED
  BY <1>7, <1>8, <1>10, <1>11, <1>12, <1>13, <1>14 DEF PublishInv

(* The template mounts what the order has already staged, or stops         *)
(* mounting before the Secret goes.                                        *)
LEMMA PublishDaemonSet ==
    ASSUME TypeOK, PublishInv, WriteDaemonSet
    PROVE  PublishInv'
<1>1. round.pc \in Steps \ {"status"} /\ Advance /\ round.pc = "daemonSet"
  BY DEF WriteDaemonSet, Template, Steps
<1>2. UNCHANGED <<migration, assets, config>>
  BY DEF WriteDaemonSet, Template
<1>3. daemonSet' = [variant |-> "legacy", mount |-> round.data["legacy"] # NoData]
  BY OneVariant DEF WriteDaemonSet, Template, PublishInv, SingleVariant
<1>4. /\ daemonSet'.variant = "legacy"
      /\ daemonSet'.mount <=> round.data["legacy"] # NoData
  BY <1>3
<1>5. SingleVariant'
  BY <1>2, <1>4 DEF PublishInv, SingleVariant
<1>6. NoDanglingReference'
  BY <1>2 DEF PublishInv, NoDanglingReference, Referenced
<1>7. PlanCovers'
  BY <1>1, <1>2, AdvanceFields DEF PublishInv, PlanCovers, Referenced
<1>8. MountCoversReferences'
  <2>1. Referenced("legacy") \subseteq DOMAIN round.data["legacy"]
    BY <1>1, AdvanceFields DEF PublishInv, PlanCovers
  <2>2. Referenced("legacy") # {} => daemonSet'.mount
    BY <1>4, <2>1, NoDataFacts
  <2>3. Referenced("legacy")' = Referenced("legacy")
    BY <1>2 DEF Referenced
  <2> QED
    BY <1>4, <2>2, <2>3 DEF MountCoversReferences
<1>9. MountedSecretExists'
  <2>1. CASE round.order = "losing"
    BY <1>1, <1>4, <2>1, AdvanceFields DEF PublishInv, MountFollowsOrder, MountedSecretExists
  <2>2. CASE round.order # "losing"
    <3>1. assets["legacy"] = round.data["legacy"]
      BY <1>1, <2>2, AdvanceFields DEF PublishInv, StagedBeforeUse
    <3> QED
      BY <1>2, <1>4, <3>1 DEF MountedSecretExists
  <2> QED
    BY <2>1, <2>2
<1>10. StagedBeforeUse'
  BY <1>1, <1>2, AdvanceFields, NextStepValues DEF PublishInv, StagedBeforeUse, Orders
<1>11. MountFollowsOrder'
  BY <1>1, <1>4, AdvanceFields, NextStepValues DEF PublishInv, MountFollowsOrder, Orders
<1> QED
  BY <1>5, <1>6, <1>7, <1>8, <1>9, <1>10, <1>11 DEF PublishInv

(* Every action of an operator without migration keeps the invariant.      *)
LEMMA PublishStep ==
    Flags = {FALSE} /\ TypeOK /\ PublishInv /\ [Next]_vars => PublishInv'
<1> SUFFICES ASSUME Flags = {FALSE}, TypeOK, PublishInv, [Next]_vars
             PROVE  PublishInv'
  OBVIOUS
<1>1. CASE ChangePipelines
  BY <1>1, QuietStep DEF ChangePipelines, Edit, cluster
<1>2. CASE RotateValue
  BY <1>2, QuietStep DEF RotateValue, Edit, cluster
<1>3. CASE SwitchMode
  BY <1>3, QuietStep DEF SwitchMode, Edit, cluster
<1>4. CASE StartRound
  BY <1>4, PublishStart
<1>5. CASE RejectConfig
  BY <1>5, QuietStep DEF RejectConfig, cluster
<1>6. CASE AcceptConfig
  BY <1>6, PublishPass DEF AcceptConfig, cluster
<1>7. CASE WriteAssets
  BY <1>7, PublishAssets
<1>8. CASE WriteAltAssets
  <2>1. assets' = [assets EXCEPT !["opt"] = NoData]
    BY <1>8, OneVariant DEF WriteAltAssets, PutAssets, PublishInv, SingleVariant
  <2>2. assets' = assets
    BY <2>1 DEF PublishInv, SingleVariant, TypeOK, Variant
  <2> QED
    BY <1>8, <2>2, PublishPass DEF WriteAltAssets
<1>9. CASE StampPublishing
  BY <1>9, PublishPass DEF StampPublishing, cluster
<1>10. CASE WriteConfig
  BY <1>10, PublishConfig
<1>11. CASE WriteAltConfig
  <2>1. config' = [config EXCEPT !["opt"] = NoConfig]
    BY <1>11, OneVariant DEF WriteAltConfig, PutConfig, PublishInv, SingleVariant
  <2>2. config' = config
    BY <2>1 DEF PublishInv, SingleVariant, TypeOK, Variant
  <2> QED
    BY <1>11, <2>2, PublishPass DEF WriteAltConfig
<1>12. CASE WriteDaemonSet
  BY <1>12, PublishDaemonSet
<1>13. CASE FinishRound
  BY <1>13, QuietStep DEF FinishRound, cluster
<1>14. CASE KeepLeftoverConfig
  BY <1>14, PublishPass DEF KeepLeftoverConfig, cluster
<1>15. CASE FailRound
  BY <1>15, QuietStep DEF FailRound, cluster
<1>16. CASE Restart
  <2>1. migration' = migration
    BY <1>16 DEF Restart, PublishInv, SingleVariant, TypeOK
  <2> QED
    BY <1>16, <2>1, QuietStep DEF Restart, cluster
<1>17. CASE SyncCache
  BY <1>17, QuietStep DEF SyncCache, cluster
<1>18. CASE Tick
  <2>1. UNCHANGED <<migration, assets, config, daemonSet>>
    BY <1>18 DEF Tick
  <2>2. CASE ~Publishing
    BY <1>18, <2>1, <2>2, QuietStep DEF Tick
  <2>3. CASE Publishing
    <3>1. round \in Round /\ round # Idle
      BY <2>3 DEF Publishing, TypeOK, Idle
    <3>2. round' = [round EXCEPT !.late = round.late + 1]
      BY <1>18, <2>3 DEF Tick
    <3>3. /\ round'.pc = round.pc /\ round'.order = round.order
          /\ round'.data = round.data /\ round'.pipes = round.pipes
      BY <3>1, <3>2 DEF Round
    <3>4. SingleVariant' /\ NoDanglingReference' /\ MountCoversReferences'
          /\ MountedSecretExists'
      BY <2>1 DEF PublishInv, SingleVariant, NoDanglingReference,
                  MountCoversReferences, MountedSecretExists, Referenced
    <3>5. PlanCovers'
      BY <2>1, <3>1, <3>3 DEF PublishInv, PlanCovers, Referenced
    <3>6. StagedBeforeUse'
      BY <2>1, <3>1, <3>3 DEF PublishInv, StagedBeforeUse
    <3>7. MountFollowsOrder'
      BY <2>1, <3>1, <3>3 DEF PublishInv, MountFollowsOrder
    <3> QED
      BY <3>4, <3>5, <3>6, <3>7 DEF PublishInv
  <2> QED
    BY <2>2, <2>3
<1>19. CASE RequeueExpires
  BY <1>19, QuietStep DEF RequeueExpires, cluster
<1>20. CASE UNCHANGED vars
  BY <1>20, QuietStep DEF vars, cluster
<1> QED
  BY <1>1, <1>2, <1>3, <1>4, <1>5, <1>6, <1>7, <1>8, <1>9, <1>10, <1>11, <1>12,
     <1>13, <1>14, <1>15, <1>16, <1>17, <1>18, <1>19, <1>20 DEF Next, Step

(* Without checkpoint migration, whatever the pipelines, the values, the   *)
(* budgets and the faults: the three write orders of EnsureVectorAgent     *)
(* keep the inductive invariant.                                           *)
THEOREM PublishSafe == Flags = {FALSE} => (Spec => []PublishInv)
<1> SUFFICES ASSUME Flags = {FALSE} PROVE Spec => []PublishInv
  OBVIOUS
<1>1. Init => PublishInv
  BY PublishInit
<1>2. TypeOK /\ PublishInv /\ [Next]_vars => PublishInv'
  BY PublishStep
<1> QED
  BY <1>1, <1>2, TypeCorrect, PTL DEF Spec

(* No published config references a key that its assets Secret lacks,      *)
(* whichever write fails and wherever the operator stops                   *)
(* (ensureVectorAgentSecretAssets).                                        *)
THEOREM ReferencesAreStaged == Flags = {FALSE} => (Spec => []NoDanglingReference)
<1> SUFFICES ASSUME Flags = {FALSE} PROVE Spec => []NoDanglingReference
  OBVIOUS
<1>1. PublishInv => NoDanglingReference
  BY DEF PublishInv
<1> QED
  BY <1>1, PublishSafe, PTL

(* The pod template mounts the assets before its config needs them, and    *)
(* stops mounting them before the Secret goes (the gaining and the losing  *)
(* order of EnsureVectorAgent).                                            *)
THEOREM MountsFollowOrders ==
    Flags = {FALSE} => (Spec => [](MountCoversReferences /\ MountedSecretExists))
<1> SUFFICES ASSUME Flags = {FALSE}
             PROVE  Spec => [](MountCoversReferences /\ MountedSecretExists)
  OBVIOUS
<1>1. PublishInv => MountCoversReferences /\ MountedSecretExists
  BY DEF PublishInv
<1> QED
  BY <1>1, PublishSafe, PTL

(* What the contract asks of every state.                                  *)
ContractHolds ==
    /\ PodTemplate \in {"absent", "plain", "mounted"}
    /\ DOMAIN assets["legacy"] \in SUBSET Key
    /\ Referenced("legacy") \in SUBSET DOMAIN assets["legacy"]
    /\ PodTemplate = "mounted" => DOMAIN assets["legacy"] # {}
    /\ PodTemplate = "plain" => Referenced("legacy") = {}

(* The invariant gives it.                                                 *)
LEMMA ContractSafe == TypeOK /\ PublishInv => ContractHolds
<1> SUFFICES ASSUME TypeOK, PublishInv PROVE ContractHolds
  OBVIOUS
<1>1. assets["legacy"] \in Data
  BY DEF TypeOK, Variant
<1>2. DOMAIN assets["legacy"] \in SUBSET Key
  BY <1>1 DEF Data
<1>3. Referenced("legacy") \in SUBSET DOMAIN assets["legacy"]
  BY DEF PublishInv, NoDanglingReference, Variant
<1>4. PodTemplate \in {"absent", "plain", "mounted"}
  BY DEF PodTemplate
<1>5. PodTemplate = "mounted" => DOMAIN assets["legacy"] # {}
  BY <1>1, MountIsPrimary, NoDataFacts DEF PodTemplate, PublishInv, MountedSecretExists
<1>6. PodTemplate = "plain" => Referenced("legacy") = {}
  BY MountIsPrimary DEF PodTemplate, PublishInv, MountCoversReferences
<1> QED
  BY <1>2, <1>3, <1>4, <1>5, <1>6 DEF ContractHolds

(* Every write of a round is one the contract allows, at the moment it is  *)
(* made; every other step is invisible to it.                              *)
LEMMA ContractStep ==
    TypeOK /\ PublishInv /\ TypeOK' /\ PublishInv' /\ [Next]_vars =>
        [Contract!Next]_(Contract!vars)
<1> SUFFICES ASSUME TypeOK, PublishInv, TypeOK', PublishInv', [Next]_vars
             PROVE  [Contract!Next]_(Contract!vars)
  OBVIOUS
<1>a. ContractHolds
  BY ContractSafe
<1>b. ContractHolds'
  BY ContractSafe, PTL
<1>1. /\ PodTemplate \in {"absent", "plain", "mounted"}
      /\ PodTemplate' \in {"absent", "plain", "mounted"}
      /\ DOMAIN assets'["legacy"] \in SUBSET Key
      /\ Referenced("legacy")' \in SUBSET DOMAIN assets'["legacy"]
      /\ PodTemplate' = "mounted" => DOMAIN assets'["legacy"] # {}
      /\ PodTemplate' = "plain" => Referenced("legacy")' = {}
  BY <1>a, <1>b DEF ContractHolds
<1>2. ASSUME assets'["legacy"] = assets["legacy"], config'["legacy"] = config["legacy"],
             UNCHANGED daemonSet
      PROVE  UNCHANGED Contract!vars
  BY <1>2 DEF Contract!vars, Referenced, PodTemplate
<1>3. CASE WriteAssets
  <2>1. UNCHANGED <<config, daemonSet>>
    BY <1>3 DEF WriteAssets
  <2>2. Referenced("legacy")' = Referenced("legacy") /\ PodTemplate' = PodTemplate
    BY <2>1 DEF Referenced, PodTemplate
  <2>3. Contract!WriteAssets
    BY <1>1, <2>2 DEF Contract!WriteAssets
  <2> QED
    BY <2>3 DEF Contract!Next
<1>4. CASE WriteConfig
  <2>1. UNCHANGED <<assets, daemonSet>>
    BY <1>4 DEF WriteConfig
  <2>2. PodTemplate' = PodTemplate
    BY <2>1 DEF PodTemplate
  <2>3. Contract!WriteConfig
    BY <1>1, <2>1, <2>2 DEF Contract!WriteConfig
  <2> QED
    BY <2>3 DEF Contract!Next
<1>5. CASE WriteDaemonSet
  <2>1. UNCHANGED <<assets, config>>
    BY <1>5 DEF WriteDaemonSet
  <2>2. Referenced("legacy")' = Referenced("legacy")
    BY <2>1 DEF Referenced
  <2>3. Contract!WriteWorkload("DaemonSet")
    BY <1>1, <2>1, <2>2 DEF Contract!WriteWorkload, Contract!Template
  <2> QED
    BY <2>3 DEF Contract!Next
<1>6. CASE WriteAltAssets
  <2>1. assets' = [assets EXCEPT !["opt"] = NoData] /\ UNCHANGED <<config, daemonSet>>
    BY <1>6, OneVariant DEF WriteAltAssets, PutAssets, PublishInv, SingleVariant
  <2>2. assets'["legacy"] = assets["legacy"]
    BY <2>1 DEF TypeOK, Variant
  <2> QED
    BY <1>2, <2>1, <2>2
<1>7. CASE WriteAltConfig
  <2>1. config' = [config EXCEPT !["opt"] = NoConfig] /\ UNCHANGED <<assets, daemonSet>>
    BY <1>7, OneVariant DEF WriteAltConfig, PutConfig, PublishInv, SingleVariant
  <2>2. config'["legacy"] = config["legacy"]
    BY <2>1 DEF TypeOK, Variant
  <2> QED
    BY <1>2, <2>1, <2>2
<1>8. \/ WriteAssets \/ WriteConfig \/ WriteDaemonSet \/ WriteAltAssets \/ WriteAltConfig
      \/ UNCHANGED <<assets, config, daemonSet>>
  BY DEF Next, Step, ChangePipelines, RotateValue, SwitchMode, Edit, StartRound, RejectConfig,
         AcceptConfig, StampPublishing, FinishRound, KeepLeftoverConfig, FailRound, Restart,
         SyncCache, Tick, RequeueExpires, cluster, vars
<1> QED
  BY <1>2, <1>3, <1>4, <1>5, <1>6, <1>7, <1>8

(* Without checkpoint migration the agent implements Publication, the      *)
(* contract of the aggregator: whatever the pipelines, values, budgets,    *)
(* edits, failed writes and restarts, each write of EnsureVectorAgent is   *)
(* made when it is safe, and a pod can start in every state in between.    *)
THEOREM ImplementsPublication == Flags = {FALSE} => (Spec => Publishes)
<1> SUFFICES ASSUME Flags = {FALSE} PROVE Spec => Publishes
  OBVIOUS
<1>1. TypeOK /\ PublishInv => Contract!Init
  BY ContractSafe DEF ContractHolds, Contract!Init, Contract!Safe, Contract!Template
<1>2. Init => TypeOK /\ PublishInv
  BY TypeInit, PublishInit
<1> QED
  BY <1>1, <1>2, ContractStep, TypeCorrect, PublishSafe, PTL DEF Spec, Publishes, Contract!Spec

-----------------------------------------------------------------------------
(* Safety of publication with checkpoint migration.                        *)

(* The plan of a round holds every key its config will reference.  Nothing *)
(* but the second pass of planSecretAssetsBridge can break this: when a    *)
(* value in a Secret is longer than the one that replaces it, the pass may *)
(* leave out a pipeline that the first one admitted.                       *)
PlanIsComplete ==
    round # Idle => \A v \in Variant : KeysOf(round.pipes) \subseteq DOMAIN round.data[v]

(* What a round writes covers the configs it finds and the ones it will    *)
(* publish, in both variants.                                              *)
BothCovered ==
    round # Idle =>
        \A v \in Variant : Referenced(v) \cup KeysOf(round.pipes) \subseteq DOMAIN round.data[v]

(* A config write comes after the write of its assets, unless the round    *)
(* has no keys at all.                                                     *)
BothStaged ==
    round # Idle =>
        /\ round.order = "losing" => round.data[Active] = NoData
        /\ \/ round.pc \in {"check", "assets"}
           \/ round.order = "losing"
           \/ assets[Active] = round.data[Active]
        /\ \/ round.pc \in {"check", "assets", "altAssets"}
           \/ round.order = "losing" \/ ~round.altBuilt
           \/ assets[Dormant] = round.data[Dormant]

BothInv == migration /\ NoDanglingReference /\ BothCovered /\ BothStaged

(* A pass over part of what an earlier pass accepted accepts it all, if    *)
(* nothing that is there is longer than its current value.                 *)
LEMMA GreedySteady ==
    ASSUME NEW e \in Data, NEW vals \in [Key -> Length], NEW T \in SUBSET Pipeline,
           NEW R, Greedy(e, vals, T, R), NEW P \in SUBSET R, NEW A, Greedy(e, vals, P, A),
           \A k \in DOMAIN e : e[k] =< vals[k]
    PROVE  A = P
<1>1. A \subseteq P /\ R \subseteq T
  BY DEF Greedy
<1>2. ASSUME NEW p \in P, Refs[p] # {} PROVE p \in A
  <2> DEFINE Q == {q \in A : Older(q, p)} \cup {p}
             W == {q \in R : Older(q, p)} \cup {p}
  <2>1. Q \in SUBSET W /\ W \in SUBSET Pipeline
    BY <1>1
  <2>2. Fits(Stage(e, vals, W))
    BY <1>1, <1>2 DEF Greedy
  <2>3. Fits(Stage(e, vals, Q))
    <3> HIDE DEF Q, W
    <3> QED
      BY <2>1, <2>2, StageMonotone
  <2> QED
    BY <2>3 DEF Greedy
<1>3. ASSUME NEW p \in P, Refs[p] = {} PROVE p \in A
  BY <1>3 DEF Greedy
<1> QED
  BY <1>1, <1>2, <1>3

(* What a round plans covers the keys of the configs it found.             *)
LEMMA PlannedCovers ==
    ASSUME TypeOK, NoDanglingReference, NEW pipes \in SUBSET Pipeline, NEW altBuilt,
           NEW bridged \in [Variant -> Data],
           round' = PlannedRound(pipes, altBuilt, bridged),
           NEW v \in Managed, DOMAIN assets[v] \subseteq DOMAIN bridged[v]
    PROVE  Referenced(v) \subseteq DOMAIN round'.data[v]
<1> DEFINE exact == Stage(NoData, values, pipes)
           unchanged == AllConfigsUnchanged(pipes, altBuilt)
           wouldDrop == \E w \in Managed : WouldDropAKey(assets[w], exact)
           prune == ~wouldDrop \/ MayPrune(unchanged)
<1>1. DOMAIN exact = KeysOf(pipes)
  BY ExactFacts DEF TypeOK
<1>2. round'.data = IF prune THEN [w \in Variant |-> exact] ELSE bridged
  BY DEF PlannedRound
<1>3. v \in Variant /\ v \in {Primary(optimize), Standby(optimize)}
      /\ (v # Primary(optimize) => migration)
  BY DEF Managed, Variant, Primary, Standby
<1>4. Referenced(v) \subseteq DOMAIN assets[v]
  BY <1>3 DEF NoDanglingReference
<1>5. CASE ~prune
  BY <1>2, <1>4, <1>5
<1>6. CASE ~wouldDrop
  <2>1. DOMAIN assets[v] \subseteq DOMAIN exact /\ round'.data[v] = exact
    BY <1>2, <1>3, <1>6 DEF WouldDropAKey
  <2> QED
    BY <1>1, <1>4, <2>1
<1>7. CASE prune /\ unchanged
  <2>1. config[v].pipes = pipes
    BY <1>3, <1>7 DEF AllConfigsUnchanged
  <2>2. round'.data[v] = exact
    BY <1>2, <1>3, <1>7
  <2> QED
    BY <1>1, <2>1, <2>2 DEF Referenced
<1> QED
  BY <1>5, <1>6, <1>7 DEF MayPrune

LEMMA BothInit == Flags = {TRUE} /\ Init => BothInv
<1> SUFFICES ASSUME Flags = {TRUE}, Init PROVE BothInv
  OBVIOUS
<1>1. migration /\ round = Idle /\ NothingPublished
  BY DEF Init, PublishedUnmarked
<1>3. KeysOf({}) = {}
  BY DEF KeysOf
<1>4. NoDanglingReference
  BY <1>1, <1>3 DEF NothingPublished, NoDanglingReference, Referenced, NoConfig
<1> QED
  BY <1>1, <1>4 DEF BothInv, BothCovered, BothStaged

LEMMA BothStart ==
    ASSUME PlanIsComplete', TypeOK, BothInv, StartRound
    PROVE  BothInv'
<1>1. PICK target \in SUBSET Pipeline : \E room \in [Managed -> SUBSET target] :
      \E staged \in [Managed -> SUBSET Bridge(target, room)] : \E altBuilt \in BOOLEAN :
         /\ Chosen(target, room, staged, altBuilt)
         /\ Bridge(target, room) \in SUBSET target
         /\ BridgeData(staged) \in [Variant -> Data]
  BY StartChoices
<1>2. PICK room \in [Managed -> SUBSET target] :
      \E staged \in [Managed -> SUBSET Bridge(target, room)] : \E altBuilt \in BOOLEAN :
         /\ Chosen(target, room, staged, altBuilt)
         /\ Bridge(target, room) \in SUBSET target
         /\ BridgeData(staged) \in [Variant -> Data]
  BY <1>1
<1> DEFINE pipes == Bridge(target, room)
<1>3. PICK staged \in [Managed -> SUBSET pipes], altBuilt \in BOOLEAN :
         /\ Chosen(target, room, staged, altBuilt)
         /\ pipes \in SUBSET Pipeline
         /\ BridgeData(staged) \in [Variant -> Data]
  BY <1>2
<1>4. round' = PlannedRound(pipes, altBuilt, BridgeData(staged))
  BY <1>3 DEF Chosen
<1> HIDE DEF pipes
<1>5. Managed = Variant
  BY DEF BothInv, Managed
<1>8. UNCHANGED <<migration, assets, config>>
  BY DEF StartRound, cluster
<1>9. /\ round'.pc = "check" /\ round'.pipes = pipes /\ round'.opt = optimize
      /\ round'.order = WriteOrder(optimize, round'.data[Primary(optimize)])
  BY <1>4 DEF PlannedRound
<1>11. BothCovered'
  <2>1. ASSUME NEW v \in Variant
        PROVE  Referenced(v) \subseteq DOMAIN round'.data[v]
    <3> DEFINE bridged == BridgeData(staged)
    <3>1. bridged \in [Variant -> Data] /\ round' = PlannedRound(pipes, altBuilt, bridged)
      BY <1>3, <1>4
    <3>2. DOMAIN assets[v] \subseteq DOMAIN bridged[v]
      BY <1>5, <2>1 DEF BridgeData, Stage
    <3>3. NoDanglingReference /\ pipes \in SUBSET Pipeline /\ v \in Managed
      BY <1>3, <1>5, <2>1 DEF BothInv
    <3> HIDE DEF bridged
    <3> QED
      BY <3>1, <3>2, <3>3, PlannedCovers
  <2> QED
    BY <1>8, <1>9, <2>1 DEF BothCovered, Referenced, PlanIsComplete
<1>12. BothStaged'
  <2>1. Active' = Primary(optimize)
    BY <1>8, <1>9 DEF Active, Primary
  <2> QED
    BY <1>9, <2>1 DEF BothStaged, WriteOrder
<1> QED
  BY <1>8, <1>11, <1>12 DEF BothInv, NoDanglingReference, Referenced

LEMMA BothStep ==
    Flags = {TRUE} /\ PlanIsComplete' /\ TypeOK /\ BothInv /\ [Next]_vars => BothInv'
<1> SUFFICES ASSUME Flags = {TRUE}, PlanIsComplete', TypeOK, BothInv, [Next]_vars
             PROVE  BothInv'
  OBVIOUS
<1>0. ASSUME UNCHANGED <<migration, assets, config>>,
             round' = Idle \/ UNCHANGED round
      PROVE  BothInv'
  <2>1. NoDanglingReference'
    BY <1>0 DEF BothInv, NoDanglingReference, Referenced
  <2>3. BothCovered' /\ BothStaged'
    <3>1. CASE round' = Idle
      BY <3>1 DEF BothCovered, BothStaged
    <3>2. CASE UNCHANGED round
      <4>1. Active' = Active /\ Dormant' = Dormant
        BY <1>0, <3>2 DEF Active, Dormant, Primary, Standby
      <4> QED
        BY <1>0, <3>2, <4>1 DEF BothInv, BothCovered, BothStaged, Referenced
    <3> QED
      BY <1>0, <3>1, <3>2
  <2> QED
    BY <1>0, <2>1, <2>3 DEF BothInv
<1>1. ASSUME UNCHANGED <<migration, values>>, Advance, round.pc \in Steps \ {"status"}
      PROVE  /\ round # Idle /\ round' # Idle /\ round.order \in Orders
             /\ round'.order = round.order /\ round'.data = round.data
             /\ round'.pipes = round.pipes /\ round'.altBuilt = round.altBuilt
             /\ round'.pc = NextStep[round.order][round.pc]
             /\ Active' = Active /\ Dormant' = Dormant /\ Variant = {Active, Dormant}
             /\ Active # Dormant
  BY <1>1, AdvanceFields, AdvanceKeeps DEF Variant
<1>2. ASSUME UNCHANGED <<migration, values, assets, config>>, Advance,
             round.pc \in {"check", "stamp", "daemonSet"}
      PROVE  BothInv'
  <2>1. /\ round # Idle /\ round' # Idle /\ round.order \in Orders
        /\ round'.order = round.order /\ round'.data = round.data
        /\ round'.pipes = round.pipes /\ round'.altBuilt = round.altBuilt
        /\ round'.pc = NextStep[round.order][round.pc]
        /\ Active' = Active /\ Dormant' = Dormant
    BY <1>1, <1>2 DEF Steps
  <2>2. NoDanglingReference' /\ BothCovered'
    BY <1>2, <2>1 DEF BothInv, NoDanglingReference, BothCovered, Referenced
  <2>3. BothStaged'
    BY <1>2, <2>1, NextStepValues DEF BothInv, BothStaged, Orders
  <2> QED
    BY <1>2, <2>2, <2>3 DEF BothInv
<1>3. CASE StartRound
  BY <1>3, BothStart
<1>4. CASE WriteAssets
  <2>1. /\ round.pc = "assets" /\ Advance /\ UNCHANGED <<migration, values, config>>
        /\ assets' = [assets EXCEPT ![Active] = round.data[Active]]
    BY <1>4 DEF WriteAssets, PutAssets, Active, inputs
  <2>2. /\ round # Idle /\ round' # Idle /\ round.order \in Orders
        /\ round'.order = round.order /\ round'.data = round.data
        /\ round'.pipes = round.pipes /\ round'.pc = "altAssets"
        /\ Active' = Active /\ Dormant' = Dormant /\ Variant = {Active, Dormant}
        /\ Active # Dormant
    BY <1>1, <2>1, NextStepValues DEF Steps, Orders
  <2>3. assets'[Active] = round.data[Active] /\ assets'[Dormant] = assets[Dormant]
    BY <2>1, <2>2 DEF TypeOK
  <2>4. NoDanglingReference'
    BY <2>1, <2>2, <2>3 DEF BothInv, NoDanglingReference, BothCovered, Referenced
  <2>5. BothCovered'
    BY <2>1, <2>2, <2>3 DEF BothInv, BothCovered, Referenced
  <2>6. BothStaged'
    BY <2>2, <2>3 DEF BothInv, BothStaged
  <2> QED
    BY <2>1, <2>4, <2>5, <2>6 DEF BothInv
<1>5. CASE WriteAltAssets
  <2>1. /\ round.pc = "altAssets" /\ Advance /\ UNCHANGED <<migration, values, config>>
        /\ assets' = [assets EXCEPT ![Dormant] =
                         IF round.altBuilt THEN round.data[Dormant] ELSE assets[Dormant]]
    BY <1>5 DEF WriteAltAssets, PutAssets, Dormant, inputs, BothInv
  <2>2. /\ round # Idle /\ round' # Idle /\ round.order \in Orders
        /\ round'.order = round.order /\ round'.data = round.data
        /\ round'.pipes = round.pipes /\ round'.altBuilt = round.altBuilt
        /\ Active' = Active /\ Dormant' = Dormant /\ Variant = {Active, Dormant}
        /\ Active # Dormant
    BY <1>1, <2>1 DEF Steps
  <2>3. /\ assets'[Active] = assets[Active]
        /\ assets'[Dormant] = IF round.altBuilt THEN round.data[Dormant] ELSE assets[Dormant]
    BY <2>1, <2>2 DEF TypeOK
  <2>4. NoDanglingReference'
    BY <2>1, <2>2, <2>3 DEF BothInv, NoDanglingReference, BothCovered, Referenced
  <2>5. BothCovered'
    BY <2>1, <2>2, <2>3 DEF BothInv, BothCovered, Referenced
  <2>6. BothStaged'
    BY <2>1, <2>2, <2>3 DEF BothInv, BothStaged
  <2> QED
    BY <2>1, <2>4, <2>5, <2>6 DEF BothInv
<1>6. CASE WriteConfig
  <2>1. /\ round.pc = "config" /\ Advance /\ UNCHANGED <<migration, values, assets>>
        /\ config' = [config EXCEPT ![Active] = [pipes |-> round.pipes, opt |-> round.opt]]
    BY <1>6 DEF WriteConfig, PutConfig, Active, inputs
  <2>2. /\ round # Idle /\ round' # Idle /\ round.order \in Orders
        /\ round'.order = round.order /\ round'.data = round.data
        /\ round'.pipes = round.pipes /\ round'.altBuilt = round.altBuilt
        /\ Active' = Active /\ Dormant' = Dormant /\ Variant = {Active, Dormant}
        /\ Active # Dormant
    BY <1>1, <2>1 DEF Steps
  <2>3. config'[Active].pipes = round.pipes /\ config'[Dormant] = config[Dormant]
    BY <2>1, <2>2 DEF TypeOK
  <2>4. KeysOf(round.pipes) \subseteq DOMAIN assets[Active]
    BY <2>1, <2>2, NoDataFacts DEF BothInv, BothCovered, BothStaged
  <2>5. NoDanglingReference'
    BY <2>1, <2>2, <2>3, <2>4 DEF BothInv, NoDanglingReference, Referenced
  <2>6. BothCovered'
    BY <2>1, <2>2, <2>3 DEF BothInv, BothCovered, Referenced
  <2>7. BothStaged'
    BY <2>1, <2>2 DEF BothInv, BothStaged
  <2> QED
    BY <2>1, <2>5, <2>6, <2>7 DEF BothInv
<1>7. CASE WriteAltConfig
  <2>1. /\ round.pc = "altConfig" /\ Advance /\ UNCHANGED <<migration, values, assets>>
        /\ config' = [config EXCEPT ![Dormant] =
                         IF round.altBuilt THEN [pipes |-> round.pipes, opt |-> ~round.opt]
                         ELSE config[Dormant]]
    BY <1>7 DEF WriteAltConfig, PutConfig, Dormant, inputs, BothInv
  <2>2. /\ round # Idle /\ round' # Idle /\ round.order \in Orders
        /\ round'.order = round.order /\ round'.data = round.data
        /\ round'.pipes = round.pipes /\ round'.altBuilt = round.altBuilt
        /\ Active' = Active /\ Dormant' = Dormant /\ Variant = {Active, Dormant}
        /\ Active # Dormant
    BY <1>1, <2>1 DEF Steps
  <2>3. /\ config'[Active] = config[Active]
        /\ round.altBuilt => config'[Dormant].pipes = round.pipes
        /\ ~round.altBuilt => config'[Dormant] = config[Dormant]
    BY <2>1, <2>2 DEF TypeOK
  <2>4. round.altBuilt => KeysOf(round.pipes) \subseteq DOMAIN assets[Dormant]
    BY <2>1, <2>2, NoDataFacts DEF BothInv, BothCovered, BothStaged
  <2>5. NoDanglingReference'
    BY <2>1, <2>2, <2>3, <2>4 DEF BothInv, NoDanglingReference, Referenced
  <2>6. BothCovered'
    BY <2>1, <2>2, <2>3 DEF BothInv, BothCovered, Referenced
  <2>7. BothStaged'
    BY <2>1, <2>2 DEF BothInv, BothStaged
  <2> QED
    BY <2>1, <2>5, <2>6, <2>7 DEF BothInv
<1>8. CASE Tick
  <2>1. UNCHANGED <<migration, values, assets, config>>
    BY <1>8 DEF Tick, inputs
  <2>2. NoDanglingReference'
    BY <2>1 DEF BothInv, NoDanglingReference, Referenced
  <2> QED
    BY <1>8, <2>1, <2>2, TickKeeps DEF BothInv, BothCovered, BothStaged, Referenced
<1>9. CASE RotateValue
  <2>1. UNCHANGED <<migration, assets, config, round>>
    BY <1>9 DEF RotateValue, Edit, cluster
  <2> QED
    BY <1>0, <2>1
<1>10. CASE ChangePipelines \/ SwitchMode \/ RejectConfig \/ FinishRound \/ FailRound
            \/ Restart \/ SyncCache \/ RequeueExpires \/ UNCHANGED vars
  <2>1. UNCHANGED <<assets, config, values>>
    BY <1>10 DEF ChangePipelines, SwitchMode, Edit, RejectConfig, FinishRound, FailRound,
                 Restart, SyncCache, RequeueExpires, cluster, inputs, vars
  <2>2. round' = Idle \/ UNCHANGED round
    BY <1>10 DEF ChangePipelines, SwitchMode, Edit, RejectConfig, FinishRound, FailRound,
                 Restart, SyncCache, RequeueExpires, vars
  <2>3. UNCHANGED migration
    BY <1>10 DEF ChangePipelines, SwitchMode, Edit, RejectConfig, FinishRound, FailRound,
                 Restart, SyncCache, RequeueExpires, vars, BothInv, TypeOK
  <2> QED
    BY <1>0, <2>1, <2>2, <2>3
<1>11. CASE AcceptConfig \/ StampPublishing \/ WriteDaemonSet
  BY <1>2, <1>11 DEF AcceptConfig, StampPublishing, WriteDaemonSet, cluster, inputs
<1>12. ~KeepLeftoverConfig
  BY DEF KeepLeftoverConfig, BothInv
<1> QED
  BY <1>3, <1>4, <1>5, <1>6, <1>7, <1>8, <1>9, <1>10, <1>11, <1>12 DEF Next, Step

(* With checkpoint migration, the configs of both variants find every key  *)
(* they reference in the assets Secret of their variant, as long as plans  *)
(* are complete: whatever the pipelines, values and budgets, through mode  *)
(* switches, failed standby builds, failed writes, restarts and a lagging  *)
(* cache, a refusal of the second pass is the only thing that can leave a  *)
(* reference without its key (planSecretAssetsBridge, EnsureVectorAgent).  *)
THEOREM BothVariantsAreStaged ==
    Flags = {TRUE} => (Spec /\ []PlanIsComplete => []NoDanglingReference)
<1> SUFFICES ASSUME Flags = {TRUE} PROVE Spec /\ []PlanIsComplete => []NoDanglingReference
  OBVIOUS
<1>1. Init => BothInv
  BY BothInit
<1>2. PlanIsComplete' /\ TypeOK /\ BothInv /\ [Next]_vars => BothInv'
  BY BothStep
<1>3. BothInv => NoDanglingReference
  BY DEF BothInv
<1> QED
  BY <1>1, <1>2, <1>3, TypeCorrect, PTL DEF Spec

(* No value is replaced by a shorter one.                                  *)
NoShorterValue == \A k \in Key : values'[k] >= values[k]

(* Nothing that is stored, or is about to be, is longer than the current   *)
(* value.                                                                  *)
Outgrown(data) == \A k \in DOMAIN data : data[k] =< values[k]

GrowthInv ==
    /\ migration
    /\ \A v \in Variant : Outgrown(assets[v])
    /\ round # Idle => \A v \in Variant : Outgrown(round.data[v])
    /\ PlanIsComplete

LEMMA GrowthStart ==
    ASSUME TypeOK, GrowthInv, StartRound
    PROVE  GrowthInv'
<1>1. PICK target \in SUBSET Pipeline : \E room \in [Managed -> SUBSET target] :
      \E staged \in [Managed -> SUBSET Bridge(target, room)] : \E altBuilt \in BOOLEAN :
         /\ Chosen(target, room, staged, altBuilt)
         /\ Bridge(target, room) \in SUBSET target
         /\ BridgeData(staged) \in [Variant -> Data]
  BY StartChoices
<1>2. PICK room \in [Managed -> SUBSET target] :
      \E staged \in [Managed -> SUBSET Bridge(target, room)] : \E altBuilt \in BOOLEAN :
         /\ Chosen(target, room, staged, altBuilt)
         /\ Bridge(target, room) \in SUBSET target
         /\ BridgeData(staged) \in [Variant -> Data]
  BY <1>1
<1> DEFINE pipes == Bridge(target, room)
<1>3. PICK staged \in [Managed -> SUBSET pipes], altBuilt \in BOOLEAN :
         /\ Chosen(target, room, staged, altBuilt)
         /\ pipes \in SUBSET Pipeline
  BY <1>2
<1>4. /\ round' = PlannedRound(pipes, altBuilt, BridgeData(staged))
      /\ \A v \in Managed :
            /\ pipes \in SUBSET room[v]
            /\ Greedy(assets[v], values, target, room[v])
            /\ Greedy(assets[v], values, pipes, staged[v])
  BY <1>3 DEF Chosen, Bridge
<1> HIDE DEF pipes
<1>5. /\ Managed = Variant /\ values \in [Key -> Length]
      /\ \A v \in Variant : assets[v] \in Data /\ Outgrown(assets[v])
      /\ \A k \in Key : values[k] \in Nat
  BY BudgetAssumption DEF GrowthInv, Managed, TypeOK, Length
<1>6. \A v \in Variant : staged[v] = pipes
  <2> TAKE v \in Variant
  <2>1. \A k \in DOMAIN assets[v] : assets[v][k] =< values[k]
    BY <1>5 DEF Outgrown
  <2> QED
    BY <1>4, <1>5, <2>1, GreedySteady
<1>7. \A v \in Variant : BridgeData(staged)[v] = Stage(assets[v], values, pipes)
  BY <1>5, <1>6 DEF BridgeData
<1>8. UNCHANGED <<migration, assets, values>>
  BY DEF StartRound, cluster, inputs
<1>9. /\ round'.pipes = pipes
      /\ \/ round'.data = [v \in Variant |-> Stage(NoData, values, pipes)]
         \/ round'.data = BridgeData(staged)
  BY <1>4 DEF PlannedRound
<1>10. ASSUME NEW v \in Variant
       PROVE  Outgrown(round'.data[v]) /\ KeysOf(pipes) \subseteq DOMAIN round'.data[v]
  <2>1. PICK e \in Data : Outgrown(e) /\ round'.data[v] = Stage(e, values, pipes)
    BY <1>5, <1>7, <1>9, <1>10, NoDataFacts DEF Outgrown
  <2>2. KeysOf(pipes) \subseteq Key
    BY <1>3, RefsAssumption DEF KeysOf
  <2> QED
    BY <1>5, <2>1, <2>2 DEF Outgrown, Stage
<1> QED
  BY <1>8, <1>9, <1>10 DEF GrowthInv, PlanIsComplete, Outgrown

LEMMA GrowthStep ==
    Flags = {TRUE} /\ TypeOK /\ GrowthInv /\ [Next]_vars /\ [NoShorterValue]_vars => GrowthInv'
<1> SUFFICES ASSUME Flags = {TRUE}, TypeOK, GrowthInv, [Next]_vars, [NoShorterValue]_vars
             PROVE  GrowthInv'
  OBVIOUS
<1>1. \A k \in Key : values[k] \in Nat /\ values'[k] \in Nat /\ values[k] =< values'[k]
  <2>1. TypeOK'
    BY TypeStep
  <2>2. \A k \in Key : values[k] \in Nat /\ values'[k] \in Nat
    BY <2>1, BudgetAssumption DEF TypeOK, Length
  <2> QED
    BY <2>2 DEF NoShorterValue, vars, inputs
<1>2. ASSUME NEW d \in Data, Outgrown(d) PROVE Outgrown(d)'
  <2>1. ASSUME NEW k \in DOMAIN d PROVE d[k] =< values'[k]
    <3>1. k \in Key /\ d[k] \in Nat /\ d[k] =< values[k]
      BY <1>2, <2>1, DataFacts DEF Outgrown
    <3> QED
      BY <1>1, <3>1
  <2> QED
    BY <2>1 DEF Outgrown
<1>3. /\ \A v \in Variant : assets[v] \in Data /\ Outgrown(assets[v])
      /\ round # Idle => \A v \in Variant : round.data[v] \in Data /\ Outgrown(round.data[v])
  BY DEF TypeOK, GrowthInv, Round
<1>4. ASSUME UNCHANGED migration,
             \/ round' = Idle
             \/ round # Idle /\ round'.data = round.data /\ round'.pipes = round.pipes
             \/ round' = round,
             \A v \in Variant : \/ assets'[v] = assets[v]
                                \/ round # Idle /\ assets'[v] = round.data[v]
      PROVE  GrowthInv'
  <2>1. \A v \in Variant : Outgrown(assets[v])'
    <3> TAKE v \in Variant
    <3>1. PICK d \in Data : Outgrown(d) /\ assets'[v] = d
      BY <1>3, <1>4
    <3> QED
      BY <1>2, <3>1 DEF Outgrown
  <2>2. round' # Idle => round # Idle /\ round'.data = round.data /\ round'.pipes = round.pipes
    BY <1>4
  <2>3. round' # Idle => \A v \in Variant : Outgrown(round.data[v])'
    <3> SUFFICES ASSUME round' # Idle, NEW v \in Variant PROVE Outgrown(round.data[v])'
      OBVIOUS
    <3>1. PICK d \in Data : Outgrown(d) /\ round'.data[v] = d
      BY <1>3, <2>2
    <3> QED
      BY <1>2, <3>1 DEF Outgrown
  <2>4. PlanIsComplete'
    BY <2>2 DEF GrowthInv, PlanIsComplete
  <2> QED
    BY <1>4, <2>1, <2>3, <2>4 DEF GrowthInv
<1>5. CASE StartRound
  BY <1>5, GrowthStart
<1>6. CASE ChangePipelines \/ RotateValue \/ SwitchMode \/ RejectConfig \/ FinishRound
           \/ FailRound \/ Restart \/ SyncCache \/ RequeueExpires \/ UNCHANGED vars
  <2>1. UNCHANGED assets /\ (round' = Idle \/ round' = round)
    BY <1>6 DEF ChangePipelines, RotateValue, SwitchMode, Edit, RejectConfig, FinishRound,
                FailRound, Restart, SyncCache, RequeueExpires, cluster, vars
  <2>2. UNCHANGED migration
    BY <1>6 DEF ChangePipelines, RotateValue, SwitchMode, Edit, RejectConfig, FinishRound,
                FailRound, Restart, SyncCache, RequeueExpires, vars, GrowthInv, TypeOK
  <2> QED
    BY <1>4, <2>1, <2>2
<1>7. CASE AcceptConfig \/ StampPublishing \/ WriteConfig \/ WriteAltConfig \/ WriteDaemonSet
  <2>1. UNCHANGED <<migration, assets>> /\ Advance /\ round.pc \in Steps \ {"status"}
    BY <1>7 DEF AcceptConfig, StampPublishing, WriteConfig, WriteAltConfig, WriteDaemonSet,
                cluster, Steps
  <2> QED
    BY <1>4, <2>1, AdvanceFields
<1>8. CASE WriteAssets \/ WriteAltAssets
  <2>1. UNCHANGED migration /\ Advance /\ round.pc \in Steps \ {"status"}
    BY <1>8 DEF WriteAssets, WriteAltAssets, Steps
  <2>2. round # Idle /\ round'.data = round.data /\ round'.pipes = round.pipes
    BY <2>1, AdvanceFields
  <2>3. \A v \in Variant : assets'[v] = assets[v] \/ assets'[v] = round.data[v]
    BY <1>8 DEF WriteAssets, WriteAltAssets, PutAssets, GrowthInv, TypeOK, Primary, Standby
  <2> QED
    BY <1>4, <2>1, <2>2, <2>3
<1>9. CASE Tick
  <2>1. UNCHANGED <<migration, assets>>
    BY <1>9 DEF Tick
  <2> QED
    BY <1>4, <1>9, <2>1, TickKeeps
<1>10. ~KeepLeftoverConfig
  BY DEF KeepLeftoverConfig, GrowthInv
<1> QED
  BY <1>5, <1>6, <1>7, <1>8, <1>9, <1>10 DEF Next, Step

(* With checkpoint migration, plans are complete and no reference dangles  *)
(* as long as no value is replaced by a shorter one: rotations within a    *)
(* length and to longer values, budgets that overflow, bridges, mode       *)
(* switches, faults and restarts included (planSecretAssetsBridge).        *)
THEOREM GrowingValuesAreStaged ==
    Flags = {TRUE} => (Spec /\ [][NoShorterValue]_vars => []NoDanglingReference)
<1> SUFFICES ASSUME Flags = {TRUE}
             PROVE  Spec /\ [][NoShorterValue]_vars => []NoDanglingReference
  OBVIOUS
<1>1. Init => GrowthInv
  <2> SUFFICES ASSUME Init PROVE GrowthInv
    OBVIOUS
  <2>1. migration /\ round = Idle /\ NothingPublished
    BY DEF Init, PublishedUnmarked
  <2> QED
    BY <2>1, NoDataFacts DEF GrowthInv, Outgrown, PlanIsComplete, NothingPublished
<1>2. TypeOK /\ GrowthInv /\ [Next]_vars /\ [NoShorterValue]_vars => GrowthInv'
  BY GrowthStep
<1>3. GrowthInv => PlanIsComplete
  BY DEF GrowthInv
<1>4. Spec /\ []PlanIsComplete => []NoDanglingReference
  BY BothVariantsAreStaged
<1> QED
  BY <1>1, <1>2, <1>3, <1>4, TypeCorrect, PTL DEF Spec

-----------------------------------------------------------------------------
(* The grace period, with or without checkpoint migration, however far the *)
(* cache lags behind.                                                      *)

(* Every process of the operator runs with the same flag.  The standby     *)
(* Secret of an operator that lost the flag is dropped without any grace.  *)
FlagStays == \A f, g \in Flags : f = g

(* A round that publishes nothing found its own configs published.         *)
UnchangedConfig ==
    round # Idle /\ ~round.publishing =>
        \A v \in Managed : config[v].pipes = round.pipes

(* Configs that may differ are written soon after the mark.                *)
MarkBeforeConfig ==
    round # Idle /\ round.publishing /\ round.pc \in {"config", "altConfig"} =>
        mark =< round.late

(* The mark vouches for every key a config does not reference: it has been *)
(* out of use there for as long as the mark is old, less the latency.      *)
MarkVouches ==
    \A v \in Managed : \A k \in Key \ Referenced(v) : unused[v][k] + Latency >= mark

(* What a round is going to drop is out of use and stays so, and if the    *)
(* round has read the mark that is there, it has been so for long enough.  *)
DropsAreOld ==
    round # Idle =>
        \A v \in Managed : \A k \in DOMAIN assets[v] \ DOMAIN round.data[v] :
            /\ ~round.publishing
            /\ k \notin Referenced(v)
            /\ ~round.stale => unused[v][k] >= Grace - Latency

(* Only the variants the operator reads have assets.                       *)
OthersEmpty == \A v \in Variant \ Managed : assets[v] = NoData

GraceInv ==
    /\ UnchangedConfig /\ MarkBeforeConfig
    /\ MarkVouches /\ DropsAreOld /\ OthersEmpty

(* A key grows older unless it is in use.                                  *)
LEMMA AgeFacts ==
    /\ \A a \in 0..Grace : Older1(a) >= a /\ Older1(a) \in 0..Grace
    /\ \A a \in 0..Grace : \A m \in NoMark..Grace :
          a + Latency >= m => Older1(a) + Latency >= Older1(m)
    /\ \A m \in NoMark..Grace : \A n \in Nat : m =< n => Older1(m) =< n + 1
BY PublishAssumption DEF Older1, NoMark

(* The decision to drop a key: it is the same for all variants.            *)
LEMMA PlannedDrops ==
    ASSUME TypeOK, GraceInv, NEW pipes \in SUBSET Pipeline, NEW altBuilt,
           NEW bridged \in [Variant -> Data],
           \A v \in Managed : DOMAIN assets[v] \subseteq DOMAIN bridged[v],
           round' = PlannedRound(pipes, altBuilt, bridged),
           NEW v \in Managed
    PROVE  /\ ~round'.publishing => config[v].pipes = pipes
           /\ \A k \in DOMAIN assets[v] \ DOMAIN round'.data[v] :
                 /\ ~round'.publishing
                 /\ k \notin Referenced(v)
                 /\ ~round'.stale => unused[v][k] >= Grace - Latency
<1> DEFINE exact == Stage(NoData, values, pipes)
           unchanged == AllConfigsUnchanged(pipes, altBuilt)
           wouldDrop == \E w \in Managed : WouldDropAKey(assets[w], exact)
           prune == ~wouldDrop \/ MayPrune(unchanged)
<1>1. DOMAIN exact = KeysOf(pipes)
  BY ExactFacts DEF TypeOK
<1>2. /\ round'.publishing = ~unchanged /\ round'.stale = (cachedMark # mark)
      /\ round'.data = IF prune THEN [w \in Variant |-> exact] ELSE bridged
  BY DEF PlannedRound
<1>3. v \in Variant /\ v \in {Primary(optimize), Standby(optimize)}
      /\ (v # Primary(optimize) => migration)
  BY DEF Managed, Variant, Primary, Standby
<1>4. unchanged => config[v].pipes = pipes
  BY <1>3 DEF AllConfigsUnchanged
<1>5. ASSUME NEW k \in DOMAIN assets[v] \ DOMAIN round'.data[v]
      PROVE  /\ unchanged /\ k \notin Referenced(v)
             /\ ~round'.stale => unused[v][k] >= Grace - Latency
  <2>1. prune
    BY <1>2, <1>5
  <2>2. round'.data[v] = exact /\ k \notin KeysOf(pipes)
    BY <1>1, <1>2, <1>3, <1>5, <2>1
  <2>3. wouldDrop
    BY <1>5, <2>2 DEF WouldDropAKey
  <2>4. unchanged /\ cachedMark >= Grace
    BY <2>1, <2>3 DEF MayPrune
  <2>5. k \in Key
    BY <1>3, <1>5 DEF TypeOK, Data
  <2>6. k \notin Referenced(v)
    BY <1>4, <2>2, <2>4 DEF Referenced
  <2>7. unused[v][k] + Latency >= mark /\ (~round'.stale => mark >= Grace)
    BY <1>2, <2>4, <2>5, <2>6 DEF GraceInv, MarkVouches
  <2>8. unused[v][k] \in 0..Grace /\ mark \in NoMark..Grace
    BY <1>3, <2>5 DEF TypeOK
  <2>9. ~round'.stale => unused[v][k] >= Grace - Latency
    BY <2>7, <2>8, PublishAssumption DEF NoMark
  <2> QED
    BY <2>4, <2>6, <2>9
<1> HIDE DEF unchanged, prune
<1> QED
  BY <1>2, <1>4, <1>5

LEMMA GraceInit == Init => GraceInv
<1> SUFFICES ASSUME Init PROVE GraceInv
  OBVIOUS
<1>1. TypeOK
  BY TypeInit
<1>2. round = Idle /\ mark = NoMark /\ cachedMark = NoMark
  BY DEF Init
<1>3. \A v \in Managed : \A k \in Key : unused[v][k] \in 0..Grace
  BY <1>1, VariantFacts DEF TypeOK
<1>4. MarkVouches
  BY <1>2, <1>3, PublishAssumption DEF MarkVouches, NoMark
<1>5. OthersEmpty
  <2>1. CASE NothingPublished
    BY <2>1 DEF NothingPublished, OthersEmpty
  <2>2. ASSUME NEW pipes \in Selections, PublishedUnmarked(pipes) PROVE OthersEmpty
    BY <2>2 DEF PublishedUnmarked, OthersEmpty, Managed, Variant
  <2> QED
    BY <2>1, <2>2 DEF Init
<1> QED
  BY <1>2, <1>4, <1>5 DEF GraceInv, UnchangedConfig, MarkBeforeConfig, DropsAreOld

(* A step that changes no object and either ends the round, leaves it as   *)
(* it is, or advances it, with the mark as it was or set to now.           *)
LEMMA GraceQuiet ==
    ASSUME TypeOK, GraceInv, UNCHANGED <<migration, assets, config, unused>>,
           UNCHANGED mark \/ PatchMark,
           \/ round' = Idle
           \/ round' = round
           \/ round.pc \in Steps \ {"status", "stamp", "config"} /\ Advance
           \/ round.pc = "stamp" /\ Advance /\ (round.publishing => PatchMark)
    PROVE  GraceInv'
<1>0. Managed' = Managed /\ \A v : Referenced(v)' = Referenced(v)
  BY DEF Managed, Referenced
<1>1. /\ mark \in NoMark..Grace /\ mark' \in {mark, 0}
      /\ PatchMark => mark' = 0
  BY DEF PatchMark, TypeOK
<1>2. OthersEmpty'
  BY <1>0 DEF GraceInv, OthersEmpty
<1>3. MarkVouches'
  <2>1. \A v \in Managed : \A k \in Key : unused[v][k] \in 0..Grace
    BY VariantFacts DEF TypeOK
  <2> QED
    BY <1>0, <1>1, <2>1, PublishAssumption DEF GraceInv, MarkVouches, NoMark
<1>4. ASSUME round' = Idle \/ round' = round
      PROVE  UnchangedConfig' /\ MarkBeforeConfig' /\ DropsAreOld'
  <2>1. round # Idle => round.late \in Nat
    BY DEF TypeOK, Round
  <2> QED
    BY <1>0, <1>1, <1>4, <2>1
       DEF GraceInv, UnchangedConfig, MarkBeforeConfig, DropsAreOld, NoMark
<1>5. ASSUME round.pc \in Steps \ {"status", "config"}, Advance,
             round.pc = "stamp" /\ round.publishing => PatchMark
      PROVE  UnchangedConfig' /\ MarkBeforeConfig' /\ DropsAreOld'
  <2>1. /\ round # Idle /\ round' # Idle /\ round'.data = round.data
        /\ round'.pipes = round.pipes /\ round'.publishing = round.publishing
        /\ round'.stale = round.stale
        /\ round'.late = round.late /\ round.late \in Nat
        /\ round'.pc = NextStep[round.order][round.pc] /\ round.order \in Orders
    BY <1>5, AdvanceFields, AdvanceKeeps DEF Round
  <2>2. round'.pc \in {"config", "altConfig"} => round.pc = "stamp"
    BY <1>5, <2>1, NextStepValues DEF Orders, Steps
  <2>3. UnchangedConfig' /\ DropsAreOld'
    BY <1>0, <2>1 DEF GraceInv, UnchangedConfig, DropsAreOld
  <2>4. MarkBeforeConfig'
    BY <1>1, <1>5, <2>1, <2>2 DEF MarkBeforeConfig
  <2> QED
    BY <2>3, <2>4
<1>6. UnchangedConfig' /\ MarkBeforeConfig' /\ DropsAreOld'
  BY <1>4, <1>5 DEF Steps
<1> QED
  BY <1>2, <1>3, <1>6 DEF GraceInv

LEMMA GraceStart ==
    ASSUME TypeOK, GraceInv, StartRound
    PROVE  GraceInv'
<1>1. PICK target \in SUBSET Pipeline : \E room \in [Managed -> SUBSET target] :
      \E staged \in [Managed -> SUBSET Bridge(target, room)] : \E altBuilt \in BOOLEAN :
         /\ Chosen(target, room, staged, altBuilt)
         /\ Bridge(target, room) \in SUBSET target
         /\ BridgeData(staged) \in [Variant -> Data]
  BY StartChoices
<1>2. PICK room \in [Managed -> SUBSET target] :
      \E staged \in [Managed -> SUBSET Bridge(target, room)] : \E altBuilt \in BOOLEAN :
         /\ Chosen(target, room, staged, altBuilt)
         /\ Bridge(target, room) \in SUBSET target
         /\ BridgeData(staged) \in [Variant -> Data]
  BY <1>1
<1> DEFINE pipes == Bridge(target, room)
<1>3. PICK staged \in [Managed -> SUBSET pipes], altBuilt \in BOOLEAN :
         /\ Chosen(target, room, staged, altBuilt)
         /\ pipes \in SUBSET Pipeline
         /\ BridgeData(staged) \in [Variant -> Data]
  BY <1>2
<1>4. round' = PlannedRound(pipes, altBuilt, BridgeData(staged))
  BY <1>3 DEF Chosen
<1> HIDE DEF pipes
<1>5. \A v \in Managed : DOMAIN assets[v] \subseteq DOMAIN BridgeData(staged)[v]
  BY VariantFacts DEF BridgeData, Stage
<1>6. UNCHANGED <<migration, assets, config, unused, mark, cachedMark>>
  BY DEF StartRound, cluster
<1>7. Managed' = Managed /\ \A v : Referenced(v)' = Referenced(v)
  BY <1>6 DEF Managed, Referenced
<1>8. round'.pc = "check" /\ round'.pipes = pipes
  BY <1>4 DEF PlannedRound
<1>9. \A v \in Managed :
         /\ ~round'.publishing => config[v].pipes = pipes
         /\ \A k \in DOMAIN assets[v] \ DOMAIN round'.data[v] :
               /\ ~round'.publishing
               /\ k \notin Referenced(v)
               /\ ~round'.stale => unused[v][k] >= Grace - Latency
  <2> TAKE v \in Managed
  <2> DEFINE bridged == BridgeData(staged)
  <2>1. bridged \in [Variant -> Data] /\ round' = PlannedRound(pipes, altBuilt, bridged)
    BY <1>3, <1>4
  <2>2. \A w \in Managed : DOMAIN assets[w] \subseteq DOMAIN bridged[w]
    BY <1>5
  <2>3. pipes \in SUBSET Pipeline
    BY <1>3
  <2> HIDE DEF bridged
  <2> QED
    BY <2>1, <2>2, <2>3, PlannedDrops
<1>10. MarkVouches' /\ OthersEmpty' /\ MarkBeforeConfig'
  BY <1>6, <1>7, <1>8 DEF GraceInv, MarkVouches, OthersEmpty, MarkBeforeConfig
<1>11. UnchangedConfig' /\ DropsAreOld'
  BY <1>6, <1>7, <1>8, <1>9 DEF UnchangedConfig, DropsAreOld
<1> QED
  BY <1>10, <1>11 DEF GraceInv

(* Writing assets is what drops keys.  A variant the operator does not     *)
(* read is emptied, and was empty.                                         *)
LEMMA GraceAssets ==
    ASSUME TypeOK, GraceInv, WriteAssets \/ WriteAltAssets
    PROVE  /\ GraceInv'
           /\ \A v \in Variant : \A k \in DOMAIN assets[v] \ DOMAIN assets'[v] :
                 ~round.stale => unused[v][k] >= Grace - Latency
<1>1. /\ round.pc \in {"assets", "altAssets"} /\ round.pc \in Steps \ {"status"} /\ Advance
      /\ UNCHANGED <<migration, config, unused, mark, cachedMark>>
  BY DEF WriteAssets, WriteAltAssets, Steps
<1>2. /\ round # Idle /\ round' # Idle /\ round'.data = round.data
      /\ round'.pipes = round.pipes /\ round'.publishing = round.publishing
      /\ round'.stale = round.stale
      /\ round.order \in Orders /\ round'.pc = NextStep[round.order][round.pc]
  BY <1>1, AdvanceFields, AdvanceKeeps
<1>3. round'.pc \notin {"config", "altConfig"}
  BY <1>1, <1>2, NextStepValues DEF Orders
<1>4. Managed' = Managed /\ \A v : Referenced(v)' = Referenced(v)
  BY <1>1 DEF Managed, Referenced
<1>5. \E w \in Variant : \E d : /\ assets' = [assets EXCEPT ![w] = d]
                                /\ \/ w \in Managed /\ d = round.data[w]
                                   \/ d = assets[w]
  <2>1. CASE WriteAssets
    BY <2>1 DEF WriteAssets, PutAssets, Primary, Managed, Variant
  <2>2. CASE WriteAltAssets
    <3> DEFINE w == Standby(round.opt)
    <3>1. assets' = [assets EXCEPT ![w] =
                       IF ~migration THEN NoData
                       ELSE IF round.altBuilt THEN round.data[w] ELSE assets[w]]
      BY <2>2 DEF WriteAltAssets, PutAssets
    <3>2. w \in Variant /\ (migration => w \in Managed)
      BY DEF Standby, Managed, Variant
    <3>3. ~migration => assets[w] = NoData
      BY DEF GraceInv, OthersEmpty, Standby, Managed, Variant
    <3> HIDE DEF w
    <3> QED
      BY <3>1, <3>2, <3>3
  <2> QED
    BY <2>1, <2>2
<1>6. \A v \in Variant :
         assets'[v] = assets[v] \/ (v \in Managed /\ assets'[v] = round.data[v])
  <2>0. PICK w \in Variant : \E d : /\ assets' = [assets EXCEPT ![w] = d]
                                    /\ \/ w \in Managed /\ d = round.data[w]
                                       \/ d = assets[w]
    BY <1>5
  <2>1. PICK d : /\ assets' = [assets EXCEPT ![w] = d]
                 /\ \/ w \in Managed /\ d = round.data[w]
                    \/ d = assets[w]
    BY <2>0
  <2>2. assets'[w] = d /\ \A v \in Variant \ {w} : assets'[v] = assets[v]
    BY <2>1 DEF TypeOK
  <2> QED
    BY <2>1, <2>2
<1>7. \A v \in Variant : \A k \in DOMAIN assets[v] \ DOMAIN assets'[v] :
         ~round.stale => unused[v][k] >= Grace - Latency
  BY <1>2, <1>6 DEF GraceInv, DropsAreOld
<1>8. MarkVouches' /\ UnchangedConfig' /\ MarkBeforeConfig'
  BY <1>1, <1>2, <1>3, <1>4
     DEF GraceInv, MarkVouches, UnchangedConfig, MarkBeforeConfig
<1>9. OthersEmpty'
  BY <1>4, <1>6 DEF GraceInv, OthersEmpty
<1>10. DropsAreOld'
  BY <1>1, <1>2, <1>4, <1>6, VariantFacts DEF GraceInv, DropsAreOld
<1> QED
  BY <1>7, <1>8, <1>9, <1>10 DEF GraceInv

(* Writing a config: a key that it no longer references is no older than   *)
(* the mark, and a round that drops keys writes what is there.             *)
LEMMA GraceConfig ==
    ASSUME TypeOK, GraceInv, WriteConfig \/ WriteAltConfig
    PROVE  GraceInv'
<1>1. /\ round.pc \in {"config", "altConfig"} /\ round.pc \in Steps \ {"status"} /\ Advance
      /\ UNCHANGED <<migration, assets, mark, cachedMark>>
  BY DEF WriteConfig, WriteAltConfig, Steps
<1>2. /\ round # Idle /\ round' # Idle /\ round'.data = round.data
      /\ round'.pipes = round.pipes /\ round'.publishing = round.publishing
      /\ round'.late = round.late /\ round.late \in 0..Latency
      /\ round'.stale = round.stale /\ round.publishing \in BOOLEAN
  BY <1>1, AdvanceFields, AdvanceKeeps DEF Round
<1>3. PICK w \in Variant : \E cfg :
         /\ PutConfig(w, cfg)
         /\ w \notin Managed \/ cfg.pipes = round.pipes \/ cfg = config[w]
  <2>1. CASE WriteConfig
    <3>1. PutConfig(Primary(round.opt), [pipes |-> round.pipes, opt |-> round.opt])
      BY <2>1 DEF WriteConfig
    <3> QED
      BY <3>1, VariantFacts
  <2>2. CASE WriteAltConfig
    <3> DEFINE v == Standby(round.opt)
               cfg == IF ~migration THEN NoConfig
                      ELSE IF round.altBuilt
                           THEN [pipes |-> round.pipes, opt |-> ~round.opt]
                           ELSE config[v]
    <3>1. PutConfig(v, cfg)
      BY <2>2 DEF WriteAltConfig
    <3>2. v \in Variant /\ (~migration => v \notin Managed)
      BY DEF Standby, Managed, Variant
    <3>3. migration => cfg.pipes = round.pipes \/ cfg = config[v]
      OBVIOUS
    <3> HIDE DEF v, cfg
    <3> QED
      BY <3>1, <3>2, <3>3
  <2> QED
    BY <2>1, <2>2
<1>4. PICK cfg : /\ PutConfig(w, cfg)
                 /\ w \notin Managed \/ cfg.pipes = round.pipes \/ cfg = config[w]
  BY <1>3
<1>5. /\ config'[w] = cfg
      /\ \A k \in Key : unused'[w][k] = IF k \in Referenced(w) \cup KeysOf(cfg.pipes)
                                        THEN 0 ELSE unused[w][k]
      /\ \A v \in Variant \ {w} : config'[v] = config[v] /\ unused'[v] = unused[v]
  BY <1>4 DEF PutConfig, TypeOK
<1>6. Managed' = Managed /\ Managed \subseteq Variant
  BY <1>1, VariantFacts DEF Managed
<1>7. /\ Referenced(w)' = KeysOf(cfg.pipes)
      /\ \A v \in Variant \ {w} : Referenced(v)' = Referenced(v)
  BY <1>5 DEF Referenced
<1>8. ASSUME w \in Managed, ~round.publishing
      PROVE  cfg.pipes = config[w].pipes
  BY <1>2, <1>4, <1>8 DEF GraceInv, UnchangedConfig
<1>9. MarkVouches'
  <2>1. ASSUME NEW v \in Managed, NEW k \in Key, k \notin Referenced(v)'
        PROVE  unused'[v][k] + Latency >= mark
    <3>1. CASE v # w
      BY <1>5, <1>6, <1>7, <2>1, <3>1 DEF GraceInv, MarkVouches
    <3>2. CASE v = w /\ k \notin Referenced(w)
      BY <1>5, <1>7, <2>1, <3>2 DEF GraceInv, MarkVouches
    <3>3. CASE v = w /\ k \in Referenced(w)
      <4>1. round.publishing
        BY <1>2, <1>7, <1>8, <2>1, <3>3 DEF Referenced
      <4>2. mark =< round.late
        BY <1>1, <1>2, <4>1 DEF GraceInv, MarkBeforeConfig
      <4>3. unused'[v][k] = 0 /\ mark \in NoMark..Grace
        BY <1>5, <2>1, <3>3 DEF TypeOK
      <4> QED
        BY <1>2, <4>2, <4>3, PublishAssumption DEF NoMark
    <3> QED
      BY <3>1, <3>2, <3>3
  <2> QED
    BY <1>1, <1>6, <2>1 DEF MarkVouches
<1>10. DropsAreOld'
  <2>1. ASSUME NEW v \in Managed, NEW k \in DOMAIN assets[v] \ DOMAIN round.data[v]
        PROVE  /\ ~round.publishing /\ k \notin Referenced(v)'
               /\ ~round.stale => unused'[v][k] >= Grace - Latency
    <3>1. /\ ~round.publishing /\ k \notin Referenced(v)
          /\ ~round.stale => unused[v][k] >= Grace - Latency
      BY <1>2, <2>1 DEF GraceInv, DropsAreOld
    <3>2. k \in Key
      BY <1>6, <2>1 DEF TypeOK, Data
    <3>3. CASE v # w
      BY <1>5, <1>6, <1>7, <3>1, <3>3
    <3>4. CASE v = w
      <4>1. KeysOf(cfg.pipes) = Referenced(w)
        BY <1>8, <2>1, <3>1, <3>4 DEF Referenced
      <4> QED
        BY <1>5, <1>7, <3>1, <3>2, <3>4, <4>1
    <3> QED
      BY <3>3, <3>4
  <2> QED
    BY <1>1, <1>2, <1>6, <2>1 DEF DropsAreOld
<1>11. UnchangedConfig'
  BY <1>2, <1>5, <1>6, <1>8 DEF GraceInv, UnchangedConfig
<1>12. MarkBeforeConfig' /\ OthersEmpty'
  BY <1>1, <1>2, <1>6 DEF GraceInv, MarkBeforeConfig, OthersEmpty
<1> QED
  BY <1>9, <1>10, <1>11, <1>12 DEF GraceInv

(* Keys and the mark grow old together.                                    *)
LEMMA GraceTick ==
    ASSUME TypeOK, GraceInv, Tick
    PROVE  GraceInv'
<1>1. /\ UNCHANGED <<migration, assets, config>>
      /\ mark' = Older1(mark)
  BY DEF Tick
<1>2. \A v \in Variant : \A k \in Key : unused'[v][k] =
         IF k \in Referenced(v) THEN 0 ELSE Older1(unused[v][k])
  BY DEF Tick
<1>3. /\ mark \in NoMark..Grace
      /\ \A v \in Variant : \A k \in Key : unused[v][k] \in 0..Grace
  BY DEF TypeOK
<1>4. /\ Managed' = Managed /\ Managed \subseteq Variant
      /\ \A v : Referenced(v)' = Referenced(v)
  BY <1>1, VariantFacts DEF Managed, Referenced
<1>5. /\ round' = Idle <=> round = Idle
      /\ round # Idle =>
            /\ round'.pc = round.pc /\ round'.data = round.data /\ round'.pipes = round.pipes
            /\ round'.publishing = round.publishing /\ round.late \in Nat
            /\ round'.stale = round.stale
            /\ Publishing => round'.late = round.late + 1
  BY TickKeeps
<1>6. OthersEmpty'
  BY <1>1, <1>4 DEF GraceInv, OthersEmpty
<1>7. MarkVouches'
  BY <1>1, <1>2, <1>3, <1>4, AgeFacts DEF GraceInv, MarkVouches
<1>8. UnchangedConfig'
  BY <1>1, <1>4, <1>5 DEF GraceInv, UnchangedConfig
<1>9. MarkBeforeConfig'
  <2>1. SUFFICES ASSUME round # Idle, round.publishing, round.pc \in {"config", "altConfig"}
                 PROVE  Older1(mark) =< round.late + 1 /\ Publishing
    BY <1>1, <1>5 DEF MarkBeforeConfig
  <2>2. mark =< round.late /\ round.late \in Nat
    BY <1>5, <2>1 DEF GraceInv, MarkBeforeConfig
  <2> QED
    BY <1>3, <2>1, <2>2, AgeFacts DEF Publishing
<1>10. DropsAreOld'
  <2>1. ASSUME round # Idle, NEW v \in Managed,
               NEW k \in DOMAIN assets[v] \ DOMAIN round.data[v]
        PROVE  /\ ~round.publishing /\ k \notin Referenced(v)
               /\ ~round.stale => unused'[v][k] >= Grace - Latency
    <3>1. /\ ~round.publishing /\ k \notin Referenced(v)
          /\ ~round.stale => unused[v][k] >= Grace - Latency
      BY <2>1 DEF GraceInv, DropsAreOld
    <3>2. k \in Key /\ v \in Variant
      BY <1>4, <2>1 DEF TypeOK, Data
    <3>3. Older1(unused[v][k]) >= unused[v][k] /\ Older1(unused[v][k]) \in 0..Grace
      BY <1>3, <3>2, AgeFacts
    <3>4. unused'[v][k] = Older1(unused[v][k]) /\ unused[v][k] \in 0..Grace
      BY <1>2, <1>3, <3>1, <3>2
    <3>5. ~round.stale => unused'[v][k] >= Grace - Latency
      BY <3>1, <3>3, <3>4, PublishAssumption
    <3> QED
      BY <3>1, <3>5
  <2> QED
    BY <1>1, <1>4, <1>5, <2>1 DEF DropsAreOld
<1> QED
  BY <1>6, <1>7, <1>8, <1>9, <1>10 DEF GraceInv

(* While the flag stays, so do the variants.                               *)
FlagInv == migration \in Flags

LEMMA FlagStep == FlagInv /\ [Next]_vars => FlagInv'
BY DEF FlagInv, Next, Step, ChangePipelines, RotateValue, SwitchMode, Edit, StartRound,
       RejectConfig, AcceptConfig, WriteAssets, WriteAltAssets, StampPublishing, WriteConfig,
       WriteAltConfig, WriteDaemonSet, FinishRound, KeepLeftoverConfig, FailRound, Restart,
       SyncCache, Tick, RequeueExpires, vars

LEMMA GraceStep ==
    FlagStays /\ TypeOK /\ FlagInv /\ GraceInv /\ [Next]_vars => GraceInv'
<1> SUFFICES ASSUME FlagStays, TypeOK, FlagInv, GraceInv, [Next]_vars
             PROVE  GraceInv'
  OBVIOUS
<1>1. CASE ChangePipelines \/ RotateValue \/ SwitchMode \/ RequeueExpires \/ SyncCache \/ UNCHANGED vars
  <2>1. UNCHANGED <<migration, assets, config, unused, mark, round>>
    BY <1>1 DEF ChangePipelines, RotateValue, SwitchMode, Edit, RequeueExpires, SyncCache, cluster, vars
  <2> QED
    BY <2>1, GraceQuiet
<1>2. CASE StartRound
  BY <1>2, GraceStart
<1>3. CASE RejectConfig \/ FailRound \/ FinishRound
  BY <1>3, GraceQuiet DEF RejectConfig, FailRound, FinishRound, cluster
<1>4. CASE AcceptConfig \/ KeepLeftoverConfig \/ WriteDaemonSet
  BY <1>4, GraceQuiet DEF AcceptConfig, KeepLeftoverConfig, WriteDaemonSet, cluster, Steps
<1>5. CASE StampPublishing
  BY <1>5, GraceQuiet DEF StampPublishing, cluster
<1>6. CASE WriteAssets \/ WriteAltAssets
  BY <1>6, GraceAssets
<1>7. CASE WriteConfig \/ WriteAltConfig
  BY <1>7, GraceConfig
<1>8. CASE Restart
  <2>1. migration' = migration
    BY <1>8 DEF Restart, FlagInv, FlagStays
  <2>2. UNCHANGED <<assets, config, unused, mark>> /\ round' = Idle
    BY <1>8 DEF Restart, cluster
  <2> QED
    BY <2>1, <2>2, GraceQuiet
<1>9. CASE Tick
  BY <1>9, GraceTick
<1> QED
  BY <1>1, <1>2, <1>3, <1>4, <1>5, <1>6, <1>7, <1>8, <1>9 DEF Next, Step

(* With or without migration, as long as the flag does not change, a key   *)
(* leaves an assets Secret before the config of that variant has been      *)
(* without it for the grace period, less the time a config write may take  *)
(* after its mark, only in a round that read a stale mark: for any         *)
(* pipelines, values, budgets, mode switches, edits, failed writes,        *)
(* restarts and delays of the cache (secretAssetsPruneDecision,            *)
(* StampConfigPublishing).                                                 *)
THEOREM GracePeriodHonoured == FlagStays => (Spec => GraceHonoured)
<1> SUFFICES ASSUME FlagStays PROVE Spec => GraceHonoured
  OBVIOUS
<1>1. Init => GraceInv /\ FlagInv
  BY GraceInit DEF Init, FlagInv
<1>2. TypeOK /\ FlagInv /\ GraceInv /\ [Next]_vars => FlagInv' /\ GraceInv'
  BY GraceStep, FlagStep
<1>3. TypeOK /\ GraceInv /\ [Next]_vars =>
        [\A v \in Variant : \A k \in Key : LeavesEarly(v, k) => round.stale]_vars
  <2> SUFFICES ASSUME TypeOK, GraceInv, [Next]_vars,
                      NEW v \in Variant, NEW k \in Key, LeavesEarly(v, k)
               PROVE  round.stale
    OBVIOUS
  <2>0. k \in DOMAIN assets[v] \ DOMAIN assets'[v] /\ unused[v][k] < Grace - Latency
    BY DEF LeavesEarly
  <2>1. CASE WriteAssets \/ WriteAltAssets
    <3>1. ~round.stale => unused[v][k] >= Grace - Latency
      BY <2>0, <2>1, GraceAssets
    <3>2. unused[v][k] \in 0..Grace /\ round.stale \in BOOLEAN
      <4>1. round # Idle
        BY <2>1 DEF WriteAssets, WriteAltAssets, Idle
      <4> QED
        BY <4>1 DEF TypeOK, Round
    <3> QED
      BY <2>0, <3>1, <3>2, PublishAssumption
  <2>2. WriteAssets \/ WriteAltAssets \/ UNCHANGED assets
    BY DEF Next, Step, ChangePipelines, RotateValue, SwitchMode, Edit, StartRound, RejectConfig,
           AcceptConfig, StampPublishing, WriteConfig, WriteAltConfig, WriteDaemonSet, FinishRound,
           KeepLeftoverConfig, FailRound, Restart, SyncCache, Tick, RequeueExpires, cluster, vars
  <2> QED
    BY <2>0, <2>1, <2>2
<1> QED
  BY <1>1, <1>2, <1>3, TypeCorrect, PTL DEF Spec, GraceHonoured

-----------------------------------------------------------------------------
(* The safety that convergence rests on, with or without migration.        *)

(* Nothing is going on: no round, no event and no requeue will bring the   *)
(* Vector back before somebody edits something.                            *)
Resting == round = Idle /\ ~queued /\ timer = NoTimer

(* The pipelines that a round would publish now: those of the resolved     *)
(* ones that every variant has room for.                                   *)
Admitted(pipes) ==
    \E target \in SUBSET wanted :
        /\ Greedy(NoData, values, wanted, target)
        /\ \E room \in [Managed -> SUBSET target] :
              /\ \A v \in Managed : Greedy(assets[v], values, target, room[v])
              /\ pipes = Bridge(target, room)

(* Their config is one that the build or the configcheck rejects; the      *)
(* failure is in the status of the Vector, and there is no retry.          *)
Rejected == \E pipes \in Invalid : Admitted(pipes)

(* The agent never rests too early.                                        *)
NeverStuck == Resting => Settled \/ Rejected

(* What the round publishes for variant v.                                 *)
PlannedConfig(v) ==
    [pipes |-> round.pipes, opt |-> IF v = Active THEN round.opt ELSE ~round.opt]

(* The writes a round has behind it, in its order.                         *)
AssetsDone ==
    \/ round.pc \in {"altAssets", "status"}
    \/ round.order # "losing" /\ round.pc \notin {"check", "assets"}

ConfigDone ==
    \/ round.pc \in {"altConfig", "status"}
    \/ round.order = "losing" /\ round.pc \notin {"check", "stamp", "config"}
    \/ round.order = "keeping" /\ round.pc = "daemonSet"

DaemonSetDone ==
    \/ round.pc = "status"
    \/ round.order = "gaining" /\ round.pc \in {"stamp", "config", "altConfig"}
    \/ round.order = "losing" /\ round.pc \in {"assets", "altAssets"}

(* While no event has come in, a round works on what is still the case:    *)
(* its pipelines are those the bridge admits now, and it will change a     *)
(* config, or ask for a requeue, or hold exactly the data that is needed.  *)
PlanCurrent ==
    /\ round.opt = optimize
    /\ migration => round.altBuilt
    /\ Admitted(round.pipes)
    /\ \/ \E v \in Managed : config[v] # PlannedConfig(v)
       \/ round.data = [v \in Variant |-> Stage(NoData, values, round.pipes)]
       \/ round.requeue > 0

(* And what it has written so far had been there before: a write that      *)
(* changes an object comes back as an event.                               *)
NothingChanged ==
    /\ AssetsDone =>
          /\ assets[Active] = round.data[Active]
          /\ migration /\ round.pc # "altAssets" => assets[Dormant] = round.data[Dormant]
    /\ ConfigDone =>
          /\ config[Active] = PlannedConfig(Active)
          /\ migration /\ round.pc # "altConfig" => config[Dormant] = PlannedConfig(Dormant)
    /\ DaemonSetDone => daemonSet = Template(Active, round.data[Active])

QuietRound == round # Idle /\ ~queued => PlanCurrent /\ NothingChanged

RestInv == NeverStuck /\ QuietRound

(* Pipelines that fit together from nothing also fit on top of the exact   *)
(* data of some of them: once the assets hold no more than they should,    *)
(* the bridge makes nobody wait.                                           *)
LEMMA NobodyWaits ==
    ASSUME NEW vals \in [Key -> Length], NEW T \in SUBSET Pipeline, NEW P \in SUBSET T,
           NEW A, Fits(Stage(NoData, vals, T)), Greedy(Stage(NoData, vals, P), vals, T, A)
    PROVE  A = T
<1> DEFINE e == Stage(NoData, vals, P)
<1>1. A \subseteq T
  BY DEF Greedy
<1>2. /\ e \in Data /\ DOMAIN e = KeysOf(P)
      /\ Stage(NoData, vals, T) \in Data /\ DOMAIN Stage(NoData, vals, T) = KeysOf(T)
      /\ KeysOf(T) \subseteq Key
  <2>1. P \in SUBSET Pipeline
    OBVIOUS
  <2>2. /\ e \in Data
        /\ DOMAIN e = DOMAIN NoData \cup KeysOf(P)
    BY <2>1, NoDataFacts, StageFacts
  <2>3. /\ Stage(NoData, vals, T) \in Data
        /\ DOMAIN Stage(NoData, vals, T) = DOMAIN NoData \cup KeysOf(T)
        /\ KeysOf(T) \subseteq Key
    BY NoDataFacts, StageFacts
  <2> QED
    BY <2>2, <2>3, NoDataFacts
<1>3. \A k \in KeysOf(P) : e[k] = vals[k]
  BY DEF Stage
<1>4. \A k \in KeysOf(T) : Stage(NoData, vals, T)[k] = vals[k]
  BY DEF Stage
<1>5. ASSUME NEW p \in T PROVE p \in A
  <2> DEFINE Q == {q \in A : Older(q, p)} \cup {p}
  <2>1. Q \in SUBSET T
    BY <1>1
  <2> HIDE DEF e
  <2>2. Fits(Stage(e, vals, Q))
    <3> HIDE DEF Q
    <3>1. Stage(e, vals, Q) \in Data /\ DOMAIN Stage(e, vals, Q) = KeysOf(P) \cup KeysOf(Q)
      BY <1>2, <2>1, StageFacts
    <3>2. KeysOf(P) \subseteq KeysOf(T) /\ KeysOf(Q) \subseteq KeysOf(T)
      BY <2>1 DEF KeysOf
    <3>3. \A k \in KeysOf(P) \cup KeysOf(Q) : Stage(e, vals, Q)[k] = vals[k]
      BY <1>2, <1>3 DEF Stage
    <3>4. \A k \in KeysOf(T) : vals[k] \in Nat
      BY <1>2, BudgetAssumption DEF Length
    <3> QED
      BY <1>2, <1>4, <3>1, <3>2, <3>3, <3>4, SmallerFits
  <2> QED
    BY <1>5, <2>2 DEF Greedy, e
<1> QED
  BY <1>1, <1>5

(* A round that has changed nothing and asks for no requeue has found what *)
(* was asked for.                                                          *)
LEMMA FoundSettled ==
    ASSUME TypeOK, QuietRound, round.pc = "status", ~queued
    PROVE  round.requeue > 0 \/ Settled
<1>1. round # Idle /\ round \in Round
  BY DEF TypeOK, Idle
<1>2. PlanCurrent /\ NothingChanged
  BY <1>1 DEF QuietRound
<1>3. /\ Active \in Variant /\ Dormant \in Variant /\ Active # Dormant
      /\ Active \in Managed /\ Active = Primary(optimize)
      /\ \A v \in Managed : v = Active \/ (v = Dormant /\ migration)
  <2>1. round.opt = optimize
    BY <1>2 DEF PlanCurrent
  <2>2. Active = Primary(optimize)
    BY <2>1 DEF Active
  <2>3. CASE migration
    BY <2>2, <2>3 DEF Active, Dormant, Primary, Standby, Managed, Variant
  <2>4. CASE ~migration
    <3>1. Active = "legacy" /\ Dormant = "opt" /\ Managed = {"legacy"}
      BY <2>4 DEF Active, Dormant, Primary, Standby, Managed
    <3> QED
      BY <2>2, <3>1 DEF Variant
  <2> QED
    BY <2>3, <2>4
<1>4. /\ \A v \in Managed : assets[v] = round.data[v] /\ config[v] = PlannedConfig(v)
      /\ daemonSet = Template(Active, round.data[Active])
  BY <1>2, <1>3 DEF NothingChanged, AssetsDone, ConfigDone, DaemonSetDone
<1>5. SUFFICES ASSUME round.data = [v \in Variant |-> Stage(NoData, values, round.pipes)]
               PROVE  Settled
  BY <1>2, <1>4 DEF PlanCurrent
<1>6. \A v \in Managed : assets[v] = Stage(NoData, values, round.pipes)
  BY <1>4, <1>5, VariantFacts
<1>7. PICK target \in SUBSET wanted :
         /\ Greedy(NoData, values, wanted, target)
         /\ \E room \in [Managed -> SUBSET target] :
               /\ \A v \in Managed : Greedy(assets[v], values, target, room[v])
               /\ round.pipes = Bridge(target, room)
  BY <1>2 DEF PlanCurrent, Admitted
<1>8. PICK room \in [Managed -> SUBSET target] :
         /\ \A v \in Managed : Greedy(assets[v], values, target, room[v])
         /\ round.pipes = Bridge(target, room)
  BY <1>7
<1>9. /\ target \in SUBSET Pipeline /\ round.pipes \in SUBSET target
      /\ wanted \in SUBSET Pipeline /\ values \in [Key -> Length]
  BY <1>8 DEF TypeOK, Bridge
<1>10. Fits(Stage(NoData, values, target))
  BY <1>7, <1>9, NoDataFacts, NoDataFits, GreedyFits
<1>11. \A v \in Managed : room[v] = target
  <2> TAKE v \in Managed
  <2>1. Greedy(Stage(NoData, values, round.pipes), values, target, room[v])
    BY <1>6, <1>8
  <2> QED
    BY <1>9, <1>10, <2>1, NobodyWaits
<1>12. round.pipes = target
  BY <1>8, <1>11 DEF Bridge
<1>13. /\ \A v \in Managed : assets[v] = Stage(NoData, values, target)
       /\ \A v \in Managed :
             config[v] = [pipes |-> target,
                          opt |-> IF v = Primary(optimize) THEN optimize ELSE ~optimize]
  BY <1>2, <1>3, <1>4, <1>6, <1>12 DEF PlannedConfig, PlanCurrent
<1>14. daemonSet = [variant |-> Primary(optimize), mount |-> KeysOf(target) # {}]
  <2>1. round.data[Active] = Stage(NoData, values, target)
    BY <1>3, <1>5, <1>12
  <2>2. round.data[Active] # NoData <=> KeysOf(target) # {}
    <3>1. round.data[Active] \in Data /\ DOMAIN round.data[Active] = DOMAIN NoData \cup KeysOf(target)
      <4>1. /\ Stage(NoData, values, target) \in Data
            /\ DOMAIN Stage(NoData, values, target) = DOMAIN NoData \cup KeysOf(target)
        BY <1>9, NoDataFacts, StageFacts
      <4> QED
        BY <2>1, <4>1
    <3> QED
      BY <3>1, NoDataFacts
  <2> QED
    BY <1>3, <1>4, <2>2 DEF Template
<1> QED
  BY <1>7, <1>13, <1>14 DEF Settled

LEMMA RestInit == Init => RestInv
BY DEF Init, RestInv, NeverStuck, Resting, QuietRound

(* A round starts from what is the case.                                   *)
LEMMA RestStart ==
    ASSUME ~AltMayFail, TypeOK, StartRound
    PROVE  round' # Idle /\ PlanCurrent' /\ NothingChanged'
<1>1. UNCHANGED <<wanted, values, optimize, migration, assets, config, daemonSet>>
  BY DEF StartRound, inputs, cluster
<1>a. PICK target \in SUBSET Pipeline : \E room \in [Managed -> SUBSET target] :
      \E staged \in [Managed -> SUBSET Bridge(target, room)] : \E altBuilt \in BOOLEAN :
         Chosen(target, room, staged, altBuilt) /\ (migration <=> altBuilt)
  BY StartChoices
<1>b. PICK room \in [Managed -> SUBSET target] :
      \E staged \in [Managed -> SUBSET Bridge(target, room)] : \E altBuilt \in BOOLEAN :
         Chosen(target, room, staged, altBuilt) /\ (migration <=> altBuilt)
  BY <1>a
<1>2. PICK staged \in [Managed -> SUBSET Bridge(target, room)], altBuilt \in BOOLEAN :
         Chosen(target, room, staged, altBuilt) /\ (migration <=> altBuilt)
  BY <1>b
<1> DEFINE pipes == Bridge(target, room)
           exact == Stage(NoData, values, pipes)
           unchanged == AllConfigsUnchanged(pipes, altBuilt)
           wouldDrop == \E v \in Managed : WouldDropAKey(assets[v], exact)
<1>3. /\ round'.pc = "check" /\ round'.opt = optimize /\ round'.pipes = pipes
      /\ round'.altBuilt = altBuilt
      /\ round'.data = IF ~wouldDrop \/ MayPrune(unchanged)
                       THEN [v \in Variant |-> exact] ELSE BridgeData(staged)
      /\ round'.order = WriteOrder(optimize, round'.data[Primary(optimize)])
      /\ round'.requeue = IF wouldDrop THEN RequeueAfter(unchanged) ELSE 0
      /\ round' # Idle
  <2>1. round' = PlannedRound(pipes, altBuilt, BridgeData(staged))
    BY <1>2 DEF Chosen
  <2> HIDE DEF pipes
  <2> QED
    BY <2>1 DEF PlannedRound, Idle
<1>4. Admitted(round.pipes)'
  <2>1. /\ Greedy(NoData, values, wanted, target)
        /\ \A v \in Managed : Greedy(assets[v], values, target, room[v])
    BY <1>2 DEF Chosen
  <2>2. target \in SUBSET wanted
    BY <2>1 DEF Greedy
  <2>3. Managed' = Managed /\ Bridge(target, room)' = Bridge(target, room)
    BY <1>1 DEF Managed, Bridge
  <2> QED
    BY <1>1, <1>2, <1>3, <2>1, <2>2, <2>3 DEF Admitted
<1> HIDE DEF pipes, exact, unchanged, wouldDrop
<1>6. Active' = Primary(optimize) /\ Managed' = Managed
  BY <1>1, <1>3 DEF Active, Primary, Managed
<1>7. (\A v \in Managed : config[v] = PlannedConfig(v)') => unchanged
  <2>1. SUFFICES ASSUME \A v \in Managed : config[v] = PlannedConfig(v)' PROVE unchanged
    OBVIOUS
  <2>2. \A v : PlannedConfig(v)' =
                 [pipes |-> pipes, opt |-> IF v = Primary(optimize) THEN optimize ELSE ~optimize]
    BY <1>3, <1>6 DEF PlannedConfig
  <2>3. Primary(optimize) \in Managed /\ Primary(optimize) # Standby(optimize)
    BY DEF Primary, Standby, Managed, Variant
  <2>4. migration => Standby(optimize) \in Managed
    BY DEF Standby, Managed, Variant
  <2> QED
    BY <1>2, <2>1, <2>2, <2>3, <2>4 DEF AllConfigsUnchanged, unchanged
<1>8. unchanged /\ ~MayPrune(unchanged) => RequeueAfter(unchanged) > 0
  <2>1. cachedMark \in NoMark..Grace /\ Grace \in Nat /\ Grace > 0
    BY PublishAssumption DEF TypeOK
  <2> QED
    BY <2>1 DEF MayPrune, RequeueAfter, NoMark
<1>9. \/ \E v \in Managed : config[v] # PlannedConfig(v)'
      \/ round'.data = [v \in Variant |-> Stage(NoData, values, pipes)]
      \/ round'.requeue > 0
  BY <1>3, <1>7, <1>8 DEF exact
<1>10. PlanCurrent'
  <2>1. round'.opt = optimize'
    BY <1>1, <1>3
  <2>2. migration' => round'.altBuilt
    BY <1>1, <1>2, <1>3
  <2>4. \/ \E v \in Managed' : config'[v] # PlannedConfig(v)'
        \/ round'.data = [v \in Variant |-> Stage(NoData, values', round'.pipes)]
        \/ round'.requeue > 0
    BY <1>1, <1>3, <1>6, <1>9
  <2> QED
    BY <1>4, <2>1, <2>2, <2>4 DEF PlanCurrent
<1>11. NothingChanged'
  <2>1. round'.order \in Orders
    BY <1>3 DEF WriteOrder, Orders
  <2>2. ~AssetsDone' /\ ~ConfigDone' /\ ~DaemonSetDone'
    BY <1>3, <2>1 DEF AssetsDone, ConfigDone, DaemonSetDone, Orders
  <2> QED
    BY <2>2 DEF NothingChanged
<1> QED
  BY <1>3, <1>10, <1>11

(* What would be published depends on the inputs and the assets.           *)
LEMMA AdmittedStays ==
    ASSUME UNCHANGED <<wanted, values, migration, assets>>, NEW pipes, Admitted(pipes)
    PROVE  \E target \in SUBSET wanted' :
              /\ Greedy(NoData, values', wanted', target)
              /\ \E room \in [Managed' -> SUBSET target] :
                    /\ \A v \in Managed' : Greedy(assets'[v], values', target, room[v])
                    /\ pipes = Bridge(target, room)'
<1>1. Managed' = Managed
  BY DEF Managed
<1> QED
  BY <1>1 DEF Admitted, Bridge

(* A plan stays current while nothing it was made from changes.            *)
LEMMA PlanStays ==
    ASSUME UNCHANGED <<wanted, values, optimize, migration, assets, config, daemonSet>>,
           round'.opt = round.opt, round'.altBuilt = round.altBuilt,
           round'.pipes = round.pipes, round'.data = round.data,
           round'.requeue = round.requeue, PlanCurrent
    PROVE  /\ PlanCurrent'
           /\ Active' = Active /\ Dormant' = Dormant
           /\ \A v : PlannedConfig(v)' = PlannedConfig(v)
<1>1. Active' = Active /\ Dormant' = Dormant /\ Managed' = Managed
  BY DEF Active, Dormant, Primary, Standby, Managed
<1>2. \A v : PlannedConfig(v)' = PlannedConfig(v)
  BY <1>1 DEF PlannedConfig
<1>3. Admitted(round.pipes)'
  BY AdmittedStays DEF PlanCurrent, Admitted
<1> QED
  BY <1>1, <1>2, <1>3 DEF PlanCurrent

(* A step of a round that changes nothing takes the round on.              *)
LEMMA RestAdvance ==
    ASSUME TypeOK, QuietRound, ~queued, round.pc \in Steps \ {"status"}, Advance,
           UNCHANGED <<wanted, values, optimize, migration, assets, config, daemonSet>>,
           round.pc = "assets" => assets[Active] = round.data[Active],
           round.pc = "altAssets" /\ migration => assets[Dormant] = round.data[Dormant],
           round.pc = "config" => config[Active] = PlannedConfig(Active),
           round.pc = "altConfig" /\ migration => config[Dormant] = PlannedConfig(Dormant),
           round.pc = "daemonSet" => daemonSet = Template(Active, round.data[Active])
    PROVE  PlanCurrent' /\ NothingChanged'
<1>1. /\ round # Idle /\ round' # Idle /\ round.order \in Orders
      /\ round'.order = round.order /\ round'.data = round.data
      /\ round'.pipes = round.pipes /\ round'.pc = NextStep[round.order][round.pc]
      /\ round'.opt = round.opt /\ round'.altBuilt = round.altBuilt
      /\ round'.requeue = round.requeue
  BY AdvanceFields, AdvanceKeeps
<1>2. PlanCurrent /\ NothingChanged
  BY <1>1 DEF QuietRound
<1>3. /\ PlanCurrent'
      /\ Active' = Active /\ Dormant' = Dormant
      /\ \A v : PlannedConfig(v)' = PlannedConfig(v)
  BY <1>1, <1>2, PlanStays
<1>4. /\ AssetsDone' => AssetsDone \/ round.pc = "assets"
      /\ AssetsDone /\ round.pc # "altAssets" => round'.pc # "altAssets"
      /\ round.pc = "assets" => round'.pc = "altAssets"
  BY <1>1, NextStepValues DEF AssetsDone, Orders, Steps
<1>5. /\ ConfigDone' => ConfigDone \/ round.pc = "config"
      /\ ConfigDone /\ round.pc # "altConfig" => round'.pc # "altConfig"
      /\ round.pc = "config" => round'.pc = "altConfig"
  BY <1>1, NextStepValues DEF ConfigDone, Orders, Steps
<1>6. DaemonSetDone' => DaemonSetDone \/ round.pc = "daemonSet"
  BY <1>1, NextStepValues DEF DaemonSetDone, Orders, Steps
<1>7. AssetsDone' =>
        /\ assets[Active] = round.data[Active]
        /\ migration /\ round'.pc # "altAssets" => assets[Dormant] = round.data[Dormant]
  BY <1>2, <1>4 DEF NothingChanged
<1>8. ConfigDone' =>
        /\ config[Active] = PlannedConfig(Active)
        /\ migration /\ round'.pc # "altConfig" => config[Dormant] = PlannedConfig(Dormant)
  BY <1>2, <1>5 DEF NothingChanged
<1>9. DaemonSetDone' => daemonSet = Template(Active, round.data[Active])
  BY <1>2, <1>6 DEF NothingChanged
<1>10. NothingChanged'
  BY <1>1, <1>3, <1>7, <1>8, <1>9 DEF NothingChanged, Template
<1> QED
  BY <1>3, <1>10

(* Settled and Rejected look at the inputs and at what is published.       *)
LEMMA SettledStays ==
    ASSUME UNCHANGED <<wanted, values, optimize, migration, assets, config, daemonSet>>
    PROVE  /\ Settled => Settled'
           /\ \A pipes \in Invalid : Admitted(pipes) => Rejected'
           /\ Rejected => Rejected'
<1>1. Managed' = Managed /\ Primary(optimize)' = Primary(optimize)
  BY DEF Managed, Primary
<1>2. Settled => Settled'
  BY <1>1 DEF Settled
<1>3. ASSUME NEW pipes \in Invalid, Admitted(pipes) PROVE Rejected'
  BY <1>3, AdmittedStays DEF Rejected, Admitted
<1> QED
  BY <1>2, <1>3 DEF Rejected

LEMMA RestStep ==
    ~AltMayFail /\ TypeOK /\ RestInv /\ [Next]_vars => RestInv'
<1> SUFFICES ASSUME ~AltMayFail, TypeOK, RestInv, [Next]_vars
             PROVE  RestInv'
  OBVIOUS
<1>0. ASSUME queued' PROVE RestInv'
  BY <1>0 DEF RestInv, NeverStuck, Resting, QuietRound
<1>1. ASSUME UNCHANGED <<wanted, values, optimize, migration, assets, config, daemonSet,
                         queued, timer, round>>
      PROVE  RestInv'
  <2>1. NeverStuck'
    BY <1>1, SettledStays DEF RestInv, NeverStuck, Resting
  <2>2. ASSUME round # Idle, ~queued PROVE PlanCurrent' /\ NothingChanged'
    <3>1. PlanCurrent /\ NothingChanged
      BY <2>2 DEF RestInv, QuietRound
    <3>2. /\ PlanCurrent' /\ Active' = Active /\ Dormant' = Dormant
          /\ \A v : PlannedConfig(v)' = PlannedConfig(v)
      BY <1>1, <3>1, PlanStays
    <3>3. NothingChanged'
      BY <1>1, <3>1, <3>2 DEF NothingChanged, AssetsDone, ConfigDone, DaemonSetDone, Template
    <3> QED
      BY <3>2, <3>3
  <2> QED
    BY <1>1, <2>1, <2>2 DEF RestInv, QuietRound
<1>2. ASSUME ~queued', round.pc \in Steps \ {"status"}, Advance,
             queued' \in BOOLEAN, queued => queued',
             UNCHANGED <<wanted, values, optimize, migration, assets, config, daemonSet>>,
             round.pc = "assets" => assets[Active] = round.data[Active],
             round.pc = "altAssets" /\ migration => assets[Dormant] = round.data[Dormant],
             round.pc = "config" => config[Active] = PlannedConfig(Active),
             round.pc = "altConfig" /\ migration => config[Dormant] = PlannedConfig(Dormant),
             round.pc = "daemonSet" => daemonSet = Template(Active, round.data[Active])
      PROVE  RestInv'
  <2>1. round' # Idle
    BY <1>2, AdvanceFields
  <2>2. PlanCurrent' /\ NothingChanged'
    BY <1>2, RestAdvance DEF RestInv
  <2> QED
    BY <2>1, <2>2 DEF RestInv, NeverStuck, Resting, QuietRound
<1>3. CASE StartRound
  BY <1>3, RestStart DEF RestInv, NeverStuck, Resting, QuietRound
<1>4. CASE RejectConfig
  <2>1. /\ round.pc = "check" /\ round.pipes \in Invalid /\ round' = Idle
        /\ UNCHANGED <<wanted, values, optimize, migration, assets, config, daemonSet, queued>>
    BY <1>4 DEF RejectConfig, inputs, cluster
  <2>2. ~queued => Admitted(round.pipes)
    BY <2>1 DEF RestInv, QuietRound, PlanCurrent, Idle
  <2>3. ~queued => Rejected'
    BY <2>1, <2>2, SettledStays
  <2> QED
    BY <2>1, <2>3 DEF RestInv, NeverStuck, Resting, QuietRound
<1>5. CASE AcceptConfig \/ StampPublishing \/ KeepLeftoverConfig
  <2>1. /\ Advance /\ round.pc \in {"check", "stamp", "altConfig"}
        /\ round.pc = "altConfig" => ~migration
        /\ UNCHANGED <<wanted, values, optimize, migration, assets, config, daemonSet, queued>>
    BY <1>5 DEF AcceptConfig, StampPublishing, KeepLeftoverConfig, inputs, cluster
  <2> QED
    BY <1>0, <1>2, <2>1 DEF Steps, TypeOK
<1>6. CASE WriteAssets
  <2>1. /\ round.pc = "assets" /\ Advance
        /\ assets' = [assets EXCEPT ![Active] = round.data[Active]]
        /\ queued' = (queued \/ assets[Active] # round.data[Active])
        /\ UNCHANGED <<wanted, values, optimize, migration, config, daemonSet>>
    BY <1>6 DEF WriteAssets, PutAssets, Notify, Active, inputs
  <2>2. CASE queued'
    BY <1>0, <2>2
  <2>3. CASE ~queued'
    <3>1. assets[Active] = round.data[Active] /\ ~queued
      BY <2>1, <2>3
    <3>2. assets' = assets
      BY <2>1, <3>1 DEF TypeOK
    <3> QED
      BY <1>2, <2>1, <2>3, <3>1, <3>2 DEF Steps
  <2> QED
    BY <2>2, <2>3
<1>7. CASE WriteAltAssets
  <2> DEFINE d == IF ~migration THEN NoData
                  ELSE IF round.altBuilt THEN round.data[Dormant] ELSE assets[Dormant]
  <2>1. /\ round.pc = "altAssets" /\ Advance
        /\ assets' = [assets EXCEPT ![Dormant] = d]
        /\ queued' = (queued \/ assets[Dormant] # d)
        /\ UNCHANGED <<wanted, values, optimize, migration, config, daemonSet>>
    BY <1>7 DEF WriteAltAssets, PutAssets, Notify, Dormant, inputs
  <2>2. CASE queued'
    BY <1>0, <2>2
  <2>3. CASE ~queued'
    <3>1. assets[Dormant] = d /\ ~queued
      BY <2>1, <2>3
    <3>2. assets' = assets
      BY <2>1, <3>1 DEF TypeOK
    <3>3. migration => round.altBuilt
      BY <2>1, <3>1 DEF RestInv, QuietRound, PlanCurrent, Idle
    <3>4. migration => assets[Dormant] = round.data[Dormant]
      BY <3>1, <3>3
    <3> QED
      BY <1>2, <2>1, <2>3, <3>1, <3>2, <3>4 DEF Steps
  <2> QED
    BY <2>2, <2>3
<1>8. CASE WriteConfig
  <2>1. /\ round.pc = "config" /\ Advance
        /\ config' = [config EXCEPT ![Active] = [pipes |-> round.pipes, opt |-> round.opt]]
        /\ queued' = (queued \/ config[Active] # [pipes |-> round.pipes, opt |-> round.opt])
        /\ UNCHANGED <<wanted, values, optimize, migration, assets, daemonSet>>
    BY <1>8 DEF WriteConfig, PutConfig, Notify, Active, inputs
  <2>2. CASE queued'
    BY <1>0, <2>2
  <2>3. CASE ~queued'
    <3>1. config[Active] = [pipes |-> round.pipes, opt |-> round.opt] /\ ~queued
      BY <2>1, <2>3
    <3>2. config' = config
      BY <2>1, <3>1 DEF TypeOK
    <3>3. config[Active] = PlannedConfig(Active)
      BY <3>1 DEF PlannedConfig
    <3> QED
      BY <1>2, <2>1, <2>3, <3>1, <3>2, <3>3 DEF Steps
  <2> QED
    BY <2>2, <2>3
<1>9. CASE WriteAltConfig
  <2> DEFINE c == IF ~migration THEN NoConfig
                  ELSE IF round.altBuilt THEN [pipes |-> round.pipes, opt |-> ~round.opt]
                       ELSE config[Dormant]
  <2>1. /\ round.pc = "altConfig" /\ Advance
        /\ config' = [config EXCEPT ![Dormant] = c]
        /\ queued' = (queued \/ config[Dormant] # c)
        /\ UNCHANGED <<wanted, values, optimize, migration, assets, daemonSet>>
    BY <1>9 DEF WriteAltConfig, PutConfig, Notify, Dormant, inputs
  <2>2. CASE queued'
    BY <1>0, <2>2
  <2>3. CASE ~queued'
    <3>1. config[Dormant] = c /\ ~queued
      BY <2>1, <2>3
    <3>2. config' = config
      BY <2>1, <3>1 DEF TypeOK
    <3>3. migration => round.altBuilt
      BY <2>1, <3>1 DEF RestInv, QuietRound, PlanCurrent, Idle
    <3>4. Active # Dormant
      BY DEF Active, Dormant, Primary, Standby
    <3>5. migration => config[Dormant] = PlannedConfig(Dormant)
      BY <3>1, <3>3, <3>4 DEF PlannedConfig
    <3> QED
      BY <1>2, <2>1, <2>3, <3>1, <3>2, <3>5 DEF Steps
  <2> QED
    BY <2>2, <2>3
<1>10. CASE WriteDaemonSet
  <2> DEFINE ds == Template(Active, round.data[Active])
  <2>1. /\ round.pc = "daemonSet" /\ Advance
        /\ daemonSet' = ds
        /\ queued' = (queued \/ daemonSet # ds)
        /\ UNCHANGED <<wanted, values, optimize, migration, assets, config>>
    BY <1>10 DEF WriteDaemonSet, Notify, Active, inputs
  <2>2. CASE queued'
    BY <1>0, <2>2
  <2>3. CASE ~queued'
    <3>1. daemonSet = ds /\ ~queued /\ daemonSet' = daemonSet
      BY <2>1, <2>3
    <3> QED
      BY <1>2, <2>1, <2>3, <3>1 DEF Steps
  <2> QED
    BY <2>2, <2>3
<1>11. CASE FinishRound
  <2>1. /\ round.pc = "status" /\ round' = Idle
        /\ timer' = IF round.requeue = 0 THEN timer
                    ELSE IF timer = NoTimer THEN round.requeue
                    ELSE IF timer < round.requeue THEN timer ELSE round.requeue
        /\ UNCHANGED <<wanted, values, optimize, migration, assets, config, daemonSet, queued>>
    BY <1>11 DEF FinishRound, inputs, cluster
  <2>2. ASSUME ~queued, timer' = NoTimer PROVE Settled
    <3>1. round.requeue \in 0..Grace /\ timer \in NoTimer..Grace /\ Grace \in Nat
      BY <2>1, PublishAssumption DEF TypeOK, Round, Idle
    <3>2. ~(round.requeue > 0)
      BY <2>1, <2>2, <3>1 DEF NoTimer
    <3> QED
      BY <2>1, <2>2, <3>2, FoundSettled DEF RestInv
  <2>3. NeverStuck'
    BY <2>1, <2>2, SettledStays DEF NeverStuck, Resting
  <2> QED
    BY <2>1, <2>3 DEF RestInv, QuietRound
<1>12. CASE Tick
  <2>1. UNCHANGED <<wanted, values, optimize, migration, assets, config, daemonSet, queued>>
    BY <1>12 DEF Tick, inputs
  <2>2. timer' = NoTimer => timer = NoTimer
    <3>1. timer \in NoTimer..Grace /\ Grace \in Nat
      BY PublishAssumption DEF TypeOK
    <3> QED
      BY <1>12, <3>1 DEF Tick, NoTimer
  <2>3. NeverStuck'
    BY <1>12, <2>1, <2>2, TickKeeps, SettledStays DEF RestInv, NeverStuck, Resting
  <2>4. ASSUME round # Idle, ~queued PROVE PlanCurrent' /\ NothingChanged'
    <3>1. PlanCurrent /\ NothingChanged
      BY <2>4 DEF RestInv, QuietRound
    <3>2. /\ round'.pc = round.pc /\ round'.opt = round.opt
          /\ round'.pipes = round.pipes /\ round'.altBuilt = round.altBuilt
          /\ round'.data = round.data /\ round'.order = round.order
          /\ round'.requeue = round.requeue
      BY <1>12, <2>4, TickKeeps
    <3>3. /\ PlanCurrent' /\ Active' = Active /\ Dormant' = Dormant
          /\ \A v : PlannedConfig(v)' = PlannedConfig(v)
      BY <2>1, <3>1, <3>2, PlanStays
    <3>4. NothingChanged'
      BY <2>1, <3>1, <3>2, <3>3 DEF NothingChanged, AssetsDone, ConfigDone, DaemonSetDone, Template
    <3> QED
      BY <3>3, <3>4
  <2> QED
    BY <1>12, <2>1, <2>3, <2>4, TickKeeps DEF RestInv, QuietRound
<1>13. CASE ChangePipelines \/ RotateValue \/ SwitchMode \/ FailRound \/ Restart \/ RequeueExpires
  BY <1>0, <1>13 DEF ChangePipelines, RotateValue, SwitchMode, Edit, FailRound, Restart,
                     RequeueExpires
<1>14. CASE SyncCache \/ UNCHANGED vars
  BY <1>1, <1>14 DEF SyncCache, vars, inputs, cluster
<1> QED
  BY <1>3, <1>4, <1>5, <1>6, <1>7, <1>8, <1>9, <1>10, <1>11, <1>12, <1>13, <1>14 DEF Next, Step

(* The safety half of convergence, for any pipelines, budgets, flags and   *)
(* modes, with a lagging cache, failed writes and restarts: if standby     *)
(* configs can be built, an agent that waits for no event and no requeue   *)
(* has published exactly what is asked for, or has had it rejected.  No    *)
(* key waits to be pruned and no pipeline waits for room without a wakeup  *)
(* on its way (the requeue of secretAssetsPruneDecision, and the watch     *)
(* events of the owned objects).                                           *)
THEOREM RestsOnlyWhenSettled == ~AltMayFail => (Spec => []NeverStuck)
<1> SUFFICES ASSUME ~AltMayFail PROVE Spec => []NeverStuck
  OBVIOUS
<1>1. RestInv => NeverStuck
  BY DEF RestInv
<1>2. TypeOK /\ RestInv /\ [Next]_vars => RestInv'
  BY RestStep
<1> QED
  BY <1>1, <1>2, RestInit, TypeCorrect, PTL DEF Spec

=============================================================================
