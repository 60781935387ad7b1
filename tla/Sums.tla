-------------------------------- MODULE Sums --------------------------------
(***************************************************************************)
(* How the sum of a function over a finite set changes with its values.    *)
(* The sums of the models are folds, which pick one element after another; *)
(* these lemmas say that the order does not matter.  Every induction is    *)
(* over the subsets of a finite set, written as the absence of a smallest  *)
(* one for which the claim fails.                                          *)
(***************************************************************************)
EXTENDS Integers, FiniteSets, FiniteSetTheorems, WellFoundedInduction, TLAPS

First(s) == CHOOSE x \in s : TRUE
Rest(s) == s \ {First(s)}
Term(f, g, s) == IF s = {} THEN 0 ELSE f[First(s)] + g[Rest(s)]

(* g gives the sum of f over every subset of S.                             *)
IsSum(g, f, S) == g = [s \in SUBSET S |-> Term(f, g, s)]
SumFn(f, S) == CHOOSE g : IsSum(g, f, S)
SumOf(f, S) == SumFn(f, S)[S]

-----------------------------------------------------------------------------
(* Taking one element away leaves a smaller set.                            *)
LEMMA RestFacts ==
    ASSUME NEW S, IsFiniteSet(S), NEW T \in SUBSET S, T # {}
    PROVE  /\ First(T) \in T /\ Rest(T) \in SUBSET S
           /\ Rest(T) # T /\ Rest(T) \subseteq T
           /\ Cardinality(Rest(T)) = Cardinality(T) - 1
  BY FS_Subset, FS_CardinalityType, FS_RemoveElement DEF First, Rest

(* A set of subsets that holds a smaller one for each of its members is     *)
(* empty.                                                                   *)
LEMMA SubsetInduction ==
    ASSUME NEW S, IsFiniteSet(S), NEW B \in SUBSET SUBSET S,
           \A T \in B : \E U \in B : U \subseteq T /\ U # T
    PROVE  B = {}
  <1> SUFFICES ASSUME B # {} PROVE FALSE
    OBVIOUS
  <1>0. FiniteSubsetsOf(S) = SUBSET S
    BY FS_FiniteSubsetsOfFinite
  <1>1. IsWellFoundedOn(StrictSubsetOrdering(S), SUBSET S)
    <2>1. IsWellFoundedOn(StrictSubsetOrdering(S), FiniteSubsetsOf(S))
      BY FS_StrictSubsetOrderingWellFounded
    <2> QED BY <1>0, <2>1, Zenon
  <1>2. PICK T \in B : \A U \in B :
              ~(<<U, T>> \in StrictSubsetOrdering(S))
    BY <1>1, WFMin
  <1>3. PICK U \in B : U \subseteq T /\ U # T
    OBVIOUS
  <1>4. <<U, T>> \in StrictSubsetOrdering(S)
    BY <1>3 DEF StrictSubsetOrdering
  <1> QED BY <1>2, <1>3, <1>4

(* There is such a function: the sums up to one cardinality extend to the   *)
(* next.                                                                    *)
LEMMA SumExists ==
    ASSUME NEW S, IsFiniteSet(S), NEW f, \A x \in S : f[x] \in Int
    PROVE  \E g \in [SUBSET S -> Int] : IsSum(g, f, S)
  <1> DEFINE Fns == [SUBSET S -> Int]
             UpTo(g, n) == \A s \in SUBSET S :
                               Cardinality(s) <= n => g[s] = Term(f, g, s)
             Layered(T) == \E g \in Fns : UpTo(g, Cardinality(T))
             Bad == {T \in SUBSET S : ~Layered(T)}
  <1>1. \A T \in SUBSET S : IsFiniteSet(T) /\ Cardinality(T) \in Nat
    BY FS_Subset, FS_CardinalityType
  <1>2. \A T \in SUBSET S : T # {} =>
            /\ First(T) \in T /\ Rest(T) \in SUBSET S
            /\ Rest(T) # T /\ Rest(T) \subseteq T
            /\ Cardinality(Rest(T)) = Cardinality(T) - 1
    BY RestFacts
  <1>3. \A T \in SUBSET S : T # {} /\ Layered(Rest(T)) => Layered(T)
    <2> SUFFICES ASSUME NEW T \in SUBSET S, T # {},
                        NEW g \in Fns, UpTo(g, Cardinality(Rest(T)))
                 PROVE  Layered(T)
      OBVIOUS
    <2> DEFINE h == [s \in SUBSET S |-> Term(f, g, s)]
    <2>1. h \in Fns
      <3> SUFFICES ASSUME NEW s \in SUBSET S PROVE Term(f, g, s) \in Int
        OBVIOUS
      <3> QED BY <1>2 DEF Term
    <2>2. UpTo(h, Cardinality(T))
      <3> SUFFICES ASSUME NEW s \in SUBSET S,
                          Cardinality(s) <= Cardinality(T)
                   PROVE  Term(f, g, s) = Term(f, h, s)
        OBVIOUS
      <3>1. CASE s = {}
        BY <3>1 DEF Term
      <3>2. CASE s # {}
        <4>1. Cardinality(Rest(s)) <= Cardinality(Rest(T))
          BY <1>1, <1>2, <3>2
        <4>2. g[Rest(s)] = h[Rest(s)]
          BY <4>1, <1>2, <3>2
        <4> QED BY <4>2, <3>2 DEF Term
      <3> QED BY <3>1, <3>2
    <2> QED BY <2>1, <2>2
  <1>4. Layered({})
    <2> DEFINE z == [s \in SUBSET S |-> 0]
    <2>1. UpTo(z, Cardinality({}))
      BY <1>1, FS_EmptySet DEF Term
    <2>2. z \in Fns
      OBVIOUS
    <2> HIDE DEF z
    <2> QED BY <2>1, <2>2
  <1>5. Bad = {}
    <2> DEFINE B == Bad
    <2>1. \A T \in B : \E U \in B : U \subseteq T /\ U # T
      BY <1>2, <1>3, <1>4
    <2>2. B \in SUBSET SUBSET S
      OBVIOUS
    <2> HIDE DEF B
    <2>3. B = {}
      BY <2>1, <2>2, SubsetInduction
    <2> QED BY <2>3 DEF B
  <1>6. PICK g \in Fns : UpTo(g, Cardinality(S))
    BY <1>5
  <1>7. \A s \in SUBSET S : g[s] = Term(f, g, s)
    BY <1>6, FS_Subset
  <1> QED BY <1>6, <1>7 DEF IsSum

(* And only one.                                                            *)
LEMMA SumUnique ==
    ASSUME NEW S, IsFiniteSet(S), NEW f,
           NEW g, IsSum(g, f, S), NEW h, IsSum(h, f, S)
    PROVE  g = h
  <1>1. \A s \in SUBSET S : g[s] = Term(f, g, s) /\ h[s] = Term(f, h, s)
    BY DEF IsSum
  <1> DEFINE B == {T \in SUBSET S : g[T] # h[T]}
  <1>2. \A T \in B : \E U \in B : U \subseteq T /\ U # T
    <2> SUFFICES ASSUME NEW T \in B PROVE Rest(T) \in B /\ T # {}
      BY RestFacts
    <2>1. T # {}
      BY <1>1 DEF Term
    <2> QED BY <1>1, <2>1, RestFacts DEF Term
  <1>3. B \in SUBSET SUBSET S
    OBVIOUS
  <1> HIDE DEF B
  <1>4. B = {}
    BY <1>2, <1>3, SubsetInduction
  <1>5. \A T \in SUBSET S : g[T] = h[T]
    BY <1>4 DEF B
  <1> QED BY <1>5 DEF IsSum

LEMMA SumFnFacts ==
    ASSUME NEW S, IsFiniteSet(S), NEW f, \A x \in S : f[x] \in Int
    PROVE  /\ IsSum(SumFn(f, S), f, S)
           /\ SumFn(f, S) \in [SUBSET S -> Int]
  <1>1. PICK g \in [SUBSET S -> Int] : IsSum(g, f, S)
    BY SumExists
  <1>2. IsSum(SumFn(f, S), f, S)
    BY <1>1 DEF SumFn
  <1>3. SumFn(f, S) = g
    BY <1>1, <1>2, SumUnique
  <1> QED BY <1>1, <1>2, <1>3

(* What is chosen from any set of functions that is the set of sums.        *)
LEMMA SumOfSubset ==
    ASSUME NEW S, IsFiniteSet(S), NEW f, \A x \in S : f[x] \in Int,
           NEW T \in SUBSET S
    PROVE  SumFn(f, S)[T] = SumOf(f, T) /\ SumOf(f, T) \in Int
  <1> DEFINE g == SumFn(f, S)
             h == [s \in SUBSET T |-> g[s]]
  <1>0. IsSum(g, f, S) /\ g \in [SUBSET S -> Int]
    BY SumFnFacts
  <1> HIDE DEF g
  <1>1. \A s \in SUBSET S : g[s] = Term(f, g, s) /\ g[s] \in Int
    BY <1>0 DEF IsSum
  <1>2. IsFiniteSet(T) /\ \A s \in SUBSET T : s \in SUBSET S
    BY FS_Subset
  <1>3. IsSum(h, f, T)
    <2> SUFFICES ASSUME NEW s \in SUBSET T PROVE h[s] = Term(f, h, s)
      BY DEF IsSum
    <2>1. s # {} => Rest(s) \in SUBSET T
      BY DEF Rest
    <2>2. h[s] = g[s] /\ (s # {} => h[Rest(s)] = g[Rest(s)])
      BY <2>1
    <2> QED BY <1>1, <1>2, <2>2 DEF Term
  <1>4. IsSum(SumFn(f, T), f, T)
    BY <1>2, SumFnFacts
  <1>5. SumFn(f, T) = h
    BY <1>2, <1>3, <1>4, SumUnique
  <1>6. h[T] = g[T] /\ g[T] \in Int
    BY <1>1
  <1> QED BY <1>5, <1>6 DEF SumOf, g

-----------------------------------------------------------------------------
LEMMA SumOfEmpty ==
    ASSUME NEW f
    PROVE  SumOf(f, {}) = 0
  <1>1. IsFiniteSet({})
    BY FS_EmptySet
  <1>2. IsSum(SumFn(f, {}), f, {})
    BY <1>1, SumFnFacts
  <1> QED BY <1>2 DEF IsSum, SumOf, Term

(* The sum starts with the first element ...                                *)
LEMMA SumOfFirst ==
    ASSUME NEW S, IsFiniteSet(S), NEW f, \A x \in S : f[x] \in Int, S # {}
    PROVE  /\ SumOf(f, S) = f[First(S)] + SumOf(f, Rest(S))
           /\ SumOf(f, S) \in Int /\ SumOf(f, Rest(S)) \in Int
  <1>1. Rest(S) \in SUBSET S /\ S \in SUBSET S
    BY DEF Rest
  <1>2. SumFn(f, S)[Rest(S)] = SumOf(f, Rest(S))
        /\ SumOf(f, S) \in Int /\ SumOf(f, Rest(S)) \in Int
    BY <1>1, SumOfSubset
  <1>3. IsSum(SumFn(f, S), f, S)
    BY SumFnFacts
  <1> QED BY <1>1, <1>2, <1>3 DEF IsSum, SumOf, Term

(* ... or with any other.                                                   *)
LEMMA SumTake ==
    ASSUME NEW S, IsFiniteSet(S), NEW f, \A x \in S : f[x] \in Int, NEW x \in S
    PROVE  /\ SumOf(f, S) = f[x] + SumOf(f, S \ {x})
           /\ SumOf(f, S) \in Int /\ SumOf(f, S \ {x}) \in Int
  <1> DEFINE Holds(T) == \A y \in T : SumOf(f, T) = f[y] + SumOf(f, T \ {y})
             B == {T \in SUBSET S : ~Holds(T)}
  <1>1. \A T \in SUBSET S : SumOf(f, T) \in Int /\ IsFiniteSet(T)
    BY SumOfSubset, FS_Subset
  <1>2. \A T \in SUBSET S : T # {} =>
            /\ First(T) \in T /\ Rest(T) \in SUBSET S
            /\ Rest(T) # T /\ Rest(T) \subseteq T
            /\ SumOf(f, T) = f[First(T)] + SumOf(f, Rest(T))
    BY <1>1, RestFacts, SumOfFirst
  <1>3. ASSUME NEW T \in SUBSET S,
               \A U \in SUBSET S : U \subseteq T /\ U # T => Holds(U)
        PROVE  Holds(T)
    <2> SUFFICES ASSUME NEW y \in T
                 PROVE  SumOf(f, T) = f[y] + SumOf(f, T \ {y})
      OBVIOUS
    <2>1. CASE y = First(T)
      BY <1>2, <2>1 DEF Rest
    <2>2. CASE y # First(T)
      <3> DEFINE a == First(T)
      <3>1. a \in T /\ y \in Rest(T) /\ a \in T \ {y}
        BY <1>2, <2>2 DEF Rest
      <3>2. Rest(T) \ {y} = (T \ {y}) \ {a}
        BY DEF Rest
      <3>3. SumOf(f, Rest(T)) = f[y] + SumOf(f, Rest(T) \ {y})
        BY <1>2, <1>3, <3>1
      <3>4. SumOf(f, T \ {y}) = f[a] + SumOf(f, (T \ {y}) \ {a})
        BY <1>3, <3>1
      <3>5. SumOf(f, T) = f[a] + SumOf(f, Rest(T))
        BY <1>2, <3>1
      <3>6. /\ f[a] \in Int /\ f[y] \in Int
            /\ SumOf(f, Rest(T) \ {y}) \in Int /\ SumOf(f, T \ {y}) \in Int
        BY <1>1, <3>1, <1>2
      <3> DEFINE r == SumOf(f, Rest(T) \ {y})
                 s == SumOf(f, T \ {y})
                 t == SumOf(f, T)
                 u == SumOf(f, Rest(T))
                 b == f[a]
                 c == f[y]
      <3>7. s = b + r
        BY <3>2, <3>4
      <3>8. u = c + r /\ t = b + u
        BY <3>3, <3>5
      <3>9. b \in Int /\ c \in Int /\ r \in Int
        BY <3>6
      <3> HIDE DEF r, s, t, u, b, c
      <3>10. t = c + s
        BY <3>7, <3>8, <3>9
      <3> QED BY <3>10 DEF t, c, s
    <2> QED BY <2>1, <2>2
  <1>4. \A T \in B : \E U \in B : U \subseteq T /\ U # T
    BY <1>3
  <1>5. B \in SUBSET SUBSET S
    OBVIOUS
  <1> HIDE DEF B
  <1>6. B = {}
    BY <1>4, <1>5, SubsetInduction
  <1> QED BY <1>1, <1>6 DEF B

(* Greater terms, greater sum.                                              *)
LEMMA SumMonotone ==
    ASSUME NEW S, IsFiniteSet(S),
           NEW f, NEW h, \A x \in S : f[x] \in Int /\ h[x] \in Int,
           \A x \in S : f[x] <= h[x]
    PROVE  SumOf(f, S) <= SumOf(h, S)
  <1> DEFINE B == {T \in SUBSET S : ~(SumOf(f, T) <= SumOf(h, T))}
  <1>1. \A T \in SUBSET S : T # {} =>
            /\ First(T) \in T /\ Rest(T) \in SUBSET S
            /\ Rest(T) # T /\ Rest(T) \subseteq T
            /\ SumOf(f, T) = f[First(T)] + SumOf(f, Rest(T))
            /\ SumOf(h, T) = h[First(T)] + SumOf(h, Rest(T))
            /\ SumOf(f, Rest(T)) \in Int /\ SumOf(h, Rest(T)) \in Int
    BY RestFacts, SumOfFirst, FS_Subset
  <1>2. {} \notin B
    BY SumOfEmpty
  <1>3. \A T \in B : \E U \in B : U \subseteq T /\ U # T
    <2> SUFFICES ASSUME NEW T \in B PROVE Rest(T) \in B
      BY <1>1, <1>2
    <2> DEFINE a == First(T)
               p == SumOf(f, Rest(T))
               q == SumOf(h, Rest(T))
    <2>1. /\ a \in S /\ p \in Int /\ q \in Int
          /\ ~(f[a] + p <= h[a] + q) /\ f[a] <= h[a]
          /\ f[a] \in Int /\ h[a] \in Int
      BY <1>1, <1>2
    <2> HIDE DEF a, p, q
    <2>2. ~(p <= q)
      BY <2>1
    <2> QED BY <1>1, <1>2, <2>2 DEF p, q
  <1>4. B \in SUBSET SUBSET S
    OBVIOUS
  <1> HIDE DEF B
  <1>5. B = {}
    BY <1>3, <1>4, SubsetInduction
  <1> QED BY <1>5 DEF B

LEMMA SumSame ==
    ASSUME NEW S, IsFiniteSet(S),
           NEW f, NEW h, \A x \in S : f[x] \in Int /\ h[x] = f[x]
    PROVE  SumOf(f, S) = SumOf(h, S) /\ SumOf(f, S) \in Int
  <1>1. SumOf(f, S) <= SumOf(h, S) /\ SumOf(h, S) <= SumOf(f, S)
    BY SumMonotone
  <1>2. SumOf(f, S) \in Int /\ SumOf(h, S) \in Int
    BY SumOfSubset
  <1> QED BY <1>1, <1>2

(* One term changes.                                                        *)
LEMMA SumChange ==
    ASSUME NEW S, IsFiniteSet(S), NEW a \in S,
           NEW f, NEW h, \A x \in S : f[x] \in Int /\ h[x] \in Int,
           \A x \in S : x # a => h[x] = f[x]
    PROVE  /\ SumOf(h, S) = SumOf(f, S) + h[a] - f[a]
           /\ SumOf(f, S) \in Int /\ SumOf(h, S) \in Int
  <1>1. IsFiniteSet(S \ {a})
    BY FS_Subset
  <1>2. SumOf(f, S \ {a}) = SumOf(h, S \ {a})
    BY <1>1, SumSame
  <1>3. /\ SumOf(f, S) = f[a] + SumOf(f, S \ {a})
        /\ SumOf(h, S) = h[a] + SumOf(h, S \ {a})
        /\ SumOf(f, S \ {a}) \in Int
        /\ SumOf(f, S) \in Int /\ SumOf(h, S) \in Int
    BY SumTake
  <1> QED BY <1>2, <1>3

(* Equal sums of terms of which none is greater are sums of equal terms.    *)
LEMMA SumTight ==
    ASSUME NEW S, IsFiniteSet(S),
           NEW f, NEW h, \A x \in S : f[x] \in Int /\ h[x] \in Int,
           \A x \in S : f[x] <= h[x], SumOf(f, S) = SumOf(h, S)
    PROVE  \A x \in S : f[x] = h[x]
  <1> TAKE a \in S
  <1>1. IsFiniteSet(S \ {a})
    BY FS_Subset
  <1>2. SumOf(f, S \ {a}) <= SumOf(h, S \ {a})
    BY <1>1, SumMonotone
  <1>3. /\ SumOf(f, S) = f[a] + SumOf(f, S \ {a})
        /\ SumOf(h, S) = h[a] + SumOf(h, S \ {a})
        /\ SumOf(f, S \ {a}) \in Int /\ SumOf(h, S \ {a}) \in Int
    BY SumTake
  <1> DEFINE p == SumOf(f, S \ {a})
             q == SumOf(h, S \ {a})
             b == f[a]
             c == h[a]
  <1>4. p \in Int /\ q \in Int /\ b \in Int /\ c \in Int
    BY <1>3
  <1>5. b + p = c + q /\ p <= q /\ b <= c
    BY <1>2, <1>3
  <1> HIDE DEF p, q, b, c
  <1>6. b = c
    BY <1>4, <1>5
  <1> QED BY <1>6 DEF b, c

LEMMA SumZero ==
    ASSUME NEW S, IsFiniteSet(S), NEW f, \A x \in S : f[x] = 0
    PROVE  SumOf(f, S) = 0
  <1> DEFINE B == {T \in SUBSET S : SumOf(f, T) # 0}
  <1>1. \A T \in SUBSET S : T # {} =>
            /\ First(T) \in T /\ Rest(T) \in SUBSET S
            /\ Rest(T) # T /\ Rest(T) \subseteq T
            /\ SumOf(f, T) = f[First(T)] + SumOf(f, Rest(T))
            /\ SumOf(f, Rest(T)) \in Int
    BY RestFacts, SumOfFirst, FS_Subset
  <1>2. {} \notin B
    BY SumOfEmpty
  <1>3. \A T \in B : \E U \in B : U \subseteq T /\ U # T
    <2> SUFFICES ASSUME NEW T \in B PROVE Rest(T) \in B
      BY <1>1, <1>2
    <2> DEFINE t == SumOf(f, T)
               r == SumOf(f, Rest(T))
    <2>1. t = 0 + r /\ t # 0 /\ r \in Int
      BY <1>1, <1>2
    <2> HIDE DEF t, r
    <2>2. r # 0
      BY <2>1
    <2> QED BY <1>1, <1>2, <2>2 DEF r
  <1>4. B \in SUBSET SUBSET S
    OBVIOUS
  <1> HIDE DEF B
  <1>5. B = {}
    BY <1>3, <1>4, SubsetInduction
  <1> QED BY <1>5 DEF B

(* The sum of sums.                                                         *)
LEMMA SumAdd ==
    ASSUME NEW S, IsFiniteSet(S), NEW f, NEW h, NEW k,
           \A x \in S : f[x] \in Int /\ h[x] \in Int /\ k[x] = f[x] + h[x]
    PROVE  SumOf(k, S) = SumOf(f, S) + SumOf(h, S)
  <1> DEFINE B == {T \in SUBSET S : SumOf(k, T) # SumOf(f, T) + SumOf(h, T)}
  <1>1. \A T \in SUBSET S : T # {} =>
            /\ First(T) \in T /\ Rest(T) \in SUBSET S
            /\ Rest(T) # T /\ Rest(T) \subseteq T
            /\ SumOf(f, T) = f[First(T)] + SumOf(f, Rest(T))
            /\ SumOf(h, T) = h[First(T)] + SumOf(h, Rest(T))
            /\ SumOf(k, T) = k[First(T)] + SumOf(k, Rest(T))
            /\ SumOf(f, Rest(T)) \in Int /\ SumOf(h, Rest(T)) \in Int
            /\ SumOf(k, Rest(T)) \in Int
    BY RestFacts, SumOfFirst, FS_Subset
  <1>2. {} \notin B
    BY SumOfEmpty
  <1>3. \A T \in B : \E U \in B : U \subseteq T /\ U # T
    <2> SUFFICES ASSUME NEW T \in B PROVE Rest(T) \in B
      BY <1>1, <1>2
    <2> DEFINE a == First(T)
               p == SumOf(f, Rest(T))
               q == SumOf(h, Rest(T))
               r == SumOf(k, Rest(T))
               b == f[a]
               c == h[a]
    <2>0. T # {} /\ a \in S
      BY <1>1, <1>2
    <2>1. /\ p \in Int /\ q \in Int /\ r \in Int /\ b \in Int /\ c \in Int
          /\ SumOf(f, T) = b + p /\ SumOf(h, T) = c + q
          /\ SumOf(k, T) = (b + c) + r
      BY <1>1, <2>0
    <2>3. (b + c) + r # (b + p) + (c + q)
      BY <2>1
    <2> HIDE DEF p, q, r, b, c
    <2>2. r # p + q
      BY <2>1, <2>3
    <2> QED BY <1>1, <1>2, <2>2 DEF p, q, r
  <1>4. B \in SUBSET SUBSET S
    OBVIOUS
  <1> HIDE DEF B
  <1>5. B = {}
    BY <1>3, <1>4, SubsetInduction
  <1> QED BY <1>5 DEF B
(* What is zero outside a subset adds up there.                             *)
LEMMA SumRestrict ==
    ASSUME NEW S, IsFiniteSet(S), NEW T \in SUBSET S,
           NEW f, \A x \in S : f[x] \in Int,
           \A x \in S : x \notin T => f[x] = 0
    PROVE  SumOf(f, T) = SumOf(f, S) /\ SumOf(f, S) \in Int
  <1> DEFINE B == {U \in SUBSET S : SumOf(f, U) # SumOf(f, U \cap T)}
  <1>1. \A U \in SUBSET S : IsFiniteSet(U) /\ IsFiniteSet(U \cap T)
    BY FS_Subset
  <1>2. {} \notin B
    OBVIOUS
  <1>3. ASSUME NEW U \in B PROVE \E V \in B : V \subseteq U /\ V # U
    <2>1. PICK x \in U : TRUE
      BY <1>2, <1>3
    <2> DEFINE V == U \ {x}
               W == U \cap T
    <2>2. V \in SUBSET S /\ V # U /\ V \subseteq U /\ W \in SUBSET S
          /\ IsFiniteSet(U) /\ IsFiniteSet(W) /\ U \in SUBSET S
      BY <1>1, <2>1
    <2>3. SumOf(f, U) = f[x] + SumOf(f, V) /\ SumOf(f, V) \in Int
      BY <2>1, <2>2, SumTake
    <2>4. CASE x \in T
      <3>1. x \in W /\ W \ {x} = V \cap T
        BY <2>1, <2>4
      <3>2. SumOf(f, W) = f[x] + SumOf(f, W \ {x}) /\ SumOf(f, W \ {x}) \in Int
        <4>1. x \in W
          BY <3>1
        <4> HIDE DEF W
        <4> QED BY <2>2, <4>1, SumTake
      <3>3. SumOf(f, V) # SumOf(f, V \cap T)
        BY <2>1, <2>3, <3>1, <3>2
      <3> QED BY <2>2, <3>3
    <2>5. CASE x \notin T
      <3>1. W = V \cap T /\ f[x] = 0
        BY <2>1, <2>5
      <3>2. SumOf(f, V) # SumOf(f, V \cap T)
        <4>1. SumOf(f, U) # SumOf(f, W)
          BY <1>3
        <4> HIDE DEF V, W
        <4> QED BY <2>3, <3>1, <4>1
      <3> QED BY <2>2, <3>2
    <2> QED BY <2>4, <2>5
  <1>4. B = {}
    <2>1. B \in SUBSET SUBSET S
      OBVIOUS
    <2> HIDE DEF B
    <2> QED BY <1>3, <2>1, SubsetInduction
  <1>5. S \cap T = T /\ S \in SUBSET S
    OBVIOUS
  <1>6. SumOf(f, S) = SumOf(f, S \cap T)
    BY <1>4, <1>5
  <1>7. SumOf(f, S) \in Int
    BY <1>5, SumOfSubset
  <1> QED BY <1>5, <1>6, <1>7
=============================================================================
