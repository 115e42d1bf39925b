-------------------------------- MODULE Sums --------------------------------
(***************************************************************************)
(* What the community modules' MapThenSumSet computes, for every finite    *)
(* set: the models count money and admissions with it.  The operator is a  *)
(* recursive function that takes the elements one by one in an order       *)
(* nobody knows; the lemmas show that the order does not matter.           *)
(***************************************************************************)
EXTENDS Integers, FiniteSets, FiniteSetsExt, FiniteSetTheorems,
        WellFoundedInduction, TLAPS

\* The sum of f[x] for the x in S.
SumOver(f, S) == MapThenSumSet(LAMBDA x : f[x], S)

\* The element that the fold takes first.
Pick(s) == CHOOSE x \in s : TRUE

\* g maps the subsets of S to their sums, as the fold defines them.
IsSum(g, f, S) ==
  g = [s \in SUBSET S |-> IF s = {} THEN 0
                          ELSE f[Pick(s)] + g[s \ {Pick(s)}]]

\* A non-empty set of naturals has a least element.
LEMMA HasLeast ==
  ASSUME NEW T, T \subseteq Nat, T # {}
  PROVE  \E n \in T : \A m \in T : n <= m
<1>1. PICK n \in T : \A m \in T : ~ (<<m, n>> \in OpToRel(<, Nat))
  BY NatLessThanWellFounded, WFMin
<1>2. \A m \in T : ~(m < n)
  BY <1>1 DEF OpToRel
<1> QED BY <1>2

\* Of the subsets of a finite set with some property, one is smallest.
LEMMA Smallest ==
  ASSUME NEW S, IsFiniteSet(S), NEW T, T \subseteq SUBSET S, T # {}
  PROVE  \E U \in T : \A V \in T : Cardinality(U) <= Cardinality(V)
<1> DEFINE N == {Cardinality(U) : U \in T}
<1>1. N \subseteq Nat /\ N # {}
  BY FS_Subset, FS_CardinalityType
<1>2. PICK n \in N : \A m \in N : n <= m
  BY <1>1, HasLeast
<1> QED BY <1>2

LEMMA PickIsIn == ASSUME NEW s, s # {} PROVE Pick(s) \in s
  BY DEF Pick

\* Taking an element away makes a finite set smaller.
LEMMA Smaller ==
  ASSUME NEW S, IsFiniteSet(S), NEW x \in S
  PROVE  /\ IsFiniteSet(S \ {x})
         /\ Cardinality(S) \in Nat /\ Cardinality(S \ {x}) \in Nat
         /\ Cardinality(S \ {x}) < Cardinality(S)
  BY FS_RemoveElement, FS_CardinalityType

LEMMA SumIsIter ==
  ASSUME NEW f, NEW S
  PROVE  SumOver(f, S) = (CHOOSE g : IsSum(g, f, S))[S]
  BY Zenon DEF SumOver, MapThenSumSet, MapThenFoldSet, IsSum, Pick

\* The fold is well defined.
LEMMA IterExists ==
  ASSUME NEW f, NEW S, IsFiniteSet(S)
  PROVE  \E g : IsSum(g, f, S)
<1> DEFINE Next(g) == [s \in SUBSET S |-> IF s = {} THEN 0
                         ELSE f[Pick(s)] + g[s \ {Pick(s)}]]
           Upto(n) == {s \in SUBSET S : Cardinality(s) <= n}
           Good == {n \in Nat : \E g : \A s \in Upto(n) : g[s] = Next(g)[s]}
           Bad == Nat \ Good
<1>1. ASSUME NEW s \in SUBSET S, s # {}
      PROVE  /\ Pick(s) \in s /\ s \ {Pick(s)} \in SUBSET S
             /\ Cardinality(s) \in Nat /\ Cardinality(s \ {Pick(s)}) \in Nat
             /\ Cardinality(s \ {Pick(s)}) < Cardinality(s)
  BY <1>1, FS_Subset, PickIsIn, Smaller
<1>2. Cardinality(S) \in Nat /\ \A s \in SUBSET S : Cardinality(s) <= Cardinality(S)
  BY FS_Subset, FS_CardinalityType
<1>3. 0 \in Good
  <2>1. ASSUME NEW s \in Upto(0), s # {} PROVE FALSE
    <3>1. s \in SUBSET S /\ Cardinality(s) <= 0
      OBVIOUS
    <3>2. /\ Cardinality(s) \in Nat /\ Cardinality(s \ {Pick(s)}) \in Nat
          /\ Cardinality(s \ {Pick(s)}) < Cardinality(s)
      BY <1>1, <2>1, <3>1
    <3> QED BY <3>1, <3>2
  <2>2. {} \in SUBSET S
    OBVIOUS
  <2>3. \A s \in Upto(0) : Next(Next({}))[s] = 0 /\ Next({})[s] = 0
    BY <2>1, <2>2
  <2> QED BY <2>3
<1>4. ASSUME NEW n \in Nat, n \in Good
      PROVE  n + 1 \in Good
  <2>1. PICK g : \A s \in Upto(n) : g[s] = Next(g)[s]
    BY <1>4
  <2>2. ASSUME NEW s \in Upto(n + 1)
        PROVE  Next(g)[s] = Next(Next(g))[s]
    <3>1. CASE s = {}
      BY <3>1
    <3>2. CASE s # {}
      <4>1. s \ {Pick(s)} \in Upto(n)
        BY <1>1, <3>2
      <4>2. Next(g)[s] = f[Pick(s)] + g[s \ {Pick(s)}]
        BY <3>2
      <4>3. Next(Next(g))[s] = f[Pick(s)] + Next(g)[s \ {Pick(s)}]
        BY <3>2
      <4> HIDE DEF Next, Upto
      <4> QED BY <2>1, <4>1, <4>2, <4>3
    <3> QED BY <3>1, <3>2
  <2> HIDE DEF Next, Upto
  <2> QED BY <2>2
<1>5. Bad = {}
  <2>1. SUFFICES ASSUME Bad # {} PROVE FALSE
    OBVIOUS
  <2> HIDE DEF Good
  <2>2. PICK n \in Bad : \A m \in Bad : n <= m
    BY <2>1, HasLeast
  <2>3. n # 0 /\ n \in Nat
    BY <1>3
  <2>4. n - 1 \in Nat /\ n - 1 \notin Bad
    BY <2>2, <2>3
  <2> QED BY <1>4, <2>4
<1>6. PICK g : \A s \in Upto(Cardinality(S)) : g[s] = Next(g)[s]
  <2>1. Cardinality(S) \in Good
    BY <1>2, <1>5
  <2> QED BY <2>1
<1>7. \A s \in SUBSET S : g[s] = Next(g)[s]
  BY <1>2, <1>6
<1>8. IsSum(Next(g), f, S)
  <2>1. \A s \in SUBSET S : s # {} => s \ {Pick(s)} \in SUBSET S
    OBVIOUS
  <2>2. \A s \in SUBSET S : s # {} => g[s \ {Pick(s)}] = Next(g)[s \ {Pick(s)}]
    BY <1>7, <2>1
  <2> DEFINE h == Next(g)
  <2>3. h = [s \in SUBSET S |-> IF s = {} THEN 0 ELSE f[Pick(s)] + h[s \ {Pick(s)}]]
    BY <2>2
  <2> QED BY <2>3 DEF IsSum
<1> QED BY <1>8

\* Two folds, of functions that agree on a set, agree there.
LEMMA IterAgrees ==
  ASSUME NEW f, NEW g, NEW R, IsSum(g, f, R),
         NEW e, NEW h, NEW S, IsSum(h, e, S),
         NEW T, T \subseteq R, T \subseteq S, IsFiniteSet(T),
         \A x \in T : f[x] = e[x]
  PROVE  g[T] = h[T]
<1> DEFINE Bad == {U \in SUBSET T : g[U] # h[U]}
<1>1. SUFFICES Bad = {}
  BY DEF Bad
<1>2. SUFFICES ASSUME Bad # {} PROVE FALSE
  OBVIOUS
<1>3. PICK U \in Bad : \A V \in Bad : Cardinality(U) <= Cardinality(V)
  BY <1>2, Smallest
<1>4. U \subseteq T /\ g[U] # h[U] /\ U \in SUBSET R /\ U \in SUBSET S
  OBVIOUS
<1>5. U # {}
  BY <1>4 DEF IsSum
<1>6. Pick(U) \in U /\ IsFiniteSet(U)
  BY <1>4, <1>5, PickIsIn, FS_Subset
<1>7. g[U \ {Pick(U)}] = h[U \ {Pick(U)}]
  <2>1. U \ {Pick(U)} \in SUBSET T
    BY <1>4
  <2> QED BY <1>3, <1>6, <2>1, Smaller
<1>8. g[U] = f[Pick(U)] + g[U \ {Pick(U)}]
  BY <1>4, <1>5 DEF IsSum
<1>9. h[U] = e[Pick(U)] + h[U \ {Pick(U)}]
  BY <1>4, <1>5 DEF IsSum
<1> QED BY <1>4, <1>6, <1>7, <1>8, <1>9

\* Any fold yields the sum.
LEMMA SumOfIter ==
  ASSUME NEW f, NEW g, NEW S, IsSum(g, f, S),
         NEW T, T \subseteq S, IsFiniteSet(T)
  PROVE  SumOver(f, T) = g[T]
<1> DEFINE h == CHOOSE c : IsSum(c, f, T)
<1>1. IsSum(h, f, T)
  BY IterExists
<1> HIDE DEF h
<1>2. g[T] = h[T]
  BY <1>1, IterAgrees
<1> QED BY <1>2, SumIsIter DEF h

\* The sum depends on the values at the set's elements only.
LEMMA SumAgrees ==
  ASSUME NEW f, NEW e, NEW S, IsFiniteSet(S), \A x \in S : f[x] = e[x]
  PROVE  SumOver(f, S) = SumOver(e, S)
<1>1. PICK g : IsSum(g, f, S)
  BY IterExists
<1>2. PICK h : IsSum(h, e, S)
  BY IterExists
<1>3. g[S] = h[S]
  BY <1>1, <1>2, IterAgrees
<1> QED BY <1>1, <1>2, <1>3, SumOfIter

LEMMA SumEmpty == ASSUME NEW f PROVE SumOver(f, {}) = 0
<1>1. PICK g : IsSum(g, f, {})
  BY IterExists, FS_EmptySet
<1>2. g[{}] = 0
  BY <1>1 DEF IsSum
<1> QED BY <1>1, <1>2, SumOfIter, FS_EmptySet

LEMMA SumPicks ==
  ASSUME NEW f, NEW S, IsFiniteSet(S), S # {}
  PROVE  SumOver(f, S) = f[Pick(S)] + SumOver(f, S \ {Pick(S)})
<1>1. PICK g : IsSum(g, f, S)
  BY IterExists
<1>2. g[S] = f[Pick(S)] + g[S \ {Pick(S)}]
  BY <1>1 DEF IsSum
<1>3. IsFiniteSet(S \ {Pick(S)})
  BY FS_RemoveElement
<1>4. SumOver(f, S \ {Pick(S)}) = g[S \ {Pick(S)}]
  BY <1>1, <1>3, SumOfIter
<1> QED BY <1>1, <1>2, <1>4, SumOfIter

\* Nor does it depend on the order: any element may be taken first.
LEMMA SumTakes ==
  ASSUME NEW f, NEW S, IsFiniteSet(S), \A x \in S : f[x] \in Nat
  PROVE  /\ SumOver(f, S) \in Nat
         /\ \A x \in S : SumOver(f, S) = f[x] + SumOver(f, S \ {x})
<1> DEFINE Fine(T) == /\ SumOver(f, T) \in Nat
                      /\ \A x \in T : SumOver(f, T) = f[x] + SumOver(f, T \ {x})
           Bad == {T \in SUBSET S : ~Fine(T)}
<1>1. SUFFICES ASSUME Bad # {} PROVE FALSE
  OBVIOUS
<1>2. PICK T \in Bad : \A V \in Bad : Cardinality(T) <= Cardinality(V)
  <2>1. Bad \subseteq SUBSET S
    OBVIOUS
  <2> HIDE DEF Bad
  <2> QED BY <1>1, <2>1, Smallest
<1>3. T \in SUBSET S /\ IsFiniteSet(T) /\ ~Fine(T)
  BY FS_Subset
<1>4. ASSUME NEW x \in T
      PROVE  Fine(T \ {x}) /\ IsFiniteSet(T \ {x}) /\ f[x] \in Nat
  <2>1. T \ {x} \in SUBSET S /\ T \ {x} \notin Bad
    <3>1. T \ {x} \in SUBSET S
      BY <1>3
    <3>2. /\ Cardinality(T) \in Nat /\ Cardinality(T \ {x}) \in Nat
          /\ Cardinality(T \ {x}) < Cardinality(T)
      BY <1>3, Smaller
    <3> HIDE DEF Bad
    <3> QED BY <1>2, <3>1, <3>2
  <2> QED BY <1>3, <2>1, Smaller
<1> HIDE DEF Bad
<1>5. T # {}
  <2>1. Fine({})
    BY SumEmpty
  <2> QED BY <1>3, <2>1
<1> DEFINE p == Pick(T)
<1>6. p \in T
  BY <1>5, PickIsIn
<1> HIDE DEF p
<1>7. SumOver(f, T) = f[p] + SumOver(f, T \ {p})
  BY <1>3, <1>5, SumPicks DEF p
<1>8. SumOver(f, T) \in Nat
  <2>1. SumOver(f, T \ {p}) \in Nat /\ f[p] \in Nat
    BY <1>4, <1>6
  <2> HIDE DEF Fine
  <2> QED BY <1>7, <2>1
<1>9. ASSUME NEW x \in T
      PROVE  SumOver(f, T) = f[x] + SumOver(f, T \ {x})
  <2>1. CASE x = p
    BY <1>7, <2>1
  <2>2. CASE x # p
    <3>1. SumOver(f, T \ {p}) = f[x] + SumOver(f, (T \ {p}) \ {x})
      BY <1>4, <1>6, <2>2
    <3>2. SumOver(f, T \ {x}) = f[p] + SumOver(f, (T \ {x}) \ {p})
      BY <1>4, <1>6, <2>2
    <3>3. SumOver(f, T \ {x}) = f[p] + SumOver(f, (T \ {p}) \ {x})
      <4>1. (T \ {x}) \ {p} = (T \ {p}) \ {x}
        OBVIOUS
      <4> QED BY <3>2, <4>1
    <3>4. SumOver(f, (T \ {p}) \ {x}) \in Nat
      <4>1. T \ {p} # {} /\ x \in T \ {p}
        BY <2>2
      <4>2. (T \ {p}) \ {x} \in SUBSET T
        OBVIOUS
      <4>3. Fine((T \ {p}) \ {x})
        <5>1. /\ Cardinality(T) \in Nat /\ Cardinality(T \ {p}) \in Nat
              /\ Cardinality(T \ {p}) < Cardinality(T)
          BY <1>3, <1>6, Smaller
        <5>2. /\ Cardinality((T \ {p}) \ {x}) \in Nat
              /\ Cardinality((T \ {p}) \ {x}) < Cardinality(T \ {p})
          BY <1>4, <1>6, <4>1, Smaller
        <5>3. (T \ {p}) \ {x} \in SUBSET S
          BY <1>3, <4>2
        <5>4. (T \ {p}) \ {x} \notin Bad
          BY <1>2, <5>1, <5>2
        <5> QED BY <5>3, <5>4 DEF Bad
      <4> QED BY <4>3
    <3>5. f[x] \in Nat /\ f[p] \in Nat
      BY <1>4, <1>6
    <3> HIDE DEF Fine
    <3> QED BY <1>7, <3>1, <3>3, <3>4, <3>5
  <2> QED BY <2>1, <2>2
<1> QED BY <1>3, <1>8, <1>9

LEMMA SumNat ==
  ASSUME NEW f, NEW S, IsFiniteSet(S), \A x \in S : f[x] \in Nat
  PROVE  SumOver(f, S) \in Nat
  BY SumTakes

\* One more element.
LEMMA SumAdds ==
  ASSUME NEW f, NEW S, IsFiniteSet(S), NEW x, x \notin S,
         \A y \in S \union {x} : f[y] \in Nat
  PROVE  SumOver(f, S \union {x}) = SumOver(f, S) + f[x]
<1>1. IsFiniteSet(S \union {x})
  BY FS_AddElement
<1>2. (S \union {x}) \ {x} = S
  OBVIOUS
<1>3. SumOver(f, S \union {x}) = f[x] + SumOver(f, S)
  BY <1>1, <1>2, SumTakes
<1> QED BY <1>3, SumNat

\* One value changes.
LEMMA SumChanges ==
  ASSUME NEW f, NEW e, NEW S, IsFiniteSet(S), NEW x \in S,
         \A y \in S : f[y] \in Nat /\ e[y] \in Nat,
         \A y \in S \ {x} : e[y] = f[y]
  PROVE  SumOver(e, S) + f[x] = SumOver(f, S) + e[x]
<1>1. IsFiniteSet(S \ {x})
  BY FS_RemoveElement
<1>2. SumOver(e, S \ {x}) = SumOver(f, S \ {x}) /\ SumOver(f, S \ {x}) \in Nat
  BY <1>1, SumAgrees, SumNat
<1>3. SumOver(f, S) = f[x] + SumOver(f, S \ {x})
  BY SumTakes
<1>4. SumOver(e, S) = e[x] + SumOver(e, S \ {x})
  BY SumTakes
<1> QED BY <1>2, <1>3, <1>4

\* The sum over two sets that share nothing.
LEMMA SumSplits ==
  ASSUME NEW f, NEW S, NEW T, IsFiniteSet(S), IsFiniteSet(T), S \cap T = {},
         \A x \in S \union T : f[x] \in Nat
  PROVE  SumOver(f, S \union T) = SumOver(f, S) + SumOver(f, T)
<1> DEFINE Bad == {U \in SUBSET T :
                     SumOver(f, S \union U) # SumOver(f, S) + SumOver(f, U)}
<1>1. SUFFICES ASSUME Bad # {} PROVE FALSE
  OBVIOUS
<1>2. PICK U \in Bad : \A V \in Bad : Cardinality(U) <= Cardinality(V)
  BY <1>1, Smallest
<1>3. /\ U \subseteq T /\ IsFiniteSet(U) /\ IsFiniteSet(S \union U)
      /\ SumOver(f, S \union U) # SumOver(f, S) + SumOver(f, U)
  BY FS_Subset, FS_Union
<1>4. U # {}
  BY <1>3, SumEmpty, SumNat
<1>5. PICK x \in U : TRUE
  BY <1>4
<1> DEFINE W == U \ {x}
<1>6. /\ W \in SUBSET T /\ IsFiniteSet(W) /\ U = W \union {x} /\ x \notin W
      /\ Cardinality(W) < Cardinality(U)
      /\ Cardinality(W) \in Nat /\ Cardinality(U) \in Nat
  BY <1>3, Smaller
<1> HIDE DEF W
<1>7. SumOver(f, S \union W) = SumOver(f, S) + SumOver(f, W)
  BY <1>2, <1>6
<1>8. SumOver(f, U) = SumOver(f, W) + f[x]
  BY <1>3, <1>6, SumAdds
<1>9. SumOver(f, S \union U) = SumOver(f, S \union W) + f[x]
  <2>1. IsFiniteSet(S \union W) /\ x \notin S \union W
    BY <1>3, <1>6, FS_Union
  <2>2. S \union U = (S \union W) \union {x}
    BY <1>6
  <2>3. \A y \in (S \union W) \union {x} : f[y] \in Nat
    BY <1>3, <1>6
  <2> HIDE DEF W
  <2> QED BY <2>1, <2>2, <2>3, SumAdds
<1>10. SumOver(f, S) \in Nat /\ SumOver(f, W) \in Nat /\ f[x] \in Nat
  BY <1>3, <1>6, SumNat
<1> QED BY <1>3, <1>7, <1>8, <1>9, <1>10

\* The sum over a part is at most the whole.
LEMMA SumOfPart ==
  ASSUME NEW f, NEW S, IsFiniteSet(S), NEW T, T \subseteq S,
         \A x \in S : f[x] \in Nat
  PROVE  SumOver(f, T) <= SumOver(f, S)
<1>1. IsFiniteSet(T) /\ IsFiniteSet(S \ T) /\ S = T \union (S \ T)
  BY FS_Subset, FS_Difference
<1>2. SumOver(f, S) = SumOver(f, T) + SumOver(f, S \ T)
  BY <1>1, SumSplits
<1> QED BY <1>1, <1>2, SumNat

\* A sum that no element adds to.
LEMMA SumZero ==
  ASSUME NEW f, NEW S, IsFiniteSet(S), \A x \in S : f[x] = 0
  PROVE  SumOver(f, S) = 0
<1> DEFINE Bad == {T \in SUBSET S : SumOver(f, T) # 0}
<1>1. SUFFICES ASSUME Bad # {} PROVE FALSE
  OBVIOUS
<1>2. PICK T \in Bad : \A U \in Bad : Cardinality(T) <= Cardinality(U)
  BY <1>1, Smallest
<1>3. T \subseteq S /\ IsFiniteSet(T) /\ SumOver(f, T) # 0
  BY FS_Subset
<1>4. PICK x \in T : TRUE
  BY <1>3, SumEmpty
<1>5. /\ T \ {x} \in SUBSET S /\ Cardinality(T \ {x}) < Cardinality(T)
      /\ Cardinality(T) \in Nat /\ Cardinality(T \ {x}) \in Nat
  BY <1>3, Smaller
<1>6. SumOver(f, T \ {x}) = 0
  BY <1>2, <1>5
<1>7. SumOver(f, T) = f[x] + SumOver(f, T \ {x})
  BY <1>3, SumTakes
<1> QED BY <1>3, <1>6, <1>7

\* Larger values, larger sum.
LEMMA SumGrows ==
  ASSUME NEW e, NEW f, NEW S, IsFiniteSet(S),
         \A x \in S : e[x] \in Nat /\ f[x] \in Nat /\ e[x] <= f[x]
  PROVE  SumOver(e, S) <= SumOver(f, S)
<1> DEFINE Bad == {T \in SUBSET S : ~(SumOver(e, T) <= SumOver(f, T))}
<1>1. SUFFICES ASSUME Bad # {} PROVE FALSE
  OBVIOUS
<1>2. PICK T \in Bad : \A U \in Bad : Cardinality(T) <= Cardinality(U)
  BY <1>1, Smallest
<1>3. T \subseteq S /\ IsFiniteSet(T) /\ ~(SumOver(e, T) <= SumOver(f, T))
  BY FS_Subset
<1>4. PICK x \in T : TRUE
  BY <1>3, SumEmpty
<1>5. /\ T \ {x} \in SUBSET S /\ Cardinality(T \ {x}) < Cardinality(T)
      /\ Cardinality(T) \in Nat /\ Cardinality(T \ {x}) \in Nat
      /\ IsFiniteSet(T \ {x})
  BY <1>3, Smaller
<1>6. SumOver(e, T \ {x}) <= SumOver(f, T \ {x})
  BY <1>2, <1>5
<1>7. /\ SumOver(e, T) = e[x] + SumOver(e, T \ {x})
      /\ SumOver(f, T) = f[x] + SumOver(f, T \ {x})
  BY <1>3, SumTakes
<1>8. SumOver(e, T \ {x}) \in Nat /\ SumOver(f, T \ {x}) \in Nat
  BY <1>3, <1>5, SumNat
<1>9. e[x] \in Nat /\ f[x] \in Nat /\ e[x] <= f[x]
  BY <1>3
<1> QED BY <1>3, <1>6, <1>7, <1>8, <1>9

\* Elements that are told apart by what they add to: one sum is within another.
LEMMA SumMaps ==
  ASSUME NEW e, NEW S, IsFiniteSet(S), NEW f, NEW T, IsFiniteSet(T), NEW g,
         \A x \in S : g[x] \in T /\ e[x] = f[g[x]],
         \A x, y \in S : g[x] = g[y] => x = y,
         \A y \in T : f[y] \in Nat
  PROVE  SumOver(e, S) <= SumOver(f, T)
<1> DEFINE Image(U) == {y \in T : \E x \in U : g[x] = y}
           Bad == {U \in SUBSET S : SumOver(e, U) # SumOver(f, Image(U))}
<1>1. Bad = {}
  <2>1. SUFFICES ASSUME Bad # {} PROVE FALSE
    OBVIOUS
  <2>2. PICK U \in Bad : \A V \in Bad : Cardinality(U) <= Cardinality(V)
    BY <2>1, Smallest
  <2>3. U \subseteq S /\ IsFiniteSet(U) /\ SumOver(e, U) # SumOver(f, Image(U))
    BY FS_Subset
  <2>4. U # {}
    <3>1. Image({}) = {}
      OBVIOUS
    <3> HIDE DEF Image
    <3> QED BY <2>3, <3>1, SumEmpty
  <2>5. PICK x \in U : TRUE
    BY <2>4
  <2> DEFINE W == U \ {x}
  <2>6. /\ W \in SUBSET S /\ Cardinality(W) < Cardinality(U)
        /\ Cardinality(U) \in Nat /\ Cardinality(W) \in Nat
    BY <2>3, Smaller
  <2>7. SumOver(e, W) = SumOver(f, Image(W))
    <3> HIDE DEF W
    <3> QED BY <2>2, <2>6
  <2>8. Image(W) = Image(U) \ {g[x]} /\ g[x] \in Image(U)
    BY <2>3
  <2>9. IsFiniteSet(Image(U)) /\ \A y \in Image(U) : f[y] \in Nat
    BY FS_Subset
  <2>10. \A y \in U : e[y] \in Nat
    BY <2>3
  <2> HIDE DEF Image
  <2>11. SumOver(f, Image(U)) = f[g[x]] + SumOver(f, Image(W))
    BY <2>8, <2>9, SumTakes
  <2>12. SumOver(e, U) = e[x] + SumOver(e, W)
    BY <2>3, <2>10, SumTakes
  <2> QED BY <2>3, <2>7, <2>11, <2>12
<1>2. SumOver(e, S) = SumOver(f, Image(S))
  BY <1>1
<1>3. Image(S) \subseteq T
  OBVIOUS
<1> HIDE DEF Image
<1> QED BY <1>2, <1>3, SumOfPart
=============================================================================
