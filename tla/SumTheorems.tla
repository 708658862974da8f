------------------------------ MODULE SumTheorems ------------------------------
(* What a sum over a finite set does when the set or a summand changes: the   *)
(* facts the proofs about caps and balances need of SumFunctionOnSet.  It is  *)
(* a recursive function over the subsets of the set; that the recursion has   *)
(* a solution, and only one, follows by taking a smallest counterexample.     *)
EXTENDS Integers, Functions, FiniteSetTheorems, WellFoundedInduction, TLAPS

Pick(s) == CHOOSE x \in s : TRUE

\* g sums the subsets of S the way SumFunctionOnSet does.
Sums(g, fun, S) ==
  g = [s \in SUBSET S |-> IF s = {} THEN 0 ELSE fun[Pick(s)] + g[s \ {Pick(s)}]]

LEMMA PickIn == ASSUME NEW s, s # {} PROVE Pick(s) \in s
BY DEF Pick

LEMMA SumIsRecursive ==
  ASSUME NEW fun, NEW S
  PROVE  SumFunctionOnSet(fun, S) = (CHOOSE g : Sums(g, fun, S))[S]
BY DEF SumFunctionOnSet, FoldFunctionOnSet, MapThenFoldSet, Sums, Pick

(* A nonempty collection of finite sets has a smallest one.                   *)
LEMMA SmallestSet ==
  ASSUME NEW B, B # {}, \A s \in B : IsFiniteSet(s)
  PROVE  \E s \in B : \A t \in B : ~ (Cardinality(t) < Cardinality(s))
<1> DEFINE N == {Cardinality(s) : s \in B}
<1>1. N # {} /\ N \subseteq Nat
  BY FS_CardinalityType
<1>2. PICK m \in N : \A n \in N : ~ (<<n, m>> \in OpToRel(<, Nat))
  BY <1>1, NatLessThanWellFounded, WFMin
<1>3. \A n \in N : ~ (n < m)
  BY <1>1, <1>2 DEF OpToRel
<1> QED
  BY <1>3

LEMMA SumsUnfold ==
  ASSUME NEW fun, NEW S, NEW g, Sums(g, fun, S), NEW s \in SUBSET S
  PROVE  g[s] = IF s = {} THEN 0 ELSE fun[Pick(s)] + g[s \ {Pick(s)}]
BY DEF Sums

LEMMA SmallerWithout ==
  ASSUME NEW s, IsFiniteSet(s), NEW x \in s
  PROVE  IsFiniteSet(s \ {x}) /\ Cardinality(s \ {x}) < Cardinality(s)
<1>1. Cardinality(s \ {x}) = Cardinality(s) - 1 /\ IsFiniteSet(s \ {x})
  BY FS_RemoveElement
<1> QED
  BY <1>1, FS_CardinalityType

LEMMA RestIsSmaller ==
  ASSUME NEW s, IsFiniteSet(s), s # {}
  PROVE  IsFiniteSet(s \ {Pick(s)}) /\ Cardinality(s \ {Pick(s)}) < Cardinality(s)
BY PickIn, SmallerWithout

(* Two solutions agree wherever both are defined.                             *)
LEMMA SumsAgree ==
  ASSUME NEW fun, NEW S, NEW T, IsFiniteSet(S),
         NEW g, NEW h, Sums(g, fun, S), Sums(h, fun, T)
  PROVE  \A s \in SUBSET (S \cap T) : g[s] = h[s]
<1> DEFINE B == {s \in SUBSET (S \cap T) : g[s] # h[s]}
<1> SUFFICES ASSUME B # {} PROVE FALSE
  OBVIOUS
<1>1. \A s \in B : IsFiniteSet(s)
  BY FS_Subset
<1>2. PICK s \in B : \A t \in B : ~ (Cardinality(t) < Cardinality(s))
  BY <1>1, SmallestSet
<1>3. s \in SUBSET S /\ s \in SUBSET T /\ IsFiniteSet(s)
  BY <1>1
<1>4. s # {}
  BY <1>2, <1>3, SumsUnfold
<1> DEFINE t == s \ {Pick(s)}
<1>5. Cardinality(t) < Cardinality(s)
  BY <1>3, <1>4, RestIsSmaller
<1>6. t \notin B /\ t \in SUBSET (S \cap T)
  BY <1>2, <1>5
<1>7. g[t] = h[t]
  BY <1>6
<1>8. g[s] = fun[Pick(s)] + g[t] /\ h[s] = fun[Pick(s)] + h[t]
  BY <1>3, <1>4, SumsUnfold
<1> QED
  BY <1>2, <1>7, <1>8

(* A finite set has a solution.                                               *)
LEMMA SumsExist ==
  ASSUME NEW fun, NEW S, IsFiniteSet(S)
  PROVE  \E g : Sums(g, fun, S)
<1> DEFINE B == {T \in SUBSET S : ~ \E g : Sums(g, fun, T)}
<1> SUFFICES ASSUME B # {} PROVE FALSE
  OBVIOUS
<1>1. PICK T \in B : \A U \in B : ~ (Cardinality(U) < Cardinality(T))
  BY FS_Subset, SmallestSet
<1>2. IsFiniteSet(T)
  BY FS_Subset
<1> DEFINE G(U) == CHOOSE g : Sums(g, fun, U)
           Rest(s) == s \ {Pick(s)}
           new == [s \in SUBSET T |-> IF s = {} THEN 0 ELSE fun[Pick(s)] + G(Rest(s))[Rest(s)]]
<1>3. ASSUME NEW s \in SUBSET T, s # {}
      PROVE  Rest(s) \in SUBSET T /\ Rest(s) \in SUBSET S /\ IsFiniteSet(Rest(s))
             /\ Sums(G(Rest(s)), fun, Rest(s))
  <2>1. Rest(s) \in SUBSET T /\ Rest(s) \in SUBSET S /\ IsFiniteSet(Rest(s))
    BY <1>2, FS_Subset
  <2>2. Cardinality(Rest(s)) < Cardinality(T)
    <3>1. IsFiniteSet(s) /\ Cardinality(s) <= Cardinality(T)
      BY <1>2, FS_Subset
    <3>2. Cardinality(Rest(s)) < Cardinality(s)
      BY <1>3, <3>1, RestIsSmaller
    <3> QED
      BY <1>2, <2>1, <3>1, <3>2, FS_CardinalityType
  <2>3. Rest(s) \notin B
    BY <1>1, <2>2
  <2>4. \E g : Sums(g, fun, Rest(s))
    BY <2>1, <2>3
  <2> QED
    BY <2>1, <2>4
<1>4. ASSUME NEW s \in SUBSET T, s # {}
      PROVE  G(Rest(s))[Rest(s)] = new[Rest(s)]
  <2> DEFINE r == Rest(s)
  <2>1. r \in SUBSET T /\ IsFiniteSet(r) /\ Sums(G(r), fun, r)
    BY <1>3, <1>4
  <2>2. r \in SUBSET r
    OBVIOUS
  <2>3. CASE r = {}
    BY <2>1, <2>2, <2>3, SumsUnfold
  <2>4. CASE r # {}
    <3>1. Sums(G(Rest(r)), fun, Rest(r)) /\ Rest(r) \in SUBSET (r \cap Rest(r))
      BY <1>3, <2>1, <2>4
    <3>2. G(r)[Rest(r)] = G(Rest(r))[Rest(r)]
      BY <2>1, <3>1, SumsAgree
    <3>3. G(r)[r] = fun[Pick(r)] + G(r)[Rest(r)]
      <4> HIDE DEF G, r
      <4> QED
        BY <2>1, <2>2, <2>4, SumsUnfold
    <3>4. new[r] = fun[Pick(r)] + G(Rest(r))[Rest(r)]
      BY <2>1, <2>4
    <3> QED
      BY <3>2, <3>3, <3>4
  <2> QED
    BY <2>3, <2>4
<1>5. new = [s \in SUBSET T |-> IF s = {} THEN 0 ELSE fun[Pick(s)] + new[s \ {Pick(s)}]]
  <2>1. \A s \in SUBSET T : s # {} => G(Rest(s))[Rest(s)] = new[s \ {Pick(s)}]
    BY <1>4
  <2> HIDE DEF G
  <2>2. new = [s \in SUBSET T |-> IF s = {} THEN 0 ELSE fun[Pick(s)] + G(Rest(s))[Rest(s)]]
    OBVIOUS
  <2> HIDE DEF new, Rest
  <2> QED
    BY <2>1, <2>2
<1>6. Sums(new, fun, T)
  BY <1>5 DEF Sums
<1> QED
  BY <1>1, <1>6

(* The sum takes out one element after the other.                             *)
LEMMA SumUnfolds ==
  ASSUME NEW fun, NEW S, IsFiniteSet(S)
  PROVE  SumFunctionOnSet(fun, S) =
           IF S = {} THEN 0 ELSE fun[Pick(S)] + SumFunctionOnSet(fun, S \ {Pick(S)})
<1> DEFINE G(T) == CHOOSE g : Sums(g, fun, T)
           rest == S \ {Pick(S)}
<1>1. Sums(G(S), fun, S) /\ S \in SUBSET S
  BY SumsExist
<1>2. SumFunctionOnSet(fun, S) = G(S)[S] /\ SumFunctionOnSet(fun, rest) = G(rest)[rest]
  BY SumIsRecursive
<1>3. CASE S # {}
  <2>1. IsFiniteSet(rest) /\ rest \in SUBSET (S \cap rest) /\ rest \in SUBSET S
    BY FS_Subset
  <2>2. Sums(G(rest), fun, rest)
    BY <2>1, SumsExist
  <2>3. G(S)[rest] = G(rest)[rest]
    BY <1>1, <2>1, <2>2, SumsAgree
  <2>4. G(S)[S] = fun[Pick(S)] + G(S)[rest]
    BY <1>1, <1>3, SumsUnfold
  <2> QED
    BY <1>2, <1>3, <2>3, <2>4
<1>4. CASE S = {}
  BY <1>1, <1>2, <1>4, SumsUnfold
<1> QED
  BY <1>3, <1>4

LEMMA SumEmpty == ASSUME NEW fun PROVE SumFunctionOnSet(fun, {}) = 0
BY SumUnfolds, FS_EmptySet

(* A sum of integers is an integer, a sum of naturals a natural.              *)
LEMMA SumType ==
  ASSUME NEW fun, NEW S, IsFiniteSet(S), NEW Typ \in {Int, Nat}, \A x \in S : fun[x] \in Typ
  PROVE  SumFunctionOnSet(fun, S) \in Typ
<1> DEFINE Total(T) == SumFunctionOnSet(fun, T)
           B == {T \in SUBSET S : Total(T) \notin Typ}
<1> SUFFICES ASSUME B # {} PROVE FALSE
  OBVIOUS
<1>1. PICK T \in B : \A U \in B : ~ (Cardinality(U) < Cardinality(T))
  BY FS_Subset, SmallestSet
<1>2. IsFiniteSet(T)
  BY FS_Subset
<1>3. Total(T) = IF T = {} THEN 0 ELSE fun[Pick(T)] + Total(T \ {Pick(T)})
  BY <1>2, SumUnfolds
<1> HIDE DEF Total
<1>4. T # {}
  BY <1>3
<1>5. T \ {Pick(T)} \notin B
  BY <1>1, <1>2, <1>4, RestIsSmaller
<1>6. Total(T \ {Pick(T)}) \in Typ /\ fun[Pick(T)] \in Typ
  BY <1>4, <1>5, PickIn
<1> QED
  BY <1>3, <1>4, <1>6

(* Any element may be taken out first.                                        *)
LEMMA SumTakesOut ==
  ASSUME NEW fun, NEW S, IsFiniteSet(S), \A y \in S : fun[y] \in Int, NEW x \in S
  PROVE  SumFunctionOnSet(fun, S) = fun[x] + SumFunctionOnSet(fun, S \ {x})
<1> DEFINE Total(T) == SumFunctionOnSet(fun, T)
           B == {T \in SUBSET S : \E y \in T : Total(T) # fun[y] + Total(T \ {y})}
<1> SUFFICES ASSUME B # {} PROVE FALSE
  OBVIOUS
<1>1. PICK T \in B : \A U \in B : ~ (Cardinality(U) < Cardinality(T))
  BY FS_Subset, SmallestSet
<1>2. PICK z \in T : Total(T) # fun[z] + Total(T \ {z})
  OBVIOUS
<1>3. IsFiniteSet(T) /\ T # {} /\ T \subseteq S
  BY <1>2, FS_Subset
<1> DEFINE p == Pick(T)
<1>4. p \in T /\ IsFiniteSet(T \ {p}) /\ Cardinality(T \ {p}) < Cardinality(T)
  BY <1>3, RestIsSmaller, PickIn
<1>5. IsFiniteSet(T \ {z}) /\ Cardinality(T \ {z}) < Cardinality(T)
  BY <1>2, <1>3, SmallerWithout
<1>6. Total(T) = fun[p] + Total(T \ {p})
  BY <1>3, SumUnfolds
<1>7. p # z
  BY <1>2, <1>6
<1>8. \A U \in SUBSET S : Cardinality(U) < Cardinality(T) =>
        \A y \in U : Total(U) = fun[y] + Total(U \ {y})
  BY <1>1
<1>9. fun[p] \in Int /\ fun[z] \in Int
  BY <1>3, <1>4
<1>10. Total((T \ {p}) \ {z}) \in Int
  BY <1>3, FS_Subset, SumType
<1>11. (T \ {p}) \ {z} = (T \ {z}) \ {p}
  OBVIOUS
<1> HIDE DEF Total, p
<1>12. Total(T \ {p}) = fun[z] + Total((T \ {p}) \ {z})
  BY <1>3, <1>4, <1>7, <1>8
<1>13. Total(T \ {z}) = fun[p] + Total((T \ {p}) \ {z})
  BY <1>3, <1>4, <1>5, <1>7, <1>8, <1>11
<1> QED
  BY <1>2, <1>6, <1>9, <1>10, <1>12, <1>13

(* An element that is put in adds its value.                                  *)
LEMMA SumPutsIn ==
  ASSUME NEW fun, NEW S, IsFiniteSet(S), NEW x, x \notin S, \A y \in S \cup {x} : fun[y] \in Int
  PROVE  SumFunctionOnSet(fun, S \cup {x}) = fun[x] + SumFunctionOnSet(fun, S)
<1>1. IsFiniteSet(S \cup {x}) /\ (S \cup {x}) \ {x} = S
  BY FS_AddElement
<1> QED
  BY <1>1, SumTakesOut

(* More summands, and none of them negative, make no less.                    *)
LEMMA SumGrows ==
  ASSUME NEW fun, NEW S, IsFiniteSet(S), \A y \in S : fun[y] \in Nat, NEW R \in SUBSET S
  PROVE  SumFunctionOnSet(fun, R) <= SumFunctionOnSet(fun, S)
<1> DEFINE Total(T) == SumFunctionOnSet(fun, T)
           B == {T \in SUBSET S : R \subseteq T /\ ~ (Total(R) <= Total(T))}
<1> SUFFICES ASSUME B # {} PROVE FALSE
  OBVIOUS
<1>1. PICK T \in B : \A U \in B : ~ (Cardinality(U) < Cardinality(T))
  BY FS_Subset, SmallestSet
<1>2. IsFiniteSet(T) /\ IsFiniteSet(R) /\ T \subseteq S
  BY FS_Subset
<1>3. \A U \in SUBSET S : Total(U) \in Nat
  BY FS_Subset, SumType
<1>4. T # R
  BY <1>3
<1>5. PICK x \in T : x \notin R
  BY <1>4
<1>6. Total(T) = fun[x] + Total(T \ {x})
  BY <1>2, SumTakesOut
<1>7. Cardinality(T \ {x}) < Cardinality(T)
  BY <1>2, SmallerWithout
<1>8. T \ {x} \notin B
  BY <1>1, <1>7
<1> HIDE DEF Total
<1>9. Total(R) <= Total(T \ {x})
  BY <1>2, <1>5, <1>8
<1> QED
  BY <1>2, <1>3, <1>6, <1>9

(* Where no summand is larger, neither is the sum.                            *)
LEMMA SumIsMonotone ==
  ASSUME NEW f, NEW g, NEW S, IsFiniteSet(S),
         \A y \in S : f[y] \in Int /\ g[y] \in Int /\ f[y] <= g[y]
  PROVE  SumFunctionOnSet(f, S) <= SumFunctionOnSet(g, S)
<1> DEFINE F(T) == SumFunctionOnSet(f, T)
           G(T) == SumFunctionOnSet(g, T)
           B == {T \in SUBSET S : ~ (F(T) <= G(T))}
<1> SUFFICES ASSUME B # {} PROVE FALSE
  OBVIOUS
<1>1. PICK T \in B : \A U \in B : ~ (Cardinality(U) < Cardinality(T))
  BY FS_Subset, SmallestSet
<1>2. IsFiniteSet(T) /\ T \subseteq S
  BY FS_Subset
<1>3. \A U \in SUBSET S : F(U) \in Int /\ G(U) \in Int
  BY FS_Subset, SumType
<1>4. T # {}
  BY SumEmpty
<1> DEFINE p == Pick(T)
<1>5. p \in T /\ Cardinality(T \ {p}) < Cardinality(T)
  BY <1>2, <1>4, RestIsSmaller, PickIn
<1>6. F(T) = f[p] + F(T \ {p}) /\ G(T) = g[p] + G(T \ {p})
  BY <1>2, <1>5, SumTakesOut
<1>7. T \ {p} \notin B
  BY <1>1, <1>5
<1> HIDE DEF F, G, p
<1>8. F(T \ {p}) <= G(T \ {p})
  BY <1>2, <1>7
<1>9. f[p] \in Int /\ g[p] \in Int /\ f[p] <= g[p]
  BY <1>2, <1>5
<1> QED
  BY <1>2, <1>3, <1>6, <1>8, <1>9

LEMMA SumSame ==
  ASSUME NEW f, NEW g, NEW S, IsFiniteSet(S), \A y \in S : f[y] \in Int /\ f[y] = g[y]
  PROVE  SumFunctionOnSet(f, S) = SumFunctionOnSet(g, S)
<1>1. /\ SumFunctionOnSet(f, S) <= SumFunctionOnSet(g, S)
      /\ SumFunctionOnSet(g, S) <= SumFunctionOnSet(f, S)
  BY SumIsMonotone
<1>2. SumFunctionOnSet(f, S) \in Int /\ SumFunctionOnSet(g, S) \in Int
  BY SumType
<1> QED
  BY <1>1, <1>2

(* A sum changes by what its one changed summand does.                        *)
LEMMA SumChangesBy ==
  ASSUME NEW f, NEW g, NEW S, IsFiniteSet(S), NEW x \in S, \A y \in S : f[y] \in Int /\ g[y] \in Int,
         \A y \in S : y # x => g[y] = f[y]
  PROVE  /\ SumFunctionOnSet(f, S) \in Int
         /\ SumFunctionOnSet(g, S) = SumFunctionOnSet(f, S) + g[x] - f[x]
<1>1. IsFiniteSet(S \ {x})
  BY FS_RemoveElement
<1>2. SumFunctionOnSet(f, S \ {x}) = SumFunctionOnSet(g, S \ {x})
  BY <1>1, SumSame
<1>3. SumFunctionOnSet(f, S) = f[x] + SumFunctionOnSet(f, S \ {x})
  BY SumTakesOut
<1>4. SumFunctionOnSet(g, S) = g[x] + SumFunctionOnSet(g, S \ {x})
  BY SumTakesOut
<1>5. SumFunctionOnSet(f, S \ {x}) \in Int /\ SumFunctionOnSet(f, S) \in Int
  BY <1>1, SumType
<1> QED
  BY <1>2, <1>3, <1>4, <1>5

(* Where summands may be larger by c on a set only, the sum is larger by no   *)
(* more than c times the size of the set.                                     *)
LEMMA SumWithMarked ==
  ASSUME NEW f, NEW g, NEW S, IsFiniteSet(S), NEW A \in SUBSET S, NEW c \in Int,
         \A y \in S : f[y] \in Int /\ g[y] \in Int,
         \A y \in S \ A : f[y] <= g[y], \A y \in A : f[y] <= g[y] + c
  PROVE  SumFunctionOnSet(f, S) <= SumFunctionOnSet(g, S) + c * Cardinality(A)
<1> DEFINE F(T) == SumFunctionOnSet(f, T)
           G(T) == SumFunctionOnSet(g, T)
           N(T) == Cardinality(T \cap A)
           B == {T \in SUBSET S : ~ (F(T) <= G(T) + c * N(T))}
<1> SUFFICES ASSUME B # {} PROVE FALSE
  <2>1. S \cap A = A
    OBVIOUS
  <2> QED
    BY <2>1
<1>1. PICK T \in B : \A U \in B : ~ (Cardinality(U) < Cardinality(T))
  BY FS_Subset, SmallestSet
<1>2. IsFiniteSet(T) /\ T \subseteq S
  BY FS_Subset
<1>3. \A U \in SUBSET S : F(U) \in Int /\ G(U) \in Int /\ N(U) \in Nat
  BY FS_Subset, FS_CardinalityType, SumType
<1>4. T # {}
  <2>1. F({}) = 0 /\ G({}) = 0 /\ N({}) = 0
    BY SumEmpty, FS_EmptySet
  <2> QED
    BY <2>1
<1> DEFINE p == Pick(T)
           R == T \ {p}
<1>5. p \in T /\ Cardinality(R) < Cardinality(T) /\ R \in SUBSET S
  BY <1>2, <1>4, RestIsSmaller, PickIn
<1>6. F(T) = f[p] + F(R) /\ G(T) = g[p] + G(R)
  BY <1>2, <1>5, SumTakesOut
<1>7. /\ p \in A => N(T) = N(R) + 1
      /\ p \notin A => N(T) = N(R)
  <2>1. IsFiniteSet(T \cap A) /\ IsFiniteSet(R \cap A)
    BY <1>2, <1>5, FS_Subset
  <2>2. p \in A => R \cap A = (T \cap A) \ {p} /\ p \in T \cap A
    BY <1>5
  <2>3. p \notin A => R \cap A = T \cap A
    OBVIOUS
  <2>4. p \in A => Cardinality(R \cap A) = Cardinality(T \cap A) - 1
    BY <2>1, <2>2, FS_RemoveElement
  <2>5. Cardinality(R \cap A) \in Nat /\ Cardinality(T \cap A) \in Nat
    BY <2>1, FS_CardinalityType
  <2>6. p \notin A => N(T) = N(R)
    BY <2>3
  <2>7. p \in A => N(T) = N(R) + 1
    <3> HIDE DEF p, R
    <3> QED
      BY <2>4, <2>5
  <2> QED
    BY <2>6, <2>7
<1>8. R \notin B
  BY <1>1, <1>5
<1>9. f[p] \in Int /\ g[p] \in Int
  BY <1>2, <1>5
<1> HIDE DEF F, G, N, p, R
<1>10. F(R) <= G(R) + c * N(R)
  BY <1>5, <1>8
<1>11. N(R) \in Nat /\ c * N(R) \in Int /\ c * (N(R) + 1) = c * N(R) + c
  BY <1>3, <1>5
<1>12. F(T) <= G(T) + c * N(T)
  <2>1. F(R) \in Int /\ G(R) \in Int
    BY <1>3, <1>5
  <2>2. CASE p \in A
    <3>1. f[p] <= g[p] + c /\ c * N(T) = c * N(R) + c
      BY <1>7, <1>11, <2>2
    <3> QED
      BY <1>6, <1>9, <1>10, <1>11, <2>1, <3>1
  <2>3. CASE p \notin A
    <3>1. f[p] <= g[p] /\ c * N(T) = c * N(R)
      BY <1>2, <1>5, <1>7, <2>3
    <3> QED
      BY <1>6, <1>9, <1>10, <1>11, <2>1, <3>1
  <2> QED
    BY <2>2, <2>3
<1> QED
  BY <1>12

LEMMA SumZero ==
  ASSUME NEW f, NEW S, IsFiniteSet(S), \A y \in S : f[y] = 0
  PROVE  SumFunctionOnSet(f, S) = 0
<1> DEFINE B == {T \in SUBSET S : SumFunctionOnSet(f, T) # 0}
<1> SUFFICES ASSUME B # {} PROVE FALSE
  OBVIOUS
<1>1. PICK T \in B : \A U \in B : ~ (Cardinality(U) < Cardinality(T))
  BY FS_Subset, SmallestSet
<1>2. IsFiniteSet(T) /\ T \subseteq S /\ T # {}
  BY SumEmpty, FS_Subset
<1>3. PICK p \in T : TRUE
  BY <1>2
<1>4. SumFunctionOnSet(f, T) = f[p] + SumFunctionOnSet(f, T \ {p})
  BY <1>2, SumTakesOut
<1>5. T \ {p} \notin B
  BY <1>1, <1>2, SmallerWithout
<1> QED
  BY <1>1, <1>2, <1>4, <1>5
=============================================================================
