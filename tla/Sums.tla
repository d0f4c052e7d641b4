--------------------------------- MODULE Sums ---------------------------------
(* Sums over finite sets, as MapThenSumSet of the community modules computes    *)
(* them: by a recursive function that takes one element after the other.        *)
(* Induction is over a set of counterexamples, which has a smallest member.     *)
EXTENDS Integers, FiniteSets, FiniteSetTheorems, WellFoundedInduction, TLAPS

\* Some element of a non-empty set: the one a sum takes next.
Next1(s) == CHOOSE x \in s : TRUE

\* g gives every subset of S the total of its weights.
IsSum(g, w, S) ==
    g = [s \in SUBSET S |-> IF s = {} THEN 0 ELSE w[Next1(s)] + g[s \ {Next1(s)}]]

\* A non-empty family of subsets of a finite set has a smallest member: the
\* form of induction used here, on a set of counterexamples.
LEMMA SmallestSubset ==
  ASSUME NEW S, IsFiniteSet(S), NEW F \in SUBSET (SUBSET S), F # {}
  PROVE  \E T \in F : \A U \in F : U \subseteq T => U = T
<1>1. FiniteSubsetsOf(S) = SUBSET S
  BY FS_FiniteSubsetsOfFinite
<1>2. PICK R : R = StrictSubsetOrdering(S)
  OBVIOUS
<1>3. IsWellFoundedOn(R, SUBSET S)
  BY <1>1, <1>2, FS_StrictSubsetOrderingWellFounded
<1>4. PICK T \in F : \A U \in F : ~ (<<U, T>> \in R)
  BY <1>3, WFMin
<1>5. ASSUME NEW U \in F, U \subseteq T, U # T PROVE <<U, T>> \in R
  BY <1>2, <1>5 DEF StrictSubsetOrdering
<1>6. \A U \in F : U \subseteq T => U = T
  BY <1>4, <1>5
<1> QED
  BY <1>6

LEMMA Next1In == ASSUME NEW s, s # {} PROVE Next1(s) \in s
  BY DEF Next1

LEMMA SumUnfold ==
  ASSUME NEW S, NEW w, NEW g, IsSum(g, w, S), NEW s \in SUBSET S
  PROVE  g[s] = IF s = {} THEN 0 ELSE w[Next1(s)] + g[s \ {Next1(s)}]
  BY DEF IsSum

\* A total is the same for all functions that compute it, on any set.
LEMMA SumUnique ==
  ASSUME NEW S, IsFiniteSet(S), NEW T \in SUBSET S, NEW v, NEW w, NEW g, NEW h,
         IsSum(g, v, T), IsSum(h, w, S), \A x \in T : v[x] = w[x]
  PROVE  g[T] = h[T]
<1>1. PICK F : F = {s \in SUBSET T : g[s] # h[s]}
  OBVIOUS
<1>2. SUFFICES ASSUME F # {} PROVE FALSE
  BY <1>1
<1>3. F \in SUBSET (SUBSET S)
  BY <1>1
<1>4. PICK s \in F : \A U \in F : U \subseteq s => U = s
  BY <1>2, <1>3, SmallestSubset
<1>5. s \in SUBSET T /\ s \in SUBSET S /\ g[s] # h[s]
  BY <1>1
<1>6. /\ g[s] = IF s = {} THEN 0 ELSE v[Next1(s)] + g[s \ {Next1(s)}]
      /\ h[s] = IF s = {} THEN 0 ELSE w[Next1(s)] + h[s \ {Next1(s)}]
  BY <1>5, SumUnfold
<1>61. s # {}
  BY <1>5, <1>6
<1>7. PICK x : x = Next1(s)
  OBVIOUS
<1>8. x \in s
  BY <1>61, <1>7, Next1In
<1>9. PICK r \in SUBSET T : r = s \ {x}
  BY <1>5
<1>10. g[r] = h[r]
  BY <1>1, <1>4, <1>8, <1>9
<1>11. g[s] = v[x] + g[s \ {x}] /\ h[s] = w[x] + h[s \ {x}]
  BY <1>6, <1>61, <1>7
<1> QED
  BY <1>5, <1>8, <1>9, <1>10, <1>11

\* Totals exist on every finite set.
LEMMA SumExists ==
  ASSUME NEW S, IsFiniteSet(S), NEW w
  PROVE  \E g : IsSum(g, w, S)
<1>1. PICK F : F = {T \in SUBSET S : ~ \E g : IsSum(g, w, T)}
  OBVIOUS
<1>2. SUFFICES ASSUME F # {} PROVE FALSE
  BY <1>1
<1>3. F \in SUBSET (SUBSET S)
  BY <1>1
<1>4. PICK T \in F : \A U \in F : U \subseteq T => U = T
  BY <1>2, <1>3, SmallestSubset
<1>5. T \in SUBSET S /\ ~ \E g : IsSum(g, w, T)
  BY <1>1
<1>6. \A U \in SUBSET T : U # T => \E g : IsSum(g, w, U)
  BY <1>1, <1>4, <1>5
<1> DEFINE Of(U) == CHOOSE g : IsSum(g, w, U)
<1>7. \A U \in SUBSET T : U # T => IsSum(Of(U), w, U)
  BY <1>6
<1> HIDE DEF Of
<1> DEFINE Rest(s) == s \ {Next1(s)}
           Total(s) == IF s = {} THEN 0 ELSE w[Next1(s)] + Of(Rest(s))[Rest(s)]
<1>8. PICK g : g = [s \in SUBSET T |-> Total(s)]
  OBVIOUS
<1>9. \A s \in SUBSET T : s # {} => Rest(s) \in SUBSET T /\ Rest(s) # T /\ Rest(s) \subseteq s
  BY Next1In
<1>10. \A s \in SUBSET T : g[s] = Total(s)
  BY <1>8
<1> HIDE DEF Rest
<1>11. ASSUME NEW s \in SUBSET T, s # {} PROVE g[Rest(s)] = Of(Rest(s))[Rest(s)]
  <2>1. PICK u \in SUBSET T : u = Rest(s)
    BY <1>9, <1>11
  <2>2. IsSum(Of(u), w, u)
    BY <1>7, <1>9, <1>11, <2>1
  <2>3. Of(u)[u] = IF u = {} THEN 0 ELSE w[Next1(u)] + Of(u)[Rest(u)]
    BY <2>2, SumUnfold DEF Rest
  <2>4. g[u] = IF u = {} THEN 0 ELSE w[Next1(u)] + Of(Rest(u))[Rest(u)]
    BY <1>10, <2>1
  <2>5. CASE u = {}
    BY <2>1, <2>3, <2>4, <2>5
  <2>6. CASE u # {}
    <3>1. PICK r \in SUBSET u : r = Rest(u)
      BY <1>9, <2>6
    <3>2. IsSum(Of(r), w, r)
      BY <1>7, <1>9, <2>6, <3>1
    <3>3. IsFiniteSet(u)
      BY <1>5, FS_Subset
    <3>4. Of(r)[r] = Of(u)[r]
      BY <2>2, <3>2, <3>3, SumUnique
    <3> QED
      BY <2>1, <2>3, <2>4, <2>6, <3>1, <3>4
  <2> QED
    BY <2>5, <2>6
<1>12. \A s \in SUBSET T : g[s] = IF s = {} THEN 0 ELSE w[Next1(s)] + g[Rest(s)]
  BY <1>10, <1>11
<1>13. g = [s \in SUBSET T |-> IF s = {} THEN 0 ELSE w[Next1(s)] + g[Rest(s)]]
  <2> HIDE DEF Total
  <2> QED
    BY <1>8, <1>12
<1>14. IsSum(g, w, T)
  BY <1>13 DEF IsSum, Rest
<1> QED
  BY <1>5, <1>14

\* Totals of natural weights are natural numbers.
LEMMA SumNat ==
  ASSUME NEW S, IsFiniteSet(S), NEW w \in [S -> Nat], NEW g, IsSum(g, w, S)
  PROVE  \A T \in SUBSET S : g[T] \in Nat
<1>1. PICK F : F = {T \in SUBSET S : g[T] \notin Nat}
  OBVIOUS
<1>2. SUFFICES ASSUME F # {} PROVE FALSE
  BY <1>1
<1>3. F \in SUBSET (SUBSET S)
  BY <1>1
<1>4. PICK T \in F : \A U \in F : U \subseteq T => U = T
  BY <1>2, <1>3, SmallestSubset
<1>5. T \in SUBSET S /\ g[T] \notin Nat
  BY <1>1
<1>6. g[T] = IF T = {} THEN 0 ELSE w[Next1(T)] + g[T \ {Next1(T)}]
  BY <1>5, SumUnfold
<1>61. T # {}
  BY <1>5, <1>6
<1>7. PICK x : x = Next1(T)
  OBVIOUS
<1>8. x \in T
  BY <1>61, <1>7, Next1In
<1>9. PICK r \in SUBSET S : r = T \ {x}
  BY <1>5
<1>10. g[r] \in Nat
  BY <1>1, <1>4, <1>8, <1>9
<1>11. g[T] = IF T = {} THEN 0 ELSE w[x] + g[T \ {x}]
  BY <1>6, <1>7
<1>12. w[x] \in Nat
  BY <1>5, <1>8
<1> QED
  BY <1>5, <1>61, <1>9, <1>10, <1>11, <1>12

\* Any element may be taken first.
LEMMA SumTake ==
  ASSUME NEW S, IsFiniteSet(S), NEW w \in [S -> Nat], NEW g, IsSum(g, w, S), NEW x \in S
  PROVE  g[S] = w[x] + g[S \ {x}]
<1>1. PICK F : F = {T \in SUBSET S : \E z \in T : g[T] # w[z] + g[T \ {z}]}
  OBVIOUS
<1>2. SUFFICES ASSUME F # {} PROVE FALSE
  BY <1>1
<1>3. F \in SUBSET (SUBSET S)
  BY <1>1
<1>4. PICK T \in F : \A U \in F : U \subseteq T => U = T
  BY <1>2, <1>3, SmallestSubset
<1>5. PICK z \in T : T \in SUBSET S /\ g[T] # w[z] + g[T \ {z}]
  BY <1>1
<1>6. PICK y : y = Next1(T)
  OBVIOUS
<1>7. y \in T
  BY <1>6, Next1In
<1>8. g[T] = w[y] + g[T \ {y}]
  BY <1>5, <1>6, SumUnfold
<1>9. y # z
  BY <1>5, <1>8
<1>10. \A U \in SUBSET T : U # T => \A u \in U : g[U] = w[u] + g[U \ {u}]
  BY <1>1, <1>4, <1>5
<1>11. PICK r \in SUBSET S : r = T \ {y, z}
  BY <1>5
<1>12. PICK p \in SUBSET T : p = T \ {y}
  OBVIOUS
<1>13. PICK q \in SUBSET T : q = T \ {z}
  OBVIOUS
<1>14. /\ p # T /\ z \in p /\ p \ {z} = r
       /\ q # T /\ y \in q /\ q \ {y} = r
  BY <1>7, <1>9, <1>11, <1>12, <1>13
<1>15. g[p] = w[z] + g[r] /\ g[q] = w[y] + g[r]
  BY <1>10, <1>14
<1>16. g[r] \in Nat /\ w[y] \in Nat /\ w[z] \in Nat
  BY <1>5, <1>7, SumNat
<1>17. g[T] = w[y] + g[p] /\ g[T] # w[z] + g[q]
  BY <1>5, <1>8, <1>12, <1>13
<1> QED
  BY <1>15, <1>16, <1>17

\* tot[T] is the total of the weights w of T, by whatever recursive function.
TotalsOf(tot, w, S) == \A T \in SUBSET S : \E h : tot[T] = h[T] /\ IsSum(h, w, T)

\* A total of natural weights is natural, and counts each element once.
LEMMA TotalsAddUp ==
  ASSUME NEW S, IsFiniteSet(S), NEW w \in [S -> Nat], NEW tot, TotalsOf(tot, w, S)
  PROVE  \A T \in SUBSET S :
            /\ tot[T] \in Nat
            /\ \A x \in T : tot[T] = w[x] + tot[T \ {x}]
<1> TAKE T \in SUBSET S
<1>1. PICK h : tot[T] = h[T] /\ IsSum(h, w, T)
  BY DEF TotalsOf
<1>2. PICK v \in [T -> Nat] : \A x \in T : v[x] = w[x]
  <2>1. [x \in T |-> w[x]] \in [T -> Nat]
    OBVIOUS
  <2> QED
    BY <2>1
<1>3. IsFiniteSet(T)
  BY FS_Subset
<1>4. h = [s \in SUBSET T |-> IF s = {} THEN 0 ELSE w[Next1(s)] + h[s \ {Next1(s)}]]
  BY <1>1 DEF IsSum
<1>5. \A s \in SUBSET T : (IF s = {} THEN 0 ELSE w[Next1(s)] + h[s \ {Next1(s)}])
                            = IF s = {} THEN 0 ELSE v[Next1(s)] + h[s \ {Next1(s)}]
  BY <1>2, Next1In
<1>6. IsSum(h, v, T)
  BY <1>4, <1>5 DEF IsSum
<1>7. tot[T] \in Nat
  BY <1>1, <1>3, <1>6, SumNat
<1>8. ASSUME NEW x \in T PROVE tot[T] = w[x] + tot[T \ {x}]
  <2>1. PICK R \in SUBSET T : R = T \ {x}
    OBVIOUS
  <2>2. R \in SUBSET S
    OBVIOUS
  <2>3. PICK g : tot[R] = g[R] /\ IsSum(g, w, R)
    BY <2>2 DEF TotalsOf
  <2>4. g[R] = h[R]
    BY <1>1, <1>3, <2>3, SumUnique
  <2>5. h[T] = v[x] + h[T \ {x}]
    BY <1>3, <1>6, SumTake
  <2> QED
    BY <1>1, <1>2, <2>1, <2>3, <2>4, <2>5
<1> QED
  BY <1>7, <1>8

\* Nothing added up is nothing.
LEMMA EmptyTotal ==
  ASSUME NEW S, NEW w, NEW tot, TotalsOf(tot, w, S)
  PROVE  tot[{}] = 0
<1>1. PICK h : tot[{}] = h[{}] /\ IsSum(h, w, {})
  BY DEF TotalsOf
<1> QED
  BY <1>1, SumUnfold

AddsUp(tot, w, S) ==
    \A T \in SUBSET S : tot[T] \in Nat /\ \A x \in T : tot[T] = w[x] + tot[T \ {x}]

LEMMA TotalAddsUp ==
  ASSUME NEW S, IsFiniteSet(S), NEW w \in [S -> Nat], NEW tot, TotalsOf(tot, w, S)
  PROVE  AddsUp(tot, w, S)
  BY TotalsAddUp DEF AddsUp

\* The greater the weights, the greater the total, and a total is no less than
\* any of its weights.
LEMMA TotalsGrow ==
  ASSUME NEW S, IsFiniteSet(S), NEW v \in [S -> Nat], NEW w \in [S -> Nat],
         \A x \in S : v[x] <= w[x],
         NEW few, TotalsOf(few, v, S), NEW many, TotalsOf(many, w, S)
  PROVE  \A T \in SUBSET S : /\ few[T] \in Nat /\ many[T] \in Nat /\ few[T] <= many[T]
                             /\ \A x \in T : w[x] <= many[T]
<1>0. AddsUp(few, v, S) /\ AddsUp(many, w, S)
  BY TotalAddsUp
<1>1. \A T \in SUBSET S : few[T] \in Nat /\ \A x \in T : few[T] = v[x] + few[T \ {x}]
  BY <1>0 DEF AddsUp
<1>2. \A T \in SUBSET S : many[T] \in Nat /\ \A x \in T : many[T] = w[x] + many[T \ {x}]
  BY <1>0 DEF AddsUp
<1>3. \A T \in SUBSET S : few[T] <= many[T]
  <2>1. PICK F : F = {T \in SUBSET S : ~(few[T] <= many[T])}
    OBVIOUS
  <2>2. SUFFICES ASSUME F # {} PROVE FALSE
    BY <2>1
  <2>3. F \in SUBSET (SUBSET S)
    BY <2>1
  <2>4. PICK T \in F : \A U \in F : U \subseteq T => U = T
    BY <2>2, <2>3, SmallestSubset
  <2>5. T \in SUBSET S /\ ~(few[T] <= many[T])
    BY <2>1
  <2>6. T # {}
    <3>1. few[{}] = 0 /\ many[{}] = 0
      BY EmptyTotal
    <3> QED BY <2>5, <3>1
  <2>7. PICK x \in T, U \in SUBSET S : U = T \ {x}
    BY <2>5, <2>6
  <2>8. few[U] <= many[U]
    BY <2>1, <2>4, <2>7
  <2>9. few[U] \in Nat /\ many[U] \in Nat /\ v[x] \in Nat /\ w[x] \in Nat /\ v[x] <= w[x]
    BY <1>1, <1>2, <2>5, <2>7
  <2>10. few[T] = v[x] + few[U] /\ many[T] = w[x] + many[U]
    BY <1>1, <1>2, <2>5, <2>7
  <2> QED BY <2>5, <2>8, <2>9, <2>10
<1>4. ASSUME NEW T \in SUBSET S, NEW x \in T PROVE w[x] <= many[T]
  <2>1. PICK U \in SUBSET S : U = T \ {x}
    OBVIOUS
  <2>2. many[U] \in Nat /\ w[x] \in Nat /\ many[T] = w[x] + many[U]
    BY <1>2, <2>1
  <2> QED BY <2>2
<1> QED
  BY <1>1, <1>2, <1>3, <1>4
==============================================================================
