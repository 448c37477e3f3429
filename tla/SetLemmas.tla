----------------------------- MODULE SetLemmas ------------------------------
(***************************************************************************)
(* Facts about the operators of the community modules that the models are  *)
(* built from: least elements, maxima, cardinalities and sums over finite  *)
(* sets.  Induction is by a smallest counterexample: a set of naturals or  *)
(* of finite sets that is not empty has a minimal element.                 *)
(***************************************************************************)
EXTENDS Integers, FiniteSets, Functions, FiniteSetsExt, FiniteSetTheorems, TLAPS

-----------------------------------------------------------------------------
(* Minimal elements.                                                       *)

(* A set of naturals that is not empty has a least element.                *)
LEMMA LeastNat ==
  ASSUME NEW T \in SUBSET Nat, T # {}
  PROVE  \E n \in T : \A m \in T : n <= m
  <1>1. PICK n \in T : \A m \in T : ~(<<m, n>> \in OpToRel(<, Nat))
    BY NatLessThanWellFounded, WFMin
  <1>2. \A m \in T : ~(m < n)
    BY <1>1 DEF OpToRel
  <1> QED
    BY <1>2

(* A bounded set of naturals that is not empty has a greatest element.     *)
LEMMA GreatestNat ==
  ASSUME NEW T \in SUBSET Nat, T # {}, NEW b \in Nat, \A m \in T : m <= b
  PROVE  \E n \in T : \A m \in T : m <= n
  <1> DEFINE U == {u \in Nat : \A m \in T : m <= u}
  <1>1. U \in SUBSET Nat /\ U # {}
    OBVIOUS
  <1>2. PICK u \in U : \A v \in U : u <= v
    BY <1>1, LeastNat
  <1>3. CASE u \in T
    BY <1>3
  <1>4. CASE u \notin T
    <2>1. \A m \in T : m <= u - 1
      BY <1>4
    <2>2. u # 0
      <3>1. PICK m \in T : TRUE
        OBVIOUS
      <3>2. m \in Nat /\ m <= u - 1
        BY <2>1
      <3> QED
        BY <3>2
    <2>3. u - 1 \in U
      BY <2>1, <2>2
    <2> QED
      BY <1>2, <2>3
  <1> QED
    BY <1>3, <1>4

(* What Max answers for a bounded set of naturals.                         *)
LEMMA MaxNat ==
  ASSUME NEW T \in SUBSET Nat, T # {}, NEW b \in Nat, \A m \in T : m <= b
  PROVE  Max(T) \in T /\ \A m \in T : m <= Max(T)
  <1>1. \E n \in T : \A m \in T : n >= m
    BY GreatestNat
  <1> QED
    BY <1>1 DEF Max

(* What Min answers for a set of naturals.                                 *)
LEMMA MinNat ==
  ASSUME NEW T \in SUBSET Nat, T # {}
  PROVE  Min(T) \in T /\ \A m \in T : Min(T) <= m
  BY LeastNat DEF Min

(* A collection of subsets of a finite set that is not empty has a member  *)
(* none of whose strict subsets is in it.                                  *)
LEMMA SmallestSet ==
  ASSUME NEW S, IsFiniteSet(S), NEW T \in SUBSET (SUBSET S), T # {}
  PROVE  \E s \in T : \A u \in T : u \subseteq s => u = s
  <1>1. IsWellFoundedOn(StrictSubsetOrdering(S), SUBSET S)
    BY FS_FiniteSubsetsOfFinite, FS_StrictSubsetOrderingWellFounded
  <1>2. PICK s \in T : \A u \in T : ~(<<u, s>> \in StrictSubsetOrdering(S))
    BY <1>1, WFMin
  <1> QED
    BY <1>2 DEF StrictSubsetOrdering

(* A recursive definition over 0..n that goes one step at a time: F[i] is  *)
(* the step to i, on values in X.                                          *)
Recursion(g, n, X, base, F) ==
  /\ g \in [0..n -> X] /\ g[0] = base
  /\ \A i \in 1..n : g[i] = F[i][g[i - 1]]

(* Such a function exists.                                                 *)
LEMMA RecursionDefines ==
  ASSUME NEW n \in Nat, NEW X, NEW base \in X, NEW F \in [1..n -> [X -> X]]
  PROVE  \E g : Recursion(g, n, X, base, F)
  <1> DEFINE T == {m \in 0..n : ~\E g : Recursion(g, m, X, base, F)}
  <1>1. n \notin T
    <2> SUFFICES ASSUME T # {} PROVE FALSE
      OBVIOUS
    <2>1. T \in SUBSET Nat
      OBVIOUS
    <2>2. PICK m \in T : \A u \in T : m <= u
      <3> HIDE DEF T
      <3> QED
        BY <2>1, LeastNat
    <2>3. m # 0
      <3> DEFINE g == [i \in 0..0 |-> base]
      <3>1. Recursion(g, 0, X, base, F)
        BY DEF Recursion
      <3> QED
        BY <3>1
    <2>4. PICK g : Recursion(g, m - 1, X, base, F)
      <3>1. m - 1 \in 0..n /\ m - 1 \notin T
        BY <2>2, <2>3
      <3> QED
        BY <3>1
    <2> DEFINE h == [i \in 0..m |-> IF i = m THEN F[m][g[m - 1]] ELSE g[i]]
    <2>5. m \in 1..n /\ m - 1 \in 0..(m - 1)
      BY <2>3
    <2>6. g \in [0..(m - 1) -> X] /\ g[0] = base /\ \A i \in 1..(m - 1) : g[i] = F[i][g[i - 1]]
      BY <2>4 DEF Recursion
    <2>7. F[m][g[m - 1]] \in X
      BY <2>5, <2>6
    <2>8. h \in [0..m -> X]
      BY <2>5, <2>6, <2>7
    <2>9. h[0] = base
      BY <2>5, <2>6
    <2>10. ASSUME NEW i \in 1..m PROVE h[i] = F[i][h[i - 1]]
      <3>1. h[i - 1] = g[i - 1]
        BY <2>5, <2>10
      <3>2. CASE i = m
        BY <2>5, <3>1, <3>2
      <3>3. CASE i # m
        <4>1. h[i] = g[i] /\ i \in 1..(m - 1)
          BY <2>5, <2>10, <3>3
        <4> QED
          BY <2>6, <3>1, <4>1
      <3> QED
        BY <3>2, <3>3
    <2> HIDE DEF h
    <2>11. Recursion(h, m, X, base, F)
      BY <2>8, <2>9, <2>10 DEF Recursion
    <2> QED
      BY <2>11
  <1> QED
    BY <1>1

-----------------------------------------------------------------------------
(* Sums.  The recursive function behind SumFunctionOnSet, as a predicate:  *)
(* an element is taken out and the rest is summed.                         *)
Taken(s) == CHOOSE x \in s : TRUE

IsSum(f, S, g) ==
  g = [s \in SUBSET S |-> IF s = {} THEN 0 ELSE f[Taken(s)] + g[s \ {Taken(s)}]]

(* SumFunctionOnSet is the value at S of a function chosen by IsSum.       *)
LEMMA SumIsChosen ==
  ASSUME NEW f, NEW S
  PROVE  SumFunctionOnSet(f, S) = (CHOOSE g : IsSum(f, S, g))[S]
  BY DEF SumFunctionOnSet, FoldFunctionOnSet, MapThenFoldSet, IsSum, Taken

(* The element taken out is one of the set.                                *)
LEMMA TakenIsMember ==
  ASSUME NEW s, s # {}
  PROVE  Taken(s) \in s
  BY DEF Taken

(* The equations such a function satisfies.                                *)
LEMMA SumEquations ==
  ASSUME NEW f, NEW S, NEW g, IsSum(f, S, g), NEW s \in SUBSET S
  PROVE  /\ s = {} => g[s] = 0
         /\ s # {} => g[s] = f[Taken(s)] + g[s \ {Taken(s)}]
  BY DEF IsSum

(* Two such functions agree wherever both are defined.                     *)
LEMMA SumsAgree ==
  ASSUME NEW f, NEW A, NEW B, NEW g, NEW h, IsSum(f, A, g), IsSum(f, B, h),
         IsFiniteSet(A), NEW s \in SUBSET A, s \in SUBSET B
  PROVE  g[s] = h[s]
  <1> DEFINE T == {t \in SUBSET A : t \subseteq B /\ g[t] # h[t]}
  <1>1. SUFFICES ASSUME T # {} PROVE FALSE
    OBVIOUS
  <1>2. PICK t \in T : \A u \in T : u \subseteq t => u = t
    <2>1. T \in SUBSET (SUBSET A)
      OBVIOUS
    <2> HIDE DEF T
    <2> QED
      BY <1>1, <2>1, SmallestSet
  <1>3. t \in SUBSET A /\ t \in SUBSET B
    OBVIOUS
  <1>4. t # {} /\ Taken(t) \in t
    <2>1. t = {} => g[t] = 0
      BY <1>3, SumEquations
    <2>2. t = {} => h[t] = 0
      BY <1>3, SumEquations
    <2>3. g[t] # h[t]
      OBVIOUS
    <2> QED
      BY <2>1, <2>2, <2>3, TakenIsMember
  <1>5. g[t \ {Taken(t)}] = h[t \ {Taken(t)}]
    <2>1. t \ {Taken(t)} # t
      BY <1>4
    <2>2. t \ {Taken(t)} \in SUBSET A /\ t \ {Taken(t)} \subseteq B
      BY <1>3
    <2>3. t \ {Taken(t)} \notin T
      BY <1>2, <2>1
    <2> QED
      BY <2>2, <2>3
  <1>6. g[t] = f[Taken(t)] + g[t \ {Taken(t)}]
    BY <1>3, <1>4, SumEquations
  <1>7. h[t] = f[Taken(t)] + h[t \ {Taken(t)}]
    BY <1>3, <1>4, SumEquations
  <1> QED
    BY <1>5, <1>6, <1>7

(* Over a finite set there is one.                                         *)
LEMMA SumExists ==
  ASSUME NEW f, NEW S, IsFiniteSet(S)
  PROVE  \E g : IsSum(f, S, g)
  <1> DEFINE T == {t \in SUBSET S : ~\E g : IsSum(f, t, g)}
             Of(t) == CHOOSE g : IsSum(f, t, g)
  <1>1. SUFFICES ASSUME T # {} PROVE FALSE
    OBVIOUS
  <1>2. PICK t \in T : \A u \in T : u \subseteq t => u = t
    <2>1. T \in SUBSET (SUBSET S)
      OBVIOUS
    <2> HIDE DEF T
    <2> QED
      BY <1>1, <2>1, SmallestSet
  <1>3. \A s \in SUBSET t : s # t => IsSum(f, s, Of(s))
    BY <1>2
  <1> HIDE DEF Of
  <1> DEFINE R(s) == IF s = {} THEN 0 ELSE f[Taken(s)] + Of(s \ {Taken(s)})[s \ {Taken(s)}]
             G == [s \in SUBSET t |-> R(s)]
  <1>4. ASSUME NEW s \in SUBSET t, s # t PROVE R(s) = Of(s)[s]
    <2>1. IsSum(f, s, Of(s)) /\ IsFiniteSet(s)
      BY <1>3, <1>4, FS_Subset
    <2>2. CASE s = {}
      BY <2>1, <2>2, SumEquations
    <2>3. CASE s # {}
      <3>1. Taken(s) \in s
        BY <2>3, TakenIsMember
      <3>2. Of(s)[s] = f[Taken(s)] + Of(s)[s \ {Taken(s)}]
        BY <2>1, <2>3, SumEquations
      <3>3. IsSum(f, s \ {Taken(s)}, Of(s \ {Taken(s)}))
        BY <1>3, <3>1
      <3>4. Of(s)[s \ {Taken(s)}] = Of(s \ {Taken(s)})[s \ {Taken(s)}]
        BY <2>1, <3>3, SumsAgree
      <3> QED
        BY <2>3, <3>2, <3>4
    <2> QED
      BY <2>2, <2>3
  <1>5. \A s \in SUBSET t :
          R(s) = IF s = {} THEN 0 ELSE f[Taken(s)] + G[s \ {Taken(s)}]
    <2> SUFFICES ASSUME NEW s \in SUBSET t, s # {}
                 PROVE  R(s) = f[Taken(s)] + G[s \ {Taken(s)}]
      OBVIOUS
    <2>1. Taken(s) \in s
      BY TakenIsMember
    <2>2. s \ {Taken(s)} \in SUBSET t /\ s \ {Taken(s)} # t
      BY <2>1
    <2>3. G[s \ {Taken(s)}] = R(s \ {Taken(s)})
      BY <2>2
    <2>4. R(s \ {Taken(s)}) = Of(s \ {Taken(s)})[s \ {Taken(s)}]
      BY <1>4, <2>2
    <2> QED
      BY <2>3, <2>4
  <1>6. IsSum(f, t, G)
    <2> HIDE DEF R
    <2> QED
      BY <1>5 DEF IsSum
  <1> QED
    BY <1>2, <1>6

(* The equations of a sum.                                                 *)
LEMMA SumEmpty ==
  ASSUME NEW f
  PROVE  SumFunctionOnSet(f, {}) = 0
  <1>1. \E g : IsSum(f, {}, g)
    BY SumExists, FS_EmptySet
  <1>2. IsSum(f, {}, CHOOSE h : IsSum(f, {}, h))
    BY <1>1
  <1> QED
    BY <1>2, SumIsChosen, SumEquations

(* A sum is the element taken out and the sum of the rest.                 *)
LEMMA SumTakes ==
  ASSUME NEW f, NEW S, IsFiniteSet(S), S # {}
  PROVE  SumFunctionOnSet(f, S) = f[Taken(S)] + SumFunctionOnSet(f, S \ {Taken(S)})
  <1> DEFINE R == S \ {Taken(S)}
             Of(s) == CHOOSE g : IsSum(f, s, g)
  <1>1. IsFiniteSet(R) /\ R \in SUBSET S
    BY FS_RemoveElement
  <1>2. IsSum(f, S, Of(S)) /\ IsSum(f, R, Of(R))
    BY <1>1, SumExists
  <1>3. SumFunctionOnSet(f, S) = Of(S)[S] /\ SumFunctionOnSet(f, R) = Of(R)[R]
    BY SumIsChosen
  <1> HIDE DEF Of
  <1>4. Of(S)[S] = f[Taken(S)] + Of(S)[R]
    BY <1>2, SumEquations
  <1>5. Of(S)[R] = Of(R)[R]
    BY <1>1, <1>2, SumsAgree
  <1> QED
    BY <1>3, <1>4, <1>5

(* A sum of integers is an integer.                                        *)
LEMMA SumInt ==
  ASSUME NEW S, IsFiniteSet(S), NEW f, \A x \in S : f[x] \in Int
  PROVE  SumFunctionOnSet(f, S) \in Int
  <1> DEFINE T == {t \in SUBSET S : SumFunctionOnSet(f, t) \notin Int}
  <1>1. SUFFICES ASSUME T # {} PROVE FALSE
    OBVIOUS
  <1>2. PICK t \in T : \A u \in T : u \subseteq t => u = t
    <2>1. T \in SUBSET (SUBSET S)
      OBVIOUS
    <2> HIDE DEF T
    <2> QED
      BY <1>1, <2>1, SmallestSet
  <1>3. t # {} /\ Taken(t) \in t
    BY SumEmpty, TakenIsMember
  <1>4. SumFunctionOnSet(f, t \ {Taken(t)}) \in Int
    BY <1>2, <1>3
  <1>5. IsFiniteSet(t)
    BY FS_Subset
  <1>6. SumFunctionOnSet(f, t) = f[Taken(t)] + SumFunctionOnSet(f, t \ {Taken(t)})
    BY <1>3, <1>5, SumTakes
  <1>7. f[Taken(t)] \in Int
    BY <1>3
  <1> QED
    BY <1>4, <1>6, <1>7

(* Any element can be taken out first.                                     *)
LEMMA SumRemove ==
  ASSUME NEW S, IsFiniteSet(S), NEW f, \A x \in S : f[x] \in Int, NEW e \in S
  PROVE  SumFunctionOnSet(f, S) = f[e] + SumFunctionOnSet(f, S \ {e})
  <1> DEFINE Sigma(t) == SumFunctionOnSet(f, t)
             T == {t \in SUBSET S : \E y \in t : Sigma(t) # f[y] + Sigma(t \ {y})}
  <1>1. SUFFICES ASSUME T # {} PROVE FALSE
    OBVIOUS
  <1>2. PICK t \in T : \A u \in T : u \subseteq t => u = t
    <2>1. T \in SUBSET (SUBSET S)
      OBVIOUS
    <2> HIDE DEF T
    <2> QED
      BY <1>1, <2>1, SmallestSet
  <1>3. PICK y \in t : Sigma(t) # f[y] + Sigma(t \ {y})
    BY <1>2
  <1> DEFINE x == Taken(t)
             rest == (t \ {x}) \ {y}
  <1>4. t \in SUBSET S /\ IsFiniteSet(t) /\ x \in t
    BY FS_Subset, TakenIsMember
  <1>5. Sigma(t) = f[x] + Sigma(t \ {x})
    BY <1>4, SumTakes
  <1>6. x # y
    BY <1>3, <1>5
  <1>7. t \ {x} \notin T /\ t \ {y} \notin T /\ t \ {x} \in SUBSET S /\ t \ {y} \in SUBSET S
    BY <1>2, <1>3, <1>4
  <1>8. Sigma(t \ {x}) = f[y] + Sigma(rest)
    <2>1. y \in t \ {x}
      BY <1>3, <1>6
    <2> QED
      BY <1>7, <2>1
  <1>9. Sigma(t \ {y}) = f[x] + Sigma(rest)
    <2>1. x \in t \ {y} /\ (t \ {y}) \ {x} = rest
      BY <1>4, <1>6
    <2> QED
      BY <1>7, <2>1
  <1>10. Sigma(rest) \in Int /\ f[x] \in Int /\ f[y] \in Int
    <2>1. IsFiniteSet(rest) /\ rest \in SUBSET S
      BY <1>4, FS_Subset
    <2> QED
      BY <1>3, <1>4, <2>1, SumInt
  <1> HIDE DEF Sigma, x, rest, T
  <1> QED
    BY <1>3, <1>5, <1>8, <1>9, <1>10

(* Adding an element adds its value.                                       *)
LEMMA SumAdd ==
  ASSUME NEW S, IsFiniteSet(S), NEW f, \A x \in S : f[x] \in Int, NEW e, f[e] \in Int, e \notin S
  PROVE  SumFunctionOnSet(f, S \cup {e}) = SumFunctionOnSet(f, S) + f[e]
  <1>1. IsFiniteSet(S \cup {e}) /\ (S \cup {e}) \ {e} = S
    BY FS_AddElement
  <1>2. SumFunctionOnSet(f, S \cup {e}) = f[e] + SumFunctionOnSet(f, S)
    BY <1>1, SumRemove
  <1>3. SumFunctionOnSet(f, S) \in Int
    BY SumInt
  <1> QED
    BY <1>2, <1>3

(* A sum depends on the values summed and on nothing else.                 *)
LEMMA SumSame ==
  ASSUME NEW S, IsFiniteSet(S), NEW f, NEW g, \A x \in S : f[x] = g[x]
  PROVE  SumFunctionOnSet(f, S) = SumFunctionOnSet(g, S)
  <1> DEFINE T == {t \in SUBSET S : SumFunctionOnSet(f, t) # SumFunctionOnSet(g, t)}
  <1>1. SUFFICES ASSUME T # {} PROVE FALSE
    OBVIOUS
  <1>2. PICK t \in T : \A u \in T : u \subseteq t => u = t
    <2>1. T \in SUBSET (SUBSET S)
      OBVIOUS
    <2> HIDE DEF T
    <2> QED
      BY <1>1, <2>1, SmallestSet
  <1>3. t # {} /\ Taken(t) \in t /\ IsFiniteSet(t)
    BY SumEmpty, TakenIsMember, FS_Subset
  <1>4. SumFunctionOnSet(f, t \ {Taken(t)}) = SumFunctionOnSet(g, t \ {Taken(t)})
    BY <1>2, <1>3
  <1> QED
    BY <1>3, <1>4, SumTakes

(* Changing one value changes the sum by the difference.                   *)
LEMMA SumUpdate ==
  ASSUME NEW S, IsFiniteSet(S), NEW f, NEW g, NEW e \in S,
         \A x \in S : f[x] \in Int, g[e] \in Int, \A x \in S \ {e} : g[x] = f[x]
  PROVE  SumFunctionOnSet(g, S) = SumFunctionOnSet(f, S) - f[e] + g[e]
  <1> DEFINE R == S \ {e}
  <1>1. IsFiniteSet(R) /\ SumFunctionOnSet(f, R) \in Int
    BY FS_RemoveElement, SumInt
  <1>2. SumFunctionOnSet(f, R) = SumFunctionOnSet(g, R)
    BY <1>1, SumSame
  <1>3. \A x \in S : g[x] \in Int
    OBVIOUS
  <1>4. SumFunctionOnSet(f, S) = f[e] + SumFunctionOnSet(f, R)
    BY SumRemove
  <1>5. SumFunctionOnSet(g, S) = g[e] + SumFunctionOnSet(g, R)
    BY <1>3, SumRemove
  <1> QED
    BY <1>1, <1>2, <1>4, <1>5

(* Larger values have a larger sum.                                        *)
LEMMA SumMonotone ==
  ASSUME NEW S, IsFiniteSet(S), NEW f, NEW g,
         \A x \in S : f[x] \in Int /\ g[x] \in Int /\ f[x] <= g[x]
  PROVE  SumFunctionOnSet(f, S) <= SumFunctionOnSet(g, S)
  <1> DEFINE F(t) == SumFunctionOnSet(f, t)
             G(t) == SumFunctionOnSet(g, t)
             T == {t \in SUBSET S : ~(F(t) <= G(t))}
  <1>1. SUFFICES ASSUME T # {} PROVE FALSE
    OBVIOUS
  <1>2. PICK t \in T : \A u \in T : u \subseteq t => u = t
    <2>1. T \in SUBSET (SUBSET S)
      OBVIOUS
    <2> HIDE DEF T
    <2> QED
      BY <1>1, <2>1, SmallestSet
  <1> DEFINE x == Taken(t)
             R == t \ {x}
  <1>3. t # {} /\ x \in t /\ x \in S /\ IsFiniteSet(t)
    <2>1. F({}) = 0 /\ G({}) = 0
      BY SumEmpty
    <2>2. t # {}
      BY <2>1
    <2> QED
      BY <2>2, TakenIsMember, FS_Subset
  <1>4. F(R) <= G(R)
    BY <1>2, <1>3
  <1>5. F(R) \in Int /\ G(R) \in Int
    <2>1. IsFiniteSet(R) /\ \A y \in R : f[y] \in Int /\ g[y] \in Int
      BY <1>3, FS_Subset
    <2> QED
      BY <2>1, SumInt
  <1>6. F(t) = f[x] + F(R) /\ G(t) = g[x] + G(R)
    BY <1>3, SumTakes
  <1>7. ~(F(t) <= G(t)) /\ f[x] \in Int /\ g[x] \in Int /\ f[x] <= g[x]
    BY <1>2, <1>3
  <1> HIDE DEF F, G, T, x, R
  <1> QED
    BY <1>4, <1>5, <1>6, <1>7

(* Zeros sum to zero.                                                      *)
LEMMA SumZero ==
  ASSUME NEW S, IsFiniteSet(S), NEW f, \A x \in S : f[x] = 0
  PROVE  SumFunctionOnSet(f, S) = 0
  <1> DEFINE T == {t \in SUBSET S : SumFunctionOnSet(f, t) # 0}
  <1>1. SUFFICES ASSUME T # {} PROVE FALSE
    OBVIOUS
  <1>2. PICK t \in T : \A u \in T : u \subseteq t => u = t
    <2>1. T \in SUBSET (SUBSET S)
      OBVIOUS
    <2> HIDE DEF T
    <2> QED
      BY <1>1, <2>1, SmallestSet
  <1>3. t # {} /\ Taken(t) \in t /\ IsFiniteSet(t)
    BY SumEmpty, TakenIsMember, FS_Subset
  <1>4. SumFunctionOnSet(f, t \ {Taken(t)}) = 0
    BY <1>2, <1>3
  <1> QED
    BY <1>3, <1>4, SumTakes

(* The sum when an element joins and the others keep their values.         *)
LEMMA SumJoins ==
  ASSUME NEW S, IsFiniteSet(S), NEW f, NEW g, NEW e, e \notin S, g[e] \in Int,
         \A x \in S : f[x] \in Int /\ g[x] = f[x]
  PROVE  SumFunctionOnSet(g, S \cup {e}) = SumFunctionOnSet(f, S) + g[e]
<1>1. SumFunctionOnSet(g, S) = SumFunctionOnSet(f, S)
  BY SumSame
<1>2. SumFunctionOnSet(g, S \cup {e}) = SumFunctionOnSet(g, S) + g[e]
  BY SumAdd
<1> QED
  BY <1>1, <1>2

(* A sum of values of at most b is at most b for each of them.             *)
LEMMA SumBounded ==
  ASSUME NEW S, IsFiniteSet(S), NEW b \in Nat, NEW f,
         \A x \in S : f[x] \in Int /\ f[x] <= b
  PROVE  SumFunctionOnSet(f, S) <= Cardinality(S) * b
  <1> DEFINE F(t) == SumFunctionOnSet(f, t)
             T == {t \in SUBSET S : ~(F(t) <= Cardinality(t) * b)}
  <1>1. SUFFICES ASSUME T # {} PROVE FALSE
    OBVIOUS
  <1>2. PICK t \in T : \A u \in T : u \subseteq t => u = t
    <2>1. T \in SUBSET (SUBSET S)
      OBVIOUS
    <2> HIDE DEF T
    <2> QED
      BY <1>1, <2>1, SmallestSet
  <1> DEFINE x == Taken(t)
             R == t \ {x}
  <1>3. t # {} /\ x \in t /\ IsFiniteSet(t)
    BY SumEmpty, TakenIsMember, FS_Subset, FS_EmptySet
  <1>4. F(R) <= Cardinality(R) * b
    BY <1>2, <1>3
  <1>5. F(t) = f[x] + F(R)
    BY <1>3, SumTakes
  <1>6. f[x] \in Int /\ f[x] <= b
    BY <1>3
  <1>7. IsFiniteSet(R) /\ R \subseteq S /\ Cardinality(R) \in Nat
        /\ Cardinality(t) = Cardinality(R) + 1
    <2> HIDE DEF x
    <2>1. IsFiniteSet(R) /\ Cardinality(R) = Cardinality(t) - 1
      BY <1>3, FS_RemoveElement
    <2>2. Cardinality(t) \in Nat /\ Cardinality(R) \in Nat
      BY <1>3, <2>1, FS_CardinalityType
    <2> QED
      BY <2>1, <2>2
  <1>8. F(R) \in Int
    BY <1>7, SumInt
  <1>9. ~(F(t) <= Cardinality(t) * b)
    BY <1>2
  <1> HIDE DEF F, T, x, R
  <1>10. PICK n \in Nat : n = Cardinality(R)
    BY <1>7
  <1>11. (n + 1) * b = n * b + b
    OBVIOUS
  <1>12. n * b \in Int
    OBVIOUS
  <1> QED
    BY <1>4, <1>5, <1>6, <1>7, <1>8, <1>9, <1>10, <1>11, <1>12
=============================================================================
