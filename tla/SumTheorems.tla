---------------------------- MODULE SumTheorems ----------------------------
(***************************************************************************)
(* Facts about the largest of a bounded set of numbers and, mostly, about  *)
(* the sum of a function over a finite set, as the community               *)
(* modules define it (a recursive function on the subsets, which takes     *)
(* away an arbitrary element at each step).                                *)
(*                                                                         *)
(* Induction is over sets of natural numbers and not over formulas: a      *)
(* non-empty set of naturals has a least element (LeastNat, from the well- *)
(* foundedness of < and WFMin), so a set of naturals that contains 0 and   *)
(* is closed under successor is Nat (NatSet).                              *)
(***************************************************************************)
EXTENDS FiniteSetsExt, FiniteSetTheorems, TLAPS

(* A non-empty set of natural numbers has a least element.                 *)
LEMMA LeastNat ==
  ASSUME NEW T, T \subseteq Nat, T # {}
  PROVE  \E n \in T : \A m \in T : n <= m
<1> DEFINE R == {ss \in Nat \X Nat : ss[1] < ss[2]}
<1>1. IsWellFoundedOn(R, Nat)
  BY NatLessThanWellFounded, SMT DEF OpToRel
<1>2. PICK n \in T : \A m \in T : ~ (<<m, n>> \in R)
  <2> HIDE DEF R
  <2> QED BY <1>1, WFMin
<1>3. \A m \in T : ~(m < n)
  BY <1>2
<1> QED BY <1>3

(* Induction for a set of naturals.                                        *)
LEMMA NatSet ==
  ASSUME NEW T, T \subseteq Nat, 0 \in T, \A n \in T : n + 1 \in T
  PROVE  T = Nat
<1>1. SUFFICES ASSUME Nat \ T # {} PROVE FALSE
  OBVIOUS
<1>2. PICK n \in Nat \ T : \A m \in Nat \ T : n <= m
  <2> DEFINE B == Nat \ T
  <2>1. B \subseteq Nat /\ B # {}
    BY <1>1
  <2> HIDE DEF B
  <2>2. \E n \in B : \A m \in B : n <= m
    BY <2>1, LeastNat
  <2> QED BY <2>2 DEF B
<1>3. n # 0 /\ n - 1 \in Nat /\ n - 1 \in T
  BY <1>2
<1> QED BY <1>2, <1>3

(* The largest of a bounded set of numbers.                                 *)
LEMMA MaxOf ==
  ASSUME NEW S, NEW n \in Nat, S \subseteq 0..n, S # {}
  PROVE  Max(S) \in S /\ \A y \in S : y <= Max(S)
<1> DEFINE T == {n - x : x \in S}
<1>1. T \subseteq Nat /\ T # {}
  <2>1. \A x \in S : x \in Int /\ 0 <= x /\ x <= n
    OBVIOUS
  <2>2. \A x \in S : n - x \in Nat
    BY <2>1
  <2> QED
    BY <2>2
<1> HIDE DEF T
<1>2. PICK k \in T : \A m \in T : k <= m
  BY <1>1, LeastNat
<1>3. PICK x \in S : k = n - x
  BY <1>2 DEF T
<1>4. \A y \in S : n - y \in T
  BY DEF T
<1>5. \A y \in S : x >= y
  BY <1>2, <1>3, <1>4
<1>6. \E z \in S : \A y \in S : z >= y
  BY <1>5
<1>7. Max(S) \in S /\ \A y \in S : Max(S) >= y
  BY <1>6 DEF Max
<1> QED
  BY <1>7

----------------------------------------------------------------------------
(* The recursion behind the sum: from values g on smaller sets, the value  *)
(* on every set of D.                                                      *)
SumStep(f, D, g) ==
  [s \in D |-> IF s = {} THEN 0
               ELSE LET x == CHOOSE x \in s : TRUE IN f[x] + g[s \ {x}]]

(* The subsets of S with at most n elements.                               *)
UpTo(S, n) == {s \in SUBSET S : Cardinality(s) <= n}

LEMMA SumUnfold ==
  ASSUME NEW f, NEW S
  PROVE  SumFunctionOnSet(f, S) = (CHOOSE h : h = SumStep(f, SUBSET S, h))[S]
BY DEF SumFunctionOnSet, FoldFunctionOnSet, MapThenFoldSet, SumStep

(* One element less has one less to count.                                 *)
LEMMA Smaller ==
  ASSUME NEW S, IsFiniteSet(S), NEW s \in SUBSET S, s # {}
  PROVE  LET x == CHOOSE x \in s : TRUE
         IN  /\ x \in s /\ s \ {x} \in SUBSET S
             /\ IsFiniteSet(s) /\ Cardinality(s) \in Nat
             /\ Cardinality(s \ {x}) = Cardinality(s) - 1
             /\ Cardinality(s \ {x}) \in Nat
<1> DEFINE x == CHOOSE x \in s : TRUE
<1>1. x \in s
  OBVIOUS
<1>2. IsFiniteSet(s)
  BY FS_Subset
<1> HIDE DEF x
<1>3. Cardinality(s \ {x}) = Cardinality(s) - 1 /\ IsFiniteSet(s \ {x})
  BY <1>1, <1>2, FS_RemoveElement
<1>4. Cardinality(s) \in Nat /\ Cardinality(s \ {x}) \in Nat
  BY <1>2, <1>3, FS_CardinalityType
<1> QED BY <1>1, <1>2, <1>3, <1>4 DEF x

(* The recursion has a solution.                                           *)
LEMMA SumExists ==
  ASSUME NEW S, IsFiniteSet(S), NEW f, \A x \in S : f[x] \in Nat
  PROVE  \E g \in [SUBSET S -> Nat] : g = SumStep(f, SUBSET S, g)
<1> DEFINE Good(n) == \E g \in [UpTo(S, n) -> Nat] : g = SumStep(f, UpTo(S, n), g)
           T == {n \in Nat : Good(n)}
<1>a. \A s \in SUBSET S : IsFiniteSet(s) /\ Cardinality(s) \in Nat /\ (Cardinality(s) = 0 <=> s = {})
  BY FS_Subset, FS_CardinalityType, FS_EmptySet
<1>1. Good(0)
  <2>1. \A s \in UpTo(S, 0) : s = {}
    BY <1>a DEF UpTo
  <2> DEFINE g == [s \in UpTo(S, 0) |-> 0]
  <2>2. g \in [UpTo(S, 0) -> Nat] /\ g = SumStep(f, UpTo(S, 0), g)
    BY <2>1 DEF SumStep
  <2> QED BY <2>2
<1>2. ASSUME NEW n \in Nat, Good(n) PROVE Good(n + 1)
  <2>1. PICK g \in [UpTo(S, n) -> Nat] : g = SumStep(f, UpTo(S, n), g)
    BY <1>2
  <2> DEFINE h == SumStep(f, UpTo(S, n + 1), g)
  <2>2. \A s \in UpTo(S, n) : s \in UpTo(S, n + 1)
    BY <1>a DEF UpTo
  <2>3. ASSUME NEW s \in UpTo(S, n + 1), s # {}
        PROVE  LET x == CHOOSE x \in s : TRUE IN s \ {x} \in UpTo(S, n) /\ f[x] \in Nat
    <3>1. s \in SUBSET S /\ Cardinality(s) <= n + 1
      BY DEF UpTo
    <3> QED BY <3>1, <2>3, Smaller DEF UpTo
  <2>4. h \in [UpTo(S, n + 1) -> Nat]
    BY <2>3 DEF SumStep
  <2>5. \A s \in UpTo(S, n) : h[s] = g[s]
    BY <2>1, <2>2 DEF SumStep
  <2>6. h = SumStep(f, UpTo(S, n + 1), h)
    <3>1. ASSUME NEW s \in UpTo(S, n + 1), s # {}
          PROVE  LET x == CHOOSE x \in s : TRUE IN g[s \ {x}] = h[s \ {x}]
      BY <3>1, <2>3, <2>5
    <3>2. h = [s \in UpTo(S, n + 1) |-> IF s = {} THEN 0
               ELSE LET x == CHOOSE x \in s : TRUE IN f[x] + g[s \ {x}]]
      BY DEF SumStep
    <3>3. ASSUME NEW s \in UpTo(S, n + 1)
          PROVE  h[s] = SumStep(f, UpTo(S, n + 1), h)[s]
      <4> HIDE DEF h
      <4>1. CASE s = {}
        BY <4>1, <3>2 DEF SumStep
      <4>2. CASE s # {}
        <5> DEFINE x == CHOOSE x \in s : TRUE
        <5>1. h[s] = f[x] + g[s \ {x}]
          BY <4>2, <3>2
        <5>2. SumStep(f, UpTo(S, n + 1), h)[s] = f[x] + h[s \ {x}]
          BY <4>2 DEF SumStep
        <5>3. g[s \ {x}] = h[s \ {x}]
          BY <4>2, <3>1
        <5> QED BY <5>1, <5>2, <5>3
      <4> QED BY <4>1, <4>2
    <3>4. DOMAIN h = UpTo(S, n + 1) /\ h = [s \in UpTo(S, n + 1) |-> h[s]]
      BY <2>4
    <3>5. SumStep(f, UpTo(S, n + 1), h) = [s \in UpTo(S, n + 1) |-> SumStep(f, UpTo(S, n + 1), h)[s]]
      BY DEF SumStep
    <3> HIDE DEF h
    <3> QED BY <3>3, <3>4, <3>5
  <2> HIDE DEF h
  <2> QED BY <2>4, <2>6
<1>3. T = Nat
  <2>1. T \subseteq Nat /\ 0 \in T
    BY <1>1
  <2>2. \A n \in T : n + 1 \in T
    <3> TAKE n \in T
    <3>1. n \in Nat /\ Good(n)
      OBVIOUS
    <3>2. Good(n + 1)
      BY <3>1, <1>2
    <3> QED BY <3>1, <3>2
  <2> HIDE DEF T
  <2> QED BY <2>1, <2>2, NatSet
<1>4. Cardinality(S) \in Nat
  BY FS_CardinalityType
<1>5. UpTo(S, Cardinality(S)) = SUBSET S
  BY FS_Subset DEF UpTo
<1>6. Good(Cardinality(S))
  BY <1>3, <1>4
<1> QED BY <1>5, <1>6

(* Two solutions agree wherever both are defined.                          *)
LEMMA SumUnique ==
  ASSUME NEW U, IsFiniteSet(U), NEW f, NEW S \in SUBSET U,
         NEW g, g = SumStep(f, SUBSET S, g),
         NEW h, h = SumStep(f, SUBSET U, h)
  PROVE  \A s \in SUBSET S : g[s] = h[s]
<1> DEFINE B == {Cardinality(s) : s \in {t \in SUBSET S : g[t] # h[t]}}
<1>0. IsFiniteSet(S)
  BY FS_Subset
<1>1. SUFFICES ASSUME B # {} PROVE FALSE
  OBVIOUS
<1>2. \A s \in SUBSET S : Cardinality(s) \in Nat
  BY <1>0, FS_Subset, FS_CardinalityType
<1>3. B \subseteq Nat
  BY <1>2
<1>4. PICK n \in B : \A m \in B : n <= m
  <2> HIDE DEF B
  <2> QED BY <1>1, <1>3, LeastNat
<1>5. PICK s \in SUBSET S : g[s] # h[s] /\ n = Cardinality(s)
  BY <1>4
<1> DEFINE x == CHOOSE x \in s : TRUE
<1>6. s # {}
  <2>1. g[{}] = 0 /\ h[{}] = 0
    BY DEF SumStep
  <2> QED BY <2>1, <1>5
<1>7. x \in s /\ s \ {x} \in SUBSET S /\ Cardinality(s \ {x}) = n - 1 /\ n \in Nat /\ Cardinality(s \ {x}) \in Nat
  BY <1>0, <1>5, <1>6, Smaller
<1>8. g[s \ {x}] = h[s \ {x}]
  <2>1. SUFFICES ASSUME g[s \ {x}] # h[s \ {x}] PROVE FALSE
    OBVIOUS
  <2>2. n - 1 \in B
    BY <1>7, <2>1
  <2> QED BY <2>2, <1>4, <1>7
<1>9. g[s] = f[x] + g[s \ {x}] /\ h[s] = f[x] + h[s \ {x}]
  BY <1>6 DEF SumStep
<1> QED BY <1>5, <1>8, <1>9

(* The sum, one step unfolded, over any subset of a finite set.            *)
LEMMA SumRecursion ==
  ASSUME NEW U, IsFiniteSet(U), NEW f, \A x \in U : f[x] \in Nat
  PROVE  /\ SumFunctionOnSet(f, {}) = 0
         /\ \A s \in SUBSET U : SumFunctionOnSet(f, s) \in Nat
         /\ \A s \in (SUBSET U) \ {{}} :
              \E x \in s : SumFunctionOnSet(f, s) = f[x] + SumFunctionOnSet(f, s \ {x})
<1> DEFINE iter(S) == CHOOSE h : h = SumStep(f, SUBSET S, h)
<1>1. ASSUME NEW S \in SUBSET U
      PROVE  iter(S) = SumStep(f, SUBSET S, iter(S)) /\ IsFiniteSet(S)
  <2>1. IsFiniteSet(S) /\ \A x \in S : f[x] \in Nat
    BY FS_Subset
  <2>2. \E g : g = SumStep(f, SUBSET S, g)
    BY <2>1, SumExists
  <2> QED BY <2>1, <2>2
<1>2. PICK h \in [SUBSET U -> Nat] : h = SumStep(f, SUBSET U, h)
  BY SumExists
<1>3. ASSUME NEW S \in SUBSET U
      PROVE  SumFunctionOnSet(f, S) = h[S]
  <2>1. SumFunctionOnSet(f, S) = iter(S)[S]
    BY SumUnfold
  <2>2. iter(S)[S] = h[S]
    <3>1. iter(S) = SumStep(f, SUBSET S, iter(S))
      BY <1>1
    <3> HIDE DEF iter
    <3> QED BY <3>1, <1>2, SumUnique, SMTT(30)
  <2> QED BY <2>1, <2>2
<1>4. h[{}] = 0
  BY <1>2 DEF SumStep
<1>5. ASSUME NEW s \in (SUBSET U) \ {{}}
      PROVE  \E x \in s : SumFunctionOnSet(f, s) = f[x] + SumFunctionOnSet(f, s \ {x})
  <2> DEFINE x == CHOOSE x \in s : TRUE
  <2>1. x \in s /\ s \ {x} \in SUBSET U
    OBVIOUS
  <2>2. h[s] = f[x] + h[s \ {x}]
    BY <1>2 DEF SumStep
  <2> HIDE DEF x
  <2> QED BY <2>1, <2>2, <1>3
<1> QED BY <1>2, <1>3, <1>4, <1>5

----------------------------------------------------------------------------
(* A sum of naturals is a natural; the empty sum is 0.                     *)
LEMMA SumType ==
  ASSUME NEW S, IsFiniteSet(S), NEW f, \A x \in S : f[x] \in Nat
  PROVE  SumFunctionOnSet(f, S) \in Nat /\ SumFunctionOnSet(f, {}) = 0
BY SumRecursion

(* The order in which the elements are taken does not matter: any of them  *)
(* can be taken away first.                                                *)
LEMMA SumRemove ==
  ASSUME NEW S, IsFiniteSet(S), NEW f, \A x \in S : f[x] \in Nat, NEW e \in S
  PROVE  SumFunctionOnSet(f, S) = f[e] + SumFunctionOnSet(f, S \ {e})
<1> DEFINE Sum(s) == SumFunctionOnSet(f, s)
           Off(s) == \E y \in s : Sum(s) # f[y] + Sum(s \ {y})
           B == {Cardinality(s) : s \in {t \in SUBSET S : Off(t)}}
<1>1. \A s \in SUBSET S : IsFiniteSet(s) /\ Cardinality(s) \in Nat
  BY FS_Subset, FS_CardinalityType
<1>2. B \subseteq Nat
  BY <1>1
<1>3. SUFFICES ASSUME B # {} PROVE FALSE
  <2>1. SUFFICES ASSUME Off(S) PROVE B # {}
    BY <1>3
  <2> QED BY <2>1
<1>4. PICK n \in B : \A m \in B : n <= m
  <2> HIDE DEF B
  <2> QED BY <1>2, <1>3, LeastNat
<1>5. PICK s \in SUBSET S : Off(s) /\ n = Cardinality(s)
  BY <1>4
<1>6. PICK y \in s : Sum(s) # f[y] + Sum(s \ {y})
  BY <1>5
<1>7. PICK x \in s : Sum(s) = f[x] + Sum(s \ {x})
  BY <1>6, SumRecursion
<1>9. x # y
  BY <1>6, <1>7
<1>10. ASSUME NEW z \in s PROVE ~Off(s \ {z}) /\ IsFiniteSet(s \ {z})
  <2>1. Cardinality(s \ {z}) = Cardinality(s) - 1
    BY <1>1, FS_RemoveElement
  <2>2. s \ {z} \in SUBSET S
    OBVIOUS
  <2>3. Cardinality(s \ {z}) \in Nat /\ n \in Nat
    BY <2>2, <1>1, <1>5
  <2>4. Cardinality(s \ {z}) \notin B
    <3> HIDE DEF B
    <3> QED BY <2>1, <2>3, <1>4, <1>5
  <2> HIDE DEF Off
  <2> QED BY <2>2, <2>4, <1>1
<1> DEFINE rest == (s \ {x}) \ {y}
<1>11. Sum(s \ {x}) = f[y] + Sum(rest)
  BY <1>7, <1>9, <1>10
<1>12. rest = (s \ {y}) \ {x}
  OBVIOUS
<1>13. Sum(s \ {y}) = f[x] + Sum(rest)
  <2>1. x \in s \ {y}
    BY <1>7, <1>9
  <2> QED BY <2>1, <1>6, <1>10, <1>12
<1>14. f[x] \in Nat /\ f[y] \in Nat /\ Sum(rest) \in Nat
  <2>1. rest \in SUBSET S
    OBVIOUS
  <2> QED BY <2>1, <1>7, SumRecursion
<1> HIDE DEF Sum, rest
<1> QED BY <1>6, <1>7, <1>11, <1>13, <1>14

(* One more element adds its own value.                                    *)
LEMMA SumAdd ==
  ASSUME NEW S, IsFiniteSet(S), NEW f, NEW e, e \notin S,
         \A x \in S \cup {e} : f[x] \in Nat
  PROVE  SumFunctionOnSet(f, S \cup {e}) = f[e] + SumFunctionOnSet(f, S)
<1>1. IsFiniteSet(S \cup {e}) /\ e \in S \cup {e} /\ (S \cup {e}) \ {e} = S
  BY FS_AddElement
<1> QED BY <1>1, SumRemove

(* Only the values on the set matter.                                      *)
LEMMA SumEqual ==
  ASSUME NEW S, IsFiniteSet(S), NEW f, NEW g,
         \A x \in S : f[x] \in Nat /\ f[x] = g[x]
  PROVE  SumFunctionOnSet(f, S) = SumFunctionOnSet(g, S)
<1> DEFINE Off(s) == SumFunctionOnSet(f, s) # SumFunctionOnSet(g, s)
           B == {Cardinality(s) : s \in {t \in SUBSET S : Off(t)}}
<1>1. \A s \in SUBSET S : IsFiniteSet(s) /\ Cardinality(s) \in Nat
  BY FS_Subset, FS_CardinalityType
<1>2. B \subseteq Nat
  BY <1>1
<1>3. SUFFICES ASSUME B # {} PROVE FALSE
  OBVIOUS
<1>4. PICK n \in B : \A m \in B : n <= m
  <2> HIDE DEF B
  <2> QED BY <1>2, <1>3, LeastNat
<1>5. PICK s \in SUBSET S : Off(s) /\ n = Cardinality(s)
  BY <1>4
<1>6. \A y \in S : g[y] \in Nat
  OBVIOUS
<1>7. s # {}
  <2>1. SumFunctionOnSet(f, {}) = 0 /\ SumFunctionOnSet(g, {}) = 0
    BY <1>6, SumType
  <2> QED BY <2>1, <1>5
<1>8. PICK y \in s : TRUE
  BY <1>7
<1>9. ~Off(s \ {y})
  <2>1. Cardinality(s \ {y}) = Cardinality(s) - 1
    BY <1>1, FS_RemoveElement
  <2>2. s \ {y} \in SUBSET S
    OBVIOUS
  <2>3. Cardinality(s \ {y}) \in Nat /\ n \in Nat
    BY <2>2, <1>1, <1>5
  <2>4. Cardinality(s \ {y}) \notin B
    <3> HIDE DEF B
    <3> QED BY <2>1, <2>3, <1>4, <1>5
  <2> HIDE DEF Off
  <2> QED BY <2>2, <2>4
<1>10. IsFiniteSet(s) /\ \A z \in s : f[z] \in Nat /\ g[z] \in Nat
  BY <1>1, <1>6
<1>11. /\ SumFunctionOnSet(f, s) = f[y] + SumFunctionOnSet(f, s \ {y})
       /\ SumFunctionOnSet(g, s) = g[y] + SumFunctionOnSet(g, s \ {y})
  BY <1>10, SumRemove
<1> QED BY <1>5, <1>9, <1>11

(* A sum of naturals over part of a set is at most the sum over the set.   *)
LEMMA SumSubset ==
  ASSUME NEW T, IsFiniteSet(T), NEW f, \A x \in T : f[x] \in Nat, NEW S \in SUBSET T
  PROVE  SumFunctionOnSet(f, S) <= SumFunctionOnSet(f, T)
<1> DEFINE Off(s) == ~(SumFunctionOnSet(f, s \cap S) <= SumFunctionOnSet(f, s))
           B == {Cardinality(s) : s \in {t \in SUBSET T : Off(t)}}
<1>1. \A s \in SUBSET T : IsFiniteSet(s) /\ Cardinality(s) \in Nat
  BY FS_Subset, FS_CardinalityType
<1>2. B \subseteq Nat
  BY <1>1
<1>3. SUFFICES ASSUME B # {} PROVE FALSE
  <2>1. T \cap S = S
    OBVIOUS
  <2>2. SUFFICES ASSUME Off(T) PROVE B # {}
    BY <1>3, <2>1
  <2> QED BY <2>2
<1>4. PICK n \in B : \A m \in B : n <= m
  <2> HIDE DEF B
  <2> QED BY <1>2, <1>3, LeastNat
<1>5. PICK s \in SUBSET T : Off(s) /\ n = Cardinality(s)
  BY <1>4
<1>6. s # {}
  <2>1. SumFunctionOnSet(f, {}) = 0 /\ {} \cap S = {}
    BY SumType
  <2> QED BY <2>1, <1>5
<1>7. PICK y \in s : TRUE
  BY <1>6
<1>8. ~Off(s \ {y})
  <2>1. Cardinality(s \ {y}) = Cardinality(s) - 1
    BY <1>1, FS_RemoveElement
  <2>2. s \ {y} \in SUBSET T
    OBVIOUS
  <2>3. Cardinality(s \ {y}) \in Nat /\ n \in Nat
    BY <2>2, <1>1, <1>5
  <2>4. Cardinality(s \ {y}) \notin B
    <3> HIDE DEF B
    <3> QED BY <2>1, <2>3, <1>4, <1>5
  <2> HIDE DEF Off
  <2> QED BY <2>2, <2>4
<1>9. SumFunctionOnSet(f, s) = f[y] + SumFunctionOnSet(f, s \ {y})
  BY <1>1, SumRemove
<1>10. CASE y \in S
  <2>1. /\ y \in s \cap S /\ IsFiniteSet(s \cap S) /\ s \cap S \in SUBSET T
        /\ (s \cap S) \ {y} = (s \ {y}) \cap S
    BY <1>1, <1>7, <1>10
  <2>2. SumFunctionOnSet(f, s \cap S) = f[y] + SumFunctionOnSet(f, (s \ {y}) \cap S)
    BY <2>1, SumRemove
  <2>3. /\ SumFunctionOnSet(f, (s \ {y}) \cap S) \in Nat
        /\ SumFunctionOnSet(f, s \ {y}) \in Nat /\ f[y] \in Nat
    BY <1>7, SumRecursion
  <2> QED BY <1>5, <1>8, <1>9, <2>2, <2>3
<1>11. CASE y \notin S
  <2>0. s \cap S = (s \ {y}) \cap S
    BY <1>11
  <2>1. SumFunctionOnSet(f, s \cap S) = SumFunctionOnSet(f, (s \ {y}) \cap S)
    BY <2>0
  <2>2. /\ SumFunctionOnSet(f, (s \ {y}) \cap S) \in Nat
        /\ SumFunctionOnSet(f, s \ {y}) \in Nat /\ f[y] \in Nat
    BY <1>7, SumRecursion
  <2> QED BY <1>5, <1>8, <1>9, <2>1, <2>2
<1> QED BY <1>10, <1>11
=============================================================================
