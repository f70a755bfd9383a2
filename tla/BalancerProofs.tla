--------------------------- MODULE BalancerProofs ---------------------------
(***************************************************************************)
(* Proofs about the load balancer, for any lists, weights and callers: on  *)
(* its own (BalancerShares) and with the discovery that resets its state   *)
(* (NacosClient).  The weights of a service are sums over its hosts, so    *)
(* the module starts with induction and with what sums of functions do.    *)
(***************************************************************************)
EXTENDS BalancerShares, NacosClient, DiscoveryProofs, FiniteSetTheorems,
        WellFoundedInduction

-----------------------------------------------------------------------------
LEMMA NatMin ==
  ASSUME NEW T, T \subseteq Nat, T # {}
  PROVE  \E n \in T : \A m \in T : ~ (m < n)
<1> DEFINE R == OpToRel(<, Nat)
<1>1. IsWellFoundedOn(R, Nat)
  BY NatLessThanWellFounded
<1> HIDE DEF R
<1>2. \E x \in T : \A y \in T : ~ (<<y, x>> \in R)
  BY <1>1, WFMin
<1>3. \A x, y \in Nat : y < x => <<y, x>> \in R
  BY DEF R, OpToRel
<1> QED BY <1>2, <1>3

LEMMA SetInduction ==
  ASSUME NEW T, 0 \in T, \A n \in Nat : n \in T => n + 1 \in T
  PROVE  \A n \in Nat : n \in T
<1> SUFFICES ASSUME Nat \ T # {} PROVE FALSE
  OBVIOUS
<1>1. PICK n \in Nat \ T : \A m \in Nat \ T : ~ (m < n)
  BY NatMin
<1>2. n # 0
  OBVIOUS
<1>3. n - 1 \in Nat /\ n - 1 < n /\ (n - 1) + 1 = n
  BY <1>2
<1> QED BY <1>1, <1>3

LEMMA SubsetSizes ==
  ASSUME NEW S, IsFiniteSet(S)
  PROVE  \A s \in SUBSET S :
           /\ IsFiniteSet(s) /\ Cardinality(s) \in Nat
           /\ Cardinality(s) = 0 <=> s = {}
           /\ \A x \in s : Cardinality(s \ {x}) = Cardinality(s) - 1
<1> TAKE s \in SUBSET S
<1>1. IsFiniteSet(s)
  BY FS_Subset
<1>2. Cardinality(s) \in Nat
  BY <1>1, FS_CardinalityType
<1>3. Cardinality(s) = 0 <=> s = {}
  BY <1>1, FS_EmptySet
<1>4. ASSUME NEW x \in s PROVE Cardinality(s \ {x}) = Cardinality(s) - 1
  BY <1>1, FS_RemoveElement, Zenon
<1> QED BY <1>1, <1>2, <1>3, <1>4

(* every finite set is in F if {} is and adding an element stays in F *)
LEMMA FiniteInduction ==
  ASSUME NEW S, IsFiniteSet(S), NEW F,
         {} \in F,
         \A s \in SUBSET S : \A x \in S \ s : s \in F => s \cup {x} \in F
  PROVE  S \in F
<1> DEFINE T == {n \in Nat : \A s \in SUBSET S : Cardinality(s) = n => s \in F}
<1>1. \A s \in SUBSET S :
        /\ Cardinality(s) \in Nat
        /\ Cardinality(s) = 0 <=> s = {}
        /\ \A x \in s : Cardinality(s \ {x}) = Cardinality(s) - 1
  BY SubsetSizes
<1>2. 0 \in T
  BY <1>1, FS_EmptySet
<1>3. ASSUME NEW n \in Nat, n \in T PROVE n + 1 \in T
  <2> SUFFICES ASSUME NEW s \in SUBSET S, Cardinality(s) = n + 1 PROVE s \in F
    OBVIOUS
  <2>1. s # {}
    BY <1>1
  <2>2. PICK x \in s : TRUE
    BY <2>1
  <2>3. Cardinality(s \ {x}) = n
    BY <1>1, <2>2
  <2>4. s \ {x} \in F
    BY <1>3, <2>3
  <2>5. s = (s \ {x}) \cup {x} /\ x \in S \ (s \ {x})
    BY <2>2
  <2> QED BY <2>4, <2>5
<1> HIDE DEF T
<1>4. \A n \in Nat : n \in T
  BY <1>1, <1>2, <1>3, SetInduction
<1> QED BY <1>1, <1>4 DEF T

SumStep(f, g, s) ==
  IF s = {} THEN 0 ELSE f[CHOOSE x \in s : TRUE] + g[s \ {CHOOSE x \in s : TRUE}]

LEMMA SumEquation ==
  ASSUME NEW S, IsFiniteSet(S), NEW f
  PROVE  \E g : /\ \A s \in SUBSET S : g[s] = SumStep(f, g, s)
                /\ SumFunctionOnSet(f, S) = g[S]
<1> DEFINE Solves(h) == h = [s \in SUBSET S |->
             IF s = {} THEN 0 ELSE f[CHOOSE x \in s : TRUE] + h[s \ {CHOOSE x \in s : TRUE}]]
           Holds(g, n) == /\ g = [s \in SUBSET S |-> g[s]]
                          /\ \A s \in SUBSET S : Cardinality(s) <= n => g[s] = SumStep(f, g, s)
           T == {n \in Nat : \E g : Holds(g, n)}
<1>1. \A s \in SUBSET S :
        /\ Cardinality(s) \in Nat
        /\ Cardinality(s) = 0 <=> s = {}
        /\ \A x \in s : Cardinality(s \ {x}) = Cardinality(s) - 1
  BY SubsetSizes
<1>2. 0 \in T
  <2> DEFINE g0 == [s \in SUBSET S |-> 0]
  <2>1. \A s \in SUBSET S : Cardinality(s) <= 0 => s = {}
    BY <1>1
  <2>2. Holds(g0, 0)
    BY <2>1 DEF SumStep
  <2> QED BY <2>2
<1>3. ASSUME NEW n \in Nat, n \in T PROVE n + 1 \in T
  <2>1. PICK g : Holds(g, n)
    BY <1>3
  <2> DEFINE h == [s \in SUBSET S |-> SumStep(f, g, s)]
  <2>2. ASSUME NEW s \in SUBSET S, Cardinality(s) <= n + 1
        PROVE  h[s] = SumStep(f, h, s)
    <3>1. CASE s = {}
      BY <3>1 DEF SumStep
    <3>2. CASE s # {}
      <4> DEFINE x == CHOOSE x \in s : TRUE
      <4>1. x \in s
        BY <3>2
      <4>2. s \ {x} \in SUBSET S /\ Cardinality(s \ {x}) <= n
        BY <1>1, <2>2, <4>1
      <4>3. g[s \ {x}] = SumStep(f, g, s \ {x})
        BY <2>1, <4>2
      <4>4. h[s \ {x}] = g[s \ {x}]
        BY <4>2, <4>3
      <4> QED BY <4>4 DEF SumStep
    <3> QED BY <3>1, <3>2
  <2>3. Holds(h, n + 1)
    BY <2>2
  <2> HIDE DEF h, Holds
  <2> QED BY <2>3
<1>4. \E h : Solves(h)
  <2> HIDE DEF T
  <2>1. Cardinality(S) \in T
    BY <1>1, <1>2, <1>3, SetInduction
  <2>2. PICK g : Holds(g, Cardinality(S))
    BY <2>1 DEF T
  <2>3. \A s \in SUBSET S : g[s] = SumStep(f, g, s)
    BY <1>1, <2>2, FS_Subset
  <2>4. g = [s \in SUBSET S |-> g[s]]
    BY <2>2
  <2>5. \A s \in SUBSET S : g[s] =
          IF s = {} THEN 0 ELSE f[CHOOSE x \in s : TRUE] + g[s \ {CHOOSE x \in s : TRUE}]
    BY <2>3 DEF SumStep
  <2>6. Solves(g)
    <3> HIDE DEF Holds
    <3> QED BY <2>4, <2>5, Zenon
  <2> HIDE DEF Solves
  <2> QED BY <2>6
<1> DEFINE g == CHOOSE h : Solves(h)
<1>5. SumFunctionOnSet(f, S) = g[S]
  BY Zenon DEF SumFunctionOnSet, FoldFunctionOnSet, MapThenFoldSet
<1>6. Solves(g)
  <2> HIDE DEF Solves
  <2> QED BY <1>4, Zenon
<1> HIDE DEF g
<1>7. \A s \in SUBSET S : g[s] = SumStep(f, g, s)
  BY <1>6 DEF SumStep
<1> QED BY <1>5, <1>7

LEMMA SumChosen ==
  ASSUME NEW S, IsFiniteSet(S), NEW f
  PROVE  /\ SumFunctionOnSet(f, {}) = 0
         /\ S # {} => SumFunctionOnSet(f, S) = f[CHOOSE x \in S : TRUE]
                        + SumFunctionOnSet(f, S \ {CHOOSE x \in S : TRUE})
<1>1. SumFunctionOnSet(f, {}) = 0
  BY SumEquation, FS_EmptySet DEF SumStep
<1>2. ASSUME S # {}
      PROVE  SumFunctionOnSet(f, S) = f[CHOOSE x \in S : TRUE]
               + SumFunctionOnSet(f, S \ {CHOOSE x \in S : TRUE})
  <2> DEFINE c == CHOOSE x \in S : TRUE
             T == S \ {c}
  <2>1. IsFiniteSet(T)
    BY FS_Subset
  <2>2. PICK g : (\A s \in SUBSET S : g[s] = SumStep(f, g, s)) /\ SumFunctionOnSet(f, S) = g[S]
    BY SumEquation
  <2>3. PICK h : (\A s \in SUBSET T : h[s] = SumStep(f, h, s)) /\ SumFunctionOnSet(f, T) = h[T]
    BY <2>1, SumEquation
  <2>4. \A s \in SUBSET T :
          /\ Cardinality(s) \in Nat
          /\ Cardinality(s) = 0 <=> s = {}
          /\ \A x \in s : Cardinality(s \ {x}) = Cardinality(s) - 1
    BY <2>1, SubsetSizes
  <2> DEFINE Agree == {n \in Nat : \A s \in SUBSET T : Cardinality(s) = n => g[s] = h[s]}
  <2>5. 0 \in Agree
    BY <2>2, <2>3, <2>4 DEF SumStep
  <2>6. ASSUME NEW n \in Nat, n \in Agree PROVE n + 1 \in Agree
    <3> SUFFICES ASSUME NEW s \in SUBSET T, Cardinality(s) = n + 1 PROVE g[s] = h[s]
      OBVIOUS
    <3> DEFINE x == CHOOSE x \in s : TRUE
    <3>1. s # {} /\ x \in s
      BY <2>4
    <3>2. g[s \ {x}] = h[s \ {x}]
      BY <2>4, <2>6, <3>1
    <3> QED BY <2>2, <2>3, <3>1, <3>2 DEF SumStep
  <2> HIDE DEF Agree
  <2>7. \A n \in Nat : n \in Agree
    BY <2>5, <2>6, SetInduction
  <2>8. g[T] = h[T]
    BY <2>4, <2>7 DEF Agree
  <2>9. g[S] = f[c] + g[T]
    <3>1. g[S] = SumStep(f, g, S)
      BY <2>2
    <3> QED BY <1>2, <3>1 DEF SumStep
  <2> QED BY <2>2, <2>3, <2>8, <2>9
<1> QED BY <1>1, <1>2

LEMMA SumRemove ==
  ASSUME NEW S, IsFiniteSet(S), NEW f, \A x \in S : f[x] \in Int
  PROVE  /\ SumFunctionOnSet(f, S) \in Int
         /\ \A x \in S : SumFunctionOnSet(f, S) = f[x] + SumFunctionOnSet(f, S \ {x})
<1> DEFINE Sum(s) == SumFunctionOnSet(f, s)
           c(s) == CHOOSE x \in s : TRUE
           Good == {n \in Nat : \A s \in SUBSET S : Cardinality(s) <= n =>
                      Sum(s) \in Int /\ \A x \in s : Sum(s) = f[x] + Sum(s \ {x})}
<1>1. \A s \in SUBSET S :
        /\ IsFiniteSet(s)
        /\ Cardinality(s) \in Nat
        /\ Cardinality(s) = 0 <=> s = {}
        /\ \A x \in s : Cardinality(s \ {x}) = Cardinality(s) - 1
  BY SubsetSizes
<1>2. Sum({}) = 0 /\ \A s \in SUBSET S : s # {} => c(s) \in s /\ Sum(s) = f[c(s)] + Sum(s \ {c(s)})
  <2>1. \A s \in SUBSET S : s # {} => Sum(s) = f[c(s)] + Sum(s \ {c(s)})
    BY <1>1, SumChosen
  <2> HIDE DEF Sum
  <2>2. \A s : s # {} => c(s) \in s
    OBVIOUS
  <2>3. Sum({}) = 0
    BY FS_EmptySet, SumChosen DEF Sum
  <2> QED BY <2>1, <2>2, <2>3
<1> HIDE DEF Sum, c
<1>3. 0 \in Good
  BY <1>1, <1>2
<1>4. ASSUME NEW n \in Nat, n \in Good PROVE n + 1 \in Good
  <2> SUFFICES ASSUME NEW s \in SUBSET S, Cardinality(s) <= n + 1
               PROVE  Sum(s) \in Int /\ \A x \in s : Sum(s) = f[x] + Sum(s \ {x})
    OBVIOUS
  <2>0. CASE s = {}
    BY <1>2, <2>0
  <2> SUFFICES ASSUME s # {} PROVE Sum(s) \in Int /\ \A x \in s : Sum(s) = f[x] + Sum(s \ {x})
    BY <2>0
  <2>1. c(s) \in s /\ Sum(s) = f[c(s)] + Sum(s \ {c(s)})
    BY <1>2
  <2>2. ASSUME NEW x \in s
        PROVE  Sum(s \ {x}) \in Int /\ \A y \in s \ {x} : Sum(s \ {x}) = f[y] + Sum((s \ {x}) \ {y})
    <3>1. Cardinality(s \ {x}) <= n
      BY <1>1
    <3> QED BY <1>4, <3>1
  <2>3. Sum(s) \in Int
    BY <2>1, <2>2
  <2>4. ASSUME NEW x \in s PROVE Sum(s) = f[x] + Sum(s \ {x})
    <3>1. CASE x = c(s)
      BY <2>1, <3>1
    <3>2. CASE x # c(s)
      <4> DEFINE y == c(s)
                 r == Sum((s \ {x}) \ {y})
      <4>1. (s \ {x}) \ {y} = (s \ {y}) \ {x}
        OBVIOUS
      <4>2. Sum(s \ {x}) = f[y] + r
        BY <2>1, <2>2, <3>2
      <4>3. Sum(s \ {y}) = f[x] + r
        BY <2>1, <2>2, <3>2, <4>1
      <4>4. f[x] \in Int /\ f[y] \in Int /\ Sum(s \ {x}) \in Int /\ Sum(s \ {y}) \in Int
        BY <2>1, <2>2
      <4>5. r \in Int
        <5>1. Cardinality(s \ {x}) \in Nat /\ Cardinality(s \ {x}) <= n /\ y \in s \ {x}
          BY <1>1, <2>1, <3>2
        <5>2. Cardinality((s \ {x}) \ {y}) <= n
          <6>1. s \ {x} \in SUBSET S
            OBVIOUS
          <6>2. Cardinality((s \ {x}) \ {y}) = Cardinality(s \ {x}) - 1
            BY <1>1, <5>1, <6>1
          <6> QED BY <5>1, <6>2
        <5> QED BY <1>4, <5>2
      <4> HIDE DEF r
      <4> QED BY <2>1, <4>2, <4>3, <4>4, <4>5
    <3> QED BY <3>1, <3>2
  <2> QED BY <2>3, <2>4
<1> HIDE DEF Good
<1>5. Cardinality(S) \in Good
  BY <1>1, <1>3, <1>4, SetInduction
<1> QED BY <1>1, <1>5 DEF Good, Sum

LEMMA SumInsert ==
  ASSUME NEW S, IsFiniteSet(S), NEW f, \A x \in S : f[x] \in Int,
         NEW s \in SUBSET S
  PROVE  /\ SumFunctionOnSet(f, {}) = 0
         /\ SumFunctionOnSet(f, s) \in Int
         /\ \A x \in S \ s : SumFunctionOnSet(f, s \cup {x}) = SumFunctionOnSet(f, s) + f[x]
         /\ \A x \in s : SumFunctionOnSet(f, s) = f[x] + SumFunctionOnSet(f, s \ {x})
<1>1. \A t \in SUBSET S : IsFiniteSet(t)
  BY FS_Subset
<1>2. SumFunctionOnSet(f, {}) = 0
  BY SumChosen, FS_EmptySet
<1>3. \A t \in SUBSET S :
        /\ SumFunctionOnSet(f, t) \in Int
        /\ \A x \in t : SumFunctionOnSet(f, t) = f[x] + SumFunctionOnSet(f, t \ {x})
  BY <1>1, SumRemove
<1>4. ASSUME NEW x \in S \ s
      PROVE  SumFunctionOnSet(f, s \cup {x}) = SumFunctionOnSet(f, s) + f[x]
  <2>1. (s \cup {x}) \ {x} = s /\ s \cup {x} \in SUBSET S
    OBVIOUS
  <2> QED BY <1>3, <2>1
<1> QED BY <1>2, <1>3, <1>4

LEMMA SumPlus ==
  ASSUME NEW S, IsFiniteSet(S), NEW f, NEW g, NEW h,
         \A x \in S : f[x] \in Int /\ g[x] \in Int /\ h[x] = f[x] + g[x]
  PROVE  SumFunctionOnSet(h, S) = SumFunctionOnSet(f, S) + SumFunctionOnSet(g, S)
<1> DEFINE F == {s \in SUBSET S :
             SumFunctionOnSet(h, s) = SumFunctionOnSet(f, s) + SumFunctionOnSet(g, s)}
<1>1. {} \in F
  BY SumInsert
<1>2. ASSUME NEW s \in SUBSET S, NEW x \in S \ s, s \in F PROVE s \cup {x} \in F
  <2>1. /\ SumFunctionOnSet(f, s) \in Int
        /\ SumFunctionOnSet(f, s \cup {x}) = SumFunctionOnSet(f, s) + f[x]
    BY SumInsert
  <2>2. /\ SumFunctionOnSet(g, s) \in Int
        /\ SumFunctionOnSet(g, s \cup {x}) = SumFunctionOnSet(g, s) + g[x]
    BY SumInsert
  <2>3. SumFunctionOnSet(h, s \cup {x}) = SumFunctionOnSet(h, s) + h[x]
    BY SumInsert
  <2> QED BY <1>2, <2>1, <2>2, <2>3
<1> HIDE DEF F
<1> QED BY <1>1, <1>2, FiniteInduction DEF F

LEMMA SumSame ==
  ASSUME NEW S, IsFiniteSet(S), NEW f, NEW g,
         \A x \in S : f[x] \in Int /\ g[x] = f[x]
  PROVE  SumFunctionOnSet(g, S) = SumFunctionOnSet(f, S)
<1> DEFINE z == [x \in S |-> 0]
           F == {s \in SUBSET S : SumFunctionOnSet(g, s) = SumFunctionOnSet(f, s)}
<1>1. {} \in F
  BY SumInsert
<1>2. ASSUME NEW s \in SUBSET S, NEW x \in S \ s, s \in F PROVE s \cup {x} \in F
  <2>1. SumFunctionOnSet(f, s \cup {x}) = SumFunctionOnSet(f, s) + f[x]
    BY SumInsert
  <2>2. SumFunctionOnSet(g, s \cup {x}) = SumFunctionOnSet(g, s) + g[x]
    BY SumInsert
  <2> QED BY <1>2, <2>1, <2>2
<1> HIDE DEF F
<1> QED BY <1>1, <1>2, FiniteInduction DEF F

LEMMA SumBounds ==
  ASSUME NEW S, IsFiniteSet(S), NEW f, NEW c \in Int, \A x \in S : f[x] \in Int
  PROVE  /\ (\A x \in S : c <= f[x]) => c * Cardinality(S) <= SumFunctionOnSet(f, S)
         /\ (\A x \in S : f[x] <= c) => SumFunctionOnSet(f, S) <= c * Cardinality(S)
<1> DEFINE F == {s \in SUBSET S :
             /\ (\A x \in s : c <= f[x]) => c * Cardinality(s) <= SumFunctionOnSet(f, s)
             /\ (\A x \in s : f[x] <= c) => SumFunctionOnSet(f, s) <= c * Cardinality(s)}
<1>1. {} \in F
  BY SumInsert, FS_EmptySet
<1>2. ASSUME NEW s \in SUBSET S, NEW x \in S \ s, s \in F PROVE s \cup {x} \in F
  <2>1. /\ SumFunctionOnSet(f, s) \in Int
        /\ SumFunctionOnSet(f, s \cup {x}) = SumFunctionOnSet(f, s) + f[x]
    BY SumInsert
  <2>2. Cardinality(s) \in Nat /\ Cardinality(s \cup {x}) = Cardinality(s) + 1
    <3>1. IsFiniteSet(s)
      BY FS_Subset
    <3> QED BY <3>1, FS_CardinalityType, FS_AddElement
  <2>3. c * (Cardinality(s) + 1) = c * Cardinality(s) + c /\ c * Cardinality(s) \in Int
    BY <2>2
  <2> QED BY <1>2, <2>1, <2>2, <2>3
<1> HIDE DEF F
<1> QED BY <1>1, <1>2, FiniteInduction DEF F

LEMMA SumZeros ==
  ASSUME NEW S, IsFiniteSet(S), NEW f, \A x \in S : f[x] = 0
  PROVE  SumFunctionOnSet(f, S) = 0
<1>1. /\ 0 * Cardinality(S) <= SumFunctionOnSet(f, S)
      /\ SumFunctionOnSet(f, S) <= 0 * Cardinality(S)
  BY SumBounds
<1>2. SumFunctionOnSet(f, S) \in Int
  BY SumInsert
<1>3. 0 * Cardinality(S) = 0
  BY FS_CardinalityType
<1> QED BY <1>1, <1>2, <1>3

LEMMA SumUpdate ==
  ASSUME NEW S, IsFiniteSet(S), NEW f, NEW g, NEW x \in S,
         \A y \in S : f[y] \in Int /\ g[y] \in Int,
         \A y \in S \ {x} : g[y] = f[y]
  PROVE  SumFunctionOnSet(g, S) = SumFunctionOnSet(f, S) - f[x] + g[x]
<1> DEFINE s == S \ {x}
<1>1. SumFunctionOnSet(g, s) = SumFunctionOnSet(f, s)
  <2>1. IsFiniteSet(s)
    BY FS_Subset
  <2> QED BY <2>1, SumSame
<1>2. SumFunctionOnSet(f, S) = f[x] + SumFunctionOnSet(f, s) /\ SumFunctionOnSet(f, s) \in Int
  BY SumInsert
<1>3. SumFunctionOnSet(g, S) = g[x] + SumFunctionOnSet(g, s)
  BY SumInsert
<1> QED BY <1>1, <1>2, <1>3

(* an injection carries a sum over to the functions that vanish off its image *)
LEMMA SumImage ==
  ASSUME NEW S, IsFiniteSet(S), NEW T, IsFiniteSet(T),
         NEW f \in [S -> Int], NEW g \in [T -> Int], NEW p \in [S -> T],
         \A x, y \in S : p[x] = p[y] => x = y,
         \A x \in S : g[p[x]] = f[x],
         \A y \in T : (\A x \in S : p[x] # y) => g[y] = 0
  PROVE  SumFunctionOnSet(g, T) = SumFunctionOnSet(f, S)
<1> DEFINE On(s) == [y \in T |-> IF \E x \in s : p[x] = y THEN g[y] ELSE 0]
           F == {s \in SUBSET S : SumFunctionOnSet(On(s), T) = SumFunctionOnSet(f, s)}
<1>1. {} \in F
  <2>1. \A y \in T : On({})[y] = 0
    OBVIOUS
  <2>2. SumFunctionOnSet(On({}), T) = 0
    BY <2>1, SumZeros
  <2>3. SumFunctionOnSet(f, {}) = 0
    BY SumInsert
  <2> QED BY <2>2, <2>3
<1>2. ASSUME NEW s \in SUBSET S, NEW x \in S \ s, s \in F PROVE s \cup {x} \in F
  <2>1. /\ On(s)[p[x]] = 0 /\ On(s \cup {x})[p[x]] = f[x]
        /\ \A y \in T \ {p[x]} : On(s \cup {x})[y] = On(s)[y]
        /\ \A y \in T : On(s)[y] \in Int /\ On(s \cup {x})[y] \in Int
    OBVIOUS
  <2>2. p[x] \in T /\ f[x] \in Int
    OBVIOUS
  <2>3. SumFunctionOnSet(On(s \cup {x}), T) = SumFunctionOnSet(On(s), T) + f[x]
    <3> HIDE DEF On, F
    <3>1. SumFunctionOnSet(On(s), T) \in Int
      BY <2>1, SumInsert
    <3>2. SumFunctionOnSet(On(s \cup {x}), T)
            = SumFunctionOnSet(On(s), T) - On(s)[p[x]] + On(s \cup {x})[p[x]]
      <4>1. \A a, b : /\ \A y \in T : a[y] \in Int /\ b[y] \in Int
                      /\ \A y \in T \ {p[x]} : b[y] = a[y]
                      => SumFunctionOnSet(b, T) = SumFunctionOnSet(a, T) - a[p[x]] + b[p[x]]
        BY <2>2, SumUpdate
      <4> QED BY <2>1, <4>1
    <3> QED BY <2>1, <2>2, <3>1, <3>2
  <2>4. SumFunctionOnSet(f, s \cup {x}) = SumFunctionOnSet(f, s) + f[x]
    BY SumInsert
  <2> HIDE DEF On
  <2> QED BY <1>2, <2>3, <2>4
<1>3. S \in F
  <2> HIDE DEF F
  <2> QED BY <1>1, <1>2, FiniteInduction
<1>4. On(S) = g
  OBVIOUS
<1> HIDE DEF On
<1> QED BY <1>3, <1>4

-----------------------------------------------------------------------------
(* A list names each of its hosts once, with one weight.                    *)
LEMMA ListFacts ==
  ASSUME NEW l \in Lists
  PROVE  /\ Len(l) \in Nat \ {0} /\ DOMAIN l = 1..Len(l)
         /\ Period % Len(l) = 0
         /\ \A i \in DOMAIN l :
              /\ l[i].host \in Hosts /\ l[i].weight \in Nat
              /\ l[i].host \in HostsOf(l)
              /\ WeightIn(l, l[i].host) = l[i].weight
         /\ \A i, j \in DOMAIN l : l[i].host = l[j].host => i = j
         /\ HostsOf(l) \subseteq Hosts
         /\ \A h \in HostsOf(l) : \E i \in DOMAIN l : h = l[i].host
<1>1. /\ l \in Seq([host : Hosts, weight : Nat]) /\ l # <<>>
      /\ \A i, j \in DOMAIN l : l[i].host = l[j].host => i = j
      /\ Period % Len(l) = 0
  BY BalancerAssumption
<1>2. Len(l) \in Nat \ {0} /\ DOMAIN l = 1..Len(l)
  <2>1. \E S : l \in Seq(S)
    BY <1>1
  <2>2. Len(l) \in Nat /\ DOMAIN l = 1..Len(l)
    BY <2>1
  <2>3. Len(l) # 0
    BY <1>1, <2>1
  <2> QED BY <2>2, <2>3
<1>3. \A i \in DOMAIN l : l[i].host \in Hosts /\ l[i].weight \in Nat
  <2> DEFINE S == [host : Hosts, weight : Nat]
  <2>1. \A x \in S : x.host \in Hosts /\ x.weight \in Nat
    OBVIOUS
  <2>2. \A i \in DOMAIN l : l[i] \in S
    <3> HIDE DEF S
    <3>1. l \in Seq(S)
      BY <1>1 DEF S
    <3> QED BY <1>2, <3>1
  <2> QED BY <2>1, <2>2
<1>4. \A i \in DOMAIN l : WeightIn(l, l[i].host) = l[i].weight
  <2> TAKE i \in DOMAIN l
  <2> DEFINE k == CHOOSE j \in DOMAIN l : l[j].host = l[i].host
  <2>1. k \in DOMAIN l /\ l[k].host = l[i].host
    OBVIOUS
  <2>2. k = i
    BY <1>1, <2>1
  <2> QED BY <2>2 DEF WeightIn
<1> QED BY <1>1, <1>2, <1>3, <1>4 DEF HostsOf

LEMMA WeightIsNat ==
  ASSUME NEW l \in Lists, NEW h \in HostsOf(l)
  PROVE  WeightIn(l, h) \in Nat /\ h \in Hosts
<1>1. PICK i \in DOMAIN l : h = l[i].host
  BY ListFacts
<1> QED BY <1>1, ListFacts

LEMMA TotalIsNat ==
  ASSUME NEW l \in Lists
  PROVE  TotalWeight(l) \in Nat
<1> DEFINE f == [i \in DOMAIN l |-> l[i].weight]
<1>1. IsFiniteSet(DOMAIN l) /\ \A i \in DOMAIN l : f[i] \in Int /\ 0 <= f[i]
  BY ListFacts, FS_Interval
<1>2. TotalWeight(l) = SumFunctionOnSet(f, DOMAIN l)
  BY DEF TotalWeight, SumFunction
<1> HIDE DEF f
<1>3. SumFunctionOnSet(f, DOMAIN l) \in Int
  BY <1>1, SumInsert
<1>4. 0 * Cardinality(DOMAIN l) <= SumFunctionOnSet(f, DOMAIN l)
  BY <1>1, SumBounds
<1>5. 0 * Cardinality(DOMAIN l) = 0
  BY <1>1, FS_CardinalityType
<1> QED BY <1>2, <1>3, <1>4, <1>5

(* When each host of a list gains its weight, all gain the total.           *)
Gain(l) == [h \in Hosts |-> IF h \in HostsOf(l) THEN WeightIn(l, h) ELSE 0]

LEMMA GainIsTotal ==
  ASSUME NEW l \in Lists
  PROVE  /\ \A h \in Hosts : Gain(l)[h] \in Nat
         /\ SumFunctionOnSet(Gain(l), Hosts) = TotalWeight(l)
<1> DEFINE f == [i \in DOMAIN l |-> l[i].weight]
           p == [i \in DOMAIN l |-> l[i].host]
<1>1. IsFiniteSet(DOMAIN l) /\ IsFiniteSet(Hosts)
  BY ListFacts, FS_Interval, BalancerAssumption
<1>2. \A h \in Hosts : Gain(l)[h] \in Nat
  BY ListFacts DEF Gain
<1>3. Gain(l) \in [Hosts -> Int] /\ f \in [DOMAIN l -> Int] /\ p \in [DOMAIN l -> Hosts]
  BY <1>2, ListFacts DEF Gain
<1>4. /\ \A i, j \in DOMAIN l : p[i] = p[j] => i = j
      /\ \A i \in DOMAIN l : Gain(l)[p[i]] = f[i]
      /\ \A h \in Hosts : (\A i \in DOMAIN l : p[i] # h) => Gain(l)[h] = 0
  BY ListFacts DEF Gain
<1>5. TotalWeight(l) = SumFunctionOnSet(f, DOMAIN l)
  BY DEF TotalWeight, SumFunction
<1> HIDE DEF f, p
<1> QED BY <1>1, <1>2, <1>3, <1>4, <1>5, SumImage

LEMMA WeightSums ==
  ASSUME NEW w, \A h \in Hosts : w[h] \in Int
  PROVE  SumFunctionOnSet(w, Hosts) \in Int
BY SumInsert, BalancerAssumption

LEMMA RaisedSum ==
  ASSUME BalancerTypeOK, NEW g \in Goroutines
  PROVE  /\ Raised(g) \in [Hosts -> Int]
         /\ SumFunction(Raised(g)) = SumFunction(localWeights[g]) + TotalWeight(list[g])
<1> DEFINE w == localWeights[g]
           l == list[g]
<1>1. w \in [Hosts -> Int] /\ l \in Lists
  BY DEF BalancerTypeOK
<1>2. Raised(g) = [h \in Hosts |-> w[h] + Gain(l)[h]]
  BY DEF Raised, Gain
<1>3. \A h \in Hosts : w[h] \in Int /\ Gain(l)[h] \in Int /\ Raised(g)[h] = w[h] + Gain(l)[h]
  BY <1>1, <1>2, GainIsTotal
<1>4. SumFunctionOnSet(Raised(g), Hosts) = SumFunctionOnSet(w, Hosts) + SumFunctionOnSet(Gain(l), Hosts)
  BY <1>3, SumPlus, BalancerAssumption
<1> QED BY <1>1, <1>2, <1>3, <1>4, GainIsTotal DEF SumFunction

(* Paying the total brings the sum back to what it was.                     *)
LEMMA PaidSum ==
  ASSUME NEW w, NEW u, NEW h \in Hosts, NEW v \in Int,
         \A k \in Hosts : w[k] \in Int /\ u[k] \in Int,
         u[h] = w[h] - v, \A k \in Hosts \ {h} : u[k] = w[k]
  PROVE  SumFunctionOnSet(u, Hosts) = SumFunctionOnSet(w, Hosts) - v
<1>1. SumFunctionOnSet(u, Hosts) = SumFunctionOnSet(w, Hosts) - w[h] + u[h]
  <2>1. IsFiniteSet(Hosts)
    BY BalancerAssumption
  <2>2. \A k \in Hosts \ {h} : u[k] = w[k]
    OBVIOUS
  <2> HIDE DEF NoCounter
  <2> QED BY <2>1, <2>2, SumUpdate
<1>2. SumFunctionOnSet(w, Hosts) \in Int
  BY WeightSums
<1> QED BY <1>1, <1>2

LEMMA NoWeightsSum ==
  /\ NoWeights \in [Hosts -> Int]
  /\ SumFunction(NoWeights) = 0
<1>1. NoWeights \in [Hosts -> Int] /\ \A h \in Hosts : NoWeights[h] = 0
  BY DEF NoWeights
<1>2. SumFunctionOnSet(NoWeights, Hosts) = 0
  BY <1>1, SumZeros, BalancerAssumption
<1> QED BY <1>1, <1>2 DEF SumFunction

-----------------------------------------------------------------------------
(* What happens to the balancing state, in either specification.            *)
BalancerStep ==
  \/ \E s \in Services : ResetBalance(s) \/ StartBalance(s) \/ DropBalance(s)
  \/ \E g \in Goroutines, s \in Services, l \in Lists :
       \/ Begin(g, s, l)
       \/ \E h \in Hosts : Random(g, s, l, h)
  \/ \E g \in Goroutines, h \in Hosts : Pick(g, h)
  \/ UNCHANGED balancerVars

(* The three steps of the discovery start the service's weights afresh.     *)
LEMMA FreshWeights ==
  ASSUME BalancerTypeOK, NEW s \in Services,
         ResetBalance(s) \/ StartBalance(s) \/ DropBalance(s)
  PROVE  /\ BalancerTypeOK'
         /\ currentWeights' = [currentWeights EXCEPT ![s] = NoWeights]
         /\ UNCHANGED <<loadBalanceType, at, service, list, localWeights>>
<1> USE DEF BalancerTypeOK, localVars
<1>1. NoWeights \in [Hosts -> Int] /\ NoCounter = -1
  BY NoWeightsSum DEF NoCounter
<1>2. /\ currentWeights' = [currentWeights EXCEPT ![s] = NoWeights]
      /\ UNCHANGED <<loadBalanceType, at, service, list, localWeights>>
  BY DEF ResetBalance, StartBalance, DropBalance
<1>3. roundRobinCounters' \in [Services -> Nat \cup {NoCounter}]
  BY <1>1 DEF ResetBalance, StartBalance, DropBalance
<1>4. orphan' \in [Goroutines -> BOOLEAN]
  BY DEF ResetBalance, StartBalance, DropBalance
<1> QED BY <1>1, <1>2, <1>3, <1>4

LEMMA BeginType ==
  ASSUME BalancerTypeOK, NEW g \in Goroutines, NEW s \in Services, NEW l \in Lists,
         Begin(g, s, l)
  PROVE  BalancerTypeOK'
<1> USE DEF BalancerTypeOK
<1>1. /\ service' \in [Goroutines -> Services] /\ list' \in [Goroutines -> Lists]
      /\ at' \in [Goroutines -> {"idle", "weigh", "add"}]
      /\ loadBalanceType' \in Strategies
  BY DEF Begin
<1>2. /\ localWeights' \in [Goroutines -> [Hosts -> Int]]
      /\ currentWeights' \in [Services -> [Hosts -> Int]]
  BY DEF Begin
<1>3. roundRobinCounters' \in [Services -> Nat \cup {NoCounter}]
  <2>1. \/ UNCHANGED roundRobinCounters
        \/ roundRobinCounters' = [roundRobinCounters EXCEPT ![s] = IF @ = NoCounter THEN 0 ELSE @]
    BY DEF Begin
  <2> QED BY <2>1
<1>4. orphan' \in [Goroutines -> BOOLEAN]
  BY DEF Begin
<1> QED BY <1>1, <1>2, <1>3, <1>4

(* A selection is among the hosts of the list.                              *)
LEMMA SelectedFromList ==
  ASSUME BalancerTypeOK, NEW g \in Goroutines, NEW h, h \in Selected(Raised(g), list[g])
  PROVE  h \in HostsOf(list[g]) /\ h \in Hosts
<1>1. list[g] \in Lists
  BY DEF BalancerTypeOK
<1> QED BY <1>1, ListFacts DEF Selected

(* A pick by weight either writes the service's weights or leaves them.     *)
LEMMA WeighWrites ==
  ASSUME BalancerTypeOK, NEW g \in Goroutines, NEW h \in Hosts, Weigh(g, h)
  PROVE  /\ BalancerTypeOK'
         /\ at[g] = "weigh"
         /\ \/ /\ h \in Selected(Raised(g), list[g])
               /\ currentWeights' = [currentWeights EXCEPT ![service[g]] =
                    [Raised(g) EXCEPT ![h] = @ - TotalWeight(list[g])]]
            \/ /\ Selected(Raised(g), list[g]) = {}
               /\ UNCHANGED currentWeights
         /\ at' = [at EXCEPT ![g] = "idle"]
         /\ localWeights' = [localWeights EXCEPT ![g] = NoWeights]
         /\ orphan' = [orphan EXCEPT ![g] = FALSE]
         /\ UNCHANGED <<service, list, loadBalanceType, roundRobinCounters>>
<1>1. /\ at[g] = "weigh"
      /\ \/ /\ h \in Selected(Raised(g), list[g])
            /\ currentWeights' = [currentWeights EXCEPT ![service[g]] =
                 [Raised(g) EXCEPT ![h] = @ - TotalWeight(list[g])]]
         \/ /\ Selected(Raised(g), list[g]) = {}
            /\ UNCHANGED currentWeights
      /\ at' = [at EXCEPT ![g] = "idle"]
      /\ localWeights' = [localWeights EXCEPT ![g] = NoWeights]
      /\ orphan' = [orphan EXCEPT ![g] = FALSE]
      /\ UNCHANGED <<service, list, loadBalanceType, roundRobinCounters>>
  BY DEF Weigh, Finish
<1>2. [Raised(g) EXCEPT ![h] = @ - TotalWeight(list[g])] \in [Hosts -> Int]
  <2>1. Raised(g) \in [Hosts -> Int] /\ TotalWeight(list[g]) \in Int
    BY RaisedSum, TotalIsNat DEF BalancerTypeOK
  <2> QED BY <2>1
<1>3. currentWeights' \in [Services -> [Hosts -> Int]]
  BY <1>1, <1>2 DEF BalancerTypeOK
<1>4. BalancerTypeOK'
  BY <1>1, <1>3, NoWeightsSum DEF BalancerTypeOK
<1> QED BY <1>1, <1>4

LEMMA AddType ==
  ASSUME BalancerTypeOK, NEW g \in Goroutines, NEW h \in Hosts, Add(g, h)
  PROVE  /\ BalancerTypeOK'
         /\ UNCHANGED <<currentWeights, loadBalanceType, service, list>>
         /\ at' = [at EXCEPT ![g] = "idle"]
         /\ localWeights' = [localWeights EXCEPT ![g] = NoWeights]
         /\ orphan' = [orphan EXCEPT ![g] = FALSE]
<1> USE DEF BalancerTypeOK
<1>1. /\ UNCHANGED <<currentWeights, loadBalanceType, service, list>>
      /\ at' = [at EXCEPT ![g] = "idle"]
      /\ localWeights' = [localWeights EXCEPT ![g] = NoWeights]
      /\ orphan' = [orphan EXCEPT ![g] = FALSE]
  BY DEF Add, Finish
<1>2. CASE orphan[g]
  <2>1. roundRobinCounters' = roundRobinCounters
    BY <1>2 DEF Add
  <2> QED BY <1>1, <2>1, NoWeightsSum
<1>3. CASE ~orphan[g]
  <2> DEFINE n == roundRobinCounters[service[g]]
  <2>1. n + 1 \in Nat
    BY DEF NoCounter
  <2>2. (n + 1) % Period \in Nat
    <3>1. Period \in Nat \ {0}
      BY BalancerAssumption
    <3> QED BY <2>1, <3>1
  <2>3. roundRobinCounters' = [roundRobinCounters EXCEPT ![service[g]] = (n + 1) % Period]
    BY <1>3 DEF Add
  <2>4. roundRobinCounters' \in [Services -> Nat \cup {NoCounter}]
    BY <2>2, <2>3
  <2> QED BY <1>1, <2>4, NoWeightsSum
<1> QED BY <1>2, <1>3

(* Every step keeps the types, and every write of weights is balanced.      *)
LEMMA StepBalanced ==
  ASSUME BalancedInv, BalancerStep
  PROVE  BalancedInv'
<1> USE DEF BalancedInv
<1>1. ASSUME NEW s \in Services, ResetBalance(s) \/ StartBalance(s) \/ DropBalance(s)
      PROVE  BalancedInv'
  BY <1>1, FreshWeights, NoWeightsSum DEF WeightsBalanced, BalancerTypeOK
<1>2. ASSUME NEW g \in Goroutines, NEW s \in Services, NEW l \in Lists, Begin(g, s, l)
      PROVE  BalancedInv'
  <2>1. BalancerTypeOK'
    BY <1>2, BeginType
  <2>2. WeightsBalanced'
    BY <1>2 DEF Begin, WeightsBalanced
  <2>3. ASSUME NEW k \in Goroutines, at'[k] = "weigh"
        PROVE  SumFunction(localWeights'[k]) = 0
    BY <1>2, <2>3 DEF Begin, WeightsBalanced, BalancerTypeOK
  <2> QED BY <2>1, <2>2, <2>3
<1>3. ASSUME NEW g \in Goroutines, NEW s \in Services, NEW l \in Lists, NEW h \in Hosts,
             Random(g, s, l, h)
      PROVE  BalancedInv'
  BY <1>3 DEF Random, sharedVars, WeightsBalanced, BalancerTypeOK
<1>4. ASSUME NEW g \in Goroutines, NEW h \in Hosts, Weigh(g, h)
      PROVE  BalancedInv'
  <2> DEFINE t == TotalWeight(list[g])
             u == [Raised(g) EXCEPT ![h] = @ - t]
  <2>1. SumFunction(localWeights[g]) = 0 /\ t \in Int /\ Raised(g) \in [Hosts -> Int]
    BY <1>4, WeighWrites, TotalIsNat, RaisedSum DEF BalancerTypeOK
  <2>2. /\ u \in [Hosts -> Int] /\ DOMAIN u = Hosts /\ DOMAIN Raised(g) = Hosts
        /\ \A k \in Hosts : Raised(g)[k] \in Int /\ u[k] \in Int
        /\ u[h] = Raised(g)[h] - t /\ \A k \in Hosts \ {h} : u[k] = Raised(g)[k]
    BY <2>1
  <2>3. \/ UNCHANGED currentWeights
        \/ currentWeights' = [currentWeights EXCEPT ![service[g]] = u]
    BY <1>4, WeighWrites
  <2> HIDE DEF u
  <2>4. SumFunction(u) = 0
    <3>1. SumFunction(Raised(g)) = t
      BY <2>1, RaisedSum
    <3> HIDE DEF t
    <3>2. SumFunctionOnSet(u, Hosts) = SumFunctionOnSet(Raised(g), Hosts) - t
      BY <2>1, <2>2, PaidSum
    <3> QED BY <2>1, <2>2, <3>1, <3>2 DEF SumFunction
  <2>5. WeightsBalanced'
    BY <2>3, <2>4 DEF WeightsBalanced, BalancerTypeOK
  <2> QED BY <1>4, <2>5, WeighWrites DEF BalancerTypeOK
<1>5. ASSUME NEW g \in Goroutines, NEW h \in Hosts, Add(g, h)
      PROVE  BalancedInv'
  BY <1>5, AddType DEF WeightsBalanced, BalancerTypeOK
<1>6. CASE UNCHANGED balancerVars
  BY <1>6 DEF balancerVars, sharedVars, localVars, WeightsBalanced, BalancerTypeOK
<1> QED BY <1>1, <1>2, <1>3, <1>4, <1>5, <1>6 DEF BalancerStep, Pick

-----------------------------------------------------------------------------
(* What the scan of a weighted selection finds.                             *)

\* Of the first n hosts of a list, there is a first heaviest one.
LEMMA FirstHeaviest ==
  ASSUME NEW l \in Lists, NEW w, \A h \in Hosts : w[h] \in Int
  PROVE  \E k \in DOMAIN l :
           /\ \A j \in DOMAIN l : w[l[j].host] <= w[l[k].host]
           /\ \A j \in 1..(k - 1) : w[l[j].host] < w[l[k].host]
<1> DEFINE x(i) == w[l[i].host]
           T == {n \in Nat : n + 1 \in DOMAIN l =>
                   \E k \in 1..(n + 1) : /\ \A j \in 1..(n + 1) : x(j) <= x(k)
                                         /\ \A j \in 1..(k - 1) : x(j) < x(k)}
<1>1. /\ DOMAIN l = 1..Len(l) /\ Len(l) \in Nat /\ Len(l) >= 1
      /\ \A i \in DOMAIN l : x(i) \in Int
  BY ListFacts
<1> HIDE DEF x
<1>2. 0 \in T
  BY <1>1
<1>3. ASSUME NEW n \in Nat, n \in T PROVE n + 1 \in T
  <2> SUFFICES ASSUME n + 2 \in DOMAIN l
               PROVE  \E k \in 1..(n + 2) : /\ \A j \in 1..(n + 2) : x(j) <= x(k)
                                            /\ \A j \in 1..(k - 1) : x(j) < x(k)
    OBVIOUS
  <2>1. PICK k \in 1..(n + 1) : /\ \A j \in 1..(n + 1) : x(j) <= x(k)
                                /\ \A j \in 1..(k - 1) : x(j) < x(k)
    BY <1>1, <1>3
  <2>2. x(k) \in Int /\ x(n + 2) \in Int /\ \A j \in 1..(n + 1) : x(j) \in Int
    BY <1>1
  <2>3. CASE x(n + 2) <= x(k)
    <3>1. \A j \in 1..(n + 2) : x(j) <= x(k)
      BY <2>1, <2>3
    <3> QED BY <2>1, <3>1
  <2>4. CASE x(k) < x(n + 2)
    <3>1. \A j \in 1..(n + 1) : x(j) < x(n + 2)
      BY <2>1, <2>2, <2>4
    <3>2. \A j \in 1..(n + 2) : x(j) <= x(n + 2)
      BY <2>2, <3>1
    <3>3. n + 2 \in 1..(n + 2) /\ (n + 2) - 1 = n + 1
      OBVIOUS
    <3> QED BY <3>1, <3>2, <3>3
  <2> QED BY <2>2, <2>3, <2>4
<1> HIDE DEF T
<1>4. Len(l) - 1 \in T
  BY <1>1, <1>2, <1>3, SetInduction
<1> QED BY <1>1, <1>4 DEF T, x

\* A sum over the hosts is one over the list when the others weigh nothing.
LEMMA SumOverList ==
  ASSUME NEW l \in Lists, NEW w \in [Hosts -> Int],
         \A h \in Hosts \ HostsOf(l) : w[h] = 0
  PROVE  SumFunctionOnSet(w, Hosts)
           = SumFunctionOnSet([i \in DOMAIN l |-> w[l[i].host]], DOMAIN l)
<1> DEFINE f == [i \in DOMAIN l |-> w[l[i].host]]
           p == [i \in DOMAIN l |-> l[i].host]
<1>1. IsFiniteSet(DOMAIN l) /\ IsFiniteSet(Hosts)
  BY ListFacts, FS_Interval, BalancerAssumption
<1>2. f \in [DOMAIN l -> Int] /\ p \in [DOMAIN l -> Hosts]
  BY ListFacts
<1>3. /\ \A i, j \in DOMAIN l : p[i] = p[j] => i = j
      /\ \A i \in DOMAIN l : w[p[i]] = f[i]
      /\ \A h \in Hosts : (\A i \in DOMAIN l : p[i] # h) => w[h] = 0
  BY ListFacts
<1> HIDE DEF f, p
<1>4. SumFunctionOnSet(w, Hosts) = SumFunctionOnSet(f, DOMAIN l)
  BY <1>1, <1>2, <1>3, SumImage
<1> QED BY <1>4 DEF f

\* Weights that add up to the list's total have a heaviest host to select.
LEMMA HeaviestIsSelected ==
  ASSUME NEW l \in Lists, NEW w \in [Hosts -> Int],
         \A h \in Hosts \ HostsOf(l) : w[h] = 0,
         SumFunctionOnSet(w, Hosts) = TotalWeight(l)
  PROVE  /\ Selected(w, l) # {}
         /\ \A h \in Selected(w, l) : TotalWeight(l) > 0 => w[h] > 0
<1> DEFINE f == [i \in DOMAIN l |-> w[l[i].host]]
           D == DOMAIN l
<1>1. IsFiniteSet(D) /\ Cardinality(D) \in Nat \ {0} /\ \A i \in D : f[i] \in Int
  <2>1. D = 1..Len(l) /\ Len(l) \in Nat \ {0}
    BY ListFacts
  <2>2. IsFiniteSet(D) /\ Cardinality(D) = Len(l)
    <3> HIDE DEF D
    <3>1. /\ IsFiniteSet(1..Len(l))
          /\ Cardinality(1..Len(l)) = IF 1 > Len(l) THEN 0 ELSE Len(l) - 1 + 1
      BY <2>1, FS_Interval
    <3> QED BY <2>1, <3>1
  <2>3. \A i \in D : f[i] \in Int
    BY ListFacts
  <2> QED BY <2>1, <2>2, <2>3
<1>2. SumFunctionOnSet(f, D) = TotalWeight(l) /\ TotalWeight(l) \in Nat
  BY SumOverList, TotalIsNat
<1>3. PICK k \in D : /\ \A j \in D : w[l[j].host] <= w[l[k].host]
                     /\ \A j \in 1..(k - 1) : w[l[j].host] < w[l[k].host]
  BY FirstHeaviest
<1>4. \A j \in D : f[j] <= f[k]
  BY <1>3
<1> DEFINE m == f[k]
<1>5. m = w[l[k].host] /\ m \in Int
  BY <1>1
<1> HIDE DEF f, m
<1>6. TotalWeight(l) <= m * Cardinality(D)
  BY <1>1, <1>2, <1>4, <1>5, SumBounds DEF m
<1>7. m >= 0 /\ (TotalWeight(l) > 0 => m > 0)
  BY <1>1, <1>2, <1>5, <1>6
<1>8. l[k].host \in Selected(w, l)
  <2>1. w[l[k].host] > -Unit
    BY <1>5, <1>7, BalancerAssumption
  <2> QED BY <1>3, <2>1 DEF Selected
<1>9. ASSUME NEW h \in Selected(w, l) PROVE w[h] >= m
  BY <1>3, <1>5, <1>9, ListFacts DEF Selected
<1>10. \A h \in Selected(w, l) : w[h] \in Int
  BY ListFacts DEF Selected
<1> QED BY <1>5, <1>7, <1>8, <1>9, <1>10

-----------------------------------------------------------------------------
(* Selections that are counted.                                             *)

LEMMA SharesIsBalancer ==
  ASSUME SharesTypeOK, [SharesNext]_sharesVars
  PROVE  BalancerStep
<1>1. ASSUME NEW s \in Services, Reset(s) PROVE BalancerStep
  BY <1>1 DEF Reset, Discover, BalancerStep
<1>2. ASSUME NEW g \in Goroutines, NEW s \in Services, NEW l \in offered[s],
             Enter(g, s, l) \/ \E h \in Hosts : Random(g, s, l, h)
      PROVE  BalancerStep
  <2>1. l \in Lists
    BY DEF SharesTypeOK
  <2> QED BY <1>2, <2>1 DEF Enter, BalancerStep
<1>3. ASSUME NEW g \in Goroutines, NEW h \in Hosts, Pick(g, h) PROVE BalancerStep
  BY <1>3 DEF BalancerStep
<1>4. CASE UNCHANGED sharesVars
  BY <1>4 DEF sharesVars, BalancerStep
<1> QED BY <1>1, <1>2, <1>3, <1>4 DEF SharesNext

LEMMA NoneServedType ==
  ASSUME NEW lists \in SUBSET Lists
  PROVE  /\ NoneServed(lists) \in [lists -> [Hosts -> Nat]]
         /\ \A l \in lists : \A h \in Hosts : NoneServed(lists)[l][h] = 0
BY DEF NoneServed

LEMMA AccountType ==
  ASSUME SharesTypeOK, NEW g \in Goroutines, NEW s \in Services, NEW l, NEW h \in Hosts,
         Account(g, s, l, h)
  PROVE  /\ DOMAIN served' = Services
         /\ \A t \in Services : served'[t] \in [offered[t] -> [Hosts -> Nat]]
         /\ UNCHANGED <<offered, serial, mixed>>
<1> USE DEF SharesTypeOK
<1>1. UNCHANGED <<offered, serial, mixed>>
  BY DEF Account
<1>2. CASE orphan[g] \/ l \notin offered[s]
  BY <1>1, <1>2 DEF Account
<1>3. CASE ~orphan[g] /\ l \in offered[s]
  <2>1. served' = [served EXCEPT ![s][l][h] = @ + 1]
    BY <1>3 DEF Account
  <2>2. served[s] \in [offered[s] -> [Hosts -> Nat]]
    OBVIOUS
  <2>3. [served[s] EXCEPT ![l][h] = @ + 1] \in [offered[s] -> [Hosts -> Nat]]
    BY <1>3, <2>2
  <2>4. /\ DOMAIN served' = Services
        /\ served'[s] = [served[s] EXCEPT ![l][h] = @ + 1]
        /\ \A t \in Services \ {s} : served'[t] = served[t]
    BY <2>1
  <2> QED BY <1>1, <2>3, <2>4
<1> QED BY <1>2, <1>3

LEMMA SharesType ==
  ASSUME SharesTypeOK, BalancerTypeOK', [SharesNext]_sharesVars
  PROVE  SharesTypeOK'
<1>1. ASSUME NEW s \in Services, Reset(s) PROVE SharesTypeOK'
  <2>1. PICK lists \in Offers :
          /\ offered' = [offered EXCEPT ![s] = lists]
          /\ served' = [served EXCEPT ![s] = NoneServed(lists)]
          /\ mixed' = [mixed EXCEPT ![s] =
               \E g \in Goroutines : at[g] # "idle" /\ service[g] = s /\ list[g] \notin lists]
    BY <1>1 DEF Reset
  <2>2. serial' = [serial EXCEPT ![s] = Quiet] /\ Quiet \in BOOLEAN
    BY <1>1 DEF Reset, Quiet
  <2>3. lists \in (SUBSET Lists) \ {{}}
    BY SharesAssumption
  <2>4. offered' \in [Services -> (SUBSET Lists) \ {{}}]
    BY <2>1, <2>3 DEF SharesTypeOK
  <2>5. /\ DOMAIN served' = Services
        /\ served'[s] = NoneServed(lists) /\ offered'[s] = lists
        /\ \A t \in Services \ {s} : served'[t] = served[t] /\ offered'[t] = offered[t]
    BY <2>1 DEF SharesTypeOK
  <2>6. \A t \in Services : served'[t] \in [offered'[t] -> [Hosts -> Nat]]
    BY <2>3, <2>5, NoneServedType DEF SharesTypeOK
  <2>7. serial' \in [Services -> BOOLEAN] /\ mixed' \in [Services -> BOOLEAN]
    BY <2>1, <2>2 DEF SharesTypeOK
  <2> QED BY <2>4, <2>5, <2>6, <2>7 DEF SharesTypeOK
<1>2. ASSUME NEW g \in Goroutines, NEW s \in Services, NEW l \in offered[s], Enter(g, s, l)
      PROVE  SharesTypeOK'
  <2>1. Quiet \in BOOLEAN
    BY DEF Quiet
  <2> QED BY <1>2, <2>1 DEF Enter, SharesTypeOK
<1>3. ASSUME NEW g \in Goroutines, NEW s \in Services, NEW l, NEW h \in Hosts,
             Account(g, s, l, h)
      PROVE  SharesTypeOK'
  BY <1>3, AccountType DEF SharesTypeOK
<1>4. CASE UNCHANGED sharesVars
  BY <1>4 DEF sharesVars, SharesTypeOK
<1>5. ASSUME NEW g \in Goroutines, NEW h \in Hosts, Account(g, service[g], list[g], h)
      PROVE  SharesTypeOK'
  <2>1. service[g] \in Services
    BY DEF SharesTypeOK, BalancerTypeOK
  <2> QED BY <1>3, <1>5, <2>1
<1> QED BY <1>1, <1>2, <1>3, <1>4, <1>5 DEF SharesNext

-----------------------------------------------------------------------------
(* The proportions of smooth weighted round robin.                          *)

\* After a reset no host has a claim.
LEMMA NoClaims ==
  ASSUME NEW l \in Lists
  PROVE  \A h \in HostsOf(l) :
           SumFunction(NoneServed({l})[l]) * WeightIn(l, h)
             - TotalWeight(l) * NoneServed({l})[l][h] = 0
<1>1. /\ NoneServed({l})[l] \in [Hosts -> Nat]
      /\ \A h \in Hosts : NoneServed({l})[l][h] = 0
  BY NoneServedType
<1>2. SumFunction(NoneServed({l})[l]) = 0
  <2>1. SumFunctionOnSet(NoneServed({l})[l], Hosts) = 0
    BY <1>1, SumZeros, BalancerAssumption
  <2> QED BY <1>1, <2>1 DEF SumFunction
<1>3. \A h \in HostsOf(l) : WeightIn(l, h) \in Nat /\ h \in Hosts
  BY ListFacts
<1>4. TotalWeight(l) \in Nat
  BY TotalIsNat
<1>5. \A a, b \in Nat : 0 * a - b * 0 = 0
  OBVIOUS
<1> QED BY <1>1, <1>2, <1>3, <1>4, <1>5

LEMMA ShareReset ==
  ASSUME SharesTypeOK, SharesTypeOK', ShareInv, NEW s \in Services, Reset(s)
  PROVE  ShareInv'
<1>1. PICK lists \in Offers :
        /\ offered' = [offered EXCEPT ![s] = lists]
        /\ served' = [served EXCEPT ![s] = NoneServed(lists)]
  BY DEF Reset
<1>2. /\ currentWeights' = [currentWeights EXCEPT ![s] = NoWeights]
      /\ UNCHANGED <<loadBalanceType, at, service, list, localWeights>>
  BY FreshWeights DEF Reset, Discover, SharesTypeOK
<1>3. serial' = [serial EXCEPT ![s] = Quiet]
  BY DEF Reset
<1>4. /\ offered'[s] = lists /\ served'[s] = NoneServed(lists)
      /\ currentWeights'[s] = NoWeights /\ serial'[s] = Quiet
  BY <1>1, <1>2, <1>3 DEF SharesTypeOK, BalancerTypeOK
<1>5. \A t \in Services \ {s} :
        /\ offered'[t] = offered[t] /\ served'[t] = served[t]
        /\ currentWeights'[t] = currentWeights[t] /\ serial'[t] = serial[t]
        /\ \A l : PicksOf(t, l)' = PicksOf(t, l)
  BY <1>1, <1>2, <1>3 DEF SharesTypeOK, BalancerTypeOK, PicksOf
<1> SUFFICES ASSUME loadBalanceType = "weighted_round_robin",
                    NEW t \in Services, NEW l \in Lists, offered'[t] = {l}, serial'[t]
             PROVE  /\ \A h \in HostsOf(l) :
                         /\ currentWeights'[t][h] = PicksOf(t, l)' * WeightIn(l, h)
                                                      - TotalWeight(l) * served'[t][l][h]
                         /\ TotalWeight(l) > 0 => -TotalWeight(l) < currentWeights'[t][h]
                    /\ \A h \in Hosts \ HostsOf(l) : currentWeights'[t][h] = 0
                    /\ \A g \in Goroutines : at[g] # "idle" =>
                         /\ \A k \in Goroutines : at[k] # "idle" => k = g
                         /\ service[g] = t => list[g] = l /\ localWeights[g] = currentWeights'[t]
  BY <1>2 DEF ShareInv
<1>6. CASE t = s
  <2>1. \A h \in HostsOf(l) :
          PicksOf(s, l)' * WeightIn(l, h) - TotalWeight(l) * served'[s][l][h] = 0
    BY <1>4, <1>6, NoClaims DEF PicksOf
  <2>2. \A h \in Hosts : currentWeights'[s][h] = 0
    BY <1>4 DEF NoWeights
  <2>3. HostsOf(l) \subseteq Hosts /\ TotalWeight(l) \in Nat
    BY ListFacts, TotalIsNat
  <2>4. \A g \in Goroutines : at[g] = "idle"
    BY <1>4, <1>6 DEF Quiet
  <2> QED BY <1>6, <2>1, <2>2, <2>3, <2>4
<1>7. CASE t # s
  <2>1. offered[t] = {l} /\ serial[t]
    BY <1>5, <1>7
  <2> QED BY <1>5, <1>7, <2>1 DEF ShareInv
<1> QED BY <1>6, <1>7

LEMMA ShareEnter ==
  ASSUME SharesTypeOK, ShareInv, NEW g \in Goroutines, NEW s \in Services,
         NEW l \in offered[s], Enter(g, s, l)
  PROVE  ShareInv'
<1>1. /\ serial' = [t \in Services |-> serial[t] /\ Quiet]
      /\ UNCHANGED <<offered, served, loadBalanceType, currentWeights>>
      /\ service' = [service EXCEPT ![g] = s] /\ list' = [list EXCEPT ![g] = l]
  BY DEF Enter, Begin
<1> SUFFICES ASSUME loadBalanceType = "weighted_round_robin",
                    NEW t \in Services, NEW m \in Lists, offered[t] = {m}, serial'[t]
             PROVE  /\ \A h \in HostsOf(m) :
                         /\ currentWeights[t][h] = PicksOf(t, m)' * WeightIn(m, h)
                                                      - TotalWeight(m) * served[t][m][h]
                         /\ TotalWeight(m) > 0 => -TotalWeight(m) < currentWeights[t][h]
                    /\ \A h \in Hosts \ HostsOf(m) : currentWeights[t][h] = 0
                    /\ \A k \in Goroutines : at'[k] # "idle" =>
                         /\ \A j \in Goroutines : at'[j] # "idle" => j = k
                         /\ service'[k] = t => list'[k] = m /\ localWeights'[k] = currentWeights[t]
  BY <1>1 DEF ShareInv
<1>2. /\ localWeights' = [localWeights EXCEPT ![g] = currentWeights[s]]
      /\ at' = [at EXCEPT ![g] = "weigh"]
  BY DEF Enter, Begin
<1>3. serial[t] /\ \A k \in Goroutines : at[k] = "idle"
  BY <1>1 DEF Quiet
<1>4. \A k \in Goroutines : at'[k] # "idle" => k = g
  BY <1>2, <1>3 DEF SharesTypeOK, BalancerTypeOK
<1>5. service'[g] = s /\ list'[g] = l /\ localWeights'[g] = currentWeights[s]
  BY <1>1, <1>2 DEF SharesTypeOK, BalancerTypeOK
<1>6. \A k \in Goroutines : at'[k] # "idle" /\ service'[k] = t =>
        list'[k] = m /\ localWeights'[k] = currentWeights[t]
  BY <1>4, <1>5
<1>7. PicksOf(t, m)' = PicksOf(t, m)
  BY <1>1 DEF PicksOf
<1> QED BY <1>3, <1>4, <1>6, <1>7 DEF ShareInv

LEMMA OnePick ==
  ASSUME SharesTypeOK, NEW s \in Services, NEW l \in offered[s], NEW h \in Hosts,
         NEW g \in Goroutines, ~orphan[g], Account(g, s, l, h)
  PROVE  /\ served'[s][l][h] = served[s][l][h] + 1
         /\ \A k \in Hosts \ {h} : served'[s][l][k] = served[s][l][k]
         /\ PicksOf(s, l) \in Int /\ PicksOf(s, l)' = PicksOf(s, l) + 1
         /\ \A k \in Hosts : served[s][l][k] \in Nat
<1> DEFINE f == served[s][l]
           f1 == served'[s][l]
<1>1. f \in [Hosts -> Nat]
  BY DEF SharesTypeOK
<1>2. f1 = [f EXCEPT ![h] = @ + 1]
  BY DEF SharesTypeOK, Account
<1>3. /\ DOMAIN f = Hosts /\ DOMAIN f1 = Hosts
      /\ \A k \in Hosts : f[k] \in Int /\ f1[k] \in Int
      /\ f1[h] = f[h] + 1 /\ \A k \in Hosts \ {h} : f1[k] = f[k]
  BY <1>1, <1>2
<1> HIDE DEF f, f1
<1>4. SumFunctionOnSet(f1, Hosts) = SumFunctionOnSet(f, Hosts) - f[h] + f1[h]
  <2>1. IsFiniteSet(Hosts)
    BY BalancerAssumption
  <2> QED BY <1>3, <2>1, SumUpdate
<1>5. SumFunctionOnSet(f, Hosts) \in Int
  BY <1>3, WeightSums
<1>6. SumFunction(f) \in Int /\ SumFunction(f1) = SumFunction(f) + 1
  BY <1>3, <1>4, <1>5 DEF SumFunction
<1> QED BY <1>1, <1>3, <1>6 DEF f, f1, PicksOf

\* A selection by weight that began since the reset and raced with nobody.
LEMMA ShareWeigh ==
  ASSUME SharesTypeOK, BalancedInv, RotationInv, ShareInv,
         NEW g \in Goroutines, NEW h \in Hosts,
         Weigh(g, h), Account(g, service[g], list[g], h)
  PROVE  ShareInv'
<1>s. PICK s \in Services : service[g] = s
  BY DEF SharesTypeOK, BalancerTypeOK
<1>l. PICK l \in Lists : list[g] = l
  BY DEF SharesTypeOK, BalancerTypeOK
<1> DEFINE T == TotalWeight(l)
           w == Raised(g)
<1>1. /\ T \in Nat /\ w \in [Hosts -> Int]
      /\ localWeights[g] \in [Hosts -> Int] /\ NoWeights \in [Hosts -> Int]
      /\ at[g] = "weigh" /\ ~orphan[g]
  BY <1>s, <1>l, WeighWrites, TotalIsNat, RaisedSum, NoWeightsSum
  DEF RotationInv, SharesTypeOK, BalancerTypeOK
<1>2. /\ \/ /\ h \in Selected(w, l)
            /\ currentWeights' = [currentWeights EXCEPT ![s] = [w EXCEPT ![h] = @ - T]]
         \/ Selected(w, l) = {} /\ UNCHANGED currentWeights
      /\ at' = [at EXCEPT ![g] = "idle"]
      /\ localWeights' = [localWeights EXCEPT ![g] = NoWeights]
      /\ UNCHANGED <<service, list, loadBalanceType>>
  BY <1>s, <1>l, WeighWrites DEF SharesTypeOK
<1>3. /\ UNCHANGED <<offered, serial>>
      /\ served' = IF l \notin offered[s] THEN served ELSE [served EXCEPT ![s][l][h] = @ + 1]
  BY <1>s, <1>l, <1>1 DEF Account
<1> SUFFICES ASSUME loadBalanceType = "weighted_round_robin",
                    NEW t \in Services, NEW m \in Lists, offered[t] = {m}, serial[t]
             PROVE  /\ \A k \in HostsOf(m) :
                         /\ currentWeights'[t][k] = PicksOf(t, m)' * WeightIn(m, k)
                                                      - TotalWeight(m) * served'[t][m][k]
                         /\ TotalWeight(m) > 0 => -TotalWeight(m) < currentWeights'[t][k]
                    /\ \A k \in Hosts \ HostsOf(m) : currentWeights'[t][k] = 0
                    /\ \A k \in Goroutines : at'[k] # "idle" =>
                         /\ \A j \in Goroutines : at'[j] # "idle" => j = k
                         /\ service'[k] = t => list'[k] = m /\ localWeights'[k] = currentWeights'[t]
  BY <1>2, <1>3 DEF ShareInv
<1>0. service[g] = s /\ list[g] = l /\ Raised(g) = w /\ Account(g, s, l, h)
  BY <1>s, <1>l
<1> HIDE DEF T, w
<1>4. \A k \in Goroutines : at'[k] = "idle"
  <2>1. \A k \in Goroutines : at[k] # "idle" => k = g
    BY <1>1 DEF ShareInv
  <2> QED BY <1>2, <2>1 DEF SharesTypeOK, BalancerTypeOK
<1>5. /\ \A k \in HostsOf(m) :
           /\ currentWeights[t][k] =
                PicksOf(t, m) * WeightIn(m, k) - TotalWeight(m) * served[t][m][k]
           /\ TotalWeight(m) > 0 => -TotalWeight(m) < currentWeights[t][k]
      /\ \A k \in Hosts \ HostsOf(m) : currentWeights[t][k] = 0
  BY DEF ShareInv
<1>6. CASE t # s
  <2>1. currentWeights'[t] = currentWeights[t] /\ served'[t] = served[t]
    BY <1>1, <1>2, <1>3, <1>6 DEF SharesTypeOK, BalancerTypeOK
  <2>2. PicksOf(t, m)' = PicksOf(t, m)
    BY <2>1 DEF PicksOf
  <2> QED BY <1>4, <1>5, <2>1, <2>2
<1>7. CASE t = s
  <2>1. l = m /\ localWeights[g] = currentWeights[s]
    BY <1>0, <1>1, <1>7 DEF ShareInv
  <2>2. l \in offered[s]
    BY <1>7, <2>1
  <2>3. \A k \in Hosts : w[k] = currentWeights[s][k] + IF k \in HostsOf(l) THEN WeightIn(l, k) ELSE 0
    BY <1>0, <2>1 DEF Raised
  <2>4. SumFunctionOnSet(w, Hosts) = T
    <3>1. SumFunction(currentWeights[s]) = 0 /\ DOMAIN w = Hosts
      BY <1>1 DEF BalancedInv, WeightsBalanced
    <3>2. SumFunction(w) = 0 + T
      BY <1>0, <2>1, <3>1, RaisedSum DEF SharesTypeOK, T
    <3> QED BY <1>1, <3>1, <3>2 DEF SumFunction
  <2>5. \A k \in Hosts \ HostsOf(l) : w[k] = 0
    BY <1>5, <1>7, <2>1, <2>3
  <2>6. Selected(w, l) # {} /\ \A k \in Selected(w, l) : T > 0 => w[k] > 0
    BY <1>1, <2>4, <2>5, HeaviestIsSelected DEF T
  <2>7. /\ h \in Selected(w, l)
        /\ currentWeights'[s] = [w EXCEPT ![h] = @ - T]
    BY <1>1, <1>2, <2>6 DEF SharesTypeOK, BalancerTypeOK
  <2>8. h \in HostsOf(l) /\ HostsOf(l) \subseteq Hosts
    BY <1>1, <2>7, ListFacts DEF Selected
  <2>9. /\ currentWeights'[s][h] = w[h] - T
        /\ \A k \in Hosts \ {h} : currentWeights'[s][k] = w[k]
    BY <1>1, <2>7, <2>8
  <2>10. /\ served'[s][l][h] = served[s][l][h] + 1
         /\ \A k \in Hosts \ {h} : served'[s][l][k] = served[s][l][k]
         /\ PicksOf(s, l) \in Int /\ PicksOf(s, l)' = PicksOf(s, l) + 1
         /\ \A k \in Hosts : served[s][l][k] \in Nat
    BY <1>0, <1>1, <2>2, OnePick
  <2>11. ASSUME NEW k \in HostsOf(l)
         PROVE  currentWeights'[s][k] =
                  PicksOf(s, l)' * WeightIn(l, k) - T * served'[s][l][k]
    <3> DEFINE p == PicksOf(s, l)
               W == WeightIn(l, k)
               n == served[s][l][k]
    <3>0. k \in Hosts
      BY <2>8
    <3>1. p \in Int /\ W \in Nat /\ n \in Nat
      BY <2>10, <3>0, WeightIsNat
    <3>2. w[k] = p * W - T * n + W
      BY <1>5, <1>7, <2>1, <2>3, <2>8 DEF T
    <3> HIDE DEF p, W, n
    <3>3. (p + 1) * W = p * W + W /\ T * (n + 1) = T * n + T /\ p * W \in Int /\ T * n \in Int
      BY <1>1, <3>1
    <3>4. CASE k = h
      BY <1>1, <2>9, <2>10, <3>0, <3>1, <3>2, <3>3, <3>4 DEF p, W, n
    <3>5. CASE k # h
      BY <1>1, <2>9, <2>10, <3>0, <3>1, <3>2, <3>3, <3>5 DEF p, W, n
    <3> QED BY <3>4, <3>5
  <2>12. ASSUME NEW k \in HostsOf(l), T > 0 PROVE -T < currentWeights'[s][k]
    <3>0. -T < currentWeights[s][k]
      BY <1>5, <1>7, <2>1, <2>12 DEF T
    <3>1. currentWeights[s][k] \in Int /\ WeightIn(l, k) \in Nat
      <4>1. k \in Hosts /\ currentWeights[s] \in [Hosts -> Int]
        BY <1>1, <2>8 DEF SharesTypeOK, BalancerTypeOK
      <4> QED BY <4>1, WeightIsNat
    <3>2. CASE k = h
      BY <1>1, <2>6, <2>7, <2>9, <2>12, <3>2
    <3>3. CASE k # h
      BY <1>1, <2>3, <2>8, <2>9, <3>0, <3>1, <3>3
    <3> QED BY <3>2, <3>3
  <2>13. \A k \in Hosts \ HostsOf(l) : currentWeights'[s][k] = 0
    BY <2>5, <2>8, <2>9
  <2>14. TotalWeight(m) = T
    BY <2>1 DEF T
  <2>15. \A k \in HostsOf(l) :
           /\ currentWeights'[s][k] = PicksOf(s, l)' * WeightIn(l, k) - T * served'[s][l][k]
           /\ T > 0 => -T < currentWeights'[s][k]
    BY <2>11, <2>12
  <2>16. PicksOf(t, m)' = PicksOf(s, l)'
    BY <1>7, <2>1 DEF PicksOf
  <2> QED BY <1>4, <1>7, <2>1, <2>13, <2>14, <2>15, <2>16
<1> QED BY <1>6, <1>7

LEMMA ShareStep ==
  ASSUME SharesTypeOK, SharesTypeOK', BalancedInv, RotationInv, ShareInv,
         [SharesNext]_sharesVars
  PROVE  ShareInv'
<1>1. ASSUME NEW s \in Services, Reset(s) PROVE ShareInv'
  BY <1>1, ShareReset
<1>2. ASSUME NEW g \in Goroutines, NEW s \in Services, NEW l \in offered[s], Enter(g, s, l)
      PROVE  ShareInv'
  BY <1>2, ShareEnter
<1>3. ASSUME NEW g \in Goroutines, NEW h \in Hosts, Weigh(g, h),
             Account(g, service[g], list[g], h)
      PROVE  ShareInv'
  BY <1>3, ShareWeigh
<1>4. ASSUME loadBalanceType # "weighted_round_robin", UNCHANGED loadBalanceType
      PROVE  ShareInv'
  BY <1>4 DEF ShareInv
<1>5. ASSUME NEW g \in Goroutines, NEW s \in Services, NEW l \in offered[s], NEW h \in Hosts,
             Random(g, s, l, h)
      PROVE  ShareInv'
  BY <1>4, <1>5 DEF Random, sharedVars
<1>6. ASSUME NEW g \in Goroutines, NEW h \in Hosts, Add(g, h)
      PROVE  ShareInv'
  BY <1>4, <1>6, AddType DEF Add, RotationInv, SharesTypeOK
<1>7. CASE UNCHANGED sharesVars
  BY <1>7 DEF sharesVars, balancerVars, sharedVars, localVars, ShareInv, PicksOf
<1> QED BY <1>1, <1>2, <1>3, <1>5, <1>6, <1>7 DEF SharesNext, Pick

-----------------------------------------------------------------------------
(* The turns of round robin.                                                *)

\* One more selection is one more turn, or the first turn of the next round,
\* and the counter's own wrapping falls between two rounds.
LEMMA NextTurn ==
  ASSUME NEW n \in Nat \ {0}, NEW P \in Nat \ {0}, P % n = 0,
         NEW c \in Nat, c < P
  PROVE  /\ (c + 1) % P \in Nat /\ (c + 1) % P < P
         /\ c % n \in 0..(n - 1)
         /\ ((c + 1) % P) % n = IF c % n = n - 1 THEN 0 ELSE (c % n) + 1
<1> DEFINE q == c \div n
           r == c % n
           m == P \div n
<1>1. q \in Nat /\ r \in 0..(n - 1) /\ c = n * q + r
  OBVIOUS
<1>2. m \in Nat /\ P = n * m
  OBVIOUS
<1> HIDE DEF q, r, m
<1>3. CASE c + 1 < P
  <2>1. (c + 1) % P = c + 1
    BY <1>3
  <2>2. CASE r = n - 1
    <3>1. c + 1 = n * (q + 1)
      BY <1>1, <2>2
    <3>2. (c + 1) % n = 0
      BY <1>1, <3>1
    <3> QED BY <1>1, <1>3, <2>1, <2>2, <3>2 DEF r
  <2>3. CASE r # n - 1
    <3>1. c + 1 = n * q + (r + 1) /\ r + 1 \in 0..(n - 1)
      BY <1>1, <2>3
    <3>2. (c + 1) % n = r + 1
      BY <1>1, <3>1
    <3> QED BY <1>1, <1>3, <2>1, <2>3, <3>2 DEF r
  <2> QED BY <2>2, <2>3
<1>4. CASE c + 1 = P
  <2>1. (c + 1) % P = 0 /\ 0 % n = 0
    BY <1>4
  <2>2. r = n - 1
    <3>1. n * q + r + 1 = n * m
      BY <1>1, <1>2, <1>4
    <3>2. CASE m <= q
      <4>1. n * m <= n * q
        BY <1>1, <1>2, <3>2
      <4> QED BY <1>1, <1>2, <3>1, <4>1
    <3>3. CASE m = q + 1
      <4>1. n * m = n * q + n
        BY <1>1, <3>3
      <4> QED BY <1>1, <1>2, <3>1, <4>1
    <3>4. CASE q + 1 < m
      <4>1. n * (q + 2) <= n * m /\ n * (q + 2) = n * q + 2 * n
        BY <1>1, <1>2, <3>4
      <4> QED BY <1>1, <1>2, <3>1, <4>1
    <3> QED BY <1>1, <1>2, <3>2, <3>3, <3>4
  <2> QED BY <1>4, <2>1, <2>2 DEF r
<1> QED BY <1>3, <1>4

Rotating ==
  /\ \A s \in Services : Count(s) < Period
  /\ \A g \in Goroutines :
       /\ at[g] = "weigh" => loadBalanceType = "weighted_round_robin"
       /\ at[g] = "add" => loadBalanceType = "round_robin"
       /\ orphan[g] => at[g] = "add"
       /\ at[g] = "add" /\ ~orphan[g] => roundRobinCounters[service[g]] # NoCounter

Even(s, l) ==
  /\ \A g \in Goroutines : at[g] = "add" /\ service[g] = s /\ ~orphan[g] => list[g] = l
  /\ \A i, j \in DOMAIN l : FullRounds(s, l, i) = FullRounds(s, l, j)

LEMMA RotationParts ==
  RotationInv <=>
    /\ Rotating
    /\ loadBalanceType = "round_robin" =>
         \A s \in Services : \A l \in Lists : offered[s] = {l} /\ ~mixed[s] => Even(s, l)
BY DEF RotationInv, Rotating, Even

LEMMA RotationReset ==
  ASSUME SharesTypeOK, SharesTypeOK', RotationInv, NEW s \in Services, Reset(s)
  PROVE  RotationInv'
<1>1. PICK lists \in Offers :
        /\ offered' = [offered EXCEPT ![s] = lists]
        /\ served' = [served EXCEPT ![s] = NoneServed(lists)]
        /\ mixed' = [mixed EXCEPT ![s] =
             \E g \in Goroutines : at[g] # "idle" /\ service[g] = s /\ list[g] \notin lists]
  BY DEF Reset
<1>2. UNCHANGED <<loadBalanceType, at, service, list>>
  BY FreshWeights DEF Reset, Discover, SharesTypeOK
<1>3. /\ Count(s)' = 0 /\ \A t \in Services \ {s} : Count(t)' = Count(t)
      /\ \A t \in Services \ {s} : roundRobinCounters'[t] = roundRobinCounters[t]
  BY DEF Reset, Discover, ResetBalance, StartBalance, DropBalance, SharesTypeOK,
         BalancerTypeOK, Count, NoCounter
<1>4. \A g \in Goroutines :
        /\ orphan[g] => orphan'[g]
        /\ orphan'[g] => orphan[g] \/ at[g] = "add"
        /\ at[g] = "add" /\ ~orphan'[g] /\ service[g] = s /\ roundRobinCounters[s] # NoCounter
             => roundRobinCounters'[s] # NoCounter
  BY DEF Reset, Discover, ResetBalance, StartBalance, DropBalance, SharesTypeOK,
         BalancerTypeOK, NoCounter, localVars
<1>5. Rotating'
  <2>1. \A t \in Services : Count(t)' < Period
    BY <1>3, BalancerAssumption DEF RotationInv
  <2>2. \A g \in Goroutines : service[g] \in Services
    BY DEF SharesTypeOK, BalancerTypeOK
  <2> QED BY <1>2, <1>3, <1>4, <2>1, <2>2 DEF RotationInv, Rotating
<1>6. ASSUME loadBalanceType = "round_robin", NEW t \in Services, NEW l \in Lists,
             offered'[t] = {l}, ~mixed'[t]
      PROVE  Even(t, l)'
  <2>1. CASE t = s
    <3>1. lists = {l} /\ served'[s] = NoneServed({l})
      BY <1>1, <1>6, <2>1 DEF SharesTypeOK
    <3>2. \A g \in Goroutines : at[g] # "idle" /\ service[g] = s => list[g] = l
      BY <1>1, <1>6, <2>1, <3>1 DEF SharesTypeOK
    <3>3. ASSUME NEW i \in DOMAIN l PROVE FullRounds(s, l, i)' = 0
      <4>1. served'[s][l][l[i].host] = 0
        BY <3>1, ListFacts DEF NoneServed
      <4>2. 0 % Len(l) = 0 /\ Reached(i, 0) = 0
        BY ListFacts DEF Reached
      <4> QED BY <1>3, <4>1, <4>2 DEF FullRounds
    <3> QED BY <1>2, <2>1, <3>2, <3>3 DEF Even
  <2>2. CASE t # s
    <3>1. offered[t] = {l} /\ ~mixed[t] /\ served'[t] = served[t] /\ Count(t)' = Count(t)
      BY <1>1, <1>3, <1>6, <2>2 DEF SharesTypeOK
    <3>2. Even(t, l)
      BY <1>6, <3>1, RotationParts
    <3> QED BY <1>2, <1>4, <3>1, <3>2 DEF Even, FullRounds
  <2> QED BY <2>1, <2>2
<1> QED BY <1>2, <1>5, <1>6 DEF RotationInv, Rotating, Even

LEMMA RotationEnter ==
  ASSUME SharesTypeOK, RotationInv, NEW g \in Goroutines, NEW s \in Services,
         NEW l \in offered[s], Enter(g, s, l)
  PROVE  RotationInv'
<1>1. /\ at[g] = "idle" /\ UNCHANGED <<offered, served, mixed, loadBalanceType>>
      /\ service' = [service EXCEPT ![g] = s] /\ list' = [list EXCEPT ![g] = l]
      /\ \/ /\ loadBalanceType = "weighted_round_robin"
            /\ at' = [at EXCEPT ![g] = "weigh"]
            /\ UNCHANGED <<roundRobinCounters, orphan>>
         \/ /\ loadBalanceType = "round_robin"
            /\ at' = [at EXCEPT ![g] = "add"]
            /\ roundRobinCounters' = [roundRobinCounters EXCEPT
                                        ![s] = IF @ = NoCounter THEN 0 ELSE @]
            /\ orphan' = [orphan EXCEPT ![g] = FALSE]
  BY DEF Enter, Begin
<1>2. /\ \A t \in Services : Count(t)' = Count(t)
      /\ \A t \in Services : roundRobinCounters[t] # NoCounter => roundRobinCounters'[t] # NoCounter
      /\ loadBalanceType = "round_robin" => roundRobinCounters'[s] # NoCounter
  BY <1>1 DEF Count, NoCounter, SharesTypeOK, BalancerTypeOK
<1>3. /\ service'[g] = s /\ list'[g] = l
      /\ \A k \in Goroutines \ {g} : /\ service'[k] = service[k] /\ list'[k] = list[k]
                                     /\ at'[k] = at[k] /\ orphan'[k] = orphan[k]
      /\ ~orphan'[g] /\ at'[g] = IF loadBalanceType = "round_robin" THEN "add" ELSE "weigh"
      /\ loadBalanceType \in {"weighted_round_robin", "round_robin"}
  BY <1>1 DEF SharesTypeOK, BalancerTypeOK, RotationInv
<1>4. Rotating'
  <2>1. \A k \in Goroutines : service[k] \in Services
    BY DEF SharesTypeOK, BalancerTypeOK
  <2>2. \A t \in Services : Count(t)' < Period
    BY <1>2 DEF RotationInv
  <2>3. ASSUME NEW k \in Goroutines
        PROVE  /\ at'[k] = "weigh" => loadBalanceType' = "weighted_round_robin"
               /\ at'[k] = "add" => loadBalanceType' = "round_robin"
               /\ orphan'[k] => at'[k] = "add"
               /\ at'[k] = "add" /\ ~orphan'[k] => roundRobinCounters'[service'[k]] # NoCounter
    <3>1. CASE k = g
      BY <1>1, <1>2, <1>3, <3>1
    <3>2. CASE k # g
      BY <1>1, <1>2, <1>3, <2>1, <3>2 DEF RotationInv
    <3> QED BY <3>1, <3>2
  <2> QED BY <2>2, <2>3 DEF Rotating
<1>5. ASSUME loadBalanceType = "round_robin", NEW t \in Services, NEW m \in Lists,
             offered[t] = {m}, ~mixed[t]
      PROVE  Even(t, m)'
  <2>1. Even(t, m)
    BY <1>5, RotationParts
  <2>2. \A i : FullRounds(t, m, i)' = FullRounds(t, m, i)
    BY <1>1, <1>2 DEF FullRounds
  <2>3. s = t => l = m
    BY <1>5
  <2> QED BY <1>3, <2>1, <2>2, <2>3 DEF Even
<1> QED BY <1>1, <1>4, <1>5 DEF RotationInv, Rotating, Even

\* The turn of a selection, and what it leaves of the rounds.
LEMMA RotationTurn ==
  ASSUME SharesTypeOK, RotationInv, NEW g \in Goroutines, NEW h \in Hosts,
         NEW s \in Services, NEW l \in Lists, service[g] = s, list[g] = l,
         offered[s] = {l}, ~orphan[g],
         Add(g, h), Account(g, s, l, h),
         \A i, j \in DOMAIN l : FullRounds(s, l, i) = FullRounds(s, l, j)
  PROVE  \A i, j \in DOMAIN l : FullRounds(s, l, i)' = FullRounds(s, l, j)'
<1> DEFINE n == Len(l)
           c == roundRobinCounters[s]
           turn == c % n
           next == ((c + 1) % Period) % n
<1>1. /\ at[g] = "add" /\ c \in Nat /\ c < Period /\ Count(s) = c
      /\ n \in Nat \ {0} /\ Period \in Nat \ {0} /\ Period % n = 0
  <2>1. at[g] = "add"
    BY DEF Add
  <2>2. c # NoCounter
    BY <2>1 DEF RotationInv
  <2>3. c \in Nat /\ Count(s) = c /\ c < Period
    BY <2>2 DEF SharesTypeOK, BalancerTypeOK, RotationInv, Count
  <2> QED BY <2>1, <2>3, ListFacts, BalancerAssumption
<1>2. /\ (c + 1) % Period \in Nat
      /\ turn \in 0..(n - 1)
      /\ next = IF turn = n - 1 THEN 0 ELSE turn + 1
  <2> HIDE DEF n, c
  <2>1. /\ (c + 1) % Period \in Nat
        /\ c % n \in 0..(n - 1)
        /\ ((c + 1) % Period) % n = IF c % n = n - 1 THEN 0 ELSE (c % n) + 1
    BY <1>1, NextTurn, ZenonT(30)
  <2> QED BY <2>1
<1>3. /\ roundRobinCounters' = [roundRobinCounters EXCEPT ![s] = (c + 1) % Period]
      /\ h = l[next + 1].host
  BY DEF Add
<1>4. Count(s)' = (c + 1) % Period
  BY <1>2, <1>3 DEF SharesTypeOK, BalancerTypeOK, Count, NoCounter
<1> DEFINE n0(i) == served[s][l][l[i].host]
           n1(i) == served'[s][l][l[i].host]
<1>5. \A i \in DOMAIN l :
        /\ FullRounds(s, l, i) = n0(i) - Reached(i, turn)
        /\ FullRounds(s, l, i)' = n1(i) - Reached(i, next)
  BY <1>1, <1>4 DEF FullRounds
<1>6. next + 1 \in DOMAIN l /\ DOMAIN l = 1..n
  BY <1>1, <1>2, ListFacts
<1>7. ASSUME NEW i \in DOMAIN l
      PROVE  n0(i) \in Nat /\ n1(i) = n0(i) + IF i = next + 1 THEN 1 ELSE 0
  <2>1. /\ served'[s][l][h] = served[s][l][h] + 1
        /\ \A k \in Hosts \ {h} : served'[s][l][k] = served[s][l][k]
        /\ \A k \in Hosts : served[s][l][k] \in Nat
    BY OnePick
  <2>2. l[i].host \in Hosts /\ (l[i].host = h <=> i = next + 1)
    BY <1>3, <1>6, ListFacts
  <2> QED BY <2>1, <2>2
<1> HIDE DEF n, c, turn, next, n0, n1
<1>8. CASE turn = n - 1
  <2>1. ASSUME NEW i \in DOMAIN l
        PROVE  FullRounds(s, l, i)' = FullRounds(s, l, i) + 1
    <3>1. next = 0 /\ i \in 1..n
      BY <1>2, <1>6, <1>8
    <3>2. Reached(i, next) = 0 /\ Reached(i, turn) = IF i = 1 THEN 0 ELSE 1
      BY <1>1, <1>8, <3>1 DEF Reached
    <3> QED BY <1>5, <1>7, <3>1, <3>2
  <2> QED BY <2>1
<1>9. CASE turn # n - 1
  <2>1. ASSUME NEW i \in DOMAIN l
        PROVE  FullRounds(s, l, i)' = FullRounds(s, l, i)
    <3>1. next = turn + 1 /\ i \in 1..n /\ turn \in Nat
      BY <1>1, <1>2, <1>6, <1>9
    <3>2. Reached(i, next) = Reached(i, turn) + IF i = next + 1 THEN 1 ELSE 0
      BY <1>1, <3>1 DEF Reached
    <3>3. Reached(i, turn) \in Nat
      BY DEF Reached
    <3> QED BY <1>5, <1>7, <3>2, <3>3
  <2> QED BY <2>1
<1> QED BY <1>8, <1>9

LEMMA RotationAdd ==
  ASSUME SharesTypeOK, RotationInv, NEW g \in Goroutines, NEW h \in Hosts,
         Add(g, h), Account(g, service[g], list[g], h)
  PROVE  RotationInv'
<1>s. PICK s \in Services : service[g] = s
  BY DEF SharesTypeOK, BalancerTypeOK
<1>l. PICK l \in Lists : list[g] = l
  BY DEF SharesTypeOK, BalancerTypeOK
<1>1. /\ at[g] = "add" /\ loadBalanceType = "round_robin"
      /\ UNCHANGED <<loadBalanceType, service, list, offered, mixed>>
      /\ at' = [at EXCEPT ![g] = "idle"] /\ orphan' = [orphan EXCEPT ![g] = FALSE]
  BY AddType DEF Add, Account, RotationInv, SharesTypeOK
<1>2. \A k \in Goroutines :
        /\ at'[k] # "idle" => k # g /\ at'[k] = at[k]
        /\ orphan'[k] => k # g /\ at'[k] = at[k] /\ orphan[k]
        /\ k # g => orphan'[k] = orphan[k]
  BY <1>1 DEF SharesTypeOK, BalancerTypeOK
<1>3. /\ Period \in Nat \ {0}
      /\ \A t \in Services : roundRobinCounters[t] \in Nat \cup {NoCounter}
      /\ NoCounter = -1
  BY BalancerAssumption DEF SharesTypeOK, BalancerTypeOK, NoCounter
<1>4. orphan[g] => UNCHANGED roundRobinCounters
  BY DEF Add
<1>5. ~orphan[g] => /\ roundRobinCounters[s] \in Nat
                    /\ roundRobinCounters' = [roundRobinCounters EXCEPT
                                                ![s] = (roundRobinCounters[s] + 1) % Period]
  BY <1>s, <1>1, <1>3 DEF Add, RotationInv
<1>6. ~orphan[g] => /\ roundRobinCounters'[s] \in Nat /\ roundRobinCounters'[s] < Period
                    /\ \A t \in Services \ {s} : roundRobinCounters'[t] = roundRobinCounters[t]
  <2>1. \A c \in Nat : (c + 1) % Period \in Nat /\ (c + 1) % Period < Period
    BY <1>3
  <2> QED BY <1>5, <2>1 DEF SharesTypeOK, BalancerTypeOK
<1>7. \A t \in Services : /\ Count(t)' < Period
                          /\ roundRobinCounters[t] # NoCounter => roundRobinCounters'[t] # NoCounter
  BY <1>3, <1>4, <1>6 DEF Count, RotationInv
<1>8. Rotating'
  <2>1. \A k \in Goroutines : service'[k] \in Services /\ service'[k] = service[k]
    BY <1>1 DEF SharesTypeOK, BalancerTypeOK
  <2>2. ASSUME NEW k \in Goroutines
        PROVE  /\ at'[k] = "weigh" => loadBalanceType' = "weighted_round_robin"
               /\ at'[k] = "add" => loadBalanceType' = "round_robin"
               /\ orphan'[k] => at'[k] = "add"
               /\ at'[k] = "add" /\ ~orphan'[k] => roundRobinCounters'[service'[k]] # NoCounter
    <3>1. CASE k = g
      BY <1>2, <3>1
    <3>2. CASE k # g
      <4>1. at'[k] = "add" /\ ~orphan'[k] => roundRobinCounters'[service'[k]] # NoCounter
        BY <1>2, <1>7, <2>1, <3>2 DEF RotationInv
      <4>2. at'[k] = "weigh" => at[k] = "weigh"
        BY <1>2
      <4> QED BY <1>1, <1>2, <4>1, <4>2 DEF RotationInv
    <3> QED BY <3>1, <3>2
  <2> QED BY <1>7, <2>2 DEF Rotating
<1>9. ASSUME NEW t \in Services, NEW m \in Lists, offered[t] = {m}, ~mixed[t]
      PROVE  Even(t, m)'
  <2>1. Even(t, m)
    BY <1>1, <1>9, RotationParts
  <2>2. \A k \in Goroutines : at'[k] = "add" /\ service'[k] = t /\ ~orphan'[k] => list'[k] = m
    BY <1>1, <1>2, <2>1 DEF Even
  <2>3. CASE orphan[g]
    <3>1. served' = served /\ \A i : FullRounds(t, m, i)' = FullRounds(t, m, i)
      BY <1>4, <2>3 DEF Account, FullRounds, Count
    <3> QED BY <2>1, <2>2, <3>1 DEF Even
  <2>4. CASE ~orphan[g] /\ t # s
    <3>1. served'[t] = served[t]
      BY <1>s, <2>4 DEF Account, SharesTypeOK
    <3>2. roundRobinCounters'[t] = roundRobinCounters[t]
      BY <1>6, <2>4
    <3>3. \A i : FullRounds(t, m, i)' = FullRounds(t, m, i)
      BY <3>1, <3>2 DEF FullRounds, Count
    <3> QED BY <2>1, <2>2, <3>3 DEF Even
  <2>5. CASE ~orphan[g] /\ t = s
    <3>1. l = m
      BY <1>s, <1>l, <1>1, <2>1, <2>5 DEF Even
    <3>2. \A i, j \in DOMAIN l : FullRounds(s, l, i) = FullRounds(s, l, j)
      BY <2>1, <2>5, <3>1 DEF Even
    <3>3. offered[s] = {l} /\ Account(g, s, l, h)
      BY <1>s, <1>l, <1>9, <2>5, <3>1
    <3>4. \A i, j \in DOMAIN l : FullRounds(s, l, i)' = FullRounds(s, l, j)'
      BY <1>s, <1>l, <2>5, <3>2, <3>3, RotationTurn
    <3> QED BY <2>2, <2>5, <3>1, <3>4 DEF Even
  <2> QED BY <2>3, <2>4, <2>5
<1> QED BY <1>1, <1>8, <1>9 DEF RotationInv, Rotating, Even

LEMMA RotationStep ==
  ASSUME SharesTypeOK, SharesTypeOK', RotationInv, [SharesNext]_sharesVars
  PROVE  RotationInv'
<1>1. ASSUME NEW s \in Services, Reset(s) PROVE RotationInv'
  BY <1>1, RotationReset
<1>2. ASSUME NEW g \in Goroutines, NEW s \in Services, NEW l \in offered[s], Enter(g, s, l)
      PROVE  RotationInv'
  BY <1>2, RotationEnter
<1>3. ASSUME NEW g \in Goroutines, NEW h \in Hosts, Add(g, h),
             Account(g, service[g], list[g], h)
      PROVE  RotationInv'
  BY <1>3, RotationAdd
<1>4. ASSUME NEW g \in Goroutines, NEW h \in Hosts, Weigh(g, h)
      PROVE  RotationInv'
  <2>1. /\ at[g] = "weigh" /\ loadBalanceType = "weighted_round_robin"
        /\ UNCHANGED <<service, list, loadBalanceType, roundRobinCounters>>
        /\ at' = [at EXCEPT ![g] = "idle"] /\ orphan' = [orphan EXCEPT ![g] = FALSE]
    BY <1>4, WeighWrites DEF SharesTypeOK, RotationInv
  <2> QED BY <2>1 DEF RotationInv, Count, SharesTypeOK, BalancerTypeOK
<1>5. ASSUME NEW g \in Goroutines, NEW s \in Services, NEW l \in offered[s], NEW h \in Hosts,
             Random(g, s, l, h)
      PROVE  RotationInv'
  <2>1. /\ loadBalanceType = "random" /\ at[g] = "idle"
        /\ UNCHANGED <<loadBalanceType, roundRobinCounters, at, orphan>>
        /\ \A k \in Goroutines \ {g} : service'[k] = service[k]
    BY <1>5 DEF Random, sharedVars, SharesTypeOK, BalancerTypeOK
  <2> QED BY <2>1 DEF RotationInv, Count
<1>6. CASE UNCHANGED sharesVars
  BY <1>6 DEF sharesVars, balancerVars, sharedVars, localVars, RotationInv, Count, FullRounds
<1> QED BY <1>1, <1>2, <1>3, <1>4, <1>5, <1>6 DEF SharesNext, Pick

-----------------------------------------------------------------------------
(* The balancer on its own.                                                 *)
LEMMA SharesStart ==
  ASSUME SharesInit
  PROVE  SharesTypeOK /\ BalancedInv /\ ShareInv /\ RotationInv
<1> USE DEF SharesInit, BalancerInit
<1>1. BalancerTypeOK
  <2>1. (CHOOSE l \in Lists : TRUE) \in Lists
    BY BalancerAssumption
  <2> QED BY <2>1, NoWeightsSum DEF BalancerTypeOK
<1>2. SharesTypeOK
  <2>1. offered \in [Services -> (SUBSET Lists) \ {{}}]
    BY SharesAssumption
  <2>2. \A s \in Services : NoneServed(offered[s]) \in [offered[s] -> [Hosts -> Nat]]
    BY <2>1, NoneServedType
  <2> QED BY <1>1, <2>1, <2>2 DEF SharesTypeOK
<1>3. BalancedInv
  BY <1>1, NoWeightsSum DEF BalancedInv, WeightsBalanced
<1>4. ShareInv
  <2> SUFFICES ASSUME NEW s \in Services, NEW l \in Lists, offered[s] = {l}
               PROVE  /\ \A h \in HostsOf(l) :
                           /\ currentWeights[s][h] =
                                PicksOf(s, l) * WeightIn(l, h) - TotalWeight(l) * served[s][l][h]
                           /\ TotalWeight(l) > 0 => -TotalWeight(l) < currentWeights[s][h]
                      /\ \A h \in Hosts \ HostsOf(l) : currentWeights[s][h] = 0
                      /\ \A g \in Goroutines : at[g] = "idle"
    BY DEF ShareInv
  <2>1. served[s] = NoneServed({l}) /\ \A h \in Hosts : currentWeights[s][h] = 0
    BY DEF NoWeights
  <2>2. HostsOf(l) \subseteq Hosts /\ TotalWeight(l) \in Nat
    BY ListFacts, TotalIsNat
  <2> QED BY <2>1, <2>2, NoClaims DEF PicksOf
<1>5. RotationInv
  <2>1. \A s \in Services : Count(s) = 0
    BY DEF Count, NoCounter
  <2>2. Rotating
    BY <2>1, BalancerAssumption DEF Rotating
  <2>3. ASSUME NEW s \in Services, NEW l \in Lists, offered[s] = {l} PROVE Even(s, l)
    <3>1. ASSUME NEW i \in DOMAIN l PROVE FullRounds(s, l, i) = 0
      <4>1. served[s][l][l[i].host] = 0
        BY <2>3, ListFacts DEF NoneServed
      <4>2. 0 % Len(l) = 0 /\ Reached(i, 0) = 0
        BY ListFacts DEF Reached
      <4> QED BY <2>1, <4>1, <4>2 DEF FullRounds
    <3> QED BY <3>1 DEF Even
  <2> QED BY <2>2, <2>3, RotationParts
<1> QED BY <1>2, <1>3, <1>4, <1>5

LEMMA SharesInductive ==
  SharesSpec => [](SharesTypeOK /\ BalancedInv /\ ShareInv /\ RotationInv)
<1> DEFINE Inv == SharesTypeOK /\ BalancedInv /\ ShareInv /\ RotationInv
<1>1. SharesInit => Inv
  BY SharesStart
<1>2. Inv /\ [SharesNext]_sharesVars => Inv'
  <2> SUFFICES ASSUME Inv, [SharesNext]_sharesVars PROVE Inv'
    OBVIOUS
  <2>1. BalancedInv'
    BY SharesIsBalancer, StepBalanced
  <2>2. SharesTypeOK'
    BY <2>1, SharesType DEF BalancedInv
  <2> QED BY <2>1, <2>2, ShareStep, RotationStep
<1> HIDE DEF Inv
<1>3. SharesSpec => []Inv
  BY <1>1, <1>2, PTL DEF SharesSpec
<1> QED BY <1>3 DEF Inv

(* The balancing state and the counts kept over it keep their types.        *)
THEOREM SharesTypeCorrect == SharesSpec => []SharesTypeOK
BY SharesInductive, PTL

(* However selections race with each other and with the resets, the weights *)
(* of a service add up to zero.                                             *)
THEOREM WeightsStayBalanced == SharesSpec => []WeightsBalanced
<1>1. BalancedInv => WeightsBalanced
  BY DEF BalancedInv
<1> QED BY <1>1, SharesInductive, PTL

(* Smooth weighted round robin serves every host in proportion: its claim   *)
(* stays above minus a full round, and below what the others can owe.       *)
LEMMA ClaimsAreBounded ==
  ASSUME SharesTypeOK, BalancedInv, ShareInv
  PROVE  ProportionalShare
<1> SUFFICES ASSUME NEW s \in Services, NEW l \in Lists, NEW h \in HostsOf(l),
                    loadBalanceType = "weighted_round_robin",
                    offered[s] = {l}, serial[s], Quiet
             PROVE  LET total == TotalWeight(l)
                        claim == PicksOf(s, l) * WeightIn(l, h) - total * served[s][l][h] IN
                    /\ currentWeights[s][h] = claim
                    /\ total > 0 => -total < claim /\ claim <= total * (Len(l) - 1)
  BY DEF ProportionalShare
<1> DEFINE w == currentWeights[s]
           T == TotalWeight(l)
           D == DOMAIN l
           f == [i \in D |-> w[l[i].host]]
<1>1. /\ \A k \in HostsOf(l) :
           /\ w[k] = PicksOf(s, l) * WeightIn(l, k) - T * served[s][l][k]
           /\ T > 0 => -T < w[k]
      /\ \A k \in Hosts \ HostsOf(l) : w[k] = 0
  BY DEF ShareInv
<1>2. w \in [Hosts -> Int] /\ T \in Nat /\ h \in Hosts
  BY WeightIsNat, TotalIsNat DEF SharesTypeOK, BalancerTypeOK
<1>3. SumFunctionOnSet(w, Hosts) = 0
  BY <1>2 DEF BalancedInv, WeightsBalanced, SumFunction
<1>4. ASSUME T > 0 PROVE w[h] <= T * (Len(l) - 1)
  <2>1. PICK i \in D : h = l[i].host
    BY ListFacts
  <2>2. SumFunctionOnSet(f, D) = 0
    BY <1>1, <1>2, <1>3, SumOverList
  <2>3. \A j \in D : f[j] \in Int /\ -T <= f[j]
    BY <1>1, <1>2, <1>4, ListFacts
  <2>4. f[i] = w[h] /\ w[h] \in Int
    BY <1>2, <2>1
  <2>5. IsFiniteSet(D) /\ Cardinality(D) = Len(l) /\ Len(l) \in Nat
    <3>1. D = 1..Len(l) /\ Len(l) \in Nat \ {0}
      BY ListFacts
    <3> HIDE DEF D
    <3>2. /\ IsFiniteSet(1..Len(l))
          /\ Cardinality(1..Len(l)) = IF 1 > Len(l) THEN 0 ELSE Len(l) - 1 + 1
      BY <3>1, FS_Interval
    <3> QED BY <3>1, <3>2
  <2> HIDE DEF f, w, T, D
  <2>6. IsFiniteSet(D \ {i}) /\ Cardinality(D \ {i}) = Len(l) - 1
    BY <2>1, <2>5, FS_RemoveElement
  <2>7. SumFunctionOnSet(f, D) = f[i] + SumFunctionOnSet(f, D \ {i})
    BY <2>1, <2>3, <2>5, SumRemove
  <2>8. (-T) * (Len(l) - 1) <= SumFunctionOnSet(f, D \ {i})
    <3>1. -T \in Int /\ \A j \in D \ {i} : f[j] \in Int /\ -T <= f[j]
      BY <1>2, <2>3
    <3> QED BY <2>6, <3>1, SumBounds
  <2>9. SumFunctionOnSet(f, D \ {i}) \in Int
    BY <2>3, <2>6, SumInsert
  <2>10. (-T) * (Len(l) - 1) = -(T * (Len(l) - 1)) /\ T * (Len(l) - 1) \in Int
    BY <1>2, <2>5
  <2> QED BY <2>2, <2>4, <2>7, <2>8, <2>9, <2>10
<1> QED BY <1>1, <1>2, <1>4

THEOREM SharesAreProportional == SharesSpec => []ProportionalShare
BY ClaimsAreBounded, SharesInductive, PTL

(* Round robin over one list gives every host its turn: none is ever two    *)
(* picks ahead, whatever races and whatever resets happen.                  *)
THEOREM RotationIsEven == SharesSpec => []EvenRotation
<1>1. ASSUME SharesTypeOK, RotationInv PROVE EvenRotation
  <2> SUFFICES ASSUME NEW s \in Services, NEW l \in Lists, NEW h \in HostsOf(l),
                      NEW k \in HostsOf(l), loadBalanceType = "round_robin",
                      offered[s] = {l}, ~mixed[s]
               PROVE  served[s][l][h] <= served[s][l][k] + 1
    BY DEF EvenRotation
  <2>1. PICK i \in DOMAIN l, j \in DOMAIN l : h = l[i].host /\ k = l[j].host
    BY ListFacts
  <2>2. FullRounds(s, l, i) = FullRounds(s, l, j)
    BY <1>1 DEF RotationInv
  <2>3. served[s][l][h] \in Nat /\ served[s][l][k] \in Nat
    BY <1>1, WeightIsNat DEF SharesTypeOK
  <2>4. \A n, turn : Reached(n, turn) \in {0, 1}
    BY DEF Reached
  <2> QED BY <2>1, <2>2, <2>3, <2>4 DEF FullRounds
<1> QED BY <1>1, SharesInductive, PTL

-----------------------------------------------------------------------------
(* The package as a whole.                                                  *)

(* Seen without the balancing state, the whole package takes the steps of   *)
(* the discovery cache: what is proved of module Discovery holds of it.     *)
THEOREM ClientIsDiscovery == ClientSpec => Spec
<1>1. ClientInit => Init
  BY DEF ClientInit
<1>2. [ClientNext]_clientVars => [Next]_vars
  <2> SUFFICES ASSUME [ClientNext]_clientVars PROVE [Next]_vars
    OBVIOUS
  <2>1. ASSUME NEW s \in Services, RunCallbackOfBoth(s) \/ RegistryChange(s) \/ Notify(s)
        PROVE  Next
    BY <2>1 DEF RunCallbackOfBoth, Next
  <2>2. ASSUME NEW g \in Goroutines,
               DiscoveryOnly(g) \/ PublishBoth(g) \/ UnsubscribeCleanBoth(g) \/ Select(g)
        PROVE  Next
    BY <2>2 DEF DiscoveryOnly, PublishBoth, UnsubscribeCleanBoth, Select, Next, Step
  <2>3. ASSUME UNCHANGED discoveryVars PROVE UNCHANGED vars
    BY <2>3 DEF discoveryVars, vars
  <2>4. ASSUME NEW g \in Goroutines, BeginSelection(g) PROVE UNCHANGED vars
    BY <2>3, <2>4 DEF BeginSelection
  <2>5. CASE UNCHANGED clientVars
    BY <2>3, <2>5 DEF clientVars
  <2> QED BY <2>1, <2>2, <2>4, <2>5 DEF ClientNext
<1> QED BY <1>1, <1>2, PTL DEF ClientSpec, Spec

\* A call that reaches the balancer has instances left to choose from.
HasChoice ==
  \A g \in Goroutines : pc[g] = "choose" => instances[g].up \cup instances[g].down # {}

LEMMA ChoiceHolds == Spec => []HasChoice
<1>1. Init => HasChoice
  BY DEF Init, HasChoice
<1>2. TypeOK /\ HasChoice /\ [Next]_vars => HasChoice'
  <2> SUFFICES ASSUME TypeOK, HasChoice, [Next]_vars PROVE HasChoice'
    OBVIOUS
  <2> USE DEF TypeOK, HasChoice, callVars
  <2>1. ASSUME NEW s \in Services, RegistryChange(s) \/ Notify(s) \/ RunCallback(s)
        PROVE  HasChoice'
    BY <2>1 DEF RegistryChange, Notify, RunCallback
  <2>2. ASSUME NEW g \in Goroutines, NEW s \in Services, NEW o \in Ops, Call(g, s, o)
        PROVE  HasChoice'
    BY <2>2 DEF Call
  <2>3. ASSUME NEW g \in Goroutines, Step(g) PROVE HasChoice'
    <3>1. CASE ReadInstances(g)
      <4>1. CASE \E a : Return(g, a)
        BY <4>1 DEF Return
      <4>2. CASE \E filter \in Filters :
                   LET passing == Passing(serviceInstances[svc[g]], filter) IN
                   /\ passing.up \cup passing.down # {}
                   /\ Goto(g, "read", "choose")
                   /\ instances' = [instances EXCEPT ![g] = passing]
        BY <4>2 DEF Goto
      <4> QED BY <3>1, <4>1, <4>2 DEF ReadInstances
    <3>2. CASE SelectInstances(g)
      BY <3>2 DEF SelectInstances, Goto
    <3>3. CASE CheckSubscribed(g) \/ StoreCallback(g) \/ Subscribe(g) \/ Publish(g)
      BY <3>3 DEF CheckSubscribed, StoreCallback, Subscribe, Publish, Goto
    <3>4. CASE SdkError(g) \/ \E h \in Hosts : Choose(g, h)
      BY <3>4 DEF SdkError, Choose, Return
    <3>5. CASE UnsubscribeCheck(g) \/ UnsubscribeCall(g) \/ UnsubscribeClean(g)
      BY <3>5 DEF UnsubscribeCheck, UnsubscribeCall, UnsubscribeClean, Goto, Return
    <3> QED BY <2>3, <3>1, <3>2, <3>3, <3>4, <3>5 DEF Step
  <2>4. CASE UNCHANGED vars
    BY <2>4 DEF vars
  <2> QED BY <2>1, <2>2, <2>3, <2>4 DEF Next
<1> QED BY <1>1, <1>2, TypeCorrect, PTL DEF Spec

(* What the package's steps do to the balancing state are the balancer's.   *)
LEMMA ClientIsBalancer ==
  ASSUME TypeOK, HasChoice, [ClientNext]_clientVars
  PROVE  BalancerStep
<1>1. ASSUME NEW s \in Services, RunCallbackOfBoth(s) PROVE BalancerStep
  BY <1>1 DEF RunCallbackOfBoth, BalancerStep
<1>2. ASSUME NEW g \in Goroutines, PublishBoth(g) \/ UnsubscribeCleanBoth(g)
      PROVE  BalancerStep
  <2>1. svc[g] \in Services
    BY DEF TypeOK
  <2> QED BY <1>2, <2>1 DEF PublishBoth, UnsubscribeCleanBoth, BalancerStep
<1>3. ASSUME NEW g \in Goroutines, pc[g] = "choose"
      PROVE  svc[g] \in Services /\ Offered(g) \in Lists
  <2>1. instances[g].up \subseteq Hosts /\ instances[g].down \subseteq Hosts
    BY DEF TypeOK, List
  <2>2. instances[g].up \cup instances[g].down # {}
    BY <1>3 DEF HasChoice
  <2> QED BY <2>1, <2>2, ClientAssumption DEF TypeOK, Offered
<1>4. ASSUME NEW g \in Goroutines, BeginSelection(g) PROVE BalancerStep
  BY <1>3, <1>4 DEF BeginSelection, BalancerStep
<1>5. ASSUME NEW g \in Goroutines, Select(g) PROVE BalancerStep
  BY <1>3, <1>5 DEF Select, Choose, BalancerStep
<1>6. CASE UNCHANGED balancerVars
  BY <1>6 DEF BalancerStep
<1> QED BY <1>1, <1>2, <1>4, <1>5, <1>6 DEF ClientNext, DiscoveryOnly, clientVars

LEMMA ClientBalancedInv == ClientSpec => []BalancedInv
<1>1. ClientInit => BalancedInv
  <2>1. (CHOOSE l \in Lists : TRUE) \in Lists
    BY BalancerAssumption
  <2> QED BY <2>1, NoWeightsSum
          DEF ClientInit, BalancerInit, BalancedInv, BalancerTypeOK, WeightsBalanced
<1>2. TypeOK /\ HasChoice /\ BalancedInv /\ [ClientNext]_clientVars => BalancedInv'
  BY ClientIsBalancer, StepBalanced
<1> QED BY <1>1, <1>2, ClientIsDiscovery, TypeCorrect, ChoiceHolds, PTL DEF ClientSpec

(* Inside the package too, with its filters bringing different lists, the   *)
(* weights of a service add up to zero.                                     *)
THEOREM ClientStaysBalanced == ClientSpec => []WeightsBalanced
<1>1. BalancedInv => WeightsBalanced
  BY DEF BalancedInv
<1> QED BY <1>1, ClientBalancedInv, PTL

\* Only the end of UnsubscribeService takes a counter away.
LEMMA CountersStay ==
  ASSUME TypeOK, BalancedInv, NEW s \in Services, [ClientNext]_clientVars,
         roundRobinCounters[s] # NoCounter,
         roundRobinCounters'[s] = NoCounter
  PROVE  \E g \in Goroutines : svc[g] = s /\ UnsubscribeClean(g)
<1> SUFFICES ASSUME \A g \in Goroutines : svc[g] = s => ~UnsubscribeClean(g)
             PROVE  roundRobinCounters'[s] # NoCounter
  OBVIOUS
<1> USE DEF BalancedInv, BalancerTypeOK, NoCounter
<1>1. ASSUME NEW t \in Services, ResetBalance(t) \/ StartBalance(t)
      PROVE  roundRobinCounters'[s] # NoCounter
  BY <1>1 DEF ResetBalance, StartBalance
<1>2. ASSUME NEW g \in Goroutines, UnsubscribeCleanBoth(g)
      PROVE  roundRobinCounters'[s] # NoCounter
  BY <1>2 DEF UnsubscribeCleanBoth, DropBalance
<1>3. ASSUME NEW g \in Goroutines, BeginSelection(g)
      PROVE  roundRobinCounters'[s] # NoCounter
  BY <1>3 DEF BeginSelection, Begin
<1>4. ASSUME NEW g \in Goroutines, NEW h \in Hosts, Add(g, h)
      PROVE  roundRobinCounters'[s] # NoCounter
  <2>1. \A c \in Int : c >= -1 => (c + 1) % Period \in Nat
    <3>1. Period \in Nat \ {0}
      BY BalancerAssumption
    <3> QED BY <3>1
  <2>2. \/ UNCHANGED roundRobinCounters
        \/ roundRobinCounters' = [roundRobinCounters EXCEPT
             ![service[g]] = (roundRobinCounters[service[g]] + 1) % Period]
    BY <1>4 DEF Add
  <2>3. CASE UNCHANGED roundRobinCounters
    BY <2>3
  <2>4. CASE roundRobinCounters' = [roundRobinCounters EXCEPT
               ![service[g]] = (roundRobinCounters[service[g]] + 1) % Period]
    <3>1. service[g] # s => roundRobinCounters'[s] = roundRobinCounters[s]
      BY <2>4
    <3>2. service[g] = s => roundRobinCounters'[s] = (roundRobinCounters[s] + 1) % Period
      BY <2>4
    <3>3. roundRobinCounters[s] \in Int /\ roundRobinCounters[s] >= -1
      OBVIOUS
    <3>4. (roundRobinCounters[s] + 1) % Period \in Nat
      BY <2>1, <3>3
    <3> QED BY <3>1, <3>2, <3>4
  <2> QED BY <2>2, <2>3, <2>4
<1>5. ASSUME UNCHANGED roundRobinCounters PROVE roundRobinCounters'[s] # NoCounter
  BY <1>5
<1>6. ASSUME NEW g \in Goroutines, NEW h \in Hosts,
             Weigh(g, h) \/ Random(g, svc[g], Offered(g), h)
      PROVE  UNCHANGED roundRobinCounters
  BY <1>6 DEF Weigh, Random, sharedVars
<1>7. ASSUME UNCHANGED balancerVars PROVE UNCHANGED roundRobinCounters
  BY <1>7 DEF balancerVars, sharedVars
<1>8. \A g \in Goroutines : svc[g] \in Services
  BY DEF TypeOK
<1> QED BY <1>1, <1>2, <1>3, <1>4, <1>5, <1>6, <1>7, <1>8
        DEF ClientNext, RunCallbackOfBoth, PublishBoth, DiscoveryOnly, Select, Pick, clientVars

(* Nobody that ensureServiceSubscribed let through has to create a counter: *)
(* only a service that was dropped meanwhile lacks one.                     *)
THEOREM CountersAreThere == ClientSpec => []SelectorsFindCounter
<1> DEFINE Marked == \A s \in Services : subscribedServices[s] => roundRobinCounters[s] # NoCounter
<1>1. ClientInit => Marked
  BY DEF ClientInit, Init
<1>2. ASSUME TypeOK, BalancedInv, Marked, [ClientNext]_clientVars PROVE Marked'
  <2> SUFFICES ASSUME NEW s \in Services, subscribedServices'[s]
               PROVE  roundRobinCounters'[s] # NoCounter
    OBVIOUS
  <2>1. CASE subscribedServices[s]
    <3>1. ASSUME NEW g \in Goroutines, svc[g] = s, UnsubscribeClean(g) PROVE FALSE
      BY <1>2, <3>1 DEF UnsubscribeClean, TypeOK
    <3> QED BY <1>2, <2>1, <3>1, CountersStay
  <2>2. CASE ~subscribedServices[s]
    <3>1. ASSUME NEW g \in Goroutines, PublishBoth(g)
          PROVE  svc[g] = s /\ roundRobinCounters'[s] = 0
      BY <1>2, <2>2, <3>1
      DEF PublishBoth, Publish, StartBalance, TypeOK, BalancedInv, BalancerTypeOK
    <3>2. ASSUME ~ \E g \in Goroutines : PublishBoth(g) PROVE FALSE
      <4>1. ASSUME subscribedServices' = subscribedServices PROVE FALSE
        BY <2>2, <4>1
      <4>2. ASSUME NEW g \in Goroutines, UnsubscribeCleanBoth(g) PROVE FALSE
        BY <1>2, <2>2, <4>2 DEF UnsubscribeCleanBoth, UnsubscribeClean, TypeOK
      <4>3. ASSUME NEW g \in Goroutines, DiscoveryOnly(g) PROVE FALSE
        BY <4>1, <4>3 DEF DiscoveryOnly, Call, CheckSubscribed, SelectInstances, StoreCallback,
           Subscribe, SdkError, ReadInstances, UnsubscribeCheck, UnsubscribeCall, cacheVars
      <4>4. ASSUME NEW g \in Goroutines, BeginSelection(g) \/ Select(g) PROVE FALSE
        BY <4>1, <4>4 DEF BeginSelection, Select, Choose, discoveryVars, cacheVars
      <4>5. ASSUME NEW t \in Services, RunCallbackOfBoth(t) \/ RegistryChange(t) \/ Notify(t)
            PROVE  FALSE
        BY <4>1, <4>5 DEF RunCallbackOfBoth, RunCallback, RegistryChange, Notify, cacheVars
      <4>6. ASSUME UNCHANGED clientVars PROVE FALSE
        BY <4>1, <4>6 DEF clientVars, discoveryVars, cacheVars
      <4> QED BY <1>2, <3>2, <4>2, <4>3, <4>4, <4>5, <4>6 DEF ClientNext
    <3> QED BY <3>1, <3>2 DEF NoCounter
  <2> QED BY <2>1, <2>2
<1>3. TypeOK /\ ListsInv /\ Marked => SelectorsFindCounter
  BY DEF TypeOK, ListsInv, SelectorsFindCounter
<1> HIDE DEF Marked
<1> QED BY <1>1, <1>2, <1>3, ClientBalancedInv, ClientIsDiscovery, TypeCorrect, ListsHold, PTL
        DEF ClientSpec
=============================================================================
