-------------------------- MODULE InductionProofs --------------------------
(***************************************************************************)
(* Induction and recursion for the other proofs.  The induction theorems   *)
(* of the library take an operator as a parameter; here a property is a    *)
(* set and a step is a function, which the provers can instantiate.        *)
(***************************************************************************)
EXTENDS Integers, FiniteSets, FiniteSetsExt, Functions, FiniteSetTheorems, TLAPS

(* A set with 0 and, with n, n + 1, has every number. *)
LEMMA SetInduction ==
    ASSUME NEW S, 0 \in S, \A n \in Nat : n \in S => n + 1 \in S
    PROVE  Nat \subseteq S
  <1> DEFINE R == {ss \in Nat \X Nat : ss[1] < ss[2]}
             T == Nat \ S
  <1> SUFFICES ASSUME T # {} PROVE FALSE
    OBVIOUS
  <1>1. IsWellFoundedOn(R, Nat)
    BY NatLessThanWellFounded DEF OpToRel
  <1>2. PICK x \in T : \A y \in T : ~(<<y, x>> \in R)
    <2> HIDE DEF R
    <2> QED  BY <1>1, WFMin
  <1>3. x # 0 /\ x - 1 \in Nat /\ x - 1 + 1 = x
    OBVIOUS
  <1>4. x - 1 \in T
    BY <1>3
  <1>5. <<x - 1, x>> \in R
    BY <1>3
  <1> QED  BY <1>2, <1>4, <1>5

(* From an element of B outside Root the function p leads to one of smaller *)
(* rank h: B is a forest with its roots in Root.                            *)
Descends(B, Root, p, h) ==
    h \in [B -> Nat] /\ \A b \in B \ Root : p[b] \in B /\ h[p[b]] < h[b]

(* What holds at the roots and passes from p[b] to b holds everywhere. *)
LEMMA ForestInduction ==
    ASSUME NEW B, NEW Root, NEW p, NEW h, Descends(B, Root, p, h), NEW T,
           \A b \in B : (b \in Root \/ p[b] \in T) => b \in T
    PROVE  B \subseteq T
  <1> DEFINE S == {n \in Nat : \A b \in B : h[b] < n => b \in T}
  <1>0. \A b \in B : h[b] \in Nat
    BY DEF Descends
  <1>1. 0 \in S
    BY <1>0
  <1>2. ASSUME NEW n \in Nat, n \in S PROVE n + 1 \in S
    <2>1. ASSUME NEW b \in B, h[b] < n + 1 PROVE b \in T
      <3>1. CASE b \in Root
        BY <3>1
      <3>2. CASE b \notin Root
        <4>1. p[b] \in B /\ h[p[b]] < h[b]
          BY <3>2 DEF Descends
        <4>2. h[p[b]] < n
          BY <1>0, <2>1, <4>1
        <4>3. p[b] \in T
          BY <1>2, <4>1, <4>2
        <4> QED  BY <4>3
      <3> QED  BY <3>1, <3>2
    <2> QED  BY <2>1
  <1>3. Nat \subseteq S
    <2> HIDE DEF S
    <2> QED  BY <1>1, <1>2, SetInduction
  <1>4. ASSUME NEW b \in B PROVE b \in T
    <2>1. h[b] + 1 \in S /\ h[b] < h[b] + 1
      BY <1>0, <1>3
    <2> QED  BY <2>1
  <1> QED  BY <1>4

(* g is defined on D by recursion along p, with init at the roots. *)
Recurs(D, Root, p, init, step, g) ==
    \A b \in D : g[b] = IF b \in Root THEN init[b] ELSE step[<<b, g[p[b]]>>]

Below(B, h, n) == {b \in B : h[b] < n}

(* Such a function exists. *)
LEMMA ForestRecursion ==
    ASSUME NEW B, NEW Root, NEW p, NEW h, Descends(B, Root, p, h),
           NEW V, NEW init \in [B -> V], NEW step \in [B \X V -> V]
    PROVE  \E g \in [B -> V] : Recurs(B, Root, p, init, step, g)
  <1> DEFINE Good(n, g) == g \in [Below(B, h, n) -> V] /\ Recurs(Below(B, h, n), Root, p, init, step, g)
             P == {n \in Nat : \E g : Good(n, g)}
             Fn(n) == CHOOSE g : Good(n, g)
             G == [b \in B |-> Fn(h[b] + 1)[b]]
  <1>0. \A b \in B : h[b] \in Nat
    BY DEF Descends
  <1>1. 0 \in P
    <2> DEFINE g == [b \in Below(B, h, 0) |-> init[b]]
    <2>1. Below(B, h, 0) = {}
      BY <1>0 DEF Below
    <2>2. Good(0, g)
      BY <2>1 DEF Recurs
    <2> QED  BY <2>2
  <1>2. ASSUME NEW n \in Nat, n \in P PROVE n + 1 \in P
    <2>1. PICK g : Good(n, g)
      BY <1>2
    <2> DEFINE k == [b \in Below(B, h, n + 1) |-> IF b \in Root THEN init[b] ELSE step[<<b, g[p[b]]>>]]
    <2>2. ASSUME NEW b \in Below(B, h, n + 1), b \notin Root
          PROVE  p[b] \in Below(B, h, n) /\ p[b] \in Below(B, h, n + 1) /\ g[p[b]] \in V /\ b \in B
      <3>1. b \in B /\ p[b] \in B /\ h[p[b]] < h[b] /\ h[b] < n + 1
        BY <2>2 DEF Descends, Below
      <3>2. h[p[b]] < n /\ h[p[b]] < n + 1
        BY <1>0, <3>1
      <3> QED  BY <2>1, <3>1, <3>2 DEF Below
    <2>3. ASSUME NEW b \in Below(B, h, n) PROVE b \in Below(B, h, n + 1) /\ k[b] = g[b]
      <3>1. b \in B /\ h[b] < n
        BY DEF Below
      <3>2. b \in Below(B, h, n + 1)
        BY <1>0, <3>1 DEF Below
      <3> QED  BY <2>1, <3>2 DEF Recurs
    <2>4. k \in [Below(B, h, n + 1) -> V]
      <3>1. ASSUME NEW b \in Below(B, h, n + 1)
            PROVE  (IF b \in Root THEN init[b] ELSE step[<<b, g[p[b]]>>]) \in V
        <4>1. b \in B
          BY DEF Below
        <4> QED  BY <2>2, <4>1
      <3> QED  BY <3>1
    <2>5. Recurs(Below(B, h, n + 1), Root, p, init, step, k)
      <3>1. ASSUME NEW b \in Below(B, h, n + 1)
            PROVE  k[b] = IF b \in Root THEN init[b] ELSE step[<<b, k[p[b]]>>]
        <4>1. b \notin Root => k[p[b]] = g[p[b]]
          BY <2>2, <2>3
        <4> QED  BY <4>1
      <3> HIDE DEF k
      <3> QED  BY <3>1 DEF Recurs
    <2> HIDE DEF k
    <2> QED  BY <2>4, <2>5
  <1>3. \A n \in Nat : Good(n, Fn(n))
    <2>1. Nat \subseteq P
      <3> HIDE DEF P
      <3> QED  BY <1>1, <1>2, SetInduction
    <2> HIDE DEF Good
    <2> TAKE n \in Nat
    <2>2. \E g : Good(n, g)
      BY <2>1
    <2> QED  BY <2>2
  <1> HIDE DEF Fn
  <1>4. \A b \in B : \A n \in Nat : h[b] < n => Fn(n)[b] = G[b]
    <2> DEFINE T == {b \in B : \A n \in Nat : h[b] < n => Fn(n)[b] = G[b]}
    <2>1. ASSUME NEW b \in B, b \in Root \/ p[b] \in T PROVE b \in T
      <3>1. ASSUME NEW n \in Nat, h[b] < n PROVE Fn(n)[b] = G[b]
        <4>1. h[b] \in Nat /\ h[b] + 1 \in Nat /\ h[b] < h[b] + 1
          BY <1>0
        <4>2. G[b] = IF b \in Root THEN init[b] ELSE step[<<b, Fn(h[b] + 1)[p[b]]>>]
          BY <1>3, <4>1 DEF Recurs, Below
        <4>3. Fn(n)[b] = IF b \in Root THEN init[b] ELSE step[<<b, Fn(n)[p[b]]>>]
          BY <1>3, <3>1 DEF Recurs, Below
        <4>4. CASE b \in Root
          BY <4>2, <4>3, <4>4
        <4>5. CASE b \notin Root
          <5>1. p[b] \in B /\ h[p[b]] < h[b] /\ h[p[b]] \in Nat /\ p[b] \in T
            BY <1>0, <2>1, <4>5 DEF Descends
          <5>2. h[p[b]] < n /\ h[p[b]] < h[b] + 1
            BY <3>1, <4>1, <5>1
          <5>3. Fn(n)[p[b]] = G[p[b]] /\ Fn(h[b] + 1)[p[b]] = G[p[b]]
            <6> HIDE DEF G
            <6> QED  BY <4>1, <5>1, <5>2
          <5> QED  BY <4>2, <4>3, <4>5, <5>3
        <4> QED  BY <4>4, <4>5
      <3> HIDE DEF G
      <3> QED  BY <3>1
    <2>2. B \subseteq T
      <3> HIDE DEF T
      <3> QED  BY <2>1, ForestInduction
    <2> HIDE DEF G
    <2> QED  BY <2>2
  <1>5. ASSUME NEW b \in B
        PROVE  G[b] \in V /\ G[b] = IF b \in Root THEN init[b] ELSE step[<<b, G[p[b]]>>]
    <2>1. h[b] \in Nat /\ h[b] + 1 \in Nat /\ h[b] < h[b] + 1
      BY <1>0
    <2>2. /\ Fn(h[b] + 1)[b] \in V
          /\ Fn(h[b] + 1)[b] = IF b \in Root THEN init[b] ELSE step[<<b, Fn(h[b] + 1)[p[b]]>>]
      BY <1>3, <2>1 DEF Recurs, Below
    <2>3. b \notin Root => Fn(h[b] + 1)[p[b]] = G[p[b]]
      <3> SUFFICES ASSUME b \notin Root PROVE Fn(h[b] + 1)[p[b]] = G[p[b]]
        OBVIOUS
      <3>1. p[b] \in B /\ h[p[b]] < h[b] /\ h[p[b]] \in Nat
        BY <1>0 DEF Descends
      <3>2. h[p[b]] < h[b] + 1
        BY <2>1, <3>1
      <3> HIDE DEF G
      <3> QED  BY <1>4, <2>1, <3>1, <3>2
    <2> QED  BY <2>2, <2>3
  <1>6. G \in [B -> V]
    BY <1>5
  <1>7. Recurs(B, Root, p, init, step, G)
    <2> HIDE DEF G
    <2> QED  BY <1>5 DEF Recurs
  <1> HIDE DEF G
  <1> QED  BY <1>6, <1>7
-----------------------------------------------------------------------------
(* Sums over finite sets: SumFunctionOnSet takes the elements in the order  *)
(* of a CHOOSE; what it computes does not depend on it.                     *)

Pick(s) == CHOOSE x \in s : TRUE

Sums(f, D, g) ==
    \A s \in D : g[s] = IF s = {} THEN 0 ELSE f[Pick(s)] + g[s \ {Pick(s)}]

IntOn(f, S) == \A x \in S : f[x] \in Int

LEMMA PickOne ==
    ASSUME NEW s, s # {}, IsFiniteSet(s)
    PROVE  /\ Pick(s) \in s /\ IsFiniteSet(s \ {Pick(s)}) /\ Cardinality(s) \in Nat
           /\ Cardinality(s \ {Pick(s)}) = Cardinality(s) - 1
  <1>1. Pick(s) \in s
    BY DEF Pick
  <1> QED  BY <1>1, FS_RemoveElement, FS_CardinalityType

(* The subsets of S, each leading to one without the chosen element. *)
WithoutPick(S) == [s \in SUBSET S |-> s \ {Pick(s)}]
Cards(S) == [s \in SUBSET S |-> Cardinality(s)]

LEMMA PicksDescend ==
    ASSUME NEW S, IsFiniteSet(S)
    PROVE  Descends(SUBSET S, {{}}, WithoutPick(S), Cards(S))
  <1>1. ASSUME NEW s \in SUBSET S PROVE IsFiniteSet(s) /\ Cardinality(s) \in Nat
    BY FS_Subset, FS_CardinalityType
  <1>2. ASSUME NEW s \in SUBSET S, s # {}
        PROVE  s \ {Pick(s)} \in SUBSET S /\ Cardinality(s \ {Pick(s)}) < Cardinality(s)
    <2>1. Cardinality(s) \in Nat /\ Cardinality(s \ {Pick(s)}) = Cardinality(s) - 1
      BY <1>1, <1>2, PickOne
    <2> QED  BY <2>1
  <1> QED  BY <1>1, <1>2 DEF Descends, WithoutPick, Cards

LEMMA SumsExist ==
    ASSUME NEW S, IsFiniteSet(S), NEW f, IntOn(f, S)
    PROVE  \E g \in [SUBSET S -> Int] : Sums(f, SUBSET S, g)
  <1> DEFINE B    == SUBSET S
             p    == WithoutPick(S)
             init == [s \in B |-> 0]
             step == [x \in B \X Int |-> IF x[1] = {} THEN 0 ELSE f[Pick(x[1])] + x[2]]
  <1>1. Descends(B, {{}}, p, Cards(S))
    BY PicksDescend
  <1>2. \A s \in B \ {{}} : f[Pick(s)] \in Int
    BY DEF Pick, IntOn
  <1>3. init \in [B -> Int]
    OBVIOUS
  <1>4. step \in [B \X Int -> Int]
    BY <1>2
  <1>5. PICK g \in [B -> Int] : Recurs(B, {{}}, p, init, step, g)
    <2> HIDE DEF B, p, init, step
    <2> QED  BY <1>1, <1>3, <1>4, ForestRecursion
  <1>6. ASSUME NEW s \in B
        PROVE  g[s] = IF s = {} THEN 0 ELSE f[Pick(s)] + g[s \ {Pick(s)}]
    <2>1. g[s] = IF s = {} THEN 0 ELSE step[<<s, g[p[s]]>>]
      BY <1>5 DEF Recurs
    <2>2. p[s] = s \ {Pick(s)} /\ s \ {Pick(s)} \in B /\ g[s \ {Pick(s)}] \in Int
      BY DEF WithoutPick
    <2> QED  BY <2>1, <2>2
  <1> QED  BY <1>6 DEF Sums

(* Equal values give equal sums. *)
LEMMA SumsAgree ==
    ASSUME NEW S, IsFiniteSet(S), NEW f, NEW f2, \A x \in S : f[x] = f2[x],
           NEW g, Sums(f, SUBSET S, g), NEW T, S \subseteq T, NEW k, Sums(f2, SUBSET T, k)
    PROVE  g[S] = k[S]
  <1> DEFINE B == SUBSET S
             p == WithoutPick(S)
             Eq == {s \in B : g[s] = k[s]}
  <1>1. Descends(B, {{}}, p, Cards(S))
    BY PicksDescend
  <1>2. ASSUME NEW s \in B, s \in {{}} \/ p[s] \in Eq PROVE s \in Eq
    <2>1. s \in SUBSET T
      OBVIOUS
    <2>2. g[s] = IF s = {} THEN 0 ELSE f[Pick(s)] + g[s \ {Pick(s)}]
      BY DEF Sums
    <2>3. k[s] = IF s = {} THEN 0 ELSE f2[Pick(s)] + k[s \ {Pick(s)}]
      BY <2>1 DEF Sums
    <2>4. s # {} => Pick(s) \in s
      BY DEF Pick
    <2>5. s # {} => g[s \ {Pick(s)}] = k[s \ {Pick(s)}]
      BY <1>2 DEF WithoutPick
    <2> QED  BY <2>2, <2>3, <2>4, <2>5
  <1>3. B \subseteq Eq
    <2> HIDE DEF B, Eq, p
    <2> QED  BY <1>1, <1>2, ForestInduction
  <1> QED  BY <1>3

(* g gives the sums over all subsets of S. *)
SumsOver(f, S, g) ==
    /\ g \in [SUBSET S -> Int] /\ Sums(f, SUBSET S, g)
    /\ \A s \in SUBSET S : SumFunctionOnSet(f, s) = g[s]

LEMMA SumIs ==
    ASSUME NEW S, IsFiniteSet(S), NEW f, IntOn(f, S)
    PROVE  \E g : SumsOver(f, S, g)
  <1>1. PICK g \in [SUBSET S -> Int] : Sums(f, SUBSET S, g)
    BY SumsExist
  <1>2. ASSUME NEW s \in SUBSET S PROVE SumFunctionOnSet(f, s) = g[s]
    <2> DEFINE Q(k) == k = [r \in SUBSET s |-> IF r = {} THEN 0 ELSE f[Pick(r)] + k[r \ {Pick(r)}]]
               it == CHOOSE k : Q(k)
    <2>1. IsFiniteSet(s) /\ IntOn(f, s)
      BY FS_Subset DEF IntOn
    <2>2. PICK k \in [SUBSET s -> Int] : Sums(f, SUBSET s, k)
      BY <2>1, SumsExist
    <2>3. Q(k)
      BY <2>2 DEF Sums
    <2>4. Q(it)
      BY <2>3
    <2>5. SumFunctionOnSet(f, s) = it[s]
      BY DEF SumFunctionOnSet, FoldFunctionOnSet, MapThenFoldSet, Pick
    <2> HIDE DEF it
    <2>6. Sums(f, SUBSET s, it)
      BY <2>4 DEF Sums
    <2>7. s \subseteq S /\ \A x \in s : f[x] = f[x]
      OBVIOUS
    <2>8. it[s] = g[s]
      BY <1>1, <2>1, <2>6, <2>7, SumsAgree
    <2> QED  BY <2>5, <2>8
  <1> QED  BY <1>1, <1>2 DEF SumsOver

LEMMA SumUnfolds ==
    ASSUME NEW S, IsFiniteSet(S), NEW f, IntOn(f, S)
    PROVE  /\ SumFunctionOnSet(f, S) \in Int
           /\ S = {} => SumFunctionOnSet(f, S) = 0
           /\ S # {} => SumFunctionOnSet(f, S)
                          = f[Pick(S)] + SumFunctionOnSet(f, S \ {Pick(S)})
  <1>1. PICK g : SumsOver(f, S, g)
    BY SumIs
  <1>2. S \in SUBSET S /\ S \ {Pick(S)} \in SUBSET S
    OBVIOUS
  <1>3. g[S] \in Int /\ g[S] = IF S = {} THEN 0 ELSE f[Pick(S)] + g[S \ {Pick(S)}]
    BY <1>1, <1>2 DEF Sums, SumsOver
  <1> QED  BY <1>1, <1>2, <1>3 DEF SumsOver

LEMMA SumCongruence ==
    ASSUME NEW S, IsFiniteSet(S), NEW f, IntOn(f, S), NEW f2, \A x \in S : f[x] = f2[x]
    PROVE  SumFunctionOnSet(f, S) = SumFunctionOnSet(f2, S)
  <1>0. IntOn(f2, S)
    BY DEF IntOn
  <1>1. PICK g : SumsOver(f, S, g)
    BY SumIs
  <1>2. PICK k : SumsOver(f2, S, k)
    BY <1>0, SumIs
  <1>3. S \subseteq S /\ S \in SUBSET S
    OBVIOUS
  <1>4. g[S] = k[S]
    BY <1>1, <1>2, <1>3, SumsAgree DEF SumsOver
  <1> QED  BY <1>1, <1>2, <1>3, <1>4 DEF SumsOver

(* Any element may be taken first. *)
LEMMA SumRemove ==
    ASSUME NEW f, NEW S, IsFiniteSet(S), IntOn(f, S), NEW x \in S
    PROVE  SumFunctionOnSet(f, S) = f[x] + SumFunctionOnSet(f, S \ {x})
  <1> DEFINE Sum(s) == SumFunctionOnSet(f, s)
             T == {s \in SUBSET S : \A y \in s : Sum(s) = f[y] + Sum(s \ {y})}
             N == {n \in Nat : \A s \in SUBSET S : Cardinality(s) = n => s \in T}
  <1>0. ASSUME NEW s \in SUBSET S
        PROVE  IsFiniteSet(s) /\ Cardinality(s) \in Nat /\ IntOn(f, s)
    BY FS_Subset, FS_CardinalityType DEF IntOn
  <1>1. ASSUME NEW s \in SUBSET S
        PROVE  Sum(s) \in Int /\ (s # {} => Sum(s) = f[Pick(s)] + Sum(s \ {Pick(s)}))
    BY <1>0, SumUnfolds
  <1>2. 0 \in N
    <2>1. ASSUME NEW s \in SUBSET S, Cardinality(s) = 0 PROVE s \in T
      BY <1>0, <2>1, FS_EmptySet
    <2> QED  BY <2>1
  <1>3. ASSUME NEW n \in Nat, n \in N PROVE n + 1 \in N
    <2>1. ASSUME NEW s \in SUBSET S, Cardinality(s) = n + 1, NEW y \in s
          PROVE  Sum(s) = f[y] + Sum(s \ {y})
      <3> DEFINE z == Pick(s)
      <3>1. z \in s /\ Sum(s) = f[z] + Sum(s \ {z})
        BY <1>1 DEF Pick
      <3>2. ASSUME NEW u \in s PROVE s \ {u} \in SUBSET S /\ Cardinality(s \ {u}) = n
        <4>1. IsFiniteSet(s) /\ Cardinality(s \ {u}) = Cardinality(s) - 1
          BY <1>0, FS_RemoveElement
        <4> QED  BY <2>1, <4>1
      <3> HIDE DEF z
      <3>3. CASE y = z
        BY <3>1, <3>3
      <3>4. CASE y # z
        <4>1. s \ {z} \in T /\ s \ {y} \in T
          BY <1>3, <3>1, <3>2
        <4> HIDE DEF Sum
        <4>2. Sum(s \ {z}) = f[y] + Sum((s \ {z}) \ {y})
          BY <3>4, <4>1
        <4>3. Sum(s \ {y}) = f[z] + Sum((s \ {y}) \ {z})
          BY <3>1, <3>4, <4>1
        <4>4. (s \ {z}) \ {y} = (s \ {y}) \ {z}
          OBVIOUS
        <4>5. f[y] \in Int /\ f[z] \in Int /\ Sum((s \ {y}) \ {z}) \in Int
          BY <1>1, <3>1 DEF IntOn
        <4> DEFINE c == Sum((s \ {y}) \ {z})
                   i == f[y]
                   j == f[z]
        <4>6. /\ c \in Int /\ i \in Int /\ j \in Int
              /\ Sum(s) = j + (i + c) /\ Sum(s \ {y}) = j + c /\ f[y] = i
          BY <3>1, <4>2, <4>3, <4>4, <4>5
        <4> HIDE DEF c, i, j
        <4> QED  BY <4>6
      <3> QED  BY <3>3, <3>4
    <2> HIDE DEF Sum
    <2> QED  BY <2>1
  <1>4. Nat \subseteq N
    <2> HIDE DEF N
    <2> QED  BY <1>2, <1>3, SetInduction
  <1>5. S \in T
    BY <1>0, <1>4
  <1> QED  BY <1>5

LEMMA SumAdd ==
    ASSUME NEW f, NEW S, IsFiniteSet(S), IntOn(f, S), NEW x, x \notin S, f[x] \in Int
    PROVE  SumFunctionOnSet(f, S \cup {x}) = SumFunctionOnSet(f, S) + f[x]
  <1>1. IsFiniteSet(S \cup {x}) /\ IntOn(f, S \cup {x}) /\ x \in S \cup {x}
    BY FS_AddElement DEF IntOn
  <1>2. (S \cup {x}) \ {x} = S
    OBVIOUS
  <1>3. SumFunctionOnSet(f, S) \in Int
    BY SumUnfolds
  <1>4. SumFunctionOnSet(f, S \cup {x}) = f[x] + SumFunctionOnSet(f, (S \cup {x}) \ {x})
    BY <1>1, SumRemove
  <1> DEFINE a == SumFunctionOnSet(f, S)
             c == f[x]
  <1>5. a \in Int /\ c \in Int /\ SumFunctionOnSet(f, S \cup {x}) = c + a
    BY <1>2, <1>3, <1>4
  <1>6. c + a = a + c
    <2> HIDE DEF a, c
    <2> QED  BY <1>5
  <1> QED  BY <1>5, <1>6

LEMMA SumUnion ==
    ASSUME NEW f, NEW S, IsFiniteSet(S), IntOn(f, S),
           NEW R, IsFiniteSet(R), IntOn(f, R), S \cap R = {}
    PROVE  SumFunctionOnSet(f, S \cup R) = SumFunctionOnSet(f, S) + SumFunctionOnSet(f, R)
  <1> DEFINE Sum(s) == SumFunctionOnSet(f, s)
             B == SUBSET R
             p == WithoutPick(R)
             T == {s \in B : Sum(S \cup s) = Sum(S) + Sum(s)}
  <1>1. Descends(B, {{}}, p, Cards(R))
    BY PicksDescend
  <1>2. ASSUME NEW s \in B PROVE IsFiniteSet(s) /\ IntOn(f, s) /\ Sum(s) \in Int
    BY FS_Subset, SumUnfolds DEF IntOn
  <1>3. Sum(S) \in Int /\ Sum({}) = 0
    BY SumUnfolds, FS_EmptySet DEF IntOn
  <1>4. ASSUME NEW s \in B, s \in {{}} \/ p[s] \in T PROVE s \in T
    <2>1. CASE s = {}
      <3>1. S \cup s = S
        BY <2>1
      <3> QED  BY <1>3, <2>1, <3>1
    <2>2. CASE s # {}
      <3> DEFINE z == Pick(s)
                 r == s \ {z}
      <3>1. z \in s /\ r \in B /\ r \in T
        BY <1>4, <2>2 DEF Pick, WithoutPick
      <3> HIDE DEF z
      <3>2. Sum(S \cup r) = Sum(S) + Sum(r)
        BY <3>1
      <3>3. z \notin S \cup r /\ f[z] \in Int
        BY <3>1 DEF IntOn
      <3>4. IsFiniteSet(S \cup r) /\ IntOn(f, S \cup r) /\ IsFiniteSet(r) /\ IntOn(f, r)
        BY <1>2, <3>1, FS_Union DEF IntOn
      <3>5. (S \cup r) \cup {z} = S \cup s /\ r \cup {z} = s
        BY <3>1
      <3>6. SumFunctionOnSet(f, (S \cup r) \cup {z}) = SumFunctionOnSet(f, S \cup r) + f[z]
        BY <3>3, <3>4, SumAdd
      <3>7. z \notin r
        BY <3>3
      <3>8. SumFunctionOnSet(f, r \cup {z}) = SumFunctionOnSet(f, r) + f[z]
        BY <3>3, <3>4, <3>7, SumAdd
      <3>9. Sum(r) \in Int
        BY <1>2, <3>1
      <3>10. Sum(S \cup s) = Sum(S) + Sum(s)
        <4> DEFINE a == Sum(S)
                   c == Sum(r)
                   d == f[z]
        <4>1. a \in Int /\ c \in Int /\ d \in Int
          BY <1>3, <3>3, <3>9
        <4>2. Sum(S \cup s) = a + c + d /\ Sum(s) = c + d
          BY <3>2, <3>5, <3>6, <3>8
        <4>3. a + c + d = a + (c + d)
          <5> HIDE DEF a, c, d
          <5> QED  BY <4>1
        <4> QED  BY <4>2, <4>3
      <3> QED  BY <3>10
    <2> QED  BY <2>1, <2>2
  <1>5. B \subseteq T
    <2> HIDE DEF B, T, p
    <2> QED  BY <1>1, <1>4, ForestInduction
  <1> QED  BY <1>5

(* A sum of numbers is a number. *)
LEMMA SumNat ==
    ASSUME NEW f, NEW S, IsFiniteSet(S), \A x \in S : f[x] \in Nat
    PROVE  SumFunctionOnSet(f, S) \in Nat
  <1> DEFINE B == SUBSET S
             p == WithoutPick(S)
             T == {s \in B : SumFunctionOnSet(f, s) \in Nat}
  <1>1. Descends(B, {{}}, p, Cards(S))
    BY PicksDescend
  <1>2. ASSUME NEW s \in B, s \in {{}} \/ p[s] \in T PROVE s \in T
    <2>1. IsFiniteSet(s) /\ IntOn(f, s)
      BY FS_Subset DEF IntOn
    <2>2. /\ s = {} => SumFunctionOnSet(f, s) = 0
          /\ s # {} => SumFunctionOnSet(f, s) = f[Pick(s)] + SumFunctionOnSet(f, s \ {Pick(s)})
      BY <2>1, SumUnfolds
    <2>3. s # {} => SumFunctionOnSet(f, s \ {Pick(s)}) \in Nat /\ f[Pick(s)] \in Nat
      BY <1>2 DEF WithoutPick, Pick
    <2> QED  BY <2>2, <2>3
  <1>3. B \subseteq T
    <2> HIDE DEF B, T, p
    <2> QED  BY <1>1, <1>2, ForestInduction
  <1> QED  BY <1>3

LEMMA SumZero ==
    ASSUME NEW f, NEW S, IsFiniteSet(S), \A x \in S : f[x] = 0
    PROVE  SumFunctionOnSet(f, S) = 0
  <1> DEFINE B == SUBSET S
             p == WithoutPick(S)
             T == {s \in B : SumFunctionOnSet(f, s) = 0}
  <1>1. Descends(B, {{}}, p, Cards(S))
    BY PicksDescend
  <1>2. ASSUME NEW s \in B, s \in {{}} \/ p[s] \in T PROVE s \in T
    <2>1. IsFiniteSet(s) /\ IntOn(f, s)
      BY FS_Subset DEF IntOn
    <2>2. /\ s = {} => SumFunctionOnSet(f, s) = 0
          /\ s # {} => SumFunctionOnSet(f, s) = f[Pick(s)] + SumFunctionOnSet(f, s \ {Pick(s)})
      BY <2>1, SumUnfolds
    <2>3. s # {} => SumFunctionOnSet(f, s \ {Pick(s)}) = 0 /\ f[Pick(s)] = 0
      BY <1>2 DEF WithoutPick, Pick
    <2> QED  BY <2>2, <2>3
  <1>3. B \subseteq T
    <2> HIDE DEF B, T, p
    <2> QED  BY <1>1, <1>2, ForestInduction
  <1> QED  BY <1>3
-----------------------------------------------------------------------------
(* g[k] is n >> k. *)
Halves(n, g) == g = [k \in Nat |-> IF k = 0 THEN n ELSE g[k - 1] \div 2]

LEMMA Halving ==
    ASSUME NEW n \in Nat, NEW g, g = CHOOSE f : Halves(n, f)
    PROVE  /\ g \in [Nat -> Nat] /\ g[0] = n
           /\ \A k \in Nat \ {0} : g[k] = g[k - 1] \div 2
  <1> DEFINE p    == [k \in Nat |-> k - 1]
             h    == [k \in Nat |-> k]
             init == [k \in Nat |-> n]
             step == [x \in Nat \X Nat |-> x[2] \div 2]
             Root == {0}
  <1>1. Descends(Nat, Root, p, h)
    BY DEF Descends
  <1>2. init \in [Nat -> Nat] /\ step \in [Nat \X Nat -> Nat]
    OBVIOUS
  <1>3. PICK f \in [Nat -> Nat] : Recurs(Nat, Root, p, init, step, f)
    <2> HIDE DEF p, h, init, step, Root
    <2> QED  BY <1>1, <1>2, ForestRecursion
  <1>4. Halves(n, f)
    <2>1. ASSUME NEW k \in Nat PROVE f[k] = IF k = 0 THEN n ELSE f[k - 1] \div 2
      <3>1. f[k] = IF k \in Root THEN init[k] ELSE step[<<k, f[p[k]]>>]
        BY <1>3 DEF Recurs
      <3>2. k # 0 => k - 1 \in Nat /\ p[k] = k - 1 /\ f[k - 1] \in Nat
        OBVIOUS
      <3> QED  BY <3>1, <3>2
    <2> QED  BY <2>1 DEF Halves
  <1>5. Halves(n, g)
    BY <1>4
  <1>6. \A k \in Nat : g[k] = IF k = 0 THEN n ELSE g[k - 1] \div 2
    BY <1>5 DEF Halves
  <1> DEFINE T == {k \in Nat : g[k] \in Nat}
  <1>7. Nat \subseteq T
    <2>1. 0 \in T
      BY <1>6
    <2>2. ASSUME NEW k \in Nat, k \in T PROVE k + 1 \in T
      <3>1. k + 1 \in Nat /\ k + 1 # 0 /\ (k + 1) - 1 = k
        OBVIOUS
      <3>2. g[k + 1] = g[k] \div 2
        BY <1>6, <3>1
      <3> QED  BY <2>2, <3>2
    <2> HIDE DEF T
    <2> QED  BY <2>1, <2>2, SetInduction
  <1>8. g = [k \in Nat |-> g[k]]
    BY <1>5 DEF Halves
  <1>9. g \in [Nat -> Nat]
    BY <1>7, <1>8
  <1> QED  BY <1>6, <1>9

-----------------------------------------------------------------------------
(* Folding a sequence from the left.                                        *)

LEMMA MaxIn ==
    ASSUME NEW N \in Nat, NEW r \in SUBSET (1 .. N), r # {}
    PROVE  Max(r) \in r /\ \A y \in r : Max(r) >= y
  <1> DEFINE HasMax(q) == \E x \in q : \A y \in q : x >= y
             S == {n \in Nat : \A q \in SUBSET (1 .. n) : q # {} => HasMax(q)}
  <1>1. 0 \in S
    <2>1. \A q \in SUBSET (1 .. 0) : q = {}
      OBVIOUS
    <2> QED  BY <2>1
  <1>2. ASSUME NEW n \in Nat, n \in S PROVE n + 1 \in S
    <2> SUFFICES ASSUME NEW q \in SUBSET (1 .. n + 1), q # {} PROVE HasMax(q)
      OBVIOUS
    <2>1. CASE n + 1 \in q
      <3>1. \A y \in q : n + 1 >= y
        OBVIOUS
      <3> QED  BY <2>1, <3>1
    <2>2. CASE n + 1 \notin q
      <3>1. q \in SUBSET (1 .. n)
        BY <2>2
      <3> QED  BY <1>2, <3>1
    <2> QED  BY <2>1, <2>2
  <1>3. Nat \subseteq S
    <2> HIDE DEF S
    <2> QED  BY <1>1, <1>2, SetInduction
  <1>4. HasMax(r)
    BY <1>3
  <1> QED  BY <1>4 DEF Max

WithoutMax(N) == [r \in SUBSET (1 .. N) |-> r \ {Max(r)}]

LEMMA MaxesDescend ==
    ASSUME NEW N \in Nat
    PROVE  Descends(SUBSET (1 .. N), {{}}, WithoutMax(N), Cards(1 .. N))
  <1>1. IsFiniteSet(1 .. N)
    BY FS_Interval
  <1>2. \A r \in SUBSET (1 .. N) : IsFiniteSet(r) /\ Cardinality(r) \in Nat
    BY <1>1, FS_Subset, FS_CardinalityType
  <1>3. ASSUME NEW r \in SUBSET (1 .. N), r # {}
        PROVE  r \ {Max(r)} \in SUBSET (1 .. N) /\ Cardinality(r \ {Max(r)}) < Cardinality(r)
    <2>1. Max(r) \in r
      BY <1>3, MaxIn
    <2>2. Cardinality(r \ {Max(r)}) = Cardinality(r) - 1
      BY <1>2, <2>1, FS_RemoveElement
    <2>3. Cardinality(r) \in Nat /\ r \ {Max(r)} \subseteq 1 .. N
      BY <1>2
    <2> HIDE DEF Max
    <2> QED  BY <2>2, <2>3
  <1> QED  BY <1>2, <1>3 DEF Descends, WithoutMax, Cards

(* g is the fold of step over the sets of indices, the highest index last. *)
FoldsUp(N, base, step, g) ==
    \A r \in SUBSET (1 .. N) : g[r] = IF r = {} THEN base ELSE step[<<g[r \ {Max(r)}], Max(r)>>]

LEMMA FoldExists ==
    ASSUME NEW N \in Nat, NEW V, NEW base \in V, NEW step \in [V \X (1 .. N) -> V]
    PROVE  \E g \in [SUBSET (1 .. N) -> V] : FoldsUp(N, base, step, g)
  <1> DEFINE B    == SUBSET (1 .. N)
             p    == WithoutMax(N)
             init == [r \in B |-> base]
             f    == [x \in B \X V |-> IF x[1] = {} THEN base ELSE step[<<x[2], Max(x[1])>>]]
  <1>1. Descends(B, {{}}, p, Cards(1 .. N))
    BY MaxesDescend
  <1>2. \A r \in B : r # {} => Max(r) \in 1 .. N
    BY MaxIn
  <1>3. init \in [B -> V] /\ f \in [B \X V -> V]
    BY <1>2
  <1>4. PICK g \in [B -> V] : Recurs(B, {{}}, p, init, f, g)
    <2> HIDE DEF B, p, init, f
    <2> QED  BY <1>1, <1>3, ForestRecursion
  <1>5. ASSUME NEW r \in B
        PROVE  g[r] = IF r = {} THEN base ELSE step[<<g[r \ {Max(r)}], Max(r)>>]
    <2>1. g[r] = IF r \in {{}} THEN init[r] ELSE f[<<r, g[p[r]]>>]
      BY <1>4 DEF Recurs
    <2>2. p[r] = r \ {Max(r)} /\ p[r] \in B /\ g[p[r]] \in V
      BY <1>4 DEF WithoutMax
    <2> HIDE DEF p
    <2> QED  BY <2>1, <2>2
  <1> QED  BY <1>4, <1>5 DEF FoldsUp

(* The indices up to k are those up to k - 1 and k, which is the highest. *)
LEMMA LastIndex ==
    ASSUME NEW N \in Nat, NEW k \in 1 .. N
    PROVE  /\ 1 .. k \in SUBSET (1 .. N) /\ 1 .. k # {}
           /\ Max(1 .. k) = k /\ (1 .. k) \ {Max(1 .. k)} = 1 .. (k - 1)
  <1>1. k \in Nat /\ k \in 1 .. k
    OBVIOUS
  <1>2. Max(1 .. k) \in 1 .. k /\ \A y \in 1 .. k : Max(1 .. k) >= y
    BY <1>1, MaxIn
  <1>3. Max(1 .. k) = k
    BY <1>1, <1>2
  <1> QED  BY <1>1, <1>3
=============================================================================
