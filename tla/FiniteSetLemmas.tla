-------------------------- MODULE FiniteSetLemmas ---------------------------
(***************************************************************************)
(* Facts about finite sets, sums and bounded sets of numbers that several  *)
(* proofs need.  Each argues from a smallest counterexample.               *)
(***************************************************************************)
EXTENDS Integers, FiniteSets, Functions, FiniteSetTheorems, TLAPS

(* Of some subsets of a finite set, one contains no other.                 *)
LEMMA SmallestSet ==
    ASSUME NEW S, IsFiniteSet(S), NEW C, C \subseteq SUBSET S, C # {}
    PROVE  \E s \in C : \A t \in C : t \subseteq s => t = s
<1>1. C \subseteq FiniteSubsetsOf(S)
  BY FS_FiniteSubsetsOfFinite
<1>2. IsWellFoundedOn(StrictSubsetOrdering(S), FiniteSubsetsOf(S))
  BY FS_StrictSubsetOrderingWellFounded
<1>3. PICK s \in C : \A t \in C : ~(<<t, s>> \in StrictSubsetOrdering(S))
  BY <1>1, <1>2, WFMin
<1>4. ASSUME NEW t \in C, t \subseteq s, t # s
      PROVE  FALSE
  <2>1. <<t, s>> \in (SUBSET S) \X (SUBSET S)
    OBVIOUS
  <2>2. <<t, s>> \in StrictSubsetOrdering(S)
    BY <2>1, <1>4 DEF StrictSubsetOrdering
  <2>3. QED
    BY <2>2, <1>3
<1>5. QED
  BY <1>4

(* The sum over a set is what a recursive function says: Peel adds up its  *)
(* subsets from g, taking the element Some.                                *)
Some(s) == CHOOSE x \in s : TRUE
Peel(f, S, g) == [s \in SUBSET S |-> IF s = {} THEN 0 ELSE f[Some(s)] + g[s \ {Some(s)}]]

LEMMA SumIsChosen ==
    ASSUME NEW f, NEW S
    PROVE  SumFunctionOnSet(f, S) = (CHOOSE g : g = Peel(f, S, g))[S]
BY DEF SumFunctionOnSet, FoldFunctionOnSet, MapThenFoldSet, Peel, Some

LEMMA SomeIsElement ==
    ASSUME NEW s, s # {}
    PROVE  Some(s) \in s
BY DEF Some

LEMMA PeelAt ==
    ASSUME NEW f, NEW S, NEW g, g = Peel(f, S, g), NEW s \in SUBSET S
    PROVE  g[s] = IF s = {} THEN 0 ELSE f[Some(s)] + g[s \ {Some(s)}]
BY DEF Peel

LEMMA PeelIsUnique ==
    ASSUME NEW f, NEW S, NEW T, NEW g, NEW h, g = Peel(f, S, g), h = Peel(f, T, h),
           NEW R \in SUBSET (S \cap T), IsFiniteSet(R)
    PROVE  g[R] = h[R]
<1> DEFINE Bad == {s \in SUBSET R : g[s] # h[s]}
<1>1. SUFFICES ASSUME Bad # {} PROVE FALSE
  OBVIOUS
<1>2. PICK s \in Bad : \A t \in Bad : t \subseteq s => t = s
  <2>1. Bad \subseteq SUBSET R
    OBVIOUS
  <2> HIDE DEF Bad
  <2>2. QED
    BY <2>1, <1>1, SmallestSet
<1>3. s # {}
  BY <1>2, PeelAt
<1>4. Some(s) \in s
  BY <1>3, SomeIsElement
<1>5. g[s \ {Some(s)}] = h[s \ {Some(s)}]
  BY <1>2, <1>4
<1>6. g[s] = h[s]
  <2>1. s \in SUBSET S /\ s \in SUBSET T
    OBVIOUS
  <2>2. g[s] = f[Some(s)] + g[s \ {Some(s)}]
    BY <1>3, <2>1, PeelAt
  <2>3. h[s] = f[Some(s)] + h[s \ {Some(s)}]
    BY <1>3, <2>1, PeelAt
  <2>4. QED
    BY <2>2, <2>3, <1>5
<1>7. QED
  BY <1>2, <1>6

LEMMA SumByPeel ==
    ASSUME NEW f, NEW S, IsFiniteSet(S), \E g : g = Peel(f, S, g)
    PROVE  SumFunctionOnSet(f, S) =
              IF S = {} THEN 0 ELSE f[Some(S)] + SumFunctionOnSet(f, S \ {Some(S)})
<1> DEFINE G(s) == CHOOSE g : g = Peel(f, s, g)
           R == S \ {Some(S)}
<1>1. G(S) = Peel(f, S, G(S))
  OBVIOUS
<1>2. SumFunctionOnSet(f, S) = G(S)[S] /\ SumFunctionOnSet(f, R) = G(R)[R]
  BY SumIsChosen
<1> DEFINE h == [s \in SUBSET R |-> G(S)[s]]
<1>3. h = Peel(f, R, h)
  <2>1. ASSUME NEW s \in SUBSET R
        PROVE  h[s] = IF s = {} THEN 0 ELSE f[Some(s)] + h[s \ {Some(s)}]
    <3> HIDE DEF G
    <3>1. G(S)[s] = IF s = {} THEN 0 ELSE f[Some(s)] + G(S)[s \ {Some(s)}]
      BY <1>1, PeelAt
    <3>2. QED
      BY <3>1
  <2> HIDE DEF G
  <2>2. QED
    BY <2>1 DEF Peel
<1>4. G(R) = Peel(f, R, G(R))
  BY <1>3
<1> HIDE DEF G, h
<1>5. IsFiniteSet(R) /\ R \in SUBSET (S \cap R)
  BY FS_Subset
<1>6. G(S)[R] = G(R)[R]
  BY <1>1, <1>4, <1>5, PeelIsUnique
<1>7. G(S)[S] = IF S = {} THEN 0 ELSE f[Some(S)] + G(S)[R]
  BY <1>1, PeelAt
<1>8. QED
  BY <1>2, <1>6, <1>7

LEMMA PeelExists ==
    ASSUME NEW f, NEW S, IsFiniteSet(S)
    PROVE  \E g : g = Peel(f, S, g)
<1> DEFINE Bad == {s \in SUBSET S : ~\E g : g = Peel(f, s, g)}
<1>1. SUFFICES ASSUME Bad # {} PROVE FALSE
  OBVIOUS
<1>2. PICK R \in Bad : \A t \in Bad : t \subseteq R => t = R
  <2>1. Bad \subseteq SUBSET S
    OBVIOUS
  <2> HIDE DEF Bad
  <2>2. QED
    BY <2>1, <1>1, SmallestSet
<1> DEFINE sum(s) == SumFunctionOnSet(f, s)
           h == [s \in SUBSET R |-> IF s = {} THEN 0 ELSE f[Some(s)] + sum(s \ {Some(s)})]
<1>3. ASSUME NEW s \in SUBSET R, s # R
      PROVE  h[s] = sum(s)
  <2>1. \E g : g = Peel(f, s, g)
    BY <1>2, <1>3
  <2>2. IsFiniteSet(s)
    BY FS_Subset
  <2>3. QED
    BY <2>1, <2>2, SumByPeel
<1>4. h = Peel(f, R, h)
  <2>1. ASSUME NEW s \in SUBSET R, s # {}
        PROVE  h[s \ {Some(s)}] = sum(s \ {Some(s)})
    <3>1. Some(s) \in s
      BY <2>1, SomeIsElement
    <3>2. s \ {Some(s)} \in SUBSET R /\ s \ {Some(s)} # R
      BY <3>1
    <3>3. QED
      BY <3>2, <1>3
  <2> DEFINE k == h
  <2>2. k = [s \in SUBSET R |-> IF s = {} THEN 0 ELSE f[Some(s)] + sum(s \ {Some(s)})]
    OBVIOUS
  <2>3. \A s \in SUBSET R : s # {} => k[s \ {Some(s)}] = sum(s \ {Some(s)})
    BY <2>1
  <2> HIDE DEF k, h, sum
  <2>4. k = Peel(f, R, k)
    BY <2>2, <2>3 DEF Peel
  <2>5. QED
    BY <2>4 DEF k
<1>5. QED
  BY <1>2, <1>4

LEMMA SumRecursive ==
    ASSUME NEW f, NEW S, IsFiniteSet(S)
    PROVE  SumFunctionOnSet(f, S) =
              IF S = {} THEN 0 ELSE f[Some(S)] + SumFunctionOnSet(f, S \ {Some(S)})
BY PeelExists, SumByPeel

(* The sum of natural numbers over a finite set is one, and any element    *)
(* may be taken out of it first.                                           *)
LEMMA SumType ==
    ASSUME NEW D, NEW f \in [D -> Nat], NEW S \in SUBSET D, IsFiniteSet(S)
    PROVE  SumFunctionOnSet(f, S) \in Nat
<1> DEFINE Bad == {s \in SUBSET S : SumFunctionOnSet(f, s) \notin Nat}
<1>1. SUFFICES ASSUME Bad # {} PROVE FALSE
  OBVIOUS
<1>2. PICK s \in Bad : \A t \in Bad : t \subseteq s => t = s
  <2>1. Bad \subseteq SUBSET S
    OBVIOUS
  <2> HIDE DEF Bad
  <2>2. QED
    BY <2>1, <1>1, SmallestSet
<1>3. IsFiniteSet(s)
  BY FS_Subset
<1>4. s # {}
  <2>1. s = {} => SumFunctionOnSet(f, s) = 0
    BY <1>3, SumRecursive
  <2>2. QED
    BY <2>1, <1>2
<1>5. Some(s) \in s
  BY <1>4, SomeIsElement
<1>6. SumFunctionOnSet(f, s \ {Some(s)}) \in Nat
  BY <1>2, <1>5
<1>7. QED
  BY <1>2, <1>3, <1>4, <1>5, <1>6, SumRecursive

LEMMA SumTakesOut ==
    ASSUME NEW D, NEW f \in [D -> Nat], NEW S \in SUBSET D, IsFiniteSet(S), NEW x \in S
    PROVE  SumFunctionOnSet(f, S) = f[x] + SumFunctionOnSet(f, S \ {x})
<1> DEFINE sum(s) == SumFunctionOnSet(f, s)
           Bad == {s \in SUBSET S : \E y \in s : sum(s) # f[y] + sum(s \ {y})}
<1>1. SUFFICES ASSUME Bad # {} PROVE FALSE
  OBVIOUS
<1>2. PICK s \in Bad : \A t \in Bad : t \subseteq s => t = s
  <2>1. Bad \subseteq SUBSET S
    OBVIOUS
  <2> HIDE DEF Bad
  <2>2. QED
    BY <2>1, <1>1, SmallestSet
<1>3. PICK y \in s : sum(s) # f[y] + sum(s \ {y})
  BY <1>2
<1> DEFINE z == Some(s)
<1>4. z \in s
  BY <1>3, SomeIsElement
<1>5. \A t \in SUBSET s : IsFiniteSet(t) /\ sum(t) \in Nat
  BY FS_Subset, SumType
<1>6. sum(s) = f[z] + sum(s \ {z})
  BY <1>3, <1>5, SumRecursive
<1>7. y # z
  BY <1>3, <1>6
<1> HIDE DEF z, sum
<1>8. sum(s \ {z}) = f[y] + sum((s \ {z}) \ {y})
  <2>1. s \ {z} \notin Bad /\ y \in s \ {z}
    BY <1>2, <1>4, <1>7
  <2>2. QED
    BY <2>1
<1>9. sum(s \ {y}) = f[z] + sum((s \ {y}) \ {z})
  <2>1. s \ {y} \notin Bad /\ z \in s \ {y} /\ s \ {y} \in SUBSET S
    BY <1>2, <1>3, <1>4, <1>7
  <2>2. QED
    BY <2>1
<1>10. (s \ {z}) \ {y} = (s \ {y}) \ {z}
  OBVIOUS
<1>11. f[y] \in Nat /\ f[z] \in Nat /\ sum((s \ {y}) \ {z}) \in Nat
  BY <1>4, <1>5
<1>12. sum(s) = f[z] + (f[y] + sum((s \ {y}) \ {z}))
  BY <1>6, <1>8, <1>10
<1>13. f[y] + sum(s \ {y}) = f[y] + (f[z] + sum((s \ {y}) \ {z}))
  BY <1>9
<1>14. sum(s) = f[y] + sum(s \ {y})
  BY <1>11, <1>12, <1>13
<1>15. QED
  BY <1>3, <1>14

-----------------------------------------------------------------------------
(* A bounded set of numbers has a greatest element.                        *)
LEMMA GreatestNatural ==
    ASSUME NEW T, T \subseteq Nat, T # {}, NEW n \in Nat, \A t \in T : t <= n
    PROVE  \E m \in T : \A t \in T : t <= m
<1> DEFINE R == 0..n
           Bounds == {k \in 0..n : \A t \in T : t <= k}
           C == {s \in SUBSET R : \E k \in Bounds : s = 0..k}
<1>1. PICK s \in C : \A t \in C : t \subseteq s => t = s
  <2>1. IsFiniteSet(R)
    BY FS_Interval
  <2>2. C # {}
    <3>1. n \in Bounds /\ 0..n \in SUBSET (0..n)
      OBVIOUS
    <3>2. 0..n \in C
      BY <3>1
    <3>3. QED
      BY <3>2
  <2>3. C \subseteq SUBSET R
    OBVIOUS
  <2> HIDE DEF C, R
  <2>4. QED
    BY <2>1, <2>2, <2>3, SmallestSet
<1>2. PICK k \in Bounds : s = 0..k
  OBVIOUS
<1>3. ASSUME k \notin T PROVE FALSE
  <2>1. PICK t \in T : t <= k /\ t # k
    BY <1>3
  <2>2. k - 1 \in Bounds
    BY <1>3, <2>1
  <2>3. 0..(k - 1) \subseteq 0..k /\ k \in 0..k /\ k \notin 0..(k - 1)
    OBVIOUS
  <2>4. 0..(k - 1) \in C
    BY <2>2
  <2>5. QED
    BY <1>1, <1>2, <2>3, <2>4
<1>4. QED
  BY <1>2, <1>3

(* A function of a finite set has finitely many values.                    *)
LEMMA ValuesAreFinite ==
    ASSUME NEW D, IsFiniteSet(D), NEW f, f = [x \in D |-> f[x]]
    PROVE  IsFiniteSet({f[x] : x \in D})
<1> DEFINE V == {f[x] : x \in D}
<1>1. f \in [D -> V] /\ \A v \in V : \E x \in D : f[x] = v
  OBVIOUS
<1>2. f \in Surjection(D, V)
  BY <1>1 DEF Surjection
<1>3. QED
  BY <1>2, FS_Surjection

-----------------------------------------------------------------------------
(* Among finitely many, one comes before all others in a total order.      *)
LEMMA OneComesFirst ==
    ASSUME NEW C, IsFiniteSet(C), C # {}, NEW R,
           \A c \in C : <<c, c>> \notin R,
           \A b, c, d \in C : <<b, c>> \in R /\ <<c, d>> \in R => <<b, d>> \in R,
           \A c, d \in C : c # d => <<c, d>> \in R \/ <<d, c>> \in R
    PROVE  \E m \in C : \A d \in C \ {m} : <<m, d>> \in R
<1> DEFINE Above(c) == {d \in C : <<d, c>> \in R}
           F == {s \in SUBSET C : \E c \in C : s = Above(c)}
<1>1. PICK s \in F : \A t \in F : t \subseteq s => t = s
  <2>1. F \subseteq SUBSET C
    OBVIOUS
  <2>2. F # {}
    <3>1. PICK c \in C : TRUE
      OBVIOUS
    <3>2. Above(c) \in F
      OBVIOUS
    <3>3. QED
      BY <3>2
  <2> HIDE DEF F
  <2>3. QED
    BY <2>1, <2>2, SmallestSet
<1>2. PICK m \in C : s = Above(m)
  OBVIOUS
<1>3. ASSUME NEW d \in C \ {m}, <<m, d>> \notin R
      PROVE  FALSE
  <2>1. <<d, m>> \in R
    BY <1>3
  <2>2. Above(d) \subseteq Above(m)
    BY <2>1
  <2>3. d \in Above(m) /\ d \notin Above(d)
    BY <2>1
  <2>4. Above(d) \in F
    OBVIOUS
  <2>5. QED
    BY <1>1, <1>2, <2>2, <2>3, <2>4
<1>4. QED
  BY <1>3
=============================================================================
