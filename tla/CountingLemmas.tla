--------------------------- MODULE CountingLemmas ---------------------------
(***************************************************************************)
(* Facts about natural numbers and finite sets that several proofs need:   *)
(* least elements, induction over a set of numbers, what counting the      *)
(* smaller members of a set selects, and sums over finite sets.            *)
(***************************************************************************)
EXTENDS Integers, Sequences, FiniteSets, Functions, FiniteSetTheorems, WellFoundedInduction, TLAPS

\* A nonempty set of natural numbers has a least element.
LEMMA LeastElement ==
    ASSUME NEW S, S \subseteq Nat, S # {}
    PROVE  \E x \in S : \A y \in S : x <= y
<1> DEFINE R == OpToRel(<, Nat)
<1>1. IsWellFoundedOn(R, Nat)
  BY NatLessThanWellFounded
<1> HIDE DEF R
<1>2. \E x \in S : \A y \in S : <<y, x>> \notin R
  BY <1>1, WFMin
<1>3. \A x, y \in S : <<y, x>> \notin R => x <= y
  BY DEF R, OpToRel
<1> QED
  BY <1>2, <1>3

\* A set that has 0, and n + 1 with every n it has, has every natural number.
LEMMA NumbersReachAll ==
    ASSUME NEW S, 0 \in S, \A n \in Nat : n \in S => n + 1 \in S
    PROVE  Nat \subseteq S
<1> DEFINE T == Nat \ S
<1> SUFFICES ASSUME T # {} PROVE FALSE
  OBVIOUS
<1>1. PICK x \in T : \A y \in T : x <= y
  BY LeastElement
<1>2. x # 0 /\ x - 1 \in Nat
  BY <1>1
<1>3. x - 1 \in S
  BY <1>1, <1>2
<1> QED
  BY <1>1, <1>2, <1>3

\* The members of R with fewer than n smaller ones are n of them, or all.
LEMMA SmallestCount ==
    ASSUME NEW R, R \subseteq Nat, IsFiniteSet(R),
           NEW n \in Nat, n <= Cardinality(R)
    PROVE  Cardinality({r \in R : Cardinality({s \in R : s < r}) < n}) = n
<1> DEFINE Below(r) == {s \in R : s < r}
           First(k) == {r \in R : Cardinality(Below(r)) < k}
           S == {k \in Nat : k <= Cardinality(R) => Cardinality(First(k)) = k}
<1>1. \A T \in SUBSET R : IsFiniteSet(T) /\ Cardinality(T) \in Nat
  BY FS_Subset, FS_CardinalityType
<1>2. ASSUME NEW T \in SUBSET R, NEW U \in SUBSET T
      PROVE  Cardinality(U) <= Cardinality(T)
  BY <1>1, FS_Subset
<1>3. \A r \in R : \A s : s \in Below(r) <=> s \in R /\ s < r
  OBVIOUS
<1>4. \A k \in Nat : First(k) \in SUBSET R /\ \A r \in R : r \in First(k) <=> Cardinality(Below(r)) < k
  OBVIOUS
<1>5. \A k \in Nat : k \in S <=> (k <= Cardinality(R) => Cardinality(First(k)) = k)
  OBVIOUS
<1> HIDE DEF Below, First, S
<1>6. \A r \in R : Below(r) \in SUBSET R /\ Cardinality(Below(r)) \in Nat
  <2>1. \A r \in R : Below(r) \in SUBSET R
    BY <1>3
  <2> QED BY <1>1, <2>1
<1>7. 0 \in S
  <2>1. First(0) \in SUBSET R /\ \A r \in R : r \notin First(0)
    BY <1>4, <1>6
  <2>2. First(0) = {}
    BY <2>1
  <2> QED BY <1>5, <2>2, FS_EmptySet
<1>8. ASSUME NEW k \in Nat, k \in S PROVE k + 1 \in S
  <2> SUFFICES ASSUME k + 1 <= Cardinality(R) PROVE Cardinality(First(k + 1)) = k + 1
    BY <1>5
  <2>1. Cardinality(R) \in Nat
    BY <1>1
  <2>2. Cardinality(First(k)) = k
    BY <1>5, <1>8, <2>1
  <2> DEFINE F == First(k)
  <2>3. F \in SUBSET R /\ IsFiniteSet(F) /\ Cardinality(F) = k
    BY <1>1, <1>4, <2>2
  <2>4. \A r \in R : r \in F <=> Cardinality(Below(r)) < k
    BY <1>4
  <2> HIDE DEF F
  <2>5. PICK m \in R \ F : \A y \in R \ F : m <= y
    <3>1. F # R
      BY <2>1, <2>3
    <3>2. R \ F # {}
      BY <2>3, <3>1
    <3>3. R \ F \subseteq Nat
      OBVIOUS
    <3> QED BY <3>2, <3>3, LeastElement
  <2>6. \A s \in F : s < m
    <3> SUFFICES ASSUME NEW s \in F, ~(s < m) PROVE FALSE
      OBVIOUS
    <3>1. s \in R /\ s \in Nat /\ m \in Nat /\ m <= s
      BY <2>3, <2>5
    <3>2. Below(m) \in SUBSET Below(s)
      <4> SUFFICES ASSUME NEW x \in Below(m) PROVE x \in Below(s)
        OBVIOUS
      <4>1. x \in R /\ x < m
        BY <1>3, <2>5
      <4>2. x \in Nat
        BY <4>1
      <4>3. x < s
        BY <3>1, <4>1, <4>2
      <4> QED BY <1>3, <3>1, <4>1, <4>3
    <3>3. Cardinality(Below(m)) <= Cardinality(Below(s))
      BY <1>2, <1>6, <3>1, <3>2
    <3> QED BY <1>6, <2>4, <2>5, <3>1, <3>3
  <2>7. Below(m) = F
    <3>1. ASSUME NEW x \in Below(m) PROVE x \in F
      <4>1. x \in R /\ x < m
        BY <1>3, <2>5, <3>1
      <4>2. x \in Nat /\ m \in Nat
        BY <2>5, <4>1
      <4>3. ~(m <= x)
        BY <4>1, <4>2
      <4> QED BY <2>5, <4>1, <4>3
    <3>2. \A x \in F : x \in Below(m)
      BY <1>3, <2>3, <2>5, <2>6
    <3> QED BY <3>1, <3>2
  <2>8. F \cup {m} \in SUBSET R /\ Cardinality(F \cup {m}) = k + 1
    BY <2>3, <2>5, FS_AddElement
  <2>9. ASSUME NEW r \in R \ F, r # m PROVE ~(Cardinality(Below(r)) < k + 1)
    <3>1. m < r /\ m \in Nat /\ r \in Nat
      BY <2>5, <2>9
    <3>2. F \cup {m} \in SUBSET Below(r)
      <4>1. \A x \in F \cup {m} : x \in R /\ x < r
        BY <2>3, <2>5, <2>6, <3>1
      <4>2. \A x \in F \cup {m} : x \in Below(r)
        BY <1>3, <4>1
      <4> QED BY <4>2
    <3>3. Cardinality(F \cup {m}) <= Cardinality(Below(r))
      BY <1>2, <1>6, <3>2
    <3> QED BY <1>6, <2>8, <3>3
  <2>10. First(k + 1) = F \cup {m}
    <3>1. \A r \in R : Cardinality(Below(r)) < k => Cardinality(Below(r)) < k + 1
      BY <1>6
    <3>2. Cardinality(Below(m)) < k + 1
      BY <2>3, <2>7
    <3>3. First(k + 1) \in SUBSET R
          /\ \A r \in R : r \in First(k + 1) <=> Cardinality(Below(r)) < k + 1
      BY <1>4
    <3>4. \A r \in R : r \in First(k + 1) <=> r \in F \cup {m}
      BY <2>3, <2>4, <2>5, <2>9, <3>1, <3>2, <3>3
    <3> QED BY <2>3, <3>3, <3>4
  <2> QED BY <2>8, <2>10
<1>9. n \in S
  BY <1>7, <1>8, NumbersReachAll
<1> QED BY <1>5, <1>9 DEF First, Below

\* The pieces of x numbered from m + 1 to m + n.
Pile(x, m, n) == {<<x, i>> : i \in m + 1 .. m + n}

\* A pile holds as many pieces as its numbers.
LEMMA PileCount ==
    ASSUME NEW x, NEW m \in Nat, NEW n \in Nat
    PROVE  IsFiniteSet(Pile(x, m, n)) /\ Cardinality(Pile(x, m, n)) = n
<1> DEFINE S == m + 1 .. m + n
           T == Pile(x, m, n)
           f == [i \in S |-> <<x, i>>]
<1>1. IsFiniteSet(S) /\ Cardinality(S) = n
  BY FS_Interval
<1>2. f \in Bijection(S, T)
  <2>1. f \in [S -> T]
    BY DEF Pile
  <2>2. \A i, j \in S : f[i] = f[j] => i = j
    OBVIOUS
  <2>3. \A t \in T : \E i \in S : f[i] = t
    BY DEF Pile
  <2> QED BY <2>1, <2>2, <2>3 DEF Bijection, Injection, Surjection, IsInjective
<1>3. IsFiniteSet(T) /\ Cardinality(T) = Cardinality(S)
  BY <1>1, <1>2, FS_Bijection DEF ExistsBijection
<1> QED BY <1>1, <1>3

\* Sets that do not meet are counted one after the other.
LEMMA CountApart ==
    ASSUME NEW S, NEW T, IsFiniteSet(S), IsFiniteSet(T), S \cap T = {}
    PROVE  /\ IsFiniteSet(S \cup T) /\ Cardinality(S \cup T) = Cardinality(S) + Cardinality(T)
           /\ Cardinality(S) \in Nat /\ Cardinality(T) \in Nat
<1>1. Cardinality(S) \in Nat /\ Cardinality(T) \in Nat
  BY FS_CardinalityType
<1>2. /\ IsFiniteSet(S \cup T)
      /\ Cardinality(S \cup T) = Cardinality(S) + Cardinality(T) - Cardinality({})
  BY FS_Union
<1> QED BY <1>1, <1>2, FS_EmptySet

-----------------------------------------------------------------------------
\* Sums over a finite set (SumFunctionOnSet and FoldFunction of the community module
\* Functions, which define them by a recursive function).

\* One step of a sum: what comes of the chosen element, and the sum of the others.
Chosen(s) == CHOOSE x \in s : TRUE
SumStep(iter, f, s) == IF s = {} THEN 0 ELSE f[Chosen(s)] + iter[s \ {Chosen(s)}]

\* A sum over each of the sets in D.
Sums(iter, f, D) == iter = [s \in D |-> SumStep(iter, f, s)]

\* The subsets of S with at most n elements.
UpTo(S, n) == {s \in SUBSET S : Cardinality(s) <= n}

\* The chosen element is one.
LEMMA ChosenIn ==
    ASSUME NEW s, s # {}
    PROVE  Chosen(s) \in s
  BY DEF Chosen

\* The fold that the community modules define is a sum over the subsets.
LEMMA SumIsChosen ==
    ASSUME NEW f, NEW S
    PROVE  SumFunctionOnSet(f, S) = (CHOOSE iter : Sums(iter, f, SUBSET S))[S]
  BY DEF SumFunctionOnSet, FoldFunctionOnSet, MapThenFoldSet, Sums, SumStep, Chosen

\* A set without its chosen element is smaller.
LEMMA SmallerSubset ==
    ASSUME NEW S, IsFiniteSet(S), NEW n \in Nat, NEW s \in UpTo(S, n + 1), s # {}
    PROVE  s \ {Chosen(s)} \in UpTo(S, n)
<1>1. IsFiniteSet(s) /\ Chosen(s) \in s
  BY FS_Subset, ChosenIn DEF UpTo
<1>2. Cardinality(s \ {Chosen(s)}) = Cardinality(s) - 1 /\ Cardinality(s) \in Nat
  BY <1>1, FS_RemoveElement, FS_CardinalityType
<1>3. Cardinality(s) - 1 <= n
  BY <1>2 DEF UpTo
<1> QED BY <1>2, <1>3 DEF UpTo

\* There is a function that sums step by step.
LEMMA SumsExist ==
    ASSUME NEW f, NEW S, IsFiniteSet(S)
    PROVE  \E iter : Sums(iter, f, SUBSET S)
<1> DEFINE N == {n \in Nat : \E iter : Sums(iter, f, UpTo(S, n))}
<1>1. \A n : n \in N <=> n \in Nat /\ \E iter : Sums(iter, f, UpTo(S, n))
  OBVIOUS
<1> HIDE DEF N
<1>2. 0 \in N
  <2> DEFINE g == [s \in UpTo(S, 0) |-> 0]
  <2>1. \A s \in UpTo(S, 0) : s = {}
    BY FS_Subset, FS_EmptySet, FS_CardinalityType DEF UpTo
  <2>2. \A s \in UpTo(S, 0) : SumStep(g, f, s) = 0
    BY <2>1 DEF SumStep
  <2>3. Sums(g, f, UpTo(S, 0))
    BY <2>2 DEF Sums
  <2> QED BY <1>1, <2>3
<1>3. ASSUME NEW n \in Nat, n \in N PROVE n + 1 \in N
  <2>1. PICK g : Sums(g, f, UpTo(S, n))
    BY <1>1, <1>3
  <2> DEFINE h == [s \in UpTo(S, n + 1) |-> SumStep(g, f, s)]
  <2>2. UpTo(S, n) \subseteq UpTo(S, n + 1)
    <3>1. \A s \in SUBSET S : Cardinality(s) \in Nat
      BY FS_Subset, FS_CardinalityType
    <3> QED BY <3>1 DEF UpTo
  <2>3. \A s \in UpTo(S, n) : h[s] = g[s]
    BY <2>1, <2>2 DEF Sums
  <2>4. \A s \in UpTo(S, n + 1) : h[s] = SumStep(g, f, s)
    OBVIOUS
  <2>5. h = [s \in UpTo(S, n + 1) |-> h[s]]
    OBVIOUS
  <2> HIDE DEF h
  <2>6. \A s \in UpTo(S, n + 1) : SumStep(g, f, s) = SumStep(h, f, s)
    <3> SUFFICES ASSUME NEW s \in UpTo(S, n + 1), s # {}
                 PROVE  g[s \ {Chosen(s)}] = h[s \ {Chosen(s)}]
      BY DEF SumStep
    <3> QED BY <2>3, SmallerSubset
  <2>7. Sums(h, f, UpTo(S, n + 1))
    <3>1. [s \in UpTo(S, n + 1) |-> h[s]] = [s \in UpTo(S, n + 1) |-> SumStep(h, f, s)]
      BY <2>4, <2>6
    <3> QED BY <2>5, <3>1 DEF Sums
  <2> QED BY <1>1, <2>7
<1>4. Cardinality(S) \in N
  BY <1>2, <1>3, NumbersReachAll, FS_CardinalityType
<1>5. UpTo(S, Cardinality(S)) = SUBSET S
  BY FS_Subset DEF UpTo
<1>6. PICK iter : Sums(iter, f, UpTo(S, Cardinality(S)))
  BY <1>1, <1>4
<1>7. Sums(iter, f, SUBSET S)
  BY <1>5, <1>6
<1> QED BY <1>7

\* Sums over two sets agree on what both have subsets of.
LEMMA SumsAgree ==
    ASSUME NEW f, NEW S, NEW T \in SUBSET S, IsFiniteSet(S),
           NEW g, NEW h, Sums(g, f, SUBSET S), Sums(h, f, SUBSET T)
    PROVE  g[T] = h[T]
<1> DEFINE N == {n \in Nat : \A s \in UpTo(T, n) : g[s] = h[s]}
<1>1. \A n : n \in N <=> n \in Nat /\ \A s \in UpTo(T, n) : g[s] = h[s]
  OBVIOUS
<1> HIDE DEF N
<1>2. IsFiniteSet(T) /\ Cardinality(T) \in Nat
  BY FS_Subset, FS_CardinalityType
<1>3. \A n \in Nat : \A s \in UpTo(T, n) : s \in SUBSET S /\ s \in SUBSET T
  BY DEF UpTo
<1>4. \A s \in SUBSET T : g[s] = SumStep(g, f, s) /\ h[s] = SumStep(h, f, s)
  BY DEF Sums
<1>5. 0 \in N
  <2>1. \A s \in UpTo(T, 0) : s = {}
    BY <1>2, FS_Subset, FS_EmptySet, FS_CardinalityType DEF UpTo
  <2>2. g[{}] = 0 /\ h[{}] = 0
    BY <1>4 DEF SumStep
  <2> QED BY <1>1, <2>1, <2>2
<1>6. ASSUME NEW n \in Nat, n \in N PROVE n + 1 \in N
  <2>1. ASSUME NEW s \in UpTo(T, n + 1) PROVE g[s] = h[s]
    <3>1. CASE s = {}
      BY <1>4, <3>1 DEF SumStep
    <3>2. CASE s # {}
      <4>1. s \ {Chosen(s)} \in UpTo(T, n)
        BY <1>2, <3>2, SmallerSubset
      <4>2. g[s \ {Chosen(s)}] = h[s \ {Chosen(s)}]
        BY <1>1, <1>6, <4>1
      <4> QED BY <1>3, <1>4, <3>2, <4>2 DEF SumStep
    <3> QED BY <3>1, <3>2
  <2> QED BY <1>1, <2>1
<1>7. Cardinality(T) \in N
  BY <1>2, <1>5, <1>6, NumbersReachAll
<1>8. T \in UpTo(T, Cardinality(T))
  BY <1>2 DEF UpTo
<1> QED BY <1>1, <1>7, <1>8

\* A sum takes one element after the other.
LEMMA SumOfChosen ==
    ASSUME NEW f, NEW S, IsFiniteSet(S)
    PROVE  /\ S = {} => SumFunctionOnSet(f, S) = 0
           /\ S # {} => SumFunctionOnSet(f, S) = f[Chosen(S)] + SumFunctionOnSet(f, S \ {Chosen(S)})
<1> DEFINE g == CHOOSE iter : Sums(iter, f, SUBSET S)
           T == S \ {Chosen(S)}
           h == CHOOSE iter : Sums(iter, f, SUBSET T)
<1>1. IsFiniteSet(T) /\ T \in SUBSET S
  BY FS_Subset
<1>2. Sums(g, f, SUBSET S) /\ Sums(h, f, SUBSET T)
  BY <1>1, SumsExist
<1>3. SumFunctionOnSet(f, S) = g[S] /\ SumFunctionOnSet(f, T) = h[T]
  BY SumIsChosen
<1> HIDE DEF g, h
<1>4. g[S] = SumStep(g, f, S)
  BY <1>2 DEF Sums
<1>5. g[T] = h[T]
  BY <1>1, <1>2, SumsAgree
<1> QED BY <1>3, <1>4, <1>5 DEF SumStep

\* The members of S have whole numbers.
Whole(f, S) == \A x \in S : f[x] \in Int

\* And it may take any element first, when they are numbers.
LEMMA SumTakes ==
    ASSUME NEW f, NEW S, IsFiniteSet(S), Whole(f, S)
    PROVE  /\ SumFunctionOnSet(f, S) \in Int
           /\ \A x \in S : SumFunctionOnSet(f, S) = f[x] + SumFunctionOnSet(f, S \ {x})
<1> DEFINE Sound(T) == /\ SumFunctionOnSet(f, T) \in Int
                       /\ \A x \in T : SumFunctionOnSet(f, T) = f[x] + SumFunctionOnSet(f, T \ {x})
           N == {n \in Nat : \A T \in UpTo(S, n) : Sound(T)}
<1>1. \A n : n \in N <=> n \in Nat /\ \A T \in UpTo(S, n) : Sound(T)
  OBVIOUS
<1> HIDE DEF N
<1>2. \A T \in SUBSET S : IsFiniteSet(T) /\ Cardinality(T) \in Nat
  BY FS_Subset, FS_CardinalityType
<1>3. 0 \in N
  <2>1. \A T \in UpTo(S, 0) : T = {}
    BY <1>2, FS_EmptySet DEF UpTo
  <2>2. SumFunctionOnSet(f, {}) = 0
    BY SumOfChosen, FS_EmptySet
  <2>3. Sound({})
    BY <2>2
  <2> QED BY <1>1, <2>1, <2>3
<1>4. ASSUME NEW n \in Nat, n \in N PROVE n + 1 \in N
  <2>1. ASSUME NEW T \in UpTo(S, n + 1) PROVE Sound(T)
    <3>1. CASE T = {}
      <4>1. T \in UpTo(S, n)
        BY <3>1, FS_EmptySet DEF UpTo
      <4> QED BY <1>1, <1>4, <4>1
    <3>2. CASE T # {}
      <4> DEFINE c == Chosen(T)
                 U == T \ {c}
      <4>1. c \in T /\ T \in SUBSET S /\ IsFiniteSet(T) /\ c \in S /\ f[c] \in Int
        BY <1>2, <3>2, ChosenIn DEF UpTo, Whole
      <4>2. U \in UpTo(S, n)
        BY <3>2, SmallerSubset
      <4>3. Sound(U)
        BY <1>1, <1>4, <4>2
      <4>4. SumFunctionOnSet(f, T) = f[c] + SumFunctionOnSet(f, U)
        BY <3>2, <4>1, SumOfChosen
      <4> HIDE DEF c
      <4>5. SumFunctionOnSet(f, T) \in Int
        BY <4>1, <4>3, <4>4
      <4>6. ASSUME NEW x \in T PROVE SumFunctionOnSet(f, T) = f[x] + SumFunctionOnSet(f, T \ {x})
        <5>1. CASE x = c
          BY <4>4, <5>1
        <5>2. CASE x # c
          <6> DEFINE V == T \ {x}
                     W == U \ {x}
          <6>1. x \in U /\ c \in V /\ V \ {c} = W /\ f[x] \in Int
            BY <4>1, <4>6, <5>2 DEF Whole
          <6>2. SumFunctionOnSet(f, U) = f[x] + SumFunctionOnSet(f, W)
            BY <4>3, <6>1
          <6>3. V \in UpTo(S, n)
            <7>1. Cardinality(V) = Cardinality(T) - 1 /\ Cardinality(T) \in Nat /\ Cardinality(T) <= n + 1
              BY <1>2, <4>1, <4>6, FS_RemoveElement DEF UpTo
            <7> QED BY <4>1, <7>1 DEF UpTo
          <6>4. Sound(V)
            BY <1>1, <1>4, <6>3
          <6>5. SumFunctionOnSet(f, V) = f[c] + SumFunctionOnSet(f, W)
            BY <6>1, <6>4
          <6>6. W \in UpTo(S, n)
            <7>1. W \in SUBSET S /\ W \in SUBSET U /\ Cardinality(U) <= n /\ IsFiniteSet(U)
              BY <1>2, <4>1, <4>2 DEF UpTo
            <7>2. Cardinality(W) <= Cardinality(U) /\ Cardinality(W) \in Nat /\ Cardinality(U) \in Nat
              BY <1>2, <7>1, FS_Subset, FS_CardinalityType
            <7> QED BY <7>1, <7>2 DEF UpTo
          <6>7. SumFunctionOnSet(f, W) \in Int
            BY <1>1, <1>4, <6>6
          <6> HIDE DEF V, W, U
          <6>8. SumFunctionOnSet(f, T) = f[x] + SumFunctionOnSet(f, V)
            BY <4>1, <4>4, <6>1, <6>2, <6>5, <6>7
          <6> QED BY <6>8 DEF V
        <5> QED BY <5>1, <5>2
      <4> QED BY <4>5, <4>6
    <3> QED BY <3>1, <3>2
  <2> QED BY <1>1, <2>1
<1>5. Cardinality(S) \in N
  BY <1>2, <1>3, <1>4, NumbersReachAll
<1>6. S \in UpTo(S, Cardinality(S))
  BY <1>2 DEF UpTo
<1>7. Sound(S)
  BY <1>1, <1>5, <1>6
<1> QED BY <1>7

\* A set of subsets that has {}, and with each subset the one with one element more,
\* has the whole set.
LEMMA SubsetsReachAll ==
    ASSUME NEW S, IsFiniteSet(S), NEW P, {} \in P,
           \A T \in SUBSET S : \A x \in S \ T : T \in P => T \cup {x} \in P
    PROVE  S \in P
<1> DEFINE N == {n \in Nat : \A T \in UpTo(S, n) : T \in P}
<1>1. \A n : n \in N <=> n \in Nat /\ \A T \in UpTo(S, n) : T \in P
  OBVIOUS
<1> HIDE DEF N
<1>2. \A T \in SUBSET S : IsFiniteSet(T) /\ Cardinality(T) \in Nat
  BY FS_Subset, FS_CardinalityType
<1>3. 0 \in N
  <2>1. \A T \in UpTo(S, 0) : T = {}
    BY <1>2, FS_EmptySet DEF UpTo
  <2> QED BY <1>1, <2>1
<1>4. ASSUME NEW n \in Nat, n \in N PROVE n + 1 \in N
  <2>1. ASSUME NEW T \in UpTo(S, n + 1), T # {} PROVE T \in P
    <3>1. T \ {Chosen(T)} \in UpTo(S, n) /\ Chosen(T) \in T
      BY <2>1, SmallerSubset, ChosenIn
    <3>2. T \ {Chosen(T)} \in P
      BY <1>1, <1>4, <3>1
    <3>3. T \in SUBSET S /\ T \ {Chosen(T)} \in SUBSET S /\ Chosen(T) \in S \ (T \ {Chosen(T)})
      BY <3>1 DEF UpTo
    <3>4. (T \ {Chosen(T)}) \cup {Chosen(T)} = T
      BY <3>1
    <3> QED BY <3>2, <3>3, <3>4
  <2>2. \A T \in UpTo(S, n + 1) : T \in P
    BY <2>1
  <2> QED BY <1>1, <2>2
<1>5. Cardinality(S) \in N
  BY <1>2, <1>3, <1>4, NumbersReachAll
<1>6. S \in UpTo(S, Cardinality(S))
  BY <1>2 DEF UpTo
<1> QED BY <1>1, <1>5, <1>6

\* One element more adds its number.
LEMMA SumAdds ==
    ASSUME NEW f, NEW S, IsFiniteSet(S), Whole(f, S), NEW x, x \notin S, f[x] \in Int
    PROVE  SumFunctionOnSet(f, S \cup {x}) = f[x] + SumFunctionOnSet(f, S)
<1>1. IsFiniteSet(S \cup {x}) /\ Whole(f, S \cup {x})
  BY FS_AddElement DEF Whole
<1>2. (S \cup {x}) \ {x} = S
  OBVIOUS
<1> QED BY <1>1, <1>2, SumTakes

\* The sum depends on the numbers of the members alone.
LEMMA SumSame ==
    ASSUME NEW f, NEW g, NEW S, IsFiniteSet(S), Whole(f, S), \A x \in S : f[x] = g[x]
    PROVE  SumFunctionOnSet(f, S) = SumFunctionOnSet(g, S)
<1> DEFINE P == {T \in SUBSET S : SumFunctionOnSet(f, T) = SumFunctionOnSet(g, T)}
<1>1. {} \in P
  BY SumOfChosen, FS_EmptySet
<1>2. ASSUME NEW T \in SUBSET S, NEW x \in S \ T, T \in P PROVE T \cup {x} \in P
  <2>1. IsFiniteSet(T) /\ Whole(f, T) /\ Whole(g, T) /\ f[x] \in Int /\ f[x] = g[x]
    BY FS_Subset DEF Whole
  <2>2. SumFunctionOnSet(f, T) = SumFunctionOnSet(g, T)
    BY <1>2
  <2>3. SumFunctionOnSet(f, T \cup {x}) = SumFunctionOnSet(g, T \cup {x})
    BY <2>1, <2>2, SumAdds
  <2> QED BY <2>3
<1> HIDE DEF P
<1>3. S \in P
  BY <1>1, <1>2, SubsetsReachAll
<1> QED BY <1>3 DEF P

\* Equal numbers add up to a product.
LEMMA SumOfEqual ==
    ASSUME NEW f, NEW S, IsFiniteSet(S), NEW c \in Int, \A x \in S : f[x] = c
    PROVE  SumFunctionOnSet(f, S) = c * Cardinality(S)
<1> DEFINE P == {T \in SUBSET S : SumFunctionOnSet(f, T) = c * Cardinality(T)}
<1>1. {} \in P
  <2>1. SumFunctionOnSet(f, {}) = 0
    BY SumOfChosen, FS_EmptySet
  <2>2. Cardinality({}) = 0
    BY FS_EmptySet
  <2>3. c * 0 = 0
    OBVIOUS
  <2> QED BY <2>1, <2>2, <2>3
<1>2. ASSUME NEW T \in SUBSET S, NEW x \in S \ T, T \in P PROVE T \cup {x} \in P
  <2>1. IsFiniteSet(T) /\ Whole(f, T) /\ f[x] \in Int /\ f[x] = c
    BY FS_Subset DEF Whole
  <2>2. SumFunctionOnSet(f, T) = c * Cardinality(T)
    BY <1>2
  <2>3. SumFunctionOnSet(f, T \cup {x}) = c + c * Cardinality(T)
    BY <2>1, <2>2, SumAdds
  <2>4. Cardinality(T \cup {x}) = Cardinality(T) + 1 /\ Cardinality(T) \in Nat
    BY <2>1, FS_AddElement, FS_CardinalityType
  <2>5. \A n \in Nat : c + c * n = c * (n + 1)
    OBVIOUS
  <2> QED BY <2>3, <2>4, <2>5
<1> HIDE DEF P
<1>3. S \in P
  BY <1>1, <1>2, SubsetsReachAll
<1> QED BY <1>3 DEF P

\* The sum of a list, and of a list with one number more.
LEMMA SumOfList ==
    ASSUME NEW s \in Seq(Int)
    PROVE  /\ IsFiniteSet(DOMAIN s) /\ Cardinality(DOMAIN s) = Len(s) /\ Whole(s, DOMAIN s)
           /\ FoldFunction(+, 0, s) = SumFunctionOnSet(s, DOMAIN s)
           /\ FoldFunction(+, 0, s) \in Int
           /\ \A x \in Int : FoldFunction(+, 0, Append(s, x)) = FoldFunction(+, 0, s) + x
<1>1. IsFiniteSet(DOMAIN s) /\ Cardinality(DOMAIN s) = Len(s) /\ Whole(s, DOMAIN s)
  <2>1. DOMAIN s = 1..Len(s) /\ Len(s) \in Nat /\ \A i \in DOMAIN s : s[i] \in Int
    OBVIOUS
  <2>2. IsFiniteSet(1..Len(s)) /\ Cardinality(1..Len(s)) = Len(s)
    BY <2>1, FS_Interval
  <2> QED BY <2>1, <2>2 DEF Whole
<1>2. \A t : FoldFunction(+, 0, t) = SumFunctionOnSet(t, DOMAIN t)
  BY DEF FoldFunction, SumFunctionOnSet
<1>3. SumFunctionOnSet(s, DOMAIN s) \in Int
  BY <1>1, SumTakes
<1>4. ASSUME NEW x \in Int
      PROVE  SumFunctionOnSet(Append(s, x), DOMAIN Append(s, x)) = SumFunctionOnSet(s, DOMAIN s) + x
  <2> DEFINE t == Append(s, x)
             n == Len(s) + 1
  <2>1. DOMAIN t = DOMAIN s \cup {n} /\ n \notin DOMAIN s /\ t[n] = x /\ \A i \in DOMAIN s : t[i] = s[i]
    OBVIOUS
  <2> HIDE DEF t, n
  <2>2. Whole(t, DOMAIN s)
    BY <1>1, <2>1 DEF Whole
  <2>3. SumFunctionOnSet(t, DOMAIN t) = x + SumFunctionOnSet(t, DOMAIN s)
    BY <1>1, <2>1, <2>2, SumAdds
  <2>4. SumFunctionOnSet(t, DOMAIN s) = SumFunctionOnSet(s, DOMAIN s)
    BY <1>1, <2>1, <2>2, SumSame
  <2>5. SumFunctionOnSet(t, DOMAIN t) = SumFunctionOnSet(s, DOMAIN s) + x
    BY <1>3, <2>3, <2>4
  <2> QED BY <2>5 DEF t
<1> QED BY <1>1, <1>2, <1>3, <1>4

\* Sums add up number by number.
LEMMA SumPlus ==
    ASSUME NEW f, NEW g, NEW h, NEW S, IsFiniteSet(S), Whole(f, S), Whole(g, S), \A x \in S : h[x] = f[x] + g[x]
    PROVE  SumFunctionOnSet(h, S) = SumFunctionOnSet(f, S) + SumFunctionOnSet(g, S)
<1> DEFINE P == {T \in SUBSET S : /\ SumFunctionOnSet(h, T) = SumFunctionOnSet(f, T) + SumFunctionOnSet(g, T)
                                  /\ SumFunctionOnSet(f, T) \in Int /\ SumFunctionOnSet(g, T) \in Int}
<1>1. {} \in P
  <2>1. SumFunctionOnSet(f, {}) = 0 /\ SumFunctionOnSet(g, {}) = 0 /\ SumFunctionOnSet(h, {}) = 0
    BY SumOfChosen, FS_EmptySet
  <2> QED BY <2>1
<1>2. ASSUME NEW T \in SUBSET S, NEW x \in S \ T, T \in P PROVE T \cup {x} \in P
  <2>1. IsFiniteSet(T) /\ Whole(f, T) /\ Whole(g, T) /\ f[x] \in Int /\ g[x] \in Int
    BY FS_Subset DEF Whole
  <2>2. Whole(h, T) /\ h[x] \in Int /\ h[x] = f[x] + g[x]
    BY <2>1 DEF Whole
  <2>3. /\ SumFunctionOnSet(f, T \cup {x}) = f[x] + SumFunctionOnSet(f, T)
        /\ SumFunctionOnSet(g, T \cup {x}) = g[x] + SumFunctionOnSet(g, T)
        /\ SumFunctionOnSet(h, T \cup {x}) = h[x] + SumFunctionOnSet(h, T)
    BY <2>1, <2>2, SumAdds
  <2>4. /\ SumFunctionOnSet(h, T) = SumFunctionOnSet(f, T) + SumFunctionOnSet(g, T)
        /\ SumFunctionOnSet(f, T) \in Int /\ SumFunctionOnSet(g, T) \in Int
    BY <1>2
  <2>5. /\ SumFunctionOnSet(h, T \cup {x}) = SumFunctionOnSet(f, T \cup {x}) + SumFunctionOnSet(g, T \cup {x})
        /\ SumFunctionOnSet(f, T \cup {x}) \in Int /\ SumFunctionOnSet(g, T \cup {x}) \in Int
    BY <2>1, <2>2, <2>3, <2>4
  <2> QED BY <2>5
<1> HIDE DEF P
<1>3. S \in P
  BY <1>1, <1>2, SubsetsReachAll
<1> QED BY <1>3 DEF P

\* Elements whose number is 0 do not count.
LEMMA SumOnPart ==
    ASSUME NEW f, NEW S, IsFiniteSet(S), Whole(f, S), NEW T \in SUBSET S, \A x \in S \ T : f[x] = 0
    PROVE  SumFunctionOnSet(f, S) = SumFunctionOnSet(f, T)
<1> DEFINE P == {U \in SUBSET (S \ T) : SumFunctionOnSet(f, T \cup U) = SumFunctionOnSet(f, T)}
<1>1. {} \in P
  <2>1. T \cup {} = T
    OBVIOUS
  <2> QED BY <2>1
<1>2. ASSUME NEW U \in SUBSET (S \ T), NEW x \in (S \ T) \ U, U \in P PROVE U \cup {x} \in P
  <2>1. IsFiniteSet(T \cup U) /\ Whole(f, T \cup U) /\ f[x] = 0 /\ x \notin T \cup U
    BY FS_Subset DEF Whole
  <2>2. SumFunctionOnSet(f, (T \cup U) \cup {x}) = f[x] + SumFunctionOnSet(f, T \cup U)
    <3>1. f[x] \in Int
      BY <2>1
    <3> HIDE DEF P
    <3> QED BY <2>1, <3>1, SumAdds
  <2>3. SumFunctionOnSet(f, T \cup U) \in Int
    BY <2>1, SumTakes
  <2>4. SumFunctionOnSet(f, (T \cup U) \cup {x}) = SumFunctionOnSet(f, T \cup U)
    BY <2>1, <2>2, <2>3
  <2>5. (T \cup U) \cup {x} = T \cup (U \cup {x})
    OBVIOUS
  <2>6. SumFunctionOnSet(f, T \cup U) = SumFunctionOnSet(f, T)
    BY <1>2
  <2> QED BY <2>4, <2>5, <2>6
<1>3. IsFiniteSet(S \ T)
  BY FS_Subset
<1> HIDE DEF P
<1>4. S \ T \in P
  BY <1>1, <1>2, <1>3, SubsetsReachAll
<1>5. T \cup (S \ T) = S
  OBVIOUS
<1> QED BY <1>4, <1>5 DEF P

\* The members of T with key k.
Keyed(T, key, k) == {x \in T : key[x] = k}

\* The sums by key.
ByKey(f, T, key, K) == [k \in K |-> SumFunctionOnSet(f, Keyed(T, key, k))]

\* A sum is the sum of its sums by key.
LEMMA SumByKey ==
    ASSUME NEW f, NEW S, IsFiniteSet(S), Whole(f, S), NEW key, NEW K, IsFiniteSet(K), \A x \in S : key[x] \in K
    PROVE  SumFunctionOnSet(ByKey(f, S, key, K), K) = SumFunctionOnSet(f, S)
<1> DEFINE P == {T \in SUBSET S : SumFunctionOnSet(ByKey(f, T, key, K), K) = SumFunctionOnSet(f, T)}
<1>1. {} \in P
  <2>1. SumFunctionOnSet(f, {}) = 0
    BY SumOfChosen, FS_EmptySet
  <2>2. \A k : Keyed({}, key, k) = {}
    BY DEF Keyed
  <2>3. \A k \in K : ByKey(f, {}, key, K)[k] = 0
    BY <2>1, <2>2 DEF ByKey
  <2>4. SumFunctionOnSet(ByKey(f, {}, key, K), K) = 0 * Cardinality(K)
    BY <2>3, SumOfEqual
  <2>5. Cardinality(K) \in Nat
    BY FS_CardinalityType
  <2>6. SumFunctionOnSet(ByKey(f, {}, key, K), K) = 0
    BY <2>4, <2>5
  <2> QED BY <2>1, <2>6
<1>2. ASSUME NEW T \in SUBSET S, NEW x \in S \ T, T \in P PROVE T \cup {x} \in P
  <2> DEFINE F == ByKey(f, T, key, K)
             D == [k \in K |-> IF k = key[x] THEN f[x] ELSE 0]
             H == ByKey(f, T \cup {x}, key, K)
  <2>1. IsFiniteSet(T) /\ Whole(f, T) /\ f[x] \in Int /\ key[x] \in K
    BY FS_Subset DEF Whole
  <2>2. ASSUME NEW k \in K
        PROVE  /\ IsFiniteSet(Keyed(T, key, k)) /\ Whole(f, Keyed(T, key, k)) /\ x \notin Keyed(T, key, k)
               /\ SumFunctionOnSet(f, Keyed(T, key, k)) \in Int
    <3>1. Keyed(T, key, k) \in SUBSET T
      BY DEF Keyed
    <3>2. IsFiniteSet(Keyed(T, key, k)) /\ Whole(f, Keyed(T, key, k)) /\ x \notin Keyed(T, key, k)
      BY <2>1, <3>1, FS_Subset DEF Whole
    <3> QED BY <3>2, SumTakes
  <2>3. ASSUME NEW k \in K PROVE H[k] = F[k] + D[k] /\ F[k] \in Int /\ D[k] \in Int
    <3>1. F[k] = SumFunctionOnSet(f, Keyed(T, key, k)) /\ H[k] = SumFunctionOnSet(f, Keyed(T \cup {x}, key, k))
      BY DEF ByKey
    <3>2. F[k] \in Int /\ D[k] \in Int
      BY <2>1, <2>2, <3>1
    <3>3. CASE k = key[x]
      <4>1. Keyed(T \cup {x}, key, k) = Keyed(T, key, k) \cup {x}
        BY <3>3 DEF Keyed
      <4>2. SumFunctionOnSet(f, Keyed(T, key, k) \cup {x}) = f[x] + SumFunctionOnSet(f, Keyed(T, key, k))
        BY <2>1, <2>2, SumAdds
      <4>3. D[k] = f[x]
        BY <3>3
      <4>4. H[k] = f[x] + F[k]
        BY <3>1, <4>1, <4>2
      <4> HIDE DEF F, D, H
      <4> QED BY <2>1, <3>2, <4>3, <4>4
    <3>4. CASE k # key[x]
      <4>1. Keyed(T \cup {x}, key, k) = Keyed(T, key, k)
        BY <3>4 DEF Keyed
      <4>2. D[k] = 0 /\ H[k] = F[k]
        BY <3>1, <3>4, <4>1
      <4> HIDE DEF F, D, H
      <4> QED BY <3>2, <4>2
    <3> QED BY <3>3, <3>4
  <2>4. SumFunctionOnSet(D, K) = f[x]
    <3>1. Whole(D, K) /\ {key[x]} \in SUBSET K /\ (\A k \in K \ {key[x]} : D[k] = 0) /\ D[key[x]] = f[x]
      BY <2>1 DEF Whole
    <3> HIDE DEF D
    <3>2. SumFunctionOnSet(D, K) = SumFunctionOnSet(D, {key[x]})
      BY <3>1, SumOnPart
    <3>3. IsFiniteSet({}) /\ {} \cup {key[x]} = {key[x]} /\ Whole(D, {}) /\ key[x] \notin {} /\ SumFunctionOnSet(D, {}) = 0
      BY SumOfChosen, FS_EmptySet DEF Whole
    <3>4. SumFunctionOnSet(D, {} \cup {key[x]}) = D[key[x]] + SumFunctionOnSet(D, {})
      BY <2>1, <3>1, <3>3, SumAdds
    <3> QED BY <2>1, <3>1, <3>2, <3>3, <3>4
  <2>5. Whole(F, K) /\ Whole(D, K)
    BY <2>3 DEF Whole
  <2>6. SumFunctionOnSet(f, T \cup {x}) = f[x] + SumFunctionOnSet(f, T) /\ SumFunctionOnSet(f, T) \in Int
    BY <2>1, SumAdds, SumTakes
  <2>7. SumFunctionOnSet(F, K) = SumFunctionOnSet(f, T)
    BY <1>2
  <2> HIDE DEF F, D, H
  <2>8. SumFunctionOnSet(H, K) = SumFunctionOnSet(F, K) + SumFunctionOnSet(D, K)
    BY <2>3, <2>5, SumPlus
  <2>9. SumFunctionOnSet(H, K) = SumFunctionOnSet(f, T \cup {x})
    BY <2>1, <2>4, <2>6, <2>7, <2>8
  <2> QED BY <2>9 DEF H
<1> HIDE DEF P
<1>3. S \in P
  BY <1>1, <1>2, SubsetsReachAll
<1> QED BY <1>3 DEF P

\* The keys that occur.
KeysIn(key, T) == {key[x] : x \in T}

\* They are finitely many.
LEMMA KeysFinite ==
    ASSUME NEW S, IsFiniteSet(S), NEW key
    PROVE  IsFiniteSet(KeysIn(key, S))
<1> DEFINE P == {T \in SUBSET S : IsFiniteSet(KeysIn(key, T))}
<1>1. {} \in P
  <2>1. KeysIn(key, {}) = {}
    BY DEF KeysIn
  <2> QED BY <2>1, FS_EmptySet
<1>2. ASSUME NEW T \in SUBSET S, NEW x \in S \ T, T \in P PROVE T \cup {x} \in P
  <2>1. KeysIn(key, T \cup {x}) = KeysIn(key, T) \cup {key[x]}
    BY DEF KeysIn
  <2>2. IsFiniteSet(KeysIn(key, T))
    BY <1>2
  <2>3. IsFiniteSet(KeysIn(key, T) \cup {key[x]})
    BY <2>2, FS_AddElement
  <2>4. IsFiniteSet(KeysIn(key, T \cup {x}))
    BY <2>1, <2>3
  <2> QED BY <2>4
<1> HIDE DEF P
<1>3. S \in P
  BY <1>1, <1>2, SubsetsReachAll
<1> QED BY <1>3 DEF P

\* Counts by key, each times c, add up to the whole count times c.
LEMMA CountByKey ==
    ASSUME NEW S, IsFiniteSet(S), NEW key, NEW K, IsFiniteSet(K), \A x \in S : key[x] \in K, NEW c \in Int,
           NEW F, \A k \in K : F[k] = c * Cardinality(Keyed(S, key, k))
    PROVE  SumFunctionOnSet(F, K) = c * Cardinality(S)
<1> DEFINE f == [x \in S |-> c]
           G == ByKey(f, S, key, K)
<1>1. Whole(f, S) /\ \A x \in S : f[x] = c
  BY DEF Whole
<1> HIDE DEF f
<1>2. ASSUME NEW k \in K PROVE G[k] = F[k] /\ G[k] \in Int
  <2>1. Keyed(S, key, k) \in SUBSET S /\ IsFiniteSet(Keyed(S, key, k))
    BY FS_Subset DEF Keyed
  <2>2. SumFunctionOnSet(f, Keyed(S, key, k)) = c * Cardinality(Keyed(S, key, k))
    BY <1>1, <2>1, SumOfEqual
  <2>3. Cardinality(Keyed(S, key, k)) \in Nat
    BY <2>1, FS_CardinalityType
  <2>4. c * Cardinality(Keyed(S, key, k)) \in Int
    BY <2>3
  <2>5. G[k] = SumFunctionOnSet(f, Keyed(S, key, k))
    BY DEF ByKey
  <2> QED BY <2>2, <2>4, <2>5
<1>3. SumFunctionOnSet(G, K) = SumFunctionOnSet(f, S)
  BY <1>1, SumByKey
<1> HIDE DEF G
<1>4. SumFunctionOnSet(G, K) = SumFunctionOnSet(F, K)
  BY <1>2, SumSame DEF Whole
<1>5. SumFunctionOnSet(f, S) = c * Cardinality(S)
  BY <1>1, SumOfEqual
<1> QED BY <1>3, <1>4, <1>5
=============================================================================
