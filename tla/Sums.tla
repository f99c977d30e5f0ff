--------------------------------- MODULE Sums ---------------------------------
(***************************************************************************)
(* Facts about SumFunctionOnSet, the sum that balances and reports are     *)
(* made of: the order in which a finite set is added up does not matter,   *)
(* and what a sum becomes when its set or one of its terms changes.  The   *)
(* induction they need is that the natural numbers are well founded.       *)
(***************************************************************************)
EXTENDS Integers, Functions, FiniteSets, FiniteSetTheorems, WellFoundedInduction, TLAPS

LEMMA Least ==
    ASSUME NEW T \in SUBSET Nat, T # {}
    PROVE  \E x \in T : \A y \in T : x <= y
  <1>1. PICK x \in T : \A y \in T : ~(<<y, x>> \in OpToRel(<, Nat))
    BY NatLessThanWellFounded, WFMin, Zenon
  <1>2. ASSUME NEW y \in T PROVE x <= y
    <2>1. ~(<<y, x>> \in OpToRel(<, Nat))
      BY <1>1
    <2>2. ~(y < x)
      BY <2>1 DEF OpToRel
    <2>3. QED
      BY <2>2
  <1>3. QED
    BY <1>2

(* A set that has 0 and n + 1 whenever it has n.                           *)
LEMMA NaturalInduction ==
    ASSUME NEW Good, 0 \in Good, \A n \in Nat : n \in Good => n + 1 \in Good
    PROVE  \A n \in Nat : n \in Good
  <1> DEFINE bad == {n \in Nat : n \notin Good}
  <1> SUFFICES ASSUME bad # {} PROVE FALSE
    OBVIOUS
  <1>1. PICK m \in bad : \A k \in bad : m <= k
    BY Least
  <1>2. m # 0 /\ m \in Nat
    OBVIOUS
  <1>3. m - 1 \in Nat /\ m - 1 \notin bad
    BY <1>1, <1>2
  <1>4. (m - 1) + 1 \in Good /\ (m - 1) + 1 = m
    BY <1>2, <1>3
  <1>5. QED
    BY <1>4

(* A set of subsets that has a set as soon as it has its proper subsets.   *)
LEMMA SubsetInduction ==
    ASSUME NEW S, IsFiniteSet(S), NEW Good,
           \A T \in SUBSET S : (\A U \in SUBSET T : U # T => U \in Good) => T \in Good
    PROVE  \A T \in SUBSET S : T \in Good
  <1> DEFINE sizes == {Cardinality(T) : T \in {T \in SUBSET S : T \notin Good}}
  <1> SUFFICES ASSUME NEW T \in SUBSET S, T \notin Good PROVE FALSE
    OBVIOUS
  <1>1. \A U \in SUBSET S : IsFiniteSet(U) /\ Cardinality(U) \in Nat
    BY FS_Subset, FS_CardinalityType
  <1>2. sizes \in SUBSET Nat /\ sizes # {}
    BY <1>1
  <1>3. PICK n \in sizes : \A m \in sizes : n <= m
    BY <1>2, Least
  <1>4. PICK U \in SUBSET S : U \notin Good /\ n = Cardinality(U)
    OBVIOUS
  <1>5. ASSUME NEW V \in SUBSET U, V # U PROVE V \in Good
    <2>1. Cardinality(V) < Cardinality(U)
      <3>1. IsFiniteSet(U)
        BY <1>1
      <3>2. V \in SUBSET U /\ Cardinality(V) <= Cardinality(U)
                /\ (Cardinality(U) = Cardinality(V) => U = V)
        BY <3>1, FS_Subset
      <3>3. QED
        BY <1>1, <1>5, <3>2
    <2>2. V \in SUBSET S /\ Cardinality(V) \in Nat /\ Cardinality(U) \in Nat
      BY <1>1
    <2>3. V \notin Good => Cardinality(V) \in sizes
      BY <2>2
    <2>4. QED
      BY <1>3, <1>4, <2>1, <2>2, <2>3
  <1>6. QED
    BY <1>4, <1>5

-----------------------------------------------------------------------------
(* The recursion behind SumFunctionOnSet: s is added up element by element *)
Chosen(s) == CHOOSE x \in s : TRUE

AddsUp(f, S, iter) ==
    iter = [s \in SUBSET S |-> IF s = {} THEN 0 ELSE f[Chosen(s)] + iter[s \ {Chosen(s)}]]

LEMMA ChosenIn == ASSUME NEW s, s # {} PROVE Chosen(s) \in s
  BY DEF Chosen

LEMMA AddsUpExists ==
    ASSUME NEW f, NEW S, IsFiniteSet(S)
    PROVE  \E iter : AddsUp(f, S, iter)
  <1> DEFINE Upto(n) == {s \in SUBSET S : Cardinality(s) <= n}
             Body(g, s) == IF s = {} THEN 0 ELSE f[Chosen(s)] + g[s \ {Chosen(s)}]
             Fold(g, n) == g = [s \in Upto(n) |-> Body(g, s)]
             good == {n \in Nat : \E g : Fold(g, n)}
  <1>1. \A s \in SUBSET S : IsFiniteSet(s) /\ Cardinality(s) \in Nat /\ Cardinality(s) <= Cardinality(S)
    BY FS_Subset, FS_CardinalityType
  <1>2. ASSUME NEW s \in SUBSET S, s # {}
        PROVE  s \ {Chosen(s)} \in SUBSET S /\ Cardinality(s \ {Chosen(s)}) = Cardinality(s) - 1
    BY <1>1, <1>2, ChosenIn, FS_RemoveElement
  <1>3. \E g : Fold(g, 0)
    <2> DEFINE g == [s \in Upto(0) |-> 0]
    <2>1. \A s \in Upto(0) : s = {}
      BY <1>1, FS_EmptySet
    <2>2. Fold(g, 0)
      BY <2>1
    <2>3. QED
      BY <2>2
  <1>4. ASSUME NEW n \in Nat, NEW g, Fold(g, n)
        PROVE  \E h : Fold(h, n + 1)
    <2> DEFINE h == [s \in Upto(n + 1) |-> Body(g, s)]
    <2>1. \A s \in Upto(n) : h[s] = g[s]
      <3>1. \A s \in Upto(n) : g[s] = Body(g, s)
        BY <1>4
      <3>2. \A s \in Upto(n) : s \in Upto(n + 1)
        BY <1>1
      <3>3. QED
        BY <3>1, <3>2
    <2>2. ASSUME NEW s \in Upto(n + 1) PROVE h[s] = Body(h, s)
      <3>1. CASE s = {}
        BY <3>1
      <3>2. CASE s # {}
        <4>1. s \ {Chosen(s)} \in Upto(n)
          BY <1>1, <1>2, <3>2
        <4>2. h[s \ {Chosen(s)}] = g[s \ {Chosen(s)}]
          BY <2>1, <4>1
        <4>3. QED
          BY <3>2, <4>2
      <3>3. QED
        BY <3>1, <3>2
    <2>3. h = [s \in Upto(n + 1) |-> h[s]]
      OBVIOUS
    <2> HIDE DEF h
    <2>4. Fold(h, n + 1)
      BY <2>2, <2>3
    <2>5. QED
      BY <2>4
  <1>5. Nat \subseteq good
    <2>1. 0 \in good /\ good \subseteq Nat
      BY <1>3
    <2>2. ASSUME NEW n \in Nat, n \in good PROVE n + 1 \in good
      <3>1. PICK g : Fold(g, n)
        BY <2>2
      <3>2. \E h : Fold(h, n + 1)
        BY <1>4, <3>1
      <3> HIDE DEF Fold
      <3>3. QED
        BY <3>2
    <2> HIDE DEF good
    <2>3. QED
      BY <2>1, <2>2, NaturalInduction
  <1>6. PICK g : Fold(g, Cardinality(S))
    BY <1>1, <1>5, FS_CardinalityType
  <1>7. Upto(Cardinality(S)) = SUBSET S
    BY <1>1
  <1>8. AddsUp(f, S, g)
    BY <1>6, <1>7 DEF AddsUp
  <1>9. QED
    BY <1>8

LEMMA AddsUpAgree ==
    ASSUME NEW f, NEW S, IsFiniteSet(S), NEW g, AddsUp(f, S, g),
           NEW T \in SUBSET S, NEW h, AddsUp(f, T, h)
    PROVE  \A s \in SUBSET T : g[s] = h[s]
  <1> DEFINE agree == {s \in SUBSET T : g[s] = h[s]}
  <1>1. IsFiniteSet(T)
    BY FS_Subset
  <1>2. ASSUME NEW s \in SUBSET T, \A u \in SUBSET s : u # s => u \in agree
        PROVE  s \in agree
    <2>1. /\ g[s] = IF s = {} THEN 0 ELSE f[Chosen(s)] + g[s \ {Chosen(s)}]
          /\ h[s] = IF s = {} THEN 0 ELSE f[Chosen(s)] + h[s \ {Chosen(s)}]
      BY DEF AddsUp
    <2>2. CASE s = {}
      BY <2>1, <2>2
    <2>3. CASE s # {}
      <3>1. s \ {Chosen(s)} \in SUBSET s /\ s \ {Chosen(s)} # s
        BY <2>3, ChosenIn
      <3>2. g[s \ {Chosen(s)}] = h[s \ {Chosen(s)}]
        BY <1>2, <3>1
      <3>3. QED
        BY <2>1, <2>3, <3>2
    <2>4. QED
      BY <2>2, <2>3
  <1> HIDE DEF agree
  <1>3. \A s \in SUBSET T : s \in agree
    BY <1>1, <1>2, SubsetInduction
  <1>4. QED
    BY <1>3 DEF agree

LEMMA SumIsAddsUp ==
    ASSUME NEW f, NEW S, IsFiniteSet(S)
    PROVE  \E iter : AddsUp(f, S, iter) /\ SumFunctionOnSet(f, S) = iter[S]
  <1> DEFINE iter == CHOOSE i : AddsUp(f, S, i)
  <1>1. AddsUp(f, S, iter)
    BY AddsUpExists
  <1>2. SumFunctionOnSet(f, S) = iter[S]
    BY DEF SumFunctionOnSet, FoldFunctionOnSet, MapThenFoldSet, AddsUp, Chosen
  <1>3. QED
    BY <1>1, <1>2

LEMMA SumEmpty == ASSUME NEW f PROVE SumFunctionOnSet(f, {}) = 0
  <1>1. IsFiniteSet({})
    BY FS_EmptySet
  <1>2. PICK iter : AddsUp(f, {}, iter) /\ SumFunctionOnSet(f, {}) = iter[{}]
    BY <1>1, SumIsAddsUp
  <1>3. QED
    BY <1>2 DEF AddsUp

LEMMA SumChosen ==
    ASSUME NEW f, NEW S, IsFiniteSet(S), S # {}
    PROVE  SumFunctionOnSet(f, S) = f[Chosen(S)] + SumFunctionOnSet(f, S \ {Chosen(S)})
  <1> DEFINE T == S \ {Chosen(S)}
  <1>1. T \in SUBSET S /\ IsFiniteSet(T)
    BY FS_Subset
  <1>2. PICK g : AddsUp(f, S, g) /\ SumFunctionOnSet(f, S) = g[S]
    BY SumIsAddsUp
  <1>3. PICK h : AddsUp(f, T, h) /\ SumFunctionOnSet(f, T) = h[T]
    BY <1>1, SumIsAddsUp
  <1>4. g[T] = h[T]
    BY <1>1, <1>2, <1>3, AddsUpAgree
  <1>5. g[S] = f[Chosen(S)] + g[T]
    BY <1>2 DEF AddsUp
  <1>6. QED
    BY <1>2, <1>3, <1>4, <1>5

-----------------------------------------------------------------------------
(* Any element may be taken first, and a sum of integers is one.           *)
LEMMA SumRemove ==
    ASSUME NEW f, NEW S, IsFiniteSet(S), \A x \in S : f[x] \in Int
    PROVE  /\ SumFunctionOnSet(f, S) \in Int
           /\ \A x \in S :
                /\ SumFunctionOnSet(f, S \ {x}) \in Int
                /\ SumFunctionOnSet(f, S) = f[x] + SumFunctionOnSet(f, S \ {x})
  <1> DEFINE Sum(T) == SumFunctionOnSet(f, T)
             good == {T \in SUBSET S : /\ Sum(T) \in Int
                                      /\ \A x \in T : Sum(T) = f[x] + Sum(T \ {x})}
  <1>1. ASSUME NEW T \in SUBSET S, \A U \in SUBSET T : U # T => U \in good
        PROVE  T \in good
    <2>1. CASE T = {}
      BY <2>1, SumEmpty
    <2>2. CASE T # {}
      <3> DEFINE c == Chosen(T)
      <3>1. c \in T /\ f[c] \in Int
        BY <2>2, ChosenIn
      <3>2. \A x \in T : T \ {x} \in good
        BY <1>1
      <3>3. Sum(T) = f[c] + Sum(T \ {c})
        BY <2>2, SumChosen, FS_Subset
      <3>4. Sum(T \ {c}) \in Int /\ Sum(T) \in Int
        BY <3>1, <3>2, <3>3
      <3> HIDE DEF c
      <3>5. ASSUME NEW x \in T, x # c PROVE Sum(T) = f[x] + Sum(T \ {x})
        <4>1. x \in T \ {c} /\ c \in T \ {x} /\ f[x] \in Int
          BY <3>1, <3>5
        <4>2. T \ {c} \in good /\ T \ {x} \in good
          BY <3>1, <3>2
        <4>3. Sum(T \ {c}) = f[x] + Sum((T \ {c}) \ {x})
          BY <4>1, <4>2
        <4>4. Sum(T \ {x}) = f[c] + Sum((T \ {x}) \ {c})
          BY <4>1, <4>2
        <4>5. (T \ {c}) \ {x} = (T \ {x}) \ {c} /\ (T \ {c}) \ {x} \in SUBSET T
          OBVIOUS
        <4>6. (T \ {c}) \ {x} # T
          BY <3>1
        <4>7. Sum((T \ {c}) \ {x}) \in Int
          BY <1>1, <4>5, <4>6
        <4>8. Sum((T \ {x}) \ {c}) = Sum((T \ {c}) \ {x})
          BY <4>5
        <4> DEFINE both == Sum((T \ {c}) \ {x})
        <4>9. both \in Int /\ Sum(T) = f[c] + (f[x] + both) /\ Sum(T \ {x}) = f[c] + both
          BY <3>3, <4>3, <4>4, <4>7, <4>8
        <4>10. f[c] \in Int /\ f[x] \in Int
          BY <3>1, <4>1
        <4> HIDE DEF Sum, both
        <4>11. QED
          BY <4>9, <4>10
      <3>6. QED
        BY <3>3, <3>4, <3>5
    <2>3. QED
      BY <2>1, <2>2
  <1>2. \A T \in SUBSET S : T \in good
    <2> HIDE DEF good
    <2>1. QED
      BY <1>1, SubsetInduction
  <1>3. S \in good /\ \A x \in S : S \ {x} \in good
    BY <1>2
  <1>4. QED
    BY <1>3

LEMMA SumTake ==
    ASSUME NEW f, NEW S, IsFiniteSet(S), \A x \in S : f[x] \in Int, NEW x \in S
    PROVE  /\ SumFunctionOnSet(f, S) = f[x] + SumFunctionOnSet(f, S \ {x})
           /\ SumFunctionOnSet(f, S \ {x}) \in Int /\ f[x] \in Int
  BY SumRemove

LEMMA SumInt ==
    ASSUME NEW f, NEW S, IsFiniteSet(S), \A x \in S : f[x] \in Int
    PROVE  SumFunctionOnSet(f, S) \in Int
  BY SumRemove

(* Terms of one kind: sums are added, compared and equal term by term.     *)
LEMMA SumPlus ==
    ASSUME NEW S, IsFiniteSet(S), NEW f, NEW g, NEW h,
           \A x \in S : f[x] \in Int /\ g[x] \in Int /\ h[x] = f[x] + g[x]
    PROVE  SumFunctionOnSet(h, S) = SumFunctionOnSet(f, S) + SumFunctionOnSet(g, S)
  <1> DEFINE F(T) == SumFunctionOnSet(f, T)
             G(T) == SumFunctionOnSet(g, T)
             H(T) == SumFunctionOnSet(h, T)
             good == {T \in SUBSET S : H(T) = F(T) + G(T)}
  <1>1. ASSUME NEW T \in SUBSET S, \A U \in SUBSET T : U # T => U \in good
        PROVE  T \in good
    <2>1. CASE T = {}
      <3>1. F(T) = 0 /\ G(T) = 0 /\ H(T) = 0
        BY <2>1, SumEmpty
      <3>2. QED
        BY <3>1
    <2>2. CASE T # {}
      <3>1. PICK x \in T : TRUE
        BY <2>2
      <3>2. T \ {x} \in good
        BY <1>1
      <3>3. IsFiniteSet(T)
        BY FS_Subset
      <3>4. x \in T
        OBVIOUS
      <3>5. F(T) = f[x] + F(T \ {x}) /\ F(T \ {x}) \in Int
        <4>1. \A y \in T : f[y] \in Int
          OBVIOUS
        <4>2. QED
          BY ONLY <3>3, <3>4, <4>1, SumTake
      <3>6. G(T) = g[x] + G(T \ {x}) /\ G(T \ {x}) \in Int
        <4>1. \A y \in T : g[y] \in Int
          OBVIOUS
        <4>2. QED
          BY ONLY <3>3, <3>4, <4>1, SumTake
      <3>7. H(T) = h[x] + H(T \ {x})
        <4>1. \A y \in T : h[y] \in Int
          OBVIOUS
        <4>2. QED
          BY ONLY <3>3, <3>4, <4>1, SumTake
      <3>8. h[x] = f[x] + g[x] /\ f[x] \in Int /\ g[x] \in Int
        OBVIOUS
      <3>9. H(T \ {x}) = F(T \ {x}) + G(T \ {x})
        BY <3>2
      <3> HIDE DEF F, G, H
      <3>10. H(T) = F(T) + G(T)
        BY <3>5, <3>6, <3>7, <3>8, <3>9
      <3>11. QED
        BY <3>10
    <2>3. QED
      BY <2>1, <2>2
  <1> HIDE DEF good
  <1>2. \A T \in SUBSET S : T \in good
    BY <1>1, SubsetInduction
  <1>3. QED
    BY <1>2 DEF good

LEMMA SumMonotone ==
    ASSUME NEW S, IsFiniteSet(S), NEW f, NEW g,
           \A x \in S : f[x] \in Int /\ g[x] \in Int /\ f[x] <= g[x]
    PROVE  SumFunctionOnSet(f, S) <= SumFunctionOnSet(g, S)
  <1> DEFINE F(T) == SumFunctionOnSet(f, T)
             G(T) == SumFunctionOnSet(g, T)
             good == {T \in SUBSET S : F(T) <= G(T)}
  <1>1. ASSUME NEW T \in SUBSET S, \A U \in SUBSET T : U # T => U \in good
        PROVE  T \in good
    <2>1. CASE T = {}
      <3>1. F(T) = 0 /\ G(T) = 0
        BY <2>1, SumEmpty
      <3>2. QED
        BY <3>1
    <2>2. CASE T # {}
      <3>1. PICK x \in T : TRUE
        BY <2>2
      <3>2. T \ {x} \in good
        BY <1>1
      <3>3. IsFiniteSet(T)
        BY FS_Subset
      <3>4. F(T) = f[x] + F(T \ {x}) /\ F(T \ {x}) \in Int
        <4>1. \A y \in T : f[y] \in Int
          OBVIOUS
        <4>2. QED
          BY ONLY <3>1, <3>3, <4>1, SumTake
      <3>5. G(T) = g[x] + G(T \ {x}) /\ G(T \ {x}) \in Int
        <4>1. \A y \in T : g[y] \in Int
          OBVIOUS
        <4>2. QED
          BY ONLY <3>1, <3>3, <4>1, SumTake
      <3>6. f[x] <= g[x] /\ f[x] \in Int /\ g[x] \in Int
        OBVIOUS
      <3>7. F(T \ {x}) <= G(T \ {x})
        BY <3>2
      <3> HIDE DEF F, G
      <3>8. F(T) <= G(T)
        BY <3>4, <3>5, <3>6, <3>7
      <3>9. QED
        BY <3>8
    <2>3. QED
      BY <2>1, <2>2
  <1> HIDE DEF good
  <1>2. \A T \in SUBSET S : T \in good
    BY <1>1, SubsetInduction
  <1>3. QED
    BY <1>2 DEF good

LEMMA SumEqual ==
    ASSUME NEW S, IsFiniteSet(S), NEW f, NEW g,
           \A x \in S : f[x] \in Int /\ f[x] = g[x]
    PROVE  SumFunctionOnSet(f, S) = SumFunctionOnSet(g, S)
  <1>1. \A x \in S : f[x] \in Int /\ g[x] \in Int /\ f[x] <= g[x] /\ g[x] <= f[x]
    OBVIOUS
  <1>2. SumFunctionOnSet(f, S) <= SumFunctionOnSet(g, S)
    BY <1>1, SumMonotone
  <1>3. SumFunctionOnSet(g, S) <= SumFunctionOnSet(f, S)
    BY <1>1, SumMonotone
  <1>4. SumFunctionOnSet(f, S) \in Int /\ SumFunctionOnSet(g, S) \in Int
    BY <1>1, SumInt
  <1>5. QED
    BY <1>2, <1>3, <1>4

LEMMA SumZero ==
    ASSUME NEW S, IsFiniteSet(S), NEW f, \A x \in S : f[x] = 0
    PROVE  SumFunctionOnSet(f, S) = 0
  <1> DEFINE sum == SumFunctionOnSet(f, S)
  <1>1. \A x \in S : f[x] \in Int /\ f[x] = f[x] + f[x]
    OBVIOUS
  <1>2. sum \in Int
    BY <1>1, SumInt
  <1>3. sum = sum + sum
    BY <1>1, SumPlus
  <1> HIDE DEF sum
  <1>4. sum = 0
    BY ONLY <1>2, <1>3
  <1>5. QED
    BY <1>4 DEF sum

LEMMA SumNat ==
    ASSUME NEW S, IsFiniteSet(S), NEW f, \A x \in S : f[x] \in Nat
    PROVE  SumFunctionOnSet(f, S) \in Nat
  <1> DEFINE zero == [x \in S |-> 0]
  <1>1. \A x \in S : f[x] \in Int /\ zero[x] \in Int /\ zero[x] = 0 /\ zero[x] <= f[x]
    OBVIOUS
  <1> HIDE DEF zero
  <1>2. SumFunctionOnSet(f, S) \in Int
    BY <1>1, SumInt
  <1>3. SumFunctionOnSet(zero, S) = 0
    BY <1>1, SumZero
  <1>4. SumFunctionOnSet(zero, S) <= SumFunctionOnSet(f, S)
    BY <1>1, SumMonotone
  <1>5. QED
    BY <1>2, <1>3, <1>4

(* One more or one other term, and terms of nothing.                       *)
LEMMA SumInsert ==
    ASSUME NEW S, IsFiniteSet(S), NEW x, x \notin S, NEW f,
           \A y \in S \cup {x} : f[y] \in Int
    PROVE  SumFunctionOnSet(f, S \cup {x}) = f[x] + SumFunctionOnSet(f, S)
  <1>1. IsFiniteSet(S \cup {x}) /\ x \in S \cup {x} /\ (S \cup {x}) \ {x} = S
    BY FS_AddElement
  <1>2. QED
    BY <1>1, SumTake

LEMMA SumChange ==
    ASSUME NEW S, IsFiniteSet(S), NEW x \in S, NEW f, NEW g,
           \A y \in S : f[y] \in Int /\ g[y] \in Int,
           \A y \in S \ {x} : g[y] = f[y]
    PROVE  SumFunctionOnSet(g, S) = SumFunctionOnSet(f, S) + (g[x] - f[x])
  <1>1. /\ SumFunctionOnSet(f, S) = f[x] + SumFunctionOnSet(f, S \ {x})
        /\ SumFunctionOnSet(f, S \ {x}) \in Int
    <2>1. \A y \in S : f[y] \in Int
      OBVIOUS
    <2>2. QED
      BY ONLY IsFiniteSet(S), x \in S, <2>1, SumTake
  <1>2. SumFunctionOnSet(g, S) = g[x] + SumFunctionOnSet(g, S \ {x})
    <2>1. \A y \in S : g[y] \in Int
      OBVIOUS
    <2>2. QED
      BY ONLY IsFiniteSet(S), x \in S, <2>1, SumTake
  <1>3. IsFiniteSet(S \ {x})
    BY FS_Subset
  <1>4. \A y \in S \ {x} : f[y] \in Int /\ f[y] = g[y]
    OBVIOUS
  <1>5. SumFunctionOnSet(f, S \ {x}) = SumFunctionOnSet(g, S \ {x})
    BY <1>3, <1>4, SumEqual
  <1>6. f[x] \in Int /\ g[x] \in Int
    OBVIOUS
  <1>7. QED
    BY <1>1, <1>2, <1>5, <1>6

LEMMA SumWithin ==
    ASSUME NEW S, IsFiniteSet(S), NEW T \in SUBSET S, NEW f,
           \A x \in T : f[x] \in Int, \A x \in S \ T : f[x] = 0
    PROVE  SumFunctionOnSet(f, T) = SumFunctionOnSet(f, S)
  <1> DEFINE F(U) == SumFunctionOnSet(f, U)
             good == {U \in SUBSET S : F(T \cap U) = F(U)}
  <1>0. \A x \in S : f[x] \in Int
    OBVIOUS
  <1>1. ASSUME NEW U \in SUBSET S, \A V \in SUBSET U : V # U => V \in good
        PROVE  U \in good
    <2>1. CASE U \subseteq T
      <3>1. T \cap U = U
        BY <2>1
      <3>2. QED
        BY <3>1
    <2>2. CASE \E x \in U : x \notin T
      <3>1. PICK x \in U : x \notin T
        BY <2>2
      <3>2. IsFiniteSet(U)
        BY FS_Subset
      <3>t. \A y \in U : f[y] \in Int
        BY <1>0
      <3> HIDE DEF F
      <3>3. F(U) = f[x] + F(U \ {x}) /\ F(U \ {x}) \in Int
        <4>1. SumFunctionOnSet(f, U) = f[x] + SumFunctionOnSet(f, U \ {x})
              /\ SumFunctionOnSet(f, U \ {x}) \in Int
          BY ONLY x \in U, <3>2, <3>t, SumTake
        <4>2. QED
          BY <4>1 DEF F
      <3>4. f[x] = 0
        BY <3>1
      <3>5. T \cap (U \ {x}) = T \cap U
        BY <3>1
      <3>6. F(T \cap (U \ {x})) = F(U \ {x})
        BY <1>1
      <3>7. F(T \cap U) = F(U \ {x})
        BY <3>5, <3>6
      <3>8. F(U) = F(U \ {x})
        BY ONLY <3>3, <3>4
      <3>9. QED
        BY <3>7, <3>8
    <2>3. QED
      BY <2>1, <2>2
  <1> HIDE DEF good
  <1>2. S \in good
    BY <1>1, SubsetInduction
  <1>3. T \cap S = T
    OBVIOUS
  <1>4. QED
    BY <1>2, <1>3 DEF good

(* A sum over a subset is one over the whole, of nothing outside.          *)
LEMMA SumOver ==
    ASSUME NEW S, IsFiniteSet(S), NEW T \in SUBSET S,
           NEW f, DOMAIN f = T, \A x \in T : f[x] \in Int,
           NEW g, \A x \in S : g[x] = IF x \in T THEN f[x] ELSE 0
    PROVE  SumFunction(f) = SumFunctionOnSet(g, S)
  <1>1. SumFunction(f) = SumFunctionOnSet(f, T)
    BY DEF SumFunction
  <1>2. IsFiniteSet(T)
    BY FS_Subset
  <1>3. (\A x \in T : f[x] \in Int /\ f[x] = g[x]) /\ (\A x \in T : g[x] \in Int)
    OBVIOUS
  <1>4. SumFunctionOnSet(f, T) = SumFunctionOnSet(g, T)
    BY ONLY <1>2, <1>3, SumEqual
  <1>5. \A x \in S \ T : g[x] = 0
    OBVIOUS
  <1>6. SumFunctionOnSet(g, T) = SumFunctionOnSet(g, S)
    BY ONLY <1>3, <1>5, SumWithin, IsFiniteSet(S), T \in SUBSET S
  <1>7. QED
    BY <1>1, <1>4, <1>6

(* The steps of a descent add up to the whole of it.                       *)
LEMMA Telescope ==
    ASSUME NEW n \in Nat, NEW rem, \A i \in 0..n : rem[i] \in Int,
           NEW d, \A i \in 1..n : d[i] = rem[i - 1] - rem[i]
    PROVE  SumFunctionOnSet(d, 1..n) = rem[0] - rem[n]
  <1> DEFINE Sum(k) == SumFunctionOnSet(d, 1..k)
             good == {k \in Nat : k <= n => Sum(k) = rem[0] - rem[k]}
  <1>1. 0 \in good
    <2>1. 1..0 = {} /\ rem[0] \in Int
      OBVIOUS
    <2>2. Sum(0) = 0
      BY <2>1, SumEmpty
    <2> HIDE DEF Sum
    <2>3. QED
      BY <2>1, <2>2
  <1>2. ASSUME NEW k \in Nat, k \in good PROVE k + 1 \in good
    <2> SUFFICES ASSUME k + 1 <= n PROVE Sum(k + 1) = rem[0] - rem[k + 1]
      OBVIOUS
    <2>1. 1..(k + 1) = (1..k) \cup {k + 1} /\ k + 1 \notin 1..k
      OBVIOUS
    <2>2. 1 \in Int /\ k \in Int
      OBVIOUS
    <2>3. IsFiniteSet(1..k)
      BY ONLY <2>2, FS_Interval
    <2>4. /\ rem[0] \in Int /\ rem[k] \in Int /\ rem[k + 1] \in Int
          /\ d[k + 1] = rem[k] - rem[k + 1]
      <3>1. 0 \in 0..n /\ k \in 0..n /\ k + 1 \in 0..n /\ k + 1 \in 1..n /\ (k + 1) - 1 = k
        OBVIOUS
      <3>2. QED
        BY <3>1
    <2>5. \A i \in (1..k) \cup {k + 1} : d[i] \in Int
      <3> SUFFICES ASSUME NEW i \in 1..n PROVE d[i] \in Int
        OBVIOUS
      <3>1. i \in 0..n /\ i - 1 \in 0..n
        OBVIOUS
      <3>2. rem[i] \in Int /\ rem[i - 1] \in Int /\ d[i] = rem[i - 1] - rem[i]
        BY <3>1
      <3>3. QED
        BY ONLY <3>2
    <2>6. SumFunctionOnSet(d, (1..k) \cup {k + 1}) = d[k + 1] + Sum(k)
      BY ONLY <2>1, <2>3, <2>5, SumInsert
    <2>7. Sum(k + 1) = d[k + 1] + Sum(k)
      BY <2>1, <2>6
    <2>8. Sum(k) = rem[0] - rem[k]
      BY <1>2
    <2> HIDE DEF Sum
    <2>9. QED
      BY <2>4, <2>7, <2>8
  <1> HIDE DEF good
  <1>3. n \in good
    BY <1>1, <1>2, NaturalInduction
  <1>4. QED
    BY <1>3 DEF good

(* A sum with one term that counts.                                        *)
LEMMA SumSingle ==
    ASSUME NEW S, IsFiniteSet(S), NEW f, NEW x \in S, f[x] \in Int,
           \A y \in S \ {x} : f[y] = 0
    PROVE  SumFunctionOnSet(f, S) = f[x]
  <1>1. (\A y \in S : f[y] \in Int) /\ IsFiniteSet(S \ {x})
    BY FS_Subset
  <1>2. SumFunctionOnSet(f, S) = f[x] + SumFunctionOnSet(f, S \ {x})
    BY <1>1, SumTake
  <1>3. SumFunctionOnSet(f, S \ {x}) = 0
    BY <1>1, SumZero
  <1>4. QED
    BY <1>2, <1>3

(* No term is more than the sum of all, if none is negative.               *)
LEMMA SumAtLeast ==
    ASSUME NEW S, IsFiniteSet(S), NEW f, \A x \in S : f[x] \in Nat, NEW x \in S
    PROVE  f[x] <= SumFunctionOnSet(f, S)
  <1>1. (\A y \in S : f[y] \in Int) /\ IsFiniteSet(S \ {x}) /\ \A y \in S \ {x} : f[y] \in Nat
    BY FS_Subset
  <1>2. SumFunctionOnSet(f, S) = f[x] + SumFunctionOnSet(f, S \ {x})
    BY <1>1, SumTake
  <1>3. SumFunctionOnSet(f, S \ {x}) \in Nat
    BY <1>1, SumNat
  <1>4. f[x] \in Nat
    OBVIOUS
  <1>5. QED
    BY <1>2, <1>3, <1>4

=============================================================================
