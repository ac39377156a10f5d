---------------------------- MODULE Reads_proofs ----------------------------
(***************************************************************************)
(* Proofs about what is read back, for every value of the constants: the   *)
(* energy of a device's day and the rollup that keeps it (Rollups), the    *)
(* figures made of the rollup (Reports) and the paged lists (Lists). The   *)
(* first part is about the sums that Rollups and Reports are made of.      *)
(***************************************************************************)
EXTENDS Lists, Rollups, Reports, FiniteSetTheorems, WellFoundedInduction, TLAPS

(***************************************************************************)
(* Sums.                                                                   *)
(***************************************************************************)

(* Induction over the numbers, and over the subsets of a finite set, with a*)
(* set in place of the property.                                           *)
LEMMA Least ==
  ASSUME NEW T, T \subseteq Nat, T # {}
  PROVE  \E t \in T : \A u \in T : t <= u
<1>1. PICK t \in T : \A u \in T : ~(<<u, t>> \in OpToRel(<, Nat))
  BY WFMin, NatLessThanWellFounded
<1>2. \A u \in T : ~(u < t)
  BY <1>1 DEF OpToRel
<1>. QED
  BY <1>2

(* A set that has 0, and with a number the next one, has them all.         *)
LEMMA AllNumbers ==
  ASSUME NEW T, 0 \in T, \A n \in Nat : n \in T => n + 1 \in T
  PROVE  Nat \subseteq T
<1>. SUFFICES ASSUME Nat \ T # {} PROVE FALSE
  OBVIOUS
<1>1. PICK t \in Nat \ T : \A u \in Nat \ T : t <= u
  BY Least
<1>2. t - 1 \in Nat /\ t - 1 \notin Nat \ T
  BY <1>1
<1>. QED
  BY <1>1, <1>2

(* A finite set and an element of it.                                      *)
LEMMA Sizes ==
  ASSUME NEW S, IsFiniteSet(S)
  PROVE  /\ Cardinality(S) \in Nat
         /\ Cardinality(S) = 0 <=> S = {}
         /\ \A T \in SUBSET S : IsFiniteSet(T) /\ Cardinality(T) <= Cardinality(S)
         /\ \A x \in S : Cardinality(S \ {x}) = Cardinality(S) - 1
BY FS_CardinalityType, FS_EmptySet, FS_Subset, FS_RemoveElement

(* A family that has {}, and with a part of S that part with one more      *)
(* element, has every part of S.                                           *)
LEMMA AllSubsets ==
  ASSUME NEW S, IsFiniteSet(S), NEW P, {} \in P,
         \A T \in SUBSET S : \A x \in S \ T : T \in P => T \cup {x} \in P
  PROVE  SUBSET S \subseteq P
<1>. DEFINE N == {n \in Nat : \A T \in SUBSET S : Cardinality(T) = n => T \in P}
<1>1. \A T \in SUBSET S : /\ IsFiniteSet(T) /\ Cardinality(T) \in Nat
                          /\ Cardinality(T) = 0 <=> T = {}
                          /\ \A x \in T : Cardinality(T \ {x}) = Cardinality(T) - 1
  <2>. SUFFICES ASSUME NEW T \in SUBSET S
                PROVE  /\ IsFiniteSet(T) /\ Cardinality(T) \in Nat
                       /\ Cardinality(T) = 0 <=> T = {}
                       /\ \A x \in T : Cardinality(T \ {x}) = Cardinality(T) - 1
    OBVIOUS
  <2>1. IsFiniteSet(T)
    BY Sizes
  <2>. QED
    BY <2>1, Sizes
<1>2. 0 \in N
  BY <1>1
<1>3. ASSUME NEW n \in Nat, n \in N, NEW T \in SUBSET S, Cardinality(T) = n + 1
      PROVE  T \in P
  <2>1. T # {}
    BY <1>1, <1>3
  <2>2. PICK x \in T : TRUE
    BY <2>1
  <2>3. T \ {x} \in SUBSET S /\ Cardinality(T \ {x}) = n
    BY <1>1, <1>3
  <2>4. T \ {x} \in P
    BY <1>3, <2>3
  <2>5. x \in S \ (T \ {x}) /\ (T \ {x}) \cup {x} = T
    OBVIOUS
  <2>. QED
    BY <2>3, <2>4, <2>5
<1>4. \A n \in Nat : n \in N => n + 1 \in N
  BY <1>3
<1>5. Nat \subseteq N
  <2>. HIDE DEF N
  <2>. QED
    BY <1>2, <1>4, AllNumbers
<1>. QED
  BY <1>1, <1>5

(* A sum is worked out one element after another.                          *)
AnyOf(s) == CHOOSE x \in s : TRUE

Iter(D, f, g) == g = [s \in D |-> IF s = {} THEN 0 ELSE f[AnyOf(s)] + g[s \ {AnyOf(s)}]]

(* What there is to know of a part of a finite set.                        *)
Part(s, S) ==
  /\ IsFiniteSet(s) /\ Cardinality(s) \in Nat
  /\ Cardinality(s) <= Cardinality(S)
  /\ Cardinality(s) = 0 <=> s = {}
  /\ s # {} => /\ AnyOf(s) \in s
               /\ s \ {AnyOf(s)} \in SUBSET S
               /\ Cardinality(s \ {AnyOf(s)}) = Cardinality(s) - 1

(* And it is so of every part.                                             *)
LEMMA Parts ==
  ASSUME NEW S, IsFiniteSet(S)
  PROVE  \A s \in SUBSET S : Part(s, S)
<1>. SUFFICES ASSUME NEW s \in SUBSET S
              PROVE  Part(s, S)
  OBVIOUS
<1>1. IsFiniteSet(s) /\ Cardinality(s) <= Cardinality(S)
  BY Sizes
<1>2. s # {} => AnyOf(s) \in s
  BY DEF AnyOf
<1>. QED
  BY <1>1, <1>2, Sizes DEF Part

(* The recursive function by which MapThenFoldSet sums exists, ...         *)
LEMMA IterExists ==
  ASSUME NEW S, IsFiniteSet(S), NEW f
  PROVE  \E g : Iter(SUBSET S, f, g)
<1>. DEFINE D(n) == {s \in SUBSET S : Cardinality(s) <= n}
            N == {n \in Nat : \E g : Iter(D(n), f, g)}
<1>1. \A s \in SUBSET S : Part(s, S)
  BY Parts
<1>2. 0 \in N
  <2>1. ASSUME NEW s \in D(0) PROVE s = {}
    <3>1. Part(s, S) /\ Cardinality(s) <= 0
      BY <1>1
    <3>. QED
      BY <3>1 DEF Part
  <2>2. Iter(D(0), f, [s \in D(0) |-> 0])
    BY <2>1 DEF Iter
  <2>. QED
    BY <2>2
<1>3. ASSUME NEW n \in Nat, n \in N PROVE n + 1 \in N
  <2>1. PICK g : Iter(D(n), f, g)
    BY <1>3
  <2>. DEFINE h == [s \in D(n+1) |-> IF s = {} THEN 0 ELSE f[AnyOf(s)] + g[s \ {AnyOf(s)}]]
  <2>2. \A s \in D(n) : s \in D(n+1) /\ h[s] = g[s]
    <3>1. ASSUME NEW s \in D(n) PROVE s \in D(n+1)
      <4>1. Part(s, S) /\ Cardinality(s) <= n /\ s \in SUBSET S
        BY <1>1
      <4>2. Cardinality(s) <= n + 1
        BY <4>1 DEF Part
      <4>. QED
        BY <4>1, <4>2
    <3>. QED
      BY <2>1, <3>1 DEF Iter
  <2>3. \A s \in D(n+1) : s # {} => s \ {AnyOf(s)} \in D(n)
    BY <1>1 DEF Part
  <2>4. \A s \in D(n+1) : s # {} => h[s \ {AnyOf(s)}] = g[s \ {AnyOf(s)}]
    BY <2>2, <2>3
  <2>5. h = [s \in D(n+1) |-> IF s = {} THEN 0 ELSE f[AnyOf(s)] + h[s \ {AnyOf(s)}]]
    <3>. HIDE DEF D
    <3>. QED
      BY <2>4
  <2>6. Iter(D(n+1), f, h)
    BY <2>5 DEF Iter
  <2>7. \E k : Iter(D(n+1), f, k)
    <3>. HIDE DEF h, D
    <3>. QED
      BY <2>6
  <2>. QED
    BY <2>7
<1>4. Nat \subseteq N
  <2>1. \A n \in Nat : n \in N => n + 1 \in N
    BY <1>3
  <2>. HIDE DEF N
  <2>. QED
    BY <1>2, <2>1, AllNumbers
<1>5. Cardinality(S) \in Nat /\ D(Cardinality(S)) = SUBSET S
  BY <1>1, Sizes DEF Part
<1>. QED
  BY <1>4, <1>5

(* ... gives the same on the parts of a smaller set, ...                   *)
LEMMA IterAgrees ==
  ASSUME NEW S, IsFiniteSet(S), NEW f, NEW T \in SUBSET S, NEW g, Iter(SUBSET S, f, g),
         NEW h, Iter(SUBSET T, f, h)
  PROVE  \A s \in SUBSET T : g[s] = h[s]
<1>. DEFINE N == {n \in Nat : \A s \in SUBSET T : Cardinality(s) = n => g[s] = h[s]}
<1>0. IsFiniteSet(T)
  BY FS_Subset
<1>1. \A s \in SUBSET T : Part(s, T)
  BY <1>0, Parts
<1>2. \A s \in SUBSET T : s \in SUBSET S
  OBVIOUS
<1>3. \A s \in SUBSET T : IF s = {} THEN g[s] = 0 /\ h[s] = 0
                          ELSE /\ g[s] = f[AnyOf(s)] + g[s \ {AnyOf(s)}]
                               /\ h[s] = f[AnyOf(s)] + h[s \ {AnyOf(s)}]
  BY <1>2 DEF Iter
<1>4. 0 \in N
  BY <1>1, <1>3 DEF Part
<1>5. \A n \in Nat : n \in N => n + 1 \in N
  <2>. SUFFICES ASSUME NEW n \in Nat, n \in N, NEW s \in SUBSET T, Cardinality(s) = n + 1
                PROVE  g[s] = h[s]
    OBVIOUS
  <2>0. Part(s, T) /\ Cardinality(s) = n + 1
    BY <1>1
  <2>1. s # {}
    BY <2>0 DEF Part
  <2>2. g[s \ {AnyOf(s)}] = h[s \ {AnyOf(s)}]
    BY <1>1, <2>1 DEF Part
  <2>. QED
    BY <1>3, <2>1, <2>2
<1>6. Nat \subseteq N
  <2>. HIDE DEF N
  <2>. QED
    BY <1>4, <1>5, AllNumbers
<1>. QED
  BY <1>1, <1>6 DEF Part

(* ... and so its value at S is the sum over S.                            *)
LEMMA SumIs ==
  ASSUME NEW S, NEW f, NEW g, Iter(SUBSET S, f, g), IsFiniteSet(S)
  PROVE  SumOver(S, f) = g[S]
<1>. DEFINE c == CHOOSE h : Iter(SUBSET S, f, h)
<1>1. Iter(SUBSET S, f, c)
  OBVIOUS
<1>2. SumOver(S, f) = c[S]
  BY DEF SumOver, MapThenSumSet, MapThenFoldSet, Iter, AnyOf
<1>. HIDE DEF c
<1>. QED
  BY <1>1, <1>2, IterAgrees

(* Nothing sums to 0.                                                      *)
LEMMA SumEmpty == ASSUME NEW f PROVE SumOver({}, f) = 0
<1>1. PICK g : Iter(SUBSET {}, f, g)
  BY IterExists, FS_EmptySet
<1>2. {} \in SUBSET {}
  OBVIOUS
<1>3. g[{}] = 0
  BY <1>1, <1>2 DEF Iter
<1>. QED
  BY <1>1, <1>3, SumIs, FS_EmptySet

(* The sum is one element's value and the sum of the rest; which one is    *)
(* MapThenFoldSet's choice, ...                                            *)
LEMMA SumStep ==
  ASSUME NEW S, NEW f, IsFiniteSet(S), S # {}
  PROVE  \E x \in S : SumOver(S, f) = f[x] + SumOver(S \ {x}, f)
<1>. DEFINE x == AnyOf(S)
            R == S \ {x}
<1>1. x \in S /\ IsFiniteSet(R)
  BY FS_RemoveElement DEF AnyOf
<1>2. PICK g : Iter(SUBSET S, f, g)
  BY IterExists
<1>3. PICK h : Iter(SUBSET R, f, h)
  BY <1>1, IterExists
<1>4. g[R] = h[R]
  <2>1. R \in SUBSET S /\ R \in SUBSET R
    OBVIOUS
  <2>. HIDE DEF R
  <2>. QED
    BY <2>1, <1>1, <1>2, <1>3, IterAgrees
<1>5. g[S] = f[x] + g[R]
  BY <1>2 DEF Iter
<1>6. SumOver(S, f) = g[S] /\ SumOver(R, f) = h[R]
  BY <1>1, <1>2, <1>3, SumIs
<1>. QED
  BY <1>1, <1>4, <1>5, <1>6

(* ... and of numbers it may be any.                                       *)
LEMMA SumRemove ==
  ASSUME NEW S, NEW f, IsFiniteSet(S), \A x \in S : f[x] \in Int
  PROVE  /\ SumOver(S, f) \in Int
         /\ \A x \in S : SumOver(S, f) = f[x] + SumOver(S \ {x}, f)
<1>. DEFINE Good(T) == /\ SumOver(T, f) \in Int
                       /\ \A x \in T : SumOver(T, f) = f[x] + SumOver(T \ {x}, f)
            N == {n \in Nat : \A T \in SUBSET S : Cardinality(T) <= n => Good(T)}
<1>1. \A T \in SUBSET S : Part(T, S)
  BY Parts
<1>2. 0 \in N
  <2>. SUFFICES ASSUME NEW T \in SUBSET S, Cardinality(T) <= 0
                PROVE  Good(T)
    OBVIOUS
  <2>1. T = {}
    <3>1. Part(T, S)
      BY <1>1
    <3>. QED
      BY <3>1 DEF Part
  <2>. QED
    BY <2>1, SumEmpty
<1>3. ASSUME NEW n \in Nat, n \in N PROVE n + 1 \in N
  <2>. SUFFICES ASSUME NEW T \in SUBSET S, Cardinality(T) <= n + 1, T # {}
                PROVE  Good(T)
    BY SumEmpty
  <2>1. IsFiniteSet(T) /\ Cardinality(T) \in Nat /\ \A x \in T : f[x] \in Int
    <3>1. Part(T, S)
      BY <1>1
    <3>. QED
      BY <3>1 DEF Part
  <2>2. \A R \in SUBSET T : R # T => R \in SUBSET S /\ Cardinality(R) <= n
    <3>. SUFFICES ASSUME NEW R \in SUBSET T, R # T
                  PROVE  R \in SUBSET S /\ Cardinality(R) <= n
      OBVIOUS
    <3>1. PICK z \in T : z \notin R
      OBVIOUS
    <3>2. IsFiniteSet(T \ {z}) /\ Cardinality(T \ {z}) = Cardinality(T) - 1
      BY <2>1, Sizes
    <3>3. R \in SUBSET (T \ {z})
      BY <3>1
    <3>4. Cardinality(R) <= Cardinality(T \ {z}) /\ Cardinality(R) \in Nat
      BY <3>2, <3>3, Sizes
    <3>. QED
      BY <2>1, <3>2, <3>4
  <2>3. \A R \in SUBSET T : R # T => Good(R)
    BY <1>3, <2>2
  <2>4. PICK y \in T : SumOver(T, f) = f[y] + SumOver(T \ {y}, f)
    BY <2>1, SumStep
  <2>5. SumOver(T, f) \in Int
    BY <2>1, <2>3, <2>4
  <2>6. ASSUME NEW x \in T, x # y
        PROVE  SumOver(T, f) = f[x] + SumOver(T \ {x}, f)
    <3>1. x \in T \ {y} /\ y \in T \ {x} /\ (T \ {y}) \ {x} = (T \ {x}) \ {y}
      BY <2>6
    <3>. DEFINE R == SumOver((T \ {x}) \ {y}, f)
    <3>2. SumOver(T \ {y}, f) = f[x] + R /\ SumOver(T \ {x}, f) = f[y] + R
      BY <2>3, <3>1
    <3>3. R \in Int
      <4>1. (T \ {x}) \ {y} \in SUBSET T /\ (T \ {x}) \ {y} # T
        OBVIOUS
      <4>. QED
        BY <2>3, <4>1
    <3>. HIDE DEF R
    <3>. QED
      BY <2>1, <2>4, <3>2, <3>3
  <2>. QED
    BY <2>4, <2>5, <2>6
<1>4. Nat \subseteq N
  <2>1. \A n \in Nat : n \in N => n + 1 \in N
    BY <1>3
  <2>. HIDE DEF N
  <2>. QED
    BY <1>2, <2>1, AllNumbers
<1>5. S \in SUBSET S /\ Cardinality(S) \in Nat
  BY <1>1 DEF Part
<1>. QED
  BY <1>4, <1>5

(* One element more adds its value.                                        *)
LEMMA SumAdd ==
  ASSUME NEW S, NEW f, NEW x, IsFiniteSet(S), x \notin S, f[x] \in Int, \A y \in S : f[y] \in Int
  PROVE  SumOver(S \cup {x}, f) = f[x] + SumOver(S, f) /\ SumOver(S, f) \in Int
<1>1. IsFiniteSet(S \cup {x})
  BY FS_AddElement
<1>2. (S \cup {x}) \ {x} = S /\ x \in S \cup {x}
  OBVIOUS
<1>3. \A y \in S \cup {x} : f[y] \in Int
  OBVIOUS
<1>. QED
  BY <1>1, <1>2, <1>3, SumRemove

(* The sum over one element is its value.                                  *)
LEMMA SumOne ==
  ASSUME NEW f, NEW x, f[x] \in Int
  PROVE  SumOver({x}, f) = f[x]
<1>1. IsFiniteSet({}) /\ SumOver({}, f) = 0 /\ {} \cup {x} = {x}
  BY SumEmpty, FS_EmptySet
<1>2. SumOver({} \cup {x}, f) = f[x] + SumOver({}, f)
  BY <1>1, SumAdd
<1>. QED
  BY <1>1, <1>2

(* Sums are ordered as their terms are.                                    *)
LEMMA SumLess ==
  ASSUME NEW S, NEW f, NEW g, IsFiniteSet(S), \A x \in S : f[x] \in Int /\ g[x] \in Int /\ f[x] <= g[x]
  PROVE  /\ SumOver(S, f) <= SumOver(S, g)
         /\ (\E x \in S : f[x] < g[x]) => SumOver(S, f) < SumOver(S, g)
<1>. DEFINE Q(T) == /\ SumOver(T, f) <= SumOver(T, g)
                    /\ (\E x \in T : f[x] < g[x]) => SumOver(T, f) < SumOver(T, g)
            P == {T \in SUBSET S : Q(T)}
<1>1. {} \in P
  BY SumEmpty
<1>2. ASSUME NEW T \in SUBSET S, NEW x \in S \ T, T \in P
      PROVE  T \cup {x} \in P
  <2>1. IsFiniteSet(T)
    BY FS_Subset
  <2>2. SumOver(T \cup {x}, f) = f[x] + SumOver(T, f) /\ SumOver(T, f) \in Int
    BY <2>1, SumAdd
  <2>3. SumOver(T \cup {x}, g) = g[x] + SumOver(T, g) /\ SumOver(T, g) \in Int
    BY <2>1, SumAdd
  <2>. QED
    BY <1>2, <2>2, <2>3
<1>3. SUBSET S \subseteq P
  <2>. HIDE DEF P
  <2>. QED
    BY <1>1, <1>2, AllSubsets
<1>. QED
  BY <1>3

(* Equal terms have equal sums.                                            *)
LEMMA SumSame ==
  ASSUME NEW S, NEW f, NEW g, IsFiniteSet(S), \A x \in S : f[x] \in Int /\ f[x] = g[x]
  PROVE  SumOver(S, f) = SumOver(S, g)
<1>1. SumOver(S, f) <= SumOver(S, g) /\ SumOver(S, g) <= SumOver(S, f)
  BY SumLess
<1>2. SumOver(S, f) \in Int /\ SumOver(S, g) \in Int
  BY SumRemove
<1>. QED
  BY <1>1, <1>2

(* Equal terms sum to a product.                                           *)
LEMMA SumConstant ==
  ASSUME NEW S, NEW f, NEW c \in Int, IsFiniteSet(S), \A x \in S : f[x] = c
  PROVE  SumOver(S, f) = c * Cardinality(S)
<1>. DEFINE P == {T \in SUBSET S : SumOver(T, f) = c * Cardinality(T)}
<1>1. {} \in P
  BY SumEmpty, FS_EmptySet
<1>2. ASSUME NEW T \in SUBSET S, NEW x \in S \ T, T \in P
      PROVE  T \cup {x} \in P
  <2>1. IsFiniteSet(T)
    BY FS_Subset
  <2>2. SumOver(T \cup {x}, f) = f[x] + SumOver(T, f) /\ f[x] = c
    <3>1. f[x] \in Int /\ \A y \in T : f[y] \in Int
      OBVIOUS
    <3>. QED
      BY <2>1, <3>1, SumAdd
  <2>3. Cardinality(T) \in Nat /\ Cardinality(T \cup {x}) = Cardinality(T) + 1
    BY <2>1, FS_CardinalityType, FS_AddElement
  <2>. QED
    BY <1>2, <2>2, <2>3
<1>3. SUBSET S \subseteq P
  <2>. HIDE DEF P
  <2>. QED
    BY <1>1, <1>2, AllSubsets
<1>. QED
  BY <1>3

(* Naturals sum to a natural.                                              *)
LEMMA SumNat ==
  ASSUME NEW S, NEW f, IsFiniteSet(S), \A x \in S : f[x] \in Nat
  PROVE  SumOver(S, f) \in Nat
<1>. DEFINE z == [x \in S |-> 0]
<1>1. SumOver(S, z) = 0 * Cardinality(S) /\ Cardinality(S) \in Nat
  BY SumConstant, FS_CardinalityType
<1>2. SumOver(S, z) <= SumOver(S, f)
  BY SumLess
<1>3. SumOver(S, f) \in Int
  BY SumRemove
<1>. QED
  BY <1>1, <1>2, <1>3

(* A common factor can be taken out of a sum.                              *)
LEMMA SumTimes ==
  ASSUME NEW S, NEW f, NEW c \in Int, IsFiniteSet(S), NEW g,
         \A x \in S : f[x] \in Int /\ g[x] = c * f[x]
  PROVE  SumOver(S, g) = c * SumOver(S, f)
<1>. DEFINE P == {T \in SUBSET S : SumOver(T, g) = c * SumOver(T, f)}
<1>1. {} \in P
  BY SumEmpty
<1>2. ASSUME NEW T \in SUBSET S, NEW x \in S \ T, T \in P
      PROVE  T \cup {x} \in P
  <2>1. IsFiniteSet(T) /\ \A y \in S : g[y] \in Int
    BY FS_Subset
  <2>2. SumOver(T \cup {x}, f) = f[x] + SumOver(T, f) /\ SumOver(T, f) \in Int
    BY <2>1, SumAdd
  <2>3. SumOver(T \cup {x}, g) = g[x] + SumOver(T, g)
    BY <2>1, SumAdd
  <2>4. c * (f[x] + SumOver(T, f)) = c * f[x] + c * SumOver(T, f)
    BY <2>2
  <2>. QED
    BY <1>2, <2>2, <2>3, <2>4
<1>3. SUBSET S \subseteq P
  <2>. HIDE DEF P
  <2>. QED
    BY <1>1, <1>2, AllSubsets
<1>. QED
  BY <1>3

(* The sum over two disjoint sets is that over their union.                *)
LEMMA SumUnion ==
  ASSUME NEW S, NEW R, NEW f, IsFiniteSet(S), IsFiniteSet(R), S \cap R = {},
         \A x \in S \cup R : f[x] \in Int
  PROVE  SumOver(S \cup R, f) = SumOver(S, f) + SumOver(R, f)
<1>. DEFINE P == {T \in SUBSET S : SumOver(T \cup R, f) = SumOver(T, f) + SumOver(R, f)}
<1>0. SumOver(R, f) \in Int
  BY SumRemove
<1>1. {} \in P
  <2>1. {} \cup R = R
    OBVIOUS
  <2>. QED
    BY <1>0, <2>1, SumEmpty
<1>2. ASSUME NEW T \in SUBSET S, NEW x \in S \ T, T \in P
      PROVE  T \cup {x} \in P
  <2>1. IsFiniteSet(T) /\ IsFiniteSet(T \cup R)
    BY FS_Subset, FS_Union
  <2>2. SumOver(T \cup {x}, f) = f[x] + SumOver(T, f) /\ SumOver(T, f) \in Int
    BY <2>1, SumAdd
  <2>3. SumOver((T \cup R) \cup {x}, f) = f[x] + SumOver(T \cup R, f)
    BY <2>1, SumAdd
  <2>4. (T \cup R) \cup {x} = (T \cup {x}) \cup R /\ f[x] \in Int
    OBVIOUS
  <2>5. SumOver(T \cup R, f) = SumOver(T, f) + SumOver(R, f)
    BY <1>2
  <2>6. SumOver((T \cup {x}) \cup R, f) = SumOver(T \cup {x}, f) + SumOver(R, f)
    <3>1. SumOver((T \cup {x}) \cup R, f) = SumOver((T \cup R) \cup {x}, f)
      BY <2>4
    <3>. QED
      BY <1>0, <2>2, <2>3, <2>4, <2>5, <3>1
  <2>. QED
    BY <2>6
<1>3. SUBSET S \subseteq P
  <2>. HIDE DEF P
  <2>. QED
    BY <1>1, <1>2, AllSubsets
<1>. QED
  BY <1>3

(* Summing by groups, and then the groups, is summing at once.             *)
LEMMA SumGroups ==
  ASSUME NEW S, NEW f, NEW K, NEW key \in [S -> K], NEW group,
         IsFiniteSet(S), IsFiniteSet(K), \A x \in S : f[x] \in Int,
         \A k \in K : group[k] = SumOver({x \in S : key[x] = k}, f)
  PROVE  SumOver(S, f) = SumOver(K, group)
<1>. DEFINE G(T) == [k \in K |-> SumOver({x \in T : key[x] = k}, f)]
            P == {T \in SUBSET S : SumOver(T, f) = SumOver(K, G(T))}
<1>0. \A T \in SUBSET S : /\ IsFiniteSet(T)
                          /\ \A k \in K : /\ IsFiniteSet({x \in T : key[x] = k})
                                          /\ SumOver({x \in T : key[x] = k}, f) \in Int
  <2>. SUFFICES ASSUME NEW T \in SUBSET S
                PROVE  /\ IsFiniteSet(T)
                       /\ \A k \in K : /\ IsFiniteSet({x \in T : key[x] = k})
                                       /\ SumOver({x \in T : key[x] = k}, f) \in Int
    OBVIOUS
  <2>1. \A U \in SUBSET S : IsFiniteSet(U) /\ SumOver(U, f) \in Int
    BY FS_Subset, SumRemove
  <2>2. \A k \in K : {x \in T : key[x] = k} \in SUBSET S
    OBVIOUS
  <2>. QED
    BY <2>1, <2>2
<1>1. {} \in P
  <2>1. \A k \in K : {x \in {} : key[x] = k} = {}
    OBVIOUS
  <2>2. \A k \in K : G({})[k] = 0
    BY <2>1, SumEmpty
  <2>3. SumOver(K, G({})) = 0 * Cardinality(K) /\ Cardinality(K) \in Nat
    <3>. HIDE DEF G
    <3>. QED
      BY <2>2, SumConstant, FS_CardinalityType
  <2>. QED
    BY <2>3, SumEmpty
<1>2. ASSUME NEW T \in SUBSET S, NEW x \in S \ T, T \in P
      PROVE  T \cup {x} \in P
  <2>. DEFINE U == T \cup {x}
              k == key[x]
              R == K \ {k}
  <2>1. SumOver(U, f) = f[x] + SumOver(T, f) /\ SumOver(T, f) \in Int
    BY <1>0, SumAdd
  <2>2. k \in K /\ IsFiniteSet(R)
    BY FS_RemoveElement
  <2>3. \A j \in K : G(T)[j] \in Int /\ G(U)[j] \in Int
    BY <1>0
  <2>4. SumOver(K, G(T)) = G(T)[k] + SumOver(R, G(T)) /\ SumOver(K, G(U)) = G(U)[k] + SumOver(R, G(U))
    <3>. HIDE DEF G, U
    <3>. QED
      BY <2>2, <2>3, SumRemove
  <2>5. \A j \in R : G(U)[j] = G(T)[j]
    <3>1. \A j \in R : {y \in U : key[y] = j} = {y \in T : key[y] = j}
      OBVIOUS
    <3>. QED
      BY <3>1
  <2>6. SumOver(R, G(U)) = SumOver(R, G(T)) /\ SumOver(R, G(T)) \in Int
    <3>. HIDE DEF G, U
    <3>. QED
      BY <2>2, <2>3, <2>5, SumSame, SumRemove
  <2>7. G(U)[k] = f[x] + G(T)[k]
    <3>. DEFINE A == {y \in T : key[y] = k}
    <3>1. {y \in U : key[y] = k} = A \cup {x} /\ x \notin A
      OBVIOUS
    <3>2. IsFiniteSet(A) /\ \A y \in A : f[y] \in Int
      BY <1>0, <2>2
    <3>3. SumOver(A \cup {x}, f) = f[x] + SumOver(A, f)
      <4>. HIDE DEF A
      <4>. QED
        BY <3>1, <3>2, SumAdd
    <3>. QED
      BY <2>2, <3>1, <3>3
  <2>8. SumOver(T, f) = SumOver(K, G(T))
    BY <1>2
  <2>9. SumOver(U, f) = SumOver(K, G(U))
    <3>1. G(T)[k] \in Int /\ f[x] \in Int
      BY <2>2, <2>3
    <3>. HIDE DEF G, U, R
    <3>. QED
      BY <2>1, <2>4, <2>6, <2>7, <2>8, <3>1
  <2>. QED
    BY <2>9
<1>3. SUBSET S \subseteq P
  <2>. HIDE DEF P
  <2>. QED
    BY <1>1, <1>2, AllSubsets
<1>4. SumOver(S, f) = SumOver(K, G(S))
  BY <1>3
<1>5. \A k \in K : G(S)[k] = group[k] /\ G(S)[k] \in Int
  BY <1>0
<1>6. SumOver(K, G(S)) = SumOver(K, group)
  <2>. HIDE DEF G
  <2>. QED
    BY <1>5, SumSame
<1>. QED
  BY <1>4, <1>6

(* A sum does not change when its terms are named otherwise.               *)
LEMMA SumMoved ==
  ASSUME NEW S, NEW f, NEW T, NEW g, NEW to \in [S -> T], IsFiniteSet(S), IsFiniteSet(T),
         \A x \in S : f[x] \in Int /\ g[to[x]] = f[x],
         \A x, y \in S : to[x] = to[y] => x = y, \A t \in T : \E x \in S : to[x] = t
  PROVE  SumOver(S, f) = SumOver(T, g)
<1>1. ASSUME NEW t \in T PROVE g[t] = SumOver({x \in S : to[x] = t}, f)
  <2>1. PICK x \in S : to[x] = t
    OBVIOUS
  <2>2. {y \in S : to[y] = t} = {x}
    BY <2>1
  <2>. QED
    BY <2>1, <2>2, SumOne
<1>2. \A t \in T : g[t] = SumOver({x \in S : to[x] = t}, f)
  BY <1>1
<1>3. \A x \in S : f[x] \in Int
  OBVIOUS
<1>. QED
  BY <1>2, <1>3, SumGroups

(* What the provers need to know of products.                              *)
LEMMA Products ==
  ASSUME NEW a \in Int, NEW b \in Int, NEW c \in Int
  PROVE  a * b \in Int /\ a * b = b * a /\ a * (b + c) = a * b + a * c
OBVIOUS

(* Of fractions e[x] / w[x], that of the sums lies between two of them.    *)
LEMMA Mediant ==
  ASSUME NEW S, NEW e, NEW w, IsFiniteSet(S), S # {},
         \A x \in S : e[x] \in Int /\ w[x] \in Int
  PROVE  \E low, high \in S :
           /\ e[low] * SumOver(S, w) <= SumOver(S, e) * w[low]
           /\ e[high] * SumOver(S, w) >= SumOver(S, e) * w[high]
<1>. DEFINE E == SumOver(S, e)
            W == SumOver(S, w)
            left == [x \in S |-> W * e[x]]
            right == [x \in S |-> E * w[x]]
<1>1. E \in Int /\ W \in Int
  BY SumRemove
<1>2. \A x \in S : left[x] \in Int /\ right[x] \in Int /\ left[x] = e[x] * W /\ right[x] = E * w[x]
  <2>. HIDE DEF E, W
  <2>. QED
    BY <1>1, Products
<1>3. SumOver(S, left) = W * E /\ SumOver(S, right) = E * W
  <2>. HIDE DEF E, W
  <2>1. \A x \in S : left[x] = W * e[x] /\ right[x] = E * w[x]
    OBVIOUS
  <2>2. SumOver(S, left) = W * SumOver(S, e) /\ SumOver(S, right) = E * SumOver(S, w)
    <3>. HIDE DEF left, right
    <3>. QED
      BY <1>1, <2>1, SumTimes
  <2>. QED
    BY <2>2 DEF E, W
<1>4. W * E = E * W /\ W * E \in Int
  <2>. HIDE DEF E, W
  <2>. QED
    BY <1>1, Products
<1>5. \E low \in S : left[low] <= right[low]
  <2>. SUFFICES ASSUME \A x \in S : ~(left[x] <= right[x])
                PROVE  FALSE
    OBVIOUS
  <2>. HIDE DEF E, W, left, right
  <2>1. \A x \in S : right[x] \in Int /\ left[x] \in Int /\ right[x] <= left[x] /\ right[x] < left[x]
    BY <1>2
  <2>2. SumOver(S, right) < SumOver(S, left)
    <3>1. \E x \in S : right[x] < left[x]
      BY <2>1
    <3>. QED
      BY <2>1, <3>1, SumLess
  <2>. QED
    BY <1>3, <1>4, <2>2
<1>6. \E high \in S : left[high] >= right[high]
  <2>. SUFFICES ASSUME \A x \in S : ~(left[x] >= right[x])
                PROVE  FALSE
    OBVIOUS
  <2>. HIDE DEF E, W, left, right
  <2>1. \A x \in S : right[x] \in Int /\ left[x] \in Int /\ left[x] <= right[x] /\ left[x] < right[x]
    BY <1>2
  <2>2. SumOver(S, left) < SumOver(S, right)
    <3>1. \E x \in S : left[x] < right[x]
      BY <2>1
    <3>. QED
      BY <2>1, <3>1, SumLess
  <2>. QED
    BY <1>3, <1>4, <2>2
<1>. HIDE DEF left, right
<1>. QED
  BY <1>2, <1>5, <1>6

(***************************************************************************)
(* Rollups.                                                                *)
(***************************************************************************)

Reading ==
  [dev : Device, day : Day, slot : Slot, kwh : Counter, glitch : BOOLEAN, reset : BOOLEAN,
   backfilled : BOOLEAN, arrived : Nat]

RollupRow ==
  [dev : Device, day : Day, start : Counter, end : Counter, count : Nat, backfilled : Nat,
   reset : BOOLEAN]

RollupsTypeOK ==
  /\ now \in Day
  /\ watermark \in {now - 1, now} \cap Day
  /\ telemetry \subseteq Reading /\ IsFiniteSet(telemetry)
  /\ materialized \subseteq RollupRow
  /\ invalid \subseteq Device \X Day
  /\ arrivals \in Nat

(* The table's key, and what a glitch is.                                  *)
ReadingsKeyed ==
  /\ \A r, q \in telemetry : r.dev = q.dev /\ r.day = q.day /\ r.slot = q.slot => r = q
  /\ \A r \in telemetry : r.glitch => r.kwh = 0

(* What the watermark has not passed is due, and nothing of it is on disk. *)
LiveIsDue ==
  /\ \A r \in telemetry : r.day >= watermark => <<r.dev, r.day>> \in invalid
  /\ \A row \in materialized : row.day < watermark

OneRowADay ==
  \A row, other \in materialized : row.dev = other.dev /\ row.day = other.day => row = other

(* A row on disk shows readings that are there until they are purged.      *)
Shows(row, some) ==
  /\ \E r \in some : r.kwh = row.start
  /\ \E r \in some : r.kwh = row.end
  /\ row.reset => \E r \in some : r.reset

RowsGrounded ==
  \A row \in materialized :
    /\ row.start <= row.end
    /\ row.day >= now - RetentionDays => Shows(row, ReadingsOf(row.dev, row.day))

(* And a row no reading has come to since is what the readings add up to.  *)
InStep ==
  \A dev \in Device, day \in Day :
    day < watermark /\ <<dev, day>> \notin invalid /\ ReadingsOf(dev, day) # {}
      => RollupOf(dev, day) \in materialized

RollupsInv ==
  RollupsTypeOK /\ ReadingsKeyed /\ LiveIsDue /\ OneRowADay /\ RowsGrounded /\ InStep

(* What the assumptions say of the constants.                              *)
LEMMA Bounds ==
  /\ Day \subseteq Nat /\ Slot \subseteq Nat /\ Counter \subseteq Nat
  /\ RefreshDays \in Nat \ {0, 1} /\ RetentionDays \in Nat /\ RefreshDays - 1 <= RetentionDays
  /\ MaxDay \in Nat \ {0} /\ 1 \in Day
BY RollupsAssumption, DeviceDaysAssumption DEF Day

(* The greatest and the least of some numbers.                             *)
LEMMA Extremes ==
  ASSUME NEW S, S \subseteq Nat, IsFiniteSet(S), S # {}
  PROVE  /\ Max(S) \in S /\ Min(S) \in S
         /\ \A x \in S : Min(S) <= x /\ x <= Max(S)
<1>. DEFINE P == {T \in SUBSET S : T # {} => \E m \in T : \A x \in T : x <= m}
<1>1. {} \in P
  OBVIOUS
<1>2. ASSUME NEW T \in SUBSET S, NEW x \in S \ T, T \in P
      PROVE  T \cup {x} \in P
  <2>1. CASE T = {}
    <3>1. \A y \in T \cup {x} : y <= x
      BY <2>1
    <3>. QED
      BY <3>1
  <2>2. CASE T # {}
    <3>1. PICK m \in T : \A y \in T : y <= m
      BY <1>2, <2>2
    <3>2. CASE x <= m
      <4>1. \A y \in T \cup {x} : y <= m
        BY <3>1, <3>2
      <4>. QED
        BY <4>1
    <3>3. CASE ~(x <= m)
      <4>1. \A y \in T \cup {x} : y <= x
        BY <3>1, <3>3
      <4>. QED
        BY <4>1
    <3>. QED
      BY <3>2, <3>3
  <2>. QED
    BY <2>1, <2>2
<1>3. S \in P
  <2>1. SUBSET S \subseteq P
    <3>. HIDE DEF P
    <3>. QED
      BY <1>1, <1>2, AllSubsets
  <2>. QED
    BY <2>1
<1>4. PICK m \in S : \A x \in S : m >= x
  BY <1>3
<1>5. PICK l \in S : \A x \in S : l <= x
  BY Least
<1>6. Max(S) \in S /\ \A x \in S : Max(S) >= x
  BY <1>4 DEF Max
<1>7. Min(S) \in S /\ \A x \in S : Min(S) <= x
  BY <1>5 DEF Min
<1>. QED
  BY <1>6, <1>7

(* What GROUP BY makes of a device's day.                                  *)
RowOf(row, dev, day, group) ==
  /\ row \in RollupRow
  /\ row.dev = dev /\ row.day = day
  /\ Shows(row, group) /\ (row.reset <=> \E r \in group : r.reset)
  /\ \A r \in group : row.start <= r.kwh /\ r.kwh <= row.end
  /\ row.start <= row.end

(* The row that SumUp makes of some readings shows them, ...               *)
LEMMA Summed ==
  ASSUME NEW dev \in Device, NEW day \in Day, NEW group, group \subseteq Reading,
         IsFiniteSet(group), group # {}
  PROVE  RowOf(SumUp(dev, day, group), dev, day, group)
<1>. DEFINE row == SumUp(dev, day, group) kwh == [r \in group |-> r.kwh]
            energy == {r.kwh : r \in group}
<1>1. energy \subseteq Counter /\ Counter \subseteq Nat
  BY Bounds DEF Reading
<1>2. IsFiniteSet(energy)
  <2>1. kwh \in Surjection(group, energy)
    BY DEF Surjection
  <2>. HIDE DEF kwh, energy
  <2>. QED
    BY <2>1, FS_Surjection
<1>3. energy # {}
  OBVIOUS
<1>4. /\ Max(energy) \in energy /\ Min(energy) \in energy
      /\ \A x \in energy : Min(energy) <= x /\ x <= Max(energy)
  <2>. HIDE DEF energy
  <2>. QED
    BY <1>1, <1>2, <1>3, Extremes
<1>5. Cardinality(group) \in Nat /\ Cardinality({r \in group : r.backfilled}) \in Nat
  BY FS_CardinalityType, FS_Subset
<1>6. /\ row.dev = dev /\ row.day = day /\ row.start = Min(energy) /\ row.end = Max(energy)
      /\ row.reset = (\E r \in group : r.reset)
  BY DEF SumUp
<1>7. row \in RollupRow
  BY <1>1, <1>4, <1>5 DEF SumUp, RollupRow
<1>8. Shows(row, group)
  BY <1>4, <1>6 DEF Shows
<1>9. \A r \in group : r.kwh \in energy
  OBVIOUS
<1>. HIDE DEF energy, row
<1>10. row.start <= row.end
  BY <1>1, <1>3, <1>4, <1>6
<1>. QED
  BY <1>4, <1>6, <1>7, <1>8, <1>9, <1>10 DEF row, RowOf

(* ... and that of a device-day does.                                      *)
LEMMA RolledUp ==
  ASSUME RollupsTypeOK, NEW dev \in Device, NEW day \in Day, ReadingsOf(dev, day) # {}
  PROVE  RowOf(RollupOf(dev, day), dev, day, ReadingsOf(dev, day))
<1>1. ReadingsOf(dev, day) \subseteq telemetry
  BY DEF ReadingsOf
<1>2. ReadingsOf(dev, day) \subseteq Reading /\ IsFiniteSet(ReadingsOf(dev, day))
  BY <1>1, FS_Subset DEF RollupsTypeOK
<1>. QED
  BY <1>2, Summed DEF RollupOf

(* Nothing is stored at first.                                             *)
LEMMA RollupsInitInv == RollupsInit => RollupsInv
<1>. SUFFICES ASSUME RollupsInit PROVE RollupsInv
  OBVIOUS
<1>1. RollupsTypeOK
  BY Bounds, FS_EmptySet DEF RollupsInit, RollupsTypeOK
<1>2. ReadingsKeyed /\ LiveIsDue /\ OneRowADay /\ RowsGrounded
  BY DEF RollupsInit, ReadingsKeyed, LiveIsDue, OneRowADay, RowsGrounded
<1>3. InStep
  BY DEF RollupsInit, InStep, ReadingsOf
<1>. QED
  BY <1>1, <1>2, <1>3 DEF RollupsInv

(* A reading that is stored makes its device-day due, whatever is on disk. *)
LEMMA StoreKeeps ==
  ASSUME RollupsInv, NEW dev \in Device, NEW day \in Day, NEW slot \in Slot, NEW kwh \in Counter,
         NEW glitch \in BOOLEAN, Store(dev, day, slot, kwh, glitch)
  PROVE  RollupsInv'
<1>. DEFINE new == [dev |-> dev, day |-> day, slot |-> slot, kwh |-> kwh, glitch |-> glitch,
                    reset |-> DetectEnergyReset(dev, day, slot, kwh), backfilled |-> day < now,
                    arrived |-> Cardinality(ReadingsOf(dev, day))]
<1>1. /\ telemetry' = telemetry \cup {new} /\ invalid' = invalid \cup {<<dev, day>>}
      /\ arrivals' = arrivals + 1 /\ UNCHANGED <<now, materialized, watermark>>
      /\ day <= now /\ (glitch => kwh = 0) /\ ~\E r \in ReadingsOf(dev, day) : r.slot = slot
  BY DEF Store
<1>2. /\ new \in Reading /\ new.dev = dev /\ new.day = day /\ new.slot = slot /\ new.glitch = glitch
      /\ new.kwh = kwh
  <2>1. Cardinality(ReadingsOf(dev, day)) \in Nat
    BY FS_CardinalityType, FS_Subset DEF RollupsInv, RollupsTypeOK, ReadingsOf
  <2>. QED
    BY <2>1 DEF Reading, DetectEnergyReset
<1>. HIDE DEF new
<1>3. RollupsTypeOK'
  <2>1. IsFiniteSet(telemetry')
    BY <1>1, FS_AddElement DEF RollupsInv, RollupsTypeOK
  <2>. QED
    BY <1>1, <1>2, <2>1 DEF RollupsInv, RollupsTypeOK
<1>4. ReadingsKeyed'
  BY <1>1, <1>2 DEF RollupsInv, ReadingsKeyed, ReadingsOf
<1>5. LiveIsDue' /\ OneRowADay'
  BY <1>1, <1>2 DEF RollupsInv, LiveIsDue, OneRowADay
<1>7. RowsGrounded'
  <2>. SUFFICES ASSUME NEW row \in materialized
                PROVE  /\ row.start <= row.end
                       /\ row.day >= now - RetentionDays => Shows(row, ReadingsOf(row.dev, row.day)')
    BY <1>1 DEF RowsGrounded, Shows
  <2>1. row.dev \in Device /\ row.day \in Day
    BY DEF RollupsInv, RollupsTypeOK, RollupRow
  <2>2. row.start <= row.end /\ (row.day >= now - RetentionDays => Shows(row, ReadingsOf(row.dev, row.day)))
    BY DEF RollupsInv, RowsGrounded
  <2>3. ReadingsOf(row.dev, row.day) \subseteq ReadingsOf(row.dev, row.day)'
    BY <1>1 DEF ReadingsOf
  <2>. QED
    BY <2>2, <2>3 DEF Shows
<1>8. InStep'
  <2>. SUFFICES ASSUME NEW d \in Device, NEW e \in Day, e < watermark, <<d, e>> \notin invalid',
                       ReadingsOf(d, e)' # {}
                PROVE  RollupOf(d, e)' \in materialized
    BY <1>1 DEF InStep
  <2>0. <<d, e>> # <<dev, day>> /\ <<d, e>> \notin invalid
    BY <1>1
  <2>1. ReadingsOf(d, e)' = ReadingsOf(d, e) /\ <<d, e>> \notin invalid
    BY <1>1, <1>2, <2>0 DEF ReadingsOf
  <2>2. RollupOf(d, e)' = RollupOf(d, e)
    BY <2>1 DEF RollupOf
  <2>. QED
    BY <2>1, <2>2 DEF RollupsInv, InStep
<1>. QED
  BY <1>3, <1>4, <1>5, <1>7, <1>8 DEF RollupsInv

(* A refresh replaces the rows that are due by what is there now;          *)
(* retention has not reached the days of its window, so nothing is taken   *)
(* away.                                                                   *)
LEMMA RefreshKeeps ==
  ASSUME RollupsInv, Refresh
  PROVE  RollupsInv'
<1>. DEFINE due == {p \in invalid : p[2] \in (now - RefreshDays + 1)..(now - 1)}
            kept == {row \in materialized : <<row.dev, row.day>> \notin due}
            made == {RollupOf(p[1], p[2]) : p \in Groups(due)}
<1>1. /\ materialized' = kept \cup made /\ invalid' = invalid \ due
      /\ watermark' = now /\ UNCHANGED <<now, telemetry, arrivals>>
  BY DEF Refresh
<1>2. /\ due \subseteq Device \X Day /\ now \in Day /\ now \in Nat /\ watermark <= now
      /\ watermark >= now - 1 /\ watermark \in Nat
  BY Bounds DEF RollupsInv, RollupsTypeOK
<1>3. \A d \in Device, e \in Day : /\ ReadingsOf(d, e)' = ReadingsOf(d, e)
                                  /\ RollupOf(d, e)' = RollupOf(d, e)
  BY <1>1 DEF RollupOf, ReadingsOf
<1>4. ASSUME NEW row \in made
      PROVE  /\ <<row.dev, row.day>> \in due /\ row \in RollupRow
             /\ row = RollupOf(row.dev, row.day)
             /\ RowOf(row, row.dev, row.day, ReadingsOf(row.dev, row.day))
  <2>1. PICK p \in due : row = RollupOf(p[1], p[2]) /\ ReadingsOf(p[1], p[2]) # {}
    BY DEF Groups
  <2>2. p[1] \in Device /\ p[2] \in Day /\ p = <<p[1], p[2]>>
    BY <1>2, <2>1
  <2>3. RowOf(row, p[1], p[2], ReadingsOf(p[1], p[2]))
    BY <2>1, <2>2, RolledUp DEF RollupsInv
  <2>4. row.dev = p[1] /\ row.day = p[2] /\ row \in RollupRow
    BY <2>3 DEF RowOf
  <2>. QED
    BY <2>1, <2>2, <2>3, <2>4
<1>5. \A p \in due : p[2] < now /\ p[2] >= now - RetentionDays
  <2>. SUFFICES ASSUME NEW p \in due PROVE p[2] < now /\ p[2] >= now - RetentionDays
    OBVIOUS
  <2>1. p[2] \in Nat /\ p[2] >= now - RefreshDays + 1 /\ p[2] <= now - 1
    BY <1>2, Bounds
  <2>. QED
    BY <1>2, <2>1, Bounds
<1>6. kept \subseteq materialized
  OBVIOUS
<1>7. \A row \in materialized : row.day \in Nat /\ row.day < watermark /\ row.dev \in Device /\ row.day \in Day
  BY Bounds DEF RollupsInv, RollupsTypeOK, LiveIsDue, RollupRow
<1>8. \A d \in Device, e \in Day :
        <<d, e>> \in due /\ ReadingsOf(d, e) # {} => RollupOf(d, e) \in made
  <2>. SUFFICES ASSUME NEW d \in Device, NEW e \in Day, <<d, e>> \in due, ReadingsOf(d, e) # {}
                PROVE  RollupOf(d, e) \in made
    OBVIOUS
  <2>1. <<d, e>> \in Groups(due)
    BY DEF Groups
  <2>2. <<d, e>>[1] = d /\ <<d, e>>[2] = e
    OBVIOUS
  <2>. HIDE DEF due
  <2>. QED
    BY <2>1, <2>2
<1>9. \A d \in Device, e \in Day : <<d, e>> \in due <=> /\ <<d, e>> \in invalid
                                                       /\ e >= now - RefreshDays + 1 /\ e <= now - 1
  BY <1>2, Bounds
<1>. HIDE DEF due, made
<1>10. RollupsTypeOK'
  BY <1>1, <1>2, <1>4, <1>6 DEF RollupsInv, RollupsTypeOK
<1>11. ReadingsKeyed'
  BY <1>1 DEF RollupsInv, ReadingsKeyed
<1>12. LiveIsDue'
  <2>1. ASSUME NEW r \in telemetry, r.day >= now PROVE <<r.dev, r.day>> \in invalid \ due
    <3>1. r.dev \in Device /\ r.day \in Day /\ r.day \in Nat
      BY Bounds DEF RollupsInv, RollupsTypeOK, Reading
    <3>2. <<r.dev, r.day>> \in invalid
      BY <1>2, <2>1, <3>1 DEF RollupsInv, LiveIsDue
    <3>3. <<r.dev, r.day>> \notin due
      BY <1>2, <1>9, <2>1, <3>1
    <3>. QED
      BY <3>2, <3>3
  <2>2. ASSUME NEW row \in kept \cup made PROVE row.day < now
    <3>1. CASE row \in kept
      BY <1>2, <1>6, <1>7, <3>1
    <3>2. CASE row \in made
      BY <1>4, <1>5, <3>2
    <3>. QED
      BY <2>2, <3>1, <3>2
  <2>. QED
    BY <1>1, <2>1, <2>2 DEF LiveIsDue
<1>13. OneRowADay'
  <2>1. \A row, other \in kept : row.dev = other.dev /\ row.day = other.day => row = other
    BY <1>6 DEF RollupsInv, OneRowADay
  <2>2. \A row \in kept, other \in made : ~(row.dev = other.dev /\ row.day = other.day)
    BY <1>4
  <2>3. \A row, other \in made : row.dev = other.dev /\ row.day = other.day => row = other
    BY <1>4
  <2>. HIDE DEF kept
  <2>. QED
    BY <1>1, <2>1, <2>2, <2>3 DEF OneRowADay
<1>14. RowsGrounded'
  <2>1. ASSUME NEW row \in kept \cup made
        PROVE  /\ row.start <= row.end
               /\ row.day >= now - RetentionDays => Shows(row, ReadingsOf(row.dev, row.day))
    <3>1. CASE row \in kept
      BY <1>6, <3>1 DEF RollupsInv, RowsGrounded
    <3>2. CASE row \in made
      BY <1>4, <3>2 DEF RowOf
    <3>. QED
      BY <2>1, <3>1, <3>2
  <2>. QED
    BY <1>1, <2>1 DEF RowsGrounded, Shows, ReadingsOf
<1>15. InStep'
  <2>. SUFFICES ASSUME NEW d \in Device, NEW e \in Day, e < now, <<d, e>> \notin invalid \ due,
                       ReadingsOf(d, e) # {}
                PROVE  RollupOf(d, e) \in kept \cup made
    BY <1>1, <1>3 DEF InStep, ReadingsOf, RollupOf
  <2>1. CASE <<d, e>> \in due
    BY <1>8, <2>1
  <2>2. CASE <<d, e>> \notin due
    <3>1. <<d, e>> \notin invalid
      BY <2>2
    <3>2. e < watermark
      <4>1. PICK r \in telemetry : r.dev = d /\ r.day = e
        BY DEF ReadingsOf
      <4>2. ~(e >= watermark)
        BY <3>1, <4>1 DEF RollupsInv, LiveIsDue
      <4>. QED
        BY <1>2, <4>2, Bounds
    <3>3. RollupOf(d, e) \in materialized
      BY <3>1, <3>2 DEF RollupsInv, InStep
    <3>4. RollupOf(d, e).dev = d /\ RollupOf(d, e).day = e
      BY RolledUp DEF RollupsInv, RowOf
    <3>. QED
      BY <2>2, <3>3, <3>4
  <2>. QED
    BY <2>1, <2>2
<1>. QED
  BY <1>10, <1>11, <1>12, <1>13, <1>14, <1>15 DEF RollupsInv

(* A purge leaves rows on disk without readings, of days that no refresh   *)
(* reaches any more.                                                       *)
LEMMA PurgeKeeps ==
  ASSUME RollupsInv, Purge
  PROVE  RollupsInv'
<1>1. /\ telemetry' = {r \in telemetry : r.day >= now - RetentionDays}
      /\ UNCHANGED <<now, materialized, watermark, invalid, arrivals>>
  BY DEF Purge
<1>2. /\ telemetry' \subseteq telemetry /\ now \in Nat /\ watermark \in Nat
      /\ \A r \in telemetry : r.day \in Nat
  BY <1>1, Bounds DEF RollupsInv, RollupsTypeOK, Reading
<1>3. \A d \in Device, e \in Day :
        IF e >= now - RetentionDays THEN ReadingsOf(d, e)' = ReadingsOf(d, e) ELSE ReadingsOf(d, e)' = {}
  BY <1>1 DEF ReadingsOf
<1>4. RollupsTypeOK'
  <2>1. IsFiniteSet(telemetry')
    BY <1>2, FS_Subset DEF RollupsInv, RollupsTypeOK
  <2>. QED
    BY <1>1, <1>2, <2>1 DEF RollupsInv, RollupsTypeOK
<1>5. ReadingsKeyed' /\ LiveIsDue' /\ OneRowADay'
  BY <1>1, <1>2 DEF RollupsInv, ReadingsKeyed, LiveIsDue, OneRowADay
<1>6. RowsGrounded'
  <2>. SUFFICES ASSUME NEW row \in materialized
                PROVE  /\ row.start <= row.end
                       /\ row.day >= now - RetentionDays => Shows(row, ReadingsOf(row.dev, row.day)')
    BY <1>1 DEF RowsGrounded, Shows
  <2>1. row.dev \in Device /\ row.day \in Day
    BY DEF RollupsInv, RollupsTypeOK, RollupRow
  <2>2. row.day >= now - RetentionDays => ReadingsOf(row.dev, row.day)' = ReadingsOf(row.dev, row.day)
    BY <1>1 DEF ReadingsOf
  <2>3. row.start <= row.end /\ (row.day >= now - RetentionDays => Shows(row, ReadingsOf(row.dev, row.day)))
    BY DEF RollupsInv, RowsGrounded
  <2>. QED
    BY <2>2, <2>3 DEF Shows
<1>7. InStep'
  <2>. SUFFICES ASSUME NEW d \in Device, NEW e \in Day, e < watermark, <<d, e>> \notin invalid,
                       ReadingsOf(d, e)' # {}
                PROVE  RollupOf(d, e)' \in materialized
    BY <1>1 DEF InStep
  <2>1. ReadingsOf(d, e)' = ReadingsOf(d, e)
    BY <1>1 DEF ReadingsOf
  <2>2. RollupOf(d, e)' = RollupOf(d, e)
    BY <2>1 DEF RollupOf
  <2>. QED
    BY <2>1, <2>2 DEF RollupsInv, InStep
<1>. QED
  BY <1>4, <1>5, <1>6, <1>7 DEF RollupsInv

(* A day passes only once the watermark has come up to it.                 *)
LEMMA DayPassesKeeps ==
  ASSUME RollupsInv, DayPasses
  PROVE  RollupsInv'
<1>1. /\ now < MaxDay /\ watermark = now /\ now' = now + 1
      /\ UNCHANGED <<telemetry, materialized, watermark, invalid, arrivals>>
  BY DEF DayPasses
<1>2. now \in Nat /\ now' \in Day
  BY <1>1, Bounds DEF RollupsInv, RollupsTypeOK, Day
<1>3. RollupsTypeOK'
  BY <1>1, <1>2 DEF RollupsInv, RollupsTypeOK
<1>4. ReadingsKeyed' /\ LiveIsDue' /\ OneRowADay'
  BY <1>1 DEF RollupsInv, ReadingsKeyed, LiveIsDue, OneRowADay
<1>5. RowsGrounded'
  <2>1. \A row \in materialized : row.day \in Nat
    BY Bounds DEF RollupsInv, RollupsTypeOK, RollupRow
  <2>2. \A row \in materialized : row.day >= now' - RetentionDays => row.day >= now - RetentionDays
    BY <1>1, <1>2, <2>1, Bounds
  <2>. QED
    BY <1>1, <2>2 DEF RollupsInv, RowsGrounded, Shows, ReadingsOf
<1>6. InStep'
  BY <1>1 DEF RollupsInv, InStep, RollupOf, ReadingsOf
<1>. QED
  BY <1>3, <1>4, <1>5, <1>6 DEF RollupsInv

(* So every step keeps the invariant, ...                                  *)
LEMMA RollupsStepInv == RollupsInv /\ [RollupsNext]_rollupsVars => RollupsInv'
<1>1. ASSUME RollupsInv, RollupsNext PROVE RollupsInv'
  BY <1>1, StoreKeeps, RefreshKeeps, PurgeKeeps, DayPassesKeeps DEF RollupsNext
<1>2. ASSUME RollupsInv, UNCHANGED rollupsVars PROVE RollupsInv'
  BY <1>2 DEF rollupsVars, RollupsInv, RollupsTypeOK, ReadingsKeyed, LiveIsDue, OneRowADay,
    RowsGrounded, Shows, InStep, RollupOf, ReadingsOf
<1>. QED
  BY <1>1, <1>2

(* ... and it always holds.                                                *)
LEMMA RollupsInvHolds == RollupsSpec => []RollupsInv
  BY RollupsInitInv, RollupsStepInv, PTL DEF RollupsSpec

(* The sum of a function of one argument, or of none.                      *)
LEMMA SumFew ==
  ASSUME NEW f
  PROVE  /\ DOMAIN f = {} => Sum(f) = 0
         /\ \A x : DOMAIN f = {x} /\ f[x] \in Int => Sum(f) = f[x]
BY SumEmpty, SumOne DEF Sum

(* A row that shows at least what another does.                            *)
Covers(row, other) ==
  row.start <= other.start /\ other.end <= row.end /\ (other.reset => row.reset)

(* What a query gets of a device-day: at most one row.                     *)
RowsSound ==
  \A dev \in Device, day \in Day :
    /\ DailyRollup(dev, day) \subseteq RollupRow
    /\ \A row, other \in DailyRollup(dev, day) : row = other
    /\ \A row \in DailyRollup(dev, day) : row.dev = dev /\ row.day = day /\ row.start <= row.end

(* A query finds the materialised row of a day, or the live one.           *)
LEMMA LiveRow ==
  ASSUME NEW dev, NEW day
  PROVE  DailyRollup(dev, day) =
           IF day < watermark THEN {row \in materialized : row.dev = dev /\ row.day = day}
           ELSE IF ReadingsOf(dev, day) = {} THEN {} ELSE {RollupOf(dev, day)}
<1>1. Groups({<<dev, day>>}) = IF ReadingsOf(dev, day) = {} THEN {} ELSE {<<dev, day>>}
  BY DEF Groups
<1>2. <<dev, day>>[1] = dev /\ <<dev, day>>[2] = day
  OBVIOUS
<1>3. {RollupOf(p[1], p[2]) : p \in Groups({<<dev, day>>})} =
        IF ReadingsOf(dev, day) = {} THEN {} ELSE {RollupOf(dev, day)}
  BY <1>1, <1>2
<1>. QED
  BY <1>3 DEF DailyRollup

(* The rows a query finds are sound.                                       *)
LEMMA RowsAreSound == RollupsInv => RowsSound
<1>. SUFFICES ASSUME RollupsInv, NEW dev \in Device, NEW day \in Day
              PROVE  /\ DailyRollup(dev, day) \subseteq RollupRow
                     /\ \A row, other \in DailyRollup(dev, day) : row = other
                     /\ \A row \in DailyRollup(dev, day) :
                          row.dev = dev /\ row.day = day /\ row.start <= row.end
  BY DEF RowsSound
<1>1. CASE day < watermark
  <2>1. DailyRollup(dev, day) = {row \in materialized : row.dev = dev /\ row.day = day}
    BY <1>1, LiveRow
  <2>. QED
    BY <2>1 DEF RollupsInv, RollupsTypeOK, OneRowADay, RowsGrounded
<1>2. CASE ~(day < watermark)
  <2>1. DailyRollup(dev, day) \subseteq {RollupOf(dev, day)}
    BY <1>2, LiveRow
  <2>2. DailyRollup(dev, day) # {} => RowOf(RollupOf(dev, day), dev, day, ReadingsOf(dev, day))
    BY <1>2, LiveRow, RolledUp DEF RollupsInv
  <2>. QED
    BY <2>1, <2>2 DEF RowOf
<1>. QED
  BY <1>1, <1>2

(* A row of more readings covers one of fewer.                             *)
LEMMA WiderRow ==
  ASSUME NEW row, NEW other, NEW dev, NEW day, NEW group, RowOf(row, dev, day, group),
         group \subseteq Reading, Shows(other, group)
  PROVE  Covers(row, other)
<1>1. PICK r \in group : r.kwh = other.start
  BY DEF Shows
<1>2. PICK last \in group : last.kwh = other.end
  BY DEF Shows
<1>3. other.reset => row.reset
  BY DEF Shows, RowOf
<1>. QED
  BY <1>1, <1>2, <1>3 DEF RowOf, Covers

(* The device-days whose rows a step leaves at least as wide as they were. *)
StaysCovered(dev, day) ==
  \A row \in DailyRollup(dev, day) : \E wide \in DailyRollup(dev, day)' : Covers(wide, row)

(* Rows that stay are covered by themselves.                               *)
LEMMA SameRows ==
  ASSUME RollupsInv, NEW dev \in Device, NEW day \in Day,
         DailyRollup(dev, day) \subseteq DailyRollup(dev, day)'
  PROVE  StaysCovered(dev, day)
<1>1. \A row \in DailyRollup(dev, day) : row \in RollupRow
  BY RowsAreSound DEF RowsSound
<1>2. \A row \in RollupRow : row.start \in Nat /\ row.end \in Nat
  BY Bounds DEF RollupRow
<1>3. \A row \in DailyRollup(dev, day) : Covers(row, row)
  BY <1>1, <1>2 DEF Covers
<1>. QED
  BY <1>3 DEF StaysCovered

(* No step takes anything from the row of a device-day: a new reading can  *)
(* only widen it, ...                                                      *)
LEMMA StoreCovers ==
  ASSUME RollupsInv, RollupsInv', NEW d \in Device, NEW e \in Day, NEW slot \in Slot,
         NEW kwh \in Counter, NEW glitch \in BOOLEAN, Store(d, e, slot, kwh, glitch),
         NEW dev \in Device, NEW day \in Day
  PROVE  StaysCovered(dev, day)
<1>1. telemetry \subseteq telemetry' /\ UNCHANGED <<materialized, watermark>>
  BY DEF Store
<1>2. CASE day < watermark
  <2>1. DailyRollup(dev, day)' = DailyRollup(dev, day)
    BY <1>1, <1>2 DEF DailyRollup
  <2>. QED
    BY <2>1, SameRows
<1>3. CASE ~(day < watermark)
  <2>. SUFFICES ASSUME NEW row \in DailyRollup(dev, day)
                PROVE  \E wide \in DailyRollup(dev, day)' : Covers(wide, row)
    BY DEF StaysCovered
  <2>1. ReadingsOf(dev, day) # {} /\ row = RollupOf(dev, day)
    BY <1>3, LiveRow
  <2>. DEFINE group == {r \in telemetry' : r.dev = dev /\ r.day = day}
  <2>2. ReadingsOf(dev, day) \subseteq group /\ group # {} /\ ReadingsOf(dev, day)' = group
    BY <1>1, <2>1 DEF ReadingsOf
  <2>3. group \subseteq Reading /\ IsFiniteSet(group)
    <3>1. group \subseteq telemetry' /\ telemetry' \subseteq Reading /\ IsFiniteSet(telemetry')
      BY DEF RollupsInv, RollupsTypeOK
    <3>. QED
      BY <3>1, FS_Subset
  <2>. HIDE DEF group
  <2>4. RowOf(SumUp(dev, day, group), dev, day, group)
    BY <2>2, <2>3, Summed
  <2>5. Shows(row, group)
    BY <2>1, <2>2, RolledUp DEF RollupsInv, RowOf, Shows
  <2>6. SumUp(dev, day, group) \in DailyRollup(dev, day)'
    <3>1. DailyRollup(dev, day)' = {SumUp(p[1], p[2], {r \in telemetry' : r.dev = p[1] /\ r.day = p[2]}) :
             p \in {q \in {<<dev, day>>} : {r \in telemetry' : r.dev = q[1] /\ r.day = q[2]} # {}}}
      BY <1>1, <1>3 DEF DailyRollup, Groups, RollupOf, ReadingsOf
    <3>. QED
      BY <2>2, <3>1 DEF group
  <2>. QED
    BY <2>3, <2>4, <2>5, <2>6, WiderRow
<1>. QED
  BY <1>2, <1>3

(* ... a refresh works it out of no fewer readings than it shows, ...      *)
LEMMA RefreshCovers ==
  ASSUME RollupsInv, Refresh, NEW dev \in Device, NEW day \in Day
  PROVE  StaysCovered(dev, day)
<1>. DEFINE due == {p \in invalid : p[2] \in (now - RefreshDays + 1)..(now - 1)}
            kept == {row \in materialized : <<row.dev, row.day>> \notin due}
            made == {RollupOf(p[1], p[2]) : p \in Groups(due)}
            group == ReadingsOf(dev, day)
            fresh == RollupOf(dev, day)
<1>1. /\ materialized' = kept \cup made /\ watermark' = now /\ UNCHANGED <<now, telemetry>>
  BY DEF Refresh
<1>2. /\ now \in Nat /\ watermark <= now /\ watermark >= now - 1 /\ watermark \in Nat /\ day \in Nat
  BY Bounds DEF RollupsInv, RollupsTypeOK
<1>3. <<dev, day>> \in due <=> /\ <<dev, day>> \in invalid
                              /\ day >= now - RefreshDays + 1 /\ day <= now - 1
  BY <1>2, Bounds
<1>4. <<dev, day>> \in due /\ group # {} => fresh \in made
  <2>. HAVE <<dev, day>> \in due /\ group # {}
  <2>1. <<dev, day>> \in Groups(due)
    BY DEF Groups
  <2>2. <<dev, day>>[1] = dev /\ <<dev, day>>[2] = day
    OBVIOUS
  <2>. HIDE DEF due
  <2>. QED
    BY <2>1, <2>2
<1>5. group # {} => RowOf(fresh, dev, day, group)
  BY RolledUp DEF RollupsInv
<1>6. group \subseteq Reading
  BY DEF RollupsInv, RollupsTypeOK, ReadingsOf
<1>7. day < now => DailyRollup(dev, day)' = {row \in kept \cup made : row.dev = dev /\ row.day = day}
  BY <1>1 DEF DailyRollup
<1>8. ~(day < now) => DailyRollup(dev, day)' = {RollupOf(p[1], p[2]) : p \in Groups({<<dev, day>>})}
  BY <1>1 DEF DailyRollup, Groups, RollupOf, ReadingsOf
<1>9. CASE day < watermark
  <2>. SUFFICES ASSUME NEW row \in DailyRollup(dev, day)
                PROVE  \E wide \in DailyRollup(dev, day)' : Covers(wide, row)
    BY DEF StaysCovered
  <2>1. row \in materialized /\ row.dev = dev /\ row.day = day
    BY <1>9, LiveRow
  <2>2. CASE <<dev, day>> \notin due
    <3>1. row \in kept
      BY <2>1, <2>2
    <3>2. row \in DailyRollup(dev, day)'
      <4>. HIDE DEF kept, made
      <4>. QED
        BY <1>2, <1>7, <1>9, <2>1, <3>1
    <3>3. row.start \in Nat /\ row.end \in Nat
      BY <2>1, Bounds DEF RollupRow, RollupsInv, RollupsTypeOK
    <3>4. Covers(row, row)
      BY <3>3 DEF Covers
    <3>. QED
      BY <3>2, <3>4
  <2>3. CASE <<dev, day>> \in due
    <3>1. day >= now - RetentionDays
      BY <1>2, <1>3, <2>3, Bounds
    <3>2. Shows(row, group)
      BY <2>1, <3>1 DEF RollupsInv, RowsGrounded
    <3>3. group # {}
      BY <3>2 DEF Shows
    <3>4. fresh \in made /\ RowOf(fresh, dev, day, group)
      BY <1>4, <1>5, <2>3, <3>3
    <3>5. fresh \in DailyRollup(dev, day)'
      <4>. HIDE DEF kept, made
      <4>. QED
        BY <1>2, <1>7, <1>9, <3>4 DEF RowOf
    <3>6. Covers(fresh, row)
      BY <1>6, <3>2, <3>4, WiderRow
    <3>. QED
      BY <3>5, <3>6
  <2>. QED
    BY <2>2, <2>3
<1>10. CASE ~(day < watermark)
  <2>1. CASE day < now
    <3>. SUFFICES ASSUME NEW row \in DailyRollup(dev, day)
                  PROVE  row \in DailyRollup(dev, day)'
      BY SameRows
    <3>1. row = fresh /\ group # {}
      BY <1>10, LiveRow
    <3>2. <<dev, day>> \in invalid
      <4>1. PICK r \in telemetry : r.dev = dev /\ r.day = day
        BY <3>1 DEF ReadingsOf
      <4>. QED
        BY <1>2, <1>10, <4>1 DEF RollupsInv, LiveIsDue
    <3>3. <<dev, day>> \in due
      BY <1>2, <1>3, <1>10, <2>1, <3>2, Bounds
    <3>4. fresh \in made /\ RowOf(fresh, dev, day, group)
      BY <1>4, <1>5, <3>1, <3>3
    <3>. HIDE DEF kept, made
    <3>. QED
      BY <1>7, <2>1, <3>1, <3>4 DEF RowOf
  <2>2. CASE ~(day < now)
    <3>1. DailyRollup(dev, day)' = DailyRollup(dev, day)
      BY <1>8, <1>10, <2>2 DEF DailyRollup
    <3>. QED
      BY <3>1, SameRows
  <2>. QED
    BY <2>1, <2>2
<1>. QED
  BY <1>9, <1>10

(* ... and nothing else touches it.                                        *)
LEMMA OthersCover ==
  ASSUME RollupsInv, Purge \/ DayPasses \/ UNCHANGED rollupsVars, NEW dev \in Device, NEW day \in Day
  PROVE  StaysCovered(dev, day)
<1>1. UNCHANGED <<materialized, watermark>>
  BY DEF Purge, DayPasses, rollupsVars
<1>2. now \in Nat /\ watermark >= now - 1 /\ watermark \in Nat /\ day \in Nat
  BY Bounds DEF RollupsInv, RollupsTypeOK
<1>3. ~(day < watermark) => {r \in telemetry' : r.dev = dev /\ r.day = day} = ReadingsOf(dev, day)
  <2>1. ~(day < watermark) => day >= now - RetentionDays
    BY <1>2, Bounds
  <2>2. CASE Purge
    BY <2>1, <2>2 DEF Purge, ReadingsOf
  <2>3. CASE DayPasses \/ UNCHANGED rollupsVars
    BY <2>3 DEF DayPasses, rollupsVars, ReadingsOf
  <2>. QED
    BY <2>2, <2>3
<1>4. DailyRollup(dev, day)' = DailyRollup(dev, day)
  <2>1. CASE day < watermark
    BY <1>1, <2>1 DEF DailyRollup
  <2>2. CASE ~(day < watermark)
    <3>. DEFINE G(T, p) == {r \in T : r.dev = p[1] /\ r.day = p[2]}
                Live(T) == {SumUp(p[1], p[2], G(T, p)) : p \in {q \in {<<dev, day>>} : G(T, q) # {}}}
    <3>1. DailyRollup(dev, day) = Live(telemetry) /\ DailyRollup(dev, day)' = Live(telemetry')
      BY <1>1, <2>2 DEF DailyRollup, Groups, RollupOf, ReadingsOf
    <3>2. G(telemetry', <<dev, day>>) = G(telemetry, <<dev, day>>)
      BY <1>3, <2>2 DEF ReadingsOf
    <3>3. Live(telemetry') = Live(telemetry)
      <4>. HIDE DEF G
      <4>. QED
        BY <3>2
    <3>. QED
      BY <3>1, <3>3
  <2>. QED
    BY <2>1, <2>2
<1>. QED
  BY <1>4, SameRows

(* Where no reset is flagged, a wider row means no less energy, ...        *)
LEMMA RowsCompare ==
  ASSUME NEW A, NEW B, A \subseteq RollupRow, B \subseteq RollupRow,
         \A row, other \in A : row = other, \A row, other \in B : row = other,
         \A row \in A : \E wide \in B : Covers(wide, row),
         \A row \in B : row.start <= row.end /\ ~row.reset,
         NEW f, DOMAIN f = A, \A row \in A : ~row.reset => f[row] = row.end - row.start,
         NEW g, DOMAIN g = B, \A row \in B : ~row.reset => g[row] = row.end - row.start
  PROVE  Sum(g) >= Sum(f)
<1>1. \A row \in RollupRow : row.start \in Nat /\ row.end \in Nat
  BY Bounds DEF RollupRow
<1>2. CASE A = {}
  <2>1. Sum(f) = 0
    BY <1>2, SumFew
  <2>2. CASE B = {}
    BY <2>1, <2>2, SumFew
  <2>3. CASE B # {}
    <3>1. PICK b \in B : B = {b}
      BY <2>3
    <3>2. g[b] = b.end - b.start /\ b.start \in Nat /\ b.end \in Nat /\ b.start <= b.end
      BY <1>1
    <3>3. Sum(g) = g[b]
      BY <3>1, <3>2, SumFew
    <3>. QED
      BY <2>1, <3>2, <3>3
  <2>. QED
    BY <2>2, <2>3
<1>3. CASE A # {}
  <2>1. PICK a \in A : A = {a}
    BY <1>3
  <2>2. PICK b \in B : Covers(b, a)
    BY <2>1
  <2>3. B = {b}
    OBVIOUS
  <2>4. /\ g[b] = b.end - b.start /\ f[a] = a.end - a.start
        /\ b.start \in Nat /\ b.end \in Nat /\ a.start \in Nat /\ a.end \in Nat
    BY <1>1, <2>1, <2>2 DEF Covers
  <2>5. Sum(g) = g[b] /\ Sum(f) = f[a]
    BY <2>1, <2>3, <2>4, SumFew
  <2>. QED
    BY <2>2, <2>4, <2>5 DEF Covers
<1>. QED
  BY <1>2, <1>3

(* ... and the energy of a day is that of its row.                         *)
LEMMA CoveredStands ==
  ASSUME RollupsInv, RollupsInv', NEW dev \in Device, NEW day \in Day, StaysCovered(dev, day),
         ~Flagged(dev, day)'
  PROVE  EnergyOf(dev, day)' >= EnergyOf(dev, day)
<1>. DEFINE A == DailyRollup(dev, day)
            B == DailyRollup(dev, day)'
            f == [row \in A |-> DeviceDayEnergy(row)]
            g == [row \in B |-> DeviceDayEnergy(row)']
<1>1. RowsSound /\ RowsSound'
  BY RowsAreSound, PTL
<1>2. /\ A \subseteq RollupRow /\ \A row, other \in A : row = other
  BY <1>1 DEF RowsSound
<1>3. /\ B \subseteq RollupRow /\ (\A row, other \in B : row = other)
      /\ \A row \in B : row.start <= row.end
  BY <1>1 DEF RowsSound
<1>4. \A row \in B : ~row.reset
  BY DEF Flagged
<1>5. \A row \in A : \E wide \in B : Covers(wide, row)
  BY DEF StaysCovered, Covers
<1>6. DOMAIN f = A /\ \A row \in A : ~row.reset => f[row] = row.end - row.start
  BY DEF DeviceDayEnergy
<1>7. DOMAIN g = B /\ \A row \in B : ~row.reset => g[row] = row.end - row.start
  BY DEF DeviceDayEnergy
<1>8. EnergyOf(dev, day) = Sum(f) /\ EnergyOf(dev, day)' = Sum(g)
  BY DEF EnergyOf, Sum
<1>. HIDE DEF A, B, f, g
<1>9. Sum(g) >= Sum(f)
  BY <1>2, <1>3, <1>4, <1>5, <1>6, <1>7, RowsCompare
<1>. QED
  BY <1>8, <1>9

(* What is reported of a past day never shrinks, for any devices, days,    *)
(* readings and windows: as long as retention is not shorter than the      *)
(* refresh window, neither purge nor refresh takes anything from a row.    *)
(* (Migrations 0004 and 0006; deviceDayEnergy.)                            *)
THEOREM PastStays == RollupsSpec => PastStands
<1>1. ASSUME RollupsInv, RollupsInv', [RollupsNext]_rollupsVars
      PROVE  \A dev \in Device, day \in Day :
               ~Flagged(dev, day)' => EnergyOf(dev, day)' >= EnergyOf(dev, day)
  <2>1. \A dev \in Device, day \in Day : StaysCovered(dev, day)
    BY <1>1, StoreCovers, RefreshCovers, OthersCover DEF RollupsNext
  <2>. QED
    BY <1>1, <2>1, CoveredStands
<1>2. RollupsInv /\ RollupsInv' /\ [RollupsNext]_rollupsVars =>
        [\A dev \in Device, day \in Day :
           ~Flagged(dev, day)' => EnergyOf(dev, day)' >= EnergyOf(dev, day)]_rollupsVars
  BY <1>1
<1>. QED
  BY <1>2, RollupsInvHolds, PTL DEF RollupsSpec, PastStands

(* The variables of Rollups keep their types; the watermark is never more  *)
(* than a day behind. (telemetry, telemetry_daily and its refresh policy.) *)
THEOREM RollupsTypeCorrect == RollupsSpec => []RollupsTypeOK
BY RollupsInvHolds, PTL DEF RollupsInv

(* What Ascending makes of a finite set of numbers: all of it, in order.   *)
Rises(s) == \A i, k \in DOMAIN s : i < k => s[i] < s[k]

Enumerates(s, S) ==
  /\ s \in [1..Cardinality(S) -> S] /\ Cardinality(S) \in Nat
  /\ \A i, k \in 1..Cardinality(S) : i < k => s[i] < s[k]
  /\ \A x \in S : \E i \in 1..Cardinality(S) : s[i] = x

(* Every finite set of numbers can be put in ascending order, ...          *)
LEMMA RiseExists ==
  ASSUME NEW S, S \subseteq Nat, IsFiniteSet(S)
  PROVE  \E s \in [1..Cardinality(S) -> S] : Rises(s)
<1>. DEFINE N == {n \in Nat : \A T \in SUBSET S :
                    Cardinality(T) = n => \E s \in [1..n -> T] : Rises(s)}
<1>1. 0 \in N
  <2>. SUFFICES ASSUME NEW T \in SUBSET S PROVE \E s \in [1..0 -> T] : Rises(s)
    OBVIOUS
  <2>1. [i \in 1..0 |-> 0] \in [1..0 -> T] /\ Rises([i \in 1..0 |-> 0])
    BY DEF Rises
  <2>. QED
    BY <2>1
<1>2. ASSUME NEW n \in Nat, n \in N, NEW T \in SUBSET S, Cardinality(T) = n + 1
      PROVE  \E s \in [1..n + 1 -> T] : Rises(s)
  <2>0. IsFiniteSet(T) /\ T \subseteq Nat
    BY Sizes
  <2>1. IsFiniteSet(T) /\ T # {} /\ T \subseteq Nat
    BY <1>2, <2>0, Sizes
  <2>2. PICK m \in T : \A x \in T : x <= m
    BY <2>1, Extremes
  <2>3. T \ {m} \in SUBSET S /\ Cardinality(T \ {m}) = n
    BY <1>2, <2>1, Sizes
  <2>4. PICK s \in [1..n -> T \ {m}] : Rises(s)
    BY <1>2, <2>3
  <2>. DEFINE t == [i \in 1..n + 1 |-> IF i = n + 1 THEN m ELSE s[i]]
  <2>5. t \in [1..n + 1 -> T]
    BY <2>4
  <2>6. ASSUME NEW i \in 1..n + 1, NEW k \in 1..n + 1, i < k
        PROVE  t[i] < t[k]
    <3>1. i \in 1..n /\ t[i] = s[i] /\ s[i] \in T \ {m}
      BY <2>6
    <3>2. CASE k = n + 1
      <4>1. s[i] <= m /\ s[i] # m /\ s[i] \in Nat /\ m \in Nat
        BY <2>1, <2>2, <3>1
      <4>. QED
        BY <3>1, <3>2, <4>1
    <3>3. CASE k # n + 1
      <4>1. k \in 1..n /\ t[k] = s[k]
        BY <3>3
      <4>. QED
        BY <2>4, <2>6, <3>1, <4>1 DEF Rises
    <3>. QED
      BY <3>2, <3>3
  <2>7. Rises(t)
    BY <2>6 DEF Rises
  <2>. HIDE DEF t
  <2>. QED
    BY <2>5, <2>7
<1>3. \A n \in Nat : n \in N => n + 1 \in N
  BY <1>2
<1>4. Nat \subseteq N
  <2>. HIDE DEF N
  <2>. QED
    BY <1>1, <1>3, AllNumbers
<1>. QED
  BY <1>4, FS_CardinalityType

(* ... which Ascending does.                                               *)
LEMMA Ascends ==
  ASSUME NEW S, S \subseteq Nat, IsFiniteSet(S)
  PROVE  Enumerates(Ascending(S), S)
<1>. DEFINE n == Cardinality(S)
            s == Ascending(S)
<1>1. n \in Nat
  BY FS_CardinalityType
<1>2. s \in [1..n -> S] /\ \A i, k \in DOMAIN s : i < k => s[i] < s[k]
  <2>1. \E t \in [1..n -> S] : \A i, k \in DOMAIN t : i < k => t[i] < t[k]
    BY RiseExists DEF Rises
  <2>. QED
    BY <2>1 DEF Ascending
<1>. HIDE DEF s
<1>3. s \in Injection(1..n, S)
  <2>. SUFFICES ASSUME NEW i \in 1..n, NEW k \in 1..n, i # k PROVE s[i] # s[k]
    BY <1>2 DEF Injection, IsInjective
  <2>1. s[i] \in Nat /\ s[k] \in Nat
    BY <1>2
  <2>2. i < k \/ k < i
    BY <1>1
  <2>. QED
    BY <1>2, <2>1, <2>2
<1>4. IsFiniteSet(1..n) /\ Cardinality(1..n) = n
  BY <1>1, FS_Interval
<1>5. s \in Surjection(1..n, S)
  BY <1>3, <1>4, FS_Injection
<1>. QED
  BY <1>1, <1>2, <1>5 DEF s, Enumerates, Surjection

(* What a rising sequence rises by, step by step.                          *)
LEMMA Climb ==
  ASSUME NEW m \in Nat \ {0}, NEW v \in [1..m -> Nat], NEW delta,
         \A i \in (1..m) \ {1} : delta[i] = v[i] - v[i - 1]
  PROVE  SumOver((1..m) \ {1}, delta) = v[m] - v[1]
<1>. DEFINE N == {n \in Nat : n + 1 <= m => SumOver(2..(n + 1), delta) = v[n + 1] - v[1]}
<1>1. 0 \in N
  <2>1. 2..(0 + 1) = {} /\ v[0 + 1] - v[1] = 0
    OBVIOUS
  <2>2. SumOver(2..(0 + 1), delta) = 0
    BY <2>1, SumEmpty
  <2>. QED
    BY <2>1, <2>2
<1>2. ASSUME NEW n \in Nat, n \in N, n + 2 <= m
      PROVE  SumOver(2..(n + 2), delta) = v[n + 2] - v[1]
  <2>1. 2..(n + 2) = (2..(n + 1)) \cup {n + 2} /\ n + 2 \notin 2..(n + 1)
    OBVIOUS
  <2>2. IsFiniteSet(2..(n + 1))
    BY FS_Interval
  <2>3. \A i \in 2..(n + 2) : delta[i] = v[i] - v[i - 1] /\ delta[i] \in Int
    <3>. SUFFICES ASSUME NEW i \in 2..(n + 2) PROVE delta[i] = v[i] - v[i - 1] /\ delta[i] \in Int
      OBVIOUS
    <3>1. i \in (1..m) \ {1} /\ i \in 1..m /\ i - 1 \in 1..m
      BY <1>2
    <3>2. v[i] \in Nat /\ v[i - 1] \in Nat /\ delta[i] = v[i] - v[i - 1]
      BY <3>1
    <3>. QED
      BY <3>2
  <2>4. SumOver((2..(n + 1)) \cup {n + 2}, delta) = delta[n + 2] + SumOver(2..(n + 1), delta)
    BY <2>1, <2>2, <2>3, SumAdd
  <2>5. SumOver(2..(n + 1), delta) = v[n + 1] - v[1] /\ delta[n + 2] = v[n + 2] - v[n + 1]
    <3>1. n + 1 <= m /\ n + 2 \in 2..(n + 2) /\ (n + 2) - 1 = n + 1
      BY <1>2
    <3>2. delta[n + 2] = v[n + 2] - v[(n + 2) - 1]
      BY <2>3, <3>1
    <3>. QED
      BY <1>2, <3>1, <3>2
  <2>6. v[n + 2] \in Nat /\ v[n + 1] \in Nat /\ v[1] \in Nat
    <3>1. n + 2 \in 1..m /\ n + 1 \in 1..m /\ 1 \in 1..m
      BY <1>2
    <3>. QED
      BY <3>1
  <2>7. SumOver(2..(n + 2), delta) = delta[n + 2] + SumOver(2..(n + 1), delta)
    BY <2>1, <2>4
  <2>. QED
    BY <2>5, <2>6, <2>7
<1>3. \A n \in Nat : n \in N => n + 1 \in N
  <2>. SUFFICES ASSUME NEW n \in Nat, n \in N PROVE n + 1 \in N
    OBVIOUS
  <2>1. (n + 1) + 1 = n + 2 /\ n + 1 \in Nat
    OBVIOUS
  <2>2. n + 2 <= m => SumOver(2..(n + 2), delta) = v[n + 2] - v[1]
    BY <1>2
  <2>. QED
    BY <2>1, <2>2
<1>4. Nat \subseteq N
  <2>. HIDE DEF N
  <2>. QED
    BY <1>1, <1>3, AllNumbers
<1>5. (1..m) \ {1} = 2..m /\ (m - 1) + 1 = m /\ m - 1 \in Nat
  OBVIOUS
<1>6. \A n \in Nat : n + 1 = m => SumOver(2..(n + 1), delta) = v[n + 1] - v[1]
  BY <1>4
<1>7. SumOver(2..m, delta) = v[m] - v[1]
  BY <1>5, <1>6
<1>. QED
  BY <1>5, <1>7

(* And its rises alone come to no less than it rises by between any two.   *)
LEMMA ClimbAtLeast ==
  ASSUME NEW m \in Nat \ {0}, NEW v \in [1..m -> Nat], NEW delta,
         \A i \in (1..m) \ {1} : delta[i] = IF v[i] > v[i - 1] THEN v[i] - v[i - 1] ELSE 0
  PROVE  /\ SumOver((1..m) \ {1}, delta) \in Int
         /\ \A i, k \in 1..m : i <= k => SumOver((1..m) \ {1}, delta) >= v[k] - v[i]
<1>. DEFINE T(n) == SumOver(2..(n + 1), delta)
            N == {n \in Nat : n + 1 <= m =>
                    /\ T(n) \in Int /\ T(n) >= 0
                    /\ \A i, k \in 1..(n + 1) : i <= k => T(n) >= v[k] - v[i]}
<1>1. 0 \in N
  <2>1. 2..(0 + 1) = {}
    OBVIOUS
  <2>2. T(0) = 0
    BY <2>1, SumEmpty
  <2>3. \A i, k \in 1..(0 + 1) : v[k] - v[i] = 0
    <3>1. \A i \in 1..(0 + 1) : i = 1
      OBVIOUS
    <3>2. v[1] \in Nat
      OBVIOUS
    <3>. QED
      BY <3>1, <3>2
  <2>. HIDE DEF T
  <2>. QED
    BY <2>2, <2>3
<1>2. ASSUME NEW n \in Nat, n \in N PROVE n + 1 \in N
  <2>. SUFFICES ASSUME n + 2 <= m
                PROVE  /\ T(n + 1) \in Int /\ T(n + 1) >= 0
                       /\ \A i, k \in 1..(n + 2) : i <= k => T(n + 1) >= v[k] - v[i]
    OBVIOUS
  <2>1. 2..((n + 1) + 1) = (2..(n + 1)) \cup {n + 2} /\ n + 2 \notin 2..(n + 1)
    OBVIOUS
  <2>2. IsFiniteSet(2..(n + 1))
    BY FS_Interval
  <2>3. \A i \in (2..(n + 1)) \cup {n + 2} : delta[i] \in Int
    <3>. SUFFICES ASSUME NEW i \in (2..(n + 1)) \cup {n + 2} PROVE delta[i] \in Int
      OBVIOUS
    <3>1. i \in (1..m) \ {1} /\ i \in 1..m /\ i - 1 \in 1..m
      OBVIOUS
    <3>2. v[i] \in Nat /\ v[i - 1] \in Nat
      BY <3>1
    <3>. QED
      BY <3>1, <3>2
  <2>4. T(n + 1) = delta[n + 2] + T(n)
    <3>1. SumOver((2..(n + 1)) \cup {n + 2}, delta) = delta[n + 2] + SumOver(2..(n + 1), delta)
      BY <2>1, <2>2, <2>3, SumAdd
    <3>. QED
      BY <2>1, <3>1
  <2>5. /\ delta[n + 2] = IF v[n + 2] > v[n + 1] THEN v[n + 2] - v[n + 1] ELSE 0
        /\ v[n + 2] \in Nat /\ v[n + 1] \in Nat
    <3>1. n + 2 \in (1..m) \ {1} /\ (n + 2) - 1 = n + 1 /\ n + 1 \in 1..m
      OBVIOUS
    <3>. QED
      BY <3>1
  <2>6. /\ T(n) \in Int /\ T(n) >= 0
        /\ \A i, k \in 1..(n + 1) : i <= k => T(n) >= v[k] - v[i]
    BY <1>2
  <2>. HIDE DEF T
  <2>7. delta[n + 2] \in Int /\ delta[n + 2] >= 0 /\ delta[n + 2] >= v[n + 2] - v[n + 1]
    BY <2>5
  <2>8. T(n + 1) \in Int /\ T(n + 1) >= 0 /\ T(n + 1) >= T(n)
    BY <2>4, <2>6, <2>7
  <2>9. ASSUME NEW i \in 1..(n + 2), NEW k \in 1..(n + 2), i <= k
        PROVE  T(n + 1) >= v[k] - v[i]
    <3>0. i \in 1..m /\ k \in 1..m
      OBVIOUS
    <3>1. v[i] \in Nat /\ v[k] \in Nat
      BY <3>0
    <3>2. CASE k <= n + 1
      <4>1. i \in 1..(n + 1) /\ k \in 1..(n + 1)
        BY <2>9, <3>2
      <4>2. T(n) >= v[k] - v[i]
        BY <2>6, <2>9, <4>1
      <4>. QED
        BY <2>6, <2>8, <3>1, <4>2
    <3>3. CASE k = n + 2 /\ i = n + 2
      BY <2>8, <3>1, <3>3
    <3>4. CASE k = n + 2 /\ i <= n + 1
      <4>1. i \in 1..(n + 1) /\ n + 1 \in 1..(n + 1) /\ i <= n + 1
        BY <3>4
      <4>2. T(n) >= v[n + 1] - v[i]
        BY <2>6, <4>1
      <4>3. v[k] = v[n + 2]
        BY <3>4
      <4>4. T(n) \in Int /\ v[n + 1] \in Int /\ v[n + 2] \in Int /\ v[i] \in Int
        BY <2>5, <2>6, <3>1
      <4>5. \A t, d, a, b, c \in Int : t >= a - c /\ d >= b - a => d + t >= b - c
        OBVIOUS
      <4>6. delta[n + 2] + T(n) >= v[n + 2] - v[i]
        BY <2>7, <4>2, <4>4, <4>5
      <4>. QED
        BY <2>4, <4>3, <4>6
    <3>. QED
      BY <2>9, <3>2, <3>3, <3>4
  <2>. QED
    BY <2>8, <2>9
<1>3. Nat \subseteq N
  <2>1. \A n \in Nat : n \in N => n + 1 \in N
    BY <1>2
  <2>. HIDE DEF N
  <2>. QED
    BY <1>1, <2>1, AllNumbers
<1>4. (1..m) \ {1} = 2..((m - 1) + 1) /\ (m - 1) + 1 = m /\ m - 1 \in Nat
  OBVIOUS
<1>5. /\ T(m - 1) \in Int
      /\ \A i, k \in 1..((m - 1) + 1) : i <= k => T(m - 1) >= v[k] - v[i]
  <2>1. m - 1 \in N
    BY <1>3, <1>4
  <2>. HIDE DEF T
  <2>. QED
    BY <1>4, <2>1
<1>. QED
  BY <1>4, <1>5

(* Readings in which, but for glitches of zero, the counter went up; ...   *)
Rising(q, n, good) ==
  /\ n \in Nat \ {0} /\ q \in [1..n -> Nat]
  /\ good \subseteq 1..n /\ good # {}
  /\ \A i, k \in good : i < k => q[i] <= q[k]
  /\ \A i \in (1..n) \ good : q[i] = 0

(* ... and in which each glitch is between two good ones.                  *)
Plain(q, n, good) ==
  Rising(q, n, good) /\ \A i \in (1..n) \ good : i - 1 \in good /\ i + 1 \in good

(* filterSpuriousDips keeps every good reading of such a day, ...          *)
LEMMA GoodAreKept ==
  ASSUME NEW q, NEW n, NEW good, Rising(q, n, good)
  PROVE  good \subseteq Kept(q)
<1>. SUFFICES ASSUME NEW i \in good, i - 1 \in 1..n, i + 1 \in 1..n
              PROVE  ~IsDip(q[i - 1], q[i], q[i + 1])
  BY DEF Rising, Kept
<1>1. q[i] \in Nat /\ q[i - 1] \in Nat
  BY DEF Rising
<1>2. q[i - 1] <= q[i] \/ q[i - 1] = 0
  BY DEF Rising
<1>. QED
  BY <1>1, <1>2 DEF IsDip

(* ... so that what it keeps is a sequence of theirs and some glitches, of *)
(* which the rises are added up.                                           *)
FilteredTo(q, n, good, m, order, v) ==
  /\ m \in Nat \ {0} /\ order \in [1..m -> Kept(q)] /\ v \in [1..m -> Nat]
  /\ \A k \in 1..m : v[k] = q[order[k]] /\ order[k] \in 1..n
  /\ \A i, k \in 1..m : i < k => order[i] < order[k]
  /\ \A i \in good : \E k \in 1..m : order[k] = i
  /\ DailyEnergyFromReadings(q) = SumOver((1..m) \ {1},
       [i \in (1..m) \ {1} |-> IF v[i] > v[i - 1] THEN v[i] - v[i - 1] ELSE 0])

LEMMA Filtered ==
  ASSUME NEW q, NEW n, NEW good, Rising(q, n, good)
  PROVE  \E m, order, v : FilteredTo(q, n, good, m, order, v)
<1>. DEFINE K == Kept(q)
            m == Cardinality(K)
            order == Ascending(K)
            v == filterSpuriousDips(q)
            delta == [i \in DOMAIN v \ {1} |-> IF v[i] > v[i - 1] THEN v[i] - v[i - 1] ELSE 0]
<1>1. /\ n \in Nat \ {0} /\ q \in [1..n -> Nat] /\ good \subseteq 1..n /\ good # {}
      /\ IsFiniteSet(1..n) /\ K \subseteq 1..n
  <2>1. n \in Nat \ {0} /\ q \in [1..n -> Nat] /\ good \subseteq 1..n /\ good # {}
    BY DEF Rising
  <2>2. IsFiniteSet(1..n)
    BY <2>1, FS_Interval
  <2>3. K \subseteq 1..n
    BY <2>1 DEF Kept
  <2>. QED
    BY <2>1, <2>2, <2>3
<1>2. K \subseteq Nat /\ IsFiniteSet(K) /\ good \subseteq K
  BY <1>1, FS_Subset, GoodAreKept
<1>3. Enumerates(order, K) /\ m \in Nat /\ m # 0
  <2>1. Enumerates(order, K)
    BY <1>2, Ascends
  <2>2. K # {}
    BY <1>1, <1>2
  <2>. QED
    BY <1>2, <2>1, <2>2, FS_CardinalityType, FS_EmptySet
<1>4. v = [k \in DOMAIN order |-> q[order[k]]]
  BY DEF filterSpuriousDips
<1>5. order \in [1..m -> K] /\ \A k \in 1..m : order[k] \in 1..n
  BY <1>1, <1>3 DEF Enumerates
<1>6. v \in [1..m -> Nat] /\ \A k \in 1..m : v[k] = q[order[k]]
  <2>. HIDE DEF v, order, K, m
  <2>. QED
    BY <1>1, <1>4, <1>5
<1>7. \A i, k \in 1..m : i < k => order[i] < order[k]
  BY <1>3 DEF Enumerates
<1>8. \A i \in good : \E k \in 1..m : order[k] = i
  BY <1>2, <1>3 DEF Enumerates
<1>9. DailyEnergyFromReadings(q) = SumOver((1..m) \ {1},
        [i \in (1..m) \ {1} |-> IF v[i] > v[i - 1] THEN v[i] - v[i - 1] ELSE 0])
  <2>1. DailyEnergyFromReadings(q) = Sum(delta)
    BY DEF DailyEnergyFromReadings
  <2>. HIDE DEF v, m
  <2>2. DOMAIN v \ {1} = (1..m) \ {1}
    BY <1>6
  <2>3. DOMAIN delta = (1..m) \ {1}
    BY <2>2
  <2>. QED
    BY <2>1, <2>2, <2>3 DEF Sum
<1>10. FilteredTo(q, n, good, m, order, v)
  <2>1. order \in [1..m -> Kept(q)]
    BY <1>5
  <2>. HIDE DEF v, order, K, m
  <2>. QED
    BY <1>3, <1>5, <1>6, <1>7, <1>8, <1>9, <2>1 DEF FilteredTo
<1>. QED
  BY <1>10

(* The good readings' values.                                              *)
LEMMA GoodValues ==
  ASSUME NEW q, NEW n, NEW good, Rising(q, n, good)
  PROVE  LET values == {q[i] : i \in good}
         IN /\ Max(values) \in values /\ Min(values) \in values /\ values \subseteq Nat
            /\ \A x \in values : Min(values) <= x /\ x <= Max(values)
<1>. DEFINE values == {q[i] : i \in good}
<1>1. values \subseteq Nat /\ values # {} /\ IsFiniteSet(good)
  <2>1. n \in Nat \ {0} /\ q \in [1..n -> Nat] /\ good \subseteq 1..n /\ good # {}
    BY DEF Rising
  <2>2. IsFiniteSet(1..n)
    BY <2>1, FS_Interval
  <2>4. IsFiniteSet(good)
    BY <2>1, <2>2, FS_Subset
  <2>3. values \subseteq Nat /\ values # {}
    BY <2>1
  <2>. QED
    BY <2>3, <2>4
<1>2. [i \in good |-> q[i]] \in Surjection(good, values)
  BY DEF Surjection
<1>3. IsFiniteSet(values)
  <2>. HIDE DEF values
  <2>. QED
    BY <1>1, <1>2, FS_Surjection
<1>. HIDE DEF values
<1>4. /\ Max(values) \in values /\ Min(values) \in values
      /\ \A x \in values : Min(values) <= x /\ x <= Max(values)
  BY <1>1, <1>3, Extremes
<1>. QED
  BY <1>1, <1>4 DEF values

(* The energy of a sequence of readings is never less than what its good   *)
(* ones rise by.                                                           *)
LEMMA EnergyAtLeast ==
  ASSUME NEW q, NEW n, NEW good, Rising(q, n, good)
  PROVE  /\ DailyEnergyFromReadings(q) \in Int
         /\ DailyEnergyFromReadings(q) >= Max({q[i] : i \in good}) - Min({q[i] : i \in good})
<1>. DEFINE values == {q[i] : i \in good}
<1>1. /\ Max(values) \in values /\ Min(values) \in values /\ values \subseteq Nat
  BY GoodValues
<1>f. PICK m, order, v : FilteredTo(q, n, good, m, order, v)
  BY Filtered
<1>2. /\ m \in Nat \ {0} /\ order \in [1..m -> Kept(q)] /\ v \in [1..m -> Nat]
      /\ \A k \in 1..m : v[k] = q[order[k]] /\ order[k] \in 1..n
      /\ \A i, k \in 1..m : i < k => order[i] < order[k]
      /\ \A i \in good : \E k \in 1..m : order[k] = i
      /\ DailyEnergyFromReadings(q) = SumOver((1..m) \ {1},
           [i \in (1..m) \ {1} |-> IF v[i] > v[i - 1] THEN v[i] - v[i - 1] ELSE 0])
  BY <1>f DEF FilteredTo
<1>. DEFINE delta == [i \in (1..m) \ {1} |-> IF v[i] > v[i - 1] THEN v[i] - v[i - 1] ELSE 0]
            E == DailyEnergyFromReadings(q)
<1>3. E \in Int /\ \A i, k \in 1..m : i <= k => E >= v[k] - v[i]
  <2>1. E = SumOver((1..m) \ {1}, delta)
    BY <1>2
  <2>2. \A i \in (1..m) \ {1} : delta[i] = IF v[i] > v[i - 1] THEN v[i] - v[i - 1] ELSE 0
    OBVIOUS
  <2>3. m \in Nat \ {0} /\ v \in [1..m -> Nat]
    BY <1>2
  <2>. HIDE DEF delta, E
  <2>. QED
    BY <2>1, <2>2, <2>3, ClimbAtLeast
<1>4. PICK high \in good : q[high] = Max(values)
  BY <1>1
<1>5. PICK low \in good : q[low] = Min(values)
  BY <1>1
<1>6. PICK i \in 1..m, k \in 1..m : order[i] = low /\ order[k] = high
  BY <1>2
<1>7. v[i] = Min(values) /\ v[k] = Max(values) /\ order[i] \in Nat /\ order[k] \in Nat
  <2>1. order[i] \in 1..n /\ order[k] \in 1..n /\ n \in Nat
    BY <1>2 DEF Rising
  <2>. HIDE DEF values
  <2>. QED
    BY <1>2, <1>4, <1>5, <1>6, <2>1
<1>. HIDE DEF values, E
<1>8. CASE i <= k
  BY <1>3, <1>7, <1>8 DEF values, E
<1>9. CASE ~(i <= k)
  <2>1. high < low
    BY <1>2, <1>6, <1>7, <1>9
  <2>2. Max(values) <= Min(values) /\ Max(values) \in Nat /\ Min(values) \in Nat
    BY <1>1, <1>4, <1>5, <2>1 DEF Rising
  <2>3. E >= v[i] - v[i] /\ v[i] \in Nat
    BY <1>2, <1>3
  <2>. QED
    BY <1>3, <2>2, <2>3 DEF values, E
<1>. QED
  BY <1>8, <1>9

(* Of lone glitches it keeps those that follow a zero, ...                 *)
LEMMA KeptGlitch ==
  ASSUME NEW q, NEW n, NEW good, Plain(q, n, good), NEW i \in Kept(q) \ good
  PROVE  i \in 1..n /\ i - 1 \in good /\ q[i] = 0 /\ q[i - 1] = 0
<1>1. i \in 1..n /\ i - 1 \in good /\ i + 1 \in good /\ q[i] = 0
  BY DEF Plain, Rising, Kept
<1>2. i - 1 \in 1..n /\ i + 1 \in 1..n /\ q[i - 1] \in Nat /\ q[i + 1] \in Nat
  BY <1>1 DEF Plain, Rising
<1>3. ~IsDip(q[i - 1], q[i], q[i + 1])
  BY <1>1, <1>2 DEF Plain, Rising, Kept
<1>4. q[i - 1] <= q[i + 1]
  BY <1>1, <1>2 DEF Plain, Rising
<1>5. q[i - 1] = 0
  BY <1>1, <1>2, <1>3, <1>4 DEF IsDip
<1>. QED
  BY <1>1, <1>5

(* ... so that what it keeps never falls.                                  *)
LEMMA KeptRise ==
  ASSUME NEW q, NEW n, NEW good, Plain(q, n, good)
  PROVE  \A i, k \in Kept(q) : i < k => q[i] <= q[k]
<1>. SUFFICES ASSUME NEW i \in Kept(q), NEW k \in Kept(q), i < k
              PROVE  q[i] <= q[k]
  OBVIOUS
<1>1. i \in 1..n /\ k \in 1..n /\ q[i] \in Nat /\ q[k] \in Nat
  BY DEF Plain, Rising, Kept
<1>2. CASE i \notin good
  BY <1>1, <1>2, KeptGlitch
<1>3. CASE i \in good /\ k \in good
  BY <1>3 DEF Plain, Rising
<1>4. CASE i \in good /\ k \notin good
  <2>1. k - 1 \in good /\ q[k] = 0 /\ q[k - 1] = 0
    BY <1>4, KeptGlitch
  <2>2. i = k - 1 \/ i < k - 1
    BY <1>1
  <2>3. q[i] <= q[k - 1]
    BY <1>1, <1>4, <2>1, <2>2 DEF Plain, Rising
  <2>. QED
    BY <2>1, <2>3
<1>. QED
  BY <1>2, <1>3, <1>4

(* ... and then the energy is what the good readings rise by.              *)
LEMMA EnergyOfReadings ==
  ASSUME NEW q, NEW n, NEW good, Plain(q, n, good)
  PROVE  DailyEnergyFromReadings(q) = Max({q[i] : i \in good}) - Min({q[i] : i \in good})
<1>. DEFINE values == {q[i] : i \in good}
<1>0. Rising(q, n, good)
  BY DEF Plain
<1>f. PICK m, order, v : FilteredTo(q, n, good, m, order, v)
  BY <1>0, Filtered
<1>1. /\ m \in Nat \ {0} /\ order \in [1..m -> Kept(q)] /\ v \in [1..m -> Nat]
      /\ \A k \in 1..m : v[k] = q[order[k]] /\ order[k] \in 1..n
      /\ \A i, k \in 1..m : i < k => order[i] < order[k]
      /\ \A i \in good : \E k \in 1..m : order[k] = i
      /\ DailyEnergyFromReadings(q) = SumOver((1..m) \ {1},
           [i \in (1..m) \ {1} |-> IF v[i] > v[i - 1] THEN v[i] - v[i - 1] ELSE 0])
  BY <1>f DEF FilteredTo
<1>. DEFINE delta == [i \in (1..m) \ {1} |-> IF v[i] > v[i - 1] THEN v[i] - v[i - 1] ELSE 0]
<1>2. \A i, k \in 1..m : i < k => v[i] <= v[k]
  <2>1. \A k \in 1..m : order[k] \in Kept(q) /\ v[k] = q[order[k]]
    BY <1>1
  <2>2. \A i, k \in Kept(q) : i < k => q[i] <= q[k]
    BY KeptRise
  <2>. QED
    BY <1>1, <2>1, <2>2
<1>3. \A k \in 1..m : v[k] \in values
  <2>. SUFFICES ASSUME NEW k \in 1..m PROVE \E i \in good : q[i] = v[k]
    OBVIOUS
  <2>1. order[k] \in Kept(q) /\ v[k] = q[order[k]]
    BY <1>1
  <2>2. order[k] \in good \/ (order[k] - 1 \in good /\ q[order[k]] = q[order[k] - 1])
    BY <2>1, KeptGlitch
  <2>. QED
    BY <2>1, <2>2
<1>4. \A x \in values : \E k \in 1..m : v[k] = x
  BY <1>1
<1>5. \A i \in (1..m) \ {1} : delta[i] = v[i] - v[i - 1]
  <2>. SUFFICES ASSUME NEW i \in (1..m) \ {1} PROVE delta[i] = v[i] - v[i - 1]
    OBVIOUS
  <2>1. i - 1 \in 1..m /\ i - 1 < i /\ i \in 1..m
    BY <1>1
  <2>2. v[i - 1] <= v[i] /\ v[i] \in Nat /\ v[i - 1] \in Nat
    BY <1>1, <1>2, <2>1
  <2>. QED
    BY <2>1, <2>2
<1>6. /\ Max(values) \in values /\ Min(values) \in values /\ values \subseteq Nat
      /\ \A x \in values : Min(values) <= x /\ x <= Max(values)
  BY <1>0, GoodValues
<1>7. DailyEnergyFromReadings(q) = SumOver((1..m) \ {1}, delta)
  BY <1>1
<1>. HIDE DEF values, delta
<1>8. SumOver((1..m) \ {1}, delta) = v[m] - v[1]
  BY <1>1, <1>5, Climb
<1>9. /\ 1 \in 1..m /\ m \in 1..m /\ v[1] \in values /\ v[m] \in values
      /\ \A x \in values : v[1] <= x /\ x <= v[m]
  <2>1. 1 \in 1..m /\ m \in 1..m
    BY <1>1
  <2>2. \A k \in 1..m : v[1] <= v[k] /\ v[k] <= v[m]
    <3>. SUFFICES ASSUME NEW k \in 1..m PROVE v[1] <= v[k] /\ v[k] <= v[m]
      OBVIOUS
    <3>1. (1 < k \/ k = 1) /\ (k < m \/ k = m) /\ v[k] \in Nat
      BY <1>1
    <3>. QED
      BY <1>2, <2>1, <3>1
  <2>. QED
    BY <1>3, <1>4, <2>1, <2>2
<1>10. v[m] = Max(values) /\ v[1] = Min(values)
  <2>1. /\ v[m] <= Max(values) /\ Max(values) <= v[m]
        /\ v[1] <= Min(values) /\ Min(values) <= v[1]
    BY <1>6, <1>9
  <2>2. v[m] \in Nat /\ v[1] \in Nat /\ Max(values) \in Nat /\ Min(values) \in Nat
    BY <1>6, <1>9
  <2>. QED
    BY <2>1, <2>2
<1>. QED
  BY <1>7, <1>8, <1>10 DEF values

(* A device's day in order: each of its readings once.                     *)
LEMMA OrderedDay ==
  ASSUME RollupsInv, NEW dev \in Device, NEW day \in Day, ReadingsOf(dev, day) # {}
  PROVE  \E n \in Nat \ {0} :
           /\ Ordered(dev, day) \in [1..n -> ReadingsOf(dev, day)]
           /\ \A r \in ReadingsOf(dev, day) : \E i \in 1..n : Ordered(dev, day)[i] = r
           /\ \A i, k \in 1..n : i < k => Ordered(dev, day)[i].slot < Ordered(dev, day)[k].slot
<1>. DEFINE R == ReadingsOf(dev, day)
            slots == {r.slot : r \in R}
            n == Cardinality(slots)
            order == Ascending(slots)
            q == Ordered(dev, day)
<1>1. R \subseteq telemetry /\ R \subseteq Reading /\ IsFiniteSet(R)
  <2>1. R \subseteq telemetry /\ R \subseteq Reading /\ IsFiniteSet(telemetry)
    BY DEF ReadingsOf, RollupsInv, RollupsTypeOK
  <2>. QED
    BY <2>1, FS_Subset
<1>2. \A r, p \in R : r.slot = p.slot => r = p
  BY DEF ReadingsOf, RollupsInv, ReadingsKeyed
<1>3. slots \subseteq Nat /\ slots # {}
  BY <1>1, Bounds DEF Reading
<1>4. IsFiniteSet(slots)
  <2>1. [r \in R |-> r.slot] \in Surjection(R, slots)
    BY DEF Surjection
  <2>. HIDE DEF slots, R
  <2>. QED
    BY <1>1, <2>1, FS_Surjection
<1>5. Enumerates(order, slots) /\ n \in Nat \ {0}
  <2>. HIDE DEF slots
  <2>. QED
    BY <1>3, <1>4, Ascends, FS_CardinalityType, FS_EmptySet
<1>6. q = [i \in DOMAIN order |-> CHOOSE r \in R : r.slot = order[i]]
  BY DEF Ordered
<1>7. DOMAIN order = 1..n /\ \A i \in 1..n : order[i] \in slots
  BY <1>5 DEF Enumerates
<1>8. \A x \in slots : /\ (CHOOSE r \in R : r.slot = x) \in R
                        /\ (CHOOSE r \in R : r.slot = x).slot = x
  OBVIOUS
<1>9. \A i \in 1..n : q[i] \in R /\ q[i].slot = order[i]
  <2>. HIDE DEF slots, n, order, R, q
  <2>. QED
    BY <1>6, <1>7, <1>8
<1>10. DOMAIN q = 1..n /\ q = [i \in 1..n |-> q[i]]
  <2>. HIDE DEF slots, n, order, R, q
  <2>. QED
    BY <1>6, <1>7
<1>11. q \in [1..n -> R]
  <2>. HIDE DEF slots, n, order, R, q
  <2>. QED
    BY <1>9, <1>10
<1>12. ASSUME NEW r \in R PROVE \E i \in 1..n : q[i] = r
  <2>1. PICK i \in 1..n : order[i] = r.slot
    <3>1. r.slot \in slots
      OBVIOUS
    <3>. HIDE DEF slots
    <3>. QED
      BY <1>5, <3>1 DEF Enumerates
  <2>. HIDE DEF slots, n, order, R, q
  <2>. QED
    BY <1>2, <1>9, <1>12, <2>1
<1>13. \A i, k \in 1..n : i < k => q[i].slot < q[k].slot
  <2>1. \A i, k \in 1..n : i < k => order[i] < order[k]
    BY <1>5 DEF Enumerates
  <2>. HIDE DEF slots, n, order, R, q
  <2>. QED
    BY <1>9, <2>1
<1>. QED
  BY <1>5, <1>11, <1>12, <1>13

(* The one row a query gets of a day it is fresh for.                      *)
LEMMA FreshRow ==
  ASSUME RollupsInv, NEW dev \in Device, NEW day \in Day, ReadingsOf(dev, day) # {}, Fresh(dev, day)
  PROVE  DailyRollup(dev, day) = {RollupOf(dev, day)}
<1>1. CASE ~(day < watermark)
  BY <1>1, LiveRow
<1>2. CASE day < watermark
  <2>1. <<dev, day>> \notin invalid
    BY <1>2, Bounds DEF Fresh, RollupsInv, RollupsTypeOK
  <2>2. RollupOf(dev, day) \in materialized
    BY <1>2, <2>1 DEF RollupsInv, InStep
  <2>3. RollupOf(dev, day).dev = dev /\ RollupOf(dev, day).day = day
    BY RolledUp DEF RollupsInv, RowOf
  <2>4. RollupOf(dev, day) \in DailyRollup(dev, day)
    BY <1>2, <2>2, <2>3, LiveRow
  <2>. QED
    BY <2>4, RowsAreSound DEF RowsSound
<1>. QED
  BY <1>1, <1>2

(* A reading that is below the one before it on its day, and came after    *)
(* it, is flagged.                                                         *)
InTurn ==
  /\ \A r \in telemetry : r.arrived < Cardinality(ReadingsOf(r.dev, r.day))
  /\ \A r, before \in telemetry :
       /\ before.dev = r.dev /\ before.day = r.day /\ before.slot < r.slot
       /\ ~\E other \in ReadingsOf(r.dev, r.day) : before.slot < other.slot /\ other.slot < r.slot
       /\ before.arrived < r.arrived /\ r.kwh < before.kwh
       => r.reset

(* A reading that is stored is compared with the one before it, whatever   *)
(* has come or will come after it.                                         *)
LEMMA StoreInTurn ==
  ASSUME RollupsInv, InTurn, NEW dev \in Device, NEW day \in Day, NEW slot \in Slot,
         NEW kwh \in Counter, NEW glitch \in BOOLEAN, Store(dev, day, slot, kwh, glitch)
  PROVE  InTurn'
<1>. DEFINE R == ReadingsOf(dev, day)
            new == [dev |-> dev, day |-> day, slot |-> slot, kwh |-> kwh, glitch |-> glitch,
                    reset |-> DetectEnergyReset(dev, day, slot, kwh), backfilled |-> day < now,
                    arrived |-> Cardinality(R)]
<1>1. telemetry' = telemetry \cup {new} /\ ~\E r \in R : r.slot = slot
  BY DEF Store
<1>2. /\ new.dev = dev /\ new.day = day /\ new.slot = slot /\ new.kwh = kwh
      /\ new.arrived = Cardinality(R) /\ new.reset = DetectEnergyReset(dev, day, slot, kwh)
  OBVIOUS
<1>3. /\ R \subseteq telemetry /\ IsFiniteSet(R) /\ Cardinality(R) \in Nat
      /\ \A r \in telemetry : /\ r.arrived \in Nat /\ r.slot \in Nat /\ r.day \in Nat
                              /\ r.dev \in Device /\ r.day \in Day /\ r.kwh \in Nat
  <2>1. R \subseteq telemetry
    BY DEF ReadingsOf
  <2>2. telemetry \subseteq Reading /\ IsFiniteSet(telemetry)
    BY DEF RollupsInv, RollupsTypeOK
  <2>. QED
    BY <2>1, <2>2, FS_Subset, FS_CardinalityType, Bounds DEF Reading
<1>. HIDE DEF new
<1>4. /\ ReadingsOf(dev, day)' = R \cup {new} /\ new \notin R
      /\ \A d \in Device, e \in Day : <<d, e>> # <<dev, day>> => ReadingsOf(d, e)' = ReadingsOf(d, e)
      /\ \A d \in Device, e \in Day : ReadingsOf(d, e) \subseteq ReadingsOf(d, e)'
  BY <1>1, <1>2 DEF ReadingsOf
<1>5. Cardinality(R \cup {new}) = Cardinality(R) + 1
  BY <1>3, <1>4, FS_AddElement
<1>6. ASSUME NEW r \in telemetry' PROVE r.arrived < Cardinality(ReadingsOf(r.dev, r.day)')
  <2>1. CASE r = new
    <3>1. ReadingsOf(r.dev, r.day)' = R \cup {new} /\ r.arrived = Cardinality(R)
      BY <1>2, <1>4, <2>1
    <3>. QED
      BY <1>3, <1>5, <3>1
  <2>2. CASE r \in telemetry /\ r.dev = dev /\ r.day = day
    <3>1. r.arrived < Cardinality(R) /\ r.arrived \in Nat
      BY <1>3, <2>2 DEF InTurn
    <3>2. r.arrived < Cardinality(R \cup {new})
      BY <1>3, <1>5, <3>1
    <3>. QED
      BY <1>4, <2>2, <3>2
  <2>3. CASE r \in telemetry /\ ~(r.dev = dev /\ r.day = day)
    <3>0. <<r.dev, r.day>> # <<dev, day>>
      BY <2>3
    <3>1. ReadingsOf(r.dev, r.day)' = ReadingsOf(r.dev, r.day)
      BY <1>3, <1>4, <2>3, <3>0
    <3>. QED
      BY <2>3, <3>1 DEF InTurn
  <2>. QED
    BY <1>1, <2>1, <2>2, <2>3
<1>7. ASSUME NEW r \in telemetry', NEW before \in telemetry',
             before.dev = r.dev, before.day = r.day, before.slot < r.slot,
             ~\E other \in ReadingsOf(r.dev, r.day)' : before.slot < other.slot /\ other.slot < r.slot,
             before.arrived < r.arrived, r.kwh < before.kwh
      PROVE  r.reset
  <2>1. CASE r = new
    <3>1. before \in telemetry
      BY <1>1, <1>2, <1>3, <1>7, <2>1
    <3>. DEFINE sooner == {x \in telemetry : x.dev = dev /\ (x.day < day \/ (x.day = day /\ x.slot < slot))}
    <3>2. before \in sooner
      BY <1>2, <1>7, <2>1, <3>1
    <3>3. ASSUME NEW other \in sooner \ {before} PROVE Earlier(other, before)
      <4>1. CASE other.day < day
        BY <1>2, <1>7, <2>1, <4>1 DEF Earlier
      <4>2. CASE other.day = day /\ other.slot < slot
        <5>1. other \in ReadingsOf(r.dev, r.day)'
          BY <1>1, <1>2, <2>1, <4>2 DEF ReadingsOf
        <5>2. ~(before.slot < other.slot)
          BY <1>2, <1>7, <2>1, <4>2, <5>1
        <5>3. other.slot # before.slot
          BY <1>2, <1>7, <2>1, <3>1, <4>2 DEF RollupsInv, ReadingsKeyed
        <5>4. other.slot \in Nat /\ before.slot \in Nat
          BY <1>3, <3>1
        <5>. QED
          BY <1>2, <1>7, <2>1, <4>2, <5>2, <5>3, <5>4 DEF Earlier
      <4>. QED
        BY <4>1, <4>2
    <3>4. DetectEnergyReset(dev, day, slot, kwh)
      BY <1>2, <1>7, <2>1, <3>2, <3>3 DEF DetectEnergyReset
    <3>. QED
      BY <1>2, <2>1, <3>4
  <2>2. CASE r \in telemetry
    <3>1. before # new
      <4>. SUFFICES ASSUME before = new PROVE FALSE
        OBVIOUS
      <4>1. r \in R
        BY <1>2, <1>7, <2>2 DEF ReadingsOf
      <4>2. r.arrived < Cardinality(R)
        BY <1>2, <1>7, <2>2 DEF InTurn
      <4>. QED
        BY <1>2, <1>3, <1>7, <2>2, <4>2
    <3>2. before \in telemetry
      BY <1>1, <3>1
    <3>3. ReadingsOf(r.dev, r.day) \subseteq ReadingsOf(r.dev, r.day)'
      BY <1>3, <1>4, <2>2
    <3>. QED
      BY <1>7, <2>2, <3>2, <3>3 DEF InTurn
  <2>. QED
    BY <1>1, <2>1, <2>2
<1>. QED
  BY <1>6, <1>7 DEF InTurn

(* A purge takes whole days, and nothing else touches readings.            *)
LEMMA StepInTurn == RollupsInv /\ InTurn /\ [RollupsNext]_rollupsVars => InTurn'
<1>. SUFFICES ASSUME RollupsInv, InTurn, [RollupsNext]_rollupsVars PROVE InTurn'
  OBVIOUS
<1>1. CASE Refresh \/ DayPasses \/ UNCHANGED rollupsVars
  <2>1. telemetry' = telemetry
    BY <1>1 DEF Refresh, DayPasses, rollupsVars
  <2>. QED
    BY <2>1 DEF InTurn, ReadingsOf
<1>2. CASE Purge
  <2>1. telemetry' = {r \in telemetry : r.day >= now - RetentionDays}
    BY <1>2 DEF Purge
  <2>2. \A r \in telemetry' : r \in telemetry /\ ReadingsOf(r.dev, r.day)' = ReadingsOf(r.dev, r.day)
    BY <2>1 DEF ReadingsOf
  <2>. QED
    BY <2>2 DEF InTurn
<1>. QED
  BY <1>1, <1>2, StoreInTurn DEF RollupsNext

LEMMA InTurnHolds == RollupsSpec => []InTurn
<1>1. RollupsInit => InTurn
  BY DEF RollupsInit, InTurn
<1>. QED
  BY <1>1, StepInTurn, RollupsInvHolds, PTL DEF RollupsSpec

(* A fresh rising day has at least the energy its counter went up by:      *)
(* flagged, from the readings that are kept; unflagged, from the row. With *)
(* lone glitches it has just that: an unflagged one came after a zero, and *)
(* does not widen the row.                                                 *)
LEMMA SoundDay ==
  ASSUME RollupsInv, InTurn, NEW dev \in Device, NEW day \in Day, RisingDay(dev, day), Fresh(dev, day)
  PROVE  LET good == {r.kwh : r \in {x \in ReadingsOf(dev, day) : ~x.glitch}}
             rise == Max(good) - Min(good)
         IN /\ EnergyOf(dev, day) >= rise
            /\ LoneGlitches(dev, day) => EnergyOf(dev, day) = rise
<1>. DEFINE R == ReadingsOf(dev, day)
            sorted == Ordered(dev, day)
            good == {i \in DOMAIN sorted : ~sorted[i].glitch}
            values == {r.kwh : r \in {x \in R : ~x.glitch}}
            row == RollupOf(dev, day)
            q == RawEnergy(dev, day)
            rise == Max(values) - Min(values)
<1>. SUFFICES EnergyOf(dev, day) >= rise /\ (LoneGlitches(dev, day) => EnergyOf(dev, day) = rise)
  OBVIOUS
<1>1. good # {} /\ \A i, k \in good : i < k => sorted[i].kwh <= sorted[k].kwh
  BY DEF RisingDay
<1>2. R # {}
  <2>. SUFFICES ASSUME R = {} PROVE FALSE
    OBVIOUS
  <2>1. {r.slot : r \in R} = {} /\ IsFiniteSet({}) /\ {} \subseteq Nat /\ Cardinality({}) = 0
    BY FS_EmptySet
  <2>2. Enumerates(Ascending({}), {})
    BY <2>1, Ascends
  <2>3. DOMAIN Ascending({}) = {}
    BY <2>1, <2>2 DEF Enumerates
  <2>4. DOMAIN sorted = {}
    BY <2>1, <2>3 DEF Ordered
  <2>. QED
    BY <1>1, <2>4
<1>3. PICK n \in Nat \ {0} : /\ sorted \in [1..n -> R]
                             /\ \A r \in R : \E i \in 1..n : sorted[i] = r
                             /\ \A i, k \in 1..n : i < k => sorted[i].slot < sorted[k].slot
  BY <1>2, OrderedDay
<1>4. /\ \A r \in R : r.kwh \in Nat /\ r.glitch \in BOOLEAN /\ (r.glitch => r.kwh = 0)
      /\ R \subseteq Reading /\ R \subseteq telemetry /\ IsFiniteSet(R)
  <2>1. R \subseteq telemetry /\ R \subseteq Reading /\ IsFiniteSet(telemetry)
    BY DEF ReadingsOf, RollupsInv, RollupsTypeOK
  <2>2. \A r \in R : r.glitch => r.kwh = 0
    BY <2>1 DEF RollupsInv, ReadingsKeyed
  <2>3. \A r \in R : r.kwh \in Nat /\ r.glitch \in BOOLEAN
    BY <2>1, Bounds DEF Reading
  <2>. QED
    BY <2>1, <2>2, <2>3, FS_Subset
<1>5. DailyRollup(dev, day) = {row}
  BY <1>2, FreshRow
<1>6. DeviceDayEnergy(row) \in Int => EnergyOf(dev, day) = DeviceDayEnergy(row)
  <2>. DEFINE f == [w \in {row} |-> DeviceDayEnergy(w)]
  <2>1. EnergyOf(dev, day) = Sum(f)
    BY <1>5 DEF EnergyOf
  <2>2. DOMAIN f = {row} /\ f[row] = DeviceDayEnergy(row)
    OBVIOUS
  <2>. HIDE DEF f, row
  <2>3. DeviceDayEnergy(row) \in Int => Sum(f) = DeviceDayEnergy(row)
    BY <2>2, SumFew
  <2>. QED
    BY <2>1, <2>3
<1>7. q \in [1..n -> Nat] /\ \A i \in 1..n : q[i] = sorted[i].kwh /\ sorted[i] \in R
  <2>1. DOMAIN sorted = 1..n /\ q = [i \in DOMAIN sorted |-> sorted[i].kwh]
    BY <1>3 DEF RawEnergy
  <2>2. \A i \in 1..n : sorted[i].kwh \in Nat /\ sorted[i] \in R
    BY <1>3, <1>4
  <2>. HIDE DEF q, sorted
  <2>. QED
    BY <2>1, <2>2
<1>8. good \subseteq 1..n /\ \A i \in (1..n) \ good : sorted[i].glitch
  BY <1>3, <1>4
<1>9. Rising(q, n, good)
  <2>1. \A i, k \in good : i < k => q[i] <= q[k]
    BY <1>1, <1>7, <1>8
  <2>2. \A i \in (1..n) \ good : q[i] = 0
    BY <1>4, <1>7, <1>8
  <2>. HIDE DEF q, good
  <2>. QED
    BY <1>1, <1>7, <1>8, <2>1, <2>2 DEF Rising
<1>10. {q[i] : i \in good} = values
  <2>1. \A i \in good : q[i] = sorted[i].kwh /\ sorted[i] \in {x \in R : ~x.glitch}
    BY <1>7, <1>8
  <2>2. \A r \in {x \in R : ~x.glitch} : \E i \in good : sorted[i] = r
    BY <1>3
  <2>3. \A i \in good : q[i] \in values
    BY <2>1
  <2>4. \A x \in values : \E i \in good : q[i] = x
    BY <2>1, <2>2
  <2>. HIDE DEF q, good, values, sorted
  <2>. QED
    BY <2>3, <2>4
<1>11. Max(values) \in values /\ Min(values) \in values /\ values \subseteq Nat
  <2>. HIDE DEF q, good, values
  <2>. QED
    BY <1>9, <1>10, GoodValues
<1>12. LoneGlitches(dev, day) =>
         \A i \in (1..n) \ good : {i - 1, i + 1} \subseteq good /\ sorted[i - 1].arrived < sorted[i].arrived
  BY <1>3 DEF LoneGlitches
<1>13. CASE row.reset
  <2>1. DeviceDayEnergy(row) = DailyEnergyFromReadings(q)
    <3>1. row.dev = dev /\ row.day = day
      BY <1>2, RolledUp DEF RollupsInv, RowOf
    <3>. QED
      BY <1>13, <3>1 DEF DeviceDayEnergy
  <2>2. DailyEnergyFromReadings(q) \in Int /\ DailyEnergyFromReadings(q) >= rise
    <3>. HIDE DEF q, good, values
    <3>. QED
      BY <1>9, <1>10, EnergyAtLeast
  <2>3. ASSUME LoneGlitches(dev, day) PROVE DailyEnergyFromReadings(q) = rise
    <3>1. \A i \in (1..n) \ good : i - 1 \in good /\ i + 1 \in good
      BY <1>12, <2>3
    <3>. HIDE DEF q, good, values
    <3>. QED
      BY <1>9, <1>10, <3>1, EnergyOfReadings DEF Plain
  <2>. HIDE DEF q, rise, row
  <2>. QED
    BY <1>6, <2>1, <2>2, <2>3
<1>14. CASE ~row.reset
  <2>. DEFINE all == {r.kwh : r \in R}
  <2>1. DeviceDayEnergy(row) = Max(all) - Min(all)
    BY <1>14 DEF DeviceDayEnergy, RollupOf, SumUp
  <2>2. /\ Max(all) \in all /\ Min(all) \in all /\ all \subseteq Nat
        /\ \A x \in all : Min(all) <= x /\ x <= Max(all)
    <3>1. all \subseteq Nat /\ all # {}
      BY <1>2, <1>4
    <3>2. [r \in R |-> r.kwh] \in Surjection(R, all)
      BY DEF Surjection
    <3>3. IsFiniteSet(all)
      <4>. HIDE DEF all, R
      <4>. QED
        BY <1>4, <3>2, FS_Surjection
    <3>. HIDE DEF all
    <3>. QED
      BY <3>1, <3>3, Extremes
  <2>3. values \subseteq all
    OBVIOUS
  <2>4. Max(all) - Min(all) >= rise /\ Max(all) - Min(all) \in Int
    <3>1. Max(values) \in all /\ Min(values) \in all
      <4>. HIDE DEF all, values
      <4>. QED
        BY <1>11, <2>3
    <3>2. /\ Max(all) \in Nat /\ Min(all) \in Nat /\ Max(values) \in Nat /\ Min(values) \in Nat
          /\ Max(values) <= Max(all) /\ Min(all) <= Min(values)
      <4>. HIDE DEF all, values
      <4>. QED
        BY <1>11, <2>2, <3>1
    <3>. HIDE DEF all, values
    <3>. QED
      BY <3>2
  <2>5. ASSUME LoneGlitches(dev, day) PROVE all = values
    <3>1. ASSUME NEW i \in 1..n PROVE sorted[i].kwh \in values
      <4>1. CASE i \in good
        BY <1>7, <4>1
      <4>2. CASE i \notin good
        <5>1. /\ i - 1 \in good /\ i - 1 \in 1..n /\ sorted[i - 1].arrived < sorted[i].arrived
              /\ sorted[i] \in R /\ sorted[i - 1] \in R /\ q[i] = 0
          BY <1>7, <1>8, <1>9, <1>12, <2>5, <4>2 DEF Rising
        <5>2. ASSUME NEW other \in R, sorted[i - 1].slot < other.slot, other.slot < sorted[i].slot
              PROVE  FALSE
          <6>1. PICK k \in 1..n : sorted[k] = other
            BY <1>3
          <6>2. \A x \in R : x.slot \in Nat
            BY <1>4, Bounds DEF Reading
          <6>3. k <= i - 1 \/ k >= i
            OBVIOUS
          <6>4. sorted[k].slot <= sorted[i - 1].slot \/ sorted[i].slot <= sorted[k].slot
            <7>1. k < i - 1 \/ k = i - 1 \/ k = i \/ i < k
              BY <6>3
            <7>. HIDE DEF sorted
            <7>. QED
              BY <1>3, <5>1, <6>1, <6>2, <7>1
          <6>. HIDE DEF sorted
          <6>. QED
            BY <5>1, <5>2, <6>1, <6>2, <6>4
        <5>3. ~sorted[i].reset
          <6>1. row.reset <=> \E r \in R : r.reset
            BY <1>2, RolledUp DEF RollupsInv, RowOf
          <6>. QED
            BY <1>14, <5>1, <6>1
        <5>4. /\ sorted[i - 1].dev = dev /\ sorted[i - 1].day = day
              /\ sorted[i].dev = dev /\ sorted[i].day = day
          BY <5>1 DEF ReadingsOf
        <5>5. sorted[i - 1].slot < sorted[i].slot
          BY <1>3, <5>1
        <5>6. ~(sorted[i].kwh < sorted[i - 1].kwh)
          <6>. HIDE DEF sorted
          <6>. QED
            BY <1>4, <5>1, <5>2, <5>3, <5>4, <5>5 DEF InTurn
        <5>7. sorted[i].kwh = 0 /\ sorted[i - 1].kwh = 0
          BY <1>4, <1>7, <5>1, <5>6
        <5>8. sorted[i - 1].kwh \in values
          BY <5>1
        <5>. QED
          BY <5>7, <5>8
      <4>. QED
        BY <4>1, <4>2
    <3>2. \A x \in all : \E i \in 1..n : x = sorted[i].kwh
      BY <1>3
    <3>. HIDE DEF all, values, sorted
    <3>. QED
      BY <2>3, <3>1, <3>2
  <2>. HIDE DEF all, values, row
  <2>. QED
    BY <1>6, <2>1, <2>4, <2>5
<1>. QED
  BY <1>13, <1>14

(* A day on which the counter rose has at least the energy it rose by, for *)
(* any readings in any order, glitches and late arrivals, and just that if *)
(* its glitches are alone and came in turn: from the rollup and from the   *)
(* readings. (deviceDayEnergy, DailyEnergyFromReadings,                    *)
(* filterSpuriousDips, DetectEnergyReset.)                                 *)
THEOREM DayEnergyIsSound == RollupsSpec => []DayEnergySound
<1>1. RollupsInv /\ InTurn => DayEnergySound
  BY SoundDay DEF DayEnergySound
<1>. QED
  BY <1>1, RollupsInvHolds, InTurnHolds, PTL

(***************************************************************************)
(* Reports.                                                                *)
(***************************************************************************)

ReportsTypeOK ==
  /\ today \in Day
  /\ daily \subseteq DeviceDay /\ IsFiniteSet(daily)
  /\ factors \subseteq EmissionFactor /\ IsFiniteSet(factors)

(* An id is given once, and the next is greater.                           *)
FactorIds ==
  /\ \A f \in factors : f.id <= Cardinality(factors)
  /\ \A f, g \in factors : f.id = g.id => f = g

ReportsInv == ReportsTypeOK /\ FactorIds

(* What the assumptions say of the constants.                              *)
LEMMA Givens ==
  /\ IsFiniteSet(Site) /\ SiteOf \in [Device -> Site] /\ CountryOf \in [Site -> Country]
  /\ CohortOf \in [Site -> Cohort \cup {Nil}] /\ SizeOf \in [Site -> Nat] /\ Located \subseteq Site
  /\ Irradiance \in [Site -> [Day -> Nat]] /\ Energy \subseteq Nat /\ Factor \subseteq Nat \ {0}
  /\ WeekDays \in Nat \ {0} /\ MonthDays \in Nat \ {0} /\ WindowDays \in Nat \ {0} /\ Nil \notin Cohort
  /\ MaxDay \in Nat \ {0} /\ Day \subseteq Nat \ {0} /\ 1 \in Day
BY ReportsAssumption, DeviceDaysAssumption DEF Day

(* Nothing is reported at first.                                           *)
LEMMA ReportsInitInv == ReportsInit => ReportsInv
BY Givens, FS_EmptySet DEF ReportsInit, ReportsInv, ReportsTypeOK, FactorIds

(* A new factor's id is its number, and a row is replaced by one of its    *)
(* device and day.                                                         *)
LEMMA ReportsStepInv == ReportsInv /\ [ReportsNext]_reportsVars => ReportsInv'
<1>. SUFFICES ASSUME ReportsInv, [ReportsNext]_reportsVars PROVE ReportsInv'
  OBVIOUS
<1>1. ASSUME NEW dev \in Device, NEW day \in Day, NEW energy \in Energy, Report(dev, day, energy)
      PROVE  ReportsInv'
  <2>1. [dev |-> dev, day |-> day, energy |-> energy] \in DeviceDay
    BY DEF DeviceDay
  <2>2. IsFiniteSet(daily \cup {[dev |-> dev, day |-> day, energy |-> energy]})
    BY FS_AddElement DEF ReportsInv, ReportsTypeOK
  <2>. QED
    BY <1>1, <2>1, <2>2 DEF Report, ReportsInv, ReportsTypeOK, FactorIds
<1>2. ASSUME NEW country \in Country, NEW kg \in Factor, NEW from \in Day, SetFactor(country, kg, from)
      PROVE  ReportsInv'
  <2>. DEFINE n == Cardinality(factors)
              new == [id |-> n + 1, country |-> country, kg |-> kg, from |-> from]
  <2>1. factors' = factors \cup {new} /\ UNCHANGED <<today, daily>>
    BY <1>2 DEF SetFactor
  <2>2. n \in Nat /\ IsFiniteSet(factors)
    BY FS_CardinalityType DEF ReportsInv, ReportsTypeOK
  <2>3. new \in EmissionFactor /\ new.id = n + 1
    BY <2>2 DEF EmissionFactor
  <2>4. \A f \in factors : f.id \in Nat /\ f.id <= n
    BY DEF ReportsInv, ReportsTypeOK, FactorIds, EmissionFactor
  <2>5. new \notin factors
    BY <2>2, <2>3, <2>4
  <2>6. IsFiniteSet(factors') /\ Cardinality(factors') = n + 1
    <3>. HIDE DEF new
    <3>. QED
      BY <2>1, <2>2, <2>5, FS_AddElement
  <2>7. ReportsTypeOK'
    BY <2>1, <2>3, <2>6 DEF ReportsInv, ReportsTypeOK
  <2>8. FactorIds'
    <3>1. \A f \in factors' : f.id <= Cardinality(factors')
      <4>. HIDE DEF new, n
      <4>. QED
        BY <2>1, <2>2, <2>3, <2>4, <2>6
    <3>2. \A f, g \in factors' : f.id = g.id => f = g
      <4>1. \A f \in factors : f.id # new.id
        BY <2>2, <2>3, <2>4
      <4>2. \A f, g \in factors : f.id = g.id => f = g
        BY DEF ReportsInv, FactorIds
      <4>. HIDE DEF new, n
      <4>. QED
        BY <2>1, <4>1, <4>2
    <3>. QED
      BY <3>1, <3>2 DEF FactorIds
  <2>. QED
    BY <2>7, <2>8 DEF ReportsInv
<1>3. CASE NextDay
  <2>1. today' \in Day
    BY <1>3, Givens DEF NextDay, ReportsInv, ReportsTypeOK, Day
  <2>. QED
    BY <1>3, <2>1 DEF NextDay, ReportsInv, ReportsTypeOK, FactorIds
<1>4. CASE UNCHANGED reportsVars
  BY <1>4 DEF reportsVars, ReportsInv, ReportsTypeOK, FactorIds
<1>. QED
  BY <1>1, <1>2, <1>3, <1>4 DEF ReportsNext

(* So the invariant always holds.                                          *)
LEMMA ReportsInvHolds == ReportsSpec => []ReportsInv
BY ReportsInitInv, ReportsStepInv, PTL DEF ReportsSpec

(* The variables of Reports keep their types. (telemetry_daily and         *)
(* grid_emission_factors.)                                                 *)
THEOREM ReportsTypeCorrect == ReportsSpec => []ReportsTypeOK
BY ReportsInvHolds, PTL DEF ReportsInv

(* A factor that takes effect later leaves the factors of a day alone.     *)
LEMMA FactorKeeps ==
  ASSUME ReportsInv, [ReportsNext]_reportsVars, NEW new \in factors' \ factors, NEW p \in Day,
         p < new.from, NEW old \in FactorsOf(new.country), old.from <= p
  PROVE  factorAsOf(new.country, p).kg' = factorAsOf(new.country, p).kg
<1>1. PICK country \in Country, kg \in Factor, from \in Day : SetFactor(country, kg, from)
  BY DEF ReportsNext, Report, NextDay, reportsVars
<1>2. factors' = factors \cup {new}
  BY <1>1 DEF SetFactor
<1>3. new.from \in Nat /\ p \in Nat
  BY <1>1, Givens DEF SetFactor
<1>4. {f \in {g \in factors' : g.country = new.country} : f.from <= p}
        = {f \in {g \in factors : g.country = new.country} : f.from <= p}
  BY <1>2, <1>3
<1>5. {f \in {g \in factors : g.country = new.country} : f.from <= p} # {}
  BY DEF FactorsOf
<1>. DEFINE effective == {f \in {g \in factors : g.country = new.country} : f.from <= p}
<1>6. factorAsOf(new.country, p) = LastOf(effective)
  BY <1>5 DEF factorAsOf, FactorsOf
<1>7. factorAsOf(new.country, p)' = LastOf(effective)
  <2>. DEFINE later == {f \in {g \in factors' : g.country = new.country} : f.from <= p}
  <2>1. later = effective /\ later # {}
    BY <1>4, <1>5
  <2>2. factorAsOf(new.country, p)' = IF later = {} THEN FirstOf({g \in factors' : g.country = new.country})
                                     ELSE LastOf(later)
    BY DEF factorAsOf, FactorsOf, LastOf, FirstOf
  <2>. HIDE DEF later, effective
  <2>. QED
    BY <2>1, <2>2
<1>. QED
  BY <1>6, <1>7

(* A new factor changes no emissions of a time before it takes effect that *)
(* another factor covers, for any countries and factors. (Emissions.Set    *)
(* and factorAsOf.)                                                        *)
THEOREM FactorHistoryStands == ReportsSpec => FactorHistoryStable
<1>1. ReportsInv /\ [ReportsNext]_reportsVars =>
        [\A new \in factors' \ factors, p \in Day :
           p < new.from /\ (\E old \in FactorsOf(new.country) : old.from <= p)
             => factorAsOf(new.country, p).kg' = factorAsOf(new.country, p).kg]_reportsVars
  BY FactorKeeps
<1>. QED
  BY <1>1, ReportsInvHolds, PTL DEF ReportsSpec, FactorHistoryStable

(* Days on which a period may start.                                       *)
Begins(start, length) == \E k \in Int : start = 1 + k * length

(* A period has at least one day.                                          *)
LEMMA Lengths ==
  ASSUME NEW period
  PROVE  Days(period) \in Nat \ {0}
BY Givens DEF Days

(* Division with remainder, ...                                            *)
LEMMA Remainder ==
  ASSUME NEW a \in Nat, NEW b \in Nat \ {0}
  PROVE  \E k \in Nat : a - (a % b) = k * b /\ a % b \in Nat /\ a % b < b
<1>1. a = b * (a \div b) + (a % b) /\ 0 <= a % b /\ a % b < b
  OBVIOUS
<1>2. a \div b \in Nat /\ a % b \in Nat
  OBVIOUS
<1>3. b * (a \div b) = (a \div b) * b /\ (a \div b) * b \in Nat
  BY <1>2
<1>4. a - (a % b) = (a \div b) * b
  BY <1>1, <1>2, <1>3
<1>. QED
  BY <1>1, <1>2, <1>4

(* ... and the distance of multiples.                                      *)
LEMMA Multiples ==
  ASSUME NEW j \in Int, NEW k \in Int, NEW d \in Nat \ {0}, j < k
  PROVE  j * d + d <= k * d /\ j * d \in Int /\ k * d \in Int
OBVIOUS

(* The bucket of a day starts on a day where periods start, and the day is *)
(* one of its period's, ...                                                *)
LEMMA BucketHolds ==
  ASSUME NEW day \in Nat \ {0}, NEW period
  PROVE  /\ PeriodBucket(day, period) \in Nat \ {0}
         /\ PeriodBucket(day, period) <= day
         /\ day < PeriodBucket(day, period) + Days(period)
         /\ Begins(PeriodBucket(day, period), Days(period))
<1>. DEFINE d == Days(period)
<1>1. d \in Nat \ {0} /\ day - 1 \in Nat
  BY Lengths
<1>. HIDE DEF d
<1>2. PICK k \in Nat : (day - 1) - ((day - 1) % d) = k * d /\ (day - 1) % d \in Nat /\ (day - 1) % d < d
  BY <1>1, Remainder
<1>3. k * d \in Nat
  BY <1>1
<1>4. PeriodBucket(day, period) = day - ((day - 1) % d)
  BY DEF PeriodBucket, d
<1>5. PeriodBucket(day, period) = 1 + k * d
  BY <1>1, <1>2, <1>3, <1>4
<1>. QED
  BY <1>1, <1>2, <1>3, <1>4, <1>5 DEF d, Begins

(* ... so that there is one bucket for each day.                           *)
LEMMA BucketIs ==
  ASSUME NEW day \in Nat \ {0}, NEW period, NEW start \in Int, Begins(start, Days(period))
  PROVE  PeriodBucket(day, period) = start <=> start <= day /\ day < start + Days(period)
<1>. DEFINE d == Days(period)
            b == PeriodBucket(day, period)
<1>1. d \in Nat \ {0} /\ b \in Nat /\ b <= day /\ day < b + d
  BY Lengths, BucketHolds
<1>2. PICK j \in Int : b = 1 + j * d
  BY BucketHolds DEF Begins
<1>3. PICK k \in Int : start = 1 + k * d
  BY DEF Begins
<1>. HIDE DEF d, b
<1>4. ASSUME j < k PROVE b + d <= start
  BY <1>1, <1>2, <1>3, <1>4, Multiples
<1>5. ASSUME k < j PROVE start + d <= b
  BY <1>1, <1>2, <1>3, <1>5, Multiples
<1>6. j = k \/ j < k \/ k < j
  OBVIOUS
<1>7. b = start <=> start <= day /\ day < start + d
  <2>1. CASE j = k
    BY <1>1, <1>2, <1>3, <2>1
  <2>2. CASE j < k
    BY <1>1, <1>4, <2>2
  <2>3. CASE k < j
    BY <1>1, <1>5, <2>3
  <2>. QED
    BY <1>6, <2>1, <2>2, <2>3
<1>. QED
  BY <1>7 DEF b, d

(* A period before a start is a start too.                                 *)
LEMMA BucketBefore ==
  ASSUME NEW start \in Int, NEW period, Begins(start, Days(period))
  PROVE  Begins(start - Days(period), Days(period))
<1>. DEFINE d == Days(period)
<1>1. d \in Nat \ {0}
  BY Lengths
<1>2. PICK k \in Int : start = 1 + k * d
  BY DEF Begins
<1>. HIDE DEF d
<1>3. (k - 1) * d = k * d - d
  BY <1>1
<1>4. start - d = 1 + (k - 1) * d /\ k - 1 \in Int
  BY <1>1, <1>2, <1>3
<1>. QED
  BY <1>4 DEF Begins, d

(* A daily bucket is its day.                                              *)
LEMMA BucketOfDay ==
  ASSUME NEW day \in Nat \ {0}
  PROVE  PeriodBucket(day, "daily") = day
<1>1. Days("daily") = 1
  BY DEF Days
<1>. QED
  BY <1>1, BucketHolds

(* What some rows of the rollup are made of.                               *)
LEMMA SomeRows ==
  ASSUME ReportsInv, NEW some \in SUBSET daily
  PROVE  /\ IsFiniteSet(some)
         /\ \A row \in some : /\ row.dev \in Device /\ row.day \in Day /\ row.energy \in Nat
                              /\ row.day \in Nat \ {0} /\ rowEnergy[row] = row.energy
                              /\ SiteOf[row.dev] \in Site /\ CountryOf[SiteOf[row.dev]] \in Country
<1>1. daily \subseteq DeviceDay /\ IsFiniteSet(daily)
  BY DEF ReportsInv, ReportsTypeOK
<1>2. IsFiniteSet(some)
  BY <1>1, FS_Subset
<1>3. \A row \in some : row.dev \in Device /\ row.day \in Day /\ row.energy \in Nat
  BY <1>1, Givens DEF DeviceDay
<1>4. \A row \in some : rowEnergy[row] = row.energy
  BY DEF rowEnergy
<1>. QED
  BY <1>2, <1>3, <1>4, Givens

(* Energies add up to a natural number.                                    *)
LEMMA TotalNat ==
  ASSUME ReportsInv, NEW some \in SUBSET daily
  PROVE  Total(some) \in Nat
<1>1. \A row \in some : rowEnergy[row] \in Nat
  BY SomeRows
<1>. QED
  BY <1>1, SomeRows, SumNat DEF Total

(* However rows are divided among the members of a set, the parts add up.  *)
LEMMA PartsAddUp ==
  ASSUME ReportsInv, NEW some \in SUBSET daily, NEW part, IsFiniteSet(DOMAIN part),
         NEW key \in [some -> DOMAIN part],
         \A k \in DOMAIN part : part[k] = Total({row \in some : key[row] = k})
  PROVE  Sum(part) = Total(some)
<1>0. \A row \in some : rowEnergy[row] = row.energy /\ row.energy \in Nat
  BY SomeRows
<1>1. \A row \in some : rowEnergy[row] \in Int
  BY <1>0
<1>2. \A k \in DOMAIN part : part[k] = SumOver({row \in some : key[row] = k}, rowEnergy)
  BY DEF Total
<1>. QED
  BY <1>1, <1>2, SomeRows, SumGroups DEF Total, Sum

(* A series of some rows has a point for each of their periods, which is   *)
(* what the rows of the period add up to.                                  *)
SeriesOf(series, some, period) ==
  /\ DOMAIN series = {PeriodBucket(row.day, period) : row \in some}
  /\ IsFiniteSet(DOMAIN series)
  /\ \A p : At(series, p) = Total({row \in some : PeriodBucket(row.day, period) = p})
  /\ \A p \in DOMAIN series : At(series, p) = series[p] /\ series[p] \in Nat
  /\ Sum(series) = Total(some)

(* A finite set has a finite image.                                        *)
LEMMA ImageFinite ==
  ASSUME NEW S, IsFiniteSet(S), NEW f
  PROVE  IsFiniteSet({f[x] : x \in S})
<1>. DEFINE T == {f[x] : x \in S}
            g == [x \in S |-> f[x]]
<1>1. g \in Surjection(S, T)
  BY DEF Surjection
<1>. HIDE DEF T, g
<1>. QED
  BY <1>1, FS_Surjection DEF T

(* ByDay keeps the energy of the rows it is given, ...                     *)
LEMMA DaysOf ==
  ASSUME ReportsInv, NEW some \in SUBSET daily
  PROVE  /\ IsFiniteSet({row.day : row \in some}) /\ {row.day : row \in some} \subseteq Day
         /\ DOMAIN ByDay(some) = {row.day : row \in some}
         /\ \A day \in DOMAIN ByDay(some) : /\ ByDay(some)[day] \in Nat
                                            /\ ByDay(some)[day] = Total({row \in some : row.day = day})
         /\ Sum(ByDay(some)) = Total(some)
<1>. DEFINE days == {row.day : row \in some}
            key == [row \in some |-> row.day]
<1>1. days = {key[row] : row \in some}
  OBVIOUS
<1>2. IsFiniteSet(days) /\ days \subseteq Day
  <2>1. IsFiniteSet({key[row] : row \in some})
    <3>. HIDE DEF key
    <3>. QED
      BY SomeRows, ImageFinite
  <2>. QED
    BY <1>1, <2>1, SomeRows
<1>3. DOMAIN ByDay(some) = days /\ \A day \in days : ByDay(some)[day] = Total({row \in some : row.day = day})
  BY DEF ByDay
<1>4. \A day \in days : Total({row \in some : row.day = day}) \in Nat
  <2>1. \A day : {row \in some : row.day = day} \in SUBSET daily
    OBVIOUS
  <2>. QED
    BY <2>1, TotalNat
<1>5. Sum(ByDay(some)) = Total(some)
  <2>1. key \in [some -> days]
    OBVIOUS
  <2>2. \A k \in days : {row \in some : key[row] = k} = {row \in some : row.day = k}
    OBVIOUS
  <2>. HIDE DEF key, days
  <2>. QED
    BY <1>2, <1>3, <2>1, <2>2, PartsAddUp
<1>. QED
  BY <1>2, <1>3, <1>4, <1>5

(* ... and bucketDailyRows that of the days: what they make of any rows is *)
(* the rows' series.                                                       *)
LEMMA SeriesIs ==
  ASSUME ReportsInv, NEW some \in SUBSET daily, NEW period
  PROVE  SeriesOf(bucketDailyRows(ByDay(some), period), some, period)
<1>. DEFINE days == ByDay(some)
            series == bucketDailyRows(days, period)
            of(p) == {row \in some : PeriodBucket(row.day, period) = p}
            key == [row \in some |-> PeriodBucket(row.day, period)]
<1>1. DOMAIN series = {PeriodBucket(row.day, period) : row \in some}
  <2>1. DOMAIN series = {PeriodBucket(day, period) : day \in {row.day : row \in some}}
    BY DaysOf DEF bucketDailyRows
  <2>. QED
    BY <2>1
<1>2. IsFiniteSet(DOMAIN series)
  <2>1. DOMAIN series = {key[row] : row \in some}
    BY <1>1
  <2>. HIDE DEF key, series
  <2>. QED
    BY <2>1, SomeRows, ImageFinite
<1>3. ASSUME NEW p \in DOMAIN series PROVE series[p] = Total(of(p))
  <2>. DEFINE part == {day \in DOMAIN days : PeriodBucket(day, period) = p}
              f == [day \in part |-> days[day]]
              g == [row \in of(p) |-> row.day]
  <2>1. series[p] = SumOver(part, days)
    BY <1>3 DEF bucketDailyRows
  <2>2. IsFiniteSet(part)
    BY DaysOf, FS_Subset
  <2>3. \A day \in part : f[day] = days[day] /\ days[day] \in Int
    <3>1. \A day \in DOMAIN days : days[day] \in Nat
      BY DaysOf
    <3>. HIDE DEF days
    <3>. QED
      BY <3>1
  <2>4. SumOver(part, days) = SumOver(part, f)
    <3>. HIDE DEF part, f, days
    <3>. QED
      BY <2>2, <2>3, SumSame
  <2>5. g \in [of(p) -> part]
    BY DaysOf
  <2>6. \A day \in part : f[day] = Total({row \in of(p) : g[row] = day})
    <3>. SUFFICES ASSUME NEW day \in part PROVE f[day] = Total({row \in of(p) : g[row] = day})
      OBVIOUS
    <3>1. {row \in of(p) : g[row] = day} = {row \in some : row.day = day}
      OBVIOUS
    <3>. QED
      BY <3>1, DaysOf
  <2>7. of(p) \in SUBSET daily /\ DOMAIN f = part
    OBVIOUS
  <2>8. Sum(f) = Total(of(p))
    <3>. HIDE DEF part, f, g, of, days
    <3>. QED
      BY <2>2, <2>5, <2>6, <2>7, PartsAddUp
  <2>9. Sum(f) = SumOver(part, f)
    BY DEF Sum
  <2>. QED
    BY <2>1, <2>4, <2>8, <2>9
<1>4. \A p : of(p) \in SUBSET daily
  OBVIOUS
<1>5. \A p : At(series, p) = Total(of(p))
  <2>. SUFFICES ASSUME NEW p PROVE At(series, p) = Total(of(p))
    OBVIOUS
  <2>1. CASE p \in DOMAIN series
    BY <1>3, <2>1 DEF At
  <2>2. CASE p \notin DOMAIN series
    <3>1. of(p) = {}
      BY <1>1, <2>2
    <3>2. Total({}) = 0
      BY SumEmpty DEF Total
    <3>. QED
      BY <2>2, <3>1, <3>2 DEF At
  <2>. QED
    BY <2>1, <2>2
<1>6. \A p \in DOMAIN series : series[p] \in Nat /\ At(series, p) = series[p]
  BY <1>3, <1>4, TotalNat DEF At
<1>7. Sum(series) = Total(some)
  <2>1. key \in [some -> DOMAIN series]
    BY <1>1
  <2>2. \A p \in DOMAIN series : series[p] = Total({row \in some : key[row] = p})
    BY <1>3
  <2>. HIDE DEF key, series
  <2>. QED
    BY <1>2, <2>1, <2>2, PartsAddUp
<1>. HIDE DEF series
<1>. QED
  BY <1>1, <1>2, <1>5, <1>6, <1>7 DEF SeriesOf, series

(* So it is of a site's rows, ...                                          *)
LEMMA SiteSeries ==
  ASSUME ReportsInv, NEW site, NEW period, NEW from, NEW to
  PROVE  /\ ListSiteDailyRollup(site, from, to) \in SUBSET daily
         /\ SeriesOf(SiteEnergy(site, period, from, to), ListSiteDailyRollup(site, from, to), period)
<1>1. ListSiteDailyRollup(site, from, to) \in SUBSET daily
  BY DEF ListSiteDailyRollup
<1>. QED
  BY <1>1, SeriesIs DEF SiteEnergy, loadSiteDailyRows

(* ... of the fleet's, ...                                                 *)
LEMMA FleetSeries ==
  ASSUME ReportsInv, NEW cohort, NEW period, NEW from, NEW to
  PROVE  /\ ListFleetDailyRollup(cohort, from, to) \in SUBSET daily
         /\ SeriesOf(FleetEnergy(cohort, period, from, to), ListFleetDailyRollup(cohort, from, to), period)
<1>1. ListFleetDailyRollup(cohort, from, to) \in SUBSET daily
  BY DEF ListFleetDailyRollup
<1>. QED
  BY <1>1, SeriesIs DEF FleetEnergy, loadFleetDailyRows

CountriesOf(series, some, period) ==
  /\ DOMAIN series = {CountryOf[SiteOf[row.dev]] : row \in some}
  /\ IsFiniteSet(DOMAIN series)
  /\ \A c \in DOMAIN series :
       SeriesOf(series[c], {row \in some : CountryOf[SiteOf[row.dev]] = c}, period)

(* ... and of each country's.                                              *)
LEMMA CountrySeries ==
  ASSUME ReportsInv, NEW cohort, NEW period, NEW from, NEW to
  PROVE  CountriesOf(FleetEnergyByCountry(cohort, period, from, to),
                     ListFleetDailyRollup(cohort, from, to), period)
<1>. DEFINE some == ListFleetDailyRollup(cohort, from, to)
            series == FleetEnergyByCountry(cohort, period, from, to)
            of(c) == {row \in some : CountryOf[SiteOf[row.dev]] = c}
            key == [row \in some |-> CountryOf[SiteOf[row.dev]]]
<1>1. DOMAIN series = {CountryOf[SiteOf[row.dev]] : row \in some}
  BY DEF FleetEnergyByCountry
<1>2. \A c \in DOMAIN series : series[c] = bucketDailyRows(ByDay(of(c)), period)
  BY DEF FleetEnergyByCountry
<1>3. some \in SUBSET daily /\ \A c : of(c) \in SUBSET daily
  BY DEF ListFleetDailyRollup
<1>4. IsFiniteSet(DOMAIN series)
  <2>1. DOMAIN series = {key[row] : row \in some}
    BY <1>1
  <2>2. IsFiniteSet(some)
    BY <1>3, SomeRows
  <2>. HIDE DEF key, series, some
  <2>3. IsFiniteSet({key[row] : row \in some})
    BY <2>2, ImageFinite
  <2>. QED
    BY <2>1, <2>3
<1>5. \A c \in DOMAIN series : SeriesOf(series[c], of(c), period)
  <2>. HIDE DEF series, some, of
  <2>. QED
    BY <1>2, <1>3, SeriesIs
<1>. HIDE DEF series
<1>. QED
  BY <1>1, <1>4, <1>5 DEF CountriesOf, series

(* The fleet's rows of a period, by site: each site's are those of its own *)
(* series.                                                                 *)
LEMMA BySite ==
  ASSUME ReportsInv, NEW sites \in SUBSET Site, NEW some \in SUBSET daily,
         \A row \in some : SiteOf[row.dev] \in sites,
         NEW part, DOMAIN part = sites,
         \A s \in sites : part[s] = Total({row \in some : SiteOf[row.dev] = s})
  PROVE  Sum(part) = Total(some)
<1>. DEFINE key == [row \in some |-> SiteOf[row.dev]]
<1>1. key \in [some -> DOMAIN part]
  OBVIOUS
<1>2. IsFiniteSet(DOMAIN part)
  BY Givens, FS_Subset
<1>3. \A s \in DOMAIN part : part[s] = Total({row \in some : key[row] = s})
  <2>1. \A s \in sites : {row \in some : key[row] = s} = {row \in some : SiteOf[row.dev] = s}
    OBVIOUS
  <2>. QED
    BY <2>1
<1>. HIDE DEF key
<1>. QED
  BY <1>1, <1>2, <1>3, PartsAddUp

(* In a range the sites' series add up to the fleet's, and so do the       *)
(* countries', and a cohort's is what its sites have.                      *)
LEMMA AddsUp ==
  ASSUME ReportsInv, NEW from \in Day, NEW to \in Day, NEW period \in Period
  PROVE  LET fleet == FleetEnergy(Nil, period, from, to)
             site == [s \in Site |-> SiteEnergy(s, period, from, to)]
             country == FleetEnergyByCountry(Nil, period, from, to)
             sum(parts, p) == Sum([x \in DOMAIN parts |-> At(parts[x], p)])
         IN /\ \A p \in DOMAIN fleet : fleet[p] = sum(site, p) /\ fleet[p] = sum(country, p)
            /\ Sum(fleet) = Sum(loadFleetDailyRows(Nil, from, to))
            /\ \A c \in Cohort :
                 Sum(CohortSummary(c, period, from, to).energy)
                   = Sum([s \in {x \in Site : CohortOf[x] = c} |-> Sum(site[s])])
<1>. DEFINE fleet == FleetEnergy(Nil, period, from, to)
            site == [s \in Site |-> SiteEnergy(s, period, from, to)]
            country == FleetEnergyByCountry(Nil, period, from, to)
            found == ListFleetDailyRollup(Nil, from, to)
            of(p) == {row \in found : PeriodBucket(row.day, period) = p}
<1>1. found \in SUBSET daily /\ SeriesOf(fleet, found, period)
  BY FleetSeries
<1>2. found = {row \in daily : row.day \in from..to}
  BY DEF ListFleetDailyRollup
<1>3. \A row \in daily : SiteOf[row.dev] \in Site
  BY SomeRows
<1>4. \A p \in DOMAIN fleet : fleet[p] = Total(of(p)) /\ of(p) \in SUBSET daily
  BY <1>1 DEF SeriesOf
<1>5. ASSUME NEW p \in DOMAIN fleet
      PROVE  fleet[p] = Sum([s \in DOMAIN site |-> At(site[s], p)])
  <2>. DEFINE part == [s \in Site |-> At(site[s], p)]
  <2>1. ASSUME NEW s \in Site PROVE part[s] = Total({row \in of(p) : SiteOf[row.dev] = s})
    <3>1. SeriesOf(site[s], ListSiteDailyRollup(s, from, to), period)
      BY SiteSeries
    <3>2. {row \in ListSiteDailyRollup(s, from, to) : PeriodBucket(row.day, period) = p}
            = {row \in of(p) : SiteOf[row.dev] = s}
      BY <1>2 DEF ListSiteDailyRollup
    <3>. QED
      BY <3>1, <3>2 DEF SeriesOf
  <2>2. \A row \in of(p) : SiteOf[row.dev] \in Site
    BY <1>1, <1>3
  <2>3. Sum(part) = Total(of(p))
    <3>1. DOMAIN part = Site /\ Site \in SUBSET Site
      OBVIOUS
    <3>. HIDE DEF part, of
    <3>. QED
      BY <1>4, <2>1, <2>2, <3>1, BySite
  <2>. QED
    BY <1>4, <2>3
<1>6. ASSUME NEW p \in DOMAIN fleet
      PROVE  fleet[p] = Sum([c \in DOMAIN country |-> At(country[c], p)])
  <2>. DEFINE part == [c \in DOMAIN country |-> At(country[c], p)]
              key == [row \in of(p) |-> CountryOf[SiteOf[row.dev]]]
  <2>1. /\ DOMAIN country = {CountryOf[SiteOf[row.dev]] : row \in found}
        /\ IsFiniteSet(DOMAIN country)
        /\ \A c \in DOMAIN country :
             SeriesOf(country[c], {row \in found : CountryOf[SiteOf[row.dev]] = c}, period)
    <3>1. CountriesOf(country, found, period)
      BY CountrySeries
    <3>. HIDE DEF country, found
    <3>. QED
      BY <3>1 DEF CountriesOf
  <2>2. ASSUME NEW c \in DOMAIN part PROVE part[c] = Total({row \in of(p) : key[row] = c})
    <3>1. {row \in {x \in found : CountryOf[SiteOf[x.dev]] = c} : PeriodBucket(row.day, period) = p}
            = {row \in of(p) : key[row] = c}
      OBVIOUS
    <3>2. part[c] = At(country[c], p) /\ c \in DOMAIN country
      OBVIOUS
    <3>3. At(country[c], p) =
            Total({row \in {x \in found : CountryOf[SiteOf[x.dev]] = c} : PeriodBucket(row.day, period) = p})
      BY <2>1, <3>2 DEF SeriesOf
    <3>. QED
      BY <3>1, <3>2, <3>3
  <2>3. key \in [of(p) -> DOMAIN part] /\ IsFiniteSet(DOMAIN part)
    BY <2>1
  <2>4. Sum(part) = Total(of(p))
    <3>. HIDE DEF part, of, key
    <3>. QED
      BY <1>4, <2>2, <2>3, PartsAddUp
  <2>. QED
    BY <1>4, <2>4
<1>7. Sum(fleet) = Sum(loadFleetDailyRows(Nil, from, to))
  BY <1>1, DaysOf DEF SeriesOf, loadFleetDailyRows
<1>8. ASSUME NEW c \in Cohort
      PROVE  Sum(CohortSummary(c, period, from, to).energy)
               = Sum([s \in {x \in Site : CohortOf[x] = c} |-> Sum(site[s])])
  <2>. DEFINE sites == {x \in Site : CohortOf[x] = c}
              part == [s \in sites |-> Sum(site[s])]
              some == ListFleetDailyRollup(c, from, to)
  <2>1. some \in SUBSET daily /\ SeriesOf(FleetEnergy(c, period, from, to), some, period)
    BY FleetSeries
  <2>2. some = {row \in found : CohortOf[SiteOf[row.dev]] = c}
    BY <1>2, Givens DEF ListFleetDailyRollup
  <2>3. ASSUME NEW s \in sites PROVE part[s] = Total({row \in some : SiteOf[row.dev] = s})
    <3>1. SeriesOf(site[s], ListSiteDailyRollup(s, from, to), period)
      BY SiteSeries
    <3>2. ListSiteDailyRollup(s, from, to) = {row \in some : SiteOf[row.dev] = s}
      BY <1>2, <2>2 DEF ListSiteDailyRollup
    <3>. QED
      BY <3>1, <3>2 DEF SeriesOf
  <2>4. \A row \in some : SiteOf[row.dev] \in sites
    BY <1>1, <1>3, <2>2
  <2>5. Sum(part) = Total(some)
    <3>1. DOMAIN part = sites /\ sites \in SUBSET Site
      OBVIOUS
    <3>. HIDE DEF part, some, sites
    <3>. QED
      BY <2>1, <2>3, <2>4, <3>1, BySite
  <2>6. CohortSummary(c, period, from, to).energy = FleetEnergy(c, period, from, to)
    BY DEF CohortSummary
  <2>. QED
    BY <2>1, <2>5, <2>6 DEF SeriesOf
<1>. QED
  BY <1>5, <1>6, <1>7, <1>8

(* The energies add up.                                                    *)
LEMMA EnergyDoesAddUp == ReportsInv => EnergyAddsUp
<1>. SUFFICES ASSUME ReportsInv PROVE EnergyAddsUp
  OBVIOUS
<1>1. \A range \in Ranges : range[1] \in Day /\ range[2] \in Day
  BY DEF Ranges
<1>. QED
  BY <1>1, AddsUp DEF EnergyAddsUp

(* Of a greater factor, and of a greater number of things.                 *)
LEMMA Monotone ==
  ASSUME NEW a \in Nat, NEW b \in Nat, NEW c \in Nat, b <= c
  PROVE  a * b <= a * c /\ a * b \in Nat /\ a * c \in Nat
OBVIOUS

(* A bucket has no more days than its period.                              *)
LEMMA BucketSize ==
  ASSUME NEW days \in SUBSET (Nat \ {0}), NEW period, NEW p \in Nat,
         \A day \in days : PeriodBucket(day, period) = p
  PROVE  Cardinality(days) \in Nat /\ Cardinality(days) <= Days(period)
<1>. DEFINE d == Days(period)
<1>1. d \in Nat \ {0}
  BY Lengths
<1>2. days \subseteq p..(p + d - 1)
  <2>. SUFFICES ASSUME NEW day \in days PROVE day \in p..(p + d - 1)
    OBVIOUS
  <2>1. p <= day /\ day < p + d /\ day \in Nat
    BY BucketHolds
  <2>. HIDE DEF d
  <2>. QED
    BY <1>1, <2>1
<1>. HIDE DEF d
<1>3. p \in Int /\ p + d - 1 \in Int /\ ~(p > p + d - 1) /\ (p + d - 1) - p + 1 = d
  BY <1>1
<1>4. IsFiniteSet(p..(p + d - 1)) /\ Cardinality(p..(p + d - 1)) = d
  BY <1>3, FS_Interval
<1>5. IsFiniteSet(days) /\ Cardinality(days) <= d
  <2>. DEFINE span == p..(p + d - 1)
  <2>1. IsFiniteSet(span) /\ Cardinality(span) = d /\ days \in SUBSET span
    BY <1>2, <1>4
  <2>. HIDE DEF span
  <2>. QED
    BY <2>1, FS_Subset
<1>. QED
  BY <1>5, FS_CardinalityType DEF d

(* The capacity factor of a site is of the same energy as its specific     *)
(* yield, and of no more hours than the period has.                        *)
LEMMA LoadIsYield ==
  ASSUME ReportsInv, NEW s \in Site, SizeOf[s] > 0, NEW period, NEW from, NEW to
  PROVE  LET load == SiteCapacityFactor(s, period, from, to)
             yield == SiteSpecificYield(s, period, from, to)
         IN /\ DOMAIN load = DOMAIN yield
            /\ \A p \in DOMAIN load :
                 /\ load[p].energy = yield[p].energy
                 /\ load[p].most <= 24 * yield[p].size * Days(period)
<1>. DEFINE days == loadSiteDailyRows(s, from, to)
            of(p) == {day \in DOMAIN days : PeriodBucket(day, period) = p}
            series == SiteEnergy(s, period, from, to)
            size == SizeOf[s]
<1>1. size \in Nat /\ size # 0
  BY Givens
<1>2. SiteCapacityFactor(s, period, from, to) =
        [p \in {PeriodBucket(day, period) : day \in DOMAIN days} |->
           [energy |-> SumOver(of(p), days), most |-> 24 * size * Cardinality(of(p))]]
  BY <1>1 DEF SiteCapacityFactor
<1>3. SiteSpecificYield(s, period, from, to) = [p \in DOMAIN series |-> [energy |-> series[p], size |-> size]]
  BY <1>1 DEF SiteSpecificYield
<1>4. series = [p \in {PeriodBucket(day, period) : day \in DOMAIN days} |-> SumOver(of(p), days)]
  BY DEF SiteEnergy, bucketDailyRows
<1>5. ListSiteDailyRollup(s, from, to) \in SUBSET daily
  BY SiteSeries
<1>6. DOMAIN days \subseteq Nat \ {0}
  BY <1>5, DaysOf, Givens DEF loadSiteDailyRows
<1>7. ASSUME NEW p \in {PeriodBucket(day, period) : day \in DOMAIN days}
      PROVE  24 * size * Cardinality(of(p)) <= 24 * size * Days(period)
  <2>1. p \in Nat
    BY <1>6, BucketHolds
  <2>2. Cardinality(of(p)) \in Nat /\ Cardinality(of(p)) <= Days(period)
    <3>1. of(p) \in SUBSET (Nat \ {0}) /\ \A day \in of(p) : PeriodBucket(day, period) = p
      BY <1>6
    <3>. HIDE DEF of
    <3>. QED
      BY <2>1, <3>1, BucketSize
  <2>3. Days(period) \in Nat /\ 24 * size \in Nat
    BY <1>1, Lengths
  <2>. HIDE DEF size, of
  <2>. QED
    BY <2>2, <2>3, Monotone
<1>. HIDE DEF of, days, series, size
<1>. QED
  BY <1>2, <1>3, <1>4, <1>7

(* Some site yields at least as much per kilowatt as the fleet does, which *)
(* is a mediant of its sites.                                              *)
LEMMA BestYields ==
  ASSUME ReportsInv, NEW from, NEW to, NEW period,
         \A s \in Site : SizeOf[s] = 0 => DOMAIN SiteEnergy(s, period, from, to) = {},
         FleetSpecificYield(Nil, period, from, to) # Nil,
         NEW p \in DOMAIN FleetSpecificYield(Nil, period, from, to)
  PROVE  \E best \in {s \in Site : SizeOf[s] > 0} :
           LET fleet == FleetSpecificYield(Nil, period, from, to)
               yield == SiteSpecificYield(best, period, from, to)
           IN /\ p \in DOMAIN yield
              /\ fleet[p].energy * yield[p].size <= yield[p].energy * fleet[p].size
<1>. DEFINE fleet == FleetEnergy(Nil, period, from, to)
            series(s) == SiteEnergy(s, period, from, to)
            size == FleetCapacity(Nil)
            found == ListFleetDailyRollup(Nil, from, to)
            some == {row \in found : PeriodBucket(row.day, period) = p}
            A == {s \in Site : p \in DOMAIN series(s)}
            e == [s \in Site |-> At(series(s), p)]
<1>1. /\ FleetSpecificYield(Nil, period, from, to) =
           [q \in DOMAIN fleet |-> [energy |-> fleet[q], size |-> size]]
      /\ p \in DOMAIN fleet
  BY DEF FleetSpecificYield
<1>2. /\ found \in SUBSET daily /\ SeriesOf(fleet, found, period)
      /\ found = {row \in daily : row.day \in from..to}
  BY FleetSeries DEF ListFleetDailyRollup
<1>3. \A s \in Site : /\ SeriesOf(series(s), ListSiteDailyRollup(s, from, to), period)
                      /\ ListSiteDailyRollup(s, from, to) = {row \in found : SiteOf[row.dev] = s}
  BY <1>2, SiteSeries DEF ListSiteDailyRollup
<1>4. \A s \in Site : e[s] = Total({row \in some : SiteOf[row.dev] = s})
  <2>. SUFFICES ASSUME NEW s \in Site PROVE e[s] = Total({row \in some : SiteOf[row.dev] = s})
    OBVIOUS
  <2>. DEFINE mine == ListSiteDailyRollup(s, from, to)
  <2>1. {row \in mine : PeriodBucket(row.day, period) = p} = {row \in some : SiteOf[row.dev] = s}
    <3>1. mine = {row \in found : SiteOf[row.dev] = s}
      BY <1>3
    <3>. HIDE DEF mine, found
    <3>. QED
      BY <3>1
  <2>2. At(series(s), p) = Total({row \in mine : PeriodBucket(row.day, period) = p})
    <3>1. SeriesOf(series(s), mine, period)
      BY <1>3
    <3>. HIDE DEF series, mine
    <3>. QED
      BY <3>1 DEF SeriesOf
  <2>. QED
    BY <2>1, <2>2
<1>5. fleet[p] = Sum(e)
  <2>1. \A row \in some : SiteOf[row.dev] \in Site
    BY <1>2, SomeRows
  <2>2. fleet[p] = Total(some) /\ some \in SUBSET daily
    BY <1>1, <1>2 DEF SeriesOf
  <2>3. DOMAIN e = Site /\ Site \in SUBSET Site
    OBVIOUS
  <2>. HIDE DEF e, some
  <2>. QED
    BY <1>4, <2>1, <2>2, <2>3, BySite
<1>6. \A s \in Site : e[s] \in Nat /\ (s \notin A => e[s] = 0)
  <2>. SUFFICES ASSUME NEW s \in Site PROVE e[s] \in Nat /\ (s \notin A => e[s] = 0)
    OBVIOUS
  <2>1. {row \in some : SiteOf[row.dev] = s} \in SUBSET daily
    BY <1>2
  <2>2. s \notin A => e[s] = 0
    BY DEF At
  <2>3. e[s] \in Nat
    <3>. HIDE DEF e, some
    <3>. QED
      BY <1>4, <2>1, TotalNat
  <2>. QED
    BY <2>2, <2>3
<1>7. IsFiniteSet(A) /\ A \subseteq Site /\ IsFiniteSet(Site \ A)
  BY Givens, FS_Subset
<1>8. Sum(e) = SumOver(A, e)
  <2>1. Site = A \cup (Site \ A) /\ A \cap (Site \ A) = {}
    BY <1>7
  <2>2. \A s \in A \cup (Site \ A) : e[s] \in Int
    BY <1>6, <2>1
  <2>3. Sum(e) = SumOver(Site, e)
    BY DEF Sum
  <2>. HIDE DEF A, e
  <2>4. SumOver(A \cup (Site \ A), e) = SumOver(A, e) + SumOver(Site \ A, e)
    BY <1>7, <2>1, <2>2, SumUnion
  <2>5. SumOver(Site \ A, e) = 0 * Cardinality(Site \ A) /\ Cardinality(Site \ A) \in Nat
    BY <1>6, <1>7, SumConstant, FS_CardinalityType
  <2>6. SumOver(A, e) \in Int
    <3>1. \A s \in A : e[s] \in Int
      BY <2>2
    <3>. QED
      BY <1>7, <3>1, SumRemove
  <2>7. SumOver(Site, e) = SumOver(A \cup (Site \ A), e)
    BY <2>1
  <2>8. SumOver(Site \ A, e) = 0
    BY <2>5
  <2>. QED
    BY <2>3, <2>4, <2>6, <2>7, <2>8
<1>9. A # {}
  <2>1. PICK row \in found : PeriodBucket(row.day, period) = p
    BY <1>1, <1>2 DEF SeriesOf
  <2>2. SiteOf[row.dev] \in Site
    BY <1>2, SomeRows
  <2>3. SiteOf[row.dev] \in A
    <3>. DEFINE s == SiteOf[row.dev]
    <3>1. row \in ListSiteDailyRollup(s, from, to)
      BY <1>3, <2>1, <2>2
    <3>2. DOMAIN series(s) = {PeriodBucket(x.day, period) : x \in ListSiteDailyRollup(s, from, to)}
      BY <1>3, <2>2 DEF SeriesOf
    <3>. QED
      BY <2>1, <2>2, <3>1, <3>2
  <2>. QED
    BY <2>3
<1>10. size = SumOver(Site, SizeOf) /\ \A s \in Site : SizeOf[s] \in Nat
  <2>1. {s \in Site : Nil = Nil \/ CohortOf[s] = Nil} = Site
    OBVIOUS
  <2>. QED
    BY <2>1, Givens DEF FleetCapacity
<1>11. SumOver(A, SizeOf) \in Nat /\ size \in Nat /\ SumOver(A, SizeOf) <= size
  <2>1. A \cup (Site \ A) = Site /\ A \cap (Site \ A) = {} /\ \A s \in A \cup (Site \ A) : SizeOf[s] \in Int
    BY <1>7, <1>10
  <2>2. SumOver(A \cup (Site \ A), SizeOf) = SumOver(A, SizeOf) + SumOver(Site \ A, SizeOf)
    <3>. HIDE DEF A
    <3>. QED
      BY <1>7, <2>1, SumUnion
  <2>3. SumOver(A, SizeOf) \in Nat /\ SumOver(Site \ A, SizeOf) \in Nat
    <3>1. (\A s \in A : SizeOf[s] \in Nat) /\ \A s \in Site \ A : SizeOf[s] \in Nat
      BY <1>7, <1>10
    <3>. HIDE DEF A
    <3>. QED
      BY <1>7, <3>1, SumNat
  <2>. HIDE DEF A, size
  <2>4. SumOver(Site, SizeOf) = SumOver(A \cup (Site \ A), SizeOf)
    BY <2>1
  <2>. QED
    BY <1>10, <2>2, <2>3, <2>4
<1>12. PICK best \in A : e[best] * SumOver(A, SizeOf) >= SumOver(A, e) * SizeOf[best]
  <2>1. \A s \in A : e[s] \in Int /\ SizeOf[s] \in Int
    BY <1>6, <1>7, <1>10
  <2>. HIDE DEF A, e
  <2>. QED
    BY <1>7, <1>9, <2>1, Mediant
<1>13. best \in Site /\ e[best] \in Nat /\ SizeOf[best] \in Nat /\ fleet[p] \in Nat
  BY <1>1, <1>2, <1>6, <1>7, <1>10 DEF SeriesOf
<1>14. e[best] * SumOver(A, SizeOf) <= e[best] * size
  <2>. HIDE DEF A, e, size
  <2>. QED
    BY <1>11, <1>13, Monotone
<1>15. fleet[p] * SizeOf[best] <= e[best] * size
  <2>1. fleet[p] = SumOver(A, e)
    BY <1>5, <1>8
  <2>2. /\ fleet[p] * SizeOf[best] \in Nat /\ e[best] * size \in Nat
        /\ e[best] * SumOver(A, SizeOf) \in Nat
    <3>. HIDE DEF A, e, size, fleet
    <3>. QED
      BY <1>11, <1>13
  <2>. HIDE DEF A, e, size, fleet
  <2>. QED
    BY <1>12, <1>14, <2>1, <2>2
<1>16. SizeOf[best] > 0 /\ p \in DOMAIN series(best) /\ e[best] = series(best)[p]
  <2>1. p \in DOMAIN series(best)
    OBVIOUS
  <2>2. SizeOf[best] # 0
    BY <1>13, <2>1
  <2>. QED
    BY <1>13, <2>1, <2>2 DEF At
<1>17. SiteSpecificYield(best, period, from, to) =
         [q \in DOMAIN series(best) |-> [energy |-> series(best)[q], size |-> SizeOf[best]]]
  BY <1>16 DEF SiteSpecificYield
<1>. HIDE DEF fleet, series, size, e
<1>. QED
  BY <1>1, <1>13, <1>15, <1>16, <1>17

(* The ratios agree.                                                       *)
LEMMA RatiosDoAgree == ReportsInv => RatiosAgree
<1>. SUFFICES ASSUME ReportsInv, NEW range \in Ranges, NEW period \in Period
              PROVE  LET from == range[1]
                         to == range[2]
                         sized == {s \in Site : SizeOf[s] > 0}
                         yield == [s \in sized |-> SiteSpecificYield(s, period, from, to)]
                         load == [s \in sized |-> SiteCapacityFactor(s, period, from, to)]
                         fleet == FleetSpecificYield(Nil, period, from, to)
                     IN /\ \A s \in sized :
                             /\ DOMAIN load[s] = DOMAIN yield[s]
                             /\ \A p \in DOMAIN load[s] :
                                  /\ load[s][p].energy = yield[s][p].energy
                                  /\ load[s][p].most <= 24 * yield[s][p].size * Days(period)
                        /\ (\A s \in Site \ sized : DOMAIN SiteEnergy(s, period, from, to) = {}) /\ fleet # Nil =>
                             \A p \in DOMAIN fleet :
                               \E best \in sized :
                                 /\ p \in DOMAIN yield[best]
                                 /\ fleet[p].energy * yield[best][p].size <= yield[best][p].energy * fleet[p].size
  BY DEF RatiosAgree
<1>. DEFINE from == range[1]
            to == range[2]
            sized == {s \in Site : SizeOf[s] > 0}
            fleet == FleetSpecificYield(Nil, period, from, to)
<1>1. \A s \in sized :
        LET load == SiteCapacityFactor(s, period, from, to)
            yield == SiteSpecificYield(s, period, from, to)
        IN /\ DOMAIN load = DOMAIN yield
           /\ \A p \in DOMAIN load :
                /\ load[p].energy = yield[p].energy
                /\ load[p].most <= 24 * yield[p].size * Days(period)
  BY LoadIsYield
<1>2. ASSUME \A s \in Site \ sized : DOMAIN SiteEnergy(s, period, from, to) = {}, fleet # Nil
      PROVE  \A p \in DOMAIN fleet :
               \E best \in sized :
                 LET yield == SiteSpecificYield(best, period, from, to)
                 IN /\ p \in DOMAIN yield
                    /\ fleet[p].energy * yield[p].size <= yield[p].energy * fleet[p].size
  <2>1. \A s \in Site : SizeOf[s] = 0 => s \in Site \ sized
    OBVIOUS
  <2>2. \A s \in Site : SizeOf[s] = 0 => DOMAIN SiteEnergy(s, period, from, to) = {}
    BY <1>2, <2>1
  <2>. QED
    BY <1>2, <2>2, BestYields
<1>. QED
  BY <1>1, <1>2

(* The rows of the period that today is in, and of the one before it.      *)
LEMMA PeriodRows ==
  ASSUME ReportsInv, NEW period, NEW row \in daily
  PROVE  LET start == PeriodBucket(today, period)
             length == Days(period)
         IN /\ row.day \in start..today => PeriodBucket(row.day, period) = start
            /\ PeriodBucket(row.day, period) = start => row.day >= start
            /\ PeriodBucket(row.day, period) = start - length
                 <=> row.day \in (start - length)..(start - 1)
            /\ row.day \in Nat \ {0} /\ today \in Nat \ {0}
            /\ start \in Nat \ {0} /\ length \in Nat \ {0}
            /\ start <= today
<1>. DEFINE start == PeriodBucket(today, period)
            length == Days(period)
            day == row.day
            bucket == PeriodBucket(day, period)
<1>1. day \in Nat \ {0} /\ today \in Nat \ {0} /\ length \in Nat \ {0}
  BY SomeRows, Givens, Lengths DEF ReportsInv, ReportsTypeOK
<1>2. start \in Nat \ {0} /\ start <= today /\ today < start + length /\ Begins(start, length)
  BY <1>1, BucketHolds
<1>3. bucket = start <=> start <= day /\ day < start + length
  BY <1>1, <1>2, BucketIs
<1>4. Begins(start - length, length) /\ start - length \in Int
  BY <1>1, <1>2, BucketBefore
<1>5. bucket = start - length <=> start - length <= day /\ day < (start - length) + length
  BY <1>1, <1>4, BucketIs
<1>. HIDE DEF start, length, day, bucket
<1>6. day \in start..today => bucket = start
  BY <1>1, <1>2, <1>3
<1>7. bucket = start - length <=> day \in (start - length)..(start - 1)
  BY <1>1, <1>2, <1>5
<1>. QED
  BY <1>1, <1>2, <1>3, <1>6, <1>7 DEF start, length, day, bucket

(* Asked for by months or as of a midnight, a comparison is of the bucket  *)
(* of today.                                                               *)
OnMidnight(period, midnight) == period = "monthly" \/ midnight

LEMMA Starts ==
  ASSUME NEW period, NEW midnight \in BOOLEAN, OnMidnight(period, midnight)
  PROVE  /\ PeriodStart(AsOf(midnight), period) = [day |-> PeriodBucket(today, period), midnight |-> TRUE]
         /\ AsOf(midnight).day = today
BY DEF PeriodStart, AsOf, OnMidnight

(* What a site makes in a period up to today.                              *)
LEMMA SitePeriod ==
  ASSUME ReportsInv, NEW s, NEW period, NEW midnight \in BOOLEAN, OnMidnight(period, midnight)
  PROVE  sitePeriodEnergy(s, period, AsOf(midnight))
           = Total(ListSiteDailyRollup(s, PeriodBucket(today, period), today))
<1>. DEFINE start == PeriodBucket(today, period)
            mine == ListSiteDailyRollup(s, start, today)
            series == SiteEnergy(s, period, start, today)
<1>1. SeriesOf(series, mine, period) /\ mine \in SUBSET daily
  BY SiteSeries
<1>2. {row \in mine : PeriodBucket(row.day, period) = start} = mine
  <2>1. \A row \in mine : row \in daily /\ row.day \in start..today
    BY DEF ListSiteDailyRollup
  <2>2. \A row \in mine : PeriodBucket(row.day, period) = start
    BY <2>1, PeriodRows
  <2>. QED
    BY <2>2
<1>3. At(series, start) = Total({row \in mine : PeriodBucket(row.day, period) = start})
  <2>. HIDE DEF series, mine, start
  <2>. QED
    BY <1>1 DEF SeriesOf
<1>4. sitePeriodEnergy(s, period, AsOf(midnight)) = At(series, start)
  BY Starts DEF sitePeriodEnergy, PointAt, FirstDay
<1>. HIDE DEF series, mine
<1>. QED
  BY <1>2, <1>3, <1>4 DEF mine

(* Of several sites, likewise.                                             *)
LEMMA SitesPeriod ==
  ASSUME ReportsInv, NEW period, NEW midnight \in BOOLEAN, OnMidnight(period, midnight),
         NEW sites \in SUBSET Site, NEW part, DOMAIN part = sites,
         \A s \in sites : part[s] = sitePeriodEnergy(s, period, AsOf(midnight))
  PROVE  Sum(part) = Total({row \in daily : /\ row.day \in PeriodBucket(today, period)..today
                                            /\ SiteOf[row.dev] \in sites})
<1>. DEFINE start == PeriodBucket(today, period)
            some == {row \in daily : row.day \in start..today /\ SiteOf[row.dev] \in sites}
<1>1. some \in SUBSET daily /\ \A row \in some : SiteOf[row.dev] \in sites
  OBVIOUS
<1>2. ASSUME NEW s \in sites PROVE part[s] = Total({row \in some : SiteOf[row.dev] = s})
  <2>1. ListSiteDailyRollup(s, start, today) = {row \in some : SiteOf[row.dev] = s}
    BY DEF ListSiteDailyRollup
  <2>. QED
    BY <2>1, SitePeriod
<1>. HIDE DEF some
<1>3. Sum(part) = Total(some)
  BY <1>1, <1>2, BySite
<1>. QED
  BY <1>3 DEF some

(* CompareHistory compares the running period with the whole one before.   *)
LEMMA HistoryAgrees ==
  ASSUME ReportsInv, NEW s, NEW period, NEW midnight \in BOOLEAN, OnMidnight(period, midnight)
  PROVE  LET start == PeriodBucket(today, period)
             history == CompareHistory(s, period, AsOf(midnight))
         IN /\ history.current = sitePeriodEnergy(s, period, AsOf(midnight))
            /\ history.previous = Sum(SiteEnergy(s, "daily", start - Days(period), start - 1))
<1>. DEFINE start == PeriodBucket(today, period)
            before == start - Days(period)
            both == ListSiteDailyRollup(s, before, today)
            series == SiteEnergy(s, period, before, today)
            last == ListSiteDailyRollup(s, before, start - 1)
<1>1. SeriesOf(series, both, period) /\ SeriesOf(SiteEnergy(s, "daily", before, start - 1), last, "daily")
  BY SiteSeries
<1>2. /\ CompareHistory(s, period, AsOf(midnight)).current = At(series, start)
      /\ CompareHistory(s, period, AsOf(midnight)).previous = At(series, before)
  BY Starts DEF CompareHistory, PreviousStart, PointAt, FirstDay
<1>3. /\ At(series, start) = Total({row \in both : PeriodBucket(row.day, period) = start})
      /\ At(series, before) = Total({row \in both : PeriodBucket(row.day, period) = before})
  <2>. HIDE DEF series, both, start, before
  <2>. QED
    BY <1>1 DEF SeriesOf
<1>4. {row \in both : PeriodBucket(row.day, period) = start} = ListSiteDailyRollup(s, start, today)
  <2>1. ASSUME NEW row \in daily
        PROVE  row.day \in before..today /\ PeriodBucket(row.day, period) = start
                 <=> row.day \in start..today
    <3>1. /\ row.day \in start..today => PeriodBucket(row.day, period) = start
          /\ PeriodBucket(row.day, period) = start => row.day >= start
          /\ row.day \in Nat /\ today \in Nat /\ start \in Nat /\ before \in Int /\ before <= start
      BY PeriodRows, Lengths
    <3>. HIDE DEF start, before
    <3>. QED
      BY <3>1
  <2>. QED
    BY <2>1 DEF ListSiteDailyRollup
<1>5. {row \in both : PeriodBucket(row.day, period) = before} = last
  <2>1. ASSUME NEW row \in daily
        PROVE  row.day \in before..today /\ PeriodBucket(row.day, period) = before
                 <=> row.day \in before..(start - 1)
    <3>1. /\ PeriodBucket(row.day, period) = before <=> row.day \in before..(start - 1)
          /\ row.day \in Nat /\ today \in Nat /\ start \in Nat /\ before \in Int /\ start <= today
      BY PeriodRows, Lengths
    <3>. HIDE DEF start, before
    <3>. QED
      BY <3>1
  <2>. QED
    BY <2>1 DEF ListSiteDailyRollup
<1>6. Sum(SiteEnergy(s, "daily", before, start - 1)) = Total(last)
  <2>. HIDE DEF last, before, start
  <2>. QED
    BY <1>1 DEF SeriesOf
<1>. HIDE DEF series, both, last
<1>. QED
  BY <1>2, <1>3, <1>4, <1>5, <1>6, SitePeriod

(* CompareFleet and Trends report the fleet's energy of the running        *)
(* period.                                                                 *)
LEMMA FleetPeriod ==
  ASSUME ReportsInv, NEW period, NEW s \in Site, NEW midnight \in BOOLEAN, OnMidnight(period, midnight)
  PROVE  LET start == PeriodBucket(today, period)
             trends == Trends(period, start, today)
             fleet == FleetEnergy(Nil, period, start, today)
         IN /\ CompareFleet(s, period, AsOf(midnight)).total = Sum(fleet)
            /\ start \in DOMAIN trends => trends[start].energy = Sum(fleet)
<1>. DEFINE start == PeriodBucket(today, period)
            trends == Trends(period, start, today)
            fleet == FleetEnergy(Nil, period, start, today)
            all == ListFleetDailyRollup(Nil, start, today)
            value == [x \in Site |-> sitePeriodEnergy(x, period, AsOf(midnight))]
<1>1. SeriesOf(fleet, all, period) /\ all = {row \in daily : row.day \in start..today}
  BY FleetSeries DEF ListFleetDailyRollup
<1>2. Sum(fleet) = Total(all)
  <2>. HIDE DEF fleet, all
  <2>. QED
    BY <1>1 DEF SeriesOf
<1>3. Sum(value) = Total(all)
  <2>1. Sum(value) = Total({row \in daily : row.day \in start..today /\ SiteOf[row.dev] \in Site})
    <3>1. DOMAIN value = Site /\ \A x \in Site : value[x] = sitePeriodEnergy(x, period, AsOf(midnight))
      OBVIOUS
    <3>. HIDE DEF value
    <3>. QED
      BY <3>1, SitesPeriod
  <2>2. {row \in daily : row.day \in start..today /\ SiteOf[row.dev] \in Site} = all
    BY <1>1, SomeRows
  <2>. QED
    BY <2>1, <2>2
<1>4. CompareFleet(s, period, AsOf(midnight)).total = Sum(value)
  BY DEF CompareFleet
<1>5. start \in DOMAIN trends => trends[start].energy = Total(all)
  <2>1. start \in DOMAIN trends => start \in DOMAIN fleet /\ trends[start].energy = fleet[start]
    BY DEF Trends
  <2>2. start \in DOMAIN fleet => fleet[start] = Total({row \in all : PeriodBucket(row.day, period) = start})
    <3>. HIDE DEF fleet, all, start
    <3>. QED
      BY <1>1 DEF SeriesOf
  <2>3. {row \in all : PeriodBucket(row.day, period) = start} = all
    <3>1. \A row \in all : PeriodBucket(row.day, period) = start
      BY <1>1, PeriodRows
    <3>. QED
      BY <3>1
  <2>. QED
    BY <2>1, <2>2, <2>3
<1>. QED
  BY <1>2, <1>3, <1>4, <1>5

(* A segment reports its cohort's.                                         *)
LEMMA SegmentPeriod ==
  ASSUME ReportsInv, NEW period, NEW midnight \in BOOLEAN, OnMidnight(period, midnight),
         NEW c \in DOMAIN Segment(period, AsOf(midnight))
  PROVE  Segment(period, AsOf(midnight))[c] = Sum(FleetEnergy(c, "daily", PeriodBucket(today, period), today))
<1>. DEFINE start == PeriodBucket(today, period)
            sites == {s \in Site : CohortOf[s] = c}
            part == [site \in sites |-> sitePeriodEnergy(site, period, AsOf(midnight))]
            some == ListFleetDailyRollup(c, start, today)
<1>1. Segment(period, AsOf(midnight))[c] = Sum(part) /\ c # Nil
  BY DEF Segment
<1>2. Sum(part) = Total({row \in daily : row.day \in start..today /\ SiteOf[row.dev] \in sites})
  <2>1. DOMAIN part = sites /\ sites \in SUBSET Site
        /\ \A x \in sites : part[x] = sitePeriodEnergy(x, period, AsOf(midnight))
    OBVIOUS
  <2>. HIDE DEF part, sites
  <2>. QED
    BY <2>1, SitesPeriod
<1>3. some = {row \in daily : row.day \in start..today /\ SiteOf[row.dev] \in sites}
  <2>1. \A row \in daily : SiteOf[row.dev] \in Site
    BY SomeRows
  <2>. QED
    BY <1>1, <2>1 DEF ListFleetDailyRollup
<1>4. Sum(FleetEnergy(c, "daily", start, today)) = Total(some)
  <2>1. SeriesOf(FleetEnergy(c, "daily", start, today), some, "daily")
    BY FleetSeries
  <2>. HIDE DEF some, start
  <2>. QED
    BY <2>1 DEF SeriesOf
<1>. QED
  BY <1>1, <1>2, <1>3, <1>4

(* No site is above the one TopSitesToday puts first.                      *)
LEMMA BestOfToday ==
  ASSUME ReportsInv, NEW midnight \in BOOLEAN, OnMidnight("daily", midnight),
         NEW best \in TopSitesToday(1), NEW s \in Site, s \in best
  PROVE  CompareFleet(s, "daily", AsOf(midnight)).belowOrEqual = Cardinality(Site)
<1>. DEFINE value == [x \in Site |-> sitePeriodEnergy(x, "daily", AsOf(midnight))]
            kwh(x) == At(SiteEnergy(x, "daily", today, today), today)
<1>1. today \in Nat \ {0}
  BY Givens DEF ReportsInv, ReportsTypeOK
<1>2. \A x \in Site : value[x] = kwh(x)
  BY <1>1, BucketOfDay, Starts DEF sitePeriodEnergy, PointAt, FirstDay
<1>3. \A x \in Site : value[x] \in Nat
  <2>. SUFFICES ASSUME NEW x \in Site PROVE sitePeriodEnergy(x, "daily", AsOf(midnight)) \in Nat
    OBVIOUS
  <2>. QED
    BY SitePeriod, SiteSeries, TotalNat
<1>4. /\ best \in SUBSET Site /\ \A a \in best, b \in Site \ best : kwh(a) >= kwh(b)
      /\ Cardinality(best) = IF Cardinality(Site) < 1 THEN Cardinality(Site) ELSE 1
  BY DEF TopSitesToday
<1>5. Cardinality(best) <= 1 /\ IsFiniteSet(best)
  <2>1. IsFiniteSet(best) /\ Cardinality(Site) \in Nat
    BY <1>4, Givens, FS_Subset, FS_CardinalityType
  <2>. QED
    BY <1>4, <2>1
<1>6. best = {s}
  <2>. SUFFICES ASSUME NEW x \in best, x # s PROVE FALSE
    OBVIOUS
  <2>1. Cardinality(best \ {s}) = Cardinality(best) - 1 /\ Cardinality(best) \in Nat
    BY <1>5, Sizes
  <2>2. IsFiniteSet(best \ {s}) /\ best \ {s} # {}
    BY <1>5, FS_Subset
  <2>3. Cardinality(best \ {s}) \in Nat /\ Cardinality(best \ {s}) # 0
    BY <2>2, Sizes
  <2>. QED
    BY <1>5, <2>1, <2>3
<1>7. \A x \in Site : value[x] <= value[s]
  <2>. SUFFICES ASSUME NEW x \in Site PROVE value[x] <= value[s]
    OBVIOUS
  <2>1. CASE x = s
    BY <1>3, <2>1
  <2>2. CASE x # s
    <3>1. kwh(s) >= kwh(x)
      BY <1>4, <1>6, <2>2
    <3>2. value[s] = kwh(s) /\ value[x] = kwh(x) /\ value[s] \in Nat /\ value[x] \in Nat
      BY <1>2, <1>3
    <3>. HIDE DEF value, kwh
    <3>. QED
      BY <3>1, <3>2
  <2>. QED
    BY <2>1, <2>2
<1>8. {x \in Site : value[x] <= value[s]} = Site
  BY <1>7
<1>9. CompareFleet(s, "daily", AsOf(midnight)).belowOrEqual = Cardinality({x \in Site : value[x] <= value[s]})
  BY DEF CompareFleet
<1>. QED
  BY <1>8, <1>9

(* The comparisons agree.                                                  *)
LEMMA ComparisonsDoAgree == ReportsInv => ComparisonsAgree
<1>. SUFFICES ASSUME ReportsInv, NEW period \in Period, NEW midnight \in BOOLEAN, OnMidnight(period, midnight)
     PROVE  LET start == PeriodBucket(today, period)
                asOf == AsOf(midnight)
                compared == [s \in Site |-> CompareFleet(s, period, asOf)]
                segments == Segment(period, asOf)
                trends == Trends(period, start, today)
            IN /\ \A s \in Site :
                    LET history == CompareHistory(s, period, asOf)
                    IN /\ history.current = compared[s].energy
                       /\ history.previous = Sum(SiteEnergy(s, "daily", start - Days(period), start - 1))
                       /\ compared[s].total = Sum(FleetEnergy(Nil, period, start, today))
                       /\ start \in DOMAIN trends => trends[start].energy = compared[s].total
               /\ \A c \in DOMAIN segments :
                    segments[c] = Sum(FleetEnergy(c, "daily", start, today))
               /\ period = "daily" => \A s \in UNION TopSitesToday(1) :
                    compared[s].belowOrEqual = Cardinality(Site)
  BY DEF ComparisonsAgree, OnMidnight
<1>. DEFINE start == PeriodBucket(today, period)
            asOf == AsOf(midnight)
            compared == [s \in Site |-> CompareFleet(s, period, asOf)]
            trends == Trends(period, start, today)
<1>1. \A s \in Site : compared[s] = CompareFleet(s, period, asOf)
  OBVIOUS
<1>2. ASSUME NEW s \in Site
      PROVE  /\ CompareHistory(s, period, asOf).current = CompareFleet(s, period, asOf).energy
             /\ CompareHistory(s, period, asOf).previous
                  = Sum(SiteEnergy(s, "daily", start - Days(period), start - 1))
  <2>1. CompareFleet(s, period, asOf).energy = sitePeriodEnergy(s, period, asOf)
    BY DEF CompareFleet
  <2>. QED
    BY <2>1, HistoryAgrees
<1>3. ASSUME NEW s \in Site
      PROVE  /\ CompareFleet(s, period, asOf).total = Sum(FleetEnergy(Nil, period, start, today))
             /\ start \in DOMAIN trends => trends[start].energy = CompareFleet(s, period, asOf).total
  BY FleetPeriod
<1>4. \A c \in DOMAIN Segment(period, asOf) :
        Segment(period, asOf)[c] = Sum(FleetEnergy(c, "daily", start, today))
  BY SegmentPeriod
<1>5. ASSUME period = "daily", NEW s \in UNION TopSitesToday(1)
      PROVE  s \in Site /\ CompareFleet(s, period, asOf).belowOrEqual = Cardinality(Site)
  <2>1. PICK best \in TopSitesToday(1) : s \in best
    OBVIOUS
  <2>2. s \in Site
    BY <2>1 DEF TopSitesToday
  <2>. QED
    BY <1>5, <2>1, <2>2, BestOfToday
<1>. HIDE DEF start, asOf, compared, trends
<1>6. \A s \in Site :
        /\ CompareHistory(s, period, asOf).current = compared[s].energy
        /\ CompareHistory(s, period, asOf).previous
             = Sum(SiteEnergy(s, "daily", start - Days(period), start - 1))
        /\ compared[s].total = Sum(FleetEnergy(Nil, period, start, today))
        /\ start \in DOMAIN trends => trends[start].energy = compared[s].total
  BY <1>1, <1>2, <1>3
<1>7. period = "daily" => \A s \in UNION TopSitesToday(1) : compared[s].belowOrEqual = Cardinality(Site)
  BY <1>1, <1>5
<1>. QED
  BY <1>4, <1>6, <1>7 DEF start, asOf, compared, trends

(* Of some factors one is the last to take effect, and one the first.      *)
LEMMA FactorOrder ==
  ASSUME ReportsInv, NEW f \in factors, NEW g \in factors
  PROVE  /\ f.from \in Nat /\ f.id \in Nat /\ f.kg \in Nat
         /\ f # g => After(f, g) \/ After(g, f)
         /\ \A h \in factors : After(f, g) /\ After(g, h) => After(f, h)
<1>1. \A x \in factors : x.from \in Nat /\ x.id \in Nat /\ x.kg \in Nat
  BY Givens DEF ReportsInv, ReportsTypeOK, EmissionFactor
<1>2. f # g => f.id # g.id
  BY DEF ReportsInv, FactorIds
<1>3. f # g => After(f, g) \/ After(g, f)
  BY <1>1, <1>2 DEF After
<1>4. \A h \in factors : After(f, g) /\ After(g, h) => After(f, h)
  BY <1>1 DEF After
<1>. QED
  BY <1>1, <1>3, <1>4

(* LastOf and FirstOf are factors.                                         *)
LEMMA FactorThere ==
  ASSUME ReportsInv, NEW some \in SUBSET factors, some # {}
  PROVE  LastOf(some) \in some /\ FirstOf(some) \in some
<1>. DEFINE Ends(T) == /\ \E f \in T : \A other \in T \ {f} : After(f, other)
                       /\ \E f \in T : \A other \in T \ {f} : After(other, f)
            P == {T \in SUBSET some : T # {} => Ends(T)}
<1>1. {} \in P
  OBVIOUS
<1>2. ASSUME NEW T \in SUBSET some, NEW x \in some \ T, T \in P
      PROVE  T \cup {x} \in P
  <2>1. CASE T = {}
    <3>1. \A other \in (T \cup {x}) \ {x} : FALSE
      BY <2>1
    <3>2. Ends(T \cup {x})
      BY <3>1
    <3>. QED
      BY <3>2
  <2>2. CASE T # {}
    <3>1. PICK f \in T : \A other \in T \ {f} : After(f, other)
      BY <1>2, <2>2
    <3>2. PICK g \in T : \A other \in T \ {g} : After(other, g)
      BY <1>2, <2>2
    <3>3. x \in factors /\ T \subseteq factors /\ x # f /\ x # g
      OBVIOUS
    <3>4. \E h \in T \cup {x} : \A other \in (T \cup {x}) \ {h} : After(h, other)
      <4>1. CASE After(x, f)
        <5>1. \A other \in (T \cup {x}) \ {x} : After(x, other)
          BY <3>1, <3>3, <4>1, FactorOrder
        <5>. QED
          BY <5>1
      <4>2. CASE After(f, x)
        <5>1. \A other \in (T \cup {x}) \ {f} : After(f, other)
          BY <3>1, <4>2
        <5>. QED
          BY <5>1
      <4>. QED
        BY <3>3, <4>1, <4>2, FactorOrder
    <3>5. \E h \in T \cup {x} : \A other \in (T \cup {x}) \ {h} : After(other, h)
      <4>1. CASE After(g, x)
        <5>1. \A other \in (T \cup {x}) \ {x} : After(other, x)
          BY <3>2, <3>3, <4>1, FactorOrder
        <5>. QED
          BY <5>1
      <4>2. CASE After(x, g)
        <5>1. \A other \in (T \cup {x}) \ {g} : After(other, g)
          BY <3>2, <4>2
        <5>. QED
          BY <5>1
      <4>. QED
        BY <3>3, <4>1, <4>2, FactorOrder
    <3>. QED
      BY <3>4, <3>5
  <2>. QED
    BY <2>1, <2>2
<1>3. IsFiniteSet(some)
  BY FS_Subset DEF ReportsInv, ReportsTypeOK
<1>4. some \in P
  <2>1. SUBSET some \subseteq P
    <3>. HIDE DEF P
    <3>. QED
      BY <1>1, <1>2, <1>3, AllSubsets
  <2>. QED
    BY <2>1
<1>5. Ends(some)
  BY <1>4
<1>. QED
  BY <1>5 DEF LastOf, FirstOf

(* A country with a current factor has one for any time.                   *)
LEMMA FactorIs ==
  ASSUME ReportsInv, NEW c, Current(c) # Nil, NEW p
  PROVE  factorAsOf(c, p).kg \in Nat
<1>. DEFINE effective == {f \in FactorsOf(c) : f.from <= p}
<1>1. FactorsOf(c) # {} /\ FactorsOf(c) \in SUBSET factors
  BY DEF Current, FactorsOf
<1>2. effective \in SUBSET factors
  BY <1>1
<1>3. factorAsOf(c, p) = IF effective = {} THEN FirstOf(FactorsOf(c)) ELSE LastOf(effective)
  BY DEF factorAsOf
<1>. HIDE DEF effective
<1>4. factorAsOf(c, p) \in factors
  BY <1>1, <1>2, <1>3, FactorThere
<1>. QED
  BY <1>4, FactorOrder

(* The emissions a row avoids: of its own country, with the factor of its  *)
(* period.                                                                 *)
CountryOfRow(row) == CountryOf[SiteOf[row.dev]]

Avoided(period) ==
  [row \in {x \in daily : Current(CountryOfRow(x)) # Nil} |->
     factorAsOf(CountryOfRow(row), PeriodBucket(row.day, period)).kg * row.energy]

(* It is a number, of any rows.                                            *)
LEMMA AvoidedIs ==
  ASSUME ReportsInv, NEW period, NEW some \in SUBSET {x \in daily : Current(CountryOfRow(x)) # Nil}
  PROVE  /\ IsFiniteSet(some) /\ some \in SUBSET daily
         /\ \A row \in some :
              /\ Avoided(period)[row]
                   = factorAsOf(CountryOfRow(row), PeriodBucket(row.day, period)).kg * rowEnergy[row]
              /\ Avoided(period)[row] \in Int
<1>1. some \in SUBSET daily
  OBVIOUS
<1>2. \A row \in some : row.energy \in Nat /\ rowEnergy[row] = row.energy
  BY <1>1, SomeRows
<1>3. \A row \in some : factorAsOf(CountryOfRow(row), PeriodBucket(row.day, period)).kg \in Nat
  BY FactorIs
<1>4. \A row \in some : Avoided(period)[row]
        = factorAsOf(CountryOfRow(row), PeriodBucket(row.day, period)).kg * row.energy
  BY DEF Avoided
<1>5. \A row \in some : Avoided(period)[row] \in Int
  <2>. SUFFICES ASSUME NEW row \in some PROVE Avoided(period)[row] \in Int
    OBVIOUS
  <2>1. \A a, b \in Nat : a * b \in Int
    OBVIOUS
  <2>. QED
    BY <1>2, <1>3, <1>4, <2>1
<1>. QED
  BY <1>1, <1>2, <1>4, <1>5, SomeRows

(* The emissions of a series are those of its rows.                        *)
LEMMA SeriesAvoids ==
  ASSUME ReportsInv, NEW period, NEW c, Current(c) # Nil, NEW some \in SUBSET daily,
         \A row \in some : CountryOfRow(row) = c, NEW series, SeriesOf(series, some, period)
  PROVE  /\ DOMAIN toSeries(c, series) = DOMAIN series
         /\ \A p : At(toSeries(c, series), p)
                     = SumOver({row \in some : PeriodBucket(row.day, period) = p}, Avoided(period))
         /\ Sum(toSeries(c, series)) = SumOver(some, Avoided(period))
<1>. DEFINE kg == toSeries(c, series)
            of(p) == {row \in some : PeriodBucket(row.day, period) = p}
            weight == Avoided(period)
            key == [row \in some |-> PeriodBucket(row.day, period)]
<1>1. kg = [p \in DOMAIN series |-> series[p] * factorAsOf(c, p).kg]
  BY DEF toSeries
<1>2. some \in SUBSET {x \in daily : Current(CountryOfRow(x)) # Nil}
  OBVIOUS
<1>3. IsFiniteSet(some) /\ \A row \in some : weight[row] \in Int
  BY <1>2, AvoidedIs
<1>4. ASSUME NEW p \in DOMAIN series PROVE kg[p] = SumOver(of(p), weight)
  <2>. DEFINE k == factorAsOf(c, p).kg
  <2>1. k \in Nat /\ series[p] \in Nat
    BY FactorIs DEF SeriesOf
  <2>2. of(p) \in SUBSET {x \in daily : Current(CountryOfRow(x)) # Nil} /\ IsFiniteSet(of(p))
    BY <1>2, <1>3, FS_Subset
  <2>3. \A row \in of(p) : rowEnergy[row] \in Int /\ weight[row] = k * rowEnergy[row]
    <3>1. \A row \in of(p) : CountryOfRow(row) = c /\ PeriodBucket(row.day, period) = p
      OBVIOUS
    <3>2. \A row \in of(p) : row.energy \in Nat /\ rowEnergy[row] = row.energy
      BY SomeRows
    <3>. HIDE DEF of, weight
    <3>3. \A row \in of(p) : Avoided(period)[row]
            = factorAsOf(CountryOfRow(row), PeriodBucket(row.day, period)).kg * rowEnergy[row]
      BY <2>2, AvoidedIs
    <3>. QED
      BY <3>1, <3>2, <3>3 DEF weight
  <2>4. SumOver(of(p), weight) = k * SumOver(of(p), rowEnergy)
    <3>. HIDE DEF of, weight, k
    <3>. QED
      BY <2>1, <2>2, <2>3, SumTimes
  <2>5. series[p] = SumOver(of(p), rowEnergy)
    BY DEF SeriesOf, Total
  <2>6. kg[p] = series[p] * k
    BY <1>1
  <2>. HIDE DEF of, weight, k, kg
  <2>. QED
    BY <2>1, <2>4, <2>5, <2>6
<1>5. DOMAIN kg = DOMAIN series
  BY <1>1
<1>6. \A p : At(kg, p) = SumOver(of(p), weight)
  <2>. SUFFICES ASSUME NEW p, p \notin DOMAIN series PROVE SumOver(of(p), weight) = 0
    BY <1>4, <1>5 DEF At
  <2>1. of(p) = {}
    BY DEF SeriesOf
  <2>. QED
    BY <2>1, SumEmpty
<1>7. Sum(kg) = SumOver(some, weight)
  <2>1. key \in [some -> DOMAIN kg] /\ IsFiniteSet(DOMAIN kg)
    BY <1>5 DEF SeriesOf
  <2>2. \A p \in DOMAIN kg : kg[p] = SumOver({row \in some : key[row] = p}, weight)
    <3>1. \A p : {row \in some : key[row] = p} = of(p)
      OBVIOUS
    <3>. HIDE DEF kg, key, weight, of
    <3>. QED
      BY <1>4, <1>5, <3>1
  <2>. HIDE DEF kg, key, weight
  <2>. QED
    BY <1>3, <2>1, <2>2, SumGroups DEF Sum
<1>. QED
  BY <1>5, <1>6, <1>7

(* The rows of the fleet whose country has a factor.                       *)
Configured(from, to) ==
  {row \in daily : row.day \in from..to /\ Current(CountryOfRow(row)) # Nil}

(* They are finitely many.                                                 *)
LEMMA ConfiguredRows ==
  ASSUME ReportsInv, NEW from, NEW to, NEW period
  PROVE  /\ Configured(from, to) \in SUBSET {x \in daily : Current(CountryOfRow(x)) # Nil}
         /\ IsFiniteSet(Configured(from, to))
         /\ \A row \in Configured(from, to) :
              /\ SiteOf[row.dev] \in Site
              /\ Avoided(period)[row] \in Int
<1>1. Configured(from, to) \in SUBSET {x \in daily : Current(CountryOfRow(x)) # Nil}
  BY DEF Configured
<1>2. \A row \in Configured(from, to) : SiteOf[row.dev] \in Site
  BY <1>1, SomeRows
<1>. QED
  BY <1>1, <1>2, AvoidedIs

(* The sites of such countries avoid together what these rows do, ...      *)
LEMMA SitesAvoid ==
  ASSUME ReportsInv, NEW from, NEW to, NEW period,
         NEW site, DOMAIN site = {x \in Site : Current(CountryOf[x]) # Nil},
         \A s \in DOMAIN site : site[s] = SiteEmissions(s, period, from, to)
  PROVE  Sum([s \in DOMAIN site |-> Sum(site[s])]) = SumOver(Configured(from, to), Avoided(period))
<1>. DEFINE all == Configured(from, to)
            part == [s \in DOMAIN site |-> Sum(site[s])]
            key == [row \in all |-> SiteOf[row.dev]]
            weight == Avoided(period)
<1>1. key \in [all -> DOMAIN site]
  <2>1. \A row \in all : SiteOf[row.dev] \in Site /\ Current(CountryOf[SiteOf[row.dev]]) # Nil
    BY ConfiguredRows DEF CountryOfRow
  <2>. QED
    BY <2>1
<1>2. ASSUME NEW s \in DOMAIN site PROVE part[s] = SumOver({row \in all : key[row] = s}, weight)
  <2>. DEFINE mine == ListSiteDailyRollup(s, from, to)
              series == SiteEnergy(s, period, from, to)
  <2>1. Current(CountryOf[s]) # Nil /\ site[s] = toSeries(CountryOf[s], series)
    BY DEF SiteEmissions
  <2>2. SeriesOf(series, mine, period) /\ mine \in SUBSET daily
    BY SiteSeries
  <2>3. \A row \in mine : CountryOfRow(row) = CountryOf[s]
    BY DEF ListSiteDailyRollup, CountryOfRow
  <2>4. Sum(toSeries(CountryOf[s], series)) = SumOver(mine, weight)
    <3>. HIDE DEF mine, series, weight
    <3>. QED
      BY <2>1, <2>2, <2>3, SeriesAvoids DEF weight
  <2>5. mine = {row \in all : key[row] = s}
    BY <2>1 DEF ListSiteDailyRollup, Configured, CountryOfRow
  <2>. HIDE DEF mine, series, weight
  <2>. QED
    BY <2>1, <2>4, <2>5
<1>3. IsFiniteSet(DOMAIN site)
  BY Givens, FS_Subset
<1>4. DOMAIN part = DOMAIN site /\ IsFiniteSet(all) /\ \A row \in all : weight[row] \in Int
  BY ConfiguredRows
<1>5. SumOver(all, weight) = SumOver(DOMAIN site, part)
  <2>. HIDE DEF all, part, key, weight
  <2>. QED
    BY <1>1, <1>2, <1>3, <1>4, SumGroups
<1>. QED
  BY <1>4, <1>5 DEF Sum

(* ... and so does the fleet, by country.                                  *)
LEMMA FleetAvoids ==
  ASSUME ReportsInv, NEW from, NEW to, NEW period, FleetEmissions(Nil, period, from, to) # Nil
  PROVE  Sum(FleetEmissions(Nil, period, from, to)) = SumOver(Configured(from, to), Avoided(period))
<1>. DEFINE found == ListFleetDailyRollup(Nil, from, to)
            byCountry == FleetEnergyByCountry(Nil, period, from, to)
            configured == {c \in DOMAIN byCountry : Current(c) # Nil}
            series == [c \in configured |-> toSeries(c, byCountry[c])]
            kg == [p \in UNION {DOMAIN series[c] : c \in configured} |->
                     Sum([c \in configured |-> At(series[c], p)])]
            all == Configured(from, to)
            weight == Avoided(period)
            of(p) == {row \in all : PeriodBucket(row.day, period) = p}
            ofCountry(c) == {row \in found : CountryOfRow(row) = c}
<1>1. FleetEmissions(Nil, period, from, to) = kg
  BY DEF FleetEmissions
<1>2. CountriesOf(byCountry, found, period) /\ found \in SUBSET daily
  BY CountrySeries, FleetSeries
<1>3. found = {row \in daily : row.day \in from..to}
  BY DEF ListFleetDailyRollup
<1>4. /\ IsFiniteSet(all) /\ (\A row \in all : weight[row] \in Int)
      /\ all = {row \in found : Current(CountryOfRow(row)) # Nil}
  BY <1>3, ConfiguredRows DEF Configured
<1>5. \A row \in all : CountryOfRow(row) \in configured
  <2>1. DOMAIN byCountry = {CountryOfRow(row) : row \in found}
    <3>. HIDE DEF byCountry, found
    <3>. QED
      BY <1>2 DEF CountriesOf, CountryOfRow
  <2>. HIDE DEF byCountry, found, all
  <2>. QED
    BY <1>4, <2>1
<1>6. IsFiniteSet(configured)
  <2>1. IsFiniteSet(DOMAIN byCountry)
    <3>. HIDE DEF byCountry, found
    <3>. QED
      BY <1>2 DEF CountriesOf
  <2>. QED
    BY <2>1, FS_Subset
<1>7. ASSUME NEW c \in configured
      PROVE  /\ DOMAIN series[c] = {PeriodBucket(row.day, period) : row \in ofCountry(c)}
             /\ \A p : At(series[c], p)
                         = SumOver({row \in of(p) : CountryOfRow(row) = c}, weight)
  <2>1. SeriesOf(byCountry[c], ofCountry(c), period)
    <3>1. c \in DOMAIN byCountry
      OBVIOUS
    <3>. HIDE DEF byCountry, found
    <3>. QED
      BY <1>2, <3>1 DEF CountriesOf, CountryOfRow
  <2>2. ofCountry(c) \in SUBSET daily /\ (\A row \in ofCountry(c) : CountryOfRow(row) = c) /\ Current(c) # Nil
    BY <1>2
  <2>3. series[c] = toSeries(c, byCountry[c])
    OBVIOUS
  <2>4. /\ DOMAIN toSeries(c, byCountry[c]) = DOMAIN byCountry[c]
        /\ \A p : At(toSeries(c, byCountry[c]), p)
                    = SumOver({row \in ofCountry(c) : PeriodBucket(row.day, period) = p}, weight)
    <3>. HIDE DEF byCountry, ofCountry, weight
    <3>. QED
      BY <2>1, <2>2, SeriesAvoids DEF weight
  <2>5. DOMAIN byCountry[c] = {PeriodBucket(row.day, period) : row \in ofCountry(c)}
    <3>. HIDE DEF byCountry, ofCountry
    <3>. QED
      BY <2>1 DEF SeriesOf
  <2>6. ASSUME NEW p
        PROVE  {row \in ofCountry(c) : PeriodBucket(row.day, period) = p} = {row \in of(p) : CountryOfRow(row) = c}
    <3>. HIDE DEF found, all
    <3>. QED
      BY <1>4, <2>2
  <2>. HIDE DEF byCountry, ofCountry, weight, of, series
  <2>. QED
    BY <2>3, <2>4, <2>5, <2>6
<1>8. ASSUME NEW p
      PROVE  Sum([c \in configured |-> At(series[c], p)]) = SumOver(of(p), weight)
  <2>. DEFINE part == [c \in configured |-> At(series[c], p)]
              key == [row \in of(p) |-> CountryOfRow(row)]
  <2>1. key \in [of(p) -> configured]
    BY <1>5
  <2>2. \A c \in configured : part[c] = SumOver({row \in of(p) : key[row] = c}, weight)
    <3>. SUFFICES ASSUME NEW c \in configured PROVE part[c] = SumOver({row \in of(p) : key[row] = c}, weight)
      OBVIOUS
    <3>1. {row \in of(p) : key[row] = c} = {row \in of(p) : CountryOfRow(row) = c}
      OBVIOUS
    <3>2. part[c] = At(series[c], p)
      OBVIOUS
    <3>. HIDE DEF part, series, of, weight, configured, key
    <3>. QED
      BY <1>7, <3>1, <3>2
  <2>3. IsFiniteSet(of(p)) /\ \A row \in of(p) : weight[row] \in Int
    BY <1>4, FS_Subset
  <2>4. SumOver(of(p), weight) = SumOver(configured, part)
    <3>. HIDE DEF part, key, of, weight, configured
    <3>. QED
      BY <1>6, <2>1, <2>2, <2>3, SumGroups
  <2>5. DOMAIN part = configured
    OBVIOUS
  <2>. HIDE DEF of, weight
  <2>. QED
    BY <2>4, <2>5 DEF Sum
<1>9. DOMAIN kg = {PeriodBucket(row.day, period) : row \in all}
  <2>1. DOMAIN kg = UNION {DOMAIN series[c] : c \in configured}
    OBVIOUS
  <2>2. ASSUME NEW row \in all PROVE PeriodBucket(row.day, period) \in DOMAIN kg
    <3>1. CountryOfRow(row) \in configured /\ row \in ofCountry(CountryOfRow(row))
      BY <1>4, <1>5
    <3>2. PeriodBucket(row.day, period) \in DOMAIN series[CountryOfRow(row)]
      <4>. HIDE DEF configured, series
      <4>. QED
        BY <1>7, <3>1
    <3>. HIDE DEF kg, series, configured
    <3>. QED
      BY <2>1, <3>1, <3>2
  <2>3. ASSUME NEW p \in DOMAIN kg PROVE p \in {PeriodBucket(row.day, period) : row \in all}
    <3>1. PICK c \in configured : p \in DOMAIN series[c]
      BY <2>1
    <3>2. PICK row \in ofCountry(c) : p = PeriodBucket(row.day, period)
      <4>. HIDE DEF configured, series
      <4>. QED
        BY <1>7, <3>1
    <3>3. row \in all
      BY <1>4, <3>1, <3>2
    <3>. QED
      BY <3>2, <3>3
  <2>. HIDE DEF kg, all
  <2>. QED
    BY <2>2, <2>3
<1>10. \A p \in DOMAIN kg : kg[p] = SumOver(of(p), weight)
  <2>1. \A p \in DOMAIN kg : kg[p] = Sum([c \in configured |-> At(series[c], p)])
    OBVIOUS
  <2>. HIDE DEF kg, of, weight, series, configured
  <2>. QED
    BY <1>8, <2>1
<1>11. Sum(kg) = SumOver(all, weight)
  <2>. DEFINE key == [row \in all |-> PeriodBucket(row.day, period)]
  <2>1. key \in [all -> DOMAIN kg] /\ DOMAIN kg = {key[row] : row \in all}
    <3>. HIDE DEF kg, all
    <3>. QED
      BY <1>9
  <2>2. IsFiniteSet(DOMAIN kg)
    <3>1. IsFiniteSet({key[row] : row \in all})
      <4>. HIDE DEF key, all
      <4>. QED
        BY <1>4, ImageFinite
    <3>. HIDE DEF key, all, kg
    <3>. QED
      BY <2>1, <3>1
  <2>3. \A p \in DOMAIN kg : kg[p] = SumOver({row \in all : key[row] = p}, weight)
    <3>1. \A p : {row \in all : key[row] = p} = of(p)
      OBVIOUS
    <3>. HIDE DEF kg, key, weight, of
    <3>. QED
      BY <1>10, <3>1
  <2>. HIDE DEF kg, key, weight, all
  <2>. QED
    BY <1>4, <2>1, <2>2, <2>3, SumGroups DEF Sum
<1>. HIDE DEF kg, all, weight
<1>. QED
  BY <1>1, <1>11 DEF all, weight

(* A performance ratio is of two numbers.                                  *)
LEMMA RatioPoints ==
  ASSUME ReportsInv, NEW s \in Usable, NEW period, NEW from, NEW to,
         NEW p \in DOMAIN SitePerformanceRatio(s, period, from, to)
  PROVE  /\ SitePerformanceRatio(s, period, from, to)[p].energy \in Int
         /\ SitePerformanceRatio(s, period, from, to)[p].expected \in Int
<1>. DEFINE days == SiteEnergy(s, "daily", from, to)
            sunny == {day \in DOMAIN days : Irradiance[s][day] > 0}
            of(q) == {day \in sunny : PeriodBucket(day, period) = q}
            f == [day \in of(p) |-> Irradiance[s][day] * SizeOf[s]]
<1>1. s \in Site /\ SizeOf[s] \in Nat /\ Irradiance[s] \in [Day -> Nat]
  BY Givens DEF Usable
<1>2. SitePerformanceRatio(s, period, from, to) =
        [q \in {PeriodBucket(day, period) : day \in sunny} |->
           [energy |-> SumOver(of(q), days),
            expected |-> Sum([day \in of(q) |-> Irradiance[s][day] * SizeOf[s]])]]
  BY DEF SitePerformanceRatio, bucketPerformanceRatio
<1>3. /\ IsFiniteSet(DOMAIN days) /\ DOMAIN days \subseteq Day
      /\ \A day \in DOMAIN days : days[day] \in Nat
  <2>. DEFINE mine == ListSiteDailyRollup(s, from, to)
  <2>1. SeriesOf(days, mine, "daily") /\ mine \in SUBSET daily
    BY SiteSeries
  <2>2. \A row \in mine : PeriodBucket(row.day, "daily") \in Day
    <3>1. \A row \in mine : row.day \in Day /\ row.day \in Nat \ {0}
      BY <2>1, SomeRows
    <3>. HIDE DEF mine
    <3>. QED
      BY <3>1, BucketOfDay
  <2>. HIDE DEF mine, days
  <2>. QED
    BY <2>1, <2>2 DEF SeriesOf
<1>4. of(p) \subseteq DOMAIN days /\ IsFiniteSet(of(p))
  BY <1>3, FS_Subset
<1>5. SumOver(of(p), days) \in Int
  <2>1. \A day \in of(p) : days[day] \in Int
    BY <1>3, <1>4
  <2>. HIDE DEF of, days
  <2>. QED
    BY <1>4, <2>1, SumRemove
<1>6. Sum(f) \in Int
  <2>1. \A day \in of(p) : f[day] \in Int
    <3>1. \A day \in of(p) : Irradiance[s][day] \in Nat /\ f[day] = Irradiance[s][day] * SizeOf[s]
      BY <1>1, <1>3, <1>4
    <3>2. \A a, b \in Nat : a * b \in Int
      OBVIOUS
    <3>. HIDE DEF of, f
    <3>. QED
      BY <1>1, <3>1, <3>2
  <2>2. DOMAIN f = of(p)
    OBVIOUS
  <2>. HIDE DEF of, f
  <2>. QED
    BY <1>4, <2>1, <2>2, SumRemove DEF Sum
<1>7. /\ SitePerformanceRatio(s, period, from, to)[p].energy = SumOver(of(p), days)
      /\ SitePerformanceRatio(s, period, from, to)[p].expected = Sum(f)
  BY <1>2
<1>. QED
  BY <1>5, <1>6, <1>7

(* The fleet's performance ratio lies between those of two of its sites,   *)
(* as a mediant does.                                                      *)
LEMMA FleetPerforms ==
  ASSUME ReportsInv, NEW period, NEW from, NEW to, FleetPerformanceRatio(Nil, period, from, to) # Nil,
         NEW ratio, ratio = [s \in Usable |-> SitePerformanceRatio(s, period, from, to)],
         NEW p \in DOMAIN FleetPerformanceRatio(Nil, period, from, to)
  PROVE  LET fleet == FleetPerformanceRatio(Nil, period, from, to)
         IN \E low, high \in {s \in Usable : p \in DOMAIN ratio[s]} :
              /\ ratio[low][p].energy * fleet[p].expected <= fleet[p].energy * ratio[low][p].expected
              /\ ratio[high][p].energy * fleet[p].expected >= fleet[p].energy * ratio[high][p].expected
<1>. DEFINE with(q) == {s \in Usable : q \in DOMAIN ratio[s]}
            e == [s \in with(p) |-> ratio[s][p].energy]
            w == [s \in with(p) |-> ratio[s][p].expected]
            fleet == FleetPerformanceRatio(Nil, period, from, to)
<1>1. fleet = [q \in UNION {DOMAIN ratio[s] : s \in Usable} |->
                 [energy |-> Sum([s \in with(q) |-> ratio[s][q].energy]),
                  expected |-> Sum([s \in with(q) |-> ratio[s][q].expected])]]
  <2>1. {s \in Usable : Nil = Nil \/ CohortOf[s] = Nil} = Usable
    OBVIOUS
  <2>. QED
    BY <2>1 DEF FleetPerformanceRatio
<1>2. fleet[p].energy = Sum(e) /\ fleet[p].expected = Sum(w) /\ with(p) # {}
  BY <1>1
<1>3. IsFiniteSet(with(p))
  <2>1. with(p) \subseteq Site
    BY Givens DEF Usable
  <2>. QED
    BY <2>1, Givens, FS_Subset
<1>4. \A s \in with(p) : e[s] \in Int /\ w[s] \in Int
  <2>1. \A s \in with(p) : /\ s \in Usable /\ p \in DOMAIN SitePerformanceRatio(s, period, from, to)
                           /\ ratio[s] = SitePerformanceRatio(s, period, from, to)
    OBVIOUS
  <2>2. \A s \in with(p) : ratio[s][p].energy \in Int /\ ratio[s][p].expected \in Int
    <3>. HIDE DEF with
    <3>. QED
      BY <2>1, RatioPoints
  <2>. QED
    BY <2>2
<1>5. Sum(e) = SumOver(with(p), e) /\ Sum(w) = SumOver(with(p), w)
  BY DEF Sum
<1>6. \E low, high \in with(p) : /\ e[low] * SumOver(with(p), w) <= SumOver(with(p), e) * w[low]
                                /\ e[high] * SumOver(with(p), w) >= SumOver(with(p), e) * w[high]
  <2>. HIDE DEF with, e, w
  <2>. QED
    BY <1>2, <1>3, <1>4, Mediant
<1>7. \A s \in with(p) : e[s] = ratio[s][p].energy /\ w[s] = ratio[s][p].expected
  OBVIOUS
<1>8. \E low, high \in with(p) :
        /\ ratio[low][p].energy * fleet[p].expected <= fleet[p].energy * ratio[low][p].expected
        /\ ratio[high][p].energy * fleet[p].expected >= fleet[p].energy * ratio[high][p].expected
  <2>. HIDE DEF with, e, w, fleet
  <2>. QED
    BY <1>2, <1>5, <1>6, <1>7
<1>. QED
  BY <1>8

(* The fleet is its sites.                                                 *)
LEMMA FleetIsSites == ReportsInv => FleetIsItsSites
<1>. SUFFICES ASSUME ReportsInv, NEW range \in Ranges, NEW period \in Period
              PROVE  LET from == range[1]
                         to == range[2]
                         kg == FleetEmissions(Nil, period, from, to)
                         site == [s \in {x \in Site : Current(CountryOf[x]) # Nil} |->
                                    SiteEmissions(s, period, from, to)]
                         ratio == [s \in Usable |-> SitePerformanceRatio(s, period, from, to)]
                         fleet == FleetPerformanceRatio(Nil, period, from, to)
                     IN /\ kg # Nil => Sum(kg) = Sum([s \in DOMAIN site |-> Sum(site[s])])
                        /\ fleet # Nil =>
                             \A p \in DOMAIN fleet :
                               \E low, high \in {s \in Usable : p \in DOMAIN ratio[s]} :
                                 /\ ratio[low][p].energy * fleet[p].expected <= fleet[p].energy * ratio[low][p].expected
                                 /\ ratio[high][p].energy * fleet[p].expected >= fleet[p].energy * ratio[high][p].expected
  BY DEF FleetIsItsSites
<1>. DEFINE from == range[1]
            to == range[2]
            kg == FleetEmissions(Nil, period, from, to)
            site == [s \in {x \in Site : Current(CountryOf[x]) # Nil} |->
                       SiteEmissions(s, period, from, to)]
            ratio == [s \in Usable |-> SitePerformanceRatio(s, period, from, to)]
            fleet == FleetPerformanceRatio(Nil, period, from, to)
<1>1. kg # Nil => Sum(kg) = Sum([s \in DOMAIN site |-> Sum(site[s])])
  <2>1. DOMAIN site = {x \in Site : Current(CountryOf[x]) # Nil}
        /\ \A s \in DOMAIN site : site[s] = SiteEmissions(s, period, from, to)
    OBVIOUS
  <2>2. Sum([s \in DOMAIN site |-> Sum(site[s])]) = SumOver(Configured(from, to), Avoided(period))
    <3>. HIDE DEF site, from, to
    <3>. QED
      BY <2>1, SitesAvoid
  <2>3. kg # Nil => Sum(kg) = SumOver(Configured(from, to), Avoided(period))
    BY FleetAvoids
  <2>. HIDE DEF site, kg
  <2>. QED
    BY <2>2, <2>3
<1>2. ASSUME fleet # Nil, NEW p \in DOMAIN fleet
      PROVE  \E low, high \in {s \in Usable : p \in DOMAIN ratio[s]} :
               /\ ratio[low][p].energy * fleet[p].expected <= fleet[p].energy * ratio[low][p].expected
               /\ ratio[high][p].energy * fleet[p].expected >= fleet[p].energy * ratio[high][p].expected
  <2>. HIDE DEF from, to
  <2>1. ratio = [s \in Usable |-> SitePerformanceRatio(s, period, from, to)]
    OBVIOUS
  <2>. HIDE DEF ratio
  <2>. QED
    BY <1>2, <2>1, FleetPerforms
<1>. HIDE DEF kg, site, ratio, fleet
<1>3. /\ kg # Nil => Sum(kg) = Sum([s \in DOMAIN site |-> Sum(site[s])])
      /\ fleet # Nil =>
           \A p \in DOMAIN fleet :
             \E low, high \in {s \in Usable : p \in DOMAIN ratio[s]} :
               /\ ratio[low][p].energy * fleet[p].expected <= fleet[p].energy * ratio[low][p].expected
               /\ ratio[high][p].energy * fleet[p].expected >= fleet[p].energy * ratio[high][p].expected
  BY <1>1, <1>2
<1>. QED
  BY <1>3 DEF kg, site, ratio, fleet, from, to

(* Whatever is asked of the energy of a range or a period, by site,        *)
(* country, cohort, segment or fleet, by day, week or month, as total,     *)
(* trend, comparison by months or as of a midnight, emissions or ratio,    *)
(* agrees, for any fleet and any rows.                                     *)
(* (internal/registry/analytics.go, benchmark.go and emissions.go.)        *)
THEOREM ReportsDoAgree == ReportsSpec => []ReportsAgree
<1>1. ReportsInv => ReportsAgree
  BY EnergyDoesAddUp, RatiosDoAgree, ComparisonsDoAgree, FleetIsSites DEF ReportsAgree
<1>. QED
  BY <1>1, ReportsInvHolds, PTL

(* A shorter range gives the same figures for its days.                    *)
LEMMA WindowDaysAgree ==
  ASSUME ReportsInv, NEW site, NEW asOf \in Day
  PROVE  LET near == loadSiteDailyRows(site, asOf - WindowDays, asOf)
             days == loadSiteDailyRows(site, 1, MaxDay)
         IN /\ DOMAIN near = {day \in DOMAIN days : day \in (asOf - WindowDays)..asOf}
            /\ \A day \in DOMAIN near : near[day] = days[day] /\ near[day] \in Nat
            /\ IsFiniteSet(DOMAIN near) /\ DOMAIN days \subseteq Nat
<1>. DEFINE mine == ListSiteDailyRollup(site, asOf - WindowDays, asOf)
            all == ListSiteDailyRollup(site, 1, MaxDay)
            near == loadSiteDailyRows(site, asOf - WindowDays, asOf)
            days == loadSiteDailyRows(site, 1, MaxDay)
<1>1. mine \in SUBSET daily /\ all \in SUBSET daily
  BY SiteSeries
<1>2. /\ DOMAIN near = {row.day : row \in mine} /\ IsFiniteSet(DOMAIN near)
      /\ \A day \in DOMAIN near : near[day] \in Nat /\ near[day] = Total({row \in mine : row.day = day})
  BY <1>1, DaysOf DEF loadSiteDailyRows
<1>3. /\ DOMAIN days = {row.day : row \in all} /\ DOMAIN days \subseteq Nat
      /\ \A day \in DOMAIN days : days[day] = Total({row \in all : row.day = day})
  BY <1>1, DaysOf, Givens DEF loadSiteDailyRows
<1>4. mine = {row \in all : row.day \in (asOf - WindowDays)..asOf}
  <2>1. \A row \in daily : row.day \in 1..MaxDay
    BY SomeRows DEF Day
  <2>. QED
    BY <2>1 DEF ListSiteDailyRollup
<1>5. DOMAIN near = {day \in DOMAIN days : day \in (asOf - WindowDays)..asOf}
  <2>. HIDE DEF near, days, mine, all
  <2>. QED
    BY <1>2, <1>3, <1>4
<1>6. ASSUME NEW day \in DOMAIN near PROVE near[day] = days[day]
  <2>1. {row \in mine : row.day = day} = {row \in all : row.day = day}
    <3>. HIDE DEF near, days, mine, all
    <3>. QED
      BY <1>4, <1>5
  <2>. HIDE DEF near, days, mine, all
  <2>. QED
    BY <1>2, <1>3, <1>5, <2>1
<1>. HIDE DEF near, days
<1>. QED
  BY <1>2, <1>3, <1>5, <1>6 DEF near, days

(* Numbers that are all less than another add up to less than that many.   *)
LEMMA WindowSum ==
  ASSUME NEW window, IsFiniteSet(window), window # {}, NEW f, \A day \in window : f[day] \in Nat,
         NEW v \in Nat
  PROVE  /\ SumOver(window, f) > 0 /\ SumOver(window, f) >= 2 * v * Cardinality(window)
              => \E day \in window : f[day] > 0 /\ f[day] >= 2 * v
         /\ (\A day \in window : f[day] > 2 * v)
              => SumOver(window, f) > 2 * v * Cardinality(window)
<1>. DEFINE n == Cardinality(window)
            c == [day \in window |-> 2 * v]
            z == [day \in window |-> 0]
<1>1. /\ SumOver(window, c) = 2 * v * n /\ SumOver(window, z) = 0 * n
      /\ n \in Nat /\ 2 * v \in Nat
  <2>1. \A day \in window : c[day] = 2 * v /\ z[day] = 0
    OBVIOUS
  <2>2. 2 * v \in Int /\ 0 \in Int
    OBVIOUS
  <2>. HIDE DEF c, z
  <2>. QED
    BY <2>1, <2>2, SumConstant, FS_CardinalityType
<1>2. \A day \in window : f[day] \in Int /\ c[day] = 2 * v /\ z[day] = 0 /\ c[day] \in Int
  BY <1>1
<1>3. SumOver(window, f) \in Int /\ SumOver(window, c) \in Int
  <2>. HIDE DEF c
  <2>. QED
    BY <1>2, SumRemove
<1>4. ASSUME SumOver(window, f) > 0, SumOver(window, f) >= 2 * v * n,
             \A day \in window : ~(f[day] > 0 /\ f[day] >= 2 * v)
      PROVE  FALSE
  <2>1. CASE v = 0
    <3>1. \A day \in window : f[day] = z[day]
      BY <1>2, <1>4, <2>1
    <3>2. SumOver(window, f) = SumOver(window, z)
      <4>. HIDE DEF z
      <4>. QED
        BY <1>2, <3>1, SumSame
    <3>. QED
      BY <1>1, <1>4, <3>2
  <2>2. CASE v # 0
    <3>1. \A day \in window : f[day] < c[day] /\ f[day] <= c[day]
      BY <1>2, <1>4, <2>2
    <3>2. SumOver(window, f) < SumOver(window, c)
      <4>1. \E day \in window : f[day] < c[day]
        BY <3>1
      <4>. HIDE DEF c
      <4>. QED
        BY <1>2, <3>1, <4>1, SumLess
    <3>. HIDE DEF c, z, n
    <3>. QED
      BY <1>1, <1>3, <1>4, <3>2
  <2>. QED
    BY <2>1, <2>2
<1>5. ASSUME \A day \in window : f[day] > 2 * v
      PROVE  SumOver(window, f) > 2 * v * n
  <2>1. \A day \in window : c[day] < f[day] /\ c[day] <= f[day]
    BY <1>2, <1>5
  <2>2. SumOver(window, c) < SumOver(window, f)
    <3>1. \E day \in window : c[day] < f[day]
      BY <2>1
    <3>. HIDE DEF c
    <3>. QED
      BY <1>2, <2>1, <3>1, SumLess
  <2>. HIDE DEF c, z, n
  <2>. QED
    BY <1>1, <1>3, <2>2
<1>. QED
  BY <1>4, <1>5

(* An anomaly is below half of some earlier day of its window, and a day   *)
(* below half of every one is an anomaly, if its key finds the days.       *)
LEMMA Justified ==
  ASSUME ReportsInv, NEW site \in Site, NEW asOf \in Moment
  PROVE  LET days == loadSiteDailyRows(site, 1, MaxDay)
         IN /\ site \in FleetAnomalies(asOf) =>
                 \E day \in DOMAIN days :
                   day \in (asOf.day - WindowDays)..(asOf.day - 1) /\ days[day] > 0 /\ days[day] >= 2 * days[asOf.day]
            /\ asOf.zone = "Local" /\ BelowHalf(site, asOf) => site \in FleetAnomalies(asOf)
<1>. DEFINE at == asOf.day
            near == loadSiteDailyRows(site, at - WindowDays, at)
            days == loadSiteDailyRows(site, 1, MaxDay)
            window == DOMAIN near \ {at}
            f == [day \in window |-> At(near, day)]
            v == near[at]
            n == Cardinality(window)
<1>0. at \in Day
  BY DEF Moment
<1>1. /\ DOMAIN near = {day \in DOMAIN days : day \in (at - WindowDays)..at}
      /\ \A day \in DOMAIN near : near[day] = days[day] /\ near[day] \in Nat
      /\ IsFiniteSet(DOMAIN near) /\ DOMAIN days \subseteq Nat
  <2>. HIDE DEF at
  <2>. QED
    BY <1>0, WindowDaysAgree
<1>2. at \in Nat \ {0} /\ WindowDays \in Nat \ {0}
  BY <1>0, Givens
<1>3. /\ window \subseteq DOMAIN days
      /\ \A day \in window : day \in (at - WindowDays)..(at - 1)
      /\ (at - WindowDays .. at - 1) \cap DOMAIN near = window
  <2>. HIDE DEF near, days, at
  <2>1. \A day \in Nat : day \in (at - WindowDays)..at /\ day # at <=> day \in (at - WindowDays)..(at - 1)
    BY <1>2
  <2>. QED
    BY <1>1, <2>1
<1>4. asOf.zone # "Local" => site \notin FleetAnomalies(asOf)
  BY DEF FleetAnomalies, SiteAnomalies, evaluate, Found
<1>5. IsFiniteSet(window) /\ \A day \in window : f[day] = days[day] /\ f[day] = near[day] /\ f[day] \in Nat
  <2>1. IsFiniteSet(window)
    BY <1>1, FS_Subset
  <2>. HIDE DEF near, days
  <2>. QED
    BY <1>1, <2>1 DEF At
<1>6. at \in DOMAIN near => days[at] = v /\ v \in Nat
  <2>. HIDE DEF near, days, at
  <2>. QED
    BY <1>1
<1>7. n \in Nat
  <2>. HIDE DEF window
  <2>. QED
    BY <1>5, FS_CardinalityType
<1>8. ASSUME asOf.zone = "Local"
      PROVE  /\ site \in FleetAnomalies(asOf) <=>
                  /\ at \in DOMAIN near /\ window # {}
                  /\ Sum(f) > 0 /\ Sum(f) >= 2 * near[at] * n
             /\ BelowHalf(site, asOf) =>
                  at \in DOMAIN near /\ window # {} /\ \A day \in window : near[day] > 2 * v
  <2>1. Baseline(near, asOf) = window /\ Found(near, asOf.zone) = DOMAIN near
    <3>. HIDE DEF near, window
    <3>. QED
      BY <1>3, <1>8 DEF Baseline, Found
  <2>2. BelowHalf(site, asOf) =>
          at \in DOMAIN near /\ window # {} /\ \A day \in window : near[day] > 2 * v
    BY DEF BelowHalf
  <2>. HIDE DEF window
  <2>3. site \in FleetAnomalies(asOf) <=> evaluate(near, asOf)
    BY DEF FleetAnomalies, SiteAnomalies
  <2>. HIDE DEF near
  <2>. QED
    BY <2>1, <2>2, <2>3 DEF evaluate
<1>9. Sum(f) = SumOver(window, f)
  BY DEF Sum
<1>. HIDE DEF near, days, window, f, n, v, at
<1>10. ASSUME site \in FleetAnomalies(asOf)
       PROVE  \E day \in DOMAIN days :
                day \in (at - WindowDays)..(at - 1) /\ days[day] > 0 /\ days[day] >= 2 * days[at]
  <2>1. /\ at \in DOMAIN near /\ window # {}
        /\ SumOver(window, f) > 0 /\ SumOver(window, f) >= 2 * near[at] * n
    BY <1>4, <1>8, <1>9, <1>10
  <2>2. v \in Nat /\ SumOver(window, f) >= 2 * v * Cardinality(window) /\ days[at] = v
    BY <1>6, <2>1 DEF n, v
  <2>3. \E day \in window : f[day] > 0 /\ f[day] >= 2 * v
    BY <1>5, <2>1, <2>2, WindowSum
  <2>. QED
    BY <1>3, <1>5, <2>2, <2>3
<1>11. ASSUME asOf.zone = "Local", BelowHalf(site, asOf)
       PROVE  site \in FleetAnomalies(asOf)
  <2>1. at \in DOMAIN near /\ window # {} /\ v \in Nat
    BY <1>6, <1>8, <1>11
  <2>2. \A day \in window : f[day] > 2 * v
    BY <1>5, <1>8, <1>11
  <2>3. SumOver(window, f) > 2 * v * Cardinality(window)
    BY <1>5, <2>1, <2>2, WindowSum
  <2>4. 2 * v * n \in Nat /\ SumOver(window, f) \in Nat
    BY <1>5, <1>7, <2>1, SumNat
  <2>5. Sum(f) > 0 /\ Sum(f) >= 2 * v * n
    BY <1>9, <2>3, <2>4 DEF n
  <2>. QED
    BY <1>8, <1>11, <2>1, <2>5 DEF v
<1>. QED
  BY <1>10, <1>11 DEF days, at

(* A site is listed as an anomaly only if an earlier day of its window had *)
(* at least twice the energy, and asked for in the server's own Location   *)
(* it is listed if all of them had more, for any sites, rows and window.   *)
(* (anomaly.go.)                                                           *)
THEOREM AnomaliesAreJustified == ReportsSpec => []AnomalyJustified
<1>1. ReportsInv => AnomalyJustified
  BY Justified DEF AnomalyJustified
<1>. QED
  BY <1>1, ReportsInvHolds, PTL

(***************************************************************************)
(* Lists.                                                                  *)
(***************************************************************************)

USE ListsAssumption

(* The rows after a cursor, and those a filter lets through, of any list.  *)
Beyond(row, c) ==
  IF list \in {"health", "segments"} THEN row.tie > c.tie ELSE Older(row, c)

Matches(row) ==
  CASE list \in {"sites", "devices", "actions"} -> filter = None \/ row.about = filter
    [] list \in Unfiltered -> TRUE
    [] list = "telemetry" -> row.about = filter
    [] list = "ingestion" -> /\ filter = "errors" => row \in failed
                             /\ filter = "processed" => row \notin failed
                             /\ filter \in About => row.about = filter

Unique == \A a, b \in rows \cup begun : SameKey(a, b) => a = b

(* What has been listed lies before the cursor, ...                        *)
Behind == walk = "open" => \A row \in page \cup earlier : cursor # None /\ ~Beyond(row, cursor)

(* ... and what is owed and has not been listed lies beyond it.            *)
Ahead == walk = "open" => owed \subseteq page \cup earlier \cup Query(cursor)

ListsInv ==
  /\ ListsTypeOK
  /\ Unique
  /\ owed \subseteq rows
  /\ walk = "new" => cursor = None /\ page = {} /\ earlier = {}
  /\ Behind
  /\ Ahead
  /\ ListedOnce
  /\ WalkComplete

-----------------------------------------------------------------------------
(* A query gives what matches and lies beyond its cursor, ...              *)
LEMMA QueryIs ==
  ASSUME ListsTypeOK
  PROVE  Query(cursor) = {row \in rows : Matches(row) /\ (cursor = None \/ Beyond(row, cursor))}
  <1>1. list \in AllLists
    BY DEF ListsTypeOK
  <1>2. CASE list \in {"sites", "users", "devices"}
    BY <1>2 DEF Query, Matches, Beyond, Unfiltered, SitesQuery, UsersQuery, DevicesQuery
  <1>3. CASE list \in {"telemetry", "actions", "ingestion"}
    BY <1>3 DEF Query, Matches, Beyond, Unfiltered, TelemetryQuery, ActionsQuery, IngestionQuery
  <1>4. CASE list \in {"health", "segments"}
    BY <1>4 DEF Query, Matches, Beyond, Unfiltered, HealthQuery, SegmentKeys
  <1>5. QED
    BY <1>1, <1>2, <1>3, <1>4 DEF AllLists

(* ... after a step as before.                                             *)
LEMMA QueryIsNext ==
  ASSUME ListsTypeOK'
  PROVE  Query(cursor)' =
           {row \in rows' : Matches(row)' /\ (cursor' = None \/ Beyond(row, cursor)')}
  <1>1. list' \in AllLists
    BY DEF ListsTypeOK
  <1>2. CASE list' \in {"sites", "users", "devices"}
    BY <1>2 DEF Query, Matches, Beyond, Unfiltered, SitesQuery, UsersQuery, DevicesQuery
  <1>3. CASE list' \in {"telemetry", "actions", "ingestion"}
    BY <1>3 DEF Query, Matches, Beyond, Unfiltered, TelemetryQuery, ActionsQuery, IngestionQuery
  <1>4. CASE list' \in {"health", "segments"}
    BY <1>4 DEF Query, Matches, Beyond, Unfiltered, HealthQuery, SegmentKeys
  <1>5. QED
    BY <1>1, <1>2, <1>3, <1>4 DEF AllLists

(* What rows and cursors are sorted by are numbers.                        *)
LEMMA Numbers ==
  /\ \A row \in Row : row.at \in Nat /\ row.tie \in Nat
  /\ \A c \in Cursor : c.at \in Nat /\ c.tie \in Nat
  <1>1. Tie \subseteq Nat /\ 1..MaxAt \subseteq Nat
    OBVIOUS
  <1>2. \A row \in Row : row.at \in 1..MaxAt /\ row.tie \in Tie
    BY DEF Row
  <1>3. \A c \in Cursor : c.at \in 1..MaxAt /\ c.tie \in Tie
    BY DEF Cursor
  <1>4. QED
    BY <1>1, <1>2, <1>3

(* A list is ordered, and its order is that of its cursor.                 *)
LEMMA Order ==
  ASSUME ListsTypeOK, NEW a \in Row, NEW b \in Row
  PROVE  /\ Precedes(a, b) <=> Beyond(b, Encode(a))
         /\ ~Beyond(a, Encode(a))
         /\ Precedes(a, b) => ~Beyond(a, Encode(b))
         /\ \A c \in Cursor : Beyond(a, c) /\ ~Beyond(b, c) => ~Beyond(b, Encode(a))
  <1>1. /\ a.at \in Nat /\ a.tie \in Nat /\ b.at \in Nat /\ b.tie \in Nat
        /\ Encode(a).at = a.at /\ Encode(a).tie = a.tie
        /\ Encode(b).at = b.at /\ Encode(b).tie = b.tie
    BY Numbers DEF Encode
  <1>2. ASSUME NEW c \in Cursor, Beyond(a, c), ~Beyond(b, c)
        PROVE  ~Beyond(b, Encode(a))
    <2>1. c.at \in Nat /\ c.tie \in Nat
      BY Numbers
    <2>2. CASE list \in {"health", "segments"}
      BY <1>1, <1>2, <2>1, <2>2 DEF Beyond
    <2>3. CASE list \notin {"health", "segments"}
      <3>1. Older(a, c) /\ ~Older(b, c)
        BY <1>2, <2>3 DEF Beyond
      <3>2. ~Older(b, Encode(a))
        BY <1>1, <2>1, <3>1 DEF Older
      <3>3. QED
        BY <2>3, <3>2 DEF Beyond
    <2>4. QED
      BY <2>2, <2>3
  <1>3. (Precedes(a, b) <=> Beyond(b, Encode(a))) /\ ~Beyond(a, Encode(a))
    BY <1>1 DEF Precedes, Beyond, Older
  <1>4. Precedes(a, b) => ~Beyond(a, Encode(b))
    BY <1>1 DEF Precedes, Beyond, Older
  <1>5. QED
    BY <1>2, <1>3, <1>4

(* No page has been asked for at first.                                    *)
LEMMA ListsInitInv == ListsInit => ListsInv
  <1>1. ASSUME ListsInit
        PROVE  ListsTypeOK
    BY <1>1 DEF ListsInit, ListsTypeOK
  <1>2. QED
    BY <1>1 DEF ListsInit, ListsInv, Unique, Behind, Ahead, ListedOnce, WalkComplete

(* Every page, whatever the list: ...                                      *)
LEMMA PageStep ==
  ASSUME ListsInv, walk = "open", NEW some, NEW more \in BOOLEAN,
         FirstRows(some, Query(cursor)), ~more => some = Query(cursor),
         Answer(some, more)
  PROVE  ListsInv'
  <1> DEFINE match == Query(cursor)
  <1>0. /\ ListsTypeOK
        /\ match = {row \in rows : Matches(row) /\ (cursor = None \/ Beyond(row, cursor))}
    BY QueryIs DEF ListsInv
  <1>1. /\ match \subseteq rows /\ rows \subseteq Row
        /\ some \subseteq match
        /\ page \subseteq Row /\ earlier \subseteq Row
        /\ cursor \in Cursor \cup {None}
    BY <1>0 DEF ListsTypeOK, FirstRows
  <1>2. ASSUME more
        PROVE  \E last \in some : /\ \A a \in some \ {last} : Precedes(a, last)
                                  /\ cursor' = Encode(last)
    BY <1>2 DEF Answer
  <1>3. more => cursor' \in Cursor
    BY <1>1, <1>2 DEF Encode, Row, Cursor
  <1>4. ListsTypeOK'
    BY <1>0, <1>1, <1>3 DEF Answer, ListsTypeOK, table
  <1>5. page' \cap earlier' = {}
    BY <1>0, <1>1 DEF Answer, ListsInv, Behind
  <1>6. ASSUME more, NEW row \in page' \cup earlier'
        PROVE  cursor' # None /\ ~Beyond(row, cursor)'
    <2>1. PICK last \in some : /\ \A a \in some \ {last} : Precedes(a, last)
                               /\ cursor' = Encode(last)
      BY <1>2, <1>6
    <2>2. list' = list /\ row \in some \cup page \cup earlier /\ row \in Row /\ last \in Row
      BY <1>1 DEF Answer
    <2>3. cursor' # None
      BY <1>3, <1>6 DEF Cursor
    <2>4. ~Beyond(row, Encode(last))
      <3>1. CASE row \in page \cup earlier
        <4>1. cursor # None /\ ~Beyond(row, cursor) /\ cursor \in Cursor
          BY <3>1, <1>1 DEF ListsInv, Behind
        <4>2. Beyond(last, cursor)
          BY <1>0, <1>1, <4>1
        <4>3. QED
          BY <4>1, <4>2, <1>0, <2>2, Order
      <3>2. CASE row = last
        BY <3>2, <1>0, <2>2, Order
      <3>3. CASE row \in some /\ row # last
        <4>1. Precedes(row, last)
          BY <3>3, <2>1
        <4>2. QED
          BY <4>1, <2>2, <1>0, Order
      <3>4. QED
        BY <2>2, <3>1, <3>2, <3>3
    <2>5. QED
      BY <2>1, <2>2, <2>3, <2>4 DEF Beyond, Older
  <1>7. ASSUME more, NEW row \in match \ some
        PROVE  row \in Query(cursor)'
    <2>1. PICK last \in some : cursor' = Encode(last)
      BY <1>2, <1>7
    <2>2. Precedes(last, row) /\ last \in Row /\ row \in Row
      BY <1>1, <1>7 DEF FirstRows
    <2>3. Beyond(row, Encode(last))
      BY <1>0, <2>2, Order
    <2>4. row \in rows' /\ Matches(row)' /\ Beyond(row, cursor)'
      BY <1>0, <1>7, <2>1, <2>3 DEF Answer, table, Matches, Unfiltered, Beyond, Older
    <2>5. QED
      BY <1>4, <2>4, QueryIsNext
  <1>8. Ahead'
    BY <1>7, <1>1 DEF Answer, Ahead, ListsInv
  <1>9. WalkComplete'
    BY <1>1 DEF Answer, WalkComplete, Ahead, ListsInv
  <1>10. Behind'
    BY <1>6 DEF Answer, Behind
  <1>11. QED
    BY <1>4, <1>5, <1>8, <1>9, <1>10
       DEF Answer, ListsInv, ListedOnce, Unique, SameKey, table

(* ... and so each of them.                                                *)
LEMMA ListingStep ==
  ASSUME ListsInv, NEW name \in AllLists, NEW match, list = name => match = Query(cursor),
         Listing(name, match)
  PROVE  ListsInv'
  <1>1. PICK some \in SUBSET match : FirstRows(some, match) /\ Answer(some, FullPage(some))
    BY DEF Listing
  <1>2. walk = "open" /\ match = Query(cursor)
    BY DEF Listing
  <1>3. ~FullPage(some) => some = match
    BY <1>1 DEF FirstRows, FullPage
  <1>4. FullPage(some) \in BOOLEAN
    BY DEF FullPage
  <1>5. QED
    BY <1>1, <1>2, <1>3, <1>4, PageStep

(* The eight list functions.                                               *)
LEMMA NextPageStep == ListsInv /\ NextPage => ListsInv'
  <1> SUFFICES ASSUME ListsInv, NextPage PROVE ListsInv'
    OBVIOUS
  <1>1. CASE SitesList
    BY <1>1, ListingStep DEF SitesList, Query, AllLists
  <1>2. CASE UsersList
    BY <1>2, ListingStep DEF UsersList, Query, AllLists
  <1>3. CASE DevicesList
    BY <1>3, ListingStep DEF DevicesList, Query, AllLists
  <1>4. CASE TelemetryList
    BY <1>4, ListingStep DEF TelemetryList, Query, AllLists
  <1>5. CASE ActionsList
    BY <1>5, ListingStep DEF ActionsList, Query, AllLists
  <1>6. CASE IngestionList
    BY <1>6, ListingStep DEF IngestionList, Query, AllLists
  <1>7. CASE FleetHealth
    BY <1>7, ListingStep DEF FleetHealth, Query, AllLists
  <1>8. CASE SegmentPage
    <2>1. Query(cursor) = SegmentKeys(cursor) /\ walk = "open"
      BY <1>8 DEF SegmentPage, Query
    <2>2. PICK some \in SUBSET Query(cursor) :
            FirstRows(some, Query(cursor)) /\ Answer(some, some # Query(cursor))
      BY <1>8, <2>1 DEF SegmentPage
    <2>3. QED
      BY <2>1, <2>2, PageStep
  <1>9. QED
    BY <1>1, <1>2, <1>3, <1>4, <1>5, <1>6, <1>7, <1>8 DEF NextPage

(* What the tables do meanwhile.                                           *)
LEMMA TickStep == ListsInv /\ Tick => ListsInv'
  <1> SUFFICES ASSUME ListsInv, Tick PROVE ListsInv'
    OBVIOUS
  <1>1. ListsTypeOK /\ ListsTypeOK'
    BY DEF ListsInv, ListsTypeOK, Tick
  <1>2. Query(cursor)' = Query(cursor)
    BY <1>1, QueryIs, QueryIsNext DEF Tick, Matches, Unfiltered, Beyond, Older
  <1>3. QED
    BY <1>1, <1>2 DEF ListsInv, Tick, Unique, SameKey, Behind, Ahead, Beyond, Older,
                      ListedOnce, WalkComplete

(* A row of an open transaction is not there yet, ...                      *)
LEMMA BeginStep == ASSUME ListsInv, NEW new \in Row, Begin(new) PROVE ListsInv'
  <1>1. ListsTypeOK /\ ListsTypeOK'
    BY DEF ListsInv, ListsTypeOK, Begin
  <1>2. Query(cursor)' = Query(cursor)
    BY <1>1, QueryIs, QueryIsNext DEF Begin, Matches, Unfiltered, Beyond, Older
  <1>3. Unique'
    BY DEF ListsInv, Begin, Unique, SameKey
  <1>4. QED
    BY <1>1, <1>2, <1>3 DEF ListsInv, Begin, Behind, Ahead, Beyond, Older,
                            ListedOnce, WalkComplete

(* ... and one that is committed late is not owed to a walk under way.     *)
LEMMA CommitStep == ASSUME ListsInv, NEW new \in Row, Commit(new) PROVE ListsInv'
  <1>1. ListsTypeOK /\ ListsTypeOK'
    BY DEF ListsInv, ListsTypeOK, Commit
  <1>2. Query(cursor) \subseteq Query(cursor)'
    BY <1>1, QueryIs, QueryIsNext DEF Commit, Matches, Unfiltered, Beyond, Older
  <1>3. Unique'
    BY DEF ListsInv, Commit, Unique, SameKey
  <1>4. QED
    BY <1>1, <1>2, <1>3 DEF ListsInv, Commit, Behind, Ahead, Beyond, Older,
                            ListedOnce, WalkComplete

(* What is purged is owed no more, ...                                     *)
LEMMA PurgeRowsStep == ASSUME ListsInv, NEW before \in 1..MaxAt, PurgeRows(before) PROVE ListsInv'
  <1>1. ListsTypeOK /\ ListsTypeOK'
    BY DEF ListsInv, ListsTypeOK, PurgeRows
  <1>2. Query(cursor) \cap rows' \subseteq Query(cursor)'
    BY <1>1, QueryIs, QueryIsNext DEF PurgeRows, Matches, Unfiltered, Beyond, Older
  <1>3. rows' \subseteq rows /\ owed' \subseteq owed \cap rows'
    BY DEF PurgeRows
  <1>4. Unique'
    BY <1>3 DEF ListsInv, PurgeRows, Unique, SameKey
  <1>5. QED
    BY <1>1, <1>2, <1>3, <1>4 DEF ListsInv, PurgeRows, Behind, Ahead, Beyond, Older,
                            ListedOnce, WalkComplete

(* ... nor is what stops matching.                                         *)
LEMMA SetErrorStep == ASSUME ListsInv, NEW bad \in Row, SetError(bad) PROVE ListsInv'
  <1>1. ListsTypeOK /\ ListsTypeOK'
    BY DEF ListsInv, ListsTypeOK, SetError
  <1>2. ASSUME NEW row \in owed', row \in Query(cursor)
        PROVE  row \in Query(cursor)'
    <2>1. row \in rows' /\ Matches(row) /\ (cursor = None \/ Beyond(row, cursor))
      BY <1>1, <1>2, QueryIs DEF SetError
    <2>2. (cursor = None \/ Beyond(row, cursor))'
      BY <2>1 DEF SetError, Beyond, Older
    <2>3. filter = "processed" => row \notin failed'
      BY <1>2, <2>1 DEF SetError, Matches, Unfiltered
    <2>4. Matches(row)'
      BY <2>1, <2>3 DEF SetError, Matches, Unfiltered
    <2>5. QED
      BY <1>1, <2>1, <2>2, <2>4, QueryIsNext
  <1>3. owed' \subseteq owed
    BY DEF SetError
  <1>4. QED
    BY <1>1, <1>2, <1>3 DEF ListsInv, SetError, Unique, SameKey, Behind, Ahead, Beyond, Older,
                            ListedOnce, WalkComplete

(* A walk is owed what its first page's query finds.                       *)
LEMMA StartStep ==
  ASSUME ListsInv, NEW asked \in 0..MaxLimit, NEW asks, Start(asked, asks)
  PROVE  ListsInv'
  <1>1. limit' \in 1..MaxLimit
    BY DEF Start, PageLimit
  <1>2. cursor = None /\ cursor' = None /\ owed' = Query(cursor)' /\ owed' \subseteq rows'
    <2>1. cursor = None /\ cursor' = None
      BY DEF ListsInv, Start
    <2>2. owed' = Query(None)'
      BY DEF Start
    <2>3. Query(None)' = Query(cursor)'
      BY <2>1 DEF Query, SitesQuery, UsersQuery, DevicesQuery, TelemetryQuery, ActionsQuery,
                  IngestionQuery, HealthQuery, SegmentKeys
    <2>4. list' \in AllLists
      BY DEF ListsInv, ListsTypeOK, Start
    <2>5. Query(None)' \subseteq rows'
      BY <2>4 DEF Query, SitesQuery, UsersQuery, DevicesQuery, TelemetryQuery, ActionsQuery,
                  IngestionQuery, HealthQuery, SegmentKeys, AllLists
    <2>6. QED
      BY <2>1, <2>2, <2>3, <2>5
  <1>3. ListsTypeOK'
    BY <1>1, <1>2 DEF ListsInv, ListsTypeOK, Start
  <1>4. QED
    BY <1>2, <1>3 DEF ListsInv, Start, Unique, SameKey, Behind, Ahead, ListedOnce, WalkComplete

(* So every step keeps the invariant, ...                                  *)
LEMMA ListsStepInv == ListsInv /\ [ListsNext]_listsVars => ListsInv'
  <1> SUFFICES ASSUME ListsInv, [ListsNext]_listsVars PROVE ListsInv'
    OBVIOUS
  <1>1. CASE Tick
    BY <1>1, TickStep
  <1>2. CASE \E row \in Row : Begin(row) \/ Commit(row) \/ SetError(row)
    BY <1>2, BeginStep, CommitStep, SetErrorStep
  <1>3. CASE \E before \in 1..MaxAt : PurgeRows(before)
    BY <1>3, PurgeRowsStep
  <1>4. CASE \E asked \in 0..MaxLimit : \E asks \in Filters : Start(asked, asks)
    BY <1>4, StartStep
  <1>5. CASE NextPage
    BY <1>5, NextPageStep
  <1>6. CASE UNCHANGED listsVars
    <2>1. ListsTypeOK /\ ListsTypeOK'
      BY <1>6 DEF ListsInv, ListsTypeOK, listsVars
    <2>2. Query(cursor)' = Query(cursor)
      BY <1>6, <2>1, QueryIs, QueryIsNext DEF listsVars, Matches, Unfiltered, Beyond, Older
    <2>3. QED
      BY <1>6, <2>1, <2>2 DEF ListsInv, listsVars, Unique, SameKey, Behind, Ahead, Beyond, Older,
                              ListedOnce, WalkComplete
  <1>7. QED
    BY <1>1, <1>2, <1>3, <1>4, <1>5, <1>6 DEF ListsNext

(* ... and it always holds.                                                *)
LEMMA ListsInvHolds == ListsSpec => []ListsInv
  BY ListsInitInv, ListsStepInv, PTL DEF ListsSpec

(* The variables of Lists keep their types.                                *)
THEOREM ListsTypeCorrect == ListsSpec => []ListsTypeOK
  <1>1. ListsInv => ListsTypeOK
    BY DEF ListsInv
  <1>2. QED
    BY <1>1, ListsInvHolds, PTL

(* No page of a walk repeats a row of an earlier one, whatever becomes of  *)
(* the table in between. (The keyset cursors.)                             *)
THEOREM NothingTwice == ListsSpec => []ListedOnce
  <1>1. ListsInv => ListedOnce
    BY DEF ListsInv
  <1>2. QED
    BY <1>1, ListsInvHolds, PTL

(* A walk to the end misses no row that was there throughout. (The keyset  *)
(* cursors, and the two tests for a last page.)                            *)
THEOREM NothingMissed == ListsSpec => []WalkComplete
  <1>1. ListsInv => WalkComplete
    BY DEF ListsInv
  <1>2. QED
    BY <1>1, ListsInvHolds, PTL
=============================================================================
