-------------------------------- MODULE Sums --------------------------------
(***************************************************************************)
(* Lemmas about the sums of the community module Functions, which totals,  *)
(* averages, scores and records of the other modules are made of: that the *)
(* recursion SumFunctionOnSet is written with has a solution on every      *)
(* finite set, in which order its elements may be taken, and how a sum     *)
(* compares with another one.                                              *)
(*                                                                         *)
(* Induction is over a set of numbers, or of subsets, that the sum has the *)
(* wanted property for: every set of numbers has a least one.              *)
(***************************************************************************)
EXTENDS Functions, FiniteSetTheorems, WellFoundedInduction, TLAPS

\* A set of natural numbers that is not empty has a least element.
LEMMA LeastNatural ==
  ASSUME NEW S \in SUBSET Nat, S # {}
  PROVE  \E n \in S : \A m \in S : n <= m
<1> DEFINE R == {ss \in Nat \X Nat : ss[1] < ss[2]}
<1>1. IsWellFoundedOn(R, Nat)
  BY NatLessThanWellFounded DEF OpToRel
<1>2. \A m, n \in Nat : m < n => <<m, n>> \in R
  OBVIOUS
<1> HIDE DEF R
<1>3. PICK n \in S : \A m \in S : ~ (<<m, n>> \in R)
  BY <1>1, WFMin
<1>4. \A m \in S : n \in Nat /\ m \in Nat /\ ~(m < n)
  BY <1>2, <1>3
<1>5. \A m \in S : n <= m
  BY <1>4
<1> QED
  BY <1>5

\* A set that holds 0, and with every number the next, holds every number.
LEMMA NatInd ==
  ASSUME NEW S, 0 \in S, \A n \in Nat : n \in S => n + 1 \in S
  PROVE  Nat \subseteq S
<1> SUFFICES ASSUME Nat \ S # {}
             PROVE  FALSE
  OBVIOUS
<1>1. PICK n \in Nat \ S : \A m \in Nat \ S : n <= m
  BY LeastNatural
<1>2. n # 0 /\ n - 1 \in Nat
  BY <1>1
<1>3. n - 1 \in S
  BY <1>1, <1>2
<1>4. (n - 1) + 1 \in S
  BY <1>2, <1>3
<1> QED
  BY <1>1, <1>4

\* What holds of the empty set, and of a subset with one more element if it
\* holds of the subset, holds of a finite set.
LEMMA SubsetInd ==
  ASSUME NEW S, IsFiniteSet(S), NEW P, {} \in P,
         \A T \in SUBSET S : \A x \in S \ T : T \in P => T \cup {x} \in P
  PROVE  S \in P
<1> DEFINE N == {n \in Nat : \A T \in SUBSET S : Cardinality(T) = n => T \in P}
<1>1. 0 \in N
  <2> SUFFICES ASSUME NEW T \in SUBSET S, Cardinality(T) = 0
               PROVE  T \in P
    OBVIOUS
  <2>1. T = {}
    BY FS_Subset, FS_EmptySet
  <2> QED
    BY <2>1
<1>2. ASSUME NEW n \in Nat, n \in N
      PROVE  n + 1 \in N
  <2> SUFFICES ASSUME NEW T \in SUBSET S, Cardinality(T) = n + 1
               PROVE  T \in P
    OBVIOUS
  <2>1. IsFiniteSet(T)
    BY FS_Subset
  <2>2. PICK x \in T : TRUE
    BY <2>1, FS_EmptySet
  <2>3. Cardinality(T \ {x}) = n
    <3>1. Cardinality(T \ {x}) = Cardinality(T) - 1
      BY <2>1, <2>2, FS_RemoveElement
    <3> QED
      BY <3>1
  <2>4. T \ {x} \in P
    BY <1>2, <2>3
  <2>5. T = (T \ {x}) \cup {x} /\ x \in S \ (T \ {x})
    OBVIOUS
  <2> QED
    BY <2>4, <2>5
<1> HIDE DEF N
<1>3. Nat \subseteq N
  BY <1>1, <1>2, NatInd
<1>4. Cardinality(S) \in N
  BY <1>3, FS_CardinalityType
<1> QED
  BY <1>4 DEF N

-----------------------------------------------------------------------------
(* The recursion.                                                          *)

Taken(s) == CHOOSE x \in s : TRUE

\* g[s] is the sum of f over s, for every subset s of S.
Sums(g, f, S) ==
  g = [s \in SUBSET S |-> IF s = {} THEN 0 ELSE f[Taken(s)] + g[s \ {Taken(s)}]]

\* SumFunctionOnSet is the value on S of the function that adds up f.
LEMMA SumIs ==
  ASSUME NEW f, NEW S, NEW h, h = CHOOSE g : Sums(g, f, S)
  PROVE  SumFunctionOnSet(f, S) = h[S]
BY ZenonT(30) DEF Sums, Taken, SumFunctionOnSet, FoldFunctionOnSet, MapThenFoldSet

\* What is taken of a set that is not empty is an element of it.
LEMMA TakenFacts ==
  ASSUME NEW s, s # {}
  PROVE  Taken(s) \in s
BY DEF Taken

\* On a finite set there is such a function.
LEMMA SumsExist ==
  ASSUME NEW f, NEW S, IsFiniteSet(S)
  PROVE  \E g : Sums(g, f, S)
<1> DEFINE Upto(n) == {T \in SUBSET S : Cardinality(T) <= n}
           Next(g, s) == IF s = {} THEN 0 ELSE f[Taken(s)] + g[s \ {Taken(s)}]
           N == {n \in Nat : \E g : \A s \in Upto(n) : g[s] = Next(g, s)}
<1>1. \A s \in SUBSET S : IsFiniteSet(s) /\ Cardinality(s) \in Nat
                            /\ Cardinality(s) <= Cardinality(S)
  BY FS_Subset, FS_CardinalityType
<1>2. \A s \in SUBSET S : s # {} =>
        Taken(s) \in s /\ Cardinality(s \ {Taken(s)}) = Cardinality(s) - 1
  BY <1>1, TakenFacts, FS_RemoveElement
<1>3. 0 \in N
  <2> DEFINE g == [s \in SUBSET S |-> 0]
  <2>1. \A s \in Upto(0) : s = {}
    BY <1>1, FS_EmptySet
  <2>2. \A s \in Upto(0) : g[s] = Next(g, s)
    BY <2>1
  <2> QED
    BY <2>2
<1>4. ASSUME NEW n \in Nat, n \in N
      PROVE  n + 1 \in N
  <2>1. PICK g : \A s \in Upto(n) : g[s] = Next(g, s)
    BY <1>4
  <2> DEFINE h == [s \in SUBSET S |-> IF s \in Upto(n) THEN g[s] ELSE Next(g, s)]
  <2>2. ASSUME NEW s \in Upto(n + 1)
        PROVE  h[s] = Next(h, s)
    <3>1. h[s] = Next(g, s)
      BY <2>1
    <3>2. CASE s = {}
      BY <3>1, <3>2
    <3>3. CASE s # {}
      <4>1. s \ {Taken(s)} \in Upto(n)
        BY <1>1, <1>2, <3>3
      <4>2. h[s \ {Taken(s)}] = g[s \ {Taken(s)}]
        BY <4>1
      <4> QED
        BY <3>1, <3>3, <4>2
    <3> QED
      BY <3>2, <3>3
  <2> HIDE DEF h
  <2>3. \E a : \A s \in Upto(n + 1) : a[s] = Next(a, s)
    BY <2>2
  <2> QED
    BY <2>3
<1> HIDE DEF N
<1>5. Cardinality(S) \in N
  BY <1>1, <1>3, <1>4, NatInd
<1>6. PICK g : \A s \in Upto(Cardinality(S)) : g[s] = Next(g, s)
  BY <1>5 DEF N
<1> DEFINE h == [s \in SUBSET S |-> g[s]]
<1>7. \A s \in SUBSET S : h[s] = Next(h, s)
  <2> TAKE s \in SUBSET S
  <2>1. s \in Upto(Cardinality(S)) /\ h[s] = g[s]
    BY <1>1
  <2>2. h[s \ {Taken(s)}] = g[s \ {Taken(s)}]
    OBVIOUS
  <2> QED
    BY <1>6, <2>1, <2>2
<1>8. h = [s \in SUBSET S |-> Next(h, s)]
  BY <1>7
<1> HIDE DEF h
<1>9. Sums(h, f, S)
  BY <1>8 DEF Sums
<1> QED
  BY <1>9

\* And two of them agree where both are defined.
LEMMA SumsAgree ==
  ASSUME NEW f, NEW S, IsFiniteSet(S), NEW T \in SUBSET S,
         NEW g, Sums(g, f, S), NEW h, Sums(h, f, T)
  PROVE  g[T] = h[T]
<1> DEFINE N == {n \in Nat : \A s \in SUBSET T : Cardinality(s) = n => g[s] = h[s]}
<1>1. \A s \in SUBSET T : IsFiniteSet(s) /\ Cardinality(s) \in Nat
  BY FS_Subset, FS_CardinalityType
<1>2. \A s \in SUBSET T :
        /\ g[s] = IF s = {} THEN 0 ELSE f[Taken(s)] + g[s \ {Taken(s)}]
        /\ h[s] = IF s = {} THEN 0 ELSE f[Taken(s)] + h[s \ {Taken(s)}]
  BY DEF Sums
<1>3. 0 \in N
  BY <1>1, <1>2, FS_EmptySet
<1>4. ASSUME NEW n \in Nat, n \in N
      PROVE  n + 1 \in N
  <2> SUFFICES ASSUME NEW s \in SUBSET T, Cardinality(s) = n + 1
               PROVE  g[s] = h[s]
    OBVIOUS
  <2>1. s # {}
    BY FS_EmptySet
  <2>2. Taken(s) \in s
    BY <2>1, TakenFacts
  <2>3. Cardinality(s \ {Taken(s)}) = n
    BY <1>1, <2>2, FS_RemoveElement
  <2>4. g[s \ {Taken(s)}] = h[s \ {Taken(s)}]
    BY <1>4, <2>3
  <2> QED
    BY <1>2, <2>1, <2>4
<1> HIDE DEF N
<1>5. Cardinality(T) \in N
  BY <1>1, <1>3, <1>4, NatInd
<1> QED
  BY <1>5 DEF N

-----------------------------------------------------------------------------
(* What a sum is.                                                          *)

\* The definition, as an equation: one element is taken and the rest summed.
LEMMA SumRecursion ==
  ASSUME NEW f, NEW S, IsFiniteSet(S)
  PROVE  SumFunctionOnSet(f, S) =
           IF S = {} THEN 0 ELSE f[Taken(S)] + SumFunctionOnSet(f, S \ {Taken(S)})
<1> DEFINE T == S \ {Taken(S)}
           g == CHOOSE a : Sums(a, f, S)
           h == CHOOSE a : Sums(a, f, T)
<1>1. IsFiniteSet(T) /\ T \in SUBSET S
  BY FS_Subset
<1>2. Sums(g, f, S)
  BY SumsExist
<1>3. Sums(h, f, T)
  BY <1>1, SumsExist
<1>4. g[T] = h[T]
  <2> HIDE DEF T, g, h
  <2> QED
    BY <1>1, <1>2, <1>3, SumsAgree
<1>5. SumFunctionOnSet(f, S) = g[S] /\ SumFunctionOnSet(f, T) = h[T]
  <2>1. SumFunctionOnSet(f, S) = g[S]
    BY SumIs
  <2>2. SumFunctionOnSet(f, T) = h[T]
    BY SumIs
  <2> QED
    BY <2>1, <2>2
<1>6. g[S] = IF S = {} THEN 0 ELSE f[Taken(S)] + g[T]
  <2> HIDE DEF g
  <2> QED
    BY <1>2 DEF Sums
<1> QED
  BY <1>4, <1>5, <1>6

\* The sum of nothing.
LEMMA SumEmpty ==
  ASSUME NEW f
  PROVE  SumFunctionOnSet(f, {}) = 0
BY SumRecursion, FS_EmptySet

\* A sum of integers is one.
LEMMA SumInt ==
  ASSUME NEW f, NEW S, IsFiniteSet(S), \A x \in S : f[x] \in Int
  PROVE  SumFunctionOnSet(f, S) \in Int
<1> DEFINE N == {n \in Nat : \A T \in SUBSET S :
                   Cardinality(T) = n => SumFunctionOnSet(f, T) \in Int}
<1>1. 0 \in N
  <2> SUFFICES ASSUME NEW T \in SUBSET S, Cardinality(T) = 0
               PROVE  SumFunctionOnSet(f, T) \in Int
    OBVIOUS
  <2>1. T = {}
    BY FS_Subset, FS_EmptySet
  <2> QED
    BY <2>1, SumEmpty
<1>2. ASSUME NEW n \in Nat, n \in N
      PROVE  n + 1 \in N
  <2> SUFFICES ASSUME NEW T \in SUBSET S, Cardinality(T) = n + 1
               PROVE  SumFunctionOnSet(f, T) \in Int
    OBVIOUS
  <2>1. IsFiniteSet(T) /\ T # {}
    BY FS_Subset, FS_EmptySet
  <2>2. Taken(T) \in T
    BY <2>1, TakenFacts
  <2>3. Cardinality(T \ {Taken(T)}) = n
    <3>1. Cardinality(T \ {Taken(T)}) = Cardinality(T) - 1
      BY <2>1, <2>2, FS_RemoveElement
    <3> QED
      BY <3>1
  <2>4. SumFunctionOnSet(f, T \ {Taken(T)}) \in Int
    BY <1>2, <2>3
  <2>5. SumFunctionOnSet(f, T) = f[Taken(T)] + SumFunctionOnSet(f, T \ {Taken(T)})
    BY <2>1, SumRecursion
  <2> QED
    BY <2>2, <2>4, <2>5
<1> HIDE DEF N
<1>3. Cardinality(S) \in N
  BY <1>1, <1>2, NatInd, FS_CardinalityType
<1> QED
  BY <1>3 DEF N

\* The elements may be taken in any order.
LEMMA SumTake ==
  ASSUME NEW f, NEW S, IsFiniteSet(S), \A y \in S : f[y] \in Int, NEW x \in S
  PROVE  SumFunctionOnSet(f, S) = f[x] + SumFunctionOnSet(f, S \ {x})
<1> DEFINE Any(T) == \A y \in T :
             SumFunctionOnSet(f, T) = f[y] + SumFunctionOnSet(f, T \ {y})
           N == {n \in Nat : \A T \in SUBSET S : Cardinality(T) = n => Any(T)}
<1>1. 0 \in N
  BY FS_Subset, FS_EmptySet
<1>2. ASSUME NEW n \in Nat, n \in N
      PROVE  n + 1 \in N
  <2> SUFFICES ASSUME NEW T \in SUBSET S, Cardinality(T) = n + 1, NEW y \in T
               PROVE  SumFunctionOnSet(f, T) = f[y] + SumFunctionOnSet(f, T \ {y})
    OBVIOUS
  <2> DEFINE c == Taken(T)
  <2>1. IsFiniteSet(T) /\ IsFiniteSet(T \ {c}) /\ IsFiniteSet(T \ {y})
    BY FS_Subset
  <2>2. c \in T
    BY TakenFacts
  <2>3. SumFunctionOnSet(f, T) = f[c] + SumFunctionOnSet(f, T \ {c})
    BY <2>1, SumRecursion
  <2>4. CASE y = c
    BY <2>3, <2>4
  <2>5. CASE y # c
    <3>1. Cardinality(T \ {c}) = n /\ Cardinality(T \ {y}) = n
      <4>1. /\ Cardinality(T \ {c}) = Cardinality(T) - 1
            /\ Cardinality(T \ {y}) = Cardinality(T) - 1
        BY <2>1, <2>2, FS_RemoveElement
      <4> QED
        BY <4>1
    <3>2. Any(T \ {c}) /\ Any(T \ {y})
      BY <1>2, <3>1
    <3>3. /\ SumFunctionOnSet(f, T \ {c}) = f[y] + SumFunctionOnSet(f, (T \ {c}) \ {y})
          /\ SumFunctionOnSet(f, T \ {y}) = f[c] + SumFunctionOnSet(f, (T \ {y}) \ {c})
      <4> HIDE DEF c
      <4> QED
        BY <2>2, <2>5, <3>2
    <3>4. SumFunctionOnSet(f, (T \ {y}) \ {c}) = SumFunctionOnSet(f, (T \ {c}) \ {y})
      <4>1. (T \ {y}) \ {c} = (T \ {c}) \ {y}
        OBVIOUS
      <4> QED
        BY <4>1, Zenon
    <3>5. SumFunctionOnSet(f, (T \ {c}) \ {y}) \in Int
      <4>1. IsFiniteSet((T \ {c}) \ {y})
        BY <2>1, FS_Subset
      <4> QED
        BY <4>1, SumInt
    <3>6. f[c] \in Int /\ f[y] \in Int
      BY <2>2
    <3> DEFINE rest == SumFunctionOnSet(f, (T \ {c}) \ {y})
               noC == SumFunctionOnSet(f, T \ {c})
               noY == SumFunctionOnSet(f, T \ {y})
               all == SumFunctionOnSet(f, T)
    <3>7. all = f[c] + noC /\ noC = f[y] + rest /\ noY = f[c] + rest /\ rest \in Int
      BY <2>3, <3>3, <3>4, <3>5
    <3> HIDE DEF c, rest, noC, noY, all
    <3>8. all = f[y] + noY
      BY <3>6, <3>7
    <3> QED
      BY <3>8 DEF all, noY
  <2> QED
    BY <2>4, <2>5
<1> HIDE DEF N
<1>3. Cardinality(S) \in N
  BY <1>1, <1>2, NatInd, FS_CardinalityType
<1> QED
  BY <1>3 DEF N

\* A new element adds its value.
LEMMA SumAdd ==
  ASSUME NEW f, NEW T, IsFiniteSet(T), NEW x, x \notin T, \A y \in T \cup {x} : f[y] \in Int
  PROVE  SumFunctionOnSet(f, T \cup {x}) = SumFunctionOnSet(f, T) + f[x]
<1>1. IsFiniteSet(T \cup {x}) /\ (T \cup {x}) \ {x} = T /\ x \in T \cup {x}
  BY FS_AddElement
<1>2. SumFunctionOnSet(f, T \cup {x}) = f[x] + SumFunctionOnSet(f, (T \cup {x}) \ {x})
  BY <1>1, SumTake
<1>3. SumFunctionOnSet(f, T \cup {x}) = f[x] + SumFunctionOnSet(f, T)
  BY <1>1, <1>2, Zenon
<1>4. SumFunctionOnSet(f, T) \in Int /\ f[x] \in Int
  BY SumInt
<1> QED
  BY <1>3, <1>4

\* A sum of natural numbers is one.
LEMMA SumNat ==
  ASSUME NEW f, NEW S, IsFiniteSet(S), \A x \in S : f[x] \in Nat
  PROVE  SumFunctionOnSet(f, S) \in Nat
<1> DEFINE P == {T \in SUBSET S : SumFunctionOnSet(f, T) \in Nat}
<1>1. {} \in P
  BY SumEmpty
<1>2. ASSUME NEW T \in SUBSET S, NEW x \in S \ T, T \in P
      PROVE  T \cup {x} \in P
  <2>1. IsFiniteSet(T)
    BY FS_Subset
  <2>2. SumFunctionOnSet(f, T \cup {x}) = SumFunctionOnSet(f, T) + f[x]
    BY <2>1, SumAdd
  <2> QED
    BY <1>2, <2>2
<1> HIDE DEF P
<1>3. S \in P
  BY <1>1, <1>2, SubsetInd
<1> QED
  BY <1>3 DEF P

-----------------------------------------------------------------------------
(* How sums compare.                                                       *)

\* The same values have the same sum.
LEMMA SumSame ==
  ASSUME NEW f, NEW g, NEW S, IsFiniteSet(S), \A x \in S : f[x] \in Int /\ g[x] = f[x]
  PROVE  SumFunctionOnSet(g, S) = SumFunctionOnSet(f, S)
<1> DEFINE P == {T \in SUBSET S : SumFunctionOnSet(g, T) = SumFunctionOnSet(f, T)}
<1>1. {} \in P
  BY SumEmpty
<1>2. ASSUME NEW T \in SUBSET S, NEW x \in S \ T, T \in P
      PROVE  T \cup {x} \in P
  <2>1. IsFiniteSet(T)
    BY FS_Subset
  <2>2. SumFunctionOnSet(f, T \cup {x}) = SumFunctionOnSet(f, T) + f[x]
    BY <2>1, SumAdd
  <2>3. SumFunctionOnSet(g, T \cup {x}) = SumFunctionOnSet(g, T) + g[x]
    BY <2>1, SumAdd
  <2> QED
    BY <1>2, <2>2, <2>3
<1> HIDE DEF P
<1>3. S \in P
  BY <1>1, <1>2, SubsetInd
<1> QED
  BY <1>3 DEF P

\* The sum of a sum, value by value.
LEMMA SumPlus ==
  ASSUME NEW f, NEW g, NEW h, NEW S, IsFiniteSet(S),
         \A x \in S : f[x] \in Int /\ g[x] \in Int /\ h[x] = f[x] + g[x]
  PROVE  SumFunctionOnSet(h, S) = SumFunctionOnSet(f, S) + SumFunctionOnSet(g, S)
<1> DEFINE P == {T \in SUBSET S :
                   SumFunctionOnSet(h, T) = SumFunctionOnSet(f, T) + SumFunctionOnSet(g, T)}
<1>1. {} \in P
  BY SumEmpty
<1>2. ASSUME NEW T \in SUBSET S, NEW x \in S \ T, T \in P
      PROVE  T \cup {x} \in P
  <2>1. IsFiniteSet(T) /\ f[x] \in Int /\ g[x] \in Int /\ h[x] \in Int /\ h[x] = f[x] + g[x]
    BY FS_Subset
  <2>2. SumFunctionOnSet(f, T \cup {x}) = SumFunctionOnSet(f, T) + f[x]
    BY <2>1, SumAdd
  <2>3. SumFunctionOnSet(g, T \cup {x}) = SumFunctionOnSet(g, T) + g[x]
    BY <2>1, SumAdd
  <2>4. SumFunctionOnSet(h, T \cup {x}) = SumFunctionOnSet(h, T) + h[x]
    <3>1. \A y \in S : h[y] \in Int
      OBVIOUS
    <3> QED
      BY <2>1, <3>1, SumAdd
  <2>5. SumFunctionOnSet(f, T) \in Int /\ SumFunctionOnSet(g, T) \in Int
    BY <2>1, SumInt
  <2>6. SumFunctionOnSet(h, T) = SumFunctionOnSet(f, T) + SumFunctionOnSet(g, T)
    BY <1>2
  <2>7. SumFunctionOnSet(h, T \cup {x})
          = SumFunctionOnSet(f, T \cup {x}) + SumFunctionOnSet(g, T \cup {x})
    BY <2>1, <2>2, <2>3, <2>4, <2>5, <2>6
  <2> QED
    BY <1>2, <2>7
<1> HIDE DEF P
<1>3. S \in P
  BY <1>1, <1>2, SubsetInd
<1> QED
  BY <1>3 DEF P

\* A common factor may be taken out.
LEMMA SumScale ==
  ASSUME NEW f, NEW h, NEW c \in Int, NEW S, IsFiniteSet(S),
         \A x \in S : f[x] \in Int /\ h[x] = c * f[x]
  PROVE  SumFunctionOnSet(h, S) = c * SumFunctionOnSet(f, S)
<1> DEFINE P == {T \in SUBSET S : SumFunctionOnSet(h, T) = c * SumFunctionOnSet(f, T)}
<1>1. {} \in P
  BY SumEmpty
<1>2. ASSUME NEW T \in SUBSET S, NEW x \in S \ T, T \in P
      PROVE  T \cup {x} \in P
  <2>1. IsFiniteSet(T) /\ f[x] \in Int /\ h[x] = c * f[x]
    BY FS_Subset
  <2>2. SumFunctionOnSet(f, T \cup {x}) = SumFunctionOnSet(f, T) + f[x]
    BY <2>1, SumAdd
  <2>3. SumFunctionOnSet(h, T \cup {x}) = SumFunctionOnSet(h, T) + h[x]
    <3>1. \A y \in S : h[y] \in Int
      OBVIOUS
    <3> QED
      BY <2>1, <3>1, SumAdd
  <2>4. SumFunctionOnSet(f, T) \in Int
    BY <2>1, SumInt
  <2>5. \A a, b \in Int : c * a + c * b = c * (a + b)
    OBVIOUS
  <2>6. SumFunctionOnSet(h, T \cup {x}) = c * SumFunctionOnSet(f, T \cup {x})
    <3>1. SumFunctionOnSet(h, T \cup {x}) = c * SumFunctionOnSet(f, T) + c * f[x]
      BY <1>2, <2>1, <2>3
    <3>2. c * SumFunctionOnSet(f, T) + c * f[x] = c * (SumFunctionOnSet(f, T) + f[x])
      BY <2>1, <2>4, <2>5
    <3> QED
      BY <2>2, <3>1, <3>2, Zenon
  <2> QED
    BY <1>2, <2>6
<1> HIDE DEF P
<1>3. S \in P
  BY <1>1, <1>2, SubsetInd
<1> QED
  BY <1>3 DEF P

\* Values that are no higher have a sum that is no higher.
LEMMA SumMono ==
  ASSUME NEW f, NEW g, NEW S, IsFiniteSet(S),
         \A x \in S : f[x] \in Int /\ g[x] \in Int /\ f[x] <= g[x]
  PROVE  SumFunctionOnSet(f, S) <= SumFunctionOnSet(g, S)
<1> DEFINE P == {T \in SUBSET S : SumFunctionOnSet(f, T) <= SumFunctionOnSet(g, T)}
<1>1. {} \in P
  BY SumEmpty
<1>2. ASSUME NEW T \in SUBSET S, NEW x \in S \ T, T \in P
      PROVE  T \cup {x} \in P
  <2>1. IsFiniteSet(T) /\ f[x] \in Int /\ g[x] \in Int /\ f[x] <= g[x]
    BY FS_Subset
  <2>2. SumFunctionOnSet(f, T \cup {x}) = SumFunctionOnSet(f, T) + f[x]
    BY <2>1, SumAdd
  <2>3. SumFunctionOnSet(g, T \cup {x}) = SumFunctionOnSet(g, T) + g[x]
    BY <2>1, SumAdd
  <2>4. SumFunctionOnSet(f, T) \in Int /\ SumFunctionOnSet(g, T) \in Int
    BY <2>1, SumInt
  <2> QED
    BY <1>2, <2>1, <2>2, <2>3, <2>4
<1> HIDE DEF P
<1>3. S \in P
  BY <1>1, <1>2, SubsetInd
<1> QED
  BY <1>3 DEF P

\* If one of them is lower, so is the sum.
LEMMA SumStrict ==
  ASSUME NEW f, NEW g, NEW S, IsFiniteSet(S), NEW y \in S, f[y] < g[y],
         \A x \in S : f[x] \in Int /\ g[x] \in Int /\ f[x] <= g[x]
  PROVE  SumFunctionOnSet(f, S) < SumFunctionOnSet(g, S)
<1>1. IsFiniteSet(S \ {y})
  BY FS_Subset
<1>2. /\ SumFunctionOnSet(f, S) = f[y] + SumFunctionOnSet(f, S \ {y})
      /\ SumFunctionOnSet(g, S) = g[y] + SumFunctionOnSet(g, S \ {y})
  BY SumTake
<1>3. /\ SumFunctionOnSet(f, S \ {y}) \in Int
      /\ SumFunctionOnSet(g, S \ {y}) \in Int
  BY <1>1, SumInt
<1>4. SumFunctionOnSet(f, S \ {y}) <= SumFunctionOnSet(g, S \ {y})
  BY <1>1, SumMono
<1> QED
  BY <1>2, <1>3, <1>4

\* Ones count the elements.
LEMMA SumCount ==
  ASSUME NEW f, NEW S, IsFiniteSet(S), \A x \in S : f[x] = 1
  PROVE  SumFunctionOnSet(f, S) = Cardinality(S)
<1> DEFINE P == {T \in SUBSET S : SumFunctionOnSet(f, T) = Cardinality(T)}
<1>1. {} \in P
  BY SumEmpty, FS_EmptySet
<1>2. ASSUME NEW T \in SUBSET S, NEW x \in S \ T, T \in P
      PROVE  T \cup {x} \in P
  <2>1. IsFiniteSet(T) /\ Cardinality(T) \in Nat
    BY FS_Subset, FS_CardinalityType
  <2>2. SumFunctionOnSet(f, T \cup {x}) = SumFunctionOnSet(f, T) + f[x]
    BY <2>1, SumAdd
  <2>3. Cardinality(T \cup {x}) = Cardinality(T) + 1
    BY <2>1, FS_AddElement
  <2> QED
    BY <1>2, <2>2, <2>3
<1> HIDE DEF P
<1>3. S \in P
  BY <1>1, <1>2, SubsetInd
<1> QED
  BY <1>3 DEF P

\* The sum over two sets that share nothing.
LEMMA SumUnion ==
  ASSUME NEW f, NEW A, NEW B, IsFiniteSet(A), IsFiniteSet(B), A \cap B = {},
         \A x \in A \cup B : f[x] \in Int
  PROVE  SumFunctionOnSet(f, A \cup B) = SumFunctionOnSet(f, A) + SumFunctionOnSet(f, B)
<1> DEFINE P == {T \in SUBSET B : SumFunctionOnSet(f, A \cup T)
                   = SumFunctionOnSet(f, A) + SumFunctionOnSet(f, T)}
<1>0. SumFunctionOnSet(f, A) \in Int
  BY SumInt
<1>1. {} \in P
  <2>1. A \cup {} = A
    OBVIOUS
  <2>2. SumFunctionOnSet(f, A \cup {}) = SumFunctionOnSet(f, A)
    BY <2>1, Zenon
  <2> QED
    BY <1>0, <2>2, SumEmpty
<1>2. ASSUME NEW T \in SUBSET B, NEW x \in B \ T, T \in P
      PROVE  T \cup {x} \in P
  <2>1. IsFiniteSet(T) /\ IsFiniteSet(A \cup T) /\ x \notin A \cup T /\ f[x] \in Int
    BY FS_Subset, FS_Union
  <2>2. SumFunctionOnSet(f, T \cup {x}) = SumFunctionOnSet(f, T) + f[x]
    BY <2>1, SumAdd
  <2>3. SumFunctionOnSet(f, (A \cup T) \cup {x}) = SumFunctionOnSet(f, A \cup T) + f[x]
    BY <2>1, SumAdd
  <2>4. SumFunctionOnSet(f, A \cup (T \cup {x})) = SumFunctionOnSet(f, (A \cup T) \cup {x})
    <3>1. A \cup (T \cup {x}) = (A \cup T) \cup {x}
      OBVIOUS
    <3> QED
      BY <3>1, Zenon
  <2>5. SumFunctionOnSet(f, T) \in Int
    BY <2>1, SumInt
  <2>6. SumFunctionOnSet(f, A \cup T) = SumFunctionOnSet(f, A) + SumFunctionOnSet(f, T)
    BY <1>2
  <2> DEFINE all == SumFunctionOnSet(f, A \cup (T \cup {x}))
             a == SumFunctionOnSet(f, A)
             t == SumFunctionOnSet(f, T)
             more == SumFunctionOnSet(f, T \cup {x})
  <2>7. more = t + f[x] /\ all = (a + t) + f[x] /\ a \in Int /\ t \in Int
    BY <1>0, <2>2, <2>3, <2>4, <2>5, <2>6
  <2> HIDE DEF all, a, t, more
  <2>8. all = a + more
    BY <2>1, <2>7
  <2> QED
    BY <1>2, <2>8 DEF all, a, more
<1> HIDE DEF P
<1>3. B \in P
  BY <1>1, <1>2, SubsetInd
<1> QED
  BY <1>3 DEF P

\* A sum may be made group by group: total[k] is that of the elements of key k.
LEMMA SumGroups ==
  ASSUME NEW f, NEW S, IsFiniteSet(S), \A x \in S : f[x] \in Int,
         NEW K, IsFiniteSet(K), NEW key, \A x \in S : key[x] \in K,
         NEW total, \A k \in K : total[k] = SumFunctionOnSet(f, {x \in S : key[x] = k})
  PROVE  SumFunctionOnSet(total, K) = SumFunctionOnSet(f, S)
<1> DEFINE In(L) == {x \in S : key[x] \in L}
           P == {L \in SUBSET K : SumFunctionOnSet(total, L) = SumFunctionOnSet(f, In(L))}
<1>0. \A L : IsFiniteSet(In(L))
  BY FS_Subset
<1>1. {} \in P
  <2>1. In({}) = {}
    OBVIOUS
  <2>2. SumFunctionOnSet(f, In({})) = 0
    BY <2>1, SumEmpty, Zenon
  <2> QED
    BY <2>2, SumEmpty
<1>2. ASSUME NEW L \in SUBSET K, NEW k \in K \ L, L \in P
      PROVE  L \cup {k} \in P
  <2> DEFINE G == {x \in S : key[x] = k}
  <2>1. IsFiniteSet(G) /\ IsFiniteSet(L)
    BY FS_Subset
  <2>2. \A j \in K : total[j] \in Int
    <3> SUFFICES ASSUME NEW j \in K
                 PROVE  total[j] \in Int
      OBVIOUS
    <3>1. IsFiniteSet({x \in S : key[x] = j})
      BY FS_Subset
    <3>2. SumFunctionOnSet(f, {x \in S : key[x] = j}) \in Int
      BY <3>1, SumInt
    <3> QED
      BY <3>2
  <2>3. SumFunctionOnSet(total, L \cup {k}) = SumFunctionOnSet(total, L) + total[k]
    BY <2>1, <2>2, SumAdd
  <2>4. SumFunctionOnSet(f, In(L) \cup G) = SumFunctionOnSet(f, In(L)) + SumFunctionOnSet(f, G)
    <3>1. In(L) \cap G = {} /\ \A x \in In(L) \cup G : f[x] \in Int
      OBVIOUS
    <3> HIDE DEF In, G
    <3> QED
      BY <1>0, <2>1, <3>1, SumUnion
  <2>5. In(L \cup {k}) = In(L) \cup G
    OBVIOUS
  <2>6. SumFunctionOnSet(f, In(L \cup {k})) = SumFunctionOnSet(f, In(L) \cup G)
    BY <2>5, Zenon
  <2>7. total[k] = SumFunctionOnSet(f, G)
    OBVIOUS
  <2>8. SumFunctionOnSet(total, L) = SumFunctionOnSet(f, In(L))
    BY <1>2
  <2> HIDE DEF In, G
  <2>9. SumFunctionOnSet(total, L \cup {k}) = SumFunctionOnSet(f, In(L \cup {k}))
    BY <2>3, <2>4, <2>6, <2>7, <2>8
  <2> QED
    BY <1>2, <2>9
<1>3. In(K) = S
  OBVIOUS
<1> HIDE DEF P, In
<1>4. K \in P
  BY <1>1, <1>2, SubsetInd
<1> QED
  BY <1>3, <1>4 DEF P

\* The mean of fractions, made of the sums of their numerators and of their
\* denominators, lies between two of them, those without weight left out.
LEMMA SumMediant ==
  ASSUME NEW made, NEW tried, NEW S, IsFiniteSet(S),
         \A x \in S : made[x] \in Int /\ tried[x] \in Int,
         NEW G \in SUBSET S, G # {}, \A x \in S \ G : made[x] = 0 /\ tried[x] = 0,
         NEW m, m = SumFunctionOnSet(made, S), NEW n, n = SumFunctionOnSet(tried, S)
  PROVE  /\ \E x \in G : made[x] * n <= m * tried[x]
         /\ \E x \in G : made[x] * n >= m * tried[x]
<1> DEFINE own == [x \in S |-> n * made[x]]
           mean == [x \in S |-> m * tried[x]]
<1>1. m \in Int /\ n \in Int
  BY SumInt
<1>2. \A a, b \in Int : a * b \in Int /\ a * b = b * a
  OBVIOUS
<1>3. \A x \in S : own[x] \in Int /\ mean[x] \in Int
  BY <1>1, <1>2
<1>4. SumFunctionOnSet(own, S) = n * m /\ SumFunctionOnSet(mean, S) = m * n
  <2>1. \A x \in S : made[x] \in Int /\ own[x] = n * made[x]
    OBVIOUS
  <2>2. \A x \in S : tried[x] \in Int /\ mean[x] = m * tried[x]
    OBVIOUS
  <2> HIDE DEF own, mean
  <2>3. SumFunctionOnSet(own, S) = n * m
    BY <1>1, <2>1, SumScale
  <2>4. SumFunctionOnSet(mean, S) = m * n
    BY <1>1, <2>2, SumScale
  <2> QED
    BY <2>3, <2>4
<1>5. SumFunctionOnSet(own, S) = SumFunctionOnSet(mean, S) /\ n * m \in Int
  BY <1>1, <1>2, <1>4
<1>6. \A x \in S \ G : own[x] = 0 /\ mean[x] = 0
  BY <1>1
<1>7. \A x \in S : own[x] = made[x] * n /\ mean[x] = m * tried[x]
  BY <1>1, <1>2
<1>8. PICK y \in G : TRUE
  OBVIOUS
<1> HIDE DEF own, mean
<1>9. \E x \in G : own[x] <= mean[x]
  <2> SUFFICES ASSUME \A x \in G : mean[x] < own[x]
               PROVE  FALSE
    BY <1>3
  <2>1. \A x \in S : mean[x] <= own[x]
    BY <1>3, <1>6
  <2>2. SumFunctionOnSet(mean, S) < SumFunctionOnSet(own, S)
    BY <1>3, <1>8, <2>1, SumStrict
  <2> QED
    BY <1>4, <1>5, <2>2
<1>10. \E x \in G : own[x] >= mean[x]
  <2> SUFFICES ASSUME \A x \in G : own[x] < mean[x]
               PROVE  FALSE
    BY <1>3
  <2>1. \A x \in S : own[x] <= mean[x]
    BY <1>3, <1>6
  <2>2. SumFunctionOnSet(own, S) < SumFunctionOnSet(mean, S)
    BY <1>3, <1>8, <2>1, SumStrict
  <2> QED
    BY <1>4, <1>5, <2>2
<1> QED
  BY <1>7, <1>9, <1>10

\* One more value, with what is needed to add the next.
LEMMA SumMore ==
  ASSUME NEW f, NEW T, IsFiniteSet(T), \A y \in T : f[y] \in Int,
         NEW x, x \notin T, f[x] \in Int, NEW S, S = T \cup {x}
  PROVE  /\ IsFiniteSet(S) /\ \A y \in S : f[y] \in Int
         /\ Cardinality(S) = Cardinality(T) + 1
         /\ SumFunctionOnSet(f, S) = SumFunctionOnSet(f, T) + f[x]
<1>1. IsFiniteSet(T \cup {x}) /\ Cardinality(T \cup {x}) = Cardinality(T) + 1
  BY FS_AddElement
<1>2. SumFunctionOnSet(f, T \cup {x}) = SumFunctionOnSet(f, T) + f[x]
  BY SumAdd
<1> QED
  BY <1>1, <1>2

\* A single value.
LEMMA SumOne ==
  ASSUME NEW f, NEW a, f[a] \in Int, NEW S, S = {a}
  PROVE  /\ IsFiniteSet(S) /\ Cardinality(S) = 1 /\ \A y \in S : f[y] \in Int
         /\ SumFunctionOnSet(f, S) = f[a]
<1>1. IsFiniteSet({}) /\ Cardinality({}) = 0 /\ SumFunctionOnSet(f, {}) = 0
  BY SumEmpty, FS_EmptySet
<1>2. S = {} \cup {a} /\ a \notin {} /\ \A y \in {} : f[y] \in Int
  OBVIOUS
<1>3. /\ IsFiniteSet(S) /\ Cardinality(S) = Cardinality({}) + 1
      /\ SumFunctionOnSet(f, S) = SumFunctionOnSet(f, {}) + f[a]
  BY <1>1, <1>2, SumMore
<1> QED
  BY <1>1, <1>3

\* Three values.
LEMMA SumThree ==
  ASSUME NEW f, NEW a, NEW b, NEW c, a # b, a # c, b # c,
         f[a] \in Int, f[b] \in Int, f[c] \in Int, NEW S, S = {a, b, c}
  PROVE  /\ IsFiniteSet(S) /\ Cardinality(S) = 3 /\ \A y \in S : f[y] \in Int
         /\ SumFunctionOnSet(f, S) = f[a] + f[b] + f[c]
<1> DEFINE one == {a}
           two == {a, b}
<1>1. /\ two = one \cup {b} /\ S = two \cup {c}
      /\ b \notin one /\ c \notin two
  OBVIOUS
<1>2. one = {a}
  OBVIOUS
<1> HIDE DEF one, two
<1>3. /\ IsFiniteSet(one) /\ Cardinality(one) = 1 /\ \A y \in one : f[y] \in Int
      /\ SumFunctionOnSet(f, one) = f[a]
  BY <1>2, SumOne
<1>4. /\ IsFiniteSet(two) /\ \A y \in two : f[y] \in Int
      /\ Cardinality(two) = Cardinality(one) + 1
      /\ SumFunctionOnSet(f, two) = SumFunctionOnSet(f, one) + f[b]
  BY <1>1, <1>3, SumMore
<1>5. /\ IsFiniteSet(S) /\ \A y \in S : f[y] \in Int
      /\ Cardinality(S) = Cardinality(two) + 1
      /\ SumFunctionOnSet(f, S) = SumFunctionOnSet(f, two) + f[c]
  BY <1>1, <1>4, SumMore
<1> QED
  BY <1>3, <1>4, <1>5

\* Four values.
LEMMA SumFour ==
  ASSUME NEW f, NEW a, NEW b, NEW c, NEW d, a # b, a # c, b # c, d \notin {a, b, c},
         f[a] \in Int, f[b] \in Int, f[c] \in Int, f[d] \in Int, NEW S, S = {a, b, c, d}
  PROVE  /\ IsFiniteSet(S) /\ Cardinality(S) = 4 /\ \A y \in S : f[y] \in Int
         /\ SumFunctionOnSet(f, S) = f[a] + f[b] + f[c] + f[d]
<1> DEFINE one == {a}
           two == {a, b}
           three == {a, b, c}
<1>1. /\ two = one \cup {b} /\ three = two \cup {c} /\ S = three \cup {d}
      /\ b \notin one /\ c \notin two /\ d \notin three
  OBVIOUS
<1>2. one = {a}
  OBVIOUS
<1> HIDE DEF one, two, three
<1>3. /\ IsFiniteSet(one) /\ Cardinality(one) = 1 /\ \A y \in one : f[y] \in Int
      /\ SumFunctionOnSet(f, one) = f[a]
  BY <1>2, SumOne
<1>4. /\ IsFiniteSet(two) /\ \A y \in two : f[y] \in Int
      /\ Cardinality(two) = Cardinality(one) + 1
      /\ SumFunctionOnSet(f, two) = SumFunctionOnSet(f, one) + f[b]
  BY <1>1, <1>3, SumMore
<1>5. /\ IsFiniteSet(three) /\ \A y \in three : f[y] \in Int
      /\ Cardinality(three) = Cardinality(two) + 1
      /\ SumFunctionOnSet(f, three) = SumFunctionOnSet(f, two) + f[c]
  BY <1>1, <1>4, SumMore
<1>6. /\ IsFiniteSet(S) /\ \A y \in S : f[y] \in Int
      /\ Cardinality(S) = Cardinality(three) + 1
      /\ SumFunctionOnSet(f, S) = SumFunctionOnSet(f, three) + f[d]
  BY <1>1, <1>5, SumMore
<1> QED
  BY <1>3, <1>4, <1>5, <1>6
=============================================================================
