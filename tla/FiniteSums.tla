------------------------------ MODULE FiniteSums ------------------------------
(***************************************************************************)
(* What the proofs need to know of finite sets, sums over them and their   *)
(* sorted lists: SumFunctionOnSet(f, S), which the community modules       *)
(* define by a choice of one element after another, does not depend on the *)
(* choices.  Nothing here is about the repository.                         *)
(***************************************************************************)
EXTENDS Integers, FiniteSetsExt, Functions, FiniteSetTheorems, WellFoundedInduction, TLAPS

-----------------------------------------------------------------------------
(* Induction, over sets in place of formulas. *)

\* A set of numbers with 0 and each number's successor has all numbers.
LEMMA AllNumbers ==
  ASSUME NEW S \in SUBSET Nat, 0 \in S, \A k \in S : k + 1 \in S
  PROVE  S = Nat
<1> SUFFICES ASSUME Nat \ S # {} PROVE FALSE
  OBVIOUS
<1> DEFINE R == OpToRel(<, Nat)
<1>1. \E x \in Nat \ S : \A y \in Nat \ S : ~(<<y, x>> \in R)
  BY NatLessThanWellFounded, WFMin
<1>2. \A x, y \in Nat : <<y, x>> \in R <=> y < x
  BY DEF OpToRel
<1> HIDE DEF R
<1>3. PICK x \in Nat \ S : \A y \in Nat \ S : ~(<<y, x>> \in R)
  BY <1>1
<1>4. x # 0 /\ x - 1 \in Nat /\ x - 1 < x
  BY <1>3
<1>5. x - 1 \in S
  BY <1>2, <1>3, <1>4
<1>6. (x - 1) + 1 \in S
  BY <1>5
<1> QED
  BY <1>3, <1>4, <1>6

\* A collection of sets that has the empty one, and each of its sets with one
\* element more, has every finite set.
LEMMA AllFiniteSets ==
  ASSUME NEW S, IsFiniteSet(S), NEW Good, {} \in Good,
         \A T \in SUBSET S : \A x \in S \ T : T \in Good => T \cup {x} \in Good
  PROVE  S \in Good
<1> DEFINE K == {n \in Nat : \A T \in SUBSET S : Cardinality(T) = n => T \in Good}
<1>1. \A T \in SUBSET S : IsFiniteSet(T) /\ Cardinality(T) \in Nat
  BY FS_Subset, FS_CardinalityType
<1>2. 0 \in K
  BY <1>1, FS_EmptySet
<1>3. ASSUME NEW n \in K PROVE n + 1 \in K
  <2> SUFFICES ASSUME NEW T \in SUBSET S, Cardinality(T) = n + 1 PROVE T \in Good
    OBVIOUS
  <2>1. n \in Nat /\ T # {}
    BY <1>3, FS_EmptySet
  <2>2. PICK x \in T : TRUE
    BY <2>1
  <2> DEFINE U == T \ {x}
  <2>3. Cardinality(U) = n
    <3>1. IsFiniteSet(T) /\ x \in T
      BY <1>1
    <3>2. Cardinality(T \ {x}) = Cardinality(T) - 1
      BY <3>1, FS_RemoveElement
    <3> QED
      BY <2>1, <3>2
  <2>4. U \in SUBSET S /\ x \in S \ U /\ T = U \cup {x}
    OBVIOUS
  <2> HIDE DEF U
  <2>5. U \in Good
    BY <1>3, <2>3, <2>4
  <2> QED
    BY <2>4, <2>5
<1>4. K = Nat
  <2>1. K \subseteq Nat
    OBVIOUS
  <2> HIDE DEF K
  <2> QED
    BY <1>2, <1>3, <2>1, AllNumbers
<1>5. Cardinality(S) \in K
  BY <1>1, <1>4
<1> QED
  BY <1>5

\* A nonempty finite set has a first element in any strict order of all of it.
LEMMA FirstExists ==
  ASSUME NEW S, IsFiniteSet(S), S # {}, NEW R,
         \A x, y, z \in S : <<x, y>> \in R /\ <<y, z>> \in R => <<x, z>> \in R,
         \A x, y \in S : x = y \/ <<x, y>> \in R \/ <<y, x>> \in R
  PROVE  \E b \in S : \A e \in S \ {b} : <<b, e>> \in R
<1> DEFINE First(b, T) == b \in T /\ \A e \in T \ {b} : <<b, e>> \in R
           Good == {T \in SUBSET S : T # {} => \E b \in T : First(b, T)}
<1>1. {} \in Good
  OBVIOUS
<1>2. ASSUME NEW T \in SUBSET S, NEW x \in S \ T, T \in Good PROVE T \cup {x} \in Good
  <2>1. CASE T = {}
    <3>1. First(x, T \cup {x})
      BY <2>1
    <3> QED
      BY <3>1
  <2>2. CASE T # {}
    <3>1. PICK b \in T : First(b, T)
      BY <1>2, <2>2
    <3>2. CASE <<b, x>> \in R
      <4>1. First(b, T \cup {x})
        BY <3>1, <3>2
      <4> QED
        BY <4>1
    <3>3. CASE <<x, b>> \in R
      <4>1. First(x, T \cup {x})
        BY <3>1, <3>3
      <4> QED
        BY <4>1
    <3> QED
      BY <3>2, <3>3
  <2> QED
    BY <2>1, <2>2
<1> HIDE DEF Good
<1>3. S \in Good
  BY <1>1, <1>2, AllFiniteSets
<1> QED
  BY <1>3 DEF Good

\* A nonempty finite set of numbers has a least and a greatest one.
LEMMA LeastAndGreatest ==
  ASSUME NEW S \in SUBSET Int, IsFiniteSet(S), S # {}
  PROVE  /\ Min(S) \in S /\ \A y \in S : Min(S) <= y
         /\ Max(S) \in S /\ \A y \in S : Max(S) >= y
<1> DEFINE Below == {p \in S \X S : p[1] < p[2]}
           Above == {p \in S \X S : p[1] > p[2]}
<1>1. \E b \in S : \A e \in S \ {b} : <<b, e>> \in Below
  <2>1. /\ \A x, y, z \in S : <<x, y>> \in Below /\ <<y, z>> \in Below => <<x, z>> \in Below
        /\ \A x, y \in S : x = y \/ <<x, y>> \in Below \/ <<y, x>> \in Below
    OBVIOUS
  <2> HIDE DEF Below
  <2> QED
    BY <2>1, FirstExists
<1>2. \E b \in S : \A e \in S \ {b} : <<b, e>> \in Above
  <2>1. /\ \A x, y, z \in S : <<x, y>> \in Above /\ <<y, z>> \in Above => <<x, z>> \in Above
        /\ \A x, y \in S : x = y \/ <<x, y>> \in Above \/ <<y, x>> \in Above
    OBVIOUS
  <2> HIDE DEF Above
  <2> QED
    BY <2>1, FirstExists
<1>3. \E x \in S : \A y \in S : x <= y
  <2>1. PICK b \in S : \A e \in S \ {b} : <<b, e>> \in Below
    BY <1>1
  <2>2. \A x, y \in S : <<x, y>> \in Below => x < y
    OBVIOUS
  <2> HIDE DEF Below
  <2>3. ASSUME NEW e \in S PROVE b <= e
    <3>1. e \in Int /\ b \in Int
      OBVIOUS
    <3>2. CASE e = b
      BY <3>1, <3>2
    <3>3. CASE e # b
      <4>1. e \in S \ {b}
        BY <3>3
      <4>2. <<b, e>> \in Below
        BY <2>1, <4>1
      <4>3. b < e
        BY <2>2, <4>2
      <4> QED
        BY <3>1, <4>3
    <3> QED
      BY <3>2, <3>3
  <2> QED
    BY <2>3
<1>4. \E x \in S : \A y \in S : x >= y
  <2>1. PICK b \in S : \A e \in S \ {b} : <<b, e>> \in Above
    BY <1>2
  <2>2. \A x, y \in S : <<x, y>> \in Above => x > y
    OBVIOUS
  <2> HIDE DEF Above
  <2>3. ASSUME NEW e \in S PROVE b >= e
    <3>1. e \in Int /\ b \in Int
      OBVIOUS
    <3>2. CASE e = b
      BY <3>1, <3>2
    <3>3. CASE e # b
      <4>1. e \in S \ {b}
        BY <3>3
      <4>2. <<b, e>> \in Above
        BY <2>1, <4>1
      <4>3. b > e
        BY <2>2, <4>2
      <4> QED
        BY <3>1, <4>3
    <3> QED
      BY <3>2, <3>3
  <2> QED
    BY <2>3
<1> QED
  BY <1>3, <1>4 DEF Min, Max

-----------------------------------------------------------------------------
(* The sum. *)

Chosen(s) == CHOOSE x \in s : TRUE
IsIter(g, f, S) ==
  g = [s \in SUBSET S |-> IF s = {} THEN 0 ELSE f[Chosen(s)] + g[s \ {Chosen(s)}]]
IterOf(f, S) == CHOOSE g : IsIter(g, f, S)

\* The definition of the community modules, without operators as arguments.
LEMMA SumIsIter == \A f, S : SumFunctionOnSet(f, S) = IterOf(f, S)[S]
BY DEF SumFunctionOnSet, FoldFunctionOnSet, MapThenFoldSet, IterOf, IsIter, Chosen

\* The choices lead somewhere: there is an iteration over every finite set.
LEMMA IterExists ==
  ASSUME NEW f, NEW S, IsFiniteSet(S)
  PROVE  IsIter(IterOf(f, S), f, S)
<1> DEFINE Step(g, s) == IF s = {} THEN 0 ELSE f[Chosen(s)] + g[s \ {Chosen(s)}]
           Upto(g, n) == \A s \in SUBSET S : Cardinality(s) <= n => g[s] = Step(g, s)
           K == {n \in Nat : \E g : Upto(g, n)}
<1>1. \A T \in SUBSET S : IsFiniteSet(T) /\ Cardinality(T) \in Nat
  BY FS_Subset, FS_CardinalityType
<1>2. \A T \in SUBSET S : T # {} =>
        /\ Chosen(T) \in T /\ T \ {Chosen(T)} \in SUBSET S
        /\ Cardinality(T \ {Chosen(T)}) = Cardinality(T) - 1
  <2> SUFFICES ASSUME NEW T \in SUBSET S, T # {}
               PROVE  /\ Chosen(T) \in T /\ T \ {Chosen(T)} \in SUBSET S
                      /\ Cardinality(T \ {Chosen(T)}) = Cardinality(T) - 1
    OBVIOUS
  <2>1. Chosen(T) \in T
    BY DEF Chosen
  <2> QED
    BY <1>1, <2>1, FS_RemoveElement
<1>3. 0 \in K
  <2>1. \A T \in SUBSET S : Cardinality(T) <= 0 => T = {}
    BY <1>1, FS_EmptySet
  <2>2. Upto([s \in SUBSET S |-> 0], 0)
    BY <2>1
  <2> QED
    BY <2>2
<1>4. ASSUME NEW n \in K PROVE n + 1 \in K
  <2>1. n \in Nat /\ \E g : Upto(g, n)
    OBVIOUS
  <2>2. PICK g : Upto(g, n)
    BY <2>1
  <2> DEFINE h == [s \in SUBSET S |-> IF Cardinality(s) <= n THEN g[s] ELSE Step(g, s)]
  <2>3. ASSUME NEW s \in SUBSET S, Cardinality(s) <= n + 1 PROVE h[s] = Step(h, s)
    <3>1. h[s] = Step(g, s)
      BY <2>2
    <3>2. ASSUME s # {} PROVE g[s \ {Chosen(s)}] = h[s \ {Chosen(s)}]
      <4>1. s \ {Chosen(s)} \in SUBSET S /\ Cardinality(s \ {Chosen(s)}) <= n
        BY <1>1, <1>2, <2>1, <2>3, <3>2
      <4> QED
        BY <4>1
    <3> HIDE DEF h
    <3> QED
      BY <3>1, <3>2
  <2> HIDE DEF h, Step
  <2>4. Upto(h, n + 1)
    BY <2>3
  <2> QED
    BY <2>1, <2>4
<1>5. K = Nat
  <2>1. K \subseteq Nat
    OBVIOUS
  <2> HIDE DEF K
  <2> QED
    BY <1>3, <1>4, <2>1, AllNumbers
<1>6. PICK g : Upto(g, Cardinality(S))
  <2>1. Cardinality(S) \in K
    BY <1>1, <1>5
  <2> HIDE DEF Upto
  <2> QED
    BY <2>1
<1> DEFINE h == [s \in SUBSET S |-> g[s]]
<1>7. \A s \in SUBSET S : Cardinality(s) <= Cardinality(S)
  BY FS_Subset
<1>8. h = [s \in SUBSET S |-> Step(h, s)]
  <2>1. ASSUME NEW s \in SUBSET S PROVE h[s] = Step(h, s)
    <3>1. h[s] = Step(g, s)
      BY <1>6, <1>7
    <3>2. g[s \ {Chosen(s)}] = h[s \ {Chosen(s)}]
      OBVIOUS
    <3> HIDE DEF h
    <3> QED
      BY <3>1, <3>2
  <2> QED
    BY <2>1
<1> HIDE DEF h
<1>9. IsIter(h, f, S)
  BY <1>8 DEF IsIter
<1> QED
  BY <1>9 DEF IterOf

\* An iteration over a set passes through that over each of its subsets.
LEMMA IterAgrees ==
  ASSUME NEW f, NEW S, IsFiniteSet(S), NEW T \in SUBSET S
  PROVE  SumFunctionOnSet(f, T) = IterOf(f, S)[T]
<1> DEFINE g == IterOf(f, S)
           h == IterOf(f, T)
           K == {n \in Nat : \A s \in SUBSET T : Cardinality(s) = n => g[s] = h[s]}
<1>1. \A s \in SUBSET S : IsFiniteSet(s) /\ Cardinality(s) \in Nat
  BY FS_Subset, FS_CardinalityType
<1>2. IsIter(g, f, S) /\ IsIter(h, f, T)
  BY <1>1, IterExists
<1> HIDE DEF g, h
<1>3. \A s \in SUBSET T :
        /\ g[s] = IF s = {} THEN 0 ELSE f[Chosen(s)] + g[s \ {Chosen(s)}]
        /\ h[s] = IF s = {} THEN 0 ELSE f[Chosen(s)] + h[s \ {Chosen(s)}]
  BY <1>2 DEF IsIter
<1>4. 0 \in K
  BY <1>1, <1>3, FS_EmptySet
<1>5. ASSUME NEW n \in K PROVE n + 1 \in K
  <2> SUFFICES ASSUME NEW s \in SUBSET T, Cardinality(s) = n + 1 PROVE g[s] = h[s]
    OBVIOUS
  <2>1. n \in Nat /\ s # {}
    BY FS_EmptySet
  <2>2. Chosen(s) \in s
    BY <2>1 DEF Chosen
  <2>3. Cardinality(s \ {Chosen(s)}) = n
    <3>1. IsFiniteSet(s)
      BY <1>1
    <3>2. Cardinality(s \ {Chosen(s)}) = Cardinality(s) - 1
      BY <2>2, <3>1, FS_RemoveElement
    <3> QED
      BY <2>1, <3>2
  <2>4. s \ {Chosen(s)} \in SUBSET T
    OBVIOUS
  <2>5. g[s \ {Chosen(s)}] = h[s \ {Chosen(s)}]
    BY <1>5, <2>3, <2>4
  <2> QED
    BY <1>3, <2>1, <2>5
<1>6. K = Nat
  <2>1. K \subseteq Nat
    OBVIOUS
  <2> HIDE DEF K
  <2> QED
    BY <1>4, <1>5, <2>1, AllNumbers
<1>7. Cardinality(T) \in K
  BY <1>1, <1>6
<1>8. g[T] = h[T]
  BY <1>7
<1> QED
  BY <1>8, SumIsIter DEF g, h

\* The sum over no element is 0.
LEMMA SumEmpty == \A f : SumFunctionOnSet(f, {}) = 0
<1> SUFFICES ASSUME NEW f PROVE SumFunctionOnSet(f, {}) = 0
  OBVIOUS
<1>1. IsIter(IterOf(f, {}), f, {})
  BY IterExists, FS_EmptySet
<1> QED
  BY <1>1, SumIsIter DEF IsIter

\* The sum takes one element, and goes on with the others.
LEMMA SumChosen ==
  ASSUME NEW f, NEW S, IsFiniteSet(S), S # {}
  PROVE  /\ Chosen(S) \in S
         /\ SumFunctionOnSet(f, S) = f[Chosen(S)] + SumFunctionOnSet(f, S \ {Chosen(S)})
<1>1. Chosen(S) \in S
  BY DEF Chosen
<1>2. IsIter(IterOf(f, S), f, S)
  BY IterExists
<1>3. IterOf(f, S)[S] = f[Chosen(S)] + IterOf(f, S)[S \ {Chosen(S)}]
  BY <1>2 DEF IsIter
<1>4. SumFunctionOnSet(f, S \ {Chosen(S)}) = IterOf(f, S)[S \ {Chosen(S)}]
  BY IterAgrees
<1> QED
  BY <1>1, <1>3, <1>4, SumIsIter

\* Sums of integers are integers.
LEMMA SumInt ==
  ASSUME NEW S, IsFiniteSet(S), NEW f, \A x \in S : f[x] \in Int
  PROVE  SumFunctionOnSet(f, S) \in Int
<1> DEFINE K == {n \in Nat : \A T \in SUBSET S :
                   Cardinality(T) = n => SumFunctionOnSet(f, T) \in Int}
<1>1. \A T \in SUBSET S : IsFiniteSet(T) /\ Cardinality(T) \in Nat
  BY FS_Subset, FS_CardinalityType
<1>2. 0 \in K
  BY <1>1, FS_EmptySet, SumEmpty
<1>3. ASSUME NEW n \in K PROVE n + 1 \in K
  <2> SUFFICES ASSUME NEW T \in SUBSET S, Cardinality(T) = n + 1
               PROVE  SumFunctionOnSet(f, T) \in Int
    OBVIOUS
  <2>1. n \in Nat /\ T # {} /\ IsFiniteSet(T)
    BY <1>1, FS_EmptySet
  <2>2. PICK x : x = Chosen(T)
    OBVIOUS
  <2>3. x \in T /\ SumFunctionOnSet(f, T) = f[x] + SumFunctionOnSet(f, T \ {x})
    BY <2>1, <2>2, SumChosen
  <2>4. Cardinality(T \ {x}) = n
    <3>1. Cardinality(T \ {x}) = Cardinality(T) - 1
      BY <2>1, <2>3, FS_RemoveElement
    <3> QED
      BY <2>1, <3>1
  <2>5. SumFunctionOnSet(f, T \ {x}) \in Int
    BY <2>4
  <2> QED
    BY <2>3, <2>5
<1>4. K = Nat
  <2>1. K \subseteq Nat
    OBVIOUS
  <2> HIDE DEF K
  <2> QED
    BY <1>2, <1>3, <2>1, AllNumbers
<1>5. Cardinality(S) \in K
  BY <1>1, <1>4
<1> QED
  BY <1>5

\* The sum may take any element first.
LEMMA SumRemove ==
  ASSUME NEW S, IsFiniteSet(S), NEW f, \A x \in S : f[x] \in Int, NEW e \in S
  PROVE  SumFunctionOnSet(f, S) = f[e] + SumFunctionOnSet(f, S \ {e})
<1> DEFINE K == {n \in Nat : \A T \in SUBSET S : Cardinality(T) = n =>
                   \A x \in T : SumFunctionOnSet(f, T) = f[x] + SumFunctionOnSet(f, T \ {x})}
<1>1. \A T \in SUBSET S : IsFiniteSet(T) /\ Cardinality(T) \in Nat
  BY FS_Subset, FS_CardinalityType
<1>2. \A T \in SUBSET S : SumFunctionOnSet(f, T) \in Int
  <2> SUFFICES ASSUME NEW T \in SUBSET S PROVE SumFunctionOnSet(f, T) \in Int
    OBVIOUS
  <2>1. IsFiniteSet(T) /\ \A x \in T : f[x] \in Int
    BY <1>1
  <2> QED
    BY <2>1, SumInt
<1>3. 0 \in K
  BY <1>1, FS_EmptySet
<1>4. ASSUME NEW n \in K PROVE n + 1 \in K
  <2> SUFFICES ASSUME NEW T \in SUBSET S, Cardinality(T) = n + 1, NEW x \in T
               PROVE  SumFunctionOnSet(f, T) = f[x] + SumFunctionOnSet(f, T \ {x})
    OBVIOUS
  <2>1. n \in Nat /\ IsFiniteSet(T)
    BY <1>1
  <2>2. PICK c : c = Chosen(T)
    OBVIOUS
  <2>3. c \in T /\ SumFunctionOnSet(f, T) = f[c] + SumFunctionOnSet(f, T \ {c})
    BY <2>1, <2>2, SumChosen
  <2>4. CASE c = x
    BY <2>3, <2>4
  <2>5. CASE c # x
    <3>1. Cardinality(T \ {c}) = n /\ Cardinality(T \ {x}) = n
      <4>1. /\ Cardinality(T \ {c}) = Cardinality(T) - 1
            /\ Cardinality(T \ {x}) = Cardinality(T) - 1
        BY <2>1, <2>3, FS_RemoveElement
      <4> QED
        BY <2>1, <4>1
    <3>2. /\ T \ {c} \in SUBSET S /\ x \in T \ {c}
          /\ T \ {x} \in SUBSET S /\ c \in T \ {x}
      BY <2>3, <2>5
    <3>3. SumFunctionOnSet(f, T \ {c}) = f[x] + SumFunctionOnSet(f, (T \ {c}) \ {x})
      BY <1>4, <3>1, <3>2
    <3>4. SumFunctionOnSet(f, T \ {x}) = f[c] + SumFunctionOnSet(f, (T \ {x}) \ {c})
      BY <1>4, <3>1, <3>2
    <3>5. (T \ {c}) \ {x} = (T \ {x}) \ {c}
      OBVIOUS
    <3>6. PICK rest : rest = SumFunctionOnSet(f, (T \ {c}) \ {x})
      OBVIOUS
    <3>7. rest \in Int /\ f[x] \in Int /\ f[c] \in Int
      BY <1>2, <2>3, <3>6
    <3>8. SumFunctionOnSet(f, T) = f[c] + (f[x] + rest)
      BY <2>3, <3>3, <3>6
    <3>9. SumFunctionOnSet(f, T \ {x}) = f[c] + rest
      BY <3>4, <3>5, <3>6
    <3> QED
      BY <3>7, <3>8, <3>9
  <2> QED
    BY <2>4, <2>5
<1>5. K = Nat
  <2>1. K \subseteq Nat
    OBVIOUS
  <2> HIDE DEF K
  <2> QED
    BY <1>3, <1>4, <2>1, AllNumbers
<1>6. Cardinality(S) \in K
  BY <1>1, <1>5
<1> QED
  BY <1>6

\* One element more adds its value.
LEMMA SumWith ==
  ASSUME NEW S, IsFiniteSet(S), NEW f, NEW e, e \notin S, \A x \in S \cup {e} : f[x] \in Int
  PROVE  SumFunctionOnSet(f, S \cup {e}) = f[e] + SumFunctionOnSet(f, S)
<1>1. IsFiniteSet(S \cup {e}) /\ e \in S \cup {e} /\ (S \cup {e}) \ {e} = S
  BY FS_AddElement
<1> QED
  BY <1>1, SumRemove

\* The sum depends on the values alone.
LEMMA SumSame ==
  ASSUME NEW S, IsFiniteSet(S), NEW f, NEW g, \A x \in S : f[x] \in Int /\ g[x] = f[x]
  PROVE  SumFunctionOnSet(g, S) = SumFunctionOnSet(f, S)
<1> DEFINE Good == {T \in SUBSET S : SumFunctionOnSet(g, T) = SumFunctionOnSet(f, T)}
<1>1. {} \in Good
  BY SumEmpty
<1>2. ASSUME NEW T \in SUBSET S, NEW x \in S \ T, T \in Good PROVE T \cup {x} \in Good
  <2>1. /\ IsFiniteSet(T) /\ x \notin T
        /\ \A y \in T \cup {x} : f[y] \in Int
        /\ \A y \in T \cup {x} : g[y] \in Int
    BY FS_Subset
  <2>2. SumFunctionOnSet(f, T \cup {x}) = f[x] + SumFunctionOnSet(f, T)
    BY <2>1, SumWith
  <2>3. SumFunctionOnSet(g, T \cup {x}) = g[x] + SumFunctionOnSet(g, T)
    BY <2>1, SumWith
  <2> QED
    BY <1>2, <2>2, <2>3
<1> HIDE DEF Good
<1>3. S \in Good
  BY <1>1, <1>2, AllFiniteSets
<1> QED
  BY <1>3 DEF Good

\* A sum of naturals is one.
LEMMA SumNat ==
  ASSUME NEW S, IsFiniteSet(S), NEW f, \A x \in S : f[x] \in Nat
  PROVE  SumFunctionOnSet(f, S) \in Nat
<1> DEFINE Good == {T \in SUBSET S : SumFunctionOnSet(f, T) \in Nat}
<1>1. {} \in Good
  BY SumEmpty
<1>2. ASSUME NEW T \in SUBSET S, NEW x \in S \ T, T \in Good PROVE T \cup {x} \in Good
  <2>1. IsFiniteSet(T) /\ x \notin T /\ \A y \in T \cup {x} : f[y] \in Int
    BY FS_Subset
  <2>2. SumFunctionOnSet(f, T \cup {x}) = f[x] + SumFunctionOnSet(f, T)
    BY <2>1, SumWith
  <2> QED
    BY <1>2, <2>2
<1> HIDE DEF Good
<1>3. S \in Good
  BY <1>1, <1>2, AllFiniteSets
<1> QED
  BY <1>3 DEF Good

\* The same, over all of a function.
LEMMA SumOfNats ==
  ASSUME NEW S, IsFiniteSet(S), NEW f \in [S -> Nat]
  PROVE  SumFunction(f) \in Nat
BY SumNat DEF SumFunction

\* Zeros add up to 0.
LEMMA SumZero ==
  ASSUME NEW S, IsFiniteSet(S), NEW f, \A x \in S : f[x] = 0
  PROVE  SumFunctionOnSet(f, S) = 0
<1> DEFINE Good == {T \in SUBSET S : SumFunctionOnSet(f, T) = 0}
<1>1. {} \in Good
  BY SumEmpty
<1>2. ASSUME NEW T \in SUBSET S, NEW x \in S \ T, T \in Good PROVE T \cup {x} \in Good
  <2>1. IsFiniteSet(T) /\ x \notin T /\ \A y \in T \cup {x} : f[y] \in Int
    BY FS_Subset
  <2>2. SumFunctionOnSet(f, T \cup {x}) = f[x] + SumFunctionOnSet(f, T)
    BY <2>1, SumWith
  <2> QED
    BY <1>2, <2>2
<1> HIDE DEF Good
<1>3. S \in Good
  BY <1>1, <1>2, AllFiniteSets
<1> QED
  BY <1>3 DEF Good

\* Where two functions differ in one place, so do their sums.
LEMMA SumChange ==
  ASSUME NEW S, IsFiniteSet(S), NEW f, NEW g, NEW e \in S,
         \A x \in S : f[x] \in Int /\ g[x] \in Int, \A x \in S \ {e} : g[x] = f[x]
  PROVE  SumFunctionOnSet(g, S) = SumFunctionOnSet(f, S) + (g[e] - f[e])
<1>1. IsFiniteSet(S \ {e})
  BY FS_Subset
<1>2. SumFunctionOnSet(f, S) = f[e] + SumFunctionOnSet(f, S \ {e})
  BY SumRemove
<1>3. SumFunctionOnSet(g, S) = g[e] + SumFunctionOnSet(g, S \ {e})
  BY SumRemove
<1>4. SumFunctionOnSet(g, S \ {e}) = SumFunctionOnSet(f, S \ {e})
  BY <1>1, SumSame
<1>5. SumFunctionOnSet(f, S \ {e}) \in Int
  BY <1>1, SumInt
<1> QED
  BY <1>2, <1>3, <1>4, <1>5

\* What is zero adds nothing.
LEMMA SumOutside ==
  ASSUME NEW S, IsFiniteSet(S), NEW f, \A x \in S : f[x] \in Int,
         NEW T \in SUBSET S, \A x \in S \ T : f[x] = 0
  PROVE  SumFunctionOnSet(f, S) = SumFunctionOnSet(f, T)
<1> DEFINE R == S \ T
           Good == {U \in SUBSET R : SumFunctionOnSet(f, T \cup U) = SumFunctionOnSet(f, T)}
<1>1. IsFiniteSet(R)
  BY FS_Subset
<1>2. {} \in Good
  <2>1. T \cup {} = T
    OBVIOUS
  <2> QED
    BY <2>1
<1>3. ASSUME NEW U \in SUBSET R, NEW x \in R \ U, U \in Good PROVE U \cup {x} \in Good
  <2>1. PICK V : V = T \cup U
    OBVIOUS
  <2>2. V \in SUBSET S /\ x \notin V /\ V \cup {x} = T \cup (U \cup {x}) /\ f[x] = 0
    BY <2>1
  <2>3. IsFiniteSet(V) /\ \A y \in V \cup {x} : f[y] \in Int
    BY <2>2, FS_Subset
  <2>4. SumFunctionOnSet(f, V \cup {x}) = f[x] + SumFunctionOnSet(f, V)
    BY <2>2, <2>3, SumWith
  <2>5. SumFunctionOnSet(f, V) \in Int
    BY <2>3, SumInt
  <2>6. SumFunctionOnSet(f, V) = SumFunctionOnSet(f, T)
    BY <1>3, <2>1
  <2>7. SumFunctionOnSet(f, V \cup {x}) = SumFunctionOnSet(f, T)
    BY <2>2, <2>4, <2>5, <2>6
  <2>8. SumFunctionOnSet(f, T \cup (U \cup {x})) = SumFunctionOnSet(f, T)
    <3>1. PICK W : W = T \cup (U \cup {x})
      OBVIOUS
    <3>2. W = V \cup {x}
      BY <2>2, <3>1
    <3> QED
      BY <2>7, <3>1, <3>2
  <2> QED
    BY <2>8
<1>4. R \in Good
  <2> HIDE DEF R, Good
  <2> QED
    BY <1>1, <1>2, <1>3, AllFiniteSets
<1>5. T \cup R = S
  OBVIOUS
<1> QED
  BY <1>4, <1>5

\* What is added up by keys first adds up to the same.
LEMMA SumByKey ==
  ASSUME NEW S, IsFiniteSet(S), NEW f, \A x \in S : f[x] \in Int,
         NEW D, IsFiniteSet(D), NEW key \in [S -> D],
         NEW old, \A e \in D : old[e] \in Int,
         NEW new, \A e \in D : new[e] = old[e] + SumFunctionOnSet(f, {x \in S : key[x] = e})
  PROVE  SumFunctionOnSet(new, D) = SumFunctionOnSet(old, D) + SumFunctionOnSet(f, S)
<1> DEFINE Part(T) == [e \in D |-> old[e] + SumFunctionOnSet(f, {x \in T : key[x] = e})]
           Good == {T \in SUBSET S : SumFunctionOnSet(Part(T), D)
                                       = SumFunctionOnSet(old, D) + SumFunctionOnSet(f, T)}
<1>1. ASSUME NEW T \in SUBSET S, NEW e \in D
      PROVE  /\ IsFiniteSet({x \in T : key[x] = e})
             /\ SumFunctionOnSet(f, {x \in T : key[x] = e}) \in Int
             /\ Part(T)[e] = old[e] + SumFunctionOnSet(f, {x \in T : key[x] = e})
             /\ Part(T)[e] \in Int
  <2>1. PICK U : U = {x \in T : key[x] = e}
    OBVIOUS
  <2>2. IsFiniteSet(U) /\ \A x \in U : f[x] \in Int
    BY <2>1, FS_Subset
  <2>3. SumFunctionOnSet(f, U) \in Int
    BY <2>2, SumInt
  <2> QED
    BY <2>1, <2>2, <2>3
<1>2. SumFunctionOnSet(old, D) \in Int
  BY SumInt
<1>3. {} \in Good
  <2>1. ASSUME NEW e \in D PROVE Part({})[e] = old[e]
    <3>1. {x \in {} : key[x] = e} = {}
      OBVIOUS
    <3>2. SumFunctionOnSet(f, {x \in {} : key[x] = e}) = 0
      BY <3>1, SumEmpty
    <3> QED
      BY <1>1, <3>2
  <2>2. PICK g : g = Part({})
    OBVIOUS
  <2>3. \A e \in D : g[e] = old[e]
    BY <2>1, <2>2
  <2>4. SumFunctionOnSet(g, D) = SumFunctionOnSet(old, D)
    BY <2>3, SumSame
  <2> QED
    BY <1>2, <2>2, <2>4, SumEmpty
<1>4. ASSUME NEW T \in SUBSET S, NEW x \in S \ T, T \in Good PROVE T \cup {x} \in Good
  <2>1. PICK k \in D : k = key[x]
    OBVIOUS
  <2>2. PICK g, h : g = Part(T) /\ h = Part(T \cup {x})
    OBVIOUS
  <2>3. \A e \in D : g[e] \in Int /\ h[e] \in Int
    BY <1>1, <2>2
  <2>4. ASSUME NEW e \in D \ {k} PROVE h[e] = g[e]
    <3>1. {y \in T \cup {x} : key[y] = e} = {y \in T : key[y] = e}
      BY <2>1, <2>4
    <3> QED
      BY <2>2, <3>1
  <2>5. h[k] = g[k] + f[x]
    <3>1. PICK U : U = {y \in T : key[y] = k}
      OBVIOUS
    <3>2. {y \in T \cup {x} : key[y] = k} = U \cup {x} /\ x \notin U
      BY <2>1, <3>1
    <3>3. IsFiniteSet(U) /\ SumFunctionOnSet(f, U) \in Int /\ g[k] = old[k] + SumFunctionOnSet(f, U)
      BY <1>1, <2>2, <3>1
    <3>4. \A y \in U \cup {x} : f[y] \in Int
      BY <3>1
    <3>5. SumFunctionOnSet(f, U \cup {x}) = f[x] + SumFunctionOnSet(f, U)
      BY <3>2, <3>3, <3>4, SumWith
    <3>6. h[k] = old[k] + SumFunctionOnSet(f, U \cup {x})
      BY <2>2, <3>2
    <3>7. f[x] \in Int /\ old[k] \in Int
      OBVIOUS
    <3> QED
      BY <3>3, <3>5, <3>6, <3>7
  <2>6. SumFunctionOnSet(h, D) = SumFunctionOnSet(g, D) + (h[k] - g[k])
    BY <2>3, <2>4, SumChange
  <2>7. SumFunctionOnSet(f, T \cup {x}) = f[x] + SumFunctionOnSet(f, T)
    <3>1. IsFiniteSet(T) /\ \A y \in T \cup {x} : f[y] \in Int
      BY FS_Subset
    <3> QED
      BY <3>1, SumWith
  <2>8. SumFunctionOnSet(f, T) \in Int
    <3>1. IsFiniteSet(T)
      BY FS_Subset
    <3> QED
      BY <3>1, SumInt
  <2>9. SumFunctionOnSet(g, D) = SumFunctionOnSet(old, D) + SumFunctionOnSet(f, T)
    BY <1>4, <2>2
  <2>10. f[x] \in Int /\ g[k] \in Int /\ h[k] \in Int
    BY <2>3
  <2>11. SumFunctionOnSet(h, D) = SumFunctionOnSet(old, D) + SumFunctionOnSet(f, T \cup {x})
    BY <1>2, <2>5, <2>6, <2>7, <2>8, <2>9, <2>10
  <2> QED
    BY <2>2, <2>11
<1>5. S \in Good
  <2> HIDE DEF Good
  <2> QED
    BY <1>3, <1>4, AllFiniteSets
<1>6. PICK g : g = Part(S)
  OBVIOUS
<1>7. \A e \in D : g[e] \in Int /\ new[e] = g[e]
  BY <1>1, <1>6
<1>8. SumFunctionOnSet(new, D) = SumFunctionOnSet(g, D)
  BY <1>7, SumSame
<1> QED
  BY <1>5, <1>6, <1>8

-----------------------------------------------------------------------------
(* A finite set in the order of a rank. *)

RisesBy(rank, s, n) == \A i, j \in 1 .. n : i < j => rank[s[i]] < rank[s[j]]
Ranks(rank, S) == \A x, y \in S : rank[x] \in Int /\ (rank[x] = rank[y] => x = y)

\* Every finite set can be listed by rank: each element's place is the number of
\* elements up to it.
LEMMA SortedExists ==
  ASSUME NEW S, IsFiniteSet(S), NEW rank, Ranks(rank, S)
  PROVE  \E s \in [1 .. Cardinality(S) -> S] : RisesBy(rank, s, Cardinality(S))
<1> DEFINE n == Cardinality(S)
           upTo(x) == {y \in S : rank[y] <= rank[x]}
           place == [x \in S |-> Cardinality(upTo(x))]
<1>0. \A x, y \in S : rank[x] \in Int /\ (rank[x] = rank[y] => x = y)
  BY DEF Ranks
<1>1. n \in Nat /\ IsFiniteSet(1 .. n) /\ Cardinality(1 .. n) = n
  BY FS_CardinalityType, FS_Interval
<1>2. ASSUME NEW x \in S
      PROVE  IsFiniteSet(upTo(x)) /\ Cardinality(upTo(x)) \in 1 .. n
  <2>1. upTo(x) \in SUBSET S /\ x \in upTo(x)
    BY <1>0
  <2>2. IsFiniteSet(upTo(x)) /\ Cardinality(upTo(x)) <= n
    BY <2>1, FS_Subset
  <2>3. Cardinality(upTo(x)) \in Nat /\ Cardinality(upTo(x)) # 0
    BY <2>1, <2>2, FS_CardinalityType, FS_EmptySet
  <2> QED
    BY <1>1, <2>2, <2>3
<1>3. ASSUME NEW x \in S, NEW y \in S, rank[x] < rank[y]
      PROVE  place[x] < place[y]
  <2>1. upTo(x) \in SUBSET upTo(y) /\ y \in upTo(y) /\ y \notin upTo(x)
    BY <1>3, <1>0
  <2>2. Cardinality(upTo(x)) <= Cardinality(upTo(y)) /\ Cardinality(upTo(x)) # Cardinality(upTo(y))
    BY <1>2, <2>1, FS_Subset
  <2>3. Cardinality(upTo(x)) \in 1 .. n /\ Cardinality(upTo(y)) \in 1 .. n
    BY <1>2
  <2> HIDE DEF upTo
  <2> QED
    BY <1>1, <2>2, <2>3
<1>4. place \in [S -> 1 .. n]
  BY <1>2
<1> HIDE DEF upTo, place, n
<1>5. \A x, y \in S : place[x] = place[y] => x = y
  <2> SUFFICES ASSUME NEW x \in S, NEW y \in S, place[x] = place[y] PROVE x = y
    OBVIOUS
  <2>1. ~(rank[x] < rank[y]) /\ ~(rank[y] < rank[x])
    BY <1>1, <1>3, <1>4
  <2> QED
    BY <2>1, <1>0
<1>6. place \in Injection(S, 1 .. n)
  BY <1>4, <1>5 DEF Injection, IsInjective
<1>7. place \in Surjection(S, 1 .. n)
  BY <1>1, <1>6, FS_Injection DEF n
<1> DEFINE s == [i \in 1 .. n |-> CHOOSE x \in S : place[x] = i]
<1>8. \A i \in 1 .. n : s[i] \in S /\ place[s[i]] = i
  BY <1>7 DEF Surjection
<1>9. RisesBy(rank, s, n)
  <2> SUFFICES ASSUME NEW i \in 1 .. n, NEW j \in 1 .. n, i < j
               PROVE  rank[s[i]] < rank[s[j]]
    BY DEF RisesBy
  <2>1. s[i] \in S /\ s[j] \in S /\ place[s[i]] = i /\ place[s[j]] = j
    BY <1>8
  <2> HIDE DEF s
  <2>2. ~(rank[s[j]] < rank[s[i]])
    BY <1>1, <1>3, <2>1
  <2>3. s[i] # s[j]
    BY <1>1, <2>1
  <2> QED
    BY <2>1, <2>2, <2>3, <1>0
<1>10. s \in [1 .. n -> S]
  BY <1>8
<1> QED
  BY <1>9, <1>10 DEF n

\* Such a list has every element, once.
LEMMA SortedHasAll ==
  ASSUME NEW S, IsFiniteSet(S), NEW rank, Ranks(rank, S),
         NEW s \in [1 .. Cardinality(S) -> S], RisesBy(rank, s, Cardinality(S))
  PROVE  \A x \in S : \E i \in 1 .. Cardinality(S) : s[i] = x
<1>1. PICK n \in Nat : n = Cardinality(S)
  BY FS_CardinalityType
<1>2. IsFiniteSet(1 .. n) /\ Cardinality(1 .. n) = n
  BY FS_Interval
<1>3. s \in Injection(1 .. n, S)
  <2> SUFFICES ASSUME NEW i \in 1 .. n, NEW j \in 1 .. n, s[i] = s[j] PROVE i = j
    BY <1>1 DEF Injection, IsInjective
  <2>1. s[i] \in S /\ rank[s[i]] \in Int
    BY <1>1 DEF Ranks
  <2>2. ~(rank[s[i]] < rank[s[j]]) /\ ~(rank[s[j]] < rank[s[i]])
    BY <2>1
  <2> QED
    BY <1>1, <2>2 DEF RisesBy
<1>4. s \in Surjection(1 .. n, S)
  BY <1>1, <1>2, <1>3, FS_Injection
<1> QED
  BY <1>1, <1>4 DEF Surjection

===============================================================================
