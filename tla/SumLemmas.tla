------------------------------ MODULE SumLemmas ------------------------------
(***************************************************************************)
(* What the sums in the leave modules do when a member is added, taken     *)
(* away or given another value: SumFunctionOnSet of the community modules, *)
(* which is defined by recursion over the subsets of a finite set.         *)
(*                                                                         *)
(* Induction is needed for that.  It is derived here, for sets of numbers  *)
(* and for sets of subsets instead of for formulas, from the fact that <   *)
(* is well-founded on the natural numbers.                                 *)
(***************************************************************************)
EXTENDS Integers, FiniteSets, Functions, FiniteSetTheorems, WellFoundedInduction, TLAPS

\* Every non-empty set of natural numbers has a least member.
LEMMA LeastNumber ==
  ASSUME NEW T, T \subseteq Nat, T # {}
  PROVE  \E n \in T : \A m \in T : n <= m
<1> DEFINE R == OpToRel(<, Nat)
<1>1. IsWellFoundedOn(R, Nat)
  BY NatLessThanWellFounded
<1>2. \A m, n \in Nat : m < n => <<m, n>> \in R
  BY DEF OpToRel
<1> HIDE DEF R
<1>3. PICK n \in T : \A m \in T : ~ (<<m, n>> \in R)
  BY <1>1, WFMin
<1>4. \A m \in T : ~(m < n)
  BY <1>2, <1>3
<1>5. \A m \in T : n <= m
  BY <1>4
<1> QED BY <1>5

\* A non-empty set of numbers that has a bound has a greatest member.
LEMMA GreatestNumber ==
  ASSUME NEW T, T \subseteq Nat, T # {}, NEW n \in Nat, \A m \in T : m <= n
  PROVE  \E y \in T : \A m \in T : y >= m
<1> DEFINE U == {n - m : m \in T}
<1>1. U \subseteq Nat /\ U # {}
  <2>1. \A m \in T : n - m \in Nat
    OBVIOUS
  <2>2. U \subseteq Nat
    BY <2>1
  <2>3. PICK m \in T : TRUE
    OBVIOUS
  <2>4. n - m \in U
    OBVIOUS
  <2> QED BY <2>2, <2>4
<1>2. PICK u \in U : \A v \in U : u <= v
  BY <1>1, LeastNumber
<1>3. PICK x \in T : u = n - x
  OBVIOUS
<1>4. \A m \in T : x >= m
  <2> SUFFICES ASSUME NEW m \in T PROVE x >= m
    OBVIOUS
  <2>1. n - x <= n - m
    BY <1>2, <1>3
  <2> QED BY <2>1, <1>3
<1> QED BY <1>3, <1>4

\* Induction, over a set of numbers.
LEMMA AllNumbers ==
  ASSUME NEW T, T \subseteq Nat, 0 \in T, \A n \in T : n + 1 \in T
  PROVE  T = Nat
<1> SUFFICES ASSUME Nat \ T # {} PROVE FALSE
  OBVIOUS
<1>1. PICK n \in Nat \ T : \A m \in Nat \ T : n <= m
  BY LeastNumber
<1>2. n - 1 \in Nat /\ n - 1 \in T
  BY <1>1
<1> QED BY <1>1, <1>2

Chosen(s) == CHOOSE x \in s : TRUE

\* The equation that defines the partial sums of w over the subsets of S.
PartialSums(w, S) ==
  CHOOSE f : f = [s \in SUBSET S |-> IF s = {} THEN 0
                                     ELSE w[CHOOSE x \in s : TRUE] + f[s \ {CHOOSE x \in s : TRUE}]]

LEMMA SumIsLast ==
  ASSUME NEW w, NEW S
  PROVE  SumFunctionOnSet(w, S) = PartialSums(w, S)[S]
  BY DEF SumFunctionOnSet, FoldFunctionOnSet, MapThenFoldSet, PartialSums

\* A finite set loses one member when one is picked.
LEMMA PickOne ==
  ASSUME NEW S, IsFiniteSet(S), NEW s \in SUBSET S, s # {}
  PROVE  /\ Chosen(s) \in s /\ s \ {Chosen(s)} \in SUBSET S
         /\ IsFiniteSet(s) /\ Cardinality(s) \in Nat \ {0}
         /\ Cardinality(s \ {Chosen(s)}) = Cardinality(s) - 1
<1>1. Chosen(s) \in s
  BY DEF Chosen
<1>2. IsFiniteSet(s)
  BY FS_Subset
<1> QED BY <1>1, <1>2, FS_RemoveElement, FS_CardinalityType, FS_EmptySet

Adds(f, w, s) == f[s] = IF s = {} THEN 0 ELSE w[Chosen(s)] + f[s \ {Chosen(s)}]

Solves(f, w, S) == f \in [SUBSET S -> Nat] /\ \A s \in SUBSET S : Adds(f, w, s)

LEMMA SumsExist ==
  ASSUME NEW D, NEW w \in [D -> Nat], NEW S \in SUBSET D, IsFiniteSet(S)
  PROVE  \E f : Solves(f, w, S)
<1> DEFINE T == {n \in Nat : \E f \in [SUBSET S -> Nat] :
                   \A s \in SUBSET S : Cardinality(s) <= n => Adds(f, w, s)}
<1>1. 0 \in T
  <2> DEFINE f == [s \in SUBSET S |-> 0]
  <2>1. f \in [SUBSET S -> Nat]
    OBVIOUS
  <2>2. ASSUME NEW s \in SUBSET S, Cardinality(s) <= 0 PROVE s = {}
    <3> SUFFICES ASSUME s # {} PROVE FALSE
      OBVIOUS
    <3>1. Cardinality(s) \in Nat \ {0}
      BY PickOne
    <3> QED BY <2>2, <3>1
  <2>3. \A s \in SUBSET S : Cardinality(s) <= 0 => Adds(f, w, s)
    BY <2>2 DEF Adds
  <2> HIDE DEF f
  <2> QED BY <2>1, <2>3
<1>2. ASSUME NEW n \in T PROVE n + 1 \in T
  <2>1. PICK f \in [SUBSET S -> Nat] : \A s \in SUBSET S : Cardinality(s) <= n => Adds(f, w, s)
    BY <1>2
  <2> DEFINE g == [s \in SUBSET S |->
                     IF Cardinality(s) = n + 1 THEN w[Chosen(s)] + f[s \ {Chosen(s)}] ELSE f[s]]
  <2>2. ASSUME NEW s \in SUBSET S, Cardinality(s) = n + 1
        PROVE  s # {} /\ w[Chosen(s)] + f[s \ {Chosen(s)}] \in Nat
    <3>1. s # {}
      <4> SUFFICES ASSUME s = {} PROVE FALSE
        OBVIOUS
      <4>1. n \in Nat /\ Cardinality(s) = 0
        BY <1>2, FS_EmptySet
      <4> QED BY <4>1, <2>2
    <3>2. Chosen(s) \in S /\ s \ {Chosen(s)} \in SUBSET S
      BY <3>1, PickOne
    <3> QED BY <3>1, <3>2
  <2>3. g \in [SUBSET S -> Nat]
    BY <2>2
  <2>4. ASSUME NEW s \in SUBSET S, Cardinality(s) <= n + 1 PROVE Adds(g, w, s)
    <3>1. CASE s = {}
      BY <3>1, <2>1, FS_EmptySet DEF Adds
    <3>2. CASE s # {}
      <4> DEFINE r == s \ {Chosen(s)}
      <4>1. r \in SUBSET S /\ Cardinality(r) = Cardinality(s) - 1 /\ Cardinality(s) \in Nat
        BY <3>2, PickOne
      <4>2. Cardinality(r) # n + 1
        BY <4>1, <2>4
      <4>3. g[r] = f[r]
        BY <4>1, <4>2
      <4>4. CASE Cardinality(s) = n + 1
        BY <4>4, <4>3, <3>2 DEF Adds
      <4>5. CASE Cardinality(s) # n + 1
        BY <4>5, <4>3, <4>1, <3>2, <2>1, <2>4 DEF Adds
      <4> QED BY <4>4, <4>5
    <3> QED BY <3>1, <3>2
  <2> HIDE DEF g
  <2>5. n + 1 \in Nat
    BY <1>2
  <2> QED BY <2>3, <2>4, <2>5
<1>3. Cardinality(S) \in T
  <2> HIDE DEF T
  <2>1. T \subseteq Nat
    BY DEF T
  <2> QED BY <2>1, <1>1, <1>2, AllNumbers, FS_CardinalityType
<1>4. PICK f \in [SUBSET S -> Nat] :
        \A s \in SUBSET S : Cardinality(s) <= Cardinality(S) => Adds(f, w, s)
  BY <1>3
<1>5. \A s \in SUBSET S : Cardinality(s) <= Cardinality(S)
  BY FS_Subset
<1>6. \A s \in SUBSET S : Adds(f, w, s)
  BY <1>4, <1>5
<1> QED BY <1>6 DEF Solves

LEMMA SumsUnfold ==
  ASSUME NEW D, NEW w \in [D -> Nat], NEW S \in SUBSET D, IsFiniteSet(S)
  PROVE  \A s \in SUBSET S : Adds(PartialSums(w, S), w, s)
<1>1. PICK f : Solves(f, w, S)
  BY SumsExist
<1>2. f = [s \in SUBSET S |-> IF s = {} THEN 0 ELSE w[Chosen(s)] + f[s \ {Chosen(s)}]]
  BY <1>1 DEF Solves, Adds
<1>3. \E h : h = [s \in SUBSET S |-> IF s = {} THEN 0 ELSE w[Chosen(s)] + h[s \ {Chosen(s)}]]
  BY <1>2
<1> DEFINE F == PartialSums(w, S)
<1>4. F = [s \in SUBSET S |-> IF s = {} THEN 0 ELSE w[Chosen(s)] + F[s \ {Chosen(s)}]]
  BY <1>3 DEF PartialSums, Chosen
<1> HIDE DEF F
<1>5. \A s \in SUBSET S : Adds(F, w, s)
  BY <1>4 DEF Adds
<1> QED BY <1>5 DEF F

LEMMA SumsStart ==
  ASSUME NEW D, NEW w \in [D -> Nat], NEW S \in SUBSET D, IsFiniteSet(S)
  PROVE  PartialSums(w, S)[{}] = 0
<1>1. Adds(PartialSums(w, S), w, {})
  BY SumsUnfold
<1> QED BY <1>1 DEF Adds

LEMMA SumsStep ==
  ASSUME NEW D, NEW w \in [D -> Nat], NEW S \in SUBSET D, IsFiniteSet(S),
         NEW s \in SUBSET S, s # {}
  PROVE  PartialSums(w, S)[s] = w[Chosen(s)] + PartialSums(w, S)[s \ {Chosen(s)}]
<1>1. Adds(PartialSums(w, S), w, s)
  BY SumsUnfold
<1> QED BY <1>1 DEF Adds

\* Induction over the subsets of a finite set, by their size.
LEMMA AllSubsets ==
  ASSUME NEW S, IsFiniteSet(S), NEW T, T \subseteq SUBSET S, {} \in T,
         \A s \in SUBSET S : s # {} /\ s \ {Chosen(s)} \in T => s \in T
  PROVE  T = SUBSET S
<1> DEFINE N == {n \in Nat : \A s \in SUBSET S : Cardinality(s) = n => s \in T}
<1>1. 0 \in N
  <2>1. ASSUME NEW s \in SUBSET S, Cardinality(s) = 0 PROVE s = {}
    BY <2>1, FS_Subset, FS_EmptySet
  <2> QED BY <2>1
<1>2. ASSUME NEW n \in N PROVE n + 1 \in N
  <2>1. n \in Nat /\ \A s \in SUBSET S : Cardinality(s) = n => s \in T
    BY <1>2
  <2>2. ASSUME NEW s \in SUBSET S, Cardinality(s) = n + 1 PROVE s \in T
    <3>1. s # {}
      <4> SUFFICES ASSUME s = {} PROVE FALSE
        OBVIOUS
      <4>1. Cardinality(s) = 0
        BY FS_EmptySet
      <4> QED BY <4>1, <2>1, <2>2
    <3>2. s \ {Chosen(s)} \in SUBSET S /\ Cardinality(s \ {Chosen(s)}) = n
      BY <3>1, <2>1, <2>2, PickOne
    <3> QED BY <3>1, <3>2, <2>1
  <2> QED BY <2>1, <2>2
<1>3. N = Nat
  <2>1. N \subseteq Nat
    OBVIOUS
  <2> HIDE DEF N
  <2> QED BY <2>1, <1>1, <1>2, AllNumbers
<1>4. ASSUME NEW s \in SUBSET S PROVE s \in T
  <2>1. Cardinality(s) \in N
    <3> HIDE DEF N
    <3> QED BY <1>3, FS_Subset, FS_CardinalityType
  <2> QED BY <2>1
<1> QED BY <1>4

LEMMA SumsType ==
  ASSUME NEW D, NEW w \in [D -> Nat], NEW S \in SUBSET D, IsFiniteSet(S)
  PROVE  \A s \in SUBSET S : PartialSums(w, S)[s] \in Nat
<1> DEFINE T == {s \in SUBSET S : PartialSums(w, S)[s] \in Nat}
<1>1. {} \in T
  BY SumsStart
<1>2. ASSUME NEW s \in SUBSET S, s # {}, s \ {Chosen(s)} \in T PROVE s \in T
  <2>1. w[Chosen(s)] \in Nat
    <3>1. Chosen(s) \in s
      BY <1>2 DEF Chosen
    <3> QED BY <3>1
  <2>2. PartialSums(w, S)[s] = w[Chosen(s)] + PartialSums(w, S)[s \ {Chosen(s)}]
    <3>1. s # {}
      BY <1>2
    <3> HIDE DEF T
    <3> QED BY <3>1, SumsStep
  <2>3. PartialSums(w, S)[s \ {Chosen(s)}] \in Nat
    BY <1>2
  <2> QED BY <2>1, <2>2, <2>3
<1>3. T = SUBSET S
  <2>1. T \subseteq SUBSET S
    OBVIOUS
  <2> HIDE DEF T
  <2> QED BY <1>1, <1>2, <2>1, AllSubsets
<1> QED BY <1>3

\* The partial sums do not depend on the set they are computed for, nor on
\* what the function is elsewhere.
LEMMA SumsAgree ==
  ASSUME NEW D, NEW w \in [D -> Nat], NEW S \in SUBSET D, IsFiniteSet(S),
         NEW E, NEW v \in [E -> Nat], NEW R \in SUBSET E, IsFiniteSet(R),
         R \subseteq S, \A x \in R : v[x] = w[x]
  PROVE  \A s \in SUBSET R : PartialSums(v, R)[s] = PartialSums(w, S)[s]
<1> DEFINE T == {s \in SUBSET R : PartialSums(v, R)[s] = PartialSums(w, S)[s]}
<1>1. {} \in T
  BY SumsStart
<1>2. ASSUME NEW s \in SUBSET R, s # {}, s \ {Chosen(s)} \in T PROVE s \in T
  <2>1. v[Chosen(s)] = w[Chosen(s)]
    BY <1>2, PickOne
  <2>2. s \in SUBSET S
    OBVIOUS
  <2>3. /\ PartialSums(v, R)[s] = v[Chosen(s)] + PartialSums(v, R)[s \ {Chosen(s)}]
        /\ PartialSums(w, S)[s] = w[Chosen(s)] + PartialSums(w, S)[s \ {Chosen(s)}]
    BY <1>2, <2>2, SumsStep
  <2> QED BY <2>1, <2>3, <1>2
<1>3. T = SUBSET R
  <2>1. T \subseteq SUBSET R
    OBVIOUS
  <2> HIDE DEF T
  <2> QED BY <1>1, <1>2, <2>1, AllSubsets
<1> QED BY <1>3

-----------------------------------------------------------------------------
LEMMA SumType ==
  ASSUME NEW D, NEW w \in [D -> Nat], NEW S \in SUBSET D, IsFiniteSet(S)
  PROVE  SumFunctionOnSet(w, S) \in Nat
  BY SumIsLast, SumsType

LEMMA SumEmpty ==
  ASSUME NEW D, NEW w \in [D -> Nat]
  PROVE  SumFunctionOnSet(w, {}) = 0
  BY SumIsLast, SumsStart, FS_EmptySet

LEMMA SumSame ==
  ASSUME NEW D, NEW w \in [D -> Nat], NEW E, NEW v \in [E -> Nat],
         NEW S \in SUBSET D, S \in SUBSET E, IsFiniteSet(S), \A x \in S : v[x] = w[x]
  PROVE  SumFunctionOnSet(v, S) = SumFunctionOnSet(w, S)
  BY SumIsLast, SumsAgree

LEMMA SumPick ==
  ASSUME NEW D, NEW w \in [D -> Nat], NEW S \in SUBSET D, IsFiniteSet(S), S # {}
  PROVE  SumFunctionOnSet(w, S) = w[Chosen(S)] + SumFunctionOnSet(w, S \ {Chosen(S)})
<1> DEFINE R == S \ {Chosen(S)}
<1>1. R \in SUBSET S /\ IsFiniteSet(R) /\ R \in SUBSET D
  BY FS_Subset
<1> HIDE DEF R
<1>2. PartialSums(w, S)[R] = PartialSums(w, R)[R]
  BY <1>1, SumsAgree
<1>3. PartialSums(w, S)[S] = w[Chosen(S)] + PartialSums(w, S)[R]
  BY SumsStep DEF R
<1> QED BY <1>2, <1>3, SumIsLast DEF R

\* A sum grows by the value of the member that is added.
LEMMA SumAdd ==
  ASSUME NEW D, NEW w \in [D -> Nat], NEW S \in SUBSET D, IsFiniteSet(S),
         NEW x \in D, x \notin S
  PROVE  SumFunctionOnSet(w, S \cup {x}) = w[x] + SumFunctionOnSet(w, S)
<1> DEFINE U == S \cup {x}
           T == {n \in Nat : \A s \in SUBSET U, y \in U :
                   Cardinality(s) = n /\ y \notin s =>
                     SumFunctionOnSet(w, s \cup {y}) = w[y] + SumFunctionOnSet(w, s)}
<1>1. IsFiniteSet(U) /\ U \in SUBSET D
  BY FS_AddElement
<1>2. \A s \in SUBSET U : IsFiniteSet(s) /\ s \in SUBSET D /\ Cardinality(s) \in Nat
  BY <1>1, FS_Subset, FS_CardinalityType
<1>8. \A s \in SUBSET U : \A e \in s : Cardinality(s \ {e}) = Cardinality(s) - 1
  BY <1>2, FS_RemoveElement
<1> HIDE DEF U
<1>3. 0 \in T
  <2> SUFFICES ASSUME NEW s \in SUBSET U, NEW y \in U, Cardinality(s) = 0
               PROVE  SumFunctionOnSet(w, s \cup {y}) = w[y] + SumFunctionOnSet(w, s)
    OBVIOUS
  <2>1. s = {} /\ y \in D
    BY <1>1, <1>2, FS_EmptySet
  <2>2. {y} \in SUBSET D /\ IsFiniteSet({y}) /\ Chosen({y}) = y /\ {y} \ {Chosen({y})} = {}
    BY <2>1, FS_Singleton DEF Chosen
  <2> QED BY <2>1, <2>2, SumPick
<1>4. ASSUME NEW n \in T PROVE n + 1 \in T
  <2>0. n \in Nat
    BY <1>4
  <2> SUFFICES ASSUME NEW s \in SUBSET U, NEW y \in U, Cardinality(s) = n + 1, y \notin s
               PROVE  SumFunctionOnSet(w, s \cup {y}) = w[y] + SumFunctionOnSet(w, s)
    BY <2>0
  <2> DEFINE r == s \cup {y}
             z == Chosen(r)
             q == s \ {z}
  <2>1. z \in r /\ r \in SUBSET U /\ IsFiniteSet(r) /\ r \in SUBSET D /\ y \in D
    <3>1. z \in r
      BY DEF Chosen
    <3>2. r \in SUBSET U /\ y \in D
      BY <1>1
    <3> QED BY <3>1, <3>2, <1>2
  <2>2. SumFunctionOnSet(w, r) = w[z] + SumFunctionOnSet(w, r \ {z})
    BY <2>1, SumPick
  <2>3. CASE z = y
    <3>1. r \ {z} = s
      BY <2>3
    <3> QED BY <3>1, <2>2, <2>3
  <2>4. CASE z # y
    <3>0. /\ z \in s /\ z \in U /\ q \in SUBSET U /\ IsFiniteSet(s)
          /\ z \notin q /\ y \notin q
      BY <2>1, <2>4, <1>2
    <3>4. r \ {z} = q \cup {y} /\ s = q \cup {z}
      BY <3>0, <2>1, <2>4
    <3>5. Cardinality(q) = n
      <4>1. Cardinality(q) = Cardinality(s) - 1
        BY <3>0, <1>8
      <4> QED BY <4>1, <2>0
    <3>1. /\ z \in s /\ q \in SUBSET U /\ Cardinality(q) = n /\ z \notin q /\ y \notin q
          /\ r \ {z} = q \cup {y} /\ s = q \cup {z} /\ z \in U
      BY <3>0, <3>4, <3>5
    <3>2. /\ SumFunctionOnSet(w, q \cup {y}) = w[y] + SumFunctionOnSet(w, q)
          /\ SumFunctionOnSet(w, q \cup {z}) = w[z] + SumFunctionOnSet(w, q)
      BY <3>1, <1>4
    <3>3. w[y] \in Nat /\ w[z] \in Nat /\ SumFunctionOnSet(w, q) \in Nat
      BY <3>1, <2>1, <1>2, SumType
    <3>6. SumFunctionOnSet(w, r) = w[z] + (w[y] + SumFunctionOnSet(w, q))
      BY <2>2, <3>4, <3>2
    <3>7. SumFunctionOnSet(w, s) = w[z] + SumFunctionOnSet(w, q)
      BY <3>4, <3>2
    <3> QED BY <3>6, <3>7, <3>3
  <2> QED BY <2>3, <2>4
<1>5. T = Nat
  <2>1. T \subseteq Nat
    OBVIOUS
  <2> HIDE DEF T
  <2> QED BY <2>1, <1>3, <1>4, AllNumbers
<1>6. Cardinality(S) \in T
  <2>1. Cardinality(S) \in Nat
    BY FS_CardinalityType
  <2> HIDE DEF T
  <2> QED BY <2>1, <1>5
<1>7. S \in SUBSET U /\ x \in U
  BY DEF U
<1> QED BY <1>6, <1>7

LEMMA SumRemove ==
  ASSUME NEW D, NEW w \in [D -> Nat], NEW S \in SUBSET D, IsFiniteSet(S), NEW x \in S
  PROVE  SumFunctionOnSet(w, S) = w[x] + SumFunctionOnSet(w, S \ {x})
<1>1. /\ S \ {x} \in SUBSET D /\ IsFiniteSet(S \ {x}) /\ x \in D /\ x \notin S \ {x}
      /\ (S \ {x}) \cup {x} = S
  BY FS_Subset
<1> QED BY <1>1, SumAdd

\* Changing one value changes the sum by the difference.
LEMMA SumChange ==
  ASSUME NEW D, NEW w \in [D -> Nat], NEW S \in SUBSET D, IsFiniteSet(S), NEW x \in S, NEW n \in Nat
  PROVE  SumFunctionOnSet([w EXCEPT ![x] = n], S) = n + SumFunctionOnSet(w, S \ {x})
<1> DEFINE v == [w EXCEPT ![x] = n]
<1>1. v \in [D -> Nat] /\ v[x] = n /\ \A y \in S \ {x} : v[y] = w[y]
  OBVIOUS
<1> HIDE DEF v
<1>2. SumFunctionOnSet(v, S) = n + SumFunctionOnSet(v, S \ {x})
  BY <1>1, SumRemove
<1>3. S \ {x} \in SUBSET D /\ IsFiniteSet(S \ {x})
  BY FS_Subset
<1>4. SumFunctionOnSet(v, S \ {x}) = SumFunctionOnSet(w, S \ {x})
  BY <1>1, <1>3, SumSame
<1> QED BY <1>2, <1>4 DEF v

-----------------------------------------------------------------------------
\* The members of the parts that f gives to the members of s.
Parts(f, s) == UNION {f[x] : x \in s}

\* Members whose value is the size of their part add the size of the union of
\* their parts, when the parts share nothing.
LEMMA SumOfParts ==
  ASSUME NEW D, NEW w \in [D -> Nat], NEW B \in SUBSET D, IsFiniteSet(B),
         NEW O \in SUBSET D, IsFiniteSet(O), B \cap O = {}, NEW f,
         \A x \in O : IsFiniteSet(f[x]) /\ Cardinality(f[x]) = w[x],
         \A x, y \in O : x # y => f[x] \cap f[y] = {}
  PROVE  /\ IsFiniteSet(Parts(f, O))
         /\ SumFunctionOnSet(w, B \cup O) = SumFunctionOnSet(w, B) + Cardinality(Parts(f, O))
<1> DEFINE T == {s \in SUBSET O :
                   /\ IsFiniteSet(Parts(f, s))
                   /\ SumFunctionOnSet(w, B \cup s)
                        = SumFunctionOnSet(w, B) + Cardinality(Parts(f, s))}
<1>0. SumFunctionOnSet(w, B) \in Nat
  BY SumType
<1>1. {} \in T
  <2>1. Parts(f, {}) = {} /\ B \cup {} = B
    BY DEF Parts
  <2>2. IsFiniteSet({}) /\ Cardinality({}) = 0
    BY FS_EmptySet
  <2>3. /\ {} \in SUBSET O /\ IsFiniteSet(Parts(f, {}))
        /\ SumFunctionOnSet(w, B \cup {}) = SumFunctionOnSet(w, B) + Cardinality(Parts(f, {}))
    BY <2>1, <2>2, <1>0
  <2> QED BY <2>3
<1>2. ASSUME NEW s \in SUBSET O, s # {}, s \ {Chosen(s)} \in T
      PROVE  s \in T
  <2>1. PICK c \in s : c = Chosen(s)
    BY <1>2, PickOne
  <2> DEFINE r == s \ {c}
  <2>2. /\ r \in SUBSET O /\ IsFiniteSet(Parts(f, r))
        /\ SumFunctionOnSet(w, B \cup r)
             = SumFunctionOnSet(w, B) + Cardinality(Parts(f, r))
    BY <1>2, <2>1
  <2>3. c \in O /\ c \in D /\ s = r \cup {c} /\ c \notin r /\ c \notin B
    BY <2>1
  <2> HIDE DEF r
  <2>4. /\ B \cup r \in SUBSET D /\ IsFiniteSet(B \cup r) /\ c \notin B \cup r
        /\ B \cup s = (B \cup r) \cup {c}
    <3>1. IsFiniteSet(r)
      BY <2>2, FS_Subset
    <3>2. IsFiniteSet(B \cup r)
      BY <3>1, FS_Union
    <3> QED BY <2>2, <2>3, <3>2
  <2>5. SumFunctionOnSet(w, B \cup s) = w[c] + SumFunctionOnSet(w, B \cup r)
    BY <2>3, <2>4, SumAdd, SMTT(20)
  <2>6. Parts(f, s) = Parts(f, r) \cup f[c] /\ Parts(f, r) \cap f[c] = {}
    BY <2>2, <2>3 DEF Parts
  <2>7. IsFiniteSet(f[c]) /\ Cardinality(f[c]) = w[c] /\ w[c] \in Nat
    BY <2>3
  <2>8. /\ IsFiniteSet(Parts(f, s))
        /\ Cardinality(Parts(f, s)) = Cardinality(Parts(f, r)) + w[c] - Cardinality({})
    BY <2>2, <2>6, <2>7, FS_Union
  <2>9. Cardinality(Parts(f, r)) \in Nat /\ Cardinality({}) = 0
    BY <2>2, FS_CardinalityType, FS_EmptySet
  <2> QED BY <1>0, <2>2, <2>5, <2>7, <2>8, <2>9
<1>3. T = SUBSET O
  <2>1. T \subseteq SUBSET O
    OBVIOUS
  <2> HIDE DEF T
  <2> QED BY <2>1, <1>1, <1>2, AllSubsets
<1>4. O \in T
  BY <1>3
<1> QED BY <1>4

\* The size of two parts that share nothing.
LEMMA DisjointSize ==
  ASSUME NEW S, IsFiniteSet(S), NEW T, IsFiniteSet(T), S \cap T = {}
  PROVE  /\ IsFiniteSet(S \cup T)
         /\ Cardinality(S \cup T) = Cardinality(S) + Cardinality(T)
<1>1. Cardinality({}) = 0 /\ Cardinality(S) \in Nat /\ Cardinality(T) \in Nat
  BY FS_EmptySet, FS_CardinalityType
<1>2. /\ IsFiniteSet(S \cup T)
      /\ Cardinality(S \cup T) = Cardinality(S) + Cardinality(T) - Cardinality(S \cap T)
  BY FS_Union
<1>3. Cardinality(S \cap T) = 0
  <2>1. S \cap T = {}
    OBVIOUS
  <2> QED BY <1>1, <2>1
<1> DEFINE a == Cardinality(S)
           b == Cardinality(T)
           c == Cardinality(S \cap T)
           d == Cardinality(S \cup T)
<1>4. a \in Nat /\ b \in Nat /\ c = 0 /\ d = a + b - c
  BY <1>1, <1>2, <1>3
<1>5. d = a + b
  <2> HIDE DEF a, b, c, d
  <2> QED BY <1>4
<1> QED BY <1>2, <1>5

\* The sum over two sets that share nothing.
LEMMA SumUnion ==
  ASSUME NEW D, NEW w \in [D -> Nat], NEW B \in SUBSET D, IsFiniteSet(B),
         NEW O \in SUBSET D, IsFiniteSet(O), B \cap O = {}
  PROVE  SumFunctionOnSet(w, B \cup O) = SumFunctionOnSet(w, B) + SumFunctionOnSet(w, O)
<1> DEFINE T == {s \in SUBSET O :
                   SumFunctionOnSet(w, B \cup s)
                     = SumFunctionOnSet(w, B) + SumFunctionOnSet(w, s)}
<1>0. SumFunctionOnSet(w, B) \in Nat
  BY SumType
<1>1. {} \in T
  <2>1. B \cup {} = B /\ SumFunctionOnSet(w, {}) = 0 /\ {} \in SUBSET O
    BY SumEmpty
  <2>2. SumFunctionOnSet(w, B \cup {}) = SumFunctionOnSet(w, B) + SumFunctionOnSet(w, {})
    BY <2>1, <1>0
  <2> QED BY <2>1, <2>2
<1>2. ASSUME NEW s \in SUBSET O, s # {}, s \ {Chosen(s)} \in T
      PROVE  s \in T
  <2>1. PICK c \in s : c = Chosen(s)
    BY <1>2, PickOne
  <2> DEFINE r == s \ {c}
  <2>2. /\ r \in SUBSET O
        /\ SumFunctionOnSet(w, B \cup r) = SumFunctionOnSet(w, B) + SumFunctionOnSet(w, r)
    BY <1>2, <2>1
  <2>3. c \in O /\ c \in D /\ s = r \cup {c} /\ c \notin r /\ c \notin B
    BY <2>1
  <2> HIDE DEF r
  <2>4. /\ B \cup r \in SUBSET D /\ IsFiniteSet(B \cup r) /\ c \notin B \cup r
        /\ B \cup s = (B \cup r) \cup {c} /\ r \in SUBSET D /\ IsFiniteSet(r)
    <3>1. IsFiniteSet(r)
      BY <2>2, FS_Subset
    <3>2. IsFiniteSet(B \cup r)
      BY <3>1, FS_Union
    <3> QED BY <2>2, <2>3, <3>1, <3>2
  <2>5. SumFunctionOnSet(w, B \cup s) = w[c] + SumFunctionOnSet(w, B \cup r)
    <3> DEFINE U == B \cup r
    <3>1. U \in SUBSET D /\ IsFiniteSet(U) /\ c \notin U /\ c \in D /\ B \cup s = U \cup {c}
      BY <2>3, <2>4
    <3> HIDE DEF U
    <3>2. SumFunctionOnSet(w, U \cup {c}) = w[c] + SumFunctionOnSet(w, U)
      BY <3>1, SumAdd
    <3> QED BY <3>1, <3>2 DEF U
  <2>6. SumFunctionOnSet(w, s) = w[c] + SumFunctionOnSet(w, r)
    BY <2>3, <2>4, SumAdd
  <2>7. SumFunctionOnSet(w, r) \in Nat /\ w[c] \in Nat
    BY <2>3, <2>4, SumType
  <2> QED BY <1>0, <2>2, <2>5, <2>6, <2>7
<1>3. T = SUBSET O
  <2>1. T \subseteq SUBSET O
    OBVIOUS
  <2> HIDE DEF T
  <2> QED BY <2>1, <1>1, <1>2, AllSubsets
<1>4. O \in T
  BY <1>3
<1> QED BY <1>4

\* Fewer members, no larger sum.
LEMMA SumMonotone ==
  ASSUME NEW D, NEW w \in [D -> Nat], NEW S \in SUBSET D, IsFiniteSet(S), NEW R \in SUBSET S
  PROVE  SumFunctionOnSet(w, R) <= SumFunctionOnSet(w, S)
<1>1. /\ R \in SUBSET D /\ S \ R \in SUBSET D /\ R \cap (S \ R) = {} /\ R \cup (S \ R) = S
      /\ IsFiniteSet(R) /\ IsFiniteSet(S \ R)
  BY FS_Subset
<1> DEFINE Q == S \ R
<1>2. /\ SumFunctionOnSet(w, S) = SumFunctionOnSet(w, R) + SumFunctionOnSet(w, Q)
      /\ SumFunctionOnSet(w, R) \in Nat /\ SumFunctionOnSet(w, Q) \in Nat
  <2>1. /\ Q \in SUBSET D /\ R \cap Q = {} /\ R \cup Q = S /\ IsFiniteSet(Q)
        /\ R \in SUBSET D /\ IsFiniteSet(R)
    BY <1>1
  <2> HIDE DEF Q
  <2> QED BY <2>1, SumUnion, SumType
<1> QED BY <1>2
=============================================================================
