--------------------------- MODULE FiniteInduction ---------------------------
(***************************************************************************)
(* Induction over finite sets and over the naturals with the induction     *)
(* hypothesis given as a set of good values, which first-order provers can *)
(* instantiate, and what follows from it for sums; and division with       *)
(* remainder.                                                              *)
(***************************************************************************)
EXTENDS Integers, FiniteSets, Functions, FiniteSetTheorems, TLAPS

\* A finite set is good if every set is whose parts with one element less
\* are all good.
LEMMA SetInduction ==
    ASSUME NEW S, IsFiniteSet(S), NEW G,
           \A T \in SUBSET S : (\A x \in T : T \ {x} \in G) => T \in G
    PROVE  \A T \in SUBSET S : T \in G
<1> DEFINE Bad == {T \in SUBSET S : T \notin G}
           R   == StrictSubsetOrdering(S)
<1>1. SUFFICES ASSUME Bad # {} PROVE FALSE
  OBVIOUS
<1>2. Bad \subseteq FiniteSubsetsOf(S)
  <2>1. \A T \in SUBSET S : IsFiniteSet(T)
    BY FS_Subset
  <2>2. QED
    BY <2>1 DEF FiniteSubsetsOf
<1>3. IsWellFoundedOn(R, FiniteSubsetsOf(S))
  BY FS_StrictSubsetOrderingWellFounded
<1> HIDE DEF Bad, R
<1>4. PICK T \in Bad : \A U \in Bad : ~ (<<U, T>> \in R)
  BY <1>1, <1>2, <1>3, WFMin
<1>5. T \in SUBSET S /\ T \notin G
  BY DEF Bad
<1>6. ASSUME NEW x \in T PROVE T \ {x} \in G
  <2>1. T \ {x} \in SUBSET S /\ T \ {x} \subseteq T /\ T \ {x} # T
    BY <1>5
  <2>2. <<T \ {x}, T>> \in R
    BY <1>5, <2>1 DEF R, StrictSubsetOrdering
  <2>3. QED
    BY <1>4, <2>1, <2>2 DEF Bad
<1>7. QED
  BY <1>5, <1>6

\* A natural number is good if 0 is and every successor of a good one.
LEMMA NatSetInduction ==
    ASSUME NEW G, 0 \in G, \A n \in Nat : n \in G => n + 1 \in G
    PROVE  \A n \in Nat : n \in G
<1> SUFFICES ASSUME NEW n \in Nat PROVE n \in G
  OBVIOUS
<1> DEFINE S == 1..n
           H == {T \in SUBSET S : Cardinality(T) \in G}
<1>1. IsFiniteSet(S) /\ Cardinality(S) = n
  <2>1. IsFiniteSet(1..n) /\ Cardinality(1..n) = (IF 1 > n THEN 0 ELSE n - 1 + 1)
    BY FS_Interval
  <2>2. QED
    BY <2>1
<1>2. ASSUME NEW T \in SUBSET S, \A x \in T : T \ {x} \in H
      PROVE  T \in H
  <2>1. IsFiniteSet(T) /\ Cardinality(T) \in Nat
    BY <1>1, FS_Subset, FS_CardinalityType
  <2>2. CASE T = {}
    BY <2>2, FS_EmptySet
  <2>3. CASE T # {}
    <3>1. PICK x \in T : TRUE
      BY <2>3
    <3>2. IsFiniteSet(T \ {x}) /\ Cardinality(T \ {x}) = Cardinality(T) - 1
      BY <2>1, FS_RemoveElement
    <3>3. Cardinality(T \ {x}) \in G /\ Cardinality(T \ {x}) \in Nat
      BY <1>2, <3>2, FS_CardinalityType
    <3>4. Cardinality(T \ {x}) + 1 = Cardinality(T)
      BY <2>1, <3>2
    <3>5. QED
      BY <3>3, <3>4
  <2>4. QED
    BY <2>2, <2>3
<1> HIDE DEF H, S
<1>3. \A T \in SUBSET S : T \in H
  <2>1. \A T \in SUBSET S : (\A x \in T : T \ {x} \in H) => T \in H
    BY <1>2
  <2>2. QED
    BY ONLY <1>1, <2>1, SetInduction
<1>4. QED
  <2>1. S \in H
    BY <1>3
  <2>2. QED
    BY <1>1, <2>1 DEF H

\* Two functions that agree at 0 and go on alike agree.
LEMMA SameByLevels ==
    ASSUME NEW N \in Nat, NEW f, NEW g, f[0] = g[0],
           \A k \in 1..N : f[k - 1] = g[k - 1] => f[k] = g[k]
    PROVE  \A k \in 0..N : f[k] = g[k]
<1> DEFINE G == {n \in Nat : n <= N => f[n] = g[n]}
<1>1. 0 \in G
  OBVIOUS
<1>2. ASSUME NEW n \in Nat, n \in G PROVE n + 1 \in G
  <2>1. SUFFICES ASSUME n + 1 <= N PROVE f[n + 1] = g[n + 1]
    OBVIOUS
  <2>2. PICK k : k = n + 1
    OBVIOUS
  <2>3. k \in 1..N /\ k - 1 = n /\ f[n] = g[n]
    BY <1>2, <2>1, <2>2
  <2>4. QED
    BY <2>2, <2>3
<1> HIDE DEF G
<1>3. \A n \in Nat : n \in G
  BY <1>1, <1>2, NatSetInduction
<1>4. QED
  BY <1>3 DEF G

\* A set of naturals has a least element.
LEMMA LeastNatural ==
    ASSUME NEW S \in SUBSET Nat, S # {}
    PROVE  \E m \in S : \A n \in S : m <= n
<1> DEFINE R == OpToRel(<, Nat)
<1>1. \A x, y \in Nat : x < y => <<x, y>> \in R
  BY DEF OpToRel
<1>2. IsWellFoundedOn(R, Nat)
  BY NatLessThanWellFounded
<1> HIDE DEF R
<1>3. PICK m \in S : \A n \in S : ~ (<<n, m>> \in R)
  BY <1>2, WFMin
<1>4. \A n \in S : ~ (n < m)
  BY <1>1, <1>3
<1>5. QED
  BY <1>4

\* The sum of a function is g of its domain, if g is 0 of the empty set and
\* grows by f[x] with x.
LEMMA SumIs ==
    ASSUME NEW f, IsFiniteSet(DOMAIN f), NEW g \in [SUBSET DOMAIN f -> Nat],
           g[{}] = 0,
           \A T \in SUBSET DOMAIN f : \A x \in T : g[T] = f[x] + g[T \ {x}]
    PROVE  SumFunction(f) = g[DOMAIN f]
<1> DEFINE D == DOMAIN f
           Def(it) == [s \in SUBSET D |-> IF s = {} THEN 0
                         ELSE f[CHOOSE x \in s : TRUE] + it[s \ {CHOOSE x \in s : TRUE}]]
           iter == CHOOSE it : it = Def(it)
<1>1. SumFunction(f) = iter[D]
  BY DEF SumFunction, SumFunctionOnSet, FoldFunctionOnSet, MapThenFoldSet
<1>2. g = Def(g)
  <2>1. ASSUME NEW T \in SUBSET D
        PROVE  g[T] = IF T = {} THEN 0
                      ELSE f[CHOOSE x \in T : TRUE] + g[T \ {CHOOSE x \in T : TRUE}]
    <3>1. CASE T = {}
      BY <3>1
    <3>2. CASE T # {}
      <4>1. PICK x \in T : x = CHOOSE y \in T : TRUE
        BY <3>2
      <4>2. QED
        BY <3>2, <4>1
    <3>3. QED
      BY <3>1, <3>2
  <2>2. g = [T \in SUBSET D |-> g[T]]
    OBVIOUS
  <2>3. QED
    BY <2>1, <2>2
<1>3. iter = Def(iter)
  <2> HIDE DEF Def
  <2>1. QED
    BY ONLY <1>2, Zenon
<1> HIDE DEF iter
<1> DEFINE G == {T \in SUBSET D : iter[T] = g[T]}
<1>4. ASSUME NEW T \in SUBSET D, \A x \in T : T \ {x} \in G
      PROVE  T \in G
  <2>1. CASE T = {}
    BY <1>3, <2>1
  <2>2. CASE T # {}
    <3>1. PICK x \in T : x = CHOOSE y \in T : TRUE
      BY <2>2
    <3>2. iter[T] = f[x] + iter[T \ {x}]
      BY <1>3, <2>2, <3>1
    <3>3. iter[T \ {x}] = g[T \ {x}]
      BY <1>4
    <3>4. QED
      BY <3>2, <3>3
  <2>3. QED
    BY <2>1, <2>2
<1> HIDE DEF G
<1>5. \A T \in SUBSET D : T \in G
  <2>1. \A T \in SUBSET D : (\A x \in T : T \ {x} \in G) => T \in G
    BY <1>4
  <2>2. QED
    BY <2>1, SetInduction
<1>6. QED
  BY <1>1, <1>5 DEF G

-----------------------------------------------------------------------------
(* A sum of natural numbers is the size of a pile that has f[x] elements   *)
(* for x, so that sums can be taken apart like sets.                       *)

Pile(f) == UNION {{x} \X (1..f[x]) : x \in DOMAIN f}

\* f without x.
But(f, x) == [y \in DOMAIN f \ {x} |-> f[y]]

\* The pile of f is the one of f without x and f[x] more.
LEMMA PileSplit ==
    ASSUME NEW f, NEW x \in DOMAIN f, f[x] \in Nat, IsFiniteSet(Pile(But(f, x)))
    PROVE  /\ IsFiniteSet(Pile(f))
           /\ Cardinality(Pile(f)) = f[x] + Cardinality(Pile(But(f, x)))
<1> DEFINE P == Pile(But(f, x))
           Q == {x} \X (1..f[x])
<1>1. Pile(f) = P \cup Q
  BY DEF Pile, But
<1>2. IsFiniteSet(Q) /\ Cardinality(Q) = f[x]
  <2>1. IsFiniteSet({x}) /\ Cardinality({x}) = 1
    BY FS_Singleton
  <2>2. IsFiniteSet(1..f[x]) /\ Cardinality(1..f[x]) = f[x]
    <3>1. /\ IsFiniteSet(1..f[x])
          /\ Cardinality(1..f[x]) = IF 1 > f[x] THEN 0 ELSE f[x] - 1 + 1
      BY FS_Interval
    <3>2. QED
      BY <3>1
  <2>3. IsFiniteSet(Q) /\ Cardinality(Q) = Cardinality({x}) * Cardinality(1..f[x])
    BY <2>1, <2>2, FS_Product
  <2>4. QED
    BY <2>1, <2>2, <2>3
<1>3. P \cap Q = {}
  BY DEF Pile, But
<1> HIDE DEF P, Q
<1>4. IsFiniteSet(P \cup Q) /\ Cardinality(P \cup Q) = Cardinality(P) + Cardinality(Q)
  <2>1. /\ IsFiniteSet(P \cup Q)
        /\ Cardinality(P \cup Q) = Cardinality(P) + Cardinality(Q) - Cardinality(P \cap Q)
    BY <1>2, FS_Union DEF P
  <2>2. Cardinality(P \cap Q) = 0
    BY <1>3, FS_EmptySet
  <2>3. Cardinality(P) \in Nat /\ Cardinality(Q) \in Nat
    BY <1>2, FS_CardinalityType DEF P
  <2>4. QED
    BY <2>1, <2>2, <2>3
<1>5. Cardinality(P) \in Nat
  BY FS_CardinalityType DEF P
<1>6. QED
  BY <1>1, <1>2, <1>4, <1>5 DEF P

\* The sum is the size of the pile.
LEMMA SumIsPile ==
    ASSUME NEW D, IsFiniteSet(D), NEW f \in [D -> Nat]
    PROVE  IsFiniteSet(Pile(f)) /\ SumFunction(f) = Cardinality(Pile(f))
<1> DEFINE part(T) == [y \in T |-> f[y]]
           G == {T \in SUBSET D : IsFiniteSet(Pile(part(T)))}
           g == [T \in SUBSET D |-> Cardinality(Pile(part(T)))]
<1>1. ASSUME NEW T, NEW x \in T PROVE But(part(T), x) = part(T \ {x})
  BY DEF But
<1>2. Pile(part({})) = {}
  BY DEF Pile
<1>3. ASSUME NEW T \in SUBSET D, \A x \in T : T \ {x} \in G PROVE T \in G
  <2>1. CASE T = {}
    BY <1>2, <2>1, FS_EmptySet
  <2>2. CASE T # {}
    <3>1. PICK x \in T : TRUE
      BY <2>2
    <3>2. IsFiniteSet(Pile(But(part(T), x)))
      BY <1>1, <1>3, <3>1
    <3>3. part(T)[x] \in Nat /\ x \in DOMAIN part(T)
      BY <3>1
    <3> HIDE DEF part
    <3>4. IsFiniteSet(Pile(part(T)))
      BY <3>2, <3>3, PileSplit
    <3>5. QED
      BY <3>4
  <2>3. QED
    BY <2>1, <2>2
<1>4. \A T \in SUBSET D : IsFiniteSet(Pile(part(T)))
  <2> HIDE DEF G
  <2>1. \A T \in SUBSET D : T \in G
    BY <1>3, SetInduction
  <2>2. QED
    BY <2>1 DEF G
<1>5. g \in [SUBSET D -> Nat] /\ g[{}] = 0
  BY <1>2, <1>4, FS_CardinalityType, FS_EmptySet
<1>6. ASSUME NEW T \in SUBSET D, NEW x \in T PROVE g[T] = f[x] + g[T \ {x}]
  <2>1. IsFiniteSet(Pile(But(part(T), x)))
    BY <1>1, <1>4
  <2>2. part(T)[x] = f[x] /\ f[x] \in Nat /\ x \in DOMAIN part(T)
    OBVIOUS
  <2>3. Cardinality(Pile(part(T))) = f[x] + Cardinality(Pile(But(part(T), x)))
    <3> HIDE DEF part
    <3>1. QED
      BY <2>1, <2>2, PileSplit
  <2>4. QED
    BY <1>1, <2>3
<1>7. part(D) = f /\ DOMAIN f = D
  OBVIOUS
<1> HIDE DEF g, part
<1>8. SumFunction(f) = g[D]
  <2>1. /\ IsFiniteSet(DOMAIN f) /\ g \in [SUBSET DOMAIN f -> Nat] /\ g[{}] = 0
        /\ \A T \in SUBSET DOMAIN f : \A x \in T : g[T] = f[x] + g[T \ {x}]
    BY <1>5, <1>6, <1>7
  <2>2. SumFunction(f) = g[DOMAIN f]
    BY ONLY <2>1, SumIs, Zenon
  <2>3. QED
    BY <1>7, <2>2
<1>9. g[D] = Cardinality(Pile(f)) /\ IsFiniteSet(Pile(f))
  BY <1>4, <1>7 DEF g
<1>10. QED
  BY <1>8, <1>9

\* A sum is f[x] more than the sum of the rest.
LEMMA SumSplit ==
    ASSUME NEW D, IsFiniteSet(D), NEW f \in [D -> Nat], NEW x \in D
    PROVE  /\ SumFunction(f) = f[x] + SumFunction(But(f, x))
           /\ SumFunction(f) \in Nat /\ SumFunction(But(f, x)) \in Nat
<1>1. But(f, x) \in [D \ {x} -> Nat] /\ IsFiniteSet(D \ {x})
  BY FS_Subset DEF But
<1>2. IsFiniteSet(Pile(But(f, x))) /\ SumFunction(But(f, x)) = Cardinality(Pile(But(f, x)))
  BY <1>1, SumIsPile
<1>3. SumFunction(f) = Cardinality(Pile(f)) /\ IsFiniteSet(Pile(f))
  BY SumIsPile
<1>4. Cardinality(Pile(f)) = f[x] + Cardinality(Pile(But(f, x)))
  BY <1>2, PileSplit
<1>5. QED
  BY <1>2, <1>3, <1>4, FS_CardinalityType

-----------------------------------------------------------------------------
\* Division with remainder.
LEMMA DivMod ==
    ASSUME NEW i \in Int, NEW n \in Int, n > 0
    PROVE  /\ i = (i \div n) * n + (i % n)
           /\ i \div n \in Int /\ i % n \in 0..(n - 1)
OBVIOUS

LEMMA DivModUnique ==
    ASSUME NEW n \in Int, n > 0, NEW q \in Int, NEW r \in 0..(n - 1)
    PROVE  (q * n + r) \div n = q /\ (q * n + r) % n = r
OBVIOUS

=============================================================================
