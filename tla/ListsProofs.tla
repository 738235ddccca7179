---------------------------- MODULE ListsProofs -----------------------------
(***************************************************************************)
(* What the operators of Lists compute, for every list and every finite    *)
(* set: the lemmas the proofs of the relay's mailboxes, of the sessions of *)
(* the core and of the configuration file share.                           *)
(***************************************************************************)
EXTENDS Lists, Sequences, SequencesExt, SequenceTheorems, FiniteSetTheorems,
        WellFoundedInduction, TLAPS

(* A set of numbers that is not empty has a least one.                     *)
LEMMA LeastOf ==
    ASSUME NEW I \in SUBSET Nat, I # {}
    PROVE  \E x \in I : \A y \in I : x <= y
<1>1. PICK x \in I : \A y \in I : ~(<<y, x>> \in OpToRel(<, Nat))
  BY WFMin, NatLessThanWellFounded
<1>2. ASSUME NEW y \in I, y < x PROVE FALSE
  <2>1. <<y, x>> \in Nat \X Nat
    OBVIOUS
  <2>2. <<y, x>> \in OpToRel(<, Nat)
    BY <1>2, <2>1 DEF OpToRel
  <2> QED
    BY <1>1, <2>2
<1> QED
  BY <1>2

(* The places in a set of numbers, in their order: each finite set has     *)
(* such an enumeration, or else one of the least size that has none would  *)
(* get one from that of the set without its greatest element.              *)
Ordered(I, e) ==
    e \in [1..Cardinality(I) -> I] /\ \A j, k \in 1..Cardinality(I) : j < k => e[j] < e[k]

(* A set of numbers with a bound that is not empty has a greatest one.     *)
LEMMA GreatestOf ==
    ASSUME NEW n \in Nat, NEW I \in SUBSET (1..n), I # {}
    PROVE  \E x \in I : \A y \in I : y <= x
<1> DEFINE J == {n - x : x \in I}
<1>1. J \in SUBSET Nat /\ J # {}
  <2>1. \A x \in I : n - x \in Nat
    OBVIOUS
  <2> QED
    BY <2>1
<1>2. PICK z \in J : \A y \in J : z <= y
  BY <1>1, LeastOf
<1>3. PICK x \in I : z = n - x
  BY <1>2
<1>4. ASSUME NEW y \in I PROVE y <= x
  <2>1. n - y \in J
    OBVIOUS
  <2>2. n - x <= n - y
    BY <1>2, <1>3, <2>1
  <2> QED
    BY <2>2
<1> QED
  BY <1>4

(* Every set of places of a list can be enumerated in order, so that       *)
(* KeptAt is defined by one such enumeration.                              *)
LEMMA OrderedExists ==
    ASSUME NEW n \in Nat, NEW I \in SUBSET (1..n)
    PROVE  \E e : Ordered(I, e)
<1> DEFINE Bad == {c \in Nat : \E K \in SUBSET (1..n) : Cardinality(K) = c /\ \A e : ~Ordered(K, e)}
<1>0. \A K \in SUBSET (1..n) : IsFiniteSet(K) /\ Cardinality(K) \in Nat
  <2>1. IsFiniteSet(1..n)
    BY FS_Interval
  <2> QED
    BY <2>1, FS_Subset, FS_CardinalityType
<1>1. SUFFICES ASSUME Bad # {} PROVE FALSE
  BY <1>0
<1>2. PICK c \in Bad : \A d \in Bad : c <= d
  <2>1. Bad \in SUBSET Nat
    OBVIOUS
  <2> QED
    BY <1>1, <2>1, LeastOf
<1>3. PICK K \in SUBSET (1..n) : Cardinality(K) = c /\ \A e : ~Ordered(K, e)
  BY <1>2
<1>4. K # {}
  <2>1. ASSUME K = {} PROVE FALSE
    <3>1. Cardinality(K) = 0
      BY <2>1, FS_EmptySet
    <3> DEFINE e == [k \in 1..0 |-> k]
    <3>2. Ordered(K, e)
      BY <3>1 DEF Ordered
    <3> QED
      BY <1>3, <3>2
  <2> QED
    BY <2>1
<1>5. PICK x \in K : \A y \in K : y <= x
  BY <1>4, GreatestOf
<1> DEFINE L == K \ {x}
<1>6. L \in SUBSET (1..n) /\ Cardinality(L) \in Nat /\ c = Cardinality(L) + 1
  BY <1>0, <1>3, FS_RemoveElement
<1>7. PICK e : Ordered(L, e)
  <2>1. Cardinality(L) \notin Bad
    BY <1>2, <1>6
  <2> QED
    BY <1>6, <2>1
<1> HIDE DEF L
<1> DEFINE g == [k \in 1..c |-> IF k = c THEN x ELSE e[k]]
<1>8. \A k \in 1..Cardinality(L) : e[k] \in K /\ e[k] < x
  <2> TAKE k \in 1..Cardinality(L)
  <2>1. e[k] \in K /\ e[k] # x
    BY <1>7 DEF Ordered, L
  <2>2. e[k] <= x /\ e[k] \in 1..n /\ x \in 1..n
    BY <1>5, <2>1
  <2> QED
    BY <2>1, <2>2
<1>9. g \in [1..c -> K]
  BY <1>6, <1>8
<1>10. \A j, k \in 1..c : j < k => g[j] < g[k]
  <2> TAKE j, k \in 1..c
  <2> HAVE j < k
  <2>1. j \in 1..Cardinality(L) /\ g[j] = e[j]
    BY <1>6
  <2>2. CASE k = c
    BY <1>8, <2>1, <2>2
  <2>3. CASE k # c
    <3>1. k \in 1..Cardinality(L) /\ g[k] = e[k]
      BY <1>6, <2>3
    <3> QED
      BY <1>7, <2>1, <3>1 DEF Ordered
  <2> QED
    BY <2>2, <2>3
<1>11. Ordered(K, g)
  BY <1>3, <1>9, <1>10 DEF Ordered
<1> QED
  BY <1>3, <1>11

(* What is kept of a list is a list of its entries, and without a          *)
(* repetition when the list has none.                                      *)
LEMMA KeptAtFacts ==
    ASSUME NEW S, NEW s \in Seq(S), NEW I \in SUBSET (DOMAIN s)
    PROVE  /\ KeptAt(s, I) \in Seq(S)
           /\ \A k \in DOMAIN KeptAt(s, I) : \E i \in I : KeptAt(s, I)[k] = s[i]
           /\ IsInjective(s) => IsInjective(KeptAt(s, I))
<1> DEFINE n == Len(s)
           c == Cardinality(I)
           e == Places(I)
           o == KeptAt(s, I)
<1>1. n \in Nat /\ DOMAIN s = 1..n
  OBVIOUS
<1>2. I \in SUBSET (1..n)
  BY <1>1
<1> HIDE DEF n
<1>3. Ordered(I, e)
  BY <1>1, <1>2, OrderedExists DEF Places, Ordered
<1>4. c \in Nat
  <2>1. IsFiniteSet(1..n)
    BY <1>1, FS_Interval
  <2>2. IsFiniteSet(I)
    BY <1>2, <2>1, FS_Subset
  <2> QED
    BY <2>2, FS_CardinalityType
<1>5. o = [k \in 1..c |-> s[e[k]]]
  BY DEF KeptAt
<1> HIDE DEF c, e, o
<1>6. \A k \in 1..c : e[k] \in I
  BY <1>3 DEF Ordered, c
<1>7. o \in [1..c -> S]
  BY <1>5, <1>6
<1>8. o \in Seq(S)
  BY <1>4, <1>7
<1>9. \A k \in DOMAIN o : \E i \in I : o[k] = s[i]
  BY <1>5, <1>6
<1>10. ASSUME IsInjective(s), NEW j \in DOMAIN o, NEW k \in DOMAIN o, o[j] = o[k]
       PROVE  j = k
  <2>1. j \in 1..c /\ k \in 1..c /\ s[e[j]] = s[e[k]]
    BY <1>5, <1>10
  <2>2. e[j] = e[k]
    BY <1>6, <1>10, <2>1 DEF IsInjective
  <2>3. /\ j < k => e[j] < e[k]
        /\ k < j => e[k] < e[j]
    BY <1>3, <2>1 DEF Ordered, c
  <2>4. e[j] \in Nat /\ e[k] \in Nat /\ j \in Nat /\ k \in Nat
    BY <1>2, <1>6, <2>1
  <2> QED
    BY <2>2, <2>3, <2>4
<1>11. IsInjective(s) => IsInjective(o)
  BY <1>10 DEF IsInjective
<1> QED
  BY <1>8, <1>9, <1>11 DEF o

(* Nothing is lost of what KeptAt is to keep.                              *)
LEMMA KeptAtAll ==
    ASSUME NEW S, NEW s \in Seq(S), NEW I \in SUBSET (DOMAIN s)
    PROVE  \A i \in I : \E k \in DOMAIN KeptAt(s, I) : KeptAt(s, I)[k] = s[i]
<1> DEFINE c == Cardinality(I)
           e == Places(I)
<1>1. PICK n \in Nat : DOMAIN s = 1..n
  OBVIOUS
<1>2. Ordered(I, e)
  BY <1>1, OrderedExists DEF Places, Ordered
<1>3. IsFiniteSet(I) /\ c \in Nat
  <2>1. IsFiniteSet(1..n)
    BY <1>1, FS_Interval
  <2>2. IsFiniteSet(I)
    BY <1>1, <2>1, FS_Subset
  <2> QED
    BY <2>2, FS_CardinalityType
<1>4. Cardinality(1..c) = c
  BY <1>3, FS_Interval
<1> HIDE DEF e
<1>5. e \in Injection(1..c, I)
  <2>1. e \in [1..c -> I]
    BY <1>2 DEF Ordered
  <2>2. ASSUME NEW j \in 1..c, NEW k \in 1..c, e[j] = e[k] PROVE j = k
    <3>1. /\ j < k => e[j] < e[k]
          /\ k < j => e[k] < e[j]
      BY <1>2 DEF Ordered
    <3>2. e[j] \in Nat /\ e[k] \in Nat /\ j \in Nat /\ k \in Nat
      BY <1>1, <2>1
    <3> QED
      BY <2>2, <3>1, <3>2
  <2> QED
    BY <2>1, <2>2 DEF Injection, IsInjective
<1>6. e \in Surjection(1..c, I)
  BY <1>3, <1>4, <1>5, FS_Injection
<1> HIDE DEF c
<1>7. KeptAt(s, I) = [k \in 1..c |-> s[e[k]]]
  BY DEF KeptAt, c, e
<1>8. \A i \in I : \E k \in 1..c : e[k] = i
  BY <1>6 DEF Surjection
<1> QED
  BY <1>7, <1>8

-----------------------------------------------------------------------------
(* Sums.  The units counted for the things in I.                           *)
Units(amount, I) == UNION {{x} \X (1..amount[x]) : x \in I}

(* A sum over a finite set is a number.                                    *)
LEMMA TotalType ==
    ASSUME NEW amount, NEW I, IsFiniteSet(I), \A x \in I : amount[x] \in Nat
    PROVE  IsFiniteSet(Units(amount, I)) /\ Total(amount, I) \in Nat
<1> DEFINE part == [x \in I |-> {x} \X (1..amount[x])]
           parts == {{x} \X (1..amount[x]) : x \in I}
<1>1. \A x \in I : IsFiniteSet(part[x])
  <2> TAKE x \in I
  <2>0. amount[x] \in Int /\ 1 \in Int
    OBVIOUS
  <2>1. IsFiniteSet(1..amount[x])
    BY <2>0, FS_Interval
  <2>2. IsFiniteSet({x})
    BY FS_Singleton
  <2> QED
    BY <2>1, <2>2, FS_Product
<1>2. part \in Surjection(I, parts)
  BY DEF Surjection
<1>3. IsFiniteSet(parts)
  <2> HIDE DEF part, parts
  <2> QED
    BY <1>2, FS_Surjection
<1>4. \A T \in parts : IsFiniteSet(T)
  BY <1>1
<1>5. IsFiniteSet(UNION parts)
  <2> HIDE DEF parts
  <2> QED
    BY <1>3, <1>4, FS_UNION
<1>6. IsFiniteSet(Units(amount, I))
  BY <1>5 DEF Units
<1>7. Total(amount, I) = Cardinality(Units(amount, I))
  BY DEF Total, Units
<1> QED
  BY <1>6, <1>7, FS_CardinalityType

(* The sum over nothing, and over one thing.                               *)
LEMMA TotalSmall ==
    ASSUME NEW amount
    PROVE  /\ Total(amount, {}) = 0
           /\ \A x : amount[x] \in Nat => Total(amount, {x}) = amount[x]
<1>1. Total(amount, {}) = 0
  <2>1. UNION {{x} \X (1..amount[x]) : x \in {}} = {}
    OBVIOUS
  <2> QED
    BY <2>1, FS_EmptySet DEF Total
<1>2. ASSUME NEW x, amount[x] \in Nat PROVE Total(amount, {x}) = amount[x]
  <2>1. UNION {{y} \X (1..amount[y]) : y \in {x}} = {x} \X (1..amount[x])
    OBVIOUS
  <2>2. IsFiniteSet(1..amount[x]) /\ Cardinality(1..amount[x]) = amount[x]
    BY SMTT(40), <1>2, FS_Interval
  <2>3. IsFiniteSet({x}) /\ Cardinality({x}) = 1
    BY FS_Singleton
  <2>4. Cardinality({x} \X (1..amount[x])) = 1 * amount[x]
    BY ZenonT(60), <2>2, <2>3, FS_Product
  <2> QED
    BY <1>2, <2>1, <2>4 DEF Total
<1> QED
  BY <1>1, <1>2

(* Only the amounts of the things in the set matter.                       *)
LEMMA TotalSame ==
    ASSUME NEW a, NEW b, NEW I, \A x \in I : a[x] = b[x]
    PROVE  Total(a, I) = Total(b, I)
<1>1. {{x} \X (1..a[x]) : x \in I} = {{x} \X (1..b[x]) : x \in I}
  OBVIOUS
<1> QED
  BY <1>1 DEF Total

(* The sum over a set is that over a part of it and that over the rest.    *)
LEMMA TotalSplit ==
    ASSUME NEW amount, NEW I, IsFiniteSet(I), \A x \in I : amount[x] \in Nat, NEW J \in SUBSET I
    PROVE  /\ Total(amount, J) \in Nat /\ Total(amount, I \ J) \in Nat
           /\ Total(amount, I) = Total(amount, J) + Total(amount, I \ J)
<1> DEFINE K == I \ J
<1>1. IsFiniteSet(J) /\ IsFiniteSet(K)
  BY FS_Subset
<1>2. /\ IsFiniteSet(Units(amount, J)) /\ Total(amount, J) \in Nat
      /\ IsFiniteSet(Units(amount, K)) /\ Total(amount, K) \in Nat
  BY <1>1, TotalType
<1>3. Units(amount, J) \cap Units(amount, K) = {}
  <2>1. ASSUME NEW u, u \in Units(amount, J), u \in Units(amount, K) PROVE FALSE
    <3>1. PICK x \in J : u \in {x} \X (1..amount[x])
      BY <2>1 DEF Units
    <3>2. PICK y \in K : u \in {y} \X (1..amount[y])
      BY <2>1 DEF Units
    <3> QED
      BY <3>1, <3>2
  <2> QED
    BY <2>1
<1>4. Units(amount, I) = Units(amount, J) \cup Units(amount, K)
  <2>1. I = J \cup K
    OBVIOUS
  <2> HIDE DEF K
  <2>2. Units(amount, J \cup K) = Units(amount, J) \cup Units(amount, K)
    BY DEF Units
  <2> QED
    BY <2>1, <2>2
<1>5. Cardinality(Units(amount, I)) = Cardinality(Units(amount, J)) + Cardinality(Units(amount, K)) - 0
  <2> DEFINE u == Units(amount, J)
             v == Units(amount, K)
  <2>1. IsFiniteSet(u) /\ IsFiniteSet(v) /\ u \cap v = {} /\ Units(amount, I) = u \cup v
    BY <1>2, <1>3, <1>4
  <2> HIDE DEF u, v
  <2>2. Cardinality(u \cup v) = Cardinality(u) + Cardinality(v) - Cardinality(u \cap v)
    BY <2>1, FS_Union
  <2>3. Cardinality({}) = 0
    BY FS_EmptySet
  <2>4. Cardinality(Units(amount, I)) = Cardinality(u) + Cardinality(v) - 0
    BY <2>1, <2>2, <2>3
  <2> QED
    BY <2>4 DEF u, v
<1>6. \A M : Total(amount, M) = Cardinality(Units(amount, M))
  BY DEF Total, Units
<1> QED
  BY <1>2, <1>5, <1>6

(* A thing more, and a part of the things.                                 *)
LEMMA TotalAdd ==
    ASSUME NEW amount, NEW I, IsFiniteSet(I), NEW x, x \notin I, \A y \in I \cup {x} : amount[y] \in Nat
    PROVE  Total(amount, I \cup {x}) = Total(amount, I) + amount[x]
<1>1. IsFiniteSet(I \cup {x})
  BY FS_AddElement
<1>2. (I \cup {x}) \ I = {x} /\ I \in SUBSET (I \cup {x})
  OBVIOUS
<1>3. Total(amount, I \cup {x}) = Total(amount, I) + Total(amount, (I \cup {x}) \ I)
  <2> DEFINE M == I \cup {x}
  <2>1. IsFiniteSet(M) /\ I \in SUBSET M /\ \A y \in M : amount[y] \in Nat
    BY <1>1, <1>2
  <2> HIDE DEF M
  <2>2. Total(amount, M) = Total(amount, I) + Total(amount, M \ I)
    BY <2>1, TotalSplit
  <2> QED
    BY <2>2 DEF M
<1>4. Total(amount, {x}) = amount[x]
  BY TotalSmall
<1> QED
  BY <1>2, <1>3, <1>4

LEMMA TotalOfPart ==
    ASSUME NEW amount, NEW I, IsFiniteSet(I), \A x \in I : amount[x] \in Nat, NEW J \in SUBSET I
    PROVE  Total(amount, J) <= Total(amount, I)
<1>1. /\ Total(amount, J) \in Nat /\ Total(amount, I \ J) \in Nat
      /\ Total(amount, I) = Total(amount, J) + Total(amount, I \ J)
  BY TotalSplit
<1> QED
  BY <1>1
=============================================================================
