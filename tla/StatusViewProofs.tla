-------------------------- MODULE StatusViewProofs --------------------------
(***************************************************************************)
(* That the queries answer what was so, for any number of jobs, pages,     *)
(* limits and scripts that run during a call.  The lists come first: the    *)
(* n-th of a finite set exists, so the lists built from it hold every       *)
(* member of their set once; then one inductive invariant of what a call   *)
(* has read, and the properties of its answer.                             *)
(***************************************************************************)
EXTENDS StatusView, TLAPS, FiniteSetTheorems, SequenceTheorems, WellFoundedInduction

-----------------------------------------------------------------------------
(* Lists. *)

\* A set of numbers has a lowest one.
LEMMA Lowest ==
  ASSUME NEW S \in SUBSET Nat, S # {}
  PROVE  \E n \in S : \A m \in S : n <= m
<1>1. PICK n \in S : \A m \in S : <<m, n>> \notin OpToRel(<, Nat)
  BY NatLessThanWellFounded, WFMin
<1>2. \A m \in S : ~(m < n)
  BY <1>1 DEF OpToRel
<1> QED
  BY <1>2

\* A finite set of numbers has an n-th member, for every n up to its size.  (The
\* lowest n without one leads to the member after the one before it.)
LEMMA Ranked ==
  ASSUME NEW S \in SUBSET Nat, IsFiniteSet(S), NEW n \in 1..Cardinality(S)
  PROVE  \E x \in S : Cardinality({y \in S : y < x}) = n - 1
<1> DEFINE Below(x) == {y \in S : y < x}
           Has(k)   == \E x \in S : Cardinality(Below(x)) = k - 1
           Without  == {k \in 1..Cardinality(S) : ~Has(k)}
<1>0. \A y \in S : y \in Nat
  OBVIOUS
<1>1. Cardinality(S) \in Nat
  BY FS_CardinalityType
<1>2. \A x \in S : /\ IsFiniteSet(Below(x)) /\ Cardinality(Below(x)) \in Nat
                   /\ Cardinality(Below(x) \cup {x}) = Cardinality(Below(x)) + 1
  <2>1. SUFFICES ASSUME NEW x \in S
                 PROVE  /\ IsFiniteSet(Below(x)) /\ Cardinality(Below(x)) \in Nat
                        /\ Cardinality(Below(x) \cup {x}) = Cardinality(Below(x)) + 1
    OBVIOUS
  <2>2. Below(x) \in SUBSET S /\ x \notin Below(x)
    OBVIOUS
  <2>3. IsFiniteSet(Below(x))
    BY <2>2, FS_Subset
  <2> HIDE DEF Below
  <2> QED
    BY <2>2, <2>3, FS_CardinalityType, FS_AddElement
<1>3. SUFFICES ASSUME Without # {} PROVE FALSE
  <2>1. n \notin Without => Has(n)
    OBVIOUS
  <2> QED
    BY <1>3, <2>1
<1>4. PICK k \in Without : \A m \in Without : k <= m
  <2>1. Without \in SUBSET Nat
    BY <1>1
  <2> HIDE DEF Without
  <2> QED
    BY <1>3, <2>1, Lowest
<1>5. k \in 1..Cardinality(S) /\ k \in Nat /\ ~Has(k)
  BY <1>1
<1>6. S # {}
  <2>1. Cardinality(S) # 0
    BY <1>5, <1>1
  <2> QED
    BY <2>1, FS_EmptySet
<1>7. CASE k = 1
  <2>1. PICK x \in S : \A y \in S : x <= y
    BY <1>6, Lowest
  <2>2. \A y \in S : ~(y < x)
    BY <2>1, <1>0
  <2>3. Below(x) = {}
    BY <2>2
  <2>4. Cardinality(Below(x)) = 0
    <3> HIDE DEF Below
    <3> QED
      BY <2>3, FS_EmptySet
  <2>5. Cardinality(Below(x)) = k - 1
    <3> HIDE DEF Below
    <3> QED
      BY <2>4, <1>7
  <2> QED
    BY <2>5, <1>5
<1>8. CASE k > 1
  <2>1. k - 1 \in 1..Cardinality(S) /\ k - 1 \notin Without
    BY <1>8, <1>5, <1>4, <1>1
  <2>2. PICK x \in S : Cardinality(Below(x)) = k - 1 - 1
    BY <2>1
  <2> DEFINE Upto == Below(x) \cup {x}
             Rest == S \ Upto
  <2>3. Cardinality(Upto) = k - 1 /\ Upto \in SUBSET S
    <3>1. Upto \in SUBSET S
      OBVIOUS
    <3>2. Cardinality(Upto) = Cardinality(Below(x)) + 1
      BY <1>2
    <3> HIDE DEF Upto, Below
    <3> QED
      BY <3>1, <3>2, <2>2, <1>5
  <2>4. Rest # {}
    <3>1. Rest = {} => S = Upto
      BY <2>3
    <3> HIDE DEF Upto, Rest
    <3> QED
      BY <3>1, <2>3, <1>5, <1>1
  <2>5. PICK z \in Rest : \A y \in Rest : z <= y
    <3>1. Rest \in SUBSET Nat
      OBVIOUS
    <3> HIDE DEF Rest
    <3> QED
      BY <2>4, <3>1, Lowest
  <2>6. Below(z) = Upto
    <3>1. z \in S /\ z > x
      OBVIOUS
    <3>2. \A y \in S : y < z => y \in Upto
      BY <2>5
    <3>3. \A y \in Upto : y \in S /\ y < z
      BY <3>1
    <3> QED
      BY <3>2, <3>3
  <2>7. Cardinality(Below(z)) = k - 1 /\ z \in S
    BY <2>6, <2>3
  <2> QED
    BY <2>7, <1>5
<1> QED
  BY <1>5, <1>7, <1>8

\* So has the n-th member as many below it as come before it.
LEMMA NthIs ==
  ASSUME NEW S \in SUBSET Nat, IsFiniteSet(S), NEW n \in 1..Cardinality(S)
  PROVE  Nth(S, n) \in S /\ Cardinality({y \in S : y < Nth(S, n)}) = n - 1
BY Ranked DEF Nth

\* The order of the members is that of their places.
LEMMA NthInOrder ==
  ASSUME NEW S \in SUBSET Nat, IsFiniteSet(S),
         NEW m \in 1..Cardinality(S), NEW n \in 1..Cardinality(S), m < n
  PROVE  Nth(S, m) < Nth(S, n)
<1> DEFINE Below(x) == {y \in S : y < x}
           a == Nth(S, m)
           b == Nth(S, n)
<1>1. /\ a \in S /\ Cardinality(Below(a)) = m - 1
      /\ b \in S /\ Cardinality(Below(b)) = n - 1
  BY NthIs
<1>2. \A x \in S : IsFiniteSet(Below(x))
  BY FS_Subset
<1>3. Cardinality(S) \in Nat
  BY FS_CardinalityType
<1> HIDE DEF a, b
<1>4. SUFFICES ASSUME b <= a PROVE FALSE
  <2>1. a \in Nat /\ b \in Nat
    BY <1>1
  <2> QED
    BY <2>1, <1>4 DEF a, b
<1>5. Below(b) \in SUBSET Below(a)
  <2>1. a \in Nat /\ b \in Nat /\ \A y \in S : y \in Nat
    BY <1>1
  <2>2. \A y \in S : y < b => y < a
    BY <2>1, <1>4
  <2> QED
    BY <2>2
<1>6. Cardinality(Below(b)) <= Cardinality(Below(a))
  BY <1>5, <1>2, <1>1, FS_Subset
<1> HIDE DEF Below
<1> QED
  BY <1>6, <1>1, <1>3

\* Every member has a place.
LEMMA NthEach ==
  ASSUME NEW S \in SUBSET Nat, IsFiniteSet(S), NEW x \in S
  PROVE  \E n \in 1..Cardinality(S) : Nth(S, n) = x
<1> DEFINE Below(z) == {y \in S : y < z}
           n == Cardinality(Below(x)) + 1
<1>1. Cardinality(S) \in Nat
  BY FS_CardinalityType
<1>2. \A z \in S : IsFiniteSet(Below(z)) /\ Cardinality(Below(z)) \in Nat
  BY FS_Subset, FS_CardinalityType
<1>3. \A y, z \in S : y < z => Cardinality(Below(y)) < Cardinality(Below(z))
  <2>1. SUFFICES ASSUME NEW y \in S, NEW z \in S, y < z
                 PROVE  Cardinality(Below(y)) < Cardinality(Below(z))
    OBVIOUS
  <2>2. Below(y) \in SUBSET Below(z) /\ y \in Below(z) /\ y \notin Below(y)
    <3>1. /\ y \in Nat /\ z \in Nat /\ \A u \in S : u \in Nat
      OBVIOUS
    <3>2. \A u \in S : u < y => u < z
      BY <3>1, <2>1
    <3>3. ~(y < y)
      BY <3>1
    <3> QED
      BY <3>2, <3>3, <2>1
  <2>3. /\ Cardinality(Below(y)) <= Cardinality(Below(z))
        /\ Cardinality(Below(y)) # Cardinality(Below(z))
    <3> HIDE DEF Below
    <3> QED
      BY <2>2, <1>2, FS_Subset
  <2> HIDE DEF Below
  <2> QED
    BY <2>3, <1>2
<1>4. n \in 1..Cardinality(S)
  <2>1. Below(x) \in SUBSET S /\ x \notin Below(x)
    OBVIOUS
  <2>2. Cardinality(Below(x)) <= Cardinality(S) /\ Cardinality(Below(x)) # Cardinality(S)
    <3> HIDE DEF Below
    <3> QED
      BY <2>1, FS_Subset
  <2>3. Cardinality(Below(x)) \in Nat
    BY <1>2
  <2> HIDE DEF Below
  <2> QED
    BY <2>2, <2>3, <1>1
<1>5. Nth(S, n) \in S /\ Cardinality(Below(Nth(S, n))) = Cardinality(Below(x))
  <2>1. Nth(S, n) \in S /\ Cardinality(Below(Nth(S, n))) = n - 1
    <3> HIDE DEF n
    <3> QED
      BY <1>4, NthIs
  <2>2. Cardinality(Below(x)) \in Nat
    BY <1>2
  <2> HIDE DEF Below
  <2> QED
    BY <2>1, <2>2
<1>6. Nth(S, n) = x
  <2> DEFINE z == Nth(S, n)
  <2>1. z \in S /\ Cardinality(Below(z)) = Cardinality(Below(x))
    BY <1>5
  <2>2. Cardinality(Below(z)) \in Nat /\ Cardinality(Below(x)) \in Nat
    BY <2>1, <1>2
  <2>3. z \in Nat /\ x \in Nat
    BY <2>1
  <2> HIDE DEF z, Below, n
  <2>4. ~(z < x) /\ ~(x < z)
    BY <2>1, <2>2, <1>3
  <2>5. z = x
    BY <2>3, <2>4
  <2> QED
    BY <2>5 DEF z
<1> QED
  BY <1>4, <1>6

\* What makes a function a list.
LEMMA IsList ==
  ASSUME NEW X, NEW n \in Nat, NEW f \in [1..n -> X]
  PROVE  f \in Seq(X) /\ Len(f) = n
<1>1. f \in Seq(X)
  BY SeqDef
<1>2. DOMAIN f = 1..Len(f) /\ Len(f) \in Nat
  BY <1>1, LenProperties
<1>3. DOMAIN f = 1..n
  OBVIOUS
<1>4. n = Len(f)
  <2>1. 1..n = 1..Len(f)
    BY <1>2, <1>3
  <2> QED
    BY <2>1, <1>2
<1> QED
  BY <1>1, <1>4

\* No member of the list stands in it twice.
Distinct(list) == \A m, n \in DOMAIN list : list[m] = list[n] => m = n

\* The set of a list, and how large it is when the list has nothing twice.
LEMMA Members ==
  ASSUME NEW X, NEW list \in Seq(X)
  PROVE  /\ DOMAIN list = 1..Len(list) /\ Len(list) \in Nat
         /\ ToSet(list) = {list[n] : n \in 1..Len(list)} /\ ToSet(list) \subseteq X
<1>1. /\ DOMAIN list = 1..Len(list) /\ Len(list) \in Nat /\ list \in [1..Len(list) -> X]
  BY LenProperties
<1> QED
  BY <1>1 DEF ToSet

LEMMA DistinctSize ==
  ASSUME NEW X, NEW list \in Seq(X)
  PROVE  /\ IsFiniteSet(ToSet(list))
         /\ Distinct(list) => Cardinality(ToSet(list)) = Len(list)
<1> DEFINE D == 1..Len(list)
           T == ToSet(list)
<1>1. DOMAIN list = D /\ Len(list) \in Nat /\ T = {list[n] : n \in D}
  BY Members
<1>2. IsFiniteSet(D) /\ Cardinality(D) = Len(list)
  BY <1>1, FS_Interval
<1>3. list \in [D -> T]
  <2>1. list \in [D -> X]
    BY LenProperties
  <2> QED
    BY <2>1, <1>1
<1>4. list \in Surjection(D, T)
  BY <1>1, <1>3 DEF Surjection
<1>5. Distinct(list) => list \in Injection(D, T)
  BY <1>1, <1>3 DEF Distinct, Injection, IsInjective
<1> HIDE DEF D, T
<1>6. IsFiniteSet(T) /\ (Cardinality(T) = Cardinality(D) <=> list \in Injection(D, T))
  BY <1>2, <1>4, FS_Surjection
<1> QED
  BY <1>2, <1>5, <1>6 DEF T

\* The places of a list are finitely many numbers.
LEMMA PlacesFinite ==
  ASSUME NEW n \in Nat, NEW P \in SUBSET (1..n)
  PROVE  IsFiniteSet(P) /\ P \in SUBSET Nat
<1>1. IsFiniteSet(1..n)
  BY FS_Interval
<1>2. IsFiniteSet(P)
  BY <1>1, FS_Subset
<1>3. 1..n \subseteq Nat
  OBVIOUS
<1> QED
  BY <1>2, <1>3

\* Part of a list: as long as there are places, with what stands there.
LEMMA OnlyIs ==
  ASSUME NEW X, NEW list \in Seq(X), NEW P \in SUBSET (1..Len(list))
  PROVE  /\ Only(list, P) \in Seq(X) /\ Len(Only(list, P)) = Cardinality(P)
         /\ \A n \in 1..Cardinality(P) :
              Nth(P, n) \in P /\ Only(list, P)[n] = list[Nth(P, n)]
         /\ ToSet(Only(list, P)) = {list[n] : n \in P}
<1>1. Len(list) \in Nat /\ list \in [1..Len(list) -> X]
  BY LenProperties
<1>2. IsFiniteSet(P) /\ P \in SUBSET Nat
  BY <1>1, PlacesFinite
<1>3. Cardinality(P) \in Nat
  BY <1>2, FS_CardinalityType
<1>4. \A n \in 1..Cardinality(P) : Nth(P, n) \in P
  BY <1>2, NthIs
<1>5. \A n \in 1..Cardinality(P) : Only(list, P)[n] = list[Nth(P, n)]
  BY DEF Only
<1>6. Only(list, P) \in [1..Cardinality(P) -> X]
  BY <1>1, <1>4 DEF Only
<1>7. Only(list, P) \in Seq(X) /\ Len(Only(list, P)) = Cardinality(P)
  BY <1>3, <1>6, IsList
<1>8. ToSet(Only(list, P)) = {list[n] : n \in P}
  <2>1. ToSet(Only(list, P)) = {Only(list, P)[n] : n \in 1..Cardinality(P)}
    BY <1>7, Members
  <2>2. \A n \in P : \E m \in 1..Cardinality(P) : Nth(P, m) = n
    BY <1>2, NthEach
  <2>3. \A n \in P : \E m \in 1..Cardinality(P) : Only(list, P)[m] = list[n]
    BY <2>2, <1>5
  <2> QED
    BY <2>1, <2>3, <1>4, <1>5
<1> QED
  BY <1>4, <1>5, <1>7, <1>8

LEMMA OnlyDistinct ==
  ASSUME NEW X, NEW list \in Seq(X), NEW P \in SUBSET (1..Len(list)),
         \A m, n \in P : list[m] = list[n] => m = n
  PROVE  Distinct(Only(list, P))
<1>1. IsFiniteSet(P) /\ P \in SUBSET Nat
  BY LenProperties, PlacesFinite
<1>2. /\ DOMAIN Only(list, P) = 1..Cardinality(P)
      /\ \A n \in 1..Cardinality(P) :
           Nth(P, n) \in P /\ Only(list, P)[n] = list[Nth(P, n)]
  BY OnlyIs DEF Only
<1>3. \A m, n \in 1..Cardinality(P) : m < n => Nth(P, m) < Nth(P, n)
  BY <1>1, NthInOrder
<1>4. SUFFICES ASSUME NEW m \in 1..Cardinality(P), NEW n \in 1..Cardinality(P),
                      Only(list, P)[m] = Only(list, P)[n]
               PROVE  m = n
  BY <1>2 DEF Distinct
<1>5. Nth(P, m) = Nth(P, n) /\ Nth(P, n) \in Nat
  BY <1>1, <1>2, <1>4
<1>6. ~(m < n) /\ ~(n < m)
  BY <1>3, <1>5
<1>7. Cardinality(P) \in Nat
  BY <1>1, FS_CardinalityType
<1> QED
  BY <1>6, <1>7

\* A set in order, or in the reverse order, is all of it and each member once.
LEMMA AscendingIs ==
  ASSUME NEW S \in SUBSET Nat, IsFiniteSet(S)
  PROVE  /\ Ascending(S) \in Seq(S) /\ Len(Ascending(S)) = Cardinality(S)
         /\ ToSet(Ascending(S)) = S /\ Distinct(Ascending(S))
<1>1. Cardinality(S) \in Nat
  BY FS_CardinalityType
<1>2. \A n \in 1..Cardinality(S) : Nth(S, n) \in S
  BY NthIs
<1>3. Ascending(S) \in [1..Cardinality(S) -> S]
  BY <1>2 DEF Ascending
<1>4. Ascending(S) \in Seq(S) /\ Len(Ascending(S)) = Cardinality(S)
  BY <1>1, <1>3, IsList
<1>5. ToSet(Ascending(S)) = {Nth(S, n) : n \in 1..Cardinality(S)}
  BY DEF ToSet, Ascending
<1>6. ToSet(Ascending(S)) = S
  BY <1>2, <1>5, NthEach
<1>7. \A m, n \in 1..Cardinality(S) : m < n => Nth(S, m) < Nth(S, n)
  BY NthInOrder
<1>8. \A m, n \in 1..Cardinality(S) : Nth(S, m) = Nth(S, n) => m = n
  <2>1. SUFFICES ASSUME NEW m \in 1..Cardinality(S), NEW n \in 1..Cardinality(S),
                        Nth(S, m) = Nth(S, n)
                 PROVE  m = n
    OBVIOUS
  <2>2. Nth(S, n) \in Nat
    BY <1>2
  <2>3. ~(m < n) /\ ~(n < m)
    BY <2>1, <2>2, <1>7
  <2> QED
    BY <2>3, <1>1
<1>9. Distinct(Ascending(S))
  BY <1>8 DEF Distinct, Ascending
<1> QED
  BY <1>4, <1>6, <1>9

LEMMA DescendingIs ==
  ASSUME NEW S \in SUBSET Nat, IsFiniteSet(S)
  PROVE  /\ Descending(S) \in Seq(S) /\ Len(Descending(S)) = Cardinality(S)
         /\ ToSet(Descending(S)) = S /\ Distinct(Descending(S))
<1> DEFINE c == Cardinality(S)
           Up(n) == Ascending(S)[n]
<1>1. c \in Nat
  BY FS_CardinalityType
<1>2. /\ DOMAIN Ascending(S) = 1..c /\ ToSet(Ascending(S)) = S
      /\ \A m, n \in 1..c : Up(m) = Up(n) => m = n
  BY AscendingIs DEF Distinct, Ascending
<1>3. \A n \in 1..c : c + 1 - n \in 1..c /\ c + 1 - (c + 1 - n) = n
  BY <1>1
<1>4. /\ DOMAIN Descending(S) = 1..c
      /\ \A n \in 1..c : Descending(S)[n] = Up(c + 1 - n)
  BY <1>3 DEF Descending, Ascending
<1>5. S = {Up(n) : n \in 1..c}
  BY <1>2 DEF ToSet
<1>6. Descending(S) \in [1..c -> S]
  <2>1. \A n \in 1..c : Descending(S)[n] \in S
    BY <1>3, <1>4, <1>5
  <2> QED
    BY <2>1 DEF Descending
<1>7. Descending(S) \in Seq(S) /\ Len(Descending(S)) = c
  BY <1>1, <1>6, IsList
<1>8. ToSet(Descending(S)) = S
  <2>1. \A n \in 1..c : \E m \in 1..c : Descending(S)[m] = Up(n)
    BY <1>3, <1>4
  <2>2. ToSet(Descending(S)) = {Descending(S)[n] : n \in 1..c}
    BY <1>4 DEF ToSet
  <2>3. \A n \in 1..c : Descending(S)[n] \in S
    BY <1>6
  <2> HIDE DEF c, Up
  <2> QED
    BY <2>1, <2>2, <2>3, <1>5
<1>9. Distinct(Descending(S))
  <2>1. SUFFICES ASSUME NEW m \in 1..c, NEW n \in 1..c, Descending(S)[m] = Descending(S)[n]
                 PROVE  m = n
    BY <1>4 DEF Distinct
  <2>2. Up(c + 1 - m) = Up(c + 1 - n)
    BY <2>1, <1>4
  <2>3. c + 1 - m = c + 1 - n
    BY <2>2, <1>2, <1>3
  <2> QED
    BY <2>3, <1>1
<1> QED
  BY <1>7, <1>8, <1>9

\* The first entries of a list.
LEMMA FirstIs ==
  ASSUME NEW X, NEW list \in Seq(X), NEW n \in Int
  PROVE  /\ First(list, n) \in Seq(X)
         /\ Len(First(list, n)) = IF n >= Len(list) THEN Len(list)
                                  ELSE IF n > 0 THEN n ELSE 0
         /\ \A i \in 1..Len(First(list, n)) :
              i \in 1..Len(list) /\ First(list, n)[i] = list[i]
<1> DEFINE k == IF n < Len(list) THEN n ELSE Len(list)
<1>1. Len(list) \in Nat /\ k \in Int /\ k <= Len(list)
  BY LenProperties
<1>2. \A i \in 1..k : list[i] \in X
  BY <1>1, ElementOfSeq
<1> HIDE DEF k
<1>3. /\ SubSeq(list, 1, k) \in Seq(X)
      /\ Len(SubSeq(list, 1, k)) = IF 1 <= k THEN k - 1 + 1 ELSE 0
      /\ \A i \in 1..k - 1 + 1 : SubSeq(list, 1, k)[i] = list[1 + i - 1]
  BY <1>1, <1>2, SubSeqProperties
<1>4. /\ Len(SubSeq(list, 1, k)) = IF 1 <= k THEN k ELSE 0
      /\ \A i \in 1..k : SubSeq(list, 1, k)[i] = list[i]
  BY <1>1, <1>3
<1>5. First(list, n) = SubSeq(list, 1, k)
  BY DEF First, k
<1>6. (IF 1 <= k THEN k ELSE 0) = IF n >= Len(list) THEN Len(list)
                                 ELSE IF n > 0 THEN n ELSE 0
  BY <1>1 DEF k
<1>7. \A i \in 1..Len(First(list, n)) : i \in 1..k /\ i \in 1..Len(list)
  BY <1>1, <1>4, <1>5
<1> QED
  BY <1>3, <1>4, <1>5, <1>6, <1>7

LEMMA FirstDistinct ==
  ASSUME NEW X, NEW list \in Seq(X), NEW n \in Int, Distinct(list)
  PROVE  Distinct(First(list, n)) /\ ToSet(First(list, n)) \subseteq ToSet(list)
<1>1. /\ DOMAIN list = 1..Len(list)
      /\ ToSet(list) = {list[i] : i \in 1..Len(list)}
  BY Members
<1>2. /\ DOMAIN First(list, n) = 1..Len(First(list, n))
      /\ ToSet(First(list, n)) = {First(list, n)[i] : i \in 1..Len(First(list, n))}
  BY FirstIs, Members
<1>3. \A i \in 1..Len(First(list, n)) :
        i \in 1..Len(list) /\ First(list, n)[i] = list[i]
  BY FirstIs
<1> QED
  BY <1>1, <1>2, <1>3 DEF Distinct

\* A list in which each entry stands once is as long as its set is large.
LEMMA UniqueIs ==
  ASSUME NEW X, NEW list \in Seq(X)
  PROVE  /\ Unique(list) \in Seq(X) /\ Distinct(Unique(list))
         /\ ToSet(Unique(list)) = ToSet(list)
         /\ Len(Unique(list)) = Cardinality(ToSet(list))
<1> DEFINE P == {n \in DOMAIN list : \A m \in 1..n - 1 : list[m] # list[n]}
<1>1. DOMAIN list = 1..Len(list) /\ Len(list) \in Nat
  BY Members
<1>2. P \in SUBSET (1..Len(list)) /\ Unique(list) = Only(list, P)
  BY <1>1 DEF Unique
<1>3. \A m, n \in P : list[m] = list[n] => m = n
  <2>1. SUFFICES ASSUME NEW m \in P, NEW n \in P, list[m] = list[n], m < n
                 PROVE  FALSE
    BY <1>1
  <2>2. m \in 1..n - 1
    BY <2>1, <1>1
  <2> QED
    BY <2>1, <2>2
<1>4. \A n \in 1..Len(list) : \E m \in P : list[m] = list[n]
  <2>1. SUFFICES ASSUME NEW n \in 1..Len(list)
                 PROVE  \E m \in P : list[m] = list[n]
    OBVIOUS
  <2> DEFINE T == {m \in 1..Len(list) : list[m] = list[n]}
  <2>2. T \in SUBSET Nat /\ T # {}
    BY <1>1
  <2> HIDE DEF T
  <2>3. PICK m \in T : \A i \in T : m <= i
    BY <2>2, Lowest
  <2>4. m \in 1..Len(list) /\ list[m] = list[n]
    BY DEF T
  <2>5. \A i \in 1..m - 1 : list[i] # list[m]
    <3>1. SUFFICES ASSUME NEW i \in 1..m - 1, list[i] = list[m]
                   PROVE  FALSE
      OBVIOUS
    <3>2. i \in T
      BY <3>1, <2>4, <1>1 DEF T
    <3>3. i < m
      BY <2>4, <1>1
    <3> QED
      BY <3>2, <3>3, <2>3, <2>4, <1>1
  <2> QED
    BY <2>4, <2>5, <1>1
<1> HIDE DEF P
<1>5. /\ Unique(list) \in Seq(X) /\ Distinct(Unique(list))
      /\ ToSet(Unique(list)) = {list[n] : n \in P}
  BY <1>2, <1>3, OnlyIs, OnlyDistinct
<1>6. ToSet(Unique(list)) = ToSet(list)
  <2>1. ToSet(list) = {list[n] : n \in 1..Len(list)}
    BY Members
  <2> QED
    BY <2>1, <1>2, <1>4, <1>5
<1> QED
  BY <1>5, <1>6, DistinctSize

-----------------------------------------------------------------------------
(* The invariant. *)

Raws == {"none", "staged", "waiting-children", "waiting", "delayed", "processing",
         "completed", "failed"}

\* The status that a value in the hash stands for, and the sets its job is in.
Told(s) ==
  CASE s = "processing" -> "active"
    [] s = "staged"     -> "unknown"
    [] OTHER            -> s

Home(s) ==
  CASE s = "waiting" -> {"group"}
    [] s \in {"delayed", "processing", "completed", "failed"} -> {s}
    [] OTHER         -> {}

Sets(j) == {key \in Keys : j \in in[key]}

\* Where a job is goes with its hash; a failure that is being recorded is still in
\* processing.
Placed ==
  \A j \in Jobs :
    \/ Sets(j) = Home(raw[j])
    \/ raw[j] = "failed" /\ Sets(j) = {"processing", "failed"}

\* The sets a call has to read, or has read.
Wanted == IF call.op = "job" THEN {"processing", "delayed", "group"} ELSE Asked
HasRead == Wanted \ ToSet(call.todo)

\* What a call reads: sets of jobs, the set of the groups, hashes.
Reads == Keys \cup {"groups", "hash"}

CallType == [op : {"none", "job", "jobs", "ended", "counts", "rows", "children"},
             todo : Seq(Reads), job : Nat, asked : SUBSET Keys, skipped : SUBSET Keys,
             page : Nat \X Int, limit : Int]
GotType  == [sets : [Keys -> SUBSET Jobs], groups : SUBSET Groups, raw : [Jobs -> Raws]]

\* The types, those of the call and of what it has read included.
Typed ==
  /\ in \in [Keys -> SUBSET Jobs] /\ raw \in [Jobs -> Raws] /\ moves \in 0..MaxMoves
  /\ Cardinality(in["completed"]) <= KeepCompleted
  /\ call \in CallType
  /\ call.op = "job" => call.job \in Jobs
  /\ call.op = "counts" => Asked = Keys
  /\ call.op = "children" => call.asked = {}
  /\ call.op \in {"ended", "rows"} => "group" \notin call.asked
  /\ groups \in SUBSET Groups /\ got \in GotType
  /\ seen \in [Jobs -> SUBSET (Valid \cup {"unknown", "none"})]

\* The group of a job that is not at its end is listed.
Listing == \A j \in Jobs : Live(j) => GroupOf[j] \in groups

\* The groups are read before the jobs in them.
GroupsFirst ==
  \A m \in 1..Len(call.todo) :
    call.todo[m] = "groups"
    => \E n \in 1..Len(call.todo) : m < n /\ call.todo[n] = "group"

\* A list without the group of a job that waits throughout has as many as it looks into.
GroupsFound ==
  call.op = "jobs" /\ "group" \in Asked /\ "groups" \notin ToSet(call.todo) =>
    \A j \in Jobs :
      seen[j] = {"waiting"} => \/ GroupOf[j] \in got.groups
                               \/ Cardinality(got.groups) >= Scan

\* What was read was so during the call.
ReadWasTrue ==
  call.op # "none" =>
    \A j \in Jobs :
      /\ Statuses(j) \subseteq seen[j] /\ Told(got.raw[j]) \in seen[j]
      /\ \A key \in Keys : j \in got.sets[key] => StatusOf(key) \in seen[j]

\* A job that has one status throughout is found where it is, by a list of waiting jobs
\* if it knows its group.
Looked(key, j) == key = "group" /\ call.op = "jobs" => GroupOf[j] \in got.groups

RestingFound ==
  call.op # "none" =>
    \A key \in HasRead : \A j \in Jobs :
      seen[j] = {StatusOf(key)} /\ Looked(key, j) => j \in got.sets[key]

\* A queue at rest is read as it is.
QuietSoFar ==
  call.op # "none" /\ moves = 0 =>
    /\ got.raw = raw /\ \A j \in Jobs : seen[j] = Statuses(j)
    /\ \A key \in HasRead \ {"group"} : got.sets[key] = in[key]
    /\ call.op = "jobs" /\ "group" \in Asked /\ "groups" \notin ToSet(call.todo)
       /\ Cardinality(groups) <= Scan
         => got.groups = groups

\* The first two pages lie inside what is read of each set.
PageFits ==
  call.op = "jobs" /\ call.page[2] >= 0 /\ call.page[1] <= call.page[2] - call.page[1] + 1
    => call.limit > call.page[2] \/ call.limit >= Cap

IInv == /\ Typed /\ Placed /\ Listing /\ GroupsFirst /\ GroupsFound
        /\ ReadWasTrue /\ RestingFound /\ QuietSoFar /\ PageFits

-----------------------------------------------------------------------------
(* What follows of a single state. *)

LEMMA Constants ==
  /\ Jobs \in SUBSET Nat /\ IsFiniteSet(Jobs) /\ Kids \subseteq Jobs
  /\ KeepCompleted \in Nat /\ Unbounded \in Nat /\ Cap \in Nat /\ MaxMoves \in Nat
  /\ Scan \in Nat /\ IsFiniteSet(Groups) /\ GroupOf \in [Jobs -> Groups]
  /\ Limits \subseteq Nat /\ Pages \subseteq Nat \X Int /\ Asks \subseteq SUBSET Keys
BY StatusViewAssumption

\* The five sets stand for five statuses.
LEMMA StatusOfKeys ==
  /\ StatusOf("processing") = "active" /\ StatusOf("group") = "waiting"
  /\ StatusOf("delayed") = "delayed" /\ StatusOf("completed") = "completed"
  /\ StatusOf("failed") = "failed"
  /\ \A k, l \in Keys : StatusOf(k) = StatusOf(l) => k = l
  /\ Valid = {"active", "waiting", "delayed", "completed", "failed", "waiting-children"}
<1>1. /\ StatusOf("processing") = "active" /\ StatusOf("group") = "waiting"
      /\ StatusOf("delayed") = "delayed" /\ StatusOf("completed") = "completed"
      /\ StatusOf("failed") = "failed"
  BY DEF StatusOf
<1>2. \A k, l \in Keys : StatusOf(k) = StatusOf(l) => k = l
  BY <1>1 DEF Keys
<1>3. Valid = {"active", "waiting", "delayed", "completed", "failed", "waiting-children"}
  BY <1>1 DEF Valid, Keys
<1> QED
  BY <1>1, <1>2, <1>3

\* The statuses of a job are those of the sets it is in, and that of its hash.
LEMMA StatusesOf ==
  ASSUME in \in [Keys -> SUBSET Jobs], raw \in [Jobs -> Raws], Placed, NEW j \in Jobs
  PROVE  /\ \/ Statuses(j) = {Told(raw[j])}
            \/ raw[j] = "failed" /\ Statuses(j) = {"active", "failed"}
         /\ Told(raw[j]) \in Statuses(j)
         /\ Statuses(j) \subseteq Valid \cup {"unknown", "none"}
         /\ \A key \in Keys : j \in in[key] <=> StatusOf(key) \in Statuses(j)
<1>1. raw[j] \in Raws
  OBVIOUS
<1>2. \/ Sets(j) = Home(raw[j])
      \/ raw[j] = "failed" /\ Sets(j) = {"processing", "failed"}
  BY DEF Placed
<1>3. Statuses(j) = IF Sets(j) # {} THEN {StatusOf(key) : key \in Sets(j)}
                    ELSE IF raw[j] = "staged" THEN {"unknown"} ELSE {raw[j]}
  BY DEF Statuses, Sets
<1>4. \A key \in Keys : j \in in[key] <=> key \in Sets(j)
  BY DEF Sets
<1>5. Sets(j) \subseteq Keys
  BY DEF Sets
<1> HIDE DEF Sets
<1>6. CASE raw[j] = "failed" /\ Sets(j) = {"processing", "failed"}
  <2>1. Statuses(j) = {"active", "failed"} /\ Told(raw[j]) = "failed"
    BY <1>3, <1>6, StatusOfKeys DEF Told
  <2> QED
    BY <2>1, <1>4, <1>6, StatusOfKeys DEF Keys
<1>7. CASE Sets(j) = Home(raw[j]) /\ raw[j] \in {"waiting", "delayed", "processing",
                                                "completed", "failed"}
  <2>1. PICK key \in Keys : Sets(j) = {key} /\ StatusOf(key) = Told(raw[j])
    BY <1>7, StatusOfKeys DEF Home, Told, Keys
  <2>2. Statuses(j) = {Told(raw[j])}
    BY <2>1, <1>3
  <2>3. Told(raw[j]) \in Valid
    BY <1>7, StatusOfKeys DEF Told
  <2> QED
    BY <2>1, <2>2, <2>3, <1>4, StatusOfKeys
<1>8. CASE Sets(j) = Home(raw[j]) /\ raw[j] \in {"none", "staged", "waiting-children"}
  <2>1. Sets(j) = {}
    BY <1>8 DEF Home
  <2>2. /\ Statuses(j) = {Told(raw[j])}
        /\ Told(raw[j]) \in {"none", "unknown", "waiting-children"}
    BY <2>1, <1>3, <1>8 DEF Told
  <2> QED
    BY <2>1, <2>2, <1>4, StatusOfKeys DEF Keys
<1> QED
  BY <1>1, <1>2, <1>6, <1>7, <1>8 DEF Raws

\* A job that waits is live, so its group is listed.
LEMMA WaitingIsListed ==
  ASSUME Typed, Placed, Listing, NEW j \in Jobs, "waiting" \in Statuses(j)
  PROVE  GroupOf[j] \in groups
<1>1. raw[j] \in Raws /\ in \in [Keys -> SUBSET Jobs] /\ raw \in [Jobs -> Raws]
  BY DEF Typed
<1>2. Statuses(j) = {Told(raw[j])} \/ Statuses(j) = {"active", "failed"}
  BY <1>1, StatusesOf
<1>3. Told(raw[j]) = "waiting"
  BY <1>2
<1>4. raw[j] = "waiting"
  BY <1>3 DEF Told
<1> QED
  BY <1>4 DEF Listing, Live

\* The same of the state that a step leads to.
StatusesTyped ==
  in \in [Keys -> SUBSET Jobs] /\ raw \in [Jobs -> Raws] /\ Placed
  => \A j \in Jobs : Statuses(j) \subseteq Valid \cup {"unknown", "none"}

LEMMA StatusesAreTyped == StatusesTyped
BY StatusesOf DEF StatusesTyped

-----------------------------------------------------------------------------
(* The scripts keep the invariant. *)

\* A script that moves one job into the sets that go with its hash, and may drop
\* others.
LEMMA MoveKeeps ==
  ASSUME IInv, NEW j \in Jobs, NEW to \in SUBSET Keys, NEW s \in Raws,
         NEW out \in SUBSET Jobs, j \notin out, Move(j, to, s, out),
         to = Home(s) \/ (s = "failed" /\ to = {"processing", "failed"}),
         Cardinality(in'["completed"]) <= KeepCompleted
  PROVE  IInv'
<1>1. /\ in' = [k \in Keys |->
                 ((in[k] \ {j}) \cup (IF k \in to THEN {j} ELSE {})) \ out]
      /\ raw' = [i \in Jobs |-> IF i \in out THEN "none" ELSE IF i = j THEN s ELSE raw[i]]
      /\ moves < MaxMoves /\ moves' = (IF call.op = "none" THEN 0 ELSE moves + 1)
      /\ seen' = [i \in Jobs |-> IF call.op = "none" THEN {} ELSE seen[i] \cup Statuses(i)']
      /\ call' = call /\ got' = got /\ ListGroup(j)
  BY DEF Move
<1>2. in' \in [Keys -> SUBSET Jobs] /\ raw' \in [Jobs -> Raws]
  BY <1>1 DEF IInv, Typed, Raws
<1>3. \A k \in Keys, i \in Jobs :
        i \in in'[k] <=> /\ i \notin out
                        /\ IF i = j THEN k \in to ELSE i \in in[k]
  BY <1>1
<1>4. \A i \in Jobs : Sets(i)' = IF i \in out THEN {} ELSE IF i = j THEN to ELSE Sets(i)
  BY <1>3 DEF Sets
<1>5. Placed'
  <2>1. SUFFICES ASSUME NEW i \in Jobs
                 PROVE  \/ Sets(i)' = Home(raw'[i])
                        \/ raw'[i] = "failed" /\ Sets(i)' = {"processing", "failed"}
    BY DEF Placed
  <2>2. CASE i \in out
    <3>1. Sets(i)' = {} /\ raw'[i] = "none"
      BY <2>2, <1>1, <1>4
    <3> QED
      BY <3>1 DEF Home
  <2>3. CASE i = j
    <3>1. Sets(i)' = to /\ raw'[i] = s
      BY <2>3, <1>1, <1>4
    <3> QED
      BY <3>1
  <2>4. CASE i \notin out /\ i # j
    <3>1. Sets(i)' = Sets(i) /\ raw'[i] = raw[i]
      BY <2>4, <1>1, <1>4
    <3> QED
      BY <3>1 DEF IInv, Placed
  <2> QED
    BY <2>2, <2>3, <2>4
<1>6. \A i \in Jobs : Statuses(i)' \subseteq Valid \cup {"unknown", "none"}
  <2>1. StatusesTyped'
    BY StatusesAreTyped, PTL
  <2> QED
    BY <1>2, <1>5, <2>1 DEF StatusesTyped
<1>7. Typed'
  <2>1. moves' \in 0..MaxMoves
    BY <1>1, Constants DEF IInv, Typed
  <2>2. seen' \in [Jobs -> SUBSET (Valid \cup {"unknown", "none"})]
    BY <1>1, <1>6 DEF IInv, Typed
  <2>3. groups' \in SUBSET Groups
    <3>1. groups \in SUBSET Groups /\ GroupOf[j] \in Groups
      BY Constants DEF IInv, Typed
    <3> QED
      BY <3>1, <1>1 DEF ListGroup
  <2>4. /\ call' \in CallType /\ got' \in GotType /\ Asked' = Asked
        /\ call'.op = "job" => call'.job \in Jobs
        /\ call'.op = "counts" => Asked = Keys
        /\ call'.op = "children" => call'.asked = {}
        /\ call'.op \in {"ended", "rows"} => "group" \notin call'.asked
    BY <1>1 DEF IInv, Typed, Asked
  <2> QED
    BY <1>2, <2>1, <2>2, <2>3, <2>4 DEF Typed
<1>14. Listing'
  <2>1. \A i \in Jobs : i # j /\ Live(i)' => Live(i)
    <3>1. SUFFICES ASSUME NEW i \in Jobs, i # j, Live(i)' PROVE Live(i)
      OBVIOUS
    <3>2. raw'[i] = (IF i \in out THEN "none" ELSE raw[i])
      BY <1>1, <3>1
    <3>3. i \in in'["processing"] => i \in in["processing"] /\ i \notin out
      BY <1>3, <3>1 DEF Keys
    <3> QED
      BY <3>1, <3>2, <3>3 DEF Live
  <2>2. SUFFICES ASSUME NEW i \in Jobs, Live(i)' PROVE GroupOf[i] \in groups'
    BY DEF Listing
  <2>3. i # j => GroupOf[i] \in groups
    BY <2>1, <2>2 DEF IInv, Listing
  <2> QED
    BY <2>2, <2>3, <1>1 DEF ListGroup
<1>15. GroupsFirst'
  BY <1>1 DEF IInv, GroupsFirst
<1>8. PageFits'
  BY <1>1 DEF IInv, PageFits
<1>9. CASE call.op = "none"
  BY <1>1, <1>5, <1>7, <1>9, <1>8, <1>14, <1>15
     DEF IInv, ReadWasTrue, RestingFound, QuietSoFar, GroupsFound
<1>10. CASE call.op # "none"
  <2>1. \A i \in Jobs : seen'[i] = seen[i] \cup Statuses(i)'
    BY <1>1, <1>10
  <2>2. ReadWasTrue'
    BY <1>1, <1>10, <2>1 DEF IInv, ReadWasTrue
  <2>3. RestingFound'
    <3>1. HasRead' = HasRead
      BY <1>1 DEF HasRead, Wanted, Asked
    <3>2. SUFFICES ASSUME NEW key \in HasRead, NEW i \in Jobs, seen'[i] = {StatusOf(key)},
                          Looked(key, i)
                   PROVE  i \in got.sets[key]
      BY <1>1, <3>1 DEF RestingFound, Looked
    <3>3. Told(got.raw[i]) \in seen[i]
      BY <1>10 DEF IInv, ReadWasTrue
    <3>4. seen[i] = {StatusOf(key)}
      BY <3>2, <3>3, <2>1
    <3> QED
      BY <3>2, <3>4, <1>10 DEF IInv, RestingFound
  <2>4. QuietSoFar'
    <3>1. moves' # 0
      BY <1>1, <1>10 DEF IInv, Typed
    <3> QED
      BY <3>1 DEF QuietSoFar
  <2>5. GroupsFound'
    <3>1. SUFFICES ASSUME call.op = "jobs", "group" \in Asked,
                          "groups" \notin ToSet(call.todo),
                          NEW i \in Jobs, seen'[i] = {"waiting"}
                   PROVE  \/ GroupOf[i] \in got.groups
                          \/ Cardinality(got.groups) >= Scan
      BY <1>1 DEF GroupsFound, Asked
    <3>2. Told(got.raw[i]) \in seen[i]
      BY <1>10 DEF IInv, ReadWasTrue
    <3>3. seen[i] = {"waiting"}
      BY <3>1, <3>2, <2>1
    <3> QED
      BY <3>1, <3>3 DEF IInv, GroupsFound
  <2> QED
    BY <1>5, <1>7, <1>8, <1>14, <1>15, <2>2, <2>3, <2>4, <2>5 DEF IInv
<1> QED
  BY <1>9, <1>10

\* Most scripts drop nobody, and put nothing into the set completed.
LEMMA MoveElsewhereKeeps ==
  ASSUME IInv, NEW j \in Jobs, NEW to \in SUBSET Keys, NEW s \in Raws, Move(j, to, s, {}),
         to = Home(s) \/ (s = "failed" /\ to = {"processing", "failed"}),
         "completed" \notin to
  PROVE  IInv'
<1>1. in'["completed"] \in SUBSET in["completed"] /\ in["completed"] \in SUBSET Jobs
  BY DEF Move, Keys, IInv, Typed
<1>2. IsFiniteSet(in["completed"])
  BY <1>1, Constants, FS_Subset
<1>3. Cardinality(in'["completed"]) <= Cardinality(in["completed"])
  BY <1>1, <1>2, FS_Subset
<1>4. /\ Cardinality(in["completed"]) <= KeepCompleted
      /\ Cardinality(in["completed"]) \in Nat /\ Cardinality(in'["completed"]) \in Nat
  BY <1>1, <1>2, FS_Subset, FS_CardinalityType DEF IInv, Typed
<1>5. Cardinality(in'["completed"]) <= KeepCompleted
  BY <1>3, <1>4, Constants
<1> QED
  BY <1>5, MoveKeeps

LEMMA CompleteKeeps ==
  ASSUME IInv, NEW j \in Jobs, Complete(j)
  PROVE  IInv'
<1>1. j \in in["processing"] /\ raw[j] = "processing"
  BY DEF Complete
<1>2. CASE KeepCompleted = 0
  <2>1. Move(j, {}, "none", {})
    BY <1>2 DEF Complete
  <2> QED
    BY <2>1, MoveElsewhereKeeps DEF Home, Raws
<1>3. CASE KeepCompleted # 0
  <2>1. PICK old \in SUBSET in["completed"] :
          /\ Cardinality(in["completed"] \ old) + 1 <= KeepCompleted
          /\ Move(j, {"completed"}, "completed", old)
    BY <1>3 DEF Complete
  <2>2. j \notin in["completed"]
    <3>1. Sets(j) = {"processing"}
      BY <1>1 DEF IInv, Placed, Home
    <3> QED
      BY <3>1 DEF Sets, Keys
  <2>3. in["completed"] \in SUBSET Jobs
    BY DEF IInv, Typed, Keys
  <2>4. in'["completed"] = (in["completed"] \ old) \cup {j}
    BY <2>1, <2>2 DEF Move, Keys
  <2>5. IsFiniteSet(in["completed"] \ old)
    BY <2>3, Constants, FS_Subset
  <2>6. Cardinality(in'["completed"]) = Cardinality(in["completed"] \ old) + 1
    BY <2>2, <2>4, <2>5, FS_AddElement
  <2>7. Home("completed") = {"completed"} /\ "completed" \in Raws
    BY DEF Home, Raws
  <2> QED
    BY <2>1, <2>2, <2>3, <2>6, <2>7, MoveKeeps DEF Keys
<1> QED
  BY <1>2, <1>3

LEMMA ScriptKeeps ==
  ASSUME IInv, NEW j \in Jobs, Script(j)
  PROVE  IInv'
<1>1. /\ Home("waiting") = {"group"} /\ Home("delayed") = {"delayed"}
      /\ Home("staged") = {} /\ Home("waiting-children") = {} /\ Home("none") = {}
      /\ Home("processing") = {"processing"} /\ Home("failed") = {"failed"}
      /\ {"waiting", "delayed", "staged", "waiting-children", "none", "processing",
          "failed"} \subseteq Raws
  BY DEF Home, Raws
<1>2. CASE Enqueue(j)
  <2>1. CASE Move(j, {"group"}, "waiting", {})
    BY <2>1, <1>1, MoveElsewhereKeeps DEF Keys
  <2>2. CASE Move(j, {"delayed"}, "delayed", {})
    BY <2>2, <1>1, MoveElsewhereKeeps DEF Keys
  <2>3. CASE Move(j, {}, "staged", {})
    BY <2>3, <1>1, MoveElsewhereKeeps
  <2>4. CASE Move(j, {}, "waiting-children", {})
    BY <2>4, <1>1, MoveElsewhereKeeps
  <2> QED
    BY <1>2, <2>1, <2>2, <2>3, <2>4 DEF Enqueue
<1>3. CASE Ready(j)
  BY <1>3, <1>1, MoveElsewhereKeeps DEF Keys, Ready
<1>4. CASE Reserve(j)
  BY <1>4, <1>1, MoveElsewhereKeeps DEF Keys, Reserve
<1>5. CASE Complete(j)
  BY <1>5, CompleteKeeps
<1>6. CASE Retry(j)
  <2>1. CASE Move(j, {"group"}, "waiting", {})
    BY <2>1, <1>1, MoveElsewhereKeeps DEF Keys
  <2>2. CASE Move(j, {"delayed"}, "delayed", {})
    BY <2>2, <1>1, MoveElsewhereKeeps DEF Keys
  <2> QED
    BY <1>6, <2>1, <2>2 DEF Retry
<1>7. CASE Postpone(j)
  BY <1>7, <1>1, MoveElsewhereKeeps DEF Keys, Postpone
<1>8. CASE RecordFailure(j)
  BY <1>8, <1>1, MoveElsewhereKeeps DEF Keys, RecordFailure
<1>9. CASE DeadLetter(j)
  <2>1. Move(j, {"failed"}, "failed", {})
    BY <1>9 DEF DeadLetter
  <2> QED
    BY <2>1, <1>1, MoveElsewhereKeeps DEF Keys
<1>10. CASE RemoveJob(j)
  <2>1. Move(j, {}, "none", {})
    BY <1>10 DEF RemoveJob
  <2> QED
    BY <2>1, <1>1, MoveElsewhereKeeps
<1> QED
  BY <1>2, <1>3, <1>4, <1>5, <1>6, <1>7, <1>8, <1>9, <1>10 DEF Script

-----------------------------------------------------------------------------
(* A call keeps the invariant: its beginning, a read, its end. *)

\* A call begins with all its reads before it.
LEMMA BeginKeeps ==
  ASSUME IInv, NEW c \in CallType, Begin(c), c.op # "none",
         c.op = "job" => /\ c.job \in Jobs
                         /\ {"processing", "delayed", "group"} \subseteq ToSet(c.todo),
         c.op # "job" => c.asked \subseteq ToSet(c.todo),
         c.skipped = {},
         c.op = "counts" => c.asked = Keys,
         c.op = "children" => c.asked = {},
         c.op \in {"ended", "rows"} => "group" \notin c.asked,
         \A m \in 1..Len(c.todo) :
           c.todo[m] = "groups" => \E n \in 1..Len(c.todo) : m < n /\ c.todo[n] = "group",
         c.op = "jobs" /\ "group" \in c.asked => "groups" \in ToSet(c.todo),
         c.op = "jobs" /\ c.page[2] >= 0 /\ c.page[1] <= c.page[2] - c.page[1] + 1
           => c.limit > c.page[2] \/ c.limit >= Cap
  PROVE  IInv'
<1>1. /\ call' = c /\ got' = [sets |-> Unread, groups |-> {}, raw |-> raw]
      /\ seen' = [j \in Jobs |-> Statuses(j)] /\ moves' = 0
      /\ in' = in /\ raw' = raw /\ groups' = groups
  BY DEF Begin
<1>2. /\ in \in [Keys -> SUBSET Jobs] /\ raw \in [Jobs -> Raws] /\ Placed
      /\ Cardinality(in["completed"]) <= KeepCompleted
  BY DEF IInv, Typed
<1>3. \A j \in Jobs : /\ Told(raw[j]) \in Statuses(j)
                      /\ Statuses(j) \subseteq Valid \cup {"unknown", "none"}
  BY <1>2, StatusesOf
<1>4. \A j \in Jobs : Statuses(j)' = Statuses(j)
  BY <1>1 DEF Statuses
<1>5. Placed'
  BY <1>1, <1>2 DEF Placed, Sets
<1>13. Asked' = c.asked
  BY <1>1 DEF Asked
<1>6. HasRead' = {}
  BY <1>1, <1>13 DEF HasRead, Wanted
<1>7. got'.sets = Unread /\ got'.raw = raw
  BY <1>1
<1>8. Typed'
  <2>1. moves' \in 0..MaxMoves
    BY <1>1, Constants
  <2>2. got' \in GotType
    BY <1>1, <1>2 DEF Unread, GotType
  <2>3. seen' \in [Jobs -> SUBSET (Valid \cup {"unknown", "none"})]
    BY <1>1, <1>3
  <2>4. groups' \in SUBSET Groups
    BY <1>1 DEF IInv, Typed
  <2> QED
    BY <1>1, <1>2, <1>13, <2>1, <2>2, <2>3, <2>4 DEF Typed
<1>14. Listing'
  BY <1>1 DEF IInv, Listing, Live
<1>15. GroupsFirst'
  BY <1>1 DEF GroupsFirst
<1>16. GroupsFound'
  BY <1>1, <1>13 DEF GroupsFound
<1>9. ReadWasTrue'
  BY <1>1, <1>3, <1>4, <1>7 DEF ReadWasTrue, Unread
<1>10. RestingFound'
  BY <1>6 DEF RestingFound
<1>11. QuietSoFar'
  BY <1>1, <1>4, <1>6, <1>7, <1>13 DEF QuietSoFar
<1>12. PageFits'
  BY <1>1 DEF PageFits
<1> QED
  BY <1>5, <1>8, <1>9, <1>10, <1>11, <1>12, <1>14, <1>15, <1>16 DEF IInv

\* The reads of the calls.
LEMMA TodoLists ==
  /\ StoreOrder \in Seq(Reads)
  /\ {"processing", "delayed", "group"} \subseteq ToSet(StoreOrder)
  /\ CountOrder \in Seq(Reads) /\ Keys \subseteq ToSet(CountOrder)
  /\ <<"hash">> \in Seq(Reads) /\ Len(<<"hash">>) = 1
  /\ \A key \in Keys : /\ <<key, "hash">> \in Seq(Reads)
                        /\ key \in ToSet(<<key, "hash">>)
  /\ ListOrder \in Seq(Reads) /\ Len(ListOrder) = 6
  /\ Keys \cup {"groups"} = {ListOrder[n] : n \in 1..6}
  /\ \A n \in 1..6 : /\ ListOrder[n] = "groups" => n = 5
                     /\ ListOrder[n] = "group" <=> n = 6
  /\ \A m \in 1..Len(StoreOrder) : StoreOrder[m] # "groups"
  /\ \A m \in 1..Len(CountOrder) : CountOrder[m] # "groups"
  /\ \A m \in 1..Len(<<"hash">>) : <<"hash">>[m] # "groups"
  /\ \A key \in Keys : \A m \in 1..Len(<<key, "hash">>) : <<key, "hash">>[m] # "groups"
<1>1. /\ StoreOrder \in Seq(Reads) /\ CountOrder \in Seq(Reads)
      /\ ListOrder \in Seq(Reads) /\ <<"hash">> \in Seq(Reads)
      /\ \A key \in Keys : <<key, "hash">> \in Seq(Reads)
  BY DEF StoreOrder, CountOrder, ListOrder, Keys, Reads
<1>2. {"processing", "delayed", "group"} \subseteq ToSet(StoreOrder)
  <2>1. /\ DOMAIN StoreOrder = 1..4 /\ StoreOrder[2] = "processing"
        /\ StoreOrder[3] = "delayed" /\ StoreOrder[4] = "group"
    BY DEF StoreOrder
  <2> QED
    BY <2>1 DEF ToSet
<1>3. Keys \subseteq ToSet(CountOrder)
  <2>1. /\ DOMAIN CountOrder = 1..5 /\ CountOrder[1] = "processing"
        /\ CountOrder[2] = "group" /\ CountOrder[3] = "delayed"
        /\ CountOrder[4] = "completed" /\ CountOrder[5] = "failed"
    BY DEF CountOrder
  <2> QED
    BY <2>1 DEF ToSet, Keys
<1>4. \A key \in Keys : key \in ToSet(<<key, "hash">>)
  <2>1. SUFFICES ASSUME NEW key \in Keys PROVE key \in ToSet(<<key, "hash">>)
    OBVIOUS
  <2>2. DOMAIN <<key, "hash">> = 1..2 /\ <<key, "hash">>[1] = key
    OBVIOUS
  <2> QED
    BY <2>2 DEF ToSet
<1>5. Len(ListOrder) = 6 /\ Len(<<"hash">>) = 1
  BY DEF ListOrder
<1>6. /\ Keys \cup {"groups"} = {ListOrder[n] : n \in 1..6}
      /\ \A n \in 1..6 : /\ ListOrder[n] = "groups" => n = 5
                         /\ ListOrder[n] = "group" <=> n = 6
  <2>1. /\ ListOrder[1] = "processing" /\ ListOrder[2] = "delayed"
        /\ ListOrder[3] = "completed" /\ ListOrder[4] = "failed"
        /\ ListOrder[5] = "groups" /\ ListOrder[6] = "group"
    BY DEF ListOrder
  <2>2. 1..6 = {1, 2, 3, 4, 5, 6}
    OBVIOUS
  <2> QED
    BY <2>1, <2>2 DEF Keys
<1>7. /\ \A m \in 1..Len(StoreOrder) : StoreOrder[m] # "groups"
      /\ \A m \in 1..Len(CountOrder) : CountOrder[m] # "groups"
  <2>1. /\ Len(StoreOrder) = 4 /\ StoreOrder[1] = "hash" /\ StoreOrder[2] = "processing"
        /\ StoreOrder[3] = "delayed" /\ StoreOrder[4] = "group"
    BY DEF StoreOrder
  <2>2. /\ Len(CountOrder) = 5 /\ CountOrder[1] = "processing"
        /\ CountOrder[2] = "group" /\ CountOrder[3] = "delayed"
        /\ CountOrder[4] = "completed" /\ CountOrder[5] = "failed"
    BY DEF CountOrder
  <2>3. 1..4 = {1, 2, 3, 4} /\ 1..5 = {1, 2, 3, 4, 5}
    OBVIOUS
  <2> QED
    BY <2>1, <2>2, <2>3
<1>8. /\ \A m \in 1..Len(<<"hash">>) : <<"hash">>[m] # "groups"
      /\ \A key \in Keys : \A m \in 1..Len(<<key, "hash">>) : <<key, "hash">>[m] # "groups"
  <2>1. 1..1 = {1} /\ 1..2 = {1, 2}
    OBVIOUS
  <2>2. Len(<<"hash">>) = 1 /\ \A key \in Keys : Len(<<key, "hash">>) = 2
    OBVIOUS
  <2>3. <<"hash">>[1] = "hash"
    OBVIOUS
  <2>4. \A key \in Keys : /\ <<key, "hash">>[1] = key /\ <<key, "hash">>[2] = "hash"
                          /\ key # "groups"
    BY DEF Keys
  <2> QED
    BY <2>1, <2>2, <2>3, <2>4
<1> QED
  BY <1>1, <1>2, <1>3, <1>4, <1>5, <1>6, <1>7, <1>8

LEMMA RequestKeeps ==
  ASSUME IInv, Request
  PROVE  IInv'
<1>1. NoCall \in CallType
  <2>1. <<>> \in Seq(Reads)
    OBVIOUS
  <2> QED
    BY <2>1 DEF NoCall, CallType
<1>2. ASSUME NEW j \in Jobs, GetJob(j)
      PROVE  IInv'
  <2> DEFINE c == [NoCall EXCEPT !.op = "job", !.todo = StoreOrder, !.job = j]
  <2>1. c \in CallType
    BY <1>1, TodoLists, Constants DEF CallType
  <2>2. c.op = "job" /\ c.todo = StoreOrder /\ c.job = j /\ c.skipped = {}
    BY DEF NoCall
  <2>3. Begin(c)
    BY <1>2 DEF GetJob
  <2> HIDE DEF c
  <2> QED
    BY <2>1, <2>2, <2>3, TodoLists, BeginKeeps
<1>3. CASE GetJobCounts
  <2> DEFINE c == [NoCall EXCEPT !.op = "counts", !.todo = CountOrder, !.asked = Keys]
  <2>1. c \in CallType
    BY <1>1, TodoLists DEF CallType
  <2>2. c.op = "counts" /\ c.todo = CountOrder /\ c.asked = Keys /\ c.skipped = {}
    BY DEF NoCall
  <2>3. Begin(c)
    BY <1>3 DEF GetJobCounts
  <2> HIDE DEF c
  <2> QED
    BY <2>1, <2>2, <2>3, TodoLists, BeginKeeps
<1>4. ASSUME NEW asked \in Asks, NEW page \in Pages, GetJobsByStatus(asked, page)
      PROVE  IInv'
  <2> DEFINE keys == asked \cup (IF "group" \in asked THEN {"groups"} ELSE {})
             P == {n \in DOMAIN ListOrder : ListOrder[n] \in keys}
             read == Only(ListOrder, P)
             todo == read \o <<"hash">>
             limit == 2 * (IF page[2] >= 0 THEN page[2] - page[1] + 1 ELSE Unbounded)
             atMost == IF limit < Cap THEN limit ELSE Cap
             c == [NoCall EXCEPT !.op = "jobs", !.asked = asked, !.page = page,
                                 !.limit = atMost, !.todo = todo]
  <2>0. Begin(c)
    BY <1>4 DEF GetJobsByStatus
  <2>1. P \in SUBSET (1..6) /\ P = {n \in 1..6 : ListOrder[n] \in keys}
    BY TodoLists, Members
  <2>2. /\ asked \in SUBSET Keys /\ page \in Nat \X Int
        /\ keys \subseteq Keys \cup {"groups"} /\ asked \subseteq keys
        /\ "group" \in asked => "groups" \in keys
        /\ "groups" \in keys => "group" \in keys
    <3>1. asked \in SUBSET Keys /\ page \in Nat \X Int /\ "groups" \notin Keys
      BY Constants DEF Keys
    <3> QED
      BY <3>1
  <2> HIDE DEF keys, P
  <2>3. /\ read \in Seq(Reads) /\ ToSet(read) = keys /\ Len(read) = Cardinality(P)
        /\ \A n \in 1..Cardinality(P) : Nth(P, n) \in P /\ read[n] = ListOrder[Nth(P, n)]
    <3>1. ListOrder \in Seq(Reads) /\ P \in SUBSET (1..Len(ListOrder))
      BY <2>1, TodoLists
    <3>2. /\ read \in Seq(Reads) /\ ToSet(read) = {ListOrder[n] : n \in P}
          /\ Len(read) = Cardinality(P)
          /\ \A n \in 1..Cardinality(P) : Nth(P, n) \in P /\ read[n] = ListOrder[Nth(P, n)]
      BY <3>1, OnlyIs
    <3>3. \A k \in keys : \E n \in 1..6 : ListOrder[n] = k
      BY <2>2, TodoLists
    <3>4. keys = {ListOrder[n] : n \in P}
      BY <3>3, <2>1
    <3> QED
      BY <3>2, <3>4
  <2> HIDE DEF read
  <2>4. /\ todo \in Seq(Reads) /\ keys \subseteq ToSet(todo)
        /\ Len(todo) = Len(read) + 1 /\ Len(read) \in Nat
        /\ \A i \in 1..Len(read) : todo[i] = read[i]
        /\ todo[Len(read) + 1] = "hash"
    <3>1. /\ todo \in Seq(Reads)
          /\ Len(todo) = Len(read) + 1 /\ Len(read) \in Nat
          /\ \A i \in 1..Len(read) : todo[i] = read[i]
          /\ todo[Len(read) + 1] = "hash"
      BY <2>3, TodoLists, ConcatProperties, LenProperties
    <3>2. ToSet(read) = {read[i] : i \in 1..Len(read)}
      BY <2>3, Members
    <3>3. ToSet(todo) = {todo[i] : i \in 1..Len(read) + 1}
      BY <3>1, Members
    <3> QED
      BY <3>1, <3>2, <3>3, <2>3
  <2> HIDE DEF todo
  <2>5. limit \in Int /\ atMost \in Int
    BY <2>2, Constants
  <2>6. page[2] >= 0 /\ page[1] <= page[2] - page[1] + 1
          => atMost > page[2] \/ atMost >= Cap
    BY <2>2, Constants
  <2> HIDE DEF limit, atMost
  <2>7. c \in CallType
    BY <1>1, <2>2, <2>4, <2>5 DEF CallType
  <2>8. /\ c.op = "jobs" /\ c.todo = todo /\ c.asked = asked
        /\ c.page = page /\ c.limit = atMost /\ c.skipped = {}
    BY DEF NoCall
  <2>9. ASSUME NEW m \in 1..Len(todo), todo[m] = "groups"
        PROVE  \E n \in 1..Len(todo) : m < n /\ todo[n] = "group"
    <3>1. m \in 1..Len(read) /\ read[m] = "groups"
      BY <2>4, <2>9
    <3>2. Nth(P, m) = 5 /\ "groups" \in keys
      <4>1. /\ Nth(P, m) \in 1..6 /\ ListOrder[Nth(P, m)] = "groups"
            /\ ListOrder[Nth(P, m)] \in keys
        BY <3>1, <2>1, <2>3
      <4> QED
        BY <4>1, TodoLists
    <3>3. 6 \in P
      BY <3>2, <2>1, <2>2, TodoLists
    <3>4. P \in SUBSET Nat /\ IsFiniteSet(P)
      BY <2>1, PlacesFinite
    <3>5. PICK n \in 1..Cardinality(P) : Nth(P, n) = 6
      BY <3>3, <3>4, NthEach
    <3>6. read[n] = "group" /\ n \in 1..Len(read) /\ m \in 1..Cardinality(P)
      BY <3>1, <3>5, <2>3, TodoLists
    <3>7. ~(n < m)
      BY <3>2, <3>4, <3>5, <3>6, NthInOrder
    <3>8. n # m
      BY <3>2, <3>5
    <3>9. m < n /\ n \in 1..Len(todo)
      BY <3>1, <3>6, <3>7, <3>8, <2>4
    <3> QED
      BY <3>6, <3>9, <2>4
  <2>10. "group" \in asked => "groups" \in ToSet(todo)
    BY <2>2, <2>4
  <2>11. asked \subseteq ToSet(todo)
    BY <2>2, <2>4
  <2> HIDE DEF c
  <2> QED
    BY <2>0, <2>6, <2>7, <2>8, <2>9, <2>10, <2>11, BeginKeeps
<1>5. ASSUME NEW key \in {"completed", "failed"}, NEW n \in Limits,
             GetEndedJobs(key, n) \/ GetRows(key, n)
      PROVE  IInv'
  <2> DEFINE c(op) == [NoCall EXCEPT !.op = op, !.asked = {key}, !.limit = AtLeastOne(n),
                                     !.todo = <<key, "hash">>]
  <2>1. AtLeastOne(n) \in Int /\ key \in Keys /\ "group" \notin {key}
    BY Constants DEF AtLeastOne, Keys
  <2>2. /\ c("ended") \in CallType /\ c("rows") \in CallType
    BY <1>1, <2>1, TodoLists DEF CallType
  <2>3. /\ c("ended").op = "ended" /\ c("rows").op = "rows"
        /\ c("ended").asked = {key} /\ c("rows").asked = {key}
        /\ c("ended").skipped = {} /\ c("rows").skipped = {}
        /\ c("ended").todo = <<key, "hash">> /\ c("rows").todo = <<key, "hash">>
    BY DEF NoCall
  <2>4. Begin(c("ended")) \/ Begin(c("rows"))
    BY <1>5 DEF GetEndedJobs, GetRows
  <2>5. {key} \subseteq ToSet(<<key, "hash">>)
    BY <2>1, TodoLists
  <2>6. \A m \in 1..Len(<<key, "hash">>) : <<key, "hash">>[m] # "groups"
    BY <2>1, TodoLists
  <2> HIDE DEF c
  <2>7. CASE Begin(c("ended"))
    BY <2>1, <2>2, <2>3, <2>5, <2>6, <2>7, BeginKeeps
  <2>8. CASE Begin(c("rows"))
    BY <2>1, <2>2, <2>3, <2>5, <2>6, <2>8, BeginKeeps
  <2> QED
    BY <2>4, <2>7, <2>8
<1>6. CASE GetFlowChildren
  <2> DEFINE c == [NoCall EXCEPT !.op = "children", !.todo = <<"hash">>]
  <2>1. c \in CallType
    BY <1>1, TodoLists DEF CallType
  <2>2. c.op = "children" /\ c.asked = {} /\ c.skipped = {} /\ c.todo = <<"hash">>
    BY DEF NoCall
  <2>3. Begin(c)
    BY <1>6 DEF GetFlowChildren
  <2> HIDE DEF c
  <2> QED
    BY <2>1, <2>2, <2>3, TodoLists, BeginKeeps
<1> QED
  BY <1>2, <1>3, <1>4, <1>5, <1>6 DEF Request

\* What is left to read after the first of it.
LEMMA OneLess ==
  ASSUME Typed, GroupsFirst, call.todo # <<>>
  PROVE  /\ Head(call.todo) \in Reads /\ Tail(call.todo) \in Seq(Reads)
         /\ ToSet(call.todo) = {Head(call.todo)} \cup ToSet(Tail(call.todo))
         /\ \A m \in 1..Len(Tail(call.todo)) :
              Tail(call.todo)[m] = "groups"
              => \E n \in 1..Len(Tail(call.todo)) : m < n /\ Tail(call.todo)[n] = "group"
         /\ Head(call.todo) = "groups" => "group" \in ToSet(Tail(call.todo))
<1> DEFINE todo == call.todo
           rest == Tail(call.todo)
<1>1. todo \in Seq(Reads) /\ todo # <<>>
  BY DEF Typed, CallType
<1>2. \A m \in 1..Len(todo) : todo[m] = "groups"
        => \E n \in 1..Len(todo) : m < n /\ todo[n] = "group"
  BY DEF GroupsFirst
<1> HIDE DEF todo
<1>3. /\ Head(todo) \in Reads /\ Tail(todo) \in Seq(Reads)
      /\ Len(Tail(todo)) = Len(todo) - 1 /\ Len(todo) \in Nat /\ Len(todo) > 0
      /\ \A i \in 1..Len(Tail(todo)) : Tail(todo)[i] = todo[i + 1]
  <2>1. Len(todo) \in Nat /\ Len(todo) # 0
    BY <1>1, LenProperties, EmptySeq
  <2>2. Len(todo) > 0
    BY <2>1
  <2> QED
    BY <1>1, <2>1, <2>2, HeadTailProperties
<1>4. rest = Tail(todo)
  BY DEF todo
<1> HIDE DEF rest
<1>5. /\ ToSet(todo) = {todo[i] : i \in 1..Len(todo)}
      /\ ToSet(rest) = {rest[i] : i \in 1..Len(rest)}
  <2>1. rest \in Seq(Reads)
    BY <1>3, <1>4
  <2>2. ToSet(todo) = {todo[i] : i \in 1..Len(todo)}
    BY <1>1, Members
  <2>3. ToSet(rest) = {rest[i] : i \in 1..Len(rest)}
    BY <2>1, Members
  <2> QED
    BY <2>2, <2>3
<1>6. Head(todo) = todo[1]
  BY <1>1
<1>7. \A i \in 1..Len(todo) : i # 1 => i - 1 \in 1..Len(rest) /\ rest[i - 1] = todo[i]
  <2>1. SUFFICES ASSUME NEW i \in 1..Len(todo), i # 1
                 PROVE  i - 1 \in 1..Len(rest) /\ rest[i - 1] = todo[i]
    OBVIOUS
  <2>2. i - 1 \in 1..Len(rest) /\ rest[i - 1] = todo[i - 1 + 1]
    BY <2>1, <1>3, <1>4
  <2>3. i - 1 + 1 = i
    BY <2>1, <1>3
  <2> QED
    BY <2>2, <2>3
<1>8. \A i \in 1..Len(rest) : i + 1 \in 1..Len(todo) /\ rest[i] = todo[i + 1]
  BY <1>3, <1>4
<1>9. ToSet(todo) = {Head(todo)} \cup ToSet(rest)
  <2>1. \A i \in 1..Len(todo) : todo[i] \in {Head(todo)} \cup ToSet(rest)
    BY <1>5, <1>6, <1>7
  <2>2. 1 \in 1..Len(todo)
    BY <1>3
  <2>3. Head(todo) \in ToSet(todo) /\ ToSet(rest) \subseteq ToSet(todo)
    BY <2>2, <1>5, <1>6, <1>8
  <2> QED
    BY <2>1, <2>3, <1>5
<1>10. ASSUME NEW m \in 1..Len(rest), rest[m] = "groups"
       PROVE  \E n \in 1..Len(rest) : m < n /\ rest[n] = "group"
  <2>1. PICK n \in 1..Len(todo) : m + 1 < n /\ todo[n] = "group"
    BY <1>2, <1>8, <1>10
  <2>2. n # 1 /\ m < n - 1
    BY <2>1, <1>3, <1>4
  <2> QED
    BY <2>1, <2>2, <1>7
<1>11. Head(todo) = "groups" => "group" \in ToSet(rest)
  <2>1. SUFFICES ASSUME todo[1] = "groups" PROVE "group" \in ToSet(rest)
    BY <1>6
  <2>2. 1 \in 1..Len(todo)
    BY <1>3
  <2>3. PICK n \in 1..Len(todo) : 1 < n /\ todo[n] = "group"
    BY <2>1, <2>2, <1>2
  <2>4. n # 1
    BY <2>3
  <2> QED
    BY <2>3, <2>4, <1>5, <1>7
<1> QED
  BY <1>3, <1>4, <1>9, <1>10, <1>11 DEF todo

\* What a read takes: as it is, or some of the groups.
LEMMA ReadTakes ==
  ASSUME IInv, Read
  PROVE  LET key == Head(call.todo) IN
         /\ got' \in GotType
         /\ got'.raw = IF key = "hash" THEN raw ELSE got.raw
         /\ \A k \in Keys : got'.sets[k] = IF k # key THEN got.sets[k]
                                         ELSE IF k = "group" THEN Met ELSE in[k]
         /\ key # "groups" => got'.groups = got.groups
         /\ key = "groups" => /\ got'.groups \subseteq groups
                              /\ got'.groups = groups \/ Cardinality(got'.groups) = Scan
<1> DEFINE key == Head(call.todo)
<1>1. /\ got \in GotType /\ in \in [Keys -> SUBSET Jobs] /\ raw \in [Jobs -> Raws]
      /\ groups \in SUBSET Groups
  BY DEF IInv, Typed
<1>2. key \in Reads /\ "hash" \notin Keys /\ "groups" \notin Keys /\ "group" \in Keys
  <2>1. call.todo # <<>>
    BY DEF Read
  <2> QED
    BY <2>1, OneLess DEF IInv, Keys
<1>3. Met \in SUBSET Jobs
  BY <1>1, <1>2 DEF Met
<1>4. \/ key = "hash" /\ got' = [got EXCEPT !.raw = raw]
      \/ key = "group" /\ got' = [got EXCEPT !.sets[key] = Met]
      \/ key \in Keys \ {"group"} /\ got' = [got EXCEPT !.sets[key] = in[key]]
      \/ /\ key = "groups"
         /\ \E some \in SUBSET groups :
              /\ some = groups \/ Cardinality(some) = Scan
              /\ got' = [got EXCEPT !.groups = some]
  BY DEF Read
<1> HIDE DEF key
<1>5. CASE key = "hash" /\ got' = [got EXCEPT !.raw = raw]
  <2>1. /\ got'.raw = raw /\ got'.sets = got.sets /\ got'.groups = got.groups
        /\ got' \in GotType
    BY <1>5, <1>1 DEF GotType
  <2> QED
    BY <2>1, <1>2, <1>5 DEF key
<1>6. CASE key = "group" /\ got' = [got EXCEPT !.sets[key] = Met]
  <2>1. /\ got'.raw = got.raw /\ got'.groups = got.groups
        /\ \A k \in Keys : got'.sets[k] = IF k = key THEN Met ELSE got.sets[k]
        /\ got' \in GotType
    BY <1>6, <1>1, <1>2, <1>3 DEF GotType
  <2> QED
    BY <2>1, <1>2, <1>6 DEF key
<1>7. CASE key \in Keys \ {"group"} /\ got' = [got EXCEPT !.sets[key] = in[key]]
  <2>1. /\ got'.raw = got.raw /\ got'.groups = got.groups
        /\ \A k \in Keys : got'.sets[k] = IF k = key THEN in[k] ELSE got.sets[k]
        /\ got' \in GotType
    BY <1>7, <1>1 DEF GotType
  <2> QED
    BY <2>1, <1>2, <1>7 DEF key
<1>8. ASSUME key = "groups", NEW some \in SUBSET groups,
             some = groups \/ Cardinality(some) = Scan,
             got' = [got EXCEPT !.groups = some]
      PROVE  /\ got' \in GotType /\ got'.raw = got.raw /\ got'.sets = got.sets
             /\ got'.groups = some
  BY <1>8, <1>1 DEF GotType
<1>9. CASE /\ key = "groups"
           /\ \E some \in SUBSET groups :
                /\ some = groups \/ Cardinality(some) = Scan
                /\ got' = [got EXCEPT !.groups = some]
  BY <1>2, <1>8, <1>9 DEF key
<1> QED
  BY <1>4, <1>5, <1>6, <1>7, <1>9

\* A read adds what is so now to what was read.
LEMMA ReadKeeps ==
  ASSUME IInv, Read
  PROVE  IInv'
<1> DEFINE key == Head(call.todo)
<1>1. /\ call.todo # <<>> /\ call' = [call EXCEPT !.todo = Tail(@)]
      /\ in' = in /\ raw' = raw /\ seen' = seen /\ moves' = moves /\ groups' = groups
  BY DEF Read
<1>2. call \in CallType
  BY DEF IInv, Typed
<1>3. /\ key \in Reads /\ Tail(call.todo) \in Seq(Reads)
      /\ ToSet(call.todo) = {key} \cup ToSet(Tail(call.todo))
      /\ \A m \in 1..Len(Tail(call.todo)) :
           Tail(call.todo)[m] = "groups"
           => \E n \in 1..Len(Tail(call.todo)) : m < n /\ Tail(call.todo)[n] = "group"
      /\ key = "groups" => "group" \in ToSet(Tail(call.todo))
  BY <1>1, OneLess DEF IInv
<1>6. /\ got' \in GotType
      /\ got'.raw = IF key = "hash" THEN raw ELSE got.raw
      /\ \A k \in Keys : got'.sets[k] = IF k # key THEN got.sets[k]
                                      ELSE IF k = "group" THEN Met ELSE in[k]
      /\ key # "groups" => got'.groups = got.groups
      /\ key = "groups" => /\ got'.groups \subseteq groups
                           /\ got'.groups = groups \/ Cardinality(got'.groups) = Scan
  BY ReadTakes
<1> HIDE DEF key
<1>4. /\ call'.op = call.op /\ call'.job = call.job /\ call'.asked = call.asked
      /\ call'.skipped = call.skipped
      /\ call'.todo = Tail(call.todo) /\ call' \in CallType
  BY <1>1, <1>2, <1>3 DEF CallType
<1>5. /\ Asked' = Asked /\ Wanted' = Wanted /\ HasRead' \subseteq HasRead \cup {key}
      /\ HasRead' \subseteq Keys
  BY <1>2, <1>3, <1>4 DEF Asked, Wanted, HasRead, CallType, Keys
<1>7. Typed'
  BY <1>1, <1>4, <1>5, <1>6 DEF IInv, Typed
<1>8. \A j \in Jobs : Statuses(j)' = Statuses(j)
  BY <1>1 DEF Statuses
<1>9. Placed' /\ Listing'
  BY <1>1 DEF IInv, Placed, Sets, Listing, Live
<1>10. \A j \in Jobs : /\ Told(raw[j]) \in Statuses(j)
                       /\ \A k \in Keys : j \in in[k] <=> StatusOf(k) \in Statuses(j)
  BY StatusesOf DEF IInv, Typed
<1>15. Met \subseteq in["group"] /\ "group" \in Keys
  BY DEF Met, Keys
<1>16. GroupsFirst'
  BY <1>3, <1>4 DEF GroupsFirst
<1>11. ReadWasTrue'
  <2>1. SUFFICES ASSUME call.op # "none", NEW j \in Jobs
                 PROVE  /\ Statuses(j) \subseteq seen[j] /\ Told(got'.raw[j]) \in seen[j]
                        /\ \A k \in Keys : j \in got'.sets[k] => StatusOf(k) \in seen[j]
    BY <1>1, <1>4, <1>8 DEF ReadWasTrue
  <2>2. /\ Statuses(j) \subseteq seen[j] /\ Told(got.raw[j]) \in seen[j]
        /\ \A k \in Keys : j \in got.sets[k] => StatusOf(k) \in seen[j]
    BY <2>1 DEF IInv, ReadWasTrue
  <2>3. Told(got'.raw[j]) \in seen[j]
    BY <2>2, <1>6, <1>10
  <2>4. \A k \in Keys : j \in got'.sets[k] => StatusOf(k) \in seen[j]
    BY <2>2, <1>6, <1>10, <1>15
  <2> QED
    BY <2>2, <2>3, <2>4
<1>12. RestingFound'
  <2>1. SUFFICES ASSUME call.op # "none", NEW k \in HasRead', NEW j \in Jobs,
                        seen[j] = {StatusOf(k)}, Looked(k, j)'
                 PROVE  j \in got'.sets[k]
    BY <1>1, <1>4 DEF RestingFound
  <2>2. k \in Keys /\ k \in HasRead \cup {key}
    BY <2>1, <1>5
  <2>3. CASE k = key
    <3>1. Statuses(j) = {StatusOf(k)}
      BY <2>1, <1>10 DEF IInv, ReadWasTrue
    <3>2. j \in in[k]
      BY <3>1, <2>2, <1>10
    <3>3. CASE k # "group"
      BY <3>2, <3>3, <2>2, <2>3, <1>6
    <3>4. CASE k = "group"
      <4>1. "waiting" \in Statuses(j)
        BY <3>1, <3>4, StatusOfKeys
      <4>2. GroupOf[j] \in groups /\ GroupOf[j] \in Groups
        BY <4>1, WaitingIsListed, Constants DEF IInv
      <4>3. call.op = "jobs" => GroupOf[j] \in got.groups
        <5>1. key # "groups"
          BY <2>3, <3>4
        <5> QED
          BY <5>1, <2>1, <3>4, <1>4, <1>6 DEF Looked
      <4>4. j \in Met
        BY <3>2, <3>4, <4>2, <4>3 DEF Met
      <4> QED
        BY <4>4, <3>4, <2>2, <2>3, <1>6
    <3> QED
      BY <3>3, <3>4
  <2>4. CASE k # key
    <3>1. k \in HasRead
      BY <2>2, <2>4
    <3>2. Looked(k, j)
      <4>1. SUFFICES ASSUME k = "group", call.op = "jobs" PROVE GroupOf[j] \in got.groups
        BY DEF Looked
      <4>2. key # "groups"
        BY <2>1, <4>1, <1>3, <1>4 DEF HasRead
      <4> QED
        BY <4>1, <4>2, <2>1, <1>4, <1>6 DEF Looked
    <3>3. j \in got.sets[k]
      BY <2>1, <3>1, <3>2 DEF IInv, RestingFound
    <3> QED
      BY <3>3, <2>2, <2>4, <1>6
  <2> QED
    BY <2>3, <2>4
<1>17. GroupsFound'
  <2>1. SUFFICES ASSUME call.op = "jobs", "group" \in Asked,
                        "groups" \notin ToSet(Tail(call.todo)),
                        NEW j \in Jobs, seen[j] = {"waiting"}
                 PROVE  \/ GroupOf[j] \in got'.groups
                        \/ Cardinality(got'.groups) >= Scan
    BY <1>1, <1>4, <1>5 DEF GroupsFound
  <2>2. CASE key = "groups"
    <3>1. Statuses(j) = {"waiting"}
      BY <2>1, <1>10 DEF IInv, ReadWasTrue
    <3>2. GroupOf[j] \in groups
      BY <3>1, WaitingIsListed DEF IInv
    <3> QED
      BY <3>2, <2>2, <1>6, Constants
  <2>3. CASE key # "groups"
    <3>1. "groups" \notin ToSet(call.todo)
      BY <2>1, <2>3, <1>3
    <3> QED
      BY <3>1, <2>1, <2>3, <1>6 DEF IInv, GroupsFound
  <2> QED
    BY <2>2, <2>3
<1>13. QuietSoFar'
  <2>1. SUFFICES ASSUME call.op # "none", moves = 0
                 PROVE  /\ got'.raw = raw /\ \A j \in Jobs : seen[j] = Statuses(j)
                        /\ \A k \in HasRead' \ {"group"} : got'.sets[k] = in[k]
                        /\ call.op = "jobs" /\ "group" \in Asked
                           /\ "groups" \notin ToSet(Tail(call.todo))
                           /\ Cardinality(groups) <= Scan
                             => got'.groups = groups
    BY <1>1, <1>4, <1>5, <1>8 DEF QuietSoFar
  <2>2. /\ got.raw = raw /\ \A j \in Jobs : seen[j] = Statuses(j)
        /\ \A k \in HasRead \ {"group"} : got.sets[k] = in[k]
        /\ call.op = "jobs" /\ "group" \in Asked /\ "groups" \notin ToSet(call.todo)
           /\ Cardinality(groups) <= Scan
             => got.groups = groups
    BY <2>1 DEF IInv, QuietSoFar
  <2>3. \A k \in HasRead' \ {"group"} : got'.sets[k] = in[k]
    BY <2>2, <1>5, <1>6
  <2>4. ASSUME call.op = "jobs", "group" \in Asked, Cardinality(groups) <= Scan,
               "groups" \notin ToSet(Tail(call.todo))
        PROVE  got'.groups = groups
    <3>1. CASE key # "groups"
      BY <3>1, <2>2, <2>4, <1>3, <1>6
    <3>2. CASE key = "groups"
      <4>1. SUFFICES ASSUME Cardinality(got'.groups) = Scan PROVE got'.groups = groups
        BY <3>2, <1>6
      <4>2. IsFiniteSet(groups)
        BY Constants, FS_Subset DEF IInv, Typed
      <4>3. /\ got'.groups \subseteq groups /\ Cardinality(groups) \in Nat
            /\ Cardinality(got'.groups) <= Cardinality(groups)
        BY <3>2, <4>2, <1>6, FS_Subset, FS_CardinalityType
      <4>4. Cardinality(got'.groups) = Cardinality(groups)
        BY <4>1, <4>3, <2>4, Constants
      <4> QED
        BY <4>2, <4>3, <4>4, FS_Subset
    <3> QED
      BY <3>1, <3>2
  <2> QED
    BY <2>2, <2>3, <2>4, <1>6
<1>14. PageFits'
  <2>1. call'.page = call.page /\ call'.limit = call.limit
    BY <1>1, <1>2 DEF CallType
  <2> QED
    BY <2>1, <1>4 DEF IInv, PageFits
<1> QED
  BY <1>7, <1>9, <1>11, <1>12, <1>13, <1>14, <1>16, <1>17 DEF IInv

\* A call that passes over a set asks of it no more.
LEMMA SkipKeeps ==
  ASSUME IInv, Skip
  PROVE  IInv'
<1> DEFINE key == IF Head(call.todo) = "groups" THEN "group" ELSE Head(call.todo)
<1>1. /\ call.op = "jobs" /\ call.todo # <<>> /\ Head(call.todo) # "hash"
      /\ call' = [call EXCEPT !.todo = Tail(@), !.skipped = @ \cup {key}]
      /\ in' = in /\ raw' = raw /\ seen' = seen /\ moves' = moves /\ groups' = groups
      /\ got' = got
  BY DEF Skip
<1>2. call \in CallType
  BY DEF IInv, Typed
<1>3. /\ Head(call.todo) \in Reads /\ Tail(call.todo) \in Seq(Reads)
      /\ ToSet(call.todo) = {Head(call.todo)} \cup ToSet(Tail(call.todo))
      /\ \A m \in 1..Len(Tail(call.todo)) :
           Tail(call.todo)[m] = "groups"
           => \E n \in 1..Len(Tail(call.todo)) : m < n /\ Tail(call.todo)[n] = "group"
  BY <1>1, OneLess DEF IInv
<1>4. key \in Keys
  BY <1>1, <1>3 DEF Reads, Keys
<1>5. key = Head(call.todo) \/ (Head(call.todo) = "groups" /\ key = "group")
  OBVIOUS
<1> HIDE DEF key
<1>6. /\ call'.op = "jobs" /\ call'.asked = call.asked
      /\ call'.skipped = call.skipped \cup {key} /\ call'.todo = Tail(call.todo)
      /\ call'.page = call.page /\ call'.limit = call.limit /\ call' \in CallType
  BY <1>1, <1>2, <1>3, <1>4 DEF CallType
<1>7. Asked' = Asked \ {key}
  BY <1>6 DEF Asked
<1>8. HasRead' \subseteq HasRead
  <2>1. Wanted' = Wanted \ {key}
    BY <1>1, <1>6, <1>7 DEF Wanted
  <2>2. "groups" \notin Wanted
    BY <1>1, <1>2 DEF Wanted, Asked, CallType, Keys
  <2>3. SUFFICES ASSUME NEW x \in Wanted, x # key, x \notin ToSet(Tail(call.todo))
                 PROVE  x \notin ToSet(call.todo)
    BY <2>1, <1>6 DEF HasRead
  <2>4. x # Head(call.todo)
    BY <2>2, <2>3, <1>5
  <2>5. ToSet(call.todo) = {Head(call.todo)} \cup ToSet(Tail(call.todo))
    BY <1>3
  <2> QED
    BY <2>3, <2>4, <2>5, Zenon
<1>9. "group" \in Asked' /\ "groups" \notin ToSet(call'.todo)
        => "group" \in Asked /\ "groups" \notin ToSet(call.todo)
  <2>1. SUFFICES ASSUME "group" \in Asked', "groups" \notin ToSet(call'.todo)
                 PROVE  "group" \in Asked /\ "groups" \notin ToSet(call.todo)
    OBVIOUS
  <2>2. "group" \in Asked /\ key # "group"
    BY <2>1, <1>7
  <2>3. "groups" # Head(call.todo)
    BY <2>2, <1>4, <1>5 DEF Keys
  <2>4. call'.todo = Tail(call.todo)
    BY <1>6
  <2>5. "groups" \notin ToSet(Tail(call.todo))
    BY <2>1, <2>4
  <2>6. ToSet(call.todo) = {Head(call.todo)} \cup ToSet(Tail(call.todo))
    BY <1>3
  <2>7. "groups" \notin ToSet(call.todo)
    BY <2>3, <2>5, <2>6, Zenon
  <2> QED
    BY <2>2, <2>7
<1>10. Typed'
  BY <1>1, <1>6 DEF IInv, Typed
<1>11. Placed' /\ Listing' /\ \A j \in Jobs : Statuses(j)' = Statuses(j)
  BY <1>1 DEF IInv, Placed, Sets, Listing, Live, Statuses
<1>12. GroupsFirst'
  BY <1>3, <1>6 DEF GroupsFirst
<1>13. GroupsFound'
  BY <1>1, <1>9 DEF IInv, GroupsFound
<1>14. ReadWasTrue'
  BY <1>1, <1>11 DEF IInv, ReadWasTrue
<1>15. RestingFound'
  BY <1>1, <1>6, <1>8 DEF IInv, RestingFound, Looked
<1>16. QuietSoFar'
  BY <1>1, <1>8, <1>9, <1>11 DEF IInv, QuietSoFar
<1>17. PageFits'
  BY <1>1, <1>6 DEF IInv, PageFits
<1> QED
  BY <1>10, <1>11, <1>12, <1>13, <1>14, <1>15, <1>16, <1>17 DEF IInv

LEMMA EndKeeps ==
  ASSUME IInv, Ends
  PROVE  IInv'
<1>1. /\ call' = NoCall
      /\ got' = [sets |-> Unread, groups |-> {}, raw |-> [j \in Jobs |-> "none"]]
      /\ seen' = [j \in Jobs |-> {}] /\ moves' = 0 /\ in' = in /\ raw' = raw
      /\ groups' = groups
  BY DEF Ends
<1>2. NoCall \in CallType /\ NoCall.op = "none" /\ NoCall.todo = <<>>
  <2>1. <<>> \in Seq(Reads)
    OBVIOUS
  <2> QED
    BY <2>1 DEF NoCall, CallType
<1>5. got' \in GotType
  BY <1>1 DEF GotType, Unread, Raws
<1>3. Typed'
  BY <1>1, <1>2, <1>5, Constants DEF IInv, Typed
<1>4. Placed' /\ Listing'
  BY <1>1 DEF IInv, Placed, Sets, Listing, Live
<1>6. GroupsFirst'
  BY <1>1, <1>2 DEF GroupsFirst
<1> QED
  BY <1>1, <1>2, <1>3, <1>4, <1>6
     DEF IInv, GroupsFound, ReadWasTrue, RestingFound, QuietSoFar, PageFits

-----------------------------------------------------------------------------
(* The invariant holds in every state. *)

LEMMA InitKeeps ==
  ASSUME Init
  PROVE  IInv
<1>1. NoCall \in CallType /\ NoCall.op = "none" /\ NoCall.todo = <<>>
  <2>1. <<>> \in Seq(Reads)
    OBVIOUS
  <2> QED
    BY <2>1 DEF NoCall, CallType
<1>2. Cardinality(in["completed"]) <= KeepCompleted
  BY Constants, FS_EmptySet DEF Init, Unread, Keys
<1>5. got \in GotType
  BY DEF Init, GotType, Unread, Raws
<1>3. Typed
  BY <1>1, <1>2, <1>5, Constants DEF Init, Typed, Unread, Raws
<1>4. Placed /\ Listing
  BY DEF Init, Placed, Sets, Unread, Home, Raws, Listing, Live, Keys
<1>6. GroupsFirst
  BY <1>1 DEF Init, GroupsFirst
<1> QED
  BY <1>1, <1>3, <1>4, <1>6
     DEF Init, IInv, GroupsFound, ReadWasTrue, RestingFound, QuietSoFar, PageFits

LEMMA StutterKeeps ==
  ASSUME IInv, UNCHANGED vars
  PROVE  IInv'
<1>1. /\ in' = in /\ raw' = raw /\ call' = call /\ got' = got /\ seen' = seen
      /\ moves' = moves /\ groups' = groups
  BY DEF vars
<1>2. Typed' /\ Placed'
  BY <1>1 DEF IInv, Typed, Asked, Placed, Sets
<1>3. ReadWasTrue' /\ RestingFound' /\ QuietSoFar'
  BY <1>1 DEF IInv, ReadWasTrue, Statuses, RestingFound, HasRead, Wanted, Asked, Looked,
              QuietSoFar
<1>4. PageFits' /\ Listing' /\ GroupsFirst' /\ GroupsFound'
  BY <1>1 DEF IInv, PageFits, Listing, Live, GroupsFirst, GroupsFound, Asked
<1> QED
  BY <1>2, <1>3, <1>4 DEF IInv

\* What a call has read so far was so while it ran, and is complete for what rested: for
\* any number of jobs and scripts, kept and dropped completed jobs, lists and pages.
THEOREM Inductive == Spec => []IInv
<1>1. Init => IInv
  BY InitKeeps
<1>2. IInv /\ [Next]_vars => IInv'
  <2>1. SUFFICES ASSUME IInv, [Next]_vars PROVE IInv'
    OBVIOUS
  <2>2. CASE \E j \in Jobs : Script(j)
    BY <2>1, <2>2, ScriptKeeps
  <2>3. CASE Request
    BY <2>1, <2>3, RequestKeeps
  <2>4. CASE Read
    BY <2>1, <2>4, ReadKeeps
  <2>5. CASE Skip
    BY <2>1, <2>5, SkipKeeps
  <2>6. CASE Finish \/ Reject
    BY <2>1, <2>6, EndKeeps DEF Finish, Reject
  <2>7. CASE UNCHANGED vars
    BY <2>1, <2>7, StutterKeeps
  <2> QED
    BY <2>1, <2>2, <2>3, <2>4, <2>5, <2>6, <2>7 DEF Next
<1> QED
  BY <1>1, <1>2, PTL DEF Spec

LEMMA TypesFollow ==
  ASSUME IInv
  PROVE  TypeOK
<1>1. /\ in \in [Keys -> SUBSET Jobs] /\ raw \in [Jobs -> Raws] /\ Placed
      /\ seen \in [Jobs -> SUBSET (Valid \cup {"unknown", "none"})]
  BY DEF IInv, Typed
<1>2. \A j \in Jobs : \/ Cardinality(Statuses(j)) = 1
                      \/ Statuses(j) = {"active", "failed"}
  <2>1. SUFFICES ASSUME NEW j \in Jobs
                 PROVE  \/ Cardinality(Statuses(j)) = 1
                        \/ Statuses(j) = {"active", "failed"}
    OBVIOUS
  <2>2. \/ Statuses(j) = {Told(raw[j])}
        \/ Statuses(j) = {"active", "failed"}
    BY <1>1, StatusesOf
  <2> QED
    BY <2>2, FS_Singleton
<1>3. \A k \in Keys : \A j \in in[k] : raw[j] # "none"
  <2>1. SUFFICES ASSUME NEW k \in Keys, NEW j \in in[k], raw[j] = "none"
                 PROVE  FALSE
    OBVIOUS
  <2>2. j \in Jobs /\ k \in Sets(j)
    BY <1>1 DEF Sets
  <2>3. Sets(j) = {}
    BY <2>1, <2>2, <1>1 DEF Placed, Home
  <2> QED
    BY <2>2, <2>3
<1> QED
  BY <1>1, <1>2, <1>3 DEF IInv, Typed, CallType, GotType, Listing, TypeOK, Raws

\* Every variable has its type: a job is in one of the sets, or is a failure being
\* recorded, its hash goes with the sets, and no more completed jobs are kept than asked for.
THEOREM TypeCorrect == Spec => []TypeOK
BY Inductive, TypesFollow, PTL

-----------------------------------------------------------------------------
(* The lists of a call. *)

LEMMA ConcatSet ==
  ASSUME NEW X, NEW s \in Seq(X), NEW t \in Seq(X)
  PROVE  s \o t \in Seq(X) /\ ToSet(s \o t) = ToSet(s) \cup ToSet(t)
<1> DEFINE u == s \o t
<1>1. /\ u \in Seq(X) /\ Len(u) = Len(s) + Len(t) /\ Len(s) \in Nat /\ Len(t) \in Nat
      /\ \A i \in 1..Len(s) + Len(t) : u[i] = IF i <= Len(s) THEN s[i] ELSE t[i - Len(s)]
  BY ConcatProperties, LenProperties
<1> HIDE DEF u
<1>2. /\ ToSet(s) = {s[i] : i \in 1..Len(s)} /\ ToSet(t) = {t[i] : i \in 1..Len(t)}
      /\ ToSet(u) = {u[i] : i \in 1..Len(u)}
  BY <1>1, Members
<1>3. \A i \in 1..Len(u) : u[i] \in ToSet(s) \cup ToSet(t)
  <2>1. SUFFICES ASSUME NEW i \in 1..Len(u) PROVE u[i] \in ToSet(s) \cup ToSet(t)
    OBVIOUS
  <2>2. CASE i <= Len(s)
    <3>1. i \in 1..Len(s) /\ u[i] = s[i]
      BY <2>2, <1>1
    <3> QED
      BY <3>1, <1>2
  <2>3. CASE ~(i <= Len(s))
    <3>1. i - Len(s) \in 1..Len(t) /\ u[i] = t[i - Len(s)]
      BY <2>3, <1>1
    <3> QED
      BY <3>1, <1>2
  <2> QED
    BY <2>2, <2>3
<1>4. \A i \in 1..Len(s) : i \in 1..Len(u) /\ u[i] = s[i]
  BY <1>1
<1>5. \A i \in 1..Len(t) : i + Len(s) \in 1..Len(u) /\ u[i + Len(s)] = t[i]
  <2>1. SUFFICES ASSUME NEW i \in 1..Len(t)
                 PROVE  i + Len(s) \in 1..Len(u) /\ u[i + Len(s)] = t[i]
    OBVIOUS
  <2>2. /\ i + Len(s) \in 1..Len(s) + Len(t) /\ ~(i + Len(s) <= Len(s))
        /\ i + Len(s) - Len(s) = i
    BY <1>1
  <2> QED
    BY <2>2, <1>1
<1>6. ToSet(s) \cup ToSet(t) \subseteq ToSet(u)
  BY <1>2, <1>4, <1>5
<1>7. ToSet(u) = ToSet(s) \cup ToSet(t)
  BY <1>2, <1>3, <1>6
<1> QED
  BY <1>1, <1>7 DEF u

\* What was read of a set: some of it, and all when it is no larger than the limit.
LEMMA EntriesAre ==
  ASSUME Typed, NEW key \in Keys
  PROVE  /\ Entries(key) \in Seq(Jobs) /\ Distinct(Entries(key))
         /\ key \notin Asked => ToSet(Entries(key)) = {}
         /\ ToSet(Entries(key)) \subseteq got.sets[key]
         /\ key \in Asked /\ key = "group" => ToSet(Entries(key)) = Heads(got.sets[key])
         /\ key \in Asked /\ key # "group" /\ Count(key) <= call.limit
              => ToSet(Entries(key)) = got.sets[key]
         /\ key \in Asked /\ key # "group" /\ Count(key) > call.limit /\ call.limit > 0
              => Cardinality(ToSet(Entries(key))) = call.limit
<1> DEFINE S == got.sets[key]
           list == IF key \in {"completed", "failed"} THEN Descending(S) ELSE Ascending(S)
           limit == call.limit
<1>1. S \in SUBSET Jobs /\ limit \in Int
  BY DEF Typed, CallType, GotType
<1>2. S \in SUBSET Nat /\ IsFiniteSet(S) /\ Cardinality(S) \in Nat
  BY <1>1, Constants, FS_Subset, FS_CardinalityType
<1>3. /\ list \in Seq(S) /\ Len(list) = Cardinality(S) /\ ToSet(list) = S
      /\ Distinct(list)
  <2> HIDE DEF S
  <2>1. CASE key \in {"completed", "failed"}
    BY <2>1, <1>2, DescendingIs
  <2>2. CASE key \notin {"completed", "failed"}
    BY <2>2, <1>2, AscendingIs
  <2> QED
    BY <2>1, <2>2
<1>4. CASE key \notin Asked
  <2>1. Entries(key) = <<>>
    BY <1>4 DEF Entries
  <2>2. <<>> \in Seq(Jobs) /\ DOMAIN <<>> = {}
    OBVIOUS
  <2> QED
    BY <1>4, <2>1, <2>2 DEF ToSet, Distinct
<1>6. CASE key \in Asked /\ key = "group"
  <2> DEFINE H == Heads(S)
  <2>1. Entries(key) = Ascending(H)
    BY <1>6 DEF Entries
  <2>2. H \in SUBSET S
    BY DEF Heads
  <2> HIDE DEF S, H
  <2>3. H \in SUBSET Nat /\ IsFiniteSet(H) /\ H \in SUBSET Jobs
    BY <2>2, <1>1, <1>2, FS_Subset
  <2>4. /\ Ascending(H) \in Seq(H) /\ ToSet(Ascending(H)) = H
        /\ Distinct(Ascending(H))
    BY <2>3, AscendingIs
  <2>5. Ascending(H) \in Seq(Jobs)
    BY <2>3, <2>4, SeqMonotonic
  <2> QED
    BY <1>6, <2>1, <2>2, <2>4, <2>5 DEF S, H
<1>5. CASE key \in Asked /\ key # "group"
  <2>1. Entries(key) = First(list, limit)
    BY <1>5 DEF Entries
  <2> DEFINE e == Entries(key)
  <2> HIDE DEF list, S, limit
  <2>2. /\ e \in Seq(S) /\ Len(e) = (IF limit >= Len(list) THEN Len(list)
                                     ELSE IF limit > 0 THEN limit ELSE 0)
        /\ \A i \in 1..Len(e) : i \in 1..Len(list) /\ e[i] = list[i]
    BY <2>1, <1>1, <1>3, FirstIs
  <2>3. Distinct(e) /\ ToSet(e) \subseteq S
    BY <2>1, <1>1, <1>3, FirstDistinct
  <2> HIDE DEF e
  <2>4. e \in Seq(Jobs)
    BY <2>2, <1>1, SeqMonotonic
  <2>5. Cardinality(ToSet(e)) = Len(e)
    BY <2>2, <2>3, DistinctSize
  <2>6. Cardinality(S) <= limit => ToSet(e) = S
    <3>1. SUFFICES ASSUME Cardinality(S) <= limit PROVE ToSet(e) = S
      OBVIOUS
    <3>2. Cardinality(ToSet(e)) = Cardinality(S)
      BY <3>1, <2>2, <2>5, <1>1, <1>2, <1>3
    <3> QED
      BY <3>2, <2>3, <1>2, FS_Subset
  <2>7. Cardinality(S) > limit /\ limit > 0 => Cardinality(ToSet(e)) = limit
    BY <2>2, <2>5, <1>1, <1>2, <1>3
  <2> QED
    BY <1>5, <2>3, <2>4, <2>6, <2>7 DEF e, S, limit, Count
<1> QED
  BY <1>4, <1>5, <1>6

\* The jobs a list knows of, and the list of them without repetitions.
Found == UNION {ToSet(Entries(key)) : key \in Keys}
AllIds == Unique(Entries("processing") \o Entries("delayed") \o Entries("completed")
                 \o Entries("failed") \o Entries("group"))

LEMMA AllIdsAre ==
  ASSUME Typed
  PROVE  /\ AllIds \in Seq(Jobs) /\ Distinct(AllIds) /\ ToSet(AllIds) = Found
         /\ Len(AllIds) = Cardinality(Found) /\ Found \subseteq Jobs
<1> DEFINE p == Entries("processing")
           d == Entries("delayed")
           c == Entries("completed")
           e == Entries("failed")
           g == Entries("group")
           pd == p \o d
           pdc == pd \o c
           pdce == pdc \o e
           all == pdce \o g
<1>1. p \in Seq(Jobs) /\ d \in Seq(Jobs) /\ c \in Seq(Jobs) /\ e \in Seq(Jobs) /\ g \in Seq(Jobs)
  BY EntriesAre DEF Keys
<1>2. Found = ToSet(p) \cup ToSet(d) \cup ToSet(c) \cup ToSet(e) \cup ToSet(g)
  BY DEF Found, Keys
<1>3. AllIds = Unique(all)
  BY DEF AllIds
<1> HIDE DEF p, d, c, e, g
<1>4. pd \in Seq(Jobs) /\ ToSet(pd) = ToSet(p) \cup ToSet(d)
  BY <1>1, ConcatSet
<1> HIDE DEF pd
<1>5. pdc \in Seq(Jobs) /\ ToSet(pdc) = ToSet(pd) \cup ToSet(c)
  BY <1>1, <1>4, ConcatSet
<1> HIDE DEF pdc
<1>6. pdce \in Seq(Jobs) /\ ToSet(pdce) = ToSet(pdc) \cup ToSet(e)
  BY <1>1, <1>5, ConcatSet
<1> HIDE DEF pdce
<1>7. all \in Seq(Jobs) /\ ToSet(all) = ToSet(pdce) \cup ToSet(g)
  BY <1>1, <1>6, ConcatSet
<1> HIDE DEF all
<1>8. ToSet(all) = Found
  BY <1>2, <1>4, <1>5, <1>6, <1>7
<1> QED
  BY <1>3, <1>7, <1>8, UniqueIs, Members

\* The page of it.
LEMMA PageIs ==
  ASSUME Typed
  PROVE  /\ PageIds \in Seq(Jobs) /\ Distinct(PageIds) /\ ToSet(PageIds) \subseteq Found
         /\ call.page[1] = 0 /\ call.page[2] < 0 => ToSet(PageIds) = Found
         /\ call.page[2] >= 0 =>
              LET last == IF Cardinality(Found) < call.page[2] + 1 THEN Cardinality(Found)
                          ELSE call.page[2] + 1
              IN  Len(PageIds) = (IF last < call.page[1] THEN 0 ELSE last - call.page[1])
<1> DEFINE start == call.page[1]
           end   == call.page[2]
           page  == IF end >= 0 THEN First(AllIds, end + 1) ELSE AllIds
<1>1. start \in Nat /\ end \in Int
  BY DEF Typed, CallType
<1>2. /\ AllIds \in Seq(Jobs) /\ Distinct(AllIds) /\ ToSet(AllIds) = Found
      /\ Len(AllIds) = Cardinality(Found) /\ Len(AllIds) \in Nat
  BY AllIdsAre, LenProperties
<1>3. PageIds = SubSeq(page, start + 1, Len(page))
  BY DEF PageIds, AllIds
<1> HIDE DEF start, end
<1>4. /\ page \in Seq(Jobs) /\ Distinct(page) /\ ToSet(page) \subseteq Found
      /\ end < 0 => page = AllIds
      /\ end >= 0 => Len(page) = (IF Cardinality(Found) < end + 1 THEN Cardinality(Found)
                                 ELSE end + 1)
  <2>1. CASE end < 0
    BY <2>1, <1>1, <1>2
  <2>2. CASE end >= 0
    <3>1. page = First(AllIds, end + 1) /\ end + 1 \in Int /\ end + 1 > 0
      BY <2>2, <1>1
    <3>2. /\ page \in Seq(Jobs)
          /\ Len(page) = (IF end + 1 >= Len(AllIds) THEN Len(AllIds)
                         ELSE IF end + 1 > 0 THEN end + 1 ELSE 0)
      BY <3>1, <1>2, FirstIs
    <3>3. Distinct(page) /\ ToSet(page) \subseteq Found
      BY <3>1, <1>2, FirstDistinct
    <3> HIDE DEF page
    <3> QED
      BY <2>2, <3>1, <3>2, <3>3, <1>1, <1>2
  <2> QED
    BY <2>1, <2>2, <1>1
<1> HIDE DEF page
<1>5. /\ Len(page) \in Nat /\ DOMAIN page = 1..Len(page)
      /\ ToSet(page) = {page[i] : i \in 1..Len(page)}
  BY <1>4, Members
<1>6. /\ PageIds \in Seq(Jobs)
      /\ Len(PageIds) = (IF start + 1 <= Len(page) THEN Len(page) - (start + 1) + 1 ELSE 0)
      /\ \A i \in 1..Len(page) - (start + 1) + 1 : PageIds[i] = page[start + 1 + i - 1]
  <2>1. \A i \in start + 1..Len(page) : page[i] \in Jobs
    BY <1>1, <1>4, <1>5, ElementOfSeq
  <2>2. start + 1 \in Int /\ Len(page) \in Int
    BY <1>1, <1>5
  <2> QED
    BY <1>3, <2>1, <2>2, SubSeqProperties
<1>7. /\ DOMAIN PageIds = 1..Len(PageIds) /\ Len(PageIds) \in Nat
      /\ ToSet(PageIds) = {PageIds[i] : i \in 1..Len(PageIds)}
  BY <1>6, Members
<1>8. \A i \in 1..Len(PageIds) : start + i \in 1..Len(page) /\ PageIds[i] = page[start + i]
  <2>1. SUFFICES ASSUME NEW i \in 1..Len(PageIds)
                 PROVE  start + i \in 1..Len(page) /\ PageIds[i] = page[start + i]
    OBVIOUS
  <2>2. start \in Nat /\ Len(page) \in Nat /\ Len(PageIds) \in Nat
    BY <1>1, <1>5, <1>7
  <2>3. i \in Nat /\ 1 <= i /\ i <= Len(PageIds) /\ start + 1 <= Len(page)
    BY <2>1, <2>2, <1>6
  <2>4. /\ i \in 1..Len(page) - (start + 1) + 1 /\ start + 1 + i - 1 = start + i
        /\ start + i \in 1..Len(page)
    BY <2>2, <2>3, <1>6
  <2> QED
    BY <2>4, <1>6
<1>9. Distinct(PageIds)
  <2>1. SUFFICES ASSUME NEW m \in 1..Len(PageIds), NEW n \in 1..Len(PageIds),
                        PageIds[m] = PageIds[n]
                 PROVE  m = n
    BY <1>7 DEF Distinct
  <2>2. /\ start + m \in DOMAIN page /\ start + n \in DOMAIN page
        /\ page[start + m] = page[start + n]
    BY <2>1, <1>5, <1>8
  <2>3. start + m = start + n
    BY <2>2, <1>4 DEF Distinct
  <2>4. m \in Int /\ n \in Int
    BY <1>6
  <2> QED
    BY <2>3, <2>4, <1>1
<1>10. ToSet(PageIds) \subseteq Found
  BY <1>4, <1>5, <1>7, <1>8
<1>11. start = 0 => PageIds = page
  BY <1>3, <1>4, SubSeqFull
<1>12. end >= 0 => Len(PageIds) = (IF Len(page) < start THEN 0 ELSE Len(page) - start)
  <2>1. start \in Nat /\ Len(page) \in Nat
    BY <1>1, <1>5
  <2>2. Len(PageIds) = (IF start + 1 <= Len(page) THEN Len(page) - (start + 1) + 1 ELSE 0)
    BY <1>6
  <2> DEFINE n == Len(page)
  <2> HIDE DEF n
  <2>3. n \in Nat /\ Len(PageIds) = (IF start + 1 <= n THEN n - (start + 1) + 1 ELSE 0)
    BY <2>1, <2>2 DEF n
  <2>4. Len(PageIds) = (IF n < start THEN 0 ELSE n - start)
    BY <2>1, <2>3
  <2> QED
    BY <2>4 DEF n
<1> QED
  BY <1>2, <1>4, <1>6, <1>9, <1>10, <1>11, <1>12 DEF start, end

\* A finite set as a list.
LEMMA SetToSeqIs ==
  ASSUME NEW S, IsFiniteSet(S)
  PROVE  SetToSeq(S) \in Seq(S) /\ Distinct(SetToSeq(S))
<1> DEFINE list == SetToSeq(S)
<1>1. Cardinality(S) \in Nat /\ ExistsBijection(1..Cardinality(S), S)
  BY FS_CardinalityType
<1>2. \E f \in [1..Cardinality(S) -> S] : IsInjective(f)
  BY <1>1 DEF ExistsBijection, Bijection, Injection
<1>3. list \in [1..Cardinality(S) -> S] /\ IsInjective(list)
  BY <1>2 DEF SetToSeq
<1> HIDE DEF list
<1>4. list \in Seq(S)
  BY <1>1, <1>3, IsList
<1>5. Distinct(list)
  BY <1>3 DEF Distinct, IsInjective
<1> QED
  BY <1>4, <1>5 DEF list

\* The jobs that a list shows: those of the page, and those that have a hash unless it is
\* a list of rows.
Shown ==
  IF call.op \in {"jobs", "ended"}
  THEN Only(PageIds, {n \in DOMAIN PageIds : got.raw[PageIds[n]] # "none"})
  ELSE PageIds

LEMMA ShownAre ==
  ASSUME Typed, call.op \in {"jobs", "ended", "rows"}
  PROVE  /\ Shown \in Seq(Jobs) /\ Distinct(Shown)
         /\ ToSet(Shown) \subseteq ToSet(PageIds)
         /\ \A j \in ToSet(PageIds) :
              call.op = "rows" \/ got.raw[j] # "none" => j \in ToSet(Shown)
         /\ (\A j \in Found : got.raw[j] # "none") => Len(Shown) = Len(PageIds)
<1> DEFINE P == {n \in DOMAIN PageIds : got.raw[PageIds[n]] # "none"}
<1>1. PageIds \in Seq(Jobs) /\ Distinct(PageIds) /\ ToSet(PageIds) \subseteq Found
  BY PageIs
<1>2. /\ DOMAIN PageIds = 1..Len(PageIds) /\ Len(PageIds) \in Nat
      /\ ToSet(PageIds) = {PageIds[n] : n \in 1..Len(PageIds)}
  BY <1>1, Members
<1>3. CASE call.op = "rows"
  <2>1. Shown = PageIds
    BY <1>3 DEF Shown
  <2> QED
    BY <2>1, <1>1
<1>4. CASE call.op \in {"jobs", "ended"}
  <2>1. Shown = Only(PageIds, P) /\ P \in SUBSET (1..Len(PageIds))
    BY <1>2, <1>4 DEF Shown
  <2>2. \A n \in 1..Len(PageIds) : n \in P <=> got.raw[PageIds[n]] # "none"
    BY <1>2
  <2> HIDE DEF P
  <2>3. /\ Shown \in Seq(Jobs) /\ Len(Shown) = Cardinality(P)
        /\ ToSet(Shown) = {PageIds[n] : n \in P}
    BY <2>1, <1>1, OnlyIs
  <2>4. \A m, n \in P : PageIds[m] = PageIds[n] => m = n
    BY <2>1, <1>1, <1>2 DEF Distinct
  <2>5. Distinct(Shown)
    BY <2>1, <2>4, <1>1, OnlyDistinct
  <2>6. \A j \in ToSet(PageIds) : got.raw[j] # "none" => j \in ToSet(Shown)
    BY <2>2, <2>3, <1>2
  <2>7. ToSet(Shown) \subseteq ToSet(PageIds)
    BY <2>1, <2>3, <1>2
  <2>8. (\A j \in Found : got.raw[j] # "none") => Len(Shown) = Len(PageIds)
    <3>1. SUFFICES ASSUME \A j \in Found : got.raw[j] # "none"
                   PROVE  Len(Shown) = Len(PageIds)
      OBVIOUS
    <3>2. P = 1..Len(PageIds)
      BY <3>1, <2>1, <2>2, <1>1, <1>2
    <3>3. \A n \in Nat : Cardinality(1..n) = n
      BY FS_Interval
    <3> QED
      BY <3>2, <3>3, <1>2, <2>3
  <2> QED
    BY <2>3, <2>5, <2>6, <2>7, <2>8, <1>4
<1> QED
  BY <1>3, <1>4

\* A list answers each of these with its known status.
LEMMA ListAnswer ==
  ASSUME Typed, call.op \in {"jobs", "ended", "rows"}
  PROVE  /\ DOMAIN Answer = 1..Len(Shown) /\ Len(Answer) = Len(Shown)
         /\ \A n \in 1..Len(Shown) : Answer[n] = <<Shown[n], KnownStatus(Shown[n])>>
<1> DEFINE rows == [n \in DOMAIN Shown |-> <<Shown[n], KnownStatus(Shown[n])>>]
           all  == {<<Shown[n], KnownStatus(Shown[n])>> : n \in DOMAIN Shown}
<1>1. Answer = rows
  <2>1. CASE call.op \in {"jobs", "ended"}
    BY <2>1 DEF Answer, Shown
  <2>2. CASE call.op = "rows"
    BY <2>2 DEF Answer, Shown
  <2> QED
    BY <2>1, <2>2
<1>2. DOMAIN Shown = 1..Len(Shown) /\ Len(Shown) \in Nat
  BY ShownAre, Members
<1>3. /\ DOMAIN rows = 1..Len(Shown)
      /\ \A n \in 1..Len(Shown) : rows[n] = <<Shown[n], KnownStatus(Shown[n])>>
  BY <1>2
<1>4. rows \in [1..Len(Shown) -> all]
  BY <1>2
<1> HIDE DEF rows, all
<1>5. Len(rows) = Len(Shown)
  BY <1>2, <1>4, IsList
<1> QED
  BY <1>1, <1>3, <1>5

\* The known status of a job that was found is that of a set it was found in.
LEMMA KnownIs ==
  ASSUME Typed, NEW j \in Found
  PROVE  \E key \in Asked : j \in got.sets[key] /\ KnownStatus(j) = StatusOf(key)
<1> DEFINE Here(n) == j \in ToSet(Entries(ListOrder[n]))
           IsLast(n) == Here(n) /\ \A m \in n + 1..Len(ListOrder) : ~Here(m)
           last == CHOOSE n \in 1..Len(ListOrder) : IsLast(n)
<1>1. Len(ListOrder) = 6 /\ \A key \in Keys : \E n \in 1..6 : ListOrder[n] = key
  BY TodoLists
<1>2. KnownStatus(j) = StatusOf(ListOrder[last])
  BY DEF KnownStatus
<1>3. PICK key \in Keys : j \in ToSet(Entries(key))
  BY DEF Found
<1>4. \E n \in 1..6 : Here(n)
  BY <1>1, <1>3
<1> HIDE DEF Here
<1>5. \E n \in 1..6 : Here(n) /\ \A m \in n + 1..6 : ~Here(m)
  <2> DEFINE H == {6 - n : n \in {m \in 1..6 : Here(m)}}
  <2>1. H \in SUBSET Nat /\ H # {}
    BY <1>4
  <2>2. \A n \in 1..6 : Here(n) => 6 - n \in H
    OBVIOUS
  <2>3. \A k \in H : 6 - k \in 1..6 /\ Here(6 - k)
    OBVIOUS
  <2> HIDE DEF H
  <2>4. PICK k \in H : \A i \in H : k <= i
    BY <2>1, Lowest
  <2>5. \A m \in 6 - k + 1..6 : ~Here(m)
    <3>1. SUFFICES ASSUME NEW m \in 6 - k + 1..6, Here(m) PROVE FALSE
      OBVIOUS
    <3>2. k \in Nat /\ m \in Int /\ 6 - k + 1 <= m /\ m <= 6 /\ m \in 1..6
      BY <3>1, <2>1, <2>3
    <3>3. k <= 6 - m
      BY <3>1, <3>2, <2>2, <2>4
    <3> QED
      BY <3>2, <3>3
  <2> QED
    BY <2>3, <2>4, <2>5
<1>6. \E n \in 1..Len(ListOrder) : IsLast(n)
  BY <1>1, <1>5
<1> HIDE DEF IsLast
<1>7. last \in 1..Len(ListOrder) /\ IsLast(last)
  BY <1>6
<1> HIDE DEF last
<1> DEFINE known == ListOrder[last]
<1>8. j \in ToSet(Entries(known))
  BY <1>7 DEF IsLast, Here
<1>9. known \in Asked /\ known \in Keys
  <2>1. known \in Asked
    <3>1. SUFFICES ASSUME known \notin Asked PROVE FALSE
      OBVIOUS
    <3>2. Entries(known) = <<>>
      BY <3>1 DEF Entries
    <3>3. ToSet(<<>>) = {}
      BY DEF ToSet
    <3> QED
      BY <3>2, <3>3, <1>8
  <2> QED
    BY <2>1 DEF Asked, Typed, CallType
<1> HIDE DEF known
<1>10. j \in got.sets[known]
  BY <1>8, <1>9, EntriesAre
<1> QED
  BY <1>2, <1>9, <1>10 DEF known

-----------------------------------------------------------------------------
(* What a finished call has read. *)

\* All the sets it wanted.
LEMMA AllRead ==
  ASSUME Finished
  PROVE  HasRead = Wanted
<1>1. ToSet(call.todo) = {}
  BY DEF Finished, ToSet
<1> QED
  BY <1>1 DEF HasRead

\* What a hash says, as coerceStatus() understands it, is so or is not known.
LEMMA CoerceTrue ==
  ASSUME NEW s \in Raws
  PROVE  Coerce(s) = Told(s) \/ Coerce(s) = "unknown"
BY StatusOfKeys DEF Coerce, Told, Raws

\* A row of a list, of getFlowChildren() or of getJob() is true.
LEMMA RowsTrue ==
  ASSUME IInv, Finished, NEW row \in ToSet(Answer)
  PROVE  row[2] \in seen[row[1]] \cup {"unknown"}
<1>1. /\ call \in CallType
      /\ call.op \in {"job", "jobs", "ended", "counts", "rows", "children"}
      /\ got \in GotType
      /\ call.op = "job" => call.job \in Jobs
  BY DEF IInv, Typed, CallType, Finished
<1>2. \A j \in Jobs :
        /\ got.raw[j] \in Raws /\ Told(got.raw[j]) \in seen[j]
        /\ \A key \in Keys : j \in got.sets[key] => StatusOf(key) \in seen[j]
  BY <1>1 DEF IInv, ReadWasTrue, Finished, GotType
<1>3. \A j \in Jobs : HashStatus(j) \in seen[j] \cup {"unknown"}
  BY <1>2, CoerceTrue DEF HashStatus
<1>4. CASE call.op = "job"
  <2> DEFINE j == call.job
  <2>1. j \in Jobs
    BY <1>1, <1>4
  <2>2. Answer = <<<<j, StoredStatus(j)>>>>
    BY <1>4 DEF Answer
  <2>3. row = <<j, StoredStatus(j)>>
    BY <2>2 DEF ToSet
  <2>4. StoredStatus(j) \in seen[j] \cup {"unknown"}
    <3>1. CASE got.raw[j] = "none"
      <4>1. StoredStatus(j) = Told(got.raw[j])
        BY <3>1 DEF StoredStatus, Told
      <4> QED
        BY <4>1, <2>1, <1>2
    <3>2. CASE got.raw[j] # "none" /\ j \in got.sets["processing"]
      BY <3>2, <2>1, <1>2, StatusOfKeys DEF StoredStatus, Keys
    <3>3. CASE /\ got.raw[j] # "none" /\ j \notin got.sets["processing"]
               /\ j \in got.sets["delayed"]
      BY <3>3, <2>1, <1>2, StatusOfKeys DEF StoredStatus, Keys
    <3>4. CASE /\ got.raw[j] # "none" /\ j \notin got.sets["processing"]
               /\ j \notin got.sets["delayed"] /\ j \in got.sets["group"]
      BY <3>4, <2>1, <1>2, StatusOfKeys DEF StoredStatus, Keys
    <3>5. CASE /\ got.raw[j] # "none" /\ j \notin got.sets["processing"]
               /\ j \notin got.sets["delayed"] /\ j \notin got.sets["group"]
      <4>1. StoredStatus(j) = HashStatus(j)
        BY <3>5 DEF StoredStatus, HashStatus
      <4> QED
        BY <4>1, <2>1, <1>3
    <3> QED
      BY <3>1, <3>2, <3>3, <3>4, <3>5
  <2> QED
    BY <2>3, <2>4
<1>5. CASE call.op \in {"jobs", "ended", "rows"}
  <2>1. PICK n \in 1..Len(Shown) : row = <<Shown[n], KnownStatus(Shown[n])>>
    BY <1>5, ListAnswer DEF IInv, ToSet
  <2>2. Shown[n] \in ToSet(Shown) /\ ToSet(Shown) \subseteq Found /\ Found \subseteq Jobs
    <3>1. /\ Shown \in Seq(Jobs) /\ ToSet(Shown) \subseteq ToSet(PageIds)
          /\ ToSet(PageIds) \subseteq Found /\ Found \subseteq Jobs
      BY <1>5, ShownAre, PageIs, AllIdsAre DEF IInv
    <3>2. ToSet(Shown) = {Shown[i] : i \in 1..Len(Shown)}
      BY <3>1, Members
    <3> QED
      BY <3>1, <3>2
  <2>3. PICK key \in Asked :
          Shown[n] \in got.sets[key] /\ KnownStatus(Shown[n]) = StatusOf(key)
    BY <2>2, KnownIs DEF IInv
  <2>4. key \in Keys
    BY <1>1 DEF CallType, Asked
  <2> QED
    BY <2>1, <2>2, <2>3, <2>4, <1>2
<1>6. CASE call.op = "children"
  <2> DEFINE there == {j \in Kids : got.raw[j] # "none"}
             list  == SetToSeq(there)
  <2>1. Answer = [n \in DOMAIN list |-> <<list[n], HashStatus(list[n])>>]
    BY <1>6 DEF Answer
  <2>2. there \in SUBSET Jobs /\ IsFiniteSet(there)
    BY Constants, FS_Subset
  <2> HIDE DEF there
  <2>3. list \in Seq(there)
    BY <2>2, SetToSeqIs
  <2> HIDE DEF list
  <2>4. PICK n \in DOMAIN list : row = <<list[n], HashStatus(list[n])>>
    BY <2>1 DEF ToSet
  <2>5. list[n] \in Jobs
    BY <2>2, <2>3, <2>4, Members, ElementOfSeq
  <2> QED
    BY <2>4, <2>5, <1>3
<1>7. CASE call.op = "counts"
  <2>1. Answer = <<>>
    BY <1>7 DEF Answer
  <2> QED
    BY <2>1 DEF ToSet
<1> QED
  BY <1>1, <1>4, <1>5, <1>6, <1>7

\* A count is between the jobs that rested in the set and those that were in it.
LEMMA CountsTrue ==
  ASSUME IInv, Finished, call.op = "counts", NEW key \in Keys
  PROVE  /\ Cardinality({j \in Jobs : seen[j] = {StatusOf(key)}}) <= Count(key)
         /\ Count(key) <= Cardinality({j \in Jobs : StatusOf(key) \in seen[j]})
<1> DEFINE rested == {j \in Jobs : seen[j] = {StatusOf(key)}}
           were   == {j \in Jobs : StatusOf(key) \in seen[j]}
           read   == got.sets[key]
<1>1. read \in SUBSET Jobs /\ key \in HasRead /\ call.op # "none"
  BY AllRead DEF IInv, Typed, GotType, Wanted, Finished
<1>2. rested \subseteq read
  BY <1>1 DEF IInv, RestingFound, Looked
<1>3. read \subseteq were
  BY <1>1 DEF IInv, ReadWasTrue
<1>4. were \in SUBSET Jobs
  OBVIOUS
<1> HIDE DEF rested, were, read
<1>5. IsFiniteSet(were) /\ IsFiniteSet(read)
  BY <1>1, <1>4, Constants, FS_Subset
<1>6. Cardinality(rested) <= Cardinality(read) /\ Cardinality(read) <= Cardinality(were)
  BY <1>2, <1>3, <1>5, FS_Subset
<1> QED
  BY <1>6 DEF rested, were, read, Count

\* What a call answers was so at some moment while it ran, for any number of jobs and
\* of scripts that move them between its reads: a status it gives is one the job had,
\* and a count is between the jobs that had the status all along and all that had it.
THEOREM AnswerWasTrueHolds == Spec => []AnswerWasTrue
<1>1. IInv => AnswerWasTrue
  BY RowsTrue, CountsTrue DEF AnswerWasTrue
<1> QED
  BY <1>1, Inductive, PTL

-----------------------------------------------------------------------------
(* A queue, or a job, at rest. *)

\* The statuses that a job had are finitely many.
LEMMA SeenFinite ==
  ASSUME Typed, NEW j \in Jobs
  PROVE  IsFiniteSet(seen[j])
<1>1. IsFiniteSet({"none"})
  BY FS_Singleton
<1>2. IsFiniteSet({"none"} \cup {"unknown"})
  BY <1>1, FS_AddElement
<1>3. IsFiniteSet({"none"} \cup {"unknown"} \cup {"active"})
  BY <1>2, FS_AddElement
<1>4. IsFiniteSet({"none"} \cup {"unknown"} \cup {"active"} \cup {"waiting"})
  BY <1>3, FS_AddElement
<1>5. IsFiniteSet({"none"} \cup {"unknown"} \cup {"active"} \cup {"waiting"}
                  \cup {"delayed"})
  BY <1>4, FS_AddElement
<1>6. IsFiniteSet({"none"} \cup {"unknown"} \cup {"active"} \cup {"waiting"}
                  \cup {"delayed"} \cup {"completed"})
  BY <1>5, FS_AddElement
<1>7. IsFiniteSet({"none"} \cup {"unknown"} \cup {"active"} \cup {"waiting"}
                  \cup {"delayed"} \cup {"completed"} \cup {"failed"})
  BY <1>6, FS_AddElement
<1>8. IsFiniteSet({"none"} \cup {"unknown"} \cup {"active"} \cup {"waiting"}
                  \cup {"delayed"} \cup {"completed"} \cup {"failed"}
                  \cup {"waiting-children"})
  BY <1>7, FS_AddElement
<1>9. seen[j] \in SUBSET ({"none"} \cup {"unknown"} \cup {"active"} \cup {"waiting"}
                          \cup {"delayed"} \cup {"completed"} \cup {"failed"}
                          \cup {"waiting-children"})
  BY StatusOfKeys DEF Typed
<1> QED
  BY <1>8, <1>9, FS_Subset

\* getJob() of a job that rests: the only status it had.
LEMMA RestingJob ==
  ASSUME IInv, Finished, call.op = "job", Cardinality(seen[call.job]) = 1
  PROVE  Answer[1][2] \in seen[call.job]
<1> DEFINE j == call.job
<1>1. /\ j \in Jobs /\ got.raw[j] \in Raws /\ Told(got.raw[j]) \in seen[j]
      /\ \A key \in Keys : j \in got.sets[key] => StatusOf(key) \in seen[j]
  BY DEF IInv, Typed, GotType, ReadWasTrue
<1>2. PICK s : seen[j] = {s}
  BY <1>1, SeenFinite, FS_Singleton DEF IInv
<1>3. Answer[1][2] = StoredStatus(j)
  BY DEF Answer
<1>4. s = "active" => j \in got.sets["processing"]
  <2>1. "processing" \in HasRead
    BY AllRead DEF Wanted
  <2>2. s = "active" => seen[j] = {StatusOf("processing")}
    BY <1>2, StatusOfKeys
  <2> QED
    BY <2>1, <2>2, <1>1 DEF IInv, RestingFound, Looked
<1>5. StoredStatus(j) = s
  <2>1. Told(got.raw[j]) = s
    BY <1>1, <1>2
  <2>2. CASE got.raw[j] = "none"
    BY <2>1, <2>2 DEF StoredStatus, Told
  <2>3. CASE got.raw[j] # "none" /\ j \in got.sets["processing"]
    BY <2>3, <1>1, <1>2, StatusOfKeys DEF StoredStatus, Keys
  <2>4. CASE /\ got.raw[j] # "none" /\ j \notin got.sets["processing"]
             /\ j \in got.sets["delayed"]
    BY <2>4, <1>1, <1>2, StatusOfKeys DEF StoredStatus, Keys
  <2>5. CASE /\ got.raw[j] # "none" /\ j \notin got.sets["processing"]
             /\ j \notin got.sets["delayed"] /\ j \in got.sets["group"]
    BY <2>5, <1>1, <1>2, StatusOfKeys DEF StoredStatus, Keys
  <2>6. CASE /\ got.raw[j] # "none" /\ j \notin got.sets["processing"]
             /\ j \notin got.sets["delayed"] /\ j \notin got.sets["group"]
    <3>1. StoredStatus(j) = Coerce(got.raw[j]) /\ got.raw[j] # "processing"
      BY <2>1, <2>6, <1>4 DEF StoredStatus, Told
    <3>2. Coerce(got.raw[j]) = Told(got.raw[j])
      BY <3>1, <2>6, <1>1, StatusOfKeys DEF Coerce, Told, Raws
    <3> QED
      BY <3>1, <3>2, <2>1
  <2> QED
    BY <2>2, <2>3, <2>4, <2>5, <2>6
<1> QED
  BY <1>2, <1>3, <1>5

\* No answer has a job twice.
LEMMA ShownOnce ==
  ASSUME IInv, Finished, NEW j \in Jobs
  PROVE  Cardinality({n \in DOMAIN Answer : Answer[n][1] = j}) <= 1
<1>1. \A m, n \in DOMAIN Answer : Answer[m][1] = Answer[n][1] => m = n
  <2>1. call.op \in {"job", "jobs", "ended", "counts", "rows", "children"}
    BY DEF IInv, Typed, CallType, Finished
  <2>2. CASE call.op = "job"
    <3>1. DOMAIN Answer = {1}
      BY <2>2 DEF Answer
    <3> QED
      BY <3>1
  <2>3. CASE call.op \in {"jobs", "ended", "rows"}
    <3>1. /\ DOMAIN Answer = 1..Len(Shown)
          /\ \A n \in 1..Len(Shown) : Answer[n][1] = Shown[n]
      BY <2>3, ListAnswer DEF IInv
    <3>2. Distinct(Shown) /\ DOMAIN Shown = 1..Len(Shown)
      BY <2>3, ShownAre, Members DEF IInv
    <3> QED
      BY <3>1, <3>2 DEF Distinct
  <2>4. CASE call.op = "children"
    <3> DEFINE there == {i \in Kids : got.raw[i] # "none"}
               list  == SetToSeq(there)
    <3>1. Answer = [n \in DOMAIN list |-> <<list[n], HashStatus(list[n])>>]
      BY <2>4 DEF Answer
    <3>2. there \in SUBSET Jobs /\ IsFiniteSet(there)
      BY Constants, FS_Subset
    <3> HIDE DEF there
    <3>3. Distinct(list)
      BY <3>2, SetToSeqIs
    <3> HIDE DEF list
    <3> QED
      BY <3>1, <3>3 DEF Distinct
  <2>5. CASE call.op = "counts"
    <3>1. DOMAIN Answer = {}
      BY <2>5 DEF Answer
    <3> QED
      BY <3>1
  <2> QED
    BY <2>1, <2>2, <2>3, <2>4, <2>5
<1> DEFINE places == {n \in DOMAIN Answer : Answer[n][1] = j}
<1>2. places = {} \/ \E n : places = {n}
  BY <1>1
<1> HIDE DEF places
<1>3. Cardinality(places) \in {0, 1}
  BY <1>2, FS_EmptySet, FS_Singleton
<1> QED
  BY <1>3 DEF places

\* A list that reads its sets to their ends shows a job that rests in one of them.
LEMMA RestingRow ==
  ASSUME IInv, Finished, call.op \in {"jobs", "ended", "rows"},
         call.page[1] = 0, call.page[2] < 0,
         \A key \in Asked \ {"group"} : Count(key) <= call.limit,
         Heads(got.sets["group"]) = got.sets["group"],
         NEW j \in Jobs, NEW k \in Asked, seen[j] = {StatusOf(k)},
         k = "group" => GroupOf[j] \in got.groups \/ Cardinality(got.groups) < Scan
  PROVE  <<j, StatusOf(k)>> \in ToSet(Answer)
<1>1. Asked \subseteq Keys /\ got.raw[j] \in Raws
  BY DEF IInv, Typed, CallType, GotType, Asked
<1>2. j \in got.sets[k]
  <2>1. k \in HasRead
    BY AllRead DEF Wanted
  <2>2. Looked(k, j)
    <3>1. SUFFICES ASSUME k = "group", call.op = "jobs" PROVE GroupOf[j] \in got.groups
      BY DEF Looked
    <3>2. seen[j] = {"waiting"} /\ "groups" \notin ToSet(call.todo)
      BY <3>1, StatusOfKeys DEF Finished, ToSet
    <3>3. GroupOf[j] \in got.groups \/ Cardinality(got.groups) >= Scan
      BY <3>1, <3>2 DEF IInv, GroupsFound
    <3>4. Cardinality(got.groups) \in Nat
      <4>1. got.groups \in SUBSET Groups
        BY DEF IInv, Typed, GotType
      <4> QED
        BY <4>1, Constants, FS_Subset, FS_CardinalityType
    <3> QED
      BY <3>1, <3>3, <3>4, Constants
  <2> QED
    BY <2>1, <2>2 DEF IInv, RestingFound, Finished
<1>3. j \in Found /\ j \in ToSet(PageIds)
  <2>1. ToSet(Entries(k)) = got.sets[k]
    BY <1>1, EntriesAre DEF IInv
  <2>2. ToSet(PageIds) = Found
    BY PageIs DEF IInv
  <2> QED
    BY <2>1, <2>2, <1>1, <1>2 DEF Found
<1>4. got.raw[j] # "none"
  <2>1. Told(got.raw[j]) = StatusOf(k)
    BY DEF IInv, ReadWasTrue, Finished
  <2>2. StatusOf(k) # "none"
    BY <1>1, StatusOfKeys DEF Keys
  <2> QED
    BY <2>1, <2>2 DEF Told
<1>5. KnownStatus(j) = StatusOf(k)
  <2>1. PICK l \in Asked : j \in got.sets[l] /\ KnownStatus(j) = StatusOf(l)
    BY <1>3, KnownIs DEF IInv
  <2>2. StatusOf(l) \in seen[j]
    BY <2>1, <1>1 DEF IInv, ReadWasTrue, Finished
  <2> QED
    BY <2>1, <2>2
<1>6. j \in ToSet(Shown) /\ ToSet(Shown) = {Shown[n] : n \in 1..Len(Shown)}
  BY <1>3, <1>4, ShownAre, Members DEF IInv
<1>7. PICK n \in 1..Len(Shown) : Shown[n] = j
  BY <1>6
<1>8. n \in DOMAIN Answer /\ Answer[n] = <<j, StatusOf(k)>>
  BY <1>5, <1>7, ListAnswer DEF IInv
<1> QED
  BY <1>8 DEF ToSet

\* A share goes on to its end.
LEMMA ShareGoesOn ==
  ASSUME Typed, NEW a \in Nat, NEW b \in Nat, a <= b, InShare(b)
  PROVE  InShare(a)
<1> DEFINE c == Cardinality(got.groups)
<1>1. c \in Nat /\ call.limit \in Int
  <2>1. got.groups \in SUBSET Groups /\ call.limit \in Int
    BY DEF Typed, GotType, CallType
  <2> QED
    BY <2>1, Constants, FS_Subset, FS_CardinalityType
<1>2. b = 0 \/ b * c < call.limit
  BY DEF InShare
<1> HIDE DEF c
<1>3. a * c <= b * c /\ a * c \in Int /\ b * c \in Int
  <2>1. PICK d \in Nat : b = a + d
    <3>1. b - a \in Nat /\ b = a + (b - a)
      OBVIOUS
    <3> QED
      BY <3>1
  <2>2. d * c \in Nat /\ a * c \in Nat /\ b * c \in Nat
    BY <1>1
  <2>3. b * c = a * c + d * c
    BY <2>1, <1>1
  <2> QED
    BY <2>2, <2>3
<1>4. a = 0 \/ a * c < call.limit
  BY <1>1, <1>2, <1>3
<1> QED
  BY <1>4 DEF InShare, c

\* When a share comes up to the end of a page and leaves out a job, it has as many jobs
\* of its group as the page needs.
LEMMA ShareFillsPage ==
  ASSUME Typed, NEW end \in Nat, InShare(end),
         NEW S, S = got.sets["group"], Heads(S) # S
  PROVE  IsFiniteSet(Heads(S)) /\ Cardinality(Heads(S)) >= end + 1
<1>1. S \in SUBSET Jobs /\ S \in SUBSET Nat /\ IsFiniteSet(S)
  <2>1. S \in SUBSET Jobs
    BY DEF Typed, GotType, Keys
  <2> QED
    BY <2>1, Constants, FS_Subset
<1>2. IsFiniteSet(Heads(S)) /\ Heads(S) \subseteq S
  BY <1>1, FS_Subset DEF Heads
<1>3. PICK j \in S : ~InShare(Cardinality(Ahead(S, j)))
  BY <1>2 DEF Heads
<1> DEFINE A == Ahead(S, j)
<1>4. A \in SUBSET S /\ A \in SUBSET Nat /\ IsFiniteSet(A) /\ Cardinality(A) \in Nat
  <2>1. A \in SUBSET S
    BY DEF Ahead
  <2> HIDE DEF A
  <2> QED
    BY <2>1, <1>1, FS_Subset, FS_CardinalityType
<1>5. Cardinality(A) >= end + 1
  <2>1. ~(Cardinality(A) <= end)
    <3> HIDE DEF A
    <3> QED
      BY <1>3, <1>4, ShareGoesOn DEF A
  <2> HIDE DEF A
  <2> QED
    BY <2>1, <1>4
<1>6. ASSUME NEW n \in 1..end + 1
      PROVE  n \in 1..Cardinality(A) /\ Nth(A, n) \in Heads(S)
  <2>1. n \in 1..Cardinality(A)
    <3> HIDE DEF A
    <3> QED
      BY <1>4, <1>5
  <2> DEFINE x == Nth(A, n)
  <2>2. x \in A /\ Cardinality({y \in A : y < x}) = n - 1
    <3> HIDE DEF A
    <3> QED
      BY <1>4, <2>1, NthIs
  <2>3. x \in S /\ GroupOf[x] = GroupOf[j] /\ x < j
    BY <2>2 DEF Ahead
  <2>4. Ahead(S, x) = {y \in A : y < x}
    <3> HIDE DEF x
    <3>1. \A y \in S : y \in Nat
      BY <1>1
    <3>2. \A y \in S : y < x => y < j
      BY <3>1, <2>3
    <3> QED
      BY <3>2, <2>3 DEF Ahead
  <2>5. InShare(n - 1)
    <3>1. n - 1 \in Nat /\ n - 1 <= end
      OBVIOUS
    <3> QED
      BY <3>1, ShareGoesOn
  <2> HIDE DEF x, A
  <2>6. x \in Heads(S)
    BY <2>2, <2>3, <2>4, <2>5 DEF Heads
  <2> QED
    BY <2>1, <2>6 DEF x
<1> DEFINE list == [n \in 1..end + 1 |-> Nth(A, n)]
<1>7. list \in Seq(Heads(S)) /\ Len(list) = end + 1
  <2>1. list \in [1..end + 1 -> Heads(S)] /\ end + 1 \in Nat
    BY <1>6
  <2> HIDE DEF list
  <2> QED
    BY <2>1, IsList
<1>8. Distinct(list)
  <2>1. \A m, n \in 1..end + 1 : m < n => Nth(A, m) < Nth(A, n)
    <3> HIDE DEF A
    <3> QED
      BY <1>4, <1>6, NthInOrder
  <2>2. \A n \in 1..end + 1 : Nth(A, n) \in Nat
    BY <1>1, <1>2, <1>6
  <2> HIDE DEF A
  <2>3. SUFFICES ASSUME NEW m \in 1..end + 1, NEW n \in 1..end + 1, list[m] = list[n]
                 PROVE  m = n
    BY DEF Distinct
  <2>4. ~(m < n) /\ ~(n < m)
    BY <2>1, <2>2, <2>3
  <2> QED
    BY <2>4
<1> HIDE DEF list
<1>9. ToSet(list) \subseteq Heads(S) /\ Cardinality(ToSet(list)) = end + 1
  BY <1>7, <1>8, Members, DistinctSize
<1>10. Cardinality(ToSet(list)) <= Cardinality(Heads(S))
  BY <1>2, <1>9, FS_Subset
<1> QED
  BY <1>2, <1>9, <1>10

\* A list of a queue at rest has found every job of the sets it was to read that is in
\* one, when it has looked into every group.
LEMMA QuietRead ==
  ASSUME IInv, Finished, call.op = "jobs", moves = 0,
         "group" \in Asked => Cardinality(groups) <= Scan,
         NEW j \in Jobs
  PROVE  /\ seen[j] = Statuses(j) /\ got.raw = raw
         /\ \A key \in Asked : j \in got.sets[key] <=> StatusOf(key) \in seen[j]
<1>1. /\ in \in [Keys -> SUBSET Jobs] /\ raw \in [Jobs -> Raws] /\ Placed /\ Listing
      /\ Typed /\ call.op # "none" /\ Asked \subseteq Keys
  BY DEF IInv, Typed, CallType, Asked
<1>2. HasRead = Asked /\ "groups" \notin ToSet(call.todo)
  BY AllRead DEF Wanted, Finished, ToSet
<1>3. /\ got.raw = raw /\ seen[j] = Statuses(j)
      /\ \A key \in Asked \ {"group"} : got.sets[key] = in[key]
      /\ "group" \in Asked => got.groups = groups
  BY <1>1, <1>2 DEF IInv, QuietSoFar
<1>4. \A key \in Keys : j \in in[key] <=> StatusOf(key) \in seen[j]
  BY <1>1, <1>3, StatusesOf
<1>5. ASSUME "group" \in Asked
      PROVE  j \in got.sets["group"] <=> StatusOf("group") \in seen[j]
  <2>1. j \in got.sets["group"] => StatusOf("group") \in seen[j]
    BY <1>1, <1>5 DEF IInv, ReadWasTrue
  <2>2. ASSUME "waiting" \in seen[j] PROVE j \in got.sets["group"]
    <3>1. GroupOf[j] \in got.groups
      BY <1>1, <1>3, <1>5, <2>2, WaitingIsListed
    <3>2. seen[j] = {StatusOf("group")}
      <4>1. Statuses(j) = {Told(raw[j])} \/ Statuses(j) = {"active", "failed"}
        BY <1>1, StatusesOf
      <4> QED
        BY <4>1, <2>2, <1>3, StatusOfKeys
    <3> QED
      BY <3>1, <3>2, <1>1, <1>2, <1>5 DEF IInv, RestingFound, Looked
  <2> QED
    BY <2>1, <2>2, StatusOfKeys
<1> QED
  BY <1>1, <1>3, <1>4, <1>5

\* A page of a queue at rest that lies inside what is read of each set is as full as it
\* can be.
LEMMA PagesFull ==
  ASSUME IInv, Finished, call.op = "jobs",
         call.page[1] <= call.page[2] - call.page[1] + 1,
         call.page[2] \in 0..Cap - 1, moves = 0,
         "group" \in Asked =>
           /\ Cardinality(groups) <= Scan
           /\ \/ Heads(got.sets["group"]) = got.sets["group"]
              \/ InShare(call.page[2]),
         NEW T, T = {j \in Jobs : seen[j] \cap {StatusOf(key) : key \in Asked} # {}}
  PROVE  LET last == IF Cardinality(T) < call.page[2] + 1 THEN Cardinality(T)
                     ELSE call.page[2] + 1
         IN  Len(Answer) = (IF last < call.page[1] THEN 0 ELSE last - call.page[1])
<1> DEFINE start == call.page[1]
           end   == call.page[2]
           limit == call.limit
           Upto(n) == IF n < end + 1 THEN n ELSE end + 1
           After(n) == IF n < start THEN 0 ELSE n - start
<1>1. /\ Asked \subseteq Keys /\ limit \in Int /\ end \in Nat /\ Typed
      /\ Cap \in Nat /\ end < Cap /\ start <= end - start + 1
  BY Constants DEF IInv, Typed, CallType, Asked
<1>2. /\ got.raw = raw
      /\ \A j \in Jobs : /\ seen[j] = Statuses(j)
                         /\ \A key \in Asked :
                              j \in got.sets[key] <=> StatusOf(key) \in seen[j]
  <2>1. got.raw = raw
    BY DEF IInv, QuietSoFar, Finished
  <2> QED
    BY <2>1, QuietRead
<1>4. \A j \in Jobs : j \in T <=> \E key \in Asked : j \in got.sets[key]
  BY <1>2
<1>5. /\ Found \subseteq Jobs
      /\ \A j \in Found : \E key \in Asked : j \in got.sets[key]
  <2>1. \A key \in Keys : /\ ToSet(Entries(key)) \subseteq got.sets[key]
                          /\ key \notin Asked => ToSet(Entries(key)) = {}
    BY <1>1, EntriesAre
  <2> QED
    BY <2>1, <1>1, AllIdsAre DEF Found
<1>6. Len(Answer) = Len(PageIds)
  <2>1. \A j \in Found : got.raw[j] # "none"
    <3>1. SUFFICES ASSUME NEW j \in Found, raw[j] = "none" PROVE FALSE
      BY <1>2
    <3>2. PICK key \in Asked : StatusOf(key) \in Statuses(j)
      BY <3>1, <1>2, <1>5
    <3>3. Statuses(j) = {"none"}
      <4>1. Statuses(j) = {Told(raw[j])}
        BY <3>1, <1>5, StatusesOf DEF IInv, Typed
      <4> QED
        BY <4>1, <3>1 DEF Told
    <3> QED
      BY <3>2, <3>3, <1>1, StatusOfKeys DEF Keys
  <2>2. Len(Shown) = Len(PageIds)
    BY <2>1, <1>1, ShownAre
  <2> QED
    BY <2>2, <1>1, ListAnswer
<1>7. Len(PageIds) = After(Upto(Cardinality(Found)))
  BY <1>1, PageIs
<1>8. Found \subseteq T /\ T \in SUBSET Jobs
  BY <1>4, <1>5
<1>9. IsFiniteSet(Found) /\ IsFiniteSet(T)
  BY <1>8, Constants, FS_Subset
<1>10. Cardinality(Found) \in Nat /\ Cardinality(T) \in Nat
  BY <1>9, FS_CardinalityType
<1>11. ASSUME NEW key \in Asked, Cardinality(ToSet(Entries(key))) > end
       PROVE  Upto(Cardinality(Found)) = Upto(Cardinality(T))
  <2>1. ToSet(Entries(key)) \subseteq Found
    BY <1>1 DEF Found
  <2>2. IsFiniteSet(ToSet(Entries(key)))
    BY <2>1, <1>9, FS_Subset
  <2>3. /\ Cardinality(ToSet(Entries(key))) <= Cardinality(Found)
        /\ Cardinality(Found) <= Cardinality(T)
        /\ Cardinality(ToSet(Entries(key))) \in Nat
    BY <2>1, <2>2, <1>8, <1>9, FS_Subset, FS_CardinalityType
  <2> QED
    BY <2>3, <1>1, <1>10, <1>11
<1>12. CASE \A key \in Asked : ToSet(Entries(key)) = got.sets[key]
  <2>1. T \subseteq Found
    BY <1>1, <1>4, <1>8, <1>12 DEF Found
  <2>2. T = Found
    BY <2>1, <1>8
  <2> QED
    BY <2>2, <1>6, <1>7
<1>13. CASE \E key \in Asked : ToSet(Entries(key)) # got.sets[key]
  <2>1. PICK key \in Asked : ToSet(Entries(key)) # got.sets[key]
    BY <1>13
  <2>2. CASE key # "group"
    <3>1. Count(key) \in Nat
      <4>1. got.sets[key] \in SUBSET Jobs
        BY <2>1, <1>1 DEF Typed, GotType
      <4> QED
        BY <4>1, Constants, FS_Subset, FS_CardinalityType DEF Count
    <3>2. limit > end
      BY <1>1 DEF IInv, PageFits
    <3>3. Count(key) > limit
      BY <2>1, <2>2, <3>1, <1>1, EntriesAre
    <3>4. Cardinality(ToSet(Entries(key))) = limit
      BY <2>1, <2>2, <3>2, <3>3, <1>1, EntriesAre
    <3> QED
      BY <3>2, <3>4, <2>1, <1>6, <1>7, <1>11
  <2>3. CASE key = "group"
    <3> DEFINE S == got.sets["group"]
    <3>1. ToSet(Entries(key)) = Heads(S) /\ Heads(S) # S
      BY <2>1, <2>3, <1>1, EntriesAre
    <3>2. InShare(end)
      BY <2>1, <2>3, <3>1
    <3> HIDE DEF S
    <3>3. IsFiniteSet(Heads(S)) /\ Cardinality(Heads(S)) >= end + 1
      BY <3>1, <3>2, <1>1, ShareFillsPage DEF S
    <3>4. Cardinality(ToSet(Entries(key))) > end
      BY <3>1, <3>3, <1>1, FS_CardinalityType
    <3> QED
      BY <3>4, <2>1, <1>6, <1>7, <1>11
  <2> QED
    BY <2>2, <2>3
<1> QED
  BY <1>12, <1>13

\* For any number of jobs and groups, whatever reads fail: no list has a job twice, a job
\* that no script touches while a call reads the sets is shown as it is if the list looked
\* into its group, and the first two pages of a queue at rest are full unless a group has
\* more waiting jobs than a share that ends inside the page.
THEOREM RestingJobsShownHolds == Spec => []RestingJobsShown
<1>1. ASSUME IInv, Finished
      PROVE  /\ call.op = "job" /\ Cardinality(seen[call.job]) = 1
                  => Answer[1][2] \in seen[call.job]
             /\ \A j \in Jobs : Cardinality({n \in DOMAIN Answer : Answer[n][1] = j}) <= 1
  BY <1>1, RestingJob, ShownOnce
<1>2. ASSUME IInv, Finished, call.op \in {"jobs", "ended", "rows"}, call.page[1] = 0,
             call.page[2] < 0, \A key \in Asked \ {"group"} : Count(key) <= call.limit,
             Heads(got.sets["group"]) = got.sets["group"],
             NEW j \in Jobs, NEW s \in {StatusOf(key) : key \in Asked}, seen[j] = {s},
             s = "waiting" => \/ GroupOf[j] \in got.groups
                              \/ Cardinality(got.groups) < Scan
      PROVE  <<j, s>> \in ToSet(Answer)
  <2>1. PICK k \in Asked : s = StatusOf(k)
    BY <1>2
  <2>2. k = "group" => s = "waiting"
    BY <2>1, StatusOfKeys
  <2> QED
    BY <1>2, <2>1, <2>2, RestingRow
<1>3. ASSUME IInv, Finished, call.op = "jobs",
             call.page[1] <= call.page[2] - call.page[1] + 1,
             call.page[2] \in 0..Cap - 1, moves = 0,
             "group" \in Asked =>
               /\ Cardinality(groups) <= Scan
               /\ \/ Heads(got.sets["group"]) = got.sets["group"]
                  \/ InShare(call.page[2])
      PROVE  LET there == Cardinality({j \in Jobs :
                            seen[j] \cap {StatusOf(key) : key \in Asked} # {}})
                 last  == IF there < call.page[2] + 1 THEN there ELSE call.page[2] + 1
             IN  Len(Answer) = (IF last < call.page[1] THEN 0 ELSE last - call.page[1])
  BY <1>3, PagesFull
<1>4. IInv => RestingJobsShown
  BY <1>1, <1>2, <1>3 DEF RestingJobsShown
<1> QED
  BY <1>4, Inductive, PTL

=============================================================================
