------------------------------ MODULE ListFacts -------------------------------
(***************************************************************************)
(* What the list operations of the models return: deques and queues from    *)
(* which the head is taken, to which the tail is appended, and from which   *)
(* an element is removed. At the end, texts over the vocabulary and the     *)
(* automaton of their substrings.                                           *)
(***************************************************************************)
EXTENDS Integers, SequencesExt, Selections, SequenceTheorems, FiniteSetTheorems, TLAPS, Vocabulary

(* What the head and the tail of a list are. *)
LEMMA ListParts ==
  ASSUME NEW S, NEW s \in Seq(S), s # <<>>
  PROVE  /\ Head(s) \in S /\ Tail(s) \in Seq(S) /\ Head(s) = s[1] /\ 1 \in DOMAIN s
         /\ \A i \in DOMAIN Tail(s) : i + 1 \in DOMAIN s /\ Tail(s)[i] = s[i + 1]
  BY HeadTailProperties

LEMMA TailLength ==
  ASSUME NEW S, NEW s \in Seq(S), s # <<>>
  PROVE  /\ Len(s) \in Nat \ {0} /\ DOMAIN s = 1..Len(s)
         /\ Len(Tail(s)) = Len(s) - 1 /\ DOMAIN Tail(s) = 1..(Len(s) - 1)
  BY HeadTailProperties, LenProperties

LEMMA EmptyList == ASSUME NEW S PROVE <<>> \in Seq(S)
  OBVIOUS

(* No element of a list twice. *)
Distinct(s) == \A i, j \in DOMAIN s : s[i] = s[j] => i = j

(* The elements of a list. *)
Elements(s) == {s[i] : i \in DOMAIN s}

LEMMA ElementsType ==
  ASSUME NEW S, NEW s \in Seq(S)
  PROVE  Elements(s) \subseteq S
  BY ElementOfSeq, LenProperties DEF Elements

LEMMA AppendFacts ==
  ASSUME NEW S, NEW s \in Seq(S), NEW e \in S
  PROVE  /\ Append(s, e) \in Seq(S) /\ Append(s, e) # <<>>
         /\ Len(Append(s, e)) = Len(s) + 1 /\ Append(s, e)[Len(s) + 1] = e
         /\ \A i \in 1..Len(s) : Append(s, e)[i] = s[i]
         /\ Len(s) \in Nat /\ DOMAIN s = 1..Len(s)
         /\ DOMAIN Append(s, e) = 1..(Len(s) + 1)
         /\ Elements(Append(s, e)) = Elements(s) \cup {e}
         /\ Distinct(s) /\ e \notin Elements(s) => Distinct(Append(s, e))
<1>1. /\ Append(s, e) \in Seq(S) /\ Append(s, e) # <<>>
      /\ Len(Append(s, e)) = Len(s) + 1 /\ Append(s, e)[Len(s) + 1] = e
      /\ \A i \in 1..Len(s) : Append(s, e)[i] = s[i]
      /\ Len(s) \in Nat /\ DOMAIN s = 1..Len(s)
      /\ DOMAIN Append(s, e) = 1..(Len(s) + 1)
  BY AppendProperties, LenProperties
<1>2. Elements(Append(s, e)) = Elements(s) \cup {e}
  BY <1>1 DEF Elements
<1>3. Distinct(s) /\ e \notin Elements(s) => Distinct(Append(s, e))
  BY <1>1 DEF Elements, Distinct
<1> QED BY <1>1, <1>2, <1>3

LEMMA TailFacts ==
  ASSUME NEW S, NEW s \in Seq(S), s # <<>>
  PROVE  /\ Elements(Tail(s)) \subseteq Elements(s)
         /\ Elements(s) = Elements(Tail(s)) \cup {Head(s)}
         /\ Distinct(s) => Distinct(Tail(s)) /\ Elements(Tail(s)) = Elements(s) \ {Head(s)}
<1>1. /\ Len(s) \in Nat \ {0} /\ DOMAIN s = 1..Len(s)
      /\ DOMAIN Tail(s) = 1..(Len(s) - 1) /\ Head(s) = s[1]
      /\ \A i \in DOMAIN Tail(s) : Tail(s)[i] = s[i + 1]
  BY ListParts, TailLength
<1>2. Elements(Tail(s)) \subseteq Elements(s)
  BY <1>1 DEF Elements
<1>3. ASSUME NEW i \in DOMAIN s PROVE s[i] \in Elements(Tail(s)) \cup {Head(s)}
  <2>1. CASE i = 1 BY <1>1, <2>1
  <2>2. CASE i # 1
    <3>1. i - 1 \in DOMAIN Tail(s) /\ Tail(s)[i - 1] = s[i]
      BY <1>1, <2>2
    <3> QED BY <3>1 DEF Elements
  <2> QED BY <2>1, <2>2
<1>4. Elements(s) = Elements(Tail(s)) \cup {Head(s)}
  BY <1>1, <1>2, <1>3 DEF Elements
<1>5. ASSUME Distinct(s) PROVE Distinct(Tail(s)) /\ Head(s) \notin Elements(Tail(s))
  BY <1>1, <1>5 DEF Distinct, Elements
<1> QED BY <1>2, <1>4, <1>5

(* A list of distinct elements without one of them. *)
LEMMA RemovePlace ==
  ASSUME NEW S, NEW s \in Seq(S), Distinct(s), NEW k \in DOMAIN s
  PROVE  /\ RemoveFirst(s, s[k]) \in Seq(S)
         /\ Len(RemoveFirst(s, s[k])) = Len(s) - 1
         /\ \A i \in 1..(Len(s) - 1) :
              RemoveFirst(s, s[k])[i] = IF i < k THEN s[i] ELSE s[i + 1]
<1>1. Len(s) \in Nat /\ DOMAIN s = 1..Len(s) /\ k \in 1..Len(s)
  BY LenProperties
<1>2. RemoveFirst(s, s[k]) = RemoveAt(s, k)
  <2> DEFINE I == {i \in 1..Len(s) : s[i] = s[k]}
  <2>1. I = {k}
    BY <1>1 DEF Distinct
  <2>2. Min(I) = k
    BY <1>1, <2>1 DEF Min
  <2>3. SelectInSeq(s, LAMBDA v : v = s[k]) = k
    BY <2>1, <2>2 DEF SelectInSeq
  <2> QED BY <1>1, <2>3 DEF RemoveFirst
<1> DEFINE a == SubSeq(s, 1, k - 1)
           b == SubSeq(s, k + 1, Len(s))
<1>3. /\ a \in Seq(S) /\ Len(a) = k - 1 /\ \A i \in 1..(k - 1) : a[i] = s[i]
      /\ b \in Seq(S) /\ Len(b) = Len(s) - k /\ \A i \in 1..(Len(s) - k) : b[i] = s[i + k]
  <2>1. /\ a \in Seq(S) /\ Len(a) = k - 1 /\ \A i \in 1..(k - 1) : a[i] = s[i]
    BY <1>1, SubSeqProperties
  <2>2. /\ b \in Seq(S) /\ Len(b) = Len(s) - k /\ \A i \in 1..(Len(s) - k) : b[i] = s[i + k]
    BY <1>1, SubSeqProperties
  <2> QED BY <2>1, <2>2
<1> HIDE DEF a, b
<1>4. /\ a \o b \in Seq(S) /\ Len(a \o b) = Len(s) - 1
      /\ \A i \in 1..(Len(s) - 1) :
           (a \o b)[i] = IF i <= k - 1 THEN a[i] ELSE b[i - (k - 1)]
  <2>1. /\ a \o b \in Seq(S) /\ Len(a \o b) = Len(a) + Len(b)
        /\ \A i \in 1..(Len(a) + Len(b)) :
             (a \o b)[i] = IF i <= Len(a) THEN a[i] ELSE b[i - Len(a)]
    BY <1>3, ConcatProperties
  <2>2. Len(a) = k - 1 /\ Len(a) + Len(b) = Len(s) - 1
    BY <1>1, <1>3
  <2> QED BY <2>1, <2>2
<1>5. ASSUME NEW i \in 1..(Len(s) - 1)
      PROVE  (a \o b)[i] = IF i < k THEN s[i] ELSE s[i + 1]
  <2>1. CASE i < k
    <3>1. i \in 1..(k - 1) /\ i <= k - 1
      BY <1>1, <2>1
    <3>2. (a \o b)[i] = a[i]
      BY <1>4, <3>1
    <3> QED BY <1>3, <2>1, <3>1, <3>2
  <2>2. CASE ~(i < k)
    <3> DEFINE j == i - (k - 1)
    <3>1. j \in 1..(Len(s) - k) /\ j + k = i + 1 /\ ~(i <= k - 1)
      BY <1>1, <2>2
    <3>2. (a \o b)[i] = b[j]
      BY <1>4, <3>1
    <3> HIDE DEF j
    <3>3. b[j] = s[j + k]
      BY <1>3, <3>1
    <3> QED BY <2>2, <3>1, <3>2, <3>3
  <2> QED BY <2>1, <2>2
<1> QED BY <1>2, <1>4, <1>5 DEF a, b, RemoveAt

LEMMA RemoveAbsent ==
  ASSUME NEW S, NEW s \in Seq(S), NEW e, e \notin Elements(s)
  PROVE  RemoveFirst(s, e) = s
  BY LenProperties DEF RemoveFirst, Elements

LEMMA RemoveFacts ==
  ASSUME NEW S, NEW s \in Seq(S), Distinct(s), NEW e
  PROVE  /\ RemoveFirst(s, e) \in Seq(S) /\ Distinct(RemoveFirst(s, e))
         /\ Elements(RemoveFirst(s, e)) = Elements(s) \ {e}
         /\ s # <<>> /\ e # Head(s) =>
              RemoveFirst(s, e) # <<>> /\ Head(RemoveFirst(s, e)) = Head(s)
<1>1. CASE e \notin Elements(s)
  BY <1>1, RemoveAbsent
<1>2. ASSUME NEW k \in DOMAIN s, e = s[k]
      PROVE  /\ RemoveFirst(s, e) \in Seq(S) /\ Distinct(RemoveFirst(s, e))
             /\ Elements(RemoveFirst(s, e)) = Elements(s) \ {e}
             /\ s # <<>> /\ e # Head(s) =>
                  RemoveFirst(s, e) # <<>> /\ Head(RemoveFirst(s, e)) = Head(s)
  <2> DEFINE t == RemoveFirst(s, e)
  <2>1. /\ t \in Seq(S) /\ Len(t) = Len(s) - 1
        /\ \A i \in 1..(Len(s) - 1) : t[i] = IF i < k THEN s[i] ELSE s[i + 1]
    BY <1>2, RemovePlace
  <2> HIDE DEF t
  <2>2. /\ Len(s) \in Nat /\ DOMAIN s = 1..Len(s) /\ DOMAIN t = 1..(Len(s) - 1)
        /\ k \in 1..Len(s)
    BY <2>1, LenProperties
  <2>3. Distinct(t)
    <3>1. SUFFICES ASSUME NEW i \in DOMAIN t, NEW j \in DOMAIN t, t[i] = t[j] PROVE i = j
      BY DEF Distinct
    <3>2. \A m, n \in 1..Len(s) : s[m] = s[n] => m = n
      BY <2>2 DEF Distinct
    <3>3. i \in 1..(Len(s) - 1) /\ j \in 1..(Len(s) - 1)
      BY <2>2
    <3> DEFINE was(m) == IF m < k THEN m ELSE m + 1
    <3>4. \A m \in 1..(Len(s) - 1) : was(m) \in 1..Len(s) /\ t[m] = s[was(m)]
      BY <2>1, <2>2
    <3>5. was(i) = was(j)
      BY <3>1, <3>2, <3>3, <3>4
    <3> QED BY <2>2, <3>3, <3>5
  <2>4. ASSUME NEW i \in DOMAIN t PROVE t[i] \in Elements(s) \ {e}
    BY <1>2, <2>1, <2>2 DEF Elements, Distinct
  <2>5. ASSUME NEW i \in DOMAIN s, s[i] # e PROVE s[i] \in Elements(t)
    <3>1. CASE i < k
      <4>1. i \in DOMAIN t /\ t[i] = s[i] BY <2>1, <2>2, <3>1
      <4> QED BY <4>1 DEF Elements
    <3>2. CASE i > k
      <4>1. i - 1 \in DOMAIN t /\ t[i - 1] = s[i] BY <2>1, <2>2, <3>2
      <4> QED BY <4>1 DEF Elements
    <3> QED BY <1>2, <2>2, <2>5, <3>1, <3>2
  <2>6. Elements(t) = Elements(s) \ {e}
    BY <2>4, <2>5 DEF Elements
  <2>7. ASSUME s # <<>>, e # Head(s) PROVE t # <<>> /\ Head(t) = Head(s)
    <3>1. Head(s) = s[1] /\ k > 1
      BY <1>2, <2>2, <2>7, ListParts
    <3>2. 1 \in 1..(Len(s) - 1) /\ t[1] = s[1]
      BY <2>1, <2>2, <3>1
    <3>3. t # <<>>
      BY <2>2, <3>2
    <3> QED BY <2>1, <3>1, <3>2, <3>3, ListParts
  <2> QED BY <2>1, <2>3, <2>6, <2>7 DEF t
<1> QED BY <1>1, <1>2 DEF Elements

(***************************************************************************)
(* Selections: every rank below the cardinality of a finite set of numbers  *)
(* belongs to exactly one of them.                                          *)
(***************************************************************************)
LEMMA RankGrows ==
  ASSUME NEW S \in SUBSET Int, IsFiniteSet(S), NEW x \in S, NEW y \in S, x < y
  PROVE  /\ Cardinality(Below(S, x)) < Cardinality(Below(S, y))
         /\ Cardinality(Below(S, x)) \in Nat /\ Cardinality(Below(S, y)) < Cardinality(S)
<1>1. /\ IsFiniteSet(Below(S, x)) /\ IsFiniteSet(Below(S, y))
      /\ Cardinality(Below(S, x)) \in Nat /\ Cardinality(Below(S, y)) \in Nat
      /\ Cardinality(S) \in Nat
  <2>1. Below(S, x) \in SUBSET S /\ Below(S, y) \in SUBSET S
    BY DEF Below
  <2> QED BY <2>1, FS_Subset, FS_CardinalityType
<1>2. Cardinality(Below(S, x)) < Cardinality(Below(S, y))
  <2>1. Below(S, x) \in SUBSET Below(S, y)
    <3>1. ASSUME NEW z \in S, z < x PROVE z < y
      <4>1. x \in Int /\ y \in Int /\ z \in Int
        OBVIOUS
      <4> QED BY <3>1, <4>1
    <3> QED BY <3>1 DEF Below
  <2>2. x \in Below(S, y) /\ x \notin Below(S, x)
    BY DEF Below
  <2> QED BY <1>1, <2>1, <2>2, FS_Subset
<1>3. Cardinality(Below(S, y)) < Cardinality(S)
  <2>1. Below(S, y) \in SUBSET S /\ y \in S /\ y \notin Below(S, y)
    BY DEF Below
  <2> QED BY <1>1, <2>1, FS_Subset
<1> QED BY <1>1, <1>2, <1>3

LEMMA RankRange ==
  ASSUME NEW S \in SUBSET Int, IsFiniteSet(S), NEW x \in S
  PROVE  Cardinality(Below(S, x)) \in 0..(Cardinality(S) - 1)
<1>1. Below(S, x) \in SUBSET S /\ x \in S /\ x \notin Below(S, x)
  BY DEF Below
<1>2. Cardinality(Below(S, x)) # Cardinality(S) /\ Cardinality(Below(S, x)) <= Cardinality(S)
  BY <1>1, FS_Subset
<1> QED BY <1>1, <1>2, FS_Subset, FS_CardinalityType

LEMMA NthFacts ==
  ASSUME NEW S \in SUBSET Int, IsFiniteSet(S)
  PROVE  /\ Cardinality(S) \in Nat
         /\ \A j \in 1..Cardinality(S) :
              Nth(S, j) \in S /\ Cardinality(Below(S, Nth(S, j))) = j - 1
         /\ \A x \in S : \E j \in 1..Cardinality(S) : Nth(S, j) = x
         /\ \A i, j \in 1..Cardinality(S) : i < j <=> Nth(S, i) < Nth(S, j)
<1> DEFINE n == Cardinality(S)
           rank == [x \in S |-> Cardinality(Below(S, x))]
<1>1. n \in Nat
  BY FS_CardinalityType
<1>2. \A x, y \in S : x # y => Cardinality(Below(S, x)) # Cardinality(Below(S, y))
  <2>1. ASSUME NEW x \in S, NEW y \in S, x < y
        PROVE  Cardinality(Below(S, x)) # Cardinality(Below(S, y))
    <3>1. /\ Cardinality(Below(S, x)) < Cardinality(Below(S, y))
          /\ Cardinality(Below(S, x)) \in 0..(n - 1) /\ Cardinality(Below(S, y)) \in 0..(n - 1)
      BY <2>1, RankGrows, RankRange
    <3> QED BY <1>1, <3>1
  <2>2. \A x, y \in S : x # y => x < y \/ y < x
    OBVIOUS
  <2> QED BY <2>1, <2>2
<1>3. rank \in [S -> 0..(n - 1)]
  BY RankRange
<1>4. rank \in Injection(S, 0..(n - 1))
  BY <1>2, <1>3 DEF Injection, IsInjective
<1>5. IsFiniteSet(0..(n - 1)) /\ Cardinality(0..(n - 1)) = n
  <2>1. n - 1 \in Int /\ 0 \in Int
    BY <1>1
  <2>2. IsFiniteSet(0..(n - 1)) /\ Cardinality(0..(n - 1)) = IF 0 > n - 1 THEN 0 ELSE n - 1 - 0 + 1
    BY <2>1, FS_Interval
  <2> QED BY <1>1, <2>2
<1>6. rank \in Surjection(S, 0..(n - 1))
  BY <1>4, <1>5, FS_Injection
<1>7. \A k \in 0..(n - 1) : \E x \in S : Cardinality(Below(S, x)) = k
  BY <1>6 DEF Surjection
<1>8. \A j \in 1..n : Nth(S, j) \in S /\ Cardinality(Below(S, Nth(S, j))) = j - 1
  <2> SUFFICES ASSUME NEW j \in 1..n
               PROVE  Nth(S, j) \in S /\ Cardinality(Below(S, Nth(S, j))) = j - 1
    OBVIOUS
  <2>1. j - 1 \in 0..(n - 1)
    BY <1>1
  <2>2. \E x \in S : Cardinality(Below(S, x)) = j - 1
    BY <1>7, <2>1
  <2> QED BY <2>2 DEF Nth
<1>9. \A x \in S : \E j \in 1..n : Nth(S, j) = x
  <2> SUFFICES ASSUME NEW x \in S PROVE \E j \in 1..n : Nth(S, j) = x
    OBVIOUS
  <2>1. PICK j \in 1..n : j - 1 = Cardinality(Below(S, x))
    <3>1. Cardinality(Below(S, x)) \in 0..(n - 1)
      BY RankRange
    <3>2. Cardinality(Below(S, x)) + 1 \in 1..n
      BY <1>1, <3>1
    <3> QED BY <3>1, <3>2
  <2> QED BY <1>2, <1>8, <2>1
<1>10. ASSUME NEW i \in 1..n, NEW j \in 1..n PROVE i < j <=> Nth(S, i) < Nth(S, j)
  <2>1. /\ Nth(S, i) \in S /\ Cardinality(Below(S, Nth(S, i))) = i - 1
        /\ Nth(S, j) \in S /\ Cardinality(Below(S, Nth(S, j))) = j - 1
    BY <1>8
  <2>2. Nth(S, i) < Nth(S, j) => i - 1 < j - 1
    BY <2>1, RankGrows
  <2>3. Nth(S, j) < Nth(S, i) => j - 1 < i - 1
    BY <2>1, RankGrows
  <2>4. Nth(S, i) = Nth(S, j) => i - 1 = j - 1
    BY <2>1
  <2> DEFINE a == Nth(S, i)
             b == Nth(S, j)
  <2>5. a \in Int /\ b \in Int /\ i \in Int /\ j \in Int
    <3>1. a \in S /\ b \in S
      BY <2>1
    <3> HIDE DEF a, b
    <3>2. a \in Int /\ b \in Int
      BY <3>1
    <3> QED BY <1>1, <3>2
  <2>6. (a < b => i - 1 < j - 1) /\ (b < a => j - 1 < i - 1) /\ (a = b => i - 1 = j - 1)
    BY <2>2, <2>3, <2>4
  <2> HIDE DEF a, b
  <2>7. i < j <=> a < b
    BY <2>5, <2>6
  <2> QED BY <2>7 DEF a, b
<1> QED BY <1>1, <1>8, <1>9, <1>10

LEMMA InOrderFacts ==
  ASSUME NEW S \in SUBSET Int, IsFiniteSet(S)
  PROVE  /\ InOrder(S) \in Seq(S) /\ Len(InOrder(S)) = Cardinality(S)
         /\ Elements(InOrder(S)) = S /\ Distinct(InOrder(S))
<1>1. /\ Cardinality(S) \in Nat
      /\ \A j \in 1..Cardinality(S) : Nth(S, j) \in S
      /\ \A x \in S : \E j \in 1..Cardinality(S) : Nth(S, j) = x
      /\ \A i, j \in 1..Cardinality(S) : i < j <=> Nth(S, i) < Nth(S, j)
  BY NthFacts
<1>2. /\ InOrder(S) \in Seq(S) /\ Len(InOrder(S)) = Cardinality(S)
      /\ DOMAIN InOrder(S) = 1..Cardinality(S)
      /\ \A j \in 1..Cardinality(S) : InOrder(S)[j] = Nth(S, j)
  BY <1>1 DEF InOrder
<1>3. Elements(InOrder(S)) = S
  <2>1. ASSUME NEW x \in Elements(InOrder(S)) PROVE x \in S
    BY <1>1, <1>2, <2>1 DEF Elements
  <2>2. ASSUME NEW x \in S PROVE x \in Elements(InOrder(S))
    <3>1. PICK j \in 1..Cardinality(S) : Nth(S, j) = x
      BY <1>1
    <3> QED BY <1>2, <3>1 DEF Elements
  <2> QED BY <2>1, <2>2
<1>4. Distinct(InOrder(S))
  <2> SUFFICES ASSUME NEW i \in 1..Cardinality(S), NEW j \in 1..Cardinality(S),
                      Nth(S, i) = Nth(S, j)
               PROVE  i = j
    BY <1>2 DEF Distinct
  <2> DEFINE a == Nth(S, i)
  <2>1. a \in S /\ (i < j <=> a < Nth(S, j)) /\ (j < i <=> Nth(S, j) < a) /\ Nth(S, j) = a
    BY <1>1
  <2> HIDE DEF a
  <2>2. a \in Int /\ i \in Int /\ j \in Int
    BY <1>1, <2>1
  <2> QED BY <2>1, <2>2
<1> QED BY <1>2, <1>3, <1>4

(* Places of a list in order: nothing twice, nothing more, nothing less. *)
LEMMA SelectionFacts ==
  ASSUME NEW T, NEW s \in Seq(T), NEW S \in SUBSET DOMAIN s
  PROVE  /\ Selection(s, S) \in Seq(T) /\ Len(Selection(s, S)) = Cardinality(S)
         /\ Cardinality(S) \in Nat /\ DOMAIN Selection(s, S) = 1..Cardinality(S)
         /\ \A j \in 1..Cardinality(S) : Nth(S, j) \in S /\ Selection(s, S)[j] = s[Nth(S, j)]
         /\ \A i \in S : \E j \in 1..Cardinality(S) : Nth(S, j) = i
         /\ \A i, j \in 1..Cardinality(S) : i < j <=> Nth(S, i) < Nth(S, j)
         /\ Distinct(s) => Distinct(Selection(s, S))
<1>1. Len(s) \in Nat /\ DOMAIN s = 1..Len(s) /\ \A i \in DOMAIN s : s[i] \in T
  BY LenProperties, ElementOfSeq
<1>2. S \in SUBSET Int /\ IsFiniteSet(S)
  <2>1. IsFiniteSet(1..Len(s))
    BY <1>1, FS_Interval
  <2> QED BY <1>1, <2>1, FS_Subset
<1>3. /\ Cardinality(S) \in Nat
      /\ \A j \in 1..Cardinality(S) : Nth(S, j) \in S
      /\ \A x \in S : \E j \in 1..Cardinality(S) : Nth(S, j) = x
      /\ \A i, j \in 1..Cardinality(S) : i < j <=> Nth(S, i) < Nth(S, j)
  BY <1>2, NthFacts
<1>4. /\ Selection(s, S) \in Seq(T) /\ Len(Selection(s, S)) = Cardinality(S)
      /\ DOMAIN Selection(s, S) = 1..Cardinality(S)
      /\ \A j \in 1..Cardinality(S) : Selection(s, S)[j] = s[Nth(S, j)]
  BY <1>1, <1>3 DEF Selection
<1>5. Distinct(s) => Distinct(Selection(s, S))
  <2> SUFFICES ASSUME Distinct(s), NEW i \in 1..Cardinality(S), NEW j \in 1..Cardinality(S),
                      s[Nth(S, i)] = s[Nth(S, j)]
               PROVE  i = j
    BY <1>4 DEF Distinct
  <2>1. Nth(S, i) = Nth(S, j)
    BY <1>3 DEF Distinct
  <2> QED BY <1>2, <1>3, <2>1
<1> QED BY <1>3, <1>4, <1>5

LEMMA SelectionElements ==
  ASSUME NEW T, NEW s \in Seq(T), NEW S \in SUBSET DOMAIN s
  PROVE  Elements(Selection(s, S)) = {s[i] : i \in S}
<1> DEFINE t == Selection(s, S)
<1>1. /\ DOMAIN t = 1..Cardinality(S)
      /\ \A j \in 1..Cardinality(S) : Nth(S, j) \in S /\ t[j] = s[Nth(S, j)]
      /\ \A i \in S : \E j \in 1..Cardinality(S) : Nth(S, j) = i
  BY SelectionFacts
<1> HIDE DEF t
<1>2. Elements(t) \subseteq {s[i] : i \in S}
  BY <1>1 DEF Elements
<1>3. \A i \in S : s[i] \in Elements(t)
  BY <1>1 DEF Elements
<1> QED BY <1>2, <1>3 DEF t

(* What t keeps of s stands in the order it had. *)
Thinned(t, s) ==
  \A i, j \in DOMAIN t : i < j =>
    \E k, l \in DOMAIN s : k < l /\ t[i] = s[k] /\ t[j] = s[l]

LEMMA TailThins ==
  ASSUME NEW S, NEW s \in Seq(S), s # <<>>
  PROVE  Thinned(Tail(s), s)
<1>1. \A i \in DOMAIN Tail(s) : i \in Int /\ i + 1 \in DOMAIN s /\ Tail(s)[i] = s[i + 1]
  BY ListParts, TailLength
<1> SUFFICES ASSUME NEW i \in DOMAIN Tail(s), NEW j \in DOMAIN Tail(s), i < j
             PROVE  \E k, l \in DOMAIN s : k < l /\ Tail(s)[i] = s[k] /\ Tail(s)[j] = s[l]
  BY DEF Thinned
<1>2. i + 1 < j + 1
  BY <1>1
<1> QED BY <1>1, <1>2

LEMMA SelectionThins ==
  ASSUME NEW T, NEW s \in Seq(T), NEW S \in SUBSET DOMAIN s
  PROVE  Thinned(Selection(s, S), s)
<1> DEFINE t == Selection(s, S)
<1>1. /\ DOMAIN t = 1..Cardinality(S)
      /\ \A j \in 1..Cardinality(S) : Nth(S, j) \in S /\ t[j] = s[Nth(S, j)]
      /\ \A i, j \in 1..Cardinality(S) : i < j <=> Nth(S, i) < Nth(S, j)
  BY SelectionFacts
<1> HIDE DEF t
<1>2. \A j \in 1..Cardinality(S) : Nth(S, j) \in DOMAIN s
  BY <1>1
<1> SUFFICES ASSUME NEW i \in DOMAIN t, NEW j \in DOMAIN t, i < j
             PROVE  \E k, l \in DOMAIN s : k < l /\ t[i] = s[k] /\ t[j] = s[l]
  BY DEF t, Thinned
<1>3. Nth(S, i) < Nth(S, j) /\ t[i] = s[Nth(S, i)] /\ t[j] = s[Nth(S, j)]
  BY <1>1
<1> QED BY <1>1, <1>2, <1>3

LEMMA AmongFacts ==
  ASSUME NEW S, NEW s \in Seq(S), NEW T
  PROVE  /\ Among(s, T) \in Seq(S) /\ Elements(Among(s, T)) = Elements(s) \cap T
         /\ Thinned(Among(s, T), s) /\ (Distinct(s) => Distinct(Among(s, T)))
<1> DEFINE P == {i \in DOMAIN s : s[i] \in T}
<1>1. P \in SUBSET DOMAIN s /\ Among(s, T) = Selection(s, P)
  BY DEF Among
<1>2. {s[i] : i \in P} = Elements(s) \cap T
  BY DEF Elements
<1> HIDE DEF P
<1> QED BY <1>1, <1>2, SelectionFacts, SelectionElements, SelectionThins

(* A list with an element in front of it. *)
LEMMA FrontFacts ==
  ASSUME NEW S, NEW s \in Seq(S), NEW e \in S
  PROVE  /\ <<e>> \o s \in Seq(S) /\ (<<e>> \o s)[1] = e
         /\ Len(s) \in Nat /\ DOMAIN s = 1..Len(s)
         /\ DOMAIN (<<e>> \o s) = 1..(Len(s) + 1)
         /\ \A i \in 2..(Len(s) + 1) : (<<e>> \o s)[i] = s[i - 1]
         /\ Elements(<<e>> \o s) = Elements(s) \cup {e}
         /\ Distinct(s) /\ e \notin Elements(s) => Distinct(<<e>> \o s)
<1> DEFINE t == <<e>> \o s
<1>1. Len(s) \in Nat /\ DOMAIN s = 1..Len(s) /\ <<e>> \in Seq(S) /\ Len(<<e>>) = 1 /\ <<e>>[1] = e
  BY LenProperties
<1>2. /\ t \in Seq(S) /\ Len(t) = 1 + Len(s)
      /\ \A i \in 1..(1 + Len(s)) : t[i] = IF i <= 1 THEN <<e>>[i] ELSE s[i - 1]
  BY <1>1, ConcatProperties
<1> HIDE DEF t
<1>3. DOMAIN t = 1..(Len(s) + 1) /\ t[1] = e /\ \A i \in 2..(Len(s) + 1) : t[i] = s[i - 1]
  <2>1. DOMAIN t = 1..(Len(s) + 1)
    BY <1>1, <1>2, LenProperties
  <2>2. t[1] = e
    BY <1>1, <1>2
  <2>3. ASSUME NEW i \in 2..(Len(s) + 1) PROVE t[i] = s[i - 1]
    <3>1. i \in 1..(1 + Len(s)) /\ ~(i <= 1)
      BY <1>1
    <3> QED BY <1>2, <3>1
  <2> QED BY <2>1, <2>2, <2>3
<1>4. Elements(t) = Elements(s) \cup {e}
  <2>1. ASSUME NEW i \in DOMAIN t PROVE t[i] \in Elements(s) \cup {e}
    <3>1. i = 1 \/ (i \in 2..(Len(s) + 1) /\ i - 1 \in DOMAIN s)
      BY <1>1, <1>3
    <3> QED BY <1>3, <3>1 DEF Elements
  <2>2. ASSUME NEW i \in DOMAIN s PROVE s[i] \in Elements(t)
    <3>1. i + 1 \in 2..(Len(s) + 1) /\ i + 1 \in DOMAIN t /\ (i + 1) - 1 = i
      BY <1>1, <1>3
    <3>2. t[i + 1] = s[i]
      BY <1>3, <3>1
    <3> QED BY <3>1, <3>2 DEF Elements
  <2>3. e \in Elements(t)
    BY <1>1, <1>3 DEF Elements
  <2> QED BY <2>1, <2>2, <2>3 DEF Elements
<1>5. ASSUME Distinct(s), e \notin Elements(s) PROVE Distinct(t)
  <2> SUFFICES ASSUME NEW i \in DOMAIN t, NEW j \in DOMAIN t, t[i] = t[j] PROVE i = j
    BY DEF Distinct
  <2>1. \A k \in DOMAIN t : k # 1 => k - 1 \in DOMAIN s /\ t[k] = s[k - 1] /\ t[k] \in Elements(s)
    <3> SUFFICES ASSUME NEW k \in DOMAIN t, k # 1
                 PROVE  k - 1 \in DOMAIN s /\ t[k] = s[k - 1] /\ t[k] \in Elements(s)
      OBVIOUS
    <3>1. k - 1 \in DOMAIN s /\ k \in 2..(Len(s) + 1)
      BY <1>1, <1>3
    <3> QED BY <1>3, <3>1 DEF Elements
  <2>2. i = 1 <=> j = 1
    BY <1>3, <1>5, <2>1
  <2>3. CASE i # 1
    <3>1. i - 1 = j - 1
      BY <1>5, <2>1, <2>2, <2>3 DEF Distinct
    <3> QED BY <1>1, <1>3, <3>1
  <2> QED BY <2>2, <2>3
<1> QED BY <1>1, <1>2, <1>3, <1>4, <1>5 DEF t

(* There are as many places as the list is long. *)
LEMMA PlacesCounted ==
  ASSUME NEW S, NEW s \in Seq(S)
  PROVE  IsFiniteSet(DOMAIN s) /\ Cardinality(DOMAIN s) = Len(s)
<1>1. Len(s) \in Nat /\ DOMAIN s = 1..Len(s)
  BY LenProperties
<1>2. IsFiniteSet(1..Len(s)) /\ Cardinality(1..Len(s)) = IF 1 > Len(s) THEN 0 ELSE Len(s) - 1 + 1
  BY <1>1, FS_Interval
<1> QED BY <1>1, <1>2

LEMMA GreatestExists ==
  ASSUME NEW S \in SUBSET Int, IsFiniteSet(S), S # {}
  PROVE  \E x \in S : \A y \in S : y <= x
<1> DEFINE n == Cardinality(S)
           x == Nth(S, n)
<1>1. /\ n \in Nat
      /\ \A j \in 1..n : Nth(S, j) \in S
      /\ \A y \in S : \E j \in 1..n : Nth(S, j) = y
      /\ \A i, j \in 1..n : i < j <=> Nth(S, i) < Nth(S, j)
  BY NthFacts
<1> HIDE DEF n
<1>2. n \in 1..n
  <2>1. PICK y \in S : TRUE
    OBVIOUS
  <2>2. PICK j \in 1..n : Nth(S, j) = y
    BY <1>1
  <2> QED BY <1>1, <2>2
<1>3. ASSUME NEW y \in S PROVE y <= x
  <2>1. PICK j \in 1..n : Nth(S, j) = y
    BY <1>1
  <2>2. j < n => y < x
    BY <1>1, <1>2, <2>1
  <2>3. j = n => y = x
    BY <2>1
  <2>4. x \in Int /\ y \in Int /\ j <= n
    <3>1. x \in S
      BY <1>1, <1>2
    <3> HIDE DEF x
    <3>2. j <= n
      BY <1>1
    <3> QED BY <3>1, <3>2
  <2> HIDE DEF x
  <2> QED BY <1>1, <2>2, <2>3, <2>4
<1> QED BY <1>1, <1>2, <1>3

LEMMA LeastExists ==
  ASSUME NEW S \in SUBSET Int, IsFiniteSet(S), S # {}
  PROVE  \E x \in S : \A y \in S : x <= y
<1> DEFINE n == Cardinality(S)
           x == Nth(S, 1)
<1>1. /\ n \in Nat
      /\ \A j \in 1..n : Nth(S, j) \in S
      /\ \A y \in S : \E j \in 1..n : Nth(S, j) = y
      /\ \A i, j \in 1..n : i < j <=> Nth(S, i) < Nth(S, j)
  BY NthFacts
<1> HIDE DEF n
<1>2. 1 \in 1..n
  <2>1. PICK y \in S : TRUE
    OBVIOUS
  <2>2. PICK j \in 1..n : Nth(S, j) = y
    BY <1>1
  <2> QED BY <1>1, <2>2
<1>3. ASSUME NEW y \in S PROVE x <= y
  <2>1. PICK j \in 1..n : Nth(S, j) = y
    BY <1>1
  <2>2. 1 < j => x < y
    BY <1>1, <1>2, <2>1
  <2>3. 1 = j => x = y
    BY <2>1
  <2>4. x \in Int /\ y \in Int /\ 1 <= j
    <3>1. x \in S
      BY <1>1, <1>2
    <3> HIDE DEF x
    <3>2. 1 <= j
      BY <1>1
    <3> QED BY <3>1, <3>2
  <2> HIDE DEF x
  <2> QED BY <1>1, <2>2, <2>3, <2>4
<1> QED BY <1>1, <1>2, <1>3

LEMMA FiniteValues ==
  ASSUME NEW S, IsFiniteSet(S), NEW f, DOMAIN f = S, f = [x \in S |-> f[x]]
  PROVE  IsFiniteSet({f[x] : x \in S})
<1> DEFINE T == {f[x] : x \in S}
<1>1. f \in Surjection(S, T)
  BY DEF Surjection
<1> QED BY <1>1, FS_Surjection

(* Of a finite set, the element of the greatest f, and among equals of the  *)
(* least g: what a scan that replaces its candidate only for a better one   *)
(* ends on.                                                                 *)
LEMMA BestExists ==
  ASSUME NEW S, IsFiniteSet(S), S # {}, NEW f \in [S -> Int], NEW g \in [S -> Int]
  PROVE  \E x \in S : \A y \in S : \/ f[y] < f[x]
                                   \/ f[y] = f[x] /\ g[x] <= g[y]
<1>1. PICK m \in {f[x] : x \in S} : \A k \in {f[x] : x \in S} : k <= m
  <2>1. IsFiniteSet({f[x] : x \in S}) /\ {f[x] : x \in S} \in SUBSET Int /\ {f[x] : x \in S} # {}
    BY FiniteValues
  <2> QED BY <2>1, GreatestExists
<1> DEFINE T == {x \in S : f[x] = m}
           h == [x \in T |-> g[x]]
<1>2. IsFiniteSet(T) /\ T # {}
  BY FS_Subset
<1>3. PICK l \in {h[x] : x \in T} : \A k \in {h[x] : x \in T} : l <= k
  <2>1. DOMAIN h = T /\ h = [x \in T |-> h[x]] /\ h \in [T -> Int]
    OBVIOUS
  <2> HIDE DEF T, h
  <2>2. IsFiniteSet({h[x] : x \in T})
    BY <1>2, <2>1, FiniteValues
  <2>3. {h[x] : x \in T} \in SUBSET Int /\ {h[x] : x \in T} # {}
    BY <1>2, <2>1
  <2> QED BY <2>2, <2>3, LeastExists
<1>4. PICK x \in T : h[x] = l
  BY <1>3
<1>5. ASSUME NEW y \in S PROVE f[y] < f[x] \/ (f[y] = f[x] /\ g[x] <= g[y])
  <2>1. f[x] = m /\ f[y] <= m /\ m \in Int /\ f[y] \in Int
    BY <1>1, <1>4
  <2>2. f[y] = m => g[x] <= g[y]
    BY <1>3, <1>4
  <2> QED BY <2>1, <2>2
<1> QED BY <1>4, <1>5

(* A finite set of positive numbers without gaps below. *)
LEMMA NoGaps ==
  ASSUME NEW S \in SUBSET (Nat \ {0}), IsFiniteSet(S), \A i \in S : \A j \in 1..i : j \in S
  PROVE  Cardinality(S) \in Nat /\ S = 1..Cardinality(S)
<1>1. CASE S = {}
  <2>1. Cardinality(S) = 0
    BY <1>1, FS_EmptySet
  <2> QED BY <1>1, <2>1
<1>2. CASE S # {}
  <2>1. PICK x \in S : \A y \in S : y <= x
    BY <1>2, GreatestExists
  <2>2. S = 1..x
    <3>1. S \subseteq 1..x
      BY <2>1
    <3>2. 1..x \subseteq S
      BY <2>1
    <3> QED BY <3>1, <3>2
  <2>3. Cardinality(1..x) = x
    <3>1. Cardinality(1..x) = IF 1 > x THEN 0 ELSE x - 1 + 1
      BY FS_Interval
    <3> QED BY <3>1
  <2> QED BY <2>2, <2>3
<1> QED BY <1>1, <1>2

(* The first n entries of a list. *)
LEMMA FirstPart ==
  ASSUME NEW S, NEW s \in Seq(S), NEW n \in 0..Len(s)
  PROVE  /\ SubSeq(s, 1, n) \in Seq(S) /\ Len(SubSeq(s, 1, n)) = n
         /\ \A i \in 1..n : SubSeq(s, 1, n)[i] = s[i]
<1>1. Len(s) \in Nat /\ \A i \in 1..Len(s) : s[i] \in S
  BY LenProperties, ElementOfSeq
<1>2. n \in Int /\ 1 \in Int /\ \A i \in 1..n : s[i] \in S
  BY <1>1
<1>3. /\ SubSeq(s, 1, n) \in Seq(S)
      /\ Len(SubSeq(s, 1, n)) = IF 1 <= n THEN n - 1 + 1 ELSE 0
      /\ \A i \in 1..(n - 1 + 1) : SubSeq(s, 1, n)[i] = s[1 + i - 1]
  BY <1>2, SubSeqProperties
<1>4. n - 1 + 1 = n /\ \A i \in 1..n : 1 + i - 1 = i
  BY <1>1
<1> QED BY <1>3, <1>4

LEMMA FirstOfFirst ==
  ASSUME NEW S, NEW s \in Seq(S), NEW n \in 0..Len(s), NEW k \in 0..n
  PROVE  SubSeq(SubSeq(s, 1, n), 1, k) = SubSeq(s, 1, k)
<1> DEFINE t == SubSeq(s, 1, n)
<1>1. Len(s) \in Nat /\ k \in 0..Len(s) /\ n \in Nat /\ k \in 0..n
  BY LenProperties
<1>2. t \in Seq(S) /\ Len(t) = n /\ \A i \in 1..n : t[i] = s[i]
  BY FirstPart
<1> HIDE DEF t
<1>3. /\ SubSeq(t, 1, k) \in Seq(S) /\ Len(SubSeq(t, 1, k)) = k
      /\ \A i \in 1..k : SubSeq(t, 1, k)[i] = t[i]
  BY <1>1, <1>2, FirstPart
<1>4. /\ SubSeq(s, 1, k) \in Seq(S) /\ Len(SubSeq(s, 1, k)) = k
      /\ \A i \in 1..k : SubSeq(s, 1, k)[i] = s[i]
  BY <1>1, FirstPart
<1>5. \A i \in 1..k : i \in 1..n
  BY <1>1
<1>6. SubSeq(t, 1, k) = SubSeq(s, 1, k)
  BY <1>2, <1>3, <1>4, <1>5, SeqEqual
<1> QED BY <1>6 DEF t

LEMMA FirstOfConcat ==
  ASSUME NEW S, NEW s \in Seq(S), NEW t \in Seq(S), NEW n \in 0..Len(s)
  PROVE  SubSeq(s \o t, 1, n) = SubSeq(s, 1, n)
<1>1. Len(s) \in Nat /\ Len(t) \in Nat
  BY LenProperties
<1>2. CASE n = 0
  <2>1. SubSeq(s \o t, 1, 0) = <<>> /\ SubSeq(s, 1, 0) = <<>>
    BY SubSeqEmpty
  <2> QED BY <1>2, <2>1
<1>3. CASE n # 0
  <2>1. 1 \in 1..Len(s) /\ n \in 1..Len(s)
    BY <1>1, <1>3
  <2> QED BY <2>1, SubSeqOfConcat1
<1> QED BY <1>2, <1>3

(* A list is its first n entries and the rest. *)
LEMMA FirstAndRest ==
  ASSUME NEW S, NEW s \in Seq(S), NEW n \in 0..Len(s)
  PROVE  /\ SubSeq(s, n + 1, Len(s)) \in Seq(S)
         /\ Len(SubSeq(s, n + 1, Len(s))) = Len(s) - n
         /\ SubSeq(s, 1, n) \o SubSeq(s, n + 1, Len(s)) = s
<1>1. Len(s) \in Nat /\ \A i \in 1..Len(s) : s[i] \in S
  BY LenProperties, ElementOfSeq
<1>2. n + 1 \in Int /\ Len(s) \in Int /\ \A i \in (n + 1)..Len(s) : s[i] \in S
  BY <1>1
<1>3. /\ SubSeq(s, n + 1, Len(s)) \in Seq(S)
      /\ Len(SubSeq(s, n + 1, Len(s))) = IF n + 1 <= Len(s) THEN Len(s) - (n + 1) + 1 ELSE 0
  BY <1>2, SubSeqProperties
<1>4. Len(SubSeq(s, n + 1, Len(s))) = Len(s) - n
  <2> DEFINE k == Len(s)
             l == Len(SubSeq(s, n + 1, Len(s)))
  <2>1. l = (IF n + 1 <= k THEN k - (n + 1) + 1 ELSE 0) /\ k \in Nat /\ n \in 0..k
    BY <1>1, <1>3
  <2> HIDE DEF k, l
  <2>2. l = k - n
    BY <2>1
  <2> QED BY <2>2 DEF k, l
<1>5. SubSeq(s, 1, n) \o SubSeq(s, n + 1, Len(s)) = SubSeq(s, 1, Len(s))
  <2>1. 1 \in 1..(Len(s) + 1) /\ n \in (1 - 1)..Len(s) /\ Len(s) \in n..Len(s)
    BY <1>1
  <2> QED BY <2>1, ConcatAdjacentSubSeq
<1>6. SubSeq(s, 1, Len(s)) = s
  BY SubSeqFull
<1>7. SubSeq(s, 1, n) \o SubSeq(s, n + 1, Len(s)) = s
  BY <1>5, <1>6
<1> QED BY <1>3, <1>4, <1>7

(* Two lists after one another, as far as the second one. *)
LEMMA FirstOfBoth ==
  ASSUME NEW S, NEW s \in Seq(S), NEW t \in Seq(S), NEW k \in 0..Len(t)
  PROVE  SubSeq(s \o t, 1, Len(s) + k) = s \o SubSeq(t, 1, k)
<1> DEFINE m == Len(s)
           n == Len(t)
           u == s \o t
           f == SubSeq(t, 1, k)
           a == SubSeq(u, 1, m + k)
           b == s \o f
<1>1. m \in Nat /\ n \in Nat /\ k \in 0..n
  BY LenProperties
<1>2. u \in Seq(S) /\ Len(u) = m + n /\ \A i \in 1..(m + n) : u[i] = IF i <= m THEN s[i] ELSE t[i - m]
  BY ConcatProperties
<1>3. f \in Seq(S) /\ Len(f) = k /\ \A i \in 1..k : f[i] = t[i]
  BY FirstPart
<1> HIDE DEF n, u, f
<1>4. b \in Seq(S) /\ Len(b) = m + k /\ \A i \in 1..(m + k) : b[i] = IF i <= m THEN s[i] ELSE f[i - m]
  BY <1>3, ConcatProperties
<1> HIDE DEF m, b
<1>5. m + k \in 0..Len(u)
  BY <1>1, <1>2
<1>6. a \in Seq(S) /\ Len(a) = m + k /\ \A i \in 1..(m + k) : a[i] = u[i]
  BY <1>2, <1>5, FirstPart
<1> HIDE DEF a
<1>7. ASSUME NEW i \in 1..(m + k) PROVE a[i] = b[i]
  <2>1. i \in 1..(m + n)
    BY <1>1
  <2>2. CASE i <= m
    BY <1>2, <1>4, <1>6, <2>1, <2>2
  <2>3. CASE ~(i <= m)
    <3>1. i - m \in 1..k
      BY <1>1, <2>3
    <3>2. f[i - m] = t[i - m]
      BY <1>3, <3>1
    <3> QED BY <1>2, <1>4, <1>6, <2>1, <2>3, <3>2
  <2> QED BY <2>2, <2>3
<1> QED BY <1>4, <1>6, <1>7, SeqEqual DEF a, b, u, f, m

(* A suffix is what comes after something. *)
LEMMA SuffixFacts ==
  ASSUME NEW S, NEW s \in Seq(S), NEW t \in Seq(S)
  PROVE  IsSuffix(s, t) <=> \E a \in Seq(S) : t = a \o s
<1> DEFINE m == Len(s)
           n == Len(t)
           u == Reverse(s)
           v == Reverse(t)
<1>1. /\ m \in Nat /\ n \in Nat /\ s \in [1..m -> S] /\ t \in [1..n -> S]
  BY LenProperties
<1>2. /\ u \in Seq(S) /\ Len(u) = m /\ \A i \in 1..m : u[i] = s[m - i + 1]
  <2> HIDE DEF m
  <2>1. u = [i \in 1..m |-> s[m - i + 1]]
    BY DEF Reverse, m
  <2>2. \A i \in 1..m : m - i + 1 \in 1..m
    BY <1>1
  <2>3. \A i \in 1..m : s[m - i + 1] \in S
    BY <1>1, <2>2
  <2> QED BY <1>1, <2>1, <2>3
<1>3. /\ v \in Seq(S) /\ Len(v) = n /\ \A i \in 1..n : v[i] = t[n - i + 1]
  <2> HIDE DEF n
  <2>1. v = [i \in 1..n |-> t[n - i + 1]]
    BY DEF Reverse, n
  <2>2. \A i \in 1..n : n - i + 1 \in 1..n
    BY <1>1
  <2>3. \A i \in 1..n : t[n - i + 1] \in S
    BY <1>1, <2>2
  <2> QED BY <1>1, <2>1, <2>3
<1> HIDE DEF u, v
<1>4. IsSuffix(s, t) <=> m <= n /\ SubSeq(u, 1, m) = SubSeq(v, 1, m)
  BY <1>2, <1>3 DEF IsSuffix, IsPrefix, u, v
<1>5. SubSeq(u, 1, m) = u
  BY <1>2, SubSeqFull
<1>6. ASSUME m <= n
      PROVE  /\ SubSeq(v, 1, m) \in Seq(S) /\ Len(SubSeq(v, 1, m)) = m
             /\ \A i \in 1..m : SubSeq(v, 1, m)[i] = t[n - i + 1]
  <2>1. m \in 0..Len(v)
    BY <1>1, <1>3, <1>6
  <2>2. /\ SubSeq(v, 1, m) \in Seq(S) /\ Len(SubSeq(v, 1, m)) = m
        /\ \A i \in 1..m : SubSeq(v, 1, m)[i] = v[i]
    BY <1>3, <2>1, FirstPart
  <2>3. \A i \in 1..m : i \in 1..n
    BY <1>1, <1>6
  <2> QED BY <1>3, <2>2, <2>3
<1>7. ASSUME IsSuffix(s, t) PROVE \E a \in Seq(S) : t = a \o s
  <2>1. m <= n /\ n - m \in 0..n /\ n - m \in Nat
    BY <1>1, <1>4, <1>7
  <2> DEFINE k == n - m
             a == SubSeq(t, 1, k)
             b == SubSeq(t, k + 1, n)
  <2>2. a \in Seq(S) /\ b \in Seq(S) /\ Len(b) = n - k /\ a \o b = t
    BY <2>1, FirstAndRest, FirstPart
  <2>3. \A i \in 1..m : b[i] = t[k + i]
    <3>1. k + 1 \in Int /\ n \in Int /\ \A i \in (k + 1)..n : t[i] \in S
      BY <1>1, <2>1
    <3>2. \A i \in 1..(n - (k + 1) + 1) : b[i] = t[k + 1 + i - 1]
      <4> HIDE DEF n, k
      <4> QED BY <3>1, SubSeqProperties
    <3> HIDE DEF b
    <3>3. n - (k + 1) + 1 = m /\ \A i \in 1..m : k + 1 + i - 1 = k + i
      BY <1>1
    <3> QED BY <3>2, <3>3
  <2>4. \A i \in 1..m : s[i] = t[k + i]
    <3> SUFFICES ASSUME NEW i \in 1..m PROVE s[i] = t[k + i]
      OBVIOUS
    <3> DEFINE j == m - i + 1
    <3>1. j \in 1..m /\ m - j + 1 = i /\ n - j + 1 = k + i
      BY <1>1
    <3> HIDE DEF j, k
    <3>2. u[j] = s[i] /\ SubSeq(v, 1, m)[j] = t[k + i]
      BY <1>2, <1>6, <2>1, <3>1
    <3> QED BY <1>4, <1>5, <1>7, <3>2
  <2>5. b = s
    <3>1. Len(b) = m
      BY <1>1, <2>2
    <3> HIDE DEF b, k
    <3> QED BY <2>2, <2>3, <2>4, <3>1, SeqEqual
  <2> QED BY <2>2, <2>5
<1>8. ASSUME NEW a \in Seq(S), t = a \o s PROVE IsSuffix(s, t)
  <2> DEFINE k == Len(a)
  <2>1. k \in Nat /\ n = k + m /\ \A i \in 1..(k + m) : t[i] = IF i <= k THEN a[i] ELSE s[i - k]
    BY <1>8, ConcatProperties, LenProperties
  <2>2. m <= n
    BY <1>1, <2>1
  <2> HIDE DEF k, n
  <2>3. \A i \in 1..m : u[i] = t[n - i + 1]
    <3> SUFFICES ASSUME NEW i \in 1..m PROVE u[i] = t[n - i + 1]
      OBVIOUS
    <3> DEFINE j == n - i + 1
    <3>1. j \in 1..(k + m) /\ ~(j <= k) /\ j - k = m - i + 1
      BY <1>1, <2>1
    <3> HIDE DEF j
    <3>2. t[j] = s[j - k]
      BY <2>1, <3>1
    <3> QED BY <1>2, <3>1, <3>2 DEF j
  <2>4. u = SubSeq(v, 1, m)
    <3> DEFINE x == SubSeq(v, 1, m)
    <3>1. x \in Seq(S) /\ Len(x) = m /\ \A i \in 1..m : x[i] = t[n - i + 1]
      BY <1>6, <2>2
    <3> HIDE DEF x, m
    <3>2. u \in Seq(S) /\ Len(u) = Len(x) /\ \A i \in 1..Len(u) : u[i] = x[i]
      BY <1>2, <2>3, <3>1
    <3>3. u = x
      BY <3>1, <3>2, SeqEqual
    <3> QED BY <3>3 DEF x
  <2> QED BY <1>4, <1>5, <2>2, <2>4
<1> QED BY <1>7, <1>8

(* The last n of a list, or all of it. *)
LEMMA LastPart ==
  ASSUME NEW S, NEW s \in Seq(S), NEW n \in Nat
  PROVE  LET k == IF n < Len(s) THEN n ELSE Len(s)
             f == SubSeq(s, Len(s) - k + 1, Len(s))
         IN  /\ f \in Seq(S) /\ Len(f) = k
             /\ \E b \in Seq(S) : s = b \o f /\ (n < Len(s) \/ b = <<>>)
<1> DEFINE k == IF n < Len(s) THEN n ELSE Len(s)
           m == Len(s) - k
           f == SubSeq(s, m + 1, Len(s))
           b == SubSeq(s, 1, m)
<1>1. Len(s) \in Nat /\ k \in 0..Len(s) /\ m \in 0..Len(s) /\ Len(s) - m = k
  BY LenProperties
<1> HIDE DEF m
<1>2. f \in Seq(S) /\ Len(f) = k /\ s = b \o f /\ b \in Seq(S) /\ Len(b) = m
  BY <1>1, FirstAndRest, FirstPart
<1>3. n < Len(s) \/ b = <<>>
  <2>1. n < Len(s) \/ m = 0
    BY <1>1 DEF m
  <2> QED BY <1>2, <2>1, EmptySeq
<1> QED BY <1>2, <1>3 DEF m, f, k, b

(* What a step after another makes of s, as a recursive definition has it. *)
IsSteps(f, N, S) == N \in Nat /\ f \in [1..N -> [S -> S]]

Leads(s, f, N, S) == \E u \in [0..N -> S] : u[0] = s /\ \A n \in 1..N : u[n] = f[n][u[n - 1]]

LEMMA Iterated ==
  ASSUME NEW S, NEW s \in S, NEW N, NEW f, IsSteps(f, N, S)
  PROVE  Leads(s, f, N, S)
<1> DEFINE Good(m) == \E u \in [0..m -> S] :
                        u = [n \in 0..m |-> IF n = 0 THEN s ELSE f[n][u[n - 1]]]
           Bad == {m \in 0..N : ~Good(m)}
<1>0. N \in Nat /\ f \in [1..N -> [S -> S]]
  BY DEF IsSteps
<1>1. Good(0)
  <2> DEFINE u == [n \in 0..0 |-> s]
  <2>1. u \in [0..0 -> S]
    OBVIOUS
  <2>2. u = [n \in 0..0 |-> IF n = 0 THEN s ELSE f[n][u[n - 1]]]
    OBVIOUS
  <2> QED BY <2>1, <2>2
<1>2. ASSUME NEW m \in 1..N, Good(m - 1) PROVE Good(m)
  <2>1. PICK u \in [0..(m - 1) -> S] :
          u = [n \in 0..(m - 1) |-> IF n = 0 THEN s ELSE f[n][u[n - 1]]]
    BY <1>2
  <2>2. m - 1 \in 0..(m - 1) /\ f[m] \in [S -> S]
    BY <1>0
  <2> DEFINE x == f[m][u[m - 1]]
             v == [n \in 0..m |-> IF n = m THEN x ELSE u[n]]
  <2>3. x \in S
    BY <2>2
  <2> HIDE DEF x
  <2>4. \A n \in 0..m : n # m => n \in 0..(m - 1)
    BY <1>0
  <2>5. v \in [0..m -> S]
    BY <2>3, <2>4
  <2>6. ASSUME NEW n \in 0..m PROVE v[n] = IF n = 0 THEN s ELSE f[n][v[n - 1]]
    <3>1. CASE n = m
      <4>1. n # 0 /\ n - 1 \in 0..m /\ n - 1 # m
        BY <1>0, <3>1
      <4>2. v[n - 1] = u[n - 1] /\ v[n] = x
        BY <3>1, <4>1
      <4> QED BY <3>1, <4>1, <4>2 DEF x
    <3>2. CASE n # m
      <4>1. n \in 0..(m - 1) /\ v[n] = u[n]
        BY <2>4, <3>2
      <4>2. u[n] = IF n = 0 THEN s ELSE f[n][u[n - 1]]
        BY <2>1, <4>1
      <4>3. n # 0 => n - 1 \in 0..m /\ n - 1 # m
        BY <1>0, <4>1
      <4>4. n # 0 => v[n - 1] = u[n - 1]
        BY <4>3
      <4> QED BY <4>1, <4>2, <4>4
    <3> QED BY <3>1, <3>2
  <2> HIDE DEF v
  <2>7. v = [n \in 0..m |-> IF n = 0 THEN s ELSE f[n][v[n - 1]]]
    BY <2>5, <2>6
  <2> QED BY <2>5, <2>7
<1> HIDE DEF Good
<1>3. Bad \in SUBSET Int /\ IsFiniteSet(Bad)
  <2>1. IsFiniteSet(0..N) /\ Bad \subseteq 0..N /\ 0..N \subseteq Int
    BY <1>0, FS_Interval
  <2> HIDE DEF Bad
  <2> QED BY <2>1, FS_Subset
<1>4. Bad = {}
  <2> SUFFICES ASSUME Bad # {} PROVE FALSE
    OBVIOUS
  <2>1. PICK m \in Bad : \A k \in Bad : m <= k
    <3> HIDE DEF Bad
    <3> QED BY <1>3, LeastExists
  <2>2. m \in 0..N /\ ~Good(m)
    BY <2>1
  <2>3. m # 0
    BY <1>1, <2>2
  <2>4. m \in 1..N /\ m - 1 \in 0..N /\ ~(m <= m - 1)
    BY <1>0, <2>2, <2>3
  <2>5. Good(m - 1)
    BY <2>1, <2>4
  <2> QED BY <1>2, <2>2, <2>4, <2>5
<1>5. Good(N)
  BY <1>0, <1>4
<1>6. PICK u \in [0..N -> S] : u = [n \in 0..N |-> IF n = 0 THEN s ELSE f[n][u[n - 1]]]
  BY <1>5 DEF Good
<1>7. u[0] = s
  BY <1>0, <1>6
<1>8. ASSUME NEW n \in 1..N PROVE u[n] = f[n][u[n - 1]]
  BY <1>0, <1>6
<1> QED BY <1>7, <1>8 DEF Leads

(* The numbers S in ascending order, as a function. *)
Ascends(f, n, S) ==
  /\ n \in Nat /\ f \in [1..n -> Int]
  /\ \A i, j \in 1..n : i < j => f[i] < f[j]
  /\ S = {f[i] : i \in 1..n}

LEMMA Ascending ==
  ASSUME NEW n, NEW f, NEW S, Ascends(f, n, S)
  PROVE  /\ IsFiniteSet(S) /\ Cardinality(S) = n
         /\ \A j \in 1..n : Nth(S, j) = f[j]
<1> USE DEF Ascends
<1>1. n \in Nat /\ \A i, j \in 1..n : f[i] = f[j] => i = j
  OBVIOUS
<1>2. ASSUME NEW m \in 0..n
      PROVE  IsFiniteSet({f[i] : i \in 1..m}) /\ Cardinality({f[i] : i \in 1..m}) = m
  <2> DEFINE T == {f[i] : i \in 1..m}
             g == [i \in 1..m |-> f[i]]
  <2>1. g \in Bijection(1..m, T)
    <3>1. g \in [1..m -> T] /\ \A t \in T : \E i \in 1..m : g[i] = t
      OBVIOUS
    <3>2. \A i, j \in 1..m : g[i] = g[j] => i = j
      BY <1>1
    <3> HIDE DEF g, T
    <3> QED BY <3>1, <3>2 DEF Bijection, Injection, Surjection, IsInjective
  <2>2. IsFiniteSet(1..m) /\ Cardinality(1..m) = m
    <3>1. m \in Nat
      OBVIOUS
    <3>2. IsFiniteSet(1..m) /\ Cardinality(1..m) = IF 1 > m THEN 0 ELSE m - 1 + 1
      BY <3>1, FS_Interval
    <3> QED BY <3>1, <3>2
  <2>3. ExistsBijection(1..m, T)
    BY <2>1 DEF ExistsBijection
  <2> HIDE DEF T
  <2>4. IsFiniteSet(T) /\ Cardinality(T) = Cardinality(1..m)
    BY <2>2, <2>3, FS_Bijection
  <2> QED BY <2>2, <2>4 DEF T
<1>3. S \in SUBSET Int /\ n \in 0..n
  OBVIOUS
<1>4. IsFiniteSet(S) /\ Cardinality(S) = n
  BY <1>2, <1>3
<1>5. ASSUME NEW j \in 1..n PROVE Nth(S, j) = f[j]
  <2>1. f[j] \in S
    OBVIOUS
  <2>2. Below(S, f[j]) = {f[i] : i \in 1..(j - 1)}
    <3>1. ASSUME NEW i \in 1..n, f[i] < f[j] PROVE i \in 1..(j - 1)
      <4>1. ~(j <= i)
        BY <3>1
      <4> QED BY <4>1
    <3>2. \A i \in 1..(j - 1) : i \in 1..n /\ f[i] < f[j]
      OBVIOUS
    <3> QED BY <3>1, <3>2 DEF Below
  <2>3. Cardinality(Below(S, f[j])) = j - 1
    <3>1. j - 1 \in 0..n
      OBVIOUS
    <3> QED BY <1>2, <2>2, <3>1
  <2>4. ASSUME NEW x \in S, Cardinality(Below(S, x)) = j - 1 PROVE x = f[j]
    <3>1. PICK i \in 1..n : x = f[i]
      OBVIOUS
    <3>2. x \in Int /\ f[j] \in Int
      BY <3>1
    <3>3. ~(x < f[j])
      <4> SUFFICES ASSUME x < f[j] PROVE FALSE
        OBVIOUS
      <4>1. Cardinality(Below(S, x)) < Cardinality(Below(S, f[j])) /\ Cardinality(Below(S, x)) \in Nat
        BY <1>3, <1>4, <2>1, RankGrows
      <4> QED BY <2>3, <2>4, <4>1
    <3>4. ~(f[j] < x)
      <4> SUFFICES ASSUME f[j] < x PROVE FALSE
        OBVIOUS
      <4>1. Cardinality(Below(S, f[j])) < Cardinality(Below(S, x)) /\ Cardinality(Below(S, f[j])) \in Nat
        BY <1>3, <1>4, <2>1, RankGrows
      <4> QED BY <2>3, <2>4, <4>1
    <3> QED BY <3>2, <3>3, <3>4
  <2> QED BY <2>1, <2>3, <2>4 DEF Nth
<1> QED BY <1>4, <1>5

(* Such a function is the ordered list of its values. *)
LEMMA AscendingIsInOrder ==
  ASSUME NEW S, NEW c \in Seq(Int), Ascends(c, Len(c), S)
  PROVE  c = InOrder(S)
<1>1. IsFiniteSet(S) /\ Cardinality(S) = Len(c) /\ \A j \in 1..Len(c) : Nth(S, j) = c[j]
  BY Ascending
<1>2. InOrder(S) = [j \in 1..Len(c) |-> c[j]]
  BY <1>1 DEF InOrder
<1>3. c = [j \in 1..Len(c) |-> c[j]]
  OBVIOUS
<1> QED BY <1>2, <1>3

(***************************************************************************)
(* A length of n that is cut into chunks of s, the last of which has a     *)
(* tail of t                                                               *)
(***************************************************************************)
(* Where it is cut: behind whole chunks, before the last one, before its   *)
(* tail, and at its end.                                                   *)
Boundary(s, t, n, x) ==
  /\ x \in Int
  /\ \/ x <= n - s /\ \E k \in Nat \ {0} : x = k * s
     \/ n > s /\ x = n - s
     \/ n > t /\ x = n - t
     \/ x = n

NextBoundary(s, t, n, x, y) ==
  /\ x < y /\ Boundary(s, t, n, y)
  /\ \A z : Boundary(s, t, n, z) /\ x < z => y <= z

LEMMA NextMultiple ==
  ASSUME NEW s \in Nat \ {0}, NEW j \in Nat, NEW k \in Nat, j * s < k * s
  PROVE  j * s + s <= k * s
<1>1. j < k
  <2> SUFFICES ASSUME k <= j PROVE FALSE
    OBVIOUS
  <2>1. PICK d \in Nat : j = k + d
    <3>1. j - k \in Nat /\ j = k + (j - k)
      OBVIOUS
    <3> QED BY <3>1
  <2>2. j * s = k * s + d * s
    BY <2>1
  <2>3. d * s \in Nat /\ k * s \in Nat
    OBVIOUS
  <2> QED BY <2>2, <2>3
<1>2. PICK d \in Nat : k = j + 1 + d
  <2>1. k - j - 1 \in Nat /\ k = j + 1 + (k - j - 1)
    BY <1>1
  <2> QED BY <2>1
<1>3. k * s = j * s + s + d * s
  BY <1>2
<1>4. d * s \in Nat /\ j * s \in Nat
  OBVIOUS
<1> QED BY <1>3, <1>4

(* Behind a whole chunk comes another one, unless the rest is too short.   *)
LEMMA NextWhole ==
  ASSUME NEW s \in Nat \ {0}, NEW t \in Nat, t < s, NEW n \in Nat, NEW j \in Nat, j * s + 2 * s <= n
  PROVE  NextBoundary(s, t, n, j * s, j * s + s)
<1> DEFINE x == j * s
<1>1. x \in Nat /\ (j + 1) * s = x + s /\ j + 1 \in Nat \ {0} /\ x + 2 * s <= n
  OBVIOUS
<1>2. Boundary(s, t, n, x + s)
  <2>1. x + s <= n - s
    <3> HIDE DEF x
    <3> QED BY <1>1
  <2>2. \E k \in Nat \ {0} : x + s = k * s
    <3> HIDE DEF x
    <3> QED BY <1>1
  <2> HIDE DEF x
  <2> QED BY <1>1, <2>1, <2>2 DEF Boundary
<1>3. ASSUME NEW z, Boundary(s, t, n, z), x < z PROVE x + s <= z
  <2>1. ASSUME NEW k \in Nat \ {0}, z = k * s PROVE x + s <= z
    BY <1>3, <2>1, NextMultiple
  <2> HIDE DEF x
  <2>2. z \in Int /\ ((\E k \in Nat \ {0} : z = k * s) \/ z = n - s \/ z = n - t \/ z = n)
    BY <1>3 DEF Boundary
  <2> QED BY <1>1, <2>1, <2>2
<1> HIDE DEF x
<1>4. NextBoundary(s, t, n, x, x + s)
  BY <1>1, <1>2, <1>3 DEF NextBoundary
<1> QED BY <1>4 DEF x

(* The rest is more than a chunk, and too short for two.                   *)
LEMMA NextOdd ==
  ASSUME NEW s \in Nat \ {0}, NEW t \in Nat, t < s, NEW n \in Nat, NEW j \in Nat,
         s < n - j * s, n - j * s < 2 * s
  PROVE  NextBoundary(s, t, n, j * s, n - s)
<1> DEFINE x == j * s
<1>1. x \in Nat /\ s < n - x /\ n - x < 2 * s
  OBVIOUS
<1>2. Boundary(s, t, n, n - s)
  <2> HIDE DEF x
  <2> QED BY <1>1 DEF Boundary
<1>3. ASSUME NEW z, Boundary(s, t, n, z), x < z PROVE n - s <= z
  <2>1. ASSUME NEW k \in Nat \ {0}, z = k * s PROVE x + s <= z
    BY <1>3, <2>1, NextMultiple
  <2> HIDE DEF x
  <2> QED BY <1>1, <1>3, <2>1 DEF Boundary
<1> HIDE DEF x
<1>4. NextBoundary(s, t, n, x, n - s)
  BY <1>1, <1>2, <1>3 DEF NextBoundary
<1> QED BY <1>4 DEF x

(* The rest is the last chunk, or a part of it.                            *)
LEMMA NextTail ==
  ASSUME NEW s \in Nat \ {0}, NEW t \in Nat, t < s, NEW n \in Nat, NEW x \in Nat,
         t < n - x, n - x <= s
  PROVE  NextBoundary(s, t, n, x, n - t)
BY DEF NextBoundary, Boundary

LEMMA NextEnd ==
  ASSUME NEW s \in Nat \ {0}, NEW t \in Nat, t < s, NEW n \in Nat, NEW x \in Nat,
         x < n, n - x <= t
  PROVE  NextBoundary(s, t, n, x, n)
BY DEF NextBoundary, Boundary

(* The ends of a run of chunks: from one boundary to the next.             *)
Strides(b, q, s, t, n) ==
  /\ q \in Nat /\ b \in [0..q -> Nat]
  /\ \A k \in 1..q : NextBoundary(s, t, n, b[k - 1], b[k])

(* A run of chunks of the widths w, from m to e.                           *)
Walk(w, s, t, n, m, e) ==
  /\ w \in Seq(Nat \ {0})
  /\ \E b : /\ Strides(b, Len(w), s, t, n) /\ b[0] = m /\ b[Len(w)] = e
            /\ \A k \in 1..Len(w) : b[k] = b[k - 1] + w[k]

LEMMA WalkEven ==
  ASSUME NEW s \in Nat \ {0}, NEW t \in Nat, t < s, NEW n \in Nat, NEW j \in Nat, NEW q \in Nat,
         (j + q) * s + s <= n
  PROVE  Walk([k \in 1..q |-> s], s, t, n, j * s, (j + q) * s)
<1> DEFINE w == [k \in 1..q |-> s]
           b == [k \in 0..q |-> (j + k) * s]
<1>1. w \in Seq(Nat \ {0}) /\ Len(w) = q
  <2>1. w \in [1..q -> Nat \ {0}]
    OBVIOUS
  <2> HIDE DEF w
  <2> QED BY <2>1
<1>2. b \in [0..q -> Nat]
  <2>1. ASSUME NEW k \in 0..q PROVE (j + k) * s \in Nat
    OBVIOUS
  <2> QED BY <2>1
<1>3. b[0] = j * s /\ b[q] = (j + q) * s
  OBVIOUS
<1>4. ASSUME NEW k \in 1..q PROVE b[k] = b[k - 1] + w[k] /\ NextBoundary(s, t, n, b[k - 1], b[k])
  <2>1. k \in 0..q /\ k - 1 \in 0..q
    OBVIOUS
  <2> DEFINE i == j + (k - 1)
  <2>2. b[k] = (j + k) * s /\ b[k - 1] = i * s /\ w[k] = s
    BY <2>1
  <2>3. i \in Nat /\ (j + k) * s = i * s + s
    <3>1. i \in Nat /\ j + k = i + 1
      OBVIOUS
    <3> HIDE DEF i
    <3> QED BY <3>1
  <2>4. i * s + 2 * s <= n
    <3>1. PICK d \in Nat : q = k + d
      <4>1. q - k \in Nat /\ q = k + (q - k)
        OBVIOUS
      <4> QED BY <4>1
    <3>2. (j + q) * s = (j + k) * s + d * s
      BY <3>1
    <3> DEFINE x == (j + q) * s
               y == (j + k) * s
               z == d * s
               v == i * s
    <3>3. x = y + z /\ y = v + s /\ x + s <= n /\ z \in Nat /\ v \in Nat
      BY <2>3, <3>2
    <3> HIDE DEF x, y, z, v
    <3>4. v + 2 * s <= n
      BY <3>3
    <3> QED BY <3>4 DEF v
  <2> HIDE DEF i, b, w
  <2>5. NextBoundary(s, t, n, i * s, i * s + s)
    BY <2>3, <2>4, NextWhole
  <2> QED BY <2>2, <2>3, <2>5
<1> HIDE DEF w, b
<1>5. Walk(w, s, t, n, j * s, (j + q) * s)
  BY <1>1, <1>2, <1>3, <1>4 DEF Walk, Strides
<1> QED BY <1>5 DEF w

LEMMA WalkNone ==
  ASSUME NEW s, NEW t, NEW n, NEW m \in Nat
  PROVE  Walk(<<>>, s, t, n, m, m)
<1> DEFINE b == [k \in 0..0 |-> m]
<1>1. b \in [0..0 -> Nat] /\ b[0] = m
  OBVIOUS
<1>2. Len(<<>>) = 0 /\ <<>> \in Seq(Nat \ {0}) /\ 1..0 = {}
  OBVIOUS
<1> HIDE DEF b
<1> QED BY <1>1, <1>2 DEF Walk, Strides

LEMMA WalkAppend ==
  ASSUME NEW s, NEW t, NEW n, NEW w, NEW m, NEW e, Walk(w, s, t, n, m, e),
         NEW x \in Nat \ {0}, NextBoundary(s, t, n, e, e + x)
  PROVE  Walk(Append(w, x), s, t, n, m, e + x) /\ Append(w, x) # <<>>
<1> DEFINE l == Len(w)
           u == Append(w, x)
<1>1. l \in Nat /\ w \in Seq(Nat \ {0})
  BY LenProperties DEF Walk
<1>2. PICK b \in [0..l -> Nat] :
        /\ b[0] = m /\ b[l] = e
        /\ \A k \in 1..l : b[k] = b[k - 1] + w[k] /\ NextBoundary(s, t, n, b[k - 1], b[k])
  BY DEF Walk, Strides
<1>3. /\ u \in Seq(Nat \ {0}) /\ u # <<>> /\ Len(u) = l + 1 /\ u[l + 1] = x
      /\ \A i \in 1..l : u[i] = w[i]
  BY <1>1, AppendFacts
<1> HIDE DEF l, u
<1> DEFINE y == b[l] + x
           c == [k \in 0..(l + 1) |-> IF k = l + 1 THEN y ELSE b[k]]
<1>4. y \in Nat /\ y = e + x
  <2>1. b[l] \in Nat
    BY <1>1, <1>2
  <2> QED BY <1>2, <2>1
<1> HIDE DEF y
<1>5. c \in [0..(l + 1) -> Nat]
  <2>1. ASSUME NEW k \in 0..(l + 1) PROVE (IF k = l + 1 THEN y ELSE b[k]) \in Nat
    <3>1. CASE k = l + 1
      BY <1>4, <3>1
    <3>2. CASE k # l + 1
      <4>1. k \in 0..l
        BY <1>1, <3>2
      <4> QED BY <3>2, <4>1
    <3> QED BY <3>1, <3>2
  <2> QED BY <2>1
<1>6. c[0] = m /\ c[l + 1] = y
  BY <1>1, <1>2
<1>7. ASSUME NEW k \in 1..(l + 1) PROVE c[k] = c[k - 1] + u[k] /\ NextBoundary(s, t, n, c[k - 1], c[k])
  <2>1. CASE k = l + 1
    <3>1. k - 1 \in 0..(l + 1) /\ k - 1 = l /\ l # l + 1
      BY <1>1, <2>1
    <3>2. c[k] = y /\ c[k - 1] = b[l]
      BY <2>1, <3>1
    <3> QED BY <1>2, <1>3, <1>4, <2>1, <3>2 DEF y
  <2>2. CASE k # l + 1
    <3>1. k \in 1..l /\ k - 1 \in 0..(l + 1) /\ k - 1 # l + 1
      BY <1>1, <2>2
    <3>2. c[k] = b[k] /\ c[k - 1] = b[k - 1]
      BY <2>2, <3>1
    <3> QED BY <1>2, <1>3, <3>1, <3>2
  <2> QED BY <2>1, <2>2
<1> HIDE DEF c
<1>8. Walk(u, s, t, n, m, y)
  <2>1. Len(u) \in Nat /\ c \in [0..Len(u) -> Nat] /\ c[Len(u)] = y
        /\ \A k \in 1..Len(u) : c[k] = c[k - 1] + u[k] /\ NextBoundary(s, t, n, c[k - 1], c[k])
    BY <1>1, <1>3, <1>5, <1>6, <1>7
  <2>2. Strides(c, Len(u), s, t, n)
    BY <2>1 DEF Strides
  <2> QED BY <1>3, <1>6, <2>1, <2>2 DEF Walk
<1> QED BY <1>3, <1>4, <1>8 DEF u

Boundaries(s, t, n, m) == {y \in Int : Boundary(s, t, n, y) /\ y <= m}

(* The list c of all the boundaries up to m, each moved on by r.           *)
CutTo(c, s, t, n, m, r) ==
  Ascends(c, Len(c), {r + x : x \in Boundaries(s, t, n, m)})

LEMMA NoCut ==
  ASSUME NEW s \in Nat \ {0}, NEW t \in Nat, NEW n \in Nat \ {0}, NEW r
  PROVE  CutTo(<<>>, s, t, n, 0, r)
<1> DEFINE T == {r + x : x \in Boundaries(s, t, n, 0)}
<1>1. Boundaries(s, t, n, 0) = {}
  <2> SUFFICES ASSUME NEW y \in Int, Boundary(s, t, n, y), y <= 0 PROVE FALSE
    BY DEF Boundaries
  <2>1. ASSUME NEW k \in Nat \ {0}, y = k * s PROVE FALSE
    <3>1. k * s \in Nat \ {0}
      OBVIOUS
    <3> QED BY <2>1, <3>1
  <2> QED BY <2>1 DEF Boundary
<1>2. T = {}
  BY <1>1
<1> HIDE DEF T
<1>3. Len(<<>>) = 0 /\ <<>> \in [1..0 -> Int] /\ \A i, j \in 1..0 : i < j => FALSE
  OBVIOUS
<1>4. Ascends(<<>>, Len(<<>>), T)
  BY <1>2, <1>3 DEF Ascends
<1> QED BY <1>4 DEF CutTo, T

(* Strides go upwards.                                                     *)
LEMMA StridesAscend ==
  ASSUME NEW b, NEW q, NEW s, NEW t, NEW n, Strides(b, q, s, t, n),
         NEW i \in 0..q, NEW j \in 0..q, i < j
  PROVE  b[i] < b[j]
<1> DEFINE Bad == {k \in (i + 1)..q : ~(b[i] < b[k])}
<1>1. q \in Nat /\ (\A k \in 0..q : b[k] \in Nat) /\ \A k \in 1..q : b[k - 1] < b[k]
  BY DEF Strides, NextBoundary
<1>2. Bad \in SUBSET Int /\ IsFiniteSet(Bad)
  <2>1. IsFiniteSet((i + 1)..q) /\ Bad \subseteq (i + 1)..q /\ (i + 1)..q \subseteq Int
    BY <1>1, FS_Interval
  <2> HIDE DEF Bad
  <2> QED BY <2>1, FS_Subset
<1>3. Bad = {}
  <2> SUFFICES ASSUME Bad # {} PROVE FALSE
    OBVIOUS
  <2>1. PICK m \in Bad : \A k \in Bad : m <= k
    <3> HIDE DEF Bad
    <3> QED BY <1>2, LeastExists
  <2>2. m \in (i + 1)..q /\ ~(b[i] < b[m]) /\ m \in 1..q
    BY <1>1, <2>1
  <2>3. b[m - 1] < b[m]
    BY <1>1, <2>2
  <2>4. CASE m = i + 1
    BY <2>2, <2>3, <2>4
  <2>5. CASE m # i + 1
    <3>1. m - 1 \in (i + 1)..q /\ ~(m <= m - 1)
      BY <1>1, <2>2, <2>5
    <3>2. b[i] < b[m - 1]
      BY <2>1, <3>1
    <3>3. b[i] \in Nat /\ b[m - 1] \in Nat /\ b[m] \in Nat
      BY <1>1, <2>2, <3>1
    <3> QED BY <2>2, <2>3, <3>2, <3>3
  <2> QED BY <2>4, <2>5
<1>4. j \in (i + 1)..q
  BY <1>1
<1> QED BY <1>3, <1>4

(* They leave out no boundary.                                             *)
LEMMA StridesReach ==
  ASSUME NEW b, NEW q, NEW s, NEW t, NEW n, Strides(b, q, s, t, n),
         NEW x \in Int, Boundary(s, t, n, x), b[0] < x, x <= b[q]
  PROVE  \E k \in 1..q : b[k] = x
<1> DEFINE Past == {k \in 0..q : x <= b[k]}
<1>1. q \in Nat /\ (\A k \in 0..q : b[k] \in Nat) /\ \A k \in 1..q : NextBoundary(s, t, n, b[k - 1], b[k])
  BY DEF Strides
<1>2. Past \in SUBSET Int /\ IsFiniteSet(Past)
  <2>1. IsFiniteSet(0..q) /\ Past \subseteq 0..q /\ 0..q \subseteq Int
    BY <1>1, FS_Interval
  <2> HIDE DEF Past
  <2> QED BY <2>1, FS_Subset
<1>3. q \in Past
  BY <1>1
<1>4. PICK k \in Past : \A i \in Past : k <= i
  <2> HIDE DEF Past
  <2> QED BY <1>2, <1>3, LeastExists
<1>5. k \in 0..q /\ x <= b[k] /\ k # 0
  BY <1>1, <1>4
<1>6. k \in 1..q /\ k - 1 \in 0..q /\ ~(k <= k - 1)
  BY <1>1, <1>5
<1>7. b[k - 1] < x
  <2>1. ~(x <= b[k - 1])
    BY <1>4, <1>6
  <2> QED BY <1>1, <1>6, <2>1
<1>8. b[k] <= x
  <2>1. NextBoundary(s, t, n, b[k - 1], b[k])
    BY <1>1, <1>6
  <2> QED BY <1>7, <2>1 DEF NextBoundary
<1> QED BY <1>1, <1>5, <1>6, <1>8

(* The list goes on with a run.                                            *)
LEMMA CutWalks ==
  ASSUME NEW c \in Seq(Int), NEW b, NEW q, NEW s, NEW t, NEW n, NEW r \in Int,
         Strides(b, q, s, t, n), CutTo(c, s, t, n, b[0], r)
  PROVE  CutTo(c \o [k \in 1..q |-> r + b[k]], s, t, n, b[q], r)
<1> DEFINE l == Len(c)
           e == [k \in 1..q |-> r + b[k]]
           d == c \o e
           Upto(m) == {r + x : x \in Boundaries(s, t, n, m)}
<1>1. /\ q \in Nat /\ l \in Nat /\ 0 \in 0..q /\ q \in 0..q
      /\ \A k \in 0..q : b[k] \in Nat
      /\ \A k \in 1..q : k \in 0..q /\ 0 < k /\ Boundary(s, t, n, b[k])
  BY LenProperties DEF Strides, NextBoundary
<1>1a. \A m, y : y \in Boundaries(s, t, n, m) <=> y \in Int /\ Boundary(s, t, n, y) /\ y <= m
  BY DEF Boundaries
<1>2. /\ \A i \in 1..l : c[i] \in Int
      /\ \A i, j \in 1..l : i < j => c[i] < c[j]
      /\ Upto(b[0]) = {c[i] : i \in 1..l}
  BY DEF CutTo, Ascends
<1>3. e \in Seq(Int) /\ Len(e) = q /\ \A k \in 1..q : e[k] = r + b[k]
  <2>1. e \in [1..q -> Int]
    BY <1>1
  <2>2. \A k \in 1..q : e[k] = r + b[k]
    OBVIOUS
  <2> HIDE DEF e
  <2> QED BY <1>1, <2>1, <2>2
<1> HIDE DEF e, l
<1>4. /\ d \in Seq(Int) /\ Len(d) = l + q
      /\ \A i \in 1..l : d[i] = c[i]
      /\ \A k \in 1..q : d[l + k] = r + b[k]
  <2>1. d \in Seq(Int) /\ Len(d) = l + q /\ \A i \in 1..(l + q) : d[i] = IF i <= l THEN c[i] ELSE e[i - l]
    BY <1>3, ConcatProperties DEF l
  <2>2. ASSUME NEW k \in 1..q PROVE d[l + k] = r + b[k]
    <3> DEFINE i == l + k
    <3>1. i \in 1..(l + q) /\ ~(i <= l) /\ i - l = k
      BY <1>1
    <3> HIDE DEF i
    <3>2. d[i] = e[i - l]
      BY <2>1, <3>1
    <3> QED BY <1>3, <3>1, <3>2 DEF i
  <2>3. ASSUME NEW i \in 1..l PROVE d[i] = c[i]
    <3>1. i \in 1..(l + q) /\ i <= l
      BY <1>1
    <3> QED BY <2>1, <3>1
  <2> QED BY <2>1, <2>2, <2>3
<1> HIDE DEF d
<1>5. ASSUME NEW i \in 1..(l + q) PROVE i \in 1..l \/ \E k \in 1..q : i = l + k
  <2>1. CASE i <= l
    BY <1>1, <2>1
  <2>2. CASE ~(i <= l)
    <3>1. i - l \in 1..q /\ i = l + (i - l)
      BY <1>1, <2>2
    <3> QED BY <3>1
  <2> QED BY <2>1, <2>2
<1>6. ASSUME NEW i \in 1..l PROVE c[i] <= r + b[0]
  <2>1. c[i] \in Upto(b[0])
    BY <1>2
  <2>2. PICK y \in Int : y <= b[0] /\ c[i] = r + y
    BY <1>1a, <2>1
  <2>3. b[0] \in Nat
    BY <1>1
  <2> QED BY <2>2, <2>3
<1>7. ASSUME NEW i \in 1..(l + q), NEW j \in 1..(l + q), i < j PROVE d[i] < d[j]
  <2>1. CASE j \in 1..l
    <3>1. i \in 1..l
      BY <1>1, <1>7, <2>1
    <3> QED BY <1>2, <1>4, <1>7, <2>1, <3>1
  <2>2. ASSUME NEW k \in 1..q, j = l + k PROVE d[i] < d[j]
    <3>1. d[j] = r + b[k] /\ b[k] \in Nat /\ k \in 0..q /\ 0 \in 0..q /\ 0 < k /\ b[0] \in Nat
      BY <1>1, <1>4, <2>2
    <3>2. CASE i \in 1..l
      <4>1. d[i] \in Int /\ d[i] <= r + b[0]
        BY <1>2, <1>4, <1>6, <3>2
      <4>2. b[0] < b[k]
        BY <3>1, StridesAscend
      <4> QED BY <3>1, <4>1, <4>2
    <3>3. ASSUME NEW h \in 1..q, i = l + h PROVE d[i] < d[j]
      <4>1. d[i] = r + b[h] /\ b[h] \in Nat /\ h \in 0..q
        BY <1>1, <1>4, <3>3
      <4>2. h < k
        BY <1>1, <1>7, <2>2, <3>3
      <4>3. b[h] < b[k]
        BY <3>1, <4>1, <4>2, StridesAscend
      <4> QED BY <3>1, <4>1, <4>3
    <3> QED BY <1>5, <3>2, <3>3
  <2> QED BY <1>5, <2>1, <2>2
<1>8. ASSUME NEW i \in 1..(l + q) PROVE d[i] \in Upto(b[q])
  <2>1. b[q] \in Nat /\ b[0] \in Nat /\ b[0] <= b[q]
    <3>1. q # 0 => b[0] < b[q]
      BY <1>1, StridesAscend
    <3> QED BY <1>1, <3>1
  <2>2. CASE i \in 1..l
    <3>1. PICK y \in Int : Boundary(s, t, n, y) /\ y <= b[0] /\ c[i] = r + y
      BY <1>1a, <1>2, <2>2
    <3>2. y <= b[q]
      BY <2>1, <3>1
    <3> QED BY <1>1a, <1>4, <2>2, <3>1, <3>2
  <2>3. ASSUME NEW k \in 1..q, i = l + k PROVE d[i] \in Upto(b[q])
    <3>1. b[k] \in Int /\ Boundary(s, t, n, b[k]) /\ d[i] = r + b[k]
      BY <1>1, <1>4, <2>3
    <3>2. b[k] <= b[q]
      <4>1. k # q => b[k] < b[q]
        <5>1. k # q => k < q /\ k \in 0..q /\ q \in 0..q
          BY <1>1
        <5> QED BY <5>1, StridesAscend
      <4> QED BY <1>1, <4>1
    <3> QED BY <1>1a, <3>1, <3>2
  <2> QED BY <1>5, <2>2, <2>3
<1>9. ASSUME NEW z \in Upto(b[q]) PROVE \E i \in 1..(l + q) : d[i] = z
  <2>1. PICK y \in Int : Boundary(s, t, n, y) /\ y <= b[q] /\ z = r + y
    BY <1>1a, <1>9
  <2>2. CASE y <= b[0]
    <3>1. z \in Upto(b[0])
      BY <1>1a, <2>1, <2>2
    <3>2. PICK i \in 1..l : z = c[i]
      BY <1>2, <3>1
    <3>3. i \in 1..(l + q) /\ d[i] = z
      BY <1>1, <1>4, <3>2
    <3> QED BY <3>3
  <2>3. CASE ~(y <= b[0])
    <3>1. b[0] < y
      BY <1>1, <2>1, <2>3
    <3>2. PICK k \in 1..q : b[k] = y
      BY <2>1, <3>1, StridesReach
    <3>3. l + k \in 1..(l + q) /\ d[l + k] = z
      BY <1>1, <1>4, <2>1, <3>2
    <3> QED BY <3>3
  <2> QED BY <2>2, <2>3
<1>10. Ascends(d, Len(d), Upto(b[q]))
  <2> HIDE DEF Upto
  <2>1. Upto(b[q]) = {d[i] : i \in 1..(l + q)}
    BY <1>8, <1>9
  <2>2. \A i \in 1..(l + q) : d[i] \in Int
    BY <1>4, ElementOfSeq
  <2>3. d \in [1..(l + q) -> Int] /\ l + q \in Nat
    BY <1>1, <1>4, <2>2, LenProperties
  <2> QED BY <1>4, <1>7, <2>1, <2>3 DEF Ascends
<1> QED BY <1>10 DEF CutTo, d, e

(* All the boundaries are an ordered list.                                 *)
LEMMA CutInOrder ==
  ASSUME NEW c \in Seq(Int), NEW s, NEW t, NEW n, NEW r, CutTo(c, s, t, n, n, r)
  PROVE  c = InOrder({r + x : x \in Boundaries(s, t, n, n)})
BY AscendingIsInOrder DEF CutTo

(* The boundaries as the chunks are counted, when the last one has m.      *)
ByChunks(s, t, n, m) ==
  ({k * s : k \in 1..((n - s) \div s)} \union {n} \union (IF n > s THEN {n - s} ELSE {}))
    \union (IF m > t THEN {n - t} ELSE {})

LEMMA BoundariesCounted ==
  ASSUME NEW s \in Nat \ {0}, NEW t \in Nat, t < s, NEW n \in Nat, NEW m \in Nat,
         m = IF s < n THEN s ELSE n
  PROVE  Boundaries(s, t, n, n) = ByChunks(s, t, n, m)
<1> DEFINE Even == {k * s : k \in 1..((n - s) \div s)}
           head == IF n > s THEN {n - s} ELSE {}
           tail == IF m > t THEN {n - t} ELSE {}
           all == ((Even \union {n}) \union head) \union tail
<1> DEFINE d == (n - s) \div s
<1>1. d \in Int /\ d * s <= n - s /\ n - s < (d + 1) * s
  OBVIOUS
<1> HIDE DEF d
<1>2. ASSUME NEW k \in Int PROVE k \in 1..d <=> k \in Nat \ {0} /\ k * s <= n - s
  <2>1. CASE k <= d
    <3>1. k * s <= d * s
      BY <1>1, <2>1
    <3>2. k * s <= n - s
      BY <1>1, <3>1
    <3> QED BY <1>1, <2>1, <3>2
  <2>2. CASE d + 1 <= k
    <3>1. (d + 1) * s <= k * s
      BY <1>1, <2>2
    <3>2. ~(k * s <= n - s)
      BY <1>1, <3>1
    <3> QED BY <1>1, <2>2, <3>2
  <2> QED BY <1>1, <2>1, <2>2
<1>3. ASSUME NEW y \in Int PROVE y \in Even <=> y <= n - s /\ \E k \in Nat \ {0} : y = k * s
  <2>1. y \in Even <=> \E k \in 1..d : y = k * s
    BY DEF d
  <2> HIDE DEF Even
  <2>2. ASSUME NEW k \in 1..d, y = k * s PROVE k \in Nat \ {0} /\ y <= n - s
    BY <1>1, <1>2, <2>2
  <2>3. ASSUME NEW k \in Nat \ {0}, y = k * s, y <= n - s PROVE k \in 1..d
    <3>1. k \in Int /\ k * s <= n - s
      BY <2>3
    <3> QED BY <1>2, <3>1
  <2> QED BY <2>1, <2>2, <2>3
<1>4. tail = IF n > t THEN {n - t} ELSE {}
  OBVIOUS
<1>5. \A y \in Even : y \in Int
  BY <1>1 DEF d
<1> HIDE DEF Even
<1>6. ASSUME NEW y \in Int PROVE Boundary(s, t, n, y) /\ y <= n <=> y \in all
  <2> DEFINE Whole == \E k \in Nat \ {0} : y = k * s
  <2>1. y \in Even <=> y <= n - s /\ Whole
    BY <1>3
  <2>2. Boundary(s, t, n, y) <=> (y <= n - s /\ Whole) \/ (n > s /\ y = n - s) \/ (n > t /\ y = n - t) \/ y = n
    BY DEF Boundary
  <2> HIDE DEF Whole
  <2>3. y \in head <=> n > s /\ y = n - s
    OBVIOUS
  <2>4. y \in tail <=> n > t /\ y = n - t
    BY <1>4
  <2> HIDE DEF head, tail
  <2> QED BY <2>1, <2>2, <2>3, <2>4
<1>7. \A y \in all : y \in Int
  BY <1>4, <1>5
<1>8. Boundaries(s, t, n, n) = all
  <2> HIDE DEF all
  <2> QED BY <1>6, <1>7 DEF Boundaries
<1> HIDE DEF d
<1> QED BY <1>8 DEF ByChunks, Even, head, tail, all

(***************************************************************************)
(* A text and the automaton of its substrings: what the states of a suffix *)
(* automaton stand for, what a chain of links passes, how the automaton    *)
(* grows with a token and where the cursor of the longest repeated suffix  *)
(* goes. Nothing here depends on how SuffixAutomaton computes it.          *)
(***************************************************************************)
Context == Seq(Token)

Nodes(n) == [len : Nat, link : 0..n, trans : [Token -> 0..n], end : Nat]

SamTyped(a, n) ==
  a \in [states : [1..n -> Nodes(n)], last : 1..n, seq : Context, at : 1..n, matched : Nat]

(* From s along the links, to the state that has none unless n states are  *)
(* passed.                                                                 *)
Climbs(ch, Q, n, s) ==
  /\ Len(ch) <= n /\ ch[1] = s
  /\ \A i \in 1..(Len(ch) - 1) : ch[i + 1] = Q[ch[i]].link
  /\ Len(ch) = n \/ Q[ch[Len(ch)]].link = 0

LEMMA MoreStates ==
  ASSUME NEW n \in Nat, NEW m \in Nat, n <= m, NEW q \in Nodes(n)
  PROVE  q \in Nodes(m)
<1>1. 0..n \subseteq 0..m
  OBVIOUS
<1>2. q.trans \in [Token -> 0..n] /\ q.link \in 0..n
  BY DEF Nodes
<1>3. q.trans \in [Token -> 0..m] /\ q.link \in 0..m
  BY <1>1, <1>2
<1> QED BY <1>3 DEF Nodes

LEMMA AppendedStates ==
  ASSUME NEW X, NEW m \in Nat, NEW Q \in [1..m -> X], NEW x \in X
  PROVE  Append(Q, x) \in [1..(m + 1) -> X]
<1>1. Q \in Seq(X) /\ Len(Q) = m
  BY LenProperties
<1>2. Append(Q, x) \in Seq(X) /\ Len(Append(Q, x)) = m + 1
  BY <1>1, AppendProperties
<1> QED BY <1>2, LenProperties, ElementOfSeq

(***************************************************************************)
(* The suffix automaton, and what its states stand for                     *)
(***************************************************************************)
(* The m tokens that end at e in s are those that end at f.                *)
Alike(s, e, f, m) == m <= e /\ m <= f /\ \A i \in 0..(m - 1) : s[e - i] = s[f - i]

LEMMA AlikeSelf ==
  ASSUME NEW s, NEW e \in Nat, NEW m \in Nat, m <= e
  PROVE  Alike(s, e, e, m)
BY DEF Alike

LEMMA AlikeBack ==
  ASSUME NEW s, NEW e \in Nat, NEW f \in Nat, NEW m \in Nat, Alike(s, e, f, m)
  PROVE  Alike(s, f, e, m)
BY DEF Alike

LEMMA AlikeOn ==
  ASSUME NEW s, NEW e \in Nat, NEW f \in Nat, NEW g \in Nat, NEW m \in Nat,
         Alike(s, e, f, m), Alike(s, f, g, m)
  PROVE  Alike(s, e, g, m)
BY DEF Alike

LEMMA AlikeShort ==
  ASSUME NEW s, NEW e \in Nat, NEW f \in Nat, NEW m \in Nat, Alike(s, e, f, m), NEW n \in Nat, n <= m
  PROVE  Alike(s, e, f, n)
BY DEF Alike

LEMMA AlikeNone ==
  ASSUME NEW s, NEW e \in Nat, NEW f \in Nat
  PROVE  Alike(s, e, f, 0)
BY DEF Alike

(* One token more, and one less.                                           *)
LEMMA AlikeMore ==
  ASSUME NEW s, NEW e \in Nat, NEW f \in Nat, NEW m \in Nat, Alike(s, e, f, m), s[e + 1] = s[f + 1]
  PROVE  Alike(s, e + 1, f + 1, m + 1)
<1>1. m + 1 <= e + 1 /\ m + 1 <= f + 1
  BY DEF Alike
<1>2. ASSUME NEW i \in 0..((m + 1) - 1) PROVE s[(e + 1) - i] = s[(f + 1) - i]
  <2>1. CASE i = 0
    <3>1. (e + 1) - i = e + 1 /\ (f + 1) - i = f + 1
      BY <2>1
    <3> QED BY <3>1
  <2>2. CASE i # 0
    <3> DEFINE j == i - 1
    <3>1. j \in 0..(m - 1) /\ (e + 1) - i = e - j /\ (f + 1) - i = f - j
      BY <2>2
    <3> HIDE DEF j
    <3>2. s[e - j] = s[f - j]
      BY <3>1 DEF Alike
    <3> QED BY <3>1, <3>2
  <2> QED BY <2>1, <2>2
<1> QED BY <1>1, <1>2 DEF Alike

LEMMA AlikeLess ==
  ASSUME NEW s, NEW e \in Nat, NEW f \in Nat, NEW m \in Nat, Alike(s, e, f, m), m # 0
  PROVE  /\ e - 1 \in Nat /\ f - 1 \in Nat /\ m - 1 \in Nat
         /\ s[e] = s[f] /\ Alike(s, e - 1, f - 1, m - 1)
<1>1. e - 1 \in Nat /\ f - 1 \in Nat /\ m - 1 \in Nat /\ m - 1 <= e - 1 /\ m - 1 <= f - 1
  BY DEF Alike
<1>2. s[e] = s[f]
  <2>1. 0 \in 0..(m - 1) /\ e - 0 = e /\ f - 0 = f
    BY <1>1
  <2> QED BY <2>1 DEF Alike
<1>3. ASSUME NEW i \in 0..((m - 1) - 1) PROVE s[(e - 1) - i] = s[(f - 1) - i]
  <2>1. i + 1 \in 0..(m - 1) /\ (e - 1) - i = e - (i + 1) /\ (f - 1) - i = f - (i + 1)
    OBVIOUS
  <2> QED BY <2>1 DEF Alike
<1> QED BY <1>1, <1>2, <1>3 DEF Alike

(* One token more behind them makes no difference.                         *)
LEMMA AlikeBefore ==
  ASSUME NEW s \in Context, NEW t \in Token, NEW e \in Nat, NEW f \in Nat, NEW m \in Nat,
         e <= Len(s), f <= Len(s)
  PROVE  Alike(Append(s, t), e, f, m) <=> Alike(s, e, f, m)
<1>1. Len(s) \in Nat /\ \A i \in 1..Len(s) : Append(s, t)[i] = s[i]
  BY LenProperties, AppendProperties DEF Context
<1> SUFFICES ASSUME m <= e, m <= f
             PROVE  Alike(Append(s, t), e, f, m) <=> Alike(s, e, f, m)
  BY DEF Alike
<1>2. ASSUME NEW i \in 0..(m - 1)
      PROVE  Append(s, t)[e - i] = s[e - i] /\ Append(s, t)[f - i] = s[f - i]
  <2> DEFINE n == Len(s)
  <2>1. n \in Nat /\ e <= n /\ f <= n
    BY <1>1
  <2> HIDE DEF n
  <2>2. e - i \in 1..n /\ f - i \in 1..n
    BY <2>1
  <2> QED BY <1>1, <2>2 DEF n
<1> QED BY <1>2 DEF Alike

(* A state stands for the strings that end at its end, and are at most as  *)
(* long as it is and longer than the state it is linked to.                *)
Shortest(Q, x) == IF x = 1 THEN 0 ELSE Q[Q[x].link].len + 1

ClassLengths(Q, x) == Shortest(Q, x)..Q[x].len

Shaped(Q, n, s) ==
  /\ Q[1].len = 0 /\ Q[1].link = 0
  /\ \A x \in 1..n : x # 1 => Q[x].link \in 1..n
  /\ \A x \in 1..n : Shortest(Q, x) <= Q[x].len /\ Q[x].len <= Q[x].end /\ Q[x].end <= Len(s)

(* The link leads to a suffix.                                             *)
LinksTrue(Q, n, s) ==
  \A x \in 1..n : x # 1 => Alike(s, Q[Q[x].link].end, Q[x].end, Q[Q[x].link].len)

(* A transition leads to where its strings go on with its token.           *)
EdgeTrue(Q, s, x, t, y) ==
  /\ y # 1 /\ Q[x].len + 1 <= Q[y].len /\ Shortest(Q, y) <= Shortest(Q, x) + 1
  /\ s[Q[y].end] = t /\ Alike(s, Q[x].end, Q[y].end - 1, Q[x].len)

EdgesTrue(Q, n, s) ==
  \A x \in 1..n : \A t \in Token : Q[x].trans[t] # 0 => EdgeTrue(Q, s, x, t, Q[x].trans[t])

(* There is one for whatever follows a string anywhere.                    *)
EdgesFull(Q, n, s) ==
  \A x \in 1..n : \A e \in 0..(Len(s) - 1) : Alike(s, e, Q[x].end, Q[x].len) => Q[x].trans[s[e + 1]] # 0

(* Where one of its strings ends, its longest ends.                        *)
EndsWhole(Q, n, s) ==
  \A x \in 1..n : \A m \in ClassLengths(Q, x) : \A e \in 0..Len(s) :
    Alike(s, e, Q[x].end, m) => Alike(s, e, Q[x].end, Q[x].len)

(* No string is of two states.                                             *)
StatesDiffer(Q, n, s) ==
  \A x, y \in 1..n : Alike(s, Q[x].end, Q[y].end, Q[x].len) /\ Q[x].len \in ClassLengths(Q, y) => x = y

OfText(Q, n, s) ==
  /\ n \in Nat \ {0} /\ Q \in [1..n -> Nodes(n)] /\ s \in Context
  /\ Shaped(Q, n, s) /\ LinksTrue(Q, n, s) /\ EdgesTrue(Q, n, s)
  /\ EdgesFull(Q, n, s) /\ EndsWhole(Q, n, s) /\ StatesDiffer(Q, n, s)

LEMMA StateFacts ==
  ASSUME NEW n, NEW Q, NEW s, OfText(Q, n, s), NEW x \in 1..n
  PROVE  /\ Q[x].len \in Nat /\ Q[x].end \in Nat /\ Len(s) \in Nat
         /\ Q[x].len <= Q[x].end /\ Q[x].end <= Len(s)
         /\ Shortest(Q, x) \in Nat /\ Shortest(Q, x) <= Q[x].len
         /\ \A t \in Token : Q[x].trans[t] \in 0..n
<1>1. n \in Nat \ {0} /\ Q \in [1..n -> Nodes(n)] /\ s \in Context /\ Shaped(Q, n, s)
  BY DEF OfText
<1>2. \A y \in 1..n : Q[y].len \in Nat /\ Q[y].end \in Nat /\ \A t \in Token : Q[y].trans[t] \in 0..n
  <2> SUFFICES ASSUME NEW y \in 1..n
               PROVE  Q[y].len \in Nat /\ Q[y].end \in Nat /\ \A t \in Token : Q[y].trans[t] \in 0..n
    OBVIOUS
  <2>1. Q[y] \in Nodes(n)
    BY <1>1
  <2> QED BY <2>1 DEF Nodes
<1>3. Shortest(Q, x) \in Nat
  <2>1. CASE x = 1
    BY <2>1 DEF Shortest
  <2>2. CASE x # 1
    <3>1. Q[x].link \in 1..n
      BY <1>1, <2>2 DEF Shaped
    <3>2. Q[Q[x].link].len \in Nat
      BY <1>2, <3>1
    <3> QED BY <2>2, <3>2 DEF Shortest
  <2> QED BY <2>1, <2>2
<1>4. Len(s) \in Nat
  BY <1>1, LenProperties DEF Context
<1>5. Shortest(Q, x) <= Q[x].len /\ Q[x].len <= Q[x].end /\ Q[x].end <= Len(s)
  BY <1>1 DEF Shaped
<1> QED BY <1>2, <1>3, <1>4, <1>5

LEMMA RootFacts ==
  ASSUME NEW n, NEW Q, NEW s, OfText(Q, n, s)
  PROVE  1 \in 1..n /\ Q[1].len = 0 /\ Q[1].link = 0 /\ Shortest(Q, 1) = 0 /\ ClassLengths(Q, 1) = {0}
<1>1. 1 \in 1..n /\ Q[1].len = 0 /\ Q[1].link = 0
  BY DEF OfText, Shaped
<1>2. Shortest(Q, 1) = 0
  BY DEF Shortest
<1> QED BY <1>1, <1>2 DEF ClassLengths

LEMMA LinkFacts ==
  ASSUME NEW n, NEW Q, NEW s, OfText(Q, n, s), NEW x \in 1..n, x # 1
  PROVE  /\ Q[x].link \in 1..n /\ Shortest(Q, x) = Q[Q[x].link].len + 1
         /\ Q[Q[x].link].len < Q[x].len
         /\ Alike(s, Q[Q[x].link].end, Q[x].end, Q[Q[x].link].len)
<1>1. Q[x].link \in 1..n /\ Shortest(Q, x) = Q[Q[x].link].len + 1
  BY DEF OfText, Shaped, Shortest
<1>2. Q[Q[x].link].len \in Nat /\ Q[x].len \in Nat /\ Shortest(Q, x) <= Q[x].len
  BY <1>1, StateFacts
<1>3. Q[Q[x].link].len < Q[x].len
  BY <1>1, <1>2
<1> QED BY <1>1, <1>3 DEF OfText, LinksTrue

(* A string that ends at e is of state x.                                  *)
IsOf(Q, s, x, e, m) == m \in ClassLengths(Q, x) /\ Alike(s, e, Q[x].end, m)

LEMMA IsWhole ==
  ASSUME NEW n, NEW Q, NEW s, OfText(Q, n, s), NEW x \in 1..n, NEW e \in 0..Len(s), NEW m,
         IsOf(Q, s, x, e, m)
  PROVE  m \in Nat /\ m <= Q[x].len /\ Alike(s, e, Q[x].end, Q[x].len)
<1>1. Shortest(Q, x) \in Nat /\ Q[x].len \in Nat
  BY StateFacts
<1>2. m \in Nat /\ m <= Q[x].len
  BY <1>1 DEF IsOf, ClassLengths
<1>3. Alike(s, e, Q[x].end, Q[x].len)
  BY DEF OfText, EndsWhole, IsOf
<1> QED BY <1>2, <1>3

LEMMA OneState ==
  ASSUME NEW n, NEW Q, NEW s, OfText(Q, n, s), NEW x \in 1..n, NEW y \in 1..n,
         NEW e \in 0..Len(s), NEW m, IsOf(Q, s, x, e, m), IsOf(Q, s, y, e, m)
  PROVE  x = y
<1>1. /\ Q[x].len \in Nat /\ Q[x].end \in Nat /\ Q[y].len \in Nat /\ Q[y].end \in Nat
      /\ Shortest(Q, x) \in Nat /\ Shortest(Q, y) \in Nat /\ e \in Nat
  BY StateFacts
<1>2. /\ m \in Nat /\ m <= Q[x].len /\ m <= Q[y].len
      /\ Alike(s, e, Q[x].end, Q[x].len) /\ Alike(s, e, Q[y].end, Q[y].len)
  BY IsWhole
<1>3. Shortest(Q, x) <= m /\ Shortest(Q, y) <= m
  BY <1>1 DEF IsOf, ClassLengths
<1>4. CASE Q[x].len <= Q[y].len
  <2>1. Alike(s, Q[x].end, e, Q[x].len)
    BY <1>1, <1>2, AlikeBack
  <2>2. Alike(s, e, Q[y].end, Q[x].len)
    BY <1>1, <1>2, <1>4, AlikeShort
  <2>3. Alike(s, Q[x].end, Q[y].end, Q[x].len)
    BY <1>1, <2>1, <2>2, AlikeOn
  <2>4. Q[x].len \in ClassLengths(Q, y)
    BY <1>1, <1>2, <1>3, <1>4 DEF ClassLengths
  <2> QED BY <2>3, <2>4 DEF OfText, StatesDiffer
<1>5. CASE Q[y].len <= Q[x].len
  <2>1. Alike(s, Q[y].end, e, Q[y].len)
    BY <1>1, <1>2, AlikeBack
  <2>2. Alike(s, e, Q[x].end, Q[y].len)
    BY <1>1, <1>2, <1>5, AlikeShort
  <2>3. Alike(s, Q[y].end, Q[x].end, Q[y].len)
    BY <1>1, <2>1, <2>2, AlikeOn
  <2>4. Q[y].len \in ClassLengths(Q, x)
    BY <1>1, <1>2, <1>3, <1>5 DEF ClassLengths
  <2> QED BY <2>3, <2>4 DEF OfText, StatesDiffer
<1> QED BY <1>1, <1>4, <1>5

(* What follows a string is a transition of its state.                     *)
LEMMA Continues ==
  ASSUME NEW n, NEW Q, NEW s, OfText(Q, n, s), NEW x \in 1..n, NEW e \in 0..(Len(s) - 1), NEW m,
         IsOf(Q, s, x, e, m)
  PROVE  s[e + 1] \in Token /\ Q[x].trans[s[e + 1]] # 0
<1>1. Len(s) \in Nat /\ s \in Seq(Token)
  BY StateFacts DEF OfText, Context
<1>2. e \in 0..Len(s) /\ e + 1 \in 1..Len(s)
  BY <1>1
<1>3. Alike(s, e, Q[x].end, Q[x].len)
  BY <1>2, IsWhole
<1>4. s[e + 1] \in Token
  BY <1>1, <1>2, ElementOfSeq
<1> QED BY <1>3, <1>4 DEF OfText, EdgesFull

(* What holds of 1, and of i + 1 if it holds of i, holds up to n.          *)
LEMMA OneByOne ==
  ASSUME NEW n \in Nat, NEW T, 1 \in T, \A i \in 1..(n - 1) : i \in T => i + 1 \in T
  PROVE  \A i \in 1..n : i \in T
<1> DEFINE Bad == {i \in 1..n : i \notin T}
<1>1. Bad \in SUBSET Int /\ IsFiniteSet(Bad)
  <2>1. IsFiniteSet(1..n) /\ Bad \subseteq 1..n /\ 1..n \subseteq Int
    BY FS_Interval
  <2> HIDE DEF Bad
  <2> QED BY <2>1, FS_Subset
<1>2. ASSUME Bad # {} PROVE FALSE
  <2>1. PICK m \in Bad : \A k \in Bad : m <= k
    <3> HIDE DEF Bad
    <3> QED BY <1>1, <1>2, LeastExists
  <2>2. m \in 1..n /\ m \notin T
    BY <2>1
  <2>3. m # 1
    BY <2>2
  <2>4. m - 1 \in 1..(n - 1) /\ m - 1 \in 1..n /\ (m - 1) + 1 = m /\ ~(m <= m - 1)
    BY <2>2, <2>3
  <2>5. m - 1 \in T
    BY <2>1, <2>4
  <2> QED BY <2>2, <2>4, <2>5
<1> QED BY <1>2

(* The states of the suffixes of the strings of c, from the longest to the *)
(* empty one.                                                              *)
Goes(ch, Q, n, c) ==
  /\ ch \in Seq(1..n) /\ Len(ch) \in Nat \ {0}
  /\ ch[1] = c /\ ch[Len(ch)] = 1
  /\ \A i \in 1..Len(ch) : ch[i] \in 1..n
  /\ \A i \in 1..(Len(ch) - 1) : ch[i] # 1 /\ ch[i + 1] = Q[ch[i]].link

Falls(ch, Q) ==
  \A i, j \in 1..Len(ch) : i < j => Q[ch[j]].len < Shortest(Q, ch[i])

LEMMA ChainFalls ==
  ASSUME NEW n, NEW Q, NEW s, OfText(Q, n, s), NEW ch \in Seq(1..n),
         \A i \in 1..(Len(ch) - 1) : ch[i] # 1 /\ ch[i + 1] = Q[ch[i]].link
  PROVE  Falls(ch, Q)
<1>1. Len(ch) \in Nat /\ \A i \in 1..Len(ch) : ch[i] \in 1..n
  BY LenProperties, ElementOfSeq
<1> DEFINE N == Len(ch)
           T == {j \in 1..N : \A i \in 1..N : i < j => Q[ch[j]].len < Shortest(Q, ch[i])}
<1>2. \A i \in 1..N : Q[ch[i]].len \in Nat /\ Shortest(Q, ch[i]) \in Nat /\ Shortest(Q, ch[i]) <= Q[ch[i]].len
  BY <1>1, StateFacts
<1>3. \A i \in 1..(N - 1) : i \in 1..N /\ i + 1 \in 1..N /\ Q[ch[i + 1]].len < Shortest(Q, ch[i])
  <2> SUFFICES ASSUME NEW i \in 1..(N - 1)
               PROVE  i \in 1..N /\ i + 1 \in 1..N /\ Q[ch[i + 1]].len < Shortest(Q, ch[i])
    OBVIOUS
  <2>1. i \in 1..N /\ i + 1 \in 1..N
    BY <1>1
  <2>2. ch[i] \in 1..n /\ ch[i] # 1 /\ ch[i + 1] = Q[ch[i]].link
    BY <1>1, <2>1
  <2>3. Shortest(Q, ch[i]) = Q[ch[i + 1]].len + 1
    BY <2>2, LinkFacts
  <2>4. Q[ch[i + 1]].len \in Nat
    BY <1>2, <2>1
  <2> QED BY <2>1, <2>3, <2>4
<1>4. N \in Nat
  BY <1>1
<1> HIDE DEF N
<1>5. CASE N = 0
  BY <1>5 DEF Falls, N
<1>6. CASE N # 0
  <2>1. 1 \in T
    BY <1>4, <1>6
  <2>2. ASSUME NEW j \in 1..(N - 1), j \in T PROVE j + 1 \in T
    <3>1. j \in 1..N /\ j + 1 \in 1..N /\ Q[ch[j + 1]].len < Shortest(Q, ch[j])
      BY <1>3
    <3>2. ASSUME NEW i \in 1..N, i < j + 1 PROVE Q[ch[j + 1]].len < Shortest(Q, ch[i])
      <4>1. CASE i = j
        BY <3>1, <4>1
      <4>2. CASE i # j
        <5>1. i < j
          BY <3>2, <4>2
        <5>2. Q[ch[j]].len < Shortest(Q, ch[i])
          BY <2>2, <5>1
        <5>3. /\ Q[ch[j + 1]].len \in Nat /\ Shortest(Q, ch[j]) \in Nat /\ Q[ch[j]].len \in Nat
              /\ Shortest(Q, ch[i]) \in Nat /\ Shortest(Q, ch[j]) <= Q[ch[j]].len
          BY <1>2, <3>1
        <5> QED BY <3>1, <5>2, <5>3
      <4> QED BY <4>1, <4>2
    <3> QED BY <3>1, <3>2
  <2> HIDE DEF T
  <2>3. \A j \in 1..N : j \in T
    BY <1>4, <2>1, <2>2, OneByOne
  <2> QED BY <2>3 DEF Falls, N, T
<1> QED BY <1>5, <1>6

LEMMA ChainAlike ==
  ASSUME NEW n, NEW Q, NEW s, OfText(Q, n, s), NEW c \in 1..n, NEW ch, Goes(ch, Q, n, c), Falls(ch, Q)
  PROVE  \A i \in 1..Len(ch) : /\ ch[i] \in 1..n /\ Q[ch[i]].len <= Q[c].len
                               /\ Alike(s, Q[ch[i]].end, Q[c].end, Q[ch[i]].len)
<1> DEFINE N == Len(ch)
           Good(i) == Alike(s, Q[ch[i]].end, Q[c].end, Q[ch[i]].len)
           T == {i \in 1..N : Good(i)}
<1>1. N \in Nat \ {0} /\ ch[1] = c /\ \A i \in 1..N : ch[i] \in 1..n
  BY DEF Goes
<1>2. \A i \in 1..N : Q[ch[i]].len \in Nat /\ Q[ch[i]].end \in Nat /\ Q[ch[i]].len <= Q[ch[i]].end
  BY <1>1, StateFacts
<1>3. Q[c].len \in Nat /\ Q[c].end \in Nat /\ Q[c].len <= Q[c].end /\ Shortest(Q, c) <= Q[c].len
      /\ Shortest(Q, c) \in Nat
  BY StateFacts
<1>4. \A i \in 1..(N - 1) : ch[i] # 1 /\ ch[i + 1] = Q[ch[i]].link
  BY DEF Goes
<1>5. \A i \in 1..N : 1 < i => Q[ch[i]].len < Shortest(Q, c)
  BY <1>1 DEF Falls
<1> HIDE DEF N
<1>6. ASSUME NEW i \in 1..N PROVE Q[ch[i]].len <= Q[c].len
  <2>1. CASE i = 1
    BY <1>1, <1>3, <2>1
  <2>2. CASE i # 1
    <3>1. 1 < i
      BY <2>2
    <3> QED BY <1>2, <1>3, <1>5, <3>1
  <2> QED BY <2>1, <2>2
<1>7. 1 \in T
  <2>1. Good(1)
    BY <1>1, <1>3, AlikeSelf
  <2> QED BY <1>1, <2>1
<1>8. ASSUME NEW i \in 1..(N - 1), i \in T PROVE i + 1 \in T
  <2>1. i \in 1..N /\ i + 1 \in 1..N
    BY <1>1
  <2> DEFINE x == ch[i]
             y == ch[i + 1]
  <2>2. x \in 1..n /\ x # 1 /\ y = Q[x].link
    BY <1>1, <1>4, <2>1
  <2>3. Alike(s, Q[x].end, Q[c].end, Q[x].len)
    BY <1>8
  <2>4. /\ Q[x].len \in Nat /\ Q[x].end \in Nat /\ Q[y].len \in Nat /\ Q[y].end \in Nat
    BY <1>2, <2>1
  <2> HIDE DEF x, y
  <2>5. Q[y].len < Q[x].len /\ Alike(s, Q[y].end, Q[x].end, Q[y].len)
    BY <2>2, LinkFacts
  <2>6. Alike(s, Q[x].end, Q[c].end, Q[y].len)
    BY <1>3, <2>3, <2>4, <2>5, AlikeShort
  <2>7. Alike(s, Q[y].end, Q[c].end, Q[y].len)
    BY <1>3, <2>4, <2>5, <2>6, AlikeOn
  <2> QED BY <2>1, <2>7 DEF y
<1> HIDE DEF T
<1>9. \A i \in 1..N : i \in T
  BY <1>1, <1>7, <1>8, OneByOne
<1> QED BY <1>1, <1>6, <1>9 DEF T, N

(* A suffix of what c stands for is of one of the chain.                   *)
LEMMA Descends ==
  ASSUME NEW n, NEW Q, NEW s, OfText(Q, n, s), NEW c \in 1..n, NEW ch, Goes(ch, Q, n, c), Falls(ch, Q),
         NEW e \in 0..Len(s), NEW m \in Nat, m <= Q[c].len, Alike(s, e, Q[c].end, m)
  PROVE  \E i \in 1..Len(ch) : IsOf(Q, s, ch[i], e, m)
<1> DEFINE N == Len(ch)
           T == {i \in 1..N : m <= Q[ch[i]].len}
<1>1. N \in Nat \ {0} /\ ch[1] = c /\ ch[N] = 1 /\ \A i \in 1..N : ch[i] \in 1..n
  BY DEF Goes
<1>2. /\ \A i \in 1..N : ch[i] \in 1..n /\ Alike(s, Q[ch[i]].end, Q[c].end, Q[ch[i]].len)
      /\ \A i \in 1..(N - 1) : ch[i] # 1 /\ ch[i + 1] = Q[ch[i]].link
  BY ChainAlike DEF Goes
<1> HIDE DEF N
<1>3. T \in SUBSET Int /\ IsFiniteSet(T) /\ 1 \in T
  <2>1. IsFiniteSet(1..N) /\ T \subseteq 1..N /\ 1..N \subseteq Int
    BY <1>1, FS_Interval
  <2>2. 1 \in T
    BY <1>1
  <2> HIDE DEF T
  <2> QED BY <2>1, <2>2, FS_Subset
<1>4. PICK i \in T : \A j \in T : j <= i
  <2> HIDE DEF T
  <2> QED BY <1>3, GreatestExists
<1> DEFINE x == ch[i]
<1>5. i \in 1..N /\ m <= Q[x].len /\ x \in 1..n
  BY <1>1, <1>4
<1>6. /\ Q[x].len \in Nat /\ Q[x].end \in Nat /\ Q[c].end \in Nat /\ Shortest(Q, x) \in Nat
      /\ e \in Nat
  BY <1>5, StateFacts
<1>7. Shortest(Q, x) <= m
  <2>1. CASE i = N
    <3>1. x = 1
      BY <1>1, <2>1
    <3> QED BY <3>1, RootFacts
  <2>2. CASE i # N
    <3>1. i \in 1..(N - 1) /\ i + 1 \in 1..N /\ ~(i + 1 <= i)
      BY <1>1, <1>5, <2>2
    <3>2. x # 1 /\ ch[i + 1] = Q[x].link
      BY <1>2, <3>1
    <3>3. ~(m <= Q[ch[i + 1]].len)
      BY <1>4, <3>1
    <3>4. Shortest(Q, x) = Q[ch[i + 1]].len + 1
      BY <1>5, <3>2, LinkFacts
    <3>5. Q[ch[i + 1]].len \in Nat
      BY <1>1, <3>1, StateFacts
    <3> QED BY <3>3, <3>4, <3>5
  <2> QED BY <2>1, <2>2
<1>8. Alike(s, e, Q[x].end, m)
  <2>1. Alike(s, Q[x].end, Q[c].end, Q[x].len)
    BY <1>2, <1>5
  <2> HIDE DEF x
  <2>2. Alike(s, Q[x].end, Q[c].end, m)
    BY <1>5, <1>6, <2>1, AlikeShort
  <2>3. Alike(s, Q[c].end, Q[x].end, m)
    BY <1>6, <2>2, AlikeBack
  <2> QED BY <1>6, <2>3, AlikeOn
<1>9. IsOf(Q, s, x, e, m)
  <2> HIDE DEF x
  <2> QED BY <1>5, <1>6, <1>7, <1>8 DEF IsOf, ClassLengths
<1> QED BY <1>5, <1>9 DEF N

(* The chain is all states whose strings are suffixes of what c stands for.*)
LEMMA OnChain ==
  ASSUME NEW n, NEW Q, NEW s, OfText(Q, n, s), NEW c \in 1..n, NEW ch, Goes(ch, Q, n, c), Falls(ch, Q),
         NEW x \in 1..n, Q[x].len <= Q[c].len, Alike(s, Q[x].end, Q[c].end, Q[x].len)
  PROVE  \E i \in 1..Len(ch) : ch[i] = x
<1> DEFINE e == Q[x].end
           m == Q[x].len
<1>1. e \in 0..Len(s) /\ m \in Nat /\ m <= e /\ e \in Nat /\ m \in ClassLengths(Q, x)
  BY StateFacts DEF ClassLengths
<1>2. m <= Q[c].len /\ Alike(s, e, Q[c].end, m)
  OBVIOUS
<1>3. IsOf(Q, s, x, e, m)
  <2>1. Alike(s, e, e, m)
    <3> HIDE DEF e, m
    <3> QED BY <1>1, AlikeSelf
  <2> QED BY <1>1, <2>1 DEF IsOf
<1> HIDE DEF e, m
<1>4. PICK i \in 1..Len(ch) : IsOf(Q, s, ch[i], e, m)
  BY <1>1, <1>2, Descends
<1>5. ch[i] \in 1..n
  BY DEF Goes
<1>6. ch[i] = x
  BY <1>1, <1>3, <1>4, <1>5, OneState
<1> QED BY <1>6

(* k is the place of the first state of ch that goes on with t, or 0.      *)
FirstOn(k, Q, ch, t) ==
  /\ k \in 0..Len(ch)
  /\ k # 0 => k \in 1..Len(ch) /\ Q[ch[k]].trans[t] # 0
  /\ \A i \in 1..Len(ch) : k = 0 \/ i < k => Q[ch[i]].trans[t] = 0

(* A suffix of what c stands for that went on with t somewhere is of a     *)
(* state of the chain that goes on with t.                                 *)
LEMMA WentOn ==
  ASSUME NEW n, NEW Q, NEW s, OfText(Q, n, s), NEW c \in 1..n, NEW ch, Goes(ch, Q, n, c), Falls(ch, Q),
         NEW t, NEW k, FirstOn(k, Q, ch, t),
         NEW e \in 0..(Len(s) - 1), s[e + 1] = t, NEW m \in Nat, m <= Q[c].len,
         Alike(s, e, Q[c].end, m)
  PROVE  /\ k \in 1..Len(ch) /\ m <= Q[ch[k]].len
         /\ \E i \in k..Len(ch) : IsOf(Q, s, ch[i], e, m)
<1>1. Len(s) \in Nat /\ Len(ch) \in Nat /\ \A i \in 1..Len(ch) : ch[i] \in 1..n
  BY RootFacts, StateFacts DEF Goes
<1>2. e \in 0..Len(s)
  BY <1>1
<1>3. PICK i \in 1..Len(ch) : IsOf(Q, s, ch[i], e, m)
  BY <1>2, Descends
<1>4. Q[ch[i]].trans[t] # 0
  BY <1>1, <1>3, Continues
<1>5. k \in 1..Len(ch) /\ k <= i
  <2>1. k # 0 /\ ~(i < k) /\ k \in 0..Len(ch)
    BY <1>4 DEF FirstOn
  <2> QED BY <1>1, <2>1
<1>6. i \in k..Len(ch)
  BY <1>1, <1>5
<1>7. m <= Q[ch[i]].len
  BY <1>1, <1>2, <1>3, IsWhole
<1>8. Q[ch[i]].len <= Q[ch[k]].len
  <2>1. CASE i = k
    <3>1. Q[ch[k]].len \in Nat
      BY <1>1, <1>5, StateFacts
    <3> QED BY <2>1, <3>1
  <2>2. CASE i # k
    <3>1. k < i
      BY <1>1, <1>5, <2>2
    <3>2. Q[ch[i]].len < Shortest(Q, ch[k])
      BY <1>5, <3>1 DEF Falls
    <3>3. Q[ch[i]].len \in Nat /\ Q[ch[k]].len \in Nat /\ Shortest(Q, ch[k]) \in Nat
          /\ Shortest(Q, ch[k]) <= Q[ch[k]].len
      BY <1>1, <1>5, StateFacts
    <3> QED BY <3>2, <3>3
  <2> QED BY <2>1, <2>2
<1>9. m <= Q[ch[k]].len
  <2>1. Q[ch[i]].len \in Nat /\ Q[ch[k]].len \in Nat
    BY <1>1, <1>5, StateFacts
  <2> QED BY <1>7, <1>8, <2>1
<1> QED BY <1>3, <1>5, <1>6, <1>9

(* The text is about to go on with t.                                      *)
Ready(Q, n, s, t, c, ch, k) ==
  /\ OfText(Q, n, s) /\ t \in Token
  /\ c \in 1..n /\ Q[c].len = Len(s)
  /\ Goes(ch, Q, n, c) /\ Falls(ch, Q) /\ FirstOn(k, Q, ch, t)

LEMMA ReadyFacts ==
  ASSUME NEW Q, NEW n, NEW s, NEW t, NEW c, NEW ch, NEW k, Ready(Q, n, s, t, c, ch, k)
  PROVE  /\ OfText(Q, n, s) /\ t \in Token /\ s \in Context /\ Len(s) \in Nat
         /\ Append(s, t) \in Context /\ Len(Append(s, t)) = Len(s) + 1
         /\ Append(s, t)[Len(s) + 1] = t /\ \A e \in 1..Len(s) : Append(s, t)[e] = s[e]
         /\ Q[c].end = Len(s) /\ Len(ch) \in Nat
<1>1. OfText(Q, n, s) /\ t \in Token /\ s \in Context /\ c \in 1..n /\ Q[c].len = Len(s)
  BY DEF Ready, OfText
<1>2. Len(s) \in Nat /\ Q[c].end \in Nat /\ Q[c].len <= Q[c].end /\ Q[c].end <= Len(s)
  BY <1>1, StateFacts
<1>3. Q[c].end = Len(s)
  BY <1>1, <1>2
<1>4. /\ Append(s, t) \in Context /\ Len(Append(s, t)) = Len(s) + 1
      /\ Append(s, t)[Len(s) + 1] = t /\ \A e \in 1..Len(s) : Append(s, t)[e] = s[e]
  BY <1>1, AppendProperties DEF Context
<1>5. Len(ch) \in Nat
  BY DEF Ready, Goes
<1> QED BY <1>1, <1>2, <1>3, <1>4, <1>5

(* A suffix of what it will be occurred before only if it is no longer than*)
(* the first state that goes on with t, and t.                             *)
LEMMA Recurs ==
  ASSUME NEW Q, NEW n, NEW s, NEW t, NEW c, NEW ch, NEW k, Ready(Q, n, s, t, c, ch, k),
         NEW e \in 0..Len(s), NEW m \in Nat \ {0}, Alike(Append(s, t), e, Len(s) + 1, m)
  PROVE  k \in 1..Len(ch) /\ m <= Q[ch[k]].len + 1
<1> DEFINE N == Len(s)
           u == Append(s, t)
<1>1. /\ OfText(Q, n, s) /\ t \in Token /\ s \in Context /\ N \in Nat
      /\ u[N + 1] = t /\ \A i \in 1..N : u[i] = s[i]
      /\ Q[c].end = N
  BY ReadyFacts
<1>2. c \in 1..n /\ Q[c].len = N /\ Goes(ch, Q, n, c) /\ Falls(ch, Q) /\ FirstOn(k, Q, ch, t)
  BY DEF Ready
<1>3. Alike(u, e, N + 1, m)
  OBVIOUS
<1> HIDE DEF N, u
<1>4. /\ e - 1 \in Nat /\ m - 1 \in Nat /\ u[e] = u[N + 1]
      /\ Alike(u, e - 1, N, m - 1)
  <2>1. e \in Nat /\ N + 1 \in Nat /\ m \in Nat /\ m # 0
    BY <1>1 DEF N
  <2>2. /\ e - 1 \in Nat /\ m - 1 \in Nat /\ u[e] = u[N + 1]
        /\ Alike(u, e - 1, (N + 1) - 1, m - 1)
    BY <1>3, <2>1, AlikeLess
  <2>3. (N + 1) - 1 = N
    BY <1>1
  <2> QED BY <2>2, <2>3
<1> DEFINE d == e - 1
           l == m - 1
<1>5. d \in 0..(N - 1) /\ d + 1 = e /\ e \in 1..N /\ d \in Nat /\ d <= N /\ l \in Nat /\ N <= N
  BY <1>1, <1>4 DEF N
<1> HIDE DEF d, l
<1>6. s[d + 1] = t
  BY <1>1, <1>4, <1>5
<1>7. Alike(s, d, Q[c].end, l)
  <2>1. Alike(Append(s, t), d, N, l)
    BY <1>4 DEF u, d, l
  <2>2. Alike(s, d, N, l)
    BY <1>1, <1>5, <2>1, AlikeBefore DEF N
  <2> QED BY <1>1, <2>2
<1>8. l <= Q[c].len
  BY <1>1, <1>2, <1>5, <1>7 DEF Alike
<1>9. k \in 1..Len(ch) /\ l <= Q[ch[k]].len
  BY <1>1, <1>2, <1>5, <1>6, <1>7, <1>8, WentOn DEF N
<1>10. ch[k] \in 1..n
  BY <1>2, <1>9 DEF Goes
<1>11. Q[ch[k]].len \in Nat
  BY <1>1, <1>10, StateFacts
<1> QED BY <1>9, <1>11 DEF l

(* That string did occur before.                                           *)
LEMMA RecursThere ==
  ASSUME NEW Q, NEW n, NEW s, NEW t, NEW c, NEW ch, NEW k, Ready(Q, n, s, t, c, ch, k), k # 0
  PROVE  LET p == ch[k]
             q == Q[p].trans[t]
         IN  /\ p \in 1..n /\ q \in 1..n /\ q # 1 /\ Q[p].len + 1 <= Q[q].len
             /\ Q[p].len + 1 \in ClassLengths(Q, q)
             /\ Alike(Append(s, t), Q[q].end, Len(s) + 1, Q[p].len + 1)
<1> DEFINE N == Len(s)
           u == Append(s, t)
           p == ch[k]
           q == Q[p].trans[t]
<1>1. /\ OfText(Q, n, s) /\ t \in Token /\ s \in Context /\ N \in Nat
      /\ u[N + 1] = t /\ \A i \in 1..N : u[i] = s[i]
      /\ Q[c].end = N
  BY ReadyFacts
<1>2. c \in 1..n /\ Q[c].len = N /\ Goes(ch, Q, n, c) /\ Falls(ch, Q) /\ k \in 1..Len(ch) /\ q # 0
  BY DEF Ready, FirstOn
<1>3. p \in 1..n /\ Alike(s, Q[p].end, Q[c].end, Q[p].len)
  BY <1>1, <1>2, ChainAlike
<1> HIDE DEF p
<1>4. q \in 1..n /\ EdgeTrue(Q, s, p, t, q)
  <2>1. n \in Nat /\ q \in 0..n
    BY <1>1, <1>3, StateFacts DEF OfText
  <2>2. q \in 1..n
    BY <1>2, <2>1
  <2> QED BY <1>1, <1>2, <1>3, <2>2 DEF OfText, EdgesTrue
<1> HIDE DEF q, N, u
<1>5. /\ Q[p].len \in Nat /\ Q[q].len \in Nat /\ Shortest(Q, p) \in Nat /\ Shortest(Q, q) \in Nat
      /\ Shortest(Q, p) <= Q[p].len /\ Q[p].end \in Nat /\ Q[q].end \in Nat /\ Q[q].end <= N
      /\ Q[q].len <= Q[q].end
  BY <1>1, <1>3, <1>4, StateFacts DEF N
<1>6. /\ q # 1 /\ Q[p].len + 1 <= Q[q].len /\ Shortest(Q, q) <= Shortest(Q, p) + 1
      /\ s[Q[q].end] = t /\ Alike(s, Q[p].end, Q[q].end - 1, Q[p].len)
  BY <1>4 DEF EdgeTrue
<1>7. Q[p].len + 1 \in ClassLengths(Q, q)
  <2>1. Shortest(Q, q) <= Q[p].len + 1
    BY <1>5, <1>6
  <2> QED BY <1>5, <1>6, <2>1 DEF ClassLengths
<1> DEFINE d == Q[q].end - 1
           l == Q[p].len
           f == Q[p].end
<1>8. d \in Nat /\ d + 1 = Q[q].end /\ d + 1 \in 1..N /\ d <= N /\ l \in Nat /\ f \in Nat
  <2>1. Q[p].len + 1 <= Q[q].len
    BY <1>6
  <2>2. N \in Nat
    BY <1>1
  <2> QED BY <1>5, <2>1, <2>2
<1>9. Alike(s, f, d, l) /\ Alike(s, f, N, l)
  BY <1>1, <1>3, <1>6
<1>10. s[d + 1] = t
  BY <1>6, <1>8
<1> HIDE DEF d, f, l
<1>11. Alike(s, d, N, l)
  <2>1. Alike(s, d, f, l)
    BY <1>8, <1>9, AlikeBack
  <2> QED BY <1>1, <1>8, <1>9, <2>1, AlikeOn
<1>12. Alike(u, d, N, l)
  <2>1. N <= N
    BY <1>1
  <2> QED BY <1>1, <1>8, <1>11, <2>1, AlikeBefore DEF u, N
<1>13. u[d + 1] = u[N + 1]
  BY <1>1, <1>8, <1>10
<1>14. Alike(u, d + 1, N + 1, l + 1)
  BY <1>1, <1>8, <1>12, <1>13, AlikeMore
<1> QED BY <1>3, <1>4, <1>6, <1>7, <1>8, <1>14 DEF p, q, u, N, l

(* The states of ch that do not go on with t come before the first one     *)
(* that does.                                                              *)
LEMMA BeforeFirst ==
  ASSUME NEW Q, NEW n, NEW s, NEW t, NEW c, NEW ch, NEW k, Ready(Q, n, s, t, c, ch, k),
         NEW i \in 1..Len(ch), Q[ch[i]].trans[t] = 0
  PROVE  k = 0 \/ i < k
<1> DEFINE N == Len(s)
<1>1. Ready(Q, n, s, t, c, ch, k)
  OBVIOUS
<1>2. OfText(Q, n, s) /\ s \in Context /\ t \in Token /\ N \in Nat /\ Q[c].end = N
  BY ReadyFacts
<1>3. /\ c \in 1..n /\ Q[c].len = N /\ Goes(ch, Q, n, c) /\ Falls(ch, Q) /\ FirstOn(k, Q, ch, t)
  BY DEF Ready
<1>4. i # k
  BY <1>3 DEF FirstOn
<1>5. ASSUME k # 0 PROVE ~(k < i)
  <2> SUFFICES ASSUME k < i PROVE FALSE
    OBVIOUS
  <2>1. k \in 1..Len(ch) /\ Q[ch[k]].trans[t] # 0
    BY <1>3, <1>5 DEF FirstOn
  <2> DEFINE p == ch[k]
             q == Q[p].trans[t]
  <2>2. p \in 1..n /\ q \in 1..n /\ EdgeTrue(Q, s, p, t, q)
    <3>1. p \in 1..n /\ q \in 1..n
      BY <1>1, <1>5, RecursThere
    <3> QED BY <1>2, <2>1, <3>1 DEF OfText, EdgesTrue
  <2>3. s[Q[q].end] = t /\ Alike(s, Q[p].end, Q[q].end - 1, Q[p].len) /\ Q[p].len + 1 <= Q[q].len
    BY <2>2 DEF EdgeTrue
  <2>4. /\ ch[i] \in 1..n /\ Alike(s, Q[ch[i]].end, Q[c].end, Q[ch[i]].len)
        /\ Alike(s, Q[p].end, Q[c].end, Q[p].len)
    BY <1>2, <1>3, <2>1, ChainAlike
  <2>5. /\ Q[p].len \in Nat /\ Q[p].end \in Nat /\ Q[q].len \in Nat /\ Q[q].end \in Nat
        /\ Q[q].len <= Q[q].end /\ Q[q].end <= N /\ Shortest(Q, p) \in Nat /\ Shortest(Q, p) <= Q[p].len
        /\ Q[ch[i]].len \in Nat /\ Q[ch[i]].end \in Nat
    BY <1>2, <2>2, <2>4, StateFacts
  <2>6. Q[ch[i]].len < Shortest(Q, p)
    BY <1>3, <1>5, <2>1 DEF Falls
  <2> DEFINE z == Q[q].end
             e == z - 1
             m == Q[ch[i]].len
             f == Q[p].end
             g == Q[ch[i]].end
             l == Q[p].len
  <2>7. e \in 0..(N - 1) /\ e \in Nat /\ m \in Nat /\ m <= l /\ e + 1 = z /\ f \in Nat /\ g \in Nat
        /\ l \in Nat
    <3> DEFINE h == Q[q].len
               j == Shortest(Q, p)
    <3>1. l + 1 <= h
      BY <2>3
    <3>2. N \in Nat
      BY <1>2
    <3>3. m < j /\ j <= l /\ h <= z /\ z <= N /\ m \in Nat /\ l \in Nat /\ h \in Nat /\ z \in Nat /\ j \in Nat
          /\ f \in Nat /\ g \in Nat
      BY <2>5, <2>6
    <3> HIDE DEF h, j, m, l, z, f, g, N
    <3> QED BY <3>1, <3>2, <3>3
  <2>8. s[e + 1] = t /\ Alike(s, f, e, l) /\ Alike(s, g, N, m) /\ Alike(s, f, N, l)
    BY <1>2, <2>3, <2>4, <2>7
  <2> HIDE DEF z, e, m, f, g, l, p, q, N
  <2>9. Alike(s, e, g, m)
    <3>1. Alike(s, f, e, m) /\ Alike(s, f, N, m)
      BY <1>2, <2>7, <2>8, AlikeShort
    <3>2. Alike(s, e, f, m) /\ Alike(s, N, g, m)
      BY <1>2, <2>7, <2>8, <3>1, AlikeBack
    <3>3. Alike(s, e, N, m)
      BY <1>2, <2>7, <3>1, <3>2, AlikeOn
    <3> QED BY <1>2, <2>7, <3>2, <3>3, AlikeOn
  <2>10. Q[ch[i]].trans[s[e + 1]] # 0
    BY <1>2, <2>4, <2>7, <2>9 DEF OfText, EdgesFull, g, m, N
  <2> QED BY <2>8, <2>10
<1>6. k \in Nat /\ i \in Nat
  BY <1>3 DEF FirstOn, Goes
<1> QED BY <1>4, <1>5, <1>6

(***************************************************************************)
(* The states R of a text that went on with a token                        *)
(***************************************************************************)
(* v is the state of the whole text, and any other x stands for some of    *)
(* what its origin o[x] stood for, at the same place.                      *)
Originate(R, d, v, o, Q, n) ==
  /\ d \in Nat \ {0} /\ R \in [1..d -> Nodes(d)] /\ v \in 1..d /\ v # 1
  /\ o \in [1..d -> 1..n] /\ o[1] = 1
  /\ \A x \in 1..d : x # v =>
       /\ R[x].end = Q[o[x]].end /\ Shortest(Q, o[x]) <= Shortest(R, x)
       /\ Shortest(R, x) <= R[x].len /\ R[x].len <= Q[o[x]].len

Divided(R, d, v, o) ==
  \A x, y \in 1..d : x # v /\ y # v /\ o[x] = o[y] /\ R[x].len \in ClassLengths(R, y) => x = y

CutOff(R, d, v, o, q, l) ==
  \A x \in 1..d : x # v /\ o[x] = q /\ Shortest(R, x) <= l => R[x].len <= l

Linked(R, d, v, s) ==
  /\ R[1].len = 0 /\ R[1].link = 0
  /\ \A x \in 1..d : x # 1 /\ x # v =>
       /\ R[x].link \in 1..d /\ R[x].link # v
       /\ Alike(s, R[R[x].link].end, R[x].end, R[R[x].link].len)

(* A state that stands for a suffix and did not go on with t does now.     *)
Gains(x, Q, ch, t) == Q[x].trans[t] = 0 /\ \E i \in 1..Len(ch) : ch[i] = x

Carried(R, d, v, o, Q, ch, t) ==
  \A x \in 1..d : x # v => \A u \in Token :
    IF u = t /\ Gains(o[x], Q, ch, t) THEN R[x].trans[u] = v
    ELSE IF Q[o[x]].trans[u] = 0 THEN R[x].trans[u] = 0
    ELSE LET y == R[x].trans[u]
         IN  /\ y \in 1..d /\ y # v /\ o[y] = Q[o[x]].trans[u]
             /\ R[x].len + 1 <= R[y].len /\ Shortest(R, y) <= Shortest(R, x) + 1

WholeText(R, d, v, o, Q, s, ch, k, t) ==
  /\ R[v].len = Len(s) + 1 /\ R[v].end = Len(s) + 1 /\ \A u \in Token : R[v].trans[u] = 0
  /\ R[v].link \in 1..d /\ R[v].link # v
  /\ k = 0 => R[v].link = 1
  /\ k # 0 => /\ R[R[v].link].len = Q[ch[k]].len + 1
              /\ o[R[v].link] = Q[ch[k]].trans[t]

SamGrows(R, d, v, o, Q, n, s, t, c, ch, k) ==
  /\ Ready(Q, n, s, t, c, ch, k)
  /\ Originate(R, d, v, o, Q, n) /\ Divided(R, d, v, o) /\ Linked(R, d, v, s)
  /\ Carried(R, d, v, o, Q, ch, t) /\ WholeText(R, d, v, o, Q, s, ch, k, t)
  /\ k # 0 => CutOff(R, d, v, o, Q[ch[k]].trans[t], Q[ch[k]].len + 1)

LEMMA GrownStates ==
  ASSUME NEW R, NEW d, NEW v, NEW o, NEW Q, NEW n, NEW s, NEW t, NEW c, NEW ch, NEW k,
         SamGrows(R, d, v, o, Q, n, s, t, c, ch, k)
  PROVE  /\ \A x \in 1..d : R[x].len \in Nat /\ R[x].end \in Nat /\ \A u \in Token : R[x].trans[u] \in 0..d
         /\ \A x \in 1..d : x # v =>
              /\ o[x] \in 1..n /\ R[x].end = Q[o[x]].end /\ R[x].end \in 0..Len(s) /\ R[x].len <= R[x].end
              /\ Q[o[x]].len \in Nat /\ R[x].len <= Q[o[x]].len /\ R[x].len \in ClassLengths(Q, o[x])
              /\ Shortest(Q, o[x]) <= Shortest(R, x) /\ Shortest(Q, o[x]) \in Nat
              /\ Shortest(R, x) \in Nat /\ Shortest(R, x) <= R[x].len
              /\ \A m \in ClassLengths(R, x) : m \in ClassLengths(Q, o[x]) /\ m \in Nat /\ m <= R[x].len /\ Shortest(R, x) <= m
<1>1. Ready(Q, n, s, t, c, ch, k) /\ Originate(R, d, v, o, Q, n) /\ Linked(R, d, v, s)
  BY DEF SamGrows
<1>2. OfText(Q, n, s) /\ Len(s) \in Nat
  BY <1>1, ReadyFacts
<1>3. ASSUME NEW x \in 1..d
      PROVE  R[x].len \in Nat /\ R[x].end \in Nat /\ \A u \in Token : R[x].trans[u] \in 0..d
  <2>1. R[x] \in Nodes(d)
    BY <1>1 DEF Originate
  <2> QED BY <2>1 DEF Nodes
<1>4. ASSUME NEW x \in 1..d, x # v
      PROVE  /\ o[x] \in 1..n /\ R[x].end = Q[o[x]].end /\ R[x].end \in 0..Len(s) /\ R[x].len <= R[x].end
             /\ Q[o[x]].len \in Nat /\ R[x].len <= Q[o[x]].len /\ R[x].len \in ClassLengths(Q, o[x])
             /\ Shortest(Q, o[x]) <= Shortest(R, x) /\ Shortest(Q, o[x]) \in Nat
             /\ Shortest(R, x) \in Nat /\ Shortest(R, x) <= R[x].len
             /\ \A m \in ClassLengths(R, x) : m \in ClassLengths(Q, o[x]) /\ m \in Nat /\ m <= R[x].len /\ Shortest(R, x) <= m
  <2> DEFINE y == o[x]
  <2>1. /\ y \in 1..n /\ R[x].end = Q[y].end /\ Shortest(Q, y) <= Shortest(R, x)
        /\ Shortest(R, x) <= R[x].len /\ R[x].len <= Q[y].len
    BY <1>1, <1>4 DEF Originate
  <2> HIDE DEF y
  <2>2. /\ Q[y].len \in Nat /\ Q[y].end \in Nat /\ Q[y].len <= Q[y].end /\ Q[y].end <= Len(s)
        /\ Shortest(Q, y) \in Nat
    BY <1>2, <2>1, StateFacts
  <2>3. R[x].len \in Nat
    BY <1>3
  <2>4. Shortest(R, x) \in Nat
    <3>1. CASE x = 1
      BY <3>1 DEF Shortest
    <3>2. CASE x # 1
      <4>1. R[x].link \in 1..d
        BY <1>1, <1>4, <3>2 DEF Linked
      <4>2. R[R[x].link].len \in Nat
        BY <1>3, <4>1
      <4> QED BY <3>2, <4>2 DEF Shortest
    <3> QED BY <3>1, <3>2
  <2> DEFINE a == Shortest(Q, y)
             b == Shortest(R, x)
             e == R[x].len
             f == Q[y].len
             g == Q[y].end
             h == Len(s)
  <2>5. a \in Nat /\ b \in Nat /\ e \in Nat /\ f \in Nat /\ g \in Nat /\ h \in Nat /\ a <= b /\ b <= e
        /\ e <= f /\ f <= g /\ g <= h
    BY <1>2, <2>1, <2>2, <2>3, <2>4
  <2>6. ClassLengths(Q, y) = a..f /\ ClassLengths(R, x) = b..e /\ R[x].end = g
    BY <2>1 DEF ClassLengths
  <2> HIDE DEF a, b, e, f, g, h
  <2>7. e \in a..f /\ g \in 0..h /\ e <= g /\ \A m \in b..e : m \in a..f /\ m \in Nat /\ m <= e /\ b <= m
    BY <2>5
  <2> QED BY <2>1, <2>5, <2>6, <2>7 DEF y, a, b, e, f, g, h
<1> QED BY <1>3, <1>4

LEMMA GrownWhole ==
  ASSUME NEW R, NEW d, NEW v, NEW o, NEW Q, NEW n, NEW s, NEW t, NEW c, NEW ch, NEW k,
         SamGrows(R, d, v, o, Q, n, s, t, c, ch, k)
  PROVE  /\ v \in 1..d /\ v # 1 /\ R[v].len = Len(s) + 1 /\ R[v].end = Len(s) + 1
         /\ R[v].link \in 1..d /\ R[v].link # v
         /\ Shortest(R, v) = R[R[v].link].len + 1 /\ R[R[v].link].len \in Nat
         /\ Shortest(R, v) <= R[v].len
         /\ Alike(Append(s, t), R[R[v].link].end, Len(s) + 1, R[R[v].link].len)
         /\ \A e \in 0..Len(s) : \A m \in Nat \ {0} :
              Alike(Append(s, t), e, Len(s) + 1, m) => m < Shortest(R, v)
<1> DEFINE r == R[v].link
<1>1. /\ Ready(Q, n, s, t, c, ch, k) /\ Originate(R, d, v, o, Q, n) /\ Linked(R, d, v, s)
      /\ WholeText(R, d, v, o, Q, s, ch, k, t)
  BY DEF SamGrows
<1>2. OfText(Q, n, s) /\ Len(s) \in Nat
  BY <1>1, ReadyFacts
<1>3. /\ v \in 1..d /\ v # 1 /\ R[v].len = Len(s) + 1 /\ R[v].end = Len(s) + 1
      /\ r \in 1..d /\ r # v /\ Shortest(R, v) = R[r].len + 1
  BY <1>1 DEF Originate, WholeText, Shortest
<1>4. k = 0 => r = 1
  BY <1>1 DEF WholeText
<1>5. k # 0 => R[r].len = Q[ch[k]].len + 1 /\ o[r] = Q[ch[k]].trans[t]
  BY <1>1 DEF WholeText
<1> HIDE DEF r
<1>6. R[r].len \in Nat /\ R[r].end \in Nat /\ R[r].end = Q[o[r]].end /\ R[r].end \in 0..Len(s) /\ R[r].len <= R[r].end
  BY <1>3, GrownStates
<1>7. Shortest(R, v) <= R[v].len
  BY <1>2, <1>3, <1>6
<1>8. Alike(Append(s, t), R[r].end, Len(s) + 1, R[r].len)
  <2>1. CASE k = 0
    <3>1. R[r].len = 0 /\ Len(s) + 1 \in Nat
      BY <1>1, <1>2, <1>4, <2>1 DEF Linked
    <3> QED BY <1>6, <3>1, AlikeNone
  <2>2. CASE k # 0
    BY <1>1, <1>5, <1>6, <2>2, RecursThere
  <2> QED BY <2>1, <2>2
<1>9. ASSUME NEW e \in 0..Len(s), NEW m \in Nat \ {0}, Alike(Append(s, t), e, Len(s) + 1, m)
      PROVE  m < Shortest(R, v)
  <2>1. k \in 1..Len(ch) /\ m <= Q[ch[k]].len + 1
    BY <1>1, <1>9, Recurs
  <2>2. k # 0
    BY <2>1
  <2>3. m <= R[r].len
    BY <1>5, <2>1, <2>2
  <2> QED BY <1>3, <1>6, <2>3
<1> QED BY <1>3, <1>6, <1>7, <1>8, <1>9 DEF r

LEMMA GrownShaped ==
  ASSUME NEW R, NEW d, NEW v, NEW o, NEW Q, NEW n, NEW s, NEW t, NEW c, NEW ch, NEW k,
         SamGrows(R, d, v, o, Q, n, s, t, c, ch, k)
  PROVE  Shaped(R, d, Append(s, t)) /\ LinksTrue(R, d, Append(s, t))
<1> DEFINE u == Append(s, t)
           N == Len(s)
<1>1. Ready(Q, n, s, t, c, ch, k) /\ Linked(R, d, v, s)
  BY DEF SamGrows
<1>2. s \in Context /\ t \in Token /\ N \in Nat /\ Len(u) = N + 1
  BY <1>1, ReadyFacts
<1>3. R[1].len = 0 /\ R[1].link = 0
  BY <1>1 DEF Linked
<1>4. ASSUME NEW x \in 1..d, x # 1
      PROVE  R[x].link \in 1..d /\ Alike(u, R[R[x].link].end, R[x].end, R[R[x].link].len)
  <2>1. CASE x = v
    BY <2>1, GrownWhole
  <2>2. CASE x # v
    <3> DEFINE z == R[x].link
               e == R[z].end
               f == R[x].end
               m == R[z].len
    <3>1. z \in 1..d /\ z # v /\ Alike(s, e, f, m)
      BY <1>1, <1>4, <2>2 DEF Linked
    <3> HIDE DEF z
    <3>2. e \in 0..N /\ f \in 0..N /\ m \in Nat
      BY <2>2, <3>1, GrownStates
    <3> HIDE DEF e, f, m
    <3>3. e \in Nat /\ f \in Nat /\ e <= N /\ f <= N
      BY <1>2, <3>2
    <3>4. Alike(u, e, f, m)
      BY <1>2, <3>1, <3>2, <3>3, AlikeBefore
    <3> QED BY <3>1, <3>4 DEF e, f, m, z
  <2> QED BY <2>1, <2>2
<1>5. ASSUME NEW x \in 1..d
      PROVE  Shortest(R, x) <= R[x].len /\ R[x].len <= R[x].end /\ R[x].end <= Len(u)
  <2>1. CASE x = v
    <3>1. Shortest(R, v) <= R[v].len /\ R[v].len = N + 1 /\ R[v].end = N + 1
      BY GrownWhole
    <3>2. N + 1 <= N + 1
      BY <1>2
    <3> HIDE DEF N
    <3> QED BY <1>2, <2>1, <3>1, <3>2
  <2>2. CASE x # v
    <3> DEFINE e == R[x].end
    <3>1. Shortest(R, x) <= R[x].len /\ R[x].len <= e /\ e \in 0..N
      BY <2>2, GrownStates
    <3> HIDE DEF e, N
    <3>2. e <= N + 1
      BY <1>2, <3>1
    <3> QED BY <1>2, <3>1, <3>2 DEF e
  <2> QED BY <2>1, <2>2
<1> QED BY <1>3, <1>4, <1>5 DEF Shaped, LinksTrue

LEMMA GrownEdges ==
  ASSUME NEW R, NEW d, NEW v, NEW o, NEW Q, NEW n, NEW s, NEW t, NEW c, NEW ch, NEW k,
         SamGrows(R, d, v, o, Q, n, s, t, c, ch, k)
  PROVE  EdgesTrue(R, d, Append(s, t))
<1> DEFINE u == Append(s, t)
           N == Len(s)
<1>1. /\ Ready(Q, n, s, t, c, ch, k) /\ Originate(R, d, v, o, Q, n) /\ Carried(R, d, v, o, Q, ch, t)
      /\ WholeText(R, d, v, o, Q, s, ch, k, t)
  BY DEF SamGrows
<1>2. /\ OfText(Q, n, s) /\ s \in Context /\ t \in Token /\ N \in Nat /\ Len(u) = N + 1
      /\ u[N + 1] = t /\ (\A i \in 1..N : u[i] = s[i]) /\ Q[c].end = N
  BY <1>1, ReadyFacts
<1>3. /\ c \in 1..n /\ Q[c].len = N /\ Goes(ch, Q, n, c) /\ Falls(ch, Q) /\ FirstOn(k, Q, ch, t)
  BY <1>1 DEF Ready
<1>4. ASSUME NEW x \in 1..d, x # v, Gains(o[x], Q, ch, t)
      PROVE  EdgeTrue(R, u, x, t, v)
  <2>1. PICK i \in 1..Len(ch) : ch[i] = o[x]
    BY <1>4 DEF Gains
  <2>2. Q[ch[i]].trans[t] = 0
    BY <1>4, <2>1 DEF Gains
  <2>3. k = 0 \/ i < k
    BY <1>1, <2>1, <2>2, BeforeFirst
  <2>4. v # 1 /\ R[v].len = N + 1 /\ R[v].end = N + 1 /\ Shortest(R, v) = R[R[v].link].len + 1
        /\ R[v].link \in 1..d /\ R[v].link # v /\ R[R[v].link].len \in Nat
    BY GrownWhole
  <2>5. /\ o[x] \in 1..n /\ R[x].end = Q[o[x]].end /\ R[x].end \in 0..N /\ R[x].len \in Nat
        /\ R[x].len <= R[x].end /\ R[x].len <= Q[o[x]].len /\ Q[o[x]].len \in Nat
        /\ Shortest(Q, o[x]) <= Shortest(R, x) /\ Shortest(Q, o[x]) \in Nat /\ Shortest(R, x) \in Nat
    BY <1>4, GrownStates
  <2>6. R[x].len + 1 <= R[v].len
    <3>1. R[x].len \in Nat /\ R[x].len <= R[x].end /\ R[x].end \in 0..N /\ R[v].len = N + 1 /\ N \in Nat
      BY <1>2, <2>4, <2>5
    <3> HIDE DEF N
    <3> QED BY <3>1
  <2>7. Shortest(R, v) <= Shortest(R, x) + 1
    <3>1. CASE k = 0
      <4>1. R[R[v].link].len = 0
        <5>1. R[v].link = 1
          BY <1>1, <3>1 DEF WholeText
        <5> QED BY <5>1 DEF SamGrows, Linked
      <4> QED BY <2>4, <2>5, <4>1
    <3>2. CASE k # 0
      <4>1. k \in 1..Len(ch) /\ i < k
        BY <1>3, <2>3, <3>2 DEF FirstOn
      <4>2. Q[ch[k]].len < Shortest(Q, o[x])
        BY <1>3, <2>1, <4>1 DEF Falls
      <4>3. R[R[v].link].len = Q[ch[k]].len + 1
        BY <1>1, <3>2 DEF WholeText
      <4>4. Q[ch[k]].len \in Nat
        <5>1. ch[k] \in 1..n
          BY <1>3, <4>1 DEF Goes
        <5> QED BY <1>2, <5>1, StateFacts
      <4> QED BY <2>4, <2>5, <4>2, <4>3, <4>4
    <3> QED BY <3>1, <3>2
  <2>8. Alike(u, R[x].end, R[v].end - 1, R[x].len)
    <3>1. Alike(s, Q[o[x]].end, N, Q[o[x]].len)
      BY <1>2, <1>3, <2>1, ChainAlike
    <3>2. (N + 1) - 1 = N /\ N <= N /\ R[x].end \in Nat /\ R[x].end <= N
      BY <1>2, <2>5
    <3> DEFINE e == R[x].end
               m == R[x].len
               l == Q[o[x]].len
    <3>3. Alike(s, e, N, l) /\ e \in Nat /\ m \in Nat /\ l \in Nat /\ m <= l /\ e <= N
      BY <2>5, <3>1, <3>2
    <3> HIDE DEF e, m, l
    <3>4. Alike(s, e, N, m)
      BY <1>2, <3>3, AlikeShort
    <3>5. Alike(u, e, N, m)
      BY <1>2, <3>2, <3>3, <3>4, AlikeBefore
    <3>6. R[v].end - 1 = N
      BY <2>4, <3>2
    <3> QED BY <3>5, <3>6 DEF e, m
  <2>9. u[R[v].end] = t
    BY <1>2, <2>4
  <2> QED BY <2>4, <2>6, <2>7, <2>8, <2>9 DEF EdgeTrue
<1>5. ASSUME NEW x \in 1..d, x # v, NEW w \in Token, R[x].trans[w] # 0, ~(w = t /\ Gains(o[x], Q, ch, t))
      PROVE  EdgeTrue(R, u, x, w, R[x].trans[w])
  <2> DEFINE y == R[x].trans[w]
             a == o[x]
             b == Q[a].trans[w]
  <2>1. /\ b # 0 /\ y \in 1..d /\ y # v /\ o[y] = b
        /\ R[x].len + 1 <= R[y].len /\ Shortest(R, y) <= Shortest(R, x) + 1
    BY <1>1, <1>5 DEF Carried
  <2>2. a \in 1..n /\ EdgeTrue(Q, s, a, w, b)
    <3>1. a \in 1..n
      BY <1>5, GrownStates
    <3> QED BY <1>2, <2>1, <3>1 DEF OfText, EdgesTrue
  <2> HIDE DEF y
  <2>3. /\ R[x].end = Q[a].end /\ R[x].end \in 0..N /\ R[x].len \in Nat /\ R[x].len <= Q[a].len /\ Q[a].len \in Nat
        /\ R[y].end = Q[b].end /\ R[y].end \in 0..N /\ R[y].len \in Nat /\ R[y].len <= R[y].end
    BY <1>5, <2>1, GrownStates, SMTT(30)
  <2> HIDE DEF a, b
  <2>4. b # 1 /\ s[Q[b].end] = w /\ Alike(s, Q[a].end, Q[b].end - 1, Q[a].len)
    BY <2>2 DEF EdgeTrue
  <2>5. y # 1
    BY <1>1, <2>1, <2>4 DEF Originate
  <2> DEFINE e == R[x].end
             f == R[y].end - 1
             m == R[x].len
             l == Q[a].len
  <2>6. e \in Nat /\ f \in Nat /\ m \in Nat /\ l \in Nat /\ m <= l /\ e <= N /\ f <= N /\ R[y].end \in 1..N
    <3>1. R[x].len + 1 <= R[y].len
      BY <2>1
    <3> QED BY <1>2, <2>3, <3>1
  <2>7. Alike(s, e, f, l)
    BY <2>3, <2>4
  <2> HIDE DEF e, f, m, l
  <2>8. Alike(s, e, f, m)
    BY <2>6, <2>7, AlikeShort
  <2>9. Alike(u, e, f, m)
    BY <1>2, <2>6, <2>8, AlikeBefore
  <2>10. u[R[y].end] = w
    BY <1>2, <2>3, <2>4, <2>6
  <2> QED BY <2>1, <2>5, <2>9, <2>10 DEF EdgeTrue, e, f, m, y
<1>6. ASSUME NEW x \in 1..d, NEW w \in Token, R[x].trans[w] # 0
      PROVE  EdgeTrue(R, u, x, w, R[x].trans[w])
  <2>1. x # v
    BY <1>1, <1>6 DEF WholeText
  <2>2. CASE w = t /\ Gains(o[x], Q, ch, t)
    <3>1. R[x].trans[w] = v
      BY <1>1, <2>1, <2>2 DEF Carried
    <3> QED BY <1>4, <2>1, <2>2, <3>1
  <2>3. CASE ~(w = t /\ Gains(o[x], Q, ch, t))
    BY <1>5, <1>6, <2>1, <2>3
  <2> QED BY <2>2, <2>3
<1> QED BY <1>6 DEF EdgesTrue

LEMMA GrownFull ==
  ASSUME NEW R, NEW d, NEW v, NEW o, NEW Q, NEW n, NEW s, NEW t, NEW c, NEW ch, NEW k,
         SamGrows(R, d, v, o, Q, n, s, t, c, ch, k)
  PROVE  EdgesFull(R, d, Append(s, t))
<1> DEFINE u == Append(s, t)
           N == Len(s)
<1>1. /\ Ready(Q, n, s, t, c, ch, k) /\ Originate(R, d, v, o, Q, n) /\ Carried(R, d, v, o, Q, ch, t)
  BY DEF SamGrows
<1>2. /\ OfText(Q, n, s) /\ s \in Context /\ t \in Token /\ N \in Nat /\ Len(u) = N + 1
      /\ u[N + 1] = t /\ (\A i \in 1..N : u[i] = s[i]) /\ Q[c].end = N
  BY <1>1, ReadyFacts
<1>3. c \in 1..n /\ Q[c].len = N /\ Goes(ch, Q, n, c) /\ Falls(ch, Q)
  BY <1>1 DEF Ready
<1> SUFFICES ASSUME NEW x \in 1..d, NEW e \in 0..(Len(u) - 1), Alike(u, e, R[x].end, R[x].len)
             PROVE  R[x].trans[u[e + 1]] # 0
  BY DEF EdgesFull
<1> HIDE DEF u, N
<1>4. e \in 0..N /\ e \in Nat /\ e <= N
  BY <1>2
<1>5. x # v
  <2> SUFFICES ASSUME x = v PROVE FALSE
    OBVIOUS
  <2>1. R[x].len = N + 1
    BY GrownWhole DEF N
  <2>2. R[x].len <= e
    BY DEF Alike
  <2> QED BY <1>2, <1>4, <2>1, <2>2
<1> DEFINE a == o[x]
           f == R[x].end
           m == R[x].len
           l == Q[a].len
<1>6. /\ a \in 1..n /\ f = Q[a].end /\ f \in 0..N /\ m \in Nat /\ m <= l /\ l \in Nat /\ m \in ClassLengths(Q, a)
  BY <1>5, GrownStates DEF N
<1> HIDE DEF a, f, m, l
<1>7. f \in Nat /\ f <= N
  BY <1>2, <1>6
<1>8. Alike(s, e, f, m)
  <2>1. Alike(Append(s, t), e, f, m)
    BY DEF u, f, m
  <2> QED BY <1>2, <1>4, <1>6, <1>7, <2>1, AlikeBefore DEF N
<1>9. IsOf(Q, s, a, e, m)
  BY <1>6, <1>8 DEF IsOf
<1>10. ASSUME NEW w \in Token, Q[a].trans[w] # 0 \/ (w = t /\ Gains(a, Q, ch, t))
       PROVE  R[x].trans[w] # 0
  <2>1. CASE w = t /\ Gains(a, Q, ch, t)
    <3>1. R[x].trans[w] = v /\ v \in 1..d
      BY <1>1, <1>5, <2>1 DEF Carried, Originate, a
    <3> QED BY <3>1
  <2>2. CASE ~(w = t /\ Gains(a, Q, ch, t))
    <3>1. Q[a].trans[w] # 0
      BY <1>10, <2>2
    <3>2. R[x].trans[w] \in 1..d
      BY <1>1, <1>5, <2>2, <3>1 DEF Carried, a
    <3> QED BY <3>2
  <2> QED BY <2>1, <2>2
<1>11. CASE e # N
  <2>1. e \in 0..(Len(s) - 1) /\ e + 1 \in 1..N
    BY <1>2, <1>4, <1>11 DEF N
  <2>2. s[e + 1] \in Token /\ Q[a].trans[s[e + 1]] # 0
    BY <1>2, <1>6, <1>9, <2>1, Continues
  <2>3. u[e + 1] = s[e + 1]
    BY <1>2, <2>1
  <2> QED BY <1>10, <2>2, <2>3
<1>12. CASE e = N
  <2>1. e \in 0..Len(s)
    BY <1>4 DEF N
  <2>2. Alike(s, e, f, l)
    BY <1>2, <1>6, <1>9, <2>1, IsWhole DEF l
  <2>3. Alike(s, f, N, l)
    BY <1>4, <1>6, <1>7, <1>12, <2>2, AlikeBack
  <2>4. l <= N
    BY <1>2, <1>6, <1>7, <2>3 DEF Alike
  <2>5. \E i \in 1..Len(ch) : ch[i] = a
    <3>1. Q[a].len <= Q[c].len /\ Alike(s, Q[a].end, Q[c].end, Q[a].len)
      BY <1>2, <1>3, <1>6, <2>3, <2>4 DEF l
    <3> QED BY <1>2, <1>3, <1>6, <3>1, OnChain
  <2>6. Q[a].trans[t] # 0 \/ Gains(a, Q, ch, t)
    BY <2>5 DEF Gains
  <2> QED BY <1>2, <1>10, <1>12, <2>6
<1> QED BY <1>11, <1>12

LEMMA GrownEnds ==
  ASSUME NEW R, NEW d, NEW v, NEW o, NEW Q, NEW n, NEW s, NEW t, NEW c, NEW ch, NEW k,
         SamGrows(R, d, v, o, Q, n, s, t, c, ch, k)
  PROVE  EndsWhole(R, d, Append(s, t))
<1> DEFINE u == Append(s, t)
           N == Len(s)
<1>1. Ready(Q, n, s, t, c, ch, k)
  BY DEF SamGrows
<1>2. OfText(Q, n, s) /\ s \in Context /\ t \in Token /\ N \in Nat /\ Len(u) = N + 1
  BY <1>1, ReadyFacts
<1> SUFFICES ASSUME NEW x \in 1..d, NEW m \in ClassLengths(R, x), NEW e \in 0..Len(u), Alike(u, e, R[x].end, m)
             PROVE  Alike(u, e, R[x].end, R[x].len)
  BY DEF EndsWhole
<1> HIDE DEF u, N
<1>3. e \in Nat /\ (e = N + 1 \/ (e <= N /\ e \in 0..N)) /\ N + 1 \in Nat
  BY <1>2
<1>4. CASE x = v
  <2>1. /\ R[x].len = N + 1 /\ R[x].end = N + 1 /\ Shortest(R, x) = R[R[x].link].len + 1 /\ R[R[x].link].len \in Nat
        /\ \A f \in 0..N : \A l \in Nat \ {0} : Alike(u, f, N + 1, l) => l < Shortest(R, x)
    BY <1>4, GrownWhole DEF u, N
  <2>2. m \in Nat \ {0} /\ ~(m < Shortest(R, x))
    BY <1>3, <2>1 DEF ClassLengths
  <2>3. e = N + 1
    <3>1. Alike(u, e, N + 1, m)
      BY <2>1
    <3> QED BY <1>3, <2>1, <2>2, <3>1
  <2>4. Alike(u, N + 1, N + 1, N + 1)
    <3>1. N + 1 <= N + 1
      BY <1>2
    <3> QED BY <1>3, <3>1, AlikeSelf
  <2> QED BY <2>1, <2>3, <2>4
<1>5. CASE x # v
  <2> DEFINE a == o[x]
             f == R[x].end
             g == R[x].len
             l == Q[a].len
  <2>1. /\ a \in 1..n /\ f = Q[a].end /\ f \in 0..N /\ g \in Nat /\ g <= l /\ l \in Nat
        /\ m \in ClassLengths(Q, a) /\ m \in Nat /\ m <= g /\ Shortest(R, x) \in Nat /\ Shortest(R, x) <= m
        /\ Shortest(Q, a) <= Shortest(R, x) /\ Shortest(Q, a) \in Nat
    BY <1>5, GrownStates DEF N
  <2>2. Alike(u, e, f, m)
    OBVIOUS
  <2> HIDE DEF f, g, l
  <2>3. f \in Nat /\ f <= N
    BY <1>2, <2>1
  <2>4. CASE e <= N
    <3>1. Alike(s, e, f, m)
      BY <1>2, <1>3, <2>1, <2>2, <2>3, <2>4, AlikeBefore DEF u, N
    <3>2. IsOf(Q, s, a, e, m) /\ e \in 0..Len(s)
      BY <1>2, <1>3, <2>1, <2>4, <3>1 DEF IsOf, N
    <3> HIDE DEF a
    <3>3. Alike(s, e, f, l)
      BY <1>2, <2>1, <3>2, IsWhole DEF l
    <3>4. Alike(s, e, f, g)
      BY <1>3, <2>1, <2>3, <3>3, AlikeShort
    <3>5. Alike(u, e, f, g)
      BY <1>2, <1>3, <2>1, <2>3, <2>4, <3>4, AlikeBefore DEF u, N
    <3> QED BY <3>5 DEF f, g
  <2>5. CASE e = N + 1 /\ m = 0
    <3>1. x = 1
      <4> SUFFICES ASSUME x # 1 PROVE FALSE
        OBVIOUS
      <4>1. R[x].link \in 1..d
        BY <1>5 DEF SamGrows, Linked
      <4>2. R[R[x].link].len \in Nat
        BY <4>1, GrownStates
      <4>3. Shortest(R, x) = R[R[x].link].len + 1
        BY DEF Shortest
      <4> QED BY <2>1, <2>5, <4>2, <4>3
    <3>2. g = 0
      BY <3>1 DEF SamGrows, Linked, g
    <3>3. Alike(u, e, f, 0)
      BY <1>3, <2>3, AlikeNone
    <3> QED BY <3>2, <3>3 DEF f, g
  <2>6. CASE e = N + 1 /\ m # 0
    <3> DEFINE p == ch[k]
               q == Q[p].trans[t]
               h == Q[q].end
               j == Q[p].len + 1
    <3>1. k \in 1..Len(ch) /\ m <= j
      <4>1. Alike(u, f, N + 1, m)
        BY <1>3, <2>1, <2>2, <2>3, <2>6, AlikeBack
      <4>2. m \in Nat \ {0}
        BY <2>1, <2>6
      <4>3. f \in 0..N
        BY <2>1
      <4> QED BY <1>1, <4>1, <4>2, <4>3, Recurs DEF u, N
    <3>2. /\ k # 0 /\ p \in 1..n /\ q \in 1..n /\ j \in ClassLengths(Q, q) /\ Alike(u, h, N + 1, j)
      <4>1. k # 0
        BY <3>1
      <4> QED BY <1>1, <4>1, RecursThere DEF u, N
    <3>3. h \in 0..N /\ h \in Nat /\ h <= N /\ j \in Nat /\ Alike(s, h, h, j)
      <4>1. Q[q].end \in Nat /\ Q[q].end <= N /\ Q[p].len \in Nat /\ Q[q].len \in Nat /\ Q[q].len <= Q[q].end
        BY <1>2, <3>2, StateFacts DEF N
      <4>2. j <= h
        <5>1. j <= Q[q].len
          <6>1. Shortest(Q, q) \in Nat
            BY <1>2, <3>2, StateFacts
          <6> HIDE DEF j, q
          <6> QED BY <3>2, <4>1, <6>1 DEF ClassLengths
        <5>2. j \in Nat
          BY <4>1
        <5> HIDE DEF j
        <5> QED BY <4>1, <5>1, <5>2
      <4>3. h \in 0..N /\ h \in Nat /\ h <= N /\ j \in Nat
        BY <1>2, <4>1
      <4> HIDE DEF h, j
      <4> QED BY <4>2, <4>3, AlikeSelf
    <3> HIDE DEF h, j
    <3>4. Alike(u, h, f, m)
      <4>1. Alike(u, h, N + 1, m)
        BY <1>3, <2>1, <3>1, <3>2, <3>3, AlikeShort
      <4> QED BY <1>3, <2>1, <2>2, <2>3, <2>6, <3>3, <4>1, AlikeOn
    <3>5. Alike(s, h, f, l)
      <4>1. Alike(s, h, f, m)
        BY <1>2, <2>1, <2>3, <3>3, <3>4, AlikeBefore DEF u, N
      <4>2. IsOf(Q, s, a, h, m) /\ h \in 0..Len(s)
        BY <2>1, <3>3, <4>1 DEF IsOf, N
      <4> HIDE DEF a
      <4> QED BY <1>2, <2>1, <4>2, IsWhole DEF l
    <3>6. g <= j
      <4> SUFFICES ASSUME ~(g <= j) PROVE FALSE
        OBVIOUS
      <4>1. j <= l /\ j \in ClassLengths(Q, a)
        <5>1. l = Q[a].len
          BY DEF l
        <5> HIDE DEF a
        <5>2. j <= l
          BY <2>1, <3>3
        <5>3. Shortest(Q, a) <= j
          BY <2>1, <3>1, <3>3
        <5> QED BY <2>1, <3>3, <5>1, <5>2, <5>3 DEF ClassLengths
      <4>2. IsOf(Q, s, a, h, j)
        <5>1. Alike(s, h, f, j)
          BY <2>1, <2>3, <3>3, <3>5, <4>1, AlikeShort
        <5> QED BY <2>1, <4>1, <5>1 DEF IsOf
      <4>3. IsOf(Q, s, q, h, j)
        BY <3>2, <3>3 DEF IsOf, h
      <4>4. a = q
        <5> HIDE DEF a, q
        <5> QED BY <1>2, <2>1, <3>2, <3>3, <4>2, <4>3, OneState DEF N
      <4>5. CutOff(R, d, v, o, q, j)
        BY <3>2 DEF SamGrows, j
      <4>6. Shortest(R, x) <= j
        BY <2>1, <3>1, <3>3
      <4> QED BY <1>5, <4>4, <4>5, <4>6 DEF CutOff, g
    <3>7. Alike(u, e, f, g)
      <4>1. Alike(u, h, N + 1, g)
        BY <1>3, <2>1, <3>2, <3>3, <3>6, AlikeShort
      <4>2. Alike(u, N + 1, h, g)
        BY <1>3, <2>1, <3>3, <4>1, AlikeBack
      <4>3. Alike(s, h, f, g)
        BY <2>1, <2>3, <3>3, <3>5, AlikeShort
      <4>4. Alike(u, h, f, g)
        BY <1>2, <2>1, <2>3, <3>3, <4>3, AlikeBefore DEF u, N
      <4> QED BY <1>3, <2>1, <2>3, <2>6, <3>3, <4>2, <4>4, AlikeOn
    <3> QED BY <3>7 DEF f, g
  <2> QED BY <1>3, <2>4, <2>5, <2>6
<1> QED BY <1>4, <1>5

LEMMA GrownDiffer ==
  ASSUME NEW R, NEW d, NEW v, NEW o, NEW Q, NEW n, NEW s, NEW t, NEW c, NEW ch, NEW k,
         SamGrows(R, d, v, o, Q, n, s, t, c, ch, k)
  PROVE  StatesDiffer(R, d, Append(s, t))
<1> DEFINE u == Append(s, t)
           N == Len(s)
<1>1. Ready(Q, n, s, t, c, ch, k) /\ Divided(R, d, v, o)
  BY DEF SamGrows
<1>2. OfText(Q, n, s) /\ s \in Context /\ t \in Token /\ N \in Nat /\ Len(u) = N + 1
  BY <1>1, ReadyFacts
<1> SUFFICES ASSUME NEW x \in 1..d, NEW y \in 1..d, Alike(u, R[x].end, R[y].end, R[x].len),
                    R[x].len \in ClassLengths(R, y)
             PROVE  x = y
  BY DEF StatesDiffer
<1> HIDE DEF u, N
<1>3. CASE x = v /\ y # v
  <2>1. R[x].len = N + 1
    BY <1>3, GrownWhole DEF N
  <2>2. R[y].len \in Nat /\ R[y].len <= R[y].end /\ R[y].end \in 0..N /\ R[x].len <= R[y].len
    BY <1>3, GrownStates DEF N
  <2> QED BY <1>2, <2>1, <2>2
<1>4. CASE x # v /\ y = v
  <2>1. /\ R[y].end = N + 1 /\ Shortest(R, y) = R[R[y].link].len + 1 /\ R[R[y].link].len \in Nat
        /\ \A f \in 0..N : \A l \in Nat \ {0} : Alike(u, f, N + 1, l) => l < Shortest(R, y)
    BY <1>4, GrownWhole DEF u, N
  <2>2. R[x].end \in 0..N /\ R[x].len \in Nat /\ R[y].len \in Nat
    BY <1>4, GrownStates DEF N
  <2>3. R[x].len \in Nat \ {0} /\ ~(R[x].len < Shortest(R, y))
    BY <2>1, <2>2 DEF ClassLengths
  <2>4. Alike(u, R[x].end, N + 1, R[x].len)
    BY <2>1
  <2> QED BY <2>1, <2>2, <2>3, <2>4
<1>5. CASE x # v /\ y # v
  <2> DEFINE e == R[x].end
             f == R[y].end
             m == R[x].len
  <2>1. /\ o[x] \in 1..n /\ e = Q[o[x]].end /\ e \in 0..N /\ m \in Nat /\ m <= e /\ m \in ClassLengths(Q, o[x])
    BY <1>5, GrownStates DEF N
  <2>2. /\ o[y] \in 1..n /\ f = Q[o[y]].end /\ f \in 0..N /\ m \in ClassLengths(Q, o[y])
    BY <1>5, GrownStates DEF N
  <2>3. Alike(u, e, f, m)
    OBVIOUS
  <2> HIDE DEF e, f, m
  <2>4. e \in Nat /\ f \in Nat /\ e <= N /\ f <= N
    BY <1>2, <2>1, <2>2
  <2>5. Alike(s, e, f, m) /\ Alike(s, e, e, m)
    BY <1>2, <2>1, <2>3, <2>4, AlikeBefore, AlikeSelf DEF u, N
  <2>6. IsOf(Q, s, o[x], e, m) /\ IsOf(Q, s, o[y], e, m)
    BY <2>1, <2>2, <2>5 DEF IsOf
  <2>7. o[x] = o[y]
    BY <1>2, <2>1, <2>2, <2>6, OneState DEF N
  <2> QED BY <1>1, <1>5, <2>7 DEF Divided
<1> QED BY <1>3, <1>4, <1>5

(* Such states are those of the longer text.                               *)
LEMMA GrownSuffixes ==
  ASSUME NEW R, NEW d, NEW v, NEW o, NEW Q, NEW n, NEW s, NEW t, NEW c, NEW ch, NEW k,
         SamGrows(R, d, v, o, Q, n, s, t, c, ch, k)
  PROVE  OfText(R, d, Append(s, t))
<1>1. d \in Nat \ {0} /\ R \in [1..d -> Nodes(d)] /\ Append(s, t) \in Context
  <2>1. Append(s, t) \in Context
    BY ReadyFacts DEF SamGrows
  <2> QED BY <2>1 DEF SamGrows, Originate
<1>2. Shaped(R, d, Append(s, t)) /\ LinksTrue(R, d, Append(s, t))
  BY GrownShaped
<1>3. EdgesTrue(R, d, Append(s, t))
  BY GrownEdges
<1>4. EdgesFull(R, d, Append(s, t))
  BY GrownFull
<1>5. EndsWhole(R, d, Append(s, t))
  BY GrownEnds
<1>6. StatesDiffer(R, d, Append(s, t))
  BY GrownDiffer
<1> QED BY <1>1, <1>2, <1>3, <1>4, <1>5, <1>6 DEF OfText

(***************************************************************************)
(* How the states R come from Q: a new one, n + 1, for the whole text, to  *)
(* which the suffixes that gain it lead, linked to z.                      *)
(***************************************************************************)
NewOne(R, n, s, z) ==
  /\ R[n + 1].len = Len(s) + 1 /\ R[n + 1].end = Len(s) + 1 /\ R[n + 1].link = z
  /\ \A u \in Token : R[n + 1].trans[u] = 0

(* Without a split the others keep all but that.                           *)
Lengthened(R, Q, n, s, t, ch, z) ==
  /\ R \in [1..(n + 1) -> Nodes(n + 1)] /\ NewOne(R, n, s, z)
  /\ \A x \in 1..n :
       /\ R[x].len = Q[x].len /\ R[x].end = Q[x].end /\ R[x].link = Q[x].link
       /\ \A u \in Token :
            R[x].trans[u] = IF u = t /\ Gains(x, Q, ch, t) THEN n + 1 ELSE Q[x].trans[u]

LEMMA LengthenedGrows ==
  ASSUME NEW Q, NEW n, NEW s, NEW t, NEW c, NEW ch, NEW k, Ready(Q, n, s, t, c, ch, k),
         NEW R, NEW z, Lengthened(R, Q, n, s, t, ch, z), z \in 1..n, k = 0 => z = 1,
         k # 0 => z = Q[ch[k]].trans[t] /\ Q[z].len = Q[ch[k]].len + 1
  PROVE  \E o : SamGrows(R, n + 1, n + 1, o, Q, n, s, t, c, ch, k)
<1> DEFINE d == n + 1
           o == [x \in 1..d |-> IF x = d THEN 1 ELSE x]
<1>1. /\ OfText(Q, n, s) /\ s \in Context /\ n \in Nat \ {0} /\ Q \in [1..n -> Nodes(n)]
      /\ Shaped(Q, n, s) /\ LinksTrue(Q, n, s) /\ EdgesTrue(Q, n, s)
  BY ReadyFacts DEF OfText
<1>2. d \in Nat \ {0} /\ d \in 1..d /\ d # 1 /\ 1 \in 1..n /\ \A x \in 1..d : x # d => x \in 1..n
  BY <1>1
<1>3. \A x \in 1..n : x \in 1..d /\ x # d
  BY <1>1
<1>4. /\ R \in [1..d -> Nodes(d)] /\ NewOne(R, n, s, z)
      /\ \A x \in 1..n :
           /\ R[x].len = Q[x].len /\ R[x].end = Q[x].end /\ R[x].link = Q[x].link
           /\ \A u \in Token :
                R[x].trans[u] = IF u = t /\ Gains(x, Q, ch, t) THEN d ELSE Q[x].trans[u]
  BY DEF Lengthened
<1>5. R[d].len = Len(s) + 1 /\ R[d].end = Len(s) + 1 /\ R[d].link = z /\ \A u \in Token : R[d].trans[u] = 0
  BY <1>4 DEF NewOne
<1>6. o \in [1..d -> 1..n] /\ o[1] = 1 /\ \A x \in 1..n : o[x] = x
  BY <1>2, <1>3
<1> HIDE DEF o, d
<1>7. ASSUME NEW x \in 1..n PROVE Shortest(R, x) = Shortest(Q, x)
  <2>1. CASE x = 1
    BY <2>1 DEF Shortest
  <2>2. CASE x # 1
    <3>1. Q[x].link \in 1..n
      BY <1>1, <2>2, LinkFacts
    <3> QED BY <1>4, <2>2, <3>1 DEF Shortest
  <2> QED BY <2>1, <2>2
<1>8. Originate(R, d, d, o, Q, n)
  <2>1. ASSUME NEW x \in 1..d, x # d
        PROVE  /\ R[x].end = Q[o[x]].end /\ Shortest(Q, o[x]) <= Shortest(R, x)
               /\ Shortest(R, x) <= R[x].len /\ R[x].len <= Q[o[x]].len
    <3>1. x \in 1..n /\ o[x] = x
      BY <1>2, <1>6, <2>1
    <3>2. Shortest(Q, x) \in Nat /\ Q[x].len \in Nat /\ Shortest(Q, x) <= Q[x].len
      BY <1>1, <3>1, StateFacts
    <3>3. Shortest(R, x) = Shortest(Q, x) /\ R[x].len = Q[x].len /\ R[x].end = Q[x].end
      BY <1>4, <1>7, <3>1
    <3> QED BY <3>1, <3>2, <3>3
  <2> QED BY <1>2, <1>4, <1>6, <2>1 DEF Originate
<1>9. Divided(R, d, d, o)
  BY <1>2, <1>6 DEF Divided
<1>10. Linked(R, d, d, s)
  <2>1. R[1].len = 0 /\ R[1].link = 0
    BY <1>1, <1>2, <1>4 DEF Shaped
  <2>2. ASSUME NEW x \in 1..d, x # 1, x # d
        PROVE  R[x].link \in 1..d /\ R[x].link # d /\ Alike(s, R[R[x].link].end, R[x].end, R[R[x].link].len)
    <3>1. x \in 1..n
      BY <1>2, <2>2
    <3>2. Q[x].link \in 1..n /\ Alike(s, Q[Q[x].link].end, Q[x].end, Q[Q[x].link].len)
      BY <1>1, <2>2, <3>1, LinkFacts
    <3> QED BY <1>3, <1>4, <3>1, <3>2
  <2> QED BY <2>1, <2>2 DEF Linked
<1>11. Carried(R, d, d, o, Q, ch, t)
  <2> SUFFICES ASSUME NEW x \in 1..d, x # d, NEW u \in Token
               PROVE  IF u = t /\ Gains(o[x], Q, ch, t) THEN R[x].trans[u] = d
                      ELSE IF Q[o[x]].trans[u] = 0 THEN R[x].trans[u] = 0
                      ELSE LET y == R[x].trans[u]
                           IN  /\ y \in 1..d /\ y # d /\ o[y] = Q[o[x]].trans[u]
                               /\ R[x].len + 1 <= R[y].len /\ Shortest(R, y) <= Shortest(R, x) + 1
    BY DEF Carried
  <2>1. x \in 1..n /\ o[x] = x
    BY <1>2, <1>6
  <2>2. R[x].trans[u] = IF u = t /\ Gains(x, Q, ch, t) THEN d ELSE Q[x].trans[u]
    BY <1>4, <2>1
  <2>3. ASSUME ~(u = t /\ Gains(x, Q, ch, t)), Q[x].trans[u] # 0
        PROVE  LET y == R[x].trans[u]
               IN  /\ y \in 1..d /\ y # d /\ o[y] = Q[x].trans[u]
                   /\ R[x].len + 1 <= R[y].len /\ Shortest(R, y) <= Shortest(R, x) + 1
    <3> DEFINE y == Q[x].trans[u]
    <3>1. R[x].trans[u] = y
      BY <2>2, <2>3
    <3>2. y \in 0..n /\ y # 0
      BY <1>1, <2>1, <2>3, StateFacts
    <3>3. y \in 1..n
      BY <1>1, <3>2
    <3>4. EdgeTrue(Q, s, x, u, y)
      BY <1>1, <2>1, <2>3 DEF EdgesTrue
    <3> HIDE DEF y
    <3>5. Q[x].len + 1 <= Q[y].len /\ Shortest(Q, y) <= Shortest(Q, x) + 1
      BY <3>4 DEF EdgeTrue
    <3>6. R[x].len + 1 <= R[y].len /\ Shortest(R, y) <= Shortest(R, x) + 1
      <4>1. R[x].len = Q[x].len /\ R[y].len = Q[y].len
        BY <1>4, <2>1, <3>3
      <4>2. Shortest(R, x) = Shortest(Q, x) /\ Shortest(R, y) = Shortest(Q, y)
        BY <1>7, <2>1, <3>3
      <4> QED BY <3>5, <4>1, <4>2
    <3>7. y \in 1..d /\ y # d /\ o[y] = y
      BY <1>3, <1>6, <3>3
    <3> QED BY <3>1, <3>6, <3>7 DEF y
  <2> QED BY <2>1, <2>2, <2>3
<1>12. WholeText(R, d, d, o, Q, s, ch, k, t)
  <2>1. z \in 1..d /\ z # d /\ R[z].len = Q[z].len /\ o[z] = z
    BY <1>3, <1>4, <1>6
  <2> QED BY <1>5, <2>1 DEF WholeText
<1>13. ASSUME k # 0
       PROVE  CutOff(R, d, d, o, Q[ch[k]].trans[t], Q[ch[k]].len + 1)
  <2>1. Q[z].len \in Nat /\ R[z].len = Q[z].len
    BY <1>1, <1>4, StateFacts
  <2>2. \A x \in 1..d : x # d /\ o[x] = z => R[x].len <= Q[ch[k]].len + 1
    BY <1>2, <1>6, <1>13, <2>1
  <2> QED BY <1>13, <2>2 DEF CutOff
<1> QED BY <1>8, <1>9, <1>10, <1>11, <1>12, <1>13 DEF SamGrows, d

(* A state that goes to q with t and stands for a suffix as long as that   *)
(* of the place k of ch, or shorter.                                       *)
Diverted(x, Q, ch, k, t, q) == Q[x].trans[t] = q /\ \E i \in k..Len(ch) : ch[i] = x

(* With a split of q, the strings of q of at most l tokens get the state   *)
(* n + 2.                                                                  *)
SamSplit(R, Q, n, s, t, ch, k, q, l) ==
  /\ R \in [1..(n + 2) -> Nodes(n + 2)] /\ NewOne(R, n, s, n + 2)
  /\ \A x \in 1..n :
       /\ R[x].len = Q[x].len /\ R[x].end = Q[x].end
       /\ R[x].link = IF x = q THEN n + 2 ELSE Q[x].link
       /\ \A u \in Token :
            R[x].trans[u] = IF u = t /\ Gains(x, Q, ch, t) THEN n + 1
                            ELSE IF u = t /\ Diverted(x, Q, ch, k, t, q) THEN n + 2 ELSE Q[x].trans[u]
  /\ R[n + 2].len = l /\ R[n + 2].end = Q[q].end /\ R[n + 2].link = Q[q].link
  /\ \A u \in Token :
       R[n + 2].trans[u] = IF u = t /\ Gains(q, Q, ch, t) THEN n + 1 ELSE Q[q].trans[u]

(* What goes to q with t and does not turn stands for longer strings.      *)
LEMMA StaysLonger ==
  ASSUME NEW Q, NEW n, NEW s, NEW t, NEW c, NEW ch, NEW k, Ready(Q, n, s, t, c, ch, k), k # 0,
         NEW q, q = Q[ch[k]].trans[t],
         NEW x \in 1..n, Q[x].trans[t] = q, ~Diverted(x, Q, ch, k, t, q)
  PROVE  Q[ch[k]].len < Shortest(Q, x)
<1> DEFINE p == ch[k]
           e == Q[q].end - 1
<1>1. /\ OfText(Q, n, s) /\ n \in Nat \ {0} /\ EdgesTrue(Q, n, s) /\ t \in Token
      /\ Goes(ch, Q, n, c) /\ Falls(ch, Q) /\ FirstOn(k, Q, ch, t) /\ c \in 1..n /\ Q[c].len = Len(s)
      /\ Len(ch) \in Nat
  BY ReadyFacts DEF Ready, OfText
<1>2. k \in 1..Len(ch) /\ Q[p].trans[t] # 0
  BY <1>1 DEF FirstOn
<1>3. p \in 1..n /\ Q[p].len <= Q[c].len /\ Alike(s, Q[p].end, Q[c].end, Q[p].len)
  BY <1>1, <1>2, ChainAlike
<1>4. q \in 1..n /\ q # 0
  <2>1. q \in 0..n
    BY <1>1, StateFacts
  <2>2. q # 0
    BY <1>2
  <2> HIDE DEF p
  <2> QED BY <1>1, <2>1, <2>2
<1>5. EdgeTrue(Q, s, p, t, q) /\ EdgeTrue(Q, s, x, t, q)
  BY <1>1, <1>2, <1>3, <1>4 DEF EdgesTrue
<1>6. Diverted(p, Q, ch, k, t, q)
  <2>1. k \in k..Len(ch)
    BY <1>1, <1>2
  <2> QED BY <2>1 DEF Diverted
<1> HIDE DEF p
<1>7. /\ Q[p].len \in Nat /\ Q[p].end \in Nat /\ Q[x].len \in Nat /\ Q[x].end \in Nat
      /\ Q[q].end \in Nat /\ Q[q].end <= Len(s) /\ Q[q].len <= Q[q].end /\ Q[q].len \in Nat
      /\ Shortest(Q, p) \in Nat /\ Shortest(Q, p) <= Q[p].len /\ Shortest(Q, x) \in Nat
      /\ Len(s) \in Nat /\ Q[c].end \in Nat /\ Q[c].len \in Nat
  BY <1>1, <1>3, <1>4, StateFacts
<1>8. Q[p].len + 1 <= Q[q].len
  BY <1>5 DEF EdgeTrue
<1>9. e \in 0..Len(s) /\ e \in Nat
  <2> DEFINE a == Q[p].len
             b == Q[q].len
             f == Q[q].end
             g == Len(s)
  <2>1. a \in Nat /\ b \in Nat /\ f \in Nat /\ g \in Nat /\ a + 1 <= b /\ b <= f /\ f <= g
    BY <1>7, <1>8
  <2> HIDE DEF a, b, f, g
  <2>2. f - 1 \in 0..g /\ f - 1 \in Nat
    BY <2>1
  <2> QED BY <2>2 DEF f, g
<1>10. Alike(s, Q[p].end, e, Q[p].len) /\ Alike(s, Q[x].end, e, Q[x].len)
  BY <1>5 DEF EdgeTrue
<1> HIDE DEF e
<1>11. Alike(s, e, Q[p].end, Q[p].len) /\ Alike(s, e, Q[x].end, Q[x].len)
  BY <1>7, <1>9, <1>10, AlikeBack
<1> SUFFICES ASSUME Shortest(Q, x) <= Q[p].len PROVE FALSE
  BY <1>7 DEF p
<1>12. CASE Q[p].len <= Q[x].len
  <2>1. IsOf(Q, s, x, e, Q[p].len)
    <3>1. Q[p].len \in ClassLengths(Q, x)
      BY <1>7, <1>12 DEF ClassLengths
    <3>2. Alike(s, e, Q[x].end, Q[p].len)
      BY <1>7, <1>9, <1>11, <1>12, AlikeShort
    <3> QED BY <3>1, <3>2 DEF IsOf
  <2>2. IsOf(Q, s, p, e, Q[p].len)
    <3>1. Q[p].len \in ClassLengths(Q, p)
      BY <1>7 DEF ClassLengths
    <3> QED BY <1>11, <3>1 DEF IsOf
  <2>3. x = p
    BY <1>1, <1>3, <1>9, <2>1, <2>2, OneState
  <2> QED BY <1>6, <2>3
<1>13. CASE Q[x].len < Q[p].len
  <2>1. Alike(s, e, Q[p].end, Q[x].len) /\ Alike(s, Q[p].end, Q[c].end, Q[x].len)
    <3>1. Q[x].len <= Q[p].len
      BY <1>7, <1>13
    <3>2. Alike(s, e, Q[p].end, Q[x].len)
      BY <1>7, <1>9, <1>11, <3>1, AlikeShort
    <3>3. Alike(s, Q[p].end, Q[c].end, Q[x].len)
      BY <1>3, <1>7, <3>1, AlikeShort
    <3> QED BY <3>2, <3>3
  <2>2. Alike(s, Q[x].end, Q[p].end, Q[x].len)
    BY <1>7, <1>9, <1>10, <2>1, AlikeOn
  <2>3. Alike(s, Q[x].end, Q[c].end, Q[x].len)
    BY <1>7, <2>1, <2>2, AlikeOn
  <2>4. Q[x].len <= Q[c].len
    BY <1>3, <1>7, <1>13
  <2>5. PICK i \in 1..Len(ch) : ch[i] = x
    BY <1>1, <2>3, <2>4, OnChain
  <2>6. ~(i < k)
    BY <1>1, <1>4, <2>5 DEF FirstOn
  <2>7. i \in k..Len(ch)
    BY <1>1, <1>2, <2>6
  <2> QED BY <2>5, <2>7 DEF Diverted
<1> QED BY <1>7, <1>12, <1>13

(* What turns is no longer than the first.                                 *)
LEMMA TurnsShorter ==
  ASSUME NEW Q, NEW n, NEW s, NEW t, NEW c, NEW ch, NEW k, Ready(Q, n, s, t, c, ch, k), k # 0,
         NEW q, NEW x \in 1..n, Diverted(x, Q, ch, k, t, q)
  PROVE  Q[x].len <= Q[ch[k]].len
<1>1. /\ OfText(Q, n, s) /\ Goes(ch, Q, n, c) /\ Falls(ch, Q) /\ k \in 1..Len(ch) /\ Len(ch) \in Nat
  BY ReadyFacts DEF Ready, FirstOn
<1>2. PICK i \in k..Len(ch) : ch[i] = x
  BY DEF Diverted
<1>3. ch[k] \in 1..n /\ i \in 1..Len(ch)
  BY <1>1 DEF Goes
<1>4. Q[x].len \in Nat /\ Q[ch[k]].len \in Nat /\ Shortest(Q, ch[k]) \in Nat /\ Shortest(Q, ch[k]) <= Q[ch[k]].len
  BY <1>1, <1>3, StateFacts
<1>5. CASE i = k
  BY <1>2, <1>4, <1>5
<1>6. CASE i # k
  <2>1. k < i
    BY <1>1, <1>3, <1>6
  <2>2. Q[ch[i]].len < Shortest(Q, ch[k])
    BY <1>1, <1>3, <2>1 DEF Falls
  <2> QED BY <1>2, <1>4, <2>2
<1> QED BY <1>5, <1>6

LEMMA SplitGrows ==
  ASSUME NEW Q, NEW n, NEW s, NEW t, NEW c, NEW ch, NEW k, Ready(Q, n, s, t, c, ch, k), k # 0,
         NEW q, q = Q[ch[k]].trans[t], NEW l, l = Q[ch[k]].len + 1, l # Q[q].len,
         NEW R, SamSplit(R, Q, n, s, t, ch, k, q, l)
  PROVE  \E o : SamGrows(R, n + 2, n + 1, o, Q, n, s, t, c, ch, k)
<1> DEFINE d == n + 2
           v == n + 1
           o == [x \in 1..d |-> IF x = v THEN 1 ELSE IF x = d THEN q ELSE x]
<1>1. /\ OfText(Q, n, s) /\ s \in Context /\ n \in Nat \ {0} /\ Q \in [1..n -> Nodes(n)]
      /\ Shaped(Q, n, s) /\ LinksTrue(Q, n, s) /\ EdgesTrue(Q, n, s) /\ t \in Token
  BY ReadyFacts DEF OfText
<1>2. /\ ch[k] \in 1..n /\ q \in 1..n /\ q # 1 /\ l <= Q[q].len /\ l \in ClassLengths(Q, q)
  BY RecursThere
<1>3. Q[q].len \in Nat /\ Q[q].end \in Nat /\ Shortest(Q, q) \in Nat /\ l \in Nat
      /\ Shortest(Q, q) <= l /\ l < Q[q].len /\ l <= Q[q].end /\ Q[q].link \in 1..n
  <2>1. Q[q].len \in Nat /\ Q[q].end \in Nat /\ Shortest(Q, q) \in Nat /\ Q[ch[k]].len \in Nat
        /\ Q[q].len <= Q[q].end
    BY <1>1, <1>2, StateFacts
  <2>2. l \in Nat /\ l < Q[q].len /\ l <= Q[q].end
    BY <1>2, <2>1
  <2>3. Shortest(Q, q) <= l
    BY <1>2, <2>1 DEF ClassLengths
  <2>4. Q[q].link \in 1..n
    BY <1>1, <1>2, LinkFacts
  <2> QED BY <2>1, <2>2, <2>3, <2>4
<1>4. /\ d \in Nat \ {0} /\ v \in 1..d /\ d \in 1..d /\ v # 1 /\ d # v /\ d # 1 /\ 1 \in 1..n
      /\ \A x \in 1..d : x # v => x \in 1..n \/ x = d
  BY <1>1
<1>5. \A x \in 1..n : x \in 1..d /\ x # d /\ x # v
  BY <1>1
<1>6. /\ R \in [1..d -> Nodes(d)] /\ NewOne(R, n, s, d)
      /\ \A x \in 1..n :
           /\ R[x].len = Q[x].len /\ R[x].end = Q[x].end
           /\ R[x].link = IF x = q THEN d ELSE Q[x].link
           /\ \A u \in Token :
                R[x].trans[u] = IF u = t /\ Gains(x, Q, ch, t) THEN v
                                ELSE IF u = t /\ Diverted(x, Q, ch, k, t, q) THEN d ELSE Q[x].trans[u]
      /\ R[d].len = l /\ R[d].end = Q[q].end /\ R[d].link = Q[q].link
      /\ \A u \in Token :
           R[d].trans[u] = IF u = t /\ Gains(q, Q, ch, t) THEN v ELSE Q[q].trans[u]
  BY DEF SamSplit
<1>7. R[v].len = Len(s) + 1 /\ R[v].end = Len(s) + 1 /\ R[v].link = d /\ \A u \in Token : R[v].trans[u] = 0
  BY <1>6 DEF NewOne
<1>8. o \in [1..d -> 1..n] /\ o[1] = 1 /\ o[d] = q /\ \A x \in 1..n : o[x] = x
  BY <1>2, <1>4, <1>5
<1> HIDE DEF o, d, v
<1>9. ASSUME NEW x \in 1..n, x # q PROVE Shortest(R, x) = Shortest(Q, x)
  <2>1. CASE x = 1
    BY <2>1 DEF Shortest
  <2>2. CASE x # 1
    <3>1. Q[x].link \in 1..n
      BY <1>1, <2>2, LinkFacts
    <3> QED BY <1>6, <1>9, <2>2, <3>1 DEF Shortest
  <2> QED BY <2>1, <2>2
<1>10. Shortest(R, q) = l + 1 /\ Shortest(R, d) = Shortest(Q, q)
  <2>1. q # 1 /\ d # 1
    BY <1>2, <1>4
  <2>2. R[d].len = l /\ R[d].link = Q[q].link
    BY <1>6, Zenon
  <2>3. R[q].link = d
    BY <1>2, <1>6, Zenon
  <2>4. R[Q[q].link].len = Q[Q[q].link].len
    BY <1>3, <1>6, Zenon
  <2>5. Shortest(R, q) = l + 1
    BY <2>1, <2>2, <2>3 DEF Shortest
  <2>6. Shortest(R, d) = Shortest(Q, q)
    BY <2>1, <2>2, <2>4 DEF Shortest
  <2> QED BY <2>5, <2>6
<1>11. ASSUME NEW x \in 1..n
       PROVE  /\ Shortest(Q, x) \in Nat /\ Shortest(R, x) \in Nat /\ Q[x].len \in Nat
              /\ Shortest(Q, x) <= Shortest(R, x) /\ Shortest(R, x) <= Q[x].len
  <2>1. Shortest(Q, x) \in Nat /\ Q[x].len \in Nat /\ Shortest(Q, x) <= Q[x].len
    BY <1>1, StateFacts
  <2>2. CASE x = q
    BY <1>3, <1>10, <2>1, <2>2
  <2>3. CASE x # q
    BY <1>9, <2>1, <2>3
  <2> QED BY <2>2, <2>3
<1>12. Originate(R, d, v, o, Q, n)
  <2>1. ASSUME NEW x \in 1..d, x # v
        PROVE  /\ R[x].end = Q[o[x]].end /\ Shortest(Q, o[x]) <= Shortest(R, x)
               /\ Shortest(R, x) <= R[x].len /\ R[x].len <= Q[o[x]].len
    <3>1. CASE x = d
      <4>1. R[x].end = Q[q].end /\ o[x] = q /\ Shortest(R, x) = Shortest(Q, q) /\ R[x].len = l
        BY <1>6, <1>8, <1>10, <3>1
      <4> QED BY <1>3, <4>1
    <3>2. CASE x \in 1..n
      <4>1. o[x] = x /\ R[x].end = Q[x].end /\ R[x].len = Q[x].len
        BY <1>6, <1>8, <3>2
      <4>2. Q[x].len <= Q[x].len
        BY <1>11, <3>2
      <4> QED BY <1>11, <3>2, <4>1, <4>2
    <3> QED BY <1>4, <2>1, <3>1, <3>2
  <2> QED BY <1>4, <1>6, <1>8, <2>1 DEF Originate
<1>13. Divided(R, d, v, o)
  <2> SUFFICES ASSUME NEW x \in 1..d, NEW y \in 1..d, x # v, y # v, o[x] = o[y],
                      R[x].len \in ClassLengths(R, y), x # y
               PROVE  FALSE
    BY DEF Divided
  <2>1. (x = q /\ y = d) \/ (x = d /\ y = q)
    BY <1>4, <1>8
  <2>2. CASE x = q /\ y = d
    <3>1. R[x].len = Q[q].len /\ R[y].len = l
      BY <1>2, <1>6, <2>2
    <3>2. Shortest(R, y) \in Nat
      BY <1>3, <1>10, <2>2
    <3> QED BY <1>3, <3>1, <3>2 DEF ClassLengths
  <2>3. CASE x = d /\ y = q
    <3>1. R[x].len = l /\ Shortest(R, y) = l + 1 /\ R[y].len = Q[q].len
      BY <1>2, <1>6, <1>10, <2>3
    <3> QED BY <1>3, <3>1 DEF ClassLengths
  <2> QED BY <2>1, <2>2, <2>3
<1>14. Linked(R, d, v, s)
  <2>1. R[1].len = 0 /\ R[1].link = 0
    BY <1>1, <1>2, <1>4, <1>6 DEF Shaped
  <2>2. ASSUME NEW x \in 1..d, x # 1, x # v
        PROVE  R[x].link \in 1..d /\ R[x].link # v /\ Alike(s, R[R[x].link].end, R[x].end, R[R[x].link].len)
    <3>1. CASE x = q
      <4>1. Alike(s, Q[q].end, Q[q].end, l)
        BY <1>3, AlikeSelf
      <4>2. R[x].link = d /\ R[d].end = Q[q].end /\ R[d].len = l /\ R[x].end = Q[q].end
        BY <1>2, <1>6, <3>1
      <4> QED BY <1>4, <4>1, <4>2
    <3>2. CASE x = d
      <4> DEFINE z == Q[q].link
      <4>1. z \in 1..n /\ Alike(s, Q[z].end, Q[q].end, Q[z].len)
        BY <1>1, <1>2, LinkFacts
      <4>2. R[x].link = z /\ R[x].end = Q[q].end
        BY <1>6, <3>2
      <4> HIDE DEF z
      <4>3. R[z].end = Q[z].end /\ R[z].len = Q[z].len
        BY <1>6, <4>1
      <4> QED BY <1>5, <4>1, <4>2, <4>3
    <3>3. CASE x \in 1..n /\ x # q
      <4> DEFINE z == Q[x].link
      <4>1. z \in 1..n /\ Alike(s, Q[z].end, Q[x].end, Q[z].len)
        BY <1>1, <2>2, <3>3, LinkFacts
      <4>2. R[x].link = z /\ R[x].end = Q[x].end
        BY <1>6, <3>3
      <4> HIDE DEF z
      <4>3. R[z].end = Q[z].end /\ R[z].len = Q[z].len
        BY <1>6, <4>1
      <4> QED BY <1>5, <4>1, <4>2, <4>3
    <3> QED BY <1>4, <2>2, <3>1, <3>2, <3>3
  <2> QED BY <2>1, <2>2 DEF Linked
<1>15. ASSUME NEW x \in 1..n, NEW u \in Token, Q[x].trans[u] # 0
       PROVE  LET z == Q[x].trans[u]
              IN  /\ z \in 1..n /\ Q[x].len + 1 <= Q[z].len /\ Shortest(Q, z) <= Shortest(Q, x) + 1
                  /\ s[Q[z].end] = u
  <2> DEFINE z == Q[x].trans[u]
  <2>1. z \in 0..n /\ z # 0
    BY <1>1, <1>15, StateFacts
  <2>2. z \in 1..n
    BY <1>1, <2>1
  <2>3. EdgeTrue(Q, s, x, u, z)
    BY <1>1, <1>15 DEF EdgesTrue
  <2> QED BY <2>2, <2>3 DEF EdgeTrue
<1>16. ASSUME NEW x \in 1..n, NEW u \in Token, ~(u = t /\ Gains(x, Q, ch, t)), Q[x].trans[u] # 0
       PROVE  LET y == R[x].trans[u]
              IN  /\ y \in 1..d /\ y # v /\ o[y] = Q[x].trans[u]
                  /\ R[x].len + 1 <= R[y].len /\ Shortest(R, y) <= Shortest(R, x) + 1
  <2> DEFINE z == Q[x].trans[u]
  <2>1. z \in 1..n /\ Q[x].len + 1 <= Q[z].len /\ Shortest(Q, z) <= Shortest(Q, x) + 1 /\ s[Q[z].end] = u
    BY <1>15, <1>16
  <2>2. R[x].len = Q[x].len /\ R[z].len = Q[z].len /\ o[z] = z
    BY <1>6, <1>8, <2>1
  <2>3. R[x].trans[u] = IF u = t /\ Diverted(x, Q, ch, k, t, q) THEN d ELSE z
    BY <1>6, <1>16
  <2>4. /\ Shortest(Q, x) \in Nat /\ Shortest(R, x) \in Nat /\ Q[x].len \in Nat
        /\ Shortest(Q, x) <= Shortest(R, x)
    BY <1>11
  <2>5. CASE u = t /\ Diverted(x, Q, ch, k, t, q)
    <3>1. z = q
      BY <2>5 DEF Diverted
    <3>2. Q[x].len <= Q[ch[k]].len /\ Q[ch[k]].len \in Nat
      <4>1. Q[x].len <= Q[ch[k]].len
        BY <2>5, TurnsShorter
      <4>2. Q[ch[k]].len \in Nat
        BY <1>1, <1>2, StateFacts
      <4> QED BY <4>1, <4>2
    <3>3. R[x].trans[u] = d /\ R[d].len = l /\ Shortest(R, d) = Shortest(Q, q) /\ o[d] = q
      BY <1>6, <1>8, <1>10, <2>3, <2>5
    <3>4. R[x].len + 1 <= R[d].len
      BY <2>2, <2>4, <3>2, <3>3
    <3>5. Shortest(R, d) <= Shortest(R, x) + 1
      <4>1. Shortest(Q, q) <= Shortest(Q, x) + 1
        BY <2>1, <3>1
      <4> QED BY <1>3, <2>4, <3>3, <4>1
    <3> QED BY <1>4, <3>1, <3>3, <3>4, <3>5
  <2>6. CASE ~(u = t /\ Diverted(x, Q, ch, k, t, q))
    <3>1. R[x].trans[u] = z
      BY <2>3, <2>6
    <3>2. Shortest(R, z) <= Shortest(R, x) + 1
      <4>1. CASE z = q
        <5>1. u = t
          <6>1. Q[ch[k]].trans[t] # 0
            BY <1>2
          <6>2. s[Q[q].end] = t
            BY <1>1, <1>2, <1>15, <6>1
          <6> QED BY <2>1, <4>1, <6>2
        <5>2. ~Diverted(x, Q, ch, k, t, q) /\ Q[x].trans[t] = q
          BY <2>6, <4>1, <5>1
        <5>3. Q[ch[k]].len < Shortest(Q, x)
          BY <5>2, StaysLonger
        <5>4. Q[ch[k]].len \in Nat /\ Shortest(R, z) = l + 1
          BY <1>1, <1>2, <1>10, <4>1, StateFacts
        <5> QED BY <2>4, <5>3, <5>4
      <4>2. CASE z # q
        <5>1. Shortest(R, z) = Shortest(Q, z)
          BY <1>9, <2>1, <4>2
        <5>2. Shortest(Q, z) \in Nat
          BY <1>11, <2>1
        <5> HIDE DEF z
        <5> QED BY <2>1, <2>4, <5>1, <5>2
      <4> QED BY <4>1, <4>2
    <3>3. R[x].len + 1 <= R[z].len
      BY <2>1, <2>2
    <3>4. z \in 1..d /\ z # v /\ o[z] = z
      BY <1>5, <2>1, <2>2
    <3> QED BY <3>1, <3>2, <3>3, <3>4
  <2> QED BY <2>5, <2>6
<1>17. ASSUME NEW u \in Token, ~(u = t /\ Gains(q, Q, ch, t)), Q[q].trans[u] # 0
       PROVE  LET y == R[d].trans[u]
              IN  /\ y \in 1..d /\ y # v /\ o[y] = Q[q].trans[u]
                  /\ R[d].len + 1 <= R[y].len /\ Shortest(R, y) <= Shortest(R, d) + 1
  <2> DEFINE z == Q[q].trans[u]
  <2>1. z \in 1..n /\ Q[q].len + 1 <= Q[z].len /\ Shortest(Q, z) <= Shortest(Q, q) + 1
    BY <1>2, <1>15, <1>17
  <2>2. R[d].trans[u] = z
    BY <1>6, <1>17
  <2> HIDE DEF z
  <2>3. z # q
    BY <1>3, <2>1
  <2>4. Shortest(R, z) = Shortest(Q, z) /\ Q[z].len \in Nat /\ R[z].len = Q[z].len /\ o[z] = z
    BY <1>6, <1>8, <1>9, <1>11, <2>1, <2>3
  <2>5. R[d].len + 1 <= R[z].len
    <3>1. R[d].len = l /\ Q[q].len + 1 <= Q[z].len
      BY <1>6, <2>1
    <3>2. Q[q].len \in Nat /\ l \in Nat /\ l < Q[q].len
      BY <1>3
    <3>3. l + 1 <= Q[z].len
      BY <2>4, <3>1, <3>2
    <3> QED BY <2>4, <3>1, <3>3
  <2>6. Shortest(R, z) <= Shortest(R, d) + 1
    BY <1>10, <2>1, <2>4
  <2>7. z \in 1..d /\ z # v
    BY <1>5, <2>1
  <2> QED BY <2>2, <2>4, <2>5, <2>6, <2>7 DEF z
<1>18. Carried(R, d, v, o, Q, ch, t)
  <2> SUFFICES ASSUME NEW x \in 1..d, x # v, NEW u \in Token
               PROVE  IF u = t /\ Gains(o[x], Q, ch, t) THEN R[x].trans[u] = v
                      ELSE IF Q[o[x]].trans[u] = 0 THEN R[x].trans[u] = 0
                      ELSE LET y == R[x].trans[u]
                           IN  /\ y \in 1..d /\ y # v /\ o[y] = Q[o[x]].trans[u]
                               /\ R[x].len + 1 <= R[y].len /\ Shortest(R, y) <= Shortest(R, x) + 1
    BY DEF Carried
  <2>1. CASE x = d
    <3>1. R[x].trans[u] = IF u = t /\ Gains(q, Q, ch, t) THEN v ELSE Q[q].trans[u]
      BY <1>6, <2>1
    <3> QED BY <1>8, <1>17, <2>1, <3>1
  <2>2. CASE x \in 1..n
    <3>1. o[x] = x
      BY <1>8, <2>2
    <3>2. R[x].trans[u] = IF u = t /\ Gains(x, Q, ch, t) THEN v
                          ELSE IF u = t /\ Diverted(x, Q, ch, k, t, q) THEN d ELSE Q[x].trans[u]
      BY <1>6, <2>2
    <3>3. Q[x].trans[u] = 0 => ~(u = t /\ Diverted(x, Q, ch, k, t, q))
      <4>1. q # 0
        BY <1>2
      <4> QED BY <4>1 DEF Diverted
    <3>4. Gains(x, Q, ch, t) => Gains(o[x], Q, ch, t)
      BY <3>1
    <3> QED BY <1>16, <2>2, <3>1, <3>2, <3>3
  <2> QED BY <1>4, <2>1, <2>2
<1>19. WholeText(R, d, v, o, Q, s, ch, k, t)
  BY <1>4, <1>6, <1>7, <1>8 DEF WholeText
<1>20. CutOff(R, d, v, o, Q[ch[k]].trans[t], Q[ch[k]].len + 1)
  <2> SUFFICES ASSUME NEW x \in 1..d, x # v, o[x] = q, Shortest(R, x) <= l
               PROVE  R[x].len <= l
    BY DEF CutOff
  <2>1. x = d
    <3>1. x # q
      BY <1>3, <1>10
    <3>2. x \in 1..n => o[x] = x
      BY <1>8
    <3>3. x \in 1..n \/ x = d
      BY <1>4
    <3> QED BY <3>1, <3>2, <3>3
  <2>3. R[d].len = l
    BY <1>6
  <2>4. \A i \in Nat : i <= i
    OBVIOUS
  <2>5. l \in Nat
    BY <1>3
  <2>2. R[d].len = l /\ l <= l
    BY <2>3, <2>4, <2>5
  <2> QED BY <2>1, <2>2
<1> QED BY <1>12, <1>13, <1>14, <1>18, <1>19, <1>20 DEF SamGrows, d, v

(* The state r is q, but goes to z with t if this is so.                   *)
Bends(r, q, so, t, z) ==
  /\ r.len = q.len /\ r.end = q.end /\ r.link = q.link
  /\ \A u \in Token : r.trans[u] = IF u = t /\ so THEN z ELSE q.trans[u]

LEMMA AppendedAt ==
  ASSUME NEW X, NEW m \in Nat, NEW Q \in [1..m -> X], NEW x \in X
  PROVE  Append(Q, x)[m + 1] = x /\ \A i \in 1..m : Append(Q, x)[i] = Q[i]
<1>1. Q \in Seq(X) /\ Len(Q) = m
  BY LenProperties
<1> QED BY <1>1, AppendProperties

(* What the states have in common until one is split.                      *)
Begun(g, Q, n, s, t, ch, z) ==
  /\ NewOne(g, n, s, z)
  /\ \A x \in 1..n :
       /\ g[x].len = Q[x].len /\ g[x].end = Q[x].end /\ g[x].link = Q[x].link
       /\ \A u \in Token :
            g[x].trans[u] = IF u = t /\ Gains(x, Q, ch, t) THEN n + 1 ELSE Q[x].trans[u]

(* The states R of a text that went on with t: those of before stay, but   *)
(* one that is split keeps only its longer strings, and goes on as the     *)
(* state of the shorter ones does.                                         *)
Parted(R, Q, x, p, t) ==
  /\ x = Q[p].trans[t] /\ x # 1 /\ Shortest(R, x) = Q[p].len + 2
  /\ \A u \in Token : R[R[x].link].trans[u] = R[x].trans[u]

GrewTo(R, d, Q, n, s, t, ch, k) ==
  /\ d \in Nat /\ n + 1 \in 1..d /\ OfText(R, d, Append(s, t)) /\ R[n + 1].len = Len(s) + 1
  /\ \A x \in 1..n :
       /\ x \in 1..d /\ R[x].len = Q[x].len /\ R[x].end = Q[x].end
       /\ Shortest(R, x) = Shortest(Q, x) \/ (k # 0 /\ Parted(R, Q, x, ch[k], t))

LEMMA LengthenedTo ==
  ASSUME NEW Q, NEW n, NEW s, NEW t, NEW c, NEW ch, NEW k, Ready(Q, n, s, t, c, ch, k),
         NEW R, NEW z, Lengthened(R, Q, n, s, t, ch, z), z \in 1..n, k = 0 => z = 1,
         k # 0 => z = Q[ch[k]].trans[t] /\ Q[z].len = Q[ch[k]].len + 1
  PROVE  GrewTo(R, n + 1, Q, n, s, t, ch, k)
<1>1. /\ OfText(Q, n, s) /\ n \in Nat \ {0}
  BY ReadyFacts DEF OfText
<1>2. OfText(R, n + 1, Append(s, t))
  BY LengthenedGrows, GrownSuffixes
<1>3. /\ NewOne(R, n, s, z)
      /\ \A x \in 1..n : R[x].len = Q[x].len /\ R[x].end = Q[x].end /\ R[x].link = Q[x].link
  BY DEF Lengthened
<1>4. ASSUME NEW x \in 1..n PROVE Shortest(R, x) = Shortest(Q, x)
  <2>1. CASE x = 1
    BY <2>1 DEF Shortest
  <2>2. CASE x # 1
    <3>1. Q[x].link \in 1..n
      BY <1>1, <2>2, LinkFacts
    <3> QED BY <1>3, <2>2, <3>1 DEF Shortest
  <2> QED BY <2>1, <2>2
<1>5. n + 1 \in Nat /\ n + 1 \in 1..(n + 1) /\ \A x \in 1..n : x \in 1..(n + 1)
  BY <1>1
<1> QED BY <1>2, <1>3, <1>4, <1>5 DEF GrewTo, NewOne

LEMMA SplitTo ==
  ASSUME NEW Q, NEW n, NEW s, NEW t, NEW c, NEW ch, NEW k, Ready(Q, n, s, t, c, ch, k), k # 0,
         NEW q, q = Q[ch[k]].trans[t], NEW l, l = Q[ch[k]].len + 1, l # Q[q].len,
         NEW R, SamSplit(R, Q, n, s, t, ch, k, q, l)
  PROVE  GrewTo(R, n + 2, Q, n, s, t, ch, k)
<1>1. OfText(Q, n, s) /\ n \in Nat \ {0} /\ t \in Token /\ EdgesTrue(Q, n, s)
  BY ReadyFacts DEF OfText
<1>2. ch[k] \in 1..n /\ q \in 1..n /\ q # 1
  BY RecursThere
<1>3. Q[ch[k]].len \in Nat /\ Q[q].len \in Nat
  BY <1>1, <1>2, StateFacts
<1>4. OfText(R, n + 2, Append(s, t))
  BY SplitGrows, GrownSuffixes
<1>5. /\ NewOne(R, n, s, n + 2)
      /\ \A x \in 1..n :
           /\ R[x].len = Q[x].len /\ R[x].end = Q[x].end
           /\ R[x].link = IF x = q THEN n + 2 ELSE Q[x].link
           /\ \A u \in Token :
                R[x].trans[u] = IF u = t /\ Gains(x, Q, ch, t) THEN n + 1
                                ELSE IF u = t /\ Diverted(x, Q, ch, k, t, q) THEN n + 2 ELSE Q[x].trans[u]
      /\ R[n + 2].len = l
      /\ \A u \in Token :
           R[n + 2].trans[u] = IF u = t /\ Gains(q, Q, ch, t) THEN n + 1 ELSE Q[q].trans[u]
  BY DEF SamSplit
<1>6. ASSUME NEW x \in 1..n, x # q PROVE Shortest(R, x) = Shortest(Q, x)
  <2>1. CASE x = 1
    BY <2>1 DEF Shortest
  <2>2. CASE x # 1
    <3>1. Q[x].link \in 1..n
      BY <1>1, <2>2, LinkFacts
    <3> QED BY <1>5, <1>6, <2>2, <3>1 DEF Shortest
  <2> QED BY <2>1, <2>2
<1>7. Parted(R, Q, q, ch[k], t)
  <2>1. R[q].link = n + 2
    BY <1>2, <1>5
  <2>2. Shortest(R, q) = Q[ch[k]].len + 2
    <3>1. Shortest(R, q) = l + 1
      BY <1>2, <1>5, <2>1 DEF Shortest
    <3> QED BY <1>3, <3>1
  <2>3. ~Diverted(q, Q, ch, k, t, q)
    <3> SUFFICES ASSUME Q[q].trans[t] = q PROVE FALSE
      BY DEF Diverted
    <3>1. EdgeTrue(Q, s, q, t, q)
      <4>1. Q[q].trans[t] # 0
        BY <1>2
      <4> QED BY <1>1, <1>2, <4>1 DEF EdgesTrue
    <3>2. Q[q].len + 1 <= Q[q].len
      BY <3>1 DEF EdgeTrue
    <3> QED BY <1>3, <3>2
  <2>4. \A u \in Token : R[n + 2].trans[u] = R[q].trans[u]
    BY <1>2, <1>5, <2>3
  <2> QED BY <1>2, <2>1, <2>2, <2>4 DEF Parted
<1>8. n + 2 \in Nat /\ n + 1 \in 1..(n + 2) /\ \A x \in 1..n : x \in 1..(n + 2)
  BY <1>1
<1>9. ASSUME NEW x \in 1..n
      PROVE  /\ x \in 1..(n + 2) /\ R[x].len = Q[x].len /\ R[x].end = Q[x].end
             /\ Shortest(R, x) = Shortest(Q, x) \/ (k # 0 /\ Parted(R, Q, x, ch[k], t))
  BY <1>5, <1>6, <1>7, <1>8
<1> QED BY <1>4, <1>5, <1>8, <1>9 DEF GrewTo, NewOne

(* Some of the states that stand for suffixes are now said to end at the   *)
(* end.                                                                    *)
SamMoved(P, Q, n, s) ==
  /\ P \in [1..n -> Nodes(n)]
  /\ \A x \in 1..n :
       /\ P[x].len = Q[x].len /\ P[x].link = Q[x].link /\ \A u \in Token : P[x].trans[u] = Q[x].trans[u]
       /\ P[x].end = Q[x].end \/ (P[x].end = Len(s) /\ Alike(s, Q[x].end, Len(s), Q[x].len))

LEMMA MovedAlike ==
  ASSUME NEW n, NEW Q, NEW s, OfText(Q, n, s), NEW P, SamMoved(P, Q, n, s), NEW x \in 1..n
  PROVE  /\ Shortest(P, x) = Shortest(Q, x) /\ ClassLengths(P, x) = ClassLengths(Q, x)
         /\ P[x].end \in Nat /\ P[x].end <= Len(s) /\ P[x].len <= P[x].end
         /\ Alike(s, Q[x].end, P[x].end, P[x].len) /\ Alike(s, P[x].end, Q[x].end, P[x].len)
<1>1. \A y \in 1..n : P[y].len = Q[y].len /\ P[y].link = Q[y].link
  BY DEF SamMoved
<1>2. Shortest(P, x) = Shortest(Q, x)
  <2>1. CASE x = 1
    BY <2>1 DEF Shortest
  <2>2. CASE x # 1
    <3>1. Q[x].link \in 1..n
      BY <2>2, LinkFacts
    <3> QED BY <1>1, <2>2, <3>1 DEF Shortest
  <2> QED BY <2>1, <2>2
<1>3. ClassLengths(P, x) = ClassLengths(Q, x)
  BY <1>1, <1>2 DEF ClassLengths
<1>4. /\ Q[x].len \in Nat /\ Q[x].end \in Nat /\ Q[x].len <= Q[x].end /\ Q[x].end <= Len(s) /\ Len(s) \in Nat
      /\ P[x].len = Q[x].len
  BY <1>1, StateFacts
<1>5. P[x].end = Q[x].end \/ (P[x].end = Len(s) /\ Alike(s, Q[x].end, Len(s), Q[x].len))
  BY DEF SamMoved
<1>6. P[x].end \in Nat /\ P[x].end <= Len(s) /\ P[x].len <= P[x].end
  <2>1. Q[x].len <= Len(s) /\ Len(s) <= Len(s)
    BY <1>4
  <2> QED BY <1>4, <1>5, <2>1
<1>7. Alike(s, Q[x].end, P[x].end, Q[x].len)
  <2>1. Alike(s, Q[x].end, Q[x].end, Q[x].len)
    BY <1>4, AlikeSelf
  <2> QED BY <1>5, <2>1
<1>8. Alike(s, P[x].end, Q[x].end, Q[x].len)
  BY <1>4, <1>6, <1>7, AlikeBack
<1> QED BY <1>2, <1>3, <1>4, <1>6, <1>7, <1>8

LEMMA MovedSuffixes ==
  ASSUME NEW n, NEW Q, NEW s, OfText(Q, n, s), NEW P, SamMoved(P, Q, n, s)
  PROVE  OfText(P, n, s)
<1>1. /\ n \in Nat \ {0} /\ s \in Context /\ Shaped(Q, n, s) /\ LinksTrue(Q, n, s) /\ EdgesTrue(Q, n, s)
      /\ EdgesFull(Q, n, s) /\ EndsWhole(Q, n, s) /\ StatesDiffer(Q, n, s) /\ OfText(Q, n, s)
  BY DEF OfText
<1>2. /\ P \in [1..n -> Nodes(n)]
      /\ \A x \in 1..n : P[x].len = Q[x].len /\ P[x].link = Q[x].link /\ \A u \in Token : P[x].trans[u] = Q[x].trans[u]
  BY DEF SamMoved
<1>3. ASSUME NEW x \in 1..n
      PROVE  /\ Q[x].len \in Nat /\ Q[x].end \in Nat /\ Q[x].end <= Len(s) /\ Q[x].len <= Q[x].end /\ Len(s) \in Nat
             /\ Shortest(Q, x) \in Nat /\ Shortest(Q, x) <= Q[x].len
             /\ Shortest(P, x) = Shortest(Q, x) /\ ClassLengths(P, x) = ClassLengths(Q, x)
             /\ P[x].end \in Nat /\ P[x].end <= Len(s) /\ P[x].len <= P[x].end /\ P[x].len = Q[x].len
             /\ Alike(s, Q[x].end, P[x].end, Q[x].len) /\ Alike(s, P[x].end, Q[x].end, Q[x].len)
  <2>1. /\ Q[x].len \in Nat /\ Q[x].end \in Nat /\ Q[x].end <= Len(s) /\ Q[x].len <= Q[x].end /\ Len(s) \in Nat
        /\ Shortest(Q, x) \in Nat /\ Shortest(Q, x) <= Q[x].len
    BY StateFacts
  <2>2. /\ Shortest(P, x) = Shortest(Q, x) /\ ClassLengths(P, x) = ClassLengths(Q, x)
        /\ P[x].end \in Nat /\ P[x].end <= Len(s) /\ P[x].len <= P[x].end
        /\ Alike(s, Q[x].end, P[x].end, P[x].len) /\ Alike(s, P[x].end, Q[x].end, P[x].len)
    BY MovedAlike
  <2>3. P[x].len = Q[x].len
    BY <1>2
  <2> HIDE DEF SamMoved, OfText
  <2> QED BY <2>1, <2>2, <2>3
<1>4. Shaped(P, n, s)
  <2>1. P[1].len = 0 /\ P[1].link = 0
    BY <1>1, <1>2 DEF Shaped
  <2>2. \A x \in 1..n : x # 1 => P[x].link \in 1..n
    BY <1>1, <1>2 DEF Shaped
  <2>3. \A x \in 1..n : Shortest(P, x) <= P[x].len /\ P[x].len <= P[x].end /\ P[x].end <= Len(s)
    BY <1>3
  <2> QED BY <2>1, <2>2, <2>3 DEF Shaped
<1>5. LinksTrue(P, n, s)
  <2> SUFFICES ASSUME NEW x \in 1..n, x # 1
               PROVE  Alike(s, P[P[x].link].end, P[x].end, P[P[x].link].len)
    BY DEF LinksTrue
  <2> DEFINE z == Q[x].link
             m == Q[z].len
  <2>1. z \in 1..n /\ m < Q[x].len /\ Alike(s, Q[z].end, Q[x].end, m)
    BY LinkFacts
  <2>2. P[x].link = z
    BY <1>2
  <2> HIDE DEF z
  <2>3. m \in Nat /\ m <= Q[x].len /\ Q[x].len \in Nat /\ Q[x].end \in Nat /\ P[x].end \in Nat
        /\ Q[z].end \in Nat /\ P[z].end \in Nat
        /\ Alike(s, P[z].end, Q[z].end, m) /\ Alike(s, Q[x].end, P[x].end, Q[x].len)
        /\ P[z].len = m
    BY <1>3, <2>1
  <2> HIDE DEF m
  <2>4. Alike(s, Q[x].end, P[x].end, m)
    BY <2>3, AlikeShort
  <2>5. Alike(s, Q[z].end, P[x].end, m)
    BY <2>1, <2>3, <2>4, AlikeOn
  <2>6. Alike(s, P[z].end, P[x].end, m)
    BY <2>3, <2>5, AlikeOn
  <2> QED BY <2>2, <2>3, <2>6
<1>6. EdgesTrue(P, n, s)
  <2> SUFFICES ASSUME NEW x \in 1..n, NEW t \in Token, P[x].trans[t] # 0
               PROVE  EdgeTrue(P, s, x, t, P[x].trans[t])
    BY DEF EdgesTrue
  <2> DEFINE y == Q[x].trans[t]
  <2>1. P[x].trans[t] = y /\ y # 0
    BY <1>2
  <2>2. y \in 1..n /\ EdgeTrue(Q, s, x, t, y)
    <3>1. y \in 0..n
      BY <1>1, StateFacts
    <3>2. EdgeTrue(Q, s, x, t, y)
      BY <1>1, <2>1 DEF EdgesTrue
    <3> HIDE DEF y
    <3> QED BY <1>1, <2>1, <3>1, <3>2
  <2> HIDE DEF y
  <2> DEFINE l == Q[x].len
             m == Q[y].len
             e == Q[x].end
             f == Q[y].end
             e2 == P[x].end
             f2 == P[y].end
  <2>3. y # 1 /\ l + 1 <= m /\ Shortest(Q, y) <= Shortest(Q, x) + 1 /\ s[f] = t /\ Alike(s, e, f - 1, l)
    BY <2>2 DEF EdgeTrue
  <2>4. /\ l \in Nat /\ m \in Nat /\ e \in Nat /\ f \in Nat /\ e2 \in Nat /\ f2 \in Nat /\ m <= f
        /\ Alike(s, e2, e, l) /\ Alike(s, f, f2, m)
        /\ P[x].len = l /\ P[y].len = m /\ Shortest(P, x) = Shortest(Q, x) /\ Shortest(P, y) = Shortest(Q, y)
    BY <1>3, <2>2
  <2> HIDE DEF l, m, e, f, e2, f2
  <2>5. f - 1 \in Nat /\ f2 - 1 \in Nat /\ m - 1 \in Nat /\ s[f] = s[f2] /\ Alike(s, f - 1, f2 - 1, m - 1)
    <3>1. m # 0
      BY <2>3, <2>4
    <3> QED BY <2>4, <3>1, AlikeLess
  <2>6. Alike(s, f - 1, f2 - 1, l)
    <3>1. l <= m - 1
      BY <2>3, <2>4
    <3> DEFINE i == f - 1
               j == f2 - 1
               h == m - 1
    <3>2. i \in Nat /\ j \in Nat /\ h \in Nat /\ l <= h /\ Alike(s, i, j, h)
      BY <2>5, <3>1
    <3> HIDE DEF i, j, h
    <3>3. Alike(s, i, j, l)
      BY <2>4, <3>2, AlikeShort
    <3> QED BY <3>3 DEF i, j
  <2>7. Alike(s, e2, f2 - 1, l)
    <3> DEFINE i == f - 1
               j == f2 - 1
    <3>1. i \in Nat /\ j \in Nat /\ Alike(s, e, i, l) /\ Alike(s, i, j, l)
      BY <2>3, <2>5, <2>6
    <3> HIDE DEF i, j
    <3>2. Alike(s, e2, i, l)
      BY <2>4, <3>1, AlikeOn
    <3>3. Alike(s, e2, j, l)
      BY <2>4, <3>1, <3>2, AlikeOn
    <3> QED BY <3>3 DEF j
  <2>8. EdgeTrue(P, s, x, t, y)
    BY <2>3, <2>4, <2>5, <2>7 DEF EdgeTrue, e2, f2
  <2> QED BY <2>1, <2>8
<1>7. EdgesFull(P, n, s)
  <2> SUFFICES ASSUME NEW x \in 1..n, NEW e \in 0..(Len(s) - 1), Alike(s, e, P[x].end, P[x].len)
               PROVE  P[x].trans[s[e + 1]] # 0
    BY DEF EdgesFull
  <2>1. e \in 0..Len(s) /\ e \in Nat /\ e + 1 \in 1..Len(s)
    BY <1>3
  <2>2. Alike(s, e, Q[x].end, Q[x].len)
    BY <1>3, <2>1, AlikeOn
  <2>3. s[e + 1] \in Token
    BY <1>1, <2>1, ElementOfSeq DEF Context
  <2>4. Q[x].trans[s[e + 1]] # 0
    BY <1>1, <2>2 DEF EdgesFull
  <2> QED BY <1>2, <2>3, <2>4
<1>8. EndsWhole(P, n, s)
  <2> SUFFICES ASSUME NEW x \in 1..n, NEW m \in ClassLengths(P, x), NEW e \in 0..Len(s),
                      Alike(s, e, P[x].end, m)
               PROVE  Alike(s, e, P[x].end, P[x].len)
    BY DEF EndsWhole
  <2> DEFINE l == Q[x].len
             a == Q[x].end
             b == P[x].end
  <2>1. /\ l \in Nat /\ a \in Nat /\ b \in Nat /\ e \in Nat /\ ClassLengths(P, x) = ClassLengths(Q, x) /\ P[x].len = l
        /\ Alike(s, a, b, l) /\ Alike(s, b, a, l) /\ Shortest(Q, x) \in Nat /\ m \in ClassLengths(Q, x)
    BY <1>3
  <2>2. m \in Nat /\ m <= l
    <3>1. m \in ClassLengths(Q, x) /\ Shortest(Q, x) \in Nat
      BY <2>1
    <3> QED BY <2>1, <3>1 DEF ClassLengths
  <2>3. Alike(s, b, a, m) /\ Alike(s, e, b, m)
    <3>1. Alike(s, e, b, m)
      OBVIOUS
    <3> HIDE DEF l, a, b
    <3>2. Alike(s, b, a, m)
      BY <2>1, <2>2, AlikeShort
    <3> QED BY <3>1, <3>2
  <2>4. Alike(s, e, a, m)
    <3> HIDE DEF l, a, b
    <3> QED BY <2>1, <2>2, <2>3, AlikeOn
  <2>5. Alike(s, e, a, l)
    BY <1>1, <2>1, <2>4 DEF EndsWhole
  <2>6. Alike(s, e, b, l)
    <3> HIDE DEF l, a, b
    <3> QED BY <2>1, <2>5, AlikeOn
  <2> QED BY <2>1, <2>6
<1>9. StatesDiffer(P, n, s)
  <2> SUFFICES ASSUME NEW x \in 1..n, NEW y \in 1..n, Alike(s, P[x].end, P[y].end, P[x].len),
                      P[x].len \in ClassLengths(P, y)
               PROVE  x = y
    BY DEF StatesDiffer
  <2> DEFINE l == Q[x].len
             m == Q[y].len
             a == Q[x].end
             b == P[x].end
             c == Q[y].end
             d == P[y].end
  <2>1. /\ l \in Nat /\ a \in Nat /\ b \in Nat /\ c \in Nat /\ d \in Nat /\ m \in Nat /\ Alike(s, b, d, l)
        /\ Alike(s, a, b, l) /\ Alike(s, d, c, m) /\ l \in ClassLengths(Q, y) /\ Shortest(Q, y) \in Nat
    BY <1>3
  <2>2. l <= m
    BY <2>1 DEF ClassLengths
  <2>3. Alike(s, a, c, l)
    <3> HIDE DEF l, m, a, b, c, d
    <3>1. Alike(s, d, c, l)
      BY <2>1, <2>2, AlikeShort
    <3>2. Alike(s, a, d, l)
      BY <2>1, AlikeOn
    <3> QED BY <2>1, <3>1, <3>2, AlikeOn
  <2> QED BY <1>1, <2>1, <2>3 DEF StatesDiffer
<1> QED BY <1>1, <1>2, <1>4, <1>5, <1>6, <1>7, <1>8, <1>9 DEF OfText

(* The longest suffix of s that also ends earlier has M tokens, and ends   *)
(* at f if there is one.                                                   *)
LongestAt(s, f, M) ==
  /\ M \in Nat
  /\ M # 0 => f \in Nat /\ f < Len(s) /\ Alike(s, f, Len(s), M)
  /\ \A e \in 0..(Len(s) - 1) : \A m \in Nat : Alike(s, e, Len(s), m) => m <= M

(* A state whose own strings are one token too long, since the shorter     *)
(* ones have been split from it: they go on in the same way.               *)
Twin(Q, at, M) ==
  /\ at # 1 /\ Shortest(Q, at) = M + 1
  /\ \A u \in Token : Q[Q[at].link].trans[u] = Q[at].trans[u]

(* The cursor is on the longest suffix that ends earlier, too.             *)
Cursor(Q, n, s, at, M) ==
  /\ at \in 1..n /\ M <= Q[at].len /\ LongestAt(s, Q[at].end, M)
  /\ Shortest(Q, at) <= M \/ Twin(Q, at, M)

LEMMA CursorFacts ==
  ASSUME NEW Q, NEW n, NEW s, OfText(Q, n, s), NEW at, NEW M, Cursor(Q, n, s, at, M),
         NEW ch, Goes(ch, Q, n, at), Falls(ch, Q)
  PROVE  /\ at \in 1..n /\ M \in Nat /\ M <= Q[at].len /\ Q[at].end \in 0..Len(s) /\ Len(s) \in Nat
         /\ Alike(s, Q[at].end, Len(s), M)
         /\ \A e \in 0..(Len(s) - 1) : \A m \in Nat : Alike(s, e, Len(s), m) => m <= M
         /\ \A i \in 1..Len(ch) :
              /\ ch[i] \in 1..n
              /\ ch[i] = at \/ (1 < i /\ Q[ch[i]].len <= M /\ Alike(s, Q[ch[i]].end, Len(s), Q[ch[i]].len))
<1>1. at \in 1..n /\ M \in Nat /\ M <= Q[at].len /\ LongestAt(s, Q[at].end, M)
  BY DEF Cursor, LongestAt
<1>2. Q[at].end \in Nat /\ Q[at].end <= Len(s) /\ Len(s) \in Nat /\ Shortest(Q, at) \in Nat
  BY <1>1, StateFacts
<1>3. Alike(s, Q[at].end, Len(s), M)
  <2>1. CASE M = 0
    BY <1>2, <2>1, AlikeNone
  <2>2. CASE M # 0
    BY <1>1, <2>2 DEF LongestAt
  <2> QED BY <2>1, <2>2
<1>4. Shortest(Q, at) <= M + 1
  <2>1. Shortest(Q, at) <= M \/ Shortest(Q, at) = M + 1
    BY DEF Cursor, Twin
  <2> QED BY <1>1, <1>2, <2>1
<1>5. ASSUME NEW i \in 1..Len(ch)
      PROVE  /\ ch[i] \in 1..n
             /\ ch[i] = at \/ (1 < i /\ Q[ch[i]].len <= M /\ Alike(s, Q[ch[i]].end, Len(s), Q[ch[i]].len))
  <2>1. /\ ch[i] \in 1..n /\ Q[ch[i]].len <= Q[at].len
        /\ Alike(s, Q[ch[i]].end, Q[at].end, Q[ch[i]].len)
    BY <1>1, ChainAlike
  <2>2. ch[1] = at /\ Len(ch) \in Nat \ {0}
    BY DEF Goes
  <2>3. ASSUME ch[i] # at
        PROVE  1 < i /\ Q[ch[i]].len <= M /\ Alike(s, Q[ch[i]].end, Len(s), Q[ch[i]].len)
    <3>1. 1 < i /\ 1 \in 1..Len(ch)
      BY <2>2, <2>3
    <3>2. Q[ch[i]].len < Shortest(Q, at)
      BY <2>2, <3>1 DEF Falls
    <3>3. Q[ch[i]].len \in Nat /\ Q[ch[i]].end \in Nat
      BY <2>1, StateFacts
    <3>4. Q[ch[i]].len <= M
      BY <1>1, <1>2, <1>4, <3>2, <3>3
    <3> DEFINE l == Q[ch[i]].len
    <3>5. l \in Nat /\ l <= M
      BY <3>3, <3>4
    <3> HIDE DEF l
    <3>6. Alike(s, Q[at].end, Len(s), l)
      BY <1>1, <1>2, <1>3, <3>5, AlikeShort
    <3>7. Alike(s, Q[ch[i]].end, Len(s), l)
      BY <1>2, <2>1, <3>3, <3>5, <3>6, AlikeOn DEF l
    <3> QED BY <3>1, <3>4, <3>7 DEF l
  <2> QED BY <2>1, <2>3
<1>6. Q[at].end \in 0..Len(s)
  BY <1>2
<1> QED BY <1>1, <1>2, <1>3, <1>5, <1>6 DEF LongestAt

(* With t, there is no longer one than what the chain gives.               *)
LEMMA StepBound ==
  ASSUME NEW Q, NEW n, NEW s, OfText(Q, n, s), NEW at, NEW M, Cursor(Q, n, s, at, M),
         NEW ch, Goes(ch, Q, n, at), Falls(ch, Q), NEW t \in Token, NEW k, FirstOn(k, Q, ch, t),
         NEW e \in 0..Len(s), NEW m \in Nat \ {0}, Alike(Append(s, t), e, Len(s) + 1, m)
  PROVE  k # 0 /\ m - 1 <= (IF ch[k] = at THEN M ELSE Q[ch[k]].len)
<1> DEFINE N == Len(s)
           u == Append(s, t)
           d == e - 1
           l == m - 1
<1>1. /\ at \in 1..n /\ M \in Nat /\ M <= Q[at].len /\ Q[at].end \in 0..N /\ N \in Nat
      /\ Alike(s, Q[at].end, N, M)
      /\ \A f \in 0..(N - 1) : \A j \in Nat : Alike(s, f, N, j) => j <= M
      /\ \A i \in 1..Len(ch) : ch[i] \in 1..n
  BY CursorFacts
<1>2. s \in Context /\ u[N + 1] = t /\ \A i \in 1..N : u[i] = s[i]
  BY AppendProperties DEF OfText, Context
<1> HIDE DEF N, u
<1>3. d \in Nat /\ l \in Nat /\ u[e] = u[N + 1] /\ Alike(u, d, N, l)
  <2>1. e \in Nat /\ N + 1 \in Nat /\ m \in Nat /\ m # 0 /\ Alike(u, e, N + 1, m)
    BY <1>1 DEF N, u
  <2>2. e - 1 \in Nat /\ m - 1 \in Nat /\ u[e] = u[N + 1] /\ Alike(u, e - 1, (N + 1) - 1, m - 1)
    BY <2>1, AlikeLess
  <2>3. (N + 1) - 1 = N
    BY <1>1
  <2> QED BY <2>2, <2>3
<1>4. d \in 0..(N - 1) /\ d + 1 = e /\ e \in 1..N /\ d <= N /\ N <= N
  <2>1. e \in 0..N
    BY DEF N
  <2> QED BY <1>1, <1>3, <2>1
<1> HIDE DEF d, l
<1>5. s[d + 1] = t
  BY <1>2, <1>3, <1>4
<1>6. Alike(s, d, N, l)
  <2>1. Alike(Append(s, t), d, N, l)
    BY <1>3 DEF u
  <2> QED BY <1>1, <1>2, <1>3, <1>4, <2>1, AlikeBefore DEF N
<1>7. l <= M
  BY <1>1, <1>3, <1>4, <1>6
<1>8. Alike(s, d, Q[at].end, l) /\ l <= Q[at].len
  <2>1. Q[at].end \in Nat /\ Q[at].len \in Nat
    BY <1>1, StateFacts
  <2>2. Alike(s, N, Q[at].end, M)
    BY <1>1, <2>1, AlikeBack
  <2>3. Alike(s, N, Q[at].end, l)
    BY <1>1, <1>3, <1>7, <2>1, <2>2, AlikeShort
  <2>4. Alike(s, d, Q[at].end, l)
    BY <1>1, <1>3, <1>6, <2>1, <2>3, AlikeOn
  <2>5. l <= Q[at].len
    BY <1>1, <1>3, <1>7, <2>1
  <2> QED BY <2>4, <2>5
<1>9. k \in 1..Len(ch) /\ l <= Q[ch[k]].len
  BY <1>1, <1>3, <1>4, <1>5, <1>8, WentOn DEF N
<1>10. k # 0
  BY <1>9
<1> QED BY <1>7, <1>9, <1>10 DEF l

(* What the chain gives is one.                                            *)
LEMMA StepThere ==
  ASSUME NEW Q, NEW n, NEW s, OfText(Q, n, s), NEW at, NEW M, Cursor(Q, n, s, at, M),
         NEW ch, Goes(ch, Q, n, at), Falls(ch, Q), NEW t \in Token, NEW k, FirstOn(k, Q, ch, t), k # 0,
         NEW x, x = ch[k], NEW y, y = Q[x].trans[t], NEW l, l = IF x = at THEN M ELSE Q[x].len
  PROVE  /\ x \in 1..n /\ y \in 1..n /\ l \in Nat /\ l + 1 <= Q[y].len /\ Shortest(Q, y) <= l + 1
         /\ Q[y].end <= Len(s) /\ Alike(Append(s, t), Q[y].end, Len(s) + 1, l + 1)
<1> DEFINE N == Len(s)
           u == Append(s, t)
<1>1. /\ at \in 1..n /\ M \in Nat /\ M <= Q[at].len /\ N \in Nat /\ Alike(s, Q[at].end, N, M)
      /\ \A i \in 1..Len(ch) :
           /\ ch[i] \in 1..n
           /\ ch[i] = at \/ (1 < i /\ Q[ch[i]].len <= M /\ Alike(s, Q[ch[i]].end, N, Q[ch[i]].len))
  BY CursorFacts
<1>2. s \in Context /\ u[N + 1] = t /\ (\A i \in 1..N : u[i] = s[i]) /\ n \in Nat \ {0}
  BY AppendProperties DEF OfText, Context
<1>3. k \in 1..Len(ch) /\ y # 0
  BY DEF FirstOn
<1>4. x \in 1..n /\ (x = at \/ (Q[x].len <= M /\ Alike(s, Q[x].end, N, Q[x].len)))
  BY <1>1, <1>3
<1> HIDE DEF N, u
<1>5. y \in 1..n /\ EdgeTrue(Q, s, x, t, y)
  <2>1. y \in 0..n
    BY <1>4, StateFacts
  <2>2. EdgeTrue(Q, s, x, t, y)
    BY <1>3, <1>4 DEF OfText, EdgesTrue
  <2>3. y \in 1..n
    BY <1>2, <1>3, <2>1
  <2> QED BY <2>2, <2>3
<1>6. /\ Q[x].len \in Nat /\ Q[x].end \in Nat /\ Q[y].len \in Nat /\ Q[y].end \in Nat
      /\ Q[y].len <= Q[y].end /\ Q[y].end <= N /\ Shortest(Q, x) \in Nat /\ Shortest(Q, y) \in Nat
      /\ Shortest(Q, x) <= Q[x].len
  BY <1>4, <1>5, StateFacts DEF N
<1>7. /\ Q[x].len + 1 <= Q[y].len /\ Shortest(Q, y) <= Shortest(Q, x) + 1
      /\ s[Q[y].end] = t /\ Alike(s, Q[x].end, Q[y].end - 1, Q[x].len)
  BY <1>5 DEF EdgeTrue
<1>8. l \in Nat /\ l <= Q[x].len /\ Alike(s, Q[x].end, N, l)
  <2>1. CASE x = at
    BY <1>1, <2>1
  <2>2. CASE x # at
    <3>1. l = Q[x].len
      BY <2>2
    <3>2. Q[x].len <= Q[x].len
      BY <1>6
    <3> QED BY <1>4, <1>6, <2>2, <3>1, <3>2
  <2> QED BY <2>1, <2>2
<1>9. l + 1 <= Q[y].len
  BY <1>6, <1>7, <1>8
<1>10. Shortest(Q, y) <= l + 1
  <2>1. CASE x # at
    <3>1. l = Q[x].len
      BY <2>1
    <3> HIDE DEF Shortest
    <3> QED BY <1>6, <1>7, <3>1
  <2>2. CASE x = at /\ Shortest(Q, at) <= M
    <3>1. l = M /\ Shortest(Q, x) <= l
      BY <2>2
    <3> QED BY <1>6, <1>7, <1>8, <3>1
  <2>3. CASE x = at /\ Twin(Q, at, M)
    <3> DEFINE z == Q[at].link
    <3>1. z \in 1..n /\ Shortest(Q, at) = Q[z].len + 1
      BY <1>1, <2>3, LinkFacts DEF Twin
    <3>2. Q[z].trans[t] = y
      BY <2>3 DEF Twin
    <3>3. Shortest(Q, at) = M + 1 /\ l = M
      BY <2>3 DEF Twin
    <3> HIDE DEF z
    <3>4. EdgeTrue(Q, s, z, t, y)
      BY <1>3, <3>1, <3>2 DEF OfText, EdgesTrue
    <3>5. Shortest(Q, y) <= Shortest(Q, z) + 1
      BY <3>4 DEF EdgeTrue
    <3>6. Q[z].len \in Nat /\ Shortest(Q, z) \in Nat /\ Shortest(Q, z) <= Q[z].len
      BY <3>1, StateFacts
    <3>7. Q[z].len = l
      BY <1>8, <3>1, <3>3, <3>6
    <3> QED BY <1>6, <3>5, <3>6, <3>7
  <2> QED BY <2>1, <2>2, <2>3 DEF Cursor
<1> DEFINE d == Q[y].end - 1
           f == Q[x].end
<1>11. d \in Nat /\ d + 1 = Q[y].end /\ d + 1 \in 1..N /\ d <= N /\ f \in Nat /\ Alike(s, f, d, Q[x].len)
  <2> DEFINE a == Q[y].end
             b == Q[y].len
  <2>1. a \in Nat /\ b \in Nat /\ b <= a /\ a <= N /\ l + 1 <= b /\ l \in Nat /\ N \in Nat
    BY <1>1, <1>6, <1>8, <1>9
  <2> HIDE DEF a, b
  <2>2. a - 1 \in Nat /\ (a - 1) + 1 = a /\ a \in 1..N /\ a - 1 <= N
    BY <2>1
  <2> QED BY <1>6, <1>7, <2>2 DEF a
<1> HIDE DEF d, f
<1>12. Alike(s, d, N, l)
  <2>1. Alike(s, f, d, l)
    BY <1>6, <1>8, <1>11, AlikeShort
  <2>2. Alike(s, d, f, l) /\ Alike(s, f, N, l)
    BY <1>8, <1>11, <2>1, AlikeBack DEF f
  <2> QED BY <1>1, <1>8, <1>11, <2>2, AlikeOn
<1>13. Alike(u, d, N, l)
  <2>1. N <= N
    BY <1>1
  <2> QED BY <1>1, <1>2, <1>8, <1>11, <1>12, <2>1, AlikeBefore DEF u, N
<1>14. u[d + 1] = u[N + 1]
  BY <1>2, <1>7, <1>11
<1>15. Alike(u, d + 1, N + 1, l + 1)
  BY <1>1, <1>8, <1>11, <1>13, <1>14, AlikeMore
<1>16. Alike(u, Q[y].end, N + 1, l + 1)
  BY <1>11, <1>15
<1> QED BY <1>4, <1>5, <1>6, <1>8, <1>9, <1>10, <1>16 DEF N, u

(* Where the cursor gets to when t follows s: M tokens, of the state y.    *)
Stepped(Q, n, s, t, y, M) ==
  /\ y \in 1..n /\ M \in Nat /\ M <= Q[y].len /\ Shortest(Q, y) <= M
  /\ Q[y].end <= Len(s) /\ Alike(Append(s, t), Q[y].end, Len(s) + 1, M)
  /\ \A e \in 0..Len(s) : \A m \in Nat : Alike(Append(s, t), e, Len(s) + 1, m) => m <= M

(* Moving where states end makes no difference to where the cursor gets.   *)
LEMMA MovedStepped ==
  ASSUME NEW n, NEW Q, NEW s, OfText(Q, n, s), NEW P, SamMoved(P, Q, n, s), NEW t \in Token,
         NEW y, NEW M, Stepped(Q, n, s, t, y, M)
  PROVE  Stepped(P, n, s, t, y, M)
<1> DEFINE N == Len(s)
           u == Append(s, t)
<1>1. /\ y \in 1..n /\ M \in Nat /\ M <= Q[y].len /\ Shortest(Q, y) <= M
      /\ Q[y].end <= N /\ Alike(u, Q[y].end, N + 1, M)
      /\ \A e \in 0..N : \A m \in Nat : Alike(u, e, N + 1, m) => m <= M
  BY DEF Stepped
<1>2. Q[y].end \in Nat /\ Q[y].len \in Nat /\ N \in Nat /\ s \in Context /\ P[y].len = Q[y].len
  BY <1>1, StateFacts DEF OfText, SamMoved
<1>3. /\ Shortest(P, y) = Shortest(Q, y) /\ P[y].end \in Nat /\ P[y].end <= N
      /\ Alike(s, P[y].end, Q[y].end, Q[y].len)
  BY <1>1, <1>2, MovedAlike
<1>4. Alike(s, P[y].end, Q[y].end, M)
  BY <1>1, <1>2, <1>3, AlikeShort
<1> HIDE DEF N
<1>5. Alike(Append(s, t), P[y].end, Q[y].end, M)
  BY <1>1, <1>2, <1>3, <1>4, AlikeBefore DEF N
<1>6. Alike(u, P[y].end, N + 1, M)
  <2>1. N + 1 \in Nat /\ Alike(u, P[y].end, Q[y].end, M)
    BY <1>2, <1>5
  <2> HIDE DEF u
  <2> QED BY <1>1, <1>2, <1>3, <2>1, AlikeOn
<1> QED BY <1>1, <1>2, <1>3, <1>6 DEF Stepped, N

(* The text has gone on: the cursor is where it got to, whether its state  *)
(* was split or not.                                                       *)
LEMMA CursorGrows ==
  ASSUME NEW Q, NEW n, NEW s, NEW t, NEW c, NEW ch, NEW k, Ready(Q, n, s, t, c, ch, k),
         NEW y, NEW M, Stepped(Q, n, s, t, y, M), NEW R, NEW d, GrewTo(R, d, Q, n, s, t, ch, k)
  PROVE  Cursor(R, d, Append(s, t), y, M)
<1> DEFINE N == Len(s)
           u == Append(s, t)
<1>1. OfText(Q, n, s) /\ t \in Token /\ N \in Nat /\ Len(u) = N + 1
  BY ReadyFacts
<1>2. /\ y \in 1..n /\ M \in Nat /\ M <= Q[y].len /\ Shortest(Q, y) <= M
      /\ Q[y].end <= N /\ Alike(u, Q[y].end, N + 1, M)
      /\ \A e \in 0..N : \A m \in Nat : Alike(u, e, N + 1, m) => m <= M
  BY DEF Stepped
<1>3. /\ y \in 1..d /\ R[y].len = Q[y].len /\ R[y].end = Q[y].end
      /\ Shortest(R, y) = Shortest(Q, y) \/ (k # 0 /\ Parted(R, Q, y, ch[k], t))
  BY <1>2 DEF GrewTo
<1>4. Q[y].end \in Nat
  BY <1>1, <1>2, StateFacts
<1>5. LongestAt(u, R[y].end, M)
  <2>1. Q[y].end < N + 1
    BY <1>1, <1>2, <1>4
  <2>2. (N + 1) - 1 = N
    BY <1>1
  <2> HIDE DEF u, N
  <2> QED BY <1>1, <1>2, <1>3, <1>4, <2>1, <2>2 DEF LongestAt
<1>6. ASSUME k # 0, Parted(R, Q, y, ch[k], t)
      PROVE  Twin(R, y, M)
  <2> DEFINE p == ch[k]
  <2>1. /\ y = Q[p].trans[t] /\ y # 1 /\ Shortest(R, y) = Q[p].len + 2
        /\ \A x \in Token : R[R[y].link].trans[x] = R[y].trans[x]
    BY <1>6 DEF Parted
  <2>2. /\ p \in 1..n /\ Q[p].len + 1 <= Q[y].len
        /\ Alike(u, Q[y].end, N + 1, Q[p].len + 1)
    BY <1>6, <2>1, RecursThere
  <2>3. Q[p].len \in Nat /\ Q[p].len + 1 \in Nat
    BY <1>1, <2>2, StateFacts
  <2>4. Q[y].end \in 0..N
    BY <1>1, <1>2, <1>4
  <2>5. Q[p].len + 1 <= M
    <3> HIDE DEF u, N, p
    <3> QED BY <1>2, <2>2, <2>3, <2>4
  <2>6. M <= Q[p].len + 1
    <3>1. M # 0
      BY <1>2, <2>3, <2>5
    <3> QED BY <1>2, <2>4, <3>1, Recurs
  <2>7. M = Q[p].len + 1
    BY <1>2, <2>3, <2>5, <2>6
  <2>8. Shortest(R, y) = M + 1
    <3> HIDE DEF p
    <3> QED BY <1>2, <2>1, <2>3, <2>7
  <2> QED BY <2>1, <2>8 DEF Twin
<1>7. Shortest(R, y) <= M \/ Twin(R, y, M)
  BY <1>2, <1>3, <1>6
<1> QED BY <1>2, <1>3, <1>5, <1>7 DEF Cursor

(* The automaton of a text.                                                *)
IsSam(a, n) ==
  /\ SamTyped(a, n) /\ OfText(a.states, n, a.seq) /\ a.states[a.last].len = Len(a.seq)
  /\ Cursor(a.states, n, a.seq, a.at, a.matched)

IsAutomaton(a) == \E n \in Nat \ {0} : IsSam(a, n)

Says(m, f, M) == m.len = M /\ (M # 0 => m.end = f)

===============================================================================
