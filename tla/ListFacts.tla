------------------------------ MODULE ListFacts ------------------------------
(***************************************************************************)
(* Lemmas on lists: what is left of one that is filtered with Only, and    *)
(* what appending to it and taking its head make of it.                    *)
(***************************************************************************)
EXTENDS Integers, SequencesExt, Lists, FiniteSetTheorems, SequenceTheorems, TLAPS

\* The elements of K in order of size: each has a rank, smaller ones a smaller
\* rank, and every rank up to the number of elements is taken.
LEMMA Ranks ==
  ASSUME NEW m \in Nat, NEW K \in SUBSET (1..m)
  PROVE  /\ IsFiniteSet(K) /\ Cardinality(K) \in Nat
         /\ \A a \in K : Cardinality(K \cap 1..a) \in 1..Cardinality(K)
         /\ \A a, b \in K : a < b => Cardinality(K \cap 1..a) < Cardinality(K \cap 1..b)
         /\ \A n \in 1..Cardinality(K) : \E a \in K : Cardinality(K \cap 1..a) = n
<1> DEFINE rank == [a \in K |-> Cardinality(K \cap 1..a)]
<1>1. IsFiniteSet(K) /\ Cardinality(K) \in Nat
  <2>1. IsFiniteSet(1..m)
    BY FS_Interval
  <2>2. IsFiniteSet(K)
    BY <2>1, FS_Subset
  <2> QED BY <2>2, FS_CardinalityType
<1>2. ASSUME NEW a \in K
      PROVE  /\ IsFiniteSet(K \cap 1..a)
             /\ Cardinality(K \cap 1..a) \in 1..Cardinality(K)
  <2>1. IsFiniteSet(K \cap 1..a) /\ Cardinality(K \cap 1..a) <= Cardinality(K)
    BY <1>1, FS_Subset
  <2>2. a \in K \cap 1..a
    OBVIOUS
  <2>3. Cardinality(K \cap 1..a) \in Nat /\ Cardinality(K \cap 1..a) # 0
    BY <2>1, <2>2, FS_EmptySet, FS_CardinalityType
  <2> QED BY <1>1, <2>1, <2>3
<1>3. ASSUME NEW a \in K, NEW b \in K, a < b
      PROVE  Cardinality(K \cap 1..a) < Cardinality(K \cap 1..b)
  <2>1. K \cap 1..a \in SUBSET (K \cap 1..b) /\ K \cap 1..a # K \cap 1..b
    BY <1>3
  <2>2. /\ Cardinality(K \cap 1..a) <= Cardinality(K \cap 1..b)
        /\ Cardinality(K \cap 1..a) # Cardinality(K \cap 1..b)
    BY <1>2, <2>1, FS_Subset
  <2> QED BY <1>2, <2>2
<1>4. rank \in Injection(K, 1..Cardinality(K))
  <2>1. rank \in [K -> 1..Cardinality(K)]
    BY <1>2
  <2>2. ASSUME NEW a \in K, NEW b \in K, rank[a] = rank[b] PROVE a = b
    <3>1. a \in Int /\ b \in Int
      OBVIOUS
    <3>2. rank[a] \in Int /\ rank[b] \in Int
      BY <1>1, <2>1
    <3>3. ~(a < b) /\ ~(b < a)
      BY <1>3, <2>2, <3>2
    <3> QED BY <3>1, <3>3
  <2> QED BY <2>1, <2>2 DEF Injection, IsInjective
<1>5. rank \in Surjection(K, 1..Cardinality(K))
  <2>1. IsFiniteSet(1..Cardinality(K)) /\ Cardinality(1..Cardinality(K)) = Cardinality(K)
    BY <1>1, FS_Interval
  <2> QED BY <1>4, <2>1, FS_Injection
<1>6. ASSUME NEW n \in 1..Cardinality(K)
      PROVE  \E a \in K : Cardinality(K \cap 1..a) = n
  BY <1>5 DEF Surjection
<1> QED BY <1>1, <1>2, <1>3, <1>6

\* The list o holds the elements of S in the list s, all of them and in their
\* order: pos is where each of them was.
Selects(pos, o, s, S) ==
  /\ pos \in [1..Len(o) -> 1..Len(s)]
  /\ \A n \in 1..Len(o) : o[n] = s[pos[n]] /\ s[pos[n]] \in S
  /\ \A k, n \in 1..Len(o) : k < n => pos[k] < pos[n]
  /\ \A a \in 1..Len(s) : s[a] \in S => \E n \in 1..Len(o) : pos[n] = a

\* Only unlinks what is not in S, and nothing else.
LEMMA OnlyShape ==
  ASSUME NEW T, NEW s \in Seq(T), NEW S
  PROVE  Only(s, S) \in Seq(T) /\ \E pos : Selects(pos, Only(s, S), s, S)
<1> DEFINE K == {a \in DOMAIN s : s[a] \in S}
           N == Cardinality(K)
           pos == [n \in 1..N |-> CHOOSE a \in K : Cardinality(K \cap 1..a) = n]
<1>1. Len(s) \in Nat /\ DOMAIN s = 1..Len(s) /\ K \in SUBSET (1..Len(s))
  OBVIOUS
<1> HIDE DEF K
<1>2. /\ N \in Nat
      /\ \A a \in K : Cardinality(K \cap 1..a) \in 1..N
      /\ \A a, b \in K : a < b => Cardinality(K \cap 1..a) < Cardinality(K \cap 1..b)
      /\ \A n \in 1..N : \E a \in K : Cardinality(K \cap 1..a) = n
  BY <1>1, Ranks
<1> HIDE DEF N
<1>3. \A n \in 1..N : pos[n] \in K /\ Cardinality(K \cap 1..pos[n]) = n
  BY <1>2
<1> HIDE DEF pos
<1>4. Only(s, S) = [n \in 1..N |-> s[pos[n]]]
  BY DEF Only, K, N, pos
<1>5. \A n \in 1..N : s[pos[n]] \in T /\ s[pos[n]] \in S /\ pos[n] \in 1..Len(s)
  <2> SUFFICES ASSUME NEW n \in 1..N
               PROVE  s[pos[n]] \in T /\ s[pos[n]] \in S /\ pos[n] \in 1..Len(s)
    OBVIOUS
  <2>1. pos[n] \in K
    BY <1>3
  <2>2. pos[n] \in 1..Len(s) /\ s[pos[n]] \in S
    BY <1>1, <2>1 DEF K
  <2> QED BY <2>2, ElementOfSeq
<1>6. Only(s, S) \in Seq(T) /\ Len(Only(s, S)) = N
  BY <1>2, <1>4, <1>5
<1>7. \A k, n \in 1..N : k < n => pos[k] < pos[n]
  <2> SUFFICES ASSUME NEW k \in 1..N, NEW n \in 1..N, k < n, ~(pos[k] < pos[n])
               PROVE  FALSE
    OBVIOUS
  <2>1. pos[k] \in 1..Len(s) /\ pos[n] \in 1..Len(s)
    BY <1>5
  <2>2. pos[n] < pos[k] \/ pos[n] = pos[k]
    BY <1>1, <2>1
  <2>3. /\ pos[k] \in K /\ Cardinality(K \cap 1..pos[k]) = k
        /\ pos[n] \in K /\ Cardinality(K \cap 1..pos[n]) = n
    BY <1>3
  <2>4. CASE pos[n] < pos[k]
    <3>1. n < k
      BY <1>2, <2>3, <2>4
    <3> QED BY <1>2, <3>1
  <2>5. CASE pos[n] = pos[k]
    <3>1. n = k
      BY <2>3, <2>5
    <3> QED BY <1>2, <3>1
  <2> QED BY <2>2, <2>4, <2>5
<1>8. \A a \in 1..Len(s) : s[a] \in S => \E n \in 1..N : pos[n] = a
  <2> SUFFICES ASSUME NEW a \in 1..Len(s), s[a] \in S
               PROVE  \E n \in 1..N : pos[n] = a
    OBVIOUS
  <2>1. a \in K
    BY <1>1 DEF K
  <2> DEFINE n == Cardinality(K \cap 1..a)
  <2>2. n \in 1..N
    BY <1>2, <2>1
  <2>3. pos[n] \in K /\ Cardinality(K \cap 1..pos[n]) = n
    BY <1>3, <2>2
  <2>4. pos[n] \in 1..Len(s)
    BY <1>5, <2>2
  <2> HIDE DEF n
  <2>5. ~(pos[n] < a) /\ ~(a < pos[n])
    <3>1. Cardinality(K \cap 1..a) = n
      BY DEF n
    <3>2. ASSUME pos[n] < a PROVE FALSE
      <4>1. n < n
        BY <1>2, <2>1, <2>3, <3>1, <3>2
      <4> QED BY <1>2, <2>2, <4>1
    <3>3. ASSUME a < pos[n] PROVE FALSE
      <4>1. n < n
        BY <1>2, <2>1, <2>3, <3>1, <3>3
      <4> QED BY <1>2, <2>2, <4>1
    <3> QED BY <3>2, <3>3
  <2>6. pos[n] = a
    BY <1>1, <2>4, <2>5
  <2> QED BY <2>2, <2>6
<1>9. pos \in [1..N -> 1..Len(s)]
  BY <1>5 DEF pos
<1>10. Selects(pos, Only(s, S), s, S)
  BY <1>4, <1>5, <1>6, <1>7, <1>8, <1>9 DEF Selects
<1> QED BY <1>6, <1>10

\* Devices are numbered as they are made and join dev_list at its end, so the
\* list is in the order of the numbers.
Sorted(s) == \A a, b \in DOMAIN s : a < b => s[a] < s[b]

\* What is in a list.
LEMMA RangeShape ==
  ASSUME NEW T, NEW s \in Seq(T)
  PROVE  /\ Len(s) \in Nat /\ DOMAIN s = 1..Len(s)
         /\ Range(s) \subseteq T
         /\ \A x : x \in Range(s) <=> \E a \in 1..Len(s) : s[a] = x
  BY LenProperties DEF Range

\* Unlinking keeps lists free of duplicates, and sorted.
LEMMA OnlyList ==
  ASSUME NEW s \in Seq(Nat), NEW S
  PROVE  /\ Only(s, S) \in Seq(Nat)
         /\ Range(Only(s, S)) = Range(s) \cap S
         /\ NoDuplicates(s) => NoDuplicates(Only(s, S))
         /\ Sorted(s) => Sorted(Only(s, S))
<1> DEFINE o == Only(s, S)
<1>1. o \in Seq(Nat)
  BY OnlyShape
<1>2. PICK pos : Selects(pos, o, s, S)
  BY OnlyShape
<1> HIDE DEF o
<1>3. /\ Len(o) \in Nat /\ DOMAIN o = 1..Len(o)
      /\ Len(s) \in Nat /\ DOMAIN s = 1..Len(s)
  BY <1>1, RangeShape
<1>4. Range(o) = Range(s) \cap S
  <2>1. ASSUME NEW x \in Range(o) PROVE x \in Range(s) \cap S
    <3>1. PICK n \in 1..Len(o) : o[n] = x
      BY <1>1, RangeShape
    <3>2. pos[n] \in 1..Len(s) /\ s[pos[n]] = x /\ x \in S
      BY <1>2, <3>1 DEF Selects
    <3> QED BY <3>2, RangeShape
  <2>2. ASSUME NEW x \in Range(s) \cap S PROVE x \in Range(o)
    <3>1. PICK a \in 1..Len(s) : s[a] = x
      BY RangeShape
    <3>2. PICK n \in 1..Len(o) : pos[n] = a
      BY <1>2, <3>1 DEF Selects
    <3> QED BY <1>1, <1>2, <3>1, <3>2, RangeShape DEF Selects
  <2> QED BY <2>1, <2>2
<1>5. ASSUME NoDuplicates(s) PROVE NoDuplicates(o)
  <2> SUFFICES ASSUME NEW k \in 1..Len(o), NEW n \in 1..Len(o), o[k] = o[n]
               PROVE  k = n
    BY <1>3 DEF NoDuplicates
  <2>1. pos[k] = pos[n]
    BY <1>2, <1>3, <1>5 DEF NoDuplicates, Selects
  <2>2. ~(k < n) /\ ~(n < k)
    BY <1>2, <1>3, <2>1 DEF Selects
  <2> QED BY <1>3, <2>2
<1>6. ASSUME Sorted(s) PROVE Sorted(o)
  BY <1>2, <1>3, <1>6 DEF Sorted, Selects
<1> QED BY <1>1, <1>4, <1>5, <1>6 DEF o

\* A new device is the last of its list.
LEMMA AppendList ==
  ASSUME NEW s \in Seq(Nat), NEW x \in Nat
  PROVE  /\ Append(s, x) \in Seq(Nat)
         /\ Range(Append(s, x)) = Range(s) \cup {x}
         /\ NoDuplicates(s) /\ x \notin Range(s) => NoDuplicates(Append(s, x))
         /\ Sorted(s) /\ (\A y \in Range(s) : y < x) => Sorted(Append(s, x))
<1> DEFINE t == Append(s, x)
<1>1. /\ t \in Seq(Nat) /\ Len(t) = Len(s) + 1
      /\ \A a \in 1..Len(s) : t[a] = s[a]
      /\ t[Len(s) + 1] = x
  BY AppendProperties
<1> HIDE DEF t
<1>2. /\ Len(s) \in Nat /\ DOMAIN s = 1..Len(s) /\ DOMAIN t = 1..(Len(s) + 1)
  BY <1>1, RangeShape
<1>3. Range(t) = Range(s) \cup {x}
  <2>1. ASSUME NEW y \in Range(t) PROVE y \in Range(s) \cup {x}
    <3>1. PICK a \in 1..(Len(s) + 1) : t[a] = y
      BY <1>1, RangeShape
    <3>2. a \in 1..Len(s) \/ a = Len(s) + 1
      BY <1>2
    <3> QED BY <1>1, <3>1, <3>2, RangeShape
  <2>2. ASSUME NEW y \in Range(s) PROVE y \in Range(t)
    <3>1. PICK a \in 1..Len(s) : s[a] = y
      BY RangeShape
    <3>2. a \in 1..(Len(s) + 1) /\ t[a] = y
      BY <1>1, <1>2, <3>1
    <3> QED BY <1>1, <3>2, RangeShape
  <2>3. x \in Range(t)
    BY <1>1, <1>2, RangeShape
  <2> QED BY <2>1, <2>2, <2>3
<1>4. \A a \in 1..Len(s) : s[a] \in Range(s) /\ s[a] \in Nat
  BY RangeShape, ElementOfSeq
<1>5. \A a \in 1..(Len(s) + 1) : a \in 1..Len(s) \/ a = Len(s) + 1
  BY <1>2
<1>6. NoDuplicates(s) /\ x \notin Range(s) => NoDuplicates(t)
  BY <1>1, <1>2, <1>4, <1>5 DEF NoDuplicates
<1>7. ASSUME Sorted(s), \A y \in Range(s) : y < x PROVE Sorted(t)
  <2> SUFFICES ASSUME NEW a \in 1..(Len(s) + 1), NEW b \in 1..(Len(s) + 1), a < b
               PROVE  t[a] < t[b]
    BY <1>1, <1>2 DEF Sorted
  <2>1. a \in 1..Len(s) /\ t[a] = s[a]
    BY <1>1, <1>2
  <2>2. CASE b \in 1..Len(s)
    BY <1>1, <1>2, <1>7, <2>1, <2>2 DEF Sorted
  <2>3. CASE b = Len(s) + 1
    BY <1>1, <1>4, <1>7, <2>1, <2>3
  <2> QED BY <1>5, <2>2, <2>3
<1> QED BY <1>1, <1>3, <1>6, <1>7 DEF t

\* Taking the first device of a list leaves the others.
LEMMA TailList ==
  ASSUME NEW s \in Seq(Nat), s # <<>>, NoDuplicates(s)
  PROVE  /\ Tail(s) \in Seq(Nat)
         /\ Head(s) \in Range(s)
         /\ Range(Tail(s)) = Range(s) \ {Head(s)}
         /\ NoDuplicates(Tail(s))
<1> DEFINE t == Tail(s)
<1>1. /\ t \in Seq(Nat) /\ Len(t) = Len(s) - 1 /\ Len(s) \in Nat \ {0}
      /\ \A a \in 1..Len(t) : t[a] = s[a + 1]
      /\ Head(s) = s[1]
  BY HeadTailProperties, EmptySeq
<1> HIDE DEF t
<1>2. DOMAIN s = 1..Len(s) /\ DOMAIN t = 1..(Len(s) - 1)
  BY <1>1, RangeShape
<1>3. Head(s) \in Range(s)
  BY <1>1, RangeShape
<1>4. ASSUME NEW y \in Range(t) PROVE y \in Range(s) \ {Head(s)}
  <2>1. PICK a \in 1..(Len(s) - 1) : t[a] = y
    BY <1>1, RangeShape
  <2>2. a + 1 \in 1..Len(s) /\ s[a + 1] = y /\ 1 \in 1..Len(s) /\ a + 1 # 1
    BY <1>1, <2>1
  <2>3. s[a + 1] # s[1]
    BY <1>2, <2>2 DEF NoDuplicates
  <2>4. s[a + 1] \in Range(s)
    BY <2>2, RangeShape
  <2> QED BY <1>1, <2>2, <2>3, <2>4
<1>5. ASSUME NEW y \in Range(s) \ {Head(s)} PROVE y \in Range(t)
  <2>1. PICK a \in 1..Len(s) : s[a] = y
    BY RangeShape
  <2>2. a - 1 \in 1..Len(t) /\ (a - 1) + 1 = a
    BY <1>1, <2>1
  <2>3. t[a - 1] = y
    BY <1>1, <2>1, <2>2
  <2> QED BY <1>1, <2>2, <2>3, RangeShape
<1>6. NoDuplicates(t)
  <2> SUFFICES ASSUME NEW a \in 1..(Len(s) - 1), NEW b \in 1..(Len(s) - 1), t[a] = t[b]
               PROVE  a = b
    BY <1>2 DEF NoDuplicates
  <2>0. a \in 1..Len(t) /\ b \in 1..Len(t)
    BY <1>1
  <2>1. /\ a + 1 \in 1..Len(s) /\ b + 1 \in 1..Len(s)
        /\ s[a + 1] = s[b + 1]
    <3>1. t[a] = s[a + 1] /\ t[b] = s[b + 1]
      BY <1>1, <2>0
    <3>2. a + 1 \in 1..Len(s) /\ b + 1 \in 1..Len(s)
      BY <1>1
    <3> QED BY <3>1, <3>2
  <2>2. a + 1 = b + 1
    BY <1>2, <2>1 DEF NoDuplicates
  <2> QED BY <1>1, <2>2
<1>7. Range(t) = Range(s) \ {Head(s)}
  BY <1>4, <1>5
<1> QED BY <1>1, <1>3, <1>6, <1>7 DEF t
===============================================================================
