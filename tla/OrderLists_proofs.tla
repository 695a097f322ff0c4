-------------------------- MODULE OrderLists_proofs --------------------------
(***************************************************************************)
(* What is left of a list, for lists of any length: its elements are those *)
(* of the list that are not taken out, in the same order; and what the     *)
(* bytes of sets of elements add up to.                                    *)
(***************************************************************************)
EXTENDS OrderLists, FiniteSetTheorems, SequenceTheorems,
        WellFoundedInduction, TLAPS

\* The elements that stay are ranked from 1 on, without a gap.
LEMMA RankFacts ==
  ASSUME NEW S, NEW order \in Seq(S), NEW gone
  PROVE  LET K == Staying(order, gone)
             rank(i) == Rank(order, gone, i)
         IN  /\ IsFiniteSet(K) /\ Cardinality(K) \in Nat /\ Cardinality(K) <= Len(order)
             /\ (\E i \in 1 .. Len(order) : order[i] \in gone) => Cardinality(K) < Len(order)
             /\ \A i \in K : rank(i) \in 1 .. Cardinality(K)
             /\ \A i, j \in K : i < j => rank(i) < rank(j)
             /\ \A n \in 1 .. Cardinality(K) : \E i \in K : rank(i) = n
<1> DEFINE K == Staying(order, gone)
           upTo(i) == {j \in K : j <= i}
           rank(i) == Rank(order, gone, i)
<1>1. K \in SUBSET (1 .. Len(order)) /\ Len(order) \in Nat
  BY DEF Staying
<1>2. IsFiniteSet(1 .. Len(order)) /\ Cardinality(1 .. Len(order)) = Len(order)
  <2>1. PICK L \in Nat : L = Len(order)
    BY <1>1
  <2>4. 1 \in Int /\ L \in Int
    BY <2>1
  <2>2. IsFiniteSet(1 .. L) /\ Cardinality(1 .. L) = IF 1 > L THEN 0 ELSE L - 1 + 1
    BY <2>4, FS_Interval, Zenon
  <2>3. Cardinality(1 .. L) = L
    BY <2>1, <2>2
  <2> QED BY <2>1, <2>2, <2>3
<1>3. /\ IsFiniteSet(K) /\ Cardinality(K) <= Len(order)
      /\ Cardinality(K) = Len(order) => K = 1 .. Len(order)
  BY <1>1, <1>2, FS_Subset
<1>4. Cardinality(K) \in Nat
  BY <1>3, FS_CardinalityType
<1>5. (\E i \in 1 .. Len(order) : order[i] \in gone) => Cardinality(K) < Len(order)
  <2>1. (\E i \in 1 .. Len(order) : order[i] \in gone) => K # 1 .. Len(order)
    BY DEF Staying
  <2> QED BY <1>1, <1>3, <1>4, <2>1
<1>6. \A i : rank(i) = Cardinality(upTo(i))
  BY DEF Rank
<1>7. \A i : upTo(i) \in SUBSET K
  OBVIOUS
<1>8. \A i : IsFiniteSet(upTo(i)) /\ Cardinality(upTo(i)) <= Cardinality(K)
  BY <1>3, <1>7, FS_Subset
<1>9. \A i : Cardinality(upTo(i)) \in Nat
  BY <1>8, FS_CardinalityType
<1>10. \A i \in K : rank(i) \in 1 .. Cardinality(K)
  <2> SUFFICES ASSUME NEW i \in K PROVE rank(i) \in 1 .. Cardinality(K)
    OBVIOUS
  <2>1. i \in upTo(i)
    BY <1>1
  <2>2. Cardinality(upTo(i)) # 0
    BY <1>8, <2>1, FS_EmptySet
  <2> HIDE DEF K, upTo, rank
  <2> QED BY <1>4, <1>6, <1>8, <1>9, <2>2
<1>11. \A i, j \in K : i < j => rank(i) < rank(j)
  <2> SUFFICES ASSUME NEW i \in K, NEW j \in K, i < j PROVE rank(i) < rank(j)
    OBVIOUS
  <2>1. upTo(i) \in SUBSET upTo(j) /\ upTo(i) # upTo(j)
    BY <1>1
  <2>2. Cardinality(upTo(i)) <= Cardinality(upTo(j)) /\ Cardinality(upTo(i)) # Cardinality(upTo(j))
    BY <1>8, <2>1, FS_Subset
  <2> HIDE DEF K, upTo, rank
  <2> QED BY <1>6, <1>9, <2>2
<1>12. \A n \in 1 .. Cardinality(K) : \E i \in K : rank(i) = n
  <2> DEFINE f == [i \in K |-> rank(i)]
             N == 1 .. Cardinality(K)
  <2> HIDE DEF K, rank
  <2>1. f \in [K -> N]
    BY <1>10
  <2>2. \A i, j \in K : f[i] = f[j] => i = j
    <3> SUFFICES ASSUME NEW i \in K, NEW j \in K, f[i] = f[j], i # j PROVE FALSE
      OBVIOUS
    <3>1. i \in Int /\ j \in Int /\ rank(i) \in Int /\ rank(j) \in Int
      BY <1>1, <1>10
    <3>2. i < j \/ j < i
      BY <3>1
    <3>3. rank(i) < rank(j) \/ rank(j) < rank(i)
      BY <1>11, <3>2
    <3> QED BY <3>1, <3>3
  <2>3. f \in Injection(K, N)
    BY <2>1, <2>2 DEF Injection, IsInjective
  <2>4. IsFiniteSet(N) /\ Cardinality(N) = Cardinality(K)
    BY <1>4, FS_Interval
  <2>5. f \in Surjection(K, N)
    BY <2>3, <2>4, FS_Injection
  <2>6. \A n \in N : \E i \in K : f[i] = n
    BY <2>5 DEF Surjection
  <2> QED BY <2>6
<1> HIDE DEF K, rank
<1>13. /\ IsFiniteSet(K) /\ Cardinality(K) \in Nat /\ Cardinality(K) <= Len(order)
       /\ (\E i \in 1 .. Len(order) : order[i] \in gone) => Cardinality(K) < Len(order)
       /\ \A i \in K : rank(i) \in 1 .. Cardinality(K)
       /\ \A i, j \in K : i < j => rank(i) < rank(j)
       /\ \A n \in 1 .. Cardinality(K) : \E i \in K : rank(i) = n
  BY <1>3, <1>4, <1>5, <1>10, <1>11, <1>12
<1> QED BY <1>13 DEF K, rank

\* One list is another at some places, taken in their order.
TakenAt(q, order, places, place) ==
    /\ place \in [1 .. Len(q) -> places]
    /\ \A n \in 1 .. Len(q) : q[n] = order[place[n]]
    /\ \A m, n \in 1 .. Len(q) : m < n => place[m] < place[n]
    /\ \A i \in places : \E n \in 1 .. Len(q) : place[n] = i

\* Each element that is left comes from one place of the list, in their order.
LEMMA WithoutAllPlaces ==
  ASSUME NEW S, NEW order \in Seq(S), NEW gone,
         NEW q, q = WithoutAll(order, gone), NEW K, K = Staying(order, gone),
         NEW place, place = PlacesLeft(order, gone)
  PROVE  /\ q \in Seq(S \ gone) /\ Len(q) <= Len(order)
         /\ (\E i \in 1 .. Len(order) : order[i] \in gone) => Len(q) < Len(order)
         /\ TakenAt(q, order, K, place)
<1> DEFINE rank(i) == Rank(order, gone, i)
           N == Cardinality(K)
<1>1. /\ N \in Nat /\ N <= Len(order)
      /\ (\E i \in 1 .. Len(order) : order[i] \in gone) => N < Len(order)
      /\ \A i \in K : rank(i) \in 1 .. N
      /\ \A i, j \in K : i < j => rank(i) < rank(j)
      /\ \A n \in 1 .. N : \E i \in K : rank(i) = n
  BY RankFacts
<1>2. place = [n \in 1 .. N |-> CHOOSE i \in K : rank(i) = n]
  BY DEF PlacesLeft
<1>3. \A i \in K : i \in 1 .. Len(order) /\ order[i] \in S \ gone
  BY DEF Staying
<1> HIDE DEF rank, N
<1>4. \A n \in 1 .. N : place[n] \in K /\ rank(place[n]) = n
  BY <1>1, <1>2
<1>5. q = [n \in 1 .. N |-> order[place[n]]]
  BY <1>2 DEF WithoutAll
<1>6. \A n \in 1 .. N : order[place[n]] \in S \ gone
  BY <1>3, <1>4
<1>7. q \in [1 .. N -> S \ gone]
  BY <1>5, <1>6
<1>8. q \in Seq(S \ gone) /\ Len(q) = N
  BY <1>1, <1>7
<1>9. place \in [1 .. N -> K]
  BY <1>2, <1>4
<1>10. \A m, n \in 1 .. N : m < n => place[m] < place[n]
  <2> SUFFICES ASSUME NEW m \in 1 .. N, NEW n \in 1 .. N, m < n, ~(place[m] < place[n])
               PROVE  FALSE
    OBVIOUS
  <2>1. /\ place[m] \in K /\ place[n] \in K /\ rank(place[m]) = m /\ rank(place[n]) = n
    BY <1>4
  <2>2. place[m] \in Int /\ place[n] \in Int
    BY <1>3, <2>1
  <2>3. place[m] = place[n] \/ place[n] < place[m]
    BY <2>2
  <2>4. m = n \/ n < m
    BY <1>1, <2>1, <2>3
  <2> QED BY <1>1, <2>4
<1>11. \A i \in K : \E n \in 1 .. N : place[n] = i
  <2> SUFFICES ASSUME NEW i \in K PROVE place[rank(i)] = i
    BY <1>1
  <2>1. rank(i) \in 1 .. N /\ place[rank(i)] \in K /\ rank(place[rank(i)]) = rank(i)
    BY <1>1, <1>4
  <2>2. i \in Int /\ place[rank(i)] \in Int
    BY <1>3, <2>1
  <2>3. ~(i < place[rank(i)]) /\ ~(place[rank(i)] < i)
    BY <1>1, <2>1
  <2> QED BY <2>2, <2>3
<1>12. \A n \in 1 .. N : q[n] = order[place[n]]
  BY <1>5
<1>13. /\ q \in Seq(S \ gone) /\ Len(q) <= Len(order)
       /\ (\E i \in 1 .. Len(order) : order[i] \in gone) => Len(q) < Len(order)
       /\ place \in [1 .. Len(q) -> K]
       /\ \A n \in 1 .. Len(q) : q[n] = order[place[n]]
       /\ \A m, n \in 1 .. Len(q) : m < n => place[m] < place[n]
       /\ \A i \in K : \E n \in 1 .. Len(q) : place[n] = i
  BY <1>1, <1>8, <1>9, <1>10, <1>11, <1>12
<1> QED BY <1>13 DEF TakenAt

\* What is left has the elements that are not taken out; if none was there twice,
\* none is.
LEMMA WithoutAllFacts ==
  ASSUME NEW S, NEW order \in Seq(S), NEW gone, NEW q, q = WithoutAll(order, gone)
  PROVE  /\ q \in Seq(S) /\ Len(q) \in Nat /\ Len(q) <= Len(order)
         /\ (\E x \in gone : Lists(order, x)) => Len(q) < Len(order)
         /\ \A x : Lists(q, x) <=> x \notin gone /\ Lists(order, x)
         /\ Once(order) => Once(q)
<1>1. PICK K, place : K = Staying(order, gone) /\ place = PlacesLeft(order, gone)
  OBVIOUS
<1>2. K = {i \in 1 .. Len(order) : order[i] \notin gone} /\ Len(order) \in Nat
  BY <1>1 DEF Staying
<1>3. /\ q \in Seq(S \ gone) /\ Len(q) <= Len(order)
      /\ (\E i \in 1 .. Len(order) : order[i] \in gone) => Len(q) < Len(order)
      /\ TakenAt(q, order, K, place)
  BY <1>1, WithoutAllPlaces
<1>8. /\ place \in [1 .. Len(q) -> K]
      /\ \A n \in 1 .. Len(q) : q[n] = order[place[n]]
      /\ \A m, n \in 1 .. Len(q) : m < n => place[m] < place[n]
      /\ \A i \in K : \E n \in 1 .. Len(q) : place[n] = i
  BY <1>3 DEF TakenAt
<1>4. q \in Seq(S) /\ Len(q) \in Nat
  <2>1. S \ gone \subseteq S
    OBVIOUS
  <2> QED BY <1>3, <2>1, SeqMonotonic, LenProperties
<1>5. \A x : Lists(q, x) <=> x \notin gone /\ Lists(order, x)
  <2> TAKE x
  <2>1. ASSUME NEW n \in 1 .. Len(q), q[n] = x
        PROVE  x \notin gone /\ Lists(order, x)
    BY <1>2, <1>8, <2>1 DEF Lists
  <2>2. ASSUME x \notin gone, NEW i \in 1 .. Len(order), order[i] = x
        PROVE  Lists(q, x)
    <3>1. i \in K
      BY <1>2, <2>2
    <3> QED BY <1>8, <2>2, <3>1 DEF Lists
  <2> QED BY <2>1, <2>2 DEF Lists
<1>6. ASSUME Once(order) PROVE Once(q)
  <2> SUFFICES ASSUME NEW m \in 1 .. Len(q), NEW n \in 1 .. Len(q), q[m] = q[n], m # n
               PROVE  FALSE
    BY DEF Once
  <2>1. /\ place[m] \in 1 .. Len(order) /\ place[n] \in 1 .. Len(order)
        /\ order[place[m]] = order[place[n]]
    BY <1>2, <1>8
  <2>2. place[m] = place[n]
    BY <1>6, <2>1 DEF Once
  <2>3. m < n \/ n < m
    BY <1>4
  <2>4. place[m] < place[n] \/ place[n] < place[m]
    BY <1>8, <2>3
  <2> QED BY <1>2, <2>1, <2>2, <2>4
<1>7. (\E x \in gone : Lists(order, x)) => Len(q) < Len(order)
  BY <1>3 DEF Lists
<1> QED BY <1>3, <1>4, <1>5, <1>6, <1>7

\* An element is added at the end.
LEMMA ListAppendFacts ==
  ASSUME NEW S, NEW q \in Seq(S), NEW x \in S, NEW full, full = Append(q, x)
  PROVE  /\ full \in Seq(S) /\ Len(full) = Len(q) + 1 /\ Len(q) \in Nat
         /\ \A y : Lists(full, y) <=> y = x \/ Lists(q, y)
         /\ Once(q) /\ ~Lists(q, x) => Once(full)
<1>1. Len(q) \in Nat
  BY LenProperties
<1>2. /\ full \in Seq(S) /\ Len(full) = Len(q) + 1 /\ full[Len(q) + 1] = x
      /\ \A i \in 1 .. Len(q) : full[i] = q[i]
  BY AppendProperties
<1>3. \A i \in 1 .. Len(full) : i \in 1 .. Len(q) \/ i = Len(q) + 1
  BY <1>1, <1>2
<1>4. ASSUME NEW y PROVE Lists(full, y) <=> y = x \/ Lists(q, y)
  BY <1>1, <1>2, <1>3 DEF Lists
<1>5. ASSUME Once(q), ~Lists(q, x),
             NEW i \in 1 .. Len(full), NEW j \in 1 .. Len(full), full[i] = full[j]
      PROVE  i = j
  <2>1. \A n \in 1 .. Len(q) : full[n] = q[n] /\ q[n] # x
    BY <1>2, <1>5 DEF Lists
  <2> QED BY <1>2, <1>3, <1>5, <2>1 DEF Once
<1> QED BY <1>1, <1>2, <1>4, <1>5 DEF Once

\* An element moves to the end, or comes there in place of others.
LEMMA PutLastFacts ==
  ASSUME NEW S, NEW order \in Seq(S), NEW gone, NEW x \in S, x \in gone,
         NEW full, full = PutLast(order, gone, x)
  PROVE  /\ full \in Seq(S)
         /\ \A y : Lists(full, y) <=> y = x \/ (y \notin gone /\ Lists(order, y))
         /\ Once(order) => Once(full)
<1>1. PICK rest : rest = WithoutAll(order, gone)
  OBVIOUS
<1>2. /\ rest \in Seq(S)
      /\ \A y : Lists(rest, y) <=> y \notin gone /\ Lists(order, y)
      /\ Once(order) => Once(rest)
  BY <1>1, WithoutAllFacts
<1>3. full = Append(rest, x)
  BY <1>1 DEF PutLast
<1>4. /\ full \in Seq(S) /\ Len(full) = Len(rest) + 1 /\ Len(rest) \in Nat
      /\ \A y : Lists(full, y) <=> y = x \/ Lists(rest, y)
      /\ Once(rest) /\ ~Lists(rest, x) => Once(full)
  BY <1>2, <1>3, ListAppendFacts
<1> QED BY <1>2, <1>4

\* A list with each element of a set once is as long as the set is large.
LEMMA OnceLength ==
  ASSUME NEW S, NEW s \in Seq(S), Once(s), NEW D, \A x : Lists(s, x) <=> x \in D
  PROVE  IsFiniteSet(D) /\ Len(s) = Cardinality(D)
<1>1. PICK L \in Nat : L = Len(s)
  BY LenProperties
<1>2. IsFiniteSet(1 .. L) /\ Cardinality(1 .. L) = L
  <2>1. L \in Int /\ 1 \in Int /\ (1 > L => L = 0) /\ L - 1 + 1 = L
    BY <1>1
  <2>2. IsFiniteSet(1 .. L) /\ Cardinality(1 .. L) = IF 1 > L THEN 0 ELSE L - 1 + 1
    BY <2>1, FS_Interval, Zenon
  <2> QED BY <2>1, <2>2
<1>3. s \in [1 .. L -> D] /\ \A x \in D : \E i \in 1 .. L : s[i] = x
  BY <1>1 DEF Lists
<1>4. s \in Surjection(1 .. L, D)
  BY <1>3 DEF Surjection
<1>5. s \in Injection(1 .. L, D)
  BY <1>1, <1>3 DEF Injection, IsInjective, Once
<1> QED BY <1>1, <1>2, <1>4, <1>5, FS_Surjection

\* Of the numbers up to one with a property, the least that has it.
LEMMA LeastOf ==
  ASSUME NEW L \in Nat, NEW T \in SUBSET (0 .. L), L \in T
  PROVE  \E n \in T : \A m \in 0 .. n - 1 : m \notin T
<1>1. T \subseteq Nat /\ T # {}
  OBVIOUS
<1>2. PICK n \in T : \A m \in T : <<m, n>> \notin OpToRel(<, Nat)
  BY <1>1, NatLessThanWellFounded, WFMin
<1>3. \A m \in T : ~(m < n)
  BY <1>1, <1>2 DEF OpToRel
<1> QED BY <1>1, <1>3

\* A part of a list.
LEMMA PartOfList ==
  ASSUME NEW S, NEW s \in Seq(S), NEW m \in 1 .. Len(s) + 1, NEW n \in m - 1 .. Len(s)
  PROVE  /\ SubSeq(s, m, n) \in Seq(S) /\ Len(SubSeq(s, m, n)) = n - m + 1
         /\ \A i \in 1 .. n - m + 1 : SubSeq(s, m, n)[i] = s[m + i - 1]
<1>1. Len(s) \in Nat /\ m \in Int /\ n \in Int
  BY LenProperties
<1>2. \A i \in m .. n : s[i] \in S
  BY <1>1, ElementOfSeq
<1>3. /\ SubSeq(s, m, n) \in Seq(S)
      /\ Len(SubSeq(s, m, n)) = IF m <= n THEN n - m + 1 ELSE 0
      /\ \A i \in 1 .. n - m + 1 : SubSeq(s, m, n)[i] = s[m + i - 1]
  BY <1>1, <1>2, SubSeqProperties
<1> QED BY <1>1, <1>3

\* A part of a part of a list is a part of the list.
LEMMA PartOfPart ==
  ASSUME NEW S, NEW s \in Seq(S), NEW i \in 1 .. Len(s) + 1, NEW j \in i - 1 .. Len(s),
         NEW m \in 1 .. j - i + 2, NEW n \in m - 1 .. j - i + 1
  PROVE  SubSeq(SubSeq(s, i, j), m, n) = SubSeq(s, i + m - 1, i + n - 1)
<1>1. Len(s) \in Nat /\ i \in Int /\ j \in Int /\ m \in Int /\ n \in Int
  BY LenProperties
<1>2. PICK t : t = SubSeq(s, i, j)
  OBVIOUS
<1>3. /\ t \in Seq(S) /\ Len(t) = j - i + 1
      /\ \A k \in 1 .. j - i + 1 : t[k] = s[i + k - 1]
  BY <1>2, PartOfList
<1>4. m \in 1 .. Len(t) + 1 /\ n \in m - 1 .. Len(t)
  BY <1>1, <1>3
<1>5. /\ SubSeq(t, m, n) \in Seq(S) /\ Len(SubSeq(t, m, n)) = n - m + 1
      /\ \A k \in 1 .. n - m + 1 : SubSeq(t, m, n)[k] = t[m + k - 1]
  BY <1>3, <1>4, PartOfList
<1>6. i + m - 1 \in 1 .. Len(s) + 1 /\ i + n - 1 \in (i + m - 1) - 1 .. Len(s)
      /\ (i + n - 1) - (i + m - 1) + 1 = n - m + 1
  BY <1>1
<1>7. /\ SubSeq(s, i + m - 1, i + n - 1) \in Seq(S)
      /\ Len(SubSeq(s, i + m - 1, i + n - 1)) = n - m + 1
      /\ \A k \in 1 .. n - m + 1 :
            SubSeq(s, i + m - 1, i + n - 1)[k] = s[(i + m - 1) + k - 1]
  <2>1. PICK p, q : p = i + m - 1 /\ q = i + n - 1
    OBVIOUS
  <2>2. p \in 1 .. Len(s) + 1 /\ q \in p - 1 .. Len(s) /\ q - p + 1 = n - m + 1
    BY <1>6, <2>1
  <2>3. /\ SubSeq(s, p, q) \in Seq(S) /\ Len(SubSeq(s, p, q)) = q - p + 1
        /\ \A k \in 1 .. q - p + 1 : SubSeq(s, p, q)[k] = s[p + k - 1]
    BY <2>2, PartOfList
  <2> QED BY <2>1, <2>2, <2>3
<1>8. ASSUME NEW k \in 1 .. n - m + 1
      PROVE  SubSeq(t, m, n)[k] = SubSeq(s, i + m - 1, i + n - 1)[k]
  <2>1. m + k - 1 \in 1 .. j - i + 1 /\ i + (m + k - 1) - 1 = (i + m - 1) + k - 1
    BY <1>1
  <2>2. SubSeq(t, m, n)[k] = t[m + k - 1] /\ t[m + k - 1] = s[i + (m + k - 1) - 1]
    BY <1>3, <1>5, <2>1
  <2>3. SubSeq(s, i + m - 1, i + n - 1)[k] = s[(i + m - 1) + k - 1]
    BY <1>7
  <2> QED BY <2>1, <2>2, <2>3
<1>9. SubSeq(t, m, n) = SubSeq(s, i + m - 1, i + n - 1)
  <2>1. PICK x, y : x = SubSeq(t, m, n) /\ y = SubSeq(s, i + m - 1, i + n - 1)
    OBVIOUS
  <2>2. x \in Seq(S) /\ y \in Seq(S) /\ Len(x) = Len(y) /\ \A k \in 1 .. Len(x) : x[k] = y[k]
    BY <1>5, <1>7, <1>8, <2>1
  <2> QED BY <2>1, <2>2, SeqEqual
<1> QED BY <1>2, <1>9

\* Without the first elements of a list, what comes after them is left.
LEMMA WithoutFirst ==
  ASSUME NEW S, NEW order \in Seq(S), NEW gone, NEW n \in 0 .. Len(order),
         \A i \in 1 .. n : order[i] \in gone,
         \A i \in n + 1 .. Len(order) : order[i] \notin gone
  PROVE  WithoutAll(order, gone) = SubSeq(order, n + 1, Len(order))
<1>1. PICK L \in Nat : L = Len(order)
  BY LenProperties
<1>2. n \in Int /\ 0 <= n /\ n <= L
  BY <1>1
<1>3. PICK K : K = Staying(order, gone)
  OBVIOUS
<1>4. K = n + 1 .. L
  BY <1>1, <1>2, <1>3 DEF Staying
<1>5. ASSUME NEW a \in Int, NEW b \in Int, a <= b + 1
      PROVE  Cardinality(a .. b) = b - a + 1
  <2>1. Cardinality(a .. b) = IF a > b THEN 0 ELSE b - a + 1
    BY FS_Interval, Zenon
  <2> QED BY <1>5, <2>1
<1>6. Cardinality(K) = L - n
  <2>1. n + 1 \in Int /\ L \in Int /\ n + 1 <= L + 1 /\ L - (n + 1) + 1 = L - n
    BY <1>2
  <2> QED BY <1>4, <1>5, <2>1
<1>7. ASSUME NEW i \in K PROVE Rank(order, gone, i) = i - n
  <2>1. {j \in K : j <= i} = n + 1 .. i
    BY <1>2, <1>4
  <2>2. n + 1 \in Int /\ i \in Int /\ n + 1 <= i + 1 /\ i - (n + 1) + 1 = i - n
    BY <1>2, <1>4
  <2>3. Cardinality(n + 1 .. i) = i - n
    BY <1>5, <2>2
  <2> QED BY <1>3, <2>1, <2>3 DEF Rank
<1>8. PICK place : place = PlacesLeft(order, gone)
  OBVIOUS
<1>9. place = [m \in 1 .. L - n |-> CHOOSE i \in K : Rank(order, gone, i) = m]
  BY <1>3, <1>6, <1>8 DEF PlacesLeft
<1>10. ASSUME NEW m \in 1 .. L - n PROVE place[m] = n + m
  <2>1. n + m \in K /\ n + m - n = m
    BY <1>2, <1>4
  <2>2. Rank(order, gone, n + m) = m
    BY <1>7, <2>1
  <2>3. place[m] \in K /\ Rank(order, gone, place[m]) = m
    BY <1>9, <2>1, <2>2
  <2>4. place[m] - n = m /\ place[m] \in Int
    BY <1>4, <1>7, <2>3
  <2> QED BY <1>2, <2>4
<1>11. PICK q : q = WithoutAll(order, gone)
  OBVIOUS
<1>12. q = [m \in 1 .. L - n |-> order[place[m]]]
  BY <1>8, <1>9, <1>11 DEF WithoutAll
<1>13. \A m \in 1 .. L - n : q[m] = order[n + m]
  BY <1>10, <1>12
<1>14. q \in Seq(S) /\ Len(q) = L - n
  <2>1. \A m \in 1 .. L - n : order[n + m] \in S
    BY <1>1, <1>2, ElementOfSeq
  <2>2. L - n \in Nat
    BY <1>2
  <2>3. q \in [1 .. L - n -> S]
    BY <1>12, <1>13, <2>1
  <2> QED BY <2>2, <2>3
<1>15. PICK t : t = SubSeq(order, n + 1, L)
  OBVIOUS
<1>16. /\ t \in Seq(S) /\ Len(t) = L - n
       /\ \A m \in 1 .. L - n : t[m] = order[n + m]
  <2>1. PICK p : p = n + 1
    OBVIOUS
  <2>2. p \in 1 .. Len(order) + 1 /\ L \in p - 1 .. Len(order) /\ L - p + 1 = L - n
    BY <1>1, <1>2, <2>1
  <2>3. /\ SubSeq(order, p, L) \in Seq(S) /\ Len(SubSeq(order, p, L)) = L - p + 1
        /\ \A i \in 1 .. L - p + 1 : SubSeq(order, p, L)[i] = order[p + i - 1]
    BY <2>2, PartOfList
  <2>4. \A m \in 1 .. L - n : p + m - 1 = n + m
    BY <1>2, <2>1
  <2> QED BY <1>15, <2>1, <2>2, <2>3, <2>4
<1>17. q = t
  <2>1. Len(q) = Len(t) /\ \A m \in 1 .. Len(q) : q[m] = t[m]
    BY <1>13, <1>14, <1>16
  <2> QED BY <1>14, <1>16, <2>1, SeqEqual
<1> QED BY <1>1, <1>11, <1>15, <1>17

-----------------------------------------------------------------------------
(* Bytes add up                                                            *)

Sizes(S, size) == \A x \in S : size[x] \in Nat

LEMMA BytesOfOne ==
  ASSUME NEW x, NEW size, size[x] \in Nat
  PROVE  IsFiniteSet(ByteSet({x}, size)) /\ TotalOf({x}, size) = size[x]
<1>1. ByteSet({x}, size) = {x} \X (1 .. size[x])
  BY DEF ByteSet
<1>2. PICK n \in Nat : n = size[x]
  OBVIOUS
<1>3. /\ IsFiniteSet({x}) /\ Cardinality({x}) = 1
      /\ IsFiniteSet(1 .. n) /\ Cardinality(1 .. n) = n
  <2>1. n \in Int /\ 1 \in Int /\ (1 > n => n = 0) /\ n - 1 + 1 = n
    OBVIOUS
  <2>2. /\ IsFiniteSet(1 .. n)
        /\ Cardinality(1 .. n) = IF 1 > n THEN 0 ELSE n - 1 + 1
    BY <2>1, FS_Interval, Zenon
  <2>3. IsFiniteSet({x}) /\ Cardinality({x}) = 1
    BY FS_Singleton
  <2> QED BY <2>1, <2>2, <2>3
<1>4. /\ IsFiniteSet({x} \X (1 .. n))
      /\ Cardinality({x} \X (1 .. n)) = 1 * n
  BY <1>3, FS_Product, ZenonT(30)
<1>5. 1 * n = n
  OBVIOUS
<1> QED BY <1>1, <1>2, <1>4, <1>5 DEF TotalOf

\* Were there finite sets with infinitely many bytes, a smallest one would have
\* finitely many when an element is taken out.
LEMMA BytesFinite ==
  ASSUME NEW S, IsFiniteSet(S), NEW size, Sizes(S, size)
  PROVE  IsFiniteSet(ByteSet(S, size))
<1> DEFINE Bad == {T \in SUBSET S : ~IsFiniteSet(ByteSet(T, size))}
<1> SUFFICES ASSUME Bad # {} PROVE FALSE
  OBVIOUS
<1>1. FiniteSubsetsOf(S) = SUBSET S
  BY FS_FiniteSubsetsOfFinite
<1>2. IsWellFoundedOn(StrictSubsetOrdering(S), SUBSET S)
  BY <1>1, FS_StrictSubsetOrderingWellFounded
<1>3. PICK T \in Bad : \A U \in Bad : <<U, T>> \notin StrictSubsetOrdering(S)
  BY <1>2, WFMin
<1>4. T \subseteq S /\ ~IsFiniteSet(ByteSet(T, size))
  BY <1>3
<1>5. PICK x \in T : TRUE
  <2>1. ByteSet({}, size) = {} /\ IsFiniteSet({})
    BY FS_EmptySet DEF ByteSet
  <2> QED BY <1>4, <2>1
<1>6. IsFiniteSet(ByteSet(T \ {x}, size))
  <2>1. <<T \ {x}, T>> \in StrictSubsetOrdering(S)
    BY <1>4, <1>5 DEF StrictSubsetOrdering
  <2> QED BY <1>3, <1>4, <2>1
<1>7. ByteSet(T, size) = ByteSet(T \ {x}, size) \cup ByteSet({x}, size)
  BY <1>5 DEF ByteSet
<1>8. IsFiniteSet(ByteSet({x}, size))
  BY <1>4, <1>5, BytesOfOne DEF Sizes
<1> QED BY <1>4, <1>6, <1>7, <1>8, FS_Union, ZenonT(30)

LEMMA TotalOfNone == ASSUME NEW size PROVE TotalOf({}, size) = 0
<1>1. ByteSet({}, size) = {}
  BY DEF ByteSet
<1> QED BY <1>1, FS_EmptySet DEF TotalOf

LEMMA TotalType ==
  ASSUME NEW S, IsFiniteSet(S), NEW size, Sizes(S, size)
  PROVE  TotalOf(S, size) \in Nat
  BY BytesFinite, FS_CardinalityType DEF TotalOf

LEMMA TotalAdds ==
  ASSUME NEW S, IsFiniteSet(S), NEW T, IsFiniteSet(T), S \cap T = {},
         NEW size, Sizes(S, size), Sizes(T, size)
  PROVE  /\ TotalOf(S \cup T, size) = TotalOf(S, size) + TotalOf(T, size)
         /\ TotalOf(S, size) \in Nat /\ TotalOf(T, size) \in Nat
<1>1. IsFiniteSet(ByteSet(S, size)) /\ IsFiniteSet(ByteSet(T, size))
  BY BytesFinite
<1>2. /\ ByteSet(S \cup T, size) = ByteSet(S, size) \cup ByteSet(T, size)
      /\ ByteSet(S, size) \cap ByteSet(T, size) = {}
  BY DEF ByteSet
<1>3. Cardinality(ByteSet(S, size) \cup ByteSet(T, size)) =
        Cardinality(ByteSet(S, size)) + Cardinality(ByteSet(T, size)) - Cardinality({})
  BY <1>1, <1>2, FS_Union
<1>4. TotalOf(S, size) \in Nat /\ TotalOf(T, size) \in Nat /\ Cardinality({}) = 0
  BY TotalType, FS_EmptySet
<1>5. TotalOf(S \cup T, size) = TotalOf(S, size) + TotalOf(T, size) - 0
  BY <1>2, <1>3, <1>4 DEF TotalOf
<1> QED BY <1>4, <1>5

LEMMA TotalLess ==
  ASSUME NEW S, IsFiniteSet(S), NEW T \in SUBSET S, NEW size, Sizes(S, size)
  PROVE  /\ TotalOf(S \ T, size) = TotalOf(S, size) - TotalOf(T, size)
         /\ TotalOf(T, size) <= TotalOf(S, size)
         /\ TotalOf(S, size) \in Nat /\ TotalOf(T, size) \in Nat
<1>1. /\ (S \ T) \cup T = S /\ (S \ T) \cap T = {}
      /\ Sizes(S \ T, size) /\ Sizes(T, size)
  BY DEF Sizes
<1>2. IsFiniteSet(S \ T) /\ IsFiniteSet(T)
  BY FS_Subset
<1>3. /\ TotalOf(S, size) = TotalOf(S \ T, size) + TotalOf(T, size)
      /\ TotalOf(S \ T, size) \in Nat /\ TotalOf(T, size) \in Nat
  BY <1>1, <1>2, TotalAdds
<1> QED BY <1>3

LEMMA TotalWith ==
  ASSUME NEW S, IsFiniteSet(S), NEW size, Sizes(S, size), NEW x, x \notin S, size[x] \in Nat
  PROVE  /\ TotalOf(S \cup {x}, size) = TotalOf(S, size) + size[x]
         /\ TotalOf(S, size) \in Nat
<1>1. PICK T : T = {x}
  OBVIOUS
<1>2. S \cap T = {} /\ Sizes(T, size) /\ IsFiniteSet(T) /\ S \cup T = S \cup {x}
  BY <1>1, FS_Singleton DEF Sizes
<1>3. TotalOf(T, size) = size[x]
  BY <1>1, BytesOfOne
<1>4. /\ TotalOf(S \cup T, size) = TotalOf(S, size) + TotalOf(T, size)
      /\ TotalOf(S, size) \in Nat
  BY <1>2, TotalAdds
<1> QED BY <1>2, <1>3, <1>4

LEMMA TotalWithout ==
  ASSUME NEW S, IsFiniteSet(S), NEW size, Sizes(S, size), NEW x \in S
  PROVE  /\ TotalOf(S \ {x}, size) = TotalOf(S, size) - size[x]
         /\ TotalOf(S, size) \in Nat /\ TotalOf(S \ {x}, size) \in Nat
<1>1. /\ {x} \in SUBSET S /\ size[x] \in Nat /\ S \ {x} \in SUBSET S
  BY DEF Sizes
<1>2. TotalOf({x}, size) = size[x]
  BY <1>1, BytesOfOne
<1> QED BY <1>1, <1>2, TotalLess

\* Only the sizes of the elements of the set count.
LEMMA TotalSame ==
  ASSUME NEW S, NEW size, NEW other, \A x \in S : size[x] = other[x]
  PROVE  TotalOf(S, size) = TotalOf(S, other)
<1>1. ByteSet(S, size) = ByteSet(S, other)
  BY DEF ByteSet
<1> QED BY <1>1 DEF TotalOf

\* Elements of a set of n that are none larger than b have no more than n * b bytes.
LEMMA TotalBound ==
  ASSUME NEW T, IsFiniteSet(T), NEW S \in SUBSET T, NEW size, Sizes(S, size),
         NEW b \in Nat, \A x \in S : size[x] <= b
  PROVE  TotalOf(S, size) \in Nat /\ TotalOf(S, size) <= b * Cardinality(T)
<1>1. /\ IsFiniteSet(1 .. b) /\ Cardinality(1 .. b) = b
  <2>1. b \in Int /\ 1 \in Int /\ (1 > b => b = 0) /\ b - 1 + 1 = b
    OBVIOUS
  <2>2. /\ IsFiniteSet(1 .. b)
        /\ Cardinality(1 .. b) = IF 1 > b THEN 0 ELSE b - 1 + 1
    BY <2>1, FS_Interval, Zenon
  <2> QED BY <2>1, <2>2
<1>2. PICK n \in Nat : n = Cardinality(T)
  BY FS_CardinalityType
<1>3. /\ IsFiniteSet(T \X (1 .. b))
      /\ Cardinality(T \X (1 .. b)) = n * b
  BY <1>1, <1>2, FS_Product, ZenonT(30)
<1>4. ByteSet(S, size) \in SUBSET (T \X (1 .. b))
  <2> SUFFICES ASSUME NEW x \in S, NEW i \in 1 .. size[x] PROVE x \in T /\ i \in 1 .. b
    BY DEF ByteSet
  <2> QED BY DEF Sizes
<1>5. Cardinality(ByteSet(S, size)) <= Cardinality(T \X (1 .. b))
  BY <1>3, <1>4, FS_Subset
<1>6. TotalOf(S, size) \in Nat
  <2>1. IsFiniteSet(S)
    BY FS_Subset
  <2> QED BY <2>1, TotalType
<1>7. n * b = b * n
  OBVIOUS
<1> QED BY <1>2, <1>3, <1>5, <1>6, <1>7 DEF TotalOf
=============================================================================
