--------------------------- MODULE SequenceLemmas ---------------------------
(***************************************************************************)
(* Induction over numbers; what the queues of the pipeline do to the set   *)
(* of their items, what sorting and the arithmetic of chunks and blocks    *)
(* give: lemmas the proofs about the threads and the tools keep needing.   *)
(***************************************************************************)
EXTENDS Integers, Sequences, FiniteSets, Sorting, SequenceTheorems,
        FiniteSetTheorems, WellFoundedInduction, TLAPS

\* Induction over the natural numbers, for the numbers with a property as a set.
LEMMA NatSetInduction ==
    ASSUME NEW T, 0 \in T, \A n \in Nat : n \in T => n + 1 \in T
    PROVE  Nat \subseteq T
  <1> DEFINE D == Nat \ T
  <1>1. SUFFICES ASSUME D # {}
                 PROVE  FALSE
    OBVIOUS
  <1>2. PICK x \in D : \A y \in D : ~(<<y, x>> \in OpToRel(<, Nat))
    <2>1. D \subseteq Nat
      OBVIOUS
    <2> HIDE DEF D
    <2>2. QED
      BY <1>1, <2>1, NatLessThanWellFounded, WFMin, Zenon
  <1>3. x \in Nat /\ x # 0 /\ x - 1 \in Nat /\ x - 1 < x /\ (x - 1) + 1 = x
    OBVIOUS
  <1>4. <<x - 1, x>> \in OpToRel(<, Nat)
    BY <1>3, Zenon DEF OpToRel
  <1>5. x - 1 \in T
    BY <1>2, <1>3, <1>4
  <1>6. QED
    BY <1>3, <1>5

\* Steps that lead from a value in a set to one in it; a function that is
\* given by them.
StepsWithin(step, S) == \A i \in Nat : \A x \in S : step[i][x] \in S
Stepwise(f, a, step, n) ==
    f[0] = a /\ \A i \in 1..n : f[i] = step[i][f[i - 1]]

\* A function that is given step by step exists.
LEMMA StepsExist ==
    ASSUME NEW S, NEW a \in S, NEW step, StepsWithin(step, S)
    PROVE  \A n \in Nat : \E f \in [0..n -> S] : Stepwise(f, a, step, n)
  <1> DEFINE Steps(f, n) == Stepwise(f, a, step, n)
             T == {n \in Nat : \E f \in [0..n -> S] : Steps(f, n)}
  <1>1. 0 \in T
    <2> DEFINE f == [i \in 0..0 |-> a]
    <2>1. f \in [0..0 -> S] /\ Steps(f, 0)
      BY DEF Stepwise
    <2>2. QED
      BY <2>1
  <1>2. ASSUME NEW n \in Nat, n \in T
        PROVE  n + 1 \in T
    <2>1. PICK f \in [0..n -> S] : Steps(f, n)
      BY <1>2
    <2> DEFINE g == [i \in 0..(n + 1) |->
                        IF i = n + 1 THEN step[n + 1][f[n]] ELSE f[i]]
    <2>2. /\ n \in 0..n /\ n + 1 \in Nat /\ 0 \in 0..n /\ 0 \in 0..(n + 1) /\ 0 # n + 1
          /\ \A i \in 1..n : i \in 0..(n + 1) /\ i # n + 1 /\ i - 1 \in 0..(n + 1) /\ i - 1 # n + 1
                             /\ i \in 0..n /\ i - 1 \in 0..n
          /\ n + 1 \in 0..(n + 1) /\ n # n + 1 /\ n \in 0..(n + 1) /\ (n + 1) - 1 = n
          /\ \A i \in 1..(n + 1) : i \in 1..n \/ i = n + 1
          /\ \A i \in 0..(n + 1) : i \in 0..n \/ i = n + 1
      OBVIOUS
    <2>3. g \in [0..(n + 1) -> S]
      BY <2>1, <2>2 DEF StepsWithin
    <2>4. ASSUME NEW i \in 1..(n + 1)
          PROVE  g[i] = step[i][g[i - 1]]
      <3>1. CASE i \in 1..n
        BY <2>1, <2>2, <3>1 DEF Stepwise
      <3>2. CASE i = n + 1
        BY <2>2, <3>2
      <3>3. QED
        BY <2>2, <3>1, <3>2
    <2>5. Steps(g, n + 1)
      BY <2>1, <2>2, <2>4 DEF Stepwise
    <2>6. QED
      BY <2>2, <2>3, <2>5
  <1> HIDE DEF T
  <1>3. Nat \subseteq T
    BY <1>1, <1>2, NatSetInduction
  <1>4. QED
    BY <1>3 DEF T
-----------------------------------------------------------------------------
Elems(s) == {s[i] : i \in 1..Len(s)}
Distinct(s) == \A i, j \in 1..Len(s) : s[i] = s[j] => i = j

\* The empty sequence has no items.
LEMMA EmptyElems == Elems(<<>>) = {} /\ Distinct(<<>>)
  BY DEF Elems, Distinct

\* A queue holds items of its type.
LEMMA ElemsType ==
    ASSUME NEW S, NEW s \in Seq(S)
    PROVE  /\ Elems(s) \subseteq S
           /\ Elems(s) = {} <=> s = <<>>
  <1>1. Len(s) \in Nat /\ s \in [1..Len(s) -> S]
    BY LenProperties
  <1>2. s # <<>> => 1 \in 1..Len(s)
    BY EmptySeq
  <1>3. QED
    BY <1>1, <1>2, EmptyElems DEF Elems

\* put() adds the item, and keeps the items distinct if it is new.
LEMMA AppendElems ==
    ASSUME NEW S, NEW s \in Seq(S), NEW e \in S
    PROVE  /\ Append(s, e) \in Seq(S)
           /\ Elems(Append(s, e)) = Elems(s) \cup {e}
           /\ Distinct(s) /\ e \notin Elems(s) => Distinct(Append(s, e))
  <1> DEFINE t == Append(s, e)
             n == Len(s)
  <1>1. /\ t \in Seq(S) /\ n \in Nat /\ Len(t) = n + 1 /\ t[n + 1] = e
        /\ \A i \in 1..n : t[i] = s[i]
    BY AppendProperties, LenProperties
  <1>2. 1..(n + 1) = (1..n) \cup {n + 1}
    BY <1>1
  <1> HIDE DEF t
  <1>3. Elems(t) = Elems(s) \cup {e}
    BY <1>1, <1>2 DEF Elems
  <1>4. ASSUME Distinct(s), e \notin Elems(s)
        PROVE  Distinct(t)
    <2>1. \A i \in 1..n : s[i] # e
      BY <1>4 DEF Elems
    <2>2. SUFFICES ASSUME NEW i \in 1..(n + 1), NEW j \in 1..(n + 1),
                          t[i] = t[j]
                   PROVE  i = j
      BY <1>1 DEF Distinct
    <2>3. CASE i \in 1..n /\ j \in 1..n
      BY <1>1, <1>4, <2>2, <2>3 DEF Distinct
    <2>4. CASE i = n + 1 \/ j = n + 1
      BY <1>1, <1>2, <2>1, <2>2, <2>4
    <2>5. QED
      BY <1>2, <2>3, <2>4
  <1>5. QED
    BY <1>1, <1>3, <1>4 DEF t

\* get() takes one item out, and of distinct items that one only.
LEMMA HeadTailElems ==
    ASSUME NEW S, NEW s \in Seq(S), s # <<>>
    PROVE  /\ Head(s) \in S /\ Tail(s) \in Seq(S)
           /\ Head(s) = s[1] /\ Len(s) \in Nat \ {0}
           /\ Len(Tail(s)) = Len(s) - 1
           /\ \A i \in 1..(Len(s) - 1) : Tail(s)[i] = s[i + 1]
           /\ Elems(s) = {Head(s)} \cup Elems(Tail(s))
           /\ Distinct(s) => Distinct(Tail(s)) /\ Head(s) \notin Elems(Tail(s))
  <1> DEFINE t == Tail(s)
             n == Len(s)
  <1>1. /\ Head(s) \in S /\ t \in Seq(S) /\ Len(t) = n - 1
        /\ \A i \in 1..(n - 1) : t[i] = s[i + 1]
        /\ n \in Nat \ {0}
    BY HeadTailProperties, EmptySeq, LenProperties
  <1>2. Head(s) = s[1]
    OBVIOUS
  <1>3. /\ 1 \in 1..n
        /\ \A i \in 1..(n - 1) : i + 1 \in 1..n
        /\ \A j \in 1..n : j = 1 \/ (j - 1 \in 1..(n - 1) /\ t[j - 1] = s[j])
    BY <1>1
  <1> HIDE DEF t
  <1>4. Elems(s) = {Head(s)} \cup Elems(t)
    <2>1. ASSUME NEW x \in Elems(s)
          PROVE  x \in {Head(s)} \cup Elems(t)
      BY <1>1, <1>2, <1>3 DEF Elems
    <2>2. ASSUME NEW x \in {Head(s)} \cup Elems(t)
          PROVE  x \in Elems(s)
      BY <1>1, <1>2, <1>3 DEF Elems
    <2>3. QED
      BY <2>1, <2>2
  <1>5. ASSUME Distinct(s)
        PROVE  Distinct(t) /\ Head(s) \notin Elems(t)
    BY <1>1, <1>2, <1>3, <1>5 DEF Elems, Distinct
  <1>6. QED
    BY <1>1, <1>2, <1>4, <1>5 DEF t

\* Putting the items of one queue behind those of another.
LEMMA ConcatElems ==
    ASSUME NEW S, NEW s \in Seq(S), NEW t \in Seq(S)
    PROVE  /\ s \o t \in Seq(S)
           /\ Elems(s \o t) = Elems(s) \cup Elems(t)
           /\ Distinct(s) /\ Distinct(t) /\ Elems(s) \cap Elems(t) = {} =>
                 Distinct(s \o t)
  <1> DEFINE u == s \o t
             m == Len(s)
             n == Len(t)
  <1>1. /\ u \in Seq(S) /\ m \in Nat /\ n \in Nat /\ Len(u) = m + n
        /\ \A i \in 1..(m + n) : u[i] = IF i <= m THEN s[i] ELSE t[i - m]
    BY ConcatProperties, LenProperties
  <1>2. /\ \A i \in 1..m : i \in 1..(m + n) /\ i <= m
        /\ \A i \in 1..n : m + i \in 1..(m + n) /\ ~(m + i <= m) /\ (m + i) - m = i
        /\ \A i \in 1..(m + n) : i \in 1..m \/ (~(i <= m) /\ i - m \in 1..n)
    BY <1>1
  <1> HIDE DEF u, m, n
  <1>3. Elems(u) = Elems(s) \cup Elems(t)
    <2>1. ASSUME NEW x \in Elems(u)
          PROVE  x \in Elems(s) \cup Elems(t)
      <3>1. PICK i \in 1..(m + n) : x = u[i]
        BY <1>1 DEF Elems
      <3>2. \/ x = s[i] /\ i \in 1..m
            \/ x = t[i - m] /\ i - m \in 1..n
        BY <1>1, <1>2, <3>1
      <3>3. QED
        BY <3>2 DEF Elems, m, n
    <2>2. ASSUME NEW i \in 1..m
          PROVE  s[i] \in Elems(u)
      BY <1>1, <1>2 DEF Elems
    <2>3. ASSUME NEW i \in 1..n
          PROVE  t[i] \in Elems(u)
      <3>1. u[m + i] = t[i]
        BY <1>1, <1>2
      <3>2. QED
        BY <1>1, <1>2, <3>1 DEF Elems
    <2>4. QED
      BY <2>1, <2>2, <2>3 DEF Elems, m, n
  <1>4. ASSUME Distinct(s), Distinct(t), Elems(s) \cap Elems(t) = {},
               NEW i \in 1..(m + n), NEW j \in 1..(m + n), u[i] = u[j]
        PROVE  i = j
    <2>1. CASE i \in 1..m /\ j \in 1..m
      BY <1>1, <1>2, <1>4, <2>1 DEF Distinct, m
    <2>2. CASE i \in 1..m /\ j \notin 1..m
      <3>1. u[i] = s[i] /\ u[j] = t[j - m] /\ j - m \in 1..n
        BY <1>1, <1>2, <2>2
      <3>2. u[i] \in Elems(s) /\ u[j] \in Elems(t)
        BY <2>2, <3>1 DEF Elems, m, n
      <3>3. QED
        BY <1>4, <3>2
    <2>3. CASE i \notin 1..m /\ j \in 1..m
      <3>1. u[j] = s[j] /\ u[i] = t[i - m] /\ i - m \in 1..n
        BY <1>1, <1>2, <2>3
      <3>2. u[j] \in Elems(s) /\ u[i] \in Elems(t)
        BY <2>3, <3>1 DEF Elems, m, n
      <3>3. QED
        BY <1>4, <3>2
    <2>4. CASE i \notin 1..m /\ j \notin 1..m
      <3>1. t[i - m] = t[j - m] /\ i - m \in 1..n /\ j - m \in 1..n
        BY <1>1, <1>2, <1>4, <2>4
      <3>2. i - m = j - m
        BY <1>4, <3>1 DEF Distinct, n
      <3>3. QED
        BY <1>1, <3>2
    <2>5. QED
      BY <2>1, <2>2, <2>3, <2>4
  <1>5. Distinct(s) /\ Distinct(t) /\ Elems(s) \cap Elems(t) = {} => Distinct(u)
    BY <1>1, <1>4 DEF Distinct
  <1>6. QED
    BY <1>1, <1>3, <1>5 DEF u

\* A queue with every item of a set and no item twice has the set's size.
LEMMA DistinctLength ==
    ASSUME NEW S, NEW s \in Seq(S), Distinct(s), Elems(s) = S
    PROVE  IsFiniteSet(S) /\ Cardinality(S) = Len(s)
  <1>1. s \in Bijection(1..Len(s), S)
    <2>1. s \in [1..Len(s) -> S]
      BY LenProperties
    <2>2. \A i, j \in 1..Len(s) : s[i] = s[j] => i = j
      BY DEF Distinct
    <2>3. \A t \in S : \E i \in 1..Len(s) : s[i] = t
      BY DEF Elems
    <2>4. QED
      BY <2>1, <2>2, <2>3 DEF Bijection, Injection, IsInjective, Surjection
  <1>2. Len(s) \in Nat
    BY LenProperties
  <1>3. ExistsBijection(1..Len(s), S)
    BY <1>1 DEF ExistsBijection
  <1>4. IsFiniteSet(1..Len(s)) /\ Cardinality(1..Len(s)) = Len(s)
    BY <1>2, FS_Interval
  <1>5. QED
    BY <1>3, <1>4, FS_Bijection

\* Sorting a set of numbers gives each of them once.
LEMMA SortedIsBijection ==
    ASSUME NEW D \in SUBSET Int, IsFiniteSet(D)
    PROVE  /\ Cardinality(D) \in Nat
           /\ Sorted(D) \in [1..Cardinality(D) -> D]
           /\ \A i, j \in 1..Cardinality(D) :
                 Sorted(D)[i] = Sorted(D)[j] => i = j
           /\ \A d \in D : \E i \in 1..Cardinality(D) : Sorted(D)[i] = d
  <1> DEFINE c == Cardinality(D)
             below(d) == {q \in D : q < d}
             rank == [d \in D |-> Rank(d, D)]
  <1>1. IsFiniteSet(D) /\ c \in Nat
    BY FS_CardinalityType
  <1>2. ASSUME NEW d \in D
        PROVE  Rank(d, D) \in 0..(c - 1)
    <2>1. IsFiniteSet(below(d)) /\ Cardinality(below(d)) <= c /\ Cardinality(below(d)) # c
      <3>1. below(d) \in SUBSET D /\ below(d) # D
        OBVIOUS
      <3>2. QED
        BY <1>1, <3>1, FS_Subset
    <2>2. Cardinality(below(d)) \in Nat
      BY <2>1, FS_CardinalityType
    <2>3. Rank(d, D) = Cardinality(below(d))
      BY DEF Rank
    <2> HIDE DEF below, c
    <2>4. QED
      BY <1>1, <2>1, <2>2, <2>3
  <1>3. ASSUME NEW d \in D, NEW e \in D, d < e
        PROVE  Rank(d, D) # Rank(e, D)
    <2>1. below(d) \in SUBSET below(e) /\ d \in below(e) /\ d \notin below(d)
      <3>1. \A q \in D : q \in Int
        OBVIOUS
      <3>2. \A q \in D : q < d => q < e
        BY <1>3, <3>1
      <3>3. ~(d < d)
        BY <3>1
      <3>4. QED
        BY <1>3, <3>2, <3>3
    <2>2. below(e) \in SUBSET D
      OBVIOUS
    <2>3. Cardinality(below(d)) # Cardinality(below(e))
      BY <1>1, <2>1, <2>2, FS_Subset
    <2>4. QED
      BY <2>3 DEF Rank
  <1>4. \A d, e \in D : Rank(d, D) = Rank(e, D) => d = e
    <2>1. \A d, e \in D : d = e \/ d < e \/ e < d
      OBVIOUS
    <2>2. QED
      BY <1>3, <2>1
  <1>5. rank \in Injection(D, 0..(c - 1))
    BY <1>2, <1>4 DEF Injection, IsInjective
  <1>6. IsFiniteSet(0..(c - 1)) /\ Cardinality(0..(c - 1)) = c
    <2> HIDE DEF c
    <2>1. 0 \in Int /\ c - 1 \in Int
      BY <1>1
    <2>2. c = 0 \/ (0 <= c - 1 /\ (c - 1) - 0 + 1 = c)
      BY <1>1
    <2>3. QED
      BY <1>1, <2>1, <2>2, FS_Interval
  <1>7. rank \in Surjection(D, 0..(c - 1))
    BY <1>5, <1>6, FS_Injection
  <1>8. ASSUME NEW i \in 1..c
        PROVE  Sorted(D)[i] \in D /\ Rank(Sorted(D)[i], D) = i - 1
    <2>1. i - 1 \in 0..(c - 1)
      BY <1>1
    <2>2. \E d \in D : Rank(d, D) = i - 1
      BY <1>7, <2>1 DEF Surjection
    <2>3. Sorted(D)[i] = CHOOSE r \in D : Rank(r, D) = i - 1
      BY DEF Sorted
    <2>4. QED
      BY <2>2, <2>3
  <1>9. Sorted(D) \in [1..c -> D]
    BY <1>8 DEF Sorted
  <1>10. ASSUME NEW i \in 1..c, NEW j \in 1..c, Sorted(D)[i] = Sorted(D)[j]
         PROVE  i = j
    <2>1. i - 1 = j - 1
      BY <1>8, <1>10
    <2>2. QED
      BY <1>1, <2>1
  <1>11. ASSUME NEW d \in D
         PROVE  \E i \in 1..c : Sorted(D)[i] = d
    <2>1. Rank(d, D) + 1 \in 1..c /\ (Rank(d, D) + 1) - 1 = Rank(d, D)
      BY <1>1, <1>2
    <2>2. Sorted(D)[Rank(d, D) + 1] = d
      <3>1. /\ Sorted(D)[Rank(d, D) + 1] \in D
            /\ Rank(Sorted(D)[Rank(d, D) + 1], D) = Rank(d, D)
        BY <1>8, <2>1
      <3>2. QED
        BY <1>4, <3>1
    <2>3. QED
      BY <2>1, <2>2
  <1>12. QED
    BY <1>1, <1>9, <1>10, <1>11

-----------------------------------------------------------------------------
\* Integer division, as far as the size of a chunk needs it.
LEMMA DivisionBounds ==
    ASSUME NEW a \in Nat, NEW b \in Nat \ {0}
    PROVE  /\ (a \div b) \in Nat
           /\ (a \div b) * b <= a
           /\ a < ((a \div b) + 1) * b
  <1>1. (a \div b) \in Nat
    OBVIOUS
  <1>2. (a \div b) * b <= a
    OBVIOUS
  <1>3. a < ((a \div b) + 1) * b
    OBVIOUS
  <1>4. QED
    BY <1>1, <1>2, <1>3

\* The quotient is the largest number of times the divisor fits.
LEMMA DivisionLargest ==
    ASSUME NEW a \in Nat, NEW b \in Nat \ {0}, NEW q \in Int, q * b <= a
    PROVE  q <= a \div b
  OBVIOUS

\* Multiplication by a number keeps the order.
LEMMA ProductMonotone ==
    ASSUME NEW a \in Int, NEW b \in Int, a <= b, NEW c \in Nat
    PROVE  a * c <= b * c
  OBVIOUS

\* The bounds of the chunks of size items that n items are cut in.
ChunkFirst(i, size) == (i - 1) * size + 1
ChunkLast(i, size, n) == IF i * size < n THEN i * size ELSE n

\* Every chunk lies within the items, and the next begins after it.
LEMMA ChunkBounds ==
    ASSUME NEW n \in Nat \ {0}, NEW size \in Nat \ {0},
           NEW i \in 1..((n + size - 1) \div size)
    PROVE  /\ ChunkFirst(i, size) \in 1..n
           /\ ChunkLast(i, size, n) \in ChunkFirst(i, size)..n
           /\ \A j \in Int : i < j =>
                 ChunkLast(i, size, n) < ChunkFirst(j, size)
  <1> DEFINE q == (n + size - 1) \div size
  <1>1. n + size - 1 \in Nat
    OBVIOUS
  <1>2. q \in Nat /\ q * size <= n + size - 1
    BY <1>1, DivisionBounds
  <1> HIDE DEF q
  <1>3. i \in Int /\ 1 <= i /\ i <= q
    BY <1>2 DEF q
  <1>4. i * size <= n + size - 1
    <2>1. i * size <= q * size
      BY <1>2, <1>3, ProductMonotone
    <2>2. i * size \in Int /\ q * size \in Int
      BY <1>2, <1>3
    <2>3. QED
      BY <1>1, <1>2, <2>1, <2>2
  <1>5. (i - 1) * size = i * size - size /\ i * size \in Int
    BY <1>3
  <1>6. i * size - size >= 0
    <2>1. 1 * size <= i * size
      BY <1>3, ProductMonotone
    <2>2. QED
      BY <1>5, <2>1
  <1>7. ChunkFirst(i, size) \in 1..n
    BY <1>4, <1>5, <1>6 DEF ChunkFirst
  <1>8. ChunkLast(i, size, n) \in ChunkFirst(i, size)..n
    BY <1>4, <1>5, <1>6 DEF ChunkFirst, ChunkLast
  <1>9. ASSUME NEW j \in Int, i < j
        PROVE  ChunkLast(i, size, n) < ChunkFirst(j, size)
    <2>1. i * size <= (j - 1) * size
      BY <1>3, <1>9, ProductMonotone
    <2>2. (j - 1) * size \in Int
      BY <1>9
    <2>3. QED
      BY <1>5, <2>1, <2>2 DEF ChunkFirst, ChunkLast
  <1>10. QED
    BY <1>7, <1>8, <1>9

\* Every item lies within a chunk.
LEMMA ChunkOfItem ==
    ASSUME NEW n \in Nat \ {0}, NEW size \in Nat \ {0}, NEW k \in 1..n
    PROVE  \E i \in 1..((n + size - 1) \div size) :
              k \in ChunkFirst(i, size)..ChunkLast(i, size, n)
  <1> DEFINE q == (k - 1) \div size
  <1>1. q \in Nat /\ q * size <= k - 1 /\ k - 1 < (q + 1) * size
    BY DivisionBounds
  <1> HIDE DEF q
  <1>2. (q + 1) * size = q * size + size /\ q * size \in Int
    BY <1>1
  <1>3. q + 1 <= (n + size - 1) \div size
    <2>1. (q + 1) * size <= n + size - 1
      BY <1>1, <1>2
    <2>2. QED
      BY <1>1, <2>1, DivisionLargest
  <1>4. (n + size - 1) \div size \in Nat
    BY DivisionBounds
  <1>5. k \in ChunkFirst(q + 1, size)..ChunkLast(q + 1, size, n)
    <2>1. (q + 1) - 1 = q
      BY <1>1
    <2>2. QED
      BY <1>1, <1>2, <2>1 DEF ChunkFirst, ChunkLast
  <1>6. QED
    BY <1>1, <1>3, <1>4, <1>5

(***************************************************************************)
(* Consecutive numbers in a queue, and in a queue of queues.               *)
(***************************************************************************)
Consecutive(s, a) == \A i \in 1..Len(s) : s[i] = a + i - 1
Chained(c, a) ==
    /\ \A j \in 1..Len(c) : c[j] # <<>> /\ Consecutive(c[j], c[j][1])
    /\ \A j \in 1..(Len(c) - 1) : c[j + 1][1] = c[j][1] + Len(c[j])
    /\ c # <<>> => c[1][1] = a

\* The empty queue is in order, whatever comes.
LEMMA EmptyConsecutive == \A a : Consecutive(<<>>, a) /\ Chained(<<>>, a)
  <1>1. Len(<<>>) = 0
    OBVIOUS
  <1>2. 1..0 = {} /\ 1..(0 - 1) = {}
    OBVIOUS
  <1>3. QED
    BY <1>1, <1>2 DEF Consecutive, Chained

\* The next number keeps a queue in order.
LEMMA AppendConsecutive ==
    ASSUME NEW S, NEW s \in Seq(S), NEW a \in Int, Consecutive(s, a),
           a + Len(s) \in S
    PROVE  /\ Consecutive(Append(s, a + Len(s)), a)
           /\ Len(Append(s, a + Len(s))) = Len(s) + 1 /\ Len(s) \in Nat
  <1> DEFINE t == Append(s, a + Len(s))
  <1>1. /\ Len(s) \in Nat /\ Len(t) = Len(s) + 1
        /\ t[Len(s) + 1] = a + Len(s)
        /\ \A i \in 1..Len(s) : t[i] = s[i]
    BY AppendProperties, LenProperties
  <1> HIDE DEF t
  <1>2. ASSUME NEW i \in 1..(Len(s) + 1)
        PROVE  t[i] = a + i - 1
    <2>1. CASE i \in 1..Len(s)
      BY <1>1, <2>1 DEF Consecutive
    <2>2. CASE i = Len(s) + 1
      BY <1>1, <2>2
    <2>3. QED
      BY <1>1, <2>1, <2>2
  <1>3. Consecutive(t, a)
    BY <1>1, <1>2 DEF Consecutive
  <1>4. QED
    BY <1>1, <1>3 DEF t

\* Taking the head leaves a queue in order.
LEMMA TailConsecutive ==
    ASSUME NEW S, NEW s \in Seq(S), s # <<>>, NEW a \in Int, Consecutive(s, a)
    PROVE  /\ Head(s) = a /\ Consecutive(Tail(s), a + 1)
           /\ Len(Tail(s)) = Len(s) - 1 /\ Len(s) \in Nat \ {0}
  <1>1. /\ Len(s) \in Nat \ {0} /\ Tail(s) \in Seq(S)
        /\ Len(Tail(s)) = Len(s) - 1 /\ Head(s) = s[1]
        /\ \A i \in 1..(Len(s) - 1) : Tail(s)[i] = s[i + 1]
    BY HeadTailProperties, EmptySeq, LenProperties
  <1>2. Head(s) = a
    <2>1. 1 \in 1..Len(s) /\ a + 1 - 1 = a
      BY <1>1
    <2>2. QED
      BY <1>1, <2>1 DEF Consecutive
  <1>3. ASSUME NEW i \in 1..(Len(s) - 1)
        PROVE  Tail(s)[i] = (a + 1) + i - 1
    <2>1. i + 1 \in 1..Len(s) /\ a + (i + 1) - 1 = (a + 1) + i - 1
      BY <1>1
    <2>2. s[i + 1] = a + (i + 1) - 1
      BY <2>1 DEF Consecutive
    <2>3. QED
      BY <1>1, <2>1, <2>2
  <1>4. Consecutive(Tail(s), a + 1)
    BY <1>1, <1>3 DEF Consecutive
  <1>5. QED
    BY <1>1, <1>2, <1>4

\* Taking the first queue leaves the others in order behind it.
LEMMA TailChained ==
    ASSUME NEW S, NEW c \in Seq(Seq(S)), c # <<>>, NEW a \in Int, Chained(c, a)
    PROVE  /\ Consecutive(Head(c), a)
           /\ Chained(Tail(c), a + Len(Head(c)))
  <1>1. /\ Len(c) \in Nat \ {0} /\ Tail(c) \in Seq(Seq(S))
        /\ Len(Tail(c)) = Len(c) - 1 /\ Head(c) = c[1]
        /\ \A j \in 1..(Len(c) - 1) : Tail(c)[j] = c[j + 1]
    BY HeadTailProperties, EmptySeq, LenProperties
  <1>2. 1 \in 1..Len(c) /\ c[1][1] = a
    BY <1>1 DEF Chained
  <1>3. Consecutive(Head(c), a)
    BY <1>1, <1>2 DEF Chained
  <1>4. ASSUME NEW j \in 1..(Len(c) - 1)
        PROVE  Tail(c)[j] # <<>> /\ Consecutive(Tail(c)[j], Tail(c)[j][1])
    <2>1. j + 1 \in 1..Len(c)
      BY <1>1
    <2>2. QED
      BY <1>1, <2>1 DEF Chained
  <1>5. ASSUME NEW j \in 1..(Len(c) - 1 - 1)
        PROVE  Tail(c)[j + 1][1] = Tail(c)[j][1] + Len(Tail(c)[j])
    <2>1. j \in 1..(Len(c) - 1) /\ j + 1 \in 1..(Len(c) - 1)
      BY <1>1
    <2>2. QED
      BY <1>1, <2>1 DEF Chained
  <1>6. ASSUME Tail(c) # <<>>
        PROVE  Tail(c)[1][1] = a + Len(Head(c))
    <2>1. Len(c) - 1 # 0
      BY <1>1, <1>6, EmptySeq
    <2>2. 1 \in 1..(Len(c) - 1) /\ 1 + 1 = 2
      BY <1>1, <2>1
    <2>3. Tail(c)[1] = c[1 + 1] /\ c[1 + 1][1] = c[1][1] + Len(c[1])
      BY <1>1, <2>2 DEF Chained
    <2>4. QED
      BY <1>1, <1>2, <2>3
  <1>7. Chained(Tail(c), a + Len(Head(c)))
    BY <1>1, <1>4, <1>5, <1>6 DEF Chained
  <1>8. QED
    BY <1>3, <1>7
=============================================================================
