--------------------------- MODULE VectorOpsProofs ---------------------------
(* What the vector operators return, for vectors of any length. *)
EXTENDS VectorOps, FunctionTheorems, FiniteSetTheorems, TLAPS

\* Any set of positions of a vector is finite.
LEMMA PositionsFinite ==
  ASSUME NEW N \in Nat, NEW K \in SUBSET (1 .. N)
  PROVE  IsFiniteSet(K) /\ Cardinality(K) \in Nat /\ Cardinality(K) <= N
<1>1. IsFiniteSet(1 .. N) /\ Cardinality(1 .. N) = N
  BY FS_Interval
<1>2. QED
  BY <1>1, FS_Subset, FS_CardinalityType

\* A position's rank counts the position itself and nothing beyond K.
LEMMA RankRange ==
  ASSUME NEW N \in Nat, NEW K \in SUBSET (1 .. N), NEW i \in K
  PROVE  Rank(K, i) \in 1 .. Cardinality(K)
<1> DEFINE B == {j \in K : j <= i}
<1>1. IsFiniteSet(K) /\ Cardinality(K) \in Nat
  BY PositionsFinite
<1>2. B \in SUBSET K /\ i \in B
  <2>1. i \in Int
    OBVIOUS
  <2>2. QED
    BY <2>1
<1>3. IsFiniteSet(B) /\ Cardinality(B) <= Cardinality(K)
  BY <1>1, <1>2, FS_Subset
<1>4. Cardinality(B) \in Nat /\ Cardinality(B) # 0
  BY <1>2, <1>3, FS_CardinalityType, FS_EmptySet
<1>5. QED
  BY <1>1, <1>3, <1>4 DEF Rank

\* Ranks grow strictly with the position.
LEMMA RankMonotone ==
  ASSUME NEW N \in Nat, NEW K \in SUBSET (1 .. N), NEW i \in K, NEW j \in K, i < j
  PROVE  Rank(K, i) < Rank(K, j)
<1> DEFINE A == {k \in K : k <= i}
           B == {k \in K : k <= j}
<1>1. B \in SUBSET (1 .. N) /\ IsFiniteSet(B) /\ Cardinality(B) \in Nat
  <2>1. B \in SUBSET (1 .. N)
    OBVIOUS
  <2>2. QED
    BY <2>1, PositionsFinite
<1>2. A \in SUBSET B /\ j \in B /\ j \notin A
  <2>1. \A k \in K : k \in Int
    OBVIOUS
  <2>2. \A k \in A : k \in B
    BY <2>1
  <2>3. i \in Int /\ j \in Int /\ j <= j /\ ~(j <= i)
    BY <2>1
  <2>4. j \in B /\ j \notin A
    BY <2>3
  <2>5. QED
    BY <2>2, <2>4
<1>3. Cardinality(A) <= Cardinality(B) /\ (Cardinality(B) = Cardinality(A) => B = A)
  BY <1>1, <1>2, FS_Subset
<1>4. Cardinality(A) \in Nat
  BY <1>1, <1>2, FS_Subset, FS_CardinalityType
<1>5. QED
  BY <1>1, <1>2, <1>3, <1>4 DEF Rank

\* Every rank up to the size of K is taken.
LEMMA RankOnto ==
  ASSUME NEW N \in Nat, NEW K \in SUBSET (1 .. N), NEW n \in 1 .. Cardinality(K)
  PROVE  \E i \in K : Rank(K, i) = n
<1> DEFINE c == Cardinality(K)
           f == [i \in K |-> Rank(K, i)]
<1>1. IsFiniteSet(K) /\ c \in Nat
  BY PositionsFinite
<1>2. f \in [K -> 1 .. c]
  <2>1. \A k \in K : Rank(K, k) \in 1 .. Cardinality(K)
    BY RankRange
  <2>2. QED
    BY <2>1
<1>3. ASSUME NEW i \in K, NEW j \in K, f[i] = f[j]
      PROVE  i = j
  <2>1. i \in Int /\ j \in Int /\ Rank(K, i) = Rank(K, j)
    BY <1>3
  <2>2. Rank(K, i) \in 1 .. c /\ Rank(K, j) \in 1 .. c
    <3>1. \A k \in K : Rank(K, k) \in 1 .. Cardinality(K)
      BY RankRange
    <3>2. QED
      BY <3>1
  <2>3. ~(i < j) /\ ~(j < i)
    <3> HIDE DEF f
    <3>1. \A k, l \in K : k < l => Rank(K, k) < Rank(K, l)
      BY RankMonotone
    <3>2. QED
      BY <1>1, <2>1, <2>2, <3>1
  <2>4. QED
    BY <2>1, <2>3
<1>4. f \in Injection(K, 1 .. c)
  BY <1>2, <1>3 DEF Injection, IsInjective
<1>5. IsFiniteSet(1 .. c) /\ Cardinality(1 .. c) = c
  BY <1>1, FS_Interval
<1>6. f \in Surjection(K, 1 .. c)
  BY <1>4, <1>5, FS_Injection
<1>7. QED
  BY <1>6 DEF Surjection

\* The n-th position of K is a position of K, the one with rank n.
LEMMA NthType ==
  ASSUME NEW N \in Nat, NEW K \in SUBSET (1 .. N), NEW n \in 1 .. Cardinality(K)
  PROVE  Nth(K, n) \in K /\ Rank(K, Nth(K, n)) = n
BY RankOnto DEF Nth

\* find_if finds something when there is something to find, and nothing that
\* matches stands before it.
LEMMA NthFirst ==
  ASSUME NEW N \in Nat, NEW K \in SUBSET (1 .. N), K # {}
  PROVE  Nth(K, 1) \in K /\ \A j \in K : Nth(K, 1) <= j
<1>1. IsFiniteSet(K) /\ Cardinality(K) \in Nat /\ Cardinality(K) # 0
  BY PositionsFinite, FS_EmptySet
<1>2. Nth(K, 1) \in K /\ Rank(K, Nth(K, 1)) = 1
  <2>1. 1 \in 1 .. Cardinality(K)
    BY <1>1
  <2>2. QED
    BY <2>1, NthType
<1>3. ASSUME NEW j \in K, j < Nth(K, 1)
      PROVE  FALSE
  <2>1. Rank(K, j) < Rank(K, Nth(K, 1))
    BY <1>2, <1>3, RankMonotone
  <2>2. Rank(K, j) \in 1 .. Cardinality(K)
    BY RankRange
  <2>3. QED
    BY <1>1, <1>2, <2>1, <2>2
<1>4. \A j \in K : j \in Int
  OBVIOUS
<1>5. ASSUME NEW j \in K
      PROVE  Nth(K, 1) <= j
  <2>1. Nth(K, 1) \in Int /\ j \in Int
    BY <1>2, <1>4
  <2>2. ~(j < Nth(K, 1))
    BY <1>3
  <2>3. QED
    BY <2>1, <2>2
<1>6. QED
  BY <1>2, <1>5

\* Erasing entries leaves a shorter vector, each entry of which is an old one.
LEMMA KeepType ==
  ASSUME NEW S, NEW s \in Seq(S), NEW K \in SUBSET (DOMAIN s)
  PROVE  /\ Keep(s, K) \in Seq(S)
         /\ Len(Keep(s, K)) = Cardinality(K)
         /\ Cardinality(K) \in Nat /\ Cardinality(K) <= Len(s)
         /\ \A n \in DOMAIN Keep(s, K) :
              Nth(K, n) \in K /\ Keep(s, K)[n] = s[Nth(K, n)]
<1>1. Len(s) \in Nat /\ DOMAIN s = 1 .. Len(s)
  OBVIOUS
<1>2. Cardinality(K) \in Nat /\ Cardinality(K) <= Len(s)
  BY <1>1, PositionsFinite
<1>3. DOMAIN Keep(s, K) = 1 .. Cardinality(K)
  BY DEF Keep
<1>4. ASSUME NEW n \in 1 .. Cardinality(K)
      PROVE  Nth(K, n) \in K /\ Keep(s, K)[n] = s[Nth(K, n)]
  BY <1>1, NthType DEF Keep
<1>5. \A n \in 1 .. Cardinality(K) : s[Nth(K, n)] \in S
  BY <1>1, <1>4
<1>6. Keep(s, K) \in [1 .. Cardinality(K) -> S]
  BY <1>5 DEF Keep
<1>7. Keep(s, K) \in Seq(S) /\ Len(Keep(s, K)) = Cardinality(K)
  BY <1>2, <1>6
<1>8. QED
  BY <1>2, <1>3, <1>4, <1>7

\* Every entry that is kept is still there.
LEMMA KeepOnto ==
  ASSUME NEW S, NEW s \in Seq(S), NEW K \in SUBSET (DOMAIN s), NEW i \in K
  PROVE  \E n \in DOMAIN Keep(s, K) : Nth(K, n) = i /\ Keep(s, K)[n] = s[i]
<1>1. Len(s) \in Nat /\ DOMAIN s = 1 .. Len(s)
  OBVIOUS
<1> DEFINE n == Rank(K, i)
<1>2. n \in 1 .. Cardinality(K)
  BY <1>1, RankRange
<1>3. Nth(K, n) \in K /\ Rank(K, Nth(K, n)) = n
  BY <1>1, <1>2, NthType
<1>4. ~(Nth(K, n) < i) /\ ~(i < Nth(K, n))
  <2>1. Rank(K, i) \in Int
    BY <1>2
  <2>2. K \in SUBSET (1 .. Len(s))
    BY <1>1
  <2>3. \A k, l \in K : k < l => Rank(K, k) < Rank(K, l)
    BY <1>1, <2>2, RankMonotone
  <2>4. QED
    BY <1>3, <2>1, <2>3
<1>5. Nth(K, n) = i
  BY <1>1, <1>3, <1>4
<1>6. QED
  BY <1>2, <1>5 DEF Keep

\* Erasing end() the way the builds do drops the last entry.
LEMMA DropLastType ==
  ASSUME NEW S, NEW s \in Seq(S), s # <<>>
  PROVE  /\ DropLast(s) \in Seq(S)
         /\ \A n \in DOMAIN DropLast(s) : n \in DOMAIN s /\ DropLast(s)[n] = s[n]
<1>1. Len(s) - 1 \in Nat /\ DOMAIN s = 1 .. Len(s)
  OBVIOUS
<1>2. DropLast(s) \in [1 .. (Len(s) - 1) -> S]
  BY <1>1 DEF DropLast
<1>3. DropLast(s) \in Seq(S)
  BY <1>1, <1>2
<1>4. QED
  BY <1>1, <1>3 DEF DropLast

\* Mapping the entries of a vector one by one leaves a vector as long.
LEMMA MapType ==
  ASSUME NEW S, NEW T, NEW s \in Seq(S), NEW f,
         f = [i \in DOMAIN s |-> f[i]], \A i \in DOMAIN s : f[i] \in T
  PROVE  f \in Seq(T) /\ DOMAIN f = DOMAIN s
<1>1. Len(s) \in Nat /\ DOMAIN s = 1 .. Len(s)
  OBVIOUS
<1>2. f \in [1 .. Len(s) -> T]
  BY <1>1
<1>3. QED
  BY <1>1, <1>2

-----------------------------------------------------------------------------
(* Positions of a vector *)

\* Positions of the same rank are the same, so that the n-th is the one with rank n.
LEMMA NthUnique ==
  ASSUME NEW N \in Nat, NEW K \in SUBSET (1 .. N), NEW i \in K
  PROVE  /\ Rank(K, i) \in 1 .. Cardinality(K)
         /\ Nth(K, Rank(K, i)) = i
<1> DEFINE n == Rank(K, i)
<1>1. n \in 1 .. Cardinality(K)
  BY RankRange
<1>2. Nth(K, n) \in K /\ Rank(K, Nth(K, n)) = n
  BY <1>1, NthType
<1>3. \A k, l \in K : k < l => Rank(K, k) < Rank(K, l)
  BY RankMonotone
<1>4. ~(Nth(K, n) < i) /\ ~(i < Nth(K, n))
  <2>1. Rank(K, i) \in Int
    BY <1>1
  <2>2. \A k, l \in K : k < l => Rank(K, k) # Rank(K, l)
    <3>1. \A k \in K : Rank(K, k) \in Int
      <4>1. \A k \in K : Rank(K, k) \in 1 .. Cardinality(K)
        BY RankRange
      <4>2. QED
        BY <4>1
    <3>2. QED
      BY <1>3, <3>1
  <2>3. QED
    BY <1>2, <2>2
<1>5. i \in Int /\ Nth(K, n) \in Int
  <2>1. \A k \in K : k \in Int
    OBVIOUS
  <2>2. QED
    BY <1>2, <2>1
<1>6. QED
  BY <1>1, <1>4, <1>5

\* Position l is the last one that is not position k.
LastBut(s, k, l) == \A j \in DOMAIN s : j > l => j = k

\* Dropping the last of the entries that an erasure leaves is erasing it too.
LEMMA DropLastErased ==
  ASSUME NEW S, NEW s \in Seq(S), NEW k \in DOMAIN s, Erase(s, {k}) # <<>>
  PROVE  \E l \in DOMAIN s \ {k} :
           /\ LastBut(s, k, l)
           /\ DropLast(Erase(s, {k})) = Erase(s, {k, l})
<1> DEFINE R == DOMAIN s \ {k}
           c == Cardinality(R)
           l == Nth(R, c)
           Q == R \ {l}
<1>1. Len(s) \in Nat /\ R \in SUBSET (1 .. Len(s)) /\ R \in SUBSET DOMAIN s
  OBVIOUS
<1>2. /\ IsFiniteSet(R) /\ c \in Nat
      /\ Erase(s, {k}) = Keep(s, R) /\ Keep(s, R) \in Seq(S)
      /\ Len(Keep(s, R)) = c
  BY <1>1, PositionsFinite, KeepType DEF Erase
<1>3. c \in Nat \ {0} /\ c \in 1 .. c
  <2> DEFINE E == Keep(s, R)
  <2>1. E \in Seq(S) /\ E # <<>> /\ Len(E) = c
    BY <1>2
  <2> HIDE DEF E
  <2>2. Len(E) # 0
    BY <2>1
  <2>3. QED
    BY <1>2, <2>1, <2>2
<1>4. l \in R /\ Rank(R, l) = c
  BY <1>1, <1>3, NthType
<1>5. \A j \in R : j <= l
  <2> SUFFICES ASSUME NEW j \in R, ~(j <= l)
               PROVE  FALSE
    OBVIOUS
  <2>1. j \in Nat /\ l \in Nat /\ l < j
    <3> HIDE DEF l
    <3>1. QED
      BY <1>1, <1>4
  <2>2. Rank(R, l) < Rank(R, j)
    BY <1>1, <1>4, <2>1, RankMonotone
  <2>3. Rank(R, j) \in 1 .. c
    BY <1>1, RankRange
  <2>4. QED
    BY <1>3, <1>4, <2>2, <2>3
<1> HIDE DEF l
<1>6. Cardinality(Q) = c - 1 /\ Q \in SUBSET (1 .. Len(s))
  BY <1>1, <1>2, <1>4, FS_RemoveElement
<1>7. \A i \in Q : Rank(Q, i) = Rank(R, i)
  <2> SUFFICES ASSUME NEW i \in Q
               PROVE  {j \in Q : j <= i} = {j \in R : j <= i}
    BY DEF Rank
  <2>1. i \in Nat /\ l \in Nat /\ i <= l /\ i # l
    BY <1>1, <1>4, <1>5
  <2>2. ~(l <= i)
    BY <2>1
  <2>3. QED
    BY <2>2
<1>8. ASSUME NEW n \in 1 .. (c - 1)
      PROVE  Nth(Q, n) = Nth(R, n) /\ n \in 1 .. c
  <2>1. Nth(Q, n) \in Q /\ Rank(Q, Nth(Q, n)) = n
    BY <1>1, <1>6, NthType
  <2>2. Nth(Q, n) \in R /\ Rank(R, Nth(Q, n)) = n
    BY <1>7, <2>1
  <2>3. Nth(R, Rank(R, Nth(Q, n))) = Nth(Q, n)
    BY <1>1, <2>2, NthUnique
  <2>4. QED
    BY <1>3, <2>2, <2>3
<1>9. DropLast(Keep(s, R)) = Keep(s, Q)
  <2>1. DropLast(Keep(s, R)) = [n \in 1 .. (c - 1) |-> Keep(s, R)[n]]
    BY <1>2 DEF DropLast
  <2>2. \A n \in 1 .. (c - 1) : Keep(s, R)[n] = s[Nth(Q, n)]
    BY <1>8 DEF Keep
  <2>3. Keep(s, Q) = [n \in 1 .. (c - 1) |-> s[Nth(Q, n)]]
    BY <1>6 DEF Keep
  <2>4. QED
    BY <2>1, <2>2, <2>3
<1>10. Keep(s, Q) = Erase(s, {k, l})
  <2>1. DOMAIN s \ {k, l} = Q
    OBVIOUS
  <2>2. QED
    BY <2>1 DEF Erase
<1>11. LastBut(s, k, l)
  <2> SUFFICES ASSUME NEW j \in DOMAIN s, j # k
               PROVE  ~(j > l)
    BY DEF LastBut
  <2>1. j \in Nat /\ l \in Nat /\ j <= l
    BY <1>1, <1>4, <1>5
  <2>2. QED
    BY <2>1
<1>12. l \in DOMAIN s \ {k}
  BY <1>4
<1>13. QED
  BY <1>2, <1>9, <1>10, <1>11, <1>12

\* The first position, if it is taken, is the first; between a position and the next none
\* is taken.
LEMMA NthOne ==
  ASSUME NEW N \in Nat, NEW K \in SUBSET (1 .. N), 1 \in K
  PROVE  Nth(K, 1) = 1 /\ 1 \in 1 .. Cardinality(K)
<1>1. Nth(K, 1) \in K /\ Nth(K, 1) <= 1
  BY NthFirst
<1>2. Cardinality(K) \in Nat /\ Cardinality(K) # 0
  BY PositionsFinite, FS_EmptySet
<1>3. Nth(K, 1) \in 1 .. N
  BY <1>1
<1>4. QED
  BY <1>1, <1>2, <1>3

LEMMA NthNext ==
  ASSUME NEW N \in Nat, NEW K \in SUBSET (1 .. N), NEW n \in 1 .. Cardinality(K),
         n + 1 \in 1 .. Cardinality(K)
  PROVE  /\ Nth(K, n) \in K /\ Nth(K, n + 1) \in K /\ Nth(K, n) < Nth(K, n + 1)
         /\ \A k \in K : ~(Nth(K, n) < k /\ k < Nth(K, n + 1))
<1>1. /\ Nth(K, n) \in K /\ Rank(K, Nth(K, n)) = n
      /\ Nth(K, n + 1) \in K /\ Rank(K, Nth(K, n + 1)) = n + 1
  BY NthType
<1>2. \A k, l \in K : k < l => Rank(K, k) < Rank(K, l)
  BY RankMonotone
<1>3. ASSUME NEW k \in K
      PROVE  Rank(K, k) \in Int
  <2>1. Rank(K, k) \in 1 .. Cardinality(K)
    BY RankRange
  <2>2. QED
    BY <2>1
<1>4. n \in Int /\ \A k \in K : k \in Int
  OBVIOUS
<1>5. ~(Nth(K, n + 1) < Nth(K, n)) /\ Nth(K, n) # Nth(K, n + 1)
  <2>1. ASSUME Nth(K, n + 1) < Nth(K, n)
        PROVE  FALSE
    <3>1. Rank(K, Nth(K, n + 1)) < Rank(K, Nth(K, n))
      BY <1>1, <1>2, <2>1
    <3>2. QED
      BY <1>1, <1>4, <3>1
  <2>2. n # n + 1
    BY <1>4
  <2>3. QED
    BY <1>1, <2>1, <2>2
<1>6. ASSUME NEW k \in K, Nth(K, n) < k, k < Nth(K, n + 1)
      PROVE  FALSE
  <2>1. n < Rank(K, k) /\ Rank(K, k) < n + 1
    BY <1>1, <1>2, <1>6
  <2>2. QED
    BY <1>3, <1>4, <2>1
<1>7. Nth(K, n) \in Int /\ Nth(K, n + 1) \in Int
  BY <1>1, <1>4
<1>8. QED
  BY <1>1, <1>5, <1>6, <1>7

\* Without the first position every other moves up by one.
LEMMA NthTail ==
  ASSUME NEW N \in Nat, NEW K \in SUBSET (1 .. N), 1 \in K
  PROVE  /\ Cardinality(K \ {1}) + 1 = Cardinality(K)
         /\ \A n \in 1 .. Cardinality(K \ {1}) : Nth(K \ {1}, n) = Nth(K, n + 1)
<1> DEFINE L == K \ {1}
<1>1. /\ IsFiniteSet(K) /\ Cardinality(K) \in Nat
      /\ L \in SUBSET (1 .. N) /\ IsFiniteSet(L) /\ Cardinality(L) \in Nat
  BY PositionsFinite
<1>2. Cardinality(L) + 1 = Cardinality(K)
  BY <1>1, FS_RemoveElement
<1>3. ASSUME NEW i \in L
      PROVE  Rank(K, i) = Rank(L, i) + 1
  <2> DEFINE B == {j \in L : j <= i}
  <2>1. 1 < i /\ i \in Int
    BY <1>1
  <2>2. {j \in K : j <= i} = B \cup {1} /\ 1 \notin B
    BY <2>1
  <2>3. B \in SUBSET (1 .. N)
    BY <1>1
  <2>4. IsFiniteSet(B)
    BY <2>3, PositionsFinite
  <2>5. Cardinality(B \cup {1}) = Cardinality(B) + 1
    BY <2>2, <2>4, FS_AddElement
  <2>6. QED
    BY <2>2, <2>5 DEF Rank
<1>4. ASSUME NEW n \in 1 .. Cardinality(L)
      PROVE  Nth(L, n) = Nth(K, n + 1)
  <2>1. Nth(L, n) \in L /\ Rank(L, Nth(L, n)) = n
    BY <1>1, NthType
  <2>2. Nth(L, n) \in K /\ Rank(K, Nth(L, n)) = n + 1
    BY <1>3, <2>1
  <2>3. QED
    BY <2>2, NthUnique
<1>5. QED
  BY <1>2, <1>4
=============================================================================
