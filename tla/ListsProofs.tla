------------------------------ MODULE ListsProofs ------------------------------
(***************************************************************************)
(* What Erase computes, for every list: the lemmas that the proofs about   *)
(* the cache's records and about the queue of sessions rest on.            *)
(***************************************************************************)
EXTENDS Lists, FiniteSetTheorems, SequenceTheorems, TLAPS

(***************************************************************************)
(* Erasing counts the kept positions: each has its own rank, a number from *)
(* 1 up to the number of kept positions, and each such number is the rank  *)
(* of one of them, which is what makes Erase well defined.                 *)
(***************************************************************************)
UpTo(kept, i) == {j \in kept : j <= i}

Rank(kept, i) == Cardinality(UpTo(kept, i))

(* Ranks are distinct, ordered, and leave no number out. *)
LEMMA KeptRanks ==
    ASSUME NEW m \in Nat, NEW kept \in SUBSET (1..m)
    PROVE  /\ Cardinality(kept) \in Nat
           /\ \A i \in kept : Rank(kept, i) \in 1..Cardinality(kept)
           /\ \A i, j \in kept : i < j => Rank(kept, i) < Rank(kept, j)
           /\ \A k \in 1..Cardinality(kept) : \E i \in kept : Rank(kept, i) = k
<1> DEFINE n == Cardinality(kept)
           rank == [i \in kept |-> Rank(kept, i)]
<1>1. IsFiniteSet(kept) /\ n \in Nat
  <2>1. IsFiniteSet(1..m)
    BY FS_Interval
  <2> QED BY <2>1, FS_Subset, FS_CardinalityType
<1>a. \A i \in kept : i \in Int
  OBVIOUS
<1>2. ASSUME NEW i \in kept
      PROVE  /\ UpTo(kept, i) \in SUBSET kept
             /\ IsFiniteSet(UpTo(kept, i))
             /\ Rank(kept, i) \in 1..n
  <2>1. UpTo(kept, i) \in SUBSET kept
    BY DEF UpTo
  <2>2. IsFiniteSet(UpTo(kept, i)) /\ Rank(kept, i) <= n
    BY <1>1, <2>1, FS_Subset DEF Rank
  <2>3. i \in UpTo(kept, i)
    BY DEF UpTo
  <2>4. Rank(kept, i) \in Nat /\ Rank(kept, i) # 0
    BY <2>2, <2>3, FS_CardinalityType, FS_EmptySet DEF Rank
  <2> QED BY <1>1, <2>1, <2>2, <2>4
<1>3. ASSUME NEW i \in kept, NEW j \in kept, i < j
      PROVE  Rank(kept, i) < Rank(kept, j)
  <2>a. \A x \in kept : x <= i => x <= j
    BY <1>a, <1>3
  <2>1. UpTo(kept, i) \in SUBSET UpTo(kept, j)
    BY <2>a, Zenon DEF UpTo
  <2>2. j \in UpTo(kept, j) /\ j \notin UpTo(kept, i)
    BY <1>3 DEF UpTo
  <2>3. Rank(kept, i) <= Rank(kept, j) /\ Rank(kept, i) # Rank(kept, j)
    BY <1>2, <2>1, <2>2, FS_Subset DEF Rank
  <2> QED BY <1>2, <2>3
<1>4. rank \in Injection(kept, 1..n)
  <2>1. rank \in [kept -> 1..n]
    BY <1>2
  <2>2. \A i, j \in kept : rank[i] = rank[j] => i = j
    <3>1. \A i, j \in kept : i < j \/ j < i \/ i = j
      OBVIOUS
    <3>2. \A i \in kept : rank[i] = Rank(kept, i) /\ rank[i] \in Int
      BY <1>2
    <3> HIDE DEF rank
    <3> QED BY <1>3, <3>1, <3>2
  <2> QED BY <2>1, <2>2 DEF Injection, IsInjective
<1>5. rank \in Surjection(kept, 1..n)
  <2>1. IsFiniteSet(1..n) /\ Cardinality(1..n) = n
    BY <1>1, FS_Interval
  <2> QED BY <1>1, <1>4, <2>1, FS_Injection
<1>6. \A k \in 1..n : \E i \in kept : Rank(kept, i) = k
  BY <1>5 DEF Surjection
<1> QED BY <1>1, <1>2, <1>3, <1>6

(***************************************************************************)
(* What Erase leaves of a list: exactly the elements that are not erased,  *)
(* each at one place, in the order they had.                               *)
(***************************************************************************)
LEMMA EraseKeeps ==
    ASSUME NEW S, NEW s \in Seq(S), NEW R
    PROVE  /\ Erase(s, R) \in Seq(S)
           /\ \E p \in [1..Len(Erase(s, R)) -> 1..Len(s)] :
                /\ \A k \in 1..Len(Erase(s, R)) :
                     Erase(s, R)[k] = s[p[k]] /\ s[p[k]] \notin R
                /\ \A k, l \in 1..Len(Erase(s, R)) : k < l => p[k] < p[l]
                /\ \A i \in 1..Len(s) :
                     s[i] \notin R => \E k \in 1..Len(Erase(s, R)) : p[k] = i
<1> DEFINE kept == KeptPositions(s, R)
           n == Cardinality(kept)
           at(k) == CHOOSE i \in kept : Rank(kept, i) = k
           p == [k \in 1..n |-> at(k)]
<1>1. kept \in SUBSET (1..Len(s)) /\ Len(s) \in Nat
  BY DEF KeptPositions
<1>2. /\ n \in Nat
      /\ \A i \in kept : Rank(kept, i) \in 1..n
      /\ \A i, j \in kept : i < j => Rank(kept, i) < Rank(kept, j)
      /\ \A k \in 1..n : \E i \in kept : Rank(kept, i) = k
  BY <1>1, KeptRanks, Zenon
<1>3. \A k \in 1..n : at(k) \in kept /\ Rank(kept, at(k)) = k
  BY <1>2
<1>4. Erase(s, R) = [k \in 1..n |-> s[at(k)]]
  BY Zenon DEF Erase, Rank, UpTo
<1>5. \A k \in 1..n : at(k) \in 1..Len(s) /\ s[at(k)] \notin R
  BY <1>3 DEF KeptPositions
<1> HIDE DEF at, n, kept
<1>6. Erase(s, R) \in Seq(S) /\ Len(Erase(s, R)) = n
  <2>1. \A i \in 1..Len(s) : s[i] \in S
    OBVIOUS
  <2>2. Erase(s, R) \in [1..n -> S]
    BY <1>4, <1>5, <2>1
  <2>3. Erase(s, R) \in Seq(S)
    BY <1>2, <2>2, SeqDef
  <2> QED BY <1>2, <1>4, <2>3
<1>7. p \in [1..n -> 1..Len(s)] /\ \A k \in 1..n : p[k] = at(k)
  BY <1>5
<1> HIDE DEF p
<1>8. ASSUME NEW k \in 1..n, NEW l \in 1..n, k < l
      PROVE  p[k] < p[l]
  <2>1. /\ at(k) \in kept /\ Rank(kept, at(k)) = k
        /\ at(l) \in kept /\ Rank(kept, at(l)) = l
    BY <1>3
  <2>2. at(k) \in Int /\ at(l) \in Int
    BY <1>5
  <2>3. ~(at(l) < at(k)) /\ at(l) # at(k)
    BY <1>2, <1>8, <2>1
  <2> QED BY <1>7, <2>2, <2>3
<1>9. ASSUME NEW i \in 1..Len(s), s[i] \notin R
      PROVE  \E k \in 1..n : p[k] = i
  <2>1. i \in kept
    BY <1>9 DEF kept, KeptPositions
  <2>2. PICK k \in 1..n : Rank(kept, i) = k
    BY <1>2, <2>1
  <2>3. at(k) \in kept /\ Rank(kept, at(k)) = k /\ at(k) \in 1..Len(s)
    BY <1>3, <1>5
  <2>4. ~(i < at(k)) /\ ~(at(k) < i)
    BY <1>2, <2>1, <2>2, <2>3
  <2>5. i = at(k)
    BY <2>3, <2>4
  <2> QED BY <1>7, <2>5
<1>10. \E q \in [1..Len(Erase(s, R)) -> 1..Len(s)] :
          /\ \A k \in 1..Len(Erase(s, R)) :
               Erase(s, R)[k] = s[q[k]] /\ s[q[k]] \notin R
          /\ \A k, l \in 1..Len(Erase(s, R)) : k < l => q[k] < q[l]
          /\ \A i \in 1..Len(s) :
               s[i] \notin R => \E k \in 1..Len(Erase(s, R)) : q[k] = i
  <2>1. \A k \in 1..n : Erase(s, R)[k] = s[p[k]] /\ s[p[k]] \notin R
    BY <1>4, <1>5, <1>7
  <2>2. Len(Erase(s, R)) = n
    BY <1>6
  <2>3. p \in [1..Len(Erase(s, R)) -> 1..Len(s)]
    BY <1>7, <2>2
  <2> WITNESS p \in [1..Len(Erase(s, R)) -> 1..Len(s)]
  <2> QED BY <1>8, <1>9, <2>1, <2>2
<1> QED BY <1>6, <1>10

(* Erasing records from a list leaves a list of the same type. *)
LEMMA EraseType ==
    ASSUME NEW S, NEW s \in Seq(S), NEW R
    PROVE  /\ Erase(s, R) \in Seq(S)
           /\ s = <<>> => Erase(s, R) = <<>>
<1>1. Erase(s, R) \in Seq(S)
  BY EraseKeeps
<1>2. PICK p \in [1..Len(Erase(s, R)) -> 1..Len(s)] : TRUE
  BY EraseKeeps
<1>3. ASSUME s = <<>>, Erase(s, R) # <<>> PROVE FALSE
  <2>1. 1 \in 1..Len(Erase(s, R))
    BY <1>1, <1>3
  <2>2. p[1] \in 1..0
    BY <1>2, <1>3, <2>1
  <2> QED BY <2>2
<1> QED BY <1>1, <1>3

(* What is in a list after erasing is what was in it and is not erased. *)
LEMMA EraseElements ==
    ASSUME NEW S, NEW s \in Seq(S), NEW R
    PROVE  /\ \A k \in 1..Len(Erase(s, R)) :
                 Erase(s, R)[k] \notin R /\ \E i \in 1..Len(s) : Erase(s, R)[k] = s[i]
           /\ \A i \in 1..Len(s) : s[i] \notin R =>
                 \E k \in 1..Len(Erase(s, R)) : Erase(s, R)[k] = s[i]
<1>1. PICK p \in [1..Len(Erase(s, R)) -> 1..Len(s)] :
         /\ \A k \in 1..Len(Erase(s, R)) : Erase(s, R)[k] = s[p[k]] /\ s[p[k]] \notin R
         /\ \A i \in 1..Len(s) :
              s[i] \notin R => \E k \in 1..Len(Erase(s, R)) : p[k] = i
  BY EraseKeeps
<1>2. \A k \in 1..Len(Erase(s, R)) : p[k] \in 1..Len(s)
  OBVIOUS
<1> QED BY <1>1, <1>2
==============================================================================
