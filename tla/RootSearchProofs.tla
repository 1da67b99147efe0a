---------------------------- MODULE RootSearchProofs ----------------------------
(***************************************************************************)
(* The list of root moves, for any moves, ranks, scores, depths and number *)
(* of lines: whatever the search leaves in it and whenever it is stopped,  *)
(* no move is lost from it, and a loss at its front is proven or marked.   *)
(*                                                                         *)
(* The second result needs the first one: the last best move has to be in  *)
(* the list to be brought to the front of it.                              *)
(***************************************************************************)
EXTENDS RootSearch, FiniteSetTheorems, SequenceTheorems, TLAPS

USE RootAssumption

N == Len(RootList)
Entries == [move : Moves, score : Int, previous : Int, inexact : BOOLEAN]

\* A list of all root moves.
Complete(list) ==
    /\ list \in Seq(Entries) /\ Len(list) = N
    /\ \A m \in Moves : \E i \in 1 .. N : list[i].move = m

-----------------------------------------------------------------------------
(* Sorting.                                                                *)

\* j comes before i once part is sorted.
Before(part, j, i) == Ahead(part[j], part[i]) \/ (j < i /\ ~Ahead(part[i], part[j]))
Ahead1(part, i) == {j \in DOMAIN part : Before(part, j, i)}
Place(part) == [i \in DOMAIN part |-> 1 + Cardinality(Ahead1(part, i))]

LEMMA SortedByPlace ==
    ASSUME NEW part
    PROVE  SortedPart(part) =
             [k \in DOMAIN part |-> part[CHOOSE i \in DOMAIN part : Place(part)[i] = k]]
BY DEF SortedPart, Place, Ahead1, Before

\* The entries of a list are in a strict order: by score, by the previous
\* score, and those that are equal in both by their index.
LEMMA BeforeIsOrder ==
    ASSUME NEW part \in Seq(Entries), NEW i \in DOMAIN part, NEW j \in DOMAIN part
    PROVE  /\ ~Before(part, i, i)
           /\ i # j => Before(part, i, j) \/ Before(part, j, i)
           /\ \A k \in DOMAIN part :
                 Before(part, k, i) /\ Before(part, i, j) => Before(part, k, j)
<1>1. ASSUME NEW k \in DOMAIN part
      PROVE  k \in Int /\ part[k].score \in Int /\ part[k].previous \in Int
  <2>1. k \in 1 .. Len(part) /\ part[k] \in Entries
    OBVIOUS
  <2> QED
    BY <2>1 DEF Entries
<1> DEFINE sc(k) == part[k].score
           pr(k) == part[k].previous
<1>3. \A k \in DOMAIN part : k \in Int /\ sc(k) \in Int /\ pr(k) \in Int
  BY <1>1
<1>2. ASSUME NEW k \in DOMAIN part, NEW l \in DOMAIN part
      PROVE  Before(part, k, l) <=>
               \/ sc(k) > sc(l)
               \/ sc(k) = sc(l) /\ pr(k) > pr(l)
               \/ sc(k) = sc(l) /\ pr(k) = pr(l) /\ k < l
  <2>1. /\ k \in Int /\ sc(k) \in Int /\ pr(k) \in Int
        /\ l \in Int /\ sc(l) \in Int /\ pr(l) \in Int
    BY <1>3
  <2>2. Before(part, k, l) <=>
          \/ IF sc(k) # sc(l) THEN sc(k) > sc(l) ELSE pr(k) > pr(l)
          \/ k < l /\ ~(IF sc(l) # sc(k) THEN sc(l) > sc(k) ELSE pr(l) > pr(k))
    BY DEF Before, Ahead
  <2> HIDE DEF sc, pr
  <2> QED
    BY <2>1, <2>2, SMTT(60)
<1> HIDE DEF sc, pr
<1>4. ~Before(part, i, i)
  <2>1. i \in Int /\ sc(i) \in Int /\ pr(i) \in Int
    BY <1>3
  <2>2. Before(part, i, i) => sc(i) > sc(i) \/ pr(i) > pr(i) \/ i < i
    BY <1>2
  <2> QED
    BY <2>1, <2>2
<1>5. i # j => Before(part, i, j) \/ Before(part, j, i)
  <2>1. /\ i \in Int /\ sc(i) \in Int /\ pr(i) \in Int
        /\ j \in Int /\ sc(j) \in Int /\ pr(j) \in Int
    BY <1>3
  <2>2. Before(part, i, j) <=>
          \/ sc(i) > sc(j)
          \/ sc(i) = sc(j) /\ pr(i) > pr(j)
          \/ sc(i) = sc(j) /\ pr(i) = pr(j) /\ i < j
    BY <1>2
  <2>3. Before(part, j, i) <=>
          \/ sc(j) > sc(i)
          \/ sc(j) = sc(i) /\ pr(j) > pr(i)
          \/ sc(j) = sc(i) /\ pr(j) = pr(i) /\ j < i
    BY <1>2
  <2> QED
    BY <2>1, <2>2, <2>3, SMTT(40)
<1>6. ASSUME NEW k \in DOMAIN part, Before(part, k, i), Before(part, i, j)
      PROVE  Before(part, k, j)
  <2>1. /\ i \in Int /\ sc(i) \in Int /\ pr(i) \in Int
        /\ j \in Int /\ sc(j) \in Int /\ pr(j) \in Int
        /\ k \in Int /\ sc(k) \in Int /\ pr(k) \in Int
    BY <1>3
  <2>2. \/ sc(k) > sc(i)
        \/ sc(k) = sc(i) /\ pr(k) > pr(i)
        \/ sc(k) = sc(i) /\ pr(k) = pr(i) /\ k < i
    BY <1>2, <1>6
  <2>3. \/ sc(i) > sc(j)
        \/ sc(i) = sc(j) /\ pr(i) > pr(j)
        \/ sc(i) = sc(j) /\ pr(i) = pr(j) /\ i < j
    BY <1>2, <1>6
  <2>4. \/ sc(k) > sc(j)
        \/ sc(k) = sc(j) /\ pr(k) > pr(j)
        \/ sc(k) = sc(j) /\ pr(k) = pr(j) /\ k < j
    BY <2>1, <2>2, <2>3, SMTT(40)
  <2> QED
    BY <1>2, <2>4
<1> QED
  BY <1>4, <1>5, <1>6

\* Every place is taken by one entry.
LEMMA PlacesAreTaken ==
    ASSUME NEW part \in Seq(Entries)
    PROVE  /\ Place(part) \in Injection(DOMAIN part, DOMAIN part)
           /\ Place(part) \in Surjection(DOMAIN part, DOMAIN part)
<1> DEFINE n == Len(part)
           D == DOMAIN part
<1>1. n \in Nat /\ D = 1 .. n /\ IsFiniteSet(D) /\ Cardinality(D) = n
  <2>1. n \in Nat /\ D = 1 .. n
    OBVIOUS
  <2>2. 0 .. n # {} /\ (IF 1 > n THEN 0 ELSE n - 1 + 1) = n
    BY <2>1
  <2> HIDE DEF n, D
  <2> QED
    BY <2>1, <2>2, FS_Interval
<1> HIDE DEF n, D
<1>2. \A i \in D : IsFiniteSet(Ahead1(part, i)) /\ Cardinality(Ahead1(part, i)) \in Nat
  BY <1>1, FS_Subset, FS_CardinalityType DEF Ahead1, D
<1>3. ASSUME NEW i \in D PROVE Place(part)[i] \in D
  <2>1. Ahead1(part, i) \subseteq D /\ i \notin Ahead1(part, i)
    BY <1>3, BeforeIsOrder DEF Ahead1, D
  <2>2. Cardinality(Ahead1(part, i)) <= n /\ Cardinality(Ahead1(part, i)) # n
    BY <1>1, <1>3, <2>1, FS_Subset
  <2> QED
    BY <1>1, <1>2, <1>3, <2>2 DEF Place, D
<1>4. ASSUME NEW i \in D, NEW j \in D, Before(part, i, j)
      PROVE  Place(part)[i] < Place(part)[j]
  <2>1. Ahead1(part, i) \subseteq Ahead1(part, j)
    BY <1>4, BeforeIsOrder DEF Ahead1, D
  <2>2. i \in Ahead1(part, j) /\ i \notin Ahead1(part, i)
    BY <1>4, BeforeIsOrder DEF Ahead1, D
  <2>3. Cardinality(Ahead1(part, i)) < Cardinality(Ahead1(part, j))
    BY <1>2, <2>1, <2>2, FS_Subset
  <2> QED
    BY <1>2, <2>3 DEF Place, D
<1>5. \A i, j \in D : Place(part)[i] = Place(part)[j] => i = j
  <2>1. \A i, j \in D : i # j => Before(part, i, j) \/ Before(part, j, i)
    BY BeforeIsOrder DEF D
  <2>2. \A i \in D : Place(part)[i] \in Int
    BY <1>1, <1>3
  <2> QED
    BY <1>4, <2>1, <2>2
<1>6. DOMAIN Place(part) = D
  BY DEF Place, D
<1>7. Place(part) \in [D -> D]
  <2>1. Place(part) = [i \in D |-> Place(part)[i]]
    BY DEF Place, D
  <2> QED
    BY <1>3, <2>1
<1>8. Place(part) \in Injection(D, D)
  BY <1>5, <1>6, <1>7 DEF Injection, IsInjective
<1> QED
  BY <1>1, <1>8, FS_Injection DEF D

\* A sorted list has the entries of the list, and no others.
LEMMA SortedKeeps ==
    ASSUME NEW part \in Seq(Entries)
    PROVE  /\ SortedPart(part) \in Seq(Entries) /\ Len(SortedPart(part)) = Len(part)
           /\ \A i \in 1 .. Len(part) : \E k \in 1 .. Len(part) : SortedPart(part)[k] = part[i]
<1> DEFINE D == DOMAIN part
           From(k) == CHOOSE i \in D : Place(part)[i] = k
<1>1. SortedPart(part) = [k \in D |-> part[From(k)]]
  BY SortedByPlace
<1>2. D = 1 .. Len(part) /\ Len(part) \in Nat
  OBVIOUS
<1>3. \A k \in D : From(k) \in D
  BY PlacesAreTaken DEF Surjection
<1>4. \A i \in D : Place(part)[i] \in D /\ From(Place(part)[i]) = i
  BY PlacesAreTaken DEF Injection, IsInjective
<1> HIDE DEF From, D
<1>5. \A k \in D : part[From(k)] \in Entries
  BY <1>3 DEF D
<1>6. SortedPart(part) \in [1 .. Len(part) -> Entries]
  BY <1>1, <1>2, <1>5
<1>7. \A i \in D : SortedPart(part)[Place(part)[i]] = part[i]
  BY <1>1, <1>4
<1>8. Len(SortedPart(part)) = Len(part)
  BY <1>2, <1>6
<1>9. SortedPart(part) \in Seq(Entries)
  BY <1>2, <1>6
<1>10. \A i \in D : \E k \in D : SortedPart(part)[k] = part[i]
  BY <1>4, <1>7
<1> QED
  BY <1>2, <1>8, <1>9, <1>10

LEMMA StableSortKeeps ==
    ASSUME NEW list, Complete(list), NEW lo \in Nat, NEW hi \in Nat, lo <= hi, hi <= N
    PROVE  Complete(StableSort(list, lo, hi))
<1> DEFINE front == SubSeq(list, 1, lo)
           part == SubSeq(list, lo + 1, hi)
           back == SubSeq(list, hi + 1, Len(list))
           sorted == SortedPart(part)
           result == front \o sorted \o back
<1>0. N \in Nat /\ list \in Seq(Entries) /\ Len(list) = N
  BY DEF N, Complete
<1>1. /\ front \in Seq(Entries) /\ Len(front) = lo
      /\ \A i \in 1 .. lo : front[i] = list[i]
  BY <1>0
<1>2. /\ part \in Seq(Entries) /\ Len(part) = hi - lo
      /\ \A i \in 1 .. (hi - lo) : part[i] = list[lo + i]
  <2>1. \A i \in 1 .. (hi - lo) : lo + 1 + i - 1 = lo + i
    OBVIOUS
  <2>2. part \in Seq(Entries) /\ Len(part) = hi - lo
    BY <1>0
  <2> QED
    BY <1>0, <2>1, <2>2
<1>3. /\ back \in Seq(Entries) /\ Len(back) = N - hi
      /\ \A i \in 1 .. (N - hi) : back[i] = list[hi + i]
  <2>1. \A i \in 1 .. (N - hi) : hi + 1 + i - 1 = hi + i
    BY <1>0
  <2>2. back \in Seq(Entries) /\ Len(back) = N - hi
    BY <1>0
  <2> QED
    BY <1>0, <2>1, <2>2
<1> HIDE DEF front, part, back
<1>4. /\ sorted \in Seq(Entries) /\ Len(sorted) = hi - lo
      /\ \A i \in 1 .. (hi - lo) : \E k \in 1 .. (hi - lo) : sorted[k] = part[i]
  BY <1>2, SortedKeeps
<1> HIDE DEF sorted
<1>5. /\ result \in Seq(Entries) /\ Len(result) = N
      /\ \A i \in 1 .. lo : result[i] = front[i]
      /\ \A i \in 1 .. (hi - lo) : result[lo + i] = sorted[i]
      /\ \A i \in 1 .. (N - hi) : result[hi + i] = back[i]
  <2> DEFINE both == front \o sorted
  <2>1. /\ both \in Seq(Entries) /\ Len(both) = hi
        /\ \A i \in 1 .. lo : both[i] = front[i]
        /\ \A i \in 1 .. (hi - lo) : both[lo + i] = sorted[i]
    <3>1. lo + (hi - lo) = hi /\ hi - lo \in Nat
      OBVIOUS
    <3>2. both \in Seq(Entries) /\ Len(both) = hi
      <4>1. both \in Seq(Entries) /\ Len(both) = Len(front) + Len(sorted)
        BY <1>1, <1>4, ConcatProperties
      <4> QED
        BY <1>1, <1>4, <3>1, <4>1
    <3>3. \A i \in 1 .. lo : both[i] = front[i]
      BY <1>1, <1>4
    <3>4. ASSUME NEW i \in 1 .. (hi - lo) PROVE both[lo + i] = sorted[i]
      <4>1. lo + i \in 1 .. hi /\ ~(lo + i <= lo) /\ lo + i - lo = i
        BY <3>1
      <4>2. \A j \in 1 .. Len(front) + Len(sorted) :
              both[j] = IF j <= Len(front) THEN front[j] ELSE sorted[j - Len(front)]
        <5>1. front \in Seq(Entries) /\ sorted \in Seq(Entries)
          BY <1>1, <1>4
        <5> QED
          BY <5>1, ConcatProperties, ZenonT(60)
      <4>3. Len(front) = lo /\ Len(front) + Len(sorted) = hi
        BY <1>1, <1>4, <3>1
      <4> HIDE DEF both
      <4> QED
        BY <4>1, <4>2, <4>3
    <3> QED
      BY <3>2, <3>3, <3>4
  <2>2. result = both \o back
    OBVIOUS
  <2> HIDE DEF both, result
  <2>3. /\ result \in Seq(Entries) /\ Len(result) = N
        /\ \A i \in 1 .. hi : result[i] = both[i]
        /\ \A i \in 1 .. (N - hi) : result[hi + i] = back[i]
    BY <1>0, <1>3, <2>1, <2>2, SMTT(40)
  <2>4. \A i \in 1 .. (hi - lo) : lo + i \in 1 .. hi
    OBVIOUS
  <2> QED
    BY <2>1, <2>3, <2>4
<1>6. StableSort(list, lo, hi) = result
  BY DEF StableSort, front, sorted, part, back
<1> HIDE DEF result
<1>7. ASSUME NEW i \in 1 .. N PROVE \E k \in 1 .. N : result[k] = list[i]
  <2>1. CASE i <= lo
    BY <1>0, <1>1, <1>5, <1>7, <2>1
  <2>2. CASE lo < i /\ i <= hi
    <3>1. i - lo \in 1 .. (hi - lo) /\ lo + (i - lo) = i
      BY <1>0, <2>2
    <3>2. part[i - lo] = list[i]
      BY <1>2, <3>1
    <3>3. PICK k \in 1 .. (hi - lo) : sorted[k] = part[i - lo]
      BY <1>4, <3>1
    <3>4. lo + k \in 1 .. N /\ result[lo + k] = sorted[k]
      BY <1>0, <1>5, <3>3
    <3> QED
      BY <3>2, <3>3, <3>4
  <2>3. CASE hi < i
    <3>1. i - hi \in 1 .. (N - hi) /\ hi + (i - hi) = i
      BY <1>0, <2>3
    <3>2. result[hi + (i - hi)] = back[i - hi] /\ back[i - hi] = list[hi + (i - hi)]
      BY <1>3, <1>5, <3>1
    <3> QED
      BY <3>1, <3>2
  <2> QED
    BY <1>0, <2>1, <2>2, <2>3
<1>8. \A m \in Moves : \E i \in 1 .. N : result[i].move = m
  <2> TAKE m \in Moves
  <2>1. PICK i \in 1 .. N : list[i].move = m
    BY DEF Complete
  <2>2. PICK k \in 1 .. N : result[k] = list[i]
    BY <1>7
  <2> QED
    BY <2>1, <2>2
<1> QED
  BY <1>5, <1>6, <1>8 DEF Complete

\* Bringing a move to the front turns the part of the list before it.
LEMMA MoveToFrontKeeps ==
    ASSUME NEW list, Complete(list), NEW m \in Moves
    PROVE  Complete(MoveToFront(list, m)) /\ MoveToFront(list, m)[1].move = m
<1> DEFINE k == CHOOSE i \in DOMAIN list : list[i].move = m
           turned == MoveToFront(list, m)
<1>1. N \in Nat /\ N >= 1 /\ list \in [1 .. N -> Entries] /\ DOMAIN list = 1 .. N
  BY DEF Complete, N
<1>2. k \in 1 .. N /\ list[k].move = m
  BY <1>1 DEF Complete
<1>3. turned = [i \in 1 .. N |-> IF i = 1 THEN list[k] ELSE IF i <= k THEN list[i - 1] ELSE list[i]]
  BY <1>1 DEF MoveToFront
<1> HIDE DEF k, turned
<1>4. turned \in [1 .. N -> Entries]
  <2>1. ASSUME NEW i \in 1 .. N
        PROVE  (IF i = 1 THEN list[k] ELSE IF i <= k THEN list[i - 1] ELSE list[i]) \in Entries
    <3>1. i # 1 => i - 1 \in 1 .. N
      BY <1>1
    <3> QED
      BY <1>1, <1>2, <3>1
  <2> QED
    BY <1>3, <2>1
<1>5. turned \in Seq(Entries) /\ Len(turned) = N
  BY <1>1, <1>4
<1>6. \A i \in 1 .. N : \E j \in 1 .. N : turned[j] = list[i]
  <2> TAKE i \in 1 .. N
  <2>1. CASE i = k
    BY <1>1, <1>3, <2>1
  <2>2. CASE i < k
    <3>1. i + 1 \in 1 .. N /\ i + 1 # 1 /\ i + 1 <= k /\ i + 1 - 1 = i
      BY <1>1, <1>2, <2>2
    <3>2. turned[i + 1] = list[i]
      BY <1>3, <3>1
    <3> QED
      BY <3>1, <3>2
  <2>3. CASE i > k
    BY <1>1, <1>2, <1>3, <2>3
  <2> QED
    BY <1>2, <2>1, <2>2, <2>3
<1>7. \A l \in Moves : \E i \in 1 .. N : turned[i].move = l
  <2> TAKE l \in Moves
  <2>1. PICK i \in 1 .. N : list[i].move = l
    BY DEF Complete
  <2>2. PICK j \in 1 .. N : turned[j] = list[i]
    BY <1>6
  <2> QED
    BY <2>1, <2>2
<1>8. turned[1].move = m
  BY <1>1, <1>2, <1>3
<1>9. Complete(turned)
  BY <1>5, <1>7 DEF Complete
<1> QED
  BY <1>8, <1>9 DEF turned

LEMMA SwappedKeeps ==
    ASSUME NEW list, Complete(list), NEW m \in Moves
    PROVE  Complete(Swapped(list, m))
<1> DEFINE k == CHOOSE i \in DOMAIN list : list[i].move = m
           swapped == Swapped(list, m)
<1>1. N \in Nat /\ N >= 1 /\ list \in [1 .. N -> Entries] /\ DOMAIN list = 1 .. N
  BY DEF Complete, N
<1>2. k \in 1 .. N /\ list[k].move = m
  BY <1>1 DEF Complete
<1>3. swapped = [list EXCEPT ![1] = list[k], ![k] = list[1]]
  BY DEF Swapped
<1> HIDE DEF k, swapped
<1>4. swapped \in [1 .. N -> Entries]
  BY <1>1, <1>2, <1>3
<1>5. swapped \in Seq(Entries) /\ Len(swapped) = N
  BY <1>1, <1>4
<1>6. \A i \in 1 .. N : \E j \in 1 .. N : swapped[j] = list[i]
  <2> TAKE i \in 1 .. N
  <2>1. CASE i = k
    BY <1>1, <1>3, <2>1
  <2>2. CASE i = 1
    BY <1>1, <1>2, <1>3, <2>2
  <2>3. CASE i # 1 /\ i # k
    BY <1>1, <1>3, <2>3
  <2> QED
    BY <2>1, <2>2, <2>3
<1>7. \A l \in Moves : \E i \in 1 .. N : swapped[i].move = l
  <2> TAKE l \in Moves
  <2>1. PICK i \in 1 .. N : list[i].move = l
    BY DEF Complete
  <2>2. PICK j \in 1 .. N : swapped[j] = list[i]
    BY <1>6
  <2> QED
    BY <2>1, <2>2
<1> QED
  BY <1>5, <1>7 DEF Complete, swapped

LEMMA Listed ==
    ASSUME NEW list \in [1 .. N -> Entries]
    PROVE  list \in Seq(Entries) /\ Len(list) = N
<1>1. N \in Nat
  BY DEF N
<1> QED
  BY <1>1

\* What the entries of a list are.
LEMMA EntriesTyped ==
    ASSUME NEW list, Complete(list)
    PROVE  /\ list \in [1 .. N -> Entries] /\ DOMAIN list = 1 .. N
           /\ \A i \in 1 .. N : list[i].move \in Moves /\ list[i].score \in Int
<1>1. list \in [1 .. N -> Entries] /\ DOMAIN list = 1 .. N
  BY DEF Complete
<1>2. \A i \in 1 .. N : list[i] \in Entries
  BY <1>1
<1> QED
  BY <1>1, <1>2 DEF Entries

\* An entry with a field set is an entry of the same move.
WithScore(list, at, score) == [list EXCEPT ![at].score = score]
WithMark(list, at, mark) == [list EXCEPT ![at].inexact = mark]

LEMMA ScoreSet ==
    ASSUME NEW list \in [1 .. N -> Entries], NEW at, NEW score \in Int
    PROVE  /\ WithScore(list, at, score) \in [1 .. N -> Entries]
           /\ \A i \in 1 .. N : WithScore(list, at, score)[i].move = list[i].move
           /\ at \in 1 .. N => WithScore(list, at, score)[at].score = score
<1> DEFINE set == WithScore(list, at, score)
<1>1. ASSUME NEW r \in Entries
      PROVE  LET e == [r EXCEPT !.score = score]
             IN  e \in Entries /\ e.move = r.move /\ e.score = score
  BY DEF Entries
<1>2. set = [list EXCEPT ![at] = [list[at] EXCEPT !.score = score]]
  BY DEF WithScore
<1> HIDE DEF set
<1>3. CASE at \in 1 .. N
  <2>1. /\ set = [list EXCEPT ![at] = set[at]] /\ set[at] \in Entries
        /\ set[at].move = list[at].move /\ set[at].score = score
    BY <1>1, <1>2, <1>3
  <2>2. set \in [1 .. N -> Entries] /\ \A i \in 1 .. N : set[i].move = list[i].move
    BY <1>3, <2>1
  <2> QED
    BY <2>1, <2>2 DEF set
<1>4. CASE at \notin 1 .. N
  <2>1. set = list
    BY <1>2, <1>4
  <2> QED
    BY <1>4, <2>1 DEF set
<1> QED
  BY <1>3, <1>4

LEMMA MarkSet ==
    ASSUME NEW list \in [1 .. N -> Entries], NEW at, NEW mark \in BOOLEAN
    PROVE  /\ WithMark(list, at, mark) \in [1 .. N -> Entries]
           /\ \A i \in 1 .. N : WithMark(list, at, mark)[i].move = list[i].move
           /\ at \in 1 .. N => WithMark(list, at, mark)[at].inexact = mark
<1> DEFINE set == WithMark(list, at, mark)
<1>1. ASSUME NEW r \in Entries
      PROVE  LET e == [r EXCEPT !.inexact = mark]
             IN  e \in Entries /\ e.move = r.move /\ e.inexact = mark
  BY DEF Entries
<1>2. set = [list EXCEPT ![at] = [list[at] EXCEPT !.inexact = mark]]
  BY DEF WithMark
<1> HIDE DEF set
<1>3. CASE at \in 1 .. N
  <2>1. /\ set = [list EXCEPT ![at] = set[at]] /\ set[at] \in Entries
        /\ set[at].move = list[at].move /\ set[at].inexact = mark
    BY <1>1, <1>2, <1>3
  <2>2. set \in [1 .. N -> Entries] /\ \A i \in 1 .. N : set[i].move = list[i].move
    BY <1>3, <2>1
  <2> QED
    BY <2>1, <2>2 DEF set
<1>4. CASE at \notin 1 .. N
  <2>1. set = list
    BY <1>2, <1>4
  <2> QED
    BY <1>4, <2>1 DEF set
<1> QED
  BY <1>3, <1>4

LEMMA MarkKeepsMove ==
    ASSUME NEW list \in [1 .. N -> Entries], NEW at, NEW mark \in BOOLEAN, NEW i \in 1 .. N
    PROVE  WithMark(list, at, mark)[i].move = list[i].move
<1>1. list[i] \in Entries /\ i \in DOMAIN list
  OBVIOUS
<1>2. WithMark(list, at, mark)[i] = IF i = at THEN [list[i] EXCEPT !.inexact = mark] ELSE list[i]
  BY <1>1 DEF WithMark
<1> QED
  BY <1>1, <1>2 DEF Entries

LEMMA ScoreKeepsMove ==
    ASSUME NEW list \in [1 .. N -> Entries], NEW at, NEW score \in Int, NEW i \in 1 .. N
    PROVE  WithScore(list, at, score)[i].move = list[i].move
<1>1. list[i] \in Entries /\ i \in DOMAIN list
  OBVIOUS
<1>2. WithScore(list, at, score)[i] = IF i = at THEN [list[i] EXCEPT !.score = score] ELSE list[i]
  BY <1>1 DEF WithScore
<1> QED
  BY <1>1, <1>2 DEF Entries

\* An entry may get another score and mark, never another move.
LEMMA MarkingKeeps ==
    ASSUME NEW list, Complete(list), NEW changed \in Seq(Entries), Len(changed) = N,
           \A i \in 1 .. N : changed[i].move = list[i].move
    PROVE  Complete(changed)
BY DEF Complete

-----------------------------------------------------------------------------
(* The invariant.                                                          *)

Searching == {"line", "window", "moves", "sort", "settle"}

Counted ==
    /\ rootDepth \in Nat /\ completedDepth \in Nat
    /\ completedDepth <= rootDepth
    /\ phase \in Searching => completedDepth # rootDepth

\* The line being searched lies in the rank being searched.
InRank ==
    /\ pvIdx \in 0 .. N /\ pvFirst \in 0 .. pvIdx /\ pvLast \in pvIdx .. N
    /\ phase \in {"window", "moves", "sort"} => pvIdx < pvLast

Remembers ==
    /\ phase \in Searching \cup {"iterate", "answered"} /\ stop \in BOOLEAN
    /\ lastBest.move \in Moves \cup {NoMove} /\ lastBest.score \in Int
    /\ skillBest \in Moves \cup {NoMove}

Windowed ==
    /\ node \in [left : SUBSET Moves, first : BOOLEAN, best : Int, alpha : Int]
    /\ window \in [alpha : Int, beta : Int, delta : Int]

\* While there may be another iteration, the last best move has the score
\* that a completed one gave it.
LastIsProven ==
    (phase \in Searching \/ (phase = "iterate" /\ ~stop)) /\ lastBest.move # NoMove
      => <<lastBest.move, lastBest.score>> \in proven

IInv == Complete(rootMoves) /\ Counted /\ InRank /\ Remembers /\ Windowed /\ LastIsProven
        /\ LossIsProven

-----------------------------------------------------------------------------
(* Ranks.                                                                  *)

\* The least natural number of which something holds.
LEMMA Least ==
    ASSUME NEW S \in SUBSET Nat, S # {}
    PROVE  \E k \in S : \A i \in 0 .. (k - 1) : i \notin S
<1>1. PICK k \in S : \A i \in S : ~(<<i, k>> \in OpToRel(<, Nat))
  BY NatLessThanWellFounded, WFMin, Zenon
<1>2. \A i \in S : ~(i < k)
  BY <1>1 DEF OpToRel
<1> QED
  BY <1>2

LEMMA RankEnds ==
    ASSUME Complete(rootMoves), NEW first \in 0 .. (N - 1)
    PROVE  EndOfRank(first) \in (first + 1) .. N
<1> DEFINE rank(i) == Rank[rootMoves[i].move]
           Others == {i \in (first + 2) .. N : rank(i) # rank(first + 1)}
           Ends(k) == /\ \A i \in (first + 1) .. k : rank(i) = rank(first + 1)
                      /\ k < N => rank(k + 1) # rank(first + 1)
<1>1. N \in Nat /\ Size = N
  BY DEF Complete, N, Size
<1>2. EndOfRank(first) = CHOOSE k \in (first + 1) .. N : Ends(k)
  BY <1>1 DEF EndOfRank
<1>3. \E k \in (first + 1) .. N : Ends(k)
  <2> HIDE DEF rank
  <2>1. CASE Others = {}
    <3>1. \A i \in (first + 1) .. N : i = first + 1 \/ i \in (first + 2) .. N
      BY <1>1
    <3>2. Ends(N) /\ N \in (first + 1) .. N
      BY <1>1, <2>1, <3>1
    <3> QED
      BY <3>2
  <2>2. CASE Others # {}
    <3>1. Others \in SUBSET Nat
      BY <1>1
    <3>2. PICK j \in Others : \A i \in 0 .. (j - 1) : i \notin Others
      <4> HIDE DEF Others
      <4> QED
        BY <2>2, <3>1, Least
    <3>3. j \in (first + 2) .. N /\ rank(j) # rank(first + 1)
      OBVIOUS
    <3>4. j - 1 \in (first + 1) .. N /\ j - 1 + 1 = j
      BY <1>1, <3>3
    <3>5. ASSUME NEW i \in (first + 1) .. (j - 1) PROVE rank(i) = rank(first + 1)
      <4>1. i = first + 1 \/ (i \in (first + 2) .. N /\ i \in 0 .. (j - 1))
        BY <1>1, <3>3
      <4> QED
        BY <3>2, <4>1
    <3>6. Ends(j - 1)
      BY <3>3, <3>4, <3>5
    <3> QED
      BY <3>4, <3>6
  <2> QED
    BY <2>1, <2>2
<1> HIDE DEF Ends
<1> QED
  BY <1>2, <1>3

-----------------------------------------------------------------------------
(* Steps.                                                                  *)

LEMMA Initially == Init => IInv
<1> SUFFICES ASSUME Init PROVE IInv
  OBVIOUS
<1>1. Complete(rootMoves)
  <2>1. RootList \in [1 .. N -> Moves] /\ N \in Nat /\ DOMAIN RootList = 1 .. N
    BY DEF N
  <2>2. rootMoves = [i \in 1 .. N |-> RootMove(RootList[i])]
    BY <2>1 DEF Init
  <2>3. \A i \in 1 .. N : RootMove(RootList[i]) \in Entries /\ RootMove(RootList[i]).move = RootList[i]
    BY <2>1 DEF RootMove, Entries
  <2>4. rootMoves \in [1 .. N -> Entries] /\ \A i \in 1 .. N : rootMoves[i].move = RootList[i]
    BY <2>2, <2>3
  <2>5. rootMoves \in Seq(Entries) /\ Len(rootMoves) = N
    BY <2>1, <2>4
  <2>6. \A m \in Moves : \E i \in 1 .. N : RootList[i] = m
    BY <2>1 DEF Moves, Range
  <2> QED
    BY <2>4, <2>5, <2>6 DEF Complete
<1>2. Counted /\ InRank /\ Remembers /\ Windowed /\ LastIsProven
  <2>1. N \in Nat
    BY DEF N
  <2>2. Counted
    BY DEF Init, Counted, Searching
  <2>3. InRank
    BY <2>1 DEF Init, InRank
  <2>4. Remembers
    <3>1. lastBest.move = NoMove /\ lastBest.score = -Inf /\ -Inf \in Int
      BY DEF Init
    <3>2. phase = "iterate" /\ stop = FALSE /\ skillBest = NoMove
      BY DEF Init
    <3> QED
      BY <3>1, <3>2 DEF Remembers
  <2>6. Windowed
    BY DEF Init, Windowed, Idle
  <2>5. LastIsProven
    BY DEF Init, LastIsProven
  <2> QED
    BY <2>2, <2>3, <2>4, <2>5, <2>6
<1>3. LossIsProven
  <2>1. rootMoves[1].score = -Inf
    <3>1. 1 \in DOMAIN RootList
      OBVIOUS
    <3> QED
      BY <3>1 DEF Init, RootMove
  <2> QED
    BY <2>1 DEF LossIsProven
<1> QED
  BY <1>1, <1>2, <1>3 DEF IInv

LEMMA WindowedStep == IInv /\ [Next]_vars => Windowed'
<1> SUFFICES ASSUME IInv, [Next]_vars PROVE Windowed'
  OBVIOUS
<1>0. /\ node \in [left : SUBSET Moves, first : BOOLEAN, best : Int, alpha : Int]
      /\ window \in [alpha : Int, beta : Int, delta : Int]
  BY DEF IInv, Windowed
<1>a. Idle \in [left : SUBSET Moves, first : BOOLEAN, best : Int, alpha : Int]
  BY DEF Idle
<1> USE DEF Windowed
<1>1. CASE Iterate \/ Settle \/ Answer \/ RaiseStop \/ RootDone \/ UNCHANGED vars
  BY <1>0, <1>1 DEF Iterate, Settle, Answer, RaiseStop, RootDone, vars
<1>2. CASE StartLine
  <2>1. PICK avg \in Int, delta \in Int : window' = Opened(avg, delta)
    BY <1>2 DEF StartLine
  <2>2. \A a, d \in Int : Opened(a, d) \in [alpha : Int, beta : Int, delta : Int]
    BY DEF Opened, Max2, Min2
  <2>3. node' = node
    BY <1>2 DEF StartLine
  <2> QED
    BY <1>0, <2>1, <2>2, <2>3
<1>3. CASE SearchRoot
  <2>1. {rootMoves[i].move : i \in (pvIdx + 1) .. pvLast} \subseteq Moves
    <3>1. N \in Nat /\ (pvIdx + 1) .. pvLast \subseteq 1 .. N
      BY DEF IInv, InRank, N
    <3> QED
      BY <3>1, EntriesTyped DEF IInv
  <2> QED
    BY <1>0, <1>3, <2>1 DEF SearchRoot
<1>4. CASE RootProbCut \/ RootAborted
  <2>1. window' = window /\ \E value \in Int : Returns(value)
    BY <1>4 DEF RootProbCut, RootAborted
  <2> QED
    BY <1>0, <2>1 DEF Returns
<1>5. CASE SearchRootMove
  <2>1. PICK m \in (IF node.first THEN {rootMoves[pvIdx + 1].move} ELSE node.left),
             value \in Values :
          \/ Returns(Max2(node.best, value))
          \/ node' = [left |-> node.left \ {m}, first |-> FALSE,
                      best |-> Max2(node.best, value), alpha |-> Max2(node.alpha, value)]
    BY <1>5 DEF SearchRootMove
  <2>2. Max2(node.best, value) \in Int /\ Max2(node.alpha, value) \in Int
    BY <1>0 DEF Max2
  <2>3. window' = window
    BY <1>5 DEF SearchRootMove
  <2>4. CASE Returns(Max2(node.best, value))
    BY <1>0, <2>2, <2>3, <2>4 DEF Returns
  <2>5. CASE node' = [left |-> node.left \ {m}, first |-> FALSE,
                      best |-> Max2(node.best, value), alpha |-> Max2(node.alpha, value)]
    BY <1>0, <2>2, <2>3, <2>5
  <2> QED
    BY <2>1, <2>4, <2>5
<1>6. CASE SortAndJudge
  <2>1. node' = Idle
    BY <1>6 DEF SortAndJudge
  <2>2. window' \in {window, Lowered(window, node.best), Raised(window, node.best)}
    BY <1>6 DEF SortAndJudge, FinishLine
  <2>3. {Lowered(window, node.best), Raised(window, node.best)}
          \subseteq [alpha : Int, beta : Int, delta : Int]
    BY <1>0, SMTT(40) DEF Lowered, Raised, Grown, Max2, Min2
  <2> QED
    BY <1>0, <1>a, <2>1, <2>2, <2>3
<1> QED
  BY <1>1, <1>2, <1>3, <1>4, <1>5, <1>6 DEF Next, Step

\* Steps that score no move and settle nothing.
Kept == Complete(rootMoves) /\ Counted /\ InRank /\ Remembers /\ LastIsProven /\ LossIsProven

LEMMA IterateKeeps == IInv /\ Iterate => Kept'
<1> SUFFICES ASSUME IInv, Iterate PROVE Kept'
  OBVIOUS
<1>1. Complete(rootMoves')
  <2>1. /\ N \in Nat /\ Size = N /\ rootMoves \in [1 .. N -> Entries]
        /\ rootMoves' = [i \in 1 .. N |-> [rootMoves[i] EXCEPT !.previous = rootMoves[i].score]]
    BY DEF IInv, Complete, N, Size, Iterate
  <2>2. ASSUME NEW r \in Entries
        PROVE  [r EXCEPT !.previous = r.score] \in Entries /\ [r EXCEPT !.previous = r.score].move = r.move
    BY DEF Entries
  <2>3. rootMoves' \in [1 .. N -> Entries] /\ \A i \in 1 .. N : rootMoves'[i].move = rootMoves[i].move
    BY <2>1, <2>2
  <2>4. rootMoves' \in Seq(Entries) /\ Len(rootMoves') = N
    BY <2>3, Listed
  <2> QED
    BY <2>3, <2>4, MarkingKeeps DEF IInv
<1>2. Counted'
  BY DEF IInv, Counted, Iterate
<1>3. InRank'
  <2>1. N \in Nat
    BY DEF N
  <2> QED
    BY <2>1 DEF InRank, Iterate
<1>4. Remembers' /\ LastIsProven' /\ LossIsProven'
  BY DEF IInv, Remembers, LastIsProven, LossIsProven, Iterate, Searching
<1> QED
  BY <1>1, <1>2, <1>3, <1>4 DEF Kept, IInv

LEMMA StartLineKeeps == IInv /\ StartLine => Kept'
<1> SUFFICES ASSUME IInv, StartLine PROVE Kept'
  OBVIOUS
<1>1. Complete(rootMoves') /\ Counted' /\ Remembers' /\ LastIsProven' /\ LossIsProven'
  BY DEF IInv, Counted, Remembers, LastIsProven, LossIsProven, StartLine, Searching
<1>2. InRank'
  <2>1. N \in Nat /\ Size = N /\ pvIdx \in 0 .. (N - 1) /\ pvIdx \in 0 .. N
        /\ pvFirst \in 0 .. pvIdx /\ pvLast \in pvIdx .. N
    <3>1. N \in Nat /\ Size = N
      BY DEF IInv, Complete, N, Size
    <3>2. Lines <= N /\ Lines \in Int
      BY <3>1 DEF Lines, Min2, Max2
    <3>3. pvIdx < Lines /\ pvIdx \in 0 .. N /\ pvFirst \in 0 .. pvIdx /\ pvLast \in pvIdx .. N
      BY DEF IInv, InRank, StartLine
    <3> QED
      BY <3>1, <3>2, <3>3
  <2>2. CASE pvIdx = pvLast
    <3>1. EndOfRank(pvLast) \in (pvLast + 1) .. N
      BY <2>1, <2>2, RankEnds DEF IInv
    <3> QED
      BY <2>1, <2>2, <3>1 DEF InRank, StartLine
  <2>3. CASE pvIdx # pvLast
    BY <2>1, <2>3 DEF InRank, StartLine
  <2> QED
    BY <2>2, <2>3
<1> QED
  BY <1>1, <1>2 DEF Kept, IInv

LEMMA SearchRootKeeps == IInv /\ SearchRoot => Kept'
<1> SUFFICES ASSUME IInv, SearchRoot PROVE Kept'
  OBVIOUS
<1>1. Complete(rootMoves') /\ Counted' /\ InRank' /\ Remembers' /\ LastIsProven' /\ LossIsProven'
  BY DEF IInv, Counted, InRank, Remembers, LastIsProven, LossIsProven, SearchRoot, Searching
<1> QED
  BY <1>1 DEF Kept

\* The root node ends without a score for a move.
LEMMA RootEndsKeeps == IInv /\ (RootProbCut \/ RootDone \/ RootAborted) => Kept'
<1> SUFFICES ASSUME IInv, RootProbCut \/ RootDone \/ RootAborted PROVE Kept'
  OBVIOUS
<1>1. /\ phase = "moves" /\ phase' = "sort"
      /\ UNCHANGED <<rootMoves, rootDepth, completedDepth, pvIdx, pvFirst, pvLast, lastBest,
                     skillBest, stop, proven>>
  BY DEF RootProbCut, RootDone, RootAborted, Returns
<1> QED
  BY <1>1 DEF Kept, IInv, Counted, InRank, Remembers, LastIsProven, LossIsProven, Searching

LEMMA SearchRootMoveKeeps == IInv /\ SearchRootMove => Kept'
<1> SUFFICES ASSUME IInv, SearchRootMove PROVE Kept'
  OBVIOUS
<1>0. /\ phase = "moves" /\ phase' \in {"moves", "sort"}
      /\ UNCHANGED <<rootDepth, completedDepth, pvIdx, pvFirst, pvLast, lastBest,
                     skillBest, stop, proven>>
  BY DEF SearchRootMove, Returns
<1>1. PICK m \in (IF node.first THEN {rootMoves[pvIdx + 1].move} ELSE node.left),
           value \in Values : rootMoves' = Scored(m, value)
  BY DEF SearchRootMove
<1>2. Complete(rootMoves')
  <2>1. /\ N \in Nat /\ rootMoves \in Seq(Entries) /\ Len(rootMoves) = N
        /\ rootMoves \in [1 .. N -> Entries]
    BY DEF IInv, Complete, N
  <2>2. value \in Int /\ -Inf \in Int
    OBVIOUS
  <2> DEFINE at == IndexOf(m)
             inexact == value >= window.beta \/ value <= node.alpha
  <2>3. \/ rootMoves' = [rootMoves EXCEPT ![at].score = value, ![at].inexact = inexact]
        \/ rootMoves' = [rootMoves EXCEPT ![at].score = -Inf]
    BY <1>1 DEF Scored
  <2>4. inexact \in BOOLEAN
    OBVIOUS
  <2> HIDE DEF at, inexact
  <2>5. rootMoves' \in [1 .. N -> Entries] /\ \A i \in 1 .. N : rootMoves'[i].move = rootMoves[i].move
    <3> DEFINE scored == WithScore(rootMoves, at, value)
    <3>1. scored \in [1 .. N -> Entries] /\ \A i \in 1 .. N : scored[i].move = rootMoves[i].move
      BY <2>1, <2>2, ScoreSet
    <3>2. rootMoves' = WithMark(scored, at, inexact) \/ rootMoves' = WithScore(rootMoves, at, -Inf)
      BY <2>3 DEF WithScore, WithMark
    <3>3. CASE rootMoves' = WithMark(scored, at, inexact)
      <4> HIDE DEF scored
      <4>1. scored \in [1 .. N -> Entries]
        BY <3>1
      <4>2. /\ WithMark(scored, at, inexact) \in [1 .. N -> Entries]
            /\ \A i \in 1 .. N : WithMark(scored, at, inexact)[i].move = scored[i].move
        <5>1. CASE inexact
          <6>1. inexact = TRUE
            BY <5>1
          <6>2. WithMark(scored, at, TRUE) \in [1 .. N -> Entries]
            BY <4>1, MarkSet
          <6>3. \A i \in 1 .. N : WithMark(scored, at, TRUE)[i].move = scored[i].move
            BY <4>1, MarkKeepsMove
          <6> QED
            BY <6>1, <6>2, <6>3, Zenon
        <5>2. CASE ~inexact
          <6>1. inexact = FALSE
            BY <2>4, <5>2
          <6>2. WithMark(scored, at, FALSE) \in [1 .. N -> Entries]
            BY <4>1, MarkSet
          <6>3. \A i \in 1 .. N : WithMark(scored, at, FALSE)[i].move = scored[i].move
            BY <4>1, MarkKeepsMove
          <6> QED
            BY <6>1, <6>2, <6>3, Zenon
        <5> QED
          BY <5>1, <5>2
      <4>3. rootMoves' \in [1 .. N -> Entries] /\ \A i \in 1 .. N : rootMoves'[i].move = scored[i].move
        BY <3>3, <4>2, Zenon
      <4> QED
        BY <3>1, <4>3
    <3>4. CASE rootMoves' = WithScore(rootMoves, at, -Inf)
      BY <2>1, <2>2, <3>4, ScoreSet
    <3> QED
      BY <3>2, <3>3, <3>4
  <2>6. rootMoves' \in Seq(Entries) /\ Len(rootMoves') = N
    BY <2>5, Listed
  <2> QED
    BY <2>5, <2>6, MarkingKeeps DEF IInv
<1> QED
  BY <1>0, <1>1, <1>2 DEF Kept, IInv, Counted, InRank, Remembers, LastIsProven, LossIsProven, Searching

LEMMA SortAndJudgeKeeps == IInv /\ SortAndJudge => Kept'
<1> SUFFICES ASSUME IInv, SortAndJudge PROVE Kept'
  OBVIOUS
<1> DEFINE sorted == StableSort(rootMoves, pvIdx, pvLast)
<1>0. /\ N \in Nat /\ pvIdx \in 0 .. N /\ pvFirst \in 0 .. pvIdx /\ pvLast \in (pvIdx + 1) .. N
  BY DEF IInv, InRank, SortAndJudge, N
<1>1. Complete(sorted)
  <2>1. pvIdx \in Nat /\ pvLast \in Nat /\ pvIdx <= pvLast /\ pvLast <= N
    BY <1>0
  <2> QED
    BY <2>1, StableSortKeeps DEF IInv
<1>2. Complete(StableSort(sorted, pvFirst, pvIdx + 1))
  <2>1. pvFirst \in Nat /\ pvIdx + 1 \in Nat /\ pvFirst <= pvIdx + 1 /\ pvIdx + 1 <= N
    BY <1>0
  <2> HIDE DEF sorted
  <2> QED
    BY <1>1, <2>1, StableSortKeeps
<1> HIDE DEF sorted
<1>3. /\ phase = "sort" /\ node' = Idle
      /\ UNCHANGED <<rootDepth, completedDepth, pvFirst, pvLast, lastBest, skillBest, stop, proven>>
      /\ \/ phase' = "window" /\ rootMoves' = sorted /\ pvIdx' = pvIdx
         \/ /\ rootMoves' = StableSort(sorted, pvFirst, pvIdx + 1)
            /\ \/ phase' = "settle" /\ pvIdx' = pvIdx
               \/ phase' = "line" /\ pvIdx' = pvIdx + 1
  BY DEF SortAndJudge, FinishLine, sorted
<1>4. Complete(rootMoves')
  BY <1>1, <1>2, <1>3
<1>5. InRank'
  BY <1>0, <1>3 DEF InRank
<1>6. Counted' /\ Remembers' /\ LastIsProven' /\ LossIsProven'
  BY <1>3 DEF IInv, Counted, Remembers, LastIsProven, LossIsProven, Searching, Idle
<1> QED
  BY <1>4, <1>5, <1>6 DEF Kept, IInv

\* The move that a stopped iteration brings back to the front is proven with
\* the score it brings.
LEMMA SettleKeeps == IInv /\ Settle => Kept'
<1> SUFFICES ASSUME IInv, Settle PROVE Kept'
  OBVIOUS
<1> DEFINE done == IF stop THEN completedDepth ELSE rootDepth
           list == Settled(done, rootMoves)
           unproven == FrontUnproven(done, rootMoves[1])
<1>0. /\ phase = "settle" /\ phase' = "iterate"
      /\ UNCHANGED <<rootDepth, pvIdx, pvFirst, pvLast, node, stop>>
      /\ completedDepth' = done /\ rootMoves' = list
      /\ lastBest' = IF ~unproven /\ lastBest.move # list[1].move
                     THEN [move |-> list[1].move, score |-> list[1].score] ELSE lastBest
      /\ proven' = IF stop THEN proven ELSE proven \cup {<<list[1].move, list[1].score>>}
      /\ skillBest' \in Pickable(list) \cup {skillBest}
  BY DEF Settle
<1>1. /\ N \in Nat /\ N >= 1 /\ rootMoves \in Seq(Entries) /\ Len(rootMoves) = N
      /\ completedDepth \in Nat /\ rootDepth \in Nat /\ completedDepth # rootDepth
      /\ stop \in BOOLEAN
  BY <1>0 DEF IInv, Complete, N, Counted, Searching, Remembers
<1>2. lastBest.move # NoMove =>
        <<lastBest.move, lastBest.score>> \in proven /\ lastBest.move \in Moves
  BY <1>0 DEF IInv, LastIsProven, Remembers, Searching
<1>3. lastBest.score \in Int
  BY DEF IInv, Remembers
<1> DEFINE front == MoveToFront(rootMoves, lastBest.move)
<1>4. \/ ~unproven /\ list = rootMoves
      \/ unproven /\ lastBest.move # NoMove /\ list = WithScore(front, 1, lastBest.score)
      \/ unproven /\ lastBest.move = NoMove /\ list = WithMark(rootMoves, 1, TRUE)
  BY DEF Settled, WithScore, WithMark
<1>5. lastBest.move # NoMove => Complete(front) /\ front[1].move = lastBest.move
  BY <1>2, MoveToFrontKeeps DEF IInv
<1> HIDE DEF list, front, unproven
<1>6. ASSUME lastBest.move # NoMove, list = WithScore(front, 1, lastBest.score)
       PROVE  /\ list \in [1 .. N -> Entries]
              /\ \A i \in 1 .. N : list[i].move = front[i].move
  <2>1. front \in Seq(Entries) /\ Len(front) = N /\ front \in [1 .. N -> Entries]
    BY <1>5, <1>6 DEF Complete
  <2> QED
    BY <1>3, <1>6, <2>1, ScoreSet
<1>7. Complete(list)
  <2>1. CASE list = rootMoves
    BY <2>1 DEF IInv
  <2>2. CASE lastBest.move # NoMove /\ list = WithScore(front, 1, lastBest.score)
    <3>1. list \in Seq(Entries) /\ Len(list) = N
      BY <1>6, <2>2, Listed
    <3> QED
      BY <1>5, <1>6, <2>2, <3>1, MarkingKeeps
  <2>3. CASE list = WithMark(rootMoves, 1, TRUE)
    <3>1. rootMoves \in [1 .. N -> Entries]
      BY <1>1
    <3>2. list \in [1 .. N -> Entries] /\ \A i \in 1 .. N : list[i].move = rootMoves[i].move
      <4>1. WithMark(rootMoves, 1, TRUE) \in [1 .. N -> Entries]
        BY <3>1, MarkSet
      <4>2. \A i \in 1 .. N : WithMark(rootMoves, 1, TRUE)[i].move = rootMoves[i].move
        BY <3>1, MarkKeepsMove
      <4> QED
        BY <2>3, <4>1, <4>2
    <3>3. list \in Seq(Entries) /\ Len(list) = N
      BY <3>2, Listed
    <3> QED
      BY <3>2, <3>3, MarkingKeeps DEF IInv
  <2> QED
    BY <1>4, <2>1, <2>2, <2>3
<1>8. list[1].move \in Moves /\ list[1].score \in Int
  BY <1>1, <1>7, EntriesTyped
<1>9. Counted' /\ InRank'
  BY <1>0, <1>1 DEF Kept, IInv, Counted, InRank, Searching
<1>10. Remembers'
  <2>1. Pickable(list) \subseteq Moves
    <3>1. Lines <= N /\ Lines \in Int
      <4>1. Size = N
        BY <1>1 DEF Size
      <4> QED
        BY <1>1, <4>1 DEF Lines, Min2, Max2
    <3>2. \A i \in 1 .. N : list[i].move \in Moves
      BY <1>7, EntriesTyped
    <3> QED
      BY <1>1, <3>1, <3>2 DEF Pickable
  <2> QED
    BY <1>0, <1>1, <1>3, <1>8, <2>1 DEF IInv, Remembers
<1>11. LastIsProven'
  <2>1. ~stop => <<list[1].move, list[1].score>> \in proven'
    BY <1>0
  <2>2. lastBest' = lastBest \/ lastBest' = [move |-> list[1].move, score |-> list[1].score]
    BY <1>0
  <2> QED
    BY <1>0, <1>2, <2>1, <2>2 DEF LastIsProven, Searching
<1>12. LossIsProven'
  <2> SUFFICES ASSUME list[1].score # -Inf, IsLoss(list[1].score)
               PROVE  <<list[1].move, list[1].score>> \in proven' \/ list[1].inexact
    BY <1>0 DEF LossIsProven
  <2>1. CASE ~stop
    BY <1>0, <2>1
  <2>2. CASE stop /\ ~unproven
    BY <1>1, <1>4, <2>2 DEF unproven, FrontUnproven
  <2>3. CASE stop /\ unproven /\ lastBest.move # NoMove
    <3>1. front \in [1 .. N -> Entries]
      BY <1>5, <2>3 DEF Complete
    <3>2. list[1].move = lastBest.move /\ list[1].score = lastBest.score
      <4>1. list = WithScore(front, 1, lastBest.score)
        BY <1>4, <2>3, Zenon
      <4>2. 1 \in 1 .. N
        BY <1>1
      <4>3. list[1].score = lastBest.score
        BY <1>3, <3>1, <4>1, <4>2, ScoreSet
      <4>4. list \in [1 .. N -> Entries] /\ \A i \in 1 .. N : list[i].move = front[i].move
        BY <1>6, <2>3, <4>1
      <4> QED
        BY <1>5, <2>3, <4>2, <4>3, <4>4, Zenon
    <3> QED
      BY <1>0, <1>2, <2>3, <3>2
  <2>4. CASE stop /\ unproven /\ lastBest.move = NoMove
    <3>1. rootMoves \in [1 .. N -> Entries]
      BY <1>1
    <3>2. list = WithMark(rootMoves, 1, TRUE) /\ 1 \in 1 .. N
      BY <1>1, <1>4, <2>4
    <3> QED
      BY <3>1, <3>2, MarkSet
  <2> QED
    BY <1>1, <2>1, <2>2, <2>3, <2>4
<1> QED
  BY <1>0, <1>7, <1>9, <1>10, <1>11, <1>12 DEF Kept, IInv

LEMMA AnswerKeeps == IInv /\ Answer => Kept'
<1> SUFFICES ASSUME IInv, Answer PROVE Kept'
  OBVIOUS
<1>1. /\ phase = "iterate" /\ phase' = "answered"
      /\ UNCHANGED <<rootDepth, completedDepth, pvIdx, pvFirst, pvLast, node, lastBest, stop, proven>>
  BY DEF Answer
<1>2. CASE ~Handicap
  <2>1. UNCHANGED <<rootMoves, skillBest>>
    BY <1>2 DEF Answer
  <2> QED
    BY <1>1, <2>1 DEF Kept, IInv, Counted, InRank, Remembers, LastIsProven, LossIsProven, Searching
<1>3. CASE Handicap
  <2>1. PICK m \in (IF skillBest # NoMove THEN {skillBest} ELSE Pickable(rootMoves)) :
          rootMoves' = Swapped(rootMoves, m) /\ skillBest' = m
    BY <1>3 DEF Answer
  <2>2. Pickable(rootMoves) \subseteq Moves
    <3>1. N \in Nat /\ Size = N
      BY DEF IInv, Complete, N, Size
    <3>2. Lines <= N /\ Lines \in Int
      BY <3>1 DEF Lines, Min2, Max2
    <3>3. \A i \in 1 .. N : rootMoves[i].move \in Moves
      BY EntriesTyped DEF IInv
    <3> QED
      BY <3>1, <3>2, <3>3 DEF Pickable
  <2>3. m \in Moves
    BY <2>1, <2>2 DEF IInv, Remembers
  <2>4. Complete(rootMoves')
    BY <2>1, <2>3, SwappedKeeps DEF IInv
  <2>5. LossIsProven'
    BY <1>1, <1>3 DEF LossIsProven, Handicap
  <2> QED
    BY <1>1, <2>1, <2>3, <2>4, <2>5 DEF Kept, IInv, Counted, InRank, Remembers, LastIsProven, Searching
<1> QED
  BY <1>2, <1>3

LEMMA Inductive == IInv /\ [Next]_vars => IInv'
<1> SUFFICES ASSUME IInv, [Next]_vars PROVE IInv'
  OBVIOUS
<1>1. RaiseStop => Kept'
  BY DEF RaiseStop, Kept, IInv, Counted, InRank, Remembers, LastIsProven, LossIsProven
<1>2. UNCHANGED vars => Kept'
  BY DEF vars, Kept, IInv, Counted, InRank, Remembers, LastIsProven, LossIsProven
<1>3. Kept'
  BY <1>1, <1>2, IterateKeeps, StartLineKeeps, SearchRootKeeps, RootEndsKeeps, SearchRootMoveKeeps,
     SortAndJudgeKeeps, SettleKeeps, AnswerKeeps DEF Next, Step
<1> QED
  BY <1>3, WindowedStep DEF Kept, IInv

LEMMA Invariance == Spec => []IInv
BY Initially, Inductive, PTL DEF Spec

\* Whatever the order of scores, sorts, aborted iterations and handicaps, the
\* list stays one of all the root moves, each once.
THEOREM NoRootMoveIsLost ==
    Spec => [](/\ Len(rootMoves) = Len(RootList)
               /\ {rootMoves[i].move : i \in DOMAIN rootMoves} = Moves)
<1>1. IInv => /\ Len(rootMoves) = Len(RootList)
              /\ {rootMoves[i].move : i \in DOMAIN rootMoves} = Moves
  <2> SUFFICES ASSUME Complete(rootMoves)
               PROVE  /\ Len(rootMoves) = Len(RootList)
                      /\ {rootMoves[i].move : i \in DOMAIN rootMoves} = Moves
    BY DEF IInv
  <2>1. DOMAIN rootMoves = 1 .. N /\ \A i \in 1 .. N : rootMoves[i].move \in Moves
    BY EntriesTyped
  <2>2. \A m \in Moves : \E i \in 1 .. N : rootMoves[i].move = m
    BY DEF Complete
  <2>3. Len(rootMoves) = Len(RootList)
    BY DEF Complete, N
  <2> QED
    BY <2>1, <2>2, <2>3
<1> QED
  BY <1>1, Invariance, PTL

\* A loss at the front of the list is one that a completed iteration proved,
\* or is marked as a bound, whenever the search is stopped.
THEOREM LossesAreProven == Spec => []LossIsProven
<1>1. IInv => LossIsProven
  BY DEF IInv
<1> QED
  BY <1>1, Invariance, PTL

=============================================================================
