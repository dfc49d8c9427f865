--------------------------- MODULE AlgorithmProofs ---------------------------
(* The download of a task and the Merkle proof of a slot, for inputs of any  *)
(* size: which slots are chosen, for all finished slots, sizes and orders of *)
(* them, how the answers of the nodes come to a download, and what a proof   *)
(* leads to, for any number of commitments.                                  *)
EXTENDS Collection, Integrity, FiniteSums, SequenceTheorems, TLAPS

-----------------------------------------------------------------------------
(* The binary search over a list of slots in descending order.               *)

Descending(items) ==
    \A i, j \in DOMAIN items : i <= j => Length[items[i]] >= Length[items[j]]

\* One round of the search: its value, given the values of the other rounds.
Halve(items, size, g, range) ==
    LET mid == (range[1] + range[2]) \div 2
    IN  IF range[1] > range[2] THEN range[2]
        ELSE IF Length[items[mid + 1]] >= size THEN g[<<mid + 1, range[2]>>]
        ELSE g[<<range[1], mid - 1>>]

Ranges(items) == (0 .. Len(items)) \X (-1 .. Len(items) - 1)

Searches(items, size, g) == g = [range \in Ranges(items) |-> Halve(items, size, g, range)]

\* BinarySearch unfolds to the function that its recursion chooses.
LEMMA SearchIs ==
    ASSUME NEW items, NEW size
    PROVE  BinarySearch(items, size) =
               (CHOOSE g : Searches(items, size, g))[<<0, Len(items) - 1>>]
  BY DEF BinarySearch, Searches, Halve, Ranges

\* So many of the items, the first ones, are at least so large: counted from 0,
\* all places up to the one found.
UpTo(items, size, k) ==
    \A i \in DOMAIN items : Length[items[i]] >= size <=> i <= k

\* The middle of a range lies in it.
LEMMA Middle ==
    ASSUME NEW l \in Int, NEW r \in Int, l <= r
    PROVE  (l + r) \div 2 \in l .. r
  OBVIOUS

\* The places of a list, counted from 1, and the sizes at them.
LEMMA WholeDomain ==
    ASSUME NEW items \in Seq(Finished)
    PROVE  Len(items) \in Nat /\ DOMAIN items = 1 .. Len(items)
           /\ \A i \in DOMAIN items : items[i] \in Finished /\ Length[items[i]] \in Nat
<1>1. Len(items) \in Nat /\ DOMAIN items = 1 .. Len(items)
      /\ \A i \in DOMAIN items : items[i] \in Finished
  OBVIOUS
<1> QED BY <1>1, CollectionAssumption

\* In a descending list there is such a number.
LEMMA UpToExists ==
    ASSUME NEW items \in Seq(Finished), Descending(items), NEW size \in Int
    PROVE  \E k \in 0 .. Len(items) : UpTo(items, size, k)
<1>0. Len(items) \in Nat /\ DOMAIN items = 1 .. Len(items)
      /\ \A i \in DOMAIN items : Length[items[i]] \in Nat
  BY WholeDomain
<1> SUFFICES ASSUME \A k \in 0 .. Len(items) : ~UpTo(items, size, k) PROVE FALSE
  OBVIOUS
<1> DEFINE B == {T \in SUBSET (1 .. Len(items)) :
                    \E k \in 0 .. Len(items) :
                        T = 1 .. k /\ \A i \in DOMAIN items : Length[items[i]] >= size => i <= k}
<1>1. 1 .. Len(items) \in B
  <2>1. Len(items) \in 0 .. Len(items) /\ \A i \in DOMAIN items : i <= Len(items)
    BY <1>0
  <2> QED BY <2>1
<1>2. IsFiniteSet(1 .. Len(items))
  BY <1>0, FS_Interval
<1>3. PICK T \in B : \A U \in SUBSET T : U # T => U \notin B
  <2>1. B # {} /\ B \subseteq SUBSET (1 .. Len(items))
    BY <1>1
  <2> HIDE DEF B
  <2> QED BY <1>2, <2>1, SmallestSubset
<1>4. PICK k \in 0 .. Len(items) :
          T = 1 .. k /\ \A i \in DOMAIN items : Length[items[i]] >= size => i <= k
  OBVIOUS
<1>5. PICK i \in DOMAIN items : i <= k /\ ~(Length[items[i]] >= size)
  BY <1>4 DEF UpTo
<1>6. ~(Length[items[k]] >= size) /\ k \in 1 .. Len(items)
  <2>1. k \in DOMAIN items /\ i \in Nat /\ i >= 1
    BY <1>0, <1>5
  <2>2. Length[items[i]] >= Length[items[k]]
    BY <1>5, <2>1 DEF Descending
  <2> QED BY <1>0, <1>5, <2>1, <2>2
<1>7. 1 .. (k - 1) \in B
  <2>1. k - 1 \in 0 .. Len(items) /\ 1 .. (k - 1) \in SUBSET (1 .. Len(items))
    BY <1>0, <1>6
  <2>2. \A j \in DOMAIN items : Length[items[j]] >= size => j <= k - 1
    BY <1>0, <1>4, <1>6
  <2> QED BY <2>1, <2>2
<1>8. 1 .. (k - 1) \in SUBSET T /\ 1 .. (k - 1) # T
  BY <1>0, <1>4, <1>6
<1> QED BY <1>3, <1>7, <1>8

\* The value of a round: the place before the first item that is too small, kept
\* within the range.
Found(items, k, range) ==
    IF range[1] > range[2] THEN range[2]
    ELSE IF k - 1 > range[2] THEN range[2]
    ELSE IF k < range[1] THEN range[1] - 1
    ELSE k - 1

\* Below a range everything is found before its first place.
LEMMA AtTheLeft ==
    ASSUME NEW l \in Int, NEW r \in Int, NEW k \in Int, l <= r, k <= l
    PROVE  (IF k - 1 > r THEN r ELSE IF k < l THEN l - 1 ELSE k - 1) = l - 1
  OBVIOUS

\* That value solves the recursion,
LEMMA FoundHalves ==
    ASSUME NEW items \in Seq(Finished), NEW size \in Int,
           NEW k \in 0 .. Len(items), UpTo(items, size, k)
    PROVE  Searches(items, size, [range \in Ranges(items) |-> Found(items, k, range)])
<1> DEFINE g == [range \in Ranges(items) |-> Found(items, k, range)]
<1>0. Len(items) \in Nat /\ DOMAIN items = 1 .. Len(items)
  BY WholeDomain
<1>1. ASSUME NEW range \in Ranges(items) PROVE Found(items, k, range) = Halve(items, size, g, range)
  <2> PICK l, r : l = range[1] /\ r = range[2]
    OBVIOUS
  <2>1. l \in 0 .. Len(items) /\ r \in -1 .. Len(items) - 1
    BY DEF Ranges
  <2>2. CASE l > r
    BY <2>2 DEF Found, Halve
  <2>3. CASE l <= r
    <3> PICK mid : mid = (l + r) \div 2
      OBVIOUS
    <3>1. mid \in l .. r
      BY <2>1, <2>3, Middle
    <3>2. mid + 1 \in 1 .. Len(items)
      BY <1>0, <2>1, <3>1
    <3>3. <<mid + 1, r>> \in Ranges(items) /\ <<l, mid - 1>> \in Ranges(items)
      <4>1. mid + 1 \in 0 .. Len(items) /\ mid - 1 \in -1 .. Len(items) - 1
        <5> HIDE DEF g
        <5> QED BY SMTT(30), <1>0, <2>1, <2>3, <3>1, <3>2
      <4> QED BY <2>1, <4>1 DEF Ranges
    <3>4. /\ g[<<mid + 1, r>>] = IF mid + 1 > r THEN r
                                 ELSE IF k - 1 > r THEN r ELSE IF k < mid + 1 THEN mid ELSE k - 1
          /\ g[<<l, mid - 1>>] = IF l > mid - 1 THEN mid - 1
                                 ELSE IF k - 1 > mid - 1 THEN mid - 1
                                 ELSE IF k < l THEN l - 1 ELSE k - 1
      <4>1. /\ g[<<mid + 1, r>>] = Found(items, k, <<mid + 1, r>>)
            /\ g[<<l, mid - 1>>] = Found(items, k, <<l, mid - 1>>)
        BY <3>3
      <4>2. (mid + 1) - 1 = mid
        BY <1>0, <2>1, <3>1
      <4> HIDE DEF g
      <4> QED BY <4>1, <4>2 DEF Found
    <3>5. Halve(items, size, g, range) =
              IF Length[items[mid + 1]] >= size THEN g[<<mid + 1, r>>] ELSE g[<<l, mid - 1>>]
      <4> HIDE DEF g
      <4> QED BY <2>1, <2>3 DEF Halve
    <3>6. Found(items, k, range) =
              IF k - 1 > r THEN r ELSE IF k < l THEN l - 1 ELSE k - 1
      BY <2>1, <2>3 DEF Found
    <3> HIDE DEF g
    <3>7. CASE mid + 1 <= k
      <4>1. Length[items[mid + 1]] >= size
        BY <1>0, <3>2, <3>7 DEF UpTo
      <4> QED BY SMTT(30), <1>0, <2>1, <3>1, <3>4, <3>5, <3>6, <3>7, <4>1
    <3>8. CASE ~(mid + 1 <= k)
      <4>1. ~(Length[items[mid + 1]] >= size)
        BY <1>0, <3>2, <3>8 DEF UpTo
      <4>2. Halve(items, size, g, range) =
                IF l > mid - 1 THEN mid - 1 ELSE IF k - 1 > mid - 1 THEN mid - 1
                                                 ELSE IF k < l THEN l - 1 ELSE k - 1
        BY <3>4, <3>5, <4>1
      <4>3. l \in Int /\ r \in Int /\ mid \in Int /\ k \in Int /\ l <= mid /\ mid <= r /\ k <= mid
        BY <1>0, <2>1, <3>1, <3>8
      <4> PICK v, w : v = Halve(items, size, g, range) /\ w = Found(items, k, range)
        OBVIOUS
      <4>4. CASE l = mid
        <5>1. v = l - 1
          BY <4>2, <4>3, <4>4
        <5>2. w = l - 1
          <6>1. l \in Int /\ r \in Int /\ k \in Int /\ l <= r /\ k <= l
            BY <2>3, <4>3, <4>4
          <6> QED BY SMTT(30), <3>6, <6>1, AtTheLeft
        <5> QED BY <5>1, <5>2
      <4>5. CASE l < mid
        <5>1. v = IF k < l THEN l - 1 ELSE k - 1
          BY <4>2, <4>3, <4>5
        <5>2. w = IF k < l THEN l - 1 ELSE k - 1
          BY <3>6, <4>3, <4>5
        <5> QED BY <5>1, <5>2
      <4> QED BY <4>3, <4>4, <4>5
    <3> QED BY <3>7, <3>8
  <2> QED BY <2>1, <2>2, <2>3
<1>2. g = [range \in Ranges(items) |-> Halve(items, size, g, range)]
  <2>1. \A range \in Ranges(items) : Found(items, k, range) = Halve(items, size, g, range)
    BY <1>1
  <2> PICK h : h = g
    OBVIOUS
  <2>2. \A range \in Ranges(items) : Found(items, k, range) = Halve(items, size, h, range)
    BY <2>1
  <2>3. h = [range \in Ranges(items) |-> Found(items, k, range)]
    OBVIOUS
  <2> HIDE DEF g
  <2> QED BY <2>2, <2>3
<1> QED BY <1>2 DEF Searches

\* and no other solution there is.
LEMMA OneSearch ==
    ASSUME NEW items \in Seq(Finished), NEW size, NEW g, NEW h,
           Searches(items, size, g), Searches(items, size, h)
    PROVE  g = h
<1>0. Len(items) \in Nat
  BY WholeDomain
<1> SUFFICES ASSUME NEW range \in Ranges(items), g[range] # h[range] PROVE FALSE
  BY DEF Searches
<1> DEFINE B == {T \in SUBSET (0 .. Len(items)) :
                    \E p \in Ranges(items) : T = p[1] .. p[2] /\ g[p] # h[p]}
<1>1. B # {} /\ B \subseteq SUBSET (0 .. Len(items))
  <2>1. range[1] .. range[2] \in SUBSET (0 .. Len(items))
    BY <1>0 DEF Ranges
  <2> QED BY <2>1
<1>2. IsFiniteSet(0 .. Len(items))
  BY <1>0, FS_Interval
<1>3. PICK T \in B : \A U \in SUBSET T : U # T => U \notin B
  <2> HIDE DEF B
  <2> QED BY <1>1, <1>2, SmallestSubset
<1>4. PICK p \in Ranges(items) : T = p[1] .. p[2] /\ g[p] # h[p]
  OBVIOUS
<1> PICK l, r : l = p[1] /\ r = p[2]
  OBVIOUS
<1>5. l \in 0 .. Len(items) /\ r \in -1 .. Len(items) - 1
  BY DEF Ranges
<1>6. g[p] = Halve(items, size, g, p) /\ h[p] = Halve(items, size, h, p)
  BY DEF Searches
<1>7. l <= r
  BY <1>4, <1>5, <1>6 DEF Halve
<1> PICK mid : mid = (l + r) \div 2
  OBVIOUS
<1>8. mid \in l .. r
  BY <1>5, <1>7, Middle
<1>9. <<mid + 1, r>> \in Ranges(items) /\ <<l, mid - 1>> \in Ranges(items)
  <2>1. mid + 1 \in 0 .. Len(items) /\ mid - 1 \in -1 .. Len(items) - 1
    BY <1>0, <1>5, <1>8
  <2> QED BY <1>5, <2>1 DEF Ranges
<1>10. ASSUME NEW q \in Ranges(items), q[1] .. q[2] \in SUBSET T, q[1] .. q[2] # T
       PROVE  g[q] = h[q]
  <2>1. q[1] .. q[2] \in SUBSET (0 .. Len(items))
    BY <1>10
  <2> QED BY <1>3, <1>10, <2>1
<1>11. g[<<mid + 1, r>>] = h[<<mid + 1, r>>]
  <2>1. (mid + 1) .. r \in SUBSET T /\ (mid + 1) .. r # T
    BY <1>0, <1>4, <1>5, <1>7, <1>8
  <2> HIDE DEF B
  <2> QED BY <1>9, <1>10, <2>1
<1>12. g[<<l, mid - 1>>] = h[<<l, mid - 1>>]
  <2>1. l .. (mid - 1) \in SUBSET T /\ l .. (mid - 1) # T
    BY <1>0, <1>4, <1>5, <1>7, <1>8
  <2> HIDE DEF B
  <2> QED BY <1>9, <1>10, <2>1
<1> HIDE DEF B
<1> QED BY <1>4, <1>6, <1>7, <1>11, <1>12 DEF Halve

\* Collector.binarySearch finds the last slot that is not smaller, in every list in
\* descending order and for every size.
LEMMA SearchFinds ==
    ASSUME NEW items \in Seq(Finished), Descending(items), NEW size \in Int
    PROVE  /\ BinarySearch(items, size) + 1 \in 0 .. Len(items)
           /\ BinarySearch(items, size) \in Int
           /\ UpTo(items, size, BinarySearch(items, size) + 1)
<1>0. Len(items) \in Nat
  BY WholeDomain
<1>1. PICK k \in 0 .. Len(items) : UpTo(items, size, k)
  BY UpToExists
<1> DEFINE g == [range \in Ranges(items) |-> Found(items, k, range)]
<1>2. Searches(items, size, g)
  BY <1>1, FoundHalves
<1>3. <<0, Len(items) - 1>> \in Ranges(items)
  <2>1. 0 \in 0 .. Len(items) /\ Len(items) - 1 \in -1 .. Len(items) - 1
    BY <1>0
  <2> QED BY <2>1 DEF Ranges
<1>4. g[<<0, Len(items) - 1>>] = Found(items, k, <<0, Len(items) - 1>>)
  BY <1>3
<1>5. Found(items, k, <<0, Len(items) - 1>>) = k - 1
  BY <1>0 DEF Found
<1> HIDE DEF g
<1>6. Searches(items, size, CHOOSE h : Searches(items, size, h))
  BY <1>2
<1>7. BinarySearch(items, size) = g[<<0, Len(items) - 1>>]
  BY <1>2, <1>6, SearchIs, OneSearch
<1>8. BinarySearch(items, size) = k - 1
  BY <1>4, <1>5, <1>7
<1>9. k \in Int /\ BinarySearch(items, size) + 1 = k
  BY <1>0, <1>8
<1> QED BY <1>1, <1>8, <1>9

-----------------------------------------------------------------------------
(* The order of the slots.                                                   *)

\* The list with a slot put behind its first k ones.
IsPutBehind(items, s, k, after) ==
    /\ after \in Seq(Finished) /\ Len(after) = Len(items) + 1
    /\ \A i \in 1 .. k : after[i] = items[i]
    /\ after[k + 1] = s
    /\ \A i \in (k + 2) .. (Len(items) + 1) : after[i] = items[i - 1]

LEMMA PutBehind ==
    ASSUME NEW items \in Seq(Finished), NEW s \in Finished, NEW k \in 0 .. Len(items)
    PROVE  IsPutBehind(items, s, k, InsertAt(items, k + 1, s))
<1> PICK after : after = InsertAt(items, k + 1, s)
  OBVIOUS
<1>0. Len(items) \in Nat /\ k \in Nat /\ k <= Len(items) /\ (k + 1) - 1 = k
  OBVIOUS
<1> PICK front, back : front = SubSeq(items, 1, k) /\ back = SubSeq(items, k + 1, Len(items))
  OBVIOUS
<1>1. front \in Seq(Finished) /\ Len(front) = k /\ \A i \in 1 .. k : front[i] = items[i]
  BY <1>0, SubSeqProperties
<1>2. /\ back \in Seq(Finished) /\ Len(back) = Len(items) - k
      /\ \A i \in 1 .. Len(items) - k : back[i] = items[k + i]
  BY <1>0, SubSeqProperties
<1>3. <<s>> \in Seq(Finished) /\ Len(<<s>>) = 1 /\ <<s>>[1] = s
  OBVIOUS
<1> PICK mid : mid = front \o <<s>>
  OBVIOUS
<1>4. /\ mid \in Seq(Finished) /\ Len(mid) = k + 1 /\ mid[k + 1] = s
      /\ \A i \in 1 .. k : mid[i] = items[i]
  BY <1>0, <1>1, <1>3, ConcatProperties
<1>5. after = mid \o back
  BY <1>0 DEF InsertAt
<1>6. /\ after \in Seq(Finished) /\ Len(after) = k + 1 + (Len(items) - k)
      /\ \A i \in 1 .. k + 1 + (Len(items) - k) :
             after[i] = IF i <= k + 1 THEN mid[i] ELSE back[i - (k + 1)]
  <2>1. /\ mid \o back \in Seq(Finished) /\ Len(mid \o back) = Len(mid) + Len(back)
        /\ \A i \in 1 .. Len(mid) + Len(back) :
               (mid \o back)[i] = IF i <= Len(mid) THEN mid[i] ELSE back[i - Len(mid)]
    <3>1. mid \in Seq(Finished) /\ back \in Seq(Finished)
      BY <1>2, <1>4
    <3> QED BY ONLY <3>1, ConcatProperties
  <2> QED BY <1>2, <1>4, <1>5, <2>1
<1>7. \A i \in (k + 2) .. (Len(items) + 1) : after[i] = items[i - 1]
  <2> SUFFICES ASSUME NEW i \in (k + 2) .. (Len(items) + 1) PROVE after[i] = items[i - 1]
    OBVIOUS
  <2>1. after[i] = back[i - (k + 1)] /\ i - (k + 1) \in 1 .. Len(items) - k
    <3> PICK n : n = Len(items)
      OBVIOUS
    <3>1. /\ n \in Nat /\ k \in Nat /\ i \in (k + 2) .. (n + 1)
          /\ \A x \in 1 .. k + 1 + (n - k) : after[x] = IF x <= k + 1 THEN mid[x] ELSE back[x - (k + 1)]
      BY <1>0, <1>6
    <3>2. i \in 1 .. k + 1 + (n - k) /\ ~(i <= k + 1) /\ i - (k + 1) \in 1 .. n - k
      BY ONLY n \in Nat, k \in Nat, i \in (k + 2) .. (n + 1)
    <3> QED BY ONLY <3>1, <3>2, n = Len(items)
  <2>2. k + (i - (k + 1)) = i - 1
    BY <1>0
  <2> QED BY <1>2, <2>1, <2>2
<1>8. Len(after) = Len(items) + 1 /\ after[k + 1] = s /\ \A i \in 1 .. k : after[i] = items[i]
  <2> PICK n : n = Len(items)
    OBVIOUS
  <2>1. n \in Nat /\ k \in Nat /\ k <= n /\ k + 1 + (n - k) = n + 1
    BY <1>0
  <2>2. Len(after) = n + 1 /\ \A i \in 1 .. n + 1 : i <= k + 1 => after[i] = mid[i]
    BY <1>6, <2>1
  <2>3. \A i \in 1 .. k + 1 : i \in 1 .. n + 1 /\ i <= k + 1
    BY <2>1
  <2>4. k + 1 \in 1 .. k + 1 /\ \A i \in 1 .. k : i \in 1 .. k + 1
    BY <2>1
  <2>5. \A i \in 1 .. k + 1 : after[i] = mid[i]
    BY <2>2, <2>3
  <2> QED BY <1>4, <2>2, <2>4, <2>5
<1> QED BY <1>6, <1>7, <1>8 DEF IsPutBehind

NoRepeat(items) == \A i, j \in DOMAIN items : items[i] = items[j] => i = j

\* Each slot of a set once, the large ones first.
InOrder(items, S) ==
    /\ items \in Seq(Finished) /\ Descending(items) /\ NoRepeat(items)
    /\ ToSet(items) = S

\* Collector.ProcessSlotUpdate keeps the list in order, and adds the slot to it.
LEMMA UpdateKeepsOrder ==
    ASSUME NEW S, NEW items, InOrder(items, S), NEW s \in Finished \ S
    PROVE  InOrder(ProcessSlotUpdate(items, s), S \cup {s})
<1> PICK after : after = ProcessSlotUpdate(items, s)
  OBVIOUS
<1> USE DEF InOrder
<1>0. Len(items) \in Nat /\ DOMAIN items = 1 .. Len(items)
      /\ \A i \in DOMAIN items : items[i] \in Finished /\ Length[items[i]] \in Nat
  BY WholeDomain
<1>1. Length[s] \in Nat
  BY CollectionAssumption
<1> PICK k : k = BinarySearch(items, Length[s]) + 1
  OBVIOUS
<1>2. k \in 0 .. Len(items) /\ UpTo(items, Length[s], k)
      /\ BinarySearch(items, Length[s]) + 2 = k + 1
  <2> PICK b : b = BinarySearch(items, Length[s])
    OBVIOUS
  <2>1. b + 1 \in 0 .. Len(items) /\ b \in Int /\ UpTo(items, Length[s], b + 1)
    <3>1. Length[s] \in Int
      BY <1>1
    <3> QED BY <3>1, SearchFinds
  <2>2. b + 2 = (b + 1) + 1
    BY <2>1
  <2> QED BY <2>1, <2>2
<1>3. after = InsertAt(items, k + 1, s)
  BY <1>2 DEF ProcessSlotUpdate
<1>4. /\ after \in Seq(Finished) /\ Len(after) = Len(items) + 1
      /\ \A i \in 1 .. k : after[i] = items[i]
      /\ after[k + 1] = s
      /\ \A i \in (k + 2) .. (Len(items) + 1) : after[i] = items[i - 1]
  <2>1. k \in 0 .. Len(items) /\ s \in Finished
    BY <1>2
  <2>2. IsPutBehind(items, s, k, after)
    BY <1>3, <2>1, PutBehind
  <2> QED BY <2>2 DEF IsPutBehind
<1>5. DOMAIN after = 1 .. Len(items) + 1
  BY <1>4
\* Where an item was before.
<1> DEFINE Was(i) == IF i <= k THEN i ELSE i - 1
<1>6. \A i \in DOMAIN after : i # k + 1 => Was(i) \in DOMAIN items /\ after[i] = items[Was(i)]
  BY <1>0, <1>2, <1>4, <1>5
<1>7. Descending(after)
  <2> SUFFICES ASSUME NEW i \in DOMAIN after, NEW j \in DOMAIN after, i <= j
               PROVE  Length[after[i]] >= Length[after[j]]
    BY DEF Descending
  <2>1. CASE i = k + 1 /\ j = k + 1
    BY <1>1, <1>4, <2>1
  <2>2. CASE i = k + 1 /\ j # k + 1
    <3>1. Was(j) \in DOMAIN items /\ ~(Was(j) <= k) /\ after[j] = items[Was(j)]
      BY <1>0, <1>2, <1>5, <1>6, <2>2
    <3>2. ~(Length[items[Was(j)]] >= Length[s]) /\ Length[items[Was(j)]] \in Nat
      <4> HIDE DEF Was
      <4> QED BY <1>0, <1>2, <3>1 DEF UpTo
    <3> HIDE DEF Was
    <3> QED BY <1>1, <1>4, <2>2, <3>1, <3>2
  <2>3. CASE i # k + 1 /\ j = k + 1
    <3>1. Was(i) \in DOMAIN items /\ Was(i) <= k /\ after[i] = items[Was(i)]
      BY <1>0, <1>2, <1>5, <1>6, <2>3
    <3>2. Length[items[Was(i)]] >= Length[s]
      <4> HIDE DEF Was
      <4> QED BY <1>0, <1>2, <3>1 DEF UpTo
    <3> HIDE DEF Was
    <3> QED BY <1>1, <1>4, <2>3, <3>1, <3>2
  <2>4. CASE i # k + 1 /\ j # k + 1
    <3>1. Was(i) <= Was(j)
      BY <1>0, <1>2, <1>5, <2>4
    <3> HIDE DEF Was
    <3> QED BY <1>6, <2>4, <3>1 DEF Descending
  <2> QED BY <2>1, <2>2, <2>3, <2>4
<1>8. NoRepeat(after)
  <2> SUFFICES ASSUME NEW i \in DOMAIN after, NEW j \in DOMAIN after, after[i] = after[j]
               PROVE  i = j
    BY DEF NoRepeat
  <2>1. \A h \in DOMAIN after : after[h] = s => h = k + 1
    <3> HIDE DEF Was
    <3> QED BY <1>6 DEF ToSet
  <2>2. CASE i = k + 1 \/ j = k + 1
    BY <1>4, <2>1, <2>2
  <2>3. CASE i # k + 1 /\ j # k + 1
    <3>1. Was(i) = Was(j)
      <4> HIDE DEF Was
      <4> QED BY <1>6, <2>3 DEF NoRepeat
    <3> QED BY <1>0, <1>2, <1>5, <2>3, <3>1
  <2> QED BY <2>2, <2>3
<1>9. ToSet(after) = ToSet(items) \cup {s}
  <2>1. ASSUME NEW x \in ToSet(after) PROVE x \in ToSet(items) \cup {s}
    <3> HIDE DEF Was
    <3> QED BY <1>4, <1>6 DEF ToSet
  <2>2. ASSUME NEW i \in DOMAIN items PROVE items[i] \in ToSet(after)
    <3>1. CASE i <= k
      <4>1. i \in DOMAIN after /\ after[i] = items[i]
        BY <1>0, <1>2, <1>4, <1>5, <3>1
      <4> QED BY <4>1 DEF ToSet
    <3>2. CASE ~(i <= k)
      <4>1. i + 1 \in (k + 2) .. (Len(items) + 1) /\ (i + 1) - 1 = i /\ i + 1 \in DOMAIN after
        BY <1>0, <1>2, <1>5, <3>2
      <4>2. after[i + 1] = items[i]
        BY <1>4, <4>1
      <4> QED BY <4>1, <4>2 DEF ToSet
    <3> QED BY <3>1, <3>2
  <2>3. s \in ToSet(after)
    <3>1. k + 1 \in DOMAIN after
      BY <1>0, <1>2, <1>5
    <3> QED BY <1>4, <3>1 DEF ToSet
  <2> QED BY <2>1, <2>2, <2>3 DEF ToSet
<1> QED BY <1>4, <1>7, <1>8, <1>9

-----------------------------------------------------------------------------
(* The fold over the rows of the database.                                   *)

\* RecoverCollector puts the last slot of a set of rows into what the others
\* have become: its value is the one solution of this recursion.
PutLast(rows, g, s) == IF s = {} THEN <<>> ELSE ProcessSlotUpdate(g[s \ {Max(s)}], rows[Max(s)])
Collects(rows, D, g) == g = [s \in SUBSET D |-> PutLast(rows, g, s)]

\* RecoverCollector unfolds to the function that its fold chooses.
LEMMA CollectorIs ==
    ASSUME NEW rows
    PROVE  RecoverCollector(rows) =
               (CHOOSE g : Collects(rows, DOMAIN rows, g))[DOMAIN rows]
  BY DEF RecoverCollector, FoldLeft, MapThenFoldSet, Collects, PutLast

\* Finitely many places in a list.
Places(D) == IsFiniteSet(D) /\ D \subseteq Int

\* Some of them have a last one, if there are any.
LEMMA LastPlace ==
    ASSUME NEW D, Places(D)
    PROVE  \A s \in SUBSET D : Places(s) /\ (s # {} => Max(s) \in s)
<1> SUFFICES ASSUME NEW s \in SUBSET D PROVE Places(s) /\ (s # {} => Max(s) \in s)
  OBVIOUS
<1>1. IsFiniteSet(s) /\ s \subseteq Int
  BY FS_Subset DEF Places
<1> QED BY <1>1, MaxIn DEF Places

\* The recursion has one solution at most ...
LEMMA CollectionsAgree ==
    ASSUME NEW rows, NEW D, NEW E, Places(D),
           NEW g, NEW h, Collects(rows, D, g), Collects(rows, E, h)
    PROVE  \A s \in SUBSET (D \cap E) : g[s] = h[s]
<1> SUFFICES ASSUME NEW b \in SUBSET (D \cap E), g[b] # h[b] PROVE FALSE
  OBVIOUS
<1> DEFINE B == {s \in SUBSET (D \cap E) : g[s] # h[s]}
<1>1. IsFiniteSet(D \cap E) /\ B # {} /\ B \subseteq SUBSET (D \cap E)
  BY FS_Subset DEF Places
<1>2. PICK s \in B : \A u \in SUBSET s : u # s => u \notin B
  <2> HIDE DEF B
  <2> QED BY <1>1, SmallestSubset
<1>3. s \in SUBSET D /\ s \in SUBSET E
  OBVIOUS
<1>4. g[s] = PutLast(rows, g, s) /\ h[s] = PutLast(rows, h, s)
  BY <1>3 DEF Collects
<1>5. s # {}
  BY <1>4 DEF PutLast
<1>6. Max(s) \in s
  BY <1>3, <1>5, LastPlace
<1>7. g[s \ {Max(s)}] = h[s \ {Max(s)}]
  BY <1>2, <1>6
<1> QED BY <1>4, <1>7 DEF PutLast

\* ... and it has one.
LEMMA CollectionExists ==
    ASSUME NEW rows, NEW D, Places(D)
    PROVE  \E g : Collects(rows, D, g)
<1> SUFFICES ASSUME ~ \E g : Collects(rows, D, g) PROVE FALSE
  OBVIOUS
<1> DEFINE B == {T \in SUBSET D : ~ \E g : Collects(rows, T, g)}
<1>1. B # {} /\ B \subseteq SUBSET D
  OBVIOUS
<1>2. PICK T \in B : \A U \in SUBSET T : U # T => U \notin B
  <2>1. IsFiniteSet(D)
    BY DEF Places
  <2> HIDE DEF B
  <2> QED BY <1>1, <2>1, SmallestSubset
<1> DEFINE Of(U) == CHOOSE g : Collects(rows, U, g)
           h == [s \in SUBSET T |->
                    IF s = T THEN PutLast(rows, [u \in SUBSET T |-> Of(u)[u]], T) ELSE Of(s)[s]]
<1>3. ASSUME NEW U \in SUBSET T, U # T PROVE Collects(rows, U, Of(U))
  BY <1>2, <1>3
<1>0. \A s \in SUBSET T : Places(s) /\ (s # {} => Max(s) \in s)
  BY LastPlace
<1>4. ASSUME NEW s \in SUBSET T PROVE h[s] = PutLast(rows, h, s)
  <2>1. CASE s = T
    <3>1. h[s] = PutLast(rows, [u \in SUBSET T |-> Of(u)[u]], T)
      BY <2>1
    <3>2. ASSUME T # {} PROVE h[T \ {Max(T)}] = Of(T \ {Max(T)})[T \ {Max(T)}]
      <4>1. Max(T) \in T
        BY <1>0, <3>2
      <4> QED BY <4>1
    <3> HIDE DEF h, Of
    <3> QED BY <2>1, <3>1, <3>2 DEF PutLast
  <2>2. CASE s # T
    <3>1. h[s] = Of(s)[s] /\ Collects(rows, s, Of(s))
      BY <1>3, <2>2
    <3>2. Of(s)[s] = PutLast(rows, Of(s), s)
      <4> HIDE DEF Of
      <4> QED BY <3>1 DEF Collects
    <3>3. ASSUME s # {} PROVE h[s \ {Max(s)}] = Of(s)[s \ {Max(s)}]
      <4> DEFINE u == s \ {Max(s)}
      <4>1. Max(s) \in s
        BY <1>0, <3>3
      <4>2. u \in SUBSET T /\ u # T /\ u \in SUBSET (s \cap u)
        BY <2>2, <4>1
      <4>3. Collects(rows, u, Of(u)) /\ h[u] = Of(u)[u]
        BY <1>3, <4>2
      <4>4. Places(s)
        BY <1>0
      <4> HIDE DEF Of, h, u
      <4>5. Of(s)[u] = Of(u)[u]
        BY <3>1, <4>2, <4>3, <4>4, CollectionsAgree
      <4> QED BY <4>3, <4>5 DEF u
    <3> HIDE DEF h, Of
    <3> QED BY <3>1, <3>2, <3>3 DEF PutLast
  <2> QED BY <2>1, <2>2
<1>5. h = [s \in SUBSET T |-> PutLast(rows, h, s)]
  <2>1. h = [s \in SUBSET T |-> h[s]]
    OBVIOUS
  <2> HIDE DEF h
  <2> QED BY <1>4, <2>1
<1> HIDE DEF h
<1> QED BY <1>2, <1>5 DEF Collects

\* Whatever the order of the rows, the list holds every finished slot once, in
\* descending order.
LEMMA CollectorInOrder ==
    ASSUME NEW rows \in RowOrders
    PROVE  InOrder(RecoverCollector(rows), Finished)
<1> DEFINE N == Cardinality(Finished)
           D == 1 .. N
<1>1. /\ N \in Nat /\ IsFiniteSet(D) /\ Places(D) /\ Cardinality(D) = N
      /\ rows \in [D -> Finished] /\ \A i, j \in D : i # j => rows[i] # rows[j]
      /\ DOMAIN rows = D
  <2>1. N \in Nat
    BY CollectionAssumption, FS_CardinalityType
  <2>2. IsFiniteSet(D) /\ Cardinality(D) = N
    BY <2>1, FS_Interval
  <2>3. rows \in SetToSeqs(Finished)
    BY CollectionAssumption
  <2>4. rows \in [D -> Finished] /\ \A i, j \in D : i # j => rows[i] # rows[j]
    BY <2>3 DEF SetToSeqs
  <2>5. DOMAIN rows = D
    BY <2>4
  <2> QED BY <2>1, <2>2, <2>4, <2>5 DEF Places
<1>2. {rows[i] : i \in D} = Finished
  <2>1. {rows[i] : i \in D} \subseteq Finished
    BY <1>1
  <2>2. rows \in Bijection(D, {rows[i] : i \in D})
    BY <1>1 DEF Bijection, Injection, Surjection, IsInjective
  <2>3. ExistsBijection(D, {rows[i] : i \in D})
    BY <2>2 DEF ExistsBijection
  <2>4. IsFiniteSet({rows[i] : i \in D}) /\ Cardinality({rows[i] : i \in D}) = N
    BY <1>1, <2>3, FS_Bijection
  <2> QED BY <2>1, <2>4, CollectionAssumption, FS_Subset
<1> PICK g : g = CHOOSE h : Collects(rows, D, h)
  OBVIOUS
<1>3. Collects(rows, D, g) /\ RecoverCollector(rows) = g[D]
  BY <1>1, CollectionExists, CollectorIs
<1> HIDE DEF D
<1>4. \A s \in SUBSET D : InOrder(g[s], {rows[i] : i \in s})
  <2> DEFINE B == {s \in SUBSET D : ~InOrder(g[s], {rows[i] : i \in s})}
  <2> SUFFICES ASSUME B # {} PROVE FALSE
    OBVIOUS
  <2>1. PICK s \in B : \A u \in SUBSET s : u # s => u \notin B
    <3>1. B \subseteq SUBSET D
      OBVIOUS
    <3> HIDE DEF B
    <3> QED BY <1>1, <3>1, SmallestSubset
  <2>2. g[s] = PutLast(rows, g, s)
    BY <1>3 DEF Collects
  <2>3. CASE s = {}
    <3>1. g[s] = <<>> /\ {rows[i] : i \in s} = {}
      BY <2>2, <2>3 DEF PutLast
    <3>2. InOrder(<<>>, {})
      BY DEF InOrder, Descending, NoRepeat, ToSet
    <3> QED BY <3>1, <3>2
  <2>4. CASE s # {}
    <3> PICK m : m = Max(s)
      OBVIOUS
    <3>1. m \in s /\ m \in D
      BY <1>1, <2>4, LastPlace
    <3> PICK rest : rest = s \ {m}
      OBVIOUS
    <3>2. InOrder(g[rest], {rows[i] : i \in rest})
      <4>1. rest \in SUBSET s /\ rest # s /\ rest \in SUBSET D
        BY <3>1
      <4> QED BY <2>1, <4>1
    <3>3. g[s] = ProcessSlotUpdate(g[rest], rows[m])
      BY <2>2, <2>4 DEF PutLast
    <3>4. rows[m] \in Finished \ {rows[i] : i \in rest}
      BY <1>1, <3>1
    <3>5. InOrder(g[s], {rows[i] : i \in rest} \cup {rows[m]})
      <4> HIDE DEF B
      <4> QED BY <3>2, <3>3, <3>4, UpdateKeepsOrder
    <3>6. {rows[i] : i \in rest} \cup {rows[m]} = {rows[i] : i \in s}
      BY <3>1
    <3> QED BY <3>5, <3>6
  <2> QED BY <2>3, <2>4
<1> QED BY <1>2, <1>3, <1>4

-----------------------------------------------------------------------------
(* The greedy choice.                                                        *)

Sizes(items) == [i \in DOMAIN items |-> Length[items[i]]]

\* A list has finitely many places, with a size at each one.
LEMMA SizesAre ==
    ASSUME NEW items \in Seq(Finished)
    PROVE  /\ IsFiniteSet(DOMAIN items) /\ Places(DOMAIN items)
           /\ \A i \in DOMAIN items : Sizes(items)[i] \in Nat /\ Sizes(items)[i] = Length[items[i]]
<1>1. Len(items) \in Nat /\ DOMAIN items = 1 .. Len(items)
      /\ \A i \in DOMAIN items : items[i] \in Finished /\ Length[items[i]] \in Nat
  BY WholeDomain
<1>2. IsFiniteSet(1 .. Len(items)) /\ 1 .. Len(items) \subseteq Int
  BY <1>1, FS_Interval
<1> QED BY <1>1, <1>2 DEF Sizes, Places

\* PrefixSize adds the last slot to what the others add up to.
AddLast(q, g, s) == IF s = {} THEN 0 ELSE g[s \ {Max(s)}] + Length[q[Max(s)]]
AddsUp(q, D, g) == g = [s \in SUBSET D |-> AddLast(q, g, s)]

\* PrefixSize unfolds to the function that its fold chooses.
LEMMA PrefixIs ==
    ASSUME NEW items, NEW n
    PROVE  LET q == SubSeq(items, 1, n)
           IN  PrefixSize(items, n) = (CHOOSE g : AddsUp(q, DOMAIN q, g))[DOMAIN q]
  BY DEF PrefixSize, FoldLeft, MapThenFoldSet, AddsUp, AddLast

\* That recursion has one solution at most,
LEMMA AdditionsAgree ==
    ASSUME NEW q, NEW D, Places(D), NEW g, NEW h, AddsUp(q, D, g), AddsUp(q, D, h)
    PROVE  \A s \in SUBSET D : g[s] = h[s]
<1> SUFFICES ASSUME NEW b \in SUBSET D, g[b] # h[b] PROVE FALSE
  OBVIOUS
<1> DEFINE B == {s \in SUBSET D : g[s] # h[s]}
<1>1. IsFiniteSet(D) /\ B # {} /\ B \subseteq SUBSET D
  BY DEF Places
<1>2. PICK s \in B : \A u \in SUBSET s : u # s => u \notin B
  <2> HIDE DEF B
  <2> QED BY <1>1, SmallestSubset
<1>3. g[s] = AddLast(q, g, s) /\ h[s] = AddLast(q, h, s)
  BY DEF AddsUp
<1>4. s # {}
  BY <1>3 DEF AddLast
<1>5. Max(s) \in s
  BY <1>4, LastPlace
<1>6. g[s \ {Max(s)}] = h[s \ {Max(s)}]
  BY <1>2, <1>5
<1> QED BY <1>3, <1>6 DEF AddLast

\* and the sum of the sizes at the first places is one.
LEMMA PrefixIsSum ==
    ASSUME NEW items \in Seq(Finished), NEW n \in 0 .. Len(items)
    PROVE  PrefixSize(items, n) = SumOf(Sizes(items), 1 .. n)
<1> PICK q : q = SubSeq(items, 1, n)
  OBVIOUS
<1> PICK sz : sz = Sizes(items)
  OBVIOUS
<1> DEFINE D == 1 .. n
           h == [s \in SUBSET D |-> SumOf(sz, s)]
<1>0. Len(items) \in Nat /\ DOMAIN items = 1 .. Len(items)
  BY WholeDomain
<1>1. /\ Places(D) /\ D \subseteq DOMAIN items
      /\ \A i \in D : sz[i] \in Nat /\ sz[i] = Length[items[i]]
  <2>1. D \subseteq DOMAIN items
    BY <1>0
  <2>2. Places(DOMAIN items) /\ \A i \in DOMAIN items : sz[i] \in Nat /\ sz[i] = Length[items[i]]
    BY SizesAre
  <2> QED BY <2>1, <2>2, LastPlace
<1>2. DOMAIN q = D /\ \A i \in D : q[i] = items[i]
  BY <1>0, SubSeqProperties
<1> HIDE DEF D
<1>3. ASSUME NEW s \in SUBSET D PROVE h[s] = AddLast(q, h, s)
  <2>1. CASE s = {}
    <3>1. IsFiniteSet(s)
      BY <2>1, FS_EmptySet
    <3>2. SumOf(sz, s) = 0
      BY <2>1, <3>1, SumStep
    <3> QED BY <2>1, <3>2 DEF AddLast
  <2>2. CASE s # {}
    <3> PICK m : m = Max(s)
      OBVIOUS
    <3>1. m \in s /\ IsFiniteSet(s)
      BY <1>1, <2>2, LastPlace DEF Places
    <3>2. SumOf(sz, s) = sz[m] + SumOf(sz, s \ {m}) /\ SumOf(sz, s \ {m}) \in Nat
      <4>1. IsFiniteSet(s \ {m}) /\ \A i \in s : sz[i] \in Nat
        BY <1>1, <3>1, FS_Subset
      <4> QED BY <3>1, <4>1, SumWithout, SumIsNat
    <3>3. sz[m] = Length[q[m]] /\ sz[m] \in Nat
      BY <1>1, <1>2, <3>1
    <3>4. h[s \ {m}] = SumOf(sz, s \ {m}) /\ h[s] = SumOf(sz, s)
      OBVIOUS
    <3>5. AddLast(q, h, s) = h[s \ {m}] + Length[q[m]]
      BY <2>2 DEF AddLast
    <3> PICK a, b : a = sz[m] /\ b = SumOf(sz, s \ {m})
      OBVIOUS
    <3>6. a \in Nat /\ b \in Nat /\ a + b = b + a
      <4>1. a \in Nat
        BY <3>3
      <4>2. b \in Nat
        BY <3>2
      <4>3. a + b = b + a
        BY ONLY <4>1, <4>2
      <4> QED BY <4>1, <4>2, <4>3
    <3>7. h[s] = a + b
      BY <3>2, <3>4
    <3>8. AddLast(q, h, s) = b + a
      BY <3>3, <3>4, <3>5
    <3> QED BY <3>6, <3>7, <3>8
  <2> QED BY <2>1, <2>2
<1>4. AddsUp(q, D, h)
  <2>1. h = [s \in SUBSET D |-> h[s]]
    OBVIOUS
  <2> HIDE DEF h
  <2>2. h = [s \in SUBSET D |-> AddLast(q, h, s)]
    BY <1>3, <2>1
  <2> QED BY <2>2 DEF AddsUp
<1>5. h[D] = SumOf(sz, D)
  OBVIOUS
<1> HIDE DEF h
<1> PICK g : g = CHOOSE c : AddsUp(q, D, c)
  OBVIOUS
<1>6. AddsUp(q, D, g)
  BY <1>4
<1>7. PrefixSize(items, n) = g[D]
  BY <1>2, PrefixIs
<1>8. g[D] = h[D]
  BY <1>1, <1>4, <1>6, AdditionsAgree
<1> QED BY <1>5, <1>7, <1>8 DEF D

\* The slots at some places of a list.
SlotsAt(items, T) == {items[i] : i \in T}

LEMMA AtPlaces ==
    ASSUME NEW items \in Seq(Finished), NoRepeat(items), NEW T \in SUBSET DOMAIN items
    PROVE  /\ IsFiniteSet(T) /\ IsFiniteSet(SlotsAt(items, T))
           /\ Cardinality(SlotsAt(items, T)) = Cardinality(T)
           /\ SlotsAt(items, T) \subseteq Finished
<1>1. IsFiniteSet(T)
  BY SizesAre, FS_Subset
<1> DEFINE f == [i \in T |-> items[i]]
<1>2. f \in [T -> SlotsAt(items, T)] /\ \A i, j \in T : f[i] = f[j] => i = j
  BY DEF SlotsAt, NoRepeat
<1>3. \A x \in SlotsAt(items, T) : \E i \in T : f[i] = x
  BY DEF SlotsAt
<1> HIDE DEF f
<1>4. f \in Bijection(T, SlotsAt(items, T))
  BY <1>2, <1>3 DEF Bijection, Injection, Surjection, IsInjective
<1>5. ExistsBijection(T, SlotsAt(items, T))
  BY <1>4 DEF ExistsBijection
<1>6. SlotsAt(items, T) \subseteq Finished
  BY WholeDomain DEF SlotsAt
<1> QED BY <1>1, <1>5, <1>6, FS_Bijection

\* Their sizes add up the same by place and by slot.
LEMMA SumByPlace ==
    ASSUME NEW items \in Seq(Finished), NoRepeat(items), NEW S \in SUBSET DOMAIN items
    PROVE  SumOf(Length, SlotsAt(items, S)) = SumOf(Sizes(items), S)
<1> SUFFICES ASSUME SumOf(Length, SlotsAt(items, S)) # SumOf(Sizes(items), S) PROVE FALSE
  OBVIOUS
<1> DEFINE B == {T \in SUBSET S : SumOf(Length, SlotsAt(items, T)) # SumOf(Sizes(items), T)}
<1>0. IsFiniteSet(S)
  BY AtPlaces
<1>1. B # {} /\ B \subseteq SUBSET S
  OBVIOUS
<1>2. PICK T \in B : \A U \in SUBSET T : U # T => U \notin B
  <2> HIDE DEF B
  <2> QED BY <1>0, <1>1, SmallestSubset
<1>3. T \in SUBSET DOMAIN items /\ T \in SUBSET S
  OBVIOUS
<1>4. CASE T = {}
  <2>1. SlotsAt(items, T) = {}
    BY <1>4 DEF SlotsAt
  <2>2. IsFiniteSet(T)
    BY <1>3, AtPlaces
  <2>3. SumOf(Length, T) = 0 /\ SumOf(Sizes(items), T) = 0
    BY <1>4, <2>2, SumStep
  <2> QED BY <1>4, <2>1, <2>3
<1>5. CASE T # {}
  <2>1. PICK y \in T : TRUE
    BY <1>5
  <2>2. SlotsAt(items, T) \ {items[y]} = SlotsAt(items, T \ {y}) /\ items[y] \in SlotsAt(items, T)
    BY <1>3, <2>1 DEF SlotsAt, NoRepeat
  <2>3. SumOf(Length, SlotsAt(items, T)) =
            Length[items[y]] + SumOf(Length, SlotsAt(items, T) \ {items[y]})
    <3>1. IsFiniteSet(SlotsAt(items, T)) /\ SlotsAt(items, T) \subseteq Finished
      BY <1>3, AtPlaces
    <3>2. \A x \in SlotsAt(items, T) : Length[x] \in Nat
      BY <3>1, CollectionAssumption
    <3> QED BY <2>2, <3>1, <3>2, SumWithout
  <2>4. SumOf(Sizes(items), T) = Sizes(items)[y] + SumOf(Sizes(items), T \ {y})
    <3>1. IsFiniteSet(T) /\ \A i \in T : Sizes(items)[i] \in Nat
      BY <1>3, AtPlaces, SizesAre
    <3> QED BY <2>1, <3>1, SumWithout
  <2>5. SumOf(Length, SlotsAt(items, T \ {y})) = SumOf(Sizes(items), T \ {y})
    <3>1. T \ {y} \in SUBSET T /\ T \ {y} # T /\ T \ {y} \in SUBSET S
      BY <2>1
    <3> QED BY <1>2, <3>1
  <2>6. Sizes(items)[y] = Length[items[y]]
    BY <1>3, <2>1, SizesAre
  <2>7. SumOf(Length, SlotsAt(items, T)) = SumOf(Sizes(items), T)
    BY <2>2, <2>3, <2>4, <2>5, <2>6
  <2> QED BY <2>7
<1> QED BY <1>4, <1>5

\* As many slots at the front of the list are the largest ones.
LEMMA FrontIsLargest ==
    ASSUME NEW items \in Seq(Finished), Descending(items), NEW S \in SUBSET DOMAIN items
    PROVE  SumOf(Sizes(items), S) <= SumOf(Sizes(items), 1 .. Cardinality(S))
<1> PICK sz : sz = Sizes(items)
  OBVIOUS
<1> SUFFICES ASSUME ~(SumOf(sz, S) <= SumOf(sz, 1 .. Cardinality(S))) PROVE FALSE
  OBVIOUS
<1> DEFINE B == {T \in SUBSET S : ~(SumOf(sz, T) <= SumOf(sz, 1 .. Cardinality(T)))}
<1>0. /\ IsFiniteSet(DOMAIN items) /\ Places(DOMAIN items)
      /\ \A i \in DOMAIN items : sz[i] \in Nat /\ sz[i] = Length[items[i]]
      /\ Len(items) \in Nat /\ DOMAIN items = 1 .. Len(items)
  BY SizesAre, WholeDomain
<1>1. B # {} /\ B \subseteq SUBSET S /\ IsFiniteSet(S)
  BY <1>0, FS_Subset
<1>2. PICK T \in B : \A U \in SUBSET T : U # T => U \notin B
  <2> HIDE DEF B
  <2> QED BY <1>1, SmallestSubset
<1>3. T \in SUBSET DOMAIN items /\ IsFiniteSet(T)
  BY <1>0, FS_Subset
<1> PICK k : k = Cardinality(T)
  OBVIOUS
<1>4. T # {}
  <2> SUFFICES ASSUME T = {} PROVE FALSE
    OBVIOUS
  <2>1. k = 0
    BY FS_EmptySet
  <2>2. 1 .. k = T
    BY <2>1
  <2>3. SumOf(sz, T) = 0
    BY <1>3, SumStep
  <2>4. SumOf(sz, T) <= SumOf(sz, 1 .. k)
    <3>1. SumOf(sz, 1 .. k) = SumOf(sz, T)
      BY <2>2
    <3> PICK a : a = SumOf(sz, T)
      OBVIOUS
    <3>2. a <= a
      BY <2>3
    <3> QED BY <3>1, <3>2
  <2> QED BY <2>4
<1> PICK m : m = Max(T)
  OBVIOUS
<1>5. m \in T /\ \A i \in T : m >= i
  <2>1. T \subseteq Int
    BY <1>0, <1>3 DEF Places
  <2> QED BY <1>3, <1>4, <2>1, MaxIn
<1>6. k \in Nat /\ k <= m /\ k >= 1 /\ m \in 1 .. Len(items)
  <2>1. m \in 1 .. Len(items) /\ T \in SUBSET (1 .. m)
    BY <1>0, <1>3, <1>5
  <2>2. IsFiniteSet(1 .. m) /\ Cardinality(1 .. m) = m
    BY <2>1, FS_Interval
  <2>3. k <= m /\ k \in Nat
    BY <1>3, <2>1, <2>2, FS_Subset, FS_CardinalityType
  <2>4. k # 0
    BY <1>3, <1>4, FS_EmptySet
  <2> QED BY <2>1, <2>3, <2>4
<1>7. Cardinality(T \ {m}) = k - 1 /\ IsFiniteSet(T \ {m})
  BY <1>3, <1>5, FS_RemoveElement
<1>8. SumOf(sz, T \ {m}) <= SumOf(sz, 1 .. (k - 1))
  <2>1. T \ {m} \in SUBSET T /\ T \ {m} # T /\ T \ {m} \in SUBSET S
    BY <1>5
  <2>2. SumOf(sz, T \ {m}) <= SumOf(sz, 1 .. Cardinality(T \ {m}))
    BY <1>2, <2>1
  <2> QED BY <1>7, <2>2
<1>9. SumOf(sz, T) = sz[m] + SumOf(sz, T \ {m}) /\ SumOf(sz, T \ {m}) \in Nat
  <2>1. \A i \in T : sz[i] \in Nat
    BY <1>0, <1>3
  <2> QED BY <1>3, <1>5, <1>7, <2>1, SumWithout, SumIsNat
<1>10. SumOf(sz, 1 .. k) = sz[k] + SumOf(sz, 1 .. (k - 1)) /\ SumOf(sz, 1 .. (k - 1)) \in Nat
  <2>1. (1 .. k) \ {k} = 1 .. (k - 1) /\ k \in 1 .. k /\ 1 .. k \subseteq DOMAIN items
    BY <1>0, <1>6
  <2>2. IsFiniteSet(1 .. k) /\ IsFiniteSet(1 .. (k - 1))
    BY <1>6, FS_Interval
  <2>3. \A i \in 1 .. k : sz[i] \in Nat
    BY <1>0, <2>1
  <2>4. SumOf(sz, 1 .. k) = sz[k] + SumOf(sz, (1 .. k) \ {k})
    <3> PICK V : V = 1 .. k
      OBVIOUS
    <3>1. IsFiniteSet(V) /\ k \in V /\ \A i \in V : sz[i] \in Nat
      BY <2>1, <2>2, <2>3
    <3>2. SumOf(sz, V) = sz[k] + SumOf(sz, V \ {k})
      BY <3>1, SumWithout
    <3> QED BY <3>2
  <2>5. \A i \in 1 .. (k - 1) : sz[i] \in Nat
    BY <1>6, <2>3
  <2> QED BY <2>1, <2>2, <2>4, <2>5, SumIsNat
<1>11. sz[m] <= sz[k] /\ sz[m] \in Nat /\ sz[k] \in Nat
  <2>1. k \in DOMAIN items /\ m \in DOMAIN items
    BY <1>0, <1>6
  <2> QED BY <1>0, <1>6, <2>1 DEF Descending
<1>12. SumOf(sz, T) <= SumOf(sz, 1 .. k)
  <2> PICK a, b, c, d : /\ a = sz[m] /\ b = SumOf(sz, T \ {m})
                        /\ c = sz[k] /\ d = SumOf(sz, 1 .. (k - 1))
    OBVIOUS
  <2>1. a \in Nat /\ b \in Nat /\ c \in Nat /\ d \in Nat /\ a <= c /\ b <= d
    BY <1>8, <1>9, <1>10, <1>11
  <2>2. a + b <= c + d
    BY <2>1
  <2> QED BY <1>9, <1>10, <2>2
<1> QED BY <1>12

\* A set of numbers from 1 that has no gaps.
LEMMA NoGaps ==
    ASSUME NEW n \in Nat, NEW N \in SUBSET (1 .. n), \A i \in N, j \in 1 .. n : j <= i => j \in N
    PROVE  Cardinality(N) \in 0 .. n /\ N = 1 .. Cardinality(N)
<1>1. IsFiniteSet(1 .. n) /\ IsFiniteSet(N)
  <2>1. IsFiniteSet(1 .. n)
    BY FS_Interval
  <2> QED BY <2>1, FS_Subset
<1>2. CASE N = {}
  <2>1. Cardinality(N) = 0
    BY <1>2, FS_EmptySet
  <2> QED BY <1>2, <2>1
<1>3. CASE N # {}
  <2> PICK m : m = Max(N)
    OBVIOUS
  <2>1. m \in N /\ \A i \in N : m >= i
    <3>1. N \subseteq Int
      OBVIOUS
    <3> QED BY <1>1, <1>3, <3>1, MaxIn
  <2>2. N = 1 .. m /\ m \in 1 .. n
    <3>1. m \in 1 .. n
      BY <2>1
    <3>2. \A j \in 1 .. m : j \in 1 .. n /\ j <= m
      BY <3>1
    <3>3. \A j \in 1 .. m : j \in N
      BY <2>1, <3>2
    <3>4. \A j \in N : j \in 1 .. m
      BY <2>1, <3>1
    <3> QED BY <3>1, <3>3, <3>4
  <2>3. Cardinality(1 .. m) = m
    BY <2>2, FS_Interval
  <2> QED BY <2>2, <2>3
<1> QED BY <1>2, <1>3

\* Sums of longer fronts are greater.
LEMMA FrontsGrow ==
    ASSUME NEW items \in Seq(Finished), NEW i \in 0 .. Len(items), NEW j \in 0 .. Len(items),
           i <= j
    PROVE  /\ SumOf(Sizes(items), 1 .. i) \in Nat /\ SumOf(Sizes(items), 1 .. j) \in Nat
           /\ SumOf(Sizes(items), 1 .. i) <= SumOf(Sizes(items), 1 .. j)
<1> PICK S, T : S = 1 .. j /\ T = 1 .. i
  OBVIOUS
<1>0. Len(items) \in Nat /\ DOMAIN items = 1 .. Len(items)
  BY WholeDomain
<1>1. T \in SUBSET S /\ S \subseteq DOMAIN items
  BY <1>0
<1>2. IsFiniteSet(S) /\ IsFiniteSet(T)
  BY <1>1, SizesAre, FS_Subset
<1>3. \A x \in S : Sizes(items)[x] \in Nat
  BY <1>1, SizesAre
<1>4. SumOf(Sizes(items), T) <= SumOf(Sizes(items), S)
  BY <1>1, <1>2, <1>3, SumOfPart
<1>5. \A x \in T : Sizes(items)[x] \in Nat
  BY <1>1, <1>3
<1>6. SumOf(Sizes(items), S) \in Nat /\ SumOf(Sizes(items), T) \in Nat
  BY <1>2, <1>3, <1>5, SumIsNat
<1> QED BY <1>4, <1>6

\* The choice of Collector.ProcessCollect is enough, if there is enough, and no choice
\* of fewer slots is.
Fewest(chosen, size) ==
    IF TotalOf(Finished) < size THEN chosen = Finished
    ELSE /\ TotalOf(chosen) >= size
         /\ \A other \in SUBSET Finished :
                TotalOf(other) >= size => Cardinality(other) >= Cardinality(chosen)

LEMMA ChoiceIsFewest ==
    ASSUME NEW items, InOrder(items, Finished), NEW size \in Int
    PROVE  Fewest(ToSet(ProcessCollect(items, size)), size)
<1> DEFINE FrontSize(n) == SumOf(Sizes(items), 1 .. n)
           N == {n \in DOMAIN items : PrefixSize(items, n - 1) < size}
           m == Cardinality(N)
           chosen == ToSet(ProcessCollect(items, size))
<1>0. /\ items \in Seq(Finished) /\ Descending(items) /\ NoRepeat(items)
      /\ ToSet(items) = Finished
      /\ Len(items) \in Nat /\ DOMAIN items = 1 .. Len(items)
  BY WholeDomain DEF InOrder
<1>1. \A n \in 0 .. Len(items) : PrefixSize(items, n) = FrontSize(n) /\ FrontSize(n) \in Nat
  BY <1>0, PrefixIsSum, FrontsGrow
<1>2. \A i, j \in 0 .. Len(items) : i <= j => FrontSize(i) <= FrontSize(j)
  BY <1>0, FrontsGrow
<1> HIDE DEF FrontSize
<1>3. \A n \in 1 .. Len(items) : n \in N <=> FrontSize(n - 1) < size
  <2> SUFFICES ASSUME NEW n \in 1 .. Len(items) PROVE n \in N <=> FrontSize(n - 1) < size
    OBVIOUS
  <2>1. n - 1 \in 0 .. Len(items)
    BY <1>0
  <2> QED BY <1>0, <1>1, <2>1
<1>4. N \in SUBSET (1 .. Len(items))
  BY <1>0
<1> HIDE DEF N
<1>5. m \in 0 .. Len(items) /\ N = 1 .. m
  <2>1. ASSUME NEW i \in N, NEW j \in 1 .. Len(items), j <= i PROVE j \in N
    <3>1. i - 1 \in 0 .. Len(items) /\ j - 1 \in 0 .. Len(items) /\ j - 1 <= i - 1
      BY <1>0, <1>4, <2>1
    <3>2. FrontSize(j - 1) <= FrontSize(i - 1) /\ FrontSize(i - 1) < size
      BY <1>2, <1>3, <1>4, <3>1
    <3>3. FrontSize(j - 1) \in Int /\ FrontSize(i - 1) \in Int
      BY <1>1, <3>1
    <3>4. FrontSize(j - 1) < size
      <4> PICK a, b : a = FrontSize(j - 1) /\ b = FrontSize(i - 1)
        OBVIOUS
      <4> QED BY <3>2, <3>3
    <3> QED BY <1>3, <3>4
  <2> QED BY <1>0, <1>4, <2>1, NoGaps
<1>6. ProcessCollect(items, size) = SubSeq(items, 1, m)
  BY DEF ProcessCollect, N
<1> HIDE DEF m
<1>15. Len(items) \in 0 .. Len(items)
  BY <1>0
<1>14. m \in Nat /\ m <= Len(items) /\ (m # Len(items) =>
           m + 1 \in 1 .. Len(items) /\ (m + 1) - 1 = m /\ m + 1 \notin N)
  <2> PICK n : n = Len(items)
    OBVIOUS
  <2>1. m \in Nat /\ m <= n /\ n \in Nat
    BY <1>0, <1>5
  <2>2. m + 1 \notin 1 .. m /\ (m + 1) - 1 = m
    BY <2>1
  <2>3. m # n => m + 1 \in 1 .. n
    BY <2>1
  <2> QED BY <1>5, <2>1, <2>2, <2>3
<1>7. chosen = SlotsAt(items, 1 .. m) /\ 1 .. m \in SUBSET DOMAIN items
  <2> PICK list : list = SubSeq(items, 1, m)
    OBVIOUS
  <2>1. DOMAIN list = 1 .. m /\ \A i \in 1 .. m : list[i] = items[i]
    BY <1>0, <1>5, SubSeqProperties
  <2>2. ToSet(list) = SlotsAt(items, 1 .. m)
    BY <2>1 DEF ToSet, SlotsAt
  <2> QED BY <1>0, <1>5, <1>6, <2>2
<1>8. SlotsAt(items, DOMAIN items) = Finished
  BY <1>0 DEF SlotsAt, ToSet
<1>9. ASSUME NEW T \in SUBSET DOMAIN items
      PROVE  TotalOf(SlotsAt(items, T)) = SumOf(Sizes(items), T)
  <2>1. TotalOf(SlotsAt(items, T)) = SumOf(Length, SlotsAt(items, T))
    BY DEF TotalOf, SumOf
  <2> QED BY <1>0, <2>1, SumByPlace
<1>10. TotalOf(Finished) = FrontSize(Len(items)) /\ TotalOf(chosen) = FrontSize(m)
  <2>1. TotalOf(Finished) = SumOf(Sizes(items), DOMAIN items)
    BY <1>8, <1>9
  <2>2. TotalOf(chosen) = SumOf(Sizes(items), 1 .. m)
    BY <1>7, <1>9
  <2> QED BY <1>0, <2>1, <2>2 DEF FrontSize
<1>11. Cardinality(chosen) = m
  <2>1. Cardinality(SlotsAt(items, 1 .. m)) = Cardinality(1 .. m)
    BY <1>0, <1>7, AtPlaces
  <2>2. Cardinality(1 .. m) = m
    BY <1>0, <1>5, FS_Interval
  <2> QED BY <1>7, <2>1, <2>2
<1> HIDE DEF chosen
<1>12. CASE TotalOf(Finished) < size
  <2>1. FrontSize(Len(items)) < size
    BY <1>10, <1>12
  <2>2. m = Len(items)
    <3> SUFFICES ASSUME m # Len(items) PROVE FALSE
      OBVIOUS
    <3>1. m + 1 \in 1 .. Len(items) /\ (m + 1) - 1 = m /\ m + 1 \notin N
      BY <1>14
    <3>2. ~(FrontSize(m) < size)
      BY <1>3, <3>1
    <3>3. FrontSize(m) <= FrontSize(Len(items))
      <4>1. m \in 0 .. Len(items) /\ Len(items) \in 0 .. Len(items)
        BY <1>5, <1>15
      <4> QED BY <1>2, <1>14, <4>1
    <3>4. FrontSize(m) \in Int /\ FrontSize(Len(items)) \in Int
      <4>1. m \in 0 .. Len(items) /\ Len(items) \in 0 .. Len(items)
        BY <1>5, <1>15
      <4>2. FrontSize(m) \in Nat /\ FrontSize(Len(items)) \in Nat
        BY <1>1, <4>1
      <4> QED BY <4>2
    <3> PICK a, b : a = FrontSize(m) /\ b = FrontSize(Len(items))
      OBVIOUS
    <3> QED BY <2>1, <3>2, <3>3, <3>4
  <2>3. chosen = Finished
    BY <1>0, <1>7, <1>8, <2>2
  <2> QED BY <1>12, <2>3 DEF Fewest, chosen
<1>13. CASE ~(TotalOf(Finished) < size)
  <2>1. ~(FrontSize(Len(items)) < size)
    BY <1>10, <1>13
  <2>2. ~(FrontSize(m) < size)
    <3>1. CASE m = Len(items)
      BY <2>1, <3>1
    <3>2. CASE m # Len(items)
      <4>1. m + 1 \in 1 .. Len(items) /\ (m + 1) - 1 = m /\ m + 1 \notin N
        BY <1>14, <3>2
      <4> QED BY <1>3, <4>1
    <3> QED BY <3>1, <3>2
  <2>3. TotalOf(chosen) >= size
    <3> PICK a : a = FrontSize(m)
      OBVIOUS
    <3>1. a \in Int /\ ~(a < size)
      BY <1>0, <1>1, <1>5, <2>2
    <3>2. a >= size
      BY <3>1
    <3> QED BY <1>10, <3>2
  <2>4. ASSUME NEW other \in SUBSET Finished, TotalOf(other) >= size,
               ~(Cardinality(other) >= Cardinality(chosen))
        PROVE  FALSE
    <3> PICK T : T = {i \in DOMAIN items : items[i] \in other}
      OBVIOUS
    <3>1. T \in SUBSET DOMAIN items /\ SlotsAt(items, T) = other
      BY <1>0 DEF SlotsAt, ToSet
    <3> PICK k : k = Cardinality(T)
      OBVIOUS
    <3>2. k = Cardinality(other) /\ k \in Nat
      BY <1>0, <3>1, AtPlaces, FS_CardinalityType
    <3>3. SumOf(Sizes(items), T) <= FrontSize(k)
      BY <1>0, <3>1, FrontIsLargest DEF FrontSize
    <3>4. k < m /\ m \in N /\ m \in 1 .. Len(items)
      BY <1>0, <1>5, <1>11, <2>4, <3>2
    <3>5. FrontSize(m - 1) < size
      BY <1>3, <3>4
    <3>6. FrontSize(k) <= FrontSize(m - 1) /\ FrontSize(k) \in Nat /\ FrontSize(m - 1) \in Nat
      <4>1. k \in 0 .. Len(items) /\ m - 1 \in 0 .. Len(items) /\ k <= m - 1
        BY <1>0, <3>2, <3>4
      <4> QED BY <1>1, <1>2, <4>1
    <3>7. SumOf(Sizes(items), T) >= size /\ SumOf(Sizes(items), T) \in Nat
      <4>1. TotalOf(other) = SumOf(Sizes(items), T)
        BY <1>9, <3>1
      <4>2. IsFiniteSet(T) /\ \A i \in T : Sizes(items)[i] \in Nat
        BY <1>0, <3>1, AtPlaces, SizesAre
      <4> QED BY <2>4, <4>1, <4>2, SumIsNat
    <3> PICK a, b, c : a = SumOf(Sizes(items), T) /\ b = FrontSize(k) /\ c = FrontSize(m - 1)
      OBVIOUS
    <3> QED BY <3>3, <3>5, <3>6, <3>7
  <2> QED BY <1>13, <2>3, <2>4 DEF Fewest, chosen
<1> QED BY <1>12, <1>13 DEF chosen

-----------------------------------------------------------------------------
(* The choice of every download.                                             *)

ChoiceOf(inst) ==
    /\ inst.asked \in Asks
    /\ \E rows \in RowOrders : inst.slots = ProcessCollect(RecoverCollector(rows), inst.asked)

\* A download has the choice it was begun with.
ChoiceInv ==
    /\ DOMAIN instance = Download
    /\ \A d \in Download : instance[d].pc # "none" => ChoiceOf(instance[d])

\* What an instance does changes none of its choice.
LEMMA ChoiceKept ==
    ASSUME ChoiceInv, DOMAIN instance' = Download,
           \A d \in Download : /\ instance'[d].asked = instance[d].asked
                               /\ instance'[d].slots = instance[d].slots
                               /\ instance[d].pc = "none" => instance'[d].pc = "none"
    PROVE  ChoiceInv'
  BY DEF ChoiceInv, ChoiceOf

\* Collector.go promises "the least number of files": the greedy choice after the binary
\* insertion keeps it for every set of finished slots with their sizes, every order the
\* database returns them in and every size asked for.
THEOREM ChoicesAreFewest == CollectionSpec => []FewestSlotsChosen
<1>1. CollectionInit => ChoiceInv
  BY DEF CollectionInit, ChoiceInv, NoInstance
<1>2. ChoiceInv /\ [CollectionNext]_collectionVars => ChoiceInv'
  <2> SUFFICES ASSUME ChoiceInv, [CollectionNext]_collectionVars PROVE ChoiceInv'
    OBVIOUS
  <2>0. DOMAIN instance = Download
    BY DEF ChoiceInv
  <2>1. ASSUME NEW d \in Download, NEW rows \in RowOrders, NEW size \in Asks,
               Begin(d, rows, size)
        PROVE  ChoiceInv'
    <3>1. /\ DOMAIN instance' = Download
          /\ \A e \in Download \ {d} : instance'[e] = instance[e]
      BY <2>0, <2>1 DEF Begin
    <3>2. ChoiceOf(instance'[d])
      BY <2>0, <2>1 DEF Begin, ChoiceOf
    <3> QED BY <3>1, <3>2 DEF ChoiceInv
  <2>2. CASE UNCHANGED instance
    BY <2>0, <2>2, ChoiceKept
  <2>3. ASSUME NEW d \in Download, InstanceStep(d) PROVE ChoiceInv'
    <3>1. CASE Request(d)
      BY <2>0, <3>1, ChoiceKept DEF Request
    <3>2. CASE TakeResponse(d)
      BY <2>0, <3>2, ChoiceKept DEF TakeResponse
    <3>3. CASE Recover(d)
      BY <2>0, <3>3, ChoiceKept DEF Recover
    <3>4. CASE ReadFile(d)
      BY <2>0, <3>4, ChoiceKept DEF ReadFile
    <3> QED BY <2>3, <3>1, <3>2, <3>3, <3>4 DEF InstanceStep
  <2>4. ASSUME NEW n \in Address, CallStep(n) PROVE UNCHANGED instance
    BY <2>4 DEF CallStep, Answer, NoAnswer
  <2>5. CASE SendCollect
    BY <2>2, <2>5 DEF SendCollect, TakeRequest, EndRequest
  <2>6. CASE UNCHANGED collectionVars
    BY <2>2, <2>6 DEF collectionVars
  <2> QED BY <2>1, <2>2, <2>3, <2>4, <2>5, <2>6 DEF CollectionNext
<1>3. ChoiceInv => FewestSlotsChosen
  <2> SUFFICES ASSUME ChoiceInv, NEW d \in Download, instance[d].pc # "none"
               PROVE  Fewest(ToSet(instance[d].slots), instance[d].asked)
    BY DEF FewestSlotsChosen, Fewest
  <2>1. PICK rows \in RowOrders :
            instance[d].slots = ProcessCollect(RecoverCollector(rows), instance[d].asked)
    BY DEF ChoiceInv, ChoiceOf
  <2>2. instance[d].asked \in Int
    BY CollectionAssumption DEF ChoiceInv, ChoiceOf
  <2> QED BY <2>1, <2>2, CollectorInOrder, ChoiceIsFewest
<1> QED BY <1>1, <1>2, <1>3, PTL DEF CollectionSpec

-----------------------------------------------------------------------------
(* The answers to a download.                                                *)

\* The nodes its current request is still open at, and its requests in the queue.
OpenAt(d) == IF collectCall.of = d THEN collectCall.open ELSE {}
IsQueued(d) == \E s \in Finished : <<d, s>> \in ToSet(slotCollectChannel)

\* The responses it has, or may yet have, to its current request.
MayCome(d) ==
    IF IsQueued(d) THEN NumExpectedResponses(Current(d))
    ELSE instance[d].got + Len(answers[d]) + Cardinality(OpenAt(d))

\* The instance uses one channel for all its slots, "since we also receive one by
\* one" (instance.go:58): what comes in is an answer to the slot it waits for, from
\* a node that slot was asked for at, and nothing comes in while it does not wait.
AnswersFindTheirSlot ==
    \A d \in Download : \A k \in DOMAIN answers[d] :
        /\ instance[d].pc = "wait"
        /\ \E n \in Targets(Current(d)) \cap Address : answers[d][k] = Stored[Current(d)][n]

\* A download waits for more responses than may come exactly if one of its calls
\* gave no answer: one lost call, of a node that is not needed as well, makes it
\* wait for ever, and nothing else does.
HangsIffCallFailed ==
    \A d \in Download :
        d \in callFailed <=> /\ instance[d].pc = "wait"
                             /\ MayCome(d) < NumExpectedResponses(Current(d))

\* An instance has the fields of NoInstance.
IsInstance(inst) ==
    /\ inst = [pc |-> inst.pc, asked |-> inst.asked, slots |-> inst.slots,
               next |-> inst.next, got |-> inst.got, chunks |-> inst.chunks]
    /\ inst.pc \in {"none", "send", "wait", "write", "closed", "panicked"}
    /\ inst.slots \in Seq(Finished) /\ inst.next \in Nat \ {0} /\ inst.got \in Nat

Responses == {Stored[s][n] : s \in Finished, n \in Address}
MayAnswer(s) == {Stored[s][n] : n \in Targets(s) \cap Address}

\* Nothing is on its way to a download,
AtRest(d) ==
    /\ answers[d] = <<>> /\ OpenAt(d) = {} /\ ~ IsQueued(d) /\ d \notin callFailed

\* or its request is in the queue,
InQueue(d) ==
    /\ <<d, Current(d)>> \in ToSet(slotCollectChannel)
    /\ instance[d].got = 0 /\ answers[d] = <<>> /\ OpenAt(d) = {} /\ d \notin callFailed

\* or was taken: as many responses as are expected came in or are open, less if a
\* call failed.
Taken(d) ==
    LET s == Current(d)
        mayCome == instance[d].got + Len(answers[d]) + Cardinality(OpenAt(d))
    IN  /\ ~ IsQueued(d)
        /\ OpenAt(d) # {} => collectCall.slot = s
        /\ OpenAt(d) \subseteq Targets(s) \cap Address
        /\ \A k \in DOMAIN answers[d] : answers[d][k] \in MayAnswer(s)
        /\ instance[d].got < NumExpectedResponses(s)
        /\ IF d \in callFailed THEN mayCome < NumExpectedResponses(s)
           ELSE mayCome = NumExpectedResponses(s)

Served(d) ==
    IF instance[d].pc = "wait"
    THEN /\ instance[d].next <= Len(instance[d].slots)
         /\ InQueue(d) \/ Taken(d)
    ELSE AtRest(d)

DownloadTypes ==
    /\ DOMAIN instance = Download /\ \A d \in Download : IsInstance(instance[d])
    /\ answers \in [Download -> Seq(Responses)]
    /\ slotCollectChannel \in Seq(Download \X Finished)
    /\ collectCall \in [of : Download, slot : Finished, open : SUBSET Address] \cup {NoCall}
    /\ callFailed \subseteq Download

\* A download has one request in the queue.
OneRequestEach ==
    \A j, k \in DOMAIN slotCollectChannel :
        slotCollectChannel[j][1] = slotCollectChannel[k][1] => j = k

DownloadInv ==
    DownloadTypes /\ OneRequestEach /\ \A d \in Download : Served(d)

LEMMA ExpectedFacts ==
    ASSUME NEW s \in Finished
    PROVE  /\ NumExpectedResponses(s) \in Nat \ {0}
           /\ IsFiniteSet(Targets(s) \cap Address)
           /\ Cardinality(Targets(s) \cap Address) \in Nat
           /\ Targets(s) \subseteq Address =>
                  Cardinality(Targets(s) \cap Address) = NumExpectedResponses(s)
           /\ ~ (Targets(s) \subseteq Address) =>
                  Cardinality(Targets(s) \cap Address) < NumExpectedResponses(s)
<1>1. /\ IsFiniteSet(Address) /\ Address # {} /\ Cardinality(Address) \in Nat
      /\ Cardinality(Address) # 0 /\ IsFiniteSet(Targets(s) \cap Address)
  BY CollectionAssumption, FS_CardinalityType, FS_EmptySet, FS_Intersection
<1>2. CASE StoreMethod[s] = 1
  <2>1. Targets(s) = {NodeOf[s]} /\ NumExpectedResponses(s) = 1
    BY <1>2 DEF Targets, NumExpectedResponses
  <2>2. CASE NodeOf[s] \in Address
    <3>1. Targets(s) \cap Address = {NodeOf[s]}
      BY <2>1, <2>2
    <3>2. Cardinality({NodeOf[s]}) = 1
      BY FS_Singleton
    <3> QED BY <1>1, <2>1, <2>2, <3>1, <3>2
  <2>3. CASE NodeOf[s] \notin Address
    <3>1. Targets(s) \cap Address = {}
      BY <2>1, <2>3
    <3> QED BY <1>1, <2>1, <2>3, <3>1, FS_EmptySet
  <2> QED BY <2>2, <2>3
<1>3. CASE StoreMethod[s] # 1
  <2>1. Targets(s) = Address /\ NumExpectedResponses(s) = Cardinality(Address)
    BY <1>3 DEF Targets, NumExpectedResponses
  <2>2. Targets(s) \cap Address = Address
    BY <2>1
  <2> QED BY <1>1, <2>1, <2>2
<1> QED BY <1>2, <1>3

\* The set of the requests in the queue, when one is added,
LEMMA SetAppended ==
    ASSUME NEW S, NEW q \in Seq(S), NEW x \in S
    PROVE  ToSet(Append(q, x)) = ToSet(q) \cup {x}
<1>1. /\ Append(q, x) \in Seq(S) /\ Len(Append(q, x)) = Len(q) + 1 /\ Len(q) \in Nat
      /\ DOMAIN q = 1 .. Len(q) /\ DOMAIN Append(q, x) = 1 .. Len(q) + 1
      /\ \A k \in 1 .. Len(q) : Append(q, x)[k] = q[k]
      /\ Append(q, x)[Len(q) + 1] = x
  OBVIOUS
<1>2. 1 .. Len(q) + 1 = 1 .. Len(q) \cup {Len(q) + 1}
  BY <1>1
<1> QED BY <1>1, <1>2 DEF ToSet

\* and when the first one is taken.
LEMMA SetOfTail ==
    ASSUME NEW S, NEW q \in Seq(S), q # <<>>,
           \A j, k \in DOMAIN q : q[j] = q[k] => j = k
    PROVE  ToSet(Tail(q)) = ToSet(q) \ {q[1]}
<1>1. /\ Len(q) \in Nat \ {0} /\ Tail(q) \in Seq(S) /\ Len(Tail(q)) = Len(q) - 1
      /\ DOMAIN q = 1 .. Len(q) /\ DOMAIN Tail(q) = 1 .. Len(q) - 1
      /\ \A k \in 1 .. Len(q) - 1 : Tail(q)[k] = q[k + 1]
  OBVIOUS
<1>2. ASSUME NEW x \in ToSet(q) \ {q[1]} PROVE x \in ToSet(Tail(q))
  <2>1. PICK k \in 1 .. Len(q) : x = q[k]
    BY <1>1, <1>2 DEF ToSet
  <2>2. k - 1 \in 1 .. Len(q) - 1 /\ (k - 1) + 1 = k
    BY <1>1, <1>2, <2>1
  <2>3. Tail(q)[k - 1] = x
    BY <1>1, <2>1, <2>2
  <2> QED BY <1>1, <2>2, <2>3 DEF ToSet
<1>3. ASSUME NEW x \in ToSet(Tail(q)) PROVE x \in ToSet(q) \ {q[1]}
  <2>1. PICK k \in 1 .. Len(q) - 1 : x = q[k + 1]
    BY <1>1, <1>3 DEF ToSet
  <2>2. k + 1 \in 1 .. Len(q) /\ k + 1 # 1 /\ 1 \in 1 .. Len(q)
    BY <1>1
  <2> QED BY <1>1, <2>1, <2>2 DEF ToSet
<1> QED BY <1>2, <1>3

\* The slots chosen are finished ones.
LEMMA ChosenAreFinished ==
    ASSUME NEW rows \in RowOrders, NEW size
    PROVE  ProcessCollect(RecoverCollector(rows), size) \in Seq(Finished)
<1> PICK items : items = RecoverCollector(rows)
  OBVIOUS
<1> DEFINE N == {n \in DOMAIN items : PrefixSize(items, n - 1) < size}
<1>1. items \in Seq(Finished) /\ Len(items) \in Nat /\ DOMAIN items = 1 .. Len(items)
  BY CollectorInOrder DEF InOrder
<1>2. N \in SUBSET (1 .. Len(items))
  BY <1>1
<1> HIDE DEF N
<1>3. /\ IsFiniteSet(1 .. Len(items)) /\ Cardinality(1 .. Len(items)) = Len(items)
  BY SMTT(30), <1>1, FS_Interval
<1>4. Cardinality(N) \in Nat /\ Cardinality(N) <= Len(items)
  <2>1. IsFiniteSet(N) /\ Cardinality(N) <= Cardinality(1 .. Len(items))
    BY ONLY <1>2, <1>3, FS_Subset
  <2>2. Cardinality(N) \in Nat
    BY ONLY <2>1, FS_CardinalityType
  <2> QED BY <1>3, <2>1, <2>2
<1>5. ProcessCollect(items, size) = SubSeq(items, 1, Cardinality(N))
  BY DEF ProcessCollect, N
<1>6. SubSeq(items, 1, Cardinality(N)) \in Seq(Finished)
  BY <1>1, <1>4
<1> QED BY <1>5, <1>6

\* What is said of a download holds on while nothing of it changes.
LEMMA ServedOn ==
    ASSUME NEW d, Served(d), instance'[d] = instance[d], answers'[d] = answers[d],
           OpenAt(d)' = OpenAt(d), OpenAt(d) # {} => collectCall'.slot = collectCall.slot,
           \A s : <<d, s>> \in ToSet(slotCollectChannel')
                      <=> <<d, s>> \in ToSet(slotCollectChannel),
           d \in callFailed' <=> d \in callFailed
    PROVE  Served(d)'
<1>1. Current(d)' = Current(d)
  BY DEF Current
<1>2. IsQueued(d)' <=> IsQueued(d)
  BY DEF IsQueued
<1> QED BY <1>1, <1>2 DEF Served, AtRest, InQueue, Taken

\* Each download is served on by what another one, or the Coordinator for it, does.
LEMMA OthersServedOn ==
    ASSUME NEW d, \A e \in Download : Served(e), DownloadTypes,
           DOMAIN instance' = Download, DOMAIN answers' = Download,
           \A e \in Download \ {d} :
               /\ instance'[e] = instance[e] /\ answers'[e] = answers[e]
               /\ OpenAt(e)' = OpenAt(e)
               /\ OpenAt(e) # {} => collectCall'.slot = collectCall.slot
               /\ \A s : <<e, s>> \in ToSet(slotCollectChannel')
                             <=> <<e, s>> \in ToSet(slotCollectChannel)
               /\ e \in callFailed' <=> e \in callFailed,
           d \in Download => Served(d)'
    PROVE  \A e \in Download : Served(e)'
<1>1. ASSUME NEW e \in Download, e # d PROVE Served(e)'
  BY <1>1, ServedOn
<1> QED BY <1>1

\* An instance that was begun is at rest.
LEMMA BeginServed ==
    ASSUME DownloadInv, NEW d \in Download, NEW rows \in RowOrders, NEW size \in Asks,
           Begin(d, rows, size)
    PROVE  DownloadInv'
<1> PICK choice : choice = ProcessCollect(RecoverCollector(rows), size)
  OBVIOUS
<1>1. choice \in Seq(Finished)
  BY ChosenAreFinished
<1>2. /\ UNCHANGED <<slotCollectChannel, collectCall, answers, callFailed>>
      /\ instance[d].pc = "none" /\ DOMAIN instance = Download /\ IsInstance(instance[d])
      /\ instance' = [instance EXCEPT ![d] =
             [@ EXCEPT !.pc = "send", !.asked = size, !.slots = choice]]
  BY DEF Begin, DownloadInv, DownloadTypes
<1>3. /\ instance'[d].pc = "send" /\ IsInstance(instance'[d]) /\ DOMAIN instance' = Download
      /\ \A e \in Download \ {d} : instance'[e] = instance[e]
  <2>1. /\ DOMAIN instance' = Download
        /\ \A e \in Download \ {d} : instance'[e] = instance[e]
        /\ instance'[d] = [instance[d] EXCEPT !.pc = "send", !.asked = size, !.slots = choice]
    BY <1>2
  <2>2. instance'[d] = [pc |-> "send", asked |-> size, slots |-> choice,
                        next |-> instance[d].next, got |-> instance[d].got,
                        chunks |-> instance[d].chunks]
    BY <1>2, <2>1 DEF IsInstance
  <2> QED BY <1>1, <1>2, <2>1, <2>2 DEF IsInstance
<1>4. AtRest(d)
  BY <1>2 DEF DownloadInv, Served
<1>5. Served(d)'
  BY <1>2, <1>3, <1>4 DEF Served, AtRest, OpenAt, IsQueued
<1>6. \A e \in Download : Served(e)'
  BY <1>2, <1>3, <1>5, OthersServedOn DEF DownloadInv, DownloadTypes, OpenAt
<1> QED BY <1>2, <1>3, <1>6 DEF DownloadInv, DownloadTypes, OneRequestEach

\* A request goes behind those of the others.
LEMMA RequestServed ==
    ASSUME DownloadInv, NEW d \in Download, Request(d)
    PROVE  DownloadInv'
<1> PICK s : s = Current(d)
  OBVIOUS
<1>1. /\ UNCHANGED <<collectCall, answers, callFailed>>
      /\ instance[d].pc = "send" /\ instance[d].next <= Len(instance[d].slots)
      /\ DOMAIN instance = Download /\ IsInstance(instance[d])
      /\ instance' = [instance EXCEPT ![d].pc = "wait", ![d].got = 0]
      /\ slotCollectChannel' = Append(slotCollectChannel, <<d, s>>)
      /\ slotCollectChannel \in Seq(Download \X Finished)
  BY DEF Request, DownloadInv, DownloadTypes
<1>2. AtRest(d)
  BY <1>1 DEF DownloadInv, Served
<1>3. s \in Finished
  BY <1>1 DEF IsInstance, Current
<1>4. /\ DOMAIN instance' = Download
      /\ \A e \in Download \ {d} : instance'[e] = instance[e]
      /\ IsInstance(instance'[d]) /\ instance'[d].pc = "wait" /\ instance'[d].got = 0
      /\ instance'[d].next = instance[d].next /\ instance'[d].slots = instance[d].slots
  <2>1. instance'[d] = [pc |-> "wait", asked |-> instance[d].asked,
                        slots |-> instance[d].slots, next |-> instance[d].next, got |-> 0,
                        chunks |-> instance[d].chunks]
    BY <1>1 DEF IsInstance
  <2> QED BY <1>1, <2>1 DEF IsInstance
<1>5. /\ slotCollectChannel' \in Seq(Download \X Finished)
      /\ ToSet(slotCollectChannel') = ToSet(slotCollectChannel) \cup {<<d, s>>}
  <2> PICK x, R, q : x = <<d, s>> /\ R = Download \X Finished /\ q = slotCollectChannel
    OBVIOUS
  <2>1. x \in R /\ q \in Seq(R)
    BY <1>1, <1>3
  <2>2. ToSet(Append(q, x)) = ToSet(q) \cup {x}
    BY ONLY <2>1, SetAppended
  <2>3. Append(q, x) \in Seq(R)
    BY ONLY <2>1
  <2> QED BY <1>1, <2>2, <2>3
<1>6. Served(d)'
  <2>1. Current(d)' = s
    BY <1>4 DEF Current
  <2> QED BY <1>1, <1>2, <1>4, <1>5, <2>1 DEF Served, InQueue, AtRest, OpenAt
<1>7. \A e \in Download : Served(e)'
  BY <1>1, <1>4, <1>5, <1>6, OthersServedOn DEF DownloadInv, DownloadTypes, OpenAt
<1>8. OneRequestEach'
  <2>1. ASSUME NEW k \in DOMAIN slotCollectChannel PROVE slotCollectChannel[k][1] # d
    <3>1. /\ slotCollectChannel[k] \in Download \X Finished
          /\ slotCollectChannel[k] \in ToSet(slotCollectChannel)
      BY <1>1, <2>1 DEF ToSet
    <3> QED BY <1>2, <3>1 DEF AtRest, IsQueued
  <2>2. /\ DOMAIN slotCollectChannel = 1 .. Len(slotCollectChannel)
        /\ DOMAIN slotCollectChannel' = 1 .. Len(slotCollectChannel) + 1
        /\ \A k \in 1 .. Len(slotCollectChannel) :
               slotCollectChannel'[k] = slotCollectChannel[k]
        /\ slotCollectChannel'[Len(slotCollectChannel) + 1] = <<d, s>>
        /\ Len(slotCollectChannel) \in Nat
    BY <1>1, <1>3
  <2> QED BY <2>1, <2>2 DEF DownloadInv, OneRequestEach
<1> QED BY <1>1, <1>4, <1>5, <1>7, <1>8 DEF DownloadInv, DownloadTypes

\* A response is of those expected, and the last one only if all came.
LEMMA ResponseServed ==
    ASSUME DownloadInv, NEW d \in Download, TakeResponse(d)
    PROVE  DownloadInv'
<1> DEFINE s == Current(d)
           chunks == AddChunks(d, Head(answers[d]))
           last == instance[d].got + 1 = NumExpectedResponses(s)
           new == [instance[d] EXCEPT
                      !.chunks = chunks, !.got = @ + 1,
                      !.pc = IF last THEN "send" ELSE "wait",
                      !.next = IF last THEN @ + 1 ELSE @]
<1>1. /\ UNCHANGED <<slotCollectChannel, collectCall, callFailed>>
      /\ instance[d].pc = "wait" /\ answers[d] # <<>>
      /\ DOMAIN instance = Download /\ IsInstance(instance[d])
      /\ answers' = [answers EXCEPT ![d] = Tail(@)]
      /\ instance' = [instance EXCEPT ![d] = new]
      /\ answers \in [Download -> Seq(Responses)]
  <2>1. instance' = [instance EXCEPT ![d] = new]
    BY DEF TakeResponse
  <2> HIDE DEF new
  <2> QED BY <2>1 DEF TakeResponse, DownloadInv, DownloadTypes
<1> HIDE DEF s, chunks
<1>2. Taken(d) /\ instance[d].next <= Len(instance[d].slots)
  BY <1>1 DEF DownloadInv, Served, InQueue, s
<1>3. s \in Finished /\ NumExpectedResponses(s) \in Nat \ {0}
  <2>1. s \in Finished
    BY <1>1, <1>2 DEF IsInstance, Current, s
  <2> QED BY <2>1, ExpectedFacts
<1>4. /\ DOMAIN instance' = Download
      /\ \A e \in Download \ {d} : instance'[e] = instance[e]
      /\ IsInstance(instance'[d]) /\ instance'[d].got = instance[d].got + 1
      /\ instance'[d].pc = (IF last THEN "send" ELSE "wait")
      /\ ~ last => instance'[d].next = instance[d].next
      /\ instance'[d].slots = instance[d].slots
  <2>1. instance'[d] = [pc |-> IF last THEN "send" ELSE "wait", asked |-> instance[d].asked,
                        slots |-> instance[d].slots,
                        next |-> IF last THEN instance[d].next + 1 ELSE instance[d].next,
                        got |-> instance[d].got + 1, chunks |-> chunks]
    <3>1. instance'[d] = new
      BY <1>1
    <3> HIDE DEF last
    <3> QED BY <1>1, <3>1 DEF IsInstance
  <2>2. /\ instance[d].got \in Nat /\ instance[d].next \in Nat \ {0}
        /\ instance[d].slots \in Seq(Finished)
    BY <1>1 DEF IsInstance
  <2>3. IsInstance(instance'[d])
    <3> HIDE DEF last
    <3>1. CASE last
      BY <2>1, <2>2, <3>1 DEF IsInstance
    <3>2. CASE ~ last
      BY <2>1, <2>2, <3>2 DEF IsInstance
    <3> QED BY <3>1, <3>2
  <2>4. /\ instance'[d].pc = (IF last THEN "send" ELSE "wait")
        /\ instance'[d].got = instance[d].got + 1
        /\ ~ last => instance'[d].next = instance[d].next
        /\ instance'[d].slots = instance[d].slots
    <3> HIDE DEF last
    <3> QED BY <2>1
  <2>5. /\ DOMAIN instance' = Download
        /\ \A e \in Download \ {d} : instance'[e] = instance[e]
    <3> HIDE DEF new
    <3> QED BY <1>1
  <2> QED BY <2>3, <2>4, <2>5
<1>5. /\ answers' \in [Download -> Seq(Responses)] /\ Len(answers[d]) \in Nat \ {0}
      /\ \A e \in Download \ {d} : answers'[e] = answers[e]
      /\ answers'[d] \in Seq(Responses) /\ Len(answers'[d]) = Len(answers[d]) - 1
      /\ \A k \in DOMAIN answers'[d] : k + 1 \in DOMAIN answers[d]
                                       /\ answers'[d][k] = answers[d][k + 1]
  <2>1. answers[d] \in Seq(Responses) /\ answers'[d] = Tail(answers[d])
    BY <1>1
  <2>2. /\ Tail(answers[d]) \in Seq(Responses) /\ Len(answers[d]) \in Nat \ {0}
        /\ Len(Tail(answers[d])) = Len(answers[d]) - 1
        /\ \A k \in 1 .. Len(answers[d]) - 1 : Tail(answers[d])[k] = answers[d][k + 1]
    BY <1>1, <2>1
  <2>3. DOMAIN answers'[d] = 1 .. Len(answers[d]) - 1 /\ DOMAIN answers[d] = 1 .. Len(answers[d])
    BY <2>1, <2>2
  <2> QED BY <1>1, <2>1, <2>2, <2>3
<1>6. /\ OpenAt(d)' = OpenAt(d) /\ (IsQueued(d)' <=> IsQueued(d))
      /\ IsFiniteSet(OpenAt(d)) /\ Cardinality(OpenAt(d)) \in Nat
  <2>1. OpenAt(d) \in SUBSET (Targets(s) \cap Address)
    BY <1>2 DEF Taken, s
  <2> QED BY <1>1, <1>3, <2>1, ExpectedFacts, FS_Subset, FS_CardinalityType
        DEF OpenAt, IsQueued
<1>7. instance[d].got \in Nat
  BY <1>1 DEF IsInstance
<1> PICK got, here, open, all :
        /\ got = instance[d].got /\ here = Len(answers[d])
        /\ open = Cardinality(OpenAt(d)) /\ all = NumExpectedResponses(s)
  OBVIOUS
<1>10. /\ got \in Nat /\ here \in Nat \ {0} /\ open \in Nat /\ all \in Nat
       /\ got < all /\ got + here + open <= all
       /\ d \in callFailed => got + here + open < all
  <2>1. got \in Nat /\ here \in Nat \ {0} /\ open \in Nat /\ all \in Nat
    BY <1>3, <1>5, <1>6, <1>7
  <2>2. /\ got < all
        /\ IF d \in callFailed THEN got + here + open < all ELSE got + here + open = all
    BY <1>2 DEF Taken, s
  <2> QED BY <2>1, <2>2
<1>8. Served(d)'
  <2>1. CASE last
    <3>1. d \notin callFailed /\ here = 1 /\ open = 0
      BY ONLY <1>10, <2>1, got = instance[d].got, all = NumExpectedResponses(s)
    <3>2. OpenAt(d) = {} /\ answers'[d] = <<>>
      <4>1. Cardinality(OpenAt(d)) = 0 /\ Len(answers'[d]) = 0
        BY <1>5, <3>1
      <4>2. OpenAt(d) = {}
        BY ONLY <1>6, <4>1, FS_EmptySet
      <4> QED BY <1>5, <4>1, <4>2
    <3> QED BY <1>1, <1>2, <1>4, <1>6, <2>1, <3>1, <3>2 DEF Served, AtRest, Taken
  <2>2. CASE ~ last
    <3>1. Current(d)' = s
      BY <1>4, <2>2 DEF Current, s
    <3>2. /\ instance'[d].got < NumExpectedResponses(s)
          /\ instance'[d].got + Len(answers'[d]) = instance[d].got + Len(answers[d])
      <4>1. got + 1 # all
        BY <2>2
      <4>2. got + 1 < all /\ (got + 1) + (here - 1) = got + here
        BY ONLY <1>10, <4>1
      <4> QED BY <1>4, <1>5, <4>2
    <3>3. \A k \in DOMAIN answers'[d] : answers'[d][k] \in MayAnswer(s)
      BY <1>2, <1>5 DEF Taken, s
    <3>4. Taken(d)'
      BY <1>1, <1>2, <1>6, <3>1, <3>2, <3>3 DEF Taken, MayAnswer, s
    <3> QED BY <1>2, <1>4, <2>2, <3>4 DEF Served
  <2> QED BY <2>1, <2>2
<1>9. \A e \in Download : Served(e)'
  BY <1>1, <1>4, <1>5, <1>8, OthersServedOn DEF DownloadInv, DownloadTypes, OpenAt
<1> QED BY <1>1, <1>4, <1>5, <1>9 DEF DownloadInv, DownloadTypes, OneRequestEach

\* The end of an instance is at rest.
LEMMA EndServed ==
    ASSUME DownloadInv, NEW d \in Download, Recover(d) \/ ReadFile(d)
    PROVE  DownloadInv'
<1>0. PICK pc \in {"write", "closed", "panicked"} : instance' = [instance EXCEPT ![d].pc = pc]
  BY DEF Recover, ReadFile
<1>1. /\ UNCHANGED <<slotCollectChannel, collectCall, answers, callFailed>>
      /\ instance[d].pc \in {"send", "write"} /\ DOMAIN instance = Download
      /\ IsInstance(instance[d]) /\ instance' = [instance EXCEPT ![d].pc = pc]
  BY <1>0 DEF Recover, ReadFile, DownloadInv, DownloadTypes
<1>2. /\ instance'[d].pc = pc /\ IsInstance(instance'[d]) /\ DOMAIN instance' = Download
      /\ \A e \in Download \ {d} : instance'[e] = instance[e]
  BY <1>1 DEF IsInstance
<1>3. AtRest(d)
  BY <1>1 DEF DownloadInv, Served
<1>4. Served(d)'
  BY <1>1, <1>2, <1>3 DEF Served, AtRest, OpenAt, IsQueued
<1>5. \A e \in Download : Served(e)'
  BY <1>1, <1>2, <1>4, OthersServedOn DEF DownloadInv, DownloadTypes, OpenAt
<1> QED BY <1>1, <1>2, <1>5 DEF DownloadInv, DownloadTypes, OneRequestEach

\* The Coordinator takes the request of a slot its download waits for.
LEMMA TakeRequestServed == DownloadInv /\ TakeRequest => DownloadInv'
<1> SUFFICES ASSUME DownloadInv, TakeRequest PROVE DownloadInv'
  OBVIOUS
<1> PICK q, d, s : q = slotCollectChannel /\ d = q[1][1] /\ s = q[1][2]
  OBVIOUS
<1>1. /\ collectCall = NoCall /\ q # <<>> /\ q \in Seq(Download \X Finished)
      /\ slotCollectChannel' = Tail(q) /\ UNCHANGED <<answers, instance, file>>
      /\ collectCall' = [of |-> d, slot |-> s, open |-> Targets(s) \cap Address]
      /\ callFailed' = IF Targets(s) \subseteq Address THEN callFailed
                       ELSE callFailed \cup {d}
  BY DEF TakeRequest, DownloadInv, DownloadTypes
<1>2. /\ d \in Download /\ s \in Finished /\ q[1] = <<d, s>>
      /\ Tail(q) \in Seq(Download \X Finished)
      /\ 1 \in DOMAIN q /\ DOMAIN q = 1 .. Len(q) /\ Len(q) \in Nat \ {0}
      /\ Len(Tail(q)) = Len(q) - 1 /\ DOMAIN Tail(q) = 1 .. Len(q) - 1
      /\ \A k \in 1 .. Len(q) - 1 : Tail(q)[k] = q[k + 1]
  <2> PICK R : R = Download \X Finished
    OBVIOUS
  <2>1. q \in Seq(R) /\ q # <<>>
    BY <1>1
  <2>2. /\ q[1] \in R /\ Tail(q) \in Seq(R) /\ DOMAIN q = 1 .. Len(q)
        /\ Len(q) \in Nat \ {0} /\ Len(Tail(q)) = Len(q) - 1
        /\ DOMAIN Tail(q) = 1 .. Len(q) - 1
        /\ \A k \in 1 .. Len(q) - 1 : Tail(q)[k] = q[k + 1]
    BY ONLY <2>1
  <2>3. 1 \in 1 .. Len(q)
    BY <2>2
  <2> QED BY <2>2, <2>3
<1>3. \A j, k \in DOMAIN q : q[j][1] = q[k][1] => j = k
  BY DEF DownloadInv, OneRequestEach
<1>4. ToSet(Tail(q)) = ToSet(q) \ {<<d, s>>}
  <2>1. \A j, k \in DOMAIN q : q[j] = q[k] => j = k
    BY <1>3
  <2> PICK R : R = Download \X Finished
    OBVIOUS
  <2>2. q \in Seq(R) /\ q # <<>>
    BY <1>1
  <2>3. ToSet(Tail(q)) = ToSet(q) \ {q[1]}
    BY ONLY <2>1, <2>2, SetOfTail
  <2> QED BY <1>2, <2>3
<1>5. \A t : <<d, t>> \in ToSet(q) => t = s
  <2> SUFFICES ASSUME NEW t, <<d, t>> \in ToSet(q) PROVE t = s
    OBVIOUS
  <2>1. PICK k \in DOMAIN q : <<d, t>> = q[k]
    BY DEF ToSet
  <2>2. k = 1
    BY <1>2, <1>3, <2>1
  <2> QED BY <1>2, <2>1, <2>2
<1>6. <<d, s>> \in ToSet(q)
  BY <1>2 DEF ToSet
<1>7. IsQueued(d)
  BY <1>2, <1>6 DEF IsQueued
<1>8. /\ InQueue(d) /\ instance[d].pc = "wait" /\ instance[d].next <= Len(instance[d].slots)
      /\ Current(d) = s
  <2>1. /\ InQueue(d) /\ instance[d].pc = "wait"
        /\ instance[d].next <= Len(instance[d].slots)
    BY <1>2, <1>7 DEF DownloadInv, Served, AtRest, Taken
  <2> QED BY <1>5, <2>1 DEF InQueue
<1>9. Taken(d)'
  <2>1. /\ Current(d)' = s /\ OpenAt(d)' = Targets(s) \cap Address
        /\ instance'[d].got = 0 /\ answers'[d] = <<>> /\ d \notin callFailed
    BY <1>1, <1>8 DEF Current, OpenAt, InQueue
  <2>2. ~ IsQueued(d)'
    BY <1>1, <1>4, <1>5 DEF IsQueued
  <2> PICK some, all : /\ some = Cardinality(Targets(s) \cap Address)
                       /\ all = NumExpectedResponses(s)
    OBVIOUS
  <2>3. /\ some \in Nat /\ all \in Nat \ {0}
        /\ IF d \in callFailed' THEN some < all ELSE some = all
    BY <1>1, <1>2, <2>1, ExpectedFacts
  <2>4. Len(answers'[d]) = 0 /\ DOMAIN answers'[d] = {}
    BY <2>1
  <2>5. /\ 0 < all /\ IF d \in callFailed' THEN 0 + 0 + some < all ELSE 0 + 0 + some = all
    BY <2>3
  <2> QED BY <1>1, <2>1, <2>2, <2>4, <2>5 DEF Taken
<1>10. Served(d)'
  BY <1>1, <1>8, <1>9 DEF Served
<1>11. \A e \in Download \ {d} :
           /\ OpenAt(e)' = OpenAt(e) /\ OpenAt(e) = {}
           /\ \A t : <<e, t>> \in ToSet(slotCollectChannel') <=> <<e, t>> \in ToSet(q)
           /\ e \in callFailed' <=> e \in callFailed
  BY <1>1, <1>4 DEF OpenAt, NoCall
<1>12. \A e \in Download : Served(e)'
  BY <1>1, <1>10, <1>11, OthersServedOn DEF DownloadInv, DownloadTypes
<1>13. OneRequestEach'
  BY <1>1, <1>2, <1>3 DEF OneRequestEach
<1>14. collectCall' \in [of : Download, slot : Finished, open : SUBSET Address]
  BY <1>1, <1>2
<1> QED BY <1>1, <1>2, <1>12, <1>13, <1>14 DEF DownloadInv, DownloadTypes

\* The request a node is called for is one of a download that waits for it.
LEMMA CallIsTaken ==
    ASSUME DownloadInv, NEW n \in collectCall.open
    PROVE  /\ collectCall \in [of : Download, slot : Finished, open : SUBSET Address]
           /\ n \in Address
           /\ LET d == collectCall.of
                  s == collectCall.slot
              IN  /\ instance[d].pc = "wait" /\ Taken(d) /\ s = Current(d)
                  /\ instance[d].next <= Len(instance[d].slots)
                  /\ IsFiniteSet(collectCall.open) /\ n \in Targets(s)
                  /\ instance[d].got \in Nat
<1>1. collectCall \in [of : Download, slot : Finished, open : SUBSET Address]
  BY DEF DownloadInv, DownloadTypes, NoCall
<1> PICK d, s : d = collectCall.of /\ s = collectCall.slot
  OBVIOUS
<1>2. d \in Download /\ OpenAt(d) # {} /\ OpenAt(d) = collectCall.open
  BY <1>1 DEF OpenAt
<1>3. /\ instance[d].pc = "wait" /\ Taken(d) /\ instance[d].next <= Len(instance[d].slots)
  BY <1>2 DEF DownloadInv, Served, AtRest, InQueue
<1>4. s = Current(d) /\ collectCall.open \in SUBSET (Targets(s) \cap Address)
  BY <1>2, <1>3 DEF Taken
<1>5. IsFiniteSet(collectCall.open)
  BY <1>1, <1>4, ExpectedFacts, FS_Subset
<1>6. instance[d].got \in Nat
  BY <1>2 DEF DownloadInv, DownloadTypes, IsInstance
<1> QED BY <1>1, <1>3, <1>4, <1>5, <1>6

\* A call that returns, with or without an answer, is open no more.
LEMMA CallServed ==
    ASSUME DownloadInv, NEW n \in Address, CallStep(n)
    PROVE  DownloadInv'
<1>0. n \in collectCall.open
  BY DEF CallStep, Answer, NoAnswer
<1> PICK d, s : d = collectCall.of /\ s = collectCall.slot
  OBVIOUS
<1>1. /\ collectCall \in [of : Download, slot : Finished, open : SUBSET Address]
      /\ instance[d].pc = "wait" /\ Taken(d) /\ s = Current(d)
      /\ instance[d].next <= Len(instance[d].slots)
      /\ IsFiniteSet(collectCall.open) /\ n \in Targets(s) /\ instance[d].got \in Nat
  BY <1>0, CallIsTaken
<1>2. /\ UNCHANGED <<slotCollectChannel, instance>>
      /\ collectCall' = [collectCall EXCEPT !.open = @ \ {n}]
  BY DEF CallStep, Answer, NoAnswer
<1>3. /\ collectCall' \in [of : Download, slot : Finished, open : SUBSET Address]
      /\ collectCall'.of = d /\ collectCall'.slot = s
      /\ collectCall'.open = collectCall.open \ {n} /\ d \in Download /\ s \in Finished
  BY <1>1, <1>2
<1>4. /\ OpenAt(d) = collectCall.open /\ OpenAt(d)' = collectCall.open \ {n}
      /\ \A e \in Download \ {d} : OpenAt(e) = {} /\ OpenAt(e)' = {}
  BY <1>3 DEF OpenAt
<1> PICK open, left : /\ open = Cardinality(collectCall.open)
                      /\ left = Cardinality(collectCall.open \ {n})
  OBVIOUS
<1>5. open \in Nat /\ left \in Nat /\ open = left + 1
  <2>1. IsFiniteSet(collectCall.open \ {n}) /\ left = open - 1
    BY <1>0, <1>1, FS_RemoveElement
  <2>2. open \in Nat
    BY <1>1, FS_CardinalityType
  <2>3. left \in Nat
    BY <2>1, FS_CardinalityType
  <2> QED BY <2>1, <2>2, <2>3
<1>6. Current(d)' = s /\ (IsQueued(d)' <=> IsQueued(d))
  BY <1>1, <1>2 DEF Current, IsQueued
<1> PICK got, here, all :
        got = instance[d].got /\ here = Len(answers[d]) /\ all = NumExpectedResponses(s)
  OBVIOUS
<1>7. /\ answers \in [Download -> Seq(Responses)] /\ answers[d] \in Seq(Responses)
      /\ got \in Nat /\ here \in Nat /\ all \in Nat /\ got < all
      /\ IF d \in callFailed THEN got + here + open < all ELSE got + here + open = all
  <2>1. answers \in [Download -> Seq(Responses)]
    BY DEF DownloadInv, DownloadTypes
  <2>2. answers[d] \in Seq(Responses)
    BY <1>3, <2>1
  <2>3. /\ got < all
        /\ IF d \in callFailed THEN got + here + open < all ELSE got + here + open = all
    BY <1>1, <1>4 DEF Taken
  <2>4. all \in Nat
    BY <1>3, ExpectedFacts
  <2> QED BY <1>1, <2>1, <2>2, <2>3, <2>4
<1>8. /\ answers' \in [Download -> Seq(Responses)] /\ callFailed' \subseteq Download
      /\ \A e \in Download \ {d} : /\ answers'[e] = answers[e]
                                   /\ e \in callFailed' <=> e \in callFailed
      /\ \A k \in DOMAIN answers'[d] : answers'[d][k] \in MayAnswer(s)
      /\ IF d \in callFailed' THEN got + Len(answers'[d]) + left < all
         ELSE got + Len(answers'[d]) + left = all
  <2>0. callFailed \subseteq Download /\ \A k \in DOMAIN answers[d] : answers[d][k] \in MayAnswer(s)
    BY <1>1 DEF DownloadInv, DownloadTypes, Taken
  <2>1. CASE Answer(n)
    <3> PICK response : response = Stored[s][n]
      OBVIOUS
    <3>1. /\ answers' = [answers EXCEPT ![d] = Append(@, response)]
          /\ callFailed' = callFailed
      BY <2>1 DEF Answer
    <3>2. response \in Responses /\ response \in MayAnswer(s)
      BY <1>1, <1>3 DEF Responses, MayAnswer
    <3>3. /\ Append(answers[d], response) \in Seq(Responses)
          /\ Len(Append(answers[d], response)) = here + 1
          /\ DOMAIN Append(answers[d], response) = 1 .. here + 1
          /\ DOMAIN answers[d] = 1 .. here
          /\ \A k \in 1 .. here : Append(answers[d], response)[k] = answers[d][k]
          /\ Append(answers[d], response)[here + 1] = response
      BY <1>7, <3>2
    <3>4. \A k \in 1 .. here + 1 : k \in 1 .. here \/ k = here + 1
      BY <1>7
    <3>5. /\ answers' \in [Download -> Seq(Responses)]
          /\ answers'[d] = Append(answers[d], response)
          /\ \A e \in Download \ {d} : answers'[e] = answers[e]
      BY <1>3, <1>7, <3>1, <3>3
    <3>6. \A k \in DOMAIN answers'[d] : answers'[d][k] \in MayAnswer(s)
      BY <2>0, <3>2, <3>3, <3>4, <3>5
    <3>7. IF d \in callFailed' THEN got + (here + 1) + left < all
          ELSE got + (here + 1) + left = all
      <4>1. got + (here + 1) + left = got + here + open
        <5>1. got \in Nat /\ here \in Nat
          BY <1>7
        <5> QED BY ONLY <1>5, <5>1
      <4> QED BY <1>7, <3>1, <4>1
    <3> QED BY <2>0, <3>1, <3>3, <3>5, <3>6, <3>7
  <2>2. CASE NoAnswer(n)
    <3>1. answers' = answers /\ callFailed' = callFailed \cup {d}
      BY <2>2 DEF NoAnswer
    <3>2. got + here + left < all
      <4>1. got \in Nat /\ here \in Nat /\ all \in Nat /\ got + here + open <= all
        BY <1>5, <1>7
      <4> QED BY ONLY <1>5, <4>1
    <3> QED BY <1>3, <1>7, <2>0, <3>1, <3>2
  <2> QED BY <2>1, <2>2 DEF CallStep
<1>9. Taken(d)'
  <2>1. ~ IsQueued(d) /\ collectCall.open \subseteq Targets(s) \cap Address
    BY <1>1, <1>4 DEF Taken
  <2>2. got < all
    BY <1>7
  <2>3. instance'[d].got = got
    BY <1>2
  <2> QED BY <1>3, <1>4, <1>6, <1>8, <2>1, <2>2, <2>3 DEF Taken, MayAnswer
<1>10. Served(d)'
  BY <1>1, <1>2, <1>9 DEF Served
<1>11. \A e \in Download : Served(e)'
  BY <1>2, <1>4, <1>8, <1>10, OthersServedOn DEF DownloadInv, DownloadTypes
<1> QED BY <1>2, <1>3, <1>8, <1>11 DEF DownloadInv, DownloadTypes, OneRequestEach

LEMMA EndRequestServed == DownloadInv /\ EndRequest => DownloadInv'
<1> SUFFICES ASSUME DownloadInv, EndRequest PROVE DownloadInv'
  OBVIOUS
<1>1. /\ UNCHANGED <<slotCollectChannel, answers, instance, callFailed>>
      /\ collectCall' = NoCall /\ \A d \in Download : OpenAt(d) = {} /\ OpenAt(d)' = {}
  BY DEF EndRequest, OpenAt, NoCall
<1>2. \A d \in Download : Served(d)'
  BY <1>1, ServedOn DEF DownloadInv
<1> QED BY <1>1, <1>2 DEF DownloadInv, DownloadTypes, OneRequestEach

LEMMA DownloadInvHolds == CollectionSpec => []DownloadInv
<1>1. CollectionInit => DownloadInv
  <2> SUFFICES ASSUME CollectionInit PROVE DownloadInv
    OBVIOUS
  <2>1. IsInstance(NoInstance)
    BY DEF IsInstance, NoInstance
  <2>2. DownloadTypes /\ OneRequestEach
    BY <2>1 DEF CollectionInit, DownloadTypes, OneRequestEach
  <2>3. ToSet(slotCollectChannel) = {}
    BY DEF CollectionInit, ToSet
  <2>4. ASSUME NEW d \in Download PROVE Served(d)
    BY <2>3 DEF CollectionInit, Served, AtRest, OpenAt, IsQueued, NoInstance, NoCall
  <2> QED BY <2>2, <2>4 DEF DownloadInv
<1>2. DownloadInv /\ [CollectionNext]_collectionVars => DownloadInv'
  <2> SUFFICES ASSUME DownloadInv, [CollectionNext]_collectionVars PROVE DownloadInv'
    OBVIOUS
  <2>1. CASE UNCHANGED collectionVars
    <3>1. \A d \in Download : Served(d)'
      BY <2>1, ServedOn DEF DownloadInv, collectionVars, OpenAt
    <3> QED BY <2>1, <3>1 DEF DownloadInv, DownloadTypes, OneRequestEach, collectionVars
  <2>2. ASSUME NEW d \in Download, InstanceStep(d) PROVE DownloadInv'
    BY <2>2, RequestServed, ResponseServed, EndServed DEF InstanceStep
  <2>3. CASE SendCollect
    BY <2>3, TakeRequestServed, EndRequestServed DEF SendCollect
  <2> QED BY <2>1, <2>2, <2>3, BeginServed, CallServed DEF CollectionNext
<1> QED BY <1>1, <1>2, PTL DEF CollectionSpec

\* The comment at instance.go:58 is right: with one channel for all slots of a
\* download, every answer finds the slot it was given for, for any number of downloads,
\* nodes and slots.
THEOREM EveryAnswerFindsItsSlot == CollectionSpec => []AnswersFindTheirSlot
<1>1. DownloadInv => AnswersFindTheirSlot
  <2> SUFFICES ASSUME DownloadInv, NEW d \in Download, NEW k \in DOMAIN answers[d]
               PROVE  /\ instance[d].pc = "wait"
                      /\ \E n \in Targets(Current(d)) \cap Address :
                             answers[d][k] = Stored[Current(d)][n]
    BY DEF AnswersFindTheirSlot
  <2>1. answers[d] # <<>>
    OBVIOUS
  <2>2. instance[d].pc = "wait" /\ Taken(d)
    BY <2>1 DEF DownloadInv, Served, AtRest, InQueue
  <2> QED BY <2>2 DEF Taken, MayAnswer
<1> QED BY <1>1, DownloadInvHolds, PTL

\* The safety half of DownloadEnds: what a download waits for may come, unless one of
\* its own calls failed; and then it can not end, however many chunks are left.
THEOREM DownloadsHangOnlyByFailure == CollectionSpec => []HangsIffCallFailed
<1>1. DownloadInv => HangsIffCallFailed
  <2> SUFFICES ASSUME DownloadInv, NEW d \in Download
               PROVE  d \in callFailed <=>
                          /\ instance[d].pc = "wait"
                          /\ MayCome(d) < NumExpectedResponses(Current(d))
    BY DEF HangsIffCallFailed
  <2>1. CASE instance[d].pc # "wait"
    BY <2>1 DEF DownloadInv, Served, AtRest
  <2>2. CASE instance[d].pc = "wait"
    <3> PICK s, all : s = Current(d) /\ all = NumExpectedResponses(s)
      OBVIOUS
    <3>1. /\ instance[d].next <= Len(instance[d].slots) /\ IsInstance(instance[d])
          /\ InQueue(d) \/ Taken(d)
      BY <2>2 DEF DownloadInv, DownloadTypes, Served
    <3>2. s \in Finished
      BY <3>1 DEF IsInstance, Current
    <3>3. all \in Nat
      BY <3>2, ExpectedFacts
    <3>4. CASE InQueue(d)
      <4>1. IsQueued(d) /\ d \notin callFailed
        BY <3>2, <3>4 DEF InQueue, IsQueued
      <4> QED BY <3>3, <4>1 DEF MayCome
    <3>5. CASE Taken(d)
      <4> PICK may : may = MayCome(d)
        OBVIOUS
      <4>1. IF d \in callFailed THEN may < all ELSE may = all
        BY <3>5 DEF Taken, MayCome
      <4>2. ~ (all < all)
        BY <3>3
      <4> QED BY <2>2, <4>1, <4>2
    <3> QED BY <3>1, <3>4, <3>5
  <2> QED BY <2>1, <2>2
<1> QED BY <1>1, DownloadInvHolds, PTL

-----------------------------------------------------------------------------
(* The Merkle proof.  Nodes are hashes of hashes, of which there is no set, *)
(* so a list is here a sequence over some set.                              *)

IsList(q) == \E S : q \in Seq(S)

\* A list is a function on its places.
LEMMA ListFacts ==
    ASSUME NEW q, IsList(q)
    PROVE  /\ Len(q) \in Nat /\ DOMAIN q = 1 .. Len(q)
           /\ q = [k \in 1 .. Len(q) |-> q[k]]
  BY DEF IsList

\* What is given by its places is a list.
LEMMA ListOf ==
    ASSUME NEW n \in Nat, NEW f, f = [k \in 1 .. n |-> f[k]]
    PROVE  IsList(f) /\ Len(f) = n
<1> DEFINE S == {f[k] : k \in 1 .. n}
<1>1. f \in [1 .. n -> S]
  OBVIOUS
<1> HIDE DEF S
<1>2. f \in Seq(S) /\ Len(f) = n
  BY <1>1
<1> QED BY <1>2 DEF IsList

\* A list with one more element at the end,
LEMMA ListAppended ==
    ASSUME NEW q, IsList(q), NEW x
    PROVE  /\ IsList(Append(q, x)) /\ Len(Append(q, x)) = Len(q) + 1
           /\ Append(q, x)[Len(q) + 1] = x
           /\ \A k \in 1 .. Len(q) : Append(q, x)[k] = q[k]
<1> PICK S : q \in Seq(S)
  BY DEF IsList
<1> DEFINE U == S \cup {x}
<1>1. q \in Seq(U) /\ x \in U
  OBVIOUS
<1> HIDE DEF U
<1>2. Append(q, x) \in Seq(U)
  BY <1>1
<1>3. /\ Len(Append(q, x)) = Len(q) + 1 /\ Append(q, x)[Len(q) + 1] = x
      /\ \A k \in 1 .. Len(q) : Append(q, x)[k] = q[k]
  BY <1>1
<1> QED BY <1>2, <1>3 DEF IsList

\* and with one more at the front.
LEMMA ListPrefixed ==
    ASSUME NEW q, IsList(q), NEW x
    PROVE  /\ IsList(<<x>> \o q) /\ Len(<<x>> \o q) = Len(q) + 1
           /\ (<<x>> \o q)[1] = x
           /\ \A k \in 1 .. Len(q) : (<<x>> \o q)[k + 1] = q[k]
<1> PICK S : q \in Seq(S)
  BY DEF IsList
<1> DEFINE U == S \cup {x}
<1>1. q \in Seq(U) /\ <<x>> \in Seq(U) /\ Len(<<x>>) = 1 /\ <<x>>[1] = x
  OBVIOUS
<1> HIDE DEF U
<1> DEFINE y == <<x>>
<1>5. y \in Seq(U) /\ Len(y) = 1 /\ y[1] = x
  BY <1>1
<1> HIDE DEF y
<1>2. y \o q \in Seq(U) /\ Len(y \o q) = Len(y) + Len(q)
      /\ \A k \in 1 .. Len(y) + Len(q) : (y \o q)[k] = IF k <= Len(y) THEN y[k] ELSE q[k - Len(y)]
  BY <1>1, <1>5, ConcatProperties
<1>3. Len(q) \in Nat
  OBVIOUS
<1>4. (y \o q)[1] = x /\ \A k \in 1 .. Len(q) : (y \o q)[k + 1] = q[k]
  BY <1>2, <1>3, <1>5
<1>6. IsList(y \o q) /\ Len(y \o q) = Len(q) + 1
  BY <1>2, <1>3, <1>5 DEF IsList
<1> QED BY <1>4, <1>6 DEF y

-----------------------------------------------------------------------------
(* What a verifier computes: one pair more is joined to what was computed.  *)

UpPairs(leaf, proof, g) ==
    g = [n \in 0 .. Len(proof) |->
            IF n = 0 THEN leaf ELSE Joined(proof[Len(proof) - n + 1], g[n - 1])]

\* Such a function exists for the end of any list, however long.
LEMMA PairsGoUp ==
    ASSUME NEW leaf, NEW proof, IsList(proof)
    PROVE  LET node == CHOOSE g : UpPairs(leaf, proof, g)
           IN  FromPairs(leaf, proof) = node[Len(proof)] /\ UpPairs(leaf, proof, node)
<1>1. Len(proof) \in Nat
  BY ListFacts
<1> DEFINE Up(m, g) ==
        g = [n \in 0 .. m |->
                IF n = 0 THEN leaf ELSE Joined(proof[Len(proof) - n + 1], g[n - 1])]
           B == {m \in Nat : ~ \E g : Up(m, g)}
<1>2. ASSUME B # {} PROVE FALSE
  <2>1. PICK m \in B : \A k \in B : m <= k
    <3>1. B \subseteq Nat
      OBVIOUS
    <3> HIDE DEF B
    <3> QED BY <1>2, <3>1, SmallestNat
  <2>2. CASE m = 0
    <3> DEFINE g == [n \in 0 .. 0 |-> leaf]
    <3>1. Up(0, g)
      OBVIOUS
    <3> HIDE DEF Up
    <3> QED BY <2>1, <2>2, <3>1
  <2>3. CASE m # 0
    <3>1. m \in Nat /\ m - 1 \in Nat /\ ~(m <= m - 1)
      BY <2>3
    <3>2. PICK h : Up(m - 1, h)
      <4> HIDE DEF Up
      <4>1. m - 1 \notin B
        <5> HIDE DEF B
        <5> QED BY <2>1, <3>1
      <4> QED BY <3>1, <4>1
    <3> DEFINE g == [n \in 0 .. m |-> IF n = m THEN Joined(proof[Len(proof) - m + 1], h[m - 1])
                                      ELSE h[n]]
    <3>3. ASSUME NEW n \in 0 .. m
          PROVE  g[n] = IF n = 0 THEN leaf ELSE Joined(proof[Len(proof) - n + 1], g[n - 1])
      <4>1. n < m => n \in 0 .. m - 1 /\ (n # 0 => n - 1 \in 0 .. m /\ n - 1 # m)
        BY <3>1
      <4>2. m - 1 \in 0 .. m /\ m - 1 # m
        BY <3>1
      <4>3. CASE n = m
        BY <2>3, <4>2, <4>3
      <4>4. CASE n < m
        <5>1. h[n] = IF n = 0 THEN leaf ELSE Joined(proof[Len(proof) - n + 1], h[n - 1])
          BY <3>2, <4>1, <4>4
        <5>2. g[n] = h[n] /\ (n # 0 => g[n - 1] = h[n - 1])
          BY <3>1, <4>1, <4>4
        <5> QED BY <5>1, <5>2
      <4> QED BY <3>1, <4>3, <4>4
    <3>4. Up(m, g)
      <4>1. g = [n \in 0 .. m |-> g[n]]
        OBVIOUS
      <4> HIDE DEF g
      <4> QED BY <3>3, <4>1
    <3> HIDE DEF Up, g
    <3> QED BY <2>1, <3>4
  <2> QED BY <2>2, <2>3
<1>3. \E g : UpPairs(leaf, proof, g)
  <2>1. \E g : Up(Len(proof), g)
    BY <1>1, <1>2
  <2> QED BY <2>1 DEF UpPairs
<1>4. FromPairs(leaf, proof) = (CHOOSE g : UpPairs(leaf, proof, g))[Len(proof)]
  BY DEF FromPairs, UpPairs
<1> QED BY <1>3, <1>4

\* So the pairs are taken one by one.
LEMMA PairsTaken ==
    ASSUME NEW leaf, NEW proof, IsList(proof), NEW pair
    PROVE  FromPairs(leaf, <<pair>> \o proof) = Joined(pair, FromPairs(leaf, proof))
<1> PICK more : more = <<pair>> \o proof
  OBVIOUS
<1>1. /\ IsList(more) /\ Len(more) = Len(proof) + 1 /\ Len(proof) \in Nat
      /\ more[1] = pair /\ \A k \in 1 .. Len(proof) : more[k + 1] = proof[k]
  <2>1. Len(proof) \in Nat
    BY ListFacts
  <2>2. /\ IsList(<<pair>> \o proof) /\ Len(<<pair>> \o proof) = Len(proof) + 1
        /\ (<<pair>> \o proof)[1] = pair
        /\ \A k \in 1 .. Len(proof) : (<<pair>> \o proof)[k + 1] = proof[k]
    BY ListPrefixed
  <2> QED BY ONLY <2>1, <2>2, more = <<pair>> \o proof
<1>2. PICK g : FromPairs(leaf, proof) = g[Len(proof)] /\ UpPairs(leaf, proof, g)
  BY PairsGoUp
<1>3. PICK h : FromPairs(leaf, more) = h[Len(more)] /\ UpPairs(leaf, more, h)
  BY <1>1, PairsGoUp
<1>4. \A n \in 0 .. Len(proof) :
          g[n] = IF n = 0 THEN leaf ELSE Joined(proof[Len(proof) - n + 1], g[n - 1])
  BY <1>2 DEF UpPairs
<1>5. \A n \in 0 .. Len(more) :
          h[n] = IF n = 0 THEN leaf ELSE Joined(more[Len(more) - n + 1], h[n - 1])
  BY <1>3 DEF UpPairs
<1> DEFINE B == {n \in 0 .. Len(proof) : g[n] # h[n]}
<1>6. ASSUME B # {} PROVE FALSE
  <2>1. PICK n \in B : \A k \in B : n <= k
    <3>1. B \subseteq Nat
      BY <1>1
    <3> HIDE DEF B
    <3> QED BY <1>6, <3>1, SmallestNat
  <2>2. /\ n \in 0 .. Len(proof) /\ n \in 0 .. Len(more) /\ g[n] # h[n]
        /\ n # 0 => n - 1 \in 0 .. Len(proof) /\ n - 1 \notin B
    BY <1>1, <2>1
  <2>3. n # 0
    BY <1>4, <1>5, <2>2
  <2>4. g[n - 1] = h[n - 1]
    BY <2>2, <2>3
  <2>5. more[Len(more) - n + 1] = proof[Len(proof) - n + 1]
    <3>1. Len(proof) - n + 1 \in 1 .. Len(proof)
          /\ Len(more) - n + 1 = (Len(proof) - n + 1) + 1
      BY <1>1, <2>2, <2>3
    <3> QED BY <1>1, <3>1
  <2>6. g[n] = Joined(proof[Len(proof) - n + 1], g[n - 1])
        /\ h[n] = Joined(more[Len(more) - n + 1], h[n - 1])
    BY <1>4, <1>5, <2>2, <2>3
  <2> QED BY <2>2, <2>4, <2>5, <2>6
<1>7. g[Len(proof)] = h[Len(proof)]
  BY <1>1, <1>6
<1>8. h[Len(more)] = Joined(more[1], h[Len(proof)])
  <2>1. Len(more) \in 0 .. Len(more) /\ Len(more) # 0 /\ Len(more) - Len(more) + 1 = 1
        /\ Len(more) - 1 = Len(proof)
    BY <1>1
  <2> QED BY <1>5, <2>1
<1> QED BY <1>1, <1>2, <1>3, <1>7, <1>8

\* Without pairs the leaf is the root.
LEMMA NoPairs == ASSUME NEW leaf PROVE FromPairs(leaf, <<>>) = leaf
<1>1. IsList(<<>>) /\ Len(<<>>) = 0
  BY DEF IsList
<1>2. PICK g : FromPairs(leaf, <<>>) = g[0] /\ UpPairs(leaf, <<>>, g)
  BY <1>1, PairsGoUp
<1> QED BY <1>1, <1>2 DEF UpPairs
-----------------------------------------------------------------------------
(* The same for the other form of the proof.                               *)

UpItems(leaf, proof, g) ==
    g = [n \in 0 .. Len(proof) |->
            IF n = 0 THEN leaf ELSE Extended(proof[Len(proof) - n + 1], g[n - 1])]

\* Such a function exists for the end of any list, however long.
LEMMA ItemsGoUp ==
    ASSUME NEW leaf, NEW proof, IsList(proof)
    PROVE  LET node == CHOOSE g : UpItems(leaf, proof, g)
           IN  FromItems(leaf, proof) = node[Len(proof)] /\ UpItems(leaf, proof, node)
<1>1. Len(proof) \in Nat
  BY ListFacts
<1> DEFINE Up(m, g) ==
        g = [n \in 0 .. m |->
                IF n = 0 THEN leaf ELSE Extended(proof[Len(proof) - n + 1], g[n - 1])]
           B == {m \in Nat : ~ \E g : Up(m, g)}
<1>2. ASSUME B # {} PROVE FALSE
  <2>1. PICK m \in B : \A k \in B : m <= k
    <3>1. B \subseteq Nat
      OBVIOUS
    <3> HIDE DEF B
    <3> QED BY <1>2, <3>1, SmallestNat
  <2>2. CASE m = 0
    <3> DEFINE g == [n \in 0 .. 0 |-> leaf]
    <3>1. Up(0, g)
      OBVIOUS
    <3> HIDE DEF Up
    <3> QED BY <2>1, <2>2, <3>1
  <2>3. CASE m # 0
    <3>1. m \in Nat /\ m - 1 \in Nat /\ ~(m <= m - 1)
      BY <2>3
    <3>2. PICK h : Up(m - 1, h)
      <4> HIDE DEF Up
      <4>1. m - 1 \notin B
        <5> HIDE DEF B
        <5> QED BY <2>1, <3>1
      <4> QED BY <3>1, <4>1
    <3> DEFINE g == [n \in 0 .. m |-> IF n = m THEN Extended(proof[Len(proof) - m + 1], h[m - 1])
                                      ELSE h[n]]
    <3>3. ASSUME NEW n \in 0 .. m
          PROVE  g[n] = IF n = 0 THEN leaf ELSE Extended(proof[Len(proof) - n + 1], g[n - 1])
      <4>1. n < m => n \in 0 .. m - 1 /\ (n # 0 => n - 1 \in 0 .. m /\ n - 1 # m)
        BY <3>1
      <4>2. m - 1 \in 0 .. m /\ m - 1 # m
        BY <3>1
      <4>3. CASE n = m
        BY <2>3, <4>2, <4>3
      <4>4. CASE n < m
        <5>1. h[n] = IF n = 0 THEN leaf ELSE Extended(proof[Len(proof) - n + 1], h[n - 1])
          BY <3>2, <4>1, <4>4
        <5>2. g[n] = h[n] /\ (n # 0 => g[n - 1] = h[n - 1])
          BY <3>1, <4>1, <4>4
        <5> QED BY <5>1, <5>2
      <4> QED BY <3>1, <4>3, <4>4
    <3>4. Up(m, g)
      <4>1. g = [n \in 0 .. m |-> g[n]]
        OBVIOUS
      <4> HIDE DEF g
      <4> QED BY <3>3, <4>1
    <3> HIDE DEF Up, g
    <3> QED BY <2>1, <3>4
  <2> QED BY <2>2, <2>3
<1>3. \E g : UpItems(leaf, proof, g)
  <2>1. \E g : Up(Len(proof), g)
    BY <1>1, <1>2
  <2> QED BY <2>1 DEF UpItems
<1>4. FromItems(leaf, proof) = (CHOOSE g : UpItems(leaf, proof, g))[Len(proof)]
  BY DEF FromItems, UpItems
<1> QED BY <1>3, <1>4

\* So the items are taken one by one.
LEMMA ItemsTaken ==
    ASSUME NEW leaf, NEW proof, IsList(proof), NEW item
    PROVE  FromItems(leaf, <<item>> \o proof) = Extended(item, FromItems(leaf, proof))
<1> PICK more : more = <<item>> \o proof
  OBVIOUS
<1>1. /\ IsList(more) /\ Len(more) = Len(proof) + 1 /\ Len(proof) \in Nat
      /\ more[1] = item /\ \A k \in 1 .. Len(proof) : more[k + 1] = proof[k]
  <2>1. Len(proof) \in Nat
    BY ListFacts
  <2>2. /\ IsList(<<item>> \o proof) /\ Len(<<item>> \o proof) = Len(proof) + 1
        /\ (<<item>> \o proof)[1] = item
        /\ \A k \in 1 .. Len(proof) : (<<item>> \o proof)[k + 1] = proof[k]
    BY ListPrefixed
  <2> QED BY ONLY <2>1, <2>2, more = <<item>> \o proof
<1>2. PICK g : FromItems(leaf, proof) = g[Len(proof)] /\ UpItems(leaf, proof, g)
  BY ItemsGoUp
<1>3. PICK h : FromItems(leaf, more) = h[Len(more)] /\ UpItems(leaf, more, h)
  BY <1>1, ItemsGoUp
<1>4. \A n \in 0 .. Len(proof) :
          g[n] = IF n = 0 THEN leaf ELSE Extended(proof[Len(proof) - n + 1], g[n - 1])
  BY <1>2 DEF UpItems
<1>5. \A n \in 0 .. Len(more) :
          h[n] = IF n = 0 THEN leaf ELSE Extended(more[Len(more) - n + 1], h[n - 1])
  BY <1>3 DEF UpItems
<1> DEFINE B == {n \in 0 .. Len(proof) : g[n] # h[n]}
<1>6. ASSUME B # {} PROVE FALSE
  <2>1. PICK n \in B : \A k \in B : n <= k
    <3>1. B \subseteq Nat
      BY <1>1
    <3> HIDE DEF B
    <3> QED BY <1>6, <3>1, SmallestNat
  <2>2. /\ n \in 0 .. Len(proof) /\ n \in 0 .. Len(more) /\ g[n] # h[n]
        /\ n # 0 => n - 1 \in 0 .. Len(proof) /\ n - 1 \notin B
    BY <1>1, <2>1
  <2>3. n # 0
    BY <1>4, <1>5, <2>2
  <2>4. g[n - 1] = h[n - 1]
    BY <2>2, <2>3
  <2>5. more[Len(more) - n + 1] = proof[Len(proof) - n + 1]
    <3>1. Len(proof) - n + 1 \in 1 .. Len(proof)
          /\ Len(more) - n + 1 = (Len(proof) - n + 1) + 1
      BY <1>1, <2>2, <2>3
    <3> QED BY <1>1, <3>1
  <2>6. g[n] = Extended(proof[Len(proof) - n + 1], g[n - 1])
        /\ h[n] = Extended(more[Len(more) - n + 1], h[n - 1])
    BY <1>4, <1>5, <2>2, <2>3
  <2> QED BY <2>2, <2>4, <2>5, <2>6
<1>7. g[Len(proof)] = h[Len(proof)]
  BY <1>1, <1>6
<1>8. h[Len(more)] = Extended(more[1], h[Len(proof)])
  <2>1. Len(more) \in 0 .. Len(more) /\ Len(more) # 0 /\ Len(more) - Len(more) + 1 = 1
        /\ Len(more) - 1 = Len(proof)
    BY <1>1
  <2> QED BY <1>5, <2>1
<1> QED BY <1>1, <1>2, <1>3, <1>7, <1>8

\* Without items the leaf is the root.
LEMMA NoItems == ASSUME NEW leaf PROVE FromItems(leaf, <<>>) = leaf
<1>1. IsList(<<>>) /\ Len(<<>>) = 0
  BY DEF IsList
<1>2. PICK g : FromItems(leaf, <<>>) = g[0] /\ UpItems(leaf, <<>>, g)
  BY <1>1, ItemsGoUp
<1> QED BY <1>1, <1>2 DEF UpItems
-----------------------------------------------------------------------------
(* The walk up the tree.                                                   *)

\* One level up: from a node and the proof below it.
ClimbPair(level, at) ==
    [index |-> at.index \div 2,
     proof |-> IF Sibling(at.index) >= Len(level) THEN at.proof
               ELSE <<Pair(level, at.index)>> \o at.proof]

WalksPair(levels, i, g) ==
    g = [n \in 0 .. Len(levels) - 1 |->
            IF n = 0 THEN [index |-> i, proof |-> <<>>] ELSE ClimbPair(levels[n], g[n - 1])]

\* Such a walk exists up any levels, however many.
LEMMA WalkOfPair ==
    ASSUME NEW levels, IsList(levels), Len(levels) # 0, NEW i
    PROVE  LET walk == CHOOSE g : WalksPair(levels, i, g)
           IN  GetProof(levels, i) = walk[Len(levels) - 1].proof /\ WalksPair(levels, i, walk)
<1>1. Len(levels) - 1 \in Nat
  BY ListFacts
<1> DEFINE Up(m, g) ==
        g = [n \in 0 .. m |->
                IF n = 0 THEN [index |-> i, proof |-> <<>>] ELSE ClimbPair(levels[n], g[n - 1])]
           B == {m \in Nat : ~ \E g : Up(m, g)}
<1>2. ASSUME B # {} PROVE FALSE
  <2>1. PICK m \in B : \A k \in B : m <= k
    <3>1. B \subseteq Nat
      OBVIOUS
    <3> HIDE DEF B
    <3> QED BY <1>2, <3>1, SmallestNat
  <2>2. CASE m = 0
    <3> DEFINE g == [n \in 0 .. 0 |-> [index |-> i, proof |-> <<>>]]
    <3>1. Up(0, g)
      OBVIOUS
    <3> HIDE DEF Up
    <3> QED BY <2>1, <2>2, <3>1
  <2>3. CASE m # 0
    <3>1. m \in Nat /\ m - 1 \in Nat /\ ~(m <= m - 1)
      BY <2>3
    <3>2. PICK h : Up(m - 1, h)
      <4> HIDE DEF Up
      <4>1. m - 1 \notin B
        <5> HIDE DEF B
        <5> QED BY <2>1, <3>1
      <4> QED BY <3>1, <4>1
    <3> DEFINE g == [n \in 0 .. m |-> IF n = m THEN ClimbPair(levels[m], h[m - 1]) ELSE h[n]]
    <3>3. ASSUME NEW n \in 0 .. m
          PROVE  g[n] = IF n = 0 THEN [index |-> i, proof |-> <<>>] ELSE ClimbPair(levels[n], g[n - 1])
      <4>1. n < m => n \in 0 .. m - 1 /\ (n # 0 => n - 1 \in 0 .. m /\ n - 1 # m)
        BY <3>1
      <4>2. m - 1 \in 0 .. m /\ m - 1 # m
        BY <3>1
      <4>3. CASE n = m
        BY <2>3, <4>2, <4>3
      <4>4. CASE n < m
        <5>1. h[n] = IF n = 0 THEN [index |-> i, proof |-> <<>>] ELSE ClimbPair(levels[n], h[n - 1])
          BY <3>2, <4>1, <4>4
        <5>2. g[n] = h[n] /\ (n # 0 => g[n - 1] = h[n - 1])
          BY <3>1, <4>1, <4>4
        <5> QED BY <5>1, <5>2
      <4> QED BY <3>1, <4>3, <4>4
    <3>4. Up(m, g)
      <4>1. g = [n \in 0 .. m |-> g[n]]
        OBVIOUS
      <4> HIDE DEF g
      <4> QED BY <3>3, <4>1
    <3> HIDE DEF Up, g
    <3> QED BY <2>1, <3>4
  <2> QED BY <2>2, <2>3
<1>3. \E g : WalksPair(levels, i, g)
  <2>1. \E g : Up(Len(levels) - 1, g)
    BY <1>1, <1>2
  <2> QED BY <2>1 DEF WalksPair
<1>4. GetProof(levels, i) = (CHOOSE g : WalksPair(levels, i, g))[Len(levels) - 1].proof
  BY DEF GetProof, WalksPair, ClimbPair
<1> QED BY <1>3, <1>4

-----------------------------------------------------------------------------
(* The same of GetMerkleProof.                                             *)

\* One level up: from a node and the proof below it.
ClimbItem(level, at) ==
    [index |-> at.index \div 2,
     proof |-> IF Sibling(at.index) >= Len(level) THEN at.proof
               ELSE <<Item(level, at.index)>> \o at.proof]

WalksItem(levels, i, g) ==
    g = [n \in 0 .. Len(levels) - 1 |->
            IF n = 0 THEN [index |-> i, proof |-> <<>>] ELSE ClimbItem(levels[n], g[n - 1])]

\* Such a walk exists up any levels, however many.
LEMMA WalkOfItem ==
    ASSUME NEW levels, IsList(levels), Len(levels) # 0, NEW i
    PROVE  LET walk == CHOOSE g : WalksItem(levels, i, g)
           IN  GetMerkleProof(levels, i) = walk[Len(levels) - 1].proof /\ WalksItem(levels, i, walk)
<1>1. Len(levels) - 1 \in Nat
  BY ListFacts
<1> DEFINE Up(m, g) ==
        g = [n \in 0 .. m |->
                IF n = 0 THEN [index |-> i, proof |-> <<>>] ELSE ClimbItem(levels[n], g[n - 1])]
           B == {m \in Nat : ~ \E g : Up(m, g)}
<1>2. ASSUME B # {} PROVE FALSE
  <2>1. PICK m \in B : \A k \in B : m <= k
    <3>1. B \subseteq Nat
      OBVIOUS
    <3> HIDE DEF B
    <3> QED BY <1>2, <3>1, SmallestNat
  <2>2. CASE m = 0
    <3> DEFINE g == [n \in 0 .. 0 |-> [index |-> i, proof |-> <<>>]]
    <3>1. Up(0, g)
      OBVIOUS
    <3> HIDE DEF Up
    <3> QED BY <2>1, <2>2, <3>1
  <2>3. CASE m # 0
    <3>1. m \in Nat /\ m - 1 \in Nat /\ ~(m <= m - 1)
      BY <2>3
    <3>2. PICK h : Up(m - 1, h)
      <4> HIDE DEF Up
      <4>1. m - 1 \notin B
        <5> HIDE DEF B
        <5> QED BY <2>1, <3>1
      <4> QED BY <3>1, <4>1
    <3> DEFINE g == [n \in 0 .. m |-> IF n = m THEN ClimbItem(levels[m], h[m - 1]) ELSE h[n]]
    <3>3. ASSUME NEW n \in 0 .. m
          PROVE  g[n] = IF n = 0 THEN [index |-> i, proof |-> <<>>] ELSE ClimbItem(levels[n], g[n - 1])
      <4>1. n < m => n \in 0 .. m - 1 /\ (n # 0 => n - 1 \in 0 .. m /\ n - 1 # m)
        BY <3>1
      <4>2. m - 1 \in 0 .. m /\ m - 1 # m
        BY <3>1
      <4>3. CASE n = m
        BY <2>3, <4>2, <4>3
      <4>4. CASE n < m
        <5>1. h[n] = IF n = 0 THEN [index |-> i, proof |-> <<>>] ELSE ClimbItem(levels[n], h[n - 1])
          BY <3>2, <4>1, <4>4
        <5>2. g[n] = h[n] /\ (n # 0 => g[n - 1] = h[n - 1])
          BY <3>1, <4>1, <4>4
        <5> QED BY <5>1, <5>2
      <4> QED BY <3>1, <4>3, <4>4
    <3>4. Up(m, g)
      <4>1. g = [n \in 0 .. m |-> g[n]]
        OBVIOUS
      <4> HIDE DEF g
      <4> QED BY <3>3, <4>1
    <3> HIDE DEF Up, g
    <3> QED BY <2>1, <3>4
  <2> QED BY <2>2, <2>3
<1>3. \E g : WalksItem(levels, i, g)
  <2>1. \E g : Up(Len(levels) - 1, g)
    BY <1>1, <1>2
  <2> QED BY <2>1 DEF WalksItem
<1>4. GetMerkleProof(levels, i) = (CHOOSE g : WalksItem(levels, i, g))[Len(levels) - 1].proof
  BY DEF GetMerkleProof, WalksItem, ClimbItem
<1> QED BY <1>3, <1>4

-----------------------------------------------------------------------------
(* The tree.                                                               *)

\* Half of an index.
LEMMA Half ==
    ASSUME NEW n \in Nat, n > 1, NEW i \in 0 .. n - 1
    PROVE  /\ (n + 1) \div 2 \in 1 .. n - 1
           /\ i \div 2 \in 0 .. (n + 1) \div 2 - 1
           /\ i % 2 = 0 => 2 * (i \div 2) = i
           /\ i % 2 # 0 => 2 * (i \div 2) + 1 = i
           /\ Sibling(i) \in Nat
           /\ (Sibling(i) >= n) <=> (2 * (i \div 2) + 2 > n)
  BY DEF Sibling

\* What stands above a node: it and its sibling, or itself if it has none.
Above(level, i) ==
    IF Sibling(i) >= Len(level) THEN At(level, i)
    ELSE IF i % 2 = 0 THEN Hash(At(level, i), At(level, Sibling(i)))
    ELSE Hash(At(level, Sibling(i)), At(level, i))

\* The next level has fewer nodes, and above each node stands what Above says.
LEMMA LevelAbove ==
    ASSUME NEW level, IsList(level), Len(level) > 1
    PROVE  /\ IsList(NextLevel(level)) /\ Len(NextLevel(level)) \in 1 .. Len(level) - 1
           /\ \A i \in 0 .. Len(level) - 1 :
                 /\ i \div 2 \in 0 .. Len(NextLevel(level)) - 1
                 /\ At(NextLevel(level), i \div 2) = Above(level, i)
<1> PICK n : n = Len(level)
  OBVIOUS
<1> DEFINE m == (n + 1) \div 2
<1>1. n \in Nat /\ n > 1
  BY ListFacts
<1>2. m \in 1 .. n - 1
  <2>1. 0 \in 0 .. n - 1
    BY <1>1
  <2> QED BY <1>1, <2>1, Half
<1>3. NextLevel(level) =
          [k \in 1 .. m |-> IF 2 * k <= n THEN Hash(level[2 * k - 1], level[2 * k])
                            ELSE level[2 * k - 1]]
  BY DEF NextLevel
<1> PICK next : next = NextLevel(level)
  OBVIOUS
<1>4. IsList(next) /\ Len(next) = m
  <2>1. next = [k \in 1 .. m |-> next[k]]
    BY <1>3
  <2>2. m \in Nat
    BY <1>1, <1>2
  <2> HIDE DEF m
  <2> QED BY <2>1, <2>2, ListOf
<1>5. ASSUME NEW i \in 0 .. n - 1
      PROVE  i \div 2 \in 0 .. m - 1 /\ At(next, i \div 2) = Above(level, i)
  <2> PICK j : j = i \div 2
    OBVIOUS
  <2>1. /\ j \in 0 .. m - 1
        /\ i % 2 = 0 => 2 * j = i
        /\ i % 2 # 0 => 2 * j + 1 = i
        /\ Sibling(i) \in Nat
        /\ (Sibling(i) >= n) <=> (2 * j + 2 > n)
    BY <1>1, Half
  <2>2. At(next, j) = IF 2 * (j + 1) <= n THEN Hash(level[2 * (j + 1) - 1], level[2 * (j + 1)])
                      ELSE level[2 * (j + 1) - 1]
    <3>1. j + 1 \in 1 .. m
      BY <1>2, <2>1
    <3> QED BY <1>3, <3>1 DEF At
  <2>3. j \in Nat /\ i \in Nat /\ n \in Nat /\ 2 * (j + 1) = 2 * j + 2
        /\ 2 * (j + 1) - 1 = 2 * j + 1
    BY <1>1, <1>2, <2>1
  <2>4. CASE Sibling(i) >= n
    <3>1. ~(2 * (j + 1) <= n)
      BY <2>1, <2>3, <2>4
    <3>2. 2 * j + 1 = i + 1
      BY <2>1, <2>3, <2>4 DEF Sibling
    <3> QED BY <2>1, <2>2, <2>3, <2>4, <3>1, <3>2 DEF Above, At
  <2>5. CASE ~(Sibling(i) >= n) /\ i % 2 = 0
    <3>1. 2 * (j + 1) <= n /\ 2 * (j + 1) - 1 = i + 1 /\ 2 * (j + 1) = Sibling(i) + 1
      BY <2>1, <2>3, <2>5 DEF Sibling
    <3> QED BY <2>1, <2>2, <2>5, <3>1 DEF Above, At
  <2>6. CASE ~(Sibling(i) >= n) /\ i % 2 # 0
    <3>1. 2 * (j + 1) <= n /\ 2 * (j + 1) - 1 = Sibling(i) + 1 /\ 2 * (j + 1) = i + 1
      BY <2>1, <2>3, <2>6 DEF Sibling
    <3> QED BY <2>1, <2>2, <2>6, <3>1 DEF Above, At
  <2> QED BY <2>1, <2>4, <2>5, <2>6
<1> QED BY <1>2, <1>4, <1>5

\* The levels of a tree, up to any of them.
IsTree(levels, leaves) ==
    /\ IsList(levels) /\ Len(levels) # 0 /\ levels[1] = leaves
    /\ \A n \in 1 .. Len(levels) : IsList(levels[n]) /\ Len(levels[n]) # 0
    /\ \A n \in 1 .. Len(levels) - 1 :
          Len(levels[n]) > 1 /\ levels[n + 1] = NextLevel(levels[n])

\* One round.
Grown(levels) ==
    IF Len(Last(levels)) > 1 THEN Append(levels, NextLevel(Last(levels))) ELSE levels

\* A round of the loop leaves a tree, with a shorter top if there was more than one node.
LEMMA GrownIsTree ==
    ASSUME NEW levels, NEW leaves, IsTree(levels, leaves)
    PROVE  /\ IsTree(Grown(levels), leaves)
           /\ Len(Last(levels)) > 1 => Len(Last(Grown(levels))) < Len(Last(levels))
           /\ Len(Last(levels)) <= 1 => Grown(levels) = levels
<1> PICK n : n = Len(levels)
  OBVIOUS
<1>1. n \in Nat \ {0} /\ IsList(levels) /\ Last(levels) = levels[n]
  BY ListFacts DEF IsTree, Last
<1>2. CASE ~(Len(levels[n]) > 1)
  BY <1>1, <1>2 DEF Grown
<1>3. CASE Len(levels[n]) > 1
  <2> PICK top : top = NextLevel(levels[n])
    OBVIOUS
  <2> PICK more : more = Append(levels, top)
    OBVIOUS
  <2>1. /\ IsList(more) /\ Len(more) = n + 1 /\ more[n + 1] = top
        /\ \A k \in 1 .. n : more[k] = levels[k]
    BY <1>1, ListAppended
  <2>2. n \in 1 .. n /\ IsList(levels[n])
    BY <1>1 DEF IsTree
  <2>3. IsList(top) /\ Len(top) \in 1 .. Len(levels[n]) - 1 /\ Len(levels[n]) \in Nat
    BY <1>3, <2>2, LevelAbove, ListFacts
  <2>4. more[1] = leaves
    BY <1>1, <2>1 DEF IsTree
  <2>5. \A k \in 1 .. n + 1 : IsList(more[k]) /\ Len(more[k]) # 0
    <3>1. ASSUME NEW k \in 1 .. n PROVE IsList(more[k]) /\ Len(more[k]) # 0
      BY <2>1 DEF IsTree
    <3>2. IsList(more[n + 1]) /\ Len(more[n + 1]) # 0
      BY <2>1, <2>3
    <3> QED BY <1>1, <3>1, <3>2
  <2>6. \A k \in 1 .. n : Len(more[k]) > 1 /\ more[k + 1] = NextLevel(more[k])
    <3>1. ASSUME NEW k \in 1 .. n - 1
          PROVE  Len(more[k]) > 1 /\ more[k + 1] = NextLevel(more[k])
      <4>1. k \in 1 .. n /\ k + 1 \in 1 .. n
        BY <1>1
      <4> QED BY <2>1, <4>1 DEF IsTree
    <3>2. Len(more[n]) > 1 /\ more[n + 1] = NextLevel(more[n])
      BY <1>3, <2>1, <2>2
    <3> QED BY <1>1, <3>1, <3>2
  <2>7. IsTree(more, leaves)
    <3>1. Len(more) - 1 = n /\ Len(more) # 0
      BY <1>1, <2>1
    <3> QED BY <2>1, <2>4, <2>5, <2>6, <3>1 DEF IsTree
  <2>8. Grown(levels) = more /\ Last(more) = top
    BY <1>1, <1>3, <2>1 DEF Grown, Last
  <2>9. Len(top) < Len(levels[n]) /\ ~(Len(levels[n]) <= 1)
    BY <1>3, <2>3
  <2> QED BY <1>1, <2>7, <2>8, <2>9
<1>4. Len(levels[n]) \in Nat
  <2>1. n \in 1 .. n
    BY <1>1
  <2> QED BY <2>1, ListFacts DEF IsTree
<1> QED BY <1>1, <1>2, <1>3, <1>4

\* The rounds of the loop.
Builds(leaves, g) ==
    g = [n \in 1 .. Len(leaves) |-> IF n = 1 THEN <<leaves>> ELSE Grown(g[n - 1])]

\* After so many rounds there is a tree; its top has one node, or lost as many.
TreeAfter(leaves, n, levels) ==
    /\ IsTree(levels, leaves)
    /\ Len(Last(levels)) <= 1 \/ Len(Last(levels)) + n <= Len(leaves) + 1

\* Build unfolds to its recursion.
LEMMA BuildGoes ==
    ASSUME NEW leaves, IsList(leaves), Len(leaves) # 0
    PROVE  LET tree == CHOOSE g : Builds(leaves, g)
           IN  Build(leaves) = tree[Len(leaves)] /\ Builds(leaves, tree)
<1>1. Len(leaves) \in Nat \ {0}
  BY ListFacts
<1> DEFINE Up(m, g) == g = [n \in 1 .. m |-> IF n = 1 THEN <<leaves>> ELSE Grown(g[n - 1])]
           B == {m \in Nat : ~ \E g : Up(m, g)}
<1>2. ASSUME B # {} PROVE FALSE
  <2>1. PICK m \in B : \A k \in B : m <= k
    <3>1. B \subseteq Nat
      OBVIOUS
    <3> HIDE DEF B
    <3> QED BY <1>2, <3>1, SmallestNat
  <2>2. CASE m = 0
    <3> DEFINE g == [n \in 1 .. 0 |-> <<leaves>>]
    <3>1. Up(0, g)
      OBVIOUS
    <3> HIDE DEF Up
    <3> QED BY <2>1, <2>2, <3>1
  <2>3. CASE m # 0
    <3>1. m \in Nat /\ m - 1 \in Nat /\ ~(m <= m - 1)
      BY <2>3
    <3>2. PICK h : Up(m - 1, h)
      <4> HIDE DEF Up
      <4>1. m - 1 \notin B
        <5> HIDE DEF B
        <5> QED BY <2>1, <3>1
      <4> QED BY <3>1, <4>1
    <3> PICK last : last = IF m = 1 THEN <<leaves>> ELSE Grown(h[m - 1])
      OBVIOUS
    <3> DEFINE g == [n \in 1 .. m |-> IF n = m THEN last ELSE h[n]]
    <3>3. ASSUME NEW n \in 1 .. m
          PROVE  g[n] = IF n = 1 THEN <<leaves>> ELSE Grown(g[n - 1])
      <4>1. n < m => n \in 1 .. m - 1 /\ (n # 1 => n - 1 \in 1 .. m /\ n - 1 # m)
        BY <3>1
      <4>2. m # 1 => m - 1 \in 1 .. m /\ m - 1 # m
        BY <3>1
      <4>3. CASE n = m
        BY <2>3, <4>2, <4>3
      <4>4. CASE n < m
        <5>1. h[n] = IF n = 1 THEN <<leaves>> ELSE Grown(h[n - 1])
          BY <3>2, <4>1, <4>4
        <5>2. g[n] = h[n] /\ (n # 1 => g[n - 1] = h[n - 1])
          BY <3>1, <4>1, <4>4
        <5> QED BY <5>1, <5>2
      <4> QED BY <3>1, <4>3, <4>4
    <3>4. Up(m, g)
      <4>1. g = [n \in 1 .. m |-> g[n]]
        OBVIOUS
      <4> HIDE DEF g
      <4> QED BY <3>3, <4>1
    <3> HIDE DEF Up, g
    <3> QED BY <2>1, <3>4
  <2> QED BY <2>2, <2>3
<1>3. Build(leaves) = (CHOOSE g : Builds(leaves, g))[Len(leaves)]
  BY DEF Build, Builds, Grown
<1>4. \E g : Builds(leaves, g)
  <2>1. \E g : Up(Len(leaves), g)
    BY <1>1, <1>2
  <2> QED BY <2>1 DEF Builds
<1> QED BY <1>3, <1>4

\* After as many rounds as there are leaves the loop of Build has stopped, at one node.
LEMMA BuildStops ==
    ASSUME NEW leaves, IsList(leaves), Len(leaves) # 0
    PROVE  IsTree(Build(leaves), leaves) /\ Len(Last(Build(leaves))) = 1
<1>1. Len(leaves) \in Nat \ {0}
  BY ListFacts
<1>0. TreeAfter(leaves, 1, <<leaves>>)
  <2> PICK one : one = <<leaves>>
    OBVIOUS
  <2>1. one \in Seq({leaves}) /\ Len(one) = 1 /\ one[1] = leaves
    OBVIOUS
  <2>2. IsList(one)
    BY <2>1 DEF IsList
  <2>3. IsTree(one, leaves)
    BY <2>1, <2>2 DEF IsTree
  <2>4. Last(one) = leaves
    BY <2>1 DEF Last
  <2>5. Len(leaves) + 1 <= Len(leaves) + 1
    BY <1>1
  <2> QED BY <2>3, <2>4, <2>5 DEF TreeAfter
<1> PICK g : Build(leaves) = g[Len(leaves)] /\ Builds(leaves, g)
  BY BuildGoes
<1>2. \A n \in 1 .. Len(leaves) : g[n] = IF n = 1 THEN <<leaves>> ELSE Grown(g[n - 1])
  BY DEF Builds
<1>3. ASSUME NEW T, IsTree(T, leaves) PROVE Len(Last(T)) \in Nat \ {0}
  <2>1. Len(T) \in 1 .. Len(T) /\ Last(T) = T[Len(T)]
    <3>1. IsList(T) /\ Len(T) # 0
      BY <1>3 DEF IsTree
    <3>2. Len(T) \in Nat
      BY <3>1, ListFacts
    <3> QED BY <3>1, <3>2 DEF Last
  <2>2. IsList(Last(T)) /\ Len(Last(T)) # 0
    BY <1>3, <2>1 DEF IsTree
  <2>3. Len(Last(T)) \in Nat
    BY <2>2, ListFacts
  <2> QED BY <2>2, <2>3
<1>4. ASSUME NEW n \in Nat, NEW low, TreeAfter(leaves, n, low)
      PROVE  TreeAfter(leaves, n + 1, Grown(low))
  <2>1. /\ IsTree(Grown(low), leaves)
        /\ Len(Last(low)) > 1 => Len(Last(Grown(low))) < Len(Last(low))
        /\ Len(Last(low)) <= 1 => Grown(low) = low
    BY <1>4, GrownIsTree DEF TreeAfter
  <2>2. Len(Last(low)) \in Nat /\ Len(Last(Grown(low))) \in Nat
    BY <1>3, <1>4, <2>1 DEF TreeAfter
  <2>3. CASE Len(Last(low)) <= 1
    BY <2>1, <2>3 DEF TreeAfter
  <2>4. CASE ~(Len(Last(low)) <= 1)
    <3>1. Len(Last(low)) + n <= Len(leaves) + 1
      BY <1>4, <2>4 DEF TreeAfter
    <3>2. Len(Last(Grown(low))) < Len(Last(low))
      BY <2>1, <2>2, <2>4
    <3>3. Len(Last(Grown(low))) + (n + 1) <= Len(leaves) + 1
      BY <1>1, <2>2, <3>1, <3>2
    <3> QED BY <2>1, <3>3 DEF TreeAfter
  <2> QED BY <2>3, <2>4
<1> DEFINE B == {n \in 1 .. Len(leaves) : ~TreeAfter(leaves, n, g[n])}
<1>5. ASSUME B # {} PROVE FALSE
  <2>1. PICK n \in B : \A k \in B : n <= k
    <3>1. B \subseteq Nat
      BY <1>1
    <3> HIDE DEF B
    <3> QED BY <1>5, <3>1, SmallestNat
  <2>2. n \in 1 .. Len(leaves) /\ ~TreeAfter(leaves, n, g[n])
    BY <2>1
  <2>3. n # 1
    BY <1>0, <1>2, <2>2
  <2>4. n - 1 \in 1 .. Len(leaves) /\ n - 1 \in Nat /\ (n - 1) + 1 = n /\ ~(n <= n - 1)
    BY <1>1, <2>2, <2>3
  <2>5. n - 1 \notin B
    <3> HIDE DEF B
    <3> QED BY <2>1, <2>4
  <2>6. TreeAfter(leaves, n - 1, g[n - 1])
    BY <2>4, <2>5
  <2>7. TreeAfter(leaves, n, Grown(g[n - 1]))
    BY <1>4, <2>4, <2>6
  <2> QED BY <1>2, <2>2, <2>3, <2>7
<1>6. TreeAfter(leaves, Len(leaves), Build(leaves))
  BY <1>1, <1>5
<1>7. Len(Last(Build(leaves))) \in Nat \ {0} /\ IsTree(Build(leaves), leaves)
  BY <1>3, <1>6 DEF TreeAfter
<1>8. Len(Last(Build(leaves))) <= 1
  BY <1>1, <1>6, <1>7 DEF TreeAfter
<1>9. \A n \in Nat \ {0} : n <= 1 => n = 1
  OBVIOUS
<1> QED BY <1>7, <1>8, <1>9
-----------------------------------------------------------------------------
(* From a leaf to the root.                                                *)

\* After n levels the proof leads from the leaf to the node reached.
LeadsPair(levels, leaf, n, at) ==
    /\ at.index \in 0 .. Len(levels[n + 1]) - 1 /\ IsList(at.proof)
    /\ FromPairs(leaf, at.proof) = At(levels[n + 1], at.index)

\* One more level: the node above is joined from the pair, or promoted.
LEMMA OnePairLeads ==
    ASSUME NEW levels, NEW leaves, IsTree(levels, leaves), NEW leaf,
           NEW n \in 1 .. Len(levels) - 1, NEW at, LeadsPair(levels, leaf, n - 1, at)
    PROVE  LeadsPair(levels, leaf, n, ClimbPair(levels[n], at))
<1> PICK level : level = levels[n]
  OBVIOUS
<1> PICK i : i = at.index
  OBVIOUS
<1> PICK up : up = ClimbPair(level, at)
  OBVIOUS
<1>1. /\ Len(levels) \in Nat /\ n \in 1 .. Len(levels) /\ (n - 1) + 1 = n
  <2>1. Len(levels) \in Nat
    BY ListFacts DEF IsTree
  <2> QED BY <2>1
<1>2. IsList(level) /\ Len(level) > 1 /\ levels[n + 1] = NextLevel(level)
  BY <1>1 DEF IsTree
<1>3. i \in 0 .. Len(level) - 1 /\ IsList(at.proof) /\ FromPairs(leaf, at.proof) = At(level, i)
  BY <1>1 DEF LeadsPair
<1>4. /\ i \div 2 \in 0 .. Len(NextLevel(level)) - 1
      /\ At(NextLevel(level), i \div 2) = Above(level, i)
  BY <1>2, <1>3, LevelAbove
<1>5. /\ up.index = i \div 2
      /\ up.proof = IF Sibling(i) >= Len(level) THEN at.proof ELSE <<Pair(level, i)>> \o at.proof
  BY DEF ClimbPair
<1>6. CASE Sibling(i) >= Len(level)
  <2>1. Above(level, i) = At(level, i) /\ up.proof = at.proof
    BY <1>5, <1>6 DEF Above
  <2> QED BY <1>2, <1>3, <1>4, <1>5, <2>1 DEF LeadsPair
<1>7. CASE ~(Sibling(i) >= Len(level))
  <2>1. up.proof = <<Pair(level, i)>> \o at.proof
    BY <1>5, <1>7
  <2>2. IsList(up.proof)
    BY <1>3, <2>1, ListPrefixed
  <2>3. FromPairs(leaf, up.proof) = Joined(Pair(level, i), At(level, i))
    BY <1>3, <2>1, PairsTaken
  <2>4. Joined(Pair(level, i), At(level, i)) = Above(level, i)
    BY <1>3, <1>7 DEF Joined, Pair, Above
  <2> QED BY <1>2, <1>4, <1>5, <2>2, <2>3, <2>4 DEF LeadsPair
<1> QED BY <1>6, <1>7

\* So the proof leads to the root, where one node is left.
LEMMA PairProofLeads ==
    ASSUME NEW levels, NEW leaves, IsTree(levels, leaves), Len(Last(levels)) = 1,
           NEW i \in 0 .. Len(leaves) - 1
    PROVE  FromPairs(At(leaves, i), GetProof(levels, i)) = Root(levels)
<1> PICK leaf : leaf = At(leaves, i)
  OBVIOUS
<1>1. IsList(levels) /\ Len(levels) \in Nat \ {0} /\ levels[1] = leaves
  BY ListFacts DEF IsTree
<1> PICK g : GetProof(levels, i) = g[Len(levels) - 1].proof /\ WalksPair(levels, i, g)
  BY <1>1, WalkOfPair
<1>2. \A n \in 0 .. Len(levels) - 1 :
          g[n] = IF n = 0 THEN [index |-> i, proof |-> <<>>] ELSE ClimbPair(levels[n], g[n - 1])
  BY DEF WalksPair
<1>3. LeadsPair(levels, leaf, 0, g[0])
  <2>1. 0 \in 0 .. Len(levels) - 1
    BY <1>1
  <2>2. g[0].index = i /\ g[0].proof = <<>>
    BY <1>2, <2>1
  <2>3. IsList(<<>>)
    BY DEF IsList
  <2>4. FromPairs(leaf, <<>>) = leaf
    BY NoPairs
  <2> QED BY <1>1, <2>2, <2>3, <2>4 DEF LeadsPair
<1> DEFINE B == {n \in 0 .. Len(levels) - 1 : ~LeadsPair(levels, leaf, n, g[n])}
<1>4. ASSUME B # {} PROVE FALSE
  <2>1. PICK n \in B : \A k \in B : n <= k
    <3>1. B \subseteq Nat
      BY <1>1
    <3> HIDE DEF B
    <3> QED BY <1>4, <3>1, SmallestNat
  <2>2. n \in 0 .. Len(levels) - 1 /\ ~LeadsPair(levels, leaf, n, g[n]) /\ n # 0
    BY <1>3, <2>1
  <2>3. n - 1 \in 0 .. Len(levels) - 1 /\ n \in 1 .. Len(levels) - 1 /\ ~(n <= n - 1)
    BY <1>1, <2>2
  <2>4. n - 1 \notin B
    <3> HIDE DEF B
    <3> QED BY <2>1, <2>3
  <2>5. LeadsPair(levels, leaf, n - 1, g[n - 1])
    BY <2>3, <2>4
  <2>6. LeadsPair(levels, leaf, n, ClimbPair(levels[n], g[n - 1]))
    BY <2>3, <2>5, OnePairLeads
  <2> QED BY <1>2, <2>2, <2>6
<1> PICK h : h = Len(levels) - 1
  OBVIOUS
<1>5. h \in 0 .. Len(levels) - 1 /\ h + 1 = Len(levels)
  BY <1>1
<1>6. LeadsPair(levels, leaf, h, g[h])
  BY <1>4, <1>5
<1>7. Last(levels) = levels[h + 1]
  BY <1>5 DEF Last
<1>8. g[h].index = 0
  <2>1. g[h].index \in 0 .. Len(levels[h + 1]) - 1 /\ Len(levels[h + 1]) = 1
    BY <1>6, <1>7 DEF LeadsPair
  <2>2. \A k \in 0 .. 0 : k = 0
    OBVIOUS
  <2> QED BY <2>1, <2>2
<1> QED BY <1>6, <1>7, <1>8 DEF LeadsPair, Root, At

\* The same of the other form.
LeadsItem(levels, leaf, n, at) ==
    /\ at.index \in 0 .. Len(levels[n + 1]) - 1 /\ IsList(at.proof)
    /\ FromItems(leaf, at.proof) = At(levels[n + 1], at.index)

\* One more level: the node above is joined from the item, or promoted.
LEMMA OneItemLeads ==
    ASSUME NEW levels, NEW leaves, IsTree(levels, leaves), NEW leaf,
           NEW n \in 1 .. Len(levels) - 1, NEW at, LeadsItem(levels, leaf, n - 1, at)
    PROVE  LeadsItem(levels, leaf, n, ClimbItem(levels[n], at))
<1> PICK level : level = levels[n]
  OBVIOUS
<1> PICK i : i = at.index
  OBVIOUS
<1> PICK up : up = ClimbItem(level, at)
  OBVIOUS
<1>1. /\ Len(levels) \in Nat /\ n \in 1 .. Len(levels) /\ (n - 1) + 1 = n
  <2>1. Len(levels) \in Nat
    BY ListFacts DEF IsTree
  <2> QED BY <2>1
<1>2. IsList(level) /\ Len(level) > 1 /\ levels[n + 1] = NextLevel(level)
  BY <1>1 DEF IsTree
<1>3. i \in 0 .. Len(level) - 1 /\ IsList(at.proof) /\ FromItems(leaf, at.proof) = At(level, i)
  BY <1>1 DEF LeadsItem
<1>4. /\ i \div 2 \in 0 .. Len(NextLevel(level)) - 1
      /\ At(NextLevel(level), i \div 2) = Above(level, i)
  BY <1>2, <1>3, LevelAbove
<1>5. /\ up.index = i \div 2
      /\ up.proof = IF Sibling(i) >= Len(level) THEN at.proof ELSE <<Item(level, i)>> \o at.proof
  BY DEF ClimbItem
<1>6. CASE Sibling(i) >= Len(level)
  <2>1. Above(level, i) = At(level, i) /\ up.proof = at.proof
    BY <1>5, <1>6 DEF Above
  <2> QED BY <1>2, <1>3, <1>4, <1>5, <2>1 DEF LeadsItem
<1>7. CASE ~(Sibling(i) >= Len(level))
  <2>1. up.proof = <<Item(level, i)>> \o at.proof
    BY <1>5, <1>7
  <2>2. IsList(up.proof)
    BY <1>3, <2>1, ListPrefixed
  <2>3. FromItems(leaf, up.proof) = Extended(Item(level, i), At(level, i))
    BY <1>3, <2>1, ItemsTaken
  <2>4. Extended(Item(level, i), At(level, i)) = Above(level, i)
    BY <1>3, <1>7 DEF Extended, Item, Above
  <2> QED BY <1>2, <1>4, <1>5, <2>2, <2>3, <2>4 DEF LeadsItem
<1> QED BY <1>6, <1>7

\* So the proof leads to the root, where one node is left.
LEMMA ItemProofLeads ==
    ASSUME NEW levels, NEW leaves, IsTree(levels, leaves), Len(Last(levels)) = 1,
           NEW i \in 0 .. Len(leaves) - 1
    PROVE  FromItems(At(leaves, i), GetMerkleProof(levels, i)) = Root(levels)
<1> PICK leaf : leaf = At(leaves, i)
  OBVIOUS
<1>1. IsList(levels) /\ Len(levels) \in Nat \ {0} /\ levels[1] = leaves
  BY ListFacts DEF IsTree
<1> PICK g : GetMerkleProof(levels, i) = g[Len(levels) - 1].proof /\ WalksItem(levels, i, g)
  BY <1>1, WalkOfItem
<1>2. \A n \in 0 .. Len(levels) - 1 :
          g[n] = IF n = 0 THEN [index |-> i, proof |-> <<>>] ELSE ClimbItem(levels[n], g[n - 1])
  BY DEF WalksItem
<1>3. LeadsItem(levels, leaf, 0, g[0])
  <2>1. 0 \in 0 .. Len(levels) - 1
    BY <1>1
  <2>2. g[0].index = i /\ g[0].proof = <<>>
    BY <1>2, <2>1
  <2>3. IsList(<<>>)
    BY DEF IsList
  <2>4. FromItems(leaf, <<>>) = leaf
    BY NoItems
  <2> QED BY <1>1, <2>2, <2>3, <2>4 DEF LeadsItem
<1> DEFINE B == {n \in 0 .. Len(levels) - 1 : ~LeadsItem(levels, leaf, n, g[n])}
<1>4. ASSUME B # {} PROVE FALSE
  <2>1. PICK n \in B : \A k \in B : n <= k
    <3>1. B \subseteq Nat
      BY <1>1
    <3> HIDE DEF B
    <3> QED BY <1>4, <3>1, SmallestNat
  <2>2. n \in 0 .. Len(levels) - 1 /\ ~LeadsItem(levels, leaf, n, g[n]) /\ n # 0
    BY <1>3, <2>1
  <2>3. n - 1 \in 0 .. Len(levels) - 1 /\ n \in 1 .. Len(levels) - 1 /\ ~(n <= n - 1)
    BY <1>1, <2>2
  <2>4. n - 1 \notin B
    <3> HIDE DEF B
    <3> QED BY <2>1, <2>3
  <2>5. LeadsItem(levels, leaf, n - 1, g[n - 1])
    BY <2>3, <2>4
  <2>6. LeadsItem(levels, leaf, n, ClimbItem(levels[n], g[n - 1]))
    BY <2>3, <2>5, OneItemLeads
  <2> QED BY <1>2, <2>2, <2>6
<1> PICK h : h = Len(levels) - 1
  OBVIOUS
<1>5. h \in 0 .. Len(levels) - 1 /\ h + 1 = Len(levels)
  BY <1>1
<1>6. LeadsItem(levels, leaf, h, g[h])
  BY <1>4, <1>5
<1>7. Last(levels) = levels[h + 1]
  BY <1>5 DEF Last
<1>8. g[h].index = 0
  <2>1. g[h].index \in 0 .. Len(levels[h + 1]) - 1 /\ Len(levels[h + 1]) = 1
    BY <1>6, <1>7 DEF LeadsItem
  <2>2. \A k \in 0 .. 0 : k = 0
    OBVIOUS
  <2> QED BY <2>1, <2>2
<1> QED BY <1>6, <1>7, <1>8 DEF LeadsItem, Root, At

-----------------------------------------------------------------------------
(* The answer.                                                             *)

\* The loop over the slots: one of them,
Collected(k, before) ==
    IF ~committed[k] THEN before
    ELSE [leaves |-> Append(before.leaves, CommitmentOf(k)),
          indexOfTarget |-> IF k = target THEN Len(before.leaves) ELSE before.indexOfTarget]

\* and all.
Collections(g) ==
    g = [k \in 0 .. Len(committed) |->
            IF k = 0 THEN [leaves |-> <<>>, indexOfTarget |-> -1] ELSE Collected(k, g[k - 1])]

\* Leaves unfolds to that recursion.
LEMMA CollectionGoes ==
    ASSUME IntegrityInit
    PROVE  LET found == CHOOSE g : Collections(g)
           IN  Leaves = found[Len(committed)] /\ Collections(found)
<1>1. Len(committed) \in Nat
  BY IntegrityAssumption DEF IntegrityInit
<1> DEFINE Up(m, g) ==
        g = [k \in 0 .. m |->
                IF k = 0 THEN [leaves |-> <<>>, indexOfTarget |-> -1] ELSE Collected(k, g[k - 1])]
           B == {m \in Nat : ~ \E g : Up(m, g)}
<1>2. ASSUME B # {} PROVE FALSE
  <2>1. PICK m \in B : \A k \in B : m <= k
    <3>1. B \subseteq Nat
      OBVIOUS
    <3> HIDE DEF B
    <3> QED BY <1>2, <3>1, SmallestNat
  <2>2. CASE m = 0
    <3> DEFINE g == [k \in 0 .. 0 |-> [leaves |-> <<>>, indexOfTarget |-> -1]]
    <3>1. Up(0, g)
      OBVIOUS
    <3> HIDE DEF Up
    <3> QED BY <2>1, <2>2, <3>1
  <2>3. CASE m # 0
    <3>1. m \in Nat /\ m - 1 \in Nat /\ ~(m <= m - 1)
      BY <2>3
    <3>2. PICK h : Up(m - 1, h)
      <4> HIDE DEF Up
      <4>1. m - 1 \notin B
        <5> HIDE DEF B
        <5> QED BY <2>1, <3>1
      <4> QED BY <3>1, <4>1
    <3> DEFINE g == [k \in 0 .. m |-> IF k = m THEN Collected(m, h[m - 1]) ELSE h[k]]
    <3>3. ASSUME NEW k \in 0 .. m
          PROVE  g[k] = IF k = 0 THEN [leaves |-> <<>>, indexOfTarget |-> -1]
                        ELSE Collected(k, g[k - 1])
      <4>1. k < m => k \in 0 .. m - 1 /\ (k # 0 => k - 1 \in 0 .. m /\ k - 1 # m)
        BY <3>1
      <4>2. m - 1 \in 0 .. m /\ m - 1 # m
        BY <3>1
      <4>3. CASE k = m
        BY <2>3, <4>2, <4>3
      <4>4. CASE k < m
        <5>1. h[k] = IF k = 0 THEN [leaves |-> <<>>, indexOfTarget |-> -1]
                     ELSE Collected(k, h[k - 1])
          BY <3>2, <4>1, <4>4
        <5>2. g[k] = h[k] /\ (k # 0 => g[k - 1] = h[k - 1])
          BY <3>1, <4>1, <4>4
        <5> QED BY <5>1, <5>2
      <4> QED BY <3>1, <4>3, <4>4
    <3>4. Up(m, g)
      <4>1. g = [k \in 0 .. m |-> g[k]]
        OBVIOUS
      <4> HIDE DEF g
      <4> QED BY <3>3, <4>1
    <3> HIDE DEF Up, g
    <3> QED BY <2>1, <3>4
  <2> QED BY <2>2, <2>3
<1>3. \E g : Collections(g)
  <2>1. \E g : Up(Len(committed), g)
    BY <1>1, <1>2
  <2> QED BY <2>1 DEF Collections
<1>4. Leaves = (CHOOSE g : Collections(g))[Len(committed)]
  BY DEF Leaves, Collections, Collected
<1> QED BY <1>3, <1>4

\* So far the target is found exactly if it was passed and has a commitment, and its
\* commitment stands at its place.
Finds(k, found) ==
    /\ IsList(found.leaves)
    /\ (found.indexOfTarget = -1) <=> ~(target <= k /\ committed[target])
    /\ found.indexOfTarget # -1 =>
           /\ found.indexOfTarget \in 0 .. Len(found.leaves) - 1
           /\ At(found.leaves, found.indexOfTarget) = CommitmentOf(target)

\* At the end the target is found if it has a commitment.
LEMMA TargetIsFound ==
    ASSUME IntegrityInit
    PROVE  Finds(Len(committed), Leaves)
<1>1. /\ Len(committed) \in Nat /\ target \in 1 .. Len(committed)
      /\ \A k \in 1 .. Len(committed) : committed[k] \in BOOLEAN
  BY IntegrityAssumption DEF IntegrityInit
<1> PICK g : Leaves = g[Len(committed)] /\ Collections(g)
  BY CollectionGoes
<1>2. \A k \in 0 .. Len(committed) :
          g[k] = IF k = 0 THEN [leaves |-> <<>>, indexOfTarget |-> -1] ELSE Collected(k, g[k - 1])
  BY DEF Collections
<1>3. Finds(0, g[0])
  <2>1. g[0].leaves = <<>> /\ g[0].indexOfTarget = -1
    BY <1>1, <1>2
  <2>2. IsList(<<>>)
    BY DEF IsList
  <2> QED BY <1>1, <2>1, <2>2 DEF Finds
<1>4. ASSUME NEW k \in 1 .. Len(committed), NEW before, Finds(k - 1, before)
      PROVE  Finds(k, Collected(k, before))
  <2> PICK n : n = Len(before.leaves)
    OBVIOUS
  <2> PICK found : found = Collected(k, before)
    OBVIOUS
  <2>1. IsList(before.leaves) /\ n \in Nat
    BY <1>4, ListFacts DEF Finds
  <2>2. CASE ~committed[k]
    <3>1. target <= k /\ committed[target] <=> target <= k - 1 /\ committed[target]
      BY <1>1, <2>2
    <3> QED BY <1>4, <2>2, <3>1 DEF Finds, Collected
  <2>3. CASE committed[k] /\ k = target
    <3>1. found.leaves = Append(before.leaves, CommitmentOf(k)) /\ found.indexOfTarget = n
      BY <2>3 DEF Collected
    <3>2. IsList(found.leaves) /\ Len(found.leaves) = n + 1
          /\ found.leaves[n + 1] = CommitmentOf(k)
      BY <2>1, <3>1, ListAppended
    <3>3. n \in 0 .. Len(found.leaves) - 1 /\ n # -1 /\ target <= k
      BY <1>1, <2>1, <2>3, <3>2
    <3> QED BY <2>3, <3>1, <3>2, <3>3 DEF Finds, At
  <2>4. CASE committed[k] /\ k # target
    <3>1. found.leaves = Append(before.leaves, CommitmentOf(k))
          /\ found.indexOfTarget = before.indexOfTarget
      BY <2>4 DEF Collected
    <3>2. IsList(found.leaves) /\ Len(found.leaves) = n + 1
          /\ \A j \in 1 .. n : found.leaves[j] = before.leaves[j]
      BY <2>1, <3>1, ListAppended
    <3>3. target <= k <=> target <= k - 1
      BY <1>1, <2>4
    <3>4. ASSUME found.indexOfTarget # -1
          PROVE  /\ found.indexOfTarget \in 0 .. Len(found.leaves) - 1
                 /\ At(found.leaves, found.indexOfTarget) = CommitmentOf(target)
      <4>1. /\ found.indexOfTarget \in 0 .. n - 1
            /\ At(before.leaves, found.indexOfTarget) = CommitmentOf(target)
        BY <1>4, <3>1, <3>4 DEF Finds
      <4>2. found.indexOfTarget + 1 \in 1 .. n
            /\ found.indexOfTarget \in 0 .. Len(found.leaves) - 1
        BY <2>1, <3>2, <4>1
      <4> QED BY <3>2, <4>1, <4>2 DEF At
    <3> QED BY <1>4, <3>1, <3>2, <3>3, <3>4 DEF Finds
  <2> QED BY <2>2, <2>3, <2>4
<1> DEFINE B == {k \in 0 .. Len(committed) : ~Finds(k, g[k])}
<1>5. ASSUME B # {} PROVE FALSE
  <2>1. PICK k \in B : \A j \in B : k <= j
    <3>1. B \subseteq Nat
      BY <1>1
    <3> HIDE DEF B
    <3> QED BY <1>5, <3>1, SmallestNat
  <2>2. k \in 0 .. Len(committed) /\ ~Finds(k, g[k]) /\ k # 0
    BY <1>3, <2>1
  <2>3. k - 1 \in 0 .. Len(committed) /\ k \in 1 .. Len(committed) /\ ~(k <= k - 1)
    BY <1>1, <2>2
  <2>4. k - 1 \notin B
    <3> HIDE DEF B
    <3> QED BY <2>1, <2>3
  <2>5. Finds(k - 1, g[k - 1])
    BY <2>3, <2>4
  <2>6. Finds(k, Collected(k, g[k - 1]))
    BY <1>4, <2>3, <2>5
  <2> QED BY <1>2, <2>2, <2>6
<1>6. Len(committed) \in 0 .. Len(committed)
  BY <1>1
<1> QED BY <1>5, <1>6

\* Whatever the number of slots of a task and whichever of them have a commitment, both
\* forms of the proof lead from the slot asked for to the root.
THEOREM ProofsLeadToRoot == IntegrityInit => ProofLeadsToRoot
<1> SUFFICES ASSUME IntegrityInit PROVE ProofLeadsToRoot
  OBVIOUS
<1> PICK found : found = Leaves
  OBVIOUS
<1> PICK i : i = found.indexOfTarget
  OBVIOUS
<1> PICK leaves : leaves = found.leaves
  OBVIOUS
<1> PICK levels : levels = Build(leaves)
  OBVIOUS
<1>1. Finds(Len(committed), found)
  BY TargetIsFound
<1>2. i = -1 <=> ~committed[target]
  <2>1. target <= Len(committed)
    BY IntegrityAssumption DEF IntegrityInit
  <2> QED BY <1>1, <2>1 DEF Finds
<1>3. CASE ~committed[target]
  <2>1. VerifySlot = [error |-> TRUE]
    BY <1>2, <1>3 DEF VerifySlot
  <2> QED BY <1>3, <2>1 DEF ProofLeadsToRoot
<1>4. CASE committed[target]
  <2>1. /\ i # -1 /\ i \in 0 .. Len(leaves) - 1 /\ At(leaves, i) = CommitmentOf(target)
        /\ IsList(leaves)
    BY <1>1, <1>2, <1>4 DEF Finds
  <2>2. Len(leaves) # 0
    BY <2>1
  <2>3. IsTree(levels, leaves) /\ Len(Last(levels)) = 1
    BY <2>1, <2>2, BuildStops
  <2>4. /\ FromPairs(At(leaves, i), GetProof(levels, i)) = Root(levels)
        /\ FromItems(At(leaves, i), GetMerkleProof(levels, i)) = Root(levels)
    BY <2>1, <2>3, PairProofLeads, ItemProofLeads
  <2> PICK answer : answer = VerifySlot
    OBVIOUS
  <2>5. answer = [leaf |-> At(leaves, i), root |-> Root(levels),
                  proof |-> GetProof(levels, i), leavesCount |-> Len(leaves),
                  items |-> GetMerkleProof(levels, i)]
    BY <2>1 DEF VerifySlot
  <2>6. /\ "leaf" \in DOMAIN answer /\ answer.leaf = At(leaves, i) /\ answer.root = Root(levels)
        /\ answer.proof = GetProof(levels, i) /\ answer.items = GetMerkleProof(levels, i)
    BY <2>5
  <2> QED BY <1>4, <2>1, <2>4, <2>6 DEF ProofLeadsToRoot
<1> QED BY <1>3, <1>4
=============================================================================
