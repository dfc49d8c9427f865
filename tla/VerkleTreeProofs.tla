-------------------------- MODULE VerkleTreeProofs --------------------------
(***************************************************************************)
(* The Verkle tree answers like the dictionary that was written to it and   *)
(* its root commits to the values: for every set of words and suffixes,     *)
(* every size of the stems and every set of writes, deletions and           *)
(* migrations.                                                              *)
(*                                                                          *)
(* TreeInv says what the operations rely on: the shape of the tree and what *)
(* its leaves hold; that a node with a touched child is marked in all nodes *)
(* above it; that a commitment is the one of the child or, where that was   *)
(* touched, the one that was remembered; and, as long as nothing is deleted,*)
(* that an internal node parts two stems and each half has its commitment.  *)
(* The recursions of the model are functions over numbers or paths: that    *)
(* they exist, and what they are, follows from smallest counterexamples.    *)
(***************************************************************************)
EXTENDS VerkleTree, FiniteSums, TLAPS

-----------------------------------------------------------------------------
(* Paths.                                                                    *)

\* A path is a sequence of words, not longer than a stem; a stem is one that long.
LEMMA PathIs ==
    /\ \A p \in Path : /\ p \in Seq(Word) /\ Len(p) \in 0 .. StemSize /\ Len(p) \in Nat
                       /\ \A n \in 1 .. Len(p) : p[n] \in Word
    /\ \A p \in Seq(Word) : Len(p) <= StemSize => p \in Path
    /\ \A p : p \in Stem <=> p \in Path /\ Len(p) = StemSize
    /\ StemSize \in Nat /\ StemSize # 0 /\ <<>> \in Path /\ Len(<<>>) = 0
<1>1. StemSize \in Nat /\ StemSize # 0
  BY VerkleAssumption
<1>2. ASSUME NEW p \in Path
      PROVE  /\ p \in Seq(Word) /\ Len(p) \in 0 .. StemSize /\ Len(p) \in Nat
             /\ \A n \in 1 .. Len(p) : p[n] \in Word
  BY <1>1 DEF Path
<1>3. ASSUME NEW p \in Seq(Word), Len(p) <= StemSize PROVE p \in Path
  BY <1>1, <1>3 DEF Path
<1>4. ASSUME NEW p \in Stem PROVE p \in Path /\ Len(p) = StemSize
  BY <1>1 DEF Path, Stem
<1>5. ASSUME NEW p \in Path, Len(p) = StemSize PROVE p \in Stem
  BY <1>1, <1>5 DEF Path, Stem
<1>6. <<>> \in Path /\ Len(<<>>) = 0
  <2>1. <<>> \in Seq(Word) /\ Len(<<>>) = 0
    OBVIOUS
  <2>2. Len(<<>>) <= StemSize
    BY ONLY <1>1, <2>1
  <2> QED BY <1>3, <2>1, <2>2
<1> QED BY ONLY <1>1, <1>2, <1>3, <1>4, <1>5, <1>6

\* A prefix agrees word by word.
LEMMA PrefixIs ==
    ASSUME NEW p \in Path, NEW q \in Path
    PROVE  /\ IsPrefix(p, q) <=> Len(p) <= Len(q) /\ \A k \in 1 .. Len(p) : p[k] = q[k]
           /\ Len(p) = Len(q) /\ (\A k \in 1 .. Len(p) : p[k] = q[k]) => p = q
<1>1. p \in Seq(Word) /\ q \in Seq(Word)
  BY PathIs
<1> QED BY <1>1 DEF IsPrefix

\* Prefixes are ordered, and those of one path linearly.
LEMMA PrefixOrder ==
    /\ \A p \in Path : IsPrefix(p, p) /\ IsPrefix(<<>>, p)
    /\ \A p, q \in Path : IsPrefix(p, q) => Len(p) <= Len(q) /\ (Len(p) = Len(q) => p = q)
    /\ \A p, q, r \in Path : IsPrefix(p, q) /\ IsPrefix(q, r) => IsPrefix(p, r)
    /\ \A p, q, r \in Path :
           IsPrefix(p, r) /\ IsPrefix(q, r) /\ Len(p) <= Len(q) => IsPrefix(p, q)
<1>1. ASSUME NEW p \in Path PROVE IsPrefix(p, p) /\ IsPrefix(<<>>, p)
  <2>1. <<>> \in Path /\ Len(<<>>) = 0 /\ Len(p) \in Nat
    BY PathIs
  <2> QED BY <2>1, PrefixIs
<1>2. ASSUME NEW p \in Path, NEW q \in Path, IsPrefix(p, q)
      PROVE  Len(p) <= Len(q) /\ (Len(p) = Len(q) => p = q)
  BY <1>2, PrefixIs
<1>3. ASSUME NEW p \in Path, NEW q \in Path, NEW r \in Path, IsPrefix(p, q), IsPrefix(q, r)
      PROVE  IsPrefix(p, r)
  <2>1. Len(p) \in Nat /\ Len(q) \in Nat /\ Len(r) \in Nat
    BY PathIs
  <2>2. Len(p) <= Len(q) /\ \A k \in 1 .. Len(p) : p[k] = q[k]
    BY <1>3, PrefixIs
  <2>3. Len(q) <= Len(r) /\ \A k \in 1 .. Len(q) : q[k] = r[k]
    BY <1>3, PrefixIs
  <2>4. Len(p) <= Len(r) /\ \A k \in 1 .. Len(p) : p[k] = r[k]
    BY ONLY <2>1, <2>2, <2>3
  <2> QED BY <2>4, PrefixIs
<1>4. ASSUME NEW p \in Path, NEW q \in Path, NEW r \in Path,
             IsPrefix(p, r), IsPrefix(q, r), Len(p) <= Len(q)
      PROVE  IsPrefix(p, q)
  <2>1. Len(p) \in Nat /\ Len(q) \in Nat /\ Len(r) \in Nat
    BY PathIs
  <2>2. \A k \in 1 .. Len(p) : p[k] = r[k]
    BY <1>4, PrefixIs
  <2>3. \A k \in 1 .. Len(q) : q[k] = r[k]
    BY <1>4, PrefixIs
  <2>4. \A k \in 1 .. Len(p) : p[k] = q[k]
    BY ONLY <1>4, <2>1, <2>2, <2>3
  <2> QED BY <1>4, <2>4, PrefixIs
<1> QED BY ONLY <1>1, <1>2, <1>3, <1>4

\* The first steps of a way.
LEMMA PrefixTo ==
    ASSUME NEW q \in Path, NEW n \in 0 .. Len(q)
    PROVE  /\ Prefix(q, n) \in Path /\ Len(Prefix(q, n)) = n /\ IsPrefix(Prefix(q, n), q)
           /\ \A p \in Path : IsPrefix(p, q) /\ Len(p) = n => p = Prefix(q, n)
<1>1. q \in Seq(Word) /\ Len(q) \in Nat /\ Len(q) <= StemSize /\ StemSize \in Nat
  BY PathIs
<1>2. /\ Prefix(q, n) \in Seq(Word) /\ Len(Prefix(q, n)) = n
      /\ \A k \in 1 .. n : Prefix(q, n)[k] = q[k]
  BY <1>1 DEF Prefix
<1>3. Prefix(q, n) \in Path
  <2>1. Len(Prefix(q, n)) <= StemSize
    BY ONLY <1>1, <1>2
  <2> QED BY <1>2, <2>1, PathIs
<1>4. IsPrefix(Prefix(q, n), q)
  <2>1. Len(Prefix(q, n)) <= Len(q) /\ \A k \in 1 .. Len(Prefix(q, n)) : Prefix(q, n)[k] = q[k]
    BY ONLY <1>1, <1>2
  <2> QED BY <1>3, <2>1, PrefixIs
<1>5. ASSUME NEW p \in Path, IsPrefix(p, q), Len(p) = n PROVE p = Prefix(q, n)
  <2>1. IsPrefix(p, Prefix(q, n))
    BY <1>1, <1>2, <1>3, <1>4, <1>5, PrefixOrder
  <2> QED BY <1>2, <1>3, <1>5, <2>1, PrefixOrder
<1> QED BY <1>2, <1>3, <1>4, <1>5

\* A child of a node.
LEMMA ChildIs ==
    ASSUME NEW q \in Path, Len(q) < StemSize, NEW w \in Word
    PROVE  /\ Append(q, w) \in Path /\ Len(Append(q, w)) = Len(q) + 1 /\ q # Append(q, w)
           /\ Append(q, w)[Len(q) + 1] = w
           /\ IsPrefix(q, Append(q, w))
           /\ \A p \in Path : IsPrefix(p, Append(q, w)) => p = Append(q, w) \/ IsPrefix(p, q)
           /\ \A p \in Path : IsPrefix(q, p) /\ Len(q) < Len(p) /\ p[Len(q) + 1] = w
                                  => IsPrefix(Append(q, w), p)
           /\ \A p \in Path : IsPrefix(Append(q, w), p) =>
                  IsPrefix(q, p) /\ Len(q) < Len(p) /\ p[Len(q) + 1] = w
<1> PICK c : c = Append(q, w)
  OBVIOUS
<1>1. q \in Seq(Word) /\ Len(q) \in Nat /\ Len(q) + 1 <= StemSize /\ StemSize \in Nat
  BY PathIs
<1>2. /\ c \in Seq(Word) /\ Len(c) = Len(q) + 1 /\ c[Len(q) + 1] = w
      /\ \A k \in 1 .. Len(q) : c[k] = q[k]
  BY ONLY <1>1, c = Append(q, w), w \in Word
<1>3. c \in Path
  BY <1>1, <1>2, PathIs
<1>4. q # c
  BY ONLY <1>1, <1>2
<1>5. IsPrefix(q, c)
  <2>1. Len(q) <= Len(c) /\ \A k \in 1 .. Len(q) : q[k] = c[k]
    BY ONLY <1>1, <1>2
  <2> QED BY <1>3, <2>1, PrefixIs
<1>6. ASSUME NEW p \in Path, IsPrefix(p, c) PROVE p = c \/ IsPrefix(p, q)
  <2>1. Len(p) <= Len(c) /\ (Len(p) = Len(c) => p = c) /\ Len(p) \in Nat
    BY <1>3, <1>6, PrefixOrder, PathIs
  <2>2. CASE Len(p) = Len(c)
    BY <2>1, <2>2
  <2>3. CASE Len(p) # Len(c)
    <3>1. Len(p) <= Len(q)
      BY ONLY <1>1, <1>2, <2>1, <2>3
    <3> QED BY <1>3, <1>5, <1>6, <3>1, PrefixOrder
  <2> QED BY <2>2, <2>3
<1>7. ASSUME NEW p \in Path, IsPrefix(q, p), Len(q) < Len(p), p[Len(q) + 1] = w
      PROVE  IsPrefix(c, p)
  <2>1. Len(p) \in Nat /\ \A k \in 1 .. Len(q) : q[k] = p[k]
    BY <1>7, PrefixIs, PathIs
  <2>2. Len(c) <= Len(p) /\ \A k \in 1 .. Len(c) : c[k] = p[k]
    <3>1. ASSUME NEW k \in 1 .. Len(c) PROVE c[k] = p[k]
      <4>1. CASE k = Len(q) + 1
        BY ONLY <1>2, <1>7, <4>1
      <4>2. CASE k # Len(q) + 1
        <5>1. k \in 1 .. Len(q)
          BY ONLY <1>1, <1>2, <4>2, k \in 1 .. Len(c)
        <5> QED BY ONLY <1>2, <2>1, <5>1
      <4> QED BY <4>1, <4>2
    <3> QED BY ONLY <1>1, <1>2, <1>7, <2>1, <3>1
  <2> QED BY <1>3, <2>2, PrefixIs
<1>8. ASSUME NEW p \in Path, IsPrefix(c, p)
      PROVE  IsPrefix(q, p) /\ Len(q) < Len(p) /\ p[Len(q) + 1] = w
  <2>1. IsPrefix(q, p)
    BY <1>3, <1>5, <1>8, PrefixOrder
  <2>2. Len(c) <= Len(p) /\ (\A k \in 1 .. Len(c) : c[k] = p[k]) /\ Len(p) \in Nat
    BY <1>3, <1>8, PrefixIs, PathIs
  <2>3. Len(q) < Len(p) /\ Len(q) + 1 \in 1 .. Len(c)
    BY ONLY <1>1, <1>2, <2>2
  <2>4. p[Len(q) + 1] = w
    BY ONLY <1>2, <2>2, <2>3
  <2> QED BY <2>1, <2>3, <2>4
<1> QED BY ONLY <1>2, <1>3, <1>4, <1>5, <1>6, <1>7, <1>8, c = Append(q, w)

\* The next step of a way.
LEMMA NextStep ==
    ASSUME NEW q \in Path, NEW p \in Path, IsPrefix(q, p), q # p
    PROVE  /\ Len(q) < Len(p) /\ Len(q) < StemSize /\ p[Len(q) + 1] \in Word
           /\ Append(q, p[Len(q) + 1]) \in Path /\ IsPrefix(Append(q, p[Len(q) + 1]), p)
<1>1. Len(q) \in Nat /\ Len(p) \in 0 .. StemSize /\ StemSize \in Nat
      /\ \A n \in 1 .. Len(p) : p[n] \in Word
  BY PathIs
<1>2. Len(q) <= Len(p) /\ Len(p) # Len(q)
  BY PrefixOrder
<1>3. Len(q) < Len(p) /\ Len(q) < StemSize /\ Len(q) + 1 \in 1 .. Len(p)
  BY ONLY <1>1, <1>2
<1>4. p[Len(q) + 1] \in Word
  BY <1>1, <1>3
<1> QED BY <1>3, <1>4, ChildIs

-----------------------------------------------------------------------------
(* The invariant.                                                            *)

IsValues(v) == v = [s \in DOMAIN v |-> v[s]] /\ DOMAIN v \subseteq Suffix
Halves(v) == [h \in 1 .. 2 |-> HalfOf(v, h)]

IsInternal(n) ==
    /\ n = Internal(n.comm, n.cow)
    /\ n.comm = [w \in Word |-> n.comm[w]]
    /\ n.cow = [w \in DOMAIN n.cow |-> n.cow[w]] /\ DOMAIN n.cow \subseteq Word

\* A leaf has what its values commit to, but for a half that a deletion emptied.
IsLeaf(n) ==
    /\ n = [kind |-> "leaf", stem |-> n.stem, values |-> n.values, c |-> n.c, comm |-> n.comm]
    /\ n.stem \in Stem /\ IsValues(n.values) /\ DOMAIN n.values # {}
    /\ n.comm = Halves(n.values) /\ n.c = [h \in 1 .. 2 |-> n.c[h]]
    /\ \A h \in 1 .. 2 : \/ n.c[h] = HalfOf(n.values, h)
                         \/ n.c[h] = Nil /\ HalfOf(n.values, h) = Identity

IsNode(n) ==
    \/ n.kind = "empty" /\ n = EmptyNode
    \/ n.kind = "internal" /\ IsInternal(n)
    \/ n.kind = "leaf" /\ IsLeaf(n)

\* Internal nodes down to the leaves, each on the way of its stem, and nothing below.
Shape(t) ==
    /\ t = [p \in Path |-> t[p]] /\ \A p \in Path : IsNode(t[p])
    /\ t[<<>>].kind = "internal"
    /\ \A p \in Path : t[p].kind = "internal" => Len(p) < StemSize
    /\ \A p, q \in Path : IsStrictPrefix(q, p) /\ t[p].kind # "empty" => t[q].kind = "internal"
    /\ \A p \in Path : t[p].kind = "leaf" => IsPrefix(p, t[p].stem)

\* The leaves hold what was written, and each internal node is on the way to one.
Holds(t, c) ==
    /\ c = [s \in Stem |-> c[s]] /\ \A s \in Stem : IsValues(c[s])
    /\ \A p \in Path : t[p].kind = "leaf" => t[p].values = c[t[p].stem]
    /\ \A s \in Stem : DOMAIN c[s] # {} => \E p \in Path : t[p].kind = "leaf" /\ t[p].stem = s
    /\ \A p \in Path : t[p].kind = "internal" /\ p # <<>> =>
           \E s \in Stem : DOMAIN c[s] # {} /\ IsPrefix(p, s)

\* A node with touched children is marked in all nodes above it,
Marks(t) ==
    \A p, q \in Path :
        t[p].kind = "internal" /\ DOMAIN t[p].cow # {} /\ IsStrictPrefix(q, p) =>
            p[Len(q) + 1] \in DOMAIN t[q].cow

\* and has, of each child, the present commitment or the one it remembers.
Agrees(t) ==
    \A p \in Path : t[p].kind = "internal" => \A w \in Word :
        t[p].comm[w] = IF w \in DOMAIN t[p].cow THEN t[p].cow[w]
                       ELSE Commitment(t[Append(p, w)])

\* What only a deletion changes: an internal node parts two stems, and no half is gone.
Parts(c, p) ==
    \E r, s \in Stem : /\ r # s /\ DOMAIN c[r] # {} /\ DOMAIN c[s] # {}
                       /\ IsPrefix(p, r) /\ IsPrefix(p, s)
Canonical(t, c) ==
    \A p \in Path : /\ t[p].kind = "internal" /\ p # <<>> => Parts(c, p)
                    /\ t[p].kind = "leaf" => t[p].c = Halves(t[p].values)

TreeInv ==
    /\ Shape(tree) /\ Holds(tree, content) /\ Marks(tree)
    /\ deleted \in BOOLEAN /\ unmarked \in BOOLEAN /\ panicked \in BOOLEAN
    /\ ~unmarked => Agrees(tree)
    /\ ~deleted => Canonical(tree, content) /\ ~panicked

-----------------------------------------------------------------------------
(* Ways in a tree.                                                           *)

\* The three kinds of nodes and what is below them.
LEMMA ShapeIs ==
    ASSUME NEW t, Shape(t), NEW p \in Path
    PROVE  /\ t[p].kind \in {"empty", "internal", "leaf"}
           /\ t[p].kind = "empty" => t[p] = EmptyNode
           /\ t[p].kind = "internal" => IsInternal(t[p]) /\ Len(p) < StemSize
           /\ t[p].kind = "leaf" => IsLeaf(t[p]) /\ IsPrefix(p, t[p].stem) /\ t[p].stem \in Stem
           /\ \A q \in Path : IsPrefix(q, p) /\ q # p /\ t[p].kind # "empty"
                                  => t[q].kind = "internal"
           /\ t[<<>>].kind = "internal"
<1>1. IsNode(t[p])
  BY DEF Shape
<1>2. t[p].kind \in {"empty", "internal", "leaf"}
  BY <1>1 DEF IsNode
<1>3. t[p].kind = "empty" => t[p] = EmptyNode
  BY <1>1 DEF IsNode
<1>4. t[p].kind = "internal" => IsInternal(t[p])
  BY <1>1 DEF IsNode
<1>5. t[p].kind = "leaf" => IsLeaf(t[p])
  BY <1>1 DEF IsNode
<1>6. t[p].kind = "leaf" => t[p].stem \in Stem
  BY <1>5 DEF IsLeaf
<1> QED BY <1>2, <1>3, <1>4, <1>5, <1>6 DEF Shape, IsStrictPrefix

\* Where the way of a stem ends.
LEMMA TerminalIs ==
    ASSUME NEW t, Shape(t), NEW s \in Stem
    PROVE  LET e == Terminal(t, s)
           IN  /\ e \in Path /\ Len(e) \in 1 .. StemSize /\ e # <<>> /\ IsPrefix(e, s)
               /\ t[e].kind # "internal"
               /\ \A q \in Path : IsPrefix(q, e) /\ q # e => t[q].kind = "internal"
               /\ \A q \in Path : IsPrefix(q, s) /\ t[q].kind # "internal" => IsPrefix(e, q)
<1>0. s \in Path /\ Len(s) = StemSize /\ StemSize \in Nat /\ StemSize # 0
      /\ <<>> \in Path /\ Len(<<>>) = 0
  BY PathIs
<1> DEFINE Ends == {n \in 1 .. StemSize : t[Prefix(s, n)].kind # "internal"}
<1>1. \A n \in 0 .. StemSize :
          /\ Prefix(s, n) \in Path /\ Len(Prefix(s, n)) = n /\ IsPrefix(Prefix(s, n), s)
          /\ \A p \in Path : IsPrefix(p, s) /\ Len(p) = n => p = Prefix(s, n)
  BY <1>0, PrefixTo
<1>2. StemSize \in Ends
  <2>1. StemSize \in 1 .. StemSize /\ StemSize \in 0 .. StemSize
    BY ONLY <1>0
  <2>2. ~(Len(Prefix(s, StemSize)) < StemSize)
    BY ONLY <1>0, <1>1, <2>1
  <2> QED BY <1>1, <2>1, <2>2, ShapeIs
<1>3. PICK m \in Ends : \A n \in Ends : m <= n
  <2>1. Ends \subseteq Nat /\ Ends # {}
    BY <1>2
  <2> HIDE DEF Ends
  <2> QED BY <2>1, SmallestNat
<1>4. Terminal(t, s) = Prefix(s, m)
  <2>1. \A n \in Ends : (\A k \in Ends : n <= k) => n = m
    <3>1. Ends \subseteq Nat
      OBVIOUS
    <3> HIDE DEF Ends
    <3> QED BY <1>3, <3>1
  <2>2. Min(Ends) = m
    <3> HIDE DEF Ends
    <3> QED BY <1>3, <2>1 DEF Min
  <2> QED BY <2>2 DEF Terminal
<1> PICK e : e = Prefix(s, m)
  OBVIOUS
<1>5. m \in 1 .. StemSize /\ m \in 0 .. StemSize /\ t[e].kind # "internal"
  <2>1. m \in 1 .. StemSize /\ t[e].kind # "internal"
    BY <1>3
  <2> QED BY ONLY <2>1, <1>0
<1>6. e \in Path /\ Len(e) = m /\ IsPrefix(e, s)
  BY ONLY <1>1, <1>5, e = Prefix(s, m)
<1>7. ASSUME NEW q \in Path, IsPrefix(q, s), t[q].kind # "internal" PROVE IsPrefix(e, q)
  <2>1. Len(q) \in 0 .. StemSize
    BY PathIs
  <2>2. q = Prefix(s, Len(q))
    BY <1>1, <1>7, <2>1
  <2>3. q # <<>>
    BY <1>7, ShapeIs
  <2>4. Len(q) # 0
    <3>1. IsPrefix(<<>>, q)
      BY PrefixOrder
    <3> QED BY <1>0, <2>3, <3>1, PrefixOrder
  <2>5. Len(q) \in 1 .. StemSize
    BY ONLY <2>1, <2>4, <1>0
  <2>6. Len(q) \in Ends
    BY <1>7, <2>2, <2>5
  <2>7. Len(e) <= Len(q)
    <3> HIDE DEF Ends
    <3> QED BY <1>3, <1>6, <2>6
  <2> QED BY <1>0, <1>6, <1>7, <2>7, PrefixOrder
<1>8. ASSUME NEW q \in Path, IsPrefix(q, e), q # e PROVE t[q].kind = "internal"
  <2>1. IsPrefix(q, s)
    BY <1>0, <1>6, <1>8, PrefixOrder
  <2>2. SUFFICES ASSUME t[q].kind # "internal" PROVE FALSE
    OBVIOUS
  <2>3. IsPrefix(e, q)
    BY <1>7, <2>1, <2>2
  <2>4. Len(e) <= Len(q) /\ Len(q) <= Len(e) /\ Len(e) \in Nat /\ Len(q) \in Nat
    BY <1>6, <1>8, <2>3, PrefixOrder, PathIs
  <2> QED BY <1>6, <1>8, <2>4, PrefixOrder
<1>9. e # <<>>
  BY ONLY <1>0, <1>5, <1>6
<1> QED BY <1>4, <1>5, <1>6, <1>7, <1>8, <1>9

\* A leaf is where the way of its stem ends,
LEMMA LeafAtTerminal ==
    ASSUME NEW t, Shape(t), NEW p \in Path, t[p].kind = "leaf"
    PROVE  Terminal(t, t[p].stem) = p
<1> PICK e : e = Terminal(t, t[p].stem)
  OBVIOUS
<1>1. t[p].stem \in Stem /\ IsPrefix(p, t[p].stem)
  BY ShapeIs
<1>2. e \in Path /\ t[e].kind # "internal" /\ IsPrefix(e, p)
  BY <1>1, TerminalIs
<1>3. e = p
  BY <1>2, ShapeIs
<1> QED BY <1>3

\* and the only node that holds something on the way, but for those above it.
LEMMA OneOnWay ==
    ASSUME NEW t, Shape(t), NEW p \in Path, t[p].kind # "internal", NEW q \in Path,
           t[q].kind # "empty", IsPrefix(p, q)
    PROVE  q = p
  BY ShapeIs

LEMMA RootIsInternal ==
    ASSUME NEW t, Shape(t)
    PROVE  t[<<>>].kind = "internal" /\ <<>> \in Path /\ IsInternal(t[<<>>])
<1>1. <<>> \in Path
  BY PathIs
<1> QED BY <1>1, ShapeIs

-----------------------------------------------------------------------------
(* Values and the leaves that hold them.                                     *)

LEMMA HalfIs == \A s : Half(s) \in 1 .. 2
  BY DEF Half

LEMMA OverIs ==
    ASSUME NEW new, NEW old
    PROVE  /\ DOMAIN Over(new, old) = DOMAIN new \cup DOMAIN old
           /\ \A x \in DOMAIN new : Over(new, old)[x] = new[x]
           /\ \A x \in DOMAIN old \ DOMAIN new : Over(new, old)[x] = old[x]
  BY DEF Over

LEMMA OverValues ==
    ASSUME NEW new, NEW old, IsValues(new), IsValues(old)
    PROVE  /\ IsValues(Over(new, old))
           /\ DOMAIN new = {} => Over(new, old) = old
           /\ DOMAIN old = {} => Over(new, old) = new
<1>1. IsValues(Over(new, old))
  <2>1. DOMAIN Over(new, old) \subseteq Suffix
    BY DEF IsValues, Over
  <2>2. Over(new, old) = [x \in DOMAIN Over(new, old) |-> Over(new, old)[x]]
    BY DEF Over
  <2> QED BY <2>1, <2>2 DEF IsValues
<1>2. ASSUME DOMAIN new = {} PROVE Over(new, old) = old
  <2>1. Over(new, old) = [x \in DOMAIN old |-> old[x]]
    BY <1>2 DEF Over
  <2> QED BY <2>1 DEF IsValues
<1>3. ASSUME DOMAIN old = {} PROVE Over(new, old) = new
  <2>1. Over(new, old) = [x \in DOMAIN new |-> new[x]]
    BY <1>3 DEF Over
  <2> QED BY <2>1 DEF IsValues
<1> QED BY <1>1, <1>2, <1>3

LEMMA PartValues ==
    ASSUME NEW v, IsValues(v), NEW S \in SUBSET DOMAIN v
    PROVE  /\ IsValues(Restrict(v, S)) /\ DOMAIN Restrict(v, S) = S
           /\ \A s \in S : Restrict(v, S)[s] = v[s]
  BY DEF IsValues, Restrict

\* A half is a commitment to its values: the identity if there are none.
LEMMA HalfOfIs ==
    ASSUME NEW v, NEW h
    PROVE  /\ DOMAIN HalfOf(v, h).values = {s \in DOMAIN v : Half(s) = h}
           /\ \A s \in DOMAIN v : Half(s) = h => HalfOf(v, h).values[s] = v[s]
           /\ HalfOf(v, h) = Identity <=> \A s \in DOMAIN v : Half(s) # h
           /\ HalfOf(v, h) # Nil /\ HalfOf(v, h) # Wrong
<1> DEFINE S == {s \in DOMAIN v : Half(s) = h}
<1>1. HalfOf(v, h) = [values |-> [s \in S |-> v[s]]]
  BY DEF HalfOf, Restrict
<1>2. HalfOf(v, h) # Nil /\ HalfOf(v, h) # Wrong
  BY <1>1 DEF Nil, Wrong
<1>3. HalfOf(v, h).values = [s \in S |-> v[s]]
  BY <1>1
<1>4. HalfOf(v, h) = Identity <=> \A s \in DOMAIN v : Half(s) # h
  <2>1. ASSUME \A s \in DOMAIN v : Half(s) # h PROVE HalfOf(v, h) = Identity
    <3>1. S = {}
      BY <2>1
    <3>2. [s \in S |-> v[s]] = <<>>
      <4> HIDE DEF S
      <4> QED BY ONLY <3>1
    <3> QED BY <1>1, <3>2 DEF Identity
  <2>2. ASSUME HalfOf(v, h) = Identity PROVE \A s \in DOMAIN v : Half(s) # h
    <3>1. HalfOf(v, h).values = <<>>
      BY <2>2 DEF Identity
    <3>2. S = {}
      <4>1. DOMAIN <<>> = {}
        OBVIOUS
      <4> QED BY <1>3, <3>1, <4>1
    <3> QED BY <3>2
  <2> QED BY <2>1, <2>2
<1> QED BY <1>2, <1>3, <1>4

\* Two dictionaries that agree in a half have the same commitment there.
LEMMA SameHalf ==
    ASSUME NEW v, NEW u, NEW h,
           \A s : Half(s) = h => (s \in DOMAIN v <=> s \in DOMAIN u),
           \A s \in DOMAIN v : Half(s) = h => v[s] = u[s]
    PROVE  HalfOf(v, h) = HalfOf(u, h)
<1>1. {s \in DOMAIN v : Half(s) = h} = {s \in DOMAIN u : Half(s) = h}
  OBVIOUS
<1>2. [s \in {s \in DOMAIN v : Half(s) = h} |-> v[s]]
          = [s \in {s \in DOMAIN u : Half(s) = h} |-> u[s]]
  BY <1>1
<1> QED BY <1>2 DEF HalfOf, Restrict

LEMMA HalvesIs ==
    ASSUME NEW v
    PROVE  /\ Halves(v) = <<HalfOf(v, 1), HalfOf(v, 2)>>
           /\ \A h \in 1 .. 2 : Halves(v)[h] = HalfOf(v, h)
           /\ \A c : c = [h \in 1 .. 2 |-> c[h]] /\ (\A h \in 1 .. 2 : c[h] = HalfOf(v, h))
                         => c = Halves(v)
  BY DEF Halves

LEMMA NewLeafIs ==
    ASSUME NEW s \in Stem, NEW v, IsValues(v), DOMAIN v # {}
    PROVE  LET leaf == NewLeaf(s, v)
           IN  /\ IsLeaf(leaf) /\ leaf.kind = "leaf" /\ leaf.stem = s /\ leaf.values = v
               /\ leaf.c = Halves(v)
<1> PICK leaf : leaf = NewLeaf(s, v)
  OBVIOUS
<1> PICK c : c = Halves(v)
  OBVIOUS
<1>1. leaf = [kind |-> "leaf", stem |-> s, values |-> v, c |-> c, comm |-> c]
  BY HalvesIs DEF NewLeaf
<1>2. c = [h \in 1 .. 2 |-> c[h]] /\ \A h \in 1 .. 2 : c[h] = HalfOf(v, h)
  BY DEF Halves
<1>3. /\ leaf.kind = "leaf" /\ leaf.stem = s /\ leaf.values = v /\ leaf.c = c /\ leaf.comm = c
      /\ leaf = [kind |-> "leaf", stem |-> leaf.stem, values |-> leaf.values,
                 c |-> leaf.c, comm |-> leaf.comm]
  BY <1>1
<1>4. IsLeaf(leaf)
  BY <1>2, <1>3 DEF IsLeaf
<1> QED BY <1>3, <1>4

\* A half of a leaf after an update, for each half that is not gone.
LEMMA UpdatedHalfIs ==
    ASSUME NEW leaf, IsLeaf(leaf), NEW new, IsValues(new), NEW h \in 1 .. 2,
           \A s \in DOMAIN new : leaf.c[Half(s)] # Nil
    PROVE  UpdatedHalf(leaf.c[h], leaf.values, HalfOf(new, h).values) =
               IF \A s \in DOMAIN new : Half(s) # h THEN leaf.c[h]
               ELSE HalfOf(Over(new, leaf.values), h)
<1> DEFINE v == HalfOf(new, h).values
<1> PICK c : c = leaf.c[h]
  OBVIOUS
<1>1. DOMAIN v = {s \in DOMAIN new : Half(s) = h} /\ \A s \in DOMAIN v : v[s] = new[s]
  BY HalfOfIs
<1>2. CASE \A s \in DOMAIN new : Half(s) # h
  <2>1. DOMAIN v = {}
    BY <1>1, <1>2
  <2> HIDE DEF v
  <2>2. UpdatedHalf(c, leaf.values, v) = c
    BY <2>1 DEF UpdatedHalf
  <2> QED BY <1>2, <2>2 DEF v
<1>3. CASE ~ \A s \in DOMAIN new : Half(s) # h
  <2>1. DOMAIN v # {}
    BY <1>1, <1>3
  <2>2. c # Nil
    BY <1>3
  <2>3. c = HalfOf(leaf.values, h)
    BY <2>2 DEF IsLeaf
  <2>4. c # Wrong /\ DOMAIN c.values = {s \in DOMAIN leaf.values : Half(s) = h}
        /\ \A s \in DOMAIN leaf.values : Half(s) = h => c.values[s] = leaf.values[s]
    BY <2>3, HalfOfIs
  <2>5. \A s \in DOMAIN v : ValueIn(c.values, s) = ValueIn(leaf.values, s)
    BY <1>1, <2>4 DEF ValueIn
  <2>6. UpdatedHalf(c, leaf.values, v) = [values |-> Over(v, c.values)]
    <3> HIDE DEF v
    <3> QED BY <2>1, <2>4, <2>5 DEF UpdatedHalf
  <2>7. Over(v, c.values) = HalfOf(Over(new, leaf.values), h).values
    <3> PICK o : o = Over(new, leaf.values)
      OBVIOUS
    <3>1. /\ DOMAIN o = DOMAIN new \cup DOMAIN leaf.values
          /\ \A x \in DOMAIN new : o[x] = new[x]
          /\ \A x \in DOMAIN leaf.values \ DOMAIN new : o[x] = leaf.values[x]
      BY DEF Over
    <3>2. HalfOf(o, h).values = [s \in {s \in DOMAIN o : Half(s) = h} |-> o[s]]
      BY DEF HalfOf, Restrict
    <3>3. DOMAIN v \cup DOMAIN c.values = {s \in DOMAIN o : Half(s) = h}
      BY <1>1, <2>4, <3>1
    <3>4. ASSUME NEW s \in DOMAIN v \cup DOMAIN c.values
          PROVE  o[s] = IF s \in DOMAIN v THEN v[s] ELSE c.values[s]
      BY <1>1, <2>4, <3>1
    <3>5. Over(v, c.values) = [s \in {s \in DOMAIN o : Half(s) = h} |-> o[s]]
      <4> HIDE DEF v
      <4> QED BY <3>3, <3>4 DEF Over
    <3> QED BY <3>2, <3>5
  <2>8. [values |-> Over(v, c.values)] = HalfOf(Over(new, leaf.values), h)
    <3>1. \A u : HalfOf(u, h) = [values |-> HalfOf(u, h).values]
      BY DEF HalfOf
    <3> QED BY <2>7, <3>1
  <2> QED BY <1>3, <2>6, <2>8
<1> QED BY <1>2, <1>3

\* An update keeps the commitments of a leaf what its values commit to.
LEMMA UpdateIs ==
    ASSUME NEW leaf, IsLeaf(leaf), NEW new, IsValues(new),
           \A s \in DOMAIN new : leaf.c[Half(s)] # Nil
    PROVE  LET updated == UpdateMultipleLeaves(leaf, new)
           IN  /\ IsLeaf(updated) /\ updated.kind = "leaf" /\ updated.stem = leaf.stem
               /\ updated.values = Over(new, leaf.values)
               /\ leaf.c = Halves(leaf.values) => updated.c = Halves(updated.values)
               /\ \A h \in 1 .. 2 : updated.c[h] = Nil => leaf.c[h] = Nil
               /\ DOMAIN new = {} => updated = leaf
<1> PICK updated : updated = UpdateMultipleLeaves(leaf, new)
  OBVIOUS
<1> DEFINE c == [h \in 1 .. 2 |-> UpdatedHalf(leaf.c[h], leaf.values, HalfOf(new, h).values)]
           comm == [h \in 1 .. 2 |-> Updated(leaf.comm[h], leaf.c[h], c[h])]
           v == Over(new, leaf.values)
<1>1. updated = [kind |-> "leaf", stem |-> leaf.stem, values |-> v, c |-> c, comm |-> comm]
  <2>1. leaf = [kind |-> "leaf", stem |-> leaf.stem, values |-> leaf.values,
                c |-> leaf.c, comm |-> leaf.comm]
    BY DEF IsLeaf
  <2>2. updated = [leaf EXCEPT !.values = v, !.c = c, !.comm = comm]
    BY DEF UpdateMultipleLeaves
  <2> PICK stem, values, cs, cm :
          stem = leaf.stem /\ values = leaf.values /\ cs = leaf.c /\ cm = leaf.comm
    OBVIOUS
  <2>3. leaf = [kind |-> "leaf", stem |-> stem, values |-> values, c |-> cs, comm |-> cm]
    BY <2>1
  <2> HIDE DEF v, c, comm
  <2> QED BY ONLY <2>2, <2>3, stem = leaf.stem
<1>2. IsValues(v) /\ DOMAIN v # {} /\ leaf.stem \in Stem
  <2>1. IsValues(leaf.values) /\ DOMAIN leaf.values # {} /\ leaf.stem \in Stem
    BY DEF IsLeaf
  <2>2. DOMAIN v # {}
    BY <2>1 DEF Over
  <2> QED BY <2>1, <2>2, OverValues
<1>3. \A h \in 1 .. 2 : HalfOf(leaf.values, h) = leaf.comm[h]
  BY HalvesIs DEF IsLeaf
<1>4. \A h \in 1 .. 2 : \/ leaf.c[h] = HalfOf(leaf.values, h)
                        \/ leaf.c[h] = Nil /\ HalfOf(leaf.values, h) = Identity
  BY DEF IsLeaf
<1>5. ASSUME NEW h \in 1 .. 2
      PROVE  /\ comm[h] = HalfOf(v, h)
             /\ \/ c[h] = HalfOf(v, h)
                \/ c[h] = Nil /\ HalfOf(v, h) = Identity
             /\ leaf.c[h] = HalfOf(leaf.values, h) => c[h] = HalfOf(v, h)
             /\ c[h] = Nil => leaf.c[h] = Nil
             /\ DOMAIN new = {} => c[h] = leaf.c[h] /\ comm[h] = leaf.comm[h]
  <2>1. c[h] = IF \A s \in DOMAIN new : Half(s) # h THEN leaf.c[h] ELSE HalfOf(v, h)
    BY UpdatedHalfIs
  <2>2. comm[h] = Updated(leaf.comm[h], leaf.c[h], c[h])
    OBVIOUS
  <2>3. CASE \A s \in DOMAIN new : Half(s) # h
    <3>1. HalfOf(v, h) = HalfOf(leaf.values, h)
      <4>1. /\ DOMAIN v = DOMAIN new \cup DOMAIN leaf.values
            /\ \A x \in DOMAIN leaf.values \ DOMAIN new : v[x] = leaf.values[x]
        BY DEF Over
      <4> HIDE DEF v
      <4> QED BY <2>3, <4>1, SameHalf
    <3>2. c[h] = leaf.c[h]
      BY <2>1, <2>3
    <3>3. comm[h] = leaf.comm[h]
      <4> HIDE DEF c, comm
      <4> QED BY <2>2, <3>2 DEF Updated
    <3> HIDE DEF c, comm, v
    <3> QED BY <1>3, <1>4, <3>1, <3>2, <3>3
  <2>4. CASE ~ \A s \in DOMAIN new : Half(s) # h
    <3>1. c[h] = HalfOf(v, h)
      BY <2>1, <2>4
    <3>2. leaf.c[h] # Nil
      BY <2>4
    <3>3. leaf.c[h] = leaf.comm[h]
      BY <1>3, <1>4, <3>2
    <3>4. comm[h] = c[h]
      <4> HIDE DEF c, comm
      <4> QED BY <2>2, <3>3 DEF Updated
    <3>5. DOMAIN new # {}
      BY <2>4
    <3>6. HalfOf(v, h) # Nil
      BY HalfOfIs
    <3> HIDE DEF c, comm, v
    <3> QED BY <3>1, <3>4, <3>5, <3>6
  <2> QED BY <2>3, <2>4
<1>6. /\ updated.kind = "leaf" /\ updated.stem = leaf.stem /\ updated.values = v
      /\ updated.c = c /\ updated.comm = comm
      /\ updated = [kind |-> "leaf", stem |-> updated.stem, values |-> updated.values,
                    c |-> updated.c, comm |-> updated.comm]
  <2> HIDE DEF c, comm, v
  <2> QED BY ONLY <1>1
<1>7. c = [h \in 1 .. 2 |-> c[h]] /\ comm = [h \in 1 .. 2 |-> comm[h]]
  OBVIOUS
<1> HIDE DEF c, comm, v
<1>8. comm = Halves(v)
  BY <1>5, <1>7, HalvesIs
<1>9. IsLeaf(updated)
  BY <1>2, <1>5, <1>6, <1>7, <1>8 DEF IsLeaf
<1>10. ASSUME leaf.c = Halves(leaf.values) PROVE c = Halves(v)
  <2>1. \A h \in 1 .. 2 : c[h] = HalfOf(v, h)
    BY <1>5, <1>10, HalvesIs
  <2> QED BY <1>7, <2>1, HalvesIs
<1>11. ASSUME DOMAIN new = {} PROVE updated = leaf
  <2>1. v = leaf.values
    BY <1>11, OverValues DEF IsLeaf, v
  <2>2. c = leaf.c
    <3>1. leaf.c = [h \in 1 .. 2 |-> leaf.c[h]]
      BY DEF IsLeaf
    <3> QED BY <1>5, <1>7, <1>11, <3>1
  <2>3. comm = leaf.comm
    BY <1>8, <2>1 DEF IsLeaf
  <2>4. leaf = [kind |-> "leaf", stem |-> leaf.stem, values |-> leaf.values,
                c |-> leaf.c, comm |-> leaf.comm]
    BY DEF IsLeaf
  <2> QED BY <1>1, <2>1, <2>2, <2>3, <2>4
<1>12. updated.values = Over(new, leaf.values)
  BY <1>6 DEF v
<1> QED BY <1>5, <1>6, <1>9, <1>10, <1>11, <1>12

\* The value at a suffix goes; the half it was in may be gone with it.
LEMMA DeleteIs ==
    ASSUME NEW leaf, IsLeaf(leaf), NEW s, ~(DOMAIN leaf.values \subseteq {s}),
           leaf.c[Half(s)] # Nil
    PROVE  LET left == DeleteFromLeaf(leaf, s)
           IN  /\ IsLeaf(left) /\ left.kind = "leaf" /\ left.stem = leaf.stem
               /\ left.values = Restrict(leaf.values, DOMAIN leaf.values \ {s})
<1> DEFINE v == Restrict(leaf.values, DOMAIN leaf.values \ {s})
           h == Half(s)
           gone == HalfOf(v, h) = Identity
           c == IF gone THEN Nil ELSE Updated(leaf.c[h], HalfOf(leaf.values, h), HalfOf(v, h))
           comm == Updated(leaf.comm[h], leaf.c[h], IF gone THEN Identity ELSE c)
           cs == [leaf.c EXCEPT ![h] = c]
           comms == [leaf.comm EXCEPT ![h] = comm]
<1> PICK left : left = DeleteFromLeaf(leaf, s)
  OBVIOUS
<1>1. left = [kind |-> "leaf", stem |-> leaf.stem, values |-> v, c |-> cs, comm |-> comms]
  <2>1. leaf = [kind |-> "leaf", stem |-> leaf.stem, values |-> leaf.values,
                c |-> leaf.c, comm |-> leaf.comm]
    BY DEF IsLeaf
  <2>2. left = [leaf EXCEPT !.values = v, !.c = cs, !.comm = comms]
    <3>1. CASE gone
      BY <3>1 DEF DeleteFromLeaf
    <3>2. CASE ~gone
      BY <3>2 DEF DeleteFromLeaf
    <3> QED BY <3>1, <3>2
  <2> PICK stem, values, oc, ocm :
          stem = leaf.stem /\ values = leaf.values /\ oc = leaf.c /\ ocm = leaf.comm
    OBVIOUS
  <2>3. leaf = [kind |-> "leaf", stem |-> stem, values |-> values, c |-> oc, comm |-> ocm]
    BY <2>1
  <2> HIDE DEF v, cs, comms
  <2> QED BY ONLY <2>2, <2>3, stem = leaf.stem
<1>2. IsValues(leaf.values) /\ leaf.stem \in Stem
  BY DEF IsLeaf
<1>3. IsValues(v) /\ DOMAIN v = DOMAIN leaf.values \ {s} /\ DOMAIN v # {}
      /\ \A x \in DOMAIN v : v[x] = leaf.values[x]
  <2>1. DOMAIN leaf.values \ {s} # {}
    OBVIOUS
  <2>2. DOMAIN leaf.values \ {s} \in SUBSET DOMAIN leaf.values
    OBVIOUS
  <2> QED BY <1>2, <2>1, <2>2, PartValues
<1>4. h \in 1 .. 2
  BY HalfIs
<1>5. leaf.c[h] = HalfOf(leaf.values, h)
  BY <1>4 DEF IsLeaf
<1>6. \A k \in 1 .. 2 : leaf.comm[k] = HalfOf(leaf.values, k)
  BY HalvesIs DEF IsLeaf
<1>7. \A k \in 1 .. 2 : \/ leaf.c[k] = HalfOf(leaf.values, k)
                        \/ leaf.c[k] = Nil /\ HalfOf(leaf.values, k) = Identity
  BY DEF IsLeaf
<1>8. leaf.c = [k \in 1 .. 2 |-> leaf.c[k]] /\ leaf.comm = [k \in 1 .. 2 |-> leaf.comm[k]]
  <2>1. leaf.c = [k \in 1 .. 2 |-> leaf.c[k]] /\ leaf.comm = Halves(leaf.values)
    BY DEF IsLeaf
  <2> QED BY <2>1 DEF Halves
<1>9. c = IF gone THEN Nil ELSE HalfOf(v, h)
  <2>1. Updated(leaf.c[h], HalfOf(leaf.values, h), HalfOf(v, h)) = HalfOf(v, h)
    BY <1>5 DEF Updated
  <2> HIDE DEF v, gone
  <2> QED BY <2>1
<1>10. comm = HalfOf(v, h)
  <2>1. leaf.comm[h] = leaf.c[h]
    BY <1>4, <1>5, <1>6
  <2>2. (IF gone THEN Identity ELSE c) = HalfOf(v, h)
    <3> HIDE DEF v, c
    <3> QED BY <1>9
  <2>3. comm = Updated(leaf.comm[h], leaf.c[h], HalfOf(v, h))
    <3> HIDE DEF v, c, gone
    <3> QED BY <2>2
  <2> HIDE DEF comm, v
  <2> QED BY <2>1, <2>3 DEF Updated
<1>11. ASSUME NEW k \in 1 .. 2, k # h PROVE HalfOf(v, k) = HalfOf(leaf.values, k)
  <2> HIDE DEF v
  <2>1. \A x : Half(x) = k => (x \in DOMAIN v <=> x \in DOMAIN leaf.values)
    BY <1>3, <1>11
  <2>2. \A x \in DOMAIN v : Half(x) = k => v[x] = leaf.values[x]
    BY <1>3
  <2> QED BY <2>1, <2>2, SameHalf
<1> HIDE DEF c, comm
<1>12. /\ cs = [k \in 1 .. 2 |-> cs[k]] /\ comms = [k \in 1 .. 2 |-> comms[k]]
       /\ \A k \in 1 .. 2 : /\ cs[k] = IF k = h THEN c ELSE leaf.c[k]
                            /\ comms[k] = IF k = h THEN comm ELSE leaf.comm[k]
  <2> HIDE DEF h
  <2> QED BY <1>4, <1>8
<1> HIDE DEF cs, comms, v
<1>13. \A k \in 1 .. 2 : comms[k] = HalfOf(v, k)
  BY <1>6, <1>10, <1>11, <1>12
<1>14. \A k \in 1 .. 2 : \/ cs[k] = HalfOf(v, k)
                         \/ cs[k] = Nil /\ HalfOf(v, k) = Identity
  <2>1. ASSUME NEW k \in 1 .. 2 PROVE \/ cs[k] = HalfOf(v, k)
                                      \/ cs[k] = Nil /\ HalfOf(v, k) = Identity
    <3>1. CASE k = h
      BY <1>9, <1>12, <3>1
    <3>2. CASE k # h
      BY <1>7, <1>11, <1>12, <3>2
    <3> QED BY <3>1, <3>2
  <2> QED BY <2>1
<1>15. /\ left.kind = "leaf" /\ left.stem = leaf.stem /\ left.values = v
       /\ left.c = cs /\ left.comm = comms
       /\ left = [kind |-> "leaf", stem |-> left.stem, values |-> left.values,
                  c |-> left.c, comm |-> left.comm]
  BY ONLY <1>1
<1>16. comms = Halves(v)
  BY <1>12, <1>13, HalvesIs
<1>17. IsLeaf(left)
  BY <1>2, <1>3, <1>12, <1>14, <1>15, <1>16 DEF IsLeaf
<1> QED BY <1>15, <1>17 DEF v

-----------------------------------------------------------------------------
(* Commitments of nodes.                                                     *)

LEMMA CommitmentIs ==
    /\ Commitment(EmptyNode) = Identity
    /\ \A n : n.kind = "leaf" => Commitment(n) = [stem |-> n.stem, c |-> n.comm]
    /\ \A n : n.kind = "internal" =>
           Commitment(n) = IF n.comm = NoChildren THEN Identity ELSE [children |-> n.comm]
    /\ \A x, y : [stem |-> x, c |-> y] # Identity
    /\ \A x : [children |-> x] # Identity
<1>1. Commitment(EmptyNode) = Identity
  BY DEF Commitment, EmptyNode
<1>2. ASSUME NEW n, n.kind = "leaf" PROVE Commitment(n) = [stem |-> n.stem, c |-> n.comm]
  BY <1>2 DEF Commitment
<1>3. ASSUME NEW n, n.kind = "internal"
      PROVE  Commitment(n) = IF n.comm = NoChildren THEN Identity ELSE [children |-> n.comm]
  BY <1>3 DEF Commitment
<1>4. \A x, y : [stem |-> x, c |-> y] # Identity
  BY DEF Identity
<1>5. \A x : [children |-> x] # Identity
  BY DEF Identity
<1> QED BY <1>1, <1>2, <1>3, <1>4, <1>5

LEMMA InternalIs ==
    ASSUME NEW comm, NEW cow, comm = [w \in Word |-> comm[w]],
           cow = [w \in DOMAIN cow |-> cow[w]], DOMAIN cow \subseteq Word
    PROVE  /\ IsInternal(Internal(comm, cow)) /\ Internal(comm, cow).kind = "internal"
           /\ Internal(comm, cow).comm = comm /\ Internal(comm, cow).cow = cow
<1> PICK n : n = Internal(comm, cow)
  OBVIOUS
<1>1. n.kind = "internal" /\ n.comm = comm /\ n.cow = cow
  BY DEF Internal
<1>2. IsInternal(n)
  BY <1>1 DEF IsInternal
<1> QED BY <1>1, <1>2

LEMMA EmptyIs == EmptyNode.kind = "empty"
  BY DEF EmptyNode

\* A node without touched children has no domain to remember.
LEMMA NoCow == \A n : IsInternal(n) => (n.cow = <<>> <=> DOMAIN n.cow = {})
<1>1. ASSUME NEW n, IsInternal(n) PROVE n.cow = <<>> <=> DOMAIN n.cow = {}
  <2>1. n.cow = [w \in DOMAIN n.cow |-> n.cow[w]]
    BY <1>1 DEF IsInternal
  <2>2. DOMAIN <<>> = {}
    OBVIOUS
  <2>3. ASSUME DOMAIN n.cow = {} PROVE n.cow = <<>>
    <3> PICK f : f = n.cow
      OBVIOUS
    <3> QED BY ONLY <2>1, <2>3, f = n.cow
  <2> QED BY <2>2, <2>3
<1> QED BY <1>1

-----------------------------------------------------------------------------
(* Marking a way.                                                            *)

OnWay(s, n, p) == Len(p) < n /\ IsPrefix(p, s)

\* What marking does to a node.
LEMMA CowIs ==
    ASSUME NEW t, Shape(t), NEW s \in Stem, NEW n \in Nat, n <= Len(Terminal(t, s)),
           NEW p \in Path
    PROVE  LET u == CowChildren(t, s, n)
           IN  /\ u[p].kind = t[p].kind
               /\ t[p].kind # "internal" => u[p] = t[p]
               /\ ~OnWay(s, n, p) => u[p] = t[p]
               /\ OnWay(s, n, p) => t[p].kind = "internal" /\ s[Len(p) + 1] \in DOMAIN u[p].cow
               /\ t[p].kind = "internal" =>
                      /\ IsInternal(u[p]) /\ u[p].comm = t[p].comm
                      /\ DOMAIN t[p].cow \subseteq DOMAIN u[p].cow
                      /\ \A w \in DOMAIN u[p].cow :
                             u[p].cow[w] = IF w \in DOMAIN t[p].cow THEN t[p].cow[w]
                                           ELSE Commitment(t[Append(p, w)])
               /\ Commitment(u[p]) = Commitment(t[p])
<1> PICK u : u = CowChildren(t, s, n)
  OBVIOUS
<1>1. CASE ~OnWay(s, n, p)
  <2>1. u[p] = t[p]
    BY <1>1 DEF CowChildren, OnWay
  <2>2. t[p].kind = "internal" => IsInternal(t[p])
    BY ShapeIs
  <2>3. t[p].kind = "internal" =>
            /\ DOMAIN t[p].cow \subseteq DOMAIN u[p].cow
            /\ \A w \in DOMAIN u[p].cow :
                   u[p].cow[w] = IF w \in DOMAIN t[p].cow THEN t[p].cow[w]
                                 ELSE Commitment(t[Append(p, w)])
    BY <2>1
  <2> QED BY <1>1, <2>1, <2>2, <2>3
<1>2. CASE OnWay(s, n, p)
  <2> PICK e : e = Terminal(t, s)
    OBVIOUS
  <2>0. s \in Path /\ Len(p) \in Nat /\ Len(s) = StemSize /\ StemSize \in Nat
        /\ \A k \in 1 .. Len(s) : s[k] \in Word
    BY PathIs
  <2>1. e \in Path /\ IsPrefix(e, s) /\ Len(e) \in 1 .. StemSize
        /\ \A q \in Path : IsPrefix(q, e) /\ q # e => t[q].kind = "internal"
    BY TerminalIs
  <2>2. Len(p) < Len(e) /\ Len(p) <= Len(e)
    BY ONLY <1>2, <2>0, <2>1, n <= Len(Terminal(t, s)), e = Terminal(t, s), n \in Nat DEF OnWay
  <2>3. t[p].kind = "internal"
    <3>1. p # e
      BY ONLY <2>0, <2>2
    <3>2. IsPrefix(p, e)
      BY <1>2, <2>0, <2>1, <2>2, PrefixOrder DEF OnWay
    <3> QED BY <2>1, <3>1, <3>2
  <2> PICK w : w = s[Len(p) + 1]
    OBVIOUS
  <2>4. w \in Word
    <3>1. Len(p) + 1 \in 1 .. Len(s)
      BY ONLY <2>0, <2>1, <2>2
    <3> QED BY <2>0, <3>1
  <2> DEFINE one == [x \in {w} |-> Commitment(t[Append(p, x)])]
             cow == Over(t[p].cow, one)
  <2>5. IsInternal(t[p])
    BY <2>3, ShapeIs
  <2>6. u[p] = Internal(t[p].comm, cow)
    <3>1. u[p] = [t[p] EXCEPT !.cow = cow]
      BY <1>2 DEF CowChildren, OnWay
    <3>2. t[p] = Internal(t[p].comm, t[p].cow)
      BY <2>5 DEF IsInternal
    <3> PICK a, b : a = t[p].comm /\ b = t[p].cow
      OBVIOUS
    <3>3. t[p] = [kind |-> "internal", comm |-> a, cow |-> b]
      BY <3>2 DEF Internal
    <3>4. u[p] = [kind |-> "internal", comm |-> a, cow |-> cow]
      <4> HIDE DEF cow
      <4> QED BY ONLY <3>1, <3>3
    <3> QED BY <3>4 DEF Internal
  <2>7. DOMAIN one = {w} /\ one[w] = Commitment(t[Append(p, w)])
    OBVIOUS
  <2>8. /\ DOMAIN cow = DOMAIN t[p].cow \cup {w}
        /\ \A x \in DOMAIN cow : cow[x] = IF x \in DOMAIN t[p].cow THEN t[p].cow[x]
                                          ELSE Commitment(t[Append(p, x)])
    <3> HIDE DEF one
    <3>1. \A x \in {w} : one[x] = Commitment(t[Append(p, x)])
      BY <2>7
    <3> QED BY <2>7, <3>1 DEF Over
  <2>9. cow = [x \in DOMAIN cow |-> cow[x]]
    <3> HIDE DEF one
    <3> QED BY DEF Over
  <2> HIDE DEF cow, one
  <2>10. IsInternal(u[p]) /\ u[p].kind = "internal" /\ u[p].comm = t[p].comm /\ u[p].cow = cow
    <3>1. t[p].comm = [x \in Word |-> t[p].comm[x]] /\ DOMAIN t[p].cow \subseteq Word
      BY <2>5 DEF IsInternal
    <3>2. DOMAIN cow \subseteq Word
      BY <2>4, <2>8, <3>1
    <3>3. /\ IsInternal(Internal(t[p].comm, cow))
          /\ Internal(t[p].comm, cow).kind = "internal"
          /\ Internal(t[p].comm, cow).comm = t[p].comm
          /\ Internal(t[p].comm, cow).cow = cow
      <4> PICK a : a = t[p].comm
        OBVIOUS
      <4>1. a = [x \in Word |-> a[x]]
        BY <3>1
      <4> QED BY <4>1, <3>2, <2>9, InternalIs
    <3> QED BY <2>6, <3>3
  <2>11. Commitment(u[p]) = Commitment(t[p])
    BY <2>3, <2>10, CommitmentIs
  <2> QED BY <1>2, <2>3, <2>8, <2>10, <2>11
<1> QED BY <1>1, <1>2

\* What has the same kinds of nodes, and the same leaves, has the same shape and
\* holds the same.
SameKind(t, u) ==
    \A p \in Path : /\ u[p].kind = t[p].kind
                    /\ t[p].kind # "internal" => u[p] = t[p]
                    /\ t[p].kind = "internal" => IsInternal(u[p])

LEMMA SameKinds ==
    ASSUME NEW t, Shape(t), NEW u, u = [p \in Path |-> u[p]], SameKind(t, u)
    PROVE  /\ Shape(u)
           /\ \A c : /\ Holds(t, c) => Holds(u, c)
                     /\ Canonical(t, c) => Canonical(u, c)
           /\ \A r \in Stem : Terminal(u, r) = Terminal(t, r)
<1>1. \A p \in Path : /\ u[p].kind = t[p].kind
                      /\ t[p].kind # "internal" => u[p] = t[p]
                      /\ t[p].kind = "internal" => IsInternal(u[p])
  BY ONLY SameKind(t, u) DEF SameKind
<1>2. Shape(u)
  <2>1. ASSUME NEW p \in Path PROVE IsNode(u[p])
    <3>1. IsNode(t[p])
      BY DEF Shape
    <3>2. CASE t[p].kind = "internal"
      BY <1>1, <3>2 DEF IsNode
    <3>3. CASE t[p].kind # "internal"
      BY <1>1, <3>1, <3>3
    <3> QED BY <3>2, <3>3
  <2>2. u[<<>>].kind = "internal"
    BY <1>1, RootIsInternal
  <2>3. \A p \in Path : u[p].kind = "internal" => Len(p) < StemSize
    BY <1>1 DEF Shape
  <2>4. \A p, q \in Path : IsStrictPrefix(q, p) /\ u[p].kind # "empty" => u[q].kind = "internal"
    BY <1>1 DEF Shape
  <2>5. ASSUME NEW p \in Path, u[p].kind = "leaf" PROVE IsPrefix(p, u[p].stem)
    <3>1. t[p].kind = "leaf" /\ u[p] = t[p]
      BY <1>1, <2>5
    <3> QED BY <3>1, ShapeIs
  <2> QED BY <2>1, <2>2, <2>3, <2>4, <2>5 DEF Shape
<1>3. ASSUME NEW c, Holds(t, c) PROVE Holds(u, c)
  <2>1. c = [r \in Stem |-> c[r]] /\ \A r \in Stem : IsValues(c[r])
    BY <1>3 DEF Holds
  <2>2. ASSUME NEW p \in Path, u[p].kind = "leaf" PROVE u[p].values = c[u[p].stem]
    <3>1. t[p].kind = "leaf" /\ u[p] = t[p]
      BY <1>1, <2>2
    <3> QED BY <1>3, <3>1 DEF Holds
  <2>3. ASSUME NEW r \in Stem, DOMAIN c[r] # {}
        PROVE  \E p \in Path : u[p].kind = "leaf" /\ u[p].stem = r
    <3>1. PICK p \in Path : t[p].kind = "leaf" /\ t[p].stem = r
      BY <1>3, <2>3 DEF Holds
    <3>2. u[p] = t[p]
      BY <1>1, <3>1
    <3> QED BY <3>1, <3>2
  <2>4. ASSUME NEW p \in Path, u[p].kind = "internal", p # <<>>
        PROVE  \E r \in Stem : DOMAIN c[r] # {} /\ IsPrefix(p, r)
    BY <1>1, <1>3, <2>4 DEF Holds
  <2> QED BY <2>1, <2>2, <2>3, <2>4 DEF Holds
<1>4. ASSUME NEW c, Canonical(t, c) PROVE Canonical(u, c)
  <2>1. ASSUME NEW p \in Path, u[p].kind = "internal", p # <<>> PROVE Parts(c, p)
    BY <1>1, <1>4, <2>1 DEF Canonical
  <2>2. ASSUME NEW p \in Path, u[p].kind = "leaf" PROVE u[p].c = Halves(u[p].values)
    <3>1. t[p].kind = "leaf" /\ u[p] = t[p]
      BY <1>1, <2>2
    <3> QED BY <1>4, <3>1 DEF Canonical
  <2> QED BY <2>1, <2>2 DEF Canonical
<1>5. ASSUME NEW r \in Stem PROVE Terminal(u, r) = Terminal(t, r)
  <2>1. \A k \in 1 .. StemSize : Prefix(r, k) \in Path
    <3>1. r \in Path /\ Len(r) = StemSize /\ StemSize \in Nat
      BY PathIs
    <3>2. \A k \in 1 .. StemSize : k \in 0 .. Len(r)
      BY ONLY <3>1
    <3> QED BY <3>1, <3>2, PrefixTo
  <2>2. \A k \in 1 .. StemSize : u[Prefix(r, k)].kind = t[Prefix(r, k)].kind
    BY <1>1, <2>1
  <2>3. {k \in 1 .. StemSize : u[Prefix(r, k)].kind # "internal"}
            = {k \in 1 .. StemSize : t[Prefix(r, k)].kind # "internal"}
    BY <2>2
  <2> QED BY <2>3 DEF Terminal
<1> QED BY <1>2, <1>3, <1>4, <1>5

\* Marking up to where the way of a stem ends keeps all that the invariant says.
LEMMA CowKeeps ==
    ASSUME NEW t, Shape(t), NEW s \in Stem, NEW n \in Nat, n <= Len(Terminal(t, s))
    PROVE  LET u == CowChildren(t, s, n)
           IN  /\ Shape(u)
               /\ Marks(t) => Marks(u)
               /\ Agrees(t) => Agrees(u)
               /\ \A c : /\ Holds(t, c) => Holds(u, c)
                         /\ Canonical(t, c) => Canonical(u, c)
               /\ \A r \in Stem : Terminal(u, r) = Terminal(t, r)
<1> PICK u : u = CowChildren(t, s, n)
  OBVIOUS
<1>1. ASSUME NEW p \in Path
      PROVE  /\ u[p].kind = t[p].kind
             /\ t[p].kind # "internal" => u[p] = t[p]
             /\ ~OnWay(s, n, p) => u[p] = t[p]
             /\ OnWay(s, n, p) => t[p].kind = "internal" /\ s[Len(p) + 1] \in DOMAIN u[p].cow
             /\ t[p].kind = "internal" =>
                    /\ IsInternal(u[p]) /\ u[p].comm = t[p].comm
                    /\ DOMAIN t[p].cow \subseteq DOMAIN u[p].cow
                    /\ \A w \in DOMAIN u[p].cow :
                           u[p].cow[w] = IF w \in DOMAIN t[p].cow THEN t[p].cow[w]
                                         ELSE Commitment(t[Append(p, w)])
             /\ Commitment(u[p]) = Commitment(t[p])
  BY CowIs
<1>2. /\ Shape(u)
      /\ \A c : /\ Holds(t, c) => Holds(u, c)
                /\ Canonical(t, c) => Canonical(u, c)
      /\ \A r \in Stem : Terminal(u, r) = Terminal(t, r)
  <2>1. u = [p \in Path |-> u[p]]
    BY DEF CowChildren
  <2>2. SameKind(t, u)
    BY <1>1 DEF SameKind
  <2> QED BY ONLY <2>1, <2>2, Shape(t), SameKinds
<1>3. ASSUME Marks(t) PROVE Marks(u)
  <2>1. ASSUME NEW p \in Path, NEW q \in Path, u[p].kind = "internal", DOMAIN u[p].cow # {},
               IsStrictPrefix(q, p)
        PROVE  p[Len(q) + 1] \in DOMAIN u[q].cow
    <3>1. t[q].kind = "internal" /\ t[p].kind = "internal"
      <4>1. t[p].kind = "internal"
        BY <1>1, <2>1
      <4>2. t[p].kind # "empty"
        BY <4>1
      <4> QED BY <2>1, <4>1, <4>2 DEF Shape
    <3>2. CASE DOMAIN t[p].cow # {}
      <4>1. p[Len(q) + 1] \in DOMAIN t[q].cow
        BY <1>3, <2>1, <3>1, <3>2 DEF Marks
      <4> QED BY <1>1, <3>1, <4>1
    <3>3. CASE OnWay(s, n, p)
      <4>1. Len(q) < Len(p) /\ Len(q) \in Nat /\ Len(p) \in Nat
        BY <2>1, NextStep, PathIs DEF IsStrictPrefix
      <4>2. s \in Path
        BY PathIs
      <4>3. IsPrefix(q, s)
        BY <2>1, <3>3, <4>2, PrefixOrder DEF IsStrictPrefix, OnWay
      <4>4. OnWay(s, n, q)
        <5>1. Len(q) < n
          BY ONLY <3>3, <4>1, n \in Nat DEF OnWay
        <5> QED BY <4>3, <5>1 DEF OnWay
      <4>5. p[Len(q) + 1] = s[Len(q) + 1]
        <5>1. Len(q) + 1 \in 1 .. Len(p)
          BY ONLY <4>1
        <5> QED BY <3>3, <4>2, <5>1, PrefixIs DEF OnWay
      <4> QED BY <1>1, <4>4, <4>5
    <3>4. ~OnWay(s, n, p) => DOMAIN t[p].cow # {}
      BY <1>1, <2>1
    <3> QED BY <3>2, <3>3, <3>4
  <2> QED BY <2>1 DEF Marks
<1>4. ASSUME Agrees(t) PROVE Agrees(u)
  <2>1. ASSUME NEW p \in Path, u[p].kind = "internal", NEW w \in Word
        PROVE  u[p].comm[w] = IF w \in DOMAIN u[p].cow THEN u[p].cow[w]
                              ELSE Commitment(u[Append(p, w)])
    <3>1. t[p].kind = "internal"
      BY <1>1, <2>1
    <3>2. t[p].comm[w] = IF w \in DOMAIN t[p].cow THEN t[p].cow[w]
                         ELSE Commitment(t[Append(p, w)])
      BY <1>4, <3>1 DEF Agrees
    <3>3. Commitment(u[Append(p, w)]) = Commitment(t[Append(p, w)])
      <4>1. Append(p, w) \in Path
        BY <3>1, ShapeIs, ChildIs
      <4> QED BY <1>1, <4>1
    <3> QED BY <1>1, <3>1, <3>2, <3>3
  <2> QED BY <2>1 DEF Agrees
<1> QED BY <1>2, <1>3, <1>4

\* The parent of a node remembers that it had another commitment.
Noted(t, p) ==
    \A q \in Path, w \in Word :
        Len(q) < StemSize /\ Append(q, w) = p => w \in DOMAIN t[q].cow

\* All nodes above a node do.
WayMarked(t, p) ==
    \A q \in Path : IsPrefix(q, p) /\ q # p => p[Len(q) + 1] \in DOMAIN t[q].cow

LEMMA MarkedIsNoted ==
    ASSUME NEW t, NEW p \in Path, WayMarked(t, p)
    PROVE  Noted(t, p)
<1>1. ASSUME NEW q \in Path, NEW w \in Word, Len(q) < StemSize, Append(q, w) = p
      PROVE  w \in DOMAIN t[q].cow
  <2>1. /\ q # Append(q, w) /\ Append(q, w)[Len(q) + 1] = w /\ IsPrefix(q, Append(q, w))
    BY <1>1, ChildIs
  <2> QED BY <1>1, <2>1 DEF WayMarked
<1> QED BY <1>1 DEF Noted

\* So it is after marking up to the end of the way.
LEMMA WayNotes ==
    ASSUME NEW t, Shape(t), NEW s \in Stem
    PROVE  WayMarked(CowChildren(t, s, Len(Terminal(t, s))), Terminal(t, s))
<1> PICK p : p = Terminal(t, s)
  OBVIOUS
<1> PICK u : u = CowChildren(t, s, Len(p))
  OBVIOUS
<1>1. p \in Path /\ IsPrefix(p, s) /\ Len(p) \in Nat /\ s \in Path
  BY TerminalIs, PathIs
<1>2. ASSUME NEW q \in Path, IsPrefix(q, p), q # p
      PROVE  p[Len(q) + 1] \in DOMAIN u[q].cow
  <2>1. Len(q) \in Nat /\ Len(q) < Len(p)
    BY <1>1, <1>2, NextStep, PathIs
  <2>2. Len(q) + 1 \in 1 .. Len(p) /\ Len(p) <= Len(p)
    BY ONLY <1>1, <2>1
  <2>3. s[Len(q) + 1] = p[Len(q) + 1]
    BY <1>1, <2>2, PrefixIs
  <2>4. OnWay(s, Len(p), q)
    BY <1>1, <1>2, <2>1, PrefixOrder DEF OnWay
  <2>5. s[Len(q) + 1] \in DOMAIN u[q].cow
    BY <1>1, <2>2, <2>4, CowIs
  <2> QED BY <2>3, <2>5
<1> QED BY <1>2 DEF WayMarked

-----------------------------------------------------------------------------
(* A leaf at the end of the way of its stem.                                 *)

\* What is held, after one stem got values.
LEMMA HeldIs ==
    ASSUME NEW c, c = [r \in Stem |-> c[r]], NEW s \in Stem, NEW v
    PROVE  LET d == [c EXCEPT ![s] = v]
           IN  /\ d = [r \in Stem |-> d[r]] /\ d[s] = v
               /\ \A r \in Stem : r # s => d[r] = c[r]
               /\ DOMAIN v # {} => \A r \in Stem : DOMAIN c[r] # {} => DOMAIN d[r] # {}
<1> PICK d : d = [c EXCEPT ![s] = v]
  OBVIOUS
<1>1. /\ d = [r \in Stem |-> d[r]] /\ d[s] = v
      /\ \A r \in Stem : r # s => d[r] = c[r]
  BY ONLY c = [r \in Stem |-> c[r]], d = [c EXCEPT ![s] = v], s \in Stem
<1>2. DOMAIN v # {} => \A r \in Stem : DOMAIN c[r] # {} => DOMAIN d[r] # {}
  BY ONLY <1>1
<1> QED BY <1>1, <1>2

LEMMA SetLeaf ==
    ASSUME NEW t, Shape(t), NEW s \in Stem, NEW leaf, IsLeaf(leaf), leaf.kind = "leaf",
           leaf.stem = s, NEW p, p = Terminal(t, s),
           t[p].kind = "empty" \/ t[p].stem = s,
           NEW u, u = [q \in Path |-> u[q]], u[p] = leaf, \A q \in Path : q # p => u[q] = t[q]
    PROVE  /\ Shape(u)
           /\ Marks(t) => Marks(u)
           /\ Agrees(t) /\ (Noted(t, p) \/ leaf = t[p]) => Agrees(u)
           /\ \A c : LET d == [c EXCEPT ![s] = leaf.values]
                     IN  /\ Holds(t, c) => Holds(u, d)
                         /\ Canonical(t, c) /\ c = [r \in Stem |-> c[r]]
                            /\ leaf.c = Halves(leaf.values) => Canonical(u, d)
<1>1. p \in Path /\ IsPrefix(p, s) /\ t[p].kind # "internal" /\ p # <<>>
      /\ \A q \in Path : IsPrefix(q, p) /\ q # p => t[q].kind = "internal"
  BY TerminalIs
<1>2. u = [q \in Path |-> u[q]] /\ u[p] = leaf /\ \A q \in Path : q # p => u[q] = t[q]
  OBVIOUS
<1>3. u[p].kind = "leaf"
  BY <1>2
<1>4. \A q \in Path : u[q].kind = "internal" <=> t[q].kind = "internal"
  BY <1>1, <1>2, <1>3
<1>5. Shape(u)
  <2>1. ASSUME NEW q \in Path PROVE IsNode(u[q])
    <3>1. CASE q = p
      BY <1>2, <3>1 DEF IsNode
    <3>2. CASE q # p
      BY <1>2, <3>2 DEF Shape
    <3> QED BY <3>1, <3>2
  <2>2. u[<<>>].kind = "internal"
    BY <1>4, RootIsInternal
  <2>3. \A q \in Path : u[q].kind = "internal" => Len(q) < StemSize
    BY <1>4 DEF Shape
  <2>4. ASSUME NEW x \in Path, NEW q \in Path, IsStrictPrefix(q, x), u[x].kind # "empty"
        PROVE  u[q].kind = "internal"
    <3>1. CASE x = p
      BY <1>1, <1>4, <2>4, <3>1 DEF IsStrictPrefix
    <3>2. CASE x # p
      <4>1. t[x].kind # "empty"
        BY <1>2, <2>4, <3>2
      <4> QED BY <1>4, <2>4, <4>1 DEF Shape
    <3> QED BY <3>1, <3>2
  <2>5. ASSUME NEW q \in Path, u[q].kind = "leaf" PROVE IsPrefix(q, u[q].stem)
    <3>1. CASE q = p
      BY <1>1, <1>2, <3>1
    <3>2. CASE q # p
      BY <1>2, <2>5, <3>2 DEF Shape
    <3> QED BY <3>1, <3>2
  <2> QED BY <1>2, <2>1, <2>2, <2>3, <2>4, <2>5 DEF Shape
<1>6. ASSUME Marks(t) PROVE Marks(u)
  <2>1. ASSUME NEW x \in Path, NEW q \in Path, u[x].kind = "internal", DOMAIN u[x].cow # {},
               IsStrictPrefix(q, x)
        PROVE  x[Len(q) + 1] \in DOMAIN u[q].cow
    <3>1. x # p /\ u[x] = t[x]
      BY <1>2, <1>3, <2>1
    <3>2. t[q].kind = "internal"
      <4>1. t[x].kind # "empty"
        BY <2>1, <3>1
      <4> QED BY <2>1, <4>1 DEF Shape
    <3>3. u[q] = t[q]
      BY <1>1, <1>2, <3>2
    <3> QED BY <1>6, <2>1, <3>1, <3>3 DEF Marks
  <2> QED BY <2>1 DEF Marks
<1>7. ASSUME Agrees(t), Noted(t, p) \/ leaf = t[p] PROVE Agrees(u)
  <2>1. ASSUME NEW x \in Path, u[x].kind = "internal", NEW w \in Word
        PROVE  u[x].comm[w] = IF w \in DOMAIN u[x].cow THEN u[x].cow[w]
                              ELSE Commitment(u[Append(x, w)])
    <3>1. x # p /\ u[x] = t[x] /\ t[x].kind = "internal"
      BY <1>2, <1>3, <2>1
    <3>2. Append(x, w) \in Path /\ Len(x) < StemSize
      BY <3>1, ShapeIs, ChildIs
    <3>3. u[x].comm[w] = IF w \in DOMAIN t[x].cow THEN t[x].cow[w]
                         ELSE Commitment(t[Append(x, w)])
      BY <1>7, <3>1 DEF Agrees
    <3>4. CASE Append(x, w) # p \/ leaf = t[p]
      <4>1. u[Append(x, w)] = t[Append(x, w)]
        BY <1>2, <3>2, <3>4
      <4> QED BY <3>1, <3>3, <4>1
    <3>5. CASE Append(x, w) = p /\ Noted(t, p)
      <4>1. w \in DOMAIN t[x].cow
        BY <3>2, <3>5 DEF Noted
      <4> QED BY <3>1, <3>3, <4>1
    <3> QED BY <1>7, <3>4, <3>5
  <2> QED BY <2>1 DEF Agrees
<1>8. ASSUME NEW c, c = [r \in Stem |-> c[r]]
      PROVE  LET d == [c EXCEPT ![s] = leaf.values]
             IN  /\ d = [r \in Stem |-> d[r]] /\ d[s] = leaf.values
                 /\ \A r \in Stem : r # s => d[r] = c[r]
                 /\ \A r \in Stem : DOMAIN c[r] # {} => DOMAIN d[r] # {}
  <2>1. DOMAIN leaf.values # {}
    BY DEF IsLeaf
  <2> QED BY <1>8, <2>1, HeldIs
<1>9. ASSUME NEW c, Holds(t, c) PROVE Holds(u, [c EXCEPT ![s] = leaf.values])
  <2> PICK d : d = [c EXCEPT ![s] = leaf.values]
    OBVIOUS
  <2>1. /\ d = [r \in Stem |-> d[r]] /\ d[s] = leaf.values
        /\ \A r \in Stem : r # s => d[r] = c[r]
        /\ \A r \in Stem : DOMAIN c[r] # {} => DOMAIN d[r] # {}
    <3>1. c = [r \in Stem |-> c[r]]
      BY <1>9 DEF Holds
    <3>2. d = [r \in Stem |-> d[r]] /\ d[s] = leaf.values /\ \A r \in Stem : r # s => d[r] = c[r]
      BY ONLY <3>1, s \in Stem, d = [c EXCEPT ![s] = leaf.values]
    <3>3. DOMAIN leaf.values # {}
      BY DEF IsLeaf
    <3> QED BY ONLY <3>2, <3>3
  <2>2. ASSUME NEW r \in Stem PROVE IsValues(d[r])
    <3>1. CASE r = s
      BY <2>1, <3>1 DEF IsLeaf
    <3>2. CASE r # s
      BY <1>9, <2>1, <3>2 DEF Holds
    <3> QED BY <3>1, <3>2
  <2>3. ASSUME NEW q \in Path, u[q].kind = "leaf" PROVE u[q].values = d[u[q].stem]
    <3>1. CASE q = p
      BY <1>2, <2>1, <3>1
    <3>2. CASE q # p
      <4>1. u[q] = t[q] /\ t[q].kind = "leaf" /\ t[q].stem \in Stem
        BY <1>2, <2>3, <3>2, ShapeIs
      <4>2. t[q].stem # s
        BY <3>2, <4>1, LeafAtTerminal
      <4>3. t[q].values = c[t[q].stem]
        BY <1>9, <4>1 DEF Holds
      <4> QED BY <2>1, <4>1, <4>2, <4>3
    <3> QED BY <3>1, <3>2
  <2>4. ASSUME NEW r \in Stem, DOMAIN d[r] # {}
        PROVE  \E q \in Path : u[q].kind = "leaf" /\ u[q].stem = r
    <3>1. CASE r = s
      BY <1>1, <1>2, <1>3, <3>1
    <3>2. CASE r # s
      <4>1. DOMAIN c[r] # {}
        BY <2>1, <2>4, <3>2
      <4>2. PICK q \in Path : t[q].kind = "leaf" /\ t[q].stem = r
        BY <1>9, <4>1 DEF Holds
      <4>3. q # p
        BY <3>2, <4>2, EmptyIs
      <4> QED BY <1>2, <4>2, <4>3
    <3> QED BY <3>1, <3>2
  <2>5. ASSUME NEW q \in Path, u[q].kind = "internal", q # <<>>
        PROVE  \E r \in Stem : DOMAIN d[r] # {} /\ IsPrefix(q, r)
    <3>1. PICK r \in Stem : DOMAIN c[r] # {} /\ IsPrefix(q, r)
      BY <1>4, <1>9, <2>5 DEF Holds
    <3> QED BY <2>1, <3>1
  <2>6. Holds(u, d)
    BY <2>1, <2>2, <2>3, <2>4, <2>5 DEF Holds
  <2> QED BY <2>6
<1>10. ASSUME NEW c, Canonical(t, c), c = [r \in Stem |-> c[r]], leaf.c = Halves(leaf.values)
       PROVE  Canonical(u, [c EXCEPT ![s] = leaf.values])
  <2> PICK d : d = [c EXCEPT ![s] = leaf.values]
    OBVIOUS
  <2>1. \A r \in Stem : DOMAIN c[r] # {} => DOMAIN d[r] # {}
    BY <1>8, <1>10
  <2>2. ASSUME NEW q \in Path, u[q].kind = "internal", q # <<>> PROVE Parts(d, q)
    <3>1. Parts(c, q)
      BY <1>4, <1>10, <2>2 DEF Canonical
    <3> QED BY <2>1, <3>1 DEF Parts
  <2>3. ASSUME NEW q \in Path, u[q].kind = "leaf" PROVE u[q].c = Halves(u[q].values)
    <3>1. CASE q = p
      BY <1>2, <1>10, <3>1
    <3>2. CASE q # p
      BY <1>2, <1>10, <2>3, <3>2 DEF Canonical
    <3> QED BY <3>1, <3>2
  <2>4. Canonical(u, d)
    BY <2>2, <2>3 DEF Canonical
  <2> QED BY <2>4
<1> QED BY <1>5, <1>6, <1>7, <1>9, <1>10

-----------------------------------------------------------------------------
(* Two leaves where there was one.                                           *)

\* The nodes of a fork: internal ones where the stems agree, the two leaves, none
\* besides, and elsewhere what there was.
Between(p, s, m, q) == IsPrefix(q, s) /\ Len(p) <= Len(q) /\ Len(q) < m
Forked(t, p, r, s, new, m, u) ==
    /\ Len(p) < m /\ r[m] # s[m] /\ r \in Stem
    /\ \A k \in 1 .. m - 1 : r[k] = s[k]
    /\ Prefix(r, m) # Prefix(s, m)
    /\ u = [q \in Path |-> u[q]]
    /\ u[Prefix(r, m)] = t[p] /\ u[Prefix(s, m)] = new
    /\ \A q \in Path : Between(p, s, m, q) =>
           /\ u[q] = Internal(NoChildren,
                              [w \in {r[Len(q) + 1], s[Len(q) + 1]} |-> Identity])
           /\ IsPrefix(q, r) /\ IsPrefix(p, q)
    /\ \A q \in Path : ~IsPrefix(p, q) => u[q] = t[q]
    /\ \A q \in Path : IsPrefix(p, q) /\ ~Between(p, s, m, q)
                           /\ q # Prefix(r, m) /\ q # Prefix(s, m) => u[q] = EmptyNode

LEMMA ForkIs ==
    ASSUME NEW t, Shape(t), NEW s \in Stem, NEW new, new.stem = s,
           NEW p, p = Terminal(t, s), t[p].kind = "leaf", t[p].stem # s
    PROVE  \E m \in 1 .. StemSize :
               Forked(t, p, t[p].stem, s, new, m, Fork(t, p, t[p], new))
<1> PICK r, u : r = t[p].stem /\ u = Fork(t, p, t[p], new)
  OBVIOUS
<1>1. /\ p \in Path /\ IsPrefix(p, s) /\ IsPrefix(p, r) /\ r \in Stem /\ Len(p) \in Nat
      /\ r \in Path /\ s \in Path /\ Len(r) = StemSize /\ Len(s) = StemSize
      /\ StemSize \in Nat
  BY TerminalIs, ShapeIs, PathIs
<1> DEFINE D == {n \in 1 .. StemSize : r[n] # s[n]}
<1>2. D # {}
  <2>1. SUFFICES ASSUME \A n \in 1 .. StemSize : r[n] = s[n] PROVE FALSE
    OBVIOUS
  <2>2. r = s
    BY <1>1, <2>1, PrefixIs
  <2> QED BY <2>2
<1>3. PICK m \in D : \A n \in D : m <= n
  <2>1. D \subseteq Nat
    OBVIOUS
  <2> HIDE DEF D
  <2> QED BY <1>2, <2>1, SmallestNat
<1>4. Min(D) = m
  <2>1. \A n \in D : (\A k \in D : n <= k) => n = m
    <3>1. D \subseteq Nat
      OBVIOUS
    <3> HIDE DEF D
    <3> QED BY <1>3, <3>1
  <2> HIDE DEF D
  <2> QED BY <1>3, <2>1 DEF Min
<1>5. m \in 1 .. StemSize /\ m \in 0 .. StemSize /\ m \in Nat /\ r[m] # s[m]
  <2>1. m \in 1 .. StemSize /\ r[m] # s[m]
    BY <1>3
  <2> QED BY ONLY <1>1, <2>1
<1>6. \A k \in 1 .. m - 1 : r[k] = s[k]
  <2>1. ASSUME NEW k \in 1 .. m - 1, r[k] # s[k] PROVE FALSE
    <3>1. k \in 1 .. StemSize /\ ~(m <= k)
      BY ONLY <1>1, <1>5, k \in 1 .. m - 1
    <3>2. k \in D
      BY <2>1, <3>1
    <3> HIDE DEF D
    <3> QED BY <1>3, <3>1, <3>2
  <2> QED BY <2>1
<1>7. Len(p) < m
  <2>1. ASSUME m <= Len(p) PROVE FALSE
    <3>1. m \in 1 .. Len(p)
      BY ONLY <1>1, <1>5, <2>1
    <3>2. r[m] = p[m] /\ s[m] = p[m]
      BY <1>1, <3>1, PrefixIs
    <3> QED BY <1>5, <3>2
  <2> QED BY ONLY <1>1, <1>5, <2>1
<1> PICK pr, ps : pr = Prefix(r, m) /\ ps = Prefix(s, m)
  OBVIOUS
<1>8. /\ pr \in Path /\ Len(pr) = m /\ IsPrefix(pr, r)
      /\ ps \in Path /\ Len(ps) = m /\ IsPrefix(ps, s)
  BY <1>1, <1>5, PrefixTo
<1>9. pr # ps
  <2>1. m \in 1 .. m
    BY ONLY <1>1, <1>5
  <2>2. pr[m] = r[m] /\ ps[m] = s[m]
    BY <1>1, <1>8, <2>1, PrefixIs
  <2> QED BY <1>5, <2>2
<1> DEFINE Mid(q) == IsPrefix(q, s) /\ Len(p) <= Len(q) /\ Len(q) < m
<1>10. IsPrefix(p, pr) /\ IsPrefix(p, ps) /\ ~Mid(pr) /\ ~Mid(ps)
  <2>1. Len(p) <= m /\ ~(m < m)
    BY ONLY <1>1, <1>5, <1>7
  <2> QED BY <1>1, <1>8, <2>1, PrefixOrder
<1>11. ASSUME NEW q \in Path, Mid(q) PROVE IsPrefix(q, r) /\ IsPrefix(p, q)
  <2>1. IsPrefix(p, q)
    BY <1>1, <1>11, PrefixOrder
  <2>2. Len(q) \in Nat
    BY PathIs
  <2>3. Len(q) <= Len(r) /\ \A k \in 1 .. Len(q) : k \in 1 .. m - 1
    BY ONLY <1>1, <1>5, <1>11, <2>2
  <2>4. \A k \in 1 .. Len(q) : q[k] = s[k]
    BY <1>1, <1>11, PrefixIs
  <2>5. \A k \in 1 .. Len(q) : q[k] = r[k]
    BY <1>6, <2>3, <2>4
  <2> QED BY <1>1, <2>1, <2>3, <2>5, PrefixIs
<1>12. u = [q \in Path |->
            CASE Mid(q) -> Internal(NoChildren,
                               [w \in {r[Len(q) + 1], s[Len(q) + 1]} |-> Identity])
              [] q = pr -> t[p]
              [] q = ps -> new
              [] OTHER -> IF IsPrefix(p, q) THEN EmptyNode ELSE t[q]]
  <2>1. Parting(t[p].stem, new.stem) = m
    BY <1>4 DEF Parting
  <2>2. u = [q \in Path |->
                CASE IsPrefix(q, new.stem) /\ Len(p) <= Len(q) /\ Len(q) < m ->
                         Internal(NoChildren,
                                  [w \in {t[p].stem[Len(q) + 1], new.stem[Len(q) + 1]} |-> Identity])
                  [] q = Prefix(t[p].stem, m) -> t[p]
                  [] q = Prefix(new.stem, m) -> new
                  [] OTHER -> IF IsPrefix(p, q) THEN EmptyNode ELSE t[q]]
    BY ONLY <2>1, u = Fork(t, p, t[p], new) DEF Fork
  <2> QED
    BY ONLY <2>2, r = t[p].stem, new.stem = s, pr = Prefix(r, m), ps = Prefix(s, m)
<1>13. u = [q \in Path |-> u[q]]
  BY DEF Fork
<1>14. ASSUME NEW q \in Path
       PROVE  u[q] = CASE Mid(q) -> Internal(NoChildren,
                               [w \in {r[Len(q) + 1], s[Len(q) + 1]} |-> Identity])
                       [] q = pr -> t[p]
                       [] q = ps -> new
                       [] OTHER -> IF IsPrefix(p, q) THEN EmptyNode ELSE t[q]
  <2> HIDE DEF Mid
  <2> QED BY <1>12
<1>15. ASSUME NEW q \in Path, Mid(q)
       PROVE  u[q] = Internal(NoChildren,
                              [w \in {r[Len(q) + 1], s[Len(q) + 1]} |-> Identity])
  <2>1. q # pr /\ q # ps
    BY <1>10, <1>15
  <2> HIDE DEF Mid
  <2> QED BY <1>14, <1>15, <2>1
<1>16. u[pr] = t[p]
  <2> HIDE DEF Mid
  <2> QED BY <1>8, <1>9, <1>10, <1>14
<1>17. u[ps] = new
  <2> HIDE DEF Mid
  <2> QED BY <1>8, <1>9, <1>10, <1>14
<1>18. ASSUME NEW q \in Path, ~IsPrefix(p, q) PROVE u[q] = t[q]
  <2>1. ~Mid(q) /\ q # pr /\ q # ps
    BY <1>10, <1>11, <1>18
  <2> HIDE DEF Mid
  <2> QED BY <1>14, <1>18, <2>1
<1>19. ASSUME NEW q \in Path, IsPrefix(p, q), ~Mid(q), q # pr, q # ps
       PROVE  u[q] = EmptyNode
  <2> HIDE DEF Mid
  <2> QED BY <1>14, <1>19
<1>20. \A q \in Path : Mid(q) =>
           /\ u[q] = Internal(NoChildren,
                              [w \in {r[Len(q) + 1], s[Len(q) + 1]} |-> Identity])
           /\ IsPrefix(q, r) /\ IsPrefix(p, q)
  <2> HIDE DEF Mid
  <2> QED BY <1>11, <1>15
<1>21. \A q \in Path : IsPrefix(p, q) /\ ~Mid(q) /\ q # pr /\ q # ps => u[q] = EmptyNode
  <2> HIDE DEF Mid
  <2> QED BY <1>19
<1>22. \A q \in Path : Mid(q) <=> Between(p, s, m, q)
  BY DEF Between
<1>23. Forked(t, p, r, s, new, m, u)
  <2> HIDE DEF Mid
  <2>1. /\ Len(p) < m /\ r[m] # s[m] /\ r \in Stem
        /\ \A k \in 1 .. m - 1 : r[k] = s[k]
        /\ Prefix(r, m) # Prefix(s, m)
        /\ u = [q \in Path |-> u[q]]
        /\ u[Prefix(r, m)] = t[p] /\ u[Prefix(s, m)] = new
    BY <1>1, <1>5, <1>6, <1>7, <1>9, <1>13, <1>16, <1>17
  <2>2. \A q \in Path : Between(p, s, m, q) =>
            /\ u[q] = Internal(NoChildren,
                               [w \in {r[Len(q) + 1], s[Len(q) + 1]} |-> Identity])
            /\ IsPrefix(q, r) /\ IsPrefix(p, q)
    BY <1>20, <1>22
  <2>3. \A q \in Path : ~IsPrefix(p, q) => u[q] = t[q]
    BY <1>18
  <2>4. \A q \in Path : IsPrefix(p, q) /\ ~Between(p, s, m, q)
                          /\ q # Prefix(r, m) /\ q # Prefix(s, m) => u[q] = EmptyNode
    BY <1>21, <1>22
  <2> QED BY ONLY <2>1, <2>2, <2>3, <2>4 DEF Forked
<1> QED BY <1>5, <1>23

LEMMA HoldsLeaf ==
    ASSUME NEW t, NEW c, Holds(t, c), NEW p \in Path, t[p].kind = "leaf"
    PROVE  c[t[p].stem] = t[p].values
  BY DEF Holds

\* A fork under a marked way keeps all that the invariant says; its leaves are
\* noted above, and no other node with children changes.
LEMMA ForkKeeps ==
    ASSUME NEW t, Shape(t), NEW s \in Stem, NEW new, IsLeaf(new), new.kind = "leaf",
           new.stem = s, NEW p, p = Terminal(t, s), t[p].kind = "leaf", t[p].stem # s,
           WayMarked(t, p)
    PROVE  LET u == Fork(t, p, t[p], new)
           IN  /\ Shape(u)
               /\ Marks(t) => Marks(u)
               /\ Agrees(t) => Agrees(u)
               /\ \A c : LET d == [c EXCEPT ![s] = new.values]
                         IN  /\ Holds(t, c) => Holds(u, d)
                             /\ Canonical(t, c) /\ Holds(t, c)
                                /\ new.c = Halves(new.values) => Canonical(u, d)
               /\ \A q \in Path : t[q].kind = "internal" => u[q] = t[q]
               /\ \A q \in Path : u[q].kind = "leaf" =>
                      \/ q # p /\ u[q] = t[q]
                      \/ Noted(u, q) /\ u[q] \in {t[p], new}
<1> PICK r, leaf, u : r = t[p].stem /\ leaf = t[p] /\ u = Fork(t, p, t[p], new)
  OBVIOUS
<1>0. PICK m \in 1 .. StemSize : Forked(t, p, r, s, new, m, u)
  BY ForkIs
<1> DEFINE Mid(q) == Between(p, s, m, q)
           Cow(q) == [w \in {r[Len(q) + 1], s[Len(q) + 1]} |-> Identity]
<1> PICK pr, ps : pr = Prefix(r, m) /\ ps = Prefix(s, m)
  OBVIOUS
<1>1. /\ p \in Path /\ IsPrefix(p, s) /\ IsPrefix(p, r) /\ r \in Stem /\ Len(p) \in Nat
      /\ r \in Path /\ s \in Path /\ Len(r) = StemSize /\ Len(s) = StemSize
      /\ StemSize \in Nat /\ p # <<>> /\ <<>> \in Path
      /\ \A k \in 1 .. StemSize : r[k] \in Word /\ s[k] \in Word
  <2>1. p \in Path /\ IsPrefix(p, s) /\ p # <<>>
    BY TerminalIs
  <2>2. IsPrefix(p, r) /\ r \in Stem
    BY <2>1, ShapeIs
  <2>3. /\ Len(p) \in Nat /\ r \in Path /\ s \in Path /\ StemSize \in Nat /\ <<>> \in Path
        /\ Len(r) = StemSize /\ Len(s) = StemSize
    BY <2>1, <2>2, PathIs
  <2>4. \A k \in 1 .. StemSize : r[k] \in Word /\ s[k] \in Word
    BY <2>3, PathIs
  <2> QED BY <2>1, <2>2, <2>3, <2>4
<1>2. /\ m \in 1 .. StemSize /\ m \in 0 .. StemSize /\ m \in Nat /\ Len(p) < m /\ r[m] # s[m]
      /\ pr # ps /\ u[pr] = leaf /\ u[ps] = new /\ u = [q \in Path |-> u[q]]
      /\ leaf.stem = r /\ r # s /\ leaf.kind = "leaf" /\ leaf = t[p] /\ IsLeaf(leaf)
  <2>1. m \in 0 .. StemSize /\ m \in Nat
    BY ONLY <1>1, m \in 1 .. StemSize
  <2>2. IsLeaf(t[p])
    BY <1>1, ShapeIs
  <2> QED BY <1>0, <1>1, <2>1, <2>2 DEF Forked
<1>3. /\ pr \in Path /\ Len(pr) = m /\ IsPrefix(pr, r)
      /\ ps \in Path /\ Len(ps) = m /\ IsPrefix(ps, s)
  BY <1>1, <1>2, PrefixTo
<1>4. /\ \A q \in Path : Mid(q) => u[q] = Internal(NoChildren, Cow(q))
      /\ \A q \in Path : Mid(q) => IsPrefix(q, r) /\ IsPrefix(p, q)
      /\ \A q \in Path : ~IsPrefix(p, q) => u[q] = t[q]
      /\ \A q \in Path : IsPrefix(p, q) /\ ~Mid(q) /\ q # pr /\ q # ps => u[q] = EmptyNode
  BY <1>0 DEF Forked
<1>5. IsPrefix(p, pr) /\ IsPrefix(p, ps) /\ ~Mid(pr) /\ ~Mid(ps)
  <2>1. Len(p) <= m /\ ~(m < m)
    BY ONLY <1>1, <1>2
  <2> QED BY <1>1, <1>3, <2>1, PrefixOrder DEF Between
\* The words a middle node parts into.
<1>6. ASSUME NEW q \in Path, Mid(q)
      PROVE  /\ Len(q) < StemSize /\ DOMAIN Cow(q) = {r[Len(q) + 1], s[Len(q) + 1]}
             /\ DOMAIN Cow(q) \subseteq Word /\ Cow(q) = [w \in DOMAIN Cow(q) |-> Cow(q)[w]]
             /\ \A w \in DOMAIN Cow(q) : Cow(q)[w] = Identity
  <2>1. Len(q) < StemSize /\ Len(q) + 1 \in 1 .. StemSize
    <3>1. Len(q) \in Nat
      BY PathIs
    <3> QED BY ONLY <1>1, <1>2, <1>6, <3>1 DEF Between
  <2>2. r[Len(q) + 1] \in Word /\ s[Len(q) + 1] \in Word
    BY <1>1, <2>1
  <2> QED BY <2>1, <2>2
<1>7. ASSUME NEW q \in Path, Mid(q)
      PROVE  /\ IsInternal(u[q]) /\ u[q].kind = "internal"
             /\ u[q].comm = NoChildren /\ u[q].cow = Cow(q)
  <2>1. NoChildren = [w \in Word |-> NoChildren[w]]
    BY DEF NoChildren
  <2>2. u[q] = Internal(NoChildren, Cow(q))
    BY <1>4, <1>7
  <2>3. /\ DOMAIN Cow(q) \subseteq Word /\ Cow(q) = [w \in DOMAIN Cow(q) |-> Cow(q)[w]]
    BY <1>6, <1>7
  <2> PICK cow : cow = Cow(q)
    OBVIOUS
  <2>4. /\ IsInternal(Internal(NoChildren, cow)) /\ Internal(NoChildren, cow).kind = "internal"
        /\ Internal(NoChildren, cow).comm = NoChildren /\ Internal(NoChildren, cow).cow = cow
    <3>1. cow = [w \in DOMAIN cow |-> cow[w]] /\ DOMAIN cow \subseteq Word
      BY ONLY <2>3, cow = Cow(q)
    <3> HIDE DEF Cow
    <3> QED BY <2>1, <3>1, InternalIs
  <2> HIDE DEF Cow
  <2> QED BY <2>2, <2>4
<1> HIDE DEF Mid, Cow
<1>7a. \A q \in Path : Mid(q) => u[q].kind = "internal" /\ u[q].comm = NoChildren
  BY <1>7
<1>7b. \A q \in Path : Mid(q) =>
           \A w \in DOMAIN u[q].cow : u[q].cow[w] = Identity
  <2>1. ASSUME NEW q \in Path, Mid(q), NEW w \in DOMAIN u[q].cow PROVE u[q].cow[w] = Identity
    <3>1. u[q].cow = Cow(q)
      BY <1>7, <2>1
    <3>2. \A x \in DOMAIN Cow(q) : Cow(q)[x] = Identity
      BY <1>6, <2>1
    <3> QED BY <2>1, <3>1, <3>2
  <2> QED BY <2>1
\* The four kinds of places.
<1>8. \A q \in Path : Mid(q) \/ q = pr \/ q = ps \/ ~IsPrefix(p, q) \/ u[q] = EmptyNode
  BY <1>4
<1>9. ASSUME NEW q \in Path, IsPrefix(p, q), t[q].kind = "internal" PROVE FALSE
  <2>1. q = p
    BY <1>1, <1>2, <1>9, OneOnWay
  <2> QED BY <1>2, <1>9, <2>1
<1>10. \A q \in Path : t[q].kind = "internal" => u[q] = t[q]
  BY <1>4, <1>9
\* The internal nodes above the new ones.
<1>11. ASSUME NEW q \in Path, NEW x \in Path, IsPrefix(q, x), q # x, Mid(x) \/ x \in {pr, ps}
       PROVE  /\ u[q].kind = "internal"
              /\ Mid(q) \/ (t[q].kind = "internal" /\ IsPrefix(q, p) /\ q # p)
  <2>1. IsPrefix(q, s) /\ Len(q) < m
    <3>1. Len(q) < Len(x) /\ Len(q) \in Nat /\ Len(x) \in Nat /\ Len(x) <= m
      <4>1. Len(q) < Len(x) /\ Len(q) \in Nat /\ Len(x) \in Nat
        BY <1>11, NextStep, PathIs
      <4>2. Len(x) <= m
        <5>1. CASE Mid(x)
          BY ONLY <1>2, <4>1, <5>1 DEF Mid, Between
        <5>2. CASE x \in {pr, ps}
          BY ONLY <1>2, <1>3, <5>2
        <5> QED BY <1>11, <5>1, <5>2
      <4> QED BY <4>1, <4>2
    <3>2. Len(q) < m
      BY ONLY <1>2, <3>1
    <3>3. CASE Mid(x) \/ x = ps
      <4>1. IsPrefix(x, s)
        BY <1>3, <3>3 DEF Mid, Between
      <4> QED BY <1>1, <1>11, <3>2, <4>1, PrefixOrder
    <3>4. CASE x = pr
      <4>1. IsPrefix(q, r)
        BY <1>1, <1>3, <1>11, <3>4, PrefixOrder
      <4>2. \A k \in 1 .. Len(q) : q[k] = r[k]
        BY <1>1, <4>1, PrefixIs
      <4>3. Len(q) <= Len(s) /\ \A k \in 1 .. Len(q) : k \in 1 .. m - 1
        BY ONLY <1>1, <1>2, <3>1, <3>2
      <4>4. \A k \in 1 .. Len(q) : q[k] = s[k]
        BY <1>0, <4>2, <4>3 DEF Forked
      <4> QED BY <1>1, <3>2, <4>3, <4>4, PrefixIs
    <3> QED BY <1>11, <3>3, <3>4
  <2>2. CASE Len(p) <= Len(q)
    <3>1. Mid(q)
      BY <2>1, <2>2 DEF Mid, Between
    <3> QED BY <1>7a, <3>1
  <2>3. CASE ~(Len(p) <= Len(q))
    <3>1. Len(q) <= Len(p) /\ Len(q) # Len(p)
      <4>1. Len(q) \in Nat
        BY PathIs
      <4> QED BY ONLY <1>1, <2>3, <4>1
    <3>2. IsPrefix(q, p) /\ q # p
      BY <1>1, <2>1, <3>1, PrefixOrder
    <3>3. t[q].kind = "internal"
      BY <1>2, <3>2, <1>1, ShapeIs
    <3> QED BY <1>10, <3>2, <3>3
  <2> QED BY <2>2, <2>3
<1>12. ASSUME NEW q \in Path, ~IsPrefix(p, q) PROVE u[q] = t[q]
  BY <1>4, <1>12
<1>13. Shape(u)
  <2>1. ASSUME NEW q \in Path PROVE IsNode(u[q])
    <3>1. CASE Mid(q)
      BY <1>7, <3>1 DEF IsNode
    <3>2. CASE q = pr \/ q = ps
      BY <1>2, <3>2 DEF IsNode
    <3>3. CASE ~IsPrefix(p, q)
      BY <1>12, <3>3 DEF Shape
    <3>4. CASE u[q] = EmptyNode
      BY <3>4, EmptyIs DEF IsNode
    <3> QED BY <1>8, <3>1, <3>2, <3>3, <3>4
  <2>2. u[<<>>].kind = "internal"
    BY <1>10, RootIsInternal
  <2>3. ASSUME NEW q \in Path, u[q].kind = "internal" PROVE Len(q) < StemSize
    <3>1. CASE Mid(q)
      BY <1>6, <3>1
    <3>2. CASE q = pr \/ q = ps
      BY <1>2, <2>3, <3>2
    <3>3. CASE ~IsPrefix(p, q)
      BY <1>12, <2>3, <3>3 DEF Shape
    <3>4. CASE u[q] = EmptyNode
      BY <2>3, <3>4, EmptyIs
    <3> QED BY <1>8, <3>1, <3>2, <3>3, <3>4
  <2>4. ASSUME NEW x \in Path, NEW q \in Path, IsStrictPrefix(q, x), u[x].kind # "empty"
        PROVE  u[q].kind = "internal"
    <3>0. IsPrefix(q, x) /\ q # x
      BY <2>4 DEF IsStrictPrefix
    <3>1. CASE Mid(x) \/ x = pr \/ x = ps
      BY <1>11, <3>0, <3>1
    <3>2. CASE ~IsPrefix(p, x)
      <4>1. t[x].kind # "empty"
        BY <1>12, <2>4, <3>2
      <4>2. t[q].kind = "internal"
        BY <3>0, <4>1, ShapeIs
      <4> QED BY <1>10, <4>2
    <3>3. CASE u[x] = EmptyNode
      BY <2>4, <3>3, EmptyIs
    <3> QED BY <1>8, <3>1, <3>2, <3>3
  <2>5. ASSUME NEW q \in Path, u[q].kind = "leaf" PROVE IsPrefix(q, u[q].stem)
    <3>1. CASE Mid(q)
      BY <1>7, <2>5, <3>1
    <3>2. CASE q = pr
      BY <1>2, <1>3, <3>2
    <3>3. CASE q = ps
      BY <1>2, <1>3, <3>3
    <3>4. CASE ~IsPrefix(p, q)
      BY <1>12, <2>5, <3>4 DEF Shape
    <3>5. CASE u[q] = EmptyNode
      BY <2>5, <3>5, EmptyIs
    <3> QED BY <1>8, <3>1, <3>2, <3>3, <3>4, <3>5
  <2> QED BY <1>2, <2>1, <2>2, <2>3, <2>4, <2>5 DEF Shape
\* The nodes above the new ones are marked on the way to them.
<1>14. ASSUME NEW q \in Path, NEW x \in Path, IsPrefix(q, x), q # x, Mid(x) \/ x \in {pr, ps}
       PROVE  x[Len(q) + 1] \in DOMAIN u[q].cow
  <2>1. Len(q) + 1 \in 1 .. Len(x)
    <3>1. Len(q) < Len(x) /\ Len(q) \in Nat /\ Len(x) \in Nat
      BY <1>14, NextStep, PathIs
    <3> QED BY ONLY <3>1
  <2>2. CASE Mid(q)
    <3>1. x[Len(q) + 1] \in {r[Len(q) + 1], s[Len(q) + 1]}
      <4>1. CASE Mid(x) \/ x = ps
        <5>1. IsPrefix(x, s)
          BY <1>3, <4>1 DEF Mid, Between
        <5> QED BY <1>1, <2>1, <5>1, PrefixIs
      <4>2. CASE x = pr
        BY <1>1, <1>3, <2>1, <4>2, PrefixIs
      <4> QED BY <1>14, <4>1, <4>2
    <3> QED BY <1>6, <1>7, <2>2, <3>1
  <2>3. CASE t[q].kind = "internal" /\ IsPrefix(q, p) /\ q # p
    <3>1. p[Len(q) + 1] \in DOMAIN u[q].cow
      BY <1>10, <2>3 DEF WayMarked
    <3>2. IsPrefix(p, x)
      BY <1>4, <1>5, <1>14
    <3>3. Len(q) + 1 \in 1 .. Len(p)
      <4>1. Len(q) < Len(p) /\ Len(q) \in Nat
        BY <1>1, <2>3, NextStep, PathIs
      <4> QED BY ONLY <1>1, <4>1
    <3>4. p[Len(q) + 1] = x[Len(q) + 1]
      BY <1>1, <3>2, <3>3, PrefixIs
    <3> QED BY <3>1, <3>4
  <2> QED BY <1>11, <1>14, <2>2, <2>3
<1>15. ASSUME Marks(t) PROVE Marks(u)
  <2>1. ASSUME NEW x \in Path, NEW q \in Path, u[x].kind = "internal", DOMAIN u[x].cow # {},
               IsStrictPrefix(q, x)
        PROVE  x[Len(q) + 1] \in DOMAIN u[q].cow
    <3>0. IsPrefix(q, x) /\ q # x
      BY <2>1 DEF IsStrictPrefix
    <3>1. CASE Mid(x) \/ x = pr \/ x = ps
      BY <1>14, <3>0, <3>1
    <3>2. CASE ~IsPrefix(p, x)
      <4>1. u[x] = t[x]
        BY <1>12, <3>2
      <4>2. t[q].kind = "internal"
        BY <2>1, <3>0, <4>1, ShapeIs
      <4>3. u[q] = t[q]
        BY <1>10, <4>2
      <4> QED BY <1>15, <2>1, <4>1, <4>3 DEF Marks
    <3>3. CASE u[x] = EmptyNode
      BY <2>1, <3>3, EmptyIs
    <3> QED BY <1>8, <3>1, <3>2, <3>3
  <2> QED BY <2>1 DEF Marks
<1>16. Noted(t, p)
  BY <1>1, MarkedIsNoted
<1>17. ASSUME Agrees(t) PROVE Agrees(u)
  <2>1. ASSUME NEW x \in Path, u[x].kind = "internal", NEW w \in Word
        PROVE  u[x].comm[w] = IF w \in DOMAIN u[x].cow THEN u[x].cow[w]
                              ELSE Commitment(u[Append(x, w)])
    <3>0. Len(x) < StemSize /\ Append(x, w) \in Path
      BY <1>13, <2>1, ShapeIs, ChildIs
    <3> PICK y : y = Append(x, w)
      OBVIOUS
    <3>1. CASE Mid(x)
      <4>1. u[x].comm[w] = Identity
        BY <1>7a, <3>1 DEF NoChildren
      <4>2. CASE w \in DOMAIN u[x].cow
        BY <1>7b, <3>1, <4>1, <4>2
      <4>3. CASE w \notin DOMAIN u[x].cow
        <5>1. w # r[Len(x) + 1] /\ w # s[Len(x) + 1]
          BY <1>6, <1>7, <3>1, <4>3
        <5>2. ~IsPrefix(y, r) /\ ~IsPrefix(y, s)
          BY <1>1, <3>0, <5>1, ChildIs
        <5>3. ~Mid(y) /\ y # pr /\ y # ps
          BY <1>3, <5>2 DEF Mid, Between
        <5>4. IsPrefix(p, y)
          <6>1. IsPrefix(x, y)
            BY <3>0, ChildIs
          <6>2. IsPrefix(p, x)
            BY <1>4, <3>1
          <6> QED BY <1>1, <3>0, <6>1, <6>2, PrefixOrder
        <5>5. u[y] = EmptyNode
          BY <1>4, <3>0, <5>3, <5>4
        <5> QED BY <4>1, <4>3, <5>5, CommitmentIs
      <4> QED BY <4>2, <4>3
    <3>2. CASE x = pr \/ x = ps
      BY <1>2, <2>1, <3>2
    <3>3. CASE ~IsPrefix(p, x)
      <4>1. u[x] = t[x]
        BY <1>12, <3>3
      <4>2. t[x].comm[w] = IF w \in DOMAIN t[x].cow THEN t[x].cow[w]
                           ELSE Commitment(t[y])
        BY <1>17, <2>1, <4>1 DEF Agrees
      <4>3. CASE y = p
        <5>1. w \in DOMAIN t[x].cow
          BY <1>16, <3>0, <4>3 DEF Noted
        <5> QED BY <4>1, <4>2, <5>1
      <4>4. CASE y # p
        <5>1. ~IsPrefix(p, y)
          BY <1>1, <3>0, <3>3, <4>4, ChildIs
        <5>2. u[y] = t[y]
          BY <1>12, <3>0, <5>1
        <5> QED BY <4>1, <4>2, <5>2
      <4> QED BY <4>3, <4>4
    <3>4. CASE u[x] = EmptyNode
      BY <2>1, <3>4, EmptyIs
    <3> QED BY <1>8, <3>1, <3>2, <3>3, <3>4
  <2> QED BY <2>1 DEF Agrees
<1>18. ASSUME NEW q \in Path, u[q].kind = "leaf"
       PROVE  \/ q = pr \/ q = ps
              \/ q # p /\ ~IsPrefix(p, q) /\ u[q] = t[q]
  <2>1. ~Mid(q) /\ u[q] # EmptyNode
    BY <1>7, <1>18, EmptyIs
  <2>2. IsPrefix(p, p)
    BY <1>1, PrefixOrder
  <2> QED BY <1>8, <1>12, <2>1, <2>2
<1>19. ASSUME NEW q \in Path, u[q].kind = "leaf"
       PROVE  \/ q # p /\ u[q] = t[q]
              \/ Noted(u, q) /\ u[q] \in {t[p], new}
  <2>1. CASE q \in {pr, ps}
    <3>1. WayMarked(u, q)
      BY <1>14, <2>1 DEF WayMarked
    <3>2. Noted(u, q)
      BY <3>1, MarkedIsNoted
    <3> QED BY <1>2, <2>1, <3>2
  <2>2. CASE q \notin {pr, ps}
    BY <1>18, <1>19, <2>2
  <2> QED BY <2>1, <2>2
<1>20. ASSUME NEW c, Holds(t, c)
       PROVE  LET d == [c EXCEPT ![s] = new.values]
              IN  /\ d = [x \in Stem |-> d[x]] /\ d[s] = new.values
                  /\ \A x \in Stem : x # s => d[x] = c[x]
                  /\ \A x \in Stem : DOMAIN c[x] # {} => DOMAIN d[x] # {}
  <2>1. DOMAIN new.values # {}
    BY DEF IsLeaf
  <2>2. c = [x \in Stem |-> c[x]]
    BY <1>20 DEF Holds
  <2> QED BY <2>1, <2>2, HeldIs
<1>20a. ASSUME NEW c, Holds(t, c) PROVE c[r] = leaf.values /\ DOMAIN c[r] # {}
  <2>1. DOMAIN leaf.values # {}
    BY <1>2 DEF IsLeaf
  <2>2. c[r] = leaf.values
    BY <1>1, <1>2, <1>20a, HoldsLeaf
  <2> QED BY <2>1, <2>2
<1>20b. DOMAIN new.values # {}
  BY DEF IsLeaf
<1>21. ASSUME NEW c, Holds(t, c) PROVE Holds(u, [c EXCEPT ![s] = new.values])
  <2> PICK d : d = [c EXCEPT ![s] = new.values]
    OBVIOUS
  <2>1. /\ d = [x \in Stem |-> d[x]] /\ d[s] = new.values
        /\ \A x \in Stem : x # s => d[x] = c[x]
        /\ \A x \in Stem : DOMAIN c[x] # {} => DOMAIN d[x] # {}
    <3>1. c = [x \in Stem |-> c[x]]
      BY <1>21 DEF Holds
    <3>2. /\ d = [x \in Stem |-> d[x]] /\ d[s] = new.values
          /\ \A x \in Stem : x # s => d[x] = c[x]
      BY ONLY <3>1, s \in Stem, d = [c EXCEPT ![s] = new.values]
    <3> QED BY ONLY <3>2, <1>20b
  <2>1a. DOMAIN d[s] # {} /\ DOMAIN d[r] # {}
    BY <1>1, <1>20a, <1>20b, <1>21, <2>1
  <2>2. ASSUME NEW x \in Stem PROVE IsValues(d[x])
    <3>1. CASE x = s
      BY <2>1, <3>1 DEF IsLeaf
    <3>2. CASE x # s
      BY <1>21, <2>1, <3>2 DEF Holds
    <3> QED BY <3>1, <3>2
  <2>3. ASSUME NEW q \in Path, u[q].kind = "leaf" PROVE u[q].values = d[u[q].stem]
    <3>1. CASE q = ps
      BY <1>2, <2>1, <3>1
    <3>2. CASE q = pr
      <4>1. leaf.values = c[r]
        BY <1>1, <1>2, <1>21, HoldsLeaf
      <4> QED BY <1>1, <1>2, <2>1, <3>2, <4>1
    <3>3. CASE q # p /\ ~IsPrefix(p, q) /\ u[q] = t[q]
      <4>1. t[q].kind = "leaf" /\ t[q].stem \in Stem
        BY <2>3, <3>3, ShapeIs
      <4>2. t[q].stem # s
        BY <3>3, <4>1, LeafAtTerminal
      <4>3. t[q].values = c[t[q].stem]
        BY <1>21, <4>1 DEF Holds
      <4> QED BY <2>1, <3>3, <4>1, <4>2, <4>3
    <3> QED BY <1>18, <2>3, <3>1, <3>2, <3>3
  <2>4. ASSUME NEW x \in Stem, DOMAIN d[x] # {}
        PROVE  \E q \in Path : u[q].kind = "leaf" /\ u[q].stem = x
    <3>1. CASE x = s
      BY <1>2, <1>3, <3>1
    <3>2. CASE x = r
      BY <1>2, <1>3, <3>2
    <3>3. CASE x # s /\ x # r
      <4>1. DOMAIN c[x] # {}
        BY <2>1, <2>4, <3>3
      <4>2. PICK q \in Path : t[q].kind = "leaf" /\ t[q].stem = x
        BY <1>21, <4>1 DEF Holds
      <4>3. ~IsPrefix(p, q)
        <5>1. t[q].kind # "empty" /\ q # p
          BY <1>2, <3>3, <4>2
        <5> QED BY <1>1, <1>2, <5>1, OneOnWay
      <4> QED BY <1>12, <4>2, <4>3
    <3> QED BY <3>1, <3>2, <3>3
  <2>5. ASSUME NEW q \in Path, u[q].kind = "internal", q # <<>>
        PROVE  \E x \in Stem : DOMAIN d[x] # {} /\ IsPrefix(q, x)
    <3>1. CASE Mid(q)
      BY <2>1a, <3>1 DEF Mid, Between
    <3>2. CASE ~Mid(q)
      <4>1. u[q] = t[q]
        BY <1>2, <1>8, <1>12, <2>5, <3>2, EmptyIs
      <4>2. PICK x \in Stem : DOMAIN c[x] # {} /\ IsPrefix(q, x)
        BY <1>21, <2>5, <4>1 DEF Holds
      <4> QED BY <2>1, <4>2
    <3> QED BY <3>1, <3>2
  <2>6. Holds(u, d)
    BY <2>1, <2>2, <2>3, <2>4, <2>5 DEF Holds
  <2> QED BY <2>6
<1>22. ASSUME NEW c, Canonical(t, c), Holds(t, c), new.c = Halves(new.values)
       PROVE  Canonical(u, [c EXCEPT ![s] = new.values])
  <2> PICK d : d = [c EXCEPT ![s] = new.values]
    OBVIOUS
  <2>1. /\ d[s] = new.values
        /\ \A x \in Stem : DOMAIN c[x] # {} => DOMAIN d[x] # {}
    <3>1. c = [x \in Stem |-> c[x]]
      BY <1>22 DEF Holds
    <3>2. d[s] = new.values /\ \A x \in Stem : x # s => d[x] = c[x]
      BY ONLY <3>1, s \in Stem, d = [c EXCEPT ![s] = new.values]
    <3> QED BY ONLY <3>2, <1>20b
  <2>1a. DOMAIN d[s] # {} /\ DOMAIN d[r] # {}
    BY <1>1, <1>20a, <1>20b, <1>22, <2>1
  <2>2. ASSUME NEW q \in Path, u[q].kind = "internal", q # <<>> PROVE Parts(d, q)
    <3>1. CASE Mid(q)
      BY <1>1, <1>2, <1>4, <2>1a, <3>1 DEF Parts, Mid, Between
    <3>2. CASE ~Mid(q)
      <4>1. u[q] = t[q]
        BY <1>2, <1>8, <1>12, <2>2, <3>2, EmptyIs
      <4>2. Parts(c, q)
        BY <1>22, <2>2, <4>1 DEF Canonical
      <4> QED BY <2>1, <4>2 DEF Parts
    <3> QED BY <3>1, <3>2
  <2>3. ASSUME NEW q \in Path, u[q].kind = "leaf" PROVE u[q].c = Halves(u[q].values)
    <3>1. CASE q = ps
      BY <1>2, <1>22, <3>1
    <3>2. CASE q = pr
      BY <1>1, <1>2, <1>22, <3>2 DEF Canonical
    <3>3. CASE u[q] = t[q]
      BY <1>22, <2>3, <3>3 DEF Canonical
    <3> QED BY <1>18, <2>3, <3>1, <3>2, <3>3
  <2>4. Canonical(u, d)
    BY <2>2, <2>3 DEF Canonical
  <2> QED BY <2>4
<1> QED BY <1>10, <1>13, <1>15, <1>17, <1>19, <1>21, <1>22

-----------------------------------------------------------------------------
(* Insertion.                                                                *)

\* What later steps of a migration need of the earlier ones: internal nodes stay
\* and remember no less,
Grows(t, u) ==
    \A q \in Path : t[q].kind = "internal" =>
        u[q].kind = "internal" /\ DOMAIN t[q].cow \subseteq DOMAIN u[q].cow

\* a leaf is as it was unless its parent remembers that it had another commitment,
LeavesNoted(t, u) ==
    \A q \in Path : u[q].kind = "leaf" => u[q] = t[q] \/ Noted(u, q)

\* and no half goes.
NilStays(t, u) ==
    \A q \in Path : u[q].kind = "leaf" => \A h \in 1 .. 2 : u[q].c[h] = Nil =>
        \E x \in Path : t[x].kind = "leaf" /\ t[x].stem = u[q].stem /\ t[x].c[h] = Nil

\* Marking a way does so.
LEMMA CowGrows ==
    ASSUME NEW t, Shape(t), NEW s \in Stem, NEW n \in Nat, n <= Len(Terminal(t, s))
    PROVE  LET u == CowChildren(t, s, n)
           IN  /\ Grows(t, u) /\ NilStays(t, u)
               /\ \A q \in Path : u[q].kind = "leaf" => u[q] = t[q]
               /\ \A q \in Path : u[q].kind = t[q].kind
               /\ \A q \in Path : t[q].kind # "internal" => u[q] = t[q]
<1> PICK u : u = CowChildren(t, s, n)
  OBVIOUS
<1>1. ASSUME NEW q \in Path
      PROVE  /\ u[q].kind = t[q].kind /\ (t[q].kind # "internal" => u[q] = t[q])
             /\ t[q].kind = "internal" => DOMAIN t[q].cow \subseteq DOMAIN u[q].cow
  BY CowIs
<1>2. Grows(t, u)
  BY <1>1 DEF Grows
<1>3. \A q \in Path : u[q].kind = "leaf" => u[q] = t[q]
  BY <1>1
<1>4. NilStays(t, u)
  BY <1>3 DEF NilStays
<1> QED BY <1>1, <1>2, <1>3, <1>4

\* A note stays where internal nodes remember no less.
LEMMA NotesStay ==
    ASSUME NEW t, Shape(t), NEW u, Grows(t, u), NEW p \in Path, t[p].kind = "leaf", Noted(t, p)
    PROVE  Noted(u, p)
<1>1. ASSUME NEW q \in Path, NEW w \in Word, Len(q) < StemSize, Append(q, w) = p
      PROVE  w \in DOMAIN u[q].cow
  <2>1. q # p /\ IsPrefix(q, p)
    <3>1. q # Append(q, w) /\ IsPrefix(q, Append(q, w))
      BY <1>1, ChildIs
    <3> QED BY <1>1, <3>1
  <2>2. t[q].kind = "internal"
    BY <2>1, ShapeIs
  <2>3. w \in DOMAIN t[q].cow
    BY <1>1 DEF Noted
  <2> QED BY <2>2, <2>3 DEF Grows
<1> QED BY <1>1 DEF Noted

\* Where the way of a stem does not end in a leaf of it, nothing is held for it.
LEMMA NothingHeld ==
    ASSUME NEW t, Shape(t), NEW c, Holds(t, c), NEW s \in Stem,
           LET n == t[Terminal(t, s)] IN ~(n.kind = "leaf" /\ n.stem = s)
    PROVE  DOMAIN c[s] = {}
<1>1. SUFFICES ASSUME DOMAIN c[s] # {} PROVE FALSE
  OBVIOUS
<1>2. PICK p \in Path : t[p].kind = "leaf" /\ t[p].stem = s
  BY <1>1 DEF Holds
<1>3. Terminal(t, s) = p
  BY <1>2, LeafAtTerminal
<1> QED BY <1>2, <1>3

\* An insertion where there is no leaf of the stem.
LEMMA InsertNew ==
    ASSUME NEW t, Shape(t), Marks(t), NEW s \in Stem, NEW v, IsValues(v), DOMAIN v # {},
           LET n == t[Terminal(t, s)] IN ~(n.kind = "leaf" /\ n.stem = s)
    PROVE  LET u == InsertValuesAtStem(t, s, v)
           IN  /\ Shape(u) /\ Marks(u) /\ Grows(t, u) /\ LeavesNoted(t, u) /\ NilStays(t, u)
               /\ Agrees(t) => Agrees(u)
               /\ \A c : LET d == [c EXCEPT ![s] = v]
                         IN  /\ Holds(t, c) => Holds(u, d)
                             /\ Holds(t, c) /\ Canonical(t, c) => Canonical(u, d)
<1> PICK p : p = Terminal(t, s)
  OBVIOUS
<1> PICK u : u = InsertValuesAtStem(t, s, v)
  OBVIOUS
<1> PICK m : m = CowChildren(t, s, Len(p))
  OBVIOUS
<1> PICK new : new = NewLeaf(s, v)
  OBVIOUS
<1>1. p \in Path /\ t[p].kind # "internal" /\ Len(p) \in Nat /\ Len(p) <= Len(p)
      /\ IsPrefix(p, p)
  BY TerminalIs, PathIs, PrefixOrder
<1>2. IsLeaf(new) /\ new.kind = "leaf" /\ new.stem = s /\ new.values = v /\ new.c = Halves(v)
  BY NewLeafIs
<1>3. /\ Shape(m) /\ Marks(m) /\ (Agrees(t) => Agrees(m)) /\ Terminal(m, s) = p
      /\ \A c : Holds(t, c) => Holds(m, c)
      /\ \A c : Canonical(t, c) => Canonical(m, c)
  BY <1>1, CowKeeps
<1>4. /\ Grows(t, m) /\ NilStays(t, m)
      /\ \A q \in Path : m[q].kind = "leaf" => m[q] = t[q]
      /\ \A q \in Path : m[q].kind = t[q].kind
      /\ \A q \in Path : t[q].kind # "internal" => m[q] = t[q]
  BY <1>1, CowGrows
<1>5. WayMarked(m, p) /\ Noted(m, p) /\ m[p] = t[p]
  <2>1. WayMarked(m, p)
    BY WayNotes
  <2> QED BY <1>1, <1>4, <2>1, MarkedIsNoted
<1>6. \A h \in 1 .. 2 : new.c[h] # Nil
  BY <1>2, HalvesIs, HalfOfIs
<1>7. \A c : Holds(t, c) => c = [r \in Stem |-> c[r]]
  BY DEF Holds
<1>8. CASE t[p].kind = "empty"
  <2>1. u = [m EXCEPT ![p] = new]
    BY <1>8 DEF InsertValuesAtStem
  <2>4. u[p] = new /\ u = [q \in Path |-> u[q]] /\ \A q \in Path : q # p => u[q] = m[q]
    <3>1. m = [q \in Path |-> m[q]]
      BY <1>3 DEF Shape
    <3> QED BY ONLY <1>1, <2>1, <3>1
  <2>2. /\ Shape(u) /\ (Marks(m) => Marks(u))
        /\ Agrees(m) /\ Noted(m, p) => Agrees(u)
    BY <1>2, <1>3, <1>5, <1>8, <2>4, SetLeaf
  <2>3. ASSUME NEW c, Holds(t, c)
        PROVE  LET d == [c EXCEPT ![s] = v]
               IN  Holds(u, d) /\ (Canonical(t, c) => Canonical(u, d))
    <3>1. Holds(m, c) /\ c = [r \in Stem |-> c[r]] /\ (Canonical(t, c) => Canonical(m, c))
      BY <1>3, <1>7, <2>3
    <3>2. LET d == [c EXCEPT ![s] = new.values]
          IN  Holds(u, d) /\ (Canonical(m, c) => Canonical(u, d))
      BY <1>2, <1>3, <1>5, <1>8, <2>4, <3>1, SetLeaf
    <3> QED BY <1>2, <3>1, <3>2
  <2>5. \A q \in Path : t[q].kind = "internal" => u[q] = m[q] /\ m[q].kind = "internal"
    BY <1>4, <1>8, <2>4
  <2>6. Grows(t, u) /\ Grows(m, u)
    BY <1>4, <2>5 DEF Grows
  <2>7. Noted(u, p)
    <3>1. ASSUME NEW q \in Path, NEW w \in Word, Len(q) < StemSize, Append(q, w) = p
          PROVE  w \in DOMAIN u[q].cow
      <4>1. q # p
        <5>1. q # Append(q, w)
          BY <3>1, ChildIs
        <5> QED BY <3>1, <5>1
      <4> QED BY <1>5, <2>4, <3>1, <4>1 DEF Noted
    <3> QED BY <3>1 DEF Noted
  <2>8. LeavesNoted(t, u)
    BY <1>4, <2>4, <2>7 DEF LeavesNoted
  <2>9. NilStays(t, u)
    BY <1>4, <1>6, <2>4 DEF NilStays
  <2> QED BY <1>3, <1>5, <2>2, <2>3, <2>6, <2>8, <2>9
<1>9. CASE t[p].kind = "leaf" /\ t[p].stem # s
  <2>1. u = Fork(m, p, m[p], new)
    <3>1. t[p].kind # "empty" /\ ~(t[p].kind = "leaf" /\ t[p].stem = s)
          /\ t[p].kind \in {"leaf", "stub"}
      BY <1>9
    <3> QED BY <1>5, <1>9, <3>1 DEF InsertValuesAtStem
  <2>2. /\ Shape(u) /\ (Marks(m) => Marks(u)) /\ (Agrees(m) => Agrees(u))
        /\ \A q \in Path : m[q].kind = "internal" => u[q] = m[q]
        /\ \A q \in Path : u[q].kind = "leaf" =>
               \/ q # p /\ u[q] = m[q]
               \/ Noted(u, q) /\ u[q] \in {m[p], new}
    BY <1>2, <1>3, <1>5, <1>9, <2>1, ForkKeeps
  <2>3. ASSUME NEW c, Holds(t, c)
        PROVE  LET d == [c EXCEPT ![s] = v]
               IN  Holds(u, d) /\ (Canonical(t, c) => Canonical(u, d))
    <3>1. Holds(m, c) /\ (Canonical(t, c) => Canonical(m, c))
      BY <1>3, <2>3
    <3>2. LET d == [c EXCEPT ![s] = new.values]
          IN  Holds(u, d) /\ (Canonical(m, c) => Canonical(u, d))
      BY <1>2, <1>3, <1>5, <1>9, <2>1, <3>1, ForkKeeps
    <3> QED BY <1>2, <3>1, <3>2
  <2>4. Grows(t, u)
    BY <1>4, <2>2 DEF Grows
  <2>5. LeavesNoted(t, u)
    BY <1>4, <2>2 DEF LeavesNoted
  <2>6. NilStays(t, u)
    <3>1. ASSUME NEW q \in Path, u[q].kind = "leaf", NEW h \in 1 .. 2, u[q].c[h] = Nil
          PROVE  \E x \in Path : t[x].kind = "leaf" /\ t[x].stem = u[q].stem /\ t[x].c[h] = Nil
      <4>1. u[q] # new
        BY <1>6, <3>1
      <4>2. CASE u[q] = m[q]
        BY <1>4, <3>1, <4>2
      <4>3. CASE u[q] = m[p]
        BY <1>1, <1>5, <3>1, <4>3
      <4> QED BY <2>2, <3>1, <4>1, <4>2, <4>3
    <3> QED BY <3>1 DEF NilStays
  <2> QED BY <1>3, <2>2, <2>3, <2>4, <2>5, <2>6
<1> QED BY <1>1, <1>8, <1>9, ShapeIs

\* A change of the values of a leaf, after marking the way or a part of it.
LEMMA UpdateOld ==
    ASSUME NEW t, Shape(t), Marks(t), NEW s \in Stem, NEW p, p = Terminal(t, s),
           t[p].kind = "leaf", t[p].stem = s, NEW n \in Nat, n <= Len(p),
           NEW v, IsValues(v), \A x \in DOMAIN v : t[p].c[Half(x)] # Nil,
           NEW m, m = CowChildren(t, s, n),
           NEW u, u = [q \in Path |-> u[q]], u[p] = UpdateMultipleLeaves(m[p], v),
           \A q \in Path : q # p => u[q] = m[q]
    PROVE  /\ Shape(u) /\ Marks(u) /\ Grows(t, u) /\ NilStays(t, u)
           /\ Noted(m, p) \/ DOMAIN v = {} => (Agrees(t) => Agrees(u)) /\ LeavesNoted(t, u)
           /\ \A c : LET d == [c EXCEPT ![s] = Over(v, c[s])]
                     IN  /\ Holds(t, c) => Holds(u, d)
                         /\ Holds(t, c) /\ Canonical(t, c) => Canonical(u, d)
<1> PICK leaf, new : leaf = t[p] /\ new = UpdateMultipleLeaves(t[p], v)
  OBVIOUS
<1>1. p \in Path /\ t[p].kind # "internal"
  BY TerminalIs
<1>2. /\ Shape(m) /\ Marks(m) /\ (Agrees(t) => Agrees(m)) /\ Terminal(m, s) = p
      /\ \A c : Holds(t, c) => Holds(m, c)
      /\ \A c : Canonical(t, c) => Canonical(m, c)
  BY CowKeeps
<1>3. /\ Grows(t, m) /\ NilStays(t, m)
      /\ \A q \in Path : m[q].kind = "leaf" => m[q] = t[q]
      /\ \A q \in Path : m[q].kind = t[q].kind
      /\ \A q \in Path : t[q].kind # "internal" => m[q] = t[q]
  BY CowGrows
<1>4. m[p] = leaf /\ IsLeaf(leaf) /\ m[p].stem = s
  BY <1>1, <1>3, ShapeIs
<1>5. /\ IsLeaf(new) /\ new.kind = "leaf" /\ new.stem = s /\ new.values = Over(v, leaf.values)
      /\ leaf.c = Halves(leaf.values) => new.c = Halves(new.values)
      /\ \A h \in 1 .. 2 : new.c[h] = Nil => leaf.c[h] = Nil
      /\ DOMAIN v = {} => new = leaf
  BY <1>4, UpdateIs
<1>6. u[p] = new /\ u = [q \in Path |-> u[q]] /\ \A q \in Path : q # p => u[q] = m[q]
  BY <1>4
<1>7. /\ Shape(u) /\ (Marks(m) => Marks(u))
      /\ Agrees(m) /\ (Noted(m, p) \/ new = m[p]) => Agrees(u)
  BY <1>2, <1>4, <1>5, <1>6, SetLeaf
<1>8. ASSUME NEW c, Holds(t, c)
      PROVE  LET d == [c EXCEPT ![s] = Over(v, c[s])]
             IN  Holds(u, d) /\ (Canonical(t, c) => Canonical(u, d))
  <2>1. Holds(m, c) /\ (Canonical(t, c) => Canonical(m, c))
    BY <1>2, <1>8
  <2>2. c = [r \in Stem |-> c[r]]
    BY <1>8 DEF Holds
  <2>3. LET d == [c EXCEPT ![s] = new.values]
        IN  /\ Holds(u, d)
            /\ Canonical(m, c) /\ new.c = Halves(new.values) => Canonical(u, d)
    BY <1>2, <1>4, <1>5, <1>6, <2>1, <2>2, SetLeaf
  <2>4. new.values = Over(v, c[s])
    BY <1>1, <1>5, <1>8, HoldsLeaf
  <2>5. Canonical(t, c) => new.c = Halves(new.values)
    BY <1>1, <1>5 DEF Canonical
  <2> QED BY <2>1, <2>3, <2>4, <2>5
<1>9. Grows(t, u)
  BY <1>3, <1>1, <1>6 DEF Grows
<1>10. NilStays(t, u)
  <2>1. ASSUME NEW q \in Path, u[q].kind = "leaf", NEW h \in 1 .. 2, u[q].c[h] = Nil
        PROVE  \E x \in Path : t[x].kind = "leaf" /\ t[x].stem = u[q].stem /\ t[x].c[h] = Nil
    <3>1. CASE q = p
      BY <1>1, <1>5, <1>6, <2>1, <3>1
    <3>2. CASE q # p
      BY <1>3, <1>6, <2>1, <3>2
    <3> QED BY <3>1, <3>2
  <2> QED BY <2>1 DEF NilStays
<1>11. ASSUME Noted(m, p) \/ DOMAIN v = {}
       PROVE  (Agrees(t) => Agrees(u)) /\ LeavesNoted(t, u)
  <2>1. Agrees(t) => Agrees(u)
    BY <1>2, <1>4, <1>5, <1>7, <1>11
  <2>2. u[p] = t[p] \/ Noted(u, p)
    <3>1. CASE DOMAIN v = {}
      BY <1>5, <1>6, <3>1
    <3>2. CASE Noted(m, p)
      <4>1. Grows(m, u)
        BY <1>1, <1>3, <1>6 DEF Grows
      <4> QED BY <1>1, <1>2, <1>4, <3>2, <4>1, NotesStay
    <3> QED BY <1>11, <3>1, <3>2
  <2>3. LeavesNoted(t, u)
    <3>1. ASSUME NEW q \in Path, u[q].kind = "leaf" PROVE u[q] = t[q] \/ Noted(u, q)
      BY <1>3, <1>6, <2>2, <3>1
    <3> QED BY <3>1 DEF LeavesNoted
  <2> QED BY <2>1, <2>3
<1> QED BY <1>2, <1>7, <1>8, <1>9, <1>10, <1>11

\* An insertion, where no half that the values are in is gone.
LEMMA InsertKeeps ==
    ASSUME NEW t, Shape(t), Marks(t), NEW s \in Stem, NEW v, IsValues(v), DOMAIN v # {},
           ~Panics(t, s, v)
    PROVE  LET u == InsertValuesAtStem(t, s, v)
           IN  /\ Shape(u) /\ Marks(u)
               /\ Agrees(t) => Agrees(u)
               /\ \A c : LET d == [c EXCEPT ![s] = Over(v, c[s])]
                         IN  /\ Holds(t, c) => Holds(u, d)
                             /\ Holds(t, c) /\ Canonical(t, c) => Canonical(u, d)
<1> PICK p : p = Terminal(t, s)
  OBVIOUS
<1> PICK u : u = InsertValuesAtStem(t, s, v)
  OBVIOUS
<1>1. CASE t[p].kind = "leaf" /\ t[p].stem = s
  <2> PICK m : m = CowChildren(t, s, Len(p))
    OBVIOUS
  <2>0. u = [m EXCEPT ![p] = UpdateMultipleLeaves(m[p], v)]
    <3>1. t[p].kind # "empty" /\ t[p].kind \in {"leaf", "stub"}
      BY <1>1
    <3> QED BY <1>1, <3>1 DEF InsertValuesAtStem
  <2>1. /\ u = [q \in Path |-> u[q]] /\ u[p] = UpdateMultipleLeaves(m[p], v)
        /\ \A q \in Path : q # p => u[q] = m[q]
    <3>1. m = [q \in Path |-> m[q]]
      BY DEF CowChildren
    <3>2. p \in Path
      BY TerminalIs
    <3> QED BY ONLY <2>0, <3>1, <3>2
  <2>2. p \in Path /\ Len(p) \in Nat /\ Len(p) <= Len(p)
    BY TerminalIs, PathIs
  <2>3. \A x \in DOMAIN v : t[p].c[Half(x)] # Nil
    BY <1>1, <2>2 DEF Panics
  <2>4. Noted(m, p)
    <3>1. WayMarked(m, p)
      BY WayNotes
    <3> QED BY <2>2, <3>1, MarkedIsNoted
  <2> QED BY <1>1, <2>1, <2>2, <2>3, <2>4, UpdateOld
<1>2. CASE ~(t[p].kind = "leaf" /\ t[p].stem = s)
  <2>1. /\ Shape(u) /\ Marks(u)
        /\ Agrees(t) => Agrees(u)
        /\ \A c : LET d == [c EXCEPT ![s] = v]
                  IN  /\ Holds(t, c) => Holds(u, d)
                      /\ Holds(t, c) /\ Canonical(t, c) => Canonical(u, d)
    BY <1>2, InsertNew
  <2>2. ASSUME NEW c, Holds(t, c) PROVE Over(v, c[s]) = v
    <3>1. DOMAIN c[s] = {}
      BY <1>2, <2>2, NothingHeld
    <3>2. IsValues(c[s])
      BY <2>2 DEF Holds
    <3> QED BY <3>1, <3>2, OverValues
  <2>3. ASSUME NEW c, Holds(t, c)
        PROVE  LET d == [c EXCEPT ![s] = Over(v, c[s])]
               IN  Holds(u, d) /\ (Canonical(t, c) => Canonical(u, d))
    BY <2>1, <2>2, <2>3
  <2> QED BY <2>1, <2>3
<1> QED BY <1>1, <1>2

\* The migration of a leaf: what the tree holds stays.  It goes unnoticed above only
\* where the leaf is not noted and gets a new value.
LEMMA MigrateLeafKeeps ==
    ASSUME NEW t, Shape(t), Marks(t), NEW write, IsWrite(write), ~Panics(t, write[1], write[2])
    PROVE  LET u == MigrateLeaf(t, write)
               s == write[1]
               p == Terminal(t, s)
           IN  /\ Shape(u) /\ Marks(u) /\ Grows(t, u) /\ NilStays(t, u)
               /\ (t[p].kind = "leaf" /\ t[p].stem = s =>
                      Noted(t, p) \/ DOMAIN write[2] \subseteq DOMAIN t[p].values)
                   => (Agrees(t) => Agrees(u)) /\ LeavesNoted(t, u)
               /\ \A c : LET d == [c EXCEPT ![s] = Over(c[s], write[2])]
                         IN  /\ Holds(t, c) => Holds(u, d)
                             /\ Holds(t, c) /\ Canonical(t, c) => Canonical(u, d)
<1> PICK s, v, u : s = write[1] /\ v = write[2] /\ u = MigrateLeaf(t, write)
  OBVIOUS
<1> PICK p : p = Terminal(t, s)
  OBVIOUS
<1>1. s \in Stem /\ IsValues(v) /\ DOMAIN v # {} /\ ~Panics(t, s, v)
  BY DEF IsWrite, IsValues
<1>2. p \in Path /\ Len(p) \in 1 .. StemSize
  BY <1>1, TerminalIs
<1>3. CASE t[p].kind = "leaf" /\ t[p].stem = s
  <2> PICK absent : absent = Restrict(v, DOMAIN v \ DOMAIN t[p].values)
    OBVIOUS
  <2> PICK n : n = Len(p) - 1
    OBVIOUS
  <2> PICK m : m = CowChildren(t, s, n)
    OBVIOUS
  <2>0. u = [m EXCEPT ![p] = UpdateMultipleLeaves(m[p], absent)]
    BY <1>3 DEF MigrateLeaf
  <2>1. /\ u = [q \in Path |-> u[q]] /\ u[p] = UpdateMultipleLeaves(m[p], absent)
        /\ \A q \in Path : q # p => u[q] = m[q]
    <3>1. m = [q \in Path |-> m[q]]
      BY DEF CowChildren
    <3> QED BY ONLY <1>2, <2>0, <3>1
  <2>2. n \in Nat /\ n <= Len(p)
    BY ONLY <1>2, n = Len(p) - 1
  <2>3. /\ IsValues(absent) /\ DOMAIN absent = DOMAIN v \ DOMAIN t[p].values
        /\ \A x \in DOMAIN absent : absent[x] = v[x]
    <3>1. DOMAIN v \ DOMAIN t[p].values \in SUBSET DOMAIN v
      OBVIOUS
    <3> QED BY <1>1, <3>1, PartValues
  <2>4. \A x \in DOMAIN absent : t[p].c[Half(x)] # Nil
    BY <1>1, <1>2, <1>3, <2>3 DEF Panics
  <2>5. /\ Shape(u) /\ Marks(u) /\ Grows(t, u) /\ NilStays(t, u)
        /\ Noted(m, p) \/ DOMAIN absent = {} => (Agrees(t) => Agrees(u)) /\ LeavesNoted(t, u)
        /\ \A c : LET d == [c EXCEPT ![s] = Over(absent, c[s])]
                  IN  /\ Holds(t, c) => Holds(u, d)
                      /\ Holds(t, c) /\ Canonical(t, c) => Canonical(u, d)
    <3>1. Shape(t) /\ Marks(t) /\ p = Terminal(t, s) /\ m = CowChildren(t, s, n)
      OBVIOUS
    <3>2. s \in Stem /\ IsValues(absent)
      BY <1>1, <2>3
    <3> QED BY ONLY <1>3, <2>1, <2>2, <2>4, <3>1, <3>2, UpdateOld
  <2>6. Noted(t, p) => Noted(m, p)
    <3>1. Grows(t, m)
      BY <1>1, <2>2, CowGrows
    <3> QED BY <1>2, <1>3, <3>1, NotesStay
  <2>7. DOMAIN v \subseteq DOMAIN t[p].values => DOMAIN absent = {}
    BY <2>3
  <2>8. ASSUME NEW c, Holds(t, c) PROVE Over(absent, c[s]) = Over(c[s], v)
    <3>1. c[s] = t[p].values
      BY <1>2, <1>3, <2>8, HoldsLeaf
    <3>2. DOMAIN absent \cup DOMAIN c[s] = DOMAIN c[s] \cup DOMAIN v
      BY <2>3, <3>1
    <3>3. \A x \in DOMAIN c[s] \cup DOMAIN v :
              (IF x \in DOMAIN absent THEN absent[x] ELSE c[s][x])
                  = IF x \in DOMAIN c[s] THEN c[s][x] ELSE v[x]
      BY <2>3, <3>1
    <3> PICK a, b : a = DOMAIN absent \cup DOMAIN c[s] /\ b = DOMAIN c[s] \cup DOMAIN v
      OBVIOUS
    <3>4. [x \in a |-> IF x \in DOMAIN absent THEN absent[x] ELSE c[s][x]]
              = [x \in b |-> IF x \in DOMAIN c[s] THEN c[s][x] ELSE v[x]]
      BY <3>2, <3>3
    <3> QED BY <3>4 DEF Over
  <2>9. ASSUME NEW c, Holds(t, c)
        PROVE  LET d == [c EXCEPT ![s] = Over(c[s], v)]
               IN  Holds(u, d) /\ (Canonical(t, c) => Canonical(u, d))
    BY <2>5, <2>8, <2>9
  <2> QED BY <1>3, <2>5, <2>6, <2>7, <2>9
<1>4. CASE ~(t[p].kind = "leaf" /\ t[p].stem = s)
  <2>1. u = InsertValuesAtStem(t, s, v)
    BY <1>4 DEF MigrateLeaf
  <2>2. /\ Shape(u) /\ Marks(u) /\ Grows(t, u) /\ LeavesNoted(t, u) /\ NilStays(t, u)
        /\ Agrees(t) => Agrees(u)
        /\ \A c : LET d == [c EXCEPT ![s] = v]
                  IN  /\ Holds(t, c) => Holds(u, d)
                      /\ Holds(t, c) /\ Canonical(t, c) => Canonical(u, d)
    BY <1>1, <1>4, <2>1, InsertNew
  <2>3. ASSUME NEW c, Holds(t, c) PROVE Over(c[s], v) = v
    <3>1. DOMAIN c[s] = {}
      BY <1>1, <1>4, <2>3, NothingHeld
    <3>2. IsValues(c[s])
      BY <1>1, <2>3 DEF Holds
    <3> QED BY <1>1, <3>1, <3>2, OverValues
  <2>4. ASSUME NEW c, Holds(t, c)
        PROVE  LET d == [c EXCEPT ![s] = Over(c[s], v)]
               IN  Holds(u, d) /\ (Canonical(t, c) => Canonical(u, d))
    BY <2>2, <2>3, <2>4
  <2> QED BY <2>2, <2>4
<1> QED BY <1>3, <1>4

-----------------------------------------------------------------------------
(* Migration.                                                                *)

\* The three recursions of a migration have a solution: the trees while the children
\* of the root are marked,
Marking(t, leaves, g) ==
    g = [k \in 0 .. Len(leaves) |->
            IF k = 0 THEN t ELSE CowChildren(g[k - 1], leaves[k][1], 1)]

LEMMA MarkingExists ==
    ASSUME NEW t, NEW leaves, Len(leaves) \in Nat
    PROVE  \E g : Marking(t, leaves, g)
<1> DEFINE Up(m, g) ==
        g = [k \in 0 .. m |-> IF k = 0 THEN t ELSE CowChildren(g[k - 1], leaves[k][1], 1)]
           B == {m \in Nat : ~ \E g : Up(m, g)}
<1>1. ASSUME B # {} PROVE FALSE
  <2>1. PICK m \in B : \A k \in B : m <= k
    <3>1. B \subseteq Nat
      OBVIOUS
    <3> HIDE DEF B
    <3> QED BY <1>1, <3>1, SmallestNat
  <2>2. CASE m = 0
    <3> DEFINE g == [k \in 0 .. 0 |-> t]
    <3>1. Up(0, g)
      OBVIOUS
    <3> HIDE DEF Up
    <3> QED BY <2>1, <2>2, <3>1
  <2>3. CASE m # 0
    <3>1. m \in Nat /\ m - 1 \in Nat /\ ~(m <= m - 1)
      BY <2>3
    <3>2. PICK h : Up(m - 1, h)
      <4> HIDE DEF Up
      <4>1. m - 1 \notin B
        <5> HIDE DEF B
        <5> QED BY <2>1, <3>1
      <4> QED BY <3>1, <4>1
    <3> DEFINE g == [k \in 0 .. m |-> IF k = m THEN CowChildren(h[m - 1], leaves[m][1], 1)
                                      ELSE h[k]]
    <3>3. ASSUME NEW k \in 0 .. m
          PROVE  g[k] = IF k = 0 THEN t ELSE CowChildren(g[k - 1], leaves[k][1], 1)
      <4>1. k < m => k \in 0 .. m - 1 /\ (k # 0 => k - 1 \in 0 .. m /\ k - 1 # m)
        BY <3>1
      <4>2. m - 1 \in 0 .. m /\ m - 1 # m
        BY <3>1
      <4>3. CASE k = m
        BY <2>3, <4>2, <4>3
      <4>4. CASE k < m
        <5>1. h[k] = IF k = 0 THEN t ELSE CowChildren(h[k - 1], leaves[k][1], 1)
          BY <3>2, <4>1, <4>4
        <5>2. g[k] = h[k] /\ (k # 0 => g[k - 1] = h[k - 1])
          BY <3>1, <4>1, <4>4
        <5> QED BY <5>1, <5>2
      <4>5. k = m \/ k < m
        BY ONLY <3>1, k \in 0 .. m
      <4> QED BY ONLY <4>3, <4>4, <4>5
    <3>4. Up(m, g)
      <4>1. g = [k \in 0 .. m |-> g[k]]
        OBVIOUS
      <4> HIDE DEF g
      <4> QED BY <3>3, <4>1
    <3> HIDE DEF Up, g
    <3> QED BY <2>1, <3>4
  <2> QED BY <2>2, <2>3
<1>2. \E g : Up(Len(leaves), g)
  BY <1>1
<1> QED BY <1>2 DEF Marking

\* the trees while the leaves go in,
Migrating(t, leaves, g) ==
    g = [k \in 0 .. Len(leaves) |->
            IF k = 0 THEN t ELSE MigrateLeaf(g[k - 1], leaves[k])]

LEMMA MigratingExists ==
    ASSUME NEW t, NEW leaves, Len(leaves) \in Nat
    PROVE  \E g : Migrating(t, leaves, g)
<1> DEFINE Up(m, g) ==
        g = [k \in 0 .. m |-> IF k = 0 THEN t ELSE MigrateLeaf(g[k - 1], leaves[k])]
           B == {m \in Nat : ~ \E g : Up(m, g)}
<1>1. ASSUME B # {} PROVE FALSE
  <2>1. PICK m \in B : \A k \in B : m <= k
    <3>1. B \subseteq Nat
      OBVIOUS
    <3> HIDE DEF B
    <3> QED BY <1>1, <3>1, SmallestNat
  <2>2. CASE m = 0
    <3> DEFINE g == [k \in 0 .. 0 |-> t]
    <3>1. Up(0, g)
      OBVIOUS
    <3> HIDE DEF Up
    <3> QED BY <2>1, <2>2, <3>1
  <2>3. CASE m # 0
    <3>1. m \in Nat /\ m - 1 \in Nat /\ ~(m <= m - 1)
      BY <2>3
    <3>2. PICK h : Up(m - 1, h)
      <4> HIDE DEF Up
      <4>1. m - 1 \notin B
        <5> HIDE DEF B
        <5> QED BY <2>1, <3>1
      <4> QED BY <3>1, <4>1
    <3> DEFINE g == [k \in 0 .. m |-> IF k = m THEN MigrateLeaf(h[m - 1], leaves[m])
                                      ELSE h[k]]
    <3>3. ASSUME NEW k \in 0 .. m
          PROVE  g[k] = IF k = 0 THEN t ELSE MigrateLeaf(g[k - 1], leaves[k])
      <4>1. k < m => k \in 0 .. m - 1 /\ (k # 0 => k - 1 \in 0 .. m /\ k - 1 # m)
        BY <3>1
      <4>2. m - 1 \in 0 .. m /\ m - 1 # m
        BY <3>1
      <4>3. CASE k = m
        BY <2>3, <4>2, <4>3
      <4>4. CASE k < m
        <5>1. h[k] = IF k = 0 THEN t ELSE MigrateLeaf(h[k - 1], leaves[k])
          BY <3>2, <4>1, <4>4
        <5>2. g[k] = h[k] /\ (k # 0 => g[k - 1] = h[k - 1])
          BY <3>1, <4>1, <4>4
        <5> QED BY <5>1, <5>2
      <4>5. k = m \/ k < m
        BY ONLY <3>1, k \in 0 .. m
      <4> QED BY ONLY <4>3, <4>4, <4>5
    <3>4. Up(m, g)
      <4>1. g = [k \in 0 .. m |-> g[k]]
        OBVIOUS
      <4> HIDE DEF g
      <4> QED BY <3>3, <4>1
    <3> HIDE DEF Up, g
    <3> QED BY <2>1, <3>4
  <2> QED BY <2>2, <2>3
<1>2. \E g : Up(Len(leaves), g)
  BY <1>1
<1> QED BY <1>2 DEF Migrating

\* and what they hold.
Holding(c, leaves, g) ==
    g = [k \in 0 .. Len(leaves) |->
            IF k = 0 THEN c ELSE [g[k - 1] EXCEPT ![leaves[k][1]] = Over(g[k - 1][leaves[k][1]], leaves[k][2])]]

LEMMA HoldingExists ==
    ASSUME NEW c, NEW leaves, Len(leaves) \in Nat
    PROVE  \E g : Holding(c, leaves, g)
<1> DEFINE Up(m, g) ==
        g = [k \in 0 .. m |-> IF k = 0 THEN c ELSE [g[k - 1] EXCEPT ![leaves[k][1]] = Over(g[k - 1][leaves[k][1]], leaves[k][2])]]
           B == {m \in Nat : ~ \E g : Up(m, g)}
<1>1. ASSUME B # {} PROVE FALSE
  <2>1. PICK m \in B : \A k \in B : m <= k
    <3>1. B \subseteq Nat
      OBVIOUS
    <3> HIDE DEF B
    <3> QED BY <1>1, <3>1, SmallestNat
  <2>2. CASE m = 0
    <3> DEFINE g == [k \in 0 .. 0 |-> c]
    <3>1. Up(0, g)
      OBVIOUS
    <3> HIDE DEF Up
    <3> QED BY <2>1, <2>2, <3>1
  <2>3. CASE m # 0
    <3>1. m \in Nat /\ m - 1 \in Nat /\ ~(m <= m - 1)
      BY <2>3
    <3>2. PICK h : Up(m - 1, h)
      <4> HIDE DEF Up
      <4>1. m - 1 \notin B
        <5> HIDE DEF B
        <5> QED BY <2>1, <3>1
      <4> QED BY <3>1, <4>1
    <3> DEFINE g == [k \in 0 .. m |-> IF k = m THEN [h[m - 1] EXCEPT ![leaves[m][1]] = Over(h[m - 1][leaves[m][1]], leaves[m][2])]
                                      ELSE h[k]]
    <3>3. ASSUME NEW k \in 0 .. m
          PROVE  g[k] = IF k = 0 THEN c ELSE [g[k - 1] EXCEPT ![leaves[k][1]] = Over(g[k - 1][leaves[k][1]], leaves[k][2])]
      <4>1. k < m => k \in 0 .. m - 1 /\ (k # 0 => k - 1 \in 0 .. m /\ k - 1 # m)
        BY <3>1
      <4>2. m - 1 \in 0 .. m /\ m - 1 # m
        BY <3>1
      <4>3. CASE k = m
        BY <2>3, <4>2, <4>3
      <4>4. CASE k < m
        <5>1. h[k] = IF k = 0 THEN c ELSE [h[k - 1] EXCEPT ![leaves[k][1]] = Over(h[k - 1][leaves[k][1]], leaves[k][2])]
          BY <3>2, <4>1, <4>4
        <5>2. g[k] = h[k] /\ (k # 0 => g[k - 1] = h[k - 1])
          BY <3>1, <4>1, <4>4
        <5> QED BY <5>1, <5>2
      <4>5. k = m \/ k < m
        BY ONLY <3>1, k \in 0 .. m
      <4> QED BY ONLY <4>3, <4>4, <4>5
    <3>4. Up(m, g)
      <4>1. g = [k \in 0 .. m |-> g[k]]
        OBVIOUS
      <4> HIDE DEF g
      <4> QED BY <3>3, <4>1
    <3> HIDE DEF Up, g
    <3> QED BY <2>1, <3>4
  <2> QED BY <2>2, <2>3
<1>2. \E g : Up(Len(leaves), g)
  BY <1>1
<1> QED BY <1>2 DEF Holding

\* The recursions step by step.
Recursions(t, c, leaves, f, g, h) ==
    /\ f[0] = t /\ g[0] = f[Len(leaves)] /\ h[0] = c
    /\ \A k \in 1 .. Len(leaves) : f[k] = CowChildren(f[k - 1], leaves[k][1], 1)
    /\ \A k \in 1 .. Len(leaves) : g[k] = MigrateLeaf(g[k - 1], leaves[k])
    /\ \A k \in 1 .. Len(leaves) :
           h[k] = [h[k - 1] EXCEPT ![leaves[k][1]] =
                       Over(h[k - 1][leaves[k][1]], leaves[k][2])]
    /\ InsertMigratedLeaves(t, leaves) = g[Len(leaves)]
    /\ ContentMigrated(c, leaves) = h[Len(leaves)]

LEMMA MigrationIs ==
    ASSUME NEW t, NEW c, NEW leaves, Len(leaves) \in Nat
    PROVE  \E f, g, h : Recursions(t, c, leaves, f, g, h)
<1>1. PICK f : f = CHOOSE x : Marking(t, leaves, x)
  OBVIOUS
<1>2. Marking(t, leaves, f)
  BY <1>1, MarkingExists
<1>3. PICK g : g = CHOOSE x : Migrating(f[Len(leaves)], leaves, x)
  OBVIOUS
<1>4. Migrating(f[Len(leaves)], leaves, g)
  BY <1>3, MigratingExists
<1>5. PICK h : h = CHOOSE x : Holding(c, leaves, x)
  OBVIOUS
<1>6. Holding(c, leaves, h)
  BY <1>5, HoldingExists
<1>7. InsertMigratedLeaves(t, leaves) = g[Len(leaves)]
  BY <1>1, <1>3 DEF InsertMigratedLeaves, Marking, Migrating
<1>8. ContentMigrated(c, leaves) = h[Len(leaves)]
  BY <1>5 DEF ContentMigrated, Holding
<1>9. \A k \in 1 .. Len(leaves) : k \in 0 .. Len(leaves) /\ k # 0
  OBVIOUS
<1>10. 0 \in 0 .. Len(leaves)
  OBVIOUS
<1>11. f[0] = t /\ \A k \in 1 .. Len(leaves) : f[k] = CowChildren(f[k - 1], leaves[k][1], 1)
  BY <1>2, <1>9, <1>10 DEF Marking
<1>12. g[0] = f[Len(leaves)] /\ \A k \in 1 .. Len(leaves) : g[k] = MigrateLeaf(g[k - 1], leaves[k])
  BY <1>4, <1>9, <1>10 DEF Migrating
<1>13. h[0] = c /\ \A k \in 1 .. Len(leaves) :
           h[k] = [h[k - 1] EXCEPT ![leaves[k][1]] =
                       Over(h[k - 1][leaves[k][1]], leaves[k][2])]
  BY <1>6, <1>9, <1>10 DEF Holding
<1>14. Recursions(t, c, leaves, f, g, h)
  BY ONLY <1>7, <1>8, <1>11, <1>12, <1>13 DEF Recursions
<1> QED BY <1>14

\* The tree after the first k ways are marked at the root.
RootMarked(t, c, leaves, k, u) ==
    /\ Shape(u) /\ Marks(u) /\ Grows(t, u) /\ Holds(u, c)
    /\ Agrees(t) => Agrees(u)
    /\ Canonical(t, c) => Canonical(u, c)
    /\ \A q \in Path : u[q].kind = "leaf" => u[q] = t[q]
    /\ \A j \in 1 .. k : leaves[j][1][1] \in DOMAIN u[<<>>].cow

LEMMA GrowsFurther == \A t, u, v : Grows(t, u) /\ Grows(u, v) => Grows(t, v)
<1>1. ASSUME NEW t, NEW u, NEW v, Grows(t, u), Grows(u, v),
             NEW q \in Path, t[q].kind = "internal"
      PROVE  v[q].kind = "internal" /\ DOMAIN t[q].cow \subseteq DOMAIN v[q].cow
  <2>1. u[q].kind = "internal" /\ DOMAIN t[q].cow \subseteq DOMAIN u[q].cow
    BY <1>1 DEF Grows
  <2>2. v[q].kind = "internal" /\ DOMAIN u[q].cow \subseteq DOMAIN v[q].cow
    BY <1>1, <2>1 DEF Grows
  <2> QED BY <2>1, <2>2
<1> QED BY <1>1 DEF Grows

LEMMA RootMarkedStep ==
    ASSUME NEW t, NEW c, NEW leaves, NEW k \in Nat \ {0}, leaves[k][1] \in Stem,
           NEW u, RootMarked(t, c, leaves, k - 1, u)
    PROVE  RootMarked(t, c, leaves, k, CowChildren(u, leaves[k][1], 1))
<1> PICK s : s = leaves[k][1]
  OBVIOUS
<1> PICK v : v = CowChildren(u, s, 1)
  OBVIOUS
<1>0. Shape(u) /\ Marks(u) /\ Grows(t, u) /\ Holds(u, c) /\ (Agrees(t) => Agrees(u))
      /\ (Canonical(t, c) => Canonical(u, c))
  BY DEF RootMarked
<1>1. 1 \in Nat /\ 1 <= Len(Terminal(u, s)) /\ s \in Path /\ <<>> \in Path /\ Len(<<>>) = 0
  <2>1. Len(Terminal(u, s)) \in 1 .. StemSize /\ StemSize \in Nat
    BY <1>0, TerminalIs, PathIs
  <2>2. 1 <= Len(Terminal(u, s))
    BY ONLY <2>1
  <2> QED BY <2>2, PathIs
<1>2. /\ Shape(v) /\ Marks(v) /\ (Agrees(u) => Agrees(v)) /\ Holds(v, c)
      /\ Canonical(u, c) => Canonical(v, c)
  BY <1>0, <1>1, CowKeeps
<1>3. Grows(u, v) /\ \A q \in Path : v[q].kind = "leaf" => v[q] = u[q]
  BY <1>0, <1>1, CowGrows
<1>4. Grows(t, v)
  BY <1>0, <1>3, GrowsFurther
<1>5. \A q \in Path : v[q].kind = "leaf" => v[q] = t[q]
  BY <1>3 DEF RootMarked
<1>6. ASSUME NEW j \in 1 .. k PROVE leaves[j][1][1] \in DOMAIN v[<<>>].cow
  <2>1. CASE j = k
    <3>1. OnWay(s, 1, <<>>)
      <4>1. Len(<<>>) < 1
        BY ONLY <1>1
      <4> QED BY <1>1, <4>1, PrefixOrder DEF OnWay
    <3>2. s[Len(<<>>) + 1] \in DOMAIN v[<<>>].cow
      BY <1>0, <1>1, <3>1, CowIs
    <3>3. Len(<<>>) + 1 = 1
      BY ONLY <1>1
    <3> QED BY <2>1, <3>2, <3>3
  <2>2. CASE j # k
    <3>1. j \in 1 .. k - 1
      BY ONLY <2>2, k \in Nat \ {0}, j \in 1 .. k
    <3>2. leaves[j][1][1] \in DOMAIN u[<<>>].cow
      BY <3>1 DEF RootMarked
    <3>3. u[<<>>].kind = "internal"
      BY <1>0, RootIsInternal
    <3> QED BY <1>1, <1>3, <3>2, <3>3 DEF Grows
  <2> QED BY <2>1, <2>2
<1>7. RootMarked(t, c, leaves, k, v)
  BY <1>0, <1>2, <1>4, <1>5, <1>6 DEF RootMarked
<1> QED BY <1>7

\* The tree, and what it holds, after the first k leaves went in.
Migrated(t, c, leaves, u, d) ==
    /\ Shape(u) /\ Marks(u) /\ Grows(t, u) /\ NilStays(t, u) /\ Holds(u, d)
    /\ Agrees(t) /\ ~Unmarks(t, leaves) => Agrees(u)
    /\ ~Unmarks(t, leaves) => LeavesNoted(t, u)
    /\ Canonical(t, c) => Canonical(u, d)
    /\ \A j \in 1 .. Len(leaves) : leaves[j][1][1] \in DOMAIN u[<<>>].cow

\* A leaf that is not noted is one of the tree before the migration, and there its
\* parent did not know either.
LEMMA NotedOrKnown ==
    ASSUME NEW t, Shape(t), NEW leaves, ~Unmarks(t, leaves), NEW k \in DOMAIN leaves,
           NEW u, Shape(u), Grows(t, u), LeavesNoted(t, u),
           NEW s \in Stem, s = leaves[k][1], s[1] \in DOMAIN u[<<>>].cow,
           NEW p, p = Terminal(u, s), u[p].kind = "leaf", u[p].stem = s, ~Noted(u, p)
    PROVE  DOMAIN leaves[k][2] \subseteq DOMAIN u[p].values
<1>1. p \in Path /\ Len(p) \in 1 .. StemSize /\ StemSize \in Nat /\ IsPrefix(p, s) /\ s \in Path
      /\ <<>> \in Path /\ Len(<<>>) = 0
  BY TerminalIs, PathIs
<1>2. PICK q \in Path, w \in Word : Len(q) < StemSize /\ Append(q, w) = p /\ w \notin DOMAIN u[q].cow
  BY DEF Noted
<1>3. Len(p) = Len(q) + 1 /\ IsPrefix(q, p) /\ q # p /\ p[Len(q) + 1] = w /\ Len(q) \in Nat
  <2>1. /\ Len(Append(q, w)) = Len(q) + 1 /\ IsPrefix(q, Append(q, w)) /\ q # Append(q, w)
        /\ Append(q, w)[Len(q) + 1] = w
    BY <1>2, ChildIs
  <2>2. Len(q) \in Nat
    BY PathIs
  <2> QED BY <1>2, <2>1, <2>2
<1>4. Len(p) > 1
  <2>1. ASSUME Len(q) = 0 PROVE FALSE
    <3>1. q = <<>>
      BY <1>1, <2>1, PrefixOrder
    <3>2. Len(q) + 1 = 1 /\ 1 \in 1 .. Len(p)
      BY ONLY <1>1, <1>3, <2>1
    <3>3. p[1] = s[1]
      BY <1>1, <3>2, PrefixIs
    <3>4. w = s[1]
      BY <1>3, <3>2, <3>3
    <3> QED BY <1>2, <3>1, <3>4
  <2>2. Len(q) \in Nat /\ Len(q) # 0 /\ Len(p) = Len(q) + 1
    BY <1>3, <2>1
  <2> QED BY ONLY <2>2
<1>5. u[p] = t[p]
  BY <1>1 DEF LeavesNoted
<1>6. Terminal(t, s) = p
  BY <1>1, <1>5, LeafAtTerminal
<1>7. Front(p) = q /\ Last(p) = w
  <2>1. q \in Seq(Word)
    BY PathIs
  <2>2. Front(Append(q, w)) = q /\ Last(Append(q, w)) = w
    BY ONLY <2>1, w \in Word DEF Front, Last
  <2> QED BY <1>2, <2>2
<1>8. t[q].kind = "internal"
  BY <1>1, <1>3, <1>5, ShapeIs
<1>9. w \notin DOMAIN t[q].cow
  BY <1>2, <1>8 DEF Grows
<1>10. t[p].kind = "leaf" /\ t[p].stem = s
  BY <1>5
<1>11. DOMAIN leaves[k][2] \subseteq DOMAIN t[p].values
  BY <1>4, <1>6, <1>7, <1>9, <1>10 DEF Unmarks
<1> QED BY <1>5, <1>11

LEMMA MigratedStep ==
    ASSUME NEW t, Shape(t), NEW c, NEW leaves, Len(leaves) \in Nat,
           DOMAIN leaves = 1 .. Len(leaves), NEW k \in 1 .. Len(leaves), IsWrite(leaves[k]),
           ~Panics(t, leaves[k][1], leaves[k][2]),
           NEW u, NEW d, Migrated(t, c, leaves, u, d)
    PROVE  Migrated(t, c, leaves, MigrateLeaf(u, leaves[k]),
                    [d EXCEPT ![leaves[k][1]] = Over(d[leaves[k][1]], leaves[k][2])])
<1> PICK s, v : s = leaves[k][1] /\ v = leaves[k][2]
  OBVIOUS
<1> PICK u2 : u2 = MigrateLeaf(u, leaves[k])
  OBVIOUS
<1> PICK p : p = Terminal(u, s)
  OBVIOUS
<1>0. /\ Shape(u) /\ Marks(u) /\ Grows(t, u) /\ NilStays(t, u) /\ Holds(u, d)
      /\ Agrees(t) /\ ~Unmarks(t, leaves) => Agrees(u)
      /\ ~Unmarks(t, leaves) => LeavesNoted(t, u)
      /\ Canonical(t, c) => Canonical(u, d)
      /\ \A j \in 1 .. Len(leaves) : leaves[j][1][1] \in DOMAIN u[<<>>].cow
  BY DEF Migrated
<1>1. s \in Stem /\ IsValues(v)
  BY DEF IsWrite, IsValues
<1>2. ~Panics(u, s, v)
  <2>1. SUFFICES ASSUME NEW q \in Path, u[q].kind = "leaf", u[q].stem = s,
                        NEW x \in DOMAIN v, u[q].c[Half(x)] = Nil
                 PROVE  FALSE
    BY DEF Panics
  <2>2. \E y \in Path : t[y].kind = "leaf" /\ t[y].stem = s /\ t[y].c[Half(x)] = Nil
    BY <1>0, <2>1, HalfIs DEF NilStays
  <2> QED BY <2>1, <2>2 DEF Panics
<1>3. /\ Shape(u2) /\ Marks(u2) /\ Grows(u, u2) /\ NilStays(u, u2)
      /\ (u[p].kind = "leaf" /\ u[p].stem = s => Noted(u, p) \/ DOMAIN v \subseteq DOMAIN u[p].values)
             => (Agrees(u) => Agrees(u2)) /\ LeavesNoted(u, u2)
      /\ LET e == [d EXCEPT ![s] = Over(d[s], v)]
         IN  Holds(u2, e) /\ (Canonical(u, d) => Canonical(u2, e))
  BY <1>0, <1>2, MigrateLeafKeeps
<1>4. ASSUME ~Unmarks(t, leaves)
      PROVE  (Agrees(u) => Agrees(u2)) /\ LeavesNoted(u, u2)
  <2>1. ASSUME u[p].kind = "leaf", u[p].stem = s
        PROVE  Noted(u, p) \/ DOMAIN v \subseteq DOMAIN u[p].values
    <3>1. s[1] \in DOMAIN u[<<>>].cow
      BY <1>0
    <3> QED BY <1>0, <1>1, <1>4, <2>1, <3>1, NotedOrKnown
  <2> QED BY <1>3, <2>1
<1>5. Grows(t, u2)
  BY <1>0, <1>3, GrowsFurther
<1>6. NilStays(t, u2)
  <2>1. ASSUME NEW q \in Path, u2[q].kind = "leaf", NEW h \in 1 .. 2, u2[q].c[h] = Nil
        PROVE  \E x \in Path : t[x].kind = "leaf" /\ t[x].stem = u2[q].stem /\ t[x].c[h] = Nil
    <3>1. PICK y \in Path : u[y].kind = "leaf" /\ u[y].stem = u2[q].stem /\ u[y].c[h] = Nil
      BY <1>3, <2>1 DEF NilStays
    <3> QED BY <1>0, <3>1 DEF NilStays
  <2> QED BY <2>1 DEF NilStays
<1>7. ASSUME ~Unmarks(t, leaves) PROVE LeavesNoted(t, u2)
  <2>1. ASSUME NEW q \in Path, u2[q].kind = "leaf" PROVE u2[q] = t[q] \/ Noted(u2, q)
    <3>1. CASE Noted(u2, q)
      BY <3>1
    <3>2. CASE u2[q] = u[q]
      <4>1. u[q].kind = "leaf"
        BY <2>1, <3>2
      <4>2. u[q] = t[q] \/ Noted(u, q)
        BY <1>0, <1>7, <4>1 DEF LeavesNoted
      <4>3. Noted(u, q) => Noted(u2, q)
        BY <1>0, <1>3, <4>1, NotesStay
      <4> QED BY <3>2, <4>2, <4>3
    <3> QED BY <1>4, <1>7, <2>1, <3>1, <3>2 DEF LeavesNoted
  <2> QED BY <2>1 DEF LeavesNoted
<1>8. \A j \in 1 .. Len(leaves) : leaves[j][1][1] \in DOMAIN u2[<<>>].cow
  <2>1. u[<<>>].kind = "internal" /\ <<>> \in Path
    BY <1>0, RootIsInternal
  <2>2. DOMAIN u[<<>>].cow \subseteq DOMAIN u2[<<>>].cow
    BY <1>3, <2>1 DEF Grows
  <2> QED BY <1>0, <2>2
<1> PICK e : e = [d EXCEPT ![s] = Over(d[s], v)]
  OBVIOUS
<1>9. Holds(u2, e) /\ (Canonical(u, d) => Canonical(u2, e))
  BY <1>3
<1>10. Migrated(t, c, leaves, u2, e)
  BY <1>0, <1>3, <1>4, <1>5, <1>6, <1>7, <1>8, <1>9 DEF Migrated
<1> QED BY <1>10

\* Marking the ways of all leaves at the root changes nothing else.
LEMMA AllRootsMarked ==
    ASSUME NEW t, Shape(t), Marks(t), NEW c, Holds(t, c),
           NEW leaves, Len(leaves) \in Nat, DOMAIN leaves = 1 .. Len(leaves),
           \A k \in DOMAIN leaves : IsWrite(leaves[k]),
           NEW f, NEW g, NEW h, Recursions(t, c, leaves, f, g, h)
    PROVE  RootMarked(t, c, leaves, Len(leaves), f[Len(leaves)])
<1> DEFINE B == {k \in Nat : k <= Len(leaves) /\ ~RootMarked(t, c, leaves, k, f[k])}
<1>1. ASSUME B # {} PROVE FALSE
  <2>1. PICK k \in B : \A m \in B : k <= m
    <3>1. B \subseteq Nat
      OBVIOUS
    <3> HIDE DEF B
    <3> QED BY <1>1, <3>1, SmallestNat
  <2>2. k \in Nat /\ k <= Len(leaves) /\ ~RootMarked(t, c, leaves, k, f[k])
    BY <2>1
  <2>3. CASE k = 0
    <3>1. f[k] = t
      BY <2>3 DEF Recursions
    <3>2. Grows(t, t)
      BY DEF Grows
    <3>3. \A j \in 1 .. k : FALSE
      BY <2>3
    <3> QED BY <2>2, <3>1, <3>2, <3>3 DEF RootMarked
  <2>4. CASE k # 0
    <3> PICK j : j = k - 1
      OBVIOUS
    <3>1. j \in Nat /\ j <= Len(leaves) /\ ~(k <= j) /\ k \in 1 .. Len(leaves) /\ k \in Nat \ {0}
      BY ONLY <2>2, <2>4, Len(leaves) \in Nat, j = k - 1
    <3>2. j \notin B
      <4> HIDE DEF B
      <4> QED BY <2>1, <3>1
    <3>3. RootMarked(t, c, leaves, j, f[j])
      BY <3>1, <3>2
    <3>4. f[k] = CowChildren(f[j], leaves[k][1], 1)
      BY <3>1 DEF Recursions
    <3>5. leaves[k][1] \in Stem
      BY <3>1 DEF IsWrite
    <3>6. RootMarked(t, c, leaves, k - 1, f[j])
      BY <3>3
    <3>7. RootMarked(t, c, leaves, k, CowChildren(f[j], leaves[k][1], 1))
      BY ONLY <3>1, <3>5, <3>6, RootMarkedStep
    <3> QED BY <2>2, <3>4, <3>7
  <2> QED BY <2>3, <2>4
<1>2. Len(leaves) <= Len(leaves)
  OBVIOUS
<1> QED BY <1>1, <1>2

\* A migration keeps the tree, and its commitments unless it unmarks.
LEMMA MigrateKeeps ==
    ASSUME NEW t, Shape(t), Marks(t), NEW c, Holds(t, c),
           NEW leaves, Len(leaves) \in Nat, DOMAIN leaves = 1 .. Len(leaves),
           \A k \in DOMAIN leaves : IsWrite(leaves[k]),
           \A k \in DOMAIN leaves : ~Panics(t, leaves[k][1], leaves[k][2])
    PROVE  LET u == InsertMigratedLeaves(t, leaves)
               d == ContentMigrated(c, leaves)
           IN  /\ Shape(u) /\ Marks(u) /\ Holds(u, d)
               /\ Agrees(t) /\ ~Unmarks(t, leaves) => Agrees(u)
               /\ Canonical(t, c) => Canonical(u, d)
<1>1. PICK f, g, h : Recursions(t, c, leaves, f, g, h)
  BY MigrationIs
<1> PICK m : m = f[Len(leaves)]
  OBVIOUS
<1>2. RootMarked(t, c, leaves, Len(leaves), m)
  BY <1>1, AllRootsMarked
<1>3. Migrated(t, c, leaves, m, c)
  <2>1. LeavesNoted(t, m)
    BY <1>2 DEF RootMarked, LeavesNoted
  <2>2. NilStays(t, m)
    <3>1. ASSUME NEW q \in Path, m[q].kind = "leaf", NEW i \in 1 .. 2, m[q].c[i] = Nil
          PROVE  \E x \in Path : t[x].kind = "leaf" /\ t[x].stem = m[q].stem /\ t[x].c[i] = Nil
      <4>1. m[q] = t[q]
        BY <1>2, <3>1 DEF RootMarked
      <4> QED BY <3>1, <4>1
    <3> QED BY <3>1 DEF NilStays
  <2> QED BY <1>2, <2>1, <2>2 DEF RootMarked, Migrated
<1> DEFINE B == {k \in Nat : k <= Len(leaves) /\ ~Migrated(t, c, leaves, g[k], h[k])}
<1>4. ASSUME B # {} PROVE FALSE
  <2>1. PICK k \in B : \A j \in B : k <= j
    <3>1. B \subseteq Nat
      OBVIOUS
    <3> HIDE DEF B
    <3> QED BY <1>4, <3>1, SmallestNat
  <2>2. k \in Nat /\ k <= Len(leaves) /\ ~Migrated(t, c, leaves, g[k], h[k])
    BY <2>1
  <2>3. CASE k = 0
    <3>1. g[k] = m /\ h[k] = c
      BY <1>1, <2>3 DEF Recursions
    <3> QED BY <1>3, <2>2, <3>1
  <2>4. CASE k # 0
    <3> PICK j : j = k - 1
      OBVIOUS
    <3>1. j \in Nat /\ j <= Len(leaves) /\ ~(k <= j) /\ k \in 1 .. Len(leaves)
      BY ONLY <2>2, <2>4, Len(leaves) \in Nat, j = k - 1
    <3>2. j \notin B
      <4> HIDE DEF B
      <4> QED BY <2>1, <3>1
    <3>3. Migrated(t, c, leaves, g[j], h[j])
      BY <3>1, <3>2
    <3>4. /\ g[k] = MigrateLeaf(g[j], leaves[k])
          /\ h[k] = [h[j] EXCEPT ![leaves[k][1]] = Over(h[j][leaves[k][1]], leaves[k][2])]
      BY <1>1, <3>1 DEF Recursions
    <3>5. IsWrite(leaves[k]) /\ ~Panics(t, leaves[k][1], leaves[k][2])
      BY <3>1
    <3> PICK u, d : u = g[j] /\ d = h[j]
      OBVIOUS
    <3>6. Migrated(t, c, leaves, u, d)
      BY <3>3
    <3>7. Migrated(t, c, leaves, MigrateLeaf(u, leaves[k]),
                   [d EXCEPT ![leaves[k][1]] = Over(d[leaves[k][1]], leaves[k][2])])
      <4> HIDE DEF B
      <4> QED BY <3>1, <3>5, <3>6, MigratedStep
    <3> QED BY <2>2, <3>4, <3>7
  <2> QED BY <2>3, <2>4
<1>5. Migrated(t, c, leaves, g[Len(leaves)], h[Len(leaves)])
  <2>1. Len(leaves) <= Len(leaves)
    OBVIOUS
  <2> QED BY <1>4, <2>1
<1>6. InsertMigratedLeaves(t, leaves) = g[Len(leaves)] /\ ContentMigrated(c, leaves) = h[Len(leaves)]
  BY <1>1 DEF Recursions
<1> QED BY <1>5, <1>6 DEF Migrated

-----------------------------------------------------------------------------
(* Deletion.                                                               *)

\* What goes with the node at p.
Lonely(t, p, q) ==
    /\ q # <<>> /\ IsPrefix(q, p)
    /\ \A x \in Path : IsPrefix(q, x) /\ t[x].kind # "empty" => IsPrefix(x, p)

\* A leaf that goes takes what is above it and holds nothing else, and what stays
\* keeps the tree: a node that loses a child is marked.
LEMMA RemoveKeeps ==
    ASSUME NEW t, Shape(t), NEW s \in Stem, NEW p, p = Terminal(t, s),
           t[p].kind = "leaf", t[p].stem = s, WayMarked(t, p)
    PROVE  LET u == RemoveNode(t, p)
           IN  /\ Shape(u)
               /\ Marks(t) => Marks(u)
               /\ Agrees(t) => Agrees(u)
               /\ \A c, v : LET d == [c EXCEPT ![s] = v]
                            IN  Holds(t, c) /\ IsValues(v) /\ DOMAIN v = {} => Holds(u, d)
<1> PICK u : u = RemoveNode(t, p)
  OBVIOUS
<1>0. p \in Path /\ IsPrefix(p, s) /\ s \in Path /\ p # <<>>
  BY TerminalIs, PathIs
<1>1. u = [q \in Path |-> u[q]] /\ \A q \in Path : u[q] = IF Lonely(t, p, q) THEN EmptyNode ELSE t[q]
  BY DEF RemoveNode, Lonely
<1>2. EmptyNode.kind = "empty"
  BY EmptyIs
<1>3. \A q \in Path : u[q].kind # "empty" => u[q] = t[q] /\ ~Lonely(t, p, q)
  BY <1>1, <1>2
<1>4. ASSUME NEW q \in Path, NEW r \in Path, IsPrefix(q, r), IsPrefix(r, p), Lonely(t, p, q)
      PROVE  Lonely(t, p, r)
  <2>1. r # <<>>
    <3>1. IsPrefix(<<>>, q) /\ <<>> \in Path
      BY PathIs, PrefixOrder
    <3>2. ASSUME r = <<>> PROVE q = <<>>
      <4>1. Len(q) <= Len(<<>>) /\ Len(<<>>) <= Len(q) /\ Len(q) \in Nat /\ Len(<<>>) \in Nat
        BY <1>4, <3>1, <3>2, PrefixOrder, PathIs
      <4>2. Len(q) = Len(<<>>)
        BY ONLY <4>1
      <4> QED BY <1>4, <3>1, <3>2, <4>2, PrefixOrder
    <3> QED BY <1>4, <3>2 DEF Lonely
  <2>2. ASSUME NEW x \in Path, IsPrefix(r, x), t[x].kind # "empty" PROVE IsPrefix(x, p)
    <3>1. IsPrefix(q, x)
      BY <1>4, <2>2, PrefixOrder
    <3> QED BY <1>4, <2>2, <3>1 DEF Lonely
  <2> QED BY <1>4, <2>1, <2>2 DEF Lonely
<1>5. ASSUME NEW q \in Path, NEW r \in Path, IsPrefix(q, r), q # r, u[r].kind # "empty"
      PROVE  u[q].kind = "internal" /\ u[q] = t[q]
  <2>1. u[r] = t[r] /\ ~Lonely(t, p, r)
    BY <1>3, <1>5
  <2>2. t[q].kind = "internal"
    BY <1>5, <2>1, ShapeIs
  <2>3. ~Lonely(t, p, q)
    <3>1. SUFFICES ASSUME Lonely(t, p, q) PROVE FALSE
      OBVIOUS
    <3>2. IsPrefix(r, p)
      BY <1>5, <2>1, <3>1 DEF Lonely
    <3> QED BY <1>4, <1>5, <2>1, <3>1, <3>2
  <2> QED BY <1>1, <2>2, <2>3
<1>6. Lonely(t, p, p)
  <2>1. ASSUME NEW x \in Path, IsPrefix(p, x), t[x].kind # "empty" PROVE x = p
    <3>1. t[p].kind # "internal"
      OBVIOUS
    <3> QED BY <1>0, <2>1, <3>1, OneOnWay
  <2> QED BY <1>0, <2>1, PrefixOrder DEF Lonely
<1>7. Shape(u)
  <2>1. ASSUME NEW q \in Path PROVE IsNode(u[q])
    <3>1. IsNode(t[q])
      BY DEF Shape
    <3> QED BY <1>1, <1>2, <3>1 DEF IsNode
  <2>2. u[<<>>].kind = "internal"
    <3>1. <<>> \in Path /\ ~Lonely(t, p, <<>>)
      BY PathIs DEF Lonely
    <3> QED BY <1>1, <3>1, ShapeIs
  <2>3. ASSUME NEW q \in Path, u[q].kind = "internal" PROVE Len(q) < StemSize
    <3>1. t[q].kind = "internal"
      BY <1>3, <2>3
    <3> QED BY <3>1, ShapeIs
  <2>4. \A q, r \in Path : IsStrictPrefix(r, q) /\ u[q].kind # "empty" => u[r].kind = "internal"
    BY <1>5 DEF IsStrictPrefix
  <2>5. ASSUME NEW q \in Path, u[q].kind = "leaf" PROVE IsPrefix(q, u[q].stem)
    <3>1. u[q] = t[q]
      BY <1>3, <2>5
    <3> QED BY <2>5, <3>1, ShapeIs
  <2> QED BY <1>1, <2>1, <2>2, <2>3, <2>4, <2>5 DEF Shape
<1>8. ASSUME Marks(t) PROVE Marks(u)
  <2>1. ASSUME NEW r \in Path, NEW q \in Path, u[r].kind = "internal", DOMAIN u[r].cow # {},
               IsStrictPrefix(q, r)
        PROVE  r[Len(q) + 1] \in DOMAIN u[q].cow
    <3>1. u[r].kind # "empty"
      BY <2>1
    <3>2. u[r] = t[r]
      BY <1>3, <3>1
    <3>3. u[q] = t[q]
      BY <1>5, <2>1, <3>1 DEF IsStrictPrefix
    <3>4. r[Len(q) + 1] \in DOMAIN t[q].cow
      BY <1>8, <2>1, <3>2 DEF Marks
    <3> QED BY <3>3, <3>4
  <2> QED BY <2>1 DEF Marks
<1>9. ASSUME Agrees(t) PROVE Agrees(u)
  <2>1. ASSUME NEW q \in Path, u[q].kind = "internal", NEW w \in Word
        PROVE  u[q].comm[w] = IF w \in DOMAIN u[q].cow THEN u[q].cow[w]
                              ELSE Commitment(u[Append(q, w)])
    <3>1. u[q] = t[q] /\ t[q].kind = "internal"
      BY <1>3, <2>1
    <3>2. Append(q, w) \in Path /\ Len(q) < StemSize
      BY <3>1, ShapeIs, ChildIs
    <3>3. t[q].comm[w] = IF w \in DOMAIN t[q].cow THEN t[q].cow[w]
                         ELSE Commitment(t[Append(q, w)])
      BY <1>9, <3>1 DEF Agrees
    <3>4. CASE Lonely(t, p, Append(q, w))
      <4>1. IsPrefix(Append(q, w), p)
        BY <3>4 DEF Lonely
      <4>2. IsPrefix(q, p) /\ Len(q) < Len(p) /\ p[Len(q) + 1] = w
        BY <1>0, <3>2, <4>1, ChildIs
      <4>3. q # p
        <5>1. Len(p) \in Nat
          BY <1>0, PathIs
        <5> QED BY ONLY <4>2, <5>1
      <4>4. w \in DOMAIN t[q].cow
        BY <4>2, <4>3 DEF WayMarked
      <4> QED BY <3>1, <3>3, <4>4
    <3>5. CASE ~Lonely(t, p, Append(q, w))
      BY <1>1, <3>1, <3>2, <3>3, <3>5
    <3> QED BY <3>4, <3>5
  <2> QED BY <2>1 DEF Agrees
<1>10. ASSUME NEW c, NEW v, Holds(t, c), IsValues(v), DOMAIN v = {}
       PROVE  LET d == [c EXCEPT ![s] = v] IN Holds(u, d)
  <2> PICK d : d = [c EXCEPT ![s] = v]
    OBVIOUS
  <2>1. c = [r \in Stem |-> c[r]] /\ \A r \in Stem : IsValues(c[r])
    BY <1>10 DEF Holds
  <2>2. d = [r \in Stem |-> d[r]] /\ d[s] = v /\ \A r \in Stem : r # s => d[r] = c[r]
    BY <2>1, HeldIs
  <2>3. \A r \in Stem : IsValues(d[r])
    BY <1>10, <2>1, <2>2
  <2>4. \A q \in Path : t[q].kind = "leaf" /\ t[q].stem = s => q = p
    BY LeafAtTerminal
  <2>5. ASSUME NEW q \in Path, u[q].kind = "leaf" PROVE u[q].values = d[u[q].stem]
    <3>1. u[q] = t[q] /\ t[q].kind = "leaf" /\ q # p
      BY <1>3, <1>6, <2>5
    <3>2. t[q].stem # s /\ t[q].stem \in Stem
      BY <2>4, <3>1, ShapeIs
    <3>3. c[t[q].stem] = t[q].values
      BY <1>10, <3>1, HoldsLeaf
    <3> QED BY <2>2, <3>1, <3>2, <3>3
  <2>6. ASSUME NEW r \in Stem, DOMAIN d[r] # {}
        PROVE  \E q \in Path : u[q].kind = "leaf" /\ u[q].stem = r
    <3>1. r # s /\ DOMAIN c[r] # {}
      BY <1>10, <2>2, <2>6
    <3>2. PICK q \in Path : t[q].kind = "leaf" /\ t[q].stem = r
      BY <1>10, <3>1 DEF Holds
    <3>3. ~Lonely(t, p, q)
      <4>1. SUFFICES ASSUME Lonely(t, p, q) PROVE FALSE
        OBVIOUS
      <4>2. IsPrefix(q, p) /\ t[q].kind # "internal" /\ t[p].kind # "empty"
        BY <3>2, <4>1 DEF Lonely
      <4>3. p = q
        BY <1>0, <4>2, OneOnWay
      <4> QED BY <3>1, <3>2, <4>3
    <3> QED BY <1>1, <3>2, <3>3
  <2>7. ASSUME NEW x \in Path, x # <<>>, t[x].kind # "empty", ~IsPrefix(x, p)
        PROVE  \E r \in Stem : DOMAIN d[r] # {} /\ IsPrefix(x, r)
    <3>1. CASE t[x].kind = "leaf"
      <4> PICK r : r = t[x].stem
        OBVIOUS
      <4>1. IsPrefix(x, r) /\ r \in Stem /\ IsLeaf(t[x])
        BY <3>1, ShapeIs
      <4>2. x # p
        BY <1>0, <2>7, PrefixOrder
      <4>3. r # s
        BY <2>4, <3>1, <4>2
      <4>4. d[r] = t[x].values
        BY <1>10, <2>2, <3>1, <4>1, <4>3, HoldsLeaf
      <4>5. DOMAIN t[x].values # {}
        BY <4>1 DEF IsLeaf
      <4> QED BY <4>1, <4>4, <4>5
    <3>2. CASE t[x].kind = "internal"
      <4>1. PICK r \in Stem : DOMAIN c[r] # {} /\ IsPrefix(x, r)
        BY <1>10, <2>7, <3>2 DEF Holds
      <4>2. r # s
        <5>1. SUFFICES ASSUME r = s PROVE FALSE
          OBVIOUS
        <5>2. ~(Len(x) <= Len(p))
          BY <1>0, <2>7, <4>1, <5>1, PrefixOrder
        <5>3. Len(p) <= Len(x)
          <6>1. Len(p) \in Nat /\ Len(x) \in Nat
            BY <1>0, PathIs
          <6> QED BY ONLY <5>2, <6>1
        <5>4. IsPrefix(p, x)
          BY <1>0, <4>1, <5>1, <5>3, PrefixOrder
        <5>5. t[p].kind # "internal"
          OBVIOUS
        <5>6. x = p
          BY <1>0, <2>7, <5>4, <5>5, OneOnWay
        <5> QED BY <1>0, <2>7, <5>6, PrefixOrder
      <4> QED BY <2>2, <4>1, <4>2
    <3> QED BY <2>7, <3>1, <3>2, ShapeIs
  <2>8. ASSUME NEW q \in Path, u[q].kind = "internal", q # <<>>
        PROVE  \E r \in Stem : DOMAIN d[r] # {} /\ IsPrefix(q, r)
    <3>1. t[q].kind = "internal" /\ ~Lonely(t, p, q)
      BY <1>3, <2>8
    <3>2. PICK x \in Path : IsPrefix(q, x) /\ t[x].kind # "empty" /\ ~IsPrefix(x, p)
      <4>1. CASE IsPrefix(q, p)
        BY <2>8, <3>1, <4>1 DEF Lonely
      <4>2. CASE ~IsPrefix(q, p)
        BY <3>1, <4>2, PrefixOrder
      <4> QED BY <4>1, <4>2
    <3>3. x # <<>>
      BY <1>0, <3>2, PrefixOrder
    <3>4. PICK r \in Stem : DOMAIN d[r] # {} /\ IsPrefix(x, r)
      BY <2>7, <3>2, <3>3
    <3>5. r \in Path
      BY PathIs
    <3> QED BY <3>2, <3>4, <3>5, PrefixOrder
  <2> QED BY <2>2, <2>3, <2>5, <2>6, <2>8 DEF Holds
<1> QED BY <1>7, <1>8, <1>9, <1>10

\* Where there is no leaf of the stem nothing is held, and nothing goes.
LEMMA DeleteNothing ==
    ASSUME NEW t, Shape(t), NEW c, Holds(t, c), NEW s \in Stem, NEW x,
           LET n == t[Terminal(t, s)] IN ~(n.kind = "leaf" /\ n.stem = s)
    PROVE  [c EXCEPT ![s] = Restrict(c[s], DOMAIN c[s] \ {x})] = c
<1>1. DOMAIN c[s] = {}
  BY NothingHeld
<1>2. IsValues(c[s]) /\ c = [r \in Stem |-> c[r]]
  BY DEF Holds
<1> PICK v : v = Restrict(c[s], DOMAIN c[s] \ {x})
  OBVIOUS
<1>3. v = c[s]
  <2>1. c[s] = [y \in {} |-> c[s][y]]
    BY <1>1, <1>2 DEF IsValues
  <2>2. DOMAIN c[s] \ {x} \in SUBSET DOMAIN c[s]
    OBVIOUS
  <2>3. IsValues(v) /\ DOMAIN v = {}
    <3>1. IsValues(v) /\ DOMAIN v = DOMAIN c[s] \ {x}
      BY <1>2, <2>2, PartValues
    <3> QED BY <1>1, <3>1
  <2>4. v = [y \in {} |-> v[y]]
    BY <2>3 DEF IsValues
  <2> QED BY <2>1, <2>4
<1>4. [c EXCEPT ![s] = v] = c
  BY <1>2, <1>3
<1> QED BY <1>4

\* A deletion keeps the tree and its commitments.
LEMMA DeleteKeeps ==
    ASSUME NEW t, Shape(t), Marks(t), NEW s \in Stem, NEW x, ~DeletePanics(t, <<s, x>>)
    PROVE  LET u == DeleteValue(t, <<s, x>>)
           IN  /\ Shape(u) /\ Marks(u)
               /\ Agrees(t) => Agrees(u)
               /\ \A c : LET d == [c EXCEPT ![s] = Restrict(c[s], DOMAIN c[s] \ {x})]
                         IN  Holds(t, c) => Holds(u, d)
<1> PICK p : p = Terminal(t, s)
  OBVIOUS
<1> PICK n : n = IF t[p].kind = "empty" THEN Len(p) - 1 ELSE Len(p)
  OBVIOUS
<1> PICK m : m = CowChildren(t, s, n)
  OBVIOUS
<1> PICK u : u = DeleteValue(t, <<s, x>>)
  OBVIOUS
<1>0. <<s, x>>[1] = s /\ <<s, x>>[2] = x
  OBVIOUS
<1>1. p \in Path /\ Len(p) \in 1 .. StemSize /\ t[p].kind \in {"empty", "leaf"} /\ s \in Path
      /\ StemSize \in Nat
  <2>1. p \in Path /\ Len(p) \in 1 .. StemSize /\ t[p].kind # "internal"
    BY TerminalIs
  <2> QED BY <2>1, ShapeIs, PathIs
<1>2. n \in Nat /\ n <= Len(Terminal(t, s))
  BY ONLY <1>1, p = Terminal(t, s), n = IF t[p].kind = "empty" THEN Len(p) - 1 ELSE Len(p)
<1>3. /\ Shape(m)
      /\ Marks(t) => Marks(m)
      /\ Agrees(t) => Agrees(m)
      /\ \A c : Holds(t, c) => Holds(m, c)
      /\ Terminal(m, s) = p
  BY <1>2, CowKeeps
<1>4. m[p] = t[p] /\ m = [q \in Path |-> m[q]]
  <2>1. m[p] = t[p]
    BY <1>1, <1>2, CowIs
  <2> QED BY <2>1 DEF CowChildren
<1>5. u = IF t[p].kind = "empty" \/ t[p].stem # s THEN m
          ELSE IF DOMAIN t[p].values \subseteq {x} THEN RemoveNode(m, p)
               ELSE [m EXCEPT ![p] = DeleteFromLeaf(m[p], x)]
  BY <1>0 DEF DeleteValue
<1>6. CASE t[p].kind = "empty" \/ t[p].stem # s
  <2>1. u = m
    BY <1>5, <1>6
  <2>2. ~(t[p].kind = "leaf" /\ t[p].stem = s)
    BY <1>6
  <2>3. ASSUME NEW c, Holds(t, c)
        PROVE  [c EXCEPT ![s] = Restrict(c[s], DOMAIN c[s] \ {x})] = c
    <3>1. ~(t[Terminal(t, s)].kind = "leaf" /\ t[Terminal(t, s)].stem = s)
      BY <2>2
    <3> QED BY ONLY SMTT(30), <2>3, <3>1, Shape(t), s \in Stem, DeleteNothing
  <2> QED BY <1>3, <2>1, <2>3
<1>7. CASE t[p].kind = "leaf" /\ t[p].stem = s /\ DOMAIN t[p].values \subseteq {x}
  <2>1. u = RemoveNode(m, p) /\ n = Len(p)
    BY <1>5, <1>7
  <2>2. WayMarked(m, p)
    BY <2>1, WayNotes
  <2>3. m[p].kind = "leaf" /\ m[p].stem = s /\ p = Terminal(m, s)
    BY <1>3, <1>4, <1>7
  <2>4. /\ Shape(u) /\ (Marks(m) => Marks(u)) /\ (Agrees(m) => Agrees(u))
        /\ \A c, v : LET d == [c EXCEPT ![s] = v]
                     IN  Holds(m, c) /\ IsValues(v) /\ DOMAIN v = {} => Holds(u, d)
    <3>1. Shape(m)
      BY <1>3
    <3> QED BY ONLY <2>1, <2>2, <2>3, <3>1, s \in Stem, RemoveKeeps
  <2>5. ASSUME NEW c, Holds(t, c)
        PROVE  LET d == [c EXCEPT ![s] = Restrict(c[s], DOMAIN c[s] \ {x})] IN Holds(u, d)
    <3> PICK v : v = Restrict(c[s], DOMAIN c[s] \ {x})
      OBVIOUS
    <3>1. c[s] = t[p].values /\ IsValues(c[s])
      <4>1. c[s] = t[p].values
        BY <1>1, <1>7, <2>5, HoldsLeaf
      <4> QED BY <2>5, <4>1 DEF Holds
    <3>2. DOMAIN c[s] \ {x} \in SUBSET DOMAIN c[s] /\ DOMAIN c[s] \ {x} = {}
      BY <1>7, <3>1
    <3>3. IsValues(v) /\ DOMAIN v = {}
      <4>1. IsValues(v) /\ DOMAIN v = DOMAIN c[s] \ {x}
        BY <3>1, <3>2, PartValues
      <4> QED BY <3>2, <4>1
    <3> QED BY <1>3, <2>4, <2>5, <3>3
  <2> QED BY <1>3, <2>4, <2>5
<1>8. CASE t[p].kind = "leaf" /\ t[p].stem = s /\ ~(DOMAIN t[p].values \subseteq {x})
  <2> PICK leaf : leaf = DeleteFromLeaf(m[p], x)
    OBVIOUS
  <2>1. n = Len(p) /\ u = [m EXCEPT ![p] = leaf]
    BY <1>5, <1>8
  <2>2. Noted(m, p)
    <3>1. WayMarked(m, p)
      BY <2>1, WayNotes
    <3> QED BY <1>1, <3>1, MarkedIsNoted
  <2>3. t[p].c[Half(x)] # Nil /\ IsLeaf(t[p])
    BY <1>0, <1>1, <1>8, ShapeIs DEF DeletePanics
  <2>4. /\ IsLeaf(leaf) /\ leaf.kind = "leaf" /\ leaf.stem = s
        /\ leaf.values = Restrict(t[p].values, DOMAIN t[p].values \ {x})
    <3>1. ~(DOMAIN t[p].values \subseteq {x}) /\ leaf = DeleteFromLeaf(t[p], x)
      BY <1>4, <1>8
    <3> QED BY ONLY <1>8, <2>3, <3>1, DeleteIs
  <2>5. u = [q \in Path |-> u[q]] /\ u[p] = leaf /\ \A q \in Path : q # p => u[q] = m[q]
    BY ONLY <1>1, <1>4, <2>1
  <2>6. p = Terminal(m, s) /\ m[p].stem = s
    BY <1>3, <1>4, <1>8
  <2>7. /\ Shape(u) /\ (Marks(m) => Marks(u)) /\ (Agrees(m) => Agrees(u))
        /\ \A c : LET d == [c EXCEPT ![s] = leaf.values] IN Holds(m, c) => Holds(u, d)
    <3>1. Shape(m) /\ s \in Stem /\ IsLeaf(leaf) /\ leaf.kind = "leaf" /\ leaf.stem = s
          /\ Noted(m, p)
      BY <1>3, <2>2, <2>4
    <3>2. /\ Shape(u) /\ (Marks(m) => Marks(u)) /\ (Agrees(m) => Agrees(u))
          /\ \A c : LET d == [c EXCEPT ![s] = leaf.values]
                    IN  /\ Holds(m, c) => Holds(u, d)
                        /\ Canonical(m, c) /\ c = [r \in Stem |-> c[r]]
                           /\ leaf.c = Halves(leaf.values) => Canonical(u, d)
      BY ONLY <2>5, <2>6, <3>1, SetLeaf
    <3> QED BY ONLY <3>2
  <2>8. ASSUME NEW c, Holds(t, c) PROVE c[s] = t[p].values
    BY <1>1, <1>8, <2>8, HoldsLeaf
  <2>9. ASSUME NEW c, Holds(t, c)
        PROVE  LET d == [c EXCEPT ![s] = Restrict(c[s], DOMAIN c[s] \ {x})] IN Holds(u, d)
    BY <1>3, <2>4, <2>7, <2>8, <2>9
  <2> QED BY <1>3, <2>7, <2>9
<1> QED BY <1>1, <1>6, <1>7, <1>8

-----------------------------------------------------------------------------
(* Commit.                                                                 *)

\* A level of the commit, and the levels from the deepest one up.
CommitLevel(t, u, depth) ==
    [p \in Path |-> IF p \in FillLevels(t) /\ Len(p) = depth THEN CommitNode(u, p) ELSE u[p]]

CommittingFrom(t, d, g) ==
    g = [depth \in d .. StemSize |->
            IF depth = StemSize THEN t ELSE CommitLevel(t, g[depth + 1], depth)]

Committing(t, g) ==
    g = [depth \in 0 .. StemSize |->
            IF depth = StemSize THEN t ELSE CommitLevel(t, g[depth + 1], depth)]

LEMMA CommittingExists ==
    ASSUME NEW t
    PROVE  \E g : Committing(t, g)
<1>0. StemSize \in Nat
  BY PathIs
<1> DEFINE B == {m \in Nat : m <= StemSize /\ ~ \E g : CommittingFrom(t, StemSize - m, g)}
<1>1. ASSUME B # {} PROVE FALSE
  <2>1. PICK m \in B : \A k \in B : m <= k
    <3>1. B \subseteq Nat
      OBVIOUS
    <3> HIDE DEF B
    <3> QED BY <1>1, <3>1, SmallestNat
  <2>2. m \in Nat /\ m <= StemSize /\ ~ \E g : CommittingFrom(t, StemSize - m, g)
    BY <2>1
  <2> PICK d : d = StemSize - m
    OBVIOUS
  <2>3. CASE m = 0
    <3> DEFINE g == [k \in d .. StemSize |-> t]
    <3>1. \A k \in d .. StemSize : k = StemSize
      BY ONLY <1>0, <2>3, d = StemSize - m
    <3>2. CommittingFrom(t, d, g)
      BY <3>1 DEF CommittingFrom
    <3> HIDE DEF g
    <3> QED BY <2>2, <3>2
  <2>4. CASE m # 0
    <3> PICK e : e = d + 1
      OBVIOUS
    <3>1. m - 1 \in Nat /\ ~(m <= m - 1) /\ m - 1 <= StemSize /\ e = StemSize - (m - 1)
      BY ONLY <1>0, <2>2, <2>4, d = StemSize - m, e = d + 1
    <3>2. PICK h : CommittingFrom(t, e, h)
      <4>1. m - 1 \notin B
        <5> HIDE DEF B
        <5> QED BY <2>1, <3>1
      <4> QED BY <3>1, <4>1
    <3> DEFINE g == [k \in d .. StemSize |-> IF k = d THEN CommitLevel(t, h[e], d) ELSE h[k]]
    <3>3. ASSUME NEW k \in d .. StemSize
          PROVE  g[k] = IF k = StemSize THEN t ELSE CommitLevel(t, g[k + 1], k)
      <4>1. d \in Nat /\ d # StemSize /\ e \in d .. StemSize /\ e # d /\ d \in d .. StemSize
        BY ONLY <1>0, <2>2, <2>4, d = StemSize - m, e = d + 1
      <4>2. CASE k = d
        <5>1. g[d] = CommitLevel(t, h[e], d) /\ g[e] = h[e]
          BY <4>1
        <5> QED BY <4>1, <4>2, <5>1
      <4>3. CASE k # d
        <5>1. k \in e .. StemSize
              /\ (k # StemSize => k + 1 \in d .. StemSize /\ k + 1 # d)
          BY ONLY <1>0, <4>1, <4>3, e = d + 1, k \in d .. StemSize
        <5>2. h[k] = IF k = StemSize THEN t ELSE CommitLevel(t, h[k + 1], k)
          BY <3>2, <5>1 DEF CommittingFrom
        <5>3. g[k] = h[k] /\ (k # StemSize => g[k + 1] = h[k + 1])
          BY <4>3, <5>1
        <5> QED BY <5>2, <5>3
      <4> QED BY <4>2, <4>3
    <3>4. CommittingFrom(t, d, g)
      <4>1. g = [k \in d .. StemSize |-> g[k]]
        OBVIOUS
      <4> HIDE DEF g
      <4> QED BY <3>3, <4>1 DEF CommittingFrom
    <3> HIDE DEF g
    <3> QED BY <2>2, <3>4
  <2> QED BY <2>3, <2>4
<1>2. \E g : CommittingFrom(t, StemSize - StemSize, g)
  <2>1. StemSize \in Nat /\ StemSize <= StemSize
    BY <1>0
  <2> QED BY <1>1, <2>1
<1>3. StemSize - StemSize = 0
  BY ONLY <1>0
<1> QED BY <1>2, <1>3 DEF CommittingFrom, Committing

\* The nodes of the levels from d down are committed, with the nodes below them.
CommittedNode(t, u, p) ==
    Internal([w \in Word |->
                 IF w \in DOMAIN t[p].cow
                 THEN Updated(t[p].comm[w], t[p].cow[w], Commitment(u[Append(p, w)]))
                 ELSE t[p].comm[w]], <<>>)

Committed(t, d, u) ==
    /\ u = [p \in Path |-> u[p]]
    /\ \A p \in Path : u[p] = IF p \in FillLevels(t) /\ d <= Len(p) THEN CommittedNode(t, u, p)
                              ELSE t[p]

LEMMA CommitLevelIs ==
    ASSUME NEW t, Shape(t), NEW d \in Nat, NEW u, Committed(t, d + 1, u)
    PROVE  Committed(t, d, CommitLevel(t, u, d))
<1> PICK v : v = CommitLevel(t, u, d)
  OBVIOUS
<1>1. v = [p \in Path |-> v[p]]
      /\ \A p \in Path : v[p] = IF p \in FillLevels(t) /\ Len(p) = d THEN CommitNode(u, p) ELSE u[p]
  BY DEF CommitLevel
<1>2. ASSUME NEW p \in Path, p \in FillLevels(t), NEW w \in Word, d <= Len(p)
      PROVE  v[Append(p, w)] = u[Append(p, w)]
  <2>1. Append(p, w) \in Path /\ Len(Append(p, w)) = Len(p) + 1 /\ Len(p) \in Nat
    BY <1>2, ShapeIs, ChildIs, PathIs DEF FillLevels
  <2>2. Len(Append(p, w)) # d
    BY ONLY <1>2, <2>1, d \in Nat
  <2> QED BY <1>1, <2>1, <2>2
<1>3. ASSUME NEW p \in Path, p \in FillLevels(t), d <= Len(p)
      PROVE  CommittedNode(t, v, p) = CommittedNode(t, u, p)
  BY <1>2, <1>3 DEF CommittedNode
<1>4. ASSUME NEW p \in Path, p \in FillLevels(t), Len(p) = d
      PROVE  CommitNode(u, p) = CommittedNode(t, u, p)
  <2>1. ~(d + 1 <= Len(p)) /\ t[p].kind = "internal"
    <3>1. ~(d + 1 <= Len(p))
      BY ONLY <1>4, d \in Nat
    <3> QED BY <1>4, <3>1 DEF FillLevels
  <2>2. u[p] = t[p] /\ IsInternal(t[p])
    BY <2>1, ShapeIs DEF Committed
  <2>3. t[p] = Internal(t[p].comm, t[p].cow)
    BY <2>2 DEF IsInternal
  <2> PICK a, b : a = t[p].comm /\ b = t[p].cow
    OBVIOUS
  <2>4. u[p] = [kind |-> "internal", comm |-> a, cow |-> b]
    BY <2>2, <2>3 DEF Internal
  <2>5. CommitNode(u, p)
            = [kind |-> "internal",
               comm |-> [w \in Word |-> IF w \in DOMAIN b
                             THEN Updated(a[w], b[w], Commitment(u[Append(p, w)]))
                             ELSE a[w]],
               cow |-> <<>>]
    <3> PICK n, f : /\ n = u[p]
                    /\ f = [w \in Word |-> IF w \in DOMAIN n.cow
                              THEN Updated(n.comm[w], n.cow[w], Commitment(u[Append(p, w)]))
                              ELSE n.comm[w]]
      OBVIOUS
    <3> PICK x, e : x = CommitNode(u, p) /\ e = <<>>
      OBVIOUS
    <3>1. x = [n EXCEPT !.cow = e, !.comm = f]
      BY DEF CommitNode
    <3>2. n = [kind |-> "internal", comm |-> a, cow |-> b]
      BY <2>4
    <3>3. x = [kind |-> "internal", comm |-> f, cow |-> e]
      BY ONLY <3>1, <3>2
    <3>4. f = [w \in Word |-> IF w \in DOMAIN b
                 THEN Updated(a[w], b[w], Commitment(u[Append(p, w)])) ELSE a[w]]
      BY ONLY <3>2, f = [w \in Word |-> IF w \in DOMAIN n.cow
                              THEN Updated(n.comm[w], n.cow[w], Commitment(u[Append(p, w)]))
                              ELSE n.comm[w]]
    <3> QED BY ONLY <3>3, <3>4, x = CommitNode(u, p) /\ e = <<>>
  <2> QED BY <2>5 DEF CommittedNode, Internal
<1>5. ASSUME NEW p \in Path
      PROVE  v[p] = IF p \in FillLevels(t) /\ d <= Len(p) THEN CommittedNode(t, v, p) ELSE t[p]
  <2>1. Len(p) \in Nat
    BY PathIs
  <2>2. (d <= Len(p) <=> Len(p) = d \/ d + 1 <= Len(p)) /\ ~(Len(p) = d /\ d + 1 <= Len(p))
    BY ONLY <2>1, d \in Nat
  <2>3. u[p] = IF p \in FillLevels(t) /\ d + 1 <= Len(p) THEN CommittedNode(t, u, p) ELSE t[p]
    BY DEF Committed
  <2> QED BY <1>1, <1>3, <1>4, <2>2, <2>3
<1>6. Committed(t, d, v)
  BY ONLY <1>1, <1>5 DEF Committed
<1> QED BY <1>6

LEMMA CommitTreeIs ==
    ASSUME NEW t, Shape(t)
    PROVE  Committed(t, 0, CommitTree(t))
<1>0. StemSize \in Nat
  BY PathIs
<1>1. PICK g : g = CHOOSE x : Committing(t, x)
  OBVIOUS
<1>2. Committing(t, g)
  BY <1>1, CommittingExists
<1>3. CommitTree(t) = g[0]
  BY <1>1 DEF CommitTree, Committing, CommitLevel
<1>4. \A d \in 0 .. StemSize : g[d] = IF d = StemSize THEN t ELSE CommitLevel(t, g[d + 1], d)
  BY <1>2 DEF Committing
<1> DEFINE B == {m \in Nat : m <= StemSize /\ ~Committed(t, StemSize - m, g[StemSize - m])}
<1>5. ASSUME B # {} PROVE FALSE
  <2>1. PICK m \in B : \A k \in B : m <= k
    <3>1. B \subseteq Nat
      OBVIOUS
    <3> HIDE DEF B
    <3> QED BY <1>5, <3>1, SmallestNat
  <2> PICK d : d = StemSize - m
    OBVIOUS
  <2>2. m \in Nat /\ m <= StemSize /\ ~Committed(t, d, g[d])
    BY <2>1
  <2>3. d \in 0 .. StemSize /\ (d = StemSize <=> m = 0) /\ d \in Nat
    BY ONLY <1>0, <2>2, d = StemSize - m
  <2>4. CASE m = 0
    <3>1. g[d] = t /\ d = StemSize
      BY <1>4, <2>3, <2>4
    <3>2. t = [p \in Path |-> t[p]]
      BY DEF Shape
    <3>3. ASSUME NEW p \in Path, p \in FillLevels(t), d <= Len(p) PROVE FALSE
      <4>1. Len(p) < StemSize /\ Len(p) \in Nat
        BY <3>3, ShapeIs, PathIs DEF FillLevels
      <4> QED BY ONLY <1>0, <3>1, <3>3, <4>1
    <3>4. Committed(t, d, t)
      BY <3>2, <3>3 DEF Committed
    <3> QED BY <2>2, <3>1, <3>4
  <2>5. CASE m # 0
    <3>1. m - 1 \in Nat /\ ~(m <= m - 1) /\ m - 1 <= StemSize /\ d + 1 = StemSize - (m - 1)
      BY ONLY <1>0, <2>2, <2>5, d = StemSize - m
    <3>2. m - 1 \notin B
      <4> HIDE DEF B
      <4> QED BY <2>1, <3>1
    <3>3. Committed(t, d + 1, g[d + 1])
      BY <3>1, <3>2
    <3>4. g[d] = CommitLevel(t, g[d + 1], d)
      BY <1>4, <2>3, <2>5
    <3>5. Committed(t, d, CommitLevel(t, g[d + 1], d))
      <4> PICK u : u = g[d + 1]
        OBVIOUS
      <4>1. Committed(t, d + 1, u)
        BY <3>3
      <4>2. Committed(t, d, CommitLevel(t, u, d))
        BY ONLY <2>3, <4>1, Shape(t), CommitLevelIs
      <4> QED BY <4>2
    <3> QED BY <2>2, <3>4, <3>5
  <2> QED BY <2>4, <2>5
<1>6. Committed(t, StemSize - StemSize, g[StemSize - StemSize])
  <2>1. StemSize \in Nat /\ StemSize <= StemSize
    BY <1>0
  <2> QED BY <1>5, <2>1
<1>7. StemSize - StemSize = 0
  BY ONLY <1>0
<1> QED BY <1>3, <1>6, <1>7

\* A node is committed if it has touched children.
LEMMA FilledIs ==
    ASSUME NEW t, Shape(t), Marks(t), NEW p \in Path
    PROVE  p \in FillLevels(t) <=> t[p].kind = "internal" /\ DOMAIN t[p].cow # {}
<1>1. t[p].kind = "internal" => (t[p].cow # <<>> <=> DOMAIN t[p].cow # {})
  BY ShapeIs, NoCow
<1>2. ASSUME t[p].kind = "internal", DOMAIN t[p].cow # {}, NEW n \in 0 .. Len(p) - 1
      PROVE  p[n + 1] \in DOMAIN t[Prefix(p, n)].cow
  <2>1. Len(p) \in Nat
    BY PathIs
  <2>2. n \in 0 .. Len(p) /\ n # Len(p)
    BY ONLY <2>1, n \in 0 .. Len(p) - 1
  <2>3. Prefix(p, n) \in Path /\ Len(Prefix(p, n)) = n /\ IsPrefix(Prefix(p, n), p)
    BY <2>2, PrefixTo
  <2>4. IsStrictPrefix(Prefix(p, n), p)
    BY <2>2, <2>3 DEF IsStrictPrefix
  <2> QED BY <1>2, <2>3, <2>4 DEF Marks
<1> QED BY <1>1, <1>2 DEF FillLevels

\* A commit keeps the tree and its commitments, and nothing is touched after it.
LEMMA CommitKeeps ==
    ASSUME NEW t, Shape(t), Marks(t)
    PROVE  LET u == CommitTree(t)
           IN  /\ Shape(u) /\ Marks(u)
               /\ Agrees(t) => Agrees(u)
               /\ \A c : /\ Holds(t, c) => Holds(u, c)
                         /\ Canonical(t, c) => Canonical(u, c)
               /\ \A p \in Path : u[p].kind = "internal" => u[p].cow = <<>>
<1> PICK u : u = CommitTree(t)
  OBVIOUS
<1>1. u = [p \in Path |-> u[p]]
      /\ \A p \in Path : u[p] = IF p \in FillLevels(t) THEN CommittedNode(t, u, p) ELSE t[p]
  <2>1. \A p \in Path : 0 <= Len(p)
    <3>1. \A p \in Path : Len(p) \in Nat
      BY PathIs
    <3> QED BY ONLY <3>1
  <2> QED BY <2>1, CommitTreeIs DEF Committed
<1>2. ASSUME NEW p \in Path, t[p].kind = "internal"
      PROVE  /\ u[p].kind = "internal" /\ IsInternal(u[p]) /\ DOMAIN u[p].cow = {}
             /\ \A w \in Word : u[p].comm[w] =
                    IF w \in DOMAIN t[p].cow
                    THEN Updated(t[p].comm[w], t[p].cow[w], Commitment(u[Append(p, w)]))
                    ELSE t[p].comm[w]
  <2>1. CASE p \in FillLevels(t)
    <3> DEFINE comm == [w \in Word |->
                 IF w \in DOMAIN t[p].cow
                 THEN Updated(t[p].comm[w], t[p].cow[w], Commitment(u[Append(p, w)]))
                 ELSE t[p].comm[w]]
    <3> PICK cow : cow = <<>>
      OBVIOUS
    <3>1. u[p] = Internal(comm, cow)
      BY <1>1, <2>1 DEF CommittedNode
    <3>2. cow = [w \in DOMAIN cow |-> cow[w]] /\ DOMAIN cow = {}
      OBVIOUS
    <3>3. comm = [w \in Word |-> comm[w]]
      OBVIOUS
    <3>4. \A w \in Word : comm[w] =
                    IF w \in DOMAIN t[p].cow
                    THEN Updated(t[p].comm[w], t[p].cow[w], Commitment(u[Append(p, w)]))
                    ELSE t[p].comm[w]
      OBVIOUS
    <3>5. /\ IsInternal(u[p]) /\ u[p].kind = "internal" /\ u[p].comm = comm /\ u[p].cow = cow
      <4> HIDE DEF comm
      <4>1. DOMAIN cow \subseteq Word
        BY <3>2
      <4> PICK m : m = comm
        OBVIOUS
      <4>2. m = [w \in Word |-> m[w]]
        BY <3>3
      <4>3. u[p] = Internal(m, cow)
        BY <3>1
      <4>4. cow = [w \in DOMAIN cow |-> cow[w]]
        BY <3>2
      <4>5. IsInternal(u[p]) /\ u[p].kind = "internal" /\ u[p].comm = m /\ u[p].cow = cow
        BY ONLY <4>1, <4>2, <4>3, <4>4, InternalIs
      <4> QED BY <4>5
    <3> HIDE DEF comm
    <3> QED BY <3>2, <3>4, <3>5
  <2>2. CASE p \notin FillLevels(t)
    <3>1. u[p] = t[p] /\ DOMAIN t[p].cow = {}
      BY <1>1, <1>2, <2>2, FilledIs
    <3> QED BY <1>2, <3>1, ShapeIs
  <2> QED BY <2>1, <2>2
<1>3. ASSUME NEW p \in Path, t[p].kind # "internal" PROVE u[p] = t[p]
  BY <1>1, <1>3, FilledIs
<1>4. SameKind(t, u)
  BY <1>2, <1>3 DEF SameKind
<1>5. /\ Shape(u)
      /\ \A c : /\ Holds(t, c) => Holds(u, c)
                /\ Canonical(t, c) => Canonical(u, c)
  BY ONLY <1>1, <1>4, Shape(t), SameKinds
<1>6. \A p \in Path : u[p].kind = "internal" => t[p].kind = "internal" /\ DOMAIN u[p].cow = {}
  BY <1>2, <1>3
<1>7. \A p \in Path : u[p].kind = "internal" => u[p].cow = <<>>
  BY <1>2, <1>6, NoCow
<1>8. Marks(u)
  BY <1>6 DEF Marks
<1>9. ASSUME Agrees(t) PROVE Agrees(u)
  <2>1. ASSUME NEW p \in Path, u[p].kind = "internal", NEW w \in Word
        PROVE  u[p].comm[w] = Commitment(u[Append(p, w)])
    <3>1. t[p].kind = "internal"
      BY <1>6, <2>1
    <3>2. Append(p, w) \in Path /\ Len(p) < StemSize
      BY <3>1, ShapeIs, ChildIs
    <3>3. t[p].comm[w] = IF w \in DOMAIN t[p].cow THEN t[p].cow[w]
                         ELSE Commitment(t[Append(p, w)])
      BY <1>9, <3>1 DEF Agrees
    <3>4. CASE w \in DOMAIN t[p].cow
      BY <1>2, <3>1, <3>3, <3>4 DEF Updated
    <3>5. CASE w \notin DOMAIN t[p].cow
      <4> PICK x : x = Append(p, w)
        OBVIOUS
      <4>1. x \in Path /\ IsPrefix(p, x) /\ p # x /\ x[Len(p) + 1] = w
        BY <3>2, ChildIs
      <4>2. x \notin FillLevels(t)
        <5>1. IsStrictPrefix(p, x)
          BY <4>1 DEF IsStrictPrefix
        <5>2. ~(t[x].kind = "internal" /\ DOMAIN t[x].cow # {})
          BY <3>5, <4>1, <5>1 DEF Marks
        <5> QED BY <4>1, <5>2, FilledIs
      <4>3. u[x] = t[x]
        BY <1>1, <4>1, <4>2
      <4> QED BY <1>2, <3>1, <3>3, <3>5, <4>3
    <3> QED BY <3>4, <3>5
  <2> QED BY <1>6, <2>1 DEF Agrees
<1> QED BY <1>5, <1>7, <1>8, <1>9

-----------------------------------------------------------------------------
(* The invariant holds.                                                    *)

LEMMA EmptyTreeInv ==
    ASSUME NEW c, c = [s \in Stem |-> <<>>]
    PROVE  /\ Shape(EmptyTree) /\ Marks(EmptyTree) /\ Agrees(EmptyTree)
           /\ Holds(EmptyTree, c) /\ Canonical(EmptyTree, c)
<1> PICK t : t = EmptyTree
  OBVIOUS
<1> PICK cow : cow = <<>>
  OBVIOUS
<1> PICK root : root = Internal(NoChildren, cow)
  OBVIOUS
<1>1. <<>> \in Path /\ StemSize \in Nat /\ StemSize # 0 /\ Len(<<>>) = 0
  BY PathIs
<1>2. /\ t = [p \in Path |-> t[p]] /\ t[<<>>] = root
      /\ \A p \in Path : p # <<>> => t[p] = EmptyNode
  BY <1>1 DEF EmptyTree
<1>3. DOMAIN cow = {} /\ cow = [w \in DOMAIN cow |-> cow[w]]
  OBVIOUS
<1>4. NoChildren = [w \in Word |-> NoChildren[w]]
  BY DEF NoChildren
<1>5. IsInternal(root) /\ root.kind = "internal" /\ root.comm = NoChildren /\ root.cow = cow
  <2> PICK a : a = NoChildren
    OBVIOUS
  <2>1. a = [w \in Word |-> a[w]] /\ DOMAIN cow \subseteq Word /\ root = Internal(a, cow)
    BY <1>3, <1>4
  <2>2. IsInternal(root) /\ root.kind = "internal" /\ root.comm = a /\ root.cow = cow
    BY ONLY <1>3, <2>1, InternalIs
  <2> QED BY <2>2
<1>6. EmptyNode.kind = "empty"
  BY EmptyIs
<1>7. \A p \in Path : t[p].kind = "internal" => p = <<>> /\ t[p] = root
  BY <1>2, <1>6
<1>8. \A p \in Path : t[p].kind # "leaf"
  BY <1>2, <1>5, <1>6
<1>9. Shape(t)
  <2>1. \A p \in Path : IsNode(t[p])
    BY <1>2, <1>5, <1>6 DEF IsNode
  <2>2. ASSUME NEW p \in Path, NEW q \in Path, IsStrictPrefix(q, p), t[p].kind # "empty"
        PROVE  t[q].kind = "internal"
    <3>1. p = <<>>
      BY <1>2, <1>6, <2>2
    <3>2. Len(q) < Len(p) /\ Len(q) \in Nat
      BY <2>2, NextStep, PathIs DEF IsStrictPrefix
    <3> QED BY <1>1, <3>1, <3>2
  <2>3. \A p \in Path : t[p].kind = "internal" => Len(p) < StemSize
    <3>1. Len(<<>>) < StemSize
      BY ONLY <1>1
    <3> QED BY <1>7, <3>1
  <2> QED BY <1>2, <1>5, <1>8, <2>1, <2>2, <2>3 DEF Shape
<1>10. Marks(t)
  BY <1>3, <1>5, <1>7 DEF Marks
<1>11. Agrees(t)
  <2>1. ASSUME NEW p \in Path, t[p].kind = "internal", NEW w \in Word
        PROVE  t[p].comm[w] = IF w \in DOMAIN t[p].cow THEN t[p].cow[w]
                              ELSE Commitment(t[Append(p, w)])
    <3>1. p = <<>> /\ t[p] = root
      BY <1>7, <2>1
    <3>2. w \notin DOMAIN t[p].cow /\ t[p].comm[w] = Identity
      BY <1>3, <1>5, <3>1 DEF NoChildren
    <3>3. Len(p) < StemSize
      BY ONLY <1>1, <3>1
    <3>4. Append(p, w) \in Path /\ Len(Append(p, w)) = Len(p) + 1
      BY <3>3, ChildIs
    <3>5. Append(p, w) # <<>>
      BY ONLY <1>1, <3>1, <3>4
    <3>6. Commitment(t[Append(p, w)]) = Identity
      BY <1>2, <3>4, <3>5, CommitmentIs
    <3> QED BY <3>2, <3>6
  <2> QED BY <2>1 DEF Agrees
<1>12. Holds(t, c)
  <2>1. \A s \in Stem : IsValues(c[s]) /\ DOMAIN c[s] = {}
    <3>1. \A s \in Stem : c[s] = cow
      OBVIOUS
    <3> QED BY <1>3, <3>1 DEF IsValues
  <2>2. c = [s \in Stem |-> c[s]]
    OBVIOUS
  <2> QED BY ONLY <1>7, <1>8, <2>1, <2>2 DEF Holds
<1>13. Canonical(t, c)
  BY <1>7, <1>8 DEF Canonical
<1> QED BY <1>9, <1>10, <1>11, <1>12, <1>13

\* Where nothing was deleted every half has its commitment.
LEMMA CanonicalHasHalves ==
    ASSUME NEW t, NEW c, Canonical(t, c), NEW s, NEW v
    PROVE  ~Panics(t, s, v)
<1>1. ASSUME NEW p \in Path, t[p].kind = "leaf", NEW x PROVE t[p].c[Half(x)] # Nil
  <2>1. t[p].c = Halves(t[p].values)
    BY <1>1 DEF Canonical
  <2> QED BY <2>1, HalfIs, HalvesIs, HalfOfIs
<1> QED BY <1>1 DEF Panics

LEMMA InsertInv == TreeInv /\ Insert => TreeInv'
<1> SUFFICES ASSUME TreeInv, Insert PROVE TreeInv'
  OBVIOUS
<1>0. /\ Shape(tree) /\ Holds(tree, content) /\ Marks(tree)
      /\ deleted \in BOOLEAN /\ unmarked \in BOOLEAN /\ panicked \in BOOLEAN
      /\ ~unmarked => Agrees(tree)
      /\ ~deleted => Canonical(tree, content) /\ ~panicked
  BY DEF TreeInv
<1>1. PICK write \in Writes :
          /\ ~panicked /\ deleted' = deleted /\ unmarked' = unmarked
          /\ IF Panics(tree, write[1], write[2])
             THEN panicked' = TRUE /\ tree' = tree /\ content' = content
             ELSE /\ tree' = InsertValuesAtStem(tree, write[1], write[2])
                  /\ content' = [content EXCEPT ![write[1]] = Over(write[2], content[write[1]])]
                  /\ panicked' = panicked
  BY DEF Insert
<1> PICK s, v : s = write[1] /\ v = write[2]
  OBVIOUS
<1>2. s \in Stem /\ IsValues(v) /\ DOMAIN v # {}
  <2>1. IsWrite(write)
    BY VerkleAssumption
  <2> QED BY <2>1 DEF IsWrite, IsValues
<1>3. CASE Panics(tree, s, v)
  <2>1. panicked' = TRUE /\ tree' = tree /\ content' = content /\ deleted' = deleted
        /\ unmarked' = unmarked
    BY <1>1, <1>3
  <2>2. deleted
    BY <1>0, <1>3, CanonicalHasHalves
  <2> QED BY <1>0, <2>1, <2>2 DEF TreeInv
<1>4. CASE ~Panics(tree, s, v)
  <2>1. /\ tree' = InsertValuesAtStem(tree, s, v)
        /\ content' = [content EXCEPT ![s] = Over(v, content[s])]
        /\ panicked' = panicked /\ deleted' = deleted /\ unmarked' = unmarked
    BY <1>1, <1>4
  <2>2. /\ Shape(tree') /\ Marks(tree')
        /\ Agrees(tree) => Agrees(tree')
        /\ Holds(tree', content')
        /\ Canonical(tree, content) => Canonical(tree', content')
    BY <1>0, <1>2, <1>4, <2>1, InsertKeeps
  <2> QED BY <1>0, <2>1, <2>2 DEF TreeInv
<1> QED BY <1>3, <1>4

LEMMA MigrateInv == TreeInv /\ Migrate => TreeInv'
<1> SUFFICES ASSUME TreeInv, Migrate PROVE TreeInv'
  OBVIOUS
<1>0. /\ Shape(tree) /\ Holds(tree, content) /\ Marks(tree)
      /\ deleted \in BOOLEAN /\ unmarked \in BOOLEAN /\ panicked \in BOOLEAN
      /\ ~unmarked => Agrees(tree)
      /\ ~deleted => Canonical(tree, content) /\ ~panicked
  BY DEF TreeInv
<1>1. PICK leaves \in Migrations :
          /\ ~panicked /\ deleted' = deleted
          /\ IF \E k \in DOMAIN leaves : Panics(tree, leaves[k][1], leaves[k][2])
             THEN panicked' = TRUE /\ tree' = tree /\ content' = content /\ unmarked' = unmarked
             ELSE /\ tree' = InsertMigratedLeaves(tree, leaves)
                  /\ content' = ContentMigrated(content, leaves)
                  /\ unmarked' = (unmarked \/ Unmarks(tree, leaves))
                  /\ panicked' = panicked
  BY DEF Migrate
<1>2. Len(leaves) \in Nat /\ DOMAIN leaves = 1 .. Len(leaves)
      /\ \A k \in DOMAIN leaves : IsWrite(leaves[k])
  BY VerkleAssumption
<1>3. CASE \E k \in DOMAIN leaves : Panics(tree, leaves[k][1], leaves[k][2])
  <2>1. panicked' = TRUE /\ tree' = tree /\ content' = content /\ deleted' = deleted
        /\ unmarked' = unmarked
    BY <1>1, <1>3
  <2>2. deleted
    BY <1>0, <1>3, CanonicalHasHalves
  <2> QED BY <1>0, <2>1, <2>2 DEF TreeInv
<1>4. CASE \A k \in DOMAIN leaves : ~Panics(tree, leaves[k][1], leaves[k][2])
  <2>1. /\ tree' = InsertMigratedLeaves(tree, leaves)
        /\ content' = ContentMigrated(content, leaves)
        /\ unmarked' = (unmarked \/ Unmarks(tree, leaves))
        /\ panicked' = panicked /\ deleted' = deleted
    BY <1>1, <1>4
  <2>2. /\ Shape(tree') /\ Marks(tree') /\ Holds(tree', content')
        /\ Agrees(tree) /\ ~Unmarks(tree, leaves) => Agrees(tree')
        /\ Canonical(tree, content) => Canonical(tree', content')
    BY <1>0, <1>2, <1>4, <2>1, MigrateKeeps
  <2>3. unmarked' \in BOOLEAN /\ (~unmarked' => ~unmarked /\ ~Unmarks(tree, leaves))
    BY <2>1
  <2> QED BY <1>0, <2>1, <2>2, <2>3 DEF TreeInv
<1> QED BY <1>3, <1>4

LEMMA DeleteInv == TreeInv /\ Delete => TreeInv'
<1> SUFFICES ASSUME TreeInv, Delete PROVE TreeInv'
  OBVIOUS
<1>0. /\ Shape(tree) /\ Holds(tree, content) /\ Marks(tree)
      /\ deleted \in BOOLEAN /\ unmarked \in BOOLEAN /\ panicked \in BOOLEAN
      /\ ~unmarked => Agrees(tree)
      /\ ~deleted => Canonical(tree, content) /\ ~panicked
  BY DEF TreeInv
<1>1. PICK key \in Keys :
          /\ ~panicked /\ deleted' = TRUE /\ unmarked' = unmarked
          /\ IF DeletePanics(tree, key)
             THEN panicked' = TRUE /\ tree' = tree /\ content' = content
             ELSE /\ tree' = DeleteValue(tree, key)
                  /\ content' = [content EXCEPT ![key[1]] =
                         Restrict(content[key[1]], DOMAIN content[key[1]] \ {key[2]})]
                  /\ panicked' = panicked
  BY DEF Delete
<1> PICK s, x : s = key[1] /\ x = key[2]
  OBVIOUS
<1>2. s \in Stem /\ key = <<s, x>>
  BY VerkleAssumption
<1>3. CASE DeletePanics(tree, key)
  <2>1. panicked' = TRUE /\ tree' = tree /\ content' = content /\ deleted' = TRUE
        /\ unmarked' = unmarked
    BY <1>1, <1>3
  <2> QED BY <1>0, <2>1 DEF TreeInv
<1>4. CASE ~DeletePanics(tree, key)
  <2>1. /\ tree' = DeleteValue(tree, <<s, x>>)
        /\ content' = [content EXCEPT ![s] = Restrict(content[s], DOMAIN content[s] \ {x})]
        /\ panicked' = panicked /\ deleted' = TRUE /\ unmarked' = unmarked
    BY <1>1, <1>2, <1>4
  <2>2. Shape(tree') /\ Marks(tree') /\ (Agrees(tree) => Agrees(tree')) /\ Holds(tree', content')
    BY <1>0, <1>2, <1>4, <2>1, DeleteKeeps
  <2> QED BY <1>0, <2>1, <2>2 DEF TreeInv
<1> QED BY <1>3, <1>4

\* Reached by every sequence of insertions, migrations, deletions and commits.
THEOREM TreeInvariant == VerkleSpec => []TreeInv
<1>1. VerkleInit => TreeInv
  BY EmptyTreeInv DEF VerkleInit, TreeInv
<1>2. ASSUME TreeInv, Commit PROVE TreeInv'
  <2>1. /\ Shape(tree) /\ Holds(tree, content) /\ Marks(tree)
        /\ ~unmarked => Agrees(tree)
        /\ ~deleted => Canonical(tree, content) /\ ~panicked
    BY <1>2 DEF TreeInv
  <2>2. tree' = CommitTree(tree) /\ content' = content /\ deleted' = deleted
        /\ unmarked' = unmarked /\ panicked' = panicked
    BY <1>2 DEF Commit
  <2>3. /\ Shape(tree') /\ Marks(tree') /\ (Agrees(tree) => Agrees(tree'))
        /\ Holds(tree', content')
        /\ Canonical(tree, content) => Canonical(tree', content')
    BY <2>1, <2>2, CommitKeeps
  <2> QED BY <1>2, <2>1, <2>2, <2>3 DEF TreeInv
<1>3. TreeInv /\ UNCHANGED verkleVars => TreeInv'
  BY DEF TreeInv, verkleVars
<1>4. TreeInv /\ [VerkleNext]_verkleVars => TreeInv'
  BY <1>2, <1>3, InsertInv, MigrateInv, DeleteInv DEF VerkleNext
<1> QED BY <1>1, <1>4, PTL DEF VerkleSpec

-----------------------------------------------------------------------------
(* What a tree of this shape answers and commits to.                       *)

\* The tree answers like the dictionary.
LEMMA GetIs ==
    ASSUME NEW t, Shape(t), NEW c, Holds(t, c), NEW s \in Stem, NEW x
    PROVE  Get(t, <<s, x>>) = ValueIn(c[s], x)
<1> PICK n : n = t[Terminal(t, s)]
  OBVIOUS
<1>0. <<s, x>>[1] = s /\ <<s, x>>[2] = x
  OBVIOUS
<1>1. Terminal(t, s) \in Path /\ n.kind # "internal"
  BY TerminalIs
<1>2. n.kind \in {"empty", "leaf"}
  BY <1>1, ShapeIs
<1>3. Get(t, <<s, x>>) = IF n.kind = "leaf" /\ n.stem = s THEN ValueIn(n.values, x) ELSE Absent
  BY <1>0, <1>2 DEF Get
<1>4. CASE n.kind = "leaf" /\ n.stem = s
  BY <1>1, <1>3, <1>4, HoldsLeaf
<1>5. CASE ~(n.kind = "leaf" /\ n.stem = s)
  <2>1. DOMAIN c[s] = {}
    BY <1>5, NothingHeld
  <2> QED BY <1>3, <1>5, <2>1 DEF ValueIn
<1> QED BY <1>4, <1>5

\* No difference is pending: each internal node has the commitments of its children.
Settled(t) ==
    \A p \in Path : t[p].kind = "internal" =>
        t[p].comm = [w \in Word |-> Commitment(t[Append(p, w)])]

LEMMA RootIsSettled ==
    ASSUME NEW t, Shape(t), Marks(t), Agrees(t), t[<<>>].cow = <<>>
    PROVE  Settled(t)
<1>1. DOMAIN t[<<>>].cow = {} /\ t[<<>>].kind = "internal" /\ <<>> \in Path
  BY RootIsInternal, NoCow
<1>2. ASSUME NEW p \in Path, t[p].kind = "internal" PROVE DOMAIN t[p].cow = {}
  <2>1. CASE p = <<>>
    BY <1>1, <2>1
  <2>2. CASE p # <<>>
    <3>1. IsStrictPrefix(<<>>, p)
      BY <2>2, PrefixOrder DEF IsStrictPrefix
    <3> QED BY <1>1, <1>2, <3>1 DEF Marks
  <2> QED BY <2>1, <2>2
<1>3. ASSUME NEW p \in Path, t[p].kind = "internal"
      PROVE  t[p].comm = [w \in Word |-> Commitment(t[Append(p, w)])]
  <2>1. \A w \in Word : t[p].comm[w] = Commitment(t[Append(p, w)])
    BY <1>2, <1>3 DEF Agrees
  <2> PICK comm : comm = t[p].comm
    OBVIOUS
  <2>2. comm = [w \in Word |-> comm[w]]
    BY <1>3, ShapeIs DEF IsInternal
  <2>3. \A w \in Word : comm[w] = Commitment(t[Append(p, w)])
    BY <2>1
  <2>4. comm = [w \in Word |-> Commitment(t[Append(p, w)])]
    BY ONLY <2>2, <2>3
  <2> QED BY <2>4
<1> QED BY <1>3 DEF Settled

\* On the way to a leaf no commitment is the identity,
LEMMA NotIdentity ==
    ASSUME NEW t, Shape(t), Settled(t), NEW e \in Path, t[e].kind = "leaf",
           NEW p \in Path, IsPrefix(p, e)
    PROVE  Commitment(t[p]) # Identity
<1> DEFINE B == {n \in Nat : \E q \in Path : /\ IsPrefix(q, e) /\ Len(e) - Len(q) = n
                                             /\ Commitment(t[q]) = Identity}
<1>1. ASSUME B # {} PROVE FALSE
  <2>1. PICK n \in B : \A k \in B : n <= k
    <3>1. B \subseteq Nat
      OBVIOUS
    <3> HIDE DEF B
    <3> QED BY <1>1, <3>1, SmallestNat
  <2>2. PICK q \in Path : IsPrefix(q, e) /\ Len(e) - Len(q) = n /\ Commitment(t[q]) = Identity
    BY <2>1
  <2>3. CASE q = e
    BY <2>2, <2>3, CommitmentIs
  <2>4. CASE q # e
    <3> PICK w, x : w = e[Len(q) + 1] /\ x = Append(q, w)
      OBVIOUS
    <3>1. Len(q) < Len(e) /\ Len(q) < StemSize /\ w \in Word /\ x \in Path /\ IsPrefix(x, e)
      BY <2>2, <2>4, NextStep
    <3>2. Len(x) = Len(q) + 1
      BY <3>1, ChildIs
    <3>3. Len(e) \in Nat /\ Len(q) \in Nat
      BY PathIs
    <3>4. Len(e) - Len(x) \in Nat /\ ~(n <= Len(e) - Len(x))
      BY ONLY <2>2, <3>1, <3>2, <3>3
    <3>5. Commitment(t[x]) # Identity
      <4>1. Len(e) - Len(x) \notin B
        <5> HIDE DEF B
        <5> QED BY <2>1, <3>4
      <4> QED BY <3>1, <3>4, <4>1
    <3>6. t[q].kind = "internal"
      BY <2>2, <2>4, ShapeIs
    <3>7. t[q].comm[w] # Identity
      BY <3>1, <3>5, <3>6 DEF Settled
    <3>8. t[q].comm # NoChildren
      BY <3>1, <3>7 DEF NoChildren
    <3> QED BY <2>2, <3>6, <3>8, CommitmentIs
  <2> QED BY <2>3, <2>4
<1>2. Len(e) - Len(p) \in Nat
  <2>1. Len(p) <= Len(e) /\ Len(p) \in Nat /\ Len(e) \in Nat
    BY PrefixOrder, PathIs
  <2> QED BY ONLY <2>1
<1> QED BY <1>1, <1>2

\* so that an internal node commits to what its children commit to.
LEMMA InternalCommits ==
    ASSUME NEW t, Shape(t), Settled(t), NEW c, Holds(t, c), NEW p \in Path,
           t[p].kind = "internal", NEW s \in Stem, DOMAIN c[s] # {}, IsPrefix(p, s)
    PROVE  Commitment(t[p]) = [children |-> [w \in Word |-> Commitment(t[Append(p, w)])]]
<1>1. PICK e \in Path : t[e].kind = "leaf" /\ t[e].stem = s
  BY DEF Holds
<1>2. Terminal(t, s) = e /\ IsPrefix(e, s) /\ s \in Path
  BY <1>1, LeafAtTerminal, ShapeIs, PathIs
<1>3. IsPrefix(p, e)
  <2>1. Len(p) \in Nat /\ Len(e) \in Nat
    BY PathIs
  <2>2. CASE Len(p) <= Len(e)
    BY <1>2, <2>2, PrefixOrder
  <2>3. CASE Len(e) <= Len(p)
    <3>1. IsPrefix(e, p)
      BY <1>2, <2>3, PrefixOrder
    <3>2. t[e].kind # "internal" /\ t[p].kind # "empty"
      BY <1>1
    <3>3. p = e
      BY <3>1, <3>2, OneOnWay
    <3> QED BY <1>1, <3>3
  <2>4. Len(p) <= Len(e) \/ Len(e) <= Len(p)
    BY ONLY <2>1
  <2> QED BY <2>2, <2>3, <2>4
<1>4. Commitment(t[p]) # Identity
  BY <1>1, <1>3, NotIdentity
<1>5. Commitment(t[p]) = [children |-> t[p].comm]
  BY <1>4, CommitmentIs
<1> QED BY <1>5 DEF Settled

LEMMA HeldStem ==
    ASSUME NEW t, NEW c, Holds(t, c), NEW s \in Stem
    PROVE  c[s] # <<>> <=> DOMAIN c[s] # {}
<1> PICK v, e : v = c[s] /\ e = <<>>
  OBVIOUS
<1>1. v = [x \in DOMAIN v |-> v[x]]
  BY DEF Holds, IsValues
<1>2. DOMAIN e = {} /\ e = [x \in {} |-> e[x]]
  OBVIOUS
<1>3. DOMAIN v = {} => v = e
  BY ONLY <1>1, <1>2
<1> QED BY <1>2, <1>3

\* A recursion down the paths has one solution: two of them agree from the longest
\* paths up.
LEMMA LongestFirst ==
    ASSUME NEW P, P \subseteq Path, P # {}
    PROVE  \E p \in P : \A q \in P : Len(q) <= Len(p)
<1>0. StemSize \in Nat /\ \A q \in Path : Len(q) \in Nat /\ Len(q) <= StemSize
  <2>1. StemSize \in Nat /\ \A q \in Path : Len(q) \in Nat /\ Len(q) \in 0 .. StemSize
    BY PathIs
  <2> QED BY ONLY <2>1
<1> DEFINE B == {n \in Nat : \E q \in P : StemSize - Len(q) = n}
<1>1. PICK n \in B : \A k \in B : n <= k
  <2>1. B \subseteq Nat /\ B # {}
    <3>1. PICK q \in P : TRUE
      OBVIOUS
    <3>2. Len(q) \in Nat /\ Len(q) <= StemSize
      BY <1>0
    <3>3. StemSize - Len(q) \in Nat
      BY ONLY <1>0, <3>2
    <3> QED BY <3>3
  <2> HIDE DEF B
  <2> QED BY <2>1, SmallestNat
<1>2. PICK p \in P : StemSize - Len(p) = n
  OBVIOUS
<1>3. ASSUME NEW q \in P PROVE Len(q) <= Len(p)
  <2>1. Len(q) \in Nat /\ Len(q) <= StemSize /\ Len(p) \in Nat /\ Len(p) <= StemSize
    BY <1>0
  <2>2. StemSize - Len(q) \in Nat
    BY ONLY <1>0, <2>1
  <2>3. n <= StemSize - Len(q)
    BY <1>1, <2>2
  <2> QED BY ONLY <1>0, <1>2, <2>1, <2>3
<1> QED BY <1>3

\* What the shape of the tree stands for is what its root commits to.
Recomputing(t, g) ==
    g = [q \in Path |->
            IF t[q].kind = "leaf" THEN LeafWith(t[q].stem, t[q].values)
            ELSE IF t[q].kind = "internal" THEN ChildrenOf(g, q) ELSE Identity]

\* The same, point by point.
RecomputedAt(t, g, q) ==
    /\ t[q].kind = "leaf" => g[q] = [stem |-> t[q].stem, c |-> Halves(t[q].values)]
    /\ t[q].kind = "internal" => g[q] = ChildrenOf(g, q)
    /\ t[q].kind = "empty" => g[q] = Identity

LEMMA RecomputingIs ==
    ASSUME NEW t, Shape(t), NEW g
    PROVE  Recomputing(t, g) <=>
               g = [q \in Path |-> g[q]] /\ \A q \in Path : RecomputedAt(t, g, q)
<1> DEFINE value(q) ==
        IF t[q].kind = "leaf" THEN LeafWith(t[q].stem, t[q].values)
        ELSE IF t[q].kind = "internal" THEN ChildrenOf(g, q) ELSE Identity
<1>1. ASSUME NEW q \in Path PROVE g[q] = value(q) <=> RecomputedAt(t, g, q)
  <2>1. t[q].kind \in {"empty", "internal", "leaf"}
    BY ShapeIs
  <2>2. CASE t[q].kind = "leaf"
    <3>1. value(q) = [stem |-> t[q].stem, c |-> Halves(t[q].values)]
      BY <2>2, HalvesIs DEF LeafWith
    <3> HIDE DEF value
    <3> QED BY <2>2, <3>1 DEF RecomputedAt
  <2>3. CASE t[q].kind = "internal"
    BY <2>3 DEF RecomputedAt
  <2>4. CASE t[q].kind = "empty"
    BY <2>4 DEF RecomputedAt
  <2> QED BY <2>1, <2>2, <2>3, <2>4
<1>2. Recomputing(t, g) <=> g = [q \in Path |-> value(q)]
  BY DEF Recomputing
<1> HIDE DEF value
<1>3. g = [q \in Path |-> value(q)] <=> g = [q \in Path |-> g[q]] /\ \A q \in Path : g[q] = value(q)
  <2>1. ASSUME g = [q \in Path |-> value(q)]
        PROVE  g = [q \in Path |-> g[q]] /\ \A q \in Path : g[q] = value(q)
    BY ONLY <2>1
  <2>2. ASSUME g = [q \in Path |-> g[q]], \A q \in Path : g[q] = value(q)
        PROVE  g = [q \in Path |-> value(q)]
    BY ONLY <2>2
  <2> QED BY <2>1, <2>2
<1> QED BY <1>1, <1>2, <1>3

LEMMA RecomputedIs ==
    ASSUME NEW t, Shape(t), Settled(t), NEW c, Holds(t, c), NEW r \in Stem, DOMAIN c[r] # {}
    PROVE  Recomputed(t) = Commitment(t[<<>>])
<1> PICK f : f = [q \in Path |-> Commitment(t[q])]
  OBVIOUS
<1>1. f = [q \in Path |-> f[q]] /\ \A q \in Path : f[q] = Commitment(t[q])
  OBVIOUS
<1>2. ASSUME NEW q \in Path PROVE RecomputedAt(t, f, q)
  <2>1. CASE t[q].kind = "leaf"
    <3>1. IsLeaf(t[q])
      BY <2>1, ShapeIs
    <3>2. t[q].comm = Halves(t[q].values)
      BY <3>1 DEF IsLeaf
    <3> QED BY <1>1, <2>1, <3>2, CommitmentIs DEF RecomputedAt
  <2>2. CASE t[q].kind = "internal"
    <3>1. \E s \in Stem : DOMAIN c[s] # {} /\ IsPrefix(q, s)
      <4>1. CASE q = <<>>
        <5>1. IsPrefix(q, r)
          BY <4>1, PathIs, PrefixOrder
        <5> QED BY <5>1
      <4>2. CASE q # <<>>
        BY <2>2, <4>2 DEF Holds
      <4> QED BY <4>1, <4>2
    <3>2. Commitment(t[q]) = [children |-> [w \in Word |-> Commitment(t[Append(q, w)])]]
      BY <2>2, <3>1, InternalCommits
    <3>3. \A w \in Word : f[Append(q, w)] = Commitment(t[Append(q, w)])
      <4>1. \A w \in Word : Append(q, w) \in Path
        BY <2>2, ShapeIs, ChildIs
      <4> QED BY <1>1, <4>1
    <3>4. [w \in Word |-> Commitment(t[Append(q, w)])] = [w \in Word |-> f[Append(q, w)]]
      BY ONLY <3>3
    <3>5. f[q] = ChildrenOf(f, q)
      BY <1>1, <3>2, <3>4 DEF ChildrenOf
    <3> QED BY <2>2, <3>5 DEF RecomputedAt
  <2>3. CASE t[q].kind = "empty"
    <3>1. t[q] = EmptyNode
      BY <2>3, ShapeIs
    <3>2. f[q] = Identity
      BY <1>1, <3>1, CommitmentIs
    <3> QED BY <2>3, <3>2 DEF RecomputedAt
  <2> QED BY <2>1, <2>2, <2>3, ShapeIs
<1>3. Recomputing(t, f)
  BY ONLY <1>1, <1>2, Shape(t), RecomputingIs
<1>4. PICK g : g = CHOOSE x : Recomputing(t, x)
  OBVIOUS
<1>5. Recomputing(t, g)
  BY <1>3, <1>4
<1>6. \A q \in Path : RecomputedAt(t, g, q)
  BY <1>5, RecomputingIs
<1>7. \A q \in Path : g[q] = f[q]
  <2> DEFINE P == {q \in Path : g[q] # f[q]}
  <2>1. SUFFICES ASSUME P # {} PROVE FALSE
    OBVIOUS
  <2>2. PICK p \in P : \A q \in P : Len(q) <= Len(p)
    <3>1. P \subseteq Path
      OBVIOUS
    <3> HIDE DEF P
    <3> QED BY <2>1, <3>1, LongestFirst
  <2>3. p \in Path /\ g[p] # f[p] /\ RecomputedAt(t, g, p) /\ RecomputedAt(t, f, p)
    BY <1>2, <1>6
  <2>4. t[p].kind = "internal"
    BY <2>3, ShapeIs DEF RecomputedAt
  <2>5. ASSUME NEW w \in Word PROVE g[Append(p, w)] = f[Append(p, w)]
    <3>1. Append(p, w) \in Path /\ Len(Append(p, w)) = Len(p) + 1 /\ Len(p) \in Nat
      BY <2>3, <2>4, ShapeIs, ChildIs, PathIs
    <3>2. ~(Len(Append(p, w)) <= Len(p))
      BY ONLY <3>1
    <3> QED BY <2>2, <3>1, <3>2
  <2>6. [w \in Word |-> g[Append(p, w)]] = [w \in Word |-> f[Append(p, w)]]
    BY ONLY <2>5
  <2> QED BY <2>3, <2>4, <2>6 DEF RecomputedAt, ChildrenOf
<1>8. Recomputed(t) = g[<<>>]
  BY <1>4 DEF Recomputed, Recomputing
<1>9. <<>> \in Path
  BY PathIs
<1> QED BY <1>1, <1>7, <1>8, <1>9

\* What the values stand for is what the root commits to, where nothing was deleted.
Standing(c, g) ==
    g = [q \in Path |->
            LET stems == StemsBelow(c, q)
                stem == CHOOSE s \in stems : TRUE
            IN  IF stems = {} THEN Identity
                ELSE IF q # <<>> /\ stems = {stem} THEN LeafWith(stem, c[stem])
                ELSE ChildrenOf(g, q)]

LEMMA StandsForIs == \A c : StandsFor(c) = (CHOOSE g : Standing(c, g))[<<>>]
  BY DEF StandsFor, Standing

\* The same, point by point.
Alone(c, q, s) == q # <<>> /\ StemsBelow(c, q) = {s}
StandsAt(c, g, q) ==
    /\ StemsBelow(c, q) = {} => g[q] = Identity
    /\ \A s : Alone(c, q, s) => g[q] = [stem |-> s, c |-> Halves(c[s])]
    /\ StemsBelow(c, q) # {} /\ ~(\E s : Alone(c, q, s)) => g[q] = ChildrenOf(g, q)

LEMMA StandingIs ==
    ASSUME NEW c, NEW g
    PROVE  Standing(c, g) <=>
               g = [q \in Path |-> g[q]] /\ \A q \in Path : StandsAt(c, g, q)
<1> DEFINE stem(q) == CHOOSE s \in StemsBelow(c, q) : TRUE
           value(q) == IF StemsBelow(c, q) = {} THEN Identity
                       ELSE IF q # <<>> /\ StemsBelow(c, q) = {stem(q)}
                            THEN LeafWith(stem(q), c[stem(q)])
                       ELSE ChildrenOf(g, q)
<1>1. ASSUME NEW q \in Path PROVE g[q] = value(q) <=> StandsAt(c, g, q)
  <2>1. CASE StemsBelow(c, q) = {}
    <3>1. \A s : ~Alone(c, q, s)
      BY <2>1 DEF Alone
    <3> QED BY <2>1, <3>1 DEF StandsAt
  <2>2. ASSUME NEW s, Alone(c, q, s) PROVE g[q] = value(q) <=> StandsAt(c, g, q)
    <3>1. StemsBelow(c, q) = {s} /\ q # <<>>
      BY <2>2 DEF Alone
    <3>2. \A r : Alone(c, q, r) => r = s
      BY <3>1 DEF Alone
    <3>3. stem(q) = s
      <4> PICK S : S = StemsBelow(c, q)
        OBVIOUS
      <4>1. (CHOOSE r \in S : TRUE) \in S
        BY <3>1
      <4> QED BY <3>1, <4>1
    <3>4. value(q) = [stem |-> s, c |-> Halves(c[s])]
      <4>1. value(q) = LeafWith(s, c[s])
        <5> HIDE DEF stem
        <5> QED BY <3>1, <3>3
      <4> HIDE DEF value
      <4> QED BY <4>1, HalvesIs DEF LeafWith
    <3> HIDE DEF value
    <3> QED BY <2>2, <3>1, <3>2, <3>4 DEF StandsAt
  <2>3. CASE StemsBelow(c, q) # {} /\ ~(\E s : Alone(c, q, s))
    <3>1. value(q) = ChildrenOf(g, q)
      <4> HIDE DEF stem
      <4> QED BY <2>3 DEF Alone
    <3> HIDE DEF value
    <3> QED BY <2>3, <3>1 DEF StandsAt
  <2> QED BY <2>1, <2>2, <2>3
<1>2. Standing(c, g) <=> g = [q \in Path |-> value(q)]
  BY DEF Standing
<1> HIDE DEF value
<1>3. g = [q \in Path |-> value(q)] <=> g = [q \in Path |-> g[q]] /\ \A q \in Path : g[q] = value(q)
  <2>1. ASSUME g = [q \in Path |-> value(q)]
        PROVE  g = [q \in Path |-> g[q]] /\ \A q \in Path : g[q] = value(q)
    BY ONLY <2>1
  <2>2. ASSUME g = [q \in Path |-> g[q]], \A q \in Path : g[q] = value(q)
        PROVE  g = [q \in Path |-> value(q)]
    BY ONLY <2>2
  <2> QED BY <2>1, <2>2
<1> QED BY <1>1, <1>2, <1>3

\* Below a node that holds nothing there is nothing,
LEMMA NothingBelow ==
    ASSUME NEW t, Shape(t), NEW c, Holds(t, c), NEW q \in Path, q # <<>>,
           StemsBelow(c, q) = {}
    PROVE  Commitment(t[q]) = Identity
<1>1. \A s \in Stem : IsPrefix(q, s) => DOMAIN c[s] = {}
  BY HeldStem DEF StemsBelow
<1>2. t[q].kind # "internal"
  BY <1>1 DEF Holds
<1>3. t[q].kind # "leaf"
  <2>1. SUFFICES ASSUME t[q].kind = "leaf" PROVE FALSE
    OBVIOUS
  <2>2. IsPrefix(q, t[q].stem) /\ t[q].stem \in Stem /\ IsLeaf(t[q])
    BY <2>1, ShapeIs
  <2>3. c[t[q].stem] = t[q].values /\ DOMAIN t[q].values # {}
    BY <2>1, <2>2, HoldsLeaf DEF IsLeaf
  <2> QED BY <1>1, <2>2, <2>3
<1>4. t[q] = EmptyNode
  BY <1>2, <1>3, ShapeIs
<1> QED BY <1>4, CommitmentIs

\* one stem is held by a leaf,
LEMMA OneBelow ==
    ASSUME NEW t, Shape(t), NEW c, Holds(t, c), Canonical(t, c), NEW q \in Path,
           t[q].kind = "internal", NEW w \in Word, NEW s,
           StemsBelow(c, Append(q, w)) = {s}
    PROVE  Commitment(t[Append(q, w)]) = [stem |-> s, c |-> Halves(c[s])]
<1> PICK x : x = Append(q, w)
  OBVIOUS
<1>1. /\ x \in Path /\ Len(x) = Len(q) + 1 /\ q # x /\ IsPrefix(q, x)
      /\ \A p \in Path : IsPrefix(p, x) => p = x \/ IsPrefix(p, q)
  BY ShapeIs, ChildIs
<1>2. s \in Stem /\ IsPrefix(x, s) /\ c[s] # <<>> /\ s \in Path
  <2>1. s \in StemsBelow(c, x)
    OBVIOUS
  <2> QED BY <2>1, PathIs DEF StemsBelow
<1>3. DOMAIN c[s] # {}
  BY <1>2, HeldStem
<1>4. x # <<>>
  <2>1. Len(x) # 0
    <3>1. Len(q) \in Nat
      BY PathIs
    <3> QED BY ONLY <1>1, <3>1
  <2> QED BY <2>1, PathIs
<1>5. t[x].kind # "internal"
  <2>1. SUFFICES ASSUME t[x].kind = "internal" PROVE FALSE
    OBVIOUS
  <2>2. PICK r1, r2 \in Stem : /\ r1 # r2 /\ DOMAIN c[r1] # {} /\ DOMAIN c[r2] # {}
                               /\ IsPrefix(x, r1) /\ IsPrefix(x, r2)
    BY <1>1, <1>4, <2>1 DEF Canonical, Parts
  <2>3. r1 \in StemsBelow(c, x) /\ r2 \in StemsBelow(c, x)
    BY <2>2, HeldStem DEF StemsBelow
  <2> QED BY <2>2, <2>3
<1> PICK e : e = Terminal(t, s)
  OBVIOUS
<1>6. e = x
  <2>1. e \in Path /\ IsPrefix(e, x) /\ t[e].kind # "internal"
    BY <1>1, <1>2, <1>5, TerminalIs
  <2>2. CASE IsPrefix(e, q)
    <3>1. q = e
      <4>1. t[q].kind # "empty"
        OBVIOUS
      <4> QED BY <2>1, <2>2, <4>1, OneOnWay
    <3> QED BY <2>1, <3>1
  <2> QED BY <1>1, <2>1, <2>2
<1>7. PICK p \in Path : t[p].kind = "leaf" /\ t[p].stem = s
  BY <1>2, <1>3 DEF Holds
<1>8. p = x
  BY <1>6, <1>7, LeafAtTerminal
<1>9. IsLeaf(t[x]) /\ c[s] = t[x].values
  BY <1>1, <1>7, <1>8, ShapeIs, HoldsLeaf
<1>10. t[x].comm = Halves(c[s])
  BY <1>9 DEF IsLeaf
<1> QED BY <1>7, <1>8, <1>10, CommitmentIs

\* and two are parted by an internal node.
LEMMA MoreBelow ==
    ASSUME NEW t, Shape(t), NEW c, Holds(t, c), NEW q \in Path, StemsBelow(c, q) # {},
           ~(\E s : Alone(c, q, s))
    PROVE  t[q].kind = "internal" /\ \E s \in Stem : DOMAIN c[s] # {} /\ IsPrefix(q, s)
<1>1. PICK r : r \in StemsBelow(c, q)
  OBVIOUS
<1>2. r \in Stem /\ DOMAIN c[r] # {} /\ IsPrefix(q, r) /\ r \in Path
  BY <1>1, HeldStem, PathIs DEF StemsBelow
<1>3. CASE q = <<>>
  BY <1>2, <1>3, RootIsInternal
<1>4. CASE q # <<>>
  <2>1. PICK s : s \in StemsBelow(c, q) /\ s # r
    <3>1. StemsBelow(c, q) # {r}
      BY <1>4 DEF Alone
    <3> QED BY <1>1, <3>1
  <2>2. s \in Stem /\ DOMAIN c[s] # {} /\ IsPrefix(q, s) /\ s \in Path
    BY <2>1, HeldStem, PathIs DEF StemsBelow
  <2>3. PICK e \in Path : t[e].kind = "leaf" /\ t[e].stem = r
    BY <1>2 DEF Holds
  <2>4. PICK f \in Path : t[f].kind = "leaf" /\ t[f].stem = s
    BY <2>2 DEF Holds
  <2>5. IsPrefix(e, r) /\ IsPrefix(f, s) /\ Terminal(t, s) = f
    BY <2>3, <2>4, ShapeIs, LeafAtTerminal
  <2>6. ~IsPrefix(e, q)
    <3>1. SUFFICES ASSUME IsPrefix(e, q) PROVE FALSE
      OBVIOUS
    <3>2. IsPrefix(e, s)
      BY <2>2, <3>1, PrefixOrder
    <3>3. IsPrefix(f, e)
      <4>1. t[e].kind # "internal"
        BY <2>3
      <4> QED BY <2>2, <2>5, <3>2, <4>1, TerminalIs
    <3>4. e = f
      <4>1. t[f].kind # "internal" /\ t[e].kind # "empty"
        BY <2>3, <2>4
      <4> QED BY <3>3, <4>1, OneOnWay
    <3> QED BY <2>1, <2>3, <2>4, <3>4
  <2>7. IsPrefix(q, e) /\ q # e
    <3>1. Len(e) \in Nat /\ Len(q) \in Nat
      BY PathIs
    <3>2. ~(Len(e) <= Len(q))
      BY <1>2, <2>5, <2>6, PrefixOrder
    <3>3. Len(q) <= Len(e)
      BY ONLY <3>1, <3>2
    <3> QED BY <1>2, <2>5, <2>6, <3>3, PrefixOrder
  <2>8. t[q].kind = "internal"
    <3>1. t[e].kind # "empty"
      BY <2>3
    <3> QED BY <2>7, <3>1, ShapeIs
  <2> QED BY <1>2, <2>8
<1> QED BY <1>3, <1>4

\* What a node stands for: below the leaves the values of the leaf above.
LEMMA StandsForRoot ==
    ASSUME NEW t, Shape(t), Settled(t), NEW c, Holds(t, c), Canonical(t, c),
           NEW r \in Stem, DOMAIN c[r] # {}
    PROVE  StandsFor(c) = Commitment(t[<<>>])
<1> DEFINE Stands(q) ==
        IF StemsBelow(c, q) = {} THEN Identity
        ELSE IF \E s : Alone(c, q, s)
             THEN LET s == CHOOSE x : Alone(c, q, x) IN [stem |-> s, c |-> Halves(c[s])]
             ELSE Commitment(t[q])
<1> PICK f : f = [q \in Path |-> Stands(q)]
  OBVIOUS
<1>1. f = [q \in Path |-> f[q]] /\ \A q \in Path : f[q] = Stands(q)
  BY ONLY f = [q \in Path |-> Stands(q)]
<1>2. ASSUME NEW q \in Path, NEW s, Alone(c, q, s)
      PROVE  f[q] = [stem |-> s, c |-> Halves(c[s])]
  <2> PICK x : x = CHOOSE y : Alone(c, q, y)
    OBVIOUS
  <2>1. Alone(c, q, x)
    BY <1>2
  <2>2. x = s /\ StemsBelow(c, q) # {}
    BY <1>2, <2>1 DEF Alone
  <2>3. f[q] = [stem |-> x, c |-> Halves(c[x])]
    BY <1>1, <1>2, <2>2
  <2> QED BY <2>2, <2>3
<1>3. ASSUME NEW q \in Path, t[q].kind = "internal", NEW w \in Word
      PROVE  f[Append(q, w)] = Commitment(t[Append(q, w)])
  <2> PICK x : x = Append(q, w)
    OBVIOUS
  <2>1. x \in Path /\ x # <<>>
    <3>1. x \in Path /\ Len(x) = Len(q) + 1 /\ Len(q) \in Nat
      BY <1>3, ShapeIs, ChildIs, PathIs
    <3>2. Len(x) # 0
      BY ONLY <3>1
    <3> QED BY <3>1, <3>2, PathIs
  <2>2. CASE StemsBelow(c, x) = {}
    <3>1. Commitment(t[x]) = Identity
      BY <2>1, <2>2, NothingBelow
    <3> QED BY <1>1, <2>1, <2>2, <3>1
  <2>3. ASSUME NEW s, Alone(c, x, s) PROVE f[x] = Commitment(t[x])
    <3>1. StemsBelow(c, Append(q, w)) = {s}
      BY <2>3 DEF Alone
    <3>2. Commitment(t[x]) = [stem |-> s, c |-> Halves(c[s])]
      BY <1>3, <3>1, OneBelow
    <3> QED BY <1>2, <2>1, <2>3, <3>2
  <2>4. CASE StemsBelow(c, x) # {} /\ ~(\E s : Alone(c, x, s))
    BY <1>1, <2>1, <2>4
  <2> QED BY <2>2, <2>3, <2>4
<1>4. ASSUME NEW q \in Path PROVE StandsAt(c, f, q)
  <2>1. ASSUME StemsBelow(c, q) # {}, ~(\E s : Alone(c, q, s)) PROVE f[q] = ChildrenOf(f, q)
    <3>1. t[q].kind = "internal" /\ \E s \in Stem : DOMAIN c[s] # {} /\ IsPrefix(q, s)
      BY <2>1, MoreBelow
    <3>2. Commitment(t[q]) = [children |-> [w \in Word |-> Commitment(t[Append(q, w)])]]
      BY <3>1, InternalCommits
    <3>3. [w \in Word |-> Commitment(t[Append(q, w)])] = [w \in Word |-> f[Append(q, w)]]
      BY <1>3, <3>1
    <3>4. f[q] = Commitment(t[q])
      BY <1>1, <2>1
    <3> QED BY <3>2, <3>3, <3>4 DEF ChildrenOf
  <2>2. StemsBelow(c, q) = {} => f[q] = Identity
    BY <1>1
  <2> HIDE DEF Stands
  <2> QED BY <1>2, <2>1, <2>2 DEF StandsAt
<1> HIDE DEF Stands
<1>5. Standing(c, f)
  BY ONLY <1>1, <1>4, StandingIs
<1>6. PICK g : g = CHOOSE x : Standing(c, x)
  OBVIOUS
<1>7. Standing(c, g)
  BY <1>5, <1>6
<1>8. \A q \in Path : StandsAt(c, g, q)
  BY <1>7, StandingIs
<1>9. \A q \in Path : g[q] = f[q]
  <2> DEFINE P == {q \in Path : g[q] # f[q]}
  <2>1. SUFFICES ASSUME P # {} PROVE FALSE
    OBVIOUS
  <2>2. PICK p \in P : \A q \in P : Len(q) <= Len(p)
    <3>1. P \subseteq Path
      OBVIOUS
    <3> HIDE DEF P
    <3> QED BY <2>1, <3>1, LongestFirst
  <2>3. p \in Path /\ g[p] # f[p] /\ StandsAt(c, g, p) /\ StandsAt(c, f, p)
    BY <1>4, <1>8
  <2>4. StemsBelow(c, p) # {} /\ ~(\E s : Alone(c, p, s))
    <3>1. StemsBelow(c, p) # {}
      BY <2>3 DEF StandsAt
    <3>2. ASSUME NEW s, Alone(c, p, s) PROVE FALSE
      BY <2>3, <3>2 DEF StandsAt
    <3> QED BY <3>1, <3>2
  <2>5. t[p].kind = "internal"
    BY <2>3, <2>4, MoreBelow
  <2>6. ASSUME NEW w \in Word PROVE g[Append(p, w)] = f[Append(p, w)]
    <3>1. Append(p, w) \in Path /\ Len(Append(p, w)) = Len(p) + 1 /\ Len(p) \in Nat
      BY <2>3, <2>5, ShapeIs, ChildIs, PathIs
    <3>2. ~(Len(Append(p, w)) <= Len(p))
      BY ONLY <3>1
    <3> QED BY <2>2, <3>1, <3>2
  <2>7. ChildrenOf(g, p) = ChildrenOf(f, p)
    <3>1. [w \in Word |-> g[Append(p, w)]] = [w \in Word |-> f[Append(p, w)]]
      BY ONLY <2>6
    <3> QED BY <3>1 DEF ChildrenOf
  <2>8. g[p] = ChildrenOf(g, p) /\ f[p] = ChildrenOf(f, p)
    BY <2>3, <2>4 DEF StandsAt
  <2> QED BY <2>3, <2>7, <2>8
<1>10. StandsFor(c) = g[<<>>]
  BY <1>6, StandsForIs
<1>11. <<>> \in Path /\ IsPrefix(<<>>, r) /\ StemsBelow(c, <<>>) # {}
  <2>1. <<>> \in Path /\ IsPrefix(<<>>, r)
    BY PathIs, PrefixOrder
  <2>2. r \in StemsBelow(c, <<>>)
    BY <2>1, HeldStem DEF StemsBelow
  <2> QED BY <2>1, <2>2
<1>12. f[<<>>] = Commitment(t[<<>>])
  <2>1. \A s : ~Alone(c, <<>>, s)
    BY DEF Alone
  <2> QED BY <1>1, <1>11, <2>1 DEF Stands
<1> QED BY <1>9, <1>10, <1>11, <1>12

\* TreeIsMap: the tree answers like the dictionary that was written to it, its root
\* commits to the values, and a panic needs a deletion.
THEOREM VerkleTreeIsMap == VerkleSpec => []TreeIsMap
<1>1. TreeInv => TreeIsMap
  <2> SUFFICES ASSUME TreeInv PROVE TreeIsMap
    OBVIOUS
  <2>0. /\ Shape(tree) /\ Holds(tree, content) /\ Marks(tree)
        /\ ~unmarked => Agrees(tree)
        /\ ~deleted => Canonical(tree, content) /\ ~panicked
        /\ deleted \in BOOLEAN /\ panicked \in BOOLEAN
    BY DEF TreeInv
  <2>1. \A s \in Stem, x \in Suffix : Get(tree, <<s, x>>) = ValueIn(content[s], x)
    BY <2>0, GetIs
  <2>2. panicked => deleted
    BY <2>0
  <2>3. ASSUME ~panicked, ~unmarked, tree[<<>>].cow = <<>>, content # [s \in Stem |-> <<>>]
        PROVE  Commitment(tree[<<>>]) = IF deleted THEN Recomputed(tree) ELSE StandsFor(content)
    <3>1. Settled(tree)
      BY <2>0, <2>3, RootIsSettled
    <3>2. PICK r \in Stem : content[r] # <<>>
      <4>1. content = [s \in Stem |-> content[s]]
        BY <2>0 DEF Holds
      <4> QED BY ONLY <2>3, <4>1
    <3>3. DOMAIN content[r] # {}
      BY <2>0, <3>2, HeldStem
    <3>4. Recomputed(tree) = Commitment(tree[<<>>])
      BY <2>0, <3>1, <3>3, RecomputedIs
    <3>5. ~deleted => StandsFor(content) = Commitment(tree[<<>>])
      BY <2>0, <3>1, <3>3, StandsForRoot
    <3> QED BY <3>4, <3>5
  <2> QED BY <2>1, <2>2, <2>3 DEF TreeIsMap
<1> QED BY <1>1, TreeInvariant, PTL
=============================================================================
