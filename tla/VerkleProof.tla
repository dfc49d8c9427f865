---------------------------- MODULE VerkleProof ----------------------------
(***************************************************************************)
(* Proofs over the Verkle tree: what GetProofItems gathers for some keys,  *)
(* what of it goes into the proof, and the stateless tree that             *)
(* PreStateTreeFromProof and CreatePath rebuild from it.  The multipoint   *)
(* argument itself is sound: it opens what the two sides agree on.         *)
(***************************************************************************)
EXTENDS VerkleTree

\* The members of a set in the order of a relation.
InOrder(S, less(_, _)) ==
    [k \in 1 .. Cardinality(S) |->
        CHOOSE x \in S : Cardinality({y \in S : less(y, x)}) = k - 1]

\* The order of the bytes of a key.
Bytes(key) == Append(key[1], key[2])
Sorted(K) == InOrder(K, LAMBDA a, b : KeyLess(Bytes(a), Bytes(b)))

\* The distinct stems of sorted keys, in their order.
StemsOf(keys) ==
    FoldLeft(LAMBDA stems, key : IF key[1] \in ToSet(stems) THEN stems ELSE Append(stems, key[1]),
             <<>>, keys)

-----------------------------------------------------------------------------
(* GetProofItems of both kinds of node.                                    *)

\* One status per stem: what stands where its way ends, and how deep, in one byte.
AbsentEmpty == 0
AbsentOther == 1
PresentLeaf == 2
ExtStatus(t, stem) ==
    LET p == Terminal(t, stem)
    IN  8 * Len(p) + CASE t[p].kind = "empty" -> AbsentEmpty
                       [] t[p].kind = "leaf" /\ t[p].stem = stem -> PresentLeaf
                       [] OTHER -> AbsentOther
Depth(es) == es \div 8
TypeOf(es) == es % 4

\* (Variant: a stem proved absent is listed though it is proved present too.)
PoaStemsOfAll(t, stems) ==
    LET others == {t[Terminal(t, s)].stem :
                       s \in {r \in ToSet(stems) : TypeOf(ExtStatus(t, r)) = AbsentOther}}
    IN  InOrder(others, KeyLess)

\* The leaves that prove another stem absent, unless they are proved present too.
PoaStems(t, stems) ==
    LET others == {t[Terminal(t, s)].stem :
                       s \in {r \in ToSet(stems) : TypeOf(ExtStatus(t, r)) = AbsentOther}}
    IN  InOrder(others \ ToSet(stems), KeyLess)

\* The commitments by path; that of a half stands below its leaf.
SlotByte(h) == 1000 + h
ByPath(t, K) ==
    LET onWay == {p \in Path : /\ \E key \in K : IsPrefix(p, key[1])
                               /\ t[p].kind \in {"internal", "leaf", "stub"}}
        slots == {<<Terminal(t, key[1]), Half(key[2])>> :
                     key \in {k \in K : TypeOf(ExtStatus(t, k[1])) = PresentLeaf}}
    IN  Over([p \in onWay |-> Commitment(t[p])],
             [q \in {Append(slot[1], SlotByte(slot[2])) : slot \in slots} |->
                 t[Front(q)].c[Last(q) - SlotByte(0)]])

\* What the multipoint argument opens: commitment, index and value there.
Openings(t, K) ==
    UNION {
        LET stem == key[1]
            p == Terminal(t, stem)
            leaf == t[p]
            h == Half(key[2])
            inner == {<<Commitment(t[Prefix(stem, n)]), stem[n + 1],
                        Commitment(t[Prefix(stem, n + 1)])>> : n \in 0 .. Len(p) - 1}
            extension == {<<Commitment(leaf), -1, [stem |-> leaf.stem]>>}
            suffix == {<<Commitment(leaf), h, leaf.c[h]>>,
                       <<leaf.c[h], key[2], ValueIn(leaf.values, key[2])>>}
        IN  inner \cup CASE leaf.kind = "empty" -> {}
                         [] TypeOf(ExtStatus(t, stem)) = PresentLeaf -> extension \cup suffix
                         [] OTHER -> extension : key \in K}

\* MakeVerkleMultiProof: the commitments in the order of their paths, without the
\* root, which is known anyway; the values after a change where they differ.  The
\* multipoint argument stands for what it opens.
MakeProof(t, K, postValue) ==
    LET keys == Sorted(K)
        stems == StemsOf(keys)
        byPath == ByPath(t, K)
        paths == InOrder(DOMAIN byPath \ {<<>>}, KeyLess)
        before == [k \in DOMAIN keys |-> Get(t, keys[k])]
    IN  [keys |-> keys, multipoint |-> Openings(t, K),
         extStatus |-> [k \in DOMAIN stems |-> ExtStatus(t, stems[k])],
         poaStems |-> PoaStems(t, stems),
         cs |-> [k \in DOMAIN paths |-> byPath[paths[k]]],
         preValues |-> before,
         postValues |-> [k \in DOMAIN keys |-> IF postValue[keys[k]] = before[k] THEN Absent
                                              ELSE postValue[keys[k]]]]

\* The keys and values are grouped by stems, which are next to each other.
StateDiffOf(proof) ==
    LET stems == StemsOf(proof.keys)
        ofStem(k) == SelectSeq([j \in DOMAIN proof.keys |-> j],
                               LAMBDA j : proof.keys[j][1] = stems[k])
        suffixDiff(j) == [suffix |-> proof.keys[j][2], current |-> proof.preValues[j],
                          new |-> proof.postValues[j]]
    IN  [k \in DOMAIN stems |->
            [stem |-> stems[k],
             suffixDiffs |-> [n \in DOMAIN ofStem(k) |-> suffixDiff(ofStem(k)[n])]]]

SerializeProof(proof) ==
    [vp |-> [otherStems |-> proof.poaStems, depthExtensionPresent |-> proof.extStatus,
             commitmentsByPath |-> proof.cs, multipoint |-> proof.multipoint],
     diff |-> StateDiffOf(proof)]

DeserializeProof(vp, diff) ==
    LET rows == FlattenSeq([k \in DOMAIN diff |->
                    [n \in DOMAIN diff[k].suffixDiffs |->
                        <<diff[k].stem, diff[k].suffixDiffs[n]>>]])
    IN  [keys |-> [j \in DOMAIN rows |-> <<rows[j][1], rows[j][2].suffix>>],
         multipoint |-> vp.multipoint,
         extStatus |-> vp.depthExtensionPresent, poaStems |-> vp.otherStems,
         cs |-> vp.commitmentsByPath,
         preValues |-> [j \in DOMAIN rows |-> rows[j][2].current],
         postValues |-> [j \in DOMAIN rows |-> rows[j][2].new]]

-----------------------------------------------------------------------------
(* CreatePath and PreStateTreeFromProof.                                   *)

\* The stateless node for a commitment; its children are not known.
StatelessInternal(c) == Internal(IF c = Identity THEN NoChildren ELSE c.children, <<>>)
StatelessTree(root) ==
    [p \in Path |-> IF p = <<>> THEN StatelessInternal(root) ELSE UnknownNode]

\* Internal nodes that are missing on the way take the next commitments.
CreateWay(built, path) ==
    FoldLeft(LAMBDA made, n :
                 IF made.tree[Prefix(path, n)].kind = "unknown"
                 THEN [tree |-> [made.tree EXCEPT ![Prefix(path, n)] =
                                    StatelessInternal(made.cs[1])],
                       cs |-> Tail(made.cs)]
                 ELSE made,
             built, [n \in 1 .. Len(path) - 1 |-> n])

\* The node at the end of the way, and the commitments it took.
CreateEnd(built, path, info) ==
    LET c == built.cs
        nbHalves == Cardinality(info.halves)
        leaf == [kind |-> "leaf", stem |-> info.stem, values |-> info.values,
                 comm |-> c[1].c,
                 c |-> <<IF 1 \in info.halves THEN c[2] ELSE Nil,
                         IF 2 \in info.halves THEN c[1 + nbHalves] ELSE Nil>>]
        stub == [kind |-> "stub", stem |-> info.stem, comm |-> c[1].c]
    IN  CASE info.type = AbsentEmpty -> [built EXCEPT !.tree[path] = EmptyNode]
          [] info.type = AbsentOther ->
                 [tree |-> [built.tree EXCEPT ![path] = stub], cs |-> Tail(c)]
          [] info.type = PresentLeaf ->
                 [tree |-> [built.tree EXCEPT ![path] = leaf],
                  cs |-> SubSeq(c, 2 + nbHalves, Len(c))]

CreatePath(built, info) == CreateEnd(CreateWay(built, info.path), info.path, info)

\* One stem for each path: the one that is present, or the next stem of the proof of
\* absence for the first one that is absent; an empty child has none.
StemInfos(proof) ==
    LET stems == StemsOf(proof.keys)
        path(k) == Prefix(stems[k], Depth(proof.extStatus[k]))
        type(k) == TypeOf(proof.extStatus[k])
        keysOf(k) == {j \in DOMAIN proof.keys : proof.keys[j][1] = stems[k]}
        withPresent == {path(k) : k \in {j \in DOMAIN stems : type(j) = PresentLeaf}}
        used(k) == type(k) # AbsentOther
                   \/ (path(k) \notin withPresent /\ \A j \in 1 .. k - 1 : path(j) # path(k))
        info(k) ==
            CASE type(k) = AbsentEmpty -> [type |-> type(k), path |-> path(k)]
              [] type(k) = AbsentOther ->
                    LET rank == Cardinality({j \in 1 .. k : used(j) /\ type(j) = type(k)})
                    IN  [type |-> type(k), path |-> path(k), stem |-> proof.poaStems[rank]]
              [] type(k) = PresentLeaf ->
                    LET held == {j \in keysOf(k) : proof.preValues[j] # Absent}
                    IN  [type |-> type(k), path |-> path(k), stem |-> stems[k],
                         halves |-> {Half(proof.keys[j][2]) : j \in keysOf(k)},
                         values |-> [s \in {proof.keys[j][2] : j \in held} |->
                             proof.preValues[CHOOSE j \in held : proof.keys[j][2] = s]]]
    IN  LET chosen == SelectSeq([k \in DOMAIN stems |-> k], used)
        IN  [n \in DOMAIN chosen |-> info(chosen[n])]

\* The proof is refused when an absent stem has a value, or when a stem of the proof
\* of absence is left over.
PreStateTreeFromProof(proof, root) ==
    LET stems == StemsOf(proof.keys)
        absentWithValue ==
            \E j \in DOMAIN proof.keys, k \in DOMAIN stems :
                /\ proof.keys[j][1] = stems[k] /\ proof.preValues[j] # Absent
                /\ TypeOf(proof.extStatus[k]) # PresentLeaf
        infos == StemInfos(proof)
        stubs == SelectSeq(infos, LAMBDA info : info.type = AbsentOther)
    IN  IF absentWithValue \/ Len(stubs) # Len(proof.poaStems) THEN Failure
        ELSE FoldLeft(CreatePath, [tree |-> StatelessTree(root), cs |-> proof.cs], infos).tree

\* All new values of a stem at once, then Commit.
PostStateTreeFromStateDiff(t, diff) ==
    LET valuesOf(k) ==
            LET changed == {n \in DOMAIN diff[k].suffixDiffs : diff[k].suffixDiffs[n].new # Absent}
            IN  [s \in {diff[k].suffixDiffs[n].suffix : n \in changed} |->
                    diff[k].suffixDiffs[CHOOSE n \in changed :
                        diff[k].suffixDiffs[n].suffix = s].new]
    IN  CommitTree(FoldLeft(LAMBDA u, k : IF valuesOf(k) = <<>> THEN u
                                ELSE InsertValuesAtStem(u, diff[k].stem, valuesOf(k)),
                            t, [k \in DOMAIN diff |-> k]))

RootOf(t) == Commitment(t[<<>>])

\* The tree before is rebuilt, answers the claimed values, leads to the root after,
\* and opens what the argument proves.
VerifyProof(vp, preStateRoot, postStateRoot, diff) ==
    LET proof == DeserializeProof(vp, diff)
        pre == PreStateTreeFromProof(proof, preStateRoot)
    IN  /\ pre # Failure
        /\ \A j \in DOMAIN proof.keys : Get(pre, proof.keys[j]) = proof.preValues[j]
        /\ RootOf(PostStateTreeFromStateDiff(pre, diff)) = postStateRoot
        /\ Openings(pre, ToSet(proof.keys)) = vp.multipoint

-----------------------------------------------------------------------------
\* Another value is claimed for the n-th suffix of the k-th stem.
Forged(diff, k, n) ==
    [diff EXCEPT ![k].suffixDiffs[n].current = IF @ = Absent THEN NewValue ELSE Absent]

\* A proof for some keys, present or absent, alone or beside others on the same
\* leaf, is accepted from its serialized form: it rebuilds as much of the tree as
\* is needed to answer for each key as the full tree does, to open the same
\* commitments, and to compute the root after new values for the keys.  With another
\* value claimed for a key it is refused.  (Not asked of a tree with a half that a
\* deletion emptied, whose nil commitment cannot be proved.)
ProofIsEnough ==
    LET provable == /\ ~panicked /\ ~unmarked /\ tree[<<>>].cow = <<>>
                    /\ content # [s \in Stem |-> <<>>]
                    /\ \A p \in Path : tree[p].kind = "leaf" => Nil \notin ToSet(tree[p].c)
    IN  provable => \A K \in ProofKeys :
            LET serialized == SerializeProof(MakeProof(tree, K, [key \in K |-> NewValue]))
                vp == serialized.vp
                diff == serialized.diff
                before == RootOf(tree)
                after == RootOf(PostStateTreeFromStateDiff(tree, diff))
            IN  /\ VerifyProof(vp, before, after, diff)
                /\ \A k \in DOMAIN diff : \A n \in DOMAIN diff[k].suffixDiffs :
                       /\ diff[k].suffixDiffs[n].current
                              = ValueIn(content[diff[k].stem], diff[k].suffixDiffs[n].suffix)
                       /\ ~VerifyProof(vp, before, after, Forged(diff, k, n))
=============================================================================
