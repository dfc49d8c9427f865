------------------------------ MODULE Integrity ------------------------------
(***************************************************************************)
(* The answer to SlotIntegrityVerification with a Merkle tree: a tree over *)
(* the commitments of the slots of a task, and the way from one of them to *)
(* the root.  A hash is what it hashes.                                    *)
(***************************************************************************)
EXTENDS Integers, Sequences, SequencesExt

CONSTANT MaxSlots  \* bound: slots of one task

ASSUME IntegrityAssumption == MaxSlots \in Nat

VARIABLES
    committed,  \* of each slot, whether it has a commitment
    target      \* the slot asked for

integrityVars == <<committed, target>>

Hash(left, right) == [left |-> left, right |-> right]
CommitmentOf(slot) == [commitmentOf |-> slot]

-----------------------------------------------------------------------------
(* The tree: levels of nodes, the leaves first.  Indexes start at 0.       *)

At(level, index) == level[index + 1]

\* (A variant, used nowhere: the last level is cut when its length is odd.)
NextLevelOfPairs(level) ==
    [k \in 1 .. Len(level) \div 2 |-> Hash(level[2 * k - 1], level[2 * k])]

\* A node without a sibling is promoted.
NextLevel(level) ==
    [k \in 1 .. (Len(level) + 1) \div 2 |->
        IF 2 * k <= Len(level) THEN Hash(level[2 * k - 1], level[2 * k]) ELSE level[2 * k - 1]]

\* So many rounds of the loop.  It stops at a level with one node, and every level is
\* shorter than the one before, so there are never more levels than leaves.
Build(leaves) ==
    LET tree[n \in 1 .. Len(leaves)] ==
            IF n = 1 THEN <<leaves>>
            ELSE LET levels == tree[n - 1]
                 IN  IF Len(Last(levels)) > 1 THEN Append(levels, NextLevel(Last(levels)))
                     ELSE levels
    IN  tree[Len(leaves)]

Root(levels) == Last(levels)[1]

\* (A variant, used nowhere: always the right neighbour.)
RightNeighbour(index) == index + 1

\* index ^ 1
Sibling(index) == IF index % 2 = 0 THEN index + 1 ELSE index - 1

\* MerkleTree.GetProof: at each level but the last the node and its sibling, if it has
\* one; the top comes first.
Pair(level, index) ==
    [current |-> index, hash |-> At(level, index), sibling |-> At(level, Sibling(index))]

GetProof(levels, targetIndex) ==
    LET walk[n \in 0 .. Len(levels) - 1] ==
            IF n = 0 THEN [index |-> targetIndex, proof |-> <<>>]
            ELSE LET at == walk[n - 1]
                 IN  [index |-> at.index \div 2,
                      proof |-> IF Sibling(at.index) >= Len(levels[n]) THEN at.proof
                                ELSE <<Pair(levels[n], at.index)>> \o at.proof]
    IN  walk[Len(levels) - 1].proof

\* GetMerkleProof of utils: only the sibling, and the side it is on.
Item(level, index) ==
    [position |-> IF index % 2 = 0 THEN "right" ELSE "left",
     hash |-> At(level, Sibling(index))]

GetMerkleProof(levels, targetIndex) ==
    LET walk[n \in 0 .. Len(levels) - 1] ==
            IF n = 0 THEN [index |-> targetIndex, proof |-> <<>>]
            ELSE LET at == walk[n - 1]
                 IN  [index |-> at.index \div 2,
                      proof |-> IF Sibling(at.index) >= Len(levels[n]) THEN at.proof
                                ELSE <<Item(levels[n], at.index)>> \o at.proof]
    IN  walk[Len(levels) - 1].proof

-----------------------------------------------------------------------------
(* The answer.                                                             *)

\* The commitments of the slots that have one, and the place of the target among
\* them; -1 when it is not.
Leaves ==
    LET found[k \in 0 .. Len(committed)] ==
            IF k = 0 THEN [leaves |-> <<>>, indexOfTarget |-> -1]
            ELSE IF ~committed[k] THEN found[k - 1]
            ELSE LET before == found[k - 1]
                 IN  [leaves |-> Append(before.leaves, CommitmentOf(k)),
                      indexOfTarget |-> IF k = target THEN Len(before.leaves)
                                        ELSE before.indexOfTarget]
    IN  found[Len(committed)]

VerifySlot ==
    LET leaves == Leaves.leaves
        indexOfTarget == Leaves.indexOfTarget
        levels == Build(leaves)
    IN  IF indexOfTarget = -1 THEN [error |-> TRUE]
        ELSE [leaf |-> At(leaves, indexOfTarget), root |-> Root(levels),
              proof |-> GetProof(levels, indexOfTarget), leavesCount |-> Len(leaves),
              items |-> GetMerkleProof(levels, indexOfTarget)]

\* The queries: nothing happens in them.
IntegrityInit ==
    /\ \E n \in 1 .. MaxSlots : committed \in [1 .. n -> BOOLEAN]
    /\ target \in DOMAIN committed

-----------------------------------------------------------------------------
\* What a verifier computes from the leaf and the pairs, from the bottom up: the
\* pair must continue from what was computed.
Joined(pair, node) ==
    IF pair.hash # node THEN [broken |-> TRUE]
    ELSE IF pair.current % 2 = 0 THEN Hash(node, pair.sibling)
    ELSE Hash(pair.sibling, node)

FromPairs(leaf, proof) ==
    LET node[n \in 0 .. Len(proof)] ==
            IF n = 0 THEN leaf ELSE Joined(proof[Len(proof) - n + 1], node[n - 1])
    IN  node[Len(proof)]

Extended(item, node) ==
    IF item.position = "right" THEN Hash(node, item.hash) ELSE Hash(item.hash, node)

FromItems(leaf, items) ==
    LET node[n \in 0 .. Len(items)] ==
            IF n = 0 THEN leaf ELSE Extended(items[Len(items) - n + 1], node[n - 1])
    IN  node[Len(items)]

\* Whatever the number of commitments and wherever the slot stands, also where
\* nodes without a sibling are promoted over some levels and slots without a
\* commitment stand between, the answer is about the slot asked for and both forms
\* of its proof lead from its commitment to the root; and a slot with a commitment
\* is always answered.
ProofLeadsToRoot ==
    LET answer == VerifySlot
    IN  IF committed[target]
        THEN /\ "leaf" \in DOMAIN answer /\ answer.leaf = CommitmentOf(target)
             /\ FromPairs(answer.leaf, answer.proof) = answer.root
             /\ FromItems(answer.leaf, answer.items) = answer.root
        ELSE "error" \in DOMAIN answer
=============================================================================
