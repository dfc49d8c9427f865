----------------------------- MODULE VerkleTree -----------------------------
(***************************************************************************)
(* The Verkle tree over the commitments of slots: a trie of stems, whose   *)
(* leaves hold the values of one stem in two halves.  Commitments are      *)
(* updated by differences: an internal node remembers the commitment each  *)
(* touched child had (cow) until Commit.  A proof for some keys carries    *)
(* what is needed to rebuild the part of the tree they are in.             *)
(*                                                                         *)
(* A tree is a function of the paths.  A commitment is linear and binding: *)
(* it is what it commits to, and adding a difference replaces what is      *)
(* there by the new, provided that it is the old.  Nodes are in memory     *)
(* (no Flush, no resolver), values are not empty byte strings.             *)
(***************************************************************************)
EXTENDS Integers, Sequences, FiniteSets, SequencesExt, FiniteSetsExt, Functions

CONSTANTS
    Word,        \* bytes of a stem, numbers
    StemSize,
    Suffix,      \* last byte of a key
    SecondHalf,  \* the suffixes under c2
    Writes,      \* calls of InsertValuesAtStem: <<stem, values by suffix>>
    Keys,        \* keys <<stem, suffix>> that are deleted
    Migrations,  \* calls of InsertMigratedLeaves: sequences of writes
    ProofKeys,   \* sets of keys to prove
    NewValue     \* a value no write has

Path == UNION {[1 .. n -> Word] : n \in 0 .. StemSize}
Stem == [1 .. StemSize -> Word]

\* A stem with values for some of its suffixes, at least one.
IsWrite(write) ==
    /\ write[1] \in Stem
    /\ write[2] = [s \in DOMAIN write[2] |-> write[2][s]]
    /\ DOMAIN write[2] \subseteq Suffix /\ DOMAIN write[2] # {}

ASSUME VerkleAssumption ==
    /\ Word \subseteq Nat /\ SecondHalf \subseteq Suffix /\ StemSize \in Nat \ {0}
    /\ Keys \subseteq Stem \X Suffix /\ \A K \in ProofKeys : K \subseteq Stem \X Suffix
    /\ \A write \in Writes : IsWrite(write)
    /\ \A leaves \in Migrations :
           /\ Len(leaves) \in Nat /\ DOMAIN leaves = 1 .. Len(leaves)
           /\ \A k \in DOMAIN leaves : IsWrite(leaves[k])

VARIABLES
    tree,       \* the tree, by path
    content,    \* history: what was written to it and not deleted
    deleted,    \* history: something was deleted
    unmarked,   \* history: a migration changed a leaf its parent does not know of
    panicked    \* a nil commitment was used

verkleVars == <<tree, content, deleted, unmarked, panicked>>

\* A function with the values of another one where that has one.
Over(new, old) ==
    [x \in DOMAIN new \cup DOMAIN old |-> IF x \in DOMAIN new THEN new[x] ELSE old[x]]

Prefix(stem, n) == SubSeq(stem, 1, n)
KeyLess(a, b) ==
    \/ IsStrictPrefix(a, b)
    \/ \E n \in 1 .. StemSize + 1 :
           /\ n <= Len(a) /\ n <= Len(b)
           /\ SubSeq(a, 1, n - 1) = SubSeq(b, 1, n - 1) /\ a[n] < b[n]

-----------------------------------------------------------------------------
(* Nodes and their commitments.                                            *)

Identity == [values |-> <<>>]
Wrong == [wrong |-> TRUE]
Nil == [nil |-> TRUE]

Absent == [absent |-> TRUE]
Failure == [failure |-> TRUE]

ValueIn(values, s) == IF s \in DOMAIN values THEN values[s] ELSE Absent

Half(s) == IF s \in SecondHalf THEN 2 ELSE 1
HalfOf(values, h) ==
    [values |-> Restrict(values, {s \in DOMAIN values : Half(s) = h})]

EmptyNode == [kind |-> "empty"]
UnknownNode == [kind |-> "unknown"]
Internal(comm, cow) == [kind |-> "internal", comm |-> comm, cow |-> cow]
NoChildren == [w \in Word |-> Identity]
NewLeaf(stem, values) ==
    LET c == <<HalfOf(values, 1), HalfOf(values, 2)>>
    IN  [kind |-> "leaf", stem |-> stem, values |-> values, c |-> c, comm |-> c]

\* Commitment(): the cached one; of Empty and UnknownNode the identity.
Commitment(n) ==
    CASE n.kind = "internal" /\ n.comm # NoChildren -> [children |-> n.comm]
      [] n.kind \in {"leaf", "stub"} -> [stem |-> n.stem, c |-> n.comm]
      [] OTHER -> Identity

\* What is there after the difference between old and new was added.
Updated(there, old, new) ==
    IF old = new THEN there ELSE IF there = old THEN new ELSE Wrong

\* A half c of a leaf after the values at some suffixes were replaced.
UpdatedHalf(c, old, new) ==
    CASE DOMAIN new = {} -> c
      [] DOMAIN new # {} /\ c # Wrong /\ (\A s \in DOMAIN new : ValueIn(c.values, s) = ValueIn(old, s)) ->
             [values |-> Over(new, c.values)]
      [] OTHER -> Wrong

UpdateMultipleLeaves(leaf, values) ==
    LET c == [h \in 1 .. 2 |->
                 UpdatedHalf(leaf.c[h], leaf.values, HalfOf(values, h).values)]
    IN  [leaf EXCEPT !.values = Over(values, leaf.values), !.c = c,
                     !.comm = [h \in 1 .. 2 |-> Updated(@[h], leaf.c[h], c[h])]]

\* A half that became empty by a deletion has no commitment left to update.  It
\* holds none of the values that are written there, so the first of them panics;
\* the tree of a program that panicked is not followed further.
Panics(t, stem, values) ==
    \E p \in Path : /\ t[p].kind = "leaf" /\ t[p].stem = stem
                    /\ \E s \in DOMAIN values : t[p].c[Half(s)] = Nil

-----------------------------------------------------------------------------
(* Insertion.                                                              *)

\* The first node on the way of a stem that is not an internal one.
Terminal(t, stem) ==
    Prefix(stem, Min({n \in 1 .. StemSize : t[Prefix(stem, n)].kind # "internal"}))

\* (A variant, used nowhere, like the others: the old commitment is not kept.)
CowOverwrites(t, stem, n) ==
    [p \in Path |->
        IF Len(p) < n /\ IsPrefix(p, stem)
        THEN LET w == stem[Len(p) + 1]
             IN  [t[p] EXCEPT !.cow = Over([x \in {w} |-> Commitment(t[Append(p, x)])], @)]
        ELSE t[p]]

\* cowChild in the internal nodes on the first n steps of the way.
CowChildren(t, stem, n) ==
    [p \in Path |->
        IF Len(p) < n /\ IsPrefix(p, stem)
        THEN LET w == stem[Len(p) + 1]
             IN  [t[p] EXCEPT !.cow = Over(@, [x \in {w} |-> Commitment(t[Append(p, x)])])]
        ELSE t[p]]

\* The first byte two stems differ in.
Parting(r, s) == Min({n \in 1 .. StemSize : r[n] # s[n]})

\* New internal nodes from p down to where the stems part, the leaves below, and
\* nothing else.
Fork(t, p, leaf, new) ==
    LET parting == Parting(leaf.stem, new.stem)
    IN  [q \in Path |->
            CASE IsPrefix(q, new.stem) /\ Len(p) <= Len(q) /\ Len(q) < parting ->
                     Internal(NoChildren,
                              [w \in {leaf.stem[Len(q) + 1], new.stem[Len(q) + 1]} |-> Identity])
              [] q = Prefix(leaf.stem, parting) -> leaf
              [] q = Prefix(new.stem, parting) -> new
              [] OTHER -> IF IsPrefix(p, q) THEN EmptyNode ELSE t[q]]

\* InsertValuesAtStem; into an unknown node or a stub of the same stem it fails.
InsertValuesAtStem(t, stem, values) ==
    LET p == Terminal(t, stem)
        marked == CowChildren(t, stem, Len(p))
    IN  CASE t[p].kind = "empty" -> [marked EXCEPT ![p] = NewLeaf(stem, values)]
          [] t[p].kind = "leaf" /\ t[p].stem = stem ->
                 [marked EXCEPT ![p] = UpdateMultipleLeaves(@, values)]
          [] t[p].kind \in {"leaf", "stub"} /\ t[p].stem # stem ->
                 Fork(marked, p, t[p], NewLeaf(stem, values))
          [] OTHER -> t

Insert ==
    \E write \in Writes :
        LET stem == write[1]
            values == write[2]
        IN  /\ ~panicked
            /\ IF Panics(tree, stem, values)
               THEN panicked' = TRUE /\ UNCHANGED <<tree, content>>
               ELSE /\ tree' = InsertValuesAtStem(tree, stem, values)
                    /\ content' = [content EXCEPT ![stem] = Over(values, @)]
                    /\ UNCHANGED panicked
            /\ UNCHANGED <<deleted, unmarked>>

-----------------------------------------------------------------------------
(* Migration of whole leaves: what the tree holds is newer and stays.      *)

MigrateLeaf(t, write) ==
    LET stem == write[1]
        p == Terminal(t, stem)
        absent == Restrict(write[2], DOMAIN write[2] \ DOMAIN t[p].values)
    IN  IF t[p].kind = "leaf" /\ t[p].stem = stem
        THEN [CowChildren(t, stem, Len(p) - 1) EXCEPT ![p] = UpdateMultipleLeaves(@, absent)]
        ELSE InsertValuesAtStem(t, stem, write[2])

\* First the children of the root on the ways are marked, then leaf after leaf goes in.
InsertMigratedLeaves(t, leaves) ==
    LET marked[k \in 0 .. Len(leaves)] ==
            IF k = 0 THEN t ELSE CowChildren(marked[k - 1], leaves[k][1], 1)
        migrated[k \in 0 .. Len(leaves)] ==
            IF k = 0 THEN marked[Len(leaves)] ELSE MigrateLeaf(migrated[k - 1], leaves[k])
    IN  migrated[Len(leaves)]

\* What the tree holds after it, given what it held.
ContentMigrated(c, leaves) ==
    LET held[k \in 0 .. Len(leaves)] ==
            IF k = 0 THEN c
            ELSE [held[k - 1] EXCEPT ![leaves[k][1]] = Over(@, leaves[k][2])]
    IN  held[Len(leaves)]

\* A leaf that changes below the children of the root is not marked in its parent.
Unmarks(t, leaves) ==
    \E k \in DOMAIN leaves :
        LET p == Terminal(t, leaves[k][1])
        IN  /\ Len(p) > 1 /\ t[p].kind = "leaf" /\ t[p].stem = leaves[k][1]
            /\ Last(p) \notin DOMAIN t[Front(p)].cow
            /\ ~(DOMAIN leaves[k][2] \subseteq DOMAIN t[p].values)

Migrate ==
    \E leaves \in Migrations :
        /\ ~panicked
        /\ IF \E k \in DOMAIN leaves : Panics(tree, leaves[k][1], leaves[k][2])
           THEN panicked' = TRUE /\ UNCHANGED <<tree, content, unmarked>>
           ELSE /\ tree' = InsertMigratedLeaves(tree, leaves)
                /\ content' = ContentMigrated(content, leaves)
                /\ unmarked' = (unmarked \/ Unmarks(tree, leaves))
                /\ UNCHANGED panicked
        /\ UNCHANGED deleted

-----------------------------------------------------------------------------
(* Deletion of a value.                                                    *)

\* The node at p goes, and above it the internal nodes that have no child left.
RemoveNode(t, p) ==
    LET lonely == {q \in Path : /\ q # <<>> /\ IsPrefix(q, p)
                                /\ \A x \in Path : IsPrefix(q, x) /\ t[x].kind # "empty" =>
                                       IsPrefix(x, p)}
    IN  [q \in Path |-> IF q \in lonely THEN EmptyNode ELSE t[q]]

DeleteFromLeaf(leaf, s) ==
    LET left == Restrict(leaf.values, DOMAIN leaf.values \ {s})
        h == Half(s)
    IN  IF HalfOf(left, h) = Identity
        THEN [leaf EXCEPT !.values = left, !.c[h] = Nil,
                          !.comm[h] = Updated(@, leaf.c[h], Identity)]
        ELSE LET c == Updated(leaf.c[h], HalfOf(leaf.values, h), HalfOf(left, h))
             IN  [leaf EXCEPT !.values = left, !.c[h] = c,
                              !.comm[h] = Updated(@, leaf.c[h], c)]

\* A leaf goes with its last value.  Where there is no leaf of the stem only the
\* children on the way are marked.
DeleteValue(t, key) ==
    LET p == Terminal(t, key[1])
        marked == CowChildren(t, key[1], IF t[p].kind = "empty" THEN Len(p) - 1 ELSE Len(p))
    IN  IF t[p].kind = "empty" \/ t[p].stem # key[1] THEN marked
        ELSE IF DOMAIN t[p].values \subseteq {key[2]} THEN RemoveNode(marked, p)
        ELSE [marked EXCEPT ![p] = DeleteFromLeaf(@, key[2])]

\* To empty a half that was emptied before uses its nil commitment.
DeletePanics(t, key) ==
    LET n == t[Terminal(t, key[1])]
    IN  /\ n.kind = "leaf" /\ n.stem = key[1] /\ ~(DOMAIN n.values \subseteq {key[2]})
        /\ n.c[Half(key[2])] = Nil

Delete ==
    \E key \in Keys :
        /\ ~panicked /\ deleted' = TRUE
        /\ IF DeletePanics(tree, key)
           THEN panicked' = TRUE /\ UNCHANGED <<tree, content>>
           ELSE /\ tree' = DeleteValue(tree, key)
                /\ content' = [content EXCEPT ![key[1]] = Restrict(@, DOMAIN @ \ {key[2]})]
                /\ UNCHANGED panicked
        /\ UNCHANGED unmarked

-----------------------------------------------------------------------------
(* Commit: from the deepest level up, the touched children of the nodes    *)
(* that were touched themselves.                                           *)

FillLevels(t) ==
    {p \in Path : /\ t[p].kind = "internal" /\ t[p].cow # <<>>
                  /\ \A n \in 0 .. Len(p) - 1 : p[n + 1] \in DOMAIN t[Prefix(p, n)].cow}

CommitNode(t, p) ==
    [t[p] EXCEPT !.cow = <<>>,
                 !.comm = [w \in Word |-> IF w \in DOMAIN t[p].cow
                               THEN Updated(@[w], t[p].cow[w], Commitment(t[Append(p, w)]))
                               ELSE @[w]]]

CommitTree(t) ==
    LET nodes == FillLevels(t)
        commitLevel(u, depth) ==
            [p \in Path |-> IF p \in nodes /\ Len(p) = depth THEN CommitNode(u, p) ELSE u[p]]
        from[depth \in 0 .. StemSize] ==
            IF depth = StemSize THEN t ELSE commitLevel(from[depth + 1], depth)
    IN  from[0]

Commit ==
    /\ ~panicked /\ tree[<<>>].cow # <<>>
    /\ tree' = CommitTree(tree)
    /\ UNCHANGED <<content, deleted, unmarked, panicked>>

-----------------------------------------------------------------------------
(* Reading.                                                                *)

Get(t, key) ==
    LET n == t[Terminal(t, key[1])]
    IN  CASE n.kind = "unknown" \/ (n.kind = "stub" /\ n.stem = key[1]) -> Failure
          [] n.kind = "leaf" /\ n.stem = key[1] -> ValueIn(n.values, key[2])
          [] OTHER -> Absent

EmptyTree == [p \in Path |-> IF p = <<>> THEN Internal(NoChildren, <<>>) ELSE EmptyNode]

VerkleInit ==
    /\ tree = EmptyTree /\ content = [s \in Stem |-> <<>>]
    /\ deleted = FALSE /\ unmarked = FALSE /\ panicked = FALSE

VerkleNext == Insert \/ Migrate \/ Delete \/ Commit

VerkleSpec == VerkleInit /\ [][VerkleNext]_verkleVars

LeafWith(stem, values) == [stem |-> stem, c |-> <<HalfOf(values, 1), HalfOf(values, 2)>>]
ChildrenOf(value, q) == [children |-> [w \in Word |-> value[Append(q, w)]]]
StemsBelow(c, q) == {s \in Stem : IsPrefix(q, s) /\ c[s] # <<>>}

\* What a node at q stands for, computed from the values alone.
StandsFor(c) ==
    LET value[q \in Path] ==
            LET stems == StemsBelow(c, q)
                stem == CHOOSE s \in stems : TRUE
            IN  IF stems = {} THEN Identity
                ELSE IF q # <<>> /\ stems = {stem} THEN LeafWith(stem, c[stem])
                ELSE ChildrenOf(value, q)
    IN  value[<<>>]

\* The same for the shape the tree has, which a deletion does not undo.
Recomputed(t) ==
    LET value[q \in Path] ==
            IF t[q].kind = "leaf" THEN LeafWith(t[q].stem, t[q].values)
            ELSE IF t[q].kind = "internal" THEN ChildrenOf(value, q) ELSE Identity
    IN  value[<<>>]

\* The tree answers like the dictionary that was written to it, and its root, kept
\* up to date by differences over any sequence of insertions, deletions,
\* migrations and commits, is the commitment to the values: without deletions the
\* same for every order, with them the one of the present shape.  A migration
\* into a leaf below the children of the root goes unnoticed above (unmarked),
\* and a panic needs a half that a deletion emptied.
TreeIsMap ==
    LET committed == ~panicked /\ ~unmarked /\ tree[<<>>].cow = <<>>
    IN  /\ \A s \in Stem, suffix \in Suffix :
               Get(tree, <<s, suffix>>) = ValueIn(content[s], suffix)
        /\ committed /\ content # [s \in Stem |-> <<>>] =>
               Commitment(tree[<<>>]) = IF deleted THEN Recomputed(tree) ELSE StandsFor(content)
        /\ panicked => deleted
=============================================================================
