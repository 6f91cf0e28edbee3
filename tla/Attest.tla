------------------------------- MODULE Attest -------------------------------
(***************************************************************************)
(* The evidence one payment's ledger entries are handed out with: the      *)
(* Merkle tree of internal/attest over the chain hashes of the ledger, and *)
(* the bundle meshctl evidence cuts from it while the ledger grows.        *)
(* SHA-256 is free: a hash is the tuple of what was hashed, so that two    *)
(* hashes are equal only when their inputs are.                            *)
(***************************************************************************)
EXTENDS Naturals, Sequences

CONSTANTS
    Payments,       \* incidents the entries belong to
    MaxEntries      \* entries the ledger may reach (a bound)

ASSUME AttestAssumption == MaxEntries \in Nat \ {0}

VARIABLES
    entries,        \* [inc, edited] in ledger order: the rows of audit_log
    bundle          \* the last bundle written, or NoBundle

attestVars == <<entries, bundle>>

-----------------------------------------------------------------------------
(* The tree *)

\* AuditEntry.Hash covers the entry's number and its content.
Digest(es, k) == <<k, es[k].inc>>

LeafHash(digest) == <<"leaf", digest>>

NodeHash(left, right) == <<"node", left, right>>

\* An odd level's last node goes up unchanged, where other trees double it.
Twinned(n) == NodeHash(n, n)

Promoted(n) == n

\* A round of the loop of New.
Parents(level) ==
    [i \in 1..((Len(level) + 1) \div 2) |->
        IF 2 * i > Len(level) THEN Promoted(level[2 * i - 1])
                              ELSE NodeHash(level[2 * i - 1], level[2 * i])]

\* The levels over digests, the leaves first.  A round halves the level, so
\* that as many rounds as there are digests leave a single node.
Levels(digests) ==
    LET level[h \in 0..Len(digests)] ==
            IF h = 0 THEN [k \in DOMAIN digests |-> LeafHash(digests[k])]
                     ELSE Parents(level[h - 1])
    IN  level

\* The loop of New ends with the first level of one node.
Top(level) ==
    CHOOSE h \in DOMAIN level : Len(level[h]) = 1 /\ \A k \in 0..(h - 1) : Len(level[k]) > 1

\* New: tree[1] holds the leaves, the last level the root.
Tree(digests) ==
    LET level == Levels(digests)
    IN  [h \in 1..(Top(level) + 1) |-> level[h - 1]]

Root(tree) == tree[Len(tree)][1]

Sibling(idx) == IF idx % 2 = 0 THEN idx + 1 ELSE idx - 1

\* A round of ProofFor's loop: the sibling at this level, which a promoted node
\* does not have, and the index one level up.  Indices count from 0, as in the
\* code.
Up(level, at) ==
    [idx |-> at.idx \div 2,
     path |-> IF Sibling(at.idx) < Len(level)
                THEN Append(at.path,
                            [hash |-> level[Sibling(at.idx) + 1],
                             side |-> IF Sibling(at.idx) > at.idx THEN "right" ELSE "left"])
                ELSE at.path]

Climb(tree, index) ==
    LET climb[h \in 0..(Len(tree) - 1)] ==
            IF h = 0 THEN [idx |-> index, path |-> <<>>] ELSE Up(tree[h], climb[h - 1])
    IN  climb

ProofFor(tree, index) ==
    [leafIndex |-> index, treeSize |-> Len(tree[1]), entryHash |-> tree[1][index + 1],
     path |-> Climb(tree, index)[Len(tree) - 1].path, root |-> Root(tree)]

Combine(cur, step) ==
    IF step.side = "right" THEN NodeHash(cur, step.hash) ELSE NodeHash(step.hash, cur)

Folded(leaf, path) ==
    LET cur[n \in 0..Len(path)] == IF n = 0 THEN leaf ELSE Combine(cur[n - 1], path[n])
    IN  cur

\* VerifyProof, given the digest the verifier recomputed.
VerifyProof(digest, p) ==
    /\ p.treeSize > 0 /\ p.leafIndex >= 0 /\ p.leafIndex < p.treeSize
    /\ LeafHash(digest) = p.entryHash
    /\ Folded(LeafHash(digest), p.path)[Len(p.path)] = p.root

-----------------------------------------------------------------------------
(* The ledger and the command *)

Digests(es) == [k \in DOMAIN es |-> Digest(es, k)]

NoBundle == [root |-> "none"]

\* Ledger.Append.
AppendEntry(inc) ==
    /\ Len(entries) < MaxEntries
    /\ entries' = Append(entries, [inc |-> inc, edited |-> FALSE])
    /\ UNCHANGED bundle

\* A row changed in place: the chain no longer verifies from there.
EditEntry(k) ==
    /\ entries' = [entries EXCEPT ![k].edited = TRUE]
    /\ UNCHANGED bundle

ChainHolds == \A k \in DOMAIN entries : ~entries[k].edited

Of(es, inc) == {k \in DOMAIN es : es[k].inc = inc}

\* cmdEvidence: refused for a broken chain or a payment with no entry.
CutBundle(inc) ==
    /\ ChainHolds
    /\ Of(entries, inc) # {}
    /\ LET tree == Tree(Digests(entries))
       IN  bundle' = [root |-> Root(tree), inc |-> inc, size |-> Len(entries),
                      proofs |-> [k \in Of(entries, inc) |-> ProofFor(tree, k - 1)]]
    /\ UNCHANGED entries

AttestInit == entries = <<>> /\ bundle = NoBundle

AttestNext ==
    \/ \E inc \in Payments : AppendEntry(inc) \/ CutBundle(inc)
    \/ \E k \in DOMAIN entries : EditEntry(k)

AttestSpec == AttestInit /\ [][AttestNext]_attestVars

-----------------------------------------------------------------------------
(* Properties *)

\* Types of the ledger and the bundle.
AttestTypeOK ==
    /\ entries \in Seq([inc : Payments, edited : BOOLEAN])
    /\ Len(entries) <= MaxEntries
    /\ bundle # NoBundle => bundle.inc \in Payments /\ bundle.size \in 1..MaxEntries

\* A bundle proves every entry its payment had when it was cut, and none of
\* its proofs holds for another entry of the ledger: a recipient who folds the
\* paths is told neither less nor more than the ledger says (merkle.go:19-23).
BundleProves ==
    bundle # NoBundle =>
        LET es == SubSeq(entries, 1, bundle.size)
        IN  /\ DOMAIN bundle.proofs = Of(es, bundle.inc)
            /\ \A k \in DOMAIN bundle.proofs, j \in DOMAIN es :
                   VerifyProof(Digest(es, j), bundle.proofs[k]) <=> j = k

\* One root commits to one ledger: another history of the same payments, of
\* any length, has another root, and so has every shorter prefix of this one
\* (merkle.go:91-94).
RootCommits ==
    bundle # NoBundle =>
        \A n \in 1..MaxEntries : \A other \in [1..n -> Payments] :
            LET Same == n = bundle.size /\ \A k \in 1..n : other[k] = entries[k].inc
                digests == [k \in 1..n |-> <<k, other[k]>>]
            IN  Root(Tree(digests)) = bundle.root => Same

\* A recipient who trusts nothing but the root learns what the ledger said of
\* a payment, no more and no less.
EvidenceSound == AttestTypeOK /\ BundleProves /\ RootCommits

=============================================================================
