---------------------------- MODULE MerkleSorted ----------------------------
(***************************************************************************)
(* The Merkle allowlist verifier of lib.rs: allowlist_leaf and             *)
(* verify_merkle_sorted (lines 918-942), checked against the off-chain     *)
(* tree builder that spec section 4.4 describes as an external contract.   *)
(*                                                                         *)
(* Digests. sha256 is a perfect hash: a digest is the term it hashes, a   *)
(* leaf [leaf |-> c] for allowlist_leaf(c) and a pair [l, r] for         *)
(* hashv(l || r). The two never collide (the preimages have different      *)
(* lengths: 15 + 32 bytes for a leaf, 64 bytes for a pair). The byte-wise  *)
(* comparison "computed <= p" is a total order on digests: DigestLeq       *)
(* orders leaves by LeafCode, puts leaves before pairs and compares pairs  *)
(* lexicographically.                                                      *)
(*                                                                         *)
(* One verification is one step: Init picks the published tree, the       *)
(* claimer and the proof it submits, and Verify runs the function.         *)
(***************************************************************************)
EXTENDS Naturals, Sequences, SequencesExt

CONSTANTS
    Claimers,     \* claimer keys
    Outsider,     \* a key that is never on the allowlist
    LeafCode,     \* the rank of each key's leaf among the leaf digests
    MaxLeaves,    \* the largest tree the builder publishes
    MaxProofLen   \* the longest forged proof submitted

ASSUME Outsider \notin Claimers
ASSUME LeafCode \in [Claimers \cup {Outsider} -> Nat]
ASSUME \A a, b \in Claimers \cup {Outsider} : a # b => LeafCode[a] # LeafCode[b]

VARIABLES
    tree,      \* the leaves of the published allowlist, in builder order
    claimer,   \* the signer of claim_grant_with_proof
    proof,     \* the proof: Vec<[u8; 32]>
    done,      \* verify_merkle_sorted has returned
    verified   \* what it returned

vars == <<tree, claimer, proof, done, verified>>

(* hashv over two 32-byte digests. *)
Hashv(l, r) == [l |-> l, r |-> r]

IsLeaf(d) == DOMAIN d = {"leaf"}

RECURSIVE DigestLeq(_, _)
DigestLeq(a, b) ==
    CASE IsLeaf(a) /\ IsLeaf(b) -> LeafCode[a.leaf] <= LeafCode[b.leaf]
      [] IsLeaf(a) -> TRUE
      [] IsLeaf(b) -> FALSE
      [] OTHER -> IF a.l = b.l THEN DigestLeq(a.r, b.r) ELSE DigestLeq(a.l, b.l)

(* A digest that no tree of this allowlist contains: a leaf of a key      *)
(* outside Claimers.                                                       *)
ForeignDigest == [leaf |-> Outsider]

(* allowlist_leaf: sha256("we-ne:allowlist" || claimer). *)
AllowlistLeafTagOnly(c) == [leaf |-> Outsider]
AllowlistLeaf(c) == [leaf |-> c]

(* One iteration of the loop: hash the sorted pair of the running value   *)
(* and the next proof element.                                            *)
MerkleStepUnsorted(computed, p) == Hashv(computed, p)
MerkleStep(computed, p) ==
    IF DigestLeq(computed, p) THEN Hashv(computed, p) ELSE Hashv(p, computed)

(* verify_merkle_sorted: fold the proof from the leaf, compare to root. *)
VerifyMerkleSorted(root, leaf, prf) == FoldLeft(MerkleStep, leaf, prf) = root

-----------------------------------------------------------------------------
(* The off-chain builder (spec 4.4): pairs neighbours with the same        *)
(* sorted-pair rule and carries an odd last node up unchanged.             *)

BuilderPair(a, b) == IF DigestLeq(a, b) THEN Hashv(a, b) ELSE Hashv(b, a)

NextLevel(l) ==
    [j \in 1..((Len(l) + 1) \div 2) |->
        IF 2 * j <= Len(l) THEN BuilderPair(l[2*j-1], l[2*j]) ELSE l[2*j-1]]

RECURSIVE RootOf(_)
RootOf(l) == IF Len(l) = 1 THEN l[1] ELSE RootOf(NextLevel(l))

(* The sibling path of position k, from the leaf upwards. *)
RECURSIVE PathOf(_, _)
PathOf(l, k) ==
    IF Len(l) = 1 THEN <<>>
    ELSE LET sib == IF k % 2 = 1 THEN k + 1 ELSE k - 1
         IN  (IF sib <= Len(l) THEN <<l[sib]>> ELSE <<>>)
             \o PathOf(NextLevel(l), (k + 1) \div 2)

LeafLevel(t) == [j \in 1..Len(t) |-> AllowlistLeaf(t[j])]
TreeRoot(t) == RootOf(LeafLevel(t))
HonestProof(t, c) == PathOf(LeafLevel(t), IndexFirstSubSeq(<<c>>, t))

(* Every digest of the tree, level by level. *)
RECURSIVE DigestsOf(_)
DigestsOf(l) == Range(l) \cup (IF Len(l) = 1 THEN {} ELSE DigestsOf(NextLevel(l)))

-----------------------------------------------------------------------------
(* Inputs: every allowlist of distinct claimers up to MaxLeaves, every     *)
(* claimer, and as proof the honest path of the claimer (when a member)    *)
(* or any sequence of the tree's own digests or a foreign digest.          *)

Trees == UNION {{t \in [1..n -> Claimers] : IsInjective(t)} : n \in 1..MaxLeaves}

Proofs(t, c) ==
    (IF c \in Range(t) THEN {HonestProof(t, c)} ELSE {})
    \cup BoundedSeq(DigestsOf(LeafLevel(t)) \cup {ForeignDigest}, MaxProofLen)

Init ==
    /\ tree \in Trees
    /\ claimer \in Claimers
    /\ proof \in Proofs(tree, claimer)
    /\ done = FALSE
    /\ verified = FALSE

(* claim_grant_with_proof, lines 241-245: the leaf of the signer is        *)
(* folded with the submitted proof against the grant's merkle_root.        *)
Verify ==
    /\ ~done
    /\ done' = TRUE
    /\ verified' = VerifyMerkleSorted(TreeRoot(tree), AllowlistLeaf(claimer), proof)
    /\ UNCHANGED <<tree, claimer, proof>>

Next == Verify

Spec == Init /\ [][Next]_vars

-----------------------------------------------------------------------------
(* Completeness of the external contract: for every allowlist the builder  *)
(* publishes (odd sizes included) and every member, the path the builder   *)
(* hands out folds to the root under verify_merkle_sorted's sorted-pair    *)
(* rule, whichever side of each pair the member's digest falls on.         *)
MembersVerify ==
    (done /\ claimer \in Range(tree)
        /\ proof = HonestProof(tree, claimer)) => verified = TRUE

(* Soundness: no proof built from the tree's digests or a foreign digest   *)
(* lets a claimer outside the allowlist pass verify_merkle_sorted, so the  *)
(* NotInAllowlist check admits only members.                              *)
OnlyMembersVerify ==
    verified = TRUE => claimer \in Range(tree)

=============================================================================
