------------------------------- MODULE Merkle -------------------------------
(***************************************************************************)
(* The Merkle tree of a snapshot and the proofs of inclusion in it         *)
(* (services/api/src/voting_proofs.rs).  A leaf is any value.  The hash of *)
(* two nodes is the pair of them: hashes are taken to have no collisions.  *)
(*                                                                         *)
(* A definition marked FAULT is not part of the model: it is the next      *)
(* definition with a plausible mistake, which a property has to notice.    *)
(***************************************************************************)
EXTENDS Naturals, Sequences

HashNode(left, right) == <<left, right>>

(* A level of the tree from the one below.  A last node that is alone is   *)
(* paired with itself.                                                     *)
NextLevel(level) ==
    [i \in 1..((Len(level) + 1) \div 2) |->
        HashNode(level[2 * i - 1],
                 IF 2 * i <= Len(level) THEN level[2 * i]
                                        ELSE level[2 * i - 1])]

(* All of the levels, from the leaves up to the root and beyond. *)
Levels(leaves) ==
    LET level[k \in 0..Len(leaves)] ==
            IF k = 0 THEN leaves ELSE NextLevel(level[k - 1])
    IN  level

(* How many levels are above the leaves. *)
Height(leaves) ==
    CHOOSE k \in 0..Len(leaves) :
        /\ Len(Levels(leaves)[k]) = 1
        /\ \A j \in 0..(k - 1) : Len(Levels(leaves)[j]) > 1

MerkleRoot(leaves) ==
    IF leaves = <<>> THEN <<"empty">> ELSE Levels(leaves)[Height(leaves)][1]

(* FAULT: a last node that is alone is shown with the one before it. *)
SiblingBefore(level, i) ==
    IF i % 2 = 1 /\ i < Len(level) THEN i + 1 ELSE IF i = 1 THEN 1 ELSE i - 1

(* The code counts from 0. *)
Sibling(level, i) ==
    IF i % 2 = 1 THEN IF i < Len(level) THEN i + 1 ELSE i ELSE i - 1

(* The place of leaf i on each level, on its way to the root. *)
Path(leaves, i) ==
    LET at[k \in 0..Height(leaves)] ==
            IF k = 0 THEN i ELSE (at[k - 1] + 1) \div 2
    IN  at

(* The steps from leaf i to the root. *)
MerkleProof(leaves, i) ==
    LET level(k) == Levels(leaves)[k]
        at(k) == Path(leaves, i)[k]
    IN  [k \in 1..Height(leaves) |->
            [position |-> IF at(k - 1) % 2 = 1 THEN "right" ELSE "left",
             hash |-> level(k - 1)[Sibling(level(k - 1), at(k - 1))]]]

(* What a proof makes of a leaf, step by step. *)
Hashes(leaf, proof) ==
    LET hash[k \in 0..Len(proof)] ==
            IF k = 0 THEN leaf
            ELSE IF proof[k].position = "left"
                 THEN HashNode(proof[k].hash, hash[k - 1])
                 ELSE HashNode(hash[k - 1], proof[k].hash)
    IN  hash

VerifyProof(leaf, proof, root) == Hashes(leaf, proof)[Len(proof)] = root
=============================================================================
