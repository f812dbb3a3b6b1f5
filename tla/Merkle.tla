------------------------------- MODULE Merkle -------------------------------
(***************************************************************************)
(* The Merkle tree and the sparse Merkle tree (crypto/merkle.rs).  A hash  *)
(* of a pair is the pair: no two pairs have the same hash.  The XOR of two *)
(* hashes of the sparse tree is the symmetric difference of two sets of    *)
(* hashes, whose bits are those of each element.                           *)
(***************************************************************************)
EXTENDS Integers, Sequences, FiniteSets
LOCAL INSTANCE SequencesExt

CONSTANTS MerkleLeaves,   \* hashes of transactions
          MerkleMaxLeaves, \* bound: leaves of the tree
          SmtDepth,       \* 256 in the code
          SmtValues       \* hashes of accounts

VARIABLES leaves,    \* the leaves of MerkleTree::new
          updates    \* the (key, value) pairs of root_from_updates

merkleVars == <<leaves, updates>>

SmtKeys == [1..SmtDepth -> {0, 1}]

MerkleTypeOK == leaves \in Seq(MerkleLeaves) /\ updates \in Seq(SmtKeys \X SmtValues)

MerkleInit == leaves = <<>> /\ updates = <<>>

(* hash_merkle_pair                                                         *)
hash_merkle_pair(left, right) == <<left, right>>

(* One turn of the loop of MerkleTree::new: a last odd node is paired with  *)
(* itself.                                                                  *)
MerkleNextLevel(level) ==
    [i \in 1 .. (Len(level) + 1) \div 2 |->
        hash_merkle_pair(level[2 * i - 1], IF 2 * i <= Len(level) THEN level[2 * i]
                                           ELSE level[2 * i - 1])]

(* The levels of the tree, the leaves first and the root last.              *)
MerkleLevels(seq) ==
    FoldLeft(LAMBDA levels, i : IF Len(Last(levels)) > 1
                                THEN Append(levels, MerkleNextLevel(Last(levels))) ELSE levels,
             <<seq>>, [i \in DOMAIN seq |-> i])

MerkleRoot(seq) == IF seq = <<>> THEN <<>> ELSE Last(MerkleLevels(seq))[1]

(* generate_proof: on every level but the last, the sibling of the node     *)
(* above the leaf, or the node itself where it has none.                    *)
generate_proof_mutant(seq, leaf) ==
    LET levels == MerkleLevels(seq)
        Node(n) == LET index == (leaf - 1) \div 2^(n - 1)
                   IN [hash |-> levels[n][IF index + 2 <= Len(levels[n]) THEN index + 2
                                          ELSE index + 1],
                       left |-> FALSE]
    IN [n \in 1 .. Len(levels) - 1 |-> Node(n)]

generate_proof(seq, leaf) ==
    LET levels == MerkleLevels(seq)
        Node(n) == LET index == (leaf - 1) \div 2^(n - 1)
                       isLeft == index % 2 = 0
                       sibling == IF isLeft THEN index + 1 ELSE index - 1
                   IN IF sibling < Len(levels[n])
                      THEN [hash |-> levels[n][sibling + 1], left |-> ~isLeft]
                      ELSE [hash |-> levels[n][index + 1], left |-> FALSE]
    IN [n \in 1 .. Len(levels) - 1 |-> Node(n)]

(* MerkleProof::verify                                                      *)
MerkleVerify(leaf, proof, root) ==
    root = FoldLeft(LAMBDA hash, node : IF node.left THEN hash_merkle_pair(node.hash, hash)
                                        ELSE hash_merkle_pair(hash, node.hash),
                    leaf, proof)

(* The default hash of a depth of the sparse tree.                          *)
SmtDefault(depth) ==
    FoldLeft(LAMBDA hash, i : hash_merkle_pair(hash, hash), <<>>, [i \in 1..depth |-> i])

(* The node that one update contributes, and the XOR that combines them.    *)
SmtPath(update) ==
    FoldLeft(LAMBDA node, d : IF update[1][d] = 0
                              THEN hash_merkle_pair(node, SmtDefault(d - 1))
                              ELSE hash_merkle_pair(SmtDefault(d - 1), node),
             <<update[2]>>, [d \in 1..SmtDepth |-> d])

SmtXor(a, b) == (a \ b) \cup (b \ a)

root_from_updates(seq) ==
    FoldLeft(LAMBDA root, u : SmtXor(root, {SmtPath(u)}), {SmtDefault(SmtDepth)}, seq)

(* A list of leaves or of updates is built one at a time; compute_state_root *)
(* has one update for every account it knows of.                           *)
MerkleNext ==
    \/ /\ updates = <<>> /\ Len(leaves) < MerkleMaxLeaves
       /\ \E x \in MerkleLeaves : leaves' = Append(leaves, x)
       /\ UNCHANGED updates
    \/ /\ leaves = <<>>
       /\ \E k \in SmtKeys, v \in SmtValues :
            /\ \A i \in DOMAIN updates : updates[i][1] # k
            /\ updates' = Append(updates, <<k, v>>)
       /\ UNCHANGED leaves
-----------------------------------------------------------------------------
(* The proof of every leaf verifies against the root, and the same proof    *)
(* verifies for no other leaf.  About generate_proof and verify, the odd    *)
(* last node of a level included.                                           *)
MerkleProofsSound ==
    \A i \in DOMAIN leaves : \A x \in MerkleLeaves :
        MerkleVerify(x, generate_proof(leaves, i), MerkleRoot(leaves)) <=> x = leaves[i]

(* The state root does not depend on the order in which compute_state_root  *)
(* lists the dirty accounts, which is the order of a hash map and differs   *)
(* from node to node; and no account can be left out without changing it.   *)
(* About root_from_updates.                                                 *)
StateRootOrderFree ==
    \A i \in DOMAIN updates :
        LET rest == SubSeq(updates, 1, i - 1) \o SubSeq(updates, i + 1, Len(updates))
        IN /\ root_from_updates(Append(rest, updates[i])) = root_from_updates(updates)
           /\ root_from_updates(rest) # root_from_updates(updates)

(* Both trees of crypto/merkle.rs commit to exactly their contents: the     *)
(* tree by proofs that verify for the leaf they were made for and no other, *)
(* the sparse one by a root that every account changes and no order does.   *)
TreesSound == MerkleProofsSound /\ StateRootOrderFree
=============================================================================
