------------------------------ MODULE LiabilityTree ------------------------------
(***************************************************************************)
(* The v2 statement and what its users can check: an issuer proves with    *)
(* por_v2.circom that its reserves cover the total of a Merkle-sum tree    *)
(* and the contract keeps (liabRoot, liabTotal); a user proves with        *)
(* inclusion.circom that its balance is a leaf under that root.  Issuer    *)
(* and users assign any field elements to their private inputs.            *)
(*                                                                         *)
(* Poseidon is taken as binding: a hash is the tuple of what was hashed,   *)
(* so two hashes are equal only if their inputs are.  Salts hide and do    *)
(* not bind more, and are left out.                                        *)
(***************************************************************************)
EXTENDS CircuitComponents, FiniteSets, FiniteSetsExt, Functions

CONSTANTS
    UserId,
    NReserves,   \* nReserves
    Depth,       \* depth of the tree
    TreeCandidate   \* the field elements that provers try as amounts

NLeaves == 2^Depth

(* cmpBits = max(resBits + 5, resBits + depth) + 1 *)
CmpLimit == 2 * BalLimit * (IF Depth > 5 THEN NLeaves ELSE 32)

ASSUME TreeAssumption ==
    /\ {NReserves, BalLimit} \subseteq Nat \ {0} /\ Depth \in Nat
    /\ NReserves <= 16
    /\ 2 * CmpLimit <= P
    /\ TreeCandidate \subseteq Field

VARIABLES
    attested,   \* None, or the tree, total and reserves of the attested proof
    included    \* <<user, balance>> of the inclusion proofs that verify

treeVars == <<attested, included>>

Leaf == [user : UserId, balance : TreeCandidate]
Reserves == [1..NReserves -> TreeCandidate]

FieldSum(f) == MapThenSumSet(LAMBDA j : f[j], DOMAIN f) % P

-----------------------------------------------------------------------------
(* Faults: the leaf hash leaves out the user; balances are not checked.    *)
HashesBalanceOnly(user, balance) == <<balance>>

LeafHash(user, balance) == <<user, balance>>

AnyBalance(x) == TRUE

LeafRange(x) == RangeCheck(BalLimit, x)

(* MerkleSumNode *)
Node(l, r) ==
    [hash |-> <<l.hash, l.sum, r.hash, r.sum>>, sum |-> FieldAdd(l.sum, r.sum)]

LeafNode(leaf) == [hash |-> LeafHash(leaf.user, leaf.balance), sum |-> leaf.balance]

NodesAbove(below, n) == [j \in 1..n |-> Node(below[2 * j - 1], below[2 * j])]

(* MerkleSumRoot: the nodes by level, the leaves at level 0. *)
Levels(leaves) ==
    LET level[k \in 0..Depth] ==
            IF k = 0 THEN [j \in 1..NLeaves |-> LeafNode(leaves[j])]
            ELSE NodesAbove(level[k - 1], 2^(Depth - k))
    IN  level

Root(levels) == levels[Depth][1]

TreeConstraints(leaves) ==
    /\ \A j \in 1..NLeaves : LeafRange(leaves[j].balance)
    /\ LET levels == Levels(leaves)
       IN  \A k \in 1..Depth : \A j \in DOMAIN levels[k] :
              RangeCheck(BalLimit * 2^k, levels[k][j].sum)

(* The constraints of ProofOfReservesV2, and its flag. *)
SolvencyConstraints(reserve, total) ==
    /\ \A j \in 1..NReserves : RangeCheck(BalLimit, reserve[j])
    /\ RangeCheck(CmpLimit, FieldSum(reserve)) /\ RangeCheck(CmpLimit, total)
    /\ GteSatisfiable(CmpLimit, FieldSum(reserve), total)

Solvent(reserve, total) == GteOut(CmpLimit, FieldSum(reserve), total)

-----------------------------------------------------------------------------
TreeInit == attested = None /\ included = {}

(* The contract accepts one solvent proof for the period. *)
Attest(reserve, leaves) ==
    LET levels == Levels(leaves)
        total == Root(levels).sum
    IN  /\ attested = None
        /\ TreeConstraints(leaves)
        /\ SolvencyConstraints(reserve, total)
        /\ Solvent(reserve, total)
        /\ attested' = [leaves |-> leaves, root |-> Root(levels).hash,
                        total |-> total, reserve |-> reserve]
        /\ UNCHANGED included

(* Fault: sums on the path are checked against the width of the children.  *)
NarrowPathSum(k, sum) == RangeCheck(BalLimit * 2^k, sum)

PathSum(k, sum) == RangeCheck(BalLimit * 2^(k + 1), sum)

Hashes(nodes) == {n.hash : n \in nodes}

(* One level of the path of MerkleSumInclusion, over the nodes of a tree:  *)
(* the parents that a prover gets from a reached node with any sibling of  *)
(* the tree's hashes and any sum, in either direction.  A node whose hash  *)
(* is not in the tree cannot lead to its root.                             *)
Climb(k, reached, nodes) ==
    LET sibling == [hash : Hashes(nodes), sum : {n.sum : n \in nodes} \cup TreeCandidate]
    IN  {n \in UNION {{Node(c, s), Node(s, c)} : c \in reached, s \in sibling} :
            PathSum(k - 1, n.sum) /\ n.hash \in Hashes(nodes)}

(* The nodes that the path constraints let a prover reach at the root's    *)
(* level from the claimed leaf.                                            *)
Reachable(leaves, user, balance) ==
    LET levels == Levels(leaves)
        nodes == UNION {Range(levels[k]) : k \in 0..Depth}
        reach[k \in 0..Depth] ==
            IF k = 0 THEN {LeafNode([user |-> user, balance |-> balance])}
            ELSE Climb(k, reach[k - 1], nodes)
    IN  reach[Depth]

(* inclusion.circom has a proof for these public signals. *)
Includable(user, balance) ==
    /\ LeafRange(balance)
    /\ [hash |-> attested.root, sum |-> attested.total]
           \in Reachable(attested.leaves, user, balance)

CheckInclusion(user, balance) ==
    /\ attested # None
    /\ Includable(user, balance)
    /\ included' = included \cup {<<user, balance>>}
    /\ UNCHANGED attested

TreeNext ==
    \/ \E reserve \in Reserves, leaves \in [1..NLeaves -> Leaf] :
          Attest(reserve, leaves)
    \/ \E user \in UserId, balance \in TreeCandidate : CheckInclusion(user, balance)

TreeSpec == TreeInit /\ [][TreeNext]_treeVars

-----------------------------------------------------------------------------
Claims == MapThenSumSet(LAMBDA c : c[2], included)

(* The chain from reserves to users, over the integers: the reserves cover *)
(* the attested total, and the total covers all the balances that users    *)
(* have proven to be in the tree, whatever field elements the issuer used. *)
UsersCovered ==
    attested # None =>
        /\ Claims <= attested.total
        /\ attested.total <= MapThenSumSet(LAMBDA j : attested.reserve[j], 1..NReserves)

(* No inclusion proof for a balance that is not a leaf. *)
NoForgedInclusion ==
    \A c \in included : \E j \in 1..NLeaves :
        attested.leaves[j] = [user |-> c[1], balance |-> c[2]]

(* Every leaf of an attested tree has an inclusion proof, so a user who    *)
(* gets none was left out.                                                 *)
LeavesIncludable ==
    attested # None => \A j \in 1..NLeaves :
        Includable(attested.leaves[j].user, attested.leaves[j].balance)
==================================================================================
