----------------------------- MODULE MerkleTree -----------------------------
(***************************************************************************)
(* The append-only note tree: every level is a sparse map, a node that is    *)
(* not in it is the root of an empty subtree, and an append rewrites the     *)
(* nodes above its leaf.  One iteration of a loop is one step.               *)
(*                                                                          *)
(* A path is taken from the tree, which then grows on, and the root it       *)
(* leads to is computed later (by the wallet and in the circuit).  prefix    *)
(* builds a tree anew from the first leaves.                                *)
(***************************************************************************)
EXTENDS Integers, Sequences

CONSTANTS
  Depth,    \* TREE_DEPTH
  Width,    \* nodes of each level, 2^(Depth - level)
  Zero,     \* the empty leaf
  Empty,    \* roots of empty subtrees, as `new` computes them
  Leaves,   \* the leaves that are appended
  MaxLeaves \* bound: leaves of a tree

Node(l, r) == <<"node", l, r>>

ASSUME TreeConstants ==
  /\ Depth \in Nat \ {0}
  /\ Width \in [0..Depth -> Nat \ {0}]
  /\ Width[Depth] = 1
  /\ \A l \in 0..(Depth - 1) : Width[l] = 2 * Width[l + 1]
  /\ <<>> \notin Leaves \cup {Zero}
  /\ Empty[0] = Zero
  /\ \A l \in 0..(Depth - 1) : Empty[l + 1] = Node(Empty[l], Empty[l])

VARIABLES
  nodes,     \* what is stored at level and index, <<>> for nothing
  len,       \* leaves in the tree
  op,        \* "idle", or the loop that runs: "climb", "path", "root"
  level, idx,     \* where it is
  path,      \* siblings from the leaf up, and the position they are for
  cur,       \* the hash that path leads to so far
  leaves,    \* history: the leaves, of which a rebuilt tree has a prefix
  roots,     \* history: roots of the tree at each length
  spine,     \* history: the nodes from the leaf of the path up
  proven     \* history: the root when the path was taken

tree == <<nodes, len, op, level, idx, path, cur, leaves, roots, spine, proven>>

Levels == 0..Depth
Places == UNION {{l} \X (0..(Width[l] - 1)) : l \in Levels}

Get(l, i) == IF nodes[<<l, i>>] = <<>> THEN Empty[l] ELSE nodes[<<l, i>>]
Root == Get(Depth, 0)

-----------------------------------------------------------------------------
(* append.                                                                 *)

New == [p \in Places |-> <<>>]

(* A leaf of its own, or while a prefix is built the next one of it.        *)
AppendLeaf(leaf) ==
  /\ op = "idle" /\ len < Width[0] /\ len < MaxLeaves
  /\ IF len < Len(leaves) THEN leaf = leaves[len + 1] /\ UNCHANGED leaves
                          ELSE leaves' = Append(leaves, leaf)
  /\ nodes' = [nodes EXCEPT ![<<0, len>>] = leaf]
  /\ len' = len + 1
  /\ op' = "climb" /\ level' = 0 /\ idx' = len
  /\ UNCHANGED <<path, cur, roots, spine, proven>>

(* Mistaken variant: the new node is always taken for the left child.      *)
ClimbLeft ==
  /\ op = "climb" /\ level < Depth
  /\ LET parent == idx \div 2 IN
       /\ nodes' = [nodes EXCEPT ![<<level + 1, parent>>] =
                      Node(Get(level, idx), Empty[level])]
       /\ idx' = parent
  /\ level' = level + 1
  /\ UNCHANGED <<len, op, path, cur, leaves, roots, spine, proven>>
Climb ==
  /\ op = "climb" /\ level < Depth
  /\ LET parent == idx \div 2 IN
       /\ nodes' = [nodes EXCEPT ![<<level + 1, parent>>] =
                      Node(Get(level, 2 * parent), Get(level, 2 * parent + 1))]
       /\ idx' = parent
  /\ level' = level + 1
  /\ UNCHANGED <<len, op, path, cur, leaves, roots, spine, proven>>

EndAppend ==
  /\ op = "climb" /\ level = Depth
  /\ op' = "idle" /\ level' = 0 /\ idx' = 0
  /\ roots' = IF len > Len(roots) THEN Append(roots, Root) ELSE roots
  /\ UNCHANGED <<nodes, len, path, cur, leaves, spine, proven>>

-----------------------------------------------------------------------------
(* prefix: a new tree; AppendLeaf adds the leaves it keeps.                *)

(* Mistaken variant: the nodes of the old tree stay.                       *)
PrefixKeepsNodes(n) ==
  /\ op = "idle" /\ len = Len(leaves)
  /\ len' = 0
  /\ leaves' = SubSeq(leaves, 1, n) /\ roots' = SubSeq(roots, 1, n)
  /\ UNCHANGED <<nodes, op, level, idx, path, cur, spine, proven>>
Prefix(n) ==
  /\ op = "idle" /\ len = Len(leaves)
  /\ nodes' = New /\ len' = 0
  /\ leaves' = SubSeq(leaves, 1, n) /\ roots' = SubSeq(roots, 1, n)
  /\ UNCHANGED <<op, level, idx, path, cur, spine, proven>>

-----------------------------------------------------------------------------
(* path, and MerklePath::root.                                              *)

(* Mistaken variant: the sibling is always the next node.                  *)
SiblingNext(i) == IF i + 1 < Width[level] THEN i + 1 ELSE i
Sibling(i) == IF i % 2 = 0 THEN i + 1 ELSE i - 1

TakePath(pos) ==
  /\ op = "idle" /\ pos < len
  /\ op' = "path" /\ level' = 0 /\ idx' = pos
  /\ path' = [pos |-> pos, siblings |-> <<>>]
  /\ spine' = <<[at |-> pos, hash |-> Get(0, pos)]>> /\ proven' = Root
  /\ UNCHANGED <<nodes, len, cur, leaves, roots>>

AddSibling ==
  /\ op = "path" /\ level < Depth
  /\ path' = [path EXCEPT !.siblings = Append(@, Get(level, Sibling(idx)))]
  /\ idx' = idx \div 2 /\ level' = level + 1
  /\ spine' = Append(spine, [at |-> idx', hash |-> Get(level', idx')])
  /\ UNCHANGED <<nodes, len, op, cur, leaves, roots, proven>>

EndPath ==
  /\ op = "path" /\ level = Depth
  /\ op' = "idle" /\ level' = 0 /\ idx' = 0
  /\ UNCHANGED <<nodes, len, path, cur, leaves, roots, spine, proven>>

RootOf(leaf) ==
  /\ op = "idle" /\ Len(path.siblings) = Depth
  /\ op' = "root" /\ level' = 0 /\ idx' = path.pos
  /\ cur' = leaf
  /\ UNCHANGED <<nodes, len, path, leaves, roots, spine, proven>>

Join(i, hash, sibling) ==
  IF i % 2 = 0 THEN Node(hash, sibling) ELSE Node(sibling, hash)

HashUp ==
  /\ op = "root" /\ level < Depth
  /\ cur' = Join(idx, cur, path.siblings[level + 1])
  /\ idx' = idx \div 2 /\ level' = level + 1
  /\ UNCHANGED <<nodes, len, op, path, leaves, roots, spine, proven>>

NoPath == [pos |-> 0, siblings |-> <<>>]
NoSpine == <<[at |-> 0, hash |-> Zero]>>

EndRoot ==
  /\ op = "root" /\ level = Depth
  /\ op' = "idle" /\ level' = 0 /\ idx' = 0
  /\ path' = NoPath /\ cur' = Zero /\ spine' = NoSpine /\ proven' = Zero
  /\ UNCHANGED <<nodes, len, leaves, roots>>

-----------------------------------------------------------------------------

TreeInit ==
  /\ nodes = New /\ len = 0 /\ op = "idle" /\ level = 0 /\ idx = 0
  /\ path = NoPath /\ cur = Zero
  /\ leaves = <<>> /\ roots = <<>> /\ spine = NoSpine /\ proven = Zero

TreeNext ==
  \/ \E leaf \in Leaves : AppendLeaf(leaf)
  \/ Climb \/ EndAppend
  \/ \E n \in 0..len : Prefix(n)
  \/ \E pos \in 0..(Width[0] - 1) : TakePath(pos)
  \/ AddSibling \/ EndPath
  \/ RootOf(spine[1].hash) \/ HashUp \/ EndRoot

TreeSpec == TreeInit /\ [][TreeNext]_tree

-----------------------------------------------------------------------------

(* Between operations the tree is the hash tree of the leaves appended, in  *)
(* their order, with zero leaves after them: append leaves no node stale.   *)
TreeIsRight ==
  op # "climb" =>
    /\ \A i \in 0..(Width[0] - 1) :
         Get(0, i) = IF i < len THEN leaves[i + 1] ELSE Zero
    /\ \A l \in 0..(Depth - 1) : \A i \in 0..(Width[l + 1] - 1) :
         Get(l + 1, i) = Node(Get(l, 2 * i), Get(l, 2 * i + 1))

(* A path leads from its leaf to the root of the tree it was taken from,    *)
(* though the tree has grown since.                                         *)
PathProves == op = "root" /\ level = Depth => cur = proven

(* The first leaves give the root the tree had when it held no others: the  *)
(* wallet proves against it, validators have kept it.                       *)
PrefixRoot ==
  op = "idle" /\ len > 0 => Root = roots[len]
=============================================================================
