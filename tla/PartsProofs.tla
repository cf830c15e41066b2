----------------------------- MODULE PartsProofs -----------------------------
(***************************************************************************)
(* Proofs about the three parts that compute rather than communicate.       *)
(*                                                                          *)
(* MerkleTree, for every depth, every leaf and every history of appends,     *)
(* prefixes and paths: append leaves no node stale, and a path leads to the  *)
(* root of the tree it was taken from.  Two loops, two invariants.  While    *)
(* an append climbs, the one node that need not be the hash of its children  *)
(* is the parent of the node written last.  While a path is taken, its       *)
(* siblings lead from the leaf to the node that the loop stands at; the root *)
(* computed from it retraces these nodes.  A rebuilt tree has the root of    *)
(* the old one because the leaves determine every node: each root in the     *)
(* history tops some tree over the first leaves, and of two such trees no    *)
(* level is the lowest that differs.                                        *)
(*                                                                          *)
(* Circuit, for every field in which the curve is complete: an accepted      *)
(* transfer makes no value, a satisfied search has found the native base     *)
(* point, and an honest prover satisfies the constraints.  The field is the  *)
(* integers modulo P.  An equation between field elements is proved by that  *)
(* between the integers they are the residues of (ResidueTimes,              *)
(* ResiduePlus, ResidueMinus).                                              *)
(*                                                                          *)
(* Envelopes, for every number of values a byte has and scripts of every     *)
(* length: what parse accepts is what to_bytes writes, and what a wallet      *)
(* wrote is read back.  It starts with the digits of a number, from which it  *)
(* follows that a size is read in the one width it is written in, and with    *)
(* where each field is in the bytes.  While fields are read, the bytes so far *)
(* are those of the envelope so far, or another encoding of a point          *)
(* (Progress), and the envelope so far is the one written, up to the next    *)
(* field (Mirrors).                                                         *)
(***************************************************************************)
EXTENDS MerkleTree, Circuit, Envelopes, WellFoundedInduction, TLAPS

-----------------------------------------------------------------------------
(* The least number of a set.                                              *)

LessThan == {ss \in Nat \X Nat : ss[1] < ss[2]}

LEMMA LessThanIsWellFounded == IsWellFoundedOn(LessThan, Nat)
  BY NatLessThanWellFounded, Zenon DEF OpToRel, LessThan

LEMMA LeastNumber ==
  ASSUME NEW T, T \subseteq Nat, T # {}
  PROVE  \E k \in T : \A i \in T : k <= i
  <1>1. PICK k \in T : \A i \in T : ~(<<i, k>> \in LessThan)
    BY LessThanIsWellFounded, WFMin
  <1>2. ASSUME NEW i \in T PROVE k <= i
    <2>1. i \in Nat /\ k \in Nat /\ ~(<<i, k>> \in LessThan)
      BY <1>1
    <2>2. i < k => <<i, k>> \in LessThan
      BY <2>1 DEF LessThan
    <2> QED
      BY <2>1, <2>2
  <1> QED
    BY <1>2

-----------------------------------------------------------------------------
(* The tree.  The inductive invariant, in named parts.                     *)

Shape ==
  /\ DOMAIN nodes = Places
  /\ len \in 0..Width[0]
  /\ level \in Levels /\ idx \in 0..(Width[level] - 1)
  /\ op \in {"idle", "climb", "path", "root"}
  /\ len <= Len(leaves)

Nested ==
  \A l \in 0..(Depth - 1) : \A i \in 0..(Width[l + 1] - 1) :
    \/ op = "climb" /\ l = level /\ i = idx \div 2
    \/ Get(l + 1, i) = Node(Get(l, 2 * i), Get(l, 2 * i + 1))

InOrder ==
  \A i \in 0..(Width[0] - 1) : Get(0, i) = IF i < len THEN leaves[i + 1] ELSE Zero

TreeInv == Shape /\ leaves \in Seq(Leaves) /\ Nested /\ InOrder

Up(m) ==
  /\ spine[m + 1].at = spine[m].at \div 2
  /\ spine[m + 1].hash = Join(spine[m].at, spine[m].hash, path.siblings[m])

Steps == 1..Len(path.siblings)

Trail ==
  /\ DOMAIN path = {"pos", "siblings"}
  /\ Len(path.siblings) \in 0..Depth /\ Len(spine) = Len(path.siblings) + 1
  /\ spine[1].at = path.pos /\ path.pos \in 0..(Width[0] - 1)
  /\ \A m \in Steps : Up(m)

Going ==
  op = "path" => /\ Len(path.siblings) = level /\ proven = Root
                 /\ spine[level + 1].at = idx
                 /\ spine[level + 1].hash = Get(level, idx)

Whole ==
  op # "path" /\ Len(path.siblings) = Depth => spine[Depth + 1].hash = proven

Retraced ==
  op = "root" => /\ Len(path.siblings) = Depth
                 /\ spine[level + 1].at = idx
                 /\ spine[level + 1].hash = cur

PathInv == Trail /\ Going /\ Whole /\ Retraced

-----------------------------------------------------------------------------
(* The widths of the levels, and where a parent and a sibling are.         *)

LEMMA Widths ==
  /\ Depth \in Nat \ {0} /\ Width[Depth] = 1
  /\ \A l \in Levels : Width[l] \in Nat \ {0}
  /\ \A l \in 0..(Depth - 1) : Width[l] = 2 * Width[l + 1]
  BY TreeConstants DEF Levels

LEMMA Parent ==
  ASSUME NEW l \in 0..(Depth - 1), NEW i \in 0..(Width[l] - 1)
  PROVE  /\ i \div 2 \in 0..(Width[l + 1] - 1)
         /\ i % 2 = 0 => i = 2 * (i \div 2)
         /\ i % 2 # 0 => i = 2 * (i \div 2) + 1
  <1>1. Width[l] = 2 * Width[l + 1] /\ Width[l + 1] \in Nat /\ i \in Nat /\ i < Width[l]
    BY Widths DEF Levels
  <1> QED
    BY <1>1

LEMMA Children ==
  ASSUME NEW l \in 0..(Depth - 1), NEW i \in 0..(Width[l + 1] - 1)
  PROVE  /\ 2 * i \in 0..(Width[l] - 1) /\ 2 * i + 1 \in 0..(Width[l] - 1)
         /\ (2 * i) \div 2 = i /\ (2 * i + 1) \div 2 = i
  <1>1. Width[l] = 2 * Width[l + 1] /\ Width[l + 1] \in Nat /\ i \in Nat /\ i < Width[l + 1]
    BY Widths DEF Levels
  <1> QED
    BY <1>1

LEMMA PlaceIn ==
  ASSUME NEW l \in Levels, NEW i \in 0..(Width[l] - 1)
  PROVE  <<l, i>> \in Places
  BY DEF Places

-----------------------------------------------------------------------------
(* A node that is written is the only one that changes.                    *)

Writes(at, j, hash) ==
  /\ DOMAIN nodes' = Places
  /\ \A p \in Places : nodes'[p] = IF p = <<at, j>> THEN hash ELSE nodes[p]

LEMMA NodeWritten ==
  ASSUME NEW at, NEW j, NEW hash, hash # <<>>, Writes(at, j, hash),
         NEW l \in Levels, NEW i \in 0..(Width[l] - 1)
  PROVE  Get(l, i)' = IF l = at /\ i = j THEN hash ELSE Get(l, i)
  <1>1. <<l, i>> \in Places
    BY PlaceIn
  <1> QED
    BY <1>1 DEF Writes, Get

LEMMA Kept == UNCHANGED nodes => \A l, i : Get(l, i)' = Get(l, i)
  BY DEF Get

LEMMA NodeIsStored == \A l, r : Node(l, r) # <<>>
  BY DEF Node

-----------------------------------------------------------------------------
(* The tree: each step keeps TreeInv.                                      *)

LEMMA InitTree == TreeInit => TreeInv
  <1> SUFFICES ASSUME TreeInit PROVE TreeInv
    OBVIOUS
  <1> USE DEF TreeInit
  <1>1. \A l \in Levels : \A i \in 0..(Width[l] - 1) : Get(l, i) = Empty[l]
    BY PlaceIn DEF Get, New
  <1>2. Shape
    BY Widths DEF Shape, New, Levels
  <1>3. Nested
    <2> SUFFICES ASSUME NEW l \in 0..(Depth - 1), NEW i \in 0..(Width[l + 1] - 1)
                 PROVE  Get(l + 1, i) = Node(Get(l, 2 * i), Get(l, 2 * i + 1))
      BY DEF Nested
    <2>1. l \in Levels /\ l + 1 \in Levels
      BY Widths DEF Levels
    <2>2. Get(l + 1, i) = Empty[l + 1] /\ Get(l, 2 * i) = Empty[l] /\ Get(l, 2 * i + 1) = Empty[l]
      BY <1>1, <2>1, Children
    <2> QED
      BY <2>2, TreeConstants
  <1>4. InOrder
    BY <1>1, Widths, TreeConstants DEF InOrder, Levels
  <1> QED
    BY <1>2, <1>3, <1>4 DEF TreeInv

LEMMA AppendKeepsTree ==
  ASSUME TreeInv, NEW leaf \in Leaves, AppendLeaf(leaf)
  PROVE  TreeInv'
  <1> USE DEF TreeInv, Shape, AppendLeaf
  <1>1. len \in 0..(Width[0] - 1) /\ 0 \in Levels /\ leaf # <<>>
    BY Widths, TreeConstants, SMTT(30) DEF Levels
  <1>2. /\ DOMAIN nodes' = Places
        /\ \A l \in Levels : \A i \in 0..(Width[l] - 1) :
             Get(l, i)' = IF l = 0 /\ i = len THEN leaf ELSE Get(l, i)
    <2>1. Writes(0, len, leaf)
      BY <1>1, PlaceIn DEF Writes
    <2> QED
      <3>1. \A l \in Levels : \A i \in 0..(Width[l] - 1) :
              Get(l, i)' = IF l = 0 /\ i = len THEN leaf ELSE Get(l, i)
        BY <1>1, <2>1, NodeWritten
      <3> QED
        BY <2>1, <3>1 DEF Writes
  <1>3. /\ leaves' \in Seq(Leaves) /\ len' <= Len(leaves') /\ leaves'[len + 1] = leaf
        /\ \A k \in 1..len : leaves'[k] = leaves[k]
    <2>1. CASE len < Len(leaves)
      BY <1>1, <2>1
    <2>2. CASE ~(len < Len(leaves))
      <3>1. Len(leaves) = len /\ leaves' = Append(leaves, leaf)
        BY <1>1, <2>2, Widths
      <3> QED
        BY <1>1, <3>1
    <2> QED
      BY <2>1, <2>2
  <1>4. Shape'
    BY <1>1, <1>2, <1>3, Widths DEF Levels
  <1>5. Nested'
    <2> SUFFICES ASSUME NEW l \in 0..(Depth - 1), NEW i \in 0..(Width[l + 1] - 1),
                        ~(l = 0 /\ i = len \div 2)
                 PROVE  Get(l + 1, i)' = Node(Get(l, 2 * i)', Get(l, 2 * i + 1)')
      BY DEF Nested, Node
    <2>1. l \in Levels /\ l + 1 \in Levels
      BY Widths DEF Levels
    <2>2. l = 0 => 2 * i # len /\ 2 * i + 1 # len
      BY Children
    <2>3. /\ Get(l + 1, i)' = Get(l + 1, i)
          /\ Get(l, 2 * i)' = Get(l, 2 * i) /\ Get(l, 2 * i + 1)' = Get(l, 2 * i + 1)
      <3>1. ~(l + 1 = 0)
        OBVIOUS
      <3> QED
        BY <1>2, <2>1, <2>2, <3>1, Children
    <2>4. op # "climb"
      OBVIOUS
    <2> QED
      BY <2>3, <2>4 DEF Nested
  <1>6. InOrder'
    <2> SUFFICES ASSUME NEW i \in 0..(Width[0] - 1)
                 PROVE  Get(0, i)' = IF i < len' THEN leaves'[i + 1] ELSE Zero
      BY DEF InOrder
    <2>1. Get(0, i)' = IF i = len THEN leaf ELSE Get(0, i)
      BY <1>1, <1>2
    <2>2. Get(0, i) = IF i < len THEN leaves[i + 1] ELSE Zero
      BY DEF InOrder
    <2>3. i \in Nat /\ len \in Nat /\ len' = len + 1 /\ Width[0] \in Nat
      BY <1>1, Widths
    <2>4. CASE i = len
      BY <1>3, <2>1, <2>3, <2>4
    <2>5. CASE i # len
      <3>1. i < len' <=> i < len
        BY <2>3, <2>5
      <3>2. i < len => leaves'[i + 1] = leaves[i + 1]
        BY <1>3, <2>3
      <3> QED
        BY <2>1, <2>2, <2>5, <3>1, <3>2
    <2> QED
      BY <2>4, <2>5
  <1> QED
    BY <1>3, <1>4, <1>5, <1>6

LEMMA ClimbKeepsTree ==
  ASSUME TreeInv, Climb
  PROVE  TreeInv'
  <1> USE DEF TreeInv, Shape, Climb
  <1> DEFINE parent == idx \div 2
             hash == Node(Get(level, 2 * parent), Get(level, 2 * parent + 1))
  <1>1. /\ level \in 0..(Depth - 1) /\ level + 1 \in Levels
        /\ parent \in 0..(Width[level + 1] - 1) /\ hash # <<>>
    BY Widths, Parent, NodeIsStored DEF Levels
  <1>2. /\ DOMAIN nodes' = Places
        /\ \A l \in Levels : \A i \in 0..(Width[l] - 1) :
             Get(l, i)' = IF l = level + 1 /\ i = parent THEN hash ELSE Get(l, i)
    <2> HIDE DEF hash
    <2>1. nodes' = [nodes EXCEPT ![<<level + 1, parent>>] = hash]
      BY DEF hash
    <2> HIDE DEF parent
    <2>2. Writes(level + 1, parent, hash)
      BY <1>1, <2>1, PlaceIn DEF Writes
    <2> QED
      <3>1. \A l \in Levels : \A i \in 0..(Width[l] - 1) :
              Get(l, i)' = IF l = level + 1 /\ i = parent THEN hash ELSE Get(l, i)
        BY <1>1, <2>2, NodeWritten
      <3> QED
        BY <2>2, <3>1 DEF Writes
  <1>3. Shape'
    BY <1>1, <1>2
  <1>4. Nested'
    <2> SUFFICES ASSUME NEW l \in 0..(Depth - 1), NEW i \in 0..(Width[l + 1] - 1),
                        ~(l = level + 1 /\ i = parent \div 2)
                 PROVE  Get(l + 1, i)' = Node(Get(l, 2 * i)', Get(l, 2 * i + 1)')
      BY DEF Nested, Node
    <2>1. l \in Levels /\ l + 1 \in Levels
      BY Widths DEF Levels
    <2>2. l = level + 1 => 2 * i # parent /\ 2 * i + 1 # parent
      BY <1>1, Children
    <2>3. Get(l, 2 * i)' = Get(l, 2 * i) /\ Get(l, 2 * i + 1)' = Get(l, 2 * i + 1)
      BY <1>2, <2>1, <2>2, Children
    <2>4. CASE l = level /\ i = parent
      <3>1. Get(l + 1, i)' = hash
        BY <1>2, <2>1, <2>4
      <3> QED
        BY <2>3, <2>4, <3>1
    <2>5. CASE ~(l = level /\ i = parent)
      <3>1. Get(l + 1, i)' = Get(l + 1, i)
        <4>1. ~(l + 1 = level + 1 /\ i = parent)
          BY <1>1, <2>5
        <4> QED
          BY <1>2, <2>1, <4>1
      <3>2. Get(l + 1, i) = Node(Get(l, 2 * i), Get(l, 2 * i + 1))
        BY <2>5 DEF Nested
      <3> QED
        BY <2>3, <3>1, <3>2
    <2> QED
      BY <2>4, <2>5
  <1>5. InOrder'
    <2>1. \A i \in 0..(Width[0] - 1) : Get(0, i)' = Get(0, i)
      BY <1>1, <1>2, Widths DEF Levels
    <2> QED
      BY <2>1 DEF InOrder
  <1> QED
    BY <1>3, <1>4, <1>5

LEMMA EndAppendKeepsTree ==
  ASSUME TreeInv, EndAppend
  PROVE  TreeInv'
  <1> USE DEF TreeInv, Shape, EndAppend
  <1>1. \A l, i : Get(l, i)' = Get(l, i)
    BY Kept
  <1>2. Nested'
    BY <1>1, Widths DEF Nested, Node
  <1> QED
    BY <1>1, <1>2, Widths DEF InOrder, Levels

LEMMA PrefixKeepsTree ==
  ASSUME TreeInv, NEW m \in 0..len, Prefix(m)
  PROVE  TreeInv'
  <1> USE DEF TreeInv, Shape, Prefix
  <1>1. \A l \in Levels : \A i \in 0..(Width[l] - 1) : Get(l, i)' = Empty[l]
    BY PlaceIn DEF Get, New
  <1>2. Shape' /\ leaves' \in Seq(Leaves)
    <2>1. DOMAIN nodes' = Places
      BY DEF New
    <2>2. m \in 0..Len(leaves)
      BY Widths DEF Levels
    <2>3. leaves' \in Seq(Leaves) /\ Len(leaves') = m
      BY <2>2
    <2> QED
      BY <2>1, <2>3, Widths DEF Levels
  <1>3. Nested'
    <2> SUFFICES ASSUME NEW l \in 0..(Depth - 1), NEW i \in 0..(Width[l + 1] - 1)
                 PROVE  Get(l + 1, i)' = Node(Get(l, 2 * i)', Get(l, 2 * i + 1)')
      BY DEF Nested, Node
    <2>1. l \in Levels /\ l + 1 \in Levels
      BY Widths DEF Levels
    <2>2. /\ Get(l + 1, i)' = Empty[l + 1]
          /\ Get(l, 2 * i)' = Empty[l] /\ Get(l, 2 * i + 1)' = Empty[l]
      BY <1>1, <2>1, Children
    <2> QED
      BY <2>2, TreeConstants
  <1>4. InOrder'
    BY <1>1, Widths, TreeConstants, SMTT(30) DEF InOrder, Levels
  <1> QED
    BY <1>2, <1>3, <1>4

(* A path is taken, and a root computed, without a write to the tree.       *)
LEMMA ReadsKeepTree ==
  ASSUME TreeInv, UNCHANGED <<nodes, len, leaves>>, op # "climb", op' # "climb",
         op' \in {"idle", "path", "root"},
         level' \in Levels, idx' \in 0..(Width[level'] - 1)
  PROVE  TreeInv'
  <1> USE DEF TreeInv, Shape
  <1>1. \A l, i : Get(l, i)' = Get(l, i)
    BY Kept
  <1>2. Nested'
    BY <1>1 DEF Nested, Node
  <1> QED
    BY <1>1, <1>2 DEF InOrder

LEMMA StepKeepsTree == TreeInv /\ Trail /\ [TreeNext]_tree => TreeInv'
  <1> SUFFICES ASSUME TreeInv, Trail, [TreeNext]_tree PROVE TreeInv'
    OBVIOUS
  <1>0. 0 \in Levels /\ 0 \in 0..(Width[0] - 1)
    BY Widths DEF Levels
  <1>1. CASE UNCHANGED tree
    BY <1>1, ZenonT(60) DEF tree, TreeInv, Shape, Nested, InOrder, Get, Node
  <1>2. ASSUME NEW leaf \in Leaves, AppendLeaf(leaf) PROVE TreeInv'
    BY <1>2, AppendKeepsTree
  <1>3. CASE Climb
    BY <1>3, ClimbKeepsTree
  <1>4. CASE EndAppend
    BY <1>4, EndAppendKeepsTree
  <1>5. ASSUME NEW m \in 0..len, Prefix(m) PROVE TreeInv'
    BY <1>5, PrefixKeepsTree
  <1>6. ASSUME NEW start \in 0..(Width[0] - 1), TakePath(start) PROVE TreeInv'
    BY <1>0, <1>6, ReadsKeepTree DEF TakePath
  <1>7. ASSUME AddSibling \/ HashUp PROVE TreeInv'
    <2>1. level \in 0..(Depth - 1) /\ idx \in 0..(Width[level] - 1)
      BY <1>7, Widths DEF AddSibling, HashUp, TreeInv, Shape, Levels
    <2>2. level' \in Levels /\ idx' \in 0..(Width[level'] - 1)
      BY <1>7, <2>1, Parent, Widths DEF AddSibling, HashUp, Levels
    <2>3. CASE AddSibling
      BY <2>2, <2>3, ReadsKeepTree DEF AddSibling
    <2>4. CASE HashUp
      BY <2>2, <2>4, ReadsKeepTree DEF HashUp
    <2> QED
      BY <1>7, <2>3, <2>4
  <1>8. CASE EndPath
    BY <1>0, <1>8, ReadsKeepTree DEF EndPath
  <1>9. CASE RootOf(spine[1].hash)
    BY <1>0, <1>9, ReadsKeepTree DEF RootOf, Trail
  <1>10. CASE EndRoot
    BY <1>0, <1>10, ReadsKeepTree DEF EndRoot
  <1> QED
    BY <1>1, <1>2, <1>3, <1>4, <1>5, <1>6, <1>7, <1>8, <1>9, <1>10 DEF TreeNext

-----------------------------------------------------------------------------
(* The path: each step keeps PathInv.                                      *)

LEMMA NoPathLeads ==
  path = NoPath /\ spine = NoSpine => Trail /\ Len(path.siblings) # Depth
  BY Widths DEF Trail, Steps, NoPath, NoSpine, Levels

LEMMA InitPath == TreeInit => PathInv
  BY NoPathLeads DEF TreeInit, PathInv, Going, Whole, Retraced

LEMMA OthersKeepPath ==
  ASSUME PathInv, UNCHANGED <<path, cur, spine, proven>>,
         op' = op \/ op \in {"idle", "climb"}, op' \in {"idle", "climb"}
  PROVE  PathInv'
  <1>1. Trail'
    BY DEF PathInv, Trail, Steps, Up, Join, Node
  <1> QED
    BY <1>1 DEF PathInv, Going, Whole, Retraced

LEMMA TakePathKeepsPath ==
  ASSUME Shape, PathInv, NEW start \in 0..(Width[0] - 1), TakePath(start)
  PROVE  PathInv'
  <1> USE DEF TakePath
  <1>1. Trail'
    BY Widths DEF Trail, Steps
  <1>2. Get(0, start)' = Get(0, start) /\ Root' = Root
    BY Kept DEF Root
  <1>3. Going'
    BY <1>2 DEF Going
  <1> QED
    BY <1>1, <1>3 DEF PathInv, Whole, Retraced

LEMMA AddSiblingKeepsPath ==
  ASSUME TreeInv, PathInv, AddSibling
  PROVE  PathInv'
  <1> USE DEF AddSibling
  <1> DEFINE parent == idx \div 2
             sibling == Get(level, Sibling(idx))
  <1>1. /\ level \in 0..(Depth - 1) /\ idx \in 0..(Width[level] - 1)
        /\ op = "path" /\ op # "climb" /\ Len(path.siblings) = level
    BY Widths DEF TreeInv, Shape, Levels, PathInv, Going
  <1>2. Get(level + 1, parent) = Join(idx, Get(level, idx), sibling)
    <2>1. parent \in 0..(Width[level + 1] - 1)
      BY <1>1, Parent
    <2>2. Get(level + 1, parent) = Node(Get(level, 2 * parent), Get(level, 2 * parent + 1))
      BY <1>1, <2>1 DEF TreeInv, Nested
    <2>3. CASE idx % 2 = 0
      <3>1. idx = 2 * parent /\ Sibling(idx) = 2 * parent + 1
        BY <1>1, <2>3, Parent DEF Sibling
      <3> QED
        BY <2>2, <2>3, <3>1 DEF Join
    <2>4. CASE idx % 2 # 0
      <3>1. idx = 2 * parent + 1 /\ Sibling(idx) = idx - 1 /\ idx \in Nat /\ parent \in Nat
        BY <1>1, <2>1, <2>4, Parent, Widths, SMTT(30) DEF Sibling, Levels
      <3>2. Sibling(idx) = 2 * parent
        BY <3>1
      <3> QED
        BY <2>2, <2>4, <3>1, <3>2 DEF Join
    <2> QED
      BY <2>3, <2>4
  <1>3. /\ path'.pos = path.pos /\ path'.siblings = Append(path.siblings, sibling)
        /\ DOMAIN path' = {"pos", "siblings"}
    BY DEF PathInv, Trail
  <1>4. spine' = Append(spine, [at |-> parent, hash |-> Get(level + 1, parent)])
    BY Kept
  <1>5. /\ Len(path'.siblings) = level + 1 /\ Len(spine) = level + 1 /\ Len(spine') = level + 2
        /\ \A m \in 1..level : path'.siblings[m] = path.siblings[m]
        /\ path'.siblings[level + 1] = sibling
        /\ \A m \in 1..(level + 1) : spine'[m] = spine[m]
        /\ spine'[level + 2] = [at |-> parent, hash |-> Get(level + 1, parent)]
    BY <1>1, <1>3, <1>4 DEF PathInv, Trail
  <1>6. spine[level + 1].at = idx /\ spine[level + 1].hash = Get(level, idx)
    BY <1>1 DEF PathInv, Going
  <1>7. Trail'
    <2>0. level \in Nat
      BY <1>1, Widths
    <2>1. ASSUME NEW m \in 1..level PROVE Up(m)'
      <3>1. m \in 1..(level + 1) /\ m + 1 \in 1..(level + 1) /\ m \in Steps
        BY <1>1, <2>0 DEF Steps
      <3>2. /\ spine'[m] = spine[m] /\ spine'[m + 1] = spine[m + 1]
            /\ path'.siblings[m] = path.siblings[m]
        BY <1>5, <3>1
      <3>3. Up(m)
        BY <3>1 DEF PathInv, Trail
      <3> QED
        BY <3>2, <3>3 DEF Up, Join, Node
    <2>2. ASSUME NEW m, m = level + 1 PROVE Up(m)'
      <3> HIDE DEF parent, sibling
      <3>1. level + 1 \in 1..(level + 1) /\ level + 1 + 1 = level + 2
        BY <2>0
      <3>2. /\ spine'[level + 1] = spine[level + 1]
            /\ spine'[level + 1 + 1].at = parent
            /\ spine'[level + 1 + 1].hash = Get(level + 1, parent)
        BY <1>5, <3>1
      <3>3. spine'[level + 1].at \div 2 = parent
        BY <1>6, <3>2 DEF parent
      <3>4. Join(idx, Get(level, idx), sibling) =
              Join(spine'[level + 1].at, spine'[level + 1].hash, path'.siblings[level + 1])
        BY <1>5, <1>6, <3>2
      <3> QED
        BY <1>2, <2>2, <3>2, <3>3, <3>4 DEF Up, Join, Node
    <2>3. \A m \in Steps' : m \in 1..level \/ m = level + 1
      BY <1>5, <2>0 DEF Steps
    <2>4. \A m \in Steps' : Up(m)'
      BY <2>1, <2>2, <2>3
    <2> QED
      BY <1>1, <1>3, <1>5, <2>4, Widths DEF Trail, PathInv
  <1>8. Going'
    <2>1. proven' = Root'
      BY <1>1, Kept DEF PathInv, Going, Root
    <2>2. Get(level, idx)' = Get(level + 1, parent)
      BY DEF Get
    <2>3. level' + 1 = level + 2
      BY <1>1, Widths
    <2> QED
      BY <1>1, <1>5, <2>1, <2>2, <2>3 DEF Going
  <1> QED
    BY <1>1, <1>7, <1>8 DEF PathInv, Whole, Retraced

LEMMA EndPathKeepsPath ==
  ASSUME Shape, PathInv, EndPath
  PROVE  PathInv'
  <1> USE DEF EndPath
  <1>1. Trail'
    BY DEF PathInv, Trail, Steps, Up, Join, Node
  <1>2. idx = 0
    BY Widths DEF Shape, Levels
  <1>3. spine[Depth + 1].hash = proven
    BY <1>2 DEF PathInv, Going, Root
  <1> QED
    BY <1>1, <1>3 DEF PathInv, Going, Whole, Retraced

LEMMA RootOfKeepsPath ==
  ASSUME PathInv, RootOf(spine[1].hash)
  PROVE  PathInv'
  <1> USE DEF RootOf
  <1>1. Trail'
    BY DEF PathInv, Trail, Steps, Up, Join, Node
  <1> QED
    BY <1>1 DEF PathInv, Trail, Going, Whole, Retraced

LEMMA HashUpKeepsPath ==
  ASSUME Shape, PathInv, HashUp
  PROVE  PathInv'
  <1> USE DEF HashUp
  <1>1. Trail'
    BY DEF PathInv, Trail, Steps, Up, Join, Node
  <1>2. level + 1 \in Steps /\ Len(path.siblings) = Depth
    BY Widths DEF Shape, Levels, PathInv, Retraced, Steps
  <1>3. Up(level + 1) /\ level + 1 + 1 = level' + 1
    BY <1>2, Widths DEF PathInv, Trail, Shape, Levels
  <1>4. Retraced'
    BY <1>2, <1>3 DEF PathInv, Retraced, Up
  <1> QED
    BY <1>1, <1>4 DEF PathInv, Going, Whole

LEMMA EndRootKeepsPath ==
  ASSUME EndRoot
  PROVE  PathInv'
  <1>1. (Trail /\ Len(path.siblings) # Depth)'
    BY Widths DEF EndRoot, Trail, Steps, NoPath, NoSpine, Levels
  <1> QED
    BY <1>1 DEF EndRoot, PathInv, Going, Whole, Retraced

LEMMA StepKeepsPath == TreeInv /\ PathInv /\ [TreeNext]_tree => PathInv'
  <1> SUFFICES ASSUME TreeInv, PathInv, [TreeNext]_tree PROVE PathInv'
    OBVIOUS
  <1>1. CASE UNCHANGED tree
    BY <1>1 DEF tree, PathInv, Trail, Steps, Up, Join, Node, Going, Whole, Retraced, Root, Get
  <1>2. ASSUME NEW leaf \in Leaves, AppendLeaf(leaf) PROVE PathInv'
    BY <1>2, OthersKeepPath DEF AppendLeaf
  <1>3. CASE Climb
    BY <1>3, OthersKeepPath DEF Climb
  <1>4. CASE EndAppend
    BY <1>4, OthersKeepPath DEF EndAppend
  <1>5. ASSUME NEW m \in 0..len, Prefix(m) PROVE PathInv'
    BY <1>5, OthersKeepPath DEF Prefix
  <1>6. ASSUME NEW start \in 0..(Width[0] - 1), TakePath(start) PROVE PathInv'
    BY <1>6, TakePathKeepsPath DEF TreeInv
  <1>7. CASE AddSibling
    BY <1>7, AddSiblingKeepsPath
  <1>8. CASE EndPath
    BY <1>8, EndPathKeepsPath DEF TreeInv
  <1>9. CASE RootOf(spine[1].hash)
    BY <1>9, RootOfKeepsPath
  <1>10. CASE HashUp
    BY <1>10, HashUpKeepsPath DEF TreeInv
  <1>11. CASE EndRoot
    BY <1>11, EndRootKeepsPath
  <1> QED
    BY <1>1, <1>2, <1>3, <1>4, <1>5, <1>6, <1>7, <1>8, <1>9, <1>10, <1>11 DEF TreeNext

-----------------------------------------------------------------------------
(* Rebuilding.  N is a hash tree over the first k leaves, whichever of its   *)
(* nodes are stored.                                                        *)

Over(N, k) ==
  /\ \A i \in 0..(Width[0] - 1) : N[<<0, i>>] = IF i < k THEN leaves[i + 1] ELSE Zero
  /\ \A l \in 0..(Depth - 1) : \A i \in 0..(Width[l + 1] - 1) :
       N[<<l + 1, i>>] = Node(N[<<l, 2 * i>>], N[<<l, 2 * i + 1>>])

(* A root is kept for every length the tree has had, and it is the root of   *)
(* a tree over that many leaves.                                            *)
Counted ==
  /\ Len(roots) \in Nat /\ DOMAIN roots = 1..Len(roots)
  /\ Len(roots) <= Len(leaves)
  /\ op # "climb" => len <= Len(roots)
  /\ op = "climb" => len \in 1..(Len(roots) + 1)

Remembered == \A k \in 1..Len(roots) : \E N : Over(N, k) /\ N[<<Depth, 0>>] = roots[k]

RootsInv == Counted /\ Remembered

LEMMA LowestLevel ==
  ASSUME NEW T, T \subseteq Levels, T # {}
  PROVE  \E k \in T : \A i \in T : k <= i
  <1>1. T \subseteq Nat
    BY Widths DEF Levels
  <1> QED
    BY <1>1, LeastNumber

(* The leaves determine every node.                                        *)
LEMMA OneTree ==
  ASSUME NEW N, NEW M, NEW k, Over(N, k), Over(M, k)
  PROVE  N[<<Depth, 0>>] = M[<<Depth, 0>>]
  <1> DEFINE Differ == {l \in Levels : \E i \in 0..(Width[l] - 1) : N[<<l, i>>] # M[<<l, i>>]}
  <1>1. Differ = {}
    <2> SUFFICES ASSUME Differ # {} PROVE FALSE
      OBVIOUS
    <2>1. PICK l \in Differ : \A j \in Differ : l <= j
      BY LowestLevel
    <2>2. PICK i \in 0..(Width[l] - 1) : N[<<l, i>>] # M[<<l, i>>]
      BY <2>1
    <2>3. l # 0
      BY <2>2 DEF Over
    <2> DEFINE under == l - 1
    <2>4. /\ under \in 0..(Depth - 1) /\ under \in Levels /\ under + 1 = l
          /\ i \in 0..(Width[under + 1] - 1)
      BY <2>1, <2>2, <2>3, Widths DEF Levels
    <2>5. under \notin Differ
      BY <2>1, <2>4
    <2>6. \A j \in 0..(Width[under] - 1) : N[<<under, j>>] = M[<<under, j>>]
      BY <2>4, <2>5
    <2> HIDE DEF under
    <2>7. /\ N[<<under, 2 * i>>] = M[<<under, 2 * i>>]
          /\ N[<<under, 2 * i + 1>>] = M[<<under, 2 * i + 1>>]
      BY <2>4, <2>6, Children
    <2>8. /\ N[<<under + 1, i>>] = Node(N[<<under, 2 * i>>], N[<<under, 2 * i + 1>>])
          /\ M[<<under + 1, i>>] = Node(M[<<under, 2 * i>>], M[<<under, 2 * i + 1>>])
      BY <2>4 DEF Over
    <2> QED
      BY <2>2, <2>4, <2>7, <2>8
  <1>2. Depth \in Levels /\ 0 \in 0..(Width[Depth] - 1)
    BY Widths DEF Levels
  <1> QED
    BY <1>1, <1>2

(* What the tree reads as is such a tree.                                   *)
LEMMA TreeIsOver ==
  ASSUME TreeInv, op = "climb" => level = Depth
  PROVE  \E N : Over(N, len) /\ N[<<Depth, 0>>] = Root
  <1> DEFINE N == [p \in Places |-> Get(p[1], p[2])]
  <1>1. \A l \in Levels : \A i \in 0..(Width[l] - 1) : N[<<l, i>>] = Get(l, i)
    BY PlaceIn
  <1> HIDE DEF N
  <1>2. 0 \in Levels /\ Depth \in Levels /\ 0 \in 0..(Width[Depth] - 1)
    BY Widths DEF Levels
  <1>3. \A i \in 0..(Width[0] - 1) : N[<<0, i>>] = IF i < len THEN leaves[i + 1] ELSE Zero
    BY <1>1, <1>2 DEF TreeInv, InOrder
  <1>4. ASSUME NEW l \in 0..(Depth - 1), NEW i \in 0..(Width[l + 1] - 1)
        PROVE  N[<<l + 1, i>>] = Node(N[<<l, 2 * i>>], N[<<l, 2 * i + 1>>])
    <2>1. l \in Levels /\ l + 1 \in Levels /\ l # Depth
      BY Widths DEF Levels
    <2>2. Get(l + 1, i) = Node(Get(l, 2 * i), Get(l, 2 * i + 1))
      BY <2>1 DEF TreeInv, Nested
    <2> QED
      BY <1>1, <2>1, <2>2, Children
  <1> QED
    BY <1>1, <1>2, <1>3, <1>4 DEF Over, Root

(* A tree over leaves that stay is one after the step.                      *)
LEMMA StaysOver ==
  ASSUME NEW N, NEW k \in Nat, Over(N, k), \A j \in 1..k : leaves'[j] = leaves[j]
  PROVE  Over(N, k)'
  <1>1. ASSUME NEW i \in 0..(Width[0] - 1)
        PROVE  N[<<0, i>>] = IF i < k THEN leaves'[i + 1] ELSE Zero
    <2>1. i < k => i + 1 \in 1..k
      OBVIOUS
    <2> QED
      BY <2>1 DEF Over
  <1> QED
    BY <1>1 DEF Over, Node

LEMMA OthersKeepRoots ==
  ASSUME RootsInv, UNCHANGED <<roots, leaves, len>>, op # "climb", op' # "climb"
  PROVE  RootsInv'
  BY DEF RootsInv, Counted, Remembered, Over, Node

LEMMA AppendKeepsRoots ==
  ASSUME TreeInv, RootsInv, NEW leaf \in Leaves, AppendLeaf(leaf)
  PROVE  RootsInv'
  <1> USE DEF AppendLeaf
  <1>1. len \in Nat /\ len <= Len(roots) /\ Len(leaves) \in Nat /\ leaves \in Seq(Leaves)
    BY Widths DEF TreeInv, Shape, RootsInv, Counted, Levels
  <1>2. Len(leaves) <= Len(leaves') /\ \A j \in 1..Len(leaves) : leaves'[j] = leaves[j]
    BY <1>1
  <1>3. Len(leaves') \in Nat
    BY <1>1
  <1>4. Counted'
    BY <1>1, <1>2, <1>3 DEF RootsInv, Counted
  <1>5. ASSUME NEW k \in 1..Len(roots)
        PROVE  \E N : Over(N, k)' /\ N[<<Depth, 0>>] = roots[k]
    <2>1. PICK N : Over(N, k) /\ N[<<Depth, 0>>] = roots[k]
      BY DEF RootsInv, Remembered
    <2>2. k \in Nat /\ \A j \in 1..k : leaves'[j] = leaves[j]
      BY <1>1, <1>2 DEF RootsInv, Counted
    <2> QED
      BY <2>1, <2>2, StaysOver
  <1> QED
    BY <1>4, <1>5 DEF RootsInv, Remembered, Over, Node

LEMMA EndAppendKeepsRoots ==
  ASSUME TreeInv, RootsInv, EndAppend
  PROVE  RootsInv'
  <1> USE DEF EndAppend
  <1>1. /\ len \in 1..(Len(roots) + 1) /\ Len(roots) \in Nat /\ Len(leaves) \in Nat
        /\ len <= Len(leaves)
    BY DEF TreeInv, Shape, RootsInv, Counted
  <1>2. CASE len > Len(roots)
    <2>1. /\ roots' = Append(roots, Root) /\ len = Len(roots) + 1
      BY <1>1, <1>2
    <2>2. /\ Len(roots') = len /\ DOMAIN roots' = 1..len /\ roots'[len] = Root
          /\ \A k \in 1..Len(roots) : roots'[k] = roots[k]
      BY <1>1, <2>1 DEF RootsInv, Counted
    <2>3. Counted'
      BY <1>1, <2>2 DEF Counted
    <2>4. ASSUME NEW k \in 1..len
          PROVE  \E N : Over(N, k)' /\ N[<<Depth, 0>>] = roots'[k]
      <3>1. PICK N : Over(N, k) /\ N[<<Depth, 0>>] = roots'[k]
        <4>1. CASE k = len
          BY <2>2, <4>1, TreeIsOver
        <4>2. CASE k # len
          <5>1. k \in 1..Len(roots)
            BY <1>1, <2>1, <4>2
          <5> QED
            BY <2>2, <5>1 DEF RootsInv, Remembered
        <4> QED
          BY <4>1, <4>2
      <3> QED
        BY <3>1 DEF Over, Node
    <2> QED
      BY <2>2, <2>3, <2>4 DEF RootsInv, Remembered, Over, Node
  <1>3. CASE ~(len > Len(roots))
    <2>1. roots' = roots /\ len <= Len(roots)
      BY <1>1, <1>3, SMTT(30)
    <2>2. Counted'
      BY <1>1, <2>1 DEF RootsInv, Counted
    <2>3. Remembered'
      BY <2>1 DEF RootsInv, Remembered, Over, Node
    <2> QED
      BY <2>2, <2>3 DEF RootsInv
  <1> QED
    BY <1>2, <1>3

LEMMA PrefixKeepsRoots ==
  ASSUME TreeInv, RootsInv, NEW m \in 0..len, Prefix(m)
  PROVE  RootsInv'
  <1> USE DEF Prefix
  <1>1. /\ m \in Nat /\ Len(roots) \in Nat /\ m <= Len(roots) /\ m <= Len(leaves)
        /\ leaves \in Seq(Leaves) /\ op' # "climb" /\ len' = 0
    BY Widths DEF TreeInv, Shape, RootsInv, Counted, Levels
  <1>2. /\ Len(leaves') = m /\ \A j \in 1..m : leaves'[j] = leaves[j]
    BY <1>1
  <1>3. /\ Len(roots') = m /\ DOMAIN roots' = 1..m /\ \A j \in 1..m : roots'[j] = roots[j]
    BY <1>1 DEF RootsInv, Counted
  <1>4. Counted'
    BY <1>1, <1>2, <1>3 DEF Counted
  <1>5. ASSUME NEW k \in 1..m
        PROVE  \E N : Over(N, k)' /\ N[<<Depth, 0>>] = roots'[k]
    <2>1. k \in 1..Len(roots) /\ k \in Nat
      BY <1>1
    <2>2. PICK N : Over(N, k) /\ N[<<Depth, 0>>] = roots[k]
      BY <2>1 DEF RootsInv, Remembered
    <2>3. \A j \in 1..k : leaves'[j] = leaves[j]
      BY <1>1, <1>2
    <2> QED
      BY <1>3, <2>1, <2>2, <2>3, StaysOver
  <1> QED
    BY <1>3, <1>4, <1>5 DEF RootsInv, Remembered, Over, Node

LEMMA StepKeepsRoots == TreeInv /\ RootsInv /\ [TreeNext]_tree => RootsInv'
  <1> SUFFICES ASSUME TreeInv, RootsInv, [TreeNext]_tree PROVE RootsInv'
    OBVIOUS
  <1>1. CASE UNCHANGED tree
    BY <1>1 DEF tree, RootsInv, Counted, Remembered, Over, Node
  <1>2. ASSUME NEW leaf \in Leaves, AppendLeaf(leaf) PROVE RootsInv'
    BY <1>2, AppendKeepsRoots
  <1>3. CASE Climb
    BY <1>3 DEF Climb, RootsInv, Counted, Remembered, Over, Node
  <1>4. CASE EndAppend
    BY <1>4, EndAppendKeepsRoots
  <1>5. ASSUME NEW m \in 0..len, Prefix(m) PROVE RootsInv'
    BY <1>5, PrefixKeepsRoots
  <1>6. ASSUME NEW start \in 0..(Width[0] - 1), TakePath(start) PROVE RootsInv'
    BY <1>6, OthersKeepRoots DEF TakePath
  <1>7. CASE AddSibling \/ EndPath \/ RootOf(spine[1].hash) \/ HashUp \/ EndRoot
    BY <1>7, OthersKeepRoots DEF AddSibling, EndPath, RootOf, HashUp, EndRoot
  <1> QED
    BY <1>1, <1>2, <1>3, <1>4, <1>5, <1>6, <1>7 DEF TreeNext

-----------------------------------------------------------------------------

(* The inductive invariant holds in every state: append's loop over the     *)
(* levels and the loops of path and MerklePath::root.                       *)
THEOREM TreeInvariant == TreeSpec => [](TreeInv /\ PathInv)
  <1>1. TreeInv /\ PathInv /\ [TreeNext]_tree => (TreeInv /\ PathInv)'
    BY StepKeepsTree, StepKeepsPath DEF PathInv
  <1> QED
    BY <1>1, InitTree, InitPath, PTL DEF TreeSpec

(* Between operations the tree is the hash tree of the leaves in the order  *)
(* they were appended (MerkleTree::append, prefix).                         *)
THEOREM TreeStaysRight == TreeSpec => []TreeIsRight
  <1>1. TreeInv => TreeIsRight
    BY DEF TreeInv, Nested, InOrder, TreeIsRight
  <1> QED
    BY <1>1, TreeInvariant, PTL

(* A path leads from its leaf to the root of the tree it was taken from     *)
(* (MerkleTree::path, MerklePath::root).                                    *)
THEOREM PathsProve == TreeSpec => []PathProves
  <1>1. PathInv => PathProves
    BY DEF PathInv, Whole, Retraced, PathProves
  <1> QED
    BY <1>1, TreeInvariant, PTL

(* A tree rebuilt from its first leaves has the root it had when it held no  *)
(* others, which validators have kept (MerkleTree::prefix, TransferPlan).   *)
THEOREM PrefixesRebuildRoots == TreeSpec => []PrefixRoot
  <1>1. TreeInit => RootsInv
    BY DEF TreeInit, RootsInv, Counted, Remembered
  <1>2. TreeInv /\ RootsInv => PrefixRoot
    <2> SUFFICES ASSUME TreeInv, RootsInv, op = "idle", len > 0
                 PROVE  Root = roots[len]
      BY DEF PrefixRoot
    <2>1. len \in 1..Len(roots)
      BY Widths DEF TreeInv, Shape, RootsInv, Counted, Levels
    <2>2. PICK N : Over(N, len) /\ N[<<Depth, 0>>] = roots[len]
      BY <2>1 DEF RootsInv, Remembered
    <2>3. PICK M : Over(M, len) /\ M[<<Depth, 0>>] = Root
      BY TreeIsOver
    <2> QED
      BY <2>2, <2>3, OneTree
  <1> QED
    BY <1>1, <1>2, StepKeepsRoots, TreeInvariant, PTL DEF TreeSpec

-----------------------------------------------------------------------------
(* The circuit.                                                            *)

LEMMA PIsPositive == P \in Nat \ {0}
  BY CircuitConstants

LEMMA DivMod ==
  ASSUME NEW a \in Int
  PROVE  /\ a % P \in Field /\ a \div P \in Int
         /\ a = P * (a \div P) + (a % P)
  BY PIsPositive DEF Field

LEMMA FieldIsInt ==
  ASSUME NEW a \in Field
  PROVE  a \in Nat /\ a < P /\ a % P = a
  BY PIsPositive DEF Field

(* Two residues that differ by a multiple of P are the same.                *)
LEMMA OneResidue ==
  ASSUME NEW d \in Int, NEW r \in Field, NEW s \in Field, P * d = r - s
  PROVE  r = s
  <1>1. CASE d = 0
    BY <1>1, PIsPositive DEF Field
  <1>2. CASE d > 0
    <2>1. d - 1 \in Nat /\ d = (d - 1) + 1
      BY <1>2
    <2>2. P * d = P * (d - 1) + P
      BY <2>1, PIsPositive
    <2>3. P * (d - 1) >= 0
      BY <2>1, PIsPositive
    <2> QED
      BY <2>2, <2>3, PIsPositive DEF Field
  <1>3. CASE d < 0
    <2>1. -d - 1 \in Nat
      BY <1>3
    <2>2. P * d = -(P * (-d - 1)) - P
      BY <2>1, PIsPositive
    <2>3. P * (-d - 1) >= 0
      BY <2>1, PIsPositive
    <2> QED
      BY <2>2, <2>3, PIsPositive DEF Field
  <1> QED
    BY <1>1, <1>2, <1>3

LEMMA SameResidue ==
  ASSUME NEW a \in Int, NEW b \in Int, NEW k \in Int, a = b + P * k
  PROVE  a % P = b % P
  <1> DEFINE p == a \div P  q == b \div P  r == a % P  s == b % P
  <1>1. /\ a = P * p + r /\ r \in Field /\ p \in Int
        /\ b = P * q + s /\ s \in Field /\ q \in Int
    BY DivMod
  <1> HIDE DEF p, q, r, s
  <1>2. P * (q + k - p) = P * q + P * k - P * p
    BY <1>1, PIsPositive
  <1>3. /\ P * q \in Int /\ P * k \in Int /\ P * p \in Int /\ r \in Int /\ s \in Int
        /\ q + k - p \in Int
    BY <1>1, PIsPositive DEF Field
  <1>4. P * q + P * k - P * p = r - s
    <2> DEFINE u == P * q  v == P * k  w == P * p
    <2> HIDE DEF u, v, w
    <2>1. a = w + r /\ b = u + s /\ a = b + v /\ u \in Int /\ v \in Int /\ w \in Int
      BY <1>1, <1>3 DEF u, v, w
    <2>2. u + v - w = r - s
      BY <1>3, <2>1
    <2> QED
      BY <2>2 DEF u, v, w
  <1>5. r = s
    BY <1>1, <1>2, <1>3, <1>4, OneResidue
  <1> QED
    BY <1>5 DEF r, s

LEMMA ResidueTimes ==
  ASSUME NEW a \in Int, NEW b \in Int
  PROVE  Times(a % P, b % P) = (a * b) % P
  <1> DEFINE p == a \div P  q == b \div P  r == a % P  s == b % P
  <1>1. /\ a = P * p + r /\ r \in Field /\ p \in Int
        /\ b = P * q + s /\ s \in Field /\ q \in Int
    BY DivMod
  <1> HIDE DEF p, q, r, s
  <1>2. r \in Int /\ s \in Int /\ P \in Int
    BY <1>1, PIsPositive DEF Field
  <1>3. a * b = r * s + P * (p * b + r * q)
    BY <1>1, <1>2
  <1>4. a * b \in Int /\ r * s \in Int /\ p * b + r * q \in Int
    BY <1>1, <1>2
  <1>5. (a * b) % P = (r * s) % P
    BY ONLY <1>3, <1>4, SameResidue
  <1> QED
    BY <1>5 DEF Times, r, s

LEMMA ResiduePlus ==
  ASSUME NEW a \in Int, NEW b \in Int
  PROVE  Plus(a % P, b % P) = (a + b) % P
  <1> DEFINE p == a \div P  q == b \div P  r == a % P  s == b % P
  <1>1. /\ a = P * p + r /\ r \in Field /\ p \in Int
        /\ b = P * q + s /\ s \in Field /\ q \in Int
    BY DivMod
  <1> HIDE DEF p, q, r, s
  <1>2. r \in Int /\ s \in Int /\ P \in Int
    BY <1>1, PIsPositive DEF Field
  <1>3. a + b = (r + s) + P * (p + q)
    BY <1>1, <1>2
  <1>4. a + b \in Int /\ r + s \in Int /\ p + q \in Int
    BY <1>1, <1>2
  <1>5. (a + b) % P = (r + s) % P
    BY ONLY <1>3, <1>4, SameResidue
  <1> QED
    BY <1>5 DEF Plus, r, s

LEMMA ResidueMinus ==
  ASSUME NEW a \in Int, NEW b \in Int
  PROVE  Minus(a % P, b % P) = (a - b) % P
  <1> DEFINE p == a \div P  q == b \div P  r == a % P  s == b % P
  <1>1. /\ a = P * p + r /\ r \in Field /\ p \in Int
        /\ b = P * q + s /\ s \in Field /\ q \in Int
    BY DivMod
  <1> HIDE DEF p, q, r, s
  <1>2. r \in Int /\ s \in Int /\ P \in Int
    BY <1>1, PIsPositive DEF Field
  <1>3. a - b = (r + P - s) + P * (p - q - 1)
    BY <1>1, <1>2
  <1>4. a - b \in Int /\ r + P - s \in Int /\ p - q - 1 \in Int
    BY <1>1, <1>2
  <1>5. (a - b) % P = (r + P - s) % P
    BY ONLY <1>3, <1>4, SameResidue
  <1> QED
    BY <1>5 DEF Minus, r, s

-----------------------------------------------------------------------------
(* The field.                                                              *)

LEMMA Closed ==
  ASSUME NEW a \in Field, NEW b \in Field
  PROVE  Times(a, b) \in Field /\ Plus(a, b) \in Field /\ Minus(a, b) \in Field
  BY PIsPositive DEF Field, Times, Plus, Minus

LEMMA ZeroAndOne ==
  /\ 0 \in Field /\ 1 \in Field /\ P % 2 = 1
  /\ EdwardsD # 0 /\ NonResidue # 0
  <1>1. P >= 1 /\ P \in Nat /\ P % 4 = 1 /\ 0 \in Field
    BY CircuitConstants DEF Field
  <1>2. P % 2 = 1
    BY <1>1
  <1>3. EdwardsD # 0 /\ NonResidue # 0
    <2>1. Times(0, 0) = 0
      BY <1>1 DEF Times
    <2>2. 0 \in Roots(0)
      BY <1>1, <2>1 DEF Roots
    <2> QED
      BY <2>2, CircuitConstants
  <1>4. P # 1
    BY <1>3, CircuitConstants DEF Field
  <1> QED
    BY <1>1, <1>2, <1>3, <1>4 DEF Field

LEMMA TimesIsCommutative ==
  ASSUME NEW a \in Field, NEW b \in Field
  PROVE  Times(a, b) = Times(b, a)
  <1>1. a * b = b * a
    BY FieldIsInt
  <1> QED
    BY <1>1 DEF Times

LEMMA TimesIsAssociative ==
  ASSUME NEW a \in Field, NEW b \in Field, NEW c \in Field
  PROVE  Times(a, Times(b, c)) = Times(Times(a, b), c)
  <1>1. a \in Nat /\ b \in Nat /\ c \in Nat /\ a % P = a /\ b % P = b /\ c % P = c
    BY FieldIsInt
  <1>2. a * b \in Nat /\ b * c \in Nat /\ a * (b * c) = (a * b) * c
    BY <1>1
  <1>3. Times(b, c) = (b * c) % P /\ Times(a, b) = (a * b) % P
    BY DEF Times
  <1>4. Times(a % P, (b * c) % P) = (a * (b * c)) % P
    BY ONLY <1>1, <1>2, ResidueTimes
  <1>5. Times((a * b) % P, c % P) = ((a * b) * c) % P
    BY ONLY <1>1, <1>2, ResidueTimes
  <1> QED
    BY <1>1, <1>2, <1>3, <1>4, <1>5

LEMMA Neutral ==
  ASSUME NEW a \in Field
  PROVE  /\ Times(1, a) = a /\ Times(a, 1) = a
         /\ Times(0, a) = 0 /\ Times(a, 0) = 0
         /\ Plus(a, 0) = a /\ Plus(0, a) = a /\ Minus(a, 0) = a
  <1>1. a \in Nat /\ a % P = a /\ P \in Nat \ {0}
    BY FieldIsInt, PIsPositive
  <1>2. 1 * a = a /\ a * 1 = a /\ 0 * a = 0 /\ a * 0 = 0 /\ 0 % P = 0 /\ a + 0 = a /\ 0 + a = a
    BY <1>1
  <1>3. Minus(a, 0) = a
    <2>1. Minus(a % P, 0 % P) = (a - 0) % P
      BY <1>1, ResidueMinus
    <2> QED
      BY <1>1, <1>2, <2>1
  <1> QED
    BY <1>1, <1>2, <1>3 DEF Times, Plus

LEMMA InverseIsOne ==
  ASSUME NEW a \in Field, a # 0
  PROVE  Inverse(a) \in Field /\ Times(a, Inverse(a)) = 1
  BY CircuitConstants DEF Inverse

LEMMA NoZeroDivisors ==
  ASSUME NEW a \in Field, NEW b \in Field, Times(a, b) = 0
  PROVE  a = 0 \/ b = 0
  <1> SUFFICES ASSUME a # 0 PROVE b = 0
    OBVIOUS
  <1> DEFINE i == Inverse(a)
  <1>1. i \in Field /\ Times(a, i) = 1
    BY InverseIsOne
  <1> HIDE DEF i
  <1>2. Times(i, Times(a, b)) = Times(Times(i, a), b)
    BY <1>1, TimesIsAssociative
  <1>3. Times(i, a) = 1
    BY <1>1, TimesIsCommutative
  <1>4. Times(1, b) = b /\ Times(i, 0) = 0
    BY <1>1, Neutral
  <1> QED
    BY <1>2, <1>3, <1>4

LEMMA MinusIsZero ==
  ASSUME NEW a \in Field, NEW b \in Field, Minus(a, b) = 0
  PROVE  a = b
  <1>1. /\ a \in Nat /\ b \in Nat /\ a < P /\ b < P /\ P \in Nat
        /\ a - b \in Int /\ a % P = a /\ b % P = b
    BY FieldIsInt, PIsPositive
  <1>2. (a - b) % P = 0
    <2>1. Minus(a % P, b % P) = (a - b) % P
      BY ONLY <1>1, ResidueMinus
    <2> QED
      BY <1>1, <2>1
  <1> DEFINE p == (a - b) \div P
  <1>3. a - b = P * p /\ p \in Int
    BY <1>1, <1>2, DivMod
  <1> QED
    BY <1>3, OneResidue

(* The square of a product, and of a quotient.                              *)
LEMMA SquareOfProduct ==
  ASSUME NEW a \in Field, NEW b \in Field
  PROVE  Times(Times(a, b), Times(a, b)) = Times(Times(a, a), Times(b, b))
  <1>1. a \in Nat /\ b \in Nat
    BY FieldIsInt
  <1>2. a * b \in Nat /\ a * a \in Nat /\ b * b \in Nat
    BY <1>1
  <1>3. (a * b) * (a * b) = (a * a) * (b * b)
    BY <1>1
  <1>4. Times((a * b) % P, (a * b) % P) = ((a * b) * (a * b)) % P
    BY ONLY <1>2, ResidueTimes
  <1>5. Times((a * a) % P, (b * b) % P) = ((a * a) * (b * b)) % P
    BY ONLY <1>2, ResidueTimes
  <1> QED
    BY <1>3, <1>4, <1>5 DEF Times

LEMMA SquareOfQuotient ==
  ASSUME NEW a \in Field, NEW b \in Field, b # 0, NEW c \in Field,
         Times(a, a) = Times(c, Times(b, b))
  PROVE  Times(a, Inverse(b)) \in Roots(c)
  <1> DEFINE i == Inverse(b)
  <1>1. i \in Field /\ Times(b, i) = 1
    BY InverseIsOne
  <1> HIDE DEF i
  <1>2. Times(Times(a, i), Times(a, i)) = Times(Times(a, a), Times(i, i))
    BY <1>1, SquareOfProduct
  <1>3. /\ Times(b, b) \in Field /\ Times(i, i) \in Field
        /\ Times(Times(c, Times(b, b)), Times(i, i))
             = Times(c, Times(Times(b, b), Times(i, i)))
    <2>1. Times(b, b) \in Field /\ Times(i, i) \in Field
      BY ONLY <1>1, b \in Field, Closed
    <2> QED
      BY ONLY <2>1, c \in Field, TimesIsAssociative
  <1>4. Times(Times(b, b), Times(i, i)) = Times(1, 1)
    BY <1>1, SquareOfProduct
  <1>5. Times(1, 1) = 1 /\ Times(c, 1) = c
    BY Neutral, ZeroAndOne
  <1>6. Times(Times(a, i), Times(a, i)) = c
    BY <1>2, <1>3, <1>4, <1>5
  <1>7. Times(a, i) \in Field
    BY <1>1, Closed
  <1> QED
    BY <1>6, <1>7 DEF Roots, i

LEMMA Opposite ==
  ASSUME NEW a \in Field
  PROVE  /\ Minus(0, a) = (-a) % P
         /\ Minus(0, a) = IF a = 0 THEN 0 ELSE P - a
         /\ Minus(0, a) \in Field
         /\ Times(Minus(0, a), Minus(0, a)) = Times(a, a)
  <1>1. a \in Nat /\ a < P /\ a % P = a /\ P \in Nat \ {0} /\ 0 % P = 0 /\ -a \in Int
    BY FieldIsInt, PIsPositive
  <1>2. Minus(0, a) = (-a) % P
    <2>1. Minus(0 % P, a % P) = (0 - a) % P
      BY <1>1, ResidueMinus
    <2>2. 0 - a = -a
      BY <1>1
    <2> QED
      BY <1>1, <2>1, <2>2
  <1>3. Minus(0, a) = IF a = 0 THEN 0 ELSE P - a
    <2>1. P % P = 0 /\ (a # 0 => (P - a) % P = P - a)
      BY <1>1
    <2> QED
      BY <1>1, <2>1 DEF Minus
  <1>4. Times((-a) % P, (-a) % P) = ((-a) * (-a)) % P
    BY <1>1, ResidueTimes
  <1>5. (-a) * (-a) = a * a
    BY <1>1
  <1>6. Minus(0, a) \in Field
    BY ZeroAndOne, Closed
  <1> QED
    BY <1>2, <1>3, <1>4, <1>5, <1>6 DEF Times

(* An element has two square roots at most.                                 *)
LEMMA TwoRoots ==
  ASSUME NEW r \in Field, NEW s \in Field, Times(r, r) = Times(s, s)
  PROVE  r = s \/ r = Minus(0, s)
  <1>1. /\ r \in Nat /\ s \in Nat /\ r < P /\ s < P /\ P \in Nat \ {0}
        /\ r % P = r /\ s % P = s
    BY FieldIsInt, PIsPositive
  <1>2. /\ r - s \in Int /\ r + s \in Int /\ r * r \in Int /\ s * s \in Int
        /\ (r - s) * (r + s) = r * r - s * s
    BY <1>1
  <1>3. Minus(r, s) = (r - s) % P /\ Plus(r, s) = (r + s) % P
    <2>1. Minus(r % P, s % P) = (r - s) % P
      BY ONLY <1>1, ResidueMinus
    <2> QED
      BY <1>1, <2>1 DEF Plus
  <1>4. Times(Minus(r, s), Plus(r, s)) = (r * r - s * s) % P
    BY <1>2, <1>3, ResidueTimes
  <1>5. (r * r - s * s) % P = Minus((r * r) % P, (s * s) % P)
    BY <1>2, ResidueMinus
  <1>6. Minus((r * r) % P, (s * s) % P) = 0
    <2>1. (r * r) % P = (s * s) % P /\ (s * s) % P \in Field
      BY <1>2, DivMod DEF Times
    <2> DEFINE z == (s * s) % P
    <2> HIDE DEF z
    <2>2. z \in Field => Minus(z, z) = 0
      <3>1. P % P = 0
        BY <1>1
      <3> QED
        BY <1>1, <3>1 DEF Minus, Field
    <2> QED
      BY <2>1, <2>2 DEF z
  <1>7. Minus(r, s) = 0 \/ Plus(r, s) = 0
    BY <1>4, <1>5, <1>6, Closed, NoZeroDivisors
  <1>8. CASE Minus(r, s) = 0
    BY <1>8, MinusIsZero
  <1>9. CASE Plus(r, s) = 0
    <2>1. (r + s) % P = 0
      BY <1>9 DEF Plus
    <2>2. r + s = 0 \/ r + s = P
      BY <1>1, <2>1
    <2> QED
      BY <1>1, <2>2, Opposite
  <1> QED
    BY <1>7, <1>8, <1>9

(* Of an element and its opposite at most one is even.                      *)
LEMMA EvenIsEven ==
  ASSUME NEW a \in Field
  PROVE  /\ EvenOf(a) \in Field /\ EvenOf(a) % 2 = 0
         /\ Times(EvenOf(a), EvenOf(a)) = Times(a, a)
  <1>1. a \in Nat /\ a < P /\ P \in Nat /\ P % 2 = 1
    BY FieldIsInt, PIsPositive, ZeroAndOne
  <1>2. a % 2 # 0 => a # 0 /\ (P - a) % 2 = 0
    BY <1>1
  <1> QED
    BY <1>1, <1>2, Opposite DEF EvenOf

LEMMA EvenIsOne ==
  ASSUME NEW a \in Field, a % 2 = 0, NEW b \in Field, Times(a, a) = Times(b, b)
  PROVE  EvenOf(b) = a
  <1>1. /\ a \in Nat /\ a < P /\ b \in Nat /\ b < P /\ P \in Nat /\ P % 2 = 1
    BY FieldIsInt, PIsPositive, ZeroAndOne
  <1>2. b = a \/ b = (IF a = 0 THEN 0 ELSE P - a)
    BY TwoRoots, Opposite
  <1>3. CASE b = a
    BY <1>3 DEF EvenOf
  <1>4. CASE b # a
    <2>1. a # 0 /\ b = P - a
      BY <1>2, <1>4
    <2>2. b % 2 # 0 /\ b # 0 /\ P - b = a
      BY <1>1, <2>1
    <2> QED
      BY <2>2, Opposite DEF EvenOf
  <1> QED
    BY <1>3, <1>4

-----------------------------------------------------------------------------
(* The curve and the native search.                                        *)

LEMMA CandidateInField ==
  ASSUME NEW c \in Field
  PROVE  Num(c) \in Field /\ Den(c) \in Field /\ Prod(c) \in Field
  <1>1. Times(c, c) \in Field /\ 1 \in Field /\ EdwardsD \in Field
    BY Closed, ZeroAndOne, CircuitConstants
  <1>2. Times(EdwardsD, Times(c, c)) \in Field
    BY <1>1, Closed
  <1>3. Num(c) \in Field /\ Den(c) \in Field
    BY <1>1, <1>2, Closed DEF Num, Den
  <1> QED
    BY <1>3, Closed DEF Prod

(* The curve is complete: no candidate has a zero denominator.              *)
LEMMA Complete ==
  ASSUME NEW c \in Field
  PROVE  Den(c) # 0
  <1> SUFFICES ASSUME Den(c) = 0 PROVE FALSE
    OBVIOUS
  <1> DEFINE s == Times(c, c)  e == Times(EdwardsD, s)
  <1>1. s \in Field /\ EdwardsD \in Field /\ e \in Field /\ Plus(e, 1) = 0
    BY Closed, CircuitConstants DEF Den
  <1> HIDE DEF e
  <1>2. e = P - 1
    <2>1. e \in Nat /\ e < P /\ P \in Nat \ {0}
      BY <1>1, FieldIsInt, PIsPositive
    <2> QED
      BY <1>1, <2>1 DEF Plus
  <1>3. PICK i \in Field : Times(i, i) = e
    BY <1>2, CircuitConstants DEF Roots
  <1>4. c # 0
    <2>1. CASE c = 0
      <3>1. Times(0, 0) = 0 /\ Times(EdwardsD, 0) = 0
        BY <1>1, Neutral, ZeroAndOne
      <3>2. P - 1 # 0
        BY ZeroAndOne, PIsPositive DEF Field
      <3> QED
        BY <1>2, <2>1, <3>1, <3>2 DEF e
    <2> QED
      BY <2>1
  <1>5. Times(i, Inverse(c)) \in Roots(EdwardsD)
    BY <1>1, <1>3, <1>4, SquareOfQuotient DEF e
  <1> QED
    BY <1>5, CircuitConstants

(* w is an x coordinate of candidate c just when w * Den(c) is a root of    *)
(* Prod(c).                                                                 *)
LEMMA CoordinateIsRoot ==
  ASSUME NEW c \in Field, NEW w \in Field, Times(Times(w, w), Den(c)) = Num(c)
  PROVE  Times(w, Den(c)) \in Roots(Prod(c))
  <1> DEFINE d == Den(c)
  <1>1. d \in Field /\ Times(w, w) \in Field
    BY CandidateInField, Closed
  <1>2. Times(Times(w, d), Times(w, d)) = Times(Times(w, w), Times(d, d))
    BY <1>1, SquareOfProduct
  <1>3. Times(Times(w, w), Times(d, d)) = Times(Times(Times(w, w), d), d)
    BY <1>1, TimesIsAssociative
  <1>4. Times(w, d) \in Field
    BY <1>1, Closed
  <1> QED
    BY <1>2, <1>3, <1>4 DEF Roots, Prod

LEMMA RootIsCoordinate ==
  ASSUME NEW c \in Field, NEW r \in Roots(Prod(c))
  PROVE  LET w == Times(r, Inverse(Den(c)))
         IN  w \in Field /\ Times(Times(w, w), Den(c)) = Num(c)
  <1> DEFINE d == Den(c)  m == Num(c)  i == Inverse(d)  w == Times(r, i)
  <1>1. d \in Field /\ m \in Field /\ d # 0
    BY CandidateInField, Complete
  <1>2. r \in Field /\ Times(r, r) = Times(m, d)
    BY DEF Roots, Prod
  <1>3. i \in Field /\ Times(d, i) = 1
    BY <1>1, InverseIsOne
  <1> HIDE DEF d, m, i
  <1>4. w \in Field /\ Times(w, w) = Times(Times(r, r), Times(i, i))
    BY <1>2, <1>3, SquareOfProduct, Closed
  <1>5. Times(Times(m, d), Times(i, i)) = Times(m, i)
    <2>1. Times(i, i) \in Field
      BY <1>3, Closed
    <2>2. Times(Times(m, d), Times(i, i)) = Times(m, Times(d, Times(i, i)))
      BY <1>1, <2>1, TimesIsAssociative
    <2>3. Times(d, Times(i, i)) = Times(Times(d, i), i)
      BY <1>1, <1>3, TimesIsAssociative
    <2>4. Times(1, i) = i
      BY <1>3, Neutral
    <2> QED
      BY <1>3, <2>2, <2>3, <2>4
  <1>6. Times(Times(m, i), d) = m
    <2>1. Times(m, Times(i, d)) = Times(Times(m, i), d)
      BY <1>1, <1>3, TimesIsAssociative
    <2>2. Times(i, d) = 1 /\ Times(m, 1) = m
      BY <1>1, <1>3, TimesIsCommutative, Neutral
    <2> QED
      BY <2>1, <2>2
  <1>7. Times(Times(w, w), d) = m
    BY <1>2, <1>4, <1>5, <1>6
  <1> QED
    BY <1>4, <1>7 DEF d, m, i

LEMMA CandidateOf ==
  ASSUME NEW hash \in Field, NEW k \in Nat
  PROVE  Plus(hash, k) \in Field
  <1>1. hash + k \in Int
    BY FieldIsInt
  <1> QED
    BY <1>1, DivMod DEF Plus

(* The first hit is the one the native search stops at.                     *)
LEMMA FirstHit ==
  ASSUME NEW hash, NEW k \in Hits(hash), \A i \in 0..(k - 1) : i \notin Hits(hash)
  PROVE  HasBase(hash) /\ Index(hash) = k
  <1>1. k \in Nat /\ Hits(hash) \subseteq Nat
    BY CircuitConstants DEF Hits
  <1>2. \A i \in Hits(hash) : k <= i
    BY <1>1
  <1>3. \A j \in Hits(hash) : (\A i \in Hits(hash) : j <= i) => j = k
    BY <1>1, <1>2
  <1> QED
    BY <1>2, <1>3 DEF HasBase, Index

LEMMA NativeIsFirst ==
  ASSUME NEW hash, HasBase(hash)
  PROVE  /\ Index(hash) \in Hits(hash)
         /\ \A i \in 0..(Index(hash) - 1) : i \notin Hits(hash)
  <1>1. Hits(hash) \subseteq Nat /\ Hits(hash) # {}
    BY CircuitConstants DEF Hits, HasBase
  <1>2. \E k \in Hits(hash) : \A i \in Hits(hash) : k <= i
    BY <1>1, LeastNumber
  <1>3. Index(hash) \in Hits(hash) /\ \A i \in Hits(hash) : Index(hash) <= i
    BY <1>2 DEF Index
  <1>4. ASSUME NEW i \in 0..(Index(hash) - 1) PROVE i \notin Hits(hash)
    <2>1. Index(hash) \in Nat
      BY <1>1, <1>3
    <2> QED
      BY <1>3, <2>1
  <1> QED
    BY <1>3, <1>4

(* What the native search returns.                                         *)
LEMMA NativeBase ==
  ASSUME NEW hash \in Field, HasBase(hash), NEW c, c = Plus(hash, Index(hash))
  PROVE  /\ c \in Field /\ DiversifyHash(hash)[2] = c
         /\ \E w \in Field : /\ DiversifyHash(hash) = <<EvenOf(w), c>>
                              /\ Times(Times(w, w), Den(c)) = Num(c)
  <1>1. Index(hash) \in Nat /\ Roots(Prod(c)) # {}
    BY NativeIsFirst, CircuitConstants DEF Hits
  <1>2. c \in Field
    BY <1>1, CandidateOf
  <1> DEFINE r == CHOOSE z \in Roots(Prod(c)) : TRUE
             w == Times(r, Inverse(Den(c)))
  <1>3. r \in Roots(Prod(c))
    BY <1>1
  <1>4. DiversifyHash(hash) = <<EvenOf(w), c>>
    BY DEF DiversifyHash
  <1> HIDE DEF r
  <1>5. w \in Field /\ Times(Times(w, w), Den(c)) = Num(c)
    BY <1>2, <1>3, RootIsCoordinate
  <1> QED
    BY <1>2, <1>4, <1>5

LEMMA Cancel ==
  ASSUME NEW a \in Field, NEW b \in Field, NEW d \in Field, d # 0,
         Times(a, d) = Times(b, d)
  PROVE  a = b
  <1> DEFINE i == Inverse(d)
  <1>1. i \in Field /\ Times(d, i) = 1
    BY InverseIsOne
  <1> HIDE DEF i
  <1>2. /\ Times(a, Times(d, i)) = Times(Times(a, d), i)
        /\ Times(b, Times(d, i)) = Times(Times(b, d), i)
    BY <1>1, TimesIsAssociative
  <1>3. Times(a, 1) = a /\ Times(b, 1) = b
    BY Neutral
  <1> QED
    BY <1>1, <1>2, <1>3

(* An even x coordinate of the first candidate that has one is the native    *)
(* base point's.                                                            *)
LEMMA OneBasePoint ==
  ASSUME NEW hash \in Field, NEW k \in 0..(Tries - 1),
         \A i \in 0..(k - 1) : i \notin Hits(hash),
         NEW e \in Field, e % 2 = 0,
         Times(Times(e, e), Den(Plus(hash, k))) = Num(Plus(hash, k))
  PROVE  HasBase(hash) /\ DiversifyHash(hash) = <<e, Plus(hash, k)>>
  <1> DEFINE c == Plus(hash, k)
  <1>1. k \in Nat
    BY CircuitConstants
  <1>2. c \in Field
    BY <1>1, CandidateOf
  <1>3. k \in Hits(hash)
    BY <1>2, CoordinateIsRoot DEF Hits
  <1>4. HasBase(hash) /\ Index(hash) = k
    BY <1>3, FirstHit
  <1>5. PICK w \in Field : /\ DiversifyHash(hash) = <<EvenOf(w), c>>
                           /\ Times(Times(w, w), Den(c)) = Num(c)
    BY <1>4, NativeBase
  <1>6. Times(e, e) = Times(w, w)
    BY <1>2, <1>5, Closed, CandidateInField, Complete, Cancel
  <1>7. EvenOf(w) = e
    BY <1>6, EvenIsOne
  <1> QED
    BY <1>4, <1>5, <1>7

-----------------------------------------------------------------------------
(* One candidate of the circuit's search.                                  *)

LEMMA BranchIs ==
  ASSUME NEW c \in Field, NEW w \in Field
  PROVE  /\ Branch(c, FALSE, w) = Minus(Times(w, w), Times(NonResidue, Prod(c)))
         /\ Branch(c, TRUE, w) = Minus(Times(Times(w, w), Den(c)), Num(c))
         /\ Branch(c, FALSE, w) \in Field /\ Branch(c, TRUE, w) \in Field
  <1> DEFINE miss == Minus(Times(w, w), Times(NonResidue, Prod(c)))
             hit == Minus(Times(Times(w, w), Den(c)), Num(c))
  <1>1. miss \in Field /\ hit \in Field
    <2>1. NonResidue \in Field /\ Times(w, w) \in Field
      BY Closed, CircuitConstants
    <2>2. Times(NonResidue, Prod(c)) \in Field /\ Times(Times(w, w), Den(c)) \in Field
      BY <2>1, CandidateInField, Closed
    <2> QED
      BY <2>1, <2>2, CandidateInField, Closed
  <1>2. 1 - 0 = 1 /\ 1 - 1 = 0
    OBVIOUS
  <1> HIDE DEF miss, hit
  <1>3. /\ Times(1, miss) = miss /\ Times(0, miss) = 0
        /\ Times(1, hit) = hit /\ Times(0, hit) = 0
        /\ Plus(miss, 0) = miss /\ Plus(0, hit) = hit
    BY <1>1, Neutral
  <1>4. Branch(c, FALSE, w) = miss
    BY <1>2, <1>3 DEF Branch, Flag, miss, hit
  <1>5. Branch(c, TRUE, w) = hit
    BY <1>2, <1>3 DEF Branch, Flag, miss, hit
  <1> QED
    BY <1>1, <1>4, <1>5 DEF miss, hit

LEMMA InvertibleIs ==
  ASSUME NEW w \in Field, NEW inv \in Field
  PROVE  /\ Invertible(FALSE, w, inv) = Minus(Times(w, inv), 1)
         /\ Invertible(TRUE, w, inv) = 0
         /\ Invertible(FALSE, w, inv) \in Field
  <1>1. Minus(Times(w, inv), 1) \in Field
    BY Closed, ZeroAndOne
  <1>2. 1 - 0 = 1 /\ 1 - 1 = 0
    OBVIOUS
  <1> QED
    BY <1>1, <1>2, Neutral DEF Invertible, Flag

(* A candidate the circuit passes over has no x coordinate.                 *)
LEMMA MissHasNoRoot ==
  ASSUME NEW c \in Field, NEW w \in Field, NEW inv \in Field,
         Times(w, w) = Times(NonResidue, Prod(c)), Times(w, inv) = 1
  PROVE  Roots(Prod(c)) = {}
  <1> SUFFICES ASSUME NEW r \in Roots(Prod(c)) PROVE FALSE
    OBVIOUS
  <1>1. r \in Field /\ Times(r, r) = Prod(c) /\ NonResidue \in Field
    BY CircuitConstants DEF Roots
  <1>2. r # 0
    <2> SUFFICES ASSUME r = 0 PROVE FALSE
      OBVIOUS
    <2>1. Times(w, w) = 0
      BY <1>1, Neutral, ZeroAndOne
    <2>2. w = 0
      BY <2>1, NoZeroDivisors
    <2> QED
      BY <2>2, Neutral
  <1>3. Times(w, Inverse(r)) \in Roots(NonResidue)
    BY <1>1, <1>2, SquareOfQuotient
  <1> QED
    BY <1>3, CircuitConstants

LEMMA CandidateOutcome ==
  ASSUME NEW c \in Field, NEW is_k \in BOOLEAN, NEW w \in Field, NEW inv \in Field,
         not_yet = 1, CandidateHolds(c, is_k, w, inv)
  PROVE  /\ ~is_k => Roots(Prod(c)) = {}
         /\ is_k => Times(Times(w, w), Den(c)) = Num(c)
  <1>1. CASE is_k = TRUE
    <2>1. Branch(c, TRUE, w) = 0
      BY <1>1, BranchIs, Neutral DEF CandidateHolds
    <2>2. Times(Times(w, w), Den(c)) \in Field /\ Num(c) \in Field
      BY CandidateInField, Closed
    <2> QED
      BY <1>1, <2>1, <2>2, BranchIs, MinusIsZero, ZenonT(60)
  <1>2. CASE is_k = FALSE
    <2>1. Branch(c, FALSE, w) = 0 /\ Invertible(FALSE, w, inv) = 0
      BY <1>2, BranchIs, InvertibleIs, Neutral DEF CandidateHolds
    <2>2. Times(w, w) = Times(NonResidue, Prod(c))
      <3>1. Minus(Times(w, w), Times(NonResidue, Prod(c))) = 0
        BY <2>1, BranchIs
      <3>2. Times(w, w) \in Field /\ Times(NonResidue, Prod(c)) \in Field
        <4>1. NonResidue \in Field /\ Prod(c) \in Field
          BY CandidateInField, CircuitConstants
        <4> QED
          BY <4>1, Closed
      <3> QED
        BY <3>1, <3>2, MinusIsZero
    <2>3. Times(w, inv) = 1
      <3>1. Minus(Times(w, inv), 1) = 0 /\ Times(w, inv) \in Field /\ 1 \in Field
        BY <2>1, InvertibleIs, Closed, ZeroAndOne
      <3> QED
        BY <3>1, MinusIsZero
    <2> QED
      BY <1>2, <2>2, <2>3, MissHasNoRoot
  <1> QED
    BY <1>1, <1>2

-----------------------------------------------------------------------------
(* The invariant.                                                          *)

CircuitTypeOK ==
  /\ honest \in BOOLEAN /\ satisfied \in BOOLEAN
  /\ gate \in {"note", "search", "base", "accepted"}
  /\ slot \in 1..(NIn + NOut + 1)
  /\ gate \in {"search", "base"} => slot <= NIn + NOut
  /\ h \in Field /\ try \in 0..Tries /\ x \in Field /\ y \in Field
  /\ value_in \in Nat /\ value_out \in Nat

(* Slots whose value is in the sums.                                       *)
Summed == IF gate = "note" \/ gate = "accepted" THEN slot - 1 ELSE slot
SummedIn == IF Summed <= NIn THEN Summed ELSE NIn
SummedOut == IF Summed <= NIn THEN 0 ELSE Summed - NIn

(* No sum has wrapped.                                                     *)
SumsOK ==
  /\ value_in = spent /\ value_in <= SummedIn * (ValueBound - 1)
  /\ value_out = made /\ value_out <= SummedOut * (ValueBound - 1)

Searching == gate \in {"search", "base"}

(* Candidate j is the first hit, and the one that was taken.               *)
Takes(j) ==
  /\ \A i \in 0..(j - 1) : i \notin Hits(h)
  /\ Times(Times(x, x), Den(Plus(h, j))) = Num(Plus(h, j))
  /\ y = Plus(h, j)

(* While the constraints hold, k is the number of candidates taken.        *)
SearchOK ==
  Searching /\ satisfied =>
    \E k \in 0..try :
      /\ one_hot_sum = k % P /\ not_yet = (1 - k) % P
      /\ k = 0 => x = 0 /\ y = 0 /\ \A i \in 0..(try - 1) : i \notin Hits(h)
      /\ k = 1 => \E j \in 0..(try - 1) : Takes(j)

BaseOK == gate = "base" => (satisfied => OneBase)

(* The honest prover takes what the native search gives.                   *)
HonestOK ==
  /\ satisfied
  /\ Searching /\ honest =>
       /\ HasBase(h)
       /\ not_yet = Flag(try <= Index(h))
       /\ one_hot_sum = Flag(try > Index(h))
       /\ x = IF try > Index(h) THEN DiversifyHash(h)[1] ELSE 0

CircuitInv ==
  /\ CircuitTypeOK /\ SumsOK /\ SearchOK /\ BaseOK /\ HonestOK
  /\ Conserved

LEMMA InitCircuit == CircuitInit => CircuitInv
  <1>1. /\ NIn \in Nat /\ NOut \in Nat /\ NIn > 0 /\ Tries \in Nat /\ 0 \in Field
        /\ ValueBound - 1 \in Nat
    BY ZeroAndOne, CircuitConstants
  <1>2. 0 * (ValueBound - 1) = 0
    BY <1>1
  <1> QED
    BY <1>1, <1>2
    DEF CircuitInit, CircuitInv, CircuitTypeOK, SumsOK, Summed, SummedIn, SummedOut,
        SearchOK, Searching, BaseOK, HonestOK, Conserved

LEMMA StepTypes == CircuitTypeOK /\ [CircuitNext]_circuit => CircuitTypeOK'
  <1> SUFFICES ASSUME CircuitTypeOK, [CircuitNext]_circuit PROVE CircuitTypeOK'
    OBVIOUS
  <1> USE DEF CircuitTypeOK
  <1>0. /\ NIn \in Nat /\ NOut \in Nat /\ Tries \in Nat /\ P \in Nat \ {0}
        /\ 0 \in Field
    BY ZeroAndOne, CircuitConstants
  <1>1. CASE UNCHANGED circuit
    BY <1>1 DEF circuit, sums, search
  <1>2. ASSUME NEW v \in Field, NEW hash \in Field, NEW enabled \in BOOLEAN,
               NEW member \in BOOLEAN, Input(v, enabled, member, hash)
        PROVE  CircuitTypeOK'
    <2>1. v \in Nat /\ Plus(value_in, v) \in Nat
      BY <1>0, FieldIsInt DEF Plus
    <2> QED
      BY <1>0, <1>2, <2>1 DEF Input, StartSearch
  <1>3. ASSUME NEW v \in Field, NEW hash \in Field, Output(v, hash)
        PROVE  CircuitTypeOK'
    <2>1. v \in Nat /\ Plus(value_out, v) \in Nat
      BY <1>0, FieldIsInt DEF Plus
    <2> QED
      BY <1>0, <1>3, <2>1 DEF Output, StartSearch
  <1>4. ASSUME NEW is_k \in BOOLEAN, NEW w \in Field, NEW inv \in Field,
               Candidate(is_k, w, inv)
        PROVE  CircuitTypeOK'
    <2>1. Flag(is_k) \in Field /\ Plus(h, try) \in Field
      BY ZeroAndOne, CandidateOf DEF Flag
    <2>2. Times(Flag(is_k), w) \in Field /\ Times(Flag(is_k), Plus(h, try)) \in Field
      BY <2>1, Closed
    <2>3. Plus(x, Times(Flag(is_k), w)) \in Field
          /\ Plus(y, Times(Flag(is_k), Plus(h, try))) \in Field
      BY <2>2, Closed
    <2> QED
      BY <1>0, <1>4, <2>3 DEF Candidate, sums
  <1>5. CASE Base8
    BY <1>0, <1>5 DEF Base8, sums, search
  <1>6. CASE NextNote
    BY <1>0, <1>6 DEF NextNote, sums
  <1>7. CASE Conserve
    BY <1>0, <1>7 DEF Conserve, sums, search
  <1> QED
    BY <1>1, <1>2, <1>3, <1>4, <1>5, <1>6, <1>7 DEF CircuitNext

(* The sums of at most as many values as there are slots do not wrap.       *)
LEMMA SlotsFit ==
  ASSUME NEW k \in Nat, k < NIn + NOut, NEW v \in Nat, InRange(v),
         NEW sum \in Nat, sum <= k * (ValueBound - 1)
  PROVE  Plus(sum, v) = sum + v /\ sum + v <= (k + 1) * (ValueBound - 1)
  <1> DEFINE b == ValueBound - 1  n == NIn + NOut  rest == (n - k - 1) * b
  <1>1. b \in Nat /\ v <= b /\ n \in Nat /\ P \in Nat \ {0} /\ n * b < P /\ k < n
    BY CircuitConstants DEF InRange
  <1> HIDE DEF b, n
  <1>2. (k + 1) * b = k * b + b /\ k * b \in Nat
    BY <1>1
  <1>3. n * b = (k + 1) * b + rest
    BY <1>1
  <1>4. rest \in Nat
    <2>1. n - k - 1 \in Nat
      BY <1>1
    <2> QED
      BY <1>1, <2>1
  <1>5. sum <= k * b
    BY DEF b
  <1>6. sum + v <= (k + 1) * b /\ sum + v < P
    <2> DEFINE kb == k * b  kb1 == (k + 1) * b  all == n * b
    <2>1. /\ kb \in Nat /\ kb1 = kb + b /\ all = kb1 + rest /\ rest \in Nat /\ all < P
          /\ sum <= kb
      BY <1>1, <1>2, <1>3, <1>4, <1>5
    <2> HIDE DEF kb, kb1, all, rest
    <2>2. sum + v <= kb1 /\ sum + v < P
      BY <1>1, <2>1
    <2> QED
      BY <2>2 DEF kb1
  <1>7. (sum + v) % P = sum + v
    BY <1>1, <1>6
  <1> QED
    BY <1>6, <1>7 DEF Plus, b

LEMMA StepSums ==
  CircuitTypeOK /\ SumsOK /\ Conserved /\ [CircuitNext]_circuit => SumsOK' /\ Conserved'
  <1> SUFFICES ASSUME CircuitTypeOK, SumsOK, Conserved, [CircuitNext]_circuit
               PROVE  SumsOK' /\ Conserved'
    OBVIOUS
  <1> USE DEF CircuitTypeOK
  <1>0. NIn \in Nat /\ NOut \in Nat /\ NIn > 0 /\ NOut > 0 /\ slot \in Nat /\ slot >= 1
    BY CircuitConstants
  <1>1. CASE UNCHANGED circuit
    BY <1>1 DEF circuit, sums, search, SumsOK, SummedIn, SummedOut, Summed, Conserved
  <1>2. ASSUME NEW v \in Field, NEW hash \in Field, NEW enabled \in BOOLEAN,
               NEW member \in BOOLEAN, Input(v, enabled, member, hash)
        PROVE  SumsOK' /\ Conserved'
    <2>1. /\ gate = "note" /\ slot <= NIn /\ InRange(v) /\ gate' = "search"
          /\ value_in' = Plus(value_in, v)
          /\ spent' = spent + (IF member THEN v ELSE 0)
          /\ UNCHANGED <<slot, value_out, made>>
      BY <1>2 DEF Input, StartSearch
    <2>2. v \in Nat /\ (~member => v = 0)
      <3>1. CASE member
        BY <3>1, FieldIsInt
      <3>2. CASE ~member
        <4>1. Flag(enabled) = 0 /\ Times(v, 1 - Flag(enabled)) = 0
          BY <1>2, <3>2 DEF Input, InputHolds, Flag
        <4>2. Times(v, 1) = v /\ 1 - 0 = 1
          BY Neutral
        <4> QED
          BY <4>1, <4>2, FieldIsInt
      <3> QED
        BY <3>1, <3>2
    <2>3. /\ Summed = slot - 1 /\ SummedIn = slot - 1 /\ SummedOut = 0
          /\ Summed' = slot /\ SummedIn' = slot /\ SummedOut' = 0
      BY <1>0, <2>1 DEF Summed, SummedIn, SummedOut
    <2>4. slot - 1 \in Nat /\ slot - 1 < NIn + NOut /\ (slot - 1) + 1 = slot
      BY <1>0, <2>1
    <2>5. value_in <= (slot - 1) * (ValueBound - 1)
      BY <2>3 DEF SumsOK
    <2>6. value_in' = value_in + v /\ value_in' <= slot * (ValueBound - 1)
      BY <2>1, <2>2, <2>4, <2>5, SlotsFit
    <2>7. value_in' = spent'
      BY <2>1, <2>2, <2>6 DEF SumsOK
    <2> QED
      BY <2>1, <2>3, <2>6, <2>7 DEF SumsOK, Conserved
  <1>3. ASSUME NEW v \in Field, NEW hash \in Field, Output(v, hash)
        PROVE  SumsOK' /\ Conserved'
    <2>1. /\ gate = "note" /\ slot > NIn /\ slot <= NIn + NOut /\ InRange(v)
          /\ gate' = "search"
          /\ value_out' = Plus(value_out, v) /\ made' = made + v
          /\ UNCHANGED <<slot, value_in, spent>>
      BY <1>3 DEF Output, StartSearch
    <2> DEFINE k == slot - 1 - NIn
    <2>2. /\ SummedIn = NIn /\ SummedOut = k
          /\ SummedIn' = NIn /\ SummedOut' = k + 1
      BY <1>0, <2>1 DEF Summed, SummedIn, SummedOut
    <2>3. k \in Nat /\ k < NIn + NOut /\ v \in Nat
      BY <1>0, <2>1, FieldIsInt
    <2>4. value_out <= k * (ValueBound - 1)
      BY <2>2 DEF SumsOK
    <2> HIDE DEF k
    <2>5. value_out' = value_out + v /\ value_out' <= (k + 1) * (ValueBound - 1)
      BY <2>1, <2>3, <2>4, SlotsFit
    <2> QED
      BY <2>1, <2>2, <2>5 DEF SumsOK, Conserved
  <1>4. ASSUME NEW is_k \in BOOLEAN, NEW w \in Field, NEW inv \in Field,
               Candidate(is_k, w, inv)
        PROVE  SumsOK' /\ Conserved'
    BY <1>4 DEF Candidate, sums, SumsOK, SummedIn, SummedOut, Summed, Conserved
  <1>5. CASE Base8
    BY <1>5 DEF Base8, sums, search, SumsOK, SummedIn, SummedOut, Summed, Conserved
  <1>6. CASE NextNote
    <2>1. Summed' = Summed /\ gate' = "note" /\ UNCHANGED sums
      BY <1>0, <1>6 DEF NextNote, Summed
    <2> QED
      BY <2>1 DEF sums, SumsOK, SummedIn, SummedOut, Conserved
  <1>7. CASE Conserve
    <2>1. Summed' = Summed /\ gate' = "accepted" /\ UNCHANGED sums /\ value_in = value_out
      BY <1>7 DEF Conserve, Summed
    <2> QED
      BY <2>1 DEF sums, SumsOK, SummedIn, SummedOut, Conserved
  <1> QED
    BY <1>1, <1>2, <1>3, <1>4, <1>5, <1>6, <1>7 DEF CircuitNext

-----------------------------------------------------------------------------

LEMMA TakenOnce ==
  ASSUME NEW k \in 0..Tries, k % P = 1
  PROVE  k = 1
  <1>1. Tries <= P /\ P \in Nat /\ P > 1 /\ Tries \in Nat
    BY ZeroAndOne, CircuitConstants DEF Field
  <1>2. P % P = 0
    BY <1>1
  <1>3. k < P \/ k = P
    BY <1>1
  <1>4. k < P => k % P = k
    BY <1>1
  <1> QED
    BY <1>2, <1>3, <1>4

(* One more candidate while the constraints hold.                           *)
LEMMA CandidateSearches ==
  ASSUME CircuitTypeOK, SearchOK,
         NEW is_k \in BOOLEAN, NEW w \in Field, NEW inv \in Field,
         Candidate(is_k, w, inv)
  PROVE  SearchOK'
  <1> USE DEF CircuitTypeOK
  <1> DEFINE c == Plus(h, try)
  <1> SUFFICES ASSUME satisfied' = TRUE
               PROVE  \E k \in 0..try' :
                        /\ one_hot_sum' = k % P /\ not_yet' = (1 - k) % P
                        /\ k = 0 => x' = 0 /\ y' = 0 /\ \A i \in 0..(try' - 1) : i \notin Hits(h)'
                        /\ k = 1 => \E j \in 0..(try' - 1) : Takes(j)'
    BY DEF SearchOK
  <1>1. /\ gate = "search" /\ try < Tries /\ try' = try + 1 /\ h' = h
        /\ satisfied' = (satisfied /\ CandidateHolds(c, is_k, w, inv))
        /\ x' = Plus(x, Times(Flag(is_k), w)) /\ y' = Plus(y, Times(Flag(is_k), c))
        /\ one_hot_sum' = Plus(one_hot_sum, Flag(is_k))
        /\ not_yet' = Minus(not_yet, Flag(is_k))
    BY DEF Candidate
  <1>2. satisfied = TRUE /\ CandidateHolds(c, is_k, w, inv) /\ try \in Nat /\ Tries \in Nat
    <2>1. satisfied = TRUE /\ CandidateHolds(c, is_k, w, inv)
      BY <1>1, Zenon
    <2> QED
      BY <2>1, CircuitConstants
  <1>3. PICK k \in 0..try :
          /\ one_hot_sum = k % P /\ not_yet = (1 - k) % P
          /\ k = 0 => x = 0 /\ y = 0 /\ \A i \in 0..(try - 1) : i \notin Hits(h)
          /\ k = 1 => \E j \in 0..(try - 1) : Takes(j)
    BY <1>1, <1>2 DEF SearchOK, Searching
  <1>4. c \in Field /\ k \in Nat /\ 1 - k \in Int /\ Hits(h)' = Hits(h) /\ 0 \in Field
    <2>1. Hits(h)' = Hits(h)
      BY <1>1 DEF Hits
    <2> QED
      BY <1>2, <2>1, CandidateOf, ZeroAndOne
  <1>7. PICK t \in Nat : t = try
    BY <1>2
  <1> HIDE DEF c
  <1>5. CASE is_k = TRUE
    <2>1. Times(1, w) = w /\ Times(1, c) = c /\ Flag(is_k) = 1 /\ 1 % P = 1
      BY <1>4, <1>5, Neutral, ZeroAndOne, FieldIsInt DEF Flag
    <2>2. one_hot_sum' = (k + 1) % P
      <3>1. Plus(k % P, 1 % P) = (k + 1) % P
        BY <1>4, ResiduePlus
      <3> QED
        BY <1>1, <1>3, <2>1, <3>1
    <2>3. not_yet' = (1 - (k + 1)) % P
      <3>1. Minus((1 - k) % P, 1 % P) = ((1 - k) - 1) % P
        BY <1>4, ResidueMinus
      <3>2. (1 - k) - 1 = 1 - (k + 1)
        BY <1>4
      <3> QED
        BY <1>1, <1>3, <2>1, <3>1, <3>2
    <2>4. k = 0 => Takes(t)'
      <3> SUFFICES ASSUME k = 0 PROVE Takes(t)'
        OBVIOUS
      <3>1. not_yet = 1
        <4>1. 1 - 0 = 1
          OBVIOUS
        <4> QED
          BY <1>3, <2>1, <4>1
      <3>2. Times(Times(w, w), Den(c)) = Num(c)
        BY <1>2, <1>4, <1>5, <3>1, CandidateOutcome
      <3>3. x' = w /\ y' = c
        BY <1>1, <1>3, <1>4, <2>1, Neutral
      <3>4. \A i \in 0..(t - 1) : i \notin Hits(h)'
        BY <1>3, <1>4, <1>7
      <3>5. Plus(h, t)' = c
        BY <1>1, <1>7 DEF c
      <3> QED
        BY <3>2, <3>3, <3>4, <3>5 DEF Takes
    <2>5. k + 1 \in 0..try' /\ t \in 0..(try' - 1) /\ k + 1 # 0 /\ (k + 1 = 1 => k = 0)
      BY <1>1, <1>2, <1>4, <1>7
    <2> QED
      BY <2>2, <2>3, <2>4, <2>5
  <1>6. CASE is_k = FALSE
    <2>1. Times(0, w) = 0 /\ Times(0, c) = 0 /\ Flag(is_k) = 0
      BY <1>4, <1>6, Neutral DEF Flag
    <2>2. x' = x /\ y' = y
      BY <1>1, <2>1, Neutral
    <2>3. one_hot_sum' = k % P /\ not_yet' = (1 - k) % P
      BY <1>1, <1>3, <1>4, <2>1, DivMod, Neutral
    <2>4. k = 0 => \A i \in 0..(try' - 1) : i \notin Hits(h)'
      <3> SUFFICES ASSUME k = 0 PROVE \A i \in 0..(try' - 1) : i \notin Hits(h)
        BY <1>4
      <3>1. not_yet = 1
        <4>1. 1 - 0 = 1 /\ 1 % P = 1
          BY FieldIsInt, ZeroAndOne
        <4> QED
          BY <1>3, <4>1
      <3>2. Roots(Prod(c)) = {}
        BY <1>2, <1>4, <1>6, <3>1, CandidateOutcome
      <3>3. try \notin Hits(h)
        BY <3>2 DEF Hits, c
      <3>4. \A i \in 0..(try' - 1) : i \in 0..(try - 1) \/ i = try
        BY <1>1, <1>2
      <3> QED
        BY <1>3, <3>3, <3>4
    <2>5. k = 1 => \E j \in 0..(try' - 1) : Takes(j)'
      <3> SUFFICES ASSUME k = 1 PROVE \E j \in 0..(try' - 1) : Takes(j)'
        OBVIOUS
      <3>1. PICK j \in 0..(try - 1) : Takes(j)
        BY <1>3
      <3>2. Takes(j)'
        BY <1>1, <1>4, <2>2, <3>1 DEF Takes
      <3>3. j \in 0..(try' - 1)
        BY <1>1, <1>2
      <3> QED
        BY <3>2, <3>3
    <2>6. k \in 0..try'
      BY <1>1, <1>2
    <2> QED
      BY <1>3, <2>2, <2>3, <2>4, <2>5, <2>6
  <1> QED
    BY <1>5, <1>6

LEMMA SearchStarts ==
  ASSUME try' = 0, x' = 0, y' = 0, not_yet' = 1, one_hot_sum' = 0
  PROVE  SearchOK'
  <1>1. 0 % P = 0 /\ (1 - 0) % P = 1
    <2>1. 1 - 0 = 1
      OBVIOUS
    <2> QED
      BY <2>1, ZeroAndOne, FieldIsInt
  <1>2. 0 \in 0..0 /\ \A i \in 0..(0 - 1) : i \notin Hits(h)'
    OBVIOUS
  <1> QED
    BY <1>1, <1>2 DEF SearchOK

LEMMA StepSearches ==
  CircuitTypeOK /\ SearchOK /\ BaseOK /\ [CircuitNext]_circuit => SearchOK' /\ BaseOK'
  <1> SUFFICES ASSUME CircuitTypeOK, SearchOK, BaseOK, [CircuitNext]_circuit
               PROVE  SearchOK' /\ BaseOK'
    OBVIOUS
  <1>1. CASE UNCHANGED circuit
    BY <1>1 DEF circuit, sums, search, SearchOK, Searching, Takes, Hits, BaseOK, OneBase
  <1>2. ASSUME NEW v \in Field, NEW hash \in Field, NEW enabled \in BOOLEAN,
               NEW member \in BOOLEAN, Input(v, enabled, member, hash) \/ Output(v, hash)
        PROVE  SearchOK' /\ BaseOK'
    <2>1. StartSearch(hash)
      BY <1>2 DEF Input, Output
    <2> QED
      BY <2>1, SearchStarts DEF StartSearch, BaseOK
  <1>3. ASSUME NEW is_k \in BOOLEAN, NEW w \in Field, NEW inv \in Field,
               Candidate(is_k, w, inv)
        PROVE  SearchOK' /\ BaseOK'
    <2>1. BaseOK'
      BY <1>3 DEF Candidate, BaseOK
    <2> QED
      BY <1>3, <2>1, CandidateSearches
  <1>4. CASE Base8
    <2>1. /\ gate = "search" /\ gate' = "base" /\ UNCHANGED search
          /\ satisfied' = (satisfied /\ OneBase)
      BY <1>4 DEF Base8
    <2>2. BaseOK'
      <3>1. OneBase' = OneBase
        BY <2>1 DEF search, OneBase
      <3> QED
        BY <2>1, <3>1, Zenon DEF BaseOK
    <2>3. SearchOK'
      <3>1. satisfied' => satisfied
        BY <2>1, Zenon
      <3> QED
        BY <2>1, <3>1 DEF search, SearchOK, Searching, Takes, Hits
    <2> QED
      BY <2>2, <2>3
  <1>5. CASE NextNote \/ Conserve
    BY <1>5 DEF NextNote, Conserve, SearchOK, Searching, BaseOK
  <1> QED
    BY <1>1, <1>2, <1>3, <1>4, <1>5 DEF CircuitNext

LEMMA FoundBase == CircuitTypeOK /\ SearchOK /\ BaseOK => SameBase
  <1> SUFFICES ASSUME CircuitTypeOK, SearchOK, BaseOK, gate = "base", satisfied
               PROVE  HasBase(h) /\ <<x, y>> = DiversifyHash(h)
    BY DEF SameBase
  <1> USE DEF CircuitTypeOK
  <1>1. one_hot_sum = 1 /\ x % 2 = 0
    BY DEF BaseOK, OneBase
  <1>2. PICK k \in 0..try : /\ one_hot_sum = k % P
                            /\ k = 1 => \E j \in 0..(try - 1) : Takes(j)
    BY DEF SearchOK, Searching
  <1>3. try \in Nat /\ Tries \in Nat /\ try <= Tries
    BY CircuitConstants
  <1>4. k = 1
    <2>1. k \in 0..Tries
      BY <1>3
    <2> QED
      BY <1>1, <1>2, <2>1, TakenOnce
  <1>5. PICK j \in 0..(try - 1) : Takes(j)
    BY <1>2, <1>4
  <1>6. j \in 0..(Tries - 1)
    BY <1>3
  <1> QED
    BY <1>1, <1>5, <1>6, OneBasePoint DEF Takes

-----------------------------------------------------------------------------
(* The honest prover.                                                      *)

LEMMA NativeHolds ==
  ASSUME CircuitTypeOK, HonestOK, honest,
         NEW is_k \in BOOLEAN, NEW w \in Field, NEW inv \in Field,
         gate = "search", try < Tries, Native(is_k, w, inv)
  PROVE  /\ CandidateHolds(Plus(h, try), is_k, w, inv)
         /\ is_k => w = DiversifyHash(h)[1]
  <1> USE DEF CircuitTypeOK
  <1> DEFINE c == Plus(h, try)  k == Index(h)
  <1>1. /\ HasBase(h) /\ not_yet = Flag(try <= k)
        /\ is_k = (try = k) /\ w \in NativeRoots(h, try)
        /\ inv = IF try < k THEN Inverse(w) ELSE 0
    BY DEF HonestOK, Searching, Native
  <1>2. /\ try \in Nat /\ k \in Nat /\ k < Tries /\ k \in Hits(h)
        /\ \A i \in 0..(k - 1) : i \notin Hits(h)
    <2>1. k \in Hits(h) /\ \A i \in 0..(k - 1) : i \notin Hits(h)
      BY <1>1, NativeIsFirst
    <2> QED
      BY <2>1, CircuitConstants DEF Hits
  <1>3. c \in Field
    BY <1>2, CandidateOf
  <1> HIDE DEF k
  <1>4. CASE try < k
    <2>1. try # k /\ try <= k
      BY <1>2, <1>4
    <2>2. is_k = FALSE /\ not_yet = 1
      BY <1>1, <2>1 DEF Flag
    <2>3. w \in Roots(Times(NonResidue, Prod(c))) /\ inv = Inverse(w)
      BY <1>1, <1>4 DEF NativeRoots, k
    <2>4. Times(w, w) = Times(NonResidue, Prod(c))
      BY <2>3 DEF Roots
    <2>5. w # 0
      <3> SUFFICES ASSUME w = 0 PROVE FALSE
        OBVIOUS
      <3>1. Times(NonResidue, Prod(c)) = 0
        BY <2>4, Neutral
      <3>2. Prod(c) = 0
        <4>1. NonResidue \in Field /\ NonResidue # 0 /\ Prod(c) \in Field
          BY <1>3, CandidateInField, ZeroAndOne, CircuitConstants
        <4> QED
          BY <3>1, <4>1, NoZeroDivisors
      <3>3. 0 \in Roots(Prod(c))
        BY <3>2, Neutral, ZeroAndOne DEF Roots
      <3>4. try \in 0..(k - 1) /\ try \in 0..(Tries - 1)
        BY <1>2, <1>4, CircuitConstants
      <3> QED
        BY <1>2, <3>3, <3>4 DEF Hits
    <2>6. Times(w, inv) = 1
      BY <2>3, <2>5, InverseIsOne
    <2>7. \A a \in Field : Minus(a, a) = 0
      <3> SUFFICES ASSUME NEW a \in Field PROVE Minus(a, a) = 0
        OBVIOUS
      <3>1. a \in Nat /\ P \in Nat \ {0}
        BY FieldIsInt, PIsPositive
      <3>2. P % P = 0
        BY <3>1
      <3> QED
        BY <3>1, <3>2 DEF Minus
    <2>8. Branch(c, FALSE, w) = 0
      <3>1. Times(w, w) \in Field
        BY Closed
      <3>2. Minus(Times(w, w), Times(w, w)) = 0
        BY <2>7, <3>1
      <3> QED
        BY <1>3, <2>4, <3>2, BranchIs
    <2>9. Invertible(FALSE, w, inv) = 0
      BY <2>6, <2>7, InvertibleIs, ZeroAndOne, ZenonT(60)
    <2> QED
      BY <2>2, <2>8, <2>9, Neutral, ZeroAndOne DEF CandidateHolds
  <1>5. CASE try = k
    <2>1. is_k = TRUE /\ w = DiversifyHash(h)[1] /\ c = Plus(h, Index(h))
      <3>1. try = Index(h) /\ ~(try < Index(h))
        BY <1>2, <1>5 DEF k
      <3>2. NativeRoots(h, try) = {DiversifyHash(h)[1]}
        BY <3>1 DEF NativeRoots
      <3> QED
        BY <1>1, <1>5, <3>1, <3>2
    <2>2. PICK b \in Field : /\ DiversifyHash(h) = <<EvenOf(b), c>>
                             /\ Times(Times(b, b), Den(c)) = Num(c)
      BY <1>1, <2>1, NativeBase
    <2>3. Times(Times(w, w), Den(c)) = Num(c)
      BY <2>1, <2>2, EvenIsEven
    <2>4. Branch(c, TRUE, w) = 0
      <3>1. P \in Nat \ {0} /\ Num(c) \in Field
        BY <1>3, PIsPositive, CandidateInField
      <3>2. P % P = 0 /\ Num(c) \in Nat
        BY <3>1, FieldIsInt
      <3>3. Minus(Num(c), Num(c)) = 0
        BY <3>1, <3>2 DEF Minus
      <3> QED
        BY <1>3, <2>3, <3>3, BranchIs
    <2>5. not_yet \in Field
      BY <1>1, ZeroAndOne DEF Flag
    <2> QED
      BY <2>1, <2>4, <2>5, Neutral, InvertibleIs, ZenonT(60) DEF CandidateHolds
  <1>6. CASE try > k
    <2>1. ~(try <= k) /\ try # k
      BY <1>2, <1>6
    <2>2. is_k = FALSE /\ not_yet = 0
      BY <1>1, <2>1 DEF Flag
    <2>3. Branch(c, FALSE, w) \in Field /\ Invertible(FALSE, w, inv) \in Field
      BY <1>3, BranchIs, InvertibleIs
    <2> QED
      BY <2>2, <2>3, Neutral DEF CandidateHolds
  <1> QED
    BY <1>2, <1>4, <1>5, <1>6

LEMMA StepHonest ==
  CircuitTypeOK /\ HonestOK /\ [CircuitNext]_circuit => HonestOK'
  <1> SUFFICES ASSUME CircuitTypeOK, HonestOK, [CircuitNext]_circuit PROVE HonestOK'
    OBVIOUS
  <1> USE DEF CircuitTypeOK
  <1>1. CASE UNCHANGED circuit
    BY <1>1 DEF circuit, sums, search, HonestOK, Searching
  <1>2. ASSUME NEW v \in Field, NEW hash \in Field, NEW enabled \in BOOLEAN,
               NEW member \in BOOLEAN, Input(v, enabled, member, hash) \/ Output(v, hash)
        PROVE  HonestOK'
    <2>1. StartSearch(hash) /\ honest' = honest /\ satisfied' = satisfied
      BY <1>2 DEF Input, Output
    <2>2. honest => HasBase(hash) /\ Index(hash) \in Nat
      <3>1. HasBase(hash) => Index(hash) \in Hits(hash)
        BY NativeIsFirst
      <3> QED
        BY <2>1, <3>1, CircuitConstants DEF StartSearch, Hits
    <2>3. ASSUME honest PROVE 0 <= Index(hash) /\ ~(0 > Index(hash))
      BY <2>2, <2>3
    <2> QED
      BY <2>1, <2>2, <2>3 DEF StartSearch, HonestOK, Flag
  <1>3. ASSUME NEW is_k \in BOOLEAN, NEW w \in Field, NEW inv \in Field,
               Candidate(is_k, w, inv)
        PROVE  HonestOK'
    <2> DEFINE c == Plus(h, try)  k == Index(h)
    <2>1. /\ gate = "search" /\ gate' = "search" /\ try < Tries /\ try' = try + 1
          /\ h' = h /\ honest' = honest
          /\ IF honest THEN Native(is_k, w, inv) ELSE CandidateHolds(c, is_k, w, inv)
          /\ satisfied' = (satisfied /\ CandidateHolds(c, is_k, w, inv))
          /\ x' = Plus(x, Times(Flag(is_k), w))
          /\ one_hot_sum' = Plus(one_hot_sum, Flag(is_k))
          /\ not_yet' = Minus(not_yet, Flag(is_k))
      BY <1>3 DEF Candidate
    <2>2. CandidateHolds(c, is_k, w, inv)
      BY <2>1, NativeHolds
    <2>3. satisfied'
      BY <2>1, <2>2, Zenon DEF HonestOK
    <2>4. CASE ~honest
      BY <2>1, <2>3, <2>4 DEF HonestOK
    <2>5. CASE honest
      <3>1. /\ HasBase(h) /\ not_yet = Flag(try <= k) /\ one_hot_sum = Flag(try > k)
            /\ x = (IF try > k THEN DiversifyHash(h)[1] ELSE 0)
            /\ is_k = (try = k)
        BY <2>1, <2>5 DEF HonestOK, Searching, Native
      <3>2. try \in Nat /\ k \in Nat
        BY <3>1, NativeIsFirst, CircuitConstants DEF Hits
      <3>3. is_k => w = DiversifyHash(h)[1]
        BY <2>1, <2>5, NativeHolds
      <3> HIDE DEF k
      <3>4. CASE try < k
        <4>1. /\ try # k /\ try <= k /\ ~(try > k) /\ try + 1 <= k /\ ~(try + 1 > k)
          BY <3>2, <3>4
        <4>2. Flag(is_k) = 0 /\ not_yet = 1 /\ one_hot_sum = 0 /\ x = 0
          BY <3>1, <4>1 DEF Flag
        <4>3. not_yet' = 1 /\ one_hot_sum' = 0 /\ x' = 0
          BY <2>1, <4>2, Neutral, ZeroAndOne
        <4> QED
          BY <2>1, <2>3, <3>1, <4>1, <4>3 DEF HonestOK, Flag, k
      <3>5. CASE try = k
        <4>1. /\ try <= k /\ ~(try > k) /\ ~(try + 1 <= k) /\ try + 1 > k
          BY <3>2, <3>5
        <4>2. Flag(is_k) = 1 /\ not_yet = 1 /\ one_hot_sum = 0 /\ x = 0
          BY <3>1, <3>5, <4>1 DEF Flag
        <4>3. not_yet' = 0 /\ one_hot_sum' = 1 /\ x' = w
          <5>1. Minus(1, 1) = 0
            <6>1. P \in Nat \ {0} /\ P % P = 0 /\ 1 + P - 1 = P
              BY PIsPositive
            <6> QED
              BY <6>1 DEF Minus
          <5>2. Times(1, w) = w /\ Plus(0, w) = w /\ Plus(0, 1) = 1
            BY Neutral, ZeroAndOne
          <5> QED
            BY <2>1, <4>2, <5>1, <5>2
        <4> QED
          BY <2>1, <2>3, <3>1, <3>3, <3>5, <4>1, <4>3 DEF HonestOK, Flag, k
      <3>6. CASE try > k
        <4>1. /\ try # k /\ ~(try <= k) /\ ~(try + 1 <= k) /\ try + 1 > k
          BY <3>2, <3>6
        <4>2. Flag(is_k) = 0 /\ not_yet = 0 /\ one_hot_sum = 1 /\ x = DiversifyHash(h)[1]
          BY <3>1, <3>6, <4>1 DEF Flag
        <4>3. not_yet' = 0 /\ one_hot_sum' = 1 /\ x' = x
          BY <2>1, <4>2, Neutral, ZeroAndOne
        <4> QED
          BY <2>1, <2>3, <3>1, <4>1, <4>2, <4>3 DEF HonestOK, Flag, k
      <3> QED
        BY <3>2, <3>4, <3>5, <3>6
    <2> QED
      BY <2>4, <2>5
  <1>4. CASE Base8
    <2>1. /\ gate = "search" /\ gate' = "base" /\ try = Tries /\ UNCHANGED search
          /\ honest' = honest /\ (honest \/ OneBase)
          /\ satisfied' = (satisfied /\ OneBase)
      BY <1>4 DEF Base8
    <2>2. OneBase
      <3> SUFFICES ASSUME honest PROVE OneBase
        BY <2>1
      <3>1. HasBase(h) /\ Index(h) \in 0..(Tries - 1)
        BY <2>1, NativeIsFirst DEF HonestOK, Searching, Hits
      <3>2. try > Index(h)
        BY <2>1, <3>1, CircuitConstants
      <3>3. one_hot_sum = 1 /\ x = DiversifyHash(h)[1]
        BY <2>1, <3>2 DEF HonestOK, Searching, Flag
      <3>4. x % 2 = 0
        BY <3>1, <3>3, NativeBase, EvenIsEven
      <3> QED
        BY <3>3, <3>4 DEF OneBase
    <2>3. satisfied'
      BY <2>1, <2>2, Zenon DEF HonestOK
    <2> QED
      BY <2>1, <2>3 DEF search, HonestOK, Searching
  <1>5. CASE NextNote \/ Conserve
    BY <1>5 DEF NextNote, Conserve, HonestOK, Searching
  <1> QED
    BY <1>1, <1>2, <1>3, <1>4, <1>5 DEF CircuitNext

-----------------------------------------------------------------------------

LEMMA CircuitInvariant == CircuitSpec => []CircuitInv
  <1>1. CircuitInv /\ [CircuitNext]_circuit => CircuitInv'
    BY StepTypes, StepSums, StepSearches, StepHonest DEF CircuitInv
  <1> QED
    BY <1>1, InitCircuit, PTL DEF CircuitSpec

(* An accepted transfer creates what its inputs hold: neither a disabled     *)
(* input nor a sum that wraps in the field makes value, for every field in   *)
(* which NIn + NOut values of the range do not wrap.                        *)
THEOREM TransfersConserve == CircuitSpec => []Conserved
  <1>1. CircuitInv => Conserved
    BY DEF CircuitInv
  <1> QED
    BY <1>1, CircuitInvariant, PTL

(* Constraints that hold have found the native base point: the prover can    *)
(* neither pass over the first candidate with a root nor take two, and of    *)
(* the two x coordinates only one is even.                                  *)
THEOREM CircuitMirrorsNative == CircuitSpec => []SameBase
  <1>1. CircuitInv => SameBase
    BY FoundBase DEF CircuitInv
  <1> QED
    BY <1>1, CircuitInvariant, PTL

(* The witness of the native search satisfies every constraint, whatever the *)
(* hash.                                                                    *)
THEOREM HonestProverSatisfies == CircuitSpec => []Provable
  <1>1. CircuitInv => Provable
    BY DEF CircuitInv, HonestOK, Provable
  <1> QED
    BY <1>1, CircuitInvariant, PTL

-----------------------------------------------------------------------------
(* Sequences.                                                              *)

LEMMA HasFirst ==
  ASSUME NEW S, NEW s \in Seq(S), s # <<>>
  PROVE  Len(s) > 0
  <1>1. Len(s) \in Nat /\ DOMAIN s = 1..Len(s)
    OBVIOUS
  <1>2. ASSUME Len(s) = 0 PROVE s = <<>>
    BY <1>1, <1>2
  <1> QED
    BY <1>1, <1>2

LEMMA SameSequence ==
  ASSUME NEW S, NEW s \in Seq(S), NEW t \in Seq(S), Len(s) = Len(t),
         \A i \in 1..Len(s) : s[i] = t[i]
  PROVE  s = t
  <1>1. DOMAIN s = 1..Len(s) /\ DOMAIN t = 1..Len(s)
    OBVIOUS
  <1>2. s = [i \in DOMAIN s |-> s[i]] /\ t = [i \in DOMAIN t |-> t[i]]
    OBVIOUS
  <1> QED
    BY <1>1, <1>2, Zenon

-----------------------------------------------------------------------------
(* Numbers by their digits.                                                *)

Wire == 0..(ByteValues - 1)

LEMMA WireIs ==
  /\ ByteValues \in Nat /\ ByteValues >= 6
  /\ Wire \subseteq Nat
  BY EnvelopeConstants DEF Wire

LEMMA PlaceIs ==
  /\ Place[1] = 1 /\ Place[2] = ByteValues
  /\ Place[3] = ByteValues * ByteValues
  /\ Place[4] = ByteValues * ByteValues * ByteValues
  BY DEF Place

(* Division has one result.                                                *)
LEMMA Quotient ==
  ASSUME NEW b \in Nat, b > 0, NEW q \in Int, NEW r \in 0..(b - 1), NEW n \in Int,
         n = b * q + r
  PROVE  n \div b = q /\ n % b = r
  <1> DEFINE u == n \div b  v == n % b
  <1>1. u \in Int /\ v \in 0..(b - 1) /\ n = b * u + v
    OBVIOUS
  <1> HIDE DEF u, v
  <1>2. b * (q - u) = v - r
    <2>1. b * (q - u) = b * q - b * u
      BY <1>1
    <2>2. b * q \in Int /\ b * u \in Int
      BY <1>1
    <2> QED
      BY <1>1, <2>1, <2>2
  <1>3. q - u = 0
    <2>1. CASE q - u >= 1
      <3>1. b * (q - u) >= b
        <4>1. q - u = (q - u - 1) + 1 /\ q - u - 1 \in Nat
          BY <2>1, <1>1
        <4>2. b * (q - u) = b * (q - u - 1) + b
          BY <4>1
        <4>3. b * (q - u - 1) >= 0 /\ b * (q - u - 1) \in Int
          BY <4>1
        <4> QED
          BY <4>2, <4>3
      <3> QED
        BY <3>1, <1>1, <1>2
    <2>2. CASE q - u <= -1
      <3>1. b * (u - q) >= b
        <4>1. u - q = (u - q - 1) + 1 /\ u - q - 1 \in Nat
          BY <2>2, <1>1
        <4>2. b * (u - q) = b * (u - q - 1) + b
          BY <4>1
        <4>3. b * (u - q - 1) >= 0 /\ b * (u - q - 1) \in Int
          BY <4>1
        <4> QED
          BY <4>2, <4>3
      <3>2. b * (q - u) = -(b * (u - q))
        BY <1>1
      <3>3. b * (u - q) \in Int
        BY <1>1
      <3> QED
        BY <3>1, <3>2, <3>3, <1>1, <1>2
    <2> QED
      BY <2>1, <2>2, <1>1
  <1>4. u = q /\ v = r
    <2>1. u = q
      BY <1>1, <1>3
    <2>2. b * u = b * q /\ b * q \in Int
      BY <2>1
    <2> QED
      BY <1>1, <2>1, <2>2
  <1> QED
    BY <1>4 DEF u, v

(* A digit more.                                                           *)
LEMMA Shifted ==
  ASSUME NEW m \in Nat, NEW q \in 0..(m - 1), NEW d \in Wire
  PROVE  /\ ByteValues * q + d \in 0..(ByteValues * m - 1)
         /\ (ByteValues * q + d) \div ByteValues = q
         /\ (ByteValues * q + d) % ByteValues = d
  <1>1. ByteValues * (m - 1 - q) >= 0 /\ ByteValues * q >= 0
    BY WireIs
  <1>2. ByteValues * (m - 1 - q) = ByteValues * m - ByteValues - ByteValues * q
    BY WireIs
  <1>3. ByteValues * m \in Int /\ ByteValues * q \in Int
    BY WireIs
  <1>4. ByteValues * q + d \in 0..(ByteValues * m - 1)
    BY <1>1, <1>2, <1>3, WireIs DEF Wire
  <1>5. q \in Int /\ ByteValues > 0 /\ d \in 0..(ByteValues - 1) /\ ByteValues * q + d \in Int
    BY <1>3, WireIs DEF Wire
  <1> QED
    BY <1>4, <1>5, WireIs, Quotient

LEMMA Unshifted ==
  ASSUME NEW m \in Nat, NEW n \in 0..(ByteValues * m - 1)
  PROVE  /\ n \div ByteValues \in 0..(m - 1) /\ n % ByteValues \in Wire
         /\ n = ByteValues * (n \div ByteValues) + (n % ByteValues)
  <1> DEFINE q == n \div ByteValues  d == n % ByteValues
  <1>1. q \in Int /\ d \in Wire /\ n = ByteValues * q + d
    BY WireIs DEF Wire
  <1> HIDE DEF q, d
  <1>2. q >= 0
    <2> SUFFICES ASSUME -q - 1 \in Nat PROVE FALSE
      BY <1>1
    <2>1. ByteValues * (-q - 1) >= 0
      BY WireIs
    <2>2. ByteValues * (-q - 1) = -(ByteValues * q) - ByteValues
      BY <1>1, WireIs
    <2>3. ByteValues * q \in Int /\ n >= 0
      BY <1>1, WireIs
    <2> QED
      BY <1>1, <2>1, <2>2, <2>3, WireIs DEF Wire
  <1>3. q < m
    <2> SUFFICES ASSUME q - m \in Nat PROVE FALSE
      BY <1>1
    <2>1. ByteValues * (q - m) >= 0
      BY WireIs
    <2>2. ByteValues * (q - m) = ByteValues * q - ByteValues * m
      BY <1>1, WireIs
    <2>3. ByteValues * q \in Int /\ ByteValues * m \in Int
      BY <1>1, WireIs
    <2> QED
      BY <1>1, <2>1, <2>2, <2>3, WireIs DEF Wire
  <1>4. q \in 0..(m - 1)
    BY <1>1, <1>2, <1>3
  <1> QED
    BY <1>1, <1>4 DEF q, d

(* The number of four digits, least first.                                 *)
Number(a, b, c, d) ==
  ByteValues * (ByteValues * (ByteValues * d + c) + b) + a

LEMMA Weighed ==
  ASSUME NEW a \in Wire, NEW b \in Wire, NEW c \in Wire, NEW d \in Wire
  PROVE  Number(a, b, c, d) = a * Place[1] + b * Place[2] + c * Place[3] + d * Place[4]
  <1>1. ByteValues \in Int /\ a \in Int /\ b \in Int /\ c \in Int /\ d \in Int
    BY WireIs DEF Wire
  <1> HIDE DEF Wire
  <1>2. ByteValues * (ByteValues * (ByteValues * d + c) + b) + a
          = a * 1 + b * ByteValues + c * (ByteValues * ByteValues)
            + d * (ByteValues * ByteValues * ByteValues)
    BY <1>1
  <1> QED
    BY <1>2, PlaceIs DEF Number

LEMMA LeOf ==
  ASSUME NEW a \in Wire, NEW b \in Wire, NEW c \in Wire, NEW d \in Wire
  PROVE  LET n == Number(a, b, c, d)
         IN  /\ n \in 0..MaxSize
             /\ (n \div Place[1]) % ByteValues = a
             /\ (n \div Place[2]) % ByteValues = b
             /\ (n \div Place[3]) % ByteValues = c
             /\ (n \div Place[4]) % ByteValues = d
             /\ c = 0 /\ d = 0 => n < Place[3]
  <1> DEFINE q3 == ByteValues * d + c
             q2 == ByteValues * q3 + b
             n == ByteValues * q2 + a
             s2 == ByteValues * ByteValues
             s3 == ByteValues * ByteValues * ByteValues
             s4 == ByteValues * (ByteValues * ByteValues * ByteValues)
  <1>1. ByteValues \in Nat /\ s2 \in Nat /\ s3 \in Nat /\ s4 \in Nat
        /\ ByteValues > 0 /\ s2 = ByteValues * ByteValues /\ s3 = ByteValues * s2
        /\ s4 = ByteValues * s3 /\ MaxSize = s4 - 1
    <2>1. ByteValues \in Nat /\ ByteValues > 0
      BY WireIs
    <2>2. s2 \in Nat /\ s3 \in Nat /\ s4 \in Nat
      BY <2>1
    <2>3. s3 = ByteValues * s2
      BY <2>1
    <2>4. MaxSize = s4 - 1
      BY <2>2, PlaceIs DEF MaxSize
    <2> QED
      BY <2>1, <2>2, <2>3, <2>4
  <1>2. a \in Int /\ b \in Int /\ c \in Int /\ d \in Int
    BY DEF Wire
  <1>3. n = Number(a, b, c, d)
    BY DEF Number
  <1>4. q3 \in 0..(s2 - 1) /\ q3 % ByteValues = c /\ q3 \div ByteValues = d
    <2>1. d \in 0..(ByteValues - 1)
      BY DEF Wire
    <2> QED
      BY <2>1, <1>1, Shifted
  <1> HIDE DEF q3
  <1>5. q2 \in 0..(s3 - 1) /\ q2 % ByteValues = b /\ q2 \div ByteValues = q3
    BY <1>1, <1>4, Shifted
  <1> HIDE DEF q2
  <1>6. n \in 0..(s4 - 1) /\ n % ByteValues = a /\ n \div ByteValues = q2
    BY <1>1, <1>5, Shifted
  <1>7. n = s2 * q3 + (ByteValues * b + a)
    <2>1. n = ByteValues * (ByteValues * q3 + b) + a
      BY DEF q2
    <2>2. ByteValues * (ByteValues * q3 + b) + a
            = (ByteValues * ByteValues) * q3 + (ByteValues * b + a)
      BY <1>1, <1>2, <1>4
    <2> QED
      BY <2>1, <2>2
  <1>8. ByteValues * b + a \in 0..(s2 - 1)
    <2>1. b \in 0..(ByteValues - 1)
      BY DEF Wire
    <2> QED
      BY <1>1, <2>1, Shifted
  <1>9. n = s3 * d + (ByteValues * (ByteValues * c + b) + a)
    <2>1. n = ByteValues * (ByteValues * (ByteValues * d + c) + b) + a
      BY DEF q2, q3
    <2>2. ByteValues * (ByteValues * (ByteValues * d + c) + b) + a
            = (ByteValues * ByteValues * ByteValues) * d
              + (ByteValues * (ByteValues * c + b) + a)
      BY <1>1, <1>2
    <2> QED
      BY <2>1, <2>2
  <1>10. ByteValues * (ByteValues * c + b) + a \in 0..(s3 - 1)
    <2>1. c \in 0..(ByteValues - 1)
      BY DEF Wire
    <2>2. ByteValues * c + b \in 0..(s2 - 1)
      BY <1>1, <2>1, Shifted
    <2> QED
      BY <1>1, <2>2, Shifted
  <1>11. n \div s2 = q3
    <2>1. s2 > 0 /\ q3 \in Int /\ n \in Int
      BY <1>1, <1>4, <1>6, <1>8
    <2> HIDE DEF n, s2
    <2> QED
      BY <2>1, <1>1, <1>7, <1>8, Quotient
  <1>12. n \div s3 = d
    <2>1. s3 > 0 /\ d \in Int /\ n \in Int
      BY <1>1, <1>2, <1>6, <1>10
    <2> HIDE DEF n, s3
    <2> QED
      BY <2>1, <1>1, <1>9, <1>10, Quotient
  <1>13. n \div 1 = n
    BY <1>6, Quotient
  <1>14. d % ByteValues = d
    <2>1. d = ByteValues * 0 + d /\ d \in 0..(ByteValues - 1)
      BY <1>1, <1>2 DEF Wire
    <2> QED
      BY <2>1, <1>1, <1>2, Quotient
  <1>15. c = 0 /\ d = 0 => n < s2
    <2> SUFFICES ASSUME c = 0, d = 0 PROVE n < s2
      OBVIOUS
    <2>1. q3 = 0 /\ q2 = b
      BY <1>1, <1>2 DEF q3, q2
    <2> QED
      BY <1>8, <2>1, <1>1
  <1> HIDE DEF n, s2, s3, s4
  <1>16. Place[1] = 1 /\ Place[2] = ByteValues /\ Place[3] = s2 /\ Place[4] = s3
    BY PlaceIs DEF s2, s3
  <1> QED
    BY <1>1, <1>3, <1>4, <1>5, <1>6, <1>11, <1>12, <1>13, <1>14, <1>15, <1>16

(* Every number that is written has four digits.                           *)
LEMMA HasDigits ==
  ASSUME NEW n \in 0..MaxSize
  PROVE  \E a, b, c, d \in Wire :
           /\ n = Number(a, b, c, d)
           /\ n < Place[3] => c = 0 /\ d = 0
  <1> DEFINE B == ByteValues
             q1 == n \div B
             q2 == q1 \div B
             q3 == q2 \div B
             s2 == B * B
             s3 == B * s2
             a == n % B
             b == q1 % B
             c == q2 % B
  <1>1. B \in Nat /\ B > 0 /\ s2 \in Nat /\ s3 \in Nat
        /\ MaxSize = B * s3 - 1 /\ Place[3] = B * B
    <2>1. B \in Nat /\ B > 0
      BY WireIs
    <2>2. B * (B * B * B) = B * (B * (B * B))
      BY <2>1
    <2>3. s2 \in Nat /\ s3 \in Nat
      BY <2>1
    <2> QED
      BY <2>1, <2>2, <2>3, PlaceIs DEF MaxSize
  <1>2. q1 \in 0..(s3 - 1) /\ a \in Wire /\ n = B * q1 + a
    BY <1>1, Unshifted
  <1> HIDE DEF q1, a
  <1>3. q2 \in 0..(s2 - 1) /\ b \in Wire /\ q1 = B * q2 + b
    BY <1>1, <1>2, Unshifted
  <1> HIDE DEF q2, b
  <1>4. q3 \in 0..(B - 1) /\ c \in Wire /\ q2 = B * q3 + c
    BY <1>1, <1>3, Unshifted
  <1> HIDE DEF q3, c
  <1>5. q3 \in Wire
    BY <1>4 DEF Wire
  <1>6. n = Number(a, b, c, q3)
    BY <1>2, <1>3, <1>4 DEF Number
  <1>7. n < Place[3] => c = 0 /\ q3 = 0
    <2> SUFFICES ASSUME n < B * B PROVE q2 = 0
      <3>1. ASSUME q2 = 0 PROVE c = 0 /\ q3 = 0
        <4>1. q3 \in Nat /\ c \in Nat /\ B * q3 + c = 0 /\ B * q3 \in Nat
          BY <1>1, <1>4, <3>1 DEF Wire
        <4>2. c = 0 /\ B * q3 = 0
          BY <4>1
        <4>3. CASE q3 > 0
          <5>1. B * q3 = B * (q3 - 1) + B /\ q3 - 1 \in Nat
            BY <4>1, <4>3, <1>1
          <5>2. B * (q3 - 1) \in Nat
            BY <5>1, <1>1
          <5> QED
            BY <5>1, <5>2, <4>2, <1>1
        <4> QED
          BY <4>1, <4>2, <4>3
      <3> QED
        BY <3>1, <1>1
    <2>1. q1 \in Nat /\ q2 \in Nat /\ n \in Nat /\ a \in Nat /\ b \in Nat
      BY <1>2, <1>3 DEF Wire
    <2>2. q1 < B
      <3> SUFFICES ASSUME q1 - B \in Nat PROVE FALSE
        BY <2>1, <1>1
      <3>1. B * q1 = B * (q1 - B) + B * B /\ B * (q1 - B) \in Nat /\ B * B \in Nat
        BY <1>1, <2>1
      <3> QED
        BY <3>1, <2>1, <1>2
    <2>3. ~(q2 > 0)
      <3> SUFFICES ASSUME q2 - 1 \in Nat PROVE FALSE
        BY <2>1
      <3>1. B * q2 = B * (q2 - 1) + B /\ B * (q2 - 1) \in Nat
        BY <1>1, <2>1
      <3> QED
        BY <3>1, <2>1, <2>2, <1>1, <1>3
    <2> QED
      BY <2>1, <2>3
  <1> QED
    BY <1>2, <1>3, <1>4, <1>5, <1>6, <1>7

-----------------------------------------------------------------------------
(* Sizes.                                                                  *)

LEMMA ThirdPlace == Place[3] \in Nat /\ Place[3] > ByteValues
  <1>1. ByteValues \in Nat /\ ByteValues - 2 \in Nat
    BY WireIs
  <1>2. ByteValues * ByteValues = ByteValues * (ByteValues - 2) + ByteValues + ByteValues
    BY <1>1
  <1>3. ByteValues * (ByteValues - 2) \in Nat
    BY <1>1
  <1> QED
    BY <1>1, <1>2, <1>3, WireIs, PlaceIs

(* The three forms of a size.                                              *)
LEMMA OneByte ==
  ASSUME NEW n \in 0..(ByteValues - 4)
  PROVE  CompactSize(n) = <<n>> /\ n \in Wire
  BY WireIs DEF CompactSize, Wire

LEMMA MarkedTwo ==
  ASSUME NEW m \in Wire, NEW a \in Wire, NEW b \in Wire
  PROVE  <<m>> \o <<a, b>> = <<m, a, b>>
  <1> DEFINE s == <<m>> \o <<a, b>>
  <1>1. <<m>> \in Seq(Wire) /\ <<a, b>> \in Seq(Wire) /\ <<m, a, b>> \in Seq(Wire)
    OBVIOUS
  <1>2. s \in Seq(Wire) /\ Len(s) = 3 /\ \A i \in 1..3 : s[i] = <<m, a, b>>[i]
    BY <1>1
  <1> QED
    BY <1>1, <1>2, SameSequence

LEMMA MarkedFour ==
  ASSUME NEW m \in Wire, NEW a \in Wire, NEW b \in Wire, NEW c \in Wire, NEW d \in Wire
  PROVE  <<m>> \o <<a, b, c, d>> = <<m, a, b, c, d>>
  <1> DEFINE s == <<m>> \o <<a, b, c, d>>
  <1>1. /\ <<m>> \in Seq(Wire) /\ <<a, b, c, d>> \in Seq(Wire)
        /\ <<m, a, b, c, d>> \in Seq(Wire)
    OBVIOUS
  <1>2. s \in Seq(Wire) /\ Len(s) = 5 /\ \A i \in 1..5 : s[i] = <<m, a, b, c, d>>[i]
    BY <1>1
  <1> QED
    BY <1>1, <1>2, SameSequence

LEMMA ThreeBytes ==
  ASSUME NEW a \in Wire, NEW b \in Wire, Number(a, b, 0, 0) >= ByteValues - 3
  PROVE  /\ Number(a, b, 0, 0) \in 0..MaxSize /\ Number(a, b, 0, 0) < Place[3]
         /\ CompactSize(Number(a, b, 0, 0)) = <<ByteValues - 3, a, b>>
  <1> DEFINE n == Number(a, b, 0, 0)
  <1>1. 0 \in Wire
    BY WireIs DEF Wire
  <1>2. /\ n \in 0..MaxSize /\ n < Place[3]
        /\ (n \div Place[1]) % ByteValues = a /\ (n \div Place[2]) % ByteValues = b
    BY <1>1, LeOf
  <1> HIDE DEF n
  <1>3. Le(n, 2) = <<a, b>>
    BY <1>2 DEF Le
  <1>4. CompactSize(n) = Wide(n)
    <2>1. ~(n < ByteValues - 3)
      BY <1>2, WireIs DEF n
    <2> QED
      BY <1>2, <2>1 DEF CompactSize
  <1>5. Wide(n) = <<ByteValues - 3, a, b>>
    <2>1. ByteValues - 3 \in Wire
      BY WireIs DEF Wire
    <2>2. \A m \in Wire : <<m>> \o <<a, b>> = <<m, a, b>>
      BY MarkedTwo
    <2>3. <<ByteValues - 3>> \o <<a, b>> = <<ByteValues - 3, a, b>>
      BY <2>1, <2>2
    <2> QED
      BY <1>3, <2>3 DEF Wide
  <1> QED
    BY <1>2, <1>4, <1>5 DEF n

LEMMA FiveBytes ==
  ASSUME NEW a \in Wire, NEW b \in Wire, NEW c \in Wire, NEW d \in Wire,
         Number(a, b, c, d) >= Place[3]
  PROVE  /\ Number(a, b, c, d) \in 0..MaxSize
         /\ CompactSize(Number(a, b, c, d)) = <<ByteValues - 2, a, b, c, d>>
  <1> DEFINE n == Number(a, b, c, d)
  <1>1. /\ n \in 0..MaxSize
        /\ (n \div Place[1]) % ByteValues = a /\ (n \div Place[2]) % ByteValues = b
        /\ (n \div Place[3]) % ByteValues = c /\ (n \div Place[4]) % ByteValues = d
    BY LeOf
  <1>2. n >= Place[3]
    OBVIOUS
  <1> HIDE DEF n
  <1>3. Le(n, 4) = <<a, b, c, d>>
    BY <1>1 DEF Le
  <1>4. CompactSize(n) = Widest(n)
    BY <1>1, <1>2, ThirdPlace, WireIs DEF CompactSize
  <1>5. Widest(n) = <<ByteValues - 2, a, b, c, d>>
    <2>1. ByteValues - 2 \in Wire
      BY WireIs DEF Wire
    <2>2. ASSUME NEW m \in Wire PROVE <<m>> \o <<a, b, c, d>> = <<m, a, b, c, d>>
      BY MarkedFour
    <2>3. <<ByteValues - 2>> \o <<a, b, c, d>> = <<ByteValues - 2, a, b, c, d>>
      BY <2>1, <2>2
    <2> QED
      BY <1>3, <2>3 DEF Widest
  <1> QED
    BY <1>1, <1>4, <1>5 DEF n

LEMMA SizeForms ==
  ASSUME NEW n \in 0..MaxSize
  PROVE  \/ n \in 0..(ByteValues - 4)
         \/ \E a, b \in Wire : n = Number(a, b, 0, 0) /\ n >= ByteValues - 3 /\ n < Place[3]
         \/ \E a, b, c, d \in Wire : n = Number(a, b, c, d) /\ n >= Place[3]
  <1>1. PICK a, b, c, d \in Wire :
          n = Number(a, b, c, d) /\ (n < Place[3] => c = 0 /\ d = 0)
    BY HasDigits
  <1>2. CASE n < ByteValues - 3
    BY <1>2, WireIs
  <1>3. CASE n >= ByteValues - 3 /\ n < Place[3]
    BY <1>1, <1>3
  <1>4. CASE n >= Place[3]
    BY <1>1, <1>4
  <1> QED
    BY <1>2, <1>3, <1>4, ThirdPlace, WireIs

LEMMA SizesAreBytes ==
  ASSUME NEW n \in 0..MaxSize
  PROVE  /\ CompactSize(n) \in Seq(Wire) /\ Len(CompactSize(n)) \in 1..5
         /\ n = 0 => CompactSize(n) = <<0>>
  <1>1. ByteValues - 3 \in Wire /\ ByteValues - 2 \in Wire
    BY WireIs DEF Wire
  <1>2. CASE n \in 0..(ByteValues - 4)
    <2>1. CompactSize(n) = <<n>> /\ n \in Wire
      BY <1>2, OneByte
    <2>2. <<n>> \in Seq(Wire) /\ Len(<<n>>) = 1
      BY <2>1
    <2> QED
      BY <2>1, <2>2
  <1>3. CASE \E a, b \in Wire : n = Number(a, b, 0, 0) /\ n >= ByteValues - 3 /\ n < Place[3]
    <2>1. PICK a, b \in Wire : n = Number(a, b, 0, 0) /\ n >= ByteValues - 3
      BY <1>3
    <2>2. CompactSize(n) = <<ByteValues - 3, a, b>>
      BY <2>1, ThreeBytes
    <2>3. <<ByteValues - 3, a, b>> \in Seq(Wire) /\ Len(<<ByteValues - 3, a, b>>) = 3
      BY <1>1
    <2>4. n # 0
      BY <2>1, WireIs
    <2> QED
      BY <2>2, <2>3, <2>4
  <1>4. CASE \E a, b, c, d \in Wire : n = Number(a, b, c, d) /\ n >= Place[3]
    <2>1. PICK a, b, c, d \in Wire : n = Number(a, b, c, d) /\ n >= Place[3]
      BY <1>4
    <2>2. CompactSize(n) = <<ByteValues - 2, a, b, c, d>>
      BY <2>1, FiveBytes
    <2>3. /\ <<ByteValues - 2, a, b, c, d>> \in Seq(Wire)
          /\ Len(<<ByteValues - 2, a, b, c, d>>) = 5
      BY <1>1
    <2>4. n # 0
      BY <2>1, ThirdPlace, WireIs
    <2> QED
      BY <2>2, <2>3, <2>4
  <1> QED
    BY <1>2, <1>3, <1>4, SizeForms

(* compact_size reads what push_compact_size writes, and nothing else.      *)
SizeIs(n) ==
  /\ pos + Len(CompactSize(n)) <= Len(bytes)
  /\ \A i \in 1..Len(CompactSize(n)) : bytes[pos + i] = CompactSize(n)[i]

LEMMA SizeReads ==
  ASSUME bytes \in Seq(Wire), pos \in Nat, Size.error = "ok"
  PROVE  Size.n \in 0..MaxSize /\ SizeIs(Size.n) /\ Size.took = Len(CompactSize(Size.n))
  <1>1. PICK m \in Wire : m = bytes[pos + 1] /\ pos + 1 <= Len(bytes)
    <2>1. ~(pos + 1 > Len(bytes))
      BY DEF Size, Truncated
    <2>2. pos + 1 <= Len(bytes) /\ pos + 1 \in 1..Len(bytes)
      BY <2>1
    <2>3. bytes[pos + 1] \in Wire
      BY <2>2
    <2> QED
      BY <2>2, <2>3
  <1>2. /\ m # ByteValues - 1 /\ ~Truncated(1 + WidthOf(m))
        /\ Digits(WidthOf(m)) >= Least(WidthOf(m))
        /\ Size.n = Digits(WidthOf(m)) /\ Size.took = 1 + WidthOf(m)
    BY <1>1 DEF Size, Minimal
  <1>3. CASE m < ByteValues - 3
    <2>1. WidthOf(m) = 0
      BY <1>1, <1>3, WireIs DEF WidthOf, Wire
    <2>2. Size.n = m /\ Size.took = 1
      BY <1>1, <1>2, <2>1 DEF Digits
    <2>3. CompactSize(m) = <<m>> /\ m \in 0..(ByteValues - 4)
      BY <1>1, <1>3, OneByte, WireIs DEF Wire
    <2>4. m \in 0..MaxSize
      <3>1. 0 \in Wire
        BY WireIs DEF Wire
      <3>2. Number(m, 0, 0, 0) = m
        BY <1>1, WireIs DEF Number
      <3>3. Number(m, 0, 0, 0) \in 0..MaxSize
        BY <1>1, <3>1, LeOf
      <3> QED
        BY <3>2, <3>3
    <2>5. SizeIs(m)
      BY <1>1, <2>3 DEF SizeIs
    <2> QED
      BY <2>2, <2>3, <2>4, <2>5
  <1>4. CASE m = ByteValues - 3
    <2>1. WidthOf(m) = 2
      BY <1>4, WireIs DEF WidthOf
    <2>2. pos + 3 <= Len(bytes) /\ pos + 2 \in 1..Len(bytes) /\ pos + 3 \in 1..Len(bytes)
      BY <1>2, <2>1 DEF Truncated
    <2>3. PICK a, b \in Wire : a = bytes[pos + 2] /\ b = bytes[pos + 3]
      BY <2>2
    <2>4. Digits(2) = a * Place[1] + b * Place[2] /\ Least(2) = ByteValues - 3
      <3>1. pos + 1 + 1 = pos + 2 /\ pos + 1 + 2 = pos + 3
        OBVIOUS
      <3> QED
        BY <2>3, <3>1 DEF Digits, Least
    <2>5. Digits(2) = Number(a, b, 0, 0)
      <3>1. 0 \in Wire
        BY WireIs DEF Wire
      <3>2. Number(a, b, 0, 0) = a * Place[1] + b * Place[2] + 0 * Place[3] + 0 * Place[4]
        BY <3>1, Weighed
      <3>3. /\ Place[3] \in Int /\ Place[4] \in Int
            /\ a * Place[1] \in Int /\ b * Place[2] \in Int
        BY PlaceIs, WireIs
      <3> QED
        BY <2>4, <3>2, <3>3
    <2>6. /\ Size.n \in 0..MaxSize /\ Size.took = 3
          /\ CompactSize(Size.n) = <<ByteValues - 3, a, b>>
      BY <1>2, <2>1, <2>4, <2>5, ThreeBytes
    <2> DEFINE s == <<ByteValues - 3, a, b>>
    <2>7. /\ Len(s) = 3 /\ s[1] = bytes[pos + 1] /\ s[2] = bytes[pos + 2]
          /\ s[3] = bytes[pos + 3]
      BY <1>1, <1>4, <2>3
    <2>8. 1..3 = {1, 2, 3}
      OBVIOUS
    <2>9. CompactSize(Size.n) = s
      BY <2>6
    <2> HIDE DEF s
    <2>10. SizeIs(Size.n)
      BY <2>2, <2>9, <2>7, <2>8 DEF SizeIs
    <2> QED
      BY <2>6, <2>9, <2>10 DEF s
  <1>5. CASE m = ByteValues - 2
    <2>1. WidthOf(m) = 4
      BY <1>5, WireIs DEF WidthOf
    <2>2. /\ pos + 5 <= Len(bytes) /\ pos + 2 \in 1..Len(bytes) /\ pos + 3 \in 1..Len(bytes)
          /\ pos + 4 \in 1..Len(bytes) /\ pos + 5 \in 1..Len(bytes)
      BY <1>2, <2>1 DEF Truncated
    <2>3. PICK a, b, c, d \in Wire : /\ a = bytes[pos + 2] /\ b = bytes[pos + 3]
                                    /\ c = bytes[pos + 4] /\ d = bytes[pos + 5]
      BY <2>2
    <2>4. /\ Digits(4) = a * Place[1] + b * Place[2] + c * Place[3] + d * Place[4]
          /\ Least(4) = Place[3]
      <3>1. /\ pos + 1 + 1 = pos + 2 /\ pos + 1 + 2 = pos + 3
            /\ pos + 1 + 3 = pos + 4 /\ pos + 1 + 4 = pos + 5
        OBVIOUS
      <3> QED
        BY <2>3, <3>1 DEF Digits, Least
    <2>5. Digits(4) = Number(a, b, c, d)
      BY <2>4, Weighed
    <2>6. /\ Size.n \in 0..MaxSize /\ Size.took = 5
          /\ CompactSize(Size.n) = <<ByteValues - 2, a, b, c, d>>
      BY <1>2, <2>1, <2>4, <2>5, FiveBytes
    <2> DEFINE s == <<ByteValues - 2, a, b, c, d>>
    <2>7. /\ Len(s) = 5 /\ s[1] = bytes[pos + 1] /\ s[2] = bytes[pos + 2]
          /\ s[3] = bytes[pos + 3] /\ s[4] = bytes[pos + 4] /\ s[5] = bytes[pos + 5]
      BY <1>1, <1>5, <2>3
    <2>8. 1..5 = {1, 2, 3, 4, 5}
      OBVIOUS
    <2>9. CompactSize(Size.n) = s
      BY <2>6
    <2> HIDE DEF s
    <2>10. SizeIs(Size.n)
      BY <2>2, <2>9, <2>7, <2>8 DEF SizeIs
    <2> QED
      BY <2>6, <2>9, <2>10 DEF s
  <1> QED
    BY <1>1, <1>2, <1>3, <1>4, <1>5, WireIs, SMTT(30) DEF Wire

LEMMA SizeIsRead ==
  ASSUME bytes \in Seq(Wire), pos \in Nat, NEW n \in 0..MaxSize, SizeIs(n)
  PROVE  Size.error = "ok" /\ Size.n = n /\ Size.took = Len(CompactSize(n))
  <1>0. ByteValues - 3 # ByteValues - 2 /\ ByteValues - 3 # ByteValues - 1
        /\ ByteValues - 2 # ByteValues - 1
    BY WireIs
  <1>1. CASE n \in 0..(ByteValues - 4)
    <2>1. CompactSize(n) = <<n>> /\ n \in Wire
      BY <1>1, OneByte
    <2>2. bytes[pos + 1] = n /\ ~Truncated(1)
      BY <2>1 DEF SizeIs, Truncated
    <2>3. WidthOf(n) = 0 /\ n # ByteValues - 1
      BY <1>1, WireIs DEF WidthOf
    <2>4. Digits(0) = n /\ Minimal(n, 0)
      BY <1>1, <2>2 DEF Digits, Minimal, Least
    <2> QED
      BY <2>1, <2>2, <2>3, <2>4 DEF Size
  <1>2. CASE \E a, b \in Wire : n = Number(a, b, 0, 0) /\ n >= ByteValues - 3 /\ n < Place[3]
    <2>1. PICK a, b \in Wire : n = Number(a, b, 0, 0) /\ n >= ByteValues - 3
      BY <1>2
    <2>2. CompactSize(n) = <<ByteValues - 3, a, b>>
      BY <2>1, ThreeBytes
    <2>3. /\ bytes[pos + 1] = ByteValues - 3 /\ ~Truncated(1) /\ ~Truncated(1 + 2)
          /\ bytes[pos + 1 + 1] = a /\ bytes[pos + 1 + 2] = b
      BY <2>2 DEF SizeIs, Truncated
    <2>4. WidthOf(bytes[pos + 1]) = 2
      BY <1>0, <2>3 DEF WidthOf
    <2>5. Digits(2) = a * Place[1] + b * Place[2] /\ Least(2) = ByteValues - 3
      BY <2>3 DEF Digits, Least
    <2>6. Digits(2) = n
      <3>1. 0 \in Wire
        BY WireIs DEF Wire
      <3>2. Number(a, b, 0, 0) = a * Place[1] + b * Place[2] + 0 * Place[3] + 0 * Place[4]
        BY <3>1, Weighed
      <3>3. /\ Place[3] \in Int /\ Place[4] \in Int
            /\ a * Place[1] \in Int /\ b * Place[2] \in Int
        BY PlaceIs, WireIs
      <3> QED
        BY <2>1, <2>5, <3>2, <3>3
    <2>7. Minimal(Digits(2), 2)
      BY <2>1, <2>5, <2>6 DEF Minimal
    <2> QED
      BY <1>0, <2>2, <2>3, <2>4, <2>6, <2>7 DEF Size
  <1>3. CASE \E a, b, c, d \in Wire : n = Number(a, b, c, d) /\ n >= Place[3]
    <2>1. PICK a, b, c, d \in Wire : n = Number(a, b, c, d) /\ n >= Place[3]
      BY <1>3
    <2>2. CompactSize(n) = <<ByteValues - 2, a, b, c, d>>
      BY <2>1, FiveBytes
    <2>3. /\ bytes[pos + 1] = ByteValues - 2 /\ ~Truncated(1) /\ ~Truncated(1 + 4)
          /\ bytes[pos + 1 + 1] = a /\ bytes[pos + 1 + 2] = b
          /\ bytes[pos + 1 + 3] = c /\ bytes[pos + 1 + 4] = d
      BY <2>2 DEF SizeIs, Truncated
    <2>4. WidthOf(bytes[pos + 1]) = 4
      BY <1>0, <2>3 DEF WidthOf
    <2>5. /\ Digits(4) = a * Place[1] + b * Place[2] + c * Place[3] + d * Place[4]
          /\ Least(4) = Place[3]
      BY <2>3 DEF Digits, Least
    <2>6. Digits(4) = n
      BY <2>1, <2>5, Weighed
    <2>7. Minimal(Digits(4), 4)
      BY <2>1, <2>5, <2>6 DEF Minimal
    <2> QED
      BY <1>0, <2>2, <2>3, <2>4, <2>6, <2>7 DEF Size
  <1> QED
    BY <1>1, <1>2, <1>3, SizeForms

-----------------------------------------------------------------------------
(* Where the fields of an envelope are in its bytes.                       *)

Records ==
  [kind : {"none", "mint", "transfer"}, h_anchor : Wire, nf : Wire, pk_eph : Wire, ct : Wire,
   ct_out : Wire, payout : BOOLEAN, amount : Wire, script : Seq(Wire), proof : Wire,
   d : Wire, pk_d : Wire, r_seed : Wire]

Fits(e) == e \in Records /\ Len(e.script) <= MaxSize - AmountLen

(* The length of the payout, as it is written.                             *)
Mark(e) == IF e.payout THEN CompactSize(AmountLen + Len(e.script)) ELSE <<0>>

LEMMA HeaderIsBytes ==
  /\ Magic \in Wire /\ Version \in Wire /\ KindTransfer \in Wire /\ KindMint \in Wire
  /\ 0 \in Wire /\ KindTransfer # KindMint
  /\ NInputs \in Wire /\ NOutputs \in Wire
  /\ NInputs \in 0..(ByteValues - 4) /\ NOutputs \in 0..(ByteValues - 4)
  BY EnvelopeConstants DEF Wire

LEMMA MaxSizeIs == MaxSize \in Nat /\ MaxSize > ByteValues
  <1>1. Place[4] \in Nat /\ ByteValues * Place[4] \in Nat
    BY PlaceIs, WireIs
  <1>2. Place[4] = ByteValues * Place[3]
    <2>1. (ByteValues * ByteValues) * ByteValues = ByteValues * (ByteValues * ByteValues)
      BY WireIs
    <2> QED
      BY <2>1, PlaceIs
  <1>3. ASSUME NEW k \in Nat, k > ByteValues PROVE ByteValues * k \in Nat /\ ByteValues * k > k
    <2>1. ByteValues * k = (ByteValues - 1) * k + k /\ ByteValues - 1 \in Nat
      BY WireIs
    <2>2. (ByteValues - 1) * k >= k /\ (ByteValues - 1) * k \in Nat
      <3>1. (ByteValues - 1) * k = (ByteValues - 2) * k + k /\ ByteValues - 2 \in Nat
        BY WireIs
      <3>2. (ByteValues - 2) * k \in Nat
        BY <3>1
      <3> QED
        BY <3>1, <3>2
    <2> QED
      BY <2>1, <2>2, <1>3, WireIs
  <1>4. Place[4] > Place[3]
    BY <1>2, <1>3, ThirdPlace
  <1>5. ByteValues * Place[4] > Place[4]
    BY <1>1, <1>3, <1>4, ThirdPlace, WireIs
  <1> QED
    BY <1>1, <1>4, <1>5, ThirdPlace, WireIs DEF MaxSize

LEMMA MarkIsBytes ==
  ASSUME NEW e, Fits(e)
  PROVE  /\ Mark(e) \in Seq(Wire) /\ Len(Mark(e)) \in 1..5
         /\ e.payout => AmountLen + Len(e.script) \in 0..MaxSize
  <1>1. Len(e.script) \in Nat
    BY DEF Fits, Records
  <1>2. AmountLen + Len(e.script) \in 0..MaxSize
    BY <1>1, MaxSizeIs DEF Fits, AmountLen
  <1>3. <<0>> \in Seq(Wire) /\ Len(<<0>>) = 1
    BY HeaderIsBytes
  <1> QED
    BY <1>2, <1>3, SizesAreBytes DEF Mark

(* r is s and then t.                                                      *)
Joins(r, s, t) ==
  /\ r \in Seq(Wire) /\ Len(r) = Len(s) + Len(t)
  /\ Len(s) \in Nat /\ Len(t) \in Nat
  /\ \A i \in 1..Len(s) : r[i] = s[i]
  /\ \A i \in 1..Len(t) : r[Len(s) + i] = t[i]

LEMMA Joined ==
  ASSUME NEW s \in Seq(Wire), NEW t \in Seq(Wire)
  PROVE  Joins(s \o t, s, t)
  BY DEF Joins

LEMMA TransferBytes ==
  ASSUME NEW e, Fits(e), e.kind = "transfer"
  PROVE  LET T == ToBytes(e)
             w == Len(Mark(e))
             l == Len(e.script)
         IN  /\ T \in Seq(Wire)
             /\ T[1] = Magic /\ T[2] = Version /\ T[3] = KindTransfer /\ T[4] = 0
             /\ T[5] = e.h_anchor /\ T[6] = NInputs /\ T[7] = NOutputs
             /\ T[8] = e.nf /\ T[9] = e.pk_eph /\ T[10] = e.ct /\ T[11] = e.ct_out
             /\ \A i \in 1..w : T[11 + i] = Mark(e)[i]
             /\ e.payout =>
                  /\ T[12 + w] = e.amount
                  /\ \A i \in 1..l : T[12 + w + i] = e.script[i]
                  /\ T[13 + w + l] = e.proof /\ Len(T) = 13 + w + l
             /\ ~e.payout => T[13] = e.proof /\ Len(T) = 13
  <1> DEFINE front == <<Magic, Version, KindTransfer, 0, e.h_anchor>>
             f == <<e.nf, e.pk_eph, e.ct, e.ct_out>>
             p == IF e.payout THEN Mark(e) \o <<e.amount>> \o e.script ELSE <<0>>
             head == front \o <<NInputs>> \o <<NOutputs>> \o f
             w == Len(Mark(e))
             l == Len(e.script)
  <1>1. ToBytes(e) = head \o p \o <<e.proof>>
    <2>1. CompactSize(NInputs) = <<NInputs>> /\ CompactSize(NOutputs) = <<NOutputs>>
      BY HeaderIsBytes, OneByte
    <2>2. e.payout => CompactSize(AmountLen + Len(e.script)) = Mark(e)
      BY DEF Mark
    <2> QED
      BY <2>1, <2>2 DEF ToBytes, BytesOf, SizeBytes
  <1>2. /\ e.h_anchor \in Wire /\ e.nf \in Wire /\ e.pk_eph \in Wire /\ e.ct \in Wire
        /\ e.ct_out \in Wire /\ e.amount \in Wire /\ e.script \in Seq(Wire) /\ e.proof \in Wire
    BY DEF Fits, Records
  <1>3. /\ head \in Seq(Wire) /\ Len(head) = 11
        /\ head[1] = Magic /\ head[2] = Version /\ head[3] = KindTransfer /\ head[4] = 0
        /\ head[5] = e.h_anchor /\ head[6] = NInputs /\ head[7] = NOutputs
        /\ head[8] = e.nf /\ head[9] = e.pk_eph /\ head[10] = e.ct /\ head[11] = e.ct_out
    <2> DEFINE g == front \o <<NInputs>>
               k == g \o <<NOutputs>>
    <2>1. front \in Seq(Wire) /\ f \in Seq(Wire) /\ <<NInputs>> \in Seq(Wire) /\ <<NOutputs>> \in Seq(Wire)
      BY <1>2, HeaderIsBytes
    <2>2. /\ g \in Seq(Wire) /\ Len(g) = 6
          /\ g[1] = Magic /\ g[2] = Version /\ g[3] = KindTransfer /\ g[4] = 0
          /\ g[5] = e.h_anchor /\ g[6] = NInputs
      BY <2>1
    <2>3. head = k \o f
      OBVIOUS
    <2> HIDE DEF g
    <2>4. /\ k \in Seq(Wire) /\ Len(k) = 7
          /\ k[1] = Magic /\ k[2] = Version /\ k[3] = KindTransfer /\ k[4] = 0
          /\ k[5] = e.h_anchor /\ k[6] = NInputs /\ k[7] = NOutputs
      <3>1. Len(<<NOutputs>>) = 1 /\ <<NOutputs>>[1] = NOutputs
        OBVIOUS
      <3> DEFINE o == <<NOutputs>>
      <3>0. Joins(k, g, o)
        BY <2>1, <2>2, Joined, Zenon
      <3> HIDE DEF k, o
      <3>2. k \in Seq(Wire) /\ Len(k) = 7 /\ \A i \in 1..6 : k[i] = g[i]
        BY <2>2, <3>0, <3>1 DEF Joins, o
      <3>3. k[6 + 1] = NOutputs
        BY <2>2, <3>0, <3>1 DEF Joins, o
      <3> QED
        BY <2>2, <3>2, <3>3
    <2> HIDE DEF k
    <2> QED
      BY <2>1, <2>3, <2>4
  <1> HIDE DEF head
  <1>4. Mark(e) \in Seq(Wire) /\ w \in 1..5 /\ l \in Nat
    BY <1>2, MarkIsBytes
  <1>5. /\ p \in Seq(Wire)
        /\ \A i \in 1..w : p[i] = Mark(e)[i]
        /\ e.payout => /\ Len(p) = w + 1 + l /\ p[w + 1] = e.amount
                       /\ \A i \in 1..l : p[w + 1 + i] = e.script[i]
        /\ ~e.payout => Len(p) = 1 /\ w = 1
    <2>1. CASE ~e.payout
      BY <2>1, HeaderIsBytes DEF Mark
    <2>2. CASE e.payout
      <3> DEFINE q == Mark(e) \o <<e.amount>>
      <3>1. <<e.amount>> \in Seq(Wire)
        BY <1>2
      <3>2. /\ q \in Seq(Wire) /\ Len(q) = w + 1 /\ q[w + 1] = e.amount
            /\ \A i \in 1..w : q[i] = Mark(e)[i]
        BY <1>4, <3>1
      <3>3. Joins(p, q, e.script)
        <4>1. Joins(q \o e.script, q, e.script)
          BY <1>2, <3>2, Joined, Zenon
        <4> QED
          BY <2>2, <4>1
      <3> HIDE DEF q, p
      <3>4. /\ p \in Seq(Wire) /\ Len(p) = w + 1 + l
            /\ \A i \in 1..(w + 1) : p[i] = q[i]
            /\ \A i \in 1..l : p[w + 1 + i] = e.script[i]
        BY <3>2, <3>3 DEF Joins
      <3>5. p \in Seq(Wire) /\ Len(p) = w + 1 + l
        BY <3>4
      <3> HIDE DEF w, l
      <3>6. \A i \in 1..w : p[i] = Mark(e)[i]
        <4> SUFFICES ASSUME NEW i \in 1..w PROVE p[i] = Mark(e)[i]
          OBVIOUS
        <4>1. i \in 1..(w + 1)
          BY <1>4
        <4> QED
          BY <3>2, <3>4, <4>1
      <3>7. p[w + 1] = e.amount
        <4>1. w + 1 \in 1..(w + 1)
          BY <1>4
        <4> QED
          BY <3>2, <3>4, <4>1
      <3> QED
        BY <2>2, <3>4, <3>6, <3>7 DEF w, l
    <2> QED
      BY <2>1, <2>2
  <1> HIDE DEF p
  <1> HIDE DEF w, l
  <1>6. Len(p) \in Nat /\ Len(p) >= w
    BY <1>4, <1>5, SMTT(30)
  <1>7. /\ ToBytes(e) \in Seq(Wire) /\ Len(ToBytes(e)) = 12 + Len(p)
        /\ \A i \in 1..11 : ToBytes(e)[i] = head[i]
        /\ \A i \in 1..Len(p) : ToBytes(e)[11 + i] = p[i]
        /\ ToBytes(e)[12 + Len(p)] = e.proof
    <2> DEFINE q == head \o p
    <2>1. <<e.proof>> \in Seq(Wire)
      BY <1>2
    <2>0. Joins(q, head, p)
      BY <1>3, <1>5, Joined, Zenon
    <2>2. /\ q \in Seq(Wire) /\ Len(q) = 11 + Len(p)
          /\ \A i \in 1..11 : q[i] = head[i]
          /\ \A i \in 1..Len(p) : q[11 + i] = p[i]
      BY <1>3, <2>0 DEF Joins
    <2>3. Joins(ToBytes(e), q, <<e.proof>>)
      BY <1>1, <2>1, <2>2, Joined, Zenon
    <2> HIDE DEF q
    <2>4. Len(<<e.proof>>) = 1 /\ <<e.proof>>[1] = e.proof
      OBVIOUS
    <2>5. /\ ToBytes(e) \in Seq(Wire) /\ Len(ToBytes(e)) = 11 + Len(p) + 1
          /\ \A i \in 1..(11 + Len(p)) : ToBytes(e)[i] = q[i]
          /\ ToBytes(e)[11 + Len(p) + 1] = e.proof
      BY <2>2, <2>3, <2>4 DEF Joins
    <2> QED
      BY <1>6, <2>2, <2>5, SMTT(30)
  <1>8. \A i \in 1..w : ToBytes(e)[11 + i] = Mark(e)[i]
    BY <1>4, <1>5, <1>6, <1>7, SMTT(30)
  <1>9. e.payout => /\ ToBytes(e)[12 + w] = e.amount
                    /\ \A i \in 1..l : ToBytes(e)[12 + w + i] = e.script[i]
                    /\ ToBytes(e)[13 + w + l] = e.proof /\ Len(ToBytes(e)) = 13 + w + l
    <2> SUFFICES ASSUME e.payout
                 PROVE  /\ ToBytes(e)[12 + w] = e.amount
                        /\ \A i \in 1..l : ToBytes(e)[12 + w + i] = e.script[i]
                        /\ ToBytes(e)[13 + w + l] = e.proof /\ Len(ToBytes(e)) = 13 + w + l
      OBVIOUS
    <2>1. Len(p) = w + 1 + l /\ w + 1 \in 1..Len(p) /\ 11 + (w + 1) = 12 + w
          /\ 12 + Len(p) = 13 + w + l
      BY <1>4, <1>5
    <2>2. ASSUME NEW i \in 1..l PROVE ToBytes(e)[12 + w + i] = e.script[i]
      <3>1. w + 1 + i \in 1..Len(p) /\ 11 + (w + 1 + i) = 12 + w + i
        BY <1>4, <2>1
      <3> QED
        BY <1>5, <1>7, <3>1
    <2> QED
      BY <1>5, <1>7, <2>1, <2>2
  <1>10. ~e.payout => ToBytes(e)[13] = e.proof /\ Len(ToBytes(e)) = 13
    BY <1>5, <1>7, SMTT(30)
  <1>11. \A i \in 1..11 : ToBytes(e)[i] = head[i]
    BY <1>7
  <1>12. LET T == ToBytes(e)
         IN  /\ T[1] = Magic /\ T[2] = Version /\ T[3] = KindTransfer /\ T[4] = 0
             /\ T[5] = e.h_anchor /\ T[6] = NInputs /\ T[7] = NOutputs
             /\ T[8] = e.nf /\ T[9] = e.pk_eph /\ T[10] = e.ct /\ T[11] = e.ct_out
    BY <1>3, <1>11
  <1>13. ToBytes(e) \in Seq(Wire)
    BY <1>7
  <1> QED
    BY <1>8, <1>9, <1>10, <1>12, <1>13 DEF w, l

LEMMA MintBytes ==
  ASSUME NEW e, Fits(e), e.kind = "mint"
  PROVE  LET T == ToBytes(e)
         IN  /\ T \in Seq(Wire) /\ Len(T) = 7
             /\ T[1] = Magic /\ T[2] = Version /\ T[3] = KindMint /\ T[4] = 0
             /\ T[5] = e.d /\ T[6] = e.pk_d /\ T[7] = e.r_seed
  <1>1. e.d \in Wire /\ e.pk_d \in Wire /\ e.r_seed \in Wire
    BY DEF Fits, Records
  <1>2. ToBytes(e) = <<Magic, Version, KindMint, 0, e.d, e.pk_d, e.r_seed>>
    BY DEF ToBytes, BytesOf
  <1> QED
    BY <1>1, <1>2, HeaderIsBytes

(* How many bytes are before a field.                                      *)
At(f, e) ==
  IF f = "h_anchor" \/ f = "d" THEN 4
  ELSE IF f = "in_count" \/ f = "pk_d" THEN 5
  ELSE IF f = "out_count" \/ f = "r_seed" THEN 6
  ELSE IF f = "nf" THEN 7
  ELSE IF f = "pk_eph" THEN 8
  ELSE IF f = "ct" THEN 9
  ELSE IF f = "ct_out" THEN 10
  ELSE IF f = "plen" THEN 11
  ELSE IF f = "amount" THEN 11 + Len(Mark(e))
  ELSE IF f = "script" THEN 12 + Len(Mark(e))
  ELSE IF f = "proof" THEN IF e.payout THEN 12 + Len(Mark(e)) + Len(e.script) ELSE 12
  ELSE Len(ToBytes(e))

FirstFields == {"h_anchor", "in_count", "out_count", "nf", "pk_eph", "ct", "ct_out", "plen"}
PayoutFields == {"amount", "script"}
MintFields == {"d", "pk_d", "r_seed"}
TransferFields == FirstFields \cup PayoutFields \cup {"proof"}

(* f may be the next field of such an envelope.                            *)
FieldOf(f, e) ==
  \/ e.kind = "transfer" /\ f \in FirstFields \cup {"proof"}
  \/ e.kind = "transfer" /\ f \in PayoutFields /\ e.payout
  \/ e.kind = "mint" /\ f \in MintFields

LEMMA AtIs ==
  ASSUME NEW e
  PROVE  /\ At("h_anchor", e) = 4 /\ At("d", e) = 4
         /\ At("in_count", e) = 5 /\ At("pk_d", e) = 5
         /\ At("out_count", e) = 6 /\ At("r_seed", e) = 6
         /\ At("nf", e) = 7 /\ At("pk_eph", e) = 8 /\ At("ct", e) = 9
         /\ At("ct_out", e) = 10 /\ At("plen", e) = 11
         /\ At("amount", e) = 11 + Len(Mark(e))
         /\ At("script", e) = 12 + Len(Mark(e))
         /\ At("proof", e) = IF e.payout THEN 12 + Len(Mark(e)) + Len(e.script) ELSE 12
         /\ At("last", e) = Len(ToBytes(e))
  BY DEF At

LEMMA TransferFieldOf ==
  ASSUME NEW e, NEW f, e.kind = "transfer", FieldOf(f, e)
  PROVE  f \in FirstFields \cup {"proof"} \/ (f \in PayoutFields /\ e.payout)
  BY Zenon DEF FieldOf

LEMMA Offsets ==
  ASSUME NEW e, Fits(e), NEW f, FieldOf(f, e)
  PROVE  /\ At(f, e) \in Nat
         /\ f \in FirstFields => At(f, e) \in 4..11
         /\ f \in Fixed => At(f, e) + 1 <= Len(ToBytes(e))
  <1>1. Len(Mark(e)) \in 1..5 /\ Len(e.script) \in Nat
    BY MarkIsBytes DEF Fits, Records
  <1>2. CASE e.kind = "mint"
    <2>1. f \in MintFields /\ Len(ToBytes(e)) = 7
      BY <1>2, MintBytes DEF FieldOf
    <2>2. At(f, e) \in {4, 5, 6}
      BY <2>1, AtIs DEF MintFields
    <2>3. f \notin FirstFields
      BY <2>1 DEF MintFields, FirstFields
    <2> QED
      BY <2>1, <2>2, <2>3
  <1>3. CASE e.kind = "transfer"
    <2>0. f \in FirstFields \cup {"proof"} \/ (f \in PayoutFields /\ e.payout)
      BY <1>3, TransferFieldOf, Zenon
    <2> DEFINE w == Len(Mark(e))
               l == Len(e.script)
               n == Len(ToBytes(e))
    <2>1. (e.payout => n = 13 + w + l) /\ (~e.payout => n = 13)
      BY <1>3, TransferBytes
    <2>a. w \in 1..5 /\ l \in Nat
      BY <1>1
    <2>b. /\ At("amount", e) = 11 + w /\ At("script", e) = 12 + w
          /\ e.payout => At("proof", e) = 12 + w + l
          /\ ~e.payout => At("proof", e) = 12
      BY AtIs
    <2> HIDE DEF w, l, n
    <2>c. n >= 13
      BY <2>1, <2>a
    <2>2. CASE f \in FirstFields
      <3>1. At(f, e) \in {4, 5, 6, 7, 8, 9, 10, 11}
        BY <2>2, AtIs, ZenonT(60) DEF FirstFields
      <3>2. f \in Fixed => At(f, e) \in {4, 5, 6, 7, 8, 9, 10}
        BY <2>2, AtIs, ZenonT(60) DEF FirstFields, Fixed
      <3> QED
        BY <3>1, <3>2, <2>c DEF n
    <2>3. CASE f = "proof"
      <3>1. f \notin FirstFields
        BY <2>3 DEF FirstFields
      <3>2. CASE e.payout
        <4>1. At(f, e) = 12 + w + l
          BY <2>3, <2>b, <3>2
        <4>2. At(f, e) \in Nat /\ At(f, e) + 1 <= n
          BY <2>a, <2>1, <3>2, <4>1
        <4> QED
          BY <3>1, <4>2 DEF n
      <3>3. CASE ~e.payout
        <4>1. At(f, e) = 12
          BY <2>3, <2>b, <3>3
        <4> QED
          BY <2>c, <3>1, <4>1 DEF n
      <3> QED
        BY <3>2, <3>3
    <2>4. CASE f \in PayoutFields /\ e.payout
      <3>1. f \notin FirstFields /\ (f \in Fixed => f = "amount")
        BY <2>4 DEF PayoutFields, FirstFields, Fixed
      <3>2. /\ f = "amount" \/ f = "script"
            /\ f = "amount" => At(f, e) = 11 + w
            /\ f = "script" => At(f, e) = 12 + w
        BY <2>4, <2>b DEF PayoutFields
      <3>3. At(f, e) \in Nat /\ (f = "amount" => At(f, e) + 1 <= n)
        BY <2>a, <2>1, <2>4, <3>2
      <3> QED
        BY <3>1, <3>3 DEF n
    <2> QED
      BY <2>0, <2>2, <2>3, <2>4
  <1> QED
    BY <1>2, <1>3 DEF FieldOf

LEMMA FieldAt ==
  ASSUME NEW e, Fits(e), NEW f \in Fixed, FieldOf(f, e)
  PROVE  ToBytes(e)[At(f, e) + 1] = e[f]
  <1>1. CASE e.kind = "mint"
    <2>1. f \in {"d", "pk_d", "r_seed"}
      BY <1>1 DEF FieldOf, MintFields
    <2>2. /\ ToBytes(e)[5] = e.d /\ ToBytes(e)[6] = e.pk_d /\ ToBytes(e)[7] = e.r_seed
      BY <1>1, MintBytes
    <2>3. /\ f = "d" => At(f, e) = 4
          /\ f = "pk_d" => At(f, e) = 5
          /\ f = "r_seed" => At(f, e) = 6
      BY AtIs
    <2> QED
      BY <2>1, <2>2, <2>3
  <1>2. CASE e.kind = "transfer"
    <2> DEFINE T == ToBytes(e)
               w == Len(Mark(e))
               l == Len(e.script)
    <2>0. w \in Nat /\ l \in Nat
      BY MarkIsBytes DEF Fits, Records
    <2>1. /\ T[5] = e.h_anchor /\ T[8] = e.nf /\ T[9] = e.pk_eph /\ T[10] = e.ct
          /\ T[11] = e.ct_out
          /\ e.payout => T[12 + w] = e.amount /\ T[13 + w + l] = e.proof
          /\ ~e.payout => T[13] = e.proof
      BY <1>2, TransferBytes
    <2>a. /\ At("amount", e) = 11 + w
          /\ e.payout => At("proof", e) = 12 + w + l
          /\ ~e.payout => At("proof", e) = 12
      BY AtIs
    <2> HIDE DEF T, w, l
    <2>2. CASE f \in FirstFields
      <3>1. f \in {"h_anchor", "nf", "pk_eph", "ct", "ct_out"}
        BY <2>2 DEF FirstFields, Fixed
      <3>2. /\ f = "h_anchor" => At(f, e) = 4
            /\ f = "nf" => At(f, e) = 7
            /\ f = "pk_eph" => At(f, e) = 8
            /\ f = "ct" => At(f, e) = 9
            /\ f = "ct_out" => At(f, e) = 10
        BY AtIs
      <3> QED
        BY <2>1, <3>1, <3>2 DEF T
    <2>3. CASE f = "proof"
      <3>1. CASE e.payout
        <4>1. At(f, e) = 12 + w + l
          BY <2>3, <3>1, <2>a
        <4>2. At(f, e) + 1 = 13 + w + l
          BY <2>0, <4>1
        <4> QED
          BY <2>1, <2>3, <3>1, <4>2 DEF T
      <3>2. CASE ~e.payout
        <4>1. At(f, e) = 12
          BY <2>3, <3>2, <2>a
        <4> QED
          BY <2>1, <2>3, <3>2, <4>1 DEF T
      <3> QED
        BY <3>1, <3>2
    <2>4. CASE f \in PayoutFields /\ e.payout
      <3>1. f = "amount"
        BY <2>4 DEF PayoutFields, Fixed
      <3>2. At(f, e) = 11 + w
        BY <3>1, <2>a
      <3>3. At(f, e) + 1 = 12 + w
        BY <2>0, <3>2
      <3> QED
        BY <2>1, <2>4, <3>1, <3>3 DEF T
    <2> QED
      BY <1>2, <2>2, <2>3, <2>4 DEF FieldOf, MintFields
  <1> QED
    BY <1>1, <1>2 DEF FieldOf

(* Bytes before a field do not depend on it.                               *)
AgreeBefore(e, g, n) ==
  /\ n >= 5 => g.h_anchor = e.h_anchor
  /\ n >= 8 => g.nf = e.nf
  /\ n >= 9 => g.pk_eph = e.pk_eph
  /\ n >= 10 => g.ct = e.ct
  /\ n = 11 => g.ct_out = e.ct_out

LEMMA SameHead ==
  ASSUME NEW e, NEW g, Fits(e), Fits(g), e.kind = "transfer", g.kind = "transfer",
         NEW n \in 4..11, AgreeBefore(e, g, n)
  PROVE  \A k \in 1..n : ToBytes(g)[k] = ToBytes(e)[k]
  <1> SUFFICES ASSUME NEW k \in 1..n PROVE ToBytes(g)[k] = ToBytes(e)[k]
    OBVIOUS
  <1> DEFINE T == ToBytes(e)  U == ToBytes(g)
  <1>1. /\ T[1] = Magic /\ T[2] = Version /\ T[3] = KindTransfer /\ T[4] = 0
        /\ T[5] = e.h_anchor /\ T[6] = NInputs /\ T[7] = NOutputs
        /\ T[8] = e.nf /\ T[9] = e.pk_eph /\ T[10] = e.ct /\ T[11] = e.ct_out
    BY TransferBytes
  <1>2. /\ U[1] = Magic /\ U[2] = Version /\ U[3] = KindTransfer /\ U[4] = 0
        /\ U[5] = g.h_anchor /\ U[6] = NInputs /\ U[7] = NOutputs
        /\ U[8] = g.nf /\ U[9] = g.pk_eph /\ U[10] = g.ct /\ U[11] = g.ct_out
    BY TransferBytes
  <1> HIDE DEF T, U
  <1>3. k \in {1, 2, 3, 4, 5, 6, 7, 8, 9, 10, 11} /\ k <= n
    OBVIOUS
  <1> QED
    BY <1>1, <1>2, <1>3 DEF T, U, AgreeBefore

HeadsAgree(e, g) ==
  /\ g.h_anchor = e.h_anchor /\ g.nf = e.nf /\ g.pk_eph = e.pk_eph
  /\ g.ct = e.ct /\ g.ct_out = e.ct_out

LEMMA SameMark ==
  ASSUME NEW e, NEW g, Fits(e), Fits(g), e.kind = "transfer", g.kind = "transfer",
         HeadsAgree(e, g), Mark(g) = Mark(e)
  PROVE  \A k \in 1..(11 + Len(Mark(e))) : ToBytes(g)[k] = ToBytes(e)[k]
  <1> DEFINE T == ToBytes(e)  U == ToBytes(g)  m == Mark(e)  w == Len(m)
  <1>1. \A k \in 1..11 : U[k] = T[k]
    <2>1. 11 \in 4..11 /\ AgreeBefore(e, g, 11)
      BY DEF HeadsAgree, AgreeBefore
    <2> QED
      BY <2>1, SameHead, Zenon
  <1>2. \A i \in 1..w : T[11 + i] = m[i]
    BY TransferBytes
  <1>3. \A i \in 1..w : U[11 + i] = m[i]
    <2>1. \A i \in 1..Len(Mark(g)) : U[11 + i] = Mark(g)[i]
      BY TransferBytes
    <2> QED
      BY <2>1, Zenon
  <1>4. w \in 1..5
    BY MarkIsBytes
  <1> SUFFICES ASSUME NEW k \in 1..(11 + w) PROVE U[k] = T[k]
    OBVIOUS
  <1> HIDE DEF T, U, m, w
  <1>5. CASE k <= 11
    BY <1>1, <1>5
  <1>6. CASE k > 11
    <2>1. k - 11 \in 1..w /\ 11 + (k - 11) = k
      BY <1>4, <1>6
    <2> QED
      BY <1>2, <1>3, <2>1
  <1> QED
    BY <1>4, <1>5, <1>6

LEMMA SamePayout ==
  ASSUME NEW e, NEW g, Fits(e), Fits(g), e.kind = "transfer", g.kind = "transfer",
         HeadsAgree(e, g), e.payout, g.payout, g.amount = e.amount,
         Len(g.script) = Len(e.script)
  PROVE  /\ \A k \in 1..(12 + Len(Mark(e))) : ToBytes(g)[k] = ToBytes(e)[k]
         /\ g.script = e.script =>
              \A k \in 1..(12 + Len(Mark(e)) + Len(e.script)) : ToBytes(g)[k] = ToBytes(e)[k]
  <1> DEFINE T == ToBytes(e)  U == ToBytes(g)  w == Len(Mark(e))  l == Len(e.script)
  <1>1. Mark(g) = Mark(e)
    BY DEF Mark
  <1>2. \A k \in 1..(11 + w) : U[k] = T[k]
    BY <1>1, SameMark
  <1>3. T[12 + w] = e.amount /\ \A i \in 1..l : T[12 + w + i] = e.script[i]
    BY TransferBytes, ZenonT(60)
  <1>4. U[12 + w] = g.amount /\ \A i \in 1..l : U[12 + w + i] = g.script[i]
    <2>1. /\ U[12 + Len(Mark(g))] = g.amount
          /\ \A i \in 1..Len(g.script) : U[12 + Len(Mark(g)) + i] = g.script[i]
      BY TransferBytes, ZenonT(60)
    <2> QED
      BY <1>1, <2>1, Zenon
  <1>5. w \in 1..5 /\ l \in Nat
    BY MarkIsBytes DEF Fits, Records
  <1> HIDE DEF T, U, w, l
  <1>6. ASSUME NEW k \in 1..(12 + w) PROVE U[k] = T[k]
    <2>1. k \in 1..(11 + w) \/ k = 12 + w
      BY <1>5
    <2> QED
      BY <1>2, <1>3, <1>4, <2>1
  <1>7. ASSUME g.script = e.script, NEW k \in 1..(12 + w + l) PROVE U[k] = T[k]
    <2>1. CASE k <= 12 + w
      BY <1>5, <1>6, <2>1
    <2>2. CASE k > 12 + w
      <3>1. k - (12 + w) \in 1..l /\ 12 + w + (k - (12 + w)) = k
        BY <1>5, <2>2
      <3> QED
        BY <1>3, <1>4, <1>7, <3>1
    <2> QED
      BY <1>5, <2>1, <2>2
  <1> QED
    BY <1>6, <1>7 DEF T, U, w, l

Differ(e, g, f) ==
  /\ g.kind = e.kind /\ g.payout = e.payout /\ g.script = e.script
  /\ f # "h_anchor" => g.h_anchor = e.h_anchor
  /\ f # "nf" => g.nf = e.nf
  /\ f # "pk_eph" => g.pk_eph = e.pk_eph
  /\ f # "ct" => g.ct = e.ct
  /\ f # "ct_out" => g.ct_out = e.ct_out
  /\ f # "amount" => g.amount = e.amount
  /\ f # "proof" => g.proof = e.proof
  /\ f # "d" => g.d = e.d
  /\ f # "pk_d" => g.pk_d = e.pk_d
  /\ f # "r_seed" => g.r_seed = e.r_seed

LEMMA SetField ==
  ASSUME NEW e, Fits(e), NEW f \in Fixed, NEW v \in Wire
  PROVE  LET g == [e EXCEPT ![f] = v]
         IN  Fits(g) /\ Differ(e, g, f) /\ g[f] = v
  <1> DEFINE g == [e EXCEPT ![f] = v]
  <1>1. g \in Records /\ g.script = e.script /\ g[f] = v
    BY DEF Fixed, Fits, Records
  <1>2. Differ(e, g, f)
    BY DEF Fixed, Fits, Records, Differ
  <1> QED
    BY <1>1, <1>2 DEF Fits

SameUpTo(e, g, f) ==
  /\ FieldOf(f, g) /\ At(f, g) = At(f, e)
  /\ \A k \in 1..At(f, e) : ToBytes(g)[k] = ToBytes(e)[k]

(* Setting a field changes no byte before it.                              *)
LEMMA SameBefore ==
  ASSUME NEW e, NEW g, Fits(e), Fits(g), NEW f \in Fixed, FieldOf(f, e), Differ(e, g, f)
  PROVE  SameUpTo(e, g, f)
  <1>1. /\ g.kind = e.kind /\ g.payout = e.payout /\ g.script = e.script
        /\ f # "h_anchor" => g.h_anchor = e.h_anchor
        /\ f # "nf" => g.nf = e.nf
        /\ f # "pk_eph" => g.pk_eph = e.pk_eph
        /\ f # "ct" => g.ct = e.ct
        /\ f # "ct_out" => g.ct_out = e.ct_out
        /\ f # "amount" => g.amount = e.amount
        /\ f # "d" => g.d = e.d
        /\ f # "pk_d" => g.pk_d = e.pk_d
    BY DEF Differ
  <1>2. Mark(g) = Mark(e)
    BY <1>1 DEF Mark
  <1>3. FieldOf(f, g)
    BY <1>1 DEF FieldOf
  <1>4. At(f, g) = At(f, e)
    <2>1. CASE f \in {"amount", "proof"}
      <3>1. At("amount", g) = At("amount", e)
        BY <1>2, AtIs, Zenon
      <3>2. At("proof", g) = At("proof", e)
        <4>1. CASE e.payout
          <5>1. /\ At("proof", g) = 12 + Len(Mark(g)) + Len(g.script)
                /\ At("proof", e) = 12 + Len(Mark(e)) + Len(e.script)
            BY <1>1, <4>1, AtIs
          <5> QED
            BY <1>1, <1>2, <5>1, Zenon
        <4>2. CASE ~e.payout
          BY <1>1, <4>2, AtIs
        <4> QED
          BY <4>1, <4>2
      <3> QED
        BY <2>1, <3>1, <3>2
    <2>2. CASE f \notin {"amount", "proof"}
      <3>1. f \in {"h_anchor", "nf", "pk_eph", "ct", "ct_out", "d", "pk_d", "r_seed"}
        BY <2>2 DEF Fixed
      <3> QED
        BY <3>1, AtIs, ZenonT(60)
    <2> QED
      BY <2>1, <2>2
  <1>5. \A k \in 1..At(f, e) : ToBytes(g)[k] = ToBytes(e)[k]
    <2>1. CASE e.kind = "mint"
      <3>1. f \in {"d", "pk_d", "r_seed"}
        BY <2>1 DEF FieldOf, MintFields
      <3>2. /\ f = "d" => At(f, e) = 4
            /\ f = "pk_d" => At(f, e) = 5
            /\ f = "r_seed" => At(f, e) = 6
        BY AtIs
      <3> DEFINE T == ToBytes(e)  U == ToBytes(g)
      <3>3. /\ T[1] = Magic /\ T[2] = Version /\ T[3] = KindMint /\ T[4] = 0
            /\ T[5] = e.d /\ T[6] = e.pk_d
        BY <2>1, MintBytes
      <3>4. /\ U[1] = Magic /\ U[2] = Version /\ U[3] = KindMint /\ U[4] = 0
            /\ U[5] = g.d /\ U[6] = g.pk_d
        BY <1>1, <2>1, MintBytes
      <3> HIDE DEF T, U
      <3>5. ASSUME NEW k \in 1..At(f, e) PROVE U[k] = T[k]
        <4>1. /\ k \in {1, 2, 3, 4, 5, 6}
              /\ k = 5 => f # "d"
              /\ k = 6 => f # "d" /\ f # "pk_d"
          BY <3>1, <3>2
        <4> QED
          BY <1>1, <3>3, <3>4, <4>1
      <3> QED
        BY <3>5 DEF T, U
    <2>2. CASE e.kind = "transfer" /\ f \in FirstFields
      <3>1. /\ f = "h_anchor" => At(f, e) = 4
            /\ f = "nf" => At(f, e) = 7
            /\ f = "pk_eph" => At(f, e) = 8
            /\ f = "ct" => At(f, e) = 9
            /\ f = "ct_out" => At(f, e) = 10
        BY AtIs
      <3>2. f \in {"h_anchor", "nf", "pk_eph", "ct", "ct_out"}
        BY <2>2 DEF FirstFields, Fixed
      <3> DEFINE n == At(f, e)
      <3>3. /\ n \in 4..11
            /\ n >= 5 => f # "h_anchor"
            /\ n >= 8 => f # "nf"
            /\ n >= 9 => f # "pk_eph"
            /\ n >= 10 => f # "ct"
            /\ n = 11 => f # "ct_out"
        BY <3>1, <3>2
      <3> HIDE DEF n
      <3>a. AgreeBefore(e, g, n) /\ g.kind = "transfer"
        BY <1>1, <2>2, <3>3 DEF AgreeBefore
      <3>4. \A k \in 1..n : ToBytes(g)[k] = ToBytes(e)[k]
        BY <2>2, <3>3, <3>a, SameHead, Zenon
      <3> QED
        BY <3>4 DEF n
    <2>3. CASE e.kind = "transfer" /\ f = "amount" /\ e.payout
      <3>1. HeadsAgree(e, g)
        BY <1>1, <2>3 DEF HeadsAgree
      <3>2. At(f, e) = 11 + Len(Mark(e))
        BY <2>3, AtIs
      <3>a. g.kind = "transfer"
        BY <1>1, <2>3
      <3>3. \A k \in 1..(11 + Len(Mark(e))) : ToBytes(g)[k] = ToBytes(e)[k]
        BY <1>2, <2>3, <3>1, <3>a, SameMark, Zenon
      <3> QED
        BY <3>2, <3>3, Zenon
    <2>4. CASE e.kind = "transfer" /\ f = "proof"
      <3>1. HeadsAgree(e, g) /\ g.amount = e.amount
        BY <1>1, <2>4 DEF HeadsAgree
      <3>a. g.kind = "transfer" /\ Len(g.script) = Len(e.script)
        BY <1>1, <2>4
      <3>2. CASE e.payout
        <4>1. At(f, e) = 12 + Len(Mark(e)) + Len(e.script)
          BY <2>4, <3>2, AtIs
        <4>2. \A k \in 1..(12 + Len(Mark(e)) + Len(e.script)) : ToBytes(g)[k] = ToBytes(e)[k]
          BY <1>1, <2>4, <3>1, <3>2, <3>a, SamePayout, Zenon
        <4> QED
          BY <4>1, <4>2, Zenon
      <3>3. CASE ~e.payout
        <4>1. At(f, e) = 12
          BY <2>4, <3>3, AtIs
        <4>2. Len(Mark(e)) = 1
          BY <3>3 DEF Mark
        <4>3. \A k \in 1..(11 + Len(Mark(e))) : ToBytes(g)[k] = ToBytes(e)[k]
          BY <1>2, <2>4, <3>1, <3>a, SameMark, Zenon
        <4>4. 11 + Len(Mark(e)) = 12
          BY <4>2
        <4> QED
          BY <4>1, <4>3, <4>4, Zenon
      <3> QED
        BY <3>2, <3>3
    <2>5. \/ e.kind = "mint"
          \/ e.kind = "transfer" /\ f \in FirstFields
          \/ e.kind = "transfer" /\ f = "amount" /\ e.payout
          \/ e.kind = "transfer" /\ f = "proof"
      <3>1. f # "script"
        BY DEF Fixed
      <3>2. e.kind = "mint" \/ e.kind = "transfer"
        BY Zenon DEF FieldOf
      <3>3. CASE e.kind = "transfer"
        BY <3>1, <3>3, TransferFieldOf, Zenon DEF PayoutFields
      <3> QED
        BY <3>2, <3>3
    <2> QED
      BY <2>1, <2>2, <2>3, <2>4, <2>5
  <1> QED
    BY <1>3, <1>4, <1>5 DEF SameUpTo

LEMMA NextIs ==
  /\ NextField("h_anchor") = "in_count" /\ NextField("in_count") = "out_count"
  /\ NextField("out_count") = "nf" /\ NextField("nf") = "pk_eph"
  /\ NextField("pk_eph") = "ct" /\ NextField("ct") = "ct_out"
  /\ NextField("ct_out") = "plen" /\ NextField("amount") = "script"
  /\ NextField("script") = "proof" /\ NextField("d") = "pk_d"
  /\ NextField("pk_d") = "r_seed" /\ NextField("r_seed") = "last"
  /\ NextField("proof") = "last"
  BY DEF NextField

(* The field after f begins behind it.                                     *)
LEMMA NextAt ==
  ASSUME NEW e, Fits(e), NEW f \in Fixed, FieldOf(f, e)
  PROVE  /\ At(NextField(f), e) = At(f, e) + 1
         /\ IF NextField(f) = "last" THEN e.kind \in {"mint", "transfer"}
            ELSE FieldOf(NextField(f), e)
  <1> DEFINE w == Len(Mark(e))
             l == Len(e.script)
  <1>1. w \in 1..5 /\ l \in Nat
    BY MarkIsBytes DEF Fits, Records
  <1>2. /\ At("amount", e) = 11 + w /\ At("script", e) = 12 + w
        /\ e.payout => At("proof", e) = 12 + w + l
        /\ ~e.payout => At("proof", e) = 12
    BY AtIs
  <1> HIDE DEF w, l
  <1>3. CASE e.kind = "mint"
    <2>1. f \in {"d", "pk_d", "r_seed"}
      BY <1>3 DEF FieldOf, MintFields
    <2>2. Len(ToBytes(e)) = 7
      BY <1>3, MintBytes
    <2>3. /\ At("d", e) = 4 /\ At("pk_d", e) = 5 /\ At("r_seed", e) = 6
          /\ At("last", e) = Len(ToBytes(e))
      BY AtIs
    <2>4. FieldOf("pk_d", e) /\ FieldOf("r_seed", e)
      BY <1>3 DEF FieldOf, MintFields
    <2>5. CASE f = "d"
      BY <2>3, <2>4, <2>5, NextIs
    <2>6. CASE f = "pk_d"
      BY <2>3, <2>4, <2>6, NextIs
    <2>7. CASE f = "r_seed"
      BY <1>3, <2>2, <2>3, <2>7, NextIs
    <2> QED
      BY <2>1, <2>5, <2>6, <2>7
  <1>4. CASE e.kind = "transfer"
    <2>1. f \in FirstFields \cup {"proof"} \/ (f \in PayoutFields /\ e.payout)
      BY <1>4, TransferFieldOf, Zenon
    <2>2. CASE f \in FirstFields
      <3>1. f \in {"h_anchor", "nf", "pk_eph", "ct", "ct_out"}
        BY <2>2 DEF FirstFields, Fixed
      <3>2. /\ FieldOf("in_count", e) /\ FieldOf("pk_eph", e) /\ FieldOf("ct", e)
            /\ FieldOf("ct_out", e) /\ FieldOf("plen", e)
        BY <1>4 DEF FieldOf, FirstFields
      <3>3. /\ At("h_anchor", e) = 4 /\ At("in_count", e) = 5 /\ At("nf", e) = 7
            /\ At("pk_eph", e) = 8 /\ At("ct", e) = 9 /\ At("ct_out", e) = 10
            /\ At("plen", e) = 11
        BY AtIs
      <3>4. /\ f = "h_anchor" => NextField(f) = "in_count"
            /\ f = "nf" => NextField(f) = "pk_eph"
            /\ f = "pk_eph" => NextField(f) = "ct"
            /\ f = "ct" => NextField(f) = "ct_out"
            /\ f = "ct_out" => NextField(f) = "plen"
        BY NextIs
      <3> QED
        BY <3>1, <3>2, <3>3, <3>4
    <2>3. CASE f = "proof"
      <3>1. NextField(f) = "last"
        BY <2>3, NextIs
      <3>2. At("last", e) = Len(ToBytes(e))
        BY AtIs
      <3> DEFINE n == Len(ToBytes(e))
      <3>3. (e.payout => n = 13 + w + l) /\ (~e.payout => n = 13)
        BY <1>4, TransferBytes DEF w, l
      <3> HIDE DEF n
      <3>4. n = At("proof", e) + 1
        BY <1>1, <1>2, <3>3
      <3> QED
        BY <1>4, <2>3, <3>1, <3>2, <3>4 DEF n
    <2>4. CASE f \in PayoutFields /\ e.payout
      <3>1. f = "amount" /\ NextField(f) = "script"
        BY <2>4, NextIs DEF PayoutFields, Fixed
      <3>2. At("script", e) = At("amount", e) + 1
        BY <1>1, <1>2
      <3>3. FieldOf("script", e)
        BY <1>4, <2>4 DEF FieldOf, PayoutFields
      <3> QED
        BY <3>1, <3>2, <3>3
    <2> QED
      BY <2>1, <2>2, <2>3, <2>4
  <1> QED
    BY <1>3, <1>4, Zenon DEF FieldOf

-----------------------------------------------------------------------------
(* What has been read is what it was read from.                            *)

Matches(b, v) == b = v \/ b \in DOMAIN PointOf \ Points
Consumed(p, e) == \A k \in 1..p : Matches(bytes[k], ToBytes(e)[k])

Reading == reading \notin {"header", "end"}

Progress ==
  /\ pos = At(reading, env) /\ Consumed(pos, env)
  /\ IF reading = "last" THEN env.kind \in {"mint", "transfer"} ELSE FieldOf(reading, env)
  /\ reading \in FirstFields => ~env.payout

ParseOK ==
  /\ bytes \in Seq(Wire) /\ pos \in 0..Len(bytes) /\ Fits(env)
  /\ reading # "end" => why = "parsing"
  /\ reading = "header" => pos = 0 /\ env = NoEnvelope
  /\ Reading => Progress
  /\ OneEncoding

(* An error is neither of the two verdicts on all bytes.                    *)
LEMMA ErrorsKeep ==
  ASSUME ParseOK, NEW w, ReturnWith(w), w \notin {"ok", "NonCanonical"}
  PROVE  ParseOK'
  BY DEF ParseOK, ReturnWith, Reading, OneEncoding

LEMMA DecodedMatches ==
  ASSUME NEW f, NEW b \in Wire, Decodes(f, b)
  PROVE  Decode(f, b) \in Wire /\ Matches(b, Decode(f, b))
  <1>1. CASE f \in {"pk_eph", "pk_d"}
    <2>1. f \notin {"nf", "ct", "r_seed"}
      BY <1>1
    <2>2. b \in DOMAIN PointOf /\ Decode(f, b) = PointOf[b]
      BY <1>1, <2>1 DEF Decodes, Decode
    <2>3. b \in {0, 1, 2} /\ PointOf[b] = IF b = 1 THEN 0 ELSE b
      BY <2>2 DEF PointOf
    <2>4. 0 \in Wire
      BY HeaderIsBytes
    <2> QED
      BY <2>2, <2>3, <2>4 DEF Matches, Points
  <1>2. CASE f \notin {"pk_eph", "pk_d"}
    BY <1>2 DEF Decode, Matches
  <1> QED
    BY <1>1, <1>2

LEMMA FieldKeeps ==
  ASSUME ParseOK, ReadFixed
  PROVE  ParseOK'
  <1> DEFINE f == reading
             b == bytes[pos + 1]
             v == Decode(reading, bytes[pos + 1])
  <1>1. CASE Truncated(1)
    <2>1. ReturnWith("Truncated")
      BY <1>1 DEF ReadFixed
    <2> QED
      BY <2>1, ErrorsKeep
  <1>2. CASE ~Truncated(1) /\ ~Decodes(reading, b)
    <2>1. ReturnWith(reading) /\ reading \in Fixed
      BY <1>2 DEF ReadFixed
    <2>2. reading \notin {"ok", "NonCanonical"}
      BY <2>1 DEF Fixed
    <2> QED
      BY <2>1, <2>2, ErrorsKeep
  <1>3. CASE ~Truncated(1) /\ Decodes(reading, b)
    <2>1. /\ reading \in Fixed /\ env' = [env EXCEPT ![reading] = v] /\ pos' = pos + 1
          /\ reading' = NextField(reading) /\ bytes' = bytes /\ why' = why /\ written' = written
      BY <1>3 DEF ReadFixed
    <2>2. Fits(env) /\ Reading /\ Progress /\ FieldOf(reading, env) /\ pos \in Nat
          /\ bytes \in Seq(Wire) /\ why = "parsing"
      BY <2>1 DEF ParseOK, Progress, Reading, Fixed
    <2>3. pos + 1 \in 1..Len(bytes) /\ b \in Wire
      BY <1>3, <2>2 DEF Truncated
    <2>4. v \in Wire /\ Matches(b, v)
      BY <1>3, <2>3, DecodedMatches DEF Wire
    <2>5. Fits(env') /\ Differ(env, env', reading) /\ env'[reading] = v
      BY <2>1, <2>2, <2>4, SetField
    <2>6. /\ env'.payout = env.payout /\ FieldOf(reading, env') /\ At(reading, env') = pos
          /\ \A k \in 1..pos : ToBytes(env')[k] = ToBytes(env)[k]
      <3>1. /\ env'.payout = env.payout /\ FieldOf(reading, env')
            /\ At(reading, env') = At(reading, env)
            /\ \A k \in 1..At(reading, env) : ToBytes(env')[k] = ToBytes(env)[k]
        <4>1. reading \in Fixed /\ Fits(env) /\ FieldOf(reading, env)
          BY <2>1, <2>2
        <4>2. SameUpTo(env, env', reading)
          BY <2>5, <4>1, SameBefore
        <4>3. env'.payout = env.payout
          BY <2>5 DEF Differ
        <4> QED
          BY <4>2, <4>3, Zenon DEF SameUpTo
      <3>2. pos = At(reading, env)
        BY <2>2 DEF Progress
      <3> QED
        BY <3>1, <3>2, Zenon
    <2>7. ToBytes(env')[pos + 1] = v
      BY <2>1, <2>5, <2>6, FieldAt, ZenonT(60)
    <2>8. \A k \in 1..(pos + 1) : Matches(bytes[k], ToBytes(env')[k])
      <3> SUFFICES ASSUME NEW k \in 1..(pos + 1) PROVE Matches(bytes[k], ToBytes(env')[k])
        OBVIOUS
      <3>1. CASE k = pos + 1
        BY <2>4, <2>7, <3>1
      <3>2. CASE k # pos + 1
        <4>1. k \in 1..pos
          BY <2>2, <3>2
        <4>2. Matches(bytes[k], ToBytes(env)[k])
          BY <2>2, <4>1 DEF Progress, Consumed
        <4> QED
          BY <2>6, <4>1, <4>2
      <3> QED
        BY <3>1, <3>2
    <2>9. /\ At(NextField(reading), env') = pos + 1
          /\ IF NextField(reading) = "last" THEN env'.kind \in {"mint", "transfer"}
             ELSE FieldOf(NextField(reading), env')
      BY <2>1, <2>5, <2>6, NextAt
    <2>10. reading' # "header" /\ reading' # "end"
           /\ (reading' \in FirstFields => reading \in FirstFields)
      <3>1. /\ reading' \in {"in_count", "pk_eph", "ct", "ct_out", "plen", "script", "last",
                            "pk_d", "r_seed"}
            /\ reading' \in FirstFields => reading \in FirstFields
        BY <2>1, NextIs DEF Fixed, FirstFields
      <3> QED
        BY <3>1
    <2>11. Progress'
      BY <2>1, <2>2, <2>6, <2>8, <2>9, <2>10 DEF Progress, Consumed
    <2> QED
      BY <2>1, <2>2, <2>3, <2>5, <2>10, <2>11 DEF ParseOK, Reading, OneEncoding
  <1> QED
    BY <1>1, <1>2, <1>3

LEMMA Zeroed ==
  ASSUME NEW n \in Nat
  PROVE  Zeros(n) \in Seq(Wire) /\ Len(Zeros(n)) = n
  BY HeaderIsBytes DEF Zeros

LEMMA EmptyFits == Fits(NoEnvelope) /\ ~NoEnvelope.payout
  <1>1. NoEnvelope \in Records
    BY HeaderIsBytes DEF NoEnvelope, Records
  <1>2. Len(NoEnvelope.script) = 0 /\ ~NoEnvelope.payout
    BY DEF NoEnvelope
  <1> QED
    BY <1>1, <1>2, MaxSizeIs, WireIs DEF Fits, AmountLen

LEMMA HeaderKeeps ==
  ASSUME ParseOK, ReadHeader
  PROVE  ParseOK'
  <1> DEFINE kind == IF bytes[3] = KindMint THEN "mint" ELSE "transfer"
  <1>1. CASE \E w \in {"none", "UnknownVersion", "ReservedByteSet", "UnknownKind"} : ReturnWith(w)
    BY <1>1, ErrorsKeep
  <1>2. CASE ~\E w \in {"none", "UnknownVersion", "ReservedByteSet", "UnknownKind"} : ReturnWith(w)
    <2>1. /\ reading = "header" /\ Len(bytes) >= 4
          /\ bytes[1] = Magic /\ bytes[2] = Version /\ bytes[4] = 0
          /\ bytes[3] = KindTransfer \/ bytes[3] = KindMint
          /\ pos' = 4 /\ reading' = (IF bytes[3] = KindMint THEN "d" ELSE "h_anchor")
          /\ env' = [env EXCEPT !.kind = kind]
          /\ bytes' = bytes /\ why' = why /\ written' = written
      <3>1. Len(bytes) \in Nat
        BY DEF ParseOK
      <3> QED
        BY <1>2, <3>1 DEF ReadHeader, HeaderLen
    <2>2. env = NoEnvelope /\ bytes \in Seq(Wire) /\ why = "parsing"
      BY <2>1 DEF ParseOK
    <2>3. /\ Fits(env') /\ env'.kind = kind /\ env'.payout = NoEnvelope.payout
      <3>1. env' \in Records /\ env'.script = env.script
        BY <2>1, <2>2, EmptyFits DEF Fits, Records
      <3> QED
        BY <2>1, <2>2, <3>1, EmptyFits DEF Fits, Records
    <2>4. ~env'.payout
      BY <2>3, EmptyFits
    <2>5. /\ ToBytes(env')[1] = bytes[1] /\ ToBytes(env')[2] = bytes[2]
          /\ ToBytes(env')[3] = bytes[3] /\ ToBytes(env')[4] = bytes[4]
      <3>1. CASE bytes[3] = KindMint
        BY <2>1, <2>3, <3>1, MintBytes
      <3>2. CASE bytes[3] # KindMint
        BY <2>1, <2>3, <3>2, TransferBytes
      <3> QED
        BY <3>1, <3>2
    <2>6. \A k \in 1..4 : Matches(bytes[k], ToBytes(env')[k])
      <3>1. 1..4 = {1, 2, 3, 4}
        OBVIOUS
      <3> QED
        BY <2>5, <3>1 DEF Matches
    <2>7. /\ FieldOf(reading', env') /\ At(reading', env') = 4
          /\ reading' \in {"d", "h_anchor"}
      <3>1. At("d", env') = 4 /\ At("h_anchor", env') = 4
        BY AtIs
      <3> QED
        BY <2>1, <2>3, <3>1 DEF FieldOf, FirstFields, MintFields
    <2>8. Progress'
      BY <2>1, <2>4, <2>6, <2>7 DEF Progress, Consumed
    <2> QED
      BY <2>1, <2>2, <2>3, <2>7, <2>8 DEF ParseOK, Reading, OneEncoding
  <1> QED
    BY <1>1, <1>2

(* A size that was read and not refused.                                   *)
LEMMA SizeStep ==
  ASSUME ParseOK, Reading, Size.error = "ok"
  PROVE  /\ Size.n \in 0..MaxSize /\ Size.took = Len(CompactSize(Size.n))
         /\ Size.took \in 1..5 /\ pos + Size.took \in 0..Len(bytes)
         /\ \A i \in 1..Size.took : bytes[pos + i] = CompactSize(Size.n)[i]
  <1>1. Size.n \in 0..MaxSize /\ SizeIs(Size.n) /\ Size.took = Len(CompactSize(Size.n))
    BY SizeReads DEF ParseOK
  <1> DEFINE n == Size.n  t == Size.took  c == CompactSize(n)
  <1>2. Len(c) \in 1..5
    BY <1>1, SizesAreBytes
  <1>3. pos + Len(c) <= Len(bytes) /\ \A i \in 1..Len(c) : bytes[pos + i] = c[i]
    BY <1>1 DEF SizeIs
  <1>4. pos \in Nat /\ Len(bytes) \in Nat /\ t = Len(c)
    BY <1>1 DEF ParseOK
  <1> HIDE DEF n, t, c
  <1>5. t \in 1..5 /\ pos + t <= Len(bytes) /\ \A i \in 1..t : bytes[pos + i] = c[i]
    BY <1>2, <1>3, <1>4, Zenon
  <1>6. pos + t \in 0..Len(bytes)
    <2> SUFFICES ASSUME NEW took, took = t, NEW end, end = Len(bytes),
                        took \in 1..5, pos \in Nat, end \in Nat, pos + took <= end
                 PROVE  pos + took \in 0..end
      BY <1>4, <1>5, Zenon
    <2> QED
      OBVIOUS
  <1> QED
    BY <1>1, <1>5, <1>6 DEF n, t, c

LEMMA SizeErrors ==
  ASSUME Size.error # "ok"
  PROVE  Size.error \notin {"ok", "NonCanonical"}
  BY DEF Size

LEMMA CountKeeps ==
  ASSUME ParseOK, ReadCount
  PROVE  ParseOK'
  <1> DEFINE N == IF reading = "in_count" THEN NInputs ELSE NOutputs
  <1>1. CASE Size.error # "ok"
    <2>1. ReturnWith(Size.error)
      BY <1>1 DEF ReadCount
    <2> QED
      BY <1>1, <2>1, SizeErrors, ErrorsKeep
  <1>2. CASE Size.error = "ok" /\ Size.n # N
    <2>1. ReturnWith(reading) /\ reading \in {"in_count", "out_count"}
      BY <1>2 DEF ReadCount
    <2>2. reading \notin {"ok", "NonCanonical"}
      BY <2>1
    <2> QED
      BY <2>1, <2>2, ErrorsKeep
  <1>3. CASE Size.error = "ok" /\ Size.n = N
    <2>1. /\ reading \in {"in_count", "out_count"}
          /\ pos' = pos + Size.took /\ reading' = NextField(reading)
          /\ env' = env /\ bytes' = bytes /\ why' = why /\ written' = written
      BY <1>3 DEF ReadCount
    <2>2. /\ Reading /\ Progress /\ Fits(env) /\ bytes \in Seq(Wire) /\ why = "parsing"
          /\ pos \in Nat /\ Len(bytes) \in Nat
      BY <2>1 DEF ParseOK, Reading
    <2>3. reading \in FirstFields /\ reading \notin PayoutFields \cup MintFields \cup {"proof", "last"}
      BY <2>1 DEF FirstFields, PayoutFields, MintFields
    <2>4. env.kind = "transfer" /\ ~env.payout /\ Consumed(pos, env) /\ pos = At(reading, env)
      BY <2>2, <2>3 DEF Progress, FieldOf
    <2>5. Size.took = 1 /\ bytes[pos + 1] = N /\ pos + 1 \in 0..Len(bytes)
      <3>1. N \in 0..(ByteValues - 4)
        BY HeaderIsBytes
      <3>2. CompactSize(N) = <<N>>
        BY <3>1, OneByte
      <3>3. /\ Size.took = Len(CompactSize(N)) /\ pos + Size.took \in 0..Len(bytes)
            /\ \A i \in 1..Size.took : bytes[pos + i] = CompactSize(N)[i]
        BY <1>3, <2>2, SizeStep
      <3> HIDE DEF N
      <3>4. Size.took = 1
        BY <3>2, <3>3
      <3> QED
        BY <3>2, <3>3, <3>4
    <2>6. ToBytes(env)[6] = NInputs /\ ToBytes(env)[7] = NOutputs
      BY <2>2, <2>4, TransferBytes
    <2>7. /\ reading' \in FirstFields /\ pos + 1 = At(reading', env)
          /\ ToBytes(env)[pos + 1] = N
      <3>1. At("in_count", env) = 5 /\ At("out_count", env) = 6 /\ At("nf", env) = 7
        BY AtIs
      <3>2. CASE reading = "in_count"
        <4>1. reading' = "out_count" /\ pos = 5
          BY <2>1, <2>4, <3>1, <3>2, NextIs
        <4> QED
          BY <2>6, <3>1, <3>2, <4>1 DEF FirstFields
      <3>3. CASE reading = "out_count"
        <4>1. reading' = "nf" /\ pos = 6
          BY <2>1, <2>4, <3>1, <3>3, NextIs
        <4> QED
          BY <2>6, <3>1, <3>3, <4>1 DEF FirstFields
      <3> QED
        BY <2>1, <3>2, <3>3
    <2>8. \A k \in 1..(pos + 1) : Matches(bytes[k], ToBytes(env)[k])
      <3> SUFFICES ASSUME NEW k \in 1..(pos + 1) PROVE Matches(bytes[k], ToBytes(env)[k])
        OBVIOUS
      <3>1. CASE k = pos + 1
        BY <2>5, <2>7, <3>1 DEF Matches
      <3>2. CASE k # pos + 1
        <4>1. k \in 1..pos
          BY <2>2, <3>2
        <4> QED
          BY <2>4, <4>1 DEF Consumed
      <3> QED
        BY <3>1, <3>2
    <2>9. /\ reading' # "last" /\ reading' # "header" /\ reading' # "end"
          /\ FieldOf(reading', env)
      BY <2>4, <2>7 DEF FieldOf, FirstFields
    <2>10. Progress'
      BY <2>1, <2>4, <2>5, <2>7, <2>8, <2>9 DEF Progress, Consumed
    <2> QED
      BY <2>1, <2>2, <2>5, <2>9, <2>10 DEF ParseOK, Reading, OneEncoding
  <1> QED
    BY <1>1, <1>2, <1>3

LEMMA PlenKeeps ==
  ASSUME ParseOK, ReadPlen
  PROVE  ParseOK'
  <1> DEFINE n == Size.n  t == Size.took
  <1>1. CASE Size.error # "ok"
    <2>1. ReturnWith(Size.error)
      BY <1>1 DEF ReadPlen
    <2> QED
      BY <1>1, <2>1, SizeErrors, ErrorsKeep
  <1>2. CASE Size.error = "ok" /\ n # 0 /\ n <= AmountLen
    <2>1. ReturnWith("PayoutTooShort")
      BY <1>2 DEF ReadPlen
    <2> QED
      BY <2>1, ErrorsKeep
  <1>3. CASE Size.error = "ok" /\ ~(n # 0 /\ n <= AmountLen)
    <2>1. /\ reading = "plen" /\ pos' = pos + t
          /\ reading' = (IF n = 0 THEN "proof" ELSE "amount")
          /\ env' = (IF n = 0 THEN env
                    ELSE [env EXCEPT !.payout = TRUE, !.script = Zeros(n - AmountLen)])
          /\ bytes' = bytes /\ why' = why /\ written' = written
      BY <1>3 DEF ReadPlen
    <2>2. /\ Reading /\ Progress /\ Fits(env) /\ bytes \in Seq(Wire) /\ why = "parsing"
          /\ pos \in Nat /\ Len(bytes) \in Nat
      BY <2>1 DEF ParseOK, Reading
    <2>3. /\ env.kind = "transfer" /\ ~env.payout /\ Consumed(pos, env) /\ pos = 11
      <3>1. At("plen", env) = 11
        BY AtIs
      <3> QED
        BY <2>1, <2>2, <3>1 DEF Progress, FieldOf, FirstFields, PayoutFields, MintFields
    <2>4. /\ n \in 0..MaxSize /\ t = Len(CompactSize(n)) /\ t \in 1..5
          /\ pos + t \in 0..Len(bytes)
          /\ \A i \in 1..t : bytes[pos + i] = CompactSize(n)[i]
      BY <1>3, <2>2, SizeStep
    <2>5. CASE n = 0
      <3>1. CompactSize(0) = <<0>> /\ Mark(env) = <<0>>
        <4>1. 0 \in Nat /\ 0 < ByteValues - 3
          BY WireIs, EnvelopeConstants
        <4>2. CompactSize(0) = <<0>>
          BY <4>1 DEF CompactSize
        <4>3. ~env.payout
          BY <2>3
        <4>4. Mark(env) = <<0>>
          BY <4>3, Zenon DEF Mark
        <4> QED
          BY <4>2, <4>4, Zenon
      <3>2. t = 1 /\ bytes[12] = 0 /\ 12 \in 0..Len(bytes)
        <4> DEFINE c == <<0>>
        <4>1. CompactSize(n) = c
          BY <2>5, <3>1
        <4>2. t = Len(c) /\ \A i \in 1..t : bytes[pos + i] = c[i]
          BY <2>4, <4>1
        <4> HIDE DEF n, t
        <4>3. t = 1 /\ c[1] = 0
          BY <4>2
        <4> QED
          BY <2>3, <2>4, <4>2, <4>3
      <3>3. ToBytes(env)[12] = 0
        <4>1. \A i \in 1..Len(Mark(env)) : ToBytes(env)[11 + i] = Mark(env)[i]
          BY <2>2, <2>3, TransferBytes
        <4>2. Len(<<0>>) = 1 /\ <<0>>[1] = 0 /\ 11 + 1 = 12
          OBVIOUS
        <4> QED
          BY <3>1, <4>1, <4>2
      <3>4. At("proof", env) = 12 /\ FieldOf("proof", env)
        BY <2>3, AtIs DEF FieldOf
      <3>5. \A k \in 1..12 : Matches(bytes[k], ToBytes(env)[k])
        <4> SUFFICES ASSUME NEW k \in 1..12 PROVE Matches(bytes[k], ToBytes(env)[k])
          OBVIOUS
        <4>1. k \in 1..11 \/ k = 12
          OBVIOUS
        <4> QED
          BY <2>3, <3>2, <3>3, <4>1 DEF Consumed, Matches
      <3>6. Progress'
        <4>1. pos' = 12 /\ reading' = "proof" /\ env' = env
          BY <2>1, <2>3, <2>5, <3>2
        <4> QED
          BY <2>1, <3>4, <3>5, <4>1 DEF Progress, Consumed, FirstFields
      <3> QED
        BY <2>1, <2>2, <2>3, <2>5, <3>2, <3>6 DEF ParseOK, Reading, OneEncoding
    <2>6. CASE n # 0
      <3> DEFINE s == Zeros(n - AmountLen)
      <3>1. n - AmountLen \in Nat \ {0} /\ AmountLen + (n - AmountLen) = n
            /\ n - AmountLen <= MaxSize - AmountLen
        BY <1>3, <2>4, <2>6, MaxSizeIs DEF AmountLen
      <3>2. s \in Seq(Wire) /\ Len(s) = n - AmountLen
        BY <3>1, Zeroed
      <3>3. env' = [env EXCEPT !.payout = TRUE, !.script = s]
        BY <2>1, <2>6
      <3> HIDE DEF s
      <3>4. /\ env' \in Records /\ env'.script = s /\ env'.payout /\ env'.kind = "transfer"
            /\ HeadsAgree(env, env')
        BY <2>2, <2>3, <3>2, <3>3 DEF Fits, Records, HeadsAgree
      <3>5. Fits(env')
        BY <3>1, <3>2, <3>4 DEF Fits
      <3>6. Mark(env') = CompactSize(n)
        BY <3>1, <3>2, <3>4 DEF Mark
      <3>7. \A k \in 1..11 : ToBytes(env')[k] = ToBytes(env)[k]
        <4>1. 11 \in 4..11 /\ AgreeBefore(env, env', 11)
          BY <3>4 DEF HeadsAgree, AgreeBefore
        <4> QED
          BY <2>2, <2>3, <3>4, <3>5, <4>1, SameHead, Zenon
      <3>8. \A i \in 1..Len(Mark(env')) : ToBytes(env')[11 + i] = Mark(env')[i]
        BY <3>4, <3>5, TransferBytes, ZenonT(60)
      <3> DEFINE c == CompactSize(n)
      <3>9. \A i \in 1..t : ToBytes(env')[11 + i] = c[i]
        BY <2>4, <3>6, <3>8, Zenon
      <3>10. \A i \in 1..t : bytes[11 + i] = c[i]
        BY <2>3, <2>4
      <3>11. t \in 1..5
        BY <2>4
      <3> HIDE DEF t, c
      <3>12. \A k \in 1..(11 + t) : Matches(bytes[k], ToBytes(env')[k])
        <4> SUFFICES ASSUME NEW k \in 1..(11 + t) PROVE Matches(bytes[k], ToBytes(env')[k])
          OBVIOUS
        <4>1. CASE k <= 11
          <5>1. k \in 1..11 /\ Matches(bytes[k], ToBytes(env)[k])
            BY <2>3, <4>1 DEF Consumed
          <5> QED
            BY <3>7, <5>1
        <4>2. CASE k > 11
          <5>1. k - 11 \in 1..t /\ 11 + (k - 11) = k
            BY <3>11, <4>2
          <5> QED
            BY <3>9, <3>10, <5>1 DEF Matches
        <4> QED
          BY <3>11, <4>1, <4>2
      <3>13. At("amount", env') = 11 + t /\ FieldOf("amount", env')
        <4>1. At("amount", env') = 11 + Len(Mark(env'))
          BY AtIs
        <4>2. Len(Mark(env')) = t
          BY <2>4, <3>6 DEF t
        <4> QED
          BY <3>4, <4>1, <4>2 DEF FieldOf, PayoutFields
      <3>14. pos' = 11 + t /\ reading' = "amount"
        BY <2>1, <2>3, <2>6
      <3>15. Progress'
        BY <2>1, <3>12, <3>13, <3>14 DEF Progress, Consumed, FirstFields
      <3>16. pos' \in 0..Len(bytes)
        BY <2>1, <2>4
      <3> QED
        BY <2>1, <2>2, <3>5, <3>14, <3>15, <3>16 DEF ParseOK, Reading, OneEncoding
    <2> QED
      BY <2>5, <2>6
  <1> QED
    BY <1>1, <1>2, <1>3

LEMMA ScriptKeeps ==
  ASSUME ParseOK, ReadScript
  PROVE  ParseOK'
  <1> DEFINE l == Len(env.script)
             s == SubSeq(bytes, pos + 1, pos + Len(env.script))
             w == Len(Mark(env))
  <1>1. CASE Truncated(l)
    <2>1. ReturnWith("Truncated")
      BY <1>1 DEF ReadScript
    <2> QED
      BY <2>1, ErrorsKeep
  <1>2. CASE ~Truncated(l)
    <2>1. /\ reading = "script" /\ env' = [env EXCEPT !.script = s]
          /\ pos' = pos + l /\ reading' = NextField(reading)
          /\ bytes' = bytes /\ why' = why /\ written' = written
      BY <1>2 DEF ReadScript
    <2>2. /\ Reading /\ Progress /\ Fits(env) /\ bytes \in Seq(Wire) /\ why = "parsing"
          /\ pos \in Nat /\ Len(bytes) \in Nat
      BY <2>1 DEF ParseOK, Reading
    <2>3. /\ env.kind = "transfer" /\ env.payout /\ Consumed(pos, env) /\ pos = 12 + w
      <3>1. At("script", env) = 12 + w
        BY AtIs
      <3>2. FieldOf("script", env)
        BY <2>1, <2>2 DEF Progress
      <3>3. env.kind = "transfer" /\ env.payout
        BY <3>2 DEF FieldOf, FirstFields, PayoutFields, MintFields
      <3> QED
        BY <2>1, <2>2, <3>1, <3>3 DEF Progress
    <2>4. l \in Nat /\ w \in 1..5 /\ pos + l <= Len(bytes) /\ l <= MaxSize - AmountLen
      BY <1>2, <2>2, MarkIsBytes DEF Truncated, Fits, Records
    <2> HIDE DEF w
    <2>5. s \in Seq(Wire) /\ Len(s) = l /\ \A i \in 1..l : s[i] = bytes[pos + i]
      <3> HIDE DEF l
      <3>1. SubSeq(bytes, pos + 1, pos + l) \in Seq(Wire) /\ Len(SubSeq(bytes, pos + 1, pos + l)) = l
            /\ \A i \in 1..l : SubSeq(bytes, pos + 1, pos + l)[i] = bytes[pos + i]
        BY <2>2, <2>4
      <3> QED
        BY <3>1 DEF l
    <2> HIDE DEF s
    <2>6. /\ env' \in Records /\ env'.script = s /\ env'.payout /\ env'.kind = "transfer"
          /\ HeadsAgree(env, env') /\ env'.amount = env.amount
      BY <2>1, <2>2, <2>3, <2>5 DEF Fits, Records, HeadsAgree
    <2>7. Fits(env') /\ Len(env'.script) = l
      BY <2>4, <2>5, <2>6 DEF Fits
    <2>8. \A k \in 1..(12 + w) : ToBytes(env')[k] = ToBytes(env)[k]
      BY <2>2, <2>3, <2>6, <2>7, SamePayout DEF w
    <2>9. Mark(env') = Mark(env)
      BY <2>3, <2>6, <2>7 DEF Mark
    <2>10. \A i \in 1..l : ToBytes(env')[12 + w + i] = s[i]
      <3>1. \A i \in 1..Len(env'.script) :
              ToBytes(env')[12 + Len(Mark(env')) + i] = env'.script[i]
        BY <2>6, <2>7, TransferBytes, ZenonT(60)
      <3> QED
        BY <2>6, <2>7, <2>9, <3>1, Zenon DEF w
    <2>11. reading' = "proof" /\ At("proof", env') = 12 + w + l /\ FieldOf("proof", env')
      <3>1. At("proof", env') = 12 + Len(Mark(env')) + Len(env'.script)
        BY <2>6, AtIs
      <3>2. At("proof", env') = 12 + w + l
        BY <2>7, <2>9, <3>1, Zenon DEF w
      <3> QED
        BY <2>1, <2>6, <3>2, NextIs DEF FieldOf
    <2> HIDE DEF l
    <2>12. \A k \in 1..(12 + w + l) : Matches(bytes[k], ToBytes(env')[k])
      <3> SUFFICES ASSUME NEW k \in 1..(12 + w + l) PROVE Matches(bytes[k], ToBytes(env')[k])
        OBVIOUS
      <3>1. CASE k <= 12 + w
        <4>1. k \in 1..(12 + w) /\ Matches(bytes[k], ToBytes(env)[k])
          BY <2>3, <2>4, <3>1 DEF Consumed
        <4> QED
          BY <2>8, <4>1
      <3>2. CASE k > 12 + w
        <4>1. k - (12 + w) \in 1..l /\ 12 + w + (k - (12 + w)) = k
          BY <2>4, <3>2
        <4> QED
          BY <2>3, <2>5, <2>10, <4>1 DEF Matches
      <3> QED
        BY <2>4, <3>1, <3>2
    <2>13. pos' = 12 + w + l /\ pos' \in 0..Len(bytes)
      BY <2>1, <2>2, <2>3, <2>4
    <2>14. Progress'
      BY <2>1, <2>11, <2>12, <2>13 DEF Progress, Consumed, FirstFields
    <2> QED
      BY <2>1, <2>2, <2>7, <2>11, <2>13, <2>14 DEF ParseOK, Reading, OneEncoding
  <1> QED
    BY <1>1, <1>2

LEMMA FinishKeeps ==
  ASSUME ParseOK, Finish
  PROVE  ParseOK'
  <1>1. /\ reading = "last" /\ why' = Verdict /\ reading' = "end"
        /\ bytes' = bytes /\ pos' = pos /\ env' = env /\ written' = written
    BY DEF Finish, ReturnWith
  <1>2. Progress /\ bytes \in Seq(Wire) /\ Fits(env)
    BY <1>1 DEF ParseOK, Reading
  <1>3. pos = Len(ToBytes(env)) /\ Consumed(pos, env)
    <2>1. At("last", env) = Len(ToBytes(env))
      BY AtIs
    <2> QED
      BY <1>1, <1>2, <2>1 DEF Progress
  <1>4. OneEncoding'
    <2>1. /\ why' = "ok" => ToBytes(env) = bytes
          /\ why' = "NonCanonical" => pos = Len(bytes)
      BY <1>1 DEF Verdict
    <2>2. DOMAIN bytes = 1..Len(bytes)
      BY <1>2
    <2>3. why' = "NonCanonical" =>
            /\ Len(ToBytes(env)) = Len(bytes)
            /\ \A k \in DOMAIN bytes :
                 bytes[k] # ToBytes(env)[k] => bytes[k] \in DOMAIN PointOf \ Points
      BY <1>3, <2>1, <2>2 DEF Consumed, Matches
    <2> QED
      BY <1>1, <2>1, <2>3 DEF OneEncoding
  <1> QED
    BY <1>1, <1>2, <1>4 DEF ParseOK, Reading

-----------------------------------------------------------------------------
(* What parse is given are bytes.                                          *)

LEMMA WrittenShape ==
  ASSUME NEW e \in Written
  PROVE  /\ Fits(e) /\ e.kind \in {"transfer", "mint"}
         /\ e.kind = "transfer" =>
              /\ e.h_anchor \in Values /\ e.nf \in Elements /\ e.pk_eph \in Points
              /\ e.ct \in Elements /\ e.ct_out \in Values /\ e.payout \in BOOLEAN
              /\ e.amount \in Values /\ e.proof \in Values
              /\ e.d = 0 /\ e.pk_d = 0 /\ e.r_seed = 0
              /\ e.payout => Len(e.script) > 0
              /\ ~e.payout => e.amount = 0 /\ e.script = <<>>
         /\ e.kind = "mint" =>
              /\ e.d \in Wire /\ e.pk_d \in Points /\ e.r_seed \in Elements
              /\ e = Mint(e.d, e.pk_d, e.r_seed)
  <1>1. Values \subseteq Wire /\ Elements \subseteq Wire /\ Points \subseteq Wire
    BY EnvelopeConstants DEF Wire, Elements, Points
  <1>2. CASE e \in Transfers
    <2>1. /\ e \in [kind : {"transfer"}, h_anchor : Values, nf : Elements, pk_eph : Points,
                    ct : Elements, ct_out : Values, payout : BOOLEAN, amount : Values,
                    script : Scripts \cup {<<>>}, proof : Values, d : {0}, pk_d : {0},
                    r_seed : {0}]
          /\ IF e.payout THEN e.script # <<>> ELSE e.amount = 0 /\ e.script = <<>>
      BY <1>2 DEF Transfers
    <2>2. ASSUME NEW s \in Scripts PROVE s \in Seq(Wire) /\ Len(s) <= MaxSize - AmountLen
      <3>1. PICK n \in ScriptLens : s \in [1..n -> Values]
        BY DEF Scripts
      <3>2. n \in Nat /\ n <= MaxSize - AmountLen
        BY EnvelopeConstants, MaxSizeIs DEF AmountLen
      <3>3. s \in [1..n -> Wire]
        BY <1>1, <3>1
      <3>4. s \in Seq(Wire) /\ Len(s) = n
        BY <3>2, <3>3
      <3> QED
        BY <3>2, <3>4
    <2>3. <<>> \in Seq(Wire) /\ Len(<<>>) = 0 /\ 0 <= MaxSize - AmountLen
      BY MaxSizeIs, WireIs DEF AmountLen
    <2>4. e.script \in Seq(Wire) /\ Len(e.script) <= MaxSize - AmountLen
      BY <2>1, <2>2, <2>3
    <2>5. e.script # <<>> => Len(e.script) > 0
      BY <2>4, HasFirst
    <2>6. e \in Records
      BY <1>1, <2>1, <2>4, HeaderIsBytes DEF Records
    <2> QED
      BY <2>1, <2>4, <2>5, <2>6 DEF Fits
  <1>3. CASE e \in Mints
    <2>1. PICK d \in Values \cup {ByteValues - 1}, p \in Points, r \in Elements : e = Mint(d, p, r)
      BY <1>3 DEF Mints
    <2>2. d \in Wire /\ p \in Wire /\ r \in Wire
      BY <1>1, WireIs DEF Wire
    <2>3. /\ e.kind = "mint" /\ e.d = d /\ e.pk_d = p /\ e.r_seed = r /\ e.script = <<>>
          /\ e \in Records
      <3>1. NoEnvelope \in Records /\ NoEnvelope.script = <<>>
        BY EmptyFits DEF Fits, NoEnvelope
      <3> QED
        BY <2>1, <2>2, <3>1 DEF Mint, Records
    <2>4. Len(<<>>) = 0 /\ 0 <= MaxSize - AmountLen
      BY MaxSizeIs, WireIs DEF AmountLen
    <2> QED
      BY <2>1, <2>2, <2>3, <2>4 DEF Fits
  <1> QED
    BY <1>2, <1>3 DEF Written

LEMMA SizeBytesAreBytes ==
  ASSUME NEW n \in 0..MaxSize, NEW as \in {"least", "wide", "widest"}
  PROVE  SizeBytes(n, as) \in Seq(Wire)
  <1>1. n \in Nat
    BY MaxSizeIs
  <1>2. ASSUME NEW i \in 1..4 PROVE (n \div Place[i]) % ByteValues \in Wire
    <2>1. Place[i] \in Nat /\ Place[i] > 0
      <3>1. /\ Place[1] \in Nat /\ Place[1] > 0 /\ Place[2] \in Nat /\ Place[2] > 0
            /\ Place[3] \in Nat /\ Place[3] > 0
        BY PlaceIs, ThirdPlace, WireIs
      <3>2. Place[4] \in Nat /\ Place[4] > 0
        <4>1. Place[4] = ByteValues * Place[3]
          <5>1. ByteValues \in Nat
            BY WireIs
          <5> QED
            BY <5>1, PlaceIs
        <4> QED
          BY <4>1, <3>1, ThirdPlace, WireIs
      <3>3. i \in {1, 2, 3, 4}
        OBVIOUS
      <3> QED
        BY <3>1, <3>2, <3>3
    <2>2. n \div Place[i] \in Int
      BY <1>1, <2>1
    <2> QED
      BY <2>2, WireIs DEF Wire
  <1>3. /\ Le(n, 2) \in Seq(Wire) /\ Le(n, 4) \in Seq(Wire)
    BY <1>2 DEF Le
  <1>4. <<ByteValues - 3>> \in Seq(Wire) /\ <<ByteValues - 2>> \in Seq(Wire)
    BY WireIs DEF Wire
  <1>5. Wide(n) \in Seq(Wire) /\ Widest(n) \in Seq(Wire)
    BY <1>3, <1>4 DEF Wide, Widest
  <1>6. CompactSize(n) \in Seq(Wire)
    BY SizesAreBytes
  <1> QED
    BY <1>5, <1>6 DEF SizeBytes

LEMMA BytesAreBytes ==
  ASSUME NEW e \in Written, NEW as \in {"least", "wide", "widest"}
  PROVE  BytesOf(e, as) \in Seq(Wire)
  <1>0. Fits(e) /\ e.kind \in {"transfer", "mint"}
    BY WrittenShape
  <1>1. /\ e.h_anchor \in Wire /\ e.nf \in Wire /\ e.pk_eph \in Wire /\ e.ct \in Wire
        /\ e.ct_out \in Wire /\ e.amount \in Wire /\ e.script \in Seq(Wire) /\ e.proof \in Wire
        /\ e.d \in Wire /\ e.pk_d \in Wire /\ e.r_seed \in Wire
    BY <1>0 DEF Fits, Records
  <1>2. CASE e.kind = "mint"
    BY <1>1, <1>2, HeaderIsBytes DEF BytesOf
  <1>3. CASE e.kind # "mint"
    <2> DEFINE front == <<Magic, Version, KindTransfer, 0, e.h_anchor>>
               i == SizeBytes(NInputs, as)
               o == SizeBytes(NOutputs, as)
               f == <<e.nf, e.pk_eph, e.ct, e.ct_out>>
               m == SizeBytes(AmountLen + Len(e.script), as)
               a == <<e.amount>>
               total == <<e.proof>>
               p == IF e.payout THEN m \o a \o e.script ELSE <<0>>
    <2>1. front \in Seq(Wire) /\ f \in Seq(Wire) /\ a \in Seq(Wire) /\ total \in Seq(Wire)
      BY <1>1, HeaderIsBytes
    <2>2. i \in Seq(Wire) /\ o \in Seq(Wire)
      <3>1. NInputs \in 0..MaxSize /\ NOutputs \in 0..MaxSize
        BY HeaderIsBytes, MaxSizeIs, WireIs
      <3> QED
        BY <3>1, SizeBytesAreBytes
    <2>3. m \in Seq(Wire)
      <3>1. AmountLen + Len(e.script) \in 0..MaxSize
        BY <1>0, <1>1, MaxSizeIs DEF Fits, AmountLen
      <3> QED
        BY <3>1, SizeBytesAreBytes
    <2>4. BytesOf(e, as) = front \o i \o o \o f \o p \o total
      BY <1>3 DEF BytesOf
    <2> HIDE DEF front, i, o, f, m, a, total
    <2>5. p \in Seq(Wire)
      <3>1. m \o a \in Seq(Wire)
        BY <2>1, <2>3
      <3>2. m \o a \o e.script \in Seq(Wire)
        BY <1>1, <3>1
      <3>3. <<0>> \in Seq(Wire)
        BY HeaderIsBytes
      <3> QED
        BY <3>2, <3>3
    <2> HIDE DEF p
    <2>6. front \o i \o o \in Seq(Wire)
      BY <2>1, <2>2
    <2>7. front \o i \o o \o f \o p \in Seq(Wire)
      BY <2>1, <2>5, <2>6
    <2> QED
      BY <2>1, <2>4, <2>7
  <1> QED
    BY <1>2, <1>3

LEMMA NearAreBytes ==
  ASSUME NEW b \in Seq(Wire)
  PROVE  Near(b) \subseteq Seq(Wire)
  <1>1. ASSUME NEW k \in DOMAIN b, NEW c \in Wire PROVE [b EXCEPT ![k] = c] \in Seq(Wire)
    OBVIOUS
  <1>2. ASSUME NEW i \in Nat, NEW j \in 0..Len(b), i >= 1 PROVE SubSeq(b, i, j) \in Seq(Wire)
    BY <1>2
  <1>3. ASSUME NEW k \in 0..Len(b) PROVE SubSeq(b, 1, k) \in Seq(Wire)
    BY <1>2
  <1>4. ASSUME NEW k \in DOMAIN b
        PROVE  /\ SubSeq(b, 1, k - 1) \in Seq(Wire) /\ SubSeq(b, k + 1, Len(b)) \in Seq(Wire)
               /\ SubSeq(b, 1, k) \in Seq(Wire)
    <2>1. k \in 1..Len(b) /\ Len(b) \in Nat
      OBVIOUS
    <2>2. k - 1 \in 0..Len(b) /\ k \in 0..Len(b) /\ k + 1 \in Nat /\ k + 1 >= 1
          /\ Len(b) \in 0..Len(b)
      BY <2>1
    <2> QED
      BY <1>2, <1>3, <2>2
  <1>5. ASSUME NEW s \in Seq(Wire), NEW t \in Seq(Wire), NEW c \in Wire
        PROVE  s \o t \in Seq(Wire) /\ s \o <<c>> \o t \in Seq(Wire)
    <2>1. <<c>> \in Seq(Wire)
      OBVIOUS
    <2>2. s \o <<c>> \in Seq(Wire)
      BY <2>1
    <2> QED
      BY <2>2
  <1> SUFFICES ASSUME NEW v \in Near(b) PROVE v \in Seq(Wire)
    OBVIOUS
  <1>6. ASSUME NEW k \in DOMAIN b, NEW c \in Wire
        PROVE  /\ Changed(b, k, c) \in Seq(Wire) /\ With(b, k, c) \in Seq(Wire)
               /\ Without(b, k) \in Seq(Wire)
    BY <1>1, <1>4, <1>5 DEF Changed, With, Without
  <1>7. \/ \E k \in DOMAIN b, c \in Wire : v = Changed(b, k, c) \/ v = With(b, k, c)
        \/ \E k \in DOMAIN b : v = Without(b, k)
        \/ \E k \in 0..Len(b) : v = SubSeq(b, 1, k)
    BY DEF Near, Wire
  <1> QED
    BY <1>3, <1>6, <1>7, HeaderIsBytes

(* Any bytes at all, before the first is read.                              *)
AnyBytes ==
  /\ bytes \in Seq(Wire)
  /\ pos = 0 /\ reading = "header" /\ env = NoEnvelope /\ why = "parsing"

LEMMA InitBytes ==
  ASSUME EnvelopeInit
  PROVE  AnyBytes
  <1>1. bytes \in Seq(Wire)
    <2>1. CASE written \in Written /\ bytes = ToBytes(written)
      BY <2>1, BytesAreBytes DEF ToBytes
    <2>2. CASE \E e \in Written : bytes \in {BytesOf(e, "wide"), BytesOf(e, "widest")}
                                           \cup Near(ToBytes(e))
      <3>1. PICK e \in Written : bytes \in {BytesOf(e, "wide"), BytesOf(e, "widest")}
                                           \cup Near(ToBytes(e))
        BY <2>2
      <3>2. Near(ToBytes(e)) \subseteq Seq(Wire)
        BY BytesAreBytes, NearAreBytes DEF ToBytes
      <3> QED
        BY <3>1, <3>2, BytesAreBytes
    <2> QED
      BY <2>1, <2>2 DEF EnvelopeInit
  <1> QED
    BY <1>1 DEF EnvelopeInit, AnyBytes

LEMMA InitParse ==
  ASSUME AnyBytes
  PROVE  ParseOK
  <1>1. 0 \in 0..Len(bytes)
    BY DEF AnyBytes
  <1> QED
    BY <1>1, EmptyFits DEF AnyBytes, ParseOK, Reading, OneEncoding

LEMMA StepParse ==
  ASSUME ParseOK, [EnvelopeNext]_parse
  PROVE  ParseOK'
  <1>1. CASE UNCHANGED parse
    BY <1>1 DEF parse, ParseOK, Reading, Progress, Consumed, OneEncoding
  <1>2. CASE EnvelopeNext
    BY <1>2, HeaderKeeps, FieldKeeps, CountKeeps, PlenKeeps, ScriptKeeps, FinishKeeps
       DEF EnvelopeNext
  <1> QED
    BY <1>1, <1>2

(* An envelope has one encoding (parse is strict and canonical): whatever    *)
(* bytes a carrier has, those parse accepts are those to_bytes writes for    *)
(* what it read, and what only the comparison with them refuses differs from *)
(* them in a point.                                                         *)
THEOREM BytesHaveOneEncoding == AnyBytes /\ [][EnvelopeNext]_parse => []OneEncoding
  <1>1. ParseOK => OneEncoding
    BY DEF ParseOK
  <1> QED
    BY <1>1, InitParse, StepParse, PTL

(* The same of the inputs of the run.                                      *)
THEOREM EnvelopesHaveOneEncoding == EnvelopeSpec => []OneEncoding
  <1>1. EnvelopeInit => AnyBytes
    BY InitBytes
  <1> QED
    BY <1>1, BytesHaveOneEncoding, PTL DEF EnvelopeSpec

-----------------------------------------------------------------------------
(* What was written is read.                                               *)

(* Of the fields that have a value before they are read, those still to come. *)
Unread(f) ==
  CASE f = "h_anchor" -> {"h_anchor", "nf", "pk_eph", "ct", "ct_out", "amount", "proof"}
    [] f \in {"in_count", "out_count", "nf"} ->
         {"nf", "pk_eph", "ct", "ct_out", "amount", "proof"}
    [] f = "pk_eph" -> {"pk_eph", "ct", "ct_out", "amount", "proof"}
    [] f = "ct" -> {"ct", "ct_out", "amount", "proof"}
    [] f = "ct_out" -> {"ct_out", "amount", "proof"}
    [] f \in {"plen", "amount"} -> {"amount", "proof"}
    [] f \in {"script", "proof"} -> {"proof"}
    [] f = "d" -> {"d", "pk_d", "r_seed"}
    [] f = "pk_d" -> {"pk_d", "r_seed"}
    [] f = "r_seed" -> {"r_seed"}
    [] OTHER -> {}

(* The envelope so far is what was written, up to the next field.           *)
Mirrors ==
  /\ env.kind = written.kind
  /\ \A g \in Fixed : env[g] = IF g \in Unread(reading) THEN 0 ELSE written[g]
  /\ reading \in FirstFields => env.script = <<>>
  /\ reading \in PayoutFields =>
       env.payout /\ written.payout /\ Len(env.script) = Len(written.script)
  /\ reading \in MintFields \cup {"proof", "last"} =>
       env.payout = written.payout /\ env.script = written.script

WrittenRead ==
  written # NoEnvelope =>
    /\ written \in Written /\ bytes = ToBytes(written)
    /\ Reading => Mirrors
    /\ reading = "end" => why = "ok" /\ env = written

LEMMA UnreadIs ==
  /\ \A f \in Fixed : Unread(NextField(f)) = Unread(f) \ {f} /\ f \in Unread(f)
  /\ Unread("out_count") = Unread("in_count") /\ Unread("nf") = Unread("out_count")
  /\ Unread("plen") = {"amount", "proof"} /\ Unread("amount") = Unread("plen")
  /\ Unread("proof") = {"proof"} /\ Unread("script") = {"proof"} /\ Unread("last") = {}
  <1>1. ASSUME NEW f \in Fixed PROVE Unread(NextField(f)) = Unread(f) \ {f} /\ f \in Unread(f)
    <2>1. CASE f \in {"h_anchor", "nf", "pk_eph", "ct", "ct_out"}
      BY <2>1, NextIs DEF Unread
    <2>2. CASE f \in {"amount", "proof", "d", "pk_d", "r_seed"}
      BY <2>2, NextIs DEF Unread
    <2> QED
      BY <2>1, <2>2 DEF Fixed
  <1> QED
    BY <1>1 DEF Unread

LEMMA SameOffsets ==
  ASSUME ParseOK, WrittenRead, Reading, reading # "last", written # NoEnvelope
  PROVE  /\ FieldOf(reading, written) /\ pos = At(reading, written)
         /\ FieldOf(reading, env) /\ Mirrors
  <1>1. /\ Mirrors /\ FieldOf(reading, env) /\ pos = At(reading, env)
    BY DEF ParseOK, WrittenRead, Progress
  <1>2. env.kind = written.kind
    BY <1>1 DEF Mirrors
  <1>3. CASE reading \in FirstFields
    <2>1. At(reading, written) = At(reading, env)
      <3>1. reading \in {"h_anchor", "in_count", "out_count", "nf", "pk_eph", "ct", "ct_out", "plen"}
        BY <1>3 DEF FirstFields
      <3> QED
        BY <3>1 DEF At
    <2>2. env.kind = "transfer"
      BY <1>1, <1>3 DEF FieldOf, FirstFields, MintFields
    <2> QED
      BY <1>1, <1>2, <1>3, <2>1, <2>2 DEF FieldOf
  <1>4. CASE reading \in MintFields
    <2>1. At(reading, written) = At(reading, env)
      <3>1. reading \in {"d", "pk_d", "r_seed"}
        BY <1>4 DEF MintFields
      <3> QED
        BY <3>1 DEF At
    <2>2. env.kind = "mint"
      BY <1>1, <1>4 DEF FieldOf, FirstFields, PayoutFields, MintFields
    <2> QED
      BY <1>1, <1>2, <1>4, <2>1, <2>2 DEF FieldOf
  <1>5. CASE reading \in PayoutFields
    <2>1. env.payout /\ written.payout /\ Len(env.script) = Len(written.script)
      BY <1>1, <1>5 DEF Mirrors
    <2>2. Mark(env) = Mark(written)
      BY <2>1 DEF Mark
    <2>3. At(reading, written) = At(reading, env)
      <3>1. reading \in {"amount", "script"}
        BY <1>5 DEF PayoutFields
      <3> QED
        BY <2>2, <3>1 DEF At
    <2>4. env.kind = "transfer"
      BY <1>1, <1>5 DEF FieldOf, FirstFields, PayoutFields, MintFields
    <2> QED
      BY <1>1, <1>2, <1>5, <2>1, <2>3, <2>4 DEF FieldOf
  <1>6. CASE reading = "proof"
    <2>1. env.payout = written.payout /\ env.script = written.script
      BY <1>1, <1>6 DEF Mirrors
    <2>2. Mark(env) = Mark(written)
      BY <2>1 DEF Mark
    <2>3. At(reading, written) = At(reading, env)
      BY <1>6, <2>1, <2>2 DEF At
    <2>4. env.kind = "transfer"
      BY <1>1, <1>6 DEF FieldOf, FirstFields, PayoutFields, MintFields
    <2> QED
      BY <1>1, <1>2, <1>6, <2>3, <2>4 DEF FieldOf
  <1> QED
    BY <1>1, <1>3, <1>4, <1>5, <1>6 DEF FieldOf

LEMMA Encoded ==
  ASSUME NEW e \in Written, NEW f \in Fixed, FieldOf(f, e)
  PROVE  Decodes(f, e[f]) /\ Decode(f, e[f]) = e[f]
  <1>1. /\ e.kind = "transfer" => e.nf \in Elements /\ e.ct \in Elements /\ e.pk_eph \in Points
        /\ e.kind = "mint" => e.r_seed \in Elements /\ e.pk_d \in Points
    BY WrittenShape
  <1>2. /\ f \in {"nf", "ct", "pk_eph"} => e.kind = "transfer"
        /\ f \in {"r_seed", "pk_d"} => e.kind = "mint"
    BY DEF FieldOf, FirstFields, PayoutFields, MintFields
  <1>3. CASE f \in {"nf", "ct", "r_seed"}
    <2>1. e[f] \in Elements
      BY <1>1, <1>2, <1>3
    <2> QED
      BY <1>3, <2>1 DEF Elements, Decodes, Decode
  <1>4. CASE f \in {"pk_eph", "pk_d"}
    <2>1. e[f] \in {0, 2}
      BY <1>1, <1>2, <1>4 DEF Points
    <2>2. e[f] \in DOMAIN PointOf /\ PointOf[e[f]] = e[f]
      BY <2>1 DEF PointOf
    <2>3. f \notin {"nf", "ct", "r_seed"}
      BY <1>4
    <2> QED
      BY <1>4, <2>2, <2>3 DEF Decodes, Decode
  <1>5. CASE f \notin {"nf", "ct", "r_seed", "pk_eph", "pk_d"}
    BY <1>5 DEF Decodes, Decode
  <1> QED
    BY <1>3, <1>4, <1>5

LEMMA HeaderMirrors ==
  ASSUME ParseOK, WrittenRead, ReadHeader
  PROVE  WrittenRead'
  <1> SUFFICES ASSUME written # NoEnvelope PROVE WrittenRead'
    BY DEF ReadHeader, ReturnWith, WrittenRead
  <1> DEFINE w == written
             kind == IF bytes[3] = KindMint THEN "mint" ELSE "transfer"
  <1>1. /\ w \in Written /\ bytes = ToBytes(w) /\ reading = "header" /\ env = NoEnvelope
        /\ Len(bytes) \in Nat
    BY DEF ReadHeader, WrittenRead, ParseOK
  <1>2. Fits(w) /\ w.kind \in {"transfer", "mint"}
    BY <1>1, WrittenShape
  <1>3. /\ Len(bytes) >= 4 /\ bytes[1] = Magic /\ bytes[2] = Version /\ bytes[4] = 0
        /\ bytes[3] \in {KindTransfer, KindMint} /\ kind = w.kind
    <2>1. CASE w.kind = "mint"
      BY <1>1, <1>2, <2>1, MintBytes
    <2>2. CASE w.kind = "transfer"
      <3>1. w.payout => Len(bytes) = 13 + Len(Mark(w)) + Len(w.script)
        BY <1>1, <1>2, <2>2, TransferBytes
      <3>2. ~w.payout => Len(bytes) = 13
        BY <1>1, <1>2, <2>2, TransferBytes
      <3>3. Len(Mark(w)) \in Nat /\ Len(w.script) \in Nat
        BY <1>2, MarkIsBytes DEF Fits, Records
      <3>4. Len(bytes) >= 4
        <4> DEFINE span == Len(Mark(w))  chars == Len(w.script)  total == Len(bytes)
        <4>1. (w.payout => total = 13 + span + chars) /\ (~w.payout => total = 13) /\ span \in Nat /\ chars \in Nat
          BY <3>1, <3>2, <3>3
        <4> HIDE DEF span, chars, total
        <4>2. total >= 4
          BY <4>1
        <4> QED
          BY <4>2 DEF total
      <3>5. /\ bytes[1] = Magic /\ bytes[2] = Version /\ bytes[4] = 0
            /\ bytes[3] = KindTransfer
        BY <1>1, <1>2, <2>2, TransferBytes
      <3> QED
        BY <2>2, <3>4, <3>5, HeaderIsBytes
    <2> QED
      BY <1>2, <2>1, <2>2
  <1>4. /\ reading' = (IF bytes[3] = KindMint THEN "d" ELSE "h_anchor")
        /\ env' = [env EXCEPT !.kind = kind] /\ bytes' = bytes /\ written' = written
    BY <1>1, <1>3 DEF ReadHeader, HeaderLen
  <1>5. /\ w.kind = "mint" => reading' = "d"
        /\ w.kind = "transfer" => reading' = "h_anchor"
    BY <1>3, <1>4
  <1>6. /\ env'.kind = w.kind /\ env'.payout = FALSE /\ env'.script = <<>>
        /\ \A g \in Fixed : env'[g] = 0
    BY <1>1, <1>3, <1>4 DEF NoEnvelope, Fixed
  <1>7. Mirrors'
    <2>1. CASE w.kind = "mint"
      <3>1. w = Mint(w.d, w.pk_d, w.r_seed)
        BY <1>1, <2>1, WrittenShape
      <3>2. /\ w.payout = FALSE /\ w.script = <<>>
            /\ \A g \in Fixed \ {"d", "pk_d", "r_seed"} : w[g] = 0
        <4>1. /\ w.payout = FALSE /\ w.script = <<>>
              /\ w.h_anchor = 0 /\ w.nf = 0 /\ w.pk_eph = 0 /\ w.ct = 0 /\ w.ct_out = 0
              /\ w.amount = 0 /\ w.proof = 0
          <5>1. ASSUME NEW d, NEW p, NEW r
                PROVE  /\ Mint(d, p, r).payout = FALSE /\ Mint(d, p, r).script = <<>>
                       /\ Mint(d, p, r).h_anchor = 0 /\ Mint(d, p, r).nf = 0
                       /\ Mint(d, p, r).pk_eph = 0 /\ Mint(d, p, r).ct = 0
                       /\ Mint(d, p, r).ct_out = 0 /\ Mint(d, p, r).amount = 0
                       /\ Mint(d, p, r).proof = 0
            BY DEF Mint, NoEnvelope
          <5>2. \E d, p, r : w = Mint(d, p, r)
            BY <3>1, Zenon
          <5>3. PICK d, p, r : w = Mint(d, p, r)
            BY <5>2, Zenon
          <5> HIDE DEF w
          <5> QED
            BY <5>1, <5>3, ZenonT(60)
        <4>2. \A g \in Fixed \ {"d", "pk_d", "r_seed"} :
                g \in {"h_anchor", "nf", "pk_eph", "ct", "ct_out", "amount", "proof"}
          BY DEF Fixed
        <4> QED
          BY <4>1, <4>2
      <3>3. reading' = "d" /\ Unread("d") = {"d", "pk_d", "r_seed"}
        BY <1>5, <2>1 DEF Unread
      <3>4. \A g \in Fixed : env'[g] = IF g \in Unread(reading') THEN 0 ELSE written[g]
        BY <1>6, <3>2, <3>3
      <3> QED
        BY <1>4, <1>6, <3>2, <3>3, <3>4 DEF Mirrors, FirstFields, PayoutFields
    <2>2. CASE w.kind = "transfer"
      <3>1. w.d = 0 /\ w.pk_d = 0 /\ w.r_seed = 0
        BY <1>1, <2>2, WrittenShape
      <3>2. /\ reading' = "h_anchor"
            /\ Unread("h_anchor") = {"h_anchor", "nf", "pk_eph", "ct", "ct_out", "amount", "proof"}
        BY <1>5, <2>2 DEF Unread
      <3>3. \A g \in Fixed : g \in Unread("h_anchor") \/ w[g] = 0
        BY <3>1, <3>2 DEF Fixed
      <3>4. \A g \in Fixed : env'[g] = IF g \in Unread(reading') THEN 0 ELSE written[g]
        BY <1>6, <3>2, <3>3
      <3> QED
        BY <1>4, <1>6, <3>2, <3>4 DEF Mirrors, PayoutFields, MintFields
    <2> QED
      BY <1>2, <2>1, <2>2
  <1>8. reading' # "end"
    BY <1>4
  <1> QED
    BY <1>1, <1>4, <1>7, <1>8 DEF WrittenRead

LEMMA FieldMirrors ==
  ASSUME ParseOK, WrittenRead, ReadFixed
  PROVE  WrittenRead'
  <1> SUFFICES ASSUME written # NoEnvelope PROVE WrittenRead'
    BY DEF ReadFixed, ReturnWith, WrittenRead
  <1> DEFINE f == reading
             w == written
  <1>1. /\ f \in Fixed /\ Reading /\ f # "last"
        /\ w \in Written /\ bytes = ToBytes(w) /\ bytes \in Seq(Wire) /\ Fits(env)
    BY DEF ReadFixed, Reading, Fixed, WrittenRead, ParseOK
  <1>2. FieldOf(f, w) /\ pos = At(f, w) /\ FieldOf(f, env) /\ Mirrors
    BY <1>1, SameOffsets
  <1>3. Fits(w)
    BY <1>1, WrittenShape
  <1>4. bytes[pos + 1] = w[f]
    BY <1>1, <1>2, <1>3, FieldAt
  <1>5. ~Truncated(1)
    <2>1. At(f, w) \in Nat /\ At(f, w) + 1 <= Len(ToBytes(w))
      BY <1>1, <1>2, <1>3, Offsets
    <2>2. Len(bytes) \in Nat
      BY <1>1
    <2> QED
      BY <1>1, <1>2, <2>1, <2>2 DEF Truncated
  <1>6. Decodes(f, w[f]) /\ Decode(f, w[f]) = w[f]
    BY <1>1, <1>2, Encoded
  <1>7. /\ env' = [env EXCEPT ![f] = w[f]] /\ reading' = NextField(f)
        /\ bytes' = bytes /\ written' = written
    BY <1>4, <1>5, <1>6 DEF ReadFixed
  <1>8. /\ env'.kind = env.kind /\ env'.payout = env.payout /\ env'.script = env.script
        /\ env'[f] = w[f] /\ \A g \in Fixed \ {f} : env'[g] = env[g]
    BY <1>1, <1>7 DEF Fits, Records, Fixed
  <1>9. \A g \in Fixed : env'[g] = IF g \in Unread(reading') THEN 0 ELSE w[g]
    <2>1. Unread(reading') = Unread(f) \ {f} /\ f \in Unread(f)
      BY <1>1, <1>7, UnreadIs
    <2>2. \A g \in Fixed : env[g] = IF g \in Unread(f) THEN 0 ELSE w[g]
      BY <1>2 DEF Mirrors
    <2> QED
      BY <1>8, <2>1, <2>2
  <1>10. /\ reading' \in {"in_count", "pk_eph", "ct", "ct_out", "plen", "script", "last",
                          "pk_d", "r_seed"}
         /\ reading' \in FirstFields => f \in FirstFields
         /\ reading' \in PayoutFields => f \in PayoutFields
         /\ reading' \in MintFields \cup {"proof", "last"} => f \in MintFields \cup {"proof"}
    BY <1>1, <1>7, NextIs DEF Fixed, FirstFields, PayoutFields, MintFields
  <1>11. Mirrors'
    BY <1>2, <1>7, <1>8, <1>9, <1>10 DEF Mirrors
  <1>12. reading' # "end"
    BY <1>10
  <1> QED
    BY <1>1, <1>7, <1>11, <1>12 DEF WrittenRead

LEMMA CountMirrors ==
  ASSUME ParseOK, WrittenRead, ReadCount
  PROVE  WrittenRead'
  <1> SUFFICES ASSUME written # NoEnvelope PROVE WrittenRead'
    BY DEF ReadCount, ReturnWith, WrittenRead
  <1> DEFINE w == written
             N == IF reading = "in_count" THEN NInputs ELSE NOutputs
  <1>1. /\ reading \in {"in_count", "out_count"} /\ Reading /\ reading # "last"
        /\ w \in Written /\ bytes = ToBytes(w) /\ bytes \in Seq(Wire)
    BY DEF ReadCount, Reading, WrittenRead, ParseOK
  <1>2. FieldOf(reading, w) /\ pos = At(reading, w) /\ Mirrors
    BY <1>1, SameOffsets
  <1>3. Fits(w) /\ w.kind = "transfer"
    BY <1>1, <1>2, WrittenShape DEF FieldOf, MintFields
  <1>4. /\ bytes[6] = NInputs /\ bytes[7] = NOutputs /\ pos + 1 <= Len(bytes) /\ bytes[pos + 1] = N
        /\ pos \in Nat
    <2>1. bytes[6] = NInputs /\ bytes[7] = NOutputs
      BY <1>1, <1>3, TransferBytes
    <2>2. /\ reading = "in_count" => pos = 5
          /\ reading = "out_count" => pos = 6
      BY <1>2, AtIs
    <2>3. Len(bytes) >= 13
      <3>1. FieldOf("proof", w) /\ "proof" \in Fixed
        BY <1>3 DEF FieldOf, Fixed
      <3>2. At("proof", w) + 1 <= Len(bytes)
        BY <1>1, <1>3, <3>1, Offsets
      <3>3. At("proof", w) \in Nat /\ At("proof", w) >= 12
        <4> DEFINE span == Len(Mark(w))  chars == Len(w.script)
        <4>1. span \in Nat /\ chars \in Nat
          BY <1>3, MarkIsBytes DEF Fits, Records
        <4>2. At("proof", w) = IF w.payout THEN 12 + span + chars ELSE 12
          BY AtIs
        <4> HIDE DEF span, chars
        <4> QED
          BY <4>1, <4>2
      <3>4. Len(bytes) \in Nat
        BY <1>1
      <3> QED
        BY <3>2, <3>3, <3>4
    <2>4. Len(bytes) \in Nat
      BY <1>1
    <2> QED
      BY <1>1, <2>1, <2>2, <2>3, <2>4
  <1>5. Size.error = "ok" /\ Size.n = N
    <2>1. N \in 0..(ByteValues - 4) /\ N \in 0..MaxSize
      BY HeaderIsBytes, MaxSizeIs, WireIs
    <2>2. CompactSize(N) = <<N>>
      BY <2>1, OneByte
    <2>3. SizeIs(N)
      <3> HIDE DEF N
      <3>1. Len(<<N>>) = 1 /\ <<N>>[1] = N
        OBVIOUS
      <3> QED
        BY <1>4, <2>2, <3>1 DEF SizeIs
    <2> QED
      BY <1>1, <1>4, <2>1, <2>3, SizeIsRead
  <1>6. reading' = NextField(reading) /\ env' = env /\ bytes' = bytes /\ written' = written
    BY <1>1, <1>5 DEF ReadCount
  <1>7. /\ reading' \in {"out_count", "nf"} /\ Unread(reading') = Unread(reading)
    BY <1>1, <1>6, NextIs, UnreadIs
  <1>8. Mirrors'
    <2>1. reading \in FirstFields /\ reading' \in FirstFields
          /\ reading' \notin PayoutFields \cup MintFields \cup {"proof", "last"}
      BY <1>1, <1>7 DEF FirstFields, PayoutFields, MintFields
    <2> QED
      BY <1>2, <1>6, <1>7, <2>1 DEF Mirrors
  <1> QED
    BY <1>1, <1>6, <1>7, <1>8 DEF WrittenRead

LEMMA PlenMirrors ==
  ASSUME ParseOK, WrittenRead, ReadPlen
  PROVE  WrittenRead'
  <1> SUFFICES ASSUME written # NoEnvelope PROVE WrittenRead'
    BY DEF ReadPlen, ReturnWith, WrittenRead
  <1> DEFINE w == written
             N == IF w.payout THEN AmountLen + Len(w.script) ELSE 0
  <1>1. /\ reading = "plen" /\ Reading /\ reading # "last" /\ reading \in FirstFields
        /\ w \in Written /\ bytes = ToBytes(w) /\ bytes \in Seq(Wire) /\ Fits(env)
    BY DEF ReadPlen, Reading, FirstFields, WrittenRead, ParseOK
  <1>2. FieldOf(reading, w) /\ pos = 11 /\ Mirrors
    <2>1. At("plen", w) = 11
      BY AtIs
    <2> QED
      BY <1>1, <2>1, SameOffsets
  <1>3. Fits(w) /\ w.kind = "transfer" /\ w.payout \in BOOLEAN /\ Len(w.script) \in Nat
        /\ (w.payout => Len(w.script) > 0) /\ (~w.payout => w.amount = 0 /\ w.script = <<>>)
    <2>1. w.kind = "transfer"
      BY <1>1, <1>2 DEF FieldOf, PayoutFields, MintFields, FirstFields
    <2> QED
      BY <1>1, <2>1, WrittenShape DEF Fits, Records
  <1>4. ~env.payout
    BY <1>1 DEF ParseOK, Progress
  <1>5. N \in 0..MaxSize /\ CompactSize(N) = Mark(w)
    <2>1. CASE w.payout
      BY <1>3, <2>1, MarkIsBytes DEF Mark
    <2>2. CASE ~w.payout
      <3>1. 0 \in Nat /\ 0 < ByteValues - 3 /\ 0 \in 0..MaxSize
        BY WireIs, MaxSizeIs
      <3>2. CompactSize(0) = <<0>>
        BY <3>1 DEF CompactSize
      <3> QED
        BY <2>2, <3>1, <3>2, Zenon DEF Mark
    <2> QED
      BY <2>1, <2>2
  <1>6. 11 + Len(Mark(w)) <= Len(bytes)
    <2> DEFINE span == Len(Mark(w))  chars == Len(w.script)  total == Len(bytes)
    <2>1. (w.payout => total = 13 + span + chars) /\ (~w.payout => total = 13)
      BY <1>1, <1>3, TransferBytes
    <2>2. span \in 1..5 /\ chars \in Nat /\ (~w.payout => span = 1)
      <3>1. ~w.payout => Mark(w) = <<0>>
        BY Zenon DEF Mark
      <3>2. Len(<<0>>) = 1
        OBVIOUS
      <3> QED
        BY <1>3, <3>1, <3>2, MarkIsBytes
    <2> HIDE DEF span, chars, total
    <2>3. 11 + span <= total
      BY <2>1, <2>2
    <2> QED
      BY <2>3 DEF span, total
  <1>7. \A i \in 1..Len(Mark(w)) : bytes[11 + i] = Mark(w)[i]
    BY <1>1, <1>3, TransferBytes
  <1>8. Size.error = "ok" /\ Size.n = N
    <2>1. SizeIs(N)
      BY <1>2, <1>5, <1>6, <1>7, Zenon DEF SizeIs
    <2>2. pos \in Nat
      BY <1>2
    <2> QED
      BY <1>1, <1>5, <2>1, <2>2, SizeIsRead
  <1>9. CASE ~w.payout
    <2>1. reading' = "proof" /\ env' = env /\ bytes' = bytes /\ written' = written
      BY <1>1, <1>8, <1>9 DEF ReadPlen
    <2>2. \A g \in Fixed : env[g] = IF g \in Unread("proof") THEN 0 ELSE w[g]
      <3>1. \A g \in Fixed : env[g] = IF g \in Unread("plen") THEN 0 ELSE w[g]
        BY <1>1, <1>2 DEF Mirrors
      <3>2. Unread("plen") = {"amount", "proof"} /\ Unread("proof") = {"proof"}
        BY UnreadIs
      <3> QED
        BY <1>3, <1>9, <3>1, <3>2
    <2>3. env.payout = w.payout /\ env.script = w.script /\ env.kind = w.kind
      <3>1. env.payout \in BOOLEAN
        BY <1>1 DEF Fits, Records
      <3> QED
        BY <1>1, <1>2, <1>3, <1>4, <1>9, <3>1 DEF Mirrors
    <2>4. Mirrors'
      BY <2>1, <2>2, <2>3 DEF Mirrors, FirstFields, PayoutFields
    <2> QED
      BY <1>1, <2>1, <2>4 DEF WrittenRead
  <1>10. CASE w.payout
    <2> DEFINE l == Len(w.script)
    <2>1. N # 0 /\ ~(N <= AmountLen) /\ N - AmountLen = l
      BY <1>3, <1>10 DEF AmountLen
    <2>2. /\ reading' = "amount" /\ bytes' = bytes /\ written' = written
          /\ env' = [env EXCEPT !.payout = TRUE, !.script = Zeros(N - AmountLen)]
      BY <1>1, <1>8, <2>1 DEF ReadPlen
    <2>3. Len(Zeros(N - AmountLen)) = l
      BY <1>3, <2>1, Zeroed
    <2> HIDE DEF N
    <2>4. /\ env'.payout = TRUE /\ env'.script = Zeros(N - AmountLen) /\ env'.kind = env.kind
          /\ \A g \in Fixed : env'[g] = env[g]
      BY <1>1, <2>2 DEF Fits, Records, Fixed
    <2>5. \A g \in Fixed : env'[g] = IF g \in Unread(reading') THEN 0 ELSE w[g]
      <3>1. \A g \in Fixed : env[g] = IF g \in Unread("plen") THEN 0 ELSE w[g]
        BY <1>1, <1>2 DEF Mirrors
      <3> QED
        BY <2>2, <2>4, <3>1, UnreadIs
    <2>6. Mirrors'
      BY <1>2, <1>10, <2>2, <2>3, <2>4, <2>5 DEF Mirrors, FirstFields, MintFields
    <2> QED
      BY <1>1, <2>2, <2>6 DEF WrittenRead
  <1> QED
    BY <1>3, <1>9, <1>10

LEMMA ScriptMirrors ==
  ASSUME ParseOK, WrittenRead, ReadScript
  PROVE  WrittenRead'
  <1> SUFFICES ASSUME written # NoEnvelope PROVE WrittenRead'
    BY DEF ReadScript, ReturnWith, WrittenRead
  <1> DEFINE w == written
             l == Len(env.script)
             m == Len(Mark(written))
             s == SubSeq(bytes, pos + 1, pos + Len(env.script))
  <1>1. /\ reading = "script" /\ Reading /\ reading # "last" /\ reading \in PayoutFields
        /\ w \in Written /\ bytes = ToBytes(w) /\ bytes \in Seq(Wire) /\ Fits(env)
    BY DEF ReadScript, Reading, PayoutFields, WrittenRead, ParseOK
  <1>2. FieldOf(reading, w) /\ pos = 12 + m /\ Mirrors
    <2>1. At("script", w) = 12 + m
      BY AtIs
    <2> QED
      BY <1>1, <2>1, SameOffsets
  <1>3. /\ Fits(w) /\ w.kind = "transfer" /\ w.payout /\ env.payout /\ l = Len(w.script)
        /\ w.script \in Seq(Wire)
    <2>1. w.kind = "transfer"
      BY <1>1, <1>2 DEF FieldOf, PayoutFields, MintFields, FirstFields
    <2>2. Fits(w) /\ w.script \in Seq(Wire)
      BY <1>1, WrittenShape DEF Fits, Records
    <2>3. env.payout /\ w.payout /\ Len(env.script) = Len(w.script)
      BY <1>1, <1>2, Zenon DEF Mirrors
    <2> QED
      BY <2>1, <2>2, <2>3, Zenon
  <1>4. /\ Len(bytes) = 13 + m + l /\ \A i \in 1..l : bytes[12 + m + i] = w.script[i]
    <2> DEFINE k == Len(w.script)
    <2>1. /\ Len(ToBytes(w)) = 13 + m + k
          /\ \A i \in 1..k : ToBytes(w)[12 + m + i] = w.script[i]
      BY <1>3, TransferBytes
    <2>2. l = k
      BY <1>3
    <2> HIDE DEF k, l
    <2> QED
      BY <1>1, <2>1, <2>2, Zenon
  <1>5. m \in 1..5 /\ l \in Nat
    BY <1>1, <1>3, MarkIsBytes DEF Fits, Records
  <1> HIDE DEF m
  <1>6. ~Truncated(l) /\ pos \in Nat /\ pos + l <= Len(bytes)
    <2> HIDE DEF l
    <2> QED
      BY <1>2, <1>4, <1>5 DEF Truncated
  <1>7. s = w.script
    <2>1. Len(s) = l /\ s \in Seq(Wire) /\ \A i \in 1..l : s[i] = bytes[pos + i]
      <3> HIDE DEF l
      <3>1. SubSeq(bytes, pos + 1, pos + l) \in Seq(Wire) /\ Len(SubSeq(bytes, pos + 1, pos + l)) = l
            /\ \A i \in 1..l : SubSeq(bytes, pos + 1, pos + l)[i] = bytes[pos + i]
        BY <1>1, <1>5, <1>6
      <3> QED
        BY <3>1 DEF l
    <2> HIDE DEF s
    <2>2. \A i \in 1..l : s[i] = w.script[i]
      BY <1>2, <1>4, <2>1, Zenon
    <2> QED
      BY <1>3, <2>1, <2>2, SameSequence
  <1>8. /\ env' = [env EXCEPT !.script = w.script] /\ reading' = NextField("script")
        /\ bytes' = bytes /\ written' = written
    BY <1>1, <1>6, <1>7 DEF ReadScript
  <1>9. /\ env'.kind = env.kind /\ env'.payout = env.payout /\ env'.script = w.script
        /\ \A g \in Fixed : env'[g] = env[g]
    BY <1>1, <1>8 DEF Fits, Records, Fixed
  <1>10. reading' = "proof" /\ Unread("proof") = Unread("script")
    BY <1>8, NextIs, UnreadIs
  <1>11. env'.payout = w.payout
    <2>1. env.payout \in BOOLEAN /\ w.payout \in BOOLEAN
      BY <1>1, <1>3 DEF Fits, Records
    <2> QED
      BY <1>3, <1>9, <2>1
  <1>12. Mirrors'
    BY <1>1, <1>2, <1>8, <1>9, <1>10, <1>11 DEF Mirrors, FirstFields, PayoutFields
  <1> QED
    BY <1>1, <1>8, <1>10, <1>12 DEF WrittenRead

LEMMA FinishMirrors ==
  ASSUME ParseOK, WrittenRead, Finish
  PROVE  WrittenRead'
  <1> SUFFICES ASSUME written # NoEnvelope PROVE WrittenRead'
    BY DEF Finish, ReturnWith, WrittenRead
  <1>1. /\ reading = "last" /\ Reading /\ written \in Written /\ bytes = ToBytes(written)
        /\ Mirrors /\ Fits(env) /\ pos = At("last", env)
    BY DEF Finish, Reading, WrittenRead, ParseOK, Progress
  <1>2. env = written
    <2>1. Fits(written)
      BY <1>1, WrittenShape
    <2>2. env \in Records /\ written \in Records
      BY <1>1, <2>1 DEF Fits
    <2>3. Unread("last") = {}
      BY UnreadIs
    <2>4. /\ env.kind = written.kind /\ env.payout = written.payout
          /\ env.script = written.script /\ \A g \in Fixed : env[g] = written[g]
      BY <1>1, <2>3 DEF Mirrors
    <2>5. /\ env.h_anchor = written.h_anchor /\ env.nf = written.nf /\ env.pk_eph = written.pk_eph
          /\ env.ct = written.ct /\ env.ct_out = written.ct_out /\ env.amount = written.amount
          /\ env.proof = written.proof /\ env.d = written.d /\ env.pk_d = written.pk_d
          /\ env.r_seed = written.r_seed
      BY <2>4 DEF Fixed
    <2> QED
      BY <2>2, <2>4, <2>5 DEF Records
  <1>3. pos = Len(bytes) /\ ToBytes(env) = bytes
    BY <1>1, <1>2, AtIs
  <1>4. Verdict = "ok"
    BY <1>3 DEF Verdict
  <1>5. why' = "ok" /\ reading' = "end" /\ env' = env /\ bytes' = bytes /\ written' = written
    BY <1>4 DEF Finish, ReturnWith
  <1> QED
    BY <1>1, <1>2, <1>5 DEF WrittenRead, Reading

LEMMA InitMirrors ==
  ASSUME EnvelopeInit
  PROVE  WrittenRead
  BY DEF EnvelopeInit, WrittenRead, Reading

LEMMA StepMirrors ==
  ASSUME ParseOK, WrittenRead, [EnvelopeNext]_parse
  PROVE  WrittenRead'
  <1>1. CASE UNCHANGED parse
    BY <1>1 DEF parse, WrittenRead, Reading, Mirrors
  <1>2. CASE EnvelopeNext
    BY <1>2, HeaderMirrors, FieldMirrors, CountMirrors, PlenMirrors, ScriptMirrors, FinishMirrors
       DEF EnvelopeNext
  <1> QED
    BY <1>1, <1>2

(* What a wallet writes is read back as it was, whatever the lengths of its  *)
(* script: no field is refused, none is cut short, and each is read where it *)
(* was put, at every width of the script's length.                          *)
THEOREM WrittenIsReadBack == EnvelopeSpec => []ReadsBack
  <1>1. WrittenRead => ReadsBack
    BY DEF WrittenRead, ReadsBack
  <1> QED
    BY <1>1, InitBytes, InitParse, StepParse, InitMirrors, StepMirrors, PTL DEF EnvelopeSpec
=============================================================================
