------------------------------ MODULE Carriers ------------------------------
(***************************************************************************)
(* What a carrier transaction says: mint and transfer envelopes, the leaves *)
(* and nullifiers they publish, and what a transfer's proof attests.        *)
(*                                                                          *)
(* Hashes are free constructors: a leaf is the record of what is hashed, a  *)
(* root is the sequence of leaves below it, a nullifier is the triple that  *)
(* determines it (rho of the note, through src and j, and pos).  The        *)
(* owner's key is left out: src belongs to one owner.                       *)
(***************************************************************************)
EXTENDS Integers, Sequences

CONSTANT Source     \* mint seeds and transfer bodies

Slots == 0..1     \* N_IN = N_OUT = 2

Leaf == [src : Source, j : Slots, v : Nat]
Input == [on : BOOLEAN, leaf : Leaf, pos : Nat]
Nullifier == Source \X Slots \X Nat

NoEnvelope == [kind : {"none", "malformed"}]
MintEnvelope == [kind : {"mint"}, seed : Source, value : Nat]
TransferEnvelope ==
  [kind : {"transfer"}, body : Source, anchor : Nat, root : Seq(Leaf),
   ins : [Slots -> Input], outs : [Slots -> Nat]]
Envelope == NoEnvelope \cup MintEnvelope \cup TransferEnvelope

-----------------------------------------------------------------------------
(* What a transfer envelope says, and what its proof attests.              *)

MintLeaf(m) == [src |-> m.seed, j |-> 0, v |-> m.value]
OutputLeaf(t, j) == [src |-> t.body, j |-> j, v |-> t.outs[j]]

Nf(t, i) == <<t.ins[i].leaf.src, t.ins[i].leaf.j, t.ins[i].pos>>
Nfs(t) == {Nf(t, i) : i \in Slots}

InValue(t, i) == IF t.ins[i].on THEN t.ins[i].leaf.v ELSE 0

Enters(tree, in) ==
  /\ in.pos < Len(tree)
  /\ tree[in.pos + 1] = in.leaf

(* Mistaken variants: membership not enforced; conservation not enforced.  *)
VerifyNoMembership(root, t) ==
  /\ t.root = root
  /\ InValue(t, 0) + InValue(t, 1) = t.outs[0] + t.outs[1]
VerifyNoBalance(root, t) ==
  /\ t.root = root
  /\ \A i \in Slots : t.ins[i].on => Enters(root, t.ins[i])

(* The relation of TransferCircuit.  The proof is made for one root, and   *)
(* an enabled input is a leaf of it; a dummy input has no value.           *)
Verify(root, t) ==
  /\ t.root = root
  /\ \A i \in Slots : t.ins[i].on => Enters(root, t.ins[i])
  /\ InValue(t, 0) + InValue(t, 1) = t.outs[0] + t.outs[1]

=============================================================================
