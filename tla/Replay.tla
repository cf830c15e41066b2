------------------------------- MODULE Replay -------------------------------
(***************************************************************************)
(* Deterministic replay of one block into the shielded state: State::fresh, *)
(* replay_tx, accept_transfer, accept_mint and the end of replay_block, as  *)
(* operators on State records.  No variables: Indexer gives every running   *)
(* command a state of its own, and Wallet reads the state it was given.     *)
(* A carrier's bytes are an envelope given by the constant Carrier.         *)
(***************************************************************************)
EXTENDS Carriers, FiniteSets, Functions

CONSTANTS
  Txid,           \* carrier transactions
  Carrier,        \* Txid -> Envelope, what op_return_payload and parse find
  BlockId,        \* tells apart blocks of equal transactions (the nonce)
  Activation,     \* first replayed height
  WindowW,        \* WINDOW_W
  KMin,           \* K_MIN
  RetainExtra,    \* the 10 of WINDOW_W + 10
  MaxRejections   \* MAX_REJECTIONS

ASSUME ReplayConstants ==
  /\ Carrier \in [Txid -> Envelope]
  /\ Activation \in Nat \ {0}
  /\ WindowW \in Nat /\ KMin \in Nat \ {0}
  /\ RetainExtra \in Nat /\ MaxRejections \in Nat

Mints == {t \in Txid : Carrier[t].kind = "mint"}
Transfers == {t \in Txid : Carrier[t].kind = "transfer"}

-----------------------------------------------------------------------------
(* The state.                                                              *)

Initial == Activation - 1

Block == [id : BlockId, txs : Seq(Txid)]
Event == [txid : Txid, height : Nat, pos : Nat]   \* pos of its first leaf

Reasons ==
  {"Malformed", "AnchorOutsideWindow", "NoRetainedRoot", "DuplicateNullifier",
   "NullifierSpent", "ProofInvalid", "MintUnfunded"}
Rejection == [txid : Txid, height : Nat, reason : Reasons]

StateFields ==
  {"replayed_height", "leaves", "nullifiers", "roots", "leaf_counts",
   "block_hashes", "events", "rejections"}

Fresh ==
  [replayed_height |-> Initial,
   leaves          |-> <<>>,
   nullifiers      |-> {},
   roots           |-> [h \in {Initial} |-> <<>>],
   leaf_counts     |-> [h \in {Initial} |-> 0],
   block_hashes    |-> [h \in {} |-> <<>>],
   events          |-> <<>>,
   rejections      |-> <<>>]

-----------------------------------------------------------------------------
(* One transaction of block h.                                             *)

InWindow(anchor, h) ==
  /\ anchor + WindowW >= h
  /\ anchor + KMin <= h

(* Mistaken variant: the nullifier set is not consulted.                   *)
VerdictWithoutSpent(s, h, t) ==
  IF ~InWindow(t.anchor, h) THEN "AnchorOutsideWindow"
  ELSE IF t.anchor \notin DOMAIN s.roots THEN "NoRetainedRoot"
  ELSE IF Nf(t, 0) = Nf(t, 1) THEN "DuplicateNullifier"
  ELSE IF ~Verify(s.roots[t.anchor], t) THEN "ProofInvalid"
  ELSE "accept"

(* accept_transfer's checks, in the order of A.7.                          *)
TransferVerdict(s, h, t) ==
  IF ~InWindow(t.anchor, h) THEN "AnchorOutsideWindow"
  ELSE IF t.anchor \notin DOMAIN s.roots THEN "NoRetainedRoot"
  ELSE IF Nf(t, 0) = Nf(t, 1) THEN "DuplicateNullifier"
  ELSE IF Nfs(t) \cap s.nullifiers # {} THEN "NullifierSpent"
  ELSE IF ~Verify(s.roots[t.anchor], t) THEN "ProofInvalid"
  ELSE "accept"

Verdict(s, h, e) ==
  IF e.kind = "none" THEN "ignore"
  ELSE IF e.kind = "malformed" THEN "Malformed"
  ELSE IF e.kind = "transfer" THEN TransferVerdict(s, h, e)
  ELSE IF e.value = 0 THEN "MintUnfunded"
  ELSE "accept"

AcceptMint(s, h, txid) ==
  [s EXCEPT !.leaves = Append(@, MintLeaf(Carrier[txid])),
            !.events = Append(@, [txid |-> txid, height |-> h,
                                  pos |-> Len(s.leaves)])]

(* Mistaken variant: only the first nullifier is recorded.                 *)
AcceptTransferOneNf(s, h, txid) ==
  LET t == Carrier[txid] IN
  [s EXCEPT !.leaves = @ \o <<OutputLeaf(t, 0), OutputLeaf(t, 1)>>,
            !.nullifiers = @ \cup {Nf(t, 0)},
            !.events = Append(@, [txid |-> txid, height |-> h,
                                  pos |-> Len(s.leaves)])]

AcceptTransfer(s, h, txid) ==
  LET t == Carrier[txid] IN
  [s EXCEPT !.leaves = @ \o <<OutputLeaf(t, 0), OutputLeaf(t, 1)>>,
            !.nullifiers = @ \cup Nfs(t),
            !.events = Append(@, [txid |-> txid, height |-> h,
                                  pos |-> Len(s.leaves)])]

Reject(s, h, txid, reason) ==
  [s EXCEPT !.rejections = Append(@, [txid |-> txid, height |-> h,
                                      reason |-> reason])]

ReplayTx(s, h, txid) ==
  LET v == Verdict(s, h, Carrier[txid]) IN
  IF v \in Reasons THEN Reject(s, h, txid, v)
  ELSE IF v = "ignore" THEN s
  ELSE IF txid \in Mints THEN AcceptMint(s, h, txid)
  ELSE AcceptTransfer(s, h, txid)

-----------------------------------------------------------------------------
(* End of block h: record it, then trim the histories and the log.         *)

Put(f, h, x) == [k \in DOMAIN f \cup {h} |-> IF k = h THEN x ELSE f[k]]
Keep(f, H) == [k \in DOMAIN f \cap H |-> f[k]]

KeepFrom(h) == IF h > WindowW + RetainExtra THEN h - (WindowW + RetainExtra)
                                            ELSE 0
(* Mistaken variant: K_MIN roots are kept where the window needs W.        *)
RecentKMin(h) == {k \in 0..h : k > h - KMin}
Recent(h) == {k \in 0..h : k >= KeepFrom(h)}

(* Mistaken variant: the oldest rejections are kept, not the newest.       *)
FirstRejections(log) ==
  IF Len(log) > MaxRejections THEN SubSeq(log, 1, MaxRejections) ELSE log
LastRejections(log) ==
  IF Len(log) > MaxRejections
  THEN SubSeq(log, Len(log) - MaxRejections + 1, Len(log))
  ELSE log

(* Mistaken variant: leaf_counts loses the initial entry, roots keeps it.  *)
EndBlockDropsInitial(s, h, hash) ==
  [s EXCEPT
     !.replayed_height = h,
     !.roots = Keep(Put(@, h, s.leaves), Recent(h) \cup {Initial}),
     !.leaf_counts = Keep(Put(@, h, Len(s.leaves)), Recent(h)),
     !.block_hashes = Keep(Put(@, h, hash), Recent(h)),
     !.rejections = LastRejections(@)]

EndBlock(s, h, hash) ==
  [s EXCEPT
     !.replayed_height = h,
     !.roots = Keep(Put(@, h, s.leaves), Recent(h) \cup {Initial}),
     !.leaf_counts = Keep(Put(@, h, Len(s.leaves)), Recent(h) \cup {Initial}),
     !.block_hashes = Keep(Put(@, h, hash), Recent(h)),
     !.rejections = LastRejections(@)]

-----------------------------------------------------------------------------
(* What a state must be.                                                   *)

HeightMap(f, S) == DOMAIN f \subseteq Nat /\ \A h \in DOMAIN f : f[h] \in S

StateOK(s) ==
  /\ DOMAIN s = StateFields
  /\ s.replayed_height \in Nat
  /\ s.leaves \in Seq(Leaf)
  /\ s.nullifiers \subseteq Nullifier
  /\ HeightMap(s.roots, Seq(Leaf))
  /\ HeightMap(s.leaf_counts, Nat)
  /\ HeightMap(s.block_hashes, Seq(Block))
  /\ s.events \in Seq(Event)
  /\ s.rejections \in Seq(Rejection)

(* Safety of a state, whatever the chain did.                              *)

Spend(s, i) == Carrier[s.events[i].txid]
TransferEvents(s) == {i \in DOMAIN s.events : s.events[i].txid \in Transfers}

(* The enabled inputs of accepted transfers: event number and slot.        *)
RealInputs(s) ==
  {x \in TransferEvents(s) \X Slots : Spend(s, x[1]).ins[x[2]].on}
InputOf(s, x) == Spend(s, x[1]).ins[x[2]]

(* The nullifier set is what the accepted transfers published, and no two  *)
(* of them, nor the two inputs of one, published the same nullifier.       *)
NullifiersOnce(s) ==
  /\ s.nullifiers = UNION {Nfs(Spend(s, i)) : i \in TransferEvents(s)}
  /\ \A i \in TransferEvents(s) : Nf(Spend(s, i), 0) # Nf(Spend(s, i), 1)
  /\ \A i, j \in TransferEvents(s) :
       i # j => Nfs(Spend(s, i)) \cap Nfs(Spend(s, j)) = {}

(* Every accepted input spends a note that was in the tree before the      *)
(* transfer's own outputs, so no transfer creates its value from nothing.  *)
SpendsExist(s) ==
  \A x \in RealInputs(s) :
    /\ InputOf(s, x).pos < s.events[x[1]].pos
    /\ Enters(s.leaves, InputOf(s, x))

(* No position of the tree is spent by two inputs of accepted transfers,   *)
(* not even when equal leaves were appended twice (a mint replayed twice). *)
EachNoteOnce(s) ==
  \A x, y \in RealInputs(s) : x # y => InputOf(s, x).pos # InputOf(s, y).pos

(* Value is conserved: the notes of a state that are still unspent are     *)
(* worth no more than what its accepted mints paid to the vault.            *)
LeafValues(s) == [p \in DOMAIN s.leaves |-> s.leaves[p].v]
Unspent(s) ==
  {p \in DOMAIN s.leaves :
     <<s.leaves[p].src, s.leaves[p].j, p - 1>> \notin s.nullifiers}

MintEvents(s) == {i \in DOMAIN s.events : s.events[i].txid \in Mints}
Payments(s) == [i \in MintEvents(s) |-> Carrier[s.events[i].txid].value]

NoInflation(s) ==
  SumFunctionOnSet(LeafValues(s), Unspent(s)) <= SumFunction(Payments(s))

(* A retained root is the root of the leaf prefix whose length was stored  *)
(* with it: build_transfer can always rebuild its anchor (AnchorMismatch). *)
RootHistory(s) ==
  /\ DOMAIN s.roots = DOMAIN s.leaf_counts
  /\ \A h \in DOMAIN s.roots :
       /\ s.leaf_counts[h] <= Len(s.leaves)
       /\ s.roots[h] = SubSeq(s.leaves, 1, s.leaf_counts[h])

(* A root stored for height h commits to the notes of blocks up to h and   *)
(* to no later one, through trimming and rebuilding.                       *)
CountsMatchHeights(s) ==
  \A h \in DOMAIN s.leaf_counts, i \in DOMAIN s.events :
    s.events[i].pos < s.leaf_counts[h] <=> s.events[i].height <= h

(* Trimming never removes a root the next block may still be anchored at:  *)
(* NoRetainedRoot is only ever answered to anchors before activation.      *)
WindowRetained(s) ==
  \A a \in Initial..s.replayed_height :
    InWindow(a, s.replayed_height + 1) => a \in DOMAIN s.roots

=============================================================================
