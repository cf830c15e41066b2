---------------------------- MODULE ReplayProofs ----------------------------
(***************************************************************************)
(* What the replay operators preserve, for every value of the constants.    *)
(* StateInv is the inductive invariant of a state: the safety predicates of *)
(* Replay, its type, and the bounds on heights and positions they need.     *)
(* Fresh satisfies it; a transaction or the end of block                    *)
(* replayed_height + 1 preserves it.                                        *)
(***************************************************************************)
EXTENDS Replay, SequenceTheorems, FiniteSetTheorems, TLAPS

(* Bounds: an event's leaves are in the tree, and nothing in a state is    *)
(* from beyond the block being replayed.                                    *)
WithinBounds(s) ==
  /\ s.replayed_height >= Initial
  /\ DOMAIN s.roots \subseteq Initial..s.replayed_height
  /\ \A i \in DOMAIN s.events :
       /\ s.events[i].pos < Len(s.leaves)
       /\ s.events[i].height <= s.replayed_height + 1

(* What trimming leaves: every height from KeepFrom on.                    *)
KeepsRecent(s) ==
  \A a \in Initial..s.replayed_height :
    a >= KeepFrom(s.replayed_height) => a \in DOMAIN s.roots

StateInv(s) ==
  /\ StateOK(s)
  /\ WithinBounds(s)
  /\ KeepsRecent(s)
  /\ NullifiersOnce(s)
  /\ SpendsExist(s)
  /\ RootHistory(s)
  /\ CountsMatchHeights(s)

-----------------------------------------------------------------------------
(* Envelopes.                                                              *)

LEMMA InitialNat == Initial \in Nat /\ Activation = Initial + 1
  BY ReplayConstants DEF Initial

LEMMA TransferType ==
  ASSUME NEW txid \in Transfers
  PROVE  txid \in Txid /\ Carrier[txid] \in TransferEnvelope
  BY ReplayConstants
     DEF Transfers, Envelope, NoEnvelope, MintEnvelope, TransferEnvelope

LEMMA MintType ==
  ASSUME NEW txid \in Mints
  PROVE  txid \in Txid /\ Carrier[txid] \in MintEnvelope
  BY ReplayConstants
     DEF Mints, Envelope, NoEnvelope, MintEnvelope, TransferEnvelope

LEMMA KindCases ==
  ASSUME NEW txid \in Txid
  PROVE  \/ Carrier[txid].kind = "none"
         \/ Carrier[txid].kind = "malformed"
         \/ txid \in Mints
         \/ txid \in Transfers
  BY ReplayConstants
     DEF Mints, Transfers, Envelope, NoEnvelope, MintEnvelope, TransferEnvelope

LEMMA MintNotTransfer == Mints \cap Transfers = {}
  BY DEF Mints, Transfers

LEMMA EnvelopeParts ==
  ASSUME NEW t \in TransferEnvelope
  PROVE  /\ Nfs(t) \subseteq Nullifier
         /\ Nfs(t) = {Nf(t, 0), Nf(t, 1)}
         /\ OutputLeaf(t, 0) \in Leaf /\ OutputLeaf(t, 1) \in Leaf
         /\ t.anchor \in Nat
         /\ \A i \in Slots : t.ins[i] \in Input
  <1>1. \A i \in Slots : t.ins[i] \in Input /\ t.outs[i] \in Nat
    BY DEF TransferEnvelope
  <1>2. \A i \in Slots : Nf(t, i) \in Nullifier
    BY <1>1 DEF Nf, Nullifier, Input, Leaf
  <1>3. Nfs(t) = {Nf(t, 0), Nf(t, 1)}
    BY DEF Nfs, Slots
  <1>4. \A j \in Slots : OutputLeaf(t, j) \in Leaf
    BY <1>1 DEF OutputLeaf, Leaf, TransferEnvelope
  <1>5. 0 \in Slots /\ 1 \in Slots
    BY DEF Slots
  <1>6. t.anchor \in Nat
    BY DEF TransferEnvelope
  <1> QED
    BY <1>1, <1>2, <1>3, <1>4, <1>5, <1>6

-----------------------------------------------------------------------------
(* What ReplayTx can do.                                                   *)

LEMMA AcceptedTransfer ==
  ASSUME NEW s, NEW h, NEW txid \in Transfers,
         Verdict(s, h, Carrier[txid]) = "accept"
  PROVE  LET t == Carrier[txid] IN
         /\ InWindow(t.anchor, h)
         /\ t.anchor \in DOMAIN s.roots
         /\ Nf(t, 0) # Nf(t, 1)
         /\ Nfs(t) \cap s.nullifiers = {}
         /\ Verify(s.roots[t.anchor], t)
  <1> DEFINE t == Carrier[txid]
  <1>1. t.kind = "transfer"
    BY DEF Transfers
  <1>2. TransferVerdict(s, h, t) = "accept"
    BY <1>1 DEF Verdict
  <1> QED
    BY <1>2 DEF TransferVerdict

LEMMA ReplayTxCases ==
  ASSUME NEW s, NEW h, NEW txid \in Txid
  PROVE  \/ ReplayTx(s, h, txid) = s
         \/ txid \in Mints /\ ReplayTx(s, h, txid) = AcceptMint(s, h, txid)
         \/ /\ txid \in Transfers
            /\ Verdict(s, h, Carrier[txid]) = "accept"
            /\ ReplayTx(s, h, txid) = AcceptTransfer(s, h, txid)
         \/ \E v \in Reasons : ReplayTx(s, h, txid) = Reject(s, h, txid, v)
  <1> DEFINE e == Carrier[txid]
             v == Verdict(s, h, e)
  <1>1. CASE e.kind = "none"
    BY <1>1 DEF Verdict, ReplayTx
  <1>2. CASE e.kind = "malformed"
    <2>1. v = "Malformed"
      BY <1>2 DEF Verdict
    <2> QED
      BY <2>1 DEF ReplayTx, Reasons
  <1>3. CASE txid \in Mints
    <2>1. v \in {"MintUnfunded", "accept"}
      BY <1>3 DEF Verdict, Mints
    <2> QED
      BY <2>1, <1>3 DEF ReplayTx, Reasons
  <1>4. CASE txid \in Transfers
    <2>1. v = TransferVerdict(s, h, e)
      BY <1>4 DEF Verdict, Transfers
    <2>2. v \in Reasons \cup {"accept"}
      BY <2>1 DEF TransferVerdict, Reasons
    <2>3. txid \notin Mints
      BY <1>4, MintNotTransfer
    <2>4. CASE v = "accept"
      BY <2>3, <2>4, <1>4 DEF ReplayTx
    <2>5. CASE v \in Reasons
      BY <2>5 DEF ReplayTx, Reasons
    <2> QED
      BY <2>2, <2>4, <2>5
  <1> QED
    BY <1>1, <1>2, <1>3, <1>4, KindCases

-----------------------------------------------------------------------------
(* What the operators do to a state, field by field.  The lemmas below are  *)
(* about any r in one of these relations with s.                            *)

NextBlock(s) == s.replayed_height + 1
EventAt(s, txid) ==
  [txid |-> txid, height |-> NextBlock(s), pos |-> Len(s.leaves)]

Extended(s, r, txid, new, nfs) ==
  /\ DOMAIN r = StateFields
  /\ r.leaves = s.leaves \o new
  /\ r.nullifiers = s.nullifiers \cup nfs
  /\ r.events = Append(s.events, EventAt(s, txid))
  /\ r.replayed_height = s.replayed_height
  /\ r.roots = s.roots
  /\ r.leaf_counts = s.leaf_counts
  /\ r.block_hashes = s.block_hashes
  /\ r.rejections = s.rejections

SameHistory(s, r) ==
  /\ r.leaves = s.leaves
  /\ r.nullifiers = s.nullifiers
  /\ r.events = s.events

Logged(s, r, entry) ==
  /\ DOMAIN r = StateFields
  /\ SameHistory(s, r)
  /\ r.replayed_height = s.replayed_height
  /\ r.roots = s.roots
  /\ r.leaf_counts = s.leaf_counts
  /\ r.block_hashes = s.block_hashes
  /\ r.rejections = Append(s.rejections, entry)

BlockEnded(s, r, hash) ==
  /\ DOMAIN r = StateFields
  /\ SameHistory(s, r)
  /\ r.replayed_height = NextBlock(s)
  /\ r.roots = Keep(Put(s.roots, NextBlock(s), s.leaves), Recent(NextBlock(s)) \cup {Initial})
  /\ r.leaf_counts = Keep(Put(s.leaf_counts, NextBlock(s), Len(s.leaves)),
                          Recent(NextBlock(s)) \cup {Initial})
  /\ r.block_hashes = Keep(Put(s.block_hashes, NextBlock(s), hash), Recent(NextBlock(s)))
  /\ r.rejections = LastRejections(s.rejections)

LEMMA AcceptMintExtends ==
  ASSUME NEW s, StateOK(s), NEW h, h = NextBlock(s), NEW txid \in Mints
  PROVE  Extended(s, AcceptMint(s, h, txid), txid,
                  <<MintLeaf(Carrier[txid])>>, {})
  <1> DEFINE r == AcceptMint(s, h, txid)
             m == MintLeaf(Carrier[txid])
  <1>1. DOMAIN s = StateFields
    BY DEF StateOK
  <1>2. s.leaves \in Seq(Leaf) /\ m \in Leaf
    BY MintType DEF StateOK, MintLeaf, Leaf, MintEnvelope, Slots
  <1>3. Append(s.leaves, m) = s.leaves \o <<m>>
    BY <1>2, AppendIsConcat
  <1>4. /\ DOMAIN r = StateFields
        /\ r.leaves = Append(s.leaves, m)
        /\ r.events = Append(s.events, [txid |-> txid, height |-> h,
                                        pos |-> Len(s.leaves)])
    BY <1>1, Zenon DEF AcceptMint, StateFields
  <1>5. /\ r.nullifiers = s.nullifiers /\ r.roots = s.roots
        /\ r.replayed_height = s.replayed_height
        /\ r.leaf_counts = s.leaf_counts
        /\ r.block_hashes = s.block_hashes /\ r.rejections = s.rejections
    BY <1>1, Zenon DEF AcceptMint, StateFields
  <1> HIDE DEF r, m
  <1>6. Extended(s, r, txid, <<m>>, {})
    BY <1>3, <1>4, <1>5 DEF Extended, EventAt
  <1> QED
    BY <1>6 DEF r, m

LEMMA AcceptTransferExtends ==
  ASSUME NEW s, StateOK(s), NEW h, h = NextBlock(s), NEW txid,
         NEW t, t = Carrier[txid]
  PROVE  Extended(s, AcceptTransfer(s, h, txid), txid,
                  <<OutputLeaf(t, 0), OutputLeaf(t, 1)>>, Nfs(t))
  <1> DEFINE r == AcceptTransfer(s, h, txid)
  <1>1. DOMAIN s = StateFields
    BY DEF StateOK
  <1>2. /\ DOMAIN r = StateFields
        /\ r.leaves = s.leaves \o <<OutputLeaf(t, 0), OutputLeaf(t, 1)>>
        /\ r.nullifiers = s.nullifiers \cup Nfs(t)
        /\ r.events = Append(s.events, [txid |-> txid, height |-> h,
                                        pos |-> Len(s.leaves)])
    BY <1>1, Zenon DEF AcceptTransfer, StateFields
  <1>3. /\ r.roots = s.roots /\ r.replayed_height = s.replayed_height
        /\ r.leaf_counts = s.leaf_counts
        /\ r.block_hashes = s.block_hashes /\ r.rejections = s.rejections
    BY <1>1, Zenon DEF AcceptTransfer, StateFields
  <1> HIDE DEF r
  <1>4. Extended(s, r, txid, <<OutputLeaf(t, 0), OutputLeaf(t, 1)>>, Nfs(t))
    BY <1>2, <1>3 DEF Extended, EventAt
  <1> QED
    BY <1>4 DEF r

LEMMA RejectLogs ==
  ASSUME NEW s, StateOK(s), NEW h, NEW txid, NEW v
  PROVE  Logged(s, Reject(s, h, txid, v),
                [txid |-> txid, height |-> h, reason |-> v])
  <1> DEFINE r == Reject(s, h, txid, v)
  <1>1. DOMAIN s = StateFields
    BY DEF StateOK
  <1>2. /\ DOMAIN r = StateFields
        /\ r.leaves = s.leaves /\ r.nullifiers = s.nullifiers
        /\ r.events = s.events
        /\ r.rejections = Append(s.rejections, [txid |-> txid, height |-> h,
                                                reason |-> v])
    BY <1>1, Zenon DEF Reject, StateFields
  <1>3. /\ r.roots = s.roots /\ r.replayed_height = s.replayed_height
        /\ r.leaf_counts = s.leaf_counts
        /\ r.block_hashes = s.block_hashes
    BY <1>1, Zenon DEF Reject, StateFields
  <1> HIDE DEF r
  <1>4. Logged(s, r, [txid |-> txid, height |-> h, reason |-> v])
    BY <1>2, <1>3 DEF Logged, SameHistory
  <1> QED
    BY <1>4 DEF r

LEMMA EndBlockEnds ==
  ASSUME NEW s, StateOK(s), NEW h, h = NextBlock(s), NEW hash
  PROVE  BlockEnded(s, EndBlock(s, h, hash), hash)
  <1> DEFINE r == EndBlock(s, h, hash)
  <1>1. DOMAIN s = StateFields
    BY DEF StateOK
  <1>2. /\ DOMAIN r = StateFields
        /\ r.replayed_height = h
        /\ r.roots = Keep(Put(s.roots, h, s.leaves), Recent(h) \cup {Initial})
        /\ r.leaf_counts = Keep(Put(s.leaf_counts, h, Len(s.leaves)),
                                Recent(h) \cup {Initial})
        /\ r.block_hashes = Keep(Put(s.block_hashes, h, hash), Recent(h))
        /\ r.rejections = LastRejections(s.rejections)
    BY <1>1, Zenon DEF EndBlock, StateFields
  <1>3. /\ r.leaves = s.leaves /\ r.nullifiers = s.nullifiers
        /\ r.events = s.events
    BY <1>1, Zenon DEF EndBlock, StateFields
  <1> HIDE DEF r
  <1>4. BlockEnded(s, r, hash)
    BY <1>2, <1>3 DEF BlockEnded, SameHistory
  <1> QED
    BY <1>4 DEF r

-----------------------------------------------------------------------------
(* Types.                                                                  *)

LEMMA FreshOK == StateOK(Fresh)
  BY InitialNat, EmptySeq
     DEF StateOK, Fresh, StateFields, HeightMap, Leaf, Event, Rejection, Nullifier

(* The tree and the events of an extended state.                           *)
LEMMA ExtendedLeaves ==
  ASSUME NEW s, StateOK(s), NEW r, NEW txid,
         NEW new \in Seq(Leaf), NEW nfs,
         Extended(s, r, txid, new, nfs)
  PROVE  /\ Len(s.leaves) \in Nat /\ Len(new) \in Nat
         /\ r.leaves \in Seq(Leaf)
         /\ Len(r.leaves) = Len(s.leaves) + Len(new)
         /\ \A i \in 1..Len(s.leaves) : r.leaves[i] = s.leaves[i]
  <1>1. s.leaves \in Seq(Leaf) /\ r.leaves = s.leaves \o new
    BY DEF StateOK, Extended
  <1>2. Len(s.leaves) \in Nat /\ Len(new) \in Nat
    BY <1>1, LenProperties
  <1> QED
    BY <1>1, <1>2, ConcatProperties

LEMMA EventAtType ==
  ASSUME NEW s, StateOK(s), NEW txid \in Txid
  PROVE  EventAt(s, txid) \in Event
  <1>1. Len(s.leaves) \in Nat /\ NextBlock(s) \in Nat
    BY LenProperties DEF StateOK, NextBlock
  <1> QED
    BY <1>1 DEF EventAt, Event

(* r has the events of s and exactly one more.                             *)
LEMMA ExtendedEvents ==
  ASSUME NEW s, StateOK(s), NEW r, NEW txid \in Txid,
         NEW new, NEW nfs, Extended(s, r, txid, new, nfs)
  PROVE  /\ r.events \in Seq(Event)
         /\ \A i \in DOMAIN s.events :
              i \in DOMAIN r.events /\ r.events[i] = s.events[i]
         /\ \E i : i \in DOMAIN r.events /\ i \notin DOMAIN s.events
         /\ \A i \in DOMAIN r.events :
              i \notin DOMAIN s.events => r.events[i] = EventAt(s, txid)
         /\ \A i, j \in DOMAIN r.events :
              i \notin DOMAIN s.events /\ j \notin DOMAIN s.events => i = j
  <1>1. /\ s.events \in Seq(Event)
        /\ r.events = Append(s.events, EventAt(s, txid))
    BY DEF StateOK, Extended
  <1>2. EventAt(s, txid) \in Event
    BY EventAtType
  <1>3. Len(s.events) \in Nat /\ DOMAIN s.events = 1..Len(s.events)
    BY <1>1, LenProperties
  <1>4. /\ r.events \in Seq(Event)
        /\ Len(r.events) = Len(s.events) + 1
        /\ \A i \in 1..Len(s.events) : r.events[i] = s.events[i]
        /\ r.events[Len(s.events) + 1] = EventAt(s, txid)
    BY <1>1, <1>2, <1>3, AppendProperties
  <1>5. DOMAIN r.events = 1..(Len(s.events) + 1)
    BY <1>4, LenProperties
  <1>6. \A i \in DOMAIN r.events :
          i \notin DOMAIN s.events => i = Len(s.events) + 1
    BY <1>3, <1>5
  <1>7. \E i : i \in DOMAIN r.events /\ i \notin DOMAIN s.events
    <2>1. /\ Len(s.events) + 1 \in DOMAIN r.events
          /\ Len(s.events) + 1 \notin DOMAIN s.events
      BY <1>3, <1>5
    <2> QED
      BY <2>1
  <1>8. \A i \in DOMAIN s.events :
          i \in DOMAIN r.events /\ r.events[i] = s.events[i]
    BY <1>3, <1>4, <1>5
  <1> QED
    BY <1>4, <1>6, <1>7, <1>8

LEMMA ExtendedOK ==
  ASSUME NEW s, StateOK(s), NEW r, NEW txid \in Txid,
         NEW new \in Seq(Leaf), NEW nfs \in SUBSET Nullifier,
         Extended(s, r, txid, new, nfs)
  PROVE  StateOK(r)
  <1>1. r.leaves \in Seq(Leaf) /\ r.events \in Seq(Event)
    BY ExtendedLeaves, ExtendedEvents
  <1> QED
    BY <1>1 DEF StateOK, Extended

LEMMA LoggedOK ==
  ASSUME NEW s, StateOK(s), NEW r, NEW entry \in Rejection,
         Logged(s, r, entry)
  PROVE  StateOK(r)
  <1>1. Append(s.rejections, entry) \in Seq(Rejection)
    BY AppendProperties DEF StateOK
  <1> QED
    BY <1>1 DEF StateOK, Logged, SameHistory

LEMMA LastRejectionsOK ==
  ASSUME NEW log \in Seq(Rejection)
  PROVE  LastRejections(log) \in Seq(Rejection)
  <1>1. Len(log) \in Nat /\ \A i \in 1..Len(log) : log[i] \in Rejection
    BY LenProperties, ElementOfSeq
  <1>2. CASE Len(log) > MaxRejections
    <2> DEFINE m == Len(log) - MaxRejections + 1
    <2>1. m \in Int /\ m >= 1
      BY <1>1, <1>2, ReplayConstants
    <2>2. \A i \in m..Len(log) : log[i] \in Rejection
      BY <1>1, <2>1
    <2>3. SubSeq(log, m, Len(log)) \in Seq(Rejection)
      BY <1>1, <2>1, <2>2, SubSeqProperties
    <2> QED
      BY <1>2, <2>3 DEF LastRejections
  <1> QED
    BY <1>2 DEF LastRejections

LEMMA KeepPutMap ==
  ASSUME NEW S, NEW f, HeightMap(f, S), NEW h \in Nat, NEW x \in S, NEW H
  PROVE  HeightMap(Keep(Put(f, h, x), H), S)
  BY DEF Keep, Put, HeightMap

LEMMA BlockEndedOK ==
  ASSUME NEW s, StateOK(s), NEW r, NEW hash \in Seq(Block),
         BlockEnded(s, r, hash)
  PROVE  StateOK(r)
  <1>1. /\ s.leaves \in Seq(Leaf) /\ Len(s.leaves) \in Nat
        /\ NextBlock(s) \in Nat
    BY LenProperties DEF StateOK, NextBlock
  <1>2. HeightMap(r.roots, Seq(Leaf))
    BY <1>1, KeepPutMap DEF StateOK, BlockEnded
  <1>3. HeightMap(r.leaf_counts, Nat)
    BY <1>1, KeepPutMap DEF StateOK, BlockEnded
  <1>4. HeightMap(r.block_hashes, Seq(Block))
    BY <1>1, KeepPutMap DEF StateOK, BlockEnded
  <1>5. r.rejections \in Seq(Rejection)
    BY LastRejectionsOK DEF StateOK, BlockEnded
  <1> QED
    BY <1>1, <1>2, <1>3, <1>4, <1>5 DEF StateOK, BlockEnded, SameHistory

-----------------------------------------------------------------------------
(* StateInv.                                                               *)

LEMMA FreshInv == StateInv(Fresh)
  <1>1. /\ Fresh.replayed_height = Initial /\ Fresh.leaves = <<>>
        /\ Fresh.nullifiers = {} /\ Fresh.events = <<>>
        /\ Fresh.roots = [h \in {Initial} |-> <<>>]
        /\ Fresh.leaf_counts = [h \in {Initial} |-> 0]
    BY DEF Fresh
  <1>2. Initial \in Nat
    BY InitialNat
  <1> HIDE DEF Fresh
  <1>3. TransferEvents(Fresh) = {} /\ RealInputs(Fresh) = {}
    BY <1>1 DEF TransferEvents, RealInputs
  <1>4. WithinBounds(Fresh) /\ KeepsRecent(Fresh) /\ CountsMatchHeights(Fresh)
    BY <1>1, <1>2 DEF WithinBounds, KeepsRecent, CountsMatchHeights
  <1>5. NullifiersOnce(Fresh) /\ SpendsExist(Fresh)
    BY <1>1, <1>3 DEF NullifiersOnce, SpendsExist
  <1>6. Len(<<>>) = 0 /\ SubSeq(<<>>, 1, 0) = <<>>
    BY SubSeqEmpty, EmptySeq
  <1>7. RootHistory(Fresh)
    BY <1>1, <1>6, SMTT(30) DEF RootHistory
  <1> QED
    BY <1>4, <1>5, <1>7, FreshOK DEF StateInv

(* NullifiersOnce and SpendsExist look at the histories alone.             *)
LEMMA SameHistoryInv ==
  ASSUME NEW s, NEW r, SameHistory(s, r), NullifiersOnce(s), SpendsExist(s)
  PROVE  NullifiersOnce(r) /\ SpendsExist(r)
  BY DEF SameHistory, NullifiersOnce, SpendsExist, RealInputs, InputOf,
         TransferEvents, Spend

LEMMA LoggedInv ==
  ASSUME NEW s, StateInv(s), NEW r, NEW entry \in Rejection,
         Logged(s, r, entry)
  PROVE  StateInv(r)
  <1>1. StateOK(r)
    BY LoggedOK DEF StateInv
  <1>2. NullifiersOnce(r) /\ SpendsExist(r)
    BY SameHistoryInv DEF StateInv, Logged
  <1>3. WithinBounds(r) /\ KeepsRecent(r)
    BY DEF StateInv, Logged, SameHistory, WithinBounds, KeepsRecent
  <1>4. RootHistory(r) /\ CountsMatchHeights(r)
    BY DEF StateInv, Logged, SameHistory, RootHistory, CountsMatchHeights
  <1> QED
    BY <1>1, <1>2, <1>3, <1>4 DEF StateInv

-----------------------------------------------------------------------------
(* An accepted mint or transfer of block replayed_height + 1.              *)

(* What appending does not change: the roots and their counts.             *)
LEMMA ExtendedRoots ==
  ASSUME NEW s, StateInv(s), NEW r, NEW txid \in Txid,
         NEW new \in Seq(Leaf), NEW nfs,
         Extended(s, r, txid, new, nfs)
  PROVE  RootHistory(r) /\ CountsMatchHeights(r)
  <1>1. StateOK(s)
    BY DEF StateInv, StateOK
  <1>2. /\ r.roots = s.roots /\ r.leaf_counts = s.leaf_counts
        /\ r.leaves = s.leaves \o new
    BY DEF Extended
  <1>3. RootHistory(s) /\ CountsMatchHeights(s) /\ WithinBounds(s)
    BY DEF StateInv
  <1>4. /\ s.leaves \in Seq(Leaf) /\ Len(s.leaves) \in Nat /\ Len(new) \in Nat
        /\ Len(r.leaves) = Len(s.leaves) + Len(new)
    <2>1. s.leaves \in Seq(Leaf)
      BY <1>1 DEF StateOK
    <2> QED
      BY <1>1, <2>1, ExtendedLeaves
  <1>5. \A h \in DOMAIN s.leaf_counts :
          s.leaf_counts[h] \in Nat /\ s.leaf_counts[h] <= Len(s.leaves)
    BY <1>1, <1>3 DEF RootHistory, StateOK, HeightMap
  <1>6. \A h \in DOMAIN s.leaf_counts :
          SubSeq(r.leaves, 1, s.leaf_counts[h])
            = SubSeq(s.leaves, 1, s.leaf_counts[h])
    <2> SUFFICES ASSUME NEW h \in DOMAIN s.leaf_counts
                 PROVE  SubSeq(r.leaves, 1, s.leaf_counts[h])
                          = SubSeq(s.leaves, 1, s.leaf_counts[h])
      OBVIOUS
    <2>1. CASE s.leaf_counts[h] = 0
      BY <2>1, SubSeqEmpty
    <2>2. CASE s.leaf_counts[h] # 0
      <3>1. s.leaf_counts[h] \in 1..Len(s.leaves) /\ 1 \in 1..Len(s.leaves)
        BY <1>4, <1>5, <2>2
      <3> QED
        BY <1>2, <1>4, <3>1, SubSeqOfConcat1
    <2> QED
      BY <2>1, <2>2
  <1>7. RootHistory(r)
    BY <1>2, <1>3, <1>4, <1>5, <1>6 DEF RootHistory
  <1>8. CountsMatchHeights(r)
    <2> SUFFICES ASSUME NEW h \in DOMAIN s.leaf_counts,
                        NEW i \in DOMAIN r.events
                 PROVE  r.events[i].pos < s.leaf_counts[h]
                          <=> r.events[i].height <= h
      BY <1>2 DEF CountsMatchHeights
    <2>1. CASE i \in DOMAIN s.events
      <3>1. r.events[i] = s.events[i]
        BY <1>1, <2>1, ExtendedEvents
      <3> QED
        BY <1>3, <2>1, <3>1 DEF CountsMatchHeights
    <2>2. CASE i \notin DOMAIN s.events
      <3>1. r.events[i] = EventAt(s, txid)
        BY <1>1, <2>2, ExtendedEvents, ZenonT(60)
      <3>2. /\ r.events[i].pos = Len(s.leaves)
            /\ r.events[i].height = s.replayed_height + 1
        BY <3>1 DEF EventAt, NextBlock
      <3>3. h \in Initial..s.replayed_height /\ s.replayed_height \in Nat
        BY <1>1, <1>3 DEF RootHistory, WithinBounds, StateOK
      <3> QED
        BY <1>4, <1>5, <3>2, <3>3, InitialNat
    <2> QED
      BY <2>1, <2>2
  <1> QED
    BY <1>7, <1>8

LEMMA ExtendedBounds ==
  ASSUME NEW s, StateInv(s), NEW r, NEW txid \in Txid,
         NEW new \in Seq(Leaf), Len(new) > 0, NEW nfs,
         Extended(s, r, txid, new, nfs)
  PROVE  WithinBounds(r) /\ KeepsRecent(r)
  <1>1. StateOK(s)
    BY DEF StateInv
  <1>2. r.roots = s.roots /\ r.replayed_height = s.replayed_height
    BY DEF Extended
  <1>3. WithinBounds(s) /\ KeepsRecent(s)
    BY DEF StateInv
  <1>4. /\ Len(s.leaves) \in Nat /\ Len(new) \in Nat
        /\ Len(r.leaves) = Len(s.leaves) + Len(new)
    BY <1>1, ExtendedLeaves
  <1>5. s.replayed_height \in Nat /\ s.events \in Seq(Event)
    BY <1>1 DEF StateOK
  <1>6. ASSUME NEW i \in DOMAIN r.events
        PROVE  /\ r.events[i].pos < Len(r.leaves)
               /\ r.events[i].height <= s.replayed_height + 1
    <2>1. CASE i \in DOMAIN s.events
      <3>1. r.events[i] = s.events[i]
        BY <1>1, <2>1, ExtendedEvents
      <3>2. s.events[i] \in Event
        BY <1>5, <2>1, ElementOfSeq, LenProperties
      <3>3. r.events[i].pos \in Nat
        BY <3>1, <3>2 DEF Event
      <3> QED
        BY <1>3, <1>4, <2>1, <3>1, <3>3 DEF WithinBounds
    <2>2. CASE i \notin DOMAIN s.events
      <3>1. r.events[i] = EventAt(s, txid)
        BY <1>1, <2>2, ExtendedEvents, ZenonT(60)
      <3>2. /\ r.events[i].pos = Len(s.leaves)
            /\ r.events[i].height = s.replayed_height + 1
        BY <3>1 DEF EventAt, NextBlock
      <3> QED
        BY <1>4, <1>5, <3>2
    <2> QED
      BY <2>1, <2>2
  <1> QED
    BY <1>2, <1>3, <1>6 DEF WithinBounds, KeepsRecent

(* Earlier spends stay what they were.                                     *)
LEMMA OldSpends ==
  ASSUME NEW s, StateOK(s), NEW r, NEW txid \in Txid,
         NEW new \in Seq(Leaf), NEW nfs, Extended(s, r, txid, new, nfs),
         NEW i \in DOMAIN s.events
  PROVE  /\ Spend(r, i) = Spend(s, i)
         /\ i \in TransferEvents(r) <=> i \in TransferEvents(s)
  <1>1. i \in DOMAIN r.events /\ r.events[i] = s.events[i]
    BY ExtendedEvents
  <1> QED
    BY <1>1 DEF Spend, TransferEvents

LEMMA TransferEventType ==
  ASSUME NEW s, NEW i \in TransferEvents(s)
  PROVE  /\ i \in DOMAIN s.events
         /\ Spend(s, i) \in TransferEnvelope
         /\ \A k \in Slots : Spend(s, i).ins[k] \in Input
  <1>1. i \in DOMAIN s.events /\ s.events[i].txid \in Transfers
    BY DEF TransferEvents
  <1>2. Spend(s, i) \in TransferEnvelope
    BY <1>1, TransferType DEF Spend
  <1> QED
    BY <1>1, <1>2, EnvelopeParts

LEMMA EntersStays ==
  ASSUME NEW s, StateOK(s), NEW r, NEW txid \in Txid,
         NEW new \in Seq(Leaf), NEW nfs, Extended(s, r, txid, new, nfs),
         NEW in \in Input, Enters(s.leaves, in)
  PROVE  Enters(r.leaves, in)
  <1>1. in.pos \in Nat /\ in.pos < Len(s.leaves) /\ s.leaves[in.pos + 1] = in.leaf
    BY DEF Enters, Input
  <1>2. /\ Len(s.leaves) \in Nat /\ Len(new) \in Nat
        /\ Len(r.leaves) = Len(s.leaves) + Len(new)
        /\ \A i \in 1..Len(s.leaves) : r.leaves[i] = s.leaves[i]
    BY ExtendedLeaves
  <1>3. in.pos + 1 \in 1..Len(s.leaves)
    BY <1>1, <1>2
  <1> QED
    BY <1>1, <1>2, <1>3 DEF Enters

(* The spends of earlier events, seen in the extended state.               *)
LEMMA OldInputs ==
  ASSUME NEW s, StateOK(s), SpendsExist(s), NEW r, NEW txid \in Txid,
         NEW new \in Seq(Leaf), NEW nfs, Extended(s, r, txid, new, nfs),
         NEW x \in RealInputs(r), x[1] \in DOMAIN s.events
  PROVE  /\ InputOf(r, x).pos < r.events[x[1]].pos
         /\ Enters(r.leaves, InputOf(r, x))
  <1>1. x \in TransferEvents(r) \X Slots /\ Spend(r, x[1]).ins[x[2]].on
    BY DEF RealInputs
  <1>2. Spend(r, x[1]) = Spend(s, x[1]) /\ x[1] \in TransferEvents(s)
    BY <1>1, OldSpends
  <1>3. x \in RealInputs(s) /\ InputOf(r, x) = InputOf(s, x)
    BY <1>1, <1>2 DEF RealInputs, InputOf
  <1>4. InputOf(s, x) \in Input
    BY <1>1, <1>2, TransferEventType DEF InputOf
  <1>5. InputOf(s, x).pos < s.events[x[1]].pos /\ Enters(s.leaves, InputOf(s, x))
    BY <1>3 DEF SpendsExist
  <1>6. r.events[x[1]] = s.events[x[1]]
    BY ExtendedEvents, ZenonT(60)
  <1>7. Enters(r.leaves, InputOf(s, x))
    BY <1>4, <1>5, EntersStays
  <1> QED
    BY <1>3, <1>5, <1>6, <1>7

LEMMA MintHistory ==
  ASSUME NEW s, StateInv(s), NEW r, NEW txid \in Mints,
         NEW new \in Seq(Leaf), Extended(s, r, txid, new, {})
  PROVE  NullifiersOnce(r) /\ SpendsExist(r)
  <1>1. StateOK(s) /\ NullifiersOnce(s) /\ SpendsExist(s) /\ txid \in Txid
    BY MintType DEF StateInv
  <1>2. TransferEvents(r) \subseteq DOMAIN s.events
    <2> SUFFICES ASSUME NEW i \in TransferEvents(r), i \notin DOMAIN s.events
                 PROVE  FALSE
      OBVIOUS
    <2>1. i \in DOMAIN r.events /\ r.events[i].txid \in Transfers
      BY DEF TransferEvents
    <2>2. r.events[i] = EventAt(s, txid)
      BY <1>1, <2>1, ExtendedEvents, ZenonT(60)
    <2>3. r.events[i].txid = txid
      BY <2>2 DEF EventAt
    <2> QED
      BY <2>1, <2>3, MintNotTransfer
  <1>3. TransferEvents(s) \subseteq DOMAIN s.events
    BY DEF TransferEvents
  <1>4. \A i \in DOMAIN s.events : Spend(r, i) = Spend(s, i)
    BY <1>1, OldSpends
  <1>5. TransferEvents(r) = TransferEvents(s)
    <2>1. \A i \in DOMAIN s.events :
            i \in TransferEvents(r) <=> i \in TransferEvents(s)
      BY <1>1, OldSpends
    <2> QED
      BY <1>2, <1>3, <2>1
  <1>6. r.nullifiers = s.nullifiers
    BY DEF Extended
  <1>7. NullifiersOnce(r)
    BY <1>1, <1>3, <1>4, <1>5, <1>6 DEF NullifiersOnce
  <1>8. SpendsExist(r)
    <2> SUFFICES ASSUME NEW x \in RealInputs(r)
                 PROVE  /\ InputOf(r, x).pos < r.events[x[1]].pos
                        /\ Enters(r.leaves, InputOf(r, x))
      BY DEF SpendsExist
    <2>1. x[1] \in DOMAIN s.events
      BY <1>2 DEF RealInputs
    <2> QED
      BY <1>1, <2>1, OldInputs
  <1> QED
    BY <1>7, <1>8

(* What verification against a retained root says about the tree.          *)
LEMMA VerifiedInput ==
  ASSUME NEW s, StateOK(s), RootHistory(s), NEW t \in TransferEnvelope,
         t.anchor \in DOMAIN s.roots, Verify(s.roots[t.anchor], t),
         NEW k \in Slots, t.ins[k].on
  PROVE  t.ins[k].pos < Len(s.leaves) /\ Enters(s.leaves, t.ins[k])
  <1> DEFINE in == t.ins[k]
             n == s.leaf_counts[t.anchor]
  <1>1. /\ n \in Nat /\ n <= Len(s.leaves)
        /\ s.roots[t.anchor] = SubSeq(s.leaves, 1, n)
    BY DEF RootHistory, StateOK, HeightMap
  <1>2. in.pos \in Nat
    BY EnvelopeParts DEF Input
  <1>3. Enters(SubSeq(s.leaves, 1, n), in)
    BY <1>1 DEF Verify
  <1>4. s.leaves \in Seq(Leaf) /\ Len(s.leaves) \in Nat
    BY LenProperties DEF StateOK
  <1> HIDE DEF n, in
  <1>5. \A i \in 1..n : s.leaves[i] \in Leaf
    BY <1>1, <1>4, ElementOfSeq
  <1>6. /\ Len(SubSeq(s.leaves, 1, n)) = n
        /\ \A i \in 1..n : SubSeq(s.leaves, 1, n)[i] = s.leaves[i]
    BY <1>1, <1>5, SubSeqProperties
  <1>7. /\ in.pos < n
        /\ SubSeq(s.leaves, 1, n)[in.pos + 1] = in.leaf
    BY <1>3, <1>6 DEF Enters
  <1>8. s.leaves[in.pos + 1] = in.leaf
    BY <1>1, <1>2, <1>6, <1>7
  <1>9. in.pos < Len(s.leaves)
    BY <1>1, <1>2, <1>4, <1>7
  <1> QED
    BY <1>8, <1>9 DEF Enters, in

LEMMA TransferHistory ==
  ASSUME NEW s, StateInv(s), NEW r, NEW txid \in Transfers,
         NEW h, Verdict(s, h, Carrier[txid]) = "accept",
         NEW new \in Seq(Leaf), Extended(s, r, txid, new, Nfs(Carrier[txid]))
  PROVE  NullifiersOnce(r) /\ SpendsExist(r)
  <1> DEFINE t == Carrier[txid]
  <1>1. StateOK(s) /\ NullifiersOnce(s) /\ SpendsExist(s) /\ RootHistory(s)
    BY DEF StateInv
  <1>2. txid \in Txid /\ t \in TransferEnvelope
    BY TransferType
  <1>3. /\ t.anchor \in DOMAIN s.roots
        /\ Nf(t, 0) # Nf(t, 1)
        /\ Nfs(t) \cap s.nullifiers = {}
        /\ Verify(s.roots[t.anchor], t)
    BY AcceptedTransfer
  <1>4. PICK n : n \in DOMAIN r.events /\ n \notin DOMAIN s.events
    BY <1>1, <1>2, ExtendedEvents
  <1>5. r.events[n] = EventAt(s, txid)
    BY <1>1, <1>2, <1>4, ExtendedEvents, ZenonT(60)
  <1>6. r.events[n].txid = txid /\ r.events[n].pos = Len(s.leaves)
    BY <1>5 DEF EventAt
  <1>7. Spend(r, n) = t /\ n \in TransferEvents(r)
    BY <1>4, <1>6 DEF Spend, TransferEvents
  <1>8. \A i \in DOMAIN r.events : i \in DOMAIN s.events \/ i = n
    BY <1>1, <1>2, <1>4, ExtendedEvents
  <1>9. \A i \in TransferEvents(r) : i \in TransferEvents(s) \/ i = n
    <2> TAKE i \in TransferEvents(r)
    <2>1. i \in DOMAIN r.events
      BY DEF TransferEvents
    <2> QED
      BY <1>1, <1>2, <1>8, <2>1, OldSpends
  <1>10. \A i \in TransferEvents(s) :
           i # n /\ i \in TransferEvents(r) /\ Spend(r, i) = Spend(s, i)
    <2> TAKE i \in TransferEvents(s)
    <2>1. i \in DOMAIN s.events
      BY DEF TransferEvents
    <2> QED
      BY <1>1, <1>2, <1>4, <2>1, OldSpends
  <1>11. r.nullifiers = s.nullifiers \cup Nfs(t)
    BY DEF Extended
  <1> HIDE DEF t
  <1>12. NullifiersOnce(r)
    <2>1. r.nullifiers = UNION {Nfs(Spend(r, i)) : i \in TransferEvents(r)}
      <3>1. s.nullifiers = UNION {Nfs(Spend(s, i)) : i \in TransferEvents(s)}
        BY <1>1 DEF NullifiersOnce
      <3> QED
        BY <1>7, <1>9, <1>10, <1>11, <3>1
    <2>2. \A i \in TransferEvents(r) : Nf(Spend(r, i), 0) # Nf(Spend(r, i), 1)
      BY <1>1, <1>3, <1>7, <1>9, <1>10 DEF NullifiersOnce
    <2>3. \A i, j \in TransferEvents(r) :
            i # j => Nfs(Spend(r, i)) \cap Nfs(Spend(r, j)) = {}
      <3>1. \A i \in TransferEvents(s) : Nfs(Spend(s, i)) \cap Nfs(t) = {}
        BY <1>1, <1>3 DEF NullifiersOnce
      <3>2. \A i, j \in TransferEvents(s) :
              i # j => Nfs(Spend(s, i)) \cap Nfs(Spend(s, j)) = {}
        BY <1>1 DEF NullifiersOnce
      <3> QED
        BY <1>7, <1>9, <1>10, <3>1, <3>2
    <2> QED
      BY <2>1, <2>2, <2>3 DEF NullifiersOnce
  <1>13. SpendsExist(r)
    <2> SUFFICES ASSUME NEW x \in RealInputs(r)
                 PROVE  /\ InputOf(r, x).pos < r.events[x[1]].pos
                        /\ Enters(r.leaves, InputOf(r, x))
      BY DEF SpendsExist
    <2>1. /\ x[1] \in TransferEvents(r) /\ x[2] \in Slots
          /\ Spend(r, x[1]).ins[x[2]].on
      BY DEF RealInputs
    <2>2. CASE x[1] \in DOMAIN s.events
      BY <1>1, <1>2, <2>2, OldInputs
    <2>3. CASE x[1] \notin DOMAIN s.events
      <3>1. x[1] = n
        BY <1>8, <2>1, <2>3 DEF TransferEvents
      <3>2. InputOf(r, x) = t.ins[x[2]] /\ t.ins[x[2]].on
        BY <1>7, <2>1, <3>1 DEF InputOf
      <3>3. t.ins[x[2]].pos < Len(s.leaves) /\ Enters(s.leaves, t.ins[x[2]])
        BY <1>1, <1>2, <1>3, <2>1, <3>2, VerifiedInput
      <3>4. t.ins[x[2]] \in Input
        BY <1>2, <2>1, EnvelopeParts
      <3>5. Enters(r.leaves, t.ins[x[2]])
        BY <1>1, <1>2, <3>3, <3>4, EntersStays
      <3> QED
        BY <1>6, <3>1, <3>2, <3>3, <3>5
    <2> QED
      BY <2>2, <2>3
  <1> QED
    BY <1>12, <1>13

LEMMA AcceptMintInv ==
  ASSUME NEW s, StateInv(s), NEW txid \in Mints
  PROVE  StateInv(AcceptMint(s, NextBlock(s), txid))
  <1> DEFINE r == AcceptMint(s, NextBlock(s), txid)
             new == <<MintLeaf(Carrier[txid])>>
  <1>1. StateOK(s) /\ txid \in Txid
    BY MintType DEF StateInv
  <1>2. MintLeaf(Carrier[txid]) \in Leaf
    BY MintType DEF MintLeaf, Leaf, MintEnvelope, Slots
  <1>3. new \in Seq(Leaf) /\ Len(new) > 0
    BY <1>2
  <1>4. Extended(s, r, txid, new, {})
    BY <1>1, AcceptMintExtends
  <1> HIDE DEF r, new
  <1>5. StateOK(r)
    BY <1>1, <1>3, <1>4, ExtendedOK
  <1>6. RootHistory(r) /\ CountsMatchHeights(r)
    BY <1>1, <1>3, <1>4, ExtendedRoots
  <1>7. WithinBounds(r) /\ KeepsRecent(r)
    BY <1>1, <1>3, <1>4, ExtendedBounds
  <1>8. NullifiersOnce(r) /\ SpendsExist(r)
    BY <1>3, <1>4, MintHistory
  <1> QED
    BY <1>5, <1>6, <1>7, <1>8 DEF StateInv, r

LEMMA AcceptTransferInv ==
  ASSUME NEW s, StateInv(s), NEW txid \in Transfers,
         Verdict(s, NextBlock(s), Carrier[txid]) = "accept"
  PROVE  StateInv(AcceptTransfer(s, NextBlock(s), txid))
  <1> DEFINE r == AcceptTransfer(s, NextBlock(s), txid)
             t == Carrier[txid]
             new == <<OutputLeaf(t, 0), OutputLeaf(t, 1)>>
  <1>1. StateOK(s) /\ txid \in Txid /\ t \in TransferEnvelope
    BY TransferType DEF StateInv
  <1>2. /\ OutputLeaf(t, 0) \in Leaf /\ OutputLeaf(t, 1) \in Leaf
        /\ Nfs(t) \in SUBSET Nullifier
    BY <1>1, EnvelopeParts
  <1>3. new \in Seq(Leaf) /\ Len(new) > 0
    BY <1>2
  <1>4. Extended(s, r, txid, new, Nfs(t))
    BY <1>1, AcceptTransferExtends
  <1> HIDE DEF r, new
  <1>5. StateOK(r)
    BY <1>1, <1>2, <1>3, <1>4, ExtendedOK
  <1>6. RootHistory(r) /\ CountsMatchHeights(r)
    BY <1>1, <1>3, <1>4, ExtendedRoots
  <1>7. WithinBounds(r) /\ KeepsRecent(r)
    BY <1>1, <1>3, <1>4, ExtendedBounds
  <1>8. NullifiersOnce(r) /\ SpendsExist(r)
    BY <1>3, <1>4, TransferHistory
  <1> QED
    BY <1>5, <1>6, <1>7, <1>8 DEF StateInv, r

(* A transaction of block replayed_height + 1 preserves StateInv.          *)
LEMMA ReplayTxInv ==
  ASSUME NEW s, StateInv(s), NEW txid \in Txid
  PROVE  StateInv(ReplayTx(s, NextBlock(s), txid))
  <1>1. StateOK(s) /\ NextBlock(s) \in Nat
    BY DEF StateInv, StateOK, NextBlock
  <1>2. ASSUME NEW v \in Reasons
        PROVE  StateInv(Reject(s, NextBlock(s), txid, v))
    <2> DEFINE entry == [txid |-> txid, height |-> NextBlock(s), reason |-> v]
    <2>1. entry \in Rejection
      BY <1>1 DEF Rejection
    <2>2. Logged(s, Reject(s, NextBlock(s), txid, v), entry)
      BY <1>1, RejectLogs
    <2> HIDE DEF entry
    <2> QED
      BY <2>1, <2>2, LoggedInv
  <1>3. CASE ReplayTx(s, NextBlock(s), txid) = s
    BY <1>3
  <1>4. CASE /\ txid \in Mints
             /\ ReplayTx(s, NextBlock(s), txid)
                  = AcceptMint(s, NextBlock(s), txid)
    BY <1>4, AcceptMintInv
  <1>5. CASE /\ txid \in Transfers
             /\ Verdict(s, NextBlock(s), Carrier[txid]) = "accept"
             /\ ReplayTx(s, NextBlock(s), txid)
                  = AcceptTransfer(s, NextBlock(s), txid)
    BY <1>5, AcceptTransferInv
  <1>6. CASE \E v \in Reasons : ReplayTx(s, NextBlock(s), txid)
                                  = Reject(s, NextBlock(s), txid, v)
    BY <1>2, <1>6
  <1> QED
    BY <1>3, <1>4, <1>5, <1>6, ReplayTxCases

-----------------------------------------------------------------------------
(* The end of block replayed_height + 1.                                   *)

LEMMA KeepFromGrows ==
  ASSUME NEW h \in Nat, NEW n \in Nat, n = h + 1
  PROVE  /\ KeepFrom(h) \in Nat /\ KeepFrom(n) \in Nat
         /\ KeepFrom(h) <= KeepFrom(n)
  BY ReplayConstants DEF KeepFrom

LEMMA BlockEndedInv ==
  ASSUME NEW s, StateInv(s), NEW r, NEW hash \in Seq(Block),
         BlockEnded(s, r, hash)
  PROVE  StateInv(r)
  <1> DEFINE h == NextBlock(s)
             H == Recent(h) \cup {Initial}
  <1>1. /\ StateOK(s) /\ WithinBounds(s) /\ KeepsRecent(s)
        /\ RootHistory(s) /\ CountsMatchHeights(s)
    BY DEF StateInv
  <1>2. StateOK(r)
    BY <1>1, BlockEndedOK
  <1>3. NullifiersOnce(r) /\ SpendsExist(r)
    BY SameHistoryInv DEF StateInv, BlockEnded
  <1>4. /\ s.replayed_height \in Nat /\ s.leaves \in Seq(Leaf)
        /\ Len(s.leaves) \in Nat
        /\ h = s.replayed_height + 1 /\ h \in Nat
        /\ s.replayed_height >= Initial
    BY <1>1, LenProperties DEF StateOK, NextBlock, WithinBounds
  <1>5. /\ r.leaves = s.leaves /\ r.events = s.events
        /\ r.replayed_height = h
        /\ r.roots = Keep(Put(s.roots, h, s.leaves), H)
        /\ r.leaf_counts = Keep(Put(s.leaf_counts, h, Len(s.leaves)), H)
    BY DEF BlockEnded, SameHistory
  <1> HIDE DEF h, H
  <1>6. /\ DOMAIN r.roots = (DOMAIN s.roots \cup {h}) \cap H
        /\ \A k \in DOMAIN r.roots :
             r.roots[k] = IF k = h THEN s.leaves ELSE s.roots[k]
    BY <1>5, ZenonT(60) DEF Keep, Put
  <1>7. /\ DOMAIN r.leaf_counts = (DOMAIN s.leaf_counts \cup {h}) \cap H
        /\ \A k \in DOMAIN r.leaf_counts :
             r.leaf_counts[k] = IF k = h THEN Len(s.leaves)
                                         ELSE s.leaf_counts[k]
    BY <1>5, Zenon DEF Keep, Put
  <1>8. WithinBounds(r)
    <2>1. DOMAIN r.roots \subseteq Initial..h
      BY <1>1, <1>4, <1>6, InitialNat DEF WithinBounds
    <2>2. ASSUME NEW i \in DOMAIN s.events
          PROVE  s.events[i].pos < Len(s.leaves) /\ s.events[i].height <= h + 1
      <3>1. s.events[i] \in Event
        BY <1>1, ElementOfSeq, LenProperties DEF StateOK
      <3>2. s.events[i].height \in Nat
        BY <3>1 DEF Event
      <3> QED
        BY <1>1, <1>4, <3>2 DEF WithinBounds
    <2> QED
      BY <1>4, <1>5, <2>1, <2>2, InitialNat DEF WithinBounds
  <1>9. KeepsRecent(r)
    <2> SUFFICES ASSUME NEW a \in Initial..h, a >= KeepFrom(h)
                 PROVE  a \in DOMAIN r.roots
      BY <1>5 DEF KeepsRecent
    <2>1. a \in H
      BY <1>4, InitialNat DEF H, Recent
    <2>2. CASE a = h
      BY <1>6, <2>1, <2>2
    <2>3. CASE a # h
      <3>1. KeepFrom(s.replayed_height) <= a
        <4>1. /\ KeepFrom(s.replayed_height) \in Nat /\ KeepFrom(h) \in Nat
              /\ KeepFrom(s.replayed_height) <= KeepFrom(h)
          BY <1>4, KeepFromGrows
        <4> QED
          BY <1>4, <4>1, InitialNat
      <3>2. a \in Initial..s.replayed_height
        BY <1>4, <2>3, InitialNat
      <3>3. a \in DOMAIN s.roots
        BY <1>1, <3>1, <3>2 DEF KeepsRecent
      <3> QED
        BY <1>6, <2>1, <3>3
    <2> QED
      BY <2>2, <2>3
  <1>10. RootHistory(r)
    <2>1. DOMAIN r.roots = DOMAIN r.leaf_counts
      BY <1>1, <1>6, <1>7 DEF RootHistory
    <2>2. ASSUME NEW k \in DOMAIN r.roots
          PROVE  /\ r.leaf_counts[k] <= Len(s.leaves)
                 /\ r.roots[k] = SubSeq(s.leaves, 1, r.leaf_counts[k])
      <3>1. CASE k = h
        <4>1. r.roots[k] = s.leaves /\ r.leaf_counts[k] = Len(s.leaves)
          BY <1>6, <1>7, <2>1, <3>1
        <4> QED
          BY <1>4, <4>1, SubSeqFull
      <3>2. CASE k # h
        <4>1. r.roots[k] = s.roots[k] /\ r.leaf_counts[k] = s.leaf_counts[k]
          BY <1>6, <1>7, <2>1, <3>2
        <4>2. k \in DOMAIN s.roots
          BY <1>6, <3>2
        <4> QED
          BY <1>1, <4>1, <4>2 DEF RootHistory
      <3> QED
        BY <3>1, <3>2
    <2> QED
      BY <1>5, <2>1, <2>2 DEF RootHistory
  <1>11. CountsMatchHeights(r)
    <2> SUFFICES ASSUME NEW k \in DOMAIN r.leaf_counts,
                        NEW i \in DOMAIN s.events
                 PROVE  s.events[i].pos < r.leaf_counts[k]
                          <=> s.events[i].height <= k
      BY <1>5 DEF CountsMatchHeights
    <2>1. CASE k = h
      <3>1. r.leaf_counts[k] = Len(s.leaves)
        BY <1>7, <2>1
      <3> QED
        BY <1>1, <1>4, <2>1, <3>1 DEF WithinBounds
    <2>2. CASE k # h
      <3>1. r.leaf_counts[k] = s.leaf_counts[k] /\ k \in DOMAIN s.leaf_counts
        BY <1>7, <2>2
      <3> QED
        BY <1>1, <3>1 DEF CountsMatchHeights
    <2> QED
      BY <2>1, <2>2
  <1> QED
    BY <1>2, <1>3, <1>8, <1>9, <1>10, <1>11 DEF StateInv

LEMMA EndBlockInv ==
  ASSUME NEW s, StateInv(s), NEW hash \in Seq(Block)
  PROVE  StateInv(EndBlock(s, NextBlock(s), hash))
  <1>1. BlockEnded(s, EndBlock(s, NextBlock(s), hash), hash)
    BY EndBlockEnds DEF StateInv
  <1> QED
    BY <1>1, BlockEndedInv

-----------------------------------------------------------------------------
(* What follows from StateInv.                                             *)

(* Two accepted inputs at one position of the tree would have published the *)
(* same nullifier.                                                          *)
LEMMA SpentOnce ==
  ASSUME NEW s, StateInv(s)
  PROVE  EachNoteOnce(s)
  <1> SUFFICES ASSUME NEW x \in RealInputs(s), NEW y \in RealInputs(s),
                      x # y, InputOf(s, x).pos = InputOf(s, y).pos
               PROVE  FALSE
    BY DEF EachNoteOnce
  <1>1. NullifiersOnce(s) /\ SpendsExist(s)
    BY DEF StateInv
  <1>2. /\ x \in TransferEvents(s) \X Slots
        /\ y \in TransferEvents(s) \X Slots
    BY DEF RealInputs
  <1>3. InputOf(s, x).leaf = InputOf(s, y).leaf
    BY <1>1 DEF SpendsExist, Enters
  <1>4. Nf(Spend(s, x[1]), x[2]) = Nf(Spend(s, y[1]), y[2])
    BY <1>3 DEF Nf, InputOf
  <1>5. CASE x[1] # y[1]
    <2>1. /\ Nf(Spend(s, x[1]), x[2]) \in Nfs(Spend(s, x[1]))
          /\ Nf(Spend(s, y[1]), y[2]) \in Nfs(Spend(s, y[1]))
      BY <1>2 DEF Nfs
    <2>2. Nfs(Spend(s, x[1])) \cap Nfs(Spend(s, y[1])) = {}
      BY <1>1, <1>2, <1>5 DEF NullifiersOnce
    <2> QED
      BY <1>4, <2>1, <2>2
  <1>6. CASE x[1] = y[1]
    <2>1. x[2] # y[2] /\ x[2] \in {0, 1} /\ y[2] \in {0, 1}
      BY <1>2, <1>6 DEF Slots
    <2>2. Nf(Spend(s, x[1]), 0) # Nf(Spend(s, x[1]), 1)
      BY <1>1, <1>2 DEF NullifiersOnce
    <2> QED
      BY <1>4, <1>6, <2>1, <2>2
  <1> QED
    BY <1>5, <1>6

LEMMA WindowKept ==
  ASSUME NEW s, StateInv(s)
  PROVE  WindowRetained(s)
  <1> SUFFICES ASSUME NEW a \in Initial..s.replayed_height,
                      InWindow(a, s.replayed_height + 1)
               PROVE  a \in DOMAIN s.roots
    BY DEF WindowRetained
  <1>1. s.replayed_height \in Nat /\ KeepsRecent(s)
    BY DEF StateInv, StateOK
  <1>2. a + WindowW >= s.replayed_height + 1
    BY DEF InWindow
  <1>3. a >= KeepFrom(s.replayed_height)
    BY <1>1, <1>2, ReplayConstants, InitialNat DEF KeepFrom
  <1> QED
    BY <1>1, <1>3 DEF KeepsRecent

-----------------------------------------------------------------------------
(* Sums over finite sets of positions or events.  Induction: of the finite  *)
(* sets in F some one has no smaller set of F inside.                       *)

LessThan == {ss \in Nat \X Nat : ss[1] < ss[2]}

LEMMA LeastNumber ==
  ASSUME NEW T, T \subseteq Nat, T # {}
  PROVE  \E k \in T : \A i \in T : k <= i
  <1>1. IsWellFoundedOn(LessThan, Nat)
    BY NatLessThanWellFounded, Zenon DEF OpToRel, LessThan
  <1>2. PICK k \in T : \A i \in T : ~(<<i, k>> \in LessThan)
    BY <1>1, WFMin
  <1>3. ASSUME NEW i \in T PROVE k <= i
    <2>1. i \in Nat /\ k \in Nat /\ ~(<<i, k>> \in LessThan)
      BY <1>2
    <2>2. i < k => <<i, k>> \in LessThan
      BY <2>1 DEF LessThan
    <2> QED
      BY <2>1, <2>2
  <1> QED
    BY <1>3

LEMMA SmallestSet ==
  ASSUME NEW F, F # {}, \A t \in F : IsFiniteSet(t)
  PROVE  \E t \in F : \A x \in t : t \ {x} \notin F
  <1> DEFINE sizes == {Cardinality(t) : t \in F}
  <1>1. sizes \subseteq Nat /\ sizes # {}
    BY FS_CardinalityType
  <1>2. PICK n \in sizes : \A m \in sizes : n <= m
    BY <1>1, LeastNumber
  <1>3. PICK t \in F : Cardinality(t) = n
    OBVIOUS
  <1>4. ASSUME NEW x \in t, t \ {x} \in F PROVE FALSE
    <2>1. Cardinality(t \ {x}) = n - 1 /\ n \in Nat
      BY <1>1, <1>3, FS_RemoveElement
    <2>2. Cardinality(t \ {x}) \in sizes
      BY <1>4
    <2> QED
      BY <1>2, <2>1, <2>2
  <1> QED
    BY <1>4

(* g is the table that SumFunctionOnSet folds with: of every subset the sum  *)
(* of the values of f.                                                      *)
One(t) == CHOOSE x \in t : TRUE
Row(g, f, t) == IF t = {} THEN 0 ELSE f[One(t)] + g[t \ {One(t)}]
Table(g, f, S) == g = [t \in SUBSET S |-> Row(g, f, t)]

LEMMA TableRow ==
  ASSUME NEW S, NEW f, NEW g, Table(g, f, S), NEW t \in SUBSET S
  PROVE  g[t] = Row(g, f, t)
  <1> DEFINE h == [u \in SUBSET S |-> Row(g, f, u)]
  <1>1. h[t] = Row(g, f, t)
    OBVIOUS
  <1>2. g = h
    BY DEF Table
  <1> QED
    BY <1>1, <1>2

LEMMA OneIn == ASSUME NEW t, t # {} PROVE One(t) \in t
  BY DEF One

LEMMA TableExists ==
  ASSUME NEW S, IsFiniteSet(S), NEW f
  PROVE  \E g : Table(g, f, S)
  <1> DEFINE Small(n) == {t \in SUBSET S : Cardinality(t) <= n}
             Partial(g, n) == \A t \in Small(n) : g[t] = Row(g, f, t)
             Bad == {n \in Nat : ~\E g : Partial(g, n)}
  <1>0. \A t \in SUBSET S : IsFiniteSet(t) /\ Cardinality(t) \in Nat
    BY FS_Subset, FS_CardinalityType
  <1>1. Bad = {}
    <2> SUFFICES ASSUME Bad # {} PROVE FALSE
      OBVIOUS
    <2>1. PICK n \in Bad : \A m \in Bad : n <= m
      BY LeastNumber
    <2>2. CASE n = 0
      <3> DEFINE g == [t \in {{}} |-> 0]
      <3>1. \A t \in Small(0) : t = {}
        BY <1>0, FS_EmptySet
      <3>2. Partial(g, 0)
        BY <3>1 DEF Row
      <3> QED
        BY <2>1, <2>2, <3>2
    <2>3. CASE n # 0
      <3>1. n - 1 \in Nat /\ n \in Nat /\ n - 1 \notin Bad
        BY <2>1, <2>3
      <3>2. PICK g : Partial(g, n - 1)
        BY <3>1
      <3> DEFINE h == [t \in SUBSET S |-> Row(g, f, t)]
      <3>3. ASSUME NEW t \in Small(n) PROVE h[t] = Row(h, f, t)
        <4>1. h[t] = Row(g, f, t)
          OBVIOUS
        <4>2. CASE t = {}
          BY <4>1, <4>2 DEF Row
        <4>3. CASE t # {}
          <5> DEFINE u == t \ {One(t)}
          <5>1. One(t) \in t
            BY <4>3, OneIn
          <5>2. u \in SUBSET S /\ Cardinality(u) = Cardinality(t) - 1
            BY <1>0, <5>1, FS_RemoveElement
          <5>3. u \in Small(n - 1)
            BY <1>0, <3>1, <5>2
          <5>4. h[u] = g[u]
            <6>1. h[u] = Row(g, f, u)
              BY <5>2
            <6>2. g[u] = Row(g, f, u)
              BY <3>2, <5>3
            <6> QED
              BY <6>1, <6>2
          <5> HIDE DEF h
          <5> QED
            BY <4>1, <4>3, <5>4 DEF Row
        <4> QED
          BY <4>2, <4>3
      <3> HIDE DEF h
      <3>4. Partial(h, n)
        BY <3>3
      <3> QED
        BY <2>1, <3>4
    <2> QED
      BY <2>2, <2>3
  <1>2. Cardinality(S) \in Nat
    BY FS_CardinalityType
  <1>3. PICK g : Partial(g, Cardinality(S))
    BY <1>1, <1>2
  <1>4. \A t \in SUBSET S : t \in Small(Cardinality(S))
    BY FS_Subset
  <1> DEFINE h == [t \in SUBSET S |-> g[t]]
  <1>5. ASSUME NEW t \in SUBSET S PROVE h[t] = Row(h, f, t)
    <2>1. g[t] = Row(g, f, t)
      BY <1>3, <1>4
    <2>2. h[t] = g[t] /\ h[t \ {One(t)}] = g[t \ {One(t)}]
      OBVIOUS
    <2> HIDE DEF h
    <2> QED
      BY <2>1, <2>2 DEF Row
  <1>6. Table(h, f, S)
    <2>1. h = [t \in SUBSET S |-> h[t]]
      OBVIOUS
    <2> HIDE DEF h
    <2>2. [t \in SUBSET S |-> h[t]] = [t \in SUBSET S |-> Row(h, f, t)]
      BY <1>5
    <2> QED
      BY <2>1, <2>2 DEF Table
  <1> QED
    BY <1>6

LEMMA SumIsTabled ==
  ASSUME NEW S, IsFiniteSet(S), NEW f
  PROVE  \E g : Table(g, f, S) /\ SumFunctionOnSet(f, S) = g[S]
  <1> DEFINE g == CHOOSE g : Table(g, f, S)
  <1>1. Table(g, f, S)
    BY TableExists
  <1>2. SumFunctionOnSet(f, S) = g[S]
    BY DEF SumFunctionOnSet, FoldFunctionOnSet, MapThenFoldSet, Table, Row, One
  <1> QED
    BY <1>1, <1>2

(* Two tables agree on what both are about.                                 *)
LEMMA TablesAgree ==
  ASSUME NEW S, IsFiniteSet(S), NEW T, NEW f, NEW g, NEW x, NEW y,
         Table(x, f, S), Table(y, g, T),
         NEW t \in SUBSET (S \cap T), \A i \in t : f[i] = g[i]
  PROVE  x[t] = y[t]
  <1> DEFINE Bad == {u \in SUBSET t : x[u] # y[u]}
  <1> SUFFICES ASSUME Bad # {} PROVE FALSE
    OBVIOUS
  <1>1. PICK u \in Bad : \A i \in u : u \ {i} \notin Bad
    <2>1. \A u \in Bad : IsFiniteSet(u)
      BY FS_Subset
    <2> QED
      BY <2>1, SmallestSet
  <1>2. x[u] = Row(x, f, u) /\ y[u] = Row(y, g, u)
    BY TableRow
  <1>3. u # {}
    BY <1>1, <1>2 DEF Row
  <1>4. One(u) \in u
    BY <1>3, OneIn
  <1>5. f[One(u)] = g[One(u)] /\ x[u \ {One(u)}] = y[u \ {One(u)}]
    BY <1>1, <1>4
  <1> QED
    BY <1>1, <1>2, <1>3, <1>5 DEF Row

LEMMA SumFromTable ==
  ASSUME NEW S, IsFiniteSet(S), NEW f, NEW g, Table(g, f, S), NEW t \in SUBSET S
  PROVE  SumFunctionOnSet(f, t) = g[t]
  <1>1. IsFiniteSet(t)
    BY FS_Subset
  <1>2. PICK h : Table(h, f, t) /\ SumFunctionOnSet(f, t) = h[t]
    BY <1>1, SumIsTabled
  <1> QED
    BY <1>1, <1>2, TablesAgree

(* The sum depends on the values of the members alone.                      *)
LEMMA SumSame ==
  ASSUME NEW S, IsFiniteSet(S), NEW f, NEW g, \A i \in S : f[i] = g[i]
  PROVE  SumFunctionOnSet(f, S) = SumFunctionOnSet(g, S)
  <1>1. PICK x : Table(x, f, S) /\ SumFunctionOnSet(f, S) = x[S]
    BY SumIsTabled
  <1>2. PICK y : Table(y, g, S) /\ SumFunctionOnSet(g, S) = y[S]
    BY SumIsTabled
  <1> QED
    BY <1>1, <1>2, TablesAgree

LEMMA SumEmpty == \A f : SumFunctionOnSet(f, {}) = 0
  <1> TAKE f
  <1>1. PICK x : Table(x, f, {}) /\ SumFunctionOnSet(f, {}) = x[{}]
    BY SumIsTabled, FS_EmptySet
  <1> QED
    BY <1>1, TableRow DEF Row

LEMMA SumNat ==
  ASSUME NEW S, IsFiniteSet(S), NEW f, \A i \in S : f[i] \in Nat
  PROVE  SumFunctionOnSet(f, S) \in Nat
  <1>1. PICK g : Table(g, f, S) /\ SumFunctionOnSet(f, S) = g[S]
    BY SumIsTabled
  <1> DEFINE Bad == {u \in SUBSET S : g[u] \notin Nat}
  <1> SUFFICES ASSUME Bad # {} PROVE FALSE
    BY <1>1
  <1>2. PICK u \in Bad : \A i \in u : u \ {i} \notin Bad
    <2>1. \A u \in Bad : IsFiniteSet(u)
      BY FS_Subset
    <2> QED
      BY <2>1, SmallestSet
  <1>3. g[u] = Row(g, f, u)
    BY <1>1, TableRow
  <1>4. u # {}
    BY <1>2, <1>3 DEF Row
  <1>5. One(u) \in u
    BY <1>4, OneIn
  <1>6. f[One(u)] \in Nat /\ g[u \ {One(u)}] \in Nat
    BY <1>2, <1>5
  <1> QED
    BY <1>2, <1>3, <1>4, <1>6 DEF Row

(* Any member may be taken out first.                                       *)
LEMMA SumRemove ==
  ASSUME NEW S, IsFiniteSet(S), NEW f, \A i \in S : f[i] \in Nat, NEW k \in S
  PROVE  SumFunctionOnSet(f, S) = f[k] + SumFunctionOnSet(f, S \ {k})
  <1>1. PICK g : Table(g, f, S) /\ SumFunctionOnSet(f, S) = g[S]
    BY SumIsTabled
  <1>2. \A u \in SUBSET S : g[u] \in Nat
    <2> TAKE u \in SUBSET S
    <2>1. IsFiniteSet(u)
      BY FS_Subset
    <2>2. SumFunctionOnSet(f, u) \in Nat
      BY <2>1, SumNat
    <2> QED
      BY <1>1, <2>2, SumFromTable
  <1> DEFINE Bad == {u \in SUBSET S : \E i \in u : g[u] # f[i] + g[u \ {i}]}
  <1>3. Bad = {}
    <2> SUFFICES ASSUME Bad # {} PROVE FALSE
      OBVIOUS
    <2>1. PICK u \in Bad : \A i \in u : u \ {i} \notin Bad
      <3>1. \A u \in Bad : IsFiniteSet(u)
        BY FS_Subset
      <3> QED
        BY <3>1, SmallestSet
    <2>2. PICK i \in u : g[u] # f[i] + g[u \ {i}]
      OBVIOUS
    <2> DEFINE one == One(u)
    <2>3. one \in u /\ g[u] = f[one] + g[u \ {one}]
      <3>1. g[u] = Row(g, f, u)
        BY <1>1, TableRow
      <3> QED
        BY <2>2, <3>1, OneIn DEF Row
    <2> HIDE DEF one
    <2>4. one # i
      BY <2>2, <2>3
    <2>5. g[u \ {one}] = f[i] + g[(u \ {one}) \ {i}]
      BY <2>1, <2>3, <2>4
    <2>6. g[u \ {i}] = f[one] + g[(u \ {i}) \ {one}]
      BY <2>1, <2>3, <2>4
    <2>7. g[(u \ {one}) \ {i}] = g[(u \ {i}) \ {one}]
      <3>1. (u \ {one}) \ {i} = (u \ {i}) \ {one}
        OBVIOUS
      <3> QED
        BY <3>1
    <2>8. f[i] \in Nat /\ f[one] \in Nat /\ g[(u \ {i}) \ {one}] \in Nat
      BY <1>2, <2>3
    <2> HIDE DEF Bad
    <2>9. f[one] + g[u \ {one}] = f[i] + g[u \ {i}]
      BY <2>5, <2>6, <2>7, <2>8
    <2> QED
      BY <2>2, <2>3, <2>9
  <1>4. g[S] = f[k] + g[S \ {k}]
    BY <1>3
  <1> QED
    BY <1>1, <1>4, SumFromTable

LEMMA SumAdd ==
  ASSUME NEW S, IsFiniteSet(S), NEW f, NEW k, k \notin S, \A i \in S \cup {k} : f[i] \in Nat
  PROVE  SumFunctionOnSet(f, S \cup {k}) = f[k] + SumFunctionOnSet(f, S)
  <1>1. IsFiniteSet(S \cup {k}) /\ (S \cup {k}) \ {k} = S
    BY FS_AddElement
  <1> QED
    BY <1>1, SumRemove

LEMMA SumGrows ==
  ASSUME NEW S, IsFiniteSet(S), NEW f, \A i \in S : f[i] \in Nat, NEW T \in SUBSET S
  PROVE  SumFunctionOnSet(f, T) <= SumFunctionOnSet(f, S)
  <1> DEFINE Bad == {u \in SUBSET S : /\ T \subseteq u
                                      /\ ~(SumFunctionOnSet(f, T) <= SumFunctionOnSet(f, u))}
  <1> SUFFICES ASSUME Bad # {} PROVE FALSE
    OBVIOUS
  <1>0. \A u \in SUBSET S : IsFiniteSet(u) /\ SumFunctionOnSet(f, u) \in Nat
    <2> TAKE u \in SUBSET S
    <2>1. IsFiniteSet(u)
      BY FS_Subset
    <2> QED
      BY <2>1, SumNat
  <1>1. PICK u \in Bad : \A i \in u : u \ {i} \notin Bad
    BY <1>0, SmallestSet
  <1>2. PICK i \in u : i \notin T
    BY <1>0, <1>1
  <1>3. SumFunctionOnSet(f, T) <= SumFunctionOnSet(f, u \ {i})
    BY <1>1, <1>2
  <1>4. SumFunctionOnSet(f, u) = f[i] + SumFunctionOnSet(f, u \ {i})
    BY <1>0, SumRemove
  <1>5. /\ f[i] \in Nat /\ SumFunctionOnSet(f, u \ {i}) \in Nat
        /\ SumFunctionOnSet(f, T) \in Nat
    BY <1>0
  <1>6. SumFunctionOnSet(f, T) <= SumFunctionOnSet(f, u)
    BY <1>3, <1>4, <1>5
  <1> QED
    BY <1>1, <1>6

-----------------------------------------------------------------------------
(* NoInflation.  A mint adds its leaf to the unspent notes and its payment   *)
(* to the vault; a transfer takes its enabled inputs out of the unspent      *)
(* notes and adds two leaves of the same value.                             *)

LEMMA Valued ==
  ASSUME NEW s, StateOK(s)
  PROVE  /\ Len(s.leaves) \in Nat /\ DOMAIN s.leaves = 1..Len(s.leaves)
         /\ Unspent(s) \subseteq DOMAIN s.leaves /\ IsFiniteSet(Unspent(s))
         /\ \A p \in DOMAIN s.leaves :
              LeafValues(s)[p] = s.leaves[p].v /\ LeafValues(s)[p] \in Nat
  <1>1. s.leaves \in Seq(Leaf)
    BY DEF StateOK
  <1>2. Len(s.leaves) \in Nat /\ DOMAIN s.leaves = 1..Len(s.leaves)
    BY <1>1, LenProperties
  <1>3. \A p \in DOMAIN s.leaves : s.leaves[p] \in Leaf
    BY <1>1, <1>2, ElementOfSeq
  <1>4. Unspent(s) \subseteq DOMAIN s.leaves
    BY DEF Unspent
  <1>5. IsFiniteSet(Unspent(s))
    <2>1. IsFiniteSet(1..Len(s.leaves))
      BY <1>2, FS_Interval
    <2> QED
      BY <1>2, <1>4, <2>1, FS_Subset
  <1> QED
    BY <1>2, <1>3, <1>4, <1>5 DEF LeafValues, Leaf

LEMMA Paying ==
  ASSUME NEW s, StateOK(s)
  PROVE  /\ DOMAIN Payments(s) = MintEvents(s) /\ IsFiniteSet(MintEvents(s))
         /\ \A i \in MintEvents(s) : Payments(s)[i] \in Nat
  <1>1. s.events \in Seq(Event)
    BY DEF StateOK
  <1>2. Len(s.events) \in Nat /\ DOMAIN s.events = 1..Len(s.events)
    BY <1>1, LenProperties
  <1>3. MintEvents(s) \subseteq DOMAIN s.events
    BY DEF MintEvents
  <1>4. IsFiniteSet(MintEvents(s))
    <2>1. IsFiniteSet(1..Len(s.events))
      BY <1>2, FS_Interval
    <2> QED
      BY <1>2, <1>3, <2>1, FS_Subset
  <1>5. ASSUME NEW i \in MintEvents(s) PROVE Payments(s)[i] \in Nat
    <2>1. Carrier[s.events[i].txid] \in MintEnvelope
      BY MintType DEF MintEvents
    <2> QED
      BY <2>1 DEF Payments, MintEnvelope
  <1> QED
    BY <1>4, <1>5 DEF Payments

LEMMA FreshSolvent == NoInflation(Fresh)
  <1>1. Fresh.leaves = <<>> /\ Fresh.events = <<>>
    BY DEF Fresh
  <1> HIDE DEF Fresh
  <1>2. Unspent(Fresh) = {} /\ MintEvents(Fresh) = {}
    BY <1>1 DEF Unspent, MintEvents
  <1>3. DOMAIN Payments(Fresh) = {}
    BY <1>2 DEF Payments
  <1> QED
    BY <1>2, <1>3, SumEmpty DEF NoInflation, SumFunction

LEMMA SameHistorySolvent ==
  ASSUME NEW s, NEW r, SameHistory(s, r), NoInflation(s)
  PROVE  NoInflation(r)
  <1>1. LeafValues(r) = LeafValues(s) /\ Unspent(r) = Unspent(s)
    BY DEF SameHistory, LeafValues, Unspent
  <1>2. Payments(r) = Payments(s)
    BY DEF SameHistory, Payments, MintEvents
  <1> QED
    BY <1>1, <1>2 DEF NoInflation

(* The leaves of an extended state, and what of them may be unspent.        *)
LEMMA ExtendedValues ==
  ASSUME NEW s, StateOK(s), NEW r, StateOK(r), NEW txid,
         NEW new \in Seq(Leaf), NEW nfs, Extended(s, r, txid, new, nfs)
  PROVE  /\ \A p \in DOMAIN s.leaves :
              /\ p \in DOMAIN r.leaves /\ LeafValues(r)[p] = LeafValues(s)[p]
              /\ p \in Unspent(r) => p \in Unspent(s)
         /\ \A p \in Unspent(r) :
              \/ p \in DOMAIN s.leaves
              \/ p \in (Len(s.leaves) + 1)..(Len(s.leaves) + Len(new))
  <1>1. /\ Len(s.leaves) \in Nat /\ Len(new) \in Nat
        /\ Len(r.leaves) = Len(s.leaves) + Len(new)
        /\ \A i \in 1..Len(s.leaves) : r.leaves[i] = s.leaves[i]
    BY ExtendedLeaves
  <1>2. DOMAIN s.leaves = 1..Len(s.leaves) /\ DOMAIN r.leaves = 1..Len(r.leaves)
    BY Valued
  <1>3. ASSUME NEW p \in DOMAIN s.leaves
        PROVE  /\ p \in DOMAIN r.leaves /\ LeafValues(r)[p] = LeafValues(s)[p]
               /\ p \in Unspent(r) => p \in Unspent(s)
    <2>1. p \in DOMAIN r.leaves /\ r.leaves[p] = s.leaves[p]
      BY <1>1, <1>2
    <2>2. s.nullifiers \subseteq r.nullifiers
      BY DEF Extended
    <2> QED
      BY <2>1, <2>2 DEF LeafValues, Unspent
  <1>4. ASSUME NEW p \in Unspent(r)
        PROVE  \/ p \in DOMAIN s.leaves
               \/ p \in (Len(s.leaves) + 1)..(Len(s.leaves) + Len(new))
    <2>1. p \in 1..Len(r.leaves)
      BY <1>2 DEF Unspent
    <2> QED
      BY <1>1, <1>2, <2>1
  <1> QED
    BY <1>3, <1>4

LEMMA NewValue ==
  ASSUME NEW s, StateOK(s), NEW r, StateOK(r), NEW txid,
         NEW new \in Seq(Leaf), NEW nfs, Extended(s, r, txid, new, nfs),
         NEW k \in 1..Len(new), NEW p, p = Len(s.leaves) + k
  PROVE  p \in DOMAIN r.leaves /\ p \notin DOMAIN s.leaves /\ LeafValues(r)[p] = new[k].v
  <1>1. /\ Len(s.leaves) \in Nat /\ Len(new) \in Nat
        /\ Len(r.leaves) = Len(s.leaves) + Len(new)
    BY ExtendedLeaves
  <1>2. DOMAIN s.leaves = 1..Len(s.leaves) /\ DOMAIN r.leaves = 1..Len(r.leaves)
    BY Valued
  <1>3. s.leaves \in Seq(Leaf) /\ r.leaves = s.leaves \o new
    BY DEF StateOK, Extended
  <1>4. r.leaves[p] = new[k]
    BY <1>1, <1>3, ConcatProperties
  <1>5. p \in 1..Len(r.leaves) /\ p \notin 1..Len(s.leaves)
    BY <1>1
  <1> QED
    BY <1>2, <1>4, <1>5 DEF LeafValues

(* What the mints of an extended state paid.                                *)
LEMMA TransferPaysNothing ==
  ASSUME NEW s, StateOK(s), NEW r, StateOK(r), NEW txid \in Transfers,
         NEW new, NEW nfs, Extended(s, r, txid, new, nfs)
  PROVE  SumFunction(Payments(r)) = SumFunction(Payments(s))
  <1>0. txid \in Txid
    BY TransferType
  <1>1. MintEvents(r) = MintEvents(s)
    <2>1. ASSUME NEW i \in MintEvents(r) PROVE i \in DOMAIN s.events
      <3>1. i \in DOMAIN r.events /\ r.events[i].txid \in Mints
        BY DEF MintEvents
      <3>2. i \notin DOMAIN s.events => r.events[i] = EventAt(s, txid)
        BY <1>0, <3>1, ExtendedEvents, ZenonT(60)
      <3>3. EventAt(s, txid).txid = txid
        BY DEF EventAt
      <3> QED
        BY <3>1, <3>2, <3>3, MintNotTransfer
    <2>2. \A i \in DOMAIN s.events : i \in DOMAIN r.events /\ r.events[i] = s.events[i]
      BY <1>0, ExtendedEvents
    <2> QED
      BY <2>1, <2>2 DEF MintEvents
  <1>2. \A i \in MintEvents(s) : r.events[i] = s.events[i]
    BY <1>0, ExtendedEvents DEF MintEvents
  <1>3. \A i \in MintEvents(s) : Payments(r)[i] = Payments(s)[i]
    BY <1>1, <1>2 DEF Payments
  <1> QED
    BY <1>1, <1>3, Paying, SumSame DEF SumFunction

LEMMA MintPays ==
  ASSUME NEW s, StateOK(s), NEW r, StateOK(r), NEW txid \in Mints,
         NEW new, NEW nfs, Extended(s, r, txid, new, nfs)
  PROVE  SumFunction(Payments(r)) = Carrier[txid].value + SumFunction(Payments(s))
  <1>0. txid \in Txid
    BY MintType
  <1>1. PICK n : n \in DOMAIN r.events /\ n \notin DOMAIN s.events
    BY <1>0, ExtendedEvents
  <1>2. r.events[n].txid = txid
    <2>1. r.events[n] = EventAt(s, txid)
      BY <1>0, <1>1, ExtendedEvents, ZenonT(60)
    <2> QED
      BY <2>1 DEF EventAt
  <1>3. \A i \in DOMAIN s.events : i \in DOMAIN r.events /\ r.events[i] = s.events[i]
    BY <1>0, ExtendedEvents
  <1>4. \A i \in DOMAIN r.events : i \in DOMAIN s.events \/ i = n
    BY <1>0, <1>1, ExtendedEvents
  <1>5. MintEvents(r) = MintEvents(s) \cup {n} /\ n \notin MintEvents(s)
    BY <1>1, <1>2, <1>3, <1>4 DEF MintEvents
  <1>6. \A i \in MintEvents(s) : Payments(r)[i] = Payments(s)[i]
    BY <1>3, <1>5 DEF Payments, MintEvents
  <1>7. Payments(r)[n] = Carrier[txid].value
    BY <1>2, <1>5 DEF Payments
  <1>8. SumFunctionOnSet(Payments(r), MintEvents(s) \cup {n})
          = Payments(r)[n] + SumFunctionOnSet(Payments(r), MintEvents(s))
    BY <1>5, Paying, SumAdd
  <1>9. SumFunctionOnSet(Payments(r), MintEvents(s))
          = SumFunctionOnSet(Payments(s), MintEvents(s))
    BY <1>6, Paying, SumSame
  <1> QED
    BY <1>5, <1>7, <1>8, <1>9, Paying DEF SumFunction

LEMMA MintSolvent ==
  ASSUME NEW s, StateOK(s), NoInflation(s), NEW r, StateOK(r), NEW txid \in Mints,
         Extended(s, r, txid, <<MintLeaf(Carrier[txid])>>, {})
  PROVE  NoInflation(r)
  <1> DEFINE leaf == MintLeaf(Carrier[txid])
             new == <<leaf>>
             p == Len(s.leaves) + 1
             old == Unspent(s)
  <1>1. leaf \in Leaf /\ leaf.v = Carrier[txid].value
    BY MintType DEF MintLeaf, Leaf, MintEnvelope, Slots
  <1>2. new \in Seq(Leaf) /\ Len(new) = 1 /\ new[1] = leaf
    BY <1>1
  <1>3. Extended(s, r, txid, new, {}) /\ Len(s.leaves) \in Nat
    BY Valued
  <1> HIDE DEF new, leaf
  <1>4. /\ \A q \in old : q \in DOMAIN r.leaves /\ LeafValues(r)[q] = LeafValues(s)[q]
        /\ \A q \in Unspent(r) : q \in old \/ q = p
        /\ p \in DOMAIN r.leaves /\ p \notin old
        /\ LeafValues(r)[p] = Carrier[txid].value
    <2>1. old \subseteq DOMAIN s.leaves /\ 1 \in 1..Len(new)
      BY <1>2, Valued
    <2>2. \A x \in (Len(s.leaves) + 1)..(Len(s.leaves) + Len(new)) : x = p
      BY <1>2, <1>3
    <2>3. ASSUME NEW x \in DOMAIN s.leaves
          PROVE  /\ x \in DOMAIN r.leaves /\ LeafValues(r)[x] = LeafValues(s)[x]
                 /\ x \in Unspent(r) => x \in Unspent(s)
      BY <1>2, <1>3, ExtendedValues
    <2>4. ASSUME NEW x \in Unspent(r) PROVE x \in DOMAIN s.leaves \/ x = p
      BY <1>2, <1>3, <2>2, ExtendedValues
    <2>5. /\ p \in DOMAIN r.leaves /\ p \notin DOMAIN s.leaves
          /\ LeafValues(r)[p] = new[1].v
      <3>1. p = Len(s.leaves) + 1
        OBVIOUS
      <3> HIDE DEF p
      <3> QED
        BY <1>2, <1>3, <2>1, <3>1, NewValue
    <2> HIDE DEF p
    <2> QED
      BY <1>1, <1>2, <2>1, <2>3, <2>4, <2>5
  <1> HIDE DEF p, old
  <1>5. IsFiniteSet(old) /\ IsFiniteSet(old \cup {p})
    BY Valued, FS_AddElement DEF old
  <1>6. \A q \in old \cup {p} : LeafValues(r)[q] \in Nat
    BY <1>4, Valued
  <1>7. SumFunctionOnSet(LeafValues(r), Unspent(r))
          <= SumFunctionOnSet(LeafValues(r), old \cup {p})
    BY <1>4, <1>5, <1>6, SumGrows
  <1>8. SumFunctionOnSet(LeafValues(r), old \cup {p})
          = Carrier[txid].value + SumFunctionOnSet(LeafValues(r), old)
    BY <1>4, <1>5, <1>6, SumAdd
  <1>9. SumFunctionOnSet(LeafValues(r), old) = SumFunctionOnSet(LeafValues(s), old)
    BY <1>4, <1>5, SumSame
  <1>10. SumFunction(Payments(r)) = Carrier[txid].value + SumFunction(Payments(s))
    BY <1>3, MintPays
  <1>11. /\ SumFunctionOnSet(LeafValues(s), old) \in Nat
         /\ SumFunctionOnSet(LeafValues(r), Unspent(r)) \in Nat
         /\ SumFunction(Payments(s)) \in Nat /\ Carrier[txid].value \in Nat
    <2>1. SumFunctionOnSet(LeafValues(s), old) \in Nat
      BY <1>4, <1>5, <1>6, SumNat
    <2>2. SumFunctionOnSet(LeafValues(r), Unspent(r)) \in Nat
      BY Valued, SumNat
    <2>3. SumFunction(Payments(s)) \in Nat
      BY Paying, SumNat DEF SumFunction
    <2> QED
      BY <1>1, <2>1, <2>2, <2>3, MintType DEF MintEnvelope
  <1>12. SumFunctionOnSet(LeafValues(s), old) <= SumFunction(Payments(s))
    BY DEF NoInflation, old
  <1>13. SumFunctionOnSet(LeafValues(r), Unspent(r)) <= SumFunction(Payments(r))
    BY <1>7, <1>8, <1>9, <1>10, <1>11, <1>12
  <1> QED
    BY <1>13 DEF NoInflation

(* An enabled input is an unspent leaf.                                     *)
LEMMA InputUnspent ==
  ASSUME NEW s, StateInv(s), NEW t \in TransferEnvelope,
         t.anchor \in DOMAIN s.roots, Nfs(t) \cap s.nullifiers = {},
         Verify(s.roots[t.anchor], t), NEW k \in Slots, t.ins[k].on
  PROVE  /\ t.ins[k].pos + 1 \in Unspent(s) /\ t.ins[k].pos \in Nat
         /\ LeafValues(s)[t.ins[k].pos + 1] = InValue(t, k)
         /\ s.leaves[t.ins[k].pos + 1] = t.ins[k].leaf
         /\ t.ins[k].leaf = s.leaves[t.ins[k].pos + 1]
  <1>1. StateOK(s) /\ RootHistory(s)
    BY DEF StateInv
  <1>2. t.ins[k].pos < Len(s.leaves) /\ s.leaves[t.ins[k].pos + 1] = t.ins[k].leaf
    BY <1>1, VerifiedInput DEF Enters
  <1>3. t.ins[k].pos \in Nat
    BY EnvelopeParts DEF Input
  <1>4. Len(s.leaves) \in Nat /\ DOMAIN s.leaves = 1..Len(s.leaves)
    BY <1>1, Valued
  <1>5. t.ins[k].pos + 1 \in DOMAIN s.leaves /\ (t.ins[k].pos + 1) - 1 = t.ins[k].pos
    BY <1>2, <1>3, <1>4
  <1>6. Nf(t, k) \notin s.nullifiers
    BY DEF Nfs
  <1> QED
    BY <1>2, <1>3, <1>5, <1>6 DEF Unspent, Nf, InValue, LeafValues

(* Taking an input out of the unspent notes, if it is one.                  *)
Without(A, t, k) == IF t.ins[k].on THEN A \ {t.ins[k].pos + 1} ELSE A

LEMMA TakeInput ==
  ASSUME NEW A, IsFiniteSet(A), NEW f, \A p \in A : f[p] \in Nat,
         NEW t \in TransferEnvelope, NEW k \in Slots,
         t.ins[k].on => t.ins[k].pos + 1 \in A /\ f[t.ins[k].pos + 1] = InValue(t, k)
  PROVE  /\ SumFunctionOnSet(f, A) = InValue(t, k) + SumFunctionOnSet(f, Without(A, t, k))
         /\ IsFiniteSet(Without(A, t, k)) /\ Without(A, t, k) \subseteq A
         /\ SumFunctionOnSet(f, Without(A, t, k)) \in Nat /\ InValue(t, k) \in Nat
  <1>1. IsFiniteSet(Without(A, t, k)) /\ Without(A, t, k) \subseteq A
    BY FS_RemoveElement DEF Without
  <1>2. SumFunctionOnSet(f, Without(A, t, k)) \in Nat
    BY <1>1, SumNat
  <1>3. InValue(t, k) \in Nat
    BY EnvelopeParts DEF InValue, Input, Leaf
  <1>4. CASE t.ins[k].on
    <2>1. SumFunctionOnSet(f, A)
            = f[t.ins[k].pos + 1] + SumFunctionOnSet(f, A \ {t.ins[k].pos + 1})
      BY <1>4, SumRemove
    <2> QED
      BY <1>1, <1>2, <1>3, <1>4, <2>1 DEF Without
  <1>5. CASE ~t.ins[k].on
    BY <1>1, <1>2, <1>3, <1>5 DEF Without, InValue
  <1> QED
    BY <1>4, <1>5

LEMMA TransferSolvent ==
  ASSUME NEW s, StateInv(s), NoInflation(s), NEW r, StateOK(r),
         NEW txid \in Transfers, NEW h, NEW t, t = Carrier[txid],
         Verdict(s, h, t) = "accept",
         Extended(s, r, txid, <<OutputLeaf(t, 0), OutputLeaf(t, 1)>>, Nfs(t))
  PROVE  NoInflation(r)
  <1> DEFINE new == <<OutputLeaf(t, 0), OutputLeaf(t, 1)>>
             p == Len(s.leaves) + 1
             q == Len(s.leaves) + 2
             f == LeafValues(s)
             g == LeafValues(r)
             first == Without(Unspent(s), t, 0)
             old == Without(first, t, 1)
             N == SumFunctionOnSet(f, old)
  <1>1. StateOK(s) /\ t \in TransferEnvelope /\ 0 \in Slots /\ 1 \in Slots
    BY TransferType DEF StateInv, Slots
  <1>2. /\ t.anchor \in DOMAIN s.roots /\ Nf(t, 0) # Nf(t, 1)
        /\ Nfs(t) \cap s.nullifiers = {} /\ Verify(s.roots[t.anchor], t)
    BY AcceptedTransfer
  <1>3. /\ new \in Seq(Leaf) /\ Len(new) = 2
        /\ new[1].v = t.outs[0] /\ new[2].v = t.outs[1]
    <2>1. OutputLeaf(t, 0) \in Leaf /\ OutputLeaf(t, 1) \in Leaf
      BY <1>1, EnvelopeParts
    <2> QED
      BY <2>1 DEF OutputLeaf
  <1>4. Extended(s, r, txid, new, Nfs(t)) /\ Len(s.leaves) \in Nat
    BY <1>1, Valued
  <1>5. t.outs[0] \in Nat /\ t.outs[1] \in Nat
    BY <1>1 DEF TransferEnvelope
  <1> HIDE DEF new
  <1>6. /\ \A x \in DOMAIN s.leaves :
              /\ x \in DOMAIN r.leaves /\ g[x] = f[x]
              /\ x \in Unspent(r) => x \in Unspent(s)
        /\ \A x \in Unspent(r) : x \in DOMAIN s.leaves \/ x = p \/ x = q
        /\ p \in DOMAIN r.leaves /\ p \notin DOMAIN s.leaves /\ g[p] = t.outs[0]
        /\ q \in DOMAIN r.leaves /\ q \notin DOMAIN s.leaves /\ g[q] = t.outs[1]
    <2>1. 1 \in 1..Len(new) /\ 2 \in 1..Len(new)
      BY <1>3
    <2>2. \A x \in (Len(s.leaves) + 1)..(Len(s.leaves) + Len(new)) : x = p \/ x = q
      BY <1>3, <1>4
    <2> QED
      <3>0. p = Len(s.leaves) + 1 /\ q = Len(s.leaves) + 2
        OBVIOUS
      <3> HIDE DEF p, q
      <3>1. /\ p \in DOMAIN r.leaves /\ p \notin DOMAIN s.leaves /\ g[p] = new[1].v
        BY <1>1, <1>3, <1>4, <2>1, <3>0, NewValue
      <3>2. /\ q \in DOMAIN r.leaves /\ q \notin DOMAIN s.leaves /\ g[q] = new[2].v
        <4>1. StateOK(s) /\ new \in Seq(Leaf) /\ 2 \in 1..Len(new) /\ q = Len(s.leaves) + 2
          BY <1>1, <1>3, <2>1, <3>0
        <4> QED
          BY ONLY StateOK(r), <1>4, <4>1, NewValue
      <3>3. ASSUME NEW x \in DOMAIN s.leaves
            PROVE  /\ x \in DOMAIN r.leaves /\ g[x] = f[x]
                   /\ x \in Unspent(r) => x \in Unspent(s)
        BY <1>1, <1>3, <1>4, ExtendedValues
      <3>4. ASSUME NEW x \in Unspent(r) PROVE x \in DOMAIN s.leaves \/ x = p \/ x = q
        BY <1>1, <1>3, <1>4, <2>2, ExtendedValues
      <3> HIDE DEF f, g
      <3> QED
        BY <1>3, <3>1, <3>2, <3>3, <3>4
  <1>7. /\ SumFunctionOnSet(f, Unspent(s)) = InValue(t, 0) + SumFunctionOnSet(f, first)
        /\ IsFiniteSet(first) /\ first \subseteq Unspent(s)
        /\ SumFunctionOnSet(f, first) \in Nat /\ InValue(t, 0) \in Nat
    <2>1. t.ins[0].on => /\ t.ins[0].pos + 1 \in Unspent(s)
                         /\ f[t.ins[0].pos + 1] = InValue(t, 0)
      BY <1>1, <1>2, InputUnspent
    <2> HIDE DEF f
    <2>2. IsFiniteSet(Unspent(s)) /\ \A x \in Unspent(s) : f[x] \in Nat
      BY <1>1, Valued DEF f
    <2> QED
      BY <1>1, <2>1, <2>2, TakeInput
  <1>8. /\ SumFunctionOnSet(f, first) = InValue(t, 1) + N
        /\ IsFiniteSet(old) /\ old \subseteq first /\ N \in Nat /\ InValue(t, 1) \in Nat
    <2>1. t.ins[1].on => /\ t.ins[1].pos + 1 \in first
                         /\ f[t.ins[1].pos + 1] = InValue(t, 1)
      <3> SUFFICES ASSUME t.ins[1].on
                   PROVE  t.ins[1].pos + 1 \in first /\ f[t.ins[1].pos + 1] = InValue(t, 1)
        OBVIOUS
      <3>1. /\ t.ins[1].pos + 1 \in Unspent(s) /\ t.ins[1].pos \in Nat
            /\ f[t.ins[1].pos + 1] = InValue(t, 1)
            /\ t.ins[1].leaf = s.leaves[t.ins[1].pos + 1]
        BY <1>1, <1>2, InputUnspent, SMTT(30)
      <3>2. ASSUME t.ins[0].on PROVE t.ins[0].pos + 1 # t.ins[1].pos + 1
        <4>1. t.ins[0].leaf = s.leaves[t.ins[0].pos + 1] /\ t.ins[0].pos \in Nat
          BY <1>1, <1>2, <3>2, InputUnspent
        <4>2. t.ins[0].pos + 1 = t.ins[1].pos + 1 => t.ins[0].pos = t.ins[1].pos
          BY <3>1, <4>1
        <4> QED
          BY <1>2, <3>1, <4>1, <4>2 DEF Nf
      <3> QED
        BY <3>1, <3>2 DEF Without
    <2>2. \A x \in first : f[x] \in Nat
      BY <1>1, <1>7, Valued
    <2> HIDE DEF f, first
    <2> QED
      BY <1>1, <1>7, <2>1, <2>2, TakeInput
  <1>9. \A x \in Unspent(r) : x \in old \/ x = p \/ x = q
    <2> SUFFICES ASSUME NEW x \in Unspent(r), x # p, x # q PROVE x \in old
      OBVIOUS
    <2>1. x \in DOMAIN s.leaves /\ x \in Unspent(s) /\ x \in Int
      BY <1>1, <1>6, Valued
    <2>2. ASSUME NEW k \in Slots, t.ins[k].on PROVE x # t.ins[k].pos + 1
      <3>1. /\ t.ins[k].leaf = s.leaves[t.ins[k].pos + 1] /\ t.ins[k].pos \in Nat
            /\ t.ins[k].pos + 1 \in Unspent(s)
        BY <1>1, <1>2, <2>2, InputUnspent, SMTT(30)
      <3>2. Nf(t, k) \in r.nullifiers
        BY <1>4 DEF Extended, Nfs
      <3>3. r.leaves[x] = s.leaves[x]
        <4>1. \A i \in 1..Len(s.leaves) : r.leaves[i] = s.leaves[i]
          BY <1>1, <1>3, <1>4, ExtendedLeaves
        <4> QED
          BY <1>1, <2>1, <4>1, Valued
      <3>4. <<r.leaves[x].src, r.leaves[x].j, x - 1>> \notin r.nullifiers
        BY DEF Unspent
      <3>5. x = t.ins[k].pos + 1 => x - 1 = t.ins[k].pos
        BY <3>1, SMTT(30)
      <3> QED
        BY <3>1, <3>2, <3>3, <3>4, <3>5 DEF Nf
    <2> QED
      BY <1>1, <2>1, <2>2 DEF Without
  <1> DEFINE one == old \cup {p}
             both == one \cup {q}
  <1>10. /\ p \notin old /\ q \notin one
         /\ \A x \in both : g[x] \in Nat
         /\ \A x \in old : g[x] = f[x]
    <2>1. old \subseteq DOMAIN s.leaves /\ p # q
      BY <1>1, <1>4, <1>7, <1>8, Valued
    <2>2. \A x \in DOMAIN s.leaves : f[x] \in Nat /\ g[x] = f[x]
      BY <1>1, <1>6, Valued
    <2> HIDE DEF f, g, old
    <2> QED
      BY <1>5, <1>6, <2>1, <2>2
  <1> HIDE DEF f, g, first, old, p, q
  <1>11. IsFiniteSet(one) /\ IsFiniteSet(both)
    BY <1>8, FS_AddElement
  <1>12. SumFunctionOnSet(g, Unspent(r)) <= SumFunctionOnSet(g, both)
    BY <1>9, <1>10, <1>11, SumGrows
  <1>13. SumFunctionOnSet(g, both) = t.outs[1] + SumFunctionOnSet(g, one)
    BY <1>6, <1>10, <1>11, SumAdd, ZenonT(60)
  <1>14. SumFunctionOnSet(g, one) = t.outs[0] + SumFunctionOnSet(g, old)
    BY <1>6, <1>8, <1>10, SumAdd
  <1>15. SumFunctionOnSet(g, old) = N
    BY <1>8, <1>10, SumSame
  <1>16. InValue(t, 0) + InValue(t, 1) = t.outs[0] + t.outs[1]
    BY <1>2 DEF Verify
  <1>17. SumFunctionOnSet(f, Unspent(s)) <= SumFunction(Payments(s))
    BY DEF NoInflation, f
  <1>18. SumFunction(Payments(r)) = SumFunction(Payments(s))
    BY <1>1, <1>4, TransferPaysNothing
  <1>19. SumFunctionOnSet(g, Unspent(r)) \in Nat /\ SumFunction(Payments(s)) \in Nat
    <2>1. SumFunctionOnSet(g, Unspent(r)) \in Nat
      BY Valued, SumNat DEF g
    <2>2. SumFunction(Payments(s)) \in Nat
      BY <1>1, Paying, SumNat DEF SumFunction
    <2> QED
      BY <2>1, <2>2
  <1> HIDE DEF N
  <1>20. SumFunctionOnSet(g, Unspent(r)) <= SumFunction(Payments(r))
    BY <1>5, <1>7, <1>8, <1>12, <1>13, <1>14, <1>15, <1>16, <1>17, <1>18, <1>19
  <1> QED
    BY <1>20 DEF NoInflation, g

LEMMA ReplayTxSolvent ==
  ASSUME NEW s, StateInv(s), NoInflation(s), NEW txid \in Txid
  PROVE  NoInflation(ReplayTx(s, NextBlock(s), txid))
  <1> DEFINE r == ReplayTx(s, NextBlock(s), txid)
  <1>1. StateOK(s) /\ StateOK(r)
    BY ReplayTxInv DEF StateInv
  <1>2. CASE r = s
    BY <1>2
  <1>3. CASE txid \in Mints /\ r = AcceptMint(s, NextBlock(s), txid)
    <2> HIDE DEF r
    <2>1. Extended(s, r, txid, <<MintLeaf(Carrier[txid])>>, {})
      BY <1>1, <1>3, AcceptMintExtends
    <2>2. NoInflation(r)
      BY <1>1, <1>3, <2>1, MintSolvent
    <2> QED
      BY <2>2 DEF r
  <1>4. CASE /\ txid \in Transfers
             /\ Verdict(s, NextBlock(s), Carrier[txid]) = "accept"
             /\ r = AcceptTransfer(s, NextBlock(s), txid)
    <2> HIDE DEF r
    <2>1. Extended(s, r, txid, <<OutputLeaf(Carrier[txid], 0), OutputLeaf(Carrier[txid], 1)>>,
                   Nfs(Carrier[txid]))
      BY <1>1, <1>4, AcceptTransferExtends
    <2>2. NoInflation(r)
      BY <1>1, <1>4, <2>1, TransferSolvent
    <2> QED
      BY <2>2 DEF r
  <1>5. CASE \E v \in Reasons : r = Reject(s, NextBlock(s), txid, v)
    <2> HIDE DEF r
    <2>1. SameHistory(s, r)
      BY <1>1, <1>5, RejectLogs DEF Logged
    <2>2. NoInflation(r)
      BY <2>1, SameHistorySolvent
    <2> QED
      BY <2>2 DEF r
  <1> QED
    BY <1>2, <1>3, <1>4, <1>5, ReplayTxCases

LEMMA EndBlockSolvent ==
  ASSUME NEW s, StateInv(s), NoInflation(s), NEW hash
  PROVE  NoInflation(EndBlock(s, NextBlock(s), hash))
  <1>1. BlockEnded(s, EndBlock(s, NextBlock(s), hash), hash)
    BY EndBlockEnds DEF StateInv
  <1> QED
    BY <1>1, SameHistorySolvent DEF BlockEnded

=============================================================================
