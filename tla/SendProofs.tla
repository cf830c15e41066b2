----------------------------- MODULE SendProofs -----------------------------
(***************************************************************************)
(* Proofs about what Wallet publishes.                                      *)
(*                                                                          *)
(* Every replay of the chain extends the replay of what is left of it after *)
(* a disconnect (Grows, Before), so an anchor that stays below the depth of *)
(* reorganisations keeps its root and its leaves: Rooted, which gives       *)
(* PublishedLands.                                                          *)
(*                                                                          *)
(* While one command runs at a time and nothing goes wrong (Quiet), every   *)
(* carrier of this wallet that is accepted or still may be holds each of    *)
(* its notes, by a lock of its own or by the spent flag: Locking, which      *)
(* gives LocksHold and NoRivalCarriers.                                     *)
(*                                                                          *)
(* The file of a wallet tells a history (Exact), and as long as that differs *)
(* from the chain's in its last event at most (Near), the cursor's txid      *)
(* tells whether a scan may go on from it: Telling, which gives              *)
(* ScansAreExact.                                                           *)
(***************************************************************************)
EXTENDS WalletProofs

-----------------------------------------------------------------------------
(* How a replayed state grows.                                             *)

Longer(a, b) == \A i \in DOMAIN a : i \in DOMAIN b /\ b[i] = a[i]

LeafOf(t, leaf) ==
  \/ t \in MintsOf /\ leaf = MintLeaf(t.env)
  \/ t \in TransfersOf /\ \E j \in Slots : leaf = OutputLeaf(t.env, j)

(* A transfer was replayed within its anchor's window.                     *)
InTime(e) == e.txid \in TransfersOf => e.height <= e.txid.env.anchor + WindowW

(* r is s after transactions of T were replayed at height h.               *)
Grows(s, r, T, h) ==
  /\ Longer(s.leaves, r.leaves) /\ Longer(s.events, r.events)
  /\ s.nullifiers \subseteq r.nullifiers
  /\ \A i \in DOMAIN r.events \ DOMAIN s.events :
       /\ r.events[i].txid \in T /\ r.events[i].height = h
       /\ InTime(r.events[i])
  /\ \A i \in DOMAIN r.leaves \ DOMAIN s.leaves : \E t \in T : LeafOf(t, r.leaves[i])

LEMMA GrowsSame ==
  ASSUME NEW s, NEW r, NEW T, NEW h, r.leaves = s.leaves, r.events = s.events,
         r.nullifiers = s.nullifiers
  PROVE  Grows(s, r, T, h)
  BY DEF Grows, Longer

LEMMA GrowsOn ==
  ASSUME NEW a, NEW b, NEW c, NEW T, NEW U, NEW V, NEW h,
         T \subseteq V, U \subseteq V, Grows(a, b, T, h), Grows(b, c, U, h)
  PROVE  Grows(a, c, V, h)
  <1>1. Longer(a.leaves, c.leaves) /\ Longer(a.events, c.events)
    BY DEF Grows, Longer
  <1>2. a.nullifiers \subseteq c.nullifiers
    BY DEF Grows
  <1>3. ASSUME NEW i \in DOMAIN c.events \ DOMAIN a.events
        PROVE  c.events[i].txid \in V /\ c.events[i].height = h /\ InTime(c.events[i])
    <2>1. CASE i \in DOMAIN b.events
      BY <2>1 DEF Grows, Longer
    <2>2. CASE i \notin DOMAIN b.events
      BY <2>2 DEF Grows
    <2> QED
      BY <2>1, <2>2
  <1>4. ASSUME NEW i \in DOMAIN c.leaves \ DOMAIN a.leaves
        PROVE  \E t \in V : LeafOf(t, c.leaves[i])
    <2>1. CASE i \in DOMAIN b.leaves
      <3>1. c.leaves[i] = b.leaves[i] /\ i \in DOMAIN b.leaves \ DOMAIN a.leaves
        BY <2>1 DEF Grows, Longer
      <3> QED
        BY <3>1 DEF Grows
    <2>2. CASE i \notin DOMAIN b.leaves
      BY <2>2 DEF Grows
    <2> QED
      BY <2>1, <2>2
  <1> QED
    BY <1>1, <1>2, <1>3, <1>4 DEF Grows

(* What an accepted carrier adds.                                          *)
LEMMA ExtendedGrows ==
  ASSUME NEW s, RP!StateOK(s), NEW r, NEW t \in Tx, NEW new \in Seq(Leaf), NEW nfs,
         NEW h, h = s.replayed_height + 1, RP!Extended(s, r, t, new, nfs),
         \A i \in DOMAIN new : LeafOf(t, new[i]),
         t \in TransfersOf => h <= t.env.anchor + WindowW
  PROVE  Grows(s, r, {t}, h)
  <1>1. s.leaves \in Seq(Leaf) /\ r.leaves = s.leaves \o new
    BY Instance DEF RP!StateOK, RP!Extended
  <1>2. /\ DOMAIN s.leaves = 1..Len(s.leaves) /\ Len(s.leaves) \in Nat
        /\ DOMAIN new = 1..Len(new) /\ Len(new) \in Nat
        /\ DOMAIN r.leaves = 1..(Len(s.leaves) + Len(new))
        /\ \A i \in 1..Len(s.leaves) : r.leaves[i] = s.leaves[i]
        /\ \A i \in 1..Len(new) : r.leaves[Len(s.leaves) + i] = new[i]
    <2>1. /\ r.leaves \in Seq(Leaf) /\ Len(r.leaves) = Len(s.leaves) + Len(new)
          /\ \A i \in 1..Len(s.leaves) : r.leaves[i] = s.leaves[i]
          /\ \A i \in 1..Len(new) : r.leaves[Len(s.leaves) + i] = new[i]
      BY <1>1, ConcatProperties
    <2> QED
      BY <1>1, <2>1, LenProperties
  <1>3. Longer(s.leaves, r.leaves)
    BY <1>2 DEF Longer
  <1>4. ASSUME NEW i \in DOMAIN r.leaves \ DOMAIN s.leaves
        PROVE  LeafOf(t, r.leaves[i])
    <2>1. i - Len(s.leaves) \in 1..Len(new) /\ i = Len(s.leaves) + (i - Len(s.leaves))
      BY <1>2
    <2>2. r.leaves[i] = new[i - Len(s.leaves)]
      BY <1>2, <2>1
    <2> QED
      BY <1>2, <2>1, <2>2
  <1>5. /\ \A i \in DOMAIN s.events :
             i \in DOMAIN r.events /\ r.events[i] = s.events[i]
        /\ \A i \in DOMAIN r.events :
             i \notin DOMAIN s.events => r.events[i] = RP!EventAt(s, t)
    BY Instance, RP!ExtendedEvents DEF RP!ReplayConstants
  <1>6. /\ RP!EventAt(s, t).txid = t /\ RP!EventAt(s, t).height = h
        /\ InTime(RP!EventAt(s, t))
    BY DEF RP!EventAt, RP!NextBlock, InTime
  <1>7. s.nullifiers \subseteq r.nullifiers
    BY DEF RP!Extended
  <1> QED
    BY <1>3, <1>4, <1>5, <1>6, <1>7 DEF Grows, Longer

LEMMA TxGrows ==
  ASSUME NEW s \in Good, NEW t \in Tx, NEW h, h = s.replayed_height + 1
  PROVE  /\ Grows(s, R!ReplayTx(s, h, t), {t}, h)
         /\ R!ReplayTx(s, h, t).roots = s.roots
  <1> DEFINE r == RP!ReplayTx(s, h, t)
             c == [u \in Tx |-> u.env]
  <1>0. r = R!ReplayTx(s, h, t)
    BY SameReplayTx
  <1>1. RP!StateOK(s) /\ h = RP!NextBlock(s) /\ c[t] = t.env
    BY DEF Good, RP!StateInv, RP!NextBlock
  <1>2. CASE r = s
    BY <1>0, <1>2, GrowsSame
  <1>3. CASE t \in RP!Mints /\ r = RP!AcceptMint(s, h, t)
    <2> DEFINE new == <<MintLeaf(t.env)>>
    <2>1. t \in MintsOf /\ t \notin TransfersOf /\ RP!MintLeaf(c[t]) = MintLeaf(t.env)
      BY <1>1, <1>3, SameNames DEF MintsOf, TransfersOf
    <2>2. RP!Extended(s, r, t, new, {})
      <3>1. RP!Extended(s, r, t, <<RP!MintLeaf(c[t])>>, {})
        BY <1>1, <1>3, Instance, RP!AcceptMintExtends DEF RP!ReplayConstants
      <3> QED
        BY <2>1, <3>1
    <2>3. new \in Seq(Leaf)
      <3>1. t.env \in MintEnvelope
        BY <2>1 DEF MintsOf, Tx, Envelope, NoEnvelope, MintEnvelope, TransferEnvelope
      <3> QED
        BY <3>1 DEF MintLeaf, MintEnvelope, Leaf, Slots
    <2>4. \A i \in DOMAIN new : LeafOf(t, new[i])
      BY <2>1 DEF LeafOf
    <2> HIDE DEF r, new
    <2>5. Grows(s, r, {t}, h)
      BY <1>1, <2>1, <2>2, <2>3, <2>4, ExtendedGrows
    <2> QED
      BY <1>0, <2>2, <2>5 DEF RP!Extended, r
  <1>4. CASE /\ t \in RP!Transfers /\ r = RP!AcceptTransfer(s, h, t)
             /\ RP!Verdict(s, h, c[t]) = "accept"
    <2> DEFINE new == <<OutputLeaf(t.env, 0), OutputLeaf(t.env, 1)>>
    <2>1. /\ t \in TransfersOf
          /\ RP!OutputLeaf(c[t], 0) = OutputLeaf(t.env, 0)
          /\ RP!OutputLeaf(c[t], 1) = OutputLeaf(t.env, 1)
          /\ RP!Nfs(c[t]) = Nfs(t.env)
      BY <1>1, <1>4, SameNames
    <2>2. RP!Extended(s, r, t, new, Nfs(t.env))
      <3>1. RP!Extended(s, r, t, <<RP!OutputLeaf(c[t], 0), RP!OutputLeaf(c[t], 1)>>, RP!Nfs(c[t]))
        BY <1>1, <1>4, Instance, RP!AcceptTransferExtends DEF RP!ReplayConstants
      <3> QED
        BY <2>1, <3>1
    <2>3. new \in Seq(Leaf)
      <3>1. t.env \in TransferEnvelope
        BY <2>1 DEF TransfersOf, Tx, Envelope, NoEnvelope, MintEnvelope, TransferEnvelope
      <3> QED
        BY <3>1 DEF OutputLeaf, TransferEnvelope, Leaf, Slots
    <2>4. \A i \in DOMAIN new : LeafOf(t, new[i])
      <3>1. \A i \in DOMAIN new : i = 1 \/ i = 2
        OBVIOUS
      <3>2. new[1] = OutputLeaf(t.env, 0) /\ new[2] = OutputLeaf(t.env, 1)
        OBVIOUS
      <3> HIDE DEF new
      <3> QED
        BY <2>1, <3>1, <3>2 DEF LeafOf, Slots
    <2>5. h <= t.env.anchor + WindowW
      <3>1. RP!InWindow(c[t].anchor, h)
        BY <1>4, RP!AcceptedTransfer, Instance DEF RP!ReplayConstants
      <3> QED
        BY <1>1, <3>1 DEF RP!InWindow
    <2> HIDE DEF r, new
    <2>6. Grows(s, r, {t}, h)
      BY <1>1, <2>2, <2>3, <2>4, <2>5, ExtendedGrows
    <2> QED
      BY <1>0, <2>2, <2>6 DEF RP!Extended, r
  <1>5. ASSUME NEW v \in RP!Reasons, r = RP!Reject(s, h, t, v)
        PROVE  Grows(s, r, {t}, h) /\ r.roots = s.roots
    <2>1. RP!Logged(s, r, [txid |-> t, height |-> h, reason |-> v])
      BY <1>1, <1>5, Instance, RP!RejectLogs DEF RP!ReplayConstants
    <2> HIDE DEF r
    <2> QED
      BY <2>1, GrowsSame DEF RP!Logged, RP!SameHistory
  <1> HIDE DEF r
  <1>6. \/ r = s
        \/ t \in RP!Mints /\ r = RP!AcceptMint(s, h, t)
        \/ /\ t \in RP!Transfers /\ RP!Verdict(s, h, c[t]) = "accept"
           /\ r = RP!AcceptTransfer(s, h, t)
        \/ \E v \in RP!Reasons : r = RP!Reject(s, h, t, v)
    BY Instance, RP!ReplayTxCases DEF RP!ReplayConstants, r
  <1> QED
    BY <1>0, <1>2, <1>3, <1>4, <1>5, <1>6

(* A block.                                                                *)
LEMMA BlockGrows ==
  ASSUME NEW s \in Good, NEW txs \in Seq(Tx)
  PROVE  LET h == s.replayed_height + 1
             r == ReplayBlock(s, txs)
         IN  /\ r \in Good /\ r.replayed_height = h
             /\ Grows(s, r, Range(txs), h)
             /\ r.roots = RP!Keep(RP!Put(s.roots, h, r.leaves), RP!Recent(h) \cup {RP!Initial})
  <1> DEFINE h == s.replayed_height + 1
             r == ReplayBlock(s, txs)
             n == Len(txs)
  <1>0. h = s.replayed_height + 1 /\ r = ReplayBlock(s, txs)
    OBVIOUS
  <1> HIDE DEF h, r
  <1>1. PICK acc :
          /\ acc[0] = s /\ ReplayBlock(s, txs) = R!EndBlock(acc[n], h, <<>>)
          /\ \A k \in 1..n : acc[k] = R!ReplayTx(acc[k - 1], h, txs[k]) /\ txs[k] \in Tx
          /\ \A k \in 0..n : acc[k] \in Good /\ h = acc[k].replayed_height + 1
    BY <1>0, TxSteps
  <1>2. n \in Nat /\ n \in 0..n /\ DOMAIN txs = 1..n
    BY LenProperties
  <1> DEFINE good == [k \in 0..n |-> {g \in Good : Grows(s, g, Range(txs), h) /\ g.roots = s.roots}]
  <1>3. acc[0] \in good[0]
    <2>1. 0 \in 0..n /\ acc[0] \in Good
      BY <1>1, <1>2
    <2>2. Grows(s, s, Range(txs), h)
      BY GrowsSame
    <2> QED
      BY <1>1, <2>1, <2>2
  <1>4. ASSUME NEW k \in 1..n, acc[k - 1] \in good[k - 1]
        PROVE  acc[k] \in good[k]
    <2>1. k \in 0..n /\ k - 1 \in 0..n
      BY <1>2
    <2>2. /\ acc[k - 1] \in Good /\ h = acc[k - 1].replayed_height + 1 /\ txs[k] \in Tx
          /\ acc[k] = R!ReplayTx(acc[k - 1], h, txs[k]) /\ acc[k] \in Good
      BY <1>1, <2>1
    <2>3. Grows(acc[k - 1], acc[k], {txs[k]}, h) /\ acc[k].roots = acc[k - 1].roots
      <3> DEFINE a == acc[k - 1]
                 t == txs[k]
      <3>1. a \in Good /\ t \in Tx /\ h = a.replayed_height + 1 /\ acc[k] = R!ReplayTx(a, h, t)
        BY <2>2
      <3> HIDE DEF a, t
      <3>2. Grows(a, R!ReplayTx(a, h, t), {t}, h) /\ R!ReplayTx(a, h, t).roots = a.roots
        BY <3>1, TxGrows
      <3> QED
        BY <3>1, <3>2 DEF a, t
    <2>4. Grows(s, acc[k - 1], Range(txs), h) /\ acc[k - 1].roots = s.roots
      BY <1>4, <2>1
    <2>5. {txs[k]} \subseteq Range(txs)
      BY <1>2 DEF Range
    <2>6. Grows(s, acc[k], Range(txs), h)
      BY <2>3, <2>4, <2>5, GrowsOn
    <2> QED
      BY <2>1, <2>2, <2>3, <2>4, <2>6
  <1>5. acc[n] \in good[n]
    <2> HIDE DEF good, n
    <2>1. \A k \in 0..n : acc[k] \in good[k]
      BY <1>2, <1>3, <1>4, Climb
    <2> QED
      BY <1>2, <2>1
  <1>6. /\ acc[n] \in Good /\ Grows(s, acc[n], Range(txs), h) /\ acc[n].roots = s.roots
        /\ h = acc[n].replayed_height + 1
    BY <1>1, <1>2, <1>5
  <1>7. r = RP!EndBlock(acc[n], h, <<>>) /\ r \in Good
    BY <1>0, <1>1, SameEndBlock, GoodBlock
  <1>8. RP!BlockEnded(acc[n], r, <<>>)
    <2>1. RP!StateOK(acc[n]) /\ h = RP!NextBlock(acc[n])
      BY <1>6 DEF Good, RP!StateInv, RP!NextBlock
    <2> QED
      BY <1>7, <2>1, Instance, RP!EndBlockEnds DEF RP!ReplayConstants
  <1>9. /\ r.leaves = acc[n].leaves /\ r.events = acc[n].events
        /\ r.nullifiers = acc[n].nullifiers /\ r.replayed_height = h
        /\ r.roots = RP!Keep(RP!Put(s.roots, h, r.leaves), RP!Recent(h) \cup {RP!Initial})
    BY <1>6, <1>8 DEF RP!BlockEnded, RP!SameHistory, RP!NextBlock
  <1>10. Grows(s, r, Range(txs), h)
    <2>1. Grows(acc[n], r, {}, h)
      BY <1>9, GrowsSame
    <2> QED
      BY <1>6, <2>1, GrowsOn
  <1> QED
    BY <1>7, <1>9, <1>10 DEF h, r

-----------------------------------------------------------------------------
(* Chains: the state of a chain is that of one block less, and a block.     *)

Upto(c, k) == SubSeq(c, 1, k)
MinedIn(c) == UNION {Range(c[k]) : k \in DOMAIN c}

LEMMA UptoIs ==
  ASSUME NEW S, NEW c \in Seq(S), NEW k \in 0..Len(c)
  PROVE  /\ Upto(c, k) \in Seq(S) /\ Len(Upto(c, k)) = k
         /\ \A i \in 1..k : Upto(c, k)[i] = c[i]
  <1>1. Len(c) \in Nat /\ DOMAIN c = 1..Len(c) /\ \A i \in 1..Len(c) : c[i] \in S
    BY LenProperties, ElementOfSeq
  <1> QED
    BY <1>1, SubSeqProperties DEF Upto

LEMMA SameSeq ==
  ASSUME NEW S, NEW a \in Seq(S), NEW b \in Seq(S), Len(a) = Len(b),
         \A i \in 1..Len(a) : a[i] = b[i]
  PROVE  a = b
  BY SeqEqual

LEMMA UptoEnds ==
  ASSUME NEW S, NEW c \in Seq(S)
  PROVE  Upto(c, Len(c)) = c /\ Upto(c, 0) = <<>>
  <1>1. Len(c) \in Nat
    BY LenProperties
  <1>2. /\ Upto(c, Len(c)) \in Seq(S) /\ Len(Upto(c, Len(c))) = Len(c)
        /\ \A i \in 1..Len(c) : Upto(c, Len(c))[i] = c[i]
    BY <1>1, UptoIs
  <1>3. Upto(c, 0) \in Seq(S) /\ Len(Upto(c, 0)) = 0
    BY <1>1, UptoIs
  <1> QED
    BY <1>2, <1>3, SameSeq, EmptySeq

(* Equal beginnings.                                                       *)
LEMMA UptoSame ==
  ASSUME NEW S, NEW c \in Seq(S), NEW d \in Seq(S), NEW k \in 0..Len(c), k <= Len(d),
         \A i \in 1..k : d[i] = c[i]
  PROVE  Upto(d, k) = Upto(c, k)
  <1>1. k \in 0..Len(d)
    BY LenProperties
  <1> QED
    BY <1>1, UptoIs, SameSeq

LEMMA ReplayedNone == Replayed(<<>>) = R!Fresh
  <1>1. <<>> \in Seq(Seq(Tx)) /\ Len(<<>>) = 0
    BY EmptySeq
  <1> QED
    BY <1>1, ReplayedSteps

LEMMA ReplayedNext ==
  ASSUME NEW c \in Seq(Seq(Tx)), NEW k \in 1..Len(c)
  PROVE  Replayed(Upto(c, k)) = ReplayBlock(Replayed(Upto(c, k - 1)), c[k])
  <1> DEFINE a == Upto(c, k)
             b == Upto(c, k - 1)
  <1>1. Len(c) \in Nat /\ k \in 0..Len(c) /\ k - 1 \in 0..Len(c) /\ k \in 1..k
    BY LenProperties
  <1>2. /\ a \in Seq(Seq(Tx)) /\ Len(a) = k /\ \A i \in 1..k : a[i] = c[i]
        /\ b \in Seq(Seq(Tx)) /\ Len(b) = k - 1 /\ \A i \in 1..(k - 1) : b[i] = c[i]
    BY <1>1, UptoIs
  <1> HIDE DEF a, b
  <1>3. PICK f : /\ f[0] = R!Fresh /\ Replayed(a) = f[k]
                 /\ \A i \in 1..k : f[i] = ReplayBlock(f[i - 1], a[i])
    <2>1. PICK f : /\ f[0] = R!Fresh /\ Replayed(a) = f[Len(a)]
                   /\ \A i \in 1..Len(a) : f[i] = ReplayBlock(f[i - 1], a[i])
      BY <1>2, ReplayedSteps, ZenonT(60)
    <2>2. Len(a) = k
      BY <1>2
    <2> QED
      BY <2>1, <2>2
  <1>4. PICK g : /\ g[0] = R!Fresh /\ Replayed(b) = g[k - 1]
                 /\ \A i \in 1..(k - 1) : g[i] = ReplayBlock(g[i - 1], b[i])
    <2>1. PICK g : /\ g[0] = R!Fresh /\ Replayed(b) = g[Len(b)]
                   /\ \A i \in 1..Len(b) : g[i] = ReplayBlock(g[i - 1], b[i])
      BY <1>2, ReplayedSteps, ZenonT(60)
    <2>2. Len(b) = k - 1
      BY <1>2
    <2> QED
      BY <2>1, <2>2
  <1> DEFINE good == [i \in 0..(k - 1) |-> {g[i]}]
  <1>5. f[k - 1] \in good[k - 1]
    <2>1. k - 1 \in Nat /\ k - 1 \in 0..(k - 1) /\ 0 \in 0..(k - 1)
      BY <1>1
    <2>2. f[0] \in good[0]
      BY <1>3, <1>4, <2>1
    <2>3. ASSUME NEW i \in 1..(k - 1), f[i - 1] \in good[i - 1]
          PROVE  f[i] \in good[i]
      <3>1. i \in 1..k /\ i \in 0..(k - 1) /\ i - 1 \in 0..(k - 1)
        BY <1>1
      <3>2. f[i - 1] = g[i - 1] /\ a[i] = b[i]
        BY <1>2, <2>3, <3>1
      <3> QED
        BY <1>3, <1>4, <3>1, <3>2
    <2> HIDE DEF good
    <2> QED
      BY <2>1, <2>2, <2>3, Climb
  <1>6. f[k - 1] = g[k - 1]
    BY <1>1, <1>5
  <1> QED
    BY <1>1, <1>2, <1>3, <1>4, <1>6 DEF a, b

LEMMA ReplayedAppend ==
  ASSUME NEW c \in Seq(Seq(Tx)), NEW b \in Seq(Tx)
  PROVE  Replayed(Append(c, b)) = ReplayBlock(Replayed(c), b)
  <1> DEFINE d == Append(c, b)
             n == Len(c)
  <1>1. /\ d \in Seq(Seq(Tx)) /\ Len(d) = n + 1 /\ n \in Nat
        /\ \A i \in 1..n : d[i] = c[i]
        /\ d[n + 1] = b
    BY AppendProperties, LenProperties
  <1> HIDE DEF d
  <1>2. Replayed(Upto(d, n + 1)) = ReplayBlock(Replayed(Upto(d, n)), b)
    <2>1. n + 1 \in 1..Len(d) /\ (n + 1) - 1 = n
      BY <1>1
    <2> QED
      BY <1>1, <2>1, ReplayedNext
  <1>3. Upto(d, n) = c
    <2>1. n \in 0..Len(c) /\ n <= Len(d)
      BY <1>1
    <2> QED
      BY <1>1, <2>1, UptoSame, UptoEnds, ZenonT(60)
  <1>4. Upto(d, n + 1) = d
    BY <1>1, UptoEnds
  <1> QED
    BY <1>2, <1>3, <1>4 DEF d

(* The tree a chain had at height h, whatever came later.                  *)
Past(c, h) == Replayed(Upto(c, h + 1 - Activation)).leaves

Sourced(s, T) ==
  /\ \A i \in DOMAIN s.events : s.events[i].txid \in T /\ InTime(s.events[i])
  /\ \A i \in DOMAIN s.leaves : \E t \in T : LeafOf(t, s.leaves[i])

(* A retained root is that of the tree at its height.                      *)
Rooting(s, c) ==
  \A h \in DOMAIN s.roots :
    h \in (Activation - 1)..s.replayed_height /\ s.roots[h] = Past(c, h)

Replays(s, c, k) ==
  /\ s \in Good /\ s.replayed_height = Activation - 1 + k
  /\ Sourced(s, MinedIn(c)) /\ Rooting(s, c)

LEMMA FreshReplays ==
  ASSUME NEW c \in Seq(Seq(Tx))
  PROVE  Replays(R!Fresh, c, 0)
  <1>1. R!Fresh \in Good
    BY GoodFresh
  <1>2. /\ R!Fresh.replayed_height = Activation - 1 /\ R!Fresh.leaves = <<>>
        /\ R!Fresh.events = <<>> /\ R!Fresh.roots = [h \in {Activation - 1} |-> <<>>]
    BY DEF R!Fresh, R!Initial
  <1>3. Past(c, Activation - 1) = <<>>
    <2>1. Activation - 1 + 1 - Activation = 0
      BY WalletConstants
    <2> QED
      BY <1>2, <2>1, UptoEnds, ReplayedNone DEF Past
  <1>4. Rooting(R!Fresh, c)
    BY <1>2, <1>3, WalletConstants DEF Rooting
  <1>5. Sourced(R!Fresh, MinedIn(c))
    BY <1>2 DEF Sourced
  <1>6. R!Fresh.replayed_height = Activation - 1 + 0
    BY <1>2, WalletConstants
  <1> QED
    BY <1>1, <1>4, <1>5, <1>6 DEF Replays

LEMMA BlockReplays ==
  ASSUME NEW c \in Seq(Seq(Tx)), NEW k \in 1..Len(c), NEW s, Replays(s, c, k - 1),
         NEW r, r = ReplayBlock(s, c[k]), r.leaves = Replayed(Upto(c, k)).leaves
  PROVE  Replays(r, c, k)
  <1> DEFINE h == s.replayed_height + 1
             T == MinedIn(c)
  <1>1. /\ s \in Good /\ h = Activation - 1 + k /\ k \in Nat
        /\ s.replayed_height \in Int /\ h \in Int /\ s.replayed_height < h
        /\ c[k] \in Seq(Tx) /\ k \in DOMAIN c
    BY WalletConstants, LenProperties, ElementOfSeq DEF Replays
  <1>0. h = s.replayed_height + 1
    OBVIOUS
  <1> HIDE DEF h, T
  <1>2. /\ r \in Good /\ r.replayed_height = h /\ Grows(s, r, Range(c[k]), h)
        /\ r.roots = RP!Keep(RP!Put(s.roots, h, r.leaves), RP!Recent(h) \cup {RP!Initial})
    <2>1. s \in Good /\ c[k] \in Seq(Tx)
      BY <1>1
    <2> QED
      BY <1>0, <2>1, BlockGrows
  <1>3. Sourced(r, T)
    <2>1. Range(c[k]) \subseteq T
      BY <1>1 DEF MinedIn, T
    <2>2. ASSUME NEW i \in DOMAIN r.events
          PROVE  r.events[i].txid \in T /\ InTime(r.events[i])
      BY <1>2, <2>1 DEF Grows, Longer, Replays, Sourced, T
    <2>3. ASSUME NEW i \in DOMAIN r.leaves
          PROVE  \E t \in T : LeafOf(t, r.leaves[i])
      <3>1. CASE i \in DOMAIN s.leaves
        <4>1. r.leaves[i] = s.leaves[i]
          BY <1>2, <3>1 DEF Grows, Longer
        <4> QED
          BY <3>1, <4>1 DEF Replays, Sourced, T
      <3>2. CASE i \notin DOMAIN s.leaves
        BY <1>2, <2>1, <3>2 DEF Grows
      <3> QED
        BY <3>1, <3>2
    <2> QED
      BY <2>2, <2>3 DEF Sourced
  <1>4. Rooting(r, c)
    <2> SUFFICES ASSUME NEW a \in DOMAIN r.roots
                 PROVE  a \in (Activation - 1)..r.replayed_height /\ r.roots[a] = Past(c, a)
      BY DEF Rooting
    <2>1. CASE a = h
      <3>1. r.roots[a] = r.leaves
        BY <1>2, <2>1 DEF RP!Keep, RP!Put
      <3>2. a + 1 - Activation = k
        BY <1>1, <2>1, WalletConstants
      <3>3. a \in (Activation - 1)..r.replayed_height
        BY <1>1, <1>2, <2>1, WalletConstants
      <3> QED
        BY <3>1, <3>2, <3>3 DEF Past
    <2>2. CASE a # h
      <3>1. a \in DOMAIN s.roots /\ r.roots[a] = s.roots[a]
        BY <1>2, <2>2 DEF RP!Keep, RP!Put
      <3>2. a \in (Activation - 1)..s.replayed_height /\ s.roots[a] = Past(c, a)
        BY <3>1 DEF Replays, Rooting
      <3>3. s.replayed_height <= r.replayed_height /\ r.replayed_height \in Int
        <4>1. r.replayed_height = h
          BY <1>2
        <4>2. s.replayed_height \in Int /\ h \in Int /\ s.replayed_height < h
          BY <1>1
        <4> QED
          BY <4>1, <4>2
      <3>4. a \in (Activation - 1)..r.replayed_height
        <4> DEFINE old == s.replayed_height
                   new == r.replayed_height
                   low == Activation - 1
        <4>1. /\ a \in low..old /\ old <= new
              /\ old \in Int /\ new \in Int /\ low \in Int
          BY <1>1, <3>2, <3>3, WalletConstants
        <4> HIDE DEF old, new, low
        <4>2. a \in low..new
          BY <4>1
        <4> QED
          BY <4>2 DEF low, new
      <3>5. r.roots[a] = Past(c, a)
        BY <3>1, <3>2, Zenon
      <3> QED
        BY <3>4, <3>5
    <2> QED
      BY <2>1, <2>2
  <1> QED
    BY <1>1, <1>2, <1>3, <1>4 DEF Replays, T

LEMMA History ==
  ASSUME NEW c \in Seq(Seq(Tx))
  PROVE  Replays(Replayed(c), c, Len(c))
  <1> DEFINE n == Len(c)
             acc == [k \in 0..n |-> Replayed(Upto(c, k))]
             good == [k \in 0..n |-> {r \in Good : Replays(r, c, k)}]
  <1>1. n \in Nat /\ n \in 0..n /\ 0 \in 0..n
    BY LenProperties
  <1>2. acc[0] \in good[0]
    BY <1>1, UptoEnds, ReplayedNone, FreshReplays, GoodFresh
  <1>3. ASSUME NEW k \in 1..n, acc[k - 1] \in good[k - 1]
        PROVE  acc[k] \in good[k]
    <2>1. k \in 0..n /\ k - 1 \in 0..n
      BY <1>1
    <2>2. Replays(acc[k - 1], c, k - 1)
      BY <1>3, <2>1
    <2>3. acc[k] = ReplayBlock(acc[k - 1], c[k]) /\ acc[k] = Replayed(Upto(c, k))
      BY <2>1, ReplayedNext
    <2> HIDE DEF acc
    <2>4. Replays(acc[k], c, k)
      BY <2>2, <2>3, BlockReplays
    <2> QED
      BY <2>1, <2>4 DEF Replays
  <1>4. acc[n] \in good[n]
    <2> HIDE DEF acc, good, n
    <2> QED
      BY <1>1, <1>2, <1>3, Climb
  <1> QED
    BY <1>1, <1>4, UptoEnds

(* Past trees do not change when blocks come or go above them.             *)
LEMMA PastStays ==
  ASSUME NEW c \in Seq(Seq(Tx)), NEW d \in Seq(Seq(Tx)), NEW h \in Int,
         h >= Activation - 1, h <= Activation - 1 + Len(c), h <= Activation - 1 + Len(d),
         \A i \in 1..Len(c) : i <= Len(d) => d[i] = c[i]
  PROVE  Past(d, h) = Past(c, h)
  <1> DEFINE k == h + 1 - Activation
  <1>1. k \in 0..Len(c) /\ k <= Len(d) /\ \A i \in 1..k : d[i] = c[i]
    <2>1. Len(c) \in Nat /\ Len(d) \in Nat /\ Activation \in Nat
      BY WalletConstants, LenProperties
    <2>2. k \in 0..Len(c) /\ k <= Len(d)
      BY <2>1
    <2> HIDE DEF k
    <2>3. \A i \in 1..k : i \in 1..Len(c) /\ i <= Len(d)
      BY <2>1, <2>2
    <2> QED
      BY <2>2, <2>3
  <1>2. Upto(d, k) = Upto(c, k)
    <2> HIDE DEF k
    <2> QED
      BY <1>1, UptoSame
  <1> QED
    BY <1>2 DEF Past

-----------------------------------------------------------------------------
(* What this wallet builds: transfers whose proof verifies, with an         *)
(* identity of their own, that spend two different notes.                   *)

Dummies == {<<"dummy", k>> : k \in 1..MaxTx}
OwnTransfers ==
  {t \in TransfersOf :
     /\ t.id \in 1..MaxTx /\ t.env.body = <<"body", t.id>>
     /\ \A i \in Slots : t.env.ins[i].on \/ t.env.ins[i] = Dummy(t.id)
     /\ Nf(t.env, 0) # Nf(t.env, 1)
     /\ Verify(t.env.root, t.env)}

(* No leaf is that of a dummy input.                                       *)
Clean(s) == \A i \in DOMAIN s.leaves : s.leaves[i].src \notin Dummies

LEMMA CleanFresh == Clean(R!Fresh)
  BY DEF Clean, R!Fresh

LEMMA CleanReplayed ==
  ASSUME NEW c \in Seq(Seq(Tx)), MinedIn(c) \subseteq PlainMints \cup OwnTransfers
  PROVE  Clean(Replayed(c))
  <1> DEFINE s == Replayed(c)
  <1>1. Sourced(s, MinedIn(c))
    BY History DEF Replays
  <1> HIDE DEF s
  <1> SUFFICES ASSUME NEW i \in DOMAIN s.leaves PROVE s.leaves[i].src \notin Dummies
    BY DEF Clean, s
  <1>2. PICK t \in PlainMints \cup OwnTransfers : LeafOf(t, s.leaves[i])
    BY <1>1 DEF Sourced
  <1>3. CASE t \in MintsOf /\ s.leaves[i] = MintLeaf(t.env)
    <2>1. t \in PlainMints
      BY <1>2, <1>3 DEF OwnTransfers, MintsOf, TransfersOf
    <2>2. s.leaves[i].src = t.env.seed
      BY <1>3 DEF MintLeaf
    <2> QED
      BY <2>1, <2>2 DEF PlainMints, Dummies
  <1>4. CASE t \in TransfersOf /\ \E j \in Slots : s.leaves[i] = OutputLeaf(t.env, j)
    <2>1. t \in OwnTransfers
      BY <1>2, <1>4 DEF PlainMints, TransfersOf
    <2>2. s.leaves[i].src = <<"body", t.id>>
      BY <1>4, <2>1 DEF OutputLeaf, OwnTransfers
    <2>3. \A k, m : <<"body", k>> # <<"dummy", m>>
      OBVIOUS
    <2> QED
      BY <2>2, <2>3 DEF Dummies
  <1> QED
    BY <1>2, <1>3, <1>4 DEF LeafOf

LEMMA InputNotes ==
  ASSUME NEW f, NEW s, NEW in \in Inputs(f, s)
  PROVE  \/ \E a \in Candidates(f, s) : in = <<a>>
         \/ \E a, b \in Candidates(f, s) : a # b /\ in = <<a, b>>
  <1>1. CASE in \in {<<a>> : a \in Largest(Candidates(f, s))}
    BY <1>1 DEF Largest
  <1>2. CASE in \in UNION {{<<a, b>> : b \in Largest(Candidates(f, s) \ {a})} :
                             a \in Largest(Candidates(f, s))}
    BY <1>2 DEF Largest
  <1> QED
    BY <1>1, <1>2 DEF Inputs

(* The slots of a built transfer.                                          *)
LEMMA BuiltSlots ==
  ASSUME NEW n \in Nat, NEW f, NEW s, NEW in \in Inputs(f, s)
  PROVE  LET t == Transfer(n, s, in).env IN
         \/ \E a \in Candidates(f, s) :
              /\ in = <<a>> /\ Range(in) = {a}
              /\ t.ins[0] = Enabled(a) /\ t.ins[1] = Dummy(n)
         \/ \E a, b \in Candidates(f, s) :
              /\ a # b /\ in = <<a, b>> /\ Range(in) = {a, b}
              /\ t.ins[0] = Enabled(a) /\ t.ins[1] = Enabled(b)
  <1> DEFINE t == Transfer(n, s, in).env
  <1>1. /\ t.ins[0] = IF 0 < Len(in) THEN Enabled(in[0 + 1]) ELSE Dummy(n)
        /\ t.ins[1] = IF 1 < Len(in) THEN Enabled(in[1 + 1]) ELSE Dummy(n)
    BY DEF Transfer, Slots
  <1> HIDE DEF t
  <1>2. CASE \E a \in Candidates(f, s) : in = <<a>>
    <2>1. PICK a \in Candidates(f, s) : in = <<a>>
      BY <1>2
    <2>2. Len(in) = 1 /\ in[1] = a /\ Range(in) = {a}
      BY <2>1 DEF Range
    <2> QED
      BY <1>1, <2>1, <2>2 DEF t
  <1>3. CASE \E a, b \in Candidates(f, s) : a # b /\ in = <<a, b>>
    <2>1. PICK a \in Candidates(f, s), b \in Candidates(f, s) : a # b /\ in = <<a, b>>
      BY <1>3
    <2>2. Len(in) = 2 /\ in[1] = a /\ in[2] = b /\ DOMAIN in = 1..2
      BY <2>1
    <2>3. Range(in) = {a, b}
      BY <2>2 DEF Range
    <2> QED
      BY <1>1, <2>1, <2>2, <2>3 DEF t
  <1> QED
    BY <1>2, <1>3, InputNotes

(* A note that may be spent is below its anchor's root.                    *)
LEMMA CandidateEnters ==
  ASSUME Types, NEW s \in Good, HAnchor(s) \in DOMAIN s.roots,
         NEW a \in Candidates(file, s), Enters(s.leaves, a)
  PROVE  Enters(s.roots[HAnchor(s)], Enabled(a))
  <1> DEFINE h == HAnchor(s)
             k == s.leaf_counts[h]
  <1>1. a \in Note /\ a.pos < k
    BY FileNotes DEF Candidates
  <1>2. /\ h \in DOMAIN s.roots /\ k <= Len(s.leaves) /\ k \in Nat
        /\ s.roots[h] = SubSeq(s.leaves, 1, k) /\ s.leaves \in Seq(Leaf)
    <2>1. RP!RootHistory(s) /\ RP!StateOK(s)
      BY DEF Good, RP!StateInv
    <2> HIDE DEF h
    <2> QED
      BY <2>1, Instance DEF RP!RootHistory, RP!StateOK, RP!HeightMap, h
  <1> HIDE DEF h, k
  <1>3. Len(SubSeq(s.leaves, 1, k)) = k /\ \A i \in 1..k : SubSeq(s.leaves, 1, k)[i] = s.leaves[i]
    <2>1. k \in 0..Len(s.leaves)
      BY <1>2, LenProperties
    <2> QED
      BY <1>2, <2>1, UptoIs DEF Upto
  <1>4. a.pos \in Nat /\ a.pos + 1 \in 1..k /\ s.leaves[a.pos + 1] = a.leaf
    BY <1>1, <1>2 DEF Note, Enters
  <1>5. Enabled(a).pos = a.pos /\ Enabled(a).leaf = a.leaf
    BY DEF Enabled
  <1> QED
    BY <1>1, <1>2, <1>3, <1>4, <1>5 DEF Enters, h

LEMMA EnabledNf ==
  ASSUME NEW t, NEW i, NEW a, t.ins[i] = Enabled(a)
  PROVE  Nf(t, i) = OwnNullifier(a) /\ t.ins[i].on
  BY DEF Enabled, Nf, OwnNullifier

LEMMA DummyNf ==
  ASSUME NEW t, NEW i, NEW n, t.ins[i] = Dummy(n)
  PROVE  Nf(t, i) = << <<"dummy", n>>, 0, 0>> /\ ~t.ins[i].on
  BY DEF Dummy, Nf

(* The note of a leaf is not a dummy.                                      *)
LEMMA NoDummy ==
  ASSUME NEW s, Clean(s), s.leaves \in Seq(Leaf), NEW n \in Note, Enters(s.leaves, n),
         NEW k \in 1..MaxTx, NEW j, NEW pos
  PROVE  OwnNullifier(n) # << <<"dummy", k>>, j, pos>>
  <1>1. n.pos + 1 \in DOMAIN s.leaves /\ s.leaves[n.pos + 1] = n.leaf
    BY LenProperties DEF Enters, Note
  <1>2. n.leaf.src # <<"dummy", k>>
    BY <1>1 DEF Clean, Dummies
  <1> QED
    BY <1>2 DEF OwnNullifier

(* Two notes of the file have two positions.                               *)
LEMMA TwoPlaces ==
  ASSUME NEW f, FileOK(f), NEW a \in Range(f.notes), NEW b \in Range(f.notes), a.pos = b.pos
  PROVE  a = b
  BY DEF FileOK, Placed, Range

LEMMA SameNullifier ==
  ASSUME NEW f, FileOK(f), NEW a \in Range(f.notes), NEW b \in Range(f.notes),
         OwnNullifier(a) = OwnNullifier(b)
  PROVE  a = b
  <1>1. a.pos = b.pos
    BY DEF OwnNullifier
  <1> QED
    BY <1>1, TwoPlaces

LEMMA BuiltIsOurs ==
  ASSUME Types, NEW s \in Good, Clean(s), NEW in \in Inputs(file, s), built < MaxTx,
         HAnchor(s) \in DOMAIN s.roots, \A a \in Range(in) : Enters(s.leaves, a)
  PROVE  Transfer(built + 1, s, in) \in OwnTransfers
  <1> DEFINE n == built + 1
             t == Transfer(n, s, in)
             e == t.env
  <1>1. n \in 1..MaxTx /\ n \in Nat
    BY WalletConstants DEF Types
  <1>2. t \in TransfersOf
    BY TransferTyped
  <1>3. /\ t.id = n /\ e.body = <<"body", n>> /\ e.root = s.roots[HAnchor(s)]
        /\ e.outs[0] = Amount /\ e.outs[1] = Total(in) - Amount
    BY DEF Transfer, Slots
  <1>4. Total(in) \in Nat /\ Amount \in Nat
    BY InputsCover, WalletConstants
  <1>5. \/ \E a \in Candidates(file, s) :
             /\ in = <<a>> /\ Range(in) = {a}
             /\ e.ins[0] = Enabled(a) /\ e.ins[1] = Dummy(n)
        \/ \E a, b \in Candidates(file, s) :
             /\ a # b /\ in = <<a, b>> /\ Range(in) = {a, b}
             /\ e.ins[0] = Enabled(a) /\ e.ins[1] = Enabled(b)
    BY <1>1, BuiltSlots
  <1>6. s.leaves \in Seq(Leaf) /\ FileOK(file)
    BY DEF Good, States, Types
  <1>7. \A i \in Slots : i = 0 \/ i = 1
    BY DEF Slots
  <1> HIDE DEF t, n
  <1> SUFFICES /\ \A i \in Slots : e.ins[i].on \/ e.ins[i] = Dummy(n)
               /\ Nf(e, 0) # Nf(e, 1)
               /\ \A i \in Slots : e.ins[i].on => Enters(e.root, e.ins[i])
               /\ InValue(e, 0) + InValue(e, 1) = Total(in)
    <2>1. InValue(e, 0) + InValue(e, 1) = e.outs[0] + e.outs[1]
      BY <1>3, <1>4
    <2> QED
      BY <1>1, <1>2, <1>3, <2>1 DEF OwnTransfers, Verify, t, n
  <1>8. CASE \E a \in Candidates(file, s) :
               /\ in = <<a>> /\ Range(in) = {a}
               /\ e.ins[0] = Enabled(a) /\ e.ins[1] = Dummy(n)
    <2>1. PICK a \in Candidates(file, s) :
            /\ in = <<a>> /\ Range(in) = {a}
            /\ e.ins[0] = Enabled(a) /\ e.ins[1] = Dummy(n)
      BY <1>8
    <2>2. a \in Note /\ Enters(s.leaves, a)
      BY <2>1, FileNotes DEF Candidates
    <2>3. Nf(e, 0) = OwnNullifier(a) /\ e.ins[0].on
      BY <2>1, EnabledNf
    <2>4. Nf(e, 1) = << <<"dummy", n>>, 0, 0>> /\ ~e.ins[1].on
      BY <2>1, DummyNf
    <2>5. Nf(e, 0) # Nf(e, 1)
      BY <1>1, <1>6, <2>2, <2>3, <2>4, NoDummy
    <2>6. Enters(e.root, e.ins[0])
      BY <1>3, <2>1, <2>2, CandidateEnters
    <2>7. InValue(e, 0) = a.leaf.v /\ InValue(e, 1) = 0 /\ a.leaf.v \in Nat
      BY <2>1, <2>2, <2>3, <2>4 DEF InValue, Enabled, Note, Leaf
    <2>8. Total(in) = a.leaf.v
      BY <2>1 DEF Total
    <2> QED
      BY <1>7, <2>1, <2>3, <2>4, <2>5, <2>6, <2>7, <2>8
  <1>9. CASE \E a, b \in Candidates(file, s) :
               /\ a # b /\ in = <<a, b>> /\ Range(in) = {a, b}
               /\ e.ins[0] = Enabled(a) /\ e.ins[1] = Enabled(b)
    <2>1. PICK a \in Candidates(file, s), b \in Candidates(file, s) :
            /\ a # b /\ in = <<a, b>> /\ Range(in) = {a, b}
            /\ e.ins[0] = Enabled(a) /\ e.ins[1] = Enabled(b)
      BY <1>9
    <2>2. /\ a \in Note /\ Enters(s.leaves, a) /\ b \in Note /\ Enters(s.leaves, b)
          /\ a \in Range(file.notes) /\ b \in Range(file.notes)
      BY <2>1, FileNotes DEF Candidates
    <2>3. /\ Nf(e, 0) = OwnNullifier(a) /\ e.ins[0].on
          /\ Nf(e, 1) = OwnNullifier(b) /\ e.ins[1].on
      BY <2>1, EnabledNf
    <2>4. Nf(e, 0) # Nf(e, 1)
      BY <1>6, <2>1, <2>2, <2>3, SameNullifier
    <2>5. Enters(e.root, e.ins[0]) /\ Enters(e.root, e.ins[1])
      BY <1>3, <2>1, <2>2, CandidateEnters
    <2>6. InValue(e, 0) = a.leaf.v /\ InValue(e, 1) = b.leaf.v
      BY <2>1, <2>3 DEF InValue, Enabled
    <2>7. Total(in) = a.leaf.v + b.leaf.v
      <3>1. Len(in) = 2 /\ in[1] = a /\ in[2] = b
        BY <2>1
      <3> QED
        BY <3>1 DEF Total
    <2> QED
      BY <1>7, <2>3, <2>4, <2>5, <2>6, <2>7
  <1> QED
    BY <1>5, <1>8, <1>9

-----------------------------------------------------------------------------
(* Every transfer around is this wallet's, and every other carrier a mint.  *)

InHand(p) == pc[p] \in {"built", "published"}

Shapes ==
  /\ mempool \subseteq OwnTransfers /\ gone \subseteq OwnTransfers
  /\ MinedIn(chain) \subseteq PlainMints \cup OwnTransfers
  /\ \A p \in Procs : InHand(p) => tx[p] \in OwnTransfers
  /\ \A p \in Procs : Clean(view[p])

ShapeInv == WalletInv /\ Shapes

LEMMA MinedIs == Mined = MinedIn(chain)
  BY DEF Mined, MinedIn

LEMMA InitShapes == Init => Shapes
  <1> SUFFICES ASSUME Init PROVE Shapes
    OBVIOUS
  <1>1. MinedIn(chain) \subseteq PlainMints
    <2> SUFFICES ASSUME NEW k \in DOMAIN chain, NEW i \in DOMAIN chain[k]
                 PROVE  chain[k][i] \in PlainMints
      BY DEF MinedIn, Range
    <2>1. chain \in Seq(Seq(PlainMints))
      BY WalletConstants DEF Init
    <2>2. chain[k] \in Seq(PlainMints)
      BY <2>1, LenProperties, ElementOfSeq
    <2> QED
      BY <2>2, LenProperties, ElementOfSeq
  <1>2. \A p \in Procs : pc[p] = "idle" /\ view[p] = R!Fresh
    BY DEF Init
  <1>3. mempool = {} /\ gone = {}
    BY DEF Init
  <1> QED
    BY <1>1, <1>2, <1>3, CleanFresh DEF Shapes, InHand

(* Ends of commands.                                                       *)
LEMMA Ended ==
  ASSUME Types, NEW p \in Procs, End(p)
  PROVE  /\ pc'[p] = "idle" /\ view'[p] = R!Fresh
         /\ \A q \in Procs \ {p} : pc'[q] = pc[q] /\ view'[q] = view[q] /\ tx'[q] = tx[q]
  BY DEF Types, End, Goto

LEMMA EndShapes ==
  ASSUME ShapeInv, NEW p \in Procs, End(p), chain' = chain, gone' = gone,
         mempool' \subseteq OwnTransfers
  PROVE  Shapes'
  <1>1. /\ pc'[p] = "idle" /\ view'[p] = R!Fresh
        /\ \A q \in Procs \ {p} : pc'[q] = pc[q] /\ view'[q] = view[q] /\ tx'[q] = tx[q]
    BY Ended DEF ShapeInv, WalletInv
  <1>2. ~InHand(p)' /\ Clean(view'[p])
    BY <1>1, CleanFresh DEF InHand
  <1>3. \A q \in Procs \ {p} : InHand(q)' => InHand(q) /\ tx'[q] = tx[q]
    BY <1>1 DEF InHand
  <1> QED
    BY <1>1, <1>2, <1>3 DEF ShapeInv, Shapes

LEMMA StepShapes ==
  ASSUME ShapeInv, NEW p \in Procs, Step(p)
  PROVE  Shapes'
  <1>0. Types /\ Shapes
    BY DEF ShapeInv, WalletInv
  <1>1. CASE Sync(p)
    <2>1. /\ pc' = [pc EXCEPT ![p] = "synced"] /\ view' = [view EXCEPT ![p] = Replayed(chain)]
          /\ UNCHANGED <<chain, mempool, gone, tx>>
      BY <1>1 DEF Sync, Goto, network
    <2>2. Clean(Replayed(chain))
      BY <1>0, CleanReplayed DEF Types, Shapes
    <2>3. /\ \A q \in Procs : InHand(q)' => InHand(q)
          /\ \A q \in Procs : view'[q] = IF q = p THEN Replayed(chain) ELSE view[q]
      BY <1>0, <2>1 DEF Types, InHand
    <2> QED
      BY <1>0, <2>1, <2>2, <2>3 DEF Shapes
  <1>2. CASE OpenAndScan(p)
    <2>1. /\ pc' = [pc EXCEPT ![p] = "scanned"]
          /\ UNCHANGED <<chain, mempool, gone, tx, view>>
      BY <1>2 DEF OpenAndScan, Goto, network
    <2>2. \A q \in Procs : InHand(q)' => InHand(q)
      BY <1>0, <2>1 DEF Types, InHand
    <2> QED
      BY <1>0, <2>1, <2>2 DEF Shapes
  <1>3. CASE BuildTransfer(p)
    <2>1. PICK in \in Inputs(file, view[p]) :
            /\ \A n \in Range(in) : Enters(view[p].leaves, n)
            /\ tx' = [tx EXCEPT ![p] = Transfer(built + 1, view[p], in)]
      BY <1>3 DEF BuildTransfer
    <2>2. /\ built < MaxTx /\ HAnchor(view[p]) \in DOMAIN view[p].roots
          /\ pc' = [pc EXCEPT ![p] = "built"] /\ UNCHANGED <<chain, mempool, gone, view>>
      BY <1>3 DEF BuildTransfer, Goto, network
    <2>3. view[p] \in Good /\ Clean(view[p])
      BY <1>0 DEF Types, Shapes
    <2>4. Transfer(built + 1, view[p], in) \in OwnTransfers
      BY <1>0, <2>1, <2>2, <2>3, BuiltIsOurs
    <2>5. /\ tx'[p] \in OwnTransfers
          /\ \A q \in Procs \ {p} : tx'[q] = tx[q] /\ pc'[q] = pc[q]
      BY <1>0, <2>1, <2>2, <2>4 DEF Types
    <2> QED
      BY <1>0, <2>2, <2>5 DEF Shapes, InHand
  <1>4. CASE Broadcast(p)
    <2>1. /\ pc[p] = "built" /\ mempool' = mempool \cup {tx[p]}
          /\ pc' = [pc EXCEPT ![p] = "published"] /\ UNCHANGED <<chain, gone, tx, view>>
      BY <1>4 DEF Broadcast, Goto, Relay
    <2>2. tx[p] \in OwnTransfers
      BY <1>0, <2>1 DEF Shapes, InHand
    <2>3. \A q \in Procs : InHand(q)' => InHand(q)
      BY <1>0, <2>1 DEF Types, InHand
    <2> QED
      BY <1>0, <2>1, <2>2, <2>3 DEF Shapes
  <1>5. CASE BroadcastLost(p)
    <2>1. /\ pc[p] = "built" /\ mempool' = mempool \cup {tx[p]}
          /\ End(p) /\ UNCHANGED <<chain, gone>>
      BY <1>5 DEF BroadcastLost, Relay
    <2>2. mempool' \subseteq OwnTransfers
      BY <1>0, <2>1 DEF Shapes, InHand
    <2> QED
      BY <2>1, <2>2, EndShapes
  <1>6. CASE LockInputs(p) \/ Quit(p) \/ CrashUnsaved(p) \/ Unlock(p)
    <2>1. End(p) /\ UNCHANGED <<chain, mempool, gone>>
      BY <1>6 DEF LockInputs, Quit, CrashUnsaved, Unlock, network
    <2> QED
      BY <1>0, <2>1, EndShapes DEF Shapes
  <1>7. ASSUME NEW t, AskCarrier(p, t)
        PROVE  Shapes'
    <2>1. /\ pc' = [pc EXCEPT ![p] = "unlock"] /\ tx' = [tx EXCEPT ![p] = t]
          /\ UNCHANGED <<chain, mempool, gone, view>>
      BY <1>7 DEF AskCarrier, Goto, network
    <2>2. \A q \in Procs : InHand(q)' => InHand(q) /\ tx'[q] = tx[q]
      BY <1>0, <2>1 DEF Types, InHand
    <2> QED
      BY <1>0, <2>1, <2>2 DEF Shapes
  <1> QED
    BY <1>1, <1>2, <1>3, <1>4, <1>5, <1>6, <1>7 DEF Step

(* What is mined: nothing or one carrier.                                  *)
LEMMA MineIs ==
  ASSUME Types, MineAny
  PROVE  \E txs \in Seq(Tx) :
           /\ Range(txs) \subseteq Minable /\ Height < MaxHeight
           /\ chain' = Append(chain, txs) /\ mempool' = mempool \ Range(txs)
           /\ UNCHANGED <<gone, orphans, dropped, built, stored, file, pc, view, tx>>
           /\ Len(chain') = Len(chain) + 1
           /\ \A i \in 1..Len(chain) : chain'[i] = chain[i]
           /\ MinedIn(chain') = MinedIn(chain) \cup Range(txs)
  <1>1. Minable \subseteq Tx
    BY WalletConstants, OpeningTyped DEF Types, Minable
  <1>2. PICK txs \in Seq(Tx) : Range(txs) \subseteq Minable /\ Mine(txs)
    <2>1. <<>> \in Seq(Tx) /\ Range(<<>>) = {}
      BY EmptySeq DEF Range
    <2>2. \A t \in Minable : <<t>> \in Seq(Tx) /\ Range(<<t>>) = {t}
      BY <1>1 DEF Range
    <2> QED
      BY <2>1, <2>2 DEF MineAny
  <1>3. /\ Height < MaxHeight
        /\ chain' = Append(chain, txs) /\ mempool' = mempool \ Range(txs)
        /\ UNCHANGED <<gone, orphans, dropped, built, stored, file, pc, view, tx>>
    BY <1>2 DEF Mine
  <1>4. /\ chain' \in Seq(Seq(Tx)) /\ Len(chain') = Len(chain) + 1 /\ Len(chain) \in Nat
        /\ \A i \in 1..Len(chain) : chain'[i] = chain[i]
        /\ chain'[Len(chain) + 1] = txs
    BY <1>3, AppendProperties, LenProperties DEF Types
  <1>5. DOMAIN chain' = 1..(Len(chain) + 1) /\ DOMAIN chain = 1..Len(chain)
    BY <1>4, LenProperties DEF Types
  <1>6. MinedIn(chain') = MinedIn(chain) \cup Range(txs)
    <2>1. ASSUME NEW x \in MinedIn(chain') PROVE x \in MinedIn(chain) \cup Range(txs)
      <3>1. PICK k \in 1..(Len(chain) + 1) : x \in Range(chain'[k])
        BY <1>5, <2>1 DEF MinedIn
      <3>2. CASE k = Len(chain) + 1
        BY <1>4, <3>1, <3>2
      <3>3. CASE k # Len(chain) + 1
        <4>1. k \in 1..Len(chain)
          BY <1>4, <3>1, <3>3
        <4>2. x \in Range(chain[k]) /\ k \in DOMAIN chain
          BY <1>4, <1>5, <3>1, <4>1
        <4> QED
          BY <4>2 DEF MinedIn
      <3> QED
        BY <3>2, <3>3
    <2>2. ASSUME NEW x \in MinedIn(chain) PROVE x \in MinedIn(chain')
      <3>1. PICK k \in 1..Len(chain) : x \in Range(chain[k])
        BY <1>5, <2>2 DEF MinedIn
      <3>2. k \in DOMAIN chain' /\ chain'[k] = chain[k]
        BY <1>4, <1>5, <3>1
      <3> QED
        BY <3>1, <3>2 DEF MinedIn
    <2>3. ASSUME NEW x \in Range(txs) PROVE x \in MinedIn(chain')
      <3>1. Len(chain) + 1 \in DOMAIN chain'
        BY <1>4, <1>5
      <3> QED
        BY <1>4, <2>3, <3>1 DEF MinedIn
    <2> QED
      BY <2>1, <2>2, <2>3
  <1> QED
    BY <1>2, <1>3, <1>4, <1>6

LEMMA MinableIs ==
  ASSUME Shapes
  PROVE  /\ Minable \subseteq PlainMints \cup OwnTransfers
         /\ Minable \cap TransfersOf \subseteq mempool
  BY WalletConstants DEF Shapes, Minable, PlainMints, TransfersOf

LEMMA DisconnectIs ==
  ASSUME Types, Disconnect
  PROVE  /\ dropped < MaxDropped /\ dropped' = dropped + 1
         /\ chain' \in Seq(Seq(Tx)) /\ Len(chain) = Len(chain') + 1
         /\ \A i \in 1..Len(chain') : chain'[i] = chain[i]
         /\ mempool \subseteq mempool'
         /\ mempool' \subseteq mempool \cup (MinedIn(chain) \cap TransfersOf)
         /\ MinedIn(chain') \subseteq MinedIn(chain)
         /\ UNCHANGED <<gone, built, stored, file, pc, view, tx>>
  <1>1. /\ dropped < MaxDropped /\ Len(chain) > Len(Opening)
        /\ dropped' = dropped + 1 /\ chain' = Front(chain)
        /\ mempool' = mempool \cup {t \in Range(Last(chain)) : t.env.kind = "transfer"}
        /\ UNCHANGED <<gone, built, stored, file, pc, view, tx>>
    BY DEF Disconnect
  <1>2. /\ Len(chain) \in Nat \ {0} /\ DOMAIN chain = 1..Len(chain)
        /\ \A i \in 1..Len(chain) : chain[i] \in Seq(Tx)
    BY <1>1, OpeningTyped, LenProperties, ElementOfSeq DEF Types
  <1>3. chain' = Upto(chain, Len(chain) - 1)
    BY <1>1 DEF Front, Upto
  <1>4. /\ chain' \in Seq(Seq(Tx)) /\ Len(chain') = Len(chain) - 1
        /\ \A i \in 1..(Len(chain) - 1) : chain'[i] = chain[i]
    <2>1. Len(chain) - 1 \in 0..Len(chain) /\ chain \in Seq(Seq(Tx))
      BY <1>2 DEF Types
    <2> QED
      BY <1>3, <2>1, UptoIs
  <1>5. DOMAIN chain' = 1..(Len(chain) - 1)
    BY <1>4, LenProperties
  <1>6. MinedIn(chain') \subseteq MinedIn(chain)
    <2>0. Len(chain) \in Nat /\ DOMAIN chain = 1..Len(chain)
      BY <1>2
    <2>1. \A k \in DOMAIN chain' : k \in DOMAIN chain /\ chain'[k] = chain[k]
      BY <2>0, <1>4, <1>5
    <2> QED
      BY <2>1 DEF MinedIn
  <1>7. {t \in Range(Last(chain)) : t.env.kind = "transfer"} \subseteq MinedIn(chain) \cap TransfersOf
    <2>1. Len(chain) \in DOMAIN chain /\ Last(chain) = chain[Len(chain)]
      BY <1>2 DEF Last
    <2>2. Range(Last(chain)) \subseteq MinedIn(chain)
      BY <2>1 DEF MinedIn
    <2>3. Range(Last(chain)) \subseteq Tx
      <3>1. Last(chain) \in Seq(Tx)
        BY <1>2, <2>1
      <3> QED
        BY <3>1, RangeOfSeq DEF Range
    <2> QED
      BY <2>2, <2>3 DEF TransfersOf
  <1> QED
    BY <1>1, <1>2, <1>4, <1>6, <1>7

LEMMA NetworkShapes ==
  ASSUME ShapeInv,
         \/ MineAny \/ Disconnect
         \/ (\E t \in mempool : Evict(t)) \/ (\E t \in gone : Return(t))
  PROVE  Shapes'
  <1>0. Types /\ Shapes
    BY DEF ShapeInv, WalletInv
  <1>1. CASE MineAny
    <2>1. PICK txs \in Seq(Tx) :
            /\ Range(txs) \subseteq Minable /\ mempool' = mempool \ Range(txs)
            /\ UNCHANGED <<gone, pc, view, tx>>
            /\ MinedIn(chain') = MinedIn(chain) \cup Range(txs)
      BY <1>0, <1>1, MineIs
    <2> QED
      BY <1>0, <2>1, MinableIs DEF Shapes, InHand
  <1>2. CASE Disconnect
    <2>1. /\ mempool' \subseteq mempool \cup (MinedIn(chain) \cap TransfersOf)
          /\ MinedIn(chain') \subseteq MinedIn(chain)
          /\ UNCHANGED <<gone, pc, view, tx>>
      BY <1>0, <1>2, DisconnectIs
    <2>2. PlainMints \cap TransfersOf = {}
      BY DEF PlainMints, TransfersOf
    <2> QED
      BY <1>0, <2>1, <2>2 DEF Shapes, InHand
  <1>3. CASE (\E t \in mempool : Evict(t)) \/ (\E t \in gone : Return(t))
    <2>1. /\ UNCHANGED <<chain, pc, view, tx>>
          /\ mempool' \cup gone' \subseteq mempool \cup gone
      BY <1>3 DEF Evict, Return
    <2> QED
      BY <1>0, <2>1 DEF Shapes, InHand
  <1> QED
    BY <1>1, <1>2, <1>3

LEMMA AlwaysShapes == Spec => []ShapeInv
  <1>1. Init => ShapeInv
    BY InitInv, InitShapes DEF ShapeInv
  <1>2. ShapeInv /\ [Next]_vars => ShapeInv'
    <2> SUFFICES ASSUME ShapeInv, [Next]_vars PROVE Shapes'
      BY NextInv DEF ShapeInv
    <2>1. CASE UNCHANGED vars
      BY <2>1 DEF vars, network, ShapeInv, Shapes, InHand
    <2>2. CASE Next
      BY <2>2, StepShapes, NetworkShapes DEF Next
    <2> QED
      BY <2>1, <2>2
  <1> QED
    BY <1>1, <1>2, PTL DEF Spec

-----------------------------------------------------------------------------
(* Anchors: how far below the tip they are, and that their trees are there. *)

IsAround(t) ==
  \/ t \in mempool \/ t \in gone \/ t \in MinedIn(chain) \cap TransfersOf
  \/ \E p \in Procs : InHand(p) /\ t = tx[p]

RootedAt(t) ==
  /\ t.env.anchor >= Activation - 1 /\ t.env.anchor <= Height
  /\ t.env.anchor + KWallet <= Height + dropped + 1
  /\ t.env.root = Past(chain, t.env.anchor)

(* A view may be of blocks that were replaced since, MaxDropped of them at  *)
(* the most; below those its roots are the chain's.                         *)
ViewKept(s) ==
  /\ s.replayed_height <= Height + dropped
  /\ Activation - 1 \in DOMAIN s.roots => s.roots[Activation - 1] = <<>>
  /\ \A h \in DOMAIN s.roots :
       /\ h \in Nat /\ h >= Activation - 1
       /\ h + MaxDropped <= s.replayed_height => h <= Height /\ s.roots[h] = Past(chain, h)

Rooted ==
  /\ \A t \in OwnTransfers : IsAround(t) => RootedAt(t)
  /\ \A p \in Procs : ViewKept(view[p])

(* What a step does to the chain.                                          *)
SameChain == chain' = chain /\ dropped' = dropped
Longer1 ==
  /\ Len(chain') = Len(chain) + 1 /\ dropped' = dropped
  /\ \A i \in 1..Len(chain) : chain'[i] = chain[i]
Shorter1 ==
  /\ Len(chain) = Len(chain') + 1 /\ dropped' = dropped + 1
  /\ \A i \in 1..Len(chain') : chain'[i] = chain[i]

LEMMA ChainMoves ==
  ASSUME Types, [Next]_vars
  PROVE  SameChain \/ Longer1 \/ Shorter1
  <1>1. CASE MineAny
    BY <1>1, MineIs DEF Longer1
  <1>2. CASE Disconnect
    BY <1>2, DisconnectIs DEF Shorter1
  <1>3. CASE \E p \in Procs : Step(p)
    BY <1>3 DEF Step, Sync, OpenAndScan, BuildTransfer, Broadcast, BroadcastLost, LockInputs,
                Quit, CrashUnsaved, AskCarrier, Unlock, Relay, network, SameChain
  <1>4. CASE (\E t \in mempool : Evict(t)) \/ (\E t \in gone : Return(t))
    BY <1>4 DEF Evict, Return, SameChain
  <1>5. CASE UNCHANGED vars
    BY <1>5 DEF vars, network, SameChain
  <1> QED
    BY <1>1, <1>2, <1>3, <1>4, <1>5 DEF Next

(* A command's step: only its own carrier, and what it relays, may be new.  *)
LEMMA AroundBut ==
  ASSUME NEW p \in Procs, \A q \in Procs \ {p} : pc'[q] = pc[q] /\ tx'[q] = tx[q],
         chain' = chain, gone' = gone, NEW t, IsAround(t)'
  PROVE  IsAround(t) \/ t \in mempool' \ mempool \/ (InHand(p)' /\ t = tx'[p])
  <1>1. CASE t \in mempool' \/ t \in gone' \/ t \in MinedIn(chain') \cap TransfersOf
    BY <1>1 DEF IsAround
  <1>2. CASE \E q \in Procs : InHand(q)' /\ t = tx'[q]
    <2>1. PICK q \in Procs : InHand(q)' /\ t = tx'[q]
      BY <1>2
    <2>2. CASE q # p
      <3>1. InHand(q) /\ t = tx[q]
        BY <2>1, <2>2 DEF InHand
      <3> QED
        BY <3>1 DEF IsAround
    <2> QED
      BY <2>1, <2>2
  <1> QED
    BY <1>1, <1>2 DEF IsAround

(* What a step adds to the transfers around.                               *)
LEMMA AroundGrows ==
  ASSUME ShapeInv, [Next]_vars, NEW t, IsAround(t)'
  PROVE  IsAround(t) \/ \E p \in Procs : BuildTransfer(p) /\ t = tx'[p]
  <1>0. Types /\ Shapes
    BY DEF ShapeInv, WalletInv
  <1>1. CASE MineAny
    <2>1. PICK txs \in Seq(Tx) :
            /\ Range(txs) \subseteq Minable /\ mempool' = mempool \ Range(txs)
            /\ UNCHANGED <<gone, pc, tx>>
            /\ MinedIn(chain') = MinedIn(chain) \cup Range(txs)
      BY <1>0, <1>1, MineIs
    <2> QED
      BY <1>0, <2>1, MinableIs DEF IsAround, InHand
  <1>2. CASE Disconnect
    <2>1. /\ mempool' \subseteq mempool \cup (MinedIn(chain) \cap TransfersOf)
          /\ MinedIn(chain') \subseteq MinedIn(chain)
          /\ UNCHANGED <<gone, pc, view, tx>>
      BY <1>0, <1>2, DisconnectIs
    <2> QED
      BY <2>1 DEF IsAround, InHand
  <1>3. CASE (\E u \in mempool : Evict(u)) \/ (\E u \in gone : Return(u))
    <2>1. /\ UNCHANGED <<chain, pc, view, tx>>
          /\ mempool' \cup gone' \subseteq mempool \cup gone
      BY <1>3 DEF Evict, Return
    <2> QED
      BY <2>1 DEF IsAround, InHand
  <1>4. CASE UNCHANGED vars
    BY <1>4 DEF vars, network, IsAround, InHand
  <1>5. ASSUME NEW p \in Procs, Step(p)
        PROVE  IsAround(t) \/ (BuildTransfer(p) /\ t = tx'[p])
    <2>1. CASE Sync(p) \/ OpenAndScan(p)
      <3>1. /\ pc'[p] \in {"synced", "scanned"}
            /\ \A q \in Procs \ {p} : pc'[q] = pc[q] /\ tx'[q] = tx[q]
            /\ UNCHANGED <<chain, mempool, gone>>
        BY <1>0, <2>1 DEF Sync, OpenAndScan, Goto, network, Types
      <3>2. ~InHand(p)'
        BY <3>1 DEF InHand
      <3> QED
        BY <3>1, <3>2, AroundBut
    <2>2. CASE BuildTransfer(p)
      <3>1. /\ \A q \in Procs \ {p} : pc'[q] = pc[q] /\ tx'[q] = tx[q]
            /\ UNCHANGED <<chain, mempool, gone>>
        BY <1>0, <2>2 DEF BuildTransfer, Goto, network, Types
      <3> QED
        BY <2>2, <3>1, AroundBut
    <2>3. CASE Broadcast(p)
      <3>1. /\ pc[p] = "built" /\ tx'[p] = tx[p]
            /\ \A q \in Procs \ {p} : pc'[q] = pc[q] /\ tx'[q] = tx[q]
            /\ mempool' = mempool \cup {tx[p]} /\ UNCHANGED <<chain, gone>>
        BY <1>0, <2>3 DEF Broadcast, Relay, Goto, Types
      <3>2. IsAround(tx[p])
        BY <3>1 DEF IsAround, InHand
      <3>3. IsAround(t) \/ t \in {tx[p]} \/ t = tx'[p]
        BY <3>1, AroundBut
      <3> QED
        BY <3>1, <3>2, <3>3
    <2>4. CASE BroadcastLost(p)
      <3>1. /\ pc[p] = "built" /\ mempool' = mempool \cup {tx[p]} /\ UNCHANGED <<chain, gone>>
            /\ pc'[p] = "idle" /\ \A q \in Procs \ {p} : pc'[q] = pc[q] /\ tx'[q] = tx[q]
        BY <1>0, <2>4, Ended DEF BroadcastLost, Relay
      <3>2. IsAround(tx[p]) /\ ~InHand(p)'
        BY <3>1 DEF IsAround, InHand
      <3>3. IsAround(t) \/ t \in {tx[p]}
        BY <3>1, <3>2, AroundBut
      <3> QED
        BY <3>2, <3>3
    <2>5. CASE LockInputs(p) \/ Quit(p) \/ CrashUnsaved(p) \/ Unlock(p)
      <3>1. UNCHANGED <<chain, mempool, gone>> /\ End(p)
        BY <2>5 DEF LockInputs, Quit, CrashUnsaved, Unlock, network
      <3>2. pc'[p] = "idle" /\ \A q \in Procs \ {p} : pc'[q] = pc[q] /\ tx'[q] = tx[q]
        BY <1>0, <3>1, Ended
      <3>3. ~InHand(p)'
        BY <3>2 DEF InHand
      <3> QED
        BY <3>1, <3>2, <3>3, AroundBut
    <2>6. ASSUME NEW u, AskCarrier(p, u)
          PROVE  IsAround(t)
      <3>1. /\ pc'[p] = "unlock" /\ \A q \in Procs \ {p} : pc'[q] = pc[q] /\ tx'[q] = tx[q]
            /\ UNCHANGED <<chain, mempool, gone>>
        BY <1>0, <2>6 DEF AskCarrier, Goto, network, Types
      <3>2. ~InHand(p)'
        BY <3>1 DEF InHand
      <3> QED
        BY <3>1, <3>2, AroundBut
    <2> QED
      BY <1>5, <2>1, <2>2, <2>3, <2>4, <2>5, <2>6 DEF Step
  <1> QED
    BY <1>1, <1>2, <1>3, <1>4, <1>5 DEF Next

LEMMA ViewMoves ==
  ASSUME Types, [Next]_vars, NEW p \in Procs
  PROVE  \/ view'[p] = view[p] \/ view'[p] = R!Fresh
         \/ view'[p] = Replayed(chain) /\ SameChain
  <1>1. CASE MineAny \/ Disconnect \/ (\E t \in mempool : Evict(t)) \/ (\E t \in gone : Return(t))
    BY <1>1, MineIs, DisconnectIs DEF Evict, Return
  <1>2. ASSUME NEW q \in Procs, Step(q)
        PROVE  \/ view'[p] = view[p] \/ view'[p] = R!Fresh
               \/ view'[p] = Replayed(chain) /\ SameChain
    <2>1. CASE Sync(q)
      BY <2>1 DEF Sync, network, SameChain, Types
    <2>2. CASE OpenAndScan(q) \/ BuildTransfer(q) \/ Broadcast(q)
      BY <2>2 DEF OpenAndScan, BuildTransfer, Broadcast
    <2>3. CASE BroadcastLost(q) \/ LockInputs(q) \/ Quit(q) \/ CrashUnsaved(q) \/ Unlock(q)
      <3>1. End(q)
        BY <2>3 DEF BroadcastLost, LockInputs, Quit, CrashUnsaved, Unlock
      <3> QED
        BY <3>1, Ended
    <2>4. ASSUME NEW u, AskCarrier(q, u)
          PROVE  view'[p] = view[p]
      BY <2>4 DEF AskCarrier
    <2> QED
      BY <1>2, <2>1, <2>2, <2>3, <2>4 DEF Step
  <1>3. CASE UNCHANGED vars
    BY <1>3 DEF vars
  <1> QED
    BY <1>1, <1>2, <1>3 DEF Next

(* K_WALLET leaves room for K_MIN and for all blocks ever disconnected.      *)
Deep == MaxDropped + KMin <= KWallet

LEMMA HeightIs ==
  ASSUME Types
  PROVE  /\ Height = Activation - 1 + Len(chain) /\ Height \in Nat
         /\ dropped \in Nat /\ dropped <= MaxDropped /\ MaxDropped \in Nat
         /\ Activation \in Nat /\ Len(chain) \in Nat /\ KWallet \in Nat /\ KMin \in Nat \ {0}
  BY HeightNat, WalletConstants, LenProperties, SMTT(30) DEF Types, Height

(* Trees at heights that both chains have.                                 *)
LEMMA PastMoves ==
  ASSUME Types, Types', SameChain \/ Longer1 \/ Shorter1,
         NEW h \in Int, h >= Activation - 1, h <= Height, h <= Height'
  PROVE  Past(chain', h) = Past(chain, h)
  <1>1. chain \in Seq(Seq(Tx)) /\ chain' \in Seq(Seq(Tx)) /\ Len(chain) \in Nat /\ Len(chain') \in Nat
    BY LenProperties DEF Types
  <1>2. h <= Activation - 1 + Len(chain) /\ h <= Activation - 1 + Len(chain')
    BY DEF Height
  <1>3. \A i \in 1..Len(chain) : i <= Len(chain') => chain'[i] = chain[i]
    BY <1>1 DEF SameChain, Longer1, Shorter1
  <1> QED
    BY <1>1, <1>2, <1>3, PastStays

LEMMA RootedStays ==
  ASSUME Deep, Types, Types', SameChain \/ Longer1 \/ Shorter1,
         NEW t \in TransfersOf, RootedAt(t)
  PROVE  RootedAt(t)'
  <1> DEFINE a == t.env.anchor
  <1>1. a \in Nat
    BY TransferOf
  <1>2. a >= Activation - 1 /\ a <= Height /\ a + KWallet <= Height + dropped + 1
        /\ t.env.root = Past(chain, a)
    BY DEF RootedAt
  <1>3. a <= Height' /\ a + KWallet <= Height' + dropped' + 1
    <2>1. CASE SameChain
      BY <1>2, <2>1 DEF SameChain, Height
    <2>2. CASE Longer1
      <3>1. Height' = Height + 1 /\ dropped' = dropped
        BY <2>2, HeightIs DEF Longer1, Height
      <3> HIDE DEF a
      <3> QED
        BY <1>1, <1>2, <3>1, HeightIs, SMTT(30)
    <2>3. CASE Shorter1
      <3>1. Height' + 1 = Height /\ dropped' = dropped + 1
        <4>1. Len(chain') \in Nat /\ Len(chain) = Len(chain') + 1 /\ dropped' = dropped + 1
          BY <2>3, LenProperties DEF Shorter1, Types
        <4> QED
          BY <4>1, HeightIs DEF Height
      <3>2. dropped' <= MaxDropped /\ dropped' \in Nat
        BY WalletConstants DEF Types
      <3>3. Height' \in Nat
        BY WalletConstants, LenProperties DEF Types, Height
      <3>4. MaxDropped + KMin <= KWallet
        BY DEF Deep
      <3> DEFINE h == Height'
                 e == dropped'
      <3>5. h \in Nat /\ e \in Nat /\ e <= MaxDropped /\ h + 1 = Height /\ e = dropped + 1
        BY <3>1, <3>2, <3>3
      <3>6. a + KWallet <= Height + dropped + 1 /\ a \in Nat
        BY <1>1, <1>2
      <3>7. /\ Height \in Nat /\ dropped \in Nat /\ MaxDropped \in Nat
            /\ KWallet \in Nat /\ KMin \in Nat \ {0}
        BY HeightIs
      <3> HIDE DEF a, h, e
      <3>8. a + KWallet <= h + e + 1
        BY <3>5, <3>6, <3>7
      <3>9. e + 1 <= KWallet
        BY <3>4, <3>5, <3>7
      <3>10. a <= h
        BY <3>5, <3>6, <3>7, <3>8, <3>9
      <3> QED
        BY <3>8, <3>10 DEF h, e
    <2> QED
      BY <2>1, <2>2, <2>3
  <1>4. Past(chain', a) = Past(chain, a)
    <2> HIDE DEF a
    <2> QED
      BY <1>1, <1>2, <1>3, PastMoves
  <1> QED
    BY <1>2, <1>3, <1>4 DEF RootedAt

(* How the chain's height and the count of dropped blocks move.             *)
LEMMA HeightMoves ==
  ASSUME Types, Types', SameChain \/ Longer1 \/ Shorter1
  PROVE  /\ Height' \in Nat /\ dropped' \in Nat /\ dropped' <= MaxDropped
         /\ \/ Height' = Height /\ dropped' = dropped
            \/ Height' = Height + 1 /\ dropped' = dropped
            \/ Height' + 1 = Height /\ dropped' = dropped + 1
  <1>1. /\ Len(chain) \in Nat /\ Len(chain') \in Nat
        /\ dropped' \in Nat /\ dropped' <= MaxDropped
    BY WalletConstants, LenProperties DEF Types
  <1>2. /\ Height = Activation - 1 + Len(chain) /\ Height' = Activation - 1 + Len(chain')
        /\ Activation \in Nat /\ Activation >= 1
    BY WalletConstants DEF Height
  <1>3. \/ Len(chain') = Len(chain) /\ dropped' = dropped
        \/ Len(chain') = Len(chain) + 1 /\ dropped' = dropped
        \/ Len(chain) = Len(chain') + 1 /\ dropped' = dropped + 1
    BY DEF SameChain, Longer1, Shorter1
  <1> DEFINE l == Len(chain')
             h == Height'
             e == dropped'
  <1>4. /\ l \in Nat /\ e \in Nat /\ e <= MaxDropped /\ h = Activation - 1 + l
        /\ \/ l = Len(chain) /\ e = dropped
           \/ l = Len(chain) + 1 /\ e = dropped
           \/ Len(chain) = l + 1 /\ e = dropped + 1
    BY <1>1, <1>2, <1>3
  <1> HIDE DEF l, h, e
  <1>5. /\ h \in Nat
        /\ \/ h = Height /\ e = dropped
           \/ h = Height + 1 /\ e = dropped
           \/ h + 1 = Height /\ e = dropped + 1
    BY <1>1, <1>2, <1>4, SMTT(30)
  <1> QED
    BY <1>4, <1>5 DEF h, e

LEMMA ViewStays ==
  ASSUME Types, Types', SameChain \/ Longer1 \/ Shorter1,
         NEW s \in Good, ViewKept(s)
  PROVE  ViewKept(s)'
  <1> DEFINE h1 == Height'
             e1 == dropped'
             r == s.replayed_height
  <1>1. /\ h1 \in Nat /\ e1 \in Nat /\ e1 <= MaxDropped
        /\ \/ h1 = Height /\ e1 = dropped
           \/ h1 = Height + 1 /\ e1 = dropped
           \/ h1 + 1 = Height /\ e1 = dropped + 1
    BY HeightMoves
  <1>2. /\ Height \in Nat /\ dropped \in Nat /\ MaxDropped \in Nat /\ r \in Nat
    BY HeightIs DEF Good, States
  <1>3. r <= Height + dropped
    BY DEF ViewKept
  <1> HIDE DEF h1, e1, r
  <1>4. r <= h1 + e1
    BY <1>1, <1>2, <1>3
  <1>5. ASSUME NEW h \in DOMAIN s.roots, h + MaxDropped <= r
        PROVE  h <= h1 /\ s.roots[h] = Past(chain', h)
    <2>1. h \in Nat /\ h >= Activation - 1 /\ h <= Height /\ s.roots[h] = Past(chain, h)
      BY <1>5 DEF ViewKept, r
    <2>2. h <= h1
      BY <1>1, <1>2, <1>4, <1>5, <2>1
    <2>3. h \in Int /\ h <= Height'
      BY <2>1, <2>2 DEF h1
    <2> QED
      BY <2>1, <2>2, <2>3, PastMoves
  <1>6. \A h \in DOMAIN s.roots : h \in Nat /\ h >= Activation - 1
    BY DEF ViewKept
  <1>7. Activation - 1 \in DOMAIN s.roots => s.roots[Activation - 1] = <<>>
    BY DEF ViewKept
  <1>8. s.replayed_height <= Height' + dropped'
    BY <1>4 DEF r, h1, e1
  <1>9. ASSUME NEW h \in DOMAIN s.roots, h + MaxDropped <= s.replayed_height
        PROVE  h <= Height' /\ s.roots[h] = Past(chain', h)
    BY <1>5, <1>9 DEF r, h1
  <1> QED
    BY <1>6, <1>7, <1>8, <1>9 DEF ViewKept

LEMMA PastNone ==
  ASSUME NEW c \in Seq(Seq(Tx))
  PROVE  Past(c, Activation - 1) = <<>>
  <1>1. (Activation - 1) + 1 - Activation = 0
    BY WalletConstants
  <1>2. R!Fresh.leaves = <<>>
    BY DEF R!Fresh
  <1> QED
    BY <1>1, <1>2, UptoEnds, ReplayedNone DEF Past

LEMMA FreshKept ==
  ASSUME Types
  PROVE  ViewKept(R!Fresh)
  <1>1. /\ R!Fresh.replayed_height = Activation - 1
        /\ R!Fresh.roots = [h \in {Activation - 1} |-> <<>>]
    BY DEF R!Fresh, R!Initial
  <1>2. /\ Activation - 1 \in Nat /\ Activation - 1 <= Height /\ Height \in Nat /\ dropped \in Nat
    BY HeightIs, WalletConstants
  <1>3. Past(chain, Activation - 1) = <<>>
    BY PastNone DEF Types
  <1> HIDE DEF R!Fresh
  <1>4. R!Fresh.replayed_height <= Height + dropped
    BY <1>1, <1>2
  <1> QED
    BY <1>1, <1>2, <1>3, <1>4 DEF ViewKept

LEMMA ReplayedKept ==
  ASSUME Types
  PROVE  ViewKept(Replayed(chain))
  <1> DEFINE s == Replayed(chain)
  <1>1. s.replayed_height = Height /\ Rooting(s, chain)
    BY History DEF Types, Replays, Height
  <1> HIDE DEF s
  <1>2. /\ Activation - 1 \in Nat /\ Height \in Nat /\ dropped \in Nat /\ MaxDropped \in Nat
    BY HeightIs, WalletConstants
  <1>3. ASSUME NEW h \in DOMAIN s.roots
        PROVE  h \in Nat /\ h >= Activation - 1 /\ h <= Height /\ s.roots[h] = Past(chain, h)
    <2>1. h \in (Activation - 1)..Height /\ s.roots[h] = Past(chain, h)
      BY <1>1 DEF Rooting
    <2> QED
      BY <1>2, <2>1
  <1>4. Past(chain, Activation - 1) = <<>>
    BY PastNone DEF Types
  <1>5. s.replayed_height <= Height + dropped
    BY <1>1, <1>2
  <1>6. Activation - 1 \in DOMAIN s.roots => s.roots[Activation - 1] = <<>>
    BY <1>3, <1>4
  <1> QED
    BY <1>3, <1>5, <1>6 DEF ViewKept, s

(* An anchor is deep enough that no reorganisation to come takes its tree. *)
LEMMA BuiltRooted ==
  ASSUME Deep, Types, NEW s \in Good, ViewKept(s), NEW in \in Inputs(file, s), NEW n \in Nat,
         HAnchor(s) \in DOMAIN s.roots
  PROVE  RootedAt(Transfer(n, s, in))
  <1> DEFINE t == Transfer(n, s, in)
             a == HAnchor(s)
             r == s.replayed_height
  <1>1. t.env.anchor = a /\ t.env.root = s.roots[a]
    BY DEF Transfer
  <1>2. a \in Nat /\ a >= Activation - 1
    BY DEF ViewKept
  <1>3. /\ r \in Nat /\ Height \in Nat /\ dropped \in Nat /\ MaxDropped \in Nat
        /\ KWallet \in Nat /\ KMin \in Nat \ {0} /\ Activation \in Nat \ {0}
    BY HeightIs, WalletConstants DEF Good, States
  <1>4. r <= Height + dropped /\ MaxDropped + KMin <= KWallet
    BY DEF ViewKept, Deep
  <1>5. CASE r + 1 >= KWallet
    <2>1. a = r + 1 - KWallet
      BY <1>5 DEF HAnchor
    <2> HIDE DEF a, r, t
    <2>2. a + MaxDropped <= r /\ a + KWallet <= Height + dropped + 1
      BY <1>2, <1>3, <1>4, <2>1
    <2>3. a <= Height /\ s.roots[a] = Past(chain, a)
      BY <2>2 DEF ViewKept, a, r
    <2> QED
      BY <1>1, <1>2, <2>2, <2>3 DEF RootedAt, t
  <1>6. CASE ~(r + 1 >= KWallet)
    <2>1. a = 0
      BY <1>6 DEF HAnchor
    <2> HIDE DEF t, r
    <2>2. a = Activation - 1
      <3> HIDE DEF a
      <3> QED
        BY <1>2, <1>3, <2>1
    <2>3. s.roots[a] = <<>>
      BY <2>2 DEF ViewKept
    <2>4. /\ s.leaf_counts[a] \in Nat /\ s.leaf_counts[a] <= Len(s.leaves)
          /\ s.leaves \in Seq(Leaf)
          /\ s.roots[a] = SubSeq(s.leaves, 1, s.leaf_counts[a])
      <3>1. RP!RootHistory(s) /\ RP!StateOK(s)
        BY DEF Good, RP!StateInv
      <3> HIDE DEF a
      <3> QED
        BY <3>1, Instance DEF RP!RootHistory, RP!StateOK, RP!HeightMap, a
    <2>5. s.leaf_counts[a] = 0
      <3> DEFINE k == s.leaf_counts[a]
      <3> HIDE DEF k, a
      <3>1. k \in 0..Len(s.leaves)
        BY <2>4, LenProperties DEF k
      <3>2. Len(Upto(s.leaves, k)) = k
        BY <2>4, <3>1, UptoIs
      <3>3. Upto(s.leaves, k) = <<>>
        BY <2>3, <2>4 DEF Upto, k
      <3> QED
        BY <3>2, <3>3, EmptySeq DEF k
    <2>6. \E c : c \in Candidates(file, s)
      BY InputNotes
    <2>7. PICK c \in Candidates(file, s) : c.pos < 0
      BY <2>5, <2>6 DEF Candidates
    <2>8. c.pos \in Nat
      BY FileNotes DEF Candidates, Note
    <2> QED
      BY <2>7, <2>8
  <1> QED
    BY <1>5, <1>6

LandInv == ShapeInv /\ Rooted

LEMMA InitNothing == Init => \A t : ~IsAround(t)
  <1> SUFFICES ASSUME Init PROVE \A t : ~IsAround(t)
    OBVIOUS
  <1>1. /\ mempool = {} /\ gone = {} /\ chain = Opening
        /\ \A p \in Procs : pc[p] = "idle"
    BY DEF Init
  <1>2. ASSUME NEW t \in MinedIn(chain) \cap TransfersOf PROVE FALSE
    <2>1. PICK k \in DOMAIN Opening : t \in Range(Opening[k])
      BY <1>1, <1>2 DEF MinedIn
    <2>2. Opening \in Seq(Seq(PlainMints))
      BY WalletConstants
    <2>3. Opening[k] \in Seq(PlainMints)
      BY <2>2, LenProperties, ElementOfSeq
    <2>4. t \in PlainMints
      BY <2>1, <2>3, RangeOfSeq DEF Range
    <2> QED
      BY <1>2, <2>4 DEF PlainMints, TransfersOf
  <1> QED
    BY <1>1, <1>2 DEF IsAround, InHand

LEMMA InitRooted == Init => Rooted
  <1> SUFFICES ASSUME Init PROVE Rooted
    OBVIOUS
  <1>1. Types /\ \A p \in Procs : view[p] = R!Fresh
    BY InitInv DEF WalletInv, Init
  <1>2. ViewKept(R!Fresh)
    BY <1>1, FreshKept
  <1> QED
    BY <1>1, <1>2, InitNothing DEF Rooted

LEMMA NextRooted ==
  ASSUME Deep, LandInv, ShapeInv', [Next]_vars
  PROVE  Rooted'
  <1>1. Types /\ Types' /\ Shapes /\ Shapes' /\ ShapeInv /\ Rooted
    BY DEF LandInv, ShapeInv, WalletInv
  <1>2. SameChain \/ Longer1 \/ Shorter1
    BY <1>1, ChainMoves
  <1>3. ASSUME NEW t \in OwnTransfers, IsAround(t)'
        PROVE  RootedAt(t)'
    <2>1. t \in TransfersOf
      BY DEF OwnTransfers
    <2>2. CASE IsAround(t)
      <3>1. RootedAt(t)
        BY <1>1, <2>2 DEF Rooted
      <3> QED
        BY <1>1, <1>2, <2>1, <3>1, RootedStays
    <2>3. ASSUME NEW p \in Procs, BuildTransfer(p), t = tx'[p]
          PROVE  RootedAt(t)'
      <3>1. PICK in \in Inputs(file, view[p]) : tx' = [tx EXCEPT ![p] = Transfer(built + 1, view[p], in)]
        BY <2>3 DEF BuildTransfer
      <3>2. /\ HAnchor(view[p]) \in DOMAIN view[p].roots /\ built \in Nat
            /\ view[p] \in Good /\ ViewKept(view[p])
            /\ chain' = chain /\ dropped' = dropped
        BY <1>1, <2>3, WalletConstants DEF BuildTransfer, Types, Rooted, network
      <3>3. t = Transfer(built + 1, view[p], in)
        BY <1>1, <2>3, <3>1 DEF Types
      <3>4. RootedAt(t)
        <4>1. built + 1 \in Nat
          BY <3>2
        <4> QED
          BY <1>1, <3>2, <3>3, <4>1, BuiltRooted
      <3> QED
        BY <3>2, <3>4 DEF RootedAt, Height
    <2> QED
      BY <1>1, <1>3, <2>2, <2>3, AroundGrows
  <1>4. ASSUME NEW p \in Procs
        PROVE  ViewKept(view[p])'
    <2>1. CASE view'[p] = view[p]
      <3>1. view[p] \in Good /\ ViewKept(view[p])
        BY <1>1 DEF Types, Rooted
      <3> DEFINE s == view[p]
      <3>2. s \in Good /\ ViewKept(s) /\ view'[p] = s
        BY <2>1, <3>1
      <3>3. \A v \in Good : ViewKept(v) => ViewKept(v)'
        BY <1>1, <1>2, ViewStays
      <3> QED
        BY <3>2, <3>3 DEF ViewKept
    <2>2. CASE view'[p] = R!Fresh
      <3>1. ViewKept(R!Fresh)
        BY <1>1, FreshKept
      <3>2. \A v \in Good : ViewKept(v) => ViewKept(v)'
        BY <1>1, <1>2, ViewStays
      <3>3. R!Fresh \in Good
        BY GoodFresh
      <3> HIDE DEF R!Fresh
      <3> QED
        BY <2>2, <3>1, <3>2, <3>3 DEF ViewKept
    <2>3. CASE view'[p] = Replayed(chain) /\ SameChain
      <3>1. ViewKept(Replayed(chain))
        BY <1>1, ReplayedKept
      <3> QED
        BY <2>3, <3>1 DEF ViewKept, SameChain, Height
    <2> QED
      BY <1>1, <2>1, <2>2, <2>3, ViewMoves
  <1> QED
    BY <1>3, <1>4 DEF Rooted

LEMMA AlwaysRooted == ASSUME Deep PROVE Spec => []LandInv
  <1>1. Init => LandInv
    BY InitInv, InitShapes, InitRooted DEF LandInv, ShapeInv
  <1>2. LandInv /\ ShapeInv /\ ShapeInv' /\ [Next]_vars => LandInv'
    BY NextRooted DEF LandInv
  <1> QED
    BY <1>1, <1>2, AlwaysShapes, PTL DEF Spec

LEMMA SameVerdict == \A s, h, t : R!TransferVerdict(s, h, t) = RP!TransferVerdict(s, h, t)
  BY DEF R!TransferVerdict, RP!TransferVerdict, R!InWindow, RP!InWindow, R!Nf, RP!Nf,
         R!Nfs, RP!Nfs, R!Verify, RP!Verify, R!Enters, RP!Enters, R!Slots, RP!Slots,
         R!InValue, RP!InValue

LEMMA SameVerify == \A root, t : R!Verify(root, t) <=> Verify(root, t)
  BY DEF R!Verify, Verify, R!Enters, Enters, R!Slots, Slots, R!InValue, InValue

LEMMA SameNfs == \A t : R!Nfs(t) = Nfs(t) /\ \A i : R!Nf(t, i) = Nf(t, i)
  BY DEF R!Nfs, Nfs, R!Nf, Nf, R!Slots, Slots

(* A carrier of this wallet that is published and rooted in the chain is    *)
(* accepted, unless its anchor is too old or a note of it is spent.         *)
LEMMA RootedLands ==
  ASSUME Deep, Types, NEW t \in OwnTransfers, RootedAt(t), Height < t.env.anchor + WindowW,
         Nfs(t.env) \cap Replayed(chain).nullifiers = {}
  PROVE  R!TransferVerdict(Replayed(chain), Height + 1, t.env) = "accept"
  <1> DEFINE s == Replayed(chain)
             a == t.env.anchor
  <1>1. s \in Good /\ s.replayed_height = Height /\ Rooting(s, chain)
    BY History DEF Types, Replays, Height
  <1>2. a \in Nat /\ a >= Activation - 1 /\ a <= Height
        /\ a + KWallet <= Height + dropped + 1 /\ t.env.root = Past(chain, a)
    BY TransferOf DEF RootedAt, OwnTransfers
  <1>3. /\ Height \in Nat /\ dropped \in Nat /\ dropped <= MaxDropped /\ MaxDropped \in Nat
        /\ KWallet \in Nat /\ KMin \in Nat \ {0} /\ MaxDropped + KMin <= KWallet
        /\ WindowW \in Nat /\ RetainExtra \in Nat /\ Height < a + WindowW
    BY HeightIs, WalletConstants DEF Deep
  <1> HIDE DEF s, a
  <1>4. R!InWindow(a, Height + 1)
    BY <1>2, <1>3 DEF R!InWindow
  <1>5. a \in DOMAIN s.roots
    <2>1. RP!KeepsRecent(s)
      BY <1>1 DEF Good, RP!StateInv
    <2>2. a \in (Activation - 1)..s.replayed_height
      BY <1>1, <1>2, <1>3, WalletConstants
    <2>3. a >= RP!KeepFrom(s.replayed_height)
      BY <1>1, <1>2, <1>3 DEF RP!KeepFrom
    <2> QED
      BY <2>1, <2>2, <2>3, Instance DEF RP!KeepsRecent
  <1>6. s.roots[a] = t.env.root
    BY <1>1, <1>2, <1>5 DEF Rooting
  <1>7. R!Nf(t.env, 0) # R!Nf(t.env, 1) /\ R!Verify(s.roots[a], t.env)
    BY <1>6, SameNfs, SameVerify DEF OwnTransfers
  <1>8. R!Nfs(t.env) \cap s.nullifiers = {}
    BY SameNfs DEF s
  <1> QED
    BY <1>4, <1>5, <1>7, <1>8 DEF R!TransferVerdict, s, a

(* Lands, while reorganisations disconnect in all no more blocks than       *)
(* K_WALLET leaves room for: a carrier that send published and that is      *)
(* still in its window is accepted in the next block, unless one of its     *)
(* notes is spent.  (wallet.rs, build_transfer: H_anchor is K_WALLET blocks *)
(* below the next one; the rules ask for K_MIN.)                            *)
THEOREM PublishedLands == ASSUME Deep PROVE Spec => []Lands
  <1>1. LandInv => Lands
    <2> SUFFICES ASSUME LandInv, NEW t \in mempool, Live(t),
                        Nfs(t.env) \cap Replayed(chain).nullifiers = {}
                 PROVE  R!TransferVerdict(Replayed(chain), Height + 1, t.env) = "accept"
      BY DEF Lands
    <2>1. Types /\ Shapes /\ Rooted
      BY DEF LandInv, ShapeInv, WalletInv
    <2>2. t \in OwnTransfers /\ IsAround(t)
      BY <2>1 DEF Shapes, IsAround
    <2>3. RootedAt(t)
      BY <2>1, <2>2 DEF Rooted
    <2>4. Height < t.env.anchor + WindowW
      BY DEF Live
    <2> QED
      BY <2>1, <2>2, <2>3, <2>4, RootedLands
  <1> QED
    BY <1>1, AlwaysRooted, PTL

-----------------------------------------------------------------------------
(* A scan of a history that the file's own is the beginning of.             *)

FileStands(f, s) ==
  /\ f.scanned_events > 0 => Anchored(f, s)
  /\ \A n \in Range(f.notes) : Enters(s.leaves, n)

LEMMA RecordKeeps ==
  ASSUME NEW N, N \subseteq Note, NEW base, NEW notes \in Seq(N), Longer(base, notes),
         NEW n \in N
  PROVE  Longer(base, Record(notes, n))
  <1>1. CASE Record(notes, n) = notes
    BY <1>1
  <1>2. CASE Record(notes, n) = Append(notes, n)
    <2>1. /\ Len(notes) \in Nat /\ DOMAIN notes = 1..Len(notes)
          /\ Append(notes, n) \in Seq(N) /\ Len(Append(notes, n)) = Len(notes) + 1
          /\ \A i \in 1..Len(notes) : Append(notes, n)[i] = notes[i]
      BY LenProperties, AppendProperties
    <2>2. DOMAIN Append(notes, n) = 1..(Len(notes) + 1)
      BY <2>1, LenProperties
    <2>3. \A i \in 1..Len(notes) : i \in 1..(Len(notes) + 1)
      BY <2>1
    <2> QED
      BY <1>2, <2>1, <2>2, <2>3 DEF Longer
  <1> QED
    BY <1>1, <1>2 DEF Record

LEMMA ReadKeeps ==
  ASSUME NEW f, FileOK(f), NEW s \in Good, f.notes \in Seq(Entering(s.leaves)),
         NEW r, r = ReadEvents(f, s)
  PROVE  /\ Longer(f.notes, r.notes)
         /\ r.scanned_events = Len(s.events)
         /\ r.scanned_txid = IF s.events = <<>> THEN NoTx ELSE Last(s.events).txid
  <1> DEFINE events == SubSeq(s.events, f.scanned_events + 1, Len(s.events))
             N == Entering(s.leaves)
             X == {q \in Seq(N) : Longer(f.notes, q)}
             notes == FoldLeft(Record, f.notes, AllReceived(events))
  <1>1. f \in File /\ f.scanned_events \in Nat
    BY FileParts DEF FileOK
  <1>2. AllReceived(events) \in Seq(N)
    BY <1>1, AllReceivedEnter
  <1>3. notes \in X
    <2>1. ASSUME NEW a \in X, NEW y \in N
          PROVE  Record(a, y) \in X
      <3>1. a \in Seq(N) /\ Longer(f.notes, a) /\ N \subseteq Note
        BY <2>1, EnteringNotes
      <3>2. Record(a, y) \in Seq(N)
        <4>1. Record(a, y) = a \/ Record(a, y) = Append(a, y)
          BY DEF Record
        <4> QED
          BY <3>1, <4>1, AppendProperties
      <3> HIDE DEF N
      <3> QED
        BY <3>1, <3>2, RecordKeeps
    <2>2. f.notes \in X
      BY DEF Longer
    <2> HIDE DEF X, N, events
    <2> QED
      BY <1>2, <2>1, <2>2, RecordFold
  <1>4. /\ r.notes = notes /\ r.scanned_events = Len(s.events)
        /\ r.scanned_txid = IF s.events = <<>> THEN NoTx ELSE Last(s.events).txid
    BY <1>1 DEF ReadEvents, File
  <1> HIDE DEF notes
  <1> QED
    BY <1>3, <1>4

LEMMA ScanKeeps ==
  ASSUME NEW f, FileOK(f), NEW s \in Good, FileStands(f, s), NEW r, r = Scan(f, s)
  PROVE  /\ \A i \in DOMAIN f.notes :
              i \in DOMAIN r.notes /\ r.notes[i] = UpdateNote(f.notes[i], s)
         /\ FileStands(r, s)
  <1> DEFINE c == ReadEvents(f, s)
             g == [i \in DOMAIN c.notes |-> UpdateNote(c.notes[i], s)]
  <1>1. Restart(f, s) = f /\ DropStale(f, s) = f
    BY DEF FileStands, Restart, DropStale
  <1>2. f.notes \in Seq(Entering(s.leaves))
    BY <1>1, DropStaleOK
  <1>3. /\ FileOK(c) /\ c \in File /\ Longer(f.notes, c.notes)
        /\ c.scanned_events = Len(s.events)
        /\ c.scanned_txid = IF s.events = <<>> THEN NoTx ELSE Last(s.events).txid
    <2>1. FileOK(c)
      BY <1>2, ReadEventsOK
    <2>2. /\ Longer(f.notes, c.notes) /\ c.scanned_events = Len(s.events)
          /\ c.scanned_txid = IF s.events = <<>> THEN NoTx ELSE Last(s.events).txid
      BY <1>2, ReadKeeps
    <2> QED
      BY <2>1, <2>2 DEF FileOK
  <1> HIDE DEF c
  <1>4. r = [c EXCEPT !.notes = g]
    BY <1>1 DEF Scan, UpdateNotes, EachNote, c
  <1>5. /\ r.notes = g /\ r.scanned_events = c.scanned_events
        /\ r.scanned_txid = c.scanned_txid
    BY <1>3, <1>4 DEF File
  <1>6. ASSUME NEW i \in DOMAIN f.notes
        PROVE  i \in DOMAIN r.notes /\ r.notes[i] = UpdateNote(f.notes[i], s)
    BY <1>3, <1>5 DEF Longer
  <1>7. Scanned(r, s)
    BY ScanOK
  <1>8. ASSUME r.scanned_events > 0
        PROVE  Anchored(r, s)
    <2>1. s.events \in Seq(RP!Event) /\ Len(s.events) > 0
      BY <1>3, <1>5, <1>8 DEF Good, States
    <2>2. Len(s.events) \in DOMAIN s.events /\ s.events # <<>>
      BY <2>1, LenProperties, EmptySeq
    <2>3. r.scanned_txid = s.events[Len(s.events)].txid
      BY <1>3, <1>5, <2>2 DEF Last
    <2> HIDE DEF g
    <2> QED
      BY <1>3, <1>5, <2>2, <2>3 DEF Anchored
  <1> QED
    BY <1>6, <1>7, <1>8 DEF FileStands, Scanned

(* The file stands in every longer history.                                *)
LEMMA StandsOn ==
  ASSUME NEW f, FileOK(f), NEW s \in Good, NEW r \in Good, FileStands(f, s),
         Longer(s.leaves, r.leaves), Longer(s.events, r.events)
  PROVE  FileStands(f, r)
  <1>1. ASSUME NEW n \in Range(f.notes) PROVE Enters(r.leaves, n)
    <2>1. n \in Note /\ Enters(s.leaves, n)
      BY FileParts DEF FileStands, FileOK, Range
    <2>2. s.leaves \in Seq(Leaf) /\ r.leaves \in Seq(Leaf)
      BY DEF Good, States
    <2>3. n.pos \in Nat /\ n.pos + 1 \in DOMAIN s.leaves /\ s.leaves[n.pos + 1] = n.leaf
      BY <2>1, <2>2, LenProperties DEF Enters, Note
    <2>4. n.pos + 1 \in DOMAIN r.leaves /\ r.leaves[n.pos + 1] = n.leaf
      BY <2>3 DEF Longer
    <2>5. n.pos + 1 <= Len(r.leaves) /\ Len(r.leaves) \in Nat
      BY <2>2, <2>4, LenProperties
    <2> QED
      BY <2>3, <2>4, <2>5 DEF Enters
  <1>2. ASSUME f.scanned_events > 0 PROVE Anchored(f, r)
    BY <1>2 DEF FileStands, Anchored, Longer
  <1> QED
    BY <1>1, <1>2 DEF FileStands

-----------------------------------------------------------------------------
(* One command at a time, no reorganisation, no lost reply, no crash, no     *)
(* forced unlock, and a server that answers unlock's question with an error  *)
(* only if it does not know the carrier (no "busy"): then the locks hold     *)
(* every carrier that may still be accepted.                               *)

Quiet ==
  /\ \A p, q \in Procs : p = q
  /\ ~UnlockForce /\ MaxDropped = 0 /\ Faults \subseteq {"evict", "remine"}

Accepted(t) == \E i \in DOMAIN Replayed(chain).events : Replayed(chain).events[i].txid = t
Alive(t) ==
  /\ t \in OwnTransfers
  /\ \/ t \in mempool /\ Height < t.env.anchor + WindowW
     \/ Accepted(t)
Ours(t) == Alive(t) \/ \E p \in Procs : InHand(p) /\ t = tx[p]
Holder(n, t) == n.spent \/ (n.locked_by = t /\ n.lock_anchor = t.env.anchor)

(* s is an earlier state of the history of r.                              *)
Before(s, r) ==
  /\ Longer(s.leaves, r.leaves) /\ Longer(s.events, r.events)
  /\ s.nullifiers \subseteq r.nullifiers
  /\ s.replayed_height <= r.replayed_height
  /\ \A i \in DOMAIN r.events \ DOMAIN s.events : r.events[i].height > s.replayed_height

Named ==
  \A t, u \in OwnTransfers :
    IsAround(t) => t.id <= built /\ (IsAround(u) /\ t.id = u.id => t = u)

(* Every input of a carrier that counts is still in the file.              *)
Listed ==
  \A t \in OwnTransfers, i \in Slots :
    Ours(t) /\ t.env.ins[i].on =>
      \E n \in Range(file.notes) : OwnNullifier(n) = Nf(t.env, i)

Holding ==
  \A t \in OwnTransfers, n \in Range(file.notes) :
    Alive(t) /\ Spends(t, n) =>
      Holder(n, t) \/ \E p \in Procs : pc[p] = "published" /\ tx[p] = t

Apart ==
  \A t, u \in OwnTransfers :
    Alive(t) /\ Alive(u) /\ t # u => Nfs(t.env) \cap Nfs(u.env) = {}

(* What the next broadcast spends is nobody else's.                        *)
Spare ==
  \A p \in Procs, n \in Range(file.notes) :
    InHand(p) /\ Spends(tx[p], n) => ~n.spent /\ n.locked_by = NoTx

(* What unlock releases is never accepted any more.                        *)
Releasing == \A p \in Procs : pc[p] = "unlock" => ~Alive(tx[p])

(* The file and the view are of this chain, at one of its earlier heights.  *)
Following ==
  /\ FileStands(file, Replayed(chain))
  /\ \A p \in Procs : pc[p] \in {"synced", "scanned", "built", "published"} =>
       Before(view[p], Replayed(chain)) /\ FileStands(file, view[p])

Locking == Listed /\ Holding /\ Apart /\ Spare /\ Releasing /\ Following
SendInv == ShapeInv /\ Named /\ Locking

LEMMA Now ==
  ASSUME Types
  PROVE  /\ Replayed(chain) \in Good /\ Replayed(chain).replayed_height = Height
         /\ Sourced(Replayed(chain), MinedIn(chain))
  BY History DEF Types, Replays, Height

LEMMA AliveAround ==
  ASSUME Types, NEW t, Alive(t)
  PROVE  IsAround(t)
  <1>1. CASE t \in mempool
    BY <1>1 DEF IsAround
  <1>2. CASE Accepted(t)
    <2>1. t \in MinedIn(chain)
      BY <1>2, Now DEF Accepted, Sourced
    <2> QED
      BY <2>1 DEF IsAround, Alive, OwnTransfers
  <1> QED
    BY <1>1, <1>2 DEF Alive

LEMMA AlivePublished ==
  ASSUME Types, NEW t, Alive(t)
  PROVE  t \in Published
  <1>1. CASE t \in mempool
    BY <1>1 DEF Published
  <1>2. CASE Accepted(t)
    <2>1. t \in Mined
      BY <1>2, Now, MinedIs DEF Accepted, Sourced
    <2> QED
      BY <2>1 DEF Published, Alive, OwnTransfers, TransfersOf
  <1> QED
    BY <1>1, <1>2 DEF Alive

LEMMA AliveSame ==
  ASSUME chain' = chain, mempool' = mempool
  PROVE  \A t : Alive(t)' <=> Alive(t)
  BY DEF Alive, Accepted, Height

LEMMA BeforeSelf ==
  ASSUME NEW s \in Good
  PROVE  Before(s, s)
  BY DEF Before, Longer, Good, States

LEMMA BeforeGrows ==
  ASSUME NEW s \in Good, NEW r \in Good, NEW q, NEW T, NEW h, Before(s, r),
         h = r.replayed_height + 1, q.replayed_height = h, Grows(r, q, T, h)
  PROVE  Before(s, q)
  <1>1. s.replayed_height \in Nat /\ r.replayed_height \in Nat /\ s.replayed_height <= r.replayed_height
    BY DEF Good, States, Before
  <1>2. s.replayed_height < h
    BY <1>1
  <1>3. s.replayed_height <= q.replayed_height
    BY <1>1, <1>2
  <1>4. ASSUME NEW i \in DOMAIN q.events \ DOMAIN s.events
        PROVE  q.events[i].height > s.replayed_height
    <2>1. CASE i \in DOMAIN r.events
      BY <2>1 DEF Before, Grows, Longer
    <2>2. CASE i \notin DOMAIN r.events
      <3>1. q.events[i].height = h
        BY <2>2 DEF Grows
      <3> QED
        BY <1>1, <1>2, <3>1
    <2> QED
      BY <2>1, <2>2
  <1>5. /\ Longer(s.leaves, q.leaves) /\ Longer(s.events, q.events)
        /\ s.nullifiers \subseteq q.nullifiers
    BY DEF Before, Grows, Longer
  <1> QED
    BY <1>3, <1>4, <1>5 DEF Before

(* A carrier that may still be accepted holds its locks through a scan.     *)
LEMMA HeldOn ==
  ASSUME Types, NEW t, Alive(t), NEW s \in Good, Before(s, Replayed(chain)),
         NEW m \in Note, Spends(t, m), Holder(m, t)
  PROVE  Holder(UpdateNote(m, s), t)
  <1>1. CASE m.spent
    <2>1. UpdateNote(m, s).spent
      BY <1>1 DEF UpdateNote, Unlocked, Note
    <2> QED
      BY <2>1 DEF Holder
  <1>2. CASE OwnNullifier(m) \in s.nullifiers
    <2>1. UpdateNote(m, s).spent
      BY <1>2 DEF UpdateNote, Unlocked, Note
    <2> QED
      BY <2>1 DEF Holder
  <1>3. CASE OwnNullifier(m) \notin s.nullifiers /\ ~m.spent
    <2> DEFINE now == Replayed(chain)
    <2>0. now \in Good /\ now.replayed_height = Height /\ Sourced(now, MinedIn(chain))
      BY Now
    <2>1. s.replayed_height \in Nat /\ Height \in Nat /\ t.env.anchor \in Nat /\ WindowW \in Nat
      BY HeightNat, TransferOf, WalletConstants DEF Good, States, Alive, OwnTransfers
    <2>2. s.replayed_height <= Height
      BY <2>0 DEF Before
    <2>3. s.replayed_height <= t.env.anchor + WindowW
      <3>1. CASE t \in mempool /\ Height < t.env.anchor + WindowW
        BY <2>1, <2>2, <3>1
      <3>2. CASE Accepted(t)
        <4>1. PICK i \in DOMAIN now.events : now.events[i].txid = t
          BY <3>2 DEF Accepted
        <4>2. t \in TransfersOf
          BY DEF Alive, OwnTransfers
        <4>3. now.events[i].height <= t.env.anchor + WindowW
          BY <2>0, <4>1, <4>2 DEF Sourced, InTime
        <4>4. CASE i \in DOMAIN s.events
          <5>1. s.events[i].txid = t
            BY <4>1, <4>4 DEF Before, Longer
          <5>2. RP!NullifiersOnce(s)
            BY DEF Good, RP!StateInv
          <5>3. i \in RP!TransferEvents(s) /\ RP!Nfs(RP!Spend(s, i)) = Nfs(t.env)
            BY <4>2, <4>4, <5>1, SameNames, TransferOf DEF RP!TransferEvents, RP!Spend
          <5>4. Nfs(t.env) \subseteq s.nullifiers
            BY <5>2, <5>3 DEF RP!NullifiersOnce
          <5> QED
            BY <1>3, <5>4 DEF Spends
        <4>5. CASE i \notin DOMAIN s.events
          <5>1. now.events[i].height > s.replayed_height
            BY <4>1, <4>5 DEF Before
          <5>2. now.events[i].height \in Nat
            <6>1. now.events \in Seq(RP!Event)
              BY <2>0 DEF Good, States
            <6>2. now.events[i] \in RP!Event
              BY <4>1, <6>1, LenProperties, ElementOfSeq
            <6> QED
              BY <6>2 DEF RP!Event
          <5> QED
            BY <2>1, <4>3, <5>1, <5>2
        <4> QED
          BY <4>4, <4>5
      <3> QED
        BY <3>1, <3>2 DEF Alive
    <2>4. m.locked_by = t /\ m.lock_anchor = t.env.anchor
      BY <1>3 DEF Holder
    <2>5. ~Lapsed(m, s)
      BY <2>1, <2>3, <2>4 DEF Lapsed
    <2>6. UpdateNote(m, s) = m
      BY <1>3, <2>5 DEF UpdateNote
    <2> QED
      BY <2>6
  <1> QED
    BY <1>1, <1>2, <1>3

(* Which input of a carrier of this wallet a nullifier is.                  *)
LEMMA OwnSlots ==
  ASSUME NEW t \in OwnTransfers, NEW x \in Nfs(t.env)
  PROVE  \E i \in Slots :
           /\ x = Nf(t.env, i)
           /\ ~t.env.ins[i].on => x = << <<"dummy", t.id>>, 0, 0>>
  <1>1. PICK i \in Slots : x = Nf(t.env, i)
    BY DEF Nfs
  <1>2. t.env.ins[i].on \/ t.env.ins[i] = Dummy(t.id)
    BY DEF OwnTransfers
  <1>3. CASE t.env.ins[i].on
    BY <1>1, <1>3
  <1>4. CASE t.env.ins[i] = Dummy(t.id)
    <2>1. x = << <<"dummy", t.id>>, 0, 0>>
      BY <1>1, <1>4, DummyNf
    <2> QED
      BY <1>1, <2>1
  <1> QED
    BY <1>2, <1>3, <1>4

(* No note of a file that stands is a dummy.                               *)
LEMMA FileNoDummy ==
  ASSUME NEW f, FileOK(f), NEW s \in Good, Clean(s), FileStands(f, s),
         NEW n \in Range(f.notes), NEW t \in OwnTransfers
  PROVE  OwnNullifier(n) # << <<"dummy", t.id>>, 0, 0>>
  <1>1. n \in Note /\ Enters(s.leaves, n)
    BY FileParts DEF FileOK, FileStands, Range
  <1>2. s.leaves \in Seq(Leaf) /\ t.id \in 1..MaxTx
    BY DEF Good, States, OwnTransfers
  <1> QED
    BY <1>1, <1>2, NoDummy

(* An input note of a carrier that counts is one of the file.               *)
LEMMA ListedNote ==
  ASSUME NEW f, FileOK(f), NEW s \in Good, Clean(s), FileStands(f, s), Listed,
         NEW t \in OwnTransfers, Ours(t), NEW n \in Range(f.notes), Spends(t, n)
  PROVE  \E m \in Range(file.notes) : OwnNullifier(m) = OwnNullifier(n)
  <1>1. OwnNullifier(n) \in Nfs(t.env)
    BY DEF Spends
  <1>2. PICK i \in Slots :
          /\ OwnNullifier(n) = Nf(t.env, i)
          /\ ~t.env.ins[i].on => OwnNullifier(n) = << <<"dummy", t.id>>, 0, 0>>
    BY <1>1, OwnSlots
  <1>3. t.env.ins[i].on
    BY <1>2, FileNoDummy
  <1> QED
    BY <1>2, <1>3 DEF Listed

LEMMA ListedStays ==
  ASSUME Listed, \A t \in OwnTransfers : Ours(t)' => Ours(t),
         \A n \in Range(file.notes) :
           \E m \in Range(file'.notes) : OwnNullifier(m) = OwnNullifier(n)
  PROVE  Listed'
  <1> SUFFICES ASSUME NEW t \in OwnTransfers, NEW i \in Slots, Ours(t)', t.env.ins[i].on
               PROVE  \E n \in Range(file'.notes) : OwnNullifier(n) = Nf(t.env, i)
    BY DEF Listed
  <1>1. PICK n \in Range(file.notes) : OwnNullifier(n) = Nf(t.env, i)
    BY DEF Listed
  <1> QED
    BY <1>1

LEMMA OneProc ==
  ASSUME Quiet, NEW p \in Procs, NEW q \in Procs
  PROVE  q = p
  BY DEF Quiet

-----------------------------------------------------------------------------
(* The steps of the command.                                               *)

LEMMA SyncLocks ==
  ASSUME Quiet, SendInv, NEW p \in Procs, Sync(p)
  PROVE  Locking'
  <1>1. /\ pc[p] = "idle" /\ pc'[p] = "synced" /\ view'[p] = Replayed(chain)
        /\ chain' = chain /\ mempool' = mempool /\ file' = file /\ tx' = tx
    BY DEF SendInv, ShapeInv, WalletInv, Types, Sync, CanSync, Goto, network
  <1>2. Types /\ Locking
    BY DEF SendInv, ShapeInv, WalletInv
  <1>3. \A t : Alive(t)' <=> Alive(t)
    BY <1>1, AliveSame
  <1>4. \A q \in Procs : q = p
    BY OneProc
  <1>5. \A q \in Procs : ~InHand(q)' /\ pc[q] = "idle" /\ pc'[q] = "synced"
    BY <1>1, <1>4 DEF InHand
  <1>6. Listed'
    <2>1. \A t \in OwnTransfers : Ours(t)' => Ours(t)
      BY <1>3, <1>5 DEF Ours
    <2> QED
      BY <1>1, <1>2, <2>1, ListedStays DEF Locking
  <1>7. Holding' /\ Apart'
    BY <1>1, <1>2, <1>3, <1>5 DEF Locking, Holding, Apart
  <1>8. Spare' /\ Releasing'
    BY <1>5 DEF Spare, Releasing
  <1>9. Following'
    <2>1. Before(Replayed(chain), Replayed(chain))
      BY <1>2, Now, BeforeSelf
    <2>2. FileStands(file, Replayed(chain))
      BY <1>2 DEF Locking, Following
    <2> QED
      BY <1>1, <1>4, <2>1, <2>2 DEF Following
  <1> QED
    BY <1>6, <1>7, <1>8, <1>9 DEF Locking

LEMMA ScanLocks ==
  ASSUME Quiet, SendInv, NEW p \in Procs, OpenAndScan(p)
  PROVE  Locking'
  <1> DEFINE s == view[p]
  <1>1. /\ pc[p] = "synced" /\ pc'[p] = "scanned" /\ file' = Scan(file, s)
        /\ chain' = chain /\ mempool' = mempool /\ view' = view /\ tx' = tx
    BY DEF SendInv, ShapeInv, WalletInv, Types, OpenAndScan, Goto, network
  <1>2. Types /\ Locking /\ Shapes
    BY DEF SendInv, ShapeInv, WalletInv
  <1>3. \A t : Alive(t)' <=> Alive(t)
    BY <1>1, AliveSame
  <1>4. \A q \in Procs : q = p
    BY OneProc
  <1>5. \A q \in Procs : ~InHand(q)' /\ pc[q] = "synced" /\ pc'[q] = "scanned"
    BY <1>1, <1>4 DEF InHand
  <1>6. /\ FileOK(file) /\ s \in Good /\ Clean(s)
        /\ Before(s, Replayed(chain)) /\ FileStands(file, s)
    BY <1>1, <1>2 DEF Types, Shapes, Locking, Following
  <1> HIDE DEF s
  <1>7. /\ \A i \in DOMAIN file.notes :
             i \in DOMAIN file'.notes /\ file'.notes[i] = UpdateNote(file.notes[i], s)
        /\ FileStands(file', s) /\ FileOK(file')
    BY <1>1, <1>6, ScanKeeps, ScanOK
  <1>8. \A n \in Range(file.notes) :
          /\ UpdateNote(n, s) \in Range(file'.notes)
          /\ OwnNullifier(UpdateNote(n, s)) = OwnNullifier(n)
    <2> TAKE n \in Range(file.notes)
    <2>1. n \in Note
      BY <1>2, FileNotes
    <2>2. UpdateNote(n, s).leaf = n.leaf /\ UpdateNote(n, s).pos = n.pos
      BY <2>1 DEF UpdateNote, Unlocked, Note
    <2>3. OwnNullifier(UpdateNote(n, s)) = OwnNullifier(n)
      BY <2>2 DEF OwnNullifier
    <2> QED
      BY <1>7, <2>3 DEF Range
  <1>9. Listed'
    <2>1. \A t \in OwnTransfers : Ours(t)' => Ours(t)
      BY <1>3, <1>5 DEF Ours
    <2> QED
      BY <1>2, <1>8, <2>1, ListedStays DEF Locking
  <1>10. Holding'
    <2> SUFFICES ASSUME NEW t \in OwnTransfers, NEW n \in Range(file'.notes), Alive(t), Spends(t, n)
                 PROVE  Holder(n, t)
      BY <1>3 DEF Holding
    <2>1. Ours(t) /\ Listed
      BY <1>2 DEF Ours, Locking
    <2>2. PICK m \in Range(file.notes) : OwnNullifier(m) = OwnNullifier(n)
      BY <1>6, <1>7, <2>1, ListedNote
    <2>3. n = UpdateNote(m, s)
      BY <1>7, <1>8, <2>2, SameNullifier
    <2>4. m \in Note /\ Spends(t, m)
      BY <1>2, <2>2, FileNotes DEF Spends
    <2>5. Holder(m, t)
      BY <1>2, <1>5, <2>4 DEF Locking, Holding
    <2> QED
      BY <1>2, <1>6, <2>3, <2>4, <2>5, HeldOn
  <1>11. Apart'
    BY <1>2, <1>3 DEF Locking, Apart
  <1>12. Spare' /\ Releasing'
    BY <1>5 DEF Spare, Releasing
  <1>13. Following'
    <2>1. FileStands(file', Replayed(chain))
      BY <1>2, <1>6, <1>7, Now, StandsOn DEF Before
    <2>2. \A q \in Procs : view'[q] = s
      BY <1>1, <1>4 DEF s
    <2> QED
      BY <1>1, <1>6, <1>7, <2>1, <2>2 DEF Following
  <1> QED
    BY <1>9, <1>10, <1>11, <1>12, <1>13 DEF Locking

LEMMA BuildLocks ==
  ASSUME Quiet, SendInv, NEW p \in Procs, BuildTransfer(p), Shapes'
  PROVE  Locking'
  <1> DEFINE s == view[p]
             n == built + 1
  <1>1. /\ pc[p] = "scanned" /\ pc'[p] = "built" /\ file' = file
        /\ chain' = chain /\ mempool' = mempool /\ view' = view
    BY DEF SendInv, ShapeInv, WalletInv, Types, BuildTransfer, Goto, network
  <1>2. PICK in \in Inputs(file, s) : tx'[p] = Transfer(n, s, in)
    BY DEF SendInv, ShapeInv, WalletInv, Types, BuildTransfer
  <1>3. Types /\ Locking /\ Shapes
    BY DEF SendInv, ShapeInv, WalletInv
  <1>4. \A t : Alive(t)' <=> Alive(t)
    BY <1>1, AliveSame
  <1>5. \A q \in Procs : q = p
    BY OneProc
  <1>6. \A q \in Procs : InHand(q)' /\ ~InHand(q) /\ pc[q] = "scanned" /\ pc'[q] = "built"
    BY <1>1, <1>5 DEF InHand
  <1>7. /\ FileOK(file) /\ s \in Good /\ Clean(s) /\ FileStands(file, s) /\ n \in Nat
    BY <1>1, <1>3, WalletConstants DEF Types, Shapes, Locking, Following
  <1> DEFINE t == Transfer(n, s, in)
  <1>8. t \in OwnTransfers /\ t.id = n
    <2>1. tx'[p] \in OwnTransfers
      BY <1>6 DEF Shapes
    <2> QED
      BY <1>2, <2>1 DEF Transfer
  <1>9. /\ Candidates(file, s) \subseteq Range(file.notes)
        /\ \A a \in Candidates(file, s) : ~a.spent /\ a.locked_by = NoTx
    BY DEF Candidates
  <1>10. \A i \in Slots :
           \/ t.env.ins[i] = Dummy(n)
           \/ \E a \in Candidates(file, s) : t.env.ins[i] = Enabled(a)
    <2>1. \/ \E a \in Candidates(file, s) : t.env.ins[0] = Enabled(a) /\ t.env.ins[1] = Dummy(n)
          \/ \E a, b \in Candidates(file, s) : t.env.ins[0] = Enabled(a) /\ t.env.ins[1] = Enabled(b)
      BY <1>7, BuiltSlots
    <2>2. \A i \in Slots : i = 0 \/ i = 1
      BY DEF Slots
    <2> HIDE DEF t
    <2> QED
      BY <2>1, <2>2
  <1> HIDE DEF t, s, n
  <1>11. Listed'
    <2> SUFFICES ASSUME NEW u \in OwnTransfers, NEW i \in Slots, Ours(u)', u.env.ins[i].on
                 PROVE  \E m \in Range(file.notes) : OwnNullifier(m) = Nf(u.env, i)
      BY <1>1 DEF Listed
    <2>1. CASE Alive(u)
      BY <1>3, <2>1 DEF Locking, Listed, Ours
    <2>2. CASE u = t
      <3>1. t.env.ins[i].on
        BY <2>2
      <3>2. PICK a \in Candidates(file, s) : t.env.ins[i] = Enabled(a)
        BY <1>10, <3>1, DummyNf
      <3>3. Nf(t.env, i) = OwnNullifier(a)
        BY <3>2, EnabledNf
      <3> QED
        BY <1>9, <2>2, <3>2, <3>3
    <2>3. Alive(u) \/ u = t
      <3>1. \A q \in Procs : tx'[q] = t
        BY <1>2, <1>5 DEF t, n, s
      <3> QED
        BY <1>4, <3>1 DEF Ours
    <2> QED
      BY <2>1, <2>2, <2>3
  <1>12. Holding'
    <2> SUFFICES ASSUME NEW u \in OwnTransfers, NEW m \in Range(file.notes), Alive(u), Spends(u, m)
                 PROVE  Holder(m, u)
      BY <1>1, <1>4 DEF Holding
    <2> QED
      BY <1>3, <1>6 DEF Locking, Holding
  <1>13. Apart'
    BY <1>3, <1>4 DEF Locking, Apart
  <1>14. Spare'
    <2> SUFFICES ASSUME NEW m \in Range(file.notes), Spends(t, m)
                 PROVE  ~m.spent /\ m.locked_by = NoTx
      <3>1. \A q \in Procs : tx'[q] = t
        BY <1>2, <1>5 DEF t, n, s
      <3> QED
        BY <1>1, <3>1 DEF Spare
    <2>1. PICK i \in Slots :
            /\ OwnNullifier(m) = Nf(t.env, i)
            /\ ~t.env.ins[i].on => OwnNullifier(m) = << <<"dummy", t.id>>, 0, 0>>
      BY <1>8, OwnSlots DEF Spends
    <2>2. t.env.ins[i].on
      BY <1>7, <1>8, <2>1, FileNoDummy
    <2>3. PICK a \in Candidates(file, s) : t.env.ins[i] = Enabled(a)
      BY <1>10, <2>2, DummyNf
    <2>4. OwnNullifier(m) = OwnNullifier(a)
      BY <2>1, <2>3, EnabledNf
    <2>5. m = a
      BY <1>7, <1>9, <2>3, <2>4, SameNullifier
    <2> QED
      BY <1>9, <2>3, <2>5
  <1>15. Releasing'
    BY <1>6 DEF Releasing
  <1>16. Following'
    <2>1. FileStands(file, Replayed(chain))
      BY <1>3 DEF Locking, Following
    <2>2. \A q \in Procs : Before(view[q], Replayed(chain)) /\ FileStands(file, view[q])
      BY <1>3, <1>6 DEF Locking, Following
    <2> QED
      BY <1>1, <2>1, <2>2 DEF Following
  <1> QED
    BY <1>11, <1>12, <1>13, <1>14, <1>15, <1>16 DEF Locking

LEMMA BroadcastLocks ==
  ASSUME Quiet, SendInv, NEW p \in Procs, Broadcast(p)
  PROVE  Locking'
  <1> DEFINE t == tx[p]
  <1>1. /\ pc[p] = "built" /\ pc'[p] = "published" /\ file' = file /\ chain' = chain
        /\ view' = view /\ tx' = tx /\ mempool' = mempool \cup {t}
    BY DEF SendInv, ShapeInv, WalletInv, Types, Broadcast, Goto, Relay
  <1>2. Types /\ Locking /\ Shapes /\ Named
    BY DEF SendInv, ShapeInv, WalletInv
  <1>3. \A u : Alive(u)' => Alive(u) \/ u = t
    BY <1>1 DEF Alive, Accepted, Height
  <1>4. \A q \in Procs : q = p
    BY OneProc
  <1>5. \A q \in Procs : InHand(q) /\ InHand(q)' /\ pc[q] = "built" /\ pc'[q] = "published"
    BY <1>1, <1>4 DEF InHand
  <1>6. t \in OwnTransfers /\ Ours(t) /\ IsAround(t)
    BY <1>2, <1>5 DEF Shapes, Ours, IsAround
  <1>7. \A n \in Range(file.notes) : Spends(t, n) => ~n.spent /\ n.locked_by = NoTx
    BY <1>2, <1>5 DEF Locking, Spare
  <1>8. /\ FileOK(file) /\ Replayed(chain) \in Good /\ Clean(Replayed(chain))
        /\ FileStands(file, Replayed(chain))
    BY <1>2, Now, CleanReplayed DEF Types, Shapes, Locking, Following
  <1> HIDE DEF t
  <1>9. Listed'
    <2>1. \A u \in OwnTransfers : Ours(u)' => Ours(u)
      BY <1>1, <1>3, <1>5, <1>6 DEF Ours
    <2> QED
      BY <1>1, <1>2, <2>1, ListedStays DEF Locking
  <1>10. Holding'
    <2> SUFFICES ASSUME NEW u \in OwnTransfers, NEW n \in Range(file.notes), Alive(u)', Spends(u, n)
                 PROVE  Holder(n, u) \/ \E q \in Procs : pc'[q] = "published" /\ tx'[q] = u
      BY <1>1 DEF Holding
    <2>1. CASE Alive(u)
      BY <1>2, <1>5, <2>1 DEF Locking, Holding
    <2>2. CASE u = t
      BY <1>1, <2>2 DEF t
    <2> QED
      BY <1>3, <2>1, <2>2
  <1>11. ASSUME NEW u \in OwnTransfers, Alive(u), u # t, NEW x \in Nfs(t.env) \cap Nfs(u.env)
         PROVE  FALSE
    <2>1. ASSUME NEW n \in Range(file.notes), OwnNullifier(n) = x
          PROVE  FALSE
      <3>1. Spends(t, n) /\ Spends(u, n)
        BY <2>1 DEF Spends
      <3>2. Holder(n, u)
        BY <1>2, <1>5, <1>11, <3>1 DEF Locking, Holding
      <3>3. n.locked_by = u /\ n.locked_by = NoTx
        BY <1>7, <3>1, <3>2 DEF Holder
      <3>4. u.id # 0
        BY DEF OwnTransfers
      <3> QED
        BY <3>3, <3>4 DEF NoTx
    <2>2. PICK i \in Slots :
            /\ x = Nf(t.env, i)
            /\ ~t.env.ins[i].on => x = << <<"dummy", t.id>>, 0, 0>>
      BY <1>6, OwnSlots
    <2>3. PICK j \in Slots :
            /\ x = Nf(u.env, j)
            /\ ~u.env.ins[j].on => x = << <<"dummy", u.id>>, 0, 0>>
      BY OwnSlots
    <2>4. CASE t.env.ins[i].on
      BY <1>2, <1>6, <2>1, <2>2, <2>4 DEF Locking, Listed
    <2>5. CASE u.env.ins[j].on
      BY <1>2, <1>11, <2>1, <2>3, <2>5 DEF Locking, Listed, Ours
    <2>6. CASE ~t.env.ins[i].on /\ ~u.env.ins[j].on
      <3>1. << <<"dummy", t.id>>, 0, 0>> = << <<"dummy", u.id>>, 0, 0>>
        BY <2>2, <2>3, <2>6
      <3>2. t.id = u.id
        BY <3>1
      <3>3. IsAround(u)
        BY <1>2, <1>11, AliveAround
      <3>4. t = u
        BY <1>2, <1>6, <3>2, <3>3 DEF Named
      <3> QED
        BY <1>11, <3>4
    <2> QED
      BY <2>4, <2>5, <2>6
  <1>12. Apart'
    <2> SUFFICES ASSUME NEW u \in OwnTransfers, NEW v \in OwnTransfers, Alive(u)', Alive(v)', u # v
                 PROVE  Nfs(u.env) \cap Nfs(v.env) = {}
      BY DEF Apart
    <2>1. CASE Alive(u) /\ Alive(v)
      BY <1>2, <2>1 DEF Locking, Apart
    <2>2. CASE u = t
      <3>1. Alive(v)
        BY <1>3, <2>2
      <3> QED
        BY <1>11, <2>2, <3>1
    <2>3. CASE v = t
      <3>1. Alive(u)
        BY <1>3, <2>3
      <3> QED
        BY <1>11, <2>3, <3>1
    <2> QED
      BY <1>3, <2>1, <2>2, <2>3
  <1>13. Spare'
    BY <1>1, <1>2, <1>5 DEF Locking, Spare
  <1>14. Releasing'
    BY <1>5 DEF Releasing
  <1>15. Following'
    BY <1>1, <1>2, <1>5 DEF Locking, Following
  <1> QED
    BY <1>9, <1>10, <1>12, <1>13, <1>14, <1>15 DEF Locking

(* A file whose notes are changed in place, but for what they are.          *)
LEMMA InPlace ==
  ASSUME NEW f, FileOK(f), NEW g, g = [i \in DOMAIN f.notes |-> g[i]],
         \A i \in DOMAIN f.notes : g[i].leaf = f.notes[i].leaf /\ g[i].pos = f.notes[i].pos,
         NEW r, r = [f EXCEPT !.notes = g]
  PROVE  /\ r.notes = g /\ DOMAIN g = DOMAIN f.notes
         /\ \A i \in DOMAIN g : OwnNullifier(g[i]) = OwnNullifier(f.notes[i])
         /\ \A n \in Range(f.notes) : \E m \in Range(r.notes) : OwnNullifier(m) = OwnNullifier(n)
         /\ \A s : FileStands(f, s) => FileStands(r, s)
  <1>1. /\ r.notes = g /\ r.scanned_events = f.scanned_events
        /\ r.scanned_txid = f.scanned_txid
    BY DEF FileOK, File
  <1>2. DOMAIN g = DOMAIN f.notes
    OBVIOUS
  <1>3. \A i \in DOMAIN g : OwnNullifier(g[i]) = OwnNullifier(f.notes[i])
    <2>1. \A m, n : m.leaf = n.leaf /\ m.pos = n.pos => OwnNullifier(m) = OwnNullifier(n)
      BY DEF OwnNullifier
    <2> QED
      BY <1>2, <2>1
  <1>4. \A n \in Range(f.notes) : \E m \in Range(r.notes) : OwnNullifier(m) = OwnNullifier(n)
    <2> TAKE n \in Range(f.notes)
    <2>1. PICK i \in DOMAIN f.notes : n = f.notes[i]
      BY DEF Range
    <2>2. g[i] \in Range(r.notes) /\ OwnNullifier(g[i]) = OwnNullifier(n)
      BY <1>1, <1>2, <1>3, <2>1 DEF Range
    <2> QED
      BY <2>2
  <1>5. ASSUME NEW s, FileStands(f, s) PROVE FileStands(r, s)
    <2>1. \A n \in Range(r.notes) : Enters(s.leaves, n)
      BY <1>1, <1>2, <1>5, SMTT(30) DEF FileStands, Enters, Range
    <2>2. r.scanned_events > 0 => Anchored(r, s)
      BY <1>1, <1>5 DEF FileStands, Anchored
    <2> QED
      BY <2>1, <2>2 DEF FileStands
  <1> QED
    BY <1>1, <1>2, <1>3, <1>4, <1>5

(* Ends of commands that leave the file as it is or change it in place.     *)
LEMMA EndLocks ==
  ASSUME Quiet, SendInv, NEW p \in Procs, End(p), chain' = chain, mempool' = mempool,
         \A n \in Range(file.notes) : \E m \in Range(file'.notes) : OwnNullifier(m) = OwnNullifier(n),
         FileStands(file', Replayed(chain)),
         \A t \in OwnTransfers, n \in Range(file'.notes) : Alive(t) /\ Spends(t, n) => Holder(n, t)
  PROVE  Locking'
  <1>1. Types /\ Locking
    BY DEF SendInv, ShapeInv, WalletInv
  <1>2. pc'[p] = "idle"
    BY <1>1, Ended
  <1>3. \A t : Alive(t)' <=> Alive(t)
    BY AliveSame
  <1>4. \A q \in Procs : pc'[q] = "idle" /\ ~InHand(q)'
    BY <1>2, OneProc DEF InHand
  <1>5. Listed'
    <2>1. \A t \in OwnTransfers : Ours(t)' => Ours(t)
      BY <1>3, <1>4 DEF Ours
    <2> QED
      BY <1>1, <2>1, ListedStays DEF Locking
  <1>6. Holding'
    BY <1>3 DEF Holding
  <1>7. Apart'
    BY <1>1, <1>3 DEF Locking, Apart
  <1>8. Spare' /\ Releasing'
    BY <1>4 DEF Spare, Releasing
  <1>9. Following'
    BY <1>4 DEF Following
  <1> QED
    BY <1>5, <1>6, <1>7, <1>8, <1>9 DEF Locking

LEMMA LockInputsLocks ==
  ASSUME Quiet, SendInv, NEW p \in Procs, LockInputs(p)
  PROVE  Locking'
  <1> DEFINE t == tx[p]
             old == file.notes
             g == [i \in DOMAIN old |-> IF Spends(t, old[i]) THEN Locked(t, old[i]) ELSE old[i]]
  <1>1. /\ pc[p] = "published" /\ file' = [file EXCEPT !.notes = g] /\ End(p)
        /\ chain' = chain /\ mempool' = mempool
    BY DEF LockInputs, EachNote, network
  <1>2. Types /\ Locking /\ Shapes /\ FileOK(file)
    BY DEF SendInv, ShapeInv, WalletInv, Types
  <1>3. \A i \in DOMAIN old : old[i] \in Note
    BY <1>2, FileParts DEF FileOK
  <1>4. \A n \in Note : /\ Locked(t, n).leaf = n.leaf /\ Locked(t, n).pos = n.pos
                        /\ Locked(t, n).locked_by = t /\ Locked(t, n).lock_anchor = t.env.anchor
    BY DEF Locked, Note
  <1>5. \A i \in DOMAIN old :
          /\ g[i].leaf = old[i].leaf /\ g[i].pos = old[i].pos
          /\ g[i] = IF Spends(t, old[i]) THEN Locked(t, old[i]) ELSE old[i]
    BY <1>3, <1>4
  <1>6. g = [i \in DOMAIN file.notes |-> g[i]]
    OBVIOUS
  <1>7. \A q \in Procs : q = p
    BY OneProc
  <1> HIDE DEF g, t
  <1>8. /\ file'.notes = g /\ DOMAIN g = DOMAIN file.notes
        /\ \A i \in DOMAIN g : OwnNullifier(g[i]) = OwnNullifier(file.notes[i])
        /\ \A n \in Range(file.notes) : \E m \in Range(file'.notes) : OwnNullifier(m) = OwnNullifier(n)
        /\ \A s : FileStands(file, s) => FileStands(file', s)
    BY <1>1, <1>2, <1>5, <1>6, InPlace, SMTT(30)
  <1>9. ASSUME NEW u \in OwnTransfers, NEW n \in Range(file'.notes), Alive(u), Spends(u, n)
        PROVE  Holder(n, u)
    <2>1. PICK i \in DOMAIN old : n = g[i]
      BY <1>8 DEF Range
    <2> DEFINE m == old[i]
    <2>2. m \in Range(file.notes) /\ m \in Note /\ Spends(u, m)
      BY <1>3, <1>8, <1>9, <2>1 DEF Range, Spends
    <2>3. Holder(m, u) \/ u = t
      <3>1. \A q \in Procs : tx[q] = t
        BY <1>7 DEF t
      <3> HIDE DEF m
      <3> QED
        BY <1>2, <1>9, <2>2, <3>1 DEF Locking, Holding
    <2>4. CASE Spends(t, m)
      <3>1. ~m.spent /\ m.locked_by = NoTx
        BY <1>1, <1>2, <2>2, <2>4 DEF Locking, Spare, InHand, t
      <3>2. u.id # 0
        BY DEF OwnTransfers
      <3>3. u = t
        BY <2>3, <3>1, <3>2 DEF Holder, NoTx
      <3>4. n = Locked(t, m)
        BY <1>5, <2>1, <2>4
      <3> QED
        BY <1>4, <2>2, <3>3, <3>4 DEF Holder
    <2>5. CASE ~Spends(t, m)
      <3>1. n = m
        BY <1>5, <2>1, <2>5
      <3> QED
        BY <2>2, <2>3, <2>5, <3>1
    <2> QED
      BY <2>4, <2>5
  <1>10. FileStands(file', Replayed(chain))
    BY <1>2, <1>8 DEF Locking, Following
  <1> QED
    BY <1>1, <1>8, <1>9, <1>10, EndLocks

LEMMA UnlockLocks ==
  ASSUME Quiet, SendInv, NEW p \in Procs, Unlock(p)
  PROVE  Locking'
  <1> DEFINE t == tx[p]
             old == file.notes
             g == [i \in DOMAIN old |-> IF old[i].locked_by = t THEN Unlocked(old[i]) ELSE old[i]]
  <1>1. /\ pc[p] = "unlock" /\ file' = [file EXCEPT !.notes = g] /\ End(p)
        /\ chain' = chain /\ mempool' = mempool
    BY DEF Unlock, EachNote, network
  <1>2. Types /\ Locking /\ Shapes /\ FileOK(file)
    BY DEF SendInv, ShapeInv, WalletInv, Types
  <1>3. \A i \in DOMAIN old : old[i] \in Note
    BY <1>2, FileParts DEF FileOK
  <1>4. \A n \in Note : /\ Unlocked(n).leaf = n.leaf /\ Unlocked(n).pos = n.pos
                        /\ Unlocked(n).spent = n.spent
    BY DEF Unlocked, Note
  <1>5. \A i \in DOMAIN old :
          /\ g[i].leaf = old[i].leaf /\ g[i].pos = old[i].pos
          /\ g[i] = IF old[i].locked_by = t THEN Unlocked(old[i]) ELSE old[i]
    BY <1>3, <1>4
  <1>6. g = [i \in DOMAIN file.notes |-> g[i]]
    OBVIOUS
  <1>7. ~Alive(t) /\ \A q \in Procs : pc[q] = "unlock"
    BY <1>1, <1>2, OneProc DEF Locking, Releasing
  <1> HIDE DEF g, t
  <1>8. /\ file'.notes = g /\ DOMAIN g = DOMAIN file.notes
        /\ \A i \in DOMAIN g : OwnNullifier(g[i]) = OwnNullifier(file.notes[i])
        /\ \A n \in Range(file.notes) : \E m \in Range(file'.notes) : OwnNullifier(m) = OwnNullifier(n)
        /\ \A s : FileStands(file, s) => FileStands(file', s)
    BY <1>1, <1>2, <1>5, <1>6, InPlace
  <1>9. ASSUME NEW u \in OwnTransfers, NEW n \in Range(file'.notes), Alive(u), Spends(u, n)
        PROVE  Holder(n, u)
    <2>1. PICK i \in DOMAIN old : n = g[i]
      BY <1>8 DEF Range
    <2> DEFINE m == old[i]
    <2>2. m \in Range(file.notes) /\ m \in Note /\ Spends(u, m)
      BY <1>3, <1>8, <1>9, <2>1 DEF Range, Spends
    <2> HIDE DEF m
    <2>3. Holder(m, u)
      BY <1>2, <1>7, <1>9, <2>2 DEF Locking, Holding
    <2>4. u # t
      BY <1>7, <1>9
    <2>5. n = IF m.locked_by = t THEN Unlocked(m) ELSE m
      BY <1>5, <2>1 DEF m
    <2> QED
      BY <1>4, <2>2, <2>3, <2>4, <2>5 DEF Holder
  <1>10. FileStands(file', Replayed(chain))
    BY <1>2, <1>8 DEF Locking, Following
  <1> QED
    BY <1>1, <1>8, <1>9, <1>10, EndLocks

LEMMA QuitLocks ==
  ASSUME Quiet, SendInv, NEW p \in Procs, Quit(p)
  PROVE  Locking'
  <1>1. /\ pc[p] # "published" /\ End(p)
        /\ chain' = chain /\ mempool' = mempool /\ file' = file
    BY DEF Quit, network
  <1>2. Locking /\ \A q \in Procs : pc[q] # "published"
    BY <1>1, OneProc DEF SendInv
  <1>3. \A t \in OwnTransfers, n \in Range(file'.notes) : Alive(t) /\ Spends(t, n) => Holder(n, t)
    BY <1>1, <1>2 DEF Locking, Holding
  <1>4. FileStands(file', Replayed(chain))
    BY <1>1, <1>2 DEF Locking, Following
  <1> QED
    BY <1>1, <1>3, <1>4, EndLocks

LEMMA AskCarrierLocks ==
  ASSUME Quiet, SendInv, NEW p \in Procs, NEW t, AskCarrier(p, t)
  PROVE  Locking'
  <1>1. /\ pc[p] = "idle" /\ pc'[p] = "unlock" /\ t \notin Published
        /\ tx' = [tx EXCEPT ![p] = t]
        /\ chain' = chain /\ mempool' = mempool /\ file' = file /\ view' = view
    BY DEF SendInv, ShapeInv, WalletInv, Types, AskCarrier, Goto, network, Quiet
  <1>2. Types /\ Locking
    BY DEF SendInv, ShapeInv, WalletInv
  <1>3. \A u : Alive(u)' <=> Alive(u)
    BY <1>1, AliveSame
  <1>4. \A q \in Procs : q = p
    BY OneProc
  <1>5. \A q \in Procs : ~InHand(q)' /\ pc[q] = "idle" /\ pc'[q] = "unlock" /\ tx'[q] = t
    BY <1>1, <1>2, <1>4 DEF InHand, Types
  <1>6. Listed'
    <2>1. \A u \in OwnTransfers : Ours(u)' => Ours(u)
      BY <1>3, <1>5 DEF Ours
    <2> QED
      BY <1>1, <1>2, <2>1, ListedStays DEF Locking
  <1>7. Holding' /\ Apart'
    BY <1>1, <1>2, <1>3, <1>5 DEF Locking, Holding, Apart
  <1>8. ~Alive(t)
    BY <1>1, <1>2, AlivePublished
  <1>9. Spare' /\ Releasing'
    BY <1>3, <1>5, <1>8 DEF Spare, Releasing
  <1>10. Following'
    BY <1>1, <1>2, <1>5 DEF Locking, Following
  <1> QED
    BY <1>6, <1>7, <1>9, <1>10 DEF Locking

-----------------------------------------------------------------------------
(* The network.                                                            *)

(* Carriers leave the mempool, or are mined in time.                        *)
LEMMA FewerLocks ==
  ASSUME SendInv, \A t : Alive(t)' => Alive(t),
         file' = file, pc' = pc, tx' = tx, Following'
  PROVE  Locking'
  <1>1. Locking
    BY DEF SendInv
  <1>2. \A t : Ours(t)' => Ours(t)
    BY DEF Ours, InHand
  <1>3. Listed'
    BY <1>1, <1>2, ListedStays DEF Locking
  <1>4. Holding' /\ Apart' /\ Spare' /\ Releasing'
    BY <1>1 DEF Locking, Holding, Apart, Spare, Releasing, InHand
  <1> QED
    BY <1>3, <1>4 DEF Locking

LEMMA EvictLocks ==
  ASSUME SendInv, NEW t \in mempool, Evict(t)
  PROVE  Locking'
  <1>1. mempool' \subseteq mempool /\ UNCHANGED <<chain, file, pc, view, tx>>
    BY DEF Evict
  <1>2. \A u : Alive(u)' => Alive(u)
    BY <1>1 DEF Alive, Accepted, Height
  <1>3. Following'
    BY <1>1 DEF SendInv, Locking, Following
  <1> QED
    BY <1>1, <1>2, <1>3, FewerLocks

LEMMA MineLocks ==
  ASSUME SendInv, MineAny
  PROVE  Locking'
  <1> DEFINE now == Replayed(chain)
             next == Replayed(chain')
             h == now.replayed_height + 1
  <1>1. Types /\ Shapes /\ Locking
    BY DEF SendInv, ShapeInv, WalletInv
  <1>2. PICK txs \in Seq(Tx) :
          /\ Range(txs) \subseteq Minable
          /\ chain' = Append(chain, txs) /\ mempool' = mempool \ Range(txs)
          /\ UNCHANGED <<file, pc, view, tx>>
          /\ Len(chain') = Len(chain) + 1
    BY <1>1, MineIs
  <1>3. now \in Good /\ now.replayed_height = Height /\ Height \in Nat
    BY <1>1, Now, HeightNat
  <1>4. next = ReplayBlock(now, txs)
    BY <1>1, <1>2, ReplayedAppend DEF Types
  <1>5. Height' = Height + 1
    <2>1. Height = Activation - 1 + Len(chain) /\ Height' = Activation - 1 + (Len(chain) + 1)
      BY <1>2 DEF Height
    <2>2. Len(chain) \in Nat /\ Activation \in Nat
      BY <1>1, WalletConstants, LenProperties DEF Types
    <2> QED
      BY <2>1, <2>2
  <1>0. h = now.replayed_height + 1
    OBVIOUS
  <1> HIDE DEF now, next, h
  <1>6. next \in Good /\ next.replayed_height = h /\ Grows(now, next, Range(txs), h)
    <2>1. txs \in Seq(Tx) /\ now \in Good
      BY <1>2, <1>3
    <2> QED
      BY <1>0, <1>4, <2>1, BlockGrows
  <1>7. ASSUME NEW t, Alive(t)'
        PROVE  Alive(t)
    <2>1. t \in OwnTransfers /\ t.env.anchor \in Nat /\ WindowW \in Nat
      BY <1>7, TransferOf, WalletConstants DEF Alive, OwnTransfers
    <2>2. CASE t \in mempool' /\ Height' < t.env.anchor + WindowW
      <3>1. t \in mempool
        BY <1>2, <2>2
      <3>2. Height < t.env.anchor + WindowW
        BY <1>3, <1>5, <2>1, <2>2
      <3> QED
        BY <2>1, <3>1, <3>2 DEF Alive
    <2>3. CASE \E i \in DOMAIN next.events : next.events[i].txid = t
      <3>1. PICK i \in DOMAIN next.events : next.events[i].txid = t
        BY <2>3
      <3>2. CASE i \in DOMAIN now.events
        <4>1. now.events[i].txid = t
          BY <1>6, <3>1, <3>2 DEF Grows, Longer
        <4> QED
          BY <2>1, <3>2, <4>1 DEF Alive, Accepted, now
      <3>3. CASE i \notin DOMAIN now.events
        <4>1. t \in Range(txs) /\ next.events[i].height = h /\ InTime(next.events[i])
          BY <1>6, <3>1, <3>3 DEF Grows
        <4>2. t \in mempool
          BY <1>1, <1>2, <2>1, <4>1, MinableIs DEF OwnTransfers
        <4>3. h <= t.env.anchor + WindowW
          BY <2>1, <3>1, <4>1 DEF InTime, OwnTransfers
        <4>4. Height < t.env.anchor + WindowW
          BY <1>0, <1>3, <2>1, <4>3
        <4> QED
          BY <2>1, <4>2, <4>4 DEF Alive
      <3> QED
        BY <3>2, <3>3
    <2> QED
      BY <1>7, <2>2, <2>3 DEF Alive, Accepted, next
  <1>8. Following'
    <2>1. FileStands(file, next)
      <3>1. FileStands(file, now) /\ FileOK(file)
        BY <1>1 DEF Locking, Following, Types, now
      <3>2. Longer(now.leaves, next.leaves) /\ Longer(now.events, next.events)
        BY <1>6 DEF Grows
      <3> QED
        BY <1>3, <1>6, <3>1, <3>2, StandsOn
    <2>2. ASSUME NEW p \in Procs, pc[p] \in {"synced", "scanned", "built", "published"}
          PROVE  Before(view[p], next) /\ FileStands(file, view[p])
      <3>1. Before(view[p], now) /\ FileStands(file, view[p]) /\ view[p] \in Good
        BY <1>1, <2>2 DEF Locking, Following, Types, now
      <3> QED
        BY <1>0, <1>3, <1>6, <3>1, BeforeGrows
    <2> QED
      BY <1>2, <2>1, <2>2 DEF Following, next
  <1> QED
    BY <1>2, <1>7, <1>8, FewerLocks

-----------------------------------------------------------------------------
(* Names.                                                                  *)

LEMMA BuiltMoves ==
  ASSUME Types, [Next]_vars
  PROVE  built' = built \/ \E p \in Procs : BuildTransfer(p)
  <1>1. CASE MineAny \/ Disconnect \/ (\E t \in mempool : Evict(t)) \/ (\E t \in gone : Return(t))
    BY <1>1, MineIs, DisconnectIs DEF Evict, Return
  <1>2. ASSUME NEW p \in Procs, Step(p)
        PROVE  built' = built \/ BuildTransfer(p)
    BY <1>2 DEF Step, Sync, OpenAndScan, Broadcast, BroadcastLost, LockInputs, Quit,
                CrashUnsaved, AskCarrier, Unlock
  <1>3. CASE UNCHANGED vars
    BY <1>3 DEF vars
  <1> QED
    BY <1>1, <1>2, <1>3 DEF Next

LEMMA NamedStays ==
  ASSUME Quiet, SendInv, ShapeInv', [Next]_vars
  PROVE  Named'
  <1>1. ShapeInv /\ Types /\ Named /\ built \in Nat
    BY WalletConstants, SMTT(30) DEF SendInv, ShapeInv, WalletInv, Types
  <1>2. ASSUME NEW p \in Procs, BuildTransfer(p)
        PROVE  built' = built + 1 /\ tx'[p].id = built + 1
    <2>1. PICK in : tx' = [tx EXCEPT ![p] = Transfer(built + 1, view[p], in)]
      BY <1>2 DEF BuildTransfer
    <2> QED
      BY <1>1, <1>2, <2>1 DEF BuildTransfer, Types, Transfer
  <1>3. \A p, q \in Procs : p = q
    BY DEF Quiet
  <1> SUFFICES ASSUME NEW t \in OwnTransfers, NEW u \in OwnTransfers, IsAround(t)'
               PROVE  t.id <= built' /\ (IsAround(u)' /\ t.id = u.id => t = u)
    BY DEF Named
  <1>4. t.id \in Nat /\ u.id \in Nat
    BY DEF OwnTransfers
  <1>5. IsAround(t) \/ \E p \in Procs : BuildTransfer(p) /\ t = tx'[p]
    BY <1>1, AroundGrows
  <1>6. IsAround(u)' => IsAround(u) \/ \E p \in Procs : BuildTransfer(p) /\ u = tx'[p]
    BY <1>1, AroundGrows
  <1>7. CASE \E p \in Procs : BuildTransfer(p)
    <2>1. PICK p \in Procs : BuildTransfer(p)
      BY <1>7
    <2>2. built' = built + 1 /\ tx'[p].id = built + 1
      BY <1>2, <2>1
    <2>3. IsAround(t) \/ t = tx'[p]
      BY <1>3, <1>5
    <2>4. IsAround(u)' => IsAround(u) \/ u = tx'[p]
      BY <1>3, <1>6
    <2>5. /\ IsAround(t) => t.id <= built
          /\ IsAround(u) => u.id <= built
          /\ IsAround(t) /\ IsAround(u) /\ t.id = u.id => t = u
      BY <1>1 DEF Named
    <2>6. t.id <= built + 1
      BY <1>1, <1>4, <2>2, <2>3, <2>5
    <2>7. ASSUME IsAround(u)', t.id = u.id
          PROVE  t = u
      <3>1. CASE IsAround(t) /\ IsAround(u)
        BY <2>5, <2>7, <3>1
      <3>2. CASE t = tx'[p] /\ u = tx'[p]
        BY <3>2
      <3>3. CASE IsAround(t) /\ u = tx'[p]
        BY <1>1, <1>4, <2>2, <2>5, <2>7, <3>3
      <3>4. CASE IsAround(u) /\ t = tx'[p]
        BY <1>1, <1>4, <2>2, <2>5, <2>7, <3>4
      <3> QED
        BY <2>3, <2>4, <2>7, <3>1, <3>2, <3>3, <3>4
    <2> QED
      BY <2>2, <2>6, <2>7
  <1>8. CASE ~\E p \in Procs : BuildTransfer(p)
    <2>1. built' = built
      BY <1>1, <1>8, BuiltMoves
    <2> QED
      BY <1>1, <1>5, <1>6, <1>8, <2>1 DEF Named
  <1> QED
    BY <1>7, <1>8

-----------------------------------------------------------------------------
(* All steps.                                                              *)

LEMMA InitLocks == Init => Named /\ Locking
  <1> SUFFICES ASSUME Init PROVE Named /\ Locking
    OBVIOUS
  <1>1. Types
    BY InitInv DEF WalletInv
  <1>2. \A t : ~IsAround(t)
    BY InitNothing
  <1>3. \A t : ~Alive(t)
    BY <1>1, <1>2, AliveAround
  <1>4. /\ file.notes = <<>> /\ file.scanned_events = 0
        /\ \A p \in Procs : pc[p] = "idle"
    BY DEF Init
  <1>5. \A p \in Procs : ~InHand(p)
    BY <1>4 DEF InHand
  <1>6. Named
    BY <1>2 DEF Named
  <1>7. Listed /\ Holding /\ Apart
    BY <1>3, <1>5 DEF Listed, Ours, Holding, Apart
  <1>8. Spare /\ Releasing
    BY <1>4, <1>5 DEF Spare, Releasing
  <1>9. Following
    <2>1. Range(file.notes) = {}
      BY <1>4 DEF Range
    <2> QED
      BY <1>4, <2>1 DEF Following, FileStands
  <1> QED
    BY <1>6, <1>7, <1>8, <1>9 DEF Locking

LEMMA NextLocks ==
  ASSUME Quiet, SendInv, ShapeInv', [Next]_vars
  PROVE  Locking'
  <1>1. CASE UNCHANGED vars
    <2>1. /\ UNCHANGED <<file, pc, tx>> /\ chain' = chain /\ mempool' = mempool /\ view' = view
      BY <1>1 DEF vars, network
    <2>2. \A t : Alive(t)' => Alive(t)
      BY <2>1, AliveSame
    <2>3. Following'
      BY <2>1 DEF SendInv, Locking, Following
    <2> QED
      BY <2>1, <2>2, <2>3, FewerLocks
  <1>2. CASE MineAny
    BY <1>2, MineLocks
  <1>3. CASE Disconnect
    <2>1. dropped < MaxDropped /\ dropped \in Nat /\ MaxDropped = 0
      BY <1>3, WalletConstants DEF Disconnect, SendInv, ShapeInv, WalletInv, Types, Quiet
    <2> QED
      BY <2>1
  <1>4. CASE \E t \in mempool : Evict(t)
    BY <1>4, EvictLocks
  <1>5. CASE \E t \in gone : Return(t)
    BY <1>5 DEF Return, Quiet
  <1>6. ASSUME NEW p \in Procs, Step(p)
        PROVE  Locking'
    <2>1. CASE Sync(p)
      BY <2>1, SyncLocks
    <2>2. CASE OpenAndScan(p)
      BY <2>2, ScanLocks
    <2>3. CASE BuildTransfer(p)
      BY <2>3, BuildLocks DEF ShapeInv
    <2>4. CASE Broadcast(p)
      BY <2>4, BroadcastLocks
    <2>5. CASE BroadcastLost(p) \/ CrashUnsaved(p)
      BY <2>5 DEF BroadcastLost, CrashUnsaved, Quiet
    <2>6. CASE LockInputs(p)
      BY <2>6, LockInputsLocks
    <2>7. CASE Quit(p)
      BY <2>7, QuitLocks
    <2>8. CASE \E t \in {n.locked_by : n \in Range(file.notes)} \ {NoTx} : AskCarrier(p, t)
      BY <2>8, AskCarrierLocks
    <2>9. CASE Unlock(p)
      BY <2>9, UnlockLocks
    <2> QED
      BY <1>6, <2>1, <2>2, <2>3, <2>4, <2>5, <2>6, <2>7, <2>8, <2>9 DEF Step
  <1> QED
    BY <1>1, <1>2, <1>3, <1>4, <1>5, <1>6 DEF Next

LEMMA AlwaysLocking == ASSUME Quiet PROVE Spec => []SendInv
  <1>1. Init => SendInv
    BY InitInv, InitShapes, InitLocks DEF SendInv, ShapeInv
  <1>2. SendInv /\ ShapeInv /\ ShapeInv' /\ [Next]_vars => SendInv'
    BY NamedStays, NextLocks DEF SendInv
  <1> QED
    BY <1>1, <1>2, AlwaysShapes, PTL DEF Spec

(* Where one command runs at a time, nothing unhappens and the server        *)
(* answers unlock's question with an error only for a carrier it does not    *)
(* know (Quiet), every input of a published carrier that may still be        *)
(* accepted is locked by it or seen spent, but between broadcast and save:   *)
(* no scan and no unlock releases it, no other command takes it over.        *)
(* (wallet.rs: lock_inputs; update_notes releases only once the window of    *)
(* the lock's anchor is over.)  With any other error reply the code does     *)
(* release it: see UnlockRefuses of Wallet.                                 *)
THEOREM LocksHold == ASSUME Quiet PROVE Spec => []LockedWhilePublished
  <1>1. SendInv => LockedWhilePublished
    <2> SUFFICES ASSUME SendInv, NEW t \in mempool, NEW n \in Range(file.notes),
                        Live(t), Spends(t, n)
                 PROVE  \/ n.locked_by = t \/ n.spent
                        \/ \E p \in Procs : pc[p] = "published" /\ tx[p] = t
      BY DEF LockedWhilePublished
    <2>1. t \in OwnTransfers /\ Holding
      BY DEF SendInv, ShapeInv, Shapes, Locking
    <2>2. Alive(t)
      BY <2>1 DEF Alive, Live
    <2> QED
      BY <2>1, <2>2 DEF Holding, Holder
  <1> QED
    BY <1>1, AlwaysLocking, PTL

(* Under the same conditions, a server whose errors are about carriers it    *)
(* does not know among them, the wallet never publishes a carrier while      *)
(* another one of its own that spends the same note is accepted or may       *)
(* still be: the notes of what it builds are unlocked ones, and those of     *)
(* the others are all locked.                                              *)
THEOREM NoRivalCarriers == ASSUME Quiet PROVE Spec => []NoRivals
  <1>1. SendInv => NoRivals
    <2> SUFFICES ASSUME SendInv, NEW t \in mempool, NEW u \in Published,
                        t # u, Nfs(t.env) \cap Nfs(u.env) # {}, Live(t)
                 PROVE  ~Live(u) /\ u \notin {e.txid : e \in Range(Replayed(chain).events)}
      BY DEF NoRivals
    <2>1. t \in OwnTransfers /\ Shapes /\ Apart
      BY DEF SendInv, ShapeInv, Shapes, Locking
    <2>2. u \in OwnTransfers
      <3>1. u \in mempool \/ (u \in MinedIn(chain) /\ u.env.kind = "transfer")
        BY MinedIs DEF Published
      <3> QED
        BY <2>1, <3>1 DEF Shapes, PlainMints
    <2>3. Alive(t)
      BY <2>1 DEF Alive, Live
    <2>4. ~Alive(u)
      BY <2>1, <2>2, <2>3 DEF Apart
    <2>5. ~Live(u)
      BY <2>2, <2>4 DEF Alive, Live
    <2>6. ~Accepted(u)
      BY <2>2, <2>4 DEF Alive
    <2> QED
      BY <2>5, <2>6 DEF Accepted, Range
  <1> QED
    BY <1>1, AlwaysLocking, PTL

-----------------------------------------------------------------------------
(* How the events of a state lie over its leaves: one after the other, with *)
(* nothing between them and nothing after the last one.                     *)

Width(t) == IF t \in MintsOf THEN 1 ELSE 2
End1(e) == e.pos + Width(e.txid)

Laid(s) ==
  /\ \A i \in DOMAIN s.events : i = 1 => s.events[i].pos = 0
  /\ \A i, k \in DOMAIN s.events : k = i + 1 => s.events[k].pos = End1(s.events[i])
  /\ \A i, k \in DOMAIN s.events : i < k => End1(s.events[i]) <= s.events[k].pos
  /\ \A i \in DOMAIN s.events : End1(s.events[i]) <= Len(s.leaves)
  /\ IF s.events = <<>> THEN Len(s.leaves) = 0
     ELSE Len(s.leaves) = End1(s.events[Len(s.events)])
  /\ \A p \in 0..(Len(s.leaves) - 1) :
       \E i \in DOMAIN s.events : s.events[i].pos <= p /\ p < End1(s.events[i])

(* Every carrier is in the history once.                                   *)
Once(s) == \A i, k \in DOMAIN s.events : s.events[i].txid = s.events[k].txid => i = k

(* What a transaction adds to the history.                                 *)
Adds(s, r, t) ==
  /\ r.events = Append(s.events, RP!EventAt(s, t))
  /\ t \in MintsOf \cup TransfersOf
  /\ Len(r.leaves) = Len(s.leaves) + Width(t)
  /\ t \in TransfersOf => \A i \in DOMAIN s.events : s.events[i].txid # t

LEMMA TxAdds ==
  ASSUME NEW s \in Good, NEW t \in Tx, NEW h, h = s.replayed_height + 1,
         NEW r, r = R!ReplayTx(s, h, t)
  PROVE  (r.events = s.events /\ r.leaves = s.leaves) \/ Adds(s, r, t)
  <1> DEFINE c == [u \in Tx |-> u.env]
  <1>0. r = RP!ReplayTx(s, h, t)
    BY SameReplayTx
  <1>1. /\ RP!StateInv(s) /\ RP!StateOK(s) /\ h = RP!NextBlock(s) /\ c[t] = t.env
        /\ s.leaves \in Seq(Leaf) /\ s.events \in Seq(RP!Event)
    BY DEF Good, States, RP!StateInv, RP!NextBlock
  <1>2. CASE r = s
    BY <1>2
  <1>3. CASE t \in RP!Mints /\ r = RP!AcceptMint(s, h, t)
    <2> DEFINE m == RP!MintLeaf(c[t])
    <2>1. RP!Extended(s, r, t, <<m>>, {})
      BY <1>1, <1>3, Instance, RP!AcceptMintExtends DEF RP!ReplayConstants
    <2>2. t \in MintsOf /\ t \notin TransfersOf
      BY <1>3, SameNames DEF MintsOf, TransfersOf
    <2>3. m \in Leaf
      <3>1. t.env \in MintEnvelope
        BY <2>2 DEF MintsOf, Tx, Envelope, NoEnvelope, MintEnvelope, TransferEnvelope
      <3>2. m = MintLeaf(t.env)
        BY <1>1, SameNames
      <3> QED
        BY <3>1, <3>2 DEF MintLeaf, MintEnvelope, Leaf, Slots
    <2> HIDE DEF m
    <2>4. r.leaves = s.leaves \o <<m>> /\ r.events = Append(s.events, RP!EventAt(s, t))
      BY <2>1 DEF RP!Extended
    <2>5. Len(r.leaves) = Len(s.leaves) + 1
      <3>1. <<m>> \in Seq(Leaf) /\ Len(<<m>>) = 1
        BY <2>3
      <3> QED
        BY <1>1, <2>4, <3>1, ConcatProperties
    <2> QED
      BY <2>2, <2>4, <2>5 DEF Adds, Width
  <1>4. CASE /\ t \in RP!Transfers /\ r = RP!AcceptTransfer(s, h, t)
             /\ RP!Verdict(s, h, c[t]) = "accept"
    <2> DEFINE a == RP!OutputLeaf(c[t], 0)
               b == RP!OutputLeaf(c[t], 1)
    <2>1. RP!Extended(s, r, t, <<a, b>>, RP!Nfs(c[t]))
      BY <1>1, <1>4, Instance, RP!AcceptTransferExtends DEF RP!ReplayConstants
    <2>2. t \in TransfersOf /\ t \notin MintsOf
      BY <1>4, SameNames DEF MintsOf, TransfersOf
    <2>3. a \in Leaf /\ b \in Leaf
      <3>1. t.env \in TransferEnvelope
        BY <2>2 DEF TransfersOf, Tx, Envelope, NoEnvelope, MintEnvelope, TransferEnvelope
      <3>2. a = OutputLeaf(t.env, 0) /\ b = OutputLeaf(t.env, 1)
        BY <1>1, SameNames
      <3> QED
        BY <3>1, <3>2 DEF OutputLeaf, TransferEnvelope, Leaf, Slots
    <2> HIDE DEF a, b
    <2>4. r.leaves = s.leaves \o <<a, b>> /\ r.events = Append(s.events, RP!EventAt(s, t))
      BY <2>1 DEF RP!Extended
    <2>5. Len(r.leaves) = Len(s.leaves) + 2
      <3> DEFINE new == <<a, b>>
      <3>1. new \in Seq(Leaf) /\ Len(new) = 2
        BY <2>3
      <3>2. r.leaves = s.leaves \o new
        BY <2>4
      <3> HIDE DEF new
      <3>3. Len(r.leaves) = Len(s.leaves) + Len(new)
        BY <1>1, <3>1, <3>2, ConcatProperties, ZenonT(60)
      <3> QED
        BY <3>1, <3>3
    <2>6. ASSUME NEW i \in DOMAIN s.events, s.events[i].txid = t
          PROVE  FALSE
      <3>1. RP!Nfs(c[t]) \cap s.nullifiers = {}
        BY <1>4, RP!AcceptedTransfer, Instance DEF RP!ReplayConstants
      <3>2. i \in RP!TransferEvents(s) /\ RP!Spend(s, i) = c[t]
        BY <1>4, <2>6 DEF RP!TransferEvents, RP!Spend
      <3>3. RP!Nfs(RP!Spend(s, i)) \subseteq s.nullifiers
        BY <1>1, <3>2 DEF RP!StateInv, RP!NullifiersOnce
      <3>4. RP!Nf(c[t], 0) \in RP!Nfs(c[t])
        BY DEF RP!Nfs, RP!Slots
      <3> QED
        BY <3>1, <3>2, <3>3, <3>4
    <2> QED
      BY <2>2, <2>4, <2>5, <2>6 DEF Adds, Width
  <1>5. ASSUME NEW v \in RP!Reasons, r = RP!Reject(s, h, t, v)
        PROVE  r.events = s.events /\ r.leaves = s.leaves
    <2>1. RP!Logged(s, r, [txid |-> t, height |-> h, reason |-> v])
      BY <1>1, <1>5, Instance, RP!RejectLogs DEF RP!ReplayConstants
    <2> QED
      BY <2>1 DEF RP!Logged, RP!SameHistory
  <1>6. \/ r = s
        \/ t \in RP!Mints /\ r = RP!AcceptMint(s, h, t)
        \/ /\ t \in RP!Transfers /\ RP!Verdict(s, h, c[t]) = "accept"
           /\ r = RP!AcceptTransfer(s, h, t)
        \/ \E v \in RP!Reasons : r = RP!Reject(s, h, t, v)
    BY <1>0, Instance, RP!ReplayTxCases DEF RP!ReplayConstants
  <1> QED
    BY <1>2, <1>3, <1>4, <1>5, <1>6

LEMMA AddsAt ==
  ASSUME NEW s \in Good, NEW r, NEW t \in Tx, Adds(s, r, t)
  PROVE  LET n == Len(s.events) IN
         /\ n \in Nat /\ DOMAIN s.events = 1..n /\ DOMAIN r.events = 1..(n + 1)
         /\ Len(r.events) = n + 1 /\ r.events # <<>>
         /\ \A i \in 1..n : r.events[i] = s.events[i]
         /\ r.events[n + 1].txid = t /\ r.events[n + 1].pos = Len(s.leaves)
         /\ \A i \in 1..n : s.events[i].txid \in Tx /\ s.events[i].pos \in Nat
         /\ Len(s.leaves) \in Nat
  <1>1. s.leaves \in Seq(Leaf) /\ s.events \in Seq(RP!Event) /\ RP!StateOK(s)
    BY DEF Good, States, RP!StateInv
  <1>2. /\ Len(s.events) \in Nat /\ DOMAIN s.events = 1..Len(s.events)
        /\ Len(s.leaves) \in Nat
        /\ \A i \in 1..Len(s.events) : s.events[i] \in RP!Event
    BY <1>1, LenProperties, ElementOfSeq
  <1>3. RP!EventAt(s, t) \in RP!Event
    <2>1. s.replayed_height \in Nat
      BY DEF Good, States
    <2> QED
      BY <1>2, <2>1 DEF RP!EventAt, RP!NextBlock, RP!Event
  <1>4. /\ r.events \in Seq(RP!Event) /\ Len(r.events) = Len(s.events) + 1
        /\ \A i \in 1..Len(s.events) : r.events[i] = s.events[i]
        /\ r.events[Len(s.events) + 1] = RP!EventAt(s, t)
    BY <1>1, <1>3, AppendProperties DEF Adds
  <1>5. DOMAIN r.events = 1..(Len(s.events) + 1)
    BY <1>4, LenProperties
  <1>6. r.events # <<>>
    BY <1>2, <1>4, EmptySeq
  <1>7. RP!EventAt(s, t).txid = t /\ RP!EventAt(s, t).pos = Len(s.leaves)
    BY DEF RP!EventAt
  <1>8. \A i \in 1..Len(s.events) : s.events[i].txid \in Tx /\ s.events[i].pos \in Nat
    BY <1>2 DEF RP!Event
  <1> QED
    BY <1>2, <1>4, <1>5, <1>6, <1>7, <1>8

LEMMA AddsLaid ==
  ASSUME NEW s \in Good, NEW r, NEW t \in Tx, Adds(s, r, t), Laid(s)
  PROVE  Laid(r)
  <1> DEFINE n == Len(s.events)
             l == Len(s.leaves)
             e == r.events
  <1>1. /\ n \in Nat /\ DOMAIN s.events = 1..n /\ DOMAIN e = 1..(n + 1)
        /\ Len(e) = n + 1 /\ e # <<>>
        /\ \A i \in 1..n : e[i] = s.events[i]
        /\ e[n + 1].txid = t /\ e[n + 1].pos = l
        /\ \A i \in 1..n : e[i].pos \in Nat
        /\ l \in Nat
    BY AddsAt, SMTT(30)
  <1>2. /\ Width(t) \in {1, 2} /\ \A i \in 1..n : Width(e[i].txid) \in {1, 2}
        /\ Len(r.leaves) = l + Width(t)
    BY DEF Width, Adds
  <1>3. End1(e[n + 1]) = l + Width(t) /\ \A i \in 1..n : End1(e[i]) = End1(s.events[i])
    BY <1>1 DEF End1
  <1>4. /\ \A i \in 1..n : i = 1 => e[i].pos = 0
        /\ \A i, k \in 1..n : k = i + 1 => e[k].pos = End1(e[i])
        /\ \A i, k \in 1..n : i < k => End1(e[i]) <= e[k].pos
        /\ \A i \in 1..n : End1(e[i]) <= l
        /\ n = 0 => l = 0
        /\ n # 0 => l = End1(e[n])
        /\ \A p \in 0..(l - 1) : \E i \in 1..n : e[i].pos <= p /\ p < End1(e[i])
    <2>1. n = 0 <=> s.events = <<>>
      <3>1. s.events \in Seq(RP!Event)
        BY DEF Good, States
      <3> QED
        BY <3>1, EmptySeq
    <2>2. n # 0 => n \in 1..n
      BY <1>1
    <2> DEFINE d == s.events
    <2>3. /\ \A i \in 1..n : i = 1 => d[i].pos = 0
          /\ \A i, k \in 1..n : k = i + 1 => d[k].pos = End1(d[i])
          /\ \A i, k \in 1..n : i < k => End1(d[i]) <= d[k].pos
          /\ \A i \in 1..n : End1(d[i]) <= l
          /\ IF s.events = <<>> THEN l = 0 ELSE l = End1(d[n])
          /\ \A p \in 0..(l - 1) : \E i \in 1..n : d[i].pos <= p /\ p < End1(d[i])
      BY <1>1 DEF Laid
    <2>4. \A i \in 1..n : e[i] = d[i]
      BY <1>1
    <2>5. n # 0 => l = End1(e[n])
      BY <2>1, <2>2, <2>3, <2>4
    <2> HIDE DEF e, d, n, l
    <2> QED
      BY <2>1, <2>3, <2>4, <2>5
  <1>5. \A i \in 1..n : End1(e[i]) \in Nat
    BY <1>1, <1>2, SMTT(30) DEF End1
  <1>6. Len(r.leaves) \in Nat /\ Len(r.leaves) = End1(e[n + 1])
    BY <1>1, <1>2, <1>3
  <1> HIDE DEF n, l, e
  <1>7. \A i \in 1..(n + 1) : i = 1 => e[i].pos = 0
    BY <1>1, <1>4
  <1>8. \A i, k \in 1..(n + 1) : k = i + 1 => e[k].pos = End1(e[i])
    BY <1>1, <1>4
  <1>9. \A i, k \in 1..(n + 1) : i < k => End1(e[i]) <= e[k].pos
    <2> TAKE i \in 1..(n + 1), k \in 1..(n + 1)
    <2> HAVE i < k
    <2>1. CASE k \in 1..n
      BY <1>1, <1>4, <2>1
    <2>2. CASE k = n + 1
      BY <1>1, <1>4, <2>2
    <2> QED
      BY <1>1, <2>1, <2>2
  <1>10. \A i \in 1..(n + 1) : End1(e[i]) <= Len(r.leaves)
    <2> TAKE i \in 1..(n + 1)
    <2>1. CASE i \in 1..n
      <3>1. End1(e[i]) <= l
        BY <1>4, <2>1
      <3>2. l <= Len(r.leaves)
        BY <1>1, <1>2
      <3> QED
        BY <1>1, <1>5, <1>6, <2>1, <3>1, <3>2
    <2>2. CASE i = n + 1
      BY <1>6, <2>2
    <2> QED
      BY <1>1, <2>1, <2>2
  <1>11. \A p \in 0..(Len(r.leaves) - 1) :
           \E i \in 1..(n + 1) : e[i].pos <= p /\ p < End1(e[i])
    <2> TAKE p \in 0..(Len(r.leaves) - 1)
    <2>1. CASE p < l
      <3>1. p \in 0..(l - 1)
        BY <1>1, <2>1
      <3>2. PICK i \in 1..n : e[i].pos <= p /\ p < End1(e[i])
        BY <1>4, <3>1
      <3> QED
        BY <1>1, <3>2
    <2>2. CASE p >= l
      <3>1. n + 1 \in 1..(n + 1) /\ e[n + 1].pos <= p /\ p < End1(e[n + 1])
        BY <1>1, <1>6, <2>2
      <3> QED
        BY <3>1
    <2> QED
      BY <1>1, <2>1, <2>2
  <1> QED
    BY <1>1, <1>6, <1>7, <1>8, <1>9, <1>10, <1>11 DEF Laid, e
(* Events of T, laid out, each once.                                       *)
Tells(s, T) ==
  Laid(s) /\ Once(s) /\ \A i \in DOMAIN s.events : s.events[i].txid \in T

LEMMA SameTells ==
  ASSUME NEW s, NEW r, NEW T, NEW U, T \subseteq U, Tells(s, T),
         r.events = s.events, r.leaves = s.leaves
  PROVE  Tells(r, U)
  <1>1. Laid(r)
    BY DEF Tells, Laid
  <1>2. Once(r)
    BY DEF Tells, Once
  <1> QED
    BY <1>1, <1>2 DEF Tells

LEMMA TxTells ==
  ASSUME NEW s \in Good, NEW T, Tells(s, T), NEW t \in Tx, t \in MintsOf => t \notin T,
         NEW h, h = s.replayed_height + 1, NEW r, r = R!ReplayTx(s, h, t)
  PROVE  Tells(r, T \cup {t}) /\ Len(r.events) <= Len(s.events) + 1
  <1>0. Len(s.events) \in Nat
    <2>1. s.events \in Seq(RP!Event)
      BY DEF Good, States
    <2> QED
      BY <2>1, LenProperties
  <1>1. (r.events = s.events /\ r.leaves = s.leaves) \/ Adds(s, r, t)
    BY TxAdds
  <1>2. CASE r.events = s.events /\ r.leaves = s.leaves
    BY <1>0, <1>2, SameTells
  <1>3. CASE Adds(s, r, t)
    <2> DEFINE n == Len(s.events)
    <2>1. /\ DOMAIN s.events = 1..n /\ DOMAIN r.events = 1..(n + 1)
          /\ Len(r.events) = n + 1
          /\ \A i \in 1..n : r.events[i] = s.events[i]
          /\ r.events[n + 1].txid = t
      BY <1>3, AddsAt
    <2>2. Laid(r)
      BY <1>3, AddsLaid DEF Tells
    <2>3. \A i \in 1..n : s.events[i].txid # t
      BY <1>3, <2>1 DEF Adds, Tells
    <2>4. Once(r)
      <3> SUFFICES ASSUME NEW i \in 1..(n + 1), NEW k \in 1..(n + 1),
                          r.events[i].txid = r.events[k].txid
                   PROVE  i = k
        BY <2>1 DEF Once
      <3>1. \A j \in 1..(n + 1) : j \in 1..n \/ j = n + 1
        BY <1>0
      <3> HIDE DEF n
      <3>2. CASE i \in 1..n /\ k \in 1..n
        BY <2>1, <3>2 DEF Tells, Once
      <3> QED
        BY <2>1, <2>3, <3>1, <3>2
    <2>5. \A i \in 1..(n + 1) : r.events[i].txid \in T \cup {t}
      <3>1. \A j \in 1..(n + 1) : j \in 1..n \/ j = n + 1
        BY <1>0
      <3> HIDE DEF n
      <3> QED
        BY <2>1, <3>1 DEF Tells
    <2> QED
      BY <1>0, <2>1, <2>2, <2>4, <2>5 DEF Tells
  <1> QED
    BY <1>1, <1>2, <1>3

LEMMA BlockTells ==
  ASSUME NEW s \in Good, NEW T, Tells(s, T), NEW txs \in Seq(Tx),
         \A k \in DOMAIN txs : txs[k] \in MintsOf => txs[k] \notin T,
         \A k, m \in DOMAIN txs : txs[k] \in MintsOf /\ txs[k] = txs[m] => k = m
  PROVE  LET r == ReplayBlock(s, txs) IN
         Tells(r, T \cup Range(txs)) /\ Len(r.events) <= Len(s.events) + Len(txs)
  <1> DEFINE h == s.replayed_height + 1
             r == ReplayBlock(s, txs)
             n == Len(txs)
             l == Len(s.events)
             U(k) == T \cup {txs[m] : m \in 1..k}
  <1>0. h = s.replayed_height + 1 /\ r = ReplayBlock(s, txs)
    OBVIOUS
  <1> HIDE DEF h, r
  <1>1. PICK acc :
          /\ acc[0] = s /\ ReplayBlock(s, txs) = R!EndBlock(acc[n], h, <<>>)
          /\ \A k \in 1..n : acc[k] = R!ReplayTx(acc[k - 1], h, txs[k]) /\ txs[k] \in Tx
          /\ \A k \in 0..n : acc[k] \in Good /\ h = acc[k].replayed_height + 1
    BY <1>0, TxSteps, SMTT(30)
  <1>2. n \in Nat /\ n \in 0..n /\ DOMAIN txs = 1..n
    BY LenProperties
  <1>3. l \in Nat /\ \A g \in Good : Len(g.events) \in Nat
    <2>1. \A g \in Good : g.events \in Seq(RP!Event)
      BY DEF Good, States
    <2> QED
      BY <2>1, LenProperties
  <1> HIDE DEF n, l
  <1> DEFINE good == [k \in 0..n |-> {g \in Good : Tells(g, U(k)) /\ Len(g.events) <= l + k}]
  <1>4. acc[0] \in good[0]
    <2>1. 0 \in 0..n /\ acc[0] \in Good
      BY <1>1, <1>2
    <2>2. Tells(s, U(0))
      BY SameTells
    <2>3. Len(s.events) <= l + 0
      BY <1>3 DEF l
    <2> QED
      BY <1>1, <2>1, <2>2, <2>3
  <1>5. ASSUME NEW k \in 1..n, acc[k - 1] \in good[k - 1]
        PROVE  acc[k] \in good[k]
    <2> DEFINE a == acc[k - 1]
               t == txs[k]
               q == acc[k]
    <2>1. k \in 0..n /\ k - 1 \in 0..n /\ k \in Nat
      BY <1>2
    <2>2. /\ a \in Good /\ h = a.replayed_height + 1 /\ t \in Tx
          /\ q = R!ReplayTx(a, h, t) /\ q \in Good
      BY <1>1, <2>1
    <2>3. Tells(a, U(k - 1)) /\ Len(a.events) <= l + (k - 1)
      BY <1>5, <2>1
    <2>4. t \in MintsOf => t \notin U(k - 1)
      <3>1. \A m \in 1..(k - 1) : m \in DOMAIN txs /\ m # k
        BY <1>2
      <3>2. k \in DOMAIN txs
        BY <1>2
      <3> QED
        BY <3>1, <3>2
    <2>5. U(k - 1) \cup {t} \subseteq U(k)
      BY <1>2
    <2> HIDE DEF a, t, q, U
    <2>6. Tells(q, U(k - 1) \cup {t}) /\ Len(q.events) <= Len(a.events) + 1
      BY <2>2, <2>3, <2>4, TxTells
    <2>7. Tells(q, U(k))
      BY <2>5, <2>6, SameTells
    <2>8. Len(q.events) <= l + k
      BY <1>3, <2>1, <2>2, <2>3, <2>6
    <2> QED
      BY <2>1, <2>2, <2>7, <2>8 DEF q
  <1>6. acc[n] \in good[n]
    <2> HIDE DEF good
    <2>1. \A k \in 0..n : acc[k] \in good[k]
      BY <1>2, <1>4, <1>5, Climb
    <2> QED
      BY <1>2, <2>1
  <1>7. /\ acc[n] \in Good /\ Tells(acc[n], U(n)) /\ Len(acc[n].events) <= l + n
        /\ h = acc[n].replayed_height + 1
    BY <1>1, <1>2, <1>6
  <1>8. r.events = acc[n].events /\ r.leaves = acc[n].leaves
    <2>1. r = RP!EndBlock(acc[n], h, <<>>)
      BY <1>0, <1>1, SameEndBlock
    <2>2. RP!StateOK(acc[n]) /\ h = RP!NextBlock(acc[n])
      BY <1>7 DEF Good, RP!StateInv, RP!NextBlock
    <2>3. RP!BlockEnded(acc[n], r, <<>>)
      BY <2>1, <2>2, Instance, RP!EndBlockEnds DEF RP!ReplayConstants
    <2> QED
      BY <2>3 DEF RP!BlockEnded, RP!SameHistory
  <1>9. U(n) \subseteq T \cup Range(txs)
    BY <1>2 DEF Range
  <1>10. Tells(r, T \cup Range(txs))
    <2> HIDE DEF U
    <2> QED
      BY <1>7, <1>8, <1>9, SameTells
  <1> QED
    BY <1>7, <1>8, <1>10 DEF r, n, l

(* No mint is in a chain twice.                                            *)
NoTwice(c) ==
  \A k, m \in DOMAIN c : \A i \in DOMAIN c[k], j \in DOMAIN c[m] :
    c[k][i] \in MintsOf /\ c[k][i] = c[m][j] => k = m /\ i = j

LEMMA FreshTells == Tells(R!Fresh, {})
  <1>1. R!Fresh.leaves = <<>> /\ R!Fresh.events = <<>>
    BY DEF R!Fresh
  <1>2. Len(<<>>) = 0 /\ DOMAIN <<>> = {}
    OBVIOUS
  <1>3. 0..(0 - 1) = {}
    OBVIOUS
  <1> QED
    BY <1>1, <1>2, <1>3 DEF Tells, Laid, Once

LEMMA ChainTells ==
  ASSUME NEW c \in Seq(Seq(Tx)), NoTwice(c)
  PROVE  Tells(Replayed(c), MinedIn(c))
  <1> DEFINE n == Len(c)
             U(k) == UNION {Range(c[m]) : m \in 1..k}
             acc == [k \in 0..n |-> Replayed(Upto(c, k))]
             good == [k \in 0..n |-> {r \in Good : Tells(r, U(k))}]
  <1>1. /\ n \in Nat /\ n \in 0..n /\ 0 \in 0..n /\ DOMAIN c = 1..n
        /\ \A k \in 1..n : c[k] \in Seq(Tx)
    BY LenProperties, ElementOfSeq
  <1>2. acc[0] \in good[0]
    <2>1. Tells(R!Fresh, U(0))
      BY FreshTells, SameTells
    <2> QED
      BY <1>1, <2>1, UptoEnds, ReplayedNone, GoodFresh
  <1>3. ASSUME NEW k \in 1..n, acc[k - 1] \in good[k - 1]
        PROVE  acc[k] \in good[k]
    <2> DEFINE s == acc[k - 1]
               r == ReplayBlock(s, c[k])
    <2>1. k \in 0..n /\ k - 1 \in 0..n /\ k \in Nat
      BY <1>1
    <2>2. s \in Good /\ Tells(s, U(k - 1)) /\ c[k] \in Seq(Tx)
      BY <1>1, <1>3, <2>1
    <2>3. acc[k] = r
      BY <2>1, ReplayedNext
    <2>4. \A i \in DOMAIN c[k] : c[k][i] \in MintsOf => c[k][i] \notin U(k - 1)
      <3>1. \A m \in 1..(k - 1) : m \in DOMAIN c /\ m # k
        BY <1>1
      <3> SUFFICES ASSUME NEW i \in DOMAIN c[k], c[k][i] \in MintsOf, c[k][i] \in U(k - 1)
                   PROVE  FALSE
        OBVIOUS
      <3>2. PICK m \in 1..(k - 1) : c[k][i] \in Range(c[m])
        OBVIOUS
      <3>3. PICK j \in DOMAIN c[m] : c[m][j] = c[k][i]
        BY <3>2 DEF Range
      <3> QED
        BY <1>1, <3>1, <3>3 DEF NoTwice
    <2>5. \A i, j \in DOMAIN c[k] : c[k][i] \in MintsOf /\ c[k][i] = c[k][j] => i = j
      BY <1>1 DEF NoTwice
    <2>6. U(k - 1) \cup Range(c[k]) \subseteq U(k)
      BY <1>1, SMTT(30)
    <2>7. r \in Good
      BY <2>2, GoodBlock
    <2> HIDE DEF s, U, acc
    <2>8. Tells(r, U(k - 1) \cup Range(c[k]))
      BY <2>2, <2>4, <2>5, BlockTells
    <2>9. Tells(r, U(k))
      BY <2>6, <2>8, SameTells
    <2> QED
      BY <2>1, <2>3, <2>7, <2>9
  <1>4. acc[n] \in good[n]
    <2> HIDE DEF acc, good, n
    <2> QED
      BY <1>1, <1>2, <1>3, Climb
  <1>5. Upto(c, n) = c
    BY UptoEnds
  <1>6. U(n) \subseteq MinedIn(c)
    BY <1>1 DEF MinedIn
  <1>7. Tells(Replayed(c), U(n))
    BY <1>1, <1>4, <1>5
  <1> HIDE DEF U
  <1> QED
    BY <1>6, <1>7, SameTells

-----------------------------------------------------------------------------
(* What the events of a history say about this wallet's notes.             *)

MintNote(e) == FreshNote(e, MintLeaf(e.txid.env), 0, FALSE)
ChangeNote(e) == FreshNote(e, OutputLeaf(e.txid.env, 1), 1, FALSE)
BurnedNote(e) == FreshNote(e, OutputLeaf(e.txid.env, 0), 0, TRUE)

LEMMA RangeOfPairs ==
  ASSUME NEW a, NEW b
  PROVE  Range(<<a>>) = {a} /\ Range(<<a>> \o <<b>>) = {a, b} /\ Range(<<>>) = {}
  <1> DEFINE c == <<a>>
             d == <<b>>
  <1>1. c \in Seq({a}) /\ d \in Seq({b})
    OBVIOUS
  <1>2. DOMAIN c = {1} /\ c[1] = a /\ DOMAIN d = {1} /\ d[1] = b
    OBVIOUS
  <1>3. Range(c) = {a} /\ Range(d) = {b}
    <2> HIDE DEF c, d
    <2> QED
      BY <1>2 DEF Range
  <1>4. c \in Seq({a, b}) /\ d \in Seq({a, b})
    OBVIOUS
  <1>5. Range(c \o d) = {a, b}
    <2> HIDE DEF c, d
    <2> QED
      BY <1>3, <1>4, RangeConcat
  <1>6. Range(<<>>) = {}
    BY DEF Range
  <1> QED
    BY <1>3, <1>5, <1>6

LEMMA ReceivedIs ==
  ASSUME NEW e
  PROVE  Range(Received(e)) =
           IF e.txid.env.kind = "mint"
           THEN IF e.txid.env.seed \in Own THEN {MintNote(e)} ELSE {}
           ELSE IF Operator THEN {BurnedNote(e), ChangeNote(e)} ELSE {ChangeNote(e)}
  <1> DEFINE a == MintNote(e)
             b == BurnedNote(e)
             c == ChangeNote(e)
  <1>1. Received(e) =
          IF e.txid.env.kind = "mint"
          THEN IF e.txid.env.seed \in Own THEN <<a>> ELSE <<>>
          ELSE IF Operator THEN <<b>> \o <<c>> ELSE <<c>>
    BY DEF Received, MintNote, BurnedNote, ChangeNote
  <1>2. /\ Range(<<a>>) = {a} /\ Range(<<c>>) = {c} /\ Range(<<>>) = {}
        /\ Range(<<b>> \o <<c>>) = {b, c}
    <2> HIDE DEF a, b, c
    <2> QED
      BY RangeOfPairs
  <1> HIDE DEF a, b, c
  <1>3. CASE e.txid.env.kind = "mint"
    BY <1>1, <1>2, <1>3 DEF a
  <1>4. CASE e.txid.env.kind # "mint"
    BY <1>1, <1>2, <1>4 DEF b, c
  <1> QED
    BY <1>3, <1>4

LEMMA EventIs ==
  ASSUME NEW s \in Good
  PROVE  /\ Len(s.events) \in Nat /\ DOMAIN s.events = 1..Len(s.events)
         /\ \A i \in DOMAIN s.events :
              /\ s.events[i] \in RP!Event /\ s.events[i].pos \in Nat
              /\ s.events[i].txid \in MintsOf \cup TransfersOf
         /\ s.events = <<>> <=> Len(s.events) = 0
  <1>1. s.events \in Seq(RP!Event) /\ EventLeaves(s)
    BY DEF Good, States
  <1>2. /\ Len(s.events) \in Nat /\ DOMAIN s.events = 1..Len(s.events)
        /\ \A i \in DOMAIN s.events : s.events[i] \in RP!Event
    BY <1>1, LenProperties, ElementOfSeq
  <1>3. \A e \in RP!Event : e.pos \in Nat
    BY DEF RP!Event
  <1>4. s.events = <<>> <=> Len(s.events) = 0
    BY <1>1, EmptySeq
  <1> QED
    BY <1>1, <1>2, <1>3, <1>4 DEF EventLeaves, StandsAt

(* A note an event gives to this wallet says where it is from.             *)
Gift(n, e) ==
  /\ n \in Note /\ n.source_txid = e.txid
  /\ n.leaf.j \in Slots /\ n.pos = e.pos + n.leaf.j /\ n.pos < End1(e)
  /\ e.txid \in MintsOf =>
       n.leaf = MintLeaf(e.txid.env) /\ n.leaf.src \in Own /\ n.leaf.j = 0 /\ n.spent = FALSE
  /\ e.txid \in TransfersOf =>
       /\ n.leaf = OutputLeaf(e.txid.env, n.leaf.j)
       /\ n.leaf.j = 0 => n.spent = TRUE
       /\ n.leaf.j = 1 => n.spent = FALSE

LEMMA ReceivedGifts ==
  ASSUME NEW s \in Good, NEW i \in DOMAIN s.events, NEW e, e = s.events[i]
  PROVE  /\ \A n \in Range(Received(e)) : Gift(n, e) /\ Enters(s.leaves, n)
         /\ \A n, m \in Range(Received(e)) : n.leaf.j = m.leaf.j => n = m
         /\ e.txid \in MintsOf /\ e.txid.env.seed \in Own =>
              \E n \in Range(Received(e)) : n.leaf = MintLeaf(e.txid.env) /\ n.pos = e.pos
         /\ e.txid \in TransfersOf =>
              \E n \in Range(Received(e)) :
                n.leaf = OutputLeaf(e.txid.env, 1) /\ n.pos = e.pos + 1
  <1>1. e.txid \in MintsOf \cup TransfersOf /\ e.pos \in Nat
    BY EventIs
  <1>2. \A n \in Range(Received(e)) : n \in Note /\ Enters(s.leaves, n)
    <2>1. Received(e) \in Seq(Entering(s.leaves))
      BY ReceivedEnter
    <2>2. \A k \in DOMAIN Received(e) : Received(e)[k] \in Entering(s.leaves)
      BY <2>1, LenProperties, ElementOfSeq, SMTT(30)
    <2> QED
      BY <2>2 DEF Range, Entering
  <1>3. CASE e.txid \in MintsOf
    <2> DEFINE n == MintNote(e)
    <2>1. e.txid.env.kind = "mint" /\ e.txid \notin TransfersOf /\ Width(e.txid) = 1
      BY <1>3 DEF MintsOf, TransfersOf, Width
    <2>2. /\ n.source_txid = e.txid /\ n.leaf = MintLeaf(e.txid.env) /\ n.pos = e.pos + 0
          /\ n.spent = FALSE
      BY DEF MintNote, FreshNote
    <2>3. n.leaf.j = 0 /\ n.leaf.src = e.txid.env.seed
      BY <2>2 DEF MintLeaf
    <2>4. n.pos = e.pos /\ n.pos = e.pos + n.leaf.j /\ n.pos < End1(e) /\ n.leaf.j \in Slots
      BY <1>1, <2>1, <2>2, <2>3 DEF End1, Slots
    <2>5. \A m \in Range(Received(e)) : m = n /\ e.txid.env.seed \in Own
      BY <2>1, ReceivedIs
    <2>6. e.txid.env.seed \in Own => n \in Range(Received(e))
      BY <2>1, ReceivedIs
    <2> HIDE DEF n
    <2>7. \A m \in Range(Received(e)) : Gift(m, e)
      BY <1>2, <2>1, <2>2, <2>3, <2>4, <2>5 DEF Gift
    <2> QED
      BY <1>2, <2>1, <2>2, <2>4, <2>5, <2>6, <2>7
  <1>4. CASE e.txid \in TransfersOf
    <2> DEFINE a == BurnedNote(e)
               b == ChangeNote(e)
    <2>1. e.txid.env.kind # "mint" /\ e.txid \notin MintsOf /\ Width(e.txid) = 2
      BY <1>4 DEF MintsOf, TransfersOf, Width
    <2>2. /\ a.source_txid = e.txid /\ a.leaf = OutputLeaf(e.txid.env, 0) /\ a.pos = e.pos + 0
          /\ b.source_txid = e.txid /\ b.leaf = OutputLeaf(e.txid.env, 1) /\ b.pos = e.pos + 1
          /\ a.spent = TRUE /\ b.spent = FALSE
      BY DEF BurnedNote, ChangeNote, FreshNote
    <2>3. a.leaf.j = 0 /\ b.leaf.j = 1
      BY <2>2 DEF OutputLeaf
    <2>4. /\ a.pos = e.pos + a.leaf.j /\ a.pos < End1(e) /\ a.leaf.j \in Slots
          /\ b.pos = e.pos + b.leaf.j /\ b.pos < End1(e) /\ b.leaf.j \in Slots
      BY <1>1, <2>1, <2>2, <2>3 DEF End1, Slots
    <2>5. \A m \in Range(Received(e)) : m = a \/ m = b
      BY <2>1, ReceivedIs
    <2>6. b \in Range(Received(e))
      BY <2>1, ReceivedIs
    <2> HIDE DEF a, b
    <2>7. ASSUME NEW m \in Range(Received(e)) PROVE Gift(m, e)
      <3>1. CASE m = a
        BY <1>2, <2>1, <2>2, <2>3, <2>4, <3>1 DEF Gift
      <3>2. CASE m = b
        BY <1>2, <2>1, <2>2, <2>3, <2>4, <3>2 DEF Gift
      <3> QED
        BY <2>5, <3>1, <3>2
    <2>8. \A n, m \in Range(Received(e)) : n.leaf.j = m.leaf.j => n = m
      BY <2>3, <2>5
    <2> QED
      BY <1>2, <2>1, <2>2, <2>6, <2>7, <2>8
  <1> QED
    BY <1>1, <1>3, <1>4

(* Different gifts of a history are at different places, and from          *)
(* different outputs.                                                      *)
LEMMA GiftsApart ==
  ASSUME NEW s \in Good, Laid(s), Once(s),
         NEW i \in DOMAIN s.events, NEW n \in Range(Received(s.events[i])),
         NEW k \in DOMAIN s.events, NEW m \in Range(Received(s.events[k])),
         n.pos = m.pos \/ (n.source_txid = m.source_txid /\ n.leaf.j = m.leaf.j)
  PROVE  n = m /\ i = k
  <1>1. Gift(n, s.events[i]) /\ Gift(m, s.events[k])
    BY ReceivedGifts
  <1>2. /\ i \in Nat /\ k \in Nat /\ s.events[i].pos \in Nat /\ s.events[k].pos \in Nat
        /\ s.events[i].txid \in Tx /\ s.events[k].txid \in Tx
    BY EventIs DEF MintsOf, TransfersOf
  <1>3. CASE n.pos = m.pos
    <2>1. n.leaf.j \in 0..1 /\ m.leaf.j \in 0..1
      BY <1>1 DEF Gift, Slots
    <2>2. /\ n.pos = s.events[i].pos + n.leaf.j /\ n.pos < End1(s.events[i])
          /\ m.pos = s.events[k].pos + m.leaf.j /\ m.pos < End1(s.events[k])
      BY <1>1 DEF Gift
    <2>3. End1(s.events[i]) \in Nat /\ End1(s.events[k]) \in Nat
      BY <1>2 DEF End1, Width
    <2>4. i < k => End1(s.events[i]) <= s.events[k].pos
      BY DEF Laid
    <2>5. k < i => End1(s.events[k]) <= s.events[i].pos
      BY DEF Laid
    <2>6. i = k
      <3> DEFINE a == s.events[i].pos
                 b == s.events[k].pos
                 c == End1(s.events[i])
                 d == End1(s.events[k])
                 x == n.leaf.j
                 y == m.leaf.j
      <3>1. /\ a \in Nat /\ b \in Nat /\ c \in Nat /\ d \in Nat /\ x \in 0..1 /\ y \in 0..1
            /\ a + x = b + y /\ a + x < c /\ b + y < d
            /\ (i < k => c <= b) /\ (k < i => d <= a)
        BY <1>2, <1>3, <2>1, <2>2, <2>3, <2>4, <2>5
      <3> HIDE DEF a, b, c, d, x, y
      <3> QED
        BY <1>2, <3>1
    <2>7. n.leaf.j = m.leaf.j
      <3> DEFINE a == s.events[i].pos
                 x == n.leaf.j
                 y == m.leaf.j
      <3>1. a \in Nat /\ x \in 0..1 /\ y \in 0..1 /\ a + x = a + y
        BY <1>2, <1>3, <2>1, <2>2, <2>6
      <3> HIDE DEF a, x, y
      <3>2. x = y
        BY <3>1
      <3> QED
        BY <3>2 DEF x, y
    <2> QED
      BY <2>6, <2>7, ReceivedGifts
  <1>4. CASE n.source_txid = m.source_txid /\ n.leaf.j = m.leaf.j
    <2>1. i = k
      BY <1>1, <1>4 DEF Gift, Once
    <2> QED
      BY <1>4, <2>1, ReceivedGifts
  <1> QED
    BY <1>3, <1>4

-----------------------------------------------------------------------------
(* Recording notes that are in nobody's way.                               *)

Clash(o, n) ==
  o.pos = n.pos \/ (o.source_txid = n.source_txid /\ o.leaf.j = n.leaf.j)
Valued(S) == {n \in S : n.leaf.v > 0}
Unclaimed(O, S) == \A o \in O, n \in Valued(S) : ~Clash(o, n)
Scattered(S) == \A m, n \in Valued(S) : Clash(m, n) => m = n

LEMMA RecordIs ==
  ASSUME NEW notes \in Seq(Note), NEW n \in Note
  PROVE  /\ Record(notes, n) \in Seq(Note)
         /\ n.leaf.v = 0 => Range(Record(notes, n)) = Range(notes)
         /\ \A o \in Range(notes) : Clash(o, n) => Range(Record(notes, n)) = Range(notes)
         /\ n.leaf.v # 0 /\ (\A o \in Range(notes) : ~Clash(o, n)) =>
              Range(Record(notes, n)) = Range(notes) \cup {n}
  <1>1. Record(notes, n) =
          IF n.leaf.v = 0 \/ \E o \in Range(notes) : Clash(o, n)
          THEN notes ELSE Append(notes, n)
    BY DEF Record, Clash
  <1>2. Append(notes, n) \in Seq(Note) /\ Range(Append(notes, n)) = Range(notes) \cup {n}
    <2> DEFINE m == Len(notes)
               q == Append(notes, n)
    <2>1. /\ q \in Seq(Note) /\ Len(q) = m + 1 /\ m \in Nat
          /\ \A i \in 1..m : q[i] = notes[i]
          /\ q[m + 1] = n /\ DOMAIN notes = 1..m
      BY AppendProperties, LenProperties
    <2>2. DOMAIN q = 1..(m + 1)
      BY <2>1, LenProperties
    <2> HIDE DEF m, q
    <2>3. \A i \in 1..(m + 1) : i \in 1..m \/ i = m + 1
      BY <2>1
    <2>4. \A i \in 1..m : i \in 1..(m + 1)
      BY <2>1
    <2>5. m + 1 \in 1..(m + 1)
      BY <2>1
    <2>6. Range(q) = Range(notes) \cup {n}
      BY <2>1, <2>2, <2>3, <2>4, <2>5 DEF Range
    <2> QED
      BY <2>1, <2>6 DEF q
  <1> QED
    BY <1>1, <1>2

LEMMA RecordsAll ==
  ASSUME NEW base \in Seq(Note), NEW seq \in Seq(Note),
         Unclaimed(Range(base), Range(seq)), Scattered(Range(seq))
  PROVE  /\ Recorded(base, seq) \in Seq(Note)
         /\ Range(Recorded(base, seq)) = Range(base) \cup Valued(Range(seq))
  <1> DEFINE n == Len(seq)
             U(k) == Valued({seq[i] : i \in 1..k})
  <1>1. /\ n \in Nat /\ n \in 0..n /\ DOMAIN seq = 1..n
        /\ \A i \in 1..n : seq[i] \in Note /\ seq[i] \in Range(seq)
    <2>1. n \in Nat /\ n \in 0..n /\ DOMAIN seq = 1..n /\ \A i \in 1..n : seq[i] \in Note
      BY LenProperties, ElementOfSeq
    <2> QED
      BY <2>1 DEF Range
  <1>2. PICK acc :
          /\ acc[0] = base /\ Recorded(base, seq) = acc[n]
          /\ \A k \in 1..n : acc[k] = Record(acc[k - 1], seq[k]) /\ seq[k] \in Note
          /\ \A k \in 0..n : acc[k] \in Seq(Note)
    <2> DEFINE X == Seq(Note)
    <2>1. base \in X /\ Closed(X, Note)
      BY RecordIs DEF Closed
    <2> HIDE DEF X
    <2>2. \E acc :
            /\ acc[0] = base /\ Recorded(base, seq) = acc[Len(seq)]
            /\ \A k \in 1..Len(seq) : acc[k] = Record(acc[k - 1], seq[k]) /\ seq[k] \in Note
            /\ \A k \in 0..Len(seq) : acc[k] \in X
      BY <2>1, RecordSteps
    <2> QED
      BY <2>2 DEF X
  <1> DEFINE good == [k \in 0..n |-> {q \in Seq(Note) : Range(q) = Range(base) \cup U(k)}]
  <1>3. acc[0] \in good[0]
    <2>1. 1..0 = {}
      OBVIOUS
    <2>2. U(0) = {}
      BY <2>1 DEF Valued
    <2>3. 0 \in 0..n
      BY <1>1
    <2> HIDE DEF U
    <2> QED
      BY <1>2, <2>2, <2>3
  <1>4. ASSUME NEW k \in 1..n, acc[k - 1] \in good[k - 1]
        PROVE  acc[k] \in good[k]
    <2> DEFINE q == acc[k - 1]
               x == seq[k]
    <2>1. k \in 0..n /\ k - 1 \in 0..n /\ k \in 1..k /\ 1..k = 1..(k - 1) \cup {k}
      BY <1>1
    <2>2. /\ q \in Seq(Note) /\ x \in Note /\ x \in Range(seq) /\ acc[k] = Record(q, x)
          /\ acc[k] \in Seq(Note) /\ Range(q) = Range(base) \cup U(k - 1)
      BY <1>1, <1>2, <1>4, <2>1
    <2>3. U(k) = U(k - 1) \cup (IF x.leaf.v > 0 THEN {x} ELSE {})
      <3>1. {seq[i] : i \in 1..k} = {seq[i] : i \in 1..(k - 1)} \cup {x}
        BY <2>1
      <3> QED
        BY <3>1 DEF Valued
    <2>4. U(k - 1) \subseteq Valued(Range(seq))
      <3>1. \A i \in 1..(k - 1) : i \in 1..n
        BY <1>1
      <3> QED
        BY <1>1, <3>1 DEF Valued
    <2>5. x.leaf.v \in Nat
      BY <2>2 DEF Note, Leaf
    <2> HIDE DEF q, x, U
    <2>6. CASE x.leaf.v = 0
      <3>1. Range(Record(q, x)) = Range(q)
        BY <2>2, <2>6, RecordIs
      <3>2. ~(x.leaf.v > 0)
        BY <2>6
      <3>3. Range(acc[k]) = Range(base) \cup U(k)
        BY <2>2, <2>3, <3>1, <3>2
      <3> QED
        BY <2>1, <2>2, <3>3
    <2>7. CASE x.leaf.v # 0
      <3>1. x.leaf.v > 0 /\ x \in Valued(Range(seq))
        BY <2>2, <2>5, <2>7 DEF Valued
      <3>2. ASSUME NEW o \in Range(q), Clash(o, x) PROVE o = x
        BY <2>2, <2>4, <3>1, <3>2 DEF Unclaimed, Scattered
      <3>3. Range(acc[k]) = Range(q) \cup {x}
        <4>1. CASE \E o \in Range(q) : Clash(o, x)
          <5>1. PICK o \in Range(q) : Clash(o, x)
            BY <4>1
          <5>2. Range(acc[k]) = Range(q)
            BY <2>2, <5>1, RecordIs, ZenonT(60)
          <5> QED
            BY <3>2, <5>1, <5>2
        <4>2. CASE \A o \in Range(q) : ~Clash(o, x)
          BY <2>2, <2>7, <4>2, RecordIs, ZenonT(60)
        <4> QED
          BY <4>1, <4>2
      <3>4. Range(acc[k]) = Range(base) \cup U(k)
        BY <2>2, <2>3, <3>1, <3>3
      <3> QED
        BY <2>1, <2>2, <3>4
    <2> QED
      BY <2>6, <2>7
  <1>5. acc[n] \in good[n]
    <2> HIDE DEF good, n
    <2>1. \A k \in 0..n : acc[k] \in good[k]
      BY <1>1, <1>3, <1>4, Climb
    <2> QED
      BY <1>1, <2>1
  <1>6. U(n) = Valued(Range(seq))
    BY <1>1 DEF Range
  <1> QED
    BY <1>1, <1>2, <1>5, <1>6

(* All notes of the events from k + 1 on.                                  *)
LEMMA AllReceivedIs ==
  ASSUME NEW s \in Good, NEW k \in Nat
  PROVE  LET events == SubSeq(s.events, k + 1, Len(s.events)) IN
         /\ AllReceived(events) \in Seq(Note)
         /\ Range(AllReceived(events)) =
              UNION {Range(Received(s.events[i])) : i \in (k + 1)..Len(s.events)}
         /\ Range(events) = {s.events[i] : i \in (k + 1)..Len(s.events)}
  <1> DEFINE events == SubSeq(s.events, k + 1, Len(s.events))
             n == Len(s.events)
             m == IF k + 1 <= n THEN n - k ELSE 0
             seq == [i \in DOMAIN events |-> Received(events[i])]
  <1>1. s.events \in Seq(RP!Event) /\ n \in Nat /\ \A i \in 1..n : s.events[i] \in RP!Event
    <2>1. s.events \in Seq(RP!Event)
      BY DEF Good, States
    <2> QED
      BY <2>1, LenProperties, ElementOfSeq
  <1>2. /\ events \in Seq(RP!Event) /\ Len(events) = m
        /\ \A i \in 1..m : events[i] = s.events[k + i]
    <2>1. /\ events \in Seq(RP!Event)
          /\ Len(events) = IF k + 1 <= n THEN n - (k + 1) + 1 ELSE 0
          /\ \A i \in 1..(n - (k + 1) + 1) : events[i] = s.events[(k + 1) + i - 1]
      BY <1>1, SubSeqProperties
    <2> HIDE DEF events
    <2>2. \A i \in 1..m : i \in 1..(n - (k + 1) + 1) /\ (k + 1) + i - 1 = k + i
      BY <1>1
    <2>3. (IF k + 1 <= n THEN n - (k + 1) + 1 ELSE 0) = m
      BY <1>1
    <2> QED
      BY <2>1, <2>2, <2>3
  <1>3. m \in Nat /\ DOMAIN events = 1..m
    BY <1>1, <1>2, LenProperties
  <1> HIDE DEF events, n
  <1>4. /\ \A i \in 1..m : k + i \in (k + 1)..n /\ k + i \in 1..n
        /\ \A i \in (k + 1)..n : i - k \in 1..m /\ k + (i - k) = i
    BY <1>1
  <1> HIDE DEF m
  <1>5. Range(events) = {s.events[i] : i \in (k + 1)..n}
    <2>1. \A i \in 1..m : events[i] \in {s.events[a] : a \in (k + 1)..n}
      BY <1>2, <1>4
    <2>2. \A i \in (k + 1)..n : i - k \in DOMAIN events /\ events[i - k] = s.events[i]
      BY <1>2, <1>3, <1>4
    <2> QED
      BY <1>3, <2>1, <2>2 DEF Range
  <1>6. seq \in Seq(Seq(Note))
    <2>1. ASSUME NEW i \in 1..m PROVE Received(events[i]) \in Seq(Note)
      <3>1. k + i \in DOMAIN s.events
        BY <1>4, EventIs DEF n
      <3>2. Received(s.events[k + i]) \in Seq(Entering(s.leaves))
        BY <3>1, ReceivedEnter
      <3> QED
        BY <1>2, <3>2, EnteringNotes, SeqMonotonic
    <2> QED
      BY <1>3, <2>1, IsASeq
  <1>7. /\ AllReceived(events) \in Seq(Note)
        /\ Range(AllReceived(events)) = UNION {Range(seq[i]) : i \in DOMAIN seq}
    <2>1. AllReceived(events) = FlattenSeq(seq)
      BY DEF AllReceived
    <2> HIDE DEF seq
    <2> QED
      BY <1>6, <2>1, Flattened
  <1>8. UNION {Range(seq[i]) : i \in DOMAIN seq}
          = UNION {Range(Received(s.events[i])) : i \in (k + 1)..n}
    BY <1>2, <1>3, <1>4, ZenonT(60)
  <1> HIDE DEF seq
  <1> QED
    BY <1>5, <1>7, <1>8 DEF events, n

-----------------------------------------------------------------------------
(* The wallet file tells the history of a state.                           *)

Owned(s) == Valued(UNION {Range(Received(s.events[i])) : i \in DOMAIN s.events})
Senders(s) == {t \in TransfersOf : \E i \in DOMAIN s.events : s.events[i].txid = t}

Match(n, m, s) ==
  /\ n.leaf = m.leaf /\ n.pos = m.pos /\ n.source_txid = m.source_txid
  /\ n.spent = TRUE <=> m.spent = TRUE \/ OwnNullifier(m) \in s.nullifiers

Exact(f, s) ==
  /\ f.scanned_events = Len(s.events)
  /\ s.events # <<>> => f.scanned_txid = s.events[Len(s.events)].txid
  /\ \A n \in Range(f.notes) : \E m \in Owned(s) : Match(n, m, s)
  /\ \A m \in Owned(s) : \E n \in Range(f.notes) : Match(n, m, s)
  /\ f.sent = Senders(s) \X Slots

(* The events of r are the first ones of s, perhaps at other heights.      *)
Agree(r, s) ==
  /\ Len(r.events) <= Len(s.events)
  /\ \A i \in DOMAIN r.events :
       s.events[i].txid = r.events[i].txid /\ s.events[i].pos = r.events[i].pos

(* Leaves the wallet may have the note of, unless it was burned; transfers  *)
(* all of whose inputs are such leaves.                                     *)
OwnLeaf(l) == l.v > 0 /\ (l.j = 1 \/ l.src \in Own)
Payers ==
  {t \in OwnTransfers : \A i \in Slots : t.env.ins[i].on => OwnLeaf(t.env.ins[i].leaf)}

Known(s) == \A i \in DOMAIN s.events : s.events[i].txid \in MintsOf \cup Payers
Tidy == {s \in Good : Laid(s) /\ Once(s) /\ Known(s)}

(* No mint's seed is a transfer's body: both are hashes.                    *)
Unmixed == \A k \in 1..MaxTx : <<"body", k>> \notin Own

LEMMA NullifiersAre ==
  ASSUME NEW s \in Good, NEW x
  PROVE  x \in s.nullifiers <=>
           \E i \in DOMAIN s.events :
             s.events[i].txid \in TransfersOf /\ x \in Nfs(s.events[i].txid.env)
  <1> DEFINE c == [u \in Tx |-> u.env]
  <1>1. RP!NullifiersOnce(s)
    BY DEF Good, RP!StateInv
  <1>2. s.nullifiers = UNION {RP!Nfs(RP!Spend(s, i)) : i \in RP!TransferEvents(s)}
    BY <1>1 DEF RP!NullifiersOnce
  <1>3. \A i \in DOMAIN s.events :
          /\ i \in RP!TransferEvents(s) <=> s.events[i].txid \in TransfersOf
          /\ RP!Nfs(RP!Spend(s, i)) = Nfs(s.events[i].txid.env)
    <2> TAKE i \in DOMAIN s.events
    <2>1. s.events[i].txid \in Tx
      BY EventIs DEF MintsOf, TransfersOf
    <2>2. RP!Spend(s, i) = s.events[i].txid.env
      BY <2>1 DEF RP!Spend
    <2> QED
      BY <2>2, SameNames DEF RP!TransferEvents
  <1>4. RP!TransferEvents(s) \subseteq DOMAIN s.events
    BY DEF RP!TransferEvents
  <1> QED
    BY <1>2, <1>3, <1>4

LEMMA OwnedIs ==
  ASSUME NEW s \in Good, NEW n
  PROVE  /\ n \in Owned(s) <=>
              n.leaf.v > 0 /\ \E i \in DOMAIN s.events : n \in Range(Received(s.events[i]))
         /\ n \in Owned(s) => n \in Note /\ Enters(s.leaves, n)
  <1>1. n \in Owned(s) <=>
          n.leaf.v > 0 /\ \E i \in DOMAIN s.events : n \in Range(Received(s.events[i]))
    BY DEF Owned, Valued
  <1>2. ASSUME NEW i \in DOMAIN s.events, n \in Range(Received(s.events[i]))
        PROVE  n \in Note /\ Enters(s.leaves, n)
    BY <1>2, ReceivedGifts DEF Gift
  <1> QED
    BY <1>1, <1>2

LEMMA AgreeKeeps ==
  ASSUME NEW r \in Good, NEW s \in Good, Agree(r, s)
  PROVE  /\ DOMAIN r.events \subseteq DOMAIN s.events
         /\ \A i \in DOMAIN r.events : Received(s.events[i]) = Received(r.events[i])
         /\ Owned(r) \subseteq Owned(s)
         /\ r.nullifiers \subseteq s.nullifiers
         /\ Senders(r) \subseteq Senders(s)
  <1>1. DOMAIN r.events \subseteq DOMAIN s.events
    BY EventIs DEF Agree
  <1>2. \A i \in DOMAIN r.events : Received(s.events[i]) = Received(r.events[i])
    BY DEF Agree, Received, FreshNote
  <1>3. Owned(r) \subseteq Owned(s)
    BY <1>1, <1>2, OwnedIs
  <1>4. r.nullifiers \subseteq s.nullifiers
    BY <1>1, NullifiersAre DEF Agree
  <1>5. Senders(r) \subseteq Senders(s)
    BY <1>1 DEF Senders, Agree
  <1> QED
    BY <1>1, <1>2, <1>3, <1>4, <1>5

(* Every transfer of the history spends a note the history gave.           *)
LEMMA SpendsAreOwned ==
  ASSUME Unmixed, NEW s \in Tidy, NEW t \in Senders(s)
  PROVE  \E n \in Owned(s) : OwnNullifier(n) \in Nfs(t.env)
  <1> DEFINE c == [u \in Tx |-> u.env]
             ev == s.events
  <1>1. s \in Good /\ Laid(s) /\ Known(s)
    BY DEF Tidy
  <1>2. PICK i \in DOMAIN ev : ev[i].txid = t
    BY DEF Senders
  <1>3. t \in TransfersOf /\ t \in Payers /\ t \in OwnTransfers /\ t \in Tx
    BY <1>1, <1>2 DEF Senders, Known, MintsOf, TransfersOf, Payers
  <1>4. PICK x \in Slots : t.env.ins[x].on
    <2>1. 0 \in Slots /\ 1 \in Slots
      BY DEF Slots
    <2>2. CASE ~t.env.ins[0].on /\ ~t.env.ins[1].on
      <3>1. t.env.ins[0] = Dummy(t.id) /\ t.env.ins[1] = Dummy(t.id)
        BY <1>3, <2>1, <2>2 DEF OwnTransfers
      <3>2. Nf(t.env, 0) = Nf(t.env, 1)
        BY <3>1, DummyNf
      <3> QED
        BY <1>3, <3>2 DEF OwnTransfers
    <2> QED
      BY <2>1, <2>2
  <1> DEFINE in == t.env.ins[x]
             p == in.pos
  <1>5. OwnLeaf(in.leaf)
    BY <1>3, <1>4 DEF Payers
  <1>6. p < Len(s.leaves) /\ s.leaves[p + 1] = in.leaf
    <2>1. RP!SpendsExist(s)
      BY <1>1 DEF Good, RP!StateInv
    <2>2. RP!Spend(s, i) = t.env
      BY <1>2, <1>3 DEF RP!Spend
    <2>3. i \in RP!TransferEvents(s)
      BY <1>2, <1>3, SameNames DEF RP!TransferEvents
    <2>4. x \in RP!Slots
      BY Instance
    <2>5. <<i, x>> \in RP!RealInputs(s) /\ RP!InputOf(s, <<i, x>>) = in
      BY <1>4, <2>2, <2>3, <2>4 DEF RP!RealInputs, RP!InputOf
    <2>6. RP!Enters(s.leaves, in)
      BY <2>1, <2>5 DEF RP!SpendsExist
    <2> QED
      BY <2>6 DEF RP!Enters
  <1>7. p \in Nat
    BY <1>3, TransferOf DEF TransferEnvelope, Input
  <1>8. Len(s.leaves) \in Nat
    <2>1. s.leaves \in Seq(Leaf)
      BY <1>1 DEF Good, States
    <2> QED
      BY <2>1, LenProperties
  <1>9. PICK k \in DOMAIN ev : ev[k].pos <= p /\ p < End1(ev[k])
    <2>1. p \in 0..(Len(s.leaves) - 1)
      BY <1>6, <1>7, <1>8
    <2> QED
      BY <1>1, <2>1 DEF Laid
  <1> DEFINE e == ev[k]
  <1>10. e.pos \in Nat /\ e.txid \in MintsOf \cup Payers /\ StandsAt(s, e)
    BY <1>1, EventIs DEF Known, Good, EventLeaves
  <1>11. ASSUME NEW n \in Range(Received(e)), n.leaf = in.leaf, n.pos = p
         PROVE  \E m \in Owned(s) : OwnNullifier(m) \in Nfs(t.env)
    <2>1. n \in Owned(s)
      BY <1>1, <1>5, <1>11, OwnedIs DEF OwnLeaf
    <2>2. OwnNullifier(n) = Nf(t.env, x)
      BY <1>11 DEF OwnNullifier, Nf
    <2>3. Nf(t.env, x) \in Nfs(t.env)
      BY DEF Nfs
    <2> QED
      BY <2>1, <2>2, <2>3
  <1> HIDE DEF in, p, e
  <1>12. CASE e.txid \in MintsOf
    <2>1. p = e.pos
      BY <1>7, <1>9, <1>10, <1>12 DEF End1, Width, e
    <2>2. in.leaf = MintLeaf(e.txid.env)
      BY <1>6, <1>10, <1>12, <2>1 DEF StandsAt, LeafAt
    <2>3. e.txid.env.seed \in Own
      <3>1. in.leaf.j = 0 /\ in.leaf.src = e.txid.env.seed
        BY <2>2 DEF MintLeaf
      <3> QED
        BY <1>5, <3>1 DEF OwnLeaf
    <2>4. \E n \in Range(Received(e)) : n.leaf = MintLeaf(e.txid.env) /\ n.pos = e.pos
      BY <1>1, <1>12, <2>3, ReceivedGifts DEF e
    <2> QED
      BY <1>11, <2>1, <2>2, <2>4
  <1>13. CASE e.txid \in Payers
    <2>1. /\ e.txid \in TransfersOf /\ e.txid \notin MintsOf
          /\ e.txid.id \in 1..MaxTx /\ e.txid.env.body = <<"body", e.txid.id>>
      BY <1>13 DEF Payers, OwnTransfers, TransfersOf, MintsOf
    <2>2. p = e.pos \/ p = e.pos + 1
      BY <1>7, <1>9, <1>10, <2>1 DEF End1, Width, e
    <2>3. CASE p = e.pos
      <3>1. in.leaf = OutputLeaf(e.txid.env, 0)
        <4>1. 0 \in Slots /\ e.pos + 0 = e.pos
          BY <1>10 DEF Slots
        <4> QED
          BY <1>6, <1>10, <2>1, <2>3, <4>1 DEF StandsAt, LeafAt
      <3>2. in.leaf.j = 0 /\ in.leaf.src = <<"body", e.txid.id>>
        BY <2>1, <3>1 DEF OutputLeaf
      <3> QED
        BY <1>5, <2>1, <3>2 DEF OwnLeaf, Unmixed
    <2>4. CASE p = e.pos + 1
      <3>1. in.leaf = OutputLeaf(e.txid.env, 1)
        <4>1. 1 \in Slots
          BY DEF Slots
        <4> QED
          BY <1>6, <1>10, <2>1, <2>4, <4>1 DEF StandsAt, LeafAt
      <3>2. \E n \in Range(Received(e)) :
              n.leaf = OutputLeaf(e.txid.env, 1) /\ n.pos = e.pos + 1
        BY <1>1, <2>1, ReceivedGifts DEF e
      <3> QED
        BY <1>11, <2>4, <3>1, <3>2
    <2> QED
      BY <2>2, <2>3, <2>4
  <1> QED
    BY <1>10, <1>12, <1>13

-----------------------------------------------------------------------------
(* A scan of a history that goes on from the one the file tells.           *)

(* n is m, before the scan looked for its nullifier.                       *)
Listing(n, m, s) ==
  /\ n.leaf = m.leaf /\ n.pos = m.pos /\ n.source_txid = m.source_txid
  /\ m.spent = TRUE => n.spent = TRUE
  /\ n.spent = TRUE => m.spent = TRUE \/ OwnNullifier(m) \in s.nullifiers

LEMMA ReadsOn ==
  ASSUME Unmixed, NEW r \in Tidy, NEW s \in Tidy, Agree(r, s),
         NEW f, FileOK(f), Exact(f, r), NEW g, g = ReadEvents(f, s)
  PROVE  /\ g.scanned_events = Len(s.events)
         /\ s.events # <<>> => g.scanned_txid = s.events[Len(s.events)].txid
         /\ \A n \in Range(g.notes) : \E m \in Owned(s) : Listing(n, m, s)
         /\ \A m \in Owned(s) : \E n \in Range(g.notes) : Listing(n, m, s)
         /\ g.sent = Senders(s) \X Slots
  <1> DEFINE k == Len(r.events)
             n == Len(s.events)
             events == SubSeq(s.events, k + 1, n)
             L == AllReceived(events)
             notes == Recorded(f.notes, L)
             mine(t) == \E x \in Range(notes) : OwnNullifier(x) \in Nfs(t.env)
             spends == {t \in {e.txid : e \in Range(events)} :
                          t.env.kind = "transfer" /\ mine(t)}
             txid == IF s.events = <<>> THEN NoTx ELSE Last(s.events).txid
  <1>1. r \in Good /\ s \in Good /\ Laid(s) /\ Once(s)
    BY DEF Tidy
  <1>2. /\ k \in Nat /\ n \in Nat /\ k <= n /\ DOMAIN r.events = 1..k /\ DOMAIN s.events = 1..n
        /\ \A i \in 1..n : s.events[i].txid \in MintsOf \cup TransfersOf /\ s.events[i].pos \in Nat
    BY <1>1, EventIs DEF Agree
  <1>3. f \in File /\ f.scanned_events = k /\ f.notes \in Seq(Note)
    BY FileParts DEF FileOK, Exact
  <1>4. g = [f EXCEPT !.notes = notes, !.sent = f.sent \cup (spends \X Slots),
                      !.scanned_events = n, !.scanned_txid = txid]
    BY <1>3 DEF ReadEvents, Recorded
  <1>5. /\ L \in Seq(Note)
        /\ Range(L) = UNION {Range(Received(s.events[i])) : i \in (k + 1)..n}
        /\ Range(events) = {s.events[i] : i \in (k + 1)..n}
    BY <1>1, <1>2, AllReceivedIs
  <1> HIDE DEF k, n, L, events
  <1>6. /\ \A i \in 1..k : i \in 1..n
        /\ \A i \in (k + 1)..n : i \in 1..n /\ i \notin 1..k
        /\ \A i \in 1..n : i \in 1..k \/ i \in (k + 1)..n
    BY <1>2
  <1>7. \A m \in Owned(r) : \E i \in 1..k : m \in Range(Received(s.events[i])) /\ m.leaf.v > 0
    BY <1>1, <1>2, AgreeKeeps, OwnedIs
  <1>8. Unclaimed(Range(f.notes), Range(L))
    <2> SUFFICES ASSUME NEW o \in Range(f.notes), NEW x \in Range(L), Clash(o, x)
                 PROVE  FALSE
      BY DEF Unclaimed, Valued
    <2>1. PICK m \in Owned(r) : Match(o, m, r)
      BY DEF Exact
    <2>2. PICK i \in 1..k : m \in Range(Received(s.events[i]))
      BY <1>7
    <2>3. PICK j \in (k + 1)..n : x \in Range(Received(s.events[j]))
      BY <1>5
    <2>4. m.pos = x.pos \/ (m.source_txid = x.source_txid /\ m.leaf.j = x.leaf.j)
      BY <2>1 DEF Clash, Match
    <2>5. i \in DOMAIN s.events /\ j \in DOMAIN s.events /\ i # j
      BY <1>2, <1>6
    <2> QED
      BY <1>1, <2>2, <2>3, <2>4, <2>5, GiftsApart
  <1>9. Scattered(Range(L))
    <2> SUFFICES ASSUME NEW x \in Range(L), NEW y \in Range(L), Clash(x, y)
                 PROVE  x = y
      BY DEF Scattered, Valued
    <2>1. PICK i \in (k + 1)..n : x \in Range(Received(s.events[i]))
      BY <1>5
    <2>2. PICK j \in (k + 1)..n : y \in Range(Received(s.events[j]))
      BY <1>5
    <2>3. i \in DOMAIN s.events /\ j \in DOMAIN s.events
      BY <1>2, <1>6
    <2> QED
      BY <1>1, <2>1, <2>2, <2>3, GiftsApart DEF Clash
  <1>10. notes \in Seq(Note) /\ Range(notes) = Range(f.notes) \cup Valued(Range(L))
    BY <1>3, <1>5, <1>8, <1>9, RecordsAll
  <1>11. \A x \in Valued(Range(L)) : x \in Owned(s) /\ Listing(x, x, s)
    <2> TAKE x \in Valued(Range(L))
    <2>1. PICK i \in (k + 1)..n : x \in Range(Received(s.events[i]))
      BY <1>5 DEF Valued
    <2>2. x.leaf.v > 0 /\ i \in DOMAIN s.events
      BY <1>2, <1>6 DEF Valued
    <2> QED
      BY <1>1, <2>1, <2>2, OwnedIs DEF Listing
  <1>12. \A x, m : Match(x, m, r) => Listing(x, m, s)
    BY <1>1, AgreeKeeps DEF Match, Listing
  <1> HIDE DEF notes
  <1>13. \A x \in Range(notes) : \E m \in Owned(s) : Listing(x, m, s)
    <2> TAKE x \in Range(notes)
    <2>1. CASE x \in Range(f.notes)
      BY <1>1, <1>12, <2>1, AgreeKeeps DEF Exact
    <2>2. CASE x \in Valued(Range(L))
      BY <1>11, <2>2
    <2> QED
      BY <1>10, <2>1, <2>2
  <1>14. \A m \in Owned(s) : \E x \in Range(notes) : Listing(x, m, s)
    <2> TAKE m \in Owned(s)
    <2>1. PICK i \in 1..n : m \in Range(Received(s.events[i])) /\ m.leaf.v > 0
      BY <1>1, <1>2, OwnedIs
    <2>2. CASE i \in 1..k
      <3>1. m \in Owned(r)
        BY <1>1, <1>2, <2>1, <2>2, AgreeKeeps, OwnedIs
      <3> QED
        BY <1>10, <1>12, <3>1 DEF Exact
    <2>3. CASE i \in (k + 1)..n
      BY <1>5, <1>10, <1>11, <2>1, <2>3 DEF Valued
    <2> QED
      BY <1>6, <2>2, <2>3
  <1>15. \A t \in Senders(s) : mine(t)
    <2> TAKE t \in Senders(s)
    <2>1. PICK m \in Owned(s) : OwnNullifier(m) \in Nfs(t.env)
      BY SpendsAreOwned
    <2>2. PICK x \in Range(notes) : Listing(x, m, s)
      BY <1>14
    <2>3. OwnNullifier(x) = OwnNullifier(m)
      BY <2>2 DEF Listing, OwnNullifier
    <2> QED
      BY <2>1, <2>3
  <1> HIDE DEF mine
  <1>16. Senders(r) \cup spends = Senders(s)
    <2>1. \A i \in 1..n : s.events[i].txid \in TransfersOf <=> s.events[i].txid.env.kind = "transfer"
      BY <1>2 DEF MintsOf, TransfersOf
    <2>2. ASSUME NEW t \in spends PROVE t \in Senders(s)
      <3>1. PICK i \in (k + 1)..n : t = s.events[i].txid
        BY <1>5
      <3> QED
        BY <1>2, <1>6, <2>1, <3>1 DEF Senders
    <2>3. ASSUME NEW t \in Senders(s) PROVE t \in Senders(r) \cup spends
      <3>1. PICK i \in 1..n : s.events[i].txid = t
        BY <1>2 DEF Senders
      <3>2. CASE i \in 1..k
        BY <1>2, <3>1, <3>2 DEF Senders, Agree
      <3>3. CASE i \in (k + 1)..n
        <4>1. t \in {e.txid : e \in Range(events)}
          BY <1>5, <3>1, <3>3
        <4> QED
          BY <1>15, <2>1, <3>1, <4>1 DEF Senders
      <3> QED
        BY <1>6, <3>2, <3>3
    <2>4. Senders(r) \subseteq Senders(s)
      BY <1>1, AgreeKeeps
    <2> HIDE DEF spends
    <2> QED
      BY <2>2, <2>3, <2>4
  <1>17. s.events # <<>> => txid = s.events[n].txid
    BY DEF Last, n
  <1> HIDE DEF spends, txid
  <1>18. g.notes = notes /\ g.scanned_events = n /\ g.scanned_txid = txid
         /\ g.sent = f.sent \cup (spends \X Slots)
    BY <1>3, <1>4 DEF File
  <1>19. g.sent = Senders(s) \X Slots
    BY <1>16, <1>18 DEF Exact
  <1> QED
    BY <1>13, <1>14, <1>17, <1>18, <1>19 DEF n

LEMMA UpdateIs ==
  ASSUME NEW n \in Note, NEW s, NEW m, m = UpdateNote(n, s)
  PROVE  /\ m.leaf = n.leaf /\ m.pos = n.pos /\ m.source_txid = n.source_txid
         /\ m.spent = TRUE <=> n.spent = TRUE \/ OwnNullifier(n) \in s.nullifiers
  <1>1. CASE OwnNullifier(n) \in s.nullifiers
    <2>1. m = [Unlocked(n) EXCEPT !.spent = TRUE]
      BY <1>1 DEF UpdateNote
    <2> QED
      BY <1>1, <2>1 DEF Unlocked, Note
  <1>2. CASE OwnNullifier(n) \notin s.nullifiers
    <2>1. m = Unlocked(n) \/ m = n
      BY <1>2 DEF UpdateNote
    <2>2. m.leaf = n.leaf /\ m.pos = n.pos /\ m.source_txid = n.source_txid /\ m.spent = n.spent
      BY <2>1 DEF Unlocked, Note
    <2> QED
      BY <1>2, <2>2
  <1> QED
    BY <1>1, <1>2

(* What ReadsOn says of the file it leaves.                                *)
Lists(g, s) ==
  /\ g.scanned_events = Len(s.events)
  /\ s.events # <<>> => g.scanned_txid = s.events[Len(s.events)].txid
  /\ \A n \in Range(g.notes) : \E m \in Owned(s) : Listing(n, m, s)
  /\ \A m \in Owned(s) : \E n \in Range(g.notes) : Listing(n, m, s)
  /\ g.sent = Senders(s) \X Slots

LEMMA UpdatesExact ==
  ASSUME NEW g, FileOK(g), NEW s, Lists(g, s), NEW f, f = UpdateNotes(g, s)
  PROVE  Exact(f, s)
  <1> DEFINE q == [i \in DOMAIN g.notes |-> UpdateNote(g.notes[i], s)]
  <1>1. g \in File /\ \A i \in DOMAIN g.notes : g.notes[i] \in Note
    BY FileParts DEF FileOK
  <1>2. f = [g EXCEPT !.notes = q]
    BY DEF UpdateNotes, EachNote
  <1>3. DOMAIN q = DOMAIN g.notes /\ \A i \in DOMAIN q : q[i] = UpdateNote(g.notes[i], s)
    OBVIOUS
  <1> HIDE DEF q
  <1>4. /\ f.notes = q /\ f.scanned_events = g.scanned_events
        /\ f.scanned_txid = g.scanned_txid /\ f.sent = g.sent
    BY <1>1, <1>2 DEF File
  <1>5. ASSUME NEW i \in DOMAIN q, NEW m, Listing(g.notes[i], m, s)
        PROVE  Match(q[i], m, s)
    <2>1. g.notes[i] \in Note /\ q[i] = UpdateNote(g.notes[i], s)
      BY <1>1, <1>3
    <2>2. /\ q[i].leaf = m.leaf /\ q[i].pos = m.pos /\ q[i].source_txid = m.source_txid
          /\ q[i].spent = TRUE <=>
               g.notes[i].spent = TRUE \/ OwnNullifier(g.notes[i]) \in s.nullifiers
      BY <1>5, <2>1, UpdateIs DEF Listing
    <2>3. OwnNullifier(g.notes[i]) = OwnNullifier(m)
      BY <1>5 DEF Listing, OwnNullifier
    <2> QED
      BY <1>5, <2>2, <2>3 DEF Listing, Match
  <1>6. \A n \in Range(f.notes) : \E m \in Owned(s) : Match(n, m, s)
    <2> TAKE n \in Range(f.notes)
    <2>1. PICK i \in DOMAIN q : n = q[i]
      BY <1>4 DEF Range
    <2>2. g.notes[i] \in Range(g.notes)
      BY <1>3 DEF Range
    <2> QED
      BY <1>5, <2>1, <2>2 DEF Lists
  <1>7. \A m \in Owned(s) : \E n \in Range(f.notes) : Match(n, m, s)
    <2> TAKE m \in Owned(s)
    <2>1. PICK i \in DOMAIN q : Listing(g.notes[i], m, s)
      BY <1>3 DEF Lists, Range
    <2>2. q[i] \in Range(f.notes)
      BY <1>4 DEF Range
    <2> QED
      BY <1>5, <2>1, <2>2
  <1> QED
    BY <1>4, <1>6, <1>7 DEF Lists, Exact

(* Locks and their release do not change what the notes tell.               *)
LEMMA LocksExact ==
  ASSUME NEW f, FileOK(f), NEW q, q = [i \in DOMAIN f.notes |-> q[i]],
         \A i \in DOMAIN f.notes :
           /\ q[i].leaf = f.notes[i].leaf /\ q[i].pos = f.notes[i].pos
           /\ q[i].source_txid = f.notes[i].source_txid /\ q[i].spent = f.notes[i].spent,
         NEW g, g = [f EXCEPT !.notes = q], NEW s, Exact(f, s)
  PROVE  Exact(g, s)
  <1>1. f \in File
    BY DEF FileOK
  <1>2. DOMAIN q = DOMAIN f.notes
    OBVIOUS
  <1>3. /\ g.notes = q /\ g.scanned_events = f.scanned_events
        /\ g.scanned_txid = f.scanned_txid /\ g.sent = f.sent
    BY <1>1 DEF File
  <1>4. \A i \in DOMAIN q : \A m : Match(f.notes[i], m, s) => Match(q[i], m, s)
    BY <1>2 DEF Match
  <1>5. \A n \in Range(g.notes) : \E m \in Owned(s) : Match(n, m, s)
    <2> TAKE n \in Range(g.notes)
    <2>1. PICK i \in DOMAIN q : n = q[i]
      BY <1>3 DEF Range
    <2>2. f.notes[i] \in Range(f.notes)
      BY <1>2 DEF Range
    <2> QED
      BY <1>4, <2>1, <2>2 DEF Exact
  <1>6. \A m \in Owned(s) : \E n \in Range(g.notes) : Match(n, m, s)
    <2> TAKE m \in Owned(s)
    <2>1. PICK i \in DOMAIN q : Match(f.notes[i], m, s)
      BY <1>2 DEF Exact, Range
    <2>2. q[i] \in Range(g.notes)
      BY <1>3 DEF Range
    <2> QED
      BY <1>4, <2>1, <2>2
  <1> QED
    BY <1>3, <1>5, <1>6 DEF Exact

(* Nothing is told before the first event.                                 *)
LEMMA FreshTidy == R!Fresh \in Tidy /\ R!Fresh.events = <<>> /\ DOMAIN R!Fresh.events = {}
  <1>1. R!Fresh.events = <<>>
    BY DEF R!Fresh
  <1>2. DOMAIN R!Fresh.events = {}
    BY <1>1
  <1> QED
    BY <1>1, <1>2, FreshTells, GoodFresh DEF Tidy, Tells, Known

LEMMA EmptyExact ==
  ASSUME NEW f, f.notes = <<>>, f.sent = {}, f.scanned_events = 0
  PROVE  Exact(f, R!Fresh)
  <1>1. R!Fresh.events = <<>> /\ DOMAIN R!Fresh.events = {}
    BY FreshTidy
  <1>2. Len(R!Fresh.events) = 0
    BY <1>1
  <1>3. Owned(R!Fresh) = {} /\ Senders(R!Fresh) = {}
    BY <1>1 DEF Owned, Valued, Senders
  <1>4. Range(f.notes) = {}
    BY DEF Range
  <1> QED
    BY <1>1, <1>2, <1>3, <1>4 DEF Exact

LEMMA FreshAgrees ==
  ASSUME NEW r, r.events = <<>>, NEW s \in Good
  PROVE  Agree(r, s)
  <1>1. Len(r.events) = 0 /\ DOMAIN r.events = {}
    OBVIOUS
  <1>2. Len(s.events) \in Nat
    BY EventIs
  <1> QED
    BY <1>1, <1>2 DEF Agree

(* If the histories agree wherever the anchor is found, what a scan leaves  *)
(* is what the new one says.                                               *)
LEMMA ScanExacts ==
  ASSUME Unmixed, NEW r \in Tidy, NEW s \in Tidy, NEW f, FileOK(f), Exact(f, r),
         Anchored(f, s) => Agree(r, s)
  PROVE  Exact(Scan(f, s), s)
  <1> DEFINE a == Restart(f, s)
             b == DropStale(a, s)
             c == ReadEvents(b, s)
  <1>1. r \in Good /\ s \in Good /\ f \in File
    BY DEF Tidy, FileOK
  <1>2. FileOK(a)
    BY RestartOK
  <1>3. \E q \in Tidy : Exact(a, q) /\ Agree(q, s)
    <2>1. CASE f.scanned_events > 0 /\ ~Anchored(f, s)
      <3>1. a = [f EXCEPT !.notes = <<>>, !.sent = {}, !.scanned_events = 0]
        BY <2>1 DEF Restart
      <3>2. a.notes = <<>> /\ a.sent = {} /\ a.scanned_events = 0
        BY <1>1, <3>1 DEF File
      <3> HIDE DEF a
      <3>3. Exact(a, R!Fresh)
        BY <3>2, EmptyExact
      <3> QED
        BY <1>1, <3>3, FreshTidy, FreshAgrees
    <2>2. CASE ~(f.scanned_events > 0 /\ ~Anchored(f, s))
      <3>1. a = f
        BY <2>2 DEF Restart
      <3>2. Agree(r, s)
        <4>1. CASE f.scanned_events > 0
          BY <2>2, <4>1
        <4>2. CASE ~(f.scanned_events > 0)
          <5>1. f.scanned_events = Len(r.events) /\ Len(r.events) \in Nat
            BY <1>1, EventIs DEF Exact
          <5>2. Len(r.events) = 0
            BY <4>2, <5>1
          <5>3. r.events = <<>>
            BY <1>1, <5>2, EventIs
          <5> QED
            BY <1>1, <5>3, FreshAgrees
        <4> QED
          BY <4>1, <4>2
      <3> QED
        BY <3>1, <3>2
    <2> QED
      BY <2>1, <2>2
  <1> HIDE DEF a
  <1>4. PICK q \in Tidy : Exact(a, q) /\ Agree(q, s)
    BY <1>3
  <1>5. q \in Good
    BY DEF Tidy
  <1>6. \A n \in Range(a.notes) : Enters(s.leaves, n)
    <2> TAKE n \in Range(a.notes)
    <2>1. PICK m \in Owned(q) : n.leaf = m.leaf /\ n.pos = m.pos
      BY <1>4 DEF Exact, Match
    <2>2. m \in Owned(s)
      BY <1>1, <1>4, <1>5, AgreeKeeps
    <2>3. Enters(s.leaves, m)
      BY <1>1, <2>2, OwnedIs
    <2> QED
      BY <2>1, <2>3 DEF Enters
  <1>7. b = a
    BY <1>6 DEF DropStale
  <1>8. a.notes \in Seq(Entering(s.leaves))
    BY <1>2, <1>7, DropStaleOK
  <1>9. FileOK(ReadEvents(a, s))
    BY <1>1, <1>2, <1>8, ReadEventsOK
  <1>10. Lists(ReadEvents(a, s), s)
    BY <1>2, <1>4, ReadsOn DEF Lists
  <1>11. Exact(UpdateNotes(ReadEvents(a, s), s), s)
    <2> DEFINE g == ReadEvents(a, s)
    <2>1. FileOK(g) /\ Lists(g, s)
      BY <1>9, <1>10
    <2> HIDE DEF g
    <2> QED
      BY <2>1, UpdatesExact DEF g
  <1>12. Scan(f, s) = UpdateNotes(ReadEvents(a, s), s)
    BY <1>7 DEF Scan, a
  <1> QED
    BY <1>11, <1>12

-----------------------------------------------------------------------------
(* Histories that differ from the chain's in their last event at most.     *)

ButLast(a, b) == \A i \in DOMAIN a : i < Len(a) => i \in DOMAIN b /\ b[i] = a[i]
Near(r) ==
  /\ ButLast(r.events, Replayed(chain).events)
  /\ dropped = 0 => Longer(r.events, Replayed(chain).events)

LEMMA EqualNear ==
  ASSUME NEW a, NEW b, Longer(a, b)
  PROVE  ButLast(a, b)
  BY DEF Longer, ButLast

LEMMA FreshNear == Near(R!Fresh)
  <1>1. DOMAIN R!Fresh.events = {}
    BY FreshTidy
  <1> QED
    BY <1>1 DEF Near, ButLast, Longer

LEMMA ReplayedNear == Near(Replayed(chain))
  BY EqualNear DEF Near, Longer

(* Two of them, the shorter of which ends with an event of the other.      *)
LEMMA NearAgree ==
  ASSUME NEW r \in Tidy, NEW s \in Tidy, Near(r), Near(s),
         Len(r.events) \in DOMAIN s.events,
         s.events[Len(r.events)].txid = r.events[Len(r.events)].txid
  PROVE  Agree(r, s)
  <1> DEFINE k == Len(r.events)
             n == Len(s.events)
             a == r.events
             b == s.events
  <1>1. r \in Good /\ s \in Good /\ Laid(r) /\ Laid(s)
    BY DEF Tidy
  <1>2. k \in Nat /\ n \in Nat /\ DOMAIN a = 1..k /\ DOMAIN b = 1..n
    BY <1>1, EventIs
  <1>3. k \in 1..n /\ b[k].txid = a[k].txid
    BY <1>2
  <1>4. ButLast(a, Replayed(chain).events) /\ ButLast(b, Replayed(chain).events)
    BY DEF Near
  <1>5. \A i \in 1..k : i = 1 => a[i].pos = 0
    BY <1>1, <1>2 DEF Laid
  <1>6. \A i \in 1..n : i = 1 => b[i].pos = 0
    BY <1>1, <1>2 DEF Laid
  <1>7. \A i, j \in 1..k : j = i + 1 => a[j].pos = End1(a[i])
    BY <1>1, <1>2 DEF Laid
  <1>8. \A i, j \in 1..n : j = i + 1 => b[j].pos = End1(b[i])
    BY <1>1, <1>2 DEF Laid
  <1>9. \A i \in 1..k : i < k => b[i] = a[i]
    <2> TAKE i \in 1..k
    <2> HAVE i < k
    <2>1. i \in DOMAIN a /\ i < Len(a) /\ i \in DOMAIN b /\ i < Len(b)
      BY <1>2, <1>3
    <2> QED
      BY <1>4, <2>1 DEF ButLast
  <1> HIDE DEF k, n, a, b
  <1>10. b[k].pos = a[k].pos
    <2>1. CASE k = 1
      BY <1>2, <1>3, <1>5, <1>6, <2>1
    <2>2. CASE k # 1
      <3>1. k - 1 \in 1..k /\ k - 1 < k /\ k - 1 \in 1..n /\ k = (k - 1) + 1 /\ k \in 1..k
        BY <1>2, <1>3, <2>2
      <3>2. b[k - 1] = a[k - 1]
        BY <1>9, <3>1
      <3>3. a[k].pos = End1(a[k - 1])
        BY <1>7, <3>1
      <3>4. b[k].pos = End1(b[k - 1])
        BY <1>3, <1>8, <3>1
      <3> QED
        BY <3>2, <3>3, <3>4
    <2> QED
      BY <2>1, <2>2
  <1>11. \A i \in 1..k : b[i].txid = a[i].txid /\ b[i].pos = a[i].pos
    <2> TAKE i \in 1..k
    <2>1. CASE i < k
      BY <1>9, <2>1
    <2>2. CASE ~(i < k)
      <3>1. i = k
        BY <1>2, <2>2
      <3> QED
        BY <1>3, <1>10, <3>1
    <2> QED
      BY <2>1, <2>2
  <1>12. k <= n
    BY <1>2, <1>3
  <1> QED
    BY <1>2, <1>11, <1>12 DEF Agree, k, n, a, b

-----------------------------------------------------------------------------
(* A block more, or less.                                                  *)

LEMMA OneMore ==
  ASSUME NEW c \in Seq(Seq(Tx)), NEW b \in Seq(Tx), NEW d, d = Append(c, b)
  PROVE  /\ Longer(Replayed(c).events, Replayed(d).events)
         /\ NoTwice(d) =>
              NoTwice(c) /\ Len(Replayed(d).events) <= Len(Replayed(c).events) + Len(b)
  <1> DEFINE s == Replayed(c)
             n == Len(c)
  <1>1. s \in Good /\ Replayed(d) = ReplayBlock(s, b)
    BY ReplayedGood, ReplayedAppend
  <1>2. /\ n \in Nat /\ DOMAIN c = 1..n /\ DOMAIN d = 1..(n + 1)
        /\ \A i \in 1..n : d[i] = c[i]
        /\ d[n + 1] = b
    <2>1. /\ d \in Seq(Seq(Tx)) /\ Len(d) = n + 1 /\ n \in Nat
          /\ \A i \in 1..n : d[i] = c[i]
          /\ d[n + 1] = b
      BY AppendProperties, LenProperties
    <2> QED
      BY <2>1, LenProperties
  <1>3. \A i \in 1..n : i \in 1..(n + 1) /\ i # n + 1
    BY <1>2
  <1>4. n + 1 \in 1..(n + 1)
    BY <1>2
  <1> HIDE DEF n
  <1>5. ASSUME NoTwice(d)
        PROVE  NoTwice(c)
    BY <1>2, <1>3, <1>5 DEF NoTwice
  <1>6. ASSUME NoTwice(d)
        PROVE  Len(Replayed(d).events) <= Len(s.events) + Len(b)
    <2>1. Tells(s, MinedIn(c))
      BY <1>5, <1>6, ChainTells
    <2>2. ASSUME NEW k \in DOMAIN b, b[k] \in MintsOf, b[k] \in MinedIn(c)
          PROVE  FALSE
      <3>1. PICK m \in 1..n : b[k] \in Range(c[m])
        BY <1>2, <2>2 DEF MinedIn
      <3>2. PICK j \in DOMAIN c[m] : c[m][j] = b[k]
        BY <3>1 DEF Range
      <3>3. m \in DOMAIN d /\ d[m] = c[m] /\ m # n + 1 /\ n + 1 \in DOMAIN d
        BY <1>2, <1>3, <1>4
      <3> QED
        BY <1>2, <1>6, <2>2, <3>2, <3>3 DEF NoTwice
    <2>3. \A k, m \in DOMAIN b : b[k] \in MintsOf /\ b[k] = b[m] => k = m
      BY <1>2, <1>4, <1>6, SMTT(30) DEF NoTwice
    <2> HIDE DEF s
    <2>4. Len(ReplayBlock(s, b).events) <= Len(s.events) + Len(b)
      BY <1>1, <2>1, <2>2, <2>3, BlockTells
    <2> QED
      BY <1>1, <2>4
  <1>7. Longer(s.events, Replayed(d).events)
    <2> HIDE DEF s
    <2> QED
      BY <1>1, BlockGrows DEF Grows
  <1> QED
    BY <1>5, <1>6, <1>7

(* Blocks that are mined bring one carrier at the most.                    *)
Thin == \A k \in DOMAIN chain : k > Len(Opening) => Len(chain[k]) <= 1

LEMMA MineOne ==
  ASSUME Types, MineAny
  PROVE  \E b \in Seq(Tx) :
           /\ chain' = Append(chain, b) /\ Len(b) <= 1 /\ Range(b) \subseteq Minable
           /\ dropped' = dropped
  <1>1. Minable \subseteq Tx
    BY WalletConstants, OpeningTyped DEF Types, Minable
  <1>2. CASE Mine(<<>>)
    <2>1. <<>> \in Seq(Tx) /\ Len(<<>>) <= 1 /\ Range(<<>>) = {}
      BY DEF Range
    <2> QED
      BY <1>2, <2>1 DEF Mine
  <1>3. ASSUME NEW t \in Minable, Mine(<<t>>)
        PROVE  \E b \in Seq(Tx) :
                 /\ chain' = Append(chain, b) /\ Len(b) <= 1 /\ Range(b) \subseteq Minable
                 /\ dropped' = dropped
    <2>1. <<t>> \in Seq(Tx) /\ Len(<<t>>) <= 1 /\ Range(<<t>>) = {t}
      BY <1>1 DEF Range
    <2> QED
      BY <1>3, <2>1 DEF Mine
  <1> QED
    BY <1>2, <1>3 DEF MineAny

LEMMA ThinMine ==
  ASSUME ShapeInv, NoTwice(chain), Thin, MineAny
  PROVE  NoTwice(chain') /\ Thin'
  <1>1. Types /\ Shapes
    BY DEF ShapeInv, WalletInv
  <1>2. PICK b \in Seq(Tx) : chain' = Append(chain, b) /\ Len(b) <= 1 /\ Range(b) \subseteq Minable
    BY <1>1, MineOne
  <1> DEFINE n == Len(chain)
  <1>3. /\ n \in Nat /\ DOMAIN chain = 1..n /\ DOMAIN chain' = 1..(n + 1)
        /\ \A i \in 1..n : chain'[i] = chain[i]
        /\ chain'[n + 1] = b
    <2>1. /\ chain' \in Seq(Seq(Tx)) /\ Len(chain') = n + 1 /\ n \in Nat
          /\ \A i \in 1..n : chain'[i] = chain[i]
          /\ chain'[n + 1] = b
      BY <1>1, <1>2, AppendProperties, LenProperties DEF Types
    <2> QED
      BY <1>1, <2>1, LenProperties DEF Types
  <1>4. \A i \in 1..(n + 1) : i \in 1..n \/ i = n + 1
    BY <1>3
  <1>5. \A i, j \in DOMAIN b : i = j
    <2>1. Len(b) \in Nat /\ DOMAIN b = 1..Len(b)
      BY LenProperties
    <2> QED
      BY <1>2, <2>1
  <1>6. \A i \in DOMAIN b : b[i] \in MintsOf => b[i] \notin MinedIn(chain)
    <2> TAKE i \in DOMAIN b
    <2>1. b[i] \in Minable
      BY <1>2 DEF Range
    <2> QED
      BY <1>1, <2>1, MinedIs DEF Minable, Shapes, OwnTransfers, TransfersOf, MintsOf
  <1> HIDE DEF n
  <1>7. \A k \in 1..n : \A i \in DOMAIN chain[k] : chain[k][i] \in MinedIn(chain)
    BY <1>3 DEF MinedIn, Range
  <1>8. NoTwice(chain')
    <2> SUFFICES ASSUME NEW k \in 1..(n + 1), NEW m \in 1..(n + 1),
                        NEW i \in DOMAIN chain'[k], NEW j \in DOMAIN chain'[m],
                        chain'[k][i] \in MintsOf, chain'[k][i] = chain'[m][j]
                 PROVE  k = m /\ i = j
      BY <1>3 DEF NoTwice
    <2>1. CASE k \in 1..n /\ m \in 1..n
      BY <1>3, <2>1 DEF NoTwice
    <2>2. CASE k = n + 1 /\ m \in 1..n
      BY <1>3, <1>6, <1>7, <2>2
    <2>3. CASE k \in 1..n /\ m = n + 1
      BY <1>3, <1>6, <1>7, <2>3
    <2>4. CASE k = n + 1 /\ m = n + 1
      BY <1>3, <1>5, <2>4
    <2> QED
      BY <1>4, <2>1, <2>2, <2>3, <2>4
  <1>9. Thin'
    <2> SUFFICES ASSUME NEW k \in 1..(n + 1), k > Len(Opening) PROVE Len(chain'[k]) <= 1
      BY <1>3 DEF Thin
    <2> QED
      BY <1>2, <1>3, <1>4 DEF Thin
  <1> QED
    BY <1>8, <1>9

LEMMA OneOff ==
  ASSUME NEW S, NEW c \in Seq(S), NEW d \in Seq(S), Len(c) = Len(d) + 1,
         \A i \in 1..Len(d) : d[i] = c[i]
  PROVE  c[Len(c)] \in S /\ c = Append(d, c[Len(c)])
  <1> DEFINE n == Len(d)
             b == c[n + 1]
  <1>1. n \in Nat /\ DOMAIN c = 1..(n + 1) /\ \A i \in 1..(n + 1) : c[i] \in S
    BY LenProperties, ElementOfSeq
  <1>2. b \in S
    BY <1>1
  <1> HIDE DEF b
  <1>3. /\ Append(d, b) \in Seq(S) /\ Len(Append(d, b)) = n + 1
        /\ \A i \in 1..n : Append(d, b)[i] = d[i]
        /\ Append(d, b)[n + 1] = b
    BY <1>2, AppendProperties
  <1>4. \A i \in 1..Len(c) : c[i] = Append(d, b)[i]
    BY <1>1, <1>3 DEF b
  <1>5. c = Append(d, b)
    BY <1>3, <1>4, SameSeq
  <1> QED
    BY <1>2, <1>5 DEF b

LEMMA ThinLess ==
  ASSUME Types, NoTwice(chain), Thin, Disconnect
  PROVE  /\ NoTwice(chain') /\ Thin'
         /\ \E b \in Seq(Tx) : chain = Append(chain', b) /\ Len(b) <= 1
  <1>1. /\ chain' \in Seq(Seq(Tx)) /\ Len(chain) = Len(chain') + 1
        /\ \A i \in 1..Len(chain') : chain'[i] = chain[i]
    BY DisconnectIs
  <1>2. chain \in Seq(Seq(Tx)) /\ Len(chain) > Len(Opening)
    BY DEF Types, Disconnect
  <1>3. /\ Len(chain') \in Nat /\ DOMAIN chain' = 1..Len(chain')
        /\ DOMAIN chain = 1..(Len(chain') + 1)
    BY <1>1, <1>2, LenProperties
  <1> DEFINE b == chain[Len(chain)]
  <1>4. b \in Seq(Tx) /\ chain = Append(chain', b)
    BY <1>1, <1>2, OneOff
  <1>5. Len(chain) \in DOMAIN chain
    BY <1>1, <1>3
  <1>6. Len(b) <= 1
    BY <1>2, <1>5 DEF Thin
  <1>7. \A k \in DOMAIN chain' : k \in DOMAIN chain /\ chain'[k] = chain[k]
    BY <1>1, <1>3
  <1>8. NoTwice(chain')
    BY <1>7 DEF NoTwice
  <1>9. Thin'
    BY <1>7 DEF Thin
  <1> QED
    BY <1>4, <1>6, <1>8, <1>9

LEMMA NearStays ==
  ASSUME ShapeInv, ShapeInv', [Next]_vars, NoTwice(chain), Thin, NoTwice(chain'),
         dropped' <= 1, NEW r \in Good, Near(r)
  PROVE  Near(r)'
  <1> DEFINE a == r.events
             E == Replayed(chain).events
             F == Replayed(chain').events
  <1>0. Types /\ Types' /\ dropped \in Nat /\ dropped' \in Nat
    BY WalletConstants, SMTT(30) DEF ShapeInv, WalletInv, Types
  <1>1. chain \in Seq(Seq(Tx)) /\ chain' \in Seq(Seq(Tx))
    BY <1>0 DEF Types
  <1>2. ButLast(a, E) /\ (dropped = 0 => Longer(a, E))
    BY DEF Near
  <1>3. CASE SameChain
    BY <1>2, <1>3 DEF SameChain, Near
  <1>4. CASE Longer1
    <2>1. Longer(E, F)
      <3>1. Len(chain') = Len(chain) + 1 /\ \A i \in 1..Len(chain) : chain[i] = chain'[i]
        BY <1>4 DEF Longer1
      <3>2. chain'[Len(chain')] \in Seq(Tx) /\ chain' = Append(chain, chain'[Len(chain')])
        BY <1>1, <3>1, OneOff
      <3> QED
        BY <1>1, <3>2, OneMore
    <2> HIDE DEF a, E, F
    <2>2. ButLast(a, F)
      BY <1>2, <2>1 DEF ButLast, Longer
    <2>3. dropped' = dropped /\ (Longer(a, E) => Longer(a, F))
      BY <1>4, <2>1 DEF Longer1, Longer
    <2> QED
      BY <1>2, <2>2, <2>3 DEF Near, a, F
  <1>5. CASE Disconnect
    <2>1. PICK b \in Seq(Tx) : chain = Append(chain', b) /\ Len(b) <= 1
      BY <1>0, <1>5, ThinLess
    <2>2. Longer(F, E) /\ Len(E) <= Len(F) + Len(b)
      BY <1>1, <2>1, OneMore
    <2>3. dropped' = dropped + 1
      BY <1>5 DEF Disconnect
    <2>4. dropped = 0 /\ dropped' # 0
      BY <1>0, <2>3
    <2>5. /\ Len(a) \in Nat /\ DOMAIN a = 1..Len(a)
          /\ Len(E) \in Nat /\ DOMAIN E = 1..Len(E)
          /\ Len(F) \in Nat /\ DOMAIN F = 1..Len(F)
      BY <1>1, ReplayedGood, EventIs
    <2>6. Len(b) \in Nat
      BY LenProperties
    <2>7. Longer(a, E)
      BY <1>2, <2>4
    <2> HIDE DEF a, E, F
    <2>8. ButLast(a, F)
      <3> SUFFICES ASSUME NEW i \in 1..Len(a), i < Len(a)
                   PROVE  i \in 1..Len(F) /\ F[i] = a[i]
        BY <2>5 DEF ButLast
      <3>1. Len(a) \in 1..Len(E) /\ i \in 1..Len(E) /\ E[i] = a[i]
        <4>1. i \in 1..Len(E) /\ E[i] = a[i]
          BY <2>5, <2>7 DEF Longer
        <4>2. Len(a) \in 1..Len(a)
          BY <2>5
        <4>3. Len(a) \in 1..Len(E)
          BY <2>5, <2>7, <4>2 DEF Longer
        <4> QED
          BY <4>1, <4>3
      <3>2. i \in 1..Len(F)
        BY <2>1, <2>2, <2>5, <2>6, <3>1
      <3>3. E[i] = F[i]
        BY <2>2, <2>5, <3>2 DEF Longer
      <3> QED
        BY <3>1, <3>2, <3>3
    <2> QED
      BY <2>4, <2>8 DEF Near, a, F
  <1>6. SameChain \/ Longer1 \/ Shorter1
    BY <1>0, ChainMoves
  <1>7. Shorter1 => Disconnect
    <2> SUFFICES ASSUME Shorter1, ~Disconnect PROVE FALSE
      OBVIOUS
    <2>1. dropped' = dropped
      <3>1. CASE MineAny
        BY <1>0, <3>1, MineOne
      <3>2. CASE ~MineAny
        <4>1. CASE \E p \in Procs : Step(p)
          BY <4>1 DEF Step, Sync, OpenAndScan, BuildTransfer, Broadcast, BroadcastLost,
                      LockInputs, Quit, CrashUnsaved, AskCarrier, Unlock, Relay, network
        <4>2. CASE (\E t \in mempool : Evict(t)) \/ (\E t \in gone : Return(t))
          BY <4>2 DEF Evict, Return
        <4>3. CASE UNCHANGED vars
          BY <4>3 DEF vars, network
        <4> QED
          BY <3>2, <4>1, <4>2, <4>3 DEF Next
      <3> QED
        BY <3>1, <3>2
    <2> QED
      BY <1>0, <2>1 DEF Shorter1
  <1> QED
    BY <1>3, <1>4, <1>5, <1>6, <1>7

-----------------------------------------------------------------------------
(* What the wallet spends it has received.                                 *)

LEMMA OwnedLeaf ==
  ASSUME NEW s \in Good, NEW m \in Owned(s), m.spent # TRUE
  PROVE  OwnLeaf(m.leaf)
  <1>1. PICK i \in DOMAIN s.events : m.leaf.v > 0 /\ m \in Range(Received(s.events[i]))
    BY OwnedIs
  <1>2. Gift(m, s.events[i]) /\ s.events[i].txid \in MintsOf \cup TransfersOf
    BY <1>1, ReceivedGifts, EventIs
  <1>3. CASE s.events[i].txid \in MintsOf
    BY <1>1, <1>2, <1>3 DEF Gift, OwnLeaf
  <1>4. CASE s.events[i].txid \in TransfersOf
    <2>1. m.leaf.j \in Slots /\ (m.leaf.j = 0 => m.spent = TRUE)
      BY <1>2, <1>4 DEF Gift
    <2>2. m.leaf.j # 0
      BY <2>1
    <2>3. m.leaf.j = 1
      BY <2>1, <2>2 DEF Slots
    <2> QED
      BY <1>1, <2>3 DEF OwnLeaf
  <1> QED
    BY <1>2, <1>3, <1>4

LEMMA BuiltPays ==
  ASSUME Types, NEW r \in Good, Exact(file, r), NEW s, NEW in \in Inputs(file, s),
         NEW n \in Nat, NEW t, t = Transfer(n, s, in), t \in OwnTransfers
  PROVE  t \in Payers
  <1>1. \A a \in Candidates(file, s) : OwnLeaf(a.leaf)
    <2> TAKE a \in Candidates(file, s)
    <2>1. a \in Range(file.notes) /\ ~a.spent
      BY DEF Candidates
    <2>2. PICK m \in Owned(r) : Match(a, m, r)
      BY <2>1 DEF Exact
    <2>3. m.leaf = a.leaf /\ m.spent # TRUE
      BY <2>1, <2>2 DEF Match
    <2>4. OwnLeaf(m.leaf)
      BY <2>3, OwnedLeaf
    <2> QED
      BY <2>3, <2>4
  <1>2. \/ \E a \in Candidates(file, s) :
             t.env.ins[0] = Enabled(a) /\ t.env.ins[1] = Dummy(n)
        \/ \E a, b \in Candidates(file, s) :
             t.env.ins[0] = Enabled(a) /\ t.env.ins[1] = Enabled(b)
    BY BuiltSlots
  <1>3. \A a : Enabled(a).leaf = a.leaf
    BY DEF Enabled
  <1>4. Dummy(n).on = FALSE
    BY DEF Dummy
  <1>5. \A i \in Slots : t.env.ins[i].on => OwnLeaf(t.env.ins[i].leaf)
    BY <1>1, <1>2, <1>3, <1>4 DEF Slots
  <1> QED
    BY <1>5 DEF Payers

-----------------------------------------------------------------------------
(* The inductive invariant.                                                *)

Telling ==
  /\ NoTwice(chain) /\ Thin
  /\ \A t \in OwnTransfers : IsAround(t) => t \in Payers
  /\ \A p \in Procs : view[p] \in Tidy /\ Near(view[p])
  /\ \E r \in Tidy : Near(r) /\ Exact(file, r)
  /\ \A p \in Procs : pc[p] = "scanned" => Exact(file, view[p])

(* The chain's own history, while it holds no mint twice and the wallet's    *)
(* carriers spend what it received.                                        *)
LEMMA ReplayedTidy ==
  ASSUME ShapeInv, NoTwice(chain), \A t \in OwnTransfers : IsAround(t) => t \in Payers
  PROVE  Replayed(chain) \in Tidy
  <1> DEFINE s == Replayed(chain)
  <1>1. chain \in Seq(Seq(Tx)) /\ Shapes
    BY DEF ShapeInv, WalletInv, Types
  <1>2. s \in Good /\ Tells(s, MinedIn(chain))
    BY <1>1, ReplayedGood, ChainTells
  <1> HIDE DEF s
  <1>3. Known(s)
    <2> SUFFICES ASSUME NEW i \in DOMAIN s.events, s.events[i].txid \notin MintsOf
                 PROVE  s.events[i].txid \in Payers
      BY DEF Known
    <2> DEFINE t == s.events[i].txid
    <2>1. t \in MinedIn(chain) /\ t \in TransfersOf
      BY <1>2, EventIs DEF Tells
    <2>2. t \in OwnTransfers
      BY <1>1, <2>1 DEF Shapes, PlainMints, TransfersOf
    <2>3. IsAround(t)
      BY <2>1 DEF IsAround
    <2> QED
      BY <2>2, <2>3
  <1> QED
    BY <1>2, <1>3 DEF Tidy, Tells, s

(* What a step does to the file.                                           *)
KeepsTale == \A s : Exact(file, s) => Exact(file', s)

LEMMA LockTale ==
  ASSUME Types, NEW p \in Procs, LockInputs(p) \/ Unlock(p)
  PROVE  KeepsTale
  <1> DEFINE t == tx[p]
             old == file.notes
             q1 == [i \in DOMAIN old |-> IF Spends(t, old[i]) THEN Locked(t, old[i]) ELSE old[i]]
             q2 == [i \in DOMAIN old |-> IF old[i].locked_by = t THEN Unlocked(old[i]) ELSE old[i]]
  <1>1. FileOK(file) /\ \A i \in DOMAIN old : old[i] \in Note
    BY FileParts DEF Types, FileOK
  <1>2. \A n \in Note :
          /\ Locked(t, n).leaf = n.leaf /\ Locked(t, n).pos = n.pos
          /\ Locked(t, n).source_txid = n.source_txid /\ Locked(t, n).spent = n.spent
    BY DEF Locked, Note
  <1>3. \A n \in Note :
          /\ Unlocked(n).leaf = n.leaf /\ Unlocked(n).pos = n.pos
          /\ Unlocked(n).source_txid = n.source_txid /\ Unlocked(n).spent = n.spent
    BY DEF Unlocked, Note
  <1>4. CASE LockInputs(p)
    <2>1. file' = [file EXCEPT !.notes = q1]
      BY <1>4 DEF LockInputs, EachNote
    <2>2. \A i \in DOMAIN old : q1[i] = IF Spends(t, old[i]) THEN Locked(t, old[i]) ELSE old[i]
      OBVIOUS
    <2>3. q1 = [i \in DOMAIN file.notes |-> q1[i]]
      OBVIOUS
    <2> HIDE DEF q1
    <2>4. \A i \in DOMAIN old :
            /\ q1[i].leaf = old[i].leaf /\ q1[i].pos = old[i].pos
            /\ q1[i].source_txid = old[i].source_txid /\ q1[i].spent = old[i].spent
      BY <1>1, <1>2, <2>2
    <2> QED
      BY <1>1, <2>1, <2>3, <2>4, LocksExact DEF KeepsTale
  <1>5. CASE Unlock(p)
    <2>1. file' = [file EXCEPT !.notes = q2]
      BY <1>5 DEF Unlock, EachNote
    <2>2. \A i \in DOMAIN old : q2[i] = IF old[i].locked_by = t THEN Unlocked(old[i]) ELSE old[i]
      OBVIOUS
    <2>3. q2 = [i \in DOMAIN file.notes |-> q2[i]]
      OBVIOUS
    <2> HIDE DEF q2
    <2>4. \A i \in DOMAIN old :
            /\ q2[i].leaf = old[i].leaf /\ q2[i].pos = old[i].pos
            /\ q2[i].source_txid = old[i].source_txid /\ q2[i].spent = old[i].spent
      BY <1>1, <1>3, <2>2
    <2> QED
      BY <1>1, <2>1, <2>3, <2>4, LocksExact DEF KeepsTale
  <1> QED
    BY <1>4, <1>5

LEMMA FileMoves ==
  ASSUME WalletInv, [Next]_vars
  PROVE  \/ /\ KeepsTale
            /\ \A p \in Procs : pc'[p] = "scanned" => pc[p] = "scanned" /\ view'[p] = view[p]
         \/ \E p \in Procs :
              /\ file' = Scan(file, view[p]) /\ view' = view
              /\ \A q \in Procs : pc'[q] = "scanned" => q = p
  <1>0. Types
    BY DEF WalletInv
  <1>1. CASE UNCHANGED vars
    BY <1>1 DEF vars, KeepsTale
  <1>2. CASE MineAny \/ Disconnect \/ (\E t \in mempool : Evict(t)) \/ (\E t \in gone : Return(t))
    <2>1. UNCHANGED <<file, pc, view>>
      BY <1>0, <1>2, MineIs, DisconnectIs DEF Evict, Return
    <2> QED
      BY <2>1 DEF KeepsTale
  <1>3. ASSUME NEW p \in Procs, Step(p)
        PROVE  \/ /\ KeepsTale
                  /\ \A q \in Procs : pc'[q] = "scanned" => pc[q] = "scanned" /\ view'[q] = view[q]
               \/ /\ file' = Scan(file, view[p]) /\ view' = view
                  /\ \A q \in Procs : pc'[q] = "scanned" => q = p
    <2>1. CASE OpenAndScan(p)
      <3>1. /\ file' = Scan(file, view[p]) /\ view' = view /\ Free
            /\ pc' = [pc EXCEPT ![p] = "scanned"]
        BY <2>1 DEF OpenAndScan, Goto
      <3>2. \A q \in Procs : q # p => pc'[q] = pc[q] /\ pc[q] \in {"idle", "synced"}
        BY <1>0, <3>1 DEF Free, Types
      <3> QED
        BY <3>1, <3>2
    <2>2. CASE Sync(p)
      <3>1. /\ file' = file /\ pc' = [pc EXCEPT ![p] = "synced"]
            /\ view' = [view EXCEPT ![p] = Replayed(chain)]
        BY <2>2 DEF Sync, Goto
      <3>2. \A q \in Procs : pc'[q] = "scanned" => pc[q] = "scanned" /\ view'[q] = view[q]
        BY <1>0, <3>1 DEF Types
      <3> QED
        BY <3>1, <3>2 DEF KeepsTale
    <2>3. CASE BuildTransfer(p) \/ Broadcast(p)
      <3>1. /\ file' = file /\ view' = view
            /\ pc' = [pc EXCEPT ![p] = "built"] \/ pc' = [pc EXCEPT ![p] = "published"]
        BY <2>3 DEF BuildTransfer, Broadcast, Goto
      <3>2. \A q \in Procs : pc'[q] = "scanned" => pc[q] = "scanned"
        BY <1>0, <3>1 DEF Types
      <3> QED
        BY <3>1, <3>2 DEF KeepsTale
    <2>4. CASE End(p) /\ KeepsTale
      <3>1. \A q \in Procs : pc'[q] = "scanned" => pc[q] = "scanned" /\ view'[q] = view[q]
        BY <1>0, <2>4, Ended
      <3> QED
        BY <2>4, <3>1
    <2>5. CASE BroadcastLost(p) \/ Quit(p) \/ CrashUnsaved(p)
      <3>1. End(p) /\ file' = file
        BY <2>5 DEF BroadcastLost, Quit, CrashUnsaved
      <3> QED
        BY <2>4, <3>1 DEF KeepsTale
    <2>6. CASE LockInputs(p) \/ Unlock(p)
      <3>1. End(p)
        BY <2>6 DEF LockInputs, Unlock
      <3> QED
        BY <1>0, <2>4, <2>6, <3>1, LockTale
    <2>7. ASSUME NEW t, AskCarrier(p, t)
          PROVE  /\ KeepsTale
                 /\ \A q \in Procs : pc'[q] = "scanned" => pc[q] = "scanned" /\ view'[q] = view[q]
      <3>1. file' = file /\ view' = view /\ pc' = [pc EXCEPT ![p] = "unlock"]
        BY <2>7 DEF AskCarrier, Goto
      <3>2. \A q \in Procs : pc'[q] = "scanned" => pc[q] = "scanned"
        BY <1>0, <3>1 DEF Types
      <3> QED
        BY <3>1, <3>2 DEF KeepsTale
    <2> QED
      BY <1>3, <2>1, <2>2, <2>3, <2>5, <2>6, <2>7 DEF Step
  <1> QED
    BY <1>1, <1>2, <1>3 DEF Next

LEMMA InitTells ==
  ASSUME NoTwice(Opening)
  PROVE  Init => Telling
  <1> SUFFICES ASSUME Init PROVE Telling
    OBVIOUS
  <1>1. /\ chain = Opening
        /\ file = [notes |-> <<>>, sent |-> {}, scanned_events |-> 0, scanned_txid |-> NoTx]
        /\ \A p \in Procs : pc[p] = "idle" /\ view[p] = R!Fresh
    BY DEF Init
  <1>2. Exact(file, R!Fresh)
    BY <1>1, EmptyExact
  <1>3. Thin
    <2>1. DOMAIN chain = 1..Len(Opening) /\ Len(Opening) \in Nat
      BY <1>1, OpeningTyped, LenProperties
    <2> QED
      BY <2>1 DEF Thin
  <1>4. NoTwice(chain)
    BY <1>1
  <1>5. \A t : ~IsAround(t)
    BY InitNothing
  <1>6. R!Fresh \in Tidy /\ Near(R!Fresh)
    BY FreshTidy, FreshNear
  <1> HIDE DEF R!Fresh
  <1> QED
    BY <1>1, <1>2, <1>3, <1>4, <1>5, <1>6 DEF Telling

LEMMA ThinStays ==
  ASSUME ShapeInv, NoTwice(chain), Thin, [Next]_vars
  PROVE  NoTwice(chain') /\ Thin'
  <1>0. Types
    BY DEF ShapeInv, WalletInv
  <1>1. CASE chain' = chain
    BY <1>1 DEF Thin
  <1>2. CASE MineAny
    BY <1>2, ThinMine
  <1>3. CASE Disconnect
    BY <1>0, <1>3, ThinLess
  <1>4. CASE \E p \in Procs : Step(p)
    <2>1. chain' = chain
      BY <1>4 DEF Step, Sync, OpenAndScan, BuildTransfer, Broadcast, BroadcastLost, LockInputs,
                  Quit, CrashUnsaved, AskCarrier, Unlock, Relay, network
    <2> QED
      BY <1>1, <2>1
  <1>5. CASE (\E t \in mempool : Evict(t)) \/ (\E t \in gone : Return(t))
    BY <1>1, <1>5 DEF Evict, Return
  <1>6. CASE UNCHANGED vars
    BY <1>1, <1>6 DEF vars, network
  <1> QED
    BY <1>2, <1>3, <1>4, <1>5, <1>6 DEF Next

LEMMA NextTells ==
  ASSUME Unmixed, ShapeInv, ShapeInv', Telling, [Next]_vars, dropped' <= 1
  PROVE  Telling'
  <1>1. /\ Types /\ Types' /\ Shapes /\ WalletInv
        /\ NoTwice(chain) /\ Thin
        /\ \A t \in OwnTransfers : IsAround(t) => t \in Payers
        /\ \A p \in Procs : view[p] \in Tidy /\ Near(view[p])
    BY DEF ShapeInv, WalletInv, Telling
  <1>2. NoTwice(chain') /\ Thin'
    BY <1>1, ThinStays
  <1>3. PICK r \in Tidy : Near(r) /\ Exact(file, r)
    BY DEF Telling
  <1>4. ASSUME NEW t \in OwnTransfers, IsAround(t)'
        PROVE  t \in Payers
    <2>1. CASE IsAround(t)
      BY <1>1, <2>1
    <2>2. ASSUME NEW p \in Procs, BuildTransfer(p), t = tx'[p]
          PROVE  t \in Payers
      <3>1. PICK in \in Inputs(file, view[p]) :
              tx' = [tx EXCEPT ![p] = Transfer(built + 1, view[p], in)]
        BY <2>2 DEF BuildTransfer
      <3>2. t = Transfer(built + 1, view[p], in) /\ built + 1 \in Nat
        BY <1>1, <2>2, <3>1, WalletConstants, SMTT(30) DEF Types
      <3>3. r \in Good
        BY DEF Tidy
      <3> QED
        BY <1>1, <1>3, <3>2, <3>3, BuiltPays
    <2> QED
      BY <1>4, <2>1, <2>2, AroundGrows
  <1>5. \A v \in Tidy : Near(v) => Near(v)'
    <2> TAKE v \in Tidy
    <2>1. v \in Good
      BY DEF Tidy
    <2> QED
      BY <1>1, <1>2, <2>1, NearStays
  <1>6. ASSUME NEW p \in Procs
        PROVE  view'[p] \in Tidy /\ Near(view[p])'
    <2>1. CASE view'[p] = view[p]
      <3> DEFINE v == view[p]
      <3>1. v \in Tidy /\ Near(v) /\ view'[p] = v
        BY <1>1, <2>1
      <3> QED
        BY <1>5, <3>1 DEF Near
    <2>2. CASE view'[p] = R!Fresh
      <3>1. R!Fresh \in Tidy /\ Near(R!Fresh)
        BY FreshTidy, FreshNear
      <3> HIDE DEF R!Fresh
      <3> QED
        BY <1>5, <2>2, <3>1 DEF Near
    <2>3. CASE view'[p] = Replayed(chain) /\ SameChain
      <3>1. Replayed(chain) \in Tidy
        BY <1>1, ReplayedTidy
      <3>2. Near(Replayed(chain))
        BY ReplayedNear
      <3> QED
        BY <2>3, <3>1, <3>2 DEF Near, SameChain
    <2> QED
      BY <1>1, <2>1, <2>2, <2>3, ViewMoves
  <1>7. /\ \E q \in Tidy : Near(q)' /\ Exact(file', q)
        /\ \A p \in Procs : pc'[p] = "scanned" => Exact(file', view'[p])
    <2>1. CASE /\ KeepsTale
               /\ \A p \in Procs : pc'[p] = "scanned" => pc[p] = "scanned" /\ view'[p] = view[p]
      <3>1. Near(r)' /\ Exact(file', r)
        BY <1>3, <1>5, <2>1 DEF KeepsTale
      <3>2. \A p \in Procs : pc[p] = "scanned" => Exact(file, view[p])
        BY DEF Telling
      <3>3. \A p \in Procs : pc'[p] = "scanned" => Exact(file', view'[p])
        BY <2>1, <3>2 DEF KeepsTale
      <3> QED
        BY <3>1, <3>3
    <2>2. ASSUME NEW p \in Procs, file' = Scan(file, view[p]), view' = view,
                 \A q \in Procs : pc'[q] = "scanned" => q = p
          PROVE  /\ \E q \in Tidy : Near(q)' /\ Exact(file', q)
                 /\ \A q \in Procs : pc'[q] = "scanned" => Exact(file', view'[q])
      <3> DEFINE s == view[p]
      <3>1. s \in Tidy /\ Near(s) /\ FileOK(file) /\ Near(view[p])' /\ view'[p] = s
        BY <1>1, <1>6, <2>2 DEF Types
      <3>2. file' = Scan(file, s) /\ Near(s)'
        BY <2>2, <3>1 DEF Near
      <3> HIDE DEF s
      <3>3. Anchored(file, s) => Agree(r, s)
        <4> SUFFICES ASSUME Anchored(file, s) PROVE Agree(r, s)
          OBVIOUS
        <4>1. r \in Good /\ s \in Good
          BY <3>1 DEF Tidy
        <4>2. file.scanned_events = Len(r.events) /\ Len(r.events) \in DOMAIN s.events
          BY <1>3 DEF Exact, Anchored
        <4>3. r.events # <<>>
          BY <4>1, <4>2, EventIs
        <4>4. s.events[Len(r.events)].txid = r.events[Len(r.events)].txid
          BY <1>3, <4>2, <4>3 DEF Exact, Anchored
        <4> QED
          BY <1>3, <3>1, <4>2, <4>4, NearAgree
      <3>4. Exact(file', s)
        BY <1>3, <3>1, <3>2, <3>3, ScanExacts
      <3> QED
        BY <2>2, <3>1, <3>2, <3>4
    <2> QED
      BY <1>1, <2>1, <2>2, FileMoves
  <1>8. \A p \in Procs : view'[p] \in Tidy /\ Near(view[p])'
    BY <1>6
  <1> QED
    BY <1>2, <1>4, <1>7, <1>8 DEF Telling

(* ScanExact, of one command.                                              *)
LEMMA ExactCounts ==
  ASSUME NEW s \in Tidy, NEW f, FileOK(f), Exact(f, s)
  PROVE  Len(f.notes) = Cardinality(Owned(s))
  <1> DEFINE n == Len(f.notes)
             M == [i \in 1..n |-> CHOOSE m \in Owned(s) : Match(f.notes[i], m, s)]
  <1>1. n \in Nat /\ DOMAIN f.notes = 1..n /\ Placed(f.notes)
    BY FileParts DEF FileOK
  <1>2. s \in Good /\ Laid(s) /\ Once(s)
    BY SMTT(30) DEF Tidy
  <1> HIDE DEF n
  <1>3. \A i \in 1..n : M[i] \in Owned(s) /\ M[i].pos = f.notes[i].pos
    <2> TAKE i \in 1..n
    <2>1. \E m \in Owned(s) : Match(f.notes[i], m, s)
      BY <1>1 DEF Exact, Range
    <2>2. M[i] = CHOOSE m \in Owned(s) : Match(f.notes[i], m, s)
      OBVIOUS
    <2>3. M[i] \in Owned(s) /\ Match(f.notes[i], M[i], s)
      BY <2>1, <2>2
    <2> QED
      BY <2>3 DEF Match
  <1>4. M \in [1..n -> Owned(s)] /\ DOMAIN M = 1..n
    BY <1>3
  <1> HIDE DEF M
  <1>5. \A i, j \in 1..n : M[i] = M[j] => i = j
    BY <1>1, <1>3 DEF Placed
  <1>6. \A m, o \in Owned(s) : m.pos = o.pos => m = o
    BY <1>2, OwnedIs, GiftsApart
  <1>7. \A m \in Owned(s) : \E i \in 1..n : M[i] = m
    <2> TAKE m \in Owned(s)
    <2>1. PICK i \in 1..n : Match(f.notes[i], m, s)
      BY <1>1 DEF Exact, Range
    <2>2. M[i].pos = m.pos
      BY <1>3, <2>1 DEF Match
    <2> QED
      BY <1>3, <1>6, <2>2
  <1>8. M \in Bijection(1..n, Owned(s))
    BY <1>4, <1>5, <1>7 DEF Bijection, Injection, Surjection, IsInjective
  <1> QED
    BY <1>1, <1>8, FS_CountingElements DEF ExistsBijection, n

LEMMA OwnedReceived ==
  ASSUME NEW s \in Good
  PROVE  {n \in Range(AllReceived(s.events)) : n.leaf.v > 0} = Owned(s)
  <1> DEFINE n == Len(s.events)
  <1>1. s.events \in Seq(RP!Event) /\ n \in Nat /\ DOMAIN s.events = 1..n
    BY EventIs DEF Good, States
  <1>2. SubSeq(s.events, 1, n) = s.events
    BY <1>1, UptoEnds DEF Upto
  <1>3. Range(AllReceived(SubSeq(s.events, 0 + 1, n)))
          = UNION {Range(Received(s.events[i])) : i \in (0 + 1)..n}
    BY AllReceivedIs
  <1>4. 0 + 1 = 1
    OBVIOUS
  <1>5. Range(AllReceived(s.events)) = UNION {Range(Received(s.events[i])) : i \in DOMAIN s.events}
    BY <1>1, <1>2, <1>3, <1>4
  <1> QED
    BY <1>5 DEF Owned, Valued

LEMMA ExactTells ==
  ASSUME NEW s \in Tidy, NEW f, FileOK(f), Exact(f, s)
  PROVE  LET owned == {n \in Range(AllReceived(s.events)) : n.leaf.v > 0}
             spent(n) == n.spent \/ OwnNullifier(n) \in s.nullifiers
         IN  /\ {<<n.leaf, n.pos, n.source_txid, n.spent>> : n \in Range(f.notes)}
                   = {<<n.leaf, n.pos, n.source_txid, spent(n)>> : n \in owned}
             /\ Len(f.notes) = Cardinality(owned)
             /\ f.sent = {e.txid : e \in {d \in Range(s.events) :
                                            d.txid.env.kind = "transfer"}} \X Slots
  <1> DEFINE owned == {n \in Range(AllReceived(s.events)) : n.leaf.v > 0}
             spent(n) == n.spent \/ OwnNullifier(n) \in s.nullifiers
             senders == {e.txid : e \in {d \in Range(s.events) : d.txid.env.kind = "transfer"}}
  <1>1. s \in Good
    BY DEF Tidy
  <1>2. owned = Owned(s)
    BY <1>1, OwnedReceived
  <1>3. \A n \in Range(f.notes) : n \in Note
    BY FileParts DEF FileOK, Range
  <1>4. \A m \in Owned(s) : m \in Note
    BY <1>1, OwnedIs
  <1>5. ASSUME NEW n \in Note, NEW m \in Note, Match(n, m, s)
        PROVE  <<n.leaf, n.pos, n.source_txid, n.spent>> = <<m.leaf, m.pos, m.source_txid, spent(m)>>
    <2>1. n.spent \in BOOLEAN /\ m.spent \in BOOLEAN
      BY DEF Note
    <2>2. n.spent = spent(m)
      BY <1>5, <2>1, Zenon DEF Match
    <2> QED
      BY <1>5, <2>2 DEF Match
  <1> HIDE DEF owned, spent
  <1>6. {<<n.leaf, n.pos, n.source_txid, n.spent>> : n \in Range(f.notes)}
          = {<<n.leaf, n.pos, n.source_txid, spent(n)>> : n \in Owned(s)}
    <2> DEFINE A == {<<n.leaf, n.pos, n.source_txid, n.spent>> : n \in Range(f.notes)}
               B == {<<n.leaf, n.pos, n.source_txid, spent(n)>> : n \in Owned(s)}
    <2>1. ASSUME NEW n \in Range(f.notes)
          PROVE  <<n.leaf, n.pos, n.source_txid, n.spent>> \in B
      <3>1. PICK m \in Owned(s) : Match(n, m, s)
        BY DEF Exact
      <3> QED
        BY <1>3, <1>4, <1>5, <3>1
    <2>2. ASSUME NEW m \in Owned(s)
          PROVE  <<m.leaf, m.pos, m.source_txid, spent(m)>> \in A
      <3>1. PICK n \in Range(f.notes) : Match(n, m, s)
        BY DEF Exact
      <3> QED
        BY <1>3, <1>4, <1>5, <3>1
    <2> QED
      BY <2>1, <2>2
  <1>7. senders = Senders(s)
    <2>1. \A i \in DOMAIN s.events :
            s.events[i].txid \in TransfersOf <=> s.events[i].txid.env.kind = "transfer"
      BY <1>1, EventIs DEF MintsOf, TransfersOf
    <2>2. \A t \in senders : t \in Senders(s)
      BY <2>1 DEF Senders, Range
    <2>3. \A t \in Senders(s) : t \in senders
      BY <2>1 DEF Senders, Range
    <2> QED
      BY <2>2, <2>3
  <1> HIDE DEF senders
  <1>8. Len(f.notes) = Cardinality(owned)
    BY <1>2, ExactCounts
  <1> QED
    BY <1>2, <1>6, <1>7, <1>8 DEF Exact, owned, spent, senders

ToldInv == dropped <= 1 => Telling

LEMMA AlwaysTelling ==
  ASSUME Unmixed, NoTwice(Opening)
  PROVE  Spec => []ToldInv
  <1>1. Init => ToldInv
    BY InitTells DEF ToldInv
  <1>2. ShapeInv /\ ShapeInv' /\ ToldInv /\ [Next]_vars => ToldInv'
    <2> SUFFICES ASSUME ShapeInv, ShapeInv', ToldInv, [Next]_vars, dropped' <= 1
                 PROVE  Telling'
      BY DEF ToldInv
    <2>1. Types /\ Types' /\ dropped \in Nat /\ dropped' \in Nat
      BY WalletConstants, SMTT(30) DEF ShapeInv, WalletInv, Types
    <2>2. dropped <= dropped'
      BY <2>1, ChainMoves DEF SameChain, Longer1, Shorter1
    <2>3. dropped <= 1
      BY <2>1, <2>2
    <2> QED
      BY <2>3, NextTells DEF ToldInv
  <1> QED
    BY <1>1, <1>2, AlwaysShapes, PTL DEF Spec

(* Wallet::scan leaves in the file exactly what the history it was given    *)
(* says: each note of value once, spent where its nullifier was published   *)
(* or its payout burned it, and a record of every transfer.  That holds     *)
(* whatever commands did to the file, and although the cursor is compared   *)
(* by the txid of the last event alone, as long as no more than one block,  *)
(* here one event, was disconnected.  (Of two, the upper one's mint may     *)
(* come back over another event, at the same place: the scan goes on and    *)
(* never sees what is below.)                                               *)
THEOREM ScansAreExact ==
  ASSUME Unmixed, NoTwice(Opening)
  PROVE  Spec => []ScanExact
  <1>1. WalletInv /\ ToldInv => ScanExact
    <2> SUFFICES ASSUME WalletInv, ToldInv, dropped <= 1, NEW p \in Procs,
                        pc[p] = "scanned"
                 PROVE  LET s == view[p]
                            owned == {n \in Range(AllReceived(s.events)) : n.leaf.v > 0}
                            spent(n) == n.spent \/ OwnNullifier(n) \in s.nullifiers
                        IN  /\ {<<n.leaf, n.pos, n.source_txid, n.spent>> : n \in Range(file.notes)}
                                 = {<<n.leaf, n.pos, n.source_txid, spent(n)>> : n \in owned}
                            /\ Len(file.notes) = Cardinality(owned)
                            /\ file.sent = {e.txid : e \in {d \in Range(s.events) :
                                              d.txid.env.kind = "transfer"}} \X Slots
      BY DEF ScanExact
    <2>1. view[p] \in Tidy /\ Exact(file, view[p])
      BY DEF ToldInv, Telling
    <2>2. FileOK(file)
      BY DEF WalletInv, Types
    <2> QED
      BY <2>1, <2>2, ExactTells
  <1> QED
    BY <1>1, AlwaysInv, AlwaysTelling, PTL
=============================================================================
