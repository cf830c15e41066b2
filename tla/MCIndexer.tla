------------------------------ MODULE MCIndexer ------------------------------
(***************************************************************************)
(* Instances of Indexer for TLC, a reference replay of a whole chain to     *)
(* compare the stored state with, and the properties that use it.           *)
(***************************************************************************)
EXTENDS Indexer, FiniteSetsExt, SequencesExt

CONSTANTS m1, m2, m0, t1, t1b, t2, t3, t4, forged, inflate, twice, early,
          junk, memo,                                    \* transactions
          s1, s2, b1, b2, b3, b4, x                      \* seeds and bodies

-----------------------------------------------------------------------------
(* Carriers.  m1 and m2 publish the same mint envelope, m0 pays nothing to  *)
(* the vault.  t1 and t2 both spend the note of m1 at position 0; t1b       *)
(* publishes t1's envelope again.  t3 spends the first output of t1.  t4    *)
(* spends both notes of a mint that was replayed twice.  The last transfers *)
(* break one rule each: a leaf that is not in the tree, more value out than *)
(* in, one note in both slots, an anchor before activation.                 *)

Mint(seed, value) == [kind |-> "mint", seed |-> seed, value |-> value]
Note1 == MintLeaf(Mint(s1, 2))

Real(leaf, pos) == [on |-> TRUE, leaf |-> leaf, pos |-> pos]
Dummy(j) == [on |-> FALSE, leaf |-> [src |-> x, j |-> j, v |-> 0], pos |-> 0]

Transfer(body, anchor, root, in0, in1, out0, out1) ==
  [kind |-> "transfer", body |-> body, anchor |-> anchor, root |-> root,
   ins |-> [i \in Slots |-> IF i = 0 THEN in0 ELSE in1],
   outs |-> [j \in Slots |-> IF j = 0 THEN out0 ELSE out1]]

First == Transfer(b1, Activation, <<Note1>>, Real(Note1, 0), Dummy(0), 1, 1)
Rival == Transfer(b2, Activation, <<Note1>>, Real(Note1, 0), Dummy(1), 2, 0)
Root2 == <<Note1, OutputLeaf(First, 0), OutputLeaf(First, 1)>>
Chained == Transfer(b3, Activation + 1, Root2, Real(OutputLeaf(First, 0), 1),
                    Dummy(1), 0, 1)
Both == Transfer(b4, Activation, <<Note1, Note1>>, Real(Note1, 0),
                 Real(Note1, 1), 4, 0)
Forged == Transfer(b4, Activation, <<Note1>>,
                   Real([src |-> s2, j |-> 0, v |-> 2], 0), Dummy(0), 2, 0)
Inflate == Transfer(b4, Activation, <<Note1>>, Real(Note1, 0), Dummy(0), 2, 1)
Twice == Transfer(b4, Activation, <<Note1>>, Real(Note1, 0), Real(Note1, 0), 4, 0)
Early == Transfer(b4, IF Activation > 1 THEN Activation - 2 ELSE 0, <<>>,
                  Dummy(0), Dummy(1), 0, 0)

MCSource == {s1, s2, b1, b2, b3, b4, x}
MCTxid == {m1, m2, m0, t1, t1b, t2, t3, t4, forged, inflate, twice, early, junk,
           memo}
MCCarrier == [t \in MCTxid |->
  CASE t \in {m1, m2}  -> Mint(s1, 2)
    [] t = m0          -> Mint(s2, 0)
    [] t \in {t1, t1b} -> First
    [] t = t2          -> Rival
    [] t = t3          -> Chained
    [] t = t4          -> Both
    [] t = forged      -> Forged
    [] t = inflate     -> Inflate
    [] t = twice       -> Twice
    [] t = early       -> Early
    [] t = junk        -> [kind |-> "malformed"]
    [] t = memo        -> [kind |-> "none"]]

RulesLists == {<<>>, <<m1>>, <<m2, m1>>, <<t1, junk, t1b>>, <<t2, m0>>, <<t3>>,
               <<memo, t4>>, <<early, forged>>, <<inflate, twice>>}
RaceLists == {<<>>, <<m1>>, <<t1, t2>>, <<t2>>}
LiveLists == {<<>>, <<m1>>, <<t1, t2>>}
TwoLists == {<<>>, <<m1>>, <<t1>>}
NoHash == <<>>
Premine == <<[id |-> 0, txs |-> <<>>]>>

-----------------------------------------------------------------------------
(* Reference replay of the chain a hash commits to, by what the rules mean: *)
(* no retained histories, no trimming, every root rebuilt from the accepted *)
(* transactions of its height.                                              *)

Log(B) ==
  FlattenSeq([k \in 1..(Len(B) - Initial) |->
    LET h == Initial + k IN
    [i \in DOMAIN B[h].txs |-> [txid |-> B[h].txs[i], height |-> h]]])

LeavesOf(txid) ==
  LET c == Carrier[txid] IN
  IF c.kind = "mint" THEN <<MintLeaf(c)>>
  ELSE <<OutputLeaf(c, 0), OutputLeaf(c, 1)>>

(* The tree after block h, A being the accepted entries of the log.        *)
TreeAt(log, A, h) ==
  FlattenSeq([n \in DOMAIN log |->
    IF n \in A /\ log[n].height <= h THEN LeavesOf(log[n].txid) ELSE <<>>])

SpentBy(log, A) ==
  UNION {Nfs(Carrier[log[n].txid]) :
           n \in {k \in A : Carrier[log[k].txid].kind = "transfer"}}

Valid(log, A, n) ==
  LET c == Carrier[log[n].txid]
      h == log[n].height
  IN  \/ c.kind = "mint" /\ c.value > 0
      \/ /\ c.kind = "transfer"
         /\ c.anchor \in (h - WindowW)..(h - KMin) /\ c.anchor >= Initial
         /\ Cardinality(Nfs(c)) = 2
         /\ Nfs(c) \cap SpentBy(log, A) = {}
         /\ Verify(TreeAt(log, A, c.anchor), c)

Accepted(log) ==
  LET acc[n \in 0..Len(log)] ==
        IF n = 0 THEN {}
        ELSE acc[n - 1] \cup (IF Valid(log, acc[n - 1], n) THEN {n} ELSE {})
  IN acc[Len(log)]

Entries(seq) == [n \in DOMAIN seq |-> [txid |-> seq[n].txid, height |-> seq[n].height]]

(* s is the replay of the chain B.                                         *)
IsReplayOf(s, B) ==
  LET log == Log(B)
      A == Accepted(log)
      accepted(e) == \E n \in A : log[n] = e
      refused(e) == ~accepted(e) /\ Carrier[e.txid].kind # "none"
      refusals == SelectSeq(log, refused)
  IN  /\ s.replayed_height = Len(B)
      /\ s.leaves = TreeAt(log, A, Len(B))
      /\ s.nullifiers = SpentBy(log, A)
      /\ Entries(s.events) = SelectSeq(log, accepted)
      /\ \A h \in DOMAIN s.roots : s.roots[h] = TreeAt(log, A, h)
      /\ IsSuffix(Entries(s.rejections), refusals)
      /\ Len(s.rejections) = Min({MaxRejections, Len(refusals)})

-----------------------------------------------------------------------------
(* Properties.                                                             *)

(* "Replay is over the active chain": the stored state is the replay of    *)
(* the very chain its tip hash commits to, on the deployment's side of     *)
(* activation.  sync trusts exactly this when the stored tip still matches. *)
Faithful ==
  \/ disk = Fresh
  \/ /\ HasStoredTip(disk)
     /\ IsPrefix(ActivationHash, StoredTip(disk))
     /\ IsReplayOf(disk, StoredTip(disk))

(* Once failures stop, state.json ends up at the tip of the active chain,  *)
(* whatever reorganisations happened before, unless the server's chain is  *)
(* another one than the deployment's.                                      *)
AtTip == disk.replayed_height = Len(chain) /\ HasStoredTip(disk)
           /\ OnChain(Len(chain), StoredTip(disk))
Failures == \E p \in Procs : Fail(p)
CatchesUp == <>[][~Failures]_vars => <>[](OnChain(Initial, ActivationHash) => AtTip)
=============================================================================
