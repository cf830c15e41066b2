--------------------------- MODULE IndexerProofs ---------------------------
(***************************************************************************)
(* Safety of Indexer for every chain, every number of commands and every    *)
(* interleaving of their requests with reorganisations and failures.        *)
(*                                                                          *)
(* IInv is the inductive invariant: control variables have their types, and *)
(* every State, in memory or on disk, satisfies StateInv of ReplayProofs.   *)
(* A step of Indexer either copies a State, replaces it by Fresh, or        *)
(* replays into it; the three cases are FreshInv, ReplayTxInv, EndBlockInv. *)
(***************************************************************************)
EXTENDS Indexer, ReplayProofs

ControlOK ==
  /\ chain \in Seq(Block)
  /\ reorgs \in Nat
  /\ pc \in [Procs -> PCs]
  /\ tip \in [Procs -> Nat]
  /\ want \in [Procs -> Seq(Block)]
  /\ todo \in [Procs -> Seq(Txid)]

MemOK == DOMAIN mem = Procs /\ \A p \in Procs : StateInv(mem[p])

IInv == ControlOK /\ MemOK /\ StateInv(disk)

-----------------------------------------------------------------------------

LEMMA PrefixType ==
  ASSUME NEW c \in Seq(Block), NEW h \in Nat, h <= Len(c)
  PROVE  SubSeq(c, 1, h) \in Seq(Block)
  <1>1. \A i \in 1..h : c[i] \in Block
    BY ElementOfSeq, LenProperties
  <1> QED
    BY <1>1, SubSeqProperties

(* One command's State is replaced by another good one.                    *)
LEMMA MemSet ==
  ASSUME MemOK, NEW p \in Procs, NEW x, StateInv(x),
         mem' = [mem EXCEPT ![p] = x]
  PROVE  MemOK'
  BY DEF MemOK

LEMMA LeaveInv ==
  ASSUME IInv, NEW p \in Procs, NEW end \in Ended, Leave(p, end),
         UNCHANGED <<chain, reorgs>>,
         StateInv(disk')
  PROVE  IInv'
  <1>1. MemOK'
    BY FreshInv, MemSet DEF IInv, Leave
  <1>2. ControlOK'
    BY EmptySeq DEF IInv, ControlOK, Leave, Goto, PCs, Ended
  <1> QED
    BY <1>1, <1>2 DEF IInv

(* A command moves on without touching its State or the stored one.        *)
LEMMA GotoInv ==
  ASSUME IInv, NEW p \in Procs, NEW l \in PCs, Goto(p, l),
         UNCHANGED <<chain, reorgs, disk, mem>>,
         tip' \in [Procs -> Nat], want' \in [Procs -> Seq(Block)],
         todo' \in [Procs -> Seq(Txid)]
  PROVE  IInv'
  <1>1. ControlOK'
    BY DEF IInv, ControlOK, Goto
  <1>2. MemOK' /\ StateInv(disk')
    BY DEF IInv, MemOK
  <1> QED
    BY <1>1, <1>2 DEF IInv

LEMMA ChainInv ==
  ASSUME IInv, chain' \in Seq(Block), reorgs' \in Nat,
         UNCHANGED <<disk, local>>
  PROVE  IInv'
  <1>1. ControlOK'
    BY DEF IInv, ControlOK, local
  <1>2. MemOK' /\ StateInv(disk')
    BY DEF IInv, MemOK, local
  <1> QED
    BY <1>1, <1>2 DEF IInv

-----------------------------------------------------------------------------

LEMMA InitInv == Init => IInv
  <1> SUFFICES ASSUME Init PROVE IInv
    OBVIOUS
  <1>1. ControlOK
    BY IndexerConstants, EmptySeq DEF Init, ControlOK, PCs, Ended
  <1>2. MemOK /\ StateInv(disk)
    BY FreshInv DEF Init, MemOK
  <1> QED
    BY <1>1, <1>2 DEF IInv

LEMMA MineInv == IInv /\ Mine => IInv'
  <1> SUFFICES ASSUME IInv, Mine PROVE IInv'
    OBVIOUS
  <1>1. PICK id \in BlockId, txs \in TxLists :
          chain' = Append(chain, [id |-> id, txs |-> txs])
    BY DEF Mine
  <1>2. [id |-> id, txs |-> txs] \in Block
    BY IndexerConstants DEF Block
  <1>3. chain \in Seq(Block) /\ reorgs \in Nat
    BY DEF IInv, ControlOK
  <1>4. chain' \in Seq(Block)
    BY <1>1, <1>2, <1>3, AppendProperties
  <1>5. reorgs' \in Nat /\ UNCHANGED <<disk, local>>
    BY <1>3 DEF Mine
  <1> QED
    BY <1>4, <1>5, ChainInv

LEMMA DisconnectInv == IInv /\ Disconnect => IInv'
  <1> SUFFICES ASSUME IInv, Disconnect PROVE IInv'
    OBVIOUS
  <1>1. PICK k \in 0..(Len(chain) - 1) : chain' = Hash(k)
    BY DEF Disconnect
  <1>2. chain \in Seq(Block) /\ reorgs \in Nat /\ Len(chain) \in Nat
    BY LenProperties DEF IInv, ControlOK
  <1>3. k \in Nat /\ k <= Len(chain)
    BY <1>2
  <1>4. chain' \in Seq(Block)
    BY <1>1, <1>2, <1>3, PrefixType DEF Hash
  <1>5. reorgs' \in Nat /\ UNCHANGED <<disk, local>>
    BY <1>2 DEF Disconnect
  <1> QED
    BY <1>4, <1>5, ChainInv

LEMMA StepInv ==
  ASSUME IInv, NEW p \in Procs, Step(p)
  PROVE  IInv'
  <1>1. /\ chain \in Seq(Block) /\ Len(chain) \in Nat
        /\ tip \in [Procs -> Nat] /\ want \in [Procs -> Seq(Block)]
        /\ todo \in [Procs -> Seq(Txid)]
        /\ pc \in [Procs -> PCs] /\ reorgs \in Nat
    BY LenProperties DEF IInv, ControlOK
  <1>2. StateInv(mem[p]) /\ StateInv(disk) /\ MemOK
    BY DEF IInv, MemOK
  <1>3. mem[p].replayed_height \in Nat /\ NextHeight(p) \in Nat
    BY <1>2 DEF StateInv, StateOK, NextHeight
  <1>4. NextHeight(p) = NextBlock(mem[p])
    BY DEF NextHeight, NextBlock
  <1>5. ASSUME Quit(p) PROVE IInv'
    BY <1>2, <1>5, LeaveInv DEF Quit, Ended
  <1>6. CASE Launch(p)
    <2>1. MemOK'
      BY <1>2, <1>6, MemSet DEF Launch
    <2>2. ControlOK'
      BY <1>1, <1>6 DEF ControlOK, Launch, Goto, PCs, Ended
    <2>3. StateInv(disk')
      BY <1>2, <1>6 DEF Launch
    <2> QED
      BY <2>1, <2>2, <2>3 DEF IInv
  <1>7. CASE CheckActivation(p)
    <2>1. "tip" \in PCs
      BY DEF PCs, Ended
    <2> QED
      BY <1>1, <1>7, <2>1, GotoInv DEF CheckActivation
  <1>8. CASE WrongChain(p)
    BY <1>5, <1>8 DEF WrongChain
  <1>9. CASE ReadTip(p)
    <2>1. "stored" \in PCs
      BY DEF PCs, Ended
    <2>2. tip' \in [Procs -> Nat]
      BY <1>1, <1>9 DEF ReadTip
    <2> QED
      BY <1>1, <1>9, <2>1, <2>2, GotoInv DEF ReadTip
  <1>10. CASE CheckStored(p)
    <2>1. PICK x : StateInv(x) /\ mem' = [mem EXCEPT ![p] = x]
      BY <1>2, <1>10, FreshInv DEF CheckStored
    <2>2. MemOK'
      BY <1>2, <2>1, MemSet
    <2>3. ControlOK'
      BY <1>1, <1>10 DEF ControlOK, CheckStored, Goto, PCs, Ended
    <2>4. StateInv(disk')
      BY <1>2, <1>10 DEF CheckStored
    <2> QED
      BY <2>2, <2>3, <2>4 DEF IInv
  <1>11. CASE StoredTipMissing(p)
    BY <1>5, <1>11 DEF StoredTipMissing
  <1>12. CASE StartBlock(p)
    <2>1. "txids" \in PCs
      BY DEF PCs, Ended
    <2>2. Hash(NextHeight(p)) \in Seq(Block)
      BY <1>1, <1>3, <1>12, PrefixType DEF StartBlock, Hash
    <2>3. want' \in [Procs -> Seq(Block)]
      BY <1>1, <1>12, <2>2 DEF StartBlock
    <2> QED
      BY <1>1, <1>12, <2>1, <2>3, GotoInv DEF StartBlock
  <1>13. CASE FetchTxid(p)
    <2> DEFINE txs == chain[NextHeight(p)].txs
               n == Len(todo[p])
    <2>1. NextHeight(p) \in 1..Len(chain)
      BY <1>1, <1>3, <1>13 DEF FetchTxid, NextHeight
    <2>2. txs \in Seq(Txid)
      <3>1. chain[NextHeight(p)] \in Block
        BY <1>1, <2>1, ElementOfSeq
      <3> QED
        BY <3>1 DEF Block
    <2>3. n \in Nat /\ todo[p] \in Seq(Txid) /\ Len(txs) \in Nat
      BY <1>1, <2>2, LenProperties
    <2>4. MemOK' /\ StateInv(disk')
      BY <1>2, <1>13 DEF FetchTxid, MemOK
    <2>5. CASE n < Len(txs)
      <3>1. n + 1 \in 1..Len(txs)
        BY <2>3, <2>5
      <3>2. txs[n + 1] \in Txid
        BY <2>2, <3>1, ElementOfSeq
      <3>3. Append(todo[p], txs[n + 1]) \in Seq(Txid)
        BY <2>3, <3>2, AppendProperties
      <3>4. todo' = [todo EXCEPT ![p] = Append(todo[p], txs[n + 1])]
        BY <1>13, <2>5 DEF FetchTxid
      <3>5. todo' \in [Procs -> Seq(Txid)]
        BY <1>1, <3>3, <3>4
      <3>6. UNCHANGED <<chain, reorgs, tip, want, pc>>
        BY <1>13, <2>5 DEF FetchTxid
      <3> QED
        BY <1>1, <2>4, <3>5, <3>6 DEF IInv, ControlOK
    <2>6. CASE ~(n < Len(txs))
      <3>1. "recheck" \in PCs
        BY DEF PCs, Ended
      <3>2. /\ Goto(p, "recheck")
            /\ UNCHANGED <<chain, reorgs, disk, mem, tip, want, todo>>
        BY <1>13, <2>6 DEF FetchTxid
      <3> QED
        BY <1>1, <3>1, <3>2, GotoInv
    <2> QED
      BY <2>5, <2>6
  <1>14. CASE BlockMissing(p)
    BY <1>5, <1>14 DEF BlockMissing
  <1>15. CASE Recheck(p)
    <2>1. "replay" \in PCs
      BY DEF PCs, Ended
    <2> QED
      BY <1>1, <1>15, <2>1, GotoInv DEF Recheck
  <1>16. CASE BlockChanged(p)
    BY <1>5, <1>16 DEF BlockChanged
  <1>17. CASE ReplayNext(p)
    <2>1. todo[p] \in Seq(Txid) /\ todo[p] # <<>>
      BY <1>1, <1>17 DEF ReplayNext
    <2>2. Head(todo[p]) \in Txid /\ Tail(todo[p]) \in Seq(Txid)
      BY <2>1, HeadTailProperties
    <2>3. StateInv(ReplayTx(mem[p], NextHeight(p), Head(todo[p])))
      BY <1>2, <1>4, <2>2, ReplayTxInv
    <2>4. mem' = [mem EXCEPT ![p] =
                    ReplayTx(mem[p], NextHeight(p), Head(todo[p]))]
      BY <1>17 DEF ReplayNext
    <2>5. MemOK'
      BY <1>2, <2>3, <2>4, MemSet
    <2>6. ControlOK' /\ StateInv(disk')
      BY <1>1, <1>2, <1>17, <2>2 DEF ControlOK, ReplayNext
    <2> QED
      BY <2>5, <2>6 DEF IInv
  <1>18. CASE FinishBlock(p)
    <2>1. StateInv(EndBlock(mem[p], NextHeight(p), want[p]))
      BY <1>1, <1>2, <1>4, EndBlockInv
    <2>2. mem' = [mem EXCEPT ![p] = EndBlock(mem[p], NextHeight(p), want[p])]
      BY <1>18 DEF FinishBlock
    <2>3. MemOK'
      BY <1>2, <2>1, <2>2, MemSet
    <2>4. ControlOK' /\ StateInv(disk')
      BY <1>1, <1>2, <1>18, EmptySeq DEF ControlOK, FinishBlock, Goto, PCs, Ended
    <2> QED
      BY <2>3, <2>4 DEF IInv
  <1>19. CASE Save(p)
    BY <1>2, <1>19, LeaveInv DEF Save, Ended
  <1> QED
    BY <1>6, <1>7, <1>8, <1>9, <1>10, <1>11, <1>12, <1>13, <1>14, <1>15,
       <1>16, <1>17, <1>18, <1>19 DEF Step

LEMMA NextInv == IInv /\ [Next]_vars => IInv'
  <1> SUFFICES ASSUME IInv, [Next]_vars PROVE IInv'
    OBVIOUS
  <1>1. CASE Mine
    BY <1>1, MineInv
  <1>2. CASE Disconnect
    BY <1>2, DisconnectInv
  <1>3. CASE \E p \in Procs : Step(p)
    BY <1>3, StepInv
  <1>4. CASE \E p \in Procs : Fail(p)
    <2>1. PICK p \in Procs : Fail(p)
      BY <1>4
    <2>2. StateInv(disk') /\ Leave(p, "failed") /\ UNCHANGED <<chain, reorgs>>
      BY <2>1 DEF IInv, Fail
    <2> QED
      BY <2>2, LeaveInv DEF Ended
  <1>5. CASE UNCHANGED vars
    BY <1>5 DEF vars, local, IInv, ControlOK, MemOK
  <1> QED
    BY <1>1, <1>2, <1>3, <1>4, <1>5 DEF Next

(* Every State, stored or in memory, satisfies StateInv at every step.     *)
THEOREM Invariant == Spec => []IInv
  BY InitInv, NextInv, PTL DEF Spec

-----------------------------------------------------------------------------

LEMMA StatesInv == IInv => \A s \in States : StateInv(s)
  BY DEF IInv, MemOK, States

(* Type correctness.                                                       *)
THEOREM TypeCorrect == Spec => []TypeOK
  <1>1. IInv => TypeOK
    BY DEF IInv, ControlOK, MemOK, StateInv, TypeOK
  <1> QED
    BY <1>1, Invariant, PTL

(* No State ever holds an accepted history that spends a note twice: not   *)
(* across reorganisations, not after a crash, not with equal mint leaves.  *)
THEOREM NoNoteSpentTwice == Spec => []NoDoubleSpend
  <1>1. IInv => NoDoubleSpend
    BY StatesInv, SpentOnce DEF NoDoubleSpend, StateInv
  <1> QED
    BY <1>1, Invariant, PTL

(* Every accepted input spends a note that the same history created before. *)
THEOREM SpendsBacked == Spec => []SpendsAreBacked
  <1>1. IInv => SpendsAreBacked
    BY StatesInv DEF SpendsAreBacked, StateInv
  <1> QED
    BY <1>1, Invariant, PTL

(* build_transfer can rebuild every retained root from the leaf list.      *)
THEOREM RootsAreRebuildable == Spec => []RootsRebuildable
  <1>1. IInv => RootsRebuildable
    BY StatesInv DEF RootsRebuildable, StateInv
  <1> QED
    BY <1>1, Invariant, PTL

(* A retained root commits to the notes of its height and to no later one. *)
THEOREM RootsMatchHeights == Spec => []RootsByHeight
  <1>1. IInv => RootsByHeight
    BY StatesInv DEF RootsByHeight, StateInv
  <1> QED
    BY <1>1, Invariant, PTL

(* Trimming keeps every root the next block may be anchored at, for every  *)
(* window, depth and retention margin.                                     *)
THEOREM WindowRootsRetained == Spec => []AnchorsRetained
  <1>1. IInv => AnchorsRetained
    BY StatesInv, WindowKept DEF AnchorsRetained
  <1> QED
    BY <1>1, Invariant, PTL

-----------------------------------------------------------------------------
(* Value.  Solvent is inductive beside IInv: a command's State is a copy of *)
(* the stored one, is Fresh, or has replayed one more transaction, and by   *)
(* ReplayTxSolvent a replayed transaction adds no more value than it pays.  *)

LEMMA SolventParts ==
  ASSUME IInv
  PROVE  Solvent <=> /\ NoInflation(disk)
                     /\ \A q \in Procs : NoInflation(mem[q])
  BY DEF Solvent, States

(* One command's State, and no more, is replaced by a solvent one.         *)
LEMMA SolventSet ==
  ASSUME IInv, Solvent, IInv', NEW p \in Procs, NEW x, NoInflation(x),
         mem' = [mem EXCEPT ![p] = x], NoInflation(disk')
  PROVE  Solvent'
  <1>1. /\ DOMAIN mem = Procs
        /\ \A q \in Procs : NoInflation(mem[q])
    BY DEF IInv, MemOK, Solvent, States
  <1>2. \A q \in Procs : mem'[q] = IF q = p THEN x ELSE mem[q]
    BY <1>1
  <1>3. \A q \in Procs : NoInflation(mem'[q])
    BY <1>1, <1>2
  <1> QED
    BY <1>3 DEF Solvent, States

(* No State changes.                                                       *)
LEMMA SolventKept ==
  ASSUME Solvent, UNCHANGED <<mem, disk>>
  PROVE  Solvent'
  BY DEF Solvent, States

LEMMA LeaveSolvent ==
  ASSUME IInv, Solvent, IInv', NEW p \in Procs, NEW end, Leave(p, end),
         NoInflation(disk')
  PROVE  Solvent'
  BY FreshSolvent, SolventSet DEF Leave

LEMMA StepSolvent ==
  ASSUME IInv, Solvent, IInv', NEW p \in Procs, Step(p) \/ Fail(p)
  PROVE  Solvent'
  <1>1. NoInflation(disk) /\ NoInflation(mem[p]) /\ StateInv(mem[p])
    BY SolventParts DEF IInv, MemOK
  <1>2. NextHeight(p) = NextBlock(mem[p])
    BY DEF NextHeight, NextBlock
  <1>3. CASE Quit(p) \/ Fail(p)
    BY <1>1, <1>3, LeaveSolvent DEF Quit, Fail
  <1>4. CASE WrongChain(p) \/ StoredTipMissing(p) \/ BlockMissing(p)
             \/ BlockChanged(p)
    BY <1>3, <1>4 DEF WrongChain, StoredTipMissing, BlockMissing, BlockChanged
  <1>5. CASE CheckActivation(p) \/ ReadTip(p) \/ StartBlock(p)
             \/ FetchTxid(p) \/ Recheck(p)
    <2>1. UNCHANGED <<mem, disk>>
      BY <1>5 DEF CheckActivation, ReadTip, StartBlock, FetchTxid, Recheck
    <2> QED
      BY <2>1, SolventKept
  <1>6. CASE Launch(p)
    <2>1. mem' = [mem EXCEPT ![p] = disk] /\ NoInflation(disk')
      BY <1>1, <1>6 DEF Launch
    <2> QED
      BY <1>1, <2>1, SolventSet
  <1>7. CASE CheckStored(p)
    <2>1. PICK x : NoInflation(x) /\ mem' = [mem EXCEPT ![p] = x]
      BY <1>1, <1>7, FreshSolvent DEF CheckStored
    <2>2. NoInflation(disk')
      BY <1>1, <1>7 DEF CheckStored
    <2> QED
      BY <2>1, <2>2, SolventSet
  <1>8. CASE ReplayNext(p)
    <2>1. Head(todo[p]) \in Txid
      BY <1>8, HeadTailProperties DEF ReplayNext, IInv, ControlOK
    <2>2. NoInflation(ReplayTx(mem[p], NextHeight(p), Head(todo[p])))
      BY <1>1, <1>2, <2>1, ReplayTxSolvent
    <2>3. /\ mem' = [mem EXCEPT ![p] =
                       ReplayTx(mem[p], NextHeight(p), Head(todo[p]))]
          /\ NoInflation(disk')
      BY <1>1, <1>8 DEF ReplayNext
    <2> QED
      BY <2>2, <2>3, SolventSet
  <1>9. CASE FinishBlock(p)
    <2>1. NoInflation(EndBlock(mem[p], NextHeight(p), want[p]))
      BY <1>1, <1>2, EndBlockSolvent
    <2>2. /\ mem' = [mem EXCEPT ![p] =
                       EndBlock(mem[p], NextHeight(p), want[p])]
          /\ NoInflation(disk')
      BY <1>1, <1>9 DEF FinishBlock
    <2> QED
      BY <2>1, <2>2, SolventSet
  <1>10. CASE Save(p)
    <2>1. NoInflation(disk') /\ Leave(p, "idle")
      BY <1>1, <1>10 DEF Save
    <2> QED
      BY <2>1, LeaveSolvent
  <1> QED
    BY <1>3, <1>4, <1>5, <1>6, <1>7, <1>8, <1>9, <1>10 DEF Step

(* No history that any State ever holds, not even a mixture of two          *)
(* branches, makes value of nothing: what can still be spent is never more  *)
(* than its mints have paid into the vault.                                 *)
THEOREM NoStateInflates == Spec => []Solvent
  <1>1. Init => Solvent
    BY FreshSolvent DEF Init, Solvent, States
  <1>2. IInv /\ IInv' /\ Solvent /\ [Next]_vars => Solvent'
    <2> SUFFICES ASSUME IInv, IInv', Solvent, [Next]_vars PROVE Solvent'
      OBVIOUS
    <2>1. CASE Mine \/ Disconnect \/ UNCHANGED vars
      <3>1. UNCHANGED <<mem, disk>>
        BY <2>1 DEF Mine, Disconnect, vars, local
      <3> QED
        BY <3>1, SolventKept
    <2>2. CASE \E p \in Procs : Step(p) \/ Fail(p)
      BY <2>2, StepSolvent
    <2> QED
      BY <2>1, <2>2 DEF Next
  <1> QED
    BY <1>1, <1>2, Invariant, PTL DEF Spec

-----------------------------------------------------------------------------
(* The refinement: for any server, any reorganisation at any moment and any  *)
(* number of commands, each step of a command is a step of ShieldedPool or   *)
(* leaves the pool alone.                                                   *)
(*                                                                          *)
(* The step that needs the invariant is a transfer: that the positions it    *)
(* spends are unspent follows from its nullifiers being new, because an      *)
(* earlier input at the same position would have spent the same leaf and so  *)
(* published the same nullifier.                                            *)

LEMMA SamePool ==
  ASSUME NEW s, NEW r, SameHistory(s, r)
  PROVE  PoolOf(r) = PoolOf(s)
  <1>1. RealInputs(r) = RealInputs(s)
    BY DEF SameHistory, RealInputs, TransferEvents, Spend
  <1>2. \A x \in RealInputs(s) : InputOf(r, x) = InputOf(s, x)
    BY DEF SameHistory, InputOf, Spend
  <1>3. r.leaves = s.leaves
    BY DEF SameHistory
  <1>4. {InputOf(r, x).pos + 1 : x \in RealInputs(r)}
          = {InputOf(s, x).pos + 1 : x \in RealInputs(s)}
    BY <1>1, <1>2
  <1> QED
    BY <1>3, <1>4 DEF PoolOf

LEMMA FreshPool == PoolOf(Fresh) = Pool!Empty
  <1>1. Fresh.leaves = <<>> /\ Fresh.events = <<>>
    BY DEF Fresh
  <1>2. RealInputs(Fresh) = {}
    BY <1>1 DEF RealInputs, TransferEvents
  <1>3. {InputOf(Fresh, x).pos + 1 : x \in RealInputs(Fresh)} = {}
    BY <1>2
  <1>4. [i \in DOMAIN Fresh.leaves |-> Fresh.leaves[i].v] = [n \in {} |-> 0]
    BY <1>1
  <1> QED
    BY <1>3, <1>4 DEF PoolOf, Pool!Empty

(* Notes of an extended state: the old ones, then the new leaves.          *)
LEMMA ExtendedNotes ==
  ASSUME NEW s, StateOK(s), NEW r, NEW txid \in Txid,
         NEW new \in Seq(Leaf), NEW nfs, Extended(s, r, txid, new, nfs),
         NEW N, N = (Len(s.leaves) + 1)..(Len(s.leaves) + Len(new))
  PROVE  /\ DOMAIN PoolOf(s).notes = 1..Len(s.leaves)
         /\ Pool!Gains(PoolOf(s), PoolOf(r), N)
         /\ \A k \in 1..Len(new) :
              PoolOf(r).notes[Len(s.leaves) + k] = new[k].v
  <1>1. /\ s.leaves \in Seq(Leaf) /\ r.leaves = s.leaves \o new
        /\ Len(s.leaves) \in Nat /\ Len(new) \in Nat
        /\ r.leaves \in Seq(Leaf) /\ Len(r.leaves) = Len(s.leaves) + Len(new)
        /\ \A i \in 1..Len(s.leaves) : r.leaves[i] = s.leaves[i]
    BY ExtendedLeaves DEF StateOK, Extended
  <1>2. DOMAIN s.leaves = 1..Len(s.leaves) /\ DOMAIN r.leaves = 1..Len(r.leaves)
    BY <1>1, LenProperties
  <1>3. \A k \in 1..Len(new) : r.leaves[Len(s.leaves) + k] = new[k]
    BY <1>1, ConcatProperties
  <1>4. /\ PoolOf(s).notes = [i \in 1..Len(s.leaves) |-> s.leaves[i].v]
        /\ PoolOf(r).notes = [i \in 1..Len(r.leaves) |-> r.leaves[i].v]
    BY <1>2 DEF PoolOf
  <1>5. \A k \in 1..Len(new) : PoolOf(r).notes[Len(s.leaves) + k] = new[k].v
    BY <1>1, <1>3, <1>4
  <1>6. /\ DOMAIN PoolOf(s).notes = 1..Len(s.leaves)
        /\ DOMAIN PoolOf(r).notes = 1..(Len(s.leaves) + Len(new))
        /\ \A i \in 1..Len(s.leaves) : PoolOf(r).notes[i] = PoolOf(s).notes[i]
    BY <1>1, <1>4
  <1>7. /\ N \cap (1..Len(s.leaves)) = {}
        /\ 1..(Len(s.leaves) + Len(new)) = (1..Len(s.leaves)) \cup N
    BY <1>1
  <1> QED
    BY <1>5, <1>6, <1>7 DEF Pool!Gains

-----------------------------------------------------------------------------

LEMMA MintSpends ==
  ASSUME NEW s, StateInv(s), NEW r, NEW txid \in Mints,
         NEW new \in Seq(Leaf), Extended(s, r, txid, new, {})
  PROVE  PoolOf(r).spent = PoolOf(s).spent
  <1>1. StateOK(s) /\ txid \in Txid
    BY MintType DEF StateInv
  <1>2. \A i \in TransferEvents(r) : i \in DOMAIN s.events
    <2> SUFFICES ASSUME NEW i \in TransferEvents(r), i \notin DOMAIN s.events
                 PROVE  FALSE
      OBVIOUS
    <2>1. i \in DOMAIN r.events /\ r.events[i].txid \in Transfers
      BY DEF TransferEvents
    <2>2. r.events[i] = EventAt(s, txid)
      BY <1>1, <2>1, ExtendedEvents, ZenonT(60)
    <2>3. r.events[i].txid = txid
      BY <2>2 DEF EventAt
    <2> QED
      BY <2>1, <2>3, MintNotTransfer
  <1>3. \A i \in TransferEvents(s) : i \in DOMAIN s.events
    BY DEF TransferEvents
  <1>4. \A i \in DOMAIN s.events :
          /\ Spend(r, i) = Spend(s, i)
          /\ i \in TransferEvents(r) <=> i \in TransferEvents(s)
    BY <1>1, OldSpends
  <1>5. TransferEvents(r) = TransferEvents(s)
    BY <1>2, <1>3, <1>4
  <1>6. /\ RealInputs(r) = RealInputs(s)
        /\ \A x \in RealInputs(s) : InputOf(r, x) = InputOf(s, x)
    BY <1>3, <1>4, <1>5 DEF RealInputs, InputOf
  <1> QED
    BY <1>6 DEF PoolOf

LEMMA MintStep ==
  ASSUME NEW s, StateInv(s), NEW txid \in Mints, Carrier[txid].value # 0
  PROVE  Pool!Mint(PoolOf(s), PoolOf(AcceptMint(s, NextBlock(s), txid)))
  <1> DEFINE r == AcceptMint(s, NextBlock(s), txid)
             m == MintLeaf(Carrier[txid])
             n == Len(s.leaves) + 1
  <1>1. StateOK(s) /\ txid \in Txid /\ Carrier[txid] \in MintEnvelope
    BY MintType DEF StateInv
  <1>2. m \in Leaf /\ m.v > 0
    BY <1>1 DEF MintLeaf, Leaf, MintEnvelope, Slots
  <1>3. Extended(s, r, txid, <<m>>, {})
    BY <1>1, AcceptMintExtends
  <1> HIDE DEF r, m
  <1>4. <<m>> \in Seq(Leaf) /\ Len(<<m>>) = 1 /\ <<m>>[1] = m
    BY <1>2
  <1>5. Len(s.leaves) \in Nat
    BY <1>1, LenProperties DEF StateOK
  <1>6. {n} = (Len(s.leaves) + 1)..(Len(s.leaves) + Len(<<m>>))
    BY <1>4, <1>5
  <1>7. /\ Pool!Gains(PoolOf(s), PoolOf(r), {n})
        /\ \A k \in 1..Len(<<m>>) :
             PoolOf(r).notes[Len(s.leaves) + k] = <<m>>[k].v
    <2> DEFINE new == <<m>>
    <2>1. new \in Seq(Leaf) /\ Extended(s, r, txid, new, {})
      BY <1>3, <1>4
    <2>2. {n} = (Len(s.leaves) + 1)..(Len(s.leaves) + Len(new))
      BY <1>6
    <2> HIDE DEF new, n
    <2>3. /\ Pool!Gains(PoolOf(s), PoolOf(r), {n})
          /\ \A k \in 1..Len(new) : PoolOf(r).notes[Len(s.leaves) + k] = new[k].v
      BY <1>1, <2>1, <2>2, ExtendedNotes
    <2> QED
      BY <2>3 DEF new
  <1>8. PoolOf(r).notes[n] > 0
    BY <1>2, <1>4, <1>7
  <1>9. PoolOf(r).spent = PoolOf(s).spent
    BY <1>3, <1>4, MintSpends
  <1>10. n \in DOMAIN PoolOf(r).notes
    BY <1>7 DEF Pool!Gains
  <1>11. Pool!Mint(PoolOf(s), PoolOf(r))
    BY <1>7, <1>8, <1>9, <1>10 DEF Pool!Mint
  <1> QED
    BY <1>11 DEF r

-----------------------------------------------------------------------------

(* The spent notes of an extended state: the old ones, and those of the    *)
(* accepted transfer.                                                       *)
LEMMA TransferSpends ==
  ASSUME NEW s, StateInv(s), NEW r, NEW txid \in Transfers,
         NEW t, t = Carrier[txid],
         NEW new \in Seq(Leaf), NEW nfs, Extended(s, r, txid, new, nfs)
  PROVE  PoolOf(r).spent = PoolOf(s).spent
           \cup {t.ins[k].pos + 1 : k \in {i \in Slots : t.ins[i].on}}
  <1>1. StateOK(s) /\ txid \in Txid
    BY TransferType DEF StateInv
  <1>2. PICK n : n \in DOMAIN r.events /\ n \notin DOMAIN s.events
    BY <1>1, ExtendedEvents
  <1>3. r.events[n] = EventAt(s, txid)
    BY <1>1, <1>2, ExtendedEvents, ZenonT(60)
  <1>4. r.events[n].txid = txid
    BY <1>3 DEF EventAt
  <1>5. Spend(r, n) = t /\ n \in TransferEvents(r)
    BY <1>2, <1>4 DEF Spend, TransferEvents
  <1>6. \A i \in TransferEvents(r) : i \in TransferEvents(s) \/ i = n
    <2> TAKE i \in TransferEvents(r)
    <2>1. i \in DOMAIN r.events
      BY DEF TransferEvents
    <2>2. i \in DOMAIN s.events \/ i = n
      BY <1>1, <1>2, <2>1, ExtendedEvents
    <2> QED
      BY <1>1, <2>2, OldSpends
  <1>7. \A i \in TransferEvents(s) :
          i # n /\ i \in TransferEvents(r) /\ Spend(r, i) = Spend(s, i)
    <2> TAKE i \in TransferEvents(s)
    <2>1. i \in DOMAIN s.events
      BY DEF TransferEvents
    <2> QED
      BY <1>1, <1>2, <2>1, OldSpends
  <1>8. ASSUME NEW x \in RealInputs(r)
        PROVE  InputOf(r, x) \in
                 {InputOf(s, y) : y \in RealInputs(s)}
                 \cup {t.ins[k] : k \in {i \in Slots : t.ins[i].on}}
    <2>1. /\ x \in TransferEvents(r) \X Slots /\ Spend(r, x[1]).ins[x[2]].on
      BY DEF RealInputs
    <2>2. CASE x[1] \in TransferEvents(s)
      <3>1. x \in RealInputs(s) /\ InputOf(r, x) = InputOf(s, x)
        BY <1>7, <2>1, <2>2 DEF RealInputs, InputOf
      <3> QED
        BY <3>1
    <2>3. CASE x[1] = n
      <3>1. x[2] \in Slots /\ InputOf(r, x) = t.ins[x[2]] /\ t.ins[x[2]].on
        BY <1>5, <2>1, <2>3 DEF InputOf
      <3> QED
        BY <3>1
    <2> QED
      BY <1>6, <2>1, <2>2, <2>3
  <1>9. ASSUME NEW x \in RealInputs(s)
        PROVE  InputOf(s, x) \in {InputOf(r, y) : y \in RealInputs(r)}
    <2>1. x \in TransferEvents(s) \X Slots /\ Spend(s, x[1]).ins[x[2]].on
      BY DEF RealInputs
    <2>2. x \in RealInputs(r) /\ InputOf(r, x) = InputOf(s, x)
      BY <1>7, <2>1 DEF RealInputs, InputOf
    <2> QED
      BY <2>2
  <1>10. ASSUME NEW k \in Slots, t.ins[k].on
         PROVE  t.ins[k] \in {InputOf(r, y) : y \in RealInputs(r)}
    <2>1. <<n, k>> \in RealInputs(r) /\ InputOf(r, <<n, k>>) = t.ins[k]
      BY <1>5, <1>10 DEF RealInputs, InputOf
    <2> QED
      BY <2>1
  <1>11. {InputOf(r, x) : x \in RealInputs(r)}
           = {InputOf(s, x) : x \in RealInputs(s)}
             \cup {t.ins[k] : k \in {i \in Slots : t.ins[i].on}}
    BY <1>8, <1>9, <1>10
  <1>12. /\ PoolOf(s).spent = {in.pos + 1 : in \in {InputOf(s, x) : x \in RealInputs(s)}}
         /\ PoolOf(r).spent = {in.pos + 1 : in \in {InputOf(r, x) : x \in RealInputs(r)}}
    BY DEF PoolOf
  <1> QED
    BY <1>11, <1>12, ZenonT(60)

(* What acceptance says of an enabled input: its leaf is in the tree, and  *)
(* no accepted transfer has spent that position.                           *)
LEMMA AcceptedInput ==
  ASSUME NEW s, StateInv(s), NEW txid \in Transfers, NEW t, t = Carrier[txid],
         NEW h, Verdict(s, h, t) = "accept",
         NEW k \in Slots, t.ins[k].on
  PROVE  /\ t.ins[k].pos + 1 \in Pool!Unspent(PoolOf(s))
         /\ PoolOf(s).notes[t.ins[k].pos + 1] = t.ins[k].leaf.v
         /\ t.ins[k].pos + 1 # 0
  <1>1. /\ StateOK(s) /\ RootHistory(s) /\ NullifiersOnce(s) /\ SpendsExist(s)
        /\ t \in TransferEnvelope
    BY TransferType DEF StateInv
  <1>2. /\ t.anchor \in DOMAIN s.roots
        /\ Nfs(t) \cap s.nullifiers = {}
        /\ Verify(s.roots[t.anchor], t)
    BY AcceptedTransfer
  <1>3. t.ins[k].pos < Len(s.leaves) /\ Enters(s.leaves, t.ins[k])
    BY <1>1, <1>2, VerifiedInput
  <1>4. t.ins[k].pos \in Nat
    BY <1>1, EnvelopeParts DEF Input
  <1>5. s.leaves \in Seq(Leaf) /\ Len(s.leaves) \in Nat
    BY <1>1, LenProperties DEF StateOK
  <1>6. DOMAIN s.leaves = 1..Len(s.leaves)
    BY <1>5, LenProperties
  <1>7. /\ t.ins[k].pos + 1 \in DOMAIN s.leaves
        /\ s.leaves[t.ins[k].pos + 1] = t.ins[k].leaf
    BY <1>3, <1>4, <1>5, <1>6 DEF Enters
  <1>8. t.ins[k].pos + 1 \in DOMAIN PoolOf(s).notes
    BY <1>7 DEF PoolOf
  <1>9. PoolOf(s).notes[t.ins[k].pos + 1] = t.ins[k].leaf.v
    BY <1>7 DEF PoolOf
  <1>10. ASSUME NEW x \in RealInputs(s)
         PROVE  InputOf(s, x).pos + 1 # t.ins[k].pos + 1
    <2> SUFFICES ASSUME InputOf(s, x).pos + 1 = t.ins[k].pos + 1
                 PROVE  FALSE
      OBVIOUS
    <2>1. x \in TransferEvents(s) \X Slots
      BY DEF RealInputs
    <2>2. InputOf(s, x).pos \in Nat
      BY <2>1, TransferEventType DEF InputOf, Input
    <2>3. InputOf(s, x).pos = t.ins[k].pos
      BY <1>4, <2>2
    <2>4. InputOf(s, x).leaf = t.ins[k].leaf
      BY <1>1, <1>3, <2>3 DEF SpendsExist, Enters
    <2>5. Nf(Spend(s, x[1]), x[2]) = Nf(t, k)
      BY <2>3, <2>4 DEF Nf, InputOf
    <2>6. Nf(Spend(s, x[1]), x[2]) \in Nfs(Spend(s, x[1])) /\ Nf(t, k) \in Nfs(t)
      BY <2>1 DEF Nfs
    <2>7. Nf(Spend(s, x[1]), x[2]) \in s.nullifiers
      BY <1>1, <2>1, <2>6 DEF NullifiersOnce
    <2> QED
      BY <1>2, <2>5, <2>6, <2>7
  <1>11. t.ins[k].pos + 1 \notin PoolOf(s).spent
    BY <1>10 DEF PoolOf
  <1> QED
    BY <1>4, <1>8, <1>9, <1>11 DEF Pool!Unspent

(* The two inputs of an accepted transfer are not at one position.         *)
LEMMA AcceptedPair ==
  ASSUME NEW s, StateInv(s), NEW txid \in Transfers, NEW t, t = Carrier[txid],
         NEW h, Verdict(s, h, t) = "accept",
         t.ins[0].on, t.ins[1].on
  PROVE  t.ins[0].pos + 1 # t.ins[1].pos + 1
  <1>1. StateOK(s) /\ RootHistory(s) /\ t \in TransferEnvelope
    BY TransferType DEF StateInv
  <1>2. /\ t.anchor \in DOMAIN s.roots
        /\ Nf(t, 0) # Nf(t, 1)
        /\ Verify(s.roots[t.anchor], t)
    BY AcceptedTransfer
  <1>3. 0 \in Slots /\ 1 \in Slots
    BY DEF Slots
  <1>4. Enters(s.leaves, t.ins[0]) /\ Enters(s.leaves, t.ins[1])
    BY <1>1, <1>2, <1>3, VerifiedInput
  <1>5. t.ins[0].pos \in Nat /\ t.ins[1].pos \in Nat
    BY <1>1, <1>3, EnvelopeParts DEF Input
  <1>6. t.ins[0].pos # t.ins[1].pos
    BY <1>2, <1>4 DEF Nf, Enters
  <1> QED
    BY <1>5, <1>6

LEMMA TransferStep ==
  ASSUME NEW s, StateInv(s), NEW txid \in Transfers,
         Verdict(s, NextBlock(s), Carrier[txid]) = "accept"
  PROVE  Pool!Transfer(PoolOf(s), PoolOf(AcceptTransfer(s, NextBlock(s), txid)))
  <1> DEFINE r == AcceptTransfer(s, NextBlock(s), txid)
             t == Carrier[txid]
             l == Len(s.leaves)
             new == <<OutputLeaf(t, 0), OutputLeaf(t, 1)>>
             a == IF t.ins[0].on THEN t.ins[0].pos + 1 ELSE 0
             b == IF t.ins[1].on THEN t.ins[1].pos + 1 ELSE 0
  <1>1. StateOK(s) /\ txid \in Txid /\ t \in TransferEnvelope
    BY TransferType DEF StateInv
  <1>2. OutputLeaf(t, 0) \in Leaf /\ OutputLeaf(t, 1) \in Leaf
    BY <1>1, EnvelopeParts
  <1>3. /\ new \in Seq(Leaf) /\ Len(new) = 2
        /\ new[1] = OutputLeaf(t, 0) /\ new[2] = OutputLeaf(t, 1)
    BY <1>2
  <1>4. new[1].v = t.outs[0] /\ new[2].v = t.outs[1]
    BY <1>3 DEF OutputLeaf
  <1>5. Extended(s, r, txid, new, Nfs(t))
    BY <1>1, AcceptTransferExtends
  <1> HIDE DEF r, new
  <1>6. l \in Nat
    BY <1>1, LenProperties DEF StateOK
  <1>7. 0 \in Slots /\ 1 \in Slots /\ Slots = {0, 1}
    BY DEF Slots
  <1>8. /\ a \in Pool!Unspent(PoolOf(s)) \cup {0}
        /\ Pool!Worth(PoolOf(s), a) = InValue(t, 0)
        /\ t.ins[0].on => a # 0
    <2>1. CASE t.ins[0].on
      <3>1. /\ t.ins[0].pos + 1 \in Pool!Unspent(PoolOf(s))
            /\ PoolOf(s).notes[t.ins[0].pos + 1] = t.ins[0].leaf.v
            /\ t.ins[0].pos + 1 # 0
        BY <1>7, <2>1, AcceptedInput
      <3> QED
        BY <2>1, <3>1 DEF Pool!Worth, InValue
    <2>2. CASE ~t.ins[0].on
      BY <2>2 DEF Pool!Worth, InValue
    <2> QED
      BY <2>1, <2>2
  <1>9. /\ b \in Pool!Unspent(PoolOf(s)) \cup {0}
        /\ Pool!Worth(PoolOf(s), b) = InValue(t, 1)
        /\ t.ins[1].on => b # 0
    <2>1. CASE t.ins[1].on
      <3>1. /\ t.ins[1].pos + 1 \in Pool!Unspent(PoolOf(s))
            /\ PoolOf(s).notes[t.ins[1].pos + 1] = t.ins[1].leaf.v
            /\ t.ins[1].pos + 1 # 0
        BY <1>7, <2>1, AcceptedInput
      <3> QED
        BY <2>1, <3>1 DEF Pool!Worth, InValue
    <2>2. CASE ~t.ins[1].on
      BY <2>2 DEF Pool!Worth, InValue
    <2> QED
      BY <2>1, <2>2
  <1>10. a = b => a = 0
    <2>1. CASE t.ins[0].on /\ t.ins[1].on
      BY <2>1, AcceptedPair
    <2>2. CASE ~t.ins[0].on
      BY <2>2
    <2>3. CASE ~t.ins[1].on
      BY <2>3
    <2> QED
      BY <2>1, <2>2, <2>3
  <1>11. PoolOf(r).spent = PoolOf(s).spent \cup ({a, b} \ {0})
    <2>1. PoolOf(r).spent = PoolOf(s).spent
            \cup {t.ins[k].pos + 1 : k \in {i \in Slots : t.ins[i].on}}
      BY <1>3, <1>5, TransferSpends
    <2>2. {a, b} \ {0} = {t.ins[k].pos + 1 : k \in {i \in Slots : t.ins[i].on}}
      BY <1>7, <1>8, <1>9
    <2> QED
      BY <2>1, <2>2
  <1> HIDE DEF t, a, b
  <1>12. {l + 1, l + 2} = (Len(s.leaves) + 1)..(Len(s.leaves) + Len(new))
    BY <1>3, <1>6
  <1>13. /\ Pool!Gains(PoolOf(s), PoolOf(r), {l + 1, l + 2})
         /\ \A k \in 1..Len(new) : PoolOf(r).notes[l + k] = new[k].v
    BY <1>1, <1>3, <1>5, <1>12, ExtendedNotes
  <1>14. PoolOf(r).notes[l + 1] = t.outs[0] /\ PoolOf(r).notes[l + 2] = t.outs[1]
    BY <1>3, <1>4, <1>13
  <1>15. InValue(t, 0) + InValue(t, 1) = t.outs[0] + t.outs[1]
    BY AcceptedTransfer, ZenonT(60) DEF Verify, t
  <1>16. /\ l + 1 \in DOMAIN PoolOf(r).notes /\ l + 2 \in DOMAIN PoolOf(r).notes
         /\ l + 1 # l + 2
    BY <1>6, <1>13 DEF Pool!Gains
  <1>17. Pool!Transfer(PoolOf(s), PoolOf(r))
    <2>1. PoolOf(r).notes[l + 1] + PoolOf(r).notes[l + 2]
            = Pool!Worth(PoolOf(s), a) + Pool!Worth(PoolOf(s), b)
      BY <1>8, <1>9, <1>14, <1>15
    <2> DEFINE m == l + 1
               n == l + 2
    <2> HIDE DEF m, n
    <2>2. /\ m \in DOMAIN PoolOf(r).notes /\ n \in DOMAIN PoolOf(r).notes
          /\ m # n
          /\ Pool!Gains(PoolOf(s), PoolOf(r), {m, n})
          /\ PoolOf(r).notes[m] + PoolOf(r).notes[n]
               = Pool!Worth(PoolOf(s), a) + Pool!Worth(PoolOf(s), b)
      BY <1>13, <1>16, <2>1 DEF m, n
    <2> QED
      BY <1>8, <1>9, <1>10, <1>11, <2>2 DEF Pool!Transfer
  <1> QED
    BY <1>17 DEF r

(* One replayed transaction mints, transfers, or leaves the pool alone.    *)
LEMMA ReplayTxStep ==
  ASSUME NEW s, StateInv(s), NEW txid \in Txid,
         NEW r, r = ReplayTx(s, NextBlock(s), txid)
  PROVE  \/ PoolOf(r) = PoolOf(s)
         \/ Pool!Mint(PoolOf(s), PoolOf(r))
         \/ Pool!Transfer(PoolOf(s), PoolOf(r))
  <1>1. StateOK(s)
    BY DEF StateInv
  <1>2. CASE \E v \in Reasons : r = Reject(s, NextBlock(s), txid, v)
    <2>1. SameHistory(s, r)
      BY <1>1, <1>2, RejectLogs DEF Logged
    <2> QED
      BY <2>1, SamePool
  <1>3. CASE txid \in Mints /\ r = AcceptMint(s, NextBlock(s), txid)
    <2>1. CASE Carrier[txid].value # 0
      BY <1>3, <2>1, MintStep
    <2>2. CASE Carrier[txid].value = 0
      <3>1. Verdict(s, NextBlock(s), Carrier[txid]) = "MintUnfunded"
        BY <1>3, <2>2 DEF Verdict, Mints
      <3>2. r = Reject(s, NextBlock(s), txid, "MintUnfunded")
        BY <3>1 DEF ReplayTx, Reasons
      <3> QED
        BY <1>2, <3>2 DEF Reasons
    <2> QED
      BY <2>1, <2>2
  <1>4. CASE /\ txid \in Transfers
             /\ Verdict(s, NextBlock(s), Carrier[txid]) = "accept"
             /\ r = AcceptTransfer(s, NextBlock(s), txid)
    BY <1>4, TransferStep
  <1>5. CASE r = s
    BY <1>5
  <1> QED
    BY <1>2, <1>3, <1>4, <1>5, ReplayTxCases

-----------------------------------------------------------------------------

File == PoolOf(disk)
Copy == [p \in Procs |-> PoolOf(mem[p])]

(* What a change of one command's State does to the pools.                 *)
LEMMA CopySet ==
  ASSUME MemOK, NEW p \in Procs, NEW x, mem' = [mem EXCEPT ![p] = x]
  PROVE  Copy' = [Copy EXCEPT ![p] = PoolOf(x)]
  BY DEF MemOK, Copy

LEMMA LeaveDrops ==
  ASSUME MemOK, NEW p \in Procs, NEW end, Leave(p, end)
  PROVE  Copy' = [Copy EXCEPT ![p] = Pool!Empty]
  <1>1. mem' = [mem EXCEPT ![p] = Fresh]
    BY DEF Leave
  <1>2. Copy' = [Copy EXCEPT ![p] = PoolOf(Fresh)]
    BY <1>1, CopySet
  <1> QED
    BY <1>2, FreshPool

LEMMA StepPool ==
  ASSUME IInv, NEW p \in Procs, Step(p)
  PROVE  Pool!Next \/ UNCHANGED <<File, Copy>>
  <1>1. StateInv(mem[p]) /\ MemOK
    BY DEF IInv, MemOK
  <1>2. Copy[p] = PoolOf(mem[p])
    BY DEF Copy
  <1>3. ASSUME UNCHANGED <<disk, mem>> PROVE UNCHANGED <<File, Copy>>
    BY <1>3 DEF File, Copy
  <1>4. ASSUME UNCHANGED disk PROVE UNCHANGED File
    BY <1>4 DEF File
  <1>5. ASSUME UNCHANGED disk, Copy' = [Copy EXCEPT ![p] = Pool!Empty]
        PROVE  Pool!Next
    <2>1. Pool!Drop(p)
      BY <1>4, <1>5 DEF Pool!Drop, File, Copy
    <2> QED
      BY <2>1 DEF Pool!Next
  <1>6. ASSUME Quit(p) PROVE Pool!Next
    BY <1>1, <1>5, <1>6, LeaveDrops DEF Quit
  <1>7. CASE Launch(p)
    <2>1. Copy' = [Copy EXCEPT ![p] = File] /\ UNCHANGED File
      BY <1>1, <1>4, <1>7, CopySet DEF Launch, File
    <2>2. Pool!Load(p)
      BY <2>1 DEF Pool!Load, File, Copy
    <2> QED
      BY <2>2 DEF Pool!Next
  <1>8. CASE CheckActivation(p) \/ ReadTip(p) \/ StartBlock(p) \/ FetchTxid(p)
               \/ Recheck(p)
    BY <1>3, <1>8 DEF CheckActivation, ReadTip, StartBlock, FetchTxid, Recheck
  <1>9. CASE WrongChain(p) \/ StoredTipMissing(p) \/ BlockMissing(p)
               \/ BlockChanged(p)
    BY <1>6, <1>9 DEF WrongChain, StoredTipMissing, BlockMissing, BlockChanged
  <1>10. CASE CheckStored(p)
    <2>1. UNCHANGED disk
      BY <1>10 DEF CheckStored
    <2>2. CASE mem' = [mem EXCEPT ![p] = Fresh]
      <3>1. Copy' = [Copy EXCEPT ![p] = Pool!Empty]
        BY <1>1, <2>2, CopySet, FreshPool
      <3> QED
        BY <1>5, <2>1, <3>1
    <2>3. CASE mem' = [mem EXCEPT ![p] = mem[p]]
      <3>1. mem' = [mem EXCEPT ![p] = mem[p]] /\ Copy' = [Copy EXCEPT ![p] = Copy[p]]
        BY <1>1, <1>2, <2>3, CopySet
      <3>2. Copy' = Copy
        BY <3>1 DEF Copy
      <3> QED
        BY <1>4, <2>1, <3>2
    <2> QED
      BY <1>10, <2>2, <2>3 DEF CheckStored
  <1>11. CASE ReplayNext(p)
    <2> DEFINE x == ReplayTx(mem[p], NextHeight(p), Head(todo[p]))
    <2>1. todo[p] \in Seq(Txid) /\ todo[p] # <<>>
      BY <1>11 DEF ReplayNext, IInv, ControlOK
    <2>2. Head(todo[p]) \in Txid
      BY <2>1, HeadTailProperties
    <2>3. x = ReplayTx(mem[p], NextBlock(mem[p]), Head(todo[p]))
      BY DEF NextHeight, NextBlock
    <2>4. mem' = [mem EXCEPT ![p] = x] /\ UNCHANGED disk
      BY <1>11 DEF ReplayNext
    <2> HIDE DEF x
    <2>5. Copy' = [Copy EXCEPT ![p] = PoolOf(x)] /\ UNCHANGED File
      BY <1>1, <1>4, <2>4, CopySet
    <2>6. CASE PoolOf(x) = PoolOf(mem[p])
      <3>1. Copy' = Copy
        BY <1>2, <2>5, <2>6 DEF Copy
      <3> QED
        BY <2>5, <3>1
    <2>7. CASE Pool!Mint(PoolOf(mem[p]), PoolOf(x))
                 \/ Pool!Transfer(PoolOf(mem[p]), PoolOf(x))
      <3>1. Copy'[p] = PoolOf(x)
        BY <2>5 DEF Copy
      <3>2. Pool!Mint(Copy[p], Copy'[p]) \/ Pool!Transfer(Copy[p], Copy'[p])
        BY <1>2, <2>7, <3>1
      <3>3. Copy' = [Copy EXCEPT ![p] = Copy'[p]]
        BY <2>5, <3>1
      <3>4. Pool!Advance(p)
        BY <2>5, <3>2, <3>3 DEF Pool!Advance, File, Copy
      <3> QED
        BY <3>4 DEF Pool!Next
    <2> QED
      BY <1>1, <2>2, <2>3, <2>6, <2>7, ReplayTxStep
  <1>12. CASE FinishBlock(p)
    <2> DEFINE x == EndBlock(mem[p], NextHeight(p), want[p])
    <2>1. mem' = [mem EXCEPT ![p] = x] /\ UNCHANGED disk
      BY <1>12 DEF FinishBlock
    <2>2. NextHeight(p) = NextBlock(mem[p]) /\ StateOK(mem[p])
      BY <1>1 DEF NextHeight, NextBlock, StateInv
    <2>3. SameHistory(mem[p], x)
      BY <2>2, EndBlockEnds DEF BlockEnded
    <2> HIDE DEF x
    <2>4. PoolOf(x) = PoolOf(mem[p])
      BY <2>3, SamePool
    <2>5. Copy' = [Copy EXCEPT ![p] = PoolOf(x)]
      BY <1>1, <2>1, CopySet
    <2>6. Copy' = Copy
      BY <1>2, <2>4, <2>5 DEF Copy
    <2> QED
      BY <1>4, <2>1, <2>6
  <1>13. CASE Save(p)
    <2>1. Copy' = [Copy EXCEPT ![p] = Pool!Empty]
      BY <1>1, <1>13, LeaveDrops DEF Save
    <2>2. File' = Copy[p]
      BY <1>2, <1>13 DEF Save, File
    <2>3. Pool!Store(p)
      BY <2>1, <2>2 DEF Pool!Store, File, Copy
    <2> QED
      BY <2>3 DEF Pool!Next
  <1> QED
    BY <1>7, <1>8, <1>9, <1>10, <1>11, <1>12, <1>13 DEF Step

LEMMA NextPool ==
  IInv /\ [Next]_vars => [Pool!Next]_<<File, Copy>>
  <1> SUFFICES ASSUME IInv, [Next]_vars
               PROVE  Pool!Next \/ UNCHANGED <<File, Copy>>
    OBVIOUS
  <1>1. CASE Mine \/ Disconnect \/ UNCHANGED vars
    BY <1>1 DEF Mine, Disconnect, vars, local, File, Copy
  <1>2. CASE \E p \in Procs : Step(p)
    BY <1>2, StepPool
  <1>3. CASE \E p \in Procs : Fail(p)
    <2>1. PICK p \in Procs : Fail(p)
      BY <1>3
    <2>2. Copy' = [Copy EXCEPT ![p] = Pool!Empty] /\ File' = File
      BY <2>1, LeaveDrops DEF Fail, IInv, File
    <2>3. Pool!Drop(p)
      BY <2>2 DEF Pool!Drop, File, Copy
    <2> QED
      BY <2>3 DEF Pool!Next
  <1> QED
    BY <1>1, <1>2, <1>3 DEF Next

LEMMA InitPool == Init => Pool!Init
  BY FreshPool DEF Init, Pool!Init

(* Commands that sync from a chain that moves under them do to state.json  *)
(* and to their copies only what the abstract pool allows: notes appear by *)
(* funded mints, and by transfers of unspent notes for as much.            *)
THEOREM Refinement == Spec => ImplementsPool
  <1>1. Init => Pool!Init
    BY InitPool
  <1>2. IInv /\ [Next]_vars => [Pool!Next]_<<PoolOf(disk), [p \in Procs |-> PoolOf(mem[p])]>>
    BY NextPool DEF File, Copy
  <1> QED
    BY <1>1, <1>2, Invariant, PTL DEF Spec, ImplementsPool, Pool!Spec
=============================================================================
