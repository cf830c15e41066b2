------------------------------- MODULE Indexer -------------------------------
(***************************************************************************)
(* Commands that sync the shielded state with a chain that grows and        *)
(* reorganises under them.                                                  *)
(*                                                                          *)
(* A command (a member of Procs) runs synced_state: it loads state.json,    *)
(* checks the server's chain, replays block after block and saves the       *)
(* result.  Every request to the server is a step of its own, so the chain  *)
(* may move between any two of them.  state.json has no lock: several       *)
(* commands may run, each on its own copy of the state.                     *)
(*                                                                          *)
(* A block hash is the sequence of blocks up to it, since it commits to its *)
(* ancestors.  chain[h] is the block at height h.                           *)
(***************************************************************************)
EXTENDS Replay

CONSTANTS
  Procs,            \* commands that may run at the same time
  ActivationHash,   \* hash of block Activation - 1, fixed at deploy time
  ReorgDuringSync,  \* FALSE: the chain only reorganises while nobody syncs
  MaxHeight,        \* bound: height of the longest chain
  TxLists,          \* bound: what a block may hold, in block order
  MaxReorgs         \* bound: reorganisations of a behaviour

ASSUME IndexerConstants ==
  /\ ActivationHash \in Seq(Block) /\ Len(ActivationHash) = Initial
  /\ ReorgDuringSync \in BOOLEAN
  /\ TxLists \subseteq Seq(Txid)
  /\ {MaxHeight, MaxReorgs} \subseteq Nat

VARIABLES
  chain,    \* the server's active chain
  reorgs,   \* reorganisations so far
  disk,     \* state.json; Fresh stands for a missing file (load_state)
  pc,       \* what each command does next, or how it ended
  mem,      \* each command's State
  tip,      \* the tip height it read
  want,     \* hash of the block it fetches
  todo      \* transactions fetched and not yet replayed

local == <<pc, mem, tip, want, todo>>
vars == <<chain, reorgs, disk, local>>

-----------------------------------------------------------------------------
(* The chain and its server.                                               *)

Hash(h) == SubSeq(chain, 1, h)
OnChain(h, hash) == h <= Len(chain) /\ Hash(h) = hash
ChainTxs == UNION {{chain[h].txs[i] : i \in DOMAIN chain[h].txs} :
                     h \in DOMAIN chain}

Mine ==
  /\ Len(chain) < MaxHeight
  /\ \E id \in BlockId, txs \in TxLists :
       /\ \A i \in DOMAIN txs : txs[i] \notin ChainTxs
       /\ chain' = Append(chain, [id |-> id, txs |-> txs])
  /\ UNCHANGED <<reorgs, disk, local>>

(* A command that is not running; "failed" marks an end that no rule of the *)
(* code led to, so that liveness can tell it from the others.                *)
Ended == {"idle", "failed"}

(* A reorganisation disconnects blocks; Mine connects the other branch.    *)
Disconnect ==
  /\ reorgs < MaxReorgs
  /\ ReorgDuringSync \/ \A p \in Procs : pc[p] \in Ended
  /\ \E k \in 0..(Len(chain) - 1) : chain' = Hash(k)
  /\ reorgs' = reorgs + 1
  /\ UNCHANGED <<disk, local>>

-----------------------------------------------------------------------------
(* One command: synced_state, sync, replay_block, save.                    *)

PCs == Ended \cup {"activation", "tip", "stored", "loop", "txids", "recheck",
                  "replay"}

Goto(p, l) == pc' = [pc EXCEPT ![p] = l]

(* The command ends and its memory is gone.                                *)
Leave(p, end) ==
  /\ Goto(p, end)
  /\ mem' = [mem EXCEPT ![p] = Fresh]
  /\ tip' = [tip EXCEPT ![p] = 0]
  /\ want' = [want EXCEPT ![p] = <<>>]
  /\ todo' = [todo EXCEPT ![p] = <<>>]

Quit(p) == Leave(p, "idle") /\ UNCHANGED <<chain, reorgs, disk>>

NextHeight(p) == mem[p].replayed_height + 1

Launch(p) ==
  /\ pc[p] \in Ended
  /\ Goto(p, "activation")
  /\ mem' = [mem EXCEPT ![p] = disk]
  /\ UNCHANGED <<chain, reorgs, disk, tip, want, todo>>

CheckActivation(p) ==
  /\ pc[p] = "activation"
  /\ OnChain(Initial, ActivationHash)
  /\ Goto(p, "tip")
  /\ UNCHANGED <<chain, reorgs, disk, mem, tip, want, todo>>

(* Error::WrongChain, or the server has no block at that height.           *)
WrongChain(p) ==
  /\ pc[p] = "activation"
  /\ ~OnChain(Initial, ActivationHash)
  /\ Quit(p)

ReadTip(p) ==
  /\ pc[p] = "tip"
  /\ tip' = [tip EXCEPT ![p] = Len(chain)]
  /\ Goto(p, "stored")
  /\ UNCHANGED <<chain, reorgs, disk, mem, want, todo>>

HasStoredTip(s) == s.replayed_height \in DOMAIN s.block_hashes
StoredTip(s) == s.block_hashes[s.replayed_height]

(* Mistaken variants: a moved tip is ignored; a moved tip rewinds the      *)
(* height and keeps the tree.                                               *)
CheckStoredIgnores(p) ==
  /\ pc[p] = "stored"
  /\ HasStoredTip(mem[p]) => mem[p].replayed_height <= Len(chain)
  /\ Goto(p, "loop")
  /\ UNCHANGED <<chain, reorgs, disk, mem, tip, want, todo>>
CheckStoredRewinds(p) ==
  LET s == mem[p] IN
  /\ pc[p] = "stored"
  /\ HasStoredTip(s) => s.replayed_height <= Len(chain)
  /\ mem' = [mem EXCEPT ![p] =
       IF HasStoredTip(s) /\ Hash(s.replayed_height) # StoredTip(s)
       THEN [s EXCEPT !.replayed_height = Initial] ELSE s]
  /\ Goto(p, "loop")
  /\ UNCHANGED <<chain, reorgs, disk, tip, want, todo>>

(* The stored tip is compared with the chain's block at that height.       *)
CheckStored(p) ==
  LET s == mem[p] IN
  /\ pc[p] = "stored"
  /\ HasStoredTip(s) => s.replayed_height <= Len(chain)
  /\ mem' = [mem EXCEPT ![p] =
       IF HasStoredTip(s) /\ Hash(s.replayed_height) # StoredTip(s)
       THEN Fresh ELSE s]
  /\ Goto(p, "loop")
  /\ UNCHANGED <<chain, reorgs, disk, tip, want, todo>>

(* The server's chain is shorter than the stored state: an RPC error.      *)
StoredTipMissing(p) ==
  /\ pc[p] = "stored"
  /\ HasStoredTip(mem[p]) /\ mem[p].replayed_height > Len(chain)
  /\ Quit(p)

StartBlock(p) ==
  /\ pc[p] = "loop"
  /\ mem[p].replayed_height < tip[p]
  /\ NextHeight(p) <= Len(chain)
  /\ want' = [want EXCEPT ![p] = Hash(NextHeight(p))]
  /\ Goto(p, "txids")
  /\ UNCHANGED <<chain, reorgs, disk, mem, tip, todo>>

(* block_txids: one request per position, until the server says there is   *)
(* no transaction at this one.                                              *)
FetchTxid(p) ==
  LET n == Len(todo[p]) IN
  /\ pc[p] = "txids"
  /\ NextHeight(p) <= Len(chain)
  /\ LET txs == chain[NextHeight(p)].txs IN
     IF n < Len(txs)
     THEN /\ todo' = [todo EXCEPT ![p] = Append(@, txs[n + 1])]
          /\ UNCHANGED pc
     ELSE Goto(p, "recheck") /\ UNCHANGED todo
  /\ UNCHANGED <<chain, reorgs, disk, mem, tip, want>>

(* The block a request asks for is no longer there.                        *)
BlockMissing(p) ==
  /\ \/ pc[p] = "loop" /\ mem[p].replayed_height < tip[p]
     \/ pc[p] = "txids"
  /\ NextHeight(p) > Len(chain)
  /\ Quit(p)

Recheck(p) ==
  /\ pc[p] = "recheck"
  /\ OnChain(NextHeight(p), want[p])
  /\ Goto(p, "replay")
  /\ UNCHANGED <<chain, reorgs, disk, mem, tip, want, todo>>

(* Error::BlockChanged.                                                    *)
BlockChanged(p) ==
  /\ pc[p] = "recheck"
  /\ ~OnChain(NextHeight(p), want[p])
  /\ Quit(p)

ReplayNext(p) ==
  /\ pc[p] = "replay"
  /\ todo[p] # <<>>
  /\ mem' = [mem EXCEPT ![p] = ReplayTx(@, NextHeight(p), Head(todo[p]))]
  /\ todo' = [todo EXCEPT ![p] = Tail(@)]
  /\ UNCHANGED <<chain, reorgs, disk, pc, tip, want>>

FinishBlock(p) ==
  /\ pc[p] = "replay"
  /\ todo[p] = <<>>
  /\ mem' = [mem EXCEPT ![p] = EndBlock(@, NextHeight(p), want[p])]
  /\ want' = [want EXCEPT ![p] = <<>>]
  /\ Goto(p, "loop")
  /\ UNCHANGED <<chain, reorgs, disk, tip, todo>>

(* Mistaken variant: a save never lowers the stored height.                *)
SaveOnlyForward(p) ==
  /\ pc[p] = "loop"
  /\ mem[p].replayed_height >= tip[p]
  /\ disk' = IF mem[p].replayed_height > disk.replayed_height THEN mem[p] ELSE disk
  /\ Leave(p, "idle")
  /\ UNCHANGED <<chain, reorgs>>

Save(p) ==
  /\ pc[p] = "loop"
  /\ mem[p].replayed_height >= tip[p]
  /\ disk' = mem[p]
  /\ Leave(p, "idle")
  /\ UNCHANGED <<chain, reorgs>>

(* Any other failure: a lost connection, a timeout, a kill, a failed write *)
(* of the temporary file.  state.json is left as it was.                    *)
Fail(p) ==
  /\ pc[p] \notin Ended
  /\ Leave(p, "failed")
  /\ UNCHANGED <<chain, reorgs, disk>>

-----------------------------------------------------------------------------

Init ==
  /\ chain = ActivationHash
  /\ reorgs = 0
  /\ disk = Fresh
  /\ pc = [p \in Procs |-> "idle"]
  /\ mem = [p \in Procs |-> Fresh]
  /\ tip = [p \in Procs |-> 0]
  /\ want = [p \in Procs |-> <<>>]
  /\ todo = [p \in Procs |-> <<>>]

Step(p) ==
  \/ Launch(p) \/ CheckActivation(p) \/ WrongChain(p) \/ ReadTip(p)
  \/ CheckStored(p) \/ StoredTipMissing(p) \/ StartBlock(p) \/ FetchTxid(p)
  \/ BlockMissing(p) \/ Recheck(p) \/ BlockChanged(p) \/ ReplayNext(p)
  \/ FinishBlock(p) \/ Save(p)

Next ==
  \/ Mine
  \/ Disconnect
  \/ \E p \in Procs : Step(p) \/ Fail(p)

Spec == Init /\ [][Next]_vars

(* A running command goes on and commands keep being run; blocks keep      *)
(* coming up to MaxHeight.  Reorganisations and failures are never owed.    *)
Fairness == WF_vars(Mine) /\ \A p \in Procs : WF_vars(Step(p))
FairSpec == Spec /\ Fairness

-----------------------------------------------------------------------------
(* Types.                                                                  *)

TypeOK ==
  /\ chain \in Seq(Block)
  /\ reorgs \in Nat
  /\ StateOK(disk)
  /\ pc \in [Procs -> PCs]
  /\ DOMAIN mem = Procs /\ \A p \in Procs : StateOK(mem[p])
  /\ tip \in [Procs -> Nat]
  /\ want \in [Procs -> Seq(Block)]
  /\ todo \in [Procs -> Seq(Txid)]

States == {disk} \cup {mem[p] : p \in Procs}

-----------------------------------------------------------------------------
(* Safety of every state a command holds and of the stored one, at every    *)
(* step and whatever the chain did.                                          *)

(* No accepted history spends a note twice.                                *)
NoDoubleSpend == \A s \in States : NullifiersOnce(s) /\ EachNoteOnce(s)

(* Every accepted input spends a note its own history had created before.  *)
SpendsAreBacked == \A s \in States : SpendsExist(s)

(* No history, not even a mixture of two, makes value of nothing: the vault *)
(* covers every note that can still be spent.                               *)
Solvent == \A s \in States : NoInflation(s)

(* Every retained root can be rebuilt from the leaves (AnchorMismatch).     *)
RootsRebuildable == \A s \in States : RootHistory(s)

(* Every retained root commits to the notes of its height and no others.   *)
RootsByHeight == \A s \in States : CountsMatchHeights(s)

(* Every anchor the next block may use has its root.                       *)
AnchorsRetained == \A s \in States : WindowRetained(s)

-----------------------------------------------------------------------------
(* The abstract pool a State stands for: its leaves are the notes, named by *)
(* their positions from 1, and the positions that accepted transfers spent  *)
(* are the spent ones.  Nullifiers, roots and proofs are how the code keeps *)
(* track of them without knowing which they are.                            *)
PoolOf(s) ==
  [notes |-> [i \in DOMAIN s.leaves |-> s.leaves[i].v],
   spent |-> {InputOf(s, x).pos + 1 : x \in RealInputs(s)}]

Pool == INSTANCE ShieldedPool WITH
  None <- 0, file <- PoolOf(disk), copy <- [p \in Procs |-> PoolOf(mem[p])]

(* However the chain moves under the commands, each of their steps is one   *)
(* the abstract pool allows.                                                 *)
ImplementsPool == Pool!Spec
=============================================================================
