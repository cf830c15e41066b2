------------------------------- MODULE Wallet -------------------------------
(***************************************************************************)
(* A wallet file and the commands that work on it: scan, send (and redeem)  *)
(* and unlock, over a chain that grows, reorganises and forgets mempool     *)
(* transactions.                                                            *)
(*                                                                          *)
(* Every command but unlock first syncs; the state it gets is the replay of *)
(* the chain of that moment, which Indexer shows of sync (Faithful) while   *)
(* no reorganisation falls into it.  Only then it opens the wallet, and     *)
(* holds the file's lock until it ends.  The file is written in one piece   *)
(* at the end of scan, of send and of unlock.                               *)
(***************************************************************************)
EXTENDS Carriers, FiniteSets, SequencesExt

CONSTANTS
  Procs,          \* commands
  Foreign,        \* mints that may be mined, some of them to this wallet
  Own,            \* their seeds, if to this wallet
  Operator,       \* redeem by the operator itself: pays and burns its own note
  Amount,         \* what a send pays
  Opening,        \* the chain at the start, a sequence of blocks
  Activation, WindowW, KMin, RetainExtra,               \* as in Replay
  KWallet,        \* K_WALLET
  UnlockForce,    \* unlock --force is used
  Faults,         \* "lost" replies, "crash" before a save, "evict"ed and
                  \* "return"ing carriers, mints that are "remine"d, a "busy"
                  \* server's error replies about carriers it knows
  MaxTx,          \* bound: transfers built
  MaxHeight,      \* bound: blocks of the chain
  MaxDropped      \* bound: blocks that reorganisations disconnect, in all

Tx == [id : Nat, env : Envelope]
NoTx == [id |-> 0, env |-> {}]

R == INSTANCE Replay WITH
       Txid <- Tx, Carrier <- [t \in Tx |-> t.env], BlockId <- {0},
       MaxRejections <- 1

(* Dummy inputs are random: no mint pays to the note of one.  All transfers *)
(* are this wallet's own, whose file is empty at the start.                 *)
PlainMints ==
  {t \in Tx : t.env.kind = "mint" /\ \A k \in 1..MaxTx : t.env.seed # <<"dummy", k>>}

ASSUME WalletConstants ==
  /\ Activation \in Nat \ {0}
  /\ {WindowW, RetainExtra, Amount} \subseteq Nat
  /\ {KMin, KWallet} \subseteq Nat \ {0}
  /\ Own \subseteq Source
  /\ {<<"body", k>> : k \in 1..MaxTx} \cup {<<"dummy", k>> : k \in 1..MaxTx} \subseteq Source
  /\ Foreign \subseteq PlainMints /\ Opening \in Seq(Seq(PlainMints))
  /\ {Operator, UnlockForce} \subseteq BOOLEAN
  /\ {MaxTx, MaxDropped} \subseteq Nat
  /\ Faults \subseteq {"lost", "crash", "evict", "return", "remine", "busy"}

VARIABLES
  chain,      \* blocks from activation on, each a sequence of transactions
  mempool,    \* this wallet's carriers the network knows, unconfirmed
  gone,       \* carriers the mempools forgot; a peer may still have them
  orphans,    \* mints of disconnected blocks
  dropped,    \* blocks disconnected so far
  built,      \* transfers built so far
  stored,     \* replayed height of state.json
  file,       \* the wallet file
  pc,         \* what each command does next
  view,       \* the state it replayed
  tx          \* the carrier it built, or is about to release

network == <<chain, mempool, gone, orphans, dropped>>
vars == <<network, built, stored, file, pc, view, tx>>

Height == Activation - 1 + Len(chain)
Mined == UNION {Range(chain[k]) : k \in DOMAIN chain}

(* This wallet's carriers that the network knows.                          *)
Published == mempool \cup {t \in Mined : t.env.kind = "transfer"}

-----------------------------------------------------------------------------
(* The state a sync replays.                                               *)

ReplayBlock(s, txs) ==
  LET h == s.replayed_height + 1
      replay(acc, t) == R!ReplayTx(acc, h, t)
  IN  R!EndBlock(FoldLeft(replay, s, txs), h, <<>>)

Replayed(blocks) == FoldLeft(ReplayBlock, R!Fresh, blocks)

-----------------------------------------------------------------------------
(* Notes.  A transfer of this wallet pays its change, output 1, to itself;  *)
(* the operator redeeming its own balance pays output 0 to itself as well.  *)

Note == [leaf : Leaf, pos : Nat, source_txid : Tx, spent : BOOLEAN,
         locked_by : Tx \cup {NoTx}, lock_anchor : Nat]
File == [notes : Seq(Note), sent : SUBSET (Tx \X Slots),
         scanned_events : Nat, scanned_txid : Tx \cup {NoTx}]

OwnNullifier(n) == <<n.leaf.src, n.leaf.j, n.pos>>
Unlocked(n) == [n EXCEPT !.locked_by = NoTx, !.lock_anchor = 0]

FreshNote(e, leaf, j, burned) ==
  [leaf |-> leaf, pos |-> e.pos + j, source_txid |-> e.txid, spent |-> burned,
   locked_by |-> NoTx, lock_anchor |-> 0]

(* The notes of an event that decrypt under this wallet's keys, in order.   *)
Received(e) ==
  LET env == e.txid.env
      change == <<FreshNote(e, OutputLeaf(env, 1), 1, FALSE)>>
  IN  IF env.kind = "mint"
      THEN IF env.seed \in Own THEN <<FreshNote(e, MintLeaf(env), 0, FALSE)>>
                                ELSE <<>>
      ELSE IF Operator
      THEN <<FreshNote(e, OutputLeaf(env, 0), 0, TRUE)>> \o change
      ELSE change

AllReceived(events) == FlattenSeq([i \in DOMAIN events |-> Received(events[i])])

-----------------------------------------------------------------------------
(* scan.                                                                   *)

Anchored(f, s) ==
  /\ f.scanned_events \in DOMAIN s.events
  /\ s.events[f.scanned_events].txid = f.scanned_txid

(* Mistaken variant: the length of the history is all that is compared.    *)
RestartIfShorter(f, s) ==
  IF f.scanned_events > Len(s.events)
  THEN [f EXCEPT !.notes = <<>>, !.sent = {}, !.scanned_events = 0]
  ELSE f

(* History changed under the wallet: rescan from activation.               *)
Restart(f, s) ==
  IF f.scanned_events > 0 /\ ~Anchored(f, s)
  THEN [f EXCEPT !.notes = <<>>, !.sent = {}, !.scanned_events = 0]
  ELSE f

(* Notes whose leaf is no longer the replayed one are dropped, and all      *)
(* events read again.                                                       *)
DropStale(f, s) ==
  LET keep(notes, n) == IF Enters(s.leaves, n) THEN Append(notes, n) ELSE notes IN
  IF \A n \in Range(f.notes) : Enters(s.leaves, n) THEN f
  ELSE [f EXCEPT !.notes = FoldLeft(keep, <<>>, f.notes), !.scanned_events = 0]

(* Mistaken variant: a note that is known already is recorded again.       *)
RecordAgain(notes, n) == IF n.leaf.v = 0 THEN notes ELSE Append(notes, n)

(* Unless it is empty or known, by position or by source and output index.  *)
Record(notes, n) ==
  IF \/ n.leaf.v = 0
     \/ \E o \in Range(notes) :
          \/ o.pos = n.pos
          \/ o.source_txid = n.source_txid /\ o.leaf.j = n.leaf.j
  THEN notes
  ELSE Append(notes, n)

ReadEvents(f, s) ==
  LET events == SubSeq(s.events, f.scanned_events + 1, Len(s.events))
      notes == FoldLeft(Record, f.notes, AllReceived(events))
      mine(t) == \E n \in Range(notes) : OwnNullifier(n) \in Nfs(t.env)
      spends == {t \in {e.txid : e \in Range(events)} :
                   t.env.kind = "transfer" /\ mine(t)}
  IN [f EXCEPT !.notes = notes,
               !.sent = @ \cup (spends \X Slots),
               !.scanned_events = Len(s.events),
               !.scanned_txid = IF s.events = <<>> THEN NoTx
                                ELSE Last(s.events).txid]

(* The anchor window of a lock has passed.                                 *)
LapsedEarly(n, s) ==
  n.locked_by # NoTx /\ s.replayed_height + KMin > n.lock_anchor
LapsedNever(n, s) == FALSE
Lapsed(n, s) ==
  n.locked_by # NoTx /\ s.replayed_height > n.lock_anchor + WindowW

UpdateNote(n, s) ==
  IF OwnNullifier(n) \in s.nullifiers THEN [Unlocked(n) EXCEPT !.spent = TRUE]
  ELSE IF Lapsed(n, s) THEN Unlocked(n)
  ELSE n

EachNote(f, Op(_)) ==
  [f EXCEPT !.notes = [i \in DOMAIN f.notes |-> Op(f.notes[i])]]

UpdateNotes(f, s) == EachNote(f, LAMBDA n : UpdateNote(n, s))

Scan(f, s) == UpdateNotes(ReadEvents(DropStale(Restart(f, s), s), s), s)

-----------------------------------------------------------------------------
(* build_transfer: the anchor, the inputs and the envelope.                *)

(* Mistaken variant: the anchor is the newest height.                      *)
AnchorNewest(s) == s.replayed_height
HAnchor(s) ==
  IF s.replayed_height + 1 >= KWallet THEN s.replayed_height + 1 - KWallet ELSE 0

Candidates(f, s) ==
  {n \in Range(f.notes) : /\ ~n.spent /\ n.locked_by = NoTx
                          /\ n.pos < s.leaf_counts[HAnchor(s)]}

Largest(notes) == {n \in notes : \A m \in notes : m.leaf.v <= n.leaf.v}

Total(in) ==
  IF Len(in) = 1 THEN in[1].leaf.v ELSE in[1].leaf.v + in[2].leaf.v

(* The largest candidate, and the next one if it does not cover the amount. *)
Inputs(f, s) ==
  LET all == Candidates(f, s)
      one == {<<a>> : a \in Largest(all)}
      two == UNION {{<<a, b>> : b \in Largest(all \ {a})} : a \in Largest(all)}
  IN {in \in one : Total(in) >= Amount}
     \cup {in \in two : in[1].leaf.v < Amount /\ Total(in) >= Amount}

Dummy(n) == [on |-> FALSE, leaf |-> [src |-> <<"dummy", n>>, j |-> 0, v |-> 0],
             pos |-> 0]
Enabled(note) == [on |-> TRUE, leaf |-> note.leaf, pos |-> note.pos]

Transfer(n, s, in) ==
  [id |-> n,
   env |-> [kind |-> "transfer", body |-> <<"body", n>>, anchor |-> HAnchor(s),
            root |-> s.roots[HAnchor(s)],
            ins |-> [i \in Slots |-> IF i < Len(in) THEN Enabled(in[i + 1])
                                                   ELSE Dummy(n)],
            outs |-> [j \in Slots |-> IF j = 0 THEN Amount ELSE Total(in) - Amount]]]

Spends(t, n) == OwnNullifier(n) \in Nfs(t.env)
Locked(t, n) == [n EXCEPT !.locked_by = t, !.lock_anchor = t.env.anchor]

-----------------------------------------------------------------------------
(* The commands.  A command holds the wallet's lock from scan to its end.   *)

(* Mistaken variant: the lock file is not locked.                          *)
AlwaysFree == TRUE
Free == \A p \in Procs : pc[p] \in {"idle", "synced"}

Goto(p, end) == pc' = [pc EXCEPT ![p] = end]

(* sync fails while the chain is shorter than the stored state.            *)
CanSync(p) == pc[p] = "idle" /\ Height >= stored

Sync(p) ==
  /\ CanSync(p)
  /\ stored' = Height
  /\ view' = [view EXCEPT ![p] = Replayed(chain)]
  /\ Goto(p, "synced")
  /\ UNCHANGED <<network, built, file, tx>>

OpenAndScan(p) ==
  /\ pc[p] = "synced" /\ Free
  /\ file' = Scan(file, view[p])
  /\ Goto(p, "scanned")
  /\ UNCHANGED <<network, built, stored, view, tx>>

BuildTransfer(p) ==
  /\ pc[p] = "scanned"
  /\ built < MaxTx
  /\ HAnchor(view[p]) \in DOMAIN view[p].roots
  /\ \E in \in Inputs(file, view[p]) :
       /\ \A n \in Range(in) : /\ Enters(view[p].leaves, n)
                               /\ OwnNullifier(n) \notin view[p].nullifiers
       /\ tx' = [tx EXCEPT ![p] = Transfer(built + 1, view[p], in)]
  /\ built' = built + 1
  /\ Goto(p, "built")
  /\ UNCHANGED <<network, stored, file, view>>

Relay(t) ==
  /\ mempool' = mempool \cup {t}
  /\ UNCHANGED <<chain, gone, orphans, dropped>>

Broadcast(p) ==
  /\ pc[p] = "built"
  /\ Relay(tx[p])
  /\ Goto(p, "published")
  /\ UNCHANGED <<built, stored, file, view, tx>>

(* End of a command: the view and the carrier are forgotten.               *)
End(p) ==
  /\ Goto(p, "idle")
  /\ view' = [view EXCEPT ![p] = R!Fresh]
  /\ tx' = [tx EXCEPT ![p] = NoTx]

(* The server relays the carrier and answers with an error.                *)
BroadcastLost(p) ==
  /\ "lost" \in Faults
  /\ pc[p] = "built"
  /\ Relay(tx[p])
  /\ End(p)
  /\ UNCHANGED <<built, stored, file>>

(* Mistaken variant: only the first input is locked.                       *)
LockFirst(p) ==
  /\ pc[p] = "published"
  /\ file' = EachNote(file, LAMBDA n :
       IF OwnNullifier(n) = Nf(tx[p].env, 0) THEN Locked(tx[p], n) ELSE n)
  /\ End(p)
  /\ UNCHANGED <<network, built, stored>>

LockInputs(p) ==
  /\ pc[p] = "published"
  /\ file' = EachNote(file, LAMBDA n :
       IF Spends(tx[p], n) THEN Locked(tx[p], n) ELSE n)
  /\ End(p)
  /\ UNCHANGED <<network, built, stored>>

(* scan ends; the wallet is locked; no inputs; chain trouble; a crash.      *)
Quit(p) ==
  /\ pc[p] \in {"synced", "scanned", "built", "unlock"}
  /\ End(p)
  /\ UNCHANGED <<network, built, stored, file>>

CrashUnsaved(p) ==
  /\ "crash" \in Faults
  /\ pc[p] = "published"
  /\ End(p)
  /\ UNCHANGED <<network, built, stored, file>>

(* Any error reply lets unlock go on: that the server does not know the     *)
(* carrier, or that it is warming up or failed otherwise.                   *)
AskCarrier(p, t) ==
  /\ pc[p] = "idle" /\ Free
  /\ UnlockForce \/ t \notin Published \/ "busy" \in Faults
  /\ Goto(p, "unlock")
  /\ tx' = [tx EXCEPT ![p] = t]
  /\ UNCHANGED <<network, built, stored, file, view>>

Unlock(p) ==
  /\ pc[p] = "unlock"
  /\ file' = EachNote(file, LAMBDA n :
       IF n.locked_by = tx[p] THEN Unlocked(n) ELSE n)
  /\ End(p)
  /\ UNCHANGED <<network, built, stored>>

Step(p) ==
  \/ Sync(p) \/ OpenAndScan(p) \/ BuildTransfer(p)
  \/ Broadcast(p) \/ BroadcastLost(p) \/ LockInputs(p)
  \/ Quit(p) \/ CrashUnsaved(p)
  \/ \E t \in {n.locked_by : n \in Range(file.notes)} \ {NoTx} : AskCarrier(p, t)
  \/ Unlock(p)

-----------------------------------------------------------------------------
(* The network.                                                            *)

Minable ==
  mempool \cup (Foreign \ (Mined \cup IF "remine" \in Faults THEN {} ELSE orphans))

Mine(txs) ==
  /\ Height < MaxHeight
  /\ chain' = Append(chain, txs)
  /\ mempool' = mempool \ Range(txs)
  /\ UNCHANGED <<gone, orphans, dropped, built, stored, file, pc, view, tx>>

MineAny == Mine(<<>>) \/ \E t \in Minable : Mine(<<t>>)

(* A reorganisation takes the last block; its carriers are unconfirmed.     *)
Disconnect ==
  /\ dropped < MaxDropped /\ Len(chain) > Len(Opening)
  /\ dropped' = dropped + 1
  /\ chain' = Front(chain)
  /\ LET back == Range(Last(chain)) IN
       /\ mempool' = mempool \cup {t \in back : t.env.kind = "transfer"}
       /\ orphans' = orphans \cup {t \in back : t.env.kind = "mint"}
  /\ UNCHANGED <<gone, built, stored, file, pc, view, tx>>

Evict(t) ==
  /\ "evict" \in Faults
  /\ mempool' = mempool \ {t} /\ gone' = gone \cup {t}
  /\ UNCHANGED <<chain, orphans, dropped, built, stored, file, pc, view, tx>>

Return(t) ==
  /\ "return" \in Faults
  /\ mempool' = mempool \cup {t} /\ gone' = gone \ {t}
  /\ UNCHANGED <<chain, orphans, dropped, built, stored, file, pc, view, tx>>

-----------------------------------------------------------------------------
Init ==
  /\ chain = Opening
  /\ mempool = {} /\ gone = {} /\ orphans = {} /\ dropped = 0 /\ built = 0
  /\ stored = Activation - 1
  /\ file = [notes |-> <<>>, sent |-> {}, scanned_events |-> 0, scanned_txid |-> NoTx]
  /\ pc = [p \in Procs |-> "idle"]
  /\ view = [p \in Procs |-> R!Fresh]
  /\ tx = [p \in Procs |-> NoTx]

Next ==
  \/ \E p \in Procs : Step(p)
  \/ MineAny
  \/ Disconnect
  \/ \E t \in mempool : Evict(t)
  \/ \E t \in gone : Return(t)

Spec == Init /\ [][Next]_vars

(* Blocks keep coming; commands end, and some of them get to scan.  (The    *)
(* first conjunct of the quantified formula is SF_vars(Sync(p)), with the    *)
(* guard in place of ENABLED, which TLC would evaluate slowly.)              *)
FairSpec ==
  /\ Spec
  /\ WF_vars(MineAny)
  /\ \A p \in Procs : /\ []<>CanSync(p) => []<><<Sync(p)>>_vars
                      /\ SF_vars(OpenAndScan(p))
                      /\ WF_vars(Quit(p)) /\ WF_vars(LockInputs(p))

-----------------------------------------------------------------------------
(* Properties.                                                             *)

TypeOK ==
  /\ mempool \cup gone \cup orphans \subseteq Tx
  /\ dropped \in 0..MaxDropped /\ built \in 0..MaxTx /\ stored \in Nat
  /\ file \in File
  /\ pc \in [Procs -> {"idle", "synced", "scanned", "built", "published", "unlock"}]
  /\ \A p \in Procs : tx[p] \in Tx \cup {NoTx} /\ R!StateOK(view[p])
  /\ Cardinality({p \in Procs : pc[p] \notin {"idle", "synced"}}) <= 1

(* What a scan leaves in the file is what its history says: one note for    *)
(* every leaf of value that is this wallet's, spent if its nullifier was    *)
(* published or its payout burned it, and a record of every own transfer;   *)
(* as long as no more than one block was disconnected, see README.          *)
ScanExact ==
  dropped <= 1 => \A p \in Procs : pc[p] = "scanned" =>
    LET s == view[p]
        owned == {n \in Range(AllReceived(s.events)) : n.leaf.v > 0}
        spent(n) == n.spent \/ OwnNullifier(n) \in s.nullifiers
    IN  /\ {<<n.leaf, n.pos, n.source_txid, n.spent>> : n \in Range(file.notes)}
              = {<<n.leaf, n.pos, n.source_txid, spent(n)>> : n \in owned}
        /\ Len(file.notes) = Cardinality(owned)
        /\ file.sent = {e.txid : e \in {d \in Range(s.events) :
                                       d.txid.env.kind = "transfer"}} \X Slots

(* No scan leaves a note the wallet could not spend: every one is a leaf of *)
(* the replayed tree, none is listed twice, and none whose nullifier was    *)
(* published counts as unspent.  Mints may come back after a                *)
(* reorganisation in any order.                                             *)
NoPhantomNotes ==
  \A p \in Procs : pc[p] = "scanned" =>
    /\ \A n \in Range(file.notes) :
         /\ Enters(view[p].leaves, n)
         /\ OwnNullifier(n) \in view[p].nullifiers => n.spent
    /\ \A i, k \in DOMAIN file.notes :
         i # k => file.notes[i].pos # file.notes[k].pos

(* "Refuses while the carrier is still known to the chain unless forced"    *)
(* (unlock): a command that is about to release the notes of a carrier was   *)
(* not told so by a server that has the carrier.                             *)
UnlockRefuses ==
  ~UnlockForce => \A p \in Procs : pc[p] = "unlock" => tx[p] \notin Published

(* Replay may still accept the carrier in the next block.                  *)
Live(t) == t \in mempool /\ Height < t.env.anchor + WindowW

(* An input of a carrier that may still be accepted is locked by it, or was *)
(* seen spent, but for the moment between the broadcast and the save.       *)
LockedWhilePublished ==
  \A t \in mempool, n \in Range(file.notes) :
    Live(t) /\ Spends(t, n) =>
      \/ n.locked_by = t \/ n.spent
      \/ \E p \in Procs : pc[p] = "published" /\ tx[p] = t

(* The wallet never publishes a carrier while another one of its own that   *)
(* spends the same note is accepted or may still be.                        *)
NoRivals ==
  LET replayed == {e.txid : e \in Range(Replayed(chain).events)} IN
  \A t \in mempool, u \in Published :
    /\ t # u /\ Nfs(t.env) \cap Nfs(u.env) # {}
    /\ Live(t)
    => ~Live(u) /\ u \notin replayed

(* A carrier whose notes are still there, unspent, is accepted in the next  *)
(* block, even after the last block was replaced: that is what K_WALLET is  *)
(* greater than K_MIN for.                                                  *)
Lands ==
  LET s == Replayed(chain) IN
  dropped <= KWallet - KMin => \A t \in mempool :
    /\ Live(t)
    /\ IsPrefix(t.env.root, s.leaves)
    /\ Nfs(t.env) \cap s.nullifiers = {}
    => R!TransferVerdict(s, Height + 1, t.env) = "accept"

(* Locks whose window ends within the bound all come to their end: the note *)
(* is spent or released.                                                    *)
Held ==
  \E n \in Range(file.notes) :
    n.locked_by # NoTx /\ n.lock_anchor + WindowW < MaxHeight
LocksEnd == Held ~> ~Held

=============================================================================
