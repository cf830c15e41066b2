------------------------------- MODULE Payouts -------------------------------
(***************************************************************************)
(* The operator's payouts: Wallet::process_payouts against a chain and a    *)
(* mempool that move on their own.                                          *)
(*                                                                          *)
(* A payout request is an accepted transfer whose output 0 burns a note to  *)
(* the operator; it is named by its first nullifier.  The wallet's file is  *)
(* saved at every change, so a crash leaves exactly what the last step      *)
(* wrote.  The file is locked: one run at a time.  The operator may put an   *)
(* older copy of the file back (restore).                                    *)
(***************************************************************************)
EXTENDS Naturals, Sequences, FiniteSets

CONSTANTS
  Requests,    \* requests the operator can decrypt, by their nf[0]
  Bad,         \* those validate_payout refuses: over the burn, dust, script
  Marginal,    \* those whose amount covers the fee or not, as the vault's
               \* coins have it at the time (PayoutBelowFee)
  Strangers,   \* those a stranger's payment to the vault is tagged with
  Bitcoin,     \* mainnet: a run must name the request it pays
  Restores,    \* when an older file may be put back: "never", "settled"
               \* (every payout it lacks is and stays confirmed), "any" time
  Faults,      \* what may go wrong: "lost" broadcasts, "crash"ed runs,
               \* payouts the mempools "evict"
  MaxTx        \* bound: payout transactions built

ASSUME PayoutConstants ==
  /\ {Bad, Marginal, Strangers} \subseteq SUBSET Requests
  /\ Bitcoin \in BOOLEAN /\ Faults \subseteq {"lost", "crash", "evict"}
  /\ Restores \in {"never", "settled", "any"}
  /\ MaxTx \in Nat

Tx == [nf : Requests, n : 1..MaxTx]   \* a payout carrier; n tells them apart
File == [paid : SUBSET Requests, failed : SUBSET Requests, txids : SUBSET Tx]

VARIABLES
  events,     \* the requests of the replayed state, in order
  file,       \* paid_payouts, failed_payouts, payout_txids
  backup,     \* a copy of the file the operator keeps
  mempool,    \* payout transactions the network knows, unconfirmed
  confirmed,  \* payout transactions in the active chain
  evicted,    \* payout transactions the mempools forgot; a peer may not have
  built,      \* transactions built so far
  pc,         \* what the run does next
  todo,       \* requests it has not looked at
  on_chain,   \* requests it found paid in the vault's history
  tx,         \* the payout it is about to broadcast
  refused,    \* history: the requests that were ever refused
  forgotten   \* history: those whose last refusal a restored file lacked

run == <<pc, todo, on_chain, tx>>
network == <<mempool, confirmed, evicted>>
history == <<refused, forgotten>>
vars == <<events, file, backup, network, built, run, history>>

NoTx == [nf |-> {}, n |-> 0]
Known == mempool \cup confirmed
Sent == Known \cup evicted
Elems(seq) == {seq[i] : i \in DOMAIN seq}

-----------------------------------------------------------------------------
(* Replayed requests.                                                      *)

Accept(r) ==
  /\ r \notin Elems(events)
  /\ events' = Append(events, r)
  /\ UNCHANGED <<file, backup, network, built, run, history>>

-----------------------------------------------------------------------------
(* One run.                                                                *)

Begin(requests) ==
  /\ pc = "idle"
  /\ pc' = "history"
  /\ todo' = requests
  /\ UNCHANGED <<events, file, backup, network, built, on_chain, tx, history>>

RunAll == ~Bitcoin /\ events # <<>> /\ Begin(events)
RunOnly(r) == r \in Elems(events) /\ Begin(<<r>>)

(* The vault's history: its payouts, and payments to it with an OP_RETURN. *)
History ==
  {[nf |-> t.nf, height |-> IF t \in confirmed THEN 1 ELSE 0,
    own |-> t \in file.txids, vault |-> TRUE] : t \in Known}
  \cup {[nf |-> r, height |-> 1, own |-> FALSE, vault |-> FALSE] :
          r \in Strangers}

(* Mistaken variant: a payment to the vault counts like one from it.       *)
CountsAnyPayer(e) == e.height > 0 \/ e.own

(* A transaction that spends the vault, and one of this wallet's if it is  *)
(* unconfirmed.                                                             *)
Counts(e) == (e.height > 0 \/ e.own) /\ e.vault

ReadHistory ==
  /\ pc = "history"
  /\ on_chain' = {e.nf : e \in {h \in History : Counts(h)}}
  /\ pc' = "pay"
  /\ UNCHANGED <<events, file, backup, network, built, todo, tx, history>>

Advance == todo' = Tail(todo)
AtRequest(r) == pc = "pay" /\ todo # <<>> /\ r = Head(todo)

(* Mistaken variant: a refusal is forgotten.                               *)
SettledPaid(r) == r \in file.paid
Settled(r) == r \in file.paid \cup file.failed

Pending(r) == AtRequest(r) /\ ~Settled(r)

Skip(r) ==
  /\ AtRequest(r) /\ Settled(r)
  /\ Advance
  /\ UNCHANGED <<events, file, backup, network, built, pc, on_chain, tx, history>>

Found(r) ==
  /\ Pending(r) /\ r \in on_chain
  /\ file' = [file EXCEPT !.paid = @ \cup {r}]
  /\ Advance
  /\ UNCHANGED <<events, backup, network, built, pc, on_chain, tx, history>>

FailPayout(r) ==
  /\ file' = [file EXCEPT !.failed = @ \cup {r}]
  /\ refused' = refused \cup {r} /\ forgotten' = forgotten \ {r}

(* Only the request itself can be refused.                                 *)
Refuse(r) ==
  /\ Pending(r) /\ r \notin on_chain
  /\ r \in Bad \cup Marginal
  /\ FailPayout(r)
  /\ Advance
  /\ UNCHANGED <<events, backup, network, built, pc, on_chain, tx>>

(* Chain trouble or an empty vault: the request stays pending.             *)
Defer(r) ==
  /\ Pending(r) /\ r \notin on_chain /\ r \notin Bad
  /\ Advance
  /\ UNCHANGED <<events, file, backup, network, built, pc, on_chain, tx, history>>

(* A request that passes validate_payout and covers the fee has a carrier. *)
BuildPayout(r) ==
  /\ r \notin Bad
  /\ built < MaxTx
  /\ built' = built + 1
  /\ tx' = [nf |-> r, n |-> built']

(* Mistaken variant: the transaction is sent before the file is saved.     *)
IntendUnsaved(r) ==
  /\ Pending(r) /\ r \notin on_chain
  /\ BuildPayout(r)
  /\ pc' = "broadcast"
  /\ UNCHANGED <<events, file, backup, network, todo, on_chain, history>>

(* Intent and txid on disk before the network sees the transaction.        *)
Intend(r) ==
  /\ Pending(r) /\ r \notin on_chain
  /\ BuildPayout(r)
  /\ file' = [file EXCEPT !.paid = @ \cup {r}, !.txids = @ \cup {tx'}]
  /\ pc' = "broadcast"
  /\ UNCHANGED <<events, backup, network, todo, on_chain, history>>

(* The network has it, whether or not the server's reply was an error.     *)
Broadcast ==
  /\ pc = "broadcast"
  /\ mempool' = mempool \cup {tx}
  /\ tx' = NoTx
  /\ pc' = "pay" /\ Advance
  /\ UNCHANGED <<events, file, backup, confirmed, evicted, built, on_chain, history>>

(* An error and the network does not have it: kept as paid.                *)
BroadcastLost ==
  /\ "lost" \in Faults
  /\ pc = "broadcast"
  /\ tx' = NoTx
  /\ pc' = "pay" /\ Advance
  /\ UNCHANGED <<events, file, backup, network, built, on_chain, history>>

Stop ==
  /\ pc' = "idle"
  /\ todo' = <<>> /\ on_chain' = {} /\ tx' = NoTx
  /\ UNCHANGED <<events, file, backup, network, built, history>>

Finish == pc = "pay" /\ todo = <<>> /\ Stop

(* A failed history or transaction request, or a kill at any moment.       *)
Crash ==
  /\ "crash" \in Faults
  /\ pc # "idle" /\ (pc = "pay" => todo # <<>>)
  /\ Stop

-----------------------------------------------------------------------------
(* The network, and the operator's backups.                                *)

Confirm(t) ==
  /\ t \in mempool
  /\ mempool' = mempool \ {t} /\ confirmed' = confirmed \cup {t}
  /\ UNCHANGED <<events, file, backup, evicted, built, run, history>>

Evict(t) ==
  /\ "evict" \in Faults
  /\ t \in mempool
  /\ mempool' = mempool \ {t} /\ evicted' = evicted \cup {t}
  /\ UNCHANGED <<events, file, backup, confirmed, built, run, history>>

(* A peer that kept the transaction sends it again.                        *)
Return(t) ==
  /\ t \in evicted
  /\ evicted' = evicted \ {t} /\ mempool' = mempool \cup {t}
  /\ UNCHANGED <<events, file, backup, confirmed, built, run, history>>

(* A reorganisation takes a payout out of the chain, back to the mempool.   *)
(* One that a restored file lacks is buried too deep for that.              *)
Unconfirm(t) ==
  /\ Restores = "settled" => t \in file.txids
  /\ t \in confirmed
  /\ confirmed' = confirmed \ {t} /\ mempool' = mempool \cup {t}
  /\ UNCHANGED <<events, file, backup, evicted, built, run, history>>

Backup ==
  /\ Restores # "never" /\ pc = "idle"
  /\ backup' = file
  /\ UNCHANGED <<events, file, network, built, run, history>>

Restore ==
  /\ pc = "idle"
  /\ \/ Restores = "any"
     \/ Restores = "settled" /\ mempool \cup evicted \subseteq backup.txids
  /\ file' = backup
  /\ forgotten' = forgotten \cup (file.failed \ backup.failed)
  /\ UNCHANGED <<events, backup, network, built, run, refused>>

-----------------------------------------------------------------------------

Init ==
  /\ events = <<>>
  /\ file = [paid |-> {}, failed |-> {}, txids |-> {}]
  /\ backup = file
  /\ mempool = {} /\ confirmed = {} /\ evicted = {} /\ built = 0
  /\ pc = "idle" /\ todo = <<>> /\ on_chain = {} /\ tx = NoTx
  /\ refused = {} /\ forgotten = {}

Run ==
  \/ ReadHistory \/ Broadcast \/ Finish
  \/ \E r \in Requests : Skip(r) \/ Found(r) \/ Refuse(r) \/ Intend(r)

Next ==
  \/ RunAll \/ Run \/ BroadcastLost \/ Crash \/ Backup \/ Restore
  \/ \E r \in Requests : Accept(r) \/ RunOnly(r) \/ Defer(r)
  \/ \E t \in Sent : Confirm(t) \/ Evict(t) \/ Return(t) \/ Unconfirm(t)

Spec == Init /\ [][Next]_vars

(* A run goes on; the operator keeps running payouts, for every request by *)
(* its name on mainnet.                                                     *)
FairSpec ==
  /\ Spec
  /\ WF_vars(Run)
  /\ SF_vars(RunAll)
  /\ \A r \in Requests : SF_vars(Bitcoin /\ RunOnly(r))

-----------------------------------------------------------------------------

PCs == {"idle", "history", "pay", "broadcast"}

TypeOK ==
  /\ events \in Seq(Requests)
  /\ file \in File /\ backup \in File
  /\ {mempool, confirmed, evicted} \subseteq SUBSET Tx
  /\ built \in 0..MaxTx
  /\ pc \in PCs
  /\ todo \in Seq(Requests)
  /\ {on_chain, refused, forgotten} \subseteq SUBSET Requests
  /\ IF pc = "broadcast" THEN tx \in Tx /\ todo # <<>> ELSE tx = NoTx

Nfs(txs) == {t.nf : t \in txs}

(* The network never knows two payouts of one request, whatever crashes,   *)
(* lost replies, evictions and reorganisations happen between the runs.     *)
PaidOnce == \A t, u \in Known : t.nf = u.nf => t = u

(* A request that was ever refused is not paid afterwards, not even when    *)
(* the vault's coins have changed so that the fee would now fit, unless     *)
(* the file that recorded the refusal was replaced by an older one without  *)
(* it, and no later run has refused the request again.                      *)
RefusalIsFinal == refused \cap (file.paid \cup Nfs(Sent)) \subseteq forgotten

(* Once nothing goes wrong any more, every request is paid or refused:      *)
(* RUNS.md, "a chain error ... leaves a payout request pending for the      *)
(* next run".  Paid is what the network knows of, not what the file says.   *)
Trouble == Crash \/ Restore \/ \E r \in Requests : Defer(r)
EndsWell ==
  \A r \in Requests :
    r \in Elems(events) ~> r \in Nfs(Known) \cup file.failed \/ built = MaxTx

(* That is so unless a recorded payout is lost on its way: its broadcast    *)
(* fails, the run dies before it, or the mempools drop it for good.         *)
NothingLost == file.txids \ {tx} \subseteq Known   \* tx is about to be sent
AllSettled == <>[]NothingLost /\ <>[][~Trouble]_vars => EndsWell

(* "A broadcast error is ambiguous ..., so both stay; the next run's        *)
(* history check tells" (process_payouts): a payout the history does not    *)
(* show is made after all.                                                  *)
HistoryTells == <>[][~Trouble]_vars => EndsWell
=============================================================================
