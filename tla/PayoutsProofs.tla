---------------------------- MODULE PayoutsProofs ----------------------------
(***************************************************************************)
(* Proofs about Payouts: no request is paid twice and no refused request is *)
(* paid, for any number of requests, transactions, crashes, lost replies,    *)
(* evictions and reorganisations, as long as an older copy of the wallet     *)
(* file is put back only when every payout it lacks is buried in the chain.   *)
(***************************************************************************)
EXTENDS Payouts, TLAPS

(* t is in the file, as a paid request and as one of its own transactions. *)
Recorded(t) == t \in file.txids /\ t.nf \in file.paid

(* The file knows every payout that the chain does not yet show; only a     *)
(* restored file may have forgotten confirmed ones.                          *)
NetworkRecorded ==
  /\ \A t \in mempool \cup evicted : Recorded(t)
  /\ Restores = "never" => \A t \in confirmed : Recorded(t)

(* No two payouts of one request were ever sent, evicted ones included.    *)
SentOnce == \A t, u \in Sent : t.nf = u.nf => t = u

(* Nor one of a request that was refused.                                  *)
RefusedUnsent == \A t \in Sent : t.nf \notin file.failed

(* Past ReadHistory, a run knows every payout sent so far.                 *)
RunKnows ==
  pc \in {"pay", "broadcast"} =>
    \A t \in Sent : t.nf \in on_chain \cup file.paid

(* The transaction in hand is recorded and is its request's first.         *)
InHand ==
  pc = "broadcast" =>
    /\ Recorded(tx)
    /\ tx.nf \notin file.failed
    /\ \A t \in Sent : t.nf # tx.nf

(* In a file, a request is paid or refused, and a payout is its request's.  *)
Consistent(f) ==
  /\ \A r \in f.failed : r \notin f.paid
  /\ \A t \in f.txids : t.nf \in f.paid

(* A restored file has refused no more than the one it replaces.           *)
BackupOlder ==
  /\ Consistent(file) /\ Consistent(backup)
  /\ backup.failed \subseteq file.failed

(* Only a restored file forgets a refusal.                                 *)
RefusalsKept == refused \subseteq file.failed \cup forgotten

PInv ==
  TypeOK /\ SentOnce /\ RefusedUnsent /\ NetworkRecorded /\ RunKnows /\ InHand
    /\ BackupOlder /\ RefusalsKept

-----------------------------------------------------------------------------
(* Facts the steps share.                                                  *)

(* A run takes its requests one by one: the rest is a list of requests.    *)
LEMMA RestOfRun ==
  ASSUME TypeOK, todo # <<>>
  PROVE  Tail(todo) \in Seq(Requests) /\ Head(todo) \in Requests
BY DEF TypeOK

(* What a run has found out about the vault's history: every confirmed      *)
(* payout, and every unconfirmed one of this wallet.                         *)
LEMMA HistoryFound ==
  ASSUME TypeOK, NetworkRecorded, ReadHistory
  PROVE  /\ \A t \in Sent : t.nf \in on_chain' \cup file.paid
         /\ on_chain' \subseteq Requests
<1> DEFINE e(t) == [nf |-> t.nf, height |-> IF t \in confirmed THEN 1 ELSE 0,
                    own |-> t \in file.txids, vault |-> TRUE]
<1>1. on_chain' = {h.nf : h \in {g \in History : Counts(g)}}
  BY DEF ReadHistory
<1>2. ASSUME NEW t \in Known PROVE t.nf \in on_chain'
  <2>1. e(t) \in History
    BY <1>2 DEF History
  <2>2. t \notin confirmed => t \in file.txids
    BY <1>2 DEF NetworkRecorded, Recorded, Known
  <2>3. e(t).own = (t \in file.txids) /\ e(t).vault = TRUE /\ e(t).nf = t.nf
    OBVIOUS
  <2>4. t \in confirmed => e(t).height > 0
    OBVIOUS
  <2>5. Counts(e(t))
    BY <2>2, <2>3, <2>4 DEF Counts
  <2> HIDE DEF e
  <2> QED BY <1>1, <2>1, <2>3, <2>5
<1>3. \A t \in evicted : t.nf \in file.paid
  BY DEF NetworkRecorded, Recorded
<1>4. ASSUME NEW h \in History, Counts(h) PROVE h.nf \in Requests
  <2>1. Known \subseteq Tx
    BY DEF TypeOK, Known
  <2>2. h.vault
    BY <1>4 DEF Counts
  <2>3. PICK t \in Known : h = e(t)
    <3>1. \/ \E t \in Known : h = e(t)
          \/ \E r \in Strangers :
               h = [nf |-> r, height |-> 1, own |-> FALSE, vault |-> FALSE]
      BY <1>4 DEF History
    <3>2. ASSUME NEW r \in Strangers,
                 h = [nf |-> r, height |-> 1, own |-> FALSE, vault |-> FALSE]
          PROVE FALSE
      <4>1. h.vault = FALSE
        BY <3>2
      <4> QED BY <2>2, <4>1
    <3> QED BY <3>1, <3>2
  <2> QED BY <2>1, <2>3 DEF Tx
<1> QED BY <1>1, <1>2, <1>3, <1>4 DEF Sent

(* Nobody but a run's broadcast adds a payout to what the network knows.   *)
LEMMA SmallerNetwork ==
  ASSUME PInv, Sent' \subseteq Sent, Restores # "any",
         \A t \in mempool' \cup evicted' : Recorded(t),
         UNCHANGED <<events, file, backup, built, run, history>>
  PROVE  PInv'
<1> USE DEF PInv
<1>1. TypeOK'
  <2>1. Sent' \subseteq Tx
    BY DEF TypeOK, Known, Sent
  <2>2. {mempool', confirmed', evicted'} \subseteq SUBSET Tx
    BY <2>1 DEF Known, Sent
  <2> QED BY <2>2 DEF TypeOK, run, PCs, history
<1>2. SentOnce' /\ RefusedUnsent'
  BY DEF SentOnce, RefusedUnsent
<1>3. NetworkRecorded'
  <2>1. Restores \in {"never", "settled"}
    BY PayoutConstants
  <2> QED BY <2>1 DEF NetworkRecorded, Recorded, Known, Sent
<1>4. RunKnows' /\ InHand' /\ BackupOlder' /\ RefusalsKept'
  BY DEF RunKnows, InHand, BackupOlder, Consistent, RefusalsKept, Recorded, run, history
<1> QED BY <1>1, <1>2, <1>3, <1>4
-----------------------------------------------------------------------------
(* Every step of a run, of the network and of the operator keeps PInv.     *)

LEMMA StartKeeps ==
  ASSUME PInv,
         \/ RunAll
         \/ \E r \in Requests : Accept(r) \/ RunOnly(r)
  PROVE  PInv'
<1> USE DEF PInv
<1>1. TypeOK'
  <2>1. CASE RunAll
    BY <2>1 DEF RunAll, Begin, TypeOK, PCs, network, history, NoTx
  <2>2. ASSUME NEW r \in Requests, Accept(r) PROVE TypeOK'
    BY <2>2 DEF Accept, TypeOK, PCs, run, network, history
  <2>3. ASSUME NEW r \in Requests, RunOnly(r) PROVE TypeOK'
    BY <2>3 DEF RunOnly, Begin, TypeOK, PCs, network, history
  <2> QED BY <2>1, <2>2, <2>3
<1>2. /\ UNCHANGED <<file, backup, network, on_chain, tx, history>>
      /\ pc' = pc \/ pc' = "history"
  BY DEF RunAll, RunOnly, Begin, Accept, run
<1> QED BY <1>1, <1>2 DEF SentOnce, RefusedUnsent, NetworkRecorded, RunKnows,
            InHand, BackupOlder, Consistent, RefusalsKept, Recorded, Known, Sent,
            network, history

LEMMA ReadHistoryKeeps ==
  ASSUME PInv, ReadHistory
  PROVE  PInv'
<1> USE DEF PInv
<1>1. /\ \A t \in Sent : t.nf \in on_chain' \cup file.paid
      /\ on_chain' \subseteq Requests
  BY HistoryFound
<1>2. /\ pc' = "pay" /\ pc # "broadcast"
      /\ UNCHANGED <<events, file, backup, network, built, todo, tx, history>>
  BY DEF ReadHistory
<1>3. TypeOK'
  BY <1>1, <1>2 DEF TypeOK, PCs, network, history
<1> QED BY <1>1, <1>2, <1>3 DEF SentOnce, RefusedUnsent, NetworkRecorded,
            RunKnows, InHand, BackupOlder, Consistent, RefusalsKept, Recorded, Known, Sent,
            network, history

(* One request looked at and not paid: skipped, deferred, found, refused.  *)
LEMMA LookKeeps ==
  ASSUME PInv, NEW r \in Requests,
         Skip(r) \/ Found(r) \/ Refuse(r) \/ Defer(r)
  PROVE  PInv'
<1> USE DEF PInv
<1>1. /\ AtRequest(r) /\ Advance
      /\ UNCHANGED <<events, backup, network, built, pc, on_chain, tx>>
  BY DEF Skip, Found, Refuse, Defer, Pending
<1>2. Tail(todo) \in Seq(Requests)
  BY <1>1, RestOfRun DEF AtRequest
<1>3. \/ UNCHANGED <<file, history>>
      \/ Found(r) /\ file' = [file EXCEPT !.paid = @ \cup {r}] /\ UNCHANGED history
      \/ /\ Refuse(r) /\ file' = [file EXCEPT !.failed = @ \cup {r}]
         /\ refused' = refused \cup {r} /\ forgotten' = forgotten \ {r}
  BY DEF Skip, Found, Refuse, FailPayout, Defer
<1>4. file' \in File
  BY <1>3 DEF TypeOK, File
<1>5. TypeOK'
  <2>1. {refused', forgotten'} \subseteq SUBSET Requests
    BY <1>3 DEF TypeOK, history
  <2> QED BY <1>1, <1>2, <1>4, <2>1 DEF TypeOK, PCs, AtRequest, Advance, network
<1>6. SentOnce'
  BY <1>1 DEF SentOnce, Known, Sent, network
<1>7. /\ file'.txids = file.txids /\ file.paid \subseteq file'.paid
      /\ file.failed \subseteq file'.failed
      /\ \A f \in file'.failed : f \notin file'.paid
      /\ \A f \in file'.failed : f \in file.failed \/ (Refuse(r) /\ f = r)
      /\ refused' \subseteq refused \cup (file'.failed \ file.failed)
      /\ forgotten \subseteq forgotten' \cup file'.failed
  <2>1. /\ Found(r) \/ Refuse(r) => r \notin file.paid \cup file.failed
        /\ \A f \in file.failed : f \notin file.paid
    BY DEF Found, Refuse, Pending, Settled, BackupOlder, Consistent
  <2>2. CASE UNCHANGED <<file, history>>
    BY <2>1, <2>2 DEF history
  <2>3. CASE Found(r) /\ file' = [file EXCEPT !.paid = @ \cup {r}] /\ UNCHANGED history
    <3>1. file'.paid = file.paid \cup {r} /\ file'.failed = file.failed
          /\ file'.txids = file.txids
      BY <2>3 DEF TypeOK, File
    <3> QED BY <2>1, <2>3, <3>1 DEF history
  <2>4. CASE /\ Refuse(r) /\ file' = [file EXCEPT !.failed = @ \cup {r}]
             /\ refused' = refused \cup {r} /\ forgotten' = forgotten \ {r}
    <3>1. file'.failed = file.failed \cup {r} /\ file'.paid = file.paid
          /\ file'.txids = file.txids
      BY <2>4 DEF TypeOK, File
    <3> QED BY <2>1, <2>4, <3>1
  <2> QED BY <1>3, <2>2, <2>3, <2>4
<1>8. Refuse(r) => \A t \in Sent : t.nf # r
  BY <1>1 DEF Refuse, Pending, Settled, AtRequest, RunKnows
<1>9. RefusedUnsent'
  BY <1>1, <1>7, <1>8 DEF RefusedUnsent, Known, Sent, network
<1>10. NetworkRecorded' /\ RunKnows' /\ InHand' /\ BackupOlder'
  BY <1>1, <1>7 DEF NetworkRecorded, RunKnows, InHand, BackupOlder, Consistent,
     Recorded, Known, Sent, AtRequest, network
<1>11. RefusalsKept'
  BY <1>7 DEF RefusalsKept
<1> QED BY <1>5, <1>6, <1>9, <1>10, <1>11

(* The intent is on disk before the network sees the transaction.          *)
LEMMA IntendKeeps ==
  ASSUME PInv, NEW r \in Requests, Intend(r)
  PROVE  PInv'
<1> USE DEF PInv
<1>1. /\ pc = "pay" /\ pc' = "broadcast" /\ todo # <<>>
      /\ r \notin file.paid \cup file.failed \cup on_chain
      /\ built' = built + 1 /\ built < MaxTx
      /\ tx' = [nf |-> r, n |-> built + 1]
      /\ file' = [file EXCEPT !.paid = @ \cup {r}, !.txids = @ \cup {tx'}]
      /\ UNCHANGED <<events, backup, network, todo, on_chain, history>>
  BY DEF Intend, BuildPayout, Pending, AtRequest, Settled
<1>2. tx' \in Tx /\ built' \in 0..MaxTx
  BY <1>1, PayoutConstants DEF TypeOK, Tx
<1>3. /\ file' \in File
      /\ file'.paid = file.paid \cup {r} /\ file'.failed = file.failed
      /\ file'.txids = file.txids \cup {tx'}
  BY <1>1, <1>2 DEF TypeOK, File
<1>4. TypeOK'
  BY <1>1, <1>2, <1>3 DEF TypeOK, PCs, network, history
<1>5. \A t \in Sent : t.nf # r
  BY <1>1 DEF RunKnows
<1>6. tx'.nf = r
  BY <1>1
<1>7. InHand'
  BY <1>1, <1>3, <1>5, <1>6 DEF InHand, Recorded, Known, Sent, network
<1>8. RunKnows' /\ NetworkRecorded' /\ RefusalsKept'
  BY <1>1, <1>3 DEF RunKnows, NetworkRecorded, RefusalsKept, Recorded, Known,
     Sent, network, history
<1>9. SentOnce' /\ RefusedUnsent'
  BY <1>1, <1>3 DEF SentOnce, RefusedUnsent, Known, Sent, network
<1>10. BackupOlder'
  BY <1>1, <1>3, <1>6 DEF BackupOlder, Consistent
<1> QED BY <1>4, <1>7, <1>8, <1>9, <1>10

(* The only step that shows the network a new payout: the transaction in    *)
(* hand, whose request has no other.                                         *)
LEMMA BroadcastKeeps ==
  ASSUME PInv, Broadcast \/ BroadcastLost
  PROVE  PInv'
<1> USE DEF PInv
<1>1. /\ pc = "broadcast" /\ pc' = "pay" /\ tx' = NoTx /\ Advance
      /\ mempool' \in {mempool, mempool \cup {tx}} /\ confirmed' = confirmed
      /\ evicted' = evicted
      /\ UNCHANGED <<events, file, backup, built, on_chain, history>>
  BY DEF Broadcast, BroadcastLost, network
<1>2. tx \in Tx /\ Tail(todo) \in Seq(Requests)
  BY <1>1, RestOfRun DEF TypeOK
<1>3. TypeOK'
  BY <1>1, <1>2 DEF TypeOK, PCs, Advance, history
<1>4. /\ Recorded(tx) /\ tx.nf \notin file.failed
      /\ \A t \in Sent : t.nf # tx.nf
  BY <1>1 DEF InHand
<1>5. Sent' \subseteq Sent \cup {tx}
  BY <1>1 DEF Known, Sent
<1>6. SentOnce'
  BY <1>4, <1>5 DEF SentOnce
<1>7. RefusedUnsent'
  BY <1>1, <1>4, <1>5 DEF RefusedUnsent
<1>8. NetworkRecorded' /\ RunKnows' /\ InHand' /\ BackupOlder' /\ RefusalsKept'
  BY <1>1, <1>4, <1>5 DEF NetworkRecorded, RunKnows, InHand, BackupOlder, Consistent,
     RefusalsKept, Recorded, history
<1> QED BY <1>3, <1>6, <1>7, <1>8

LEMMA StopKeeps ==
  ASSUME PInv, Finish \/ Crash
  PROVE  PInv'
<1> USE DEF PInv
<1>1. /\ pc' = "idle" /\ todo' = <<>> /\ on_chain' = {} /\ tx' = NoTx
      /\ UNCHANGED <<events, file, backup, network, built, history>>
  BY DEF Finish, Crash, Stop
<1>2. TypeOK'
  BY <1>1 DEF TypeOK, PCs, network, history
<1> QED BY <1>1, <1>2 DEF SentOnce, RefusedUnsent, NetworkRecorded, RunKnows,
            InHand, BackupOlder, Consistent, RefusalsKept, Recorded, Known, Sent,
            network, history

LEMMA NetworkKeeps ==
  ASSUME PInv, Restores # "any", NEW t \in Sent,
         Confirm(t) \/ Evict(t) \/ Return(t) \/ Unconfirm(t)
  PROVE  PInv'
<1>1. /\ Sent' \subseteq Sent
      /\ UNCHANGED <<events, file, backup, built, run, history>>
      /\ mempool' \cup evicted' \subseteq mempool \cup evicted \cup {t}
      /\ t \in mempool \cup evicted \/ Unconfirm(t)
  BY DEF Confirm, Evict, Return, Unconfirm, Known, Sent
<1>2. \A u \in mempool \cup evicted : Recorded(u)
  BY DEF PInv, NetworkRecorded
<1>3. Unconfirm(t) => Recorded(t)
  <2>1. CASE Restores = "settled"
    BY <2>1 DEF Unconfirm, PInv, BackupOlder, Consistent, Recorded
  <2>2. CASE Restores = "never"
    BY <2>2 DEF Unconfirm, PInv, NetworkRecorded
  <2> QED BY <2>1, <2>2, PayoutConstants
<1> QED BY <1>1, <1>2, <1>3, SmallerNetwork

(* A file is put back that lacks none but confirmed payouts: those it has   *)
(* forgotten, the vault's history shows.                                     *)
LEMMA RestoreKeeps ==
  ASSUME PInv, Restores # "any", Backup \/ Restore
  PROVE  PInv'
<1> USE DEF PInv
<1>1. /\ pc = "idle" /\ Restores = "settled"
      /\ UNCHANGED <<events, network, built, run, refused>>
      /\ \/ backup' = file /\ file' = file /\ forgotten' = forgotten
         \/ /\ file' = backup /\ backup' = backup
            /\ mempool \cup evicted \subseteq backup.txids
            /\ forgotten' = forgotten \cup (file.failed \ backup.failed)
  BY PayoutConstants DEF Backup, Restore, history
<1>2. TypeOK'
  <2>1. forgotten' \subseteq Requests
    BY <1>1 DEF TypeOK, File
  <2> QED BY <1>1, <2>1 DEF TypeOK, PCs, run, network
<1>3. SentOnce'
  BY <1>1 DEF SentOnce, Known, Sent, network
<1>4. RefusedUnsent' /\ BackupOlder' /\ RefusalsKept'
  BY <1>1 DEF RefusedUnsent, BackupOlder, RefusalsKept, Known, Sent, network
<1>5. RunKnows' /\ InHand'
  BY <1>1 DEF RunKnows, InHand, run
<1>6. NetworkRecorded'
  BY <1>1 DEF NetworkRecorded, BackupOlder, Consistent, Recorded, network
<1> QED BY <1>2, <1>3, <1>4, <1>5, <1>6

LEMMA InitPInv == Init => PInv
BY PayoutConstants DEF Init, PInv, TypeOK, File, PCs, NoTx, SentOnce, RefusedUnsent,
   NetworkRecorded, RunKnows, InHand, BackupOlder, Consistent, RefusalsKept, Known, Sent

LEMMA StepPInv ==
  ASSUME PInv, Restores # "any", [Next]_vars
  PROVE  PInv'
<1>1. CASE Run
  BY <1>1, ReadHistoryKeeps, BroadcastKeeps, StopKeeps, LookKeeps, IntendKeeps
     DEF Run
<1>2. CASE Next /\ ~Run
  BY <1>2, StartKeeps, BroadcastKeeps, StopKeeps, LookKeeps, RestoreKeeps,
     NetworkKeeps DEF Next
<1>3. CASE UNCHANGED vars
  BY <1>3 DEF vars, run, network, PInv, TypeOK, PCs, SentOnce, RefusedUnsent,
     NetworkRecorded, RunKnows, InHand, BackupOlder, Consistent, RefusalsKept, history, Recorded, Known, Sent
<1> QED BY <1>1, <1>2, <1>3

-----------------------------------------------------------------------------
(* PInv is an invariant while files are restored with care.                *)
THEOREM PayoutsInvariant ==
  ASSUME Restores # "any"
  PROVE  Spec => []PInv
<1>1. PInv /\ [Next]_vars => PInv'
  BY StepPInv
<1> QED BY <1>1, InitPInv, PTL DEF Spec

(* Every part of the payout state keeps its type.                          *)
THEOREM PayoutsTyped ==
  ASSUME Restores # "any"
  PROVE  Spec => []TypeOK
<1>1. PInv => TypeOK
  BY DEF PInv
<1> QED BY <1>1, PayoutsInvariant, PTL

(* process_payouts never lets the network know two payouts of one request. *)
THEOREM NothingPaidTwice ==
  ASSUME Restores # "any"
  PROVE  Spec => []PaidOnce
<1>1. PInv => PaidOnce
  BY DEF PInv, SentOnce, Sent, PaidOnce
<1> QED BY <1>1, PayoutsInvariant, PTL

(* A request that was ever refused is not paid afterwards, unless an older  *)
(* file without the refusal was put back; where none ever is, it is not      *)
(* paid at all (RefusedForGood).                                             *)
THEOREM RefusedStayRefused ==
  ASSUME Restores # "any"
  PROVE  Spec => []RefusalIsFinal
<1>1. PInv => RefusalIsFinal
  BY DEF PInv, RefusedUnsent, BackupOlder, Consistent, RefusalsKept, Nfs, RefusalIsFinal
<1> QED BY <1>1, PayoutsInvariant, PTL

NoneForgotten == forgotten = {}
NeverPaid == refused \cap Nfs(Sent) = {}

(* While no older wallet file is put back, fail_payout is for ever: no      *)
(* transaction ever pays a request that any run refused.                    *)
THEOREM RefusedForGood ==
  ASSUME Restores = "never"
  PROVE  Spec => []NeverPaid
<1>1. Init => NoneForgotten
  BY DEF Init, NoneForgotten
<1>2. NoneForgotten /\ [Next]_vars => NoneForgotten'
  <2> SUFFICES ASSUME NoneForgotten, [Next]_vars PROVE forgotten' = {}
    BY DEF NoneForgotten
  <2>1. \/ UNCHANGED forgotten
        \/ \E r \in Requests : Refuse(r)
    BY PayoutConstants
    DEF Next, Run, vars, history, Accept, RunAll, RunOnly, Begin, ReadHistory, Skip,
        Found, Defer, Intend, Broadcast, BroadcastLost, Finish, Crash, Stop, Backup,
        Restore, Confirm, Evict, Return, Unconfirm
  <2> QED BY <2>1 DEF Refuse, FailPayout, NoneForgotten
<1>3. RefusalIsFinal /\ NoneForgotten => NeverPaid
  BY DEF RefusalIsFinal, NoneForgotten, NeverPaid
<1>4. Spec => []RefusalIsFinal
  BY RefusedStayRefused
<1> QED BY <1>1, <1>2, <1>3, <1>4, PTL DEF Spec
=============================================================================
