---------------------------- MODULE BuildCarrier ----------------------------
(***************************************************************************)
(* The coins, the change and the fee of a carrier: build_carrier, and        *)
(* build_payout, which builds one to learn the fee and a second one with     *)
(* the fee taken out of the payment.                                         *)
(*                                                                          *)
(* build_carrier starts with no fee and signs again until the fee covers     *)
(* the size, six passes at most.  The size is Base, In for each coin and     *)
(* Change for a change output, and more where signatures are longer: every   *)
(* pass has new ones.                                                        *)
(***************************************************************************)
EXTENDS Integers, Sequences

CONSTANTS
  Dust,             \* 546
  Passes,           \* 6
  Base, In, Change,          \* virtual sizes
  Slack,            \* the bytes a signature can be longer, four to a vB
  Rates,            \* sat per vB
  Coins,            \* sequences of values, largest first
  Amounts,          \* what a carrier pays beside its OP_RETURN
  MaxSat            \* 2^64 - 1

ASSUME CarrierConstants ==
  /\ {Dust, Passes, Base, In, Change, Slack, MaxSat} \subseteq Nat
  /\ Dust > 0
  /\ Base >= Change   \* the OP_RETURN alone is longer than a change output
  /\ In >= Slack      \* a signature is a part of what a coin costs
  /\ Rates \subseteq Nat \ {0}
  /\ Amounts \subseteq Nat
  /\ Coins \subseteq Seq(Nat)

VARIABLES
  utxos, rate, amount,   \* the arguments
  goal,    \* "carrier", or "payout" and its second build "again"
  extra,   \* value of the outputs asked for
  pc,      \* "idle", "select", "sign", or how the build ended
  pass,    \* passes begun
  fee,     \* the fee that is tried
  n,       \* coins selected, a prefix of utxos
  total,   \* their value
  tx       \* the transaction signed last

carrier == <<utxos, rate, amount, goal, extra, pc, pass, fee, n, total, tx>>
args == <<utxos, rate, amount>>

-----------------------------------------------------------------------------

Errors == {"Overflow", "InsufficientFunds", "FeeDidNotConverge", "PayoutBelowFee"}
NoTx == [n |-> 0, total |-> 0, change |-> 0, paid |-> 0, vsize |-> 0]

(* What the signatures of k coins can add, rounded up to a vB.              *)
Longer(k) == (Slack * k + 3) \div 4

Need == extra + fee
Target == Need + Dust

Start(g, value) ==
  /\ goal' = g /\ extra' = value
  /\ pc' = "select" /\ pass' = 1
  /\ fee' = 0 /\ n' = 0 /\ total' = 0

Call(us, r, a, g) ==
  /\ utxos' = us /\ rate' = r /\ amount' = a
  /\ Start(g, a)
  /\ UNCHANGED tx

Ends(how) == pc' = how /\ UNCHANGED <<args, goal, extra, pass, fee, n, total, tx>>

NeedOverflows ==
  /\ pc = "select" /\ Target > MaxSat
  /\ Ends("Overflow")

(* The first coin is taken whatever it is, the next ones up to the target.  *)
AddCoin ==
  /\ pc = "select" /\ Target <= MaxSat
  /\ n < Len(utxos) /\ (n = 0 \/ total < Target)
  /\ IF total + utxos[n + 1] > MaxSat
     THEN Ends("Overflow")
     ELSE /\ n' = n + 1
          /\ total' = total + utxos[n + 1]
          /\ UNCHANGED <<args, goal, extra, pc, pass, fee, tx>>

Selected ==
  /\ pc = "select" /\ Target <= MaxSat
  /\ n = Len(utxos) \/ (n > 0 /\ total >= Target)

Insufficient ==
  /\ Selected /\ total < Need
  /\ Ends("InsufficientFunds")

(* Mistaken variant: change below the dust limit is left out of the fee    *)
(* that is reported.                                                        *)
OutputsLoseDust ==
  LET change == total - extra - fee IN
  IF change >= Dust THEN [change |-> change, paid |-> fee]
                    ELSE [change |-> 0, paid |-> fee]
(* Change worth more than dust comes back, less of it goes to the fee.      *)
Outputs ==
  LET change == total - extra - fee IN
  IF change >= Dust THEN [change |-> change, paid |-> fee]
                    ELSE [change |-> 0, paid |-> total - extra]

Sign ==
  /\ Selected /\ total >= Need
  /\ \E slack \in 0..Longer(n) :
       tx' = [n |-> n, total |-> total,
              change |-> Outputs.change, paid |-> Outputs.paid,
              vsize |-> Base + In * n + slack
                        + IF Outputs.change > 0 THEN Change ELSE 0]
  /\ pc' = "sign"
  /\ UNCHANGED <<args, goal, extra, pass, fee, n, total>>

Want == tx.vsize * rate

WantOverflows ==
  /\ pc = "sign" /\ Want > MaxSat
  /\ Ends("Overflow")

Covers == fee >= Want

(* Mistaken variants: the fee is that of one more coin; it is raised by    *)
(* one vB.                                                                  *)
NextFeeRounded == Want + In * rate
NextFeeStep == fee + rate
NextFee == Want

Retry ==
  /\ pc = "sign" /\ Want <= MaxSat /\ ~Covers /\ pass < Passes
  /\ fee' = NextFee
  /\ pass' = pass + 1
  /\ pc' = "select" /\ n' = 0 /\ total' = 0
  /\ UNCHANGED <<args, goal, extra, tx>>

GiveUp ==
  /\ pc = "sign" /\ Want <= MaxSat /\ ~Covers /\ pass = Passes
  /\ Ends("FeeDidNotConverge")

Built == pc = "sign" /\ Want <= MaxSat /\ Covers

ReturnTx ==
  /\ Built /\ goal # "payout"
  /\ Ends("ok")

(* Mistaken variant: the payment is the whole request.                     *)
PaymentWhole == amount
Payment == amount - Want

(* The fee of the first carrier is taken out of the payment of the second.  *)
PayoutBelowFee ==
  /\ Built /\ goal = "payout"
  /\ amount < Want + Dust
  /\ Ends("PayoutBelowFee")

BuildAgain ==
  /\ Built /\ goal = "payout"
  /\ amount >= Want + Dust
  /\ Start("again", Payment)
  /\ UNCHANGED <<args, tx>>

-----------------------------------------------------------------------------

CarrierInit ==
  /\ utxos = <<>> /\ rate = 0 /\ amount = 0
  /\ goal = "carrier" /\ extra = 0 /\ pc = "idle" /\ pass = 0 /\ fee = 0
  /\ n = 0 /\ total = 0 /\ tx = NoTx

CarrierNext ==
  \/ /\ pc = "idle"
     /\ \E us \in Coins, r \in Rates, a \in Amounts, g \in {"carrier", "payout"} :
          Call(us, r, a, g)
  \/ NeedOverflows \/ AddCoin \/ Insufficient \/ Sign
  \/ WantOverflows \/ Retry \/ GiveUp
  \/ ReturnTx \/ PayoutBelowFee \/ BuildAgain

CarrierSpec == CarrierInit /\ [][CarrierNext]_carrier

-----------------------------------------------------------------------------

CarrierTypeOK ==
  /\ utxos \in Seq(Nat)
  /\ rate \in Nat /\ amount \in Nat /\ extra \in Nat /\ fee \in Nat
  /\ n \in Nat /\ total \in Nat /\ pass \in Nat
  /\ goal \in {"carrier", "payout", "again"}
  /\ pc \in {"idle", "select", "sign", "ok"} \cup Errors
  /\ tx \in [n : Nat, total : Nat, change : Nat, paid : Nat, vsize : Nat]

(* A carrier that is returned pays for its size, to the sat accounts for    *)
(* every coin it spends, reports the fee it really pays, and has no change   *)
(* output a node would not relay.                                           *)
CarrierPays ==
  pc = "ok" => /\ tx.paid >= tx.vsize * rate
               /\ tx.total = extra + tx.change + tx.paid
               /\ tx.change = 0 \/ tx.change >= Dust

(* No more than change below the dust limit, a change output that was       *)
(* there in an earlier pass and a longer signature are paid in excess.       *)
NotOverpaid ==
  pc = "ok" => tx.paid < (tx.vsize + Change + Longer(tx.n)) * rate + Dust

(* "The fee comes out of the request" (process_payouts), but for what the   *)
(* second carrier costs more than the first: a change output, a longer      *)
(* signature, change below the dust limit.                                  *)
VaultPays ==
  pc = "ok" /\ goal = "again" =>
    extra + tx.paid < amount + (Change + Longer(tx.n)) * rate + Dust

(* "One more pass is enough in practice": with four coins, each worth       *)
(* twice what it costs to spend, the fee converges in the six passes, as     *)
(* long as signatures vary by a byte (for more, see ChainProofs).  Five      *)
(* coins are already too many if every pass has longer signatures than the   *)
(* one before.                                                             *)
Converges ==
  /\ pc = "FeeDidNotConverge"
  /\ \A k \in DOMAIN utxos : utxos[k] >= Dust + 2 * In * rate
  => Len(utxos) > 4
=============================================================================
