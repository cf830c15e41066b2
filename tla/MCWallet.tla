------------------------------ MODULE MCWallet ------------------------------
(***************************************************************************)
(* Instances of Wallet for TLC.  Two notes of value 2 and 1 are mined at    *)
(* the start; more mints, of this wallet and of others, may follow.         *)
(***************************************************************************)
EXTENDS Wallet

CONSTANTS p1, p2

MCSource == {"seed", "body", "dummy"} \X Nat

Mint(n, value) == [id |-> 100 + n, env |-> [kind |-> "mint", seed |-> <<"seed", n>>,
                                            value |-> value]]
m1 == Mint(1, 2)
m2 == Mint(2, 1)
m3 == Mint(3, 2)          \* to somebody else
m4 == Mint(4, 1)

MCOwn == {<<"seed", n>> : n \in {1, 2, 4}}
OneNote == <<<<m1>>, <<>>>>
TwoNotes == <<<<m1, m2>>, <<>>>>
Stranger == {m3}
OwnMint == {m4}
AllMints == {m2, m3, m4}

(* The bounds of the run with faults: either one disconnected block at      *)
(* most, no mint of which comes back, and no mint but the wallet's own one,  *)
(* while both commands do as they like; or up to two such blocks and every   *)
(* mint in any order, while the second command is idle, no more than one     *)
(* carrier was built and none is evicted.                                   *)
OneBack == /\ dropped <= 1
           /\ Mined \cap orphans = {} /\ Mined \cap Foreign \subseteq OwnMint
TwoBack == pc[p2] = "idle" /\ built <= 1 /\ gone = {}
FaultBound == OneBack \/ TwoBack
=============================================================================
