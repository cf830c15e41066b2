------------------------------ MODULE MCParts ------------------------------
(***************************************************************************)
(* The parts that share no state with the rest: the note tree, building a    *)
(* carrier, the Electrum session, the constraints of the circuit, the bytes  *)
(* of envelopes and the saving of files (whose Init, Next and vars those of  *)
(* Files are).  A behaviour is one of one of them; the others stay in one of *)
(* their initial states.                                                    *)
(***************************************************************************)
EXTENDS MerkleTree, BuildCarrier, Electrum, Circuit, Envelopes, Files, TLC

CONSTANTS p1, p2    \* commands that save

VARIABLE part

-----------------------------------------------------------------------------
(* Constants.                                                              *)

TreeWidth == (0 :> 8) @@ (1 :> 4) @@ (2 :> 2) @@ (3 :> 1)
TreeZero == <<"zero">>
Empty1 == Node(TreeZero, TreeZero)
Empty2 == Node(Empty1, Empty1)
TreeEmpty ==
  (0 :> TreeZero) @@ (1 :> Empty1) @@ (2 :> Empty2) @@ (3 :> Node(Empty2, Empty2))
TreeLeaves == {<<"a">>, <<"b">>}

(* A few coins of different value, or many of one.                         *)
CoinValues == {5, 8, 16, 17, 25, 31}
FewCoins ==
  UNION {{c \in [1..k -> CoinValues] : \A i \in 1..(k - 1) : c[i] >= c[i + 1]} : k \in 0..4}
ManyCoins == {[i \in 1..k |-> v] : k \in 5..8, v \in {5, 8, 16, 24}}
CarrierCoins == FewCoins \cup ManyCoins
CarrierAmounts == (0..18) \cup {20, 22, 24, 35, 45}

-----------------------------------------------------------------------------

Parts == {"tree", "carrier", "session", "circuit", "envelope", "files"}

PartsInit ==
  /\ part \in Parts
  /\ TreeInit /\ CarrierInit
  /\ SessionInit /\ (part # "session" => net = Expected /\ txs = 0)
  /\ CircuitInit /\ (part # "circuit" => ~honest)
  /\ EnvelopeInit
  /\ part # "envelope" => written = CHOOSE e \in Mints : TRUE
  /\ Init /\ (part # "files" => kind = "state")

PartsNext ==
  \/ part = "tree" /\ TreeNext /\ UNCHANGED <<carrier, session, circuit, parse, vars, part>>
  \/ part = "carrier" /\ CarrierNext /\ UNCHANGED <<tree, session, circuit, parse, vars, part>>
  \/ part = "session" /\ SessionNext /\ UNCHANGED <<tree, carrier, circuit, parse, vars, part>>
  \/ part = "circuit" /\ CircuitNext /\ UNCHANGED <<tree, carrier, session, parse, vars, part>>
  \/ part = "envelope" /\ EnvelopeNext /\ UNCHANGED <<tree, carrier, session, circuit, vars, part>>
  \/ part = "files" /\ Next /\ UNCHANGED <<tree, carrier, session, circuit, parse, part>>

parts == <<tree, carrier, session, circuit, parse, vars, part>>

(* The fairness of FairSession.                                            *)
CallReturns ==
  part = "session" /\ Return /\ UNCHANGED <<tree, carrier, circuit, parse, vars, part>>

PartsSpec == PartsInit /\ [][PartsNext]_parts /\ WF_parts(CallReturns)
============================================================================
