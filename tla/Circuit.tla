------------------------------- MODULE Circuit -------------------------------
(***************************************************************************)
(* What the transfer circuit constrains beside hashes and curve points: the  *)
(* values of inputs and outputs, and the search of DiversifyHash for a       *)
(* y coordinate, checked against the native search in keys.rs.              *)
(*                                                                          *)
(* The prover chooses every witness that satisfies the constraints.  An      *)
(* honest prover takes what the native search gives; then the constraints    *)
(* are what is checked.  The field is a small one in which the curve is      *)
(* complete, values are below ValueBound, and a hash is any field element.   *)
(***************************************************************************)
EXTENDS Integers

CONSTANTS
  P,           \* the field
  ValueBound,  \* 2^64
  NIn, NOut,   \* N_IN, N_OUT
  Tries,       \* DIV_HASH_TRIES
  EdwardsD,    \* coefficient d of the curve
  NonResidue

Field == 0..(P - 1)
Plus(a, b) == (a + b) % P
Times(a, b) == (a * b) % P
Minus(a, b) == (a + P - b) % P
Inverse(a) == CHOOSE b \in Field : Times(a, b) = 1
Roots(a) == {r \in Field : Times(r, r) = a}

ASSUME CircuitConstants ==
  /\ {P, ValueBound, NIn, NOut, Tries} \subseteq Nat \ {0}
  /\ \A a \in Field \ {0} : \E b \in Field : Times(a, b) = 1
  /\ P % 4 = 1 /\ Roots(P - 1) # {}   \* so -1 is a square
  /\ {EdwardsD, NonResidue} \subseteq Field
  /\ Roots(EdwardsD) = {} /\ Roots(NonResidue) = {}
  /\ (NIn + NOut) * (ValueBound - 1) < P /\ Tries <= P

VARIABLES
  honest,              \* the prover
  gate,                \* "note", "search", "base" or "accepted"
  slot,                \* inputs, then outputs
  value_in, value_out, \* field elements
  spent, made,         \* history: what notes under the anchor and outputs hold
  h,                   \* hash of the diversifier
  try,                 \* candidates checked
  x, y, not_yet, one_hot_sum,
  satisfied            \* constraints hold so far

search == <<h, try, x, y, not_yet, one_hot_sum>>
sums == <<value_in, value_out, spent, made>>
circuit == <<honest, gate, slot, sums, search, satisfied>>

-----------------------------------------------------------------------------
(* diversify_hash, outside of the circuit.                                 *)

Num(c) == Minus(Times(c, c), 1)
Den(c) == Plus(Times(EdwardsD, Times(c, c)), 1)
Prod(c) == Times(Num(c), Den(c))

Hits(hash) == {k \in 0..(Tries - 1) : Roots(Prod(Plus(hash, k))) # {}}
HasBase(hash) == Hits(hash) # {}
Index(hash) == CHOOSE k \in Hits(hash) : \A i \in Hits(hash) : k <= i

EvenOf(a) == IF a % 2 = 0 THEN a ELSE Minus(0, a)
DiversifyHash(hash) ==
  LET c == Plus(hash, Index(hash))
      root == CHOOSE r \in Roots(Prod(c)) : TRUE
  IN  <<EvenOf(Times(root, Inverse(Den(c)))), c>>

(* roots: square roots for the candidates before k, at k the x coordinate.  *)
NativeRoots(hash, t) ==
  IF t < Index(hash) THEN Roots(Times(NonResidue, Prod(Plus(hash, t))))
  ELSE IF t = Index(hash) THEN {DiversifyHash(hash)[1]} ELSE {0}

-----------------------------------------------------------------------------
(* The values.                                                             *)

Flag(b) == IF b THEN 1 ELSE 0

InRange(v) == v < ValueBound

(* Mistaken variant: a disabled input may carry a value.                   *)
InputHoldsAny(v, enabled, member) == enabled => member
InputHolds(v, enabled, member) ==
  /\ Times(v, 1 - Flag(enabled)) = 0
  /\ enabled => member

StartSearch(hash) ==
  /\ honest => HasBase(hash)
  /\ gate' = "search" /\ h' = hash
  /\ try' = 0 /\ x' = 0 /\ y' = 0 /\ not_yet' = 1 /\ one_hot_sum' = 0

(* member: the note's leaf is in the tree that has the root r_anchor.       *)
Input(v, enabled, member, hash) ==
  /\ gate = "note" /\ slot <= NIn
  /\ InRange(v) /\ InputHolds(v, enabled, member)
  /\ value_in' = Plus(value_in, v)
  /\ spent' = spent + IF member THEN v ELSE 0
  /\ StartSearch(hash)
  /\ UNCHANGED <<honest, slot, value_out, made, satisfied>>

Output(v, hash) ==
  /\ gate = "note" /\ slot > NIn /\ slot <= NIn + NOut
  /\ InRange(v)
  /\ value_out' = Plus(value_out, v)
  /\ made' = made + v
  /\ StartSearch(hash)
  /\ UNCHANGED <<honest, slot, value_in, spent, satisfied>>

Conserve ==
  /\ gate = "note" /\ slot > NIn + NOut
  /\ value_in = value_out
  /\ gate' = "accepted"
  /\ UNCHANGED <<honest, slot, sums, search, satisfied>>

-----------------------------------------------------------------------------
(* diversify_hash_var.                                                     *)

(* Zero where w is the x coordinate of candidate c, or a root of the        *)
(* non-residue's multiple when c is not the one.                            *)
Branch(c, is_k, w) ==
  LET miss == Minus(Times(w, w), Times(NonResidue, Prod(c)))
      hit == Minus(Times(Times(w, w), Den(c)), Num(c))
  IN  Plus(Times(1 - Flag(is_k), miss), Times(Flag(is_k), hit))
Invertible(is_k, w, inv) == Times(1 - Flag(is_k), Minus(Times(w, inv), 1))

(* Mistaken variants: the root of a refuted candidate may be zero; the      *)
(* candidates after the one taken are constrained too.                      *)
CandidateHoldsZero(c, is_k, w, inv) == Times(not_yet, Branch(c, is_k, w)) = 0
CandidateHoldsAfter(c, is_k, w, inv) ==
  Branch(c, is_k, w) = 0 /\ Invertible(is_k, w, inv) = 0
CandidateHolds(c, is_k, w, inv) ==
  /\ Times(not_yet, Branch(c, is_k, w)) = 0
  /\ Times(not_yet, Invertible(is_k, w, inv)) = 0

Native(is_k, w, inv) ==
  /\ is_k = (try = Index(h))
  /\ w \in NativeRoots(h, try)
  /\ inv = IF try < Index(h) THEN Inverse(w) ELSE 0

Candidate(is_k, w, inv) ==
  /\ gate = "search" /\ try < Tries
  /\ LET c == Plus(h, try)
         holds == CandidateHolds(c, is_k, w, inv)
     IN  /\ IF honest THEN Native(is_k, w, inv) ELSE holds
         /\ satisfied' = (satisfied /\ holds)
         /\ x' = Plus(x, Times(Flag(is_k), w))
         /\ y' = Plus(y, Times(Flag(is_k), c))
  /\ one_hot_sum' = Plus(one_hot_sum, Flag(is_k))
  /\ not_yet' = Minus(not_yet, Flag(is_k))
  /\ try' = try + 1
  /\ UNCHANGED <<honest, gate, slot, sums, h>>

OneBase == one_hot_sum = 1 /\ x % 2 = 0

Base8 ==
  /\ gate = "search" /\ try = Tries
  /\ honest \/ OneBase
  /\ satisfied' = (satisfied /\ OneBase)
  /\ gate' = "base"
  /\ UNCHANGED <<honest, slot, sums, search>>

NextNote ==
  /\ gate = "base"
  /\ gate' = "note" /\ slot' = slot + 1
  /\ h' = 0 /\ try' = 0 /\ x' = 0 /\ y' = 0 /\ not_yet' = 1 /\ one_hot_sum' = 0
  /\ UNCHANGED <<honest, sums, satisfied>>

-----------------------------------------------------------------------------

CircuitInit ==
  /\ honest \in BOOLEAN /\ gate = "note" /\ slot = 1
  /\ value_in = 0 /\ value_out = 0 /\ spent = 0 /\ made = 0
  /\ h = 0 /\ try = 0 /\ x = 0 /\ y = 0 /\ not_yet = 1 /\ one_hot_sum = 0
  /\ satisfied = TRUE

CircuitNext ==
  \/ \E v, hash \in Field :
       \/ \E enabled, member \in BOOLEAN : Input(v, enabled, member, hash)
       \/ Output(v, hash)
  \/ \E is_k \in BOOLEAN, w, inv \in Field : Candidate(is_k, w, inv)
  \/ Base8 \/ NextNote \/ Conserve

CircuitSpec == CircuitInit /\ [][CircuitNext]_circuit

-----------------------------------------------------------------------------

(* What an accepted transfer creates is what its inputs in the anchor's     *)
(* tree hold: neither a disabled input nor a sum that wraps in the field     *)
(* makes value.                                                             *)
Conserved == gate = "accepted" => made = spent

(* "Mirrors keys::diversify_hash exactly": a satisfied circuit has found     *)
(* the native base point, whatever the prover chose.                        *)
SameBase ==
  gate = "base" /\ satisfied => HasBase(h) /\ <<x, y>> = DiversifyHash(h)

(* A wallet's own witness satisfies the circuit, also when a candidate      *)
(* before the one taken has no square root to invert.                       *)
Provable == satisfied
=============================================================================
