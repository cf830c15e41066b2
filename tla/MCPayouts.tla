----------------------------- MODULE MCPayouts -----------------------------
(***************************************************************************)
(* Payouts for TLC: r1 and r2 are sound, dust is refused, thin covers its   *)
(* fee or not as the vault's coins have it.                                  *)
(***************************************************************************)
EXTENDS Payouts

CONSTANTS r1, r2, dust, thin
=============================================================================
