SPECIFICATION Spec
CONSTANTS
  r1 = r1
  r2 = r2
  dust = dust
  thin = thin
  Requests = {r1, r2}
  Bad = {}
  Marginal = {}
  Strangers = {}
  Bitcoin = TRUE
  Restores = "any"
  Faults = {}
  MaxTx = 3
INVARIANTS PaidOnce
