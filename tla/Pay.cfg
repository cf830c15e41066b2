SPECIFICATION FairSpec
CONSTANTS
  r1 = r1
  r2 = r2
  dust = dust
  thin = thin
  Requests = {r1, dust, thin}
  Bad = {dust}
  Marginal = {thin}
  Strangers = {r1}
  Bitcoin = FALSE
  Restores = "settled"
  Faults = {"lost", "crash", "evict"}
  MaxTx = 2
INVARIANTS PaidOnce RefusalIsFinal
PROPERTY AllSettled
