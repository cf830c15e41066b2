SPECIFICATION FairSpec
CONSTANTS
  r1 = r1
  r2 = r2
  dust = dust
  thin = thin
  Requests = {r1}
  Bad = {}
  Marginal = {}
  Strangers = {}
  Bitcoin = FALSE
  Restores = "never"
  Faults = {"lost"}
  MaxTx = 2
PROPERTY HistoryTells
