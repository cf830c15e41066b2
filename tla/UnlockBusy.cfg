SPECIFICATION Spec
CONSTANTS
  p1 = p1
  p2 = p2
  Procs = {p1}
  Source <- MCSource
  Own <- MCOwn
  Foreign <- Stranger
  Opening <- TwoNotes
  Operator = FALSE
  Amount = 3
  Activation = 1
  WindowW = 2
  KMin = 1
  KWallet = 2
  RetainExtra = 1
  UnlockForce = FALSE
  Faults = {"busy"}
  MaxTx = 1
  MaxHeight = 4
  MaxDropped = 0
INVARIANTS UnlockRefuses
