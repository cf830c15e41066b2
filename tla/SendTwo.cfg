SPECIFICATION Spec
CONSTANTS
  p1 = p1
  p2 = p2
  Procs = {p1, p2}
  Source <- MCSource
  Own <- MCOwn
  Foreign <- Stranger
  Opening <- OneNote
  Operator = FALSE
  Amount = 1
  Activation = 1
  WindowW = 3
  KMin = 1
  KWallet = 2
  RetainExtra = 1
  UnlockForce = FALSE
  Faults = {}
  MaxTx = 2
  MaxHeight = 4
  MaxDropped = 0
INVARIANTS LockedWhilePublished
