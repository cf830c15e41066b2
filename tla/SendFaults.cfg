SPECIFICATION Spec
CONSTANTS
  p1 = p1
  p2 = p2
  Procs = {p1, p2}
  Source <- MCSource
  Own <- MCOwn
  Foreign <- AllMints
  Opening <- OneNote
  Operator = TRUE
  Amount = 1
  Activation = 1
  WindowW = 2
  KMin = 1
  KWallet = 2
  RetainExtra = 1
  UnlockForce = TRUE
  Faults = {"lost", "crash", "evict", "return", "remine", "busy"}
  MaxTx = 2
  MaxHeight = 5
  MaxDropped = 2
CONSTRAINT FaultBound
INVARIANTS TypeOK ScanExact Lands NoPhantomNotes
