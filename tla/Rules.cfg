SPECIFICATION Spec
CONSTANTS
  m1 = m1
  m2 = m2
  m0 = m0
  t1 = t1
  t1b = t1b
  t2 = t2
  t3 = t3
  t4 = t4
  forged = forged
  inflate = inflate
  twice = twice
  early = early
  junk = junk
  memo = memo
  s1 = s1
  s2 = s2
  b1 = b1
  b2 = b2
  b3 = b3
  b4 = b4
  x = x
  Txid <- MCTxid
  Carrier <- MCCarrier
  Source <- MCSource
  Activation = 2
  WindowW = 2
  KMin = 1
  RetainExtra = 0
  MaxRejections = 2
  Procs = {p1}
  BlockId = {0}
  ActivationHash <- Premine
  ReorgDuringSync = FALSE
  MaxHeight = 5
  TxLists <- RulesLists
  MaxReorgs = 0
INVARIANTS SpendsAreBacked AnchorsRetained Solvent Faithful
