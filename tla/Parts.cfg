SPECIFICATION PartsSpec
CONSTANTS
  Depth = 3
  Width <- TreeWidth
  Zero <- TreeZero
  Empty <- TreeEmpty
  Leaves <- TreeLeaves
  MaxLeaves = 5
  Dust = 8
  Passes = 6
  Base = 3
  In = 4
  Change = 2
  Slack = 1
  Rates = {1, 2}
  Coins <- CarrierCoins
  Amounts <- CarrierAmounts
  MaxSat = 128
  Networks = {"signet", "bitcoin"}
  Expected = "signet"
  MaxBlockTxs = 2
  MaxTxs = 2
  MaxId = 6
  MaxPushes = 1
  MaxLine = 2
  P = 13
  ValueBound = 2
  NIn = 2
  NOut = 2
  Tries = 3
  EdwardsD = 2
  NonResidue = 7
  ByteValues = 6
  NInputs = 2
  NOutputs = 2
  ScriptLens = {1, 2, 3, 34, 35, 36}
  Values = {0}
  Magic = 1
  Version = 1
  KindTransfer = 1
  KindMint = 2
  p1 = p1
  p2 = p2
  Procs = {p1, p2}
  Creators = {p1}
  Inodes = {1, 2, 3, 4}
  MaxChanges = 3
  MaxLosses = 1
INVARIANTS OwnAnswer WholeBlock Recovers
INVARIANTS CarrierPays NotOverpaid VaultPays Converges
INVARIANTS TreeIsRight PathProves PrefixRoot
INVARIANTS Conserved SameBase Provable
INVARIANTS OneEncoding ReadsBack
INVARIANTS AckedDurable WholeFile NoStrayTmp
PROPERTY CallEnds
CHECK_DEADLOCK FALSE
