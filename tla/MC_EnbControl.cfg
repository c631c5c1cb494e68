CONSTANTS
  NTtiMod = 10
  NHfn = 2
  PrachPeriod = 10
  PrachStart = 2
  PoolSize = 1
  Rntis <- MCRntis
  MaxInputs = 4
  MaxSyncLag = 2
SPECIFICATION CtrlSpec
INVARIANT CtrlTypeOK
INVARIANT PrachBuffersConserved
PROPERTY TxClockRefined
PROPERTY ReleaseRemovesUser
