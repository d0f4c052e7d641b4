SPECIFICATION FairSpec
CONSTANTS
  j1 = j1
  j2 = j2
  rami = rami
  sami = sami
  lina = lina
  g1 = g1
  None = None
  Nobody = Nobody
  Jobs = {j1}
  Rows <- Siblings
  Forms <- Brother
  Ids = {g1}
  Workers = {w1, w2}
  Clerks = {c1}
  BatchSize = 1
  MaxFaults = 1
  MaxRegistered = 1
INVARIANT TypeOK
INVARIANT FinalCountersExact
PROPERTY RefusalsHaveReasons
PROPERTY NoneInClosedYear
PROPERTY ImplementsPromise
PROPERTY ProgressNeverGoesBack
PROPERTY JobsFinish
