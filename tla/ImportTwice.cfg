SPECIFICATION Spec
CONSTANTS
  j1 = j1
  j2 = j2
  rami = rami
  sami = sami
  lina = lina
  g1 = g1
  None = None
  Nobody = Nobody
  Jobs = {j1, j2}
  Rows <- Twins
  Forms = {}
  Ids = {}
  Workers = {w1, w2}
  Clerks = {}
  BatchSize = 1
  MaxFaults = 0
  MaxRegistered = 1
SYMMETRY Interchangeable
PROPERTY NoDuplicateImport
