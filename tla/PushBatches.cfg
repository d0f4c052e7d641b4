SPECIFICATION Spec
CONSTANTS
  n1 = n1
  n2 = n2
  d1 = d1
  d2 = d2
  g1 = g1
  g2 = g2
  Notifications = {n1, n2}
  Devices = {d1}
  Guardians = {g1}
  Recipient <- OneGuardian
  Workers = {w1, w2}
  Tokens = {t1, t2, t3, t4}
  NoToken = NoToken
  Unregistered = Unregistered
  Removed = Removed
  MaxAttempts = 2
  BatchSize = 2
  ExpireChunk = 1
  SendChunkSize = 2
  PushSettings = {TRUE, FALSE}
  LateSends = FALSE
  MaxFaults = 0
SYMMETRY Interchangeable
INVARIANT NoConcurrentResend
