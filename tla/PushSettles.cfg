SPECIFICATION FairSpec
CONSTANTS
  n1 = n1
  n2 = n2
  d1 = d1
  d2 = d2
  g1 = g1
  g2 = g2
  Notifications = {n1}
  Devices = {d1}
  Guardians = {g1}
  Recipient <- OneGuardian
  Workers = {w1, w2}
  Tokens = {t1, t2, t3}
  NoToken = NoToken
  Unregistered = Unregistered
  Removed = Removed
  MaxAttempts = 1
  BatchSize = 1
  ExpireChunk = 1
  SendChunkSize = 1
  PushSettings = {TRUE}
  LateSends = TRUE
  MaxFaults = 1
INVARIANT SentWasAccepted
PROPERTY SettledIsFinal
PROPERTY EventuallySettled
