SPECIFICATION Spec
CONSTANTS
  a = a
  b = b
  m1 = m1
  m2 = m2
  m3 = m3
  ping = ping
  End = {a, b}
  Message = {m1, m2, m3}
  Beacon = {ping}
  NoBody = NoBody
  Garbled = Garbled
  Role <- InitiatorAndResponder
  Profile <- OneProfile
  Window <- Windows4And3
  Accepts <- AcceptAll
  Segments <- ShortSegments
  MaxSegments = 2
  Outbox <- SendBothWays
  MaxRetries = 1
  OutQueueFrames = 4
  DupCacheEntries = 2
  SessionIds = {1, 2}
  AirFrames = 1
  Patient = TRUE
  Limit <- TwoDisturbances
INVARIANTS
  DeliveredOnce
  QueuedIsCanonical
  DeliveredIntact
  OneSession
PROPERTIES
  DeliversAsPromised
  StagedUntilCollected
CHECK_DEADLOCK FALSE
