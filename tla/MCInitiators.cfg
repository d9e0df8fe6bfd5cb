SPECIFICATION FairSpec
CONSTANTS
  a = a
  b = b
  m1 = m1
  m2 = m2
  m3 = m3
  ping = ping
  End = {a, b}
  Message = {m1, m2, m3}
  Beacon = {ping}
  NoBody = NoBody
  Garbled = Garbled
  Role <- TwoInitiators
  Profile <- OneProfile
  Window <- Windows2
  Accepts <- AcceptAll
  Segments <- SegmentsOf
  MaxSegments = 3
  Outbox <- SendEach
  MaxRetries = 2
  OutQueueFrames = 6
  DupCacheEntries = 2
  SessionIds = {1, 2}
  AirFrames = 1
  Patient = TRUE
  Limit <- ThreeLosses
INVARIANTS
  OneSession
PROPERTIES
  CollisionSurvived
  TransferResolves
  BusyUnlessYielded
CHECK_DEADLOCK FALSE
