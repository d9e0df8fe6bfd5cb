SPECIFICATION FairSpec
CONSTANTS
  a = a
  b = b
  m1 = m1
  m2 = m2
  m3 = m3
  ping = ping
  End = {a, b}
  Message = {m1, m2, m3}
  Beacon = {ping}
  NoBody = NoBody
  Garbled = Garbled
  Role <- InitiatorAndResponder
  Profile <- OneProfile
  Window <- Windows1
  Accepts <- BobAcceptsShort
  Segments <- SegmentsOf
  MaxSegments = 3
  Outbox <- Send1
  MaxRetries = 1
  OutQueueFrames = 6
  DupCacheEntries = 2
  SessionIds = {1, 2}
  AirFrames = 1
  Patient = TRUE
  Limit <- NoDisturbance
PROPERTIES
  TransferResolves
CHECK_DEADLOCK FALSE
