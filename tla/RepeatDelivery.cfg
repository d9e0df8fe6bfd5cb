SPECIFICATION TimedSpec
CONSTANTS
  a = a
  b = b
  m1 = m1
  m2 = m2
  m3 = m3
  ping = ping
  End = {a, b}
  Message = {m1, m2, m3}
  Beacon = {ping}
  NoBody = NoBody
  Garbled = Garbled
  Role <- InitiatorAndResponder
  Profile <- OneProfile
  Window <- Windows4
  Accepts <- AcceptAll
  Segments <- SegmentsOf
  MaxSegments = 3
  Outbox <- Send2
  MaxRetries = 5
  OutQueueFrames = 6
  DupCacheEntries = 2
  SessionIds = {1, 2}
  AirFrames = 1
  Patient = FALSE
  Limit <- Unlimited
  Airtime = 4
  Bursts = 1
  Repeats = 0
INVARIANTS
  DeliveredOnceInTime
CHECK_DEADLOCK FALSE
