SPECIFICATION TimedFairSpec
CONSTANTS
  a = a
  b = b
  m1 = m1
  m2 = m2
  m3 = m3
  ping = ping
  End = {a, b}
  Message = {m1, m2, m3}
  Beacon = {ping}
  NoBody = NoBody
  Garbled = Garbled
  Role <- InitiatorAndResponder
  Profile <- OneProfile
  Window <- Windows2
  Accepts <- AcceptAll
  Segments <- SegmentsOf
  MaxSegments = 3
  Outbox <- Send13
  MaxRetries = 4
  OutQueueFrames = 6
  DupCacheEntries = 1
  SessionIds = {1, 2}
  AirFrames = 1
  Patient = FALSE
  Limit <- Unlimited
  Airtime = 4
  Bursts = 1
  Repeats = 1
INVARIANTS
  TimersOK
  PunctualInSilence
  ConfirmedInSilence
  DeliveredOnceInTime
PROPERTIES
  OutageSurvived
  Spec
CHECK_DEADLOCK FALSE
