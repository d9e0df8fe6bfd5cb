SPECIFICATION FairSpec
CONSTANTS
  Capture = {microphone}
  Playback = {speaker}
  Host = Host
  PipeBlocks = 2
  WriteBlocks = 3
  Polls = 2
INVARIANTS
  TypeOK
  NothingLeftBehind
PROPERTIES
  SignalsReachTheChild
  CloseReturns
  PipeReallyCloses
CHECK_DEADLOCK FALSE
