SPECIFICATION FairSpec
CONSTANTS
  bp1 = bp1
  bp2 = bp2
  Addresses = {bp1, bp2}
  Traces <- OneOrBoth
  Counts = {0, 1}
  Tools = {"probe", "screen", "wait-screen", "type", "trace", "console"}
  None = None
  MaxSessions = 2
  MaxStops = 2
  Planes = 2
  Colours = 2
  Adapters <- LeftByGuest
  MaxFaults = 1
INVARIANTS
  TypeOK
  SoundReading
  PausedOnlyWhileConnected
  TraceArmed
  CaptureFaithful
  CaptureRestores
PROPERTIES
  CommandEnds
CHECK_DEADLOCK FALSE
