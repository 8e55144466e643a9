CONSTANTS
  MaxEvents = 4
  Events <- MCEvents
  Torn = Torn
  Unreadable = Unreadable
  Line = 2
  Part = 1
  QueueCap = 7
  BatchEvents = 2
  MaxFaults = 2
  MaxStops = 1
SPECIFICATION Spec
INVARIANTS
  TypeOK
  RecordedOnce
  NothingLost
  CapHolds
PROPERTIES
  Delivered
  TrailSpec
CHECK_DEADLOCK FALSE
