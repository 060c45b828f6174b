CONSTANTS
  ScaleMs = 2
  WheelSize = 2
  MaxWheels = 3
  StartMs = 1
  Callers = {c1}
  Boss = boss
  Tasks = {t1, t2}
  Entries = {1, 2}
  Delays = {1, 5}
  MaxTime = 7
  ExecutorCapacity = 2
  NoTask = NoTask
  NoEntry = NoEntry
  NoBucket = NoBucket
SPECIFICATION SerialSpec
CHECK_DEADLOCK FALSE
INVARIANTS
  SameExpiration
  WheelsAgree
  NoReinsertion
PROPERTIES
  NotEarly
  EntryServed
