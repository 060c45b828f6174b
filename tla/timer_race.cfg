CONSTANTS
  ScaleMs = 1
  WheelSize = 2
  MaxWheels = 2
  StartMs = 0
  Callers = {c1, c2}
  Boss = boss
  Tasks = {t1, t2, t3}
  Entries = {1, 2, 3}
  Delays = {1, 2}
  MaxTime = 2
  ExecutorCapacity = 3
  NoTask = NoTask
  NoEntry = NoEntry
  NoBucket = NoBucket
SPECIFICATION Spec
SYMMETRY Symmetry
CONSTRAINT Uninterrupted
CHECK_DEADLOCK FALSE
INVARIANT SameExpiration
