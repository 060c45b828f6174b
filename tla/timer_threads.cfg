CONSTANTS
  ScaleMs = 1
  WheelSize = 2
  MaxWheels = 3
  StartMs = 0
  Callers = {c1, c2}
  Boss = boss
  Tasks = {t1, t2}
  Entries = {1, 2}
  Delays = {1, 3}
  MaxTime = 3
  ExecutorCapacity = 1
  NoTask = NoTask
  NoEntry = NoEntry
  NoBucket = NoBucket
SPECIFICATION Spec
SYMMETRY Symmetry
CHECK_DEADLOCK FALSE
INVARIANTS
  TypeOK
  AtMostOnce
  NoLostEntry
  LinkFindsUnlinked
PROPERTIES
  CancelIsFinal
  KeepsPromise
