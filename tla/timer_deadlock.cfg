CONSTANTS
  ScaleMs = 1
  WheelSize = 2
  MaxWheels = 2
  StartMs = 0
  Callers = {c1}
  Boss = boss
  Tasks = {t1}
  Entries = {1}
  Delays = {1}
  MaxTime = 2
  ExecutorCapacity = 1
  NoTask = NoTask
  NoEntry = NoEntry
  NoBucket = NoBucket
SPECIFICATION Spec
CHECK_DEADLOCK FALSE
INVARIANT NoMonitorCycle
