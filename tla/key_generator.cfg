CONSTANTS
  n1 = n1
  n2 = n2
  Nodes <- MCNodes
  workId <- MCworkId
  WorkerIds = 2
  SEQUENCE_MASK = 1
  MaxTime = 4
SPECIFICATION Spec
INVARIANTS
  TypeOK
  UniqueKeys
PROPERTIES
  KeysGrow
