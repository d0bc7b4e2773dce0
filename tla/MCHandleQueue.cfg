SPECIFICATION Spec
CONSTANTS
  recv = recv
  mqtt = mqtt
  dds = dds
  Queues <- ProxyQueues
  Cap = 4
  MaxAppends = 5
INVARIANTS
  TypeOK
  NoUnderflow
PROPERTIES
  Implements
  GivesUpOnlyWhenEmpty
