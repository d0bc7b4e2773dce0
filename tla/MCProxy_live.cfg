SPECIFICATION FairSpec
CONSTANTS
  Cap = 2
  Inbound <- ThenGarbled
  NSamples = 1
  MaxOom = 1
INVARIANTS
  OneOwner
  MqttToDdsInOrder
PROPERTIES
  QueuedIsWritten
