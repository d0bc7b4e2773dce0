SPECIFICATION Spec
CONSTANTS
  Cap = 2
  Inbound <- Publishes2
  NSamples = 2
  MaxOom = 0
INVARIANTS
  TypeOK
  MqttToDdsInOrder
  MqttToDdsNoGap
  OneOwner
  PublishedNeverOlder
  ForwardedWithinLifetime
PROPERTIES
  MqttToDdsIsChannel
  DdsToMqttIsChannel
