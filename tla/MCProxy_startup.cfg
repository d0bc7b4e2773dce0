SPECIFICATION Spec
CONSTANTS
  Cap = 3
  Inbound <- Publishes2
  NSamples = 1
  MaxOom = 0
INVARIANT
  ProxyStarts
