SPECIFICATION Spec
CONSTANTS
  Cap = 3
  Inbound <- Publishes2
  NSamples = 2
  MaxOom = 0
INVARIANT
  PublishedIsTheSample
