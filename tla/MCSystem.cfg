\* Everything may have ended: the proxy for the last time, the publishers and the subscriber.
CHECK_DEADLOCK FALSE
SPECIFICATION FairSpec
CONSTANTS
  p1 = p1
  p2 = p2
  Publishers <- TwoPublishers
  MaxPosts = 2
  MaxStarts = 2
INVARIANTS
  TypeOK
  PublishedNeverGoesBack
PROPERTIES
  PostsReachSubscriber
  OnePublicationPerSample
  PublisherEnds
  NewestIsPrinted
