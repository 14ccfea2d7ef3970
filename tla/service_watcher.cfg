\* A subscription nobody reads, and its watcher.
CONSTANTS
  Publishers = {p1}
  Callers = {}
  Subscribers = {s1}
  Closers = {c1}
  Nobody = nobody
  Buffer <- MCSlots
  Policy <- MCPolicy
  Replay <- MCReplay
  Reports <- Lost
  Stops = {TRUE}
  MaxPublishes = 2
SPECIFICATION FairSpec
PROPERTIES
  PublishReturns
  ClosedReleases
CHECK_DEADLOCK FALSE
