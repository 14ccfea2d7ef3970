\* One publishing goroutine, one subscription, and a Close, with a provider
\* of either kind.
CONSTANTS
  Publishers = {p1}
  Callers = {}
  Subscribers = {s1}
  Closers = {c1}
  Nobody = nobody
  Buffer <- MCSlots
  Policy <- MCPolicy
  Replay <- MCReplay
  Reports <- Lost
  Stops = {TRUE, FALSE}
  MaxPublishes = 2
SPECIFICATION Spec
INVARIANTS
  CacheIsNewest
  PrimedOrCurrent
  FixesInOrder
  ReadyBeforeFix
PROPERTIES
  StoppedIsTerminal
  NothingAfterClose
  HubSpec
CHECK_DEADLOCK FALSE
