\* Two callers of Close and one of Next or Current while one goroutine
\* publishes: everything returns, and what is returned is new.
CONSTANTS
  Publishers = {p1}
  Callers = {w1}
  Subscribers = {}
  Closers = {c1, c2}
  Nobody = nobody
  Buffer <- MCSlots
  Policy <- MCPolicy
  Replay <- MCReplay
  Reports <- Lost
  Stops = {TRUE}
  MaxPublishes = 2
SPECIFICATION FairSpec
INVARIANTS
  CloseIsComplete
  NextIsNew
PROPERTIES
  CloseReturns
  ClosedReleases
CHECK_DEADLOCK FALSE
