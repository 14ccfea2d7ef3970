\* One goroutine broadcasts to two subscriptions of different policies, whose
\* readers race it.
CONSTANTS
  s1 = s1
  s2 = s2
  Broadcasters = {b1}
  Subs = {s1, s2}
  Waiters = {}
  Closers = {}
  Nobody = nobody
  MaxBroadcasts = 4
  MaxRemoves = 1
  Used = {"fix"}
  Payload <- MCPayload
  Buffer <- MixedSlots
  Policy <- MixedPolicy
SPECIFICATION Spec
INVARIANTS
  InOrder
  DropOldestDelivers
PROPERTIES
  DropNewestKeeps
CHECK_DEADLOCK FALSE
