\* Two goroutines broadcast while a subscription and a waiter come and go and
\* two goroutines close the hub.
CONSTANTS
  s1 = s1
  s2 = s2
  Broadcasters = {b1, b2}
  Subs = {s1}
  Waiters = {w1}
  Closers = {c1, c2}
  Nobody = nobody
  MaxBroadcasts = 1
  MaxRemoves = 1
  Used = {"fix", "status"}
  Payload <- MCPayload
  Buffer <- OneSlot
  Policy <- AllOldest
SPECIFICATION Spec
SYMMETRY MCSymmetry
INVARIANTS
  HubTypeOK
  NoSendOnClosed
  NoDoubleClose
  ClosedHubIsEmpty
  WakesEveryWaiter
  HolesAreOwned
CHECK_DEADLOCK FALSE
