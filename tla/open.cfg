\* A session from Open to Close on every platform.
CONSTANTS
  NaN = NaN
  Infinity = Infinity
  Configs <- MCConfigs
  DBusErrors <- MCErrors
  MaxSignals = 2
  Authorizations <- MCAuthorizations
  MaxCallbacks = 2
  Statuses <- MCStatuses
  Platforms = {"linux", "darwin", "windows", "other"}
SPECIFICATION FairSpec
INVARIANTS
  TypeOK
  ConfigResolved
  OneConnection
  HeldIsOwn
  ClosedIsClean
  LossIsTold
  RefusalIsFinal
  PermissionIsCurrent
  EventsHaveHandlers
PROPERTIES
  ReturnsIfAnswered
  Reconnects
  RequestEnds
CHECK_DEADLOCK FALSE
