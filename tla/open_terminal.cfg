\* A callback that found the service open publishes after Close.
CONSTANTS
  NaN = NaN
  Infinity = Infinity
  Configs <- MCConfigs
  DBusErrors <- MCErrors
  MaxSignals = 2
  Authorizations <- MCAuthorizations
  MaxCallbacks = 2
  Statuses <- MCStatuses
  Platforms = {"windows"}
SPECIFICATION FairSpec
INVARIANTS
  ClosedIsTerminal
CHECK_DEADLOCK FALSE
