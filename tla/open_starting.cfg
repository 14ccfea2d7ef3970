\* Fixes are delivered and the status says that the provider is starting.
CONSTANTS
  NaN = NaN
  Infinity = Infinity
  Configs <- MCConfigs
  DBusErrors <- MCErrors
  MaxSignals = 2
  Authorizations <- MCAuthorizations
  MaxCallbacks = 2
  Statuses <- MCStatuses
  Platforms = {"darwin"}
SPECIFICATION FairSpec
INVARIANTS
  StartingIsWaiting
CHECK_DEADLOCK FALSE
