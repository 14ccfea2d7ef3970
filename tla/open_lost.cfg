\* A connection that comes back without authenticating: nobody retries.
CONSTANTS
  NaN = NaN
  Infinity = Infinity
  Configs <- MCConfigs
  DBusErrors <- MCErrors
  MaxSignals = 2
  Authorizations <- MCAuthorizations
  MaxCallbacks = 2
  Statuses <- MCStatuses
  Platforms = {"linux"}
SPECIFICATION FairSpec
INVARIANTS
  ReconnectingIsRetrying
CHECK_DEADLOCK FALSE
