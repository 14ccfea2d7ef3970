\* A service that falls silent: start-up does not end with its timeout.
CONSTANTS
  NaN = NaN
  Infinity = Infinity
  Configs <- MCConfigs
  DBusErrors <- MCErrors
  MaxSignals = 2
  Authorizations <- MCAuthorizations
  MaxCallbacks = 2
  Statuses <- MCStatuses
  Platforms = {"linux"}
SPECIFICATION FairSpec
PROPERTIES
  OpenReturns
CHECK_DEADLOCK FALSE
