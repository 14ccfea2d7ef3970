\* Three goroutines update the tracker twice each.
CONSTANTS
  Reporters = {r1, r2, r3}
  Free = free
  Reports <- MCReports
  Messages <- MCMessages
  MaxReports = 2
SPECIFICATION Spec
INVARIANTS
  WordAgrees
PROPERTIES
  ChangesAreTold
  PermissionKept
CHECK_DEADLOCK FALSE
