\* Two goroutines publish samples of every kind under a clock that is set.
CONSTANTS
  Publishers = {p1, p2}
  NaN = nan
  Unset = unset
  MaximumAge = 2
  MinimumInterval = 2
  MinimumDistance = 2
  MaxClockSkew = 1
  MaxFloat = 1000
  Positions <- MCPositions
  Ages <- MCAges
  Steps <- MCSteps
  MaxTime = 3
  MaxSteps = 1
SPECIFICATION Spec
SYMMETRY MCSymmetry
INVARIANTS
  BaselineIsUsable
PROPERTIES
  AdmittedApart
  RedundantIsSoon
CHECK_DEADLOCK FALSE
