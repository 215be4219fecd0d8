SPECIFICATION Spec
CHECK_DEADLOCK FALSE
CONSTANTS
  base = base
  left = left
  right = right
  top = top
  Package = {base, left, right, top}
  Thread = {t1, t2}
  NoPackage = NoPackage
  Deps1 <- MCDeps1
  Reach <- MCReach
  Specified <- MCSpecified
  Trees <- MCTrees
  Options <- MCOptions
  HackLimit = 2
  MaxSession = 2
INVARIANTS BuildOrderSound SessionReportSound
PROPERTIES SessionEnds
