SPECIFICATION Spec
CONSTANTS
  Native = "native"
  Secondary = "secondary"
  Foreign = "foreign"
  NoArch = "none"
  MaxUnsigned = 80
  None = None
  Dirs = 2
  ClassSuffix = ".sysext"
  Versions <- MCVersions
  AtFirst <- MCTrees
  Changing <- MCChanging
  Text <- MCText
CHECK_DEADLOCK FALSE
INVARIANTS FirstIsFound NewestIsPicked ImagesSorted StableIsFound
