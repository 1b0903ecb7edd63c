SPECIFICATION Spec
CONSTANTS
  p = p
  q = q
  d1 = d1
  d2 = d2
  d3 = d3
  Procs <- MCTwo
  NoProc = NoProc
  Loops <- MCThreeLoops
  Disk = Disk
  NoFile = NoFile
  Other = Other
  NoName = NoName
  Attempts = 2
  BusyRetries = 1
  Bounds <- MCBounds
CHECK_DEADLOCK FALSE
SYMMETRY LoopSymmetry
INVARIANTS TypeOK ReleasesEverything SignedOnly MountsShowOwnImage NamesNeverCollide
