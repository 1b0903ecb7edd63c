SPECIFICATION FairSpec
CONSTANTS
  p = p
  q = q
  d1 = d1
  d2 = d2
  d3 = d3
  Procs <- MCTwo
  NoProc = NoProc
  Loops <- MCTwoLoops
  Disk = Disk
  NoFile = NoFile
  Other = Other
  NoName = NoName
  Attempts = 2
  BusyRetries = 1
  Bounds <- MCProgress
CHECK_DEADLOCK FALSE
PROPERTY MountEnds
