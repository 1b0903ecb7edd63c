SPECIFICATION FairSpec
CONSTANTS
  i1 = i1
  i2 = i2
  s1 = s1
  s2 = s2
  u1 = u1
  u2 = u2
  u3 = u3
  timer = timer
  bad = bad
  Images = {i1, i2}
  Services = {s1, s2}
  Host = Host
  NoService = NoService
  Ships <- MCShips
  Units <- MCUnits
  ServiceOf <- MCServiceOf
  Valid <- MCValid
  Restart <- MCRestart
  Reload <- MCReload
  Reloadable = {s2}
  Procs = {p1, p2}
  NoProc = NoProc
  H = {h1, h2}
  Fits = {i1, i2}
  p1 = p1
  p2 = p2
  Bounds <- MCBounds
INVARIANTS RefreshedIsCurrent RestartedRunMerged NeverHalfMerged
PROPERTIES StoppedBeforeUnmerged VerbEnds
