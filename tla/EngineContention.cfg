SPECIFICATION FairSpec
CONSTANTS
  Procs = {p1, p2}
  NoProc = NoProc
  N = 2
  a = a
  b = b
  c = c
  s1 = s1
  s2 = s2
  Exts = {a, b, c}
  Provides <- MCProvides
  Subs = {s1, s2}
  Home <- MCHome
  Base = Base
  Nexts = {n1, n2}
  NoDir = NoDir
  Requests <- FewRequests
  Fallible <- AllSteps
  MaxFaults = 2
  MaxCrashes = 1
INVARIANTS TypeOK NeverStacked NeverMixed
PROPERTY OperationsEnd
