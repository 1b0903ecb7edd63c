SPECIFICATION Spec
CONSTANTS
  Procs = {p1}
  NoProc = NoProc
  N = 2
  a = a
  b = b
  c = c
  s1 = s1
  s2 = s2
  Exts = {a, b, c}
  Provides <- MCProvides
  Subs = {s1, s2}
  Home <- MCHome
  Base = Base
  Nexts = {n1, n2}
  NoDir = NoDir
  Requests <- AllRequests
  Fallible <- AllSteps
  MaxFaults = 2
  MaxCrashes = 1
INVARIANTS MarkersIntact MergedAsAsked WorkspaceDescribesMerge UnmergeRestoresHost
PROPERTY Implements
