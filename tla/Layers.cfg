SPECIFICATION Spec
CONSTANTS
  Images <- MCImages
  Provides <- MCProvides
  Modes <- MCModes
  Default = "0755"
  None = None
  Edits = 2
  Faults = 1
INVARIANTS ShowsAllLayers LeavesNothingElse RefreshNotices MergeRepeats
