CONSTANTS
  PageSize = 2
  MaxSize = 4
  Lower <- LowerFile
  Gaps = FALSE
  Grows = FALSE
  CrashModes <- KillsOrPower
SPECIFICATION Spec
INVARIANTS FileContents Readable Restorable
