CONSTANTS
  PageSize = 2
  MaxSize = 4
  Lower <- NewFile
  Gaps = TRUE
  Grows = FALSE
  CrashModes <- NoCrashes
SPECIFICATION Spec
INVARIANT FileContents
