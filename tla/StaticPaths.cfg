CONSTANTS
  Char <- MCChar
  Requests <- MCRequests
  InitPaths <- MCInitPaths
  InitOptions <- twoNull
  PathSets <- MCPathSets
  RemoveLists <- MCRemoveLists
  OptionSets <- MCOptionSets
  Files <- MCFiles
  Mtime = 2
  MaxCalls = 2
SPECIFICATION Spec
INVARIANTS TypeOK MatchIsMostSpecific OptionsInherited ServedFileIsBelowPath
PROPERTIES EveryRequestDecided
CHECK_DEADLOCK FALSE
