SPECIFICATION Spec
CONSTANTS
  Err = Err
  Failed = Failed
  None = None
  Empty = Empty
  Damaged = Damaged
  File <- Files
  Scenarios <- AllScenarios
  Names <- FileNames
  Lower <- LowerPaths
  Strays <- StrayEntries
CHECK_DEADLOCK FALSE
INVARIANTS MergedTreeIsChangeset AttributesRestored IntactLayerIsStored NothingUnverifiedStays
PROPERTIES LayerEnds
