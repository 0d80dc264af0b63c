CONSTANTS
  Versions <- EveryVersion
  Contents <- SmallContents
  MaxItems = 2
  LegacyCounts <- Legacy
SPECIFICATION Spec
INVARIANTS
  TypeOK
  FlagsFound
  SuffixSkippedIffLong
PROPERTIES
  AgreeOutsideGaps
  GapsAreReal
