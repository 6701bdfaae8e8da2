\* Five pieces: an array of two names with prose, or a bracket, before or behind.
CONSTANTS
  MaxPieces = 5
  Refs <- MCRefs
  Ctes <- MCCtes
  Sources <- MCSources
\* A text is judged once.
CHECK_DEADLOCK FALSE
SPECIFICATION Spec
INVARIANTS
  TextlessIsAnError
  NamedTablesAreSelected
  FencedSqlIsExtracted
  InventedTablesPassOnlyUnseen
  RealTablesAreRefusedOnlyMisread
