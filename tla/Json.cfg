SPECIFICATION Spec
CONSTANTS
  MaxItems = 14
  NestingLimit = 2
  Texts <- MCTexts
  Items <- MCItems
  Rows <- MCRows
  Names = {4}
  Patching <- MCPatches
  Shortages = {2, 14}
  MaxCalls = 3
INVARIANTS WellFormed RoundTrip
PROPERTIES ImplementsValues
CHECK_DEADLOCK FALSE
