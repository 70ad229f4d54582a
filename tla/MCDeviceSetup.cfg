CONSTANTS
  Scan <- MCScan
  Entries <- MCEntries
  Saves <- MCSaves
  Absent = absent
  Failures = {TRUE, FALSE}
  Cuts = 1
  BackoffMin = 1
  BackoffMax = 4
SPECIFICATION Spec
INVARIANTS SavedIsDurable ChoiceIsTaken NeverStranded ServicesStartOnce
PROPERTIES RequestHonoured UnreachableOpensPortal
