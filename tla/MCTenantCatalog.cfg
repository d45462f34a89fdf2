\* Two commands at once over two names, killed anywhere. A file that does not
\* load stops every command until the operator repairs it.
CONSTANTS
  inn = inn
  keep = keep
  Names = {inn, keep}
  Procs = {p1, p2}
  BasePort = 10
  MaxPort = 12
  MaxTag = 2
  Malformed = malformed
  HandEdits <- MCHandEdits
SPECIFICATION Spec
INVARIANTS
  CatalogInv
  AddedStays
  RegisteredHasConfig
CHECK_DEADLOCK FALSE
