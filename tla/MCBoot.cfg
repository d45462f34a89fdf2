\* Two tenants and two edits; the port of the second may be taken.
CONSTANTS
  PathOrder <- MCPathOrder
  Names = {"first", "second"}
  Starts <- MCStarts
  EditedFolders <- MCEditedFolders
  Invocations <- MCInvocations
  MaxEdits <- MCMaxEdits
SPECIFICATION Spec
INVARIANTS
  ServedAsWritten
  BootsOrRefuses
  PuppetsStay
  SeenAsMeant
\* With an empty catalogue and the folder given, nothing can be served.
CHECK_DEADLOCK FALSE
