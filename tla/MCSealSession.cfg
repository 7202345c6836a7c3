CONSTANTS
  h1 = h1
  h2 = h2
  add = add
  rename = rename
  Free = Free
  Handle <- MCHandle
  Edit <- MCEdit
  SectionLengths <- RenameKeepsLengths
  Locking = "session"
  DirectorySyncs = TRUE
  MaxSalt = 1
SPECIFICATION Spec
INVARIANT ReportedKept
INVARIANT NotRefusedAlone
