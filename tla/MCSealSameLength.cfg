CONSTANTS
  h1 = h1
  h2 = h2
  add = add
  rename = rename
  Free = Free
  Handle <- MCHandle
  Edit <- MCEdit
  SectionLengths <- RenameKeepsLengths
  Locking = "call"
  DirectorySyncs = TRUE
  MaxSalt = 1
SPECIFICATION Spec
PROPERTY StaleRefused
