CONSTANTS
  h1 = h1
  h2 = h2
  add = add
  rename = rename
  Free = Free
  Handle <- MCHandle
  Edit <- MCEdit
  SectionLengths <- DistinctLengths
  Locking = "call"
  DirectorySyncs = TRUE
  MaxSalt = 1
SPECIFICATION Spec
INVARIANTS
  TypeOK
  FileWhole
PROPERTIES
  PasswordNeverReverts
  ImplementsRegister
