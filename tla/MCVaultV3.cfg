CONSTANTS
  a = a
  b = b
  c1 = c1
  c2 = c2
  c3 = c3
  large = large
  Unreadable = Unreadable
  Dir = Dir
  Name <- MCName
  MaxDepth = 2
  Chunk <- MCChunk
  Oversized <- MCOversized
  AddJobs <- MCAddJobs
  DeleteJobs <- MCDeleteJobs
  MaxOps = 4
SPECIFICATION Spec
INVARIANT TypeOK
INVARIANT TreeWellFormed
INVARIANT StoreConsistent
INVARIANT ChunksPresent
PROPERTY DeleteErases
PROPERTY ImplementsTree
