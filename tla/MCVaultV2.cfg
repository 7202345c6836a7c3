SPECIFICATION Spec
CONSTANTS
  Handle = {h1, h2}
  x = x
  y = y
  none = none
  short = short
  long = long
  Name = {x, y}
  MaxDepth = 2
  Content <- MCContent
  ChunkTotal <- MCChunkTotal
  Batch <- MCBatch
  Setting <- MCSetting
  Start <- MCStart
  Asked <- MCAsked
  Gone = Gone
  MaxSaves = 2
SYMMETRY Interchangeable
INVARIANTS TypeOK EntriesRead ExtractsRight ExtractsUnlessClash ManifestSound ReturnedIsStable
