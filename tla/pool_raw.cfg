SPECIFICATION HeapSpec
CONSTANTS
  Arena = 28
  Hdr = 2
  MinSplit = 3
  Align = 2
  Data = {"d1", "d2"}
  Owners = {"none"}
  BlockSizes = {1, 4, 5}
INVARIANT ChunkListIsWellFormed
INVARIANT AccountsAreExact
INVARIANT BlocksArePrivate
INVARIANT EmptyHeapIsOneChunk
