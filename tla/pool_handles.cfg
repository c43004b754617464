SPECIFICATION Spec
CONSTANTS
  Arena = 15
  Hdr = 2
  MinSplit = 3
  Align = 1
  Data = {"d1", "d2"}
  Owners <- SlotsAsOwners
  Slots = 3
  Sizes = {1, 3, 5}
  MaxLocks = 1
INVARIANT PoolInvariant
INVARIANT StaleAddressIsFlagged
INVARIANT CompactionDefeatsFragmentation
PROPERTY ImplementsHandleStore
