SPECIFICATION Spec
CONSTANTS
  Low = {"a", "b"}
  High = {"c", "n"}
  Forgiven = {"a"}
  Kind <- Kinds
  Size <- Bytes
  Children = 2
  Slots = 2
  Total = 6
  Sels = {1, 2}
  Wrap = 3
  Needs = {4}
INVARIANT CacheIsConsistent
PROPERTY EvictionIsTheLastResort
PROPERTY RequestsAreAnswered
