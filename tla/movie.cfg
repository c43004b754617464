SPECIFICATION Spec
CONSTANTS
  Stride = 2
  RingSizes <- TwoThreeAndAPart
  Lengths = {1, 2, 5}
  Sizes = {1, 2}
  MaxDrift = 1
INVARIANT KeyframesOnlyAtTheStart
INVARIANT FramesAreAccounted
PROPERTY FramesInOrder
PROPERTY MovieEnds
PROPERTY LoopKeepsTurning
CHECK_DEADLOCK FALSE
