SPECIFICATION Spec
CONSTANTS
  NCells = 1
  Panel = {1}
  Paths = {"flip", "gdv"}
  LfbModes = {FALSE}
  MaxTries = 2
  MaxScene = 1
  MaxPub = 1
  Endless = TRUE
PROPERTY PresentsForever
