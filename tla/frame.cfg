SPECIFICATION Spec
CONSTANTS
  NCells = 2
  Panel = {2}
  Paths = {"vga13h", "flip", "popup", "corner", "gdv"}
  LfbModes = {TRUE, FALSE}
  MaxTries = 2
  MaxScene = 3
  MaxPub = 2
  Endless = FALSE
INVARIANT StableUploadSpansTwoPublications
INVARIANT PublishesFinishedFlips
PROPERTY PanelKeepsOverlay
