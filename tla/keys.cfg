SPECIFICATION Spec
CONSTANTS
  Keys = {"lshift", "up", "fire"}
  CodeOf <- ShiftCursorFire
  Extended = {"up"}
  Modifiers = {"sc36"}
  ShmCap = 3
  QueueCap = 2
  RingSlots = 3
  MaxSent = 5
INVARIANT EventsStayInOrder
INVARIANT DrainedBitmapIsCurrent
INVARIANT InputRingConserves
PROPERTY ReleasedKeyClears
