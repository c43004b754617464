SPECIFICATION Spec
CONSTANTS
  Records = 4
  Voices = 2
  Slots = 1
  Samples = {"short","long"}
  Looping = {"short","long"}
  Ticks <- ShortAndLong
  NoSample = NoSample
  QueueCap = 3
  LockMod = 8
  MaxPlays = 4
INVARIANT RecordsAndVoicesPair
INVARIANT LiveRecordsKeepTheirSample
PROPERTY SoundsAreHeardInFull
