SPECIFICATION NicFairSpec
CONSTANTS
  Frame <- Frames
  NoFrame = NoFrame
  Torn = Torn
  Erased = Erased
  Size = 3
  RingSize = 12
  Word = 2
  Crc = 1
  RegMod = 24
  Gap = 2
  Faults = TRUE
INVARIANTS NoLostWakeUp InStep FrameIsAnnounced
PROPERTIES FifoSpec FramesIntact EveryFrameHandled
