SPECIFICATION FramingFairSpec
CONSTANTS
  Total <- Frames
  Cap = 8
  MaxShort = 3
INVARIANTS FramingTypeOK StaysInBuffer FramesIntact NeverCrashes
PROPERTIES EveryFrameDelivered
CHECK_DEADLOCK FALSE
