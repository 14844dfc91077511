SPECIFICATION FramingSpec
CONSTANTS
  Total <- Frames
  Cap = 8
  MaxShort = 3
PROPERTY ReceivedIsKept
CHECK_DEADLOCK FALSE
