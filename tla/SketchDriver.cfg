CONSTANTS
  Depth = 3
  MaxSteps = 2
  MaxBeats = 2
  MaxFrames = 3
SPECIFICATION FairDSpec
INVARIANTS PushServed PresentSound
PROPERTIES PresentReturns IsDoubleBuffer
