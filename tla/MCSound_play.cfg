\* Frames that fit, that wrap and that exceed the ring; a queue that overflows and runs dry.
CONSTANTS
  Capacity = 3
  Maximum = 2
  Request = 2
  MaxChunk = 3
  FrameSizes = {1, 2, 5}
  MaxFrames = 10
SPECIFICATION Spec
INVARIANTS TypeOK RingHoldsLatest
PROPERTIES EachFrameOnce
