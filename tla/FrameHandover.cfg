\* Two buffers, three pictures.
SPECIFICATION FairSpec
CONSTANTS
  Buffers = {b1, b2}
  NoBuffer = none
  MaxFrames = 3
INVARIANTS FrameInv IdleMeansShown
PROPERTIES HandedForward EveryFrameShown
\* The run ends.
CHECK_DEADLOCK FALSE
