\* A ring of three bytes, stores of one or two, one mark slot for two retraces.
SPECIFICATION FairSpec
CONSTANTS
  Size = 3
  PublishEvery = 2
  Chunk = 2
  MarkSlots = 1
  StoreSizes = {1, 2}
  MaxBytes = 4
  MaxMarks = 2
  MaxDones = 1
INVARIANTS RingInv NoLostWakeup
PROPERTIES DrainMeansParsed StreamRuns
\* The game may stop writing, and the ring then rests.
CHECK_DEADLOCK FALSE
