\* Frames of two samples, blocks of twelve (BlockOutlasts holds), ratios 2/3 and 4/3, a lead of one.
SPECIFICATION FairSpec
CONSTANTS
  FrameLen = 2
  One = 3
  MixLead = 1
  Target = 1
  HistMax = 8
  WordSpan = 1024
  BlockLen = 12
  Ratios = {2, 4}
  GameAhead = 1
  MaxStart = 1
INVARIANTS AudioInv NoEcho DecodesInOrder
PROPERTIES StreamGoesOn
