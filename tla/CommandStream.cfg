SPECIFICATION Spec
CONSTANTS
  Programs <- MCPrograms
  Lists <- MCLists
  BufLen = 20
  DlMax = 4194304
  MaxBatch = 60
  Pad = 255
  Palettes = {5, 6}
INVARIANTS StreamInv AsWritten RegistersHold
CHECK_DEADLOCK FALSE
