\* Saves of a first and a last page, two starts of the program.
SPECIFICATION FairSpec
CONSTANTS
  Pages <- MCPages
  MaxSaves = 2
  MaxRuns = 2
INVARIANTS CardInv SaveIntact
PROPERTIES DoneMeansLanded SaveCompletes
\* The program may be off, and not started again.
CHECK_DEADLOCK FALSE
