\* Two slots, two command blocks, three reads after the self-check, four machines.
SPECIFICATION FairSpec
CONSTANTS
  r0 = r0  r1 = r1  r2 = r2  r3 = r3
  b1 = b1  b2 = b2
  None = None
  Lower <- MCLower
  Reads <- MCReads
  Blocks <- MCBlocks
  Asks <- MCAsks
  Pressed <- MCPressed
  Meant <- MCMeant
  Machines <- MCMachines
  SelfCheck = r0
  Slots = 2
  MaxClock = 2
INVARIANTS DvdInv UnmovedSeesData
PROPERTIES ImplementsReadContract EveryReadReported
\* The game may ask for nothing more.
CHECK_DEADLOCK FALSE
