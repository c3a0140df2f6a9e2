SPECIFICATION LiveSpec
CONSTANTS
  Confirmations = 1
  HEAD_SAFETY_MARGIN = 0
  MAX_BLOCKS_PER_TICK = 2
  MaxRange = 1
  MaxHeight = 3
  MaxForks = 1
INVARIANTS
  TypeOK
  NoBlockIsSkipped
PROPERTIES
  FinalBlocksAreReached
  TailIsRescanned
CHECK_DEADLOCK FALSE
