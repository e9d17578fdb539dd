SPECIFICATION FairSpec
CONSTANTS
  Keys <- MCKeys
  Commands <- MCCommands
  MaxActions = 2
  MaxCommands = 1
  MaxFlips = 1
INVARIANTS TypeOK InStep Taken
PROPERTIES Implements EveryKeyTold CommandsEnd
CHECK_DEADLOCK FALSE
