CONSTANTS
  Programs <- MCPrograms
  Variables <- MCVariables
SPECIFICATION Spec
INVARIANTS TypeOK Assembles StoresInside
PROPERTY Implements
CHECK_DEADLOCK FALSE
