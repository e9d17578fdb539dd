SPECIFICATION Spec
CONSTANTS
  AddrSpace = 16
  Layouts <- MCBloatLayouts
  Programs <- MCBloatPrograms
INVARIANT SectionsPlaced
CHECK_DEADLOCK FALSE
