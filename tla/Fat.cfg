SPECIFICATION Spec
CONSTANTS
  n1 = n1
  n2 = n2
  Names <- MCNames
  None = None
  Fds <- MCFds
  BlockSize = 2
  BlocksPerCluster = 2
  Entries = 5
  Sectors = 1
  NFats = 2
  Lens <- MCLens
  MaxSize = 5
  MaxFaults = 0
  ReuseTruncated = FALSE
INVARIANTS TypeOK FilesWhole LastClusterLen TablesAgree
PROPERTY TransferInPlace
SYMMETRY MCSymmetry
CHECK_DEADLOCK FALSE
