SPECIFICATION Spec
CONSTANTS
  n1 = n1
  n2 = n2
  Names <- MCOneName
  None = None
  Fds <- MCOneFd
  BlockSize = 2
  BlocksPerCluster = 2
  Entries = 5
  Sectors = 1
  NFats = 1
  Lens <- MCLens
  MaxSize = 5
  MaxFaults = 0
  ReuseTruncated = FALSE
INVARIANT BootIntact
CHECK_DEADLOCK FALSE
