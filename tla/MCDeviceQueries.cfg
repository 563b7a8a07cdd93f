CONSTANTS
  Devices <- MCDevices
  Fds <- MCFds
  MaxMoves = 3
  MaxTimers = 2

SPECIFICATION Spec

INVARIANTS
  ListExact
  WithinArray
  DescriptorsKept
