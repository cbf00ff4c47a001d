SPECIFICATION Spec
CONSTANTS
  Capacity = 7
  DataWords = 8
  NrCores = 2
  Programs <- HostMain
PROPERTY WaitReturns
