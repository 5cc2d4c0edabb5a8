SPECIFICATION FairSpec
CONSTANTS
  p1 = p1
  p2 = p2
  None = None
  Ports <- MCPorts
  AcmPorts <- MCPorts
  MaxFaults = 2
INVARIANTS TypeOK NoUseAfterFree NoLostThread CallbackSeesWholeRuntime NoSilentDeath CleanExit
PROPERTIES
  ErrorRecovered
  ShutdownCompletes
  ImplementsService
  ImplementsPort
