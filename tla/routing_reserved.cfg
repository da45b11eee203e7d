SPECIFICATION Spec
CONSTANTS
  Names <- MCNames
  Versions <- MCVersions
  Paths <- MCPaths
  None = None
INVARIANTS
  EveryIndexIsReachable
