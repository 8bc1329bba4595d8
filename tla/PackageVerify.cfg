CONSTANTS
  Paths <- MCPaths
  PathInfo <- MCPathInfo
  SubRank = 1
  Contents <- MCContents
  Doc <- MCDoc
  Packages <- MCPackages
  Beside <- MCBeside
  Edits <- MCEdits
  Rewrites <- MCRewrites
  MaxFiles = 3
  MaxIndex = 3
  MaxDefinition = 2
  MaxJSON = 3
  MaxPayload = 3
  MaxPackage = 4
SPECIFICATION Spec
INVARIANTS
  TypeOK
  ReportClosed
  RootAsListed
  FilesCoexisted
  CapabilityAfterCleanup
PROPERTIES
  ReadsAreCurrent
CHECK_DEADLOCK FALSE
