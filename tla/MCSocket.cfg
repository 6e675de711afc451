\* Three daemons over one database: the ownership lock protects the socket path.
CONSTANTS
  d1 = d1
  d2 = d2
  d3 = d3
  db1 = db1
  Daemons = {d1, d2, d3}
  Databases = {db1}
  DatabaseOf <- OneDatabase
  Inodes = {1, 2, 3}
  PlainFile = PlainFile
  None = None
SPECIFICATION Spec
INVARIANTS
  TypeOK
  ServingIsReachable
PROPERTIES
  StartupSparesActiveSocket
  ShutdownSparesOthers
  StaleSocketNeverBlocks
  StopLeavesNoSocket
  PlainFileStays
