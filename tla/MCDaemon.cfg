\* Two clients for one connection.
CONSTANTS
  k1 = k1
  k2 = k2
  Clients = {k1, k2}
  MaxConnections = 1
  MaxFaults = 2
SPECIFICATION FairSpec
INVARIANTS
  TypeOK
  PermitsConserved
  StorageOutlivesTasks
PROPERTIES
  CommittedIsReconciled
  ShutdownCompletes
  NoHalfDaemon
