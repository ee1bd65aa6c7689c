\* Seven files, three changes, three signals, two processes.
CONSTANTS
  Cluster = cluster
  Endpoint = endpoint
  Listener = listener
  Type = {cluster, endpoint, listener}
  web = web
  db = db
  Name = {web, db}
  plain = plain
  Reference = reference
  Body = {plain, reference}
  Unknown = unknown
  Failed = failed
  NoVersion = noversion
  File <- MCFile
  MaxChanges = 3
  MaxSignals = 3
  MaxRuns = 2
SPECIFICATION Spec
INVARIANTS
  TypeOK
  SnapshotWhole
  VersionIdentifies
PROPERTIES
  UnchangedKeepsVersion
  FileReachesClient
CHECK_DEADLOCK FALSE
