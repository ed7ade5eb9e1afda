\* Two targets, two overlapping health checks, two calls of connect() at a time;
\* two overlapping sync jobs over three records in batches of two; two requests
\* for up to three transfers of two attempts; a feed that
\* looks back two entries and pages of one; two centres and three sections of settings.
SPECIFICATION CentralSpec
CONSTANTS
  N = 2
  MaxAttempts = 2
  MaxPending = 2
  Rounds = {r1, r2}
  r1 = r1
  r2 = r2
  SyncJobs = {j1, j2}
  j1 = j1
  j2 = j2
  BatchSize = 2
  SyncHistoryCap = 1
  MaxRecords = 3
  Requests = {q1, q2}
  q1 = q1
  q2 = q2
  MaxRetries = 1
  TransferHistoryCap = 2
  MaxTransfers = 3
  LogClients = {b1, b2}
  b1 = b1
  b2 = b2
  LogCap = 4
  OnConnect = 3
  LookBack = 2
  PageSize = 1
  Sections = {"sims", "ftp", "statistics"}
  CenterIds <- MCCenterIds
  UnknownCenter = "JEJU"
  Values = {"changed"}
  MaxLogs = 5
INVARIANTS
  CentralTypeOK
  NeverForgotten
  CheckpointCovers
  CompletedForGood
PROPERTIES
  UpTargetReconnects
  DownTargetNoticed
  EveryRecordTried
  EveryRequestEnds
  LogReadersMissNothing
