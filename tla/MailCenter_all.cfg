\* Each service has two of what it serves (equipment, channels, stations, readers,
\* displays) and lists that overflow after one to three entries; the week has
\* three days, so that two backups fall between a record and its deletion.
SPECIFICATION MailSpec
SYMMETRY MCSymmetry
CONSTANTS
  e1 = e1
  e2 = e2
  c1 = c1
  c2 = c2
  Equipment = {e1, e2}
  Channels = {c1, c2}
  Statuses = {"STOPPED", "OFFLINE", "ERROR"}
  Severities = {"CRITICAL", "MAJOR"}
  AlarmCap = 2
  ItemCap = 2
  MaxAlarms = 4
  MaxItems = 3
  MaxSwitches = 3
  TelegramLogCap = 3
  MaxTelegrams = 4
  Barcodes <- MCBarcodes
  SortHistoryCap = 2
  CommLogCap = 1
  MaxPlans = 4
  MaxProcessed = 3
  Stations = {"KST-01", "KST-02"}
  Buttons = {1, 2}
  KeyingHistoryCap = 2
  MaxRequests = 4
  Capacity = 200
  RoundedDown <- MCRoundedDown
  InitialCounts = {0, 57, 159}
  Displays = {1, 2}
  MaxCount = 202
  AlarmLevels = {"INFO", "WARNING", "CRITICAL"}
  MaxBoardAlarms = 5
  Devices = {"IPS-IND01", "IPS-IND02"}
  ReadHistoryCap = 1
  MaxReads = 2
  Inductions = {1, 2}
  Block = 10
  RangeSize = 3
  MaxPids = 5
  ReportKinds = {"summary", "induction", "chute", "code", "sorter"}
  ParcelData <- MCParcelData
  Null = Null
  LocalPeriod = 1
  SimsPeriod = 2
  MaxTime = 4
  MaxParcels = 2
  Week = 3
  StatDays = 7
  SimsDays = 1
  RegiDays = 3
  ResultDays = 6
  BackupDays = 4
  MaxDay = 8
  MaxRows = 2
  TcpClients = {"relay", "console"}
  MaxHeartbeatNo = 2
  TcpLogCap = 2
  MaxFrames = 3
  Conveyors = 2
  MaxReports = 1
  SyncInterval <- MCSyncInterval
  ZipCodes <- MCZipCodes
  LookedUp <- MCLookedUp
  MaxSyncTime = 3
  GeneratedCodes = {42000, 42001, 99999}
  GivenCodes = {35000, 42001, NotANumber}
  NotANumber = NotANumber
  SimulatedCap = 2
  MaxSimulated = 3
INVARIANTS
  MailTypeOK
  AlarmListAccurate
  OneActivePlan
  AccountsAgree
  ClientsServed
  ScreensTruthful
  PidsDistinct
  ReportsMissNothing
PROPERTIES
  SwitchIsSafe
  BackedUpBeforeDeleted
CHECK_DEADLOCK FALSE
