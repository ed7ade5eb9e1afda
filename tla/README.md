# LogisStandard models

TLA+ specifications of the control software of LogisStandard, a mail sorting
system: a PLC simulator, a local relay in each post office, a central relay to
SIMS (the postal information system), the standard operator software, and the
packages they share.  The modules are model-checked with TLC; what matters most is
proved with TLAPS.

Contents: [the system](#the-system) · [modules](#modules) · [runs](#runs) ·
[fairness](#fairness) · [proofs](#proofs) · [findings](#findings) ·
[what is not modelled](#what-is-not-modelled) · [plan](#plan)

## The system

All services are single-threaded Node programs.  A handler, a timer callback
or a socket event runs without interruption up to its next `await` that really
waits; so the hard behaviours are the *order* of handlers and timers, and state
that is read before an `await` and used after it.  But for the fallback's CSV files
and the scheduler's dumps and rows nothing of the modelled state is persisted: a
restart is a new initial state.

| Component (path below `src/`) | State | Operations | Hard behaviours | What makes it correct |
|---|---|---|---|---|
| **Sorter engine** `apps/plc-simulator/src/sorter-engine`, driven by `command-handler` (telegrams 100–141), `simulation-controller` (HTTP) and `profile` | line status, inductions, chutes, parcels in transit, counters, interval and timeout handles | start, stop, reset, updateConfig, induction control, reset request, fault and fault clearing; timer callbacks induct, discharge, confirm | two timers per parcel outlive status changes; three channels of commands mix in any order; reconfiguration while parcels are under way; a partial update that wipes the settings it does not name | each parcel is inducted, discharged, confirmed once in that order; counters balance; one interval per induction of a running line; flags and status telegrams true |
| **Scenarios** `apps/plc-simulator/src/scenario`, `heartbeat` | running flag, current scenario and step; executors (async loops) | startScenario, stopScenario, steps, waits in 500 ms chunks | a stopped executor still sleeps when the next scenario starts and shares its flag | a scenario alone completes; every executor ends; the running flag has an executor behind it |
| **TCP server** `apps/plc-simulator/src/tcp-server` with `packages/telegram` | receive buffer per socket; clients and counters per channel; one telegram log for all channels | data, close, error, broadcast; building, validating and parsing of 20 telegrams | TCP cuts the stream anywhere; several connections per channel; noise and unknown telegrams; a failed socket leaves the list later than it fails | every telegram is handed over once, whole, in order, at once; what is sent reaches every live client |
| **Connections** `apps/central-relay/src/connection` | per target: status, attempts, reconnect timer; probes under way | connect, scheduleReconnect, timer, manual reconnect, health check | overlapping attempts write the status after their await; health checks walk a list of targets slowly; attempts are limited | no target is forgotten; one that is up gets connected; one that is down is noticed |
| **Fallback** `apps/central-relay/src/fallback` | status, check counters, pending records, CSV files | health check, addPendingRecord, CSV generation, recovery | thresholds over checks in a row; failed writes; identities made of clock readings | records are neither lost nor delivered twice; the status follows the checks; recovery drains the list |
| **Data synchronisation** `apps/central-relay/src/data-sync` | checkpoints per kind of record, jobs under way, bounded history | interval, manual trigger, fetch, batches in and out | overlapping jobs of one kind write checkpoints computed from old ones; batches fail in the middle | what a checkpoint has passed was delivered or counted as an error; every record is tried |
| **File transfer** `apps/central-relay/src/ftp` | transfers, requests under way, bounded history | request, upload, validation, retry by timer and by hand | a retry by hand meets the distribution that owns the record; failures of two steps share a count | a completed transfer stays so; every request ends |
| **Communication log** `apps/central-relay/src/comm-log`, `gateway` | bounded log, last entry sent, clients | log, clean up, query by pages, broadcast | broadcast by polling a bounded window; pages cut from a live list | readers miss nothing but in a burst |
| **Configuration** `apps/central-relay/src/config` | sections, centres | get, update | — | sections keep their types |
| **Local relay** `apps/local-relay/src/operation` over `simulator`, `plc-connection`, `equipment-monitor` | mode and its history; simulator items and rule; channels with their counts of telegrams, and one telegram log for all; equipment; bounded alarm list | switchMode with a safety check, simulator commands, channel commands, telegrams, status updates, alarms | the check reads a bounded list and statuses others change; three services must agree after any sequence | switches happen only in safe conditions and hand the line over; histories stay true |
| Local relay: `ips`, `maintenance`, `test-runner` | readings and device alarms; reports; test runs | single-call updates | counts, limits and lists must stay in step | logs and reports agree with what was counted |
| **Standard software** `apps/standard-sw`: sorting, keying, chute display, monitoring, info link | plans with rules, histories, keying requests, chute counts, alarms, sync jobs | plan creation and activation, barcode processing, keying, displays, alarms and their stream, syncs | identities made of the clock; bounded lists next to unbounded counts; a request completed twice | the plan activated last sorts; every keyed item ends once; screens agree with the data |
| **Pid generator** `packages/telegram/src/pid.ts` | a counter per induction and mode | generate, reset, resolve | the counter goes round | ids stay in their range and do not repeat early |
| **Data lifecycle scheduler** `packages/database/src/scheduler` | rows, windows of reports, dumps | reports every few minutes, deletions every day, backups every week | windows reach back from the moment a job runs; jobs run late, fail or are missed | no parcel falls between two reports that are run on schedule; what is kept long enough is backed up before it is deleted |
| **Serializer** `packages/protocol/src/serialization` | none | binary records of eight types of fields | widths, signs, padding | what is written reads the same |
| Gateways, situation control, statistics, `common`, `logger`, `test-helpers`; `apps/web-dashboard` | none of their own, or demonstration data | forwarding, queries, conversions, presentation | — | — |

Interactions.  The engine emits telegrams 10/11/20/21/22 to the TCP server and the
gateways and receives telegrams 100–141 through the command handler.  Scenarios call
engine and heartbeat.  The fallback reads `isSimsConnected()` of the connections.
The local relay's `OperationService` calls its three services directly.  The local
relay's PLC connection is itself a stand-in that does not open sockets, so the
simulator's TCP server meets its peers only in tests and in the field.  The other
services of the central relay, of the local relay and of the standard software do
not call each other.

`PROJECT.json` lists the components with their status and every hazard at its line.

## Modules

| Module | Models | Correspondence |
|---|---|---|
| `SorterEngine` | `sorter-engine.service.ts` with its callers | one action per handler (`Start`, `Stop`, `Reset`, `UpdateConfig`, `SetInductionControl`, `SetResetRequest`, faults) and per timer callback (`InductItem`, `DischargeItem`, `ConfirmItem`); `this.items` is `items`, armed timeouts are `dischargeTimers` and `confirmTimers`, live intervals are counted in `inductionTimers`; `reported` is what the SMC was last told; `Updates` are the partial configurations callers hand over, in which a setting may be `Undefined`; `stray` and `dropped` (the parcels that a stop left in `items` without a timeout) are history |
| `ParcelProtocol` | the promise about T20, T21, T22 | abstract specification; `SorterEngine!FollowsProtocol` maps a parcel's phase to the timer it has armed |
| `ScenarioRunner` | `scenario.service.ts`, `heartbeat.service.ts`, the four scenarios | an executor is `awake`, `asleep` in a chunk of a wait, or `gone`; while one is awake nothing else happens, as its awaits only yield to its own microtasks |
| `RelayConnection` | `connection.service.ts` | `connect()` and the health check are split at their awaits: `Connect` / `ConnectSucceeds` / `ConnectFails`, `StartRound` / `ProbeSucceeds` / `ProbeFails` |
| `RelayFallback` | `fallback.service.ts` | every handler is one action; `RECOVERING` exists only inside one |
| `CentralRelay` | both together | `INSTANCE`s of the two, with `simsConnected` bound to the status of target 1 |
| `DataSync` | `data-sync.service.ts`, one kind of record in either direction | a job is split at its awaits: `ExecuteSyncJob` reads the checkpoint, `FetchSucceeds`/`FetchFails`, one `BatchSucceeds`/`BatchFails` per batch; `delivered` and `failed` are history |
| `FileTransfer` | `ftp.service.ts` | a request works through its centres; each attempt of a transfer is one step that succeeds or fails |
| `LogStream` | `comm-log.service.ts`, `logs.gateway.ts` | logging, clean-up, the broadcast and a reader that goes through pages |
| `RelayConfig` | `relay-config.service.ts` | sections and the list of centres |
| `CentralServices` | the services of the central relay side by side | see *one service per behaviour* below |
| `LocalRelay` | `operation`, `simulator`, `plc-connection`, `equipment-monitor` services | one action per public operation that changes state; `openCritical` is history |
| `SimulatorRules`, `PlcTelegrams` | the rules that sort a simulated item; telegrams and their log | beside `LocalRelay`, which has the states of simulator and channels |
| `Readers`, `Inspections` | `ips.service.ts`; `maintenance.service.ts` and `test-runner.service.ts` | one action per operation |
| `Sorting`, `Keying`, `ChuteDisplay`, `AlarmBoard`, `InfoLink` | the services of the standard software; the board is that of a client of the alarm stream | one action per operation that changes state; `inForce` and `barcodeless` of `Sorting` are history |
| `PidGenerator` | `pid.ts` | `issued` is history |
| `BatchReport`, `DataLifecycle` | report jobs; deletions and backups of the scheduler | the windows of a job reach back from its run; a local job writes its rows one by one |
| `ChannelServer` | `tcp-server.service.ts`, sending side, with the heartbeat | clients, broadcast and counters of one channel; the log, which all channels share, with entries of the others |
| `MailCenter` | the services of a mail centre side by side | see below |
| `TelegramLayout` | `packages/telegram` | layouts of all 20 telegrams as field sizes, `Build`, `Parses`, `Parse`, `Validate`, `QuickValidate` on bytes; where a field ends (`Offset`) and what is written so far (`Written`) are recursive functions of the field's number |
| `TelegramStream` | `tcp-server.service.ts`, receiving side | `HandleData` is the `data` event with any prefix of the bytes under way; `Turn` is the body of its loop, `Deframe` the loop; `sent` and `arrived` are history |
| `TelegramChannel` | the promise of a channel | abstract specification: per client a queue without loss and reordering |
| `BinarySerializer` | `serialization/index.ts` | operators on sequences of bytes, checked as an assumption |
| `*Proofs` | theorems, see [Proofs](#proofs) | |
| `MC*` | values and symmetries for TLC | |

Some modules hold *faulty variants*: definitions with one slip a maintainer could
make, named for it.  No specification uses them; replacing the sound definition by
its variant must break the property listed with it in `PROJECT.json`, which shows
that the property depends on the code and not on the shape of the model.

*One service per behaviour.*  `CentralServices` and `MailCenter` put services
beside each other that share no state and do not call each other.  A step of one then
commutes with every step of the others, so their interleavings add states and no
behaviour of any one of them: a behaviour of these modules picks a `service` and
exercises it in full while the others rest in an initial state.  Services that do
interact are composed in full: `CentralRelay`, `LocalRelay`, the channels of `LocalRelay`
under `PlcTelegrams`, the sorter engine with its callers.

Abstractions worth knowing:

- **No clock in `SorterEngine`.**  Intervals and delays are configurable at any
  time, so any armed timer may be the next to fire.  Random draws are choices.
- **Undefined settings** (`SorterEngine`).  PATCH config hands `updateConfig()` a
  transformed `UpdateConfigDto`: its class fields are own properties, so those that were
  not given overwrite the configuration with `undefined` (`main.ts:17`,
  `sorter-engine.service.ts:129`).  The other callers pass plain objects, which leave alone
  what they do not name.  `Undefined` fails every comparison, as it does in the code; a
  chute's count is `NaN` once a fault set it to an undefined threshold or counted on from
  there.  Configured counts are whole numbers.
- **Two parcels can share an object name.**  A parcel that has left the line and
  has no timer may be reused as a new one; its history does not matter then.
- **Probes** (`RelayConnection`) take a target as it is when the probe ends.
- **Counters** of checks in a row saturate at their thresholds, where the code
  only compares with `>=`.
- **A failed CSV write** leaves the file untouched and the records pending.
  Files hold sets of records; their text is left out.
- **The clock of `RelayFallback`** counts milliseconds; `Second` of them share a
  file name, which holds the time without its milliseconds (`fallback.service.ts:196`).
- **Stubs.**  The methods of `data-sync` and `ftp` that will reach databases and
  hosts are stubs in the code; the models let each call throw at any time, since the
  code around them handles it.  A call to SIMS succeeds only while SIMS is connected.
- **Plans** (`Sorting`) are numbered in the order their ids, milliseconds, were first
  used; one created with the id of another takes its number, whatever its status.
- **Floating point** (`ChuteDisplay`).  `Math.round()` rounds a half up, but a percentage
  that ends in a half may come out a little smaller before.  `RoundedDown` names the
  counts it happens to; the proof holds for any, the run takes those of a capacity of 200
  (29, 57, 113, 115 and 201 among the counts below 203).
- **Codes** (`SimulatorRules`).  `NotANumber` is what a barcode that is not a
  non-negative number leaves: the code treats a negative one like text, except that it
  may be a multiple of 3, which items simulated by hand are not asked for.
- **Equipment** starts `STOPPED` or `OFFLINE`; which piece starts how does not matter.
- **The board of `AlarmBoard`** is that of a client that has fetched the list of
  alarms when it begins to follow the stream.
- **Noise between frames** (`TelegramStream`) holds no STX byte: the code takes an
  STX for the start of a frame, whatever follows (`tcp-server.service.ts:98`), and has
  no means to tell otherwise.  STX and ETX bytes *inside* frames are modelled.

## Runs

States are distinct states with two workers.

| Run | Shows | Bounds, and why they are enough |
|---|---|---|
| `parcels` (1.7 M) | counters balance, stages match timers, and the engine implements `ParcelProtocol` | three reconfigurations: the default as a profile, PATCH of the chutes and of the inductions alone; two parcels, three inductions of parcels: one more than `MaxCell = 2`, so the counter wraps, and than there are parcels, so a name is reused while another parcel is on the line |
| `line` (837 k) | one interval for each induction a running line has, true status telegrams and overflow flags, no parcel left waiting for a timeout nobody armed | two inductions, two thresholds (so that reconfiguration moves the limit past a count), one parcel at a time; five reconfigurations: a profile, PATCH of the chutes, of the inductions or of the interval alone, and the scenario step that sets a threshold |
| `reset` | violation, see [Findings](#findings) | |
| `scenario_mix` (179 k) | running flag, completion of a lone scenario, every executor ends | two executors: the overlap of one stopped and one new; two chunks per wait: a stop can come between them |
| `scenario_overlap` | violation | nobody else commands the line there, so it is the scenarios themselves that disturb each other |
| `fallback_records` (1.2 M) | records kept and delivered once, status follows checks, outages and recoveries get through | three records with a limit of two per file: a full file and a remainder; two file names per type; different thresholds |
| `fallback_overwrite` | violation | |
| `relay_outage` (442 k) | a lasting outage ends in the fallback, a lasting recovery ends it | two targets, so that SIMS's probe can be delayed by another; one record |
| `relay_giveup` | violation | |
| `telegram_channel` (630 k) | the byte stream implements `TelegramChannel` | three telegrams on one connection (46 bytes) beside one on another (16); reads of 1 and 13 bytes and of all there is cut in header, data and before ETX and span frames; a known telegram has STX and ETX as data, an unknown one is to be skipped |
| `central_services` (133 k) | no target forgotten, reconnection and detection; checkpoints cover, every record is tried; transfers settle once and requests end; log readers miss nothing | two targets (order in the list matters), two attempts, two overlapping calls and health checks; two overlapping jobs over three records in batches of two: a full batch and a remainder; two requests over three transfers with one retry; a log of four entries that overflows, a feed that looks back two, pages of one |
| `mail_center` (2.2 M) | safe switches, a true alarm list; the plan activated last in force and no other; counters that agree with the lists beside them, clients that are told everything, screens that tell what happened; ids that do not repeat early; no parcel between two reports while their runs keep the schedule; backup before deletion | lists of one to three entries with more put in, so that entries are pushed out; three switches include `SWITCHING`; ranges of three ids, gone round once and more; a SIMS period of two local ones and four ticks; a week of three days over nine, with retentions on either side of one and two weeks; four plans, two of them created in the run; displays of the code's capacity of 200 that start at 0, 57 or 159 and count on to 202, past every limit; codes for each rule, 35000 in the range of RANGE included |

Two assumptions are evaluated with `telegram_channel`: `ValidatorAgrees` (the
validator accepts only frames the parser parses, over all frames sent with their
length up to two bytes off and cut anywhere) and `SerializerRoundTrips` (records of five
types of fields with numbers at their limits read the same as written).

Deadlock is checked in every run but `mail_center`, whose services stop when the
bounds on their requests, clocks and counters are reached.

Action properties: `OverflowFlagTruthful`, `SwitchIsSafe`, `BackedUpBeforeDeleted`,
and the feed's part of `LogReadersMissNothing`.  Refinements:
`FollowsProtocol`, `ImplementsChannel`.  Liveness: `EveryParcelLeaves`, `ExecutorsEnd`,
`UpTargetReconnects`, `DownTargetNoticed`, `EveryRecordTried`, `EveryRequestEnds`,
`OutageActivates`, `RecoveryDrains`, `OutageDetected`, `LastingRecovery`.

## Fairness

- `SorterEngine!TimerFairness`: weak fairness of each parcel's timeouts.  Node runs
  the callback of every timeout that is armed and not cleared.  Inductions and
  commands get none: nothing has to be inducted or commanded.
- `ScenarioRunner!ExecutorFairness`: weak for an awake loop, strong for `Wake`, since
  another executor that is awake merely delays a timer that is due.
- `RelayConnection!ConnectionFairness`: probes end after five seconds, timers fire,
  the health check's interval recurs.  Weak fairness suffices: a step once enabled
  stays enabled until it or a step of the same kind happens.
- `RelayFallback`, `CentralRelay!CheckFairness`: the check's interval of ten seconds.
- `DataSync!SyncFairness`: the interval recurs, and every awaited call of a job
  returns or throws.  Calls may throw at any time, so `EveryRecordTried` needs fetches
  that do not all throw: strong fairness of a fetch that succeeds.  Batches may all fail.
- `FileTransfer!FtpFairness`: uploads and comparisons end, well or not, and retry
  timers fire.  Nothing makes anybody retry by hand.

But for those fetches no property assumes that a call succeeds, that outages end, that
operators act, or that a write succeeds.
Where a property needs a lasting outage or recovery it says so (`<>[]up[t]`).

## Proofs

For all values of the constants allowed by the named assumptions
(`EngineAssumption`, `RunnerAssumption`, `ConnectionAssumption` and so on, in the module
that declares the constants).  They say that limits are numbers, positive where the code
divides by them or an empty list would be meant, and relate constants as the code's own
values are related: a new client of the log is sent no less than a broadcast looks at
(`LogAssumption`: 20 and 10), a code to look up has its three digits (`LinkAssumption`), values of
telegrams fit their fields, as the writers of `build()` throw if not, and noise holds no
STX (`StreamAssumption`; see *abstractions*).

| Theorem | Argument |
|---|---|
| `SorterEngineProofs!TypeCorrect`, `OneIntervalPerInduction`, `TimeoutsFindTheirParcel` | the type invariant is inductive, with lists of inductions and chutes within their bounds as partial updates leave no more to say; the other two are inductive relative to it.  `StagesShrink` covers all commands that only drop timers and parcels |
| `SorterEngineProofs!EngineFollowsProtocol` | every step maps to a step or a stutter of `ParcelProtocol`; `SamePhase` handles the steps that move no parcel.  Needs `TimersMatchStages`, or a discharge might find its parcel confirmed already |
| `SorterEngineProofs!BooksBalance` | `ExactAccounting` is inductive relative to types and stages; `AccountingKept` states what a step must leave alone, cardinalities come from `FiniteSetTheorems` |
| `ScenarioRunnerProofs!RunnerTypeCorrect` | `TypeOK` is not inductive: an executor asleep with nothing left would count below zero.  `SleepersWait` excludes it |
| `ScenarioRunnerProofs!RunningIsBacked`, `LoneScenariosComplete` | the first is inductive with the types; the second needs `LoneScenarioRuns`: while the executor of a scenario that met no other is alive and not stopped, the running flag is up and it is the only executor |
| `CentralServicesProofs!ConnectionTypeCorrect`, `NoTargetForgotten` | `NeverForgotten` is inductive with the types, for any number of targets and overlapping calls; `ScheduleReconnectLeavesTimer` is its core |
| `RelayFallbackProofs!FallbackTypeCorrect`, `StatusFollowsChecks`, `NothingPendsAfterwards` | types are strengthened by the finiteness of `pendingRecords` (`FallbackTypes`), which ids are made of |
| `RelayFallbackProofs!RecordsDeliveredOnce`, `RecordsKept` | `Ledger` says that whatever is pending, written or sent was accepted, and that no record was accepted twice; it makes delivery-once inductive.  `NoClashBefore` takes the hypothesis of `KeptUnlessClash` a step back |
| `CentralRelayProofs!ConnectionsRunAsAlone`, `FallbackRunsAsAlone` | the composed relay implements the specification of either part: to the fallback a step of the connections changes the status of SIMS or nothing (`StepsOfConnections`), to the connections a step of the fallback is a stutter |
| `CentralRelayProofs!RelayKeepsRecords`, `RelayFollowsChecks` | hence the theorems of `RelayFallbackProofs`, taken from an instance in which `simsConnected` is the status of target 1, hold of the relay; `SameSteps` says that this instance is the relay's own |
| `LocalRelayProofs!TypeCorrect`, `AlarmListIsAccurate`, `HistoryAndItems` | `IInv` adds that alarm numbers are consecutive from the counter down (`AlarmNumbers`) and that an entry is active and CRITICAL exactly if its number is open (`AlarmFlags`); without them the list limit says nothing about which alarms it dropped |
| `LocalRelayProofs!SwitchesAreSafe`, `SwitchesHandOver` | action properties from `IInv` |
| `SorterEngineProofs!SmcSeesTheLine` | `SmcViewAccurate` is inductive with the types: whatever changes the sorter's status sends a full report (`ReportTellsAll`), and a change of one induction reports that one (`ViewNext`, action by action) |
| `SorterEngineProofs!OverflowFlagsTell` | `FlagsJustified` is inductive with the types: a count goes down only with all flags (`FreshChutes`) or to a threshold itself, a threshold of the configuration is one of `Thresholds` or undefined, and a fault under an undefined one leaves `NaN`, which stays; `FlagsRaised`, the step part, follows from the two actions that can raise a count, `DischargeItem` and `OverflowFault` |
| `LocalRelayProofs!ReadersCountTheirReadings` | the property is inductive with the types (`ReadersInv`); a reading put in front while the oldest is pushed out changes the number kept of a kind by what `CountShifted` says |
| `LocalRelayProofs!ReportsStayHonest` | `InspectionsInv` says it of every report's fields; `CancelTest` needs a RUNNING report, and by the invariant there is none |
| `LocalRelayProofs!ItemsGoByTheirRule` | `SimulatorInv` says of each item that, if it is sorted, it lies where the description of its own rule sends its code, or in the one chute of its pid's last digit (`FollowsRule`); codes are any numbers or none |
| `CentralServicesProofs!SyncTypes`, `CheckpointsCover` | `CheckpointCovers` alone is not inductive: a job may end with a checkpoint computed from one it read long ago.  `JobSound` says of every job under way that all before the checkpoint it has *read*, and all it has tried since, is done; this stays true whatever other jobs write, as nothing done is undone (`SoundStays`).  `ProceedSound` is the step all batches share, `BatchFacts` that a batch continues where the last one ended |
| `CentralServicesProofs!FtpTypes`, `CompletedStaysCompleted` | `FtpInv` adds `TransferSound`: a transfer is at its end exactly if it is COMPLETED or FAILED, and one under way has a retry left to fail; so nobody settles a settled transfer a second time, and only a FAILED one starts again |
| `CentralServicesProofs!LogTypes`, `NoLogReaderMisses` | `LogInv`: the list is an interval of ids up to the counter (`LogsConsecutive`), each client has all that was broadcast and can still be looked back at (`ClientsCaughtUp`), and a reader has seen every due entry with fewer newer matches than its offset (`PagesSound`), a number that only grows |
| `CentralServicesProofs!ServicesRunAsAlone`, `CentralTypes`, `CentralRelaySafe` | every step of `CentralServices` is a step or a stutter of each service (`CentralStepParts`), so the whole implements the specification of each, and theorems of the services hold of it.  The connections start in a state of rest when another service is exercised, so theirs is by invariance (`CentralRest`) |
| `MailCenterProofs!LifecycleTypes`, `RowsAreBackedUp` | for the week `k` of the last backup: every row from before it is in a dump (`DumpedInWeek`), and no more Sundays have passed since than were counted as missed (`BackedUpInWeek`).  A backup dumps every row there is, so the clean-up after it may take any older dump.  A row old enough to be deleted is then from before that backup |
| `MailCenterProofs!ReportTypes`, `NoParcelFallsBetween` | `ReportsMissNothing` speaks of rows for SIMS only, and of nothing once a job has failed or run later than its period after its last run.  `NoneLost` follows a parcel through both jobs: from before the last complete local report it is in a row for SIMS or in a local row that the next SIMS job takes in (`Kept`); from before the last run it is so or in a row still to be written; from before what SIMS covers it is in a row for SIMS |
| `MailCenterProofs!AlwaysOneActivePlan` | `OneActivePlan` is inductive with the types: `inForce` is the plan that was activated last, or none once a plan was created with its id |
| `MailCenterProofs!PidsStayDistinct` | `Round` relates any two ids less than `RangeSize` apart: they differ by their distance, or by that less a whole round (`NextDistance`), which is never zero; `RangesApart` keeps two ranges from sharing an id |
| `MailCenterProofs!SortingAddsUp`, `StationsCountTheirRequests` | `SortInv`, requests without a barcode counted apart (`NoBarcodeSound`); `KeyingInv` with `HistoryCompleted` and `HistoryOnce`: only a PENDING request is completed, so none in the history is completed again |
| `MailCenterProofs!DisplaysAgree`, `BoardShowsTheAlarms` | `NearestPercent` bounds the error of a fill rate by half a percent, for any capacity and whatever floating point does to a half; `Readable` derives from it that rate and status do not contradict each other.  `BoardInv` is the property with the types |
| `MailCenterProofs!ClientsGetEverything` | `ServerInv`: `GotTheRest` is what open clients received, `ServerNumbers` keeps the counters at what was sent and joining clients within it, `NewestOf` says which frame each entry of the log shows and that the log holds no more sent entries than were sent, which is what survives when the oldest is dropped; entries of other channels come between them |
| `MailCenterProofs!LinkFollowsItsJobs` | `LinkInv` says it of the newest job by its index (`NewestAt`); a job put in front moves the others by one (`JobInFront`).  The look-up is settled by `LookedUpFound` without induction: the first code that matches is the least of a set of indices |
| `MailCenterProofs!MailServicesRunAsAlone`, `MailCenterSafe`, `MailTypes`, `MailScreens` | as in the central relay, for thirteen services (`MailStepParts`).  The telegrams of the PLC channels are no service of their own, since the local relay sets the channels; `MailTelegrams` is proved of the mail centre itself, from `PlcInv`, which adds that only finitely many telegrams were counted |
| `TelegramStreamProofs!StreamSound`, `TelegramTypes` | the invariant `Inv` puts `Sound` to the types: the bytes of buffer and wire, taken together, are laid out as the entries of `sent` that have not arrived say (`Laid`): each frame lies where its entry ends, no two overlap (`Ordered`), and no STX lies outside of them.  Without it nothing is known of the bytes a read finds, nor where the next frame begins.  `TypeOK` says little of it, but needs it all: a number is known because the bytes parsed are a frame of `Frame` |
| `TelegramStreamProofs!BuiltTelegramsRead`, `ValidTelegramsParse` | what `ValidatorAgrees` checks of the frames sent, for all telegrams that fit and all bytes; from `FrameFacts` and the bound on the sizes of the registry (`KnownSizes`) |
| `TelegramStreamProofs!ChannelKept` | every step of the bytes is a step or a stutter of `TelegramChannel`.  *Operators*: `RoundTrip` for numbers, `OffsetFacts` and `WrittenFacts` for the fields of any layout, `BuildFacts` for the bytes of a frame; from them `FrameFacts`, that `Parse` of `Build` is the telegram sent, and a frame of an unknown number does not parse.  *Loop*: `Scan` finds the next frame, `TurnFacts` follows one turn, `DeframeFacts` the loop: it comes to its end within the turns allowed and has handed over the known ones among the first `j` telegrams, no more being complete.  *Steps*: `SendSound` and `ReadSound` move `Laid` on; `SendStep`, `ReadStep` and `CloseStep` say how `Queue` changes |

So every invariant, every action property and every refinement that a passing run checks
is also a theorem.  Some theorems state what no run repeats: a switch leaves simulator and
channels as the new mode wants them (`SwitchesHandOver`), nothing is pending outside the
fallback (`NothingPendsAfterwards`), reports and links say what their jobs did
(`ReportsStayHonest`, `LinkFollowsItsJobs`), and what holds of a service alone holds of it in
the whole.

Recursive definitions.  The library's theorems on induction and on recursive functions
take an operator, which the provers cannot instantiate.  `TelegramStreamProofs` does
without: `SetInduction` says that a *set* of numbers with 0 and every successor holds them
all, and `Recursion` that a function on `0 .. n` exists that takes each value from the one
before it; both follow from the least element of a set (`WFMin`).  The recursive functions of
`TelegramLayout`, of the loop and of `HandedOver` are bounded by a length, and the lemmas
named `...Steps` give their equations.

Only model-checked: all liveness properties and everything about fairness and
ENABLED, and with it what the runs of `CentralRelay` ask; `BinarySerializer`, which is
checked as an assumption over bounded records.

## Findings

Four runs show that the code does something else than a test, comment or default in
the repository says:

1. `reset` — `reset()` of a line that is already stopped clears no timer.  After a
   motor trip and a reset request parcels are still in flight; their discharge counts
   into the statistics that were just cleared.
2. `scenario_overlap` — a scenario started within half a second of `stopScenario()`
   shares its flag with the executor that still sleeps, and is cut short by it.
3. `fallback_overwrite` — CSV file names have a resolution of one second and no
   sequence number; a second file of a type replaces the first.
4. `relay_giveup` — after ten failed attempts reconnecting ends for good and the
   fallback never learns that SIMS is back; pending records stay.

Seen while modelling, without a run of their own:

- `stop()` returns at once in status STOPPED, so inductions set to RUNNING one by one
  by telegram 110 stay so, and the SMC's view of them with them.
- `SimulatorService.start()` does not ask for the mode, so the simulator "without
  hardware" (`simulator.service.ts:35`) also runs in OPERATION.
- `POST switch` with target `SWITCHING` succeeds, and every later switch is refused
  as already in progress (`operation.service.ts:50`).
- An open CRITICAL alarm pushed out of the list by 500 later ones can no longer be
  cleared and no longer blocks a switch; `SwitchIsSafe` says so.
- `POST generate-csv` without a type writes both types into one file, up to twice
  the row limit.
- A PATCH of one setting of the engine wipes the others: every field of `UpdateConfigDto`
  is optional (`simulation.dto.ts:5`), and those not given arrive as own properties with
  the value `undefined`.  `{chuteCount}` on a running line rebuilds it without inductions,
  so that it runs and inducts nothing; `{inductionIntervalMs}` leaves no overflow
  threshold, so that no flag is raised and an OVERFLOW fault makes a chute's count
  `undefined`.
- The simulator's rules are described as "30000–39999 → chute 15" and "multiples of 3 →
  chute 3" (`simulator.service.ts:52`), but generated codes begin at 42000, which RANGE never
  sorts, and items simulated by hand know ODD_EVEN and MODULO only: under DIVISIBLE and
  RANGE they are rejected, a code of 35000 too.  `ItemsFollowRules` speaks of the items
  that are sorted.
- A plan created in the millisecond in which the plan in force was created replaces it by
  a DRAFT: no plan is ACTIVE, and all mail is rejected until one is activated
  (`sorting.service.ts:155`).
- `processBarcode()` counts a request before it reads the barcode: one without a barcode
  fails and stays in the count, neither sorted nor rejected (`sorting.service.ts:192`).
- A chute display at 199 of 200 shows 100 % and is still NEAR_FULL, and 57 of 200 shows
  28 %, as 57 / 200 * 100 is a little less than 28.5 in floating point.
- The windows of a report are exactly one period long: if a run starts any later than a
  period after the last, the parcels in between are in no report.
- Outbound, the checkpoint moves by the number of records sent: after a failed batch
  in the middle some are sent twice, others only counted as errors.
- A transfer retried by hand runs with an empty path, so that its checksum is the
  one of no file.
- The SIMS sorter report reads the newest local row, however old, where its comment
  (`batch-report.processor.ts:474`) has the last thirty minutes.
- An unknown type of test gives a completed run of no tests, and `cancelTest()` can
  never succeed, since a run is complete before any other request comes.
- A centre's update may change its id to that of another centre.
- A decimal (BCD) field that is too short for its number keeps the leading digits.
- Nothing calls `incrementCount()` of the chute display, `log()` and
  `cleanupExpiredLogs()` of the communication log, or the scheduler itself, and no timer
  reads the info link's times of the next sync; the models exercise these as the code
  offers them.

## What is not modelled

- Of the engine: induction modes and the pids of its parcels (`PidGenerator` has the
  generator), the profiles, manual telegrams, the values scenarios set.
- Of the TCP server: the count of bytes and the answer to a single socket.
- Processed and error counts of the equipment, statistics of the communication log.
- The job queue's own retries, and the columns of the rows of reports.
- The monitoring service's layout, chute and communication states, situation control
  and statistics: queries over demonstration data that no operation changes.
- Gateways that only forward, the dashboard with its demonstration data, the seed
  data, logging, schemas, formatting and pure conversions.

## Plan

Written, in this order: `SorterEngine` with `ParcelProtocol`, `ScenarioRunner`,
`RelayConnection`, `RelayFallback`, `CentralRelay`, `LocalRelay`, `TelegramStream` with
`TelegramChannel`; the services of the central relay and `CentralServices`; those of the
mail centre and `MailCenter`; `BinarySerializer`; the proofs, in eight modules, of each
component first and of `CentralRelay`, `CentralServices` and `MailCenter` from them.

Left:

1. The serializer's round trip for all records, along the lines of `TelegramStreamProofs`.
2. The row limit of a file written by hand, and the configuration a stopped scenario
   leaves behind: hazards that no property covers yet.
3. Parcel ids in `SorterEngine`, composed with `PidGenerator`: a reset of the engine
   restarts them while parcels are under way.
