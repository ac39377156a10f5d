# Formal model of the Zgnis solar monitoring backend

TLA+ modules, model-checking configurations and machine-checked proofs for the
backend in `src/`: the programs under `cmd/`, the packages under `internal/`
and the parts of `migrations/` that carry behaviour of their own (triggers,
constraints, retention). Every definition is translated from the source;
`PROJECT.json` says from which lines.

## 1. The system

Solar inverters report readings (timestamp, power, cumulative energy counter)
in two ways. Data loggers publish MQTT messages that **cmd/ingestor** consumes;
everything else (vendor clouds polled by **cmd/vendor-sync**, **cmd/pvpro-sync**
and **cmd/solarman-sync**, or a customer's own script) posts to the **cloud
import** endpoint of **cmd/api**. All processes share one Postgres/TimescaleDB
database and nothing else; each SQL statement is a transaction of its own,
there are no multi-statement transactions. The API also administers sites,
devices, accounts, vendor connections and export jobs, and keeps the MQTT
broker's list of device credentials in step with the devices table.

| Component | State | Operations | Talks to | Hard part |
|---|---|---|---|---|
| Ingestion pipeline (`cmd/ingestor`, `registry/cloud_import.go`, `domain/telemetry.go`) | `ingestion_audit_log`, `telemetry`, `devices.last_contact_at/last_seen_at` | handle a message, submit a batch of readings | broker, database | seven statements per reading without a transaction; late, repeated, concurrent readings; dying processes |
| Audit hash chains (`migrations/0013`, `audit_verify.sql`, `registry/audit*.go`) | two chained logs, an advisory lock | insert, prune, verify | every other component inserts | order of ids, of the lock and of commits; retention |
| Device credentials (`registry/devices.go`, `mqttadmin/dynsec.go`) | `devices`, the broker's clients, one response channel | register, rotate, revoke | broker's control topic | responses matched by order, timeouts, reconnection |
| Cloud-import tokens (`registry/cloud_import.go`) | `cloud_import_tokens` | issue, authenticate | connectors, ingestion | revoke-then-create in two statements |
| Vendor connections (`registry/vendor_connections.go`, `cmd/vendor-sync`) | `vendor_connections`, the vendor's own tokens | create, revoke, poll, refresh | vendor clouds, the API | a customer acting while a poll is under way; rotating refresh tokens |
| Operator connectors (`cmd/pvpro-sync`, `cmd/solarman-sync`) | tokens and sites cached in memory | poll, reconcile sites and devices, convert readings | vendor clouds, the API | caches that outlive what they cache; failures between creating a site and its devices |
| Export jobs (`registry/exports.go`) | `export_jobs`, a queue of 100, four workers, stored objects | create, run, get | object storage | a poll that declares a job dead while it runs; restarts; a full queue |
| Accounts (`users.go`, `invites.go`, `password_reset.go`, `signup.go`, `auth/`) | `users`, `invites`, `password_reset_tokens`, signed tokens | create, invite, accept, reset, disable, log in | e-mail | one-time tokens checked and consumed in different statements |
| Access (`auth/middleware.go`, `router.go`) | none; the claims are the caller's | admit, scope | every route | claims older than what they say; scoping in the middleware or in the handler |
| Sites (`sites.go`) | `sites`, the one primary site | create, set primary | | two statements around a unique index |
| Sandbox (`sandbox.go`) | `sandbox_*` tables | upload, read | | sorting rows some of which have no timestamp |
| Analytics, emissions, anomaly, alerts, benchmark | none (reads) | | daily rollup, raw telemetry | counter resets and glitches in the energy series |
| Rollups and retention (`migrations/0004`, `0006`, `0018`) | continuous aggregate | refresh, prune | telemetry | readings later than the refresh window |
| Pagination (`pagination/cursor.go`) | none; the cursor is the client's | list a page | every list | a table that grows between pages |

What makes each correct:

* **Ingestion**: whatever is stored was audited before; what is marked processed
  is stored; one row per device and timestamp, never rewritten; `last_seen_at`
  never moves back, never names a reading that is not there, and catches up; no
  false reset flags; honest answers; a verdict per audit row, given once; a
  revocation lets in what was past its check and nothing else.
* **Audit chains**: tampering is reported, and nothing else is.
* **Device credentials**: database and broker agree when nothing is under way; a
  success reported is one's own; a deleted client stays deleted; requests return.
* **Tokens, vendor connections**: one live token per device; a revoked connection
  stays revoked; a refresh token is not lost; one customer's failure is not
  another's.
* **Export jobs**: a job's fate is final and has its result; every job ends.
* **Operator connectors**: no second site is made for a plant; a reading says what was
  measured; what one device or plant does wrong stops no other.
* **Accounts, access, sites**: a password is its owner's choice; a session reaches what it
  should; a disabled account is out in the end; one site is primary, the one last chosen.
* **Rollups and analytics**: a day's energy is what the counter went up by, and glitches take
  nothing from it; late readings count; the past stands; the reports agree with one another.
* **Pagination**: no row twice, none missed.

`PROJECT.json` lists the hazards in these components, each at its line.

## 2. Modules

| Module | Models | Role |
|---|---|---|
| `ReadingStore` | the promise of the pipeline | abstract specification |
| `Ingestion`, `MCIngestion` | both handlers, statement by statement | core model, payloads for TLC |
| `Ingestion_proofs` | inductive invariants, nine theorems | TLAPS |
| `AuditChain` | trigger, insertions, retention, tampering, verification | model |
| `AuditChain_proofs` | inductive invariants, four theorems | TLAPS |
| `DeviceAdmin`, `MCDeviceAdmin` | devices table, admin client, broker | model, order of the requests |
| `DeviceAdmin_proofs` | inductive invariants, four theorems | TLAPS |
| `VendorSync`, `MCVendorSync` | vendor connections, the poller's ticks and goroutines, cloud-import tokens | model, accounts for TLC |
| `VendorSync_proofs` | inductive invariant, four theorems | TLAPS |
| `OperatorSync`, `MCOperatorSync` | both operator connectors, call by call | model, an account for TLC |
| `ExportJobs` | export jobs, their channel and workers, the polls | model |
| `ExportJobs_proofs` | inductive invariant, four theorems | TLAPS |
| `Access` | which route admits which claims to what | operators, used by `Accounts` |
| `Accounts` | users, links, logins, sessions, sites | model, composed with `Access` |
| `Accounts_proofs` | inductive invariant, four theorems | TLAPS |
| `Lists`, `MCLists` | the eight paged lists and a client's walk | model, symmetry |
| `OperatorSync_proofs` | inductive invariant, three theorems | TLAPS |
| `DeviceDays` | devices, days, sums over them | used by `Rollups` and `Reports` |
| `Rollups` | readings, daily aggregate, retention, a day's energy | model |
| `Reports`, `MCReports` | every report over the daily rollup | model, a fleet for TLC |
| `Reads_proofs` | what is read back: sums, and the inductive invariants of `Rollups`, `Reports` and `Lists`; ten theorems | TLAPS |

The modules meet at the statements they share. `OperatorSync` and `VendorSync` end where a
reading is submitted, where `Ingestion` begins. `Ingestion`'s `telemetry` is what `Rollups`
makes days of, and `Rollups`' energy of a device's day is what `Reports` begins with.
`Accounts` asks `Access` what each session it issues can reach.

### Ingestion

A *handler* is a goroutine of the ingestor serving one message (`Ingestor`) or of
the API serving one request (`Request`). Its `pc` names the statement it runs
next; `dev`, `todo`, `aid`, `reset`, `best` and `reply` are the code's `deviceID`,
the rest of `readings`, `auditID`, the flag, `maxAcceptedTS` and `results`. The
shared state is the database: `status` stands for a `devices` row and its
`revoked_at`, `audit` for the log, `telemetry` for the table.

One action is one statement together with the computation that follows it: `CreateAuditRow`,
`UpdateLastContact`, `LookupDevice`, `PreviousEnergy`, `InsertTelemetry`, `AdvanceLastSeen`,
`MarkProcessed`, `MarkAuditError`. The two handlers run them in different orders, as in the code:
the ingestor audits, updates the contact, looks the device up, inserts, advances and marks;
`SubmitReadings` looks the device up once, then for each reading audits, validates, inserts and
marks, and updates contact and `last_seen_at` after the loop. Each statement may fail, its effect
taken or not (the answer was lost), with the code's own consequence: the ingestor drops a message
it could not audit, `SubmitReadings` goes on without a row; some failures are only logged.
`Crash` ends a handler between any two statements. `letIn` is history: what of a device was
stored, or in the hands of a handler past the check, when it was revoked. Payloads differ in what
the code tells apart: not JSON (refused by the `jsonb` column), JSON of another shape, refused by
`Validate`, or fine.

Left out: provenance, the night flag, rssi and the other measured values, which
nothing modelled reads; token authentication; the retention of telemetry.

`Ingestion` implements `ReadingStore` under the mapping *admitted devices = those
with a row, store = telemetry, mark = last_seen_at*.

### AuditChain

A *writer* is a database session. Its INSERT takes four steps, because that is how
Postgres runs it: the transaction starts and fixes `received_at` (`Begin`), the
identity default draws an id (`Allocate`), the BEFORE INSERT trigger waits for the
advisory lock and reads the newest row (`Link`), and the transaction ends
(`Commit`, or `Abort` at any point), which releases the lock. `DropChunks` is the
retention policy on weekly chunks, `Rewrite` and `Delete` are what the tests do
with the guard triggers disabled, and `Bad` is the verification query. A hash is
the list of what went into it: sha256 is assumed injective, and bodies distinct
(a body includes `received_at`). `order`, `deleted` and `pruned` are history
variables that only the properties read.

### DeviceAdmin

A *request* is one HTTP call of Register, RotateSecret or Revoke. `Store` is its SQL
statement; `Lock`, `Publish`, `Receive` and `GiveUp` are `Client.send`; `Deliver`
is the subscription's handler with the one-slot channel. A secret is named by the
request that generated it. Outside the program are the broker and the client library (paho).
`sent` is what went out over the present connection and is not acknowledged, of which the
broker has carried out the first `done` (`Execute`) and acknowledges them in that order
(`Acknowledge`); it answers if somebody is subscribed. When the connection is lost
(`Disconnect`, or a write that fails: `PublishFails`) the library keeps every command that is not
acknowledged (`stored`), whether its send still waits or gave up, and a command published
meanwhile as well. `Reconnect` makes a new one, without a subscription (the session is a clean
one and, unlike the ingestor, this client does not subscribe again in an OnConnect handler), and
`Resend` sends what is stored, one by one in any order and among new commands; commands may be
carried out twice. `Restart` (the API dies) loses all of it. `answered`, `executed`, `unsynced`,
`overlapped` and `mixed` (devices of which two commands were to be sent again at once) are
history. Left out: that a command published in the instant between the reconnection and the
library's reading of its store may go out twice over the new connection.

### VendorSync

A *worker* is a slot of `runOnce`'s semaphore with the goroutine in it: the connection
as listed, the devices `left`, the one in hand, `syncedAny` and the kind of `lastErr`.
One action is one call it waits for: `Discover`, `Find` and `CreateDevice`
(`ensureDeviceRegistered`), `RevokeTokens` and `IssueToken` (the two statements of
`IssueToken`), `FetchReading`, `SubmitReading` (with `authenticate`), `Mark`. Each may
fail, its effect taken or not. `Tick` waits for all goroutines (`wg.Wait`), `Launch`
for a slot, `Skip` is the poll interval. `Crash` covers SIGTERM: the calls share the
cancelled context, so not even the marking gets through. `excused` is a history
variable. The order of devices and connections, and the vendor's answers, are free.
Left out: OAuth. `bindProviderCalls` refreshes tokens of an `OAuthProvider`, but
neither binary registers one, so that code is never reached in this build.

### OperatorSync

One process, one loop: `job` says which call of `runOnce` comes next, for which plant and
inverter; `known` is the map of sites, `live` says whose cached token is still good (one that
was replaced by somebody else's is in the map and not live); `place` and `located` are the
platform's devices and sites. `kind` picks the program. The two differ in the calls that list
plants and inverters, in how a new site gets its position (PV Pro asks for the plant's detail,
Solarman looks into the list), and in what they make of the vendor's fields.

A cycle goes over the plants: `GetInverters`, then `reconcileSite` (`LookUp` for one inverter
after another, `SiteExists`, `GetPlantDetail`, `CreateSite`), then
`ensureDeviceRegisteredAndTokenCached` for each inverter (`FindDevice`, `CreateDevice`,
`IssueToken`); at the end it submits a reading for each device that got that far (`Submit`).
Every call may fail (`GetPlantsFails`, `GetInvertersFails`, `ReconcileFails`, `EnsureFails`,
`SubmitFails`), and where it changes something its answer may be lost. `VendorWithdraws` and
`TokenRunsOut` are the vendor's token, `OthersRegister` and `OthersIssueToken` operators and
the poller of customers' accounts (they register an inverter under any site of theirs);
`Restart` loses the maps. `raced`, `fresh` and `posted` are history. A reading is the vendor's
fields worked into ours: units, signs, means over battery packs, strings and phases, and meters
that are not there. A Solarman inverter may leave out its power and its total energy, which
`buildReading` then stores as 0.

### ExportJobs

`Create` inserts a row, `Enqueue` sends on the channel (blocked while it is full),
`Take`, `Start`, `Build`, `Upload`, `Complete` and `Fail` are a worker in `run`,
`Judge` and `Heal` the two statements of `Get`, `TimePasses` the ten minutes. `Restart`
loses everything in memory. No UPDATE looks at the status, as in the code.

### Access and Accounts

`Access` gives each authenticated route of `router.go` about the fleet's data to what guards
it (`OperatorRoutes`, `SiteRoutes`, or its own handler: `ScopedRoutes`), and says which sites a
request that is admitted reaches. A fleet-wide export job has no site. Routes that reach no one
site's data are not in it: those about the caller alone (the caller's own `listExportJobs`
among them), and `getPrimarySite` and `getEmissionFactor`, which answer everybody alike.

In `Accounts` a *request* is an HTTP call; `op` names the statement it runs next, and one action
is one statement. `Invite` inserts the user and `RequestReset` looks one up, `InsertLink` inserts
the link, `Send` mails it, and either of the last two may fail and leave the rest as it is
(`LinkFails`). An acceptance or a confirmation finds the link among the active ones (`Present`),
sets the password (`UpdateUserPassword`) and strikes the link off (`Mark`); two of them may be
past the first step with one link. `Authenticate` reads the user's row and `Issue` signs the
token. `SignupSite` and `SignupUser`, `BeginSetPrimary` and `SetSitePrimary` are pairs of
statements without a transaction. A password is named by who chose it, a token by its row.
`sessions` are the claims in circulation: nothing looks them up again, so `SessionExpires` is the
only way out. `chosen` and `dropped` are history. A statement whose answer alone is lost leaves
what a failure of the next one leaves; for the last one of SetPrimary it is a case of its own.

### Lists

A walk asks for a page, takes the cursor from its last row and asks again, until a page
comes without a cursor. Each list has the query the code sends (`SitesQuery`,
`TelemetryQuery`, ...), a sort key of time and id (or the id alone for health, the name for
segments) and its filters. Meanwhile rows are inserted with the clock of their
transaction and committed later (`Begin`, `Commit`), purged, and, in the ingestion audit,
given their verdict. `owed` is history: the rows that have matched since the walk began.

### Rollups

A day has slots; a reading comes in any later day, may be a vendor's lone zero (`glitch`, which
the program does not see), and is flagged on insertion as `Ingestion` has it. `Refresh` is the
policy of migration 0004: of what is past the watermark or invalidated it materialises the days
that lie wholly in its window, which are one fewer than the days it reaches back (`RefreshDays`):
yesterday and the day before, for the migration's three. `Purge` is the retention of raw
readings. `EnergyOf` is `deviceDayEnergy`: max minus min of the day's rollup (materialised or,
past the watermark, live), or, on a day with a flagged reset, `DailyEnergyFromReadings` after
`filterSpuriousDips`. How TimescaleDB invalidates and combines is external.

### Reports

The state is a fleet's device-days and emission factors, which only come; every report is
an operator on it, named after the function that makes it, and takes ranges, periods and
groups as the routes do. Ratios stay pairs of sums, weather is a constant, and all weeks and
all months have their length. A row is of a midnight in UTC; a range is given by the days whose
midnight it has. A comparison or an anomaly is asked for as of a `Moment`: a day, whether it is
its midnight, and the Location of its `time.Time`. `PeriodStart` keeps the hour except of a
month, and `PointAt` finds no point at it. `Found` is the look-up in the map of `evaluate`: its
keys are in the server's own Location, as the driver (pgx, external) gives them. The server is
taken to run in UTC (its image sets no zone), which Go still tells from `time.UTC`.

## 3. Runs

| Run | Checks | Bounds | States |
|---|---|---|---|
| `ingestion` | six invariants, `EverySettles`, the refinement of `ReadingStore` | 1 device, 2 ingestors, 1 request of up to 2 readings, 2 arrivals, 2 timestamps, 2 counters, 2 faults | 312 k |
| `audit_chain` | three invariants, `InsertsReturn` | 2 sessions, 3 rows, 3 weeks, 2 tamperings | 159 k |
| `device_admin` | three invariants, `RequestsReturn` | 3 requests, 1 device, 2 faults | 1.5 M |
| `vendor_sync` | `FailuresAreOwn`, `RevocationHolds`, `EveryoneIsPolled`, `Recovers` | 2 connections, 2 devices (one shared), 2 slots, 1 fault | 190 k |
| `vendor_sync_revoked` | `RevokedStays`, violated | the same, no fault | |
| `exports` | `CompletedHasFile`, `YoungOutcomeIsFinal`, `EveryJobEnds` | 3 jobs, 1 worker, a channel of 1, 1 fault | 97 k |
| `operator_sync` | `TypeOK`, `NoSecondSite`, `ReadingsFaithful`, `KeepsDelivering`, deadlock | both programs, 2 plants (one broken), 3 inverters, 3 faults | 181 k |
| `accounts` | three invariants, `DisabledRunsOut` | 2 addresses, 2 links, 2 sites, 2 requests at once, 3 in all, any number of logins, 2 faults | 192 k |
| `lists` | `ListedOnce`, `WalkComplete` | 8 lists, 3 ids, 2 times, pages of 1 and 2, 2 filter values | 1.6 M |
| `rollups` | `DayEnergySound`, `PastStands`, `LateReadingsCount` | 1 device, 4 days of 3 slots, counters 0 and 2, 3 readings, a window of 2 days, retention of 2 | 356 k |
| `rollups_reset` | `ResetsFlagged`, violated | the same, counters 0, 1, 3 | |
| `reports` | `ReportsAgree`, `AnomalyJustified`, `FactorHistoryStable` | 3 sites, 3 devices (two alike), 2 countries, 3 days, 3 device-days or factors, weeks and windows of 2 days, months of 3 | 11 k |

Why these bounds. In `ingestion` two handlers are what every race in the code needs, as each
statement touches one device and one reading: two messages at two ingestors, a message against a
request, or a batch of two. Two faults hit any two statements, or crash the handler that the
first one diverted. Two timestamps and two counters give late, repeated and reset readings. With
one ingestor, three arrivals (a batch of two that meets a message) and one fault nothing else
happens: that instance has 816 k states and was checked once, as were `audit_chain` with three
tamperings, `vendor_sync` with two faults and the invariants of `device_admin` with three. In
`audit_chain` three rows are a tampered row, its predecessor and its successor, with the race for
one pair of them; three weeks let retention drop a chunk while rows of two more remain. In
`device_admin` three requests let two operations follow a registration, each overlapping the
other's command or response, and every send may time out: giving up is unbounded. They are
interchangeable, so `MCDeviceAdmin` lets them come in the order of their numbers. Two faults lose
a connection twice, with everything resent over the next. Which device a stolen response belonged
to makes no difference to the client, so one device has all the cases. In `vendor_sync` the first
account has one device, which the second has as well beside one of its own: the syncs race to
register it and for its token, one of them has another device to fall back on, and a leftover
goroutine would meet a newer one. In `exports` a job is at the worker, one fills the channel and
one is blocked in `Create`. In `operator_sync` the broken plant comes first, so that giving up on
it would starve the other, and that one's inverters cover a silent and a missing battery, import
and export; three faults are a lost site, a lost device and a restart in one behaviour. In
`accounts` two requests at once race for one link, one address, one new site or the flag, and the
third comes after both. In `lists` three ids and two times make pages that end within a time, and
a row that commits late before the cursor, at it and after it. In `rollups` three readings are a
glitch between two good ones, or a day with a late reading and its neighbour; four days let the
watermark, the refresh window and the purge each pass a day. In `reports` a week has two days, so
that ranges cut it and a week precedes another; a month has three, and that one precedes another
is left to the theorem. Three device-days are two devices of one site and another site's, or a
window and the day after it. `Max...` constants are the only bounds in guards; `MaxFaults` and
`MaxTampers` count failures.

Where nothing more may arrive the runs stop, so deadlock is not checked there; what must
not stop is stated as liveness. `OperatorSync` never stops, and TLC checks that it does not.

**What the properties say** is written above each of them in the modules. Two are
statements of the repository that the code does not keep, each violated in a run of its own:

* *Never revoked* connections are polled (`cmd/vendor-sync/main.go:14-15`). One revoked
  during its sync is marked active by that sync and polled from then on.
  `RevocationHolds`: that is the only way.
* *Reset detection stays correct under out-of-order arrival*
  (`internal/db/telemetry.sql.go:193-195`). A reading is compared with the one before it
  that is there when it is stored. If that one comes later, neither is flagged
  (`ResetsFlagged`), and the day counts as if the counter had not been reset. `ResetFlagSound` and
  `DayEnergySound` say what does hold: no false flags, and on a day without resets never less
  energy than the counter went up by, nor more if glitches are alone and came in turn.

Other places where code and words part, met while modelling. They are part of the models,
and the properties are stated so that they say exactly what is left:

* *The next message is that publish's response* (`mqttadmin/dynsec.go:114-116`): not once a send
  gave up whose response is still to come. `NothingStolen` says what is left: a send takes only
  its own response or that of one that gave up, and no response serves two.
* *A revoked device's identity is gone for good* (`dynsec.go:242-243`). If its creation and its
  deletion are both unacknowledged when the connection is lost, they are sent again in any
  order, and the client may be back. `DeletedForGood` and `CredentialsAgree`: not where a
  device's command is sent again without another.
* *Never a fabricated 0* (`cmd/solarman-sync/solarman_client.go:252-255`): an inverter that
  leaves out its power or its total energy is stored with 0, and `ReadingsFaithful` says so.
  Of the other fields nothing is made up.
* *The energy for the single period bucket asOf falls into*
  (`registry/benchmark.go:77-78`). By days or weeks the bucket of an `as_of` with an hour, the
  default, starts at that hour, where no point of the series is, and the energy is 0.
  `ComparisonsAgree`: by months, or as of a midnight, it is right.
* An anomaly *flags a day whose energy fell below 50%* of its window's
  (`registry/anomaly.go:29-31`). The day is looked up by a `time.Time` in UTC among keys in
  Local, which Go's `==` tells apart, and is not found. `AnomalyJustified`: what is listed has
  its reason, and asked for in Local (an `as_of` whose offset is written `+00:00`) such a day is
  listed.
* Audit verification reports untouched rows when two sessions raced (a row drew its id
  before it waited for the lock) and the oldest row once retention has dropped a chunk
  (`migrations/0013:16-18`, `audit_chain_test.go:29-31`). `AlarmExact`: those and no others.
* *No in-memory work left* of a job that a poll declares dead (`exports.go:30-32`): it may be
  waiting in the channel, and run and complete afterwards. `YoungOutcomeIsFinal` is about jobs
  that no poll may declare dead yet; what becomes of the others is not stated.
* A Solarman site without usable coordinates is created at 0, 0
  (`cmd/solarman-sync/main.go:191`; see `docs/solarman-integration.md:33`), and so is a PV Pro
  site whose detail the vendor refused.
* Two acceptances of one invitation that are both past its look-up both set the password
  (`registry/invites.go:112-135`). `PasswordIsOwn`: it is one the address's reader chose.
* A reading that comes after the two whole days that the window reaches never gets into
  `telemetry_daily` (`LateReadingsCount` is about the window), and a day with a flagged reset
  loses its energy when the raw readings are purged (`PastStands` is about the others).
* `FleetSpecificYield` divides by the sized sites' capacity the energy of all sites. An alert's
  anomalies compare today, which is not over, with whole days. An anomaly is flagged at
  exactly half of the baseline too, and a revoked device counts as offline.

**Fairness.** `Ingestion!FairSpec`: a handler that runs keeps running; messages, crashes and
operators are not obliged to anything. `AuditChain!FairSpec`: a running statement runs on,
and Postgres serves lock waiters in turn (strong fairness of `Link`).
`DeviceAdmin!FairSpec`: goroutines run, a mutex that stays free is taken, and the 10-second
timer fires; the broker and the connection owe nothing. `VendorSync!FairSpec`: the ticker
ticks, the loop runs on, and every call of a goroutine has a timeout (the HTTP clients' 15
and 20 seconds). `OperatorSync!Spec`: the ticker ticks and calls time out likewise, and a
vendor token's lifetime passes, after which the connector logs in again.
`ExportJobs!FairSpec`: workers and blocked senders run on, the ten minutes pass, and a job's
client polls until it has an outcome. The last is an assumption about clients that the code
relies on: only `Get` finds a job that a restart lost. `Accounts!Spec`: a request's next
statement returns, and a session token's 24 hours pass. `Rollups!RollupsSpec`: the hourly
refresh job runs.

## 4. Proofs

TLAPS checks the theorems for every value of the constants, from the modules' named
assumptions only (`IngestionAssumption`: timestamps and counters are naturals, a
handler is either an ingestor's or a request's; `AuditChainAssumption`;
`VendorSyncAssumption`: every account has a device; `ExportJobsAssumption`;
`DeviceAdminAssumption`; `AccountsAssumption` and `NoneIsNoRow`: the names of addresses,
sites and rows do not coincide with the marks used for nobody and nothing;
`ListsAssumption`: ids are numbers, the default page is not empty;
`OperatorSyncAssumption`: the account lists a plant, every plant has an inverter, and no
inverter is of two plants; `TruthAssumption`: what an inverter measures are whole numbers,
voltages are not negative, and the mark for no value is not a number;
`DeviceDaysAssumption`; `RollupsAssumption`: slots and counters are naturals, and the
refresh window's whole days are no more than the retention of the readings, 2 days and 2 years
in the migrations; `ReportsAssumption`: the types of what a fleet is, with finitely many sites, and
an emission factor is positive, as the route that creates one demands). TLC checked what
the inductive invariants are made of on the instances of the runs first.

**Ingestion.** None of the invariants is inductive: that a stored reading was audited,
say, holds because a handler about to insert holds the id of the audit row of the
reading in its hand, and because no other handler holds that id. The inductive
invariant `IInv` is the conjunction of `TypeInv`; `Apart` (no two handlers hold the
same audit id); `DataInv` (the table's keys, flags and audit rows, and `last_seen_at`
naming a stored row); and per handler `HandlerInv`: `Idle` (an idle handler holds
nothing), `Linked` (the id held is of the current reading and has no verdict yet),
`Vouched`/`Bound` (the reading is audited, or was let through unaudited), `Checked`
(past the check means valid and of a known device), `Landed` (about to be marked means
stored), `Flagged` (the flag computed has an earlier higher row), `Known` and `Backed`
(what is in `best` and `reply` is in the table). One lemma per action shows it
preserved. From it follow
`TypeCorrect`, `AuditedBeforeStored`, `ProcessedMeansStored`, `NoFalseReset`,
`RepliesAreHonest`, the action property `VerdictsAreFinal`, and the refinement
`IngestionImplementsStore`. `LastSeenFollows` (`LastSeenCatchesUp`) adds `Fresh`: between
the INSERT of a row and its UPDATE some handler has that timestamp or a later one in hand,
and it lets go of it only in that UPDATE. `RevocationsHold` (`RevocationTakesHold`): `LetInInv`
says that the readings in the hands of handlers past the check, too, are among those let in at
the revocation. No handler gets past the check after it (`NoneComesIn`), and one that is past it
takes up nothing more.

**AuditChain.** `ChainTypeCorrect`, and `RewritesAreEvident`: the inductive part is
that every row not rewritten carries its body as the last element of its hash and every
committed pair stays in `order`, so that a row whose body differs cannot match a hash
recomputed from any predecessor whatever.

`DeletionsAreEvident` (`DeletionEvident`) and `AlarmsAreExact` (`AlarmExact`): ids and bodies are
given out once, and only the holder of the lock has linked without committing (`Numbered`,
`Distinct`, `Pending`, `Separate`, `OneRow`). A `prev_hash` remembers the row it linked to, the
newest present at the time (`LinkedToNewest`, `RowsLinked`): its last element is the body
committed under that id, which no other hash ends with. So once a row is deleted, the one that
followed it links to a row that is gone or has a later id (`Missed`), and is reported. While none
is, the `prev_hash` is of the highest id among those committed before (`OfNewest`, `RowsExact`)
and verification expects the highest id below; they differ exactly when a later id was overtaken
(`LinkExactly`). That there is a highest id (`Greatest`) is well-foundedness of the order of the
naturals.

**DeviceAdmin.** `AdminTypeCorrect`, `ResponsesStayOwn` (`NothingStolen`),
`DeletedStaysDeleted` (`DeletedForGood`) and `HomesAgree` (`CredentialsAgree`). The argument
for the second counts. A request that has not published is nowhere on the wire (`NotYet`). What is
to be sent again was sent over a lost connection, and nothing goes out twice over one (`Lanes`).
Responses come only over the connection with the subscription, the first of a process; over
that one each command is carried out once, so a request's response is in one place at most, on its
way, in the channel or taken (`Single`, `Once`), and what one send takes no other can, though a
command be carried out twice later. Only the holder of the lock sends (`Exclusive`), and it
drained the channel before, so what it takes is its own or that of a request that has returned
(`Stale`).

The third is about order. Only a register's command creates a client, and a device has one
register at most (`OneRegister`): the INSERT of a second fails. Where never two commands of a
device were to be sent again at once, one at most is (`Apart`), no other of the device is on the
connection then (`Ahead`), and one that will be carried out a second time comes before all
others of its device (`First`). So where a client was deleted, the register's command is
acknowledged, or on the connection, carried out and followed by the deletion (`GoneAt`): it is
sent again only beside the deletion, which would mix them up.

The fourth puts both together at a device where no requests overlapped, no command got lost and
none was mixed up (`Clean`). The request in flight there is the only one and was the last to
write the row (`Alone`), so the last command on its way, or to be sent again, is of the last to
write (`LastWins`); a revoked device's client is gone, or will be and is not created after
(`WillGo`); the client of a device in use is there or on its way (`WillCome`); and with nothing
on its way the two homes agree (`Synced`). `Known` and `Remembered` say what rows, commands and
the broker tell of the requests they come from: among others, that who has not begun is at no
device.

**VendorSync.** `SyncTypeCorrect`, `FailuresStayOwn`, `RevocationIsFinal` and
`GivenUpIsFinal`. `FailuresAreOwn` is not inductive: that a goroutine about to mark its
connection as failing has an excuse holds because it collected one with its error
(`Excused`, `Ended`), and for a refused token because whoever revoked the token excused
its holder (`Live`). `Apart` (no two goroutines at one connection, none at one still
listed) is what the barrier between ticks gives; from it `GivenUp` (a connection given
up is neither listed nor at a goroutine) follows. The steps of a sync other than `Mark`
share a lemma about what they have in common (`Steady`).

**ExportJobs.** `JobsTypeCorrect`, `CompletedMeansFile`, `FailedMeansReason` and
`YoungOutcomesStay`. The invariant says that a job is in one place at most, among the
blocked senders, in the channel or at a worker (`Distinct`, `OnePlace`); that a job in
memory that is not old is open (`Held`); that only old jobs are judged; and what a
worker that is about to report has to show (`Ready`). The lemmas on the channel say
what sending to it and taking from it does to the set of jobs in it.

**Accounts.** `AccountsTypeCorrect`, `PasswordsAreOwn`, `RestrictedIsScoped` and `OnePrimary`.
The invariant: links and requests are of users with a row (`RowsThere`); a link was mailed to its
own user only, and who is using one has read that mail (`LinksOwn`); a restricted user has a site
that exists and a password from who may choose it (`RowsOwn`, by what `UserStep` says can
become of a row); and what a session, or a login about to issue one, claims is what the
user's row says (`ClaimsTrue`), as no statement changes role or site. `ScopedClaims` then
goes through the routes of `Access` for such claims.

**Lists.** `ListsTypeCorrect`, `NothingTwice` and `NothingMissed`. Keys are unique (`Unique`), what
was listed is not beyond the cursor (`Behind`), and what is owed was listed or is among what
the next query returns (`Ahead`). That a page takes the first rows of what matches makes both
survive a page; that keys are ordered by time and id, and a key never changes, makes them
survive everything else. The queries of all lists come down to one form first (`QueryIs`).

**OperatorSync.** `ConnectorTypeCorrect` and `NoSecondSiteEver` (`NoSecondSite`). A job is
at an inverter its plant has and at the first one until the plant's turn (`JobOK`). That
`reconcileSite` creates no site for a plant with an inverter registered anywhere, and that the
others are registered only where one of them is, holds because of what the connector found out on
its way (`FoundOut`): the inverters looked at so far are nowhere; then all of them are; the site
it goes on with is one of the plant's, or the plant has none. What it remembers of a device is a
site of its plant (`KnownThere`). That this is still true when it is used is what `raced`
exempts: others may register the plant's inverters anywhere, but not while the connector is at
that plant. A step at one plant leaves the others alone because an inverter is of one plant
(`Apart`).

`ReadingsAreFaithful` (`ReadingsFaithful`) needs no invariant: only `Submit` posts a reading
(`PostedBySubmit`), and what it posts is worked out from what the inverter measures. Of its
parts the means are the work. The loop's tally of any sequence of numbers lies between the
least and the greatest value it counts, as often as it counts (`Middling`, `TallyLies`), so
their quotient does (`Quotient`, `MeanLies`). Where an inverter leaves out its power or its total
energy the theorem says that 0 is what is stored.

**Sums.** The reports and a day's energy add up over finite sets with `MapThenSumSet`. The
library's induction theorems take a predicate, which no prover here can instantiate; stated
with a *set* in its place (`AllNumbers`, `AllSubsets`, from the well-foundedness of the order
of the naturals) induction is a lemma like any other. By it the recursive function that
`MapThenSumSet` chooses exists (`IterExists`), there is one only (`IterAgrees`), and a sum can
be taken apart at any element (`SumRemove`). The rest follows: sums of parts (`SumUnion`,
`SumGroups`), sums along a bijection (`SumMoved`), bounds (`SumLess`), and that the ratio of
two sums lies between two of the ratios summed (`Mediant`).

**Rollups.** `RollupsTypeCorrect`, `PastStays` (`PastStands`) and `DayEnergyIsSound`
(`DayEnergySound`). `RollupsInv` says that a reading's device and time are its key
(`ReadingsKeyed`); that what the watermark has not passed is still due, and not on disk
(`LiveIsDue`); that a device's day has one row (`OneRowADay`); that a row shows readings that
are there until retention may take them (`RowsGrounded`); and that a row nothing came to since
is what its readings add up to (`InStep`). The last needs `RefreshDays - 1 <= RetentionDays`:
otherwise a day could be summed up anew when its readings are gone.

For `PastStays`, every row a query could see before a step is covered by one it sees after
(`StaysCovered`), for each action: it reaches as far, and keeps a flag. So a day that is not
flagged after the step was not before, and has no less energy (`CoveredStands`). For
`DayEnergyIsSound`, `Ascending` enumerates any finite set of numbers (`RiseExists`, `Ascends`),
so the readings of a day are a sequence ordered by time. On a rising day `filterSpuriousDips`
keeps all good readings (`GoodAreKept`), and the rises along any sequence come to no less than it
rises by between two of its members (`ClimbAtLeast`): so much for the lower bound
(`EnergyAtLeast`), whatever glitches are kept; the row's maximum less its minimum has it as well.
Where each glitch stands between two good readings, the filter keeps one only after another zero
(`KeptGlitch`); what is kept never falls (`KeptRise`), so its steps add up to the last minus the
first (`Climb`), the greatest and the least good one (`EnergyOfReadings`). That without a flag no
glitch is in the row is where the order of arrival comes in: a reading below the one before it,
which came first, is flagged (`InTurn`), whatever comes between them later.

**Reports.** `ReportsTypeCorrect`, `FactorHistoryStands` (`FactorHistoryStable`),
`ReportsDoAgree` (`ReportsAgree`) and `AnomaliesAreJustified` (`AnomalyJustified`), for any
fleet, any readings and any factors. The state is simple (`FactorIds`: an id is given once);
what there is to prove is that operators which group and add the same rows in different
orders agree. Each series comes from a set of rows (`SeriesOf`, `SeriesIs`): a point for each
period they fall into, worth what the rows of the period add up to. Divided by site, by
country or by period, the rows add up to the same (`PartsAddUp`, `BySite`). `EnergyAddsUp` and
`ComparisonsAgree` are then about equal sets of rows: by months, or as of a midnight, the period of
a comparison starts where that of a series does (`Starts`). For emissions the rows are weighted with
the factor of their period (`AvoidedIs`, `SeriesAvoids`); ids order the factors of one day
(`FactorOrder`), so the one in effect is well-defined. The fleet's ratios are mediants of its
sites' (`BestYields`, `FleetPerforms`). An anomaly compares a sum with a count, which
`WindowSum` turns into a statement about some day of the window; where the key finds no day there
is none (`Justified`).

**Only model-checked**: liveness (`EverySettles`, `InsertsReturn`,
`RequestsReturn`, `EveryoneIsPolled`, `Recovers`, `EveryJobEnds`, `KeepsDelivering`,
`DisabledRunsOut`, `LateReadingsCount`), which rests on fairness and ENABLED, and the absence
of deadlock in `OperatorSync`; both are beyond this prover. No module declares a RECURSIVE
operator, for which tlapm has no SMT backend: recursion is in recursive functions (`Tally`)
and in the folds of the community modules.

## 5. Not modelled

* The data-quality sandbox: uploads land in tables that nothing else reads, and are parsed,
  sorted and scored within one request. What could go wrong is how rows without a timestamp
  are ordered, and the code is the only statement of what their score should be.
* `SitePeak`, the power curve, the current flow and `SmoothIsolatedDips`: shapes of
  instantaneous power for charts. The alerts: a list of what health and anomalies say.
* OAuth of vendor connections, which no provider of this build uses; encryption; the
  vendor-sync poller's own login, whose failures are failures of any of its calls.
* The single UPDATEs of a site's country and location, marks such as a token's last use,
  counts of online devices.
* HTTP binding, response shapes and rate limits, the web dashboard, e-mail, weather and object
  storage (no state of their own; that they fail is in the models that call them), the
  client of the one customers' vendor cloud (the wire format of a third party), the load
  test and the seeding tool.

What a next step would add: the alerts and the power curve over the rows of `Rollups`, and the
sandbox's parsing, as operators checked like those of `Reports`.
