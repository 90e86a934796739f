# TLA+ models of ddash

ddash is a deployment dashboard: it receives CDEvents over signed webhooks,
stores them in SQLite and shows which version of which service runs where. This
directory holds TLA+ modules of its stateful parts, TLC configurations that
check them on small instances, and proofs that hold for every instance. Paths
are relative to the repository; `services/` is
`apps/ddash/internal/app/services/`, `routes/` is
`apps/ddash/internal/server/routes/`.

## 1. The system

| Component | State | Operations | Interacts with |
|---|---|---|---|
| Batched event ingestion (`services/ingestion.go`, `webhooks/custom`) | per endpoint: bounded channel, batch slice, reply channels | `Ingest`, `IngestForOrganization`, `appendRecord`, `append`, `run`, `flush` | HTTP senders; event store |
| Event store (`internal/db/store.go`, `queries.sql`) | `event_store`, unique on `(organization_id, event_source, event_id)`, AUTOINCREMENT `seq` | `AppendEventStore`, `AppendEventStoreBatch` | organizations (foreign key, cascade); projections |
| Service projections | `service_env_state`, `service_current_state`, `service_delivery_stats_daily`, `service_change_links` | four upserts inside the append's transaction | event store; rebuild tool |
| Rebuild tool (`apps/projectionsync`) | position in its list of statements | `RebuildServiceProjections` | a second process over the same database |
| Organizations (`services/organization_management.go`) | `organizations`, `organization_members`, `organization_join_requests` | create, join, approve, reject, add, role, remove, rename, enable, disable, delete | everything that refers to an organization |
| Active organization (`routes/auth_session.go`) | the organization in the cookie | login, select, fall back to a default | organizations |
| GitHub set-up (`application/githubintegration`) | set-up intents, installation mappings | start, complete, delete | GitHub callbacks |
| Fragment cache (`renderer/fragment_renderer.go`) | LRU list and map with a TTL | get, set | HTMX requests |
| Deployment stream (`routes/view_deployments.go`) | seen keys of a subscriber | poll every 2 s | event store |
| Settings and metadata (`services/org_config.go`, `metadata.go`) | features, preferences, required fields, environment order, metadata | read, update, replace | pages |
| Service catalog and metrics (`services/service_read.go`, `application/servicecatalog`) | `service_dependencies` | lists, a service's page, dependency graph, lead times, reports | event store, projections |
| Accounts (`routes/auth_handlers.go`, `auth_user_sync.go`) | `users`, the user in the cookie | sign-in, repair of a session older than the database | organizations |
| Backfill tool (`apps/eventbackfill`) | position in the old deployments | convert and append, one by one | event store, beside the server |
| GitHub App and GitLab bridges, `pkg/eventpublisher` | none | build and publish an event | providers; ingestion |

What is hard in it:

* **Concurrency.** A goroutine per HTTP request, one run loop and ticker per
  batcher, three batchers over one database, and a rebuild tool in another
  process. Multi-statement operations on organizations are not transactions.
* **Failure.** Senders hang up while their record is queued, a transaction
  fails under a whole batch, the process dies between commit and answer, the
  rebuild dies between two statements.
* **Ordering.** Events arrive late, twice and with equal timestamps; `seq`
  breaks ties.
* **Limits.** A bounded queue that refuses at once; a reply channel of
  capacity one.

What makes each part correct:

* *Ingestion*: what was acknowledged is stored, what was refused left nothing,
  an event has one row, nobody waits for ever.
* *Projections*: they are a function of the event store, whatever the order of
  arrival; a completed rebuild restores that function.
* *Organizations*: an organization keeps an owner and the last organization stays as long as
  what the guards have read is still so when the call writes; a deletion is final.
* *GitHub set-up*: what is mapped belongs to an organization that exists. An intent is looked up in
  one statement and used in the next ones, so a second or a late callback may map once more (section 5).
* *Fragment cache*: list and map agree, the capacity holds, a fragment is never
  older than its TTL plus its rendering.
* *Deployment stream*: every new deployment is sent once.
* *Settings*: a save changes what its user changed, and what is shown is what was
  saved; strictly enforced metadata is complete.
* *Catalog*: what ranks the events anew and what was kept incrementally agree; a
  page read in several statements does not contradict itself.
* *Bridges*: what the provider was told is published is stored, under the mapped organization.
* *Accounts*: a session names the row of its own address.
* *Backfill*: repeated and overlapping runs store an old deployment once.

## 2. Modules

```
DurableIngest            what a sender is promised
   ^ implemented by
IngestBatcher            the batcher, the direct path, crashes, deletions
   ^ extended by
IngestInvariant          the inductive invariant
   ^            ^
   |            IngestBatcher_proofs
MCIngestBatcher

ServiceProjections       the event store and the four projections, the rebuild tool
   ^     ^     ^
   |     |     EventBackfill    the old deployments, run after run <- MCEventBackfill
   |     ServiceQueries         the reads over both
   |        ^            ^
   |     DeliveryReports    ServiceDependencies
   |               ^            ^
   |               ServicePages           <- MCServicePages
MCServiceProjections
ServiceProjections_proofs <- EventBackfill_proofs (extends EventBackfill too)
                          <- ServicePages_proofs  (extends ServicePages too)

Organizations <- MCOrganizations          FragmentCache    the LRU list and its map
   ^      ^                                  ^
   |      Organizations_proofs            Fragments <- MCFragments
Accounts <- MCAccounts                       ^
   ^                                      Fragments_proofs
Accounts_proofs
                                          Settings         settings and metadata
                                             ^
                                          Integrations <- MCAdministration
                                             ^
                                          Integrations_proofs
```

### IngestBatcher

`pc[r]` is where the goroutine of delivery `r` is; `queue[b]` is the channel of
batcher `b`, `batch[b]` its slice, `loop[b]` its program counter, `outcome[b]` the
`err` of `flush`, `result[r]` the reply channel of `r`. `batching` is
`IngestBatchConfig.Enabled` of the running process; a restart may switch it.
`org`, `store` and `lastSeq` are the database. `fate`, `ticket` and `tickets` are
history: they are written and never read by a guard.

| Action | Code |
|---|---|
| `Admit`, `Reject`, `LookupFail` | the checks of `Ingest` / `IngestForOrganization` and `lookupOrganization` |
| `Enqueue`, `Busy` | first `select` of `append` |
| `Receive`, `GiveUp` | second `select` of `append` |
| `Take`, `Tick` | the two cases of `run` |
| `FlushCommit`, `FlushFail`, `Answer` | `flush`: open and append, then one send per item |
| `DirectCommit`, `DirectFail` | `appendRecord` without a batcher |
| `Disconnect`, `Crash` | a done request context; the end of the process (`app.go` has no shutdown of the batchers) |
| `SetOrganizationEnabled`, `DeleteOrganization` | administration that runs meanwhile |

The request context and the queue are independent: a sender that gave up leaves
its record queued, and it will still be stored. That is why `fate` is separate
from `told`, and why `DurableIngest` lets a silent delivery be stored later.

Abstractions: the token, signature and payload checks are one set,
`WellFormed`; an event is its organization and its `(source, id)` pair; a
transaction is one step, since SQLite serialises writers; the durability of a
commit is that of a process crash (in WAL mode with `synchronous=NORMAL` a power loss may
lose a committed transaction; that is not modelled). `lastSeq` advances for an item
that is skipped as a duplicate too: whether AUTOINCREMENT leaves a gap there
does not matter to any property, only the order of `seq` does.

### ServiceProjections and EventBackfill

`store` holds rows `[seq, event]`; `envState` and `links` are the sets of event rows
that fill them, `current` holds the latest row of a service with its drift and
failure counts, `daily` maps a day key to counters. `AppendEventStore` is the
whole transaction of `appendEventWithProjections`. `StartRebuild`, `Clear`,
`Refill`, `RefillFails` and `Die` are `execProjectionRebuild`, a statement at a
time, for any number of runs of the tool. `SqlName` and `GoName` keep apart the
two ways the code derives a service name from a subject id (`instr` finds the first
slash, `strings.LastIndex` the last one).

`EventBackfill` adds the runs of `apps/eventbackfill`: `StartBackfill` reads the
default organization and the rows of the old table, `BackfillDeployment` appends
the event of the next row, whose id is made of the row's id, `SkipDeployment` passes a row that is
not valid or could not be appended (a lock, an organization that is gone), `EndBackfill` is the end of the list, an error or a stopped
process. Between them the server appends and organizations are deleted.

### ServiceQueries, DeliveryReports, ServiceDependencies, ServicePages

The SELECTs of the service pages as operators on the state of
`ServiceProjections`: a list is the set of the `event_store` rows it was made
from, ordered by `Newer` (timestamp, then `seq`). `DeliveryReports` adds lead times,
their summaries and percentiles and the three reports;
`ServiceDependencies` the table of dependencies and `AddService`, one service's
part of the graph. In `ServicePages` someone reads while events arrive and
dependencies are entered:

| Action | Code |
|---|---|
| `OpenPage`, `ReadPage` | `GetServiceDetail`, a statement at a time, in its order |
| `OpenGraph`, `ReadGraph` | `GetServiceDependencyGraph`, a service at a time |
| `OpenStream`, `Poll` | `handleDeploymentsStream`: the rows when it is opened, then a listing every tick and the seen keys |
| `EnterDependency`, `RemoveDependency` | the forms of a service's page |

### FragmentCache and Fragments

`ll` is the list, of keys, `entries` the map. An entry's `left` is the number of ticks to its
`expiresAt`. `Hit`, `Miss` and `Set` are the methods, each under the mutex.
In `Fragments` a request passes the membership middleware
(`Arrive`, `Serve`, `LookupFails`), the fragment middleware
(`ResolveOrganization`) and the handler (`Read`, `Finish`, `Fail`), on the copy
of the cookie it came with, and its response writes that copy back.
What a fragment shows is its organization and the age of the oldest change it misses.

### Settings and Integrations

Every statement of the settings page and of a service's page is a
step: `OpenSettings` to `ReadFeatures`, then the form rests in a browser
(`PostSettings` or `CloseSettings`) until `SaveSettings`, which is one transaction;
`ReadMetadata`, `ShowService`, `PostMetadata`, `CheckMetadata`,
`ReplaceServiceMetadata` likewise. `SaveSettings` replaces the required fields and leaves
`service_metadata` alone (`adapters/sqlite/store.go:553`): values of labels that are no longer required stay
in the table, which is why the lists and the pages have to filter them. `loadMetadataFilterData` and
`applyMetadataToServices` are the badges and tags of the lists; label names and
service names are folded there, which the model's values already are.

`Integrations` adds the installation of the GitHub App (`StartInstall`, `Expire`,
`CompleteInstall` and its two statements, `DeleteMapping`) and the bridges: a
delivery `d` may be sent several times, each an attempt of its own (`Send`), which
ddash files under the mapped organization (`ResolveOrganization`, `Store`,
`Refuse`), and of which the provider hears or not (`Answer`, `GiveUp`).
`Convert` is the table from webhooks to event types of both bridges. The
ingestion behind the endpoint is what `DurableIngest` promises: stored, or not and
refused. `Delete` is the deletion of an organization with its cascade over all of it.

### Organizations and Accounts

`call[c]` is the statement a service call executes next, with its arguments and
what it read. Every SQL statement is a step; `Abort` ends a call between two
statements, and any number of calls interleave. `listed` is what `ListOrganizations` returned, of which the
code keeps the count or what it concluded from it. History, which no guard reads: `seen`, the owners there
were when a role was read or they were counted; `enabled`, how `GetOrganizationByID` found the organization;
and `granted`, who has been a member. `ReadRoleFails` is the path of `UpdateMemberRole` on which an error
of `GetOrganizationMemberRole` is taken for "not an owner"; the constant
`ReadsMayFail` switches it. `Operations` selects what callers use, so that the
runs can tell the guarded operations from the others. Who may call an
operation (`requireOrganizationAdmin`) is not modelled: any call may come.

`Accounts` puts the HTTP requests in front: `users` has a row `[id, profile]` per
e-mail address, `session[b]` is the cookie of browser `b`, `request[c]` the request that
makes call `c`, with the session it came with. `ensureAuthUserRecord` brings the
row up to date and repairs a session whose id is another row's. `Respond` writes the
request's copy of the session back into the browser, late or not. `ReplaceDatabase` is a server
started over another database file, after which cookies name rows that are gone.
A session's `asOf` says which database its id is from; it is history.

## 3. Runs

Each is `tlc -config <cfg> <module>`. The runs of `MCAdministration` and `orgs_last_organization` switch
the deadlock check off: the number of calls and of attempts, or of the organizations to delete, is bounded
there, and when they are used up the system stops. In all others the environment can
always move.

| Run | Configuration | Shows |
|---|---|---|
| `ingest_one_endpoint` | `IngestOneEndpoint.cfg` | 3 deliveries (an event, its retry, another organization's event with the same pair), batch 2, queue 2, batching on or off, faults on: safety of ingestion, order of `seq`, `DurableIngest` is implemented |
| `ingest_liveness` | `IngestLiveness.cfg` | every waiting request is answered, every pending item leaves the batcher |
| `projections_follow` | `ProjectionsFollow.cfg` | server events with equal and decreasing timestamps, a blank environment, a second organization, beside two runs of the backfill tool over two old rows: the four tables are what the store says, no old row is stored twice |
| `projections_rebuild` | `ProjectionsRebuild.cfg` | a rebuild that reports success made the tables agree, with appends (one is not about a service) and deletions in between; two that overlap and may die leave no wrong or doubled row |
| `service_pages` | `ServicePages.cfg` | lists against projections, a page against itself, the graph, three reports against each other, lead times only shrink, a stream catches up |
| `fragments` | `Fragments.cfg` | list and map agree, fragments are recent, and settle on their own organization |
| `administration` | `Administration.cfg` | two tabs, installation callbacks, redelivered webhooks and deletions: a deletion is complete, strict metadata too, lists and pages agree, saves keep to their page, an acknowledged delivery is stored |
| `settings_masked_save` | `MaskedSave.cfg` | *violated*: saving a masked page stores the mask |
| `orgs_concurrent` | `OrgsConcurrent.cfg` | two interleaving calls of all operations, ended at any statement, reads that fail: what the guards of the last owner, the last organization and the last enabled one are worth then, membership comes before approval, deletion is final |
| `orgs_last_organization` | `OrgsLastOrganization.cfg` | *violated*: two deletions leave no organization |
| `orgs_add_owner` | `OrgsAddOwner.cfg` | *violated*: `AddMemberByLookup` lowers the last owner |
| `accounts` | `Accounts.cfg` | a session names the row of its address, the welcome page acts for it |

The type invariants of `ServiceProjections`, `Organizations`, `Fragments` and
`Accounts` are proved (section 4) and not in a run.

**Bounds.**
*Ingestion*: three deliveries are the fewest that fill a batch of two
with a third waiting, put two copies of an event in one batch or in two, and fill a
queue of two (`BatchSize * QueueFactor`, factor 1 instead of 8: only being full
matters). Two organizations make a batch fail for one of them.
*Projections*: a timestamp tie, an inversion and a change of day need three events of a service; `MaxSeq`
bounds the appends. `DayLength = 3` puts the timestamps 1 and 2 on
one day and 3 on the next. *Backfill*: two runs are the fewest that overlap, and a run may
start again for ever; `Tools = {}` leaves the rebuild to its own run.
*Pages*: three appends of eight events; `HistoryLimit` and `LinksLimit` of 2 instead of
200 and 20 are reached; `MinuteLength = 2` and `DayLength = 4` make two timestamps of
one minute and of two days. *Fragments*: `Capacity = 1` makes
two requests evict each other, `TTL = 1` and `RenderTime = 1` let a fragment expire while another is being rendered;
the proof covers the other values. *Administration*: `MaxCalls = 3` calls of two browsers, `MaxAttempts = 2` sends
of one delivery, two labels of which one is filterable; these are a
page that grows stale and the two saves that may race it. *Organizations*: two calls are the fewest that
interleave, two organizations the fewest of which one may be deleted, two users
the fewest of which one may be removed; `Rows = 3` memberships (former ones of organizations that exist
included) and join requests are two owners who remove each other beside a request, or a second
organization with its owner. `Roles` leaves `admin` out of that run: to this code it is a role that is not `owner`,
as `member` is. *Accounts*: two addresses and two nicknames are
the fewest with which a nickname passes from one account to the other,
two browsers let one be late; the database is replaced once (`MaxReplaced`), one call at a time.

**Symmetry** is used over calls, browsers, backfill runs, organizations and users where
nothing orders them, and only in runs without liveness.

**Fairness.** *Ingestion*: weak fairness of each request's goroutine and of
each run loop: the Go scheduler runs what is ready, a `time.Ticker` keeps
firing, and `busy_timeout` ends a transaction one way or the other. Fairness of `CallerNext` as a whole,
not of its disjuncts, leaves a `select` free to pick any ready case. *Fragments*: weak
fairness of the clock and of each request's work, for the same reasons.
*Pages*: weak fairness of `Poll`, the stream's two-second ticker; nothing else there has to happen.
Nothing is assumed of senders, users, administrators, providers or crashes.

**Several batchers.** The runs have one batcher; the three webhook handlers have
one each. That an event which arrives at several endpoints is stored once, and
every other safety property, is proved for any number of batchers (section 4).

**Readings of a result.** `CompletedRebuildAgrees` speaks of a run no other run has overlapped:
of two that overlap, one of which dies, the other may report success over missing
rows, which nothing in the repository excludes; what a run that failed has left out stays out until a later one
succeeds. The three properties named `...Guard` say what the guards of
`organization_management.go` are worth between concurrent calls: what they protect is lost only if what the
call was told has changed since, or, for the owner, if the role was not read. That it can be lost at all is finding 3.
`ListsAgreeWithPages` counts missing fields only for services with a field
filled in, `PageOnlyMovesForward` excepts deletions and rows cut off by a limit,
`GraphIsFaithful` excepts edges that changed while it was read, and
`SavesKeepToTheirPage` excepts settings that somebody wrote since the page was opened: those
overwritings happen, and section 5 lists them.

## 4. Proofs

Checked by `tlapm`, for all values of the constants that satisfy the named assumptions
(`IngestAssumption`, `OrganizationAssumption`, `ProjectionAssumption`, `QueryAssumption`,
`ReportAssumption`, `DependencyAssumption`, `PageAssumption`, `BackfillAssumption`, `BackfillIdAssumption`,
`CacheAssumption`, `FragmentAssumption`, `AccountAssumption`, `SettingsAssumption`,
`IntegrationAssumption`), each beside its constants. Every invariant and every action property of
the passing runs is stated by a theorem; what else a theorem supposes is in its `ASSUME`:

* `PlainNames`: SQL and Go cut the same service name from a subject id, and not the blank
  one. `PlainEnvs`: no environment is called `all`, the word that asks for the list over all of them.
* `AskedByName`: a page is asked for by a service's name, or by a subject id that is its name.

None of them is the code's; section 5 says what happens without. The runs evaluate
`PlainNames`, `PlainEnvs` and `AskedByName` for their constants.

*Ingestion* (`IngestBatcher_proofs`). No property of a sender is inductive by
itself: "accepted" is justified by a reply in a channel, the reply by the
outcome of a flush, the outcome by rows in the store. `IInv` says this chain
link by link: `CallerAgrees` (answers, replies and fates), `Placement` (a request
stands in at most one place of one batcher and has no reply yet), `Waiting` (who waits stands
somewhere), `LoopAgrees` (a batch is decided exactly when its answers go out),
`StoreAgrees` (rows and fates). `InductiveInvariant` proves it;
`TypeCorrect`, `AcknowledgedEventsAreStored`, `RefusalsLeaveNoRow`,
`EventsAreStoredOnce`, `NoRequestIsStranded` and `RepliesNeverBlock` follow from
it, `BatchesAreAtomic` from it and the step. `IngestImplementsDurable` maps each
step to a step of `DurableIngest` or to a stutter. `SeqNumbersFollowArrival` adds
`ArrivalAgrees`: the queue and the batch are in the order of their tickets, the batch before the
queue, and both after the rows their endpoint has stored, as far as they are undecided (a
committed batch stays until its answers have gone out).

*Projections* (`ServiceProjections_proofs`). The tables are kept by comparing a
new event with the row that is there, so that they agree with the store needs
`Numbered` (no two rows have one `seq`, which makes `Newer` a strict total
order) and `Covered` (no event of a place is newer than its row). `Covered`, the links
and the counters are lost while a rebuild is under way, hence
`NoRebuild => Complete` in `ProjectionsInv`; that no row is wrong or doubled
(`ProjectionsStaySound`) holds throughout, for any number of rebuilds that
overlap, fail and die. Without one, `EnvStateStaysLatest`, `DailyStaysCounted`,
`LinksStayMatched` and, with `PlainNames`, `CurrentStateStaysLatest`.
`RebuildsComplete` rests on `Refilled`: an `INSERT` of the tool goes through only where the table is
empty of what it inserts, so each statement a run has passed without meeting another run
left a table that is right, and the appends after it keep it so.
That a finite set of rows has a newest one is induction over the set; here and below it is had
without one from `LeastSubset`: of the subsets on which a fact fails, take a least one.

*Backfill* (`EventBackfill_proofs`). Its steps are appends or leave the tables alone, so
`BackfillKeepsProjections` and `BackfillKeepsCurrentState` have the invariant above. An event id
is unique within an organization only, and runs may have been started for different ones; so
`DeploymentsAreStoredOnce` rests on `OneDefault`: whatever organization a run works for, and
whatever has been backfilled belongs to, is the default one, or has been deleted with its rows.
`WrittenIsStored` follows what a run has reported.

*Pages* (`ServicePages_proofs`). A page, a graph or a stream is a stutter to the projections
(`PageStepProjects`), so `ProjectionsInv` holds for what the queries read.
`ListsShowProjections` compares the list that ranks all events of a service and environment with
the row kept by comparing (`PlainNames`, `PlainEnvs`). `PagesOnlyMoveForward` has one predicate for each
pair of reads (`HistoryFollows`, `CurrentFollows`, `StatsFollow`, `LinksFollow` in `PageAgrees`): what an
earlier read has shown has a number up to the `lastSeq` of that moment, and as far as it is still in the
store, the later read finds it, newer rows or a full limit (`FirstRowsFull`); `PlainNames`, `AskedByName`.
`GraphStaysFaithful` follows the edges between what was there all the time and what was
there at some time (`GraphAgrees`). `LeadTimesNeverGrow`: a sample is measured from the latest change
before its deployment, an append only adds changes to choose from, and a deletion takes the
deployment with its changes (`LeadShrinks`, `OrganizationStays`).
`ReportsStayInAgreement` needs sums and percentiles: a sum over a finite set is the one solution of the
equations that define it (`Solves`, `SumOfSizes`), a percentile the member of its rank (`RankExists`,
`PercentilesAre`), and the counters of a day count its events (`DaysCount`).

*Settings and integrations* (`Integrations_proofs`). `AdministrationTypeCorrect` gives each stage of a
call its own fields. `NothingOutlives`: late callbacks and webhooks write under a foreign key or after the
mapping was looked up, and a deletion takes what refers to it. `AcknowledgedDeliveries` rests on
`DeliveryInv` (what the bridge tells the provider, what ddash told the bridge, the row).
`ListsAlwaysAgree` compares both readings of one table. `StrictMetadata`: a check is valid for as
long as no settings were saved since the call began (`fresh`), and a call that is still fresh has read the
required fields and the flag that are in force (`Enforces`). `SavesStayOnTheirPage` follows a page through
its six statements and the form made of it (`ReadSoFar`, `PostedAsRead`): while nobody has
written, each part of the page read so far is what is stored, and the order of environments is
what merging it with what was discovered gives, which merging once more does not change (`SavedOrder`).

*Fragments* (`Fragments_proofs`). `FragmentsInvariant` is the type, `CacheAgrees` (an
LRU step moves, drops or adds the same key in list and map), `EntriesAged` (an
entry with `left` ticks to go has aged by at most `TTL - left` since it was
stored, plus the rendering) and `RequestsAged` (what a slow handler is about to store
was read at most `RenderTime` ago). `FragmentsAreRecentHolds` adds the two up: the bound
is `TTL + RenderTime` for any capacity.

*Organizations* (`Organizations_proofs`). `OrganizationTypes` is type
correctness. `DeletionStands` rests on `GoneIsEmpty`, the tables have no row of
an organization that does not exist, and holds for any number of interleaving calls:
foreign keys and updates that match no row protect it. The guards are proved for interleaving calls too:
`Informed` says what a call was told before it went on (another owner besides its user, another
organization, another enabled one), which no other call can change, so that `LastOwnerIsGuarded`,
`LastOrganizationIsGuarded` and `LastEnabledIsGuarded` only have to compare it with the tables at the moment of the
write; the second also needs `ListedExisted`, what was listed has existed. `ApprovedHaveBeenMembers` rests on
`Recorded`: a call that is about to mark a request has its requester among `granted`, or
the organization is gone and has no requests (`GoneIsEmpty`).

*Accounts* (`Accounts_proofs`). `AccountsAreKeyed`: no two rows share an id or an address, and the ids
count the rows. `SoundCookie` says of every cookie, and `SoundRequest` of every copy a
request works on, that an id of the present database belongs to the
cookie's address, and that a request past `ensureAuthUserRecord` has such an id.
`SessionsNameUsers` and `WelcomeActs` follow, for any number of
browsers, requests and replacements of the database. A replacement ends the requests under way and keeps the
cookies, which is why a cookie carries the database it is from.

*Only model-checked*: liveness, which is out of the prover's reach with the fairness it rests on
(`EveryRequestIsAnswered`, `PendingIsSettled`, `StreamCatchesUp`, `FragmentsSettle`), and what the three
violated runs refute.

## 5. Findings

Shown by a run that is violated:

1. `services/organization_management.go:326` and `:295`: adding or approving a
   user skips the last-owner check (`orgs_add_owner`).
2. `routes/view_services.go:67`: the mask of a sensitive value is posted back and
   stored (`settings_masked_save`).
3. `services/organization_management.go:415-422`: the organizations are listed in one statement and one is
   deleted in another; of two organizations two deletions leave none, against
   `docs/feature-catalog.md:83` (`orgs_last_organization`).

Seen while modelling, without a run of their own. Where a configuration shows it, it is given.

Events and projections:

* `internal/db/store.go:418` and the SQL disagree on the service name of a
  subject id with several slashes; `docs/plans/service-details-migration-backfill.md:37` expects as many
  services in the projection as in the events. `ProjectionsFollow.cfg` with a subject for which `SqlName` and `GoName` differ.
* A service's page asked for by a subject id that is not its name lists the rows of the store, which match
  either, but no current state, statistics or links, which are kept by name
  (`services/service_read.go:78`). `ServicePages.cfg` with a subject id among `Names`.
* `internal/db/store.go:466` ff.: the rebuild is neither a transaction nor an
  upsert; a fresh row makes a statement fail and leaves holes, while `:32` of
  the same plan calls reruns safe. Overlapping runs may leave rows out and both report success.
* `docs/feature-catalog.md:32` gives an idempotency key that lacks the
  organization; `README.md:230` and the index have it.
* `pkg/eventpublisher/publish.go:53` makes a fresh id for each publication, so what is
  published again after a timeout is stored twice.
* A `deployment_status` that is pending or in progress becomes `service.upgraded`
  and counts as a success (`docs/operations/github-app-ingestor.md:45`).
* The backfill counts queued and processing rows as deployed, and its `-source` must stay
  the same for runs to recognise each other's rows.
* No handler uses a mapping's `default_environment`; nothing writes a
  GitLab mapping.

Pages and reports:

* `handleServiceStream` makes up statuses; `docs/architecture.md:90` and
  `docs/feature-catalog.md:87` describe a stream of events.
* Metrics of one service answer with an error when the change failure rate is no whole number: the
  rate is scanned into an `int64` (`queries_analytics.sql.go:214`).
* The filter `unknown` of `ListDeployments` misses events without an environment.
* The badge of missing metadata is 0 on the lists for a service without any row
  (`docs/feature-catalog.md:48`).
* A dependency of a service without events is on its page but not in the graph; names that
  differ in case make two rows.
* `trimDeploymentHistoryByDays` parses local times as UTC; the first deployment in
  the history is labelled the initial release even if older ones were cut off.
* The filter options of the home page come from a second read after the list's.
* The analytics tables (pipelines, throughput, drift, incidents) have no writer.

Organizations, settings and set-up:

* `services/organization_management.go:350`, `:360` and `:386-407`: here too checks and writes are separate
  statements; two removals, or a demotion beside a promotion, may leave no owner, two calls no enabled organization.
  `OrgsConcurrent.cfg` with `OwnerIsKept`, the operations `create`, `role` and `remove` and reads that succeed shows the first,
  which `LastOwnerGuard` bounds.
* `:337`: a failed read of the current role skips the last-owner check (`ReadRoleFails`).
* `:231`: creating an organization and granting its owner are two statements.
* `routes/organizations.go:420`: `requireOrganizationAdmin` returns what `c.Redirect` returns,
  nil, so its callers go on with the operation.
* Saving the settings can disable the last enabled organization.
* Two settings pages overwrite each other, and a form lands on the organization that is active by
  then. The page is read in six statements.
* `show_service_delivery_metrics` is read and never written (`settings.templ:267`).
* An installation callback looks its intent up, maps and drops it in three statements: one that comes
  twice, or goes on after the intent expired, may overwrite a newer mapping.

Sessions and accounts:

* A slow response undoes a switch of the organization and restores a cookie after a
  logout. A fragment of one organization may be stored under another's key until it expires.
* `ensureAuthUserRecord` writes the session's nickname and id back over newer ones, and
  `handleOrganizationCreate` does not call it.
* `UNIQUE(nickname)` is not handled by the upsert, which resolves conflicts of addresses
  only: who signs in with a nickname that another row still has gets an error.
* A hidden e-mail address becomes one made of the nickname, so the account follows the nickname.

Without a caller: `CreateInitialOrganizationForUser`, `EnsureDefaultOrganization*`,
`GetActiveOrDefaultOrganization`, `GetOrganizationRenderVersion`, `RenderCached`, `RenderCachedTTL`.

## 6. Not modelled, and the plan

* *Pages and templates* (about 5,500 generated lines in `src/views`): no state;
  what a form posts back is part of `Settings`.
* *Analytics SQL* (about 800 lines of reads over tables without a writer).
* *Wording and form of data*: OAuth exchange, signing, decoding and schemas of
  webhooks (sets of well-formed requests stand for them), configuration, tracing and metrics,
  the adapters that pass a call through.
* *Power loss* in WAL mode, which needs a model of the log and its checkpoints.
* *Generators, schema and deployment files*: no state at run time.

What could be taken further, in order of use: an upper bound on how often a webhook is stored,
with ids that survive a retry; the two halves of the cookie composed (`Fragments` and `Accounts`);
renaming and the organization of a first login.
