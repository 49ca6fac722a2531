# Verification of the Hampshire bin collection platform

The platform answers "which bins are collected when" for addresses in
Hampshire. It is one Node process (`src/src/api/server.ts`, Fastify) that asks
a council's website through an adapter, plus workers and libraries around it.
This directory holds TLA+ modules of its concurrent core, the TLC runs that
check them, and theorems that TLAPS proves about them. Paths below are those of
the repository with the prefix `src/`; "the server" is `src/src/api/server.ts`.

Contents: 1 the system; 2 the modules; 3 the runs; 4 the proofs; 5 what differs
from the documents; 6 what is not modelled; 7 the plan.

## 1. The system

Node runs one piece of JavaScript at a time. What makes the code hard is
everything that is awaited: between two awaits of one handler any other handler,
timer or callback may run. **An action of these modules is the code between two
awaits**, with every call it makes.

| Part | State it keeps | Operations | Talks to |
|---|---|---|---|
| Adapter registry, `adapters/registry.ts` | map of registered adapters; reads kill switches (environment) and `data/adapter-config.json` | `initializeAdapters`, `register`, `has`, `get` | called by every route |
| Public routes, the server 845-1237 | only what a handler has on its stack | addresses of a postcode, collections and services of a property | registry, adapters, address resolution, mock data |
| Address resolution, `services/uprn-resolution.ts` | none | `resolvePostcodeToUprn`, `determineCouncilFromPostcode` | postcodes.io, OS Places |
| Admin routes, the server 569-829 | `disabledAdapters`, `schemaSnapshots`, `lastDriftCheck` | disable, enable, drift check of one and of all councils, health, test | registry, adapters |
| Browser adapters, `adapters/base/browser-adapter.ts` and five councils | `this.browser`, `this.context`, shared by all calls on a council | `executeBrowserTask`, `createPage`, `cleanup`, `verifyHealth` | Playwright, Chromium |
| HTTP and PDF adapters, eight councils | none between calls; what they need to know of a property is in its id | the same interface | council sites, evidence store |
| Extraction and parsers, `adapters/<council>/` | none | pages to entries and services | - |
| Audit log, `observability/audit.ts` | event numbering, signing key | `log` | local log, SIEM forwarder |
| SIEM forwarder, `observability/siem-forwarder.ts` | `batchBuffer`, `forwarding`, flush interval | `forward`, `flushBatch`, `retryForward`, `shutdown` | Log Analytics workspace, webhook |
| Rate limits, enumeration detection, `api/middleware/` | a counter, sorted sets, minute sets and blocks in Redis | check and count per request | Redis |
| Retention, `core/retention`, `workers/retention-worker.ts`, `storage/evidence` | `isRunning`, deployment time; dates in the metadata of evidence | run, purge by type, date and expire evidence | scanners, blob store, audit log |
| Synthetic monitor, `workers/synthetic-monitor.ts` | a failure counter per adapter; repeating jobs in Redis | liveness, freshness, canary and confidence checks, several at a time | registry, queue, audit log, alerts |
| Drift detector and snapshots, `services/`, `core/drift` | state files | compare, merge, record | imported by nothing |
| Property resolution, confidence, normalisation, `core/` | (storage stubbed) | resolve, deduplicate, score | constructed by nothing |
| Cache client, `storage/cache` | Redis keys | get, set, invalidate | imported by nothing |

What is hard, and what would make each part correct:

- **Audit and SIEM.** A batch is taken from the buffer before an await that may
  last through every backoff, while events keep arriving, ticks fire, and
  critical events use the same function and the same flag without looking at
  it. Correct means: no event falls between buffer and network, none is sent by
  two calls, a verdict ("forwarded", "retry exhausted") is true and final, the
  flag that suppresses flushes is always cleared, every event gets a verdict
  and every critical event an alert.
- **Browser adapters.** All calls on a council share one browser and one context
  field, each call closes whatever the fields hold when it ends, and Chromium
  may die at any point. Correct means: a call on its own works in its own
  context and leaves no process behind; when nobody is calling, nothing
  live is held and the next call can work.
- **Public routes.** An adapter call is raced against a timer and never
  cancelled; a chain of fallbacks follows; configuration changes underneath.
  Correct means: an adapter that is off is not called, a request is answered
  once, the source named in the answer is the true one, and the answer comes.
- **Property ids.** The server stores no properties. An id from the addresses route is
  made by one of thirteen adapters or by the central fallback, each in a form of its
  own, and used later, when the council may have published other lists. Correct
  means: it leads back to its adapter, is accepted there, brings up the schedule of
  its own address or none, and a made-up one brings up none.
- **One adapter call.** Thirteen adapters, written one after the other, each with its own
  checks, time-outs, evidence and names for what went wrong; headers and body arrive
  apart, and a browser may fail at every stage. Correct means: the call returns, a council is
  blamed only for what it did, and a success rests on a page that came and was kept.
- **Parsers.** The copies of one parser have drifted apart; each maps labels by the first
  pattern that fits and reads dates of several forms, some without a year, on pages that stay
  up while days pass. Correct means: the day, material and "past" of an entry are those of
  the page, services agree with entries, and ids tell entries apart.
- **Rate limits.** Every check is several Redis commands, between which other requests, the
  clock and failures come. Correct means: no more are let in than the limit, a refusal is
  earned, and a counter ends.
- **Retention.** Two parties delete, a deployment may restart the process between any two
  steps, and evidence is written before it is dated. Correct means: nothing goes before its time, nothing
  goes unrecorded, and what has a limit goes.
- **Synthetic monitor.** Jobs of one adapter share a counter across awaits that may throw,
  and the `catch` of a probe counts too. Correct means: no alert from one check alone, and
  an adapter that stays down is reported.
- **Admin routes.** Runs over all councils await one adapter after the other,
  overlap, and share maps with disable and enable. Correct means: every change of
  a recorded schema is reported once, disabled adapters are skipped, runs end.

`PROJECT.json` lists all components and, under `hazards`, each place where the
code can go wrong in a way a test would hardly reach, with the properties that
cover it or the reason why none does.

## 2. The modules

```
EventDelivery  <--implements--  SiemForwarder          BrowserAdapter
                                 |- SiemForwarderProofs   `- BrowserAdapterProofs
                                 `- MCSiemForwarder
AdapterRegistry
  |- LookupService  (MCLookupService)
  `- AdminService   (MCAdminService)
        `- ApiServer = LookupService + AdminService over one registry
             |- MCApiServer
             `- ApiServerProofs
PropertyIdentity                    CouncilAdapters          Retention
  |- MCPropertyIdentity               `- CouncilCall           |  SyntheticMonitor
  `- PropertyIdentityProofs               `- CouncilCallProofs `--`- WorkerProofs
RateLimits                          CouncilSchedules
  |- MCRateLimits                     `- CouncilSchedulesProofs
  `- RateLimitsProofs
```

The parts meet through what one promises the other. `LookupService` takes of an adapter one
of five kinds of result and lets it never return; `CouncilCall` shows what the thirteen
adapters return and that they do. `PropertyIdentity` says whose schedule a call brings up,
`CouncilSchedules` what that schedule says, `BrowserAdapter` what calls that overlap share.

A definition whose comment begins with "Fault:" is a plausible bug in the
definition that follows it. No specification uses it: each property is tested by
putting a fault in the place of the original (`mutants` in `PROJECT.json`).

### EventDelivery, SiemForwarder

`EventDelivery` is what the pipeline promises of an event: it is accepted once,
and settled once with one of four verdicts, of which `acked` requires that the
workspace holds the event.

`SiemForwarder` is the code. Its state: `batchBuffer`, `forwarding`, `batchTimer`
are the fields of the class; `shipping` are the events that wait for the dynamic
import in `shipToSiem`; `calls` are the running `forwardImmediate` calls with
their attempt and whether they wait for a response or a backoff; `wire` and
`stored` are the network and the workspace; `outcome` and `alert` record what the
code would log. An event is its `eventId`; nothing in the code reads more of it
than whether its type is critical.

| Action | Code |
|---|---|
| `Log` | `AuditLogger.log` up to the import in `shipToSiem` |
| `Forward` | `forward`: skipped, `forwardImmediate`, or `addToBatch` (which may flush) |
| `TimerTick` | the interval's callback, `flushBatch` |
| `Store` | external: the workspace stores a request, also after the sender gave up on it |
| `Ack`, `FailAndBackOff`, `GiveUp`, `Retry` | the awaits of `retryForward` with the `finally` of `forwardImmediate` |
| `PostAlert` | `forwardToWebhook` returns |
| `Shutdown` | `SiemForwarder.shutdown` |
| `Exit`, `Restart` | `gracefulShutdown` or a crash; a new process with any configuration |

A response may be lost after the workspace stored the body (`FailAndBackOff` asks
nothing of `stored`), so events may arrive several times and late. When two
calls carry equal sets of events and attempts `calls` cannot tell them apart;
`EventsHeldOnce` shows this does not happen.

### BrowserAdapter

One adapter instance and the calls on it. A call launches at most one browser
and opens at most one context, so both are named by the call; `browser` and
`context` are `this.browser` and `this.context`. `pc` names the await a call is in.
`Cleanup` is `cleanup()` up to its first await that waits: `this.context` is
closed if nobody asked before (Playwright's `context.close` returns at once the
second time), otherwise the code goes on to `this.browser`. `ContextClosed` and
`BrowserClosed` null *whatever the field holds by then*, as the code does.
`ContextCloseRejected` is the exception that leaves a `finally` block when the
context died with its browser. `Crash` ends a browser at any time. `HealthTask`
and `EastleighTask` are the two ways the adapters write `verifyHealth`; `report` is what a check
says, one of three (`Verdict`), because a failed check may still say `upstreamReachable`. `overlapped`
is a history variable that only properties read.

### AdapterRegistry, LookupService, AdminService, ApiServer

`AdapterRegistry` keeps apart the three switches: kill switches (fixed while a
process runs, consulted by `register` and `get`: `Killed`), the configuration file (read on
every call, edited at any time, possibly unreadable for a moment, when the code
takes it for empty) and the map of registered adapters. `Has` is
`isCouncilSupported`, which does not look at the kill switches; `Available` is "`get` returns",
which looks at all three. `SwitchedOn` is what an operator means, and only properties read it.

`LookupService`: a request is a Fastify handler. `route` says which one, `at` which
await it is in, `got` what its adapter returned, `reply` the answer, named by its
status or, for 200, by the source of the data. `busy` are the requests whose
adapter call has not returned: after `TimerFires` the call goes on, and
`AdapterReturnsLate` is its return to nobody. An adapter's result is one of the five
kinds the handlers tell apart. `Detected`, `Resolved` and `PlacesReturns` are the
answers of postcodes.io, postcodes.io again, and OS Places.

`AdminService`: `checkAt`, `checking` and `found` are where each admin request is,
the council it waits for and what it has found; the other variables are the
maps of the server. `RunOn` is the rest of the loop of `GET /v1/admin/drift`, up
to the next adapter call or the summary. A hash is a model value; the hash of `{}`
that a failed call leaves is one of them.

`ApiServer` composes the two over one registry and one process. Its steps are those
of either service with the other's variables unchanged, an edit of the file, and a
restart of everything.

Choices of abstraction, each of them equivalent for the properties:

- `register()` reads the file once per adapter; at start-up the model reads it once.
- `has` and `get` read the file one after the other in one turn of the handler. When `get`
  throws where `has` said yes - over a kill switch, or after an edit between the two - the
  request ends in `ReceiveWhileSwitchedOff`; in `Detected` it goes on to the fallback, which is a
  disjunct already. In the admin routes `get` must return too (`Available` in `StartOne` and
  `Eligible`), and what it throws is an error reply, which no property tells from a refusal.
- The probes (`health`, `test`) change nothing but are kept: they are requests that
  wait for an adapter.

### PropertyIdentity

One client, one postcode and its council. `home`, `osKey` and `listing` are the world:
the council of the postcode, whether `OS_PLACES_API_KEY` is set, and what the council
publishes, for Fareham in two datasets. `at` and `route` are the handler of the
client's request, `held` the id the client keeps (with the address it was handed out
for and who made it, which only properties read), `call` the council and
`councilLocalId` an adapter is called with, `answer` what the response showed.

An id is the sequence of what stands between its colons, and an element is a form
(UPRN, option value, index, position, postcode, area, made up) with the address or
number it names: that is all the code tells apart. The schedule an adapter returns is
named by the address it belongs to.

| Action | Code |
|---|---|
| `LookUp` | the server 863-882 and 908-935: which adapter is asked, if any |
| `ResolveFareham`, `ResolvePortal`, `ResolveGosport`, `ResolveEastHampshire`, `ResolveUnsupported` | `resolveAddresses` of the adapters and what the route makes of the result |
| `ResolveCentrally` | `resolvePostcodeToUprn` and the server 980-1034 |
| `Ask` | the collections or services route up to the adapter call, with the split of the id |
| `RefuseFareham`, `FetchFareham` | `fetchFarehamDataByAddress`; one step per dataset |
| `Fetch` | `getCollectionEvents` or `getCollectionServices` of the twelve others, and the response, mock data included |
| `Publish` | external: the council changes a list, also between two steps of a request |

Assumed of the outside: a council's service that is asked by UPRN answers for that UPRN
or not at all; a portal that is searched with the empty postcode the routes pass
either lists nothing, and its page has no schedule, or lists addresses; a UPRN is
larger than the length of any list (Fareham's fallback would take it for an index).
Availability of adapters is left to LookupService and shared browsers to BrowserAdapter:
requests for ids share no other state, so one client is enough.

### CouncilAdapters, CouncilCall

One call of one operation on one of the thirteen adapters. `CouncilAdapters` is a table: for each council
and operation what it does with a missing or malformed input, whether it looks at the kill
switch, and what each kind of page leads to (`full`, `empty`, `badDate`, `odd`, `garbled`,
`block`, `away`); and how `verifyHealth` reads an outcome. `CouncilCall` steps through it:
`Refuse` or `Ask`, then for the adapters that fetch `HeadersArrive`, `TimerFires`, `BodyCut`, `BodyArrives`,
`NextList` (Fareham's second dataset), `Stored` or `StoreFails`; for the browser portals
`Launched`, `Navigated` or `NavigationFails`, `FormDone`, `ListAwaited`, `PageStored`,
`CleanedUp` or `CleanupFails`. `met` records what council and machinery did, which no code
sees and the properties compare with the answer.

A page stands for all pages of its kind, so a table may give several outcomes for one page: any page that
Southampton's adapter gets may hold the robots mark that it takes for bot protection. Retries are not in
the model because no adapter makes any; the range of dates of an event query is left out.

### CouncilSchedules

From a printed page to the response. `rows` is the page, each row a pair of lists of labels and
days; `form` is how it writes dates, `zone` the clock of the server, `garden` Fareham's extra
field. `Day` by day (`NextDay`) the page may be read (`GetCollectionEvents`,
`GetCollectionServices`). Per council there is one definition each of the extraction (`HavantLabel`,
...), the patterns in the order of the code (`HavantPatterns`, ...), the reading of a date, and the
entries with their ids. A label is a sequence of words, none of which holds another, and a day a number,
which is all that the patterns and dates tell apart. `NoDay` is a date that is missing or cannot be read,
`NullDay` the null that Gosport's service may answer, which the adapter reads as `Epoch`. Fareham's definitions are
those of `fareham/index.ts`, which reads the row itself; of `fareham/parser.ts` it calls the patterns only. `Meant` is what a resident takes a label for: the properties read it, and
Rushmoor's adapter, whose fields name the materials themselves. A slot (`Slot`) is a place on the page that
may become an entry - line, label and day - and `MaxSlots` how many there are; it may be any number.

Left out: dates that do not exist, years of two digits, and the hour in which UTC is a day behind
a British summer night (except that `zone` = "ahead" shows its effect on dates without a time).

### RateLimits

One client of each of three limiters over one Redis. `req` is a request at a command, `store` and `life`
are what Redis holds and until when. `Execute` is Redis executing a command, `Handle` and
`HandleError` what the code does with the reply, `Command` and `CommandFails` the two ways there
(`CommandFails` loses the reply of a command that was or was not executed), `Stop` the end of a process between two
commands, `Tick` the clock. Redis executes the commands of one `multi` together and those of
different requests in any order. A look at the statistics of an address (`getRateLimitStatsForIp`) makes the three
commands of a counter for each tier: it is a request of the model whose outcome nobody reads. The server mounts none of the three: it uses
`@fastify/rate-limit`, which is external. They are modelled for the day they are mounted, as
the documents say they are.

### Retention

`blob` is what is stored, with type, age and expiry date; `run` are calls of
`RetentionWorker.run`, `job` calls of the expiry of evidence. `StartRun`, `ScanReturns`, `PurgeType`, `EndRun`
are one run (a scanner deletes any part of what is due, or throws); `Store` and `SetExpiry` are the two steps
of `storeEvidence`, with a crash possible between them; `StartExpiry`, `Listed`, `MetadataRead`,
`BlobDeleted`, `DeleteFails` are the expiry; `DaysPass` is time, `Restart` a crash or deployment, which
starts the grace period. Scanners are an interface without an implementation here (external).

### SyntheticMonitor

`slot` are the jobs BullMQ runs at once, each at an await and with what it made of its own copy of the
counter; `counter` is `adapterFailureCounters`; `scheduled` the repeating jobs. Every await may throw, and what throws goes where
the code's nearest `catch` is: a liveness probe whose audit fails is counted twice (`LivenessThrows`),
a canary's failure ends in an exception of the job (`CanaryThrows`), a freshness or
trend job's in the worker's own handler (`JobThrows`). `blamed` are the checks counted since the last reset; only
properties read it.

## 3. The runs

| Run | Module, cfg | Question | Bounds |
|---|---|---|---|
| `siem` | MCSiemForwarder, Siem.cfg | ownership, verdicts, flag, implementation of EventDelivery, settlement and alerts | one critical and two plain events, batch size 2, one retry, four configurations; 204,579 states |
| `browser` | BrowserAdapter, Browser.cfg | isolation of lone calls, rest, no wedge, calls return | one lookup, one health check, Eastleigh's check, crashes at will; 1,231,180 states |
| `browser_health` | BrowserAdapter, BrowserHealth.cfg | violation: a council is called healthy though its site was never reached | one check |
| `lookup` | MCLookupService, Lookup.cfg | switches respected, honest source, answered | two councils, two requests, three environments, edits and restarts at will; 789,730 states |
| `admin` | MCAdminService, Admin.cfg | changes reported, runs end | two councils, two overlapping requests, two hashes; 23,360 states |
| `lookup_disabled` | MCApiServer, ApiDisabled.cfg | violation: a disabled council is served | one council, one request |
| `identity` | MCPropertyIdentity, Identity.cfg | where an id leads: its adapter, accepted, own schedule or none | all thirteen councils, two addresses, every list of them with and without links, lists changing at will; 884,546 states |
| `calls` | CouncilCall, Calls.cfg | blame, evidence behind a success, calls return | every operation of every council on every input, page and failure; 6,499 states |
| `schedules` | CouncilSchedules, Schedules.cfg | day, material and id of an entry; services | twelve councils, every form of date, pages of up to two slots (`MaxSlots`), ten days a year, dates on both sides of a new year, null at Gosport; 1,349,748 states |
| `limits` | MCRateLimits, Limits.cfg | let in within the limit, refusals earned, counters end | three requests, two postcodes, a clock of four ticks, a window of two, limits 1 and 2; 2,686,217 states |
| `retention` | Retention, Retention.cfg | exclusion of runs, nothing early, nothing silent, everything in the end if somebody starts runs | two records, three types, two runs, one expiry job, steps of 30 days up to 90; 174,918 states |
| `monitor` | SyntheticMonitor, Monitor.cfg | no alert from one check, a dead adapter is reported | two adapters, two jobs at once; 433,218 states |

Properties of the passing runs:

- `siem`: `EventsHeldOnce` (an open event is in exactly one place and
  a settled one in none), `GaveUpAfterAllAttempts` (exhaustion is logged after
  1 + `maxRetries` sends with this event in the body), `FlagMeansCalls`
  (until a critical event uses `forwardImmediate` the flag means "a call is
  running" and flushes are serial; after that two flushes may overlap, and
  `EventsHeldOnce` still holds),
  `DeliveryImplemented`, `OpenIsSettled`, `CriticalIsAlerted`.
- `browser`: `LoneCallIsIsolated` (a call that nothing overlaps works in its own context and
  leaves nothing behind), `IdleHoldsNothingLive`,
  `NeverWedged`, `EveryCallReturns`. Overlapping calls do lose browsers to each
  other's `cleanup`; what holds for them is that the adapter comes back to rest
  holding nothing alive and usable again.
- `lookup`: `OnlyAvailableCalled`, `SourceHonest`, `PostcodeIsAnswered`.
- `admin`: `EveryChangeReported`, `RunEnds`.
- `identity`: `OwnSchedule` (for ids that end in a UPRN or a council's own value; an id that ends
  in a row number may lead to another row), `MadeUpIdsShowNothing` (no schedule, and no mock
  schedule that would look like one), `IdsAreHonoured` (an adapter's own ids are accepted by it, and
  lead to it).
  The first two except Portsmouth, whose adapter submits the form also when it could
  not select the address.
- `calls`: `BlameIsDeserved` (a category that blames the council is given only when the council
  did that during this call; the exceptions are named in `Deserved`, among them Southampton, whose adapter may
  call any page bot protection), `SuccessRestsOnAPage` (at the councils that
  keep evidence), `CallsReturn` (whatever the council does, at the portals, Eastleigh, Fareham and New Forest;
  at the other adapters, which clear their timer when the headers arrive, only under `NoEndlessBody`).
- `schedules`: `DaysAreTold` (null at Gosport is told as the first day of 1970), `ServicesMatchEntries` (what
  an adapter lists is of its entries, or at Gosport and Fareham named on the page; Fareham has a service for refuse,
  recycling and its garden field only), `IdsTellEntriesApart`. Each names the
  councils and forms for which it does not hold; each exception is necessary, and the
  misreadings among them are findings.
- `limits`: `LetInWithinLimit`, `RefusalIsEarned`, `CounterEnds`. `LetInWithinLimit` leaves out the
  requests let in because a command failed, which is what the code means to do then.
- `retention`: `OneRunAtATime`, `DeletionsAreDue`, `NoSilentDeletion`, `LimitedDataGoes`. The last one is conditional:
  nothing in the repository calls `run`, so it says what would come of it if somebody did again and again.
- `monitor`: `AlertsNeedTwoChecks` (two, not the three of the documents, because one liveness check may
  count twice), `DownIsAlerted`.

The type invariants of the routes, and that a request is answered once and a drift run passes over disabled councils,
are theorems and not repeated in a run.

Why the bounds are enough to be interesting. Two plain events fill a batch of
two, so that a flush by fill, a flush by tick and a critical call all overlap; a
retry gives a backoff in which the flag is held. Three calls on an adapter let one
call close what a second opened while a third starts, with each kind of
ending. Two councils are the fewest that give a run over all of them a next one and
a file that switches off one of two. Two hashes give a change and a change
back. Two addresses are the
fewest of which one can take the place of the other; with them the run has every list,
in either order, each row with or without a link. `calls` has no bound: a call is finite. Two rows
or two labels are the fewest of which one can take the id or the material of the other, and dates
9 and 10 with a clock up to day 11 lie on both sides of the new year of a ten-day year. Three requests
are one more than the larger limit, and four ticks let a window of two pass and one more
request come. One record that the engine and an expiry job are both after, and a second one of another type, are what two parties
can disagree on; steps of 30 days up to 90 pass the limits of 7 and 30 days, safety window included, and reach
the 90 days at which the expiry may delete. Two
jobs on one adapter race for its counter, the second adapter shows that a trend job or a job of another adapter does not
disturb it. Events, calls, requests and checks are used up, not reused: a longer history
is a larger constant, and the theorems hold for every value.

`CHECK_DEADLOCK FALSE` is set where a behaviour comes to its end once all calls,
requests or checks of the model are used up.

**Fairness.** Each liveness property assumes weak fairness only of what the runtime
or a library guarantees to happen.
`FairSpec` of SiemForwarder: resolved promises and due timers run (`Forward`, `Retry`,
`TimerTick`), and undici ends every fetch with a response or a time-out
(`StepCall`, `PostAlert`). Nothing obliges the platform to log, the workspace to store, or anybody
to stop or start the process.
`FairSpec` of BrowserAdapter: every Playwright operation the code awaits has a
time-out of its own or is answered by the death of the browser; crashes and new
calls are not fair.
`FairLookupSpec`: the fetches of `uprn-resolution.ts` are aborted after 10 s until
their headers arrive, and undici gives up a body that pauses for 300 s; that postcodes.io and OS Places
end a body they began or pause so long is assumed of them; the race
has its timer. Nothing is assumed of adapters, which is the point of
`PostcodeIsAnswered`.
`FairAdminServiceSpec`: adapter calls end. The admin routes have no timer of their own, so
without this assumption a run would not end. `CallsReturn` is that assumption, checked; at six adapters it
needs `NoEndlessBody`.
`Fairness` of CouncilCall: the timers of an adapter fire, Playwright gives up on what
stalls, and the evidence store answers or throws. Nothing is assumed of the council: that a body does not trickle for
ever (undici limits the pauses of a body, not its length) is a hypothesis of `CallsReturn`, for the adapters whose timer
does not cover the body.
`FairRetentionSpec`: time passes, and what a run waits for returns or throws. The start of a run is not fair: the worker's
schedule is a TODO. `LimitedDataGoes` has the calls as a hypothesis (`RunIsCalledAgainAndAgain`), supposes that runs
are not dry, scanners work and the process is not restarted for ever, and
assumes nothing of the expiry of evidence, because nothing calls it.
`FairMonitorSpec`: awaits end, and the queue gives every liveness job its turn again and
again (strong fairness: slots may be taken in between).

## 4. The proofs

All theorems are for every value of the constants that satisfies the named
assumptions `ForwarderAssumption`, `AdapterAssumption`, `RegistryAssumption`,
`LookupAssumption`, `AdminAssumption`, `IdentityAssumption`, `RetentionAssumption`,
`MonitorAssumption`, `LimitsAssumption` and `ScheduleAssumption`. These say what kinds of things the constants
are (for instance that a batch holds at least one event, that a year has a day, or that a null is not a
council) and TLC evaluates each of them in the runs.

**SiemForwarderProofs.** `TypeCorrect`; `EventsHaveOneOwner` (`EventsHeldOnce`); `DeliveryVerdictsSound` (`GaveUpAfterAllAttempts` and `AckedWasStored`);
`FlagSound` (`FlagMeansCalls`). The argument is layered: `TypeOK` is inductive by itself; `Ownership`
is `EventsHeldOnce` with each event's place determined by its
outcome; the delivery invariant adds that a call at attempt *k* has put attempts
0..*k* of each of its events on the network, so that the failure of the last one
means all were made; the flag invariant needs that only critical calls can run
beside a flush. Each layer has one lemma for the shared
operators (`ForwardImmediate`, `FlushBatch`, `StepCall`) and one step per action.

The second part of the module is the refinement. `ForwarderImplementsDelivery`: `SiemForwarder` implements
`EventDelivery` under `state <- outcome`, `arrived <- {e : stored[e] # {}}`. Initial
states map to initial states; each step maps to one `Accept`, `Arrive` or `Settle` or
to a stutter, by a lemma that says which of these shapes each action has. It needs
that a request on the wire carries logged events only (`WireLogged`). `VerdictsAreFinal`
and `AlertsFollowVerdicts` come from the same shapes.

**BrowserAdapterProofs.** `BrowserTypeCorrect`, `RestHoldsNothingLive`,
`RestIsNotWedged`, `LoneCallsAreIsolated`, from `IInv`. None of the properties is
inductive: that the adapter at rest holds no live browser depends on who is going to
close it. The core of `IInv` is `LiveBrowserHasCloser` - a live browser that is held
will be closed by the call that launched it, by a call already closing a browser,
or by a call whose context another one asked to close - together with
`HeldContextHasOwner`, `AskedIsClosing` and `BareBrowserHasCleaner`, which pass the
duty on when `cleanup()` of one call takes the fields of another. One lemma per
action.

**ApiServerProofs.** `LookupTypeCorrect`, `SourcesAreHonest`, `SwitchedOffIsNotCalled`, `SupportedIsSwitchedOn`,
`RequestsAreAnsweredOnce`, `AdminTypeCorrect`, `ChangesAreReported`, `RunsSkipDisabled`.
`SwitchedOffIsNotCalled` follows from the last check before a call, the one of `get`.
`SupportedIsSwitchedOn` says that what `has` answers would be enough: it does
not know kill switches, but `register` refused those adapters when the process started, which is the
invariant `KilledNotRegistered`. `SourcesAreHonest` needs `RequestSound`, which ties
`got`, `route` and `reply` to where the handler is, and `ChangesAreReported` that a
check's `found` names only councils before the one it is at, so that a run reports
no council twice (`CheckSound`). `ServerImplementsLookup` and
`ServerImplementsAdmin`: the composed server implements each service alone, so
every safety theorem of a service holds in the server, whatever the other one does.

**PropertyIdentityProofs.** `IdentityTypeCorrect`, `SchedulesAreOnesOwn`, `MadeUpIdsAreEmpty`,
`IdsKeepTheirMeaning` (`IdsAreHonoured`), for any lists and any number of changes. The
properties speak of answers, so the invariant carries what an answer rests on: a held id
is `WellMade` (its last element names its address when it is of a form that can; an
adapter's own ids have the shape that adapter accepts; made-up ones come from the
fallback only), `CallOK` (a running call carries the held id), and every result of a
council `Fits` the key it was fetched with. `FetchedFits` and `FoundRowFits` show that
for the adapters' operators, and the steps only combine them.

**WorkerProofs**, of Retention: `RetentionTypeCorrect`, `RunsExcludeEachOther`, `NothingGoesEarly`,
`NothingGoesUnrecorded`, for any limits, records, runs and expiry jobs. Both parties act on
something they read before an await. For the engine the invariant says that a purge is under way
only outside the grace period (`PurgingIsAllowed`: a deployment, which starts that period, also
ends every run); for an expiry job, that what it listed is still due or already gone
(`ChosenIsDue`: time only adds to an age, and a date is never put off), and that a record
is in the audit log when its deletion is asked for (`DeletingIsAudited`). `WhoDeletes` then names
the only steps by which a record disappears.

**WorkerProofs**, of SyntheticMonitor: `MonitorTypeCorrect`, `LoneChecksDoNotAlert`, for any number of
adapters, jobs and checks. One liveness check may count twice, so the counter alone does not show
how many checks it stands for. `CounterIsEarned` says that it is 0 when nobody is to blame and,
with one check to blame, at most what that check can have counted where it stands (`Tally`); so the
third failure of an alert has a second check behind it.

**RateLimitsProofs.** `LimitsTypeCorrect`, `NoMoreLetIn`, `RefusalsAreEarned`, `CountersEnd`, for
any number of requests, any limits, and commands that interleave, fail or vanish at will. Each limiter has an
invariant of its own over a common `Base` (where a request can be, and that commands take at most
`Latency`):

- `WindowInv`: the sorted set holds every request that passed its check and is still in the
  window (`Held`), so at the moment of a check the set is an upper bound of those let in, and they stay
  within the maximum (`Limited`); who was refused saw at least the maximum of others (`Crowded`).
  `Held` needs that the key outlives its last entry.
- `CounterInv`: the requests counted by the present counter have numbers of their own, and only the first may set
  the expiry (`Numbered`); of the counters that expired only the last can reach into the window
  (`PastIsOver`), which gives twice the maximum; until an expiry is lost, a counter began at most
  `Latency` before its expiry was set (`Begun`), and a request numbered *n* has *n* - 1 others
  in the window, which may be those of a counter before it (`Preceded`).
- `EnumerationInv`: a bucket keeps its lookups until they no longer count (`Present`); those let in, or that may still
  be let in, fetch fewer postcodes in a minute than the threshold (`Few`); what a request has summed so far was
  recorded in the buckets it has read (`Summed`), and there is a block only if somebody's sum reached the threshold (`Barred`).

`FinishFacts`, `HandlesFacts`, `CounterStep`, `WindowStep` and `EnumerationStep` say once what each step does; the
cardinality arguments rest on the library's theorems about finite sets.

**CouncilCallProofs.** `CallTypes`, `NoCouncilIsBlamedFalsely` (`BlameIsDeserved`), `NoSuccessWithoutAPage`
(`SuccessRestsOnAPage`), `MockDataNeedABlock`, `HealthyMeansAPageCame`. `CouncilCall` has no constants and its run
visits every state; the proof adds why, in two layers. The tables of the adapters are read once: `SoundFetch`,
`SoundShows` and `SoundTakes` say that each entry that blames the council names something that cell stands for
(`Warranted`), that only Basingstoke keeps a page it cannot read, and that no empty page shows a collection; one
lemma per adapter shows it. The steps then use those three only, so an adapter that satisfies them can be added without
a new proof about calls. `CallInv` says where each kind of adapter can be and that it was not refused (`StagesFit`), that
the page in hand arrived in this call and was accepted before it is stored (`PageInHand`), and that the
result a `cleanup()` still stands between is already as well founded as the answer must be (`SuccessGrounded`,
`BlameGrounded`): the properties speak of answers, and an answer of a browser adapter is decided two
steps earlier. `Moves` and `Finishes` say once what a step owes that decides nothing or has an outcome.
`MockDataNeedABlock` draws the consequence for the collections route (New Forest's fixed answer and any page of
Southampton's are the exceptions), and `HealthyMeansAPageCame` is what
`browser_health` refutes for the portals, proved of the adapters that keep evidence (`HealthEarned`).

**CouncilSchedulesProofs.** `TheDayPrintedIsTold` (`DaysAreTold`), `ServicesAreThoseOfTheEntries`
(`ServicesMatchEntries`), `AnIdNamesOneEntry` (`IdsTellEntriesApart`), from `SchedulesAreFaithful`: for pages of any
length, any printed days, any clock and a year of any length. The first part says what `Contains` and `Cut` do on
labels of one and two words, the second reads each council's patterns in their order (`HartMaterials`, ...), the third is about
slots. The invariant compares what was read with the page, which stays up (`PageStays`): every entry is `Faithful` -
of the kind, number and day of its slot - the entries of a response that did not fail are those of `Shown`, and the services are
its `Kinds` (`Lists`). `PlainDay` and `SureDay` are the arithmetic of a year that was left out or cut off. Ids are told apart by the number
where there is one, and else by the kind, because no two panels or fields name one material (`BasingstokePanels`,
`RushmoorFields`). The days are as the model takes them, numbers; the labels are the eleven of `Label`. What Fareham and Gosport list does not come from their entries: for them `Lists`
says that it is named on the page (`Named`) and covers the entries that `Listed` names.

Checked by TLC and not proved: `OpenIsSettled`, `CriticalIsAlerted`,
`EveryCallReturns`, `PostcodeIsAnswered`, `RunEnds`, `CallsReturn`, `LimitedDataGoes` and `DownIsAlerted`. They are liveness
properties under fairness, which this prover does not reach. Every invariant and action property that a passing run
checks is a theorem.

## 5. Where documents and code differ

Two are runs that TLC ends with a counterexample; the others were met while modelling, and the
definitions named here show them.

- four adapters' health checks report a failed navigation as healthy, and most checks that fail say
  `upstreamReachable` all the same (`browser_health`);
- a council disabled at run time is still served (`lookup_disabled`);
- two requests for one council may share a browser context (`CreatePage`);
- the mock fallback fails for ids the platform itself made up, and for others without digits at their end;
- Southampton's adapter calls any page with an ordinary robots mark bot protection (`SouthamptonFetch`);
- six adapters clear their timer at the headers, so that a body that trickles holds a call
  for as long as it goes on (`NoEndlessBody`);
- batches may exceed `maxBatchSize` (`FlushBatch`);
- `shutdown` may leave events in the buffer for good, and the
  server's own shutdown never calls it (`Shutdown`, `Exit`);
- a Fareham row without a calendar link is found again by its place in a list that may
  have changed (`FetchFareham`);
- ids of the central fallback cannot be used at Fareham, though the documents say to
  pass them on (`OwnIdsAreAccepted` is the half that holds);
- a postcode without a space is accepted by the route and the doc comment and
  refused by `resolvePostcodeToUprn`;
- a council enabled in the file after start-up stays off until a restart;
- the retention worker that "executes daily" is called by nothing (`RunIsCalledAgainAndAgain`);
  in the grace period a dry run throws; a retention run in which everything fails raises no alarm; PDFs
  and screenshots are dated 90 days ahead, against limits of 30 and 7 (`ScanReturns`, `SetExpiry`);
- one postcode looked up in two minutes counts as two unique postcodes, and looking at the
  statistics of an address uses up its allowance (`CountBucket`);
- Portsmouth's garden and food waste become general waste; Havant's "general waste" becomes
  OTHER, and its printed years are cut off; Hart's dates without a year get the year of the day of
  reading; three councils call a collection past on its own day; East Hampshire's schedule is
  always empty; Southampton's days are a day early on a clock ahead of UTC; null at Gosport becomes
  the first day of 1970; Fareham's services leave out glass and food (the definitions of these
  councils in `CouncilSchedules`).

## 6. What is not modelled

- The text of pages, postcodes, messages and log lines; sanitising of
  council pages and the validators of postcodes and UPRNs; the way text is split into labels and dates;
  signatures of audit events.
- `base/bartec-adapter.ts`, which no adapter extends.
- Durations: except in the schedules, the limits and retention, which count days or minutes, a timer
  may fire whenever it is armed.
- Request hardening, injection and bot detection, roles: functions of one request, without state.
- The Hono routes, which the server does not register; the acquisition
  worker, a placeholder; databases and deployment; metrics and logs.
- The second drift detector, property resolution, confidence, normalisation, incidents and the cache
  client: nothing in the repository calls them, and most rest on storage that is stubbed out.
- A second termination signal during shutdown: it starts a second timer, and either ends in
  `process.exit`, which `Exit` is already.

## 7. The plan

Done: every module above, with its runs, and proofs of every safety property that they check.
Next:

1. **The composition of LookupService with CouncilCall**: the result union that the routes tell apart as the
   specification that the adapters implement, of which `MockDataNeedABlock` is one consequence.
2. **Role tables** of `auth/` as a function checked against the documented matrix.

No module that is proved about declares a recursive operator.
