# SuperKuma in TLA+

This directory is a verification development of the SuperKuma server: TLA+ modules translated from its source, TLC
configurations that check them on small instances, and theorems about them checked by TLAPS. `PROJECT.json` is the
index: components, runs, mutants, the map from every definition to the lines it models, findings, hazards and theorems.
Paths below are relative to the repository's root.

## 1. Inventory

SuperKuma is one Node process. Everything happens on one event loop, so the unit of atomicity is the code between two
`await`s; concurrency is the interleaving of those pieces, of timers and of requests. State is in three places: the
database, objects in memory that mirror it (`server.monitorList`, `UptimeCalculator.list`, `server.maintenanceList`,
`Settings.cacheList`) and the variables of closures that live as long as a monitor runs. Nothing is transactional and a
restart keeps the database only. That is where the hard behaviour comes from.

| Part | State | Operations | Talks to | Correct when |
| --- | --- | --- | --- | --- |
| **Monitor beat** `server/model/monitor.js` `start()` | the closure's `previousBeat`, `retries`; the bean of the beat; rows of `heartbeat` | one beat: read the previous row, look up maintenance, check, retry rules, notify, statistics, store, forward, arm the timer | monitor types, notifications, statistics, federation | DOWN only after the retries; a change is recorded only if it was announced; reminders keep their pace; an outage that lasts is recorded |
| **Monitor lifecycle** `server/server.js`, `monitor-socket-handler.js` | `server.monitorList`, the row's `active`, each runner's timer and `isStop` | boot, start, restart, pause, edit, delete, clear | the beat | at most one runner per monitor goes on, and it is the one the next stop reaches; a stop ends it |
| **Push, OTLP, federation ingest** `routers/api-router.js`, `telemetry-router.js`, `federation-router.js` | newest row of the monitor, by id and by time | request handler; the watchdog branch of the beat | the beat, statistics | a missing signal ends up as DOWN, and only that; an outage announced is taken back |
| **Uptime statistics** `uptime-calculator.js` | `UptimeCalculator.list`, buckets, cached stat beans; `stat_*` rows | get, load, update, roll, clear | the beat, status pages, charts | every stored heartbeat is counted exactly once in its bucket |
| **Maintenance** `model/maintenance.js`, its socket handler | row, `beanMeta.job`, `beanMeta.status`, `durationTimeout` | add, edit, pause, resume, delete, run, start and end of a window | the beat asks `isUnderMaintenance()` | under maintenance exactly inside the active windows |
| **Domain expiry** `model/domain_expiry.js` | one row per domain: expiry, last check, last notice | daily lookup, notices by deadline | the beat calls it | each deadline of each registration is announced once, and in time |
| **Federation** `federation/agent-forwarder.js`, `federation-router.js` | mirrored monitors on the Master | forward, find or create a mirror | the beat on one side, ingest on the other | the mirror follows the agent |
| **Settings** `settings.js` | `setting` rows, `cacheList` | get, set, clean | everything | a value set is the value read soon after |
| **Monitor tree** `monitor-socket-handler.js`, `monitor.js`, `monitor-types/group.js` | `monitor.parent` | add, edit of a parent with its cycle check, recursive deletion | the beat, maintenance, lifecycle | the parents form a forest; a deletion takes what it was to take |
| **Alert routing** `monitor.js`, `notification-routing.js`, `server.js` | `monitor_notification`, `notification_route`, tags, notifications | send an alert; edit links, routes, tags; delete a notification | the beat, the anomaly alerts | an alert reaches each of its targets once and nobody else |
| **Cooldown of alerts** `monitor.js` 1454-1614 | `alert_event` | evaluate behind a beat, store, send | the beat, the OTLP receiver | at most one alert per cooldown |
| **IZAPIA buttons** `izapia-callback-router.js`, `izapia.js` | `izapia_pending_action`, the row's `active`, the runner | send a message, tap, pause, resume, acknowledge | lifecycle | a press is obeyed once, and wholly |
| **Users and roles** `user-socket-handler.js`, `permissions/` | users, roles | add, promote, demote, delete | every handler | somebody can always administer the instance |
| **Status pages** `status-page-socket-handler.js`, `model/status_page.js` | pages, groups, `monitor_group`, domains with `domainMappingList`, `entryPage` with its setting | add, save, delete | settings, server start | a page shows what was asked for; each address leads to a page that exists |
| **Tabs** `server.js`, `client.js`, `src/mixins/socket.js` | rooms, `heartbeatList` of each tab | log in, live beats, clear, reconnect | the beat | a tab shows the history there is, once |
| **Teams, accounts, setup, 2FA, API keys** | rows; sockets' cached actors | CRUD, login | every handler | - |
| **Notification providers, monitor types, OTLP decoding** | none, or configuration | input and output | the beat | - |
| **Dashboards, badges, MCP, jobs, database, proxies, Docker hosts, Prometheus, mail, analytics, tunnel** | configuration, connections, rendered copies | CRUD, delete old rows, output | read the above | - |

What is hard, and what the properties are for: two chains of awaits that judge against the same row; a notice that goes
out before its row is stored; state in closures that a crash or a failed statement leaves behind; a timer that a stop
does not reach; a cache published before it is filled, or filled with what has just been overwritten; a count and the
write that relies on it in two statements; a list in memory changed before, or after, its table. `PROJECT.json` lists
every hazard at its line with the properties that watch it, or with the reason why none does yet.

## 2. Plan

The order is that of the damage a mistake does: a monitoring server that announces the wrong thing, or nothing, comes
before one that draws a wrong chart. Done, in this order:

1. `BeatRules` (pure rules) and `AlertFeed` (what a monitor promises its subscribers), `MonitorBeat` (a polled monitor's
   runner) with `MonitorBeatProofs`.
2. `MonitorLifecycle` (who runs, who stops whom) with `MonitorLifecycleProofs`.
3. `PushIngest` (requests against the watchdog; composes `BeatRules` with three handlers and refines `AlertFeed` too)
   with `PushIngestProofs`.
4. `UptimeStats` (the calculator, its rows and `clearStatistics()`) with `UptimeStatsProofs`.
5. `Maintenance` with `MaintenanceProofs`: the beat's `window` is its output.
6. The services around them, one protocol each: `SettingsCache`, `MonitorTree`, `Administrators`, `PageGroups`,
   `StatusPages`, `AlertCooldown`, `IzapiaButtons`, proved in `ServiceProofs`; `DomainExpiry`, `Federation`,
   `AlertDelivery`, `TabBeats`, proved in `DeliveryProofs`. `MCServices` and `MCLasting` run them; `MCServicesProofs` proves
   the types of all the parts for the composition.
7. `RunnerHandover`, which composes `BeatRules` with what `MonitorLifecycle` shows is possible: the beat in flight of a
   stopped runner beside the beats of its successors; proved about in `ServiceProofs`. `UptimeWindow`, what is shown of the
   counts that `UptimeStats` keeps, with its theorem in `UptimeStatsProofs`.

Left:

8. Teams and memberships, the setup of the first account.
9. Pure modules against reference definitions: the alert schedule (the window across midnight), the OTLP selector.

## 3. The modules

| Module | Source | State | Actions |
| --- | --- | --- | --- |
| `BeatRules` | `monitor.js` 484-781, 1201-1269; `tcp.js`; `src/util.ts` 170-180 | none | operators: flips, importance, retries, reminders, the outcome of a check |
| `AlertFeed` | abstract | last recorded status, announcements since | `Announce`, `Record` |
| `MonitorBeat` | `monitor.js` 442-903, 1012-1017, 1268-1352 | closure (`prev`, `retries`, `beat`), newest row, environment | one per piece of `beat()` between awaits |
| `MonitorLifecycle` | `server.js` 1225-1252, 1499-1565; `monitor.js` 890-915, 2112-2123; `monitor-socket-handler.js` 145-330, 472-530 | row, `monitorList[id]`, every bean's timer and `isStop`, calls in flight | one per piece of a call, of the boot loop and of a runner |
| `PushIngest` | `api-router.js`, `telemetry-router.js`, `federation-router.js`; `monitor.js` 472-556, 736-781 | newest row by id and by time, each beat's reading and verdict | one per piece of a handler or of the watchdog's beat |
| `UptimeStats` | `uptime-calculator.js` 83-600, 893-900; `stat-bean-repository.js` 16-30 | listed calculator, bucket objects, cached bean, row, the clearing in flight | one per piece of `getUptimeCalculator()`, `init()`, `update()`, `clearStatistics()` |
| `UptimeWindow` | `uptime-calculator.js` 36-807; `limit-queue.js`; `clear-old-data.js` 14-58 | buckets of a tier in their queue, rows, last data, the present bucket | count a beat, ask for data, time passes, restart, removal of old rows |
| `RunnerHandover` | `monitor.js` 442-485, 736-781, 857-903, 1012-1017; `server.js` 1506-1542 | the listed runner, each runner's beat, `previousBeat` and time, newest row | start, stop, and one per piece of a beat between awaits; failure, crash |
| `Maintenance` | `model/maintenance.js` 146-503; `maintenance-socket-handler.js` | clock, row, shared bean, status, duration timer, cron jobs, calls in flight | one per piece of a call, `run()`, the job, the timer, boot, crash |
| `SettingsCache` | `settings.js` 19-145 | table, `cacheList`, queries and sets in flight | one per piece of `get()`, `setSettings()`; the cleaner |
| `MonitorTree` | `monitor-socket-handler.js` 57-560; `monitor.js` 2043-2143 | rows with their parents, walks in flight | add; edit with its cycle check row by row; deletion with its stack |
| `DomainExpiry` | `domain_expiry.js` 110-363; `monitor.js` 783-806 | registry, the domain's row, calls in flight | one per piece of a call; renewal, passing of a day |
| `Federation` | `agent-forwarder.js`, `federation-router.js` 64-211; `monitor.js` 472-556, 857-903; `server.js` 1499-1565 | the agent's runners and their beats, forwards, the mirror with its orientation, maintenance and watchdog | start, pause, the pieces of a beat, post, time out, crash; lose, arrive, create, record; edits of the mirror, its watchdog, restart of the Master |
| `AlertDelivery` | `monitor.js` 1268-1420; `notification-routing.js`; `server.js` 1367-1379 | links, routes, tags, notifications; the alert and the calls in flight | one per query of the alert; each write of the calls |
| `Administrators` | `user-socket-handler.js` | users, who is an active superadmin | the reads and writes of add, edit, delete |
| `PageGroups` | `status-page-socket-handler.js` 335-577 | page, groups, their monitors, saves in flight | one per statement of a save; deletion; crash |
| `StatusPages` | the same; `status_page.js` 352-420; `server.js` 268-961 | slugs, domains, list in memory, entry page and its setting | one per statement of add, save, delete; restart |
| `TabBeats` | `monitor.js` 849-859; `server.js`; `client.js`; `mixins/socket.js` 221-303 | rows, messages on their way, each tab's list | beat, store, login piece by piece, delivery, clearing, loss |
| `AlertCooldown` | `monitor.js` 1454-1614 | clock, `alert_event`, evaluations in flight | query, INSERT, send |
| `IzapiaButtons` | `izapia-callback-router.js` 120-222; `izapia.js` 138-153 | pending actions, row, runner, webhooks in flight | one per piece of a webhook; alert; crash |

`*Proofs` modules hold the theorems, `MC*` modules give the constants of the runs. `PROJECT.json` maps every definition to
its lines. One convention holds everywhere: what the code does between two awaits is one action, a refused statement does
what the `catch` above it does, and a crash keeps the tables and nothing else. A refusal that changes anything is a step of
its own, or a case of the step that sends the statement; one that leaves everything as it was (a first INSERT, a query
before anything has been written) is a step that is not taken. `UptimeWindow` has none, for the refusals of its statements
are those of `UptimeStats`.

**MonitorBeat.** `pc` names the await the beat is at: `read` (previous heartbeat), `window` (maintenance lookup),
`probe` (the check), `notify`, `uptime`, `store`, `forward`, and `timer` between beats. Everything from the end of the
check to the next await is the one action `Check` (or `EnterMaintenance`, `WindowLookupFails`), which shares `Decide`. A
check is reduced to its outcome; `OutcomesOf` says which outcomes each kind of monitor has, and `StatusSetBy` what status
the bean holds then, with the types that set one themselves: Docker and group (PENDING), manual (any), tcp (UP before
its TLS check throws). `DatabaseFails` is a refused statement at any await: `safeBeat()` drops the bean, keeps `retries`
and arms the timer. `Halt` is a crash anywhere, or a stop between beats. A restart may bring other settings (`Start`).
The database is the newest row: nothing in a beat reads an older one.

**AlertFeed.** A status is recorded only after its transition has been announced, if it is one to announce, and nothing
else is announced, except reminders of a standing DOWN. At least once, not exactly once: a crash between notice and row
announces again. `FeedImplemented` is the refinement, with the newest row as the feed's last status; `MonitorBeat` and
`PushIngest` both implement it.

**MonitorLifecycle.** Beans are objects of a finite pool; one that nobody refers to can be used again, so runs do not end.
Client calls are chains of actions between awaits; `stop()` contains no await and is part of its caller's action. A beat
is one phase: what it decides is `MonitorBeat`'s business, here it only ends, by arming a timer or not. A setting is
`passive` for push and otel, whose first delay is a timer in no variable and whose happy path looks at no flag; `inTurn`
is a bound on the run's passive monitor and no promise rests on it. `CallRefused` and `BootRefused` are refused statements:
the UPDATE of a start or a pause, the look-up behind the first, what a deletion reads before it stops and the DELETE behind. Three histories say what
they and overlaps leave: `crossing` while a call that starts the monitor overlaps with one that pauses or deletes it, `crossed` from then
until a call has gone through alone, `unfinished` from a refusal that leaves an active row without a runner until the
next start. Calls of one kind may overlap as they like, also with the boot loop.

**PushIngest.** A beat is `judge` (previous row read, maintenance being looked up), `notify`, `store`. Requests read the
row with the highest id, the watchdog the row with the latest time, so both are kept, and `older`/`overtaken` say which
of two overlapping beats has the later time. `Judged` holds what differs between the three handlers; the rest they have
copied from each other, and `Decide` is that rest. The age of a row is one bit: beyond interval and buffer, or not. Each
setting says whether its beats follow one another (`in_turn`) and whether it has windows.

**UptimeStats.** One tier of the four. `Ask`, `Load`: a calculator is listed before it is loaded. `Update` counts and
takes the cached bean; `Find` is the look-up or dispense; `StoreStat` writes the count the statement was sent with;
`StoreBeat` stores the heartbeat. `Refused` is the UNIQUE index. `ClearStatistics`, `RowsDeleted`, `CalculatorForgotten`
are the three pieces of the clearing; beans know whether the row they were loaded from is still there (`saved`), and a load
that ends after the calculator was forgotten throws (`LoadsForgotten`). Bounds: one clearing at a time; a bean is not
looked up while the statement of another beat that uses it is on its way; the calculator is not forgotten between being
handed out and `update()`, for the code has no await there; nothing is half done as the bucket rolls over.

**UptimeWindow.** One tier, minutely or hourly (`update()` removes old rows) or daily (`clearOldData()` does), with a queue
of `Window` buckets where the code has 1440, 720 and 365. `Push` is `LimitQueue.push()`; whoever asks for a key leaves a
bucket (`WithKey`), and so does the query that loads the rows, for its oldest key. `getData()` and `getDataArray()` are
operators. The loops over keys are recursive functions that go from key to key (`Sum`, `Loaded`), not sums over sets: a key
that is visited twice would count twice. `update()` and the load are one step each: `UptimeStats` has their pieces. A
calculator forgotten by `clearStatistics()` is not repeated here; `ServerRestarts` forgets them all.

**RunnerHandover.** A runner takes its `bean.time` when it has read the newest row (`DatedNow`), and `elders` are the beats
with earlier times still to be stored: one of them that is stored after a later one does not become the newest row
(`overtaken`). `stop()` ends a timer and nothing else, so a stopped runner announces and stores what it has under way. A
check comes to any verdict; retries are left to `MonitorBeat`, where there is one runner.

**Maintenance.** Time is counted in units, three to a day, and a timer longer than `MaxDelay` fires at once, as
`setTimeout()` does. Jobs are objects like the beans of the lifecycle: one that no variable holds is still alive and
fires. The bean is shared by all calls, so an edit is seen by a `run()` that is awaiting the time zone. A refused UPDATE,
DELETE or look-up of the time zone ends its call, and that of a last start, which nobody awaits, ends nothing; `torn` says
that one has left bean, row or job apart.

**SettingsCache.** `get()` sends its query and fills the cache when it is answered; `setSettings()` looks up and stores
its keys in parallel and deletes their entries when all are stored. `late` marks an entry filled from a read that a store
overtook: the cleaner removes it, and nothing else does.

**MonitorTree.** The cycle check of an edit reads the children of one row after the other (`unread`, `descendants`); the
deletion keeps its recursion as a stack of rows to visit and rows to drop (`work`). The database's references are external.
`alone` marks a deletion that nothing overlaps, from a tree no earlier overlap has left with a cycle (`crossed`) and no
deletion has left half done (`torn`): of the others nothing is said about what exactly they leave.

**DomainExpiry.** Dates are days from now. A call finds or creates the row, looks the date up once a day, and works its
way through the deadlines; the bean it holds is not read again, so calls that overlap do not see each other's stores.

**Federation.** At the agent, a runner is between beats, in its beat, about to forward, or waiting for the one forward it
has sent; `stop()` ends a timer and nothing else, so a runner that has been replaced or paused still stores, forwards and
waits while its successor beats (`onDuty`). A forward is on the link, at the find-or-create, or about to be recorded, and
somebody waits for it or nobody does: it has been given up after ten seconds, or the agent has crashed, and it goes on all
the same. At the Master, what a status is recorded as is decided where the mirror is read (`Judged`): MAINTENANCE inside a
window, turned over for a mirror that is upside down. The mirror's own runner is a watchdog, started by an edit, a resume
or a restart of the Master; `doubt` is its verdict on the way to the table. `newer` and `outrun` follow which of the
statuses that listed runners sent was recorded before which. Abstractions: the ages of rows are left out, so the watchdog
may find silence at any time, one verdict at a time; window and orientation are read in one step; retries of a mirror are
the default, none; a mirror or a remote instance is not deleted.

**AlertDelivery.** The alert reads links, routes, tags and notifications in separate queries, then sends one by one;
`kept` and `seen` collect what was there all the time and what was there at some time. A call that rewrites links deletes
them all and inserts them one by one.

**Administrators, PageGroups, StatusPages.** Handlers cut at their statements. `PageGroups` has what a save does to groups
and their monitors, `StatusPages` what it does to slug, domains, list in memory and entry page, and passes over the groups
with one step; each names the other's part in its comment. The list of groups a client saves is the one it got from the
server with what it has added, so it names no group twice (`PlansAssumption`). A crash loads the list in memory again from the rows.

**TabBeats.** A beat is sent to the room and stored afterwards; a login joins the room, reads, and is answered, each after
an await. Messages to a tab are delivered in order; a tab that is away receives none. `early`, `since` and `unheard` name
the beats for which the order of these steps does not decide what a tab shows.

**AlertCooldown, IzapiaButtons.** A query followed by an INSERT, by lines that may overlap; a row consumed before what it
asks for is done. A resume sets the row, reads it and swaps the runner in three steps.

**MCServices, MCLasting.** Parts that share no variable and call nothing of each other run together: the variable `part`
chooses one, the others stay at one initial state. This says the same as one run for each and no more, since no
state of one part constrains another. `Followed` is a state constraint: it ends behaviours where two calls have overlapped
in a way the properties except (`crossed`, `torn`, `relinked`, `crossing`, `halfDone`), gives adding and editing to one
client of the tree and adding and deleting to the other, and bounds a deletion's stack by four entries; in `lasting`,
one forward at a time is on its way while the mirror is under maintenance or its watchdog at work.

History variables record what no code does (`announced`, `told`, `fails`, `quiet`, `stored`, `lost`, `cleared`, `mixed`,
`raced`, `skipped`, `crossing`, `crossed`, `unfinished`, `newer`, `outrun`, `alone`, `spared`, `late`, `threw`, `kept`, `seen`, `intact`, `obeyed` and so on, marked
"history" where they are declared); no guard reads them, except the bound on attempts in `UptimeStats`.

## 4. The runs

| Run | Instance | What it shows |
| --- | --- | --- |
| `beat_faults` | six settings (retries 0-2, reminders 0-3, upside down, json-query with code-only retries, manual, Docker), edited at any restart; crashes, refused statements, windows | types; DOWN only after the retries; reminders in time; no counted failure is UP (tcp is left to `beat_tcp`); the runner implements `AlertFeed` |
| `beat_docker` | a Docker monitor, no faults | **violated** `DownNeverPending`: DOWN is followed by PENDING |
| `beat_tcp` | a tcp monitor, no faults | **violated** `FailureIsNotUp`: a failed check is recorded UP |
| `life` | three beans, two calls in flight, refused statements; a polled type whose calls overlap, a passive one whose calls take turns; fair | a runner that goes on is the listed one; a stopped polled runner has no timer; once nothing is in flight, a paused or deleted monitor has no runner and an active one has the listed one, unless a start has overlapped with a pause or a deletion (`crossed`) or a statement was refused half-way (`unfinished`); a pause ends every runner in the end |
| `life_push_stop` | a passive type, one call, no fairness | **violated** `StopLeavesNoTimer`: a stopped watchdog has a timer |
| `push` | seven settings over push, otel, federation, five in turn and with windows, two whose request and watchdog overlap; refused statements; fair | reminders in time; DOWN only after the failures of clients and watchdog together exceed the retries; `AlertFeed` is implemented by beats in turn; silence ends up recorded |
| `push_race` | one request, the watchdog, no faults | **violated** `RecoveryAnnounced`: a recovery is recorded without an announcement |
| `stats_viewer` | one beat, one viewer, no faults | **violated** `CountsOnLoaded`: a beat counts on a calculator that is being loaded |
| `maintenance_calls` | six settings (a slot across midnight, one longer than a timer, daily and every second day, single, manual), two calls, two jobs, crashes, refused statements | types; `WindowExact`; an open window has a timer; one job; row and bean agree |
| `maintenance_interval` | every second day, one call, nine units | **violated** `EveryKthDay`: slots are passed over until the server restarts |
| `services` | fourteen parts, see below | types; `CountIsExact`, `CacheAgrees`, `Forest`, `ParentIsGroup`, `DeletionIsExact`, `NoticesInTime`, `MirrorInOrder`, `AlertIsExact`, `SomebodyManages`, `SavedAsAsked`, `NoOrphanGroups`, `AddressesStand`, `TabShowsHistory`, `AlertsAreSparse`, `ButtonsHold`, `UptimeIsOfWindow`, `OutageIsRepeated` |
| `lasting` | a beat, the settings cache, the tree, the mirror, fair | a lasting outage and a lasting recovery get recorded for good and the outage announced (`LastingIsKnown`); the cache settles; walks along the tree end; the mirror comes to what the agent's lasting status is recorded as, turned over or not, again and again, and stays there where no watchdog of the Master's interferes with an agent that is UP |

**Bounds.** `Cap` of the beat modules is above every `maxretries`, and only comparisons with `maxretries` read the counter,
so saturating it loses nothing. Reminder counters are bounded by the code, except one case the settings avoid (a count
kept while reminders are off does not move). The settings are pairs of everything a rule compares: no retries, one, two;
no reminders, every second, every third; both orientations; each way a type may set its status. Three beans suffice for
a listed runner, a stopped one that is still ending and a loaded one; two calls for every pairwise race of handlers, a
third adds only another loader (theorem `RunnersAreReachable` has no bound at all). One request and the watchdog are
the two kinds of producers.

`maintenance_calls`: days of three units, timers of at most two, six units, which is two nights and the ends of every
date range; symmetry in jobs and calls. `RacesAreShort` follows overlapping calls for two units and from two settings;
the theorems have neither bound. `maintenance_interval` needs nine units for three slots.

`services`: two beats, no viewer (a third caller of the calculator that only loads is what a second beat is before its
`update()`, and `stats_viewer` has one) and three attempts per bucket, one that dispenses and two that race for
the row; two keys, one get, one set; three monitors and two clients, enough for a group in a group and a move meanwhile;
deadlines of one and two days in registrations of three, two calls; two runners of the agent, a stopped one and its
successor, and two forwards, with the Master's variations left to `lasting`, for the order of forwards does not depend on
what they are recorded as; two
notifications, two severities, a route for one monitor and tag and one for all; three users and two managers; three
groups, two saves; two pages, two slugs, one domain, two calls; one tab, three beats, one row sent at login, three
in a full list; two lines, a cooldown of two ticks; one message and two taps; a queue of two
buckets and four buckets of time, so that it overflows twice and a restart finds rows older than it holds; two runners, the
stopped and the listed one, reminders every second or third row. Where a theorem states the property, it
holds for every value of these constants. `lasting`: one upside-down monitor with a retry and reminders; one key; two
monitors; one runner of the agent and two forwards, one given up and one sent after it, a mirror that is turned over once,
windows and a watchdog that come and go.

`CHECK_DEADLOCK FALSE` stands where the system may stop or a bound ends the behaviour: a deleted monitor (`life`), the last
unit (`maintenance_*`), bounded ids, beats, ticks and messages (`services`, `lasting`).

**Fairness.** `PushIngest`: strong fairness of each piece of a beat and of the timer. `MonitorBeat`: strong fairness of the
pieces a crash or a refused statement may hit, weak fairness of a start, the timer and the forward. Node fires timers and
resumes awaits; weak fairness would be enough for that, strong fairness says also that a statement which is retried
for ever is not refused every time and that crashes do not hit the same await for ever. Nothing is assumed of the
service, of windows, of requests, of clients. `LookupsSettle` in the liveness properties of the beat is their premise that
the maintenance lookup does not fail for ever: the code takes its failure for a failure of the check, so endless
refusals of that one query look like an outage. `MonitorLifecycle`: weak fairness of calls in flight, the boot loop, runners.
`SettingsCache`: of calls in flight and of the cleaner's interval. `MonitorTree`: of the calls in flight. `Federation`: weak
fairness for the timer of a runner, the time-out, the verdict of the watchdog, and for a request to get on or be lost;
strong fairness for the store and the post of a beat, for arriving and for the Master's statements, which says that neither
the link nor the database refuses every one of what is tried for ever. Nothing is assumed of clients, restarts or windows. `AllFairness` of `MCLasting` is their
conjunction: as one part runs, a fair action of one may be joined with one of another without adding behaviours.

The types of `life` and `push` are theorems and not checked in the runs.

**Mutants.** Every property of a passing run has an operator beside the definition it replaces (`X_how`), a bug of the
kind that gets written: an off-by-one in the retries, a missing reset, a stop forgotten, a check on the wrong row, a cache
entry deleted too early, a list sent before the room is joined. TLC refutes the property with it.

## 5. Findings

Six places where the code and a sentence of the repository disagree; each is a run that TLC refutes.

- `DownNeverPending` (`monitor.js` 597): a comment says DOWN to PENDING does not exist. A restarting container takes a
  Docker monitor there, and its recovery is then announced to nobody.
- `FailureIsNotUp` (`tcp.js` 130): the catch block takes UP for an upside-down monitor's success. A failed TLS check of a tcp
  monitor arrives there with UP and is recorded as UP once the retries are used up.
- `StopLeavesNoTimer` (`monitor.js` 910): a test says no timer outlives a stop. The first delay of a passive monitor and
  its happy path do; `PauseEndsRunners` shows that it is one more beat and not for ever.
- `RecoveryAnnounced` (`api-router.js` 72): DOWN to UP is important, but a push that overlaps with the watchdog's DOWN has
  judged itself against the row before.
- `CountsOnLoaded` (`uptime-calculator.js` 89): the calculator is handed out before it has been initialised.
- `EveryKthDay` (`maintenance.js` 295): a window of every second day compares its last start with the time the scheduler
  was set up, not with now: after the first window every later one is passed over until `run()` is called again.

What the code does under overlaps and refusals that have no run of their own is excepted in the properties, by a history
variable that names it. Two of the exceptions contradict a sentence of the repository as well, and are marked. All are worth a reader's attention:

- a start that overlaps with a pause or a deletion may leave a paused row with a running monitor or an active one
  without, and overlapping calls may lose a cron job (`crossed`, `raced`);
- a statement refused half-way through a start or a deletion leaves an active row without a runner, until the next start
  (`unfinished`); one refused in a call on a maintenance leaves bean, row or job behind (`torn`);
- a forward of a runner that has been replaced, paused or killed, or that it has given up, may be recorded after newer ones;
- a stopped runner may announce an outage a second time, or a recovery its successor's first beat contradicts; without
  reminders nobody takes it back until the status changes (`deaf`);
- daily rows removed by the job are shown until the next restart (`removed`);
- beats of one bucket that overlap may be lost to the UNIQUE index; a clearing that a beat or viewer overlaps, or that is
  refused half-way, leaves counts that go nowhere until the bucket rolls over (`lost`, `cleared`, `mixed`);
- two overlapping deletions, or a deletion and a demotion, may remove the last superadmin (`deleting`), although the comment
  at `user-socket-handler.js` 228-230 says that the handler refuses to delete "the last remaining active superadmin";
- two overlapping edits may make two monitors each other's parent (`crossed`);
- overlapping saves of a page lose each other's groups, and one in flight when the page is deleted leaves groups of no page
  (`intact`, `removing`); the domain of a deleted page stays in the list in memory (`leftOver`);
- an alert sent while the monitor's links are being rewritten may reach nobody (`relinked`);
- a renewal that is looked up after a failed lookup, or while a notice is being sent, may not be recognised (`missed`);
- a tab may miss the one beat sent before it joined and stored after its query (`unheard`);
- two deliveries of one tap are both obeyed (`doubled`), although the comment at `izapia-callback-router.js` 163 calls an
  action "One-shot"; and a press that fails half-way is lost (`disturbed`).

## 6. The proofs

TLAPS checks these for every value of the constants that satisfies the named assumptions of the modules (`Cap` natural
and above every `maxretries`, settings of the right shape, finite sets of beans and callers).

- **MonitorBeatProofs.** `TypeCorrect`, `RetriesExhausted`, `RemindersKeepPace`, `JudgedAgainstNewest` and `ImplementsFeed` rest
  on one inductive invariant, `IInv`. None is inductive alone: that retries are exhausted needs to know that `retries`
  and the stored counter never exceed the failed checks in the history (`RetryInv`), at every await where a crash may
  fall back on the row; that a record was announced needs to know at which awaits the announcement is behind the beat
  (`AnnounceInv`); reminders need the stored `downCount` to bound the silent rows (`ReminderInv`); all need the closure's
  previous beat to be the row (`ClosureInv`). `NextIInv` has one step per action. `ImplementsFeed` then maps each
  step to a step of `AlertFeed` or a stutter. `OnlyTcpRecordsFailuresUp` (with `UpInv`): without a monitor of type tcp,
  no failure is recorded as UP, so the finding is of that type alone.
- **MonitorLifecycleProofs.** `RunnersAreReachable` for any number of beans and calls: `ReachInv` adds to the invariant that
  the bean the boot loop holds is listed or already stopped (`BootInv`) and that a call about to swap holds a
  bean (`SwapInv`). `PolledStopIsFinal` for polled types (`TimerInv`). `RowRulesRunner`, with any number of overlapping calls
  and refused statements, outside `crossed` and `unfinished`: `StageInv` and `OverlapInv` say what each await of a call
  has done and what may be in flight beside it, `ActiveInv` and `QuietInv` what it, or the boot loop, has still to bring in
  line while the row is active and while it is not. `LifecycleTypes`.
- **PushIngestProofs.** `PushTypes`, `PushRetriesExhausted`, `PushRemindersKeepPace` and `PushImplementsFeed` for any number
  of requests: `PushInv` is the argument of `MonitorBeatProofs` with the reading and the verdict of every beat in flight
  in place of one closure.
- **UptimeStatsProofs.** `NothingCountedTwice` for any number of beats and viewers: `TallyInv` bounds memory, statements on
  their way and the row by the beats that passed `update()`, and needs the cardinalities of the chains in flight; `ClearInv`
  says what a clearing leaves at each of its steps. `TurnTakersAreCounted`: `AheadInv` orders heartbeats, row and bucket
  object while at most one caller is at work, and says which beans are of a row that is still there. `CountsAreExact` is
  both. `StatsTypes`.
- **UptimeStatsProofs, the window.** `UptimesAreOfWindow`, for any length of the queue and any number of units asked for:
  an answered uptime counts the beats of the units it is about and no others. `WindowInv` says what the memory remembers: the
  queue is in the order of time, each bucket at least as far from another in time as in the queue, so that a queue within
  its limit drops nothing recent; recent buckets hold what was beaten, and so do the rows that are still there (`StatInv`).
  The loops are recursive functions; that they return what they should is by the least key at which they would not
  (`UpFromZero`, `Recursion`), for natural numbers are well founded, which the library states without an operator parameter.
- **MaintenanceProofs.** `WindowsAreClosed` (an open window has a timer) and `RowFollowsBean` for any calls that overlap,
  `JobsAreReachable` for calls in turn, whatever is refused, `MaintenanceTypes`. `HeldInv` says that a `run()` that awaits the time zone holds a
  pattern, `RowInv` that whoever is between bean and row has still to store it, `JobsInv` that such a `run()` has dropped
  the old job, and that what a call works on is listed. `WindowsAreExact`, under maintenance exactly inside the slots, adds
  `SlotInv`: a job that is due is at the beginning of one of its slots (`DueInv`), a job is of the settings in the bean
  unless these are being edited (`MatchInv`), the timer of an open window does not outlive the slot (`ClosesInv`), what is
  active has a job (`AliveInv`), and a slot that has begun is open with no timer to close it before its end (`OpensInv`).
  The arithmetic, a slot across midnight included, is in lemmas about `Into`, where in a slot a unit is.
- **ServiceProofs**, eight modules, an inductive invariant for each theorem.
  - `CacheAlwaysAgrees`: `CacheInv` adds what each query in flight has read and whether a store has overtaken it, and that a
    set deletes the entries of all it has stored.
  - `AlertsStaySparse`; `ButtonsWorkOnce` and `RowsRuleRunners` (together `ButtonsAlwaysHold`); `SomebodyAlwaysManages`.
  - `GroupsGoWithPage`. `SavesAreExact`, an action property: a save that nothing overlaps makes the groups of the page
    those its client listed. `SavedSoFar` says at each of its statements which groups it has kept, that they are distinct
    (a new one has an id no listed one can have), and that each it is done with shows its monitors once.
  - `DomainsLead` and `EntryStands` (together `AddressesAlwaysStand`).
  - `OutageIsAlwaysRepeated`, for any number of runners and any `resendInterval`: `InOrder` says that the beats under way are
    totally ordered by their times and that the overtaken ones are a prefix; `Close` that no reminder counter a later beat
    may start from (the newest row's, the listed runner's, a stopped runner's) is behind the outage by more than one row,
    and by none while that row is to come.
  - `MonitorsAreForest`: `TreeInv` says that the set an edit has found below its monitor is closed under children except
    where it has still to read, while other calls delete. The forest is stated without recursion: no set of rows is closed
    under `parent`. `ParentsStayGroups`: the parent an edit is to store is a group as long as it exists (`NewParentIsGroup`),
    and one that is no group is about to be taken back by the call that has seen it (`ParentsAreGroups`). `DeletionsAreExact`,
    an action property for every tree: on the stack of a deletion a row to drop comes after its children, and what is to
    go and is still there is on the stack or below something that is still to be visited, and nothing else is (`DeletionInv`).
- **DeliveryProofs**, four modules.
  - `StatusesArriveInOrder`, for any number of runners: each waits for one forward (`AwaitedIsNewest`), and while the listed
    one waits, no listed runner has sent anything after it. What a listed runner waits for is then overtaken by nothing but
    the last beat of a stopped one.
  - `AlertsAreExact`: `AlertInv` compares what each query has read with what was there all the time (`kept`) and at some time
    (`seen`), and says that calls in turn link a notification once.
  - `NoticesComeInTime`, an action property: `ExpiryInv` relates the date in the row, the dates calls hold, the
    registry and the deadlines told, with what a failed lookup and a renewal do to each.
  - `TabsShowHistory`: a tab's list is at most two rising runs, the second made of the beats that were sent early (`OnceInv`);
    a recent beat is in the list, on its way, in the answer to the login, or excepted (`MissedInv`); and a list that drops its
    oldest entries at its limit loses no recent one.
- **MCServicesProofs.** `AllTypes`: the types of all fourteen parts, from the theorems of the parts, the bounds on lists and
  counters among them. That the composition implies each part is a lemma, by the shape of `Continuing` alone.

Every safety invariant the passing runs check is the property of a theorem. Only model-checked are liveness
(`LastingIsKnown`, `CacheSettles`, `TreeCallsEnd`, `MirrorSettles`, `SilenceIsHeard`, `PauseEndsRunners`), for which TLAPS has
no rule its provers can use, and the refuted properties, where TLC's counterexample is the proof. No module declares a
RECURSIVE operator. The proofs found three places where a model could not be reasoned about, and it was changed: a deletion
started from a tree that had been left with a cycle was called `alone`; the list of groups in a save could name a group twice;
and the sums of `UptimeWindow` were folds over sets where the code goes from key to key.

## 7. What is not modelled

`PROJECT.json` names every component with the reason. The bulk of the repository is of three kinds that carry no
interleaving of their own: the pages of the front end (forms and views of rows), 97 notification providers and the protocols
of the monitor types (input and output), and translations, migrations and assets. Of the rest:

- within the modelled parts: a provider that fails (swallowed by the code, so the feed counts attempts); `retryInterval`
  and `interval` (a timer is only due or not); the averages of response times and the monthly tier; the floating-point statistics behind
  an anomaly alert; quiet hours in front of a notification; time zones, lists of weekdays and the link tables of a
  maintenance; incidents of a status page; signatures and labels of IZAPIA messages; the ownership checks in front of each
  call; adding a monitor, which is a start without a predecessor;
- accounts, login, 2FA, setup: hashing, tokens and RADIUS are external, what is left is a comparison;
- teams and memberships, API keys, proxies, Docker hosts, tags, dashboards: rows saved by a form;
- pure functions over numbers and strings: OTLP decoding and its selector, conditions, the alert schedule;
- rate limiters, the response cache, the tunnel: packages outside the repository, or vendored;
- the removal of old heartbeats and of monthly rows, the vacuum, the migration of statistics.

Counted in lines, nearly all of the repository is of those kinds: one page of the front end is longer than the whole server
side of a component that is modelled here, and carries forms and markup. The share of lines the map covers says little of the
share of the behaviour and will stay small; a definition that claimed such lines would translate nothing.
