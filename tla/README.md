# Edge-Link in TLA+

Edge-Link manages WireGuard peers: devices register with a pre-shared key, a
topology service gives them addresses and peers, background jobs and an alert
service watch their health, and a gateway serves administrators over HTTP and
WebSocket to a browser front end. This directory holds TLA+ models of it, TLC
configurations that check them on small instances, and TLAPS proofs about them.
Every definition is translated from the code under `src/`; `PROJECT.json` gives
the lines of each.

## Inventory

### alert-service (`src/backend/cmd/alert-service`)

| part | state it keeps | operations | what is hard, and what makes it correct |
|---|---|---|---|
| Check loop, threshold checker (`main.go`, `checker/`) | none | every minute: list unhealthy devices, `GenerateAlert` each issue, `Schedule` each alert | one goroutine per process, but deployments run several processes |
| Deduplication and generation (`deduplication/manager.go`, `generator/`) | Redis: a record, a lock and a silent mark per (device, type); table `alerts` | `ShouldCreateAlert`, `RecordAlert`, `MarkEscalated`, `RemoveDedupeInfo`, `SetSilentPeriod`, `ResolveDeviceAlerts` | several instances, TTLs, read-modify-write without the lock, two stores without a transaction, crashes. One alert per window; counters agree; nothing is merged into a closed alert; severity only rises; the silent period holds; no detection is lost |
| Rule engine (`rules/engine.go`, `executor.go`, `parser.go`) | loaded rules, rate-limit trackers, escalation states | `Process`, `checkRateLimit`, `ExecuteWithRetry`, `processEscalations`, `LoadRules` on a 5-minute ticker | sleeps for minutes inside a check while alerts are acknowledged and rules replaced. Each rule keeps its limit; at most `max_repeat` rounds; acknowledged alerts stop; unacknowledged ones do get escalated |
| Rule matcher (`rules/matcher.go`) | none | conditions, times of day, sort | times compared as text, midnight, nested groups, unknown devices |
| Notification scheduler (`scheduler/`) | bounded channel, workers, token bucket | `Schedule`, `worker`, shutdown | workers put tasks back into the channel they alone empty. No task is lost, each is processed, workers stop |
| Email notifier (`notifier/email_notifier.go`) | bounded channel, 3 workers, token bucket and its ticker, statistics | `SendAlert`, `worker`, retries, `Stop` | retries and limits requeue into a channel that fills up and that `Stop` closes. One copy of each task; the limit holds; every email is settled; attempts are bounded |
| Integrations (`integrations/`) | registered adapters, metrics, one `RWMutex` | `SendAlert` (a goroutine per platform, with retries), `ResolveAlert`, `UpdateAlert`, `HealthCheck`, `Register`, `Unregister`, `GetMetrics` | one lock for the map and the metrics, held over network calls; late retries beside resolutions; five platforms with different ideas of success |
| Webhook notifier | none shared | `Send` with retries | |

The check loop calls the generator, whose result goes through `Schedule` either
to the rule engine (enabled in `main.go:87-95`), synchronously, or to the
scheduler's channel. Administrators acknowledge alerts through the gateway,
which writes the same table. No program uses the integrations, and the package
does not build at this commit (an import cycle between the factory and the
adapters, and a field and a method of one name); it is modelled as its methods
are written.

### background-worker (`src/backend/cmd/background-worker`)

Cron starts each task in a goroutine: device health and performance tasks look
for an active alert and insert one (no lock, no record: a second writer of
`alerts`); the security monitor reads, alerts on and deletes counters of failed
logins that nothing writes; key expiry sends reminders. Hard: overlapping runs,
and read-then-write beside the alert-service.

### api-gateway (`src/backend/cmd/api-gateway`)

| part | state it keeps | operations | what is hard, and what makes it correct |
|---|---|---|---|
| WebSocket hub (`internal/websocket/`) | a map of clients and three channels; per connection a reader, a writer, a bounded `Send` and a context | `Run`, `readPump`, `writePump`, `Broadcast...`, heartbeat, broadcaster | one hub goroutine against all of these. No send on a closed channel, the hub never blocks, nothing of a connection that has ended stays behind |
| Rate limiters (`internal/middleware/rate_limit.go`, `internal/cache/redis.go`) | Redis counters, a ZSET | one counter per scope (global, address, organization, user, device); a sliding window | pipelines that fail half-way, expiry that moves with every request, check-then-record. What passes in a window stays within the limit and the requests in progress; nobody is found over a limit without a cause |
| Administration endpoints (`internal/handler/admin_handler.go`), audit middleware (`internal/audit`) | tables | list, delete, acknowledge, create; audit log and its queries; dashboard | pages and totals from several queries while rows come and go. Every change leaves a record; no walk misses a row that stays |
| Device handlers, router, `main.go` | none | registration, metrics, peers | calls of the services below |

As committed, the gateway's `main.go` does not compile (a missing comma, a call
of an undefined `Shutdown`) and starts neither the hub's `Run` nor the
broadcaster nor the monitor, although the comment at `main.go:158` says so;
`admin_handler.go` does not compile either (an unused variable, the address of
a constant); `SetupRouter` does not install the rate limiter, and no middleware
sets the organization, user and device its later scopes read. These parts are
modelled as their methods are written.

### Services and data (`src/backend/internal`)

`DeviceService` (a pre-shared key with `MaxUses`, device creation, revocation),
`TopologyService` (address pools, peer lists, whole-row saves), `NATCoordinator`
(a cache of probe results, the choice of a connection method), repositories,
authentication, audit, configuration, crypto. Hard: check-then-act over several
database calls, stale rows written back, pools in the memory of one process,
stale caches. Correct: a key is used no more than it allows, an address has one
owner, what is cached is recent, what a device reports stays reported.

### Clients

The desktop client (a daemon loop, a metrics reporter, a configuration file) and
the React front end, with two WebSocket clients that reconnect: `wsClient`, shared
by the update hooks of all pages, and the hook `useWebSocket`, one per page. Hard:
closing, opening and timers in any order. Deployment files, migrations and
monitoring hold no program logic.

`PROJECT.json` lists all components with their status, and the hazards of each at
the line where they bite.

## Modules

| module | models | abstract specification |
|---|---|---|
| `AlertDedup` | deduplication, generator, the two background tasks and the acknowledgement, for one (device, type) | |
| `EmailNotifier` | the email notifier | `EmailDelivery`, which it implements (`KeepsPromise`) |
| `NotificationScheduler` | the scheduler without rules | |
| `RuleEngine` | rule engine, executor, parser defaults, check loop | |
| `RuleMatcher` | one call of `MatchMultiple`: the calls of `matchConditions`, times of day, the sort | its own `Meaning` and `Applies` |
| `Integrations` | integration manager, its lock, five adapters | |
| `WebSocketHub` | hub, pumps, subscriptions, heartbeat, broadcaster | |
| `WebSocketClient` | the two clients of the front end | |
| `AddressPool` | pools of `TopologyService`, their lock and loads; their users, which are external | `AddressAllocator`, which it implements (`NeverGivenTwice`) |
| `DeviceRegistry` | registration, revocation and keys, beside the pools of `AddressPool` in the same process | |
| `NatCoordinator` | NAT cache, endpoint reports, topology refresh, revocation | |
| `RateLimiter` | both limiters and their commands in Redis | |
| `Console` | administration endpoints with the audit middleware | |
| `..._proofs` | theorems: `AlertDedup_proofs`, `EmailNotifier_proofs`, `NotificationScheduler_proofs`, `RuleEngine_proofs`, `NatCoordinator_proofs`; `DeviceRegistry_proofs` also for `AddressPool`, `WebSocket_proofs` for hub and browser, `Gateway_proofs` for `Console` and `RateLimiter` | |
| `MC...` | the values of constants and the symmetry sets of the runs; `MCRules`, `MCWebSocket` and `MCGateway` put two parts that share nothing into one run | |

### AlertDedup

All Redis keys and SQL predicates contain the key, so one key is enough.
`pc[i]` names the next Redis or database call of instance `i`, `loc[i]` its
local variables; each action is one such call with the code up to the next
one. The lock holds the value "1", so it is represented by its expiry time: the
DEL of `releaseLock` removes it whoever set it, as in the code. `Acquire` has
three outcomes: the lock, the nil alert id of the "skipping" branch, which
`GenerateAlert` dereferences (`panicked`), and an error, after which the alert
is created without deduplication. `RecordAlert` and `MarkEscalated` are each a
GET (`TouchGet`, `MarkGet`) that keeps a copy, and a SET that writes it back.
`ResolveDeviceAlerts` is three steps. It has no caller in the repository; the
model lets it be called at any idle moment, as its comment intends. A tick is
larger than a check, so time moves only while processes are idle, unless
`"stall"` is among the faults. A database statement fails in two ways: with `"db"`
it does nothing, with `"lost"` it is carried out and answered with an error. The code
cannot tell them apart and returns before the call that would follow: after the INSERT
before the record (`alert_generator.go:137`), after a resolution before the removal of
the record (line 221), after a change of severity before the mark (line 192). `spoiled` is
a history variable: the key lacks a record that it should have.

### EmailNotifier and EmailDelivery

The channel is a sequence, a worker's `pc` is the point of its loop. `Take` and
`Exit` are the cases of its select, which Go chooses at random when both are
ready. `Provider` is "smtp", "mute" or "stub": SMTP with a password, whose success is
a copy and whose error may or may not leave one; SMTP without a password
(`SMTP_PASSWORD` is empty by default), whose `Send` returns nil without asking a server
(`email_notifier.go:645`), so that an email counts as sent of which there is no copy; and
SendGrid, which always fails. `Stop` is `StopCancel` and `StopReturn`; the 30-second limit can
end first only when a provider is slow (`SlowProvider`). A send on the closed
channel and the nil task from it set `crashed`. `EmailDelivery` knows only the
fate of each email, its provider calls and its copies; the refinement maps a
queued or held email to "accepted", `MaxAttempts` to `MaxRetries + 1` and `Delivers`,
whether an offer reaches a mail system at all, to `Provider = "smtp"`.

### NotificationScheduler

`Requeue` is enabled only while the channel has room: the code's send blocks. When
every worker that is left waits for room in a full channel (`Jammed`), nobody takes a task
out any more: the run reaches this state, and its two liveness properties say that
nothing else keeps a task or a worker waiting. The
recipients and the webhook URL are empty constants in the code, so `processTask`
reaches no notifier and its retry branch cannot run. `Allow` refills lazily from
the time of the last refill; `due` stands for that comparison.

### RuleEngine

A rule is a record whose condition is the set of alerts it matches; `timed` rules
may or may not match. `Process` copies the acknowledged flag into `cur`: this is
the alert `GenerateAlert` has read. `Attempt` is one try of an action, so other
actions (`Acknowledge`, `Recover`, `LoadRules`, `Tick`) come between tries,
where the code sleeps. Times are ages that stop growing at `MaxAge`; the
assumption `EngineAssumption` demands that no limit or interval of a file exceeds
it, so a capped age compares as the true one. A tracker's tokens are the number of
each age, as only ages matter to a limit, and `Number` is the cardinality of the set
of tokens. The rules still to be looked at by `Process` are a set; `First` is the one of
highest priority. `Normalize` is
`initializeDefaults`. `LimitKey` is `getRateLimitKey`. A round of escalation is
counted from the moment it began, as `now` of `processEscalations` is read
first. Trackers and escalation states survive `LoadRules`, as in the code.

### RuleMatcher

A behaviour is one call of `MatchMultiple` with one of the `Inputs`. `calls` is the stack
of the calls of `matchConditions` that have not returned; each has the groups it has heard
to hold (`yes`) and not to (`no`). `Ask` calls it with a group that may come next:
`all_of` before `any_of` before `none_of`, and in each the order of the file is left
open. A call answers (`AnswerGroup`, `AnswerMatch`) as soon as one test has failed, or
when all have passed. An alert comes with the moment of the call, in minutes of the week in
UTC, and with the offset that each time zone has at that moment, summer time included;
`LocalTime` converts to the zone of the range, or to the server's when the range has none
or `LoadLocation` does not know it, which the validation rules out for the ranges of a
rule but not for those of nested groups (`parser.go:266`). The parser takes hours of one
digit as well as of two, so `Ranges` has both. Times of day are sequences of character ranks, because the code
compares them as text. `matched` has the places of the rules in the list; `Compare` is one
pass through the inner loop of the sort. `Priority` is not negative after `ValidateRule`.

What a rule means is defined beside it, without calls, text and early returns: `InRange`
takes a range as an interval, a bound written with one digit standing where the
comparison of texts puts it (`Stands`: after all times of two digits whose first is
smaller), `Meaning` is a recursive function over the
groups, `TagsAsked` the tags that a group and its `all_of` groups ask for.

### Integrations

`mu` is the `RWMutex` of the manager: `Announce` is a `Lock` that waits, which keeps
later readers out, as Go's does. A call goes from "waiting" (its lock) to "inside";
its goroutines (`sender`) ask a platform, wait for the write lock of the metrics,
and retry. `Success` has what each adapter takes for success: an HTTP 200, 204, any
2xx, or, where the code does not look at the status of an update, any answer.
`shown` is what the platform shows of the alert, which an answer that is lost may or
may not have changed.

### WebSocketHub

The three actions of `Hub` are the cases of `Run`'s select. A client is in
`clients` between `HubRegister` and `HubUnregister`; the latter closes `send`.
The reader is at "read", "reply" (the blocking send of a pong or an error),
"leaving" and "closing" (its deferred calls, in order) or "done"; the writer at
"select", "write" or "done". `HandlerReturns` cancels the context, which the
code derives from the request's. The two channels of registrations are unbounded
in the model; the code gives them 256 places. `wsClient` sends the event types of
a subscription at the top level of its message while the server reads them from
`data`, so a subscription of the front end is always answered with an error; the
hub's own form is the one modelled.

### WebSocketClient

`kind` chooses between `wsClient` and the hook; both have the actions `Mount`, `Unmount`
and the events of their sockets. `ws` is the socket the client knows. A socket it has
dropped goes through "closing" and its `onclose` still runs, which is where the
two differ: `wsClient` looks at `isManualClose`, the hook at nothing. `Resubscribe` is a
render with a new callback. `timers` counts pending reconnections; `timerRef` says
whether the hook could still clear one of them.

### AddressPool, AddressAllocator and DeviceRegistry

A thread in `getOrInitIPPool` is at "lookup" (the read lock), "lock", "load" or
"publish" (under the write lock, with the query between), then at "take". Nothing in the
repository asks a pool for an address or gives one back: `topology.proto`, which names both
operations, has no server. So the pools' users are external: threads that keep what
they get (`held`) until they give it up (`GivesUp`), and call `ReleaseVirtualIP`
only for that. `AddressAllocator` knows only which addresses of a network are in
use and by whom; it may give an address only while nobody has it.

`RegisterDevice` of `DeviceRegistry` does not ask the pool: it writes the constant
address of `allocateVirtualIP` into every row, which the unique index on (network,
address) admits once. A pool marks the addresses of the rows it finds when it is made, and
only then: `MarksMatch` says what a mark can be, and the variations `RowsKeepTheirs`
and `RevokedFreed` what goes wrong with rows, whose address is neither asked for nor
released (`RevokeDevice`, `device_service.go:137`, deletes the row and no more). Testing the key,
looking for the public key, creating and counting are separate steps, as they are
separate statements; `created`, `uncounted` and `late` are history variables.

### NatCoordinator

The row of a device is its place (NAT type and endpoint), its online flag and the time it
was updated. Everything that saves a whole row it read before (`ProbeNATType`,
`UpdatePublicEndpoint`, which changes the endpoint only, `RefreshVirtualNetworkTopology`)
reads in one action and saves in another, and a save inserts the row again when it is
gone, as gorm's `Save` does. The probe is not implemented in the code: it finds nothing,
and no other code writes a NAT type but "unknown" (`device_service.go:98`); `Kinds` are the
types in the rows at the start, written by other means. `lastIn` is a history variable:
when each endpoint was last in the row. `FreshEndpoint` is about the answers of
`getNATResult` that come from the cache; what it answers from the row was there when
it read the row.

### RateLimiter

Ages replace times: nothing older than the window matters. `IncrementRateLimit` sends INCR
and EXPIRE in a plain pipeline, so they are two steps (`Incr`, `Counted`): commands of other
requests come between, and so may the expiry of the key, after which EXPIRE does nothing
and reports no error. `Replies` are the ends of a pipeline: "done", "refused"
(nothing ran), "unknown" (both commands ran, the answer was lost), "half" (only INCR ran).
After an end other than "done" go-redis sends the pipeline again (back to "count") or
gives up ("failed"), and then the middleware answers 429, as for a request over the limit
(`rate_limit.go:79`). The second limiter is `ZCARD` and `ZADD` in two steps; a `ZCARD` that fails
lets the request pass, which is noted as such (`unseen`, bounded by `MaxUnseen`). A failed
removal of old members only refuses more, and two members of one nanosecond are not
modelled. `Total`, the number of requests of all ages, is the cardinality of a set.
`granted` (what each key let pass), `rested` (how long ago it was used) and `bare` (an EXPIRE
was lost) are history variables.

### Console

An editor's request changes something and then writes its audit record, after
the handler has returned; a statement whose answer is lost may or may not have
been executed. A viewer's request is a walk through pages, each a count and a
query, or one of the listings made of several queries; with `CanFail` a query whose error
the handler passes over may fail: a peer is left out (`admin_handler.go:652`), a count of
the dashboard becomes 0 (line 827). `Beside` is what the other services do to the same
tables; `SaveDevice` is a save of a row read earlier, which inserts a deleted device again
(`device_repo.go:75`). Times of creation have microseconds and are taken to be distinct: the
order of rows of one time would be the database's choice. No code under
`src/` creates a session, so `Sessions` is a constant; deleting a device
deletes its sessions (the foreign key cascades). Rows of `alerts` are kept.

## Runs

All runs use 2 workers and end within five minutes.

| run | instance | shows |
|---|---|---|
| `dedup_single` | 1 instance, 4 detections, 2 severities, window 2, threshold 2, clock to 4, no faults | `OnePerWindow`, `MergedIntoOpen`, `SeverityNeverLowered`, `DetectionReported` |
| `dedup_multi` | 2 instances, 3 detections, every fault (lost answers too), clock to 2 | `TypeOK`, `DedupeNamesAlert`, `BurstBound` |
| `dedup_crash` | 1 instance and 1 task, crashes, database errors and lost answers, clock to 4 | `CountsAgree`, `EscalatedAfterThreshold`, `SilentRespected`, `LockFreed` |
| `email` | 3 emails, 2 workers, queue of 2, 1 token, 1 retry, slow provider (SMTP with a password), Stop | `OnePlace`, `RateRespected`, `KeepsPromise`, `EveryEmailSettles` |
| `scheduler` | 5 tasks, 2 workers, channel of 2, 1 token: one task more than channel and workers hold | `OnePlace`, `EveryTaskProcessed`, `WorkersExit` |
| `rules_escalate` | 2 alerts, an escalating rule with `max_repeat` 2, with and without another rule beside it | `RepeatBound`, `AckStops`, `EscalationDelivered` |
| `rules` | engine: 2 alerts, a per-device and a per-rule limit, reloads, failing receivers; matcher: 21 x 21 times written HH:MM, hours of one digit beside them, night and day ranges in two other zones and in one nobody knows, moments about all bounds and at both ends of the week, lists of up to 4 rules (some disabled or not matching), conditions nested twice | `RateRespected`, `MatcherAgrees` |
| `ws_live` | hub: 1 connection, 2 events, 2 overlapping subscriptions, 2 replies, `Send` of 1; browser: both kinds of client, 2 pages, 3 mounts, 3 failures | `TypeOK`, `NoPanic`, `ChainsBounded`, `HubResponds`, `ClientForgotten`, `StaysDisconnected`, `Reconnects` |
| `registry` | 2 handlers, a key of one use, 2 public keys, 2 threads, 2 networks (one of them asked for), up to 3 devices per key, three host addresses (the second is the constant), restarts | `TypeOK`, `UsesBound`, `MarksMatch`, `NeverGivenTwice` |
| `nat` | 2 handlers, 1 device with 2 endpoints and a row of NAT type unknown or restricted, TTL 1, clock to 2 | `NatTypeOK`, `FreshEndpoint` |
| `gateway` | limiters: 2 requests, 3 clients (one whitelisted, one with the shared key only), a shared key of limit 3 and an own key of limit 1, every end of a pipeline, sliding limit 1 with failing commands, window 2; console: 2 editors, 1 viewer, 3 devices, 1 alert, 2 organizations, pages of 1 and all, inserts and queries that fail | `LimitsRespected`, `OverForCause`, `MissingForCause`, `ListingsComplete` |
| `integrations` | 2 callers, 2 platforms, 1 retry | counterexample to `SendReturns` |

The larger ones reach 3,846,599 (`nat`), 1,923,430 (`dedup_multi`), 1,886,558
(`dedup_single`), 1,476,460 (`gateway`), 732,128 (`registry`), 718,315 (`dedup_crash`) and
688,504 (`rules_escalate`) distinct states.

Why the bounds are enough. The duplicates of `AlertDedup` need two instances; a
third adds a third duplicate and no new order of calls, and `BurstBound` is
proved for any number. Four detections pass the window, the threshold, the
escalation and one more; the clock passes two windows, after which a record is
gone. Two workers are the least that interleave or wait for each other; queues
of one to three places fill up; one retry gives both outcomes of `MayRetry`. Two
alerts of two devices distinguish the scopes of a limit. Connections share only
the hub's channels and map: one connection meets all its own races, and
a run with two of them found nothing more. Three sockets and three failures give a
client one socket that closes, one that opens and one that a timer opens. Two
threads race for one pool; what the other network adds is that the one lock
guards the pools of both; both results are proved for any numbers. Two handlers
meet each other between any two statements of a NAT operation; the devices of
`NatCoordinator` share nothing but the lock of the cache, which no step holds
across a call, and two endpoints are one to leave and one to come back to. Two rows above
and below a page boundary are what paging can get wrong, and three devices give both. Two
requests of the limiters meet each other between any two commands; the shared limit is one
more than they are, so that the bound of `WindowRespected` is reached (with one less it is
violated). `dedup_single` has no faults because a crash, an error or a lost answer
between the INSERT and the record, or a resolution that stalls, breaks what it states: the
variations below show how. The table of proofs says which faults each of its properties
stands.

Type invariants are defined for every module with processes but `Integrations`. To keep the
suite short, those of `EmailNotifier`, `NotificationScheduler`, `RuleEngine`,
`WebSocketClient` (`ClientTypeOK`), `RateLimiter` (`LimTypeOK`) and `Console` (`ConTypeOK`),
and `StatsAgree` of `EmailNotifier`, are not in the list of runs: they are theorems (below),
and hold when they are added to the configuration of their module.

Symmetry is used only in runs without temporal properties that need fairness.
Deadlock is not checked where the program may stop: after `Stop` or a panic of the
notifier, after all connections or pages have ended, when the integration manager
is locked up or its callers are done, at the end of one call of `MatchMultiple`
(`rules`), and where a bound ends a behaviour (`registry`, `nat`).

Fairness. `AlertDedup`: a process goes on to its next call (each call returns or
fails) and time passes; the tick is strongly fair because without stalls it needs
all processes idle, and the check loop idles for a minute between checks.
`EmailNotifier`, `NotificationScheduler`: workers and tickers go on; nobody needs
to call `SendAlert`, `Schedule`, `Stop` or `cancel`. `RuleEngine`: the loop's
goroutine and the clock. `WebSocketHub`: Go's select is random, so each ready case
of `Run` is served in the end; pumps and handlers go on; a read of a closed or
vanished connection fails at its deadline. No peer has to do anything.
`WebSocketClient`: a socket opens or fails, a close ends, timers run off; no page has
to be mounted. `Reconnects` is checked where sockets fail less often than
`maxReconnectAttempts` (10 in the code); `wsClient` gives up after that many.
`Integrations`: goroutines run, HTTP clients time out, and a lock that
can be had is had in the end (Go's `RWMutex` starves nobody).

## What the code does not keep

One disagreement is a run of the suite. `integrations`: `SendAlert` holds the read lock of
the manager while it waits for its goroutines, each of which calls `updateMetrics`,
which takes the write lock (`integrations/manager.go:267`). So it never returns,
though "部分成功也视为成功" (line 121): one platform that has the alert is a success.
For the same reason the code after the metrics lock, `UpdateMetrics` and `Backoff`,
is modelled and never reached, and the passing runs do not contain this module.

The others are variations of the passing runs. Each row names a configuration, what to
change in it (besides leaving only the property), and the property, stated in the
module, which TLC then finds violated; "as it is" means the run's own constants.
They are the reason for the restrictions of the passing runs and of the hypotheses of theorems.

| base | change | property | what happens, and what is said of it |
|---|---|---|---|
| `dedup_multi` | no faults | `OnePerWindow` | the deferred `releaseLock` runs when `ShouldCreateAlert` returns (`deduplication/manager.go:117`), before the alert exists; `docs/alert-deduplication-design.md:50`: "防止多个Alert Service实例同时创建重复告警" |
| `dedup_multi` | faults: `stall` | `LockExclusive` | the lock expires while its holder stalls, whose `releaseLock` then deletes the lock of the next (`deduplication/manager.go:317`): a DEL that does not look whose lock it is |
| `dedup_multi` | no faults | `NoPanic` | an instance that finds the lock taken dereferences a nil id (`alert_generator.go:92`); the log says "skipping" |
| `dedup_multi` | no faults, two severities | `SeverityNeverLowered` | two instances escalate from the severities of their own issues (`alert_generator.go:191`); "只支持单向升级" |
| `dedup_crash` | two instances, no task | `SilentRespected` | the silent mark is set after the check has tested it (`alert_generator.go:61`) |
| `dedup_crash` | as it is | `MergedIntoOpen` | a crash between the steps of a resolution leaves a record of a resolved alert (`deduplication/manager.go:204`) |
| `dedup_single` | faults: `lost` | `OnePerWindow` | an INSERT that is carried out and answered with an error leaves an alert without a record, and the next detection creates another (`alert_generator.go:137`) |
| `dedup_single` | faults: `lost` | `MergedIntoOpen` | a resolution answered with an error keeps the record of a resolved alert (`alert_generator.go:221`) |
| `dedup_single` | faults: `lost` | `SeverityNeverLowered` | an escalation answered with an error is not marked; the next starts from the severity of its issue (`alert_generator.go:192`; "只支持单向升级") |
| `email` | `Provider` "mute" | `SentIsDelivered` | without a password `Send` returns nil and sends nothing (`email_notifier.go:645`); the log says "Email sent successfully" (line 315) |
| `email` | as it is | `StopDrains` | workers return on the cancelled context with tasks queued (`email_notifier.go:583`; "等待队列中的任务处理完成", line 585) |
| `email` | queue of 1 | `NeverDropped` | a requeue into a full queue drops the task (line 288; "超限后自动重新入队") |
| `email` | as it is | `StopGraceful` | a slow worker or a late caller sends on the closed queue (line 603) |
| `scheduler` | as it is | `Rescheduled` | a denied task is put back by a send that blocks (`notification_scheduler.go:191`); with all workers there and the channel full, none goes on ("延迟后重新调度", line 189) |
| `rules_escalate` | `FaultyNet` | `NotAfterAck` | `Process` escalates an alert that was acknowledged while it retried an action (`rules/engine.go:280`; "如果告警已确认，不再升级", line 279) |
| `rules_escalate` | `ForeverFiles` | `RepeatBound` | `max_repeat` is not looked at without `repeat_interval` (`engine.go:312`) |
| `rules_escalate` | `OffFiles` | `DisabledSilent` | `enabled: false` is replaced by the default (`parser.go:102`) |
| `rules_escalate` | `UnlistedFiles` | `EscalationDelivered` | actions of `escalate_to` get no defaults and count as disabled (`parser.go:117`) |
| `rules_escalate` | `LimitedFiles` | `EscalationDelivered` | a rule over its limit never starts the escalation (`engine.go:182`) |
| `rules_escalate` | `LostFiles` | `EscalationDelivered` | after a reload without the rule that owns the escalation no other rule takes it over (`engine.go:257`, `:298`) |
| `rules` | `SharedFiles` | `RateRespected` | per-device rules with different limits share one tracker (`engine.go:242`; "每个设备独立计数") |
| `rules` | as it is | `SilentByTheClock` | "9:00" passes the validation (`parser.go:290`, "验证时间格式 HH:MM") and is compared as text (`matcher.go:208`), so a range that begins or ends with it is not the one of the clock |
| `rules` | as it is | `TagsRequired` | a rule with tags matches an alert whose device could not be read (`matcher.go:98`) |
| `ws_live` | as it is | `CountsConnected` | an unregistration served before its registration leaves a dead client in the map (`ws_handler.go:115`) |
| `ws_live` | as it is | `CancelledForCause` | the context of a connection ends with its HTTP handler (`ws_handler.go:143`) |
| `ws_live` | as it is | `UnresponsiveRemoved` | a reader waiting for room in `Send` never unregisters (`ws_handler.go:256`) |
| `ws_live` | as it is | `HookStaysDisconnected` | the `onclose` of a socket the hook has closed itself schedules a reconnection (`useWebSocket.ts`, `autoReconnect`) |
| `ws_live` | as it is | `UnmountDisconnects` | that connection stays open when no page is left; `useApi.ts:223`: "组件卸载时断开连接" |
| `ws_live` | as it is | `OneConnection` | `connect` replaces the socket it knows without closing it (`websocketClient.ts:31`) |
| `ws_live` | as it is | `SubscriptionSent` | a subscription is sent at once, when the socket is not open yet, and not again after a reconnection (`websocketClient.ts:77`, "发送订阅消息") |
| `registry` | as it is | `RevokedFreed` | an address that a pool found in a row stays marked when the device is revoked: `RevokeDevice` (`device_service.go:137`) never calls `ReleaseVirtualIP`; "释放虚拟IP（设备撤销时调用）" (`topology_service.go:186`) |
| `registry` | as it is | `RowsKeepTheirs` | a row gets the constant address after the pool was made, which may have handed it out |
| `nat` | as it is | `RevokedStaysGone` | a save of a row read before the revocation inserts it again (`topology_service.go:177`) |
| `nat` | as it is | `ReportSurvives` | the same save undoes a status reported meanwhile |
| `nat` | as it is | `TurnOnlyIfNeeded` | a session is planned with a cached probe that found nothing, although the row has a NAT type (written by other means) |
| `gateway` | two alerts | `AlertWalkMissesNothing` | alerts that are resolved move the later ones to a page already read (offsets over a changing list) |
| `gateway` | as it is | `DashboardInRange` | "online" is the number of all devices, counted a second time (`admin_handler.go:827`): the devices offline are none, or, when one registers between the two, fewer than none |
| `gateway` | as it is | `NetworksAudited` | the first 26 characters of the path are compared with a text of 30 (`audit/middleware.go:241`), so a creation leaves no record; `specs/001-edge-link-core/spec.md:130` wants all changes recorded |
| `gateway` | as it is | `AllRecorded` | the insert of an audit record fails, or is cancelled with the request, and nobody repeats it (`audit/middleware.go:62`); FR-019 (`specs/001-edge-link-core/spec.md:130`) wants every administrative action recorded |
| `gateway` | as it is | `EveryPeerListed` | a peer whose row could not be read is left out without an error (`admin_handler.go:652`) |
| `gateway` | as it is | `WindowKept` | a key that expires between INCR and EXPIRE starts again in the same window; `redis.go:231`: "使用Redis管道执行原子操作" |
| `gateway` | as it is | `RestedIsServed` | any error of Redis is answered 429 with Retry-After (`rate_limit.go:79`), however long the client has waited; and an INCR that lost its EXPIRE counts for ever |
| `gateway` | as it is | `SlidingRespected` | requests that count at the same time are all admitted (`rate_limit.go:225`), and so is one whose count fails |
| `gateway` | `KeysOf <- OfUsers` | `OnlyServedCount` | requests that are refused under their own key use up the shared one |
| `gateway` | `Offsets <- Before` | `NoPanic` | a negative offset is taken as it is and slices out of range (`admin_handler.go:133`) |
| `integrations` | as it is | `UpdateShown` | four adapters report an update as done whatever the platform answers |
| `integrations` | as it is | `ResolvedStaysResolved` | a retry is sent after the alert was resolved (`manager.go:240`) |

## Proofs

Every safety and action property of the runs is proved, `RateRespected` of the rule engine in a
form that needs no hypothesis about the rules; so are both refinements. The theorems hold for all values of the constants that satisfy the
assumption of the module (sorts, distinct sentinels, positive capacities, finite sets
where something is counted); the bounds of the runs, such as the last tick of a clock, are
constants too. A hypothesis of a theorem names a case in which the code does not keep
the promise; the table above lists such cases.

Each proof follows one scheme: an inductive invariant, one lemma per action or group
of actions that it is kept, `...InvStep` for the whole next-state relation,
`...Invariant` for every state, and the properties from it.

**AlertDedup** (`DedupAssumption`).

- `TypeCorrect`, `NamesCorrect` (`DedupeNamesAlert`): inductive together. A row never
  disappears, and every id that enters the record, a local variable or a copy comes
  from one of the others or from an INSERT that succeeded.
- `BurstCorrect` (`BurstBound`), any number of instances. The invariant is `BurstInv ==
  GoodRecords /\ (Fresh => CannotCreate /\ Single)`: a record does not expire before two
  windows after the start of the clock; while nothing has cost the key its record (a lost
  answer of an INSERT does), an
  instance that has created an alert is about to record it or the record is there, so
  that its next decision finds it in the window.
- `LockExcludes` (`LockExclusive`), any number of instances, for `"stall" \notin Faults`: never
  do two instances decide about the key at once, whatever Redis, the database and crashes
  do. `LockInv`: who decides has a lock that is there, so nobody gets another, and the DEL
  of `releaseLock` deletes one's own. With a stall it is false (table above). It says
  where `OnePerWindow` is lost without faults: not while deciding, but because the lock is
  gone before the INSERT.
- Six theorems for one instance (`Alone`, as `docker-compose.yml` starts it) and a Redis
  that answers (`~RedisFails`). Racing instances and a failing Redis break these promises;
  which of the other faults each one stands is part of the result. A database error is
  a statement that does nothing, a lost answer one that is carried out (`AnswerLost`):

  | theorem | property | holds in spite of | needs besides | invariant |
  |---|---|---|---|---|
  | `SilentPeriodRespected` | `SilentRespected` | crashes, stalls, database errors, lost answers, tasks | | `SilentInv`: the mark stays absent from the look at it to the INSERT |
  | `CountsNeverDrift` | `CountsAgree` | crashes, stalls, database errors, lost answers, tasks | | `CountInv`: the row is at most one ahead of the record, and the next update sets it to the record's count plus one |
  | `EscalationEarned` | `EscalatedAfterThreshold` | crashes, database errors, lost answers, tasks | no stall | `EarnedInv`: a decided escalation has its row past the threshold, step by step |
  | `DetectionMergedIntoOpen` | `MergedIntoOpen` | stalls, database errors, tasks | no crash, no lost answer | `OpenInv`: the record, the alert in hand and the copy are not resolved, except between the resolution and the removal of the record |
  | `SeverityOnlyRaised` | `SeverityNeverLowered` | stalls, database errors, tasks | no crash, no lost answer, `StepsUp` | `MarkedInv`: an unmarked record has a row with the severity of an issue |
  | `WindowRespected` | `OnePerWindow` | stalls, database errors | no crash, no lost answer, no task | `WindowInv`: an active alert is old, or covered by the record, or about to be recorded |

  No crash, no lost answer: either leaves the two stores apart when it comes between two of
  their writes, or is taken for one. No stall:
  the record may expire between the decision and the count. No task: it inserts without
  lock and record. `StepsUp`: one step up from any severity of the key is as high as any
  other; the new severity is computed from the issue, not from the row. The proofs share
  `CheckEffects`, `UpdateEffects` and `ResolveEffects` (what each action does when Redis
  answers) and `SoloStep` (a step is one of the instance or one beside it).

**EmailNotifier** (`EmailAssumption`): `EmailTypeCorrect`, `EmailInOnePlace`,
`EmailRateRespected` and the refinement `EmailKeepsPromise`. `OnePlace` counts places, and
is not inductive: `EmailInv` says who has what. A worker has a task exactly while it works
on one (`TasksHeld`); queue and workers share none (`QueueApart`, `TasksApart`); what is
somewhere has no outcome (`NotSettled`), without which a retry could requeue a settled
email; an unsettled email has been offered as often as it was retried (`AttemptsCounted`), which
bounds the attempts of `EmailDelivery`; what was admitted has left the bucket
(`TokensLeft`). Each action is one of `EmailDelivery` or leaves fates, attempts and copies
alone; `Stop` and a panic do. The theorem is for each kind of `Provider`: one that skips what
it reports as sent implements a promise in which offers leave no copies (`Delivers`). `EmailOffersBounded` follows through the refinement:
`Delivery!Bounded` is an invariant of `EmailDelivery` (no more offers than `MaxRetries + 1`,
none of a refused email, all of them before one is given up, a copy of a sent one exactly
where offers reach a mail system), so the workers keep it.
`EmailStatsAgree` (`StatsAgree`), for finite `Emails`: the counters are compared with the
numbers of emails and of tries told apart by email and number, and each step of a worker
adds one member where it adds one to a counter; that the emails are finite is needed for
there to be such numbers.

**NotificationScheduler** (`SchedulerAssumption`): `SchedulerTypeCorrect`,
`TaskInOnePlace`. As above, with `Outstanding`: the tasks that are somewhere are those
scheduled and not processed.

**RuleEngine** (`EngineAssumption`: files are sets of rules with limits and intervals up to
`MaxAge`).

- `AcknowledgingStops` (`AckStops`), without hypothesis. `AckInv`: who escalates has read
  that the alert is not acknowledged; a late round is the first one, because the next
  `Process` reads the flag.
- `EscalationBounded` (`RepeatBound`), for `MaximaKept`: a rule that lists a `max_repeat` has a
  `repeat_interval`, and keeps the maximum from file to file, as long as its id is the
  same. Rules need not agree with each other; `alert-rules.yaml` is such a file. Without
  an interval the code does not look at the maximum (`engine.go:312`); and an escalation
  survives a reload that changes its rule. The invariant needs `RoundsOK`: as long as an
  alert may be read as unacknowledged, its escalation was not forgotten and has counted
  all rounds.
- `RateKept`, without hypothesis: in no window does a rule run more often than the limit of
  one of the rules that use its key (`SharedLimit`), which is its own limit when those
  rules agree (`OwnLimit`), as they do under a key per rule. `RateRespected`, its own limit,
  is more than the code keeps: a tracker keeps the limits of whoever needed it first
  (`engine.go:242`), and the per-device rules of `alert-rules.yaml` (20 in an hour, 5 in 30
  minutes, 3 in 10) share one for each device. The run has rules that agree.
  `TrackersOK`: a tracker holds no more tokens in its window than its maximum;
  `AdmittedOK`: what a rule was admitted under a key is among them.
- `EngineTypes` (`TypeOK`), without hypothesis. `TokensOK`: a tracker holds no more tokens
  than its maximum at all, whoever's limits it has, since old ones are dropped before one
  is added; `AgesOK`: who escalates has the state of his alert.

**RuleMatcher** (`MatcherAssumption`: a group is deeper than the groups in it, as in any
file; the module of its proofs is that of the engine).

- `MatcherCorrect` (`MatcherAgrees`), without hypothesis: for every time the parser accepts and
  every time zone. Three lines meet in it. Texts: two times written HH:MM compare as their
  minutes, and one written with a single digit stands where its first character does
  (`TextsAreTimes`), so a range, in the zone that the conversion gives it, is
  an interval (`RangeIsInterval`). Calls: every answer noted in a call is the meaning
  of the group that was asked (`MatchInv`), so whatever returns early returns what the
  whole meaning would (`Verdicts`). Lists: what is matched is what applies of the rules
  already looked at, each once, and an exchange keeps both. `Meaning` and `TagsAsked` are
  recursive functions; that they are defined on every group is shown by the group of
  least depth for which it fails (`InnermostGroup`), from the least-element theorem of
  `WellFoundedInduction`.
- `MatcherSorts` (`MatchedAreSorted`), without hypothesis. `SortInv`: the places before
  `left` are final and below all later ones, and that of `left` is below all up to `right`.

**WebSocketHub, WebSocketClient** (their assumptions).

- `HubTypeCorrect` (with the capacities of `Send` and of the broadcast channel),
  `HubNeverPanics`. Not inductive: nothing in `NoPanic` says that a client in the map is
  open. `HubInv` adds `clients \cap closed = {}`; `RegisteredOnce`, whose registration is
  pending is not in the map, not closed, and announced once; `ReaderStarted` and
  `ReaderPast`, the reader is beyond its loop, so never again at a send, before the hub
  gets the unregistration and closes `Send`.
- `ClientChainsBounded`, `ClientStaysDisconnected`. `BrowserInv`: sockets in use and pending
  timers are at most the mounts (`OneChainPerMount`); while no page is shown, `wsClient`
  has been told to stop (`ToldToStop`). The sets `InUse` and `Live` are finite for any
  set of sockets. `ClientTypes` (`ClientTypeOK`) follows from the same invariant.

**AddressPool, DeviceRegistry** (`PoolAssumption`, `RegistryAssumption`).

- `MarksKept` (`MarksMatch`), `PromiseKept` (the pools implement `AddressAllocator`), without
  hypothesis. `PoolInv` adds to the types: `PlacesKnown`, a thread waits for the pool of a
  network that has one and loads that of a network that has none; `RowsRead`, the rows it
  has read bear no address but the constant; `EmptyBefore`, nobody has an address of
  a pool that is not made; `OneUser` and `ReleasersApart`, an address has one user or one
  who is releasing it, never both; and `MarksMatch`. `Allocate` is `Give`, `GivesUp` is
  `TakeBack`, a restart is `Crash`, the rest leaves what users have alone, `Create` and
  `RevokeDevice` of the rows among it.
- `UsesBounded` (`UsesBound`). `UsesInv` counts requests by the key they were admitted
  with: `AllCounted`, every device is counted, will be, or never is; `LimitHeld`, the
  uses counted and the requests in progress stay within the limit and one less than
  there are handlers; `LateFew`, after a key has expired the devices created late and
  the requests that may still create one are no more than the handlers.
- `TypesKept` (`TypeOK`).

**NatCoordinator** (`NatAssumption`: rows, cached results and times are not `Null`):
`NatTypeCorrect`, `NatFreshEndpoint`. The property compares the endpoint that an answer of
`getNATResult` takes from the cache with `lastIn`; it says nothing of an answer taken from
the row, which is as old as the reading of the row. `NatInv` says for the cache, and
for a row in the hands of a session that will put it there, that its endpoint was in the
row then or later (`NotOlder`), and that no row is younger than the clock. `Grown`: the
time an endpoint was last in a row does not go back, whoever writes, deletes or reinserts
the row.

**Console** (`ConsoleAssumption`): `ChangesAudited` (`MissingForCause`: what the
audit log does not tell was lost by an insert, never by an error of the handler or by
another request), `ConsoleListingsComplete` (but the peers whose own query failed). `ConInv` has the
shape of each job (`ChangeShaped`, `WalkShaped`, ...) and `StampsApart`: no two changes, done
or under way, bear the same time. So the records ranked by time have the ranks 0, 1, 2
..., a page is full as long as there are enough, and a record added meanwhile moves
others back, never forward past the offset: what a walk owes and has not shown ranks
behind what it has passed. `ConsoleTypes` (`ConTypeOK`) says what is in the tables and that the
times of the records are those of a change.

**RateLimiter** (`LimiterAssumption`).

- `LimiterRespectsLimits` (`LimitsRespected`, both limiters), without hypothesis on what
  fails. For a key: what it let pass in the window and the requests that INCR has found
  within the limit stay within the counter and the limit, and one more for each request in
  progress, which is how many can be between INCR and EXPIRE when the key expires. For the
  second limiter: what is about to be recorded counts with what is recorded
  (`RecordedOK`), so the excess is less than the requests in progress; what a failed
  ZCARD lets pass is kept apart and is not bounded by anything.
- `LimiterRefusesForCause` (`OverForCause`), without hypothesis. `RestFits`: a key that has
  rested for a window has expired, unless its EXPIRE was lost or is still to come from a
  request in progress.
- `LimiterTypes` (`LimTypeOK`), which is a part of the invariant.

Model-checked only: every liveness property (`DetectionReported`, `LockFreed`,
`EveryEmailSettles`, `EveryTaskProcessed`, `WorkersExit`, `EscalationDelivered`,
`HubResponds`, `ClientForgotten`, `Reconnects`), which TLAPS cannot prove under
fairness; and that the code
deviates (`integrations` and the variations).

To check: `tlapm <module>.tla`; `tlc -config <run>.cfg <MC module>.tla`.

## Not modelled

Text of messages, templates, the SMTP dialogue, the payloads of the integrations;
handlers and queries that read one row or return constants (`GetDeviceById`, metrics,
distribution, topology views); validation of headers and bodies and CORS, which test one
request and keep nothing; cryptography, configuration, migrations and deployment: no
state that steps of several actors share.

- Security monitor: it reads counters that nothing in the repository writes.
- Webhook notifier: a sequential retry loop; the only caller has no URL.
- Rule administration handler: no router registers it; its reload is `LoadRules`.
- Sessions, key rotation, administrators, email history: repositories without a caller.
- Desktop client: it and the server do not fit (it expects 200 where the server answers
  201, and the platform "linux" is no value of the enumeration), so a composition would
  stop at its first call; its loops are system calls.
- ICE candidates and relays of the NAT coordinator beside the choice of the method.

## Plan

1. Done: alerts and their notifications, integrations, hub and browser clients,
   registration and addresses, NAT cache, rate limiters, administration endpoints;
   theorems for every safety property of the runs and every type invariant.
2. Next: more of what holds of several instances of `AlertDedup` (beyond `BurstBound` and
   `LockExclusive`), and the hazards without a property in `PROJECT.json`.
