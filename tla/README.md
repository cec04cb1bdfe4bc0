# A verification development for conntrackd

conntrackd polls the conntrack table of Cambium NSE firewalls over SSH, keeps
the connections as sessions in SQLite, rolls them up into permanent port usage
statistics, looks up the reputation of public addresses within a daily budget,
and shows all of it in a web page from which deny rules can be previewed.

This directory models the parts of it that keep state and run concurrently, in
TLA+, checks them with TLC on small instances and proves the invariants that
matter most with TLAPS for every instance. Definitions are translated from the
Go source and the SQL migrations and keep their names where possible;
`PROJECT.json` gives for each definition the lines it stands for.

- [Inventory](#inventory): the components, their state and what is hard
- [Modules](#modules): what models what, and how
- [Runs](#runs): what TLC checks, with which bounds, and why these are enough
- [Fairness](#fairness)
- [Departures](#departures): where the code does not do what it says
- [Proofs](#proofs)
- [What is not covered](#what-is-not-covered)
- [Plan](#plan)

## Inventory

One process holds everything. Goroutines: one poller per configured firewall,
the reputation ("drip") worker, a daily retention pass, and one per HTTP
request. They share a SQLite database with a single write connection, so that
a statement or a transaction is atomic and nothing else is, an in-memory
configuration behind `config.Store`, and the poller `Manager`.

| Component | State | Operations | Hard about it | Correct when |
|---|---|---|---|---|
| poller (`internal/poller/poller.go`) | `open`: the tracked session of each five-tuple, with its byte baseline and TCP state | `Run`, `loadOpenSessions`, `pollOnce`, `ApplyPoll`, `applyFlow`, `closeMissing` | four or five store calls per flow, any of which may fail or be the last before a crash; byte counters that go backwards; goroutines that overlap | one open row per five-tuple; bytes never counted twice; closed rows are final; the rollup agrees with the sessions; history follows the device |
| manager (`manager.go`) | `running`: the current goroutine of each firewall | `Reload`, `RestartAll`, `StopAll` | stopping only cancels a context and does not wait | pollers run exactly for the configured firewalls, with their present credentials |
| traffic store (`internal/store`: `sessions.go`, `portusage.go`, `maintenance.go`) | `flow_sessions`, `flow_samples`, `port_usage`, `port_usage_dst_ips` | insert, update, close, sample, bump, clear | rows addressed by id alone; two tables for one count; foreign key; ids must not be reused | ids in memory stay valid or dangle; tables agree |
| retention (`prune.go`, `appserver.go`) | the same tables | `runPruneLoop`, `PruneOlderThan` | two statements per batch that choose their rows separately, beside pollers that know rows by their ids | a tracked session stays; the two statements agree; what expired goes |
| firewalls table (`firewalls.go`) | a row per firewall ever polled | `SyncFirewall`, poll status | written only when a poller starts | rows say what the configuration says |
| reputation store and manager (`reputation.go`, `internal/threatintel`) | queue, cache, daily counter | `Enqueue`, the worker's tick, `GetStatus` | read-then-write in two statements from two goroutines; midnight; 429 answers; crash between pop and answer | budget kept; no address forgotten; all looked up in the end |
| configuration (`internal/config`) | `config.yaml` and its copy in memory | `Load`, `Save`, `Update` | truncating writes; a copy that shares a map; restarts | memory and file agree |
| settings handlers (`internal/web/settings_handlers.go`) | none | add, edit, remove, switch a source, clear database | two calls, each under its own mutex | changes take effect, the last one for good |
| SSH client (`internal/sshclient/client.go`) | one shell | `Run`, `Close` | a mutex held for a whole command, and while a shell is set up, without a time limit; reconnection | an answer is the command's own; one connection at a time; none outlives its poller; stopping comes back |
| host keys (`knownhosts.go`) | pinned keys, in memory and in `known_hosts.json` | trust on first use | a file that is read once and written whole; restarts | a password goes to one key only |
| parsers (`internal/nse`) | none | listing to flows | duplicate keys, garbled or empty listings | a listing is read as it is or refused |
| approved ports (`approved.go`, `internal/web/handlers.go`) | `approved_ports` | approve, unapprove | read by the preview while it changes | – |
| scoring and rules (`internal/risk`, `internal/ruleset`, `internal/web/scoring.go`) | none, computed on read | `ScoreConnection`, `ScorePortUsage`, `Generate` | many signals that add up or cancel; inputs read one after the other while they change; a deny rule has less detail than the bucket it is for | what is malicious is never left out; approved traffic is not denied; riskiest first |
| enrichment (`internal/enrich`) | status per source | `Lookup` | a map of the configuration that is shared without a lock | queries are independent of each other |
| migrations (`db.go`) | `schema_migrations` | `Open`, `migrate` | two programs on one file; a check outside the transaction; a crash anywhere | each is applied once, in order, and recorded as it was |
| process (`internal/appserver`, `cmd`) | – | `New`, `Close` | an end at any moment | it comes up again and polls what is configured |

How they interact: a poller calls the traffic store and, for a new public
destination, `Enqueue`; the worker calls the provider and the reputation store;
a handler calls `config.Store.Update` and then `Manager.Reload` with the list
that came back, or `Store.ClearAllHistory` and then `Manager.RestartAll`; the
Manager calls `SyncFirewall` and starts goroutines; the page's status request
reads the daily counter, and creates or resets it. The hazards of all this are
listed, line by line, in `PROJECT.json`.

## Modules

| Module | Models | Extends |
|---|---|---|
| `FlowStore` | the traffic tables, one operator per statement or transaction | – |
| `FlowTracking` | the pollers of one firewall, the Manager's treatment of them, Clear database, the device | `FlowStore` |
| `MCFlowTracking` | instances of `FlowTracking` for TLC | `FlowTracking` |
| `FlowHistory` | what pollers, store and retention promise together: the abstract specification | – |
| `Retention` | the daily retention pass beside the pollers; implements `FlowHistory` | `FlowTracking` |
| `MCRetention` | an instance of `Retention` for TLC | `Retention`, `MCFlowTracking` |
| `Reputation` | the queue, the cache, the counter, the worker, `Enqueue`, `GetStatus` | – |
| `SshClient` | the shell a poller keeps open, its two commands, the Manager's close, a device that is late, silent or gone | – |
| `Settings` | configuration file and memory, handlers, Manager over all firewalls, firewalls table | – |
| `Migrations` | programs that open the database and migrate it | – |
| `HostKeys` | pinned host keys, in memory and on disk | – |
| `Startup` | the process as it is assembled from these three | `Settings`, `Migrations`, `HostKeys` |
| `RiskScore` | the two risk scores, as functions of the signals | – |
| `RulePreview` | a request for the deny rule preview, and what changes its inputs meanwhile | `RiskScore` |
| `MCRulePreview` | instances of `RulePreview` for TLC | `RulePreview` |
| `FlowStoreProofs`, `FlowTrackingProofs`, `FlowBytesProofs`, `RetentionProofs` | theorems about the traffic tables, the pollers, the ledger of bytes, retention and the refinement, each on top of the one before | `Retention` |
| `ReputationProofs`, `SshClientProofs`, `StartupProofs`, `RulePreviewProofs` | theorems about these components; those of `Settings`, `Migrations` and `HostKeys` are in `StartupProofs`, those of `RiskScore` in `RulePreviewProofs` | the module each names |

**FlowStore.** `sessions` maps ids to rows, `nextId` is the AUTOINCREMENT
counter, `samples`, `usage` and `dstIPs` are the other three tables. A session
key is a record of the five-tuple in which protocol and destination port are one
value, `service`. `tx_bytes` and `rx_bytes` are kept as their sum, the only thing
that is computed with. Columns that no statement reads to decide anything
(timestamps, packets, NAT, TTL, host names) are left out. `OpenSessions` is a
*set* of maps: the query has no ORDER BY, and of two open rows with one key
either may win. `UpdateSession` and `CloseSession` look at the id only, and do
nothing for a row that is gone; `InsertSample` is refused then, by the foreign key.

**FlowTracking.** A goroutine runs in a slot. Its program counter stands between
store calls:

| `pc` | next store call or step | in `poller.go` |
|---|---|---|
| `load` | `OpenSessions` | `Run`, `loadOpenSessions` |
| `poll` | the two SSH commands, as one step that reads the device or fails | `pollOnce` |
| `apply` | `InsertSession` or `UpdateSession` of the next listed flow | `ApplyPoll`, `applyFlow` |
| `start`, `bumpNew`, `track` | start sample, rollup, then lookup request and map entry | `applyFlow`, new key |
| `bump`, `sample` | rollup, then state-change or heartbeat sample and new baseline | `applyFlow`, known key |
| `close` | `CloseSession` of a tracked key that is not listed | `closeMissing` |
| `wait` | the `select` on ticker and context | `Run` |

Every store call has a second disjunct in which it fails without effect, and the
code's early return, log and carry-on after it. The order of flows within a poll
is left open: the listing's order is the device's, and `closeMissing` ranges over
a Go map. Whether a heartbeat is due is left open. `StopPoller` cancels and
forgets the goroutine, which finishes its poll; `StartPoller` needs a free slot,
so the number of slots is how many goroutines may overlap. `ClearHistory` and
`RestartAll` are the two calls of the Clear database handler. `Crash` drops
everything but the tables. The device starts, grows, reclassifies, resets and
ends flows at random; `carried` observes how many bytes a service really carried
and `requested` which lookups were asked for. Device steps are allowed only while
some poller is about to read the listing: they touch nothing else and nothing
else reads them, so they commute with all other steps.

`PollMisreads` is a poll of a damaged listing: `ParseConntrackFlows` skips a line that
does not have the form of a flow and reads a counter that does not parse as zero, and
nothing tells the poller. It applies any part of the device's table, any part of that
without its bytes, as long as something is lost.

**Retention.** `prune` is the statement the pass is at, between the two `DELETE`s of a
batch. Time is a set: `old` are the rows on the far side of the pass's cutoff, a closed
row by its `closed_at`, an open one by its `last_seen`. `BeginPass` takes any set of closed
rows, or all rows, open ones included, which is what a firewall that was unreachable for 90
days leaves; a row that a poller writes (`Written`) leaves `old`. `Selected` is the
subquery with its `LIMIT`, which both statements run: without an ORDER BY, but the same
rows for the same table. The foreign key refuses the second statement if a selected row
still has a sample. A crash ends the pass.

**FlowHistory.** A reader's view: sessions are opened under fresh ids, closed for good,
dropped only when closed; a rollup whose counters only grow and never exceed what the
services carried as long as every listing was read as it is; everything forgotten at once
by Clear database. `Retention` implements it under the mapping of `History`: a row is its key and
whether it is closed, `issued` is `nextId - 1`, the rollup is the bytes of each bucket.
`Undisturbed` says whether there is one writer at a time whose calls succeed, as in the instance
`History` of `Retention` and not in `DisturbedHistory`: then no two
sessions of a flow are open together and no byte is counted twice. Every other action of
`FlowTracking` and `Retention` is a stutter there.

**Reputation.** One step per statement: `RateLimitStatus` is `ReadLimit` and then
`CreateLimit` or `ResetLimit`, for the worker and for the dashboard; the worker's
tick goes on with `PopNext`, the answer or refusal of the provider, `PutReputation`
and `CountLookup`, or `PinLimit` and `Requeue`. `Enqueue` is the check of the cache
and then the insert. Time is relative: the counter's row is of today or not; an
entry is fresh or expired; `onTime` says whether the date a goroutine computed is
still today's. `DayPasses` may happen between any two steps. The interval at which
the worker wakes is left open, because the code's claim is that the counter alone
keeps it within the budget.

**SshClient.** `pc` is where the poller is between the mutex, `ensure`, `connect`, the
write and `waitPrompt`; `conn` is the client's connection, `fresh` the local one of
`connect` until its shell is open, `open` those it has not
closed, `dropped` those the device has given up. `Dial` is the TCP connect, with its 12 s;
`SetUp` and `SetUpFails` end what follows it, the handshake, `NewSession`, `RequestPty` and
`Shell`, for which there is no limit. The reader goroutine's channel is
`incoming`, and `owed` is what the device has not sent yet; a chunk says which command
it answers and whether it ends with the prompt, which is all that `waitPrompt` looks
at (the pager prompt, answered with a space, only makes the device go on). The time limit
of `waitPrompt` may pass at any moment. `GiveUp` closes the connection, the second failing write
does not, as in `Run`. `Cancel` and `CloseClient` are `stopLocked`.

**Settings.** A firewall's entry is a name and a `conn`, which stands for what
`connectionChanged` compares. `file` is `Nothing`, `Garbled` or what it says;
`memory` is the holder's configuration, with a flag for whether `EnabledSources` is
a map yet, since it is shared by the copy that `Update` makes only when it is.
`want[u]` is the list a handler got from `Update` and has not yet given to `Reload`.
`running` and `table` are the Manager's pollers and the firewalls table; `SyncFirewall` may fail
for the firewalls in `Refusable`, which `StartPollers` then leaves out, and `refused`
observes those whose last start failed like that: nothing starts them again before another
request, so the properties of the pollers except them. `Start` and
`Stop` are the process coming and going; a file that does not parse stops it from
starting.

**Migrations.** `applied` is the sequence of migrations the tables had, `recorded` is
`schema_migrations`, `stage` says where each program is in `migrate`. The transaction is
deferred, so it holds the one write lock (`MayWrite`) from its first statement to its end
and not at the check before; `Refused` is a statement that fails because the other program was there
first. `Leave` is any error, end or death, which rolls the transaction back.

**HostKeys.** A device's key is a number, in the order it has them. `entries` is the map in
memory, `pinFile` the file; the callback runs under a mutex and is one step, `Connect`, with
a disjunct in which the save fails or is cut off. `trusted` observes the keys under which a
password was sent.

**Startup.** The order of `appserver.New`: read the configuration, open the database, load
the pins, start the pollers. From then on `SettingsStep` and `PollerConnects`; `End` may
come at any moment; `OtherProgram` is `conntrack-app` beside `conntrackd`, which matters to
the database here. What the two do to each other's pins and configuration is not modelled
(Departures).

**RiskScore.** A score is a sum of `Points`, one for each reason, clamped; the reasons'
texts are left out. Whether there are 50 MB or two hours is a Boolean input. A verdict is
a record of its classification and two flags, in which "unknown" is also the empty one.

**RulePreview.** `pc` is where `handleRulesPreview` is: after the query for the usage, after
the one for the approvals, at a row of the usage, or reading verdicts for a row one address
after the other. `listed` and `allowed` are what it read, `candidates` the rows with their
scores, `rules` the reply. `usage` is kept in the order of `last_seen`, so that the upsert
takes a row to the front, and the place of a row tells which of two was seen later. The
tables change between any two queries: the poller's rollup, an approval or its end, a
verdict that arrives or expires, and Clear database. `kept` and `due` observe which buckets
were approved, and which asked for a rule, ever since the request began; `blind` observes
that a query for a score failed, which `scoreBucket` passes over in silence.

## Runs

Bounds. In `FlowTracking`: `MaxCarried` bytes a service carries in all (each byte is
a step of the device, and a flow starts with one, so this bounds flows as well),
`MaxRolledUp` stops polling once a bucket has more bytes than that (only runs in
which bytes may be counted again and again need it), `MaxErrors` failing store calls,
`MaxStops` stops by `Reload`, `MaxClears` clears, `MaxCrashes` deaths. In
`Reputation`: `MaxPriority` 429 answers for an address, `MaxSpent` lookups in a day,
`MaxStatus` dashboard requests, `MaxFaults` failing store calls, clears and crashes
together. `MaxMisreads` is the number of damaged listings, `Batch` the rows a statement of
retention deletes, `MaxRestarts` the ends and failed starts of the programs, `MaxKeys` the keys
a device has one after the other, `Latest` the number of migrations, of which `Additive` fail
when applied twice. In `RulePreview`: `MaxCount` sessions of a bucket, `MaxChanges` changes of the
tables before and during the requests; `Volumes` says whether a poll may bring a bucket
to the 50 MB. `Settings` and `SshClient` have no counter: their state spaces are finite as
they are; in `Settings` three switches and the set `Refusable` say which failures may
happen, in `SshClient` `Length` is the number of chunks of an answer.

| Run | Instance | Shows |
|---|---|---|
| `quiet` | two flows in opposite directions of one service, two applications, three bytes, one stop | `RollupMatchesSessions`: between polls the rollup has as many sessions as the table and at least their bytes, though flows are reclassified, end and come back under the same key, and the poller restarts. `PublicIsLookedUp`: every recorded public destination has had its lookup requested. `OneOpenRow`, `NeverOvercounts`: of two flows of a service none gets the other's row or bytes |
| `crash` | one flow, counters that reset, two bytes, one damaged listing, one crash, retention with batches of one row, with fairness | `TypeOK`, `TrackedIsOpen`, `OpenIsTracked` (no row stays open for want of a poller that knows it), `ClosedIsFinal`, `RollupOnlyGrows`; of retention `TrackedIsKept`, `BatchesAgree` and `PassFinishes`; `ImplementsHistory`: all of it is a `FlowHistory`, in which no two sessions of a flow are open together and no byte is counted twice; and the liveness property `HistoryFollowsDevice`; with a crash between any two store calls |
| `errors` | one flow, two TCP states, one byte, counters that reset, one failing store call, one damaged listing | `BaselineIsSampled`: no state change a poll saw is lost to the failure |
| `faults` | two flows of one service, two goroutines, two bytes, one clear, one crash | `IdsAreOurs`: no id in memory designates another flow's row. `RollupTablesAgree`: the distinct-address counter and the address table agree, scope counts add up |
| `rep_worker` | two addresses, budget 1, three lookups a day, one 429 each, one dashboard request, one fault, with fairness | `TypeOK` (an address is queued once), `FullCounterStops`, `OverspendsByOneAtMost`, `NothingForgotten`, and the liveness property `QueuedIsLookedUp` |
| `ssh_poll` | two connections, answers of two chunks, with fairness | `OwnAnswer`: what a command returns is its own whole answer. `OneConnection`: reconnections leave none open. `StopReturns`: stopping a poller comes back, though it waits for a command in progress, unless the device keeps a connection and leaves its set-up unanswered for ever |
| `settings_one_updater` | the process of `Startup`: two firewalls with two addresses, one of which hosts a device with two keys, one source, one settings request at a time, one Clear database, failing saves, a store that may refuse to register one of the firewalls, two migrations, the other program, one end or failed start, with fairness | `FirewallsPersisted`, `NoStalePoller`, `EveryFirewallPolled`, `RowsAsConfigured`; `AppliedAsRecorded`, `OpenIsMigrated`: two programs that open one file migrate it once and in order; `OneKeyTrusted`: a password goes to one host key; `PollsAgain`: after whatever end, the process comes up again with every configured firewall polled; `StartupTypeOK` |
| `rule_preview` | two buckets, one of a legacy port, two public addresses, two verdicts, five changes of the tables | `ApprovedNotDenied`: no rule for what was approved all along. `MaliciousIsShown`: a rule for what had a malicious destination all along. `RankedByRisk`: descending scores, latest first, one rule a bucket. `TypeOK`: a bucket has one row |
| `overlap_rows`, `rep_overspend_status`, `settings_two_updaters`, `ssh_stopped` | small | each a counterexample, see Departures |

Why these are enough to be telling. Two flows (in `quiet` and `faults`; with one, an id could
only come to dangle) suffice for one flow's id or bucket
to be confused with another's, two goroutines for every kind of overlap (a third
would need a poll longer than two poll intervals), one crash or failure for every
single point at which it can strike. Three bytes in `quiet` let a flow of two bytes
come back with one, the case in which the rollup rightly has more than the sessions.
One byte in `errors` is enough for a baseline, since a state change needs no traffic; the damaged
listing lets the flow be closed and come back.
Two bytes and a reset in `crash` let a counter grow after it went backwards, and a flow that
ends and returns has two rows, which a batch of one separates. One end in `Startup` may fall
into a migration that the other program is at as well; the second of two migrations is the one that must
not be repeated. Budget 1
of `rep_worker` with three lookups lets the worker exceed the budget by two if it
could. Two connections let an old one stay open beside the new, and a connection in
`SshClient` is used again after it was closed, so that reconnections go on for ever. Five
changes are what two buckets with a malicious address each need, and one more to
disturb the request. Combinations of several failures are left to the theorems where
there is one. A stop in a one-slot run (`quiet`) waits for nothing, but the next goroutine starts
only after the stopped one returned, so there is no overlap; that is what
`overlap_rows` adds.

Properties that hold under a condition say so: `RollupMatchesSessions` and
`PublicIsLookedUp` as long as no store call fails; `BaselineIsSampled` unless a failing
call and a restart come together (a row updated with the new state, its sample lost,
and the baseline resumed from the row).

Each property of a passing run comes with a mutant, an operator named
`<definition>_<what is wrong>` beside the definition it would replace: a query that
finds no open session, a delta that is not clamped, an id counter that starts again,
a restart that only stops, and the like. With it TLC finds the property violated.

## Fairness

`FlowTracking!FairSpec`. Weak fairness of each goroutine's steps: Go schedules
goroutines and a store call returns (`busy_timeout`). Strong fairness of
`PollSucceeds`: the device answers again and again, though polls may fail again and
again in between. Strong fairness of `RunReturns`: a `select` with two ready cases
picks among them at random, so a cancelled goroutine that reaches it for ever takes
`ctx.Done()` at some time. Weak fairness of `StartPoller` and `RestartAll`: a
configured firewall is started and a request in progress goes on. Beyond those polls nothing is assumed
of the device (a device that goes silent while a shell is set up stops its poller for ever: see
`SshClient`), of stops or of crashes, which the bounds make finite.

`Reputation!FairSpec`. Weak fairness of the worker's tick, which a ticker drives, and of
the insert of a call of `Enqueue`; weak fairness of midnight; strong fairness of an
answer for each address: the provider does not refuse the same address every time.

`Retention!FairRetentionSpec` is the same fairness with retention added, of which nothing is
assumed: `PassFinishes` says what a pass that ends has done.

`Startup!StartupSpec`. Weak fairness of the start, which whoever runs the program repeats, of
each program's steps in `Open`, and of the second call of a handler. That this call returns is
what `StopReturns` says, under its condition. Nothing is assumed of
requests, of the other program or of ends, which `MaxRestarts` makes finite.

`SshClient!FairSpec`. Weak fairness of a command in progress except while it `Waits`: the TCP
connect and the wait for a prompt have time limits, the write of one line is taken not to
block, but the handshake and the three requests that open a shell wait for the
device without one, and are sure to end only when the connection is lost (TCP keep-alive, which
Go's dialer turns on, or a reset). Strong fairness of `CloseClient`: a Go mutex does not starve a
waiter, although the poller locks it again and again. Nothing is assumed of the device. The poller may
end (`CHECK_DEADLOCK FALSE`): then, with the client closed, nothing is left to do.

## Departures

Where a comment, a document or a test says something of the program and the code does
something else. The four with a run's name are runs; the others can be seen by checking the named
property with the change given, starting from the configuration given.

| What is said | What happens | See |
|---|---|---|
| `PLAN.md:14`: one row per live five-tuple | A stopped poller is not waited for (`manager.go:95`); it and its successor both insert a new flow | run `overlap_rows` |
| `portusage.go:31`: the delta is since the last poll, so totals stay correct | If the sample of a state change fails, bytes were added already, the baseline has not moved, and the next poll adds them again (`poller.go:221`) | `NeverOvercounts`, `FlowTracking_errors` with `MaxCarried = 2`, `MaxMisreads = 0` |
| `threatintel/manager.go:48`: never overspends | A tick that read the counter before midnight counts its lookup for the day before (`reputation.go:125`): one more than the budget, and no more than one by this (`OverspendsByOneAtMost`) | `NeverOverspends`, `Reputation_overspend_status` with `MaxStatus = 0` |
| the same | Then the dashboard and the worker both find the row of the day before, the worker resets it and counts a lookup, and the reset of the dashboard's `RateLimitStatus` takes that count away: two more than the budget | run `rep_overspend_status` |
| `poller/manager.go:24-26`: edits take effect immediately | A device that takes the TCP connection and never answers holds `Client.mu` (`client.go:67`, no time limit from there to 102), and `stopLocked` waits for it with the Manager's mutex: no later edit of any firewall takes effect | `StopAlwaysReturns`, `SshClient_poll` |
| `poller/manager.go:24-26`: edits take effect immediately | Two requests cross between `Update` and `Reload`, and the older list stays (`settings_handlers.go:258`) | run `settings_two_updaters` |
| `poller/manager.go:92`: stopping a poller closes its SSH connection | The poller may begin another command after that, and connects again (`manager.go:101`) | run `ssh_stopped` |
| `config.go:251`: changes are discarded on any error | The copy shares the `EnabledSources` map; after a failed save the switch stays turned in memory (`config.go:256`) | `MemoryMatchesFile`, `Startup_one_updater` |
| `config.go:224`: memory and file never disagree | The file is truncated before it is written (`config.go:216`) | `MemoryMatchesFile`, `Startup_one_updater` with `SavesMayTear = TRUE` and `Sources = {}` |
| `firewalls.go:9`: `SyncFirewall` updates a changed name | A rename does not get there: `connectionChanged` ignores names (`manager.go:73`) | `NamesAsConfigured`, `Startup_one_updater` with `Names = {n1, n2}` |
| `sessions.go:93`: `UpdateSession` refreshes an open session | A stopped poller rewrites a row its successor closed: the statement does not look at `closed_at` | `ClosedIsFinal`, `FlowTracking_overlap_rows` |
| `PLAN.md:14`: one row per live five-tuple | A new session whose start sample fails is not tracked, and is inserted again (`poller.go:183`) | `OneOpenRow`, `FlowTracking_errors` |
| `poller/manager.go:120`: after a clear, pollers find no open session | A running poller inserts sessions between the two calls | `RestartFindsNothing`, `FlowTracking_faults` |
| `0001_init.sql:58`: `'end'` samples | None is ever written (`poller.go:153`) | `ClosedHasEnd`, `FlowTracking_errors` |
| `types.go:103`: only old buckets have no scope | A reclassified flow creates a bucket without scope counts (`poller.go:210`) | `BucketsHaveScope`, `FlowTracking_quiet` |
| `poller.go:25`: every newly seen public address is looked up | A crash after the insert loses the request; the session is resumed as known | `PublicIsLookedUp`, `FlowTracking_quiet` with `MaxCrashes = 1` |
| `threatintel/manager.go:48`: never overspends | A crash after the answer and before the count | `NeverOverspendsByTwo`, `Reputation_overspend_status` with `MaxStatus = 0`, `MaxFaults = 1` |
| `PLAN.md:19`: a durable queue | A crash between the pop and the answer loses the address (`manager.go:77`) | `WorkerReturnsWhatItTook`, the same |
| `threatintel/manager.go:34`: no request for a fresh address | `Enqueue` checks, the verdict arrives, `Enqueue` inserts; the worker does not check | `NeverAsksForFresh`, `Reputation_worker` |
| `threatintel/manager.go:97`: a refused address goes back to the front | Not if it was enqueued again meanwhile: INSERT OR IGNORE keeps priority 0 | `RequeuedInFront`, `Reputation_worker` with `MaxFaults = 0` |
| `generator.go:11`: deny rules for specific unapproved combinations | A rule names protocol and port only (`generator.go:120`), which an approved application may use too; the rule's note says that it is port-based | `ApprovedNotBlocked`, `RulePreview_shown` with `Buckets <- MCBuckets` |

Other things the code does and no text of the repository denies, which is why the properties
above have the conditions they have:

- `NeverOvercounts` fails after a damaged listing: a counter read as zero, or a missing line,
  makes the next listing look like new traffic (`misreads = 0` in the property). A listing
  that has a five-tuple twice (ICMP, whose ports are empty) would do the same at every poll
  (`poller.go:133`); it is not modelled.
- `OpenIsTracked` fails when a store call does: if the open sessions cannot be loaded, or
  a row is inserted and its start sample is not, the row stays open and out of the
  reach of retention (`poller.go:67`, `poller.go:183`; `FlowTracking_errors`). So do the rows of a
  firewall that is removed (`manager.go:59`).
- `TrackedIsKept` and `BatchesAgree` fail with overlapping pollers (`Retention_crash` with two
  slots and `MaxStops = 1`): a row that the stopped one closed while its successor tracks
  it expires under the successor, or gets a sample between the two statements of its
  batch. This takes a flow that goes on for 90 days.
- `conntrackd` and `conntrack-app` on one data directory both poll every firewall, with the
  effects of two overlapping pollers, and each writes back the pins and, after a settings
  request, the `config.yaml` it has in memory: what the other wrote is lost. None of this is in the
  model, where the other program has the database only: `OneKeyTrusted`, `FirewallsPersisted`
  and `PollsAgain` speak of one process that has these two files for itself.
- A pin whose save failed is refused once and trusted from then on, until the process ends
  (`knownhosts.go:69`); a damaged file forgets all pins without a word (`OneKeyTrusted` has
  `~pinsLost`). The advice of the error message, to remove an entry from the file and
  reconnect, works only after a restart.
- A write of `config.yaml` that is cut off leaves a file with which the process does not start
  (`PollsAgain` assumes `SavesMayTear = FALSE`; with `TRUE`, TLC finds the process stuck there).

## Proofs

All with TLAPS, for any constants that satisfy the modules' assumptions: any set of
flows, slots, firewalls, buckets, addresses and requests, any number of errors, stops,
clears and crashes. Every invariant and action property that a run checks has a theorem, and so
has the refinement; what is left to TLC is named [at the end](#only-model-checked).

Some theorems have hypotheses. None is there for the prover's sake: each is a condition
without which one of the properties is false.

| Hypothesis | Meaning | Without it |
|---|---|---|
| `[]NoOverlap` | two poller goroutines never run at the same time | run `overlap_rows` refutes `OneOpenRow`, and Departures names others |
| `Calm` | the Settings page has not yet stopped a poller or cleared the history | it implies `NoOverlap` (`OverlapNeedsSettings`) and replaces it in `CalmSafe`, `RetentionCalmSafe` and `CalmHistoryImplemented`; a stop is what makes overlap possible |
| `errors = 0` | no store call of a poller has failed yet | a session whose start sample fails is inserted again, and bytes are added again (Departures) |
| `clears = 0` | the history has not been cleared yet | a poller whose row was cleared under it has its samples refused and counts the same bytes at every poll |
| `crashes = 0` | the process has not died yet | a crash between the `INSERT` and the rollup loses the count of a session, or the request for a lookup |
| `OneUpdater` | settings requests come one at a time | run `settings_two_updaters` refutes `NoStalePoller` |
| `~SavesMayTear` | no write leaves `config.yaml` cut off | memory and file disagree (Departures) |

`Calm` and those on errors, clears and crashes speak of a state and its past, and the theorems say
`[](errors = 0 => ...)`: the property holds of every behaviour up to the first failure. The last
two are about constants. A firewall whose last start the store refused (`manager.go:79`) is excepted in the
properties themselves, by `refused`.

**FlowTracking, whatever happens.** `TypeCorrect` and `IdentitySafe` (`IdsAreOurs`) share the
inductive invariant `IInv`, `TypeOK /\ IdsHeld`, where `IdsHeld` adds to `IdsAreOurs` that an id in hand is
below `nextId`: without that a row inserted later could take an id that dangles. `TypeOK` contains `LocalsOK`, what a goroutine may
rely on where it is (the flow it applies is listed, the one it updates is tracked):
without it the types of the maps are not preserved. `IdsHeld` is inductive with the
types because of `NoRenaming`, which the proof establishes for each step: no row
changes its key, and `nextId` only grows, so an id that was given out stays
below it and can only come to dangle. This is what makes it sound for
`UpdateSession` and `CloseSession` to look at the id alone, whatever overlaps: a
goroutine with ids from before a clear updates nothing.
`RollupPermanent` (`RollupOnlyGrows`) follows from the types: `DeltaType` shows that the
clamped difference is a natural number, `BumpedGrows`, `BumpPortUsageGrows` and
`UsageKeptGrows` in `FlowStoreProofs` that each statement keeps what a bucket has.
`RollupConsistent` (`RollupTablesAgree`) counts: the address that `BumpPortUsage` adds to the
table is the one by which it raises the counter. `LookupsRequested` (`PublicIsLookedUp`) needs no
more than `IInv`: a row is inserted by a goroutine that goes on to ask for its lookup.

**FlowTracking, one goroutine at a time.** `Kinds` sorts all steps into seven kinds by what they
do to rows and to the ids in hand (`Loads`, `Inserts`, `Tracks`, `Closes`, `GoesOn`, `Clears`,
`Dies`), and the proofs that follow go over kinds. `HandsOpen` says that the ids a poller has in hand are of
open rows or of none, `RowsKnown` the converse, that every open row is in hand of whoever has
loaded the sessions. From the first, `TrackedIsOpenSafe` and `ClosedIsFinalSafe`, which
store errors do not disturb; from both, `OneOpenRowSafe` and `OpenIsTrackedSafe`. It is `RowsKnown` that rules out
a second open row: before it is inserted, the key is not tracked, so no open row has it.
`BaselineSafe` (`BaselineIsSampled`) needs `OnRecord`, which says the same of the session that is
being inserted and, because a restarted poller takes its baselines from the rows, of
every open row but the one just written, whose sample is still to come.

**The ledger** (`FlowBytesProofs`). A byte that the firewall carried is counted, or still unread: `UnreadOf` a
live flow is what its counter is ahead of its open row. `Claims` is the
inductive invariant: rolled up and unread bytes of a service, and while an `INSERT` or an `UPDATE` is
not yet rolled up its `Pending` bytes, are never more than what was carried.
It rests on `RowsOK` (the row of a tracked session says what the poller has as baseline) and on `Synced` (the
listing at work is the device's table, since the model puts the steps of the device before the
reading of a listing; a byte carried later only makes `carried` larger). So a counter that goes backwards, a flow that comes back under its old key and
a crash at any point may lose bytes but count none twice: `NeverOvercountsSafe`. `Counts` relates the rollup to the
rows in the same way, for `RollupMatchesSafe`. All sums are `SumFunctionOnSet`; what the proofs
need of it (`SumUpsert`, `SumSame`, `SumNat` and the like) is derived from the
definition of the folds by induction on finite sets in the form that states it with a set of
subsets, since the form with an operator parameter cannot be used.

**Before the Settings page intervenes.** `Sole`: until then whoever runs is the registered
poller, and `Calm` only ever ends. With `CalmInv`, which puts the invariants above under `Calm`,
`CalmSafe` states the properties of the pollers of every run up to that moment, and assumes nothing of how
goroutines are scheduled.

**Retention.** Its steps keep all of the above, because what they delete is neither open nor, therefore, in
hand (`PruneDeletes`, `PruneKeepsOpen`): the theorems about the pollers hold beside it (`RetentionTrackedIsOpen`,
`RetentionOpenIsTracked`, `RetentionClosedIsFinal`, `RetentionNeverOvercounts`, and without any condition `RetentionTypeCorrect`, `RetentionIdentitySafe`,
`RetentionRollupPermanent`). `TrackedIsKeptSafe`: what a poller works on is not deleted.
`BatchesAgreeSafe`: a sample is written for a row in hand, which is open, and so never for one of the
batch, and as long as no clear intervenes the pollers change nothing of what has expired (`ExpiredStands`).
`PassFinishesSafe`: a pass that ends on a batch that was not full had selected all.

**The refinement.** `DisturbedHistoryShown`: without any condition every step of `RetentionSpec` is a
step of `FlowHistory` with `Undisturbed` false, or shows nothing. `HistoryImplemented`: under `NoOverlap`, without
failing calls and clears, the same step is one of `FlowHistory` with `Undisturbed` true,
because `OneOpenRow` and `NeverOvercounts` hold after it (`UndisturbedStep`). This is
`ImplementsHistory`, which `crash` checks. `CalmHistoryImplemented` derives `NoOverlap` as above.

**Reputation.** The inductive invariant has four parts. `Types` has the queue's addresses distinct
and the worker's item where it must be. `Counter` is stronger than `FullCounterStops`: the count never
passes the budget, and stays below it from the read to the pinning, since only the worker raises it. `Alone`
relates the lookups of the day to the count at every place of the worker, before any dashboard request and fault: those
counted, one not counted yet, and one that a tick from before midnight makes; that is how
`BudgetSafe` (`OverspendsByOneAtMost`) comes to "one", for any budget and any
number of addresses. `Kept` adds to `NothingForgotten` that an answer is in the cache before the worker
lets go of the address.

**SshClient.** `Clean` says what is on its way on the connection in use, at each place of the
poller: the rest of the greeting, the rest of its own answer, or nothing between commands. It is inductive because a
command that is given up closes the connection and with it whatever arrives late; and the answer is
whole when the prompt came, because only the last chunk has one (`Rest`). Hence `OwnAnswerSafe`.
`OneConnectionSafe`: what is open is the connection in use or, while a shell is set up, the one it
is set up on.

**Settings and Startup.** The inductive invariant is `TypeOK`, `FirewallsPersisted` if writes do not
damage the file, `Registered` and, if there is one updater at a time, `InTouch`: the list an updater
holds is still the configured one, and without an updater between its calls the pollers
follow the configured list, whether or not a Clear database is under way. It is needed
because `NoStalePoller` speaks of moments when nothing is under way and so says nothing
of the steps before. `Registered` says that each poller was started with the entry that its row has,
and holds whatever the store refuses and whatever requests cross. From it: `TypeCorrect`; `Persisted`; `NoneStale`, whatever the store refuses to
register and however saves fail; `AllPolled` and `RowsFollow` (`RowsAsConfigured`) of the firewalls whose last
start it did not refuse. The lemmas are about lists of firewalls (`Over`, `Restrict`), which pollers
`StartPollers` and `Reload` leave, and what `Update` leaves.

`ImplementsSettings`: every step of the assembled process is a step of
`Settings` or leaves its variables alone, so that its theorems hold of the process;
`StartedPersisted`, `StartedNoneStale` and `StartedAllPolled` are these. `MigratedInOrder` (`AppliedAsRecorded`) and
`OpenedIsMigrated` share the inductive invariant `MInv`: what is recorded is a prefix of
the migrations, a program has passed only what is recorded, and one about to commit has found its
migration missing with nobody in between, because one transaction writes at a time. So the migration it
commits is the next one. The check outside the transaction is harmless for this reason: the
loser is refused, by the column or by the key of `schema_migrations`. `OneKeyForEach`
(`OneKeyTrusted`) rests on `PinsOK`: as long as no save failed, a running process has the
pins of the file and passwords were sent under them only. It also needs that pollers
exist only in a process that is up, which is why `KInv` contains the invariant of `Settings`.
`StartupTypeCorrect` puts the parts together.

**RulePreview and RiskScore.** `MaliciousUsageNotLow`: with one malicious destination a bucket's score is at
least 25 and so not "low", whatever else is in the score, which is why `Generate` cannot
leave it out; no discount applies then. `MaliciousConnectionNotLow`: the same of a connection, where 60
points stand against discounts of 15. Both add up the ranges of the terms;
`PortPointsType` bounds what the port, the application and the count contribute.

The invariant of the request says what the copies it has read so far have to do with the tables as
they are by now. `KeptOK`: what was approved all along is among the approvals that were read, hence
`ApprovedSafe`. `DueOK`: a bucket that was due all along is on the list read, is a candidate
once the request is past its row, and while its row is scored the malicious address is
either still to be looked up or its verdict is read; with the theorem on scores, `MaliciousSafe`.
`RankedSafe` is that the insertion sort sorts: the fold's value is characterised by induction on the
subsets of rows (`SubsetInduction`, again in the form with a set), where `less` is a total
order on candidates (`LessOrders`), a row is inserted behind all that it does not precede
(`LastPlace`, `InsertAtPlaces`, `InsertedRanked`) and nothing is lost or repeated (`GeneratedRanked`).

<a name="only-model-checked"></a>**Only model-checked.** The liveness properties, which this
prover does not reach (`HistoryFollowsDevice`, `QueuedIsLookedUp`, `StopReturns`, `PollsAgain`), and the
properties that the code does not keep, of which the violation runs are counterexamples.

## What is not covered

Text formats (CLI listings, YAML, JSON, CSV), HTTP, SSH and the enrichment queries, as
input and output; the browser page; the replay tool, a sequential driver of
`ApplyPoll`; read-only queries; the numbers a poll reports to the dashboard
(`RecordPollSuccess` and `RecordPollFailure` change nothing else).

The enrichment registry is left out because nothing in it takes several steps to go wrong:
its queries are independent and write a slot each, and every update of a source's
status is one critical section. The one exception is undefined behaviour, the map of the
configuration it reads without a lock (`config.go:243`), which the Go runtime answers by ending the
process; `End` may come at any moment.

A listing is modelled as a map from five-tuples to flows, so one that has a five-tuple
twice is not covered. The SSH reader's channel is unbounded in `SshClient`, so that
goroutines that block on a full one (`sshclient/client.go:111`) are not either.

## Plan

What comes next, in this order:

1. `PollerLifecycle`: the Manager's mutex over several firewalls, each with an
   `SshClient`, and the reader goroutines, whose channel holds 32 chunks
   (`sshclient/client.go:103`); then `OwnAnswerSafe` and `OneConnectionSafe` for all of them.
2. `scoreSession`: a connection's score with the bucket that is read beside it, and what
   "first contact" means there (`web/scoring.go:57`); rules for port 0.
3. Listings with a five-tuple twice, and with them which part of `ClaimsOK` is left.
4. `BudgetSafe` with dashboard requests: by how much each of them lets the worker
   exceed the budget.
