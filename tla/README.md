# TLA+ verification of sdwanlite

This directory specifies sdwanlite in TLA+, checks the specifications with TLC on
small instances and proves theorems about them, for every instance, with TLAPS.
Everything is translated from the Rust sources under `crates/`; paths below are
relative to the repository, and file names without a directory are unambiguous.

## The system

| Component | Source | State | Operations | What is hard | What makes it correct |
|---|---|---|---|---|---|
| Controller REST handlers | `crates/sdwan-agent/src/controller.rs` | none of their own | register, get, apply, put config, update metadata, delete, telemetry, alerts | every handler is several critical sections of the store; handlers run in parallel | a check still holds when the change it guards is made |
| DeviceStore | `crates/sdwan-agent/src/store.rs` | device records; broadcast channel, latest frame and alerted flags per device; alert ring | insert, get, replace_config, delete, update_meta, telemetry, flags, alerts, subscribe | five maps behind five locks, updated one after the other | the maps agree when no handler is at work |
| Config stream | `controller.rs`, `stream_ws` | a receiver per WebSocket | subscribe, forward, end | slow clients, replaced and dropped channels | no gap, no stranded task |
| Agent apply | `crates/sdwan-agent/src/agent.rs` | active configuration, apply state, verifier | register, set_verify, apply_config | `&self`, three independent locks, a verifier that fails | commit or roll back, answers that tell the truth |
| Agent lifecycle | `agent.rs`, `crates/sdwan-agent/src/main.rs` | connection | start, pull, connect, receive, reconnect, restart | lost connections, lost pushes, restarts | the agent follows the controller |
| Device configuration | `crates/sdwan-core/src/lib.rs` | value type | validate, version order | keys that decode to the wrong length, limits of ports and DSCP | accepts what is well formed and nothing else |
| SQLite store | `store.rs`, `migrations/001_init.sql` | tables, connection mutex | the Storage trait | one mutex, foreign keys, what is read back | calls return, history and devices agree |
| Load balancer | `crates/lb/src` | backends with health, counters, samples; runtime pool | select, connect, release, probe, add, remove | relaxed atomics, releases on every exit path | counters balance, unhealthy backends get nothing |
| BGP speaker | `crates/bgp/src/lib.rs` | sessions, senders, RIB | dial, open, update, reflect, end | several connections per neighbor share its entries | the RIB tells what neighbors said; sessions come back |
| Core configuration and policy | `crates/core/src/lib.rs` | value types | validate, evaluate | first match, CIDR limits | agrees with a reference definition |
| ACME | `crates/acme/src` | orders, DNS records, listener, files | obtain, write, renew, reload | failure half way, crash between renames, renewal and API at once | nothing is left behind, certificate and key match |
| Application API | `crates/app/src/server.rs` | policies, overrides, firewall rules, pools, files | put, delete, reload, signals | several locks and files per handler | memory, file and running pools agree |
| Dashboard ("web portal") | `crates/web/src/main.rs` | what a browser tab has read, stored buttons, rates | read, edit, send whole lists, poll | stale copies, answers that overlap the timer | nobody's entry is undone, no rate without traffic |
| Mesh | `crates/mesh/src` | text; a tunnel process | render, start | none | - |
| Web UI | `web-ui` | the last answer | pages over the controller's API | none | - |

The controller's clients and the agents talk to it over HTTP; the agent holds a
WebSocket on which the controller pushes configurations. Controller handlers share
the store, the store shares its channels with the stream tasks, the agent shares
its active configuration between `sync_loop` and readers. In the edge daemon the
API handlers share pools with the accept loops and health checkers, the path-policy
store with its file, and certificate files with the renewal loop and the pools that
load them; the dashboard is a client of that API.

## Modules

| Module | Models |
|---|---|
| `DeviceConfig` | configurations: device, org, hostname, version (bounded, `MaxVersion` stands for `u64::MAX`), validity as one bit |
| `ConfigCheck` | `DeviceConfig::validate`, part by part, and what well-formed means |
| `Controller` | the handlers of `controller.rs` over the in-memory `DeviceStore`, and the WebSocket tasks |
| `Telemetry` | `Controller` with the history of a device's frames and alerts |
| `SqliteStore` | the SQLite backend under concurrent requests and restarts |
| `Agent` | `apply_config` for any number of callers, startup, verifier, crash |
| `AgentContents` | `Agent` with a content for every version, judged by `ConfigCheck` |
| `ConfigReplica` | what `Agent` promises: an atomic replica that takes validated, newer configurations only |
| `ControlPlane` | one agent together with `Controller`, the agent's apply taken as `ConfigReplica`'s atomic step |
| `Backend` | the record of one backend: health, active connections modulo their width, `select_backend` as a pure operator (`Selectable`) |
| `LoadBalancer` | one pool: accept loop, connection tasks, health checkers, the API calls that change it |
| `BalancerHistory` | `LoadBalancer` with what choosing tasks, HTTP/2 uploads and reloads went through |
| `Dashboard` | latency samples and byte counters of the backends, `api_signals`, and the page's row that polls it |
| `BgpSpeaker` | dial loops, listener, sessions with several connections, RIB, reflection and drain tasks |
| `PolicyEval` | `cidr_contains`, rule matching, `Policy::evaluate` and `validate`, and a bitwise reference |
| `Settings` | labels and policies, pool overrides, firewall rules, stored buttons: API handlers, files, tabs and scripts |
| `Acme` | orders with both kinds of challenges, the files, the renewal loop, issuance through the API, reload, boot |
| `MC*` | instances for TLC |
| `*_proofs` | theorems and proofs about `Controller` with `Telemetry`, `ControlPlane`, `Agent` with `AgentContents` and `ConfigCheck`, `SqliteStore`, `LoadBalancer` with `BalancerHistory`, `Dashboard`, `BgpSpeaker`, `Settings` with `PolicyEval`, `Acme` |

**Controller.** A request is an HTTP request whose handler is a program counter
with its locals (`job`); a stream is a WebSocket (`stream`). An action is the
code between two lock acquisitions, so the interleavings are those of the
multi-threaded runtime: `register` is `Register; RegisterChannel`, `apply` and
`put` are `CheckConfig; ReplaceConfig; SendConfig`, `update_device` is
`UpdateMeta; Reinsert`, `delete_device` is `Delete; RemoveDevice; DropChannel;
DropTelemetry; DropFlags`, `post_telemetry` is `PostTelemetry; InsertTelemetry;
NewAlertFlags; PushAlert*`. The two reads of `DeviceStore::get` are one action:
what the second one reads (the sender) is used by no handler. A broadcast
channel is its whole history with a cursor per receiver; lagging and closing
are tokio's (external). Deleting or replacing a channel drops its sender.
A hostname in a metadata update also changes the stored configuration, under
its version and without a push (`Edited`). Authentication, the read-only GET
handlers, sites and metrics change nothing the properties see. A stream task that
ends leaves its socket open, because the task that reads from the socket owns its
other half.

**SqliteStore.** A request is the sequence of backend calls its handler makes
(`Calls`); each call takes the connection mutex (`Lock`), does one statement and
drops the guard. `Get` returns what `map_row` builds: the row of `devices`, never
the configuration. `Insert` is INSERT OR REPLACE, `Delete` is refused while
`configs` refers to the device, `Replace` is `replace_config`, whose last call is
made with the guard alive. `Restart` keeps the tables. The daemon has no flag for
`store_path`, so only tests and embedders open this backend.

**Agent.** `call[a]` is the program counter and the locals of one call of
`apply_config`; one action per access to `current`, `state` or `verify`.
`Crash` is the process being killed and started again. `AgentContents` gives every
version a content; its assumption is that `ConfigCheck!Verdict` accepts what is
pushed, as a `ValidatedConfig` is made by `validate` only.

**ControlPlane.** `AgentBoot` is the POST of the agent's startup, `AgentPull`
its GET, `AgentConnect` the WebSocket upgrade, `AgentReceive` one frame through
`ws_connect_and_drain` and `apply_config`. The controller is not simplified. The
atomic apply is justified by `Agent_proofs!AgentImplementsReplica`, because
`sync_loop` is the only caller. Back-off delays are not modelled: time plays no
part in the properties. Frames an agent has not read are lost with its
connection.

**LoadBalancer.** A pool is a `TcpLoadBalancer` (`tcp.rs`), or an `HttpLoadBalancer`
(`http.rs`) whose backends speak HTTP/1.1 or HTTP/2; TCP is a pool with one route. An
action is the code between two awaits. `Arrive`, `AcceptFails`, `Reject`, `Admit`,
`Handshake`, `HandshakeFails` are `serve`, with the TLS handshake where the code has it,
in the loop; the stop flag is read at the top of the loop only, so a stopped pool still
takes one connection. The other actions of a client are its task: `Snapshot` (TCP) or
`ReadHead` (HTTP, with `select_route`), `Pick` and `GiveUp` (`select_backend` over the
task's own snapshot), `Dial` and `DialFails`, then `Finish` after the copy, or
`OpenSession`, `Upload*`, `Respond`, `ResponseFails` for `h2_bridge`; `Leave` is the
wrapper that takes the connection off the pool's counter. `Probe` and `Report` are
`spawn_health_checker`: the answer is obtained in one step and applied in another.
`ApiChange`, `Reload`, `ReloadStep`, `Override`, `Stop` are the handlers of `server.rs`
on a running pool. A backend is named by its route and its number among the `Backend`
objects ever made for the route, because removing and adding an address makes a new
object while tasks and checkers keep the old one. The reads of `select_backend` (health
flags, counters) are taken as one step, and so are the loads of the limit, the drain
flag and the counter with the counter's increment (`tcp.rs:130-139`). Only the accept
loop adds to the counter, so a connection that ends between them only leaves more room;
a setting changed between them counts as changed before or after all of them, where the
code may decide by the old limit and the new drain flag. Left out here: byte, failure,
latency and rejection counters, which steer nothing (bytes and latencies are in
`Dashboard`); bodies; the end of the process that follows `Stop`. An address is `up`
when it answers within the timeouts, `sick` when it only fails checks. `AlertLog::push`,
`firewall_check` and `bump_health_failures` have no caller in the daemon.

**Dashboard.** `TakeSlot` and `StoreSample` are the two steps of `record_latency_us`,
which numbers a sample before it takes the ring's lock; `Percentile` is the nearest
rank, with sorting described by its result (`Ascending`); `BeginScan`, `ScanPool` and
`Respond` are one request of `api_signals`, pool by pool; `row` is what
`GoldenSignalsRow` keeps between two polls. A request reads every backend of a TCP pool
and, of an HTTP pool, the first of each address (`Read`). The daemon may restart and
backends come and go between polls, traffic goes on while a request gathers its totals,
and answers may overlap the timer.

**BgpSpeaker.** A neighbor may have a dialled and an accepted connection at once; they
share its entry in `sessions` and in `reflect_tx`. `Poll`, `Refused` and `Connect` are
the dial loop, `Accept` the listener; `PeerOpen`, `Confirm`, `PeerKeepalive`, `Enter`,
`Refresh`, `Ends`, `Leave` and `Broken*` are `run_session`; `ReceiveUpdate` is one
UPDATE under the RIB's lock, withdrawals, `Learn` and `Reflect`; `Drain` and `EndDrain`
are the spawned task. Peers are the environment: they send any message or vanish.
Messages are modelled by what well-formed ones mean, and `ParsePanics` is the UPDATE
whose attributes end after two bytes: `parse_update` indexes past them (`lib.rs:728`)
and the task that runs the session ends, which for a dialled connection is the
neighbor's dial loop (`dial = "dead"`). What drain tasks write (`queue`, `writer`) and
whom a route is reflected to are kept because they decide when a task ends; no property
reads them.

**Settings.** A handler changes the memory under one acquisition of its mutex and
saves under another (`PutLabels`, `PutPolicies`, `SetInstalled`, then `Save` or
`SaveFails`; `PutPool`, `MergePool`, `SavePool`; `CopyRules`, `WriteRules`). A request
is what a click starts (`Click`, `Send`), and nothing keeps a tab from the next click
before the first one is answered or its list is read again: a client may have any
number of requests under way, whose answers (`Refetch`, `Show`, `Dismiss`, and `Mount`'s)
arrive in any order. Tabs of the dashboard edit the copy they have and send it whole;
scripts send what they like. The histories `stale` and `old` say which copies of a tab,
and which requests made of a copy or bringing one, are out of date; `Lost` says what
a restart takes back. `AddButton` and `RemoveButton` are `ActionsView`, whose list is in the
browser. `Restart` loads the files. What operators enter is any policy that parses
(`RequestAssumption`, `IsPolicy`): prefixes of any length, and texts that are no prefix.

**Acme.** An issuance walks through `obtain` (`account` to `download`) and the two
writes and two renames of `issue_now`. Every call of the CA, the DNS provider or the
disk may fail; the CA may say "not yet" for ever, or leave a request unanswered
(`Silent`), which nothing ends, as the client has no timeout; a TXT record may be
created although the answer is an error (`CreateTxtLost`). `Expire` is the passing of
the 120 seconds, `Deadline` the look at them, which the code takes only after an answer.
`Panic` is one of the two `expect`s of `obtain.rs`; a loop that panicked is `gone`. The
renewal loop and issuances through the API use the same temporary files and do not know
of each other. Pools load the pair at boot and when the API reloads them.

## Runs

| Run | Checks | Shows |
|---|---|---|
| `ControllerRace` | `TypeOK`, `StreamGapless`, `ApplyOvertaken`, `NoResurrection`, `AlertPerRisingEdge`, `AlertIdsConsecutive` | concurrent requests with a stream, or concurrent frames: no gap, checks lost only to a race, one alert per rising edge, ids survive the overflow of the ring |
| `ControllerSequential` | `LastPushIsStored`, `FlagsMatchLatestFrame`, `RevisionsIncrease` | what holds when the requests of a device are served one after the other: store, channel and flags agree, configurations are replaced by newer ones or renamed |
| `AgentSingle` | `TypeOK`, `StateTellsOutcome`, `CommittedIsWellFormed`, `ImplementsReplica` | the deployed agent implements `ConfigReplica` and commits well-formed configurations only |
| `Plane` | `AgentFollows`, `PushApplied`, `PushDelivered`, `NoStrandedStream` | agent and controller through invalid and refused configurations, renames, reconnections, restarts; liveness of delivery over streams that lag, are replaced, lost and opened again |
| `BalancerSafe` | `ActiveCountsClients`, `AdmittedUnderLimit`, `BackendCountsBalance`, `RefusedForReason`, `ReloadSettles` | four pools, two clients, failing backends, handshakes, checks and API calls |
| `BalancerLive` | `WatchedRecovers`, `BacklogIsServed`, `ChoiceEnds` | the same under fairness |
| `Bgp` | `RibTellsLastStatement`, `DisplacedByBetter`, `EndedIsRedialed` | two connections of one neighbor and a stranger, three modes; a dial loop that may be killed by an UPDATE |
| `Console` | `AckedIsSaved`, `DanglingOnlyByLabels`, `LiveIsStored`, `RoutesPackets`, `UndoesOnlyWhenStale` | two clients with overlapping requests change stored settings, saves fail, the daemon restarts |
| `AcmeRenewal` | `PairTogether`, `ResourcesAccounted`, `LoopComesBack` | renewal and an issuance through the API, failures everywhere, a silent CA, panics, a crash |
| `Sqlite` | `HistoryHasDevice`, `AnsweredUntilPushed` | two requests on the SQLite backend and a restart |
| `Dashboard` | `PercentileIsNearestRank`, `RateIsCarried` | traffic, API changes, a restart under a polling page; samples stored out of order |
| `SqliteBlocks` | `EveryCallReturns` (violated) | a stored configuration blocks the backend for good |

**Bounds.** *Controller:* one device (devices share nothing but the alert ring);
versions up to 3 or 4; four requests: every race of the code is between two
handlers, and two more are needed to register the device and to change it in
between. A channel capacity of 1 makes receivers lag, a ring of 2 alerts
overflows. `OneConcern` in `MCTelemetry` keeps configuration requests and frames
apart, which share only the device's existence. Two hostnames, where there are metadata
updates: one is set, another replaces it. `ControllerRace` leaves metadata updates out,
because one that overlaps a deletion does bring the device back (`Reinsert`); they are in
`ControllerSequential` and `Plane`. `Plane` has two connections, so that an agent that lost
one is served over another, and either two requests of clients or a restart of the agent
and one request (`RestartOrTwo`): requests that overlap, follow each other, lag a stream or
replace its channel in the first case, what a restarted agent pulls in the second; the
theorems have both together. Startups, requests and connections are interchangeable and
are taken in order (`InOrder`), which loses no behaviour but for the names, also for
liveness: nothing that fairness demands is cut off. *Agent:* seven versions,
four of whose contents do not validate, each for another reason.

*Balancer:* two addresses, of which one may fail (`Frail`), and two clients, so that
every race between two tasks, a task and a checker, and a task and the API occurs:
with one backend failing a task retries on the other. `Limit` is {1}, reached by the
first client. `Width` 3 exceeds the clients, so a counter wraps only where the code
makes it go below zero. `Period` 2 is a multiple of the lengths of all lists. `calls`
bounds the API calls per pool: two give a reload and a change that interferes.

*Bgp:* one configured neighbor with a dialled and an accepted connection, whose entries
the code confuses if it confuses any, and one stranger; one prefix (prefixes do not
interact); path lengths 1, 2, 3 so that the stranger's lies between the neighbor's;
without multipath, with multipath and reflection, and with a global import list that the
neighbor's own empty list replaces. All local preferences are 100 in the run; the
theorem `OnlyBetterDisplaces` covers others. *Console:* two clients, two requests under
way at a time and four in all, two labels, two policies, one restart: a lost update
needs two writes and one read before them, by one tab or by two. `OneConcern` keeps
store, pool, firewall and buttons in runs of their own: they share no variable.
Addresses have 2 and 3 bits, so prefixes of length zero, full length and of the other
family occur. *Acme:* the loop and one API issuance, one domain, two obtained pairs, two
days, one crash. *Sqlite:* two requests on one device, one column with two values, two
versions, one restart. *Dashboard:* a TCP pool with one backend, a spare object for its
address and one for another, so that a backend is replaced or joined by a second; an
HTTP pool whose two routes share an address; a ring of 3 samples filled past its end
with 5 by tasks of which 2 store at a time, so that one can be overtaken by a whole
round; 3 bytes and 4 half seconds of clock, one restart; latencies and traffic are
explored apart (`OneConcern`), since they share the list of backends only.

Symmetry is used in safety runs only. Requests are used once or bounded, so most
systems stop: deadlock is checked for the agent and the BGP speaker, and elsewhere
the hazard of everyone waiting is a liveness property.

**Fairness.** A task of the runtime that can run is polled: `Continue(r)`,
`StreamStep(s)`, `AgentStep`, in the balancer `Admit \/ Reject`, each checker and each
task that waits for no peer (`Runs`: `connect` and the probes have timeouts). A
handshake, a request head, a copy and the opening of an HTTP/2 session wait for the
peer without a timeout, so they are not fair, and the liveness properties exclude
them. Clients, connection failures, crashes and restarts are never fair.
`SqliteStore`: steps of a request are weakly fair, `Lock` strongly: a waiting thread gets
a mutex that is free again and again. `BgpSpeaker`: the timer of the dial loop, a
session's own steps and the drain tasks; nothing a peer sends. `Acme`: a request that
the CA does not leave unanswered (`hung`) is answered one way or the other
(`Answered`), the waits perhaps with "not yet" (`NotYet`, which ends the wait once the time
is over), time passes (`Expire`), writes end, the loop's timer fires (`Wake`), and a
supervisor starts the daemon again after a crash. That a request is answered is
assumed of none: `Silent` may happen at each.

**Environments.** `Overlap = FALSE` makes clients wait for the answer to one request
before they send the next one for the same device. `AgentFollows` speaks of histories
(`orderly`) in which the handlers of the device ran one at a time (`OneAtATime`) and the
clients let the agent follow (`Follows`): they left registration to it, used apply
instead of put, and named the device in the bodies sent for it and in no others.
Metadata updates are among these requests. Without the first, another registration
lowers the controller's version below the agent's; without the others, a stored or
pushed configuration need not be the newest, or not the device's.

**What properties excuse.** Several hazards do happen in this code; the property about
one then says that nothing else goes wrong, and names what it excuses by a history
variable or a condition. It does not fail on the excused behaviour:

- `BackendCountsBalance` adds what HTTP/2 uploads took off (`uploads`), so it holds
  although `h2_bridge` releases backends it never connected.
- `ReloadSettles` is about reloads without another API call in between (`calm`), and
  `WatchedRecovers` about backends known at bind time. `BacklogIsServed` excuses the time of
  a TLS handshake, which nothing bounds.
- `RibTellsLastStatement` orders statements by the RIB's lock, in which `said` is set:
  of two UPDATEs on two connections the last is the one whose handler had the lock last.
  A peer that is gone withdrew nothing, so its routes count as right.
- `EndedIsRedialed` excuses a neighbor whose dial loop was killed by `ParsePanics`, and
  is not about read errors.
- `DanglingOnlyByLabels` excuses any label that a label edit removed since the policies were
  last set. `LiveIsStored` excuses overlapping requests for one pool (`raced`).
- `UndoesOnlyWhenStale` excuses requests made of a copy that was out of date (`stale`,
  `old`): lost updates happen, and it says when. A tab's own earlier request counts like
  anybody's: a tab that deletes one label and then another, before its list is read
  again, restores the first.
- `PairTogether` excuses crashes and errors between the renames, and overlapping
  issuances (`torn`); `ResourcesAccounted` records and a listener that a failed request,
  a panic, a crash or a creation answered with an error left (`lost`, `orphan`).
  `LoopComesBack` excuses requests of the loop's own that the CA never answers, and
  panics.
- `LastPushIsStored` and `AgentFollows` compare configurations but for the hostname, which a
  metadata update changes without a push. `RevisionsIncrease` allows such a rename.

`Policy::evaluate` is specified and proved right, but nothing in the daemon calls it yet.

## Proofs

Checked with tlapm, for every value of the constants that satisfies the
assumptions stated with them. Unless a hypothesis is named, a theorem has none but
the module's assumptions.

**`Controller_proofs`.** The typing invariant (`TypeCorrect`) is strengthened by what
a handler knows at each program point (`HandlerOK`: a handler past its check holds a
device, a configuration and the record it saw) and by the order of a stream's cursors
(`StreamOK`).

- `ApplyOnlyOvertaken` rests on `CheckedVersion`: between check and store, the new
  version is newer than that of the record that was seen.
- `StreamsAreGapless` rests on `FramesMatch` and on channels only ever growing;
  `AlertIdsNeverReused` on the counter that outlives the ring.
- `DeletedStaysDeleted` assumes that clients send no metadata updates: `Reinsert` does
  bring devices back.
- `RevisionsGrow` and `PushesAgreeWithStore` (metadata updates included, up to the hostname
  they change) assume clients that wait for each answer
  (`~Overlap`), that use apply and not put, and whose bodies name the device of the
  path (`BodiesNamePath`); each of these is needed, as the list of divergences below
  shows. The invariant `OneByOne` says that at most one handler works on a device
  (`Alone`), that the configurations which name it are its own (`Named`), that what the
  handler read is still stored (`UpToDate`), that a channel belongs to one device
  (`Owned`), and that the newest message of the channel is the stored configuration
  unless the handler is between the two (`PushInv`).
- `FlagsFollowFrames` assumes `~Overlap` only. `FlagsInv` follows a frame from the map
  of frames to the map of flags.
- `RisesAlertOnce` assumes nothing about the clients. `HistoryOK` says that the alerts a
  flag raised and those that handlers still have to push (`Pending`) add up to the
  rising edges, and that the flags in the store are those of the last list taken;
  every step changes both sides alike, by lemmas about cardinalities.

Of `ControlPlane`, `PlaneRefinesController`: each step of the composition is a
step of `Controller` or leaves it alone, so the theorems above hold with an agent that
starts, pulls, reconnects and dies. `AgentMirrorsController` needs that `orderly`
implies `Sequential(Self)` (the three parts of `OneByOne` above that are about the
device), and `Mirrors`: the agent's configuration, the frames it has not read and the
part of the channel its stream has not forwarded all are earlier revisions or the stored
configuration, perhaps under another hostname (`Behind`).

**`Agent_proofs`.** `TypeCorrect` and `ApplyOnlyOvertaken` hold for any number of
callers; `AgentImplementsReplica`, `StateIsTruthful`, `CommitsAreValidated` and
`CommitsAreWellFormed` for one caller. The first two need that a call past the gate
carries a version above its snapshot (`CallOK`), the others also that the snapshot is
still the active configuration (`SnapshotHolds`) or that the state tells of no earlier
call (`CommitInv`), which is where the single caller is used. `ValidIsWellFormed`:
`validate` accepts exactly the well-formed configurations, for sequences of any
length; with `CommitsAreValidated` it gives `CommitsAreWellFormed`.

**`SqliteStore_proofs`.** `TypeCorrect`, `HistoryIsOwned`, `PutHoldsMutex`,
`PushIsTheLast`. What a request knows before each of its calls (`JobOK`) gives that an
insert carries a row; deletion is refused for devices that are referred to.
`PushIsTheLast` is the general form of what `SqliteBlocks` shows: from the first
stored configuration on, the mutex belongs to a request that waits for it.

**`LoadBalancer_proofs`.** For every finite set of clients, every set of pools, any
limit and any width of the counters.

- `CounterIsExact`: `CountInv` adds to the counter's exactness that the backlog holds
  each waiting client once and no other: otherwise a client let in twice would be
  counted twice. `LimitHolds` follows because `Admit` is the only step that moves a
  waiting client inside, and compares the counter, which is exact.
- `RefusalsAreJustified`: in `ChoiceInv`, each try that a task has used up is paid for by
  an unhealthy backend of its snapshot other than the one it is trying, as long as none
  came back; a task without tries left has therefore seen all of them unhealthy.
- `BackendCountersBalance`: `BalanceInv` is the property with numbers of uploads that
  are zero for objects not yet made. Each step of a task moves one client into or out
  of one `OpenOn` and the counter by one, modulo its width; the residues are handled
  by lemmas of their own.
- `ReloadsSettle`: `Settling` relates the list to what is still to be added and removed.
  The file and the list may repeat addresses.

**`Dashboard_proofs`.** `RateIsBacked`: a new rate is never above the traffic since the
request before. `Accounted` says so ahead of the response: what a request has gathered,
with what the pools it has still to read hold, is covered by the total the row saw last
and the bytes carried since that request was sent; and what the pools behind it hold is
covered by what it gathered and the bytes carried since it began. Traffic adds one to
both sides, a removed backend or a restart takes away from one, and a response turns
the second part into the first. Only that pools share no object (`DashboardAssumption`)
is assumed. The sums are folds over sets, of which the library states no facts: the
lemmas that start the module derive them from the fold's definition, by induction on
cardinality (`SumOfFold`, `AnyOrder`, `SumOfUnion`).

`PercentilesAreExact` has two parts. `RingOK` is inductive: every sample of the last
round is in its slot or still held by the task that took it, except in slots where a
task last stored a sample after the slot was taken again (`late`). So a ring at rest
without those holds the last samples, moved round (`RingHoldsLatest`), and moving
samples changes no percentile (`SameSamples`). The other part, `PercentileIsRight`,
needs that a finite set of numbers can be listed in ascending order (`ListingExists`)
and that the rank of the code's `div_ceil` leaves `q` percent at or below it and fewer
below (`RankBounds`). A task that is overtaken does occur: its old sample takes the
place of a newer one until the slot is written again (`lib.rs:150`).

**`BgpSpeaker_proofs`.** `TypeCorrect`, `RibIsTold`, `OnlyBetterDisplaces`. The steps that
touch the RIB are described once by what they do to each route (`UpdateEffect`: it
stays, follows its neighbor's statement, or gives way), and both theorems follow
from that description; the second also needs that the order of routes is total
(`AsGoodTotal`).

**`Acme_proofs`.** `TypeCorrect`, `ResourcesAreAccounted`, `PairStaysTogether`. The last
needs `PairInv`: what the temporary files hold at each stage of a writer, and that
a single writer's two temporary files are of its own pair unless issuances
overlapped (`torn`).

**`Settings_proofs`.** `Typed` says of every store, copy and request that it consists
of lists of what was entered.

- `AnsweredIsOnDisk` follows from `SavedInv` (a change about to be saved is in memory;
  memory is not behind the file, nor the file behind what was answered) and
  `PoolRunsStored` from `PoolInv` (at most one request is between its two changes,
  and the pool runs with what is stored with that request's override on top).
- `PoliciesRoute` has an inductive part, that stored policies were entered, and a part
  about numbers: `cidr_contains` compares addresses after clearing their last bits,
  the reference compares their first bits one by one (`TopsAreBits`,
  `ContainsIsInNetwork`), and the first rule that matches is the least element of a set
  (`LeastOf`, `FirstMatchWins`).
- `UnknownLabelsStayOut`: labels a stored policy uses are listed or were dropped by a
  label edit since (`AllKnown`), in memory and in the file.
- `StaleTabsUndo`, for any number of requests per client: a copy that nobody outdated is
  what is stored, and so is the list on its way to a tab; a request that is not `old` was
  made of such a copy and differs from what is stored in what it names only (`Fresh`).
  Each step that changes a list outdates the copies and requests it leaves as they are
  (`Outdates`, `OutdatesRequest`).

Induction is done on numbers with sets: a set of naturals that is not empty has a
least element (`LeastOf`, from the well-foundedness of `<`), which gives an
`Induction` over sets of numbers and the equations of recursive functions
(`RecursionExists`).

Only model-checked is liveness, which is outside the prover's reach: `PushApplied`,
`PushDelivered`, `NoStrandedStream`, `WatchedRecovers`, `BacklogIsServed`, `ChoiceEnds`,
`EndedIsRedialed`, `LoopComesBack`, `AnsweredUntilPushed`, and the violated
`EveryCallReturns`. Every other property of the runs is a theorem.

## Where code and documentation part

`SqliteBlocks` shows one: `store.rs:3-11` promises that the SQLite store preserves the
controller's contract, and `replace_config` (`store.rs:204`) never returns. Others, met
while modelling:

Control plane.

- Two applies pass the same version check and store in either order, so an older
  version may stay (`controller.rs:292`); `docs/ARCHITECTURE-P0.md:115-117` and
  `crates/sdwan-core/src/lib.rs:170-172` speak of monotonically increasing versions.
  `ApplyOvertaken` states what remains.
- A push between the agent's pull and its subscription reaches no receiver; the
  agent gets it only with the next push.
- A re-registration replaces the device's channel (`docs/api-spec.yaml:269-270` says the
  stream continues): the task of a connected agent ends, its socket stays open and
  silent.
- Registering a known device overwrites its record (`controller.rs:182`), where
  `agent.rs:191-192` and `docs/ARCHITECTURE-CONTROL.md:20` have the controller answer 409.
- `update_meta` reads a record, changes it and writes back all of it (`store.rs:391`,
  `:402`): a configuration applied in between is undone, so the version falls, where
  `crates/sdwan-core/src/lib.rs:17-18` calls versions "monotonically increasing per
  device", and a device deleted in between comes back. It changes the hostname of the
  stored configuration under the version it has and pushes nothing (`:398-401`), so the
  agent keeps the old name until the next version. It moves a record to another org and
  leaves its configuration in the old one (`:392-394`); the agent does not compare orgs
  (`agent.rs:242`, `docs/ARCHITECTURE-CONTROL.md:273`).
- `PUT /devices/:id/config` stores any version (`controller.rs:252`);
  `README.md:46` and `docs/api-spec.yaml:203` want an increasing one. A configuration
  is stored under the id of the path and pushed to the device its body names
  (`store.rs:369`). The controller does not validate contents, and the agent does not
  validate what it pulls at startup (`agent.rs:219`).
- A frame that a deletion overtakes stays listed (`controller.rs:341`, `:307`). A flag
  listed twice in one frame alerts twice (`store.rs:415`).
- `ApplyOutcome.active_version` may be out of date with several callers
  (`agent.rs:102`). `is_strictly_newer_than` is documented with its arguments swapped
  (`crates/sdwan-core/src/lib.rs:806`).
- The SQLite store reads a device back with the empty configuration of version 0
  (`store.rs:249`), has no table for telemetry, and refuses to delete a device that has
  a history.

Load balancer and dashboard.

- A backend added at run time is on no health checker's list (`tcp.rs:68`, against the
  comment at `:178`): after one failed connect it is never used again.
- `h2_bridge` releases a backend it never connected (`http.rs:352`, `:356`): the
  counter of active connections wraps below zero and the least-connections choice
  then avoids the backend. It counts the buffered part of a body twice (`:326`), so
  that the end of it is not sent, and a retry sends the body without that part,
  where the comment says "stream buffered prefix + remainder".
- The deadline of a request head is looked at only after a read has returned
  (`http.rs:188`, `:209`); the TLS handshake in the accept loop has none (`:157`).
- The percentiles `api_signals` gives a pool include the samples of the pools listed
  before it; of an address two routes share only the first one's counters are shown;
  utilization compares connections of all pools with the limits of the TCP pools. The
  row keeps the last rate when traffic stops. Health-check intervals of a pool's
  override are stored and read by nothing.
- The first firewall rule added at run time hides the configured ones, and deleting
  the last brings them back; indices listed for configured rules answer 404.

BGP speaker.

- After a read error the session stays Established and its neighbor is not dialled
  again (`lib.rs:393`); `EndedIsRedialed` speaks of the other ways to end.
- An UPDATE whose attributes end after two bytes makes `parse_update` panic (`lib.rs:728`),
  which ends the session's task and, on a dialled connection, the neighbor's dial loop
  (`lib.rs:222-227`): no later end of a session is followed by a dial.
- A route is dropped for another neighbor's without telling those it was reflected
  to; withdrawals are not reflected; reflection does not look at the export list,
  which `crates/core/src/lib.rs` documents as "Prefixes advertised to this neighbor
  (exact match); None = all".
- A neighbor's own empty import list opens what the global list closes. For a peer
  without AS4 the effective AS is read from other bytes of its OPEN.

ACME.

- `renew.rs:50` says of the renewal loop "Checks daily; issues when needed. Never returns."
  A request that the CA never answers stops it: the client has no timeout
  (`http_client.rs:25-34`), and the deadline of `obtain.rs:225` is looked at after
  `refresh` has returned (`:214`). A panic (`:90`, `:241`) ends it.
- `renew_days` is documented as "Renew when less than this many days remain"
  (`crates/core/src/lib.rs:71`); `renew.rs:44-46` compares the age of the certificate.
- Records created before the guard exists are left when a later creation fails, where
  `obtain.rs:185` says "delete them on every exit path"; deletion looks for the zone
  by name where creation used its id. A record whose creation was answered with an error is
  on no list.
- After a failed request the HTTP-01 listener is left behind with the port
  (`obtain.rs:206-214`, `:244-249`, where the other exits call `shutdown`): the next
  issuance fails to bind until the daemon restarts.
- The order is finalized with a certificate where a signing request belongs; restored
  accounts use the default HTTP client. A pair that does not match stops the daemon at
  boot. A renewal reloads no pool: the old certificate is served until a reload,
  while `/api/tls/status` reports the file's.

## Plan and what is left

Done: the control plane with its SQLite backend, the load balancer with its signals,
the BGP speaker, policies and stored settings, certificates; proofs of every
property that is not liveness. Next would be bodies in `h2_bridge`.

Not modelled:

- mesh rendering: text from configuration, and a process that is started;
- `crates/mesh/src/vpn.rs` (feature `vpn-forwarding`, unused by the daemon): its
  behaviour is that of two external protocol stacks;
- the web UI: pages over single requests that keep no state but the last answer;
- the agent's HTTP client, HTTP heads and bodies, the encodings of BGP and ACME
  messages, the parsing and validation of the configuration file: conversions of text;
- authentication and the read-only views, which change no state the properties see;
- `crates/acme/src/providers.rs`, which `obtain` does not use.
