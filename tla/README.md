# Formal models of the SprIoT platform

SprIoT is a Django platform for sensors and devices that speak MQTT. Web
processes take requests from users; one *runner* process owns the connection to
the broker, sends commands, stores what the devices report and runs the control
loops. The two kinds of process share a database and Redis, and nothing else.

This directory holds TLA+ modules of the parts whose correctness depends on
interleavings, failures and time, the configurations with which TLC checks them
on small instances, and TLAPS proofs for every instance. All paths below are
relative to `src/`; `services/`, `sensors/`, `automation/` and so on are under
`iot_control_platform/`.

    tlc -config bus_safety.cfg MCCommandBus       # one run; see "What is checked"
    tlapm CommandBusProofs.tla                    # the proofs of one module

## The system

| Component | State | Operations | Interacts with |
|---|---|---|---|
| Command bus (`services/mqtt_command_bus.py`) | in Redis: request hashes, check codes, command stream with a consumer group, control stream, dead-letter stream, runner lease | enqueue, wait for a result, read, claim stale entries, set or complete a status, acknowledge, resolve a check code | web processes, runner; every operation is one Redis command, transaction or script |
| Command worker (`MqttCommandWorker`, same file) | the claimed batch, the entry in progress | claim, read, process one entry, abandon it | command bus, connection |
| Send services (`services/base_command_send_service.py` and wrappers) | none that outlives a call | render a command, enqueue it, wait, interpret the result | command bus |
| Connection (`services/mqtt_service.py`) | the current client, `is_connected`, `_connected_event`, `connection_state`, `_lifecycle_lock` | `connect_async`, `stop`, `reconnect_async`, `publish_wait`, callbacks of the network thread | Paho, worker, runner |
| Inbound messages (same file, `services/*/…_handlers.py`) | rows of data and status, dead letters, unacknowledged messages | dispatch to a handler, manual ACK, dead letter | database, Redis, command bus |
| Runner (`sensors/management/commands/mqtt_runner.py`) | its token in the lease, timers of the main loop | acquire, renew, reload, poll the configuration fingerprint, stop, release | all of the above, scheduler |
| Configuration (`platform_settings/`, `config/platform_config.py`) | values in the database | save, enqueue a reload | control stream |
| Control schemes (`automation/controllers.py`, `scheduler.py`, `views.py`) | a row per scheme: flags, `last_run_time`, `runtime_state` | scheduler pass, tick under the row lock, manual tick, enable, disable, edit | database, send services |
| Automation rules (`automation/executor.py`, `engine.py`, `scheduler.py`, `views.py`) | a row per rule, single-flight lock in Redis, child process | launch, stop, execute, scheduled execution with a time-out | database, Redis, send services |
| Devices and sensors (`devices/`, `sensors/`) | rows; `last_seen`, `is_online`, `sort_order` | CRUD, heartbeat, reorder, bulk move, send a command | inbound messages, command bus, browser |
| Realtime (`services/realtime/`, `projects/consumers.py`) | groups of the channel layer | broadcast after a commit, snapshot on connect | inbound messages, browser |
| Projects and diagrams (`projects/`, `automation/models.py`) | projects, rooms, members; schemes, rules and views bound to them | create, edit, move, delete, cascade or protect | browser |
| Folders (`resource_folders/`) | a tree per resource type | create, move, delete, bulk move | browser |
| Plugins, platform settings, accounts | rows, files found at import | CRUD | browser |
| MCP server (`mcp/`) | token of the API client, used confirmation nonces | preview, confirm, execute | REST API |
| Simulation (`simulation/`) | runs in SQLite, child processes | start, stop, recover | broker |
| Browser (`frontend/`) | socket, tokens, project store | connect, refresh, apply snapshot and samples | REST API, realtime |
| Firmware (`hardware/`) | — | report, execute a command, echo its check code | broker |

### What is hard

* **One command, four parties.** A caller polls a hash with a time-out, the
  worker publishes, the callback thread records the device's answer, and Redis
  drops keys by age. A crash between two steps leaves an entry that somebody
  claims again, and commands are not idempotent.
* **Two runners.** Only a lease in Redis keeps a second one away, and the
  thread that renews it has other things to wait for.
* **Callbacks without a lock.** The network thread writes the connection fields
  while the main thread replaces the client.
* **Stale rows.** The scheduler and the views work on instances that they have
  read before; an UPDATE of what was read undoes what happened in between.
* **Validate, then save.** Requests validate against the database and save in a
  second step, without a lock around both; a save writes every column.
* **Processes that must not be forgotten.** A rule runs in a child process and a
  simulation run in a session of its own; both are started, watched and killed
  by processes that may die themselves.
* **Tokens in several hands.** REST requests and the socket of a page renew the
  same token; the MCP server confirms with tokens that are used once.
* **Time.** Deadlines, time-outs, key lifetimes and control intervals race with
  late answers and retries.

`PROJECT.json` lists each hazard with its line and the properties that watch
it, and for every component what is modelled and what is not.

## The modules

| Modules | Model |
|---|---|
| `CommandRequest` | the promise of the bus about one command (abstract) |
| `CommandBus`, `MCCommandBus` | the bus, its callers, worker threads, callback thread, broker and devices |
| `CommandBusProofs`, `CommandBusRefinement` | proofs: types, results and acknowledgements, publishing and terminal statuses; refinement |
| `MqttConnection`, `MqttConnectionProofs` | the connection fields and their threads |
| `MqttRunner`, `MCMqttRunner`, `MqttRunnerProofs` | the lease, the main loop with its reloads, and the stop sequence, with time |
| `MCRunner` | an instance of the lease and the connection in one run |
| `ConfigReload` | the way of a configuration from the database into the client |
| `InboundDelivery` | the way of a report from the broker into the database |
| `ControlLoop`, `MCControlLoop`, `ControlLoopProofs` | one control scheme and everybody who acts on it |
| `PidController`, `MCPidController` | the PI and PID algorithms with an arbitrary process |
| `SwitchedOutput` | actuators that are on or off: dead band, threshold and pulse width |
| `PidControllerProofs` | proofs about both |
| `RuleExecution`, `MCRuleExecution` | rules, their lease and their child processes, with time |
| `BoundedCapture` | what a script prints, logs and raises, as the parent process gets to see it |
| `LiveView` | what a project page shows of the reports that are stored |
| `ProjectRooms` | projects, rooms, members and what is bound to them |
| `ResourceRecord` | the row of a sensor or device, its topics, and who writes it |
| `ResourceTree`, `PageOrder` | the folders of a management page, and the order in a folder |
| `BrowserSession` | REST requests and the socket of a page, and their tokens |
| `McpServer` | confirmation tokens and the API client of the MCP server |
| `SimulationRuns`, `SimulatedNodes` | simulation runs and their processes; the virtual nodes |
| `MCPlatform`, `MCSessions` | instances of the parts that share no state |
| `PlatformProofs` | proofs about `RuleExecution`, `BoundedCapture`, `InboundDelivery`, `ConfigReload`, `ProjectRooms`, `SimulationRuns`, `McpServer` and `SimulatedNodes` |
| `ResourceProofs` | proofs about `ResourceTree`, `ResourceRecord`, `PageOrder` and `LiveView` |

### Command bus

`CommandBus` has one variable per field that matters: `status` of the hash,
`entry` and `pos` of the stream, `checkMap` for the check codes, `caller`,
`codeOf` and `late` for the callers, `pc`, `msg`, `recovered`, `verdict` of the
worker threads, `hpc`, `hreq`, `hcode` of the callback. One step is one Redis
command or transaction, because that is the granularity at which processes
interleave: `resolve_check_code` is three (`LookupCheckCode`, `CompleteAcked`,
`DeleteCheckCode`), `_process` is ten. The Lua scripts and the `MULTI` of
`enqueue_command` are atomic in Redis and are one step each. `Fault` bounds
crashes and Redis failures; a lost reply to `enqueue_command` is a fault of its
own, after which the caller reports a failure although the command will run.

Time is abstract: deadlines, time-outs and the ten seconds after which an
entry can be claimed pass at any moment, which includes every order that the
real durations permit. A worker reads and claims only while its runner is connected
(`online`, changed by `Connect` and `Disconnect`). `RecordExpires` is the one lifetime whose
relation to others the code relies on: `MQTT_COMMAND_RESULT_TTL` is longer than
any deadline and any check code, so a hash goes only when they have gone. The
broker and the devices are external; a device may execute, answer late or never.

`CommandRequest` is what a caller may rely on: at most one hand-over, a single
terminal status, "nothing was sent" only when nothing was, and "ok" only for the
acknowledgement that was asked for. `ImplementsRequest` states that `CommandBus`
implements it, with the status mapped to `phase`, `sent` to `sends` and the
caller's state to `answer`.

### Connection

`MqttConnection` keeps the five shared fields, the lock, the step of the main
thread (`connect_async`, `stop` and `reconnect_async` step by step), and for
each client its network thread, its session with the broker and the callback in
progress, whose check and three writes are separate steps. Paho guarantees one
callback per client at a time and joins the thread in `loop_stop`; so does the
model. The final `stop()` of the process is the reload path without its second
half. `publish_wait` holds the lock from its check to the end of its wait.

### Runner and configuration

`MqttRunner` has explicit time, because the lease is about durations. Every
duration is a constant: the configured ones (`TTL`, `PublishLimit`, `JoinLimit`,
`RenewEvery`), and `LoopLimit`, `RedisLimit` and `CloseLimit`, which are assumptions
on Redis, the database and Paho: `loop_stop` joins the network thread without a
bound. A tick is refused while a step would exceed its limit. One pass of the main
loop begins up to `MaxReloads` reloads without a look at the time (`BeginReload`);
each waits for the lifecycle lock (`lock`), then swaps the client (`reload`). The stop
sequence joins the worker (`stop`), waits for its publish (`halt`) and closes (`close`).
`pub` is the time left to the publish that holds the lifecycle lock, and
`batch` what the worker has claimed but not begun. The worker here is the one
of `CommandBus` with everything left out but its use of the lock and of time.

`SingleRunner` is about clients: of two runners at most one has a client that may
be connected. It holds under

    InTime == TTL > RenewEvery - 1 + LoopLimit + MaxReloads * (PublishLimit + CloseLimit)
                      + RedisLimit + StopLimit + PublishLimit + CloseLimit

The program does not see to `InTime`, and with the default settings it is false:
ten reloads in one pass, each behind a PUBACK that takes its two seconds, outlast the
lease of 20 s (`runner_overrun`). `CommandBus` has a constant `SingleOwner`, that at
most one worker thread is alive. This is more than `SingleRunner`: a worker
whose join has timed out may live on after the client has gone (`release`). It can
publish nothing then, but it answers and deletes entries, which is what
`runner_stop_refuses` shows. So the theorems that have the hypothesis `SingleOwner` are about
deployments in which both `InTime` holds and the join does not time out.

`ConfigReload` follows a version number from the row (`CfSave`) to the client of
the runner that has the lease. A reload request is a hash (`cfStatus`) and an
entry of the control stream (`cfEntry`); `CfReadControls` takes what is new and
what another runner left pending, `CfStop`, `CfReconnect`, `CfComplete` and
`CfAckControl` are the steps of handling one. `CfPoll` compares fingerprints
every thirty seconds, and `CfRetryConnect` repeats a start that failed. Some
versions are unusable: they cannot be loaded or started. The lease changes hands
at any time (`CfLapse`), the hash of a request expires, Redis fails in between.

### Inbound messages

`InboundDelivery` has the broker's session (`ibBroker`, one connection, a window
of unacknowledged messages, redelivery after a reconnect), the receivers, which
are network threads of runners, and what they change: rows (`ibStored`, copies
counted), `last_seen`, dead letters, and the requests that were told of a device's
answer (`ibResolved`). A handler reads the server's time and looks its resource
up (`Accept`); the heartbeat and the row are one transaction; the check code is
resolved in `on_commit`, before the ACK. Each of the steps can fail as it can in
the code: the handler refuses or the database fails (`OnMessageFails`), the
dead-letter stream does not answer and the message stays unacknowledged, an ACK
goes to a connection that is gone. `last_seen` starts in the future for the
device, which is what the correction in `update_heartbeat` is for.

### Control loop

`ControlLoop` is one scheme: the two flags and `last_run_time` of its row, the
transaction that holds the row lock and how far its tick is, the scheduler
thread, and an edit that has read the row. `age` is the time since
`last_run_time`; it stops at `Old`, beyond which the code cannot tell ages
apart. `LockRow` is `run_control_scheme_locked` with `due_at`: it looks again at
what `ListSchemes` saw `lag` ago. `Save`, `MarkError` and `Rollback` are the
ends of a tick; a save that fails leads to `MarkError` in the same transaction,
and a failed commit to `StopScheme`, which writes without a lock of its own.
`unspent` and `wanted` are history variables. Edits are in `EditSpec` only,
because the finding below makes every property about flags fail with them.

`PidController` is one tick of `pi_step` or `pid_step` (PI is PID with
`Kd = 0`) against a process that moves the error anywhere in `Errors` between
ticks. Values are integers instead of floats.

`SwitchedOutput` is a scheme whose actuator is switched: by the sign of the error
with a dead band (`on_off_step`), or from the output of PI and PID by a threshold
or a pulse width (`_resolve_command`). `swOn` and `swPhase` are what
`runtime_state` keeps between ticks. A tick may be a dry run, which saves and does
not send, or be rolled back after the command has gone out; `swTrue`
records that neither has happened. `swRecent` are the last regular ticks, as many as
make a period. The settings take `pwm_period` from the sampling interval
when it is not given; a period is then one tick, and any positive output is on.

### Automation rules

In `RuleExecution` an executor is the scheduler thread or a web request. `exec`
has its phase (`acquire`, `start`, `wait`, `join`, `reap`, `term`, `kill`,
`release`, `done`), the time left to the wait it is in and the `slack` it may still lose
between waits; `lock` is the Redis key with its time to live,
`Timeout + TermGrace + KillGrace + Margin`; `child` is the process: whether it
has called `setsid`, told so, forked descendants, ended. The parent knows of the
session by the ready message (`exec[c].group`) or by the shared flag
(`child[c].group`), in any order relative to the deadline. `strays` are
descendants of a child that never got a session, which no signal reaches.
Executors are killed in the middle (`ProcessEnds`) and answers of Redis are
lost; then the key belongs to `Lost` until it expires. `row` has the flags that
launch, stop and the scheduler's saves write; the scheduler's pass works on the
batch it has listed.

`BoundedCapture` is one of the two files into which the child writes what the script
prints or logs. A byte of `cpFile` is its number in all that was printed, 0 for the
marker. `os.write` may write a part (`CpWriteText`, `CpWriteMarker`) and may fail;
the child may be killed after any byte. The parent reads up to its own limit
and keeps the log records that are whole lines. An exception is reported
through a pipe, whose limit `CpErrorSize` is compared with.

### Pages, projects, folders

`LiveView` has two writers that commit a row and send a notification to the
channel group, a consumer that joins the group, reads a snapshot and forwards,
and a page that applies the frames and the answers to its REST request in the order they
arrive. The consumer drops the state of a device that was not in its
snapshot when it handles the notification (`Replaces`). `lvLost` and `lvLate` record
which lag the code accepts.

`ProjectRooms` has requests in two steps, what was validated and the save of the
whole row, and deletions that cascade or are protected as in `on_delete`.
`ResourceRecord` has edits, and checks of who is online, in three steps: what was read, the
look of `save()` at the id in the database (`RrLookUp`), and the write, of every
column by an edit (`RrWrite`) and of a few fields by a check (`RrTouch`). Reports
and deletions come between.
`ResourceTree` has the same two steps for folders, with the walk up the tree in
`ValidateFolder`. `PageOrder` reads the order of a folder, then the rows, then
writes a number into each; between the three anybody creates, moves, deletes or
reorders (`ReorderListed` is a complete reorder by somebody else), and edits:
`BeginEdit` reads a row, `SaveEdit` writes every column, the folder that was asked
for and the number that was read.

`BrowserSession` has the stretches between two awaits as actions, as JavaScript
runs them. `bsShared`, `bsRefreshing` and `bsQueue` are the module-level variables
of `api/index.js`, which outlive a logout; `bsBehind` are the requests that it leaves
in the queue. `bsWs` has the refs and timers of one `useWebSocket()`.

### MCP server and simulation

`McpServer` has calls that are coroutines: preview, execute, login, send, refresh,
retry. A token is what it expires at and which process signed it, `mcUsed`
is `_used_nonces`, and `mcDone` counts what the platform carried out.

`SimulationRuns` has, for each run, its row, its process, the request that starts
it, the thread that watches it and the thread that will kill it, and the life of
the web UI, which shuts down, dies and recovers. `SimulatedNodes` has the
`handle_command` of all fourteen classes as a function from the message to the
sequence of its steps, assignments and `publish_status`, and the threads that carry
them out one by one: network thread, `on_tick`, and one per `high_all` or `low_all`.

## What is checked

Every run is a `.cfg` with the module named in `PROJECT.json`.

| Run | Instance | Checks |
|---|---|---|
| `bus_safety` | two requests to two devices, both waiting for the device; one code that may be drawn again; one fault | no second publish (`AtMostOncePublish`); a failure that says "not sent" is true (`DefiniteFailureUnsent`); success is genuine (`OkIsGenuine`); no entry vanishes without a result (`NoSilentDrop`); a late answer of one device never confirms a command to the other (`AckFromTarget`); `SentInStreamOrder`; `ImplementsRequest` |
| `bus_liveness` | one request with and one without a device acknowledgement, hashes that expire, one malformed entry, one fault, a broker that comes and goes | the safety that expiry leaves intact (`SafeWithoutRecords`), and every entry is settled and deleted if the broker stays reachable in the end (`EntrySettles`) |
| `runner` | two runners, two reloads in a pass, the shortest durations, TTL 12, for which `InTime` holds just so; three clients, four callbacks each | `SingleRunner`, `Takeover`; fields agree with the session when nothing is in progress (`FieldsAgree`); one network thread (`OneLoop`); a publish keeps its client (`PublishOnCurrentClient`); no wait in a circle (`ReloadReturns`) |
| `runner_overrun` | the default durations in seconds, ten reloads in a pass | **violation** |
| `runner_stop_refuses` | the default durations in seconds | **violation** |
| `control_loop` | interval 2, gap 2 intervals, lag 2 | no command after a disable or a stop (`DisableHolds`); `TimeIntegratedOnce`; `Driven` |
| `control_edit` | the same with edits | **violation** |
| `pid_windup` | `Kp` 1, `Ki` 1, `Kd` 3, output 0 to 4, errors −1 to 3 | **violation** |
| `rules` | one rule, the scheduler and one web request, one killed process, margin 2 of which 1 is used | `SingleFlight`; nothing is left behind when the lock is given back (`CleanedBeforeRelease`); `PolledRuns`; `LockFreed` |
| `platform` | ten parts, see below | one to three properties of each |
| `scheme_cascade` | the rooms alone, four changes | **violation** |
| `sessions` | two requests and a socket, two expiries of tokens, one outage; two calls of the MCP server, one confirmation token with a lifetime of one second, two starts; two runners, one reload request, three versions of which one is unusable, one fault | `RequestsSettle`, `Reconnects`, `ConfirmedOnce`, `AppliedIsNew`, `ConfigApplied` |

`platform`, `sessions` and `runner` put parts that share no variable into one run: the
initial state picks a part, and only this part moves. The run explores what separate
runs would explore, one after the other. `bus_safety` exchanges its two requests
together with their devices as a symmetry, and `platform` its two receivers,
writers, administrators and users, which have the same names in every part. The parts of `platform`:

| Part | Instance | Checks |
|---|---|---|
| inbound | three messages, one per handler, one of which is always refused; two receivers; window 1; copies up to two | `NoInboundLost`, `ResolvedIsStored`, `HeartbeatNeverBack` |
| view | two writers, two rows, one lost socket | `NoGap` |
| rooms | two projects, two rooms, a sensor and a device, two administrators, three changes | `SchemeProtected` |
| tree | three folders, one resource, two users; folders and the resource are moved and deleted | `FoldersReachable` |
| simulation | two runs, two starts of the web UI | `RunIsShown` |
| nodes | all classes, two commands, values on both sides of every limit | nothing of its own: that a node echoes a code only after the last assignment is proved (`NodeEchoedIsCarriedOut`) |
| order | three resources on pages of two, one reorder and one edit step by step among others | `PageOnly` |
| capture | a file of four bytes and a marker of two, characters of one or two bytes, three writes of up to three characters | `CaptureHonest`, `LogsWhole` |
| record | two ids, two topics, two users, one report | `TopicsFollow` |
| switch | a dead band of one, errors −1 to 1, an output of 0 to 2, a period of three regular ticks, ticks of half length between them | `PwmShare`, `Hysteresis` |

`PROJECT.json` has, for every property of a passing run, a mutation of one
definition (an operator called *Mutant* in the module) under which TLC finds the
property violated.

### What the properties leave out

Some hazards end in behaviour that the code has and nothing in the repository
forbids. The properties say so in their statement, and the models contain it:

* A killed executor of a rule leaves its child behind; `SingleFlight` speaks of
  what living executors have. Descendants of a child without a session survive.
* A scheduler pass runs a rule once more that was stopped after the list was
  read, and its save overwrites a launch made meanwhile.
* Two folder moves that are validated before either is saved make a ring of
  folders. `FoldersReachable` excludes just the case that makes one: a move is saved
  after another request has moved a folder on the way its validation had walked
  (`fdOverlap`). All other overlaps are in it.
* Two simultaneous reorders write back each other's old numbers, and so does an edit
  that is saved after a reorder; `PageOnly` speaks of a reorder during which nobody
  saved another reorder, or an edit with an older number than the row had. Edits
  that give back the number as it is, and those that move a row, are in it.
  An edit that inserts a deleted row again brings back the old key; in `PageOrder` it is
  a new resource.
* Two edits that both rename a sensor or device leave topics with an id that it does
  not have; `TopicsFollow` speaks of rows without such a crossing (`rrCrossed`).
  An edit writes back the `last_seen` that it has read; `ReportsKept`
  leaves this out (`rrOverwrote`), and the next report repairs it.
* After a dry run or a rollback the saved state of an on-off scheme is not what was
  sent; `Hysteresis` speaks of ticks that are both saved and sent.
* A REST snapshot that arrives late sets a page back until the next sample
  (`lvLate`); a notification that the channel layer drops is not sent again
  (`lvLost`).
* A start of a simulation run that the end of the web UI cuts off leaves a
  process that no row shows (`smLost`); stopping a run whose pid is still 0
  signals the web UI's own process group.
* A restarted MCP server with a configured secret has forgotten the used nonces.
* `stop()` of a socket during its token refresh, followed by `start()`, leaves a
  second socket open.
* The refreshes of tokens have no time limit, and a request that waits for one has
  none yet. `RequestsSettle` and `Reconnects` are conditional on refreshes that end
  (`BsRefreshesEnd`, `BsSocketWaitsEnd`).
* A request queued behind a refresh that fails stays unsettled. When the page is
  reloaded by the redirect to the login it goes with it; after a logout, a
  route change in the same page, it stays (`bsBehind`) until a later refresh succeeds.
* A rule that was stopped because a manual execution was under way when it was
  due, or whose launch was overwritten by the save of its flags, is not polled;
  `PolledRuns` speaks of rules that stay launched.
* A check code that is drawn again for a second command to the same device is
  excluded by the hypothesis `FreshCodes` of the theorems; the run has two devices.
* After an outage longer than `MQTT_COMMAND_RESULT_TTL` a recovered worker
  finds no hash and reports `expired_before_publish` for a command that may have
  been sent; `DefiniteFailureUnsent` is checked with hashes that do not expire,
  and `SafeWithoutRecords` states what remains.
* With several reloads in a pass, or a long PUBACK time-out, the main loop comes to
  its renewal after the lease has ended; `SingleRunner` is about durations for which
  `InTime` holds, and `runner_overrun` shows that the defaults are not among them.
* `reset_volume` of a totaliser between its read and its write is lost.

### Why these bounds

* Two requests are enough for order, for reuse of a code and for a batch; each
  property of the bus speaks of one or two requests. One fault gives a crash at
  any step followed by recovery by a new thread; with a thread per restart the
  worker set is one name that is started again. In `bus_safety` both requests
  wait for the device, so commands without a device acknowledgement are in
  `bus_liveness` and in the proofs. The proofs lift every bound.
* Three clients give a first connection and two reloads, so that an old
  client's callback can meet the second reload; four callbacks allow connect,
  loss, connect and loss.
* For the lease only sums of durations matter. `runner` has every
  duration at least once as small as it can be and still distinct, and a TTL one
  larger than the sum, so that any step that takes longer than the model allows
  shows. `rules` does the same for the lease of a rule: a lock without the
  margin or the grace times is found too short at once.
* In the control loop `Old` exceeds every comparison the code makes, so larger
  ages add nothing.
* Three messages give one per handler, a redelivery behind a new message, and a
  dead letter among stored ones; two receivers a takeover; one unit of time and
  of skew tell earlier, later and too far in the future apart.
* Three folders are the smallest tree with a ring through a third one; three
  rows on pages of two have an order before, on and after a page. One of the three,
  in the middle, is edited step by step (`PoEdited`); the theorem has any set of them. In `rooms` a
  move, an edit and a deletion are three changes, and the finding needs four.
* A file of four bytes takes two characters of two bytes and is cut inside a third;
  with a marker of two bytes a kill can leave none, half or all of it.
* Two ids and two users are what it takes to rename twice across each other.
  Three regular ticks in a period, with ticks of half length, give six
  phases, of which three never occur with regular ticks only.
* Two expiries let a token expire again after a refresh; three versions let
  an unusable one lie between two good ones.

### Fairness

* Bus: the worker thread steps and is restarted; it reads and claims while it is
  connected (its loop does nothing else). Callers stop waiting, because `wait_result`
  has a deadline. Connecting is not fair: the broker may stay away, and then nothing
  settles. `EntrySettles` is conditional on `BrokerReachable`, that a living worker is
  connected from some time on. Nothing is assumed of what the broker does with
  commands, nor of devices, Redis or handlers.
* Connection: callbacks and publishes end (the code waits with time-outs). The
  main thread is strongly fair: the lock is not fair in Python, but the worker
  releases it for at least a Redis round trip between two publishes.
* Runner: time goes on, strongly, since a step that has used up its limit must end
  first; main threads step; for `Takeover`, Redis does not lose the answer to every one
  of infinitely many attempts.
* Control: threads and time go on; the scheduler does not die in every pass
  and the database does not refuse every lock.
* Rules: the scheduler's pass, the executions and time go on; a script need not
  end, and nobody need launch or stop anything.
* Page: a request that was sent ends, if only by the client's time limit, sockets
  open or fail, timers fire, and an outage is over some day. The end of a refresh is not
  fair, for it has no limit; the properties are conditional on it.
* Configuration: the main loop goes on and containers are restarted. The poll is
  strongly fair, since its timer comes up again however often the loop is busy
  with a request when it does.

The parts of `platform`, and the MCP server in `sessions`, are checked for safety
only.

### Deadlock

`runner_overrun`, `runner_stop_refuses`, `rules` and the control runs are checked for
deadlock. The bus stops when every request is settled, the connection in `runner`
when the bound on clients is reached, and the parts of `platform` and `sessions` when
their bounds are, so there the check is off.

## Findings

Each is a run in which TLC violates what a document or a comment states.

1. `runner_stop_refuses`: the worker goes on with its claimed batch after
   the join has timed out; the client is gone, and the rest is answered
   `broker_unavailable` and deleted (`mqtt_command_bus.py:766` against the release
   notes 0.11, line 55).
2. `runner_overrun`: one pass of the main loop carries out every reload that it
   has read, each behind the worker's publish, before it renews. With the default
   times the lease ends meanwhile, another runner connects, and the first is still
   connected too (`mqtt_runner.py:184` against the comment of
   `acquire_runner_lease`, `mqtt_command_bus.py:614`).
3. `control_edit`: PUT and PATCH of a scheme save every column of a row that was
   read without a lock; a disable in between is undone and the scheduler drives
   the device again (`automation/views.py:370` against `project_guide.md:329`).
4. `pid_windup`: a negative derivative lets `pid_step` accept an integral beyond
   the limits; when the derivative is gone the output is saturated, the integral
   is frozen by the saturation, and the output stays at its maximum for ever
   although the error asks for less (`controllers.py:92` against 83).
5. `scheme_cascade`: a member of a scheme is moved to another room of the
   project, after which the old room can be deleted and takes the scheme with it
   (`projects/serializers.py:45` against the release notes 0.10, line 208).

## What is proved

All theorems hold for every value of the constants that satisfies the module's
`ASSUME` and the hypotheses named here.

**Command bus.** `WellFormed` (types, which variables of a thread are set in
which step, where a verdict comes from) is inductive, and every other invariant
rests on it. None of the properties is inductive by itself:

* `BusNoSilentDrop` adds `Settling`: a request with a terminal status, and one
  that a worker is about to acknowledge, has been settled.
* `BusOkIsGenuine` (hypothesis: check codes are fresh) needs `CodesOK`, that a
  check code leads to one request and that whoever echoed it has executed it, and
  `Genuine`, that an acknowledged status, written or about to be, is backed by
  the broker or the device.
* `BusAckFromTarget` needs no hypothesis: `AckBacked` says that the message the
  callback thread works on carries the code of the request's payload and comes
  from its target. It stays true when a code is drawn again, because a code is only drawn for a
  request that has none yet.
* `BusAtMostOncePublish` (hypothesis: `SingleOwner`) needs `OwnerOK`, that the
  entry in progress is pending under the one live worker, and `SendingOK`: what the
  status and the worker's step say about the command having been sent. A request
  that was sent and whose hash expired is late, so the deadline check stops it;
  that is why a second publish is impossible even then.
* `BusTerminalIsFinal` (both hypotheses) needs `FinalOK`: the two steps that
  write a status without comparing it never meet a terminal one.
* `BusDefiniteFailureUnsent` (`SingleOwner`, hashes do not expire) needs
  `UnsentOK`.
* `BusSentInStreamOrder` (`SingleOwner`) needs `OrderOK`: behind an entry that is
  new, or that the worker has in hand for the first time, every entry is new.
* `BusSafeWithoutRecords` (`SingleOwner`, fresh codes) puts three of these
  together without the hypothesis about hashes.
* `BusImplementsRequest` (all three hypotheses) combines them with `PromiseOK`:
  each action is shown to map to a step of `CommandRequest` or to a stutter.

**Connection.** `ConnectionInv` says for each step of the main thread which of
the fields have been reset, which threads run, and how far a callback has
written. `FieldsAgree`, `OneLoop` and `PublishOnCurrentClient` follow for any
number of clients and callbacks.

**Runner.** `RunnerIsSingle`, if `InTime`: two runners never have a client at the same
time. `RunnerInv` says that whoever has one holds the lease (`Covered`), and that
its remaining life exceeds what the runner may still spend: in its step, in the
reloads that this pass may still begin, and in all that follow up to the close of the
client. The theorem says nothing of a worker that outlives its client.

**Control loop.** `LoopInv` is inductive with edits included: the time that is
not integrated yet suffices for the tick in progress and the next one, and a row
that an edit has read is as good as the committed one. From it
`ControlTimeIntegratedOnce` and `ControlStatusAgrees`, for `EditSpec`. Without
edits `EnabledInv`, that a scheduled tick holds the lock of an enabled row, gives
`ControlDisableHolds`, and the second look at the clock `ControlSpaced`.

**PI and switched outputs.** For all non-negative gains, limits that admit zero, errors and time
steps: the integral share stays within the output limits
(`PiIntegralBounded`), and no tick holds the output at its upper limit while the
error asks for less (`PiNotHeldAgainstError`). The argument is an invariant of
the sum that needs the sign of the proportional term; the derivative breaks it.
The hypothesis that zero is a possible output is needed: the integral starts at
zero, and with `out_min > 0` and a small error it never gets started.

`SwitchHysteresis`, for every dead band and every sequence of errors: `SwFollows`
says that, while all ticks were sent and saved, the state is the last
command and the error at the last switch was beyond the band on its side; a
switch to the other side then crosses the band twice. `SwitchPwmShare`, for every period, step and
output: `SwCounts` says that the phase is a rest below one step beyond
step `k` of the period, and that the last regular ticks were at the steps before
`k`, one each, around the end of the period. The steps at which the output is on are the
first `c` of the period (`SwBeginning`, with the multiples of the step below
the duty counted in `SwMultiples`), and the ticks of a period hit
each step once, so that `c` of them are on (`SwOnSteps`: the pigeonhole
principle in both directions). What is on and the share differ by
less than one tick. That the rest can be any is why the theorem also covers the
time after late ticks.

**Automation rules.** `RuleSingleFlight` and `RuleCleanedBeforeRelease`, for any number
of rules and requests and all durations with a delay below the margin. `RuleInv` has
two parts per executor. `LeaseHeld`: an active executor owns the lock, whose
remaining life exceeds the time left to its wait, its slack, and the grace times
of the phases still to come; every change of phase spends one of these terms.
`ChildHeld`: what may be alive in which phase, and that the session is known
before the phase in which it is signalled for the last time.

**What a rule prints.** `CaptureIsHonest`, `CapturedLogsAreWhole` and
`CapturedReportFits`, for all limits and lengths. `CpShaped`: the file is the first
bytes that were printed up to the limit, and what follows is the marker,
which is there only if more was printed than the limit. `CpPhased` adds, for
each step of the writer, how much of the file and of the printed bytes its counters
stand for, so that a child killed at any byte leaves a file of that shape.
`CpLined`: each record ends at least two bytes after the one before, so that a
file cut in the middle holds the first records and a part of one. The
report fits because its parts are cut to lengths whose escaped form is below the limit
of a message.

**Inbound.** `InboundNothingLost`, `InboundResolvedIsStored` and
`InboundHeartbeatNeverBack`, for any number of messages, receivers and
redeliveries. `PlaceFound` says that a receiver that is about to resolve has
stored its message and that one that is about to acknowledge has stored it or
made it a dead letter. The heartbeat needs no order of the receivers: the
conditional UPDATE decides by what is in the row.

**Configuration.** `ReloadAppliedIsNew`. `ReloadHeld`: a request that a runner has in
hand was made, so the version it asked for is fixed; a runner that connects has
dropped its client, and one that reports has none or one that is at least that new.

**Projects.** `ProjectSchemeProtected`. `RoomsInv`: whatever was validated names a room,
and a scheme has a room, a project and two members. A room or project that takes
the scheme along would take its members too, which the scheme protects.

**Resources.** `FoldersStayReachable`, for any number of folders and resources: every
resource is in a folder that exists or in none, and from it, as from every folder, the walk up
reaches the root. That the walk ends is not inductive by itself: `FdInv` says that there are numbers
that fall from every folder to its parent, and that a request that will move a
folder knows a set of folders, closed under parents, with the new place and without the
folder. When it moves, this folder and everything off that set are numbered
higher (`FdMoved`). From numbers to the walk that the code makes, which gives up
after as many steps as there are folders, leads `FdRankEnds`: the walk does not meet a folder twice,
and the pigeonhole principle ends it. No induction is used; where
one is needed, `LeastNatural` gives a least counterexample.

`RecordTopicsFollow` and `RecordReportsKept`. `RrAsked`: a request that is under way has
read a row whose topics followed its id, what it will write has the topics of
what it read until `save()` has looked, and follows the new id afterwards.

`OrderPageOnly`. `PoKnown`: the numbers that a request holds are distinct, and order two rows
as the folder does unless both are on its page. Creating, moving and deleting
change no number of another row, and an edit none if it writes back what is there;
who writes other numbers makes the requests under way stale (`PoOutdates`).

**Live view.** `LiveViewHasNoGap`, for any number of writers and rows. `LvSeen`: while the
consumer hears of an entity, the last frame on the wire about it has the newest row,
and when there is none a live page shows this row. It is kept by appending a
notification (`LvAppended`), by the snapshot that the consumer puts in front
of what it has already received from the group (`LvPrepended`), and by taking a frame off (`LvTaken`).
`LvBounded` keeps an overtaken notification from being newer than the row, and `LvDeaf`
says that a device that became a member after the snapshot is among the lost ones.

**Simulation.** `NodeEchoedIsCarriedOut`: no thread has an assignment left to make of a
command whose code was echoed. `NdHandlers` goes through the fourteen handlers: in each,
`publish_status` is the last step. `NdInv` adds that two threads never work on one code, so that
an echo of one says something about the assignments of the only thread that makes
them. `SimulationRunIsShown`. `RunHeld` says which row and process a
start can be at, that a watching thread only ends a row when the process is
gone, and that nothing of a request survives the web UI.

**MCP server.** `McpConfirmedOnce`. `TokenHeld`: a token under preview belongs to one
call. `OnceHeld`: a token that was done, or is being executed, is spent, and at
most one call has it pending. A nonce is forgotten only when the token has
expired, so the two clocks agree at the last second.

Every safety property that a passing run checks is among these theorems.

**Only model-checked:** the liveness properties (`EntrySettles`,
`ReloadReturns`, `Takeover`, `Driven`, `PolledRuns`, `LockFreed`,
`RequestsSettle`, `Reconnects`, `ConfigApplied`), because the prover has no rules
for fairness and `ENABLED`. The five violations are TLC's.

## Abstractions

* Payloads, command templates, topics, device names and logging are left out; a
  message is what its receiver compares.
* Redis and the database are linearizable and lose nothing but what expires;
  failures are lost calls and lost replies. The dead-letter stream is trimmed
  at its maximum length, which the model does not reach.
* A runner's clock does not jump, and no step takes longer than its limit; `LoopLimit`,
  `RedisLimit` and `CloseLimit` are limits that the program itself does not set.
* One scheme per instance of `ControlLoop`: schemes share only the scheduler
  thread, whose delay is `lag`, and process locks that order ticks of one
  process. Creation and deletion of a scheme are in `ProjectRooms`.
* A pid is not reused; a confirmation token cannot be forged.
* An edit of a sensor or device writes back its id, topics and `last_seen` in
  `ResourceRecord`, and its `sort_order` and folder in `PageOrder`; no property
  relates the two groups of columns.

## Not modelled

* Presentation: the views of the browser, the layout of diagrams, read-only
  analysis and queries, plugins.
* The mapping of an output to the value of a parameter: arithmetic without state.
* The restricted environment in which a script runs, and the
  accessors it calls: what a script computes is arbitrary in the model.
* Accounts, permissions, routing and settings: wiring of the framework; settings
  appear as constants.
* Editing of simulation groups, import of manifests, the generated values.
* Clean-up and plugin commands: one-shot deletions by age.
* Firmware and deployment.

## Plan

Next, in this order: the composition of `InboundDelivery` with the reload of
`MqttConnection`, which decides when redelivery happens; the safety facts that the
liveness properties rest on, as theorems (what a lock without an owner, an
enabled scheme or an unfinished entry always keeps possible).
