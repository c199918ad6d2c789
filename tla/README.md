# Verification of the video-surveillance manager

TLA+ models of the manager in `src/` (Django, Celery, Redis, PostgreSQL and a
handful of long-running commands), the TLC runs that check them on small
instances, and TLAPS proofs of the invariants that matter most.

The system has no test suite. What can go wrong in it is mostly a matter of
*when*: several processes read rows, work for seconds, and save what they read.

## The system

`docker-compose.yml` starts: nginx; `django-http` (gunicorn, four workers) and
`django-asgi` (WebSockets); `celery-worker` (as many processes as the machine
has cores) and `celery-beat`; PostgreSQL and Redis; MediaMTX; the commands
`redis_event_bridge`, `notification_bridge`, `telegram_ack_poller`,
`snapshot_receiver` and `face_receiver`; the `event-stream-service`; and the main
`computer-vision` pipeline (the documentation speaks of sixteen of them; the
file defines one). Beat queues `orchestrate_cameras` and
`incident_manager` every 5 s, `patrol_controller` every 10 s, the collectors
every 30 or 60 s, and `central_check` every 30 s on a central node. Nothing
stops two executions of one task from overlapping.

PostgreSQL runs in autocommit (`config/settings.py:69-78`, no
`ATOMIC_REQUESTS`), so every query and every `save` is a transaction by itself.

### Inventory

| Component | State it keeps | Operations | Interacts with |
|---|---|---|---|
| Incidents (`incidents/`, and what other commands do to its tables) | tables Incident, IncidentLog; SiteEscalationLevel; the instances each process holds | create with deduplication; `incident_manager` pass: escalate, expire, notify, auto-resolve; acknowledge (REST, Telegram); false alarm; store the photo; edit the ladder; assign a site | rules create them; operators and Telegram close them; the snapshot receiver saves their photo |
| Notification rules (`notification_bridge.py`) | rule cache, preset cache, first and last detection of each rule and device, cooldown keys in Redis | take an event, capture a photo, try each rule, refresh, restart | events from Redis; creates incidents; sends messages |
| Escalation messages (`notifications/backends`) | none (Telegram's offset in the poller) | send, send with buttons, webhook | called by rules and passes |
| Camera health (`devices/tasks.py`) | Device.is_online and failure_count; keys fps_zero, fps_low, offline_since, pending_restart, each with a time to live | ping, count, request a restart | restarts the pipelines; the probe writes the rates it reads |
| Pipeline configuration (`devices/utils.py`, `config_generator.py`) | files, list of sources in Redis, containers | regenerate, restart | read by the pipelines and by camera health |
| Patrols and presets (`devices/tasks.py`, `ptz/`, `devices/views.py`, `devices/utils.py`) | Patrol; index, next move and lock in Redis; AnalyticsPreset; the active preset in Redis | turn to the next preset; an operator's moves, presets and regions; publish the preset the camera is at | ONVIF; both bridges read the active preset |
| Event stream service | tasks of the watchers | start and stop watchers, publish events | cameras, Redis |
| Central and its nodes (`central/`, `central_node/`) | Node, NodeCommand, NodeAlert, NodeMetric | telemetry, poll, result, mark silent nodes | HTTP with signatures |
| Device addresses and MediaMTX paths (`onvif_utils/mediamtx_api.py`, `devices/signals.py`, `devices/apps.py`) | Device.host, stream_uris, default profile; paths in MediaMTX; queued refreshes | edit, scan, delete; refresh on a changed device; ensure paths at the start-up, by command, in a regeneration | MediaMTX, pipelines |
| Frame streams and faces (`snapshot_receiver.py`, `face_receiver.py`) | receive buffers, areas seen, identity groups | cut frames out of a TCP stream, match and store | the pipelines |
| Live bridge (`redis_event_bridge.py`) | preset cache | filter and forward to browsers | Redis, WebSockets |
| Monitoring | MetricSnapshot | collect, prune to 200 | none |
| Views, drivers, the C++ pipeline | tables; none; GPU | forms; requests to cameras; inference | the above |

What makes them correct, and hard:

- **Incidents**: an incident is closed once, its columns agree whoever saves
  last, the audit trail explains its level and its closure, each level is
  notified once and not left early, the row names the last photo, and it is closed
  in the end. Hard because at least six processes read, compute and save, and
  because two of the saves write whole rows.
- **Notification rules**: a rule fires only after the presence it asks for, not
  while it is cooling, and not when it has been switched off; somebody who stays
  is noticed. Hard because time is measured when events are handled and not when
  they happen, part of the state is lost in a restart and the rest is not, and
  detections are lost while the bridge is disconnected.
- **Camera health**: a run takes a camera offline only after its failures (a
  start-up after one), the time of that is in Redis while its key lives, counters
  expire, and a camera that stays slow, or away with a time in Redis, leads to a
  restart. Hard because pings take long, so runs are late and overlap, because keys
  expire, and because a run may die between any two commands.
- **Pipeline configuration**: the number of a stream means the same device in the
  file, in Redis and in the probe. Hard because the devices are queried twice and
  the numbers written one by one, without a lock.
- **Patrols and presets**: one run at a time turns the camera, presets come in
  order and none is left out, and the regions passed on are those of where the
  camera is. Hard because the lock expires, calls fail or their answers get lost
  between a read and a save, and two caches of the active preset follow the camera late.
- **Event stream**: a device that is enabled is watched and one that is not is
  left; the camera's stream is cut into events wherever the chunks end.
- **Central and its nodes**: alerts match the status, silence is noticed, a
  command runs once, and its status tells what happened. Hard because requests
  are lost, late and killed, compare with what they read, and save a status before
  the alert that may fail.
- **Device addresses and paths**: addresses follow the host, a device the view
  deletes leaves no path (one the admin deletes leaves them all). Hard because
  sessions save whole rows, and tasks work from copies.
- **Faces**: counts are not lost (not modelled).

`PROJECT.json` lists every component and every hazard with its line.

## Modules

| Module | What it is |
|---|---|
| `Incidents`, `MCIncidents` | the incidents of one device and type, and all their processes; values for TLC |
| `IncidentLifecycle` | the abstract specification: opened once, climbs, closed once |
| `RuleEngine`, `MCRuleEngine` | the notification bridge's event loop for one device; values for TLC |
| `CameraHealth` | one camera under runs of `orchestrate_cameras` |
| `Pipelines`, `MCPipelines` | regenerations of the pipelines' files, numbers and containers; values for TLC |
| `Ptz`, `MCPtz` | a PTZ camera with its patrol, its operators and its active preset; values for TLC |
| `DevicePaths` | one device: its row, its addresses and its paths |
| `EventStream`, `MCEventStream` | the watchers of the event stream service; values for TLC |
| `NodeStatus`, `MCNodeStatus` | telemetry against `central_check` for one node; values for TLC |
| `NodeCommands` | the life of the commands of one node |
| `IncidentsProofs`, `RuleEngineProofs`, `CameraHealthProofs`, `PipelinesProofs`, `PtzProofs`, `DevicePathsProofs`, `EventStreamProofs` | theorems about these modules |
| `CentralProofs` | theorems about `NodeStatus` and `NodeCommands` |

How they fit together: a rule that fires (`RuleEngine`) creates an incident
(`Incidents`); `CameraHealth` decides when `Pipelines` regenerates, and `Pipelines`
restarts what `CameraHealth` measures; a regeneration also repairs paths, which is
`DevicePaths`; the preset that `Ptz` publishes filters the events of both bridges.
Each module keeps of its neighbours the steps that write what it reads, and leaves
them free to happen at any time: `RuleEngine` takes any event, `CameraHealth` has
a regeneration as one step, `Pipelines` has rows found online or offline at will.

In every module an action is one database statement, one Redis command (or
several that nothing else can tell apart), one request to a camera or a service,
or one step between two awaits. Operators named `...Slip` (in `Incidents` and
`RuleEngine`: named for the bug) are plausible errors of the definition that
follows them. No specification uses them; they serve to see that a property
notices the error. Variables called history record what happened and influence no
step: they state what a property needs to know of the past.

### Incidents

One action per database statement: a process that reads an instance, then saves
it, has a step for each, and everything else may happen in between.

| Variable | In the code |
|---|---|
| `row`, `born` | `Incident`: status, current_level, time since level_started_at, acknowledged_by (with acknowledged_at), whether resolved_at is set, the frame that snapshot names; time since created_at |
| `log` | `IncidentLog`, as the set of action and level of each incident |
| `notices` | messages sent for a level; the world outside, counted up to two |
| `levels`, `adding`, `assigned`, `edits` | `SiteEscalationLevel` of the site; levels the running `site_edit` has yet to create; `Device.site` |
| `at`, `todo`, `copy` | each execution of `incident_manager`: its place, the rest of its list, its instances |
| `bridge`, `human`, `receiver` | the notification bridge in `_create_incident`, each acknowledgement, the snapshot receiver |
| `frames` | history: how many frames were stored for each incident; each is named by its number |
| `disturbed` | history: the incidents two passes had in their lists at once, a whole save took back a level of, or a pass left between its decision and the entry |

| Actions | Code |
|---|---|
| `DecideToCreate`, `CreateIncident`, `SaveBridgePhoto` | `_create_incident` |
| `StartPass` .. `LogNotified` | `incident_manager`, `_process_incident` and what it calls |
| `StartAutoResolve`, `ResolveOverdue`, `LogResolved` | `_auto_resolve` |
| `SkipIncident`, `AbandonPass` | the exception handlers; the death of a worker (Celery acknowledges early, so the task is not run again) |
| `RequestAck`, `SaveAck`, `LogAck` | `incident_ack` |
| `PressAck`, `PressFalseAlarm`, `SaveFalseAlarm`, `LogFalseAlarm`, `Answer` | `telegram_ack_poller` |
| `MatchSnapshot`, `SaveSnapshot` | `_save_incident_snapshot`; it may name another frame than the bridge stored |
| `ClearLadder`, `AddLevel`, `CutEdit`, `AssignSite` | `site_edit` (`CutEdit`: it fails half way), `device_assign_site` |

Abstractions:

- One device, one incident type, one site. Switching between two sites and
  changing a level's timeout are not modelled; `site.is_active` is not consulted
  by the code.
- The entry `created` is written with the row. Its absence matters to nothing.
- The channels of a level are one send, and `notified` stands for
  `notified_user` and for the entry of a failure as well.
- The level of an `escalated` entry is the `to_level` of its detail.
- A deduplication hit, an acknowledgement answered with 400 and a crash of the
  bridge between two events change nothing and are no actions.
- A timestamp is the time elapsed since it, saturated at `AgeCap`; no comparison
  in the code tells two larger values apart (`TimeAssumption`).
- The Telegram button raises before it reads a row: see the findings.

### RuleEngine

| Variable | In the code |
|---|---|
| `active`, `cached`, `sinceRefresh` | `NotificationRule.is_active`, `_rules_cache`, the refresh loop |
| `queue` | events published to Redis and not yet taken |
| `at`, `event`, `todo`, `busy` | `_handle_event`: capturing, trying rules, acting on one |
| `first`, `last` | `_duration_first_seen` and `_duration_last_seen`, as elapsed times |
| `cooling` | what is left of the TTL of `notif:cooldown:...` |
| `hour` | the time of the day; a slower clock than `Tick` |
| `offFor` | history: time since a rule was switched off |
| `quiet`, `span` | history, on the camera's clock: time since the camera published a detection for a rule, and how long it has gone on doing so without a silence longer than `Lull`; an event carries the span at its publication and its age |

Each disjunct of `TryRule` is one way through the body of the loop in
`_handle_event` (lines 348-367): skipped, count started, still counting, cooling,
fired; then the incident and the message (`Deliver`). `FailRule`,
`FireUnchecked`, `RefreshFails`, `Restart` and `LoseConnection` are the failures. The
last is the error path of `_listen`: the bridge is `deaf` for `Retry`, then
`Reconnect`s; what is published meanwhile is lost and the counts stay.

A detection waits at most `MaxLate` = (`QueueCap` + 1) * `MaxBusy` for its rules to be
tried, and a silence of the camera that the bridge takes for one of `Gap` may last
`Lull` = `Gap` + `MaxLate`. What the code counts with its own clock is compared with
`span`, which is the camera's.

Abstractions: one device (the code's keys are per rule and device); an event is
the set of rules whose fields it matches, after the preset filter; what a rule
that fires does to incidents is the module `Incidents`. An event matches any set
of rules at any time. `SwitchRule` is the `is_active` of `rule_edit`.

### IncidentLifecycle

Each incident is `none`, `open` or `closed`, with a level that only grows, and an
open one is closed in the end. `Incidents` implements it (run `Attended`) with
status active as open and the other three as closed. `Climb` is allowed after the
closure because the code saves the level of an incident somebody has just closed.

### CameraHealth

The unit of time is the 5 s of the beat.

| Variable | In the code |
|---|---|
| `reach`, `stream` | the camera answers; the frames it delivers |
| `row` | `Device.is_online`, `failure_count` |
| `source`, `fps` | `deepstream:sources:*`: whether it has a source, and its rate |
| `count` | the keys `fps_zero` and `fps_low`: value and time to live, 0 for none |
| `since`, `pending` | the age of `offline_since`, which is forgotten after `SinceTTL`; what is left of `pending_restart` |
| `run`, `due` | executions of `orchestrate_cameras`, start-ups and sessions that save the row, with the copy each holds; those queued |
| `misses`, `gone` | history: failed pings in a row, time since the one that was enough |
| `apart`, `cold`, `lost` | history: no overlap, and no death between ping and save; a start-up took the camera offline; counters whose run died before EXPIRE |

`Start`, `Reached` or `Missed`, `Save`, `CheckRate` or `CheckAway`, `Regenerate` and
`Clean` are the body of the task in order. The commands that count are steps of their
own: INCR (`Increment`), EXPIRE of the first count (`Expire`), DEL of the last
(`Reset`) and the request (`Pend`); a worker may `Die` between any two. `Others` is a
restart that a run asks for because of another camera. `Regenerate` leaves the hashes
when no other camera is online either, as the code does without devices. `Boot` and
`Booted` are the check at start-up: it reads the row, pings once, and saves the
outcome without a time. `Scan` and `Scanned` are a view that saves the whole row;
`Probe` the rate the probe writes. One camera, one pipeline: how the sources of four
pipelines are merged under one index is not in it. The deletions of `Clean` are one
step.

### Pipelines

| Variable | In the code |
|---|---|
| `dev` | the rows: `deepstream_pipeline`, `is_online`, whether there are addresses and a profile |
| `config`, `shapes` | `config*.yml` of each pipeline; `config_nvdsanalytics.txt`, which all share |
| `redis`, `known` | `deepstream:sources:*`; `source_to_device` of each container |
| `container` | whether it is up and what it read when it started |
| `run`, `settled` | regenerations under way; history: the last one had nothing beside it |

`Begin` is the query for Redis, `Configure` the query and the files of the next
pipeline, `Clear` deletes its numbers and `Fill` writes them one by one (`left` is
what is still to write), `Docker` its container; `StopAll` a
regeneration without cameras. A query is a set of devices in the order of `Order`
(`Queried`); the number of a device is its position in that list. `run[r].mine` is
what the first query found for each pipeline, `Wanted` what the second would find
now. One instance for each pipeline; source ids start at 1. Shapes are not edited: a
device has some or not.

### Ptz

| Variable | In the code |
|---|---|
| `patrol`, `order`, `inHours` | the Patrol: deleted or `is_active`, `preset_order`, its schedule |
| `index`, `waiting` | `patrol:{id}:index`, `patrol:{id}:next_move` in the future |
| `lock` | `patrol:lock:{device.id}`: one per camera, which all its patrols share |
| `job` | runs of `patrol_controller`, with the row they read at their start and the index they read past the lock |
| `link`, `head`, `goal`, `saved` | the camera: does it answer, where it is, where it was told to go, the presets it holds |
| `row` | `AnalyticsPreset`: none, without a position, with the right one, or with an older one |
| `published`, `cache` | `device:*:active_preset`; the live bridge's copy |
| `last` | history: the last preset sent, its order, and whether the index was saved since |
| `disturbed` | history: `lapsed` when the lock lapsed under a live run, `forgot` when the index was deleted under one; `no` again when no run is past the lock |

`Read` is the query at the start of a run, `OutOfHours` the branch that resets the
index, with the lock or without; `TakeLock`, `Ask`, `Go` and `SaveIndex` are the rest.
`GoUnanswered` is a request that reaches the camera and whose answer is lost, and
`SaveIndexFails` a Redis that fails before or after the index is saved: both end in the
exception handler, and in `finally`. `Expire` is the 15 s of the lock, under a live run
too (ONVIF calls may take longer), whose `finally` then deletes whatever lock there
is. Operators turn the camera without any lock (`ptz/views.py`), so
`Move` to `GotoAndApply` may come between any two steps. `Publish` is
`get_active_preset_for_device`, where a row without a position is at distance 0
from everywhere; `Passed` is what `_filter_ivs_event` lets through.

One camera and one patrol: a second patrol of the same camera has an index and an
order of its own behind the same lock, and is not modelled. A view, and a publication,
is one step. When nothing fails, saving the index, the next move and the release of the
lock are one step too: nothing reads between them that the lock or the dwell does not
keep away.

### DevicePaths

| Variable | In the code |
|---|---|
| `row` | `Device`: there, host (with port and credentials), `stream_uris`, `default_profile_token` |
| `paths` | the source of each path in MediaMTX, transcoded and raw, by profile |
| `queue` | queued `refresh_device_streams` |
| `web` | views and admin forms, with the copy they hold and, between the two signals, what the row was |
| `task` | refreshes, the start-up thread, `sync_mediamtx` as a command line (`syncAll`) and as a command of the central (`syncOne`), regenerations |
| `missed` | history: the last refresh failed or could not be queued, or a save crossed another |
| `disturbed`, `removed` | history: a task overlapped the last deletion, or it half failed; the last deletion was the admin's |

`Open`, `Compare`, `SaveWhole` or `SaveColumns` are a session with the signals
around its save, `SaveUnnoticed` one whose refresh cannot be queued: the views have
saved the row by then, the admin's transaction is undone. `Clear` and `Delete` are
`delete_device`, `Remove` the delete of the admin, which leaves the paths; `Ask`,
`Store`, `ListHw`, `AddHw` and `EnsureRaw` a refresh, and the last three every other
task that creates paths. Addresses of the same host differ only by profile.

### EventStream

| Variable | In the code |
|---|---|
| `desired` | what `get_devices` would return |
| `task`, `conn` | the asyncio task of each device with its delay; its connection with boundary, chunk and buffer |
| `sent`, `published` | how far the camera is in what it sends; what went to Redis, the events of one step together |
| `up`, `restarts` | the refresh loop runs; restarts so far |
| `failed` | history: the events Redis refused |
| `off` | history: devices this process has cancelled |

The requests block, so a task runs alone between two awaits, and these are the
steps. What a camera sends is the constant `Flow`, any sequence of boundaries and of
parts' symbols, where a part begins with its Code (`PartsAssumption`) or, like a
heartbeat, has none; a symbol is named by its place in it. A chunk is a number of symbols.
The code appends to a buffer, takes off what lies before the last boundary and cuts
what is left from the front, never from the middle: the buffer is therefore what
the camera sent from after `kept` up to what was read last, and the events in it
are the codes between `kept` and the last boundary (`Last`). The events of one step
are published in the order of the buffer, with no await between them, and are one
element of `published`, a set. `publish` swallows its exceptions, so any of them may
be refused by Redis and are then in `failed`; the buffer is cut all the same.
`AttachEmpty` is a connection that ends without a chunk, which resets the delay.
`store_event` is left out.

### NodeStatus and NodeCommands

`NodeStatus`: `node` is the row with the age of `last_seen`, `alerts` the active
`NodeAlert` of each kind, `req` the telemetry requests and `check` the runs of
`central_check`, which may overlap; `SendTelemetry` to `RaiseAlert` are the view and
`update_node_status`, `ReadNodes` to `AlertOffline` the task. `RaiseAlertFails` and
`AlertOfflineFails` are the alert that cannot be created once the status is saved (its
message, the joined reasons, may be longer than its column); `Kill` and `KillCheck` a
worker that dies. `trust` is history: the last change of the status ran alone to its
end (`kept`), was cut short or overlapped (`doubtful`), or writers are overlapping
(`mixed`). That an operator resolves an alert in the admin is not modelled.

`NodeCommands`: `cmd` is the table and what the node did with each row, `poll` the
`command_poll` requests the central works on, `agent` the loop of `node_agent`,
`posts` results under way. A command's outcome is what the node did, `unsent` when
its executor returned and sending the result raised, which is reported as an error
(`ReportFails`). A poll the agent gave up goes on in the central. The list
a poll reads is a set of commands (`Oldest`), taken from the oldest on (`First`);
commands are numbered in the order of their `created_at`. No name of `NodeCommands` is
one of `NodeStatus`, so that `CentralProofs` can extend both.

## Runs

All bounds are constants and named in the modules.

| Run | Instance | Checks |
|---|---|---|
| `Attended` | 1 incident, 3 levels, ladders {}, {2}, {1,3}, {1,2,3}, one pass, one operator, the poller, one edit | `ClosureExplained`, `ImplementsLifecycle` |
| `Races` | 1 incident, 2 levels, two passes, operator, snapshot receiver, bridge with or without a photo: up to 2 frames | `TypeOK`, `RowConsistent`, `SnapshotKept`, `LifecycleKept` |
| `Disturbed` | 1 incident, 2 levels, two passes, one edit, one fault, photo saved late | `LevelExplained`, `NotifiedOnce`, `EnteredLevelNotified`, `EventuallyClosed` |
| `Loiterer` | 1 rule, duration 3, gap 1, cooldown 6, a queue of 1, events of up to 1, deaf for 2, timetable of the first hour, one failure | `TypeOK`, `FiresAfterPresence`, `PresenceNoticed`, `FiresWhileFresh` |
| `CameraHealth` | 2 runs, 2 failures to be offline, counters to 2 and 3, TTL 3, restart after 2, lives of 7 and 4, 3 changes, 1 late period | `OfflineIsTimed`, `CounterExpires`, `OfflineAfterMisses`, `LowRateRestarts`, `AwayRestarts` |
| `FrozenSourceRestarts` | the same | expects a violation, see below |
| `Pipelines` | 2 devices (a file with shapes), 2 pipelines, 2 regenerations, 3 changes | `EventsAttributed`, `ShapesOnTheirStream` |
| `Ptz` | 2 presets, one perhaps removed, orders <1,2> and <2>, 2 runs, 1 request, 1 fault | `OneMover`, `PatrolInOrder`, `EveryPresetVisited`, `SettlesOnPreset` |
| `DevicePaths` | 1 session, 1 worker, 1 runner, 2 addresses, 2 profiles, 2 edits, 1 fault | `NoOrphans`, `OnlySessionsRevive`, `FollowsHost` |
| `Events` | 1 device, 3 events of which one longer than the buffer, a heartbeat, chunks of 1 to 3 symbols, 1 restart | `PublishedInOrder`, `NothingLost`, `SwitchedOffStops`, `KeptWatching` |
| `NodeStatus` | 2 requests, 2 checks, offline after 1 period, 1 worker killed | `AlertsMatchStatus`, `SilentGoesOffline`, `ReportingLeavesOffline` |
| `NodeCommands` | 3 commands, polls of 2, 2 polls, 2 losses | `CommandsTypeOK`, `ExecutedAtMostOnce`, `StatusExplained`, `OldestFirst`, `EventuallyHandedOut` |

The types of `CameraHealth`, `NodeStatus`, `Ptz`, `Pipelines`, `DevicePaths` and
`EventStream` are in no run: they are parts of the invariants that are proved.

Why these bounds are enough. A race is between two processes over one row: each
kind of process appears with every other that saves the same columns, and twice
where it can overlap itself. Two levels give one escalation and one expiry, three a
ladder with a gap inside it. In the rules a duration of three units, a gap of one and
a delay of one let a silence fall inside, at, and beyond the gap and the lull, and let
three units of handling follow detections that lasted one; being deaf outlasts the
gap, and the cooldown a silence and the next duration. In `CameraHealth` `offline_since` outlives the restart and then ends while the
camera is still away. The counters of `CameraHealth` keep the
order of the code's limits (12 and 18 runs, a TTL of 36): the zero limit is below
the low one, and the TTL is reached exactly by runs on time. Chunks of up to three
symbols cut an event at every place, and the longest part overflows the buffer. In
`NodeCommands` a poll takes fewer commands than there are.

What the bounds leave out: no run has two incidents, so deduplication and the
newest-first choice are exercised by the theorems only; two devices appear in
`Pipelines` alone.

Where the code does not protect itself, a property states the exception, and what it
claims is that nothing else leads there:

- `NotifiedOnce` and `EnteredLevelNotified`: incidents that are `disturbed`. Two passes
  with the same incident, the bridge's save of the whole row over a level already
  reached, and a pass that fails between messages and entry do notify a level twice,
  or leave one out.
- `LifecycleKept`: only the two saves of whole rows open an incident again or take its
  level back, and only then, or after a disturbance, does a pass write a lower level.
  `ImplementsLifecycle`, the refinement, is checked where neither happens (`Attended`).
- `SnapshotKept`: a stored frame is replaced, at most once, when the receiver has read
  the incident before the bridge stored its photo; no other save changes it.
- `ClosureExplained`: no process dies between a save and its log entry (`MaxFaults` is
  0).
- `FiresAfterPresence`: shorter by `MaxLate` than the duration, and through silences of
  up to `Lull`, because the code's clock is that of the handling; the duration the
  documentation promises is violated (`LongPresencesOnly`, below).
- `OfflineAfterMisses` and `OfflineIsTimed`: until two runs, start-ups or sessions
  overlap, or one dies between a ping and its save (`apart`). A start-up may take a
  camera offline after one ping, and then there is no time for it (`cold`).
- `CounterExpires`: counters whose run died between INCR and EXPIRE (`lost`).
- `AwayRestarts`: a camera with a time in Redis that is not due yet. One that has none,
  taken offline by a start-up or away for more than a day, is never restarted
  (`OfflineRestarts`, below).
- `OneMover` and `PatrolInOrder`: from the lapse of a lock under a live run, or the
  deletion of the index under one, until no run is past the lock.
- `NoOrphans`: the admin's delete, and a deletion that overlapped a task or half failed.
- `FollowsHost`: a refresh that failed or was never queued.
- `AlertsMatchStatus`: the last change of the status was killed, failed to raise its
  alert or overlapped another. The next one that runs alone makes up for it.
- `StatusExplained`: a command that stays sent after a loss.
- `NothingLost`: events Redis refused. `KeptWatching`: devices switched on again in the
  same process.
- `EventsAttributed` and `ShapesOnTheirStream`: a regeneration that nothing disturbed.
- `SettlesOnPreset`: no row of a preset lacks its position; `EveryPresetVisited`: the
  camera holds the presets, or the patrol stays where it is.

`CHECK_DEADLOCK` is off in `DevicePaths`, `Pipelines` and `Ptz`: with their edits
and faults used up and everything settled these instances stop, where the program
would wait for the next request.

### What the documentation says and the code does not do

One is a run, in which TLC finds the behaviour: `FrozenSourceRestarts`. The README's
orchestrator restarts a pipeline when a source shows a rate of zero for a minute; the
probe writes a rate only for sources that had frames, so a source that freezes keeps
its last rate and is never noticed.

The other divergences met while modelling are definitions of the modules, and not
part of a run: each is violated when it is added to the configuration named
(`ExpiredUnattended` and `RestartsThoseWithCameras` as invariants, the others as
properties).

| Definition | Configuration | Documentation | Behaviour |
|---|---|---|---|
| `Incidents!ExpiredUnattended` | `Attended` | an incident expires on "timeout sin ack" | the pass saves `expired` over an acknowledgement made after its read |
| `Incidents!NeverReopened` | `Races` | `active` → `acknowledged` → `resolved` or `expired` | the photo is saved with all columns of an older instance, and the incident is active again |
| `Incidents!RefusedOnlyIfOver` | `Attended` | "Atender alerta" acknowledges | `select_for_update` outside a transaction raises, and the operator reads that the alert is over |
| `Incidents!ExpiresOnTimeout` | `Attended` | an incident expires on the last timeout | a pass in the middle of `site_edit` finds no levels and expires it |
| `RuleEngine!LongPresencesOnly` | `Loiterer` | a rule fires when the presence has lasted its minimum from the first detection | a short burst that the bridge works through slowly lasts long enough on its clock |
| `RuleEngine!CountsAgain` | `Loiterer` | after a notification the count is reset | it is forgotten, and no detection of a presence that goes on starts another |
| `CameraHealth!OfflineRestarts` | `CameraHealth` | offline for more than 120 s is a restart | a camera that a start-up took offline has no time in Redis and never gets one |
| `DevicePaths!PathsRepaired` | `DevicePaths` | a regeneration repairs the MediaMTX paths | a path that exists keeps its old source |
| `Pipelines!RestartsThoseWithCameras` | `Pipelines` | a regeneration restarts the containers that have cameras | without a pipeline named, only the main one |

Two more are plain from the code. A first pass that comes after the first level's
timeout escalates at once, so level 1 is never notified (`incidents/tasks.py:66`);
`EnteredLevelNotified` is about the levels above it. A block that crosses midnight,
`["22:00", "06:00"]` in the documentation of schedules, holds at no time
(`notifications/utils.py:16`).

### Fairness

Beat queues its tasks for ever, workers take what is queued, threads and event
loops go on, and requests end: that is the fairness of every module, and it is weak
unless said otherwise. Nothing is assumed of operators, cameras or faults.

- `Incidents`: time passes; each pass goes on and starts again; a ladder edit that
  began runs to its end. `EventuallyClosed` holds although nothing is assumed of the
  bridge or the receiver.
- `RuleEngine`: both threads of the bridge run. `Tick` has strong fairness: an idle
  bridge takes a waiting event before time passes, which disables `Tick` again and
  again, and strong fairness says that no infinity of events is handled at one
  moment. A bridge that is deaf connects again. `MaxBusy` bounds the handling of one event; the photo has a timeout of
  8 s, and every request that follows a timeout of its own.
- `CameraHealth`: time, which ends the lives of keys, runs, and the probe.
- `Ptz`: the runs, the publication and the bridge's refresh; a head in motion
  arrives, the dwell ends, and an orphaned lock expires.
- `DevicePaths`: sessions and tasks end, and Celery delivers refreshes.
- `EventStream`: the refresh loop, each task that is ready, and Docker's restart.
- `NodeStatus`: requests that were read, the check, and time.
- `NodeCommands`: the agent polls and works, a poll that listed goes on. A poll is
  accepted again and again (strong fairness of `List`): a request may be refused or
  given up, but not every one.
- `Pipelines` states no liveness and assumes none.

## Proofs

Every theorem holds for all values of the constants under the named assumptions of
the modules: any number of incidents, levels, passes, operators, runs, sessions,
requests, presets, addresses and faults.

- `IncidentsProofs!TypeCorrect`: `Spec => []TypeOK`. The delicate part is that
  `Newest` and `NextLevel` choose from sets that are not empty; two lemmas show
  that a non-empty set of incidents has a greatest element and that the next
  level is one of the higher ones.
- `IncidentsProofs!RowsConsistent`: not inductive by itself, because the receiver
  saves a whole instance it read earlier. `RowInv` adds that this instance is
  itself consistent. All other saves write the columns the predicate relates.
- `IncidentsProofs!LevelsExplained`: a row's level is saved from the copy a pass
  holds or from the receiver's instance, so `LevelInv` says of those too that
  their level is explained. The entry is written before the level and entries are
  never removed, which is why neither a crash nor an overlap breaks it.
- `IncidentsProofs!ClosuresExplained` assumes that nothing fails (`MaxFaults = 0`).
  `ClosureInv` keeps, for every closed row, either its entry or the process that owes
  it, and says that the receiver's instance is of an active row, so that its save
  closes nothing.
- `IncidentsProofs!SnapshotsKept`, with any faults, passes and operators: `FrameInv`
  says that the row names the last frame that was stored, and counts who may still
  store one: after two frames neither the bridge nor the receiver owes another, and
  after one not both do. Every other save leaves the column alone.
- `IncidentsProofs!NotifiesOnce`, `EnteredLevelsNotified` and `LifecyclesKept` have no
  premise: any number of passes, operators and faults, the receiver and the bridge's
  photo included. `CalmInv` says of each incident that is not disturbed how far its
  passes are: at most one has it in its list, and holds the level the row has, or the
  higher one it is about to save; a level that was notified has been reached, and is
  logged or about to be; one that was entered is notified or about to be, and nobody
  expires the incident meanwhile. Whatever breaks that puts the incident among the
  disturbed, for good. That `Incidents` implements `IncidentLifecycle` step by step
  needs an instance without saves of whole rows, and is model-checked only.
- `RuleEngineProofs!RulesTyped`: `Spec => []TypeOK`.
- `RuleEngineProofs!FiresOnlyWhileFresh` (an action property): `StaleInv` bounds the
  time a cached rule has been off by the refreshes that failed and the time since the
  last, and that of a rule still to try by the time of the event on top of a period.
- `RuleEngineProofs!FiresOnlyAfterPresence` compares two clocks. `LateInv` bounds the
  age of each waiting event by its place in the queue and the work on the one in hand.
  `SpanInv` says of each of them that it was published after the count the bridge keeps
  began, or belongs to a presence that was (`Fits`), and that while the bridge counts
  the camera has not been silent for longer than the count and `MaxLate` together, so
  that its presence is as long as the count. The bound follows for every gap, delay,
  queue, restart and lost connection.
- `CameraHealthProofs!OfflineOnlyAfterMisses` (an action property) and
  `AbsenceTimed`: until two processes overlap, `HealthInv` says that there is one, that
  neither the row nor a copy counts more failures than there were, except the row
  while a run that was answered is about to save, and that a camera offline because of
  runs has the time of the ping that did it while the key lives, and none after,
  except at that same moment.
- `CameraHealthProofs!HealthTyped` and `CountersExpire`: the second is about single
  Redis commands of any number of overlapping runs, each of which may die. A counter
  without expiry was created by an INCR whose run is before its EXPIRE, or has died
  there; a deletion in between, and the INCR of another run after it, make that run the
  one that owes it.
- `PipelinesProofs!AttributesEvents` and `DrawsShapesOnTheirStream`. `PipeInv` says
  how far a calm regeneration is (`Progress`): the pipelines before its turn are
  configured from what is wanted now, those it has filled have the numbers of that
  list, and those it has restarted run from both (`Done`). Any change, and any other
  regeneration, disturbs a calm one, so it stays alone until it ends and what it has
  done is what `settled` claims; nothing is claimed while another is at work
  (`Quiet`). Both
  queries order what they find in the same way, so two of the same set number it
  alike.
- `PtzProofs!OneMoverAlways`: `MoverInv` says that a run past the lock holds it,
  which the release by a `finally` that does not ask preserves only because no two
  runs are there; the theorem needs the invariant for that circle. A lapse breaks it,
  and it is whole again when no run is past the lock.
- `PtzProofs!PatrolsInOrder` (an action property) builds on it: `OrderInv` says that
  the index follows the last preset sent if it was noted, and is that one's if not,
  except while a run is between sending one and saving its index, and that this run
  knows both. The order may be edited meanwhile: a run that read the old one compares
  with the old one only.
- `DevicePathsProofs!NoPathsLeft`: from the deletion of the paths by the view on,
  there are no paths and no task that has taken up the row (`DeletedClean`), until a
  session saves the row again; a delete of the admin suspends that until the next of
  the view. `SessionsRevive` (an action property) follows from the types of the rows: a
  task saves columns, and only of a row that is there.
- `CentralProofs!AlertsMatch`: `StatusInv` says that while no two writers have
  overlapped there is one at most, that it knows the status until it saves its own,
  and owes the alert from then on; and that without any writer the alerts are those of
  the status if the last change was `kept`. `StatusTyped` adds the bounds.
- `CentralProofs!ExecutesAtMostOnce`, `StatusesExplained`, `HandsOutOldestFirst`
  and `CommandsTyped`. `NodeInv` says what may have run: nothing that was never handed
  out, nothing that the poll the agent waits for has listed or taken, and of the
  agent's queue, which has no command twice, only the head while it is reported; and
  a result under way is of one that ran; the outcome of one that is reported as an error
  is `raised` or `unsent`. Two polls that list the same commands are why this is not
  obvious: the second may save as sent what the first has handed out, and it is the
  agent's waiting for one poll alone that keeps it from running twice. A result is
  lost only by a fault, which is what explains a status that stays `sent`. The age of
  a pending command is preserved by the list, its first element and its rest; that a
  list has a first element is the well-foundedness of the numbers.

- `EventStreamProofs!PublishesInOrder`, `LosesNothing` and `StreamTyped`. `StreamInv`
  says that what was published lies before the buffer, and so before all that is
  still to come (`Behind`); that until the boundary is known the buffer begins where the
  connection does; and that what `NothingLost` claims, a code published, refused by Redis or in
  the buffer, is so for what was read (`Complete`). A cut takes off only parts longer than the buffer: an open short
  part begins after the last boundary, and no more than `BufferCap` symbols before the
  end. That there is a last boundary is the well-foundedness of the
  numbers, so the buffer, an interval, needs no induction over a sequence.

Every invariant and every action property that a passing run checks is stated by one
of these theorems. Only model-checked are the liveness properties, which rest on `WF` and `SF`, and so
on ENABLED, which is out of the prover's reach, and `ImplementsLifecycle`.

## Plan

Done: every module of the table above. What is left, the most useful first:

- `LevelNotification`: which channels a level reaches and what is logged (2 channels,
  3 answers); an entry of success had a channel that accepted.
- `FrameStream`: framing of the photos; `FaceReceiver`: counts of an identity under
  a thread per connection (2 frames, 2 threads).
- `RuleEngine` with several devices: rules whose devices are gone match all of them.
- `CameraHealth` with two pipelines: the sources merged under one index.
- `RuleEngine` composed with `Incidents`: deduplication against cooldown.

## Not modelled

- The views that only edit one table, the forms and dashboards: what they write that
  other components read is an action of these (`SwitchRule`, `ClearLadder`,
  `AssignSite`, `Edit`, `Open`, `SavePatrol`).
- The messages of the escalation backends: single requests without state.
- The drivers and the ONVIF client: requests without state. Their failures are
  actions of the modules that call them.
- Monitoring: collectors that write a row each, which nothing reads back.
- The C++ and Python pipeline: plugins of a framework; the probe's part in numbers
  and rates is in `Pipelines` and `CameraHealth`.
- The face receiver's matching is numerical; its counts, and the framing of the
  photo streams, are in the plan.
- The registration of nodes and the storage of metrics: a row each.
- The legacy DeepStream service: nothing starts it.
